----------------------------- MODULE AltPrintf ------------------------------
(***************************************************************************)
(* The two small formatters of the HAL: alt_printf, and the state machine  *)
(* alt_log_private_printf takes through a format one character at a time.  *)
(* A format is given as the list of its items, so that what it should      *)
(* print can be said without parsing it; the machines see its characters.  *)
(***************************************************************************)
EXTENDS Integers, SequencesExt

CONSTANTS Nibbles,   \* hexadecimal digits of an unsigned int (8)
          PrintfCalls   \* the formatter, the items of the format, and the
                        \* arguments, each a number n and a string s

\* An unsigned int is below 16 to the number of its nibbles.
Weight == LET power[i \in Nat] == IF i = 0 THEN 1 ELSE 16 * power[i - 1] IN power
UInt == Weight[Nibbles]
Lower == <<"0", "1", "2", "3", "4", "5", "6", "7", "8", "9", "a", "b", "c", "d", "e", "f">>
Upper == <<"0", "1", "2", "3", "4", "5", "6", "7", "8", "9", "A", "B", "C", "D", "E", "F">>
Blank == " "
Decimal == {Lower[i] : i \in 1 .. 10}
DigitOf(c) == SelectInSeq(Lower, LAMBDA d : d = c) - 1

\* An item is a character, a last "%", or a directive: leading zero, width and precision
\* (one digit each, or none), l, and the letter.
Item ==
  [type : STRING, c : STRING, zero : {<<>>, <<"0">>},
   width : {<<>>} \cup {<<d>> : d \in Decimal \ {"0"}},
   dot : {<<>>, <<".">>} \cup {<<".", d>> : d \in Decimal}, long : {<<>>, <<"l">>}]
Unmodified(item) == item.zero = <<>> /\ item.width = <<>> /\ item.dot = <<>> /\ item.long = <<>>

Chars(item) ==
  IF item.type = "char" THEN <<item.c>> ELSE IF item.type = "end" THEN <<"%">>
  ELSE <<"%">> \o item.zero \o item.width \o item.dot \o item.long \o <<item.type>>

\* A dot, a digit or an l is no letter of a directive.
Modifier(c) == c \in Decimal \cup {".", "l"}
Letters == {"d", "i", "u", "o", "x", "X", "c", "s"}
Takes(item) == item.type \in Letters
ArgNumber(list, i) == Cardinality({j \in 1 .. i : Takes(list[j])})

\* The list gives the characters of the format in one way only; there are as
\* many arguments as directives; alt_printf knows three letters and no modifier.
Legal(call, i) ==
  LET item == call.items[i]
      n == ArgNumber(call.items, i)
  IN /\ item.type = "char" => item.c # "%"
     /\ item.type = "end" => i = Len(call.items)
     /\ item.type = "%" => Unmodified(item)
     /\ ~Modifier(item.type)
     /\ Takes(item) => n <= Len(call.args)
     /\ item.type = "c" => Len(call.args[n].s) = 1
     /\ call.who = "alt_printf" => Unmodified(item) /\ item.type \notin Letters \ {"c", "x", "s"}

ASSUME PrintfAssumption ==
  /\ Nibbles \in Nat \ {0}
  /\ \A call \in PrintfCalls :
       /\ call.who \in {"alt_printf", "alt_log"}
       /\ call.items \in Seq(Item) /\ call.args \in Seq([n : 0 .. UInt - 1, s : Seq(STRING)])
       /\ \A i \in 1 .. Len(call.items) : Legal(call, i)

VARIABLES
  who,       \* the formatter that runs
  items, args0,   \* what it was called with
  w,         \* the characters it has not seen
  state,     \* pfState
  spec,      \* fmtLeadingZero, fmtLong, fmtBeforeDecimal, fmtAfterDecimal
  args,      \* arguments not yet taken
  out        \* printed

printfVars == <<who, items, args0, w, state, spec, args, out>>

NoSpec == [zero |-> FALSE, long |-> FALSE, before |-> -1, after |-> -1]

PrintfInit ==
  /\ \E call \in PrintfCalls : who = call.who /\ items = call.items /\ args0 = call.args
  /\ w = FlattenSeq([i \in 1 .. Len(items) |-> Chars(items[i])])
  /\ state = "chars" /\ spec = NoSpec /\ args = args0 /\ out = <<>>

Char == w[1]
Took == w' = Tail(w)
Emit(s) == out' = out \o s

----------------------------------------------------------------------------
(* Numbers.                                                                *)

alt_log_repchar(c, r) == [i \in 1 .. (IF r > 0 THEN r ELSE 0) |-> c]

\* How often v can be divided, and the largest power of base not above it.
DigitCount(v, base) ==
  LET count[x \in Nat] == IF x < base THEN 1 ELSE 1 + count[x \div base] IN count[v]
PlaceValue(v, base) ==
  LET place[x \in Nat] == IF x < base THEN 1 ELSE base * place[x \div base] IN place[v]

\* The digits from the largest place value down.
PlaceDigits(v, base, digit) ==
  LET from[p \in Nat] ==
        IF p = 0 THEN [x \in Nat |-> <<>>]
        ELSE [x \in Nat |-> <<digit[(x \div p) + 1]>> \o from[p \div base][x % p]]
  IN from[PlaceValue(v, base)][v]

Bug_SignNotCounted(v, signed, base, digit, s) ==
  LET sign == signed /\ 2 * v >= UInt
      size == IF sign THEN (UInt - v) % UInt ELSE v
      pad == s.before - DigitCount(size, base)
      minus == IF sign THEN <<"-">> ELSE <<>>
  IN IF s.zero THEN minus \o alt_log_repchar("0", pad) \o PlaceDigits(size, base, digit)
     ELSE alt_log_repchar(Blank, pad) \o minus \o PlaceDigits(size, base, digit)

\* doIntegerPrint
IntegerPrint(v, signed, base, digit, s) ==
  LET sign == signed /\ 2 * v >= UInt
      size == IF sign THEN (UInt - v) % UInt ELSE v
      pad == s.before - DigitCount(size, base) - (IF sign THEN 1 ELSE 0)
      minus == IF sign THEN <<"-">> ELSE <<>>
  IN IF s.zero THEN minus \o alt_log_repchar("0", pad) \o PlaceDigits(size, base, digit)
     ELSE alt_log_repchar(Blank, pad) \o minus \o PlaceDigits(size, base, digit)

\* The hexadecimal digits of alt_printf, from the first that is not zero.
HexDigits(v) ==
  LET digit(i) == (v \div Weight[i]) % 16
      top == Max({i \in 0 .. Nibbles - 1 : digit(i) # 0})
  IN IF v = 0 THEN <<"0">> ELSE [i \in 1 .. top + 1 |-> Lower[digit(top + 1 - i) + 1]]

----------------------------------------------------------------------------
(* alt_printf: one character, or a directive with its letter, at a time.   *)

alt_printf ==
  /\ who = "alt_printf" /\ w # <<>> /\ UNCHANGED <<state, spec>>
  /\ \/ Char # "%" /\ Emit(<<Char>>) /\ Took /\ UNCHANGED args
     \/ Char = "%" /\ Len(w) = 1 /\ Took /\ UNCHANGED <<args, out>>
     \/ /\ Char = "%" /\ Len(w) > 1 /\ w' = SubSeq(w, 3, Len(w))
        /\ LET c == w[2]
           IN /\ Emit(CASE c = "%" -> <<"%">>
                         [] c = "c" -> args[1].s
                         [] c = "x" -> HexDigits(args[1].n)
                         [] c = "s" -> args[1].s
                         [] OTHER -> <<>>)
              /\ args' = IF c \in {"c", "x", "s"} THEN Tail(args) ELSE args

----------------------------------------------------------------------------
(* alt_log_private_printf                                                  *)

Logs == who = "alt_log" /\ w # <<>> /\ Took

pfState_chars ==
  /\ Logs /\ state = "chars"
  /\ IF Char = "%" THEN state' = "firstFmtChar" /\ spec' = NoSpec /\ UNCHANGED out
     ELSE Emit(<<Char>>) /\ UNCHANGED <<state, spec>>
  /\ UNCHANGED args

pfState_firstFmtChar ==
  /\ Logs /\ state = "firstFmtChar" /\ UNCHANGED args
  /\ \/ Char = "0" /\ spec' = [spec EXCEPT !.zero = TRUE] /\ state' = "otherFmtChar"
        /\ UNCHANGED out
     \/ Char = "%" /\ Emit(<<"%">>) /\ state' = "chars" /\ UNCHANGED spec

\* Anything but a 0 or a % may come first after the % as well.
AtOther == state = "otherFmtChar" \/ (state = "firstFmtChar" /\ Char \notin {"0", "%"})

Accumulated(n, c) == (IF n < 0 THEN 0 ELSE 10 * n) + DigitOf(c)

pfState_otherFmtChar ==
  /\ Logs /\ AtOther /\ Modifier(Char)
  /\ spec' = CASE Char = "." -> [spec EXCEPT !.after = 0]
               [] Char = "l" -> [spec EXCEPT !.long = TRUE]
               [] spec.after < 0 /\ Char \in Decimal ->
                    [spec EXCEPT !.before = Accumulated(@, Char)]
               [] OTHER -> [spec EXCEPT !.after = Accumulated(@, Char)]
  /\ state' = "otherFmtChar" /\ UNCHANGED <<args, out>>

Convert(c, arg) ==
  CASE c \in {"d", "i"} -> IntegerPrint(arg.n, TRUE, 10, Lower, spec)
    [] c = "u" -> IntegerPrint(arg.n, FALSE, 10, Lower, spec)
    [] c = "o" -> IntegerPrint(arg.n, FALSE, 8, Lower, spec)
    [] c = "x" -> IntegerPrint(arg.n, FALSE, 16, Lower, spec)
    [] c = "X" -> IntegerPrint(arg.n, FALSE, 16, Upper, spec)
    [] c = "c" -> alt_log_repchar(Blank, spec.before - 1) \o arg.s
    [] c = "s" -> alt_log_repchar(Blank, spec.before - Len(arg.s)) \o arg.s

\* The letter; one that is none is dropped.
Conversion ==
  /\ Logs /\ AtOther /\ ~Modifier(Char)
  /\ IF Char \in Letters THEN Emit(Convert(Char, args[1])) /\ args' = Tail(args)
                         ELSE UNCHANGED <<args, out>>
  /\ state' = "chars" /\ UNCHANGED spec

alt_log_private_printf ==
  pfState_chars \/ pfState_firstFmtChar \/ pfState_otherFmtChar \/ Conversion

PrintfNext == /\ alt_printf \/ alt_log_private_printf
              /\ UNCHANGED <<who, items, args0>>

PrintfSpec == PrintfInit /\ [][PrintfNext]_printfVars

----------------------------------------------------------------------------
(* What a format means.                                                    *)

\* The shortest numeral of v, from its last digit backwards.
Numeral(v, base, digit) ==
  LET n[x \in Nat] == IF x < base THEN <<digit[x + 1]>>
                      ELSE Append(n[x \div base], digit[(x % base) + 1])
  IN n[v]

Widened(item, sign, body) ==
  LET width == IF item.width = <<>> THEN 0 ELSE DigitOf(item.width[1])
      lack == width - Len(sign \o body)
  IN IF item.zero # <<>> /\ item.type \notin {"c", "s"}
     THEN sign \o [i \in 1 .. lack |-> "0"] \o body
     ELSE [i \in 1 .. lack |-> Blank] \o sign \o body

Meaning(item, arg) ==
  CASE item.type = "char" -> <<item.c>>
    [] item.type = "%" -> <<"%">>
    [] item.type \in {"c", "s"} -> Widened(item, <<>>, arg.s)
    [] item.type \in {"d", "i"} ->
         IF 2 * arg.n < UInt THEN Widened(item, <<>>, Numeral(arg.n, 10, Lower))
         ELSE Widened(item, <<"-">>, Numeral(UInt - arg.n, 10, Lower))
    [] item.type = "u" -> Widened(item, <<>>, Numeral(arg.n, 10, Lower))
    [] item.type = "o" -> Widened(item, <<>>, Numeral(arg.n, 8, Lower))
    [] item.type = "x" -> Widened(item, <<>>, Numeral(arg.n, 16, Lower))
    [] item.type = "X" -> Widened(item, <<>>, Numeral(arg.n, 16, Upper))
    [] OTHER -> <<>>

ArgOf(i) == IF Takes(items[i]) THEN args0[ArgNumber(items, i)] ELSE [n |-> 0, s |-> <<>>]

\* A formatter prints what its format means, and takes one argument for each
\* directive; alt_printf knows fewer directives, and no width.
PrintsMeaning ==
  w = <<>> =>
    out = FlattenSeq([i \in 1 .. Len(items) |-> Meaning(items[i], ArgOf(i))])
=============================================================================
