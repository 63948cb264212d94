------------------------------ MODULE AltFiles ------------------------------
(***************************************************************************)
(* The file descriptor layer of the HAL: the lists of devices and file     *)
(* systems, the pool of descriptors, the system calls that act on them,    *)
(* and the way alt_main sets up the standard streams before main.          *)
(* A system call is an operator from the pool it finds to the pool it      *)
(* leaves, its result rc, -1 when it fails, and the errno it then sets;    *)
(* "ok" says whether the driver's own function, if any, succeeds.          *)
(* A name is the sequence of its components.                               *)
(***************************************************************************)
EXTENDS Integers, SequencesExt

CONSTANTS ALT_MAX_FD,
          Devices,       \* registered by alt_sys_init, alt_dev_null apart
          FileSystems,
          alt_dev_null, Nil,
          path,          \* the name of a device, the mount point of a file
                         \* system; Nil when it has none
          Provides,      \* the functions a device or file system provides
          Console,       \* ALT_STDIN, ALT_STDOUT and ALT_STDERR
          FileNames      \* what the program opens

Registrable == Devices \cup FileSystems
Backends == Registrable \cup {alt_dev_null}

ASSUME FilesAssumption ==
  /\ ALT_MAX_FD \in Nat /\ ALT_MAX_FD > 3
  /\ Nil \notin Backends /\ alt_dev_null \notin Registrable
  /\ Devices \cap FileSystems = {}
  /\ Provides[alt_dev_null] = {"write"}

VARIABLES
  alt_dev_list, alt_fs_list,   \* first entry first
  pool,      \* alt_fd_list (fd) and alt_max_fd (max)
  stage,     \* progress of alt_main
  held       \* history: descriptors open() gave the program

filesVars == <<alt_dev_list, alt_fs_list, pool, stage, held>>

Fd == 0 .. ALT_MAX_FD - 1
Stdio == 0 .. 2
AccessMode == {"RDONLY", "WRONLY", "RDWR"}
Reserved == {"EXCL", "DEV"}               \* ALT_FD_FLAGS_MASK
Changeable == {"APPEND", "NONBLOCK"}      \* ALT_FCNTL_FLAGS_MASK
Descriptor == [dev : Backends \cup {Nil}, acc : AccessMode,
               flags : SUBSET (Reserved \cup Changeable)]

Unallocated == [dev |-> Nil, acc |-> "RDONLY", flags |-> {}]

FilesInit ==
  /\ alt_dev_list = <<alt_dev_null>> /\ alt_fs_list = <<>>
  /\ pool = [fd |-> [i \in Fd |-> IF i \in Stdio
                                  THEN [Unallocated EXCEPT !.dev = alt_dev_null]
                                  ELSE Unallocated],
             max |-> -1]
  /\ stage = "alt_sys_init" /\ held = {}

Fails(p, e) == [pool |-> p, rc |-> -1, errno |-> e]
Succeeds(p, rc) == [pool |-> p, rc |-> rc, errno |-> "unchanged"]
Provided(dev, f) == f \in Provides[dev]

\* What the driver of the JTAG UART provides, the small and the fast one.
ALTERA_AVALON_JTAG_UART_DEV_INSTANCE(small) ==
  {"read", "write"} \cup (IF small THEN {} ELSE {"close", "ioctl"})

----------------------------------------------------------------------------
(* Finding and allocating.                                                 *)

\* The first entry that matches, or Nil.
FirstOf(list, Match(_)) ==
  LET i == SelectInSeq(list, Match) IN IF i = 0 THEN Nil ELSE list[i]

\* A device by exactly its name; a file system by a prefix that ends at '/'.
alt_find_dev(name, list) == FirstOf(list, LAMBDA d : path[d] = name)
alt_find_file(name) == FirstOf(alt_fs_list, LAMBDA fs : IsPrefix(path[fs], name))

\* The first free descriptor; its flags are those it was released with.
alt_get_fd(p, dev) ==
  LET free == {i \in Fd : p.fd[i].dev = Nil}
      i == Min(free)
  IN IF free = {} THEN Fails(p, "unchanged")
     ELSE Succeeds([fd |-> [p.fd EXCEPT ![i].dev = dev],
                    max |-> IF i > p.max THEN i ELSE p.max], i)

\* The standard streams are never released, nor a descriptor below zero.
alt_release_fd(p, i) == IF i > 2 THEN [p EXCEPT !.fd[i] = Unallocated] ELSE p

Bug_LockedBelow(p, i) ==
  \E j \in 0 .. i : j # i /\ p.fd[j].dev = p.fd[i].dev /\ "EXCL" \in p.fd[j].flags

\* Another descriptor holds the device of descriptor i for itself.
alt_file_locked(p, i) ==
  \E j \in 0 .. p.max : j # i /\ p.fd[j].dev = p.fd[i].dev /\ "EXCL" \in p.fd[j].flags

\* The lock is granted when no descriptor below the highest one ever
\* allocated refers to the device.
alt_fd_lock(p, i) ==
  IF \E j \in 0 .. p.max - 1 : j # i /\ p.fd[j].dev = p.fd[i].dev
  THEN Fails(p, "EACCES")
  ELSE Succeeds([p EXCEPT !.fd[i].flags = @ \cup {"EXCL"}], 0)

alt_fd_unlock(p, i) == Succeeds([p EXCEPT !.fd[i].flags = @ \ {"EXCL"}], 0)

----------------------------------------------------------------------------
(* The system calls.                                                       *)

\* The descriptor as open() sets it up.
Opened(p, i, acc, flags, isafs) ==
  [p EXCEPT !.fd[i] =
     [dev |-> @.dev, acc |-> acc,
      flags |-> (flags \ Reserved) \cup (IF isafs THEN {} ELSE {"DEV"})]]

Bug_OpenKeeps(p, name, acc, flags, ok) ==
  LET isafs == alt_find_dev(name, alt_dev_list) = Nil
      dev == IF isafs THEN alt_find_file(name) ELSE alt_find_dev(name, alt_dev_list)
      got == alt_get_fd(p, dev)
      q == Opened(got.pool, got.rc, acc, flags, isafs)
  IN IF dev = Nil THEN Fails(p, "ENODEV")
     ELSE IF got.rc < 0 THEN Fails(p, "EMFILE")
     ELSE IF ~isafs /\ alt_file_locked(q, got.rc) THEN Fails(q, "EACCES")
     ELSE IF Provided(dev, "open") /\ ~ok
          THEN Fails(alt_release_fd(q, got.rc), "EIO")
     ELSE Succeeds(q, got.rc)

\* A device first, else a file system; whatever fails releases the descriptor
\* again, though not its mark in alt_max_fd.
ALT_OPEN(p, name, acc, flags, ok) ==
  LET isafs == alt_find_dev(name, alt_dev_list) = Nil
      dev == IF isafs THEN alt_find_file(name) ELSE alt_find_dev(name, alt_dev_list)
      got == alt_get_fd(p, dev)
      q == Opened(got.pool, got.rc, acc, flags, isafs)
  IN IF dev = Nil THEN Fails(p, "ENODEV")
     ELSE IF got.rc < 0 THEN Fails(p, "EMFILE")
     ELSE IF ~isafs /\ alt_file_locked(q, got.rc)
          THEN Fails(alt_release_fd(q, got.rc), "EACCES")
     ELSE IF Provided(dev, "open") /\ ~ok
          THEN Fails(alt_release_fd(q, got.rc), "EIO")
     ELSE Succeeds(q, got.rc)

\* The descriptor is released even when the driver reports a failure.
ALT_CLOSE(p, i, ok) ==
  IF i < 0 THEN Fails(p, "EBADFD")
  ELSE LET q == alt_release_fd(p, i)
       IN IF Provided(p.fd[i].dev, "close") /\ ~ok THEN Fails(q, "EIO")
          ELSE Succeeds(q, 0)

\* read and write: refused without the access or without the function.
Transfer(p, i, f, without, ok) ==
  IF i < 0 THEN Fails(p, "EBADFD")
  ELSE IF p.fd[i].acc = without \/ ~Provided(p.fd[i].dev, f) THEN Fails(p, "EACCES")
  ELSE IF ~ok THEN Fails(p, "EIO")
  ELSE Succeeds(p, 0)

ALT_READ(p, i, ok) == Transfer(p, i, "read", "WRONLY", ok)

\* /dev/null takes everything.
alt_dev_null_write(ok) == TRUE
ALT_WRITE(p, i, ok) ==
  Transfer(p, i, "write", "RDONLY",
           IF i >= 0 /\ p.fd[i].dev = alt_dev_null THEN alt_dev_null_write(ok) ELSE ok)

\* The exclusive access is the HAL's own business for devices; any other
\* request, and every request to a file system, is the driver's.
ALT_IOCTL(p, i, req, ok) ==
  IF i < 0 THEN Fails(p, "EBADFD")
  ELSE IF "DEV" \in p.fd[i].flags /\ req = "TIOCEXCL" THEN alt_fd_lock(p, i)
  ELSE IF "DEV" \in p.fd[i].flags /\ req = "TIOCNXCL" THEN alt_fd_unlock(p, i)
  ELSE IF ~Provided(p.fd[i].dev, "ioctl") THEN Fails(p, "ENOTTY")
  ELSE IF ~ok THEN Fails(p, "EIO")
  ELSE Succeeds(p, 0)

ALT_LSEEK(p, i, ok) ==
  IF i < 0 THEN Fails(p, "EBADFD")
  ELSE IF ~Provided(p.fd[i].dev, "lseek") THEN Fails(p, "ENOTSUP")
  ELSE IF ~ok THEN Fails(p, "EIO")
  ELSE Succeeds(p, 0)

\* A failing driver's result is passed on as it is, errno untouched; without
\* a function of its own the device is a character device.
ALT_FSTAT(p, i, ok) ==
  IF i < 0 THEN Fails(p, "EBADFD")
  ELSE IF Provided(p.fd[i].dev, "fstat") /\ ~ok THEN Fails(p, "unchanged")
  ELSE Succeeds(p, 0)

\* A device without fstat is a terminal; tty: what fstat tells of another.
ALT_ISATTY(p, i, tty) ==
  IF i < 0 THEN [Fails(p, "EBADFD") EXCEPT !.rc = 0]
  ELSE Succeeds(p, IF ~Provided(p.fd[i].dev, "fstat") \/ tty THEN 1 ELSE 0)

Bug_FcntlAll(p, i, cmd, flags) ==
  IF i < 0 THEN Fails(p, "EBADFD")
  ELSE CASE cmd = "F_GETFL" -> Succeeds(p, 0)
         [] cmd = "F_SETFL" -> Succeeds([p EXCEPT !.fd[i].flags = flags], 0)
         [] OTHER -> Fails(p, "EINVAL")

ALT_FCNTL(p, i, cmd, flags) ==
  IF i < 0 THEN Fails(p, "EBADFD")
  ELSE CASE cmd = "F_GETFL" -> Succeeds(p, 0)
         [] cmd = "F_SETFL" ->
              Succeeds([p EXCEPT !.fd[i].flags =
                          (@ \ Changeable) \cup (flags \cap Changeable)], 0)
         [] OTHER -> Fails(p, "EINVAL")

\* open, fstat and close, whatever the first of them gave: the errno of an
\* open that failed is overwritten by those of the other two.
ALT_STAT(p, name, ok) ==
  LET opened == ALT_OPEN(p, name, "RDONLY", {}, ok)
      asked == ALT_FSTAT(opened.pool, opened.rc, ok)
      closed == ALT_CLOSE(asked.pool, opened.rc, ok)
  IN [closed EXCEPT !.rc = asked.rc]

----------------------------------------------------------------------------
(* alt_main.                                                               *)

\* Registration puts the newest entry first; one without a name is refused.
alt_dev_llist_insert(list, dev) ==
  list' = IF path[dev] = Nil THEN list ELSE <<dev>> \o list

alt_fs_reg(fs) == alt_dev_llist_insert(alt_fs_list, fs)

\* alt_sys_init registers devices and file systems, in any order.
RegisterDevice ==
  /\ stage = "alt_sys_init"
  /\ \/ \E d \in Devices \ Range(alt_dev_list) :
          /\ alt_dev_llist_insert(alt_dev_list, d)
          /\ UNCHANGED alt_fs_list
     \/ \E fs \in FileSystems \ Range(alt_fs_list) :
          alt_fs_reg(fs) /\ UNCHANGED alt_dev_list
  /\ UNCHANGED <<pool, stage, held>>

\* Stream i takes over what a fresh descriptor refers to, and the descriptor
\* is released without being closed; if the device cannot be opened the
\* stream stays where it is.
alt_open_fd(p, i, name, acc, ok) ==
  LET old == ALT_OPEN(p, name, acc, {}, ok)
  IN IF old.rc >= 0
     THEN alt_release_fd([old.pool EXCEPT !.fd[i] = old.pool.fd[old.rc]], old.rc)
     ELSE old.pool

\* From pool p to pool q, one stream after the other.
alt_io_redirect(p, q, out, in, err) ==
  \E o \in {alt_open_fd(p, 1, Console[1], "WRONLY", out)} :
    \E i \in {alt_open_fd(o, 0, Console[0], "RDONLY", in)} :
      q = alt_open_fd(i, 2, Console[2], "WRONLY", err)

Redirect ==
  /\ stage = "alt_sys_init" /\ stage' = "main"
  /\ \E out, in, err \in BOOLEAN : alt_io_redirect(pool, pool', out, in, err)
  /\ UNCHANGED <<alt_dev_list, alt_fs_list, held>>

\* main returns: standard output is closed, then exit() never returns.
MainReturns ==
  /\ stage = "main" /\ stage' = "exit"
  /\ \E ok \in BOOLEAN : pool' = ALT_CLOSE(pool, 1, ok).pool
  /\ UNCHANGED <<alt_dev_list, alt_fs_list, held>>

----------------------------------------------------------------------------
(* The program: it uses standard streams, descriptors it holds, and the -1 *)
(* of an open() whose failure it did not look at.                          *)

Usable == Stdio \cup held \cup {-1}

CallsOn(i, ok) ==
  {ALT_READ(pool, i, ok), ALT_WRITE(pool, i, ok), ALT_LSEEK(pool, i, ok),
   ALT_FSTAT(pool, i, ok), ALT_ISATTY(pool, i, ok)}
  \cup {ALT_IOCTL(pool, i, req, ok) : req \in {"TIOCEXCL", "TIOCNXCL", "other"}}
  \cup {ALT_FCNTL(pool, i, cmd, flags) :
          cmd \in {"F_GETFL", "F_SETFL", "other"}, flags \in {{}, {"NONBLOCK", "EXCL"}}}

Open ==
  \E name \in FileNames, flags \in {{}, {"NONBLOCK", "EXCL"}}, ok \in BOOLEAN :
    LET r == ALT_OPEN(pool, name, "RDWR", flags, ok)
    IN /\ pool' = r.pool
       /\ held' = IF r.rc >= 0 THEN held \cup {r.rc} ELSE held

Close ==
  \E i \in Usable, ok \in BOOLEAN :
    pool' = ALT_CLOSE(pool, i, ok).pool /\ held' = held \ {i}

Use ==
  /\ \/ \E i \in Usable, ok \in BOOLEAN : \E r \in CallsOn(i, ok) : pool' = r.pool
     \/ \E name \in FileNames, ok \in BOOLEAN : pool' = ALT_STAT(pool, name, ok).pool
  /\ UNCHANGED held

FilesNext ==
  \/ RegisterDevice \/ Redirect \/ MainReturns
  \/ /\ stage = "main" /\ (Open \/ Close \/ Use)
     /\ UNCHANGED <<alt_dev_list, alt_fs_list, stage>>

FilesSpec == FilesInit /\ [][FilesNext]_filesVars

----------------------------------------------------------------------------
FilesTypeOK ==
  /\ pool.fd \in [Fd -> Descriptor] /\ pool.max \in -1 .. ALT_MAX_FD - 1
  /\ held \subseteq Fd

\* No descriptor is lost and none is in two hands: those in use are the
\* standard streams and what open() returned and close() has not taken back,
\* whatever failed half way through open, stat or the redirection.
NoDescriptorLost ==
  {i \in Fd : pool.fd[i].dev # Nil} = Stdio \cup held

\* A device locked by one descriptor is not opened through another, nor
\* locked by it as well: the high-water mark never hides a lock.
LockRespected ==
  [][\A i, j \in Fd :
       /\ i # j /\ pool.fd[i].dev # Nil
       /\ "EXCL" \in pool.fd[i].flags \cap pool'.fd[i].flags
       /\ pool'.fd[j].dev = pool.fd[i].dev
       => /\ pool.fd[j].dev = pool.fd[i].dev
          /\ "EXCL" \notin pool'.fd[j].flags]_filesVars

\* The program cannot forge the flags the HAL keeps for itself: only
\* descriptors of devices are marked as such, and only they are ever locked.
ReservedFlagsTrue ==
  \A i \in Fd :
    /\ "DEV" \in pool.fd[i].flags => pool.fd[i].dev \notin FileSystems \cup {Nil}
    /\ i \in held /\ "DEV" \notin pool.fd[i].flags => pool.fd[i].dev \in FileSystems
    /\ "EXCL" \in pool.fd[i].flags => "DEV" \in pool.fd[i].flags

\* Both: what the HAL knows of its descriptors is what the program was given.
DescriptorsSound == NoDescriptorLost /\ ReservedFlagsTrue

\* alt_fd_lock.c:43-45: the lock is granted if no other open descriptor
\* refers to the device.
LockedAlone ==
  \A i, j \in Fd : i # j /\ "EXCL" \in pool.fd[i].flags =>
                     pool.fd[j].dev # pool.fd[i].dev
=============================================================================
