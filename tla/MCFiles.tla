------------------------------ MODULE MCFiles -------------------------------
(* A small instance of AltFiles: the console, by its fast driver, which has *)
(* more to fail; a second device that has every other function, an unnamed *)
(* one, and a file system mounted on /m.                                   *)
EXTENDS AltFiles

MCDevices == {"JTAG_UART", "lcd", "unnamed"}
MCFileSystems == {"ro_zipfs"}
MCPath == ("JTAG_UART" :> <<"dev", "JTAG_UART">>) @@ ("lcd" :> <<"dev", "lcd">>)
          @@ ("unnamed" :> Nil) @@ ("ro_zipfs" :> <<"m">>)
          @@ (alt_dev_null :> <<"dev", "null">>)
MCProvides == ("JTAG_UART" :> ALTERA_AVALON_JTAG_UART_DEV_INSTANCE(FALSE))
              @@ ("lcd" :> {"open", "close", "write", "lseek", "fstat"})
              @@ ("unnamed" :> {}) @@ (alt_dev_null :> {"write"})
              @@ ("ro_zipfs" :> {"open", "read", "fstat"})
MCConsole == [i \in 0 .. 2 |-> <<"dev", "JTAG_UART">>]
MCFileNames == {<<"dev", "lcd">>, <<"m", "file">>, <<"mm">>}
=============================================================================
