---------------------------- MODULE ConsoleOutput ----------------------------
(***************************************************************************)
(* cons_putc() of kern/console.c: every character goes to the serial port, *)
(* the parallel port and the screen.  The first two are polled until they  *)
(* can take it, but only so often; then it is written all the same.        *)
(* Characters are numbered in the order they are printed.                  *)
(***************************************************************************)
EXTENDS Integers, Sequences

CONSTANT MaxPolls   \* 12800

ASSUME PollsAssumption == MaxPolls \in Nat

VARIABLES
  putc,      \* [at, char, i]: where cons_putc is, with which character, after how many polls
  uart,      \* [there, held, out]: a character held until it is sent, those sent
  printer,   \* [there, busy, out]: those taken
  screen,    \* the last character shown
  gaveup     \* [serial, lpt]: how often the polling ended without an answer

console == <<putc, uart, printer, screen, gaveup>>

None == 0

ConsoleInit ==
  /\ putc = [at |-> "idle", char |-> 0, i |-> 0]
  /\ uart \in [there : BOOLEAN, held : {None}, out : {<<>>}]
  /\ printer \in [there : BOOLEAN, busy : BOOLEAN, out : {<<>>}]
  /\ printer.busy => printer.there
  /\ screen = 0
  /\ gaveup = [serial |-> 0, lpt |-> 0]

\* A port without a device reads as all ones, which says that it is ready.
UartReady == uart.there => uart.held = None
PrinterReady == printer.there => ~printer.busy

cons_putc ==
  /\ putc.at = "idle"
  /\ putc' = [at |-> "serial", char |-> putc.char + 1, i |-> 0]
  /\ UNCHANGED <<uart, printer, screen, gaveup>>

Poll ==
  /\ \/ putc.at = "serial" /\ ~UartReady
     \/ putc.at = "lpt" /\ ~PrinterReady
  /\ putc.i < MaxPolls
  /\ putc' = [putc EXCEPT !.i = @ + 1]
  /\ UNCHANGED <<uart, printer, screen, gaveup>>

\* Mutant of serial_putc: the port is not polled.
serial_putc_unpolled ==
  /\ putc.at = "serial"
  /\ uart' = IF uart.there THEN [uart EXCEPT !.held = putc.char] ELSE uart
  /\ gaveup' = gaveup
  /\ putc' = [putc EXCEPT !.at = "lpt", !.i = 0]
  /\ UNCHANGED <<printer, screen>>

\* A character written to a full holding register replaces the one in it.
serial_putc ==
  /\ putc.at = "serial" /\ (UartReady \/ putc.i >= MaxPolls)
  /\ uart' = IF uart.there THEN [uart EXCEPT !.held = putc.char] ELSE uart
  /\ gaveup' = IF UartReady THEN gaveup ELSE [gaveup EXCEPT !.serial = @ + 1]
  /\ putc' = [putc EXCEPT !.at = "lpt", !.i = 0]
  /\ UNCHANGED <<printer, screen>>

\* Mutant of lpt_putc: the polling has no bound.
lpt_putc_patient ==
  /\ putc.at = "lpt" /\ PrinterReady
  /\ printer' = IF printer.there
                THEN [printer EXCEPT !.busy = TRUE, !.out = Append(@, putc.char)] ELSE printer
  /\ gaveup' = gaveup
  /\ putc' = [putc EXCEPT !.at = "cga"]
  /\ UNCHANGED <<uart, screen>>

\* A busy printer misses the strobe.
lpt_putc ==
  /\ putc.at = "lpt" /\ (PrinterReady \/ putc.i >= MaxPolls)
  /\ printer' = IF printer.there /\ PrinterReady
                THEN [printer EXCEPT !.busy = TRUE, !.out = Append(@, putc.char)] ELSE printer
  /\ gaveup' = IF PrinterReady THEN gaveup ELSE [gaveup EXCEPT !.lpt = @ + 1]
  /\ putc' = [putc EXCEPT !.at = "cga"]
  /\ UNCHANGED <<uart, screen>>

cga_putc ==
  /\ putc.at = "cga"
  /\ screen' = putc.char
  /\ putc' = [putc EXCEPT !.at = "idle"]
  /\ UNCHANGED <<uart, printer, gaveup>>

Putc == Poll \/ serial_putc \/ lpt_putc \/ cga_putc

\* The devices, in their own time or never.
UartSends ==
  /\ uart.held # None
  /\ uart' = [uart EXCEPT !.held = None, !.out = Append(@, uart.held)]
  /\ UNCHANGED <<putc, printer, screen, gaveup>>

PrinterRests ==
  /\ printer.busy
  /\ printer' = [printer EXCEPT !.busy = FALSE]
  /\ UNCHANGED <<putc, uart, screen, gaveup>>

Devices == UartSends \/ PrinterRests

-----------------------------------------------------------------------------
(* Properties *)

ConsoleTypeOK ==
  /\ putc.at \in {"idle", "serial", "lpt", "cga"}
  /\ putc.char \in Nat /\ putc.i \in 0 .. MaxPolls
  /\ screen \in 0 .. putc.char

\* The characters a device has been given, of the ones printed so far.
Written(device) ==
  IF putc.at = "serial" \/ (putc.at = "lpt" /\ device = "lpt") THEN putc.char - 1 ELSE putc.char
UartTook == uart.out \o (IF uart.held = None THEN <<>> ELSE <<uart.held>>)

Ascending(s) == \A i, j \in DOMAIN s : i < j => s[i] < s[j]

\* The serial line and the printer get the printed characters in order, none
\* twice, and each one they miss cost a full round of polls of a device that
\* did not answer (console.c:71, :116): a device in working order misses none.
LossNeedsTimeout ==
  /\ Ascending(UartTook) /\ Ascending(printer.out)
  /\ uart.there => Written("serial") - Len(UartTook) <= gaveup.serial
  /\ printer.there => Written("lpt") - Len(printer.out) <= gaveup.lpt
=============================================================================
