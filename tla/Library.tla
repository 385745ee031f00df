------------------------------- MODULE Library -------------------------------
(***************************************************************************)
(* The kernel's sequential functions, each behaviour one call of one of    *)
(* them: memmove and memset (Memory), vsnprintf (Printfmt), runcmd         *)
(* (Monitor), and the string functions (Strings, Numerals).                *)
(***************************************************************************)
EXTENDS Memory, Printfmt, Monitor, Strings

vars == <<memory, printfmt, runcmd, stringvars>>

Init ==
  \/ MemoryInit /\ PrintfmtIdle /\ MonitorIdle /\ StringsIdle
  \/ MemoryIdle /\ PrintfmtInit /\ MonitorIdle /\ StringsIdle
  \/ MemoryIdle /\ PrintfmtIdle /\ MonitorInit /\ StringsIdle
  \/ MemoryIdle /\ PrintfmtIdle /\ MonitorIdle /\ StringsInit

Next ==
  \/ MemoryNext /\ UNCHANGED <<printfmt, runcmd, stringvars>>
  \/ PrintfmtNext /\ UNCHANGED <<memory, runcmd, stringvars>>
  \/ MonitorNext /\ UNCHANGED <<memory, printfmt, stringvars>>
  \/ StringsNext /\ UNCHANGED <<memory, printfmt, runcmd>>

Spec == Init /\ [][Next]_vars /\ WF_vars(Next)

-----------------------------------------------------------------------------
(* Properties *)

\* What a long, as wide as an unsigned, holds with either sign.
Held(n) == -UINT < 2 * n /\ 2 * n < UINT

\* strtol gives back the number that was printed, if a long holds it, with the
\* prefix of %p in base 16 and in base 0, with blanks or zeros before it, and
\* its sign (string.c:241-286, printfmt.c:190-229).
ReadBack ==
  /\ at \in {"text", "done"} /\ field.conv \in {"d", "x", "p"} /\ field.esc.padc # "-"
  /\ call.int < 0 \/ field.conv = "p" => field.esc.width <= 0
  /\ Held(IF field.conv = "d" THEN call.int
          ELSE Unsigned(call.int, IF field.conv = "p" THEN 0 ELSE field.esc.lflag))
  =>
    CASE field.conv = "d" -> strtol(field.text, 10) = call.int
      [] field.conv = "x" -> strtol(field.text, 16) = Unsigned(call.int, field.esc.lflag)
      [] field.conv = "p" -> /\ strtol(field.text, 0) = Unsigned(call.int, 0)
                             /\ strtol(field.text, 16) = Unsigned(call.int, 0)

\* The string functions do what their names promise, for strings that share
\* their tails, sizes that cut them anywhere and bytes above 127 (string.c:11-118,
\* :216-286).
StringsAgree == ScansExact /\ ComparesExact /\ CopiesExact /\ ReadBack

\* Every call returns: the loops of the format interpreter, the tokenizer, the
\* string functions and the string instructions all end.
Returns ==
  <>(/\ mempc \in {"idle", "done"} /\ at \in {"idle", "done", "refused"}
     /\ monpc \in {"idle", "returned"} /\ strpc \in {"idle", "returned"})
=============================================================================
