--------------------------- MODULE MCConsoleInput ---------------------------
(* Model of ConsoleInput for TLC: a ring of a few slots, a few bytes.       *)
EXTENDS ConsoleInput

CONSTANT MaxArrivals   \* bound: bytes the devices deliver, after which they
                       \* are silent

MCNext ==
  \/ Step
  \/ /\ arrivals < MaxArrivals
     /\ \/ \E b \in SerialBytes : SerialArrive(b)
        \/ \E b \in KbcBytes : KbcArrive(b)

MCSpec == Init /\ [][MCNext]_vars /\ WF_vars(Step)
=============================================================================
