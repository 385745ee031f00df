------------------------------ MODULE LossyFifo ------------------------------
(***************************************************************************)
(* What the console input ring amounts to: a first-in first-out queue that *)
(* holds fewer than Size characters, and that forgets all of them when the *)
(* one that would make Size arrives.                                       *)
(***************************************************************************)
EXTENDS Integers, Sequences

CONSTANTS
  Size,   \* slots of the ring
  Chars   \* what is stored

VARIABLE queue

Put(c) ==
  queue' = IF Len(queue) + 1 < Size THEN Append(queue, c) ELSE <<>>

Get ==
  /\ queue # <<>>
  /\ queue' = Tail(queue)

Init == queue = <<>>

Next == Get \/ \E c \in Chars : Put(c)

Spec == Init /\ [][Next]_queue
=============================================================================
