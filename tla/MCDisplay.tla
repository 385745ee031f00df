------------------------------ MODULE MCDisplay ------------------------------
(* Model of Display for TLC: a screen of a few cells, scrolled a few times. *)
EXTENDS Display

CONSTANT MaxLost   \* bound: cells scrolled off the top

\* The four control codes and a sign-extended byte, which keeps the attribute
\* its sign bits give it.
MCCodes == {BS, TAB, NL, CR, -2}

MCNext == \E c \in Codes : Putc(c) /\ crt'.lost <= MaxLost

MCSpec == Init /\ [][MCNext]_crt
=============================================================================
