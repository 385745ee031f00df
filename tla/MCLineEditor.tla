---------------------------- MODULE MCLineEditor ----------------------------
(* Model of LineEditor for TLC: a screen of three short rows.               *)
EXTENDS LineEditor

CONSTANT MaxTop   \* bound: cells scrolled off the top

MCNext == Next /\ term'.top <= MaxTop

MCSpec == Init /\ [][MCNext]_vars
=============================================================================
