----------------------------- MODULE MCKeyboard -----------------------------
(* Model of Keyboard for TLC: a hand that holds a few keys of one group.    *)
EXTENDS Keyboard

CONSTANT MaxHeld   \* bound: keys down at once

\* bound: the keys that may be down, or have a lock in force, together.  The
\* first group has the case of a letter: Caps Lock, both Shifts and a Ctrl; the
\* second Ctrl-Alt-Del with the twins of both, prefixed and not; the third a key
\* that shares its scan code with a prefixed one, and the other levels.
Groups == { {"a", "caps", "lshift", "rshift", "rctl"},
            {"a", "del", "lctl", "rctl", "lalt", "ralt"},
            {"kpdot", "home", "one", "enter", "num", "lshift", "lctl"} }

MCKeys == UNION Groups

MCNext ==
  /\ Next
  /\ Cardinality(held' \cup kept') <= MaxHeld
  /\ \E group \in Groups :
       /\ held' \cup kept' \subseteq group
       /\ locked' \cup astray' \subseteq UNION {Holds(k) \cup Locks(k) : k \in group}

MCSpec == Init /\ [][MCNext]_vars
=============================================================================
