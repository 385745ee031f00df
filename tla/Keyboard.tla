------------------------------ MODULE Keyboard ------------------------------
(****************************************************************************)
(* kbd_proc_data of kern/console.c: the decoder of PC scan codes, against   *)
(* a keyboard that sends make and break codes for the keys a hand presses,  *)
(* holds and releases.  Each byte travels with what the typist meant by it, *)
(* by the keys down and the locks struck and not by what the decoder makes  *)
(* of them (a history the code does not have), so that the decoder can be   *)
(* compared with the typing although it runs any number of bytes behind.    *)
(****************************************************************************)
EXTENDS Integers, Sequences, FiniteSets

CONSTANTS
  Keys,      \* the keys of the keyboard, among those ScanCode lists
  MaxWire    \* bytes the keyboard and its controller can hold

VARIABLES
  held,      \* keys down, struck or repeated since the last reset
  kept,      \* keys down since before it, of which this kernel has heard nothing
  repeating, \* the key the typematic repeat would send again, at most one
  wire,      \* bytes sent and not read yet, oldest first: [data, want, sure]
  shift,     \* kbd_proc_data's static flags
  locked,    \* history: the locks in force, each changed by a strike of its key
  astray     \* history: the flags the codes sent so far leave otherwise than meant

vars == <<held, kept, repeating, wire, shift, locked, astray>>

-----------------------------------------------------------------------------
(* The keyboard: external *)

\* The last byte of a key's make code, for the keys modelled.
ScanCode == [ a |-> 30, one |-> 2, enter |-> 28, kpdot |-> 83, del |-> 83,
              home |-> 71, caps |-> 58, num |-> 69, lshift |-> 42,
              rshift |-> 54, lctl |-> 29, rctl |-> 29, lalt |-> 56, ralt |-> 56 ]

ASSUME KeysAssumption == MaxWire \in Nat /\ Keys \subseteq DOMAIN ScanCode

\* The keys whose codes follow an E0 byte, and those among them around which a
\* keyboard that compensates for Shift or NumLock sends a shift of its own.
Prefixed == {"del", "home", "rctl", "ralt"}
Compensated == {"del", "home"}

\* What the keys mean: the character by level, and the modifier.  A key with a
\* code of its own beyond ASCII keeps it at every level.
KEY_HOME == 224
KEY_DEL  == 233
Legend(k) ==
  CASE k = "a"     -> [normal |-> 97,  shifted |-> 65,  ctl |-> 1]
    [] k = "one"   -> [normal |-> 49,  shifted |-> 33,  ctl |-> 0]
    [] k = "enter" -> [normal |-> 10,  shifted |-> 10,  ctl |-> 13]
    [] k = "kpdot" -> [normal |-> 46,  shifted |-> 46,  ctl |-> 0]
    [] k = "del"   -> [normal |-> KEY_DEL, shifted |-> KEY_DEL, ctl |-> KEY_DEL]
    [] k = "home"  -> [normal |-> KEY_HOME, shifted |-> KEY_HOME, ctl |-> KEY_HOME]
    [] OTHER       -> [normal |-> 0, shifted |-> 0, ctl |-> 0]

Holds(k) == CASE k \in {"lshift", "rshift"} -> {"SHIFT"}
              [] k \in {"lctl", "rctl"}     -> {"CTL"}
              [] k \in {"lalt", "ralt"}     -> {"ALT"}
              [] OTHER                      -> {}

Locks(k) == CASE k = "caps" -> {"CAPSLOCK"}
              [] k = "num"  -> {"NUMLOCK"}
              [] OTHER      -> {}

Toggle(set, bits) == (set \ bits) \cup (bits \ set)

SwapCaseUnbounded(c) == IF c <= 122 THEN c - 32 ELSE c   \* mutant: no lower bound

SwapCase(c) == CASE c \in 97 .. 122 -> c - 32
                 [] c \in 65 .. 90  -> c + 32
                 [] OTHER           -> c

\* What the typist means by key k when m is in force.
Meaning(k, m) ==
  LET level == IF "CTL" \in m THEN Legend(k).ctl
               ELSE IF "SHIFT" \in m THEN Legend(k).shifted ELSE Legend(k).normal
  IN [ c      |-> IF "CAPSLOCK" \in m THEN SwapCase(level) ELSE level,
       reboot |-> k = "del" /\ {"CTL", "ALT"} \subseteq m ]

\* Keys that kbd_proc_data looks up elsewhere than their meaning is: ctlmap has
\* Home at 97 and not at C7, and no table is chosen by NUMLOCK, without which
\* (or with Shift) the keypad's period is a second Del.
Misplaced(k, m) ==
  \/ k = "home" /\ "CTL" \in m
  \/ k = "kpdot" /\ (("NUMLOCK" \in m) = ("SHIFT" \in m))

Nothing == [c |-> 0, reboot |-> FALSE]

Quiet(data) == [data |-> data, want |-> Nothing, sure |-> TRUE]

\* A make or break code with its prefix, and the ways it may be framed by a
\* compensating shift.
Code(k, data, want, sure) ==
  (IF k \in Prefixed THEN <<Quiet(224)>> ELSE <<>>) \o
  <<[data |-> data, want |-> want, sure |-> sure]>>

Fakes(k) ==
  {<<>>} \cup IF k \in Compensated
              THEN {<<Quiet(224), Quiet(42)>>, <<Quiet(224), Quiet(170)>>} ELSE {}

Send(bytes) ==
  /\ Len(wire) + Len(bytes) <= MaxWire
  /\ wire' = wire \o bytes

\* The flags the typist has in mind: held down by keys, or locked.
InForce(keys, locks) == (UNION {Holds(k) : k \in keys}) \cup locks

\* A make code is sent, with locks in force and the flags in wrong astray.
Make(k, locks, wrong) ==
  LET m == InForce(held \cup {k}, locks) IN
  /\ \E fake \in Fakes(k) :
       Send(fake \o Code(k, ScanCode[k], Meaning(k, m), wrong = {} /\ ~Misplaced(k, m)))
  /\ held' = held \cup {k} /\ kept' = kept \ {k} /\ repeating' = {k}
  /\ locked' = locks /\ astray' = wrong
  /\ UNCHANGED shift

\* A key goes down.  It turns its modifier on for the decoder as well.
Press(k) ==
  /\ k \notin held \cup kept
  /\ Make(k, Toggle(locked, Locks(k)), astray \ Holds(k))

\* A key repeats, which the code cannot tell from a strike: a lock held down
\* toggles again and again (console.c:347).
Repeat(k) ==
  /\ k \in repeating
  /\ Make(k, locked, Toggle(astray \ Holds(k), Locks(k)))

\* A key goes up: its break code.  Its modifier stays in force while a twin
\* holds it, but the decoder keeps one flag for both (console.c:337-344).
Release(k) ==
  /\ k \in held \cup kept
  /\ \E fake \in Fakes(k) : Send(Code(k, ScanCode[k] + 128, Nothing, TRUE) \o fake)
  /\ held' = held \ {k} /\ kept' = kept \ {k} /\ repeating' = repeating \ {k}
  /\ astray' = (astray \ Holds(k)) \cup (Holds(k) \cap InForce(held', {}))
  /\ UNCHANGED <<shift, locked>>

-----------------------------------------------------------------------------
(* kbd_proc_data *)

shiftcode(data) ==
  CASE data \in {29, 157} -> {"CTL"}
    [] data \in {42, 54}  -> {"SHIFT"}
    [] data \in {56, 184} -> {"ALT"}
    [] OTHER              -> {}

togglecode(data) ==
  CASE data = 58 -> {"CAPSLOCK"}
    [] data = 69 -> {"NUMLOCK"}
    [] data = 70 -> {"SCROLLLOCK"}
    [] OTHER     -> {}

\* The three maps at the codes of the keys modelled; NO elsewhere.
normalmap(data) ==
  CASE data = 2 -> 49 [] data = 28 -> 10 [] data = 30 -> 97 [] data = 83 -> 46
    [] data = 199 -> KEY_HOME [] data = 211 -> KEY_DEL [] OTHER -> 0

shiftmap(data) ==
  CASE data = 2 -> 33 [] data = 28 -> 10 [] data = 30 -> 65 [] data = 83 -> 46
    [] data = 199 -> KEY_HOME [] data = 211 -> KEY_DEL [] OTHER -> 0

ctlmap(data) ==
  CASE data = 28 -> 13 [] data = 30 -> 1 [] data = 151 -> KEY_HOME
    [] data = 211 -> KEY_DEL [] OTHER -> 0

charcode(flags, data) ==
  IF "CTL" \in flags THEN ctlmap(data)
  ELSE IF "SHIFT" \in flags THEN shiftmap(data) ELSE normalmap(data)

\* Mutants of Broken: the prefix outlives the break code; the high bit goes, prefix or not.
BrokenKeepsPrefix(flags, data) ==
  flags \ shiftcode(IF "E0ESC" \in flags THEN data ELSE data - 128)
BrokenUnprefixed(flags, data) == flags \ (shiftcode(data - 128) \cup {"E0ESC"})

\* A break code clears its modifier and the prefix; after a prefix the code is
\* looked up with its high bit.
Broken(flags, data) ==
  flags \ (shiftcode(IF "E0ESC" \in flags THEN data ELSE data - 128) \cup {"E0ESC"})

Made(flags, data) ==
  LET code == IF "E0ESC" \in flags THEN data + 128 ELSE data
      now  == Toggle((flags \ {"E0ESC"}) \cup shiftcode(code), togglecode(code))
      c    == charcode(now, code)
  IN [ shift |-> now,
       out   |-> [ c      |-> IF "CAPSLOCK" \in now THEN SwapCase(c) ELSE c,
                   reboot |-> {"CTL", "ALT"} \subseteq now /\ c = KEY_DEL ] ]

\* The flags and the result after one byte.
kbd_proc_data(flags, data) ==
  IF data = 224 THEN [shift |-> flags \cup {"E0ESC"}, out |-> Nothing]
  ELSE IF data >= 128 THEN [shift |-> Broken(flags, data), out |-> Nothing]
  ELSE Made(flags, data)

\* The kernel reads a byte.  Ctrl-Alt-Del resets the machine: the firmware
\* swallows what is on the wire and puts the locks out, and the static flags
\* start from zero while fingers may still be on the keys.  What they hold
\* means nothing to the new kernel until it is struck again or repeats.
Decode ==
  /\ wire # <<>>
  /\ LET r == kbd_proc_data(shift, Head(wire).data) IN
     IF r.out.reboot
     THEN /\ shift' = {} /\ wire' = <<>> /\ locked' = {} /\ astray' = {}
          /\ held' = {} /\ kept' = kept \cup held
     ELSE shift' = r.shift /\ wire' = Tail(wire) /\ UNCHANGED <<held, kept, locked, astray>>
  /\ UNCHANGED repeating

-----------------------------------------------------------------------------
Init ==
  /\ held = {} /\ kept = {} /\ repeating = {}
  /\ wire = <<>> /\ shift = {}
  /\ locked = {} /\ astray = {}

Next ==
  \/ \E k \in Keys : Press(k) \/ Repeat(k) \/ Release(k)
  \/ Decode

Spec == Init /\ [][Next]_vars

-----------------------------------------------------------------------------
(* Properties *)

Flags == {"SHIFT", "CTL", "ALT", "CAPSLOCK", "NUMLOCK", "SCROLLLOCK", "E0ESC"}

\* The flags are the seven there are, and what the next byte decodes to is a
\* character code that cons_intr can store.
TypeOK ==
  /\ held \subseteq Keys /\ kept \subseteq Keys
  /\ repeating \subseteq held \cup kept /\ Cardinality(repeating) <= 1
  /\ Len(wire) <= MaxWire
  /\ \A i \in DOMAIN wire : wire[i].data \in 0 .. 255
  /\ shift \subseteq Flags /\ locked \subseteq Flags /\ astray \subseteq Flags
  /\ wire # <<>> => kbd_proc_data(shift, Head(wire).data).out.c \in 0 .. 255

\* However far behind it reads, and whatever prefixes and compensating shifts
\* surround them, kbd_proc_data makes of each byte what the typist meant: the
\* character on the key, and a reboot exactly on Ctrl-Alt-Del.  Four cases are
\* excluded (sure), all departures of the code from what is meant: a lock that
\* repeated, a modifier of which one twin went up (also for Ctrl-Alt-Del,
\* against the comment at console.c:358), Ctrl-Home, and the keypad's
\* period where Num Lock says otherwise (console.c:296, :337-344, :347, :349).
DecodedAsTyped ==
  wire # <<>> /\ Head(wire).sure =>
    kbd_proc_data(shift, Head(wire).data).out = Head(wire).want

\* Once all is read no modifier outlives the keys that hold it, through
\* repeats, twins released in any order and a reboot under the fingers, also
\* not because of a key that was down before it; and no E0 prefix is left over
\* to misread the next key.
NoStuckModifier ==
  wire = <<>> =>
    /\ "E0ESC" \notin shift
    /\ \A m \in shift \cap {"SHIFT", "CTL", "ALT"} : \E k \in held : m \in Holds(k)
=============================================================================
