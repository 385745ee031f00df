---------------------------- MODULE KeyboardProofs ----------------------------
(* Theorems about Keyboard, for any keys of those it knows, in any number    *)
(* down at once, and any number of bytes between them and the decoder.       *)
EXTENDS Keyboard, FiniteSetTheorems, SequenceTheorems, TLAPS

Modifiers == {"SHIFT", "CTL", "ALT"}
LockFlags == {"CAPSLOCK", "NUMLOCK"}
Result == [c : 0 .. 255, reboot : BOOLEAN]
Packet == [data : 0 .. 255, want : Result, sure : BOOLEAN]

\* The decoder's flags when no prefix is pending.
Between == Flags \ {"E0ESC"}

\* The flags the codes sent so far lead the decoder to.
mods == Toggle(InForce(held, locked), astray)

\* A byte takes the decoder from flags a to flags b and gives what was meant,
\* where that is promised.
Decodes(a, x, b) ==
  LET r == kbd_proc_data(a, x.data)
  IN  r.shift = b /\ r.out \in Result /\ (x.sure => r.out = x.want)

\* So do some bytes, through the flags f.
Through(f, a, bytes, b) ==
  /\ f \in [1 .. Len(bytes) + 1 -> SUBSET Flags]
  /\ f[1] = a /\ f[Len(bytes) + 1] = b
  /\ \A i \in 1 .. Len(bytes) : Decodes(f[i], bytes[i], f[i + 1])

Path(a, bytes, b) == \E f : Through(f, a, bytes, b)

\* The inductive invariant: what is on the wire takes the decoder's flags to
\* those the codes sent leave it, which are the typist's but for the ones astray;
\* and a modifier is astray only while a key holds it.
Inv ==
  /\ held \subseteq Keys /\ kept \subseteq Keys
  /\ repeating \subseteq held \cup kept /\ \A k, j \in repeating : k = j
  /\ wire \in Seq(Packet) /\ Len(wire) <= MaxWire
  /\ shift \subseteq Flags /\ locked \subseteq LockFlags /\ astray \subseteq Between
  /\ Path(shift, wire, mods)
  /\ astray \cap Modifiers \subseteq InForce(held, {})

-----------------------------------------------------------------------------
(* Paths *)

\* Nothing sent, nothing changes.
LEMMA PathEmpty ==
  ASSUME NEW a \in SUBSET Flags
  PROVE  Path(a, <<>>, a)
<1> DEFINE f == [i \in 1 .. Len(<<>>) + 1 |-> a]
<1>1. Len(<<>>) = 0  OBVIOUS
<1>2. Through(f, a, <<>>, a)  BY <1>1 DEF Through
<1> QED BY <1>2 DEF Path

\* One byte.
LEMMA PathOne ==
  ASSUME NEW a \in SUBSET Flags, NEW b \in SUBSET Flags, NEW x, Decodes(a, x, b)
  PROVE  Path(a, <<x>>, b)
<1> DEFINE f == [i \in 1 .. Len(<<x>>) + 1 |-> IF i = 1 THEN a ELSE b]
<1>1. Len(<<x>>) = 1 /\ <<x>>[1] = x  OBVIOUS
<1>2. f \in [1 .. Len(<<x>>) + 1 -> SUBSET Flags] /\ f[1] = a /\ f[2] = b
  BY <1>1
<1> HIDE DEF f
<1>3. \A i \in 1 .. Len(<<x>>) : Decodes(f[i], <<x>>[i], f[i + 1])
  BY <1>1, <1>2
<1>4. Through(f, a, <<x>>, b)  BY <1>1, <1>2, <1>3 DEF Through
<1> QED BY <1>4 DEF Path

\* What is sent behind other bytes goes on from where they lead.
LEMMA PathConcat ==
  ASSUME NEW s \in Seq(Packet), NEW t \in Seq(Packet), NEW a, NEW b, NEW c,
         Path(a, s, b), Path(b, t, c)
  PROVE  Path(a, s \o t, c)
<1>1. PICK f : Through(f, a, s, b)  BY DEF Path
<1>2. PICK g : Through(g, b, t, c)  BY DEF Path
<1> DEFINE n == Len(s)
           m == Len(t)
           u == s \o t
           h == [i \in 1 .. n + m + 1 |-> IF i <= n THEN f[i] ELSE g[i - n]]
<1>3. n \in Nat /\ m \in Nat  BY LenProperties
<1>4. /\ u \in Seq(Packet) /\ Len(u) = n + m
      /\ \A i \in 1 .. n + m : u[i] = IF i <= n THEN s[i] ELSE t[i - n]
  BY ConcatProperties
<1>5. /\ f \in [1 .. n + 1 -> SUBSET Flags] /\ f[1] = a /\ f[n + 1] = b
      /\ \A i \in 1 .. n : Decodes(f[i], s[i], f[i + 1])
  BY <1>1 DEF Through
<1>6. /\ g \in [1 .. m + 1 -> SUBSET Flags] /\ g[1] = b /\ g[m + 1] = c
      /\ \A i \in 1 .. m : Decodes(g[i], t[i], g[i + 1])
  BY <1>2 DEF Through
<1> HIDE DEF u, n, m
<1>7. \A i \in 1 .. n + 1 : h[i] = f[i]
  BY <1>3, <1>5, <1>6
<1>8. \A i \in 1 .. m + 1 : h[n + i] = g[i]
  <2> SUFFICES ASSUME NEW i \in 1 .. m + 1 PROVE h[n + i] = g[i]  OBVIOUS
  <2>1. n + i \in 1 .. n + m + 1 /\ ~(n + i <= n) /\ (n + i) - n = i  BY <1>3
  <2> QED BY <2>1
<1>9. h \in [1 .. n + m + 1 -> SUBSET Flags]
  <2> SUFFICES ASSUME NEW i \in 1 .. n + m + 1 PROVE h[i] \in SUBSET Flags  OBVIOUS
  <2>1. i <= n => i \in 1 .. n + 1  BY <1>3
  <2>2. ~(i <= n) => i - n \in 1 .. m + 1  BY <1>3
  <2> QED BY <1>5, <1>6, <2>1, <2>2
<1> HIDE DEF h
<1>10. ASSUME NEW i \in 1 .. n + m PROVE Decodes(h[i], u[i], h[i + 1])
  <2>1. CASE i <= n
    <3>1. i \in 1 .. n /\ i \in 1 .. n + 1 /\ i + 1 \in 1 .. n + 1  BY <1>3, <2>1
    <3> QED BY <1>4, <1>5, <1>7, <2>1, <3>1
  <2>2. CASE ~(i <= n)
    <3> DEFINE j == i - n
    <3>1. /\ j \in 1 .. m /\ j \in 1 .. m + 1 /\ j + 1 \in 1 .. m + 1
          /\ n + j = i /\ n + (j + 1) = i + 1
      BY <1>3, <2>2
    <3>2. h[i] = g[j] /\ h[i + 1] = g[j + 1]  BY <1>8, <3>1
    <3>3. u[i] = t[j]  BY <1>4, <2>2
    <3> HIDE DEF j
    <3>4. Decodes(g[j], t[j], g[j + 1])  BY <1>6, <3>1
    <3> QED BY <3>2, <3>3, <3>4
  <2> QED BY <2>1, <2>2
<1>11. h[1] = a /\ h[n + m + 1] = c
  <2>1. 1 \in 1 .. n + 1 /\ m + 1 \in 1 .. m + 1 /\ n + (m + 1) = n + m + 1  BY <1>3
  <2> QED BY <1>5, <1>6, <1>7, <1>8, <2>1
<1>12. Through(h, a, u, c)  BY <1>4, <1>9, <1>10, <1>11 DEF Through
<1> QED BY <1>12 DEF u, Path

\* The first byte is decoded as meant, and the others go on from there.
LEMMA PathTail ==
  ASSUME NEW s \in Seq(Packet), s # <<>>, NEW a, NEW c, Path(a, s, c)
  PROVE  \E b \in SUBSET Flags : Decodes(a, Head(s), b) /\ Path(b, Tail(s), c)
<1>1. PICK f : Through(f, a, s, c)  BY DEF Path
<1> DEFINE n == Len(s)
           t == Tail(s)
           g == [i \in 1 .. n |-> f[i + 1]]
<1>2. n \in Nat \ {0} /\ Head(s) = s[1]  BY EmptySeq
<1>3. /\ t \in Seq(Packet) /\ Len(t) = n - 1
      /\ \A i \in 1 .. n - 1 : t[i] = s[i + 1]
  BY HeadTailProperties
<1>4. /\ f \in [1 .. n + 1 -> SUBSET Flags] /\ f[1] = a /\ f[n + 1] = c
      /\ \A i \in 1 .. n : Decodes(f[i], s[i], f[i + 1])
  BY <1>1 DEF Through
<1> HIDE DEF n, t
<1>5. \A i \in 1 .. n : i + 1 \in 1 .. n + 1  BY <1>2
<1>6. g \in [1 .. n -> SUBSET Flags] /\ \A i \in 1 .. n : g[i] = f[i + 1]
  BY <1>4, <1>5
<1> HIDE DEF g
<1>7. (n - 1) + 1 = n /\ 1 \in 1 .. n /\ n \in 1 .. n /\ 1 + 1 = 2  BY <1>2
<1>8. \A i \in 1 .. n - 1 : Decodes(g[i], t[i], g[i + 1])
  <2> SUFFICES ASSUME NEW i \in 1 .. n - 1 PROVE Decodes(g[i], t[i], g[i + 1])  OBVIOUS
  <2>1. i \in 1 .. n /\ i + 1 \in 1 .. n  BY <1>2
  <2>2. Decodes(f[i + 1], s[i + 1], f[(i + 1) + 1])  BY <1>4, <2>1
  <2> QED BY <1>3, <1>6, <2>1, <2>2
<1>9. Through(g, f[2], t, c)  BY <1>3, <1>4, <1>6, <1>7, <1>8 DEF Through
<1>10. Decodes(a, Head(s), f[2]) /\ f[2] \in SUBSET Flags
  BY <1>2, <1>4, <1>7
<1>11. Path(f[2], t, c)  BY <1>9 DEF Path
<1> QED BY <1>10, <1>11 DEF t

-----------------------------------------------------------------------------
(* The keys and the decoder's tables *)

\* The code a key's byte is looked up with, prefix included.
Looked(k) == IF k \in Prefixed THEN ScanCode[k] + 128 ELSE ScanCode[k]

\* The keys of the keyboard are some of those the tables are modelled at.
LEMMA KeyNames ==
  ASSUME NEW k \in Keys
  PROVE  k \in {"a", "one", "enter", "kpdot", "del", "home", "caps", "num", "lshift",
                "rshift", "lctl", "rctl", "lalt", "ralt"}
<1>1. DOMAIN ScanCode = {"a", "one", "enter", "kpdot", "del", "home", "caps", "num", "lshift",
                         "rshift", "lctl", "rctl", "lalt", "ralt"}
  BY DEF ScanCode
<1> QED BY <1>1, KeysAssumption

\* A key's last byte is below 128 and is not the prefix with its high bit.
LEMMA ScanCodes ==
  ASSUME NEW k \in Keys
  PROVE  ScanCode[k] \in 0 .. 95
BY KeyNames DEF ScanCode

\* The tables agree with the keyboard: what a key holds and locks.
LEMMA ModifierTables ==
  ASSUME NEW k \in Keys
  PROVE  shiftcode(Looked(k)) = Holds(k) /\ togglecode(Looked(k)) = Locks(k)
<1>1. CASE k \in {"a", "one", "enter", "kpdot", "del", "home"}
  BY <1>1 DEF Looked, ScanCode, Prefixed, shiftcode, togglecode, Holds, Locks
<1>2. CASE k \in {"caps", "num"}
  BY <1>2 DEF Looked, ScanCode, Prefixed, shiftcode, togglecode, Holds, Locks
<1>3. CASE k \in {"lshift", "rshift", "lctl", "rctl"}
  BY <1>3 DEF Looked, ScanCode, Prefixed, shiftcode, togglecode, Holds, Locks
<1>4. CASE k \in {"lalt", "ralt"}
  BY <1>4 DEF Looked, ScanCode, Prefixed, shiftcode, togglecode, Holds, Locks
<1> QED BY <1>1, <1>2, <1>3, <1>4, KeyNames

\* And what is printed on it, but for Home with Ctrl, which ctlmap misses.
LEMMA CharacterTables ==
  ASSUME NEW k \in Keys
  PROVE  /\ normalmap(Looked(k)) = Legend(k).normal
         /\ shiftmap(Looked(k)) = Legend(k).shifted
         /\ ctlmap(Looked(k)) = IF k = "home" THEN 0 ELSE Legend(k).ctl
<1>1. CASE k \in {"a", "one", "enter", "kpdot"}
  BY <1>1 DEF Looked, ScanCode, Prefixed, normalmap, shiftmap, ctlmap, Legend
<1>2. CASE k \in {"del", "home"}
  BY <1>2 DEF Looked, ScanCode, Prefixed, normalmap, shiftmap, ctlmap, Legend
<1>3. CASE k \in {"caps", "num", "lshift", "rshift"}
  BY <1>3 DEF Looked, ScanCode, Prefixed, normalmap, shiftmap, ctlmap, Legend
<1>4. CASE k \in {"lctl", "rctl", "lalt", "ralt"}
  BY <1>4 DEF Looked, ScanCode, Prefixed, normalmap, shiftmap, ctlmap, Legend
<1> QED BY <1>1, <1>2, <1>3, <1>4, KeyNames

\* Only one key means KEY_DEL, and all mean characters.
LEMMA Legends ==
  ASSUME NEW k \in Keys
  PROVE  /\ Legend(k).normal \in 0 .. 255 /\ Legend(k).shifted \in 0 .. 255
         /\ Legend(k).ctl \in 0 .. 255
         /\ (Legend(k).ctl = KEY_DEL) <=> (k = "del")
         /\ KEY_DEL # 0
<1>1. CASE k \in {"a", "one", "enter", "kpdot"}
  BY <1>1 DEF Legend, KEY_DEL
<1>2. CASE k \in {"del", "home"}
  BY <1>2 DEF Legend, KEY_DEL, KEY_HOME
<1>3. CASE k \in {"caps", "num", "lshift", "rshift"}
  BY <1>3 DEF Legend, KEY_DEL
<1>4. CASE k \in {"lctl", "rctl", "lalt", "ralt"}
  BY <1>4 DEF Legend, KEY_DEL
<1> QED BY <1>1, <1>2, <1>3, <1>4, KeyNames

\* Caps Lock gives a character for a character.
LEMMA SwapCaseType ==
  ASSUME NEW c \in 0 .. 255
  PROVE  SwapCase(c) \in 0 .. 255
BY DEF SwapCase

\* What the typist means is a packet's content.
LEMMA MeaningType ==
  ASSUME NEW k \in Keys, NEW m
  PROVE  Meaning(k, m) \in Result
<1> DEFINE level == IF "CTL" \in m THEN Legend(k).ctl
                    ELSE IF "SHIFT" \in m THEN Legend(k).shifted ELSE Legend(k).normal
<1>1. level \in 0 .. 255  BY Legends
<1> HIDE DEF level
<1>2. (IF "CAPSLOCK" \in m THEN SwapCase(level) ELSE level) \in 0 .. 255
  BY <1>1, SwapCaseType
<1>3. Meaning(k, m) = [ c |-> IF "CAPSLOCK" \in m THEN SwapCase(level) ELSE level,
                        reboot |-> k = "del" /\ {"CTL", "ALT"} \subseteq m ]
  BY DEF Meaning, level
<1> QED BY <1>2, <1>3 DEF Result

\* What a key holds and locks are flags, and the prefix is none of them.
LEMMA HoldsFlags ==
  ASSUME NEW k \in Keys
  PROVE  Holds(k) \subseteq Modifiers /\ Locks(k) \subseteq LockFlags
<1>1. Holds(k) \subseteq Modifiers
  BY DEF Holds, Modifiers
<1>2. Locks(k) \subseteq LockFlags
  BY DEF Locks, LockFlags
<1> QED BY <1>1, <1>2

-----------------------------------------------------------------------------
(* What each piece of a code does to the decoder *)

\* No character is a result.
LEMMA NothingType == Nothing \in Result
BY DEF Nothing, Result

\* The prefix waits for the byte behind it.
LEMMA PrefixStep ==
  ASSUME NEW m \in SUBSET Between
  PROVE  /\ Decodes(m, Quiet(224), m \cup {"E0ESC"})
         /\ m \cup {"E0ESC"} \in SUBSET Flags
<1>1. kbd_proc_data(m, 224) = [shift |-> m \cup {"E0ESC"}, out |-> Nothing]
  BY DEF kbd_proc_data
<1>2. Nothing \in Result  BY NothingType
<1>3. m \cup {"E0ESC"} \in SUBSET Flags  BY DEF Between, Flags
<1> QED BY <1>1, <1>2, <1>3 DEF Decodes, Quiet

\* A shift that follows a prefix is nobody's: it only ends the prefix.
LEMMA FakeStep ==
  ASSUME NEW m \in SUBSET Between, NEW d \in {42, 170}
  PROVE  Decodes(m \cup {"E0ESC"}, Quiet(d), m)
<1> DEFINE e == m \cup {"E0ESC"}
<1>1. e \ {"E0ESC"} = m  BY DEF Between
<1>2. CASE d = 170
  <2>1. shiftcode(170) = {}  BY DEF shiftcode
  <2>2. Broken(e, 170) = m  BY <1>1, <2>1 DEF Broken
  <2>3. kbd_proc_data(e, 170) = [shift |-> m, out |-> Nothing]  BY <2>2 DEF kbd_proc_data
  <2> QED BY <1>2, <2>3, NothingType DEF Decodes, Quiet
<1>3. CASE d = 42
  <2>1. shiftcode(170) = {} /\ togglecode(170) = {}  BY DEF shiftcode, togglecode
  <2>2. charcode(m, 170) = 0
    BY DEF charcode, normalmap, shiftmap, ctlmap
  <2>3. SwapCase(0) = 0 /\ 0 # KEY_DEL  BY DEF SwapCase, KEY_DEL
  <2>4. Toggle((e \ {"E0ESC"}) \cup {}, {}) = m  BY <1>1 DEF Toggle
  <2>5. Made(e, 42) = [shift |-> m, out |-> [c |-> 0, reboot |-> FALSE]]
    <3> DEFINE code == IF "E0ESC" \in e THEN 42 + 128 ELSE 42
               now == Toggle((e \ {"E0ESC"}) \cup shiftcode(code), togglecode(code))
               c == charcode(now, code)
    <3>1. code = 170  OBVIOUS
    <3>2. Made(e, 42) =
            [ shift |-> now,
              out |-> [ c |-> IF "CAPSLOCK" \in now THEN SwapCase(c) ELSE c,
                        reboot |-> {"CTL", "ALT"} \subseteq now /\ c = KEY_DEL ] ]
      BY Zenon DEF Made
    <3> HIDE DEF code
    <3>3. now = m  BY <2>1, <2>4, <3>1
    <3> HIDE DEF now
    <3>4. c = 0  BY <2>2, <3>1, <3>3
    <3> HIDE DEF c
    <3>5. ({"CTL", "ALT"} \subseteq m /\ 0 = KEY_DEL) = FALSE  BY <2>3
    <3> QED BY <2>3, <3>2, <3>3, <3>4, <3>5
  <2>6. kbd_proc_data(e, 42) = [shift |-> m, out |-> Nothing]
    BY <2>5 DEF kbd_proc_data, Nothing
  <2> QED BY <1>3, <2>6, NothingType DEF Decodes, Quiet
<1> QED BY <1>2, <1>3

\* The flags before a key's last byte.
Before(k, m) == IF k \in Prefixed THEN m \cup {"E0ESC"} ELSE m

\* A make code does to the flags what pressing the key means, and gives the
\* character on it if its place in the tables is right.
LEMMA MadeStep ==
  ASSUME NEW m \in SUBSET Between, NEW k \in Keys, NEW want, NEW sure \in BOOLEAN,
         LET now == Toggle(m \cup Holds(k), Locks(k))
         IN  sure => want = Meaning(k, now) /\ ~Misplaced(k, now)
  PROVE  Decodes(Before(k, m), [data |-> ScanCode[k], want |-> want, sure |-> sure],
                 Toggle(m \cup Holds(k), Locks(k)))
<1> DEFINE e == Before(k, m)
           d == ScanCode[k]
           now == Toggle(m \cup Holds(k), Locks(k))
           c == charcode(now, Looked(k))
           given == [ c |-> IF "CAPSLOCK" \in now THEN SwapCase(c) ELSE c,
                      reboot |-> {"CTL", "ALT"} \subseteq now /\ c = KEY_DEL ]
           level == IF "CTL" \in now THEN Legend(k).ctl
                    ELSE IF "SHIFT" \in now THEN Legend(k).shifted ELSE Legend(k).normal
<1>1. d \in 0 .. 95  BY ScanCodes
<1>2. (IF "E0ESC" \in e THEN d + 128 ELSE d) = Looked(k)
  BY DEF Before, Looked, Between
<1>3. e \ {"E0ESC"} = m  BY DEF Before, Between
<1>4. shiftcode(Looked(k)) = Holds(k) /\ togglecode(Looked(k)) = Locks(k)
  BY ModifierTables
<1>5. sure => want = Meaning(k, now) /\ ~Misplaced(k, now)  OBVIOUS
<1> HIDE DEF e, d
<1>6. Made(e, d) = [shift |-> now, out |-> given]
  <2> DEFINE code == IF "E0ESC" \in e THEN d + 128 ELSE d
             made == Toggle((e \ {"E0ESC"}) \cup shiftcode(code), togglecode(code))
             char == charcode(made, code)
  <2>1. Made(e, d) =
          [ shift |-> made,
            out |-> [ c |-> IF "CAPSLOCK" \in made THEN SwapCase(char) ELSE char,
                      reboot |-> {"CTL", "ALT"} \subseteq made /\ char = KEY_DEL ] ]
    BY Zenon DEF Made
  <2>2. code = Looked(k)  BY <1>2
  <2> HIDE DEF code
  <2>3. made = now  BY <1>3, <1>4, <2>2
  <2> HIDE DEF made, now
  <2>4. char = c  BY <2>2, <2>3
  <2> HIDE DEF char, c
  <2> QED BY <2>1, <2>3, <2>4
<1> HIDE DEF now
<1>7. c = IF "CTL" \in now /\ k = "home" THEN 0 ELSE level
  BY CharacterTables DEF charcode
<1>8. c \in 0 .. 255  BY <1>7, Legends
<1>9. ({"CTL", "ALT"} \subseteq now /\ c = KEY_DEL)
        <=> (k = "del" /\ {"CTL", "ALT"} \subseteq now)
  BY <1>7, Legends
<1>10. sure => c = level
  BY <1>5, <1>7 DEF Misplaced
<1>11. Meaning(k, now) = [ c |-> IF "CAPSLOCK" \in now THEN SwapCase(level) ELSE level,
                           reboot |-> k = "del" /\ {"CTL", "ALT"} \subseteq now ]
  BY DEF Meaning
<1> HIDE DEF c, level
<1>12. given \in Result  BY <1>8, SwapCaseType DEF Result
<1>13. sure => given = want  BY <1>5, <1>9, <1>10, <1>11
<1>14. kbd_proc_data(e, d) = Made(e, d)  BY <1>1 DEF kbd_proc_data
<1> HIDE DEF given
<1>15. Decodes(e, [data |-> d, want |-> want, sure |-> sure], now)
  BY <1>6, <1>12, <1>13, <1>14 DEF Decodes
<1> QED BY <1>15 DEF e, d, now

\* A break code ends what the key held.
LEMMA BrokenStep ==
  ASSUME NEW m \in SUBSET Between, NEW k \in Keys
  PROVE  Decodes(Before(k, m), [data |-> ScanCode[k] + 128, want |-> Nothing, sure |-> TRUE],
                 m \ Holds(k))
<1> DEFINE e == Before(k, m)
           d == ScanCode[k]
<1>1. d \in 0 .. 95  BY ScanCodes
<1>2. (IF "E0ESC" \in e THEN d + 128 ELSE (d + 128) - 128) = Looked(k)
  BY <1>1 DEF Before, Looked, Between
<1>3. e \ (Holds(k) \cup {"E0ESC"}) = m \ Holds(k)  BY DEF Before, Between
<1>4. shiftcode(Looked(k)) = Holds(k)  BY ModifierTables
<1> HIDE DEF e, d
<1>5. Broken(e, d + 128) = m \ Holds(k)  BY <1>2, <1>3, <1>4 DEF Broken
<1>6. kbd_proc_data(e, d + 128) = [shift |-> m \ Holds(k), out |-> Nothing]
  BY <1>1, <1>5 DEF kbd_proc_data
<1>7. Decodes(e, [data |-> d + 128, want |-> Nothing, sure |-> TRUE], m \ Holds(k))
  BY <1>6, NothingType DEF Decodes
<1> QED BY <1>7 DEF e, d

-----------------------------------------------------------------------------
(* Whole codes *)

\* A key's code, prefix and all, does what its last byte does.
LEMMA CodePath ==
  ASSUME NEW m \in SUBSET Between, NEW k \in Keys, NEW d \in 0 .. 255,
         NEW w \in Result, NEW v \in BOOLEAN, NEW n \in SUBSET Flags,
         Decodes(Before(k, m), [data |-> d, want |-> w, sure |-> v], n)
  PROVE  Code(k, d, w, v) \in Seq(Packet) /\ Path(m, Code(k, d, w, v), n)
<1> DEFINE x == [data |-> d, want |-> w, sure |-> v]
           e == m \cup {"E0ESC"}
<1>1. x \in Packet /\ Quiet(224) \in Packet  BY NothingType DEF Packet, Quiet
<1>2. <<x>> \in Seq(Packet) /\ <<Quiet(224)>> \in Seq(Packet)  BY <1>1
<1>3. m \in SUBSET Flags  BY DEF Between
<1>4. CASE k \in Prefixed
  <2>1. Path(m, <<Quiet(224)>>, e)  BY <1>3, PrefixStep, PathOne
  <2>2. Path(e, <<x>>, n)  BY <1>4, PrefixStep, PathOne DEF Before
  <2>3. Code(k, d, w, v) = <<Quiet(224)>> \o <<x>>  BY <1>4 DEF Code
  <2> HIDE DEF x, e
  <2>4. Path(m, <<Quiet(224)>> \o <<x>>, n)  BY <1>2, <2>1, <2>2, PathConcat
  <2>5. <<Quiet(224)>> \o <<x>> \in Seq(Packet)  BY <1>2, ConcatProperties
  <2> QED BY <2>3, <2>4, <2>5
<1>5. CASE k \notin Prefixed
  <2>1. Path(m, <<x>>, n)  BY <1>3, <1>5, PathOne DEF Before
  <2>2. Code(k, d, w, v) = <<x>>
    <3>1. <<>> \o <<x>> = <<x>>  BY <1>2, ConcatEmptySeq
    <3> QED BY <1>5, <3>1 DEF Code
  <2> QED BY <1>2, <2>1, <2>2
<1> QED BY <1>4, <1>5

\* A compensating shift leaves the flags as they were.
LEMMA FakePath ==
  ASSUME NEW m \in SUBSET Between, NEW k, NEW fake \in Fakes(k)
  PROVE  fake \in Seq(Packet) /\ Path(m, fake, m)
<1>1. m \in SUBSET Flags  BY DEF Between
<1>2. CASE fake = <<>>  BY <1>1, <1>2, PathEmpty
<1>3. ASSUME NEW d \in {42, 170}, fake = <<Quiet(224), Quiet(d)>>
      PROVE  fake \in Seq(Packet) /\ Path(m, fake, m)
  <2>1. Quiet(224) \in Packet /\ Quiet(d) \in Packet  BY NothingType DEF Packet, Quiet
  <2>2. Path(m, <<Quiet(224)>>, m \cup {"E0ESC"})  BY <1>1, PrefixStep, PathOne
  <2>3. Path(m \cup {"E0ESC"}, <<Quiet(d)>>, m)  BY <1>1, PrefixStep, FakeStep, PathOne
  <2>4. <<Quiet(224)>> \in Seq(Packet) /\ <<Quiet(d)>> \in Seq(Packet)  BY <2>1
  <2>5. Path(m, <<Quiet(224)>> \o <<Quiet(d)>>, m)  BY <2>2, <2>3, <2>4, PathConcat
  <2>6. fake = <<Quiet(224)>> \o <<Quiet(d)>>  BY <1>3
  <2> QED BY <2>4, <2>5, <2>6, ConcatProperties
<1> QED BY <1>2, <1>3 DEF Fakes

-----------------------------------------------------------------------------
(* The steps *)

\* What keys hold down is modifiers, one key more adds its own, and one fewer
\* takes away no other.
LEMMA Held ==
  ASSUME NEW S \in SUBSET Keys, NEW k \in Keys, NEW X
  PROVE  /\ InForce(S, {}) \subseteq Modifiers
         /\ InForce(S, X) = InForce(S, {}) \cup X
         /\ InForce(S \cup {k}, X) = InForce(S, {}) \cup Holds(k) \cup X
         /\ InForce(S \ {k}, {}) \subseteq InForce(S, {})
         /\ InForce(S, {}) \subseteq InForce(S \ {k}, {}) \cup Holds(k)
<1>1. \A j \in S : Holds(j) \subseteq Modifiers  BY HoldsFlags
<1> QED BY <1>1 DEF InForce

\* Modifiers and locks are flags, and none is both.
LEMMA FlagKinds ==
  Modifiers \cap LockFlags = {} /\ Modifiers \cup LockFlags \subseteq Between
BY DEF Modifiers, LockFlags, Between, Flags

\* The flags the codes sent lead to are flags without a prefix.
LEMMA ModsType ==
  ASSUME Inv
  PROVE  mods \in SUBSET Between
<1>1. InForce(held, {}) \subseteq Modifiers /\ InForce(held, locked) = InForce(held, {}) \cup locked
  <2>1. \A j \in held : Holds(j) \subseteq Modifiers  BY HoldsFlags DEF Inv
  <2> QED BY <2>1 DEF InForce
<1> QED BY <1>1, FlagKinds DEF mods, Toggle, Inv

\* With nothing pressed and nothing on the wire.
LEMMA InitInv == Init => Inv
<1> SUFFICES ASSUME Init PROVE Inv  OBVIOUS
<1>1. Path({}, <<>>, {})  BY PathEmpty
<1>2. 0 <= MaxWire  BY KeysAssumption
<1>3. mods = {}  BY DEF Init, mods, InForce, Toggle
<1>4. Path(shift, wire, mods)  BY <1>1, <1>3 DEF Init
<1>5. wire \in Seq(Packet) /\ Len(wire) <= MaxWire  BY <1>2 DEF Init
<1> QED BY <1>4, <1>5 DEF Init, Inv

\* Bytes sent behind those on the wire go on from what these lead to.
LEMMA SendStep ==
  ASSUME Inv, NEW bytes \in Seq(Packet), NEW m, Path(mods, bytes, m), Send(bytes)
  PROVE  wire' \in Seq(Packet) /\ Len(wire') <= MaxWire /\ Path(shift, wire', m)
<1>1. wire \in Seq(Packet) /\ Path(shift, wire, mods)  BY DEF Inv
<1>2. wire' = wire \o bytes /\ Len(wire) + Len(bytes) <= MaxWire  BY DEF Send
<1> QED BY <1>1, <1>2, PathConcat, ConcatProperties

\* A key going down or repeating.
LEMMA MakeStep ==
  ASSUME Inv, NEW k \in Keys, NEW locks \in SUBSET LockFlags, NEW wrong \in SUBSET Between,
         Make(k, locks, wrong), wrong \cap Modifiers \subseteq InForce(held, {}),
         Toggle(InForce(held \cup {k}, locks), wrong) = Toggle(mods \cup Holds(k), Locks(k))
  PROVE  Inv'
<1> DEFINE n == Toggle(mods \cup Holds(k), Locks(k))
           m == InForce(held \cup {k}, locks)
           sure == wrong = {} /\ ~Misplaced(k, m)
           code == Code(k, ScanCode[k], Meaning(k, m), sure)
<1>1. mods \in SUBSET Between  BY ModsType
<1>2. n \in SUBSET Between /\ n \in SUBSET Flags
  BY <1>1, HoldsFlags, FlagKinds DEF Toggle, Between
<1>3. PICK fake \in Fakes(k) : Send(fake \o code)  BY DEF Make
<1>4. /\ held' = held \cup {k} /\ kept' = kept \ {k} /\ repeating' = {k}
      /\ locked' = locks /\ astray' = wrong /\ shift' = shift
  BY DEF Make
<1>5. sure \in BOOLEAN  OBVIOUS
<1>6. sure => Meaning(k, m) = Meaning(k, n) /\ ~Misplaced(k, n)
  <2>1. wrong = {} => Toggle(m, wrong) = m  BY DEF Toggle
  <2>2. Toggle(m, wrong) = n  OBVIOUS
  <2> QED BY <2>1, <2>2
<1> HIDE DEF m, sure
<1>7. Decodes(Before(k, mods), [data |-> ScanCode[k], want |-> Meaning(k, m), sure |-> sure], n)
  BY <1>1, <1>5, <1>6, MadeStep
<1> HIDE DEF n
<1>8. ScanCode[k] \in 0 .. 255 /\ Meaning(k, m) \in Result  BY ScanCodes, MeaningType
<1>9. code \in Seq(Packet) /\ Path(mods, code, n)  BY <1>1, <1>2, <1>5, <1>7, <1>8, CodePath
<1>10. fake \in Seq(Packet) /\ Path(mods, fake, mods)  BY <1>1, FakePath
<1> HIDE DEF code
<1>11. fake \o code \in Seq(Packet) /\ Path(mods, fake \o code, n)
  BY <1>9, <1>10, PathConcat, ConcatProperties
<1>12. wire' \in Seq(Packet) /\ Len(wire') <= MaxWire /\ Path(shift, wire', n)
  BY <1>3, <1>11, SendStep
<1>13. mods' = n
  BY <1>4 DEF mods, n
<1>14. held \subseteq Keys /\ kept \subseteq Keys  BY DEF Inv
<1>15. InForce(held, {}) \subseteq InForce(held', {})  BY <1>4 DEF InForce
<1>16. astray' \cap Modifiers \subseteq InForce(held', {})  BY <1>4, <1>15
<1>17. shift \subseteq Flags  BY DEF Inv
<1>18. Path(shift', wire', mods')  BY <1>4, <1>12, <1>13
<1> QED BY <1>4, <1>12, <1>14, <1>16, <1>17, <1>18 DEF Inv

\* A strike.
LEMMA PressStep ==
  ASSUME Inv, NEW k \in Keys, Press(k)
  PROVE  Inv'
<1> DEFINE locks == Toggle(locked, Locks(k))
           wrong == astray \ Holds(k)
           P == InForce(held, {})
<1>1. held \in SUBSET Keys /\ locked \in SUBSET LockFlags /\ astray \in SUBSET Between
  BY DEF Inv
<1>2. Holds(k) \in SUBSET Modifiers /\ Locks(k) \in SUBSET LockFlags  BY HoldsFlags
<1>3. /\ P \in SUBSET Modifiers
      /\ InForce(held \cup {k}, locks) = P \cup Holds(k) \cup locks
      /\ InForce(held, locked) = P \cup locked
  BY <1>1, Held
<1>4. Toggle(InForce(held \cup {k}, locks), wrong) = Toggle(mods \cup Holds(k), Locks(k))
  <2>1. mods = Toggle(P \cup locked, astray)  BY <1>3 DEF mods
  <2> HIDE DEF P
  <2>2. Toggle(P \cup Holds(k) \cup locks, wrong)
          = Toggle(Toggle(P \cup locked, astray) \cup Holds(k), Locks(k))
    <3>1. P \in SUBSET Modifiers  BY <1>3
    <3>2. Holds(k) \cap Locks(k) = {} /\ P \cap Locks(k) = {} /\ Holds(k) \cap locked = {}
      BY <1>1, <1>2, <3>1, FlagKinds
    <3> QED BY <3>2 DEF Toggle
  <2> QED BY <1>3, <2>1, <2>2
<1>5. locks \in SUBSET LockFlags /\ wrong \in SUBSET Between  BY <1>1, <1>2 DEF Toggle
<1>6. wrong \cap Modifiers \subseteq InForce(held, {})  BY DEF Inv
<1>7. Make(k, locks, wrong)  BY DEF Press
<1> QED BY <1>4, <1>5, <1>6, <1>7, MakeStep

\* A repeat.
LEMMA RepeatStep ==
  ASSUME Inv, NEW k \in Keys, Repeat(k)
  PROVE  Inv'
<1> DEFINE wrong == Toggle(astray \ Holds(k), Locks(k))
           P == InForce(held, {})
<1>1. held \in SUBSET Keys /\ locked \in SUBSET LockFlags /\ astray \in SUBSET Between
  BY DEF Inv
<1>2. Holds(k) \in SUBSET Modifiers /\ Locks(k) \in SUBSET LockFlags  BY HoldsFlags
<1>3. /\ P \in SUBSET Modifiers
      /\ InForce(held \cup {k}, locked) = P \cup Holds(k) \cup locked
      /\ InForce(held, locked) = P \cup locked
  BY <1>1, Held
<1>4. Toggle(InForce(held \cup {k}, locked), wrong) = Toggle(mods \cup Holds(k), Locks(k))
  <2>1. mods = Toggle(P \cup locked, astray)  BY <1>3 DEF mods
  <2> HIDE DEF P
  <2>2. Toggle(P \cup Holds(k) \cup locked, wrong)
          = Toggle(Toggle(P \cup locked, astray) \cup Holds(k), Locks(k))
    <3>1. P \in SUBSET Modifiers  BY <1>3
    <3>2. Holds(k) \cap Locks(k) = {} /\ P \cap Locks(k) = {} /\ Holds(k) \cap locked = {}
      BY <1>1, <1>2, <3>1, FlagKinds
    <3> QED BY <3>2 DEF Toggle
  <2> QED BY <1>3, <2>1, <2>2
<1>5. wrong \in SUBSET Between  BY <1>1, <1>2, FlagKinds DEF Toggle
<1>6. wrong \cap Modifiers \subseteq InForce(held, {})
  BY <1>2, FlagKinds DEF Inv, Toggle
<1>7. Make(k, locked, wrong)  BY DEF Repeat
<1> QED BY <1>1, <1>4, <1>5, <1>6, <1>7, MakeStep

\* A key going up.
LEMMA ReleaseStep ==
  ASSUME Inv, NEW k \in Keys, Release(k)
  PROVE  Inv'
<1> DEFINE m == mods \ Holds(k)
           code == Code(k, ScanCode[k] + 128, Nothing, TRUE)
           P == InForce(held, {})
           Q == InForce(held \ {k}, {})
<1>1. mods \in SUBSET Between /\ m \in SUBSET Between /\ m \in SUBSET Flags
  BY ModsType DEF Between
<1>2. PICK fake \in Fakes(k) : Send(code \o fake)  BY DEF Release
<1>3. /\ held' = held \ {k} /\ kept' = kept \ {k} /\ repeating' = repeating \ {k}
      /\ astray' = (astray \ Holds(k)) \cup (Holds(k) \cap Q)
      /\ shift' = shift /\ locked' = locked
  BY DEF Release
<1>4. ScanCode[k] + 128 \in 0 .. 255 /\ Nothing \in Result
  BY ScanCodes, NothingType
<1>5. Decodes(Before(k, mods), [data |-> ScanCode[k] + 128, want |-> Nothing, sure |-> TRUE], m)
  BY <1>1, BrokenStep
<1>6. code \in Seq(Packet) /\ Path(mods, code, m)  BY <1>1, <1>4, <1>5, CodePath
<1>7. fake \in Seq(Packet) /\ Path(m, fake, m)  BY <1>1, FakePath
<1> HIDE DEF code
<1>8. code \o fake \in Seq(Packet) /\ Path(mods, code \o fake, m)
  BY <1>6, <1>7, PathConcat, ConcatProperties
<1>9. wire' \in Seq(Packet) /\ Len(wire') <= MaxWire /\ Path(shift, wire', m)
  BY <1>2, <1>8, SendStep
<1>10. held \in SUBSET Keys /\ held' \in SUBSET Keys /\ locked \in SUBSET LockFlags
  BY <1>3 DEF Inv
<1>11. Holds(k) \in SUBSET Modifiers  BY HoldsFlags
<1>12. /\ P \subseteq Modifiers /\ Q \subseteq P /\ P \subseteq Q \cup Holds(k)
       /\ InForce(held, locked) = P \cup locked /\ InForce(held', locked) = Q \cup locked
  BY <1>3, <1>10, Held
<1> HIDE DEF P, Q
<1>13. mods' = m
  <2>1. mods' = Toggle(Q \cup locked, (astray \ Holds(k)) \cup (Holds(k) \cap Q))
    BY <1>3, <1>12 DEF mods
  <2>2. mods = Toggle(P \cup locked, astray)  BY <1>12 DEF mods
  <2>3. Holds(k) \cap locked = {}  BY <1>10, <1>11, FlagKinds
  <2> QED BY <1>12, <2>1, <2>2, <2>3 DEF Toggle
<1>14. astray \cap Modifiers \subseteq P /\ astray \subseteq Between  BY DEF Inv, P
<1>15. astray' \cap Modifiers \subseteq Q /\ astray' \subseteq Between
  BY <1>3, <1>11, <1>12, <1>14, FlagKinds
<1>16. astray' \cap Modifiers \subseteq InForce(held', {})  BY <1>3, <1>15 DEF Q
<1> HIDE DEF m
<1>17. Path(shift', wire', mods')  BY <1>3, <1>9, <1>13
<1> QED BY <1>3, <1>9, <1>10, <1>15, <1>16, <1>17 DEF Inv

\* The next byte decodes to what was meant, where that is promised, and to a
\* result in any case.
LEMMA NextByte ==
  ASSUME Inv, wire # <<>>
  PROVE  LET r == kbd_proc_data(shift, Head(wire).data) IN
         /\ r.out \in Result /\ (Head(wire).sure => r.out = Head(wire).want)
         /\ r.shift \in SUBSET Flags /\ Path(r.shift, Tail(wire), mods)
<1>1. PICK b \in SUBSET Flags : Decodes(shift, Head(wire), b) /\ Path(b, Tail(wire), mods)
  BY PathTail DEF Inv
<1> QED BY <1>1 DEF Decodes

\* Reading a byte, and the reboot some bytes cause.
LEMMA DecodeStep ==
  ASSUME Inv, Decode
  PROVE  Inv'
<1> DEFINE r == kbd_proc_data(shift, Head(wire).data)
<1>1. wire # <<>> /\ repeating' = repeating  BY DEF Decode
<1>2. r.shift \in SUBSET Flags /\ Path(r.shift, Tail(wire), mods)  BY <1>1, NextByte
<1>3. CASE r.out.reboot
  <2>1. /\ shift' = {} /\ wire' = <<>> /\ locked' = {} /\ astray' = {}
        /\ held' = {} /\ kept' = kept \cup held
    BY <1>3 DEF Decode
  <2>2. mods' = {}  BY <2>1 DEF mods, InForce, Toggle
  <2>3. Path({}, <<>>, {})  BY PathEmpty
  <2>4. Path(shift', wire', mods')  BY <2>1, <2>2, <2>3
  <2>5. 0 <= MaxWire  BY KeysAssumption
  <2>6. wire' \in Seq(Packet) /\ Len(wire') <= MaxWire  BY <2>1, <2>5
  <2> QED BY <1>1, <2>1, <2>4, <2>6 DEF Inv
<1>4. CASE ~r.out.reboot
  <2>1. /\ shift' = r.shift /\ wire' = Tail(wire)
        /\ held' = held /\ kept' = kept /\ locked' = locked /\ astray' = astray
    BY <1>4 DEF Decode
  <2>2. Tail(wire) \in Seq(Packet) /\ Len(Tail(wire)) <= MaxWire
    <3>1. wire \in Seq(Packet) /\ Len(wire) <= MaxWire  BY DEF Inv
    <3>2. Len(Tail(wire)) = Len(wire) - 1 /\ Len(wire) \in Nat
      BY <1>1, <3>1, HeadTailProperties, LenProperties
    <3> QED BY <1>1, <3>1, <3>2, HeadTailProperties, KeysAssumption
  <2> HIDE DEF r
  <2>3. mods' = mods  BY <2>1 DEF mods
  <2>4. Path(shift', wire', mods')  BY <1>2, <2>1, <2>3
  <2>5. InForce(held', {}) = InForce(held, {})  BY <2>1
  <2> QED BY <1>1, <1>2, <2>1, <2>2, <2>4, <2>5 DEF Inv
<1> QED BY <1>3, <1>4

\* Every step keeps the invariant.
LEMMA NextInv == Inv /\ [Next]_vars => Inv'
<1> SUFFICES ASSUME Inv, [Next]_vars PROVE Inv'  OBVIOUS
<1>1. ASSUME NEW k \in Keys, Press(k) PROVE Inv'
  BY <1>1, PressStep
<1>2. ASSUME NEW k \in Keys, Repeat(k) PROVE Inv'
  BY <1>2, RepeatStep
<1>3. ASSUME NEW k \in Keys, Release(k) PROVE Inv'
  BY <1>3, ReleaseStep
<1>4. CASE Decode  BY <1>4, DecodeStep
<1>5. CASE UNCHANGED vars  BY <1>5 DEF vars, Inv, mods
<1> QED BY <1>1, <1>2, <1>3, <1>4, <1>5 DEF Next

-----------------------------------------------------------------------------
\* The wire always leads from the decoder's flags to the typist's, but for those
\* astray.
THEOREM Invariance == Spec => []Inv
BY InitInv, NextInv, PTL DEF Spec

\* However many keys are down and however many bytes are on their way, the
\* flags are those there are and every byte decodes to a character code.
THEOREM TypeCorrect == Spec => []TypeOK
<1>1. Inv => TypeOK
  <2> SUFFICES ASSUME Inv PROVE TypeOK  OBVIOUS
  <2>1. Cardinality(repeating) <= 1
    <3>1. CASE repeating = {}  BY <3>1, FS_EmptySet
    <3>2. ASSUME NEW k \in repeating PROVE Cardinality(repeating) <= 1
      <4>1. repeating = {k}  BY <3>2 DEF Inv
      <4> QED BY <4>1, FS_Singleton
    <3> QED BY <3>1, <3>2
  <2>2. \A i \in DOMAIN wire : wire[i].data \in 0 .. 255
    <3>1. wire \in Seq(Packet) /\ DOMAIN wire = 1 .. Len(wire)  BY LenProperties DEF Inv
    <3>2. \A i \in DOMAIN wire : wire[i] \in Packet  BY <3>1, ElementOfSeq
    <3> QED BY <3>2 DEF Packet
  <2>3. wire # <<>> => kbd_proc_data(shift, Head(wire).data).out.c \in 0 .. 255
    <3> SUFFICES ASSUME wire # <<>>
                 PROVE  kbd_proc_data(shift, Head(wire).data).out.c \in 0 .. 255
      OBVIOUS
    <3> QED BY NextByte DEF Result
  <2>4. locked \subseteq Flags /\ astray \subseteq Flags
    BY FlagKinds DEF Inv, Between
  <2> QED BY <2>1, <2>2, <2>3, <2>4 DEF Inv, TypeOK
<1> QED BY <1>1, Invariance, PTL

\* For any keys, any interleaving of hands and decoder, and any lag between
\* them, kbd_proc_data decodes each byte as it was meant, by the keys down and the
\* locks struck when it was sent, but for the four cases DecodedAsTyped excludes.
THEOREM DecodingCorrect == Spec => []DecodedAsTyped
<1>1. Inv => DecodedAsTyped  BY NextByte DEF DecodedAsTyped
<1> QED BY <1>1, Invariance, PTL

\* And no modifier outlives its keys, nor a prefix its byte.
THEOREM ModifiersReleased == Spec => []NoStuckModifier
<1>1. Inv => NoStuckModifier
  <2> SUFFICES ASSUME Inv, wire = <<>>
               PROVE  /\ "E0ESC" \notin shift
                      /\ \A m \in shift \cap Modifiers : \E k \in held : m \in Holds(k)
    BY DEF NoStuckModifier, Modifiers
  <2>1. Path(shift, <<>>, mods)  BY DEF Inv
  <2>2. shift = mods
    <3>1. PICK f : Through(f, shift, <<>>, mods)  BY <2>1 DEF Path
    <3>2. Len(<<>>) + 1 = 1  OBVIOUS
    <3> QED BY <3>1, <3>2 DEF Through
  <2>3. mods \in SUBSET Between  BY ModsType
  <2>4. mods \cap Modifiers \subseteq InForce(held, {})
    <3>1. InForce(held, locked) = InForce(held, {}) \cup locked  BY DEF InForce
    <3>2. locked \cap Modifiers = {} /\ astray \cap Modifiers \subseteq InForce(held, {})
      BY FlagKinds DEF Inv
    <3> QED BY <3>1, <3>2 DEF mods, Toggle
  <2>5. \A m \in InForce(held, {}) : \E k \in held : m \in Holds(k)  BY DEF InForce
  <2> QED BY <2>2, <2>3, <2>4, <2>5 DEF Between
<1> QED BY <1>1, Invariance, PTL
=============================================================================
