--------------------------- MODULE Console_proofs ---------------------------
(***************************************************************************)
(* Proofs about Console, for every size of the circular buffer: the        *)
(* positions stay in it, and it implements a queue.                        *)
(***************************************************************************)
EXTENDS Console, SequenceTheorems, TLAPS

\* A position moved on by one, as the code does it, is the next position.
NextSlot(i) == IF i + 1 = CONSBUFSIZE THEN 0 ELSE i + 1

\* What is between two positions is a sequence of the buffer's elements.
LEMMA ContentsShape ==
    ASSUME NEW S, NEW b \in [Slots -> S], NEW r \in Slots, NEW w \in Slots
    PROVE  /\ Contents(b, r, w) \in Seq(S)
           /\ Len(Contents(b, r, w)) = Distance(r, w)
           /\ Distance(r, w) \in 0 .. CONSBUFSIZE - 1
           /\ r = w <=> Distance(r, w) = 0
           /\ \A n \in 1 .. Distance(r, w) :
                /\ Wrap((r + n) - 1) \in Slots
                /\ Contents(b, r, w)[n] = b[Wrap((r + n) - 1)]
  <1> DEFINE d == Distance(r, w)
             q == Contents(b, r, w)
  <1>1. CONSBUFSIZE \in Nat /\ CONSBUFSIZE > 1
    BY ConsoleAssumption
  <1>2. d \in 0 .. CONSBUFSIZE - 1 /\ (r = w <=> d = 0)
    BY <1>1 DEF Slots, Distance
  <1>3. ASSUME NEW n \in 1 .. d PROVE Wrap((r + n) - 1) \in Slots
    BY <1>1, <1>2 DEF Slots, Distance, Wrap
  <1>4. q \in [1 .. d -> S] /\ \A n \in 1 .. d : q[n] = b[Wrap((r + n) - 1)]
    BY <1>3 DEF Contents
  <1> HIDE DEF d, q
  <1>5. d \in Nat
    BY <1>1, <1>2
  <1>6. q \in Seq(S) /\ Len(q) = d
    BY <1>4, <1>5, SeqDef, LenProperties
  <1>7. QED BY <1>2, <1>3, <1>4, <1>6 DEF d, q

\* A character stored in a buffer with room is the last one of the queue; in a
\* full buffer the write position meets the read position.
LEMMA StoreContents ==
    ASSUME NEW S, NEW b \in [Slots -> S], NEW r \in Slots, NEW w \in Slots,
           NEW c \in S
    PROVE  LET q == Contents(b, r, w)
               p == Contents([b EXCEPT ![w] = c], r, NextSlot(w))
           IN p = IF Len(q) < CONSBUFSIZE - 1 THEN Append(q, c) ELSE << >>
  <1>0. ASSUME NEW x \in [Slots -> S], NEW y \in Slots
        PROVE  /\ Contents(x, r, y) \in Seq(S)
               /\ Len(Contents(x, r, y)) = Distance(r, y)
               /\ \A n \in 1 .. Distance(r, y) :
                    /\ Wrap((r + n) - 1) \in Slots
                    /\ Contents(x, r, y)[n] = x[Wrap((r + n) - 1)]
    <2>1. Contents(x, r, y) \in Seq(S)
      BY ContentsShape
    <2>2. Len(Contents(x, r, y)) = Distance(r, y)
      <3>1. Distance(r, y) \in Nat
        BY ConsoleAssumption DEF Distance, Slots
      <3>2. DOMAIN Contents(x, r, y) = 1 .. Distance(r, y)
        BY DEF Contents
      <3>3. QED BY <2>1, <3>1, <3>2, LenProperties
    <2>3. \A n \in 1 .. Distance(r, y) : Wrap((r + n) - 1) \in Slots
      BY ContentsShape
    <2>4. \A n \in 1 .. Distance(r, y) : Contents(x, r, y)[n] = x[Wrap((r + n) - 1)]
      BY <2>3 DEF Contents
    <2>5. QED BY <2>1, <2>2, <2>3, <2>4
  <1> DEFINE b2 == [b EXCEPT ![w] = c]
             w2 == NextSlot(w)
             d == Distance(r, w)
             q == Contents(b, r, w)
             p == Contents(b2, r, w2)
  <1>1. CONSBUFSIZE \in Nat /\ CONSBUFSIZE > 1
    BY ConsoleAssumption
  <1>2. b2 \in [Slots -> S] /\ w2 \in Slots
    BY <1>1 DEF NextSlot, Slots
  <1> HIDE DEF b2, w2
  <1>3. /\ q \in Seq(S) /\ Len(q) = d /\ d \in 0 .. CONSBUFSIZE - 1
        /\ \A n \in 1 .. d : Wrap((r + n) - 1) \in Slots /\ q[n] = b[Wrap((r + n) - 1)]
    BY ContentsShape
  <1>4. /\ p \in Seq(S) /\ Len(p) = Distance(r, w2)
        /\ \A n \in 1 .. Distance(r, w2) :
             Wrap((r + n) - 1) \in Slots /\ p[n] = b2[Wrap((r + n) - 1)]
    BY <1>0, <1>2
  <1>5. CASE d < CONSBUFSIZE - 1
    <2>1. Distance(r, w2) = d + 1
      BY <1>1, <1>5 DEF Distance, NextSlot, Slots, w2
    <2>2. Wrap((r + (d + 1)) - 1) = w
      BY <1>1, <1>5 DEF Distance, Wrap, Slots
    <2>3. ASSUME NEW n \in 1 .. d PROVE Wrap((r + n) - 1) # w
      BY <1>1, <1>5 DEF Distance, Wrap, Slots
    <2>4. d \in Nat
      BY <1>1, <1>3
    <2> HIDE DEF d, q, p
    <2>5. p[d + 1] = c
      BY <1>4, <2>1, <2>2, <2>4 DEF b2
    <2>6. \A n \in 1 .. d : p[n] = q[n]
      BY <1>3, <1>4, <2>1, <2>3, <2>4 DEF b2
    <2>7. /\ Append(q, c) \in Seq(S) /\ Len(Append(q, c)) = d + 1
          /\ \A n \in 1 .. d : Append(q, c)[n] = q[n]
          /\ Append(q, c)[d + 1] = c
      BY <1>3, AppendProperties
    <2>8. \A n \in 1 .. d + 1 : p[n] = Append(q, c)[n]
      BY <2>4, <2>5, <2>6, <2>7
    <2>9. Len(p) = Len(Append(q, c))
      BY <1>4, <2>1, <2>7
    <2>10. p = Append(q, c)
      BY <1>4, <2>1, <2>7, <2>8, <2>9, SeqEqual
    <2>11. QED BY <1>3, <1>5, <2>10 DEF d, q, p, b2, w2
  <1>6. CASE d = CONSBUFSIZE - 1
    <2>1. Distance(r, w2) = 0
      BY <1>1, <1>6 DEF Distance, NextSlot, Slots, w2
    <2>2. p = << >>
      BY <1>4, <2>1, EmptySeq
    <2>3. QED BY <1>1, <1>3, <1>6, <2>2 DEF b2, w2
  <1>7. QED BY <1>1, <1>3, <1>5, <1>6

\* A character taken from the buffer is the first one of the queue.
LEMMA GrabContents ==
    ASSUME NEW S, NEW b \in [Slots -> S], NEW r \in Slots, NEW w \in Slots, r # w
    PROVE  LET q == Contents(b, r, w) IN
           /\ q # << >>
           /\ Head(q) = b[r]
           /\ Contents(b, NextSlot(r), w) = Tail(q)
  <1> DEFINE r2 == NextSlot(r)
             d == Distance(r, w)
             q == Contents(b, r, w)
             p == Contents(b, r2, w)
  <1>1. CONSBUFSIZE \in Nat /\ CONSBUFSIZE > 1
    BY ConsoleAssumption
  <1>2. r2 \in Slots
    BY <1>1 DEF NextSlot, Slots
  <1>3. /\ q \in Seq(S) /\ Len(q) = d /\ d \in 1 .. CONSBUFSIZE - 1
        /\ \A n \in 1 .. d : q[n] = b[Wrap((r + n) - 1)]
    <2>1. /\ q \in Seq(S) /\ Len(q) = d /\ d \in 0 .. CONSBUFSIZE - 1 /\ d # 0
          /\ \A n \in 1 .. d : q[n] = b[Wrap((r + n) - 1)]
      BY ContentsShape
    <2>2. QED BY <1>1, <2>1
  <1>4. Distance(r2, w) = d - 1
    BY <1>1 DEF Distance, NextSlot, Slots
  <1>5. \A n \in 1 .. d - 1 : Wrap((r2 + n) - 1) = Wrap((r + (n + 1)) - 1)
    BY <1>1, <1>3 DEF Distance, NextSlot, Wrap, Slots
  <1>6. Wrap((r + 1) - 1) = r
    BY <1>1 DEF Wrap, Slots
  <1> HIDE DEF r2
  <1>7. /\ p \in Seq(S) /\ Len(p) = d - 1
        /\ \A n \in 1 .. d - 1 : p[n] = b[Wrap((r2 + n) - 1)]
    BY <1>2, <1>4, ContentsShape
  <1> HIDE DEF d, q, p
  <1>8. q # << >> /\ Head(q) = b[r]
    BY <1>1, <1>3, <1>6, EmptySeq
  <1>9. /\ Tail(q) \in Seq(S) /\ Len(Tail(q)) = d - 1
        /\ \A n \in 1 .. d - 1 : Tail(q)[n] = q[n + 1]
    BY <1>1, <1>3, <1>8, HeadTailProperties
  <1>10. \A n \in 1 .. d - 1 : p[n] = Tail(q)[n]
    BY <1>1, <1>3, <1>5, <1>7, <1>9
  <1>11. p = Tail(q)
    BY <1>7, <1>9, <1>10, SeqEqual
  <1>12. QED BY <1>8, <1>11 DEF q, p, r2

-----------------------------------------------------------------------------
\* A stored character leaves the buffer and its write position in their types,
\* and is an arrival of the queue; 0 is no character.
LEMMA StoreStep ==
    ASSUME TypeOK, NEW c \in Chars \cup {0}, Store(c), rpos' = rpos, ret' = ret
    PROVE  /\ buf' \in [Slots -> Chars \cup {0}]
           /\ wpos' \in Slots
           /\ c = 0 => buf' = buf /\ wpos' = wpos
           /\ c # 0 => Queue!Arrive(c)
  <1>1. CONSBUFSIZE \in Nat /\ CONSBUFSIZE > 1
    BY ConsoleAssumption
  <1>2. buf \in [Slots -> Chars \cup {0}] /\ wpos \in Slots /\ rpos \in Slots
    BY DEF TypeOK
  <1>3. CASE c = 0
    BY <1>2, <1>3 DEF Store
  <1>4. CASE c # 0
    <2>1. buf' = [buf EXCEPT ![wpos] = c] /\ wpos' = NextSlot(wpos)
      BY <1>4 DEF Store, NextSlot
    <2>2. wpos' \in Slots
      BY <1>1, <1>2, <2>1 DEF NextSlot, Slots
    <2>3. Contents([buf EXCEPT ![wpos] = c], rpos, NextSlot(wpos))
            = IF Len(Contents(buf, rpos, wpos)) < CONSBUFSIZE - 1
              THEN Append(Contents(buf, rpos, wpos), c) ELSE << >>
      <3> DEFINE C == Chars \cup {0}
      <3>1. \A x \in [Slots -> C], r \in Slots, w \in Slots, y \in C :
              Contents([x EXCEPT ![w] = y], r, NextSlot(w))
                = IF Len(Contents(x, r, w)) < CONSBUFSIZE - 1
                  THEN Append(Contents(x, r, w), y) ELSE << >>
        BY StoreContents
      <3>2. QED BY <1>2, <3>1
    <2>4. Queue!Arrive(c)
      BY <2>1, <2>3 DEF Queue!Arrive
    <2>5. QED BY <1>2, <1>4, <2>1, <2>2, <2>4
  <1>5. QED BY <1>3, <1>4

\* What the keyboard driver returns and leaves.
LEMMA KeyboardStep ==
    ASSUME TypeOK, NEW c \in KbdChars \cup {0}, kbd_proc_data(c)
    PROVE  kbd' \in Seq(0 .. 255) /\ shift' \subseteq Flags
  <1>1. kbd' \in Seq(0 .. 255)
    <2>1. kbd \in Seq(0 .. 255) /\ kbd # << >> /\ kbd' = Tail(kbd)
      BY DEF TypeOK, kbd_proc_data
    <2>2. QED BY <2>1
  <1>2. shift \subseteq Flags
    BY DEF TypeOK
  <1>3. \A k : shiftcode(k) \subseteq Flags /\ togglecode(k) \subseteq Flags
    BY DEF shiftcode, togglecode, Flags
  <1>4. "E0ESC" \in Flags
    BY DEF Flags
  <1> DEFINE data == Head(kbd)
  <1>5. CASE KbdEscape(data, c)
    BY <1>1, <1>2, <1>4, <1>5 DEF KbdEscape
  <1>6. CASE KeyReleased(data, c)
    BY <1>1, <1>2, <1>6 DEF KeyReleased
  <1>7. CASE KeyPressed(data, c)
    <2> DEFINE k == IF "E0ESC" \in shift THEN data + 128 ELSE data
               down == (shift \ {"E0ESC"}) \cup shiftcode(k)
    <2>1. shift' = (down \ togglecode(k)) \cup (togglecode(k) \ down)
      BY <1>7 DEF KeyPressed
    <2>2. QED BY <1>1, <1>2, <1>3, <2>1
  <1>8. QED BY <1>5, <1>6, <1>7 DEF kbd_proc_data

-----------------------------------------------------------------------------
\* The scan codes of a key are bytes.
LEMMA ScanCodes ==
    ASSUME NEW k \in Keys
    PROVE  MakeCode(k) \in Seq(0 .. 255) /\ BreakCode(k) \in Seq(0 .. 255)
  <1>1. k \in 1 .. 255
    BY ConsoleAssumption
  <1>2. CASE k >= 128
    BY <1>1, <1>2 DEF MakeCode, BreakCode, E0
  <1>3. CASE ~(k >= 128)
    BY <1>1, <1>3 DEF MakeCode, BreakCode, E0
  <1>4. QED BY <1>2, <1>3

\* The initial state has its type.
LEMMA InitTypeOK == Init => TypeOK
  <1>1. CONSBUFSIZE \in Nat /\ CONSBUFSIZE > 1
    BY ConsoleAssumption
  <1>2. 0 \in Slots
    BY <1>1 DEF Slots
  <1>3. << >> \in Seq(0 .. 255)
    OBVIOUS
  <1>4. QED BY <1>2, <1>3 DEF Init, TypeOK

\* Every step keeps the types, and is a step of the queue or leaves it as it is.
LEMMA StepTypeAndQueue ==
    ASSUME TypeOK, [Next]_vars
    PROVE  /\ TypeOK'
           /\ \/ Queue!Next
              \/ UNCHANGED <<Contents(buf, rpos, wpos), ret>>
  <1> DEFINE q == Contents(buf, rpos, wpos)
  <1>1. CONSBUFSIZE \in Nat /\ CONSBUFSIZE > 1
    BY ConsoleAssumption
  <1>2. buf \in [Slots -> Chars \cup {0}] /\ wpos \in Slots /\ rpos \in Slots
    BY DEF TypeOK
  <1>3. ASSUME buf' = buf, rpos' = rpos, wpos' = wpos PROVE q' = q
    BY <1>3
  <1>4. ASSUME NEW c \in Chars \cup {0}, Store(c), rpos' = rpos, ret' = ret
        PROVE  /\ buf' \in [Slots -> Chars \cup {0}] /\ wpos' \in Slots
               /\ Queue!Next \/ UNCHANGED <<q, ret>>
    <2>1. CASE c = 0
      BY <1>2, <1>3, <1>4, <2>1, StoreStep
    <2>2. CASE c # 0
      BY <1>4, <2>2, StoreStep DEF Queue!Next
    <2>3. QED BY <2>1, <2>2
  <1>5. ASSUME NEW k \in Keys, Press(k) \/ Release(k)
        PROVE  TypeOK' /\ UNCHANGED <<q, ret>>
    <2>1. /\ \/ kbd' = kbd \o MakeCode(k) /\ held' = held \cup {k}
             \/ kbd' = kbd \o BreakCode(k) /\ held' = held \ {k}
          /\ UNCHANGED <<com1, serial_exists, shift, buf, rpos, wpos, pc, ret>>
      BY <1>5 DEF Press, Release
    <2>2. kbd' \in Seq(0 .. 255)
      <3>1. kbd \in Seq(0 .. 255)
        BY DEF TypeOK
      <3>2. MakeCode(k) \in Seq(0 .. 255) /\ BreakCode(k) \in Seq(0 .. 255)
        BY ScanCodes
      <3>3. kbd \o MakeCode(k) \in Seq(0 .. 255)
        BY <3>1, <3>2, ConcatProperties
      <3>4. kbd \o BreakCode(k) \in Seq(0 .. 255)
        BY <3>1, <3>2, ConcatProperties
      <3>5. QED BY <2>1, <3>3, <3>4
    <2>3. QED BY <1>3, <2>1, <2>2 DEF TypeOK
  <1>6. ASSUME NEW c \in SerialChars, SerialArrives(c)
        PROVE  TypeOK' /\ UNCHANGED <<q, ret>>
    BY <1>3, <1>6 DEF SerialArrives, TypeOK
  <1>7. ASSUME cons_getc \/ cons_getc2
        PROVE  TypeOK' /\ Queue!Next
    <2>1. /\ pc' \in {"serial_intr", "serial_once"} /\ ret' = 0
          /\ UNCHANGED <<held, kbd, com1, serial_exists, shift, buf, rpos, wpos>>
      BY <1>7 DEF cons_getc, cons_getc2
    <2>2. TypeOK'
      BY <2>1 DEF TypeOK
    <2>3. Queue!GetNone
      BY <1>3, <2>1 DEF Queue!GetNone
    <2>4. QED BY <2>2, <2>3 DEF Queue!Next
  <1>8. CASE serial_intr \/ serial_once
    <2>1. /\ pc' \in {"serial_intr", "kbd_intr", "kbd_once"}
          /\ UNCHANGED <<held, kbd, serial_exists, shift, rpos, ret>>
          /\ \/ com1 # 0 /\ Store(com1) /\ com1' = 0
             \/ UNCHANGED <<com1, buf, wpos>>
      BY <1>8 DEF serial_intr, serial_once
    <2>2. com1 \in Chars \cup {0}
      BY DEF TypeOK, Chars
    <2>3. CASE Store(com1) /\ com1' = 0
      <3>1. /\ buf' \in [Slots -> Chars \cup {0}] /\ wpos' \in Slots
            /\ Queue!Next \/ UNCHANGED <<q, ret>>
        BY <1>4, <2>1, <2>2, <2>3
      <3>2. TypeOK'
        BY <2>1, <2>3, <3>1 DEF TypeOK
      <3>3. QED BY <3>1, <3>2
    <2>4. CASE UNCHANGED <<com1, buf, wpos>>
      <3>1. TypeOK'
        BY <2>1, <2>4 DEF TypeOK
      <3>2. UNCHANGED <<q, ret>>
        BY <1>3, <2>1, <2>4
      <3>3. QED BY <3>1, <3>2
    <2>5. QED BY <2>1, <2>3, <2>4
  <1>9. CASE kbd_intr \/ kbd_once
    <2>1. /\ pc' \in {"kbd_intr", "grab", "idle"}
          /\ UNCHANGED <<held, com1, serial_exists, rpos, ret>>
          /\ \/ \E c \in KbdChars \cup {0} : kbd_proc_data(c) /\ Store(c)
             \/ UNCHANGED <<kbd, shift, buf, wpos>>
      <3>1. CASE kbd_intr
        BY <3>1 DEF kbd_intr
      <3>2. CASE kbd_once
        BY <3>2 DEF kbd_once
      <3>3. QED BY <1>9, <3>1, <3>2
    <2>2. ASSUME NEW c \in KbdChars \cup {0}, kbd_proc_data(c), Store(c)
          PROVE  TypeOK' /\ (Queue!Next \/ UNCHANGED <<q, ret>>)
      <3>1. c \in Chars \cup {0}
        BY DEF Chars
      <3>2. /\ buf' \in [Slots -> Chars \cup {0}] /\ wpos' \in Slots
            /\ Queue!Next \/ UNCHANGED <<q, ret>>
        BY <1>4, <2>1, <2>2, <3>1
      <3>3. kbd' \in Seq(0 .. 255) /\ shift' \subseteq Flags
        BY <2>2, KeyboardStep
      <3>4. TypeOK'
        BY <2>1, <3>2, <3>3 DEF TypeOK
      <3>5. QED BY <3>2, <3>4
    <2>3. CASE UNCHANGED <<kbd, shift, buf, wpos>>
      <3>1. TypeOK'
        BY <2>1, <2>3 DEF TypeOK
      <3>2. UNCHANGED <<q, ret>>
        BY <1>3, <2>1, <2>3
      <3>3. QED BY <3>1, <3>2
    <2>4. QED BY <2>1, <2>2, <2>3
  <1>10. CASE grab
    <2>1. /\ pc' = "idle"
          /\ UNCHANGED <<held, kbd, com1, serial_exists, shift, buf, wpos>>
      BY <1>10 DEF grab
    <2>2. CASE rpos # wpos
      <3>1. ret' = buf[rpos] /\ rpos' = NextSlot(rpos)
        BY <1>10, <2>2 DEF grab, NextSlot
      <3>2. rpos' \in Slots
        BY <1>1, <1>2, <3>1 DEF NextSlot, Slots
      <3>3. TypeOK'
        BY <1>2, <2>1, <3>1, <3>2 DEF TypeOK
      <3>4. /\ q # << >> /\ Head(q) = buf[rpos]
            /\ Contents(buf, NextSlot(rpos), wpos) = Tail(q)
        BY <1>2, <2>2, GrabContents
      <3>5. Queue!Get
        BY <2>1, <3>1, <3>4 DEF Queue!Get
      <3>6. QED BY <3>3, <3>5 DEF Queue!Next
    <2>3. CASE rpos = wpos
      <3>1. ret' = 0 /\ rpos' = rpos
        BY <1>10, <2>3 DEF grab
      <3>2. TypeOK'
        BY <2>1, <3>1 DEF TypeOK
      <3>3. Queue!GetNone
        BY <1>3, <2>1, <3>1 DEF Queue!GetNone
      <3>4. QED BY <3>2, <3>3 DEF Queue!Next
    <2>4. QED BY <2>2, <2>3
  <1>11. CASE UNCHANGED vars
    BY <1>3, <1>11 DEF vars, TypeOK
  <1>12. QED
    BY <1>5, <1>6, <1>7, <1>8, <1>9, <1>10, <1>11 DEF Next, Devices

\* Every variable keeps its type, the two positions of cons among them: for any
\* size of the buffer no read or write is outside it.
THEOREM ConsoleTypeCorrect == Spec => []TypeOK
  <1>1. Init => TypeOK
    BY InitTypeOK
  <1>2. TypeOK /\ [Next]_vars => TypeOK'
    BY StepTypeAndQueue
  <1>3. QED BY <1>1, <1>2, PTL DEF Spec

\* For any size of the buffer, any keys and any mixture of the two readers,
\* the circular buffer of console.c implements a queue: a read gets the
\* oldest character, each character is read once.
THEOREM ReadsInOrderCorrect == Spec => ReadsInOrder
  <1>1. Init => Queue!Init
    <2>1. SUFFICES ASSUME Init PROVE Queue!Init
      OBVIOUS
    <2>2. CONSBUFSIZE \in Nat /\ CONSBUFSIZE > 1
      BY ConsoleAssumption
    <2>3. TypeOK /\ rpos = 0 /\ wpos = 0 /\ ret = 0
      BY <2>1, InitTypeOK DEF Init
    <2>4. Distance(0, 0) = 0
      BY DEF Distance
    <2>5. buf \in [Slots -> Chars \cup {0}] /\ 0 \in Slots
      BY <2>3 DEF TypeOK
    <2>6. /\ Contents(buf, 0, 0) \in Seq(Chars \cup {0})
          /\ Len(Contents(buf, 0, 0)) = Distance(0, 0)
      BY <2>5, ContentsShape
    <2>7. Contents(buf, 0, 0) = << >>
      BY <2>4, <2>6, EmptySeq
    <2>8. QED BY <2>3, <2>7 DEF Queue!Init
  <1>2. TypeOK /\ [Next]_vars
          => [Queue!Next]_<<Contents(buf, rpos, wpos), ret>>
    BY StepTypeAndQueue
  <1>3. QED
    BY <1>1, <1>2, ConsoleTypeCorrect, PTL DEF Spec, ReadsInOrder, Queue!Spec

-----------------------------------------------------------------------------
(***************************************************************************)
(* No modifier sticks.  What the flags will be when the driver has seen    *)
(* all codes depends on the last code in the keyboard controller that is   *)
(* for the flag, or on the flag itself if there is none: position 0 stands *)
(* for it.  A code after 0xE0 is that of an extended key.                  *)
(***************************************************************************)
Modifiers == {"SHIFT", "CTL", "ALT"}

\* The escape of the extended keys is not the code of a key: no keyboard has a
\* key whose release would be sent as 0xE0.
NoKeyIsEscape == \A k \in Keys : k # E0 /\ k + 128 # E0

Escaped(q, flags, i) == IF i = 1 THEN "E0ESC" \in flags ELSE q[i - 1] = E0

\* The key of a code, and the codes that set or clear a flag.
KeyOf(b, escaped) == IF b < 128 THEN IF escaped THEN b + 128 ELSE b
                                ELSE IF escaped THEN b ELSE b - 128
For(f, b, escaped) == b # E0 /\ f \in shiftcode(KeyOf(b, escaped))

\* Whether the code at i of q is for a flag, and whether it, or the flag as it
\* is, sets it.
Touches(q, flags, f, i) == For(f, q[i], Escaped(q, flags, i))
Sets(q, flags, f, i) == IF i = 0 THEN f \in flags
                        ELSE Touches(q, flags, f, i) /\ q[i] < 128

IsDown(f) == \E k \in held : f \in shiftcode(k)

LastIsDown(f) ==
    \A i \in 0 .. Len(kbd) :
      /\ Sets(kbd, shift, f, i)
      /\ \A j \in i + 1 .. Len(kbd) : ~Touches(kbd, shift, f, j)
      => IsDown(f)

EscapeEnds == IF kbd = << >> THEN "E0ESC" \notin shift ELSE kbd[Len(kbd)] # E0

KeyInv == TypeOK /\ EscapeEnds /\ \A f \in Modifiers : LastIsDown(f)

\* When no code is left, the flags are those of the keys that are down.
LEMMA KeyInvNotStuck == KeyInv => NoStuckModifier
  <1> SUFFICES ASSUME KeyInv, kbd = << >>,
                      NEW f \in shift \cap {"SHIFT", "CTL", "ALT"}
               PROVE  \E k \in held : f \in shiftcode(k)
    BY DEF NoStuckModifier, KeyInv, EscapeEnds
  <1>1. Len(kbd) = 0 /\ f \in Modifiers
    BY DEF Modifiers
  <1>2. LastIsDown(f) /\ Sets(kbd, shift, f, 0)
    BY <1>1 DEF KeyInv, Sets
  <1>3. 0 \in 0 .. Len(kbd) /\ \A j \in 0 + 1 .. Len(kbd) : ~Touches(kbd, shift, f, j)
    BY <1>1
  <1>4. QED BY <1>2, <1>3 DEF LastIsDown, IsDown

\* b ends the code of key k, which is of one byte, or of two for an extended
\* key, and says whether the key goes down.
LastByte(code, k, b) ==
    /\ b # E0
    /\ b < 128 <=> code = MakeCode(k)
    /\ \/ code = <<b>> /\ KeyOf(b, FALSE) = k
       \/ code = <<E0, b>> /\ KeyOf(b, TRUE) = k

\* Every code of a key ends in such a byte.
LEMMA CodeOfKey ==
    ASSUME NoKeyIsEscape, NEW k \in Keys, NEW code \in {MakeCode(k), BreakCode(k)}
    PROVE  /\ k \in 1 .. 255
           /\ \E b \in 0 .. 255 : LastByte(code, k, b)
  <1> USE DEF LastByte
  <1>1. k \in 1 .. 255
    BY ConsoleAssumption
  <1>2. CASE k >= 128
    <2>1. MakeCode(k) = <<E0, k - 128>> /\ BreakCode(k) = <<E0, k>>
      BY <1>2 DEF MakeCode, BreakCode
    <2>2. k - 128 # E0 /\ k # E0 /\ k - 128 \in 0 .. 127 /\ k \in 128 .. 255
      BY <1>1, <1>2 DEF NoKeyIsEscape, E0
    <2>3. KeyOf(k - 128, TRUE) = k /\ KeyOf(k, TRUE) = k
      BY <2>2 DEF KeyOf
    <2>4. <<E0, k - 128>> # <<E0, k>>
      BY <1>1
    <2>5. CASE code = MakeCode(k)
      <3> DEFINE b == k - 128
      <3>1. b \in 0 .. 255 /\ b # E0
        BY <1>1, <2>2
      <3>2. KeyOf(b, TRUE) = k
        BY <2>3
      <3>3. code = <<E0, b>>
        BY <2>1, <2>5
      <3>4. b < 128 <=> code = MakeCode(k)
        BY <1>1, <2>1, <2>2, <2>4, <2>5
      <3> HIDE DEF b
      <3>5. QED BY <1>1, <3>1, <3>2, <3>3, <3>4
    <2>6. CASE code = BreakCode(k)
      <3> DEFINE b == k
      <3>1. b \in 0 .. 255 /\ b # E0
        BY <1>1, <2>2
      <3>2. KeyOf(b, TRUE) = k
        BY <2>3
      <3>3. code = <<E0, b>>
        BY <2>1, <2>6
      <3>4. b < 128 <=> code = MakeCode(k)
        BY <1>1, <2>1, <2>2, <2>4, <2>6
      <3> HIDE DEF b
      <3>5. QED BY <1>1, <3>1, <3>2, <3>3, <3>4
    <2>7. QED BY <2>5, <2>6
  <1>3. CASE ~(k >= 128)
    <2>1. MakeCode(k) = <<k>> /\ BreakCode(k) = <<k + 128>>
      BY <1>3 DEF MakeCode, BreakCode
    <2>2. k # E0 /\ k + 128 # E0 /\ k \in 0 .. 127 /\ k + 128 \in 128 .. 255
      BY <1>1, <1>3 DEF NoKeyIsEscape
    <2>3. KeyOf(k, FALSE) = k /\ KeyOf(k + 128, FALSE) = k
      BY <2>2 DEF KeyOf
    <2>4. <<k>> # <<k + 128>>
      BY <1>1
    <2>5. CASE code = MakeCode(k)
      <3> DEFINE b == k
      <3>1. b \in 0 .. 255 /\ b # E0
        BY <1>1, <2>2
      <3>2. KeyOf(b, FALSE) = k
        BY <2>3
      <3>3. code = <<b>>
        BY <2>1, <2>5
      <3>4. b < 128 <=> code = MakeCode(k)
        BY <1>1, <2>1, <2>2, <2>4, <2>5
      <3> HIDE DEF b
      <3>5. QED BY <1>1, <3>1, <3>2, <3>3, <3>4
    <2>6. CASE code = BreakCode(k)
      <3> DEFINE b == k + 128
      <3>1. b \in 0 .. 255 /\ b # E0
        BY <1>1, <2>2
      <3>2. KeyOf(b, FALSE) = k
        BY <2>3
      <3>3. code = <<b>>
        BY <2>1, <2>6
      <3>4. b < 128 <=> code = MakeCode(k)
        BY <1>1, <2>1, <2>2, <2>4, <2>6
      <3> HIDE DEF b
      <3>5. QED BY <1>1, <3>1, <3>2, <3>3, <3>4
    <2>7. QED BY <2>5, <2>6
  <1>4. QED BY <1>2, <1>3

\* The codes before those of a key keep their meaning; the last byte of those of
\* a key is for the flag of the key, and a byte 0xE0 for none.
LEMMA CodeAdded ==
    ASSUME TypeOK, EscapeEnds, NoKeyIsEscape,
           NEW k \in Keys, NEW code \in {MakeCode(k), BreakCode(k)},
           kbd' = kbd \o code, shift' = shift
    PROVE  LET n == Len(kbd)  m == Len(kbd') IN
           /\ n \in Nat /\ m \in {n + 1, n + 2}
           /\ kbd'[m] # E0 /\ kbd' # << >>
           /\ (kbd'[m] < 128) <=> (code = MakeCode(k))
           /\ \A f : Touches(kbd', shift', f, m) <=> f \in shiftcode(k)
           /\ \A f : \A i \in 1 .. n :
                /\ Touches(kbd', shift', f, i) <=> Touches(kbd, shift, f, i)
                /\ kbd'[i] = kbd[i]
           /\ \A f : \A i \in n + 1 .. m - 1 : ~Touches(kbd', shift', f, i)
  <1> DEFINE n == Len(kbd)
             m == Len(kbd')
  <1>1. kbd \in Seq(0 .. 255) /\ n \in Nat /\ DOMAIN kbd = 1 .. n
    BY LenProperties DEF TypeOK
  <1>2. PICK b \in 0 .. 255 : LastByte(code, k, b)
    BY CodeOfKey
  <1> USE DEF LastByte
  <1>3. code \in Seq(0 .. 255)
    BY ScanCodes
  <1>4. /\ m = n + Len(code)
        /\ \A i \in 1 .. n : kbd'[i] = kbd[i]
        /\ \A i \in 1 .. Len(code) : kbd'[n + i] = code[i]
    BY <1>1, <1>3, ConcatProperties
  <1>5. ASSUME NEW i \in 1 .. n, NEW f
        PROVE  Touches(kbd', shift', f, i) <=> Touches(kbd, shift, f, i)
    <2>1. kbd'[i] = kbd[i]
      BY <1>4
    <2>2. Escaped(kbd', shift', i) <=> Escaped(kbd, shift, i)
      BY <1>1, <1>4 DEF Escaped
    <2>3. QED BY <2>1, <2>2 DEF Touches, For, KeyOf
  <1>6. CASE code = <<b>> /\ KeyOf(b, FALSE) = k
    <2>1. m = n + 1 /\ kbd'[n + 1] = b
      BY <1>4, <1>6
    <2>2. ~Escaped(kbd', shift', n + 1)
      <3>1. CASE n = 0
        <4>1. kbd = << >>
          BY <1>1, <3>1, EmptySeq
        <4>2. n + 1 = 1 /\ "E0ESC" \notin shift'
          BY <3>1, <4>1 DEF EscapeEnds
        <4>3. QED BY <4>2 DEF Escaped
      <3>2. CASE n # 0
        <4>1. kbd # << >> /\ n \in 1 .. n
          BY <1>1, <3>2
        <4>2. kbd'[n] # E0
          BY <1>4, <4>1 DEF EscapeEnds
        <4>3. n + 1 # 1 /\ (n + 1) - 1 = n
          BY <1>1, <3>2
        <4>4. QED BY <4>2, <4>3 DEF Escaped
      <3>3. QED BY <3>1, <3>2
    <2>3. KeyOf(b, Escaped(kbd', shift', n + 1)) = k
      BY <1>6, <2>2 DEF KeyOf
    <2>4. \A f : Touches(kbd', shift', f, n + 1) <=> f \in shiftcode(k)
      BY <1>2, <2>1, <2>3 DEF Touches, For
    <2>5. kbd' # << >>
      BY <1>1, <2>1, EmptySeq
    <2> HIDE DEF n, m
    <2>6. n + 1 .. m - 1 = {}
      BY <1>1, <2>1
    <2>7. QED BY <1>1, <1>2, <1>4, <1>5, <2>1, <2>4, <2>5, <2>6 DEF n, m
  <1>7. CASE code = <<E0, b>> /\ KeyOf(b, TRUE) = k
    <2>1. m = n + 2 /\ kbd'[n + 1] = E0 /\ kbd'[n + 2] = b
      BY <1>4, <1>7
    <2>2. Escaped(kbd', shift', n + 2)
      <3>1. n + 2 # 1 /\ (n + 2) - 1 = n + 1
        BY <1>1
      <3>2. QED BY <2>1, <3>1 DEF Escaped
    <2>3. KeyOf(b, Escaped(kbd', shift', n + 2)) = k
      BY <1>7, <2>2 DEF KeyOf
    <2>4. \A f : Touches(kbd', shift', f, n + 2) <=> f \in shiftcode(k)
      BY <1>2, <2>1, <2>3 DEF Touches, For
    <2>5. \A f : ~Touches(kbd', shift', f, n + 1)
      BY <2>1 DEF Touches, For
    <2>6. kbd' # << >>
      BY <1>1, <2>1, EmptySeq
    <2> HIDE DEF n, m
    <2>7. \A i \in n + 1 .. m - 1 : i = n + 1
      BY <1>1, <2>1
    <2>8. QED BY <1>1, <1>2, <1>4, <1>5, <2>1, <2>4, <2>5, <2>6, <2>7 DEF n, m
  <1>8. QED BY <1>2, <1>6, <1>7

\* A key that goes down or up.
LEMMA KeyMoves ==
    ASSUME KeyInv, NoKeyIsEscape, NEW k \in Keys, Press(k) \/ Release(k)
    PROVE  EscapeEnds' /\ \A f \in Modifiers : LastIsDown(f)'
  <1>1. TypeOK /\ EscapeEnds
    BY DEF KeyInv
  <1>2. PICK code \in {MakeCode(k), BreakCode(k)} :
          /\ kbd' = kbd \o code /\ shift' = shift
          /\ \/ code = MakeCode(k) /\ held' = held \cup {k}
             \/ code = BreakCode(k) /\ held' = held \ {k}
    BY DEF Press, Release
  <1> DEFINE n == Len(kbd)
             m == Len(kbd')
  <1>3. /\ n \in Nat /\ m \in {n + 1, n + 2}
        /\ kbd'[m] # E0 /\ kbd' # << >>
        /\ (kbd'[m] < 128) <=> (code = MakeCode(k))
        /\ \A f : Touches(kbd', shift', f, m) <=> f \in shiftcode(k)
        /\ \A f : \A i \in 1 .. n :
             /\ Touches(kbd', shift', f, i) <=> Touches(kbd, shift, f, i)
             /\ kbd'[i] = kbd[i]
        /\ \A f : \A i \in n + 1 .. m - 1 : ~Touches(kbd', shift', f, i)
    BY <1>1, <1>2, CodeAdded
  <1>4. MakeCode(k) # BreakCode(k)
    <2>1. k \in 1 .. 255
      BY ConsoleAssumption
    <2>2. CASE k >= 128
      BY <2>1, <2>2 DEF MakeCode, BreakCode
    <2>3. CASE ~(k >= 128)
      BY <2>1, <2>3 DEF MakeCode, BreakCode
    <2>4. QED BY <2>2, <2>3
  <1>5. EscapeEnds'
    BY <1>3 DEF EscapeEnds
  <1>6. ASSUME NEW f \in Modifiers, NEW i \in 0 .. m, Sets(kbd', shift', f, i),
               \A j \in i + 1 .. m : ~Touches(kbd', shift', f, j)
        PROVE  IsDown(f)'
    <2> HIDE DEF n, m
    <2>1. CASE f \in shiftcode(k)
      <3>1. i = m
        <4>1. Touches(kbd', shift', f, m)
          BY <1>3, <2>1
        <4>2. m \notin i + 1 .. m
          BY <1>6, <4>1
        <4>3. QED BY <1>3, <4>2
      <3>2. code = MakeCode(k)
        BY <1>3, <1>6, <3>1 DEF Sets
      <3>3. k \in held'
        BY <1>2, <1>4, <3>2
      <3>4. QED BY <2>1, <3>3 DEF IsDown
    <2>2. CASE f \notin shiftcode(k)
      <3>1. ~Touches(kbd', shift', f, m)
        BY <1>3, <2>2
      <3>2. i \in 0 .. n
        <4>1. CASE i = 0
          BY <1>3, <4>1
        <4>2. CASE i # 0
          <5>1. Touches(kbd', shift', f, i)
            BY <1>6, <4>2 DEF Sets
          <5>2. i # m /\ i \notin n + 1 .. m - 1
            BY <1>3, <3>1, <5>1
          <5>3. QED BY <1>3, <5>2
        <4>3. QED BY <4>1, <4>2
      <3>3. Sets(kbd, shift, f, i)
        <4>1. CASE i = 0
          BY <1>2, <1>6, <4>1 DEF Sets
        <4>2. CASE i # 0
          <5>1. i \in 1 .. n
            BY <1>3, <3>2, <4>2
          <5>2. Touches(kbd', shift', f, i) /\ kbd'[i] < 128
            BY <1>6, <4>2 DEF Sets
          <5>3. Touches(kbd, shift, f, i) /\ kbd[i] < 128
            BY <1>3, <5>1, <5>2
          <5>4. QED BY <4>2, <5>3 DEF Sets
        <4>3. QED BY <4>1, <4>2
      <3>4. \A j \in i + 1 .. n : ~Touches(kbd, shift, f, j)
        BY <1>3, <1>6, <3>2
      <3>5. IsDown(f)
        BY <3>2, <3>3, <3>4 DEF KeyInv, LastIsDown, n
      <3>6. QED BY <1>2, <2>2, <3>5 DEF IsDown
    <2>3. QED BY <2>1, <2>2
  <1>7. QED BY <1>5, <1>6 DEF LastIsDown

\* What the driver does to a modifier when it takes a code.
LEMMA DriverFlags ==
    ASSUME TypeOK, NEW c, kbd_proc_data(c)
    PROVE  /\ kbd # << >> /\ kbd' = Tail(kbd)
           /\ "E0ESC" \in shift' <=> kbd[1] = E0
           /\ \A f \in Modifiers :
                f \in shift' <=> IF Touches(kbd, shift, f, 1)
                                 THEN Sets(kbd, shift, f, 1) ELSE f \in shift
  <1> DEFINE data == Head(kbd)
             k == KeyOf(data, "E0ESC" \in shift)
  <1>1. kbd # << >> /\ kbd' = Tail(kbd) /\ data = kbd[1] /\ data \in 0 .. 255
    <2>1. kbd # << >> /\ kbd' = Tail(kbd) /\ kbd \in Seq(0 .. 255)
      BY DEF kbd_proc_data, TypeOK
    <2>2. data = kbd[1] /\ data \in 0 .. 255
      BY <2>1, HeadTailProperties
    <2>3. QED BY <2>1, <2>2
  <1>2. /\ \A f : Touches(kbd, shift, f, 1) <=> data # E0 /\ f \in shiftcode(k)
        /\ \A f : Sets(kbd, shift, f, 1) <=> Touches(kbd, shift, f, 1) /\ data < 128
    BY <1>1 DEF Touches, Sets, For, Escaped
  <1>3. /\ \A x : shiftcode(x) \subseteq Modifiers
        /\ \A x : togglecode(x) \cap (Modifiers \cup {"E0ESC"}) = {}
        /\ "E0ESC" \notin Modifiers
    BY DEF shiftcode, togglecode, Modifiers
  <1>4. CASE KbdEscape(data, c)
    <2>1. data = E0 /\ shift' = shift \cup {"E0ESC"}
      BY <1>4 DEF KbdEscape
    <2>2. QED BY <1>1, <1>2, <1>3, <2>1
  <1>5. CASE KeyReleased(data, c)
    <2>1. /\ data >= 128 /\ data # E0
          /\ k = IF "E0ESC" \in shift THEN data ELSE data - 128
      <3>1. data >= 128 /\ data # E0
        BY <1>5 DEF KeyReleased
      <3>2. data \in 0 .. 255
        BY <1>1
      <3> HIDE DEF data
      <3>3. ~(data < 128)
        BY <3>1, <3>2
      <3>4. k = IF "E0ESC" \in shift THEN data ELSE data - 128
        BY <3>3 DEF KeyOf
      <3>5. QED BY <3>1, <3>4
    <2>2. shift' = shift \ (shiftcode(k) \cup {"E0ESC"})
      BY <1>5, <2>1 DEF KeyReleased
    <2> HIDE DEF data, k
    <2>3. ~(data < 128)
      BY <1>1, <2>1
    <2>4. QED BY <1>1, <1>2, <1>3, <2>1, <2>2, <2>3
  <1>6. CASE KeyPressed(data, c)
    <2>1. /\ data < 128 /\ data # E0
          /\ k = IF "E0ESC" \in shift THEN data + 128 ELSE data
      BY <1>1, <1>6 DEF KeyPressed, KeyOf, E0
    <2> DEFINE down == (shift \ {"E0ESC"}) \cup shiftcode(k)
    <2>2. shift' = (down \ togglecode(k)) \cup (togglecode(k) \ down)
      BY <1>6, <2>1 DEF KeyPressed
    <2> HIDE DEF data, k
    <2>3. QED BY <1>1, <1>2, <1>3, <2>1, <2>2
  <1>7. QED BY <1>4, <1>5, <1>6 DEF kbd_proc_data

\* A code that the driver takes becomes the state of the flags.
LEMMA DriverTakes ==
    ASSUME KeyInv, NEW c, kbd_proc_data(c), held' = held
    PROVE  EscapeEnds' /\ \A f \in Modifiers : LastIsDown(f)'
  <1> DEFINE n == Len(kbd)
  <1>1. TypeOK /\ EscapeEnds /\ kbd \in Seq(0 .. 255)
    BY DEF KeyInv, TypeOK
  <1>2. /\ kbd # << >> /\ kbd' = Tail(kbd)
        /\ "E0ESC" \in shift' <=> kbd[1] = E0
        /\ \A f \in Modifiers :
             f \in shift' <=> IF Touches(kbd, shift, f, 1)
                              THEN Sets(kbd, shift, f, 1) ELSE f \in shift
    BY <1>1, DriverFlags
  <1>3. /\ n \in Nat /\ n >= 1
        /\ kbd' \in Seq(0 .. 255) /\ Len(kbd') = n - 1
        /\ \A i \in 1 .. n - 1 : kbd'[i] = kbd[i + 1]
    <2>1. n \in Nat /\ n # 0
      BY <1>1, <1>2, LenProperties, EmptySeq
    <2>2. QED BY <1>1, <1>2, <2>1, HeadTailProperties
  <1>4. ASSUME NEW f, NEW i \in 1 .. n - 1
        PROVE  Touches(kbd', shift', f, i) <=> Touches(kbd, shift, f, i + 1)
    <2>1. kbd'[i] = kbd[i + 1]
      BY <1>3
    <2>2. Escaped(kbd', shift', i) <=> Escaped(kbd, shift, i + 1)
      <3>1. CASE i = 1
        BY <1>2, <3>1 DEF Escaped
      <3>2. CASE i # 1
        <4>1. i - 1 \in 1 .. n - 1 /\ (i - 1) + 1 = i /\ (i + 1) - 1 = i /\ i + 1 # 1
          BY <1>3, <3>2
        <4>2. kbd'[i - 1] = kbd[i]
          BY <1>3, <4>1
        <4>3. QED BY <3>2, <4>1, <4>2 DEF Escaped
      <3>3. QED BY <3>1, <3>2
    <2>3. QED BY <2>1, <2>2 DEF Touches, For, KeyOf
  <1>5. EscapeEnds'
    <2>1. CASE n = 1
      <3>1. kbd[1] # E0
        BY <1>1, <1>2, <2>1 DEF EscapeEnds
      <3>2. kbd' = << >>
        BY <1>3, <2>1, EmptySeq
      <3>3. QED BY <1>2, <3>1, <3>2 DEF EscapeEnds
    <2>2. CASE n # 1
      <3>1. kbd'[n - 1] = kbd[n] /\ kbd[n] # E0
        <4>1. n - 1 \in 1 .. n - 1 /\ (n - 1) + 1 = n
          BY <1>3, <2>2
        <4>2. kbd'[n - 1] = kbd[n]
          BY <1>3, <4>1
        <4>3. QED BY <1>1, <1>2, <4>2 DEF EscapeEnds
      <3>2. kbd' # << >>
        <4>1. Len(kbd') # 0
          BY <1>3, <2>2
        <4>2. QED BY <1>3, <4>1, EmptySeq
      <3>3. QED BY <1>3, <3>1, <3>2 DEF EscapeEnds
    <2>3. QED BY <2>1, <2>2
  <1>6. ASSUME NEW f \in Modifiers, NEW i \in 0 .. n - 1, Sets(kbd', shift', f, i),
               \A j \in i + 1 .. n - 1 : ~Touches(kbd', shift', f, j)
        PROVE  IsDown(f)
    <2>1. \A l \in (i + 1) + 1 .. n : ~Touches(kbd, shift, f, l)
      <3> TAKE l \in (i + 1) + 1 .. n
      <3>1. l - 1 \in i + 1 .. n - 1 /\ l - 1 \in 1 .. n - 1 /\ (l - 1) + 1 = l
        BY <1>3
      <3>2. QED BY <1>4, <1>6, <3>1
    <2>2. CASE i = 0 /\ ~Touches(kbd, shift, f, 1)
      <3>1. Sets(kbd, shift, f, 0)
        BY <1>2, <1>6, <2>2 DEF Sets
      <3>2. \A l \in 0 + 1 .. n : ~Touches(kbd, shift, f, l)
        <4> TAKE l \in 0 + 1 .. n
        <4>1. l = 1 \/ l \in (i + 1) + 1 .. n
          BY <1>3, <2>2
        <4>2. QED BY <2>1, <2>2, <4>1
      <3>3. 0 \in 0 .. n
        BY <1>3
      <3>4. QED BY <3>1, <3>2, <3>3 DEF KeyInv, LastIsDown
    <2>3. CASE i # 0 \/ Touches(kbd, shift, f, 1)
      <3>1. Sets(kbd, shift, f, i + 1)
        <4>1. CASE i = 0
          BY <1>2, <1>6, <2>3, <4>1 DEF Sets
        <4>2. CASE i # 0
          <5>1. i \in 1 .. n - 1 /\ i + 1 # 0
            BY <1>3, <4>2
          <5>2. Touches(kbd', shift', f, i) /\ kbd'[i] < 128
            BY <1>6, <4>2 DEF Sets
          <5>3. QED BY <1>3, <1>4, <5>1, <5>2 DEF Sets
        <4>3. QED BY <4>1, <4>2
      <3>2. i + 1 \in 0 .. n
        BY <1>3
      <3>3. QED BY <2>1, <3>1, <3>2 DEF KeyInv, LastIsDown
    <2>4. QED BY <2>2, <2>3
  <1>7. \A f : IsDown(f)' <=> IsDown(f)
    BY DEF IsDown
  <1>8. QED BY <1>3, <1>5, <1>6, <1>7 DEF LastIsDown

\* KeyInv is inductive.
LEMMA NextKeyInv ==
    ASSUME KeyInv, NoKeyIsEscape, [Next]_vars
    PROVE  KeyInv'
  <1>1. TypeOK'
    BY StepTypeAndQueue DEF KeyInv
  <1>2. CASE UNCHANGED <<kbd, shift, held>>
    <2>1. \A f, i : /\ Touches(kbd', shift', f, i) <=> Touches(kbd, shift, f, i)
                    /\ Sets(kbd', shift', f, i) <=> Sets(kbd, shift, f, i)
      BY <1>2 DEF Touches, Sets, For, KeyOf, Escaped
    <2>2. \A f : IsDown(f)' <=> IsDown(f)
      BY <1>2 DEF IsDown
    <2>3. \A f \in Modifiers : LastIsDown(f)'
      BY <1>2, <2>1, <2>2 DEF KeyInv, LastIsDown
    <2>4. QED BY <1>1, <1>2, <2>3 DEF KeyInv, EscapeEnds
  <1>3. ASSUME NEW k \in Keys, Press(k) \/ Release(k) PROVE KeyInv'
    BY <1>1, <1>3, KeyMoves DEF KeyInv
  <1>4. CASE kbd_intr \/ kbd_once
    <2>1. \/ UNCHANGED <<kbd, shift, held>>
          \/ held' = held /\ \E c \in KbdChars \cup {0} : kbd_proc_data(c)
      BY <1>4 DEF kbd_intr, kbd_once
    <2>2. QED BY <1>1, <1>2, <2>1, DriverTakes DEF KeyInv
  <1>5. CASE \/ cons_getc \/ cons_getc2 \/ serial_intr \/ serial_once \/ grab
             \/ UNCHANGED vars \/ \E c \in SerialChars : SerialArrives(c)
    <2>1. UNCHANGED <<kbd, shift, held>>
      BY <1>5 DEF cons_getc, cons_getc2, serial_intr, serial_once, grab, vars,
                  SerialArrives
    <2>2. QED BY <1>2, <2>1
  <1>6. QED BY <1>3, <1>4, <1>5 DEF Next, Devices

\* NoStuckModifier (console.c:306-359): whatever keys are used, in whatever order
\* they go down and up and whoever polls the keyboard, a flag that is left when
\* the driver has seen all codes is that of a key that is down.
THEOREM NoStuckModifierCorrect ==
    ASSUME NoKeyIsEscape PROVE Spec => []NoStuckModifier
  <1>1. Init => KeyInv
    <2>1. SUFFICES ASSUME Init PROVE KeyInv
      OBVIOUS
    <2>2. TypeOK /\ kbd = << >> /\ shift = {} /\ Len(kbd) = 0
      BY <2>1, InitTypeOK DEF Init
    <2>3. \A f \in Modifiers : LastIsDown(f)
      <3> TAKE f \in Modifiers
      <3>1. \A i \in 0 .. Len(kbd) : ~Sets(kbd, shift, f, i)
        BY <2>2 DEF Sets
      <3>2. QED BY <3>1 DEF LastIsDown
    <2>4. QED BY <2>2, <2>3 DEF KeyInv, EscapeEnds
  <1>2. KeyInv /\ [Next]_vars => KeyInv'
    BY NextKeyInv
  <1>3. KeyInv => NoStuckModifier
    BY KeyInvNotStuck
  <1>4. QED BY <1>1, <1>2, <1>3, PTL DEF Spec
=============================================================================
