------------------------------ MODULE Console ------------------------------
(***************************************************************************)
(* The input side of the console, kern/console.c: the keyboard driver with *)
(* its shift state, the serial port, the circular buffer, and the two ways *)
(* to read it: cons_getc, which the prompt calls, and cons_getc2, which    *)
(* the system call sys_cgetc calls.  No interrupt feeds the buffer: both   *)
(* poll the devices.  The kernel is not interrupted, but the devices run   *)
(* beside it, so each look at a device is a step.                          *)
(*                                                                         *)
(* A key is named by its index in the tables of the driver: its scan code, *)
(* with 0x80 added when the keyboard sends 0xE0 before it.                 *)
(***************************************************************************)
EXTENDS Naturals, Sequences

CONSTANTS
    CONSBUFSIZE,
    Keys,            \* the keys somebody uses
    SerialChars,     \* the characters that come over the serial line
    ControllerSize   \* the scan codes the keyboard controller holds

ASSUME ConsoleAssumption ==
    /\ CONSBUFSIZE \in Nat \ {0, 1}
    /\ Keys \subseteq 1 .. 255
    /\ SerialChars \subseteq 1 .. 255
    /\ ControllerSize \in Nat

VARIABLES
    held,           \* the keys that are down
    kbd,            \* the scan codes in the keyboard controller
    com1,           \* the receive buffer of the serial port, 0 if empty
    serial_exists,
    shift,          \* the flags of the keyboard driver
    buf,            \* cons.buf
    rpos,           \* cons.rpos
    wpos,           \* cons.wpos
    pc,             \* what the kernel does next in a read
    ret             \* what the last read returned, 0 while one is under way

vars == <<held, kbd, com1, serial_exists, shift, buf, rpos, wpos, pc, ret>>

\* The characters the driver's tables give, and those of the serial line.
KbdChars == {1, 10, 13, 32, 50, 64, 65, 97, 228, 233}
Chars == KbdChars \cup SerialChars
Slots == 0 .. CONSBUFSIZE - 1

Init ==
    /\ held = {}
    /\ kbd = << >>
    /\ com1 = 0
    /\ serial_exists \in BOOLEAN
    /\ shift = {}
    /\ buf = [i \in Slots |-> 0]
    /\ rpos = 0 /\ wpos = 0
    /\ pc = "idle"
    /\ ret = 0

-----------------------------------------------------------------------------
(***************************************************************************)
(* The devices.  The keyboard keeps a key's codes back until they fit.     *)
(***************************************************************************)
E0 == 224
MakeCode(k) == IF k >= 128 THEN <<E0, k - 128>> ELSE <<k>>
BreakCode(k) == IF k >= 128 THEN <<E0, k>> ELSE <<k + 128>>

Press(k) ==
    /\ Len(kbd) + Len(MakeCode(k)) <= ControllerSize
    /\ kbd' = kbd \o MakeCode(k)
    /\ held' = held \cup {k}
    /\ UNCHANGED <<com1, serial_exists, shift, buf, rpos, wpos, pc, ret>>

Release(k) ==
    /\ k \in held
    /\ Len(kbd) + Len(BreakCode(k)) <= ControllerSize
    /\ kbd' = kbd \o BreakCode(k)
    /\ held' = held \ {k}
    /\ UNCHANGED <<com1, serial_exists, shift, buf, rpos, wpos, pc, ret>>

SerialArrives(c) ==
    /\ serial_exists
    /\ com1' = c
    /\ UNCHANGED <<held, kbd, serial_exists, shift, buf, rpos, wpos, pc, ret>>

-----------------------------------------------------------------------------
(***************************************************************************)
(* The keyboard driver.  The tables have one key of each kind: a letter, a *)
(* digit, space, Enter, an arrow, Del.                                     *)
(***************************************************************************)
NO == 0
KEY_LF == 228
KEY_DEL == 233
KEY_SPACE == 255

normalmap(k) == CASE k = 30 -> 97 [] k = 3 -> 50 [] k = 57 -> 32 [] k = 28 -> 10
                  [] k = 203 -> KEY_LF [] k = 211 -> KEY_DEL [] OTHER -> NO
shiftmap(k) == CASE k = 30 -> 65 [] k = 3 -> 64 [] OTHER -> normalmap(k)
ctlmap(k) == CASE k = 30 -> 1 [] k = 3 -> NO [] k = 57 -> KEY_SPACE [] k = 28 -> 13
               [] OTHER -> normalmap(k)

charcode(flags, k) == IF "CTL" \in flags THEN ctlmap(k)
                      ELSE IF "SHIFT" \in flags THEN shiftmap(k)
                      ELSE normalmap(k)

shiftcode(k) == CASE k \in {42, 54} -> {"SHIFT"}
                  [] k \in {29, 157} -> {"CTL"}
                  [] k \in {56, 184} -> {"ALT"}
                  [] OTHER -> {}
togglecode(k) == CASE k = 58 -> {"CAPSLOCK"} [] k = 69 -> {"NUMLOCK"}
                   [] k = 70 -> {"SCROLLLOCK"} [] OTHER -> {}

OtherCase(c) == IF c \in 97 .. 122 THEN c - 32
                ELSE IF c \in 65 .. 90 THEN c + 32 ELSE c

\* What is left of a character after the case and the special keys.
Special(flags, c) ==
    LET cased == IF "CAPSLOCK" \in flags THEN OtherCase(c) ELSE c IN
    IF cased = 255 \/ (flags = {"NUMLOCK"} /\ cased \in 48 .. 57) THEN NO ELSE cased

KbdEscape(data, c) ==
    /\ data = E0
    /\ shift' = shift \cup {"E0ESC"}
    /\ c = 0

\* Mutant: the release of an extended key is looked up without 0x80, like
\* that of the other keys, and its escape is kept.
KeyReleasedShort(data, c) ==
    /\ data >= 128 /\ data # E0
    /\ shift' = shift \ shiftcode(data - 128)
    /\ c = 0

KeyReleased(data, c) ==
    /\ data >= 128 /\ data # E0
    /\ LET k == IF "E0ESC" \in shift THEN data ELSE data - 128 IN
       shift' = shift \ (shiftcode(k) \cup {"E0ESC"})
    /\ c = 0

\* Del is a character only when the cursor is within the text of the line, as
\* the driver takes from the state of the display: here, perhaps.  Its later
\* test for Ctrl-Alt-Del is never reached with Del.
KeyPressed(data, c) ==
    LET k == IF "E0ESC" \in shift THEN data + 128 ELSE data
        down == (shift \ {"E0ESC"}) \cup shiftcode(k)
        flags == (down \ togglecode(k)) \cup (togglecode(k) \ down)
        code == charcode(flags, k)
    IN /\ data < 128
       /\ shift' = flags
       /\ \/ code = KEY_DEL /\ c \in {0, KEY_DEL}
          \/ code # KEY_DEL /\ c = Special(flags, code)

kbd_proc_data(c) ==
    /\ kbd # << >>
    /\ kbd' = Tail(kbd)
    /\ LET data == Head(kbd) IN
       KbdEscape(data, c) \/ KeyReleased(data, c) \/ KeyPressed(data, c)

-----------------------------------------------------------------------------
\* Mutant: the write position does not wrap.
StoreNoWrap(c) ==
    IF c = 0 THEN UNCHANGED <<buf, wpos>>
    ELSE /\ buf' = [buf EXCEPT ![wpos] = c]
         /\ wpos' = wpos + 1

\* The body of the loop of cons_intr, in both readers.
Store(c) ==
    IF c = 0 THEN UNCHANGED <<buf, wpos>>
    ELSE /\ buf' = [buf EXCEPT ![wpos] = c]
         /\ wpos' = IF wpos + 1 = CONSBUFSIZE THEN 0 ELSE wpos + 1

cons_getc ==
    /\ pc = "idle"
    /\ pc' = "serial_intr"
    /\ ret' = 0
    /\ UNCHANGED <<held, kbd, com1, serial_exists, shift, buf, rpos, wpos>>

\* cons_getc empties each device before it goes on.
serial_intr ==
    /\ pc = "serial_intr"
    /\ \/ /\ serial_exists /\ com1 # 0
          /\ Store(com1)
          /\ com1' = 0
          /\ UNCHANGED pc
       \/ /\ ~serial_exists \/ com1 = 0
          /\ pc' = "kbd_intr"
          /\ UNCHANGED <<com1, buf, wpos>>
    /\ UNCHANGED <<held, kbd, serial_exists, shift, rpos, ret>>

kbd_intr ==
    /\ pc = "kbd_intr"
    /\ \/ /\ \E c \in KbdChars \cup {0} : kbd_proc_data(c) /\ Store(c)
          /\ UNCHANGED pc
       \/ /\ kbd = << >>
          /\ pc' = "grab"
          /\ UNCHANGED <<kbd, shift, buf, wpos>>
    /\ UNCHANGED <<held, com1, serial_exists, rpos, ret>>

\* Mutant: the newest character is returned.
GrabNewest ==
    /\ pc = "grab"
    /\ pc' = "idle"
    /\ IF rpos # wpos
       THEN /\ ret' = buf[(wpos + CONSBUFSIZE - 1) % CONSBUFSIZE]
            /\ rpos' = IF rpos + 1 = CONSBUFSIZE THEN 0 ELSE rpos + 1
       ELSE ret' = 0 /\ UNCHANGED rpos
    /\ UNCHANGED <<held, kbd, com1, serial_exists, shift, buf, wpos>>

\* The next character from the buffer, 0 if there is none.
grab ==
    /\ pc = "grab"
    /\ pc' = "idle"
    /\ IF rpos # wpos
       THEN /\ ret' = buf[rpos]
            /\ rpos' = IF rpos + 1 = CONSBUFSIZE THEN 0 ELSE rpos + 1
       ELSE ret' = 0 /\ UNCHANGED rpos
    /\ UNCHANGED <<held, kbd, com1, serial_exists, shift, buf, wpos>>

\* cons_getc2 looks at each device once, and at the buffer only when the
\* keyboard gave a character.
cons_getc2 ==
    /\ pc = "idle"
    /\ pc' = "serial_once"
    /\ ret' = 0
    /\ UNCHANGED <<held, kbd, com1, serial_exists, shift, buf, rpos, wpos>>

serial_once ==
    /\ pc = "serial_once"
    /\ pc' = "kbd_once"
    /\ \/ serial_exists /\ com1 # 0 /\ Store(com1) /\ com1' = 0
       \/ (~serial_exists \/ com1 = 0) /\ UNCHANGED <<com1, buf, wpos>>
    /\ UNCHANGED <<held, kbd, serial_exists, shift, rpos, ret>>

kbd_once ==
    /\ pc = "kbd_once"
    /\ \/ \E c \in KbdChars \cup {0} :
            /\ kbd_proc_data(c) /\ Store(c)
            /\ pc' = IF c > 0 THEN "grab" ELSE "idle"
       \/ /\ kbd = << >>
          /\ pc' = "idle"
          /\ UNCHANGED <<kbd, shift, buf, wpos>>
    /\ UNCHANGED <<held, com1, serial_exists, rpos, ret>>

-----------------------------------------------------------------------------
Devices == \/ \E k \in Keys : Press(k) \/ Release(k)
           \/ \E c \in SerialChars : SerialArrives(c)

Next == Devices \/ cons_getc \/ serial_intr \/ kbd_intr \/ grab
          \/ cons_getc2 \/ serial_once \/ kbd_once

Spec == Init /\ [][Next]_vars
-----------------------------------------------------------------------------
Flags == {"SHIFT", "CTL", "ALT", "CAPSLOCK", "NUMLOCK", "SCROLLLOCK", "E0ESC"}

\* Every variable has its type.
TypeOK ==
    /\ held \subseteq Keys
    /\ kbd \in Seq(0 .. 255)
    /\ com1 \in SerialChars \cup {0}
    /\ serial_exists \in BOOLEAN
    /\ shift \subseteq Flags
    /\ buf \in [Slots -> Chars \cup {0}]
    /\ rpos \in Slots /\ wpos \in Slots
    /\ pc \in {"idle", "serial_intr", "kbd_intr", "grab",
              "serial_once", "kbd_once"}
    /\ ret \in Chars \cup {0}

\* The contents of a circular buffer b between two positions.
Wrap(i) == IF i >= CONSBUFSIZE THEN i - CONSBUFSIZE ELSE i
Distance(r, w) == IF r <= w THEN w - r ELSE (w + CONSBUFSIZE) - r
Contents(b, r, w) == [n \in 1 .. Distance(r, w) |-> b[Wrap((r + n) - 1)]]

\* The characters between the two positions of the buffer are a queue: each
\* reader, whichever it is, gets the oldest one, and no character twice.
Queue == INSTANCE CharQueue WITH
             Char <- Chars, Capacity <- CONSBUFSIZE - 1,
             queue <- Contents(buf, rpos, wpos)

ReadsInOrder == Queue!Spec

\* No modifier sticks: once the driver has seen all scan codes, a modifier flag
\* means that a key for it is down, and no escape is pending, whatever other
\* keys went down and up and whoever polled in between.
NoStuckModifier ==
    kbd = << >> =>
      /\ "E0ESC" \notin shift
      /\ \A f \in shift \cap {"SHIFT", "CTL", "ALT"} :
           \E k \in held : f \in shiftcode(k)

\* console.c:428: cons_getc2 returns "the next input character from the
\* console, or 0 if none waiting".  The code does not keep to this: a
\* character that came by the serial line waits for a key.
NoneWaiting ==
    [][pc = "kbd_once" /\ pc' = "idle" => rpos' = wpos']_vars
=============================================================================
