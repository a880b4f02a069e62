---------------------------- MODULE LineEditor ----------------------------
(***************************************************************************)
(* The line editor of the kernel prompt, kern/command_prompt.c: the buffer *)
(* of run_command_prompt, the cursor of command_prompt_readline, the       *)
(* history the arrow keys recall and the completion the Tab key cycles     *)
(* through, together with the row of the screen that cga_putc writes.  One *)
(* action is one key taken from the keyboard.                              *)
(*                                                                         *)
(* Characters are model values, NUL ends a string, and a name is a short   *)
(* sequence of characters.  A read or write outside buf is undefined       *)
(* behaviour: the model stops there with overrun set.                      *)
(***************************************************************************)
EXTENDS Integers, Sequences, FiniteSets

CONSTANTS
    BUFLEN, HISTORY_MAX,
    NUL, Blank, DelChar,   \* the end of a string, the space, the character 0xE9
    Letters,               \* the other characters somebody types
    CommandNames,          \* the names in commands[], in the order of the table
    ArgCommands,           \* the ones whose argument is completed: run and load
    Programs,              \* the names in UserPrograms[]
    Beyond,                \* what may lie behind command_history
    MaxKeys,               \* bound: keys pressed
    MaxLines               \* bound: lines entered

ASSUME LineAssumption ==
    /\ BUFLEN \in Nat /\ BUFLEN > 1
    /\ {HISTORY_MAX, MaxKeys, MaxLines} \subseteq Nat
    /\ NUL # Blank /\ NUL # DelChar /\ Blank # DelChar
    /\ {NUL, Blank, DelChar} \cap Letters = {}
    /\ CommandNames \in Seq(Seq(Letters)) /\ Programs \in Seq(Seq(Letters))
    /\ \A n \in DOMAIN CommandNames : Len(CommandNames[n]) < BUFLEN
    /\ Beyond \subseteq Seq({Blank, DelChar} \cup Letters)
    /\ \A s \in Beyond : Len(s) < BUFLEN  \* the arrays behind it have strings of BUFLEN

VARIABLES
    buf,           \* command_line of run_command_prompt
    i,             \* the cursor
    lastIndex,
    commandidx,    \* the line of the history an arrow key shows
    history,       \* command_history[0 .. last_command_idx], as strings
    prefixes,      \* PrefixList[0 .. prefix_list_size - 1]
    prefixIdx,     \* prefix_list_idx
    lastC,         \* last_c
    cells, pos,    \* the row of the screen and the place of its cursor
    overrun,       \* memory outside buf was touched
    keys,          \* keys pressed so far
    typed,         \* typed in this line, after the text last put there
    edits,         \* where the keys that changed the text found the cursor
    entered        \* the lines entered

editVars == <<buf, i, lastIndex, lastC, typed, edits>>
listVars == <<prefixes, prefixIdx>>
screenVars == <<cells, pos>>
vars == <<editVars, listVars, screenVars, commandidx, history, overrun, keys,
          entered>>

Chars == Letters \cup {NUL, Blank, DelChar}
Index == 0 .. BUFLEN - 1
EmptyBuf == [k \in Index |-> NUL]
Prompt == <<"FOS", ">">>
last_command_idx == Len(history) - 1

-----------------------------------------------------------------------------
(***************************************************************************)
(* Strings in buffers, and the names that complete a word.                 *)
(***************************************************************************)
Largest(S) == CHOOSE n \in S : \A k \in S : k <= n
Least(S) == CHOOSE n \in S : \A k \in S : n <= k

strlen(b) == Least({k \in Index : b[k] = NUL} \cup {BUFLEN})
Text(b) == [k \in 1 .. strlen(b) |-> b[k - 1]]
Written(b, s) == [k \in Index |-> IF k < Len(s) THEN s[k + 1] ELSE b[k]]

\* The words of a string, and the text before the last of them.
WordStarts(s) ==
    {k \in 1 .. Len(s) : s[k] # Blank /\ (k = 1 \/ s[k - 1] = Blank)}
Word(s, k) ==
    SubSeq(s, k, Least({n \in k .. Len(s) : n = Len(s) \/ s[n + 1] = Blank}))
LastStart(s) == Largest(WordStarts(s))
strsplit(s) ==
    [n \in 1 .. Cardinality(WordStarts(s)) |->
       Word(s, CHOOSE k \in WordStarts(s) :
                  Cardinality({h \in WordStarts(s) : h <= k}) = n)]

StrncmpEither(word, name) ==
    \/ Len(word) <= Len(name) /\ SubSeq(name, 1, Len(word)) = word
    \/ Len(name) <= Len(word) /\ SubSeq(word, 1, Len(name)) = name
strncmp(word, name) == Len(word) <= Len(name) /\ SubSeq(name, 1, Len(word)) = word
WithPrefix(word, names) ==
    LET found[n \in 0 .. Len(names)] ==
          IF n = 0 THEN << >>
          ELSE IF strncmp(word, names[n]) THEN Append(found[n - 1], names[n])
          ELSE found[n - 1]
    IN  found[Len(names)]
PrefixAt(n) == IF n < Len(prefixes) THEN prefixes[n + 1] ELSE << >>

-----------------------------------------------------------------------------
(***************************************************************************)
(* The row of the screen.                                                  *)
(***************************************************************************)
\* cga_putc of a printing character writes at the cursor and moves it on.
Shown(row, p, s) ==
    [k \in 1 .. Largest({Len(row), p + Len(s)}) |->
       IF k \in p + 1 .. p + Len(s) THEN s[k - p]
       ELSE IF k <= Len(row) THEN row[k] ELSE Blank]

\* n backspaces erase the cells before the cursor, up to the edge.
Rubbed(row, p, n) == [k \in 1 .. Len(row) |-> IF k > p - n /\ k <= p THEN Blank ELSE row[k]]
Back(p, n) == IF n < p THEN p - n ELSE 0

Redraw(n, s) ==
    /\ cells' = Shown(Rubbed(cells, pos, n), Back(pos, n), s)
    /\ pos' = Back(pos, n) + Len(s)

-----------------------------------------------------------------------------
Init ==
    /\ buf = EmptyBuf /\ i = 0 /\ lastIndex = 0
    /\ commandidx = 0 /\ history = << >>
    /\ prefixes = << >> /\ prefixIdx = 0
    /\ lastC = "unset"
    /\ cells = Prompt /\ pos = Len(Prompt)
    /\ overrun = FALSE /\ keys = 0
    /\ typed = 0 /\ edits = "end"
    /\ entered = << >>

\* getchar, and the cursor that may have passed lastIndex.
LastNotMoved == lastIndex
lastAt == Largest({i, lastIndex})
Key(k) ==
    /\ ~overrun /\ keys < MaxKeys
    /\ keys' = keys + 1
    /\ lastC' = k

\* The worst place so far a change found the cursor in: at the end of the
\* text, inside it, or behind it, where Right may take it, or right before
\* what a Tab that found nothing has left behind the text.
Worse(where) == IF edits = "behind" \/ where = "end" THEN edits ELSE where
LeftOver(k) == k \in Index /\ buf[k] # NUL
Edited ==
    Worse(IF i < strlen(buf) THEN "inside"
          ELSE IF i = strlen(buf) /\ ~LeftOver(i + 1) THEN "end" ELSE "behind")
NoText == UNCHANGED <<buf, i, typed, edits>> /\ lastIndex' = lastAt

-----------------------------------------------------------------------------
(***************************************************************************)
(* Typing, erasing and moving.                                             *)
(***************************************************************************)
\* KEY_DEL at the start of the line is a printing character like any other.
Type(c) ==
    /\ Key("other")
    /\ c = DelChar => i = 0
    /\ i < BUFLEN - 1
    /\ buf' = [buf EXCEPT ![i] = c]
    /\ i' = i + 1 /\ lastIndex' = lastAt + 1
    /\ cells' = Shown(cells, pos, <<c>>) /\ pos' = pos + 1
    /\ typed' = typed + 1
    /\ edits' = Edited
    /\ UNCHANGED <<listVars, commandidx, history, overrun, entered>>

\* A full line: the key is lost.
TypeFull(c) ==
    /\ Key("other")
    /\ c = DelChar => i = 0
    /\ i >= BUFLEN - 1
    /\ NoText
    /\ UNCHANGED <<listVars, screenVars, commandidx, history, overrun, entered>>

Backspace ==
    /\ Key("other")
    /\ IF i > 0
       THEN /\ IF i \in Index
               THEN buf' = [buf EXCEPT ![i - 1] = buf[i]] /\ UNCHANGED overrun
               ELSE overrun' = TRUE /\ UNCHANGED buf
            /\ i' = i - 1 /\ lastIndex' = lastAt
            /\ Redraw(1, << >>)
            /\ edits' = Edited /\ UNCHANGED typed
       ELSE NoText /\ UNCHANGED <<screenVars, overrun>>
    /\ UNCHANGED <<listVars, commandidx, history, entered>>

\* Nothing is redrawn.
Del ==
    /\ Key("other")
    /\ i > 0
    /\ IF i <= lastAt /\ lastAt >= BUFLEN - 1
       THEN overrun' = TRUE /\ UNCHANGED buf
       ELSE /\ buf' = [k \in Index |-> IF k \in i .. lastAt THEN buf[k + 1] ELSE buf[k]]
            /\ UNCHANGED overrun
    /\ lastIndex' = lastAt - 1
    /\ edits' = Edited
    /\ UNCHANGED <<i, typed, listVars, screenVars, commandidx, history, entered>>

RightUnbounded ==
    /\ Key("other")
    /\ i' = i + 1 /\ pos' = pos + 1
    /\ lastIndex' = lastAt
    /\ UNCHANGED <<buf, typed, edits, listVars, cells, commandidx, history,
                   overrun, entered>>

Left ==
    /\ Key("other")
    /\ IF i > 0 THEN i' = i - 1 /\ pos' = Back(pos, 1)
                ELSE UNCHANGED <<i, pos>>
    /\ lastIndex' = lastAt
    /\ UNCHANGED <<buf, typed, edits, listVars, cells, commandidx, history,
                   overrun, entered>>

Right ==
    /\ Key("other")
    /\ IF i < lastAt THEN i' = i + 1 /\ pos' = pos + 1
                     ELSE UNCHANGED <<i, pos>>
    /\ lastIndex' = lastAt
    /\ UNCHANGED <<buf, typed, edits, listVars, cells, commandidx, history,
                   overrun, entered>>

-----------------------------------------------------------------------------
(***************************************************************************)
(* The history.                                                            *)
(***************************************************************************)
\* command_history[n]: empty up to HISTORY_MAX, unknown behind it.
Recallable(n) ==
    IF n < Len(history) THEN {history[n + 1]}
    ELSE IF n <= HISTORY_MAX THEN {<< >>} ELSE Beyond

\* The text of the line becomes s: i characters are rubbed out on the screen.
clearandwritecommand(s) ==
    /\ buf' = Written(EmptyBuf, s)
    /\ i' = Len(s) /\ lastIndex' = Len(s) /\ typed' = Len(s)
    /\ Redraw(i, s)
    /\ edits' = Edited

UpNoStep ==
    /\ Key("other")
    /\ \E s \in Recallable(commandidx) : clearandwritecommand(s)
    /\ UNCHANGED <<commandidx, listVars, history, overrun, entered>>

Up ==
    /\ Key("other")
    /\ commandidx' = IF commandidx > 0 THEN commandidx - 1 ELSE 0
    /\ \E s \in Recallable(commandidx') : clearandwritecommand(s)
    /\ UNCHANGED <<listVars, history, overrun, entered>>

Down ==
    /\ Key("other")
    /\ commandidx' = IF commandidx < last_command_idx THEN commandidx + 1 ELSE commandidx
    /\ IF last_command_idx >= 0
       THEN \E s \in Recallable(commandidx') : clearandwritecommand(s)
       ELSE NoText /\ UNCHANGED screenVars
    /\ UNCHANGED <<listVars, history, overrun, entered>>

-----------------------------------------------------------------------------
(***************************************************************************)
(* Tab.  last_c is not set before the first key: the first Tab of a line   *)
(* may find it to be 9, with any prefix_list_size.                         *)
(***************************************************************************)
RoundRubsNew(old, s) ==
    /\ buf' = Written(EmptyBuf, s)
    /\ i' = Len(s) /\ lastIndex' = Len(s) /\ typed' = Len(s)
    /\ Redraw(Len(s), s)
    /\ edits' = IF Len(old) = strlen(buf) THEN Edited ELSE Worse("inside")

\* Another Tab right after: the next of the names found.
RoundAutoComplete(old, s) ==
    /\ buf' = Written(EmptyBuf, s)
    /\ i' = Len(s) /\ lastIndex' = Len(s) /\ typed' = Len(s)
    /\ Redraw(Len(old), s)
    /\ edits' = IF Len(old) = strlen(buf) THEN Edited ELSE Worse("inside")

TabAgain ==
    /\ lastC \in {"tab", "unset", "tabUnset"}
    /\ Key(IF lastC = "tab" THEN "tab" ELSE "tabUnset")
    /\ \E size \in IF lastC = "tab" THEN {Len(prefixes)} ELSE {0, 1, 2} :
         IF size > 0
         THEN /\ prefixIdx' = (prefixIdx + 1) % size
              /\ RoundAutoComplete(PrefixAt(prefixIdx), PrefixAt(prefixIdx'))
         ELSE NoText /\ UNCHANGED <<prefixIdx, screenVars>>
    /\ UNCHANGED <<prefixes, commandidx, history, overrun, entered>>

\* A first Tab with nothing to complete leaves last_c as it was.
Completable ==
    LET words == strsplit(Text(buf))
    IN  /\ strlen(buf) > 0
        /\ buf[strlen(buf) - 1] # Blank
        /\ Len(words) > 1 => words[1] \in ArgCommands

TabIgnored ==
    /\ lastC \in {"unset", "other"}
    /\ Key(lastC)
    /\ ~Completable
    /\ NoText
    /\ prefixes' = << >>
    /\ UNCHANGED <<prefixIdx, screenVars, commandidx, history, overrun, entered>>

\* strsplit writes over the blanks it skips.  In front of the only word these
\* are the beginning of the string that is compared.
OneWord == Len(strsplit(Text(buf))) = 1
BehindBlanks == OneWord /\ buf[0] = Blank

\* What Tab looks for: a command by its beginning, which is empty behind
\* blanks so that every command fits, or a program behind run.
Completions ==
    LET line == Text(buf)
        before == SubSeq(line, 1, LastStart(line) - 1)
        word == Word(line, LastStart(line))
    IN  IF OneWord THEN WithPrefix(IF BehindBlanks THEN << >> ELSE word, CommandNames)
        ELSE LET names == WithPrefix(word, Programs)
             IN  [n \in DOMAIN names |-> before \o names[n]]

\* With more words than one the last is cut off first.
Cut ==
    IF OneWord THEN buf
    ELSE [buf EXCEPT ![LastStart(Text(buf)) - 1] = NUL]

TabComplete ==
    /\ lastC \in {"unset", "other"}
    /\ Key("tab")
    /\ Completable
    /\ prefixes' = Completions
    /\ IF Completions = << >>
       THEN /\ buf' = Cut
            /\ lastIndex' = lastAt
            /\ edits' = IF buf' = buf THEN edits ELSE Worse("inside")
            /\ UNCHANGED <<i, typed, prefixIdx, screenVars, overrun>>
       ELSE LET found == Completions[1]
            IN  /\ prefixIdx' = 0
                /\ buf' = Written(Cut, found)
                /\ overrun' = \E n \in DOMAIN Completions : Len(Completions[n]) >= BUFLEN
                /\ i' = strlen(buf') /\ lastIndex' = strlen(buf')
                /\ typed' = Largest({strlen(buf')} \cup {Len(Completions[n]) : n \in DOMAIN Completions})
                /\ Redraw(strlen(buf), Text(buf'))
                /\ edits' = Edited
    /\ UNCHANGED <<commandidx, history, entered>>

-----------------------------------------------------------------------------
(***************************************************************************)
(* Enter: the line is ended at lastIndex, stored, and executed.  The first *)
(* line is compared with the bytes before command_history.                 *)
(***************************************************************************)
StoredOverLast(line) ==
    IF last_command_idx = HISTORY_MAX
    THEN {[history EXCEPT ![Len(history)] = line]}
    ELSE IF history = << >> THEN {<< >>, <<line>>}
    ELSE IF history[Len(history)] = line THEN {history}
    ELSE {Append(history, line)}

StoredUnbounded(line) ==
    IF history = << >> THEN {<< >>, <<line>>}
    ELSE IF history[Len(history)] = line THEN {history}
    ELSE {Append(history, line)}

Stored(line) ==
    IF last_command_idx = HISTORY_MAX THEN {Append(Tail(history), line)}
    ELSE IF history = << >> THEN {<< >>, <<line>>}
    ELSE IF history[Len(history)] = line THEN {history}
    ELSE {Append(history, line)}

\* run_command_prompt clears the buffer for the next line.
NextLine(kept) ==
    /\ buf' = EmptyBuf /\ i' = 0 /\ lastIndex' = 0
    /\ commandidx' = Len(kept)
    /\ prefixIdx' = 0 /\ typed' = 0 /\ edits' = "end"
    /\ cells' = Prompt /\ pos' = Len(Prompt)

Enter ==
    /\ ~overrun /\ keys < MaxKeys /\ Len(entered) < MaxLines
    /\ keys' = keys + 1
    /\ lastC' = "unset"
    /\ IF lastAt \in Index
       THEN LET line == Text([buf EXCEPT ![lastAt] = NUL])
            IN  /\ history' \in Stored(line)
                /\ NextLine(history')
                /\ entered' = Append(entered, line)
                /\ UNCHANGED overrun
       ELSE /\ overrun' = TRUE
            /\ UNCHANGED <<buf, i, lastIndex, commandidx, history, prefixIdx, typed,
                           edits, screenVars, entered>>
    /\ UNCHANGED prefixes

Next ==
    \/ \E c \in Letters \cup {Blank, DelChar} : Type(c) \/ TypeFull(c)
    \/ Backspace \/ Del \/ Left \/ Right
    \/ Up \/ Down
    \/ TabAgain \/ TabIgnored \/ TabComplete
    \/ Enter

Spec == Init /\ [][Next]_vars

-----------------------------------------------------------------------------
TypeOK ==
    /\ buf \in [Index -> Chars]
    /\ i \in Nat /\ lastIndex \in Nat /\ pos \in Nat
    /\ commandidx \in 0 .. HISTORY_MAX + 1
    /\ Len(history) <= HISTORY_MAX + 1
    /\ lastC \in {"unset", "other", "tab", "tabUnset"}
    /\ prefixIdx \in Nat
    /\ overrun \in BOOLEAN /\ edits \in {"end", "inside", "behind"}
    /\ keys \in 0 .. MaxKeys /\ typed \in Nat

(***************************************************************************)
(* What the user sees is what Enter executes, as long as no key changed    *)
(* the text with the cursor inside it: Backspace, the arrows and Tab       *)
(* redraw by counting backspaces, each with a count of its own.            *)
(***************************************************************************)
ScreenIsLine ==
    edits = "end" /\ ~overrun =>
      LET line == Prompt \o Text(buf)
      IN  /\ \A k \in DOMAIN line : k <= Len(cells) /\ cells[k] = line[k]
          /\ \A k \in DOMAIN cells : k > Len(line) => cells[k] = Blank
          /\ pos = Len(Prompt) + i

(***************************************************************************)
(* Enter, which ends the line at lastIndex, never cuts text off: Del and   *)
(* Backspace move i and lastIndex independently, and a Del behind the text *)
(* leaves lastIndex short until the next key.  (A key that writes at or    *)
(* behind the end of the text can join it to what an earlier Tab left      *)
(* there, and a completion can end right before it.)                       *)
(***************************************************************************)
EnterKeepsLine == edits # "behind" /\ ~overrun => strlen(buf) <= lastAt

(***************************************************************************)
(* buf is overrun only in a line that took BUFLEN - 1 characters: the      *)
(* editor bounds i but not lastIndex, which every character typed moves on *)
(* even in the middle of the text.                                         *)
(***************************************************************************)
OverrunNeedsFullLine ==
    /\ overrun => typed >= BUFLEN - 1
    /\ lastAt <= typed

(***************************************************************************)
(* The history is the end of what was entered, in that order, with only    *)
(* immediate repetitions left out (the very first comparison apart, which  *)
(* may drop a line).                                                       *)
(***************************************************************************)
HistoryIsRecent ==
    history # << >> =>
      \E kept \in SUBSET (DOMAIN entered) :
        /\ Cardinality(kept) = Len(history)
        /\ \A n \in kept :
             history[Cardinality({m \in kept : m <= n})] = entered[n]
        /\ \A n \in Least(kept) .. Len(entered) :
             n \in kept \/ entered[n] = entered[n - 1]

(***************************************************************************)
(* The first Up of a line shows the line entered last, and every other one *)
(* the line of the history before the one the arrows showed last, down to  *)
(* the oldest, whatever was stored, shifted out and recalled before.       *)
(***************************************************************************)
UpShowsPrevious ==
    Up =>
      IF history = << >> THEN Text(buf') = << >>
      ELSE /\ lastC = "unset" \/ commandidx = Len(history)
                => Text(buf') = entered[Len(entered)]
           /\ Text(buf') = history[Largest({commandidx, 1})]

(***************************************************************************)
(* A Tab only adds to the text, and leaves the first name it finds as the  *)
(* line, though it writes it over the old text without clearing the rest.  *)
(* Not so for one word behind blanks, which the first command is written   *)
(* over, and where something is left behind the text.                      *)
(***************************************************************************)
TabShowsName ==
    TabComplete /\ ~BehindBlanks =>
      /\ \A n \in DOMAIN prefixes' :
           /\ Len(prefixes'[n]) >= strlen(buf)
           /\ SubSeq(prefixes'[n], 1, strlen(buf)) = Text(buf)
      /\ prefixes' # << >> /\ ~overrun' =>
           \/ Text(buf') = prefixes'[1]
           \/ \E k \in Index : k >= strlen(buf) /\ LeftOver(k)

(***************************************************************************)
(* The keys that put a text into the line put the right one there.         *)
(***************************************************************************)
KeysRecall == [][UpShowsPrevious /\ TabShowsName]_vars

(***************************************************************************)
(* The line that Enter executes is the one on the screen, whole and within *)
(* its buffer (command_prompt.c:361-408).                                  *)
(***************************************************************************)
LineIsShown == ScreenIsLine /\ EnterKeepsLine /\ OverrunNeedsFullLine
=============================================================================
