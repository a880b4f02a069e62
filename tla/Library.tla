------------------------------- MODULE Library -------------------------------
(***************************************************************************)
(* The code that the kernel and the programs are built from: the linked    *)
(* lists, whose operations follow each other, and the routines on strings, *)
(* formats and images, each of which is called once with arguments that    *)
(* are chosen step by step.                                                *)
(***************************************************************************)
EXTENDS Lists, SequencesExt

CONSTANTS
    Chars, MemSize,              \* the memories of the string routines
    MAX_ARGUMENTS,
    WordBits, PrintBuf, BUFLEN,
    Widths,                      \* of numbers
    FlagChars, Conversions, MaxFlags,
    MaxWidth,                    \* bound on the numbers in a format
    Rooms,                       \* the sizes of the buffers of snprintf
    Keys, MaxKeys,
    PAGE_SIZE, TableSize, AddressSpace, SECTSIZE,
    SegmentStarts, SegmentSizes

VARIABLES kind,                  \* what is used
          call                   \* the arguments chosen

callVars == <<kind, call>>

S == INSTANCE Strings
F == INSTANCE Formats WITH
       MAXERROR <- 2, error_string <- <<(<<"unspecified error">>), (<<"bad environment">>)>>
I == INSTANCE Images WITH StabPage <- 0, MaxStabPages <- 2, TWS_MAX <- 3

-----------------------------------------------------------------------------
Nothing == [done |-> FALSE]
Arguments(new) == call' = new @@ [done |-> TRUE] /\ UNCHANGED <<kind, vars>>
Using(k) == kind = k /\ call = Nothing

\* Strings: memories whose last character ends a string, two addresses, a
\* size and a character.
Memories == {m \in [1 .. MemSize -> Chars] : m[MemSize] = 0}
ChooseMemory ==
    /\ Using("strings")
    /\ \E m \in Memories : call' = [done |-> FALSE, mem |-> m]
    /\ UNCHANGED <<kind, vars>>
CallString ==
    /\ kind = "strings" /\ ~call.done /\ call # Nothing
    /\ \E p, q \in 1 .. MemSize, n \in 0 .. MemSize :
         Arguments([mem |-> call.mem, p |-> p, q |-> q, n |-> n])

\* Numbers in fields; with the flag '-' they are padded with '-'.
CallNumber ==
    /\ Using("numbers")
    /\ \E n \in 0 .. 2 ^ WordBits - 1, w \in Widths, padc \in {" ", "0"} :
         Arguments([n |-> n, width |-> w, padc |-> padc])

\* Formats: an escape between two letters, with arguments for all it takes.
ArgList ==
    [k \in 1 .. MaxFlags + 2 |->
       [n |-> k + 1, c |-> "z", s |-> <<"s", "tab", "t">>]]
CallFormat ==
    /\ Using("formats")
    /\ \E flags \in BoundedSeq(FlagChars, MaxFlags), ch \in Conversions, room \in Rooms :
         /\ \A k \in DOMAIN flags : F!Number(flags, k, 0).value <= MaxWidth
         /\ Arguments([flags |-> flags, ch |-> ch, room |-> room])

\* Lines that are typed.
CallReadline ==
    /\ Using("lines")
    /\ \E keys \in BoundedSeq(Keys, MaxKeys) : Arguments([keys |-> keys])

\* Programs with up to three headers, in increasing order of addresses and
\* with no page in two segments, one of them with debug information.
Segments ==
    {I!Segment(va, f, m) : va \in SegmentStarts, f \in SegmentSizes, m \in SegmentSizes}
Load(seg) == [p_type |-> "LOAD", seg |-> seg]
Note == [p_type |-> "NOTE"]
Apart(x, y) ==
    I!ROUNDUP(x.virtual_address + x.size_in_memory, PAGE_SIZE) <= y.virtual_address
CallLoader ==
    /\ Using("images")
    /\ \E x, y \in {s \in Segments : s.size_in_file <= s.size_in_memory /\ s.size_in_memory > 0},
          prog \in {"tpp", "fos_add"}, ws \in {2, 3, 5}, second \in 0 .. 1, space \in {3, 20} :
         /\ Apart(x, y)
         /\ \E headers \in {<<Load(x)>>, <<Load(x), Load(y)>>, <<Note, Load(x), Note, Load(y)>>} :
              Arguments([env |-> I!NewEnv(prog, ws, second, space), headers |-> headers])

\* A kernel with two segments, whose addresses differ from their offsets by
\* whole sectors, and by the same when they share a sector.
Program(va, n, offset) == [p_va |-> va, p_memsz |-> n, p_offset |-> offset]
CallBoot ==
    /\ Using("boot")
    /\ \E va1, va2, off1, off2 \in 0 .. 7, n1, n2 \in 1 .. 4 :
         /\ va1 + n1 <= va2
         /\ va1 % SECTSIZE = off1 % SECTSIZE /\ va2 % SECTSIZE = off2 % SECTSIZE
         /\ \/ va2 - va1 = off2 - off1
            \/ I!ROUNDUP(va1 + n1, SECTSIZE) <= va2
         /\ Arguments([headers |-> <<Program(va1, n1, off1), Program(va2, n2, off2)>>])

-----------------------------------------------------------------------------
Kinds == {"strings", "numbers", "formats", "lines", "images", "boot"}
LibraryInit == Init /\ kind \in Kinds \cup {"lists"} /\ call = Nothing

UseList == kind = "lists" /\ Next /\ UNCHANGED callVars

LibraryNext ==
    \/ UseList
    \/ ChooseMemory \/ CallString \/ CallNumber \/ CallFormat \/ CallReadline
    \/ CallLoader \/ CallBoot

LibrarySpec == LibraryInit /\ [][LibraryNext]_<<vars, callVars>>

-----------------------------------------------------------------------------
Called(k) == kind = k /\ call.done
End == MemSize + 1

(***************************************************************************)
(* string.c: memory is moved as a whole, memcpy too unless the destination *)
(* is behind the source and overlaps it.                                   *)
(***************************************************************************)
MemoryMoves ==
    Called("strings") /\ call.p + call.n <= End /\ call.q + call.n <= End =>
      S!MovesBlock(call.mem, call.p, call.q, call.n)

(***************************************************************************)
(* string.c: strings that do not overlap are copied whole, or as far as    *)
(* there is room, and nothing else is written.                             *)
(***************************************************************************)
StringsCopied ==
    Called("strings") /\ call.p + call.n < End
      /\ call.q + S!strlen(call.mem, call.q) < call.p =>
        S!CopiesString(call.mem, call.p, call.q, call.n)

(***************************************************************************)
(* string.c: comparing, cut to a length or not, agrees with the strings,   *)
(* and so does searching.                                                  *)
(***************************************************************************)
StringsCompared ==
    Called("strings") =>
      /\ S!ComparesInOrder(call.mem, call.p, call.q, call.n)
      /\ S!FindsCharacter(call.mem, call.p, call.mem[call.q])

(***************************************************************************)
(* strsplit finds the words between the separators and no more than fit    *)
(* into argv; what it cuts are the command lines of the prompt.            *)
(***************************************************************************)
LinesSplit ==
    Called("strings") => S!SplitsWords(call.mem, call.p, {Max(Chars)})

(***************************************************************************)
(* A number that is printed is read back by strtol as the same word.       *)
(***************************************************************************)
NumbersReadBack == Called("numbers") => F!ReadsBack(call.n, call.width, call.padc)

(***************************************************************************)
(* printfmt: an escape that no conversion ends is printed as it is.        *)
(***************************************************************************)
UnknownsPrinted == Called("formats") => F!PrintsItself(call.flags, call.ch, ArgList)

(***************************************************************************)
(* snprintf never writes behind its buffer, and ends it; a user's cprintf  *)
(* passes all of its text to the console, in pieces that fit.              *)
(***************************************************************************)
TheFormat == <<"a", "%">> \o call.flags \o <<call.ch, "b">>
BuffersHold == Called("formats") => F!FitsBuffer(call.room, TheFormat, ArgList)
PiecesArePrinted == Called("formats") => F!PrintsAll(TheFormat, ArgList)

(***************************************************************************)
(* readline returns what the user sees, and no more than fits.             *)
(***************************************************************************)
LinesEchoed == Called("lines") => F!EchoesLine(call.keys)

(***************************************************************************)
(* The page file has the image of a program that has been loaded, and the  *)
(* pages in memory, whose modified bits are cleared, are equal to it.      *)
(***************************************************************************)
ImagesStored == Called("images") => I!StoresImage(call.env, call.headers)
ImagesLoaded == Called("images") => I!LoadsWhatItStores(call.env, call.headers)

(***************************************************************************)
(* Loading leaves room for the stack in the working set and in the active  *)
(* list.                                                                   *)
(***************************************************************************)
StackHasRoom == Called("images") => I!LeavesRoom(call.env, call.headers)

(***************************************************************************)
(* The kernel is in place after boot, sectors read twice or not.           *)
(***************************************************************************)
KernelInPlace == Called("boot") => I!InPlace(call.headers)

\* string.c moves, copies, compares and splits what it is meant to, whatever
\* the memory holds and wherever the blocks lie.
StringsRight == MemoryMoves /\ StringsCopied /\ StringsCompared /\ LinesSplit

\* printfmt.c, printf.c and readline.c print and read whole texts within their
\* buffers, and numbers come back as they were.
TextsRight ==
    NumbersReadBack /\ UnknownsPrinted /\ BuffersHold /\ PiecesArePrinted /\ LinesEchoed

\* The images of programs and of the kernel are in memory and in the page file as
\* they are in the program, with room left for the stack.
ImagesRight == ImagesStored /\ ImagesLoaded /\ StackHasRoom /\ KernelInPlace
=============================================================================
