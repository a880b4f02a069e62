------------------------------- MODULE Strings -------------------------------
(***************************************************************************)
(* The routines on strings and on blocks of memory of lib/string.c, which  *)
(* the kernel and the user programs share.  A memory is a function from    *)
(* addresses to characters; a routine that writes returns the new memory.  *)
(***************************************************************************)
EXTENDS Integers, Sequences, SequencesExt

CONSTANTS NULL,
          MAX_ARGUMENTS

NUL == 0

\* The first address from s on whose character is one of chars.
FirstOf(mem, s, chars) == Min({a \in DOMAIN mem : a >= s /\ mem[a] \in chars})

strlen(mem, s) == FirstOf(mem, s, {NUL}) - s

strnlen(mem, s, bound) ==
    Min({a \in DOMAIN mem : a >= s /\ mem[a] = NUL} \cup {s + bound}) - s

\* Characters are copied one by one, a later one after the earlier ones are
\* stored.
CopyEach(mem, dst, src, offsets) ==
    FoldLeft(LAMBDA m, k : [m EXCEPT ![dst + k] = m[src + k]], mem, offsets)
Upwards(n) == [k \in 1 .. n |-> k - 1]
Downwards(n) == [k \in 1 .. n |-> n - k]

memset(mem, v, c, n) ==
    [a \in DOMAIN mem |-> IF a \in v .. v + n - 1 THEN c ELSE mem[a]]

memcpy(mem, dst, src, n) == CopyEach(mem, dst, src, Upwards(n))

\* Mutant: the copy is always made from the first byte on.
MoveUp(mem, dst, src, n) == memcpy(mem, dst, src, n)

memmove(mem, dst, src, n) ==
    IF src < dst /\ src + n > dst
    THEN CopyEach(mem, dst, src, Downwards(n))
    ELSE CopyEach(mem, dst, src, Upwards(n))

strcpy(mem, dst, src) == memcpy(mem, dst, src, strlen(mem, src) + 1)

strncpy(mem, dst, src, bound) ==
    LET n == strnlen(mem, src, bound)
    IN  memset(memcpy(mem, dst, src, n), dst + n, NUL, bound - n)

\* Mutant: all of the size is used for characters of src.
NoRoomForNul(mem, dst, src, bound) ==
    LET n == strnlen(mem, src, bound)
    IN  IF bound = 0 THEN [mem |-> mem, ret |-> 0]
        ELSE [mem |-> [memcpy(mem, dst, src, n) EXCEPT ![dst + n] = NUL], ret |-> n]

strlcpy(mem, dst, src, bound) ==
    LET n == strnlen(mem, src, bound - 1)
    IN  IF bound = 0 THEN [mem |-> mem, ret |-> 0]
        ELSE [mem |-> [memcpy(mem, dst, src, n) EXCEPT ![dst + n] = NUL], ret |-> n]

strcconcat(mem, str1, str2, final) ==
    LET len1 == strlen(mem, str1)
        len2 == strlen(mem, str2)
        joined == memcpy(memcpy(mem, final, str1, len1), final + len1, str2, len2)
    IN  [joined EXCEPT ![final + len1 + len2] = NUL]

-----------------------------------------------------------------------------
\* The offset at which the strings at p and q differ, or at which both end.
StopsAt(mem, p, q) ==
    Min({k \in 0 .. Min({strlen(mem, p), strlen(mem, q)}) :
           mem[p + k] = NUL \/ mem[p + k] # mem[q + k]})

strcmp(mem, p, q) ==
    LET k == StopsAt(mem, p, q) IN mem[p + k] - mem[q + k]

\* Mutant: the character behind the n-th is compared too.
OneTooMany(mem, p, q, n) ==
    LET k == StopsAt(mem, p, q) IN IF k > n THEN 0 ELSE mem[p + k] - mem[q + k]

strncmp(mem, p, q, n) ==
    LET k == StopsAt(mem, p, q) IN IF k >= n THEN 0 ELSE mem[p + k] - mem[q + k]

memcmp(mem, v1, v2, n) ==
    LET differ == {k \in 0 .. n - 1 : mem[v1 + k] # mem[v2 + k]}
    IN  IF differ = {} THEN 0 ELSE mem[v1 + Min(differ)] - mem[v2 + Min(differ)]

strfind(mem, s, c) == FirstOf(mem, s, {c, NUL})

\* The end of a string is never found.
strchr(mem, s, c) ==
    LET a == strfind(mem, s, c) IN IF mem[a] = NUL THEN NULL ELSE a

memfind(mem, s, c, n) ==
    Min({a \in s .. s + n - 1 : mem[a] = c} \cup {s + n})

-----------------------------------------------------------------------------
(***************************************************************************)
(* strsplit: the separators before an argument become ends of strings, and *)
(* argv gets the argument's address.  With MAX_ARGUMENTS - 1 arguments and *)
(* more to come it gives up, and no NULL is stored behind the last one.    *)
(***************************************************************************)
SkipSeparators(mem, string, separators) ==
    Min({a \in DOMAIN mem : a >= string /\ mem[a] \notin separators})

\* Mutant: the last place of argv is used for an argument.
RECURSIVE FillArgv(_, _, _, _)
FillArgv(mem, string, separators, argv) ==
    LET a == SkipSeparators(mem, string, separators)
        trimmed == memset(mem, string, NUL, a - string)
        behind == FirstOf(mem, a, separators \cup {NUL})
    IN  IF mem[a] = NUL THEN [mem |-> trimmed, argv |-> Append(argv, NULL), ret |-> 1]
        ELSE IF Len(argv) = MAX_ARGUMENTS THEN [mem |-> trimmed, argv |-> argv, ret |-> 0]
        ELSE FillArgv(trimmed, behind, separators, Append(argv, a))

RECURSIVE strsplit(_, _, _, _)
strsplit(mem, string, separators, argv) ==
    LET a == SkipSeparators(mem, string, separators)
        trimmed == memset(mem, string, NUL, a - string)
        behind == FirstOf(mem, a, separators \cup {NUL})
    IN  IF mem[a] = NUL THEN [mem |-> trimmed, argv |-> Append(argv, NULL), ret |-> 1]
        ELSE IF Len(argv) = MAX_ARGUMENTS - 1 THEN [mem |-> trimmed, argv |-> argv, ret |-> 0]
        ELSE strsplit(trimmed, behind, separators, Append(argv, a))

-----------------------------------------------------------------------------
(***************************************************************************)
(* What the routines are meant to do, for one memory and all addresses     *)
(* with room for the routine's result.                                     *)
(***************************************************************************)
Str(mem, s) == [k \in 1 .. strlen(mem, s) |-> mem[s + k - 1]]
Block(mem, a, n) == [k \in 1 .. n |-> mem[a + k - 1]]
OnlyWithin(mem, new, a, n) == \A x \in DOMAIN mem \ (a .. a + n - 1) : new[x] = mem[x]
End(mem) == Max(DOMAIN mem) + 1

\* memmove copies as if it read the whole block first, and so does memcpy
\* when the destination is not behind the source and within it.
MovesBlock(mem, dst, src, n) ==
    LET moved(new) == Block(new, dst, n) = Block(mem, src, n) /\ OnlyWithin(mem, new, dst, n)
    IN  /\ moved(memmove(mem, dst, src, n))
        /\ ~(src < dst /\ dst < src + n) => moved(memcpy(mem, dst, src, n))

\* A copied string is the string, or as much of it as there is room for, and
\* nothing else is written; strlcpy always ends it, strncpy when there is room.
CopiesString(mem, dst, src, bound) ==
    LET s == Str(mem, src)
        cut(n) == SubSeq(s, 1, Min({n, Len(s)}))
        L == strlcpy(mem, dst, src, bound)
        N == strncpy(mem, dst, src, bound)
    IN  /\ bound > Len(s) => Str(strcpy(mem, dst, src), dst) = s
        /\ bound > 0 => Str(L.mem, dst) = cut(bound - 1) /\ L.ret = Len(cut(bound - 1))
        /\ OnlyWithin(mem, L.mem, dst, bound)
        /\ IF bound > Len(s) THEN Str(N, dst) = s ELSE Block(N, dst, bound) = cut(bound)
        /\ OnlyWithin(mem, N, dst, bound)

\* The comparisons give 0 for what is equal, the opposite when the sides are
\* swapped, and of what strcmp orders the first n characters are ordered alike.
ComparesInOrder(mem, p, q, n) ==
    LET first(s) == SubSeq(s, 1, Min({n, Len(s)}))
    IN  /\ strcmp(mem, p, q) = 0 <=> Str(mem, p) = Str(mem, q)
        /\ strncmp(mem, p, q, n) = 0 <=> first(Str(mem, p)) = first(Str(mem, q))
        /\ strncmp(mem, p, q, n) = -strncmp(mem, q, p, n)
        /\ strncmp(mem, p, q, n) \in {0, strcmp(mem, p, q)}
        /\ p + n <= End(mem) /\ q + n <= End(mem) =>
             /\ memcmp(mem, p, q, n) = 0 <=> Block(mem, p, n) = Block(mem, q, n)
             /\ memcmp(mem, p, q, n) = -memcmp(mem, q, p, n)
             /\ NUL \notin Range(Block(mem, p, n)) =>
                  memcmp(mem, p, q, n) = strncmp(mem, p, q, n)

\* Searching for a character: the two that stop at an end find the same
\* place, and memfind finds it when the end is behind it.
FindsCharacter(mem, s, c) ==
    LET a == strchr(mem, s, c)
    IN  IF c # NUL /\ c \in Range(Str(mem, s))
        THEN a = strfind(mem, s, c) /\ a = memfind(mem, s, c, End(mem) - s) /\ mem[a] = c
        ELSE a = NULL /\ mem[strfind(mem, s, c)] = NUL

\* The words of the string at s: what is between separators.
WordAt(mem, s, separators, a) ==
    /\ a \in s .. s + strlen(mem, s) - 1
    /\ mem[a] \notin separators /\ (a = s \/ mem[a - 1] \in separators)
WordFrom(mem, a, separators) ==
    Block(mem, a, FirstOf(mem, a, separators \cup {NUL}) - a)

\* strsplit finds the words in their order, as strings of their own, and
\* refuses exactly the lines with MAX_ARGUMENTS words or more.
SplitsWords(mem, s, separators) ==
    LET words == SetToSortSeq({a \in DOMAIN mem : WordAt(mem, s, separators, a)}, <)
        S == strsplit(mem, s, separators, << >>)
        found == IF S.ret = 1 THEN Front(S.argv) ELSE S.argv
    IN  /\ S.ret = 1 <=> Len(words) < MAX_ARGUMENTS
        /\ found = SubSeq(words, 1, Min({Len(words), MAX_ARGUMENTS - 1}))
        /\ S.ret = 1 => Last(S.argv) = NULL
        /\ \A k \in DOMAIN found :
             Str(S.mem, found[k]) = WordFrom(mem, found[k], separators)
        /\ OnlyWithin(mem, S.mem, s, strlen(mem, s))
=============================================================================
