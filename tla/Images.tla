------------------------------- MODULE Images --------------------------------
(***************************************************************************)
(* How programs get from their images into memory: the segments that       *)
(* env_create loads into the pages of an environment and into the page     *)
(* file, and the segments of the kernel that the boot loader reads.        *)
(*                                                                         *)
(* A byte of an image is the address that it is meant for, or a mark: what *)
(* was there before, what is not of the segment, a zero.                   *)
(***************************************************************************)
EXTENDS Integers, Sequences, SequencesExt

CONSTANTS PAGE_SIZE, TableSize,   \* bytes of a page and of a table's pages
          AddressSpace,           \* bytes of all addresses: where an unsigned int wraps
          StabPage,               \* 0x200000, where the segment with debug information is
          MaxStabPages,           \* 6
          TWS_MAX,                \* tables in a table working set
          SECTSIZE

Zero == -1
Foreign == -2
Garbage == -3

ROUNDDOWN(a, n) == a - (a % n)
ROUNDUP(a, n) == ROUNDDOWN((a + n - 1) % AddressSpace, n)

\* A segment: ptr_start points to bytes for virtual_address and what follows;
\* behind size_in_file comes something else.
Segment(va, filesz, memsz) ==
    [virtual_address |-> va, size_in_file |-> filesz, size_in_memory |-> memsz]
Src(seg, k) == IF k \in 0 .. seg.size_in_file - 1 THEN seg.virtual_address + k ELSE Foreign
Addresses(seg) == seg.virtual_address .. seg.virtual_address + seg.size_in_memory - 1

-----------------------------------------------------------------------------
(***************************************************************************)
(* PROGRAM_SEGMENT_FIRST and PROGRAM_SEGMENT_NEXT: the headers with type   *)
(* ELF_PROG_LOAD, one after the other.                                     *)
(***************************************************************************)
NoSegment == 0
LoadFrom(headers, k) ==
    Min({i \in k .. Len(headers) : headers[i].p_type = "LOAD"} \cup {Len(headers) + 1})
Header(headers, k) == IF k > Len(headers) THEN NoSegment ELSE k

PROGRAM_SEGMENT_FIRST(headers) == Header(headers, LoadFrom(headers, 1))

PROGRAM_SEGMENT_NEXT(headers, k) == Header(headers, LoadFrom(headers, k + 1))

RECURSIVE SegmentsFrom(_, _)
SegmentsFrom(headers, k) ==
    IF k = NoSegment THEN << >>
    ELSE <<headers[k].seg>> \o SegmentsFrom(headers, PROGRAM_SEGMENT_NEXT(headers, k))

-----------------------------------------------------------------------------
(***************************************************************************)
(* program_segment_alloc_map_copy_workingset.                              *)
(***************************************************************************)
\* Mutant: the active list is filled.
FillsActive(e, page) ==
    IF Len(e.ActiveList) < e.ActiveListSize
    THEN [e EXCEPT !.ActiveList = <<page>> \o @]
    ELSE [e EXCEPT !.SecondList = <<page>> \o @]

\* An entry of the working set: to the head of the active list, or of the
\* second one when only the place for the stack is left.
ListPage(e, page) ==
    IF Len(e.ActiveList) < e.ActiveListSize - 1
    THEN [e EXCEPT !.ActiveList = <<page>> \o @]
    ELSE [e EXCEPT !.SecondList = <<page>> \o @]

\* A page whose table was not the last one: the table gets an entry, and the
\* kernel panics when that was the last there is.
EnterTable(e, page) ==
    LET table == ROUNDDOWN(page, TableSize)
    IN  IF table = e.lastTable THEN e
        ELSE [e EXCEPT !.lastTable = table, !.tables = Append(@, table),
                       !.panic = @ \/ Len(e.tables) + 1 = TWS_MAX]

AddPage(e, page) ==
    IF e.panic THEN e
    ELSE EnterTable(ListPage([e EXCEPT !.ws = Append(@, page)], page), page)

\* The pages that get a frame: at most as many as the working set has left,
\* and at most 6 for the debug information of all programs but tpp.
PagesOf(seg, limit) ==
    LET first == ROUNDDOWN(seg.virtual_address, PAGE_SIZE)
        end == ROUNDUP(seg.virtual_address + seg.size_in_memory, PAGE_SIZE)
        n == Min({limit, (end - first) \div PAGE_SIZE})
    IN  [k \in 1 .. n |-> first + (k - 1) * PAGE_SIZE]

\* Mutant: a page that the file does not fill keeps what was in its frame.
NothingZeroed(seg, a) ==
    IF a < seg.virtual_address + seg.size_in_file
    THEN Src(seg, a - seg.virtual_address) ELSE Garbage

\* What the byte at address a of a page is loaded with; what is before the
\* segment in its first page is left as it was.
LoadedByte(seg, a) ==
    IF a < seg.virtual_address THEN Garbage
    ELSE IF a < seg.virtual_address + seg.size_in_file
    THEN Src(seg, a - seg.virtual_address) ELSE Zero

PageAt(page) == page .. page + PAGE_SIZE - 1

LoadSegment(e, seg) ==
    LET limit == IF ROUNDDOWN(seg.virtual_address, PAGE_SIZE) = StabPage /\ e.prog_name # "tpp"
                 THEN Min({e.remaining, MaxStabPages}) ELSE e.remaining
        pages == PagesOf(seg, limit)
        frames == [p \in Range(pages) |-> [a \in PageAt(p) |-> LoadedByte(seg, a)]]
        entered == FoldLeft(AddPage, e, pages)
    IN  [entered EXCEPT !.memory = frames @@ @, !.remaining = @ - Len(pages)]

-----------------------------------------------------------------------------
(***************************************************************************)
(* The page file's copy of a segment: its first page, the pages that the   *)
(* file fills, its last page, and zeros for the rest.                      *)
(***************************************************************************)
pf_add_env_page(e, page, bytes) ==
    IF page \in DOMAIN e.disk THEN [e EXCEPT !.disk[page] = bytes]
    ELSE IF Cardinality(DOMAIN e.disk) = e.diskSpace THEN [e EXCEPT !.panic = TRUE]
    ELSE [e EXCEPT !.disk = (page :> bytes) @@ @]

FirstPage(e, seg) ==
    LET va == seg.virtual_address
        first == ROUNDDOWN(va, PAGE_SIZE)
    IN  pf_add_env_page(e, first, [a \in PageAt(first) |->
          IF a >= va /\ a < ROUNDUP(va, PAGE_SIZE) THEN Src(seg, a - va) ELSE Zero])

FilledPages(seg) ==
    LET from == ROUNDUP(seg.virtual_address, PAGE_SIZE)
        to == ROUNDDOWN(seg.virtual_address + seg.size_in_file, PAGE_SIZE)
    IN  [k \in 1 .. (IF from < to THEN (to - from) \div PAGE_SIZE ELSE 0) |->
           from + (k - 1) * PAGE_SIZE]

\* Mutant: the last page gets the bytes of the page before it.
LastPageAgain(e, seg) ==
    LET end == seg.virtual_address + seg.size_in_file
        last == ROUNDDOWN(end, PAGE_SIZE)
    IN  pf_add_env_page(e, last, [a \in PageAt(last) |->
          IF a < end THEN Src(seg, a - PAGE_SIZE - seg.virtual_address) ELSE Zero])

\* The source is behind what the first and the filled pages have taken.
LastPage(e, seg) ==
    LET end == seg.virtual_address + seg.size_in_file
        last == ROUNDDOWN(end, PAGE_SIZE)
        taken == ROUNDUP(seg.virtual_address, PAGE_SIZE) - seg.virtual_address
                   + Len(FilledPages(seg)) * PAGE_SIZE
    IN  pf_add_env_page(e, last, [a \in PageAt(last) |->
          IF a < end THEN Src(seg, taken + a - last) ELSE Zero])

\* The length of the rest wraps when the segment ends in its last page, and
\* rounding it up wraps back to 0.
RestPages(seg) ==
    LET from == ROUNDUP(seg.virtual_address + seg.size_in_file, PAGE_SIZE)
        remainingLength ==
          (seg.virtual_address + seg.size_in_memory - from) % AddressSpace
    IN  [k \in 1 .. ROUNDUP(remainingLength, PAGE_SIZE) \div PAGE_SIZE |->
           from + (k - 1) * PAGE_SIZE]

StoreSegment(e, seg) ==
    LET filled == FoldLeft(LAMBDA x, p : pf_add_env_page(x, p,
                      [a \in PageAt(p) |-> Src(seg, a - seg.virtual_address)]),
                    FirstPage(e, seg), FilledPages(seg))
    IN  FoldLeft(LAMBDA x, p : pf_add_env_page(x, p, [a \in PageAt(p) |-> Zero]),
                 LastPage(filled, seg), RestPages(seg))

\* The kernel goes on with the next segment unless it has panicked.
NextSegment(e, seg) ==
    IF e.panic THEN e ELSE
      LET loaded == LoadSegment(e, seg)
      IN  IF loaded.panic THEN loaded ELSE StoreSegment(loaded, seg)

\* env_create, for a working set of a size and a second list; one entry of
\* the working set is kept for the stack.
NewEnv(prog_name, wsSize, secondSize, diskSpace) ==
    [prog_name |-> prog_name, remaining |-> wsSize - 1, ActiveListSize |-> wsSize - secondSize,
     ws |-> << >>, ActiveList |-> << >>, SecondList |-> << >>,
     lastTable |-> -1, tables |-> << >>, memory |-> << >>, disk |-> << >>,
     diskSpace |-> diskSpace, panic |-> FALSE]

LoadProgram(e, headers) ==
    FoldLeft(NextSegment, e, SegmentsFrom(headers, PROGRAM_SEGMENT_FIRST(headers)))

-----------------------------------------------------------------------------
(***************************************************************************)
(* The boot loader: whole sectors are read to where va's sector begins.    *)
(***************************************************************************)
\* Mutant: one sector for every SECTSIZE bytes from va on.
ReadCount(mem, va, count, offset) ==
    LET from == ROUNDDOWN(va, SECTSIZE)
        read == from .. from + ROUNDUP(count, SECTSIZE) - 1
    IN  [a \in read |-> ROUNDDOWN(offset, SECTSIZE) + a - from] @@ mem

readseg(mem, va, count, offset) ==
    LET from == ROUNDDOWN(va, SECTSIZE)
        read == from .. ROUNDUP(va + count, SECTSIZE) - 1
    IN  [a \in read |-> ROUNDDOWN(offset, SECTSIZE) + a - from] @@ mem

\* A byte of the kernel's image is its offset.
cmain(headers) ==
    FoldLeft(LAMBDA mem, ph : readseg(mem, ph.p_va, ph.p_memsz, ph.p_offset),
             << >>, headers)

-----------------------------------------------------------------------------
(***************************************************************************)
(* What they are meant to do.                                              *)
(***************************************************************************)
Loads(headers) == {headers[k].seg : k \in {i \in DOMAIN headers : headers[i].p_type = "LOAD"}}

ImageByte(seg, a) == IF a < seg.virtual_address + seg.size_in_file THEN a ELSE Zero
ByteOf(pages, a) == pages[ROUNDDOWN(a, PAGE_SIZE)][a]

\* The file's part ends in the page it begins in the middle of.
Short(seg) ==
    /\ seg.virtual_address % PAGE_SIZE # 0
    /\ seg.virtual_address + seg.size_in_file < ROUNDUP(seg.virtual_address, PAGE_SIZE)

\* The page file holds the whole image of a program, except of a segment that
\* is short, whose first page is overwritten.
StoresImage(e, headers) ==
    LET done == LoadProgram(e, headers)
    IN  ~done.panic =>
          \A seg \in Loads(headers), a \in 0 .. AddressSpace - 1 :
            a \in Addresses(seg) /\ ~Short(seg) =>
              /\ ROUNDDOWN(a, PAGE_SIZE) \in DOMAIN done.disk
              /\ ByteOf(done.disk, a) = ImageByte(seg, a)

\* The modified bits are cleared when a program has been loaded, so a page in
\* memory must hold of each segment what the page file does.
LoadsWhatItStores(e, headers) ==
    LET done == LoadProgram(e, headers)
    IN  ~done.panic =>
          \A seg \in Loads(headers) : ~Short(seg) =>
            \A a \in Addresses(seg) :
              ROUNDDOWN(a, PAGE_SIZE) \in DOMAIN done.memory =>
                ByteOf(done.memory, a) = ByteOf(done.disk, a)

\* A program that has been loaded leaves an entry of its working set for the
\* stack, one of the active list too, and every page with a frame has one.
LeavesRoom(e, headers) ==
    LET done == LoadProgram(e, headers)
    IN  /\ Len(done.ws) <= e.remaining
        /\ Len(done.ActiveList) < e.ActiveListSize
        /\ Len(done.ActiveList) + Len(done.SecondList) = Len(done.ws)
        /\ IsInjective(done.ws)
        /\ ~done.panic => DOMAIN done.memory = Range(done.ws)

\* "We'd write more to memory than asked, but it doesn't matter -- we load in
\* increasing order": the kernel's segments are in place when the boot loader
\* has read them all.
InPlace(headers) ==
    \A k \in DOMAIN headers :
      LET ph == headers[k]
          mem == cmain(headers)
      IN  \A i \in 0 .. ph.p_memsz - 1 :
            ph.p_va + i \in DOMAIN mem /\ mem[ph.p_va + i] = ph.p_offset + i
=============================================================================
