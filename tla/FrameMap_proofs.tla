-------------------------- MODULE FrameMap_proofs --------------------------
(***************************************************************************)
(* Theorems about FrameMap.  A handler works on one environment and on     *)
(* the memory.  O is the set of frames that are none of its business: the  *)
(* kernel's and those of the other environments.  Every operation keeps    *)
(* the frames of the environment apart from each other, from O and from    *)
(* the free list (Good), and leaves the frames of O as they were (Spares). *)
(* A frame on its way from the free list to a table, or back, is a member  *)
(* of O for that time: it is nobody's.  The system is in order (System)    *)
(* when every environment is, with the frames of all the others as its O;  *)
(* SystemKept takes a handler's facts about one environment to the rest.   *)
(*                                                                         *)
(* A loop of the code is a fold.  ListLemmas, instantiated with the loop's *)
(* body, gives what holds after every turn of it.                          *)
(***************************************************************************)
EXTENDS FrameMap, ListLemmas, FiniteSetTheorems

VPages == 0 .. 2 * W - 1
Words == [pa : Nat, p : BOOLEAN]
Rows == [0 .. W - 1 -> Words]
Memories == [word : [Frames -> Rows], refs : [Frames -> Int], free : Seq(Frames), panic : BOOLEAN]
States == {"free", "alive", "exit", "stuck"}
Environments == [status : States, dir : Frames, active : Seq(VPages), second : Seq(VPages),
                 pf : SUBSET VPages, disk : [0 .. DiskDir -> Frames]]

\* What a handler works on.
Typed(s) == s \in [m : Memories, e : Environments]

\* The entry of a directory of user space, and of a page.
TableEntry(s, i) == IF s.e.dir = 0 THEN Zero ELSE s.m.word[s.e.dir][i]
Entry(s, v) == IF TableEntry(s, PDX(v)) = Zero THEN Zero
               ELSE s.m.word[TableEntry(s, PDX(v)).pa][PTX(v)]

\* What an environment has frames for, and which: 0 for none.
Kinds == {"dir", "table", "page", "disk"}
Index == 0 .. 2 * W + DiskDir
At(s, k, i) ==
    IF k = "dir" /\ i = 0 THEN s.e.dir
    ELSE IF k = "table" /\ i \in UserDirs THEN TableEntry(s, i).pa
    ELSE IF k = "page" /\ i \in VPages THEN Entry(s, i).pa
    ELSE IF k = "disk" /\ i \in 0 .. DiskDir THEN s.e.disk[i]
    ELSE 0

\* A table entry or a page entry names a frame or is zero.
Names(x) == x = Zero \/ (x \in Words /\ x.pa \in Frames \ {0})
EntriesName(s) ==
    /\ \A i \in UserDirs : Names(TableEntry(s, i))
    /\ \A v \in VPages : Names(Entry(s, v))

FreeApart(s, O) ==
    /\ Distinct(s.m.free)
    /\ \A f \in ToSet(s.m.free) : f \notin O /\ f # 0 /\ s.m.refs[f] = 0

OwnApart(s, O) ==
    /\ \A k \in Kinds, i \in Index : At(s, k, i) # 0 =>
         At(s, k, i) \notin O \cup ToSet(s.m.free) /\ s.m.refs[At(s, k, i)] = 1
    /\ \A k, l \in Kinds, i, j \in Index :
         At(s, k, i) # 0 /\ At(s, k, i) = At(s, l, j) => k = l /\ i = j

Good(s, O) ==
    Typed(s) /\ EntriesName(s) /\ FreeApart(s, O) /\ OwnApart(s, O)

\* The frames of O keep their contents and their counts.
Spares(mem, old, O) ==
    \A f \in O : mem.word[f] = old.word[f] /\ mem.refs[f] = old.refs[f]

\* The kernel's half of the directory is that of half, but for the windows.
HalfIs(s, half) ==
    s.e.dir # 0 =>
      \A i \in PDX(UENVS) .. W - 1 :
        s.m.word[s.e.dir][i] = IF i \in {PDX(VPT), PDX(UVPT)} THEN Present(s.e.dir) ELSE half[i]

\* A page that is mapped and not PRESENT is in the second list.
Hidden(s) ==
    \A v \in VPages : Entry(s, v) # Zero /\ ~Entry(s, v).p => v \in ToSet(s.e.second)

\* The lists name pages that are mapped, each once; those of the active list
\* are PRESENT.
Lists(s) ==
    /\ Distinct(s.e.active) /\ Distinct(s.e.second)
    /\ ToSet(s.e.active) \cap ToSet(s.e.second) = {}
    /\ \A v \in ToSet(s.e.active) : Entry(s, v).p
    /\ \A v \in ToSet(s.e.second) : Entry(s, v) # Zero

\* The lists of an environment that can run.
ListsFit(s) ==
    /\ Lists(s) /\ Len(s.e.active) <= ActiveListSize
    /\ s.e.second # << >> => Len(s.e.active) = ActiveListSize

-----------------------------------------------------------------------------
\* The running system: every environment with the frames of the others and
\* the reserved ones, R, apart from its own.
Pair(mem, envs, e) == [m |-> mem, e |-> envs[e]]
UsedBy(mem, envs, e) == {At(Pair(mem, envs, e), k, i) : k \in Kinds, i \in Index} \ {0}
Others(mem, envs, R, e) == R \cup UNION {UsedBy(mem, envs, x) : x \in Envs \ {e}}

\* half is the kernel's directory.
EnvFits(s, half) ==
    /\ HalfIs(s, half)
    /\ s.e.status # "stuck" => Hidden(s)
    /\ s.e.status = "alive" => ListsFit(s)
    /\ s.e.status = "free" <=> s.e.dir = 0
    /\ s.e.status = "free" => s.e = NoEnv

System(mem, envs, R, k) ==
    /\ k \in R /\ R \subseteq Frames /\ mem \in Memories
    /\ Distinct(mem.free) /\ \A f \in ToSet(mem.free) : f \notin R /\ f # 0 /\ mem.refs[f] = 0
    /\ DOMAIN envs = Envs
    /\ \A e \in Envs : /\ Good(Pair(mem, envs, e), Others(mem, envs, R, e))
                       /\ EnvFits(Pair(mem, envs, e), mem.word[k])

RunInv ==
    /\ System(m, env, Reserved \cap Frames, kdir)
    /\ cr3 \in Envs \cup {"kernel"}
    /\ cr3 \in Envs => env[cr3].status = "alive"
    /\ \A x \in tlb : x[1] \in UserPages
    /\ TLBCoherent

-----------------------------------------------------------------------------
(* The layout. *)

\* The layout in numbers.
LEMMA Layout ==
    /\ W \in Nat /\ W > 6 /\ NFrames \in Nat /\ NFrames > 0 /\ 0 \in Frames /\ Frames \subseteq Nat
    /\ UserPages \subseteq VPages /\ DiskDir = 2
    /\ PDX(UENVS) = 2 /\ PDX(UVPT) = 3 /\ PDX(VPT) = 5
    /\ UserDirs = {0, 1} /\ UserDirs \subseteq 0 .. W - 1
  <1>1. W \in Nat /\ W > 0 /\ NFrames \in Nat /\ NFrames > 0
    BY LayoutFits
  <1>2. W > 6
    <2>1. SUFFICES ASSUME W <= 6 PROVE FALSE
      BY <1>1
    <2>2. KernelPages = {}
      <3>1. W \in {1, 2, 3, 4, 5, 6}
        BY <1>1, <2>1
      <3>2. QED BY <3>1 DEF KernelPages, KERNEL_BASE
    <2>3. Cardinality(KernelPages) = 0
      BY <2>2, FS_EmptySet
    <2>4. QED BY <2>3, <1>1, LayoutFits
  <1>3. 0 \in Frames /\ Frames \subseteq Nat
    BY <1>1 DEF Frames
  <1>4. UserPages \subseteq VPages
    BY LayoutFits DEF VPages
  <1>5. \A k \in 0 .. 6 : (k * W) \div W = k
    BY <1>1
  <1>6. PDX(UENVS) = 2 /\ PDX(UVPT) = 3 /\ PDX(VPT) = 5
    BY <1>1, <1>5 DEF PDX, UENVS, UVPT, VPT
  <1>7. UserDirs = {0, 1} /\ UserDirs \subseteq 0 .. W - 1
    BY <1>1, <1>2 DEF UserDirs
  <1>8. QED BY <1>1, <1>2, <1>3, <1>4, <1>6, <1>7 DEF DiskDir

\* A page is one entry of one table of user space.
LEMMA PagePlace ==
    ASSUME NEW v \in VPages
    PROVE  /\ PDX(v) \in UserDirs /\ PTX(v) \in 0 .. W - 1 /\ PDX(v) \in 0 .. W - 1
           /\ v = PDX(v) * W + PTX(v) /\ v \in Index /\ v \in Nat
           /\ \A u \in VPages : PDX(u) = PDX(v) /\ PTX(u) = PTX(v) => u = v
  <1>1. \A u \in VPages : /\ u \in Nat
                          /\ u < W => PDX(u) = 0 /\ PTX(u) = u
                          /\ ~(u < W) => PDX(u) = 1 /\ PTX(u) = u - W
    <2> TAKE u \in VPages
    <2>1. u \in Nat /\ u < 2 * W /\ W \in Nat /\ W > 0
      BY Layout DEF VPages
    <2>2. CASE u < W
      BY <2>1, <2>2 DEF PDX, PTX
    <2>3. CASE ~(u < W)
      <3>1. u \div W = 1
        BY <2>1, <2>3
      <3>2. u % W = u - W
        BY <2>1, <2>3, <3>1
      <3>3. QED BY <2>1, <2>3, <3>1, <3>2 DEF PDX, PTX
    <2>4. QED BY <2>2, <2>3
  <1>2. W \in Nat /\ W > 6 /\ v \in Nat /\ v < 2 * W
    BY Layout DEF VPages
  <1>3. v \in Index
    BY <1>2 DEF Index, DiskDir
  <1>4. \A u \in VPages : PDX(u) = PDX(v) /\ PTX(u) = PTX(v) => u = v
    BY <1>1, <1>2
  <1>5. CASE v < W
    <2>1. PDX(v) = 0 /\ PTX(v) = v
      BY <1>1, <1>5
    <2>2. v = PDX(v) * W + PTX(v)
      BY <1>2, <2>1
    <2>3. QED BY <1>2, <1>3, <1>4, <1>5, <2>1, <2>2 DEF UserDirs
  <1>6. CASE ~(v < W)
    <2>1. PDX(v) = 1 /\ PTX(v) = v - W
      BY <1>1, <1>6
    <2>2. v = PDX(v) * W + PTX(v)
      BY <1>2, <2>1
    <2>3. QED BY <1>2, <1>3, <1>4, <1>6, <2>1, <2>2 DEF UserDirs
  <1>7. QED BY <1>5, <1>6

-----------------------------------------------------------------------------
(* Memories and what a handler works on. *)

\* A memory is the record of its four fields.
LEMMA MemoryRecord ==
    ASSUME NEW mem \in Memories
    PROVE  mem = [word |-> mem.word, refs |-> mem.refs, free |-> mem.free, panic |-> mem.panic]
  BY DEF Memories

\* What the elementary changes of the memory do to its fields.
LEMMA PutFacts ==
    ASSUME NEW mem \in Memories, NEW f, NEW i, NEW x \in Words
    PROVE  LET t == Put(mem, f, i, x) IN
           /\ t \in Memories /\ t.refs = mem.refs /\ t.free = mem.free /\ t.panic = mem.panic
           /\ \A g \in Frames, j \in 0 .. W - 1 :
                t.word[g][j] = IF g = f /\ j = i THEN x ELSE mem.word[g][j]
           /\ \A g \in Frames \ {f} : t.word[g] = mem.word[g]
  <1> DEFINE t == Put(mem, f, i, x)
             word == [mem.word EXCEPT ![f][i] = x]
  <1>1. t = [word |-> word, refs |-> mem.refs, free |-> mem.free, panic |-> mem.panic]
    BY MemoryRecord DEF Put
  <1>2. word \in [Frames -> Rows]
    BY DEF Memories, Rows
  <1>3. \A g \in Frames, j \in 0 .. W - 1 :
          word[g][j] = IF g = f /\ j = i THEN x ELSE mem.word[g][j]
    BY DEF Memories, Rows
  <1>4. \A g \in Frames \ {f} : word[g] = mem.word[g]
    BY DEF Memories, Rows
  <1> HIDE DEF word
  <1>5. t \in Memories
    BY <1>1, <1>2 DEF Memories
  <1>6. QED BY <1>1, <1>3, <1>4, <1>5

\* A whole table or directory written.
LEMMA WriteFacts ==
    ASSUME NEW mem \in Memories, NEW f, NEW row \in Rows
    PROVE  LET t == [mem EXCEPT !.word[f] = row] IN
           /\ t \in Memories /\ t.refs = mem.refs /\ t.free = mem.free /\ t.panic = mem.panic
           /\ f \in Frames => t.word[f] = row
           /\ \A g \in Frames \ {f} : t.word[g] = mem.word[g]
  <1> DEFINE t == [mem EXCEPT !.word[f] = row]
             word == [mem.word EXCEPT ![f] = row]
  <1>1. t = [word |-> word, refs |-> mem.refs, free |-> mem.free, panic |-> mem.panic]
    BY MemoryRecord
  <1>3. word \in [Frames -> Rows] /\ (f \in Frames => word[f] = row)
        /\ \A g \in Frames \ {f} : word[g] = mem.word[g]
    BY DEF Memories
  <1> HIDE DEF word
  <1>4. t \in Memories
    BY <1>1, <1>3 DEF Memories
  <1>5. QED BY <1>1, <1>3, <1>4

\* ClearFrame empties one frame.
LEMMA ClearFacts ==
    ASSUME NEW mem \in Memories, NEW f
    PROVE  LET t == ClearFrame(mem, f) IN
           /\ t \in Memories /\ t.refs = mem.refs /\ t.free = mem.free /\ t.panic = mem.panic
           /\ f \in Frames => \A i \in 0 .. W - 1 : t.word[f][i] = Zero
           /\ \A g \in Frames \ {f} : t.word[g] = mem.word[g]
  <1> DEFINE row == [i \in 0 .. W - 1 |-> Zero]
  <1>1. row \in Rows
    BY DEF Rows, Words, Zero
  <1>2. \A i \in 0 .. W - 1 : row[i] = Zero
    OBVIOUS
  <1>3. ClearFrame(mem, f) = [mem EXCEPT !.word[f] = row]
    BY DEF ClearFrame
  <1> HIDE DEF row
  <1>4. QED BY <1>1, <1>2, <1>3, WriteFacts

SetRefs(mem, f, n) == [mem EXCEPT !.refs[f] = n]
SetFree(mem, q) == [mem EXCEPT !.free = q]

\* The references of one frame are set.
LEMMA CountFacts ==
    ASSUME NEW mem \in Memories, NEW f, NEW n \in Int
    PROVE  LET t == SetRefs(mem, f, n) IN
           /\ t \in Memories /\ t.word = mem.word /\ t.panic = mem.panic /\ t.free = mem.free
           /\ f \in Frames => t.refs[f] = n
           /\ \A g \in Frames \ {f} : t.refs[g] = mem.refs[g]
  <1> DEFINE refs == [mem.refs EXCEPT ![f] = n]
             t == SetRefs(mem, f, n)
  <1>1. t = [word |-> mem.word, refs |-> refs, free |-> mem.free, panic |-> mem.panic]
    BY MemoryRecord DEF SetRefs
  <1>2. refs \in [Frames -> Int] /\ (f \in Frames => refs[f] = n)
        /\ \A g \in Frames \ {f} : refs[g] = mem.refs[g]
    BY DEF Memories
  <1> HIDE DEF refs
  <1>3. t \in Memories
    BY <1>1, <1>2 DEF Memories
  <1>4. QED BY <1>1, <1>2, <1>3

\* The free list is set.
LEMMA FreeListFacts ==
    ASSUME NEW mem \in Memories, NEW q \in Seq(Frames)
    PROVE  LET t == SetFree(mem, q) IN
           /\ t \in Memories /\ t.word = mem.word /\ t.panic = mem.panic /\ t.free = q
           /\ t.refs = mem.refs
  <1>1. SetFree(mem, q) = [word |-> mem.word, refs |-> mem.refs, free |-> q, panic |-> mem.panic]
    BY MemoryRecord DEF SetFree
  <1>2. SetFree(mem, q) \in Memories
    BY <1>1 DEF Memories
  <1>3. QED BY <1>1, <1>2

\* The panic flag is set.
LEMMA PanicFacts ==
    ASSUME NEW mem \in Memories, NEW b \in BOOLEAN
    PROVE  LET t == [mem EXCEPT !.panic = b] IN
           /\ t \in Memories /\ t.word = mem.word /\ t.panic = b /\ t.free = mem.free
           /\ t.refs = mem.refs
  <1>1. [mem EXCEPT !.panic = b] = [word |-> mem.word, refs |-> mem.refs, free |-> mem.free, panic |-> b]
    BY MemoryRecord
  <1>2. [mem EXCEPT !.panic = b] \in Memories
    BY <1>1 DEF Memories
  <1>3. QED BY <1>1, <1>2

\* A count and the free list.
Listed(mem, f, q) == [mem EXCEPT !.refs[f] = 0, !.free = q]

\* A frame's count is reset and the free list changed, as when it is
\* allocated or freed.
LEMMA ListedFacts ==
    ASSUME NEW mem \in Memories, NEW f, NEW q \in Seq(Frames)
    PROVE  LET t == Listed(mem, f, q) IN
           /\ t \in Memories /\ t.word = mem.word /\ t.panic = mem.panic /\ t.free = q
           /\ f \in Frames => t.refs[f] = 0
           /\ \A g \in Frames \ {f} : t.refs[g] = mem.refs[g]
  <1>1. Listed(mem, f, q) = SetFree(SetRefs(mem, f, 0), q)
    BY DEF SetRefs, SetFree, Listed
  <1> DEFINE u == SetRefs(mem, f, 0)
             t == SetFree(u, q)
  <1>2. /\ u \in Memories /\ u.word = mem.word /\ u.panic = mem.panic
        /\ f \in Frames => u.refs[f] = 0
        /\ \A g \in Frames \ {f} : u.refs[g] = mem.refs[g]
    BY CountFacts
  <1> HIDE DEF u
  <1>3. t \in Memories /\ t.word = u.word /\ t.panic = u.panic /\ t.free = q /\ t.refs = u.refs
    BY <1>2, FreeListFacts
  <1> HIDE DEF t
  <1>4. QED BY <1>1, <1>2, <1>3 DEF t, u

\* What a handler works on, with a part replaced.
\* A pair of a memory and an environment.
IsPair(s) == s = [m |-> s.m, e |-> s.e]

\* WithMem changes the memory and nothing else.
LEMMA PairFacts ==
    ASSUME NEW s, IsPair(s)
    PROVE  \A x : /\ WithMem(s, x) = [m |-> x, e |-> s.e] /\ IsPair(WithMem(s, x))
                  /\ WithMem(s, x).m = x /\ WithMem(s, x).e = s.e
                  /\ WithMem(s, s.m) = s
                  /\ \A y : WithMem(WithMem(s, x), y) = WithMem(s, y)
  <1>1. \A x : WithMem(s, x) = [m |-> x, e |-> s.e]
    BY DEF WithMem, IsPair
  <1>2. \A x : /\ IsPair(WithMem(s, x)) /\ WithMem(s, x).m = x /\ WithMem(s, x).e = s.e
    BY <1>1 DEF IsPair
  <1>3. WithMem(s, s.m) = s
    BY <1>1 DEF IsPair
  <1>4. \A x, y : WithMem(WithMem(s, x), y) = [m |-> y, e |-> s.e]
    BY <1>1, <1>2 DEF WithMem
  <1>5. QED BY <1>1, <1>2, <1>3, <1>4

\* What a handler works on is a pair of a memory and an environment.
LEMMA TypedIsPair ==
    ASSUME NEW s, Typed(s)
    PROVE  IsPair(s)
  BY DEF Typed, IsPair

\* WithMem keeps the types.
LEMMA WithMemFacts ==
    ASSUME NEW s, NEW mem \in Memories, Typed(s)
    PROVE  /\ s.m \in Memories /\ s.e \in Environments
           /\ WithMem(s, mem) = [m |-> mem, e |-> s.e] /\ Typed(WithMem(s, mem))
           /\ WithMem(s, mem).m = mem /\ WithMem(s, mem).e = s.e
  <1>1. s = [m |-> s.m, e |-> s.e] /\ s.m \in Memories /\ s.e \in Environments
    BY DEF Typed
  <1>2. WithMem(s, mem) = [m |-> mem, e |-> s.e]
    BY <1>1 DEF WithMem
  <1>3. QED BY <1>1, <1>2 DEF Typed

\* Another environment with the same memory.
LEMMA WithEnvFacts ==
    ASSUME NEW s, NEW t, NEW x \in Environments, Typed(s), t = [s EXCEPT !.e = x]
    PROVE  t = [m |-> s.m, e |-> x] /\ Typed(t) /\ t.m = s.m /\ t.e = x
  <1>1. s = [m |-> s.m, e |-> s.e] /\ s.m \in Memories /\ s.e \in Environments
    BY DEF Typed
  <1>2. [s EXCEPT !.e = x] = [m |-> s.m, e |-> x]
    BY <1>1
  <1>3. QED BY <1>1, <1>2 DEF Typed

-----------------------------------------------------------------------------
(* The frames of an environment. *)

\* At, kind by kind.
LEMMA AtFacts ==
    ASSUME NEW s
    PROVE  /\ At(s, "dir", 0) = s.e.dir
           /\ \A i \in UserDirs : At(s, "table", i) = TableEntry(s, i).pa
           /\ \A v \in VPages : At(s, "page", v) = Entry(s, v).pa
           /\ \A i \in 0 .. DiskDir : At(s, "disk", i) = s.e.disk[i]
           /\ {"dir", "table", "page", "disk"} = Kinds
           /\ 0 \in Index /\ UserDirs \subseteq Index /\ VPages \subseteq Index /\ 0 .. DiskDir \subseteq Index
           /\ \A k, i : At(s, k, i) # 0 =>
                \/ k = "dir" /\ i = 0
                \/ k = "table" /\ i \in UserDirs
                \/ k = "page" /\ i \in VPages
                \/ k = "disk" /\ i \in 0 .. DiskDir
  <1>1. 0 \in Index /\ UserDirs \subseteq Index /\ VPages \subseteq Index /\ 0 .. DiskDir \subseteq Index
    BY Layout DEF Index, VPages
  <1>2. QED BY <1>1 DEF At, Kinds

\* Two places of an environment have different frames.
LEMMA OwnUnique ==
    ASSUME NEW s, NEW O, NEW k \in Kinds, NEW l \in Kinds, NEW i \in Index, NEW j \in Index,
           OwnApart(s, O), At(s, k, i) # 0, At(s, k, i) = At(s, l, j)
    PROVE  k = l /\ i = j
  <1>1. \A a, b \in Kinds, x, y \in Index : At(s, a, x) # 0 /\ At(s, a, x) = At(s, b, y) => a = b /\ x = y
    BY DEF OwnApart
  <1>2. At(s, k, i) # 0 /\ At(s, k, i) = At(s, l, j) => k = l /\ i = j
    BY <1>1
  <1>3. QED BY <1>2

\* The frames of an environment that has a directory.
LEMMA OwnFacts ==
    ASSUME NEW s, NEW O, Good(s, O)
    PROVE  /\ s.m \in Memories /\ s.e \in Environments
           /\ s.e.dir # 0 =>
                /\ s.e.dir \in Frames \ {0} /\ s.e.dir \notin O
                /\ s.e.dir \notin ToSet(s.m.free) /\ s.m.refs[s.e.dir] = 1
                /\ \A i \in UserDirs : TableEntry(s, i) = s.m.word[s.e.dir][i]
           /\ \A i \in UserDirs :
                /\ TableEntry(s, i) \in Words
                /\ TableEntry(s, i) # Zero =>
                     /\ s.e.dir # 0
                     /\ TableEntry(s, i).pa \in Frames \ {0} /\ TableEntry(s, i).pa \notin O
                     /\ TableEntry(s, i).pa \notin ToSet(s.m.free)
                     /\ s.m.refs[TableEntry(s, i).pa] = 1
                     /\ TableEntry(s, i).pa # s.e.dir
                     /\ \A j \in UserDirs : TableEntry(s, j) # Zero /\ j # i =>
                          TableEntry(s, j).pa # TableEntry(s, i).pa
           /\ \A v \in VPages :
                /\ Entry(s, v) \in Words
                /\ Entry(s, v) # Zero =>
                     /\ TableEntry(s, PDX(v)) # Zero /\ s.e.dir # 0
                     /\ Entry(s, v).pa \in Frames \ {0} /\ Entry(s, v).pa \notin O
                     /\ Entry(s, v).pa \notin ToSet(s.m.free)
                     /\ s.m.refs[Entry(s, v).pa] = 1
                     /\ Entry(s, v).pa # s.e.dir
                     /\ \A j \in UserDirs : Entry(s, v).pa # TableEntry(s, j).pa
           /\ ToSet(s.m.free) \subseteq Frames \ {0}
  <1>1. s.m \in Memories /\ s.e \in Environments /\ Typed(s)
    BY DEF Good, Typed
  <1>2. EntriesName(s) /\ FreeApart(s, O) /\ OwnApart(s, O)
    BY DEF Good
  <1>3. s.e.dir \in Frames /\ s.m.free \in Seq(Frames)
    BY <1>1 DEF Environments, Memories
  <1>4. ToSet(s.m.free) \subseteq Frames \ {0}
    <2>1. ToSet(s.m.free) \subseteq Frames
      BY <1>3 DEF ToSet
    <2>2. QED BY <2>1, <1>2 DEF FreeApart
  <1>5. Zero \in Words /\ Zero.pa = 0
    BY DEF Zero, Words
  <1>6. \A k, l \in Kinds, i, j \in Index :
          At(s, k, i) # 0 =>
            /\ At(s, k, i) \notin O /\ At(s, k, i) \notin ToSet(s.m.free) /\ s.m.refs[At(s, k, i)] = 1
            /\ k # l \/ i # j => At(s, k, i) # At(s, l, j)
    BY <1>2 DEF OwnApart
  <1>7. ASSUME s.e.dir # 0
        PROVE  /\ s.e.dir \in Frames \ {0} /\ s.e.dir \notin O
               /\ s.e.dir \notin ToSet(s.m.free) /\ s.m.refs[s.e.dir] = 1
               /\ \A i \in UserDirs : TableEntry(s, i) = s.m.word[s.e.dir][i]
    <2>1. At(s, "dir", 0) = s.e.dir /\ "dir" \in Kinds /\ 0 \in Index
      BY AtFacts
    <2>2. s.e.dir \notin O /\ s.e.dir \notin ToSet(s.m.free) /\ s.m.refs[s.e.dir] = 1
      BY <2>1, <1>6, <1>7
    <2>3. QED BY <2>2, <1>3, <1>7 DEF TableEntry
  <1>8. ASSUME NEW i \in UserDirs
        PROVE  /\ TableEntry(s, i) \in Words
               /\ TableEntry(s, i) # Zero =>
                     /\ s.e.dir # 0
                     /\ TableEntry(s, i).pa \in Frames \ {0} /\ TableEntry(s, i).pa \notin O
                     /\ TableEntry(s, i).pa \notin ToSet(s.m.free)
                     /\ s.m.refs[TableEntry(s, i).pa] = 1
                     /\ TableEntry(s, i).pa # s.e.dir
                     /\ \A j \in UserDirs : TableEntry(s, j) # Zero /\ j # i =>
                          TableEntry(s, j).pa # TableEntry(s, i).pa
    <2>1. \A j \in UserDirs : Names(TableEntry(s, j))
      BY <1>2 DEF EntriesName
    <2>2. TableEntry(s, i) \in Words
      BY <2>1, <1>5 DEF Names
    <2>3. SUFFICES ASSUME TableEntry(s, i) # Zero
                   PROVE  /\ s.e.dir # 0
                          /\ TableEntry(s, i).pa \in Frames \ {0} /\ TableEntry(s, i).pa \notin O
                          /\ TableEntry(s, i).pa \notin ToSet(s.m.free)
                          /\ s.m.refs[TableEntry(s, i).pa] = 1
                          /\ TableEntry(s, i).pa # s.e.dir
                          /\ \A j \in UserDirs : TableEntry(s, j) # Zero /\ j # i =>
                               TableEntry(s, j).pa # TableEntry(s, i).pa
      BY <2>2
    <2>4. s.e.dir # 0
      BY <2>3 DEF TableEntry
    <2>5. TableEntry(s, i).pa \in Frames \ {0}
      BY <2>1, <2>3 DEF Names
    <2>6. /\ At(s, "dir", 0) = s.e.dir /\ "dir" \in Kinds /\ "table" \in Kinds /\ 0 \in Index
          /\ \A j \in UserDirs : At(s, "table", j) = TableEntry(s, j).pa /\ j \in Index
      BY AtFacts
    <2>7. \A l \in Kinds, j \in Index : "table" # l \/ i # j => At(s, "table", i) # At(s, l, j)
      BY <1>6, <2>5, <2>6
    <2>8. TableEntry(s, i).pa # s.e.dir
      BY <2>6, <2>7
    <2>9. \A j \in UserDirs : TableEntry(s, j) # Zero /\ j # i => TableEntry(s, j).pa # TableEntry(s, i).pa
      BY <2>6, <2>7
    <2>10. TableEntry(s, i).pa \notin O /\ TableEntry(s, i).pa \notin ToSet(s.m.free)
           /\ s.m.refs[TableEntry(s, i).pa] = 1
      BY <2>5, <2>6, <1>6
    <2>11. QED BY <2>4, <2>5, <2>8, <2>9, <2>10
  <1>9. ASSUME NEW v \in VPages
        PROVE  /\ Entry(s, v) \in Words
               /\ Entry(s, v) # Zero =>
                     /\ TableEntry(s, PDX(v)) # Zero /\ s.e.dir # 0
                     /\ Entry(s, v).pa \in Frames \ {0} /\ Entry(s, v).pa \notin O
                     /\ Entry(s, v).pa \notin ToSet(s.m.free)
                     /\ s.m.refs[Entry(s, v).pa] = 1
                     /\ Entry(s, v).pa # s.e.dir
                     /\ \A j \in UserDirs : Entry(s, v).pa # TableEntry(s, j).pa
    <2>1. Names(Entry(s, v))
      BY <1>2 DEF EntriesName
    <2>2. Entry(s, v) \in Words
      BY <2>1, <1>5 DEF Names
    <2>3. SUFFICES ASSUME Entry(s, v) # Zero
                   PROVE  /\ TableEntry(s, PDX(v)) # Zero /\ s.e.dir # 0
                          /\ Entry(s, v).pa \in Frames \ {0} /\ Entry(s, v).pa \notin O
                          /\ Entry(s, v).pa \notin ToSet(s.m.free)
                          /\ s.m.refs[Entry(s, v).pa] = 1
                          /\ Entry(s, v).pa # s.e.dir
                          /\ \A j \in UserDirs : Entry(s, v).pa # TableEntry(s, j).pa
      BY <2>2
    <2>4. TableEntry(s, PDX(v)) # Zero
      BY <2>3 DEF Entry
    <2>5. s.e.dir # 0
      BY <2>4 DEF TableEntry
    <2>6. Entry(s, v).pa \in Frames \ {0}
      BY <2>1, <2>3 DEF Names
    <2>7. /\ At(s, "dir", 0) = s.e.dir /\ "dir" \in Kinds /\ "table" \in Kinds /\ "page" \in Kinds
          /\ 0 \in Index /\ v \in Index /\ At(s, "page", v) = Entry(s, v).pa
          /\ \A j \in UserDirs : At(s, "table", j) = TableEntry(s, j).pa /\ j \in Index
      BY AtFacts
    <2>8. \A l \in Kinds, j \in Index : "page" # l => At(s, "page", v) # At(s, l, j)
      BY <1>6, <2>6, <2>7
    <2>9. Entry(s, v).pa # s.e.dir /\ \A j \in UserDirs : Entry(s, v).pa # TableEntry(s, j).pa
      BY <2>7, <2>8
    <2>10. Entry(s, v).pa \notin O /\ Entry(s, v).pa \notin ToSet(s.m.free) /\ s.m.refs[Entry(s, v).pa] = 1
      BY <2>6, <2>7, <1>6
    <2>11. QED BY <2>4, <2>5, <2>6, <2>9, <2>10
  <1>10. QED BY <1>1, <1>4, <1>7, <1>8, <1>9

\* What an environment has is a frame, or 0.
LEMMA OwnInFrames ==
    ASSUME NEW s, NEW O, NEW k, NEW i,
           Good(s, O)
    PROVE  At(s, k, i) \in Frames
  <1>1. 0 \in Frames /\ s.e.dir \in Frames /\ s.e.disk \in [0 .. DiskDir -> Frames]
    BY OwnFacts, Layout DEF Environments
  <1>2. \A j \in UserDirs : TableEntry(s, j).pa \in Frames
    BY OwnFacts, <1>1 DEF Zero
  <1>3. \A v \in VPages : Entry(s, v).pa \in Frames
    BY OwnFacts, <1>1 DEF Zero
  <1>4. QED BY <1>1, <1>2, <1>3 DEF At

\* Every place keeps its frame or loses it, but for at most one, <<k0, i0>>,
\* that gets a new one, f.
OneNew(s, t, P, f, k0, i0) ==
    \A k \in Kinds, i \in Index : At(t, k, i) # 0 =>
      /\ At(t, k, i) \notin P \cup ToSet(t.m.free) /\ t.m.refs[At(t, k, i)] = 1
      /\ \/ At(t, k, i) = At(s, k, i) /\ At(t, k, i) # f
         \/ k = k0 /\ i = i0 /\ At(t, k, i) = f

\* Then the frames stay apart.
LEMMA GoodChange ==
    ASSUME NEW s, NEW t, NEW O, NEW P, NEW f, NEW k0, NEW i0,
           Good(s, O), Typed(t), EntriesName(t), FreeApart(t, P), OneNew(s, t, P, f, k0, i0)
    PROVE  Good(t, P)
  <1>1. OwnApart(s, O)
    BY DEF Good
  <1>2. OwnApart(t, P)
    <2>1. ASSUME NEW k \in Kinds, NEW l \in Kinds, NEW i \in Index, NEW j \in Index,
                 At(t, k, i) # 0, At(t, k, i) = At(t, l, j)
          PROVE  k = l /\ i = j
      <3>1. CASE At(t, k, i) = f
        BY <2>1, <3>1 DEF OneNew
      <3>2. CASE At(t, k, i) # f
        <4>1. At(t, k, i) = At(s, k, i) /\ At(t, l, j) = At(s, l, j)
          BY <2>1, <3>2 DEF OneNew
        <4>2. At(s, k, i) # 0 /\ At(s, k, i) = At(s, l, j)
          BY <4>1, <2>1
        <4>3. QED BY <4>2, <1>1, OwnUnique
      <3>3. QED BY <3>1, <3>2
    <2>2. QED BY <2>1 DEF OwnApart, OneNew
  <1>3. QED BY <1>2 DEF Good

\* The mapping of user space is the same.
SameMap(s, t) ==
    /\ t.e.dir = s.e.dir
    /\ \A i \in UserDirs : TableEntry(t, i) = TableEntry(s, i)
    /\ \A v \in VPages : Entry(t, v) = Entry(s, v)

\* The map depends on the directory and the tables only.
LEMMA SameMapFacts ==
    ASSUME NEW s, NEW t, NEW O, Good(s, O), t.e.dir = s.e.dir,
           s.e.dir # 0 => t.m.word[s.e.dir] = s.m.word[s.e.dir],
           \A i \in UserDirs : TableEntry(s, i) # Zero =>
             t.m.word[TableEntry(s, i).pa] = s.m.word[TableEntry(s, i).pa]
    PROVE  SameMap(s, t)
  <1>1. \A i \in UserDirs : TableEntry(t, i) = TableEntry(s, i)
    BY Zenon DEF TableEntry
  <1>2. \A v \in VPages : Entry(t, v) = Entry(s, v)
    BY <1>1, PagePlace DEF Entry
  <1>3. QED BY <1>1, <1>2 DEF SameMap

\* The same environment with the same mapping, when the memory changes.
LEMMA GoodSame ==
    ASSUME NEW s, NEW t, NEW O, NEW P, Good(s, O), Typed(t), SameMap(s, t),
           t.e.disk = s.e.disk, FreeApart(t, P),
           \A k \in Kinds, i \in Index : At(s, k, i) # 0 =>
             At(s, k, i) \notin P \cup ToSet(t.m.free) /\ t.m.refs[At(s, k, i)] = 1
    PROVE  Good(t, P) /\ \A k \in Kinds, i \in Index : At(t, k, i) = At(s, k, i)
  <1>1. \A k \in Kinds, i \in Index : At(t, k, i) = At(s, k, i)
    BY DEF At, SameMap
  <1>2. EntriesName(t)
    BY DEF EntriesName, SameMap, Good
  <1>4. OneNew(s, t, P, 0, "dir", 0)
    BY <1>1 DEF OneNew
  <1>5. Good(t, P)
    BY <1>2, <1>4, GoodChange
  <1>6. QED BY <1>1, <1>5

\* The kernel's part of the directory is the same.
SameHalf(s, t) ==
    \A i \in PDX(UENVS) .. W - 1 : t.m.word[s.e.dir][i] = s.m.word[s.e.dir][i]

\* Nothing of the environment, of the kernel's or of the frames of O has changed.
Alike(s, t, O) == SameMap(s, t) /\ Spares(t.m, s.m, O) /\ SameHalf(s, t)

\* Fewer frames to keep away from.
LEMMA GoodLess ==
    ASSUME NEW s, NEW O, NEW P, Good(s, P), O \subseteq P
    PROVE  Good(s, O)
  BY DEF Good, FreeApart, OwnApart

\* A frame leaves the free list: it is nobody's.
Takes(s, t) ==
    /\ Typed(t) /\ t.e = s.e /\ s.m.free # << >> /\ t.m.free = Tail(s.m.free)
    /\ \A g \in Frames \ {Head(s.m.free)} :
         t.m.word[g] = s.m.word[g] /\ t.m.refs[g] = s.m.refs[g]

\* A frame taken off the free list is nobody's: the environment stays in
\* order with that frame among the others' (allocate_frame).
LEMMA FrameTaken ==
    ASSUME NEW s, NEW t, NEW O, Good(s, O), Takes(s, t), O \subseteq Frames
    PROVE  LET f == Head(s.m.free) IN
           /\ f \in Frames \ {0} /\ f \notin O /\ f \notin ToSet(t.m.free) /\ f # s.e.dir
           /\ Good(t, O \cup {f})
           /\ Alike(s, t, O)
  <1> USE DEF Takes
  <1> DEFINE f == Head(s.m.free)
  <1>1. s.m \in Memories /\ s.m.free \in Seq(Frames) /\ Distinct(s.m.free) /\ s.e.dir \in Frames
    BY OwnFacts DEF Good, FreeApart, Memories, Environments
  <1>2. /\ f \in ToSet(s.m.free) /\ f \notin ToSet(t.m.free)
        /\ ToSet(s.m.free) = ToSet(t.m.free) \cup {f} /\ Distinct(t.m.free)
    BY <1>1, HeadElements
  <1>3. f \in Frames \ {0} /\ f \notin O
    BY <1>2, OwnFacts DEF Good, FreeApart
  <1> HIDE DEF f
  <1>4. /\ s.e.dir # 0 => s.e.dir # f
        /\ \A i \in UserDirs : TableEntry(s, i) # Zero => TableEntry(s, i).pa # f /\ TableEntry(s, i).pa \in Frames
    BY <1>2, OwnFacts
  <1>5. \A g \in Frames : g # f => t.m.word[g] = s.m.word[g] /\ t.m.refs[g] = s.m.refs[g]
    BY DEF f
  <1>6. SameMap(s, t)
    BY <1>1, <1>4, <1>5, SameMapFacts
  <1>7. FreeApart(t, O \cup {f})
    <2>1. FreeApart(s, O) /\ ToSet(s.m.free) \subseteq Frames
      BY OwnFacts DEF Good
    <2>2. QED BY <1>2, <1>5, <2>1 DEF FreeApart
  <1>8. \A k \in Kinds, i \in Index : At(s, k, i) # 0 =>
          At(s, k, i) \notin O \cup {f} \cup ToSet(t.m.free) /\ t.m.refs[At(s, k, i)] = 1
    <2>1. ASSUME NEW k \in Kinds, NEW i \in Index, At(s, k, i) # 0
          PROVE  At(s, k, i) \notin O \cup {f} \cup ToSet(t.m.free) /\ t.m.refs[At(s, k, i)] = 1
      <3>1. At(s, k, i) \notin O \cup ToSet(s.m.free) /\ s.m.refs[At(s, k, i)] = 1
        BY <2>1 DEF Good, OwnApart
      <3>2. At(s, k, i) \in Frames
        BY OwnInFrames
      <3>3. QED BY <3>1, <3>2, <1>2, <1>5
    <2>2. QED BY <2>1
  <1>9. Good(t, O \cup {f})
    BY <1>6, <1>7, <1>8, GoodSame
  <1>10. Spares(t.m, s.m, O)
    BY <1>3, <1>5 DEF Spares
  <1>11. SameHalf(s, t) /\ f # s.e.dir
    BY <1>1, <1>3, <1>4, <1>5 DEF SameHalf
  <1>12. QED BY <1>2, <1>3, <1>6, <1>9, <1>10, <1>11 DEF f, Alike

\* A frame that is nobody's goes to the free list.
Frees(s, t, f) ==
    /\ Typed(t) /\ t.e = s.e /\ t.m.word = s.m.word
    /\ t.m.free = <<f>> \o s.m.free /\ t.m.refs[f] = 0
    /\ \A g \in Frames \ {f} : t.m.refs[g] = s.m.refs[g]

\* A frame that is nobody's may go back to the free list (free_frame).
LEMMA FrameFreed ==
    ASSUME NEW s, NEW t, NEW O, NEW f \in Frames \ {0},
           Good(s, O \cup {f}), Frees(s, t, f), f \notin O, O \subseteq Frames
    PROVE  Good(t, O) /\ Alike(s, t, O)
  <1> USE DEF Frees
  <1>0. f \notin ToSet(s.m.free)
    BY DEF Good, FreeApart
  <1>1. s.m.free \in Seq(Frames) /\ FreeApart(s, O \cup {f}) /\ s.e.dir \in Frames
    BY OwnFacts DEF Good, Memories, Environments
  <1>2. ToSet(t.m.free) = {f} \cup ToSet(s.m.free) /\ Distinct(t.m.free)
    BY <1>0, <1>1, ConsElements DEF Cons, FreeApart
  <1>3. SameMap(s, t)
    BY SameMapFacts
  <1>4. FreeApart(t, O)
    <2>1. ToSet(s.m.free) \subseteq Frames
      BY OwnFacts
    <2>2. QED BY <1>1, <1>2, <2>1 DEF FreeApart
  <1>5. \A k \in Kinds, i \in Index : At(s, k, i) # 0 =>
          At(s, k, i) \notin O \cup ToSet(t.m.free) /\ t.m.refs[At(s, k, i)] = 1
    <2>1. ASSUME NEW k \in Kinds, NEW i \in Index, At(s, k, i) # 0
          PROVE  At(s, k, i) \notin O \cup ToSet(t.m.free) /\ t.m.refs[At(s, k, i)] = 1
      <3>1. At(s, k, i) \notin O \cup {f} \cup ToSet(s.m.free) /\ s.m.refs[At(s, k, i)] = 1
        BY <2>1 DEF Good, OwnApart
      <3>2. At(s, k, i) \in Frames
        BY OwnInFrames
      <3>3. QED BY <3>1, <3>2, <1>2
    <2>2. QED BY <2>1
  <1>6. Good(t, O)
    BY <1>3, <1>4, <1>5, GoodSame
  <1>7. QED BY <1>3, <1>6 DEF Alike, Spares, SameHalf

-----------------------------------------------------------------------------
(* Entries of tables and of the directory. *)

\* x is written as the entry of page v.
Writes(s, t, v, x) ==
    /\ TableEntry(s, PDX(v)) # Zero /\ t.e.dir = s.e.dir
    /\ t.m.word = Put(s.m, TableEntry(s, PDX(v)).pa, PTX(v), x).word

\* Writing the entry of a page changes that of no other.
LEMMA PagePut ==
    ASSUME NEW s, NEW t, NEW O, NEW v \in VPages, NEW x \in Words,
           Good(s, O), Writes(s, t, v, x)
    PROVE  /\ \A i \in UserDirs : TableEntry(t, i) = TableEntry(s, i)
           /\ Entry(t, v) = x
           /\ \A u \in VPages \ {v} : Entry(t, u) = Entry(s, u)
           /\ \A g \in Frames : g # TableEntry(s, PDX(v)).pa => t.m.word[g] = s.m.word[g]
           /\ SameHalf(s, t)
           /\ \A g \in O : g \in Frames => t.m.word[g] = s.m.word[g]
  <1> DEFINE b == TableEntry(s, PDX(v)).pa
  <1> USE DEF Writes
  <1>1. PDX(v) \in UserDirs /\ PTX(v) \in 0 .. W - 1 /\ s.m \in Memories
    BY PagePlace, OwnFacts
  <1>2. b \in Frames \ {0} /\ b \notin O /\ b # s.e.dir /\ s.e.dir # 0 /\ s.e.dir \in Frames
    BY <1>1, OwnFacts
  <1>3. /\ \A j \in UserDirs : j # PDX(v) /\ TableEntry(s, j) # Zero => TableEntry(s, j).pa # b
        /\ \A j \in UserDirs : TableEntry(s, j) # Zero => TableEntry(s, j).pa \in Frames
    BY <1>1, OwnFacts
  <1> HIDE DEF b
  <1>4. /\ \A g \in Frames, j \in 0 .. W - 1 :
             t.m.word[g][j] = IF g = b /\ j = PTX(v) THEN x ELSE s.m.word[g][j]
        /\ \A g \in Frames : g # b => t.m.word[g] = s.m.word[g]
    BY <1>1, PutFacts, SMTT(60) DEF b
  <1>5. \A i \in UserDirs : TableEntry(t, i) = TableEntry(s, i)
    BY <1>2, <1>4, Zenon DEF TableEntry
  <1>6. Entry(t, v) = x
    BY <1>1, <1>2, <1>4, <1>5 DEF Entry, b
  <1>7. ASSUME NEW u \in VPages, u # v
        PROVE  Entry(t, u) = Entry(s, u)
    <2>1. PDX(u) \in UserDirs /\ PTX(u) \in 0 .. W - 1 /\ ~(PDX(u) = PDX(v) /\ PTX(u) = PTX(v))
      BY <1>7, PagePlace
    <2>2. TableEntry(t, PDX(u)) = TableEntry(s, PDX(u))
      BY <1>5, <2>1
    <2>3. CASE TableEntry(s, PDX(u)) = Zero
      BY <2>2, <2>3 DEF Entry
    <2>4. CASE TableEntry(s, PDX(u)) # Zero
      <3>1. TableEntry(s, PDX(u)).pa \in Frames /\ ~(TableEntry(s, PDX(u)).pa = b /\ PTX(u) = PTX(v))
        BY <1>3, <2>1, <2>4
      <3>2. t.m.word[TableEntry(s, PDX(u)).pa][PTX(u)] = s.m.word[TableEntry(s, PDX(u)).pa][PTX(u)]
        BY <1>4, <2>1, <3>1
      <3>3. QED BY <2>2, <2>4, <3>2 DEF Entry
    <2>5. QED BY <2>3, <2>4
  <1>8. SameHalf(s, t)
    BY <1>2, <1>4 DEF SameHalf
  <1>9. QED BY <1>2, <1>4, <1>5, <1>6, <1>7, <1>8 DEF b

\* The new entry of a page: what it names is the frame f, that was nobody's,
\* what it named already, or nothing.
LEMMA PageNamed ==
    ASSUME NEW s, NEW t, NEW O, NEW P, NEW v \in VPages, NEW x \in Words,
           Good(s, O), Typed(t), t.e = s.e, Names(x), Writes(s, t, v, x), FreeApart(t, P),
           \A k \in Kinds, i \in Index : At(s, k, i) # 0 /\ ~(k = "page" /\ i = v) =>
             /\ At(s, k, i) \notin P \cup ToSet(t.m.free) /\ t.m.refs[At(s, k, i)] = 1
             /\ At(s, k, i) # x.pa,
           x # Zero => x.pa \notin P \cup ToSet(t.m.free) /\ t.m.refs[x.pa] = 1
    PROVE  Good(t, P)
  <1>1. s.m \in Memories /\ s.e.dir # 0
    BY PagePlace, OwnFacts DEF Writes
  <1>2. /\ \A i \in UserDirs : TableEntry(t, i) = TableEntry(s, i)
        /\ Entry(t, v) = x
        /\ \A u \in VPages \ {v} : Entry(t, u) = Entry(s, u)
    BY PagePut
  <1>3. EntriesName(t)
    BY <1>2 DEF EntriesName, Good
  <1>4. At(t, "page", v) = x.pa
    BY <1>2, AtFacts
  <1>5. \A k \in Kinds, i \in Index : ~(k = "page" /\ i = v) => At(t, k, i) = At(s, k, i)
    BY <1>2 DEF At
  <1>6. x.pa # 0 => x # Zero
    BY DEF Zero
  <1>7. OneNew(s, t, P, x.pa, "page", v)
    BY <1>4, <1>5, <1>6 DEF OneNew
  <1>8. QED BY <1>1, <1>3, <1>7, GoodChange

\* What has changed: the entry of the page v, that is x now.
Remapped(s, t, O, v, x) ==
    /\ Spares(t.m, s.m, O) /\ SameHalf(s, t)
    /\ \A i \in UserDirs : TableEntry(t, i) = TableEntry(s, i)
    /\ Entry(t, v) = x
    /\ \A u \in VPages \ {v} : Entry(t, u) = Entry(s, u)

\* A page gets the frame f.
Places(s, t, v, f) ==
    /\ Typed(t) /\ t.e = s.e /\ Writes(s, t, v, Present(f))
    /\ t.m.free = s.m.free /\ t.m.refs[f] = 1
    /\ \A g \in Frames \ {f} : t.m.refs[g] = s.m.refs[g]

\* A frame that is nobody's becomes the page's.
LEMMA PagePlaced ==
    ASSUME NEW s, NEW t, NEW O, NEW f \in Frames \ {0}, NEW v \in VPages,
           Good(s, O \cup {f}), Places(s, t, v, f), f \notin O, O \subseteq Frames
    PROVE  Good(t, O) /\ Remapped(s, t, O, v, Present(f))
  <1> USE DEF Places
  <1> DEFINE x == Present(f)
  <1>1. x \in Words /\ Names(x) /\ x.pa = f
    BY Layout DEF Present, Words, Names
  <1> HIDE DEF x
  <1>2. ToSet(s.m.free) \subseteq Frames /\ f \notin ToSet(s.m.free)
    BY OwnFacts DEF Good, FreeApart
  <1>3. FreeApart(t, O)
    BY <1>2 DEF Good, FreeApart
  <1>4. ASSUME NEW k \in Kinds, NEW i \in Index, At(s, k, i) # 0
        PROVE  /\ At(s, k, i) \notin O \cup ToSet(t.m.free) /\ t.m.refs[At(s, k, i)] = 1
               /\ At(s, k, i) # x.pa
    <2>1. At(s, k, i) \notin O \cup {f} \cup ToSet(s.m.free) /\ s.m.refs[At(s, k, i)] = 1
      BY <1>4 DEF Good, OwnApart
    <2>2. At(s, k, i) \in Frames
      BY OwnInFrames
    <2>3. QED BY <2>1, <2>2, <1>1
  <1>5. Good(t, O)
    BY <1>1, <1>2, <1>3, <1>4, PageNamed DEF x
  <1>6. /\ \A i \in UserDirs : TableEntry(t, i) = TableEntry(s, i)
        /\ Entry(t, v) = x
        /\ \A u \in VPages \ {v} : Entry(t, u) = Entry(s, u)
        /\ SameHalf(s, t)
        /\ \A g \in O \cup {f} : g \in Frames => t.m.word[g] = s.m.word[g]
    BY <1>1, PagePut DEF x
  <1>7. Spares(t.m, s.m, O)
    BY <1>6 DEF Spares
  <1>8. QED BY <1>5, <1>6, <1>7 DEF Remapped, x

\* The entry of a page is written, and nothing else.
Rewritten(s, t, v, x) ==
    /\ Typed(t) /\ t.e = s.e /\ Writes(s, t, v, x)
    /\ t.m.free = s.m.free /\ t.m.refs = s.m.refs

\* An entry written over with the same counts changes that page only.
LEMMA PageRewritten ==
    ASSUME NEW s, NEW t, NEW O, NEW v \in VPages, NEW x \in Words,
           Good(s, O), Rewritten(s, t, v, x), O \subseteq Frames
    PROVE  Remapped(s, t, O, v, x)
  <1> USE DEF Rewritten
  <1>1. /\ \A i \in UserDirs : TableEntry(t, i) = TableEntry(s, i)
        /\ Entry(t, v) = x
        /\ \A u \in VPages \ {v} : Entry(t, u) = Entry(s, u)
        /\ SameHalf(s, t)
        /\ \A g \in O : g \in Frames => t.m.word[g] = s.m.word[g]
    BY PagePut
  <1>2. Spares(t.m, s.m, O)
    BY <1>1 DEF Spares
  <1>3. QED BY <1>1, <1>2 DEF Remapped

\* The entry of a page keeps its frame.
LEMMA PageKept ==
    ASSUME NEW s, NEW t, NEW O, NEW v \in VPages, NEW x \in Words,
           Good(s, O), O \subseteq Frames, Entry(s, v) # Zero, x.pa = Entry(s, v).pa,
           Rewritten(s, t, v, x)
    PROVE  Good(t, O) /\ Remapped(s, t, O, v, x)
  <1> USE DEF Rewritten
  <1>1. /\ TableEntry(s, PDX(v)) # Zero /\ x.pa \in Frames \ {0}
        /\ x.pa \notin O \cup ToSet(s.m.free) /\ s.m.refs[x.pa] = 1
    BY OwnFacts
  <1>2. Names(x) /\ FreeApart(t, O) /\ At(s, "page", v) = x.pa /\ "page" \in Kinds /\ v \in Index
    BY <1>1, AtFacts DEF Good, FreeApart, Names
  <1>3. ASSUME NEW k \in Kinds, NEW i \in Index, At(s, k, i) # 0, ~(k = "page" /\ i = v)
        PROVE  /\ At(s, k, i) \notin O \cup ToSet(t.m.free) /\ t.m.refs[At(s, k, i)] = 1
               /\ At(s, k, i) # x.pa
    <2>1. At(s, k, i) \notin O \cup ToSet(s.m.free) /\ s.m.refs[At(s, k, i)] = 1
      BY <1>3 DEF Good, OwnApart
    <2>2. At(s, k, i) # At(s, "page", v)
      BY <1>2, <1>3, OwnUnique DEF Good
    <2>3. QED BY <2>1, <2>2, <1>2
  <1>4. Good(t, O)
    BY <1>1, <1>2, <1>3, PageNamed
  <1>5. Remapped(s, t, O, v, x)
    BY PageRewritten
  <1>6. QED BY <1>4, <1>5

\* A page loses its frame, if it has one: the frame is nobody's.
LEMMA PageDropped ==
    ASSUME NEW s, NEW t, NEW O, NEW v \in VPages,
           Good(s, O), O \subseteq Frames, Rewritten(s, t, v, Zero)
    PROVE  Good(t, O \cup {Entry(s, v).pa}) /\ Remapped(s, t, O, v, Zero)
  <1> USE DEF Rewritten
  <1> DEFINE f == Entry(s, v).pa
  <1>1. Zero \in Words /\ Names(Zero) /\ Zero.pa = 0
    BY DEF Words, Zero, Names
  <1>2. f # 0 => f \notin ToSet(s.m.free)
    BY OwnFacts, <1>1
  <1>3. At(s, "page", v) = f /\ "page" \in Kinds /\ v \in Index
    BY AtFacts
  <1> HIDE DEF f
  <1>4. FreeApart(t, O \cup {f})
    BY <1>2 DEF Good, FreeApart
  <1>5. ASSUME NEW k \in Kinds, NEW i \in Index, At(s, k, i) # 0, ~(k = "page" /\ i = v)
        PROVE  /\ At(s, k, i) \notin O \cup {f} \cup ToSet(t.m.free) /\ t.m.refs[At(s, k, i)] = 1
               /\ At(s, k, i) # Zero.pa
    <2>1. At(s, k, i) \notin O \cup ToSet(s.m.free) /\ s.m.refs[At(s, k, i)] = 1
      BY <1>5 DEF Good, OwnApart
    <2>2. At(s, k, i) # At(s, "page", v)
      BY <1>3, <1>5, OwnUnique DEF Good
    <2>3. QED BY <2>1, <2>2, <1>3, <1>5, <1>1
  <1>6. Good(t, O \cup {f})
    BY <1>1, <1>4, <1>5, PageNamed
  <1>7. Remapped(s, t, O, v, Zero)
    BY <1>1, PageRewritten
  <1>8. QED BY <1>6, <1>7 DEF f

\* Writing an entry of the directory's part of user space.
WritesTable(s, t, i, x) ==
    s.e.dir # 0 /\ t.e.dir = s.e.dir /\ t.m.word = Put(s.m, s.e.dir, i, x).word

\* One entry of the directory written.
LEMMA TablePut ==
    ASSUME NEW s, NEW t, NEW O, NEW i \in UserDirs, NEW x \in Words,
           Good(s, O), WritesTable(s, t, i, x)
    PROVE  /\ TableEntry(t, i) = x
           /\ \A j \in UserDirs \ {i} : TableEntry(t, j) = TableEntry(s, j)
           /\ \A v \in VPages : PDX(v) # i => Entry(t, v) = Entry(s, v)
           /\ \A g \in Frames : g # s.e.dir => t.m.word[g] = s.m.word[g]
           /\ SameHalf(s, t)
           /\ \A g \in O : g \in Frames => t.m.word[g] = s.m.word[g]
  <1> USE DEF WritesTable
  <1>1. s.m \in Memories /\ s.e.dir \in Frames \ {0} /\ s.e.dir \notin O
    BY OwnFacts
  <1>2. i \in 0 .. W - 1 /\ \A j \in UserDirs : j \in 0 .. W - 1
    BY Layout
  <1>3. /\ \A g \in Frames, j \in 0 .. W - 1 :
             t.m.word[g][j] = IF g = s.e.dir /\ j = i THEN x ELSE s.m.word[g][j]
        /\ \A g \in Frames : g # s.e.dir => t.m.word[g] = s.m.word[g]
    BY <1>1, PutFacts
  <1>4. TableEntry(t, i) = x /\ \A j \in UserDirs \ {i} : TableEntry(t, j) = TableEntry(s, j)
    BY <1>1, <1>2, <1>3 DEF TableEntry
  <1>5. ASSUME NEW v \in VPages, PDX(v) # i
        PROVE  Entry(t, v) = Entry(s, v)
    <2>1. PDX(v) \in UserDirs
      BY PagePlace
    <2>2. TableEntry(t, PDX(v)) = TableEntry(s, PDX(v))
      BY <1>4, <1>5, <2>1
    <2>3. TableEntry(s, PDX(v)) # Zero => /\ TableEntry(s, PDX(v)).pa \in Frames
                                          /\ TableEntry(s, PDX(v)).pa # s.e.dir
      BY <2>1, OwnFacts
    <2>4. QED BY <1>3, <2>2, <2>3 DEF Entry
  <1>6. SameHalf(s, t)
    <2>1. \A j \in PDX(UENVS) .. W - 1 : j \in 0 .. W - 1 /\ j # i
      BY Layout
    <2>2. QED BY <1>1, <1>3, <2>1 DEF SameHalf
  <1>7. QED BY <1>1, <1>3, <1>4, <1>5, <1>6

\* The environment gets an empty table in the frame f.
Tabled(s, t, O, i, f) ==
    /\ Spares(t.m, s.m, O) /\ SameHalf(s, t)
    /\ TableEntry(t, i) = Present(f)
    /\ \A j \in UserDirs \ {i} : TableEntry(t, j) = TableEntry(s, j)
    /\ \A u \in VPages : Entry(t, u) = Entry(s, u)

PlacesTable(s, t, i, f) ==
    /\ Typed(t) /\ t.e = s.e /\ WritesTable(s, t, i, Present(f))
    /\ t.m.free = s.m.free /\ t.m.refs = s.m.refs /\ s.m.refs[f] = 1
    /\ \A j \in 0 .. W - 1 : s.m.word[f][j] = Zero

\* An empty frame that is nobody's becomes the table (__static_cpt).
LEMMA TablePlaced ==
    ASSUME NEW s, NEW t, NEW O, NEW f \in Frames \ {0}, NEW i \in UserDirs,
           Good(s, O \cup {f}), f \notin O, O \subseteq Frames, TableEntry(s, i) = Zero,
           PlacesTable(s, t, i, f)
    PROVE  Good(t, O) /\ Tabled(s, t, O, i, f)
  <1> USE DEF PlacesTable
  <1> DEFINE x == Present(f)
  <1>1. x \in Words /\ Names(x) /\ x.pa = f /\ x # Zero
    BY Layout DEF Present, Words, Names, Zero
  <1>2. f # s.e.dir
    <2>1. s.e.dir \notin O \cup {f}
      BY OwnFacts DEF WritesTable
    <2>2. QED BY <2>1
  <1> HIDE DEF x
  <1>3. /\ TableEntry(t, i) = x
        /\ \A j \in UserDirs \ {i} : TableEntry(t, j) = TableEntry(s, j)
        /\ \A v \in VPages : PDX(v) # i => Entry(t, v) = Entry(s, v)
        /\ \A g \in Frames : g # s.e.dir => t.m.word[g] = s.m.word[g]
        /\ SameHalf(s, t)
        /\ \A g \in O : g \in Frames => t.m.word[g] = s.m.word[g]
    BY <1>1, TablePut DEF x
  <1>4. \A u \in VPages : Entry(t, u) = Entry(s, u)
    <2>1. ASSUME NEW u \in VPages, PDX(u) = i
          PROVE  Entry(t, u) = Entry(s, u)
      <3>1. Entry(s, u) = Zero
        BY <2>1 DEF Entry
      <3>2. Entry(t, u) = t.m.word[f][PTX(u)]
        BY <1>1, <1>3, <2>1 DEF Entry
      <3>3. t.m.word[f] = s.m.word[f]
        BY <1>2, <1>3
      <3>4. QED BY <3>1, <3>2, <3>3, PagePlace
    <2>2. QED BY <1>3, <2>1
  <1>5. EntriesName(t)
    BY <1>1, <1>3, <1>4 DEF EntriesName, Good
  <1>6. FreeApart(t, O)
    BY DEF Good, FreeApart
  <1>7. \A k \in Kinds, j \in Index : At(t, k, j) = IF k = "table" /\ j = i THEN f ELSE At(s, k, j)
    BY <1>1, <1>3, <1>4 DEF At, WritesTable
  <1>8. /\ f \notin ToSet(s.m.free)
        /\ \A k \in Kinds, j \in Index : At(s, k, j) # 0 =>
             At(s, k, j) \notin O \cup {f} \cup ToSet(s.m.free) /\ s.m.refs[At(s, k, j)] = 1
    BY DEF Good, OwnApart, FreeApart
  <1>9. OneNew(s, t, O, f, "table", i)
    BY <1>7, <1>8 DEF OneNew
  <1>10. Good(t, O)
    BY <1>5, <1>6, <1>9, GoodChange DEF WritesTable
  <1>11. QED BY <1>3, <1>4, <1>10 DEF Spares, Tabled, x

\* The environment loses a table and all its pages.
Untabled(s, t, O, i) ==
    /\ Spares(t.m, s.m, O) /\ SameHalf(s, t)
    /\ TableEntry(t, i) = Zero
    /\ \A j \in UserDirs \ {i} : TableEntry(t, j) = TableEntry(s, j)
    /\ \A u \in VPages : Entry(t, u) = IF PDX(u) = i THEN Zero ELSE Entry(s, u)

DropsTable(s, t, i) ==
    /\ Typed(t) /\ t.e = s.e /\ WritesTable(s, t, i, Zero)
    /\ t.m.free = s.m.free /\ t.m.refs = s.m.refs

\* A table that leaves the directory is nobody's, and its pages are not
\* mapped.
LEMMA TableDropped ==
    ASSUME NEW s, NEW t, NEW O, NEW i \in UserDirs,
           Good(s, O), O \subseteq Frames, DropsTable(s, t, i)
    PROVE  Good(t, O \cup {TableEntry(s, i).pa}) /\ Untabled(s, t, O, i)
  <1> USE DEF DropsTable
  <1> DEFINE f == TableEntry(s, i).pa
  <1>1. Zero \in Words /\ Names(Zero) /\ Zero.pa = 0
    BY DEF Words, Zero, Names
  <1>2. /\ TableEntry(t, i) = Zero
        /\ \A j \in UserDirs \ {i} : TableEntry(t, j) = TableEntry(s, j)
        /\ \A v \in VPages : PDX(v) # i => Entry(t, v) = Entry(s, v)
        /\ SameHalf(s, t)
        /\ \A g \in O : g \in Frames => t.m.word[g] = s.m.word[g]
    BY <1>1, TablePut
  <1>3. \A u \in VPages : PDX(u) = i => Entry(t, u) = Zero
    BY <1>2 DEF Entry
  <1>4. f # 0 => f \notin ToSet(s.m.free)
    BY OwnFacts, <1>1
  <1>5. At(s, "table", i) = f /\ "table" \in Kinds /\ i \in Index
    BY AtFacts
  <1> HIDE DEF f
  <1>6. EntriesName(t)
    BY <1>1, <1>2, <1>3 DEF EntriesName, Good
  <1>7. FreeApart(t, O \cup {f})
    BY <1>4 DEF Good, FreeApart
  <1>8. \A k \in Kinds, j \in Index : At(t, k, j) # 0 =>
           At(t, k, j) = At(s, k, j) /\ ~(k = "table" /\ j = i)
    BY <1>1, <1>2, <1>3 DEF At, WritesTable
  <1>9. ASSUME NEW k \in Kinds, NEW j \in Index, At(t, k, j) # 0
        PROVE  /\ At(t, k, j) \notin O \cup {f} \cup ToSet(t.m.free) /\ t.m.refs[At(t, k, j)] = 1
               /\ At(t, k, j) = At(s, k, j)
    <2>1. At(t, k, j) = At(s, k, j) /\ ~(k = "table" /\ j = i) /\ At(s, k, j) # 0
      BY <1>8, <1>9
    <2>2. At(s, k, j) \notin O \cup ToSet(s.m.free) /\ s.m.refs[At(s, k, j)] = 1
      BY <2>1 DEF Good, OwnApart
    <2>3. At(s, k, j) # At(s, "table", i)
      BY <1>5, <2>1, OwnUnique DEF Good
    <2>4. QED BY <2>1, <2>2, <2>3, <1>5
  <1>10. OneNew(s, t, O \cup {f}, 0, "dir", 0)
    BY <1>9 DEF OneNew
  <1>11. Good(t, O \cup {f})
    BY <1>6, <1>7, <1>10, GoodChange DEF WritesTable
  <1>12. Spares(t.m, s.m, O)
    BY <1>2 DEF Spares
  <1>13. QED BY <1>2, <1>3, <1>11, <1>12 DEF f, Untabled

-----------------------------------------------------------------------------
(* Steps, and mapping. *)

\* From s to t the environment changed what the pages of V are mapped to.
Step(s, t, O, V) ==
    /\ Good(t, O) /\ t.e.dir = s.e.dir
    /\ Spares(t.m, s.m, O) /\ SameHalf(s, t)
    /\ \A u \in VPages \ V : Entry(t, u) = Entry(s, u)

\* Nothing done is a step.
LEMMA StepSame ==
    ASSUME NEW s, NEW O, Good(s, O)
    PROVE  Step(s, s, O, {})
  BY DEF Step, Spares, SameHalf

\* Two steps are a step over the pages of both.
LEMMA StepThen ==
    ASSUME NEW s, NEW t, NEW u, NEW O, NEW U, NEW V, Step(s, t, O, U), Step(t, u, O, V)
    PROVE  Step(s, u, O, U \cup V)
  <1>1. Spares(u.m, s.m, O)
    BY DEF Step, Spares
  <1>2. SameHalf(s, u)
    BY DEF Step, SameHalf
  <1>3. QED BY <1>1, <1>2 DEF Step

\* A step may be said to touch more pages than it does.
LEMMA StepMore ==
    ASSUME NEW s, NEW t, NEW O, NEW U, NEW V, Step(s, t, O, U), U \subseteq V
    PROVE  Step(s, t, O, V)
  BY DEF Step

\* A step that spares the frames of P spares those of a part of P.
LEMMA StepLess ==
    ASSUME NEW s, NEW t, NEW O, NEW P, NEW V, Step(s, t, P, V), O \subseteq P
    PROVE  Step(s, t, O, V)
  BY GoodLess DEF Step, Spares

\* How the code looks an address up.
LEMMA Looked ==
    ASSUME NEW s, NEW O, NEW v \in VPages, Good(s, O), s.e.dir # 0
    PROVE  /\ HasTable(s.m, s.e.dir, v) <=> TableEntry(s, PDX(v)) # Zero
           /\ TableEntry(s, PDX(v)) = s.m.word[s.e.dir][PDX(v)]
           /\ TableEntry(s, PDX(v)) # Zero => PTE(s.m, s.e.dir, v) = Entry(s, v)
           /\ get_frame_info(s.m, s.e.dir, v) = Entry(s, v).pa
           /\ PDX(v) \in UserDirs
           /\ Zero.pa = 0
           /\ Entry(s, v).pa = 0 => Entry(s, v) = Zero
  <1>1. PDX(v) \in UserDirs /\ TableEntry(s, PDX(v)) = s.m.word[s.e.dir][PDX(v)] /\ Zero.pa = 0
    BY PagePlace, OwnFacts DEF Zero
  <1>2. HasTable(s.m, s.e.dir, v) <=> TableEntry(s, PDX(v)) # Zero
    BY <1>1 DEF HasTable
  <1>3. TableEntry(s, PDX(v)) # Zero => PTE(s.m, s.e.dir, v) = Entry(s, v)
    BY <1>1, SMTT(60) DEF PTE, Entry
  <1>4. get_frame_info(s.m, s.e.dir, v) = Entry(s, v).pa
    BY <1>1, <1>2, <1>3, Zenon DEF get_frame_info, Entry
  <1>5. Entry(s, v).pa = 0 => Entry(s, v) = Zero
    BY OwnFacts
  <1>6. QED BY <1>1, <1>2, <1>3, <1>4, <1>5

\* What a frame that is taken looks like.
LEMMA AllocateFacts ==
    ASSUME NEW mem \in Memories
    PROVE  /\ mem.free = << >> =>
                /\ allocate_frame(mem) = [mem EXCEPT !.panic = TRUE]
                /\ TakeFrame(mem) = [mem EXCEPT !.panic = TRUE]
           /\ mem.free # << >> =>
                /\ Head(mem.free) \in Frames
                /\ LET t == allocate_frame(mem) IN
                   /\ t \in Memories /\ t.panic = mem.panic /\ t.word = mem.word
                   /\ t.free = Tail(mem.free) /\ Len(t.free) = Len(mem.free) - 1
                   /\ t.refs[Head(mem.free)] = 0
                   /\ \A g \in Frames \ {Head(mem.free)} : t.refs[g] = mem.refs[g]
                /\ LET t == TakeFrame(mem) IN
                   /\ t \in Memories /\ t.panic = mem.panic
                   /\ t.free = Tail(mem.free) /\ Len(t.free) = Len(mem.free) - 1
                   /\ t.refs[Head(mem.free)] = 1
                   /\ \A i \in 0 .. W - 1 : t.word[Head(mem.free)][i] = Zero
                   /\ \A g \in Frames \ {Head(mem.free)} :
                        t.word[g] = mem.word[g] /\ t.refs[g] = mem.refs[g]
  <1>1. CASE mem.free = << >>
    BY <1>1 DEF allocate_frame, TakeFrame
  <1>2. CASE mem.free # << >>
    <2> DEFINE f == Head(mem.free)
               a == allocate_frame(mem)
               b == SetRefs(a, f, 1)
    <2>1. mem.free \in Seq(Frames)
      BY DEF Memories
    <2>2. f \in Frames /\ Tail(mem.free) \in Seq(Frames) /\ Len(Tail(mem.free)) = Len(mem.free) - 1
      BY <1>2, <2>1, HeadElements
    <2>3. a = [mem EXCEPT !.free = Tail(@), !.refs[f] = 0]
      BY <1>2 DEF allocate_frame
    <2>4. a = SetRefs(SetFree(mem, Tail(mem.free)), f, 0)
      BY <2>3 DEF SetRefs, SetFree
    <2> DEFINE c == SetFree(mem, Tail(mem.free))
    <2>5. c \in Memories /\ c.word = mem.word /\ c.panic = mem.panic /\ c.free = Tail(mem.free)
          /\ c.refs = mem.refs
      BY <2>2, FreeListFacts
    <2> HIDE DEF c, a, f
    <2>6. /\ a \in Memories /\ a.word = c.word /\ a.panic = c.panic /\ a.free = c.free
          /\ f \in Frames => a.refs[f] = 0
          /\ \A g \in Frames \ {f} : a.refs[g] = c.refs[g]
      BY <2>4, <2>5, CountFacts DEF c, f
    <2>7. /\ b \in Memories /\ b.word = a.word /\ b.panic = a.panic /\ b.free = a.free
          /\ f \in Frames => b.refs[f] = 1
          /\ \A g \in Frames \ {f} : b.refs[g] = a.refs[g]
      BY <2>6, CountFacts
    <2>8. TakeFrame(mem) = ClearFrame(b, f)
      BY <1>2 DEF TakeFrame, SetRefs, a, f
    <2> HIDE DEF b
    <2> DEFINE t == ClearFrame(b, f)
    <2>9. /\ t \in Memories /\ t.refs = b.refs /\ t.free = b.free /\ t.panic = b.panic
          /\ f \in Frames => \A i \in 0 .. W - 1 : t.word[f][i] = Zero
          /\ \A g \in Frames \ {f} : t.word[g] = b.word[g]
      BY <2>7, ClearFacts
    <2> HIDE DEF t
    <2>10. /\ a \in Memories /\ a.panic = mem.panic /\ a.word = mem.word
           /\ a.free = Tail(mem.free) /\ Len(a.free) = Len(mem.free) - 1
           /\ a.refs[f] = 0
           /\ \A g \in Frames \ {f} : a.refs[g] = mem.refs[g]
      BY <2>2, <2>5, <2>6 DEF f
    <2>11. /\ t \in Memories /\ t.panic = mem.panic
           /\ t.free = Tail(mem.free) /\ Len(t.free) = Len(mem.free) - 1
           /\ t.refs[f] = 1
           /\ \A i \in 0 .. W - 1 : t.word[f][i] = Zero
           /\ \A g \in Frames \ {f} : t.word[g] = mem.word[g] /\ t.refs[g] = mem.refs[g]
      BY <2>2, <2>7, <2>9, <2>10 DEF f
    <2>12. TakeFrame(mem) = t
      BY <2>8 DEF t
    <2>13. QED BY <1>2, <2>2, <2>10, <2>11, <2>12 DEF a, f
  <1>3. QED BY <1>1, <1>2

\* A handler that panics with nothing changed.
LEMMA Panicked ==
    ASSUME NEW s, NEW t, NEW O, NEW b \in BOOLEAN,
           Good(s, O), t = WithMem(s, [s.m EXCEPT !.panic = b])
    PROVE  /\ Step(s, t, O, {}) /\ t.e = s.e /\ t.m.panic = b
           /\ t.m.free = s.m.free /\ t.m.word = s.m.word /\ t.m.refs = s.m.refs /\ SameMap(s, t)
  <1> DEFINE n == [s.m EXCEPT !.panic = b]
  <1>1. s.m \in Memories /\ s.e \in Environments /\ Typed(s)
    BY OwnFacts DEF Good
  <1>2. n \in Memories /\ n.word = s.m.word /\ n.panic = b /\ n.free = s.m.free /\ n.refs = s.m.refs
    BY <1>1, PanicFacts
  <1> HIDE DEF n
  <1>3. t.m = n /\ t.e = s.e /\ Typed(t)
    BY <1>1, <1>2, WithMemFacts DEF n
  <1>4. SameMap(s, t)
    BY <1>2, <1>3, SameMapFacts
  <1>5. FreeApart(t, O)
    BY <1>2, <1>3 DEF FreeApart, Good
  <1>6. \A k \in Kinds, i \in Index : At(s, k, i) # 0 =>
          At(s, k, i) \notin O \cup ToSet(t.m.free) /\ t.m.refs[At(s, k, i)] = 1
    BY <1>2, <1>3 DEF Good, OwnApart
  <1>7. Good(t, O)
    BY <1>3, <1>4, <1>5, <1>6, GoodSame
  <1>8. QED BY <1>2, <1>3, <1>4, <1>7 DEF Step, Spares, SameHalf, SameMap

\* A table for the page v, unless there is one.
LEMMA TableMade ==
    ASSUME NEW s, NEW t, NEW O, NEW v \in VPages,
           Good(s, O), s.e.dir # 0, O \subseteq Frames, ~s.m.panic,
           t = WithMem(s, __static_cpt(s.m, s.e.dir, v)), TableEntry(s, PDX(v)) = Zero
    PROVE  /\ Step(s, t, O, {}) /\ t.e = s.e
           /\ t.m.panic <=> s.m.free = << >>
           /\ t.m.panic => SameMap(s, t) /\ t.m.free = s.m.free
           /\ ~t.m.panic => TableEntry(t, PDX(v)) # Zero /\ Len(t.m.free) = Len(s.m.free) - 1
           /\ \A j \in UserDirs : j # PDX(v) => TableEntry(t, j) = TableEntry(s, j)
  <1> DEFINE f == Head(s.m.free)
             a == TakeFrame(s.m)
             n == Put(a, s.e.dir, PDX(v), Present(f))
             ta == WithMem(s, a)
  <1>1. s.m \in Memories /\ s.e \in Environments /\ Typed(s) /\ PDX(v) \in UserDirs
    BY OwnFacts, PagePlace DEF Good
  <1>2. CASE s.m.free = << >>
    <2>1. a = [s.m EXCEPT !.panic = TRUE]
      BY <1>1, <1>2, AllocateFacts
    <2>2. a.panic = TRUE
      BY <1>1, <2>1, PanicFacts
    <2>3. t = WithMem(s, [s.m EXCEPT !.panic = TRUE])
      BY <2>1, <2>2 DEF __static_cpt
    <2>4. /\ Step(s, t, O, {}) /\ t.e = s.e /\ t.m.panic = TRUE
          /\ t.m.free = s.m.free /\ SameMap(s, t)
      BY <2>3, Panicked
    <2>5. QED BY <1>2, <2>4 DEF SameMap
  <1>3. CASE s.m.free # << >>
    <2>1. /\ a \in Memories /\ a.panic = s.m.panic /\ f \in Frames
          /\ a.free = Tail(s.m.free) /\ Len(a.free) = Len(s.m.free) - 1
          /\ a.refs[f] = 1
          /\ \A i \in 0 .. W - 1 : a.word[f][i] = Zero
          /\ \A g \in Frames \ {f} : a.word[g] = s.m.word[g] /\ a.refs[g] = s.m.refs[g]
      BY <1>1, <1>3, AllocateFacts
    <2>2. t = WithMem(s, n)
      BY <2>1 DEF __static_cpt
    <2>3. ta.m = a /\ ta.e = s.e /\ Typed(ta)
      BY <1>1, <2>1, WithMemFacts
    <2> HIDE DEF a, f, ta
    <2>4. /\ f \in Frames \ {0} /\ f \notin O /\ f \notin ToSet(ta.m.free)
          /\ Good(ta, O \cup {f})
          /\ SameMap(s, ta) /\ Spares(ta.m, s.m, O) /\ SameHalf(s, ta)
      <3>1. Takes(s, ta)
        BY <1>3, <2>1, <2>3 DEF Takes, f
      <3>2. QED BY <2>1, <3>1, FrameTaken DEF f, Alike
    <2>5. Present(f) \in Words
      BY <2>4, Layout DEF Present, Words
    <2>6. n \in Memories /\ n.refs = a.refs /\ n.free = a.free /\ n.panic = a.panic
      BY <2>1, <2>5, PutFacts
    <2>7. t.m = n /\ t.e = s.e /\ Typed(t)
      BY <1>1, <2>2, <2>6, WithMemFacts
    <2>8. WritesTable(ta, t, PDX(v), Present(f))
      BY <2>3, <2>7 DEF WritesTable
    <2> HIDE DEF n
    <2>9. TableEntry(ta, PDX(v)) = Zero
      BY <1>1, <2>4 DEF SameMap
    <2>10. Good(t, O) /\ Tabled(ta, t, O, PDX(v), f)
      <3>1. t.e = ta.e /\ t.m.free = ta.m.free /\ t.m.refs = ta.m.refs /\ ta.m.refs[f] = 1
        BY <2>1, <2>3, <2>6, <2>7
      <3>2. \A j \in 0 .. W - 1 : ta.m.word[f][j] = Zero
        BY <2>1, <2>3
      <3>3. PlacesTable(ta, t, PDX(v), f)
        BY <2>7, <2>8, <3>1, <3>2 DEF PlacesTable
      <3>4. QED BY <1>1, <2>4, <2>9, <3>3, TablePlaced
    <2>11. Spares(t.m, s.m, O) /\ SameHalf(s, t)
      BY <2>3, <2>4, <2>10 DEF Spares, SameHalf, Tabled
    <2>12. Present(f) # Zero
      BY DEF Present, Zero
    <2>13. Step(s, t, O, {})
      BY <2>4, <2>7, <2>10, <2>11 DEF Step, SameMap, Tabled
    <2>14. QED BY <1>3, <2>1, <2>4, <2>6, <2>7, <2>10, <2>12, <2>13 DEF SameMap, Tabled
  <1>4. QED BY <1>2, <1>3

\* map_frame's and loadtime_map_frame's table: found, made, or a panic for
\* want of a frame.
LEMMA TableThere ==
    ASSUME NEW s, NEW t, NEW O, NEW v \in VPages,
           Good(s, O), s.e.dir # 0, O \subseteq Frames, ~s.m.panic,
           t = WithMem(s, WithTable(s.m, s.e.dir, v))
    PROVE  /\ Step(s, t, O, {}) /\ t.e = s.e
           /\ t.m.panic <=> TableEntry(s, PDX(v)) = Zero /\ s.m.free = << >>
           /\ t.m.panic => SameMap(s, t) /\ t.m.free = s.m.free
           /\ ~t.m.panic => TableEntry(t, PDX(v)) # Zero
           /\ ~t.m.panic => Len(t.m.free) = IF TableEntry(s, PDX(v)) = Zero THEN Len(s.m.free) - 1
                                            ELSE Len(s.m.free)
           /\ \A j \in UserDirs : j # PDX(v) => TableEntry(t, j) = TableEntry(s, j)
  <1>1. HasTable(s.m, s.e.dir, v) <=> TableEntry(s, PDX(v)) # Zero
    BY Looked
  <1>2. CASE TableEntry(s, PDX(v)) # Zero
    <2>1. t = WithMem(s, s.m) /\ s.m \in Memories /\ Typed(s) /\ s.e \in Environments
      BY <1>1, <1>2, OwnFacts DEF WithTable, Good
    <2>2. t = s
      BY <2>1 DEF WithMem, Typed
    <2>3. QED BY <1>2, <2>2, StepSame
  <1>3. CASE TableEntry(s, PDX(v)) = Zero
    <2>1. t = WithMem(s, __static_cpt(s.m, s.e.dir, v))
      BY <1>1, <1>3 DEF WithTable
    <2>2. QED BY <1>3, <2>1, TableMade
  <1>4. QED BY <1>2, <1>3

\* What is written depends on the contents only.
LEMMA PutWord ==
    ASSUME NEW mem \in Memories, NEW old \in Memories, NEW f, NEW i, NEW x, mem.word = old.word
    PROVE  Put(mem, f, i, x).word = Put(old, f, i, x).word
  <1>1. /\ Put(mem, f, i, x) = [word |-> [mem.word EXCEPT ![f][i] = x], refs |-> mem.refs,
                                free |-> mem.free, panic |-> mem.panic]
        /\ Put(old, f, i, x) = [word |-> [old.word EXCEPT ![f][i] = x], refs |-> old.refs,
                                free |-> old.free, panic |-> old.panic]
    BY MemoryRecord DEF Put
  <1>2. QED BY <1>1

\* SetPTE writes the entry of the page.
LEMMA SetPTEFacts ==
    ASSUME NEW s, NEW O, NEW v \in VPages, NEW mem \in Memories, NEW x \in Words,
           Good(s, O), s.e.dir # 0, TableEntry(s, PDX(v)) # Zero, mem.word = s.m.word
    PROVE  LET n == SetPTE(mem, s.e.dir, v, x)
               t == WithMem(s, n)
           IN /\ n \in Memories /\ n.refs = mem.refs /\ n.free = mem.free /\ n.panic = mem.panic
              /\ t.m = n /\ t.e = s.e /\ Typed(t) /\ Writes(s, t, v, x)
  <1> DEFINE n == SetPTE(mem, s.e.dir, v, x)
             t == WithMem(s, n)
             b == TableEntry(s, PDX(v)).pa
  <1>1. s.m \in Memories /\ Typed(s)
    BY OwnFacts DEF Good
  <1>2. mem.word[s.e.dir][PDX(v)].pa = b
    BY Looked
  <1>3. n = Put(mem, b, PTX(v), x)
    BY <1>2 DEF SetPTE
  <1>4. n \in Memories /\ n.refs = mem.refs /\ n.free = mem.free /\ n.panic = mem.panic
    BY <1>3, PutFacts
  <1>5. n.word = Put(s.m, b, PTX(v), x).word
    BY <1>1, <1>3, PutWord
  <1> HIDE DEF n
  <1>6. t.m = n /\ t.e = s.e /\ Typed(t)
    BY <1>1, <1>4, WithMemFacts
  <1>7. Writes(s, t, v, x)
    BY <1>5, <1>6 DEF Writes
  <1>8. QED BY <1>4, <1>6, <1>7 DEF n

\* The frame f, taken before, is mapped.
MappedTo(s, t, O, f, v) ==
    /\ Step(s, t, O, {v}) /\ t.e = s.e /\ Entry(t, v) = Present(f)
    /\ \A j \in UserDirs : TableEntry(t, j) = TableEntry(s, j)
    /\ t.m.free = s.m.free /\ t.m.panic = s.m.panic

\* The entry written by MapOver, once its old page is gone.
LEMMA MappedOver ==
    ASSUME NEW s, NEW t, NEW O, NEW f \in Frames \ {0}, NEW v \in VPages,
           Good(s, O \cup {f}), f \notin O, O \subseteq Frames, s.e.dir # 0, s.m.refs[f] = 0,
           TableEntry(s, PDX(v)) # Zero, t = WithMem(s, MapOver(s.m, s.e.dir, f, v))
    PROVE  MappedTo(s, t, O, f, v)
  <1> DEFINE c == SetRefs(s.m, f, 1)
             n == SetPTE(c, s.e.dir, v, Present(f))
  <1>1. s.m \in Memories /\ Present(f) \in Words /\ f \notin ToSet(s.m.free)
    BY OwnFacts, Layout DEF Present, Words, Good, FreeApart
  <1>2. MapOver(s.m, s.e.dir, f, v) = n
    <2>1. s.m.refs[f] + 1 = 1
      OBVIOUS
    <2>2. QED BY <2>1 DEF MapOver, SetRefs
  <1>3. /\ c \in Memories /\ c.word = s.m.word /\ c.panic = s.m.panic /\ c.free = s.m.free
        /\ c.refs[f] = 1
        /\ \A g \in Frames \ {f} : c.refs[g] = s.m.refs[g]
    BY <1>1, CountFacts
  <1>4. t = WithMem(s, n)
    BY <1>2
  <1> HIDE DEF c
  <1>5. /\ n.refs = c.refs /\ n.free = c.free /\ n.panic = c.panic
        /\ t.m = n /\ t.e = s.e /\ Typed(t) /\ Writes(s, t, v, Present(f))
    BY <1>1, <1>3, <1>4, SetPTEFacts
  <1> HIDE DEF n
  <1>6. Places(s, t, v, f)
    BY <1>3, <1>5 DEF Places
  <1>7. Good(t, O) /\ Remapped(s, t, O, v, Present(f))
    BY <1>6, PagePlaced
  <1>8. QED BY <1>3, <1>5, <1>7 DEF Step, Remapped, MappedTo

\* A page is unmapped: its frame goes to the free list.
Unmapped(s, t, O, v) ==
    /\ Step(s, t, O, {v}) /\ t.e = s.e /\ Entry(t, v) = Zero
    /\ \A j \in UserDirs : TableEntry(t, j) = TableEntry(s, j)
    /\ t.m.panic = s.m.panic

\* unmap_frame: the page's frame is freed, its entry is zero.
LEMMA PageUnmapped ==
    ASSUME NEW s, NEW t, NEW O, NEW v \in VPages,
           Good(s, O), O \subseteq Frames, s.e.dir # 0, t = WithMem(s, unmap_frame(s.m, s.e.dir, v))
    PROVE  Unmapped(s, t, O, v)
  <1> DEFINE f == Entry(s, v).pa
  <1>1. s.m \in Memories /\ s.e \in Environments /\ Typed(s) /\ get_frame_info(s.m, s.e.dir, v) = f
    BY OwnFacts, Looked DEF Good
  <1>2. CASE f = 0
    <2>1. t = WithMem(s, s.m)
      BY <1>1, <1>2 DEF unmap_frame
    <2>2. t = s
      BY <1>1, <2>1 DEF WithMem, Typed
    <2>3. Entry(s, v) = Zero
      BY <1>2, Looked
    <2>4. QED BY <2>2, <2>3, StepSame, StepMore DEF Unmapped
  <1>3. CASE f # 0
    <2> DEFINE d == decrement_references(s.m, f)
               n == SetPTE(d, s.e.dir, v, Zero)
               k == SetPTE(s.m, s.e.dir, v, Zero)
               u == WithMem(s, k)
    <2>1. /\ f \in Frames \ {0} /\ f \notin O /\ f \notin ToSet(s.m.free) /\ s.m.refs[f] = 1
          /\ TableEntry(s, PDX(v)) # Zero /\ Zero \in Words
      BY <1>3, OwnFacts DEF Zero, Words
    <2>2. t = WithMem(s, n)
      BY <1>1, <1>3 DEF unmap_frame
    <2>3. d = Listed(s.m, f, <<f>> \o s.m.free)
      BY <2>1 DEF decrement_references, free_frame, Listed
    <2>4. <<f>> \o s.m.free \in Seq(Frames)
      <3>1. s.m.free \in Seq(Frames)
        BY <1>1 DEF Memories
      <3>2. QED BY <2>1, <3>1, ConsShape DEF Cons
    <2> HIDE DEF f
    <2>6. /\ d \in Memories /\ d.word = s.m.word /\ d.panic = s.m.panic /\ d.free = <<f>> \o s.m.free
          /\ d.refs[f] = 0
          /\ \A g \in Frames \ {f} : d.refs[g] = s.m.refs[g]
      <3> DEFINE q == <<f>> \o s.m.free
                 y == Listed(s.m, f, q)
      <3>1. q \in Seq(Frames) /\ d = y
        BY <2>3, <2>4
      <3> HIDE DEF q, d
      <3>2. /\ y \in Memories /\ y.word = s.m.word /\ y.panic = s.m.panic /\ y.free = q
            /\ f \in Frames => y.refs[f] = 0
            /\ \A g \in Frames \ {f} : y.refs[g] = s.m.refs[g]
        BY <1>1, <3>1, ListedFacts
      <3> HIDE DEF y
      <3>3. QED BY <2>1, <3>1, <3>2 DEF q
    <2> HIDE DEF d
    <2>7. /\ n.refs = d.refs /\ n.free = d.free /\ n.panic = d.panic
          /\ t.m = n /\ t.e = s.e /\ Typed(t) /\ Writes(s, t, v, Zero)
      BY <2>1, <2>2, <2>6, SetPTEFacts
    <2>8. /\ k.refs = s.m.refs /\ k.free = s.m.free /\ k.panic = s.m.panic
          /\ u.m = k /\ u.e = s.e /\ Typed(u) /\ Writes(s, u, v, Zero)
      BY <1>1, <2>1, SetPTEFacts
    <2> HIDE DEF n, k, u
    <2>9. Rewritten(s, u, v, Zero)
      BY <2>8 DEF Rewritten
    <2>10. Good(u, O \cup {f}) /\ Remapped(s, u, O, v, Zero)
      BY <2>9, PageDropped DEF f
    <2>11. Frees(u, t, f)
      BY <2>1, <2>6, <2>7, <2>8 DEF Frees, Writes
    <2>12. Good(t, O) /\ Alike(u, t, O)
      BY <2>1, <2>10, <2>11, FrameFreed
    <2>13. Spares(t.m, s.m, O) /\ SameHalf(s, t)
      BY <2>8, <2>10, <2>12 DEF Spares, SameHalf, Alike, Remapped
    <2>14. QED BY <2>6, <2>7, <2>8, <2>10, <2>12, <2>13 DEF Unmapped, Step, SameMap, Alike, Remapped
  <1>4. QED BY <1>2, <1>3

\* The PRESENT bit of a page that is mapped.
PresentIs(s, t, O, v, p) ==
    /\ Step(s, t, O, {v}) /\ t.e = s.e
    /\ Entry(t, v).pa = Entry(s, v).pa /\ Entry(t, v).p = p /\ Entry(t, v) # Zero
    /\ \A j \in UserDirs : TableEntry(t, j) = TableEntry(s, j)
    /\ t.m.panic = s.m.panic /\ t.m.free = s.m.free

\* pt_set_page_permissions changes the bit and nothing else.
LEMMA PresentSet ==
    ASSUME NEW s, NEW t, NEW O, NEW v \in VPages, NEW p \in BOOLEAN,
           Good(s, O), O \subseteq Frames, Entry(s, v) # Zero,
           t = WithMem(s, SetPresent(s.m, s.e.dir, v, p))
    PROVE  PresentIs(s, t, O, v, p)
  <1> DEFINE x == [Entry(s, v) EXCEPT !.p = p]
             n == SetPTE(s.m, s.e.dir, v, x)
  <1>1. /\ s.m \in Memories /\ s.e.dir # 0 /\ TableEntry(s, PDX(v)) # Zero
        /\ Entry(s, v) \in Words /\ Entry(s, v).pa # 0
    BY OwnFacts
  <1>2. x \in Words /\ x.pa = Entry(s, v).pa /\ x.p = p /\ x # Zero
    BY <1>1 DEF Words, Zero
  <1>3. HasTable(s.m, s.e.dir, v) /\ PTE(s.m, s.e.dir, v) = Entry(s, v)
    BY <1>1, Looked
  <1>4. t = WithMem(s, n)
    BY <1>3 DEF SetPresent
  <1> HIDE DEF x
  <1>5. /\ n.refs = s.m.refs /\ n.free = s.m.free /\ n.panic = s.m.panic
        /\ t.m = n /\ t.e = s.e /\ Typed(t) /\ Writes(s, t, v, x)
    BY <1>1, <1>2, <1>4, SetPTEFacts
  <1> HIDE DEF n
  <1>6. t.m.free = s.m.free /\ t.m.refs = s.m.refs /\ t.m.panic = s.m.panic
    BY <1>5
  <1>7. Rewritten(s, t, v, x)
    BY <1>5, <1>6 DEF Rewritten
  <1>8. Good(t, O) /\ Remapped(s, t, O, v, x)
    BY <1>2, <1>7, PageKept
  <1>9. QED BY <1>2, <1>5, <1>6, <1>8 DEF Step, Remapped, PresentIs

\* What MapNew does to the page v, and how many frames that takes.
Needs(s, v) == IF TableEntry(s, PDX(v)) = Zero THEN 2 ELSE 1
NewlyMapped(s, t, O, v) ==
    /\ Step(s, t, O, {v}) /\ t.e = s.e
    /\ \A j \in UserDirs : j # PDX(v) => TableEntry(t, j) = TableEntry(s, j)
    /\ t.m.panic => \A u \in VPages : Entry(t, u) = Entry(s, u)
    /\ ~t.m.panic => Entry(t, v).p /\ Entry(t, v) # Zero
    /\ Entry(s, v) = Zero =>
         /\ t.m.panic <=> Len(s.m.free) < Needs(s, v)
         /\ ~t.m.panic => Len(t.m.free) = Len(s.m.free) - Needs(s, v)

\* A frame for data: nobody's, with no count.
LEMMA DataFrame ==
    ASSUME NEW s, NEW t, NEW O, Good(s, O), O \subseteq Frames, s.m.free # << >>,
           t = WithMem(s, ClearFrame(allocate_frame(s.m), Head(s.m.free)))
    PROVE  /\ Head(s.m.free) \in Frames \ {0} /\ Head(s.m.free) \notin O
           /\ Good(t, O \cup {Head(s.m.free)}) /\ Alike(s, t, O)
           /\ t.m.refs[Head(s.m.free)] = 0 /\ t.e = s.e /\ t.m.panic = s.m.panic
           /\ t.m.free \in Seq(Frames) /\ Len(t.m.free) = Len(s.m.free) - 1
           /\ Len(s.m.free) \in Nat
  <1> DEFINE f == Head(s.m.free)
             a == allocate_frame(s.m)
             n == ClearFrame(a, f)
  <1>1. s.m \in Memories /\ Typed(s) /\ s.m.free \in Seq(Frames)
    BY OwnFacts DEF Good, Memories
  <1>2. /\ f \in Frames
        /\ a \in Memories /\ a.panic = s.m.panic /\ a.word = s.m.word
        /\ a.free = Tail(s.m.free) /\ Len(a.free) = Len(s.m.free) - 1
        /\ a.refs[f] = 0
        /\ \A g \in Frames \ {f} : a.refs[g] = s.m.refs[g]
    BY <1>1, AllocateFacts
  <1> HIDE DEF a
  <1>3. /\ n \in Memories /\ n.refs = a.refs /\ n.free = a.free /\ n.panic = a.panic
        /\ \A g \in Frames \ {f} : n.word[g] = a.word[g]
    BY <1>2, ClearFacts
  <1>4. t = WithMem(s, n)
    BY DEF a
  <1> HIDE DEF n
  <1>5. t.m = n /\ t.e = s.e /\ Typed(t)
    BY <1>1, <1>3, <1>4, WithMemFacts
  <1>6. Takes(s, t)
    BY <1>2, <1>3, <1>5 DEF Takes
  <1>7. f \in Frames \ {0} /\ f \notin O /\ Good(t, O \cup {f}) /\ Alike(s, t, O)
    BY <1>6, FrameTaken
  <1>8. t.m.free \in Seq(Frames) /\ Len(s.m.free) \in Nat
    BY <1>1, <1>3, <1>5, LenProperties DEF Memories
  <1>9. QED BY <1>2, <1>3, <1>5, <1>7, <1>8

\* What mapping the frame f at the page v does.
Mapped(s, t, O, f, v) ==
    /\ Step(s, t, O, {v}) /\ t.e = s.e
    /\ \A j \in UserDirs : j # PDX(v) => TableEntry(t, j) = TableEntry(s, j)
    /\ t.m.panic <=> TableEntry(s, PDX(v)) = Zero /\ s.m.free = << >>
    /\ t.m.panic => \A u \in VPages : Entry(t, u) = Entry(s, u)
    /\ ~t.m.panic => Entry(t, v) = Present(f)
    /\ Entry(s, v) = Zero /\ ~t.m.panic =>
         Len(t.m.free) = IF TableEntry(s, PDX(v)) = Zero THEN Len(s.m.free) - 1 ELSE Len(s.m.free)

\* The frame can be mapped.
Mappable(s, O, f) ==
    /\ Good(s, O \cup {f}) /\ f \in Frames \ {0} /\ f \notin O /\ O \subseteq Frames
    /\ s.e.dir # 0 /\ s.m.refs[f] = 0 /\ ~s.m.panic

TableReady(s, t, O, f, v) ==
    /\ Step(s, t, O \cup {f}, {}) /\ t.e = s.e
    /\ ~t.m.panic => Mappable(t, O, f) /\ TableEntry(t, PDX(v)) # Zero
    /\ t.m.panic <=> TableEntry(s, PDX(v)) = Zero /\ s.m.free = << >>
    /\ ~t.m.panic => Len(t.m.free) = IF TableEntry(s, PDX(v)) = Zero THEN Len(s.m.free) - 1
                                     ELSE Len(s.m.free)
    /\ \A j \in UserDirs : j # PDX(v) => TableEntry(t, j) = TableEntry(s, j)
    /\ \A u \in VPages : Entry(t, u) = Entry(s, u)

\* The table for a frame that is about to be mapped.
LEMMA TableForFrame ==
    ASSUME NEW s, NEW t, NEW O, NEW f, NEW v \in VPages,
           Mappable(s, O, f), t = WithMem(s, WithTable(s.m, s.e.dir, v))
    PROVE  TableReady(s, t, O, f, v)
  <1> DEFINE P == O \cup {f}
  <1>1. P \subseteq Frames /\ Good(s, P) /\ s.e.dir # 0 /\ ~s.m.panic
    BY DEF Mappable
  <1> HIDE DEF P
  <1>2. /\ Step(s, t, P, {}) /\ t.e = s.e
        /\ t.m.panic <=> TableEntry(s, PDX(v)) = Zero /\ s.m.free = << >>
        /\ ~t.m.panic => TableEntry(t, PDX(v)) # Zero
        /\ ~t.m.panic => Len(t.m.free) = IF TableEntry(s, PDX(v)) = Zero THEN Len(s.m.free) - 1
                                         ELSE Len(s.m.free)
        /\ \A j \in UserDirs : j # PDX(v) => TableEntry(t, j) = TableEntry(s, j)
    BY <1>1, TableThere
  <1>3. \A u \in VPages : Entry(t, u) = Entry(s, u)
    BY <1>2 DEF Step
  <1>4. ~t.m.panic => Mappable(t, O, f)
    BY <1>2 DEF Mappable, Step, Spares, P
  <1>5. QED BY <1>2, <1>3, <1>4 DEF P, TableReady

\* loadtime_map_frame maps a frame that is nobody's.
LEMMA LoadMaps ==
    ASSUME NEW s, NEW t, NEW O, NEW f, NEW v \in VPages,
           Mappable(s, O, f), t = WithMem(s, loadtime_map_frame(s.m, s.e.dir, f, v))
    PROVE  Mapped(s, t, O, f, v)
  <1> DEFINE a == WithTable(s.m, s.e.dir, v)
             u == WithMem(s, a)
  <1>1. Typed(s) /\ s.m \in Memories
    BY OwnFacts DEF Mappable, Good
  <1>2. u.m = a /\ u.e = s.e
    BY <1>1 DEF WithMem, Typed
  <1>0. TableReady(s, u, O, f, v)
    BY TableForFrame
  <1>3. /\ Step(s, u, O \cup {f}, {})
        /\ ~u.m.panic => Mappable(u, O, f) /\ TableEntry(u, PDX(v)) # Zero
        /\ u.m.panic <=> TableEntry(s, PDX(v)) = Zero /\ s.m.free = << >>
        /\ ~u.m.panic => Len(u.m.free) = IF TableEntry(s, PDX(v)) = Zero THEN Len(s.m.free) - 1
                                         ELSE Len(s.m.free)
        /\ \A j \in UserDirs : j # PDX(v) => TableEntry(u, j) = TableEntry(s, j)
        /\ \A y \in VPages : Entry(u, y) = Entry(s, y)
    BY <1>0 DEF TableReady
  <1>4. t = IF u.m.panic THEN u ELSE WithMem(u, MapOver(u.m, u.e.dir, f, v))
    BY <1>1, <1>2 DEF loadtime_map_frame, WithMem, Typed
  <1> HIDE DEF u
  <1>5. Step(s, u, O, {})
    BY <1>3, StepLess
  <1>6. CASE u.m.panic
    BY <1>2, <1>3, <1>4, <1>5, <1>6, StepMore DEF Mapped
  <1>7. CASE ~u.m.panic
    <2>0. MappedTo(u, t, O, f, v)
      BY <1>3, <1>4, <1>7, MappedOver DEF Mappable
    <2>1. /\ Step(u, t, O, {v}) /\ t.e = u.e /\ Entry(t, v) = Present(f)
          /\ \A j \in UserDirs : TableEntry(t, j) = TableEntry(u, j)
          /\ t.m.free = u.m.free /\ t.m.panic = u.m.panic
      BY <2>0 DEF MappedTo
    <2>2. Step(s, t, O, {v})
      BY <1>5, <2>1, StepThen
    <2>3. QED BY <1>2, <1>3, <1>7, <2>1, <2>2 DEF Mapped
  <1>8. QED BY <1>6, <1>7

\* map_frame maps a frame that is nobody's, and frees what it replaces.
LEMMA FrameMaps ==
    ASSUME NEW s, NEW t, NEW O, NEW f, NEW v \in VPages,
           Mappable(s, O, f), t = WithMem(s, map_frame(s.m, s.e.dir, f, v))
    PROVE  Mapped(s, t, O, f, v)
  <1> DEFINE a == WithTable(s.m, s.e.dir, v)
             u == WithMem(s, a)
             e == PTE(u.m, u.e.dir, v)
             b == unmap_frame(u.m, u.e.dir, v)
             w == WithMem(u, b)
  <1>1. Typed(s) /\ s.m \in Memories
    BY OwnFacts DEF Mappable, Good
  <1>2. /\ u.m = a /\ u.e = s.e /\ IsPair(s) /\ IsPair(u) /\ IsPair(w) /\ w.m = b /\ w.e = u.e
        /\ \A x : WithMem(u, x) = WithMem(s, x) /\ WithMem(w, x) = WithMem(s, x)
    BY <1>1, TypedIsPair, PairFacts
  <1>0. TableReady(s, u, O, f, v)
    BY TableForFrame
  <1>3. /\ Step(s, u, O \cup {f}, {})
        /\ ~u.m.panic => Mappable(u, O, f) /\ TableEntry(u, PDX(v)) # Zero
        /\ u.m.panic <=> TableEntry(s, PDX(v)) = Zero /\ s.m.free = << >>
        /\ ~u.m.panic => Len(u.m.free) = IF TableEntry(s, PDX(v)) = Zero THEN Len(s.m.free) - 1
                                         ELSE Len(s.m.free)
        /\ \A j \in UserDirs : j # PDX(v) => TableEntry(u, j) = TableEntry(s, j)
        /\ \A y \in VPages : Entry(u, y) = Entry(s, y)
    BY <1>0 DEF TableReady
  <1>4. map_frame(s.m, s.e.dir, f, v) =
          IF u.m.panic \/ (e.p /\ e.pa = f) THEN u.m
          ELSE MapOver(IF e.p THEN b ELSE u.m, u.e.dir, f, v)
    BY <1>2 DEF map_frame
  <1>6. Step(s, u, O, {})
    BY <1>3, StepLess
  <1>7. CASE u.m.panic
    <2>1. t = WithMem(s, u.m)
      BY <1>4, <1>7
    <2>2. t = u
      BY <1>2, <2>1, PairFacts
    <2> HIDE DEF u
    <2>3. QED BY <1>2, <1>3, <1>6, <1>7, <2>2, StepMore DEF Mapped
  <1>8. CASE ~u.m.panic
    <2>1. Good(u, O \cup {f}) /\ u.e.dir # 0 /\ O \cup {f} \subseteq Frames /\ TableEntry(u, PDX(v)) # Zero
      BY <1>3, <1>8 DEF Mappable
    <2> HIDE DEF e, b, u
    <2>2. e = Entry(u, v) /\ (e # Zero => e.pa # f) /\ ~Zero.p
      <3>1. e = Entry(u, v)
        BY <2>1, Looked DEF e
      <3>2. Entry(u, v) # Zero => Entry(u, v).pa \notin O \cup {f}
        BY <2>1, OwnFacts
      <3>3. QED BY <3>1, <3>2 DEF Zero
    <2>3. ~(e.p /\ e.pa = f)
      BY <2>2
    <2>4. CASE e.p
      <3>1. t = WithMem(w, MapOver(w.m, w.e.dir, f, v))
        BY <1>2, <1>4, <1>8, <2>3, <2>4
      <3>2. /\ Step(u, w, O \cup {f}, {v}) /\ w.e = u.e
            /\ \A j \in UserDirs : TableEntry(w, j) = TableEntry(u, j)
            /\ w.m.panic = u.m.panic
        <4>1. Unmapped(u, w, O \cup {f}, v)
          BY <2>1, PageUnmapped DEF b
        <4>2. QED BY <4>1 DEF Unmapped
      <3> HIDE DEF w
      <3>3. Mappable(w, O, f) /\ TableEntry(w, PDX(v)) # Zero
        <4>1. PDX(v) \in UserDirs
          BY PagePlace
        <4>2. QED BY <1>3, <1>8, <3>2, <4>1 DEF Mappable, Step, Spares
      <3>4. /\ Step(w, t, O, {v}) /\ t.e = w.e /\ Entry(t, v) = Present(f)
            /\ \A j \in UserDirs : TableEntry(t, j) = TableEntry(w, j)
            /\ t.m.free = w.m.free /\ t.m.panic = w.m.panic
        <4>1. MappedTo(w, t, O, f, v)
          BY <3>1, <3>3, MappedOver DEF Mappable
        <4>2. QED BY <4>1 DEF MappedTo
      <3>5. Step(u, w, O, {v})
        BY <3>2, StepLess
      <3>6. Step(s, t, O, {v})
        <4>1. Step(s, w, O, {v})
          BY <1>6, <3>5, StepThen
        <4>2. Step(s, t, O, {v} \cup {v})
          BY <4>1, <3>4, StepThen
        <4>3. QED BY <4>2
      <3>7. Entry(s, v) # Zero
        BY <1>3, <2>2, <2>4
      <3>8. QED BY <1>2, <1>3, <1>8, <3>2, <3>4, <3>6, <3>7 DEF Mapped
    <2>5. CASE ~e.p
      <3>1. t = WithMem(u, MapOver(u.m, u.e.dir, f, v))
        BY <1>2, <1>4, <1>8, <2>3, <2>5
      <3>2. /\ Step(u, t, O, {v}) /\ t.e = u.e /\ Entry(t, v) = Present(f)
            /\ \A j \in UserDirs : TableEntry(t, j) = TableEntry(u, j)
            /\ t.m.free = u.m.free /\ t.m.panic = u.m.panic
        <4>1. MappedTo(u, t, O, f, v)
          BY <1>3, <1>8, <3>1, MappedOver DEF Mappable
        <4>2. QED BY <4>1 DEF MappedTo
      <3>3. Step(s, t, O, {v})
        BY <1>6, <3>2, StepThen
      <3>4. QED BY <1>2, <1>3, <1>8, <3>2, <3>3 DEF Mapped
    <2>6. QED BY <2>4, <2>5
  <1>9. QED BY <1>7, <1>8

\* MapNew, whichever way it maps.
MapsNew(s, t, v) ==
    \/ t = WithMem(s, MapNew(s.m, s.e.dir, v, loadtime_map_frame))
    \/ t = WithMem(s, MapNew(s.m, s.e.dir, v, map_frame))

\* allocate_frame and then either way of mapping.
LEMMA NewMapping ==
    ASSUME NEW s, NEW t, NEW O, NEW v \in VPages,
           Good(s, O), O \subseteq Frames, s.e.dir # 0, ~s.m.panic, MapsNew(s, t, v)
    PROVE  NewlyMapped(s, t, O, v)
  <1> DEFINE f == Head(s.m.free)
             a == allocate_frame(s.m)
             c == ClearFrame(a, f)
             u == WithMem(s, c)
  <1>1. Typed(s) /\ s.m \in Memories /\ s.m.free \in Seq(Frames)
    BY OwnFacts DEF Good, Memories
  <1>2. s = [m |-> s.m, e |-> s.e] /\ u.m = c /\ u.e = s.e
    BY <1>1 DEF WithMem, Typed
  <1>3. CASE s.m.free = << >>
    <2>1. a = [s.m EXCEPT !.panic = TRUE]
      BY <1>1, <1>3, AllocateFacts
    <2>2. a.panic
      BY <1>1, <2>1, PanicFacts
    <2>3. t = WithMem(s, a)
      BY <2>2 DEF MapsNew, MapNew
    <2>4. /\ Step(s, t, O, {}) /\ t.e = s.e /\ t.m.panic = TRUE /\ SameMap(s, t)
      BY <2>1, <2>3, Panicked
    <2>5. Len(s.m.free) < Needs(s, v)
      BY <1>3 DEF Needs
    <2>6. QED BY <2>4, <2>5, StepMore DEF NewlyMapped, SameMap
  <1>4. CASE s.m.free # << >>
    <2>1. /\ f \in Frames \ {0} /\ f \notin O
          /\ Good(u, O \cup {f}) /\ Alike(s, u, O)
          /\ u.m.refs[f] = 0 /\ u.e = s.e /\ u.m.panic = s.m.panic
          /\ u.m.free \in Seq(Frames) /\ Len(u.m.free) = Len(s.m.free) - 1
          /\ Len(s.m.free) \in Nat
      BY <1>4, DataFrame
    <2>2. a.panic = s.m.panic
      BY <1>1, <1>4, AllocateFacts
    <2>3. \/ t = WithMem(u, loadtime_map_frame(u.m, u.e.dir, f, v))
          \/ t = WithMem(u, map_frame(u.m, u.e.dir, f, v))
      BY <1>2, <2>2 DEF MapsNew, MapNew, WithMem
    <2> HIDE DEF u, f
    <2>4. Mappable(u, O, f)
      BY <2>1 DEF Mappable
    <2>5. Mapped(u, t, O, f, v)
      BY <2>3, <2>4, LoadMaps, FrameMaps
    <2>6. Good(u, O)
      BY <2>1, GoodLess
    <2>7. Step(s, u, O, {})
      BY <2>1, <2>6 DEF Step, Alike, SameMap
    <2>8. Step(s, t, O, {v})
      BY <2>5, <2>7, StepThen DEF Mapped
    <2>9. PDX(v) \in UserDirs /\ Present(f).p /\ Present(f) # Zero
      BY PagePlace DEF Present, Zero
    <2>10. /\ \A j \in UserDirs : TableEntry(u, j) = TableEntry(s, j)
           /\ \A y \in VPages : Entry(u, y) = Entry(s, y)
      BY <2>1 DEF Alike, SameMap
    <2>11. u.m.free = << >> <=> Len(s.m.free) = 1
      <3>1. u.m.free = << >> <=> Len(u.m.free) = 0
        BY <2>1, EmptySeq
      <3>2. QED BY <2>1, <3>1
    <2>12. Len(s.m.free) # 0
      BY <1>1, <1>4, EmptySeq
    <2>13. t.m.panic <=> TableEntry(s, PDX(v)) = Zero /\ Len(s.m.free) = 1
      BY <2>5, <2>9, <2>10, <2>11 DEF Mapped
    <2>14. t.m.panic <=> Len(s.m.free) < Needs(s, v)
      <3>1. Len(s.m.free) \in Nat /\ Len(s.m.free) # 0
        BY <2>1, <2>12
      <3> DEFINE k == Len(s.m.free)
      <3>0. k \in Nat /\ k # 0
        BY <3>1
      <3> HIDE DEF k
      <3>2. CASE TableEntry(s, PDX(v)) = Zero
        <4>1. Needs(s, v) = 2
          BY <3>2 DEF Needs
        <4>2. t.m.panic <=> k = 1
          BY <2>13, <3>2 DEF k
        <4>3. k = 1 <=> k < 2
          BY <3>0
        <4>4. QED BY <4>1, <4>2, <4>3 DEF k
      <3>3. CASE TableEntry(s, PDX(v)) # Zero
        <4>1. Needs(s, v) = 1
          BY <3>3 DEF Needs
        <4>2. ~t.m.panic
          BY <2>13, <3>3
        <4>3. ~(k < 1)
          BY <3>0
        <4>4. QED BY <4>1, <4>2, <4>3 DEF k
      <3>4. QED BY <3>2, <3>3
    <2>15. Entry(s, v) = Zero /\ ~t.m.panic => Len(t.m.free) = Len(s.m.free) - Needs(s, v)
      <3>1. Entry(u, v) = Entry(s, v) /\ TableEntry(u, PDX(v)) = TableEntry(s, PDX(v))
        BY <2>9, <2>10
      <3>2. Entry(s, v) = Zero /\ ~t.m.panic =>
              Len(t.m.free) = IF TableEntry(s, PDX(v)) = Zero THEN Len(u.m.free) - 1 ELSE Len(u.m.free)
        BY <2>5, <3>1 DEF Mapped
      <3>3. Len(u.m.free) = Len(s.m.free) - 1 /\ Len(s.m.free) \in Nat
        BY <2>1
      <3>4. SUFFICES ASSUME Entry(s, v) = Zero, ~t.m.panic
                     PROVE  Len(t.m.free) = Len(s.m.free) - Needs(s, v)
        OBVIOUS
      <3>5. CASE TableEntry(s, PDX(v)) = Zero
        <4>1. Needs(s, v) = 2 /\ Len(t.m.free) = Len(u.m.free) - 1
          BY <3>2, <3>4, <3>5 DEF Needs
        <4>2. QED BY <4>1, <3>3
      <3>6. CASE TableEntry(s, PDX(v)) # Zero
        <4>1. Needs(s, v) = 1 /\ Len(t.m.free) = Len(u.m.free)
          BY <3>2, <3>4, <3>6 DEF Needs
        <4>2. QED BY <4>1, <3>3
      <3>7. QED BY <3>5, <3>6
    <2>16. QED BY <2>1, <2>5, <2>8, <2>9, <2>10, <2>14, <2>15 DEF Mapped, NewlyMapped
  <1>5. QED BY <1>3, <1>4

-----------------------------------------------------------------------------
(* Operations that only map, and the page file. *)

\* Only what the handler knows of the environment beside its frames changes.
Relists(s, t) ==
    Typed(t) /\ t.m = s.m /\ t.e.dir = s.e.dir /\ t.e.disk = s.e.disk

\* Other lists and another status leave the map as it is.
LEMMA Relisted ==
    ASSUME NEW s, NEW t, NEW O, Good(s, O), Relists(s, t)
    PROVE  Step(s, t, O, {}) /\ SameMap(s, t)
  <1> USE DEF Relists
  <1>1. SameMap(s, t)
    BY SameMapFacts
  <1>2. FreeApart(t, O)
    BY DEF Good, FreeApart
  <1>3. \A k \in Kinds, i \in Index : At(s, k, i) # 0 =>
          At(s, k, i) \notin O \cup ToSet(t.m.free) /\ t.m.refs[At(s, k, i)] = 1
    BY DEF Good, OwnApart
  <1>4. Good(t, O)
    BY <1>1, <1>2, <1>3, GoodSame
  <1>5. QED BY <1>1, <1>4 DEF Step, SameMap, Spares, SameHalf

\* Pages of V may have been mapped, PRESENT; the lists are the same.
OnlyMaps(s, t, O, V) ==
    /\ Step(s, t, O, V)
    /\ t.e.active = s.e.active /\ t.e.second = s.e.second /\ t.e.status = s.e.status
    /\ \A u \in VPages : Entry(t, u) = Entry(s, u) \/ (Entry(t, u).p /\ Entry(t, u) # Zero)

\* Nothing done only maps.
LEMMA OnlyMapsSame ==
    ASSUME NEW s, NEW O, Good(s, O)
    PROVE  OnlyMaps(s, s, O, {})
  BY StepSame DEF OnlyMaps

\* Two operations that only map.
LEMMA OnlyMapsThen ==
    ASSUME NEW s, NEW t, NEW u, NEW O, NEW U, NEW V, OnlyMaps(s, t, O, U), OnlyMaps(t, u, O, V)
    PROVE  OnlyMaps(s, u, O, U \cup V)
  BY StepThen DEF OnlyMaps

\* It may be said to map more pages than it does.
LEMMA OnlyMapsMore ==
    ASSUME NEW s, NEW t, NEW O, NEW U, NEW V, OnlyMaps(s, t, O, U), U \subseteq V
    PROVE  OnlyMaps(s, t, O, V)
  BY StepMore DEF OnlyMaps

\* MapNew is one.
LEMMA NewMappingMaps ==
    ASSUME NEW s, NEW t, NEW O, NEW v \in VPages, NewlyMapped(s, t, O, v)
    PROVE  OnlyMaps(s, t, O, {v})
  <1>1. \A u \in VPages \ {v} : Entry(t, u) = Entry(s, u)
    BY DEF NewlyMapped, Step
  <1>2. QED BY <1>1 DEF NewlyMapped, OnlyMaps

\* A panic reset or set.
LEMMA PanicMaps ==
    ASSUME NEW s, NEW t, NEW O, NEW b \in BOOLEAN,
           Good(s, O), t = WithMem(s, [s.m EXCEPT !.panic = b])
    PROVE  OnlyMaps(s, t, O, {}) /\ t.e = s.e /\ t.m.panic = b
  BY Panicked DEF OnlyMaps, SameMap

\* One of the tables of the page file: its frame was nobody's.
GivesDisk(s, t, i, f) ==
    /\ Typed(t) /\ t.m = s.m /\ t.e.dir = s.e.dir /\ t.e.disk = [s.e.disk EXCEPT ![i] = f]
    /\ s.m.refs[f] = 1

\* A frame that is nobody's becomes a table of the page file.
LEMMA DiskGiven ==
    ASSUME NEW s, NEW t, NEW O, NEW i \in 0 .. DiskDir, NEW f \in Frames \ {0},
           Good(s, O \cup {f}), f \notin O, GivesDisk(s, t, i, f)
    PROVE  Good(t, O) /\ SameMap(s, t)
  <1> USE DEF GivesDisk
  <1>1. SameMap(s, t)
    BY SameMapFacts
  <1>2. EntriesName(t)
    BY <1>1 DEF Good, EntriesName, SameMap
  <1>3. FreeApart(t, O)
    BY DEF Good, FreeApart
  <1>4. s.e.disk \in [0 .. DiskDir -> Frames]
    BY OwnFacts DEF Environments
  <1>5. \A k \in Kinds, j \in Index : At(t, k, j) = IF k = "disk" /\ j = i THEN f ELSE At(s, k, j)
    BY <1>1, <1>4 DEF At, SameMap
  <1>6. /\ f \notin ToSet(s.m.free)
        /\ \A k \in Kinds, j \in Index : At(s, k, j) # 0 =>
             At(s, k, j) \notin O \cup {f} \cup ToSet(s.m.free) /\ s.m.refs[At(s, k, j)] = 1
    BY DEF Good, OwnApart, FreeApart
  <1>7. OneNew(s, t, O, f, "disk", i)
    BY <1>5, <1>6 DEF OneNew
  <1>8. QED BY <1>1, <1>2, <1>3, <1>7, GoodChange

\* A frame used as itself: nobody's, counted once, cleared.
LEMMA OwnFrame ==
    ASSUME NEW s, NEW t, NEW O, Good(s, O), O \subseteq Frames, s.m.free # << >>,
           t = WithMem(s, TakeFrame(s.m))
    PROVE  /\ Head(s.m.free) \in Frames \ {0} /\ Head(s.m.free) \notin O
           /\ Good(t, O \cup {Head(s.m.free)}) /\ Alike(s, t, O)
           /\ t.m.refs[Head(s.m.free)] = 1 /\ t.e = s.e /\ t.m = TakeFrame(s.m)
           /\ t.m.panic = s.m.panic
           /\ t.m \in Memories /\ s.e \in Environments
  <1> DEFINE f == Head(s.m.free)
             a == TakeFrame(s.m)
  <1>1. s.m \in Memories /\ Typed(s) /\ s.e \in Environments
    BY OwnFacts DEF Good
  <1>2. /\ f \in Frames
        /\ a \in Memories /\ a.panic = s.m.panic /\ a.free = Tail(s.m.free)
        /\ a.refs[f] = 1
        /\ \A g \in Frames \ {f} : a.word[g] = s.m.word[g] /\ a.refs[g] = s.m.refs[g]
    BY <1>1, AllocateFacts
  <1>4. t = WithMem(s, a)
    OBVIOUS
  <1> HIDE DEF a
  <1>5. t.m = a /\ t.e = s.e /\ Typed(t)
    BY <1>1, <1>2, <1>4, WithMemFacts
  <1>6. Takes(s, t)
    BY <1>2, <1>5 DEF Takes
  <1>7. f \in Frames \ {0} /\ f \notin O /\ Good(t, O \cup {f}) /\ Alike(s, t, O)
    BY <1>6, FrameTaken
  <1>8. QED BY <1>1, <1>2, <1>5, <1>7 DEF a

\* The page file's table: found, made, or a panic for want of a frame.
LEMMA DiskTableMade ==
    ASSUME NEW s, NEW t, NEW O, NEW i \in 0 .. DiskDir,
           Good(s, O), O \subseteq Frames, t = DiskTable(s, i)
    PROVE  OnlyMaps(s, t, O, {}) /\ (s.m.panic => t = s)
  <1> DEFINE a == TakeFrame(s.m)
             u == WithMem(s, a)
             f == Head(s.m.free)
             x == [s.e EXCEPT !.disk[i] = f]
  <1>1. s.m \in Memories /\ Typed(s) /\ s.e \in Environments /\ s.m.panic \in BOOLEAN
    BY OwnFacts DEF Good, Memories
  <1>2. CASE s.e.disk[i] # 0 \/ s.m.panic
    BY <1>2, OnlyMapsSame DEF DiskTable
  <1>3. CASE ~(s.e.disk[i] # 0 \/ s.m.panic) /\ s.m.free = << >>
    <2>1. a = [s.m EXCEPT !.panic = TRUE]
      BY <1>1, <1>3, AllocateFacts
    <2>2. a.panic = TRUE
      BY <1>1, <2>1, PanicFacts
    <2>3. t = [s EXCEPT !.m = a]
      BY <1>3, <2>2 DEF DiskTable
    <2>4. t = WithMem(s, [s.m EXCEPT !.panic = TRUE])
      BY <2>1, <2>3 DEF WithMem
    <2>5. QED BY <1>3, <2>4, PanicMaps
  <1>4. CASE ~(s.e.disk[i] # 0 \/ s.m.panic) /\ s.m.free # << >>
    <2>1. /\ f \in Frames \ {0} /\ f \notin O
          /\ Good(u, O \cup {f}) /\ Alike(s, u, O)
          /\ u.m.refs[f] = 1 /\ u.e = s.e /\ u.m = a /\ u.m.panic = s.m.panic /\ u.m \in Memories
      BY <1>4, OwnFrame
    <2>2. t = [m |-> a, e |-> x]
      BY <1>4, <2>1 DEF DiskTable
    <2> HIDE DEF f, a, u
    <2>3. x \in Environments /\ x.dir = s.e.dir /\ x.disk = [s.e.disk EXCEPT ![i] = f]
          /\ x.active = s.e.active /\ x.second = s.e.second /\ x.status = s.e.status
      BY <1>1, <2>1 DEF Environments
    <2> HIDE DEF x
    <2>4. t.m = u.m /\ t.e = x /\ Typed(t)
      BY <2>1, <2>2, <2>3 DEF Typed
    <2>5. GivesDisk(u, t, i, f)
      BY <2>1, <2>3, <2>4 DEF GivesDisk
    <2>6. Good(t, O) /\ SameMap(u, t)
      BY <2>1, <2>5, DiskGiven
    <2>7. Step(s, t, O, {}) /\ SameMap(s, t)
      BY <2>1, <2>3, <2>4, <2>6 DEF Step, SameMap, Alike, Spares, SameHalf
    <2>8. QED BY <1>4, <2>3, <2>4, <2>7 DEF OnlyMaps, SameMap
  <1>5. QED BY <1>2, <1>3, <1>4

\* A page of the page file.
LEMMA DiskPageAdded ==
    ASSUME NEW s, NEW t, NEW O, NEW v \in VPages,
           Good(s, O), O \subseteq Frames, t = pf_add_env_page(s, v)
    PROVE  OnlyMaps(s, t, O, {}) /\ (s.m.panic => t = s)
  <1> DEFINE a == DiskTable(s, DiskDir)
             b == DiskTable(a, PDX(v))
             x == [b.e EXCEPT !.pf = @ \cup {v}]
  <1>1. DiskDir \in 0 .. DiskDir /\ PDX(v) \in 0 .. DiskDir
    BY PagePlace, Layout DEF DiskDir
  <1>2. OnlyMaps(s, a, O, {}) /\ (s.m.panic => a = s)
    BY <1>1, DiskTableMade
  <1> HIDE DEF a
  <1>3. Good(a, O)
    BY <1>2 DEF OnlyMaps, Step
  <1>4. OnlyMaps(a, b, O, {}) /\ (a.m.panic => b = a)
    BY <1>1, <1>3, DiskTableMade
  <1>5. t = IF b.m.panic THEN b ELSE [b EXCEPT !.e.pf = @ \cup {v}]
    BY DEF pf_add_env_page, a
  <1> HIDE DEF b
  <1>6. OnlyMaps(s, b, O, {}) /\ (s.m.panic => b = s)
    <2>1. OnlyMaps(s, b, O, {} \cup {})
      BY <1>2, <1>4, OnlyMapsThen
    <2>2. QED BY <1>2, <1>4, <2>1
  <1>7. CASE b.m.panic
    BY <1>5, <1>6, <1>7
  <1>8. CASE ~b.m.panic
    <2>1. Good(b, O) /\ Typed(b) /\ b.e \in Environments
      BY <1>6 DEF OnlyMaps, Step, Good, Typed
    <2>2. x \in Environments /\ x.dir = b.e.dir /\ x.disk = b.e.disk
          /\ x.active = b.e.active /\ x.second = b.e.second /\ x.status = b.e.status
      BY <2>1 DEF Environments
    <2>3. t = [b EXCEPT !.e = x]
      BY <1>5, <1>8
    <2> HIDE DEF x
    <2>4. t.m = b.m /\ t.e = x /\ Typed(t)
      BY <2>1, <2>2, <2>3, WithEnvFacts
    <2>5. Step(b, t, O, {}) /\ SameMap(b, t)
      BY <2>1, <2>2, <2>4, Relisted DEF Relists
    <2>6. OnlyMaps(b, t, O, {})
      BY <2>2, <2>4, <2>5 DEF OnlyMaps, SameMap
    <2>7. OnlyMaps(s, t, O, {} \cup {})
      BY <1>6, <2>6, OnlyMapsThen
    <2>8. QED BY <1>6, <1>8, <2>7
  <1>9. QED BY <1>7, <1>8

-----------------------------------------------------------------------------
(* The lists of an environment. *)

\* Mapping pages keeps the lists right: what is mapped anew is PRESENT.
LEMMA OnlyMapsLists ==
    ASSUME NEW s, NEW t, NEW O, NEW V, Good(s, O), OnlyMaps(s, t, O, V)
    PROVE  /\ Hidden(s) => Hidden(t)
           /\ Lists(s) => Lists(t)
           /\ ListsFit(s) => ListsFit(t)
  <1>1. s.e.active \in Seq(VPages) /\ s.e.second \in Seq(VPages)
    BY OwnFacts DEF Environments
  <1>2. ToSet(s.e.active) \subseteq VPages /\ ToSet(s.e.second) \subseteq VPages
    BY <1>1 DEF ToSet
  <1>3. Hidden(s) => Hidden(t)
    BY DEF OnlyMaps, Hidden
  <1>4. Lists(s) => Lists(t)
    BY <1>2 DEF OnlyMaps, Lists
  <1>5. ListsFit(s) => ListsFit(t)
    BY <1>4 DEF ListsFit, OnlyMaps
  <1>6. QED BY <1>3, <1>4, <1>5

\* The same environment with the lists a and b.
EnvRelisted(e, x, a, b) ==
    /\ x \in Environments /\ x.dir = e.dir /\ x.disk = e.disk /\ x.status = e.status /\ x.pf = e.pf
    /\ x.active = a /\ x.second = b

\* The environment with other lists.
LEMMA EnvLists ==
    ASSUME NEW e \in Environments, NEW a \in Seq(VPages), NEW b \in Seq(VPages)
    PROVE  /\ EnvRelisted(e, [e EXCEPT !.active = a, !.second = b], a, b)
           /\ EnvRelisted(e, [e EXCEPT !.second = b, !.active = a], a, b)
           /\ EnvRelisted(e, [e EXCEPT !.active = a], a, e.second)
           /\ EnvRelisted(e, [e EXCEPT !.second = b], e.active, b)
  <1> DEFINE y == [e EXCEPT !.active = a]
             z == [e EXCEPT !.second = b]
             u == [y EXCEPT !.second = b]
             v == [z EXCEPT !.active = a]
  <1>1. y \in Environments /\ y.dir = e.dir /\ y.disk = e.disk /\ y.status = e.status /\ y.pf = e.pf
        /\ y.active = a /\ y.second = e.second
    BY DEF Environments
  <1>2. z \in Environments /\ z.dir = e.dir /\ z.disk = e.disk /\ z.status = e.status /\ z.pf = e.pf
        /\ z.active = e.active /\ z.second = b
    BY DEF Environments
  <1>3. /\ [e EXCEPT !.active = a, !.second = b] = u
        /\ [e EXCEPT !.second = b, !.active = a] = v
    OBVIOUS
  <1> HIDE DEF y, z
  <1>4. u \in Environments /\ u.dir = e.dir /\ u.disk = e.disk /\ u.status = e.status /\ u.pf = e.pf
        /\ u.active = a /\ u.second = b
    BY <1>1 DEF Environments
  <1>5. v \in Environments /\ v.dir = e.dir /\ v.disk = e.disk /\ v.status = e.status /\ v.pf = e.pf
        /\ v.active = a /\ v.second = b
    BY <1>2 DEF Environments
  <1>6. EnvRelisted(e, y, a, e.second) /\ EnvRelisted(e, z, e.active, b)
    BY <1>1, <1>2 DEF EnvRelisted
  <1> HIDE DEF u, v
  <1>7. EnvRelisted(e, u, a, b) /\ EnvRelisted(e, v, a, b)
    BY <1>4, <1>5 DEF EnvRelisted
  <1>8. QED BY <1>3, <1>6, <1>7 DEF y, z

NewLists(s, t, a, b) ==
    Typed(t) /\ t.m = s.m /\ EnvRelisted(s.e, t.e, a, b)

\* The handler's pair with other lists.
LEMMA ListsSet ==
    ASSUME NEW s, NEW a \in Seq(VPages), NEW b \in Seq(VPages), Typed(s)
    PROVE  /\ NewLists(s, [s EXCEPT !.e.active = a, !.e.second = b], a, b)
           /\ NewLists(s, [s EXCEPT !.e.active = a], a, s.e.second)
           /\ NewLists(s, [s EXCEPT !.e.second = b], s.e.active, b)
  <1>1. s.e \in Environments /\ s = [m |-> s.m, e |-> s.e]
    BY SMTT(60) DEF Typed
  <1> DEFINE x == [s.e EXCEPT !.active = a, !.second = b]
             y == [s.e EXCEPT !.active = a]
             z == [s.e EXCEPT !.second = b]
  <1>2. EnvRelisted(s.e, x, a, b) /\ EnvRelisted(s.e, y, a, s.e.second) /\ EnvRelisted(s.e, z, s.e.active, b)
    BY <1>1, EnvLists
  <1>3. /\ [s EXCEPT !.e.active = a] = [s EXCEPT !.e = y]
        /\ [s EXCEPT !.e.second = b] = [s EXCEPT !.e = z]
    OBVIOUS
  <1>4. [s EXCEPT !.e.active = a, !.e.second = b] = [m |-> s.m, e |-> x]
    <2> DEFINE v == [s EXCEPT !.e.active = a]
    <2>1. v = [m |-> s.m, e |-> y]
      BY <1>1
    <2>2. [s EXCEPT !.e.active = a, !.e.second = b] = [v EXCEPT !.e.second = b]
      OBVIOUS
    <2> HIDE DEF v
    <2>3. [v EXCEPT !.e.second = b] = [m |-> s.m, e |-> [y EXCEPT !.second = b]]
      BY <2>1
    <2>4. x = [y EXCEPT !.second = b]
      OBVIOUS
    <2>5. QED BY <2>2, <2>3, <2>4
  <1> HIDE DEF x, y, z
  <1>5. Typed([m |-> s.m, e |-> x])
    BY <1>2 DEF Typed, EnvRelisted
  <1>6. NewLists(s, [m |-> s.m, e |-> x], a, b)
    BY <1>2, <1>5 DEF NewLists
  <1>7. NewLists(s, [s EXCEPT !.e = y], a, s.e.second)
    BY <1>2, WithEnvFacts DEF NewLists, EnvRelisted
  <1>8. NewLists(s, [s EXCEPT !.e = z], s.e.active, b)
    BY <1>2, WithEnvFacts DEF NewLists, EnvRelisted
  <1>9. QED BY <1>3, <1>4, <1>6, <1>7, <1>8

\* Other lists are a step that touches no page.
LEMMA NewListsStep ==
    ASSUME NEW s, NEW t, NEW O, NEW a, NEW b, Good(s, O), NewLists(s, t, a, b)
    PROVE  /\ Step(s, t, O, {}) /\ SameMap(s, t) /\ t.m = s.m /\ Typed(t)
           /\ t.e.active = a /\ t.e.second = b /\ t.e.status = s.e.status /\ t.e.pf = s.e.pf
  BY Relisted DEF NewLists, EnvRelisted, Relists

\* A page leaves a list.
LEMMA WithoutElements ==
    ASSUME NEW S, NEW q \in Seq(S), NEW v, v \in ToSet(q), Distinct(q)
    PROVE  /\ Without(q, v) \in Seq(S) /\ Distinct(Without(q, v))
           /\ ToSet(Without(q, v)) = ToSet(q) \ {v}
           /\ Len(Without(q, v)) = Len(q) - 1 /\ Len(q) \in Nat \ {0}
  <1> DEFINE i == CHOOSE k \in DOMAIN q : q[k] = v
  <1>1. \E k \in DOMAIN q : q[k] = v
    BY DEF ToSet
  <1>2. i \in DOMAIN q /\ q[i] = v
    BY <1>1
  <1>3. Without(q, v) = RemoveAt(q, i)
    BY DEF Without
  <1> HIDE DEF i
  <1>4. QED BY <1>2, <1>3, RemoveAtShape, RemoveAtElements

\* What the lists of a typed environment are.
LEMMA ListsTyped ==
    ASSUME NEW s, NEW O, Good(s, O)
    PROVE  /\ Typed(s) /\ s.m \in Memories /\ s.e \in Environments /\ s.m.panic \in BOOLEAN
           /\ s.e.active \in Seq(VPages) /\ s.e.second \in Seq(VPages)
           /\ ToSet(s.e.active) \subseteq VPages /\ ToSet(s.e.second) \subseteq VPages
           /\ Len(s.e.active) \in Nat /\ Len(s.e.second) \in Nat
           /\ ~Zero.p /\ Zero.pa = 0
  <1>1. Typed(s) /\ s.m \in Memories /\ s.e \in Environments /\ s.m.panic \in BOOLEAN
    BY OwnFacts DEF Good, Memories
  <1>2. s.e.active \in Seq(VPages) /\ s.e.second \in Seq(VPages)
    BY <1>1 DEF Environments
  <1>3. ToSet(s.e.active) \subseteq VPages /\ ToSet(s.e.second) \subseteq VPages
    BY <1>2 DEF ToSet
  <1>4. QED BY <1>1, <1>2, <1>3, LenProperties DEF Zero

\* What a handler of the running environment achieves.
Served(s, t, O) ==
    /\ Step(s, t, O, VPages) /\ t.e.status = s.e.status
    /\ Hidden(t) /\ (~t.m.panic => ListsFit(t))

\* An operation that only maps leaves an environment that can run.
LEMMA OnlyMapsServed ==
    ASSUME NEW s, NEW t, NEW O, NEW V, Good(s, O), OnlyMaps(s, t, O, V), V \subseteq VPages,
           Hidden(s), ListsFit(s)
    PROVE  Served(s, t, O)
  BY OnlyMapsLists, StepMore DEF Served, OnlyMaps

\* There is room in the active list for the page v, that is in no list.
Room(s, v) ==
    /\ Lists(s) /\ v \notin ToSet(s.e.active) /\ v \notin ToSet(s.e.second)
    /\ Len(s.e.active) < ActiveListSize
    /\ s.e.second # << >> => Len(s.e.active) = ActiveListSize - 1

\* A page that is mapped and PRESENT goes to the front of the active list.
LEMMA FrontOfActive ==
    ASSUME NEW s, NEW t, NEW O, NEW v \in VPages, Good(s, O), Hidden(s), Room(s, v), Entry(s, v).p,
           t = [s EXCEPT !.e.active = <<v>> \o @]
    PROVE  Step(s, t, O, {}) /\ t.e.status = s.e.status /\ Hidden(t) /\ ListsFit(t)
  <1> DEFINE a == Cons(v, s.e.active)
  <1>1. Typed(s) /\ s.e.active \in Seq(VPages) /\ s.e.second \in Seq(VPages)
        /\ Len(s.e.active) \in Nat
    BY ListsTyped
  <1>2. a \in Seq(VPages) /\ Len(a) = Len(s.e.active) + 1
        /\ ToSet(a) = {v} \cup ToSet(s.e.active) /\ Distinct(a)
    <2> DEFINE q == s.e.active
    <2>1. q \in Seq(VPages) /\ Distinct(q) /\ v \notin ToSet(q)
      BY <1>1 DEF Room, Lists
    <2> HIDE DEF q
    <2>2. Cons(v, q) \in Seq(VPages) /\ Len(Cons(v, q)) = Len(q) + 1
      BY <2>1, ConsShape
    <2>3. ToSet(Cons(v, q)) = {v} \cup ToSet(q) /\ Distinct(Cons(v, q))
      BY <2>1, ConsElements
    <2>4. QED BY <2>2, <2>3 DEF q
  <1>3. t = [s EXCEPT !.e.active = a]
    BY DEF Cons
  <1> HIDE DEF a
  <1>4. NewLists(s, t, a, s.e.second)
    BY <1>1, <1>2, <1>3, ListsSet
  <1>5. /\ Step(s, t, O, {}) /\ SameMap(s, t)
        /\ t.e.active = a /\ t.e.second = s.e.second /\ t.e.status = s.e.status
    BY <1>4, NewListsStep, ZenonT(60)
  <1>6. \A u \in VPages : Entry(t, u) = Entry(s, u)
    BY <1>5 DEF SameMap
  <1>7. Hidden(t)
    BY <1>5, <1>6 DEF Hidden
  <1>8. ToSet(s.e.active) \subseteq VPages /\ ToSet(s.e.second) \subseteq VPages
    BY ListsTyped
  <1>9. Lists(t)
    BY <1>2, <1>5, <1>6, <1>8 DEF Lists, Room
  <1>10. Len(a) <= ActiveListSize /\ (s.e.second # << >> => Len(a) = ActiveListSize)
    <2> DEFINE n == Len(s.e.active)
    <2>1. n \in Nat /\ n < ActiveListSize /\ Len(a) = n + 1 /\ ActiveListSize \in Nat
      BY <1>1, <1>2, ProgramFits DEF Room
    <2>2. s.e.second # << >> => n = ActiveListSize - 1
      BY DEF Room
    <2> HIDE DEF n
    <2>3. QED BY <2>1, <2>2
  <1>11. QED BY <1>5, <1>7, <1>9, <1>10 DEF ListsFit

\* Place: the page is mapped, read, and put in the active list, or there is a
\* panic.
LEMMA PlaceServes ==
    ASSUME NEW s, NEW t, NEW O, NEW v \in VPages,
           Good(s, O), O \subseteq Frames, s.e.dir # 0, ~s.m.panic, Hidden(s), Room(s, v),
           t = Place(s, v)
    PROVE  Served(s, t, O)
  <1> DEFINE a == WithMem(s, MapNew(s.m, s.e.dir, v, map_frame))
             b == IF v \in a.e.pf THEN a ELSE pf_add_env_page(a, v)
             c == [b EXCEPT !.e.active = <<v>> \o @]
             d == [a EXCEPT !.m.panic = TRUE]
  <1>1. NewlyMapped(s, a, O, v)
    BY NewMapping, SMTT(60) DEF MapsNew
  <1>2. t = IF a.m.panic THEN a
            ELSE IF v \in a.e.pf \/ v = StackPage THEN (IF b.m.panic THEN b ELSE c)
            ELSE d
    BY DEF Place, Then
  <1> HIDE DEF a
  <1>3. OnlyMaps(s, a, O, {v}) /\ a.e = s.e
    BY <1>1, NewMappingMaps DEF NewlyMapped
  <1>4. Good(a, O)
    BY <1>3 DEF OnlyMaps, Step
  <1>5. OnlyMaps(a, b, O, {})
    BY <1>4, OnlyMapsSame, DiskPageAdded
  <1>6. d = WithMem(a, [a.m EXCEPT !.panic = TRUE])
    BY DEF WithMem
  <1> HIDE DEF b, c
  <1>7. OnlyMaps(a, d, O, {}) /\ d.m.panic
    BY <1>4, <1>6, PanicMaps
  <1> HIDE DEF d
  <1>8. OnlyMaps(s, b, O, {v}) /\ OnlyMaps(s, d, O, {v})
    <2>1. {v} \cup {} = {v}
      OBVIOUS
    <2>2. OnlyMaps(s, b, O, {v} \cup {}) /\ OnlyMaps(s, d, O, {v} \cup {})
      BY <1>3, <1>5, <1>7, OnlyMapsThen
    <2>3. QED BY <2>1, <2>2
  <1>9. \A x : OnlyMaps(s, x, O, {v}) /\ x.m.panic => Served(s, x, O)
    BY OnlyMapsLists, StepMore DEF Served, OnlyMaps
  <1>10. CASE a.m.panic \/ ~(v \in a.e.pf \/ v = StackPage) \/ b.m.panic
    BY <1>2, <1>3, <1>7, <1>8, <1>9, <1>10
  <1>11. CASE ~(a.m.panic \/ ~(v \in a.e.pf \/ v = StackPage) \/ b.m.panic)
    <2>1. t = c
      BY <1>2, <1>11
    <2>2. Entry(b, v).p
      BY <1>1, <1>5, <1>11 DEF NewlyMapped, OnlyMaps
    <2>3. Hidden(b) /\ Lists(b)
      BY <1>8, OnlyMapsLists DEF Room
    <2>4. Good(b, O) /\ Room(b, v) /\ b.e.status = s.e.status
      BY <1>8, <2>3 DEF OnlyMaps, Step, Room
    <2>5. Step(b, c, O, {}) /\ c.e.status = b.e.status /\ Hidden(c) /\ ListsFit(c)
      BY <2>2, <2>3, <2>4, FrontOfActive DEF c
    <2>6. Step(s, c, O, VPages)
      <3>1. Step(s, c, O, {v} \cup {})
        BY <1>8, <2>5, StepThen DEF OnlyMaps
      <3>2. {v} \cup {} \subseteq VPages
        OBVIOUS
      <3>3. QED BY <3>1, <3>2, StepMore
    <2>7. QED BY <2>1, <2>4, <2>5, <2>6 DEF Served
  <1>12. QED BY <1>10, <1>11

-----------------------------------------------------------------------------
(* The page-fault handler. *)

\* The last page of the active list becomes the first of the second.
DemotedTo(s, t, O) ==
    /\ Step(s, t, O, {Last(s.e.active)}) /\ t.e.status = s.e.status /\ t.m.panic = s.m.panic
    /\ t.e.active = Front(s.e.active) /\ t.e.second = Cons(Last(s.e.active), s.e.second)
    /\ Lists(t) /\ (Hidden(s) => Hidden(t))

\* The tail of the active list goes to the second list and loses its PRESENT
\* bit.
LEMMA DemoteDone ==
    ASSUME NEW s, NEW t, NEW O, Good(s, O), O \subseteq Frames, Lists(s), s.e.active # << >>,
           t = Demote(s)
    PROVE  DemotedTo(s, t, O)
  <1> DEFINE v == Last(s.e.active)
             a == Front(s.e.active)
             b == Cons(v, s.e.second)
             u == [s EXCEPT !.e.active = a, !.e.second = b]
  <1>1. /\ Typed(s) /\ s.e.active \in Seq(VPages) /\ s.e.second \in Seq(VPages)
        /\ ToSet(s.e.active) \subseteq VPages /\ ToSet(s.e.second) \subseteq VPages /\ ~Zero.p
    BY ListsTyped
  <1>2. /\ a \in Seq(VPages) /\ v \in VPages /\ ToSet(s.e.active) = ToSet(a) \cup {v}
        /\ Distinct(a) /\ v \notin ToSet(a)
    <2> DEFINE q == s.e.active
    <2>1. q \in Seq(VPages) /\ Distinct(q) /\ q # << >>
      BY <1>1 DEF Lists
    <2> HIDE DEF q
    <2>2. Front(q) \in Seq(VPages) /\ Last(q) \in VPages
      BY <2>1, FrontShape
    <2>3. ToSet(q) = ToSet(Front(q)) \cup {Last(q)} /\ Distinct(Front(q)) /\ Last(q) \notin ToSet(Front(q))
      BY <2>1, FrontElements
    <2>4. QED BY <2>2, <2>3 DEF q
  <1> HIDE DEF v
  <1>3. /\ b \in Seq(VPages) /\ ToSet(b) = {v} \cup ToSet(s.e.second) /\ Distinct(b)
    <2> DEFINE q == s.e.second
    <2>1. q \in Seq(VPages) /\ Distinct(q) /\ v \notin ToSet(q)
      BY <1>1, <1>2 DEF Lists
    <2> HIDE DEF q
    <2>2. Cons(v, q) \in Seq(VPages)
      BY <1>2, <2>1, ConsShape
    <2>3. ToSet(Cons(v, q)) = {v} \cup ToSet(q) /\ Distinct(Cons(v, q))
      BY <1>2, <2>1, ConsElements
    <2>4. QED BY <2>2, <2>3 DEF q
  <1>4. t = WithMem(u, SetPresent(s.m, s.e.dir, v, FALSE))
    BY DEF Demote, Cons, v
  <1> HIDE DEF a, b
  <1>5. NewLists(s, u, a, b)
    BY <1>1, <1>2, <1>3, ListsSet
  <1> HIDE DEF u
  <1>6. /\ Step(s, u, O, {}) /\ SameMap(s, u) /\ u.m = s.m
        /\ u.e.active = a /\ u.e.second = b /\ u.e.status = s.e.status
    BY <1>5, NewListsStep
  <1>7. u.e.dir = s.e.dir /\ Good(u, O) /\ \A x \in VPages : Entry(u, x) = Entry(s, x)
    BY <1>6 DEF SameMap, Step
  <1>8. Entry(s, v).p /\ Entry(s, v) # Zero
    BY <1>1, <1>2 DEF Lists
  <1>9. PresentIs(u, t, O, v, FALSE)
    <2>1. t = WithMem(u, SetPresent(u.m, u.e.dir, v, FALSE)) /\ FALSE \in BOOLEAN /\ Entry(u, v) # Zero
      BY <1>2, <1>4, <1>6, <1>7, <1>8
    <2>2. QED BY <1>2, <1>7, <2>1, PresentSet
  <1>10. /\ Step(u, t, O, {v}) /\ t.e = u.e /\ Entry(t, v) # Zero /\ t.m.panic = u.m.panic
    BY <1>9 DEF PresentIs
  <1>11. \A x \in VPages \ {v} : Entry(t, x) = Entry(s, x)
    BY <1>7, <1>10 DEF Step
  <1>12. Step(s, t, O, {v})
    <2>1. Step(s, t, O, {} \cup {v})
      BY <1>6, <1>10, StepThen
    <2>2. {} \cup {v} = {v}
      OBVIOUS
    <2>3. QED BY <2>1, <2>2
  <1>13. t.e.active = a /\ t.e.second = b /\ t.e.status = s.e.status /\ t.m.panic = s.m.panic
    BY <1>6, <1>10
  <1>14. Lists(t)
    <2>1. Distinct(t.e.active) /\ Distinct(t.e.second) /\ ToSet(t.e.active) \cap ToSet(t.e.second) = {}
      BY <1>2, <1>3, <1>13 DEF Lists
    <2>2. \A x \in ToSet(t.e.active) : Entry(t, x).p
      BY <1>1, <1>2, <1>11, <1>13 DEF Lists
    <2>3. \A x \in ToSet(t.e.second) : Entry(t, x) # Zero
      BY <1>1, <1>3, <1>10, <1>11, <1>13 DEF Lists
    <2>4. QED BY <2>1, <2>2, <2>3 DEF Lists
  <1>15. Hidden(s) => Hidden(t)
    BY <1>3, <1>11, <1>13 DEF Hidden
  <1>16. QED BY <1>12, <1>13, <1>14, <1>15 DEF DemotedTo, v, a, b

\* A page of the second list becomes PRESENT and leaves it.
TakenFrom(s, t, O, v, a, b) ==
    /\ Step(s, t, O, {v}) /\ t.m.panic = s.m.panic
    /\ t.e.active = a /\ t.e.second = b /\ t.e.status = s.e.status
    /\ Entry(t, v).p /\ Entry(t, v) # Zero /\ v \in VPages
    /\ \A x \in VPages \ {v} : Entry(t, x) = Entry(s, x)

\* A page leaves the second list and becomes PRESENT.
LEMMA Taken ==
    ASSUME NEW s, NEW t, NEW O, NEW v, NEW a, NEW b, NEW u,
           Good(s, O), O \subseteq Frames, Hidden(s), Lists(s), v \in ToSet(s.e.second),
           NewLists(s, u, a, b), t = WithMem(u, SetPresent(u.m, u.e.dir, v, TRUE))
    PROVE  TakenFrom(s, t, O, v, a, b)
  <1>1. /\ Step(s, u, O, {}) /\ SameMap(s, u) /\ u.m = s.m
        /\ u.e.active = a /\ u.e.second = b /\ u.e.status = s.e.status
    BY NewListsStep
  <1>2. Good(u, O) /\ \A x \in VPages : Entry(u, x) = Entry(s, x)
    BY <1>1 DEF SameMap, Step
  <1>3. v \in VPages /\ Entry(s, v) # Zero
    BY ListsTyped DEF Lists
  <1>4. PresentIs(u, t, O, v, TRUE)
    <2>1. TRUE \in BOOLEAN
      OBVIOUS
    <2>2. QED BY <1>2, <1>3, <2>1, PresentSet
  <1>5. Step(u, t, O, {v}) /\ t.e = u.e /\ Entry(t, v) # Zero /\ Entry(t, v).p /\ t.m.panic = u.m.panic
    BY <1>4 DEF PresentIs
  <1>6. Step(s, t, O, {v})
    <2>1. Step(s, t, O, {} \cup {v})
      BY <1>1, <1>5, StepThen
    <2>2. {} \cup {v} = {v}
      OBVIOUS
    <2>3. QED BY <2>1, <2>2
  <1>7. \A x \in VPages \ {v} : Entry(t, x) = Entry(s, x)
    BY <1>2, <1>5 DEF Step
  <1>8. QED BY <1>1, <1>3, <1>5, <1>6, <1>7 DEF TakenFrom

\* The sizes of the lists of an environment that can run.
LEMMA ActiveSizes ==
    ASSUME NEW s, NEW O, Good(s, O), ListsFit(s)
    PROVE  /\ s.e.second # << >> => s.e.active # << >>
           /\ ActiveListSize \in Nat /\ ActiveListSize > 0
           /\ s.e.active # << >> =>
                /\ Len(Front(s.e.active)) = Len(s.e.active) - 1
                /\ ToSet(s.e.active) = ToSet(Front(s.e.active)) \cup {Last(s.e.active)}
                /\ Last(s.e.active) \in VPages
           /\ Len(s.e.active) = 0 <=> s.e.active = << >>
           /\ Len(s.e.second) = 0 <=> s.e.second = << >>
  <1>1. s.e.active \in Seq(VPages) /\ s.e.second \in Seq(VPages)
    BY ListsTyped
  <1>2. Len(s.e.active) = 0 <=> s.e.active = << >>
    BY <1>1, EmptySeq
  <1>3. Len(s.e.second) = 0 <=> s.e.second = << >>
    BY <1>1, EmptySeq
  <1>4. s.e.second # << >> => s.e.active # << >>
    BY <1>2, ProgramFits DEF ListsFit
  <1>5. s.e.active # << >> =>
                /\ Len(Front(s.e.active)) = Len(s.e.active) - 1
                /\ ToSet(s.e.active) = ToSet(Front(s.e.active)) \cup {Last(s.e.active)}
                /\ Last(s.e.active) \in VPages
    BY <1>1, FrontShape, FrontElements
  <1>6. QED BY <1>2, <1>3, <1>4, <1>5, ProgramFits

\* A fault on a page of the second list puts it first in the active list.
LEMMA RefaultServes ==
    ASSUME NEW s, NEW t, NEW O, NEW v, Good(s, O), O \subseteq Frames, Hidden(s), ListsFit(s),
           v \in ToSet(s.e.second), t = Refault(s, v)
    PROVE  Served(s, t, O)
  <1> DEFINE b == Without(s.e.second, v)
             u == [s EXCEPT !.e.second = b]
             p == WithMem(u, SetPresent(u.m, u.e.dir, v, TRUE))
             d == Demote(p)
  <1>1. /\ Typed(s) /\ s.e.active \in Seq(VPages) /\ s.e.second \in Seq(VPages)
        /\ ToSet(s.e.active) \subseteq VPages /\ ToSet(s.e.second) \subseteq VPages
        /\ Len(s.e.active) \in Nat /\ ~Zero.p
    BY ListsTyped
  <1>2. b \in Seq(VPages) /\ Distinct(b) /\ ToSet(b) = ToSet(s.e.second) \ {v}
    <2>1. Distinct(s.e.second)
      BY DEF ListsFit, Lists
    <2>2. QED BY <1>1, <2>1, WithoutElements
  <1>3. t = [d EXCEPT !.e.active = <<v>> \o @]
    <2> DEFINE x == [s.e EXCEPT !.second = b]
    <2>1. u = [m |-> s.m, e |-> x] /\ x.dir = s.e.dir
      <3>1. s.e \in Environments
        BY <1>1 DEF Typed
      <3>2. x.dir = s.e.dir
        BY <3>1 DEF Environments
      <3>3. QED BY <1>1, <3>2 DEF Typed
    <2>2. t = [Demote([m |-> SetPresent(s.m, s.e.dir, v, TRUE), e |-> x]) EXCEPT !.e.active = <<v>> \o @]
      BY DEF Refault, Promote
    <2> HIDE DEF x, u
    <2>3. p = [m |-> SetPresent(s.m, s.e.dir, v, TRUE), e |-> x]
      <3>1. u.m = s.m /\ u.e = x /\ u.e.dir = s.e.dir
        BY <2>1
      <3>2. p = WithMem(u, SetPresent(s.m, s.e.dir, v, TRUE))
        BY <3>1
      <3>3. \A y : WithMem(u, y) = [m |-> y, e |-> x]
        BY <2>1 DEF WithMem
      <3>4. QED BY <3>2, <3>3
    <2> HIDE DEF p
    <2>4. QED BY <2>2, <2>3
  <1> HIDE DEF b
  <1>4. NewLists(s, u, s.e.active, b)
    BY <1>1, <1>2, ListsSet
  <1> HIDE DEF u
  <1>5. /\ Step(s, p, O, {v}) /\ p.m.panic = s.m.panic
        /\ p.e.active = s.e.active /\ p.e.second = b /\ p.e.status = s.e.status
        /\ Entry(p, v).p /\ Entry(p, v) # Zero /\ v \in VPages
        /\ \A x \in VPages \ {v} : Entry(p, x) = Entry(s, x)
    <2>1. Lists(s) /\ p = WithMem(u, SetPresent(u.m, u.e.dir, v, TRUE))
      BY DEF ListsFit
    <2> HIDE DEF p
    <2>2. TakenFrom(s, p, O, v, s.e.active, b)
      BY <1>4, <2>1, Taken
    <2>3. QED BY <2>2 DEF TakenFrom
  <1> HIDE DEF p
  <1>6. Good(p, O) /\ Lists(p)
    <2>1. \A x \in ToSet(s.e.active) : Entry(p, x).p
      BY <1>1, <1>5 DEF ListsFit, Lists
    <2>2. \A x \in ToSet(b) : Entry(p, x) # Zero
      BY <1>1, <1>2, <1>5 DEF ListsFit, Lists
    <2>3. Distinct(s.e.active) /\ ToSet(s.e.active) \cap ToSet(b) = {}
      BY <1>2 DEF ListsFit, Lists
    <2>4. QED BY <1>2, <1>5, <2>1, <2>2, <2>3 DEF Lists, Step
  <1>7. Hidden(p)
    BY <1>2, <1>5 DEF Hidden
  <1>8. s.e.active # << >> /\ Len(s.e.active) = ActiveListSize
    <2>1. s.e.second # << >>
      <3>1. ToSet(<< >>) = {}
        BY DEF ToSet
      <3>2. QED BY <3>1
    <2>2. QED BY <2>1, ActiveSizes DEF ListsFit
  <1>9. DemotedTo(p, d, O)
    BY <1>5, <1>6, <1>8, DemoteDone
  <1> HIDE DEF d
  <1>10. v \notin ToSet(s.e.active) /\ Last(s.e.active) # v
    <2>1. v \notin ToSet(s.e.active)
      BY DEF ListsFit, Lists
    <2>2. QED BY <1>8, <2>1, ActiveSizes
  <1>11. /\ Step(p, d, O, {Last(s.e.active)}) /\ d.e.status = s.e.status
         /\ d.e.active = Front(s.e.active) /\ d.e.second = Cons(Last(s.e.active), b)
         /\ Lists(d) /\ Hidden(d)
    BY <1>5, <1>7, <1>9 DEF DemotedTo
  <1>12. Entry(d, v).p /\ Good(d, O)
    BY <1>5, <1>10, <1>11 DEF Step
  <1>13. Room(d, v)
    <2>1. v \notin ToSet(d.e.active)
      BY <1>8, <1>10, <1>11, ActiveSizes
    <2>2. v \notin ToSet(d.e.second)
      <3>1. Last(s.e.active) \in VPages
        BY <1>8, ActiveSizes
      <3>2. ToSet(d.e.second) = {Last(s.e.active)} \cup ToSet(b)
        BY <1>2, <1>11, <3>1, ConsElements
      <3>3. QED BY <1>2, <1>10, <3>2
    <2>3. Len(d.e.active) = ActiveListSize - 1 /\ ActiveListSize \in Nat
      BY <1>8, <1>11, ActiveSizes
    <2>4. QED BY <1>11, <2>1, <2>2, <2>3 DEF Room
  <1>14. Step(d, t, O, {}) /\ t.e.status = d.e.status /\ Hidden(t) /\ ListsFit(t)
    BY <1>3, <1>5, <1>11, <1>12, <1>13, FrontOfActive
  <1>15. Step(s, t, O, VPages)
    <2>1. Step(s, d, O, {v} \cup {Last(s.e.active)})
      BY <1>5, <1>11, StepThen
    <2>2. Step(s, t, O, ({v} \cup {Last(s.e.active)}) \cup {})
      BY <2>1, <1>14, StepThen
    <2>3. ({v} \cup {Last(s.e.active)}) \cup {} \subseteq VPages
      BY <1>5, <1>8, ActiveSizes
    <2>4. QED BY <2>2, <2>3, StepMore
  <1>16. QED BY <1>11, <1>14, <1>15 DEF Served

\* The last page of a list is unmapped and leaves it.
LeavesLists(s, v, a, b) ==
    /\ a \in Seq(VPages) /\ b \in Seq(VPages) /\ Distinct(a) /\ Distinct(b)
    /\ ToSet(a) \subseteq ToSet(s.e.active) \ {v} /\ ToSet(b) = ToSet(s.e.second) \ {v}

Left(s, t, O, v, a, b) ==
    /\ Step(s, t, O, {v}) /\ t.e.active = a /\ t.e.second = b /\ t.e.status = s.e.status
    /\ t.m.panic = s.m.panic /\ Lists(t) /\ Hidden(t) /\ Entry(t, v) = Zero
    /\ t.e.dir = s.e.dir /\ t.e.pf = s.e.pf

\* A page is unmapped and leaves its list.
LEMMA LastUnmapped ==
    ASSUME NEW s, NEW u, NEW t, NEW O, NEW v \in VPages, NEW a, NEW b,
           Good(s, O), O \subseteq Frames, s.e.dir # 0, Hidden(s), Lists(s), Unmapped(s, u, O, v),
           NewLists(u, t, a, b), LeavesLists(s, v, a, b)
    PROVE  Left(s, t, O, v, a, b)
  <1>2. Step(s, u, O, {v}) /\ u.e = s.e /\ Entry(u, v) = Zero /\ u.m.panic = s.m.panic
    BY DEF Unmapped
  <1>3. /\ Step(u, t, O, {}) /\ SameMap(u, t) /\ t.m = u.m
        /\ t.e.active = a /\ t.e.second = b /\ t.e.status = u.e.status /\ t.e.pf = u.e.pf
    BY <1>2, NewListsStep DEF Step
  <1>4. Entry(t, v) = Zero /\ \A x \in VPages \ {v} : Entry(t, x) = Entry(s, x)
    BY <1>2, <1>3 DEF Step, SameMap
  <1>5. Step(s, t, O, {v})
    <2>1. Step(s, t, O, {v} \cup {})
      BY <1>2, <1>3, StepThen
    <2>2. {v} \cup {} = {v}
      OBVIOUS
    <2>3. QED BY <2>1, <2>2
  <1>6. ToSet(s.e.active) \subseteq VPages /\ ToSet(s.e.second) \subseteq VPages
    BY ListsTyped
  <1>7. Hidden(t)
    BY <1>3, <1>4 DEF Hidden, LeavesLists
  <1>8. Lists(t)
    BY <1>3, <1>4, <1>6 DEF Lists, LeavesLists
  <1>9. QED BY <1>2, <1>3, <1>4, <1>5, <1>7, <1>8 DEF Step, Left

\* What is served after a step is served from the start.
LEMMA ServedAfter ==
    ASSUME NEW s, NEW t, NEW u, NEW O, NEW V, Step(s, t, O, V), V \subseteq VPages,
           t.e.status = s.e.status, Served(t, u, O)
    PROVE  Served(s, u, O)
  <1>1. Step(s, u, O, V \cup VPages)
    BY StepThen DEF Served
  <1>2. Step(s, u, O, VPages)
    BY <1>1, StepMore
  <1>3. QED BY <1>2 DEF Served

\* What a handler of the running environment starts from.
Ready(s, O) ==
    Good(s, O) /\ O \subseteq Frames /\ s.e.dir # 0 /\ ~s.m.panic /\ Hidden(s) /\ ListsFit(s)

\* A fault with the active list full and room in the second.
LEMMA FaultOfActive ==
    ASSUME NEW s, NEW t, NEW O, NEW v \in VPages, Ready(s, O), v \notin ToSet(s.e.active),
           v \notin ToSet(s.e.second), Len(s.e.active) = ActiveListSize, t = Place(Demote(s), v)
    PROVE  Served(s, t, O)
  <1> DEFINE d == Demote(s)
             l == Last(s.e.active)
  <1>1. s.e.active # << >> /\ l \in VPages /\ Len(Front(s.e.active)) = ActiveListSize - 1
        /\ ToSet(s.e.active) = ToSet(Front(s.e.active)) \cup {l} /\ ActiveListSize \in Nat
    BY ActiveSizes DEF Ready
  <1>2. DemotedTo(s, d, O)
    BY <1>1, DemoteDone DEF Ready, ListsFit
  <1> HIDE DEF d
  <1>3. /\ Step(s, d, O, {l}) /\ d.e.status = s.e.status /\ d.m.panic = s.m.panic
        /\ d.e.active = Front(s.e.active) /\ d.e.second = Cons(l, s.e.second)
        /\ Lists(d) /\ Hidden(d)
    BY <1>2 DEF DemotedTo, Ready
  <1>4. ToSet(d.e.second) = {l} \cup ToSet(s.e.second)
    BY <1>1, <1>3, ListsTyped, ConsElements DEF Ready
  <1>5. Room(d, v)
    <2>1. v \notin ToSet(d.e.active) /\ v \notin ToSet(d.e.second)
      BY <1>1, <1>3, <1>4
    <2>2. QED BY <1>1, <1>3, <2>1 DEF Room
  <1>6. Good(d, O) /\ d.e.dir # 0 /\ ~d.m.panic
    BY <1>3 DEF Step, Ready
  <1>7. Served(d, t, O)
    BY <1>3, <1>5, <1>6, PlaceServes DEF Ready, d
  <1>8. QED BY <1>1, <1>3, <1>7, ServedAfter

\* The victim is the last of the active list: no second list.
LEMMA FaultReplacesActive ==
    ASSUME NEW s, NEW t, NEW O, NEW v \in VPages, Ready(s, O), v \notin ToSet(s.e.active),
           s.e.second = << >>, Len(s.e.active) = ActiveListSize,
           t = Place([Unmap(s, Last(s.e.active)) EXCEPT !.e.active = Front(@)], v)
    PROVE  Served(s, t, O)
  <1> DEFINE l == Last(s.e.active)
             a == Front(s.e.active)
             u == Unmap(s, l)
             w == [u EXCEPT !.e.active = a]
  <1>1. s.e.active # << >> /\ l \in VPages /\ Len(a) = ActiveListSize - 1
        /\ ToSet(s.e.active) = ToSet(a) \cup {l} /\ ActiveListSize \in Nat
    BY ActiveSizes DEF Ready
  <1>2. /\ Typed(s) /\ s.e.active \in Seq(VPages) /\ s.e.second \in Seq(VPages)
    BY ListsTyped DEF Ready
  <1>3. a \in Seq(VPages) /\ Distinct(a) /\ l \notin ToSet(a)
    <2>1. Distinct(s.e.active)
      BY DEF Ready, ListsFit, Lists
    <2>2. QED BY <1>1, <1>2, <2>1, FrontShape, FrontElements
  <1>4. Unmapped(s, u, O, l)
    BY <1>1, PageUnmapped DEF Unmap, Ready
  <1>5. u.e = s.e /\ Typed(u)
    BY <1>4 DEF Unmapped, Step, Good
  <1>6. t = Place(w, v)
    BY <1>5
  <1>7. NewLists(u, w, a, s.e.second)
    BY <1>2, <1>3, <1>5, ListsSet
  <1>8. Distinct(s.e.second) /\ ToSet(s.e.second) = {}
    BY DEF Distinct, ToSet
  <1>9. LeavesLists(s, l, a, s.e.second)
    BY <1>1, <1>2, <1>3, <1>8 DEF LeavesLists
  <1> HIDE DEF w, a, l, u
  <1>10. Left(s, w, O, l, a, s.e.second)
    BY <1>1, <1>4, <1>7, <1>9, LastUnmapped DEF Ready, ListsFit
  <1>11. /\ Step(s, w, O, {l}) /\ w.e.active = a /\ w.e.second = s.e.second /\ w.e.status = s.e.status
         /\ w.m.panic = s.m.panic /\ Lists(w) /\ Hidden(w) /\ w.e.dir = s.e.dir
    BY <1>10 DEF Left
  <1>12. Room(w, v)
    <2>1. v \notin ToSet(w.e.active) /\ v \notin ToSet(w.e.second)
      BY <1>1, <1>8, <1>11
    <2>2. QED BY <1>1, <1>11, <2>1 DEF Room
  <1>13. Good(w, O) /\ w.e.dir # 0 /\ ~w.m.panic
    BY <1>11 DEF Step, Ready
  <1>14. Served(w, t, O)
    BY <1>6, <1>11, <1>12, <1>13, PlaceServes DEF Ready
  <1>15. QED BY <1>1, <1>11, <1>14, ServedAfter

\* The victim is the last of the second list.
LEMMA FaultReplacesSecond ==
    ASSUME NEW s, NEW t, NEW O, NEW v \in VPages, Ready(s, O), v \notin ToSet(s.e.active),
           v \notin ToSet(s.e.second), s.e.second # << >>,
           t = Place(Demote([Unmap(s, Last(s.e.second)) EXCEPT !.e.second = Front(@)]), v)
    PROVE  Served(s, t, O)
  <1> DEFINE l == Last(s.e.second)
             b == Front(s.e.second)
             u == Unmap(s, l)
             w == [u EXCEPT !.e.second = b]
  <1>1. /\ Typed(s) /\ s.e.active \in Seq(VPages) /\ s.e.second \in Seq(VPages)
    BY ListsTyped DEF Ready
  <1>2. Distinct(s.e.active) /\ Distinct(s.e.second) /\ ToSet(s.e.active) \cap ToSet(s.e.second) = {}
        /\ Len(s.e.active) = ActiveListSize
    BY DEF Ready, ListsFit, Lists
  <1>3. b \in Seq(VPages) /\ Distinct(b) /\ ToSet(b) = ToSet(s.e.second) \ {l} /\ l \in VPages
        /\ l \in ToSet(s.e.second)
    BY <1>1, <1>2, FrontShape, FrontElements
  <1>4. Unmapped(s, u, O, l)
    BY <1>3, PageUnmapped DEF Unmap, Ready
  <1>5. u.e = s.e /\ Typed(u)
    BY <1>4 DEF Unmapped, Step, Good
  <1>6. t = Place(Demote(w), v)
    BY <1>5
  <1>7. NewLists(u, w, s.e.active, b)
    BY <1>1, <1>3, <1>5, ListsSet
  <1>9. LeavesLists(s, l, s.e.active, b)
    BY <1>1, <1>2, <1>3 DEF LeavesLists
  <1> HIDE DEF w, b, l, u
  <1>10. Left(s, w, O, l, s.e.active, b)
    BY <1>3, <1>4, <1>7, <1>9, LastUnmapped DEF Ready, ListsFit
  <1>11. /\ Step(s, w, O, {l}) /\ w.e.active = s.e.active /\ w.e.second = b /\ w.e.status = s.e.status
         /\ w.m.panic = s.m.panic /\ Lists(w) /\ Hidden(w) /\ w.e.dir = s.e.dir
    BY <1>10 DEF Left
  <1>12. Ready(w, O)
    <2>1. ListsFit(w)
      BY <1>2, <1>11, ProgramFits DEF ListsFit
    <2>2. QED BY <1>11, <2>1 DEF Ready, Step
  <1>13. Served(w, t, O)
    BY <1>2, <1>3, <1>6, <1>11, <1>12, FaultOfActive
  <1>14. QED BY <1>3, <1>11, <1>13, ServedAfter

\* page_fault_handler, whichever way it goes.
LEMMA PageFaultServes ==
    ASSUME NEW s, NEW t, NEW O, NEW v \in VPages, Ready(s, O), ~Entry(s, v).p,
           t = page_fault_handler(s, v)
    PROVE  Served(s, t, O)
  <1> DEFINE full == Len(s.e.active) + Len(s.e.second) = ActiveListSize + SecondListSize
  <1>1. v \notin ToSet(s.e.active)
    BY DEF Ready, ListsFit, Lists
  <1>2. /\ Len(s.e.active) \in Nat /\ Len(s.e.second) \in Nat
        /\ ActiveListSize \in Nat /\ SecondListSize \in Nat /\ Len(s.e.active) <= ActiveListSize
        /\ s.e.second # << >> => Len(s.e.active) = ActiveListSize
        /\ Len(s.e.second) = 0 <=> s.e.second = << >>
    BY ListsTyped, ProgramFits, ActiveSizes DEF Ready, ListsFit
  <1>3. CASE ~full /\ Len(s.e.active) # ActiveListSize
    <2>1. t = Place(s, v)
      BY <1>3 DEF page_fault_handler
    <2>2. s.e.second = << >>
      BY <1>2, <1>3
    <2>3. Len(s.e.active) < ActiveListSize
      BY <1>2, <1>3
    <2>4. v \notin ToSet(s.e.second)
      BY <2>2 DEF ToSet
    <2>5. Room(s, v)
      BY <1>1, <2>2, <2>3, <2>4 DEF Room, Ready, ListsFit
    <2>6. QED BY <2>1, <2>5, PlaceServes DEF Ready
  <1>4. CASE (full \/ Len(s.e.active) = ActiveListSize) /\ v \in ToSet(s.e.second)
    <2>1. t = Refault(s, v)
      BY <1>4 DEF page_fault_handler
    <2>2. QED BY <1>4, <2>1, RefaultServes DEF Ready
  <1>5. CASE ~full /\ Len(s.e.active) = ActiveListSize /\ v \notin ToSet(s.e.second)
    <2>1. t = Place(Demote(s), v)
      BY <1>5 DEF page_fault_handler
    <2>2. QED BY <1>1, <1>5, <2>1, FaultOfActive
  <1>6. CASE full /\ v \notin ToSet(s.e.second) /\ SecondListSize = 0
    <2>1. t = Place([Unmap(s, Last(s.e.active)) EXCEPT !.e.active = Front(@)], v)
      BY <1>6 DEF page_fault_handler
    <2>2. s.e.second = << >> /\ Len(s.e.active) = ActiveListSize
      <3> DEFINE k == Len(s.e.active)
                 n == Len(s.e.second)
                 empty == s.e.second = << >>
      <3>0. k + n = ActiveListSize + SecondListSize /\ SecondListSize = 0
        BY <1>6
      <3>1. /\ k \in Nat /\ n \in Nat /\ ActiveListSize \in Nat /\ k <= ActiveListSize
            /\ ~empty => k = ActiveListSize
            /\ n = 0 <=> empty
        BY <1>2
      <3> HIDE DEF k, n, empty
      <3>2. k = ActiveListSize /\ n = 0
        BY <3>0, <3>1
      <3>3. QED BY <3>1, <3>2 DEF k, empty
    <2>3. QED BY <1>1, <2>1, <2>2, FaultReplacesActive
  <1>7. CASE full /\ v \notin ToSet(s.e.second) /\ SecondListSize # 0
    <2>1. t = Place(Demote([Unmap(s, Last(s.e.second)) EXCEPT !.e.second = Front(@)]), v)
      BY <1>7 DEF page_fault_handler
    <2>2. s.e.second # << >>
      <3> DEFINE k == Len(s.e.active)
                 n == Len(s.e.second)
      <3>1. /\ k \in Nat /\ n \in Nat /\ ActiveListSize \in Nat /\ k <= ActiveListSize
            /\ SecondListSize \in Nat /\ SecondListSize # 0
            /\ s.e.second = << >> => n = 0
            /\ k + n = ActiveListSize + SecondListSize
        BY <1>2, <1>7
      <3> HIDE DEF k, n
      <3>2. n # 0
        BY <3>1
      <3>3. QED BY <3>1, <3>2
    <2>3. QED BY <1>1, <1>7, <2>1, <2>2, FaultReplacesSecond
  <1>8. QED BY <1>3, <1>4, <1>5, <1>6, <1>7

\* fault_handler: a table for the address, or the page.
LEMMA FaultServes ==
    ASSUME NEW s, NEW t, NEW O, NEW v \in VPages, Ready(s, O), ~Entry(s, v).p,
           t = fault_handler(s, v)
    PROVE  Served(s, t, O)
  <1>1. HasTable(s.m, s.e.dir, v) <=> TableEntry(s, PDX(v)) # Zero
    BY Looked DEF Ready
  <1>2. CASE TableEntry(s, PDX(v)) # Zero
    BY <1>1, <1>2, PageFaultServes DEF fault_handler
  <1>3. CASE TableEntry(s, PDX(v)) = Zero
    <2>1. t = WithMem(s, __static_cpt(s.m, s.e.dir, v))
      BY <1>1, <1>3 DEF fault_handler
    <2>2. Step(s, t, O, {}) /\ t.e = s.e
      BY <1>3, <2>1, TableMade DEF Ready
    <2>3. OnlyMaps(s, t, O, {})
      BY <2>2 DEF OnlyMaps, Step
    <2>4. QED BY <2>3, OnlyMapsServed DEF Ready
  <1>4. QED BY <1>2, <1>3

-----------------------------------------------------------------------------
(* sys_freeMem. *)

\* free_frame: the frame goes to the head of the free list.
LEMMA FreeFacts ==
    ASSUME NEW mem \in Memories, NEW f \in Frames
    PROVE  LET d == free_frame(mem, f) IN
           /\ d \in Memories /\ d.word = mem.word /\ d.panic = mem.panic
           /\ d.free = <<f>> \o mem.free /\ d.refs[f] = 0
           /\ \A g \in Frames \ {f} : d.refs[g] = mem.refs[g]
  <1> DEFINE q == <<f>> \o mem.free
             y == Listed(mem, f, q)
             d == free_frame(mem, f)
  <1>1. q \in Seq(Frames) /\ d = y
    <2>1. mem.free \in Seq(Frames)
      BY DEF Memories
    <2>2. QED BY <2>1, ConsShape DEF free_frame, Listed, Cons
  <1> HIDE DEF q, d
  <1>2. /\ y \in Memories /\ y.word = mem.word /\ y.panic = mem.panic /\ y.free = q
        /\ f \in Frames => y.refs[f] = 0
        /\ \A g \in Frames \ {f} : y.refs[g] = mem.refs[g]
    BY <1>1, ListedFacts
  <1> HIDE DEF y
  <1>3. QED BY <1>1, <1>2 DEF q, d

\* sys_freeMem unmaps a page and clears its entry once more.
LEMMA PageGone ==
    ASSUME NEW s, NEW t, NEW O, NEW v \in VPages,
           Good(s, O), O \subseteq Frames, TableEntry(s, PDX(v)) # Zero, t = DropPage(s, v)
    PROVE  Unmapped(s, t, O, v)
  <1> DEFINE a == unmap_frame(s.m, s.e.dir, v)
             u == WithMem(s, a)
             n == SetPTE(u.m, u.e.dir, v, Zero)
  <1>1. s.e.dir # 0 /\ Typed(s) /\ IsPair(s) /\ PDX(v) \in UserDirs /\ Zero \in Words
    BY OwnFacts, TypedIsPair, PagePlace DEF Good, Zero, Words
  <1>2. Unmapped(s, u, O, v)
    BY <1>1, PageUnmapped
  <1>3. u.m = a /\ u.e = s.e /\ \A x : WithMem(u, x) = WithMem(s, x)
    BY <1>1, PairFacts
  <1>4. t = WithMem(u, n)
    BY <1>3 DEF DropPage
  <1> HIDE DEF a, u
  <1>5. /\ Step(s, u, O, {v}) /\ Entry(u, v) = Zero /\ u.m.panic = s.m.panic /\ Good(u, O)
        /\ \A j \in UserDirs : TableEntry(u, j) = TableEntry(s, j)
    BY <1>2 DEF Unmapped, Step
  <1>6. u.m \in Memories /\ u.e.dir # 0 /\ TableEntry(u, PDX(v)) # Zero
    BY <1>1, <1>3, <1>5, OwnFacts
  <1>7. /\ n.refs = u.m.refs /\ n.free = u.m.free /\ n.panic = u.m.panic
        /\ t.m = n /\ t.e = u.e /\ Typed(t) /\ Writes(u, t, v, Zero)
    BY <1>1, <1>4, <1>5, <1>6, SetPTEFacts
  <1> HIDE DEF n
  <1>8. Rewritten(u, t, v, Zero)
    BY <1>7 DEF Rewritten
  <1>9. Good(t, O \cup {Entry(u, v).pa}) /\ Remapped(u, t, O, v, Zero)
    BY <1>5, <1>8, PageDropped
  <1>10. Good(t, O)
    BY <1>9, GoodLess
  <1>11. Step(u, t, O, {v})
    BY <1>7, <1>9, <1>10 DEF Step, Remapped
  <1>12. Step(s, t, O, {v} \cup {v})
    BY <1>5, <1>11, StepThen
  <1>13. {v} \cup {v} = {v}
    OBVIOUS
  <1>14. QED BY <1>3, <1>5, <1>7, <1>9, <1>12, <1>13 DEF Unmapped, Remapped

\* A table is taken out of the directory and its frame freed.
TableGone(s, t, O, i) ==
    Good(t, O) /\ t.e = s.e /\ Untabled(s, t, O, i) /\ t.m.panic = s.m.panic

\* An empty table goes back to the free list.
LEMMA TableFreed ==
    ASSUME NEW s, NEW t, NEW O, NEW i \in UserDirs,
           Good(s, O), O \subseteq Frames, TableEntry(s, i) # Zero,
           t = WithMem(s, Put(free_frame(s.m, TableEntry(s, i).pa), s.e.dir, i, Zero))
    PROVE  TableGone(s, t, O, i)
  <1> DEFINE f == TableEntry(s, i).pa
             d == free_frame(s.m, f)
             n == Put(d, s.e.dir, i, Zero)
             k == Put(s.m, s.e.dir, i, Zero)
             u == WithMem(s, k)
  <1>1. /\ s.m \in Memories /\ Typed(s) /\ s.e.dir # 0 /\ Zero \in Words
        /\ f \in Frames \ {0} /\ f \notin O /\ s.m.free \in Seq(Frames)
    BY OwnFacts DEF Good, Zero, Words, Memories
  <1>2. t = WithMem(s, n)
    OBVIOUS
  <1> HIDE DEF f
  <1>3. /\ d \in Memories /\ d.word = s.m.word /\ d.panic = s.m.panic /\ d.free = <<f>> \o s.m.free
        /\ d.refs[f] = 0
        /\ \A g \in Frames \ {f} : d.refs[g] = s.m.refs[g]
    BY <1>1, FreeFacts
  <1> HIDE DEF d
  <1>4. /\ n \in Memories /\ n.refs = d.refs /\ n.free = d.free /\ n.panic = d.panic
        /\ k \in Memories /\ k.refs = s.m.refs /\ k.free = s.m.free /\ k.panic = s.m.panic
    BY <1>1, <1>3, PutFacts
  <1>5. n.word = k.word
    BY <1>1, <1>3, PutWord
  <1>6. u = WithMem(s, k)
    OBVIOUS
  <1> HIDE DEF n, k, u
  <1>7. t.m = n /\ t.e = s.e /\ Typed(t) /\ u.m = k /\ u.e = s.e /\ Typed(u)
    BY <1>1, <1>2, <1>4, <1>6, WithMemFacts
  <1>8. DropsTable(s, u, i)
    BY <1>1, <1>4, <1>7 DEF DropsTable, WritesTable, k
  <1>9. Good(u, O \cup {f}) /\ Untabled(s, u, O, i)
    BY <1>8, TableDropped DEF f
  <1>10. Frees(u, t, f)
    BY <1>3, <1>4, <1>5, <1>7 DEF Frees
  <1>11. Good(t, O) /\ Alike(u, t, O)
    BY <1>1, <1>9, <1>10, FrameFreed
  <1>12. Untabled(s, t, O, i)
    <2>1. Spares(t.m, s.m, O) /\ SameHalf(s, t)
      BY <1>7, <1>9, <1>11, SMTT(60) DEF Untabled, Alike, Spares, SameHalf
    <2>2. QED BY <2>1, <1>9, <1>11 DEF Untabled, Alike, SameMap
  <1>13. QED BY <1>3, <1>4, <1>7, <1>11, <1>12 DEF TableGone

\* An empty table is freed when its last page is.
LEMMA EmptyTableFreed ==
    ASSUME NEW s, NEW t, NEW O, NEW v \in VPages,
           Good(s, O), O \subseteq Frames, s.e.dir # 0, t = DropTable(s, v)
    PROVE  OnlyMaps(s, t, O, {}) /\ t.m.panic = s.m.panic
  <1> DEFINE i == PDX(v)
             f == s.m.word[s.e.dir][i].pa
  <1>1. i \in UserDirs /\ TableEntry(s, i) = s.m.word[s.e.dir][i]
    BY PagePlace, OwnFacts
  <1>2. CASE f # 0 /\ \A j \in 0 .. W - 1 : s.m.word[f][j] = Zero
    <2>1. t = WithMem(s, Put(free_frame(s.m, TableEntry(s, i).pa), s.e.dir, i, Zero))
      BY <1>1, <1>2, ZenonT(60) DEF DropTable
    <2>2. TableEntry(s, i) # Zero
      <3>1. Zero.pa = 0
        BY SMTT(60) DEF Zero
      <3>2. QED BY <1>1, <1>2, <3>1, Zenon
    <2> HIDE DEF i
    <2>3. TableGone(s, t, O, i)
      BY <1>1, <2>1, <2>2, TableFreed, ZenonT(60)
    <2>4. \A u \in VPages : PDX(u) = i => Entry(s, u) = Zero
      BY <1>1, <1>2, <2>2, PagePlace, Zenon DEF Entry
    <2>5. \A u \in VPages : Entry(t, u) = Entry(s, u)
      BY <2>3, <2>4 DEF TableGone, Untabled
    <2>6. QED BY <2>3, <2>5, SMTT(60) DEF OnlyMaps, Step, TableGone, Untabled
  <1>3. CASE ~(f # 0 /\ \A j \in 0 .. W - 1 : s.m.word[f][j] = Zero)
    <2>1. t = s
      BY <1>3, Zenon DEF DropTable
    <2>2. QED BY <2>1, OnlyMapsSame, SMTT(60)
  <1>4. QED BY <1>2, <1>3

\* The head of the second list takes the place of a page of the active list.
LEMMA RefillServes ==
    ASSUME NEW s, NEW t, NEW O, Good(s, O), O \subseteq Frames, Hidden(s), Lists(s),
           Len(s.e.active) < ActiveListSize,
           s.e.second # << >> => Len(s.e.active) = ActiveListSize - 1,
           t = Refill(s)
    PROVE  Served(s, t, O)
  <1>1. /\ Typed(s) /\ s.e.active \in Seq(VPages) /\ s.e.second \in Seq(VPages)
        /\ ToSet(s.e.active) \subseteq VPages /\ ToSet(s.e.second) \subseteq VPages /\ ~Zero.p
        /\ Len(s.e.active) \in Nat
    BY ListsTyped
  <1>2. CASE s.e.second = << >>
    <2>1. t = s
      BY <1>2 DEF Refill
    <2>2. ListsFit(s)
      BY <1>1, <1>2, ProgramFits DEF ListsFit
    <2>3. QED BY <2>1, <2>2, OnlyMapsSame, OnlyMapsServed
  <1>3. CASE s.e.second # << >>
    <2> DEFINE v == Head(s.e.second)
               a == Append(s.e.active, v)
               b == Tail(s.e.second)
               x == [s.e EXCEPT !.second = b, !.active = a]
               u == [m |-> s.m, e |-> x]
    <2>1. /\ v \in VPages /\ v \in ToSet(s.e.second) /\ b \in Seq(VPages) /\ Distinct(b)
          /\ ToSet(s.e.second) = ToSet(b) \cup {v} /\ v \notin ToSet(b) /\ v \notin ToSet(s.e.active)
      <3>1. Distinct(s.e.second) /\ ToSet(s.e.active) \cap ToSet(s.e.second) = {}
        BY DEF Lists
      <3>2. QED BY <1>1, <1>3, <3>1, HeadElements
    <2> HIDE DEF v
    <2>2. /\ a \in Seq(VPages) /\ Len(a) = Len(s.e.active) + 1
          /\ ToSet(a) = ToSet(s.e.active) \cup {v} /\ Distinct(a)
      <3> DEFINE q == s.e.active
      <3>1. q \in Seq(VPages) /\ Distinct(q) /\ v \notin ToSet(q)
        BY <1>1, <2>1 DEF Lists
      <3> HIDE DEF q
      <3>2. Append(q, v) \in Seq(VPages) /\ Len(Append(q, v)) = Len(q) + 1
            /\ ToSet(Append(q, v)) = ToSet(q) \cup {v} /\ Distinct(Append(q, v))
        BY <2>1, <3>1, AppendElements
      <3>3. QED BY <3>2 DEF q
    <2>3. t = [m |-> SetPresent(s.m, s.e.dir, v, TRUE), e |-> x]
      BY <1>3, SMTT(60) DEF Refill, v
    <2> HIDE DEF a, b
    <2>4. EnvRelisted(s.e, x, a, b) /\ s.e \in Environments /\ s.m \in Memories
      BY <1>1, <2>1, <2>2, EnvLists DEF Typed
    <2> HIDE DEF x
    <2>5. NewLists(s, u, a, b)
      <3>1. Typed(u) /\ u.m = s.m /\ u.e = x
        BY <2>4 DEF Typed, EnvRelisted
      <3>2. QED BY <2>4, <3>1 DEF NewLists
    <2>6. t = WithMem(u, SetPresent(u.m, u.e.dir, v, TRUE))
      <3>1. \A y : WithMem(u, y) = [m |-> y, e |-> x]
        BY DEF WithMem
      <3>2. u.m = s.m /\ u.e.dir = s.e.dir
        BY <2>5 DEF NewLists, EnvRelisted
      <3>3. QED BY <2>3, <3>1, <3>2
    <2> HIDE DEF u
    <2>7. TakenFrom(s, t, O, v, a, b)
      BY <2>1, <2>5, <2>6, Taken
    <2>8. /\ Step(s, t, O, {v}) /\ t.m.panic = s.m.panic
          /\ t.e.active = a /\ t.e.second = b /\ t.e.status = s.e.status
          /\ Entry(t, v).p /\ Entry(t, v) # Zero
          /\ \A y \in VPages \ {v} : Entry(t, y) = Entry(s, y)
      BY <2>7 DEF TakenFrom
    <2>9. Hidden(t)
      BY <2>1, <2>8 DEF Hidden
    <2>10. Lists(t)
      <3>1. \A y \in ToSet(a) : Entry(t, y).p
        BY <1>1, <2>2, <2>8 DEF Lists
      <3>2. \A y \in ToSet(b) : Entry(t, y) # Zero
        BY <1>1, <2>1, <2>8 DEF Lists
      <3>3. ToSet(a) \cap ToSet(b) = {}
        BY <2>1, <2>2 DEF Lists
      <3>4. QED BY <2>1, <2>2, <2>8, <3>1, <3>2, <3>3 DEF Lists
    <2>11. Len(a) = ActiveListSize /\ ActiveListSize \in Nat
      BY <1>1, <1>3, <2>2, ProgramFits
    <2>12. ListsFit(t)
      BY <2>8, <2>10, <2>11 DEF ListsFit
    <2>13. QED BY <2>1, <2>8, <2>9, <2>12, StepMore DEF Served
  <1>4. QED BY <1>2, <1>3

\* The page leaves the page file.
LEMMA PageFileLess ==
    ASSUME NEW s, NEW t, NEW O, NEW v, Good(s, O), t = pf_remove_env_page(s, v)
    PROVE  OnlyMaps(s, t, O, {}) /\ t.m = s.m
  <1> DEFINE x == [s.e EXCEPT !.pf = @ \ {v}]
  <1>1. Typed(s) /\ s.e \in Environments
    BY ListsTyped
  <1>2. x \in Environments /\ x.dir = s.e.dir /\ x.disk = s.e.disk
        /\ x.active = s.e.active /\ x.second = s.e.second /\ x.status = s.e.status
    BY <1>1 DEF Environments
  <1>3. t = [s EXCEPT !.e = x]
    BY DEF pf_remove_env_page
  <1> HIDE DEF x
  <1>4. t.m = s.m /\ t.e = x /\ Typed(t)
    BY <1>1, <1>2, <1>3, WithEnvFacts
  <1>5. Step(s, t, O, {}) /\ SameMap(s, t)
    BY <1>2, <1>4, Relisted DEF Relists
  <1>6. QED BY <1>2, <1>4, <1>5 DEF OnlyMaps, SameMap

\* A page of the active list is given back.
LEMMA ActivePageFreed ==
    ASSUME NEW s, NEW t, NEW O, NEW v, Ready(s, O), v \in ToSet(s.e.active),
           t = Refill([DropPage(s, v) EXCEPT !.e.active = Without(@, v)])
    PROVE  Served(s, t, O)
  <1> DEFINE u == DropPage(s, v)
             a == Without(s.e.active, v)
             w == [u EXCEPT !.e.active = a]
  <1>1. /\ Typed(s) /\ s.e.active \in Seq(VPages) /\ s.e.second \in Seq(VPages)
        /\ ToSet(s.e.active) \subseteq VPages /\ ~Zero.p
    BY ListsTyped DEF Ready
  <1>2. /\ Lists(s) /\ Len(s.e.active) <= ActiveListSize
        /\ s.e.second # << >> => Len(s.e.active) = ActiveListSize
    BY DEF Ready, ListsFit
  <1>3. Entry(s, v).p /\ v \in VPages /\ Entry(s, v) # Zero /\ TableEntry(s, PDX(v)) # Zero
    <2>1. Entry(s, v).p /\ v \in VPages /\ Entry(s, v) # Zero
      BY <1>1, <1>2 DEF Lists
    <2>2. QED BY <2>1 DEF Entry
  <1>4. /\ a \in Seq(VPages) /\ Distinct(a) /\ ToSet(a) = ToSet(s.e.active) \ {v}
        /\ Len(a) = Len(s.e.active) - 1 /\ Len(s.e.active) \in Nat \ {0}
    <2>1. Distinct(s.e.active)
      BY <1>2 DEF Lists
    <2>2. QED BY <1>1, <2>1, WithoutElements
  <1>5. Unmapped(s, u, O, v)
    BY <1>3, PageGone DEF Ready
  <1>6. u.e = s.e /\ Typed(u)
    BY <1>5 DEF Unmapped, Step, Good
  <1>7. t = Refill(w)
    BY <1>6
  <1>8. NewLists(u, w, a, s.e.second)
    BY <1>1, <1>4, <1>6, ListsSet
  <1>9. LeavesLists(s, v, a, s.e.second)
    BY <1>1, <1>2, <1>4 DEF LeavesLists, Lists
  <1> HIDE DEF w, a, u
  <1>10. Left(s, w, O, v, a, s.e.second)
    BY <1>3, <1>5, <1>8, <1>9, LastUnmapped DEF Ready, ListsFit
  <1>11. /\ Step(s, w, O, {v}) /\ w.e.active = a /\ w.e.second = s.e.second /\ w.e.status = s.e.status
         /\ w.m.panic = s.m.panic /\ Lists(w) /\ Hidden(w) /\ Good(w, O)
    BY <1>10 DEF Left, Step
  <1>12. Len(w.e.active) < ActiveListSize /\ (w.e.second # << >> => Len(w.e.active) = ActiveListSize - 1)
    <2> DEFINE k == Len(s.e.active)
               n == Len(a)
    <2>1. k \in Nat /\ n = k - 1 /\ k <= ActiveListSize /\ ActiveListSize \in Nat
      BY <1>2, <1>4, ProgramFits
    <2>2. s.e.second # << >> => k = ActiveListSize
      BY <1>2
    <2>3. w.e.active = a /\ w.e.second = s.e.second
      BY <1>11
    <2> HIDE DEF k, n
    <2>4. n < ActiveListSize /\ (s.e.second # << >> => n = ActiveListSize - 1)
      BY <2>1, <2>2
    <2>5. QED BY <2>3, <2>4 DEF n
  <1>13. Served(w, t, O)
    BY <1>7, <1>11, <1>12, RefillServes DEF Ready
  <1>14. QED BY <1>3, <1>11, <1>13, ServedAfter

\* A page of the second list is given back.
LEMMA SecondPageFreed ==
    ASSUME NEW s, NEW t, NEW O, NEW v, Ready(s, O), v \in ToSet(s.e.second),
           t = [DropPage(s, v) EXCEPT !.e.second = Without(@, v)]
    PROVE  Served(s, t, O)
  <1> DEFINE u == DropPage(s, v)
             b == Without(s.e.second, v)
             w == [u EXCEPT !.e.second = b]
  <1>1. /\ Typed(s) /\ s.e.active \in Seq(VPages) /\ s.e.second \in Seq(VPages)
        /\ ToSet(s.e.second) \subseteq VPages
    BY ListsTyped DEF Ready
  <1>2. /\ Lists(s) /\ Len(s.e.active) <= ActiveListSize
        /\ s.e.second # << >> => Len(s.e.active) = ActiveListSize
    BY DEF Ready, ListsFit
  <1>3. v \in VPages /\ Entry(s, v) # Zero /\ TableEntry(s, PDX(v)) # Zero
    <2>1. v \in VPages /\ Entry(s, v) # Zero
      BY <1>1, <1>2 DEF Lists
    <2>2. QED BY <2>1 DEF Entry
  <1>4. b \in Seq(VPages) /\ Distinct(b) /\ ToSet(b) = ToSet(s.e.second) \ {v}
    <2>1. Distinct(s.e.second)
      BY <1>2 DEF Lists
    <2>2. QED BY <1>1, <2>1, WithoutElements
  <1>5. Unmapped(s, u, O, v)
    BY <1>3, PageGone DEF Ready
  <1>6. u.e = s.e /\ Typed(u)
    BY <1>5 DEF Unmapped, Step, Good
  <1>7. t = w
    BY <1>6
  <1>8. NewLists(u, w, s.e.active, b)
    BY <1>1, <1>4, <1>6, ListsSet
  <1>9. LeavesLists(s, v, s.e.active, b)
    BY <1>1, <1>2, <1>4 DEF LeavesLists, Lists
  <1> HIDE DEF w, b, u
  <1>10. Left(s, w, O, v, s.e.active, b)
    BY <1>3, <1>5, <1>8, <1>9, LastUnmapped DEF Ready, ListsFit
  <1>11. /\ Step(s, w, O, {v}) /\ w.e.active = s.e.active /\ w.e.second = b /\ w.e.status = s.e.status
         /\ Lists(w) /\ Hidden(w)
    BY <1>10 DEF Left
  <1>12. s.e.second # << >>
    <2>1. ToSet(<< >>) = {}
      BY DEF ToSet
    <2>2. QED BY <2>1
  <1>13. ListsFit(w)
    BY <1>2, <1>11, <1>12 DEF ListsFit
  <1>14. QED BY <1>3, <1>7, <1>11, <1>13, StepMore, ZenonT(60) DEF Served

-----------------------------------------------------------------------------
(* Ranges of pages, and frames taken for nobody. *)

\* An operation that only maps after one that serves.
LEMMA ServedThen ==
    ASSUME NEW s, NEW t, NEW u, NEW O, NEW V, Served(s, t, O), OnlyMaps(t, u, O, V),
           V \subseteq VPages, ~u.m.panic => ~t.m.panic
    PROVE  Served(s, u, O)
  <1>1. Good(t, O) /\ Step(s, t, O, VPages) /\ Step(t, u, O, V)
    BY DEF Served, OnlyMaps, Step
  <1>2. Step(s, u, O, VPages \cup V)
    BY <1>1, StepThen
  <1>3. Step(s, u, O, VPages)
    BY <1>2, StepMore
  <1>4. (Hidden(t) => Hidden(u)) /\ (ListsFit(t) => ListsFit(u))
    BY <1>1, OnlyMapsLists
  <1>5. u.e.status = s.e.status
    BY DEF Served, OnlyMaps
  <1>6. QED BY <1>3, <1>4, <1>5 DEF Served

\* sys_freeMem of a page.
LEMMA FreeServes ==
    ASSUME NEW s, NEW t, NEW O, NEW v \in VPages, Ready(s, O), t = freeMem(s, v)
    PROVE  Served(s, t, O)
  <1> DEFINE r == pf_remove_env_page(s, v)
             a == Refill([DropPage(r, v) EXCEPT !.e.active = Without(@, v)])
             b == [DropPage(r, v) EXCEPT !.e.second = Without(@, v)]
  <1>1. OnlyMaps(s, r, O, {}) /\ r.m = s.m
    BY PageFileLess DEF Ready
  <1>2. t = IF v \in ToSet(r.e.active) THEN DropTable(a, v)
            ELSE IF v \in ToSet(r.e.second) THEN DropTable(b, v) ELSE r
    BY DEF freeMem
  <1> HIDE DEF r
  <1>3. Ready(r, O)
    <2>1. Hidden(r) /\ ListsFit(r)
      BY <1>1, OnlyMapsLists DEF Ready
    <2>2. Good(r, O) /\ r.e.dir = s.e.dir
      BY <1>1 DEF OnlyMaps, Step
    <2>3. QED BY <1>1, <2>1, <2>2 DEF Ready
  <1>4. v \in ToSet(r.e.active) => Served(r, a, O)
    BY <1>3, ActivePageFreed
  <1>5. v \in ToSet(r.e.second) => Served(r, b, O)
    BY <1>3, SecondPageFreed
  <1> HIDE DEF a, b
  <1>6. \A x : Served(r, x, O) => Served(r, DropTable(x, v), O)
    <2> SUFFICES ASSUME NEW x, Served(r, x, O) PROVE Served(r, DropTable(x, v), O)
      OBVIOUS
    <2> DEFINE y == DropTable(x, v)
    <2>1. Good(x, O) /\ x.e.dir # 0 /\ O \subseteq Frames
      BY <1>3 DEF Served, Step, Ready
    <2>2. OnlyMaps(x, y, O, {}) /\ y.m.panic = x.m.panic
      BY <2>1, EmptyTableFreed
    <2> HIDE DEF y
    <2>3. Served(r, y, O)
      BY <2>2, ServedThen
    <2>4. QED BY <2>3 DEF y
  <1>7. Served(r, r, O)
    BY <1>3, OnlyMapsSame, OnlyMapsServed DEF Ready
  <1>8. Served(r, t, O)
    BY <1>2, <1>4, <1>5, <1>6, <1>7
  <1>9. Step(s, r, O, {}) /\ r.e.status = s.e.status
    BY <1>1 DEF OnlyMaps
  <1>10. QED BY <1>8, <1>9, ServedAfter

-----------------------------------------------------------------------------
MapPages == INSTANCE ListLemmas WITH Body <- MapPage
AllocatePages == INSTANCE ListLemmas WITH Body <- AllocatePage

\* The pages of a range.
LEMMA PagesFromFacts ==
    ASSUME NEW v \in Nat, NEW n \in Nat, v .. v + n - 1 \subseteq VPages
    PROVE  DOMAIN PagesFrom(v, n) = 1 .. n /\ \A i \in 1 .. n : PagesFrom(v, n)[i] \in v .. v + n - 1
  BY DEF PagesFrom

\* A handler that only maps, and what it has while it has not panicked.
Maps(s, t, O, V) == OnlyMaps(s, t, O, V) /\ (s.m.panic => t = s)

\* One turn of the loop that maps a range.
LEMMA PageMapped ==
    ASSUME NEW s, NEW t, NEW O, NEW v \in VPages, Good(s, O), O \subseteq Frames, s.e.dir # 0,
           t = MapPage(s, v)
    PROVE  Maps(s, t, O, {v})
  <1> DEFINE u == WithMem(s, MapNew(s.m, s.e.dir, v, map_frame))
  <1>1. t = IF s.m.panic THEN s ELSE u
    BY DEF MapPage, Then
  <1>2. ~s.m.panic => NewlyMapped(s, u, O, v)
    BY NewMapping DEF MapsNew
  <1> HIDE DEF u
  <1>3. ~s.m.panic => OnlyMaps(s, u, O, {v})
    BY <1>2, NewMappingMaps
  <1>4. OnlyMaps(s, s, O, {v})
    BY OnlyMapsSame, OnlyMapsMore
  <1>5. QED BY <1>1, <1>3, <1>4 DEF Maps

\* One turn of allocateMem's loop.
LEMMA PageAllocated ==
    ASSUME NEW s, NEW t, NEW O, NEW v \in VPages, Good(s, O), O \subseteq Frames, s.e.dir # 0,
           t = AllocatePage(s, v)
    PROVE  Maps(s, t, O, {v})
  <1> DEFINE u == IF s.m.panic THEN s ELSE pf_add_env_page(s, v)
  <1>1. t = MapPage(u, v)
    BY DEF AllocatePage, Then
  <1>2. OnlyMaps(s, u, O, {}) /\ (s.m.panic => u = s)
    BY DiskPageAdded, OnlyMapsSame
  <1> HIDE DEF u
  <1>3. Good(u, O) /\ u.e.dir # 0
    BY <1>2 DEF OnlyMaps, Step
  <1>4. Maps(u, t, O, {v})
    BY <1>1, <1>3, PageMapped
  <1>5. OnlyMaps(s, t, O, {} \cup {v})
    BY <1>2, <1>4, OnlyMapsThen DEF Maps
  <1>6. {} \cup {v} = {v}
    OBVIOUS
  <1>7. OnlyMaps(s, t, O, {v})
    BY <1>5, <1>6
  <1>8. QED BY <1>2, <1>4, <1>7 DEF Maps

\* What a loop of such calls keeps.
LEMMA MapsThen ==
    ASSUME NEW s, NEW t, NEW u, NEW O, NEW v, NEW V, OnlyMaps(s, t, O, V), Maps(t, u, O, {v}), v \in V
    PROVE  OnlyMaps(s, u, O, V)
  <1>1. OnlyMaps(s, u, O, V \cup {v})
    BY OnlyMapsThen DEF Maps
  <1>2. V \cup {v} = V
    OBVIOUS
  <1>3. QED BY <1>1, <1>2

\* allocateMem only maps the pages of its range, or panics on the way.
LEMMA MemoryAllocated ==
    ASSUME NEW s, NEW t, NEW O, NEW v \in Nat, NEW n \in Nat, Good(s, O), O \subseteq Frames,
           s.e.dir # 0, v .. v + n - 1 \subseteq VPages, t = allocateMem(s, v, n)
    PROVE  OnlyMaps(s, t, O, v .. v + n - 1)
  <1> DEFINE V == v .. v + n - 1
             q == PagesFrom(v, n)
             K == {x \in [m : Memories, e : Environments] : OnlyMaps(s, x, O, V)}
             J == [i \in 0 .. n |-> K]
  <1>1. DOMAIN q = 1 .. n /\ \A i \in 1 .. n : q[i] \in V
    BY PagesFromFacts
  <1> HIDE DEF q, V
  <1>2. \A x : x \in K <=> OnlyMaps(s, x, O, V)
    BY DEF OnlyMaps, Step, Good, Typed
  <1>3. s \in K
    <2>1. OnlyMaps(s, s, O, V)
      BY OnlyMapsSame, OnlyMapsMore
    <2>2. QED BY <1>2, <2>1
  <1> HIDE DEF K
  <1>4. \A i \in 1 .. n : \A a \in K : AllocatePage(a, q[i]) \in K
    <2> SUFFICES ASSUME NEW i \in 1 .. n, NEW a \in K PROVE AllocatePage(a, q[i]) \in K
      OBVIOUS
    <2> DEFINE b == AllocatePage(a, q[i])
    <2>1. OnlyMaps(s, a, O, V) /\ q[i] \in V /\ q[i] \in VPages
      BY <1>1, <1>2 DEF V
    <2>2. Good(a, O) /\ a.e.dir # 0
      BY <2>1 DEF OnlyMaps, Step
    <2>3. Maps(a, b, O, {q[i]})
      BY <2>1, <2>2, PageAllocated
    <2> HIDE DEF b
    <2>4. OnlyMaps(s, b, O, V)
      BY <2>1, <2>3, MapsThen
    <2>5. QED BY <1>2, <2>4 DEF b
  <1>5. s \in J[0] /\ \A i \in 1 .. n : \A a \in J[i - 1] : AllocatePage(a, q[i]) \in J[i]
    <2>1. \A i \in 1 .. n : i - 1 \in 0 .. n /\ i \in 0 .. n
      OBVIOUS
    <2>2. 0 \in 0 .. n /\ n \in 0 .. n
      OBVIOUS
    <2>3. QED BY <1>3, <1>4, <2>1, <2>2
  <1>6. J[n] = K
    OBVIOUS
  <1> HIDE DEF J
  <1>7. AllocatePages!FoldLeft(AllocatePage, s, q) \in J[n]
    BY <1>1, <1>5, AllocatePages!FoldKeeps
  <1>8. AllocatePages!FoldLeft(AllocatePage, s, q) = FoldLeft(AllocatePage, s, q)
    BY DEF AllocatePages!FoldLeft, FoldLeft, MapThenFoldSet, AllocatePages!MapThenFoldSet,
           AllocatePages!Max, Max
  <1>9. QED BY <1>2, <1>6, <1>7, <1>8 DEF allocateMem, q, V

\* A frame taken for nobody.
LEMMA FrameLeft ==
    ASSUME NEW s, NEW t, NEW O, Good(s, O), O \subseteq Frames, t = WithMem(s, allocate_frame(s.m))
    PROVE  OnlyMaps(s, t, O, {}) /\ t.e = s.e
  <1>1. s.m \in Memories /\ Typed(s)
    BY OwnFacts DEF Good
  <1>2. CASE s.m.free = << >>
    <2>1. t = WithMem(s, [s.m EXCEPT !.panic = TRUE]) /\ TRUE \in BOOLEAN
      BY <1>1, <1>2, AllocateFacts
    <2>2. QED BY <2>1, PanicMaps
  <1>3. CASE s.m.free # << >>
    <2> DEFINE a == allocate_frame(s.m)
    <2>1. /\ a \in Memories /\ a.word = s.m.word /\ a.free = Tail(s.m.free)
          /\ \A g \in Frames \ {Head(s.m.free)} : a.refs[g] = s.m.refs[g]
      BY <1>1, <1>3, AllocateFacts
    <2> HIDE DEF a
    <2>2. t.m = a /\ t.e = s.e /\ Typed(t)
      BY <1>1, <2>1, WithMemFacts DEF a
    <2>3. Takes(s, t)
      BY <1>3, <2>1, <2>2 DEF Takes
    <2>4. Good(t, O \cup {Head(s.m.free)}) /\ Alike(s, t, O)
      BY <2>3, FrameTaken
    <2>5. Good(t, O)
      BY <2>4, GoodLess
    <2>6. QED BY <2>2, <2>4, <2>5 DEF OnlyMaps, Step, Alike, SameMap
  <1>4. QED BY <1>2, <1>3

\* A list without its first elements.
LEMMA SuffixElements ==
    ASSUME NEW S, NEW s \in Seq(S), NEW k \in 0 .. Len(s)
    PROVE  /\ SubSeq(s, k + 1, Len(s)) \in Seq(S)
           /\ ToSet(SubSeq(s, k + 1, Len(s))) \subseteq ToSet(s)
           /\ Distinct(s) => Distinct(SubSeq(s, k + 1, Len(s)))
  <1> DEFINE n == Len(s)
             r == SubSeq(s, k + 1, n)
  <1>1. n \in Nat /\ DOMAIN s = 1 .. n
    BY LenProperties
  <1>2. /\ r \in Seq(S) /\ DOMAIN r = 1 .. n - k
        /\ \A i \in 1 .. n - k : r[i] = s[i + k]
    <2>1. k + 1 \in 1 .. n + 1 /\ n \in 0 .. n
      BY <1>1
    <2>2. r \in Seq(S) /\ Len(r) = IF k + 1 <= n THEN n - (k + 1) + 1 ELSE 0
      BY <1>1, SubSeqProperties
    <2>3. Len(r) = n - k
      <3> HIDE DEF n, r
      <3> QED BY <1>1, <2>2
    <2>4. \A i \in 1 .. n - k : r[i] = s[i + k]
      BY <1>1
    <2>5. QED BY <2>2, <2>3, <2>4, LenProperties
  <1> HIDE DEF n, r
  <1>3. \A i \in 1 .. n - k : i + k \in 1 .. n
    BY <1>1
  <1>4. ToSet(r) \subseteq ToSet(s)
    BY <1>1, <1>2, <1>3 DEF ToSet
  <1>5. Distinct(s) => Distinct(r)
    <2> SUFFICES ASSUME Distinct(s), NEW i \in DOMAIN r, NEW j \in DOMAIN r, r[i] = r[j]
                 PROVE  i = j
      BY DEF Distinct
    <2>1. s[i + k] = s[j + k] /\ i + k \in DOMAIN s /\ j + k \in DOMAIN s
      BY <1>1, <1>2, <1>3
    <2>2. i + k = j + k
      BY <2>1 DEF Distinct
    <2>3. QED BY <1>1, <1>2, <2>2
  <1>6. QED BY <1>2, <1>4, <1>5 DEF n, r

\* sys_clearFFL and sys_scarce_memory.
LEMMA FramesTakenAway ==
    ASSUME NEW s, NEW t, NEW O, NEW n \in Nat, Good(s, O), O \subseteq Frames,
           t = WithMem(s, TakeAway(s.m, n))
    PROVE  OnlyMaps(s, t, O, {}) /\ t.e = s.e
  <1> DEFINE q == s.m.free
             k == Min2(n, Len(q))
             T == ToSet(SubSeq(q, 1, k))
             g == SubSeq(q, k + 1, Len(q))
             R == [f \in Frames |-> IF f \in T THEN 0 ELSE s.m.refs[f]]
             b == n > Len(q)
             a == TakeAway(s.m, n)
  <1>1. s.m \in Memories /\ Typed(s) /\ q \in Seq(Frames) /\ s.m.refs \in [Frames -> Int]
    BY OwnFacts DEF Good, Memories
  <1>2. Len(q) \in Nat /\ k \in 0 .. Len(q) /\ b \in BOOLEAN
    <2>1. Len(q) \in Nat
      BY <1>1, LenProperties
    <2> DEFINE z == Len(q)
    <2>2. z \in Nat
      BY <2>1
    <2> HIDE DEF z
    <2>3. Min2(n, z) \in 0 .. z /\ (n > z) \in BOOLEAN
      BY <2>2 DEF Min2
    <2>4. QED BY <2>1, <2>3 DEF z
  <1>3. g \in Seq(Frames) /\ ToSet(g) \subseteq ToSet(q) /\ (Distinct(q) => Distinct(g))
    <2> HIDE DEF k
    <2> QED BY <1>1, <1>2, SuffixElements
  <1>4. R \in [Frames -> Int]
    BY <1>1
  <1>5. a = [word |-> s.m.word, refs |-> R, free |-> g, panic |-> b]
    <2>1. s.m = [word |-> s.m.word, refs |-> s.m.refs, free |-> s.m.free, panic |-> s.m.panic]
      BY <1>1, MemoryRecord
    <2>2. a = [s.m EXCEPT !.refs = R, !.free = g, !.panic = b]
      BY DEF TakeAway
    <2> HIDE DEF R, g, b, a
    <2>3. QED BY <2>1, <2>2
  <1>6. T \subseteq ToSet(q)
    <2>1. \A i \in 1 .. k : i \in 1 .. Len(q)
      BY <1>2
    <2>2. DOMAIN SubSeq(q, 1, k) = 1 .. k /\ \A i \in 1 .. k : SubSeq(q, 1, k)[i] = q[i]
      <3> HIDE DEF k
      <3>1. SubSeq(q, 1, k) \in Seq(Frames) /\ Len(SubSeq(q, 1, k)) = k
        BY <1>1, <1>2, SubSeqProperties
      <3>2. QED BY <1>1, <1>2, <3>1, LenProperties
    <2>3. DOMAIN q = 1 .. Len(q)
      BY <1>1, LenProperties
    <2> HIDE DEF q, k
    <2>4. QED BY <2>1, <2>2, <2>3 DEF ToSet
  <1>7. \A f \in Frames : R[f] = IF f \in T THEN 0 ELSE s.m.refs[f]
    OBVIOUS
  <1>8. a.word = s.m.word /\ a.refs = R /\ a.free = g /\ a \in Memories
    <2> HIDE DEF R, g, b, a
    <2>1. QED BY <1>1, <1>2, <1>3, <1>4, <1>5 DEF Memories, b
  <1> HIDE DEF R, g, b, a, T, k, q
  <1>9. t.m = a /\ t.e = s.e /\ Typed(t)
    BY <1>1, <1>8, WithMemFacts DEF a
  <1>10. FreeApart(s, O) /\ OwnApart(s, O)
    BY DEF Good
  <1>11. FreeApart(t, O)
    <2>1. Distinct(q) /\ \A f \in ToSet(q) : f \notin O /\ f # 0 /\ s.m.refs[f] = 0 /\ f \in Frames
      BY <1>10, OwnFacts DEF FreeApart, q
    <2>2. Distinct(g) /\ \A f \in ToSet(g) : f \notin O /\ f # 0 /\ R[f] = 0
      BY <1>3, <1>7, <2>1
    <2>3. QED BY <1>8, <1>9, <2>2 DEF FreeApart
  <1>12. \A k1 \in Kinds, i \in Index : At(s, k1, i) # 0 =>
           At(s, k1, i) \notin O \cup ToSet(t.m.free) /\ t.m.refs[At(s, k1, i)] = 1
    <2> SUFFICES ASSUME NEW k1 \in Kinds, NEW i \in Index, At(s, k1, i) # 0
                 PROVE  At(s, k1, i) \notin O \cup ToSet(t.m.free) /\ t.m.refs[At(s, k1, i)] = 1
      OBVIOUS
    <2>1. At(s, k1, i) \notin O \cup ToSet(q) /\ s.m.refs[At(s, k1, i)] = 1
      BY <1>10 DEF OwnApart, q
    <2>2. At(s, k1, i) \in Frames
      BY OwnInFrames
    <2>3. QED BY <1>3, <1>6, <1>7, <1>8, <1>9, <2>1, <2>2
  <1>13. SameMap(s, t)
    BY <1>8, <1>9, SameMapFacts
  <1>14. Good(t, O)
    BY <1>9, <1>11, <1>12, <1>13, GoodSame
  <1>15. Spares(t.m, s.m, O) /\ SameHalf(s, t)
    <2>1. \A f \in O : f \in Frames /\ f \notin T
      BY <1>6, <1>10 DEF FreeApart, q
    <2>2. QED BY <1>7, <1>8, <1>9, <2>1 DEF SameHalf, Spares
  <1>16. QED BY <1>9, <1>13, <1>14, <1>15 DEF OnlyMaps, Step, SameMap

-----------------------------------------------------------------------------
(* env_create. *)

\* A handler gives an environment its directory.
HasDirectory(e, x, b, c) ==
    /\ x \in Environments /\ x.status = b /\ x.dir = c
    /\ x.active = e.active /\ x.second = e.second /\ x.disk = e.disk

\* The environment with another status and directory.
LEMMA EnvironmentSet ==
    ASSUME NEW e \in Environments, NEW b \in States, NEW c \in Frames
    PROVE  HasDirectory(e, [e EXCEPT !.status = b, !.dir = c], b, c)
  <1> DEFINE y == [e EXCEPT !.status = b]
             x == [e EXCEPT !.status = b, !.dir = c]
  <1>1. /\ y \in Environments /\ y.status = b
        /\ y.active = e.active /\ y.second = e.second /\ y.disk = e.disk
    BY DEF Environments
  <1>2. x = [y EXCEPT !.dir = c]
    OBVIOUS
  <1> HIDE DEF y
  <1> HIDE DEF x
  <1>3. QED BY <1>1, <1>2 DEF Environments, HasDirectory

\* An environment without a directory and without lists.
LEMMA NoEnvFacts ==
    /\ NoEnv \in Environments
    /\ NoEnv.status = "free" /\ NoEnv.dir = 0 /\ NoEnv.active = << >> /\ NoEnv.second = << >>
    /\ \A i \in 0 .. DiskDir : NoEnv.disk[i] = 0
    /\ \A d \in Frames :
         LET x == [NoEnv EXCEPT !.status = "alive", !.dir = d] IN
         /\ x \in Environments /\ x.status = "alive" /\ x.dir = d
         /\ x.active = << >> /\ x.second = << >> /\ \A i \in 0 .. DiskDir : x.disk[i] = 0
  <1>1. 0 \in Frames /\ << >> \in Seq(VPages) /\ {} \in SUBSET VPages
    BY Layout
  <1>2. [i \in 0 .. DiskDir |-> 0] \in [0 .. DiskDir -> Frames]
    BY <1>1
  <1>3. NoEnv \in Environments
    BY <1>1, <1>2 DEF NoEnv, Environments, States
  <1>4. /\ NoEnv.status = "free" /\ NoEnv.dir = 0 /\ NoEnv.active = << >> /\ NoEnv.second = << >>
        /\ \A i \in 0 .. DiskDir : NoEnv.disk[i] = 0
    BY DEF NoEnv
  <1>5. ASSUME NEW d \in Frames
        PROVE  LET x == [NoEnv EXCEPT !.status = "alive", !.dir = d] IN
               /\ x \in Environments /\ x.status = "alive" /\ x.dir = d
               /\ x.active = << >> /\ x.second = << >> /\ \A i \in 0 .. DiskDir : x.disk[i] = 0
    <2>1. "alive" \in States
      BY DEF States
    <2> DEFINE x == [NoEnv EXCEPT !.status = "alive", !.dir = d]
    <2>2. HasDirectory(NoEnv, x, "alive", d)
      BY <1>3, <2>1, EnvironmentSet, Zenon
    <2> HIDE DEF x
    <2>3. \A i \in 0 .. DiskDir : x.disk[i] = 0
      BY <1>4, <2>2 DEF HasDirectory
    <2>4. QED BY <1>4, <2>2, <2>3 DEF x, HasDirectory
  <1>6. QED BY <1>3, <1>4, <1>5

\* A directory as env_create leaves it: user space is empty.
Created(s, t, O) ==
    /\ Good(t, O) /\ Spares(t.m, s.m, O)
    /\ t.e.active = << >> /\ t.e.second = << >>
    /\ t.m.panic => t.e = s.e
    /\ ~t.m.panic =>
         /\ t.e.dir # 0 /\ t.e.status = "alive"
         /\ HalfIs(t, t.m.word[kdir]) /\ \A v \in VPages : Entry(t, v) = Zero

\* CreateDirectory: an empty user half under the kernel's half, or a panic.
LEMMA DirectoryCreated ==
    ASSUME NEW s, NEW t, NEW O, Good(s, O), O \subseteq Frames, kdir \in O, s.e = NoEnv, ~s.m.panic,
           t = CreateDirectory(s)
    PROVE  Created(s, t, O)
  <1> DEFINE a == TakeFrame(s.m)
             u == WithMem(s, a)
             d == Head(s.m.free)
             Own == [i \in 0 .. W - 1 |-> IF i \in {PDX(VPT), PDX(UVPT)} THEN Present(d)
                                          ELSE IF i < PDX(UENVS) THEN Zero ELSE s.m.word[kdir][i]]
             b == [a EXCEPT !.word[d] = Own]
             x == [NoEnv EXCEPT !.status = "alive", !.dir = d]
  <1>1. s.m \in Memories /\ Typed(s) /\ s.m.panic \in BOOLEAN
    BY OwnFacts DEF Good, Memories
  <1>2. t = IF a.panic THEN u ELSE [m |-> b, e |-> x]
    BY DEF CreateDirectory
  <1>3. CASE s.m.free = << >>
    <2>1. a = [s.m EXCEPT !.panic = TRUE] /\ TRUE \in BOOLEAN
      BY <1>1, <1>3, AllocateFacts
    <2>2. a.panic = TRUE
      BY <1>1, <2>1, PanicFacts
    <2>3. t = WithMem(s, [s.m EXCEPT !.panic = TRUE])
      BY <1>2, <2>1, <2>2
    <2>4. Step(s, t, O, {}) /\ t.e = s.e /\ t.m.panic = TRUE
      BY <2>1, <2>3, Panicked
    <2>5. QED BY <2>4, NoEnvFacts DEF Created, Step
  <1>4. CASE s.m.free # << >>
    <2>1. /\ d \in Frames \ {0} /\ d \notin O
          /\ Good(u, O \cup {d}) /\ Alike(s, u, O)
          /\ u.m.refs[d] = 1 /\ u.e = s.e /\ u.m = a /\ u.m.panic = s.m.panic /\ u.m \in Memories
      BY <1>4, OwnFrame
    <2>2. t = [m |-> b, e |-> x]
      BY <1>2, <2>1
    <2>3. Own \in Rows
      <3>1. s.m.word[kdir] \in Rows
        BY <1>1 DEF Memories
      <3>2. \A i \in 0 .. W - 1 : s.m.word[kdir][i] \in Words
        BY <3>1 DEF Rows
      <3>3. Present(d) \in Words /\ Zero \in Words
        BY <2>1, Layout DEF Present, Words, Zero
      <3>4. QED BY <3>2, <3>3 DEF Rows
    <2>4. \A i \in 0 .. W - 1 : Own[i] = IF i \in {PDX(VPT), PDX(UVPT)} THEN Present(d)
                                         ELSE IF i < PDX(UENVS) THEN Zero ELSE s.m.word[kdir][i]
      OBVIOUS
    <2> HIDE DEF Own, d, a, u
    <2>5. /\ b \in Memories /\ b.refs = a.refs /\ b.free = a.free /\ b.panic = a.panic
          /\ b.word[d] = Own /\ \A g \in Frames \ {d} : b.word[g] = a.word[g]
      BY <2>1, <2>3, WriteFacts
    <2>6. /\ x \in Environments /\ x.status = "alive" /\ x.dir = d
          /\ x.active = << >> /\ x.second = << >> /\ \A i \in 0 .. DiskDir : x.disk[i] = 0
      BY <2>1, NoEnvFacts
    <2> HIDE DEF b, x
    <2>7. t.m = b /\ t.e = x /\ Typed(t)
      BY <2>2, <2>5, <2>6 DEF Typed
    <2>8. \A i \in UserDirs : TableEntry(t, i) = Zero
      BY <2>1, <2>4, <2>5, <2>6, <2>7, Layout DEF TableEntry
    <2>9. \A v \in VPages : Entry(t, v) = Zero
      BY <2>8, PagePlace DEF Entry
    <2>10. EntriesName(t)
      BY <2>8, <2>9 DEF EntriesName, Names
    <2>11. FreeApart(t, O)
      BY <2>1, <2>5, <2>7 DEF FreeApart, Good
    <2>12. \A k, i : At(t, k, i) # 0 => k = "dir" /\ i = 0 /\ At(t, k, i) = d
      <3>1. Zero.pa = 0
        BY DEF Zero
      <3>2. QED BY <2>6, <2>7, <2>8, <2>9, <3>1 DEF At
    <2>13. d \notin ToSet(u.m.free)
      BY <2>1 DEF Good, FreeApart
    <2>14. OneNew(u, t, O, d, "dir", 0)
      BY <2>1, <2>5, <2>7, <2>12, <2>13 DEF OneNew
    <2>15. Good(t, O)
      BY <2>1, <2>7, <2>10, <2>11, <2>14, GoodChange
    <2>16. Spares(t.m, s.m, O)
      BY <2>1, <2>5, <2>7 DEF Alike, Spares
    <2>17. HalfIs(t, t.m.word[kdir])
      <3>1. t.m.word[kdir] = s.m.word[kdir]
        BY <2>16 DEF Spares
      <3>2. \A i \in PDX(UENVS) .. W - 1 : i \in 0 .. W - 1 /\ ~(i < PDX(UENVS))
        BY Layout
      <3>3. QED BY <2>4, <2>5, <2>6, <2>7, <3>1, <3>2 DEF HalfIs
    <2>18. ~t.m.panic
      BY <2>1, <2>5, <2>7
    <2>19. QED BY <2>1, <2>6, <2>7, <2>9, <2>15, <2>16, <2>17, <2>18 DEF Created
  <1>5. QED BY <1>3, <1>4

\* An environment while its pages are loaded: those of S so far; the active
\* list has k places.
Loading(s, S, k) ==
    /\ \A v \in VPages : Entry(s, v) = Zero \/ Entry(s, v).p
    /\ Distinct(s.e.active) /\ Distinct(s.e.second)
    /\ ToSet(s.e.active) \cap ToSet(s.e.second) = {}
    /\ ToSet(s.e.active) \cup ToSet(s.e.second) \subseteq S
    /\ \A v \in ToSet(s.e.active) \cup ToSet(s.e.second) : Entry(s, v).p
    /\ Len(s.e.active) <= k
    /\ s.e.second # << >> => Len(s.e.active) = k

\* Further mappings while loading.
LEMMA LoadingMaps ==
    ASSUME NEW s, NEW t, NEW O, NEW V, NEW S, NEW k, Good(s, O), OnlyMaps(s, t, O, V),
           Loading(s, S, k)
    PROVE  Loading(t, S, k)
  <1>1. ToSet(s.e.active) \subseteq VPages /\ ToSet(s.e.second) \subseteq VPages
    BY ListsTyped
  <1>2. \A v \in VPages : Entry(t, v) = Entry(s, v) \/ Entry(t, v).p
    BY DEF OnlyMaps
  <1>3. t.e.active = s.e.active /\ t.e.second = s.e.second
    BY DEF OnlyMaps
  <1>4. QED BY <1>1, <1>2, <1>3 DEF Loading

\* The page v goes into one of the lists.
IntoActive(s, t, v) == NewLists(s, t, Cons(v, s.e.active), s.e.second)
IntoSecond(s, t, v) == NewLists(s, t, s.e.active, Cons(v, s.e.second))

\* The page just mapped goes to the active list.
LEMMA LoadedActive ==
    ASSUME NEW s, NEW t, NEW O, NEW S, NEW k \in Nat, NEW n \in Nat, NEW v \in VPages, Good(s, O),
           Loading(s, S, k), v \notin S, Entry(s, v).p, IntoActive(s, t, v),
           Len(s.e.active) < n, s.e.second # << >> => Len(s.e.active) + 1 = n
    PROVE  Step(s, t, O, {}) /\ t.e.status = s.e.status /\ t.m = s.m /\ Loading(t, S \cup {v}, n)
  <1> DEFINE a == Cons(v, s.e.active)
             j == Len(s.e.active)
  <1>1. s.e.active \in Seq(VPages) /\ s.e.second \in Seq(VPages) /\ j \in Nat
        /\ ToSet(s.e.active) \subseteq VPages /\ ToSet(s.e.second) \subseteq VPages
    BY ListsTyped
  <1>2. v \notin ToSet(s.e.active) /\ v \notin ToSet(s.e.second) /\ Distinct(s.e.active)
    BY DEF Loading
  <1>3. Len(a) = j + 1 /\ ToSet(a) = {v} \cup ToSet(s.e.active) /\ Distinct(a)
    <2>1. Len(a) = j + 1
      <3> DEFINE q == s.e.active
      <3>1. q \in Seq(VPages)
        BY <1>1
      <3> HIDE DEF q
      <3>2. Len(Cons(v, q)) = Len(q) + 1
        BY <3>1, ConsShape
      <3>3. QED BY <3>2 DEF q
    <2>2. ToSet(a) = {v} \cup ToSet(s.e.active) /\ Distinct(a)
      BY <1>1, <1>2, ConsElements
    <2>3. QED BY <2>1, <2>2
  <1> HIDE DEF a
  <1>4. /\ Step(s, t, O, {}) /\ SameMap(s, t) /\ t.m = s.m
        /\ t.e.active = a /\ t.e.second = s.e.second /\ t.e.status = s.e.status
    BY NewListsStep DEF IntoActive, a
  <1>5. \A u \in VPages : Entry(t, u) = Entry(s, u)
    BY <1>4 DEF SameMap
  <1>6. Len(a) <= n /\ (s.e.second # << >> => Len(a) = n)
    <2>1. j < n /\ (s.e.second # << >> => j + 1 = n)
      OBVIOUS
    <2> HIDE DEF j
    <2>2. QED BY <1>1, <1>3, <2>1
  <1>7. Loading(t, S \cup {v}, n)
    BY <1>1, <1>2, <1>3, <1>4, <1>5, <1>6 DEF Loading
  <1>8. QED BY <1>4, <1>7

\* The page just mapped goes to the second list.
LEMMA LoadedSecond ==
    ASSUME NEW s, NEW t, NEW O, NEW S, NEW k \in Nat, NEW v \in VPages, Good(s, O),
           Loading(s, S, k), v \notin S, Entry(s, v).p, IntoSecond(s, t, v), Len(s.e.active) = k
    PROVE  Step(s, t, O, {}) /\ t.e.status = s.e.status /\ t.m = s.m /\ Loading(t, S \cup {v}, k)
  <1> DEFINE b == Cons(v, s.e.second)
  <1>1. s.e.active \in Seq(VPages) /\ s.e.second \in Seq(VPages)
        /\ ToSet(s.e.active) \subseteq VPages /\ ToSet(s.e.second) \subseteq VPages
    BY ListsTyped
  <1>2. v \notin ToSet(s.e.active) /\ v \notin ToSet(s.e.second) /\ Distinct(s.e.second)
    BY DEF Loading
  <1>3. ToSet(b) = {v} \cup ToSet(s.e.second) /\ Distinct(b)
    BY <1>1, <1>2, ConsElements
  <1> HIDE DEF b
  <1>4. /\ Step(s, t, O, {}) /\ SameMap(s, t) /\ t.m = s.m
        /\ t.e.active = s.e.active /\ t.e.second = b /\ t.e.status = s.e.status
    BY NewListsStep DEF IntoSecond, b
  <1>5. \A u \in VPages : Entry(t, u) = Entry(s, u)
    BY <1>4 DEF SameMap
  <1>6. Loading(t, S \cup {v}, k)
    BY <1>1, <1>2, <1>3, <1>4, <1>5 DEF Loading
  <1>7. QED BY <1>4, <1>6

\* What loading a page does while there are frames: n places from then on.
LoadedTo(s, t, O, S, n) ==
    /\ Step(s, t, O, VPages) /\ t.e.status = s.e.status
    /\ ~t.m.panic => Loading(t, S, n)

\* One page of the segment, or the stack, is mapped and listed.
LEMMA PageLoaded ==
    ASSUME NEW s, NEW t, NEW O, NEW S, NEW k \in Nat, NEW n \in Nat, NEW v \in VPages, Good(s, O), O \subseteq Frames,
           s.e.dir # 0, ~s.m.panic, Loading(s, S, k), v \notin S, n = k \/ n = k + 1,
           t = LoadPage(n, s, v)
    PROVE  LoadedTo(s, t, O, S \cup {v}, n)
  <1> DEFINE u == WithMem(s, MapNew(s.m, s.e.dir, v, loadtime_map_frame))
             a == Cons(v, u.e.active)
             b == Cons(v, u.e.second)
             x == [u EXCEPT !.e.active = a]
             y == [u EXCEPT !.e.second = b]
             j == Len(s.e.active)
  <1>1. NewlyMapped(s, u, O, v)
    BY NewMapping DEF MapsNew
  <1>2. t = IF u.m.panic THEN u ELSE IF Len(s.e.active) < n THEN x ELSE y
    BY DEF LoadPage, Cons
  <1> HIDE DEF u
  <1>3. OnlyMaps(s, u, O, {v}) /\ u.e = s.e
    BY <1>1, NewMappingMaps DEF NewlyMapped
  <1>4. Good(u, O) /\ Step(s, u, O, {v}) /\ u.e.status = s.e.status
    BY <1>3 DEF OnlyMaps, Step
  <1>5. Step(s, u, O, VPages)
    BY <1>4, StepMore
  <1>6. CASE u.m.panic
    BY <1>2, <1>4, <1>5, <1>6 DEF LoadedTo
  <1>7. CASE ~u.m.panic
    <2>1. Loading(u, S, k) /\ Entry(u, v).p
      BY <1>1, <1>3, <1>7, LoadingMaps DEF NewlyMapped
    <2>2. /\ u.e.active \in Seq(VPages) /\ u.e.second \in Seq(VPages) /\ Typed(u)
          /\ j \in Nat /\ j <= k /\ (s.e.second # << >> => j = k)
      BY <1>3, <1>4, ListsTyped DEF Loading
    <2>3. a \in Seq(VPages) /\ b \in Seq(VPages)
      BY <2>2, ConsShape
    <2> HIDE DEF a, b
    <2>4. NewLists(u, x, a, u.e.second) /\ NewLists(u, y, u.e.active, b)
      BY <2>2, <2>3, ListsSet
    <2> HIDE DEF x, y
    <2>5. CASE j < n
      <3>1. s.e.second # << >> => j + 1 = n
        <4> HIDE DEF j
        <4> QED BY <2>2, <2>5
      <3>2. IntoActive(u, t, v)
        BY <1>2, <1>7, <2>4, <2>5 DEF IntoActive, a
      <3>3. Len(u.e.active) < n /\ (u.e.second # << >> => Len(u.e.active) + 1 = n)
        BY <1>3, <2>5, <3>1
      <3>4. Step(u, t, O, {}) /\ t.e.status = u.e.status /\ Loading(t, S \cup {v}, n)
        <4> HIDE DEF j
        <4> QED BY <1>4, <2>1, <3>2, <3>3, LoadedActive
      <3>5. QED BY <1>4, <1>5, <3>4, StepThen, StepMore DEF LoadedTo
    <2>6. CASE ~(j < n)
      <3>1. j = k /\ n = k
        <4> HIDE DEF j
        <4> QED BY <2>2, <2>6
      <3>2. IntoSecond(u, t, v)
        BY <1>2, <1>7, <2>4, <2>6 DEF IntoSecond, b
      <3>3. Len(u.e.active) = k
        BY <1>3, <3>1
      <3>4. Step(u, t, O, {}) /\ t.e.status = u.e.status /\ Loading(t, S \cup {v}, k)
        <4> HIDE DEF j
        <4> QED BY <1>4, <2>1, <3>2, <3>3, LoadedSecond
      <3>5. QED BY <1>4, <1>5, <3>1, <3>4, StepThen, StepMore DEF LoadedTo
    <2>7. QED BY <2>5, <2>6
  <1>8. QED BY <1>6, <1>7

LoadPages == INSTANCE ListLemmas WITH Body <- LoadSegmentPage
DiskPages == INSTANCE ListLemmas WITH Body <- pf_add_env_page
HidePages == INSTANCE ListLemmas WITH Body <- Hide
UnmapPages == INSTANCE ListLemmas WITH Body <- Unmap

\* The loops over pages that env_create and env_free run.
LEMMA LoopsOverPages ==
    /\ \A s, q : LoadPages!FoldLeft(LoadSegmentPage, s, q) = FoldLeft(LoadSegmentPage, s, q)
    /\ \A s, q : DiskPages!FoldLeft(pf_add_env_page, s, q) = FoldLeft(pf_add_env_page, s, q)
    /\ \A s, q : HidePages!FoldLeft(Hide, s, q) = FoldLeft(Hide, s, q)
    /\ \A s, q : UnmapPages!FoldLeft(Unmap, s, q) = FoldLeft(Unmap, s, q)
  <1>1. \A s, q : LoadPages!FoldLeft(LoadSegmentPage, s, q) = FoldLeft(LoadSegmentPage, s, q)
    BY DEF LoadPages!FoldLeft, FoldLeft, MapThenFoldSet, LoadPages!MapThenFoldSet, LoadPages!Max, Max
  <1>2. \A s, q : DiskPages!FoldLeft(pf_add_env_page, s, q) = FoldLeft(pf_add_env_page, s, q)
    BY DEF DiskPages!FoldLeft, FoldLeft, MapThenFoldSet, DiskPages!MapThenFoldSet, DiskPages!Max, Max
  <1>3. \A s, q : HidePages!FoldLeft(Hide, s, q) = FoldLeft(Hide, s, q)
    BY DEF HidePages!FoldLeft, FoldLeft, MapThenFoldSet, HidePages!MapThenFoldSet, HidePages!Max, Max
  <1>4. \A s, q : UnmapPages!FoldLeft(Unmap, s, q) = FoldLeft(Unmap, s, q)
    BY DEF UnmapPages!FoldLeft, FoldLeft, MapThenFoldSet, UnmapPages!MapThenFoldSet, UnmapPages!Max, Max
  <1>5. QED BY <1>1, <1>2, <1>3, <1>4

\* The pages of the program's segments, and those that are loaded at once.
LEMMA SegmentFacts ==
    /\ Len(SegmentPages) \in Nat /\ DOMAIN SegmentPages = 1 .. Len(SegmentPages)
    /\ \A i \in 1 .. Len(SegmentPages) : SegmentPages[i] \in VPages
    /\ Len(Loaded) \in Nat /\ DOMAIN Loaded = 1 .. Len(Loaded)
    /\ \A i \in 1 .. Len(Loaded) : Loaded[i] \in VPages \ {StackPage}
    /\ \A i, j \in 1 .. Len(Loaded) : Loaded[i] = Loaded[j] => i = j
    /\ StackPage \in VPages
  <1> DEFINE p == SegmentPages
             n == Len(p)
             k == Min2(n, ActiveListSize + SecondListSize - 1)
  <1>1. n \in Nat /\ DOMAIN p = 1 .. n /\ p \in Seq(Nat)
    BY ProgramFits, LenProperties
  <1>2. UserPages \subseteq VPages
    BY Layout
  <1>3. \A i \in 1 .. n : p[i] \in VPages /\ p[i] # StackPage
    BY <1>1, <1>2, ProgramFits DEF UserPages, ToSet
  <1>4. StackPage \in VPages
    BY <1>2 DEF UserPages
  <1>5. \A i, j \in 1 .. n : p[i] = p[j] => i = j
    BY <1>1, ProgramFits DEF IsInjective
  <1>6. k \in 0 .. n
    <2> HIDE DEF n
    <2> QED BY <1>1, ProgramFits DEF Min2
  <1>7. Len(Loaded) = k /\ DOMAIN Loaded = 1 .. k /\ \A i \in 1 .. k : Loaded[i] = p[i]
    <2>1. Loaded = SubSeq(p, 1, k)
      BY DEF Loaded
    <2> HIDE DEF k, n, p
    <2>2. SubSeq(p, 1, k) \in Seq(Nat) /\ Len(SubSeq(p, 1, k)) = k
      <3>1. Len(p) = n
        BY DEF n
      <3>2. QED BY <1>1, <1>6, <3>1, SubSeqProperties
    <2>3. \A i \in 1 .. k : SubSeq(p, 1, k)[i] = p[i]
      BY <1>1, <1>6
    <2>4. QED BY <1>6, <2>1, <2>2, <2>3, LenProperties
  <1>8. \A i \in 1 .. k : i \in 1 .. n
    <2> HIDE DEF n, k
    <2> QED BY <1>1, <1>6
  <1> HIDE DEF k, n, p
  <1>9. k \in Nat
    BY <1>1, <1>6
  <1>10. /\ \A i \in 1 .. k : Loaded[i] \in VPages \ {StackPage}
         /\ \A i, j \in 1 .. k : Loaded[i] = Loaded[j] => i = j
    BY <1>3, <1>5, <1>7, <1>8
  <1>11. QED BY <1>1, <1>3, <1>4, <1>7, <1>9, <1>10 DEF n, p

\* The pages loaded after i turns of the loop.
LoadedPages(i) == {Loaded[j] : j \in 1 .. i}

\* The loop over the segment's pages.
LEMMA SegmentsLoaded ==
    ASSUME NEW s, NEW t, NEW O, Good(s, O), O \subseteq Frames, s.e.dir # 0,
           Loading(s, {}, ActiveListSize - 1), t = FoldLeft(LoadSegmentPage, s, Loaded)
    PROVE  \E S : LoadedTo(s, t, O, S, ActiveListSize - 1) /\ StackPage \notin S
  <1> DEFINE n == Len(Loaded)
             k == ActiveListSize - 1
             Pairs == [m : Memories, e : Environments]
             Set(i) == {x \in Pairs : LoadedTo(s, x, O, LoadedPages(i), k)}
             J == [i \in 0 .. n |-> Set(i)]
  <1>1. /\ n \in Nat /\ DOMAIN Loaded = 1 .. n
        /\ \A i \in 1 .. n : Loaded[i] \in VPages \ {StackPage}
        /\ \A i, j \in 1 .. n : Loaded[i] = Loaded[j] => i = j
    BY SegmentFacts
  <1>2. k \in Nat
    BY ProgramFits
  <1>3. \A i \in 0 .. n : \A x : x \in J[i] <=> LoadedTo(s, x, O, LoadedPages(i), k)
    BY DEF LoadedTo, Step, Good, Typed
  <1> HIDE DEF J, Set, k, n
  <1>4. s \in J[0]
    <2>1. LoadedPages(0) = {}
      BY DEF LoadedPages
    <2>2. Step(s, s, O, VPages)
      BY StepSame, StepMore
    <2>3. LoadedTo(s, s, O, {}, k)
      BY <2>2 DEF LoadedTo, k
    <2>4. 0 \in 0 .. n
      BY <1>1
    <2>5. QED BY <1>3, <2>1, <2>3, <2>4
  <1>5. ASSUME NEW i \in 1 .. n, NEW a \in J[i - 1]
        PROVE  LoadSegmentPage(a, Loaded[i]) \in J[i]
    <2> DEFINE v == Loaded[i]
               b == LoadSegmentPage(a, v)
               P == LoadedPages(i - 1)
               Q == LoadedPages(i)
    <2>1. i \in 0 .. n /\ i - 1 \in 0 .. n /\ i \in Nat
      BY <1>1
    <2>2. LoadedTo(s, a, O, P, k)
      BY <1>3, <1>5, <2>1
    <2>3. b = IF a.m.panic THEN a ELSE LoadPage(k, a, v)
      BY DEF LoadSegmentPage, Then, k
    <2>4. v \in VPages /\ v \notin P /\ Q = P \cup {v}
      <3>1. \A j \in 1 .. i - 1 : j \in 1 .. n /\ j # i
        BY <1>1, <2>1
      <3>2. 1 .. i = (1 .. i - 1) \cup {i}
        BY <2>1
      <3>3. QED BY <1>1, <3>1, <3>2 DEF LoadedPages
    <2>5. Step(s, a, O, VPages) /\ Good(a, O) /\ a.e.dir # 0 /\ a.e.status = s.e.status
      BY <2>2 DEF LoadedTo, Step
    <2> HIDE DEF b, v, P, Q
    <2>6. CASE a.m.panic
      BY <1>3, <2>1, <2>2, <2>3, <2>6 DEF LoadedTo, b, v
    <2>7. CASE ~a.m.panic
      <3>1. Loading(a, P, k)
        BY <2>2, <2>7 DEF LoadedTo
      <3>2. LoadedTo(a, b, O, P \cup {v}, k)
        BY <1>2, <2>3, <2>4, <2>5, <2>7, <3>1, PageLoaded
      <3>3. Step(s, b, O, VPages)
        BY <2>5, <3>2, StepThen, StepMore DEF LoadedTo
      <3>4. LoadedTo(s, b, O, Q, k)
        BY <2>4, <2>5, <3>2, <3>3 DEF LoadedTo
      <3>5. QED BY <1>3, <2>1, <3>4 DEF b, v, Q
    <2>8. QED BY <2>6, <2>7
  <1>6. LoadPages!FoldLeft(LoadSegmentPage, s, Loaded) \in J[n]
    BY <1>1, <1>4, <1>5, LoadPages!FoldKeeps
  <1>7. t \in J[n] /\ n \in 0 .. n
    BY <1>1, <1>6, LoopsOverPages
  <1>8. LoadedTo(s, t, O, LoadedPages(n), k)
    BY <1>3, <1>7
  <1>9. StackPage \notin LoadedPages(n)
    BY <1>1 DEF LoadedPages
  <1>10. QED BY <1>8, <1>9 DEF k

\* The whole segment goes to the page file.
LEMMA SegmentsWritten ==
    ASSUME NEW s, NEW t, NEW O, Good(s, O), O \subseteq Frames,
           t = FoldLeft(pf_add_env_page, s, SegmentPages)
    PROVE  OnlyMaps(s, t, O, {})
  <1> DEFINE n == Len(SegmentPages)
             K == {x \in [m : Memories, e : Environments] : OnlyMaps(s, x, O, {})}
  <1>1. n \in Nat /\ DOMAIN SegmentPages = 1 .. n /\ \A i \in 1 .. n : SegmentPages[i] \in VPages
    BY SegmentFacts
  <1>2. \A x : x \in K <=> OnlyMaps(s, x, O, {})
    BY DEF OnlyMaps, Step, Good, Typed
  <1> HIDE DEF K, n
  <1>3. s \in K
    BY <1>2, OnlyMapsSame
  <1>4. ASSUME NEW i \in 1 .. n, NEW a \in K PROVE pf_add_env_page(a, SegmentPages[i]) \in K
    <2> DEFINE b == pf_add_env_page(a, SegmentPages[i])
    <2>1. OnlyMaps(s, a, O, {}) /\ Good(a, O)
      BY <1>2, <1>4 DEF OnlyMaps, Step
    <2>2. OnlyMaps(a, b, O, {})
      BY <1>1, <1>4, <2>1, DiskPageAdded
    <2> HIDE DEF b
    <2>3. OnlyMaps(s, b, O, {} \cup {}) /\ {} \cup {} = {}
      BY <2>1, <2>2, OnlyMapsThen
    <2>4. OnlyMaps(s, b, O, {})
      BY <2>3
    <2>5. QED BY <1>2, <2>4 DEF b
  <1>5. DiskPages!FoldLeft(pf_add_env_page, s, SegmentPages) \in K
    BY <1>1, <1>3, <1>4, DiskPages!FoldStays
  <1>6. QED BY <1>2, <1>5, LoopsOverPages

\* The stack's page takes the place kept for it in the active list.
LEMMA StackLoaded ==
    ASSUME NEW s, NEW t, NEW O, NEW S, Good(s, O), O \subseteq Frames, s.e.dir # 0, ~s.m.panic,
           Loading(s, S, ActiveListSize - 1), StackPage \notin S,
           t = pf_add_env_page(LoadPage(ActiveListSize, s, StackPage), StackPage)
    PROVE  \E P : LoadedTo(s, t, O, P, ActiveListSize)
  <1> DEFINE u == LoadPage(ActiveListSize, s, StackPage)
             P == S \cup {StackPage}
             k == ActiveListSize - 1
  <1>1. k \in Nat /\ ActiveListSize \in Nat /\ ActiveListSize = k + 1
    BY ProgramFits
  <1>2. StackPage \in VPages
    BY SegmentFacts
  <1> HIDE DEF k
  <1>3. Loading(s, S, k)
    BY DEF k
  <1>4. LoadedTo(s, u, O, P, ActiveListSize)
    BY <1>1, <1>2, <1>3, PageLoaded
  <1> HIDE DEF u, P
  <1>5. Good(u, O) /\ Step(s, u, O, VPages)
    BY <1>4 DEF LoadedTo, Step
  <1>6. OnlyMaps(u, t, O, {}) /\ (u.m.panic => t = u)
    BY <1>2, <1>5, DiskPageAdded DEF u
  <1>7. Step(s, t, O, VPages) /\ t.e.status = s.e.status
    BY <1>4, <1>5, <1>6, StepThen, StepMore DEF OnlyMaps, LoadedTo
  <1>8. ~t.m.panic => Loading(t, P, ActiveListSize)
    BY <1>4, <1>5, <1>6, LoadingMaps DEF LoadedTo
  <1>9. QED BY <1>7, <1>8 DEF LoadedTo

\* The pages of the second list become not PRESENT.
LEMMA SecondHidden ==
    ASSUME NEW s, NEW t, NEW O, NEW S, Good(s, O), O \subseteq Frames, ~s.m.panic,
           Loading(s, S, ActiveListSize), t = FoldLeft(Hide, s, s.e.second)
    PROVE  Served(s, t, O) /\ ~t.m.panic
  <1> DEFINE q == s.e.second
             n == Len(q)
             V == ToSet(q)
             Made(x) == /\ Step(s, x, O, V) /\ x.e = s.e /\ x.m.panic = s.m.panic
                        /\ \A u \in VPages : Entry(x, u) # Zero <=> Entry(s, u) # Zero
             K == {x \in [m : Memories, e : Environments] : Made(x)}
  <1>1. /\ ~Zero.p /\ q \in Seq(VPages) /\ V \subseteq VPages /\ n \in Nat
        /\ ToSet(s.e.active) \subseteq VPages
    BY ListsTyped
  <1>2. DOMAIN q = 1 .. n /\ \A i \in 1 .. n : q[i] \in V
    BY <1>1, LenProperties DEF ToSet
  <1>3. \A v \in V : Entry(s, v) # Zero
    BY <1>1 DEF Loading
  <1> HIDE DEF q, n, V
  <1>4. \A x : x \in K <=> Made(x)
    BY DEF Step, Good, Typed
  <1> HIDE DEF K
  <1>5. s \in K
    <2>1. Step(s, s, O, V)
      BY StepSame, StepMore
    <2>2. QED BY <1>4, <2>1
  <1>6. ASSUME NEW i \in 1 .. n, NEW a \in K PROVE Hide(a, q[i]) \in K
    <2> DEFINE v == q[i]
               b == Hide(a, v)
    <2>1. Made(a) /\ v \in V /\ v \in VPages /\ V \cup {v} = V /\ FALSE \in BOOLEAN
      BY <1>1, <1>2, <1>4, <1>6
    <2>2. Good(a, O) /\ Entry(a, v) # Zero
      BY <1>3, <2>1 DEF Step
    <2>3. b = WithMem(a, SetPresent(a.m, a.e.dir, v, FALSE))
      BY DEF Hide
    <2> HIDE DEF b, v
    <2>4. PresentIs(a, b, O, v, FALSE)
      BY <2>1, <2>2, <2>3, PresentSet
    <2>5. Step(s, b, O, V \cup {v})
      BY <2>1, <2>4, StepThen DEF PresentIs
    <2>6. \A u \in VPages : Entry(b, u) # Zero <=> Entry(s, u) # Zero
      BY <2>1, <2>2, <2>4 DEF PresentIs, Step
    <2>7. Step(s, b, O, V)
      BY <2>1, <2>5
    <2>8. Made(b)
      BY <2>1, <2>4, <2>6, <2>7 DEF PresentIs
    <2>9. QED BY <1>4, <2>8 DEF b, v
  <1>7. HidePages!FoldLeft(Hide, s, q) \in K
    BY <1>2, <1>1, <1>5, <1>6, HidePages!FoldStays
  <1>8. Made(t)
    BY <1>4, <1>7, LoopsOverPages DEF q
  <1>9. \A u \in VPages \ V : Entry(t, u) = Entry(s, u)
    BY <1>8 DEF Step
  <1>10. Hidden(t)
    BY <1>8, <1>9 DEF Loading, Hidden, V, q
  <1>11. Lists(t)
    BY <1>1, <1>3, <1>8, <1>9 DEF Loading, Lists, V, q
  <1>12. ListsFit(t)
    BY <1>8, <1>11 DEF Loading, ListsFit
  <1>13. QED BY <1>1, <1>8, <1>10, <1>12, StepMore DEF Served

\* What env_create makes of an environment that was free.
EnvMade(s, t, O) ==
    /\ Good(t, O) /\ Spares(t.m, s.m, O) /\ HalfIs(t, t.m.word[kdir])
    /\ IF t.e.dir = 0 THEN t.e = NoEnv ELSE t.e.status = "alive"

\* A step after the directory is made.
LEMMA EnvMadeStep ==
    ASSUME NEW s, NEW t, NEW u, NEW O, NEW V, EnvMade(s, t, O), t.e.dir # 0, kdir \in O,
           Step(t, u, O, V), u.e.status = t.e.status
    PROVE  EnvMade(s, u, O)
  <1>1. Spares(u.m, s.m, O) /\ u.m.word[kdir] = t.m.word[kdir]
    BY DEF EnvMade, Step, Spares
  <1>2. HalfIs(u, u.m.word[kdir])
    BY <1>1 DEF EnvMade, Step, HalfIs, SameHalf
  <1>3. QED BY <1>1, <1>2 DEF EnvMade, Step

\* env_create, with all of its loops, or a panic in any of them.
LEMMA EnvCreated ==
    ASSUME NEW s, NEW t, NEW O, Good(s, O), O \subseteq Frames, kdir \in O, s.e = NoEnv, ~s.m.panic,
           t = env_create(s)
    PROVE  EnvMade(s, t, O) /\ (~t.m.panic => t.e.dir # 0 /\ Hidden(t) /\ ListsFit(t))
  <1> DEFINE a == CreateDirectory(s)
             b == FoldLeft(LoadSegmentPage, a, Loaded)
             c == FoldLeft(pf_add_env_page, b, SegmentPages)
             d == pf_add_env_page(LoadPage(ActiveListSize, c, StackPage), StackPage)
             f == FoldLeft(Hide, d, d.e.second)
             k == ActiveListSize - 1
  <1>1. t = IF a.m.panic THEN a ELSE IF b.m.panic THEN b ELSE IF c.m.panic THEN c
            ELSE IF d.m.panic THEN d ELSE f
    BY DEF env_create, Then
  <1>2. Created(s, a, O) /\ NoEnv.dir = 0
    BY DirectoryCreated, NoEnvFacts
  <1> HIDE DEF a
  <1>3. EnvMade(s, a, O)
    <2>1. a.m.panic => HalfIs(a, a.m.word[kdir])
      BY <1>2 DEF Created, HalfIs
    <2>2. QED BY <1>2, <2>1 DEF Created, EnvMade
  <1>4. CASE a.m.panic
    BY <1>1, <1>3, <1>4
  <1>5. CASE ~a.m.panic
    <2>1. /\ Good(a, O) /\ a.e.dir # 0 /\ a.e.status = "alive"
          /\ a.e.active = << >> /\ a.e.second = << >> /\ \A v \in VPages : Entry(a, v) = Zero
      BY <1>2, <1>5 DEF Created
    <2>2. k \in Nat
      BY ProgramFits
    <2> HIDE DEF k
    <2>3. Loading(a, {}, k)
      <3>1. ToSet(<< >>) = {} /\ Distinct(<< >>) /\ Len(<< >>) = 0
        BY EmptyElements
      <3>2. QED BY <2>1, <2>2, <3>1 DEF Loading
    <2>4. PICK S : LoadedTo(a, b, O, S, k) /\ StackPage \notin S
      BY <2>1, <2>3, SegmentsLoaded DEF k
    <2> HIDE DEF b
    <2>5. EnvMade(s, b, O) /\ b.e.dir # 0 /\ Good(b, O)
      BY <1>3, <2>1, <2>4, EnvMadeStep DEF LoadedTo, Step
    <2>6. CASE b.m.panic
      BY <1>1, <1>5, <2>5, <2>6
    <2>7. CASE ~b.m.panic
      <3>1. OnlyMaps(b, c, O, {})
        BY <2>5, SegmentsWritten
      <3> HIDE DEF c
      <3>2. EnvMade(s, c, O) /\ c.e.dir # 0 /\ Good(c, O)
        BY <2>5, <3>1, EnvMadeStep DEF OnlyMaps, Step
      <3>3. Loading(c, S, k)
        BY <2>4, <2>5, <2>7, <3>1, LoadingMaps DEF LoadedTo
      <3>4. CASE c.m.panic
        BY <1>1, <1>5, <2>7, <3>2, <3>4
      <3>5. CASE ~c.m.panic
        <4>1. PICK P : LoadedTo(c, d, O, P, ActiveListSize)
          BY <2>4, <3>2, <3>3, <3>5, StackLoaded DEF k
        <4> HIDE DEF d
        <4>2. EnvMade(s, d, O) /\ d.e.dir # 0 /\ Good(d, O)
          BY <3>2, <4>1, EnvMadeStep DEF LoadedTo, Step
        <4>3. CASE d.m.panic
          BY <1>1, <1>5, <2>7, <3>5, <4>2, <4>3
        <4>4. CASE ~d.m.panic
          <5>1. Loading(d, P, ActiveListSize)
            BY <4>1, <4>4 DEF LoadedTo
          <5>2. Served(d, f, O) /\ ~f.m.panic
            BY <4>2, <4>4, <5>1, SecondHidden
          <5> HIDE DEF f
          <5>3. EnvMade(s, f, O) /\ f.e.dir # 0
            BY <4>2, <5>2, EnvMadeStep DEF Served, Step
          <5>4. QED BY <1>1, <1>5, <2>7, <3>5, <4>4, <5>2, <5>3 DEF Served
        <4>5. QED BY <4>3, <4>4
      <3>6. QED BY <3>4, <3>5
    <2>8. QED BY <2>6, <2>7
  <1>6. QED BY <1>4, <1>5, SMTT(60)

-----------------------------------------------------------------------------
(* env_free. *)

\* The environment lets go of the frame f it had for the place i of kind k.
LetsGo(s, t, f, k, i) ==
    /\ Typed(t) /\ t.m = s.m /\ EntriesName(t) /\ f = At(s, k, i) /\ k \in Kinds /\ i \in Index
    /\ \A l \in Kinds, j \in Index :
         At(t, l, j) # 0 => At(t, l, j) = At(s, l, j) /\ ~(l = k /\ j = i)

\* What an environment lets go of is nobody's.
LEMMA OwnLetGo ==
    ASSUME NEW s, NEW t, NEW O, NEW f \in Frames \ {0}, NEW k, NEW i, Good(s, O), LetsGo(s, t, f, k, i)
    PROVE  Good(t, O \cup {f})
  <1> USE DEF LetsGo
  <1>1. FreeApart(s, O) /\ OwnApart(s, O)
    BY DEF Good
  <1>2. f \notin ToSet(s.m.free) /\ f \notin O
    BY <1>1 DEF OwnApart
  <1>3. FreeApart(t, O \cup {f})
    BY <1>1, <1>2 DEF FreeApart
  <1>4. \A l \in Kinds, j \in Index : At(t, l, j) # 0 =>
          /\ At(t, l, j) \notin O \cup {f} \cup ToSet(t.m.free) /\ t.m.refs[At(t, l, j)] = 1
          /\ At(t, l, j) = At(s, l, j) /\ At(t, l, j) # 0
    <2> SUFFICES ASSUME NEW l \in Kinds, NEW j \in Index, At(t, l, j) # 0
                 PROVE  /\ At(t, l, j) \notin O \cup {f} \cup ToSet(t.m.free)
                        /\ t.m.refs[At(t, l, j)] = 1 /\ At(t, l, j) = At(s, l, j)
      OBVIOUS
    <2>1. At(t, l, j) = At(s, l, j) /\ ~(l = k /\ j = i)
      OBVIOUS
    <2>2. At(s, l, j) \notin O \cup ToSet(s.m.free) /\ s.m.refs[At(s, l, j)] = 1
      BY <1>1, <2>1 DEF OwnApart
    <2>3. At(s, l, j) # f
      BY <1>1, <2>1, OwnUnique
    <2>4. QED BY <2>1, <2>2, <2>3
  <1>5. OneNew(s, t, O \cup {f}, 0, k, i)
    BY <1>4 DEF OneNew
  <1>6. QED BY <1>3, <1>5, GoodChange

\* The environment becomes x and a frame it had goes back to the free list.
GivesBack(s, t, x) ==
    \E f, k, i : /\ f # 0 /\ LetsGo(s, [m |-> s.m, e |-> x], f, k, i)
                 /\ t = [m |-> free_frame(s.m, f), e |-> x]

\* A frame that is let go of and freed.
LEMMA OwnFreed ==
    ASSUME NEW s, NEW t, NEW O, NEW x \in Environments,
           Good(s, O), O \subseteq Frames, GivesBack(s, t, x)
    PROVE  Good(t, O) /\ Spares(t.m, s.m, O) /\ t.e = x /\ t.m.panic = s.m.panic
  <1>0. PICK f, k, i : /\ f # 0 /\ LetsGo(s, [m |-> s.m, e |-> x], f, k, i)
                       /\ t = [m |-> free_frame(s.m, f), e |-> x]
    BY DEF GivesBack
  <1> DEFINE u == [m |-> s.m, e |-> x]
             d == free_frame(s.m, f)
  <1>1. s.m \in Memories
    BY OwnFacts
  <1>2. f \in Frames \ {0}
    BY <1>0, OwnInFrames DEF LetsGo
  <1>3. /\ d \in Memories /\ d.word = s.m.word /\ d.panic = s.m.panic
        /\ d.free = <<f>> \o s.m.free /\ d.refs[f] = 0
        /\ \A g \in Frames \ {f} : d.refs[g] = s.m.refs[g]
    BY <1>1, <1>2, FreeFacts
  <1> HIDE DEF d
  <1>4. t.m = d /\ t.e = x /\ Typed(t) /\ u.m = s.m /\ u.e = x
    BY <1>0, <1>3 DEF Typed, d
  <1> HIDE DEF u
  <1>5. LetsGo(s, u, f, k, i)
    BY <1>0 DEF u
  <1>6. Good(u, O \cup {f})
    BY <1>2, <1>5, OwnLetGo
  <1>7. Frees(u, t, f)
    BY <1>3, <1>4 DEF Frees
  <1>8. f \notin O
    BY <1>0 DEF LetsGo, Good, OwnApart
  <1>9. Good(t, O) /\ Alike(u, t, O)
    BY <1>2, <1>6, <1>7, <1>8, FrameFreed
  <1>10. Spares(t.m, s.m, O)
    BY <1>4, <1>9 DEF Alike
  <1>11. QED BY <1>3, <1>4, <1>9, <1>10

\* An environment without a directory has no tables and no pages.
LEMMA WithoutDirectory ==
    ASSUME NEW s, s.e.dir = 0
    PROVE  /\ \A i \in UserDirs : TableEntry(s, i) = Zero
           /\ \A v \in VPages : Entry(s, v) = Zero
           /\ EntriesName(s) /\ Zero.pa = 0
           /\ \A k \in Kinds, i \in Index : At(s, k, i) = IF k = "disk" /\ i \in 0 .. DiskDir THEN s.e.disk[i] ELSE 0
  <1>1. \A i : TableEntry(s, i) = Zero
    BY DEF TableEntry
  <1>2. \A v : Entry(s, v) = Zero
    BY <1>1 DEF Entry
  <1>3. Zero.pa = 0
    BY DEF Zero
  <1>4. \A k, i : At(s, k, i) = IF k = "disk" /\ i \in 0 .. DiskDir THEN s.e.disk[i] ELSE 0
    BY <1>1, <1>2, <1>3 DEF At
  <1>5. EntriesName(s)
    BY <1>1, <1>2 DEF EntriesName, Names
  <1>6. QED BY <1>1, <1>2, <1>3, <1>4, <1>5

\* One table of the page file is freed.
LEMMA DiskTableFreed ==
    ASSUME NEW s, NEW t, NEW O, NEW i \in 0 .. DiskDir, Good(s, O), O \subseteq Frames, s.e.dir = 0,
           t = FreeDiskTable(s, i)
    PROVE  Good(t, O) /\ Spares(t.m, s.m, O) /\ t.e.dir = 0 /\ t.m.panic = s.m.panic
  <1> DEFINE f == s.e.disk[i]
             x == [s.e EXCEPT !.disk[i] = 0]
             u == [m |-> s.m, e |-> x]
             d == decrement_references(s.m, f)
  <1>1. s.m \in Memories /\ s.e \in Environments /\ Typed(s) /\ IsPair(s)
    BY OwnFacts, TypedIsPair DEF Good
  <1>2. CASE f = 0
    BY <1>2 DEF FreeDiskTable, Spares
  <1>3. CASE f # 0
    <2>1. At(s, "disk", i) = f /\ "disk" \in Kinds /\ i \in Index
      BY AtFacts
    <2>2. s.m.refs[f] = 1
      BY <1>3, <2>1 DEF Good, OwnApart
    <2>3. d = free_frame(s.m, f)
      BY <2>2 DEF decrement_references
    <2>4. t = [m |-> free_frame(s.m, f), e |-> x]
      <3>1. t = [s EXCEPT !.m = d, !.e = x]
        BY <1>3 DEF FreeDiskTable
      <3> HIDE DEF d, x
      <3>2. t = [m |-> d, e |-> x]
        BY <1>1, <3>1 DEF IsPair
      <3>3. QED BY <2>3, <3>2
    <2>5. x \in Environments /\ x.dir = 0 /\ x.disk = [s.e.disk EXCEPT ![i] = 0]
      BY <1>1, Layout DEF Environments
    <2>6. s.e.disk \in [0 .. DiskDir -> Frames]
      BY <1>1 DEF Environments
    <2> HIDE DEF x, f
    <2>7. u.m = s.m /\ u.e = x /\ Typed(u)
      BY <1>1, <2>5 DEF Typed
    <2> HIDE DEF u
    <2>8. EntriesName(u) /\ \A k \in Kinds, j \in Index :
            At(u, k, j) = IF k = "disk" /\ j \in 0 .. DiskDir THEN x.disk[j] ELSE 0
      BY <2>5, <2>7, WithoutDirectory
    <2>9. \A k \in Kinds, j \in Index :
            At(s, k, j) = IF k = "disk" /\ j \in 0 .. DiskDir THEN s.e.disk[j] ELSE 0
      BY WithoutDirectory
    <2>10. \A j \in 0 .. DiskDir : x.disk[j] = IF j = i THEN 0 ELSE s.e.disk[j]
      BY <2>5, <2>6
    <2>11. LetsGo(s, u, f, "disk", i)
      <3>1. \A l \in Kinds, j \in Index :
              At(u, l, j) # 0 => At(u, l, j) = At(s, l, j) /\ ~(l = "disk" /\ j = i)
        <4> SUFFICES ASSUME NEW l \in Kinds, NEW j \in Index, At(u, l, j) # 0
                     PROVE  At(u, l, j) = At(s, l, j) /\ ~(l = "disk" /\ j = i)
          OBVIOUS
        <4>1. l = "disk" /\ j \in 0 .. DiskDir
          BY <2>8
        <4>2. At(u, l, j) = x.disk[j] /\ At(s, l, j) = s.e.disk[j]
          BY <2>8, <2>9, <4>1
        <4>3. QED BY <2>10, <4>1, <4>2
      <3>2. QED BY <2>1, <2>7, <2>8, <3>1 DEF LetsGo
    <2>12. GivesBack(s, t, x)
      BY <1>3, <2>4, <2>11 DEF GivesBack, u
    <2>13. Good(t, O) /\ Spares(t.m, s.m, O) /\ t.e = x /\ t.m.panic = s.m.panic
      BY <2>5, <2>12, OwnFreed
    <2>14. QED BY <2>5, <2>13
  <1>4. QED BY <1>2, <1>3

\* Nothing is left of an environment whose page file is freed.
LEMMA PageFileFreed ==
    ASSUME NEW s, NEW t, NEW O, Good(s, O), O \subseteq Frames, s.e.dir = 0, t = pf_free_env(s)
    PROVE  Good(t, O) /\ Spares(t.m, s.m, O) /\ t.e = NoEnv /\ t.m.panic = s.m.panic
  <1> DEFINE a == FreeDiskTable(s, 0)
             b == FreeDiskTable(a, 1)
             c == FreeDiskTable(b, DiskDir)
  <1>1. 0 \in 0 .. DiskDir /\ 1 \in 0 .. DiskDir /\ DiskDir \in 0 .. DiskDir
    BY DEF DiskDir
  <1>2. Good(a, O) /\ Spares(a.m, s.m, O) /\ a.e.dir = 0 /\ a.m.panic = s.m.panic
    BY <1>1, DiskTableFreed
  <1> HIDE DEF a
  <1>3. Good(b, O) /\ Spares(b.m, a.m, O) /\ b.e.dir = 0 /\ b.m.panic = a.m.panic
    BY <1>1, <1>2, DiskTableFreed
  <1> HIDE DEF b
  <1>4. Good(c, O) /\ Spares(c.m, b.m, O) /\ c.e.dir = 0 /\ c.m.panic = b.m.panic
    BY <1>1, <1>3, DiskTableFreed
  <1>5. t = [c EXCEPT !.e = NoEnv]
    BY DEF pf_free_env, a, b
  <1> HIDE DEF c
  <1>6. t.m = c.m /\ t.e = NoEnv /\ Typed(t)
    <2>1. Typed(c) /\ NoEnv \in Environments
      BY <1>4, NoEnvFacts DEF Good
    <2>2. \A x \in Environments : t = [c EXCEPT !.e = x] => t.m = c.m /\ t.e = x /\ Typed(t)
      BY <2>1, WithEnvFacts
    <2>3. QED BY <1>5, <2>1, <2>2, Zenon
  <1>7. FreeApart(t, O)
    BY <1>4, <1>6 DEF Good, FreeApart
  <1>8. EntriesName(t) /\ \A k \in Kinds, i \in Index : At(t, k, i) = 0
    <2>1. t.e.dir = 0 /\ \A i \in 0 .. DiskDir : t.e.disk[i] = 0
      BY <1>6, NoEnvFacts
    <2>2. QED BY <2>1, WithoutDirectory
  <1>9. Good(t, O)
    BY <1>6, <1>7, <1>8 DEF Good, OwnApart
  <1>10. QED BY <1>2, <1>3, <1>4, <1>6, <1>9 DEF Spares

\* A handler that takes pages from an environment.
Clears(s, t, O) == Step(s, t, O, VPages) /\ t.e = s.e /\ t.m.panic = s.m.panic

\* Two steps of env_free.
LEMMA ClearsThen ==
    ASSUME NEW s, NEW t, NEW u, NEW O, Clears(s, t, O), Clears(t, u, O)
    PROVE  Clears(s, u, O)
  <1>1. Step(s, u, O, VPages \cup VPages) /\ VPages \cup VPages = VPages
    BY StepThen DEF Clears
  <1>2. QED BY <1>1 DEF Clears

\* The loop of env_free over the pages of the lists.
LEMMA PagesUnmapped ==
    ASSUME NEW s, NEW t, NEW O, NEW q \in Seq(VPages), Good(s, O), O \subseteq Frames, s.e.dir # 0,
           t = FoldLeft(Unmap, s, q)
    PROVE  Clears(s, t, O)
  <1> DEFINE n == Len(q)
             K == {x \in [m : Memories, e : Environments] : Clears(s, x, O)}
  <1>1. n \in Nat /\ DOMAIN q = 1 .. n /\ \A i \in 1 .. n : q[i] \in VPages
    BY LenProperties
  <1>2. \A x : x \in K <=> Clears(s, x, O)
    BY DEF Clears, Step, Good, Typed
  <1> HIDE DEF K, n
  <1>3. s \in K
    BY <1>2, StepSame, StepMore DEF Clears
  <1>4. ASSUME NEW i \in 1 .. n, NEW a \in K PROVE Unmap(a, q[i]) \in K
    <2> DEFINE v == q[i]
               b == Unmap(a, v)
    <2>1. Clears(s, a, O) /\ Good(a, O) /\ a.e.dir # 0 /\ v \in VPages
      BY <1>1, <1>2, <1>4 DEF Clears, Step
    <2>2. b = WithMem(a, unmap_frame(a.m, a.e.dir, v))
      BY DEF Unmap
    <2> HIDE DEF b, v
    <2>3. Unmapped(a, b, O, v)
      BY <2>1, <2>2, PageUnmapped
    <2>4. Clears(a, b, O)
      BY <2>1, <2>3, StepMore DEF Unmapped, Clears
    <2>5. QED BY <1>2, <2>1, <2>4, ClearsThen DEF b, v
  <1>5. UnmapPages!FoldLeft(Unmap, s, q) \in K
    BY <1>1, <1>3, <1>4, UnmapPages!FoldStays
  <1>6. QED BY <1>2, <1>5, LoopsOverPages

\* env_free gives a table away, with the pages in it that no list names.
LEMMA TableTaken ==
    ASSUME NEW s, NEW t, NEW O, NEW i \in UserDirs, Good(s, O), O \subseteq Frames, s.e.dir # 0,
           t = FreeTable(s, i)
    PROVE  Clears(s, t, O)
  <1> DEFINE f == s.m.word[s.e.dir][i].pa
  <1>1. /\ TableEntry(s, i) = s.m.word[s.e.dir][i] /\ Zero.pa = 0
        /\ TableEntry(s, i) # Zero => TableEntry(s, i).pa # 0 /\ s.m.refs[TableEntry(s, i).pa] = 1
    BY OwnFacts DEF Zero
  <1>2. CASE f = 0
    <2>1. t = s /\ TableEntry(s, i) = Zero
      BY <1>1, <1>2 DEF FreeTable
    <2>2. QED BY <2>1, StepSame, StepMore DEF Clears
  <1>3. CASE f # 0
    <2>1. TableEntry(s, i) # Zero /\ s.m.refs[f] = 1
      BY <1>1, <1>3
    <2>2. t = WithMem(s, Put(free_frame(s.m, TableEntry(s, i).pa), s.e.dir, i, Zero))
      <3>1. t = WithMem(s, Put(IF s.m.refs[f] = 0 THEN s.m ELSE free_frame(s.m, f), s.e.dir, i, Zero))
        BY <1>3, Zenon DEF FreeTable
      <3> HIDE DEF f
      <3>2. (IF s.m.refs[f] = 0 THEN s.m ELSE free_frame(s.m, f)) = free_frame(s.m, f)
        BY <2>1, SMTT(60)
      <3>3. f = TableEntry(s, i).pa
        BY <1>1, SMTT(60) DEF f
      <3>4. QED BY <3>1, <3>2, <3>3
    <2>3. TableGone(s, t, O, i)
      BY <2>1, <2>2, TableFreed
    <2>4. Step(s, t, O, VPages)
      BY <2>3 DEF Step, TableGone, Untabled
    <2>5. QED BY <2>3, <2>4, SMTT(60) DEF Clears, TableGone, Untabled
  <1>4. QED BY <1>2, <1>3

\* The directory is given back once user space is empty.
WithoutDir(s) == [s EXCEPT !.m = free_frame(@, s.e.dir), !.e.dir = 0]

\* The directory is freed last.
LEMMA DirectoryFreed ==
    ASSUME NEW s, NEW t, NEW O, Good(s, O), O \subseteq Frames, s.e.dir # 0,
           t = WithoutDir(s)
    PROVE  Good(t, O) /\ Spares(t.m, s.m, O) /\ t.e.dir = 0 /\ t.m.panic = s.m.panic
  <1> DEFINE f == s.e.dir
             x == [s.e EXCEPT !.dir = 0]
             u == [m |-> s.m, e |-> x]
             d == free_frame(s.m, f)
  <1>1. s.m \in Memories /\ s.e \in Environments /\ Typed(s) /\ IsPair(s)
    BY OwnFacts, TypedIsPair DEF Good
  <1>2. t = [m |-> d, e |-> x]
    <2>1. t = [s EXCEPT !.m = d, !.e = x]
      BY DEF WithoutDir
    <2> HIDE DEF d, x
    <2>2. QED BY <1>1, <2>1 DEF IsPair
  <1>3. x \in Environments /\ x.dir = 0 /\ x.disk = s.e.disk
    BY <1>1, Layout DEF Environments
  <1>4. At(s, "dir", 0) = f /\ "dir" \in Kinds /\ 0 \in Index
    BY AtFacts
  <1> HIDE DEF x, f
  <1>5. u.m = s.m /\ u.e = x /\ Typed(u)
    BY <1>1, <1>3 DEF Typed
  <1> HIDE DEF u
  <1>6. EntriesName(u) /\ \A k \in Kinds, j \in Index :
          At(u, k, j) = IF k = "disk" /\ j \in 0 .. DiskDir THEN s.e.disk[j] ELSE 0
    BY <1>3, <1>5, WithoutDirectory
  <1>7. \A k \in Kinds, j \in Index :
          At(u, k, j) # 0 => At(u, k, j) = At(s, k, j) /\ ~(k = "dir" /\ j = 0)
    BY <1>6, AtFacts
  <1>8. LetsGo(s, u, f, "dir", 0)
    BY <1>4, <1>5, <1>6, <1>7 DEF LetsGo
  <1>9. GivesBack(s, t, x)
    BY <1>2, <1>8 DEF GivesBack, u, f
  <1>10. Good(t, O) /\ Spares(t.m, s.m, O) /\ t.e = x /\ t.m.panic = s.m.panic
    BY <1>3, <1>9, OwnFreed
  <1>11. QED BY <1>3, <1>10

\* env_free leaves nothing of the environment, and nothing else changed.
LEMMA EnvFreed ==
    ASSUME NEW s, NEW t, NEW O, Good(s, O), O \subseteq Frames, s.e.dir # 0, t = env_free(s)
    PROVE  Good(t, O) /\ Spares(t.m, s.m, O) /\ t.e = NoEnv /\ t.m.panic = s.m.panic
  <1> DEFINE q == s.e.second \o s.e.active
             a == FoldLeft(Unmap, s, q)
             b == FreeTable(a, 0)
             c == FreeTable(b, 1)
             d == [c EXCEPT !.m = free_frame(@, s.e.dir), !.e.dir = 0]
  <1>1. q \in Seq(VPages)
    <2> DEFINE x == s.e.second
               y == s.e.active
    <2>1. x \in Seq(VPages) /\ y \in Seq(VPages)
      BY ListsTyped
    <2> HIDE DEF x, y
    <2>2. x \o y \in Seq(VPages)
      BY <2>1, ConcatElements
    <2>3. QED BY <2>2 DEF x, y
  <1>2. t = pf_free_env(d)
    BY DEF env_free
  <1> HIDE DEF q
  <1>3. Clears(s, a, O) /\ Good(a, O) /\ a.e = s.e
    BY <1>1, PagesUnmapped DEF Clears, Step
  <1> HIDE DEF a
  <1>4. 0 \in UserDirs /\ 1 \in UserDirs
    BY Layout
  <1>5. Clears(a, b, O)
    BY <1>3, <1>4, TableTaken
  <1> HIDE DEF b, d
  <1>6. Good(b, O) /\ b.e = s.e /\ b.e.dir # 0
    BY <1>3, <1>5 DEF Clears, Step
  <1>7. Clears(b, c, O)
    BY <1>4, <1>6, TableTaken
  <1> HIDE DEF c
  <1>8. Good(c, O) /\ c.e = s.e
    BY <1>6, <1>7 DEF Clears, Step
  <1>9. d = WithoutDir(c)
    BY <1>8 DEF d, WithoutDir
  <1>10. Good(d, O) /\ Spares(d.m, c.m, O) /\ d.e.dir = 0 /\ d.m.panic = c.m.panic
    BY <1>8, <1>9, DirectoryFreed
  <1>11. Good(t, O) /\ Spares(t.m, d.m, O) /\ t.e = NoEnv /\ t.m.panic = d.m.panic
    BY <1>2, <1>10, PageFileFreed DEF d
  <1>12. Clears(s, c, O)
    BY <1>3, <1>5, <1>7, ClearsThen
  <1>13. QED BY <1>10, <1>11, <1>12 DEF Clears, Step, Spares

-----------------------------------------------------------------------------
(* One environment among the others. *)

\* What a handler of the environment e leaves: O is the rest of the system.
Acted(mem, t, O, k) == Good(t, O) /\ Spares(t.m, mem, O) /\ EnvFits(t, t.m.word[k])

\* The parts of Pair.
LEMMA PairParts ==
    ASSUME NEW mem, NEW envs, NEW e
    PROVE  Pair(mem, envs, e).m = mem /\ Pair(mem, envs, e).e = envs[e]
  BY DEF Pair

\* The frames of an environment belong to the others of every other one.
LEMMA OthersHave ==
    ASSUME NEW mem, NEW envs, NEW R, NEW e, NEW x \in Envs \ {e}, NEW k \in Kinds, NEW i \in Index,
           At(Pair(mem, envs, x), k, i) # 0
    PROVE  At(Pair(mem, envs, x), k, i) \in Others(mem, envs, R, e)
  <1>1. At(Pair(mem, envs, x), k, i) \in UsedBy(mem, envs, x)
    BY DEF UsedBy
  <1>2. QED BY <1>1 DEF Others

\* Nothing of s is changed in u, and nothing of it is free or among O.
Unmoved(s, u, mem, P, Q, k) ==
    /\ SameMap(s, u) /\ \A l \in Kinds, i \in Index : At(u, l, i) = At(s, l, i)
    /\ EnvFits(u, mem.word[k]) /\ Typed(u)
    /\ \A l \in Kinds, i \in Index : At(s, l, i) # 0 =>
         /\ At(s, l, i) \in P /\ At(s, l, i) \notin Q
         /\ At(s, l, i) \notin ToSet(mem.free) /\ mem.refs[At(s, l, i)] = 1

\* An environment that another one's handler leaves alone.
LEMMA OtherUnchanged ==
    ASSUME NEW mem, NEW envs, NEW R, NEW k, NEW e \in Envs, NEW x \in Envs \ {e}, NEW t, NEW u,
           System(mem, envs, R, k), Acted(mem, t, Others(mem, envs, R, e), k),
           u = [m |-> t.m, e |-> envs[x]]
    PROVE  Unmoved(Pair(mem, envs, x), u, t.m, Others(mem, envs, R, e), Others(mem, envs, R, x), k)
  <1> DEFINE s == Pair(mem, envs, x)
             O == Others(mem, envs, R, e)
             Q == Others(mem, envs, R, x)
  <1>1. /\ Good(s, Q) /\ EnvFits(s, mem.word[k]) /\ k \in O
    BY DEF System, Others
  <1>2. s.m = mem /\ s.e = envs[x] /\ u.m = t.m /\ u.e = envs[x]
    BY PairParts
  <1>3. \A l \in Kinds, i \in Index : At(s, l, i) # 0 => At(s, l, i) \in O
    BY OthersHave
  <1> HIDE DEF s, O, Q
  <1>4. Good(t, O) /\ Spares(t.m, mem, O)
    BY DEF Acted, O
  <1>5. Typed(u)
    <2>1. t.m \in Memories /\ s.e \in Environments
      BY <1>1, <1>4, OwnFacts
    <2>2. QED BY <1>2, <2>1 DEF Typed
  <1>6. SameMap(s, u)
    <2>1. s.e.dir # 0 => s.e.dir \in O
      BY <1>3, AtFacts
    <2>2. \A i \in UserDirs : TableEntry(s, i) # Zero => TableEntry(s, i).pa \in O
      <3>1. \A i \in UserDirs : TableEntry(s, i) # Zero => TableEntry(s, i).pa # 0
        BY <1>1, OwnFacts
      <3>2. \A i \in UserDirs : At(s, "table", i) = TableEntry(s, i).pa /\ "table" \in Kinds /\ i \in Index
        BY AtFacts
      <3>3. \A i \in UserDirs : TableEntry(s, i).pa # 0 => TableEntry(s, i).pa \in O
        BY <1>3, <3>2
      <3>4. QED BY <3>1, <3>3
    <2>3. QED BY <1>1, <1>2, <1>4, <2>1, <2>2, SameMapFacts DEF Spares
  <1>7. \A l \in Kinds, i \in Index : At(u, l, i) = At(s, l, i)
    BY <1>2, <1>6 DEF At, SameMap
  <1>8. \A l \in Kinds, i \in Index : At(s, l, i) # 0 =>
          /\ At(s, l, i) \in O
          /\ At(s, l, i) \notin ToSet(t.m.free) /\ t.m.refs[At(s, l, i)] = 1
          /\ At(s, l, i) \notin Q
    <2> SUFFICES ASSUME NEW l \in Kinds, NEW i \in Index, At(s, l, i) # 0
                 PROVE  /\ At(s, l, i) \in O
                        /\ At(s, l, i) \notin ToSet(t.m.free) /\ t.m.refs[At(s, l, i)] = 1
                        /\ At(s, l, i) \notin Q
      OBVIOUS
    <2>1. At(s, l, i) \in O
      BY <1>3
    <2>2. At(s, l, i) \notin Q /\ s.m.refs[At(s, l, i)] = 1
      BY <1>1 DEF Good, OwnApart
    <2>3. At(s, l, i) \notin ToSet(t.m.free)
      BY <1>4, <2>1 DEF Good, FreeApart
    <2>4. QED BY <1>2, <1>4, <2>1, <2>2, <2>3 DEF Spares
  <1>9. EnvFits(u, u.m.word[k])
    <2>1. u.m.word[k] = mem.word[k] /\ (s.e.dir # 0 => u.m.word[s.e.dir] = s.m.word[s.e.dir])
      <3>1. s.e.dir # 0 => s.e.dir \in O
        BY <1>3, AtFacts
      <3>2. QED BY <1>1, <1>2, <1>4, <3>1 DEF Spares
    <2>2. HalfIs(u, u.m.word[k])
      BY <1>1, <1>2, <2>1 DEF EnvFits, HalfIs
    <2>3. (Hidden(s) => Hidden(u)) /\ (ListsFit(s) => ListsFit(u))
      <3>1. ToSet(s.e.active) \subseteq VPages /\ ToSet(s.e.second) \subseteq VPages
        BY <1>1, ListsTyped
      <3>2. \A v \in VPages : Entry(u, v) = Entry(s, v)
        BY <1>6 DEF SameMap
      <3>3. QED BY <1>2, <3>1, <3>2 DEF Hidden, ListsFit, Lists
    <2>4. QED BY <1>1, <1>2, <2>2, <2>3 DEF EnvFits
  <1>10. QED BY <1>2, <1>5, <1>6, <1>7, <1>8, <1>9 DEF Unmoved, s, O, Q

\* A handler of one environment keeps the whole system.
LEMMA SystemKept ==
    ASSUME NEW mem, NEW envs, NEW R, NEW k, NEW e \in Envs, NEW t,
           System(mem, envs, R, k), Acted(mem, t, Others(mem, envs, R, e), k)
    PROVE  System(t.m, [envs EXCEPT ![e] = t.e], R, k)
  <1> DEFINE now == [envs EXCEPT ![e] = t.e]
             O == Others(mem, envs, R, e)
             P(x) == Others(t.m, now, R, x)
  <1>1. DOMAIN envs = Envs
    BY DEF System
  <1>2. DOMAIN now = Envs /\ now[e] = t.e /\ \A x \in Envs \ {e} : now[x] = envs[x]
    BY <1>1
  <1> HIDE DEF now
  <1>3. Good(t, O) /\ Typed(t)
    BY DEF Acted, Good
  <1>4. Pair(t.m, now, e) = t
    BY <1>2, <1>3, TypedIsPair DEF Pair, IsPair
  <1>5. \A x \in Envs \ {e} : Pair(t.m, now, x) = [m |-> t.m, e |-> envs[x]]
    BY <1>2 DEF Pair
  <1>6. \A x \in Envs \ {e} :
          Unmoved(Pair(mem, envs, x), Pair(t.m, now, x), t.m, O, Others(mem, envs, R, x), k)
    <2> TAKE x \in Envs \ {e}
    <2> DEFINE u == [m |-> t.m, e |-> envs[x]]
    <2>1. u = Pair(t.m, now, x) /\ u.m = t.m
      BY <1>5
    <2> HIDE DEF u
    <2>2. u = [m |-> t.m, e |-> envs[x]]
      BY DEF u
    <2>3. QED BY <2>1, <2>2, OtherUnchanged
  <1>7. \A x \in Envs \ {e} : UsedBy(t.m, now, x) = UsedBy(mem, envs, x)
    BY <1>6 DEF UsedBy, Unmoved
  <1>8. P(e) = O
    BY <1>7 DEF Others
  <1>9. EnvFits(t, t.m.word[k])
    BY DEF Acted
  <1> HIDE DEF P, O
  <1>10. ASSUME NEW x \in Envs \ {e} PROVE Good(Pair(t.m, now, x), P(x))
    <2> DEFINE s == Pair(mem, envs, x)
               u == Pair(t.m, now, x)
               Q == Others(mem, envs, R, x)
    <2>1. Good(s, Q)
      BY DEF System
    <2>2. u.m = t.m /\ u.e = envs[x] /\ s.m = mem /\ s.e = envs[x]
      BY <1>2, PairParts
    <2>3. \A f \in P(x) : f \in O \/ f \in UsedBy(t.m, now, e)
      <3> SUFFICES ASSUME NEW f \in P(x), f \notin UsedBy(t.m, now, e) PROVE f \in O
        OBVIOUS
      <3>1. CASE f \in R
        BY <3>1 DEF O, Others
      <3>2. CASE f \notin R
        <4>1. PICK y \in Envs \ {x} : f \in UsedBy(t.m, now, y)
          BY <3>2 DEF P, Others
        <4>2. y # e /\ f \in UsedBy(mem, envs, y)
          BY <1>7, <4>1
        <4>3. QED BY <4>2 DEF O, Others
      <3>3. QED BY <3>1, <3>2
    <2>4. \A f \in UsedBy(t.m, now, e) : f \notin O /\ f \notin ToSet(t.m.free)
      BY <1>3, <1>4 DEF UsedBy, Good, OwnApart
    <2>5. FreeApart(u, P(x))
      BY <1>3, <2>2, <2>3, <2>4 DEF Good, FreeApart
    <2>6. \A f \in P(x) : f \in Q \/ f \in UsedBy(t.m, now, e)
      <3> SUFFICES ASSUME NEW f \in P(x), f \notin UsedBy(t.m, now, e) PROVE f \in Q
        OBVIOUS
      <3>1. CASE f \in R
        BY <3>1 DEF Q, Others
      <3>2. CASE f \notin R
        <4>1. PICK y \in Envs \ {x} : f \in UsedBy(t.m, now, y)
          BY <3>2 DEF P, Others
        <4>2. y # e /\ f \in UsedBy(mem, envs, y)
          BY <1>7, <4>1
        <4>3. QED BY <4>2 DEF Q, Others
      <3>3. QED BY <3>1, <3>2
    <2>7. \A l \in Kinds, i \in Index : At(s, l, i) # 0 =>
            At(s, l, i) \notin P(x) \cup ToSet(u.m.free) /\ u.m.refs[At(s, l, i)] = 1
      BY <1>6, <2>2, <2>4, <2>6 DEF Unmoved
    <2>8. SameMap(s, u) /\ Typed(u)
      BY <1>6 DEF Unmoved
    <2> HIDE DEF s, u, Q
    <2>9. Good(u, P(x))
      BY <2>1, <2>2, <2>5, <2>7, <2>8, GoodSame
    <2>10. QED BY <2>9 DEF u
  <1>11. \A x \in Envs : Good(Pair(t.m, now, x), P(x)) /\ EnvFits(Pair(t.m, now, x), t.m.word[k])
    BY <1>3, <1>4, <1>6, <1>8, <1>9, <1>10 DEF Unmoved
  <1>12. Distinct(t.m.free) /\ \A f \in ToSet(t.m.free) : f \notin R /\ f # 0 /\ t.m.refs[f] = 0
    BY <1>3 DEF Good, FreeApart, O, Others
  <1>13. k \in R /\ R \subseteq Frames /\ t.m \in Memories
    BY <1>3, OwnFacts DEF System
  <1>14. System(t.m, now, R, k)
    BY <1>2, <1>11, <1>12, <1>13 DEF System, P
  <1>15. QED BY <1>14 DEF now

\* What a handler of e starts from.
Start(mem, envs, e) == [m |-> [mem EXCEPT !.panic = FALSE], e |-> envs[e]]

\* What it finds: its environment, and apart from it the rest of the system.
Found(mem, envs, s, O, k, e) ==
    /\ Good(s, O) /\ O \subseteq Frames /\ k \in O /\ Spares(s.m, mem, O)
    /\ ~s.m.panic /\ s.e = envs[e] /\ EnvFits(s, s.m.word[k])
    /\ s.m.word = mem.word /\ s.m.free = mem.free /\ s.m.refs = mem.refs
    /\ SameMap(Pair(mem, envs, e), s)

\* The frames of the others are frames.
LEMMA OthersInFrames ==
    ASSUME NEW mem, NEW envs, NEW R, NEW k, NEW e, System(mem, envs, R, k)
    PROVE  Others(mem, envs, R, e) \subseteq Frames
  <1>1. \A x \in Envs : Good(Pair(mem, envs, x), Others(mem, envs, R, x)) /\ R \subseteq Frames
    BY DEF System
  <1>2. \A x \in Envs, l \in Kinds, i \in Index : At(Pair(mem, envs, x), l, i) \in Frames
    BY <1>1, OwnInFrames
  <1>3. \A x \in Envs : UsedBy(mem, envs, x) \subseteq Frames
    BY <1>2 DEF UsedBy
  <1>4. QED BY <1>1, <1>3 DEF System, Others

\* A handler finds the system in order, apart from the panic of the one
\* before.
LEMMA StartFound ==
    ASSUME NEW mem, NEW envs, NEW R, NEW k, NEW e \in Envs, NEW s,
           System(mem, envs, R, k), s = Start(mem, envs, e)
    PROVE  Found(mem, envs, s, Others(mem, envs, R, e), k, e)
  <1> DEFINE O == Others(mem, envs, R, e)
             p == Pair(mem, envs, e)
  <1>1. Good(p, O) /\ EnvFits(p, mem.word[k]) /\ k \in R /\ k \in O
    BY DEF System, Others
  <1>2. p.m = mem /\ p.e = envs[e] /\ s.e = envs[e] /\ s.m = [mem EXCEPT !.panic = FALSE]
    BY PairParts DEF Start
  <1>3. O \subseteq Frames
    BY OthersInFrames
  <1>4. s = WithMem(p, [p.m EXCEPT !.panic = FALSE])
    BY <1>2 DEF WithMem, Start, Pair
  <1> HIDE DEF p, O
  <1>5. FALSE \in BOOLEAN
    OBVIOUS
  <1>6. OnlyMaps(p, s, O, {}) /\ s.e = p.e /\ s.m.panic = FALSE
    BY <1>1, <1>4, <1>5, PanicMaps
  <1>7. Step(p, s, O, {}) /\ s.m.free = p.m.free /\ s.m.word = p.m.word /\ s.m.refs = p.m.refs /\ SameMap(p, s)
    BY <1>1, <1>4, <1>5, Panicked
  <1>8. Good(s, O) /\ Spares(s.m, mem, O)
    BY <1>2, <1>6 DEF OnlyMaps, Step
  <1>9. (Hidden(p) => Hidden(s)) /\ (ListsFit(p) => ListsFit(s))
    BY <1>1, <1>6, OnlyMapsLists
  <1>10. EnvFits(s, s.m.word[k])
    <2>1. HalfIs(s, s.m.word[k])
      BY <1>1, <1>2, <1>7 DEF EnvFits, HalfIs
    <2>2. QED BY <1>1, <1>2, <1>9, <2>1 DEF EnvFits
  <1>11. QED BY <1>1, <1>2, <1>3, <1>6, <1>7, <1>8, <1>10 DEF Found, O, p

\* An environment that can run is ready for every handler.
LEMMA RunningReady ==
    ASSUME NEW mem, NEW envs, NEW s, NEW O, NEW k, NEW e, Found(mem, envs, s, O, k, e),
           envs[e].status = "alive"
    PROVE  Ready(s, O)
  BY DEF Found, Ready, EnvFits

\* Its kernel half stays that of the kernel's directory.
LEMMA HalfKept ==
    ASSUME NEW mem, NEW envs, NEW s, NEW t, NEW O, NEW V, NEW k, NEW e,
           Found(mem, envs, s, O, k, e), Step(s, t, O, V)
    PROVE  Good(t, O) /\ Spares(t.m, mem, O) /\ HalfIs(t, t.m.word[k])
  <1>1. Good(t, O) /\ Spares(t.m, mem, O) /\ t.m.word[k] = s.m.word[k]
    BY DEF Found, Step, Spares
  <1>2. HalfIs(t, t.m.word[k])
    BY <1>1 DEF Found, Step, EnvFits, HalfIs, SameHalf
  <1>3. QED BY <1>1, <1>2
  
\* A panic of its handler makes the running environment an exited one.
Exit(t) == [t EXCEPT !.e.status = "exit"]
Exited(t) == IF t.m.panic THEN Exit(t) ELSE t

\* Exiting changes the status only.
LEMMA ExitRelists ==
    ASSUME NEW t, NEW O, Good(t, O)
    PROVE  LET u == Exit(t) IN
           Relists(t, u) /\ u.e.status = "exit" /\ u.e.active = t.e.active /\ u.e.second = t.e.second
             /\ u.e = [t.e EXCEPT !.status = "exit"]
  <1>1. Typed(t) /\ t.e \in Environments /\ t.m \in Memories
    BY OwnFacts DEF Good
  <1> DEFINE x == [t.e EXCEPT !.status = "exit"]
             u == [t EXCEPT !.e = x]
  <1>2. x \in Environments /\ x.status = "exit" /\ x.dir = t.e.dir /\ x.disk = t.e.disk
          /\ x.active = t.e.active /\ x.second = t.e.second
    BY <1>1 DEF Environments, States
  <1>3. u = Exit(t)
    BY <1>1 DEF Typed, Exit
  <1> HIDE DEF x
  <1>4. Typed(u) /\ u.m = t.m /\ u.e = x
    BY <1>1, <1>2, WithEnvFacts
  <1> HIDE DEF u
  <1>5. Relists(t, u) /\ u.e.status = "exit" /\ u.e.active = t.e.active /\ u.e.second = t.e.second /\ u.e = x
    BY <1>2, <1>4 DEF Relists
  <1>6. QED BY <1>3, <1>5 DEF x

\* An environment that exits stays in order.
LEMMA ExitActs ==
    ASSUME NEW mem, NEW t, NEW O, NEW k,
           Good(t, O), Spares(t.m, mem, O), HalfIs(t, t.m.word[k]), Hidden(t), t.e.dir # 0
    PROVE  /\ Acted(mem, Exit(t), O, k) /\ Exit(t).m = t.m
           /\ Exit(t).e = [t.e EXCEPT !.status = "exit"]
  <1> DEFINE u == Exit(t)
  <1>1. /\ Relists(t, u) /\ u.e.status = "exit" /\ u.e.active = t.e.active /\ u.e.second = t.e.second
        /\ u.e = [t.e EXCEPT !.status = "exit"]
    BY ExitRelists
  <1> HIDE DEF u
  <1>2. Step(t, u, O, {}) /\ SameMap(t, u) /\ u.m = t.m /\ u.e.dir = t.e.dir
    BY <1>1, Relisted DEF Relists
  <1>3. Hidden(u)
    BY <1>1, <1>2 DEF Hidden, SameMap
  <1>4. HalfIs(u, u.m.word[k])
    BY <1>2 DEF HalfIs
  <1>5. EnvFits(u, u.m.word[k])
    BY <1>1, <1>2, <1>3, <1>4 DEF EnvFits
  <1>6. QED BY <1>1, <1>2, <1>5 DEF Acted, Step, u

\* A handler of the running environment.
LEMMA ServedActs ==
    ASSUME NEW mem, NEW envs, NEW s, NEW t, NEW O, NEW k, NEW e,
           Found(mem, envs, s, O, k, e), envs[e].status = "alive", Served(s, t, O)
    PROVE  Acted(mem, Exited(t), O, k)
  <1>1. /\ Good(t, O) /\ Spares(t.m, mem, O) /\ HalfIs(t, t.m.word[k]) /\ Hidden(t)
        /\ t.e.dir # 0 /\ t.e.status = "alive" /\ (~t.m.panic => ListsFit(t))
    <2>1. Step(s, t, O, VPages) /\ t.e.status = s.e.status /\ Hidden(t) /\ (~t.m.panic => ListsFit(t))
      BY DEF Served
    <2>2. s.e.dir # 0 /\ s.e.status = "alive"
      BY DEF Found, EnvFits
    <2>3. QED BY <2>1, <2>2, HalfKept DEF Step
  <1>2. CASE t.m.panic
    BY <1>1, <1>2, ExitActs DEF Exited
  <1>3. CASE ~t.m.panic
    BY <1>1, <1>3 DEF Exited, Acted, EnvFits
  <1>4. QED BY <1>2, <1>3

\* An operation that only maps pages, of any environment.
LEMMA MapsAct ==
    ASSUME NEW mem, NEW envs, NEW s, NEW t, NEW O, NEW V, NEW k, NEW e,
           Found(mem, envs, s, O, k, e), s.e.dir # 0, OnlyMaps(s, t, O, V)
    PROVE  Acted(mem, t, O, k)
  <1>1. Step(s, t, O, V) /\ t.e.status = s.e.status
    BY DEF OnlyMaps
  <1>2. Good(t, O) /\ Spares(t.m, mem, O) /\ HalfIs(t, t.m.word[k])
    BY <1>1, HalfKept
  <1>3. (Hidden(s) => Hidden(t)) /\ (ListsFit(s) => ListsFit(t))
    BY OnlyMapsLists DEF Found
  <1>4. t.e.dir # 0
    BY <1>1 DEF Step
  <1>5. EnvFits(t, t.m.word[k])
    BY <1>1, <1>2, <1>3, <1>4 DEF Found, EnvFits
  <1>6. QED BY <1>2, <1>5 DEF Acted

\* The running environment exits, and nothing else happens to it.
LEMMA SystemExit ==
    ASSUME NEW mem, NEW envs, NEW R, NEW k, NEW c \in Envs,
           System(mem, envs, R, k), envs[c].status = "alive"
    PROVE  System(mem, [envs EXCEPT ![c].status = "exit"], R, k)
  <1> DEFINE p == Pair(mem, envs, c)
             O == Others(mem, envs, R, c)
             u == Exit(p)
  <1>1. Good(p, O) /\ EnvFits(p, mem.word[k])
    BY DEF System
  <1>2. p.m = mem /\ p.e = envs[c]
    BY PairParts
  <1>3. HalfIs(p, p.m.word[k]) /\ Hidden(p) /\ p.e.dir # 0 /\ Spares(p.m, mem, O)
    BY <1>1, <1>2 DEF EnvFits, Spares
  <1> HIDE DEF p, O
  <1>5. Acted(mem, u, O, k) /\ u.m = p.m /\ u.e = [p.e EXCEPT !.status = "exit"]
    BY <1>1, <1>3, ExitActs
  <1> HIDE DEF u
  <1>6. System(u.m, [envs EXCEPT ![c] = u.e], R, k)
    BY <1>5, SystemKept DEF O
  <1>7. [envs EXCEPT ![c] = u.e] = [envs EXCEPT ![c].status = "exit"]
    BY <1>2, <1>5
  <1>8. QED BY <1>2, <1>5, <1>6, <1>7

-----------------------------------------------------------------------------
(* The running system. *)

\* The kernel's frames, and those that are none of e's business.
Kernels == Reserved \cap Frames
Rest(e) == Others(m, env, Kernels, e)

\* The processor translates by the entry that the tables have.
LEMMA Translates ==
    ASSUME NEW s, NEW O, NEW v \in VPages, Good(s, O), s.e.dir # 0
    PROVE  /\ HasTable(s.m, s.e.dir, v) /\ PTE(s.m, s.e.dir, v).p <=> Entry(s, v).p
           /\ Entry(s, v).p => PTE(s.m, s.e.dir, v).pa = Entry(s, v).pa
  <1>1. ~Zero.p
    BY DEF Zero
  <1>2. TableEntry(s, PDX(v)) = Zero => Entry(s, v) = Zero
    BY DEF Entry
  <1>3. QED BY <1>1, <1>2, Looked

\* The kernel's frames are the same while ptr_free_mem is.
LEMMA KernelsStay ==
    ASSUME free_mem' = free_mem
    PROVE  Kernels' = Kernels
  BY DEF Kernels, Reserved, BootStart, RoundUp

\* What RunInv says of e, at the start of its handler.
LEMMA OnFound ==
    ASSUME RunInv, NEW e \in Envs
    PROVE  /\ System(m, env, Kernels, kdir) /\ DOMAIN env = Envs
           /\ On(e) = Start(m, env, e) /\ Found(m, env, On(e), Rest(e), kdir, e)
           /\ Good(Pair(m, env, e), Rest(e)) /\ EnvFits(Pair(m, env, e), m.word[kdir])
  <1>1. System(m, env, Kernels, kdir)
    BY DEF RunInv, Kernels
  <1>2. On(e) = Start(m, env, e)
    BY DEF On, Start
  <1>3. Found(m, env, On(e), Rest(e), kdir, e)
    BY <1>1, <1>2, StartFound DEF Rest
  <1>4. QED BY <1>1, <1>2, <1>3 DEF System, Rest

\* The pages of V have been invalidated, or their entries are the old ones.
Invalidates(s, t, inv) == \A u \in UserPages \ inv : Entry(t, u) = Entry(s, u)

\* A step has invalidated what it should when it touches only pages of inv.
LEMMA StepInvalidates ==
    ASSUME NEW s, NEW t, NEW O, NEW V, NEW inv, Step(s, t, O, V), V \cap UserPages \subseteq inv
    PROVE  Invalidates(s, t, inv)
  BY Layout DEF Step, Invalidates

\* A handler of the running environment.
LEMMA FinishRunning ==
    ASSUME NEW t, NEW inv, RunInv, cr3 \in Envs, Served(On(cr3), t, Rest(cr3)),
           ~t.m.panic => Invalidates(On(cr3), t, inv), Finish(cr3, t, inv),
           kdir' = kdir, free_mem' = free_mem
    PROVE  RunInv'
  <1> DEFINE e == cr3
             s == On(e)
             p == Pair(m, env, e)
             O == Rest(e)
             u == Exited(t)
  <1>1. /\ System(m, env, Kernels, kdir) /\ DOMAIN env = Envs /\ Found(m, env, s, O, kdir, e)
        /\ Good(p, O) /\ EnvFits(p, m.word[kdir])
    BY OnFound
  <1>2. env[e].status = "alive" /\ p.m = m /\ p.e = env[e]
    BY PairParts DEF RunInv
  <1>3. Acted(m, u, O, kdir)
    BY <1>1, <1>2, ServedActs
  <1>4. System(u.m, [env EXCEPT ![e] = u.e], Kernels, kdir)
    BY <1>1, <1>3, SystemKept DEF Rest
  <1>5. Step(s, t, O, VPages) /\ Good(t, O) /\ t.e.status = "alive" /\ t.e.dir # 0
    <2>1. s.e.status = "alive" /\ s.e.dir # 0
      BY <1>1, <1>2 DEF Found, EnvFits
    <2>2. QED BY <2>1 DEF Served, Step
  <1>6. u.m = t.m /\ u.e = IF t.m.panic THEN [t.e EXCEPT !.status = "exit"] ELSE t.e
    BY <1>5, ExitRelists DEF Exited, Relists
  <1>7. m' = u.m /\ env' = [env EXCEPT ![e] = u.e]
    BY <1>1, <1>6 DEF Finish
  <1>8. System(m', env', Kernels', kdir')
    BY <1>4, <1>7, KernelsStay
  <1>9. CASE t.m.panic
    <2>1. cr3' = "kernel" /\ tlb' = {} /\ "kernel" \notin Envs
      BY <1>9, MachineFits DEF Finish
    <2>2. QED BY <1>8, <2>1 DEF RunInv, TLBCoherent, Kernels
  <1>10. CASE ~t.m.panic
    <2>1. cr3' = e /\ tlb' = {x \in tlb : x[1] \notin inv} /\ m' = t.m /\ env'[e] = t.e
      BY <1>1, <1>6, <1>7, <1>10 DEF Finish
    <2>2. ASSUME NEW x \in tlb, x[1] \notin inv
          PROVE  PresentAt(e, x[1])' /\ PTE(m', env'[e].dir, x[1]).pa = x[2]
      <3> DEFINE v == x[1]
      <3>1. v \in UserPages /\ v \in VPages
        BY Layout DEF RunInv
      <3>2. HasTable(p.m, p.e.dir, v) /\ PTE(p.m, p.e.dir, v).p /\ PTE(p.m, p.e.dir, v).pa = x[2]
        BY <1>2 DEF RunInv, TLBCoherent, PresentAt
      <3>3. p.e.dir # 0
        BY <1>1, <1>2 DEF EnvFits
      <3>4. Entry(p, v).p /\ Entry(p, v).pa = x[2]
        BY <1>1, <3>1, <3>2, <3>3, Translates
      <3>5. Entry(t, v) = Entry(p, v)
        BY <1>1, <1>10, <2>2, <3>1 DEF Found, SameMap, Invalidates
      <3>6. HasTable(t.m, t.e.dir, v) /\ PTE(t.m, t.e.dir, v).p /\ PTE(t.m, t.e.dir, v).pa = x[2]
        BY <1>5, <3>1, <3>4, <3>5, Translates
      <3>7. QED BY <2>1, <3>6 DEF PresentAt
    <2>3. TLBCoherent'
      BY <2>1, <2>2 DEF TLBCoherent, PresentAt
    <2>4. QED BY <1>5, <1>8, <2>1, <2>3 DEF RunInv, Kernels
  <1>11. QED BY <1>9, <1>10

\* A handler of another environment, or of the kernel for one.
LEMMA FinishOther ==
    ASSUME NEW e \in Envs, NEW t, NEW inv, RunInv, cr3 # e, Acted(m, t, Rest(e), kdir),
           Finish(e, t, inv), tlb' = {}, kdir' = kdir, free_mem' = free_mem
    PROVE  RunInv'
  <1> DEFINE now == [env EXCEPT ![e] = t.e]
             c == cr3
  <1>1. System(m, env, Kernels, kdir) /\ DOMAIN env = Envs
    BY OnFound
  <1>2. System(t.m, now, Kernels, kdir)
    BY <1>1, SystemKept DEF Rest
  <1>3. "kernel" \notin Envs /\ c \in Envs \cup {"kernel"} /\ m' = t.m
    BY MachineFits DEF RunInv, Finish
  <1>4. DOMAIN now = Envs /\ \A x \in Envs \ {e} : now[x] = env[x]
    BY <1>1
  <1>5. System(m', env', Kernels, kdir)
    <2>1. CASE t.m.panic /\ c \in Envs
      <3>1. now[c].status = "alive"
        BY <1>1, <1>4, <2>1 DEF RunInv
      <3>2. System(t.m, [now EXCEPT ![c].status = "exit"], Kernels, kdir)
        BY <1>2, <2>1, <3>1, SystemExit
      <3>3. env' = [now EXCEPT ![c].status = "exit"]
        BY <2>1 DEF Finish
      <3>4. QED BY <1>3, <3>2, <3>3
    <2>2. CASE ~(t.m.panic /\ c \in Envs)
      <3>1. env' = now
        BY <2>2 DEF Finish
      <3>2. QED BY <1>2, <1>3, <3>1
    <2>3. QED BY <2>1, <2>2
  <1>6. cr3' \in Envs \cup {"kernel"} /\ (cr3' \in Envs => env'[cr3'].status = "alive")
    <2>1. CASE t.m.panic
      BY <1>3, <2>1 DEF Finish
    <2>2. CASE ~t.m.panic
      BY <1>3, <1>4, <2>2 DEF Finish, RunInv
    <2>3. QED BY <2>1, <2>2
  <1>7. System(m', env', Kernels', kdir')
    BY <1>5, KernelsStay
  <1>8. QED BY <1>6, <1>7 DEF RunInv, TLBCoherent, Kernels

\* Invalidating every user page leaves no translation.
LEMMA AllInvalidated ==
    ASSUME RunInv, NEW e, NEW t, Finish(e, t, UserPages)
    PROVE  tlb' = {}
  BY DEF RunInv, Finish

\* Nothing is cached of a user page while the kernel's directory is used.
LEMMA KernelTranslatesNone ==
    ASSUME RunInv, cr3 = "kernel"
    PROVE  tlb = {}
  BY MachineFits DEF RunInv, TLBCoherent

Stays == kdir' = kdir /\ free_mem' = free_mem

\* What an operation leaves alone.
LEMMA OperationStays ==
    ASSUME Operation
    PROVE  Stays /\ pc = "run" /\ pc' = "run"
  BY DEF Operation, Stays

\* A call of the running environment that only maps pages.
LEMMA MapsRun ==
    ASSUME NEW t, NEW V, NEW inv, RunInv, cr3 \in Envs, OnlyMaps(On(cr3), t, Rest(cr3), V),
           V \subseteq VPages, V \cap UserPages \subseteq inv, Finish(cr3, t, inv), Stays
    PROVE  RunInv'
  <1> DEFINE s == On(cr3)
             O == Rest(cr3)
  <1>1. Found(m, env, s, O, kdir, cr3) /\ env[cr3].status = "alive"
    BY OnFound DEF RunInv
  <1>2. Ready(s, O)
    BY <1>1, RunningReady
  <1>3. Served(s, t, O)
    BY <1>2, OnlyMapsServed DEF Ready
  <1>4. Invalidates(s, t, inv)
    BY StepInvalidates DEF OnlyMaps
  <1>5. QED BY <1>3, <1>4, FinishRunning DEF Stays

\* A call of the running environment after which all its translations are gone.
LEMMA ServedRun ==
    ASSUME NEW t, RunInv, cr3 \in Envs, Served(On(cr3), t, Rest(cr3)),
           Finish(cr3, t, UserPages), Stays
    PROVE  RunInv'
  <1>1. Invalidates(On(cr3), t, UserPages)
    BY DEF Invalidates
  <1>2. QED BY <1>1, FinishRunning DEF Stays

\* The running environment is ready for every handler.
LEMMA RunningFound ==
    ASSUME RunInv, cr3 \in Envs
    PROVE  /\ Ready(On(cr3), Rest(cr3)) /\ On(cr3).e = env[cr3] /\ On(cr3).m \in Memories
           /\ On(cr3).m.free = m.free /\ Len(m.free) \in Nat
  <1>1. Found(m, env, On(cr3), Rest(cr3), kdir, cr3) /\ env[cr3].status = "alive"
    BY OnFound DEF RunInv
  <1>2. On(cr3).m \in Memories
    BY <1>1, OwnFacts DEF Found
  <1>3. On(cr3).m.free \in Seq(Frames)
    BY <1>2 DEF Memories
  <1>4. QED BY <1>1, <1>2, <1>3, RunningReady DEF Found

\* The page fault of the running environment.
LEMMA PageFaultKeeps ==
    ASSUME RunInv, NEW v \in UserPages, PageFault(v)
    PROVE  RunInv'
  <1> DEFINE s == On(cr3)
             t == fault_handler(s, v)
             p == Pair(m, env, cr3)
  <1>1. cr3 \in Envs /\ Stays /\ Finish(cr3, t, UserPages) /\ ~PresentAt(cr3, v) /\ v \in VPages
    BY OperationStays, Layout DEF PageFault
  <1>2. Ready(s, Rest(cr3)) /\ Found(m, env, s, Rest(cr3), kdir, cr3) /\ Good(p, Rest(cr3))
    BY <1>1, RunningFound, OnFound
  <1>3. p.m = m /\ p.e = env[cr3] /\ s.e = env[cr3]
    BY <1>2, PairParts DEF Found
  <1>4. ~Entry(p, v).p
    <2>1. p.e.dir # 0
      BY <1>2, <1>3 DEF Ready
    <2>2. ~(HasTable(p.m, p.e.dir, v) /\ PTE(p.m, p.e.dir, v).p)
      BY <1>1, <1>3 DEF PresentAt
    <2>3. QED BY <1>1, <1>2, <2>1, <2>2, Translates
  <1>5. ~Entry(s, v).p
    BY <1>1, <1>2, <1>4 DEF Found, SameMap
  <1> HIDE DEF s, t, p
  <1>6. t = fault_handler(s, v)
    BY DEF t
  <1>7. Served(s, t, Rest(cr3))
    BY <1>1, <1>2, <1>5, <1>6, FaultServes
  <1>8. QED BY <1>1, <1>7, ServedRun DEF s

\* sys_freeMem of the running environment.
LEMMA FreeMemKeeps ==
    ASSUME RunInv, NEW v \in UserPages, sys_freeMem(v)
    PROVE  RunInv'
  <1>1. cr3 \in Envs /\ Stays /\ Finish(cr3, freeMem(On(cr3), v), UserPages) /\ v \in VPages
    BY OperationStays, Layout DEF sys_freeMem
  <1>2. Ready(On(cr3), Rest(cr3))
    BY <1>1, RunningFound
  <1>3. QED BY <1>1, <1>2, FreeServes, ServedRun

\* sys_allocateMem of the running environment.
LEMMA AllocateMemKeeps ==
    ASSUME RunInv, NEW v \in OtherPages, NEW n \in 1 .. 2, v + n - 1 \in OtherPages, sys_allocateMem(v, n)
    PROVE  RunInv'
  <1> DEFINE V == v .. v + n - 1
             t == allocateMem(On(cr3), v, n)
  <1>1. cr3 \in Envs /\ Stays /\ Finish(cr3, t, V)
    BY OperationStays DEF sys_allocateMem
  <1>2. Ready(On(cr3), Rest(cr3))
    BY <1>1, RunningFound
  <1>3. V \subseteq VPages /\ v \in Nat /\ n \in Nat
    <2>1. v \in VPages /\ v + n - 1 \in VPages
      BY Layout DEF UserPages
    <2>2. QED BY <2>1, Layout DEF VPages
  <1> HIDE DEF t
  <1>4. t = allocateMem(On(cr3), v, n)
    BY DEF t
  <1>5. OnlyMaps(On(cr3), t, Rest(cr3), V)
    BY <1>2, <1>3, <1>4, MemoryAllocated DEF Ready
  <1> HIDE DEF V
  <1>6. V \cap UserPages \subseteq V
    OBVIOUS
  <1>7. QED BY <1>1, <1>3, <1>5, <1>6, MapsRun

\* __sys_allocate_page, the refused call that keeps its frame included.
LEMMA AllocatePageKeeps ==
    ASSUME RunInv, NEW v \in UserPages, NEW valid \in BOOLEAN, __sys_allocate_page(v, valid)
    PROVE  RunInv'
  <1> DEFINE s == On(cr3)
             O == Rest(cr3)
             t == WithMem(s, MapNew(s.m, s.e.dir, v, map_frame))
             u == WithMem(s, allocate_frame(s.m))
  <1>1. cr3 \in Envs /\ Stays /\ v \in VPages
    BY OperationStays, Layout DEF __sys_allocate_page
  <1>2. Finish(cr3, IF valid THEN t ELSE u, {v})
    BY DEF __sys_allocate_page
  <1>3. Ready(s, O)
    BY <1>1, RunningFound
  <1>4. OnlyMaps(s, t, O, {v})
    <2>1. MapsNew(s, t, v)
      BY DEF MapsNew
    <2> HIDE DEF s, t, O
    <2>2. NewlyMapped(s, t, O, v)
      BY <1>1, <1>3, <2>1, NewMapping DEF Ready
    <2>3. QED BY <1>1, <2>2, NewMappingMaps
  <1>5. OnlyMaps(s, u, O, {})
    BY <1>3, FrameLeft DEF Ready
  <1>6. OnlyMaps(s, u, O, {v})
    BY <1>5, OnlyMapsMore
  <1> HIDE DEF t, u, s, O
  <1>7. OnlyMaps(s, IF valid THEN t ELSE u, O, {v}) /\ {v} \subseteq VPages /\ {v} \cap UserPages \subseteq {v}
    BY <1>1, <1>4, <1>6
  <1>8. QED BY <1>1, <1>2, <1>7, MapsRun DEF s, O

\* Frames taken for nobody.
LEMMA TakeAwayKeeps ==
    ASSUME RunInv, NEW n \in Nat, cr3 \in Envs, Stays,
           Finish(cr3, WithMem(On(cr3), TakeAway(On(cr3).m, n)), {})
    PROVE  RunInv'
  <1>1. Ready(On(cr3), Rest(cr3))
    BY RunningFound
  <1>2. OnlyMaps(On(cr3), WithMem(On(cr3), TakeAway(On(cr3).m, n)), Rest(cr3), {})
    BY <1>1, FramesTakenAway DEF Ready
  <1>3. QED BY <1>2, MapsRun

\* sys_clearFFL takes every frame.
LEMMA ClearFFLKeeps ==
    ASSUME RunInv, sys_clearFFL
    PROVE  RunInv'
  <1>1. cr3 \in Envs /\ Stays /\ Finish(cr3, WithMem(On(cr3), TakeAway(On(cr3).m, Len(On(cr3).m.free))), {})
    BY OperationStays DEF sys_clearFFL
  <1>2. Len(On(cr3).m.free) \in Nat
    BY <1>1, RunningFound
  <1>3. QED BY <1>1, <1>2, TakeAwayKeeps

\* sys_scarce_memory takes a number of frames that is never negative.
LEMMA ScarceMemoryKeeps ==
    ASSUME RunInv, NEW total \in {NFrames \div 2, NFrames - 1}, sys_scarce_memory(total)
    PROVE  RunInv'
  <1> DEFINE mem == On(cr3).m
             used == NFrames - Len(mem.free)
             n == IF total < used THEN Len(mem.free) + 1 ELSE total - used + 1
  <1>1. cr3 \in Envs /\ Stays /\ Finish(cr3, WithMem(On(cr3), scarce_memory(mem, total)), {})
    BY OperationStays DEF sys_scarce_memory
  <1>2. Len(mem.free) \in Nat
    BY <1>1, RunningFound
  <1>3. scarce_memory(mem, total) = TakeAway(mem, n)
    BY DEF scarce_memory
  <1>4. total \in Nat
    BY Layout
  <1>5. n \in Nat
    <2> DEFINE l == Len(mem.free)
    <2>1. l \in Nat /\ NFrames \in Nat
      BY <1>2, Layout
    <2> HIDE DEF l, mem
    <2>2. n = IF total < NFrames - l THEN l + 1 ELSE total - (NFrames - l) + 1
      BY DEF l
    <2> HIDE DEF n
    <2>3. QED BY <1>4, <2>1, <2>2
  <1> HIDE DEF n
  <1>6. QED BY <1>1, <1>3, <1>5, TakeAwayKeeps

\* Nothing of an environment without a directory is mapped.
LEMMA NoDirectoryFits ==
    ASSUME NEW t, NEW half, t.e = NoEnv
    PROVE  EnvFits(t, half)
  <1>1. t.e.dir = 0 /\ t.e.status = "free"
    BY NoEnvFacts
  <1>2. Hidden(t)
    BY <1>1, WithoutDirectory DEF Hidden
  <1>3. QED BY <1>1, <1>2 DEF EnvFits, HalfIs

\* A creation that a panic cut short leaves the environment as it is.
Stuck(t) == [t EXCEPT !.e.status = "stuck"]

\* Being stuck changes the status only.
LEMMA StuckRelists ==
    ASSUME NEW t, NEW O, Good(t, O)
    PROVE  Relists(t, Stuck(t)) /\ Stuck(t).e.status = "stuck"
  <1>1. Typed(t) /\ t.e \in Environments /\ t.m \in Memories
    BY OwnFacts DEF Good
  <1> DEFINE x == [t.e EXCEPT !.status = "stuck"]
             u == [t EXCEPT !.e = x]
  <1>2. x \in Environments /\ x.status = "stuck" /\ x.dir = t.e.dir /\ x.disk = t.e.disk
    BY <1>1 DEF Environments, States
  <1>3. u = Stuck(t)
    BY <1>1 DEF Typed, Stuck
  <1> HIDE DEF x
  <1>4. Typed(u) /\ u.m = t.m /\ u.e = x
    BY <1>1, <1>2, WithEnvFacts
  <1> HIDE DEF u
  <1>5. Relists(t, u) /\ u.e.status = "stuck"
    BY <1>2, <1>4 DEF Relists
  <1>6. QED BY <1>3, <1>5

\* A creation that stops half-way stays in order.
LEMMA StuckActs ==
    ASSUME NEW mem, NEW t, NEW O, NEW k,
           Good(t, O), Spares(t.m, mem, O), HalfIs(t, t.m.word[k]), t.e.dir # 0
    PROVE  Acted(mem, Stuck(t), O, k)
  <1> DEFINE u == Stuck(t)
  <1>1. Relists(t, u) /\ u.e.status = "stuck"
    BY StuckRelists
  <1> HIDE DEF u
  <1>2. Step(t, u, O, {}) /\ u.m = t.m /\ u.e.dir = t.e.dir
    BY <1>1, Relisted DEF Relists
  <1>3. HalfIs(u, u.m.word[k])
    BY <1>2 DEF HalfIs
  <1>4. EnvFits(u, u.m.word[k])
    BY <1>1, <1>2, <1>3 DEF EnvFits
  <1>5. QED BY <1>2, <1>4 DEF Acted, Step, u

\* env_create, done or cut short, as a step of the system.
LEMMA CreateActs ==
    ASSUME NEW mem, NEW envs, NEW s, NEW t, NEW O, NEW e,
           Found(mem, envs, s, O, kdir, e), envs[e].status = "free", t = env_create(s)
    PROVE  Acted(mem, IF t.m.panic /\ t.e.dir # 0 THEN Stuck(t) ELSE t, O, kdir)
  <1>1. s.e = NoEnv /\ Good(s, O) /\ O \subseteq Frames /\ kdir \in O /\ ~s.m.panic
    BY DEF Found, EnvFits
  <1>2. EnvMade(s, t, O) /\ (~t.m.panic => t.e.dir # 0 /\ Hidden(t) /\ ListsFit(t))
    BY <1>1, EnvCreated
  <1>3. Good(t, O) /\ Spares(t.m, mem, O) /\ HalfIs(t, t.m.word[kdir])
    BY <1>2 DEF EnvMade, Found, Spares
  <1>4. CASE t.e.dir = 0
    <2>1. t.e = NoEnv
      BY <1>2, <1>4 DEF EnvMade
    <2>2. QED BY <1>3, <1>4, <2>1, NoDirectoryFits DEF Acted
  <1>5. CASE t.e.dir # 0 /\ t.m.panic
    BY <1>3, <1>5, StuckActs
  <1>6. CASE t.e.dir # 0 /\ ~t.m.panic
    <2>1. EnvFits(t, t.m.word[kdir])
      BY <1>2, <1>3, <1>6 DEF EnvFits, EnvMade
    <2>2. QED BY <1>3, <1>6, <2>1 DEF Acted
  <1>7. QED BY <1>4, <1>5, <1>6

\* The creation of an environment.
LEMMA CreateKeeps ==
    ASSUME RunInv, NEW e \in Envs, Create(e)
    PROVE  RunInv'
  <1> DEFINE t == env_create(On(e))
             u == IF t.m.panic /\ t.e.dir # 0 THEN Stuck(t) ELSE t
  <1>1. Stays /\ cr3 # e /\ env[e].status = "free" /\ Finish(e, u, UserPages)
    BY OperationStays DEF Create, Stuck
  <1>2. Found(m, env, On(e), Rest(e), kdir, e)
    BY OnFound
  <1> HIDE DEF t
  <1>3. t = env_create(On(e))
    BY DEF t
  <1>4. Acted(m, u, Rest(e), kdir)
    BY <1>1, <1>2, <1>3, CreateActs
  <1> HIDE DEF u
  <1>5. tlb' = {}
    BY <1>1, AllInvalidated
  <1>6. QED BY <1>1, <1>4, <1>5, FinishOther DEF Stays

\* The end of an environment.
LEMMA FreeKeeps ==
    ASSUME RunInv, NEW e \in Envs, Free(e)
    PROVE  RunInv'
  <1> DEFINE s == On(e)
             t == env_free(s)
             O == Rest(e)
  <1>1. Stays /\ cr3 # e /\ env[e].status # "free" /\ Finish(e, t, UserPages)
    BY OperationStays DEF Free
  <1>2. Found(m, env, s, O, kdir, e)
    BY OnFound
  <1>3. Good(s, O) /\ O \subseteq Frames /\ s.e.dir # 0
    BY <1>1, <1>2 DEF Found, EnvFits
  <1> HIDE DEF t, s, O
  <1>4. t = env_free(s)
    BY DEF t
  <1>5. Good(t, O) /\ Spares(t.m, s.m, O) /\ t.e = NoEnv
    BY <1>3, <1>4, EnvFreed
  <1>6. Acted(m, t, O, kdir)
    BY <1>2, <1>5, NoDirectoryFits DEF Acted, Found, Spares
  <1>7. tlb' = {}
    BY <1>1, AllInvalidated
  <1>8. QED BY <1>1, <1>6, <1>7, FinishOther DEF Stays, O

\* The prompt's allocuserpage, of an environment in any status.
LEMMA AllocUserPageKeeps ==
    ASSUME RunInv, NEW e \in Envs, NEW v \in UserPages, command_allocuserpage(e, v)
    PROVE  RunInv'
  <1> DEFINE s == On(e)
             t == WithMem(s, MapNew(s.m, s.e.dir, v, map_frame))
             O == Rest(e)
  <1>1. Stays /\ cr3 = "kernel" /\ cr3 # e /\ env[e].status # "free" /\ v \in VPages
    BY OperationStays, Layout, MachineFits DEF command_allocuserpage
  <1>2. Finish(e, t, {v})
    BY DEF command_allocuserpage
  <1>3. Found(m, env, s, O, kdir, e)
    BY OnFound
  <1>4. Good(s, O) /\ O \subseteq Frames /\ s.e.dir # 0 /\ ~s.m.panic
    BY <1>1, <1>3 DEF Found, EnvFits
  <1>5. MapsNew(s, t, v)
    BY DEF MapsNew
  <1> HIDE DEF t, s, O
  <1>6. OnlyMaps(s, t, O, {v})
    BY <1>1, <1>4, <1>5, NewMapping, NewMappingMaps
  <1>7. Acted(m, t, O, kdir)
    BY <1>3, <1>4, <1>6, MapsAct
  <1>8. tlb' = {}
    <2>1. tlb = {}
      BY <1>1, KernelTranslatesNone
    <2>2. QED BY <1>2, <2>1 DEF Finish
  <1>9. QED BY <1>1, <1>2, <1>7, <1>8, FinishOther DEF Stays, O

\* The dispatch of an environment.
LEMMA EnvRunKeeps ==
    ASSUME RunInv, NEW e \in Envs, env_run(e)
    PROVE  RunInv'
  <1>1. Stays /\ env[e].status = "alive" /\ cr3' = e /\ tlb' = {} /\ m' = m /\ env' = env
    BY OperationStays DEF env_run
  <1>2. Kernels' = Kernels
    BY <1>1, KernelsStay DEF Stays
  <1>3. System(m', env', Kernels', kdir')
    BY <1>1, <1>2 DEF RunInv, Kernels, Stays
  <1>4. QED BY <1>1, <1>3 DEF RunInv, TLBCoherent, Kernels

\* The return to the prompt.
LEMMA PromptKeeps ==
    ASSUME RunInv, Prompt
    PROVE  RunInv'
  <1>1. Stays /\ cr3' = "kernel" /\ tlb' = {} /\ m' = m /\ env' = env /\ "kernel" \notin Envs
    BY OperationStays, MachineFits DEF Prompt
  <1>2. Kernels' = Kernels
    BY <1>1, KernelsStay DEF Stays
  <1>3. System(m', env', Kernels', kdir')
    BY <1>1, <1>2 DEF RunInv, Kernels, Stays
  <1>4. QED BY <1>1, <1>3 DEF RunInv, TLBCoherent, Kernels

\* The processor, or a step that changes nothing but the number of operations.
LEMMA SameKeeps ==
    ASSUME RunInv, UNCHANGED <<free_mem, m, kdir, env, cr3>>,
           \/ tlb' = tlb
           \/ \E v \in UserPages : /\ cr3 \in Envs /\ PresentAt(cr3, v)
                                   /\ tlb' = {<<v, PTE(m, env[cr3].dir, v).pa>>}
    PROVE  RunInv'
  <1>1. Kernels' = Kernels
    BY KernelsStay
  <1>2. System(m', env', Kernels', kdir')
    BY <1>1 DEF RunInv, Kernels
  <1>3. TLBCoherent' /\ \A x \in tlb' : x[1] \in UserPages
    BY DEF RunInv, TLBCoherent, PresentAt
  <1>4. QED BY <1>2, <1>3 DEF RunInv, Kernels

\* Every step of the running system.
LEMMA RunKeeps ==
    ASSUME pc = "run", RunInv, Next \/ UNCHANGED vars
    PROVE  pc' = "run" /\ RunInv'
  <1>1. ASSUME NEW e \in Envs, Create(e) \/ Free(e) \/ env_run(e) PROVE pc' = "run" /\ RunInv'
    <2>1. pc' = "run"
      BY <1>1, OperationStays DEF Create, Free, env_run
    <2>2. QED BY <1>1, <2>1, CreateKeeps, FreeKeeps, EnvRunKeeps
  <1>2. ASSUME NEW e \in Envs, NEW v \in UserPages, command_allocuserpage(e, v) PROVE pc' = "run" /\ RunInv'
    BY <1>2, OperationStays, AllocUserPageKeeps DEF command_allocuserpage
  <1>3. ASSUME NEW v \in UserPages, Access(v) PROVE pc' = "run" /\ RunInv'
    BY <1>3, SameKeeps DEF Access
  <1>4. ASSUME NEW v \in UserPages, PageFault(v) \/ sys_freeMem(v) PROVE pc' = "run" /\ RunInv'
    <2>1. pc' = "run"
      BY <1>4, OperationStays DEF PageFault, sys_freeMem
    <2>2. QED BY <1>4, <2>1, PageFaultKeeps, FreeMemKeeps
  <1>5. ASSUME NEW v \in UserPages, NEW valid \in BOOLEAN, __sys_allocate_page(v, valid)
        PROVE  pc' = "run" /\ RunInv'
    BY <1>5, OperationStays, AllocatePageKeeps DEF __sys_allocate_page
  <1>6. ASSUME NEW v \in OtherPages, NEW n \in 1 .. 2, v + n - 1 \in OtherPages, sys_allocateMem(v, n)
        PROVE  pc' = "run" /\ RunInv'
    BY <1>6, OperationStays, AllocateMemKeeps DEF sys_allocateMem
  <1>7. ASSUME Prompt \/ sys_clearFFL PROVE pc' = "run" /\ RunInv'
    <2>1. pc' = "run"
      BY <1>7, OperationStays DEF Prompt, sys_clearFFL
    <2>2. QED BY <1>7, <2>1, PromptKeeps, ClearFFLKeeps
  <1>8. ASSUME NEW total \in {NFrames \div 2, NFrames - 1}, sys_scarce_memory(total)
        PROVE  pc' = "run" /\ RunInv'
    BY <1>8, OperationStays, ScarceMemoryKeeps DEF sys_scarce_memory
  <1>9. ASSUME UNCHANGED vars PROVE pc' = "run" /\ RunInv'
    BY <1>9, SameKeeps DEF vars
  <1>10. ~Boot
    BY DEF Boot, BootDirectory, BootStack, BootTables, BootArrays, BootEnvs, BootRemap, BootPagingOn,
           BootPagingLow, initialize_paging
  <1>11. CASE Run
    BY <1>1, <1>2, <1>3, <1>4, <1>5, <1>6, <1>7, <1>8, <1>11 DEF Run
  <1>12. QED BY <1>9, <1>10, <1>11 DEF Next

-----------------------------------------------------------------------------
(* The boot. *)

BootMaps == INSTANCE ListLemmas WITH Body <- MapAtBoot
BootPageTables == INSTANCE ListLemmas WITH Body <- boot_get_page_table
Aliases == INSTANCE ListLemmas WITH Body <- Alias
Unaliases == INSTANCE ListLemmas WITH Body <- Unalias
Inserts == INSTANCE ListLemmas WITH Body <- InsertFrame

\* The loops of the boot are the folds of ListLemmas.
LEMMA BootLoops ==
    /\ \A s, q : BootMaps!FoldLeft(MapAtBoot, s, q) = FoldLeft(MapAtBoot, s, q)
    /\ \A s, q : BootPageTables!FoldLeft(boot_get_page_table, s, q) = FoldLeft(boot_get_page_table, s, q)
    /\ \A s, q : Aliases!FoldLeft(Alias, s, q) = FoldLeft(Alias, s, q)
    /\ \A s, q : Unaliases!FoldLeft(Unalias, s, q) = FoldLeft(Unalias, s, q)
    /\ \A s, q : Inserts!FoldLeft(InsertFrame, s, q) = FoldLeft(InsertFrame, s, q)
  <1>1. \A s, q : BootMaps!FoldLeft(MapAtBoot, s, q) = FoldLeft(MapAtBoot, s, q)
    BY DEF BootMaps!FoldLeft, FoldLeft, MapThenFoldSet, BootMaps!MapThenFoldSet, BootMaps!Max, Max
  <1>2. \A s, q : BootPageTables!FoldLeft(boot_get_page_table, s, q) = FoldLeft(boot_get_page_table, s, q)
    BY DEF BootPageTables!FoldLeft, FoldLeft, MapThenFoldSet, BootPageTables!MapThenFoldSet, BootPageTables!Max, Max
  <1>3. \A s, q : Aliases!FoldLeft(Alias, s, q) = FoldLeft(Alias, s, q)
    BY DEF Aliases!FoldLeft, FoldLeft, MapThenFoldSet, Aliases!MapThenFoldSet, Aliases!Max, Max
  <1>4. \A s, q : Unaliases!FoldLeft(Unalias, s, q) = FoldLeft(Unalias, s, q)
    BY DEF Unaliases!FoldLeft, FoldLeft, MapThenFoldSet, Unaliases!MapThenFoldSet, Unaliases!Max, Max
  <1>5. \A s, q : Inserts!FoldLeft(InsertFrame, s, q) = FoldLeft(InsertFrame, s, q)
    BY DEF Inserts!FoldLeft, FoldLeft, MapThenFoldSet, Inserts!MapThenFoldSet, Inserts!Max, Max
  <1>6. QED BY <1>1, <1>2, <1>3, <1>4, <1>5

\* The boot allocator's arithmetic.
LEMMA BootStartFacts ==
    ASSUME NEW h \in Nat
    PROVE  /\ RoundUp(h) \in Nat /\ RoundUp(h) >= h /\ BootStart(h) \in Nat
           /\ RoundUp(h) = 2 * BootStart(h)
           /\ \A k \in Nat : k >= RoundUp(h) + 2 => BootStart(k) >= BootStart(h) + 1
           /\ BootNext(h, 2) = RoundUp(h) + 2
  <1>1. \A k \in Nat : RoundUp(k) \in Nat /\ RoundUp(k) >= k /\ RoundUp(k) % 2 = 0
    BY DEF RoundUp
  <1>2. \A k \in Nat : BootStart(k) \in Nat /\ RoundUp(k) = 2 * BootStart(k)
    BY <1>1 DEF BootStart
  <1>3. QED BY <1>1, <1>2 DEF BootNext

\* What a loop of the boot works on: the memory, ptr_free_mem from n on and the directory d.
Booting(d, n) == [m : Memories, fm : {h \in Nat : h >= n}, dir : {d}]

WithBoth(b, x, h) == [b EXCEPT !.m = x, !.fm = h]
WithMemory(b, x) == [b EXCEPT !.m = x]

\* The three parts of what a loop of the boot works on.
LEMMA BootingFacts ==
    ASSUME NEW d, NEW n, NEW b \in Booting(d, n)
    PROVE  /\ b.m \in Memories /\ b.fm \in Nat /\ b.fm >= n /\ b.dir = d
           /\ \A x \in Memories : WithMemory(b, x) \in Booting(d, n)
           /\ \A x \in Memories, h \in Nat : h >= n => WithBoth(b, x, h) \in Booting(d, n)
  BY DEF Booting, WithBoth, WithMemory

\* boot_get_page_table.
LEMMA TableAtBoot ==
    ASSUME NEW d, NEW n \in Nat, NEW b \in Booting(d, n), NEW v
    PROVE  boot_get_page_table(b, v) \in Booting(d, n)
  <1> DEFINE x == Put(b.m, b.dir, PDX(v), Present(BootStart(b.fm)))
             h == BootNext(b.fm, 2)
  <1>1. b.m \in Memories /\ b.fm \in Nat /\ b.fm >= n
    BY BootingFacts
  <1>2. h \in Nat /\ h >= n /\ BootStart(b.fm) \in Nat
    BY <1>1, BootStartFacts
  <1>3. Present(BootStart(b.fm)) \in Words
    BY <1>2 DEF Present, Words
  <1>4. x \in Memories
    BY <1>1, <1>3, PutFacts
  <1>5. boot_get_page_table(b, v) = IF b.m.word[b.dir][PDX(v)].pa # 0 THEN b ELSE WithBoth(b, x, h)
    BY DEF boot_get_page_table, WithBoth, Booting
  <1> HIDE DEF x, h
  <1>6. QED BY <1>2, <1>4, <1>5, BootingFacts

\* One page of boot_map_range.
LEMMA MappedAtBoot ==
    ASSUME NEW d, NEW n \in Nat, NEW b \in Booting(d, n), NEW x, x.pa \in Nat
    PROVE  MapAtBoot(b, x) \in Booting(d, n)
  <1> DEFINE t == boot_get_page_table(b, x.v)
             y == Put(t.m, t.m.word[t.dir][PDX(x.v)].pa, PTX(x.v), Present(x.pa))
  <1>1. t \in Booting(d, n)
    BY TableAtBoot
  <1>2. Present(x.pa) \in Words
    BY DEF Present, Words
  <1>3. MapAtBoot(b, x) = WithMemory(t, y)
    BY DEF MapAtBoot, WithMemory
  <1> HIDE DEF t
  <1>4. t.m \in Memories
    BY <1>1, BootingFacts
  <1>5. y \in Memories
    BY <1>2, <1>4, PutFacts
  <1> HIDE DEF y
  <1>6. QED BY <1>1, <1>3, <1>5, BootingFacts

\* boot_map_range.
LEMMA RangeMapped ==
    ASSUME NEW d, NEW n \in Nat, NEW b \in Booting(d, n), NEW v \in Nat, NEW k \in Nat, NEW pa \in Nat
    PROVE  boot_map_range(b, v, k, pa) \in Booting(d, n)
  <1> DEFINE q == [i \in 1 .. k |-> [v |-> v + i - 1, pa |-> pa + i - 1]]
  <1>1. DOMAIN q = 1 .. k /\ \A i \in 1 .. k : q[i].pa \in Nat
    OBVIOUS
  <1>2. boot_map_range(b, v, k, pa) = FoldLeft(MapAtBoot, b, q)
    BY DEF boot_map_range
  <1> HIDE DEF q
  <1> DEFINE J == Booting(d, n)
  <1>3. \A i \in 1 .. k : \A a \in J : MapAtBoot(a, q[i]) \in J
    BY <1>1, MappedAtBoot
  <1>4. b \in J
    OBVIOUS
  <1> HIDE DEF J
  <1>5. BootMaps!FoldLeft(MapAtBoot, b, q) \in J
    BY <1>1, <1>3, <1>4, BootMaps!FoldStays
  <1>6. QED BY <1>2, <1>5, BootLoops DEF J

\* The loop that makes the tables of the kernel's area.
LEMMA TablesAtBoot ==
    ASSUME NEW d, NEW n \in Nat, NEW b \in Booting(d, n), NEW k \in Nat, NEW q, DOMAIN q = 1 .. k
    PROVE  FoldLeft(boot_get_page_table, b, q) \in Booting(d, n)
  <1> DEFINE J == Booting(d, n)
  <1>1. \A i \in 1 .. k : \A a \in J : boot_get_page_table(a, q[i]) \in J
    BY TableAtBoot
  <1>2. b \in J
    OBVIOUS
  <1> HIDE DEF J
  <1>3. BootPageTables!FoldLeft(boot_get_page_table, b, q) \in J
    BY <1>1, <1>2, BootPageTables!FoldStays
  <1>4. QED BY <1>3, BootLoops DEF J

\* Without environments the system is in order when the free list is.
LEMMA NoEnvironments ==
    ASSUME NEW mem \in Memories, NEW envs, NEW R \in SUBSET Frames, NEW k \in R,
           envs = [e \in Envs |-> NoEnv], Distinct(mem.free),
           \A f \in ToSet(mem.free) : f \notin R /\ f # 0 /\ mem.refs[f] = 0
    PROVE  System(mem, envs, R, k)
  <1>1. \A e \in Envs : Pair(mem, envs, e).m = mem /\ Pair(mem, envs, e).e = NoEnv
    BY PairParts
  <1>2. \A e \in Envs, l \in Kinds, i \in Index : At(Pair(mem, envs, e), l, i) = 0
    <2> TAKE e \in Envs, l \in Kinds, i \in Index
    <2> DEFINE s == Pair(mem, envs, e)
    <2>10. s.e = NoEnv
      BY <1>1
    <2> HIDE DEF s
    <2>1. s.e.dir = 0 /\ \A j \in 0 .. DiskDir : s.e.disk[j] = 0
      BY <2>10, NoEnvFacts
    <2>2. At(s, l, i) = IF l = "disk" /\ i \in 0 .. DiskDir THEN s.e.disk[i] ELSE 0
      BY <2>1, WithoutDirectory
    <2>3. At(s, l, i) = 0
      BY <2>1, <2>2
    <2>4. QED BY <2>3 DEF s
  <1>3. \A e \in Envs : UsedBy(mem, envs, e) = {}
    BY <1>2 DEF UsedBy
  <1>4. \A e \in Envs : Others(mem, envs, R, e) = R
    BY <1>3 DEF Others
  <1>5. ASSUME NEW e \in Envs PROVE Good(Pair(mem, envs, e), R) /\ EnvFits(Pair(mem, envs, e), mem.word[k])
    <2> DEFINE s == Pair(mem, envs, e)
    <2>1. s.m = mem /\ s.e = NoEnv /\ s = [m |-> mem, e |-> NoEnv]
      BY <1>1 DEF Pair
    <2>2. Typed(s)
      BY <2>1, NoEnvFacts DEF Typed
    <2>3. EntriesName(s)
      BY <2>1, WithoutDirectory, NoEnvFacts
    <2>4. FreeApart(s, R)
      BY <2>1 DEF FreeApart
    <2>5. OwnApart(s, R)
      BY <1>2 DEF OwnApart
    <2>6. EnvFits(s, mem.word[k])
      BY <2>1, NoDirectoryFits
    <2>7. QED BY <2>2, <2>3, <2>4, <2>5, <2>6 DEF Good
  <1>6. QED BY <1>4, <1>5 DEF System

BootSteps == {"directory", "stack", "tables", "arrays", "envs", "remap", "paging_on", "paging_off_low", "frames"}

BootInv ==
    /\ pc \in BootSteps /\ m \in Memories
    /\ env = [e \in Envs |-> NoEnv] /\ cr3 = "kernel" /\ tlb = {}
    /\ IF pc = "directory" THEN free_mem = KernelEnd
       ELSE /\ kdir = BootStart(KernelEnd)
            /\ free_mem \in Nat /\ free_mem >= RoundUp(KernelEnd) + 2

\* The memory that a loop of the boot leaves.
LEMMA BootLoopKeeps ==
    ASSUME NEW b, BootInv, pc # "directory", pc' \in BootSteps \ {"directory"},
           b \in Booting(kdir, free_mem), SetB(b), kdir' = kdir, UnchangedAtBoot
    PROVE  BootInv'
  <1>1. b.m \in Memories /\ b.fm \in Nat /\ b.fm >= free_mem
    BY BootingFacts
  <1>2. KernelEnd \in Nat
    BY LayoutFits
  <1>3. RoundUp(KernelEnd) + 2 \in Nat /\ free_mem \in Nat /\ free_mem >= RoundUp(KernelEnd) + 2
    BY <1>2, BootStartFacts DEF BootInv
  <1>4. b.fm >= RoundUp(KernelEnd) + 2
    BY <1>1, <1>3
  <1>5. QED BY <1>1, <1>4 DEF BootInv, SetB, UnchangedAtBoot, BootSteps

\* What a step of the boot starts from.
LEMMA BIsBooting ==
    ASSUME BootInv, pc # "directory"
    PROVE  B \in Booting(kdir, free_mem) /\ free_mem \in Nat
  BY DEF BootInv, B, Booting

\* The layout's addresses and sizes are natural numbers.
LEMMA LayoutNumbers ==
    /\ {KernelEnd, ExtStart, KERNEL_BASE, UENVS, KERNEL_STACK_SIZE, KERNEL_STACK_TOP - KERNEL_STACK_SIZE} \subseteq Nat
    /\ Cardinality(KernelPages) \in Nat /\ W - PDX(KERNEL_BASE) \in Nat /\ PDX(KERNEL_BASE) = 6
    /\ EnvsHalves \in Nat /\ (EnvsHalves + 1) \div 2 \in Nat /\ ArrayHalves \in Nat
  <1>1. W \in Nat /\ W > 6 /\ {KernelEnd, ExtStart} \subseteq Nat /\ {EnvsHalves, ArrayHalves} \subseteq Nat
    BY Layout, LayoutFits, MachineFits
  <1>2. {KERNEL_BASE, UENVS, KERNEL_STACK_SIZE, KERNEL_STACK_TOP - KERNEL_STACK_SIZE} \subseteq Nat
    BY <1>1 DEF KERNEL_BASE, UENVS, KERNEL_STACK_SIZE, KERNEL_STACK_TOP, VPT
  <1>3. PDX(KERNEL_BASE) = 6
    BY <1>1 DEF PDX, KERNEL_BASE
  <1>4. Cardinality(KernelPages) \in Nat
    <2>1. KERNEL_BASE \in Int /\ W * W - 1 \in Int
      BY <1>1 DEF KERNEL_BASE
    <2>2. IsFiniteSet(KernelPages)
      BY <2>1, FS_Interval DEF KernelPages
    <2>3. QED BY <2>2, FS_CardinalityType
  <1>5. QED BY <1>1, <1>2, <1>3, <1>4

\* The steps of the boot that map a range or make tables.
LEMMA BootRangesKeep ==
    ASSUME BootInv, BootStack \/ BootTables \/ BootEnvs \/ BootRemap
    PROVE  BootInv'
  <1>1. pc # "directory" /\ pc' \in BootSteps \ {"directory"} /\ kdir' = kdir /\ UnchangedAtBoot
    BY DEF BootStack, BootTables, BootEnvs, BootRemap, BootSteps
  <1>2. B \in Booting(kdir, free_mem) /\ free_mem \in Nat
    BY <1>1, BIsBooting
  <1>3. CASE BootStack
    <2> DEFINE b == boot_map_range(B, KERNEL_STACK_TOP - KERNEL_STACK_SIZE, KERNEL_STACK_SIZE, ExtStart)
    <2>1. SetB(b)
      BY <1>3 DEF BootStack
    <2>2. b \in Booting(kdir, free_mem)
      BY <1>2, LayoutNumbers, RangeMapped
    <2> HIDE DEF b
    <2>3. QED BY <1>1, <2>1, <2>2, BootLoopKeeps
  <1>4. CASE BootTables
    <2> DEFINE q == [i \in 1 .. W - PDX(KERNEL_BASE) |-> KERNEL_BASE + (i - 1) * W]
               b == FoldLeft(boot_get_page_table, B, q)
    <2>1. SetB(b)
      BY <1>4 DEF BootTables
    <2>2. DOMAIN q = 1 .. W - PDX(KERNEL_BASE)
      OBVIOUS
    <2> HIDE DEF q
    <2>3. b \in Booting(kdir, free_mem)
      BY <1>2, <2>2, LayoutNumbers, TablesAtBoot
    <2> HIDE DEF b
    <2>4. QED BY <1>1, <2>1, <2>3, BootLoopKeeps
  <1>5. CASE BootRemap
    <2> DEFINE b == boot_map_range(B, KERNEL_BASE, Cardinality(KernelPages), 0)
    <2>1. SetB(b)
      BY <1>5 DEF BootRemap
    <2>2. b \in Booting(kdir, free_mem)
      BY <1>2, LayoutNumbers, RangeMapped
    <2> HIDE DEF b
    <2>3. QED BY <1>1, <2>1, <2>2, BootLoopKeeps
  <1>6. CASE BootEnvs
    <2> DEFINE a == [B EXCEPT !.fm = BootNext(@, EnvsHalves)]
               b == boot_map_range(a, UENVS, (EnvsHalves + 1) \div 2, BootStart(free_mem))
    <2>1. SetB(b)
      BY <1>6 DEF BootEnvs
    <2>2. BootNext(free_mem, EnvsHalves) \in Nat /\ BootNext(free_mem, EnvsHalves) >= free_mem
            /\ BootStart(free_mem) \in Nat
      BY <1>2, BootStartFacts, LayoutNumbers DEF BootNext
    <2>3. a = [m |-> m, fm |-> BootNext(free_mem, EnvsHalves), dir |-> kdir]
      BY DEF B
    <2>4. a \in Booting(kdir, free_mem)
      BY <2>2, <2>3 DEF Booting, BootInv
    <2> HIDE DEF a
    <2>5. b \in Booting(kdir, free_mem)
      BY <1>2, <2>2, <2>4, LayoutNumbers, RangeMapped
    <2> HIDE DEF b
    <2>6. QED BY <1>1, <2>1, <2>5, BootLoopKeeps
  <1>7. QED BY <1>3, <1>4, <1>5, <1>6

\* The kernel's directory takes the first frame after its image.
LEMMA BootDirectoryKeeps ==
    ASSUME BootInv, BootDirectory
    PROVE  BootInv'
  <1>1. free_mem = KernelEnd /\ m \in Memories /\ KernelEnd \in Nat
    BY LayoutNumbers DEF BootInv, BootDirectory
  <1>2. m' \in Memories
    BY <1>1, ClearFacts DEF BootDirectory
  <1>3. kdir' = BootStart(KernelEnd) /\ free_mem' = RoundUp(KernelEnd) + 2 /\ RoundUp(KernelEnd) \in Nat
    BY <1>1, BootStartFacts DEF BootDirectory
  <1>4. pc' = "stack" /\ UNCHANGED <<env, cr3, tlb>>
    BY DEF BootDirectory, UnchangedAtBoot
  <1>5. free_mem' \in Nat /\ free_mem' >= RoundUp(KernelEnd) + 2
    BY <1>3
  <1>6. QED BY <1>2, <1>3, <1>4, <1>5 DEF BootInv, BootSteps

\* The arrays are allocated and the directory entered into itself.
LEMMA BootArraysKeeps ==
    ASSUME BootInv, BootArrays
    PROVE  BootInv'
  <1>1. pc # "directory" /\ m \in Memories /\ kdir = BootStart(KernelEnd) /\ free_mem \in Nat
          /\ free_mem >= RoundUp(KernelEnd) + 2 /\ KernelEnd \in Nat
    BY LayoutNumbers DEF BootInv, BootArrays
  <1>2. kdir \in Nat /\ RoundUp(KernelEnd) \in Nat
    BY <1>1, BootStartFacts
  <1>3. Present(kdir) \in Words
    BY <1>2 DEF Present, Words
  <1>4. m' \in Memories
    <2> DEFINE x == Put(m, kdir, PDX(VPT), Present(kdir))
    <2>1. x \in Memories
      BY <1>1, <1>3, PutFacts
    <2>2. m' = Put(x, kdir, PDX(UVPT), Present(kdir))
      BY DEF BootArrays
    <2> HIDE DEF x
    <2>3. QED BY <1>3, <2>1, <2>2, PutFacts
  <1>5. free_mem' \in Nat /\ free_mem' >= free_mem
    <2> DEFINE h == BootNext(free_mem, ArrayHalves)
    <2>1. h \in Nat /\ h >= free_mem
      BY <1>1, BootStartFacts, LayoutNumbers DEF BootNext
    <2>2. free_mem' = BootNext(h, ArrayHalves)
      BY DEF BootArrays
    <2> HIDE DEF h
    <2>3. free_mem' \in Nat /\ free_mem' >= h
      BY <2>1, <2>2, BootStartFacts, LayoutNumbers DEF BootNext
    <2>4. QED BY <1>1, <2>1, <2>3
  <1>6. pc' = "envs" /\ kdir' = kdir /\ UNCHANGED <<env, cr3, tlb>>
    BY DEF BootArrays, UnchangedAtBoot
  <1>7. free_mem' >= RoundUp(KernelEnd) + 2
    BY <1>1, <1>2, <1>5
  <1>8. QED BY <1>1, <1>4, <1>5, <1>6, <1>7 DEF BootInv, BootSteps

\* The kernel's directory is a frame, and a reserved one.
LEMMA KernelDirectory ==
    ASSUME BootInv, pc # "directory"
    PROVE  /\ kdir \in Frames /\ kdir >= ExtStart /\ kdir \in Reserved /\ m \in Memories
           /\ free_mem \in Nat /\ BootStart(free_mem) \in Nat
  <1>1. /\ KernelEnd \in Nat /\ NFrames \in Nat /\ ExtStart \in Nat /\ BaseEnd \in Nat
        /\ 2 * (ExtStart + 2) <= KernelEnd /\ BaseEnd < ExtStart
    BY LayoutFits DEF KERNEL_STACK_SIZE
  <1>2. /\ kdir = BootStart(KernelEnd) /\ free_mem \in Nat /\ free_mem >= RoundUp(KernelEnd) + 2 /\ m \in Memories
    BY DEF BootInv
  <1>3. /\ RoundUp(KernelEnd) \in Nat /\ RoundUp(KernelEnd) >= KernelEnd /\ kdir \in Nat
        /\ RoundUp(KernelEnd) = 2 * kdir
        /\ BootStart(free_mem) >= kdir + 1 /\ BootStart(free_mem) \in Nat
    BY <1>1, <1>2, BootStartFacts
  <1>4. kdir < NFrames
    BY <1>1, <1>3, MachineFits
  <1>5. kdir >= ExtStart
    BY <1>1, <1>3
  <1>6. kdir \in Frames
    BY <1>1, <1>3, <1>4 DEF Frames
  <1>7. kdir \in ExtStart .. BootStart(free_mem) - 1
    BY <1>1, <1>3, <1>5
  <1>8. QED BY <1>2, <1>3, <1>5, <1>6, <1>7 DEF Reserved

\* The aliased directories lie within the directory.
LEMMA LowAliasesFit ==
    ASSUME free_mem \in Nat
    PROVE  \E n \in Nat : /\ DOMAIN LowAliases = 1 .. n
                          /\ \A i \in 1 .. n : /\ LowAliases[i] \in Nat
                                               /\ PDX(KERNEL_BASE) + LowAliases[i] \in 0 .. W - 1
  <1> DEFINE x == (KERNEL_BASE + free_mem \div 2) % (W * W)
             k == PDX(x) - PDX(KERNEL_BASE)
  <1>1. W \in Nat /\ W > 6 /\ KERNEL_BASE \in Nat /\ PDX(KERNEL_BASE) = 6
    BY Layout, LayoutNumbers
  <1>2. x \in Nat /\ x < W * W
    <2>1. W * W \in Nat /\ W * W > 0
      BY <1>1
    <2>2. KERNEL_BASE + free_mem \div 2 \in Nat
      BY <1>1
    <2> DEFINE a == KERNEL_BASE + free_mem \div 2
               b == W * W
    <2>3. a \in Nat /\ b \in Nat /\ b > 0
      BY <2>1, <2>2
    <2> HIDE DEF a, b
    <2>4. a % b \in Nat /\ a % b < b
      BY <2>3
    <2>5. QED BY <2>4 DEF a, b
  <1> HIDE DEF x
  <1>3. PDX(x) \in Nat /\ PDX(x) < W
    <2> DEFINE y == x \div W
    <2>1. y \in Nat /\ y * W <= x
      BY <1>1, <1>2
    <2> HIDE DEF y
    <2>2. y < W
      <3> SUFFICES ASSUME y >= W PROVE FALSE
        BY <1>1, <2>1
      <3>1. y * W >= W * W
        BY <1>1, <2>1
      <3>2. y * W \in Int /\ W * W \in Int
        BY <1>1, <2>1
      <3>3. QED BY <1>2, <2>1, <3>1, <3>2
    <2>3. QED BY <2>1, <2>2 DEF y, PDX
  <1>4. k \in Int /\ k <= W - 7
    BY <1>1, <1>3
  <1>5. LowAliases = [i \in 1 .. k |-> i - 1]
    BY DEF LowAliases, x
  <1> HIDE DEF k
  <1>6. CASE k >= 0
    BY <1>1, <1>4, <1>5, <1>6
  <1>7. CASE k < 0
    <2>1. 1 .. k = 1 .. 0
      BY <1>4, <1>7
    <2>2. DOMAIN LowAliases = 1 .. 0
      BY <1>5, <2>1
    <2>3. QED BY <2>2
  <1>8. QED BY <1>4, <1>6, <1>7

\* One directory entry aliased, or cleared again.
LEMMA AliasTyped ==
    ASSUME kdir \in Frames, NEW mem \in Memories, NEW j \in Nat, PDX(KERNEL_BASE) + j \in 0 .. W - 1
    PROVE  Alias(mem, j) \in Memories /\ Unalias(mem, j) \in Memories
  <1>1. mem.word[kdir][PDX(KERNEL_BASE) + j] \in Words
    BY DEF Memories, Rows
  <1>2. Zero \in Words
    BY DEF Zero, Words
  <1>3. QED BY <1>1, <1>2, PutFacts DEF Alias, Unalias

\* turn_on_paging.
LEMMA BootPagingKeeps ==
    ASSUME BootInv, BootPagingOn \/ BootPagingLow
    PROVE  BootInv'
  <1>1. /\ pc # "directory" /\ pc' \in BootSteps \ {"directory"}
        /\ UNCHANGED <<free_mem, kdir, env, cr3, tlb>>
    BY DEF BootPagingOn, BootPagingLow, BootSteps, UnchangedAtBoot
  <1>2. kdir \in Frames /\ m \in Memories /\ free_mem \in Nat
    BY <1>1, KernelDirectory
  <1>3. PICK n \in Nat : /\ DOMAIN LowAliases = 1 .. n
                         /\ \A i \in 1 .. n : /\ LowAliases[i] \in Nat
                                              /\ PDX(KERNEL_BASE) + LowAliases[i] \in 0 .. W - 1
    BY <1>2, LowAliasesFit
  <1> DEFINE J == Memories
             q == LowAliases
  <1>4. /\ \A i \in 1 .. n : \A a \in J : Alias(a, q[i]) \in J
        /\ \A i \in 1 .. n : \A a \in J : Unalias(a, q[i]) \in J
    BY <1>2, <1>3, AliasTyped
  <1>41. m \in J /\ DOMAIN q = 1 .. n
    BY <1>2, <1>3
  <1> HIDE DEF J, q
  <1>5. FoldLeft(Alias, m, q) \in J
    <2>1. Aliases!FoldLeft(Alias, m, q) \in J
      BY <1>3, <1>4, <1>41, Aliases!FoldStays
    <2>2. QED BY <2>1, BootLoops
  <1>6. FoldLeft(Unalias, m, q) \in J
    <2>1. Unaliases!FoldLeft(Unalias, m, q) \in J
      BY <1>3, <1>4, <1>41, Unaliases!FoldStays
    <2>2. QED BY <2>1, BootLoops
  <1>7. m' \in Memories
    BY <1>5, <1>6 DEF BootPagingOn, BootPagingLow, J, q
  <1>8. QED BY <1>1, <1>7 DEF BootInv

\* initialize_paging puts each frame that is not reserved on the list, once.
LEMMA FreeListMade ==
    LET q == FoldLeft(InsertFrame, << >>, [i \in 1 .. NFrames |-> i - 1]) IN
    q \in Seq(Frames) /\ Distinct(q) /\ ToSet(q) = Frames \ Reserved
  <1> DEFINE L(i) == {q \in Seq(Frames) : Distinct(q) /\ ToSet(q) = (0 .. i - 1) \ Reserved}
             J == [i \in 0 .. NFrames |-> L(i)]
             r == [i \in 1 .. NFrames |-> i - 1]
  <1>1. NFrames \in Nat /\ DOMAIN r = 1 .. NFrames
    BY Layout
  <1>2. << >> \in J[0]
    <2>1. 0 .. 0 - 1 = {}
      OBVIOUS
    <2>2. << >> \in L(0)
      BY <2>1, EmptyElements
    <2>3. QED BY <1>1, <2>2
  <1>3. ASSUME NEW i \in 1 .. NFrames, NEW a \in J[i - 1] PROVE InsertFrame(a, r[i]) \in J[i]
    <2> DEFINE f == i - 1
    <2>1. f \in Frames /\ r[i] = f /\ i - 1 \in 0 .. NFrames
      BY <1>1 DEF Frames
    <2>2. a \in L(f)
      BY <1>3, <2>1
    <2>3. a \in Seq(Frames) /\ Distinct(a) /\ ToSet(a) = (0 .. f - 1) \ Reserved
      BY <2>2
    <2>4. 0 .. i - 1 = (0 .. f - 1) \cup {f} /\ f \notin 0 .. f - 1
      BY <1>1
    <2>5. InsertFrame(a, f) \in L(i)
      <3>1. CASE f \in Reserved
        BY <2>3, <2>4, <3>1 DEF InsertFrame
      <3>2. CASE f \notin Reserved
        <4>1. InsertFrame(a, f) = Cons(f, a)
          BY <3>2 DEF InsertFrame, Cons
        <4>2. f \notin ToSet(a)
          BY <2>3, <2>4
        <4>3. Cons(f, a) \in Seq(Frames) /\ Distinct(Cons(f, a)) /\ ToSet(Cons(f, a)) = {f} \cup ToSet(a)
          BY <2>1, <2>3, <4>2, ConsShape, ConsElements
        <4>4. QED BY <2>3, <2>4, <3>2, <4>1, <4>3
      <3>3. QED BY <3>1, <3>2
    <2>6. QED BY <1>1, <2>1, <2>5
  <1> HIDE DEF J
  <1>4. Inserts!FoldLeft(InsertFrame, << >>, r) \in J[NFrames]
    BY <1>1, <1>2, <1>3, Inserts!FoldKeeps
  <1>5. FoldLeft(InsertFrame, << >>, r) \in L(NFrames)
    BY <1>1, <1>4, BootLoops DEF J
  <1>6. QED BY <1>5 DEF Frames

\* initialize_paging leads to a system in order, with no environment.
LEMMA PagingInitialised ==
    ASSUME BootInv, initialize_paging
    PROVE  pc' = "run" /\ RunInv'
  <1> DEFINE q == FoldLeft(InsertFrame, << >>, [i \in 1 .. NFrames |-> i - 1])
             refs == [f \in Frames |-> IF f \in Reserved THEN 1 ELSE 0]
  <1>1. /\ pc = "frames" /\ pc' = "run" /\ UNCHANGED <<free_mem, kdir, env, cr3, tlb>>
        /\ m' = [m EXCEPT !.refs = refs, !.free = q]
    BY DEF initialize_paging, UnchangedAtBoot
  <1>2. q \in Seq(Frames) /\ Distinct(q) /\ ToSet(q) = Frames \ Reserved
    BY FreeListMade
  <1>3. /\ kdir \in Frames /\ kdir \in Reserved /\ m \in Memories /\ 0 \in Reserved
        /\ env = [e \in Envs |-> NoEnv] /\ cr3 = "kernel" /\ tlb = {}
    BY <1>1, KernelDirectory DEF BootInv, Reserved
  <1> HIDE DEF q
  <1>31. refs \in [Frames -> Int]
    OBVIOUS
  <1> HIDE DEF refs
  <1>4. m' \in Memories /\ m'.free = q /\ m'.refs = refs
    BY <1>1, <1>2, <1>3, <1>31 DEF Memories
  <1> USE DEF refs
  <1> HIDE DEF refs
  <1>5. kdir \in Kernels /\ Kernels \in SUBSET Frames
    BY <1>3 DEF Kernels
  <1>6. \A f \in ToSet(q) : f \notin Kernels /\ f # 0 /\ refs[f] = 0
    BY <1>2, <1>3 DEF Kernels, refs
  <1>7. System(m', env, Kernels, kdir)
    BY <1>2, <1>3, <1>4, <1>5, <1>6, NoEnvironments
  <1>8. Kernels' = Kernels
    BY <1>1, KernelsStay
  <1>9. System(m', env', Kernels', kdir')
    BY <1>1, <1>7, <1>8
  <1>10. QED BY <1>1, <1>3, <1>9, MachineFits DEF RunInv, TLBCoherent, Kernels

\* The machine at power on.
LEMMA InitBoot ==
    ASSUME Init
    PROVE  BootInv
  <1>1. PICK g \in PowerOn : m = [word |-> [f \in Frames |-> [i \in 0 .. W - 1 |-> g]],
                                  refs |-> [f \in Frames |-> 0], free |-> <<>>, panic |-> FALSE]
    BY DEF Init
  <1>2. g \in Words
    BY MachineFits DEF Words
  <1>3. m \in Memories
    BY <1>1, <1>2 DEF Memories, Rows
  <1>4. QED BY <1>3 DEF Init, BootInv, BootSteps

\* Boot leads to the running system and stays in order until then.
LEMMA BootKeeps ==
    ASSUME BootInv, Next \/ UNCHANGED vars
    PROVE  IF pc' = "run" THEN RunInv' ELSE BootInv'
  <1>1. pc # "run"
    BY DEF BootInv, BootSteps
  <1>2. ~Run
    BY <1>1 DEF Run, Operation, Create, Free, env_run, command_allocuserpage, Access, PageFault, sys_freeMem,
          __sys_allocate_page, sys_allocateMem, Prompt, sys_clearFFL, sys_scarce_memory
  <1>3. CASE UNCHANGED vars
    BY <1>1, <1>3 DEF vars, BootInv
  <1>4. CASE initialize_paging
    BY <1>4, PagingInitialised
  <1>5. CASE BootDirectory \/ BootArrays \/ BootStack \/ BootTables \/ BootEnvs \/ BootRemap \/ BootPagingOn \/ BootPagingLow
    <2>1. BootInv'
      BY <1>5, BootDirectoryKeeps, BootArraysKeeps, BootRangesKeep, BootPagingKeeps
    <2>2. pc' # "run"
      BY <2>1 DEF BootInv, BootSteps
    <2>3. QED BY <2>1, <2>2
  <1>6. QED BY <1>2, <1>3, <1>4, <1>5 DEF Next, Boot

-----------------------------------------------------------------------------
(* What the invariant gives. *)

\* A use of a frame as Uses has it.
Use(e, k, i) ==
    IF k = "dir" THEN <<At(Pair(m, env, e), k, i), e, "dir">> ELSE <<At(Pair(m, env, e), k, i), e, k, i>>

\* What RunInv says of an environment.
LEMMA PairFound ==
    ASSUME RunInv, NEW e \in Envs
    PROVE  /\ Good(Pair(m, env, e), Rest(e)) /\ EnvFits(Pair(m, env, e), m.word[kdir])
           /\ Pair(m, env, e).m = m /\ Pair(m, env, e).e = env[e]
  BY OnFound, PairParts

\* The pages that the tables of e have an entry for.
LEMMA ResidentPages ==
    ASSUME RunInv, NEW e \in Live, NEW v \in VPages
    PROVE  /\ v \in Resident(e) <=> Entry(Pair(m, env, e), v) # Zero
           /\ v \in Resident(e) => PTE(m, env[e].dir, v) = Entry(Pair(m, env, e), v)
           /\ get_frame_info(m, env[e].dir, v) = 0 <=> Entry(Pair(m, env, e), v) = Zero
           /\ TableEntry(Pair(m, env, e), PDX(v)) = m.word[env[e].dir][PDX(v)]
  <1> DEFINE s == Pair(m, env, e)
  <1>1. Good(s, Rest(e)) /\ s.m = m /\ s.e = env[e] /\ s.e.dir # 0
    BY PairFound DEF Live
  <1> HIDE DEF s
  <1>2. /\ HasTable(s.m, s.e.dir, v) <=> TableEntry(s, PDX(v)) # Zero
        /\ TableEntry(s, PDX(v)) # Zero => PTE(s.m, s.e.dir, v) = Entry(s, v)
        /\ get_frame_info(s.m, s.e.dir, v) = Entry(s, v).pa
        /\ TableEntry(s, PDX(v)) = s.m.word[s.e.dir][PDX(v)]
        /\ Entry(s, v).pa = 0 <=> Entry(s, v) = Zero
    BY <1>1, Looked
  <1>3. TableEntry(s, PDX(v)) = Zero => Entry(s, v) = Zero
    BY DEF Entry
  <1>4. v \in 0 .. 2 * W - 1
    BY DEF VPages
  <1>5. v \in Resident(e) <=> HasTable(s.m, s.e.dir, v) /\ PTE(s.m, s.e.dir, v) # Zero
    BY <1>1, <1>4 DEF Resident
  <1>6. QED BY <1>1, <1>2, <1>3, <1>5 DEF s

\* Each use of Uses is a frame that its environment has, not 0.
LEMMA UsesAre ==
    ASSUME RunInv, NEW u \in Uses
    PROVE  \E e \in Envs, k \in Kinds, i \in Index :
             u = Use(e, k, i) /\ u[1] = At(Pair(m, env, e), k, i) /\ u[1] # 0
  <1>1. PICK e \in Live :
           \/ u = <<env[e].dir, e, "dir">>
           \/ \E i \in UserDirs : m.word[env[e].dir][i] # Zero /\ u = <<m.word[env[e].dir][i].pa, e, "table", i>>
           \/ \E v \in Resident(e) : u = <<PTE(m, env[e].dir, v).pa, e, "page", v>>
           \/ \E i \in 0 .. DiskDir : env[e].disk[i] # 0 /\ u = <<env[e].disk[i], e, "disk", i>>
    BY DEF Uses
  <1> DEFINE s == Pair(m, env, e)
  <1>2. e \in Envs /\ Good(s, Rest(e)) /\ s.m = m /\ s.e = env[e] /\ s.e.dir # 0
    BY PairFound DEF Live
  <1>3. \A k, i : u = <<At(s, k, i), e, k, i>> => u[1] = At(s, k, i)
    OBVIOUS
  <1>4. CASE u = <<env[e].dir, e, "dir">>
    <2>1. At(s, "dir", 0) = env[e].dir /\ "dir" \in Kinds /\ 0 \in Index
      BY <1>2, AtFacts
    <2>2. u = Use(e, "dir", 0) /\ u[1] = At(s, "dir", 0) /\ u[1] # 0
      BY <1>2, <1>4, <2>1 DEF Use
    <2>3. QED BY <1>2, <2>1, <2>2
  <1>5. ASSUME NEW i \in UserDirs, m.word[env[e].dir][i] # Zero, u = <<m.word[env[e].dir][i].pa, e, "table", i>>
        PROVE  \E k \in Kinds, j \in Index : u = Use(e, k, j) /\ u[1] = At(s, k, j) /\ u[1] # 0
    <2>1. TableEntry(s, i) = m.word[env[e].dir][i] /\ TableEntry(s, i).pa # 0
      BY <1>2, <1>5, OwnFacts
    <2>2. At(s, "table", i) = m.word[env[e].dir][i].pa /\ "table" \in Kinds /\ i \in Index
      BY <2>1, AtFacts
    <2>3. u = Use(e, "table", i) /\ u[1] = At(s, "table", i) /\ u[1] # 0
      BY <1>5, <2>1, <2>2 DEF Use
    <2>4. QED BY <2>2, <2>3
  <1>6. ASSUME NEW v \in Resident(e), u = <<PTE(m, env[e].dir, v).pa, e, "page", v>>
        PROVE  \E k \in Kinds, j \in Index : u = Use(e, k, j) /\ u[1] = At(s, k, j) /\ u[1] # 0
    <2>1. v \in VPages
      BY DEF Resident, VPages
    <2>2. Entry(s, v) # Zero /\ PTE(m, env[e].dir, v) = Entry(s, v)
      BY <1>6, <2>1, ResidentPages
    <2>3. Entry(s, v).pa # 0
      BY <1>2, <2>1, <2>2, OwnFacts
    <2>4. At(s, "page", v) = Entry(s, v).pa /\ "page" \in Kinds /\ v \in Index
      BY <2>1, AtFacts
    <2>5. u = Use(e, "page", v) /\ u[1] = At(s, "page", v) /\ u[1] # 0
      BY <1>6, <2>2, <2>3, <2>4 DEF Use
    <2>6. QED BY <2>4, <2>5
  <1>7. ASSUME NEW i \in 0 .. DiskDir, env[e].disk[i] # 0, u = <<env[e].disk[i], e, "disk", i>>
        PROVE  \E k \in Kinds, j \in Index : u = Use(e, k, j) /\ u[1] = At(s, k, j) /\ u[1] # 0
    <2>1. At(s, "disk", i) = env[e].disk[i] /\ "disk" \in Kinds /\ i \in Index
      BY <1>2, AtFacts
    <2>2. u = Use(e, "disk", i) /\ u[1] = At(s, "disk", i) /\ u[1] # 0
      BY <1>7, <2>1 DEF Use
    <2>3. QED BY <2>1, <2>2
  <1>8. QED BY <1>1, <1>2, <1>4, <1>5, <1>6, <1>7

\* Two uses of one frame are the same use.
LEMMA UsesApart ==
    ASSUME RunInv, NEW u \in Uses, NEW w \in Uses, u[1] = w[1]
    PROVE  u = w
  <1>1. PICK e \in Envs, k \in Kinds, i \in Index :
          u = Use(e, k, i) /\ u[1] = At(Pair(m, env, e), k, i) /\ u[1] # 0
    BY UsesAre
  <1>2. PICK f \in Envs, l \in Kinds, j \in Index :
          w = Use(f, l, j) /\ w[1] = At(Pair(m, env, f), l, j) /\ w[1] # 0
    BY UsesAre
  <1>3. Good(Pair(m, env, e), Rest(e))
    BY PairFound
  <1>4. f = e
    <2> SUFFICES ASSUME f # e PROVE FALSE
      OBVIOUS
    <2>1. f \in Envs \ {e} /\ At(Pair(m, env, f), l, j) # 0
      BY <1>2
    <2>2. At(Pair(m, env, f), l, j) \in Rest(e)
      BY <2>1, OthersHave DEF Rest
    <2>3. At(Pair(m, env, e), k, i) \notin Rest(e)
      BY <1>1, <1>3 DEF Good, OwnApart
    <2>4. QED BY <1>1, <1>2, <2>2, <2>3
  <1>5. k = l /\ i = j
    <2>1. OwnApart(Pair(m, env, e), Rest(e))
      BY <1>3 DEF Good
    <2>2. At(Pair(m, env, e), k, i) # 0 /\ At(Pair(m, env, e), k, i) = At(Pair(m, env, e), l, j)
      BY <1>1, <1>2, <1>4
    <2>3. QED BY <2>1, <2>2, OwnUnique
  <1>6. QED BY <1>1, <1>2, <1>4, <1>5

\* What is used is a frame of its environment: not free, and counted once.
LEMMA UsedFrames ==
    ASSUME RunInv, NEW f \in Used
    PROVE  f \in Frames /\ f \notin ToSet(m.free) /\ f \notin Kernels /\ m.refs[f] = 1
  <1>1. PICK u \in Uses : f = u[1]
    BY DEF Used
  <1>2. PICK e \in Envs, k \in Kinds, i \in Index : f = At(Pair(m, env, e), k, i) /\ f # 0
    BY <1>1, UsesAre
  <1>3. Good(Pair(m, env, e), Rest(e)) /\ Pair(m, env, e).m = m /\ Kernels \subseteq Rest(e)
    BY PairFound DEF Rest, Others
  <1>4. f \in Frames
    BY <1>2, <1>3, OwnInFrames
  <1>5. QED BY <1>2, <1>3, <1>4 DEF Good, OwnApart

\* No frame has two uses.
LEMMA NothingIsShared ==
    ASSUME RunInv
    PROVE  NothingShared
  <1> DEFINE f == [u \in Uses |-> u[1]]
  <1>1. Used \subseteq Frames
    BY UsedFrames
  <1>2. IsFiniteSet(Used)
    <2>1. IsFiniteSet(Frames)
      BY FS_Interval, Layout DEF Frames
    <2>2. QED BY <1>1, <2>1, FS_Subset
  <1>3. f \in [Uses -> Used] /\ \A x \in Used : \E u \in Uses : f[u] = x
    BY DEF Used
  <1>4. f \in Surjection(Uses, Used)
    BY <1>3 DEF Surjection
  <1>5. IsInjective(f)
    BY UsesApart DEF IsInjective
  <1>6. f \in Injection(Uses, Used)
    BY <1>3, <1>5 DEF Injection
  <1> HIDE DEF f
  <1>7. Cardinality(Uses) = Cardinality(Used)
    BY <1>2, <1>4, <1>6, FS_Injection
  <1>8. QED BY <1>7 DEF NothingShared

\* No free frame has a use, and counts are right.
LEMMA FreeIsApart ==
    ASSUME RunInv
    PROVE  FreeIsFree
  <1>1. /\ System(m, env, Kernels, kdir) /\ m \in Memories
    BY DEF RunInv, System, Kernels
  <1>2. /\ Distinct(m.free) /\ \A f \in ToSet(m.free) : f \notin Kernels /\ f # 0 /\ m.refs[f] = 0
    BY <1>1 DEF System
  <1>3. ToSet(m.free) \subseteq Frames
    <2>1. m.free \in Seq(Frames)
      BY <1>1 DEF Memories
    <2>2. QED BY <2>1 DEF ToSet
  <1>4. \A f \in ToSet(m.free) : f \notin Used \cup Reserved
    BY <1>2, <1>3, UsedFrames DEF Kernels
  <1>5. IsInjective(m.free)
    BY <1>2 DEF IsInjective, Distinct
  <1>6. QED BY <1>2, <1>4, <1>5, UsedFrames DEF FreeIsFree

\* One page, and two pages, mapped by the loop.
LEMMA PagesMapped ==
    ASSUME NEW s, NEW v \in Nat
    PROVE  /\ FoldLeft(MapPage, s, PagesFrom(v, 1)) = MapPage(s, v)
           /\ FoldLeft(MapPage, s, PagesFrom(v, 2)) = MapPage(MapPage(s, v), v + 1)
  <1> DEFINE J == [i \in 0 .. 2 |-> IF i = 0 THEN {s} ELSE IF i = 1 THEN {MapPage(s, v)}
                                    ELSE {MapPage(MapPage(s, v), v + 1)}]
  <1>1. J[0] = {s} /\ J[1] = {MapPage(s, v)} /\ J[2] = {MapPage(MapPage(s, v), v + 1)}
    OBVIOUS
  <1> HIDE DEF J
  <1>2. DOMAIN PagesFrom(v, 1) = 1 .. 1 /\ PagesFrom(v, 1)[1] = v
    BY DEF PagesFrom
  <1>3. DOMAIN PagesFrom(v, 2) = 1 .. 2 /\ PagesFrom(v, 2)[1] = v /\ PagesFrom(v, 2)[2] = v + 1
    BY DEF PagesFrom
  <1>4. FoldLeft(MapPage, s, PagesFrom(v, 1)) = MapPage(s, v)
    <2> DEFINE q == PagesFrom(v, 1)
    <2>1. \A i \in 1 .. 1 : \A a \in J[i - 1] : MapPage(a, q[i]) \in J[i]
      <3>1. \A i \in 1 .. 1 : i = 1
        OBVIOUS
      <3>2. \A a \in J[1 - 1] : MapPage(a, q[1]) \in J[1]
        BY <1>1, <1>2
      <3>3. QED BY <3>1, <3>2
    <2>2. s \in J[0]
      BY <1>1
    <2> HIDE DEF q
    <2>3. DOMAIN q = 1 .. 1
      BY <1>2 DEF q
    <2>4. MapPages!FoldLeft(MapPage, s, q) \in J[1]
      BY <2>1, <2>2, <2>3, MapPages!FoldKeeps
    <2>5. MapPages!FoldLeft(MapPage, s, q) = FoldLeft(MapPage, s, q)
      BY DEF MapPages!FoldLeft, FoldLeft, MapThenFoldSet, MapPages!MapThenFoldSet, MapPages!Max, Max
    <2>6. QED BY <1>1, <2>4, <2>5 DEF q
  <1>5. FoldLeft(MapPage, s, PagesFrom(v, 2)) = MapPage(MapPage(s, v), v + 1)
    <2> DEFINE q == PagesFrom(v, 2)
    <2>1. \A i \in 1 .. 2 : \A a \in J[i - 1] : MapPage(a, q[i]) \in J[i]
      <3>1. \A i \in 1 .. 2 : i = 1 \/ i = 2
        OBVIOUS
      <3>2. \A a \in J[1 - 1] : MapPage(a, q[1]) \in J[1]
        BY <1>1, <1>3
      <3>3. \A a \in J[2 - 1] : MapPage(a, q[2]) \in J[2]
        BY <1>1, <1>3
      <3>4. QED BY <3>1, <3>2, <3>3
    <2>2. s \in J[0]
      BY <1>1
    <2> HIDE DEF q
    <2>3. DOMAIN q = 1 .. 2
      BY <1>3 DEF q
    <2>4. MapPages!FoldLeft(MapPage, s, q) \in J[2]
      BY <2>1, <2>2, <2>3, MapPages!FoldKeeps
    <2>5. MapPages!FoldLeft(MapPage, s, q) = FoldLeft(MapPage, s, q)
      BY DEF MapPages!FoldLeft, FoldLeft, MapThenFoldSet, MapPages!MapThenFoldSet, MapPages!Max, Max
    <2>6. QED BY <1>1, <2>4, <2>5 DEF q
  <1>6. QED BY <1>4, <1>5

\* An absent page takes its frame, and one for its table when there is none.
Grows(s, t, v) ==
    /\ t.m.panic <=> Len(s.m.free) < Needs(s, v)
    /\ ~t.m.panic => Len(t.m.free) = Len(s.m.free) - Needs(s, v)

\* One absent page mapped.
LEMMA PageTakes ==
    ASSUME NEW s, NEW t, NEW O, NEW v \in VPages, Good(s, O), O \subseteq Frames, s.e.dir # 0,
           ~s.m.panic, Entry(s, v) = Zero, t = MapPage(s, v)
    PROVE  Grows(s, t, v) /\ NewlyMapped(s, t, O, v) /\ Good(t, O) /\ t.e.dir = s.e.dir
  <1>1. t = WithMem(s, MapNew(s.m, s.e.dir, v, map_frame))
    BY DEF MapPage, Then
  <1>2. MapsNew(s, t, v)
    BY <1>1 DEF MapsNew
  <1>3. NewlyMapped(s, t, O, v)
    BY <1>2, NewMapping
  <1>4. QED BY <1>3 DEF NewlyMapped, Grows, Step

\* The tables that a range of pages lacks.
Tables(s, v, n) == {i \in PDX(v) .. PDX(v + n - 1) : TableEntry(s, i) = Zero}
Missing(s, i) == IF TableEntry(s, i) = Zero THEN 1 ELSE 0

\* The next page is in the same table or in the next.
LEMMA NextPage ==
    ASSUME NEW v \in VPages, v + 1 \in VPages
    PROVE  PDX(v + 1) = PDX(v) \/ (PDX(v) = 0 /\ PDX(v + 1) = 1)
  <1>1. /\ PDX(v) \in {0, 1} /\ PTX(v) \in 0 .. W - 1 /\ v = PDX(v) * W + PTX(v)
        /\ PDX(v + 1) \in {0, 1} /\ PTX(v + 1) \in 0 .. W - 1 /\ v + 1 = PDX(v + 1) * W + PTX(v + 1)
        /\ v \in Nat /\ W \in Nat
    BY PagePlace, Layout
  <1>2. CASE PDX(v) = 1 /\ PDX(v + 1) = 0
    <2>1. v = W + PTX(v) /\ v + 1 = PTX(v + 1)
      BY <1>1, <1>2
    <2>2. QED BY <1>1, <2>1
  <1>3. QED BY <1>1, <1>2

\* How many tables a range of one or two pages lacks.
LEMMA MissingTables ==
    ASSUME NEW s, NEW v \in VPages
    PROVE  /\ Cardinality(Tables(s, v, 1)) = Missing(s, PDX(v))
           /\ v + 1 \in VPages =>
                Cardinality(Tables(s, v, 2)) = IF PDX(v + 1) = PDX(v) THEN Missing(s, PDX(v))
                                               ELSE Missing(s, PDX(v)) + Missing(s, PDX(v + 1))
  <1>1. Cardinality({}) = 0 /\ IsFiniteSet({}) /\ \A x : IsFiniteSet({x}) /\ Cardinality({x}) = 1
    BY FS_EmptySet, FS_Singleton
  <1>2. PDX(v) \in {0, 1} /\ v \in Nat
    BY PagePlace, Layout
  <1>3. \A i \in {0, 1} : i .. i = {i}
    OBVIOUS
  <1>4. \A i \in {0, 1} : Cardinality({j \in i .. i : TableEntry(s, j) = Zero}) = Missing(s, i)
    <2> TAKE i \in {0, 1}
    <2>1. CASE TableEntry(s, i) = Zero
      <3>1. {j \in i .. i : TableEntry(s, j) = Zero} = {i}
        BY <1>3, <2>1
      <3>2. QED BY <1>1, <2>1, <3>1 DEF Missing
    <2>2. CASE TableEntry(s, i) # Zero
      <3>1. {j \in i .. i : TableEntry(s, j) = Zero} = {}
        BY <1>3, <2>2
      <3>2. QED BY <1>1, <2>2, <3>1 DEF Missing
    <2>3. QED BY <2>1, <2>2
  <1>5. PDX(v + 1 - 1) = PDX(v) /\ v + 2 - 1 = v + 1
    BY <1>2
  <1>6. Cardinality(Tables(s, v, 1)) = Missing(s, PDX(v))
    BY <1>2, <1>4, <1>5 DEF Tables
  <1>7. ASSUME v + 1 \in VPages, PDX(v + 1) = PDX(v) PROVE Cardinality(Tables(s, v, 2)) = Missing(s, PDX(v))
    BY <1>2, <1>4, <1>5, <1>7 DEF Tables
  <1>8. ASSUME v + 1 \in VPages, PDX(v + 1) # PDX(v)
        PROVE  Cardinality(Tables(s, v, 2)) = Missing(s, PDX(v)) + Missing(s, PDX(v + 1))
    <2>1. PDX(v) = 0 /\ PDX(v + 1) = 1
      BY <1>8, NextPage
    <2>2. Tables(s, v, 2) = {j \in {0, 1} : TableEntry(s, j) = Zero}
      BY <1>5, <2>1 DEF Tables
    <2>3. CASE TableEntry(s, 0) = Zero /\ TableEntry(s, 1) = Zero
      <3>1. Tables(s, v, 2) = {0} \cup {1} /\ 1 \notin {0}
        BY <2>2, <2>3
      <3>2. Cardinality({0} \cup {1}) = Cardinality({0}) + 1
        BY <1>1, <3>1, FS_AddElement
      <3>3. QED BY <1>1, <2>1, <2>3, <3>1, <3>2 DEF Missing
    <2>4. CASE TableEntry(s, 0) = Zero /\ TableEntry(s, 1) # Zero
      <3>1. Tables(s, v, 2) = {0}
        BY <2>2, <2>4
      <3>2. QED BY <1>1, <2>1, <2>4, <3>1 DEF Missing
    <2>5. CASE TableEntry(s, 0) # Zero /\ TableEntry(s, 1) = Zero
      <3>1. Tables(s, v, 2) = {1}
        BY <2>2, <2>5
      <3>2. QED BY <1>1, <2>1, <2>5, <3>1 DEF Missing
    <2>6. CASE TableEntry(s, 0) # Zero /\ TableEntry(s, 1) # Zero
      <3>1. Tables(s, v, 2) = {}
        BY <2>2, <2>6
      <3>2. QED BY <1>1, <2>1, <2>6, <3>1 DEF Missing
    <2>7. QED BY <2>3, <2>4, <2>5, <2>6
  <1>9. QED BY <1>6, <1>7, <1>8

\* k frames are what mapping takes.
Exact(s, t, k) == IF t.m.panic THEN k > Len(s.m.free) ELSE k = Len(s.m.free) - Len(t.m.free)

\* The number foretold is right for one page.
LEMMA OnePageExact ==
    ASSUME NEW s, NEW O, NEW v \in VPages, Good(s, O), O \subseteq Frames, s.e.dir # 0,
           ~s.m.panic, Entry(s, v) = Zero
    PROVE  Exact(s, MapPage(s, v), Cardinality(Tables(s, v, 1)) + 1)
  <1> DEFINE t == MapPage(s, v)
  <1>1. Grows(s, t, v) /\ Good(t, O)
    BY PageTakes
  <1> HIDE DEF t
  <1>2. Needs(s, v) = Missing(s, PDX(v)) + 1 /\ Missing(s, PDX(v)) \in Nat
    BY DEF Needs, Missing
  <1>3. Len(s.m.free) \in Nat /\ Len(t.m.free) \in Nat
    <2>1. s.m.free \in Seq(Frames) /\ t.m.free \in Seq(Frames)
      BY <1>1, OwnFacts DEF Memories
    <2>2. QED BY <2>1
  <1>4. Cardinality(Tables(s, v, 1)) = Missing(s, PDX(v))
    BY MissingTables
  <1>5. QED
    <2> DEFINE a == Len(s.m.free)
               b == Len(t.m.free)
               k == Missing(s, PDX(v))
    <2>1. a \in Nat /\ b \in Nat /\ k \in Nat
      BY <1>2, <1>3
    <2>2. (t.m.panic <=> a < k + 1) /\ (~t.m.panic => b = a - (k + 1))
      BY <1>1, <1>2 DEF Grows
    <2> HIDE DEF a, b, k
    <2>3. IF t.m.panic THEN k + 1 > a ELSE k + 1 = a - b
      BY <2>1, <2>2
    <2>4. QED BY <1>4, <2>3 DEF Exact, a, b, k, t

\* The number foretold is right for two pages, also across two tables.
LEMMA TwoPagesExact ==
    ASSUME NEW s, NEW O, NEW v \in VPages, Good(s, O), O \subseteq Frames, s.e.dir # 0,
           ~s.m.panic, Entry(s, v) = Zero, v + 1 \in VPages, Entry(s, v + 1) = Zero
    PROVE  Exact(s, MapPage(MapPage(s, v), v + 1), Cardinality(Tables(s, v, 2)) + 2)
  <1> DEFINE t == MapPage(s, v)
             w == v + 1
             u == MapPage(t, w)
  <1>1. Grows(s, t, v) /\ Good(t, O) /\ NewlyMapped(s, t, O, v) /\ t.e.dir # 0
    BY PageTakes
  <1>2. Needs(s, v) = Missing(s, PDX(v)) + 1 /\ Missing(s, PDX(v)) \in {0, 1}
        /\ Missing(s, PDX(w)) \in {0, 1}
    BY DEF Needs, Missing
  <1>3. /\ PDX(w) \in UserDirs /\ w # v /\ w \in VPages
    BY PagePlace
  <1>4. Cardinality(Tables(s, v, 2)) = IF PDX(w) = PDX(v) THEN Missing(s, PDX(v))
                                       ELSE Missing(s, PDX(v)) + Missing(s, PDX(w))
    BY MissingTables
  <1> HIDE DEF w, t
  <1>5. u = MapPage(t, w)
    OBVIOUS
  <1> HIDE DEF u
  <1>6. Len(s.m.free) \in Nat /\ Len(t.m.free) \in Nat
    <2>1. s.m.free \in Seq(Frames) /\ t.m.free \in Seq(Frames)
      BY <1>1, OwnFacts DEF Memories
    <2>2. QED BY <2>1
  <1> DEFINE a == Len(s.m.free)
             b == Len(t.m.free)
             i == Missing(s, PDX(v))
             j == Missing(s, PDX(w))
             n == IF PDX(w) = PDX(v) THEN i ELSE i + j
  <1>7. a \in Nat /\ b \in Nat /\ i \in {0, 1} /\ j \in {0, 1}
    BY <1>2, <1>6
  <1>8. (t.m.panic <=> a < i + 1) /\ (~t.m.panic => b = a - (i + 1))
    BY <1>1, <1>2 DEF Grows
  <1>9. CASE t.m.panic
    <2>1. u = t
      BY <1>5, <1>9 DEF MapPage, Then
    <2> HIDE DEF a, b, i, j
    <2>2. n + 2 > a
      BY <1>7, <1>8, <1>9
    <2>3. QED BY <1>4, <1>9, <2>1, <2>2 DEF Exact, a, i, j, u, t, w
  <1>10. CASE ~t.m.panic
    <2>1. Entry(t, w) = Zero
      BY <1>1, <1>3 DEF NewlyMapped, Step, w
    <2>2. Grows(t, u, w) /\ Good(u, O)
      BY <1>1, <1>3, <1>5, <1>10, <2>1, PageTakes
    <2>3. Needs(t, w) = IF PDX(w) = PDX(v) THEN 1 ELSE j + 1
      <3>1. CASE PDX(w) = PDX(v)
        <4>1. Entry(t, v) # Zero
          BY <1>1, <1>10 DEF NewlyMapped
        <4>2. TableEntry(t, PDX(w)) # Zero
          BY <3>1, <4>1 DEF Entry
        <4>3. QED BY <3>1, <4>2 DEF Needs
      <3>2. CASE PDX(w) # PDX(v)
        <4>1. TableEntry(t, PDX(w)) = TableEntry(s, PDX(w))
          BY <1>1, <1>3, <3>2 DEF NewlyMapped
        <4>2. QED BY <3>2, <4>1 DEF Needs, Missing
      <3>3. QED BY <3>1, <3>2
    <2>4. Len(u.m.free) \in Nat
      <3>1. u.m.free \in Seq(Frames)
        BY <2>2, OwnFacts DEF Memories
      <3>2. QED BY <3>1
    <2> DEFINE c == Len(u.m.free)
    <2>5. /\ u.m.panic <=> b < IF PDX(w) = PDX(v) THEN 1 ELSE j + 1
          /\ ~u.m.panic => c = b - IF PDX(w) = PDX(v) THEN 1 ELSE j + 1
          /\ c \in Nat
      BY <2>2, <2>3, <2>4 DEF Grows
    <2> HIDE DEF a, b, i, j, c
    <2>6. CASE PDX(w) = PDX(v)
      <3>1. IF u.m.panic THEN i + 2 > a ELSE i + 2 = a - c
        BY <1>7, <1>8, <1>10, <2>5, <2>6
      <3>2. QED BY <1>4, <2>6, <3>1 DEF Exact, a, c, i, u, t, w
    <2>7. CASE PDX(w) # PDX(v)
      <3>1. IF u.m.panic THEN i + j + 2 > a ELSE i + j + 2 = a - c
        BY <1>7, <1>8, <1>10, <2>5, <2>7
      <3>2. QED BY <1>4, <2>7, <3>1 DEF Exact, a, c, i, j, u, t, w
    <2>8. QED BY <2>6, <2>7
  <1>11. QED BY <1>9, <1>10

\* The number that calculate_required_frames gives for a range of absent pages.
LEMMA RequiredFrames ==
    ASSUME RunInv, NEW e \in Live, NEW v \in VPages, NEW n \in 1 .. 2, v + n - 1 \in VPages,
           \A u \in v .. v + n - 1 : get_frame_info(m, env[e].dir, u) = 0
    PROVE  calculate_required_frames(m, env[e].dir, v, n) = Cardinality(Tables(On(e), v, n)) + n
  <1> DEFINE s == On(e)
             p == Pair(m, env, e)
  <1>1. e \in Envs /\ Found(m, env, s, Rest(e), kdir, e) /\ SameMap(p, s)
        /\ p.m = m /\ p.e = env[e] /\ Good(p, Rest(e)) /\ p.e.dir # 0
    BY OnFound, PairFound DEF Live, Found
  <1>2. /\ v \in Nat /\ W \in Nat
        /\ PDX(v) \in UserDirs /\ PDX(v + n - 1) \in UserDirs /\ UserDirs = {0, 1}
    BY PagePlace, Layout
  <1>3. \A i \in PDX(v) .. PDX(v + n - 1) : i \in UserDirs
    BY <1>2
  <1>4. \A i \in UserDirs : TableEntry(s, i) = m.word[env[e].dir][i]
    <2>1. \A i \in UserDirs : TableEntry(p, i) = m.word[env[e].dir][i]
      BY <1>1, OwnFacts
    <2>2. QED BY <1>1, <2>1 DEF SameMap
  <1>5. {i \in PDX(v) .. PDX(v + n - 1) : m.word[env[e].dir][i] = Zero} = Tables(s, v, n)
    BY <1>3, <1>4 DEF Tables
  <1>6. {u \in v .. v + n - 1 : get_frame_info(m, env[e].dir, u) = 0} = v .. v + n - 1
    OBVIOUS
  <1>7. Cardinality(v .. v + n - 1) = n
    <2>1. v \in Int /\ v + n - 1 \in Int /\ ~(v > v + n - 1) /\ v + n - 1 - v + 1 = n
      BY <1>2
    <2> DEFINE w == v + n - 1
    <2>2. v \in Int /\ w \in Int /\ ~(v > w) /\ w - v + 1 = n
      BY <2>1
    <2> HIDE DEF w
    <2>3. Cardinality(v .. w) = n
      BY <2>2, FS_Interval
    <2>4. QED BY <2>3 DEF w
  <1>8. QED BY <1>5, <1>6, <1>7 DEF calculate_required_frames

\* calculate_required_frames is exact.
LEMMA RequiredNumbersExact ==
    ASSUME RunInv
    PROVE  RequiredIsExact
  <1> SUFFICES ASSUME NEW e \in Live, NEW v \in OtherPages, NEW n \in {k \in 1 .. 2 : v + k <= 2 * W},
                      \A u \in v .. v + n - 1 : get_frame_info(m, env[e].dir, u) = 0
               PROVE  LET after == FoldLeft(MapPage, On(e), PagesFrom(v, n)).m
                          need == calculate_required_frames(m, env[e].dir, v, n)
                      IN IF after.panic THEN need > Len(m.free) ELSE need = Len(m.free) - Len(after.free)
    BY DEF RequiredIsExact
  <1> DEFINE s == On(e)
             O == Rest(e)
             p == Pair(m, env, e)
  <1>1. /\ e \in Envs /\ Found(m, env, s, O, kdir, e) /\ p.m = m /\ p.e = env[e] /\ p.e.dir # 0
    BY OnFound, PairFound DEF Live
  <1>2. Good(s, O) /\ O \subseteq Frames /\ s.e.dir # 0 /\ ~s.m.panic /\ s.m.free = m.free /\ SameMap(p, s)
    BY <1>1 DEF Found
  <1>3. n \in 1 .. 2 /\ v \in VPages /\ v \in Nat /\ v + n - 1 \in VPages
    <2>1. v \in UserPages /\ W \in Nat /\ UserPages \subseteq VPages
      BY Layout DEF UserPages
    <2>2. QED BY <2>1 DEF VPages
  <1>4. \A u \in v .. v + n - 1 : u \in VPages /\ Entry(s, u) = Zero
    <2> TAKE u \in v .. v + n - 1
    <2>1. u \in VPages
      BY <1>3, Layout DEF VPages
    <2>2. Entry(p, u) = Zero
      BY <2>1, ResidentPages
    <2>3. QED BY <1>2, <2>1, <2>2 DEF SameMap
  <1>5. calculate_required_frames(m, env[e].dir, v, n) = Cardinality(Tables(s, v, n)) + n
    BY <1>3, RequiredFrames
  <1> HIDE DEF s, O, p
  <1>6. Exact(s, FoldLeft(MapPage, s, PagesFrom(v, n)), Cardinality(Tables(s, v, n)) + n)
    <2>1. CASE n = 1
      <3>1. Entry(s, v) = Zero
        BY <1>3, <1>4, <2>1
      <3>2. QED BY <1>2, <1>3, <2>1, <3>1, OnePageExact, PagesMapped
    <2>2. CASE n = 2
      <3>1. Entry(s, v) = Zero /\ v + 1 \in VPages /\ Entry(s, v + 1) = Zero
        BY <1>3, <1>4, <2>2
      <3>2. QED BY <1>2, <1>3, <2>2, <3>1, TwoPagesExact, PagesMapped
    <2>3. QED BY <1>3, <2>1, <2>2
  <1>7. QED BY <1>2, <1>5, <1>6 DEF Exact, s

\* Every directory has the kernel's half.
LEMMA HalvesShared ==
    ASSUME RunInv
    PROVE  KernelHalfShared
  <1>1. \A e \in Live : /\ e \in Envs /\ HalfIs(Pair(m, env, e), m.word[kdir])
                        /\ Pair(m, env, e).m = m /\ Pair(m, env, e).e = env[e] /\ env[e].dir # 0
    BY PairFound DEF Live, EnvFits
  <1>2. QED BY <1>1 DEF HalfIs, KernelHalfShared

\* What is mapped and not PRESENT is in the second list.
LEMMA HiddenListed ==
    ASSUME RunInv
    PROVE  HiddenIsSecond
  <1> SUFFICES ASSUME NEW e \in Live, env[e].status # "stuck", NEW v \in Resident(e),
                      ~PTE(m, env[e].dir, v).p
               PROVE  v \in ToSet(env[e].second)
    BY DEF HiddenIsSecond
  <1>1. e \in Envs /\ v \in VPages
    BY DEF Live, Resident, VPages
  <1>2. Entry(Pair(m, env, e), v) # Zero /\ PTE(m, env[e].dir, v) = Entry(Pair(m, env, e), v)
    BY <1>1, ResidentPages
  <1>3. Hidden(Pair(m, env, e)) /\ Pair(m, env, e).e = env[e]
    BY <1>1, PairFound DEF EnvFits
  <1>4. QED BY <1>1, <1>2, <1>3 DEF Hidden

\* Before the system runs no environment is live, and nothing is translated.
LEMMA BootHasNoEnvironments ==
    ASSUME BootInv
    PROVE  Live = {} /\ pc # "run" /\ tlb = {}
  BY NoEnvFacts DEF BootInv, Live, BootSteps

IInv == IF pc = "run" THEN RunInv ELSE BootInv

\* The invariant, from power on.
LEMMA IInvHolds == Spec => []IInv
  <1>1. Init => IInv
    BY InitBoot DEF IInv, BootInv, BootSteps
  <1>2. IInv /\ [Next]_vars => IInv'
    <2> SUFFICES ASSUME IInv, Next \/ UNCHANGED vars PROVE IInv'
      OBVIOUS
    <2>1. CASE pc = "run"
      BY <2>1, RunKeeps DEF IInv
    <2>2. CASE pc # "run"
      BY <2>2, BootKeeps DEF IInv
    <2>3. QED BY <2>1, <2>2
  <1>3. QED BY <1>1, <1>2, PTL DEF Spec

\* No frame is ever used twice, free and used, or miscounted, and the frames
\* a mapping takes are those foretold, whatever the sizes, the programs and
\* the operations.
THEOREM FramesAccountedCorrect == Spec => []FramesAccounted
  <1>1. IInv => FramesAccounted
    <2>1. ASSUME IInv, pc = "run" PROVE FramesAccounted
      BY <2>1, NothingIsShared, FreeIsApart, RequiredNumbersExact DEF IInv, FramesAccounted
    <2>2. ASSUME IInv, pc # "run" PROVE FramesAccounted
      <3>1. Live = {}
        BY <2>2, BootHasNoEnvironments DEF IInv
      <3>2. Uses = {}
        BY <3>1 DEF Uses
      <3>3. Used = {}
        BY <3>2 DEF Used
      <3>4. QED BY <2>2, <3>1, <3>2, <3>3 DEF FramesAccounted, NothingShared, FreeIsFree, RequiredIsExact
    <2>3. QED BY <2>1, <2>2
  <1>2. QED BY <1>1, IInvHolds, PTL

\* The TLB never holds a translation that the tables do not have, and a page
\* that is mapped and not PRESENT is always in the second list.
THEOREM TranslationsAgreeCorrect == Spec => []TranslationsAgree
  <1>1. IInv => TranslationsAgree
    <2>1. ASSUME IInv, pc = "run" PROVE TranslationsAgree
      BY <2>1, HiddenListed DEF IInv, TranslationsAgree, RunInv
    <2>2. ASSUME IInv, pc # "run" PROVE TranslationsAgree
      BY <2>2, BootHasNoEnvironments DEF IInv, TranslationsAgree, TLBCoherent, HiddenIsSecond
    <2>3. QED BY <2>1, <2>2
  <1>2. QED BY <1>1, IInvHolds, PTL

\* Every environment's directory keeps the kernel's half and its own windows.
THEOREM KernelHalfSharedCorrect == Spec => []KernelHalfShared
  <1>1. IInv => KernelHalfShared
    <2>1. ASSUME IInv, pc = "run" PROVE KernelHalfShared
      BY <2>1, HalvesShared DEF IInv
    <2>2. ASSUME IInv, pc # "run" PROVE KernelHalfShared
      BY <2>2, BootHasNoEnvironments DEF IInv, KernelHalfShared
    <2>3. QED BY <2>1, <2>2
  <1>2. QED BY <1>1, IInvHolds, PTL
=============================================================================
