-------------------------- MODULE UserHeap_proofs --------------------------
(***************************************************************************)
(* Proof that spaces[] tiles the heap for every heap size and every        *)
(* sequence of calls, zero sizes and stray calls of free included.  The    *)
(* inductive invariant Tiles speaks of pages: every page of the heap is in *)
(* one entry.  It is stated of a table, because free works on the table in *)
(* two loops.                                                              *)
(***************************************************************************)
EXTENDS UserHeap, SequenceTheorems, WellFoundedInduction, TLAPS

Rec == [str_address : Int, end_address : Int, pages : Int, isFree : BOOLEAN]

\* An entry that free has removed, and one that has pages.
Gone(e) == e.pages = -1 /\ e.str_address = 0 /\ e.end_address = 0 /\ e.isFree = FALSE
Sound(e) == /\ e.pages >= 0
            /\ e.end_address = e.str_address + e.pages
            /\ USER_HEAP_START <= e.str_address
            /\ e.end_address <= USER_HEAP_MAX

In(table, p, k) == table[k].str_address <= p /\ p < table[k].end_address

Tiles(table) ==
    /\ table \in Seq(Rec)
    /\ \A k \in DOMAIN table : Gone(table[k]) \/ Sound(table[k])
    /\ \A p \in HeapPages : \E k \in DOMAIN table : In(table, p, k)
    /\ \A p \in HeapPages : \A k, l \in DOMAIN table :
         In(table, p, k) /\ In(table, p, l) => k = l

HInv == spaces = << >> \/ Tiles(spaces)

\* A set of numbers that is not empty has a least element.
LEMMA LeastElement ==
    ASSUME NEW S, S \subseteq Nat, S # {}
    PROVE  \E x \in S : \A y \in S : x <= y
  <1>1. \E x \in S : \A y \in S : ~(<<y, x>> \in OpToRel(<, Nat))
    BY NatLessThanWellFounded, WFMin
  <1>2. PICK x \in S : \A y \in S : ~(<<y, x>> \in OpToRel(<, Nat))
    BY <1>1
  <1>3. \A y \in S : ~(y < x)
    BY <1>2 DEF OpToRel
  <1>4. QED BY <1>3

\* A loop that stops, stops at one of its places.
LEMMA FirstIsPlace ==
    ASSUME NEW places, places \subseteq Nat
    PROVE  IF places = {} THEN First(places) = 0 ELSE First(places) \in places
  <1>1. CASE places = {}
    BY <1>1 DEF First
  <1>2. CASE places # {}
    <2>1. \E x \in places : \A y \in places : x <= y
      BY <1>2, LeastElement
    <2>2. QED BY <1>2, <2>1 DEF First
  <1>3. QED BY <1>1, <1>2

\* malloc takes a hole that fits.
LEMMA BestFitFits ==
    ASSUME NEW table, table \in Seq(Rec), NEW req \in Nat, Fits(table, req) # {}
    PROVE  BestFit(table, req) \in Fits(table, req)
  <1> DEFINE fits == Fits(table, req)
             sizes == {table[i].pages : i \in fits}
  <1>1. /\ fits \subseteq DOMAIN table /\ DOMAIN table \subseteq Nat
        /\ \A i \in fits : table[i].pages \in Nat
    <2>1. DOMAIN table = 1 .. Len(table) /\ Len(table) \in Nat
      BY LenProperties
    <2>2. \A i \in DOMAIN table : table[i] \in Rec
      BY <2>1, ElementOfSeq
    <2>3. \A i \in fits : table[i].pages \in Int /\ table[i].pages >= req
      BY <2>2 DEF Fits, Rec
    <2>4. QED BY <2>1, <2>3 DEF Fits
  <1> HIDE DEF fits
  <1>2. sizes \subseteq Nat /\ sizes # {}
    BY <1>1 DEF fits
  <1>3. PICK m \in sizes : \A n \in sizes : m <= n
    BY <1>2, LeastElement
  <1> DEFINE least == {i \in fits : table[i].pages = m}
  <1>4. least \subseteq Nat /\ least # {}
    BY <1>1, <1>3
  <1>5. PICK i \in least : \A j \in least : i <= j
    BY <1>4, LeastElement
  <1>6. ASSUME NEW j \in fits
        PROVE  \/ table[i].pages < table[j].pages
               \/ table[i].pages = table[j].pages /\ i <= j
    <2>1. table[i].pages = m /\ m <= table[j].pages /\ m \in Nat
          /\ table[j].pages \in Nat
      BY <1>1, <1>2, <1>3, <1>5
    <2>2. CASE table[j].pages = m
      BY <1>5, <2>1, <2>2
    <2>3. CASE table[j].pages # m
      BY <2>1, <2>3
    <2>4. QED BY <2>2, <2>3
  <1>7. i \in fits
    BY <1>5
  <1>8. \E x \in fits : \A j \in fits :
          \/ table[x].pages < table[j].pages
          \/ table[x].pages = table[j].pages /\ x <= j
    BY <1>6, <1>7
  <1>9. QED BY <1>8 DEF BestFit, fits

\* The entries of a table are records, at places 1 .. Len(table).
LEMMA TableShape ==
    ASSUME NEW table \in Seq(Rec)
    PROVE  /\ DOMAIN table = 1 .. Len(table) /\ Len(table) \in Nat
           /\ DOMAIN table \subseteq Nat
           /\ \A k \in DOMAIN table : table[k] \in Rec
  <1>1. DOMAIN table = 1 .. Len(table) /\ Len(table) \in Nat
    BY LenProperties
  <1>2. QED BY <1>1, ElementOfSeq

\* Pages are numbers, and so are the ends of the heap.
LEMMA HeapBounds ==
    /\ USER_HEAP_START \in Nat \ {0} /\ USER_HEAP_MAX \in Nat /\ numPages \in Nat \ {0}
    /\ HeapPages \subseteq Int
    /\ \A p \in HeapPages : USER_HEAP_START <= p /\ p < USER_HEAP_MAX
  BY HeapAssumption DEF USER_HEAP_MAX, HeapPages

\* The whole heap as one hole.
LEMMA WholeHeapTiles == Tiles(<<info(USER_HEAP_START, USER_HEAP_MAX, numPages, TRUE)>>)
  <1> DEFINE e == info(USER_HEAP_START, USER_HEAP_MAX, numPages, TRUE)
             t == <<e>>
  <1>1. /\ e.str_address = USER_HEAP_START /\ e.end_address = USER_HEAP_MAX
        /\ e.pages = numPages /\ e \in Rec
    BY HeapBounds DEF info, Rec
  <1> HIDE DEF e
  <1>2. Sound(e)
    <2>1. USER_HEAP_MAX = USER_HEAP_START + numPages
      BY DEF USER_HEAP_MAX
    <2>2. QED BY <1>1, <2>1, HeapBounds DEF Sound
  <1>3. t \in Seq(Rec) /\ DOMAIN t = {1} /\ t[1] = e
    BY <1>1
  <1> HIDE DEF t
  <1>4. \A p \in HeapPages : In(t, p, 1)
    BY <1>1, <1>3, HeapBounds DEF In
  <1>5. QED BY <1>2, <1>3, <1>4 DEF Tiles, t, e

\* A table in which one entry changes only its mark tiles the heap too.
LEMMA MarkTiles ==
    ASSUME NEW table, Tiles(table), NEW i \in DOMAIN table, Sound(table[i]),
           NEW b \in BOOLEAN
    PROVE  Tiles([table EXCEPT ![i].isFree = b])
  <1> DEFINE u == [table EXCEPT ![i].isFree = b]
  <1>1. table \in Seq(Rec)
    BY DEF Tiles
  <1>2. DOMAIN table = 1 .. Len(table) /\ Len(table) \in Nat
        /\ \A k \in DOMAIN table : table[k] \in Rec
    BY <1>1, TableShape
  <1>3. /\ DOMAIN u = DOMAIN table
        /\ \A k \in DOMAIN table : k # i => u[k] = table[k]
        /\ u[i] = [table[i] EXCEPT !.isFree = b]
    BY <1>2
  <1>4. /\ u[i] \in Rec /\ u[i].str_address = table[i].str_address
        /\ u[i].end_address = table[i].end_address /\ u[i].pages = table[i].pages
    BY <1>2, <1>3 DEF Rec
  <1>5. u \in Seq(Rec)
    <2>1. u \in [1 .. Len(table) -> Rec]
      BY <1>2, <1>3, <1>4
    <2>2. QED BY <1>2, <2>1, SeqDef
  <1> HIDE DEF u
  <1>6. \A p, k : k \in DOMAIN table => (In(u, p, k) <=> In(table, p, k))
    BY <1>3, <1>4 DEF In
  <1>7. Sound(u[i])
    BY <1>4 DEF Sound
  <1>8. \A k \in DOMAIN u : Gone(u[k]) \/ Sound(u[k])
    BY <1>3, <1>7 DEF Tiles
  <1>9. QED BY <1>3, <1>5, <1>6, <1>8 DEF Tiles, u

\* A hole split into a block and the rest of the hole.
LEMMA SplitTiles ==
    ASSUME NEW table, Tiles(table), NEW i \in DOMAIN table, Sound(table[i]),
           NEW req \in Nat, req <= table[i].pages
    PROVE  Tiles(Split(table, i, req)) /\ Split(table, i, req) # << >>
  <1> DEFINE rest == info(table[i].str_address + req, table[i].end_address,
                          table[i].pages - req, TRUE)
             c == [table EXCEPT ![i].end_address = table[i].str_address + req,
                                ![i].pages = req, ![i].isFree = FALSE]
             u == Append(c, rest)
             n == Len(table) + 1
  <1>1. table \in Seq(Rec)
    BY DEF Tiles
  <1>2. DOMAIN table = 1 .. Len(table) /\ Len(table) \in Nat
        /\ \A k \in DOMAIN table : table[k] \in Rec
    BY <1>1, TableShape
  <1>3. /\ table[i].str_address \in Int /\ table[i].end_address \in Int
        /\ table[i].pages \in Int
    BY <1>2 DEF Rec
  <1>4. /\ rest \in Rec /\ rest.str_address = table[i].str_address + req
        /\ rest.end_address = table[i].end_address
        /\ rest.pages = table[i].pages - req
    BY <1>3 DEF info, Rec
  <1>5. /\ DOMAIN c = DOMAIN table
        /\ \A k \in DOMAIN table : k # i => c[k] = table[k]
        /\ c[i] \in Rec /\ c[i].str_address = table[i].str_address
        /\ c[i].end_address = table[i].str_address + req /\ c[i].pages = req
        /\ c = [k \in DOMAIN table |-> c[k]]
    <2>1. /\ DOMAIN c = DOMAIN table
          /\ \A k \in DOMAIN table : k # i => c[k] = table[k]
          /\ c = [k \in DOMAIN table |-> c[k]]
      BY <1>2
    <2>2. c[i] = [[[table[i] EXCEPT !.end_address = table[i].str_address + req]
                     EXCEPT !.pages = req] EXCEPT !.isFree = FALSE]
      BY <1>2
    <2>3. /\ c[i] \in Rec /\ c[i].str_address = table[i].str_address
          /\ c[i].end_address = table[i].str_address + req /\ c[i].pages = req
      <3> DEFINE d == [table[i] EXCEPT !.end_address = table[i].str_address + req]
                 f == [d EXCEPT !.pages = req]
                 g == [f EXCEPT !.isFree = FALSE]
      <3>1. table[i] \in Rec /\ table[i].str_address + req \in Int
        BY <1>2, <1>3
      <3>2. /\ d \in Rec /\ d.str_address = table[i].str_address
            /\ d.end_address = table[i].str_address + req
        BY <3>1 DEF Rec
      <3> HIDE DEF d
      <3>3. /\ f \in Rec /\ f.str_address = d.str_address
            /\ f.end_address = d.end_address /\ f.pages = req
        BY <3>2 DEF Rec
      <3> HIDE DEF f
      <3>4. /\ g \in Rec /\ g.str_address = f.str_address
            /\ g.end_address = f.end_address /\ g.pages = f.pages
        BY <3>3 DEF Rec
      <3>5. c[i] = g
        BY <2>2 DEF d, f
      <3> HIDE DEF c, g
      <3>6. QED BY <3>2, <3>3, <3>4, <3>5
    <2>4. QED BY <2>1, <2>3
  <1> HIDE DEF c, rest
  <1>6. c \in Seq(Rec) /\ Len(c) = Len(table)
    <2>1. c \in [1 .. Len(table) -> Rec]
      BY <1>2, <1>5
    <2>2. c \in Seq(Rec)
      BY <1>2, <2>1, SeqDef
    <2>3. QED BY <1>2, <1>5, <2>2, LenProperties
  <1>7. /\ u \in Seq(Rec) /\ DOMAIN u = 1 .. n /\ u[n] = rest
        /\ \A k \in DOMAIN table : u[k] = c[k]
        /\ DOMAIN u = DOMAIN table \cup {n} /\ n \notin DOMAIN table /\ Len(u) = n
    <2>1. /\ u \in Seq(Rec) /\ Len(u) = Len(c) + 1
          /\ \A k \in 1 .. Len(c) : u[k] = c[k]
          /\ u[Len(c) + 1] = rest
      BY <1>4, <1>6, AppendProperties
    <2>2. DOMAIN u = 1 .. Len(u)
      BY <2>1, LenProperties
    <2>3. QED BY <1>2, <1>6, <2>1, <2>2
  <1> HIDE DEF u, n
  <1>8. Sound(u[i]) /\ Sound(u[n])
    <2>1. u[i] = c[i] /\ u[n] = rest
      BY <1>7
    <2>2. /\ table[i].end_address = table[i].str_address + table[i].pages
          /\ USER_HEAP_START <= table[i].str_address
          /\ table[i].end_address <= USER_HEAP_MAX
      BY DEF Sound
    <2>3. Sound(c[i])
      BY <1>3, <1>5, <2>2, HeapBounds DEF Sound
    <2>4. Sound(rest)
      BY <1>3, <1>4, <2>2, HeapBounds DEF Sound
    <2>5. QED BY <2>1, <2>3, <2>4
  <1>9. \A k \in DOMAIN u : Gone(u[k]) \/ Sound(u[k])
    BY <1>5, <1>7, <1>8 DEF Tiles
  <1>10. /\ \A p \in HeapPages : In(table, p, i) <=> (In(u, p, i) \/ In(u, p, n))
         /\ \A p \in HeapPages : ~(In(u, p, i) /\ In(u, p, n))
    <2>1. u[i] = c[i] /\ u[n] = rest
      BY <1>7
    <2>2. table[i].end_address = table[i].str_address + table[i].pages
      BY DEF Sound
    <2>3. QED BY <1>3, <1>4, <1>5, <2>1, <2>2, HeapBounds DEF In
  <1>11. \A p \in HeapPages : \A k \in DOMAIN table :
           k # i => (In(u, p, k) <=> In(table, p, k))
    BY <1>5, <1>7 DEF In
  <1>12. \A p \in HeapPages : \E k \in DOMAIN u : In(u, p, k)
    BY <1>7, <1>10, <1>11 DEF Tiles
  <1>13. \A p \in HeapPages : \A k, l \in DOMAIN u : In(u, p, k) /\ In(u, p, l) => k = l
    <2> SUFFICES ASSUME NEW p \in HeapPages, NEW k \in DOMAIN u, NEW l \in DOMAIN u,
                        In(u, p, k), In(u, p, l)
                 PROVE  k = l
      OBVIOUS
    <2> DEFINE old(x) == IF x = n THEN i ELSE x
    <2>1. /\ old(k) \in DOMAIN table /\ In(table, p, old(k))
          /\ old(l) \in DOMAIN table /\ In(table, p, old(l))
      BY <1>7, <1>10, <1>11
    <2>2. old(k) = old(l)
      BY <2>1 DEF Tiles
    <2>3. QED BY <1>7, <1>10, <2>2
  <1>14. u # << >>
    BY <1>2, <1>7, EmptySeq DEF n
  <1>15. QED BY <1>7, <1>9, <1>12, <1>13, <1>14 DEF Tiles, u, c, rest, Split

\* The pages of one entry given to another, and the first one removed.
LEMMA AbsorbTiles ==
    ASSUME NEW table, Tiles(table), NEW index \in DOMAIN table, Sound(table[index]),
           NEW i \in DOMAIN table, i = index => table[i].pages = 0,
           NEW u \in Seq(Rec), DOMAIN u = DOMAIN table, Gone(u[index]),
           \A k \in DOMAIN table : k # i /\ k # index => u[k] = table[k],
           i # index => Sound(u[i]),
           i # index => \A p \in HeapPages :
                          In(u, p, i) <=> (In(table, p, i) \/ In(table, p, index))
    PROVE  Tiles(u)
  <1>1. \A k \in DOMAIN u : Gone(u[k]) \/ Sound(u[k])
    BY DEF Tiles
  <1>2. \A p \in HeapPages : ~In(u, p, index)
    BY HeapBounds DEF In, Gone
  <1>3. \A p \in HeapPages : \A k \in DOMAIN table :
          k # i /\ k # index => (In(u, p, k) <=> In(table, p, k))
    BY DEF In
  <1>4. i = index => \A p \in HeapPages : ~In(table, p, index)
    <2> SUFFICES ASSUME i = index, NEW p \in HeapPages, In(table, p, index) PROVE FALSE
      OBVIOUS
    <2>1. table[index] \in Rec
      BY TableShape DEF Tiles
    <2>2. table[index].end_address = table[index].str_address
      BY <2>1 DEF Sound, Rec
    <2>3. QED BY <2>1, <2>2, HeapBounds DEF In, Rec
  <1>5. \A p \in HeapPages : \E k \in DOMAIN u : In(u, p, k)
    <2> TAKE p \in HeapPages
    <2>1. PICK k \in DOMAIN table : In(table, p, k)
      BY DEF Tiles
    <2>2. CASE k # i /\ k # index
      BY <1>3, <2>1, <2>2
    <2>3. CASE k = i \/ k = index
      BY <1>4, <2>1, <2>3
    <2>4. QED BY <2>2, <2>3
  <1>6. \A p \in HeapPages : \A k, l \in DOMAIN u : In(u, p, k) /\ In(u, p, l) => k = l
    <2> SUFFICES ASSUME NEW p \in HeapPages, NEW k \in DOMAIN u, NEW l \in DOMAIN u,
                        In(u, p, k), In(u, p, l), k # l
                 PROVE  FALSE
      OBVIOUS
    <2>1. k # index /\ l # index
      BY <1>2
    <2>2. CASE k # i /\ l # i
      BY <1>3, <2>1, <2>2 DEF Tiles
    <2>3. CASE k = i
      BY <1>3, <2>1, <2>3 DEF Tiles
    <2>4. CASE l = i
      BY <1>3, <2>1, <2>4 DEF Tiles
    <2>5. QED BY <2>2, <2>3, <2>4
  <1>7. QED BY <1>1, <1>5, <1>6 DEF Tiles

\* The entry free writes over one that it merged.
LEMMA RemovedGone == Gone(Removed) /\ Removed \in Rec
  BY DEF Gone, Removed, info, Rec

\* The hole in front of the block takes its pages.
LEMMA MergeLeftTiles ==
    ASSUME NEW table, Tiles(table), NEW index \in DOMAIN table, Sound(table[index])
    PROVE  \/ MergeLeft(table, index) = table
           \/ /\ Tiles(MergeLeft(table, index))
              /\ DOMAIN MergeLeft(table, index) = DOMAIN table
              /\ Gone(MergeLeft(table, index)[index])
  <1> DEFINE b == table[index]
             places == {k \in DOMAIN table : /\ table[k].isFree
                                             /\ table[k].end_address = b.str_address}
             i == First(places)
             u == [table EXCEPT ![i].end_address = b.end_address,
                                ![i].pages = @ + b.pages,
                                ![index] = Removed]
  <1>1. table \in Seq(Rec)
    BY DEF Tiles
  <1>2. /\ DOMAIN table = 1 .. Len(table) /\ Len(table) \in Nat
        /\ DOMAIN table \subseteq Nat
        /\ \A k \in DOMAIN table : table[k] \in Rec
    BY <1>1, TableShape
  <1>3. MergeLeft(table, index) = IF i = 0 THEN table ELSE u
    BY DEF MergeLeft
  <1>4. IF places = {} THEN i = 0 ELSE i \in places
    BY <1>2, FirstIsPlace
  <1> HIDE DEF i
  <1>5. CASE i = 0
    BY <1>3, <1>5
  <1>6. CASE i # 0
    <2>1. i \in DOMAIN table /\ table[i].isFree /\ table[i].end_address = b.str_address
      BY <1>4, <1>6
    <2> HIDE DEF places
    <2>2. /\ DOMAIN u = DOMAIN table /\ u[index] = Removed
          /\ u = [k \in DOMAIN table |-> u[k]]
          /\ \A k \in DOMAIN table : k # i /\ k # index => u[k] = table[k]
      BY <1>2, <2>1
    <2>3. i # index => u[i] = [[table[i] EXCEPT !.end_address = b.end_address]
                                 EXCEPT !.pages = table[i].pages + b.pages]
      BY <1>2, <2>1
    <2> HIDE DEF u
    <2>4. /\ table[i].str_address \in Int /\ table[i].end_address \in Int
          /\ table[i].pages \in Int /\ table[i] \in Rec
          /\ b.str_address \in Int /\ b.end_address \in Int /\ b.pages \in Int
      BY <1>2, <2>1 DEF Rec
    <2>5. /\ Sound(table[i])
      BY <2>1 DEF Tiles, Gone
    <2>6. i # index => /\ u[i] \in Rec /\ u[i].str_address = table[i].str_address
                       /\ u[i].end_address = b.end_address
                       /\ u[i].pages = table[i].pages + b.pages
      <3> SUFFICES ASSUME i # index
                   PROVE  /\ u[i] \in Rec /\ u[i].str_address = table[i].str_address
                          /\ u[i].end_address = b.end_address
                          /\ u[i].pages = table[i].pages + b.pages
        OBVIOUS
      <3>1. b.end_address \in Int /\ table[i].pages + b.pages \in Int
        BY <2>4
      <3> DEFINE d == [table[i] EXCEPT !.end_address = b.end_address]
      <3>2. d \in Rec /\ d.str_address = table[i].str_address /\ d.end_address = b.end_address
        BY <2>4, <3>1 DEF Rec
      <3>3. u[i] = [d EXCEPT !.pages = table[i].pages + b.pages]
        BY <2>3
      <3> HIDE DEF d, b
      <3>4. /\ u[i] \in Rec /\ u[i].str_address = d.str_address
            /\ u[i].end_address = d.end_address /\ u[i].pages = table[i].pages + b.pages
        BY <3>1, <3>2, <3>3 DEF Rec
      <3>5. QED BY <3>2, <3>4
    <2>7. u \in Seq(Rec)
      <3>1. \A k \in DOMAIN table : u[k] \in Rec
        BY <1>2, <2>2, <2>6, RemovedGone
      <3>2. u \in [1 .. Len(table) -> Rec]
        BY <1>2, <2>2, <3>1
      <3>3. QED BY <1>2, <3>2, SeqDef
    <2>8. /\ b.pages >= 0 /\ b.end_address = b.str_address + b.pages
          /\ USER_HEAP_START <= b.str_address /\ b.end_address <= USER_HEAP_MAX
          /\ table[i].pages >= 0
          /\ table[i].end_address = table[i].str_address + table[i].pages
          /\ USER_HEAP_START <= table[i].str_address
          /\ table[i].end_address <= USER_HEAP_MAX
      BY <2>5 DEF Sound
    <2>9. i = index => table[i].pages = 0
      BY <2>1, <2>4, <2>8
    <2>10. i # index => Sound(u[i])
      BY <2>1, <2>4, <2>6, <2>8, HeapBounds DEF Sound
    <2>11. i # index => \A p \in HeapPages :
                          In(u, p, i) <=> (In(table, p, i) \/ In(table, p, index))
      <3> SUFFICES ASSUME i # index, NEW p \in HeapPages
                   PROVE  In(u, p, i) <=> (In(table, p, i) \/ In(table, p, index))
        OBVIOUS
      <3>1. p \in Int
        BY HeapBounds
      <3>2. In(table, p, index) <=> b.str_address <= p /\ p < b.end_address
        BY DEF In
      <3> HIDE DEF b
      <3>3. QED BY <2>1, <2>4, <2>6, <2>8, <3>1, <3>2 DEF In
    <2>12. Gone(u[index])
      BY <2>2, RemovedGone
    <2>13. Tiles(u)
      BY <2>1, <2>2, <2>7, <2>9, <2>10, <2>11, <2>12, AbsorbTiles
    <2>14. QED BY <1>3, <1>6, <2>2, <2>12, <2>13
  <1>7. QED BY <1>5, <1>6

\* The hole behind the block takes its pages.
LEMMA MergeRightTiles ==
    ASSUME NEW table, Tiles(table), NEW index \in DOMAIN table, Sound(table[index])
    PROVE  \/ MergeRight(table, index) = table
           \/ /\ Tiles(MergeRight(table, index))
              /\ DOMAIN MergeRight(table, index) = DOMAIN table
              /\ Gone(MergeRight(table, index)[index])
  <1> DEFINE b == table[index]
             places == {k \in DOMAIN table : /\ table[k].isFree
                                             /\ table[k].str_address = b.end_address}
             i == First(places)
             u == [table EXCEPT ![i].str_address = b.str_address,
                                ![i].pages = @ + b.pages,
                                ![index] = Removed]
  <1>1. table \in Seq(Rec)
    BY DEF Tiles
  <1>2. /\ DOMAIN table = 1 .. Len(table) /\ Len(table) \in Nat
        /\ DOMAIN table \subseteq Nat
        /\ \A k \in DOMAIN table : table[k] \in Rec
    BY <1>1, TableShape
  <1>3. MergeRight(table, index) = IF i = 0 THEN table ELSE u
    BY DEF MergeRight
  <1>4. IF places = {} THEN i = 0 ELSE i \in places
    BY <1>2, FirstIsPlace
  <1> HIDE DEF i
  <1>5. CASE i = 0
    BY <1>3, <1>5
  <1>6. CASE i # 0
    <2>1. i \in DOMAIN table /\ table[i].isFree /\ table[i].str_address = b.end_address
      BY <1>4, <1>6
    <2> HIDE DEF places
    <2>2. /\ DOMAIN u = DOMAIN table /\ u[index] = Removed
          /\ u = [k \in DOMAIN table |-> u[k]]
          /\ \A k \in DOMAIN table : k # i /\ k # index => u[k] = table[k]
      BY <1>2, <2>1
    <2>3. i # index => u[i] = [[table[i] EXCEPT !.str_address = b.str_address]
                                 EXCEPT !.pages = table[i].pages + b.pages]
      BY <1>2, <2>1
    <2> HIDE DEF u
    <2>4. /\ table[i].str_address \in Int /\ table[i].end_address \in Int
          /\ table[i].pages \in Int /\ table[i] \in Rec
          /\ b.str_address \in Int /\ b.end_address \in Int /\ b.pages \in Int
      BY <1>2, <2>1 DEF Rec
    <2>5. /\ Sound(table[i])
      BY <2>1 DEF Tiles, Gone
    <2>6. i # index => /\ u[i] \in Rec /\ u[i].end_address = table[i].end_address
                       /\ u[i].str_address = b.str_address
                       /\ u[i].pages = table[i].pages + b.pages
      <3> SUFFICES ASSUME i # index
                   PROVE  /\ u[i] \in Rec /\ u[i].end_address = table[i].end_address
                          /\ u[i].str_address = b.str_address
                          /\ u[i].pages = table[i].pages + b.pages
        OBVIOUS
      <3>1. b.str_address \in Int /\ table[i].pages + b.pages \in Int
        BY <2>4
      <3> DEFINE d == [table[i] EXCEPT !.str_address = b.str_address]
      <3>2. d \in Rec /\ d.end_address = table[i].end_address /\ d.str_address = b.str_address
        BY <2>4, <3>1 DEF Rec
      <3>3. u[i] = [d EXCEPT !.pages = table[i].pages + b.pages]
        BY <2>3
      <3> HIDE DEF d, b
      <3>4. /\ u[i] \in Rec /\ u[i].end_address = d.end_address
            /\ u[i].str_address = d.str_address /\ u[i].pages = table[i].pages + b.pages
        BY <3>1, <3>2, <3>3 DEF Rec
      <3>5. QED BY <3>2, <3>4
    <2>7. u \in Seq(Rec)
      <3>1. \A k \in DOMAIN table : u[k] \in Rec
        BY <1>2, <2>2, <2>6, RemovedGone
      <3>2. u \in [1 .. Len(table) -> Rec]
        BY <1>2, <2>2, <3>1
      <3>3. QED BY <1>2, <3>2, SeqDef
    <2>8. /\ b.pages >= 0 /\ b.end_address = b.str_address + b.pages
          /\ USER_HEAP_START <= b.str_address /\ b.end_address <= USER_HEAP_MAX
          /\ table[i].pages >= 0
          /\ table[i].end_address = table[i].str_address + table[i].pages
          /\ USER_HEAP_START <= table[i].str_address
          /\ table[i].end_address <= USER_HEAP_MAX
      BY <2>5 DEF Sound
    <2>9. i = index => table[i].pages = 0
      BY <2>1, <2>4, <2>8
    <2>10. i # index => Sound(u[i])
      BY <2>1, <2>4, <2>6, <2>8, HeapBounds DEF Sound
    <2>11. i # index => \A p \in HeapPages :
                          In(u, p, i) <=> (In(table, p, i) \/ In(table, p, index))
      <3> SUFFICES ASSUME i # index, NEW p \in HeapPages
                   PROVE  In(u, p, i) <=> (In(table, p, i) \/ In(table, p, index))
        OBVIOUS
      <3>1. p \in Int
        BY HeapBounds
      <3>2. In(table, p, index) <=> b.str_address <= p /\ p < b.end_address
        BY DEF In
      <3> HIDE DEF b
      <3>3. QED BY <2>1, <2>4, <2>6, <2>8, <3>1, <3>2 DEF In
    <2>12. Gone(u[index])
      BY <2>2, RemovedGone
    <2>13. Tiles(u)
      BY <2>1, <2>2, <2>7, <2>9, <2>10, <2>11, <2>12, AbsorbTiles
    <2>14. QED BY <1>3, <1>6, <2>2, <2>12, <2>13
  <1>7. QED BY <1>5, <1>6

\* With no hole beside it the block becomes a hole of its own.  Of the two loops
\* one at most merges: the first one leaves nothing for the second one to find.
LEMMA MergedTiles ==
    ASSUME NEW table, Tiles(table), NEW index \in DOMAIN table, Sound(table[index])
    PROVE  Tiles(Merged(table, index))
  <1> DEFINE left == MergeLeft(table, index)
             both == MergeRight(left, index)
  <1>1. Merged(table, index) =
          IF both = table THEN [table EXCEPT ![index].isFree = TRUE] ELSE both
    BY DEF Merged
  <1>2. \/ left = table
        \/ Tiles(left) /\ DOMAIN left = DOMAIN table /\ Gone(left[index])
    BY MergeLeftTiles
  <1>3. Tiles(both)
    <2>1. CASE left = table
      <3>1. \/ both = left
            \/ Tiles(both)
        BY <2>1, MergeRightTiles
      <3>2. QED BY <2>1, <3>1
    <2>2. CASE Tiles(left) /\ DOMAIN left = DOMAIN table /\ Gone(left[index])
      <3> DEFINE places == {k \in DOMAIN left : /\ left[k].isFree
                                               /\ left[k].str_address = left[index].end_address}
      <3> HIDE DEF left
      <3>1. ASSUME NEW k \in DOMAIN left, left[k].isFree,
                   left[k].str_address = left[index].end_address
            PROVE  FALSE
        <4>1. left[index].end_address = 0
          BY <2>2 DEF Gone
        <4>2. Sound(left[k])
          BY <2>2, <3>1 DEF Tiles, Gone
        <4>3. QED BY <3>1, <4>1, <4>2, HeapBounds DEF Sound
      <3>2. places = {}
        BY <3>1
      <3>3. First(places) = 0
        BY <3>2 DEF First
      <3>4. both = left
        BY <3>3 DEF MergeRight
      <3>5. QED BY <2>2, <3>4
    <2>3. QED BY <1>2, <2>1, <2>2
  <1> HIDE DEF both, left
  <1>4. Tiles([table EXCEPT ![index].isFree = TRUE])
    BY MarkTiles
  <1>5. QED BY <1>1, <1>3, <1>4

\* malloc asks for a number of pages, whatever the rounding does.
LEMMA RequestNat == ASSUME NEW size \in Sizes PROVE ReqPages(size) \in Nat
  <1> DEFINE sum == (size + PAGE_SIZE - 1) % WordSize
  <1>1. size \in Nat /\ PAGE_SIZE \in Nat \ {0} /\ WordSize \in Nat \ {0}
    BY HeapAssumption
  <1>2. sum \in Nat
    BY <1>1
  <1> HIDE DEF sum
  <1>3. sum % PAGE_SIZE \in Nat /\ sum % PAGE_SIZE <= sum
    BY <1>1, <1>2
  <1>4. sum - (sum % PAGE_SIZE) \in Nat
    BY <1>1, <1>2, <1>3
  <1>5. ReqPages(size) = (sum - (sum % PAGE_SIZE)) \div PAGE_SIZE
    BY DEF ReqPages, ROUNDUP, sum
  <1>6. QED BY <1>1, <1>4, <1>5

\* The table that malloc works on.
LEMMA TableTiles == ASSUME HInv PROVE Tiles(Table)
  BY WholeHeapTiles DEF HInv, Table

\* malloc keeps the tiling.
LEMMA MallocHInv ==
    ASSUME HInv, NEW size \in Sizes, malloc(size)
    PROVE  HInv'
  <1> DEFINE table == Table
             req == ReqPages(size)
             i == BestFit(table, req)
  <1>1. Tiles(table) /\ req \in Nat
    BY TableTiles, RequestNat
  <1>2. CASE MallocFails
    BY <1>1, <1>2 DEF MallocFails, HInv
  <1>3. CASE Fits(table, req) # {} /\ MallocOverflows(size, i)
    BY <1>3 DEF MallocOverflows, HInv
  <1>4. CASE Fits(table, req) # {} /\ MallocFits(size, i)
    <2>1. i \in Fits(table, req)
      BY <1>1, <1>4, BestFitFits DEF Tiles
    <2>2. \/ req = table[i].pages /\ spaces' = [table EXCEPT ![i].isFree = FALSE]
          \/ spaces' = Split(table, i, req)
      BY <1>4 DEF MallocFits
    <2> HIDE DEF table, req, i
    <2>3. i \in DOMAIN table /\ table[i].pages >= req
      BY <2>1 DEF Fits
    <2>4. Sound(table[i])
      BY <1>1, <2>3 DEF Tiles, Gone
    <2>5. CASE spaces' = [table EXCEPT ![i].isFree = FALSE]
      <3>1. Tiles([table EXCEPT ![i].isFree = FALSE])
        BY <1>1, <2>3, <2>4, MarkTiles
      <3>2. QED BY <2>5, <3>1 DEF HInv
    <2>6. CASE spaces' = Split(table, i, req)
      <3>1. table[i].pages \in Int
        BY <1>1, <2>3, TableShape DEF Tiles, Rec
      <3>2. req <= table[i].pages
        BY <1>1, <2>3, <3>1
      <3>3. Tiles(Split(table, i, req))
        BY <1>1, <2>3, <2>4, <3>2, SplitTiles
      <3>4. QED BY <2>6, <3>3 DEF HInv
    <2>7. QED BY <2>2, <2>5, <2>6
  <1>5. QED BY <1>2, <1>3, <1>4 DEF malloc

\* free keeps the tiling.
LEMMA FreeHInv ==
    ASSUME HInv, NEW va, free(va)
    PROVE  HInv'
  <1> DEFINE places == {k \in DOMAIN spaces : spaces[k].str_address = va}
             index == First(places)
  <1>1. \/ spaces' = spaces
        \/ /\ index # 0 /\ spaces[index].pages # -1
           /\ spaces' = Merged(spaces, index)
    BY DEF free
  <1>2. CASE spaces' = spaces
    BY <1>2 DEF HInv
  <1>3. CASE index # 0 /\ spaces[index].pages # -1 /\ spaces' = Merged(spaces, index)
    <2>1. spaces # << >>
      <3>1. CASE spaces = << >>
        <4>1. places = {}
          BY <3>1
        <4>2. index = 0
          BY <4>1 DEF First
        <4>3. QED BY <1>3, <4>2
      <3>2. QED BY <3>1
    <2>2. Tiles(spaces)
      BY <2>1 DEF HInv
    <2>3. DOMAIN spaces \subseteq Nat
      BY <2>2, TableShape DEF Tiles
    <2>4. index \in DOMAIN spaces
      <3>1. places \subseteq Nat
        BY <2>3
      <3>2. IF places = {} THEN index = 0 ELSE index \in places
        BY <3>1, FirstIsPlace
      <3>3. QED BY <1>3, <3>2
    <2> HIDE DEF index
    <2>5. Sound(spaces[index])
      BY <1>3, <2>2, <2>4 DEF Tiles, Gone
    <2>6. Tiles(Merged(spaces, index))
      BY <2>2, <2>4, <2>5, MergedTiles
    <2>7. QED BY <1>3, <2>6 DEF HInv
  <1>4. QED BY <1>1, <1>2, <1>3

\* The pointwise invariant gives the property the run checks.
LEMMA HInvHeapTiled == HInv => HeapTiled
  <1> SUFFICES ASSUME HInv PROVE HeapTiled
    OBVIOUS
  <1>1. CASE spaces = << >>
    BY <1>1 DEF HeapTiled, InUse
  <1>2. CASE Tiles(spaces)
    <2>1. \A k \in DOMAIN spaces : spaces[k] \in Rec
      BY <1>2, TableShape DEF Tiles
    <2>2. \A k \in InUse : k \in DOMAIN spaces /\ Sound(spaces[k])
      BY <1>2 DEF Tiles, InUse, Gone
    <2>3. ASSUME NEW k \in InUse, NEW p
          PROVE  p \in EntryPages(k) <=> (p \in HeapPages /\ In(spaces, p, k))
      <3>1. Sound(spaces[k]) /\ spaces[k] \in Rec
        BY <2>1, <2>2
      <3>2. /\ spaces[k].str_address \in Int /\ spaces[k].end_address \in Int
            /\ USER_HEAP_START <= spaces[k].str_address
            /\ spaces[k].end_address <= USER_HEAP_MAX
        BY <3>1 DEF Sound, Rec
      <3>3. QED BY <3>2, HeapBounds DEF EntryPages, HeapPages, In
    <2>4. \A k \in InUse : spaces[k].end_address = spaces[k].str_address + spaces[k].pages
      BY <2>2 DEF Sound
    <2>5. \A k, l \in InUse : k # l => EntryPages(k) \cap EntryPages(l) = {}
      BY <1>2, <2>2, <2>3 DEF Tiles
    <2>6. \A p \in HeapPages : \E k \in InUse : p \in EntryPages(k)
      <3> TAKE p \in HeapPages
      <3>1. PICK k \in DOMAIN spaces : In(spaces, p, k)
        BY <1>2 DEF Tiles
      <3>2. ~Gone(spaces[k])
        BY <3>1, HeapBounds DEF In, Gone
      <3>3. Sound(spaces[k])
        BY <1>2, <3>2 DEF Tiles
      <3>4. k \in InUse
        BY <2>1, <3>3 DEF InUse, Sound, Rec
      <3>5. QED BY <2>3, <3>1, <3>4
    <2>7. UNION {EntryPages(k) : k \in InUse} = HeapPages
      BY <2>3, <2>6
    <2>8. QED BY <2>4, <2>5, <2>7 DEF HeapTiled
  <1>3. QED BY <1>1, <1>2 DEF HInv

\* Whatever a program asks of malloc and gives to free, the entries of spaces[]
\* tile the heap: no two blocks overlap and no page is lost.
THEOREM HeapTiledCorrect == Spec => []HeapTiled
  <1>1. Init => HInv
    BY DEF Init, HInv
  <1>2. ASSUME HInv, [Next]_vars PROVE HInv'
    <2>1. CASE \E size \in Sizes : malloc(size)
      BY <1>2, <2>1, MallocHInv
    <2>2. CASE \E b \in live : FreeBlock(b)
      BY <1>2, <2>2, FreeHInv DEF FreeBlock
    <2>3. CASE \E va \in Strays : FreeStray(va)
      BY <1>2, <2>3, FreeHInv DEF FreeStray
    <2>4. CASE UNCHANGED vars
      BY <1>2, <2>4 DEF vars, HInv
    <2>5. QED BY <1>2, <2>1, <2>2, <2>3, <2>4 DEF Next
  <1>3. HInv => HeapTiled
    BY HInvHeapTiled
  <1>4. QED BY <1>1, <1>2, <1>3, PTL DEF Spec

-----------------------------------------------------------------------------
(***************************************************************************)
(* The program's blocks.  As long as every request rounds to a page at     *)
(* least, the entries in use are the blocks the program has, one entry for *)
(* each, and the page file has their pages and no other.                   *)
(***************************************************************************)
RequestsHavePages == \A size \in Sizes : ReqPages(size) >= 1

Busy(e) == e.pages # -1 /\ ~e.isFree

\* No entry is empty.
Big(table) == \A k \in DOMAIN table : table[k].pages = -1 \/ table[k].pages >= 1

Holds(e, b) == Busy(e) /\ e.str_address = b.va /\ e.pages = b.pages

\* The entries in use are the blocks of a set.
Has(table, blocks) ==
    /\ \A b \in blocks : \E k \in DOMAIN table : Holds(table[k], b)
    /\ \A k \in DOMAIN table : Busy(table[k]) => \E b \in blocks : Holds(table[k], b)
    /\ \A b, c \in blocks : b.va = c.va => b = c

PagesOf(blocks) == UNION {PagesAt(b.va, b.pages) : b \in blocks}

BlocksAgree == /\ Big(spaces) /\ Has(spaces, live)
               /\ page_file = PagesOf(live)

BInv == HInv /\ (running => BlocksAgree)

\* An entry that is not removed is a range of pages of the heap.
LEMMA EntryFacts ==
    ASSUME NEW table, Tiles(table), Big(table),
           NEW k \in DOMAIN table, table[k].pages # -1
    PROVE  /\ Sound(table[k]) /\ table[k].pages >= 1
           /\ table[k].str_address \in HeapPages /\ table[k].pages \in Nat
           /\ In(table, table[k].str_address, k)
           /\ \A p : p \in PagesAt(table[k].str_address, table[k].pages)
                       <=> p \in HeapPages /\ In(table, p, k)
  <1> DEFINE e == table[k]
  <1>1. /\ e.str_address \in Int /\ e.end_address \in Int /\ e.pages \in Int
    BY TableShape DEF Tiles, Rec
  <1>2. Sound(e) /\ e.pages >= 1
    BY DEF Tiles, Gone, Big
  <1>3. /\ e.end_address = e.str_address + e.pages
        /\ USER_HEAP_START <= e.str_address /\ e.end_address <= USER_HEAP_MAX
    BY <1>2 DEF Sound
  <1>4. \A p : In(table, p, k) <=> e.str_address <= p /\ p < e.end_address
    BY DEF In
  <1> HIDE DEF e
  <1>5. e.str_address \in HeapPages /\ e.pages \in Nat
    BY <1>1, <1>2, <1>3, HeapBounds DEF HeapPages
  <1>6. In(table, e.str_address, k)
    BY <1>1, <1>2, <1>3, <1>4
  <1>7. ASSUME NEW p
        PROVE  p \in PagesAt(e.str_address, e.pages) <=> p \in HeapPages /\ In(table, p, k)
    BY <1>1, <1>3, <1>4, HeapBounds DEF PagesAt, HeapPages
  <1>8. QED BY <1>2, <1>5, <1>6, <1>7 DEF e

\* Two entries do not begin at the same page, and share none.
LEMMA EntriesApart ==
    ASSUME NEW table, Tiles(table), Big(table),
           NEW k \in DOMAIN table, table[k].pages # -1,
           NEW l \in DOMAIN table, table[l].pages # -1, k # l
    PROVE  /\ table[k].str_address # table[l].str_address
           /\ PagesAt(table[k].str_address, table[k].pages)
                \cap PagesAt(table[l].str_address, table[l].pages) = {}
  <1>1. \A p \in HeapPages : ~(In(table, p, k) /\ In(table, p, l))
    BY DEF Tiles
  <1>2. /\ table[k].str_address \in HeapPages
        /\ In(table, table[k].str_address, k)
        /\ \A p : p \in PagesAt(table[k].str_address, table[k].pages)
                    => p \in HeapPages /\ In(table, p, k)
    BY EntryFacts
  <1>3. /\ In(table, table[l].str_address, l)
        /\ \A p : p \in PagesAt(table[l].str_address, table[l].pages)
                    => p \in HeapPages /\ In(table, p, l)
    BY EntryFacts
  <1>4. QED BY <1>1, <1>2, <1>3

\* The pages of an entry in use are pages of a block, and those of a hole of
\* none.
LEMMA HolePages ==
    ASSUME NEW table, Tiles(table), Big(table), NEW blocks, Has(table, blocks),
           NEW i \in DOMAIN table, table[i].pages # -1, table[i].isFree
    PROVE  /\ \A b \in blocks : b.va # table[i].str_address
           /\ PagesAt(table[i].str_address, table[i].pages) \cap PagesOf(blocks) = {}
  <1>1. ASSUME NEW b \in blocks
        PROVE  /\ b.va # table[i].str_address
               /\ PagesAt(table[i].str_address, table[i].pages)
                    \cap PagesAt(b.va, b.pages) = {}
    <2>1. PICK k \in DOMAIN table : Holds(table[k], b)
      BY DEF Has
    <2>2. /\ table[k].pages # -1 /\ k # i
          /\ table[k].str_address = b.va /\ table[k].pages = b.pages
      BY <2>1 DEF Holds, Busy
    <2>3. QED BY <2>2, EntriesApart
  <1>2. QED BY <1>1 DEF PagesOf

\* What malloc does to the table when the request fits hole i, whether it
\* fills the hole or splits it.
Taken(table, u, i, req) ==
    /\ DOMAIN table \subseteq DOMAIN u
    /\ \A k \in DOMAIN table : k # i => u[k] = table[k]
    /\ u[i].str_address = table[i].str_address
    /\ u[i].pages = req /\ u[i].isFree = FALSE
    /\ \A k \in DOMAIN u : k \in DOMAIN table \/ (u[k].isFree /\ u[k].pages >= 1)

\* A hole that is taken as a whole.
LEMMA FillTaken ==
    ASSUME NEW table \in Seq(Rec), NEW i \in DOMAIN table
    PROVE  Taken(table, [table EXCEPT ![i].isFree = FALSE], i, table[i].pages)
  <1> DEFINE u == [table EXCEPT ![i].isFree = FALSE]
  <1>1. table[i] \in Rec
    BY TableShape
  <1>2. /\ DOMAIN u = DOMAIN table
        /\ \A k \in DOMAIN table : k # i => u[k] = table[k]
        /\ u[i] = [table[i] EXCEPT !.isFree = FALSE]
    OBVIOUS
  <1> HIDE DEF u
  <1>3. /\ u[i].str_address = table[i].str_address
        /\ u[i].pages = table[i].pages /\ u[i].isFree = FALSE
    BY <1>1, <1>2 DEF Rec
  <1>4. QED BY <1>2, <1>3 DEF Taken, u

\* A hole of which the first part is taken.
LEMMA SplitTaken ==
    ASSUME NEW table \in Seq(Rec), NEW i \in DOMAIN table,
           NEW req \in Nat, table[i].pages >= req, req # table[i].pages
    PROVE  Taken(table, Split(table, i, req), i, req)
  <1> DEFINE rest == info(table[i].str_address + req, table[i].end_address,
                          table[i].pages - req, TRUE)
             c == [table EXCEPT ![i].end_address = table[i].str_address + req,
                                ![i].pages = req, ![i].isFree = FALSE]
             u == Append(c, rest)
  <1>1. /\ table[i] \in Rec /\ DOMAIN table = 1 .. Len(table) /\ Len(table) \in Nat
        /\ \A k \in DOMAIN table : table[k] \in Rec
        /\ table[i].str_address \in Int /\ table[i].end_address \in Int
        /\ table[i].pages \in Int
    BY TableShape DEF Rec
  <1>2. rest.isFree = TRUE /\ rest.pages >= 1 /\ rest \in Rec
    BY <1>1 DEF info, Rec
  <1>3. /\ DOMAIN c = DOMAIN table
        /\ \A k \in DOMAIN table : k # i => c[k] = table[k]
        /\ c[i] = [[[table[i] EXCEPT !.end_address = table[i].str_address + req]
                     EXCEPT !.pages = req] EXCEPT !.isFree = FALSE]
        /\ c = [k \in DOMAIN table |-> c[k]]
    OBVIOUS
  <1>4. /\ c[i] \in Rec /\ c[i].str_address = table[i].str_address
        /\ c[i].pages = req /\ c[i].isFree = FALSE
    <2> DEFINE d == [table[i] EXCEPT !.end_address = table[i].str_address + req]
               f == [d EXCEPT !.pages = req]
               g == [f EXCEPT !.isFree = FALSE]
    <2>0. /\ table[i] \in Rec /\ table[i].str_address + req \in Int
          /\ req \in Int
      BY <1>1
    <2>1. d \in Rec /\ d.str_address = table[i].str_address
      BY ONLY <2>0 DEF Rec
    <2>2. c[i] = g
      BY <1>3
    <2> HIDE DEF c, d
    <2>3. f \in Rec /\ f.str_address = d.str_address /\ f.pages = req
      BY ONLY <2>0, <2>1 DEF Rec
    <2> HIDE DEF f
    <2>4. /\ g \in Rec /\ g.str_address = f.str_address /\ g.pages = f.pages
          /\ g.isFree = FALSE
      BY <2>3 DEF Rec
    <2> HIDE DEF g
    <2>5. QED BY <2>1, <2>2, <2>3, <2>4
  <1> HIDE DEF c, rest
  <1>5. c \in Seq(Rec) /\ Len(c) = Len(table)
    <2>1. \A k \in DOMAIN table : c[k] \in Rec
      BY <1>1, <1>3, <1>4
    <2>2. c \in [1 .. Len(table) -> Rec]
      BY <1>1, <1>3, <2>1
    <2>3. c \in Seq(Rec)
      BY <1>1, <2>2, SeqDef
    <2>4. QED BY <1>1, <1>3, <2>3, LenProperties
  <1>6. /\ u \in Seq(Rec) /\ Len(u) = Len(table) + 1 /\ u[Len(table) + 1] = rest
        /\ \A k \in DOMAIN table : u[k] = c[k]
        /\ DOMAIN u = 1 .. Len(table) + 1
    <2>1. /\ u \in Seq(Rec) /\ Len(u) = Len(c) + 1
          /\ \A k \in 1 .. Len(c) : u[k] = c[k]
          /\ u[Len(c) + 1] = rest
      BY <1>2, <1>5, AppendProperties
    <2>2. DOMAIN u = 1 .. Len(u)
      BY <2>1, LenProperties
    <2>3. QED BY <1>1, <1>5, <2>1, <2>2
  <1> HIDE DEF u
  <1>7. DOMAIN table \subseteq DOMAIN u
    BY <1>1, <1>6
  <1>8. \A k \in DOMAIN u : k \in DOMAIN table \/ k = Len(table) + 1
    BY <1>1, <1>6
  <1>9. Taken(table, u, i, req)
    <2>1. \A k \in DOMAIN table : k # i => u[k] = table[k]
      BY <1>3, <1>6
    <2>2. /\ u[i].str_address = table[i].str_address
          /\ u[i].pages = req /\ u[i].isFree = FALSE
      BY <1>4, <1>6
    <2>3. \A k \in DOMAIN u : k \in DOMAIN table \/ (u[k].isFree /\ u[k].pages >= 1)
      BY <1>2, <1>6, <1>8
    <2>4. QED BY <1>7, <2>1, <2>2, <2>3 DEF Taken
  <1>10. u = Split(table, i, req)
    BY DEF Split, u, c, rest
  <1>11. QED BY <1>9, <1>10

\* The program has the block it asked for, and still all the others.
LEMMA TakenHas ==
    ASSUME NEW table, Tiles(table), Big(table), NEW blocks, Has(table, blocks),
           NEW i \in DOMAIN table, table[i].pages # -1, table[i].isFree,
           NEW req \in Nat, req >= 1, NEW u, Taken(table, u, i, req),
           NEW b, b.va = table[i].str_address, b.pages = req
    PROVE  Big(u) /\ Has(u, blocks \cup {b})
  <1>1. Big(u)
    BY DEF Taken, Big
  <1>2. Holds(u[i], b) /\ i \in DOMAIN u
    BY DEF Taken, Holds, Busy
  <1>3. \A k \in DOMAIN u : Busy(u[k]) => k = i \/ (k \in DOMAIN table /\ u[k] = table[k])
    BY DEF Taken, Busy
  <1>4. \A c \in blocks : c.va # b.va
    BY HolePages
  <1>5. \A c \in blocks \cup {b} : \E k \in DOMAIN u : Holds(u[k], c)
    <2>1. ASSUME NEW c \in blocks PROVE \E k \in DOMAIN u : Holds(u[k], c)
      <3>1. PICK k \in DOMAIN table : Holds(table[k], c)
        BY DEF Has
      <3>2. k # i
        BY <3>1 DEF Holds, Busy
      <3>3. QED BY <3>1, <3>2 DEF Taken
    <2>2. QED BY <1>2, <2>1
  <1>6. \A k \in DOMAIN u : Busy(u[k]) => \E c \in blocks \cup {b} : Holds(u[k], c)
    <2> SUFFICES ASSUME NEW k \in DOMAIN u, Busy(u[k])
                 PROVE  \E c \in blocks \cup {b} : Holds(u[k], c)
      OBVIOUS
    <2>1. CASE k = i
      BY <1>2, <2>1
    <2>2. CASE k \in DOMAIN table /\ u[k] = table[k]
      <3>1. PICK c \in blocks : Holds(table[k], c)
        BY <2>2 DEF Has
      <3>2. QED BY <2>2, <3>1
    <2>3. QED BY <1>3, <2>1, <2>2
  <1>7. \A c, d \in blocks \cup {b} : c.va = d.va => c = d
    BY <1>4 DEF Has
  <1>8. QED BY <1>1, <1>5, <1>6, <1>7 DEF Has

\* What free does to the table: the entry of the block is removed or becomes a
\* hole, and another hole may take its pages.
Kept(table, u, index) ==
    /\ DOMAIN u = DOMAIN table
    /\ \A k \in DOMAIN table :
         k # index => \/ u[k] = table[k]
                      \/ table[k].isFree /\ u[k].isFree /\ u[k].pages >= 1
    /\ ~Busy(u[index])
    /\ u[index].pages = -1 \/ u[index].pages >= 1

\* A block without a hole on either side becomes a hole.
LEMMA MarkKept ==
    ASSUME NEW table, Tiles(table), Big(table),
           NEW index \in DOMAIN table, table[index].pages # -1
    PROVE  Kept(table, [table EXCEPT ![index].isFree = TRUE], index)
  <1> DEFINE u == [table EXCEPT ![index].isFree = TRUE]
  <1>1. table \in Seq(Rec)
    BY DEF Tiles
  <1>2. table[index] \in Rec
    BY <1>1, TableShape
  <1>3. /\ DOMAIN u = DOMAIN table
        /\ \A k \in DOMAIN table : k # index => u[k] = table[k]
        /\ u[index] = [table[index] EXCEPT !.isFree = TRUE]
    BY <1>1
  <1> HIDE DEF u
  <1>4. u[index].pages = table[index].pages /\ u[index].isFree = TRUE
    BY <1>2, <1>3 DEF Rec
  <1>5. u[index].pages >= 1
    BY <1>4 DEF Big
  <1>6. QED BY <1>3, <1>4, <1>5 DEF Kept, Busy, u

\* The hole in front of the block, if there is one, is another entry.
LEMMA MergeLeftKept ==
    ASSUME NEW table, Tiles(table), Big(table),
           NEW index \in DOMAIN table, table[index].pages # -1
    PROVE  \/ MergeLeft(table, index) = table
           \/ Kept(table, MergeLeft(table, index), index)
  <1> DEFINE b == table[index]
             places == {k \in DOMAIN table : /\ table[k].isFree
                                             /\ table[k].end_address = b.str_address}
             i == First(places)
             u == [table EXCEPT ![i].end_address = b.end_address,
                                ![i].pages = @ + b.pages,
                                ![index] = Removed]
  <1>1. table \in Seq(Rec)
    BY DEF Tiles
  <1>2. DOMAIN table \subseteq Nat /\ \A k \in DOMAIN table : table[k] \in Rec
    BY <1>1, TableShape
  <1>3. MergeLeft(table, index) = IF i = 0 THEN table ELSE u
    BY DEF MergeLeft
  <1>4. IF places = {} THEN i = 0 ELSE i \in places
    BY <1>2, FirstIsPlace
  <1> HIDE DEF i
  <1>5. CASE i = 0
    BY <1>3, <1>5
  <1>6. CASE i # 0
    <2>1. i \in DOMAIN table /\ table[i].isFree /\ table[i].end_address = b.str_address
      BY <1>4, <1>6
    <2> HIDE DEF places
    <2>2. table[i].pages # -1
      <3>1. Sound(table[i])
        BY <2>1 DEF Tiles, Gone
      <3>2. table[i].pages \in Int
        BY <1>2, <2>1 DEF Rec
      <3>3. QED BY <3>1, <3>2 DEF Sound
    <2>3. /\ table[i].pages \in Nat /\ table[i].pages >= 1 /\ Sound(table[i])
          /\ b.pages \in Nat /\ b.pages >= 1
      <3>1. table[i].pages \in Nat /\ table[i].pages >= 1 /\ Sound(table[i])
        BY <2>1, <2>2, EntryFacts
      <3>2. table[index].pages \in Nat /\ table[index].pages >= 1
        BY EntryFacts
      <3>3. QED BY <3>1, <3>2
    <2>4. i # index
      <3>1. table[i].str_address \in Int /\ table[i].end_address \in Int
        BY <1>2, <2>1 DEF Rec
      <3>2. table[i].end_address = table[i].str_address + table[i].pages
        BY <2>3 DEF Sound
      <3>3. table[i].str_address # table[i].end_address
        BY <2>3, <3>1, <3>2
      <3>4. QED BY <2>1, <3>3
    <2>5. /\ DOMAIN u = DOMAIN table /\ u[index] = Removed
          /\ \A k \in DOMAIN table : k # i /\ k # index => u[k] = table[k]
          /\ u[i] = [[table[i] EXCEPT !.end_address = b.end_address]
                       EXCEPT !.pages = table[i].pages + b.pages]
      BY <1>1, <2>1, <2>4
    <2> HIDE DEF u
    <2>6. u[i].isFree = table[i].isFree /\ u[i].pages = table[i].pages + b.pages
      <3> DEFINE d == [table[i] EXCEPT !.end_address = b.end_address]
      <3>1. d.isFree = table[i].isFree /\ DOMAIN d = DOMAIN table[i]
            /\ DOMAIN table[i] = {"str_address", "end_address", "pages", "isFree"}
        BY <1>2, <2>1 DEF Rec
      <3>2. u[i] = [d EXCEPT !.pages = table[i].pages + b.pages]
        BY <2>5
      <3> HIDE DEF d, b
      <3>3. QED BY <3>1, <3>2
    <2>7. u[i].isFree /\ u[i].pages >= 1
      BY <2>1, <2>3, <2>6
    <2>8. Removed.pages = -1
      BY DEF Removed, info
    <2>9. Kept(table, u, index)
      BY <2>1, <2>4, <2>5, <2>7, <2>8 DEF Kept, Busy
    <2>10. QED BY <1>3, <1>6, <2>9
  <1>7. QED BY <1>5, <1>6

\* The hole behind the block, if there is one, is another entry.
LEMMA MergeRightKept ==
    ASSUME NEW table, Tiles(table), Big(table),
           NEW index \in DOMAIN table, table[index].pages # -1
    PROVE  \/ MergeRight(table, index) = table
           \/ Kept(table, MergeRight(table, index), index)
  <1> DEFINE b == table[index]
             places == {k \in DOMAIN table : /\ table[k].isFree
                                             /\ table[k].str_address = b.end_address}
             i == First(places)
             u == [table EXCEPT ![i].str_address = b.str_address,
                                ![i].pages = @ + b.pages,
                                ![index] = Removed]
  <1>1. table \in Seq(Rec)
    BY DEF Tiles
  <1>2. DOMAIN table \subseteq Nat /\ \A k \in DOMAIN table : table[k] \in Rec
    BY <1>1, TableShape
  <1>3. MergeRight(table, index) = IF i = 0 THEN table ELSE u
    BY DEF MergeRight
  <1>4. IF places = {} THEN i = 0 ELSE i \in places
    BY <1>2, FirstIsPlace
  <1> HIDE DEF i
  <1>5. CASE i = 0
    BY <1>3, <1>5
  <1>6. CASE i # 0
    <2>1. i \in DOMAIN table /\ table[i].isFree /\ table[i].str_address = b.end_address
      BY <1>4, <1>6
    <2> HIDE DEF places
    <2>2. table[i].pages # -1
      <3>1. Sound(table[i])
        BY <2>1 DEF Tiles, Gone
      <3>2. table[i].pages \in Int
        BY <1>2, <2>1 DEF Rec
      <3>3. QED BY <3>1, <3>2 DEF Sound
    <2>3. /\ table[i].pages \in Nat /\ table[i].pages >= 1 /\ Sound(table[i])
          /\ b.pages \in Nat /\ b.pages >= 1
      <3>1. table[i].pages \in Nat /\ table[i].pages >= 1 /\ Sound(table[i])
        BY <2>1, <2>2, EntryFacts
      <3>2. table[index].pages \in Nat /\ table[index].pages >= 1
        BY EntryFacts
      <3>3. QED BY <3>1, <3>2
    <2>4. i # index
      <3>1. table[i].str_address \in Int /\ table[i].end_address \in Int
        BY <1>2, <2>1 DEF Rec
      <3>2. table[i].end_address = table[i].str_address + table[i].pages
        BY <2>3 DEF Sound
      <3>3. table[i].str_address # table[i].end_address
        BY <2>3, <3>1, <3>2
      <3>4. QED BY <2>1, <3>3
    <2>5. /\ DOMAIN u = DOMAIN table /\ u[index] = Removed
          /\ \A k \in DOMAIN table : k # i /\ k # index => u[k] = table[k]
          /\ u[i] = [[table[i] EXCEPT !.str_address = b.str_address]
                       EXCEPT !.pages = table[i].pages + b.pages]
      BY <1>1, <2>1, <2>4
    <2> HIDE DEF u
    <2>6. u[i].isFree = table[i].isFree /\ u[i].pages = table[i].pages + b.pages
      <3> DEFINE d == [table[i] EXCEPT !.str_address = b.str_address]
      <3>1. d.isFree = table[i].isFree /\ DOMAIN d = DOMAIN table[i]
            /\ DOMAIN table[i] = {"str_address", "end_address", "pages", "isFree"}
        BY <1>2, <2>1 DEF Rec
      <3>2. u[i] = [d EXCEPT !.pages = table[i].pages + b.pages]
        BY <2>5
      <3> HIDE DEF d, b
      <3>3. QED BY <3>1, <3>2
    <2>7. u[i].isFree /\ u[i].pages >= 1
      BY <2>1, <2>3, <2>6
    <2>8. Removed.pages = -1
      BY DEF Removed, info
    <2>9. Kept(table, u, index)
      BY <2>1, <2>4, <2>5, <2>7, <2>8 DEF Kept, Busy
    <2>10. QED BY <1>3, <1>6, <2>9
  <1>7. QED BY <1>5, <1>6

\* The second loop finds no hole behind an entry that the first one removed.
LEMMA RemovedStays ==
    ASSUME NEW table, Tiles(table), NEW index \in DOMAIN table, Gone(table[index])
    PROVE  MergeRight(table, index) = table
  <1> DEFINE places == {k \in DOMAIN table :
                          /\ table[k].isFree
                          /\ table[k].str_address = table[index].end_address}
  <1>1. ASSUME NEW k \in DOMAIN table, table[k].isFree,
               table[k].str_address = table[index].end_address
        PROVE  FALSE
    <2>1. table[index].end_address = 0
      BY DEF Gone
    <2>2. Sound(table[k])
      BY <1>1 DEF Tiles, Gone
    <2>3. QED BY <1>1, <2>1, <2>2, HeapBounds DEF Sound
  <1>2. places = {}
    BY <1>1
  <1>3. First(places) = 0
    BY <1>2 DEF First
  <1>4. QED BY <1>3 DEF MergeRight

\* Both loops together.
LEMMA MergedKept ==
    ASSUME NEW table, Tiles(table), Big(table),
           NEW index \in DOMAIN table, table[index].pages # -1
    PROVE  Kept(table, Merged(table, index), index)
  <1> DEFINE left == MergeLeft(table, index)
             both == MergeRight(left, index)
  <1>1. Merged(table, index) =
          IF both = table THEN [table EXCEPT ![index].isFree = TRUE] ELSE both
    BY DEF Merged
  <1>2. \/ both = table
        \/ Kept(table, both, index)
    <2>1. CASE left = table
      BY <2>1, MergeRightKept
    <2>2. CASE left # table
      <3>1. /\ Tiles(left) /\ DOMAIN left = DOMAIN table /\ Gone(left[index])
            /\ Kept(table, left, index)
        BY <2>2, MergeLeftTiles, MergeLeftKept, EntryFacts
      <3>2. both = left
        BY <3>1, RemovedStays
      <3>3. QED BY <3>1, <3>2
    <2>3. QED BY <2>1, <2>2
  <1> HIDE DEF both
  <1>3. Kept(table, [table EXCEPT ![index].isFree = TRUE], index)
    BY MarkKept
  <1>4. QED BY <1>1, <1>2, <1>3

\* The program has all its blocks but the one at the address it gives back.
Others(blocks, va) == {b \in blocks : b.va # va}

\* Then the entries in use are the blocks that the program has left.
LEMMA KeptHas ==
    ASSUME NEW table, Tiles(table), Big(table), NEW blocks, Has(table, blocks),
           NEW index \in DOMAIN table, table[index].pages # -1,
           NEW u, Kept(table, u, index)
    PROVE  Big(u) /\ Has(u, Others(blocks, table[index].str_address))
  <1> DEFINE va == table[index].str_address
             left == Others(blocks, va)
  <1>1. Big(u)
    BY DEF Kept, Big
  <1>2. \A k \in DOMAIN table : Busy(table[k]) /\ k # index => u[k] = table[k]
    BY DEF Kept, Busy
  <1>3. \A k \in DOMAIN u : Busy(u[k]) => k \in DOMAIN table /\ k # index /\ u[k] = table[k]
    BY DEF Kept, Busy
  <1>4. \A c \in left : \E k \in DOMAIN u : Holds(u[k], c)
    <2> TAKE c \in left
    <2>1. c \in blocks /\ c.va # va
      BY DEF Others
    <2>2. PICK k \in DOMAIN table : Holds(table[k], c)
      BY <2>1 DEF Has
    <2>3. k # index /\ Busy(table[k])
      BY <2>1, <2>2 DEF Holds
    <2>4. QED BY <1>2, <2>2, <2>3 DEF Kept
  <1>5. \A k \in DOMAIN u : Busy(u[k]) => \E c \in left : Holds(u[k], c)
    <2> SUFFICES ASSUME NEW k \in DOMAIN u, Busy(u[k])
                 PROVE  \E c \in left : Holds(u[k], c)
      OBVIOUS
    <2>1. k \in DOMAIN table /\ k # index /\ u[k] = table[k]
      BY <1>3
    <2>2. PICK c \in blocks : Holds(table[k], c)
      BY <2>1 DEF Has
    <2>3. table[k].str_address # va
      BY <2>1, EntriesApart DEF Busy
    <2>4. c \in left
      BY <2>2, <2>3 DEF Others, Holds
    <2>5. QED BY <2>1, <2>2, <2>4
  <1>6. \A c, d \in left : c.va = d.va => c = d
    BY DEF Has, Others
  <1>7. QED BY <1>1, <1>4, <1>5, <1>6 DEF Has

\* The pages of the entry that is given back are those of the program's block
\* there, if it has one.
LEMMA OthersPages ==
    ASSUME NEW table, Tiles(table), Big(table), NEW blocks, Has(table, blocks),
           NEW index \in DOMAIN table, table[index].pages # -1
    PROVE  /\ PagesOf(Others(blocks, table[index].str_address))
                = PagesOf(blocks) \ PagesAt(table[index].str_address, table[index].pages)
           /\ \A b \in blocks : b.va = table[index].str_address
                                  => b.pages = table[index].pages
  <1> DEFINE va == table[index].str_address
             pages == table[index].pages
  <1>1. \A b \in blocks : b.va = va => b.pages = pages
    <2> SUFFICES ASSUME NEW b \in blocks, b.va = va PROVE b.pages = pages
      OBVIOUS
    <2>1. PICK k \in DOMAIN table : Holds(table[k], b)
      BY DEF Has
    <2>2. k = index
      BY <2>1, EntriesApart DEF Holds, Busy
    <2>3. QED BY <2>1, <2>2 DEF Holds
  <1>2. \A b \in blocks : b.va # va => PagesAt(b.va, b.pages) \cap PagesAt(va, pages) = {}
    <2> SUFFICES ASSUME NEW b \in blocks, b.va # va
                 PROVE  PagesAt(b.va, b.pages) \cap PagesAt(va, pages) = {}
      OBVIOUS
    <2>1. PICK k \in DOMAIN table : Holds(table[k], b)
      BY DEF Has
    <2>2. /\ k # index /\ table[k].pages # -1
          /\ table[k].str_address = b.va /\ table[k].pages = b.pages
      BY <2>1 DEF Holds, Busy
    <2>3. QED BY <2>2, EntriesApart
  <1> HIDE DEF va, pages
  <1>3. PagesOf(Others(blocks, va)) = PagesOf(blocks) \ PagesAt(va, pages)
    BY <1>1, <1>2 DEF PagesOf, Others
  <1>4. QED BY <1>1, <1>3 DEF va, pages

\* The table that malloc works on has the program's blocks, as spaces[] has.
LEMMA TableHas ==
    ASSUME HInv, BlocksAgree
    PROVE  Tiles(Table) /\ Big(Table) /\ Has(Table, live)
  <1>1. Tiles(Table)
    BY TableTiles
  <1>2. CASE spaces = << >>
    <2> DEFINE e == info(USER_HEAP_START, USER_HEAP_MAX, numPages, TRUE)
    <2>1. e.pages = numPages /\ e.isFree = TRUE
      BY DEF info
    <2> HIDE DEF e
    <2>2. Table = <<e>> /\ DOMAIN <<e>> = {1} /\ <<e>>[1] = e
      BY <1>2 DEF Table, e
    <2>3. live = {}
      BY <1>2 DEF BlocksAgree, Has
    <2>4. numPages >= 1
      BY HeapBounds
    <2>5. Big(Table) /\ Has(Table, live)
      BY <2>1, <2>2, <2>3, <2>4 DEF Big, Has, Busy
    <2>6. QED BY <1>1, <2>5
  <1>3. CASE spaces # << >>
    BY <1>1, <1>3 DEF Table, BlocksAgree
  <1>4. QED BY <1>2, <1>3

\* A malloc that the program survives gives it a new block, or nothing.
LEMMA MallocBlocks ==
    ASSUME RequestsHavePages, HInv, BlocksAgree, NEW size \in Sizes,
           malloc(size), running' = TRUE
    PROVE  /\ BlocksAgree'
           /\ \/ UNCHANGED <<live, page_file>>
              \/ \E va \in HeapPages, pages \in 1 .. numPages :
                   /\ PagesAt(va, pages) \subseteq HeapPages \ PagesOf(live)
                   /\ live' = live \cup {[va |-> va, pages |-> pages, size |-> size]}
                   /\ page_file' = page_file \cup PagesAt(va, pages)
  <1> DEFINE table == Table
             req == ReqPages(size)
             i == BestFit(table, req)
             b == [va |-> table[i].str_address, pages |-> req, size |-> size]
  <1>1. Tiles(table) /\ Big(table) /\ Has(table, live) /\ table \in Seq(Rec)
    BY TableHas DEF Tiles
  <1>2. req \in Nat /\ req >= 1
    BY RequestNat DEF RequestsHavePages
  <1>3. CASE MallocFails
    <2>1. spaces' = table /\ live' = live /\ page_file' = page_file
      BY <1>3 DEF MallocFails
    <2>2. QED BY <1>1, <2>1 DEF BlocksAgree
  <1>4. CASE Fits(table, req) # {} /\ MallocFits(size, i)
    <2>1. i \in Fits(table, req)
      BY <1>1, <1>2, <1>4, BestFitFits
    <2>2. /\ \/ req = table[i].pages /\ spaces' = [table EXCEPT ![i].isFree = FALSE]
             \/ req # table[i].pages /\ spaces' = Split(table, i, req)
          /\ AllocateMem(b.va, req)
          /\ live' = live \cup {b}
      BY <1>4 DEF MallocFits
    <2>3. page_file' = page_file \cup PagesAt(b.va, req)
      BY <2>2 DEF AllocateMem
    <2>4. b.va = table[i].str_address /\ b.pages = req
      OBVIOUS
    <2> DEFINE va == table[i].str_address
    <2>5. live' = live \cup {[va |-> va, pages |-> req, size |-> size]}
      BY <2>2
    <2> HIDE DEF table, req, i, b
    <2>6. i \in DOMAIN table /\ table[i].isFree /\ table[i].pages >= req
      BY <2>1 DEF Fits
    <2>7. table[i].pages \in Int
      BY <1>1, <2>6, TableShape DEF Rec
    <2>8. table[i].pages # -1
      BY <1>2, <2>6, <2>7
    <2>9. Taken(table, spaces', i, req)
      BY <1>1, <1>2, <2>2, <2>6, FillTaken, SplitTaken
    <2>10. Big(spaces') /\ Has(spaces', live')
      BY <1>1, <1>2, <2>2, <2>4, <2>6, <2>8, <2>9, TakenHas
    <2>11. PagesOf(live') = PagesOf(live) \cup PagesAt(b.va, b.pages)
      BY <2>2 DEF PagesOf
    <2>12. page_file' = PagesOf(live')
      BY <2>3, <2>4, <2>11 DEF BlocksAgree
    <2>13. /\ Sound(table[i]) /\ va \in HeapPages
           /\ PagesAt(va, table[i].pages) \subseteq HeapPages
      BY <1>1, <2>6, <2>8, EntryFacts
    <2>14. PagesAt(va, table[i].pages) \cap PagesOf(live) = {}
      BY <1>1, <2>6, <2>8, HolePages
    <2>15. va \in Int /\ numPages \in Nat
      BY <2>13, HeapBounds
    <2>16. PagesAt(va, req) \subseteq PagesAt(va, table[i].pages)
      BY <1>2, <2>6, <2>7, <2>15 DEF PagesAt
    <2>17. req \in 1 .. numPages
      <3>1. /\ va + table[i].pages <= USER_HEAP_START + numPages
            /\ USER_HEAP_START <= va /\ USER_HEAP_START \in Nat
        BY <2>13, HeapBounds DEF Sound, USER_HEAP_MAX
      <3> HIDE DEF va
      <3>2. QED BY <1>2, <2>6, <2>7, <2>15, <3>1
    <2>18. PagesAt(va, req) \subseteq HeapPages \ PagesOf(live)
      BY <2>13, <2>14, <2>16
    <2>19. page_file' = page_file \cup PagesAt(va, req)
      BY <2>3, <2>4
    <2> HIDE DEF va
    <2>20. BlocksAgree'
      BY <2>10, <2>12 DEF BlocksAgree
    <2>21. va \in HeapPages
      BY <2>13 DEF va
    <2>22. QED BY <2>5, <2>17, <2>18, <2>19, <2>20, <2>21
  <1>5. CASE MallocOverflows(size, i)
    BY <1>5 DEF MallocOverflows
  <1>6. QED BY <1>3, <1>4, <1>5 DEF malloc

\* A free that the program survives takes the block at the address, if the
\* program has one there, and its pages of the page file.
LEMMA FreeBlocks ==
    ASSUME HInv, BlocksAgree, NEW va, free(va), running' = TRUE,
           live' = Others(live, va)
    PROVE  /\ BlocksAgree'
           /\ \A b \in live : b.va = va
                                => page_file' = page_file \ PagesAt(b.va, b.pages)
           /\ Others(live, va) = live => page_file' = page_file
  <1> DEFINE places == {k \in DOMAIN spaces : spaces[k].str_address = va}
             index == First(places)
  <1>1. /\ index # 0 /\ spaces[index].pages # -1
        /\ page_file' = page_file \ PagesAt(va, spaces[index].pages)
        /\ spaces' = Merged(spaces, index)
    BY DEF free
  <1>2. spaces # << >>
    <2> SUFFICES ASSUME spaces = << >> PROVE FALSE
      OBVIOUS
    <2>1. places = {}
      OBVIOUS
    <2>2. index = 0
      BY <2>1 DEF First
    <2>3. QED BY <1>1, <2>2
  <1>3. Tiles(spaces) /\ Big(spaces) /\ Has(spaces, live)
    BY <1>2 DEF HInv, BlocksAgree
  <1>4. index \in DOMAIN spaces /\ spaces[index].str_address = va
    <2>1. places \subseteq Nat
      BY <1>3, TableShape DEF Tiles
    <2>2. index \in places
      BY <1>1, <2>1, FirstIsPlace
    <2>3. QED BY <2>2
  <1> HIDE DEF index
  <1>5. Kept(spaces, spaces', index)
    BY <1>1, <1>3, <1>4, MergedKept
  <1>6. Big(spaces') /\ Has(spaces', live')
    BY <1>1, <1>3, <1>4, <1>5, KeptHas
  <1>7. /\ PagesOf(live') = PagesOf(live) \ PagesAt(va, spaces[index].pages)
        /\ \A b \in live : b.va = va => b.pages = spaces[index].pages
    BY <1>1, <1>3, <1>4, OthersPages
  <1>8. page_file = PagesOf(live) /\ page_file' = PagesOf(live')
    BY <1>1, <1>7 DEF BlocksAgree
  <1>9. BlocksAgree'
    BY <1>6, <1>8 DEF BlocksAgree
  <1>10. \A b \in live : b.va = va => page_file' = page_file \ PagesAt(b.va, b.pages)
    BY <1>1, <1>7
  <1>11. QED BY <1>8, <1>9, <1>10

\* To take a block from the set is to take every block at its address.
LEMMA FreeBlockOthers ==
    ASSUME NEW table, NEW blocks, Has(table, blocks), NEW b \in blocks
    PROVE  blocks \ {b} = Others(blocks, b.va)
  BY DEF Has, Others

\* BInv is inductive.
LEMMA NextBInv ==
    ASSUME RequestsHavePages, BInv, [Next]_vars
    PROVE  BInv'
  <1>1. HInv'
    <2>1. HInv
      BY DEF BInv
    <2>2. CASE \E size \in Sizes : malloc(size)
      BY <2>1, <2>2, MallocHInv
    <2>3. CASE \E b \in live : FreeBlock(b)
      BY <2>1, <2>3, FreeHInv DEF FreeBlock
    <2>4. CASE \E va \in Strays : FreeStray(va)
      BY <2>1, <2>4, FreeHInv DEF FreeStray
    <2>5. CASE UNCHANGED vars
      BY <2>1, <2>5 DEF vars, HInv
    <2>6. QED BY <2>2, <2>3, <2>4, <2>5 DEF Next
  <1>2. SUFFICES ASSUME running' PROVE BlocksAgree'
    BY <1>1 DEF BInv
  <1>3. ASSUME NEW size \in Sizes, malloc(size) PROVE BlocksAgree'
    <2>1. running /\ HInv /\ BlocksAgree /\ running' = TRUE
      BY <1>2, <1>3 DEF malloc, BInv, MallocFails, MallocFits, MallocOverflows, AllocateMem
    <2>2. QED BY <1>3, <2>1, MallocBlocks
  <1>4. ASSUME NEW b \in live, FreeBlock(b) PROVE BlocksAgree'
    <2>1. running /\ HInv /\ BlocksAgree /\ running' = TRUE /\ free(b.va)
      BY <1>2, <1>4 DEF FreeBlock, free, BInv
    <2>2. live' = Others(live, b.va)
      BY <1>4, <2>1, FreeBlockOthers DEF FreeBlock, BlocksAgree
    <2>3. QED BY <2>1, <2>2, FreeBlocks
  <1>5. ASSUME NEW va \in Strays, FreeStray(va) PROVE BlocksAgree'
    <2>1. running /\ HInv /\ BlocksAgree /\ running' = TRUE /\ free(va)
      BY <1>2, <1>5 DEF FreeStray, free, BInv
    <2>2. live' = Others(live, va)
      BY <1>5 DEF FreeStray, Others
    <2>3. QED BY <2>1, <2>2, FreeBlocks
  <1>6. CASE UNCHANGED vars
    BY <1>2, <1>6 DEF vars, BInv, BlocksAgree
  <1>7. QED BY <1>3, <1>4, <1>5, <1>6 DEF Next

\* An empty table agrees with a program without blocks.
LEMMA InitBInv == Init => BInv
  BY DEF Init, BInv, HInv, BlocksAgree, Big, Has, PagesOf

\* PageFileAgrees (uheap.c:100): while the program runs, the page file has the
\* pages of its blocks and no other, in every heap and after every sequence of
\* calls, stray calls of free included, if no request rounds to zero pages.
THEOREM PageFileAgreesCorrect ==
    ASSUME RequestsHavePages PROVE Spec => []PageFileAgrees
  <1>1. Init => BInv
    BY InitBInv
  <1>2. BInv /\ [Next]_vars => BInv'
    BY NextBInv
  <1>3. BInv => PageFileAgrees
    BY DEF BInv, BlocksAgree, PagesOf, PageFileAgrees
  <1>4. QED BY <1>1, <1>2, <1>3, PTL DEF Spec

-----------------------------------------------------------------------------
(***************************************************************************)
(* The table implements the blocks of HeapBlocks.  The entries in use are  *)
(* the blocks the program has, without the sizes it asked for; a step that *)
(* the program survives adds a block, takes one away or changes neither,   *)
(* and one it does not survive is the end of the program.                  *)
(***************************************************************************)
BlocksNow == {[va |-> spaces[i].str_address, pages |-> spaces[i].pages] :
                i \in {k \in InUse : ~spaces[k].isFree}}

Shape(b) == [va |-> b.va, pages |-> b.pages]
Shapes(blocks) == {Shape(b) : b \in blocks}

\* The entries in use, seen from the program.
LEMMA BlocksShapes == BlocksAgree => BlocksNow = Shapes(live)
  <1> SUFFICES ASSUME BlocksAgree PROVE BlocksNow = Shapes(live)
    OBVIOUS
  <1> DEFINE at(i) == [va |-> spaces[i].str_address, pages |-> spaces[i].pages]
  <1>1. BlocksNow = {at(i) : i \in {k \in DOMAIN spaces : Busy(spaces[k])}}
    BY DEF BlocksNow, InUse, Busy
  <1>2. \A k \in DOMAIN spaces, b \in live : Holds(spaces[k], b) => at(k) = Shape(b)
    BY DEF Holds, Shape
  <1>3. \A k \in DOMAIN spaces, b \in live : Holds(spaces[k], b) => Busy(spaces[k])
    BY DEF Holds
  <1> HIDE DEF at
  <1>4. ASSUME NEW i \in DOMAIN spaces, Busy(spaces[i]) PROVE at(i) \in Shapes(live)
    BY <1>2, <1>4 DEF BlocksAgree, Has, Shapes
  <1>5. ASSUME NEW b \in live
        PROVE  \E i \in DOMAIN spaces : Busy(spaces[i]) /\ at(i) = Shape(b)
    BY <1>2, <1>3, <1>5 DEF BlocksAgree, Has
  <1>6. QED BY <1>1, <1>4, <1>5 DEF Shapes

\* The same after a step.
LEMMA BlocksShapesNext == BlocksAgree' => BlocksNow' = Shapes(live')
  <1>1. (BlocksAgree => BlocksNow = Shapes(live))'
    BY BlocksShapes, PTL
  <1>2. QED BY <1>1 DEF Shapes

\* The pages of the blocks do not depend on the sizes.
LEMMA ShapesPages == Blocks!Used = UNION {PagesAt(b.va, b.pages) : b \in BlocksNow}
  BY DEF Blocks!Used, Blocks!PagesAt, PagesAt, BlocksNow

\* The pages of the blocks are those the program counts on.
LEMMA UsedPages == BlocksAgree => Blocks!Used = PagesOf(live)
  <1> SUFFICES ASSUME BlocksAgree PROVE Blocks!Used = PagesOf(live)
    OBVIOUS
  <1>1. BlocksNow = Shapes(live)
    BY BlocksShapes
  <1>2. \A b : Shape(b).va = b.va /\ Shape(b).pages = b.pages
    BY DEF Shape
  <1>3. UNION {PagesAt(b.va, b.pages) : b \in Shapes(live)} = PagesOf(live)
    BY <1>2 DEF Shapes, PagesOf
  <1>4. QED BY <1>1, <1>3, ShapesPages

\* malloc returns a new block of pages that no block has, or none.
LEMMA MallocRefines ==
    ASSUME RequestsHavePages, BInv, NEW size \in Sizes, malloc(size), running'
    PROVE  Blocks!Malloc \/ UNCHANGED <<BlocksNow, page_file, running>>
  <1>1. running /\ running' = TRUE /\ HInv /\ BlocksAgree /\ UNCHANGED running
    BY DEF malloc, BInv, MallocFails, MallocFits, MallocOverflows, AllocateMem
  <1>2. BlocksAgree'
    BY <1>1, MallocBlocks
  <1>3. BlocksNow = Shapes(live) /\ BlocksNow' = Shapes(live')
    BY <1>1, <1>2, BlocksShapes, BlocksShapesNext
  <1>4. CASE UNCHANGED <<live, page_file>>
    BY <1>1, <1>3, <1>4
  <1>5. ASSUME NEW va \in HeapPages, NEW pages \in 1 .. numPages,
               PagesAt(va, pages) \subseteq HeapPages \ PagesOf(live),
               live' = live \cup {[va |-> va, pages |-> pages, size |-> size]},
               page_file' = page_file \cup PagesAt(va, pages)
        PROVE  Blocks!Malloc
    <2>1. BlocksNow' = BlocksNow \cup {[va |-> va, pages |-> pages]}
      <3> DEFINE b == [va |-> va, pages |-> pages, size |-> size]
      <3>1. Shape(b) = [va |-> va, pages |-> pages]
        BY DEF Shape
      <3>2. live' = live \cup {b}
        BY <1>5
      <3> HIDE DEF b
      <3>3. Shapes(live') = Shapes(live) \cup {Shape(b)}
        BY <3>2 DEF Shapes
      <3>4. QED BY <1>3, <3>1, <3>3
    <2>2. USER_HEAP_MAX - USER_HEAP_START = numPages
      BY HeapBounds DEF USER_HEAP_MAX
    <2>3. /\ va \in USER_HEAP_START .. USER_HEAP_MAX - 1
          /\ pages \in 1 .. USER_HEAP_MAX - USER_HEAP_START
      BY <2>2 DEF HeapPages
    <2>4. Blocks!PagesAt(va, pages) = PagesAt(va, pages)
      BY DEF Blocks!PagesAt, PagesAt
    <2>5. Blocks!PagesAt(va, pages)
            \subseteq (USER_HEAP_START .. USER_HEAP_MAX - 1) \ Blocks!Used
      BY <1>1, <1>5, <2>4, UsedPages DEF HeapPages
    <2>6. QED BY <1>1, <1>5, <2>1, <2>3, <2>4, <2>5 DEF Blocks!Malloc, BlocksNow
  <1>6. QED BY <1>1, <1>4, <1>5, MallocBlocks

\* free of a block takes exactly this block and its pages.
LEMMA FreeRefines ==
    ASSUME BInv, NEW b \in live, FreeBlock(b), running'
    PROVE  Blocks!Free
  <1>1. /\ running /\ running' = TRUE /\ HInv /\ BlocksAgree /\ UNCHANGED running
        /\ free(b.va)
    BY DEF FreeBlock, free, BInv
  <1>2. live' = Others(live, b.va)
    BY <1>1, FreeBlockOthers DEF FreeBlock, BlocksAgree
  <1>3. BlocksAgree' /\ page_file' = page_file \ PagesAt(b.va, b.pages)
    BY <1>1, <1>2, FreeBlocks
  <1>4. BlocksNow = Shapes(live) /\ BlocksNow' = Shapes(live')
    BY <1>1, <1>3, BlocksShapes, BlocksShapesNext
  <1>5. Shapes(live') = Shapes(live) \ {Shape(b)}
    <2>1. \A c, d \in live : c.va = d.va => c = d
      BY <1>1 DEF BlocksAgree, Has
    <2>2. \A c : Shape(c).va = c.va
      BY DEF Shape
    <2>3. \A c \in live : c \in live' <=> Shape(c) # Shape(b)
      BY <1>2, <2>1, <2>2 DEF Others
    <2>4. live' \subseteq live
      BY <1>2 DEF Others
    <2>5. QED BY <2>3, <2>4 DEF Shapes
  <1>6. Shape(b) \in BlocksNow /\ Shape(b).va = b.va /\ Shape(b).pages = b.pages
    BY <1>4 DEF Shapes, Shape
  <1>7. BlocksNow' = BlocksNow \ {Shape(b)}
    BY <1>4, <1>5
  <1>8. page_file' = page_file \ Blocks!PagesAt(Shape(b).va, Shape(b).pages)
    BY <1>3, <1>6 DEF Blocks!PagesAt, PagesAt
  <1>9. QED BY <1>1, <1>6, <1>7, <1>8 DEF Blocks!Free, BlocksNow

\* A stray free that the program survives gives back nothing.
LEMMA StrayRefines ==
    ASSUME BInv, NEW va, FreeStray(va), running'
    PROVE  UNCHANGED <<BlocksNow, page_file, running>>
  <1>1. /\ running /\ running' = TRUE /\ HInv /\ BlocksAgree /\ UNCHANGED running
        /\ free(va)
    BY DEF FreeStray, free, BInv
  <1>2. live' = Others(live, va) /\ Others(live, va) = live
    BY DEF FreeStray, Others
  <1>3. BlocksAgree' /\ page_file' = page_file
    BY <1>1, <1>2, FreeBlocks
  <1>4. BlocksNow' = BlocksNow
    BY <1>1, <1>2, <1>3, BlocksShapes, BlocksShapesNext
  <1>5. QED BY <1>1, <1>3, <1>4

\* Every step of the heap is a step of the blocks.
LEMMA NextBlocks ==
    ASSUME RequestsHavePages, BInv, [Next]_vars
    PROVE  [Blocks!Next]_<<BlocksNow, page_file, running>>
  <1>1. CASE UNCHANGED vars
    BY <1>1 DEF vars, BlocksNow, InUse
  <1>2. CASE Next
    <2>1. running /\ running' \in BOOLEAN
      BY <1>2 DEF Next, FreeBlock, FreeStray, malloc, free, MallocFails, MallocFits,
                  MallocOverflows, AllocateMem, BInv
    <2>2. CASE ~running'
      <3>1. Blocks!End
        BY <2>1, <2>2 DEF Blocks!End
      <3>2. QED BY <3>1 DEF Blocks!Next
    <2>3. CASE running'
      BY <1>2, <2>3, MallocRefines, FreeRefines, StrayRefines DEF Next, Blocks!Next
    <2>4. QED BY <2>2, <2>3, SMTT(60)
  <1>3. QED BY <1>1, <1>2

\* KeepsBlocksApart: spaces[], malloc and free implement disjoint blocks of pages
\* with a page of the page file for each, for every heap and every program whose
\* requests have pages.
THEOREM KeepsBlocksApartCorrect ==
    ASSUME RequestsHavePages PROVE Spec => KeepsBlocksApart
  <1>1. Init => BInv
    BY InitBInv
  <1>2. BInv /\ [Next]_vars => BInv'
    BY NextBInv
  <1>3. Init => Blocks!Init
    BY DEF Init, Blocks!Init, InUse
  <1>4. BInv /\ [Next]_vars => [Blocks!Next]_<<BlocksNow, page_file, running>>
    BY NextBlocks
  <1>5. QED BY <1>1, <1>2, <1>3, <1>4, PTL DEF Spec, KeepsBlocksApart, Blocks!Spec, BlocksNow
=============================================================================
