---------------------------- MODULE Lists_proofs ----------------------------
(***************************************************************************)
(* Proofs about the links of inc/queue.h, for any lists of any elements.   *)
(* A list is described by the sequence that its links stand for: Linked    *)
(* says that the head and the links are those of a sequence, and it        *)
(* determines what a walk along the links finds.  Each macro puts one      *)
(* element into the sequence of one list or takes one out.                 *)
(***************************************************************************)
EXTENDS Lists, ListLemmas, FiniteSetTheorems

-----------------------------------------------------------------------------
(***************************************************************************)
(* Walks along links.                                                      *)
(***************************************************************************)
\* A sequence in which no element is twice is not longer than the elements are
\* many.
LEMMA NotLonger ==
    ASSUME NEW s \in Seq(Elems), Distinct(s)
    PROVE  /\ Cardinality(Elems) \in Nat
           /\ Len(s) <= Cardinality(Elems)
  <1> DEFINE n == Len(s)
  <1>1. n \in Nat /\ DOMAIN s = 1 .. n /\ s \in [1 .. n -> Elems]
    BY LenProperties
  <1>2. s \in Injection(1 .. n, Elems)
    BY <1>1 DEF Distinct, Injection, IsInjective
  <1>3. IsFiniteSet(Elems)
    BY ListsAssumption
  <1>4. Cardinality(1 .. n) = n
    <2>1. Cardinality(1 .. n) = IF 1 > n THEN 0 ELSE n - 1 + 1
      BY <1>1, FS_Interval
    <2>2. QED BY <1>1, <2>1
  <1>5. Cardinality(Elems) \in Nat /\ Cardinality(1 .. n) <= Cardinality(Elems)
    BY <1>2, <1>3, FS_CardinalityType, FS_Injection
  <1>6. QED BY <1>4, <1>5

\* The links one way are those of a sequence.
Chained(link, s) ==
    \A i \in 1 .. Len(s) : link[s[i]] = IF i < Len(s) THEN s[i + 1] ELSE NULL

\* A walk along the links of a sequence finds it.
LEMMA ChainOfSequence ==
    ASSUME NEW link, NEW s \in Seq(Elems), Distinct(s), Chained(link, s), s # << >>
    PROVE  Chain(link, s[1]) = s
  <1> DEFINE N == Cardinality(Elems)
             n == Len(s)
             P[k \in 0 .. N] ==
               IF k = 0 THEN <<s[1]>>
               ELSE LET t == P[k - 1]
                        behind == link[t[Len(t)]]
                    IN  IF behind = NULL THEN t ELSE Append(t, behind)
             upto(k) == IF k < n THEN k + 1 ELSE n
             h == [k \in 0 .. N |-> SubSeq(s, 1, upto(k))]
             Step(f) == [k \in 0 .. N |->
                           IF k = 0 THEN <<s[1]>>
                           ELSE LET t == f[k - 1]
                                    behind == link[t[Len(t)]]
                                IN  IF behind = NULL THEN t ELSE Append(t, behind)]
  <1>1. /\ n \in Nat /\ n >= 1 /\ n <= N /\ N \in Nat
        /\ \A i \in 1 .. n : s[i] \in Elems
    <2>1. n \in Nat /\ n <= N /\ N \in Nat /\ n # 0
      BY NotLonger, LenProperties, EmptySeq
    <2>2. \A i \in 1 .. n : s[i] \in Elems
      BY ElementOfSeq
    <2>3. QED BY <2>1, <2>2
  <1>2. s[1] # NULL
    BY <1>1, ListsAssumption
  <1>3. Chain(link, s[1]) = P[N]
    BY <1>2, Zenon DEF Chain
  <1>4. \A k \in Nat : upto(k) \in 1 .. n
    BY <1>1
  <1>5. \A m \in 1 .. n : /\ SubSeq(s, 1, m) \in Seq(Elems)
                          /\ Len(SubSeq(s, 1, m)) = m
                          /\ SubSeq(s, 1, m)[m] = s[m]
    BY <1>1, SubSeqProperties
  <1>6. ASSUME NEW k \in 1 .. N
        PROVE  h[k] = LET t == h[k - 1]
                          behind == link[t[Len(t)]]
                      IN  IF behind = NULL THEN t ELSE Append(t, behind)
    <2> DEFINE m == upto(k - 1)
               t == SubSeq(s, 1, m)
    <2>1. k \in Nat /\ k - 1 \in Nat /\ k - 1 \in 0 .. N /\ k \in 0 .. N
      BY <1>1
    <2>2. h[k - 1] = t /\ h[k] = SubSeq(s, 1, upto(k))
      BY <2>1
    <2>3. m \in 1 .. n
      BY <1>4, <2>1
    <2>4. t \in Seq(Elems) /\ Len(t) = m /\ t[Len(t)] = s[m]
      BY <1>5, <2>3
    <2>5. CASE m < n
      <3>1. m = k /\ upto(k) = m + 1
        BY <1>1, <2>1, <2>5
      <3>2. link[s[m]] = s[m + 1] /\ s[m + 1] # NULL /\ s[m + 1] \in Elems
        BY <1>1, <2>3, <2>5, ListsAssumption DEF Chained
      <3>3. SubSeq(s, 1, m + 1) = Append(t, s[m + 1])
        BY <1>1, <2>3, <2>5, <2>4, SubSeqProperties, AppendProperties
      <3>4. QED BY <2>2, <2>4, <3>1, <3>2, <3>3
    <2>6. CASE m = n
      <3>1. upto(k) = m
        BY <1>1, <2>1, <2>6
      <3>2. link[s[m]] = NULL
        BY <1>1, <2>3, <2>6 DEF Chained
      <3>3. QED BY <2>2, <2>4, <3>1, <3>2
    <2>7. m < n \/ m = n
      <3> HIDE DEF m
      <3>1. QED BY <1>1, <2>3
    <2>8. QED BY <2>5, <2>6, <2>7
  <1>7. h[0] = <<s[1]>>
    <2>1. h[0] = SubSeq(s, 1, 1)
      BY <1>1
    <2>2. /\ SubSeq(s, 1, 1) \in Seq(Elems) /\ Len(SubSeq(s, 1, 1)) = 1
          /\ SubSeq(s, 1, 1)[1] = s[1]
      BY <1>1, <1>5
    <2>3. <<s[1]>> \in Seq(Elems) /\ Len(<<s[1]>>) = 1 /\ <<s[1]>>[1] = s[1]
      BY <1>1
    <2>4. SubSeq(s, 1, 1) = <<s[1]>>
      <3> DEFINE a == SubSeq(s, 1, 1)
                 b == <<s[1]>>
      <3>1. a \in Seq(Elems) /\ b \in Seq(Elems) /\ Len(a) = Len(b) /\ Len(a) = 1
        BY <2>2, <2>3
      <3>2. a[1] = b[1]
        BY <2>2, <2>3
      <3> HIDE DEF a, b
      <3>3. \A i \in 1 .. Len(a) : a[i] = b[i]
        BY <3>1, <3>2
      <3>4. a = b
        BY <3>1, <3>3, SeqEqual
      <3>5. QED BY <3>4 DEF a, b
    <2>5. QED BY <2>1, <2>4
  <1>8. h = Step(h)
    <2>1. ASSUME NEW k \in 0 .. N
          PROVE  h[k] = Step(h)[k]
      <3> HIDE DEF P, h
      <3>1. CASE k = 0
        BY <1>7, <3>1
      <3>2. CASE k # 0
        <4>1. k \in 1 .. N
          BY <1>1, <3>2
        <4>2. QED BY <1>6, <3>2, <4>1
      <3>3. QED BY <3>1, <3>2
    <2>2. QED BY <2>1
  <1>9. P = Step(P)
    <2>1. \E f : f = Step(f)
      BY <1>8, Zenon
    <2>2. P = CHOOSE f : f = Step(f)
      BY Zenon
    <2> HIDE DEF P, Step
    <2>3. QED BY <2>1, <2>2, Zenon
  <1> DEFINE bad == {k \in 0 .. N : P[k] # h[k]}
  <1>10. bad = {}
    <2> SUFFICES ASSUME bad # {} PROVE FALSE
      OBVIOUS
    <2>1. bad \subseteq Nat
      BY SMTT(60)
    <2>2. PICK k \in bad : \A j \in bad : k <= j
      BY <2>1, LeastNumber
    <2>3. k \in 0 .. N /\ P[k] # h[k]
      OBVIOUS
    <2> HIDE DEF P, h
    <2>4. k # 0
      <3>1. P[0] = <<s[1]>>
        <4>1. 0 \in 0 .. N
          BY <1>1
        <4>2. QED BY <1>9, <4>1
      <3>2. QED BY <1>7, <2>3, <3>1
    <2>5. k \in 1 .. N /\ k - 1 \in 0 .. N /\ k - 1 \in Nat
      BY <1>1, <2>3, <2>4
    <2>6. P[k - 1] = h[k - 1]
      <3>1. k - 1 \notin bad
        BY <2>2, <2>3, <2>5
      <3>2. QED BY <2>5, <3>1
    <2>7. P[k] = h[k]
      <3>1. P[k] = Step(P)[k] /\ h[k] = Step(h)[k]
        BY <1>8, <1>9, Zenon
      <3>2. QED BY <2>3, <2>6, <3>1
    <2>8. QED BY <2>3, <2>7
  <1>11. P[N] = h[N]
    <2>1. N \in 0 .. N
      BY <1>1
    <2>2. QED BY <1>10, <2>1
  <1>12. h[N] = s
    <2>1. N \in 0 .. N /\ upto(N) = n
      BY <1>1
    <2>2. h[N] = SubSeq(s, 1, n)
      BY <2>1
    <2>3. QED BY <1>1, <2>2, SubSeqProperties
  <1>13. QED BY <1>3, <1>11, <1>12

-----------------------------------------------------------------------------
(***************************************************************************)
(* Putting an element into a sequence.                                     *)
(***************************************************************************)
\* The sequence with e behind its first k elements.
Inserted(s, k, e) == SubSeq(s, 1, k) \o <<e>> \o SubSeq(s, k + 1, Len(s))

\* Where the elements are after an insertion.
LEMMA InsertedShape ==
    ASSUME NEW S, NEW s \in Seq(S), NEW k \in 0 .. Len(s), NEW e \in S
    PROVE  /\ Inserted(s, k, e) \in Seq(S)
           /\ Len(Inserted(s, k, e)) = Len(s) + 1
           /\ \A i \in 1 .. k : Inserted(s, k, e)[i] = s[i]
           /\ Inserted(s, k, e)[k + 1] = e
           /\ \A i \in k + 1 .. Len(s) : Inserted(s, k, e)[i + 1] = s[i]
  <1> DEFINE n == Len(s)
             a == SubSeq(s, 1, k)
             b == <<e>>
             c == SubSeq(s, k + 1, n)
             ab == a \o b
             abc == ab \o c
  <1>1. n \in Nat /\ k \in Nat /\ k <= n /\ \A i \in 1 .. n : s[i] \in S
    <2>1. n \in Nat
      BY LenProperties
    <2>2. \A i \in 1 .. n : s[i] \in S
      BY ElementOfSeq
    <2>3. QED BY <2>1, <2>2
  <1>2. /\ a \in Seq(S) /\ Len(a) = k
        /\ \A i \in 1 .. k : a[i] = s[i]
    <2>1. \A i \in 1 .. k : s[i] \in S
      BY <1>1
    <2>2. /\ a \in Seq(S) /\ Len(a) = IF 1 <= k THEN k - 1 + 1 ELSE 0
          /\ \A i \in 1 .. k - 1 + 1 : a[i] = s[1 + i - 1]
      BY <1>1, <2>1, SubSeqProperties
    <2> HIDE DEF a
    <2>3. \A i \in 1 .. k : a[i] = s[i]
      BY <1>1, <2>2
    <2>4. QED BY <1>1, <2>2, <2>3
  <1>3. b \in Seq(S) /\ Len(b) = 1 /\ b[1] = e
    OBVIOUS
  <1>4. /\ c \in Seq(S) /\ Len(c) = n - k
        /\ \A i \in 1 .. n - k : c[i] = s[k + i]
    <2>1. \A i \in k + 1 .. n : s[i] \in S
      BY <1>1
    <2>2. /\ c \in Seq(S) /\ Len(c) = IF k + 1 <= n THEN n - (k + 1) + 1 ELSE 0
          /\ \A i \in 1 .. n - (k + 1) + 1 : c[i] = s[k + 1 + i - 1]
      BY <1>1, <2>1, SubSeqProperties
    <2> HIDE DEF c, n
    <2>3. ASSUME NEW i \in 1 .. n - k PROVE c[i] = s[k + i]
      <3>1. i \in 1 .. n - (k + 1) + 1 /\ k + 1 + i - 1 = k + i
        BY <1>1
      <3>2. QED BY <2>2, <3>1
    <2>4. QED BY <1>1, <2>2, <2>3
  <1>5. Inserted(s, k, e) = abc
    BY DEF Inserted
  <1> HIDE DEF n, a, b, c
  <1>6. /\ ab \in Seq(S) /\ Len(ab) = k + 1
        /\ \A i \in 1 .. k + 1 : ab[i] = IF i <= k THEN a[i] ELSE b[i - k]
    <2>1. /\ ab \in Seq(S) /\ Len(ab) = Len(a) + Len(b)
          /\ \A i \in 1 .. Len(a) + Len(b) :
               ab[i] = IF i <= Len(a) THEN a[i] ELSE b[i - Len(a)]
      BY <1>2, <1>3, ConcatProperties
    <2> HIDE DEF ab
    <2>2. QED BY <1>1, <1>2, <1>3, <2>1
  <1> HIDE DEF ab
  <1>7. /\ abc \in Seq(S) /\ Len(abc) = n + 1
        /\ \A i \in 1 .. n + 1 : abc[i] = IF i <= k + 1 THEN ab[i] ELSE c[i - (k + 1)]
    <2>1. k + 1 + (n - k) = n + 1
      BY <1>1
    <2>2. /\ abc \in Seq(S) /\ Len(abc) = Len(ab) + Len(c)
          /\ \A i \in 1 .. Len(ab) + Len(c) :
               abc[i] = IF i <= Len(ab) THEN ab[i] ELSE c[i - Len(ab)]
      BY <1>4, <1>6, ConcatProperties
    <2> HIDE DEF abc
    <2>3. QED BY <1>1, <1>4, <1>6, <2>1, <2>2
  <1> HIDE DEF abc
  <1>8. \A i \in 1 .. k : abc[i] = s[i]
    BY <1>1, <1>2, <1>6, <1>7
  <1>9. abc[k + 1] = e
    <2>1. k + 1 \in 1 .. n + 1 /\ k + 1 \in 1 .. k + 1 /\ (k + 1) - k = 1 /\ ~(k + 1 <= k)
      BY <1>1
    <2>2. QED BY <1>3, <1>6, <1>7, <2>1
  <1>10. ASSUME NEW i \in k + 1 .. n PROVE abc[i + 1] = s[i]
    <2>1. i + 1 \in 1 .. n + 1 /\ ~(i + 1 <= k + 1) /\ i - k \in 1 .. n - k
          /\ (i + 1) - (k + 1) = i - k /\ k + (i - k) = i
      BY <1>1
    <2>2. abc[i + 1] = c[i - k]
      BY <1>7, <2>1
    <2>3. c[i - k] = s[i]
      BY <1>4, <2>1
    <2>4. QED BY <2>2, <2>3
  <1>11. QED BY <1>5, <1>7, <1>8, <1>9, <1>10 DEF n

\* The elements after an insertion, and that it adds no duplicate.
LEMMA InsertedElements ==
    ASSUME NEW S, NEW s \in Seq(S), NEW k \in 0 .. Len(s), NEW e \in S
    PROVE  /\ Members(Inserted(s, k, e)) = Members(s) \cup {e}
           /\ Distinct(s) /\ e \notin Members(s) => Distinct(Inserted(s, k, e))
  <1>0. /\ Inserted(s, k, e) \in Seq(S)
        /\ Len(Inserted(s, k, e)) = Len(s) + 1
        /\ \A i \in 1 .. k : Inserted(s, k, e)[i] = s[i]
        /\ Inserted(s, k, e)[k + 1] = e
        /\ \A i \in k + 1 .. Len(s) : Inserted(s, k, e)[i + 1] = s[i]
    <2>1. Inserted(s, k, e) \in Seq(S) /\ Len(Inserted(s, k, e)) = Len(s) + 1
      BY InsertedShape
    <2>2. \A i \in 1 .. k : Inserted(s, k, e)[i] = s[i]
      BY InsertedShape
    <2>3. Inserted(s, k, e)[k + 1] = e
      BY InsertedShape
    <2>4. \A i \in k + 1 .. Len(s) : Inserted(s, k, e)[i + 1] = s[i]
      BY InsertedShape
    <2>5. QED BY <2>1, <2>2, <2>3, <2>4
  <1> DEFINE t == Inserted(s, k, e)
             n == Len(s)
             from(i) == IF i <= k THEN i ELSE i - 1
  <1>1. n \in Nat /\ k \in Nat /\ k <= n /\ DOMAIN s = 1 .. n
    BY LenProperties
  <1>2. /\ t \in Seq(S) /\ Len(t) = n + 1
        /\ \A i \in 1 .. k : t[i] = s[i]
        /\ t[k + 1] = e
        /\ \A i \in k + 1 .. n : t[i + 1] = s[i]
    BY <1>0
  <1>3. DOMAIN t = 1 .. n + 1
    BY <1>2, LenProperties
  <1> HIDE DEF t, n
  <1>4. \A i \in 1 .. n + 1 : i # k + 1 => /\ from(i) \in 1 .. n
                                           /\ t[i] = s[from(i)]
    <2> SUFFICES ASSUME NEW i \in 1 .. n + 1, i # k + 1
                 PROVE  from(i) \in 1 .. n /\ t[i] = s[from(i)]
      OBVIOUS
    <2>1. CASE i <= k
      BY <1>1, <1>2, <2>1
    <2>2. CASE i > k + 1
      <3>1. i - 1 \in k + 1 .. n /\ (i - 1) + 1 = i /\ ~(i <= k)
        BY <1>1, <2>2
      <3>2. t[i] = s[i - 1]
        BY <1>2, <3>1
      <3>3. QED BY <1>1, <3>1, <3>2
    <2>3. QED BY <1>1, <2>1, <2>2
  <1>5. Members(t) = Members(s) \cup {e}
    <2>1. ASSUME NEW i \in 1 .. n + 1 PROVE t[i] \in Members(s) \cup {e}
      <3> HIDE DEF from
      <3>1. QED BY <1>1, <1>2, <1>4 DEF Members
    <2>2. ASSUME NEW i \in 1 .. n PROVE s[i] \in Members(t)
      <3>1. CASE i <= k
        <4>1. i \in 1 .. k /\ i \in DOMAIN t
          BY <1>1, <1>3, <3>1
        <4>2. QED BY <1>2, <4>1 DEF Members
      <3>2. CASE i > k
        <4>1. i \in k + 1 .. n /\ i + 1 \in DOMAIN t
          BY <1>1, <1>3, <3>2
        <4>2. QED BY <1>2, <4>1 DEF Members
      <3>3. QED BY <1>1, <3>1, <3>2
    <2>3. e \in Members(t)
      <3>1. k + 1 \in DOMAIN t
        BY <1>1, <1>3
      <3>2. QED BY <1>2, <3>1 DEF Members
    <2>4. QED BY <1>1, <1>3, <2>1, <2>2, <2>3 DEF Members
  <1>6. ASSUME Distinct(s), e \notin Members(s) PROVE Distinct(t)
    <2>1. SUFFICES ASSUME NEW i \in 1 .. n + 1, NEW j \in 1 .. n + 1, t[i] = t[j]
                   PROVE  i = j
      BY <1>3 DEF Distinct
    <2>2. \A m \in 1 .. n + 1 : m # k + 1 => t[m] # e
      <3> HIDE DEF from
      <3>1. QED BY <1>1, <1>4, <1>6 DEF Members
    <2>3. CASE i = k + 1 \/ j = k + 1
      BY <1>2, <2>1, <2>2, <2>3
    <2>4. CASE i # k + 1 /\ j # k + 1
      <3>1. from(i) \in 1 .. n /\ from(j) \in 1 .. n /\ s[from(i)] = s[from(j)]
        <4> HIDE DEF from
        <4>1. QED BY <1>4, <2>1, <2>4
      <3>2. from(i) = from(j)
        <4> HIDE DEF from
        <4>1. QED BY <1>1, <1>6, <3>1 DEF Distinct
      <3>3. QED BY <1>1, <2>4, <3>2
    <2>5. QED BY <2>3, <2>4
  <1>7. QED BY <1>5, <1>6 DEF t

-----------------------------------------------------------------------------
(***************************************************************************)
(* The inductive invariant.                                                *)
(***************************************************************************)
\* The links the other way.
BackChained(link, s) ==
    \A i \in 1 .. Len(s) : link[s[i]] = IF i > 1 THEN s[i - 1] ELSE NULL

FirstOf(s) == IF Len(s) = 0 THEN NULL ELSE s[1]
LastOf(s) == IF Len(s) = 0 THEN NULL ELSE s[Len(s)]

\* A head and the links of its elements are those of the sequence s.
Linked(s, first, last, next, prev, count) ==
    /\ s \in Seq(Elems) /\ Distinct(s)
    /\ Chained(next, s) /\ BackChained(prev, s)
    /\ first = FirstOf(s) /\ last = LastOf(s)
    /\ count = Len(s)

LinkTypes ==
    /\ lh_first \in [Heads -> Elems \cup {NULL}]
    /\ lh_last \in [Heads -> Elems \cup {NULL}]
    /\ size \in [Heads -> Nat]
    /\ le_next \in [Elems -> Elems \cup {NULL}]
    /\ le_prev \in [Elems -> Elems \cup {NULL}]

AllLinked ==
    \A h \in Heads :
      Linked(ElemsOf(h), lh_first[h], lh_last[h], le_next, le_prev, size[h])

\* No element is in two lists.
Apart ==
    \A g, h \in Heads : g # h => Members(ElemsOf(g)) \cap Members(ElemsOf(h)) = {}

LinkInv == LinkTypes /\ AllLinked /\ Apart

\* A loop over the list s, which goes on with q.
LoopTypes(l) ==
    /\ l \in [list : Heads, var : Elems, start : Seq(Elems), visited : Seq(Elems),
             kept : SUBSET Elems]
    /\ Distinct(l.start) /\ Distinct(l.visited)
    /\ Len(l.visited) > 0 /\ l.var = l.visited[Len(l.visited)]
    /\ l.kept \subseteq Members(l.start)

\* What the loop has passed and the body left in the list is before the place
\* it goes on at, and what it has yet to visit is there or behind it.
AtPlace(l, s, q) ==
    /\ q # NULL => /\ q \in Members(s)
                   /\ \A x \in Members(l.visited) \cap Members(s) : Precedes(s, x, q)
    /\ \A x \in l.kept \ Members(l.visited) :
         q # NULL /\ (x = q \/ Precedes(s, q, x))

\* The elements that were there from the beginning are still in the list, in the
\* order of then, and so are those of them that the loop has visited.
InOrder(l, s) ==
    /\ l.kept \subseteq Members(s)
    /\ \A x, y \in l.kept : Precedes(s, x, y) => Precedes(l.start, x, y)
    /\ \A i, j \in DOMAIN l.visited :
         i < j /\ {l.visited[i], l.visited[j]} \subseteq l.kept
           => Precedes(l.start, l.visited[i], l.visited[j])

Looping(l, s, q) == LoopTypes(l) /\ AtPlace(l, s, q) /\ InOrder(l, s)

LoopInv ==
    /\ ptr_next \in [Heads -> Elems \cup {NULL}]
    /\ loop # NoLoop => Looping(loop, ElemsOf(loop.list), ptr_next[loop.list])

ListsInv == LinkInv /\ LoopInv

-----------------------------------------------------------------------------
(***************************************************************************)
(* What the walks find in a list whose links are right.                    *)
(***************************************************************************)
\* The reverse of a sequence.
LEMMA ReversedShape ==
    ASSUME NEW s \in Seq(Elems)
    PROVE  /\ Reversed(s) \in Seq(Elems)
           /\ Len(Reversed(s)) = Len(s)
           /\ Len(s) \in Nat
           /\ \A i \in 1 .. Len(s) : Reversed(s)[i] = s[Len(s) + 1 - i]
           /\ Distinct(s) => Distinct(Reversed(s))
  <1> DEFINE r == Reversed(s)
             n == Len(s)
  <1>1. n \in Nat /\ DOMAIN s = 1 .. n /\ \A i \in 1 .. n : s[i] \in Elems
    <2>1. \A i \in 1 .. n : s[i] \in Elems
      BY ElementOfSeq
    <2>2. QED BY <2>1, LenProperties
  <1>2. r = [i \in 1 .. n |-> s[n + 1 - i]]
    BY <1>1 DEF Reversed
  <1> HIDE DEF r, n
  <1>3. \A i \in 1 .. n : n + 1 - i \in 1 .. n
    BY <1>1
  <1>4. r \in [1 .. n -> Elems]
    BY <1>1, <1>2, <1>3
  <1>5. r \in Seq(Elems) /\ Len(r) = n /\ DOMAIN r = 1 .. n
    <2>1. r \in Seq(Elems)
      BY <1>1, <1>4, SeqDef
    <2>2. DOMAIN r = 1 .. n /\ DOMAIN r = 1 .. Len(r) /\ Len(r) \in Nat
      BY <1>4, <2>1, LenProperties
    <2>3. QED BY <1>1, <2>1, <2>2
  <1>6. \A i \in 1 .. n : r[i] = s[n + 1 - i]
    BY <1>2
  <1>7. ASSUME Distinct(s) PROVE Distinct(r)
    <2> SUFFICES ASSUME NEW i \in 1 .. n, NEW j \in 1 .. n, r[i] = r[j]
                 PROVE  i = j
      BY <1>5 DEF Distinct
    <2>1. n + 1 - i = n + 1 - j
      BY <1>1, <1>3, <1>6, <1>7 DEF Distinct
    <2>2. QED BY <1>1, <2>1
  <1>8. QED BY <1>1, <1>5, <1>6, <1>7 DEF r, n

\* A walk from the first element finds the sequence, one from the last its
\* reverse.
LEMMA WalksFind ==
    ASSUME NEW s, NEW f, NEW l, NEW n, NEW p, NEW c, Linked(s, f, l, n, p, c)
    PROVE  Chain(n, f) = s /\ Chain(p, l) = Reversed(s)
  <1>1. /\ s \in Seq(Elems) /\ Distinct(s) /\ Len(s) \in Nat
        /\ Chained(n, s) /\ BackChained(p, s)
        /\ f = FirstOf(s) /\ l = LastOf(s)
    BY LenProperties DEF Linked
  <1>2. CASE s = << >>
    <2>1. f = NULL /\ l = NULL
      BY <1>1, <1>2 DEF FirstOf, LastOf
    <2>2. Chain(n, f) = << >> /\ Chain(p, l) = << >>
      BY <2>1, Zenon DEF Chain
    <2>3. Reversed(s) = << >>
      <3>1. Reversed(s) \in Seq(Elems) /\ Len(Reversed(s)) = 0
        BY <1>1, <1>2, ReversedShape
      <3>2. QED BY <3>1, EmptySeq
    <2>4. QED BY <1>2, <2>2, <2>3
  <1>3. CASE s # << >>
    <2>1. Len(s) > 0
      BY <1>1, <1>3, EmptySeq
    <2>2. Chain(n, s[1]) = s
      BY <1>1, <1>3, ChainOfSequence
    <2> DEFINE r == Reversed(s)
               m == Len(s)
    <2>3. /\ r \in Seq(Elems) /\ Len(r) = m /\ Distinct(r)
          /\ \A i \in 1 .. m : r[i] = s[m + 1 - i]
      BY <1>1, ReversedShape
    <2>4. /\ m \in Nat /\ m > 0
          /\ \A i \in 1 .. m : p[s[i]] = IF i > 1 THEN s[i - 1] ELSE NULL
      BY <1>1, <2>1 DEF BackChained
    <2> HIDE DEF r, m
    <2>5. Chained(p, r)
      <3> SUFFICES ASSUME NEW i \in 1 .. m
                   PROVE  p[r[i]] = IF i < m THEN r[i + 1] ELSE NULL
        BY <2>3 DEF Chained
      <3>1. /\ m + 1 - i \in 1 .. m /\ (m + 1 - i > 1 <=> i < m)
            /\ (m + 1 - i) - 1 = m - i
        BY <2>4
      <3>2. p[r[i]] = IF m + 1 - i > 1 THEN s[(m + 1 - i) - 1] ELSE NULL
        BY <2>3, <2>4, <3>1
      <3>3. i < m => r[i + 1] = s[m - i]
        <4> SUFFICES ASSUME i < m PROVE r[i + 1] = s[m - i]
          OBVIOUS
        <4>1. i + 1 \in 1 .. m /\ m + 1 - (i + 1) = m - i
          BY <2>4
        <4>2. QED BY <2>3, <4>1
      <3>4. QED BY <3>1, <3>2, <3>3
    <2>6. r # << >> /\ r[1] = s[m]
      <3>1. 1 \in 1 .. m /\ m + 1 - 1 = m
        BY <2>4
      <3>2. r[1] = s[m]
        BY <2>3, <3>1
      <3>3. QED BY <2>3, <2>4, <3>2, EmptySeq
    <2>7. Chain(p, r[1]) = r
      BY <2>3, <2>5, <2>6, ChainOfSequence
    <2>8. f = s[1] /\ l = s[m]
      BY <1>1, <2>1 DEF FirstOf, LastOf, m
    <2>9. QED BY <2>2, <2>6, <2>7, <2>8 DEF r
  <1>4. QED BY <1>2, <1>3

\* The invariant makes a list the same both ways.
LEMMA LinkedBothWays == LinkInv => BothWays
  <1> SUFFICES ASSUME LinkInv, NEW h \in Heads
               PROVE  /\ Chain(le_prev, lh_last[h]) = Reversed(ElemsOf(h))
                      /\ size[h] = Len(ElemsOf(h))
    BY Zenon DEF BothWays
  <1>1. Linked(ElemsOf(h), lh_first[h], lh_last[h], le_next, le_prev, size[h])
    BY DEF LinkInv, AllLinked
  <1>2. Chain(le_prev, lh_last[h]) = Reversed(ElemsOf(h))
    BY <1>1, WalksFind
  <1>3. size[h] = Len(ElemsOf(h))
    BY <1>1 DEF Linked
  <1>4. QED BY <1>2, <1>3

-----------------------------------------------------------------------------
(***************************************************************************)
(* Links after an element was put in or taken out.                         *)
(***************************************************************************)
\* What is behind place k of a sequence, and what is at it.
Behind(s, k) == IF k < Len(s) THEN s[k + 1] ELSE NULL
Before(s, k) == IF k > 0 THEN s[k] ELSE NULL

\* The links of s with e put in behind the place k, where the links of s were
\* n and p.
LEMMA PutLinked ==
    ASSUME NEW s, NEW f, NEW l, NEW n, NEW p, NEW c, Linked(s, f, l, n, p, c),
           NEW k \in 0 .. Len(s), NEW e \in Elems, e \notin Members(s),
           NEW f2, NEW l2, NEW n2, NEW p2, NEW c2,
           n2[e] = Behind(s, k), p2[e] = Before(s, k),
           \A i \in 1 .. Len(s) : n2[s[i]] = IF i = k THEN e ELSE n[s[i]],
           \A i \in 1 .. Len(s) : p2[s[i]] = IF i = k + 1 THEN e ELSE p[s[i]],
           f2 = IF k = 0 THEN e ELSE f,
           l2 = IF k = Len(s) THEN e ELSE l,
           c2 = c + 1
    PROVE  Linked(Inserted(s, k, e), f2, l2, n2, p2, c2)
  <1> DEFINE m == Len(s)
             t == Inserted(s, k, e)
  <1>1. /\ s \in Seq(Elems) /\ Distinct(s) /\ m \in Nat /\ c = m
        /\ f = FirstOf(s) /\ l = LastOf(s)
        /\ k \in Nat /\ k <= m
    BY LenProperties DEF Linked
  <1>2. /\ \A i \in 1 .. m : n[s[i]] = IF i < m THEN s[i + 1] ELSE NULL
        /\ \A i \in 1 .. m : p[s[i]] = IF i > 1 THEN s[i - 1] ELSE NULL
    BY DEF Linked, Chained, BackChained
  <1>3. t \in Seq(Elems) /\ Len(t) = m + 1
    BY <1>1, InsertedShape
  <1>4. /\ \A i \in 1 .. k : t[i] = s[i]
        /\ t[k + 1] = e
    BY <1>1, InsertedShape
  <1>5. \A i \in k + 1 .. m : t[i + 1] = s[i]
    BY <1>1, InsertedShape
  <1>6. Distinct(t)
    BY <1>1, InsertedElements
  <1> HIDE DEF t, m
  <1>7. \A i \in k + 2 .. m + 1 : t[i] = s[i - 1]
    <2> TAKE i \in k + 2 .. m + 1
    <2>1. i - 1 \in k + 1 .. m /\ (i - 1) + 1 = i
      BY <1>1
    <2>2. QED BY <1>5, <2>1
  <1>8. Chained(n2, t)
    <2> SUFFICES ASSUME NEW i \in 1 .. m + 1
                 PROVE  n2[t[i]] = IF i < m + 1 THEN t[i + 1] ELSE NULL
      BY <1>3 DEF Chained
    <2>1. CASE i < k
      <3>1. i \in 1 .. m /\ i \in 1 .. k /\ i + 1 \in 1 .. k /\ i < m /\ i # k /\ i < m + 1
        BY <1>1, <2>1
      <3>2. n2[s[i]] = n[s[i]] /\ n[s[i]] = s[i + 1]
        BY <1>2, <3>1 DEF m
      <3>3. QED BY <1>4, <3>1, <3>2
    <2>2. CASE i = k
      <3>1. i \in 1 .. m /\ i \in 1 .. k /\ i < m + 1
        BY <1>1, <2>2
      <3>2. n2[s[i]] = e
        BY <2>2, <3>1 DEF m
      <3>3. QED BY <1>4, <2>2, <3>1, <3>2
    <2>3. CASE i = k + 1
      <3>1. CASE k < m
        <4>1. k + 1 \in k + 1 .. m
          BY <1>1, <3>1
        <4>2. n2[e] = s[k + 1] /\ t[k + 1 + 1] = s[k + 1]
          BY <1>5, <3>1, <4>1 DEF Behind, m
        <4>3. QED BY <1>1, <1>4, <2>3, <3>1, <4>2
      <3>2. CASE k = m
        <4>1. n2[e] = NULL
          BY <1>1, <3>2 DEF Behind, m
        <4>2. QED BY <1>1, <1>4, <2>3, <3>2, <4>1
      <3>3. QED BY <1>1, <3>1, <3>2
    <2>4. CASE i > k + 1
      <3>1. /\ i - 1 \in 1 .. m /\ i - 1 # k /\ i \in k + 2 .. m + 1
            /\ (i - 1 < m <=> i < m + 1) /\ (i - 1) + 1 = i
        BY <1>1, <2>4
      <3>2. n2[s[i - 1]] = IF i < m + 1 THEN s[i] ELSE NULL
        <4>1. n2[s[i - 1]] = n[s[i - 1]]
          BY <3>1 DEF m
        <4>2. n[s[i - 1]] = IF i - 1 < m THEN s[(i - 1) + 1] ELSE NULL
          BY <1>2, <3>1
        <4>3. QED BY <3>1, <4>1, <4>2
      <3>3. i < m + 1 => t[i + 1] = s[i]
        BY <1>1, <1>5, <2>4
      <3>4. QED BY <1>7, <3>1, <3>2, <3>3
    <2>5. QED BY <1>1, <2>1, <2>2, <2>3, <2>4
  <1>9. BackChained(p2, t)
    <2> SUFFICES ASSUME NEW i \in 1 .. m + 1
                 PROVE  p2[t[i]] = IF i > 1 THEN t[i - 1] ELSE NULL
      BY <1>3 DEF BackChained
    <2>1. CASE i <= k
      <3>1. i \in 1 .. m /\ i \in 1 .. k /\ i # k + 1 /\ (i > 1 => i - 1 \in 1 .. k)
        BY <1>1, <2>1
      <3>2. p2[s[i]] = IF i > 1 THEN s[i - 1] ELSE NULL
        <4>1. p2[s[i]] = p[s[i]]
          BY <3>1 DEF m
        <4>2. QED BY <1>2, <3>1, <4>1
      <3>3. QED BY <1>4, <3>1, <3>2
    <2>2. CASE i = k + 1
      <3>1. CASE k > 0
        <4>1. i > 1 /\ i - 1 = k /\ k \in 1 .. k
          BY <1>1, <2>2, <3>1
        <4>2. p2[e] = s[k]
          BY <3>1 DEF Before
        <4>3. QED BY <1>4, <2>2, <4>1, <4>2
      <3>2. CASE k = 0
        <4>1. p2[e] = NULL
          BY <3>2 DEF Before
        <4>2. QED BY <1>4, <2>2, <3>2, <4>1
      <3>3. QED BY <1>1, <3>1, <3>2
    <2>3. CASE i = k + 2
      <3>1. /\ k + 1 \in 1 .. m /\ i - 1 = k + 1 /\ i > 1 /\ i \in k + 2 .. m + 1
        BY <1>1, <2>3
      <3>2. p2[s[k + 1]] = e
        BY <3>1 DEF m
      <3>3. QED BY <1>4, <1>7, <3>1, <3>2
    <2>4. CASE i > k + 2
      <3>1. /\ i - 1 \in 1 .. m /\ i - 1 # k + 1 /\ i - 1 > 1 /\ i > 1
            /\ i \in k + 2 .. m + 1 /\ i - 1 \in k + 2 .. m + 1
        BY <1>1, <2>4
      <3>2. p2[s[i - 1]] = p[s[i - 1]]
        BY <3>1 DEF m
      <3>3. p[s[i - 1]] = s[(i - 1) - 1]
        BY <1>2, <3>1
      <3>4. t[i] = s[i - 1] /\ t[i - 1] = s[(i - 1) - 1]
        BY <1>7, <3>1
      <3>5. QED BY <3>1, <3>2, <3>3, <3>4
    <2>5. QED BY <1>1, <2>1, <2>2, <2>3, <2>4
  <1>10. f2 = FirstOf(t)
    <2>1. FirstOf(t) = t[1]
      BY <1>1, <1>3 DEF FirstOf
    <2>2. CASE k = 0
      BY <1>4, <2>1, <2>2
    <2>3. CASE k # 0
      <3>1. t[1] = s[1] /\ m # 0
        BY <1>1, <1>4, <2>3
      <3>2. f = s[1]
        BY <1>1, <3>1 DEF FirstOf, m
      <3>3. QED BY <2>1, <2>3, <3>1, <3>2
    <2>4. QED BY <2>2, <2>3
  <1>11. l2 = LastOf(t)
    <2>1. LastOf(t) = t[m + 1]
      BY <1>1, <1>3 DEF LastOf
    <2>2. CASE k = m
      BY <1>4, <2>1, <2>2 DEF m
    <2>3. CASE k # m
      <3>1. m + 1 \in k + 2 .. m + 1 /\ (m + 1) - 1 = m /\ m # 0
        BY <1>1, <2>3
      <3>2. t[m + 1] = s[m]
        BY <1>7, <3>1
      <3>3. l = s[m]
        BY <1>1, <3>1 DEF LastOf, m
      <3>4. QED BY <2>1, <2>3, <3>2, <3>3 DEF m
    <2>4. QED BY <2>2, <2>3
  <1>12. c2 = Len(t)
    BY <1>1, <1>3
  <1>13. Linked(t, f2, l2, n2, p2, c2)
    BY <1>3, <1>6, <1>8, <1>9, <1>10, <1>11, <1>12 DEF Linked
  <1>14. QED BY <1>13 DEF t

\* Links n and p become n2 and p2 when the element at place k of s is taken out.
TakenOut(s, k, n, p, n2, p2) ==
    \A i \in 1 .. Len(s) : i # k =>
      /\ n2[s[i]] = IF i = k - 1 THEN Behind(s, k) ELSE n[s[i]]
      /\ p2[s[i]] = IF i = k + 1 THEN Before(s, k - 1) ELSE p[s[i]]

\* The links of s with the element at place k taken out.
LEMMA TakeLinked ==
    ASSUME NEW s, NEW f, NEW l, NEW n, NEW p, NEW c, Linked(s, f, l, n, p, c),
           NEW k \in 1 .. Len(s),
           NEW f2, NEW l2, NEW n2, NEW p2, NEW c2,
           TakenOut(s, k, n, p, n2, p2),
           f2 = IF k = 1 THEN Behind(s, k) ELSE f,
           l2 = IF k = Len(s) THEN Before(s, k - 1) ELSE l,
           c2 = c - 1
    PROVE  Linked(RemoveAt(s, k), f2, l2, n2, p2, c2)
  <1> DEFINE m == Len(s)
             t == RemoveAt(s, k)
  <1>1. /\ s \in Seq(Elems) /\ Distinct(s) /\ m \in Nat /\ c = m
        /\ f = FirstOf(s) /\ l = LastOf(s)
        /\ k \in Nat /\ 1 <= k /\ k <= m /\ k \in DOMAIN s
    BY LenProperties DEF Linked
  <1>2. /\ \A i \in 1 .. m : n[s[i]] = IF i < m THEN s[i + 1] ELSE NULL
        /\ \A i \in 1 .. m : p[s[i]] = IF i > 1 THEN s[i - 1] ELSE NULL
    BY DEF Linked, Chained, BackChained
  <1>2a. \A i \in 1 .. m : i # k =>
           /\ n2[s[i]] = IF i = k - 1 THEN Behind(s, k) ELSE n[s[i]]
           /\ p2[s[i]] = IF i = k + 1 THEN Before(s, k - 1) ELSE p[s[i]]
    BY DEF TakenOut
  <1>3. t \in Seq(Elems) /\ Len(t) = m - 1
    BY <1>1, RemoveAtShape
  <1>4. \A i \in 1 .. k - 1 : t[i] = s[i]
    BY <1>1, RemoveAtShape
  <1>5. \A i \in k .. m - 1 : t[i] = s[i + 1]
    BY <1>1, RemoveAtShape
  <1>6. Distinct(t)
    BY <1>1, RemoveAtElements
  <1> HIDE DEF t, m
  <1>7. Chained(n2, t)
    <2> SUFFICES ASSUME NEW i \in 1 .. m - 1
                 PROVE  n2[t[i]] = IF i < m - 1 THEN t[i + 1] ELSE NULL
      BY <1>3 DEF Chained
    <2>1. CASE i < k - 1
      <3>1. /\ i \in 1 .. m /\ i \in 1 .. k - 1 /\ i + 1 \in 1 .. k - 1
            /\ i < m /\ i # k /\ i # k - 1 /\ i < m - 1
        BY <1>1, <2>1
      <3>2. n2[s[i]] = n[s[i]] /\ n[s[i]] = s[i + 1]
        BY <1>2a, <1>2, <3>1
      <3>3. QED BY <1>4, <3>1, <3>2
    <2>2. CASE i = k - 1
      <3>1. i \in 1 .. m /\ i \in 1 .. k - 1 /\ i # k
        BY <1>1, <2>2
      <3>2. n2[s[i]] = Behind(s, k)
        BY <1>2a, <2>2, <3>1
      <3>3. i < m - 1 => t[i + 1] = s[k + 1] /\ k < m
        BY <1>1, <1>5, <2>2
      <3>4. ~(i < m - 1) => ~(k < m)
        BY <1>1, <2>2
      <3>5. QED BY <1>4, <3>1, <3>2, <3>3, <3>4 DEF Behind, m
    <2>3. CASE i >= k
      <3>1. /\ i + 1 \in 1 .. m /\ i + 1 # k /\ i + 1 # k - 1 /\ i \in k .. m - 1
            /\ (i + 1 < m <=> i < m - 1)
        BY <1>1, <2>3
      <3>2. n2[s[i + 1]] = n[s[i + 1]]
        BY <1>2a, <3>1
      <3>3. n[s[i + 1]] = IF i + 1 < m THEN s[i + 1 + 1] ELSE NULL
        BY <1>2, <3>1
      <3>4. i < m - 1 => t[i + 1] = s[i + 1 + 1]
        BY <1>1, <1>5, <2>3
      <3>5. QED BY <1>5, <3>1, <3>2, <3>3, <3>4
    <2>4. QED BY <1>1, <2>1, <2>2, <2>3
  <1>8. BackChained(p2, t)
    <2> SUFFICES ASSUME NEW i \in 1 .. m - 1
                 PROVE  p2[t[i]] = IF i > 1 THEN t[i - 1] ELSE NULL
      BY <1>3 DEF BackChained
    <2>1. CASE i < k
      <3>1. /\ i \in 1 .. m /\ i \in 1 .. k - 1 /\ i # k /\ i # k + 1
            /\ (i > 1 => i - 1 \in 1 .. k - 1)
        BY <1>1, <2>1
      <3>2. p2[s[i]] = p[s[i]]
        BY <1>2a, <3>1
      <3>3. QED BY <1>2, <1>4, <3>1, <3>2
    <2>2. CASE i = k
      <3>1. /\ k + 1 \in 1 .. m /\ k + 1 # k /\ k \in k .. m - 1
            /\ (k > 1 <=> k - 1 > 0) /\ (k > 1 => k - 1 \in 1 .. k - 1)
        BY <1>1, <2>2
      <3>2. p2[s[k + 1]] = Before(s, k - 1)
        BY <1>2a, <3>1
      <3>3. t[i] = s[k + 1]
        BY <1>5, <2>2, <3>1
      <3>4. QED BY <1>4, <2>2, <3>1, <3>2, <3>3 DEF Before
    <2>3. CASE i > k
      <3>1. /\ i + 1 \in 1 .. m /\ i + 1 # k /\ i + 1 # k + 1 /\ i \in k .. m - 1
            /\ i - 1 \in k .. m - 1 /\ i + 1 > 1 /\ i > 1
            /\ (i + 1) - 1 = i /\ (i - 1) + 1 = i
        BY <1>1, <2>3
      <3>2. p2[s[i + 1]] = p[s[i + 1]]
        BY <1>2a, <3>1
      <3>3. p[s[i + 1]] = s[(i + 1) - 1]
        BY <1>2, <3>1
      <3>4. t[i] = s[i + 1] /\ t[i - 1] = s[(i - 1) + 1]
        BY <1>5, <3>1
      <3>5. QED BY <3>1, <3>2, <3>3, <3>4
    <2>4. QED BY <1>1, <2>1, <2>2, <2>3
  <1>9. f2 = FirstOf(t)
    <2>1. CASE k = 1
      <3>1. k < m => t[1] = s[k + 1]
        BY <1>1, <1>5, <2>1
      <3>2. k < m <=> m - 1 # 0
        BY <1>1, <2>1
      <3>3. QED BY <1>3, <2>1, <3>1, <3>2 DEF FirstOf, Behind, m
    <2>2. CASE k # 1
      <3>1. t[1] = s[1] /\ m # 0 /\ m - 1 # 0
        BY <1>1, <1>4, <2>2
      <3>2. f2 = s[1]
        BY <1>1, <2>2, <3>1 DEF FirstOf, m
      <3>3. QED BY <1>3, <3>1, <3>2 DEF FirstOf
    <2>3. QED BY <2>1, <2>2
  <1>10. l2 = LastOf(t)
    <2>1. CASE k = m
      <3>1. k - 1 > 0 => t[m - 1] = s[k - 1]
        BY <1>1, <1>4, <2>1
      <3>2. k - 1 > 0 <=> m - 1 # 0
        BY <1>1, <2>1
      <3>3. l2 = Before(s, k - 1)
        BY <2>1 DEF m
      <3>4. QED BY <1>3, <3>1, <3>2, <3>3 DEF LastOf, Before
    <2>2. CASE k # m
      <3>1. m - 1 \in k .. m - 1 /\ (m - 1) + 1 = m /\ m - 1 # 0 /\ m # 0
        BY <1>1, <2>2
      <3>2. t[m - 1] = s[m]
        BY <1>5, <3>1
      <3>3. l2 = l /\ l = s[m]
        BY <1>1, <2>2, <3>1 DEF LastOf, m
      <3>4. QED BY <1>3, <3>1, <3>2, <3>3 DEF LastOf
    <2>3. QED BY <2>1, <2>2
  <1>11. c2 = Len(t)
    BY <1>1, <1>3
  <1>12. Linked(t, f2, l2, n2, p2, c2)
    BY <1>3, <1>6, <1>7, <1>8, <1>9, <1>10, <1>11 DEF Linked
  <1>13. QED BY <1>12 DEF t

\* Links that are the same for the elements of a list are still those of it.
LEMMA SameLinked ==
    ASSUME NEW s, NEW f, NEW l, NEW n, NEW p, NEW c, Linked(s, f, l, n, p, c),
           NEW n2, NEW p2, \A x \in Members(s) : n2[x] = n[x] /\ p2[x] = p[x]
    PROVE  Linked(s, f, l, n2, p2, c)
  <1>1. s \in Seq(Elems) /\ DOMAIN s = 1 .. Len(s)
    BY LenProperties DEF Linked
  <1>2. \A i \in 1 .. Len(s) : n2[s[i]] = n[s[i]] /\ p2[s[i]] = p[s[i]]
    BY <1>1 DEF Members
  <1>3. Chained(n2, s)
    BY <1>2 DEF Linked, Chained
  <1>4. BackChained(p2, s)
    BY <1>2 DEF Linked, BackChained
  <1>5. QED BY <1>3, <1>4 DEF Linked

\* What a list holds: elements, each at a place of its own.
LEMMA ListShape ==
    ASSUME LinkInv, NEW h \in Heads
    PROVE  /\ ElemsOf(h) \in Seq(Elems) /\ Distinct(ElemsOf(h))
           /\ Len(ElemsOf(h)) \in Nat
           /\ DOMAIN ElemsOf(h) = 1 .. Len(ElemsOf(h))
           /\ \A i \in 1 .. Len(ElemsOf(h)) : ElemsOf(h)[i] \in Elems
           /\ Members(ElemsOf(h)) \subseteq Elems
           /\ \A i, j \in 1 .. Len(ElemsOf(h)) :
                ElemsOf(h)[i] = ElemsOf(h)[j] => i = j
           /\ NULL \notin Elems
  <1> DEFINE s == ElemsOf(h)
  <1>1. s \in Seq(Elems) /\ Distinct(s)
    BY DEF LinkInv, AllLinked, Linked
  <1> HIDE DEF s
  <1>2. Len(s) \in Nat /\ DOMAIN s = 1 .. Len(s)
    BY <1>1, LenProperties
  <1>3. \A i \in 1 .. Len(s) : s[i] \in Elems
    BY <1>1, ElementOfSeq
  <1>4. Members(s) \subseteq Elems
    BY <1>2, <1>3 DEF Members
  <1>5. \A i, j \in 1 .. Len(s) : s[i] = s[j] => i = j
    BY <1>1, <1>2 DEF Distinct
  <1>6. QED BY <1>1, <1>2, <1>3, <1>4, <1>5, ListsAssumption DEF s

-----------------------------------------------------------------------------
(***************************************************************************)
(* What the macros do to the links, in terms of the sequences.             *)
(***************************************************************************)
\* The links when e is put into list h behind the place k.
Puts(h, e, k) ==
    /\ le_next' = [x \in Elems |-> IF x = e THEN Behind(ElemsOf(h), k)
                                   ELSE IF x = Before(ElemsOf(h), k) THEN e ELSE le_next[x]]
    /\ le_prev' = [x \in Elems |-> IF x = e THEN Before(ElemsOf(h), k)
                                   ELSE IF x = Behind(ElemsOf(h), k) THEN e ELSE le_prev[x]]
    /\ lh_first' = [lh_first EXCEPT ![h] = IF k = 0 THEN e ELSE @]
    /\ lh_last' = [lh_last EXCEPT ![h] = IF k = Len(ElemsOf(h)) THEN e ELSE @]
    /\ size' = [size EXCEPT ![h] = @ + 1]

\* The links when the element at place k is taken out of list h.
Takes(h, k) ==
    LET s == ElemsOf(h)
    IN  /\ le_next' = [x \in Elems |-> IF x = s[k] THEN NULL
                                       ELSE IF x = Before(s, k - 1) THEN Behind(s, k)
                                       ELSE le_next[x]]
        /\ le_prev' = [x \in Elems |-> IF x = s[k] THEN NULL
                                       ELSE IF x = Behind(s, k) THEN Before(s, k - 1)
                                       ELSE le_prev[x]]
        /\ lh_first' = [lh_first EXCEPT ![h] = IF k = 1 THEN Behind(s, k) ELSE @]
        /\ lh_last' = [lh_last EXCEPT ![h] = IF k = Len(s) THEN Before(s, k - 1) ELSE @]
        /\ size' = [size EXCEPT ![h] = @ - 1]

\* An element that is put into a list is in it behind its first k elements, and
\* the other lists are what they were.
LEMMA PutStep ==
    ASSUME LinkInv, NEW h \in Heads, NEW e \in Elems, Free(e),
           NEW k \in 0 .. Len(ElemsOf(h)), Puts(h, e, k)
    PROVE  /\ LinkInv'
           /\ ElemsOf(h)' = Inserted(ElemsOf(h), k, e)
           /\ \A g \in Heads : g # h => ElemsOf(g)' = ElemsOf(g)
  <1> DEFINE s == ElemsOf(h)
             t == Inserted(s, k, e)
  <1>1. /\ s \in Seq(Elems) /\ Distinct(s)
        /\ Len(s) \in Nat
        /\ \A i \in 1 .. Len(s) : s[i] \in Elems
        /\ \A i, j \in 1 .. Len(s) : s[i] = s[j] => i = j
        /\ NULL \notin Elems
        /\ DOMAIN s = 1 .. Len(s)
    BY ListShape
  <1>2. \A g \in Heads : e \notin Members(ElemsOf(g))
    BY DEF Free, In
  <1>3. Linked(s, lh_first[h], lh_last[h], le_next, le_prev, size[h])
    BY DEF LinkInv, AllLinked
  <1>4. e \notin Members(s) /\ \A i \in 1 .. Len(s) : s[i] # e
    BY <1>1, <1>2 DEF Members
  <1>5. /\ Behind(s, k) \in Elems \cup {NULL} /\ Before(s, k) \in Elems \cup {NULL}
        /\ \A i \in 1 .. Len(s) : s[i] = Before(s, k) <=> i = k
        /\ \A i \in 1 .. Len(s) : s[i] = Behind(s, k) <=> i = k + 1
    <2> HIDE DEF s
    <2>1. k \in 0 .. Len(s)
      BY DEF s
    <2>2. QED BY <1>1, <2>1 DEF Behind, Before
  <1>6. LinkTypes
    BY DEF LinkInv
  <1>7. /\ \A x \in Elems : le_next'[x] = IF x = e THEN Behind(s, k)
                                         ELSE IF x = Before(s, k) THEN e ELSE le_next[x]
        /\ \A x \in Elems : le_prev'[x] = IF x = e THEN Before(s, k)
                                         ELSE IF x = Behind(s, k) THEN e ELSE le_prev[x]
        /\ lh_first'[h] = IF k = 0 THEN e ELSE lh_first[h]
        /\ lh_last'[h] = IF k = Len(s) THEN e ELSE lh_last[h]
        /\ size'[h] = size[h] + 1
        /\ \A g \in Heads : g # h => /\ lh_first'[g] = lh_first[g]
                                     /\ lh_last'[g] = lh_last[g]
                                     /\ size'[g] = size[g]
    BY <1>6 DEF Puts, LinkTypes
  <1>8. LinkTypes'
    BY <1>5, <1>6 DEF Puts, LinkTypes
  <1> HIDE DEF s
  <1>9. Linked(t, lh_first'[h], lh_last'[h], le_next', le_prev', size'[h])
    <2>1. k \in 0 .. Len(s)
      BY DEF s
    <2>2. le_next'[e] = Behind(s, k) /\ le_prev'[e] = Before(s, k)
      BY <1>7, SMTT(60)
    <2>3. \A i \in 1 .. Len(s) : le_next'[s[i]] = IF i = k THEN e ELSE le_next[s[i]]
      BY <1>1, <1>4, <1>5, <1>7, ZenonT(60)
    <2>4. \A i \in 1 .. Len(s) : le_prev'[s[i]] = IF i = k + 1 THEN e ELSE le_prev[s[i]]
      BY <1>1, <1>4, <1>5, <1>7
    <2>5. QED BY <1>3, <1>4, <1>7, <2>1, <2>2, <2>3, <2>4, PutLinked
  <1>10. ElemsOf(h)' = t
    <2>1. Chain(le_next', lh_first'[h]) = t
      BY <1>9, WalksFind
    <2>2. QED BY <2>1 DEF ElemsOf
  <1>11. ASSUME NEW g \in Heads, g # h
         PROVE  /\ Linked(ElemsOf(g), lh_first'[g], lh_last'[g], le_next', le_prev', size'[g])
                /\ ElemsOf(g)' = ElemsOf(g)
    <2>1. Linked(ElemsOf(g), lh_first[g], lh_last[g], le_next, le_prev, size[g])
      BY DEF LinkInv, AllLinked
    <2>2. \A x \in Members(ElemsOf(g)) : x \in Elems /\ x # e /\ x \notin Members(s)
      BY <1>2, <1>11, ListShape DEF LinkInv, Apart, s
    <2>3. \A x \in Members(ElemsOf(g)) : x # Before(s, k) /\ x # Behind(s, k)
      <3>1. k \in 0 .. Len(s)
        BY DEF s
      <3>2. Before(s, k) \in Members(s) \cup {NULL}
        BY <1>1, <3>1 DEF Before, Members
      <3>3. Behind(s, k) \in Members(s) \cup {NULL}
        BY <1>1, <3>1 DEF Behind, Members
      <3>4. QED BY <1>1, <2>2, <3>2, <3>3
    <2>4. \A x \in Members(ElemsOf(g)) : le_next'[x] = le_next[x] /\ le_prev'[x] = le_prev[x]
      BY <1>7, <2>2, <2>3
    <2>5. Linked(ElemsOf(g), lh_first[g], lh_last[g], le_next', le_prev', size[g])
      BY <2>1, <2>4, SameLinked
    <2>6. Linked(ElemsOf(g), lh_first'[g], lh_last'[g], le_next', le_prev', size'[g])
      BY <1>7, <1>11, <2>5
    <2>7. Chain(le_next', lh_first'[g]) = ElemsOf(g)
      BY <2>6, WalksFind
    <2>8. QED BY <2>6, <2>7 DEF ElemsOf
  <1>12. AllLinked'
    <2> SUFFICES ASSUME NEW g \in Heads
                 PROVE  Linked(ElemsOf(g)', lh_first'[g], lh_last'[g], le_next', le_prev',
                               size'[g])
      BY DEF AllLinked
    <2>1. CASE g = h
      BY <1>9, <1>10, <2>1
    <2>2. CASE g # h
      BY <1>11, <2>2
    <2>3. QED BY <2>1, <2>2
  <1>13. Apart'
    <2> SUFFICES ASSUME NEW f \in Heads, NEW g \in Heads, f # g
                 PROVE  Members(ElemsOf(f)') \cap Members(ElemsOf(g)') = {}
      BY DEF Apart
    <2>1. Members(t) = Members(s) \cup {e}
      <3>1. k \in 0 .. Len(s)
        BY DEF s
      <3>2. QED BY <1>1, <3>1, InsertedElements
    <2>2. Members(ElemsOf(f)) \cap Members(ElemsOf(g)) = {}
      BY DEF LinkInv, Apart
    <2>3. CASE f = h
      BY <1>2, <1>10, <1>11, <2>1, <2>2, <2>3 DEF s
    <2>4. CASE g = h
      BY <1>2, <1>10, <1>11, <2>1, <2>2, <2>4 DEF s
    <2>5. CASE f # h /\ g # h
      BY <1>11, <2>2, <2>5
    <2>6. QED BY <2>3, <2>4, <2>5
  <1>14. QED BY <1>8, <1>10, <1>11, <1>12, <1>13 DEF LinkInv, s

\* An element that is taken out of a list is gone from it, and the other lists
\* are what they were.
LEMMA TakeStep ==
    ASSUME LinkInv, NEW h \in Heads, NEW k \in 1 .. Len(ElemsOf(h)), Takes(h, k)
    PROVE  /\ LinkInv'
           /\ ElemsOf(h)' = RemoveAt(ElemsOf(h), k)
           /\ \A g \in Heads : g # h => ElemsOf(g)' = ElemsOf(g)
  <1> DEFINE s == ElemsOf(h)
             t == RemoveAt(s, k)
  <1>1. /\ s \in Seq(Elems) /\ Distinct(s)
        /\ Len(s) \in Nat
        /\ \A i \in 1 .. Len(s) : s[i] \in Elems
        /\ \A i, j \in 1 .. Len(s) : s[i] = s[j] => i = j
        /\ NULL \notin Elems
        /\ DOMAIN s = 1 .. Len(s)
    BY ListShape
  <1>2. k \in 1 .. Len(s) /\ s[k] \in Members(s) /\ k \in DOMAIN s
    BY <1>1 DEF Members
  <1>3. Linked(s, lh_first[h], lh_last[h], le_next, le_prev, size[h])
    BY DEF LinkInv, AllLinked
  <1>6. LinkTypes
    BY DEF LinkInv
  <1>7. /\ \A x \in Elems : le_next'[x] = IF x = s[k] THEN NULL
                                          ELSE IF x = Before(s, k - 1) THEN Behind(s, k)
                                          ELSE le_next[x]
        /\ \A x \in Elems : le_prev'[x] = IF x = s[k] THEN NULL
                                          ELSE IF x = Behind(s, k) THEN Before(s, k - 1)
                                          ELSE le_prev[x]
        /\ lh_first'[h] = IF k = 1 THEN Behind(s, k) ELSE lh_first[h]
        /\ lh_last'[h] = IF k = Len(s) THEN Before(s, k - 1) ELSE lh_last[h]
        /\ size'[h] = size[h] - 1
        /\ \A g \in Heads : g # h => /\ lh_first'[g] = lh_first[g]
                                     /\ lh_last'[g] = lh_last[g]
                                     /\ size'[g] = size[g]
    BY <1>6 DEF Takes, LinkTypes
  <1>8. /\ le_next' = [x \in Elems |-> IF x = s[k] THEN NULL
                                       ELSE IF x = Before(s, k - 1) THEN Behind(s, k)
                                       ELSE le_next[x]]
        /\ le_prev' = [x \in Elems |-> IF x = s[k] THEN NULL
                                       ELSE IF x = Behind(s, k) THEN Before(s, k - 1)
                                       ELSE le_prev[x]]
        /\ lh_first' = [lh_first EXCEPT ![h] = IF k = 1 THEN Behind(s, k) ELSE @]
        /\ lh_last' = [lh_last EXCEPT ![h] = IF k = Len(s) THEN Before(s, k - 1) ELSE @]
        /\ size' = [size EXCEPT ![h] = @ - 1]
    BY DEF Takes
  <1> HIDE DEF s
  <1>5. /\ Behind(s, k) \in Elems \cup {NULL} /\ Before(s, k - 1) \in Elems \cup {NULL}
        /\ \A i \in 1 .. Len(s) : s[i] = Before(s, k - 1) <=> i = k - 1
        /\ \A i \in 1 .. Len(s) : s[i] = Behind(s, k) <=> i = k + 1
        /\ Behind(s, k) \in Members(s) \cup {NULL}
        /\ Before(s, k - 1) \in Members(s) \cup {NULL}
    <2>1. /\ Behind(s, k) \in Elems \cup {NULL} /\ Behind(s, k) \in Members(s) \cup {NULL}
          /\ \A i \in 1 .. Len(s) : s[i] = Behind(s, k) <=> i = k + 1
      BY <1>1, <1>2 DEF Behind, Members
    <2>2. /\ Before(s, k - 1) \in Elems \cup {NULL}
          /\ Before(s, k - 1) \in Members(s) \cup {NULL}
          /\ \A i \in 1 .. Len(s) : s[i] = Before(s, k - 1) <=> i = k - 1
      BY <1>1, <1>2 DEF Before, Members
    <2>3. QED BY <2>1, <2>2
  <1>9. LinkTypes'
    <2>1. size[h] - 1 \in Nat
      BY <1>1, <1>2, <1>3 DEF Linked
    <2>2. size' \in [Heads -> Nat]
      BY <1>6, <1>8, <2>1 DEF LinkTypes
    <2>3. QED BY <1>5, <1>6, <1>8, <2>2 DEF LinkTypes
  <1>10. Linked(t, lh_first'[h], lh_last'[h], le_next', le_prev', size'[h])
    <2>3. \A i \in 1 .. Len(s) : i # k =>
            le_next'[s[i]] = IF i = k - 1 THEN Behind(s, k) ELSE le_next[s[i]]
      BY <1>1, <1>2, <1>5, <1>7
    <2>4. \A i \in 1 .. Len(s) : i # k =>
            le_prev'[s[i]] = IF i = k + 1 THEN Before(s, k - 1) ELSE le_prev[s[i]]
      BY <1>1, <1>2, <1>5, <1>7
    <2>2. TakenOut(s, k, le_next, le_prev, le_next', le_prev')
      BY <2>3, <2>4 DEF TakenOut
    <2>5. /\ lh_first'[h] = IF k = 1 THEN Behind(s, k) ELSE lh_first[h]
          /\ lh_last'[h] = IF k = Len(s) THEN Before(s, k - 1) ELSE lh_last[h]
          /\ size'[h] = size[h] - 1
      BY <1>7
    <2>6. k \in 1 .. Len(s)
      BY <1>2
    <2>7. QED BY ONLY <1>3, <2>2, <2>5, <2>6, TakeLinked
  <1>11. ElemsOf(h)' = t
    <2>1. Chain(le_next', lh_first'[h]) = t
      BY <1>10, WalksFind
    <2>2. QED BY <2>1 DEF ElemsOf
  <1>12. ASSUME NEW g \in Heads, g # h
         PROVE  /\ Linked(ElemsOf(g), lh_first'[g], lh_last'[g], le_next', le_prev', size'[g])
                /\ ElemsOf(g)' = ElemsOf(g)
    <2>1. Linked(ElemsOf(g), lh_first[g], lh_last[g], le_next, le_prev, size[g])
      BY DEF LinkInv, AllLinked
    <2>2. \A x \in Members(ElemsOf(g)) : x \in Elems /\ x \notin Members(s)
      BY <1>12, ListShape DEF LinkInv, Apart, s
    <2>3. \A x \in Members(ElemsOf(g)) :
            x # s[k] /\ x # Before(s, k - 1) /\ x # Behind(s, k)
      BY <1>1, <1>2, <1>5, <2>2
    <2>4. \A x \in Members(ElemsOf(g)) : le_next'[x] = le_next[x] /\ le_prev'[x] = le_prev[x]
      BY <1>7, <2>2, <2>3
    <2>5. Linked(ElemsOf(g), lh_first[g], lh_last[g], le_next', le_prev', size[g])
      BY <2>1, <2>4, SameLinked
    <2>6. Linked(ElemsOf(g), lh_first'[g], lh_last'[g], le_next', le_prev', size'[g])
      BY <1>7, <1>12, <2>5
    <2>7. Chain(le_next', lh_first'[g]) = ElemsOf(g)
      BY <2>6, WalksFind
    <2>8. QED BY <2>6, <2>7 DEF ElemsOf
  <1>13. AllLinked'
    <2> SUFFICES ASSUME NEW g \in Heads
                 PROVE  Linked(ElemsOf(g)', lh_first'[g], lh_last'[g], le_next', le_prev',
                               size'[g])
      BY DEF AllLinked
    <2>1. CASE g = h
      BY <1>10, <1>11, <2>1
    <2>2. CASE g # h
      BY <1>12, <2>2
    <2>3. QED BY <2>1, <2>2
  <1>14. Apart'
    <2> SUFFICES ASSUME NEW f \in Heads, NEW g \in Heads, f # g
                 PROVE  Members(ElemsOf(f)') \cap Members(ElemsOf(g)') = {}
      BY DEF Apart
    <2>1. Members(t) \subseteq Members(s)
      <3>1. ToSet(t) = ToSet(s) \ {s[k]}
        BY <1>1, <1>2, RemoveAtElements
      <3>2. QED BY <3>1 DEF Members, ToSet
    <2>2. Members(ElemsOf(f)) \cap Members(ElemsOf(g)) = {}
      BY DEF LinkInv, Apart
    <2>3. CASE f = h
      BY <1>11, <1>12, <2>1, <2>2, <2>3 DEF s
    <2>4. CASE g = h
      BY <1>11, <1>12, <2>1, <2>2, <2>4 DEF s
    <2>5. CASE f # h /\ g # h
      BY <1>12, <2>2, <2>5
    <2>6. QED BY <2>3, <2>4, <2>5
  <1>15. QED BY <1>9, <1>11, <1>12, <1>13, <1>14 DEF LinkInv, s

-----------------------------------------------------------------------------
(***************************************************************************)
(* Each macro is such a step.                                              *)
(***************************************************************************)
\* What the head and the links of a list say of its sequence.
LEMMA ReadLinks ==
    ASSUME LinkInv, NEW h \in Heads
    PROVE  /\ lh_first[h] = Behind(ElemsOf(h), 0)
           /\ lh_last[h] = Before(ElemsOf(h), Len(ElemsOf(h)))
           /\ \A i \in 1 .. Len(ElemsOf(h)) :
                /\ le_next[ElemsOf(h)[i]] = Behind(ElemsOf(h), i)
                /\ le_prev[ElemsOf(h)[i]] = Before(ElemsOf(h), i - 1)
           /\ (lh_first[h] = NULL <=> Len(ElemsOf(h)) = 0)
           /\ (lh_last[h] = NULL <=> Len(ElemsOf(h)) = 0)
  <1> DEFINE s == ElemsOf(h)
  <1>1. /\ Len(s) \in Nat /\ NULL \notin Elems
        /\ \A i \in 1 .. Len(s) : s[i] \in Elems
    BY ListShape
  <1>2. Linked(s, lh_first[h], lh_last[h], le_next, le_prev, size[h])
    BY DEF LinkInv, AllLinked
  <1> HIDE DEF s
  <1>3. lh_first[h] = Behind(s, 0) /\ lh_last[h] = Before(s, Len(s))
    BY <1>1, <1>2 DEF Linked, FirstOf, LastOf, Behind, Before
  <1>4. \A i \in 1 .. Len(s) : le_next[s[i]] = Behind(s, i)
    BY <1>1, <1>2 DEF Linked, Chained, Behind
  <1>5. \A i \in 1 .. Len(s) : le_prev[s[i]] = Before(s, i - 1)
    BY <1>1, <1>2 DEF Linked, BackChained, Before
  <1>6. /\ lh_first[h] = NULL <=> Len(s) = 0
        /\ lh_last[h] = NULL <=> Len(s) = 0
    BY <1>1, <1>3 DEF Behind, Before
  <1>7. QED BY <1>3, <1>4, <1>5, <1>6 DEF s

\* LIST_INSERT_HEAD puts the element before all others.
LEMMA InsertHeadPuts ==
    ASSUME LinkInv, NEW h \in Heads, NEW e \in Elems, LIST_INSERT_HEAD(h, e)
    PROVE  Free(e) /\ Puts(h, e, 0)
  <1> DEFINE s == ElemsOf(h)
  <1>1. Free(e)
    BY DEF LIST_INSERT_HEAD, Insertable
  <1>2. /\ Len(s) \in Nat /\ NULL \notin Elems
        /\ \A i \in 1 .. Len(s) : s[i] \in Elems
        /\ \A i \in 1 .. Len(s) : s[i] # e
    BY <1>1, ListShape DEF Free, In, Members
  <1>3. /\ lh_first[h] = Behind(s, 0)
        /\ (lh_first[h] = NULL <=> Len(s) = 0)
    BY ReadLinks
  <1>4. LinkTypes
    BY DEF LinkInv
  <1> HIDE DEF s
  <1>5. Before(s, 0) = NULL
    BY DEF Before
  <1>6. lh_first[h] \in Elems \cup {NULL} /\ lh_first[h] # e
    BY <1>2, <1>3 DEF Behind
  <1>7. le_next' = [x \in Elems |-> IF x = e THEN Behind(s, 0)
                                    ELSE IF x = Before(s, 0) THEN e ELSE le_next[x]]
    BY <1>2, <1>3, <1>4, <1>5 DEF LIST_INSERT_HEAD, LinkTypes
  <1>8. le_prev' = [x \in Elems |-> IF x = e THEN Before(s, 0)
                                    ELSE IF x = Behind(s, 0) THEN e ELSE le_prev[x]]
    BY <1>2, <1>3, <1>4, <1>5, <1>6 DEF LIST_INSERT_HEAD, LinkTypes
  <1>9. lh_last' = [lh_last EXCEPT ![h] = IF 0 = Len(s) THEN e ELSE @]
    BY <1>3, <1>4 DEF LIST_INSERT_HEAD, LinkTypes
  <1>10. /\ lh_first' = [lh_first EXCEPT ![h] = e]
         /\ size' = [size EXCEPT ![h] = @ + 1]
    BY DEF LIST_INSERT_HEAD
  <1>11. QED BY <1>1, <1>7, <1>8, <1>9, <1>10 DEF Puts, s

\* LIST_INSERT_TAIL puts it behind all others.
LEMMA InsertTailPuts ==
    ASSUME LinkInv, NEW h \in Heads, NEW e \in Elems, LIST_INSERT_TAIL(h, e)
    PROVE  Free(e) /\ Puts(h, e, Len(ElemsOf(h)))
  <1> DEFINE s == ElemsOf(h)
  <1>1. Free(e)
    BY DEF LIST_INSERT_TAIL, Insertable
  <1>2. /\ Len(s) \in Nat /\ NULL \notin Elems
        /\ \A i \in 1 .. Len(s) : s[i] \in Elems
        /\ \A i \in 1 .. Len(s) : s[i] # e
    BY <1>1, ListShape DEF Free, In, Members
  <1>3. /\ lh_last[h] = Before(s, Len(s))
        /\ (lh_last[h] = NULL <=> Len(s) = 0)
    BY ReadLinks
  <1>4. LinkTypes
    BY DEF LinkInv
  <1> HIDE DEF s
  <1>5. Behind(s, Len(s)) = NULL
    BY <1>2 DEF Behind
  <1>6. lh_last[h] \in Elems \cup {NULL} /\ lh_last[h] # e
    BY <1>2, <1>3 DEF Before
  <1>7. le_prev' = [x \in Elems |-> IF x = e THEN Before(s, Len(s))
                                    ELSE IF x = Behind(s, Len(s)) THEN e ELSE le_prev[x]]
    BY <1>2, <1>3, <1>4, <1>5 DEF LIST_INSERT_TAIL, LinkTypes
  <1>8. le_next' = [x \in Elems |-> IF x = e THEN Behind(s, Len(s))
                                    ELSE IF x = Before(s, Len(s)) THEN e ELSE le_next[x]]
    BY <1>2, <1>3, <1>4, <1>5, <1>6 DEF LIST_INSERT_TAIL, LinkTypes
  <1>9. lh_first' = [lh_first EXCEPT ![h] = IF Len(s) = 0 THEN e ELSE @]
    BY <1>3, <1>4 DEF LIST_INSERT_TAIL, LinkTypes
  <1>10. /\ lh_last' = [lh_last EXCEPT ![h] = e]
         /\ size' = [size EXCEPT ![h] = @ + 1]
    BY DEF LIST_INSERT_TAIL
  <1>11. QED BY <1>1, <1>7, <1>8, <1>9, <1>10 DEF Puts, s

\* LIST_INSERT_AFTER puts it behind the element given.
LEMMA InsertAfterPuts ==
    ASSUME LinkInv, NEW h \in Heads, NEW e \in Elems, NEW listelm \in Elems,
           LIST_INSERT_AFTER(h, listelm, e)
    PROVE  Free(e) /\ \E k \in 0 .. Len(ElemsOf(h)) : Puts(h, e, k)
  <1> DEFINE s == ElemsOf(h)
  <1>1. Free(e) /\ In(h, listelm)
    BY DEF LIST_INSERT_AFTER, Insertable
  <1>2. /\ Len(s) \in Nat /\ NULL \notin Elems
        /\ \A i \in 1 .. Len(s) : s[i] \in Elems
        /\ \A i \in 1 .. Len(s) : s[i] # e
    BY <1>1, ListShape DEF Free, In, Members
  <1>3. PICK k \in 1 .. Len(s) : listelm = s[k]
    BY <1>1, ListShape DEF In, Members
  <1>4. le_next[listelm] = Behind(s, k)
    BY <1>3, ReadLinks
  <1>5. LinkTypes
    BY DEF LinkInv
  <1> HIDE DEF s
  <1>5a. k \in 1 .. Len(s)
    BY DEF s
  <1>6. Before(s, k) = listelm /\ k # 0
    BY <1>3, <1>5a DEF Before
  <1>7. /\ Behind(s, k) \in Elems \cup {NULL} /\ Behind(s, k) # e
        /\ (Behind(s, k) = NULL <=> k = Len(s)) /\ listelm # e
    <2>1. CASE k < Len(s)
      <3>1. k + 1 \in 1 .. Len(s) /\ k # Len(s)
        BY <1>2, <1>5a, <2>1
      <3>2. Behind(s, k) = s[k + 1]
        BY <2>1 DEF Behind
      <3>3. QED BY <1>2, <1>3, <1>5a, <3>1, <3>2
    <2>2. CASE ~(k < Len(s))
      <3>1. k = Len(s)
        BY <1>2, <1>5a, <2>2
      <3>2. Behind(s, k) = NULL
        BY <2>2 DEF Behind
      <3>3. QED BY <1>2, <1>3, <1>5a, <3>1, <3>2
    <2>3. QED BY <2>1, <2>2
  <1>8. le_next' = [x \in Elems |-> IF x = e THEN Behind(s, k)
                                    ELSE IF x = Before(s, k) THEN e ELSE le_next[x]]
    BY <1>4, <1>5, <1>6, <1>7 DEF LIST_INSERT_AFTER, LinkTypes
  <1>9. le_prev' = [x \in Elems |-> IF x = e THEN Before(s, k)
                                    ELSE IF x = Behind(s, k) THEN e ELSE le_prev[x]]
    <2>1. le_prev' = [x \in Elems |-> IF x = Behind(s, k) THEN e
                                      ELSE IF x = e THEN listelm ELSE le_prev[x]]
      BY <1>4 DEF LIST_INSERT_AFTER
    <2>2. QED BY <1>6, <1>7, <2>1
  <1>10. lh_last' = [lh_last EXCEPT ![h] = IF k = Len(s) THEN e ELSE @]
    BY <1>4, <1>5, <1>7 DEF LIST_INSERT_AFTER, LinkTypes
  <1>11. lh_first' = [lh_first EXCEPT ![h] = IF k = 0 THEN e ELSE @]
    BY <1>5, <1>6 DEF LIST_INSERT_AFTER, LinkTypes
  <1>12. size' = [size EXCEPT ![h] = @ + 1]
    BY DEF LIST_INSERT_AFTER
  <1>13. Puts(h, e, k)
    BY <1>8, <1>9, <1>10, <1>11, <1>12 DEF Puts, s
  <1>14. k \in 0 .. Len(ElemsOf(h))
    BY <1>2, <1>3 DEF s
  <1>15. QED BY <1>1, <1>13, <1>14

\* LIST_INSERT_BEFORE puts it where the element given is.
LEMMA InsertBeforePuts ==
    ASSUME LinkInv, NEW h \in Heads, NEW e \in Elems, NEW listelm \in Elems,
           LIST_INSERT_BEFORE(h, listelm, e)
    PROVE  Free(e) /\ \E k \in 0 .. Len(ElemsOf(h)) : Puts(h, e, k)
  <1> DEFINE s == ElemsOf(h)
  <1>1. Free(e) /\ In(h, listelm)
    BY DEF LIST_INSERT_BEFORE, Insertable
  <1>2. /\ Len(s) \in Nat /\ NULL \notin Elems
        /\ \A i \in 1 .. Len(s) : s[i] \in Elems
        /\ \A i \in 1 .. Len(s) : s[i] # e
    BY <1>1, ListShape DEF Free, In, Members
  <1>3. PICK i \in 1 .. Len(s) : listelm = s[i]
    BY <1>1, ListShape DEF In, Members
  <1> DEFINE k == i - 1
  <1>4. le_prev[listelm] = Before(s, k)
    BY <1>3, ReadLinks
  <1>5. LinkTypes
    BY DEF LinkInv
  <1> HIDE DEF s
  <1>5b. i \in 1 .. Len(s)
    BY DEF s
  <1>5a. k \in 0 .. Len(s) /\ k < Len(s) /\ k + 1 = i /\ (k > 0 => k \in 1 .. Len(s))
         /\ k \in Nat
    BY <1>2, <1>5b
  <1> HIDE DEF k
  <1>6. Behind(s, k) = listelm /\ k # Len(s)
    <2>1. Behind(s, k) = s[k + 1] /\ k # Len(s)
      BY <1>2, <1>5a DEF Behind
    <2>2. QED BY <1>3, <1>5a, <2>1
  <1>7. /\ Before(s, k) \in Elems \cup {NULL} /\ Before(s, k) # e
        /\ (Before(s, k) = NULL <=> k = 0) /\ listelm # e
    BY <1>2, <1>3, <1>5a DEF Before
  <1>8. le_prev' = [x \in Elems |-> IF x = e THEN Before(s, k)
                                    ELSE IF x = Behind(s, k) THEN e ELSE le_prev[x]]
    BY <1>4, <1>5, <1>6, <1>7 DEF LIST_INSERT_BEFORE, LinkTypes
  <1>9. le_next' = [x \in Elems |-> IF x = e THEN Behind(s, k)
                                    ELSE IF x = Before(s, k) THEN e ELSE le_next[x]]
    <2>1. le_next' = [x \in Elems |-> IF x = Before(s, k) THEN e
                                      ELSE IF x = e THEN listelm ELSE le_next[x]]
      BY <1>4 DEF LIST_INSERT_BEFORE
    <2>2. QED BY <1>6, <1>7, <2>1
  <1>10. lh_first' = [lh_first EXCEPT ![h] = IF k = 0 THEN e ELSE @]
    BY <1>4, <1>5, <1>7 DEF LIST_INSERT_BEFORE, LinkTypes
  <1>11. lh_last' = [lh_last EXCEPT ![h] = IF k = Len(s) THEN e ELSE @]
    BY <1>5, <1>6 DEF LIST_INSERT_BEFORE, LinkTypes
  <1>12. size' = [size EXCEPT ![h] = @ + 1]
    BY DEF LIST_INSERT_BEFORE
  <1>13. Puts(h, e, k)
    BY <1>8, <1>9, <1>10, <1>11, <1>12 DEF Puts, s
  <1>14. k \in 0 .. Len(ElemsOf(h))
    BY <1>5a DEF s
  <1>15. QED BY <1>1, <1>13, <1>14

\* LIST_REMOVE takes the element out of the list it is in.
LEMMA RemoveTakes ==
    ASSUME LinkInv, NEW h \in Heads, NEW k \in 1 .. Len(ElemsOf(h)),
           LIST_REMOVE(h, ElemsOf(h)[k])
    PROVE  Takes(h, k)
  <1> DEFINE s == ElemsOf(h)
             e == s[k]
             after == Behind(s, k)
             before == Before(s, k - 1)
  <1>1. /\ Len(s) \in Nat /\ NULL \notin Elems
        /\ \A i \in 1 .. Len(s) : s[i] \in Elems
        /\ \A i, j \in 1 .. Len(s) : s[i] = s[j] => i = j
    BY ListShape
  <1>2. le_next[e] = after /\ le_prev[e] = before
    BY ReadLinks
  <1>3. LinkTypes
    BY DEF LinkInv
  <1>4. k \in 1 .. Len(s) /\ LIST_REMOVE(h, e)
    OBVIOUS
  <1> HIDE DEF s
  <1>5. /\ after \in Elems \cup {NULL} /\ after # e
        /\ (after = NULL <=> k = Len(s))
    BY <1>1, <1>4 DEF Behind
  <1>6. /\ before \in Elems \cup {NULL} /\ before # e
        /\ (before = NULL <=> k = 1)
    BY <1>1, <1>4 DEF Before
  <1>6a. e \in Elems
    BY <1>1, <1>4
  <1> HIDE DEF e, after, before
  <1>7. le_next' = [x \in Elems |-> IF x = e THEN NULL
                                    ELSE IF x = before THEN after ELSE le_next[x]]
    <2>1. CASE before = NULL
      BY <1>1, <1>2, <1>3, <1>4, <2>1 DEF LIST_REMOVE, LinkTypes
    <2>2. CASE before # NULL
      BY <1>2, <1>3, <1>4, <1>6, <2>2 DEF LIST_REMOVE, LinkTypes
    <2>3. QED BY <2>1, <2>2
  <1>8. le_prev' = [x \in Elems |-> IF x = e THEN NULL
                                    ELSE IF x = after THEN before ELSE le_prev[x]]
    <2>1. CASE after = NULL
      BY <1>1, <1>2, <1>3, <1>4, <2>1 DEF LIST_REMOVE, LinkTypes
    <2>2. CASE after # NULL
      BY <1>2, <1>3, <1>4, <1>5, <2>2 DEF LIST_REMOVE, LinkTypes
    <2>3. QED BY <2>1, <2>2
  <1>9. lh_first' = [lh_first EXCEPT ![h] = IF k = 1 THEN after ELSE @]
    BY <1>2, <1>3, <1>4, <1>6 DEF LIST_REMOVE, LinkTypes
  <1>10. lh_last' = [lh_last EXCEPT ![h] = IF k = Len(s) THEN before ELSE @]
    BY <1>2, <1>3, <1>4, <1>5 DEF LIST_REMOVE, LinkTypes
  <1>11. size' = [size EXCEPT ![h] = @ - 1]
    BY <1>4 DEF LIST_REMOVE
  <1>12. QED BY <1>7, <1>8, <1>9, <1>10, <1>11 DEF Takes, s, e, after, before

-----------------------------------------------------------------------------
(***************************************************************************)
(* The steps of the lists: one element goes into a list or out of one, or  *)
(* the links stay as they are.                                             *)
(***************************************************************************)
PutAt(h, e, k) ==
    /\ k \in 0 .. Len(ElemsOf(h)) /\ Puts(h, e, k)
    /\ Insertable(h, e)
    /\ UNCHANGED <<ptr_next, loop>>

TakenAt(h, k) ==
    /\ k \in 1 .. Len(ElemsOf(h)) /\ Takes(h, k)
    /\ Removed(h, ElemsOf(h)[k])

LoopStep == LoopNext \/ LoopEnd \/ find_env_in_queue \/ \E h \in Heads : LIST_FOREACH(h)

\* A removal is of the element at some place.
LEMMA RemovedIsTaken ==
    ASSUME LinkInv, NEW h \in Heads, NEW k \in 1 .. Len(ElemsOf(h)),
           Removed(h, ElemsOf(h)[k])
    PROVE  TakenAt(h, k)
  <1>1. LIST_REMOVE(h, ElemsOf(h)[k])
    BY DEF Removed
  <1>2. Takes(h, k)
    BY <1>1, RemoveTakes
  <1>3. QED BY <1>2 DEF TakenAt

\* What any step does.
LEMMA StepKinds ==
    ASSUME LinkInv, Next
    PROVE  \/ \E h \in Heads, e \in Elems : \E k \in 0 .. Len(ElemsOf(h)) : PutAt(h, e, k)
           \/ \E h \in Heads : \E k \in 1 .. Len(ElemsOf(h)) : TakenAt(h, k)
           \/ LoopStep
  <1>1. ASSUME NEW h \in Heads, NEW e \in Elems, enqueue(h, e)
        PROVE  \E k \in 0 .. Len(ElemsOf(h)) : PutAt(h, e, k)
    <2>1. LIST_INSERT_HEAD(h, e) /\ Insertable(h, e) /\ UNCHANGED <<ptr_next, loop>>
      BY <1>1 DEF enqueue, LIST_INSERT_HEAD
    <2>2. Puts(h, e, 0)
      BY <2>1, InsertHeadPuts
    <2>3. 0 \in 0 .. Len(ElemsOf(h))
      <3>1. Len(ElemsOf(h)) \in Nat
        BY ListShape
      <3>2. QED BY <3>1
    <2>4. PutAt(h, e, 0)
      BY <2>1, <2>2, <2>3 DEF PutAt
    <2>5. QED BY <2>3, <2>4
  <1>2. ASSUME NEW h \in Heads, NEW e \in Elems, bufferList_add_page(h, e)
        PROVE  \E k \in 0 .. Len(ElemsOf(h)) : PutAt(h, e, k)
    <2>1. LIST_INSERT_TAIL(h, e) /\ Insertable(h, e) /\ UNCHANGED <<ptr_next, loop>>
      BY <1>2 DEF bufferList_add_page, LIST_INSERT_TAIL
    <2>2. Puts(h, e, Len(ElemsOf(h)))
      BY <2>1, InsertTailPuts
    <2>3. Len(ElemsOf(h)) \in 0 .. Len(ElemsOf(h))
      <3>1. Len(ElemsOf(h)) \in Nat
        BY ListShape
      <3>2. QED BY <3>1
    <2>4. PutAt(h, e, Len(ElemsOf(h)))
      BY <2>1, <2>2, <2>3 DEF PutAt
    <2>5. QED BY <2>3, <2>4
  <1>3. ASSUME NEW h \in Heads, NEW e \in Elems, NEW listelm \in Elems,
               LIST_INSERT_AFTER(h, listelm, e)
        PROVE  \E k \in 0 .. Len(ElemsOf(h)) : PutAt(h, e, k)
    <2>1. Insertable(h, e) /\ UNCHANGED <<ptr_next, loop>>
      BY <1>3 DEF LIST_INSERT_AFTER
    <2>2. PICK k \in 0 .. Len(ElemsOf(h)) : Puts(h, e, k)
      BY <1>3, InsertAfterPuts
    <2>3. PutAt(h, e, k)
      BY <2>1, <2>2 DEF PutAt
    <2>4. QED BY <2>3
  <1>4. ASSUME NEW h \in Heads, NEW e \in Elems, NEW listelm \in Elems,
               LIST_INSERT_BEFORE(h, listelm, e)
        PROVE  \E k \in 0 .. Len(ElemsOf(h)) : PutAt(h, e, k)
    <2>1. Insertable(h, e) /\ UNCHANGED <<ptr_next, loop>>
      BY <1>4 DEF LIST_INSERT_BEFORE
    <2>2. PICK k \in 0 .. Len(ElemsOf(h)) : Puts(h, e, k)
      BY <1>4, InsertBeforePuts
    <2>3. PutAt(h, e, k)
      BY <2>1, <2>2 DEF PutAt
    <2>4. QED BY <2>3
  <1>5. ASSUME NEW h \in Heads, NEW e \in Elems, remove_from_queue(h, e)
        PROVE  \E k \in 1 .. Len(ElemsOf(h)) : TakenAt(h, k)
    <2>1. In(h, e) /\ Removed(h, e)
      BY <1>5 DEF remove_from_queue
    <2>2. PICK k \in 1 .. Len(ElemsOf(h)) : e = ElemsOf(h)[k]
      BY <2>1, ListShape DEF In, Members
    <2>3. TakenAt(h, k)
      BY <2>1, <2>2, RemovedIsTaken
    <2>4. QED BY <2>3
  <1>6. ASSUME NEW h \in Heads, dequeue(h)
        PROVE  \E k \in 1 .. Len(ElemsOf(h)) : TakenAt(h, k)
    <2>1. lh_last[h] # NULL /\ Removed(h, lh_last[h])
      BY <1>6 DEF dequeue
    <2> DEFINE k == Len(ElemsOf(h))
    <2>2. /\ lh_last[h] = Before(ElemsOf(h), k)
          /\ (lh_last[h] = NULL <=> k = 0)
      BY ReadLinks
    <2>3. k \in Nat
      BY ListShape
    <2> HIDE DEF k
    <2>4. k > 0
      BY <2>1, <2>2, <2>3
    <2>5. lh_last[h] = ElemsOf(h)[k]
      BY <2>2, <2>4 DEF Before
    <2>6. k \in 1 .. Len(ElemsOf(h))
      BY <2>3, <2>4 DEF k
    <2>7. TakenAt(h, k)
      BY <2>1, <2>5, <2>6, RemovedIsTaken
    <2>8. QED BY <2>6, <2>7
  <1>7. QED BY <1>1, <1>2, <1>3, <1>4, <1>5, <1>6, Zenon DEF Next, LoopStep

\* Any step keeps the links right.
LEMMA LinkInvStep ==
    LinkInv /\ [Next]_vars => LinkInv'
  <1> SUFFICES ASSUME LinkInv, [Next]_vars PROVE LinkInv'
    OBVIOUS
  <1>1. ASSUME UNCHANGED linkVars PROVE LinkInv'
    BY <1>1 DEF linkVars, LinkInv, LinkTypes, AllLinked, Apart, ElemsOf
  <1>2. CASE UNCHANGED vars
    BY <1>1, <1>2 DEF vars
  <1>3. CASE Next
    <2>1. ASSUME NEW h \in Heads, NEW e \in Elems, NEW k \in 0 .. Len(ElemsOf(h)),
                 PutAt(h, e, k)
          PROVE  LinkInv'
      <3>1. Free(e) /\ Puts(h, e, k)
        BY <2>1 DEF PutAt, Insertable
      <3>2. QED BY <3>1, PutStep
    <2>2. ASSUME NEW h \in Heads, NEW k \in 1 .. Len(ElemsOf(h)), TakenAt(h, k)
          PROVE  LinkInv'
      <3>1. Takes(h, k)
        BY <2>2 DEF TakenAt
      <3>2. QED BY <3>1, TakeStep
    <2>3. CASE LoopStep
      <3>1. UNCHANGED linkVars
        BY <2>3 DEF LoopStep, LoopNext, LoopEnd, find_env_in_queue, LIST_FOREACH
      <3>2. QED BY <1>1, <3>1
    <2>4. QED BY <1>3, <2>1, <2>2, <2>3, StepKinds
  <1>4. QED BY <1>2, <1>3

\* All lists are empty at first.
LEMMA LinkInvInit == Init => LinkInv /\ \A h \in Heads : ElemsOf(h) = << >>
  <1> SUFFICES ASSUME Init PROVE LinkInv /\ \A h \in Heads : ElemsOf(h) = << >>
    OBVIOUS
  <1>1. \A h \in Heads : lh_first[h] = NULL /\ lh_last[h] = NULL /\ size[h] = 0
    BY DEF Init, LIST_INIT
  <1>2. \A h \in Heads : ElemsOf(h) = << >>
    <2> TAKE h \in Heads
    <2>1. lh_first[h] = NULL
      BY <1>1
    <2>2. Chain(le_next, NULL) = << >>
      BY Zenon DEF Chain
    <2>3. QED BY <2>1, <2>2 DEF ElemsOf
  <1>3. << >> \in Seq(Elems) /\ Distinct(<< >>) /\ Len(<< >>) = 0
    BY EmptyElements
  <1>4. AllLinked
    <2> SUFFICES ASSUME NEW h \in Heads
                 PROVE  Linked(<< >>, NULL, NULL, le_next, le_prev, 0)
      BY <1>1, <1>2 DEF AllLinked
    <2> DEFINE s == << >>
    <2>1. s \in Seq(Elems) /\ Distinct(s) /\ Len(s) = 0
      BY <1>3
    <2> HIDE DEF s
    <2>2. Linked(s, NULL, NULL, le_next, le_prev, 0)
      BY <2>1 DEF Linked, Chained, BackChained, FirstOf, LastOf
    <2>3. QED BY <2>2 DEF s
  <1>5. Apart
    BY <1>2 DEF Apart, Members
  <1>6. LinkTypes
    BY DEF Init, LIST_INIT, LinkTypes
  <1>7. QED BY <1>2, <1>4, <1>5, <1>6 DEF LinkInv

-----------------------------------------------------------------------------
(***************************************************************************)
(* The lists are the sequences they are meant to be.                       *)
(***************************************************************************)
\* The links are right in every state.
LEMMA LinksCorrect == Spec => []LinkInv
  <1>1. Init => LinkInv
    BY LinkInvInit
  <1>2. LinkInv /\ [Next]_vars => LinkInv'
    BY LinkInvStep
  <1>3. QED BY <1>1, <1>2, PTL DEF Spec

\* Every macro of inc/queue.h that changes a list puts one element that is in no
\* list somewhere into one, or takes one out, and leaves the order of the others
\* and the other lists alone: the links implement ListSeqs.
THEOREM AreSequencesCorrect == Spec => AreSequences
  <1> DEFINE q == [h \in Heads |-> ElemsOf(h)]
  <1>1. Init => Seqs!Init
    BY LinkInvInit DEF Seqs!Init
  <1>2. LinkInv /\ [Next]_vars => [Seqs!Next]_q
    <2> SUFFICES ASSUME LinkInv, [Next]_vars PROVE [Seqs!Next]_q
      OBVIOUS
    <2>1. ASSUME UNCHANGED linkVars PROVE UNCHANGED q
      BY <2>1 DEF linkVars, ElemsOf
    <2>2. CASE UNCHANGED vars
      BY <2>1, <2>2 DEF vars
    <2>3. CASE Next
      <3>1. ASSUME NEW h \in Heads, NEW e \in Elems, NEW k \in 0 .. Len(ElemsOf(h)),
                   PutAt(h, e, k)
            PROVE  Seqs!Put(h, e, k)
        <4>1. Free(e) /\ Puts(h, e, k)
          BY <3>1 DEF PutAt, Insertable
        <4>2. /\ ElemsOf(h)' = Inserted(ElemsOf(h), k, e)
              /\ \A g \in Heads : g # h => ElemsOf(g)' = ElemsOf(g)
          BY <4>1, PutStep
        <4>3. ~Seqs!InSome(e)
          BY <4>1 DEF Free, In, Members, Seqs!InSome, Seqs!Members
        <4>4. q' = [q EXCEPT ![h] = SubSeq(@, 1, k) \o <<e>> \o SubSeq(@, k + 1, Len(@))]
          BY <4>2 DEF Inserted
        <4>5. k \in 0 .. Len(q[h])
          OBVIOUS
        <4>6. QED BY <4>3, <4>4, <4>5 DEF Seqs!Put
      <3>2. ASSUME NEW h \in Heads, NEW k \in 1 .. Len(ElemsOf(h)), TakenAt(h, k)
            PROVE  Seqs!Take(h, k)
        <4>1. Takes(h, k)
          BY <3>2 DEF TakenAt
        <4>2. /\ ElemsOf(h)' = RemoveAt(ElemsOf(h), k)
              /\ \A g \in Heads : g # h => ElemsOf(g)' = ElemsOf(g)
          BY <4>1, TakeStep
        <4>3. k \in DOMAIN ElemsOf(h)
          BY ListShape
        <4>4. RemoveAt(ElemsOf(h), k) =
                SubSeq(ElemsOf(h), 1, k - 1) \o SubSeq(ElemsOf(h), k + 1, Len(ElemsOf(h)))
          BY DEF RemoveAt
        <4>5. q' = [q EXCEPT ![h] = SubSeq(@, 1, k - 1) \o SubSeq(@, k + 1, Len(@))]
          BY <4>2, <4>4
        <4>6. QED BY <4>3, <4>5 DEF Seqs!Take
      <3>3. ASSUME LoopStep PROVE UNCHANGED q
        <4>1. UNCHANGED linkVars
          BY <3>3 DEF LoopStep, LoopNext, LoopEnd, find_env_in_queue, LIST_FOREACH
        <4>2. QED BY <2>1, <4>1
      <3>4. ASSUME NEW h \in Heads, NEW e \in Elems, NEW k \in 0 .. Len(ElemsOf(h)),
                   PutAt(h, e, k)
            PROVE  Seqs!Next
        BY <3>1, <3>4 DEF Seqs!Next
      <3>5. ASSUME NEW h \in Heads, NEW k \in 1 .. Len(ElemsOf(h)), TakenAt(h, k)
            PROVE  Seqs!Next
        <4>1. k \in DOMAIN q[h]
          BY ListShape
        <4>2. QED BY <3>2, <3>5, <4>1 DEF Seqs!Next
      <3>6. QED BY <2>3, <3>3, <3>4, <3>5, StepKinds
    <2>4. QED BY <2>2, <2>3
  <1>3. QED BY <1>1, <1>2, LinksCorrect, PTL DEF Spec, AreSequences, Seqs!Spec

-----------------------------------------------------------------------------
(***************************************************************************)
(* The order of a list.                                                    *)
(***************************************************************************)
\* Which of two elements comes first is a matter of their places.
LEMMA PrecedesPlaces ==
    ASSUME NEW s \in Seq(Elems), Distinct(s)
    PROVE  /\ \A i, j \in 1 .. Len(s) : Precedes(s, s[i], s[j]) <=> i < j
           /\ \A x, y : Precedes(s, x, y) => \E i, j \in 1 .. Len(s) :
                                               i < j /\ x = s[i] /\ y = s[j]
  <1>1. Len(s) \in Nat /\ DOMAIN s = 1 .. Len(s)
    BY LenProperties
  <1>2. \A i, j \in 1 .. Len(s) : s[i] = s[j] => i = j
    BY <1>1 DEF Distinct
  <1>3. \A x, y : Precedes(s, x, y) <=> \E i, j \in 1 .. Len(s) :
                                          i < j /\ s[i] = x /\ s[j] = y
    BY <1>1, Zenon DEF Precedes
  <1>4. ASSUME NEW i \in 1 .. Len(s), NEW j \in 1 .. Len(s)
        PROVE  Precedes(s, s[i], s[j]) <=> i < j
    BY <1>2, <1>3
  <1>5. ASSUME NEW x, NEW y, Precedes(s, x, y)
        PROVE  \E i, j \in 1 .. Len(s) : i < j /\ x = s[i] /\ y = s[j]
    BY <1>3, <1>5
  <1>6. QED BY <1>4, <1>5, Zenon

\* What is before what is before an element is before it; nothing is before
\* itself.
LEMMA PrecedesOrder ==
    ASSUME NEW s \in Seq(Elems), Distinct(s)
    PROVE  /\ \A x, y, z : Precedes(s, x, y) /\ Precedes(s, y, z) => Precedes(s, x, z)
           /\ \A x : ~Precedes(s, x, x)
           /\ \A x, y : Precedes(s, x, y) => x \in Members(s) /\ y \in Members(s)
  <1>1. Len(s) \in Nat /\ DOMAIN s = 1 .. Len(s)
    BY LenProperties
  <1>2. \A i, j \in 1 .. Len(s) : s[i] = s[j] => i = j
    BY <1>1 DEF Distinct
  <1>3. ASSUME NEW x, NEW y, NEW z, Precedes(s, x, y), Precedes(s, y, z)
        PROVE  Precedes(s, x, z)
    <2>1. PICK i, j \in 1 .. Len(s) : i < j /\ x = s[i] /\ y = s[j]
      BY <1>3, PrecedesPlaces
    <2>2. PICK k, l \in 1 .. Len(s) : k < l /\ y = s[k] /\ z = s[l]
      BY <1>3, PrecedesPlaces
    <2>3. j = k
      BY <1>2, <2>1, <2>2
    <2>4. i < l
      BY <1>1, <2>1, <2>2, <2>3
    <2>5. QED BY <2>1, <2>2, <2>4, PrecedesPlaces
  <1>4. ASSUME NEW x, Precedes(s, x, x) PROVE FALSE
    <2>1. PICK i, j \in 1 .. Len(s) : i < j /\ x = s[i] /\ x = s[j]
      BY <1>4, PrecedesPlaces
    <2>2. i = j
      BY <1>2, <2>1
    <2>3. QED BY <1>1, <2>1, <2>2
  <1>5. ASSUME NEW x, NEW y, Precedes(s, x, y) PROVE x \in Members(s) /\ y \in Members(s)
    BY <1>5 DEF Precedes, Members
  <1>6. QED BY <1>3, <1>4, <1>5

\* Between an element and the next one there is nothing.
LEMMA PrecedesNext ==
    ASSUME NEW s \in Seq(Elems), Distinct(s), NEW i \in 1 .. Len(s)
    PROVE  /\ i < Len(s) => Precedes(s, s[i], s[i + 1])
           /\ \A y : Precedes(s, s[i], y) =>
                i < Len(s) /\ (y = s[i + 1] \/ Precedes(s, s[i + 1], y))
  <1>1. Len(s) \in Nat /\ DOMAIN s = 1 .. Len(s)
    BY LenProperties
  <1>2. ASSUME i < Len(s) PROVE Precedes(s, s[i], s[i + 1])
    <2>1. i + 1 \in 1 .. Len(s) /\ i < i + 1
      BY <1>1, <1>2
    <2>2. QED BY <2>1, PrecedesPlaces
  <1>3. ASSUME NEW y, Precedes(s, s[i], y)
        PROVE  i < Len(s) /\ (y = s[i + 1] \/ Precedes(s, s[i + 1], y))
    <2>0. PICK x : x = s[i] /\ Precedes(s, x, y)
      BY <1>3
    <2>0a. Precedes(s, x, y)
      BY <2>0
    <2>1. PICK k, j \in 1 .. Len(s) : k < j /\ x = s[k] /\ y = s[j]
      BY <2>0a, PrecedesPlaces
    <2>2. k = i
      BY <1>1, <2>0, <2>1 DEF Distinct
    <2>3. i < j /\ i < Len(s) /\ i + 1 \in 1 .. Len(s)
      BY <1>1, <2>1, <2>2
    <2>4. CASE j = i + 1
      BY <2>1, <2>3, <2>4
    <2>5. CASE j # i + 1
      <3>1. i + 1 < j
        BY <1>1, <2>3, <2>5
      <3>2. Precedes(s, s[i + 1], s[j])
        BY <2>3, <3>1, PrecedesPlaces
      <3>3. QED BY <2>1, <2>3, <3>2
    <2>6. QED BY <2>4, <2>5
  <1>4. QED BY <1>2, <1>3

\* All that is not first comes behind the first.
LEMMA PrecedesFirst ==
    ASSUME NEW s \in Seq(Elems), Distinct(s), NEW x \in Members(s)
    PROVE  /\ 1 \in 1 .. Len(s) /\ s[1] \in Members(s)
           /\ x = s[1] \/ Precedes(s, s[1], x)
  <1>1. Len(s) \in Nat /\ DOMAIN s = 1 .. Len(s)
    BY LenProperties
  <1>2. PICK i \in 1 .. Len(s) : x = s[i]
    BY <1>1 DEF Members
  <1>3. 1 \in 1 .. Len(s) /\ (i = 1 \/ 1 < i)
    BY <1>1
  <1>4. s[1] \in Members(s)
    BY <1>1, <1>3 DEF Members
  <1>5. 1 < i => Precedes(s, s[1], s[i])
    BY <1>3, PrecedesPlaces
  <1>6. QED BY <1>2, <1>3, <1>4, <1>5

\* An insertion leaves the order of the others.
LEMMA InsertedOrder ==
    ASSUME NEW s \in Seq(Elems), NEW k \in 0 .. Len(s), NEW e \in Elems,
           Distinct(s), e \notin Members(s)
    PROVE  \A x, y \in Members(s) : Precedes(Inserted(s, k, e), x, y) <=> Precedes(s, x, y)
  <1> DEFINE t == Inserted(s, k, e)
             n == Len(s)
             at(i) == IF i <= k THEN i ELSE i + 1
  <1>1. n \in Nat /\ DOMAIN s = 1 .. n /\ k \in Nat /\ k <= n
    BY LenProperties
  <1>2. t \in Seq(Elems) /\ Distinct(t) /\ Len(t) = n + 1
    BY InsertedShape, InsertedElements
  <1>3. \A i \in 1 .. k : t[i] = s[i]
    BY InsertedShape
  <1>4. \A i \in k + 1 .. n : t[i + 1] = s[i]
    BY InsertedShape
  <1> HIDE DEF t, n
  <1>5. \A i \in 1 .. n : at(i) \in 1 .. n + 1 /\ t[at(i)] = s[i]
    <2> SUFFICES ASSUME NEW i \in 1 .. n PROVE at(i) \in 1 .. n + 1 /\ t[at(i)] = s[i]
      OBVIOUS
    <2>1. CASE i <= k
      BY <1>1, <1>3, <2>1
    <2>2. CASE ~(i <= k)
      BY <1>1, <1>4, <2>2
    <2>3. QED BY <2>1, <2>2
  <1>6. \A i, j \in 1 .. n : at(i) < at(j) <=> i < j
    BY <1>1
  <1> HIDE DEF at
  <1>7. ASSUME NEW i \in 1 .. n, NEW j \in 1 .. n
        PROVE  Precedes(t, s[i], s[j]) <=> Precedes(s, s[i], s[j])
    <2>1. Precedes(t, t[at(i)], t[at(j)]) <=> at(i) < at(j)
      BY <1>2, <1>5, PrecedesPlaces
    <2>2. Precedes(s, s[i], s[j]) <=> i < j
      BY PrecedesPlaces DEF n
    <2>3. QED BY <1>5, <1>6, <2>1, <2>2
  <1>8. QED BY <1>1, <1>7 DEF Members, t

\* So does a removal.
LEMMA RemovedOrder ==
    ASSUME NEW s \in Seq(Elems), NEW k \in 1 .. Len(s), Distinct(s)
    PROVE  /\ Members(RemoveAt(s, k)) = Members(s) \ {s[k]}
           /\ \A x, y \in Members(s) \ {s[k]} :
                Precedes(RemoveAt(s, k), x, y) <=> Precedes(s, x, y)
  <1> DEFINE t == RemoveAt(s, k)
             n == Len(s)
             at(i) == IF i < k THEN i ELSE i - 1
  <1>1. n \in Nat /\ DOMAIN s = 1 .. n /\ k \in Nat /\ 1 <= k /\ k <= n /\ k \in DOMAIN s
    BY LenProperties
  <1>2. t \in Seq(Elems) /\ Distinct(t) /\ Len(t) = n - 1
    BY <1>1, RemoveAtShape, RemoveAtElements
  <1>3. \A i \in 1 .. k - 1 : t[i] = s[i]
    BY <1>1, RemoveAtShape
  <1>4. \A i \in k .. n - 1 : t[i] = s[i + 1]
    BY <1>1, RemoveAtShape
  <1>5. Members(t) = Members(s) \ {s[k]}
    BY <1>1, RemoveAtElements DEF Members, ToSet
  <1> HIDE DEF t, n
  <1>6. \A i \in 1 .. n : i # k => at(i) \in 1 .. n - 1 /\ t[at(i)] = s[i]
    <2> SUFFICES ASSUME NEW i \in 1 .. n, i # k
                 PROVE  at(i) \in 1 .. n - 1 /\ t[at(i)] = s[i]
      OBVIOUS
    <2>1. CASE i < k
      <3>1. i \in 1 .. k - 1 /\ i \in 1 .. n - 1
        BY <1>1, <2>1
      <3>2. QED BY <1>3, <2>1, <3>1
    <2>2. CASE ~(i < k)
      <3>1. i - 1 \in k .. n - 1 /\ i - 1 \in 1 .. n - 1 /\ (i - 1) + 1 = i
        BY <1>1, <2>2
      <3>2. t[i - 1] = s[i]
        BY <1>4, <3>1
      <3>3. QED BY <2>2, <3>1, <3>2
    <2>3. QED BY <2>1, <2>2
  <1>7. \A i, j \in 1 .. n : i # k /\ j # k => (at(i) < at(j) <=> i < j)
    BY <1>1
  <1> HIDE DEF at
  <1>8. ASSUME NEW i \in 1 .. n, NEW j \in 1 .. n, i # k, j # k
        PROVE  Precedes(t, s[i], s[j]) <=> Precedes(s, s[i], s[j])
    <2>1. Precedes(t, t[at(i)], t[at(j)]) <=> at(i) < at(j)
      BY <1>2, <1>6, <1>8, PrecedesPlaces
    <2>2. Precedes(s, s[i], s[j]) <=> i < j
      BY PrecedesPlaces DEF n
    <2>3. QED BY <1>6, <1>7, <1>8, <2>1, <2>2
  <1>9. ASSUME NEW x \in Members(s) \ {s[k]}, NEW y \in Members(s) \ {s[k]}
        PROVE  Precedes(t, x, y) <=> Precedes(s, x, y)
    <2>1. PICK i \in 1 .. n : x = s[i]
      BY <1>1 DEF Members
    <2>2. PICK j \in 1 .. n : y = s[j]
      BY <1>1 DEF Members
    <2>3. QED BY <1>8, <2>1, <2>2
  <1>10. QED BY <1>5, <1>9 DEF t

-----------------------------------------------------------------------------
(***************************************************************************)
(* What a loop keeps while its list changes.                               *)
(***************************************************************************)
\* The element the loop goes on with is none it has visited.
LEMMA NextIsNew ==
    ASSUME NEW l, NEW s \in Seq(Elems), Distinct(s), NEW q, q # NULL, Looping(l, s, q)
    PROVE  q \in Members(s) /\ q \notin Members(l.visited)
  <1>1. q \in Members(s)
    BY DEF Looping, AtPlace
  <1>2. q \in Members(l.visited) => Precedes(s, q, q)
    BY <1>1 DEF Looping, AtPlace
  <1>3. QED BY <1>1, <1>2, PrecedesOrder

\* An element that is put into the list, and that the loop has not seen, changes
\* nothing.
LEMMA LoopingPut ==
    ASSUME NEW l, NEW s \in Seq(Elems), Distinct(s), NEW q, Looping(l, s, q),
           NEW k \in 0 .. Len(s), NEW e \in Elems, e \notin Members(s),
           e \notin Members(l.visited)
    PROVE  Looping(l, Inserted(s, k, e), q)
  <1> DEFINE t == Inserted(s, k, e)
  <1>1. Members(t) = Members(s) \cup {e}
    BY InsertedElements
  <1>2. \A x, y \in Members(s) : Precedes(t, x, y) <=> Precedes(s, x, y)
    BY InsertedOrder
  <1>3. LoopTypes(l) /\ AtPlace(l, s, q) /\ InOrder(l, s)
    BY DEF Looping
  <1> HIDE DEF t
  <1>4. l.kept \subseteq Members(s)
    BY <1>3 DEF InOrder
  <1>5. AtPlace(l, t, q)
    <2>1. ASSUME q # NULL
          PROVE  /\ q \in Members(t)
                 /\ \A x \in Members(l.visited) \cap Members(t) : Precedes(t, x, q)
      BY <1>1, <1>2, <1>3, <2>1 DEF AtPlace
    <2>2. ASSUME NEW x \in l.kept \ Members(l.visited)
          PROVE  q # NULL /\ (x = q \/ Precedes(t, q, x))
      BY <1>2, <1>3, <1>4, <2>2 DEF AtPlace
    <2>3. QED BY <2>1, <2>2 DEF AtPlace
  <1>6. InOrder(l, t)
    <2>1. l.kept \subseteq Members(t)
      BY <1>1, <1>4
    <2>2. \A x, y \in l.kept : Precedes(t, x, y) => Precedes(l.start, x, y)
      BY <1>2, <1>3, <1>4 DEF InOrder
    <2>3. QED BY <1>3, <2>1, <2>2 DEF InOrder
  <1>7. QED BY <1>3, <1>5, <1>6 DEF Looping, t

\* The body of the loop takes the element it is at out of the list.
LEMMA LoopingTake ==
    ASSUME NEW l, NEW s \in Seq(Elems), Distinct(s), NEW q, Looping(l, s, q),
           NEW k \in 1 .. Len(s), s[k] = l.var
    PROVE  Looping([l EXCEPT !.kept = @ \ {s[k]}], RemoveAt(s, k), q)
  <1> DEFINE t == RemoveAt(s, k)
             m == [l EXCEPT !.kept = @ \ {s[k]}]
  <1>1. Members(t) = Members(s) \ {s[k]}
    BY RemovedOrder
  <1>2. \A x, y \in Members(s) \ {s[k]} : Precedes(t, x, y) <=> Precedes(s, x, y)
    BY RemovedOrder
  <1>3. LoopTypes(l) /\ AtPlace(l, s, q) /\ InOrder(l, s)
    BY DEF Looping
  <1>4. /\ m.list = l.list /\ m.var = l.var /\ m.start = l.start /\ m.visited = l.visited
        /\ m.kept = l.kept \ {s[k]}
        /\ m \in [list : Heads, var : Elems, start : Seq(Elems), visited : Seq(Elems),
                  kept : SUBSET Elems]
    BY <1>3 DEF LoopTypes
  <1>5. s[k] \in Members(l.visited)
    <2>1. /\ l.visited \in Seq(Elems) /\ Len(l.visited) > 0
          /\ s[k] = l.visited[Len(l.visited)]
      BY <1>3 DEF LoopTypes
    <2>2. Len(l.visited) \in DOMAIN l.visited
      BY <2>1, LenProperties
    <2>3. QED BY <2>1, <2>2 DEF Members
  <1>6. q # NULL => q # s[k] /\ q \in Members(s)
    BY <1>5, NextIsNew
  <1> HIDE DEF t, m
  <1>7. l.kept \subseteq Members(s)
    BY <1>3 DEF InOrder
  <1>8. AtPlace(m, t, q)
    <2>1. ASSUME q # NULL
          PROVE  /\ q \in Members(t)
                 /\ \A x \in Members(m.visited) \cap Members(t) : Precedes(t, x, q)
      BY <1>1, <1>2, <1>3, <1>4, <1>6, <2>1 DEF AtPlace
    <2>2. ASSUME NEW x \in m.kept \ Members(m.visited)
          PROVE  q # NULL /\ (x = q \/ Precedes(t, q, x))
      BY <1>2, <1>3, <1>4, <1>6, <1>7, <2>2 DEF AtPlace
    <2>3. QED BY <2>1, <2>2 DEF AtPlace
  <1>9. InOrder(m, t)
    <2>1. m.kept \subseteq Members(t)
      BY <1>1, <1>4, <1>7
    <2>2. \A x, y \in m.kept : Precedes(t, x, y) => Precedes(m.start, x, y)
      BY <1>2, <1>3, <1>4, <1>7 DEF InOrder
    <2>3. \A i, j \in DOMAIN l.visited :
            i < j /\ {l.visited[i], l.visited[j]} \subseteq l.kept
              => Precedes(l.start, l.visited[i], l.visited[j])
      BY <1>3 DEF InOrder
    <2>4. ASSUME NEW i \in DOMAIN m.visited, NEW j \in DOMAIN m.visited,
                 i < j, {m.visited[i], m.visited[j]} \subseteq m.kept
          PROVE  Precedes(m.start, m.visited[i], m.visited[j])
      BY <1>4, <2>3, <2>4
    <2>5. QED BY <2>1, <2>2, <2>4 DEF InOrder
  <1>10. LoopTypes(m)
    BY <1>3, <1>4 DEF LoopTypes, Members
  <1>11. QED BY <1>8, <1>9, <1>10 DEF Looping, m, t

\* The loop goes on to the element it has the link to.
LEMMA LoopingNext ==
    ASSUME NEW l, NEW s \in Seq(Elems), Distinct(s), NEW k \in 1 .. Len(s),
           Looping(l, s, s[k])
    PROVE  Looping([l EXCEPT !.var = s[k], !.visited = Append(@, s[k])], s, Behind(s, k))
  <1> DEFINE q == s[k]
             v == l.visited
             w == Append(v, q)
             m == [l EXCEPT !.var = q, !.visited = Append(@, q)]
             r == Behind(s, k)
  <1>1. LoopTypes(l) /\ AtPlace(l, s, q) /\ InOrder(l, s)
    BY DEF Looping
  <1>2. /\ q \in Elems /\ q \in Members(s) /\ q # NULL
        /\ Len(s) \in Nat
    <2>1. Len(s) \in Nat /\ DOMAIN s = 1 .. Len(s)
      BY LenProperties
    <2>2. q \in Elems
      BY ElementOfSeq
    <2>3. q \in Members(s)
      BY <2>1 DEF Members
    <2>4. QED BY <2>1, <2>2, <2>3, ListsAssumption
  <1>3. q \notin Members(v)
    BY <1>2, NextIsNew
  <1>4. v \in Seq(Elems) /\ Distinct(v)
    BY <1>1 DEF LoopTypes
  <1>4a. /\ Len(v) \in Nat /\ DOMAIN v = 1 .. Len(v)
    BY <1>4, LenProperties
  <1>5. /\ w \in Seq(Elems) /\ Len(w) = Len(v) + 1
        /\ ToSet(w) = ToSet(v) \cup {q}
        /\ (Distinct(v) /\ q \notin ToSet(v) => Distinct(w))
    BY <1>2, <1>4, AppendElements
  <1>6. Members(w) = Members(v) \cup {q} /\ Distinct(w)
    BY <1>3, <1>4, <1>5 DEF Members, ToSet
  <1>7. /\ w[Len(v) + 1] = q
        /\ \A i \in 1 .. Len(v) : w[i] = v[i]
        /\ DOMAIN w = 1 .. Len(v) + 1
    <2>1. w[Len(v) + 1] = q /\ \A i \in 1 .. Len(v) : w[i] = v[i]
      BY <1>2, <1>4, AppendProperties
    <2>2. DOMAIN w = 1 .. Len(w)
      BY <1>5, LenProperties
    <2>3. QED BY <1>5, <2>1, <2>2
  <1>8. /\ m.list = l.list /\ m.var = q /\ m.start = l.start /\ m.visited = w
        /\ m.kept = l.kept
        /\ m \in [list : Heads, var : Elems, start : Seq(Elems), visited : Seq(Elems),
                  kept : SUBSET Elems]
    <2>1. l \in [list : Heads, var : Elems, start : Seq(Elems), visited : Seq(Elems),
                 kept : SUBSET Elems]
      BY <1>1 DEF LoopTypes
    <2> HIDE DEF q
    <2>2. QED BY <1>2, <1>5, <2>1
  <1>9. /\ r # NULL => r \in Members(s) /\ Precedes(s, q, r)
        /\ \A y : Precedes(s, q, y) => r # NULL /\ (y = r \/ Precedes(s, r, y))
    <2>1. k < Len(s) => r = s[k + 1] /\ r # NULL /\ r \in Members(s)
      <3> SUFFICES ASSUME k < Len(s) PROVE r = s[k + 1] /\ r # NULL /\ r \in Members(s)
        OBVIOUS
      <3>1. k + 1 \in 1 .. Len(s) /\ k + 1 \in DOMAIN s
        BY <1>2, LenProperties
      <3>2. r = s[k + 1]
        BY DEF Behind
      <3>3. s[k + 1] \in Elems /\ s[k + 1] \in Members(s)
        BY <3>1, ElementOfSeq DEF Members
      <3>4. QED BY <3>2, <3>3, ListsAssumption
    <2>2. ~(k < Len(s)) => r = NULL
      BY DEF Behind
    <2>3. k < Len(s) => Precedes(s, q, s[k + 1])
      BY PrecedesNext
    <2>4. \A y : Precedes(s, q, y) =>
            k < Len(s) /\ (y = s[k + 1] \/ Precedes(s, s[k + 1], y))
      BY PrecedesNext
    <2> HIDE DEF r, q
    <2>5. QED BY <2>1, <2>2, <2>3, <2>4
  <1> HIDE DEF q, v, w, m, r
  <1>10. AtPlace(m, s, r)
    <2>1. \A x \in Members(v) \cap Members(s) : Precedes(s, x, q)
      BY <1>1, <1>2 DEF AtPlace, v
    <2>2. \A x \in l.kept \ Members(v) : x = q \/ Precedes(s, q, x)
      BY <1>1 DEF AtPlace, v
    <2>3. ASSUME r # NULL, NEW x \in Members(w) \cap Members(s) PROVE Precedes(s, x, r)
      <3>1. Precedes(s, q, r)
        BY <1>9, <2>3
      <3>2. CASE x = q
        BY <3>1, <3>2
      <3>3. CASE x # q
        <4>1. Precedes(s, x, q)
          BY <1>6, <2>1, <2>3, <3>3
        <4>2. QED BY <3>1, <4>1, PrecedesOrder
      <3>4. QED BY <3>2, <3>3
    <2>4. ASSUME NEW x \in l.kept \ Members(w)
          PROVE  r # NULL /\ (x = r \/ Precedes(s, r, x))
      <3>1. x # q /\ x \notin Members(v)
        BY <1>6
      <3>2. Precedes(s, q, x)
        BY <2>2, <3>1
      <3>3. QED BY <1>9, <3>2
    <2>5. QED BY <1>8, <1>9, <2>3, <2>4 DEF AtPlace
  <1>11. InOrder(m, s)
    <2>1. /\ l.kept \subseteq Members(s)
          /\ \A x, y \in l.kept : Precedes(s, x, y) => Precedes(l.start, x, y)
          /\ \A i, j \in DOMAIN v :
               i < j /\ {v[i], v[j]} \subseteq l.kept => Precedes(l.start, v[i], v[j])
      BY <1>1 DEF InOrder, v
    <2>2. ASSUME NEW i \in 1 .. Len(v) + 1, NEW j \in 1 .. Len(v) + 1, i < j,
                 {w[i], w[j]} \subseteq l.kept
          PROVE  Precedes(l.start, w[i], w[j])
      <3>1. i \in 1 .. Len(v) /\ w[i] = v[i]
        BY <1>4a, <1>7, <2>2
      <3>2. CASE j \in 1 .. Len(v)
        <4>1. w[j] = v[j]
          BY <1>7, <3>2
        <4>2. QED BY <1>4a, <2>1, <2>2, <3>1, <3>2, <4>1
      <3>3. CASE j = Len(v) + 1
        <4>1. w[j] = q
          BY <1>7, <3>3
        <4>2. v[i] \in Members(v) /\ v[i] \in l.kept /\ q \in l.kept
          BY <1>4a, <2>2, <3>1, <4>1 DEF Members
        <4>3. Precedes(s, v[i], q)
          BY <1>1, <1>2, <2>1, <4>2 DEF AtPlace, v
        <4>4. Precedes(l.start, v[i], q)
          BY <2>1, <4>2, <4>3
        <4>5. QED BY <3>1, <4>1, <4>4
      <3>4. QED BY <1>4a, <3>2, <3>3
    <2>3. QED BY <1>7, <1>8, <2>1, <2>2 DEF InOrder
  <1>12. LoopTypes(m)
    <2>1. Len(w) > 0 /\ q = w[Len(w)]
      BY <1>4a, <1>5, <1>7
    <2>2. QED BY <1>1, <1>6, <1>8, <2>1 DEF LoopTypes
  <1>13. QED BY <1>10, <1>11, <1>12 DEF Looping, m, r, q

\* A loop begins at the first element, with all that are there to be visited.
LEMMA LoopingStart ==
    ASSUME NEW h \in Heads, NEW s \in Seq(Elems), Distinct(s), s # << >>
    PROVE  Looping([list |-> h, var |-> s[1], start |-> s, visited |-> <<s[1]>>,
                    kept |-> Members(s)], s, Behind(s, 1))
  <1> DEFINE l == [list |-> h, var |-> s[1], start |-> s, visited |-> <<s[1]>>,
                   kept |-> Members(s)]
             v == <<s[1]>>
             r == Behind(s, 1)
  <1>1. Len(s) \in Nat /\ 1 \in 1 .. Len(s) /\ DOMAIN s = 1 .. Len(s)
    BY EmptySeq, LenProperties
  <1>2. \A i \in 1 .. Len(s) : s[i] \in Elems
    BY ElementOfSeq
  <1>3. s[1] \in Elems /\ s[1] \in Members(s) /\ Members(s) \subseteq Elems
    BY <1>1, <1>2 DEF Members
  <1>4. /\ v \in Seq(Elems) /\ Len(v) = 1 /\ v[1] = s[1] /\ DOMAIN v = {1}
    BY <1>3
  <1>5. Members(v) = {s[1]} /\ Distinct(v)
    BY <1>4 DEF Members, Distinct
  <1>6. /\ l.list = h /\ l.var = s[1] /\ l.start = s /\ l.visited = v
        /\ l.kept = Members(s)
        /\ l \in [list : Heads, var : Elems, start : Seq(Elems), visited : Seq(Elems),
                  kept : SUBSET Elems]
    BY <1>3, <1>4
  <1>7. /\ r # NULL => r \in Members(s) /\ Precedes(s, s[1], r)
        /\ \A y : Precedes(s, s[1], y) => r # NULL /\ (y = r \/ Precedes(s, r, y))
    <2>1. 1 < Len(s) => r = s[1 + 1] /\ r # NULL /\ r \in Members(s)
      <3> SUFFICES ASSUME 1 < Len(s) PROVE r = s[1 + 1] /\ r # NULL /\ r \in Members(s)
        OBVIOUS
      <3>1. 1 + 1 \in 1 .. Len(s)
        BY <1>1
      <3>2. r = s[1 + 1]
        BY DEF Behind
      <3>3. s[1 + 1] \in Elems /\ s[1 + 1] \in Members(s)
        BY <1>1, <1>2, <3>1 DEF Members
      <3>4. QED BY <3>2, <3>3, ListsAssumption
    <2>2. ~(1 < Len(s)) => r = NULL
      BY DEF Behind
    <2>3. 1 < Len(s) => Precedes(s, s[1], s[1 + 1])
      BY <1>1, PrecedesNext
    <2>4. \A y : Precedes(s, s[1], y) =>
            1 < Len(s) /\ (y = s[1 + 1] \/ Precedes(s, s[1 + 1], y))
      BY <1>1, PrecedesNext
    <2> HIDE DEF r
    <2>5. QED BY <2>1, <2>2, <2>3, <2>4
  <1>8. \A x \in Members(s) : x = s[1] \/ Precedes(s, s[1], x)
    BY PrecedesFirst
  <1> HIDE DEF l, v, r
  <1>9. LoopTypes(l)
    <2>1. Len(l.visited) > 0 /\ l.var = l.visited[Len(l.visited)]
      <3>1. v[Len(v)] = s[1] /\ Len(v) > 0
        BY <1>4
      <3>2. l.visited = v /\ l.var = s[1]
        BY <1>6
      <3>3. QED BY <3>1, <3>2
    <2>2. Distinct(l.start) /\ Distinct(l.visited) /\ l.kept \subseteq Members(l.start)
      BY <1>5, <1>6
    <2>3. QED BY <1>6, <2>1, <2>2 DEF LoopTypes
  <1>10. AtPlace(l, s, r)
    <2>1. ASSUME r # NULL, NEW x \in Members(v) \cap Members(s) PROVE Precedes(s, x, r)
      BY <1>5, <1>7, <2>1
    <2>2. ASSUME NEW x \in Members(s) \ Members(v)
          PROVE  r # NULL /\ (x = r \/ Precedes(s, r, x))
      BY <1>5, <1>7, <1>8
    <2>3. QED BY <1>6, <1>7, <2>1, <2>2 DEF AtPlace
  <1>11. InOrder(l, s)
    <2>1. ASSUME NEW i \in DOMAIN v, NEW j \in DOMAIN v, i < j PROVE FALSE
      <3>1. i = 1 /\ j = 1
        BY <1>4
      <3>2. QED BY <2>1, <3>1
    <2>2. \A x, y \in l.kept : Precedes(s, x, y) => Precedes(l.start, x, y)
      BY <1>6
    <2>3. QED BY <1>6, <2>1, <2>2 DEF InOrder
  <1>12. QED BY <1>9, <1>10, <1>11 DEF Looping, l, r

-----------------------------------------------------------------------------
(***************************************************************************)
(* The loops in every state.                                               *)
(***************************************************************************)
\* Any step keeps what a loop needs.
LEMMA LoopInvStep ==
    LinkInv /\ LoopInv /\ [Next]_vars => LoopInv'
  <1> SUFFICES ASSUME LinkInv, LoopInv, [Next]_vars PROVE LoopInv'
    OBVIOUS
  <1> DEFINE g == loop.list
             q == ptr_next[g]
  <1>1. /\ ptr_next \in [Heads -> Elems \cup {NULL}]
        /\ loop # NoLoop => Looping(loop, ElemsOf(g), q)
    BY DEF LoopInv
  <1>2. loop # NoLoop =>
          /\ g \in Heads
          /\ loop \in [list : Heads, var : Elems, start : Seq(Elems), visited : Seq(Elems),
                       kept : SUBSET Elems]
    BY <1>1 DEF Looping, LoopTypes
  <1>3. ASSUME ptr_next' \in [Heads -> Elems \cup {NULL}],
               NEW f \in Heads, loop'.list = f, Looping(loop', ElemsOf(f)', ptr_next'[f])
        PROVE  LoopInv'
    BY <1>3 DEF LoopInv, ElemsOf
  <1>4. ASSUME ptr_next' \in [Heads -> Elems \cup {NULL}], loop' = NoLoop
        PROVE  LoopInv'
    BY <1>4 DEF LoopInv, NoLoop
  <1>5. ASSUME UNCHANGED linkVars, NEW f \in Heads
        PROVE  ElemsOf(f)' = ElemsOf(f)
    BY <1>5 DEF linkVars, ElemsOf
  <1>6. ASSUME UNCHANGED <<ptr_next, loop>>,
               \A f \in Heads : loop # NoLoop /\ f = g => Looping(loop, ElemsOf(f)', q)
        PROVE  LoopInv'
    <2>1. CASE loop = NoLoop
      BY <1>1, <1>4, <1>6, <2>1
    <2>2. CASE loop # NoLoop
      <3>1. PICK f \in Heads : f = g
        BY <1>2, <2>2
      <3>2. Looping(loop, ElemsOf(f)', q)
        BY <1>6, <2>2, <3>1
      <3>3. loop'.list = f /\ ptr_next'[f] = q
        BY <1>6, <3>1
      <3>4. Looping(loop', ElemsOf(f)', ptr_next'[f])
        BY <1>6, <3>2, <3>3
      <3>5. ptr_next' \in [Heads -> Elems \cup {NULL}]
        BY <1>1, <1>6
      <3>6. QED BY <1>3, <3>3, <3>4, <3>5
    <2>3. QED BY <2>1, <2>2
  <1>7. CASE UNCHANGED vars
    <2>1. UNCHANGED linkVars /\ UNCHANGED <<ptr_next, loop>>
      BY <1>7 DEF vars
    <2>2. \A f \in Heads : loop # NoLoop /\ f = g => Looping(loop, ElemsOf(f)', q)
      BY <1>1, <1>5, <2>1
    <2>3. QED BY <1>6, <2>1, <2>2
  <1>8. ASSUME NEW h \in Heads, NEW e \in Elems, NEW k \in 0 .. Len(ElemsOf(h)),
               PutAt(h, e, k)
        PROVE  LoopInv'
    <2>1. Free(e) /\ Puts(h, e, k) /\ UNCHANGED <<ptr_next, loop>>
      BY <1>8 DEF PutAt, Insertable
    <2>2. /\ ElemsOf(h)' = Inserted(ElemsOf(h), k, e)
          /\ \A f \in Heads : f # h => ElemsOf(f)' = ElemsOf(f)
      BY <2>1, PutStep
    <2>3. e \notin Members(ElemsOf(h))
      BY <2>1 DEF Free, In
    <2>4. ASSUME NEW f \in Heads, loop # NoLoop, f = g
          PROVE  Looping(loop, ElemsOf(f)', q)
      <3>0. Looping(loop, ElemsOf(f), q)
        BY <1>1, <2>4
      <3> HIDE DEF q
      <3>1. CASE f = h
        <4>1. e \notin Members(loop.visited)
          BY <1>8, <2>4, <3>1 DEF PutAt, Insertable
        <4>2. ElemsOf(h) \in Seq(Elems) /\ Distinct(ElemsOf(h))
          BY ListShape
        <4>3. Looping(loop, ElemsOf(h), q)
          BY <3>0, <3>1
        <4>4. Looping(loop, Inserted(ElemsOf(h), k, e), q)
          BY <2>3, <4>1, <4>2, <4>3, LoopingPut
        <4>5. QED BY <2>2, <3>1, <4>4
      <3>2. CASE f # h
        BY <2>2, <3>0, <3>2
      <3>3. QED BY <3>1, <3>2
    <2>5. QED BY <1>6, <2>1, <2>4
  <1>9. ASSUME NEW h \in Heads, NEW k \in 1 .. Len(ElemsOf(h)), TakenAt(h, k)
        PROVE  LoopInv'
    <2> DEFINE s == ElemsOf(h)
    <2>1. /\ Takes(h, k) /\ UNCHANGED ptr_next
          /\ g = h => s[k] = loop.var
          /\ loop' = IF g = h THEN [loop EXCEPT !.kept = @ \ {s[k]}] ELSE loop
      BY <1>9 DEF TakenAt, Removed
    <2>2. /\ ElemsOf(h)' = RemoveAt(s, k)
          /\ \A f \in Heads : f # h => ElemsOf(f)' = ElemsOf(f)
      BY <2>1, TakeStep
    <2>3. s \in Seq(Elems) /\ Distinct(s) /\ s[k] \in Elems /\ NULL \notin Elems
      BY ListShape
    <2>4. CASE g # h
      <3>1. \A f \in Heads : loop # NoLoop /\ f = g => Looping(loop, ElemsOf(f)', q)
        BY <1>1, <2>2, <2>4
      <3>2. UNCHANGED <<ptr_next, loop>>
        BY <2>1, <2>4
      <3>3. QED BY <1>6, <3>1, <3>2
    <2>5. CASE g = h
      <3>1. loop # NoLoop
        BY <2>1, <2>3, <2>5 DEF NoLoop
      <3>2. Looping(loop, s, q)
        BY <1>1, <2>5, <3>1
      <3>3. loop' = [loop EXCEPT !.kept = @ \ {s[k]}]
        BY <2>1, <2>5
      <3>4. loop'.list = h
        BY <1>2, <2>5, <3>1, <3>3
      <3> HIDE DEF q
      <3>5. Looping([loop EXCEPT !.kept = @ \ {s[k]}], RemoveAt(s, k), q)
        BY <2>1, <2>3, <2>5, <3>2, LoopingTake
      <3>6. Looping(loop', ElemsOf(h)', q)
        BY <2>2, <3>3, <3>5
      <3>7. ptr_next'[h] = q
        BY <2>1, <2>5 DEF q
      <3>8. ptr_next' \in [Heads -> Elems \cup {NULL}]
        BY <1>1, <2>1
      <3>9. QED BY <1>3, <3>4, <3>6, <3>7, <3>8
    <2>6. QED BY <2>4, <2>5
  <1>10. CASE LoopNext
    <2> DEFINE s == ElemsOf(g)
    <2>1. /\ loop # NoLoop /\ q # NULL
          /\ ptr_next' = [ptr_next EXCEPT ![g] = le_next[q]]
          /\ loop' = [loop EXCEPT !.var = q, !.visited = Append(@, q)]
          /\ UNCHANGED linkVars
      BY <1>10 DEF LoopNext, At
    <2>2. g \in Heads /\ Looping(loop, s, q)
      BY <1>1, <1>2, <2>1
    <2>3. s \in Seq(Elems) /\ Distinct(s) /\ DOMAIN s = 1 .. Len(s)
      BY <2>2, ListShape
    <2>4. PICK k \in 1 .. Len(s) : q = s[k]
      <3>1. q \in Members(s)
        BY <2>1, <2>2 DEF Looping, AtPlace
      <3>2. QED BY <2>3, <3>1 DEF Members
    <2>5. le_next[s[k]] = Behind(s, k)
      BY <2>2, ReadLinks
    <2>6. ptr_next'[g] = Behind(s, k) /\ ptr_next' \in [Heads -> Elems \cup {NULL}]
      <3>1. le_next[q] \in Elems \cup {NULL}
        <4>1. q \in Elems
          BY <2>3, <2>4, ElementOfSeq
        <4>2. QED BY <4>1 DEF LinkInv, LinkTypes
      <3>2. ptr_next'[g] = le_next[q]
        BY <1>1, <2>1, <2>2
      <3>3. ptr_next' \in [Heads -> Elems \cup {NULL}]
        BY <1>1, <2>1, <3>1
      <3>4. QED BY <2>4, <2>5, <3>2, <3>3
    <2>7. loop'.list = g
      BY <1>2, <2>1
    <2>8. loop' = [loop EXCEPT !.var = s[k], !.visited = Append(@, s[k])]
      BY <2>1, <2>4
    <2>9. Looping(loop, s, s[k])
      BY <2>2, <2>4
    <2> HIDE DEF q, s
    <2>10. Looping([loop EXCEPT !.var = s[k], !.visited = Append(@, s[k])], s, Behind(s, k))
      BY <2>3, <2>9, LoopingNext DEF s
    <2>11. ElemsOf(g)' = s
      BY <1>5, <2>1, <2>2 DEF s
    <2>12. QED BY <1>3, <2>2, <2>6, <2>7, <2>8, <2>10, <2>11
  <1>11. CASE LoopEnd
    <2>1. loop # NoLoop /\ loop' = NoLoop /\ ptr_next' = [ptr_next EXCEPT ![g] = NULL]
      BY <1>11 DEF LoopEnd, At
    <2>2. ptr_next' \in [Heads -> Elems \cup {NULL}]
      BY <1>1, <1>2, <2>1
    <2>3. QED BY <1>4, <2>1, <2>2
  <1>12. CASE find_env_in_queue
    BY <1>1, <1>4, <1>12 DEF find_env_in_queue
  <1>13. ASSUME NEW h \in Heads, LIST_FOREACH(h) PROVE LoopInv'
    <2> DEFINE s == ElemsOf(h)
    <2>1. /\ lh_first[h] # NULL
          /\ ptr_next' = [ptr_next EXCEPT ![h] = le_next[lh_first[h]]]
          /\ loop' = [list |-> h, var |-> lh_first[h], start |-> s,
                      visited |-> <<lh_first[h]>>, kept |-> Members(s)]
          /\ UNCHANGED linkVars
      BY <1>13 DEF LIST_FOREACH, At
    <2>2. /\ lh_first[h] = Behind(s, 0)
          /\ (lh_first[h] = NULL <=> Len(s) = 0)
          /\ \A i \in 1 .. Len(s) : le_next[s[i]] = Behind(s, i)
      BY ReadLinks
    <2>3. /\ s \in Seq(Elems) /\ Distinct(s) /\ Len(s) \in Nat
          /\ \A i \in 1 .. Len(s) : s[i] \in Elems
      BY ListShape
    <2>4. ElemsOf(h)' = s
      BY <1>5, <2>1
    <2> HIDE DEF s
    <2>5. Len(s) > 0 /\ 1 \in 1 .. Len(s) /\ s # << >>
      <3>1. Len(s) # 0
        BY <2>1, <2>2
      <3>2. QED BY <2>3, <3>1, EmptySeq
    <2>6. lh_first[h] = s[1]
      BY <2>2, <2>5 DEF Behind
    <2>7. ptr_next'[h] = Behind(s, 1)
      BY <1>1, <2>1, <2>2, <2>5, <2>6
    <2>8. ptr_next' \in [Heads -> Elems \cup {NULL}]
      <3>1. le_next[lh_first[h]] \in Elems \cup {NULL}
        BY <2>3, <2>5, <2>6 DEF LinkInv, LinkTypes
      <3>2. QED BY <1>1, <2>1, <3>1
    <2>9. loop' = [list |-> h, var |-> s[1], start |-> s, visited |-> <<s[1]>>,
                   kept |-> Members(s)]
      BY <2>1, <2>6
    <2>10. Looping(loop', s, Behind(s, 1))
      BY <2>3, <2>5, <2>9, LoopingStart
    <2>11. loop'.list = h
      BY <2>9
    <2>12. QED BY <1>3, <2>4, <2>7, <2>8, <2>10, <2>11
  <1>14. CASE Next
    <2>1. LoopStep => LoopInv'
      BY <1>10, <1>11, <1>12, <1>13 DEF LoopStep
    <2>2. QED BY <1>8, <1>9, <1>14, <2>1, StepKinds
  <1>15. QED BY <1>7, <1>14

\* The links are right and the loops are in order in every state.
LEMMA ListsInvariant == Spec => []ListsInv
  <1>1. Init => ListsInv
    <2>1. Init => LoopInv
      BY DEF Init, LoopInv
    <2>2. QED BY <2>1, LinkInvInit DEF ListsInv
  <1>2. ListsInv /\ [Next]_vars => ListsInv'
    BY LinkInvStep, LoopInvStep DEF ListsInv
  <1>3. QED BY <1>1, <1>2, PTL DEF Spec

\* A loop at its end has missed nothing.
LEMMA LoopComplete == LoopInv => VisitsEveryElement
  <1> SUFFICES ASSUME LoopInv, loop # NoLoop, ptr_next[loop.list] = NULL
               PROVE  /\ loop.kept \subseteq Members(loop.visited)
                      /\ \A i, j \in DOMAIN loop.visited :
                           i < j /\ {loop.visited[i], loop.visited[j]} \subseteq loop.kept
                             => Precedes(loop.start, loop.visited[i], loop.visited[j])
    BY Zenon DEF VisitsEveryElement
  <1>1. Looping(loop, ElemsOf(loop.list), NULL)
    BY DEF LoopInv
  <1>2. AtPlace(loop, ElemsOf(loop.list), NULL) /\ InOrder(loop, ElemsOf(loop.list))
    BY <1>1 DEF Looping
  <1>3. loop.kept \subseteq Members(loop.visited)
    BY <1>2 DEF AtPlace
  <1>4. QED BY <1>2, <1>3, Zenon DEF InOrder

\* Read from its end a list is the reverse of what it is read from its beginning,
\* its size is the number of its elements, and LIST_FOREACH visits, in the order
\* of the list, all that were there when it began and that its body left there,
\* although the body takes out the element the loop is at and puts in others.
THEOREM LinksCompleteCorrect == Spec => []LinksComplete
  <1>1. ListsInv => LinksComplete
    BY LinkedBothWays, LoopComplete DEF ListsInv, LinksComplete
  <1>2. QED BY <1>1, ListsInvariant, PTL
=============================================================================
