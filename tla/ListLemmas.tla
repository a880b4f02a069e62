----------------------------- MODULE ListLemmas -----------------------------
(***************************************************************************)
(* Facts about the list operations of inc/queue.h as the models write them *)
(* (LIST_INSERT_HEAD is Cons, LIST_REMOVE of the last element is Front and *)
(* of any element RemoveAt): their type, length and elements, and that     *)
(* they keep a list free of duplicates.                                    *)
(***************************************************************************)
EXTENDS Naturals, Sequences, SequencesExt, SequenceTheorems, WellFoundedInduction,
        TLAPS

\* No element is in the list twice.
Distinct(s) == \A i, j \in DOMAIN s : s[i] = s[j] => i = j

\* Inserting at the head (LIST_INSERT_HEAD) shifts the list by one place.
LEMMA ConsShape ==
    ASSUME NEW S, NEW s \in Seq(S), NEW x \in S
    PROVE  /\ Cons(x, s) \in Seq(S)
           /\ Len(Cons(x, s)) = Len(s) + 1
           /\ Cons(x, s)[1] = x
           /\ \A i \in 1 .. Len(s) : Cons(x, s)[i + 1] = s[i]
  <1>1. <<x>> \in Seq(S) /\ Len(<<x>>) = 1 /\ <<x>>[1] = x
    OBVIOUS
  <1>2. QED
    BY <1>1, ConcatProperties DEF Cons

\* The elements after an insertion at the head, and that it adds no duplicate.
LEMMA ConsElements ==
    ASSUME NEW S, NEW s \in Seq(S), NEW x \in S
    PROVE  /\ ToSet(Cons(x, s)) = {x} \cup ToSet(s)
           /\ Distinct(s) /\ x \notin ToSet(s) => Distinct(Cons(x, s))
  <1> DEFINE c == Cons(x, s)
  <1>1. /\ DOMAIN c = 1 .. Len(s) + 1 /\ DOMAIN s = 1 .. Len(s)
        /\ Len(s) \in Nat
        /\ c[1] = x
        /\ \A i \in 1 .. Len(s) : c[i + 1] = s[i]
    BY ConsShape, LenProperties
  <1> HIDE DEF c
  <1>2. \A i \in DOMAIN c : i = 1 \/ (i - 1 \in 1 .. Len(s) /\ c[i] = s[i - 1])
    BY <1>1
  <1>3. ToSet(c) = {x} \cup ToSet(s)
    <2>1. ASSUME NEW i \in DOMAIN c PROVE c[i] \in {x} \cup ToSet(s)
      BY <1>1, <1>2 DEF ToSet
    <2>2. x \in ToSet(c)
      BY <1>1 DEF ToSet
    <2>3. ASSUME NEW i \in DOMAIN s PROVE s[i] \in ToSet(c)
      <3>1. i + 1 \in DOMAIN c /\ c[i + 1] = s[i]
        BY <1>1
      <3>2. QED BY <3>1 DEF ToSet
    <2>4. QED BY <2>1, <2>2, <2>3 DEF ToSet
  <1>4. ASSUME Distinct(s), x \notin ToSet(s) PROVE Distinct(c)
    <2>1. \A i \in 1 .. Len(s) : s[i] # x
      BY <1>1, <1>4 DEF ToSet
    <2>2. SUFFICES ASSUME NEW i \in DOMAIN c, NEW j \in DOMAIN c, c[i] = c[j]
                   PROVE  i = j
      BY DEF Distinct
    <2>3. CASE i = 1 \/ j = 1
      BY <1>1, <1>2, <2>1, <2>2, <2>3
    <2>4. CASE i # 1 /\ j # 1
      BY <1>1, <1>2, <1>4, <2>2, <2>4 DEF Distinct
    <2>5. QED BY <2>3, <2>4
  <1>5. QED BY <1>3, <1>4 DEF c

\* Removing the last element (the victim of a replacement).
LEMMA FrontShape ==
    ASSUME NEW S, NEW s \in Seq(S), s # << >>
    PROVE  /\ Front(s) \in Seq(S)
           /\ Len(Front(s)) = Len(s) - 1
           /\ \A i \in 1 .. Len(s) - 1 : Front(s)[i] = s[i]
           /\ Len(s) \in Nat \ {0}
           /\ Last(s) \in S
  <1>1. Len(s) \in Nat \ {0} /\ DOMAIN s = 1 .. Len(s)
    BY EmptySeq, LenProperties
  <1>2. Last(s) \in S
    BY <1>1, ElementOfSeq DEF Last
  <1>3. QED
    BY <1>1, <1>2, SubSeqProperties DEF Front

\* What is left after the last element of a list without duplicates is gone.
LEMMA FrontElements ==
    ASSUME NEW S, NEW s \in Seq(S), s # << >>
    PROVE  /\ ToSet(s) = ToSet(Front(s)) \cup {Last(s)}
           /\ Distinct(s) => /\ Distinct(Front(s))
                             /\ Last(s) \notin ToSet(Front(s))
                             /\ ToSet(Front(s)) = ToSet(s) \ {Last(s)}
  <1> DEFINE f == Front(s)
  <1>1. /\ Len(s) \in Nat \ {0} /\ DOMAIN s = 1 .. Len(s)
        /\ DOMAIN f = 1 .. Len(s) - 1
        /\ \A i \in 1 .. Len(s) - 1 : f[i] = s[i]
    BY FrontShape, LenProperties
  <1> HIDE DEF f
  <1>2. ToSet(s) = ToSet(f) \cup {Last(s)}
    <2>1. ASSUME NEW i \in DOMAIN s PROVE s[i] \in ToSet(f) \cup {s[Len(s)]}
      <3>1. i = Len(s) \/ (i \in DOMAIN f /\ f[i] = s[i])
        BY <1>1
      <3>2. QED BY <3>1 DEF ToSet
    <2>2. ASSUME NEW i \in DOMAIN f PROVE f[i] \in ToSet(s)
      <3>1. i \in DOMAIN s /\ f[i] = s[i]
        BY <1>1
      <3>2. QED BY <3>1 DEF ToSet
    <2>3. s[Len(s)] \in ToSet(s)
      BY <1>1 DEF ToSet
    <2>4. QED BY <2>1, <2>2, <2>3 DEF ToSet, Last
  <1>3. ASSUME Distinct(s)
        PROVE  Distinct(f) /\ Last(s) \notin ToSet(f)
    <2>1. Distinct(f)
      BY <1>1, <1>3 DEF Distinct
    <2>2. \A i \in DOMAIN f : f[i] # s[Len(s)]
      BY <1>1, <1>3 DEF Distinct
    <2>3. QED BY <2>1, <2>2 DEF ToSet, Last
  <1>4. QED BY <1>2, <1>3 DEF f

\* Replacing the last element by a new first one, as a replacement does.
LEMMA RotateShape ==
    ASSUME NEW S, NEW s \in Seq(S), NEW x \in S, s # << >>
    PROVE  /\ Cons(x, Front(s)) \in Seq(S)
           /\ Len(Cons(x, Front(s))) = Len(s)
  <1>1. /\ Front(s) \in Seq(S) /\ Len(Front(s)) = Len(s) - 1
        /\ Len(s) \in Nat \ {0}
    BY FrontShape
  <1>2. Cons(x, Front(s)) \in Seq(S) /\ Len(Cons(x, Front(s))) = Len(Front(s)) + 1
    BY <1>1, ConsShape
  <1>3. QED BY <1>1, <1>2

\* Removing the element at place i (LIST_REMOVE).
LEMMA RemoveAtShape ==
    ASSUME NEW S, NEW s \in Seq(S), NEW i \in DOMAIN s
    PROVE  /\ RemoveAt(s, i) \in Seq(S)
           /\ Len(RemoveAt(s, i)) = Len(s) - 1
           /\ Len(s) \in Nat \ {0}
           /\ \A j \in 1 .. i - 1 : RemoveAt(s, i)[j] = s[j]
           /\ \A j \in i .. Len(s) - 1 : RemoveAt(s, i)[j] = s[j + 1]
  <1> DEFINE a == SubSeq(s, 1, i - 1)
             b == SubSeq(s, i + 1, Len(s))
  <1>1. Len(s) \in Nat /\ DOMAIN s = 1 .. Len(s) /\ i \in 1 .. Len(s)
    BY LenProperties
  <1>2. a \in Seq(S) /\ Len(a) = i - 1 /\ \A j \in 1 .. i - 1 : a[j] = s[j]
    <2>1. \A k \in 1 .. i - 1 : s[k] \in S
      BY <1>1, ElementOfSeq
    <2>2. /\ Len(a) = IF 1 <= i - 1 + 1 THEN i - 1 - 1 + 1 ELSE 0
          /\ \A j \in 1 .. i - 1 - 1 + 1 : a[j] = s[1 + j - 1]
          /\ a \in Seq(S)
      BY <1>1, <2>1, SubSeqProperties
    <2>3. QED BY <1>1, <2>2
  <1>3. /\ b \in Seq(S) /\ Len(b) = Len(s) - i
        /\ \A j \in 1 .. Len(s) - i : b[j] = s[i + j]
    <2>2. /\ Len(b) = IF i + 1 <= Len(s) + 1 THEN Len(s) - (i + 1) + 1 ELSE 0
          /\ \A j \in 1 .. Len(s) - (i + 1) + 1 : b[j] = s[i + 1 + j - 1]
          /\ b \in Seq(S)
      BY <1>1, SubSeqProperties, ElementOfSeq
    <2>3. QED BY <1>1, <2>2, SMTT(60)
  <1> HIDE DEF a, b
  <1>4. /\ a \o b \in Seq(S)
        /\ Len(a \o b) = Len(a) + Len(b)
        /\ \A j \in 1 .. Len(a) + Len(b) :
             (a \o b)[j] = IF j <= Len(a) THEN a[j] ELSE b[j - Len(a)]
    BY <1>2, <1>3, ConcatProperties
  <1>5. \A j \in i .. Len(s) - 1 : (a \o b)[j] = s[j + 1]
    <2> TAKE j \in i .. Len(s) - 1
    <2>1. (a \o b)[j] = b[j - (i - 1)] /\ j - (i - 1) \in 1 .. Len(s) - i
      BY <1>1, <1>2, <1>3, <1>4, SMTT(60)
    <2>2. QED BY <1>1, <1>3, <2>1
  <1>6. \A j \in 1 .. i - 1 : (a \o b)[j] = s[j]
    BY <1>1, <1>2, <1>3, <1>4
  <1>7. Len(a \o b) = Len(s) - 1
    BY <1>1, <1>2, <1>3, <1>4
  <1>8. RemoveAt(s, i) = a \o b
    BY DEF a, b, RemoveAt
  <1>9. Len(s) \in Nat \ {0}
    BY <1>1
  <1>10. QED
    BY <1>4, <1>5, <1>6, <1>7, <1>8, <1>9, Zenon

\* What is left after one element of a list without duplicates is removed.
LEMMA RemoveAtElements ==
    ASSUME NEW S, NEW s \in Seq(S), NEW i \in DOMAIN s, Distinct(s)
    PROVE  /\ Distinct(RemoveAt(s, i))
           /\ ToSet(RemoveAt(s, i)) = ToSet(s) \ {s[i]}
           /\ s[i] \in ToSet(s)
  <1> DEFINE r == RemoveAt(s, i)
  <1>1. /\ Len(s) \in Nat \ {0} /\ DOMAIN s = 1 .. Len(s) /\ i \in 1 .. Len(s)
        /\ DOMAIN r = 1 .. Len(s) - 1
        /\ \A j \in 1 .. i - 1 : r[j] = s[j]
        /\ \A j \in i .. Len(s) - 1 : r[j] = s[j + 1]
    BY RemoveAtShape, LenProperties
  <1> HIDE DEF r
  <1>2. Distinct(r)
    <2> DEFINE place(j) == IF j < i THEN j ELSE j + 1
    <2>1. \A j \in DOMAIN r : place(j) \in DOMAIN s /\ r[j] = s[place(j)]
      BY <1>1
    <2>2. \A j, k \in DOMAIN r : place(j) = place(k) => j = k
      BY <1>1
    <2> HIDE DEF place
    <2>3. QED BY <2>1, <2>2 DEF Distinct
  <1>3. ASSUME NEW j \in DOMAIN r PROVE r[j] \in ToSet(s) \ {s[i]}
    <2>1. \E k \in DOMAIN s : k # i /\ r[j] = s[k]
      <3>1. CASE j < i
        BY <1>1, <3>1
      <3>2. CASE j >= i
        <4>1. j + 1 \in DOMAIN s /\ j + 1 # i /\ r[j] = s[j + 1]
          BY <1>1, <3>2
        <4>2. QED BY <4>1
      <3>3. QED BY <1>1, <3>1, <3>2
    <2>2. QED BY <2>1 DEF Distinct, ToSet
  <1>4. ASSUME NEW k \in DOMAIN s, s[k] # s[i] PROVE s[k] \in ToSet(r)
    <2>1. CASE k < i
      <3>1. k \in DOMAIN r /\ r[k] = s[k]
        BY <1>1, <2>1
      <3>2. QED BY <3>1 DEF ToSet
    <2>2. CASE k > i
      <3>1. k - 1 \in DOMAIN r /\ r[k - 1] = s[k]
        BY <1>1, <2>2
      <3>2. QED BY <3>1 DEF ToSet
    <2>3. QED BY <1>1, <1>4, <2>1, <2>2
  <1>5. QED BY <1>2, <1>3, <1>4 DEF r, ToSet

\* Inserting at the tail (LIST_INSERT_TAIL).
LEMMA AppendElements ==
    ASSUME NEW S, NEW s \in Seq(S), NEW x \in S
    PROVE  /\ Append(s, x) \in Seq(S)
           /\ Len(Append(s, x)) = Len(s) + 1
           /\ ToSet(Append(s, x)) = ToSet(s) \cup {x}
           /\ Distinct(s) /\ x \notin ToSet(s) => Distinct(Append(s, x))
  <1> DEFINE c == Append(s, x)
  <1>1. /\ c \in Seq(S) /\ Len(c) = Len(s) + 1 /\ Len(s) \in Nat
        /\ DOMAIN c = 1 .. Len(s) + 1 /\ DOMAIN s = 1 .. Len(s)
        /\ c[Len(s) + 1] = x
        /\ \A i \in 1 .. Len(s) : c[i] = s[i]
    BY AppendProperties, LenProperties
  <1> HIDE DEF c
  <1>2. ToSet(c) = ToSet(s) \cup {x}
    <2>1. ASSUME NEW i \in DOMAIN c PROVE c[i] \in ToSet(s) \cup {x}
      <3>1. i = Len(s) + 1 \/ (i \in DOMAIN s /\ c[i] = s[i])
        BY <1>1
      <3>2. QED BY <1>1, <3>1 DEF ToSet
    <2>2. ASSUME NEW i \in DOMAIN s PROVE s[i] \in ToSet(c)
      <3>1. i \in DOMAIN c /\ c[i] = s[i]
        BY <1>1
      <3>2. QED BY <3>1 DEF ToSet
    <2>3. x \in ToSet(c)
      <3>1. Len(s) + 1 \in DOMAIN c
        BY <1>1
      <3>2. QED BY <1>1, <3>1 DEF ToSet
    <2>4. QED BY <2>1, <2>2, <2>3 DEF ToSet
  <1>3. ASSUME Distinct(s), x \notin ToSet(s) PROVE Distinct(c)
    <2>1. \A i \in 1 .. Len(s) : s[i] # x
      BY <1>1, <1>3 DEF ToSet
    <2>2. QED BY <1>1, <1>3, <2>1 DEF Distinct
  <1>4. QED BY <1>1, <1>2, <1>3 DEF c

\* Taking the first element off a list.
LEMMA HeadElements ==
    ASSUME NEW S, NEW s \in Seq(S), s # << >>
    PROVE  /\ Head(s) \in S /\ Head(s) \in ToSet(s)
           /\ Tail(s) \in Seq(S)
           /\ Len(Tail(s)) = Len(s) - 1
           /\ Len(s) \in Nat \ {0}
           /\ ToSet(s) = ToSet(Tail(s)) \cup {Head(s)}
           /\ Distinct(s) => /\ Distinct(Tail(s))
                             /\ Head(s) \notin ToSet(Tail(s))
  <1> DEFINE t == Tail(s)
  <1>1. /\ Len(s) \in Nat \ {0} /\ DOMAIN s = 1 .. Len(s)
        /\ t \in Seq(S) /\ Len(t) = Len(s) - 1
        /\ DOMAIN t = 1 .. Len(s) - 1
        /\ \A i \in 1 .. Len(s) - 1 : t[i] = s[i + 1]
        /\ Head(s) = s[1]
        /\ s[1] \in S
    BY HeadTailProperties, EmptySeq, LenProperties, ElementOfSeq
  <1> HIDE DEF t
  <1>2. ToSet(s) = ToSet(t) \cup {s[1]}
    <2>1. ASSUME NEW i \in DOMAIN s PROVE s[i] \in ToSet(t) \cup {s[1]}
      <3>1. i = 1 \/ (i - 1 \in DOMAIN t /\ t[i - 1] = s[i])
        BY <1>1
      <3>2. QED BY <3>1 DEF ToSet
    <2>2. ASSUME NEW i \in DOMAIN t PROVE t[i] \in ToSet(s)
      <3>1. i + 1 \in DOMAIN s /\ t[i] = s[i + 1]
        BY <1>1
      <3>2. QED BY <3>1 DEF ToSet
    <2>3. s[1] \in ToSet(s)
      <3>1. 1 \in DOMAIN s
        BY <1>1
      <3>2. QED BY <3>1 DEF ToSet
    <2>4. QED BY <2>1, <2>2, <2>3 DEF ToSet
  <1>3. ASSUME Distinct(s) PROVE Distinct(t) /\ s[1] \notin ToSet(t)
    <2>1. Distinct(t)
      <3>1. SUFFICES ASSUME NEW i \in DOMAIN t, NEW j \in DOMAIN t, t[i] = t[j]
                     PROVE  i = j
        BY DEF Distinct
      <3>2. /\ i + 1 \in DOMAIN s /\ t[i] = s[i + 1]
            /\ j + 1 \in DOMAIN s /\ t[j] = s[j + 1]
        BY <1>1
      <3>3. i + 1 = j + 1
        BY <1>3, <3>1, <3>2 DEF Distinct
      <3>4. QED BY <1>1, <3>3
    <2>2. \A i \in DOMAIN t : t[i] # s[1]
      BY <1>1, <1>3 DEF Distinct
    <2>3. QED BY <2>1, <2>2 DEF ToSet
  <1>4. QED BY <1>1, <1>2, <1>3 DEF t

\* An empty list.
LEMMA EmptyElements ==
    ASSUME NEW S
    PROVE  << >> \in Seq(S) /\ ToSet(<< >>) = {} /\ Distinct(<< >>)
  BY DEF ToSet, Distinct

\* A list with one element.
LEMMA SingletonElements ==
    ASSUME NEW S, NEW x \in S
    PROVE  <<x>> \in Seq(S) /\ ToSet(<<x>>) = {x} /\ Distinct(<<x>>)
  <1>1. <<x>> \in Seq(S) /\ DOMAIN <<x>> = {1} /\ <<x>>[1] = x
    OBVIOUS
  <1>2. QED BY <1>1 DEF ToSet, Distinct

\* A list whose elements were moved one by one to the head of an empty one.
LEMMA ReverseElements ==
    ASSUME NEW S, NEW s \in Seq(S)
    PROVE  /\ Reverse(s) \in Seq(S)
           /\ ToSet(Reverse(s)) = ToSet(s)
           /\ Distinct(s) => Distinct(Reverse(s))
  <1> DEFINE r == Reverse(s)
  <1>1. Len(s) \in Nat /\ DOMAIN s = 1 .. Len(s)
    BY LenProperties
  <1>2. \A i \in 1 .. Len(s) : (Len(s) - i) + 1 \in 1 .. Len(s)
    BY <1>1
  <1>3. \A i \in 1 .. Len(s) : s[i] \in S
    BY <1>1, ElementOfSeq
  <1>4. /\ r \in [1 .. Len(s) -> S]
        /\ DOMAIN r = 1 .. Len(s)
        /\ \A i \in 1 .. Len(s) : r[i] = s[(Len(s) - i) + 1]
    BY <1>2, <1>3 DEF Reverse
  <1> HIDE DEF r
  <1>5. r \in Seq(S)
    BY <1>1, <1>4, SeqDef
  <1>6. \A i \in 1 .. Len(s) : s[i] = r[(Len(s) - i) + 1]
    <2>1. \A i \in 1 .. Len(s) : (Len(s) - ((Len(s) - i) + 1)) + 1 = i
      BY <1>1
    <2>2. QED BY <1>2, <1>4, <2>1
  <1>7. ToSet(r) = ToSet(s)
    <2>1. ASSUME NEW x \in ToSet(r) PROVE x \in ToSet(s)
      <3>1. PICK i \in 1 .. Len(s) : x = r[i]
        BY <1>4, <2>1 DEF ToSet
      <3>2. x = s[(Len(s) - i) + 1] /\ (Len(s) - i) + 1 \in DOMAIN s
        BY <1>1, <1>2, <1>4, <3>1
      <3>3. QED BY <3>2 DEF ToSet
    <2>2. ASSUME NEW x \in ToSet(s) PROVE x \in ToSet(r)
      <3>1. PICK i \in 1 .. Len(s) : x = s[i]
        BY <1>1, <2>2 DEF ToSet
      <3>2. x = r[(Len(s) - i) + 1] /\ (Len(s) - i) + 1 \in DOMAIN r
        BY <1>2, <1>4, <1>6, <3>1
      <3>3. QED BY <3>2 DEF ToSet
    <2>3. QED BY <2>1, <2>2
  <1>8. ASSUME Distinct(s) PROVE Distinct(r)
    <2>1. SUFFICES ASSUME NEW i \in 1 .. Len(s), NEW j \in 1 .. Len(s), r[i] = r[j]
                   PROVE  i = j
      BY <1>4 DEF Distinct
    <2>2. (Len(s) - i) + 1 = (Len(s) - j) + 1
      BY <1>1, <1>2, <1>4, <1>8, <2>1 DEF Distinct
    <2>3. QED BY <1>1, <2>2
  <1>9. QED BY <1>5, <1>7, <1>8 DEF r

\* Two lists joined into one.
LEMMA ConcatElements ==
    ASSUME NEW S, NEW s \in Seq(S), NEW t \in Seq(S)
    PROVE  /\ s \o t \in Seq(S)
           /\ ToSet(s \o t) = ToSet(s) \cup ToSet(t)
           /\ Distinct(s) /\ Distinct(t) /\ ToSet(s) \cap ToSet(t) = {}
                => Distinct(s \o t)
  <1> DEFINE c == s \o t
  <1>1. /\ Len(s) \in Nat /\ DOMAIN s = 1 .. Len(s)
        /\ Len(t) \in Nat /\ DOMAIN t = 1 .. Len(t)
    BY LenProperties
  <1>2. /\ c \in Seq(S) /\ Len(c) = Len(s) + Len(t)
        /\ DOMAIN c = 1 .. Len(s) + Len(t)
        /\ \A i \in 1 .. Len(s) + Len(t) :
             c[i] = IF i <= Len(s) THEN s[i] ELSE t[i - Len(s)]
    BY ConcatProperties, LenProperties
  <1> HIDE DEF c
  <1>3. \A i \in DOMAIN c : \/ i \in DOMAIN s /\ c[i] = s[i]
                            \/ i - Len(s) \in DOMAIN t /\ c[i] = t[i - Len(s)]
    BY <1>1, <1>2
  <1>4. \A i \in DOMAIN s : i \in DOMAIN c /\ c[i] = s[i]
    BY <1>1, <1>2
  <1>5. \A i \in DOMAIN t : i + Len(s) \in DOMAIN c /\ c[i + Len(s)] = t[i]
    <2>1. ASSUME NEW i \in DOMAIN t
          PROVE  /\ i + Len(s) \in DOMAIN c
                 /\ ~(i + Len(s) <= Len(s)) /\ (i + Len(s)) - Len(s) = i
      BY <1>1, <1>2
    <2>2. QED BY <1>2, <2>1
  <1>6. ToSet(c) = ToSet(s) \cup ToSet(t)
    BY <1>3, <1>4, <1>5 DEF ToSet
  <1>7. ASSUME Distinct(s), Distinct(t), ToSet(s) \cap ToSet(t) = {}
        PROVE  Distinct(c)
    <2>1. SUFFICES ASSUME NEW i \in DOMAIN c, NEW j \in DOMAIN c, c[i] = c[j]
                   PROVE  i = j
      BY DEF Distinct
    <2>2. \A k \in DOMAIN s, l \in DOMAIN t : s[k] # t[l]
      BY <1>7 DEF ToSet
    <2>3. i \in Int /\ j \in Int
      BY <1>1, <1>2
    <2>4. \/ i \in DOMAIN s /\ j \in DOMAIN s /\ s[i] = s[j]
          \/ /\ i - Len(s) \in DOMAIN t /\ j - Len(s) \in DOMAIN t
             /\ t[i - Len(s)] = t[j - Len(s)]
      BY <1>3, <2>1, <2>2
    <2>5. i = j \/ i - Len(s) = j - Len(s)
      BY <1>7, <2>4 DEF Distinct
    <2>6. QED BY <1>1, <2>3, <2>5
  <1>8. QED BY <1>2, <1>6, <1>7 DEF c

-----------------------------------------------------------------------------
(***************************************************************************)
(* Two lists read end to end as one.                                       *)
(***************************************************************************)

\* A list is its front and its last element.
LEMMA FrontAndLast ==
    ASSUME NEW S, NEW s \in Seq(S), s # << >>
    PROVE  Front(s) \o <<Last(s)>> = s
  <1> DEFINE f == Front(s)
             c == f \o <<Last(s)>>
  <1>1. /\ f \in Seq(S) /\ Len(f) = Len(s) - 1 /\ Len(s) \in Nat \ {0}
        /\ \A i \in 1 .. Len(s) - 1 : f[i] = s[i]
        /\ Last(s) \in S /\ Last(s) = s[Len(s)]
    BY FrontShape DEF Last
  <1>2. /\ <<Last(s)>> \in Seq(S) /\ Len(<<Last(s)>>) = 1
        /\ <<Last(s)>>[1] = Last(s)
    BY <1>1
  <1> HIDE DEF f
  <1>3. /\ c \in Seq(S) /\ Len(c) = Len(s)
        /\ \A i \in 1 .. Len(s) :
             c[i] = IF i <= Len(f) THEN f[i] ELSE <<Last(s)>>[i - Len(f)]
    BY <1>1, <1>2, ConcatProperties
  <1>4. \A i \in 1 .. Len(s) : c[i] = s[i]
    <2> SUFFICES ASSUME NEW i \in 1 .. Len(s) PROVE c[i] = s[i]
      OBVIOUS
    <2>1. CASE i <= Len(s) - 1
      BY <1>1, <1>3, <2>1
    <2>2. CASE i = Len(s)
      <3>1. ~(i <= Len(f)) /\ i - Len(f) = 1
        BY <1>1, <2>2
      <3>2. QED BY <1>1, <1>2, <1>3, <2>2, <3>1
    <2>3. QED BY <1>1, <2>1, <2>2
  <1> HIDE DEF c
  <1>5. c = s
    BY <1>3, <1>4, SeqEqual
  <1>6. QED BY <1>5 DEF c, f

\* Inserting at the head of the first list is inserting at the head of both.
LEMMA ConsConcat ==
    ASSUME NEW S, NEW s \in Seq(S), NEW t \in Seq(S), NEW x \in S
    PROVE  Cons(x, s) \o t = Cons(x, s \o t)
  <1>1. <<x>> \in Seq(S)
    OBVIOUS
  <1>2. QED BY <1>1, ConcatAssociative DEF Cons

\* Moving the last element of the first list to the head of the second leaves
\* the two lists end to end what they were.
LEMMA TailMoves ==
    ASSUME NEW S, NEW s \in Seq(S), NEW t \in Seq(S), s # << >>
    PROVE  Front(s) \o Cons(Last(s), t) = s \o t
  <1> DEFINE f == Front(s)
             l == <<Last(s)>>
  <1>1. f \in Seq(S) /\ Last(s) \in S
    BY FrontShape
  <1>2. l \in Seq(S)
    BY <1>1
  <1>3. f \o l = s
    BY FrontAndLast
  <1> HIDE DEF f, l
  <1>4. (f \o l) \o t = f \o (l \o t)
    BY <1>1, <1>2, ConcatAssociative
  <1>5. f \o (l \o t) = s \o t
    BY <1>3, <1>4
  <1>6. QED BY <1>5 DEF Cons, f, l

\* The last element of both lists is the last element of the second.
LEMMA FrontConcat ==
    ASSUME NEW S, NEW s \in Seq(S), NEW t \in Seq(S), t # << >>
    PROVE  /\ Front(s \o t) = s \o Front(t)
           /\ s \o t # << >>
  <1> DEFINE c == s \o t
             u == Front(t)
             l == s \o u
  <1>1. /\ Len(s) \in Nat /\ Len(t) \in Nat \ {0}
        /\ u \in Seq(S) /\ Len(u) = Len(t) - 1
        /\ \A i \in 1 .. Len(t) - 1 : u[i] = t[i]
    BY FrontShape, LenProperties
  <1>2. /\ c \in Seq(S) /\ Len(c) = Len(s) + Len(t)
        /\ \A i \in 1 .. Len(s) + Len(t) :
             c[i] = IF i <= Len(s) THEN s[i] ELSE t[i - Len(s)]
    BY ConcatProperties
  <1> HIDE DEF u
  <1>3. /\ l \in Seq(S) /\ Len(l) = Len(s) + Len(u)
        /\ \A i \in 1 .. Len(s) + Len(u) :
             l[i] = IF i <= Len(s) THEN s[i] ELSE u[i - Len(s)]
    BY <1>1, ConcatProperties
  <1> HIDE DEF c, l
  <1>4. c # << >>
    BY <1>1, <1>2, EmptySeq
  <1>5. /\ Front(c) \in Seq(S) /\ Len(Front(c)) = Len(c) - 1
        /\ \A i \in 1 .. Len(c) - 1 : Front(c)[i] = c[i]
    BY <1>2, <1>4, FrontShape
  <1>6. Len(Front(c)) = Len(l)
    BY <1>1, <1>2, <1>3, <1>5
  <1>7. ASSUME NEW i \in 1 .. Len(l) PROVE Front(c)[i] = l[i]
    <2>1. i \in 1 .. Len(c) - 1 /\ i \in 1 .. Len(s) + Len(t)
      BY <1>1, <1>2, <1>3
    <2>2. CASE i <= Len(s)
      BY <1>2, <1>3, <1>5, <2>1, <2>2
    <2>3. CASE ~(i <= Len(s))
      <3>1. i - Len(s) \in 1 .. Len(t) - 1
        BY <1>1, <1>3, <2>3
      <3>2. QED BY <1>1, <1>2, <1>3, <1>5, <2>1, <2>3, <3>1
    <2>4. QED BY <2>2, <2>3
  <1>8. Front(c) = l
    BY <1>3, <1>5, <1>6, <1>7, SeqEqual
  <1>9. QED BY <1>4, <1>8 DEF c, l, u

\* Removing an element of the first list is removing it from both.
LEMMA RemoveAtConcat ==
    ASSUME NEW S, NEW s \in Seq(S), NEW t \in Seq(S), NEW i \in DOMAIN s
    PROVE  /\ RemoveAt(s \o t, i) = RemoveAt(s, i) \o t
           /\ i \in DOMAIN (s \o t) /\ (s \o t)[i] = s[i]
  <1> DEFINE c == s \o t
             r == RemoveAt(s, i)
             l == r \o t
  <1>1. /\ Len(s) \in Nat \ {0} /\ Len(t) \in Nat /\ DOMAIN s = 1 .. Len(s)
        /\ r \in Seq(S) /\ Len(r) = Len(s) - 1
        /\ \A j \in 1 .. i - 1 : r[j] = s[j]
        /\ \A j \in i .. Len(s) - 1 : r[j] = s[j + 1]
    BY RemoveAtShape, LenProperties
  <1>2. /\ c \in Seq(S) /\ Len(c) = Len(s) + Len(t)
        /\ DOMAIN c = 1 .. Len(s) + Len(t)
        /\ \A j \in 1 .. Len(s) + Len(t) :
             c[j] = IF j <= Len(s) THEN s[j] ELSE t[j - Len(s)]
    BY ConcatProperties, LenProperties
  <1> HIDE DEF r
  <1>3. /\ l \in Seq(S) /\ Len(l) = Len(r) + Len(t)
        /\ \A j \in 1 .. Len(r) + Len(t) :
             l[j] = IF j <= Len(r) THEN r[j] ELSE t[j - Len(r)]
    BY <1>1, ConcatProperties
  <1> HIDE DEF c, l
  <1>4. i \in DOMAIN c /\ c[i] = s[i]
    BY <1>1, <1>2
  <1>5. /\ RemoveAt(c, i) \in Seq(S) /\ Len(RemoveAt(c, i)) = Len(c) - 1
        /\ \A j \in 1 .. i - 1 : RemoveAt(c, i)[j] = c[j]
        /\ \A j \in i .. Len(c) - 1 : RemoveAt(c, i)[j] = c[j + 1]
    BY <1>2, <1>4, RemoveAtShape
  <1>6. Len(RemoveAt(c, i)) = Len(l)
    BY <1>1, <1>2, <1>3, <1>5
  <1>7. ASSUME NEW j \in 1 .. Len(l) PROVE RemoveAt(c, i)[j] = l[j]
    <2>1. CASE j < i
      <3>1. /\ j \in 1 .. i - 1 /\ j \in 1 .. Len(s) + Len(t)
            /\ j <= Len(s) /\ j <= Len(r) /\ j \in 1 .. Len(r) + Len(t)
        BY <1>1, <1>3, <2>1
      <3>2. RemoveAt(c, i)[j] = s[j]
        BY <1>2, <1>5, <3>1
      <3>3. l[j] = s[j]
        BY <1>1, <1>3, <3>1
      <3>4. QED BY <3>2, <3>3
    <2>2. CASE i <= j /\ j <= Len(s) - 1
      <3>1. /\ j \in i .. Len(s) - 1 /\ j \in i .. Len(c) - 1
            /\ j + 1 \in 1 .. Len(s) + Len(t) /\ j + 1 <= Len(s)
            /\ j <= Len(r) /\ j \in 1 .. Len(r) + Len(t)
        BY <1>1, <1>2, <1>3, <2>2
      <3>2. RemoveAt(c, i)[j] = s[j + 1]
        BY <1>2, <1>5, <3>1
      <3>3. l[j] = s[j + 1]
        BY <1>1, <1>3, <3>1
      <3>4. QED BY <3>2, <3>3
    <2>3. CASE j > Len(s) - 1
      <3>1. /\ j \in i .. Len(c) - 1 /\ j + 1 \in 1 .. Len(s) + Len(t)
            /\ ~(j + 1 <= Len(s)) /\ ~(j <= Len(r))
            /\ j \in 1 .. Len(r) + Len(t)
            /\ j - Len(r) = (j + 1) - Len(s)
        BY <1>1, <1>2, <1>3, <2>3
      <3>2. RemoveAt(c, i)[j] = t[(j + 1) - Len(s)]
        BY <1>2, <1>5, <3>1
      <3>3. l[j] = t[(j + 1) - Len(s)]
        BY <1>3, <3>1
      <3>4. QED BY <3>2, <3>3
    <2>4. QED BY <1>1, <1>3, <2>1, <2>2, <2>3
  <1>8. RemoveAt(c, i) = l
    BY <1>3, <1>5, <1>6, <1>7, SeqEqual
  <1>9. QED BY <1>4, <1>8 DEF c, l, r

\* Removing an element of the second list is removing it from both.
LEMMA ConcatRemoveAt ==
    ASSUME NEW S, NEW s \in Seq(S), NEW t \in Seq(S), NEW i \in DOMAIN t
    PROVE  /\ RemoveAt(s \o t, Len(s) + i) = s \o RemoveAt(t, i)
           /\ Len(s) + i \in DOMAIN (s \o t) /\ (s \o t)[Len(s) + i] = t[i]
  <1> DEFINE c == s \o t
             r == RemoveAt(t, i)
             l == s \o r
             k == Len(s) + i
  <1>1. /\ Len(s) \in Nat /\ Len(t) \in Nat \ {0} /\ DOMAIN t = 1 .. Len(t)
        /\ r \in Seq(S) /\ Len(r) = Len(t) - 1
        /\ \A j \in 1 .. i - 1 : r[j] = t[j]
        /\ \A j \in i .. Len(t) - 1 : r[j] = t[j + 1]
    BY RemoveAtShape, LenProperties
  <1>2. /\ c \in Seq(S) /\ Len(c) = Len(s) + Len(t)
        /\ DOMAIN c = 1 .. Len(s) + Len(t)
        /\ \A j \in 1 .. Len(s) + Len(t) :
             c[j] = IF j <= Len(s) THEN s[j] ELSE t[j - Len(s)]
    BY ConcatProperties, LenProperties
  <1> HIDE DEF r
  <1>3. /\ l \in Seq(S) /\ Len(l) = Len(s) + Len(r)
        /\ \A j \in 1 .. Len(s) + Len(r) :
             l[j] = IF j <= Len(s) THEN s[j] ELSE r[j - Len(s)]
    BY <1>1, ConcatProperties
  <1> HIDE DEF c, l
  <1>4. k \in DOMAIN c /\ c[k] = t[i]
    <2>1. k \in 1 .. Len(s) + Len(t) /\ ~(k <= Len(s)) /\ k - Len(s) = i
      BY <1>1
    <2> HIDE DEF k
    <2>2. QED BY <1>2, <2>1
  <1>5. /\ RemoveAt(c, k) \in Seq(S) /\ Len(RemoveAt(c, k)) = Len(c) - 1
        /\ \A j \in 1 .. k - 1 : RemoveAt(c, k)[j] = c[j]
        /\ \A j \in k .. Len(c) - 1 : RemoveAt(c, k)[j] = c[j + 1]
    BY <1>2, <1>4, RemoveAtShape
  <1>6. Len(RemoveAt(c, k)) = Len(l)
    BY <1>1, <1>2, <1>3, <1>5
  <1>7. ASSUME NEW j \in 1 .. Len(l) PROVE RemoveAt(c, k)[j] = l[j]
    <2>0. j \in 1 .. Len(s) + Len(r) /\ i \in Int /\ k = Len(s) + i
      BY <1>1, <1>3
    <2> HIDE DEF k
    <2>1. CASE j <= Len(s)
      <3>1. j \in 1 .. k - 1 /\ j \in 1 .. Len(s) + Len(t)
        BY <1>1, <1>3, <2>0, <2>1
      <3>2. RemoveAt(c, k)[j] = s[j]
        BY <1>2, <1>5, <2>1, <3>1
      <3>3. l[j] = s[j]
        BY <1>3, <2>0, <2>1
      <3>4. QED BY <3>2, <3>3
    <2>2. CASE ~(j <= Len(s)) /\ j < k
      <3>1. /\ j \in 1 .. k - 1 /\ j \in 1 .. Len(s) + Len(t)
            /\ j - Len(s) \in 1 .. i - 1
        BY <1>1, <1>3, <2>0, <2>2
      <3>2. RemoveAt(c, k)[j] = t[j - Len(s)]
        BY <1>2, <1>5, <2>2, <3>1
      <3>3. l[j] = t[j - Len(s)]
        BY <1>1, <1>3, <2>0, <2>2, <3>1
      <3>4. QED BY <3>2, <3>3
    <2>3. CASE j >= k
      <3>1. /\ j \in k .. Len(c) - 1 /\ j + 1 \in 1 .. Len(s) + Len(t)
            /\ ~(j + 1 <= Len(s)) /\ ~(j <= Len(s))
            /\ j - Len(s) \in i .. Len(t) - 1
            /\ (j + 1) - Len(s) = (j - Len(s)) + 1
        BY <1>1, <1>2, <1>3, <2>0, <2>3
      <3>2. RemoveAt(c, k)[j] = t[(j - Len(s)) + 1]
        BY <1>2, <1>5, <3>1
      <3>3. l[j] = t[(j - Len(s)) + 1]
        BY <1>1, <1>3, <2>0, <3>1
      <3>4. QED BY <3>2, <3>3
    <2>4. QED BY <1>1, <1>3, <2>0, <2>1, <2>2, <2>3
  <1>8. RemoveAt(c, k) = l
    BY <1>3, <1>5, <1>6, <1>7, SeqEqual
  <1>9. QED BY <1>4, <1>8 DEF c, l, r, k

\* Moving the first element of the second list to the end of the first leaves
\* the two lists end to end what they were.
LEMMA HeadMoves ==
    ASSUME NEW S, NEW s \in Seq(S), NEW t \in Seq(S), t # << >>
    PROVE  Append(s, Head(t)) \o Tail(t) = s \o t
  <1> DEFINE h == <<Head(t)>>
             u == Tail(t)
             c == h \o u
  <1>1. /\ Head(t) \in S /\ u \in Seq(S) /\ Len(u) = Len(t) - 1
        /\ \A i \in 1 .. Len(t) - 1 : u[i] = t[i + 1]
        /\ Len(t) \in Nat \ {0} /\ Head(t) = t[1]
    BY HeadTailProperties, EmptySeq
  <1>2. h \in Seq(S) /\ Len(h) = 1 /\ h[1] = t[1]
    BY <1>1
  <1>3. Append(s, Head(t)) = s \o h
    OBVIOUS
  <1> HIDE DEF h, u
  <1>4. /\ c \in Seq(S) /\ Len(c) = Len(h) + Len(u)
        /\ \A i \in 1 .. Len(h) + Len(u) :
             c[i] = IF i <= Len(h) THEN h[i] ELSE u[i - Len(h)]
    BY <1>1, <1>2, ConcatProperties
  <1> HIDE DEF c
  <1>5. ASSUME NEW i \in 1 .. Len(t) PROVE c[i] = t[i]
    <2>1. CASE i = 1
      BY <1>1, <1>2, <1>4, <2>1
    <2>2. CASE i # 1
      <3>1. i - 1 \in 1 .. Len(t) - 1 /\ (i - 1) + 1 = i /\ ~(i <= 1)
        BY <1>1, <2>2
      <3>2. QED BY <1>1, <1>2, <1>4, <3>1
    <2>3. QED BY <2>1, <2>2
  <1>6. c = t
    <2>1. Len(c) = Len(t)
      BY <1>1, <1>2, <1>4
    <2>2. QED BY <1>4, <1>5, <2>1, SeqEqual
  <1>7. (s \o h) \o u = s \o c
    <2>1. u \in Seq(S)
      BY <1>1
    <2>2. (s \o h) \o u = s \o (h \o u)
      BY <1>2, <2>1, ConcatAssociative, SMTT(60)
    <2>3. QED BY <2>2 DEF c
  <1>8. QED BY <1>3, <1>6, <1>7 DEF u

\* A reversed list, element by element.
LEMMA ReverseShape ==
    ASSUME NEW S, NEW s \in Seq(S)
    PROVE  /\ Reverse(s) \in Seq(S)
           /\ Len(Reverse(s)) = Len(s) /\ Len(s) \in Nat
           /\ \A i \in 1 .. Len(s) : Reverse(s)[i] = s[(Len(s) - i) + 1]
  <1>1. Reverse(s) \in Seq(S)
    BY ReverseElements
  <1>2. Len(s) \in Nat
    BY LenProperties
  <1>3. DOMAIN Reverse(s) = 1 .. Len(s)
    BY DEF Reverse
  <1>4. Len(Reverse(s)) = Len(s)
    <2> DEFINE r == Reverse(s)
    <2>1. Len(r) \in Nat /\ DOMAIN r = 1 .. Len(r)
      BY <1>1, LenProperties
    <2> HIDE DEF r
    <2>2. 1 .. Len(r) = 1 .. Len(s)
      BY <1>3, <2>1 DEF r
    <2>3. Len(r) = Len(s)
      BY <1>2, <2>1, <2>2
    <2>4. QED BY <2>3 DEF r
  <1>5. \A i \in 1 .. Len(s) : Reverse(s)[i] = s[(Len(s) - i) + 1]
    BY DEF Reverse
  <1>6. QED BY <1>1, <1>2, <1>4, <1>5

\* What joins at the head is last in the reversed list.
LEMMA ReverseCons ==
    ASSUME NEW S, NEW s \in Seq(S), NEW x \in S
    PROVE  Reverse(Cons(x, s)) = Append(Reverse(s), x)
  <1> DEFINE c == Cons(x, s)
             r == Reverse(s)
             a == Append(r, x)
             b == Reverse(c)
  <1>1. /\ c \in Seq(S) /\ Len(c) = Len(s) + 1 /\ c[1] = x
        /\ \A i \in 1 .. Len(s) : c[i + 1] = s[i]
    BY ConsShape
  <1>2. /\ r \in Seq(S) /\ Len(r) = Len(s) /\ Len(s) \in Nat
        /\ \A i \in 1 .. Len(s) : r[i] = s[(Len(s) - i) + 1]
    BY ReverseShape
  <1> HIDE DEF c, r
  <1>3. /\ a \in Seq(S) /\ Len(a) = Len(r) + 1 /\ a[Len(r) + 1] = x
        /\ \A i \in 1 .. Len(r) : a[i] = r[i]
    BY <1>2, AppendProperties
  <1>4. /\ b \in Seq(S) /\ Len(b) = Len(c)
        /\ \A i \in 1 .. Len(c) : b[i] = c[(Len(c) - i) + 1]
    BY <1>1, ReverseShape
  <1> HIDE DEF a, b
  <1>5. ASSUME NEW i \in 1 .. Len(b) PROVE b[i] = a[i]
    <2>0. b[i] = c[(Len(c) - i) + 1] /\ i \in 1 .. Len(s) + 1
      BY <1>1, <1>4
    <2>1. CASE i = Len(s) + 1
      <3>1. (Len(c) - i) + 1 = 1
        BY <1>1, <1>2, <2>1
      <3>2. QED BY <1>1, <1>2, <1>3, <2>0, <2>1, <3>1
    <2>2. CASE i # Len(s) + 1
      <3>1. /\ i \in 1 .. Len(s) /\ (Len(s) - i) + 1 \in 1 .. Len(s)
            /\ (Len(c) - i) + 1 = ((Len(s) - i) + 1) + 1
        BY <1>1, <1>2, <2>0, <2>2
      <3>2. b[i] = s[(Len(s) - i) + 1]
        BY <1>1, <2>0, <3>1
      <3>3. a[i] = s[(Len(s) - i) + 1]
        BY <1>2, <1>3, <3>1
      <3>4. QED BY <3>2, <3>3
    <2>3. QED BY <2>1, <2>2
  <1>6. Len(b) = Len(a)
    BY <1>1, <1>2, <1>3, <1>4
  <1>7. b = a
    BY <1>3, <1>4, <1>5, <1>6, SeqEqual
  <1>8. QED BY <1>7 DEF a, b, c, r

\* The last element of a list is the first of the reversed one.
LEMMA ReverseFront ==
    ASSUME NEW S, NEW s \in Seq(S), s # << >>
    PROVE  Reverse(s) = Cons(Last(s), Reverse(Front(s)))
  <1> DEFINE f == Front(s)
             r == Reverse(f)
             c == Cons(Last(s), r)
             b == Reverse(s)
  <1>1. /\ f \in Seq(S) /\ Len(f) = Len(s) - 1 /\ Len(s) \in Nat \ {0}
        /\ \A i \in 1 .. Len(s) - 1 : f[i] = s[i]
        /\ Last(s) \in S /\ Last(s) = s[Len(s)]
    BY FrontShape DEF Last
  <1> HIDE DEF f
  <1>2. /\ r \in Seq(S) /\ Len(r) = Len(f)
        /\ \A i \in 1 .. Len(f) : r[i] = f[(Len(f) - i) + 1]
    BY <1>1, ReverseShape
  <1> HIDE DEF r
  <1>3. /\ c \in Seq(S) /\ Len(c) = Len(r) + 1 /\ c[1] = Last(s)
        /\ \A i \in 1 .. Len(r) : c[i + 1] = r[i]
    <2>1. r \in Seq(S) /\ Last(s) \in S
      BY <1>1, <1>2
    <2>2. QED BY ONLY <2>1, ConsShape
  <1>4. /\ b \in Seq(S) /\ Len(b) = Len(s)
        /\ \A i \in 1 .. Len(s) : b[i] = s[(Len(s) - i) + 1]
    BY ReverseShape
  <1> HIDE DEF c, b
  <1>5. ASSUME NEW i \in 1 .. Len(b) PROVE b[i] = c[i]
    <2>0. b[i] = s[(Len(s) - i) + 1] /\ i \in 1 .. Len(s)
      BY <1>4
    <2>1. CASE i = 1
      <3>1. (Len(s) - i) + 1 = Len(s)
        BY <1>1, <2>1
      <3>2. QED BY <1>1, <1>3, <2>0, <2>1, <3>1
    <2>2. CASE i # 1
      <3>1. /\ i - 1 \in 1 .. Len(r) /\ (i - 1) + 1 = i
            /\ i - 1 \in 1 .. Len(f)
            /\ (Len(f) - (i - 1)) + 1 = (Len(s) - i) + 1
            /\ (Len(s) - i) + 1 \in 1 .. Len(s) - 1
        BY <1>1, <1>2, <2>0, <2>2
      <3>2. c[i] = r[i - 1]
        BY <1>3, <3>1
      <3>3. r[i - 1] = f[(Len(s) - i) + 1]
        BY <1>2, <3>1
      <3>4. f[(Len(s) - i) + 1] = s[(Len(s) - i) + 1]
        BY <1>1, <3>1
      <3>5. QED BY <2>0, <3>2, <3>3, <3>4
    <2>3. QED BY <2>1, <2>2
  <1>6. Len(b) = Len(c)
    BY <1>1, <1>2, <1>3, <1>4
  <1>7. b = c
    BY <1>3, <1>4, <1>5, <1>6, SeqEqual
  <1>8. QED BY <1>7 DEF f, r, c, b

\* What leaves a list leaves the reversed one.
LEMMA ReverseRemoveAt ==
    ASSUME NEW S, NEW s \in Seq(S), NEW i \in DOMAIN s
    PROVE  \E k \in DOMAIN Reverse(s) :
             Reverse(RemoveAt(s, i)) = RemoveAt(Reverse(s), k)
  <1> DEFINE q == RemoveAt(s, i)
             r == Reverse(s)
             b == Reverse(q)
             k == (Len(s) - i) + 1
             d == RemoveAt(r, k)
  <1>1. /\ q \in Seq(S) /\ Len(q) = Len(s) - 1
        /\ Len(s) \in Nat \ {0} /\ DOMAIN s = 1 .. Len(s)
        /\ \A j \in 1 .. i - 1 : q[j] = s[j]
        /\ \A j \in i .. Len(s) - 1 : q[j] = s[j + 1]
    BY RemoveAtShape, LenProperties
  <1>2. /\ r \in Seq(S) /\ Len(r) = Len(s)
        /\ \A j \in 1 .. Len(s) : r[j] = s[(Len(s) - j) + 1]
    BY ReverseShape
  <1>3. DOMAIN r = 1 .. Len(s)
    BY <1>2, LenProperties
  <1> HIDE DEF q, r
  <1>4. i \in 1 .. Len(s) /\ k \in 1 .. Len(s) /\ i = (Len(s) - k) + 1
    BY <1>1
  <1>5. /\ b \in Seq(S) /\ Len(b) = Len(q)
        /\ \A j \in 1 .. Len(q) : b[j] = q[(Len(q) - j) + 1]
    BY <1>1, ReverseShape
  <1> HIDE DEF b, k
  <1>6. /\ d \in Seq(S) /\ Len(d) = Len(r) - 1
        /\ \A j \in 1 .. k - 1 : d[j] = r[j]
        /\ \A j \in k .. Len(r) - 1 : d[j] = r[j + 1]
    <2>1. r \in Seq(S) /\ k \in DOMAIN r
      BY <1>2, <1>3, <1>4
    <2>2. QED BY ONLY <2>1, RemoveAtShape
  <1> HIDE DEF d
  <1>7. ASSUME NEW j \in 1 .. Len(b) PROVE b[j] = d[j]
    <2>0. /\ b[j] = q[(Len(q) - j) + 1] /\ j \in 1 .. Len(s) - 1
          /\ (Len(q) - j) + 1 = Len(s) - j
      BY <1>1, <1>5
    <2>1. CASE j < k
      <3>1. /\ j \in 1 .. k - 1 /\ j \in 1 .. Len(s)
            /\ Len(s) - j \in i .. Len(s) - 1
        BY <1>1, <1>4, <2>0, <2>1
      <3>2. b[j] = s[(Len(s) - j) + 1]
        BY <1>1, <2>0, <3>1
      <3>3. d[j] = s[(Len(s) - j) + 1]
        BY <1>2, <1>6, <3>1
      <3>4. QED BY <3>2, <3>3
    <2>2. CASE j >= k
      <3>1. /\ j \in k .. Len(r) - 1 /\ j + 1 \in 1 .. Len(s)
            /\ Len(s) - j \in 1 .. i - 1
            /\ (Len(s) - (j + 1)) + 1 = Len(s) - j
        BY <1>1, <1>2, <1>4, <2>0, <2>2
      <3>2. b[j] = s[Len(s) - j]
        BY <1>1, <2>0, <3>1
      <3>3. d[j] = s[Len(s) - j]
        BY <1>2, <1>6, <3>1
      <3>4. QED BY <3>2, <3>3
    <2>3. QED BY <1>1, <1>4, <2>0, <2>1, <2>2
  <1>8. Len(b) = Len(d)
    BY <1>1, <1>2, <1>5, <1>6
  <1>9. b = d
    BY <1>5, <1>6, <1>7, <1>8, SeqEqual
  <1>10. QED BY <1>3, <1>4, <1>9 DEF b, d, q, r

\* What joins at the end leaves the list a prefix.
LEMMA ConcatPrefix ==
    ASSUME NEW S, NEW s \in Seq(S), NEW t \in Seq(S)
    PROVE  IsPrefix(s, s \o t)
  <1> DEFINE c == s \o t
             a == SubSeq(s, 1, Len(s))
             b == SubSeq(c, 1, Len(s))
  <1>1. /\ Len(s) \in Nat /\ Len(t) \in Nat /\ c \in Seq(S)
        /\ Len(c) = Len(s) + Len(t)
        /\ \A i \in 1 .. Len(s) + Len(t) :
             c[i] = IF i <= Len(s) THEN s[i] ELSE t[i - Len(s)]
    BY ConcatProperties, LenProperties
  <1>2. \A i \in 1 .. Len(s) : c[i] = s[i]
    <2> TAKE i \in 1 .. Len(s)
    <2>1. i \in 1 .. Len(s) + Len(t) /\ i <= Len(s)
      BY <1>1
    <2>2. QED BY <1>1, <2>1
  <1> HIDE DEF c
  <1>3. /\ a \in Seq(S) /\ Len(a) = Len(s) /\ b \in Seq(S) /\ Len(b) = Len(s)
        /\ \A i \in 1 .. Len(s) : a[i] = s[i] /\ b[i] = c[i]
    <2>1. \A i \in 1 .. Len(s) : s[i] \in S
      BY <1>1, ElementOfSeq
    <2>2. \A i \in 1 .. Len(s) : c[i] \in S
      BY <1>2, <2>1
    <2>3. /\ a \in Seq(S)
          /\ Len(a) = IF 1 <= Len(s) THEN Len(s) - 1 + 1 ELSE 0
          /\ \A i \in 1 .. Len(s) - 1 + 1 : a[i] = s[1 + i - 1]
      BY <1>1, <2>1, SubSeqProperties
    <2>4. /\ b \in Seq(S)
          /\ Len(b) = IF 1 <= Len(s) THEN Len(s) - 1 + 1 ELSE 0
          /\ \A i \in 1 .. Len(s) - 1 + 1 : b[i] = c[1 + i - 1]
      BY <1>1, <2>2, SubSeqProperties
    <2> HIDE DEF a, b
    <2>5. QED BY <1>1, <2>3, <2>4
  <1> HIDE DEF a, b
  <1>4. a = b
    <2>1. \A i \in 1 .. Len(a) : a[i] = b[i]
      BY <1>2, <1>3
    <2>2. QED BY <1>3, <2>1, SeqEqual
  <1>5. Len(s) <= Len(c)
    BY <1>1
  <1>6. QED BY <1>4, <1>5 DEF IsPrefix, a, b, c

\* The head of a list is the first to leave it.
LEMMA ConsHeadTail ==
    ASSUME NEW S, NEW s \in Seq(S), NEW x \in S
    PROVE  /\ Cons(x, s) # << >>
           /\ Head(Cons(x, s)) = x /\ Tail(Cons(x, s)) = s
           /\ 1 \in DOMAIN Cons(x, s) /\ RemoveAt(Cons(x, s), 1) = s
  <1> DEFINE c == Cons(x, s)
             t == Tail(c)
             r == RemoveAt(c, 1)
  <1>1. /\ c \in Seq(S) /\ Len(c) = Len(s) + 1 /\ c[1] = x
        /\ \A i \in 1 .. Len(s) : c[i + 1] = s[i]
        /\ Len(s) \in Nat
    BY ConsShape, LenProperties
  <1> HIDE DEF c
  <1>2. DOMAIN c = 1 .. Len(c) /\ c # << >> /\ 1 \in DOMAIN c
    BY <1>1, LenProperties, EmptySeq
  <1>3. /\ t \in Seq(S) /\ Len(t) = Len(s)
        /\ \A i \in 1 .. Len(s) : t[i] = c[i + 1]
        /\ Head(c) = c[1]
    BY <1>1, <1>2, HeadTailProperties
  <1>4. /\ r \in Seq(S) /\ Len(r) = Len(c) - 1
        /\ \A j \in 1 .. Len(c) - 1 : r[j] = c[j + 1]
    BY <1>1, <1>2, RemoveAtShape
  <1> HIDE DEF t, r
  <1>5. t = s
    BY <1>1, <1>3, SeqEqual
  <1>6. r = s
    <2>1. Len(c) - 1 = Len(s) /\ Len(r) = Len(s)
      BY <1>1, <1>4
    <2>2. \A i \in 1 .. Len(s) : r[i] = s[i]
      BY <1>1, <1>4, <2>1
    <2>3. QED BY <1>4, <2>1, <2>2, SeqEqual
  <1>7. QED BY <1>1, <1>2, <1>3, <1>5, <1>6 DEF c, t, r

\* A set of numbers that is not empty has a least element.
LEMMA LeastNumber ==
    ASSUME NEW S, S \subseteq Nat, S # {}
    PROVE  \E x \in S : \A y \in S : x <= y
  <1>1. PICK x \in S : \A y \in S : ~(<<y, x>> \in OpToRel(<, Nat))
    BY NatLessThanWellFounded, WFMin
  <1>2. \A y \in S : ~(y < x)
    BY <1>1 DEF OpToRel
  <1>3. QED BY <1>2

-----------------------------------------------------------------------------
(***************************************************************************)
(* Loops over a list (FoldLeft).  A module that reasons about a loop       *)
(* instantiates this one with the loop's body.                             *)
(***************************************************************************)
CONSTANT Body(_, _)

\* A set of numbers up to n that is not empty has a greatest element, Max.
LEMMA GreatestNumber ==
    ASSUME NEW n \in Nat, NEW S \in SUBSET (1 .. n), S # {}
    PROVE  Max(S) \in S /\ \A y \in S : Max(S) >= y
  <1> DEFINE T == {n - x : x \in S}
  <1>1. T \subseteq Nat /\ T # {}
    <2>1. \A x \in 1 .. n : n - x \in Nat
      OBVIOUS
    <2>2. T \subseteq Nat
      BY <2>1
    <2>3. QED BY <2>2, Zenon
  <1>2. PICK t \in T : \A y \in T : t <= y
    BY <1>1, LeastNumber
  <1>3. PICK x \in S : t = n - x
    BY <1>2
  <1>4. \A y \in S : x >= y
    <2> TAKE y \in S
    <2>1. n - x <= n - y
      BY <1>2, <1>3
    <2>2. x \in 1 .. n /\ y \in 1 .. n
      OBVIOUS
    <2>3. QED BY <2>1, <2>2
  <1>5. QED
    BY <1>4 DEF Max

\* Removing the last element of 1 .. i.
LEMMA GreatestOfRange ==
    ASSUME NEW i \in Nat \ {0}
    PROVE  Max(1 .. i) = i /\ (1 .. i) \ {Max(1 .. i)} = 1 .. i - 1
  <1>1. Max(1 .. i) \in 1 .. i /\ \A y \in 1 .. i : Max(1 .. i) >= y
    <2>1. 1 .. i \in SUBSET (1 .. i) /\ 1 .. i # {} /\ i \in Nat
      OBVIOUS
    <2>2. QED BY <2>1, GreatestNumber, Zenon
  <1>2. Max(1 .. i) = i
    BY <1>1
  <1>3. QED BY <1>2

\* A fold with a loop's body is computed by a function on the subsets of the
\* places of the list.
IsFold(f, base, seq, n) ==
    f = [s \in SUBSET (1 .. n) |->
           IF s = {} THEN base ELSE Body(f[s \ {Max(s)}], seq[Max(s)])]

LEMMA FoldIsDefined ==
    ASSUME NEW base, NEW seq, NEW n \in Nat
    PROVE  \E f : IsFold(f, base, seq, n)
  <1> DEFINE Value(f, s) == IF s = {} THEN base ELSE Body(f[s \ {Max(s)}], seq[Max(s)])
             Defined(k) == \E f : f = [s \in SUBSET (1 .. k) |-> Value(f, s)]
             Bad == {k \in Nat : ~Defined(k)}
  <1>1. SUFFICES Bad = {}
    BY DEF IsFold
  <1>2. SUFFICES ASSUME Bad # {} PROVE FALSE
    OBVIOUS
  <1>3. PICK k \in Bad : \A j \in Bad : k <= j
    <2> HIDE DEF Defined
    <2>1. QED BY <1>2, LeastNumber
  <1>4. CASE k = 0
    <2> DEFINE g == [s \in {{}} |-> base]
    <2>1. SUBSET (1 .. 0) = {{}}
      OBVIOUS
    <2>2. g = [s \in SUBSET (1 .. 0) |-> Value(g, s)]
      BY <2>1
    <2>3. QED BY <1>3, <1>4, <2>2
  <1>5. CASE k # 0
    <2>1. k \in Nat \ {0} /\ k - 1 \in Nat /\ Defined(k - 1)
      <3> HIDE DEF Defined
      <3>1. k \in Nat \ {0} /\ k - 1 \in Nat /\ k - 1 \notin Bad
        BY <1>3, <1>5
      <3>2. QED BY <3>1
    <2>2. PICK f : f = [s \in SUBSET (1 .. k - 1) |-> Value(f, s)]
      BY <2>1
    <2> DEFINE g == [s \in SUBSET (1 .. k) |->
                       IF s = {} THEN base ELSE Body(f[s \ {Max(s)}], seq[Max(s)])]
    <2>3. ASSUME NEW s \in SUBSET (1 .. k), s # {}
          PROVE  g[s \ {Max(s)}] = f[s \ {Max(s)}]
      <3>1. Max(s) \in 1 .. k /\ \A y \in s : y <= Max(s)
        BY <2>1, <2>3, GreatestNumber
      <3>2. s \ {Max(s)} \in SUBSET (1 .. k - 1)
        <4>1. ASSUME NEW y \in s, y # Max(s) PROVE y \in 1 .. k - 1
          <5>1. y \in 1 .. k /\ y <= Max(s)
            BY <3>1
          <5>2. QED BY <2>1, <3>1, <4>1, <5>1
        <4>2. QED BY <4>1
      <3>3. 1 .. k - 1 \subseteq 1 .. k
        BY <2>1
      <3> DEFINE r == s \ {Max(s)}
      <3>4. g[r] = Value(f, r)
        BY <3>2, <3>3, Zenon
      <3>5. f[r] = Value(f, r)
        BY <2>2, <3>2, Zenon
      <3>6. QED BY <3>4, <3>5, Zenon
    <2>4. g = [s \in SUBSET (1 .. k) |-> Value(g, s)]
      <3>1. \A s \in SUBSET (1 .. k) : Value(f, s) = Value(g, s)
        BY <2>3, Zenon
      <3>2. QED BY <3>1, Zenon
    <2>5. QED BY <1>3, <2>4, Zenon
  <1>6. QED BY <1>4, <1>5

\* A loop over a list (FoldLeft) ends where its body leads, place by place.
LEMMA FoldKeeps ==
    ASSUME NEW base, NEW seq, NEW n \in Nat, DOMAIN seq = 1 .. n,
           NEW J, base \in J[0],
           \A i \in 1 .. n : \A a \in J[i - 1] : Body(a, seq[i]) \in J[i]
    PROVE  FoldLeft(Body, base, seq) \in J[n]
  <1> DEFINE Value(f, s) == IF s = {} THEN base ELSE Body(f[s \ {Max(s)}], seq[Max(s)])
             iter == CHOOSE f : f = [s \in SUBSET (1 .. n) |-> Value(f, s)]
  <1>1. FoldLeft(Body, base, seq) = iter[1 .. n]
    BY DEF FoldLeft, MapThenFoldSet
  <1>2. iter = [s \in SUBSET (1 .. n) |-> Value(iter, s)]
    <2>1. PICK f : IsFold(f, base, seq, n)
      BY FoldIsDefined
    <2>2. f = [s \in SUBSET (1 .. n) |-> Value(f, s)]
      BY <2>1, Zenon DEF IsFold
    <2>3. QED BY <2>2, Zenon
  <1> HIDE DEF iter
  <1> DEFINE Bad == {i \in Nat : i <= n /\ iter[1 .. i] \notin J[i]}
  <1>3. SUFFICES ASSUME Bad # {} PROVE FALSE
    BY <1>1
  <1>4. PICK i \in Bad : \A j \in Bad : i <= j
    <2>1. Bad \subseteq Nat
      OBVIOUS
    <2> HIDE DEF Bad
    <2>2. QED BY <1>3, <2>1, LeastNumber
  <1>5. i \in Nat /\ i <= n /\ 1 .. i \in SUBSET (1 .. n)
    BY <1>4
  <1>6. CASE i = 0
    <2>1. 1 .. i = {}
      BY <1>6
    <2>2. iter[1 .. i] = base
      BY <1>2, <1>5, <2>1, Zenon
    <2>3. QED BY <1>4, <1>6, <2>2
  <1>7. CASE i # 0
    <2> HIDE DEF Bad
    <2>1. i \in Nat \ {0} /\ i - 1 \in Nat /\ i \in 1 .. n /\ 1 .. i # {}
      BY <1>5, <1>7
    <2> USE DEF Bad
    <2>2. Max(1 .. i) = i /\ (1 .. i) \ {Max(1 .. i)} = 1 .. i - 1
      BY <2>1, GreatestOfRange
    <2>3. iter[1 .. i] = Body(iter[1 .. i - 1], seq[i])
      BY <1>2, <1>5, <2>1, <2>2, Zenon
    <2>4. i - 1 \notin Bad
      BY <1>4, <2>1
    <2>5. iter[1 .. i - 1] \in J[i - 1]
      BY <1>5, <2>1, <2>4
    <2>6. QED BY <1>4, <2>1, <2>3, <2>5
  <1>8. QED BY <1>6, <1>7

\* The same when every turn of the loop keeps one and the same fact.
LEMMA FoldStays ==
    ASSUME NEW base, NEW seq, NEW n \in Nat, DOMAIN seq = 1 .. n,
           NEW K, base \in K,
           \A i \in 1 .. n : \A a \in K : Body(a, seq[i]) \in K
    PROVE  FoldLeft(Body, base, seq) \in K
  <1> DEFINE J == [i \in 0 .. n |-> K]
  <1>1. \A i \in 0 .. n : J[i] = K
    OBVIOUS
  <1>2. 0 \in 0 .. n /\ n \in 0 .. n /\ \A i \in 1 .. n : i \in 0 .. n /\ i - 1 \in 0 .. n
    OBVIOUS
  <1> HIDE DEF J
  <1>3. base \in J[0]
    BY <1>1, <1>2
  <1>4. \A i \in 1 .. n : \A a \in J[i - 1] : Body(a, seq[i]) \in J[i]
    BY <1>1, <1>2
  <1>5. FoldLeft(Body, base, seq) \in J[n]
    BY <1>3, <1>4, FoldKeeps
  <1>6. QED BY <1>1, <1>2, <1>5

=============================================================================
