------------------------------ MODULE ListSeqs ------------------------------
(***************************************************************************)
(* What the lists of inc/queue.h promise: every list is a sequence of      *)
(* elements, an element is in one list at most, and an operation puts one  *)
(* element somewhere into one list or takes one out of it.                 *)
(***************************************************************************)
EXTENDS Naturals, Sequences

CONSTANTS Heads, Elems

VARIABLE seq

Members(s) == {s[k] : k \in DOMAIN s}
InSome(e) == \E h \in Heads : e \in Members(seq[h])

Init == seq = [h \in Heads |-> << >>]

Put(h, e, k) ==
    /\ ~InSome(e)
    /\ k \in 0 .. Len(seq[h])
    /\ seq' = [seq EXCEPT ![h] = SubSeq(@, 1, k) \o <<e>> \o SubSeq(@, k + 1, Len(@))]

Take(h, k) ==
    /\ k \in DOMAIN seq[h]
    /\ seq' = [seq EXCEPT ![h] = SubSeq(@, 1, k - 1) \o SubSeq(@, k + 1, Len(@))]

Next ==
    \E h \in Heads :
      \/ \E e \in Elems : \E k \in 0 .. Len(seq[h]) : Put(h, e, k)
      \/ \E k \in DOMAIN seq[h] : Take(h, k)

Spec == Init /\ [][Next]_seq
=============================================================================
