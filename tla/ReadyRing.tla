----------------------------- MODULE ReadyRing -----------------------------
(***************************************************************************)
(* What round-robin scheduling promises: the environments that can run     *)
(* form a ring, its first one running.  A turn moves the first to the end; *)
(* those that become ready join at the end; one may leave from anywhere.   *)
(* Nobody is ever overtaken.                                               *)
(***************************************************************************)
EXTENDS Naturals, Sequences, SequencesExt

CONSTANT Env     \* the environments

VARIABLE ring

Init == ring = << >>

\* The first has used its quantum.
Turn == /\ ring # << >>
        /\ ring' = Append(Tail(ring), Head(ring))

\* Some environments become ready, in some order.
Join == /\ ring' \in Seq(Env)
        /\ IsPrefix(ring, ring')

\* One exits or is killed.
Leave(i) == ring' = RemoveAt(ring, i)

Next == \/ Turn
        \/ Join
        \/ \E i \in DOMAIN ring : Leave(i)

Spec == Init /\ [][Next]_ring
=============================================================================
