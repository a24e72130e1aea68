-------------------------- MODULE MCStellarIndexer --------------------------
(* A small instance of StellarIndexer for TLC. *)
EXTENDS StellarIndexer, TLC

CONSTANTS o1, w1, w2, s1, x1, x2, u1, h1, h2, h3, p1, p2

\* Three operations of three transactions, two to a page; the second pays x1.
MCTxOf == <<h1, h2, h3>>
MCHashOf == (x1 :> h2) @@ (x2 :> h1)
MCUserOf == [x \in Refs |-> u1]
MCAmount == [x \in Refs |-> 1]
MCThreshold == (x1 :> 1) @@ (x2 :> 2)
MCNoRecords == [r \in Records |-> Absent]
=============================================================================
