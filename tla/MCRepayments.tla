---------------------------- MODULE MCRepayments ----------------------------
(* A small instance of Repayments for TLC. *)
EXTENDS Repayments, TLC

CONSTANTS d1, d2, r1, r2, c1, i1, i2, driver

\* One contract; r1 is a checkout and r2 a transfer.  Together they exceed the
\* balance, and one of them does not divide by two.  The run with one payment
\* takes one that exceeds it.
MCContractOf == [r \in Refs |-> c1]
MCDriverOf == (c1 :> driver)
MCAmount == (r1 :> 5) @@ (r2 :> 4)
MCOneAmount == (r1 :> 8)
MCPayable == (c1 :> 7)

\* The pool's largest investor is there when its contract becomes active; or it
\* has none.
MCNoStake == {(c1 :> ((i1 :> 0) @@ (i2 :> 0)))}
MCStakes == {(c1 :> ((i1 :> 2) @@ (i2 :> 0)))} \cup MCNoStake
MCMaxStake == (i1 :> 0) @@ (i2 :> 1)

Symmetry == Permutations({d1, d2})
=============================================================================
