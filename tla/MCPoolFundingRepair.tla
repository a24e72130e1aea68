------------------------ MODULE MCPoolFundingRepair ------------------------
(* A small instance of PoolFundingRepair for TLC: one investor, two requests. *)
EXTENDS PoolFundingRepair

MCTarget == [p \in Pools |-> 3]
MCMinContribution == [p \in Pools |-> 1]
MCMaxCredit == [u \in Users |-> 2]
=============================================================================
