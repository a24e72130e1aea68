-------------------------- MODULE MCPoolInvestment --------------------------
(* A small instance of PoolInvestment for TLC. *)
EXTENDS PoolInvestment

CONSTANTS c1, c2, u1, u2, p1, k1, k2

\* A target that not every contribution divides, so that shares are rounded.
MCTarget == [p \in Pools |-> 3]
MCMinContribution == [p \in Pools |-> 1]

\* u1 can use one key for two amounts, and is credited while it invests.
MCMaxCredit == [u \in Users |-> IF u = u1 THEN 4 ELSE 2]
=============================================================================
