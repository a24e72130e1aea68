---------------------------- MODULE MCApprovals ----------------------------
(* A small instance of Approvals for TLC. *)
EXTENDS Approvals, TLC

CONSTANTS ann, bob, una, r1, r2, c1, c2

\* Two administrators, and a user who is none.
MCInitialRole == (ann :> "admin") @@ (bob :> "admin") @@ (una :> "investor")

Symmetry == Permutations({ann, bob}) \cup Permutations({r1, r2}) \cup Permutations({c1, c2})
=============================================================================
