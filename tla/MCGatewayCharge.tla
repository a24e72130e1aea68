-------------------------- MODULE MCGatewayCharge --------------------------
(* A small instance of GatewayCharge for TLC. *)
EXTENDS GatewayCharge

CONSTANTS u1, l1, q1, r1, r2, h1, h2, d1, d2

MCQuotedAmount == [q \in Quotes |-> 3]
=============================================================================
