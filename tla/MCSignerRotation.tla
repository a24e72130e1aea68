-------------------------- MODULE MCSignerRotation --------------------------
EXTENDS SignerRotation, TLC

CONSTANTS r1, s1, s2, s3, g1, g2

\* Each set has two of the signers and asks for both.
Weights == [v \in Versions |-> [s \in Signers |->
               IF s = s1 \/ s = (IF v = 1 THEN s2 ELSE s3) THEN 1 ELSE 0]]
Thresholds == [v \in Versions |-> 2]

\* One governor of each kind is enough.
Rules == [t \in QuorumType |->
             [weight |-> [g \in Governors |-> IF (g = g1) = (t = "standard") THEN 1 ELSE 0],
              threshold |-> 1]]

Symmetry == Permutations(Handlers)
=============================================================================
