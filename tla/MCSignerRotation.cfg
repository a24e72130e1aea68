SPECIFICATION Spec
CONSTANTS
    r1 = r1 s1 = s1 s2 = s2 s3 = s3 g1 = g1 g2 = g2
    None = None
    Handlers = {h1, h2}
    Requests = {r1}
    Signers = {s1, s2, s3}
    Weight <- Weights
    Threshold <- Thresholds
    Governors = {g1, g2}
    Governing <- Rules
    MaxVersion = 2
    MaxSequence = 1
SYMMETRY Symmetry
INVARIANTS
    LedgerIsBacked
    RetiredBacksNothing
    ActiveUnlessFirstUndone
PROPERTIES
    TerminalIsFinal
