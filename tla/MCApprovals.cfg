SPECIFICATION Spec
CONSTANTS
    ann = ann
    bob = bob
    una = una
    r1 = r1
    r2 = r2
    c1 = c1
    c2 = c2
    Users = {ann, bob, una}
    Requests = {r1, r2}
    Checkers = {c1, c2}
    Commands = {"driver"}
    InitialRole <- MCInitialRole
    MaxVersion = 1
    Absent = Absent
SYMMETRY Symmetry
INVARIANTS
    TypeOK
    ExecutedAtMostOnce
    FourEyes
    StatusTellsEffect
PROPERTIES
    TerminalIsFinal
CHECK_DEADLOCK FALSE
