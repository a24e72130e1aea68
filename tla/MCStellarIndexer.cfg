SPECIFICATION FairSpec
CONSTANTS
    o1 = o1
    w1 = w1
    w2 = w2
    s1 = s1
    x1 = x1
    x2 = x2
    u1 = u1
    h1 = h1
    h2 = h2
    h3 = h3
    p1 = p1
    p2 = p2
    Operators = {o1}
    Workers = {w1, w2}
    Records = {s1}
    Refs = {x1, x2}
    Users = {u1}
    UserOf <- MCUserOf
    Amount <- MCAmount
    Threshold <- MCThreshold
    WalletFunding = {x1, x2}
    AutoExpire = {x1}
    InitialRecords <- MCNoRecords
    Last = 3
    Limit = 2
    Hashes = {h1, h2, h3}
    TxOf <- MCTxOf
    HashOf <- MCHashOf
    Foreign = {3}
    Processes = {p1, p2}
    MaxFaults = 1
    Absent = Absent
INVARIANTS
    WalletAgrees
    CursorCovers
    OneCountPerOperation
PROPERTIES
    CursorOnlyAdvances
    CatchesUp
CHECK_DEADLOCK FALSE
