SPECIFICATION FairSpec
CONSTANTS
    c1 = c1
    c2 = c2
    u1 = u1
    u2 = u2
    p1 = p1
    k1 = k1
    k2 = k2
    Calls = {c1, c2}
    Users = {u1, u2}
    Pools = {p1}
    Keys = {k1, k2}
    Amounts = {1, 2}
    Credits = {2}
    Target <- MCTarget
    MinContribution <- MCMinContribution
    TotalUnits = 1000000
    KycApproved = {u1, u2}
    MaxCredit <- MCMaxCredit
    MaxTries = 0
    Absent = Absent
INVARIANTS
    TypeOK
    PoolWithinTarget
    PoolAgreesWithInvestments
    WalletConserved
    OneInvestmentPerKey
    AnswersAreTrue
PROPERTIES
    RefinesAtomicInvestment
    CallsTerminate
CHECK_DEADLOCK FALSE
