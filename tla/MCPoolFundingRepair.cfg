SPECIFICATION RepairSpec
CONSTANTS
    Calls = {c1, c2}
    Users = {u1}
    Pools = {p1}
    Keys = {k1, k2}
    Amounts = {1}
    Credits = {2}
    Target <- MCTarget
    MinContribution <- MCMinContribution
    TotalUnits = 1000000
    KycApproved = {u1}
    MaxCredit <- MCMaxCredit
    MaxTries = 0
    Absent = Absent
PROPERTIES
    RepairIsSafe
CHECK_DEADLOCK FALSE
