SPECIFICATION Spec
CONSTANTS
    d1 = d1
    d2 = d2
    r1 = r1
    r2 = r2
    c1 = c1
    i1 = i1
    i2 = i2
    driver = driver
    Deliveries = {d1, d2}
    Refs = {r1}
    Checkout = {}
    Contracts = {c1}
    Investors = {i1, i2}
    Users = {i1, i2, driver}
    ContractOf <- MCContractOf
    DriverOf <- MCDriverOf
    Amount <- MCOneAmount
    InitialPayable <- MCPayable
    InitialStakes <- MCNoStake
    NewPayables = {3}
    MaxStake <- MCMaxStake
    Absent = Absent
SYMMETRY Symmetry
INVARIANTS
    DistributedWholeOrNot
CHECK_DEADLOCK FALSE
