SPECIFICATION Spec
CONSTANTS
    d1 = d1
    d2 = d2
    r1 = r1
    r2 = r2
    c1 = c1
    i1 = i1
    i2 = i2
    driver = driver
    Deliveries = {d1, d2}
    Refs = {r1, r2}
    Checkout = {r1}
    Contracts = {c1}
    Investors = {i1, i2}
    Users = {i1, i2, driver}
    ContractOf <- MCContractOf
    DriverOf <- MCDriverOf
    Amount <- MCAmount
    InitialPayable <- MCPayable
    InitialStakes <- MCStakes
    NewPayables = {3}
    MaxStake <- MCMaxStake
    Absent = Absent
SYMMETRY Symmetry
INVARIANTS
    TotalPaidAgrees
    CompletedMeansPaid
    PaymentSplitExactly
    WalletsAgree
    OneRepaymentTransaction
    AnswersAreTrue
PROPERTIES
    NeverOverpaid
CHECK_DEADLOCK FALSE
