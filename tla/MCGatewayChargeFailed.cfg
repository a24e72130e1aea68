SPECIFICATION Spec
CONSTANTS
    u1 = u1
    l1 = l1
    q1 = q1
    r1 = r1
    r2 = r2
    h1 = h1
    h2 = h2
    d1 = d1
    d2 = d2
    Users = {u1}
    Loans = {l1}
    Quotes = {q1}
    WalletReferences = {r1}
    LoanReferences = {r2}
    Checkouts = {h1, h2}
    Deliveries = {d1, d2}
    InitialBalance = 2
    Amounts = {2}
    QuotedAmount <- MCQuotedAmount
    MaxTries = 1
    MaxFailures = 1
    Absent = Absent
INVARIANT
    OnlyPaidIsBooked
CHECK_DEADLOCK FALSE
