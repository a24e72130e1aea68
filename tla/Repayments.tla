----------------------------- MODULE Repayments -----------------------------
(***************************************************************************)
(* Driver repayments: a charge that Paystack reports is turned into a      *)
(* confirmed DriverPayment, an amount paid on the hire-purchase contract   *)
(* and credits to the investors of the contract's pool                     *)
(* (lib/services/driver-contracts.service.ts and                           *)
(* lib/repayments/repayment-engine.service.ts).                            *)
(*                                                                         *)
(* A delivery is one execution of a handler that reports a charge: the     *)
(* webhook, which Paystack repeats until it is answered with success, or   *)
(* the payer's own verify request.  Nothing keeps two deliveries of one    *)
(* reference, or of two references of one contract, apart: all that        *)
(* protects the books is the transaction of confirmDriverPayment, which    *)
(* is not retried, and the unique indexes.  Money is in kobo.              *)
(***************************************************************************)
EXTENDS Integers, FiniteSets, Functions

CONSTANTS Deliveries,      \* handlers at work at the same time
          Refs,            \* paystackRef / gatewayRef
          Checkout,        \* the references made by createDriverPayment; the
                           \* others are transfers to a dedicated account
          Contracts, Investors,
          Users,           \* Investors and drivers
          ContractOf,      \* by reference
          DriverOf,        \* by contract
          Amount,          \* what is charged under a reference
          InitialPayable,  \* totalPayableNgn at activation, by contract
          InitialStakes,   \* confirmed PoolInvestments at activation, by contract: what
                           \* they may be
          NewPayables,     \* totalPayableNgn of a restructuring
          MaxStake,        \* bound: up to what stake each investor joins later
          Absent

Repayable == {"ACTIVE", "DELINQUENT", "RESTRUCTURED"}
Status == Repayable \cup {"COMPLETED", "REPOSSESSED", "CLOSED"}

PaymentDoc == [status : {"PENDING", "CONFIRMED", "FAILED"}, applied : Nat]
ContractDoc == [status : Status, totalPaid : Nat, payable : Nat]
Snapshot == [payment : PaymentDoc, contract : ContractDoc, stake : [Investors -> Nat],
             credited : BOOLEAN, booked : BOOLEAN]
CallState == [pc : {"idle", "create", "begin", "txn", "retry", "retrytxn",
                    "ok", "inactive", "error"},
              ref : Refs \cup {Absent}, snap : Snapshot \cup {Absent}]

Docs == {<<"payment", r>> : r \in Refs} \cup {<<"allocation", r>> : r \in Refs}
          \cup {<<"contract", c>> : c \in Contracts} \cup {<<"user", u>> : u \in Users}
          \cup {<<"credit", r, i>> : r \in Refs, i \in Investors}

ASSUME RepaymentAssumption ==
    /\ Checkout \subseteq Refs /\ Investors \subseteq Users
    /\ ContractOf \in [Refs -> Contracts] /\ DriverOf \in [Contracts -> Users]
    /\ Amount \in [Refs -> Nat \ {0}]
    /\ InitialPayable \in [Contracts -> Nat \ {0}]
    /\ InitialStakes \subseteq [Contracts -> [Investors -> Nat]]
    /\ NewPayables \subseteq Nat \ {0} /\ MaxStake \in [Investors -> Nat]
    /\ IsFiniteSet(Investors) /\ IsFiniteSet(Refs)
    /\ Absent \notin PaymentDoc \cup Snapshot \cup Refs

VARIABLES charge,      \* Paystack: nothing yet, a payment page, or money received
          payment,     \* DriverPayment by reference
          allocation,  \* the references that have a PaymentAllocation
          contract,    \* HirePurchaseContract
          stake,       \* confirmed PoolInvestments of the contract's pool, by investor
          credit,      \* InvestorCredit by reference and investor
          wallet,      \* User.availableBalance, as far as repayments move it
          excess,      \* the wallet_funding Transaction "<ref>_excess"
          booked,      \* the number of "repayment" Transactions of a reference
          open, missed, call

db == <<payment, allocation, contract, stake, credit, wallet, excess, booked>>
vars == <<charge, db, open, missed, call>>

INSTANCE SnapshotTransactions WITH Txns <- Deliveries

-----------------------------------------------------------------------------
Total(s) == SumFunctionOnSet(s, Investors)
LesserOf(a, b) == IF a <= b THEN a ELSE b
Remaining(doc) == IF doc.payable > doc.totalPaid THEN doc.payable - doc.totalPaid ELSE 0

\* Operators named *Mutant are the bugs that the properties below must notice;
\* nothing in the specification uses them.
SharesMutant(s, a) ==                        \* the remainder is forgotten
    [i \in Investors |-> IF Total(s) = 0 THEN 0 ELSE (a * s[i]) \div Total(s)]

\* Who gets what of a payment: in proportion, rounded down, and what rounding
\* leaves over goes to the largest investor.  Nothing when nobody has invested.
Shares(s, a) ==
    LET Floor    == [i \in Investors |-> (a * s[i]) \div Total(s)]
        largest  == CHOOSE i \in Investors : \A j \in Investors : s[i] >= s[j]
        left     == a - Total(Floor)
    IN  [i \in Investors |-> IF Total(s) = 0 THEN 0
                             ELSE Floor[i] + IF i = largest THEN left ELSE 0]

\* What distributePaymentToInvestors posts for a payment it sees in snapshot s.
Distribution(s, applied, r) ==
    IF s.credited THEN [i \in Investors |-> 0]
    ELSE Shares(s.stake, IF applied > 0 THEN applied ELSE Amount[r])

PostMutant(r, shares, driver, over) ==       \* the excess does not reach the wallet
    /\ credit' = [credit EXCEPT ![r] = [i \in Investors |-> @[i] + shares[i]]]
    /\ excess' = [excess EXCEPT ![r] = @ + over]
    /\ wallet' = [u \in Users |-> wallet[u] + IF u \in Investors THEN shares[u] ELSE 0]
PostedDocsMutant(r, shares) == {}            \* credits without a unique index

Post(r, shares, driver, over) ==
    /\ credit' = [credit EXCEPT ![r] = [i \in Investors |-> @[i] + shares[i]]]
    /\ excess' = [excess EXCEPT ![r] = @ + over]
    /\ wallet' = [u \in Users |-> wallet[u] + (IF u \in Investors THEN shares[u] ELSE 0)
                                            + (IF u = driver THEN over ELSE 0)]
PostedDocs(r, shares) ==
    {<<"credit", r, i>> : i \in {j \in Investors : shares[j] > 0}}
      \cup {<<"user", i>> : i \in {j \in Investors : shares[j] > 0}}

Goto(d, pc) == call' = [call EXCEPT ![d].pc = pc, ![d].snap = Absent]
Reply(d, pc) ==
    call' = [call EXCEPT ![d] = [pc |-> pc, snap |-> Absent,
                                 ref |-> IF pc = "ok" THEN call[d].ref ELSE Absent]]

SnapshotOf(r) == [payment |-> payment[r], contract |-> contract[ContractOf[r]],
                  stake |-> stake[ContractOf[r]],
                  credited |-> \E i \in Investors : credit[r][i] > 0,
                  booked |-> booked[r] > 0]

-----------------------------------------------------------------------------
\* createDriverPayment, by the initialize route.  What could happen between its
\* read of the contract and its insert leaves a pending payment that a later
\* Transition or confirmation leaves as well, so the two are one step.
CreateDriverPayment(r) ==
    LET doc == contract[ContractOf[r]]
    IN  /\ r \in Checkout /\ payment[r] = Absent
        /\ doc.status \in Repayable
        /\ Amount[r] <= Remaining(doc)
        /\ payment' = [payment EXCEPT ![r] = [status |-> "PENDING", applied |-> 0]]
        /\ PlainWrite({<<"payment", r>>})
        /\ UNCHANGED <<charge, allocation, contract, stake, credit, wallet, excess, booked, call>>

\* Paystack opens a page, or refuses and the route marks the payment failed.
PaystackOpens(r) ==
    /\ r \in Checkout /\ payment[r] # Absent /\ payment[r].status = "PENDING"
    /\ charge[r] = "none"
    /\ charge' = [charge EXCEPT ![r] = "page"]
    /\ UNCHANGED <<db, open, missed, call>>

markDriverPaymentFailed(r) ==
    /\ r \in Checkout /\ payment[r] # Absent /\ payment[r].status = "PENDING"
    /\ charge[r] = "none"
    /\ payment' = [payment EXCEPT ![r].status = "FAILED"]
    /\ PlainWrite({<<"payment", r>>})
    /\ UNCHANGED <<charge, allocation, contract, stake, credit, wallet, excess, booked, call>>

\* The driver pays, on the page or by a transfer that nobody announced.
Pay(r) ==
    /\ charge[r] = IF r \in Checkout THEN "page" ELSE "none"
    /\ charge' = [charge EXCEPT ![r] = "money"]
    /\ UNCHANGED <<db, open, missed, call>>

\* Another investor joins the pool (module PoolInvestment).
Invest(c, i) ==
    /\ stake[c][i] < MaxStake[i]
    /\ stake' = [stake EXCEPT ![c][i] = @ + 1]
    /\ PlainWrite({<<"user", i>>})
    /\ UNCHANGED <<charge, payment, allocation, contract, credit, wallet, excess, booked, call>>

\* transitionHirePurchaseContract by an administrator, from a state that can
\* still be, or has been, repaid; a restructuring may change the balance.  It
\* writes the one document that it reads in a transaction of its own, so it is
\* one step, or is refused and does nothing.
TransitionsFrom(s) ==
    CASE s = "ACTIVE"       -> {"DELINQUENT", "RESTRUCTURED", "COMPLETED"}
      [] s = "DELINQUENT"   -> {"ACTIVE", "RESTRUCTURED", "REPOSSESSED", "COMPLETED"}
      [] s = "RESTRUCTURED" -> {"ACTIVE", "DELINQUENT", "REPOSSESSED", "COMPLETED"}
      [] s = "COMPLETED"    -> {"ACTIVE", "CLOSED"}
      [] s = "REPOSSESSED"  -> {"CLOSED"}
      [] s = "CLOSED"       -> {}

SettledMutant(doc, target) == TRUE           \* no precondition for COMPLETED
Settled(doc, target) == target = "COMPLETED" => doc.totalPaid >= doc.payable

Transition(c, target) ==
    /\ target \in TransitionsFrom(contract[c].status)
    /\ Settled(contract[c], target)
    /\ \E p \in IF target = "RESTRUCTURED" THEN NewPayables \cup {contract[c].payable}
                ELSE {contract[c].payable} :
          contract' = [contract EXCEPT ![c].status = target, ![c].payable = p]
    /\ PlainWrite({<<"contract", c>>})
    /\ UNCHANGED <<charge, payment, allocation, stake, credit, wallet, excess, booked, call>>

-----------------------------------------------------------------------------
\* A webhook or a verify request reports the charge.  The webhook does not look
\* which event it is, and takes the charge.failed of an attempt on the payment
\* page, which can be tried again, for a charge.success.
Deliver(d, r) ==
    /\ call[d].pc \in {"idle", "ok", "inactive", "error"}
    /\ charge[r] # "none"
    /\ call' = [call EXCEPT ![d] = [pc |-> IF r \in Checkout THEN "begin" ELSE "create",
                                    ref |-> r, snap |-> Absent]]
    /\ UNCHANGED <<charge, db, open, missed>>

\* createDriverTransferPayment: a transfer has no payment before its first
\* report.  Of two first reports the unique index refuses one: Fail.
CreateTransferPayment(d) ==
    LET r == call[d].ref
    IN  /\ call[d].pc = "create"
        /\ \/ /\ payment[r] # Absent
              /\ Goto(d, "begin")
              /\ UNCHANGED <<payment, open, missed>>
           \/ /\ payment[r] = Absent
              /\ contract[ContractOf[r]].status \in Repayable
              /\ payment' = [payment EXCEPT ![r] = [status |-> "PENDING", applied |-> 0]]
              /\ PlainWrite({<<"payment", r>>})
              /\ Goto(d, "begin")
           \/ /\ payment[r] = Absent
              /\ contract[ContractOf[r]].status \notin Repayable
              /\ Reply(d, "inactive")
              /\ UNCHANGED <<payment, open, missed>>
        /\ UNCHANGED <<charge, allocation, contract, stake, credit, wallet, excess, booked>>

\* confirmDriverPayment: the transaction's first read takes its snapshot.
BeginConfirm(d) ==
    /\ call[d].pc = "begin"
    /\ TxnBegin(d)
    /\ call' = [call EXCEPT ![d].pc = "txn", ![d].snap = SnapshotOf(call[d].ref)]
    /\ UNCHANGED <<charge, db>>

\* A payment seen CONFIRMED is distributed, in case it has not been.
AlreadyConfirmed(d) ==
    LET r == call[d].ref  s == call[d].snap
        shares == Distribution(s, s.payment.applied, r)
    IN  /\ call[d].pc = "txn"
        /\ s.payment.status = "CONFIRMED"
        /\ TxnCommit(d, PostedDocs(r, shares))
        /\ Post(r, shares, Absent, 0)
        /\ Reply(d, "ok")
        /\ UNCHANGED <<charge, payment, allocation, contract, stake, booked>>

Confirmable(s) == /\ s.payment.status = "PENDING"
                  /\ s.contract.status \in Repayable
                  /\ Remaining(s.contract) > 0

RefuseConfirmMutant(d) ==                    \* answered as alreadyProcessed
    /\ call[d].pc = "txn"
    /\ call[d].snap.payment.status # "CONFIRMED" /\ ~Confirmable(call[d].snap)
    /\ Reply(d, "ok")
    /\ TxnAbort(d)
    /\ UNCHANGED <<charge, db>>

\* A failed payment, a contract that is not repayable, and one that is settled.
RefuseConfirm(d) ==
    LET s == call[d].snap
    IN  /\ call[d].pc = "txn"
        /\ s.payment.status # "CONFIRMED" /\ ~Confirmable(s)
        /\ Reply(d, IF s.payment.status = "PENDING" /\ s.contract.status \notin Repayable
                    THEN "inactive" ELSE "error")
        /\ TxnAbort(d)
        /\ UNCHANGED <<charge, db>>

\* What applyDriverPayment accepts, and the contract it leaves.
AcceptedMutant(s, r) == Amount[r]            \* not capped to the balance
Accepted(s, r) == LesserOf(Amount[r], Remaining(s.contract))

ContractAfter(s, r) ==
    LET paid == s.contract.totalPaid + Accepted(s, r)
    IN  [s.contract EXCEPT !.totalPaid = paid,
                           !.status = IF paid >= s.contract.payable THEN "COMPLETED" ELSE @]

\* The path that applies the payment.  PaymentAllocation is looked up outside
\* of the transaction (AllocationExists); had it been looked up earlier and
\* been committed since, the commit would be refused.
WrittenMutant(d, shares) ==                  \* contract and wallets outside of the session
    {<<"payment", call[d].ref>>, <<"allocation", call[d].ref>>}
Written(d, shares) ==
    LET r == call[d].ref  c == ContractOf[r]
    IN  PostedDocs(r, shares)
          \cup {<<"payment", r>>, <<"allocation", r>>, <<"contract", c>>}
          \cup IF Accepted(call[d].snap, r) < Amount[r] THEN {<<"user", DriverOf[c]>>} ELSE {}

ConfirmPayment(d) ==
    LET r == call[d].ref  c == ContractOf[r]  s == call[d].snap
        a == Accepted(s, r)
        shares == Distribution(s, a, r)
    IN  /\ call[d].pc = "txn"
        /\ Confirmable(s)
        /\ r \notin allocation
        /\ TxnCommit(d, Written(d, shares))
        /\ allocation' = allocation \cup {r}
        /\ contract' = [contract EXCEPT ![c] = ContractAfter(s, r)]
        /\ payment' = [payment EXCEPT ![r] = [status |-> "CONFIRMED", applied |-> a]]
        /\ booked' = [booked EXCEPT ![r] = @ + IF s.booked THEN 0 ELSE 1]
        /\ Post(r, shares, DriverOf[c], Amount[r] - a)
        /\ Reply(d, "ok")
        /\ UNCHANGED <<charge, stake>>

\* Another delivery has committed its allocation meanwhile: the engine writes
\* nothing, but confirmDriverPayment books and distributes from its snapshot.
AllocationExists(d) ==
    LET r == call[d].ref  s == call[d].snap
        shares == Distribution(s, s.payment.applied, r)
    IN  /\ call[d].pc = "txn"
        /\ Confirmable(s)
        /\ r \in allocation
        /\ TxnCommit(d, PostedDocs(r, shares))
        /\ booked' = [booked EXCEPT ![r] = @ + IF s.booked THEN 0 ELSE 1]
        /\ Post(r, shares, Absent, 0)
        /\ Reply(d, "ok")
        /\ UNCHANGED <<charge, payment, allocation, contract, stake>>

\* A unique index refuses what another delivery has committed: the handler
\* distributes in a transaction of its own.
DuplicateKey(d) ==
    LET r == call[d].ref
    IN  /\ call[d].pc = "txn"
        /\ \/ <<"allocation", r>> \in missed[d]
           \/ \E i \in Investors : <<"credit", r, i>> \in missed[d]
        /\ TxnAbort(d)
        /\ Goto(d, "retry")
        /\ UNCHANGED <<charge, db>>

BeginDistribute(d) ==
    /\ call[d].pc = "retry"
    /\ TxnBegin(d)
    /\ call' = [call EXCEPT ![d].pc = "retrytxn", ![d].snap = SnapshotOf(call[d].ref)]
    /\ UNCHANGED <<charge, db>>

Distribute(d) ==
    LET r == call[d].ref  s == call[d].snap
        shares == Distribution(s, s.payment.applied, r)
    IN  /\ call[d].pc = "retrytxn"
        /\ TxnCommit(d, PostedDocs(r, shares))
        /\ Post(r, shares, Absent, 0)
        /\ Reply(d, "ok")
        /\ UNCHANGED <<charge, payment, allocation, contract, stake, booked>>

\* A WriteConflict, a lost connection or the death of the process: no retry.
Fail(d) ==
    /\ call[d].pc \in {"create", "begin", "txn", "retry", "retrytxn"}
    /\ TxnAbort(d)
    /\ Reply(d, "error")
    /\ UNCHANGED <<charge, db>>

-----------------------------------------------------------------------------
Init == /\ charge = [r \in Refs |-> "none"]
        /\ payment = [r \in Refs |-> Absent]
        /\ allocation = {}
        /\ contract = [c \in Contracts |-> [status |-> "ACTIVE", totalPaid |-> 0,
                                            payable |-> InitialPayable[c]]]
        /\ stake \in InitialStakes
        /\ credit = [r \in Refs |-> [i \in Investors |-> 0]]
        /\ wallet = [u \in Users |-> 0]
        /\ excess = [r \in Refs |-> 0]
        /\ booked = [r \in Refs |-> 0]
        /\ TxnInit
        /\ call = [d \in Deliveries |-> [pc |-> "idle", ref |-> Absent, snap |-> Absent]]

Handle(d) == \/ CreateTransferPayment(d)
             \/ BeginConfirm(d)
             \/ AlreadyConfirmed(d)
             \/ RefuseConfirm(d)
             \/ ConfirmPayment(d)
             \/ AllocationExists(d)
             \/ DuplicateKey(d)
             \/ BeginDistribute(d)
             \/ Distribute(d)
             \/ Fail(d)

Next == \/ \E r \in Refs : \/ CreateDriverPayment(r)
                           \/ PaystackOpens(r)
                           \/ markDriverPaymentFailed(r)
                           \/ Pay(r)
        \/ \E c \in Contracts, i \in Investors : Invest(c, i)
        \/ \E c \in Contracts, s \in Status : Transition(c, s)
        \/ \E d \in Deliveries, r \in Refs : Deliver(d, r)
        \/ \E d \in Deliveries : Handle(d)

Spec == Init /\ [][Next]_vars

-----------------------------------------------------------------------------
\* The type of every variable.
TypeOK ==
    /\ charge \in [Refs -> {"none", "page", "money"}]
    /\ payment \in [Refs -> PaymentDoc \cup {Absent}]
    /\ allocation \in SUBSET Refs
    /\ contract \in [Contracts -> ContractDoc]
    /\ stake \in [Contracts -> [Investors -> Nat]]
    /\ credit \in [Refs -> [Investors -> Nat]]
    /\ wallet \in [Users -> Nat]
    /\ excess \in [Refs -> Nat]
    /\ booked \in [Refs -> Nat]
    /\ TxnTypeOK
    /\ call \in [Deliveries -> CallState]

Confirmed(r) == payment[r] # Absent /\ payment[r].status = "CONFIRMED"
Credited(r) == Total(credit[r])

\* The amount paid on a contract is what its confirmed payments have applied
\* (checkContractSchedule's balanceConsistent), whichever deliveries raced.
TotalPaidAgrees ==
    \A c \in Contracts :
        contract[c].totalPaid =
            LET paid == {r \in Refs : ContractOf[r] = c /\ Confirmed(r)}
            IN  SumFunction([r \in paid |-> payment[r].applied])

\* No step takes back a payment, or applies more than the balance that is owed,
\* even when the balance is restructured while the payment is confirmed.
NeverOverpaid ==
    [][\A c \in Contracts :
          /\ contract'[c].totalPaid >= contract[c].totalPaid
          /\ contract'[c].totalPaid # contract[c].totalPaid
               => contract'[c].totalPaid <= contract'[c].payable]_vars

\* A contract is completed only when its balance is paid, however payments,
\* restructurings and completions by hand interleave.
CompletedMeansPaid ==
    \A c \in Contracts :
        contract[c].status = "COMPLETED" => contract[c].totalPaid >= contract[c].payable

\* The pool's largest investor was there when its contract became active (whoever
\* has more than MaxStake[i] was), and nobody comes to equal it.
LedFromTheStart(c) ==
    \E i \in Investors :
        /\ stake[c][i] > MaxStake[i]
        /\ \A j \in Investors \ {i} : stake[c][j] < stake[c][i] /\ MaxStake[j] < stake[c][i]

\* Money in is money out: a confirmed payment is split between what the pool's
\* investors get of it, to the kobo and once, and what the driver gets back; a
\* payment that is not confirmed moves nothing.  It is the unique InvestorCredit of
\* an investor who always has a share that keeps a second delivery from posting:
\* of other pools, see DistributedWholeOrNot.
PaymentSplitExactly ==
    \A r \in {q \in Refs : LedFromTheStart(ContractOf[q])} :
        IF Confirmed(r)
        THEN Credited(r) = payment[r].applied /\ excess[r] = Amount[r] - payment[r].applied
        ELSE Credited(r) = 0 /\ excess[r] = 0

\* The same of a pool that has no investor when the payment is confirmed: the
\* payment is distributed later, when a repeated report finds an investor, or
\* never; but not in part and not twice, and the driver's part is given at once.
DistributedWholeOrNot ==
    \A r \in Refs :
        LET applied == IF Confirmed(r) THEN payment[r].applied ELSE 0
        IN  /\ Credited(r) \in {0, applied}
            /\ excess[r] = IF Confirmed(r) THEN Amount[r] - applied ELSE 0

\* Every wallet has been credited with exactly what the records say.
WalletsAgree ==
    \A u \in Users :
        wallet[u] =
            SumFunction([r \in Refs |-> (IF u \in Investors THEN credit[r][u] ELSE 0)
                                      + (IF u = DriverOf[ContractOf[r]] THEN excess[r] ELSE 0)])

\* A reference is booked as one repayment, however often it is reported: unless
\* no one investor has a share of every payment, whose credit's unique index keeps
\* a second delivery from booking it again.
OneRepaymentTransaction ==
    \A r \in Refs :
        IF LedFromTheStart(ContractOf[r])
        THEN booked[r] = IF Confirmed(r) THEN 1 ELSE 0
        ELSE (booked[r] = 0) = ~Confirmed(r)

\* A delivery that is answered with success, which ends Paystack's repeating it,
\* has its payment confirmed.
AnswersAreTrue == \A d \in Deliveries : call[d].pc = "ok" => Confirmed(call[d].ref)
=============================================================================
