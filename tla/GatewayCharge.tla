--------------------------- MODULE GatewayCharge ---------------------------
(***************************************************************************)
(* Charges at Paystack and what becomes of them                            *)
(* (lib/services/paystack-processing.service.ts): the funding of a wallet, *)
(* and the down payment of a loan, which is charged what a locked exchange *)
(* rate quote says (lib/fx).                                               *)
(*                                                                         *)
(* A delivery is one execution of processGatewayCharge, for a webhook,     *)
(* which Paystack repeats until it is answered, or for the payer's verify  *)
(* request.  The body of its transaction is run again by withTransaction   *)
(* after a transient error, while createdLock and result, which are        *)
(* declared outside of it, keep what an earlier attempt gave them.         *)
(***************************************************************************)
EXTENDS Integers, FiniteSetsExt, Functions

CONSTANTS Users, Loans, Quotes,
          WalletReferences, LoanReferences,  \* charges that Paystack can make: a wallet's
                         \* have a prefix, and transfers and loans Paystack's own
          Checkouts,     \* executions of the down payment route, and of lockQuote
          Deliveries,    \* executions of processGatewayCharge
          Amounts,       \* that wallets are funded with, or that are spent
          QuotedAmount,  \* what each quote says
          InitialBalance,
          MaxTries,      \* bound: the retries in withTransaction's 120 seconds
          MaxFailures,   \* bound: what fails without another handler's doing
          Absent

References == WalletReferences \cup LoanReferences
QuoteDoc == [status : {"created", "locked", "consumed"}, version : Nat]
ChargeDoc == [target : Users \cup Loans, amount : Nat, quote : Quotes \cup {Absent},
              paid : BOOLEAN]
CheckoutState == [pc : {"idle", "lock", "quote", "consume", "paystack"},
                  loan : Loans \cup {Absent}, quote : Quotes \cup {Absent}, version : Nat]
DeliveryState == [pc : {"idle", "lock", "apply", "commit", "answer"},
                  ref : References \cup {Absent}, tries : 0 .. MaxTries,
                  createdLock : BOOLEAN, result : BOOLEAN,
                  balance : Nat]           \* the user's, in the snapshot

ASSUME GatewayAssumption ==
    /\ IsFiniteSet(References) /\ Amounts \subseteq Nat \ {0} /\ MaxTries \in Nat /\ MaxFailures \in Nat
    /\ QuotedAmount \in [Quotes -> Nat] /\ InitialBalance \in Nat
    /\ Users \cap Loans = {} /\ WalletReferences \cap LoanReferences = {}
    /\ References \cap (Users \cup Loans) = {}
    /\ Absent \notin Users \cup Loans \cup Quotes \cup References \cup ChargeDoc \cup Nat

VARIABLES wallet,        \* User.availableBalance
          spent,         \* history: what others took from it
          downPayment,   \* Loan.downPaymentAmount, when it was made
          quote,         \* ExchangeRateQuote
          charge,        \* at Paystack
          processed,     \* ProcessedGatewayEvent
          booked,        \* Transaction: how many for a charge
          answered,      \* charges that somebody was told were processed
          checkout, delivery,
          failures,      \* how many there were, up to MaxFailures
          open, missed

vars == <<wallet, spent, downPayment, quote, charge, processed, booked, answered,
          checkout, delivery, failures, open, missed>>
money == <<wallet, spent, downPayment, processed, booked, answered, delivery, failures, open, missed>>

\* A charge's lock, a user and a loan are documents.
Txn == INSTANCE SnapshotTransactions
         WITH Txns <- Deliveries, Docs <- References \cup Users \cup Loans

-----------------------------------------------------------------------------
\* Quotes and checkouts.
CheckoutAt(h, pc) == checkout[h].pc = pc
CheckoutIdle == [pc |-> "idle", loan |-> Absent, quote |-> Absent, version |-> 0]
EndCheckout(h) == checkout' = [checkout EXCEPT ![h] = CheckoutIdle]

\* lockQuote, which the library offers and no route calls yet: a quote is read ...
ReadForLock(h, q) ==
    /\ CheckoutAt(h, "idle")
    /\ quote[q].status = "created"
    /\ checkout' = [checkout EXCEPT ![h] = [CheckoutIdle EXCEPT
                        !.pc = "lock", !.quote = q, !.version = quote[q].version]]
    /\ UNCHANGED <<quote, charge, money>>

LockQuoteMutant(h) ==                        \* the version is not expected
    /\ CheckoutAt(h, "lock")
    /\ quote' = [quote EXCEPT ![checkout[h].quote] = [status |-> "locked", version |-> @.version + 1]]
    /\ EndCheckout(h)
    /\ UNCHANGED <<charge, money>>
\* ... and locked unless somebody wrote it meanwhile.
LockQuote(h) ==
    LET q == checkout[h].quote
    IN  /\ CheckoutAt(h, "lock")
        /\ quote' = IF quote[q].version = checkout[h].version /\ quote[q].status # "consumed"
                    THEN [quote EXCEPT ![q] = [status |-> "locked", version |-> @.version + 1]]
                    ELSE quote
        /\ EndCheckout(h)
        /\ UNCHANGED <<charge, money>>

\* The route finds that the loan has no down payment yet.
StartCheckout(h, l, q) ==
    /\ CheckoutAt(h, "idle")
    /\ downPayment[l] = Absent
    /\ checkout' = [checkout EXCEPT ![h] = [CheckoutIdle EXCEPT
                        !.pc = "quote", !.loan = l, !.quote = q]]
    /\ UNCHANGED <<quote, charge, money>>

\* consumeQuote reads the quote, which must be locked ...
ReadQuote(h) ==
    LET q == quote[checkout[h].quote]
    IN  /\ CheckoutAt(h, "quote")
        /\ IF q.status = "locked"
           THEN checkout' = [checkout EXCEPT ![h].pc = "consume", ![h].version = q.version]
           ELSE EndCheckout(h)
        /\ UNCHANGED <<quote, charge, money>>

\* ... and consumes it, if it is still what was read.
ConsumeQuote(h) ==
    LET q == checkout[h].quote
    IN  /\ CheckoutAt(h, "consume")
        /\ IF quote[q].version = checkout[h].version /\ quote[q].status = "locked"
           THEN /\ quote' = [quote EXCEPT ![q] = [status |-> "consumed", version |-> @.version + 1]]
                /\ checkout' = [checkout EXCEPT ![h].pc = "paystack"]
           ELSE EndCheckout(h) /\ UNCHANGED quote
        /\ UNCHANGED <<charge, money>>

\* Paystack is asked for a charge, which has a reference of its own.
InitializeDownPayment(h, r) ==
    LET k == checkout[h]
    IN  /\ CheckoutAt(h, "paystack") /\ charge[r] = Absent
        /\ charge' = [charge EXCEPT ![r] = [target |-> k.loan, amount |-> QuotedAmount[k.quote],
                                            quote |-> k.quote, paid |-> FALSE]]
        /\ EndCheckout(h)
        /\ UNCHANGED <<quote, money>>

\* Any step may fail, or the quote have expired, or the process die.
FailCheckout(h) ==
    /\ ~CheckoutAt(h, "idle")
    /\ EndCheckout(h)
    /\ UNCHANGED <<quote, charge, money>>

\* The funding of a wallet leaves no trace before it is paid.
InitializeFunding(r, u, a) ==
    /\ charge[r] = Absent
    /\ charge' = [charge EXCEPT ![r] = [target |-> u, amount |-> a, quote |-> Absent, paid |-> FALSE]]
    /\ UNCHANGED <<quote, checkout, money>>

Pay(r) ==
    /\ charge[r] # Absent /\ ~charge[r].paid
    /\ charge' = [charge EXCEPT ![r].paid = TRUE]
    /\ UNCHANGED <<quote, checkout, money>>

-----------------------------------------------------------------------------
\* processGatewayCharge.
DeliveryAt(d, pc) == delivery[d].pc = pc
DeliveryIdle == [pc |-> "idle", ref |-> Absent, tries |-> 0, createdLock |-> FALSE,
                 result |-> FALSE, balance |-> 0]
EndDelivery(d) == delivery' = [delivery EXCEPT ![d] = DeliveryIdle]
shops == <<quote, charge, checkout>>
books == <<wallet, spent, downPayment, processed, booked, answered>>
MayFail == failures < MaxFailures /\ failures' = failures + 1

\* The verify route asks Paystack whether the charge was paid.  The webhook takes
\* every event that it supports for that, charge.failed too.
Deliver(d, r) ==
    /\ DeliveryAt(d, "idle")
    /\ charge[r] # Absent
    /\ delivery' = [delivery EXCEPT ![d] = [DeliveryIdle EXCEPT !.pc = "lock", !.ref = r]]
    /\ UNCHANGED <<books, failures, open, missed, shops>>

\* withTransaction runs the body again, or throws when its time is over; what
\* the body left in createdLock and result stays.
Again(d) ==
    IF delivery[d].tries < MaxTries
    THEN delivery' = [delivery EXCEPT ![d].pc = "lock", ![d].tries = @ + 1]
    ELSE EndDelivery(d)

\* Another attempt has inserted the lock and has not committed yet.
LockedByAnother(d) ==
    \E o \in Deliveries \ {d} : delivery[o].ref = delivery[d].ref /\ delivery[o].pc \in {"apply", "commit"}

\* The first statement of a transaction takes its snapshot.
TakeSnapshot(d) ==
    LET t == charge[delivery[d].ref].target
    IN  /\ Txn!TxnBegin(d)
        /\ delivery' = [delivery EXCEPT ![d].pc = "apply", ![d].createdLock = TRUE,
                                        ![d].balance = IF t \in Users THEN wallet[t] ELSE 0]

CreateLockMutant(d) ==                       \* inserted outside of the transaction
    /\ DeliveryAt(d, "lock")
    /\ delivery[d].ref \notin processed
    /\ TakeSnapshot(d)
    /\ processed' = processed \cup {delivery[d].ref}
    /\ UNCHANGED <<wallet, spent, downPayment, booked, answered, failures, shops>>
CreateLockAgainMutant(d) ==                  \* no unique key
    /\ DeliveryAt(d, "lock")
    /\ TakeSnapshot(d)
    /\ UNCHANGED <<books, failures, shops>>
CreateLock(d) ==
    /\ DeliveryAt(d, "lock")
    /\ delivery[d].ref \notin processed /\ ~LockedByAnother(d)
    /\ TakeSnapshot(d)
    /\ UNCHANGED <<books, failures, shops>>

\* The lock is there, and the body returns.  MongoDB refuses to commit what a
\* duplicate key has aborted; either is allowed here.
Duplicate(d) ==
    /\ DeliveryAt(d, "lock")
    /\ delivery[d].ref \in processed
    /\ Again(d) \/ delivery' = [delivery EXCEPT ![d].pc = "answer"]
    /\ UNCHANGED <<books, failures, open, missed, shops>>

\* The user or the loan is saved, and the Transaction created.
Apply(d) ==
    /\ DeliveryAt(d, "apply")
    /\ delivery' = [delivery EXCEPT ![d].pc = "commit", ![d].result = TRUE]
    /\ UNCHANGED <<books, failures, open, missed, shops>>

CommitMutant(d) ==                           \* the user is saved without the session
    LET r == delivery[d].ref  t == charge[r].target  a == charge[r].amount
    IN  /\ DeliveryAt(d, "commit")
        /\ Txn!TxnCommit(d, {r})
        /\ processed' = processed \cup {r}
        /\ booked' = [booked EXCEPT ![r] = @ + 1]
        /\ wallet' = [u \in Users |-> IF u = t THEN delivery[d].balance + a ELSE wallet[u]]
        /\ downPayment' = [l \in Loans |-> IF l = t THEN a ELSE downPayment[l]]
        /\ delivery' = [delivery EXCEPT ![d].pc = "answer"]
        /\ UNCHANGED <<spent, answered, failures, shops>>
Commit(d) ==
    LET r == delivery[d].ref  t == charge[r].target  a == charge[r].amount
    IN  /\ DeliveryAt(d, "commit")
        /\ Txn!TxnCommit(d, {r, t})
        /\ processed' = processed \cup {r}
        /\ booked' = [booked EXCEPT ![r] = @ + 1]
        /\ wallet' = [u \in Users |-> IF u = t THEN delivery[d].balance + a ELSE wallet[u]]
        /\ downPayment' = [l \in Loans |-> IF l = t THEN a ELSE downPayment[l]]
        /\ delivery' = [delivery EXCEPT ![d].pc = "answer"]
        /\ UNCHANGED <<spent, answered, failures, shops>>

\* What the attempt would write has been written behind its back, or another
\* attempt is at it.
Conflict(d) ==
    \/ DeliveryAt(d, "lock") /\ LockedByAnother(d)
    \/ delivery[d].pc \in {"apply", "commit"} /\ {delivery[d].ref, charge[delivery[d].ref].target} \cap missed[d] # {}

TransientErrorMutant(d) ==                   \* answers with what an earlier attempt left
    /\ delivery[d].pc \in {"lock", "apply", "commit"}
    /\ (Conflict(d) /\ UNCHANGED failures) \/ MayFail
    /\ Txn!TxnAbort(d)
    /\ IF delivery[d].createdLock /\ delivery[d].result
       THEN delivery' = [delivery EXCEPT ![d].pc = "answer"] ELSE Again(d)
    /\ UNCHANGED <<books, shops>>
\* A WriteConflict, or any other error after which the body is run again.
TransientError(d) ==
    /\ delivery[d].pc \in {"lock", "apply", "commit"}
    /\ (Conflict(d) /\ UNCHANGED failures) \/ MayFail
    /\ Txn!TxnAbort(d)
    /\ Again(d)
    /\ UNCHANGED <<books, shops>>

\* The commit went through, but what the driver hears is that it did not.
CommitReplyLost(d) ==
    /\ DeliveryAt(d, "answer") /\ MayFail
    /\ Again(d)
    /\ UNCHANGED <<books, open, missed, shops>>

\* Without a lock of its own it looks up what another delivery did; with a
\* lock and without a result it throws.
Answer(d) ==
    /\ DeliveryAt(d, "answer")
    /\ answered' = IF delivery[d].createdLock => delivery[d].result
                   THEN answered \cup {delivery[d].ref} ELSE answered
    /\ EndDelivery(d)
    /\ UNCHANGED <<wallet, spent, downPayment, processed, booked, failures, open, missed, shops>>

\* Any other error, or the death of the process.
Fail(d) ==
    /\ ~DeliveryAt(d, "idle") /\ MayFail
    /\ Txn!TxnAbort(d)
    /\ EndDelivery(d)
    /\ UNCHANGED <<books, shops>>

\* An investment debits the wallet.
Spend(u, a) ==
    /\ wallet[u] >= a
    /\ wallet' = [wallet EXCEPT ![u] = @ - a]
    /\ spent' = [spent EXCEPT ![u] = @ + a]
    /\ Txn!PlainWrite({u})
    /\ UNCHANGED <<downPayment, processed, booked, answered, delivery, failures, shops>>

-----------------------------------------------------------------------------
Init == /\ wallet = [u \in Users |-> InitialBalance]
        /\ spent = [u \in Users |-> 0]
        /\ downPayment = [l \in Loans |-> Absent]
        /\ quote = [q \in Quotes |-> [status |-> "created", version |-> 1]]
        /\ charge = [r \in References |-> Absent]
        /\ processed = {}
        /\ booked = [r \in References |-> 0]
        /\ answered = {}
        /\ checkout = [h \in Checkouts |-> CheckoutIdle]
        /\ delivery = [d \in Deliveries |-> DeliveryIdle]
        /\ failures = 0
        /\ Txn!TxnInit

Shop(h) == \/ \E q \in Quotes : ReadForLock(h, q)
           \/ LockQuote(h)
           \/ \E l \in Loans, q \in Quotes : StartCheckout(h, l, q)
           \/ ReadQuote(h)
           \/ ConsumeQuote(h)
           \/ \E r \in LoanReferences : InitializeDownPayment(h, r)
           \/ FailCheckout(h)

Process(d) == \/ \E r \in References : Deliver(d, r)
              \/ CreateLock(d)
              \/ Duplicate(d)
              \/ Apply(d)
              \/ Commit(d)
              \/ TransientError(d)
              \/ CommitReplyLost(d)
              \/ Answer(d)
              \/ Fail(d)

Next == \/ \E h \in Checkouts : Shop(h)
        \/ \E d \in Deliveries : Process(d)
        \/ \E r \in References : Pay(r)
        \/ \E r \in WalletReferences, u \in Users, a \in Amounts : InitializeFunding(r, u, a)
        \/ \E u \in Users, a \in Amounts : Spend(u, a)

Spec == Init /\ [][Next]_vars

\* A handler that has begun goes on, and Paystack repeats the webhook of a paid
\* charge until it is answered.
Unanswered(r) == charge[r] # Absent /\ charge[r].paid /\ r \notin answered
FairSpec ==
    /\ Spec
    /\ \A d \in Deliveries : WF_vars(~DeliveryAt(d, "idle") /\ Process(d))
    /\ \A r \in References : SF_vars(\E d \in Deliveries : Unanswered(r) /\ Deliver(d, r))

-----------------------------------------------------------------------------
\* The type of every variable.
TypeOK ==
    /\ wallet \in [Users -> Nat] /\ spent \in [Users -> Nat]
    /\ downPayment \in [Loans -> Nat \cup {Absent}]
    /\ quote \in [Quotes -> QuoteDoc]
    /\ charge \in [References -> ChargeDoc \cup {Absent}]
    /\ processed \subseteq References /\ answered \subseteq References
    /\ booked \in [References -> Nat]
    /\ checkout \in [Checkouts -> CheckoutState]
    /\ delivery \in [Deliveries -> DeliveryState]
    /\ failures \in 0 .. MaxFailures
    /\ Txn!TxnTypeOK

\* A wallet holds what it was funded with and has not spent: webhooks, verify
\* requests and spending, in any order, neither lose nor repeat a credit.
CreditedOnce ==
    \A u \in Users :
        LET funded == {r \in processed : charge[r].target = u}
        IN  wallet[u] + spent[u] = InitialBalance + SumFunction([r \in funded |-> charge[r].amount])

\* A charge has its lock, its one transaction, and on a loan its amount,
\* together or not at all.
BookedOnce ==
    /\ \A r \in References : booked[r] = IF r \in processed THEN 1 ELSE 0
    /\ \A l \in Loans :
          LET made == {r \in processed : charge[r].target = l}
          IN  IF made = {} THEN downPayment[l] = Absent
              ELSE \E r \in made : downPayment[l] = charge[r].amount

\* The admin dashboard (app/dashboard/admin/page.tsx) shows what was booked as
\* "Successful Paystack and wallet-funding deposits.": it was paid.
OnlyPaidIsBooked == \A r \in WalletReferences : booked[r] > 0 => charge[r].paid

\* Whoever is told that a charge was processed is told the truth, although the
\* variables he is told it from survive attempts that were aborted.
AnswersAreTrue == answered \subseteq processed

\* However many checkouts and locks race for a quote, it sets one price once.
QuotePaysOnce ==
    \A q \in Quotes :
        Cardinality({r \in References : charge[r] # Absent /\ charge[r].quote = q})
          + Cardinality({h \in Checkouts : CheckoutAt(h, "paystack") /\ checkout[h].quote = q}) <= 1

\* What a customer has paid is booked in the end: no lock is left behind that
\* keeps the repeated webhook from booking it.
PaidIsBooked ==
    \A r \in References : (charge[r] # Absent /\ charge[r].paid) ~> booked[r] = 1
=============================================================================
