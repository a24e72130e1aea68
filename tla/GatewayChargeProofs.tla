------------------------ MODULE GatewayChargeProofs ------------------------
(***************************************************************************)
(* Theorems about GatewayCharge for every set of users, loans, quotes,     *)
(* charges and handlers, every amount, and any number of retries and of    *)
(* failures.                                                               *)
(***************************************************************************)
EXTENDS GatewayCharge, Sums, TLAPS

\* A delivery whose transaction is open has the charge's lock, which it inserted
\* itself, and knows the balance of the user unless that was written meanwhile; a
\* delivery that is about to answer can look its charge up.
Holding(d) == delivery[d].pc \in {"apply", "commit"}
DeliverySound(d) ==
    LET r == delivery[d].ref  t == charge[r].target
    IN  /\ Holding(d) <=> d \in open
        /\ ~DeliveryAt(d, "idle") => r \in References /\ charge[r] # Absent
        /\ Holding(d) => r \notin processed
        /\ Holding(d) /\ t \in Users \ missed[d] => delivery[d].balance = wallet[t]
        /\ DeliveryAt(d, "answer") => r \in processed
DeliveriesSound == \A d \in Deliveries : DeliverySound(d)

\* Two open transactions have two locks.
LocksExclude ==
    \A d, o \in Deliveries :
        Holding(d) /\ Holding(o) /\ delivery[d].ref = delivery[o].ref => d = o

\* What is processed was charged.
ProcessedIsCharged == \A r \in processed : charge[r] # Absent

\* A checkout knows its loan and its quote.
CheckoutsSound ==
    \A h \in Checkouts :
        /\ ~CheckoutAt(h, "idle") => checkout[h].quote \in Quotes
        /\ checkout[h].pc \in {"quote", "consume", "paystack"} => checkout[h].loan \in Loans

\* A quote is used by a charge, by a checkout that is to make one, or by nobody,
\* and by somebody only when it is consumed.
Charges(q) == {r \in References : charge[r] # Absent /\ charge[r].quote = q}
Buyers(q) == {h \in Checkouts : CheckoutAt(h, "paystack") /\ checkout[h].quote = q}
UsedOnce(q) ==
    /\ quote[q].status # "consumed" => Charges(q) = {} /\ Buyers(q) = {}
    /\ Charges(q) = {} \/ Buyers(q) = {}
    /\ \A r, s \in Charges(q) : r = s
    /\ \A h, k \in Buyers(q) : h = k
QuotesUsedOnce == \A q \in Quotes : UsedOnce(q)

IInv == /\ TypeOK
        /\ DeliveriesSound
        /\ LocksExclude
        /\ ProcessedIsCharged
        /\ CheckoutsSound
        /\ QuotesUsedOnce
        /\ AnswersAreTrue
        /\ BookedOnce
        /\ CreditedOnce

-----------------------------------------------------------------------------
\* Types.
LEMMA IdleTypes == CheckoutIdle \in CheckoutState /\ DeliveryIdle \in DeliveryState
  BY GatewayAssumption DEF CheckoutIdle, CheckoutState, DeliveryIdle, DeliveryState

\* A charge that exists is one.
LEMMA ChargeFacts ==
    ASSUME TypeOK, NEW r \in References, charge[r] # Absent
    PROVE  /\ charge[r] \in ChargeDoc /\ charge[r].amount \in Nat
           /\ charge[r].target \in Users \cup Loans
  BY DEF TypeOK, ChargeDoc

LEMMA ShopType ==
    ASSUME TypeOK, CheckoutsSound, NEW h \in Checkouts, Shop(h)
    PROVE  TypeOK'
<1> USE GatewayAssumption DEF TypeOK
<1>1. UNCHANGED money
  BY DEF Shop, ReadForLock, LockQuote, StartCheckout, ReadQuote, ConsumeQuote,
         InitializeDownPayment, FailCheckout
<1>2. checkout[h] \in CheckoutState
  OBVIOUS
<1>3. checkout' \in [Checkouts -> CheckoutState]
  <2>1. EndCheckout(h) => checkout' \in [Checkouts -> CheckoutState]
    BY IdleTypes DEF EndCheckout
  <2>2. ASSUME NEW q \in Quotes, ReadForLock(h, q) PROVE checkout' \in [Checkouts -> CheckoutState]
    <3>1. [CheckoutIdle EXCEPT !.pc = "lock", !.quote = q, !.version = quote[q].version] \in CheckoutState
      BY IdleTypes DEF CheckoutState, QuoteDoc
    <3> QED BY <2>2, <3>1 DEF ReadForLock
  <2>3. ASSUME NEW l \in Loans, NEW q \in Quotes, StartCheckout(h, l, q)
        PROVE  checkout' \in [Checkouts -> CheckoutState]
    <3>1. [CheckoutIdle EXCEPT !.pc = "quote", !.loan = l, !.quote = q] \in CheckoutState
      BY IdleTypes DEF CheckoutState
    <3> QED BY <2>3, <3>1 DEF StartCheckout
  <2>4. CASE ReadQuote(h)
    <3>1. checkout[h].quote \in Quotes
      BY <2>4 DEF ReadQuote, CheckoutsSound, CheckoutAt
    <3>2. [checkout[h] EXCEPT !.pc = "consume", !.version = quote[checkout[h].quote].version]
             \in CheckoutState
      BY <1>2, <3>1 DEF CheckoutState, QuoteDoc
    <3> QED BY <2>1, <2>4, <3>2 DEF ReadQuote
  <2>5. CASE ConsumeQuote(h)
    <3>1. [checkout[h] EXCEPT !.pc = "paystack"] \in CheckoutState
      BY <1>2 DEF CheckoutState
    <3> QED BY <2>1, <2>5, <3>1 DEF ConsumeQuote
  <2> QED BY <2>1, <2>2, <2>3, <2>4, <2>5 DEF Shop, LockQuote, InitializeDownPayment, FailCheckout
<1>4. quote' \in [Quotes -> QuoteDoc]
  <2>1. \A q \in Quotes : /\ [status |-> "locked", version |-> quote[q].version + 1] \in QuoteDoc
                          /\ [status |-> "consumed", version |-> quote[q].version + 1] \in QuoteDoc
    BY DEF QuoteDoc
  <2>2. CASE LockQuote(h)
    <3>1. checkout[h].quote \in Quotes
      BY <2>2 DEF LockQuote, CheckoutsSound, CheckoutAt
    <3> QED BY <2>1, <2>2, <3>1 DEF LockQuote
  <2>3. CASE ConsumeQuote(h)
    <3>1. checkout[h].quote \in Quotes
      BY <2>3 DEF ConsumeQuote, CheckoutsSound, CheckoutAt
    <3> QED BY <2>1, <2>3, <3>1 DEF ConsumeQuote
  <2> QED BY <2>2, <2>3 DEF Shop, ReadForLock, StartCheckout, ReadQuote, InitializeDownPayment, FailCheckout
<1>5. charge' \in [References -> ChargeDoc \cup {Absent}]
  <2>1. ASSUME NEW r \in LoanReferences, InitializeDownPayment(h, r)
        PROVE  charge' \in [References -> ChargeDoc \cup {Absent}]
    <3>1. /\ checkout[h].loan \in Loans /\ checkout[h].quote \in Quotes
          /\ QuotedAmount[checkout[h].quote] \in Nat
      BY <2>1 DEF InitializeDownPayment, CheckoutsSound, CheckoutAt
    <3>2. [target |-> checkout[h].loan, amount |-> QuotedAmount[checkout[h].quote],
           quote |-> checkout[h].quote, paid |-> FALSE] \in ChargeDoc
      BY <3>1 DEF ChargeDoc
    <3> QED BY <2>1, <3>2 DEF InitializeDownPayment
  <2> QED BY <2>1 DEF Shop, ReadForLock, LockQuote, StartCheckout, ReadQuote, ConsumeQuote, FailCheckout
<1> QED BY <1>1, <1>3, <1>4, <1>5 DEF money, Txn!TxnTypeOK

LEMMA AgainType ==
    ASSUME TypeOK, NEW d \in Deliveries, Again(d) \/ EndDelivery(d)
    PROVE  delivery' \in [Deliveries -> DeliveryState]
<1>1. delivery[d] \in DeliveryState
  BY DEF TypeOK
<1>2. delivery[d].tries < MaxTries =>
         [delivery[d] EXCEPT !.pc = "lock", !.tries = @ + 1] \in DeliveryState
  <2> SUFFICES ASSUME delivery[d].tries < MaxTries
               PROVE  [delivery[d] EXCEPT !.pc = "lock", !.tries = @ + 1] \in DeliveryState
    OBVIOUS
  <2>1. PICK n : n = delivery[d].tries + 1
    OBVIOUS
  <2>2. n \in 0 .. MaxTries
    BY <1>1, <2>1, GatewayAssumption DEF DeliveryState
  <2>3. [delivery[d] EXCEPT !.pc = "lock", !.tries = n] \in DeliveryState
    BY <1>1, <2>2 DEF DeliveryState
  <2> QED BY <2>1, <2>3
<1>3. EndDelivery(d) => delivery' \in [Deliveries -> DeliveryState]
  BY IdleTypes DEF TypeOK, EndDelivery
<1>4. CASE Again(d) /\ delivery[d].tries < MaxTries
  <2>1. delivery' = [delivery EXCEPT ![d] = [delivery[d] EXCEPT !.pc = "lock", !.tries = @ + 1]]
    BY <1>4 DEF Again, TypeOK
  <2> QED BY <1>2, <1>4, <2>1 DEF TypeOK
<1> QED
  BY <1>3, <1>4 DEF Again

LEMMA ProcessType ==
    ASSUME TypeOK, DeliveriesSound, NEW d \in Deliveries, Process(d)
    PROVE  TypeOK'
<1> USE GatewayAssumption
<1>1. delivery[d] \in DeliveryState
  BY DEF TypeOK
<1>2. UNCHANGED shops
  BY DEF Process, Deliver, CreateLock, TakeSnapshot, Duplicate, Apply, Commit, TransientError,
         CommitReplyLost, Answer, Fail
<1>3. delivery' \in [Deliveries -> DeliveryState]
  <2>1. ASSUME NEW r \in References, Deliver(d, r) PROVE delivery' \in [Deliveries -> DeliveryState]
    <3>1. [DeliveryIdle EXCEPT !.pc = "lock", !.ref = r] \in DeliveryState
      BY IdleTypes DEF DeliveryState
    <3> QED BY <2>1, <3>1 DEF Deliver, TypeOK
  <2>2. CASE CreateLock(d)
    <3>1. PICK b : b = IF charge[delivery[d].ref].target \in Users
                       THEN wallet[charge[delivery[d].ref].target] ELSE 0
      OBVIOUS
    <3>2. b \in Nat
      BY <3>1 DEF TypeOK
    <3>3. [delivery[d] EXCEPT !.pc = "apply", !.createdLock = TRUE, !.balance = b] \in DeliveryState
      BY <1>1, <3>2 DEF DeliveryState
    <3> QED BY <2>2, <3>1, <3>3 DEF CreateLock, TakeSnapshot, TypeOK
  <2>3. CASE Duplicate(d) \/ Commit(d)
    <3>1. [delivery[d] EXCEPT !.pc = "answer"] \in DeliveryState
      BY <1>1 DEF DeliveryState
    <3> QED BY <2>3, <3>1, AgainType DEF Duplicate, Commit, TypeOK
  <2>4. CASE Apply(d)
    <3>1. [delivery[d] EXCEPT !.pc = "commit", !.result = TRUE] \in DeliveryState
      BY <1>1 DEF DeliveryState
    <3> QED BY <2>4, <3>1 DEF Apply, TypeOK
  <2> QED BY <2>1, <2>2, <2>3, <2>4, AgainType
          DEF Process, TransientError, CommitReplyLost, Answer, Fail
<1>4. failures' \in 0 .. MaxFailures
  <2>1. MayFail => failures' \in 0 .. MaxFailures
    BY DEF MayFail, TypeOK
  <2>2. failures' = failures => failures' \in 0 .. MaxFailures
    BY DEF TypeOK
  <2> QED BY <2>1, <2>2
          DEF Process, Deliver, CreateLock, Duplicate, Apply, Commit, TransientError,
              CommitReplyLost, Answer, Fail
<1>5. /\ wallet' \in [Users -> Nat] /\ spent' \in [Users -> Nat]
      /\ downPayment' \in [Loans -> Nat \cup {Absent}]
      /\ processed' \subseteq References /\ answered' \subseteq References
      /\ booked' \in [References -> Nat]
  <2>1. CASE Commit(d)
    <3>1. delivery[d].ref \in References /\ charge[delivery[d].ref] # Absent
      BY <2>1 DEF Commit, DeliveriesSound, DeliverySound, DeliveryAt
    <3>2. charge[delivery[d].ref].amount \in Nat /\ delivery[d].balance \in Nat
      BY <1>1, <3>1, ChargeFacts DEF DeliveryState
    <3> QED BY <2>1, <3>1, <3>2 DEF Commit, TypeOK
  <2>2. CASE Answer(d)
    <3>1. delivery[d].ref \in References
      BY <2>2 DEF Answer, DeliveriesSound, DeliverySound, DeliveryAt
    <3> QED BY <2>2, <3>1 DEF Answer, TypeOK
  <2>3. CASE UNCHANGED books
    BY <2>3 DEF books, TypeOK
  <2> QED BY <2>1, <2>2, <2>3
          DEF Process, Deliver, CreateLock, Duplicate, Apply, TransientError, CommitReplyLost, Fail
<1>6. Txn!TxnTypeOK'
  <2> USE DEF TypeOK, Txn!TxnTypeOK
  <2>1. CASE Commit(d)
    <3>1. delivery[d].ref \in References /\ charge[delivery[d].ref] # Absent
      BY <2>1 DEF Commit, DeliveriesSound, DeliverySound, DeliveryAt
    <3>2. {delivery[d].ref, charge[delivery[d].ref].target} \subseteq References \cup Users \cup Loans
      BY <3>1, ChargeFacts
    <3> QED BY <2>1, <3>2 DEF Commit, Txn!TxnCommit, Txn!Publish
  <2>2. CASE CreateLock(d)
    BY <2>2 DEF CreateLock, TakeSnapshot, Txn!TxnBegin
  <2>3. CASE Txn!TxnAbort(d)
    BY <2>3 DEF Txn!TxnAbort
  <2>4. CASE UNCHANGED <<open, missed>>
    BY <2>4
  <2> QED BY <2>1, <2>2, <2>3, <2>4
          DEF Process, Deliver, Duplicate, Apply, TransientError, CommitReplyLost, Answer, Fail
<1> QED BY <1>2, <1>3, <1>4, <1>5, <1>6 DEF shops, TypeOK

LEMMA TypeStep ==
    ASSUME TypeOK, DeliveriesSound, CheckoutsSound, [Next]_vars
    PROVE  TypeOK'
<1> USE GatewayAssumption
<1>1. ASSUME NEW r \in References, Pay(r) PROVE TypeOK'
  <2>1. [charge[r] EXCEPT !.paid = TRUE] \in ChargeDoc
    BY <1>1, ChargeFacts DEF Pay, ChargeDoc
  <2> QED BY <1>1, <2>1 DEF Pay, TypeOK, money, Txn!TxnTypeOK
<1>2. ASSUME NEW r \in WalletReferences, NEW u \in Users, NEW a \in Amounts,
             InitializeFunding(r, u, a)
      PROVE  TypeOK'
  <2>1. [target |-> u, amount |-> a, quote |-> Absent, paid |-> FALSE] \in ChargeDoc
    BY DEF ChargeDoc
  <2> QED BY <1>2, <2>1 DEF InitializeFunding, TypeOK, money, Txn!TxnTypeOK
<1>3. ASSUME NEW u \in Users, NEW a \in Amounts, Spend(u, a) PROVE TypeOK'
  <2>1. wallet' \in [Users -> Nat] /\ spent' \in [Users -> Nat]
    BY <1>3 DEF Spend, TypeOK
  <2> QED BY <1>3, <2>1 DEF Spend, TypeOK, shops, Txn!TxnTypeOK, Txn!PlainWrite
<1>4. CASE UNCHANGED vars
  BY <1>4 DEF vars, TypeOK, Txn!TxnTypeOK
<1> QED BY <1>1, <1>2, <1>3, <1>4, ShopType, ProcessType DEF Next

-----------------------------------------------------------------------------
\* What a delivery's step does to the others, and to itself.
LEMMA OtherDeliveries ==
    ASSUME TypeOK, NEW d \in Deliveries, Process(d), NEW o \in Deliveries, o # d
    PROVE  delivery'[o] = delivery[o]
  BY DEF TypeOK, Process, Deliver, CreateLock, TakeSnapshot, Duplicate, Apply, Commit,
         TransientError, CommitReplyLost, Answer, Fail, Again, EndDelivery

LEMMA OwnDelivery ==
    ASSUME TypeOK, NEW d \in Deliveries
    PROVE  /\ \A r \in References : Deliver(d, r) =>
                 delivery'[d].pc = "lock" /\ delivery'[d].ref = r
           /\ CreateLock(d) =>
                 /\ delivery'[d].pc = "apply" /\ delivery'[d].ref = delivery[d].ref
                 /\ LET t == charge[delivery[d].ref].target
                    IN  delivery'[d].balance = IF t \in Users THEN wallet[t] ELSE 0
           /\ Apply(d) =>
                 /\ delivery'[d].pc = "commit" /\ delivery'[d].ref = delivery[d].ref
                 /\ delivery'[d].balance = delivery[d].balance
           /\ Commit(d) => delivery'[d].pc = "answer" /\ delivery'[d].ref = delivery[d].ref
           /\ Again(d) => \/ delivery'[d].pc = "lock" /\ delivery'[d].ref = delivery[d].ref
                          \/ delivery'[d].pc = "idle"
           /\ Duplicate(d) =>
                 \/ delivery'[d].pc \in {"lock", "answer"} /\ delivery'[d].ref = delivery[d].ref
                 \/ delivery'[d].pc = "idle"
           /\ EndDelivery(d) => delivery'[d].pc = "idle"
<1>1. delivery[d] \in DeliveryState /\ DOMAIN delivery = Deliveries
  BY DEF TypeOK
<1> USE <1>1
<1>2. \A r \in References : Deliver(d, r) =>
                 delivery'[d].pc = "lock" /\ delivery'[d].ref = r
  BY DEF Deliver, DeliveryIdle
<1>3. CreateLock(d) =>
                 /\ delivery'[d].pc = "apply" /\ delivery'[d].ref = delivery[d].ref
                 /\ LET t == charge[delivery[d].ref].target
                    IN  delivery'[d].balance = IF t \in Users THEN wallet[t] ELSE 0
  <2> SUFFICES ASSUME CreateLock(d)
               PROVE  /\ delivery'[d].pc = "apply" /\ delivery'[d].ref = delivery[d].ref
                      /\ LET t == charge[delivery[d].ref].target
                         IN  delivery'[d].balance = IF t \in Users THEN wallet[t] ELSE 0
    OBVIOUS
  <2>1. PICK b : /\ b = IF charge[delivery[d].ref].target \in Users
                        THEN wallet[charge[delivery[d].ref].target] ELSE 0
                 /\ delivery' = [delivery EXCEPT ![d].pc = "apply", ![d].createdLock = TRUE,
                                                 ![d].balance = b]
    BY DEF CreateLock, TakeSnapshot
  <2> QED BY <2>1 DEF DeliveryState
<1>4. Apply(d) =>
                 /\ delivery'[d].pc = "commit" /\ delivery'[d].ref = delivery[d].ref
                 /\ delivery'[d].balance = delivery[d].balance
  BY DEF Apply, DeliveryState
<1>5. Commit(d) => delivery'[d].pc = "answer" /\ delivery'[d].ref = delivery[d].ref
  BY DEF Commit, DeliveryState
<1>6. EndDelivery(d) => delivery'[d].pc = "idle"
  BY DEF EndDelivery, DeliveryIdle
<1>7. Again(d) => \/ delivery'[d].pc = "lock" /\ delivery'[d].ref = delivery[d].ref
                  \/ delivery'[d].pc = "idle"
  BY <1>6 DEF Again, DeliveryState
<1>8. Duplicate(d) =>
                 \/ delivery'[d].pc \in {"lock", "answer"} /\ delivery'[d].ref = delivery[d].ref
                 \/ delivery'[d].pc = "idle"
  BY <1>7 DEF Duplicate, DeliveryState
<1> QED BY <1>2, <1>3, <1>4, <1>5, <1>6, <1>7, <1>8

\* Which steps touch what: the books are written by a commit, an answer and
\* spending, and a charge, once made, keeps its target, amount and quote.
LEMMA Quiet ==
    ASSUME NEW d \in Deliveries, Process(d), ~Commit(d), ~Answer(d)
    PROVE  UNCHANGED books /\ UNCHANGED shops
  BY DEF Process, Deliver, CreateLock, TakeSnapshot, Duplicate, Apply, TransientError,
         CommitReplyLost, Fail

LEMMA ChargesStay ==
    ASSUME TypeOK, [Next]_vars, NEW r \in References, charge[r] # Absent
    PROVE  /\ charge'[r] # Absent /\ charge'[r].target = charge[r].target
           /\ charge'[r].amount = charge[r].amount /\ charge'[r].quote = charge[r].quote
<1>1. ASSUME NEW s \in References, Pay(s)
      PROVE  /\ charge'[r] # Absent /\ charge'[r].target = charge[r].target
             /\ charge'[r].amount = charge[r].amount /\ charge'[r].quote = charge[r].quote
  <2>1. CASE s = r
    <3>1. charge'[r] = [charge[r] EXCEPT !.paid = TRUE] /\ charge[r] \in ChargeDoc
      BY <1>1, <2>1, ChargeFacts DEF Pay, TypeOK
    <3>2. charge'[r] \in ChargeDoc
      BY <3>1 DEF ChargeDoc
    <3> QED BY <3>1, <3>2, GatewayAssumption DEF ChargeDoc
  <2>2. CASE s # r
    BY <1>1, <2>2 DEF Pay, TypeOK
  <2> QED BY <2>1, <2>2
<1>2. ASSUME NEW s \in References, charge[s] = Absent, NEW doc, charge' = [charge EXCEPT ![s] = doc]
      PROVE  charge'[r] = charge[r]
  BY <1>2 DEF TypeOK
<1>3. CASE charge' = charge
  BY <1>3
<1> QED
  BY <1>1, <1>2, <1>3
     DEF Next, Shop, ReadForLock, LockQuote, StartCheckout, ReadQuote, ConsumeQuote,
         InitializeDownPayment, FailCheckout, Process, Deliver, CreateLock, Duplicate, Apply,
         Commit, TransientError, CommitReplyLost, Answer, Fail, shops, InitializeFunding, Spend,
         vars, References

-----------------------------------------------------------------------------
\* A delivery that does not step stays sound, unless its charge is processed or
\* its user is written without its missing it.
LEMMA SoundStays ==
    ASSUME TypeOK, [Next]_vars, NEW e \in Deliveries, DeliverySound(e),
           delivery'[e] = delivery[e], e \in open' <=> e \in open, processed \subseteq processed',
           Holding(e) => delivery[e].ref \notin processed',
           \A t \in Users : Holding(e) /\ t \notin missed'[e]
                               => t \notin missed[e] /\ wallet'[t] = wallet[t]
    PROVE  DeliverySound(e)'
<1>1. CASE DeliveryAt(e, "idle")
  BY <1>1 DEF DeliverySound, Holding, DeliveryAt
<1>2. CASE ~DeliveryAt(e, "idle")
  <2>1. /\ delivery[e].ref \in References /\ charge[delivery[e].ref] # Absent
        /\ charge'[delivery[e].ref] # Absent
        /\ charge'[delivery[e].ref].target = charge[delivery[e].ref].target
    BY <1>2, ChargesStay DEF DeliverySound
  <2> QED BY <2>1 DEF DeliverySound, Holding, DeliveryAt
<1> QED BY <1>1, <1>2

LEMMA SoundStep ==
    ASSUME TypeOK, DeliveriesSound, LocksExclude, [Next]_vars
    PROVE  DeliveriesSound'
<1> USE GatewayAssumption
<1>0. TypeOK /\ \A e \in Deliveries : DeliverySound(e)
  BY DEF DeliveriesSound
<1> SUFFICES ASSUME NEW e \in Deliveries PROVE DeliverySound(e)'
  BY DEF DeliveriesSound
<1>1. ASSUME NEW d \in Deliveries, Process(d), d # e PROVE DeliverySound(e)'
  <2>1. delivery'[e] = delivery[e]
    BY <1>1, OtherDeliveries
  <2>2. CASE Commit(d)
    <3>1. /\ processed' = processed \cup {delivery[d].ref}
          /\ open' = open \ {d} /\ DeliveryAt(d, "commit")
          /\ missed' = [o \in Deliveries |-> IF o \in open \ {d}
                THEN missed[o] \cup {delivery[d].ref, charge[delivery[d].ref].target} ELSE {}]
          /\ \A t \in Users : t # charge[delivery[d].ref].target => wallet'[t] = wallet[t]
      BY <2>2 DEF Commit, Txn!TxnCommit, Txn!Publish
    <3>2. Holding(e) => delivery[e].ref # delivery[d].ref
      BY <1>1, <3>1 DEF LocksExclude, Holding, DeliveryAt
    <3>3. Holding(e) => delivery[e].ref \notin processed' /\ e \in open \ {d}
      BY <1>0, <1>1, <3>1, <3>2 DEF DeliverySound
    <3>4. \A t \in Users : Holding(e) /\ t \notin missed'[e]
                             => t \notin missed[e] /\ wallet'[t] = wallet[t]
      BY <3>1, <3>3
    <3>5. e \in open' <=> e \in open
      BY <1>1, <3>1
    <3> QED BY <1>0, <2>1, <3>1, <3>3, <3>4, <3>5, SoundStays
  <2>3. CASE ~Commit(d)
    <3>1. wallet' = wallet /\ processed' = processed
      BY <1>1, <2>3, Quiet DEF books, Answer
    <3>2. (e \in open' <=> e \in open) /\ missed'[e] = missed[e]
      BY <1>1, <2>3
         DEF Process, Deliver, CreateLock, TakeSnapshot, Duplicate, Apply, TransientError,
             CommitReplyLost, Answer, Fail, Txn!TxnBegin, Txn!TxnAbort, TypeOK, Txn!TxnTypeOK
    <3>3. Holding(e) => delivery[e].ref \notin processed'
      BY <1>0, <3>1 DEF DeliverySound
    <3> QED BY <1>0, <2>1, <3>1, <3>2, <3>3, SoundStays
  <2> QED BY <2>2, <2>3
<1>2. CASE Process(e)
  <2> DEFINE Alive == \/ delivery'[e].ref = delivery[e].ref /\ ~DeliveryAt(e, "idle")
                      \/ delivery'[e].pc = "idle"
  <2>1. ASSUME NEW r \in References, Deliver(e, r) PROVE DeliverySound(e)'
    <3>1. /\ delivery'[e].pc = "lock" /\ delivery'[e].ref = r /\ charge' = charge
          /\ charge[r] # Absent /\ open' = open /\ DeliveryAt(e, "idle")
      BY <2>1, OwnDelivery DEF Deliver, shops
    <3> QED BY <1>0, <3>1 DEF DeliverySound, Holding, DeliveryAt
  <2>2. ASSUME ~DeliveryAt(e, "idle"), charge' = charge
        PROVE  /\ delivery[e].ref \in References /\ charge'[delivery[e].ref] # Absent
               /\ charge'[delivery[e].ref].target = charge[delivery[e].ref].target
    BY <1>0, <2>2 DEF DeliverySound
  <2>3. CASE CreateLock(e)
    <3>1. /\ charge' = charge /\ wallet' = wallet /\ processed' = processed
          /\ delivery[e].ref \notin processed /\ e \in open' /\ ~DeliveryAt(e, "idle")
      BY <2>3 DEF CreateLock, TakeSnapshot, Txn!TxnBegin, shops, books, DeliveryAt
    <3>2. /\ delivery'[e].pc = "apply" /\ delivery'[e].ref = delivery[e].ref
          /\ charge[delivery[e].ref].target \in Users =>
                delivery'[e].balance = wallet[charge[delivery[e].ref].target]
      BY <2>3, OwnDelivery
    <3> QED BY <2>2, <3>1, <3>2 DEF DeliverySound, Holding, DeliveryAt
  <2>4. CASE Apply(e)
    <3>1. /\ charge' = charge /\ wallet' = wallet /\ processed' = processed
          /\ open' = open /\ missed' = missed /\ DeliveryAt(e, "apply")
      BY <2>4 DEF Apply, shops, books
    <3>2. /\ delivery'[e].pc = "commit" /\ delivery'[e].ref = delivery[e].ref
          /\ delivery'[e].balance = delivery[e].balance
      BY <2>4, OwnDelivery
    <3> QED BY <1>0, <3>1, <3>2 DEF DeliverySound, Holding, DeliveryAt
  <2>5. CASE Commit(e)
    <3>1. /\ charge' = charge /\ delivery[e].ref \in processed' /\ e \notin open'
          /\ DeliveryAt(e, "commit")
      BY <2>5 DEF Commit, shops, Txn!TxnCommit
    <3>2. delivery'[e].pc = "answer" /\ delivery'[e].ref = delivery[e].ref
      BY <2>5, OwnDelivery
    <3> QED BY <1>0, <3>1, <3>2 DEF DeliverySound, Holding, DeliveryAt
  <2>6. CASE Duplicate(e)
    <3>1. /\ charge' = charge /\ processed' = processed /\ delivery[e].ref \in processed
          /\ open' = open /\ DeliveryAt(e, "lock")
      BY <2>6 DEF Duplicate, shops, books
    <3>2. \/ delivery'[e].pc \in {"lock", "answer"} /\ delivery'[e].ref = delivery[e].ref
          \/ delivery'[e].pc = "idle"
      BY <2>6, OwnDelivery
    <3> QED BY <1>0, <3>1, <3>2 DEF DeliverySound, Holding, DeliveryAt
  <2>7. CASE TransientError(e) \/ CommitReplyLost(e) \/ Answer(e) \/ Fail(e)
    <3>1. charge' = charge /\ e \notin open' /\ ~DeliveryAt(e, "idle")
      BY <1>0, <2>7
         DEF TransientError, CommitReplyLost, Answer, Fail, shops, Txn!TxnAbort, DeliverySound,
             Holding, DeliveryAt
    <3>2. \/ delivery'[e].pc = "lock" /\ delivery'[e].ref = delivery[e].ref
          \/ delivery'[e].pc = "idle"
      BY <2>7, OwnDelivery DEF TransientError, CommitReplyLost, Answer, Fail
    <3> QED BY <1>0, <3>1, <3>2 DEF DeliverySound, Holding, DeliveryAt
  <2> QED BY <1>2, <2>1, <2>3, <2>4, <2>5, <2>6, <2>7 DEF Process
<1>3. ASSUME NEW u \in Users, NEW a \in Amounts, Spend(u, a) PROVE DeliverySound(e)'
  <2>1. /\ delivery' = delivery /\ processed' = processed /\ open' = open
        /\ missed' = [o \in Deliveries |-> IF o \in open THEN missed[o] \cup {u} ELSE missed[o]]
        /\ \A t \in Users : t # u => wallet'[t] = wallet[t]
    BY <1>3 DEF Spend, Txn!PlainWrite, TypeOK
  <2>2. Holding(e) => e \in open /\ delivery[e].ref \notin processed
    BY <1>0 DEF DeliverySound
  <2> QED BY <1>0, <2>1, <2>2, SoundStays
<1>4. CASE UNCHANGED money
  <2>1. Holding(e) => delivery[e].ref \notin processed
    BY <1>0 DEF DeliverySound
  <2> QED BY <1>0, <1>4, <2>1, SoundStays DEF money
<1>5. (\E h \in Checkouts : Shop(h)) \/ (\E r \in References : Pay(r)) \/ UNCHANGED vars
         \/ (\E r \in WalletReferences, u \in Users, a \in Amounts : InitializeFunding(r, u, a))
      => UNCHANGED money
  BY DEF Shop, ReadForLock, LockQuote, StartCheckout, ReadQuote, ConsumeQuote, money, vars,
         InitializeDownPayment, FailCheckout, Pay, InitializeFunding
<1> QED BY <1>1, <1>2, <1>3, <1>4, <1>5 DEF Next

LEMMA LocksStep ==
    ASSUME TypeOK, LocksExclude, [Next]_vars
    PROVE  LocksExclude'
<1>1. ASSUME NEW d \in Deliveries, Process(d) PROVE LocksExclude'
  <2>1. ASSUME NEW o \in Deliveries, o # d
        PROVE  (Holding(o)' <=> Holding(o)) /\ delivery'[o].ref = delivery[o].ref
    BY <1>1, <2>1, OtherDeliveries DEF Holding
  <2>2. CASE CreateLock(d)
    <3>1. /\ delivery'[d].ref = delivery[d].ref
          /\ \A o \in Deliveries \ {d} : Holding(o) => delivery[o].ref # delivery[d].ref
      BY <2>2, OwnDelivery DEF CreateLock, LockedByAnother, Holding
    <3> QED BY <2>1, <3>1 DEF LocksExclude
  <2>3. CASE ~CreateLock(d)
    <3>1. Holding(d)' => Holding(d) /\ delivery'[d].ref = delivery[d].ref
      BY <1>1, <2>3, OwnDelivery
         DEF Process, TransientError, CommitReplyLost, Answer, Fail, Holding, Apply, DeliveryAt
    <3> QED BY <2>1, <3>1 DEF LocksExclude
  <2> QED BY <2>2, <2>3
<1>2. CASE delivery' = delivery
  BY <1>2 DEF LocksExclude, Holding
<1> QED BY <1>1, <1>2
    DEF Next, Shop, ReadForLock, LockQuote, StartCheckout, ReadQuote, ConsumeQuote, money, vars,
        InitializeDownPayment, FailCheckout, Pay, InitializeFunding, Spend

LEMMA CheckoutsStep ==
    ASSUME TypeOK, CheckoutsSound, [Next]_vars
    PROVE  CheckoutsSound'
<1>1. ASSUME NEW h \in Checkouts, Shop(h) PROVE CheckoutsSound'
  <2>1. \A k \in Checkouts \ {h} : checkout'[k] = checkout[k]
    BY <1>1 DEF TypeOK, Shop, ReadForLock, LockQuote, StartCheckout, ReadQuote, ConsumeQuote,
                InitializeDownPayment, FailCheckout, EndCheckout
  <2>2. checkout[h] \in CheckoutState /\ DOMAIN checkout = Checkouts
    BY DEF TypeOK
  <2>3. \/ checkout'[h].pc = "idle"
        \/ checkout'[h].pc = "lock" /\ checkout'[h].quote \in Quotes
        \/ /\ checkout'[h].quote \in Quotes /\ checkout'[h].loan \in Loans
    <3>1. EndCheckout(h) => checkout'[h].pc = "idle"
      BY <2>2 DEF EndCheckout, CheckoutIdle
    <3>2. ASSUME NEW q \in Quotes, ReadForLock(h, q)
          PROVE  checkout'[h].pc = "lock" /\ checkout'[h].quote \in Quotes
      BY <2>2, <3>2 DEF ReadForLock, CheckoutIdle
    <3>3. ASSUME NEW q \in Quotes, NEW l \in Loans, StartCheckout(h, l, q)
          PROVE  checkout'[h].quote \in Quotes /\ checkout'[h].loan \in Loans
      BY <2>2, <3>3 DEF StartCheckout, CheckoutIdle
    <3>4. CASE ReadQuote(h) /\ ~EndCheckout(h)
      BY <2>2, <3>4 DEF ReadQuote, CheckoutsSound, CheckoutAt, CheckoutState
    <3>5. CASE ConsumeQuote(h) /\ ~EndCheckout(h)
      BY <2>2, <3>5 DEF ConsumeQuote, CheckoutsSound, CheckoutAt, CheckoutState
    <3> QED BY <1>1, <3>1, <3>2, <3>3, <3>4, <3>5
            DEF Shop, LockQuote, InitializeDownPayment, FailCheckout
  <2> QED BY <2>1, <2>3 DEF CheckoutsSound, CheckoutAt
<1>2. CASE checkout' = checkout
  BY <1>2 DEF CheckoutsSound, CheckoutAt
<1> QED BY <1>1, <1>2
    DEF Next, vars, Process, Deliver, CreateLock, Duplicate, Apply, Commit, TransientError,
        CommitReplyLost, Answer, Fail, shops, Pay, InitializeFunding, Spend

-----------------------------------------------------------------------------
\* A quote that somebody uses is consumed, and stays with whoever uses it.
LEMMA QuotesStep ==
    ASSUME TypeOK, CheckoutsSound, QuotesUsedOnce, [Next]_vars
    PROVE  QuotesUsedOnce'
<1> SUFFICES ASSUME NEW q \in Quotes PROVE UsedOnce(q)'
  BY DEF QuotesUsedOnce
<1> USE GatewayAssumption
<1>0. UsedOnce(q)
  BY DEF QuotesUsedOnce
<1>1. ASSUME Charges(q)' = Charges(q), Buyers(q)' \subseteq Buyers(q),
             quote[q].status = "consumed" => quote'[q].status = "consumed"
      PROVE  UsedOnce(q)'
  BY <1>0, <1>1 DEF UsedOnce
<1>2. charge' = charge => Charges(q)' = Charges(q)
  BY DEF Charges
<1>3. ASSUME NEW h \in Checkouts, Shop(h) PROVE UsedOnce(q)'
  <2>1. \A k \in Checkouts \ {h} : checkout'[k] = checkout[k]
    BY <1>3 DEF TypeOK, Shop, ReadForLock, LockQuote, StartCheckout, ReadQuote, ConsumeQuote,
                InitializeDownPayment, FailCheckout, EndCheckout
  <2>2. checkout[h] \in CheckoutState /\ DOMAIN checkout = Checkouts
    BY DEF TypeOK
  <2>3. checkout'[h].pc # "paystack" => Buyers(q)' = Buyers(q) \ {h}
    BY <2>1 DEF Buyers, CheckoutAt
  <2>4. EndCheckout(h) => checkout'[h].pc # "paystack"
    BY <2>2 DEF EndCheckout, CheckoutIdle
  <2>5. CASE UNCHANGED <<quote, charge>> /\ checkout'[h].pc # "paystack"
    BY <1>1, <1>2, <2>3, <2>5
  <2>6. CASE LockQuote(h)
    <3>1. quote[q].status = "consumed" => quote'[q].status = "consumed"
      BY <2>6 DEF LockQuote, TypeOK
    <3>2. EndCheckout(h) /\ charge' = charge
      BY <2>6 DEF LockQuote
    <3> QED BY <1>1, <1>2, <2>3, <2>4, <3>1, <3>2
  <2>7. CASE ConsumeQuote(h)
    <3>1. checkout[h].quote \in Quotes /\ charge' = charge
      BY <2>7 DEF ConsumeQuote, CheckoutsSound, CheckoutAt
    <3>2. CASE EndCheckout(h) /\ UNCHANGED quote
      BY <2>4, <2>5, <3>1, <3>2
    <3>3. CASE ~(EndCheckout(h) /\ UNCHANGED quote)
      <4>1. /\ quote[checkout[h].quote].status = "locked"
            /\ quote' = [quote EXCEPT ![checkout[h].quote] = [status |-> "consumed", version |-> @.version + 1]]
            /\ checkout' = [checkout EXCEPT ![h].pc = "paystack"]
        BY <2>7, <3>3 DEF ConsumeQuote
      <4>2. /\ quote'[q].status = IF q = checkout[h].quote THEN "consumed" ELSE quote[q].status
            /\ checkout'[h].pc = "paystack" /\ checkout'[h].quote = checkout[h].quote
        BY <2>2, <4>1 DEF TypeOK, CheckoutState
      <4>3. CASE q = checkout[h].quote
        <5>1. Charges(q) = {} /\ Buyers(q) = {}
          BY <1>0, <4>1, <4>3 DEF UsedOnce
        <5>2. Buyers(q)' = {h}
          BY <2>1, <4>2, <4>3, <5>1 DEF Buyers, CheckoutAt
        <5> QED BY <1>2, <3>1, <4>2, <4>3, <5>1, <5>2 DEF UsedOnce
      <4>4. CASE q # checkout[h].quote
        <5>1. h \notin Buyers(q)'
          BY <4>2, <4>4 DEF Buyers
        <5>2. Buyers(q)' \subseteq Buyers(q)
          BY <2>1, <5>1 DEF Buyers, CheckoutAt
        <5> QED BY <1>1, <1>2, <3>1, <4>2, <4>4, <5>2
      <4> QED BY <4>3, <4>4
    <3> QED BY <3>2, <3>3
  <2>8. ASSUME NEW r \in LoanReferences, InitializeDownPayment(h, r) PROVE UsedOnce(q)'
    <3>1. /\ quote' = quote /\ CheckoutAt(h, "paystack") /\ charge[r] = Absent
          /\ \A s \in References \ {r} : charge'[s] = charge[s]
          /\ charge'[r] = [target |-> checkout[h].loan, amount |-> QuotedAmount[checkout[h].quote],
                           quote |-> checkout[h].quote, paid |-> FALSE]
          /\ r \in References
      BY <2>8 DEF InitializeDownPayment, money, TypeOK, References
    <3>2. Buyers(q)' = Buyers(q) \ {h} /\ charge'[r].quote = checkout[h].quote
      BY <2>3, <2>4, <2>8, <3>1 DEF InitializeDownPayment
    <3>3. CASE q = checkout[h].quote
      <4>1. h \in Buyers(q)
        BY <3>1, <3>3 DEF Buyers
      <4>2. /\ Charges(q) = {} /\ Buyers(q)' = {} /\ quote'[q].status = "consumed"
        BY <1>0, <3>1, <3>2, <4>1 DEF UsedOnce
      <4>3. Charges(q)' \subseteq {r}
        BY <3>1, <4>2 DEF Charges
      <4> QED BY <4>2, <4>3 DEF UsedOnce
    <3>4. CASE q # checkout[h].quote
      <4>1. Charges(q)' = Charges(q)
        BY <3>1, <3>2, <3>4 DEF Charges
      <4> QED BY <1>1, <3>1, <3>2, <4>1
    <3> QED BY <3>3, <3>4
  <2>9. CASE ReadQuote(h) \/ FailCheckout(h)
    <3>1. UNCHANGED <<quote, charge>> /\ checkout'[h].pc # "paystack"
      BY <2>2, <2>4, <2>9 DEF ReadQuote, FailCheckout, CheckoutState
    <3> QED BY <2>5, <3>1
  <2>10. ASSUME NEW p \in Quotes, ReadForLock(h, p) PROVE UsedOnce(q)'
    <3>1. UNCHANGED <<quote, charge>> /\ checkout'[h].pc # "paystack"
      BY <2>2, <2>10 DEF ReadForLock, CheckoutIdle
    <3> QED BY <2>5, <3>1
  <2>11. ASSUME NEW p \in Quotes, NEW l \in Loans, StartCheckout(h, l, p) PROVE UsedOnce(q)'
    <3>1. UNCHANGED <<quote, charge>> /\ checkout'[h].pc # "paystack"
      BY <2>2, <2>11 DEF StartCheckout, CheckoutIdle
    <3> QED BY <2>5, <3>1
  <2> QED BY <1>3, <2>6, <2>7, <2>8, <2>9, <2>10, <2>11 DEF Shop
<1>4. CASE UNCHANGED <<quote, checkout>> /\ Charges(q)' = Charges(q)
  BY <1>1, <1>4 DEF Buyers, CheckoutAt
<1>5. ASSUME NEW r \in References, Pay(r) PROVE UsedOnce(q)'
  <2>1. /\ \A s \in References \ {r} : charge'[s] = charge[s]
        /\ charge'[r] # Absent /\ charge[r] # Absent /\ charge'[r].quote = charge[r].quote
    BY <1>5, ChargesStay DEF Pay, TypeOK
  <2>2. Charges(q)' = Charges(q)
    BY <2>1 DEF Charges
  <2> QED BY <1>4, <1>5, <2>2 DEF Pay
<1>6. ASSUME NEW r \in WalletReferences, NEW u \in Users, NEW a \in Amounts,
             InitializeFunding(r, u, a)
      PROVE  UsedOnce(q)'
  <2>1. /\ \A s \in References \ {r} : charge'[s] = charge[s]
        /\ charge[r] = Absent /\ charge'[r].quote = Absent /\ r \in References
    BY <1>6 DEF InitializeFunding, TypeOK, References
  <2>2. Charges(q)' = Charges(q)
    BY <2>1 DEF Charges
  <2> QED BY <1>4, <1>6, <2>2 DEF InitializeFunding
<1>7. CASE UNCHANGED <<quote, checkout, charge>>
  BY <1>2, <1>4, <1>7
<1> QED BY <1>3, <1>5, <1>6, <1>7
    DEF Next, vars, Process, Deliver, CreateLock, Duplicate, Apply, Commit, TransientError,
        CommitReplyLost, Answer, Fail, shops, Spend

-----------------------------------------------------------------------------
\* Who writes the books, and with what.
LEMMA CommitEffect ==
    ASSUME IInv, NEW d \in Deliveries, Commit(d)
    PROVE  LET r == delivery[d].ref  t == charge[r].target  a == charge[r].amount
           IN  /\ r \in References /\ r \notin processed /\ charge[r] # Absent
               /\ t \in Users \cup Loans /\ a \in Nat
               /\ processed' = processed \cup {r} /\ booked' = [booked EXCEPT ![r] = @ + 1]
               /\ wallet' = [u \in Users |-> IF u = t THEN wallet[u] + a ELSE wallet[u]]
               /\ downPayment' = [l \in Loans |-> IF l = t THEN a ELSE downPayment[l]]
               /\ spent' = spent /\ answered' = answered /\ charge' = charge
<1> DEFINE r == delivery[d].ref  t == charge[r].target  a == charge[r].amount
<1>1. Holding(d) /\ ~DeliveryAt(d, "idle") /\ t \notin missed[d]
  BY DEF Commit, Holding, DeliveryAt, Txn!TxnCommit
<1>2. /\ r \in References /\ r \notin processed /\ charge[r] # Absent
      /\ t \in Users => delivery[d].balance = wallet[t]
  BY <1>1 DEF IInv, DeliveriesSound, DeliverySound
<1>3. t \in Users \cup Loans /\ a \in Nat
  BY <1>2, ChargeFacts DEF IInv
<1>4. wallet' = [u \in Users |-> IF u = t THEN wallet[u] + a ELSE wallet[u]]
  BY <1>2 DEF Commit
<1>5. /\ processed' = processed \cup {r} /\ booked' = [booked EXCEPT ![r] = @ + 1]
      /\ downPayment' = [l \in Loans |-> IF l = t THEN a ELSE downPayment[l]]
      /\ spent' = spent /\ answered' = answered /\ charge' = charge
  BY DEF Commit, shops
<1> HIDE DEF r, t, a
<1> QED BY <1>2, <1>3, <1>4, <1>5 DEF r, t, a

LEMMA BookSteps ==
    ASSUME [Next]_vars
    PROVE  \/ \E d \in Deliveries : Commit(d) \/ Answer(d)
           \/ \E u \in Users, a \in Amounts : Spend(u, a)
           \/ UNCHANGED <<wallet, spent, downPayment, processed, booked, answered>>
<1>1. ASSUME NEW h \in Checkouts, Shop(h) PROVE UNCHANGED books
  BY <1>1 DEF Shop, ReadForLock, LockQuote, StartCheckout, ReadQuote, ConsumeQuote, money,
              InitializeDownPayment, FailCheckout, books
<1>2. ASSUME NEW d \in Deliveries, Process(d)
      PROVE  Commit(d) \/ Answer(d) \/ UNCHANGED books
  <2>1. CASE \E r \in References : Deliver(d, r)
    BY <2>1 DEF Deliver, books
  <2>2. CASE CreateLock(d) \/ Duplicate(d) \/ Apply(d)
    BY <2>2 DEF CreateLock, Duplicate, Apply, books
  <2>3. CASE TransientError(d) \/ CommitReplyLost(d) \/ Fail(d)
    BY <2>3 DEF TransientError, CommitReplyLost, Fail, books
  <2> QED BY <1>2, <2>1, <2>2, <2>3 DEF Process
<1>3. ASSUME NEW r \in References, Pay(r) PROVE UNCHANGED books
  BY <1>3 DEF Pay, money, books
<1>4. ASSUME NEW r \in WalletReferences, NEW u \in Users, NEW a \in Amounts,
             InitializeFunding(r, u, a)
      PROVE  UNCHANGED books
  BY <1>4 DEF InitializeFunding, money, books
<1>5. ASSUME UNCHANGED vars PROVE UNCHANGED books
  BY <1>5 DEF vars, books, money
<1> HIDE DEF books
<1>6. \/ \E d \in Deliveries : Commit(d) \/ Answer(d)
      \/ \E u \in Users, a \in Amounts : Spend(u, a)
      \/ UNCHANGED books
  <2>1. CASE \E h \in Checkouts : Shop(h)
    BY <1>1, <2>1
  <2>2. CASE \E d \in Deliveries : Process(d)
    BY <1>2, <2>2
  <2>3. CASE \/ \E r \in References : Pay(r)
             \/ \E r \in WalletReferences, u \in Users, a \in Amounts : InitializeFunding(r, u, a)
    BY <1>3, <1>4, <2>3
  <2>4. Next =>
          \/ \E h \in Checkouts : Shop(h)
          \/ \E d \in Deliveries : Process(d)
          \/ \E r \in References : Pay(r)
          \/ \E r \in WalletReferences, u \in Users, a \in Amounts : InitializeFunding(r, u, a)
          \/ \E u \in Users, a \in Amounts : Spend(u, a)
    BY DEF Next
  <2>5. CASE Next
    BY <2>1, <2>2, <2>3, <2>4, <2>5, Zenon
  <2> QED BY <1>5, <2>5
<1>7. UNCHANGED books => UNCHANGED <<wallet, spent, downPayment, processed, booked, answered>>
  BY DEF books
<1> QED BY <1>6, <1>7, Zenon

LEMMA AnswersStep == IInv /\ [Next]_vars => AnswersAreTrue' /\ ProcessedIsCharged'
<1> SUFFICES ASSUME IInv, [Next]_vars PROVE AnswersAreTrue' /\ ProcessedIsCharged'
  OBVIOUS
<1>1. AnswersAreTrue /\ ProcessedIsCharged /\ TypeOK
  BY DEF IInv
<1>2. ASSUME NEW d \in Deliveries, Commit(d)
      PROVE  answered' = answered /\ processed' = processed \cup {delivery[d].ref}
             /\ charge[delivery[d].ref] # Absent /\ delivery[d].ref \in References
  BY <1>2, CommitEffect
<1>3. ASSUME NEW d \in Deliveries, Answer(d)
      PROVE  answered' \subseteq answered \cup {delivery[d].ref} /\ processed' = processed
             /\ delivery[d].ref \in processed
  BY <1>3 DEF Answer, IInv, DeliveriesSound, DeliverySound
<1>4. ASSUME NEW u \in Users, NEW a \in Amounts, Spend(u, a)
      PROVE  UNCHANGED <<processed, answered>>
  BY <1>4 DEF Spend
<1>5. AnswersAreTrue'
  BY <1>1, <1>2, <1>3, <1>4, BookSteps DEF AnswersAreTrue
<1>6. \A r \in processed' : r \in References /\ charge[r] # Absent
  BY <1>1, <1>2, <1>3, <1>4, BookSteps DEF ProcessedIsCharged, TypeOK
<1> QED BY <1>1, <1>5, <1>6, ChargesStay DEF ProcessedIsCharged

\* A commit writes the lock, the transaction and the loan together.
LEMMA BookedStep == IInv /\ [Next]_vars => BookedOnce'
<1> SUFFICES ASSUME IInv, [Next]_vars PROVE BookedOnce'
  OBVIOUS
<1>0. TypeOK /\ BookedOnce /\ ProcessedIsCharged
  BY DEF IInv
<1>1. \A r \in processed : /\ r \in References /\ charge'[r].target = charge[r].target
                           /\ charge'[r].amount = charge[r].amount
  BY <1>0, ChargesStay DEF TypeOK, ProcessedIsCharged
<1>2. CASE UNCHANGED <<processed, booked, downPayment>>
  <2>1. \A r \in References : booked'[r] = IF r \in processed' THEN 1 ELSE 0
    BY <1>0, <1>2 DEF BookedOnce
  <2>2. ASSUME NEW l \in Loans
        PROVE  IF {r \in processed' : charge'[r].target = l} = {} THEN downPayment'[l] = Absent
               ELSE \E r \in {s \in processed' : charge'[s].target = l} :
                        downPayment'[l] = charge'[r].amount
    <3>1. PICK made : made = {r \in processed : charge[r].target = l}
      OBVIOUS
    <3>2. {r \in processed' : charge'[r].target = l} = made
      BY <1>1, <1>2, <3>1
    <3>3. IF made = {} THEN downPayment[l] = Absent
          ELSE \E r \in made : downPayment[l] = charge[r].amount
      BY <1>0, <3>1 DEF BookedOnce
    <3>4. \A r \in made : charge'[r].amount = charge[r].amount
      BY <1>1, <3>1
    <3> QED BY <1>2, <3>2, <3>3, <3>4
  <2> QED BY <2>1, <2>2 DEF BookedOnce
<1>3. ASSUME NEW d \in Deliveries, Commit(d) PROVE BookedOnce'
  <2>0. PICK p, t, a : p = delivery[d].ref /\ t = charge[p].target /\ a = charge[p].amount
    OBVIOUS
  <2>1. /\ p \in References /\ p \notin processed /\ t = charge[p].target /\ a = charge[p].amount
        /\ processed' = processed \cup {p} /\ booked' = [booked EXCEPT ![p] = @ + 1]
        /\ downPayment' = [l \in Loans |-> IF l = t THEN a ELSE downPayment[l]]
        /\ charge' = charge
    BY <1>3, <2>0, CommitEffect
  <2>2. \A r \in References : booked'[r] = IF r \in processed' THEN 1 ELSE 0
    <3>1. \A r \in References : booked[r] = IF r \in processed THEN 1 ELSE 0
      BY <1>0 DEF BookedOnce
    <3>2. booked'[p] = 1
      BY <1>0, <2>1, <3>1 DEF TypeOK
    <3>3. \A r \in References \ {p} : booked'[r] = booked[r]
      BY <1>0, <2>1 DEF TypeOK
    <3> QED BY <2>1, <3>1, <3>2, <3>3
  <2>3. ASSUME NEW l \in Loans
        PROVE  IF {r \in processed' : charge'[r].target = l} = {} THEN downPayment'[l] = Absent
               ELSE \E r \in {s \in processed' : charge'[s].target = l} :
                        downPayment'[l] = charge'[r].amount
    <3>1. CASE l = t
      <4>1. p \in {r \in processed' : charge'[r].target = l} /\ downPayment'[l] = charge'[p].amount
        BY <2>1, <3>1
      <4> QED BY <4>1
    <3>2. CASE l # t
      <4>1. PICK made : made = {r \in processed : charge[r].target = l}
        OBVIOUS
      <4>2. {r \in processed' : charge'[r].target = l} = made
        BY <2>1, <3>2, <4>1
      <4>3. IF made = {} THEN downPayment[l] = Absent
            ELSE \E r \in made : downPayment[l] = charge[r].amount
        BY <1>0, <4>1 DEF BookedOnce
      <4>4. downPayment'[l] = downPayment[l]
        BY <2>1, <3>2
      <4> QED BY <2>1, <4>2, <4>3, <4>4
    <3> QED BY <3>1, <3>2
  <2> QED BY <2>2, <2>3 DEF BookedOnce
<1>4. ASSUME NEW d \in Deliveries, Answer(d) PROVE UNCHANGED <<processed, booked, downPayment>>
  BY <1>4 DEF Answer
<1>5. ASSUME NEW u \in Users, NEW a \in Amounts, Spend(u, a)
      PROVE  UNCHANGED <<processed, booked, downPayment>>
  BY <1>5 DEF Spend
<1> QED BY <1>2, <1>3, <1>4, <1>5, BookSteps

\* A commit adds its charge to what the wallet was funded with, and to the wallet.
Funded(u) == {r \in processed : charge[r].target = u}
FundedWith(u) == SumFunction([r \in Funded(u) |-> charge[r].amount])

LEMMA CreditedStep == IInv /\ [Next]_vars => CreditedOnce'
<1> SUFFICES ASSUME IInv, [Next]_vars, NEW u \in Users
             PROVE  wallet'[u] + spent'[u] = InitialBalance + FundedWith(u)'
  BY DEF CreditedOnce, FundedWith, Funded
<1>0. TypeOK /\ ProcessedIsCharged /\ wallet[u] + spent[u] = InitialBalance + FundedWith(u)
  BY DEF IInv, CreditedOnce, FundedWith, Funded
<1>1. \A r \in processed : /\ r \in References /\ charge[r].amount \in Nat
                           /\ charge'[r].target = charge[r].target
                           /\ charge'[r].amount = charge[r].amount
  BY <1>0, ChargesStay, ChargeFacts DEF TypeOK, ProcessedIsCharged
<1>2. PICK mine, f : mine = Funded(u) /\ f = [r \in mine |-> charge[r].amount]
  OBVIOUS
<1>3. /\ IsFiniteSet(mine) /\ mine \subseteq processed
      /\ \A r \in mine : f[r] \in Int /\ charge'[r].amount = f[r]
  BY <1>0, <1>1, <1>2, GatewayAssumption, FS_Subset DEF Funded, TypeOK
<1>4. FundedWith(u) = SumFunctionOnSet(f, mine) /\ SumFunctionOnSet(f, mine) \in Int
  BY <1>2, <1>3, SumType DEF FundedWith, SumFunction
<1>5. wallet[u] \in Nat /\ spent[u] \in Nat /\ InitialBalance \in Nat
  BY <1>0, GatewayAssumption DEF TypeOK
<1>6. ASSUME processed' = processed PROVE FundedWith(u)' = FundedWith(u)
  <2>1. Funded(u)' = mine
    BY <1>1, <1>2, <1>6 DEF Funded
  <2>2. [r \in mine |-> charge'[r].amount] = f
    BY <1>2, <1>3
  <2> QED BY <1>4, <2>1, <2>2 DEF FundedWith, SumFunction
<1>7. ASSUME NEW d \in Deliveries, Commit(d)
      PROVE  wallet'[u] + spent'[u] = InitialBalance + FundedWith(u)'
  <2>0. PICK p, t, a : p = delivery[d].ref /\ t = charge[p].target /\ a = charge[p].amount
    OBVIOUS
  <2>1. /\ p \in References /\ p \notin processed /\ t = charge[p].target /\ a = charge[p].amount
        /\ a \in Nat /\ processed' = processed \cup {p}
        /\ wallet' = [v \in Users |-> IF v = t THEN wallet[v] + a ELSE wallet[v]]
        /\ spent' = spent /\ charge' = charge
    BY <1>7, <2>0, CommitEffect
  <2>2. CASE u = t
    <3>1. Funded(u)' = mine \cup {p} /\ p \notin mine
      BY <1>2, <2>1, <2>2 DEF Funded
    <3>2. PICK g : g = [r \in mine \cup {p} |-> charge[r].amount]
      OBVIOUS
    <3>3. FundedWith(u)' = SumFunctionOnSet(g, mine \cup {p})
      BY <2>1, <3>1, <3>2 DEF FundedWith, SumFunction
    <3>4. SumFunctionOnSet(g, mine \cup {p}) = g[p] + SumFunctionOnSet(g, mine)
      <4>1. g[p] \in Int /\ \A r \in mine : g[r] \in Int
        BY <1>2, <1>3, <2>1, <3>2
      <4> QED BY <1>3, <3>1, <4>1, SumAdd
    <3>5. SumFunctionOnSet(g, mine) = SumFunctionOnSet(f, mine) /\ g[p] = a
      <4>1. \A r \in mine : g[r] = f[r]
        BY <1>2, <3>2
      <4>2. g[p] = a
        BY <2>1, <3>2
      <4> QED BY <1>3, <4>1, <4>2, SumSame
    <3>6. wallet'[u] = wallet[u] + a
      BY <2>1, <2>2
    <3> QED BY <1>0, <1>4, <1>5, <2>1, <3>3, <3>4, <3>5, <3>6
  <2>3. CASE u # t
    <3>1. Funded(u)' = mine
      BY <1>2, <2>1, <2>3 DEF Funded
    <3>2. FundedWith(u)' = FundedWith(u)
      BY <1>2, <1>4, <2>1, <3>1 DEF FundedWith, SumFunction
    <3> QED BY <1>0, <2>1, <2>3, <3>2
  <2> QED BY <2>2, <2>3
<1>8. ASSUME NEW v \in Users, NEW a \in Amounts, Spend(v, a)
      PROVE  wallet'[u] + spent'[u] = InitialBalance + FundedWith(u)'
  <2>1. processed' = processed /\ a \in Nat
    BY <1>8, GatewayAssumption DEF Spend
  <2>2. wallet'[u] + spent'[u] = wallet[u] + spent[u]
    <3>1. CASE u = v
      <4>1. wallet'[u] = wallet[u] - a /\ spent'[u] = spent[u] + a
        BY <1>0, <1>8, <3>1 DEF Spend, TypeOK
      <4> QED BY <1>5, <2>1, <4>1
    <3>2. CASE u # v
      BY <1>0, <1>8, <3>2 DEF Spend, TypeOK
    <3> QED BY <3>1, <3>2
  <2> QED BY <1>0, <1>6, <2>1, <2>2
<1>9. ASSUME NEW d \in Deliveries, Answer(d) PROVE UNCHANGED <<wallet, spent, processed>>
  BY <1>9 DEF Answer
<1> QED BY <1>0, <1>6, <1>7, <1>8, <1>9, BookSteps

-----------------------------------------------------------------------------
\* The inductive invariant holds initially.
LEMMA InitIInv == Init => IInv
<1> SUFFICES ASSUME Init PROVE IInv
  OBVIOUS
<1> USE GatewayAssumption
<1>1. TypeOK
  <2>1. [status |-> "created", version |-> 1] \in QuoteDoc
    BY DEF QuoteDoc
  <2> QED BY <2>1, IdleTypes DEF Init, TypeOK, Txn!TxnInit, Txn!TxnTypeOK
<1>2. DeliveriesSound /\ LocksExclude
  BY DEF Init, Txn!TxnInit, DeliveriesSound, DeliverySound, LocksExclude, Holding, DeliveryAt,
         DeliveryIdle
<1>3. ProcessedIsCharged /\ AnswersAreTrue /\ BookedOnce
  BY DEF Init, ProcessedIsCharged, AnswersAreTrue, BookedOnce
<1>4. CheckoutsSound
  BY DEF Init, CheckoutsSound, CheckoutAt, CheckoutIdle
<1>5. QuotesUsedOnce
  BY DEF Init, QuotesUsedOnce, UsedOnce, Charges, Buyers, CheckoutAt, CheckoutIdle
<1>6. CreditedOnce
  <2> SUFFICES ASSUME NEW u \in Users
               PROVE  wallet[u] + spent[u] = InitialBalance + FundedWith(u)
    BY DEF CreditedOnce, FundedWith, Funded
  <2>1. Funded(u) = {}
    BY DEF Init, Funded
  <2>2. FundedWith(u) = SumFunctionOnSet([r \in {} |-> charge[r].amount], {})
    BY <2>1 DEF FundedWith, SumFunction
  <2>3. FundedWith(u) = 0
    BY <2>2, SumEmpty
  <2> QED BY <2>3 DEF Init
<1> QED BY <1>1, <1>2, <1>3, <1>4, <1>5, <1>6 DEF IInv

\* The inductive invariant: the properties, what an open transaction knows and
\* holds, and who uses a quote.
THEOREM Inductive == Spec => []IInv
<1>1. IInv /\ [Next]_vars => IInv'
  BY TypeStep, SoundStep, LocksStep, CheckoutsStep, QuotesStep, AnswersStep, BookedStep,
     CreditedStep DEF IInv
<1> QED BY <1>1, InitIInv, PTL DEF Spec

\* Every variable keeps its type.
THEOREM TypeCorrect == Spec => []TypeOK
<1>1. IInv => TypeOK
  BY DEF IInv
<1> QED BY <1>1, Inductive, PTL

\* A wallet holds what it was funded with and has not spent, however many
\* webhooks, verify requests and investments race for it.
THEOREM NoCreditLostOrRepeated == Spec => []CreditedOnce
<1>1. IInv => CreditedOnce
  BY DEF IInv
<1> QED BY <1>1, Inductive, PTL

\* A charge has its lock, its transaction and its down payment together or not at
\* all.
THEOREM BookedTogether == Spec => []BookedOnce
<1>1. IInv => BookedOnce
  BY DEF IInv
<1> QED BY <1>1, Inductive, PTL

\* Whoever is told that a charge was processed is told the truth.
THEOREM TruthfulAnswers == Spec => []AnswersAreTrue
<1>1. IInv => AnswersAreTrue
  BY DEF IInv
<1> QED BY <1>1, Inductive, PTL

\* A quote sets the price of one charge, however many checkouts and locks race.
THEOREM OneChargePerQuote == Spec => []QuotePaysOnce
<1>1. IInv => QuotePaysOnce
  <2> SUFFICES ASSUME IInv, NEW q \in Quotes
               PROVE  Cardinality(Charges(q)) + Cardinality(Buyers(q)) <= 1
    BY DEF QuotePaysOnce, Charges, Buyers
  <2>1. UsedOnce(q) /\ Cardinality({}) = 0
    BY FS_EmptySet DEF IInv, QuotesUsedOnce
  <2>2. ASSUME NEW S, \A x, y \in S : x = y PROVE Cardinality(S) \in 0 .. 1
    <3>1. CASE S = {}
      BY <2>1, <3>1
    <3>2. CASE S # {}
      <4>1. PICK x : S = {x}
        BY <2>2, <3>2
      <4> QED BY <4>1, FS_Singleton
    <3> QED BY <3>1, <3>2
  <2>3. Cardinality(Charges(q)) \in 0 .. 1 /\ Cardinality(Buyers(q)) \in 0 .. 1
    BY <2>1, <2>2 DEF UsedOnce
  <2> QED BY <2>1, <2>3 DEF UsedOnce
<1> QED BY <1>1, Inductive, PTL
=============================================================================
