--------------------------- MODULE PoolInvestment ---------------------------
(***************************************************************************)
(* Investing in a vehicle pool (lib/services/investments.service.ts), run  *)
(* by any number of concurrent request handlers, next to the opening of    *)
(* pools, the crediting of wallets and the expiry sweep.                   *)
(*                                                                         *)
(* The body of withTransaction is one step, CommitInvestment: between its  *)
(* statements nobody sees its writes, and what it reads is the snapshot    *)
(* that BeginAttempt took.  A handler is otherwise cut wherever another    *)
(* one can come in between: before the transaction, between the snapshot   *)
(* and the commit, and between the commit and the answer.                  *)
(***************************************************************************)
EXTENDS Integers, FiniteSets, FiniteSetsExt, Functions

CONSTANTS Calls,            \* POST /api/pools/:poolId/invest requests
          Users, Pools,
          Keys,             \* Idempotency-Key values of one investor
          Amounts,          \* amountNgn of a request
          Credits,          \* amounts a wallet is funded with
          Target, MinContribution,   \* by pool, as createPool accepts them
          TotalUnits,       \* TOTAL_OWNERSHIP_UNITS
          KycApproved,      \* users with kycStatus/isKycVerified/kycVerified
          MaxCredit,        \* bound: the most each wallet is credited with
          MaxTries,         \* bound: retries of one withTransaction (120 s)
          Absent            \* no document

Docs == {<<"user", u>> : u \in Users} \cup {<<"pool", p>> : p \in Pools}
          \cup {<<"reservation", u, k>> : u \in Users, k \in Keys}

WalletDoc == [available : Nat, held : Nat, totalInvested : Nat]
PoolDoc == [raised : Nat, investorCount : Nat, status : {"OPEN", "FUNDED"}]
ReservationDoc == [status : {"SETTLED", "RESERVED", "EXPIRED"}, amount : Nat]
Snapshot == [user : WalletDoc \cup {Absent}, pool : PoolDoc \cup {Absent},
             reservation : ReservationDoc \cup {Absent}, invested : BOOLEAN]
CallState ==
    [pc : {"idle", "begin", "txn", "committed", "ok", "error", "crashed"},
     user : Users \cup {Absent}, pool : Pools \cup {Absent}, amount : Nat,
     key : Keys \cup {Absent}, attempt : 0..2, tries : 0..MaxTries,
     snap : Snapshot]

ASSUME InvestmentAssumption ==
    /\ Amounts \subseteq Nat \ {0} /\ Credits \subseteq Nat
    /\ Target \in [Pools -> Nat \ {0}]
    /\ MinContribution \in [Pools -> Nat \ {0}]
    /\ \A p \in Pools : MinContribution[p] <= Target[p]
    /\ KycApproved \subseteq Users
    /\ TotalUnits \in Nat /\ MaxCredit \in [Users -> Nat] /\ MaxTries \in Nat
    /\ Absent \notin WalletDoc \cup PoolDoc \cup ReservationDoc

VARIABLES user, pool, reservation, investment, \* the collections
          open, missed,                        \* MongoDB's transactions
          call,                                \* the request handlers
          credited                             \* what each wallet ever received

dbVars == <<user, pool, reservation, investment>>
vars == <<user, pool, reservation, investment, open, missed, call, credited>>

INSTANCE SnapshotTransactions WITH Txns <- Calls

-----------------------------------------------------------------------------
\* Operators named *Mutant are the bugs that the properties below must notice;
\* nothing in the specification uses them.
calculateOwnershipMutant(a, target) ==          \* Math.ceil for Math.floor
    (a * TotalUnits + target - 1) \div target

\* calculateOwnership
calculateOwnership(a, target) == (a * TotalUnits) \div target

PoolAcceptsMutant(p, doc, a) ==                 \* no $expr on the capacity
    doc # Absent /\ doc.status = "OPEN" /\ MinContribution[p] <= a
WalletCoversMutant(u, doc, a) ==                \* no $gte on the balance
    u \in KycApproved

\* The filters of the pool and wallet queries: only a matching document is updated.
PoolAccepts(p, doc, a) ==
    /\ doc # Absent
    /\ doc.status = "OPEN"
    /\ MinContribution[p] <= a
    /\ Target[p] - doc.raised >= a
WalletCovers(u, doc, a) == doc.available >= a /\ u \in KycApproved

\* PoolInvestment.exists({ poolId, userId, status: "CONFIRMED" })
hasExistingInvestment(u, p) == \E i \in investment : i.user = u /\ i.pool = p

\* resultForReservation: only a settled reservation has a result to give.
PriorResult(u, k) == IF reservation[u][k].status = "SETTLED" THEN "ok" ELSE "error"

NoSnapshot == [user |-> Absent, pool |-> Absent, reservation |-> Absent, invested |-> FALSE]
Idle == [pc |-> "idle", user |-> Absent, pool |-> Absent, amount |-> 0, key |-> Absent,
         attempt |-> 0, tries |-> 0, snap |-> NoSnapshot]

Goto(c, pc) == call' = [call EXCEPT ![c].pc = pc, ![c].snap = NoSnapshot]
Finish(c, pc) ==
    call' = [call EXCEPT ![c] = IF pc = "ok" THEN [Idle EXCEPT !.pc = pc, !.user = call[c].user,
                                                               !.key = call[c].key]
                                ELSE [Idle EXCEPT !.pc = pc]]

WrittenByPoolMutant(c) ==                       \* currentRaisedNgn set, not $inc'ed
    {<<"user", call[c].user>>, <<"reservation", call[c].user, call[c].key>>}
WrittenByWalletMutant(c) ==                     \* availableBalance set, not $inc'ed
    {<<"pool", call[c].pool>>, <<"reservation", call[c].user, call[c].key>>}

WrittenBy(c) == {<<"user", call[c].user>>, <<"pool", call[c].pool>>,
                 <<"reservation", call[c].user, call[c].key>>}

-----------------------------------------------------------------------------
\* The request arrives and the handler looks for a reservation under its key.
Request(c, u, p, a, k) ==
    /\ call[c].pc = "idle"
    /\ call' = [call EXCEPT ![c] =
          [Idle EXCEPT !.user = u, !.pool = p, !.amount = a, !.key = k,
             !.pc = IF reservation[u][k] = Absent THEN "begin" ELSE PriorResult(u, k)]]
    /\ UNCHANGED <<dbVars, open, missed, credited>>

BeginAttemptMutant(c) ==                        \* no unique index on the key
    /\ call[c].pc = "begin"
    /\ TxnBegin(c)
    /\ call' = [call EXCEPT ![c].pc = "txn",
          ![c].snap = [user        |-> user[call[c].user],
                       pool        |-> pool[call[c].pool],
                       reservation |-> Absent,
                       invested    |-> hasExistingInvestment(call[c].user, call[c].pool)]]
    /\ UNCHANGED <<dbVars, credited>>

BeginAttempt(c) ==
    /\ call[c].pc = "begin"
    /\ TxnBegin(c)
    /\ call' = [call EXCEPT ![c].pc = "txn",
          ![c].snap = [user        |-> user[call[c].user],
                       pool        |-> pool[call[c].pool],
                       reservation |-> reservation[call[c].user][call[c].key],
                       invested    |-> hasExistingInvestment(call[c].user, call[c].pool)]]
    /\ UNCHANGED <<dbVars, credited>>

\* Every statement of the body finds what it asks for, and the commit is accepted.
CommitInvestment(c) ==
    LET u == call[c].user  p == call[c].pool  a == call[c].amount
        k == call[c].key   s == call[c].snap  raised == s.pool.raised + a
    IN  /\ call[c].pc = "txn"
        /\ s.reservation = Absent
        /\ PoolAccepts(p, s.pool, a)
        /\ WalletCovers(u, s.user, a)
        /\ TxnCommit(c, WrittenBy(c))
        /\ user' = [user EXCEPT ![u] =
              [available |-> s.user.available - a, held |-> s.user.held,
               totalInvested |-> s.user.totalInvested + a]]
        /\ pool' = [pool EXCEPT ![p] =
              [raised |-> raised,
               investorCount |-> s.pool.investorCount + IF s.invested THEN 0 ELSE 1,
               status |-> IF raised >= Target[p] THEN "FUNDED" ELSE s.pool.status]]
        /\ reservation' = [reservation EXCEPT ![u][k] = [status |-> "SETTLED", amount |-> a]]
        /\ investment' = investment \cup
              {[user |-> u, key |-> k, pool |-> p, amount |-> a,
                units |-> calculateOwnership(a, Target[p])]}
        /\ Goto(c, "committed")
        /\ UNCHANGED credited

\* The unique index on {userId, idempotencyKey} refuses the reservation; the
\* handler then answers with the reservation it lost to.
DuplicateKey(c) ==
    /\ call[c].pc = "txn"
    /\ call[c].snap.reservation # Absent
    /\ TxnAbort(c)
    /\ Finish(c, PriorResult(call[c].user, call[c].key))
    /\ UNCHANGED <<dbVars, credited>>

\* The pool, the wallet or the consent (outside this model) refuses: rolled back.
Refuse(c) ==
    LET u == call[c].user  p == call[c].pool  a == call[c].amount  s == call[c].snap
    IN  /\ call[c].pc = "txn"
        /\ s.reservation = Absent
        /\ <<"reservation", u, call[c].key>> \notin missed[c]
        /\ \/ ~PoolAccepts(p, s.pool, a)
           \/ ~WalletCovers(u, s.user, a)
           \/ <<"user", u>> \notin missed[c]     \* requireAcceptedConsent throws
        /\ TxnAbort(c)
        /\ Finish(c, "error")
        /\ UNCHANGED <<dbVars, credited>>

NextTryResultMutant(c) ==                       \* result outlives the failed commit
    Finish(c, "ok")
NextTryForeverMutant(c) ==                      \* no limit on the attempts
    call' = [call EXCEPT ![c].snap = NoSnapshot, ![c].pc = "begin"]

\* withTransaction runs its body again after a transient error; when it gives
\* up, the loop of three attempts goes on with a new session.
NextTry(c) ==
    LET again   == call[c].tries < MaxTries
        attempt == call[c].attempt + IF again THEN 0 ELSE 1
    IN  IF attempt < 3
        THEN call' = [call EXCEPT ![c].snap = NoSnapshot, ![c].pc = "begin",
                                  ![c].tries = IF again THEN @ + 1 ELSE 0,
                                  ![c].attempt = attempt]
        ELSE Finish(c, "error")

\* A WriteConflict, a lock held by another transaction, a lost primary.
TransientError(c) ==
    /\ call[c].pc = "txn"
    /\ TxnAbort(c)
    /\ NextTry(c)
    /\ UNCHANGED <<dbVars, credited>>

\* The transaction is committed, but the client sees NoSuchTransaction.
CommitReplyLost(c) ==
    /\ call[c].pc = "committed"
    /\ NextTry(c)
    /\ UNCHANGED <<dbVars, open, missed, credited>>

Answer(c) ==
    /\ call[c].pc = "committed"
    /\ Finish(c, "ok")
    /\ UNCHANGED <<dbVars, open, missed, credited>>

\* The process that runs the handler dies: the server aborts what it left open.
Crash(c) ==
    /\ call[c].pc \in {"begin", "txn", "committed"}
    /\ TxnAbort(c)
    /\ Finish(c, "crashed")
    /\ UNCHANGED <<dbVars, credited>>

-----------------------------------------------------------------------------
\* createPool
CreatePool(p) ==
    /\ pool[p] = Absent
    /\ pool' = [pool EXCEPT ![p] = [raised |-> 0, investorCount |-> 0, status |-> "OPEN"]]
    /\ PlainWrite({<<"pool", p>>})
    /\ UNCHANGED <<user, reservation, investment, call, credited>>

\* A wallet funding that processGatewayCharge commits (module GatewayCharge).
CreditWallet(u, a) ==
    /\ credited[u] + a <= MaxCredit[u]
    /\ user' = [user EXCEPT ![u].available = @ + a]
    /\ credited' = [credited EXCEPT ![u] = @ + a]
    /\ PlainWrite({<<"user", u>>})
    /\ UNCHANGED <<pool, reservation, investment, call>>

\* expireInvestmentReservations: one transaction that releases the holds that
\* are still RESERVED; which of them are overdue is left open.
ExpireReservations ==
    \E overdue \in SUBSET {r \in Users \X Keys :
                             /\ reservation[r[1]][r[2]] # Absent
                             /\ reservation[r[1]][r[2]].status = "RESERVED"} :
       LET mine(u) == {k \in Keys : <<u, k>> \in overdue}
           held(u) == MapThenSumSet(LAMBDA k : reservation[u][k].amount, mine(u))
       IN  /\ reservation' = [u \in Users |-> [k \in Keys |->
                 IF k \in mine(u) THEN [reservation[u][k] EXCEPT !.status = "EXPIRED"]
                 ELSE reservation[u][k]]]
           /\ user' = [u \in Users |->
                 IF mine(u) # {} /\ user[u].held >= held(u)
                 THEN [user[u] EXCEPT !.held = @ - held(u), !.available = @ + held(u)]
                 ELSE user[u]]
           /\ PlainWrite({<<"reservation", r[1], r[2]>> : r \in overdue}
                           \cup {<<"user", r[1]>> : r \in overdue})
           /\ UNCHANGED <<pool, investment, call, credited>>

-----------------------------------------------------------------------------
Init == /\ user = [u \in Users |-> [available |-> 0, held |-> 0, totalInvested |-> 0]]
        /\ pool = [p \in Pools |-> Absent]
        /\ reservation = [u \in Users |-> [k \in Keys |-> Absent]]
        /\ investment = {}
        /\ TxnInit
        /\ call = [c \in Calls |-> Idle]
        /\ credited = [u \in Users |-> 0]

\* What a handler does once it has a request, and does not stop doing halfway.
Progress(c) == \/ BeginAttempt(c)
               \/ CommitInvestment(c)
               \/ DuplicateKey(c)
               \/ Refuse(c)
               \/ TransientError(c)
               \/ CommitReplyLost(c)
               \/ Answer(c)

Next == \/ \E c \in Calls, u \in Users, p \in Pools, a \in Amounts, k \in Keys :
              Request(c, u, p, a, k)
        \/ \E c \in Calls : Progress(c)
        \/ \E c \in Calls : Crash(c)
        \/ \E p \in Pools : CreatePool(p)
        \/ \E u \in Users, a \in Credits : CreditWallet(u, a)
        \/ ExpireReservations

Spec == Init /\ [][Next]_vars

\* A handler that has started goes on: MongoDB answers every command, if only
\* with an error.
FairSpec == Spec /\ \A c \in Calls : WF_vars(Progress(c))

-----------------------------------------------------------------------------
\* The type of every variable.
TypeOK ==
    /\ user \in [Users -> WalletDoc]
    /\ pool \in [Pools -> PoolDoc \cup {Absent}]
    /\ reservation \in [Users -> [Keys -> ReservationDoc \cup {Absent}]]
    /\ investment \in SUBSET [user : Users, key : Keys, pool : Pools, amount : Amounts,
                              units : Nat]
    /\ TxnTypeOK
    /\ call \in [Calls -> CallState]
    /\ credited \in [Users -> Nat]

\* No interleaving of investors oversubscribes a pool, and a pool stops being
\* OPEN exactly when it is full (investments.service.ts:81,92-94).
PoolWithinTarget ==
    \A p \in Pools : pool[p] # Absent =>
        /\ pool[p].raised <= Target[p]
        /\ pool[p].status = "FUNDED" <=> pool[p].raised = Target[p]

\* The totals kept on the pool are those of its investments, whatever raced
\* (INV_POOL_FUNDING_TOTAL_MISMATCH of lib/integrity/catalog.ts never arises
\* from investing), an investor is counted once, and the shares, each rounded
\* down, do not add up to more than the whole.
PoolAgreesWithInvestments ==
    \A p \in Pools : pool[p] # Absent =>
        LET mine == {i \in investment : i.pool = p}
        IN  /\ pool[p].raised = SumFunction([i \in mine |-> i.amount])
            /\ pool[p].investorCount = Cardinality({i.user : i \in mine})
            /\ SumFunction([i \in mine |-> i.units]) <= TotalUnits

\* Money is neither made nor lost: what a wallet was credited with is still
\* available or is invested, and no hold outlives its transaction.
WalletConserved ==
    \A u \in Users :
        /\ user[u].available + user[u].held + user[u].totalInvested = credited[u]
        /\ user[u].held = 0

\* A key buys at most one investment, whatever was retried, lost or crashed,
\* and a reservation says SETTLED exactly when its investment exists.
OneInvestmentPerKey ==
    /\ \A i, j \in investment : i.user = j.user /\ i.key = j.key => i = j
    /\ \A u \in Users, k \in Keys :
          (\E i \in investment : i.user = u /\ i.key = k)
             <=> (reservation[u][k] # Absent /\ reservation[u][k].status = "SETTLED")

\* A client that is told of success, by its own commit or because its key was
\* already used, has an investment under that key, whatever its earlier attempts
\* came to.  (The converse is not promised: when the reply to the third commit is
\* lost the client is told of an error although it has invested.)
AnswersAreTrue ==
    \A c \in Calls :
        call[c].pc \in {"ok", "committed"} =>
            \E i \in investment : i.user = call[c].user /\ i.key = call[c].key

\* Investing implements the atomic investment: handlers, snapshots, retries and
\* crashes are stuttering.
Atomic == INSTANCE AtomicInvestment
RefinesAtomicInvestment == Atomic!Spec

\* A handler never hangs: every request is answered or its process has died.
CallsTerminate ==
    \A c \in Calls : (call[c].pc # "idle") ~> (call[c].pc \in {"ok", "error", "crashed"})
=============================================================================
