------------------------ MODULE PoolInvestmentProofs ------------------------
(***************************************************************************)
(* Theorems about PoolInvestment for every set of requests, users, pools   *)
(* and keys, every amount and every bound; and at the end about the repair *)
(* of PoolFundingRepair next to it.                                        *)
(***************************************************************************)
EXTENDS PoolFundingRepair, Sums, TLAPS

\* A handler that is working on a request knows whose it is.
WorkingCalls ==
    \A c \in Calls :
        /\ call[c].pc \in {"begin", "txn", "committed", "ok"} =>
              call[c].user \in Users /\ call[c].key \in Keys
        /\ call[c].pc \in {"begin", "txn", "committed"} =>
              call[c].pool \in Pools /\ call[c].amount \in Amounts

\* A snapshot is still what the database holds, but for what was missed.
SnapshotAgrees(c) ==
    LET u == call[c].user  p == call[c].pool  k == call[c].key  s == call[c].snap
    IN  /\ call[c].pc = "txn" <=> c \in open
        /\ call[c].pc = "txn" =>
             /\ s.user # Absent
             /\ <<"user", u>> \notin missed[c] => s.user = user[u]
             /\ <<"pool", p>> \notin missed[c] =>
                   /\ s.pool = pool[p]
                   /\ s.invested = hasExistingInvestment(u, p)
             /\ <<"reservation", u, k>> \notin missed[c] => s.reservation = reservation[u][k]
             /\ s.reservation # Absent => reservation[u][k] # Absent
SnapshotsAgree == \A c \in Calls : SnapshotAgrees(c)

\* No reservation is ever seen before it is settled.
OnlySettledReservations ==
    \A u \in Users, k \in Keys :
        reservation[u][k] # Absent => reservation[u][k].status = "SETTLED"

\* What holds of wallets, keys and answers whatever the pools' totals are.
SoundInv == /\ TypeOK
            /\ WorkingCalls
            /\ SnapshotsAgree
            /\ OnlySettledReservations
            /\ WalletConserved
            /\ OneInvestmentPerKey
            /\ AnswersAreTrue

IInv == SoundInv /\ PoolWithinTarget

\* An idle handler is a well-typed one.
LEMMA IdleType == /\ NoSnapshot \in Snapshot
                  /\ Idle \in CallState
<1>1. NoSnapshot \in Snapshot
  BY DEF NoSnapshot, Snapshot
<1>2. 0 \in 0..MaxTries /\ 0 \in 0..2
  BY InvestmentAssumption
<1> QED BY <1>1, <1>2 DEF Idle, CallState

\* The initial state is well typed.
LEMMA InitTypeOK == Init => TypeOK
BY IdleType, InvestmentAssumption DEF Init, TypeOK, TxnInit, TxnTypeOK, WalletDoc

\* A share is a natural number, since no pool has a target of zero.
LEMMA OwnershipIsNat ==
    ASSUME NEW a \in Nat, NEW t \in Nat \ {0}
    PROVE  calculateOwnership(a, t) \in Nat
<1> DEFINE n == a * TotalUnits
<1>1. n \in Nat
  BY InvestmentAssumption
<1>2. n \div t \in Nat
  <2> HIDE DEF n
  <2> QED BY <1>1
<1> QED BY <1>2 DEF calculateOwnership

\* An answered or dead handler is a well-typed one.
LEMMA FinishType ==
    ASSUME TypeOK, NEW c \in Calls, NEW pc \in {"ok", "error", "crashed"}, Finish(c, pc),
           pc = "ok" => call[c].user \in Users /\ call[c].key \in Keys
    PROVE  call' \in [Calls -> CallState]
<1> DEFINE new == IF pc = "ok" THEN [Idle EXCEPT !.pc = pc, !.user = call[c].user,
                                                 !.key = call[c].key]
                  ELSE [Idle EXCEPT !.pc = pc]
<1>1. new \in CallState
  BY IdleType DEF CallState
<1>2. call' = [call EXCEPT ![c] = new]
  BY DEF Finish
<1> QED
  <2> HIDE DEF new
  <2> QED BY <1>1, <1>2 DEF TypeOK

\* A handler that tries again, or gives up, is a well-typed one.
LEMMA NextTryType ==
    ASSUME TypeOK, NEW c \in Calls, NextTry(c)
    PROVE  call' \in [Calls -> CallState]
<1> DEFINE again == call[c].tries < MaxTries
           attempt == call[c].attempt + IF again THEN 0 ELSE 1
           new == [call[c] EXCEPT !.snap = NoSnapshot, !.pc = "begin",
                                  !.tries = IF again THEN @ + 1 ELSE 0, !.attempt = attempt]
<1>1. call[c] \in CallState
  BY DEF TypeOK
<1>2. CASE attempt < 3
  <2>1. new \in CallState
    <3>1. attempt \in 0..2
      BY <1>1, <1>2 DEF CallState
    <3>2. (IF again THEN call[c].tries + 1 ELSE 0) \in 0..MaxTries
      BY <1>1, InvestmentAssumption DEF CallState
    <3> QED BY <1>1, <3>1, <3>2, IdleType DEF CallState
  <2>2. call' = [call EXCEPT ![c] = new]
    BY <1>2 DEF NextTry, TypeOK
  <2> QED
    <3> HIDE DEF new
    <3> QED BY <2>1, <2>2 DEF TypeOK
<1>3. CASE ~(attempt < 3)
  <2>1. Finish(c, "error")
    BY <1>3 DEF NextTry
  <2> QED BY <2>1, FinishType
<1> QED BY <1>2, <1>3

\* No hold is ever left for the expiry sweep to release.
LEMMA NothingExpires ==
    ASSUME TypeOK, OnlySettledReservations, ExpireReservations
    PROVE  UNCHANGED <<user, pool, reservation, investment, open, missed, call, credited>>
<1> DEFINE holds == {r \in Users \X Keys : /\ reservation[r[1]][r[2]] # Absent
                                           /\ reservation[r[1]][r[2]].status = "RESERVED"}
<1>1. holds = {}
  BY DEF OnlySettledReservations
<1>2. PICK overdue \in SUBSET holds :
         LET mine(u) == {k \in Keys : <<u, k>> \in overdue}
             held(u) == MapThenSumSet(LAMBDA k : reservation[u][k].amount, mine(u))
         IN  /\ reservation' = [u \in Users |-> [k \in Keys |->
                   IF k \in mine(u) THEN [reservation[u][k] EXCEPT !.status = "EXPIRED"]
                   ELSE reservation[u][k]]]
             /\ user' = [u \in Users |->
                   IF mine(u) # {} /\ user[u].held >= held(u)
                   THEN [user[u] EXCEPT !.held = @ - held(u), !.available = @ + held(u)]
                   ELSE user[u]]
             /\ PlainWrite({<<"reservation", r[1], r[2]>> : r \in overdue}
                             \cup {<<"user", r[1]>> : r \in overdue})
             /\ UNCHANGED <<pool, investment, call, credited>>
  BY DEF ExpireReservations
<1>3. overdue = {}
  BY <1>1
<1>4. reservation' = [u \in Users |-> [k \in Keys |-> reservation[u][k]]]
  BY <1>2, <1>3
<1>5. user' = [u \in Users |-> user[u]]
  <2>1. \A u \in Users : {k \in Keys : <<u, k>> \in overdue} = {}
    BY <1>3
  <2> QED BY <1>2, <2>1
<1>6. /\ missed' = [o \in Calls |-> missed[o]]
      /\ UNCHANGED open
  <2>1. /\ {<<"reservation", r[1], r[2]>> : r \in overdue} = {}
        /\ {<<"user", r[1]>> : r \in overdue} = {}
    BY <1>3
  <2> QED BY <1>2, <2>1 DEF PlainWrite
<1>7. reservation' = reservation
  <2>1. \A u \in Users : [k \in Keys |-> reservation[u][k]] = reservation[u]
    BY DEF TypeOK
  <2> QED BY <1>4, <2>1 DEF TypeOK
<1>8. user' = user
  BY <1>5 DEF TypeOK
<1>9. missed' = missed
  BY <1>6 DEF TypeOK, TxnTypeOK
<1> QED BY <1>2, <1>6, <1>7, <1>8, <1>9

LEMMA SnapshotType ==
    ASSUME NEW u \in WalletDoc \cup {Absent}, NEW p \in PoolDoc \cup {Absent},
           NEW r \in ReservationDoc \cup {Absent}, NEW i \in BOOLEAN
    PROVE  [user |-> u, pool |-> p, reservation |-> r, invested |-> i] \in Snapshot
BY DEF Snapshot

\* Every step keeps the types.
LEMMA NextTypeOK == TypeOK /\ WorkingCalls /\ SnapshotsAgree /\ OnlySettledReservations /\ [Next]_vars => TypeOK'
<1> SUFFICES ASSUME TypeOK, WorkingCalls, SnapshotsAgree, OnlySettledReservations,
                    [Next]_vars
             PROVE  TypeOK'
  OBVIOUS
<1> USE InvestmentAssumption
<1>1. ASSUME NEW c \in Calls, NEW u \in Users, NEW p \in Pools, NEW a \in Amounts,
             NEW k \in Keys, Request(c, u, p, a, k)
      PROVE  TypeOK'
  <2> DEFINE new == [Idle EXCEPT !.user = u, !.pool = p, !.amount = a, !.key = k,
                       !.pc = IF reservation[u][k] = Absent THEN "begin" ELSE PriorResult(u, k)]
  <2>1. new \in CallState
    BY IdleType DEF CallState, PriorResult
  <2>2. call' = [call EXCEPT ![c] = new]
    BY <1>1 DEF Request
  <2>3. call' \in [Calls -> CallState]
    <3> HIDE DEF new
    <3> QED BY <2>1, <2>2 DEF TypeOK
  <2> QED BY <1>1, <2>3 DEF Request, TypeOK, dbVars, TxnTypeOK
<1>2. ASSUME NEW c \in Calls, BeginAttempt(c)
      PROVE  TypeOK'
  <2> DEFINE snap == [user        |-> user[call[c].user],
                      pool        |-> pool[call[c].pool],
                      reservation |-> reservation[call[c].user][call[c].key],
                      invested    |-> hasExistingInvestment(call[c].user, call[c].pool)]
             new  == [call[c] EXCEPT !.pc = "txn", !.snap = snap]
  <2>1. snap \in Snapshot
    <3>1. hasExistingInvestment(call[c].user, call[c].pool) \in BOOLEAN
      BY DEF hasExistingInvestment
    <3>2. call[c].user \in Users /\ call[c].key \in Keys /\ call[c].pool \in Pools
      BY <1>2 DEF BeginAttempt, WorkingCalls
    <3>3. /\ user[call[c].user] \in WalletDoc \cup {Absent}
          /\ pool[call[c].pool] \in PoolDoc \cup {Absent}
          /\ reservation[call[c].user][call[c].key] \in ReservationDoc \cup {Absent}
      BY <3>2 DEF TypeOK
    <3> QED BY <3>1, <3>3, SnapshotType
  <2>2. new \in CallState
    <3>1. call[c] \in CallState
      BY DEF TypeOK
    <3> HIDE DEF snap
    <3> QED BY <2>1, <3>1 DEF CallState
  <2>3. call' = [call EXCEPT ![c] = new]
    BY <1>2 DEF BeginAttempt, TypeOK
  <2>4. call' \in [Calls -> CallState]
    <3> HIDE DEF new
    <3> QED BY <2>2, <2>3 DEF TypeOK
  <2> QED BY <1>2, <2>4 DEF BeginAttempt, TypeOK, dbVars, TxnTypeOK, TxnBegin
<1>3. ASSUME NEW c \in Calls, CommitInvestment(c)
      PROVE  TypeOK'
  <2> DEFINE u == call[c].user  p == call[c].pool  a == call[c].amount
             k == call[c].key   s == call[c].snap  raised == s.pool.raised + a
             wallet == [available |-> s.user.available - a, held |-> s.user.held,
                        totalInvested |-> s.user.totalInvested + a]
             doc == [raised |-> raised,
                     investorCount |-> s.pool.investorCount + IF s.invested THEN 0 ELSE 1,
                     status |-> IF raised >= Target[p] THEN "FUNDED" ELSE s.pool.status]
             inv == [user |-> u, key |-> k, pool |-> p, amount |-> a,
                     units |-> calculateOwnership(a, Target[p])]
  <2>1. /\ u \in Users /\ k \in Keys /\ p \in Pools /\ a \in Amounts
        /\ s \in Snapshot
    BY <1>3 DEF CommitInvestment, WorkingCalls, TypeOK, CallState
  <2>2. s.user \in WalletDoc /\ s.pool \in PoolDoc
    BY <1>3, <2>1 DEF CommitInvestment, PoolAccepts, Snapshot, SnapshotsAgree, SnapshotAgrees
  <2>3. wallet \in WalletDoc
    BY <1>3, <2>1, <2>2 DEF CommitInvestment, WalletCovers, WalletDoc
  <2>4. doc \in PoolDoc
    <3>1. a \in Nat /\ Target[p] \in Nat /\ s.invested \in BOOLEAN
      BY <2>1 DEF Snapshot
    <3> HIDE DEF a, p, s
    <3> QED BY <2>2, <3>1 DEF PoolDoc
  <2>5. inv.units \in Nat
    BY <2>1, OwnershipIsNat
  <2>6. user' \in [Users -> WalletDoc]
    <3>1. user' = [user EXCEPT ![u] = wallet]
      BY <1>3 DEF CommitInvestment
    <3> HIDE DEF wallet, u
    <3> QED BY <2>3, <3>1 DEF TypeOK
  <2>7. pool' \in [Pools -> PoolDoc \cup {Absent}]
    <3>1. pool' = [pool EXCEPT ![p] = doc]
      BY <1>3 DEF CommitInvestment
    <3> HIDE DEF doc, p
    <3> QED BY <2>4, <3>1 DEF TypeOK
  <2>8. reservation' \in [Users -> [Keys -> ReservationDoc \cup {Absent}]]
    <3>1. reservation' = [reservation EXCEPT ![u][k] = [status |-> "SETTLED", amount |-> a]]
      BY <1>3 DEF CommitInvestment
    <3>2. [status |-> "SETTLED", amount |-> a] \in ReservationDoc
      BY <2>1 DEF ReservationDoc
    <3> HIDE DEF u, k, a
    <3> QED BY <3>1, <3>2 DEF TypeOK
  <2>9. investment' \in SUBSET [user : Users, key : Keys, pool : Pools, amount : Amounts,
                                units : Nat]
    BY <1>3, <2>1, <2>5 DEF CommitInvestment, TypeOK
  <2>10. TxnTypeOK'
    <3>1. WrittenBy(c) \subseteq Docs
      BY <2>1 DEF WrittenBy, Docs
    <3> QED BY <1>3, <3>1 DEF CommitInvestment, TxnCommit, Publish, TxnTypeOK, TypeOK
  <2>11. call' \in [Calls -> CallState]
    <3>1. [call[c] EXCEPT !.pc = "committed", !.snap = NoSnapshot] \in CallState
      BY IdleType DEF CallState, TypeOK
    <3>2. call' = [call EXCEPT ![c] = [call[c] EXCEPT !.pc = "committed", !.snap = NoSnapshot]]
      BY <1>3 DEF CommitInvestment, Goto, TypeOK
    <3> QED BY <3>1, <3>2 DEF TypeOK
  <2> QED
    BY <1>3, <2>6, <2>7, <2>8, <2>9, <2>10, <2>11 DEF TypeOK, CommitInvestment
<1>4. ASSUME NEW c \in Calls, DuplicateKey(c)
      PROVE  TypeOK'
  BY <1>4, FinishType DEF TypeOK, DuplicateKey, dbVars, TxnTypeOK, TxnAbort, WorkingCalls, PriorResult
<1>5. ASSUME NEW c \in Calls, Refuse(c)
      PROVE  TypeOK'
  BY <1>5, FinishType DEF TypeOK, Refuse, dbVars, TxnTypeOK, TxnAbort
<1>6. ASSUME NEW c \in Calls, TransientError(c)
      PROVE  TypeOK'
  BY <1>6, NextTryType DEF TypeOK, TransientError, dbVars, TxnTypeOK, TxnAbort
<1>7. ASSUME NEW c \in Calls, CommitReplyLost(c)
      PROVE  TypeOK'
  BY <1>7, NextTryType DEF TypeOK, CommitReplyLost, dbVars, TxnTypeOK
<1>8. ASSUME NEW c \in Calls, Answer(c)
      PROVE  TypeOK'
  BY <1>8, FinishType DEF TypeOK, Answer, dbVars, TxnTypeOK, WorkingCalls
<1>9. ASSUME NEW c \in Calls, Crash(c)
      PROVE  TypeOK'
  BY <1>9, FinishType DEF TypeOK, Crash, dbVars, TxnTypeOK, TxnAbort
<1>10. ASSUME NEW p \in Pools, CreatePool(p)
       PROVE  TypeOK'
  BY <1>10 DEF TypeOK, CreatePool, PlainWrite, TxnTypeOK, Docs, PoolDoc
<1>11. ASSUME NEW u \in Users, NEW a \in Credits, CreditWallet(u, a)
       PROVE  TypeOK'
  <2>1. user' \in [Users -> WalletDoc] /\ credited' \in [Users -> Nat]
    BY <1>11 DEF TypeOK, CreditWallet, WalletDoc
  <2>2. TxnTypeOK'
    BY <1>11 DEF TypeOK, CreditWallet, PlainWrite, TxnTypeOK, Docs
  <2> QED BY <1>11, <2>1, <2>2 DEF TypeOK, CreditWallet
<1>12. CASE ExpireReservations
  BY <1>12, NothingExpires DEF TypeOK, TxnTypeOK
<1>13. CASE UNCHANGED vars
  BY <1>13 DEF TypeOK, vars, TxnTypeOK
<1> QED
  BY <1>1, <1>2, <1>3, <1>4, <1>5, <1>6, <1>7, <1>8, <1>9, <1>10, <1>11, <1>12, <1>13
     DEF Next, Progress

-----------------------------------------------------------------------------
\* A commit that is accepted finds the database as its snapshot was: that is
\* what makes its body one atomic step.
LEMMA CommitSeesTheDatabase ==
    ASSUME SoundInv, NEW c \in Calls, CommitInvestment(c)
    PROVE  LET u == call[c].user  p == call[c].pool  k == call[c].key  s == call[c].snap
           IN  /\ u \in Users /\ p \in Pools /\ k \in Keys /\ call[c].amount \in Amounts
               /\ s.user = user[u]
               /\ s.pool = pool[p]
               /\ s.invested = hasExistingInvestment(u, p)
               /\ reservation[u][k] = Absent
<1>1. call[c].pc = "txn" /\ WrittenBy(c) \cap missed[c] = {}
  BY DEF CommitInvestment, TxnCommit
<1>2. /\ <<"user", call[c].user>> \notin missed[c]
      /\ <<"pool", call[c].pool>> \notin missed[c]
      /\ <<"reservation", call[c].user, call[c].key>> \notin missed[c]
  BY <1>1 DEF WrittenBy
<1> QED BY <1>1, <1>2 DEF SoundInv, SnapshotsAgree, SnapshotAgrees, WorkingCalls,
                         CommitInvestment

\* What the four collections are after a commit.
LEMMA CommitEffect ==
    ASSUME SoundInv, NEW c \in Calls, CommitInvestment(c)
    PROVE  LET u == call[c].user  p == call[c].pool  a == call[c].amount  k == call[c].key
           IN  /\ u \in KycApproved /\ user[u].available >= a
               /\ PoolAccepts(p, pool[p], a) /\ pool[p] \in PoolDoc
               /\ user' = [user EXCEPT ![u] =
                     [available |-> user[u].available - a, held |-> user[u].held,
                      totalInvested |-> user[u].totalInvested + a]]
               /\ pool' = [pool EXCEPT ![p] =
                     [raised |-> pool[p].raised + a,
                      investorCount |-> pool[p].investorCount
                                          + IF hasExistingInvestment(u, p) THEN 0 ELSE 1,
                      status |-> IF pool[p].raised + a >= Target[p] THEN "FUNDED"
                                 ELSE pool[p].status]]
               /\ reservation' =
                     [reservation EXCEPT ![u][k] = [status |-> "SETTLED", amount |-> a]]
               /\ investment' = investment \cup
                     {[user |-> u, key |-> k, pool |-> p, amount |-> a,
                       units |-> calculateOwnership(a, Target[p])]}
BY CommitSeesTheDatabase DEF CommitInvestment, WalletCovers, PoolAccepts, SoundInv, TypeOK

\* Only a commit, a credit and the opening of a pool touch the collections.
LEMMA DatabaseSteps ==
    ASSUME SoundInv, [Next]_vars
    PROVE  \/ \E c \in Calls : CommitInvestment(c)
           \/ \E p \in Pools : CreatePool(p)
           \/ \E u \in Users, a \in Credits : CreditWallet(u, a)
           \/ UNCHANGED <<user, pool, reservation, investment, credited>>
<1>1. CASE ExpireReservations
  BY <1>1, NothingExpires DEF SoundInv
<1>2. CASE UNCHANGED vars
  BY <1>2 DEF vars
<1> QED
  BY <1>1, <1>2 DEF Next, Progress, Request, BeginAttempt, DuplicateKey, Refuse,
     TransientError, CommitReplyLost, Answer, Crash, dbVars

\* No reservation is ever visible that is not SETTLED: its other states live and
\* die inside of one transaction.
LEMMA NextOnlySettled == SoundInv /\ [Next]_vars => OnlySettledReservations'
<1> SUFFICES ASSUME SoundInv, [Next]_vars PROVE OnlySettledReservations'
  OBVIOUS
<1>1. ASSUME NEW c \in Calls, CommitInvestment(c) PROVE OnlySettledReservations'
  <2>1. PICK u \in Users, k \in Keys, a \in Amounts :
           reservation' = [reservation EXCEPT ![u][k] = [status |-> "SETTLED", amount |-> a]]
    BY <1>1, CommitSeesTheDatabase DEF CommitInvestment
  <2>2. \A v \in Users, l \in Keys : reservation'[v][l] =
           IF v = u /\ l = k THEN [status |-> "SETTLED", amount |-> a] ELSE reservation[v][l]
    BY <2>1 DEF SoundInv, TypeOK
  <2> QED BY <2>2 DEF SoundInv, OnlySettledReservations
<1> QED
  BY <1>1, DatabaseSteps DEF SoundInv, OnlySettledReservations, CreatePool, CreditWallet

\* No step oversubscribes a pool.
LEMMA NextPoolWithinTarget == IInv /\ [Next]_vars => PoolWithinTarget'
<1> SUFFICES ASSUME SoundInv, PoolWithinTarget, [Next]_vars PROVE PoolWithinTarget'
  BY DEF IInv
<1>1. ASSUME NEW c \in Calls, CommitInvestment(c) PROVE PoolWithinTarget'
  <2> SUFFICES ASSUME NEW q \in Pools, pool'[q] # Absent
               PROVE  /\ pool'[q].raised <= Target[q]
                      /\ pool'[q].status = "FUNDED" <=> pool'[q].raised = Target[q]
    BY DEF PoolWithinTarget
  <2>1. CASE q = call[c].pool
    <3>1. /\ pool[q].raised \in Nat /\ call[c].amount \in Nat /\ Target[q] \in Nat
          /\ pool[q].status = "OPEN"
          /\ Target[q] - pool[q].raised >= call[c].amount
      BY <1>1, <2>1, CommitEffect, CommitSeesTheDatabase, InvestmentAssumption
         DEF PoolDoc, PoolAccepts
    <3>2. /\ pool'[q].raised = pool[q].raised + call[c].amount
          /\ pool'[q].status = IF pool[q].raised + call[c].amount >= Target[q] THEN "FUNDED"
                               ELSE pool[q].status
      <4>1. \E n : pool' = [pool EXCEPT ![q] =
               [raised |-> pool[q].raised + call[c].amount, investorCount |-> n,
                status |-> IF pool[q].raised + call[c].amount >= Target[q] THEN "FUNDED"
                           ELSE pool[q].status]]
        BY <1>1, <2>1, CommitEffect
      <4> QED BY <4>1 DEF SoundInv, TypeOK
    <3> QED BY <3>1, <3>2
  <2>2. CASE q # call[c].pool
    BY <1>1, <2>2, CommitEffect DEF SoundInv, TypeOK, PoolWithinTarget
  <2> QED BY <2>1, <2>2
<1>2. ASSUME NEW p \in Pools, CreatePool(p) PROVE PoolWithinTarget'
  <2>1. \A q \in Pools : pool'[q] = IF q = p THEN [raised |-> 0, investorCount |-> 0,
                                                   status |-> "OPEN"]
                                    ELSE pool[q]
    BY <1>2 DEF CreatePool, SoundInv, TypeOK
  <2>2. \A q \in Pools : Target[q] \in Nat \ {0}
    BY InvestmentAssumption
  <2> QED BY <2>1, <2>2 DEF SoundInv, PoolWithinTarget
<1> QED BY <1>1, <1>2, DatabaseSteps DEF SoundInv, PoolWithinTarget, CreditWallet

\* No step makes or loses money.
LEMMA NextWalletConserved == SoundInv /\ [Next]_vars => WalletConserved'
<1> SUFFICES ASSUME SoundInv, [Next]_vars PROVE WalletConserved'
  OBVIOUS
<1>1. ASSUME NEW c \in Calls, CommitInvestment(c) PROVE WalletConserved'
  <2> SUFFICES ASSUME NEW v \in Users
               PROVE  /\ user'[v].available + user'[v].held + user'[v].totalInvested
                            = credited'[v]
                      /\ user'[v].held = 0
    BY DEF WalletConserved
  <2>1. user[v] \in WalletDoc /\ credited' = credited /\ call[c].amount \in Nat
    BY <1>1, CommitSeesTheDatabase, InvestmentAssumption
       DEF CommitInvestment, SoundInv, TypeOK
  <2>2. CASE v = call[c].user
    <3>1. user'[v] = [available |-> user[v].available - call[c].amount, held |-> user[v].held,
                      totalInvested |-> user[v].totalInvested + call[c].amount]
      BY <1>1, <2>2, CommitEffect DEF SoundInv, TypeOK
    <3> QED BY <2>1, <3>1 DEF SoundInv, WalletConserved, WalletDoc
  <2>3. CASE v # call[c].user
    BY <1>1, <2>1, <2>3, CommitEffect DEF SoundInv, TypeOK, WalletConserved
  <2> QED BY <2>2, <2>3
<1>2. ASSUME NEW u \in Users, NEW a \in Credits, CreditWallet(u, a) PROVE WalletConserved'
  BY <1>2, InvestmentAssumption DEF CreditWallet, SoundInv, TypeOK, WalletConserved, WalletDoc
<1> QED BY <1>1, <1>2, DatabaseSteps DEF SoundInv, WalletConserved, CreatePool

\* No step buys a second investment with one key.
LEMMA NextOneInvestment == SoundInv /\ [Next]_vars => OneInvestmentPerKey'
<1> SUFFICES ASSUME SoundInv, [Next]_vars PROVE OneInvestmentPerKey'
  OBVIOUS
<1>1. ASSUME NEW c \in Calls, CommitInvestment(c) PROVE OneInvestmentPerKey'
  <2> DEFINE u == call[c].user  k == call[c].key
             new == [user |-> u, key |-> k, pool |-> call[c].pool, amount |-> call[c].amount,
                     units |-> calculateOwnership(call[c].amount, Target[call[c].pool])]
  <2>1. /\ u \in Users /\ k \in Keys
        /\ investment' = investment \cup {new}
        /\ reservation[u][k] = Absent
        /\ \A v \in Users, l \in Keys : reservation'[v][l] =
              IF v = u /\ l = k THEN [status |-> "SETTLED", amount |-> call[c].amount]
              ELSE reservation[v][l]
    <3>1. u \in Users /\ k \in Keys /\ reservation[u][k] = Absent
      BY <1>1, CommitSeesTheDatabase
    <3>2. investment' = investment \cup {new}
      BY <1>1 DEF CommitInvestment
    <3>3. reservation' = [reservation EXCEPT ![u][k] =
                            [status |-> "SETTLED", amount |-> call[c].amount]]
      BY <1>1 DEF CommitInvestment
    <3> HIDE DEF new, u, k
    <3> QED BY <3>1, <3>2, <3>3 DEF SoundInv, TypeOK
  <2>2. [status |-> "SETTLED", amount |-> call[c].amount] # Absent
    <3>1. call[c].amount \in Nat
      BY <1>1, CommitSeesTheDatabase, InvestmentAssumption
    <3>2. [status |-> "SETTLED", amount |-> call[c].amount] \in ReservationDoc
      BY <3>1 DEF ReservationDoc
    <3> QED BY <3>2, InvestmentAssumption
  <2>3. \A i \in investment : ~(i.user = u /\ i.key = k)
    BY <2>1 DEF SoundInv, OneInvestmentPerKey
  <2>4. new.user = u /\ new.key = k
    OBVIOUS
  <2> HIDE DEF new, u, k
  <2>5. \A i, j \in investment' : i.user = j.user /\ i.key = j.key => i = j
    BY <2>1, <2>3, <2>4 DEF SoundInv, OneInvestmentPerKey
  <2>6. \A v \in Users, l \in Keys :
           (\E i \in investment' : i.user = v /\ i.key = l)
             <=> (reservation'[v][l] # Absent /\ reservation'[v][l].status = "SETTLED")
    BY <2>1, <2>2, <2>3, <2>4 DEF SoundInv, OneInvestmentPerKey
  <2> QED BY <2>5, <2>6 DEF OneInvestmentPerKey
<1>2. CASE UNCHANGED <<reservation, investment>>
  BY <1>2 DEF SoundInv, OneInvestmentPerKey
<1> QED BY <1>1, <1>2, DatabaseSteps DEF CreatePool, CreditWallet

\* What a step does to the handlers it is not a step of.
LEMMA OtherCalls ==
    ASSUME TypeOK, NEW c \in Calls, NEW d \in Calls, d # c,
           \/ \E u \in Users, p \in Pools, a \in Amounts, k \in Keys : Request(c, u, p, a, k)
           \/ Progress(c)
           \/ Crash(c)
    PROVE  call'[d] = call[d]
BY DEF TypeOK, Request, Progress, BeginAttempt, CommitInvestment, DuplicateKey, Refuse,
       TransientError, CommitReplyLost, Answer, Crash, Goto, Finish, NextTry

\* What a step does to its own handler.
LEMMA OwnCall ==
    ASSUME TypeOK, OnlySettledReservations, NEW c \in Calls
    PROVE  /\ \A u \in Users, p \in Pools, a \in Amounts, k \in Keys :
                Request(c, u, p, a, k) =>
                   /\ call'[c].user = u /\ call'[c].pool = p
                   /\ call'[c].amount = a /\ call'[c].key = k
                   /\ call'[c].pc = IF reservation[u][k] = Absent THEN "begin" ELSE "ok"
           /\ (DuplicateKey(c) /\ call[c].user \in Users /\ call[c].key \in Keys)
                => call'[c].pc \in {"ok", "error"}
           /\ Refuse(c) \/ Crash(c) => call'[c].pc \in {"error", "crashed"}
           /\ NextTry(c) => call'[c].pc \in {"begin", "error"}
           /\ BeginAttempt(c) => call'[c].pc = "txn"
           /\ CommitInvestment(c) => call'[c].pc = "committed"
           /\ Answer(c) => call'[c].pc = "ok"
           /\ /\ Progress(c)
              /\ call'[c].pc \notin {"error", "crashed"}
              => /\ call'[c].user = call[c].user /\ call'[c].key = call[c].key
                 /\ call'[c].pc # "ok" => /\ call'[c].pool = call[c].pool
                                          /\ call'[c].amount = call[c].amount
<1> USE DEF TypeOK
<1>1. \A u \in Users, p \in Pools, a \in Amounts, k \in Keys :
         Request(c, u, p, a, k) =>
            /\ call'[c].user = u /\ call'[c].pool = p
            /\ call'[c].amount = a /\ call'[c].key = k
            /\ call'[c].pc = IF reservation[u][k] = Absent THEN "begin" ELSE "ok"
  BY DEF Request, Idle, PriorResult, OnlySettledReservations
<1>2. Refuse(c) \/ Crash(c) => call'[c].pc \in {"error", "crashed"}
  BY DEF Refuse, Crash, Finish, Idle
<1>3. NextTry(c) => call'[c].pc \in {"begin", "error"}
  BY DEF NextTry, Finish, Idle, CallState
<1>4. BeginAttempt(c) => call'[c].pc = "txn"
  BY DEF BeginAttempt, CallState
<1>5. CommitInvestment(c) => call'[c].pc = "committed"
  BY DEF CommitInvestment, Goto, CallState
<1>6. Answer(c) => call'[c].pc = "ok"
  BY DEF Answer, Finish, Idle
<1>7. DuplicateKey(c) => call'[c].pc \in {"ok", "error"}
  BY DEF DuplicateKey, Finish, Idle, PriorResult
<1>8. /\ Progress(c)
      /\ call'[c].pc \notin {"error", "crashed"}
      => /\ call'[c].user = call[c].user /\ call'[c].key = call[c].key
         /\ call'[c].pc # "ok" => /\ call'[c].pool = call[c].pool
                                  /\ call'[c].amount = call[c].amount
  <2> DEFINE Kept == /\ call'[c].user = call[c].user /\ call'[c].key = call[c].key
                     /\ call'[c].pc # "ok" => /\ call'[c].pool = call[c].pool
                                              /\ call'[c].amount = call[c].amount
             Ended == call'[c].pc \in {"error", "crashed"}
  <2>1. BeginAttempt(c) => Kept
    BY DEF BeginAttempt, CallState
  <2>2. \A pc : Goto(c, pc) => Kept
    BY DEF Goto, CallState
  <2>3. \A pc \in {"ok", "error"} : Finish(c, pc) => Kept \/ Ended
    BY DEF Finish, Idle
  <2>4. NextTry(c) => Kept \/ Ended
    <3>1. CASE Finish(c, "error")
      BY <3>1, <2>3
    <3>2. CASE ~Finish(c, "error")
      BY <3>2 DEF NextTry, CallState
    <3> QED BY <3>1, <3>2
  <2> HIDE DEF Kept, Ended
  <2>5. Progress(c) => Kept \/ Ended
    BY <2>1, <2>2, <2>3, <2>4
       DEF Progress, CommitInvestment, DuplicateKey, Refuse, TransientError, CommitReplyLost,
           Answer, PriorResult
  <2> QED BY <2>5 DEF Kept, Ended
<1> QED BY <1>1, <1>2, <1>3, <1>4, <1>5, <1>6, <1>7, <1>8

\* A step is a step of one handler or of none.
LEMMA WhoSteps ==
    ASSUME SoundInv, [Next]_vars
    PROVE  \/ \E c \in Calls :
                 \/ \E u \in Users, p \in Pools, a \in Amounts, k \in Keys :
                       Request(c, u, p, a, k)
                 \/ Progress(c)
                 \/ Crash(c)
           \/ UNCHANGED call
BY DEF Next, vars, CreatePool, CreditWallet, ExpireReservations

\* Every step leaves a handler that is at work with the request it is working on.
LEMMA NextWorkingCalls == SoundInv /\ [Next]_vars => WorkingCalls'
<1> SUFFICES ASSUME SoundInv, [Next]_vars, NEW d \in Calls
             PROVE  /\ call'[d].pc \in {"begin", "txn", "committed", "ok"} =>
                          call'[d].user \in Users /\ call'[d].key \in Keys
                    /\ call'[d].pc \in {"begin", "txn", "committed"} =>
                          call'[d].pool \in Pools /\ call'[d].amount \in Amounts
  BY DEF WorkingCalls
<1>1. CASE call'[d] = call[d]
  BY <1>1 DEF SoundInv, WorkingCalls
<1>2. CASE \E u \in Users, p \in Pools, a \in Amounts, k \in Keys : Request(d, u, p, a, k)
  BY <1>2, OwnCall DEF SoundInv
<1>3. CASE Progress(d)
  <2>1. call[d].pc \in {"begin", "txn", "committed"}
    BY <1>3 DEF Progress, BeginAttempt, CommitInvestment, DuplicateKey, Refuse, TransientError,
                CommitReplyLost, Answer
  <2> QED BY <1>3, <2>1, OwnCall DEF SoundInv, WorkingCalls
<1>4. CASE Crash(d)
  BY <1>4, OwnCall DEF SoundInv
<1> QED BY <1>1, <1>2, <1>3, <1>4, WhoSteps, OtherCalls DEF SoundInv

\* The answers that were true stay true: no investment is ever removed.
LEMMA NextAnswers == SoundInv /\ [Next]_vars => AnswersAreTrue'
<1> SUFFICES ASSUME SoundInv, [Next]_vars, NEW d \in Calls, call'[d].pc \in {"ok", "committed"}
             PROVE  \E i \in investment' : i.user = call'[d].user /\ i.key = call'[d].key
  BY DEF AnswersAreTrue
<1>1. investment \subseteq investment'
  BY DatabaseSteps DEF CommitInvestment, CreatePool, CreditWallet
<1>2. CASE call'[d] = call[d]
  BY <1>1, <1>2 DEF SoundInv, AnswersAreTrue
<1>0. Progress(d) => call'[d].user = call[d].user /\ call'[d].key = call[d].key
  BY OwnCall DEF SoundInv
<1>3. ASSUME NEW u \in Users, NEW p \in Pools, NEW a \in Amounts, NEW k \in Keys,
             Request(d, u, p, a, k)
      PROVE  \E i \in investment' : i.user = call'[d].user /\ i.key = call'[d].key
  <2>1. call'[d].user = u /\ call'[d].key = k /\ reservation[u][k] # Absent
    BY <1>3, OwnCall DEF SoundInv
  <2> QED BY <1>1, <2>1 DEF SoundInv, OneInvestmentPerKey, OnlySettledReservations
<1>4. CASE CommitInvestment(d)
  <2>1. call'[d].user = call[d].user /\ call'[d].key = call[d].key
    BY <1>0, <1>4 DEF Progress
  <2> DEFINE new == [user |-> call[d].user, key |-> call[d].key, pool |-> call[d].pool,
                     amount |-> call[d].amount,
                     units |-> calculateOwnership(call[d].amount, Target[call[d].pool])]
  <2>2. new \in investment'
    BY <1>4 DEF CommitInvestment
  <2> QED BY <2>1, <2>2
<1>5. CASE DuplicateKey(d)
  <2>1. /\ call[d].user \in Users /\ call[d].key \in Keys
        /\ call'[d].user = call[d].user /\ call'[d].key = call[d].key
    BY <1>0, <1>5 DEF SoundInv, Progress, WorkingCalls, DuplicateKey
  <2>2. reservation[call[d].user][call[d].key] # Absent
    BY <1>5, <2>1 DEF DuplicateKey, SoundInv, SnapshotsAgree, SnapshotAgrees
  <2> QED BY <1>1, <2>1, <2>2 DEF SoundInv, OneInvestmentPerKey, OnlySettledReservations
<1>6. CASE Answer(d)
  <2>1. call[d].pc = "committed" /\ call'[d].user = call[d].user /\ call'[d].key = call[d].key
    BY <1>0, <1>6 DEF Progress, Answer
  <2> QED BY <1>1, <2>1 DEF SoundInv, AnswersAreTrue
<1>7. CASE BeginAttempt(d) \/ Refuse(d) \/ Crash(d) \/ TransientError(d) \/ CommitReplyLost(d)
  BY <1>7, OwnCall DEF SoundInv, TransientError, CommitReplyLost
<1> QED BY <1>2, <1>3, <1>4, <1>5, <1>6, <1>7, WhoSteps, OtherCalls DEF SoundInv, Progress

\* A snapshot goes stale only in the documents it is recorded to have missed.
LEMMA NextSnapshots == SoundInv /\ [Next]_vars => SnapshotsAgree'
<1> SUFFICES ASSUME SoundInv, [Next]_vars, NEW d \in Calls
             PROVE  SnapshotAgrees(d)'
  BY DEF SnapshotsAgree
<1> USE DEF SoundInv, TypeOK, TxnTypeOK
<1>0. SnapshotAgrees(d)
  BY DEF SnapshotsAgree
<1>1. ASSUME NEW c \in Calls, BeginAttempt(c) PROVE SnapshotAgrees(d)'
  <2>1. CASE d = c
    <3>1. /\ call'[d].user = call[d].user /\ call'[d].pool = call[d].pool
          /\ call'[d].key = call[d].key /\ call'[d].pc = "txn" /\ d \in open'
          /\ call'[d].snap = [user |-> user[call[d].user], pool |-> pool[call[d].pool],
                              reservation |-> reservation[call[d].user][call[d].key],
                              invested |-> hasExistingInvestment(call[d].user, call[d].pool)]
      BY <1>1, <2>1 DEF BeginAttempt, TxnBegin, CallState
    <3>2. user[call[d].user] # Absent
      BY <1>1, <2>1, InvestmentAssumption DEF BeginAttempt, WorkingCalls
    <3>3. call'[d].snap.invested
             = (\E i \in investment : i.user = call[d].user /\ i.pool = call[d].pool)
      <4>1. call'[d].snap.invested = hasExistingInvestment(call[d].user, call[d].pool)
        BY <3>1
      <4> QED BY <4>1 DEF hasExistingInvestment
    <3>4. call'[d].snap.invested
             = (\E i \in investment' : i.user = call'[d].user /\ i.pool = call'[d].pool)
      <4>1. investment' = investment
        BY <1>1 DEF BeginAttempt, dbVars
      <4> HIDE DEF SoundInv, TypeOK, TxnTypeOK
      <4>2. (\E i \in investment : i.user = call[d].user /\ i.pool = call[d].pool)
               <=> (\E i \in investment' : i.user = call'[d].user /\ i.pool = call'[d].pool)
        BY <3>1, <4>1
      <4> QED BY <2>1, <3>3, <4>2
    <3>5. /\ call'[d].snap.user = user'[call'[d].user]
          /\ call'[d].snap.user # Absent
          /\ call'[d].snap.pool = pool'[call'[d].pool]
          /\ call'[d].snap.reservation = reservation'[call'[d].user][call'[d].key]
      BY <1>1, <3>1, <3>2 DEF BeginAttempt, dbVars
    <3> QED BY <3>1, <3>4, <3>5 DEF SnapshotAgrees, hasExistingInvestment
  <2>2. CASE d # c
    <3>1. call'[d] = call[d]
      BY <1>1, <2>2, OtherCalls DEF Progress
    <3> QED BY <1>0, <1>1, <2>2, <3>1
            DEF BeginAttempt, TxnBegin, dbVars, SnapshotAgrees, hasExistingInvestment
  <2> QED BY <2>1, <2>2
<1>2. ASSUME NEW c \in Calls, CommitInvestment(c) PROVE SnapshotAgrees(d)'
  <2>1. CASE d = c
    BY <1>2, <2>1, OwnCall DEF CommitInvestment, TxnCommit, SnapshotAgrees
  <2>2. CASE d # c
    <3> DEFINE v == call[d].user  q == call[d].pool  l == call[d].key
    <3>1. call'[d] = call[d]
      BY <1>2, <2>2, OtherCalls DEF Progress
    <3>2. d \in open' <=> d \in open
      BY <1>2, <2>2 DEF CommitInvestment, TxnCommit
    <3>3. CASE call[d].pc # "txn"
      BY <1>0, <3>1, <3>2, <3>3 DEF SnapshotAgrees
    <3>4. CASE call[d].pc = "txn"
      <4>1. v \in Users /\ q \in Pools /\ l \in Keys
        BY <3>4 DEF WorkingCalls
      <4>2. missed'[d] = missed[d] \cup WrittenBy(c)
        BY <1>0, <1>2, <2>2, <3>4 DEF CommitInvestment, TxnCommit, Publish, SnapshotAgrees
      <4>3. <<"user", v>> \notin missed'[d] => user'[v] = user[v] /\ <<"user", v>> \notin missed[d]
        <5>1. <<"user", v>> \notin missed'[d] => v # call[c].user
          BY <4>2 DEF WrittenBy
        <5> QED BY <1>2, <4>1, <4>2, <5>1 DEF CommitInvestment
      <4>4. <<"pool", q>> \notin missed'[d] =>
               /\ pool'[q] = pool[q] /\ <<"pool", q>> \notin missed[d]
               /\ (\E i \in investment' : i.user = v /\ i.pool = q)
                     <=> (\E i \in investment : i.user = v /\ i.pool = q)
        <5>1. <<"pool", q>> \notin missed'[d] => q # call[c].pool
          BY <4>2 DEF WrittenBy
        <5>2. q # call[c].pool => pool'[q] = pool[q]
          BY <1>2, <4>1 DEF CommitInvestment
        <5>3. ASSUME q # call[c].pool
              PROVE  \A i : i.pool = q => (i \in investment' <=> i \in investment)
          <6>1. PICK new : new.pool = call[c].pool /\ investment' = investment \cup {new}
            BY <1>2 DEF CommitInvestment
          <6> QED BY <5>3, <6>1
        <5> QED
          <6> HIDE DEF v, q
          <6> QED BY <4>2, <5>1, <5>2, <5>3
      <4>5. <<"reservation", v, l>> \notin missed'[d] =>
               /\ reservation'[v][l] = reservation[v][l]
               /\ <<"reservation", v, l>> \notin missed[d]
        <5>1. <<"reservation", v, l>> \notin missed'[d] => ~(v = call[c].user /\ l = call[c].key)
          BY <4>2 DEF WrittenBy
        <5> QED BY <1>2, <4>1, <4>2, <5>1 DEF CommitInvestment
      <4>6. reservation[v][l] # Absent => reservation'[v][l] # Absent
        BY <1>2, <4>1, CommitSeesTheDatabase DEF CommitInvestment
      <4> QED
        BY <1>0, <3>1, <3>2, <3>4, <4>3, <4>4, <4>5, <4>6 DEF SnapshotAgrees, hasExistingInvestment
    <3> QED BY <3>3, <3>4
  <2> QED BY <2>1, <2>2
<1>3. ASSUME NEW p \in Pools, CreatePool(p) PROVE SnapshotAgrees(d)'
  <2>1. call[d].pc = "txn" => missed'[d] = missed[d] \cup {<<"pool", p>>}
    BY <1>0, <1>3 DEF CreatePool, PlainWrite, SnapshotAgrees
  <2>2. \A q \in Pools : q # p => pool'[q] = pool[q]
    BY <1>3 DEF CreatePool
  <2> QED BY <1>0, <1>3, <2>1, <2>2
          DEF CreatePool, PlainWrite, SnapshotAgrees, WorkingCalls, hasExistingInvestment
<1>4. ASSUME NEW u \in Users, NEW a \in Credits, CreditWallet(u, a) PROVE SnapshotAgrees(d)'
  <2>1. call[d].pc = "txn" => missed'[d] = missed[d] \cup {<<"user", u>>}
    BY <1>0, <1>4 DEF CreditWallet, PlainWrite, SnapshotAgrees
  <2>2. \A v \in Users : v # u => user'[v] = user[v]
    BY <1>4 DEF CreditWallet
  <2> QED BY <1>0, <1>4, <2>1, <2>2
          DEF CreditWallet, PlainWrite, SnapshotAgrees, WorkingCalls, hasExistingInvestment
<1>5. ASSUME NEW c \in Calls,
             DuplicateKey(c) \/ Refuse(c) \/ TransientError(c) \/ Crash(c)
      PROVE  SnapshotAgrees(d)'
  <2>1. /\ open' = open \ {c}
        /\ d # c => missed'[d] = missed[d]
        /\ UNCHANGED dbVars
    BY <1>5 DEF DuplicateKey, Refuse, TransientError, Crash, TxnAbort
  <2>2. CASE d = c
    <3>1. call'[d].pc # "txn"
      BY <1>5, <2>2, OwnCall DEF TransientError, DuplicateKey, WorkingCalls
    <3> QED BY <2>1, <2>2, <3>1 DEF SnapshotAgrees
  <2>3. CASE d # c
    <3>1. call'[d] = call[d]
      BY <1>5, <2>3, OtherCalls DEF Progress
    <3> QED BY <1>0, <2>1, <2>3, <3>1 DEF dbVars, SnapshotAgrees, hasExistingInvestment
  <2> QED BY <2>2, <2>3
<1>6. ASSUME NEW c \in Calls,
             \/ \E u \in Users, p \in Pools, a \in Amounts, k \in Keys : Request(c, u, p, a, k)
             \/ CommitReplyLost(c) \/ Answer(c)
      PROVE  SnapshotAgrees(d)'
  <2>1. UNCHANGED <<dbVars, open, missed>>
    BY <1>6 DEF Request, CommitReplyLost, Answer
  <2>2. CASE d = c
    <3>1. call[d].pc # "txn" /\ call'[d].pc # "txn"
      <4>1. CASE CommitReplyLost(d) \/ Answer(d)
        <5>1. call[d].pc = "committed"
          BY <4>1 DEF CommitReplyLost, Answer
        <5>2. call'[d].pc \in {"begin", "error", "ok"}
          BY <4>1, OwnCall DEF CommitReplyLost
        <5> QED BY <5>1, <5>2
      <4>2. ASSUME NEW u \in Users, NEW p \in Pools, NEW a \in Amounts, NEW k \in Keys,
                   Request(d, u, p, a, k)
            PROVE  call[d].pc # "txn" /\ call'[d].pc # "txn"
        <5>1. call[d].pc = "idle"
          BY <4>2 DEF Request
        <5>2. call'[d].pc = IF reservation[u][k] = Absent THEN "begin" ELSE "ok"
          BY <4>2, OwnCall
        <5> QED BY <5>1, <5>2
      <4> QED BY <1>6, <2>2, <4>1, <4>2
    <3> QED BY <1>0, <2>1, <3>1 DEF SnapshotAgrees
  <2>3. CASE d # c
    <3>1. call'[d] = call[d]
      BY <1>6, <2>3, OtherCalls DEF Progress
    <3> QED BY <1>0, <2>1, <3>1 DEF dbVars, SnapshotAgrees, hasExistingInvestment
  <2> QED BY <2>2, <2>3
<1>7. CASE UNCHANGED <<user, pool, reservation, investment, open, missed, call>>
  BY <1>0, <1>7 DEF SnapshotAgrees, hasExistingInvestment
<1>8. ExpireReservations \/ UNCHANGED vars
         => UNCHANGED <<user, pool, reservation, investment, open, missed, call>>
  BY NothingExpires DEF vars
<1> QED BY <1>1, <1>2, <1>3, <1>4, <1>5, <1>6, <1>7, <1>8 DEF Next, Progress

-----------------------------------------------------------------------------
\* The inductive invariant holds initially.
LEMMA InitIInv == Init => IInv
<1> SUFFICES ASSUME Init PROVE IInv
  OBVIOUS
<1>1. WorkingCalls /\ SnapshotsAgree /\ AnswersAreTrue
  BY DEF Init, TxnInit, Idle, WorkingCalls, SnapshotsAgree, SnapshotAgrees, AnswersAreTrue
<1>2. OnlySettledReservations /\ PoolWithinTarget /\ WalletConserved /\ OneInvestmentPerKey
  BY DEF Init, OnlySettledReservations, PoolWithinTarget, WalletConserved, OneInvestmentPerKey
<1> QED BY <1>1, <1>2, InitTypeOK DEF IInv, SoundInv

LEMMA NextSoundInv == SoundInv /\ [Next]_vars => SoundInv'
BY NextTypeOK, NextWorkingCalls, NextSnapshots, NextOnlySettled, NextWalletConserved,
   NextOneInvestment, NextAnswers DEF SoundInv

\* The inductive invariant: the properties, and what a snapshot is worth.
THEOREM Inductive == Spec => []IInv
<1>1. IInv /\ [Next]_vars => IInv'
  BY NextSoundInv, NextPoolWithinTarget DEF IInv
<1> QED BY <1>1, InitIInv, PTL DEF Spec

\* Every variable keeps its type.
THEOREM TypeCorrect == Spec => []TypeOK
<1>1. IInv => TypeOK
  BY DEF IInv, SoundInv
<1> QED BY <1>1, Inductive, PTL

\* No pool is oversubscribed, and it is FUNDED exactly when it is full.
THEOREM NoOversubscription == Spec => []PoolWithinTarget
<1>1. IInv => PoolWithinTarget
  BY DEF IInv
<1> QED BY <1>1, Inductive, PTL

\* No wallet gains or loses money but by a credit, and no hold is left behind.
THEOREM Conservation == Spec => []WalletConserved
<1>1. IInv => WalletConserved
  BY DEF IInv, SoundInv
<1> QED BY <1>1, Inductive, PTL

\* An idempotency key buys at most one investment.
THEOREM ExactlyOncePerKey == Spec => []OneInvestmentPerKey
<1>1. IInv => OneInvestmentPerKey
  BY DEF IInv, SoundInv
<1> QED BY <1>1, Inductive, PTL

\* A success that a client is told of is an investment that exists.
THEOREM TruthfulAnswers == Spec => []AnswersAreTrue
<1>1. IInv => AnswersAreTrue
  BY DEF IInv, SoundInv
<1> QED BY <1>1, Inductive, PTL

\* The service implements the atomic investment.
THEOREM Refinement == Spec => RefinesAtomicInvestment
<1>1. Init => Atomic!Init
  BY DEF Init, Atomic!Init
<1>2. SoundInv /\ [Next]_vars => [Atomic!Next]_(Atomic!invVars)
  <2> SUFFICES ASSUME SoundInv, [Next]_vars
               PROVE  [Atomic!Next]_(Atomic!invVars)
    OBVIOUS
  <2>1. ASSUME NEW c \in Calls, CommitInvestment(c) PROVE Atomic!Next
    <3> DEFINE u == call[c].user  p == call[c].pool  a == call[c].amount  k == call[c].key
    <3>1. u \in Users /\ p \in Pools /\ a \in Amounts /\ k \in Keys /\ reservation[u][k] = Absent
      BY <2>1, CommitSeesTheDatabase
    <3>2. Atomic!CanPay(u, user[u], a) /\ Atomic!HasRoom(p, pool[p], a)
      BY <2>1, CommitEffect DEF Atomic!CanPay, Atomic!HasRoom, PoolAccepts
    <3>3. user' = [user EXCEPT ![u].available = @ - a, ![u].totalInvested = @ + a]
      <4>1. user[u] \in WalletDoc
        BY <3>1 DEF SoundInv, TypeOK
      <4>2. user' = [user EXCEPT ![u] =
               [available |-> user[u].available - a, held |-> user[u].held,
                totalInvested |-> user[u].totalInvested + a]]
        BY <2>1, CommitEffect
      <4> QED BY <3>1, <4>1, <4>2 DEF SoundInv, TypeOK, WalletDoc
    <3>4. pool' = [pool EXCEPT ![p] =
                     Atomic!Raised(p, pool[p], a, ~Atomic!HasInvested(u, p))]
      BY <2>1, CommitEffect DEF Atomic!Raised, Atomic!HasInvested, hasExistingInvestment
    <3>5. /\ reservation' = [reservation EXCEPT ![u][k] = [status |-> "SETTLED", amount |-> a]]
          /\ investment' = investment \cup
               {[user |-> u, key |-> k, pool |-> p, amount |-> a,
                 units |-> Atomic!OwnershipUnits(p, a)]}
      BY <2>1, CommitEffect DEF Atomic!OwnershipUnits, calculateOwnership
    <3>6. Atomic!Invest(u, p, a, k)
      <4> HIDE DEF u, p, a, k
      <4> QED BY <3>1, <3>2, <3>3, <3>4, <3>5 DEF Atomic!Invest
    <3> QED BY <3>1, <3>6 DEF Atomic!Next
  <2>2. ASSUME NEW p \in Pools, CreatePool(p) PROVE Atomic!Next
    BY <2>2 DEF CreatePool, Atomic!Next, Atomic!CreatePool, Atomic!NewPool
  <2>3. ASSUME NEW u \in Users, NEW a \in Credits, CreditWallet(u, a) PROVE Atomic!Next
    BY <2>3 DEF CreditWallet, Atomic!Next, Atomic!Credit
  <2> QED BY <2>1, <2>2, <2>3, DatabaseSteps DEF Atomic!invVars
<1>3. IInv => SoundInv
  BY DEF IInv
<1> QED BY <1>1, <1>2, <1>3, Inductive, PTL DEF Spec, RefinesAtomicInvestment, Atomic!Spec

-----------------------------------------------------------------------------
\* What the properties say of the totals needs the sums to be of finite sets, no
\* investment in a pool that is not there yet, and how far rounding down can go.
Invested(p) == {i \in investment : i.pool = p}
TotalAmount(p) == SumFunction([i \in Invested(p) |-> i.amount])
TotalShare(p) == SumFunction([i \in Invested(p) |-> i.units])
TotalsOf(p) ==
    IF pool[p] = Absent THEN Invested(p) = {}
    ELSE /\ pool[p].raised = TotalAmount(p)
         /\ pool[p].investorCount = Cardinality({i.user : i \in Invested(p)})
         /\ TotalShare(p) \in Nat
         /\ Target[p] * TotalShare(p) <= pool[p].raised * TotalUnits
Totals == IsFiniteSet(investment) /\ \A p \in Pools : TotalsOf(p)

\* Rounding down takes nothing from the whole that was not there.
LEMMA ShareIsCovered ==
    ASSUME NEW a \in Nat, NEW t \in Nat \ {0}
    PROVE  t * calculateOwnership(a, t) <= a * TotalUnits
<1> DEFINE n == a * TotalUnits
<1>1. n \in Nat
  BY InvestmentAssumption
<1>2. t * (n \div t) <= n
  <2> HIDE DEF n
  <2> QED BY <1>1
<1> QED BY <1>2 DEF calculateOwnership

\* Shares that the target covers are no more than the whole.
LEMMA WholeIsEnough ==
    ASSUME NEW t \in Nat \ {0}, NEW raised \in Nat, NEW share \in Nat, NEW whole \in Nat,
           raised <= t, t * share <= raised * whole
    PROVE  share <= whole
<1>1. raised * whole <= t * whole
  OBVIOUS
<1>2. t * share <= t * whole
  BY <1>1
<1> QED
  BY <1>2

\* What an investment adds to the sums of its pool.
LEMMA InvestedSums ==
    ASSUME SoundInv, IsFiniteSet(investment), NEW c \in Calls, CommitInvestment(c),
           NEW p \in Pools, p = call[c].pool, NEW u, u = call[c].user, NEW a, a = call[c].amount
    PROVE  /\ IsFiniteSet(investment') /\ u \in Users /\ a \in Nat
           /\ TotalAmount(p)' = TotalAmount(p) + a
           /\ TotalShare(p)' = TotalShare(p) + calculateOwnership(a, Target[p])
           /\ Cardinality({i.user : i \in Invested(p)'})
                = Cardinality({i.user : i \in Invested(p)})
                    + IF hasExistingInvestment(u, p) THEN 0 ELSE 1
<1>1. u \in Users /\ a \in Amounts
  BY CommitSeesTheDatabase
<1>2. PICK new : /\ new = [user |-> u, key |-> call[c].key, pool |-> p, amount |-> a,
                           units |-> calculateOwnership(a, Target[p])]
                 /\ investment' = investment \cup {new}
  BY <1>1, CommitEffect
<1>3. a \in Nat /\ new.units \in Nat
  BY <1>1, <1>2, InvestmentAssumption, OwnershipIsNat
<1>4. new \notin investment
  <2>1. reservation[u][call[c].key] = Absent /\ call[c].key \in Keys
    BY <1>1, CommitSeesTheDatabase
  <2>2. ~ \E i \in investment : i.user = u /\ i.key = call[c].key
    BY <1>1, <2>1 DEF SoundInv, OneInvestmentPerKey
  <2>3. new.user = u /\ new.key = call[c].key
    BY <1>2
  <2> QED BY <2>2, <2>3
<1>5. PICK mine : mine = Invested(p)
  OBVIOUS
<1>6. /\ Invested(p)' = mine \cup {new} /\ new \notin mine /\ IsFiniteSet(mine)
      /\ \A i \in mine : i.amount \in Nat /\ i.units \in Nat
  <2>1. \A i \in investment : i.amount \in Nat /\ i.units \in Nat
    BY InvestmentAssumption DEF SoundInv, TypeOK
  <2>2. mine \subseteq investment
    BY <1>5 DEF Invested
  <2>3. IsFiniteSet(mine)
    BY <2>2, FS_Subset
  <2> QED BY <1>2, <1>4, <1>5, <2>1, <2>2, <2>3 DEF Invested
<1>7. /\ TotalAmount(p)' = TotalAmount(p) + a
      /\ TotalShare(p)' = TotalShare(p) + new.units
  <2>1. PICK f, g : /\ f = [i \in mine \cup {new} |-> i.amount]
                    /\ g = [i \in mine \cup {new} |-> i.units]
    OBVIOUS
  <2>2. /\ SumFunctionOnSet(f, mine \cup {new}) = f[new] + SumFunctionOnSet(f, mine)
        /\ SumFunctionOnSet(g, mine \cup {new}) = g[new] + SumFunctionOnSet(g, mine)
    BY <1>2, <1>3, <1>6, <2>1, SumAdd
  <2>3. /\ SumFunctionOnSet(f, mine) = SumFunctionOnSet([i \in mine |-> i.amount], mine)
        /\ SumFunctionOnSet(g, mine) = SumFunctionOnSet([i \in mine |-> i.units], mine)
    BY <1>6, <2>1, SumSame
  <2>4. /\ TotalAmount(p)' = SumFunctionOnSet(f, mine \cup {new})
        /\ TotalShare(p)' = SumFunctionOnSet(g, mine \cup {new})
    BY <1>6, <2>1 DEF TotalAmount, TotalShare, SumFunction
  <2>5. /\ TotalAmount(p) = SumFunctionOnSet([i \in mine |-> i.amount], mine)
        /\ TotalShare(p) = SumFunctionOnSet([i \in mine |-> i.units], mine)
    BY <1>5 DEF TotalAmount, TotalShare, SumFunction
  <2>6. f[new] = a /\ g[new] = new.units
    BY <1>2, <2>1
  <2>7. /\ SumFunctionOnSet(f, mine) \in Int /\ SumFunctionOnSet(g, mine) \in Int
    <3>1. \A i \in mine : f[i] \in Int /\ g[i] \in Int
      BY <1>6, <2>1
    <3> QED BY <1>6, <3>1, SumType
  <2> QED BY <1>3, <2>2, <2>3, <2>4, <2>5, <2>6, <2>7
<1>8. Cardinality({i.user : i \in Invested(p)'})
        = Cardinality({i.user : i \in mine}) + IF hasExistingInvestment(u, p) THEN 0 ELSE 1
  <2>1. PICK who : who = {i.user : i \in mine}
    OBVIOUS
  <2>2. {i.user : i \in Invested(p)'} = who \cup {u}
    BY <1>2, <1>6, <2>1
  <2>3. IsFiniteSet(who)
    <3>1. [i \in mine |-> i.user] \in Surjection(mine, who)
      BY <2>1 DEF Surjection
    <3> QED BY <1>6, <3>1, FS_Surjection
  <2>4. u \in who <=> hasExistingInvestment(u, p)
    BY <1>5, <2>1 DEF hasExistingInvestment, Invested
  <2>5. CASE u \in who
    <3>1. who \cup {u} = who
      BY <2>5
    <3>2. Cardinality(who) \in Nat
      BY <2>3, FS_CardinalityType
    <3>3. (IF hasExistingInvestment(u, p) THEN 0 ELSE 1) = 0
      BY <2>4, <2>5
    <3>4. Cardinality({i.user : i \in Invested(p)'}) = Cardinality(who)
      BY <2>2, <3>1
    <3>5. Cardinality(who) = Cardinality(who) + 0
      BY <3>2
    <3> QED BY <2>1, <3>3, <3>4, <3>5
  <2>6. CASE u \notin who
    <3>1. Cardinality(who \cup {u}) = Cardinality(who) + 1
      BY <2>3, <2>6, FS_AddElement
    <3>2. (IF hasExistingInvestment(u, p) THEN 0 ELSE 1) = 1
      BY <2>4, <2>6
    <3> QED BY <2>1, <2>2, <3>1, <3>2
  <2> QED BY <2>5, <2>6
<1>9. IsFiniteSet(investment')
  BY <1>2, FS_AddElement
<1> QED BY <1>1, <1>2, <1>3, <1>5, <1>7, <1>8, <1>9

\* The totals after an investment in a pool.
LEMMA InvestedTotals ==
    ASSUME SoundInv, Totals, NEW c \in Calls, CommitInvestment(c)
    PROVE  \A p \in Pools : p = call[c].pool => TotalsOf(p)'
<1> SUFFICES ASSUME NEW p \in Pools, p = call[c].pool PROVE TotalsOf(p)'
  OBVIOUS
<1>1. PICK u \in Users, a \in Amounts : u = call[c].user /\ a = call[c].amount
  BY CommitSeesTheDatabase
<1>2. PICK units : units = calculateOwnership(a, Target[p])
  OBVIOUS
<1>3. /\ a \in Nat /\ Target[p] \in Nat \ {0} /\ TotalUnits \in Nat
      /\ units \in Nat /\ Target[p] * units <= a * TotalUnits
  BY <1>2, InvestmentAssumption, OwnershipIsNat, ShareIsCovered
<1>4. PICK mine : mine = Invested(p)
  OBVIOUS
<1>5. /\ TotalAmount(p)' = TotalAmount(p) + a
      /\ TotalShare(p)' = TotalShare(p) + units
      /\ Cardinality({i.user : i \in Invested(p)'})
           = Cardinality({i.user : i \in mine}) + IF hasExistingInvestment(u, p) THEN 0 ELSE 1
  <2>1. IsFiniteSet(investment)
    BY DEF Totals
  <2> QED BY <1>1, <1>2, <1>4, <2>1, InvestedSums
<1>6. /\ pool[p] # Absent /\ pool[p] \in PoolDoc /\ TotalsOf(p)
      /\ pool'[p].raised = pool[p].raised + a
      /\ pool'[p].investorCount = pool[p].investorCount
                                    + IF hasExistingInvestment(u, p) THEN 0 ELSE 1
      /\ pool'[p] # Absent
  <2>1. pool[p] # Absent /\ pool[p] \in PoolDoc /\ TotalsOf(p)
    BY <1>1, CommitEffect DEF PoolAccepts, Totals
  <2>2. PICK doc : /\ doc = [raised |-> pool[p].raised + a,
                      investorCount |-> pool[p].investorCount
                                          + IF hasExistingInvestment(u, p) THEN 0 ELSE 1,
                      status |-> IF pool[p].raised + a >= Target[p] THEN "FUNDED"
                                 ELSE pool[p].status]
                   /\ pool' = [pool EXCEPT ![p] = doc]
    BY <1>1, CommitEffect
  <2>3. pool'[p] = doc
    BY <2>2 DEF SoundInv, TypeOK
  <2>4. doc \in PoolDoc
    BY <1>3, <2>1, <2>2 DEF PoolDoc
  <2> QED BY <2>1, <2>2, <2>3, <2>4, InvestmentAssumption
<1>7. /\ TotalAmount(p) = pool[p].raised /\ TotalShare(p) \in Nat
       /\ pool[p].investorCount = Cardinality({i.user : i \in mine})
       /\ Target[p] * TotalShare(p) <= pool[p].raised * TotalUnits
       /\ pool[p].raised \in Nat
  BY <1>4, <1>6 DEF TotalsOf, PoolDoc
<1>8. Target[p] * (TotalShare(p) + units) <= (pool[p].raised + a) * TotalUnits
  <2>1. ASSUME NEW t \in Nat, NEW x \in Nat, NEW y \in Nat, NEW r \in Nat, NEW b \in Nat,
               NEW w \in Nat, t * x <= r * w, t * y <= b * w
        PROVE  t * (x + y) <= (r + b) * w
    <3>1. t * (x + y) = t * x + t * y /\ (r + b) * w = r * w + b * w
      OBVIOUS
    <3> QED BY <2>1, <3>1
  <2> QED BY <1>3, <1>7, <2>1
<1>9. /\ TotalAmount(p)' = pool'[p].raised
       /\ pool'[p].investorCount = Cardinality({i.user : i \in Invested(p)'})
       /\ TotalShare(p)' \in Nat
       /\ Target[p] * TotalShare(p)' <= pool'[p].raised * TotalUnits
  BY <1>3, <1>5, <1>6, <1>7, <1>8
<1> QED BY <1>6, <1>9 DEF TotalsOf

\* No step takes the totals away from the investments they are of.
LEMMA NextTotals == SoundInv /\ Totals /\ [Next]_vars => Totals'
<1> SUFFICES ASSUME SoundInv, Totals, [Next]_vars PROVE Totals'
  OBVIOUS
<1>1. ASSUME NEW c \in Calls, CommitInvestment(c) PROVE Totals'
  <2>1. PICK new : investment' = investment \cup {new} /\ new.pool = call[c].pool
    <3>1. PICK new : /\ investment' = investment \cup {new}
                     /\ new = [user |-> call[c].user, key |-> call[c].key,
                               pool |-> call[c].pool, amount |-> call[c].amount,
                               units |-> calculateOwnership(call[c].amount,
                                                            Target[call[c].pool])]
      BY <1>1 DEF CommitInvestment
    <3>2. new.pool = call[c].pool
      BY <3>1
    <3> QED BY <3>1, <3>2
  <2>2. IsFiniteSet(investment')
    BY <2>1, FS_AddElement DEF Totals
  <2>3. ASSUME NEW p \in Pools, p # call[c].pool PROVE TotalsOf(p)'
    <3>1. Invested(p)' = Invested(p)
      BY <2>1, <2>3 DEF Invested
    <3>2. pool'[p] = pool[p]
      <4>1. \E doc : pool' = [pool EXCEPT ![call[c].pool] = doc]
        BY <1>1, CommitEffect
      <4> QED BY <2>3, <4>1 DEF SoundInv, TypeOK
    <3> QED BY <3>1, <3>2 DEF Totals, TotalsOf, TotalAmount, TotalShare
  <2> QED BY <1>1, <2>2, <2>3, InvestedTotals DEF Totals
<1>2. ASSUME NEW p \in Pools, CreatePool(p) PROVE Totals'
  <2>1. investment' = investment
    BY <1>2 DEF CreatePool
  <2>2. ASSUME NEW q \in Pools PROVE TotalsOf(q)'
    <3>1. Invested(q)' = Invested(q)
      BY <2>1 DEF Invested
    <3>2. CASE q # p
      <4>1. pool'[q] = pool[q]
        BY <1>2, <3>2 DEF CreatePool, SoundInv, TypeOK
      <4> QED BY <3>1, <4>1 DEF Totals, TotalsOf, TotalAmount, TotalShare
    <3>3. CASE q = p
      <4>1. pool'[q] = [raised |-> 0, investorCount |-> 0, status |-> "OPEN"]
        BY <1>2, <3>3 DEF CreatePool, SoundInv, TypeOK
      <4>2. Invested(q)' = {}
        BY <1>2, <3>1, <3>3 DEF CreatePool, Totals, TotalsOf
      <4>3. TotalAmount(q)' = 0 /\ TotalShare(q)' = 0
        <5>1. /\ TotalAmount(q)' = SumFunctionOnSet([i \in {} |-> i.amount], {})
              /\ TotalShare(q)' = SumFunctionOnSet([i \in {} |-> i.units], {})
          BY <4>2 DEF TotalAmount, TotalShare, SumFunction
        <5> QED BY <5>1, SumEmpty
      <4>4. {i.user : i \in Invested(q)'} = {} /\ Cardinality({}) = 0
        BY <4>2, FS_EmptySet
      <4>5. Target[q] * 0 <= 0 * TotalUnits
        BY InvestmentAssumption
      <4>6. pool'[q].raised = 0 /\ pool'[q].investorCount = 0
        BY <4>1
      <4> QED BY <4>2, <4>3, <4>4, <4>5, <4>6 DEF TotalsOf
    <3> QED BY <3>2, <3>3
  <2> QED BY <2>1, <2>2 DEF Totals
<1>3. CASE UNCHANGED <<pool, investment>>
  BY <1>3 DEF Totals, TotalsOf, TotalAmount, TotalShare, Invested
<1> QED BY <1>1, <1>2, <1>3, DatabaseSteps DEF CreditWallet

\* The totals kept on a pool are those of its investments, every investor is
\* counted once, and the shares do not exceed the whole, however many contributed.
THEOREM TotalsAgree == Spec => []PoolAgreesWithInvestments
<1>1. Init => Totals
  BY FS_EmptySet DEF Init, Totals, TotalsOf, Invested
<1>2. IInv /\ Totals => PoolAgreesWithInvestments
  <2> SUFFICES ASSUME IInv, Totals, NEW p \in Pools, pool[p] # Absent
               PROVE  /\ pool[p].raised = TotalAmount(p)
                      /\ pool[p].investorCount = Cardinality({i.user : i \in Invested(p)})
                      /\ TotalShare(p) <= TotalUnits
    BY DEF PoolAgreesWithInvestments, TotalAmount, TotalShare, Invested
  <2>1. TotalsOf(p)
    BY DEF Totals
  <2>2. pool[p].raised \in Nat /\ pool[p].raised <= Target[p]
    BY DEF IInv, SoundInv, TypeOK, PoolDoc, PoolWithinTarget
  <2>3. Target[p] \in Nat \ {0} /\ TotalUnits \in Nat
    BY InvestmentAssumption
  <2> QED BY <2>1, <2>2, <2>3, WholeIsEnough DEF TotalsOf
<1>3. IInv => SoundInv
  BY DEF IInv
<1> QED BY <1>1, <1>2, <1>3, NextTotals, Inductive, PTL DEF Spec

-----------------------------------------------------------------------------
\* The repair next to the investors.  What was scanned, found or proposed is of a
\* pool that is there, and what is proposed was the truth once.
PoolKnown(p) ==
    /\ scanned[p] # Absent \/ finding[p] \in {"OPEN", "FAILED"} \/ proposed[p] # Absent =>
          pool[p] # Absent
    /\ proposed[p] # Absent =>
          /\ proposed[p].raised <= ActualTotals(p).raised
          /\ proposed[p].investorCount <= ActualTotals(p).investorCount

RepairInv == /\ SoundInv
             /\ RepairTypeOK
             /\ IsFiniteSet(investment)
             /\ NeverOverstated
             /\ \A p \in Pools : PoolKnown(p)

\* The totals of finitely many investments are natural numbers.
LEMMA ActualFacts ==
    ASSUME TypeOK, IsFiniteSet(investment), NEW p \in Pools
    PROVE  /\ ActualTotals(p).raised = TotalAmount(p)
           /\ ActualTotals(p).investorCount = Cardinality({i.user : i \in Invested(p)})
           /\ ActualTotals(p) \in TotalsDoc
           /\ ActualTotals(p).raised \in Nat /\ ActualTotals(p).investorCount \in Nat
<1>1. PICK mine, who, f : /\ mine = Invested(p) /\ who = {i.user : i \in mine}
                          /\ f = [i \in mine |-> i.amount]
  OBVIOUS
<1>2. ActualTotals(p) = [raised |-> TotalAmount(p),
                         investorCount |-> Cardinality({i.user : i \in Invested(p)})]
  BY DEF ActualTotals, TotalAmount, Invested
<1>3. mine \subseteq investment /\ IsFiniteSet(mine)
  BY <1>1, FS_Subset DEF Invested
<1>4. TotalAmount(p) \in Nat
  <2>1. \A i \in mine : f[i] \in Int /\ f[i] >= 0
    <3>1. \A i \in investment : i.amount \in Nat
      BY InvestmentAssumption DEF TypeOK
    <3> QED BY <1>1, <1>3, <3>1
  <2>2. SumFunctionOnSet(f, mine) \in Int /\ SumFunctionOnSet(f, mine) >= 0
    BY <1>3, <2>1, SumType
  <2>3. TotalAmount(p) = SumFunctionOnSet(f, mine)
    BY <1>1 DEF TotalAmount, SumFunction
  <2> QED BY <2>2, <2>3
<1>5. Cardinality(who) \in Nat
  <2>1. [i \in mine |-> i.user] \in Surjection(mine, who)
    BY <1>1 DEF Surjection
  <2> QED BY <1>3, <2>1, FS_Surjection, FS_CardinalityType
<1>6. PICK t, n : t = TotalAmount(p) /\ n = Cardinality({i.user : i \in Invested(p)})
  OBVIOUS
<1>7. t \in Nat /\ n \in Nat /\ ActualTotals(p) = [raised |-> t, investorCount |-> n]
  BY <1>1, <1>2, <1>4, <1>5, <1>6
<1> QED BY <1>6, <1>7 DEF TotalsDoc

LEMMA ActualNumbers ==
    TypeOK /\ IsFiniteSet(investment) =>
        \A p \in Pools : ActualTotals(p).raised \in Nat /\ ActualTotals(p).investorCount \in Nat
BY ActualFacts

LEMMA ActualNumbersAfter ==
    TypeOK' /\ IsFiniteSet(investment') =>
        \A p \in Pools : ActualTotals(p)'.raised \in Nat /\ ActualTotals(p)'.investorCount \in Nat
<1>1. (TypeOK /\ IsFiniteSet(investment) =>
        \A p \in Pools : ActualTotals(p).raised \in Nat /\ ActualTotals(p).investorCount \in Nat)'
  BY ActualNumbers, PTL
<1> QED BY <1>1

\* An investor's step makes no total smaller, and none claim too much.
LEMMA InvestorStep ==
    ASSUME SoundInv, IsFiniteSet(investment), NeverOverstated, [Next]_vars
    PROVE  /\ IsFiniteSet(investment') /\ NeverOverstated'
           /\ \A p \in Pools :
                /\ pool[p] # Absent => pool'[p] # Absent
                /\ ActualTotals(p).raised <= ActualTotals(p)'.raised
                /\ ActualTotals(p).investorCount <= ActualTotals(p)'.investorCount
<1> DEFINE Grows(p) == /\ pool[p] # Absent => pool'[p] # Absent
                       /\ ActualTotals(p).raised <= ActualTotals(p)'.raised
                       /\ ActualTotals(p).investorCount <= ActualTotals(p)'.investorCount
           Fair(p) == pool[p] # Absent =>
                        /\ pool[p].raised <= ActualTotals(p).raised
                        /\ pool[p].investorCount <= ActualTotals(p).investorCount
<1>1. TypeOK /\ TypeOK'
  BY NextSoundInv DEF SoundInv
<1>2. ASSUME NEW p \in Pools
      PROVE  ActualTotals(p).raised \in Nat /\ ActualTotals(p).investorCount \in Nat
  BY <1>1, ActualFacts
<1>3. ASSUME NEW p \in Pools, pool'[p] = pool[p], Invested(p)' = Invested(p)
      PROVE  Grows(p) /\ Fair(p)'
  <2>1. ActualTotals(p)' = ActualTotals(p)
    BY <1>3 DEF ActualTotals, Invested
  <2> QED BY <1>2, <1>3, <2>1 DEF NeverOverstated
<1>4. ASSUME NEW c \in Calls, CommitInvestment(c)
      PROVE  IsFiniteSet(investment') /\ \A p \in Pools : Grows(p) /\ Fair(p)'
  <2>1. PICK q \in Pools : q = call[c].pool
    BY <1>4, CommitSeesTheDatabase
  <2>2. PICK u, a : u = call[c].user /\ a = call[c].amount
    OBVIOUS
  <2>3. PICK one \in 0..1 : one = IF hasExistingInvestment(u, q) THEN 0 ELSE 1
    OBVIOUS
  <2>4. /\ IsFiniteSet(investment') /\ a \in Nat
        /\ TotalAmount(q)' = TotalAmount(q) + a
        /\ Cardinality({i.user : i \in Invested(q)'})
              = Cardinality({i.user : i \in Invested(q)}) + one
    BY <1>4, <2>1, <2>2, <2>3, InvestedSums
  <2>5. /\ pool[q] \in PoolDoc /\ pool[q] # Absent
        /\ pool'[q] # Absent
        /\ pool'[q].raised = pool[q].raised + a
        /\ pool'[q].investorCount = pool[q].investorCount + one
        /\ \A p \in Pools \ {q} : pool'[p] = pool[p]
    <3>1. pool[q] \in PoolDoc /\ pool[q] # Absent
      BY <1>4, <2>1, CommitEffect DEF PoolAccepts
    <3>2. PICK doc : /\ doc = [raised |-> pool[q].raised + a,
                              investorCount |-> pool[q].investorCount + one,
                              status |-> IF pool[q].raised + a >= Target[q] THEN "FUNDED"
                                         ELSE pool[q].status]
                     /\ pool' = [pool EXCEPT ![q] = doc]
      BY <1>4, <2>1, <2>2, <2>3, CommitEffect
    <3>3. doc \in PoolDoc
      BY <2>3, <2>4, <3>1, <3>2 DEF PoolDoc
    <3>4. pool'[q] = doc /\ \A p \in Pools \ {q} : pool'[p] = pool[p]
      BY <1>1, <3>2 DEF TypeOK
    <3> QED BY <3>1, <3>2, <3>3, <3>4, InvestmentAssumption
  <2>6. Grows(q) /\ Fair(q)'
    <3>1. /\ ActualTotals(q).raised = TotalAmount(q) /\ ActualTotals(q).raised \in Nat
          /\ ActualTotals(q).investorCount = Cardinality({i.user : i \in Invested(q)})
          /\ ActualTotals(q).investorCount \in Nat
      BY <1>1, ActualFacts
    <3>2. /\ ActualTotals(q)'.raised = TotalAmount(q)'
          /\ ActualTotals(q)'.investorCount = Cardinality({i.user : i \in Invested(q)'})
      BY DEF ActualTotals, TotalAmount, Invested
    <3>3. pool[q].raised \in Nat /\ pool[q].investorCount \in Nat
      BY <2>5 DEF PoolDoc
    <3>4. Fair(q)
      BY DEF NeverOverstated
    <3> QED BY <2>3, <2>4, <2>5, <3>1, <3>2, <3>3, <3>4
  <2>7. ASSUME NEW p \in Pools, p # q PROVE Grows(p) /\ Fair(p)'
    <3>1. PICK new : new.pool = q /\ investment' = investment \cup {new}
      BY <1>4, <2>1 DEF CommitInvestment
    <3>2. Invested(p)' = Invested(p)
      BY <2>7, <3>1 DEF Invested
    <3> QED BY <1>3, <2>5, <2>7, <3>2
  <2> HIDE DEF Grows, Fair
  <2> QED BY <2>4, <2>6, <2>7
<1>5. ASSUME NEW q \in Pools, CreatePool(q)
      PROVE  IsFiniteSet(investment') /\ \A p \in Pools : Grows(p) /\ Fair(p)'
  <2>1. /\ investment' = investment /\ pool[q] = Absent
        /\ pool'[q] = [raised |-> 0, investorCount |-> 0, status |-> "OPEN"]
        /\ \A p \in Pools \ {q} : pool'[p] = pool[p]
    BY <1>1, <1>5 DEF CreatePool, TypeOK
  <2>2. \A p \in Pools : Invested(p)' = Invested(p) /\ ActualTotals(p)' = ActualTotals(p)
    BY <2>1 DEF Invested, ActualTotals
  <2>3. Grows(q) /\ Fair(q)'
    BY <1>2, <2>1, <2>2
  <2>4. ASSUME NEW p \in Pools, p # q PROVE Grows(p) /\ Fair(p)'
    BY <1>3, <2>1, <2>2, <2>4
  <2> HIDE DEF Grows, Fair
  <2> QED BY <2>1, <2>3, <2>4
<1>6. /\ IsFiniteSet(investment') /\ \A p \in Pools : Grows(p) /\ Fair(p)'
  <2>1. CASE UNCHANGED <<pool, investment>>
    <3>1. \A p \in Pools : Invested(p)' = Invested(p) /\ pool'[p] = pool[p]
      BY <2>1 DEF Invested
    <3>2. \A p \in Pools : Grows(p) /\ Fair(p)'
      BY <1>3, <3>1
    <3> QED BY <2>1, <3>2
  <2>2. ASSUME NEW u \in Users, NEW a \in Credits, CreditWallet(u, a)
        PROVE  UNCHANGED <<pool, investment>>
    BY <2>2 DEF CreditWallet
  <2> HIDE DEF Grows, Fair
  <2> QED BY <1>4, <1>5, <2>1, <2>2, DatabaseSteps
<1> QED BY <1>6 DEF NeverOverstated

\* A repair takes nothing from a handler: whoever had read the pool has missed it.
LEMMA ApplySound ==
    ASSUME RepairInv, NEW p \in Pools, ApplyRepair(p)
    PROVE  /\ SoundInv' /\ pool' \in [Pools -> PoolDoc \cup {Absent}]
           /\ pool'[p] # Absent /\ pool'[p].raised = proposed[p].raised
           /\ pool'[p].investorCount = proposed[p].investorCount
           /\ \A q \in Pools \ {p} : pool'[q] = pool[q]
           /\ UNCHANGED <<user, reservation, investment, call, credited, scanned>>
<1>1. /\ SoundInv /\ RepairTypeOK /\ TypeOK /\ PoolKnown(p) /\ TxnTypeOK
  BY DEF RepairInv, SoundInv, TypeOK
<1>2. /\ proposed[p] \in TotalsDoc /\ pool[p] \in PoolDoc
  BY <1>1 DEF ApplyRepair, PoolKnown, RepairTypeOK, TypeOK
<1>3. PICK doc : doc = [pool[p] EXCEPT !.raised = proposed[p].raised,
                                       !.investorCount = proposed[p].investorCount]
  OBVIOUS
<1>4. /\ doc \in PoolDoc /\ doc.raised = proposed[p].raised
      /\ doc.investorCount = proposed[p].investorCount
  BY <1>2, <1>3 DEF PoolDoc, TotalsDoc
<1>5. pool' = [pool EXCEPT ![p] = doc]
  BY <1>1, <1>3 DEF ApplyRepair, TypeOK
<1>6. /\ pool' \in [Pools -> PoolDoc \cup {Absent}] /\ pool'[p] = doc
      /\ \A q \in Pools \ {p} : pool'[q] = pool[q]
  BY <1>1, <1>4, <1>5 DEF TypeOK
<1>7. doc # Absent
  BY <1>4, InvestmentAssumption
<1>8. /\ UNCHANGED <<user, reservation, investment, call, credited, scanned>>
      /\ PlainWrite({<<"pool", p>>})
  BY DEF ApplyRepair
<1>9. /\ open' = open /\ missed' \in [Calls -> SUBSET Docs]
      /\ \A c \in open : missed'[c] = missed[c] \cup {<<"pool", p>>}
  BY <1>1, <1>8 DEF PlainWrite, TxnTypeOK, Docs
<1>10. TypeOK'
  BY <1>1, <1>6, <1>8, <1>9 DEF TypeOK, TxnTypeOK
<1>11. ASSUME NEW c \in Calls PROVE SnapshotAgrees(c)'
  <2>1. SnapshotAgrees(c) /\ call' = call /\ open' = open
    BY <1>1, <1>8, <1>9 DEF SoundInv, SnapshotsAgree
  <2>2. \A u, q : hasExistingInvestment(u, q)' <=> hasExistingInvestment(u, q)
    BY <1>8 DEF hasExistingInvestment
  <2>3. CASE call[c].pc = "txn"
    <3>1. call[c].pool \in Pools /\ c \in open
      BY <1>1, <2>1, <2>3 DEF SoundInv, WorkingCalls, SnapshotAgrees
    <3>2. /\ missed'[c] = missed[c] \cup {<<"pool", p>>}
          /\ <<"pool", call[c].pool>> \notin missed'[c] =>
                pool'[call[c].pool] = pool[call[c].pool] /\ <<"pool", call[c].pool>> \notin missed[c]
      BY <1>6, <1>9, <3>1
    <3> QED BY <1>8, <2>1, <2>2, <2>3, <3>1, <3>2 DEF SnapshotAgrees
  <2>4. CASE call[c].pc # "txn"
    BY <2>1, <2>4 DEF SnapshotAgrees
  <2> QED BY <2>3, <2>4
<1>12. /\ WorkingCalls' /\ OnlySettledReservations' /\ WalletConserved'
       /\ OneInvestmentPerKey' /\ AnswersAreTrue'
  BY <1>1, <1>8 DEF SoundInv, WorkingCalls, OnlySettledReservations, WalletConserved,
                    OneInvestmentPerKey, AnswersAreTrue
<1> QED BY <1>4, <1>6, <1>7, <1>8, <1>10, <1>11, <1>12 DEF SoundInv, SnapshotsAgree

LEMMA RepairInitInv == RepairInit => RepairInv
<1> SUFFICES ASSUME RepairInit PROVE RepairInv
  OBVIOUS
<1>1. Init /\ SoundInv
  BY InitIInv DEF RepairInit, IInv
<1>2. investment = {} /\ \A p \in Pools : pool[p] = Absent
  BY <1>1 DEF Init
<1>3. IsFiniteSet(investment) /\ NeverOverstated
  BY <1>2, FS_EmptySet DEF NeverOverstated
<1>4. RepairTypeOK
  BY <1>1 DEF RepairInit, RepairTypeOK, SoundInv, Finding
<1>5. \A p \in Pools : PoolKnown(p)
  BY DEF RepairInit, PoolKnown
<1> QED BY <1>1, <1>3, <1>4, <1>5 DEF RepairInv

\* Only ScanPools, ScanInvestments, PreviewRepair, FailRepair and ApplyRepair are the
\* repair's: the rest of RepairNext is the investors', and InvestorStep speaks of it.
LEMMA RepairStep == RepairInv /\ [RepairNext]_<<vars, repairVars>> => RepairInv'
<1> SUFFICES ASSUME RepairInv, [RepairNext]_<<vars, repairVars>> PROVE RepairInv'
  OBVIOUS
<1>1. /\ SoundInv /\ RepairTypeOK /\ TypeOK /\ IsFiniteSet(investment) /\ NeverOverstated
      /\ \A p \in Pools : PoolKnown(p)
  BY DEF RepairInv, SoundInv
<1>2. ASSUME [Next]_vars
      PROVE  /\ SoundInv' /\ TypeOK' /\ IsFiniteSet(investment') /\ NeverOverstated'
             /\ \A p \in Pools :
                  /\ pool[p] # Absent => pool'[p] # Absent
                  /\ ActualTotals(p).raised <= ActualTotals(p)'.raised
                  /\ ActualTotals(p).investorCount <= ActualTotals(p)'.investorCount
  BY <1>1, <1>2, NextSoundInv, InvestorStep DEF SoundInv
<1>3. ASSUME NEW p \in Pools
      PROVE  /\ ActualTotals(p) \in TotalsDoc
             /\ ActualTotals(p).raised \in Nat /\ ActualTotals(p).investorCount \in Nat
  BY <1>1, ActualFacts
<1>4. CASE [Next]_vars /\ UNCHANGED repairVars
  <2>1. UNCHANGED <<scanned, finding, proposed>>
    BY <1>4 DEF repairVars
  <2>2. RepairTypeOK'
    BY <1>1, <1>2, <1>4, <2>1 DEF RepairTypeOK
  <2>3. ASSUME NEW p \in Pools PROVE PoolKnown(p)'
    <3>1. /\ PoolKnown(p) /\ (pool[p] # Absent => pool'[p] # Absent)
          /\ ActualTotals(p).raised <= ActualTotals(p)'.raised
          /\ ActualTotals(p).investorCount <= ActualTotals(p)'.investorCount
      BY <1>1, <1>2, <1>4
    <3>2. proposed[p] # Absent => proposed[p].raised \in Nat /\ proposed[p].investorCount \in Nat
      BY <1>1 DEF RepairTypeOK, TotalsDoc
    <3>3. ActualTotals(p)'.raised \in Nat /\ ActualTotals(p)'.investorCount \in Nat
      <4>1. IsFiniteSet(investment') /\ TypeOK'
        BY <1>2, <1>4
      <4> QED BY <4>1, ActualNumbersAfter
    <3> QED BY <1>3, <2>1, <3>1, <3>2, <3>3 DEF PoolKnown
  <2> QED BY <1>2, <1>4, <2>2, <2>3 DEF RepairInv
<1>5. ASSUME UNCHANGED vars, RepairTypeOK', \A p \in Pools : PoolKnown(p)'
      PROVE  RepairInv'
  BY <1>2, <1>5 DEF RepairInv
<1>6. ASSUME UNCHANGED vars
      PROVE  pool' = pool /\ investment' = investment /\ TypeOK'
             /\ \A p \in Pools : ActualTotals(p)' = ActualTotals(p)
  <2>1. pool' = pool /\ investment' = investment
    BY <1>6 DEF vars
  <2> QED BY <1>2, <1>6, <2>1 DEF ActualTotals
<1>7. CASE ScanPools
  <2>1. UNCHANGED vars /\ scanned' = pool /\ UNCHANGED <<finding, proposed>>
    BY <1>7 DEF ScanPools
  <2>2. RepairTypeOK'
    BY <1>1, <1>6, <2>1 DEF RepairTypeOK, TypeOK
  <2>3. \A p \in Pools : PoolKnown(p)'
    BY <1>1, <1>6, <2>1 DEF PoolKnown
  <2> QED BY <1>5, <2>1, <2>2, <2>3
<1>8. ASSUME NEW p \in Pools, ScanInvestments(p) PROVE RepairInv'
  <2>1. /\ UNCHANGED vars /\ proposed' = proposed /\ scanned[p] # Absent
        /\ scanned' = [scanned EXCEPT ![p] = Absent]
        /\ finding' = [finding EXCEPT ![p] = "OPEN"] \/ finding' = finding
    BY <1>1, <1>8 DEF ScanInvestments, RepairTypeOK
  <2>2. RepairTypeOK'
    BY <1>1, <1>6, <2>1 DEF RepairTypeOK, Finding
  <2>3. \A q \in Pools : PoolKnown(q)'
    BY <1>1, <1>6, <2>1 DEF PoolKnown, RepairTypeOK
  <2> QED BY <1>5, <2>1, <2>2, <2>3
<1>9. ASSUME NEW p \in Pools, PreviewRepair(p) PROVE RepairInv'
  <2>1. /\ UNCHANGED vars /\ UNCHANGED <<scanned, finding>> /\ finding[p] \in {"OPEN", "FAILED"}
        /\ proposed' = [proposed EXCEPT ![p] = ActualTotals(p)]
    BY <1>9 DEF PreviewRepair
  <2>2. RepairTypeOK'
    BY <1>1, <1>3, <1>6, <2>1 DEF RepairTypeOK
  <2>3. \A q \in Pools : PoolKnown(q)'
    BY <1>1, <1>3, <1>6, <2>1 DEF PoolKnown, RepairTypeOK
  <2> QED BY <1>5, <2>1, <2>2, <2>3
<1>10. ASSUME NEW p \in Pools, FailRepair(p) PROVE RepairInv'
  <2>1. /\ UNCHANGED vars /\ scanned' = scanned /\ proposed[p] # Absent
        /\ finding' = [finding EXCEPT ![p] = "FAILED"]
        /\ proposed' = [proposed EXCEPT ![p] = Absent]
    BY <1>10 DEF FailRepair
  <2>2. RepairTypeOK'
    BY <1>1, <1>6, <2>1 DEF RepairTypeOK, Finding
  <2>3. \A q \in Pools : PoolKnown(q)'
    BY <1>1, <1>6, <2>1 DEF PoolKnown, RepairTypeOK
  <2> QED BY <1>5, <2>1, <2>2, <2>3
<1>11. ASSUME NEW p \in Pools, ApplyRepair(p) PROVE RepairInv'
  <2>1. /\ SoundInv' /\ TypeOK' /\ pool' \in [Pools -> PoolDoc \cup {Absent}]
        /\ pool'[p] # Absent /\ pool'[p].raised = proposed[p].raised
        /\ pool'[p].investorCount = proposed[p].investorCount
        /\ \A q \in Pools \ {p} : pool'[q] = pool[q]
        /\ investment' = investment /\ scanned' = scanned
    BY <1>11, ApplySound DEF SoundInv
  <2>2. /\ finding' = [finding EXCEPT ![p] = "REPAIRED"] /\ proposed[p] # Absent
        /\ proposed' = [proposed EXCEPT ![p] = Absent]
    BY <1>11 DEF ApplyRepair
  <2>3. \A q \in Pools : ActualTotals(q)' = ActualTotals(q)
    BY <2>1 DEF ActualTotals
  <2>4. RepairTypeOK'
    BY <1>1, <2>1, <2>2 DEF RepairTypeOK, Finding
  <2>5. \A q \in Pools : PoolKnown(q)'
    BY <1>1, <2>1, <2>2, <2>3 DEF PoolKnown, RepairTypeOK
  <2>6. ASSUME NEW q \in Pools, pool'[q] # Absent
        PROVE  /\ pool'[q].raised <= ActualTotals(q)'.raised
               /\ pool'[q].investorCount <= ActualTotals(q)'.investorCount
    <3>1. CASE q = p
      BY <1>1, <2>1, <2>2, <2>3, <3>1 DEF PoolKnown
    <3>2. CASE q # p
      BY <1>1, <2>1, <2>3, <2>6, <3>2 DEF NeverOverstated
    <3> QED BY <3>1, <3>2
  <2>7. NeverOverstated'
    BY <2>6 DEF NeverOverstated
  <2>8. IsFiniteSet(investment')
    BY <1>1, <2>1
  <2> QED BY <2>1, <2>4, <2>5, <2>7, <2>8 DEF RepairInv
<1>12. CASE UNCHANGED <<vars, repairVars>>
  BY <1>4, <1>12
<1> QED BY <1>4, <1>7, <1>8, <1>9, <1>10, <1>11, <1>12 DEF RepairNext

\* The inductive invariant of the repair: what it proposes was the truth once, and the
\* investors' handlers know what they knew without it.
THEOREM RepairInductive == RepairSpec => []RepairInv
BY RepairInitInv, RepairStep, PTL DEF RepairSpec

\* Whatever a repair does to the totals of a pool, no money is made or lost by it.
THEOREM RepairKeepsWallets == RepairSpec => []WalletConserved
<1>1. RepairInv => WalletConserved
  BY DEF RepairInv, SoundInv
<1> QED BY <1>1, RepairInductive, PTL

\* A key still buys at most one investment when repairs run next to the handlers, and
\* a handler that is made to try again by a repair does not buy another.
THEOREM RepairKeepsKeys == RepairSpec => []OneInvestmentPerKey
<1>1. RepairInv => OneInvestmentPerKey
  BY DEF RepairInv, SoundInv
<1> QED BY <1>1, RepairInductive, PTL

\* Nobody is told of an investment that a repair's conflict has undone.
THEOREM RepairKeepsAnswers == RepairSpec => []AnswersAreTrue
<1>1. RepairInv => AnswersAreTrue
  BY DEF RepairInv, SoundInv
<1> QED BY <1>1, RepairInductive, PTL

\* The repair that writes stale totals (the finding on RepairIsSafe) can only make a
\* pool claim too little, never money or investors that it does not have.
THEOREM RepairUnderstates == RepairSpec => []NeverOverstated
<1>1. RepairInv => NeverOverstated
  BY DEF RepairInv
<1> QED BY <1>1, RepairInductive, PTL
=============================================================================
