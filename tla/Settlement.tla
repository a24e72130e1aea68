----------------------------- MODULE Settlement -----------------------------
(***************************************************************************)
(* Settlement records and the balance buckets of the users they belong to  *)
(* (lib/settlement/settlement-service.ts, state-machine.ts, config.ts and  *)
(* the operators' route app/api/admin/settlement/timeline/route.ts).       *)
(*                                                                         *)
(* A record is looked up and inserted without a unique index.  Every later *)
(* change is a transaction that reads the record and its user and writes   *)
(* both; it is not retried.  An operator is one execution of the route's   *)
(* handler, or of a caller of initiateSettlement.  Module StellarIndexer   *)
(* adds the workers that confirm records from what they see on the chain.  *)
(***************************************************************************)
EXTENDS Integers, FiniteSets, FiniteSetsExt, Functions

CONSTANTS Operators,       \* handlers at work at the same time
          Workers,         \* executions of the indexer's sync
          Records,         \* settlementIds
          Refs,            \* providerReferences
          Users,
          UserOf,          \* by reference
          Amount,          \* by reference
          Threshold,       \* by reference: finalityThreshold
          WalletFunding,   \* the references whose paymentType is wallet_funding
          AutoExpire,      \* the references whose rail has autoExpireOnTimeout
          InitialRecords,  \* the records there are at first
          Absent

State == {"initiated", "provider-pending", "observed", "provisionally_credited",
          "confirmed", "reversed", "disputed", "failed", "expired"}
Pending == {"initiated", "provider-pending", "observed", "provisionally_credited"}

SettlementDoc == [ref : Refs, state : State, count : Nat, stuck : BOOLEAN]
FundsDoc == [pending : Nat, available : Nat, held : Nat, reversed : Nat]
JournalDoc == [available : Nat, held : Nat, pending : Nat]
Snapshot == [record : SettlementDoc, funds : FundsDoc]
OperatorState == [pc : {"idle", "insert", "txn", "sweep"},
                  ref : Refs \cup {Absent}, rec : Records \cup {Absent},
                  target : State \cup {Absent}, todo : SUBSET Records,
                  snap : Snapshot \cup {Absent}]

Docs == {<<"settlement", r>> : r \in Records} \cup {<<"user", u>> : u \in Users}

ASSUME SettlementAssumption ==
    /\ IsFiniteSet(Records) /\ Operators \cap Workers = {}
    /\ UserOf \in [Refs -> Users] /\ Amount \in [Refs -> Nat \ {0}]
    /\ Threshold \in [Refs -> Nat \ {0}]
    /\ WalletFunding \subseteq Refs /\ AutoExpire \subseteq Refs
    /\ InitialRecords \in [Records -> SettlementDoc \cup {Absent}]
    /\ Absent \notin SettlementDoc \cup JournalDoc \cup Snapshot

\* Nothing was reversed yet.  No code moves a record to one of the other two.
ASSUME NothingReversed ==
    \A r \in Records : InitialRecords[r] # Absent =>
        InitialRecords[r].state \notin {"reversed", "disputed", "provisionally_credited"}

VARIABLES settlement,  \* SettlementRecord by settlementId
          funds,       \* the four balances of a User
          journal,     \* what the reversal Transaction of a record says it took
          spent,       \* what a user has spent of the available balance
          open, missed, \* MongoDB's transactions
          operator

settlementVars == <<settlement, funds, journal, spent, open, missed, operator>>

INSTANCE SnapshotTransactions WITH Txns <- Operators \cup Workers

-----------------------------------------------------------------------------
LesserOf(a, b) == IF a <= b THEN a ELSE b
Less(a, b) == IF a > b THEN a - b ELSE 0

\* VALID_TRANSITIONS.
Valid(from, to) ==
    CASE from = "initiated" ->
           to \in {"provider-pending", "observed", "provisionally_credited", "confirmed",
                   "failed", "expired"}
      [] from = "provider-pending" ->
           to \in {"observed", "provisionally_credited", "confirmed", "failed", "expired"}
      [] from = "observed" -> to \in {"provisionally_credited", "confirmed", "failed", "expired"}
      [] from = "provisionally_credited" -> to \in {"confirmed", "reversed", "failed"}
      [] from = "confirmed" -> to \in {"reversed", "disputed"}
      [] from = "disputed" -> to \in {"confirmed", "reversed"}
      [] from \in {"reversed", "failed", "expired"} -> FALSE

\* executeReversalJournal takes the amount from the available balance, then
\* from the held one and at last from the pending one.  Today its AuditLog has no
\* targetType, which the schema asks for, and the transition is rolled back (Fail); the
\* model lets it commit as well, for the day when it does.
Taken(f, a) ==
    LET available == LesserOf(f.available, a)
        held      == LesserOf(f.held, a - available)
    IN  [available |-> available, held |-> held,
         pending |-> LesserOf(f.pending, a - available - held)]

Reversal(f, a) ==
    [pending   |-> f.pending - Taken(f, a).pending,
     available |-> f.available - Taken(f, a).available,
     held      |-> f.held - Taken(f, a).held,
     reversed  |-> f.reversed + a]

\* What a transition does to the user's balances: only a wallet funding moves
\* them, and the reversal of anything.
FundsAfter(snap, target) ==
    LET f == snap.funds  x == snap.record.ref  a == Amount[x]
        released == IF snap.record.state \in Pending THEN Less(f.pending, a) ELSE f.pending
    IN  IF target = "reversed" THEN Reversal(f, a)
        ELSE IF x \notin WalletFunding THEN f
        ELSE CASE target = "confirmed" ->
                    [f EXCEPT !.pending = released, !.available = @ + a]
               [] target = "disputed" ->
                    [f EXCEPT !.available = Less(@, a), !.held = @ + LesserOf(f.available, a)]
               [] target \in {"failed", "expired"} -> [f EXCEPT !.pending = released]
               [] OTHER -> f

SnapshotOf(r) == [record |-> settlement[r], funds |-> funds[UserOf[settlement[r].ref]]]

-----------------------------------------------------------------------------
\* transitionSettlementState, called by an operator or by a worker t that has
\* taken its snapshot of record r.  A save of an unchanged user writes nothing.
WrittenMutant(r, snap, target) ==            \* the user is saved outside of the session
    {<<"settlement", r>>}
Written(r, snap, target) ==
    {<<"settlement", r>>}
      \cup IF FundsAfter(snap, target) = snap.funds THEN {}
           ELSE {<<"user", UserOf[snap.record.ref]>>}

TransitionRecord(t, r, snap, target, count) ==
    /\ snap.record.state # target
    /\ Valid(snap.record.state, target)
    /\ TxnCommit(t, Written(r, snap, target))
    /\ settlement' = [settlement EXCEPT ![r] = [snap.record EXCEPT !.state = target,
                                                  !.count = count, !.stuck = FALSE]]
    /\ funds' = IF FundsAfter(snap, target) = snap.funds THEN funds
                ELSE [funds EXCEPT ![UserOf[snap.record.ref]] = FundsAfter(snap, target)]
    /\ journal' = IF target = "reversed"
                  THEN [journal EXCEPT ![r] = Taken(snap.funds, Amount[snap.record.ref])]
                  ELSE journal

\* A record that is already there is returned as it is: not even the number of
\* confirmations is written.
AlreadyThere(t, snap, target) ==
    /\ snap.record.state = target
    /\ TxnCommit(t, {})
    /\ UNCHANGED <<settlement, funds, journal>>

InvalidTransition(t, snap, target) ==
    /\ snap.record.state # target
    /\ ~Valid(snap.record.state, target)
    /\ TxnAbort(t)
    /\ UNCHANGED <<settlement, funds, journal>>

-----------------------------------------------------------------------------
Idle == [pc |-> "idle", ref |-> Absent, rec |-> Absent, target |-> Absent,
         todo |-> {}, snap |-> Absent]
At(o, pc) == operator[o].pc = pc

\* The end of one transition: a sweep goes on with its next record.
Continue(o) ==
    operator' = [operator EXCEPT ![o] = [Idle EXCEPT
                    !.pc = IF operator[o].todo = {} THEN "idle" ELSE "sweep",
                    !.todo = operator[o].todo]]
Stop(o) == operator' = [operator EXCEPT ![o] = Idle]

\* initiateSettlement looks for a record of the reference; one that is there is
\* returned as alreadyExists.
LookUp(o, x) ==
    /\ At(o, "idle")
    /\ \A r \in Records : settlement[r] # Absent => settlement[r].ref # x
    /\ operator' = [operator EXCEPT ![o].pc = "insert", ![o].ref = x]
    /\ UNCHANGED <<settlement, funds, journal, spent, open, missed>>

\* It inserts one under a random settlementId, and counts the amount as pending.
Insert(o) ==
    LET x == operator[o].ref
    IN  /\ At(o, "insert")
        /\ \E r \in Records :
              /\ settlement[r] = Absent
              /\ settlement' = [settlement EXCEPT ![r] = [ref |-> x, state |-> "initiated",
                                                            count |-> 0, stuck |-> FALSE]]
              /\ PlainWrite({<<"settlement", r>>}
                              \cup IF x \in WalletFunding THEN {<<"user", UserOf[x]>>} ELSE {})
        /\ funds' = IF x \in WalletFunding
                    THEN [funds EXCEPT ![UserOf[x]].pending = @ + Amount[x]] ELSE funds
        /\ Stop(o)
        /\ UNCHANGED <<journal, spent>>

\* The route's actions: FORCE_CONFIRM, POST_REVERSAL, MARK_EXPIRED and
\* RETRY_VERIFICATION.
OperatorTargets == {"confirmed", "reversed", "expired", "provider-pending"}

Operate(o, r, target) ==
    /\ At(o, "idle") /\ settlement[r] # Absent
    /\ target \in OperatorTargets
    /\ TxnBegin(o)
    /\ operator' = [operator EXCEPT ![o].pc = "txn", ![o].rec = r, ![o].target = target,
                                    ![o].snap = SnapshotOf(r)]
    /\ UNCHANGED <<settlement, funds, journal, spent>>

Commit(o) ==
    LET p == operator[o]
    IN  /\ At(o, "txn")
        /\ \/ TransitionRecord(o, p.rec, p.snap, p.target, p.snap.record.count)
           \/ AlreadyThere(o, p.snap, p.target)
        /\ Continue(o)
        /\ UNCHANGED spent

\* An invalid transition is thrown, and ends a sweep as well.
Refuse(o) ==
    /\ At(o, "txn")
    /\ InvalidTransition(o, operator[o].snap, operator[o].target)
    /\ Stop(o)
    /\ UNCHANGED spent

\* A WriteConflict, a lost connection or the death of the process.
Fail(o) ==
    /\ operator[o].pc \in {"insert", "txn", "sweep"}
    /\ TxnAbort(o)
    /\ Stop(o)
    /\ UNCHANGED <<settlement, funds, journal, spent>>

\* evaluateFinalityTimeouts reads the pending records and goes through them.
Sweep(o) ==
    LET active == {r \in Records : settlement[r] # Absent /\ settlement[r].state \in Pending}
    IN  /\ At(o, "idle") /\ active # {}
        /\ operator' = [operator EXCEPT ![o].pc = "sweep", ![o].todo = active]
        /\ UNCHANGED <<settlement, funds, journal, spent, open, missed>>

\* The next record is not late; or it is, and it is marked as stuck by a save of
\* what the sweep has read, or expired where the rail says so.
SweepNext(o) ==
    \E r \in operator[o].todo :
        LET rest == operator[o].todo \ {r}
            p == [Idle EXCEPT !.pc = IF rest = {} THEN "idle" ELSE "sweep", !.todo = rest]
        IN  /\ At(o, "sweep")
            /\ \/ /\ operator' = [operator EXCEPT ![o] = p]
                  /\ UNCHANGED <<settlement, open, missed>>
               \/ /\ settlement[r].ref \notin AutoExpire
                  /\ settlement' = [settlement EXCEPT ![r].stuck = TRUE]
                  /\ PlainWrite({<<"settlement", r>>})
                  /\ operator' = [operator EXCEPT ![o] = p]
               \/ /\ settlement[r].ref \in AutoExpire
                  /\ TxnBegin(o)
                  /\ operator' = [operator EXCEPT ![o] = [p EXCEPT
                                    !.pc = "txn", !.rec = r, !.target = "expired",
                                    !.snap = SnapshotOf(r)]]
                  /\ UNCHANGED settlement
            /\ UNCHANGED <<funds, journal, spent>>

\* The user spends from the available balance (module PoolInvestment).
Spend(u) ==
    /\ funds[u].available > 0
    /\ funds' = [funds EXCEPT ![u].available = @ - 1]
    /\ spent' = [spent EXCEPT ![u] = @ + 1]
    /\ PlainWrite({<<"user", u>>})
    /\ UNCHANGED <<settlement, journal, operator>>

-----------------------------------------------------------------------------
\* What the references' records are worth in a given set of states.
Counts(doc, u, S) == /\ doc # Absent /\ doc.state \in S
                     /\ doc.ref \in WalletFunding /\ UserOf[doc.ref] = u
Worth(u, S) ==
    SumFunction([r \in Records |->
                    IF Counts(settlement[r], u, S) THEN Amount[settlement[r].ref] ELSE 0])

SettlementInit ==
    /\ settlement = InitialRecords
    /\ funds = [u \in Users |-> [pending |-> Worth(u, Pending), available |-> Worth(u, {"confirmed"}),
                                 held |-> 0, reversed |-> 0]]
    /\ journal = [r \in Records |-> Absent]
    /\ spent = [u \in Users |-> 0]
    /\ TxnInit
    /\ operator = [o \in Operators |-> Idle]

SettlementNext ==
    \/ \E o \in Operators, x \in Refs : LookUp(o, x)
    \/ \E o \in Operators, r \in Records, s \in State : Operate(o, r, s)
    \/ \E o \in Operators : \/ Insert(o)
                            \/ Commit(o)
                            \/ Refuse(o)
                            \/ Fail(o)
                            \/ Sweep(o)
                            \/ SweepNext(o)
    \/ \E u \in Users : Spend(u)

-----------------------------------------------------------------------------
SettlementTypeOK ==
    /\ settlement \in [Records -> SettlementDoc \cup {Absent}]
    /\ funds \in [Users -> FundsDoc]
    /\ journal \in [Records -> JournalDoc \cup {Absent}]
    /\ spent \in [Users -> Nat]
    /\ TxnTypeOK
    /\ operator \in [Operators -> OperatorState]

TakenFrom(u) ==
    SumFunction([r \in Records |->
                    IF journal[r] # Absent /\ UserOf[settlement[r].ref] = u
                    THEN journal[r].available ELSE 0])

\* A wallet funding is credited once, whichever of the indexer, operators and
\* sweeps race for it, and taken back once: what a user has, has spent and has
\* been taken from again is what the settlements confirmed for this user are
\* worth.  Amounts that are still pending cannot be spent.  "Taken back once" is
\* about a reversal that commits, see Taken.
WalletAgrees ==
    \A u \in Users :
        funds[u].available + spent[u] + TakenFrom(u) = Worth(u, {"confirmed", "reversed"})
=============================================================================
