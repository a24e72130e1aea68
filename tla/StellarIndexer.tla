--------------------------- MODULE StellarIndexer ---------------------------
(***************************************************************************)
(* The Stellar indexer (lib/stellar/indexer.ts) with the settlements that  *)
(* it confirms.                                                            *)
(*                                                                         *)
(* The chain is the sequence of operations 1..Last that Horizon returns    *)
(* after a cursor, at most Limit of them at a time.  A worker is one       *)
(* execution of sync, which an administrator's request starts.  It takes   *)
(* a lease on the stream's cursor document, which it never gives back, and *)
(* works on when the lease has expired; the lease's token is looked at     *)
(* only when the cursor is saved.                                          *)
(***************************************************************************)
EXTENDS Settlement

CONSTANTS Last,        \* how many operations the chain has
          Limit,       \* operations of one page
          Hashes,      \* transaction hashes
          TxOf,        \* the transaction that an operation is part of
          HashOf,      \* the transaction that pays a reference, or Absent
          Foreign,     \* operations of another network or contract
          Processes,   \* of the server: a sync's workerId is its process's pid
          MaxFaults    \* bound: what goes wrong in the workers' surroundings, and leases
                       \* that are taken from a worker of the same process

Operations == 1..Last
WorkerState == [pc : {"idle", "load", "raw", "event", "match", "begin", "txn", "mark",
                      "quarantine", "contiguous", "save"},
                from : 0..Last, at : 0..Last + 1, to : 0..Last,
                rec : Records \cup {Absent}, count : Nat, snap : Snapshot \cup {Absent}]
RawStatus == {"received", "projected", "dead_letter"}
NoLease == [token |-> Absent, owner |-> Absent]
LeaseDoc == [token : Workers, owner : Processes \cup {Absent}] \cup {NoLease}

ASSUME IndexerAssumption ==
    /\ Last \in Nat /\ Limit \in Nat \ {0} /\ MaxFaults \in Nat
    /\ TxOf \in [Operations -> Hashes] /\ HashOf \in [Refs -> Hashes \cup {Absent}]
    /\ Foreign \subseteq Operations
    /\ Absent \notin Hashes \cup RawStatus \cup Workers \cup Processes

\* Confirmations are counted by the indexer alone, and it has yet to begin.
ASSUME NothingCounted ==
    \A r \in Records : InitialRecords[r] # Absent => InitialRecords[r].count = 0

VARIABLES cursor,      \* StellarIndexerCursor.cursor
          lease,       \* its leaseToken, by the worker that drew it, and its leaseOwner
                       \* until leaseExpiresAt
          raw,         \* StellarRawEvent.status by rawEventKey
          indexed,     \* the operations that have a StellarIndexedEvent
          deadLetters, \* the rawEventKeys that have a StellarDeadLetterEvent
          worker, faults

indexVars == <<cursor, lease, raw, indexed, deadLetters>>
vars == <<settlementVars, indexVars, worker, faults>>

\* rawEventKey: Horizon's operations carry neither a ledger nor an index, so
\* that the operations of one transaction have one key.
RawKey(n) == TxOf[n]

-----------------------------------------------------------------------------
IdleWorker == [pc |-> "idle", from |-> 0, at |-> 0, to |-> 0, rec |-> Absent,
               count |-> 0, snap |-> Absent]
WorkerAt(w, pc) == worker[w].pc = pc
GotoStep(w, pc) == worker' = [worker EXCEPT ![w].pc = pc]
EndSync(w) == worker' = [worker EXCEPT ![w] = IdleWorker]

\* The operations of the page that the worker has fetched.
PageEnd(w) == LesserOf(worker[w].from + Limit, Last)

\* On to the page's next operation, or to the cursor.
NextOperation(w) ==
    LET n == worker[w].at + 1
    IN  worker' = [worker EXCEPT ![w] = [IdleWorker EXCEPT
                      !.pc = IF n <= PageEnd(w) THEN "raw" ELSE "contiguous",
                      !.from = worker[w].from, !.at = n]]

\* acquireLease in a sync that process p serves: there is no lease, an expired one, or
\* one of the same process.  When it is refused the upsert fails on the document's key,
\* and so does the sync.  That a sync takes the lease from another one at work is
\* bounded like the faults.
AcquireLease(w, p) ==
    /\ WorkerAt(w, "idle")
    /\ lease.owner \in {p, Absent}
    /\ lease' = [token |-> w, owner |-> p]
    /\ IF lease.owner = Absent \/ WorkerAt(lease.token, "idle") THEN UNCHANGED faults
       ELSE faults < MaxFaults /\ faults' = faults + 1
    /\ GotoStep(w, "load")
    /\ UNCHANGED <<settlementVars, cursor, raw, indexed, deadLetters>>

\* loadCursor, and the page of operations after it.
LoadCursor(w) ==
    /\ WorkerAt(w, "load")
    /\ IF cursor = Last THEN EndSync(w)
       ELSE worker' = [worker EXCEPT ![w].pc = "raw", ![w].from = cursor, ![w].at = cursor + 1]
    /\ UNCHANGED <<settlementVars, indexVars, faults>>

\* A foreign operation is rejected.  persistRawEnvelope keeps any other one, if
\* it is not there; a refusal by the unique index is no error.
PersistRaw(w) ==
    LET n == worker[w].at
    IN  /\ WorkerAt(w, "raw")
        /\ \/ /\ n \in Foreign
              /\ GotoStep(w, "quarantine")
              /\ UNCHANGED raw
           \/ /\ n \notin Foreign
              /\ raw' = [raw EXCEPT ![RawKey(n)] = IF @ = Absent THEN "received" ELSE @]
              /\ GotoStep(w, "event")
        /\ UNCHANGED <<settlementVars, cursor, lease, indexed, deadLetters, faults>>

IndexEventMutant(w) ==                       \* a duplicate is matched again
    /\ WorkerAt(w, "event")
    /\ indexed' = indexed \cup {worker[w].at}
    /\ GotoStep(w, "match")
    /\ UNCHANGED <<settlementVars, cursor, lease, raw, deadLetters, faults>>
IndexEventStopMutant(w) ==                   \* a duplicate is not marked as projected
    LET n == worker[w].at
    IN  /\ WorkerAt(w, "event")
        /\ IF n \in indexed THEN NextOperation(w) ELSE GotoStep(w, "match")
        /\ indexed' = indexed \cup {n}
        /\ UNCHANGED <<settlementVars, cursor, lease, raw, deadLetters, faults>>

\* persistEvent inserts the event.  A duplicate has been indexed before, and is
\* only marked.
IndexEvent(w) ==
    LET n == worker[w].at
    IN  /\ WorkerAt(w, "event")
        /\ IF n \in indexed THEN GotoStep(w, "mark") ELSE GotoStep(w, "match")
        /\ indexed' = indexed \cup {n}
        /\ UNCHANGED <<settlementVars, cursor, lease, raw, deadLetters, faults>>

\* Its look-up of the settlement that the operation pays, outside of the
\* transaction that will confirm it.  A reference that has two records gets any.
MatchSettlement(w) ==
    LET paid == {r \in Records : /\ settlement[r] # Absent
                                 /\ HashOf[settlement[r].ref] = TxOf[worker[w].at]}
    IN  /\ WorkerAt(w, "match")
        /\ \/ /\ paid = {} \/ \E r \in paid : settlement[r].state = "confirmed"
              /\ GotoStep(w, "mark")
           \/ \E r \in paid :
              /\ settlement[r].state # "confirmed"
              /\ worker' = [worker EXCEPT ![w].pc = "begin", ![w].rec = r,
                                          ![w].count = settlement[r].count + 1]
        /\ UNCHANGED <<settlementVars, indexVars, faults>>

BeginTransition(w) ==
    /\ WorkerAt(w, "begin")
    /\ TxnBegin(w)
    /\ worker' = [worker EXCEPT ![w].pc = "txn", ![w].snap = SnapshotOf(worker[w].rec)]
    /\ UNCHANGED <<settlement, funds, journal, spent, operator, indexVars, faults>>

Target(w) == IF worker[w].count >= Threshold[worker[w].snap.record.ref]
             THEN "confirmed" ELSE "observed"

CommitTransition(w) ==
    /\ WorkerAt(w, "txn")
    /\ \/ TransitionRecord(w, worker[w].rec, worker[w].snap, Target(w), worker[w].count)
       \/ AlreadyThere(w, worker[w].snap, Target(w))
    /\ GotoStep(w, "mark")
    /\ UNCHANGED <<spent, operator, indexVars, faults>>

\* The transition is not allowed, or meets a WriteConflict.
TransitionThrows(w) ==
    /\ WorkerAt(w, "txn")
    /\ \/ /\ InvalidTransition(w, worker[w].snap, Target(w))
       \/ /\ Written(worker[w].rec, worker[w].snap, Target(w)) \cap missed[w] # {}
          /\ TxnAbort(w)
          /\ UNCHANGED <<settlement, funds, journal>>
    /\ GotoStep(w, "quarantine")
    /\ UNCHANGED <<spent, operator, indexVars, faults>>

\* markProjected, even when the operation has been quarantined before.
MarkProjected(w) ==
    LET key == RawKey(worker[w].at)
    IN  /\ WorkerAt(w, "mark")
        /\ raw' = [raw EXCEPT ![key] = IF @ = Absent THEN @ ELSE "projected"]
        /\ NextOperation(w)
        /\ UNCHANGED <<settlementVars, cursor, lease, indexed, deadLetters, faults>>

\* quarantineDeadLetter, even when the operation has been projected before.
QuarantineDeadLetter(w) ==
    LET key == RawKey(worker[w].at)
    IN  /\ WorkerAt(w, "quarantine")
        /\ raw' = [raw EXCEPT ![key] = IF @ = Absent THEN @ ELSE "dead_letter"]
        /\ deadLetters' = deadLetters \cup {key}
        /\ NextOperation(w)
        /\ UNCHANGED <<settlementVars, cursor, lease, indexed, faults>>

HighestMutant(w) == PageEnd(w)               \* gaps are skipped
Highest(w) ==
    LET projected(n) == \A m \in worker[w].from + 1 .. n : raw[RawKey(m)] = "projected"
    IN  Max({worker[w].from} \cup {n \in worker[w].from + 1 .. PageEnd(w) : projected(n)})

\* findHighestContiguousCursor over the page; without one nothing is saved.
FindContiguous(w) ==
    /\ WorkerAt(w, "contiguous")
    /\ IF Highest(w) = worker[w].from THEN EndSync(w)
       ELSE worker' = [worker EXCEPT ![w].pc = "save", ![w].to = Highest(w)]
    /\ UNCHANGED <<settlementVars, indexVars, faults>>

SaveCursorMutant(w) ==                       \* the lease is not looked at
    /\ WorkerAt(w, "save")
    /\ cursor' = worker[w].to
    /\ EndSync(w)
    /\ UNCHANGED <<settlementVars, lease, raw, indexed, deadLetters, faults>>

\* saveCursor: under a token that another worker has replaced, the upsert fails.
SaveCursor(w) ==
    /\ WorkerAt(w, "save")
    /\ cursor' = IF lease.token = w THEN worker[w].to ELSE cursor
    /\ EndSync(w)
    /\ UNCHANGED <<settlementVars, lease, raw, indexed, deadLetters, faults>>

-----------------------------------------------------------------------------
\* Thirty seconds pass: the lease of a worker that is gone expires, and so may
\* that of one that is slow.
ExpireLease ==
    /\ lease.owner # Absent
    /\ IF WorkerAt(lease.token, "idle") THEN UNCHANGED faults
       ELSE faults < MaxFaults /\ faults' = faults + 1
    /\ lease' = [lease EXCEPT !.owner = Absent]
    /\ UNCHANGED <<settlementVars, cursor, raw, indexed, deadLetters, worker>>

\* Horizon or the database fails outside of a try, or the process dies.
Abandon(w) ==
    /\ ~WorkerAt(w, "idle")
    /\ faults < MaxFaults /\ faults' = faults + 1
    /\ TxnAbort(w)
    /\ EndSync(w)
    /\ UNCHANGED <<settlement, funds, journal, spent, operator, indexVars>>

\* The database fails inside persistRawEnvelope or persistEvent: the operation
\* is quarantined, and the sync goes on.
StepFails(w) ==
    /\ worker[w].pc \in {"raw", "event", "match", "begin", "txn"}
    /\ faults < MaxFaults /\ faults' = faults + 1
    /\ TxnAbort(w)
    /\ GotoStep(w, "quarantine")
    /\ UNCHANGED <<settlement, funds, journal, spent, operator, indexVars>>

-----------------------------------------------------------------------------
Init == /\ SettlementInit
        /\ cursor = 0
        /\ lease = NoLease
        /\ raw = [h \in Hashes |-> Absent]
        /\ indexed = {}
        /\ deadLetters = {}
        /\ worker = [w \in Workers |-> IdleWorker]
        /\ faults = 0

Step(w) == \/ LoadCursor(w)
           \/ PersistRaw(w)
           \/ IndexEvent(w)
           \/ MatchSettlement(w)
           \/ BeginTransition(w)
           \/ CommitTransition(w)
           \/ TransitionThrows(w)
           \/ MarkProjected(w)
           \/ QuarantineDeadLetter(w)
           \/ FindContiguous(w)
           \/ SaveCursor(w)

Next == \/ SettlementNext /\ UNCHANGED <<indexVars, worker, faults>>
        \/ \E w \in Workers : \/ \E p \in Processes : AcquireLease(w, p)
                              \/ Step(w)
                              \/ Abandon(w)
                              \/ StepFails(w)
        \/ ExpireLease

Spec == Init /\ [][Next]_vars

\* Some administrator asks for a sync when there is something to index and nobody has
\* the lease.
Requested == /\ cursor < Last /\ lease.owner = Absent
             /\ \E w \in Workers, p \in Processes : AcquireLease(w, p)

\* A sync that has begun goes on, and a lease that nobody works under expires.
FairSpec == /\ Spec
            /\ \A w \in Workers : WF_vars(Step(w))
            /\ WF_vars(Requested)
            /\ WF_vars(ExpireLease)

-----------------------------------------------------------------------------
\* The type of every variable.
TypeOK ==
    /\ SettlementTypeOK
    /\ cursor \in 0..Last
    /\ lease \in LeaseDoc
    /\ raw \in [Hashes -> RawStatus \cup {Absent}]
    /\ indexed \in SUBSET Operations
    /\ deadLetters \in SUBSET Hashes
    /\ worker \in [Workers -> WorkerState]
    /\ faults \in 0..MaxFaults

\* The cursor never goes back, although workers go on after their lease.
CursorOnlyAdvances == [][cursor' >= cursor]_cursor

\* The cursor never passes an operation that has not been indexed, as long as no
\* two operations share a raw event's key.
KeysDiffer == \A m, n \in Operations : RawKey(m) = RawKey(n) => m = n
CursorCovers == KeysDiffer => 1..cursor \subseteq indexed

\* An operation counts as one confirmation at most, however often it is fetched,
\* and by whichever workers at the same time.
OneCountPerOperation ==
    \A r \in Records : settlement[r] # Absent =>
        settlement[r].count <= Cardinality({n \in indexed : TxOf[n] = HashOf[settlement[r].ref]})

\* In the end everything before the first foreign operation is indexed: no worker
\* that died, no lease that expired or was taken over and no operation that failed once
\* holds up the stream for good.  Two things do: a foreign operation, and syncs of one
\* process that for ever take the lease from each other, so that none gets to save the
\* cursor.  The property assumes that this happens at most MaxFaults times.
Reachable == Max({n \in 0..Last : 1..n \cap Foreign = {}})
CatchesUp == <>[](cursor = Reachable)
=============================================================================
