----------------------------- MODULE AuditChain -----------------------------
(***************************************************************************)
(* The tamper-evident audit log of one partition and its checkpoints       *)
(* (lib/security/audit-log.ts, tamper-evident-audit.ts,                    *)
(* audit-checkpoint.ts).                                                   *)
(*                                                                         *)
(* A writer draws a sequence number, polls until the entry before it is    *)
(* there, and inserts its own entry with that entry's hash in it.  Then it *)
(* makes a checkpoint when one is due.  Nothing of this is part of the     *)
(* transaction of the handler that calls it.  A hash stands for what it    *)
(* was computed from: the events of the chain up to and with its entry.    *)
(***************************************************************************)
EXTENDS Integers, Sequences, FiniteSets, FiniteSetsExt

CONSTANTS Processes,   \* handlers at work at the same time
          Events,      \* what a handler may record
          Threshold,   \* entries that make a checkpoint due (1000)
          MaxFaults,   \* bound: calls that fail, processes that die
          None

VARIABLES nextSequence, \* AuditSequence.nextSequence
          entries,      \* TamperEvidentAuditLog by sequence
          checkpoints,  \* AuditCheckpoint by checkpointNumber
          audit,        \* the call of logAuditEvent of each process
          faults

chainVars == <<nextSequence, entries, checkpoints>>
auditVars == <<chainVars, audit, faults>>

Pcs == {"none", "link", "create", "count", "last", "events", "sign", "ok", "failed"}
Hash == Seq(Events)
EntryDoc == [event : Events, previousHash : Hash, eventHash : Hash]
CheckpointDoc == [first : Nat, last : Nat, hashed : SUBSET Nat]
AuditCall == [pc : Pcs, event : Events \cup {None}, sequence : Nat, previous : Hash,
              number : Nat, first : Nat, hashed : SUBSET Nat]

ASSUME AuditAssumption == /\ Threshold \in Nat \ {0} /\ MaxFaults \in Nat
                          /\ None \notin Events

NoCall == [pc |-> "none", event |-> None, sequence |-> 0, previous |-> <<>>,
           number |-> 0, first |-> 0, hashed |-> {}]

AuditInit == /\ nextSequence = 0
             /\ entries = << >>
             /\ checkpoints = << >>
             /\ audit = [p \in Processes |-> NoCall]
             /\ faults = 0

AuditAt(p, pc) == audit[p].pc = pc
AuditGoto(p, pc) == audit' = [audit EXCEPT ![p].pc = pc]
Sequences == DOMAIN entries
Numbers == DOMAIN checkpoints

-----------------------------------------------------------------------------
LogAuditEventMutant(p, e) ==                 \* the counter is read and not incremented
    /\ AuditAt(p, "none")
    /\ audit' = [audit EXCEPT ![p] = [NoCall EXCEPT !.pc = "link", !.event = e,
                                                    !.sequence = nextSequence]]
    /\ UNCHANGED <<chainVars, faults>>

\* logAuditEvent begins with reserveNextSequence.  When that fails the number may
\* be drawn all the same.
LogAuditEvent(p, e) ==
    /\ AuditAt(p, "none")
    /\ \/ /\ audit' = [audit EXCEPT ![p] = [NoCall EXCEPT !.pc = "link", !.event = e,
                                                           !.sequence = nextSequence]]
          /\ nextSequence' = nextSequence + 1
          /\ UNCHANGED faults
       \/ /\ faults < MaxFaults /\ faults' = faults + 1
          /\ AuditGoto(p, "failed")
          /\ nextSequence' \in {nextSequence, nextSequence + 1}
    /\ UNCHANGED <<entries, checkpoints>>

LinkMutant(p) ==                             \* the newest entry will do
    /\ AuditAt(p, "link")
    /\ audit' = [audit EXCEPT ![p].pc = "create", ![p].previous =
           IF Sequences = {} THEN <<>> ELSE entries[Max(Sequences)].eventHash]
    /\ UNCHANGED <<chainVars, faults>>

\* getPreviousHash finds the predecessor.
Link(p) ==
    LET n == audit[p].sequence
    IN  /\ AuditAt(p, "link")
        /\ n = 0 \/ n - 1 \in Sequences
        /\ audit' = [audit EXCEPT ![p].pc = "create", ![p].previous =
               IF n = 0 THEN <<>> ELSE entries[n - 1].eventHash]
        /\ UNCHANGED <<chainVars, faults>>

GiveUpMutant(p) == FALSE /\ UNCHANGED auditVars \* it polls for ever
\* It has not been there 25 times.  Time is not modelled: a predecessor that is
\* slow is given up like one that never comes.
GiveUp(p) ==
    /\ AuditAt(p, "link")
    /\ audit[p].sequence # 0 /\ audit[p].sequence - 1 \notin Sequences
    /\ AuditGoto(p, "failed")
    /\ UNCHANGED <<chainVars, faults>>

Entry(p) == [event |-> audit[p].event, previousHash |-> audit[p].previous,
             eventHash |-> Append(audit[p].previous, audit[p].event)]
WithEntry(p) == [n \in Sequences \cup {audit[p].sequence} |->
                    IF n \in Sequences THEN entries[n] ELSE Entry(p)]

\* The insert, and, when its reply is lost, the insert of a call that fails.
CreateEntry(p) ==
    /\ AuditAt(p, "create")
    /\ entries' = WithEntry(p)
    /\ \/ AuditGoto(p, "count") /\ UNCHANGED faults
       \/ faults < MaxFaults /\ faults' = faults + 1 /\ AuditGoto(p, "failed")
    /\ UNCHANGED <<nextSequence, checkpoints>>

-----------------------------------------------------------------------------
LastOf(c) == IF DOMAIN c = {} THEN 0 ELSE Max(DOMAIN c)

\* Where the next checkpoint starts.
EndOf(c) == IF DOMAIN c = {} THEN 0 ELSE c[LastOf(c)].last + 1
Since(n) == {s \in Sequences : n <= s}

\* autoCheckpointIfNeeded.
CountUnsealed(p) ==
    /\ AuditAt(p, "count")
    /\ AuditGoto(p, IF Cardinality(Since(EndOf(checkpoints))) >= Threshold THEN "last" ELSE "ok")
    /\ UNCHANGED <<chainVars, faults>>

\* createCheckpoint reads the last checkpoint once more, ...
LastCheckpoint(p) ==
    /\ AuditAt(p, "last")
    /\ audit' = [audit EXCEPT ![p].pc = "events", ![p].number = LastOf(checkpoints) + 1,
                              ![p].first = EndOf(checkpoints)]
    /\ UNCHANGED <<chainVars, faults>>

\* ... then the entries after it, ...
UnsealedEvents(p) ==
    LET found == Since(audit[p].first)
    IN  /\ AuditAt(p, "events")
        /\ audit' = [audit EXCEPT ![p].pc = IF found = {} THEN "ok" ELSE "sign",
                                  ![p].hashed = found]
        /\ UNCHANGED <<chainVars, faults>>

SignMutant(p) ==                             \* its number is not unique
    /\ AuditAt(p, "sign")
    /\ checkpoints' = [n \in Numbers \cup {audit[p].number} |->
           IF n = audit[p].number
           THEN [first |-> audit[p].first, last |-> Max(audit[p].hashed), hashed |-> audit[p].hashed]
           ELSE checkpoints[n]]
    /\ AuditGoto(p, "ok")
    /\ UNCHANGED <<nextSequence, entries, faults>>

\* ... and signs them.  A number that is taken is refused by the unique index,
\* which createCheckpoint reports to nobody.
SignCheckpoint(p) ==
    /\ AuditAt(p, "sign")
    /\ checkpoints' = [n \in Numbers \cup {audit[p].number} |->
           IF n \in Numbers THEN checkpoints[n]
           ELSE [first |-> audit[p].first, last |-> Max(audit[p].hashed), hashed |-> audit[p].hashed]]
    /\ AuditGoto(p, "ok")
    /\ UNCHANGED <<nextSequence, entries, faults>>

\* A call to the database fails.  createCheckpoint's own failures are swallowed;
\* any other makes a critical call throw, also after its entry is there.
AuditFails(p) ==
    /\ faults < MaxFaults
    /\ faults' = faults + 1
    /\ \/ audit[p].pc \in {"link", "create", "count"} /\ AuditGoto(p, "failed")
       \/ audit[p].pc \in {"last", "events", "sign"} /\ AuditGoto(p, "ok")
    /\ UNCHANGED chainVars

AuditStep(p) == \/ Link(p) \/ GiveUp(p) \/ CreateEntry(p) \/ CountUnsealed(p)
                \/ LastCheckpoint(p) \/ UnsealedEvents(p) \/ SignCheckpoint(p)
                \/ AuditFails(p)

\* What the process does of its own accord: faults happen to it.
AuditProgress(p) == \/ Link(p) \/ GiveUp(p) \/ CreateEntry(p) \/ CountUnsealed(p)
                    \/ LastCheckpoint(p) \/ UnsealedEvents(p) \/ SignCheckpoint(p)

-----------------------------------------------------------------------------
AuditTypeOK ==
    /\ nextSequence \in Nat
    /\ Sequences \subseteq 0..nextSequence - 1 /\ \A n \in Sequences : entries[n] \in EntryDoc
    /\ \A n \in Numbers : checkpoints[n] \in CheckpointDoc
    /\ audit \in [Processes -> AuditCall]
    /\ faults \in 0..MaxFaults

\* verifyAuditChain: no gap, no broken link and no fork.
ChainVerifies ==
    /\ Sequences = 0..Cardinality(Sequences) - 1
    /\ \A n \in Sequences : entries[n].previousHash = IF n = 0 THEN <<>> ELSE entries[n - 1].eventHash

\* verifyCheckpoints: under every checkpoint are the entries it has signed, and
\* the checkpoints follow each other without gap or overlap.
CheckpointsVerify ==
    \A n \in Numbers :
        /\ n = 1 \/ n - 1 \in Numbers
        /\ checkpoints[n].first = IF n = 1 THEN 0 ELSE checkpoints[n - 1].last + 1
        /\ checkpoints[n].hashed = checkpoints[n].first..checkpoints[n].last
        /\ checkpoints[n].hashed # {} /\ checkpoints[n].hashed \subseteq Sequences

\* The log and its checkpoints verify, whoever wrote at the same time, died in
\* between or gave up, although nothing orders the writers of checkpoints.
AuditVerifies == ChainVerifies /\ CheckpointsVerify

\* The newest entry's hash stands for the whole log.
Log == IF Sequences = {} THEN <<>> ELSE entries[Max(Sequences)].eventHash
Abstract == INSTANCE SealedLog WITH log <- Log, sealed <- EndOf(checkpoints)

\* Seen from outside, the entries and checkpoints are an append-only log of
\* which a longer and longer prefix is sealed.
RefinesSealedLog == Abstract!Spec
=============================================================================
