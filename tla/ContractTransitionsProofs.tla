---------------------- MODULE ContractTransitionsProofs ----------------------
(***************************************************************************)
(* Theorems about ContractTransitions and the audit log it writes, for     *)
(* every set of processes, contracts and vehicles, every table of requests *)
(* and every bound.  The first part is about the log (AuditChain), action  *)
(* by action; the second adds the transactions.                            *)
(***************************************************************************)
EXTENDS ContractTransitions, FiniteSetTheorems, SequenceTheorems, TLAPS

-----------------------------------------------------------------------------
\* The audit log, after every call of every process.
Count == Cardinality(Sequences)
Sealed == Cardinality(Numbers)
PreviousHash(n) == IF n = 0 THEN <<>> ELSE entries[n - 1].eventHash

Writing == {"link", "create"}
Recorded == {"count", "last", "events", "sign", "ok"}

\* The entries are numbered without a gap, and the hash of each one stands for
\* itself and all the ones before it.
ChainOK ==
    /\ nextSequence \in Nat /\ Count \in Nat /\ Count <= nextSequence
    /\ Sequences = 0..Count - 1
    /\ \A n \in Sequences :
          /\ entries[n] \in EntryDoc
          /\ entries[n].previousHash = PreviousHash(n)
          /\ entries[n].eventHash = Append(entries[n].previousHash, entries[n].event)
          /\ Len(entries[n].eventHash) = n + 1

\* Who writes has a number that was drawn and is not used, and who has found the
\* predecessor has the next one; who has written finds the entry.
WriterOK(p) ==
    /\ audit[p].pc \in Writing =>
          /\ audit[p].event \in Events
          /\ audit[p].sequence < nextSequence /\ audit[p].sequence \notin Sequences
    /\ AuditAt(p, "create") =>
          audit[p].sequence = Count /\ audit[p].previous = PreviousHash(Count)
    /\ audit[p].pc \in Recorded =>
          \E n \in Sequences : entries[n].event = audit[p].event

\* Nobody draws a number that another one has.
Distinct ==
    \A p, q \in Processes :
        p # q /\ audit[p].pc \in Writing /\ audit[q].pc \in Writing
           => audit[p].sequence # audit[q].sequence

\* The checkpoints are numbered without a gap, and sign without gap or overlap.
CheckpointsOK ==
    /\ Sealed \in Nat /\ Numbers = 1..Sealed
    /\ \A n \in Numbers :
          /\ checkpoints[n] \in CheckpointDoc
          /\ checkpoints[n].first <= checkpoints[n].last
          /\ checkpoints[n].last \in Sequences
          /\ checkpoints[n].hashed = checkpoints[n].first..checkpoints[n].last
          /\ checkpoints[n].first = IF n = 1 THEN 0 ELSE checkpoints[n - 1].last + 1

\* Who makes a checkpoint either has a number that is taken, or starts where the
\* last one ends.
SealerOK(p) ==
    /\ audit[p].pc \in {"events", "sign"} =>
          /\ audit[p].number \in 1..Sealed + 1
          /\ audit[p].number = Sealed + 1 => audit[p].first = EndOf(checkpoints)
    /\ AuditAt(p, "sign") =>
          \E m \in Sequences : audit[p].first <= m /\ audit[p].hashed = audit[p].first..m

AuditInv == /\ ChainOK /\ CheckpointsOK
            /\ audit \in [Processes -> AuditCall]
            /\ \A p \in Processes : WriterOK(p) /\ SealerOK(p)
            /\ Distinct
            /\ faults \in 0..MaxFaults

LEMMA MaxOfInterval ==
    ASSUME NEW a \in Int, NEW b \in Int, a <= b
    PROVE  Max(a..b) = b
<1>1. b \in a..b /\ \A y \in a..b : b >= y
  OBVIOUS
<1>2. \A x \in a..b : (\A y \in a..b : x >= y) => x = b
  OBVIOUS
<1> QED BY <1>1, <1>2 DEF Max

\* An interval and its size.
LEMMA Interval ==
    ASSUME NEW a \in Int, NEW b \in Int
    PROVE  IsFiniteSet(a..b) /\ Cardinality(a..b) = IF a > b THEN 0 ELSE b - a + 1
BY FS_Interval

\* Where the next checkpoint starts, without Max.
LEMMA EndOfLast ==
    ASSUME NEW c, NEW n \in Nat, DOMAIN c = 1..n
    PROVE  LastOf(c) = n /\ EndOf(c) = IF n = 0 THEN 0 ELSE c[n].last + 1
<1>1. CASE n = 0
  BY <1>1 DEF LastOf, EndOf
<1>2. CASE n # 0
  <2>1. 1 <= n /\ n \in Int
    BY <1>2
  <2>2. 1 \in 1..n
    BY <2>1
  <2>3. Max(1..n) = n
    BY <2>1, MaxOfInterval
  <2> QED BY <1>2, <2>2, <2>3 DEF LastOf, EndOf
<1> QED BY <1>1, <1>2

\* The last of the entries, without Max.
LEMMA LastEntry ==
    ASSUME NEW n \in Nat
    PROVE  IF n = 0 THEN 0..n - 1 = {} ELSE 0..n - 1 # {} /\ Max(0..n - 1) = n - 1
<1>1. CASE n # 0
  <2>1. 0 <= n - 1 /\ n - 1 \in Int /\ 0 \in 0..n - 1
    BY <1>1
  <2>2. Max(0..n - 1) = n - 1
    BY <2>1, MaxOfInterval
  <2> QED BY <1>1, <2>1, <2>2
<1>2. CASE n = 0
  BY <1>2
<1> QED BY <1>1, <1>2

\* What the invariant says is what verifyAuditChain and verifyCheckpoints check.
LEMMA AuditInvVerifies ==
    ASSUME AuditInv
    PROVE  AuditVerifies
<1>1. ChainVerifies
  BY DEF AuditInv, ChainOK, ChainVerifies, Count, PreviousHash
<1>2. CheckpointsVerify
  <2> SUFFICES ASSUME NEW n \in Numbers
               PROVE  /\ n = 1 \/ n - 1 \in Numbers
                      /\ checkpoints[n].first = IF n = 1 THEN 0 ELSE checkpoints[n - 1].last + 1
                      /\ checkpoints[n].hashed = checkpoints[n].first..checkpoints[n].last
                      /\ checkpoints[n].hashed # {} /\ checkpoints[n].hashed \subseteq Sequences
    BY DEF CheckpointsVerify
  <2>1. n \in 1..Sealed /\ Sealed \in Nat
    BY DEF AuditInv, CheckpointsOK
  <2>2. n = 1 \/ n - 1 \in Numbers
    BY <2>1 DEF AuditInv, CheckpointsOK
  <2>3. /\ checkpoints[n].first \in Nat /\ checkpoints[n].last \in Nat
        /\ checkpoints[n].first <= checkpoints[n].last
        /\ checkpoints[n].last \in 0..Count - 1 /\ Count \in Nat /\ Sequences = 0..Count - 1
    BY DEF AuditInv, CheckpointsOK, ChainOK, CheckpointDoc
  <2>4. /\ checkpoints[n].hashed = checkpoints[n].first..checkpoints[n].last
        /\ checkpoints[n].first = IF n = 1 THEN 0 ELSE checkpoints[n - 1].last + 1
    BY DEF AuditInv, CheckpointsOK
  <2>5. checkpoints[n].hashed # {} /\ checkpoints[n].hashed \subseteq Sequences
    BY <2>3, <2>4
  <2> QED BY <2>2, <2>4, <2>5
<1> QED BY <1>1, <1>2 DEF AuditVerifies

-----------------------------------------------------------------------------
\* In the beginning there is nothing.
LEMMA AuditInitInv == AuditInit => AuditInv
<1> SUFFICES ASSUME AuditInit PROVE AuditInv
  OBVIOUS
<1> USE DEF AuditInit
<1>1. Sequences = {} /\ Numbers = {} /\ Count = 0 /\ Sealed = 0
  BY FS_EmptySet DEF Sequences, Numbers, Count, Sealed
<1>2. NoCall \in AuditCall
  <2>1. <<>> \in Hash
    BY EmptySeq DEF Hash
  <2> QED BY <2>1 DEF NoCall, AuditCall, Pcs
<1>3. ChainOK /\ CheckpointsOK
  BY <1>1 DEF ChainOK, CheckpointsOK
<1>4. \A p \in Processes : WriterOK(p) /\ SealerOK(p)
  BY DEF WriterOK, SealerOK, NoCall, Writing, Recorded, AuditAt
<1>5. Distinct
  BY DEF Distinct, NoCall, Writing
<1> QED BY <1>2, <1>3, <1>4, <1>5, AuditAssumption DEF AuditInv

\* A step of one process that leaves the log and its checkpoints as they are.
LEMMA AuditMoves ==
    ASSUME AuditInv, NEW p \in Processes, NEW new \in AuditCall,
           UNCHANGED <<entries, checkpoints>>, nextSequence' \in Nat, nextSequence <= nextSequence',
           audit' = [audit EXCEPT ![p] = new], faults' \in 0..MaxFaults,
           new.pc \in Writing =>
              /\ new.event \in Events
              /\ \/ audit[p].pc \in Writing /\ new.sequence = audit[p].sequence
                 \/ new.sequence = nextSequence /\ nextSequence < nextSequence',
           new.pc = "create" => new.sequence = Count /\ new.previous = PreviousHash(Count),
           new.pc \in Recorded => \E n \in Sequences : entries[n].event = new.event,
           new.pc \in {"events", "sign"} =>
              /\ new.number \in 1..Sealed + 1
              /\ new.number = Sealed + 1 => new.first = EndOf(checkpoints),
           new.pc = "sign" => \E m \in Sequences : new.first <= m /\ new.hashed = new.first..m
    PROVE  AuditInv'
<1>1. /\ Sequences' = Sequences /\ Numbers' = Numbers /\ Count' = Count /\ Sealed' = Sealed
      /\ entries' = entries /\ checkpoints' = checkpoints
      /\ PreviousHash(Count)' = PreviousHash(Count)
      /\ EndOf(checkpoints)' = EndOf(checkpoints)
  BY DEF Sequences, Numbers, Count, Sealed, PreviousHash
<1>10. /\ nextSequence \in Nat /\ Count \in Nat /\ Count <= nextSequence
      /\ Sequences = 0..Count - 1 /\ nextSequence \notin Sequences
  BY DEF AuditInv, ChainOK
<1>11. \A q \in Processes : audit[q] \in AuditCall /\ audit[q].sequence \in Nat
  BY DEF AuditInv, AuditCall
<1>2. ChainOK' /\ CheckpointsOK'
  <2>1. Count' <= nextSequence'
    BY <1>1, <1>10
  <2>3. \A n \in Sequences : PreviousHash(n)' = PreviousHash(n)
    BY <1>1 DEF PreviousHash
  <2>4. ChainOK'
    BY <1>1, <1>10, <2>1, <2>3 DEF AuditInv, ChainOK
  <2>2. CheckpointsOK'
    BY <1>1 DEF AuditInv, CheckpointsOK
  <2> QED BY <2>2, <2>4
<1>3. audit' \in [Processes -> AuditCall] /\ audit'[p] = new
  BY DEF AuditInv
<1>4. \A q \in Processes \ {p} : audit'[q] = audit[q]
  BY DEF AuditInv
<1>5. WriterOK(p)'
  <2>1. new.pc \in Writing => /\ new.event \in Events
                             /\ new.sequence < nextSequence' /\ new.sequence \notin Sequences
    BY <1>10, <1>11 DEF AuditInv, WriterOK
  <2> QED BY <2>1, <1>1, <1>3 DEF WriterOK, AuditAt
<1>6. SealerOK(p)'
  BY <1>1, <1>3 DEF SealerOK, AuditAt
<1>7. \A q \in Processes \ {p} : WriterOK(q)'
  BY <1>1, <1>4, <1>10, <1>11 DEF AuditInv, WriterOK, AuditAt
<1>8. \A q \in Processes \ {p} : SealerOK(q)'
  BY <1>1, <1>4 DEF AuditInv, SealerOK, AuditAt
<1>9. Distinct'
  <2>1. \A q \in Processes \ {p} :
           new.pc \in Writing /\ audit[q].pc \in Writing => new.sequence # audit[q].sequence
    BY <1>10, <1>11 DEF AuditInv, Distinct, WriterOK
  <2> QED BY <2>1, <1>3, <1>4 DEF AuditInv, Distinct
<1> QED BY <1>2, <1>3, <1>5, <1>6, <1>7, <1>8, <1>9 DEF AuditInv

\* Drawing no number keeps the drawn ones.
LEMMA NothingDrawn ==
    ASSUME AuditInv, UNCHANGED chainVars
    PROVE  /\ UNCHANGED <<entries, checkpoints>>
           /\ nextSequence' \in Nat /\ nextSequence <= nextSequence'
BY DEF AuditInv, ChainOK, chainVars

\* The same, of a step that only moves the program counter.
LEMMA AuditGoes ==
    ASSUME AuditInv, NEW p \in Processes, NEW pc \in Pcs,
           UNCHANGED <<entries, checkpoints>>, nextSequence' \in Nat, nextSequence <= nextSequence',
           AuditGoto(p, pc), faults' \in 0..MaxFaults,
           pc \notin Writing, pc \in Recorded => audit[p].pc \in Recorded,
           pc \notin {"events", "sign"}
    PROVE  AuditInv'
<1> DEFINE new == [audit[p] EXCEPT !.pc = pc]
<1>1. audit[p] \in AuditCall
  BY DEF AuditInv
<1>2. /\ new \in AuditCall /\ new.pc = pc /\ new.event = audit[p].event
  BY <1>1 DEF AuditCall
<1>3. audit' = [audit EXCEPT ![p] = new]
  BY DEF AuditInv, AuditGoto
<1>4. pc \in Recorded => \E n \in Sequences : entries[n].event = new.event
  BY <1>2 DEF AuditInv, WriterOK
<1>5. pc # "create" /\ pc # "sign"
  BY DEF Writing
<1> HIDE DEF new
<1> QED BY <1>2, <1>3, <1>4, <1>5, AuditMoves

\* A process that dies leaves its call behind.
LEMMA AuditForgotten ==
    ASSUME AuditInv, NEW p \in Processes, UNCHANGED chainVars,
           audit' = [audit EXCEPT ![p] = NoCall], faults' \in 0..MaxFaults
    PROVE  AuditInv'
<1>1. NoCall \in AuditCall
  <2>1. <<>> \in Hash
    BY EmptySeq DEF Hash
  <2> QED BY <2>1 DEF NoCall, AuditCall, Pcs
<1>2. NoCall.pc = "none"
  BY DEF NoCall
<1>3. /\ NoCall.pc \notin Writing /\ NoCall.pc \notin Recorded /\ NoCall.pc # "create"
      /\ NoCall.pc \notin {"events", "sign"} /\ NoCall.pc # "sign"
  BY <1>2 DEF Writing, Recorded
<1> QED BY <1>1, <1>3, AuditMoves, NothingDrawn

LEMMA GiveUpInv == ASSUME AuditInv, NEW p \in Processes, GiveUp(p) PROVE AuditInv'
<1>1. faults' \in 0..MaxFaults /\ "failed" \in Pcs /\ "failed" \notin Writing \cup Recorded
  BY DEF GiveUp, AuditInv, Pcs, Writing, Recorded
<1> QED BY <1>1, AuditGoes, NothingDrawn DEF GiveUp

LEMMA CountUnsealedInv == ASSUME AuditInv, NEW p \in Processes, CountUnsealed(p) PROVE AuditInv'
<1> DEFINE pc == IF Cardinality(Since(EndOf(checkpoints))) >= Threshold THEN "last" ELSE "ok"
<1>1. pc \in {"last", "ok"}
  OBVIOUS
<1>2. AuditGoto(p, pc) /\ UNCHANGED chainVars /\ faults' = faults /\ audit[p].pc = "count"
  BY DEF CountUnsealed, AuditAt
<1> HIDE DEF pc
<1>3. pc \in Pcs /\ pc \notin Writing /\ audit[p].pc \in Recorded /\ pc \notin {"events", "sign"}
  BY <1>1, <1>2 DEF Pcs, Writing, Recorded
<1> QED BY <1>2, <1>3, AuditGoes, NothingDrawn DEF AuditInv

LEMMA AuditFailsInv == ASSUME AuditInv, NEW p \in Processes, AuditFails(p) PROVE AuditInv'
<1>1. faults' \in 0..MaxFaults /\ UNCHANGED chainVars
  BY AuditAssumption DEF AuditFails, AuditInv
<1>2. CASE AuditGoto(p, "failed")
  BY <1>1, <1>2, AuditGoes, NothingDrawn DEF Pcs, Writing, Recorded
<1>3. CASE audit[p].pc \in {"last", "events", "sign"} /\ AuditGoto(p, "ok")
  BY <1>1, <1>3, AuditGoes, NothingDrawn DEF Pcs, Writing, Recorded
<1> QED BY <1>2, <1>3 DEF AuditFails

\* The predecessor of a number that is not used is the last entry there is.
LEMMA LinkInv == ASSUME AuditInv, NEW p \in Processes, Link(p) PROVE AuditInv'
<1> DEFINE n == audit[p].sequence
           new == [audit[p] EXCEPT !.pc = "create", !.previous = PreviousHash(n)]
<1>1. /\ audit[p] \in AuditCall /\ audit[p].pc = "link" /\ audit[p].pc \in Writing
      /\ n \in Nat /\ n \notin Sequences
  BY DEF AuditInv, Link, AuditAt, WriterOK, Writing, AuditCall
<1>2. n = Count
  BY <1>1 DEF AuditInv, ChainOK, Link
<1>3. PreviousHash(n) \in Hash
  <2>1. <<>> \in Hash
    BY EmptySeq DEF Hash
  <2>2. CASE n # 0
    BY <2>2 DEF Link, AuditInv, ChainOK, EntryDoc, PreviousHash
  <2> QED BY <2>1, <2>2 DEF PreviousHash
<1>4. /\ new \in AuditCall /\ new.pc = "create" /\ new.previous = PreviousHash(Count)
      /\ new.event = audit[p].event /\ new.sequence = audit[p].sequence
  BY <1>1, <1>2, <1>3 DEF AuditCall, Pcs
<1>5. audit' = [audit EXCEPT ![p] = new]
  BY DEF AuditInv, Link, PreviousHash
<1>6. UNCHANGED chainVars /\ faults' \in 0..MaxFaults
  BY DEF Link, AuditInv
<1>7. new.event \in Events /\ new.pc \notin Recorded /\ new.pc \notin {"events", "sign"} /\ new.pc # "sign"
  BY <1>1, <1>4 DEF AuditInv, WriterOK, Recorded
<1> HIDE DEF new
<1> QED BY <1>1, <1>2, <1>4, <1>5, <1>6, <1>7, AuditMoves, NothingDrawn

LEMMA LastCheckpointInv == ASSUME AuditInv, NEW p \in Processes, LastCheckpoint(p) PROVE AuditInv'
<1> DEFINE new == [audit[p] EXCEPT !.pc = "events", !.number = LastOf(checkpoints) + 1,
                                   !.first = EndOf(checkpoints)]
<1>1. audit[p] \in AuditCall /\ audit[p].pc = "last" /\ CheckpointsOK /\ ChainOK
  BY DEF AuditInv, LastCheckpoint, AuditAt
<1>2. LastOf(checkpoints) = Sealed /\ Sealed \in Nat /\ EndOf(checkpoints) \in Nat
  <2>1. Sealed \in Nat /\ DOMAIN checkpoints = 1..Sealed
    BY <1>1 DEF CheckpointsOK, Numbers
  <2>2. Sealed # 0 => checkpoints[Sealed].last + 1 \in Nat
    BY <1>1, <2>1 DEF CheckpointsOK, CheckpointDoc, Numbers
  <2> QED BY <2>1, <2>2, EndOfLast
<1>3. /\ new \in AuditCall /\ new.pc = "events" /\ new.event = audit[p].event
      /\ new.number = Sealed + 1 /\ new.first = EndOf(checkpoints)
  <2>1. "events" \in Pcs /\ LastOf(checkpoints) + 1 \in Nat
    BY <1>2 DEF Pcs
  <2> QED BY <1>1, <1>2, <2>1 DEF AuditCall
<1>4. audit' = [audit EXCEPT ![p] = new]
  BY DEF AuditInv, LastCheckpoint
<1>5. \E n \in Sequences : entries[n].event = new.event
  BY <1>1, <1>3 DEF AuditInv, WriterOK, Recorded
<1>6. UNCHANGED chainVars /\ faults' \in 0..MaxFaults
  BY DEF LastCheckpoint, AuditInv
<1>7. new.pc \notin Writing /\ new.pc # "create" /\ new.pc # "sign" /\ new.number \in 1..Sealed + 1
  BY <1>2, <1>3 DEF Writing
<1> HIDE DEF new
<1> QED BY <1>3, <1>4, <1>5, <1>6, <1>7, AuditMoves, NothingDrawn

LEMMA UnsealedEventsInv == ASSUME AuditInv, NEW p \in Processes, UnsealedEvents(p) PROVE AuditInv'
<1> DEFINE found == Since(audit[p].first)
           pc == IF found = {} THEN "ok" ELSE "sign"
           new == [audit[p] EXCEPT !.pc = pc, !.hashed = found]
<1>1. audit[p] \in AuditCall /\ audit[p].pc = "events" /\ ChainOK
  BY DEF AuditInv, UnsealedEvents, AuditAt
<1>2. /\ audit[p].number \in 1..Sealed + 1
      /\ audit[p].number = Sealed + 1 => audit[p].first = EndOf(checkpoints)
  BY <1>1 DEF AuditInv, SealerOK
<1>3. audit[p].first \in Nat /\ Count \in Nat /\ Sequences = 0..Count - 1
  BY <1>1 DEF AuditCall, ChainOK
<1>4. found = audit[p].first..Count - 1
  BY <1>3 DEF Since
<1>5. /\ new \in AuditCall /\ new.pc = pc /\ new.event = audit[p].event
      /\ new.number = audit[p].number /\ new.first = audit[p].first /\ new.hashed = found
  <2>1. found \in SUBSET Nat /\ pc \in Pcs
    BY <1>3 DEF Since, Pcs
  <2> QED BY <1>1, <2>1 DEF AuditCall
<1>6. new.pc = "sign" => \E m \in Sequences : new.first <= m /\ new.hashed = new.first..m
  <2>1. CASE found # {}
    <3>1. audit[p].first <= Count - 1 /\ Count - 1 \in Sequences
      BY <2>1, <1>3, <1>4
    <3> QED BY <3>1, <1>4, <1>5
  <2> QED BY <2>1, <1>5
<1>7. audit' = [audit EXCEPT ![p] = new]
  BY DEF AuditInv, UnsealedEvents
<1>8. \E n \in Sequences : entries[n].event = new.event
  BY <1>1, <1>5 DEF AuditInv, WriterOK, Recorded
<1>9. UNCHANGED chainVars /\ faults' \in 0..MaxFaults
  BY DEF UnsealedEvents, AuditInv
<1>10. new.pc \notin Writing /\ new.pc # "create"
  BY <1>5 DEF Writing
<1> HIDE DEF new
<1> QED BY <1>2, <1>5, <1>6, <1>7, <1>8, <1>9, <1>10, AuditMoves, NothingDrawn

LEMMA LogAuditEventInv ==
    ASSUME AuditInv, NEW p \in Processes, NEW e \in Events, LogAuditEvent(p, e)
    PROVE  AuditInv'
<1>1. nextSequence \in Nat /\ UNCHANGED <<entries, checkpoints>> /\ faults \in 0..MaxFaults
  BY DEF AuditInv, ChainOK, LogAuditEvent
<1> DEFINE new == [NoCall EXCEPT !.pc = "link", !.event = e, !.sequence = nextSequence]
<1>2. CASE /\ audit' = [audit EXCEPT ![p] = new]
           /\ nextSequence' = nextSequence + 1
           /\ UNCHANGED faults
  <2>1. new \in AuditCall /\ new.pc = "link" /\ new.event = e /\ new.sequence = nextSequence
    <3>1. <<>> \in Hash
      BY EmptySeq DEF Hash
    <3> QED BY <3>1, <1>1 DEF NoCall, AuditCall, Pcs
  <2>2. nextSequence' \in Nat /\ nextSequence < nextSequence' /\ nextSequence <= nextSequence'
    BY <1>1, <1>2
  <2>3. /\ new.pc \notin Recorded /\ new.pc # "create" /\ new.pc \notin {"events", "sign"}
        /\ new.pc # "sign"
    BY <2>1 DEF Recorded
  <2> HIDE DEF new
  <2> QED BY <1>1, <1>2, <2>1, <2>2, <2>3, AuditMoves
<1>3. CASE /\ faults < MaxFaults /\ faults' = faults + 1
           /\ AuditGoto(p, "failed")
           /\ nextSequence' \in {nextSequence, nextSequence + 1}
  <2>1. nextSequence' \in Nat /\ nextSequence <= nextSequence' /\ faults' \in 0..MaxFaults
    BY <1>1, <1>3, AuditAssumption
  <2> QED BY <1>1, <1>3, <2>1, AuditGoes DEF Pcs, Writing, Recorded
<1> QED BY <1>2, <1>3 DEF LogAuditEvent

\* The new entry is the next one, and nobody else had its number.
LEMMA CreateEntryInv == ASSUME AuditInv, NEW p \in Processes, CreateEntry(p) PROVE AuditInv'
<1> DEFINE n == Count
           pc == audit'[p].pc
<1>1. /\ Count \in Nat /\ Count <= nextSequence /\ nextSequence \in Nat
      /\ Sequences = 0..Count - 1
  BY DEF AuditInv, ChainOK
<1>2. /\ audit[p] \in AuditCall /\ audit[p].pc = "create" /\ audit[p].pc \in Writing
      /\ audit[p].event \in Events /\ audit[p].sequence = n /\ audit[p].previous = PreviousHash(n)
      /\ audit[p].previous \in Hash /\ n < nextSequence
  BY DEF AuditInv, CreateEntry, AuditAt, WriterOK, Writing, AuditCall
<1>3. Sequences' = Sequences \cup {n} /\ entries'[n] = Entry(p)
      /\ \A m \in Sequences : entries'[m] = entries[m]
  BY <1>1, <1>2 DEF CreateEntry, WithEntry, Sequences
<1>4. Count' = Count + 1 /\ Sequences' = 0..Count' - 1
  <2>1. IsFiniteSet(Sequences)
    BY <1>1, FS_Interval
  <2>2. n \notin Sequences
    BY <1>1
  <2>3. Count' = Count + 1
    BY <1>3, <2>1, <2>2, FS_AddElement DEF Count
  <2> QED BY <1>1, <1>3, <2>3
<1>5. PreviousHash(n) \in Hash /\ Len(PreviousHash(n)) = n
  <2>1. CASE n = 0
    BY <2>1, EmptySeq DEF PreviousHash, Hash
  <2>2. CASE n # 0
    <3>1. n - 1 \in Sequences
      BY <1>1, <2>2
    <3>2. entries[n - 1].eventHash \in Hash /\ Len(entries[n - 1].eventHash) = n - 1 + 1
      BY <3>1 DEF AuditInv, ChainOK, EntryDoc
    <3> QED BY <1>1, <2>2, <3>2 DEF PreviousHash
  <2> QED BY <2>1, <2>2
<1>6. /\ Entry(p) \in EntryDoc
      /\ Entry(p).previousHash = PreviousHash(n)
      /\ Entry(p).eventHash = Append(Entry(p).previousHash, Entry(p).event)
      /\ Entry(p).event = audit[p].event
      /\ Len(Entry(p).eventHash) = n + 1
  <2>1. /\ Append(audit[p].previous, audit[p].event) \in Hash
        /\ Len(Append(audit[p].previous, audit[p].event)) = n + 1
    <3> DEFINE h == audit[p].previous
               e == audit[p].event
    <3>1. h \in Seq(Events) /\ e \in Events /\ Len(h) = n
      BY <1>2, <1>5 DEF Hash
    <3> HIDE DEF h, e
    <3>2. Append(h, e) \in Seq(Events) /\ Len(Append(h, e)) = n + 1
      BY <3>1, AppendProperties
    <3> QED BY <3>2 DEF h, e, Hash
  <2> QED BY <1>2, <2>1 DEF Entry, EntryDoc
<1>7. \A m \in Sequences' : PreviousHash(m)' = PreviousHash(m)
  <2> SUFFICES ASSUME NEW m \in Sequences', m # 0
               PROVE  entries'[m - 1] = entries[m - 1]
    BY DEF PreviousHash
  <2>1. m - 1 \in Sequences
    BY <1>1, <1>3
  <2> QED BY <2>1, <1>3
<1>8. ChainOK'
  <2>1. nextSequence' \in Nat /\ Count' \in Nat /\ Count' <= nextSequence'
    BY <1>1, <1>2, <1>4 DEF CreateEntry
  <2>2. ASSUME NEW m \in Sequences'
        PROVE  /\ entries'[m] \in EntryDoc
               /\ entries'[m].previousHash = PreviousHash(m)'
               /\ entries'[m].eventHash = Append(entries'[m].previousHash, entries'[m].event)
               /\ Len(entries'[m].eventHash) = m + 1
    <3>1. CASE m \in Sequences
      BY <1>3, <1>7, <3>1 DEF AuditInv, ChainOK
    <3>2. CASE m = n
      BY <1>3, <1>6, <1>7, <3>2
    <3> QED BY <1>3, <3>1, <3>2
  <2> QED BY <1>4, <2>1, <2>2 DEF ChainOK
<1>9. /\ checkpoints' = checkpoints /\ Numbers' = Numbers /\ Sealed' = Sealed
      /\ nextSequence' = nextSequence /\ EndOf(checkpoints)' = EndOf(checkpoints)
  BY DEF CreateEntry, Numbers, Sealed
<1>10. CheckpointsOK'
  BY <1>3, <1>9 DEF AuditInv, CheckpointsOK
<1>11. /\ audit' \in [Processes -> AuditCall]
       /\ audit'[p] = [audit[p] EXCEPT !.pc = pc]
       /\ pc \in {"count", "failed"}
       /\ \A q \in Processes \ {p} : audit'[q] = audit[q]
  <2>1. \/ audit' = [audit EXCEPT ![p].pc = "count"]
        \/ audit' = [audit EXCEPT ![p].pc = "failed"]
    BY DEF CreateEntry, AuditGoto
  <2>2. ASSUME NEW x \in {"count", "failed"}, audit' = [audit EXCEPT ![p].pc = x]
        PROVE  /\ audit' \in [Processes -> AuditCall]
               /\ audit'[p] = [audit[p] EXCEPT !.pc = x] /\ audit'[p].pc = x
               /\ \A q \in Processes \ {p} : audit'[q] = audit[q]
    <3>1. audit \in [Processes -> AuditCall]
      BY DEF AuditInv
    <3>2. audit'[p] = [audit[p] EXCEPT !.pc = x]
      BY <2>2, <3>1
    <3>3. audit'[p] \in AuditCall /\ audit'[p].pc = x
      BY <1>2, <3>2 DEF AuditCall, Pcs
    <3> QED BY <2>2, <3>1, <3>2, <3>3
  <2> QED BY <2>1, <2>2
<1>12. /\ audit'[p].pc = pc /\ audit'[p].event = audit[p].event
       /\ pc \notin Writing /\ pc # "create" /\ pc \notin {"events", "sign"} /\ pc # "sign"
  BY <1>2, <1>11 DEF Writing, AuditCall
<1>13. WriterOK(p)' /\ SealerOK(p)'
  <2>1. entries'[n].event = audit'[p].event /\ n \in Sequences'
    BY <1>3, <1>6, <1>12
  <2> HIDE DEF pc
  <2> QED BY <1>12, <2>1 DEF WriterOK, SealerOK, AuditAt
<1>14. \A q \in Processes \ {p} : WriterOK(q)'
  <2> SUFFICES ASSUME NEW q \in Processes \ {p} PROVE WriterOK(q)'
    OBVIOUS
  <2>1. audit'[q] = audit[q] /\ WriterOK(q)
    BY <1>11 DEF AuditInv
  <2>2. audit[q].pc \in Writing => audit[q].sequence # n
    BY <1>2 DEF AuditInv, Distinct
  <2>3. ~ AuditAt(q, "create")
    BY <2>1, <2>2 DEF WriterOK, AuditAt, Writing
  <2>4. audit[q].pc \in Writing => audit[q].sequence \notin Sequences'
    BY <1>3, <2>1, <2>2 DEF WriterOK
  <2>5. audit[q].pc \in Recorded => \E m \in Sequences' : entries'[m].event = audit[q].event
    BY <1>3, <2>1 DEF WriterOK
  <2> QED BY <1>9, <2>1, <2>3, <2>4, <2>5 DEF WriterOK, AuditAt
<1>15. \A q \in Processes \ {p} : SealerOK(q)'
  BY <1>3, <1>9, <1>11 DEF AuditInv, SealerOK, AuditAt
<1>16. Distinct'
  BY <1>11, <1>12 DEF AuditInv, Distinct
<1>17. faults' \in 0..MaxFaults
  BY AuditAssumption DEF AuditInv, CreateEntry
<1> QED BY <1>8, <1>10, <1>11, <1>13, <1>14, <1>15, <1>16, <1>17 DEF AuditInv

\* A checkpoint whose number is taken changes nothing; the next one starts where
\* the last one ends.
LEMMA SignCheckpointInv == ASSUME AuditInv, NEW p \in Processes, SignCheckpoint(p) PROVE AuditInv'
<1> DEFINE n == audit[p].number
           new == [first |-> audit[p].first, last |-> Max(audit[p].hashed),
                   hashed |-> audit[p].hashed]
<1>1. /\ ChainOK /\ CheckpointsOK /\ Sealed \in Nat /\ Numbers = 1..Sealed
      /\ Count \in Nat /\ Sequences = 0..Count - 1
  BY DEF AuditInv, ChainOK, CheckpointsOK
<1>2. /\ audit[p] \in AuditCall /\ audit[p].pc = "sign" /\ n \in 1..Sealed + 1
      /\ n = Sealed + 1 => audit[p].first = EndOf(checkpoints)
  BY DEF AuditInv, SignCheckpoint, AuditAt, SealerOK
<1>3. PICK m \in Sequences : audit[p].first <= m /\ audit[p].hashed = audit[p].first..m
  BY <1>2 DEF AuditInv, SealerOK, AuditAt
<1>4. /\ audit[p].first \in Nat /\ m \in Nat /\ Max(audit[p].hashed) = m
  <2>1. audit[p].first \in Nat /\ m \in Nat
    BY <1>1, <1>2 DEF AuditCall
  <2>2. Max(audit[p].first..m) = m
    BY <1>3, <2>1, MaxOfInterval
  <2> QED BY <1>3, <2>1, <2>2
<1>5. /\ checkpoints' = [k \in Numbers \cup {n} |-> IF k \in Numbers THEN checkpoints[k] ELSE new]
      /\ Numbers' = Numbers \cup {n}
  BY DEF SignCheckpoint, Numbers
<1>6. /\ entries' = entries /\ nextSequence' = nextSequence /\ faults' = faults
      /\ Sequences' = Sequences /\ Count' = Count
  BY DEF SignCheckpoint, Sequences, Count
<1>7. ChainOK'
  <2>1. \A k \in Sequences : PreviousHash(k)' = PreviousHash(k)
    BY <1>6 DEF PreviousHash
  <2> QED BY <1>1, <1>6, <2>1 DEF ChainOK
<1>8. CheckpointsOK' /\ Sealed' \in {Sealed, Sealed + 1}
                     /\ (Sealed' = Sealed => /\ Numbers' = Numbers
                                             /\ \A k \in Numbers : checkpoints'[k] = checkpoints[k])
  <2>1. CASE n \in Numbers
    <3>1. Numbers' = Numbers /\ Sealed' = Sealed /\ \A k \in Numbers : checkpoints'[k] = checkpoints[k]
      BY <1>5, <2>1 DEF Sealed
    <3>2. \A k \in Numbers : k # 1 => k - 1 \in Numbers
      BY <1>1
    <3> QED BY <1>1, <1>6, <3>1, <3>2 DEF CheckpointsOK
  <2>2. CASE n \notin Numbers
    <3>1. n = Sealed + 1
      BY <1>1, <1>2, <2>2
    <3>2. IsFiniteSet(Numbers)
      BY <1>1, FS_Interval
    <3>3. Sealed' = Sealed + 1 /\ Numbers' = 1..Sealed'
      <4>1. Sealed' = Sealed + 1
        BY <1>5, <2>2, <3>2, FS_AddElement DEF Sealed
      <4> QED BY <1>1, <1>5, <3>1, <4>1
    <3>4. checkpoints'[n] = new /\ \A k \in Numbers : checkpoints'[k] = checkpoints[k]
      BY <1>5, <2>2
    <3>5. ASSUME NEW k \in Numbers'
          PROVE  /\ checkpoints'[k] \in CheckpointDoc
                 /\ checkpoints'[k].first <= checkpoints'[k].last
                 /\ checkpoints'[k].last \in Sequences'
                 /\ checkpoints'[k].hashed = checkpoints'[k].first..checkpoints'[k].last
                 /\ checkpoints'[k].first = IF k = 1 THEN 0 ELSE checkpoints'[k - 1].last + 1
      <4>1. CASE k \in Numbers
        <5>1. k # 1 => k - 1 \in Numbers
          BY <1>1, <4>1
        <5> QED BY <1>1, <1>6, <3>4, <4>1, <5>1 DEF CheckpointsOK
      <4>2. CASE k = n
        <5>1. checkpoints'[k] = new /\ new.first = audit[p].first /\ new.last = m
              /\ new.hashed = audit[p].first..m
          BY <1>3, <1>4, <3>4, <4>2
        <5>2. new \in CheckpointDoc
          <6>1. audit[p].hashed \in SUBSET Nat
            BY <1>2 DEF AuditCall
          <6> QED BY <1>4, <6>1 DEF CheckpointDoc
        <5>3. audit[p].first = IF k = 1 THEN 0 ELSE checkpoints'[k - 1].last + 1
          <6>1. EndOf(checkpoints) = IF Sealed = 0 THEN 0 ELSE checkpoints[Sealed].last + 1
            BY <1>1, EndOfLast DEF Numbers
          <6>2. CASE Sealed = 0
            BY <1>2, <3>1, <4>2, <6>1, <6>2
          <6>3. CASE Sealed # 0
            <7>1. k # 1 /\ k - 1 = Sealed /\ Sealed \in Numbers
              BY <1>1, <3>1, <4>2, <6>3
            <7> QED BY <1>2, <3>1, <3>4, <6>1, <6>3, <7>1
          <6> QED BY <6>2, <6>3
        <5> HIDE DEF new
        <5> QED BY <1>3, <1>6, <5>1, <5>2, <5>3
      <4> QED BY <1>5, <4>1, <4>2
    <3>6. Sealed' \in Nat
      BY <1>1, <3>3
    <3>7. Sealed' # Sealed
      BY <1>1, <3>3
    <3> QED BY <3>3, <3>5, <3>6, <3>7 DEF CheckpointsOK
  <2> QED BY <2>1, <2>2
<1>9. /\ audit' \in [Processes -> AuditCall]
      /\ audit'[p].pc = "ok" /\ audit'[p].event = audit[p].event
      /\ \A q \in Processes \ {p} : audit'[q] = audit[q]
  <2>1. audit \in [Processes -> AuditCall] /\ audit' = [audit EXCEPT ![p].pc = "ok"]
    BY DEF AuditInv, SignCheckpoint, AuditGoto
  <2>2. audit'[p] = [audit[p] EXCEPT !.pc = "ok"]
    BY <2>1
  <2>3. audit'[p] \in AuditCall /\ audit'[p].pc = "ok" /\ audit'[p].event = audit[p].event
    BY <1>2, <2>2 DEF AuditCall, Pcs
  <2> QED BY <2>1, <2>3
<1>10. WriterOK(p)' /\ SealerOK(p)'
  <2>1. \E k \in Sequences : entries[k].event = audit[p].event
    BY <1>2 DEF AuditInv, WriterOK, Recorded
  <2> QED BY <1>6, <1>9, <2>1 DEF WriterOK, SealerOK, AuditAt, Writing
<1>11. \A q \in Processes \ {p} : WriterOK(q)'
  <2>1. PreviousHash(Count)' = PreviousHash(Count)
    BY <1>6 DEF PreviousHash
  <2> QED BY <1>6, <1>9, <2>1 DEF AuditInv, WriterOK, AuditAt
<1>12. \A q \in Processes \ {p} : SealerOK(q)'
  <2> SUFFICES ASSUME NEW q \in Processes \ {p} PROVE SealerOK(q)'
    OBVIOUS
  <2>1. audit'[q] = audit[q] /\ SealerOK(q)
    BY <1>9 DEF AuditInv
  <2>2. CASE Sealed' = Sealed
    <3>1. EndOf(checkpoints)' = EndOf(checkpoints)
      <4>1. EndOf(checkpoints) = IF Sealed = 0 THEN 0 ELSE checkpoints[Sealed].last + 1
        BY <1>1, EndOfLast DEF Numbers
      <4>2. EndOf(checkpoints') = IF Sealed' = 0 THEN 0 ELSE checkpoints'[Sealed'].last + 1
        BY <1>1, <1>8, <2>2, EndOfLast DEF Numbers
      <4>3. Sealed # 0 => Sealed \in Numbers
        BY <1>1
      <4>4. EndOf(checkpoints)' = EndOf(checkpoints')
        BY DEF EndOf, LastOf
      <4> QED BY <1>8, <2>2, <4>1, <4>2, <4>3, <4>4
    <3> QED BY <1>6, <2>1, <2>2, <3>1 DEF SealerOK, AuditAt
  <2>3. CASE Sealed' = Sealed + 1
    BY <1>1, <1>6, <2>1, <2>3 DEF SealerOK, AuditAt
  <2> QED BY <1>8, <2>2, <2>3
<1>13. Distinct'
  BY <1>9 DEF AuditInv, Distinct, Writing
<1>14. faults' \in 0..MaxFaults
  BY <1>6 DEF AuditInv
<1> QED BY <1>7, <1>8, <1>9, <1>10, <1>11, <1>12, <1>13, <1>14 DEF AuditInv

\* Whatever a process does on its own in the audit log keeps the log whole.
LEMMA AuditStepInv == ASSUME AuditInv, NEW p \in Processes, AuditStep(p) PROVE AuditInv'
BY LinkInv, GiveUpInv, CreateEntryInv, CountUnsealedInv, LastCheckpointInv, UnsealedEventsInv,
   SignCheckpointInv, AuditFailsInv DEF AuditStep

\* A step that does not touch the log.
LEMMA AuditStutter ==
    ASSUME AuditInv, UNCHANGED <<chainVars, audit>>, faults' \in 0..MaxFaults
    PROVE  AuditInv'
<1>1. /\ Sequences' = Sequences /\ Numbers' = Numbers /\ Count' = Count /\ Sealed' = Sealed
      /\ entries' = entries /\ checkpoints' = checkpoints /\ nextSequence' = nextSequence
      /\ audit' = audit /\ EndOf(checkpoints)' = EndOf(checkpoints)
  BY DEF chainVars, Sequences, Numbers, Count, Sealed
<1>2. \A k : PreviousHash(k)' = PreviousHash(k)
  BY <1>1 DEF PreviousHash
<1>3. ChainOK'
  BY <1>1, <1>2 DEF AuditInv, ChainOK
<1>4. CheckpointsOK'
  BY <1>1 DEF AuditInv, CheckpointsOK
<1>5. \A p \in Processes : WriterOK(p)'
  BY <1>1, <1>2 DEF AuditInv, WriterOK, AuditAt
<1>6. \A p \in Processes : SealerOK(p)'
  BY <1>1 DEF AuditInv, SealerOK, AuditAt
<1>7. Distinct'
  BY <1>1 DEF AuditInv, Distinct
<1> QED BY <1>1, <1>3, <1>4, <1>5, <1>6, <1>7 DEF AuditInv

-----------------------------------------------------------------------------
\* Seen from outside: the log is what the newest entry's hash stands for.
LEMMA NewestEntry ==
    ASSUME NEW e, NEW n \in Nat, DOMAIN e = 0..n - 1
    PROVE  (IF DOMAIN e = {} THEN <<>> ELSE e[Max(DOMAIN e)].eventHash)
              = IF n = 0 THEN <<>> ELSE e[n - 1].eventHash
BY LastEntry

LEMMA LogIsHash == ASSUME AuditInv PROVE Log = PreviousHash(Count) /\ Len(Log) = Count
<1>1. Count \in Nat /\ DOMAIN entries = 0..Count - 1
  BY DEF AuditInv, ChainOK, Sequences
<1>2. Log = PreviousHash(Count)
  BY <1>1, NewestEntry DEF Log, PreviousHash, Sequences
<1>3. Len(PreviousHash(Count)) = Count
  <2>1. CASE Count = 0
    BY <2>1, EmptySeq DEF PreviousHash
  <2>2. CASE Count # 0
    <3>1. Count - 1 \in Sequences
      BY <1>1, <2>2 DEF Sequences
    <3>2. Len(entries[Count - 1].eventHash) = Count - 1 + 1
      BY <3>1 DEF AuditInv, ChainOK
    <3> QED BY <1>1, <2>2, <3>2 DEF PreviousHash
  <2> QED BY <2>1, <2>2
<1> QED BY <1>2, <1>3

LEMMA InitIsEmpty == ASSUME AuditInit PROVE Abstract!Init
<1>1. Log = <<>>
  BY DEF AuditInit, Log, Sequences
<1>2. EndOf(checkpoints) = 0
  BY DEF AuditInit, EndOf
<1> QED BY <1>1, <1>2 DEF Abstract!Init

\* What adds no entry and no checkpoint is a stutter.
LEMMA NothingSeen ==
    ASSUME UNCHANGED <<entries, checkpoints>>
    PROVE  UNCHANGED Abstract!sealedVars
BY DEF Abstract!sealedVars, Log, EndOf, LastOf, Sequences

\* Writing an entry adds its event.
LEMMA CreateEntryAdds ==
    ASSUME AuditInv, NEW p \in Processes, CreateEntry(p)
    PROVE  Abstract!Next
<1>1. Count \in Nat /\ DOMAIN entries = 0..Count - 1
  BY DEF AuditInv, ChainOK, Sequences
<1>2. /\ audit[p].pc = "create" /\ audit[p].event \in Events
      /\ audit[p].sequence = Count /\ audit[p].previous = PreviousHash(Count)
  BY DEF AuditInv, CreateEntry, AuditAt, WriterOK, Writing
<1>3. DOMAIN entries' = 0..Count /\ entries'[Count] = Entry(p)
  <2>1. DOMAIN entries' = DOMAIN entries \cup {Count} /\ entries'[Count] = Entry(p)
    BY <1>1, <1>2 DEF CreateEntry, WithEntry, Sequences
  <2> QED BY <1>1, <2>1
<1>4. Log' = entries'[Count].eventHash
  <2> DEFINE n == Count + 1
  <2>1. n \in Nat /\ n # 0 /\ n - 1 = Count
    BY <1>1
  <2>2. DOMAIN entries' # {} /\ Max(DOMAIN entries') = Count
    <3> HIDE DEF n
    <3>1. 0..n - 1 # {} /\ Max(0..n - 1) = n - 1
      BY <2>1, LastEntry
    <3>2. DOMAIN entries' = 0..n - 1
      BY <1>3, <2>1
    <3> QED BY <2>1, <3>1, <3>2
  <2> QED BY <2>2 DEF Log, Sequences
<1>5. Log' = Append(Log, audit[p].event)
  BY <1>2, <1>3, <1>4, LogIsHash DEF Entry
<1>6. EndOf(checkpoints)' = EndOf(checkpoints)
  BY DEF CreateEntry, EndOf, LastOf
<1> QED BY <1>2, <1>5, <1>6 DEF Abstract!Next, Abstract!Add

\* Signing a checkpoint seals more of the log, or nothing.
LEMMA SignCheckpointSeals ==
    ASSUME AuditInv, NEW p \in Processes, SignCheckpoint(p)
    PROVE  Abstract!Next \/ UNCHANGED Abstract!sealedVars
<1> DEFINE n == audit[p].number
<1>1. /\ Sealed \in Nat /\ DOMAIN checkpoints = 1..Sealed /\ Numbers = 1..Sealed
      /\ Count \in Nat /\ Sequences = 0..Count - 1
      /\ EndOf(checkpoints) = IF Sealed = 0 THEN 0 ELSE checkpoints[Sealed].last + 1
  <2>1. /\ Sealed \in Nat /\ DOMAIN checkpoints = 1..Sealed /\ Numbers = 1..Sealed
        /\ Count \in Nat /\ Sequences = 0..Count - 1
    BY DEF AuditInv, ChainOK, CheckpointsOK, Numbers
  <2> QED BY <2>1, EndOfLast
<1>2. /\ audit[p] \in AuditCall /\ n \in 1..Sealed + 1
      /\ n = Sealed + 1 => audit[p].first = EndOf(checkpoints)
  BY DEF AuditInv, SignCheckpoint, AuditAt, SealerOK
<1>3. PICK m \in Sequences : audit[p].first <= m /\ audit[p].hashed = audit[p].first..m
  BY DEF AuditInv, SignCheckpoint, SealerOK
<1>4. /\ audit[p].first \in Nat /\ m \in Nat /\ Max(audit[p].hashed) = m
  <2>1. audit[p].first \in Nat /\ m \in Nat
    BY <1>1, <1>2 DEF AuditCall
  <2>2. Max(audit[p].first..m) = m
    BY <1>3, <2>1, MaxOfInterval
  <2> QED BY <1>3, <2>1, <2>2
<1>5. Log' = Log
  BY DEF SignCheckpoint, Log, Sequences
<1>6. CASE n \in Numbers
  <2>1. /\ DOMAIN checkpoints' = 1..Sealed
        /\ \A k \in Numbers : checkpoints'[k] = checkpoints[k]
    BY <1>1, <1>6 DEF SignCheckpoint
  <2>2. EndOf(checkpoints') = IF Sealed = 0 THEN 0 ELSE checkpoints'[Sealed].last + 1
    BY <1>1, <2>1, EndOfLast
  <2>3. Sealed # 0 => Sealed \in Numbers
    BY <1>1
  <2>4. EndOf(checkpoints)' = EndOf(checkpoints)
    BY <1>1, <2>1, <2>2, <2>3 DEF EndOf, LastOf
  <2> QED BY <1>5, <2>4 DEF Abstract!sealedVars
<1>7. CASE n \notin Numbers
  <2>1. n = Sealed + 1
    BY <1>1, <1>2, <1>7
  <2>2. DOMAIN checkpoints' = 1..n /\ checkpoints'[n].last = m
    <3>1. DOMAIN checkpoints' = Numbers \cup {n} /\ checkpoints'[n].last = m
      BY <1>4, <1>7 DEF SignCheckpoint
    <3> QED BY <1>1, <2>1, <3>1
  <2>3. EndOf(checkpoints') = m + 1
    BY <1>1, <2>1, <2>2, EndOfLast
  <2>4. EndOf(checkpoints)' = m + 1
    BY <2>3 DEF EndOf, LastOf
  <2>5. EndOf(checkpoints) < m + 1 /\ m + 1 \in 1..Len(Log) /\ m + 1 <= Len(Log)
    <3>1. Len(Log) = Count /\ m \in 0..Count - 1 /\ EndOf(checkpoints) <= m
      BY <1>1, <1>2, <1>3, <2>1, LogIsHash
    <3>2. EndOf(checkpoints) \in Int
      BY <1>2, <1>4, <2>1
    <3> QED BY <1>1, <1>4, <3>1, <3>2
  <2>6. Abstract!Seal(m + 1)
    BY <1>5, <2>4, <2>5 DEF Abstract!Seal
  <2> QED BY <2>5, <2>6 DEF Abstract!Next
<1> QED BY <1>6, <1>7

\* Every step of a process in the log is one of the abstract log, or a stutter.
LEMMA AuditStepSeen ==
    ASSUME AuditInv, NEW p \in Processes, AuditStep(p)
    PROVE  [Abstract!Next]_(Abstract!sealedVars)
<1>1. CASE CreateEntry(p)
  BY <1>1, CreateEntryAdds
<1>2. CASE SignCheckpoint(p)
  BY <1>2, SignCheckpointSeals
<1>3. CASE ~ CreateEntry(p) /\ ~ SignCheckpoint(p)
  <2>1. UNCHANGED <<entries, checkpoints>>
    BY <1>3 DEF AuditStep, Link, GiveUp, CountUnsealed, LastCheckpoint, UnsealedEvents, AuditFails,
                chainVars
  <2> QED BY <2>1, NothingSeen
<1> QED BY <1>1, <1>2, <1>3

-----------------------------------------------------------------------------
\* The transactions of the transitions.
Working == {"contract", "vehicle", "audit", "commit"}

\* What a transaction that is open has read is still there, but for what it has
\* missed, and it has missed nothing of what it has written.
CallOK(p) ==
    LET k == call[p]  r == call[p].request
    IN  /\ p \in open <=> k.pc \in Working
        /\ k.pc \in Working =>
              /\ r \in RequestDoc /\ k.from \in Status /\ Valid(k.from, r.target)
              /\ r.target = "VEHICLE_ASSIGNED" => k.vehicle = r.vehicle /\ r.vehicle # None
              /\ r.contract \notin missed[p] => contract[r.contract].status = k.from
              /\ r.target = "VEHICLE_ASSIGNED" /\ r.vehicle \notin missed[p]
                    => vehicle[r.vehicle] = "Available"
              /\ k.wrote \cap missed[p] = {}
        /\ k.wrote = (IF k.pc \in {"vehicle", "audit", "commit"} THEN {r.contract} ELSE {})
                       \cup IF k.pc \in {"audit", "commit"} /\ k.vehicle # None THEN {k.vehicle}
                            ELSE {}
        /\ k.pc = "vehicle" => k.vehicle # None

\* No document is written by two transactions at a time.
Exclusive ==
    \A p, q \in Processes : p # q => call[p].wrote \cap call[q].wrote = {}

TxnInv == /\ contract \in [Contracts -> ContractDoc]
          /\ vehicle \in [Vehicles -> VehicleStatus]
          /\ call \in [Processes -> CallState]
          /\ open \in SUBSET Processes
          /\ missed \in [Processes -> SUBSET (Contracts \cup Vehicles)]
          /\ \A p \in Processes : CallOK(p)
          /\ Exclusive

\* A process audits its own transition, and commits it only when the entry is there.
Linked(p) ==
    /\ call[p].pc \in {"start", "contract", "vehicle"} => audit[p].pc = "none"
    /\ call[p].pc = "commit" => audit[p].pc = "ok"
    /\ call[p].pc \in {"audit", "commit"} /\ audit[p].pc \in Writing \cup Recorded
          => audit[p].event = Event(p)

IInv == /\ AuditInv
        /\ TxnInv
        /\ \A p \in Processes : Linked(p)
        /\ TimelineTellsHistory
        /\ CommittedIsAudited

-----------------------------------------------------------------------------
\* The initial state.
LEMMA InitInv == Init => IInv
<1> SUFFICES ASSUME Init PROVE IInv
  OBVIOUS
<1>1. PICK s \in [Contracts -> Status] :
         /\ \A c \in Contracts : s[c] \in InitialStates[c]
         /\ contract = [c \in Contracts |->
                [status |-> s[c], version |-> 0, timeline |-> <<>>,
                 vehicle |-> IF s[c] \in {"PENDING_APPROVAL", "APPROVED"} THEN None
                             ELSE VehicleOf[c]]]
  BY DEF Init
<1>2. <<>> \in Seq(Events) /\ Len(<<>>) = 0
  BY EmptySeq
<1>3. contract \in [Contracts -> ContractDoc]
  BY <1>1, <1>2, ContractAssumption DEF ContractDoc
<1>4. vehicle \in [Vehicles -> VehicleStatus]
  BY DEF Init, InitialVehicle, VehicleStatus
<1>5. /\ call \in [Processes -> CallState]
      /\ \A p \in Processes : call[p].pc = "start" /\ call[p].wrote = {}
  BY DEF Init, CallState
<1>6. /\ open = {} /\ missed = [t \in Processes |-> {}]
  BY DEF Init, TxnInit
<1>7. \A p \in Processes : CallOK(p)
  BY <1>5, <1>6 DEF CallOK, Working
<1>8. TxnInv
  BY <1>3, <1>4, <1>5, <1>6, <1>7 DEF TxnInv, Exclusive
<1>9. AuditInv /\ \A p \in Processes : audit[p].pc = "none"
  BY AuditInitInv DEF Init, AuditInit, NoCall
<1>10. \A p \in Processes : Linked(p)
  BY <1>5, <1>9 DEF Linked
<1>11. \A c \in Contracts : /\ contract[c].timeline = <<>> /\ contract[c].version = 0
                            /\ 1..Len(contract[c].timeline) = {}
  BY <1>1, <1>2
<1>12. TimelineTellsHistory /\ CommittedIsAudited
  BY <1>2, <1>11 DEF TimelineTellsHistory, CommittedIsAudited
<1> QED BY <1>8, <1>9, <1>10, <1>12 DEF IInv

-----------------------------------------------------------------------------
\* A step of one process that changes no document.
LEMMA CallMoves ==
    ASSUME TxnInv, NEW p \in Processes, NEW new \in CallState, UNCHANGED <<contract, vehicle>>,
           call' = [call EXCEPT ![p] = new],
           open' \in SUBSET Processes, missed' \in [Processes -> SUBSET (Contracts \cup Vehicles)],
           \A q \in Processes \ {p} : (q \in open' <=> q \in open) /\ missed'[q] = missed[q],
           CallOK(p)',
           \A q \in Processes \ {p} : new.wrote \cap call[q].wrote = {}
    PROVE  TxnInv'
<1>1. call' \in [Processes -> CallState] /\ call'[p] = new
  BY DEF TxnInv
<1>2. \A q \in Processes \ {p} : call'[q] = call[q]
  BY DEF TxnInv
<1>3. ASSUME NEW q \in Processes \ {p} PROVE CallOK(q)'
  BY <1>2 DEF TxnInv, CallOK
<1>4. Exclusive'
  BY <1>1, <1>2 DEF TxnInv, Exclusive
<1> QED BY <1>1, <1>3, <1>4 DEF TxnInv

\* The transaction ends without an effect.
LEMMA GiveBackInv ==
    ASSUME TxnInv, NEW p \in Processes, NEW pc \in {"refused", "died"}, GiveBack(p, pc),
           UNCHANGED <<contract, vehicle>>
    PROVE  TxnInv'
<1> DEFINE new == [call[p] EXCEPT !.pc = pc, !.wrote = {}]
<1>1. call[p] \in CallState
  BY DEF TxnInv
<1>2. new \in CallState /\ new.pc = pc /\ new.wrote = {}
  BY <1>1 DEF CallState
<1>3. call' = [call EXCEPT ![p] = new] /\ call'[p] = new
  BY DEF GiveBack, TxnInv
<1>4. /\ open' = open \ {p} /\ missed' = [missed EXCEPT ![p] = {}]
      /\ missed' \in [Processes -> SUBSET (Contracts \cup Vehicles)]
  BY DEF GiveBack, TxnAbort, TxnInv
<1>5. CallOK(p)'
  <2> HIDE DEF new
  <2> QED BY <1>2, <1>3, <1>4 DEF CallOK, Working
<1>6. \A q \in Processes \ {p} : (q \in open' <=> q \in open) /\ missed'[q] = missed[q]
  BY <1>4 DEF TxnInv
<1>7. open' \in SUBSET Processes
  BY <1>4 DEF TxnInv
<1> HIDE DEF new
<1>8. \A q \in Processes \ {p} : new.wrote \cap call[q].wrote = {}
  BY <1>2
<1> QED BY <1>2, <1>3, <1>4, <1>5, <1>6, <1>7, <1>8, CallMoves

\* The call reads what the transition needs, or ends.
LEMMA StartInv ==
    ASSUME TxnInv, NEW p \in Processes, NEW r \in Requests[p], Start(p, r)
    PROVE  TxnInv'
<1> DEFINE c == contract[r.contract]
           new == [call[p] EXCEPT !.pc = "contract", !.request = r, !.from = c.status,
                                  !.vehicle = Touches(r)]
<1>1. /\ call[p] \in CallState /\ call[p].pc = "start" /\ r \in RequestDoc
      /\ r.contract \in Contracts /\ c \in ContractDoc
      /\ call[p].wrote = {} /\ p \notin open
  <2>1. call[p] \in CallState /\ call[p].pc = "start" /\ CallOK(p)
    BY DEF TxnInv, Start, At
  <2>2. r \in RequestDoc
    BY ContractAssumption
  <2> QED BY <2>1, <2>2 DEF TxnInv, CallOK, Working, RequestDoc
<1>2. CASE /\ c.status # r.target /\ Valid(c.status, r.target)
           /\ Allowed(r.target, r.actor) /\ Precondition(r)
  <2>1. Touches(r) \in Vehicles \cup {None}
    BY <1>1 DEF Touches, RequestDoc, ContractDoc
  <2>2. r.target = "VEHICLE_ASSIGNED" =>
           Touches(r) = r.vehicle /\ r.vehicle # None /\ vehicle[r.vehicle] = "Available"
    BY <1>2 DEF Touches, Precondition
  <2>3. /\ new \in CallState /\ new.pc = "contract" /\ new.request = r /\ new.from = c.status
        /\ new.vehicle = Touches(r) /\ new.wrote = {}
    BY <1>1, <2>1 DEF CallState, ContractDoc
  <2>4. /\ call' = [call EXCEPT ![p] = new] /\ call'[p] = new
        /\ open' = open \cup {p} /\ missed' = missed
        /\ contract' = contract /\ vehicle' = vehicle
    BY <1>2 DEF Start, TxnBegin, TxnInv
  <2>5. CallOK(p)'
    <3>1. c.status \in Status /\ Valid(c.status, r.target)
      BY <1>1, <1>2 DEF ContractDoc
    <3> HIDE DEF new
    <3> QED BY <1>1, <2>2, <2>3, <2>4, <3>1 DEF CallOK, Working
  <2> HIDE DEF new
  <2> QED BY <2>3, <2>4, <2>5, CallMoves DEF TxnInv
<1>3. CASE ~(/\ c.status # r.target /\ Valid(c.status, r.target)
             /\ Allowed(r.target, r.actor) /\ Precondition(r))
  <2> DEFINE end == [call[p] EXCEPT !.pc = "refused"]
  <2>1. end \in CallState /\ end.pc = "refused" /\ end.wrote = {}
    BY <1>1 DEF CallState
  <2>2. /\ call' = [call EXCEPT ![p] = end] /\ call'[p] = end
        /\ open' = open /\ missed' = missed /\ contract' = contract /\ vehicle' = vehicle
    BY <1>3 DEF Start, Goto, TxnInv
  <2>3. CallOK(p)'
    <3> HIDE DEF end
    <3> QED BY <1>1, <2>1, <2>2 DEF CallOK, Working
  <2> HIDE DEF end
  <2> QED BY <2>1, <2>2, <2>3, CallMoves DEF TxnInv
<1> QED BY <1>2, <1>3

\* A document that is written is nobody else's.
LEMMA FreeOfOthers ==
    ASSUME TxnInv, NEW p \in Processes, NEW d, Free(p, d)
    PROVE  /\ d \notin missed[p]
           /\ \A q \in Processes \ {p} : d \notin call[q].wrote
<1> SUFFICES ASSUME NEW q \in Processes \ {p}, q \notin open PROVE call[q].wrote = {}
  BY DEF Free
<1> QED BY DEF TxnInv, CallOK, Working

LEMMA UpdateContractInv ==
    ASSUME TxnInv, NEW p \in Processes, UpdateContract(p)
    PROVE  TxnInv'
<1> DEFINE r == call[p].request
           new == [call[p] EXCEPT !.pc = IF call[p].vehicle = None THEN "audit" ELSE "vehicle",
                                  !.wrote = {r.contract}]
<1>1. /\ call[p] \in CallState /\ call[p].pc = "contract" /\ CallOK(p)
      /\ p \in open /\ r \in RequestDoc /\ r.contract \in Contracts
  <2>1. call[p] \in CallState /\ call[p].pc = "contract" /\ CallOK(p)
    BY DEF TxnInv, UpdateContract, At
  <2> QED BY <2>1 DEF CallOK, Working, RequestDoc
<1>2. CASE Free(p, r.contract) /\ r.version \in {None, contract[r.contract].version}
  <2>1. /\ r.contract \notin missed[p]
        /\ \A q \in Processes \ {p} : r.contract \notin call[q].wrote
    BY <1>2, FreeOfOthers
  <2>2. /\ new \in CallState /\ new.wrote = {r.contract}
        /\ new.pc = (IF call[p].vehicle = None THEN "audit" ELSE "vehicle")
        /\ new.request = r /\ new.from = call[p].from /\ new.vehicle = call[p].vehicle
    BY <1>1 DEF CallState
  <2>3. /\ call' = [call EXCEPT ![p] = new] /\ call'[p] = new
        /\ open' = open /\ missed' = missed /\ contract' = contract /\ vehicle' = vehicle
    <3>1. call' = [call EXCEPT ![p] = new]
      BY <1>2 DEF UpdateContract
    <3> QED BY <1>2, <3>1 DEF UpdateContract, TxnInv
  <2>4. CallOK(p)'
    <3> HIDE DEF new
    <3>1. CASE call[p].vehicle = None
      BY <1>1, <2>1, <2>2, <2>3, <3>1 DEF CallOK, Working
    <3>2. CASE call[p].vehicle # None
      BY <1>1, <2>1, <2>2, <2>3, <3>2 DEF CallOK, Working
    <3> QED BY <3>1, <3>2
  <2>5. \A q \in Processes \ {p} : new.wrote \cap call[q].wrote = {}
    BY <2>1, <2>2
  <2>6. /\ open' \in SUBSET Processes
        /\ missed' \in [Processes -> SUBSET (Contracts \cup Vehicles)]
    BY <2>3 DEF TxnInv
  <2> HIDE DEF new
  <2> QED BY <2>2, <2>3, <2>4, <2>5, <2>6, CallMoves
<1>3. CASE ~(Free(p, r.contract) /\ r.version \in {None, contract[r.contract].version})
  BY <1>3, GiveBackInv DEF UpdateContract
<1> QED BY <1>2, <1>3

LEMMA UpdateVehicleInv ==
    ASSUME TxnInv, NEW p \in Processes, UpdateVehicle(p)
    PROVE  TxnInv'
<1> DEFINE v == call[p].vehicle
           new == [call[p] EXCEPT !.pc = "audit", !.wrote = call[p].wrote \cup {v}]
<1>1. /\ call[p] \in CallState /\ call[p].pc = "vehicle" /\ CallOK(p)
      /\ p \in open /\ v # None /\ v \in Vehicles
      /\ call[p].wrote = {call[p].request.contract}
  <2>1. call[p] \in CallState /\ call[p].pc = "vehicle" /\ CallOK(p)
    BY DEF TxnInv, UpdateVehicle, At
  <2> QED BY <2>1 DEF CallOK, Working, CallState
<1>2. CASE Free(p, v)
  <2>1. v \notin missed[p] /\ \A q \in Processes \ {p} : v \notin call[q].wrote
    BY <1>2, FreeOfOthers
  <2>2. /\ new \in CallState /\ new.wrote = call[p].wrote \cup {v} /\ new.pc = "audit"
        /\ new.request = call[p].request /\ new.from = call[p].from /\ new.vehicle = v
    BY <1>1 DEF CallState
  <2>3. /\ call' = [call EXCEPT ![p] = new] /\ call'[p] = new
        /\ open' = open /\ missed' = missed /\ contract' = contract /\ vehicle' = vehicle
    <3>1. call' = [call EXCEPT ![p] = new]
      BY <1>2 DEF UpdateVehicle
    <3>2. call \in [Processes -> CallState]
      BY DEF TxnInv
    <3>3. UNCHANGED <<contract, vehicle, open, missed>>
      BY <1>2 DEF UpdateVehicle
    <3> HIDE DEF new
    <3> QED BY <3>1, <3>2, <3>3
  <2>4. CallOK(p)'
    <3> HIDE DEF new
    <3> QED BY <1>1, <2>1, <2>2, <2>3 DEF CallOK, Working
  <2>5. \A q \in Processes \ {p} : new.wrote \cap call[q].wrote = {}
    BY <2>1, <2>2 DEF TxnInv, Exclusive
  <2> HIDE DEF new
  <2> QED BY <2>2, <2>3, <2>4, <2>5, CallMoves DEF TxnInv
<1>3. CASE ~ Free(p, v)
  BY <1>3, GiveBackInv DEF UpdateVehicle
<1> QED BY <1>2, <1>3

LEMMA AuditedInv ==
    ASSUME TxnInv, NEW p \in Processes, Audited(p)
    PROVE  TxnInv'
<1> DEFINE new == [call[p] EXCEPT !.pc = "commit"]
<1>1. CASE Goto(p, "commit") /\ UNCHANGED <<open, missed>>
  <2>1. call[p] \in CallState /\ call[p].pc = "audit" /\ CallOK(p)
    BY DEF TxnInv, Audited, At
  <2>2. /\ new \in CallState /\ new.wrote = call[p].wrote /\ new.pc = "commit"
        /\ new.request = call[p].request /\ new.from = call[p].from
        /\ new.vehicle = call[p].vehicle
    BY <2>1 DEF CallState
  <2>3. /\ call' = [call EXCEPT ![p] = new] /\ call'[p] = new
        /\ open' = open /\ missed' = missed /\ contract' = contract /\ vehicle' = vehicle
    BY <1>1 DEF Audited, Goto, TxnInv
  <2>4. CallOK(p)'
    <3> HIDE DEF new
    <3> QED BY <2>1, <2>2, <2>3 DEF CallOK, Working
  <2>5. \A q \in Processes \ {p} : new.wrote \cap call[q].wrote = {}
    BY <2>2 DEF TxnInv, Exclusive
  <2> HIDE DEF new
  <2> QED BY <2>2, <2>3, <2>4, <2>5, CallMoves DEF TxnInv
<1>2. CASE GiveBack(p, "refused")
  BY <1>2, GiveBackInv DEF Audited
<1> QED BY <1>1, <1>2 DEF Audited

\* What a transaction that commits has written it has also read as it was.
LEMMA CommitReads ==
    ASSUME TxnInv, NEW p \in Processes, At(p, "commit")
    PROVE  LET k == call[p]  r == call[p].request
           IN  /\ r \in RequestDoc /\ r.contract \in Contracts /\ k.from \in Status
               /\ Valid(k.from, r.target) /\ Event(p) \in Events
               /\ contract[r.contract].status = k.from
               /\ r.target = "VEHICLE_ASSIGNED" =>
                     /\ r.vehicle \in Vehicles /\ k.vehicle = r.vehicle
                     /\ vehicle[r.vehicle] = "Available"
               /\ k.wrote = {r.contract} \cup IF k.vehicle = None THEN {} ELSE {k.vehicle}
<1> DEFINE k == call[p]
           r == call[p].request
<1>1. call[p] \in CallState /\ k.pc = "commit" /\ CallOK(p)
  BY DEF TxnInv, At
<1>2. /\ r \in RequestDoc /\ k.from \in Status /\ Valid(k.from, r.target)
      /\ k.wrote = {r.contract} \cup IF k.vehicle = None THEN {} ELSE {k.vehicle}
  BY <1>1 DEF CallOK, Working
<1>3. r.contract \in Contracts /\ r.target \in Status /\ r.vehicle \in Vehicles \cup {None}
  BY <1>2 DEF RequestDoc
<1>4. Event(p) \in Events
  <2>1. /\ Event(p) \in [process : Processes, contract : Contracts, from : Status, to : Status]
        /\ Event(p).from = k.from /\ Event(p).to = r.target
    BY <1>2, <1>3 DEF Event
  <2> QED BY <1>2, <2>1, ContractAssumption
<1>5. r.contract \notin missed[p] /\ contract[r.contract].status = k.from
  BY <1>1, <1>2 DEF CallOK, Working
<1>6. r.target = "VEHICLE_ASSIGNED" =>
         /\ r.vehicle \in Vehicles /\ k.vehicle = r.vehicle /\ vehicle[r.vehicle] = "Available"
  BY <1>1, <1>2, <1>3 DEF CallOK, Working
<1> QED BY <1>2, <1>3, <1>4, <1>5, <1>6

\* A commit changes only what it has written, and the others miss it.
LEMMA CommitInv ==
    ASSUME TxnInv, NEW p \in Processes, CommitTransition(p)
    PROVE  TxnInv'
<1> DEFINE k == call[p]
           r == call[p].request
           new == [call[p] EXCEPT !.pc = "applied", !.wrote = {}]
           doc == [status   |-> r.target,
                   version  |-> contract[r.contract].version + 1,
                   vehicle  |-> IF r.target = "VEHICLE_ASSIGNED" THEN r.vehicle
                                ELSE contract[r.contract].vehicle,
                   timeline |-> Append(contract[r.contract].timeline, Event(p))]
<1>1. /\ At(p, "commit") /\ k \in CallState
      /\ r \in RequestDoc /\ r.contract \in Contracts /\ Event(p) \in Events
      /\ k.wrote = {r.contract} \cup IF k.vehicle = None THEN {} ELSE {k.vehicle}
      /\ k.vehicle \in Vehicles \cup {None}
  <2>1. At(p, "commit") /\ k \in CallState
    BY DEF TxnInv, CommitTransition
  <2> QED BY <2>1, CommitReads DEF CallState
<1>2. /\ contract' = [contract EXCEPT ![r.contract] = doc]
      /\ contract \in [Contracts -> ContractDoc]
  BY DEF CommitTransition, Applied, TxnInv
<1>3. doc \in ContractDoc
  <2>1. /\ contract[r.contract].version + 1 \in Nat
        /\ Append(contract[r.contract].timeline, Event(p)) \in Seq(Events)
    BY <1>1, <1>2, AppendProperties DEF ContractDoc
  <2>2. r.target \in Status /\ r.vehicle \in Vehicles \cup {None}
    BY <1>1 DEF RequestDoc
  <2>3. contract[r.contract].vehicle \in Vehicles \cup {None}
    BY <1>1, <1>2 DEF ContractDoc
  <2> QED BY <2>1, <2>2, <2>3 DEF ContractDoc
<1>4. contract' \in [Contracts -> ContractDoc] /\ \A c \in Contracts \ {r.contract} : contract'[c] = contract[c]
  <2> HIDE DEF doc
  <2> QED BY <1>1, <1>2, <1>3
<1>5. /\ vehicle' \in [Vehicles -> VehicleStatus]
      /\ \A v \in Vehicles \ {k.vehicle} : vehicle'[v] = vehicle[v]
  <2>1. StatusAfter(r.target) \in VehicleStatus
    BY DEF StatusAfter, VehicleStatus
  <2>2. vehicle' = IF k.vehicle = None THEN vehicle
                   ELSE [vehicle EXCEPT ![k.vehicle] = StatusAfter(r.target)]
    BY DEF CommitTransition
  <2>3. vehicle \in [Vehicles -> VehicleStatus]
    BY DEF TxnInv
  <2> QED BY <2>1, <2>2, <2>3
<1>6. new \in CallState /\ new.pc = "applied" /\ new.wrote = {}
  BY <1>1 DEF CallState
<1>7. /\ call' = [call EXCEPT ![p] = new] /\ call'[p] = new
      /\ call' \in [Processes -> CallState]
      /\ \A q \in Processes \ {p} : call'[q] = call[q]
  <2>1. call' = [call EXCEPT ![p] = new]
    BY DEF CommitTransition
  <2>2. call \in [Processes -> CallState]
    BY DEF TxnInv
  <2> HIDE DEF new
  <2> QED BY <1>6, <2>1, <2>2
<1>8. /\ open' = open \ {p} /\ open' \in SUBSET Processes
      /\ missed' \in [Processes -> SUBSET (Contracts \cup Vehicles)]
      /\ \A q \in Processes \ {p} : missed'[q] = IF q \in open THEN missed[q] \cup k.wrote ELSE {}
  <2>1. open' = open \ {p}
    BY DEF CommitTransition
  <2>2. missed' = [o \in Processes |-> IF o \in open \ {p} THEN missed[o] \cup k.wrote ELSE {}]
    BY DEF CommitTransition, Publish
  <2>3. k.wrote \subseteq Contracts \cup Vehicles
    BY <1>1
  <2>4. missed \in [Processes -> SUBSET (Contracts \cup Vehicles)] /\ open \in SUBSET Processes
    BY DEF TxnInv
  <2> QED BY <2>1, <2>2, <2>3, <2>4
<1>9. CallOK(p)'
  <2> HIDE DEF new
  <2> QED BY <1>6, <1>7, <1>8 DEF CallOK, Working
<1>10. ASSUME NEW q \in Processes \ {p} PROVE CallOK(q)'
  <2>1. CallOK(q) /\ call'[q] = call[q] /\ (q \in open' <=> q \in open)
    BY <1>7, <1>8 DEF TxnInv
  <2>2. CASE call[q].pc \notin Working
    BY <2>1, <2>2 DEF CallOK
  <2>3. CASE call[q].pc \in Working
    <3> DEFINE rq == call[q].request
    <3>1. q \in open /\ missed'[q] = missed[q] \cup k.wrote /\ rq \in RequestDoc
      BY <1>8, <2>1, <2>3 DEF CallOK
    <3>2. rq.contract \in Contracts /\ rq.vehicle \in Vehicles \cup {None}
      BY <3>1 DEF RequestDoc
    <3>3. rq.contract \notin missed'[q] => contract'[rq.contract].status = call[q].from
      BY <1>1, <1>4, <2>1, <2>3, <3>1, <3>2 DEF CallOK
    <3>4. rq.target = "VEHICLE_ASSIGNED" /\ rq.vehicle \notin missed'[q]
             => vehicle'[rq.vehicle] = "Available"
      BY <1>1, <1>5, <2>1, <2>3, <3>1, <3>2 DEF CallOK
    <3>5. call[q].wrote \cap missed'[q] = {}
      BY <2>1, <2>3, <3>1 DEF CallOK, TxnInv, Exclusive
    <3> QED BY <2>1, <3>3, <3>4, <3>5 DEF CallOK
  <2> QED BY <2>2, <2>3
<1>11. Exclusive'
  <2> HIDE DEF new
  <2> QED BY <1>6, <1>7 DEF TxnInv, Exclusive
<1> QED BY <1>4, <1>5, <1>7, <1>8, <1>9, <1>10, <1>11 DEF TxnInv

\* A write from outside is missed by every open transaction, and hits none that
\* has written the same vehicle.
LEMMA WriteVehicleInv ==
    ASSUME TxnInv, NEW v \in Vehicles, NEW s \in VehicleStatus, WriteVehicle(v, s)
    PROVE  TxnInv'
<1>1. /\ call' = call /\ contract' = contract /\ open' = open
      /\ vehicle' \in [Vehicles -> VehicleStatus]
      /\ \A w \in Vehicles \ {v} : vehicle'[w] = vehicle[w]
  BY DEF WriteVehicle, PlainWrite, TxnInv
<1>2. /\ missed' \in [Processes -> SUBSET (Contracts \cup Vehicles)]
      /\ \A q \in Processes : missed'[q] = IF q \in open THEN missed[q] \cup {v} ELSE missed[q]
  BY DEF WriteVehicle, PlainWrite, TxnInv
<1>3. ASSUME NEW q \in Processes PROVE CallOK(q)'
  <2>1. CallOK(q)
    BY DEF TxnInv
  <2>2. CASE call[q].pc \notin Working
    BY <1>1, <2>1, <2>2 DEF CallOK
  <2>3. CASE call[q].pc \in Working
    <3> DEFINE rq == call[q].request
    <3>1. q \in open /\ missed'[q] = missed[q] \cup {v} /\ v \notin call[q].wrote
          /\ rq \in RequestDoc
      BY <1>2, <2>1, <2>3 DEF CallOK, WriteVehicle
    <3>2. rq.vehicle \in Vehicles \cup {None}
      BY <3>1 DEF RequestDoc
    <3>3. rq.target = "VEHICLE_ASSIGNED" /\ rq.vehicle \notin missed'[q]
             => vehicle'[rq.vehicle] = "Available"
      BY <1>1, <2>1, <2>3, <3>1, <3>2 DEF CallOK
    <3>4. rq.contract \notin missed'[q] => contract'[rq.contract].status = call[q].from
      BY <1>1, <2>1, <2>3, <3>1 DEF CallOK
    <3>5. call[q].wrote \cap missed'[q] = {}
      BY <2>1, <2>3, <3>1 DEF CallOK
    <3> QED BY <1>1, <2>1, <3>3, <3>4, <3>5 DEF CallOK
  <2> QED BY <2>2, <2>3
<1>4. Exclusive'
  BY <1>1 DEF TxnInv, Exclusive
<1> QED BY <1>1, <1>2, <1>3, <1>4 DEF TxnInv

\* What the audit log does is no concern of the transactions.
LEMMA TxnStutter == ASSUME TxnInv, UNCHANGED contractVars PROVE TxnInv'
<1>1. /\ contract' = contract /\ vehicle' = vehicle /\ open' = open /\ missed' = missed
      /\ call' = call
  BY DEF contractVars
<1>2. ASSUME NEW q \in Processes PROVE CallOK(q)'
  BY <1>1 DEF TxnInv, CallOK
<1> QED BY <1>1, <1>2 DEF TxnInv, Exclusive

-----------------------------------------------------------------------------
\* What has been written to the log stays, and a call of it keeps its event.
LEMMA LogKeeps ==
    ASSUME AuditInv, NEW p \in Processes, AuditStep(p)
    PROVE  /\ \A n \in Sequences : n \in Sequences' /\ entries'[n] = entries[n]
           /\ \A q \in Processes \ {p} : audit'[q] = audit[q]
           /\ audit'[p].event = audit[p].event
           /\ audit[p].pc \in (Writing \cup Recorded) \ {"ok"}
<1>1. audit \in [Processes -> AuditCall] /\ audit[p] \in AuditCall
  BY DEF AuditInv
<1>2. \A n \in Sequences : n \in Sequences' /\ entries'[n] = entries[n]
  <2>1. CASE CreateEntry(p)
    <3>1. entries' = WithEntry(p)
      BY <2>1 DEF CreateEntry
    <3> QED BY <3>1 DEF WithEntry, Sequences
  <2>2. CASE ~ CreateEntry(p)
    <3>1. entries' = entries
      BY <2>2 DEF AuditStep, Link, GiveUp, CountUnsealed, LastCheckpoint, UnsealedEvents,
                  SignCheckpoint, AuditFails, chainVars
    <3> QED BY <3>1 DEF Sequences
  <2> QED BY <2>1, <2>2
<1>3. CASE Link(p)
  BY <1>1, <1>2, <1>3 DEF Link, AuditAt, Writing, Recorded, AuditCall
<1>4. CASE GiveUp(p)
  BY <1>1, <1>2, <1>4 DEF GiveUp, AuditAt, AuditGoto, Writing, Recorded, AuditCall
<1>5. CASE CreateEntry(p)
  BY <1>1, <1>2, <1>5 DEF CreateEntry, AuditAt, AuditGoto, Writing, Recorded, AuditCall
<1>6. CASE CountUnsealed(p)
  BY <1>1, <1>2, <1>6 DEF CountUnsealed, AuditAt, AuditGoto, Writing, Recorded, AuditCall
<1>7. CASE LastCheckpoint(p)
  BY <1>1, <1>2, <1>7 DEF LastCheckpoint, AuditAt, Writing, Recorded, AuditCall
<1>8. CASE UnsealedEvents(p)
  BY <1>1, <1>2, <1>8 DEF UnsealedEvents, AuditAt, Writing, Recorded, AuditCall
<1>9. CASE SignCheckpoint(p)
  BY <1>1, <1>2, <1>9 DEF SignCheckpoint, AuditAt, AuditGoto, Writing, Recorded, AuditCall
<1>10. CASE AuditFails(p)
  BY <1>1, <1>2, <1>10 DEF AuditFails, AuditAt, AuditGoto, Writing, Recorded, AuditCall
<1> QED BY <1>3, <1>4, <1>5, <1>6, <1>7, <1>8, <1>9, <1>10 DEF AuditStep

\* As long as the contracts stay and the log only grows, their timelines tell
\* their history and are in the log.
LEMMA HistoryStays ==
    ASSUME TimelineTellsHistory, CommittedIsAudited, UNCHANGED contract,
           \A n \in Sequences : n \in Sequences' /\ entries'[n] = entries[n]
    PROVE  TimelineTellsHistory' /\ CommittedIsAudited'
BY DEF TimelineTellsHistory, CommittedIsAudited

\* A process leaves the others' links alone.
LEMMA OthersLinked ==
    ASSUME \A q \in Processes : Linked(q), NEW p \in Processes, Linked(p)',
           \A q \in Processes \ {p} : call'[q] = call[q] /\ audit'[q] = audit[q]
    PROVE  \A q \in Processes : Linked(q)'
<1> SUFFICES ASSUME NEW q \in Processes \ {p} PROVE Linked(q)'
  OBVIOUS
<1>1. call'[q] = call[q] /\ audit'[q] = audit[q] /\ Event(q)' = Event(q)
  BY DEF Event
<1> QED BY <1>1 DEF Linked

\* A process that has ended is linked to nothing.
LEMMA EndedLinked ==
    ASSUME NEW p \in Processes, call'[p].pc \in {"applied", "refused", "died"}
    PROVE  Linked(p)'
BY DEF Linked

\* The same for a step that does not touch the log.
LEMMA StepOutsideLog ==
    ASSUME IInv, TxnInv', UNCHANGED <<chainVars, audit>>, faults' \in 0..MaxFaults,
           UNCHANGED contract, \A q \in Processes : Linked(q)'
    PROVE  IInv'
<1>1. AuditInv'
  BY AuditStutter DEF IInv
<1>2. TimelineTellsHistory' /\ CommittedIsAudited'
  BY HistoryStays DEF IInv, chainVars, Sequences
<1> QED BY <1>1, <1>2 DEF IInv

LEMMA StartStep == ASSUME IInv, NEW p \in Processes, NEW r \in Requests[p], Start(p, r) PROVE IInv'
<1>1. TxnInv'
  BY StartInv DEF IInv
<1>2. /\ audit' = audit /\ UNCHANGED chainVars /\ faults' \in 0..MaxFaults /\ contract' = contract
      /\ \A q \in Processes \ {p} : call'[q] = call[q] /\ audit'[q] = audit[q]
      /\ call'[p].pc \in {"contract", "refused"} /\ call[p].pc = "start"
  <2>1. /\ UNCHANGED auditVars /\ contract' = contract /\ call[p].pc = "start"
        /\ call[p] \in CallState /\ call \in [Processes -> CallState]
    BY DEF Start, At, IInv, TxnInv
  <2>2. CASE Goto(p, "refused")
    BY <2>1, <2>2 DEF Goto, CallState, auditVars, IInv, AuditInv
  <2>3. CASE ~ Goto(p, "refused")
    <3>1. PICK k : /\ call' = [call EXCEPT ![p] = k]
                   /\ k = [call[p] EXCEPT !.pc = "contract", !.request = r,
                                          !.from = contract[r.contract].status,
                                          !.vehicle = Touches(r)]
      BY <2>3 DEF Start
    <3>2. k.pc = "contract"
      BY <2>1, <3>1 DEF CallState
    <3> QED BY <2>1, <3>1, <3>2 DEF auditVars, IInv, AuditInv
  <2> QED BY <2>2, <2>3
<1>3. Linked(p)'
  BY <1>2 DEF Linked, IInv
<1>4. \A q \in Processes : Linked(q)'
  BY <1>2, <1>3, OthersLinked DEF IInv
<1> QED BY <1>1, <1>2, <1>4, StepOutsideLog

\* Whoever gives back leaves the others alone.
LEMMA GivenBack ==
    ASSUME TxnInv, NEW p \in Processes, NEW pc \in {"refused", "died"}, GiveBack(p, pc)
    PROVE  call'[p].pc = pc /\ \A q \in Processes \ {p} : call'[q] = call[q]
<1>1. call[p] \in CallState /\ call \in [Processes -> CallState]
  BY DEF TxnInv
<1>2. call'[p] = [call[p] EXCEPT !.pc = pc, !.wrote = {}]
  BY <1>1 DEF GiveBack
<1> QED BY <1>1, <1>2 DEF GiveBack, CallState

LEMMA UpdateContractStep == ASSUME IInv, NEW p \in Processes, UpdateContract(p) PROVE IInv'
<1>1. TxnInv'
  BY UpdateContractInv DEF IInv
<1>2. /\ audit' = audit /\ UNCHANGED chainVars /\ faults' \in 0..MaxFaults /\ contract' = contract
      /\ \A q \in Processes \ {p} : call'[q] = call[q] /\ audit'[q] = audit[q]
      /\ call'[p].pc \in {"audit", "vehicle", "refused"} /\ call[p].pc = "contract"
  <2>1. /\ UNCHANGED auditVars /\ contract' = contract /\ call[p].pc = "contract"
        /\ call[p] \in CallState /\ call \in [Processes -> CallState]
    BY DEF UpdateContract, At, IInv, TxnInv
  <2>2. CASE GiveBack(p, "refused")
    BY <2>1, <2>2, GivenBack DEF auditVars, IInv, AuditInv
  <2>3. CASE ~ GiveBack(p, "refused")
    <3>1. PICK k : /\ call' = [call EXCEPT ![p] = k]
                   /\ k = [call[p] EXCEPT
                           !.pc = IF call[p].vehicle = None THEN "audit" ELSE "vehicle",
                           !.wrote = {call[p].request.contract}]
      BY <2>3 DEF UpdateContract
    <3>2. k.pc \in {"audit", "vehicle"}
      BY <2>1, <3>1 DEF CallState
    <3> QED BY <2>1, <3>1, <3>2 DEF auditVars, IInv, AuditInv
  <2> QED BY <2>2, <2>3
<1>3. Linked(p)'
  BY <1>2 DEF Linked, IInv, Writing, Recorded
<1>4. \A q \in Processes : Linked(q)'
  BY <1>2, <1>3, OthersLinked DEF IInv
<1> QED BY <1>1, <1>2, <1>4, StepOutsideLog

LEMMA UpdateVehicleStep == ASSUME IInv, NEW p \in Processes, UpdateVehicle(p) PROVE IInv'
<1>1. TxnInv'
  BY UpdateVehicleInv DEF IInv
<1>2. /\ audit' = audit /\ UNCHANGED chainVars /\ faults' \in 0..MaxFaults /\ contract' = contract
      /\ \A q \in Processes \ {p} : call'[q] = call[q] /\ audit'[q] = audit[q]
      /\ call'[p].pc \in {"audit", "refused"} /\ call[p].pc = "vehicle"
  <2>1. /\ UNCHANGED auditVars /\ contract' = contract /\ call[p].pc = "vehicle"
        /\ call[p] \in CallState /\ call \in [Processes -> CallState]
    BY DEF UpdateVehicle, At, IInv, TxnInv
  <2>2. CASE GiveBack(p, "refused")
    BY <2>1, <2>2, GivenBack DEF auditVars, IInv, AuditInv
  <2>3. CASE ~ GiveBack(p, "refused")
    <3>1. PICK k : /\ call' = [call EXCEPT ![p] = k]
                   /\ k = [call[p] EXCEPT
                           !.pc = "audit", !.wrote = call[p].wrote \cup {call[p].vehicle}]
      BY <2>3 DEF UpdateVehicle
    <3>2. k.pc \in {"audit"}
      BY <2>1, <3>1 DEF CallState
    <3> QED BY <2>1, <3>1, <3>2 DEF auditVars, IInv, AuditInv
  <2> QED BY <2>2, <2>3
<1>3. Linked(p)'
  BY <1>2 DEF Linked, IInv, Writing, Recorded
<1>4. \A q \in Processes : Linked(q)'
  BY <1>2, <1>3, OthersLinked DEF IInv
<1> QED BY <1>1, <1>2, <1>4, StepOutsideLog

LEMMA AuditedStep == ASSUME IInv, NEW p \in Processes, Audited(p) PROVE IInv'
<1>1. TxnInv'
  BY AuditedInv DEF IInv
<1>2. /\ audit' = audit /\ UNCHANGED chainVars /\ faults' \in 0..MaxFaults /\ contract' = contract
      /\ \A q \in Processes \ {p} : call'[q] = call[q] /\ audit'[q] = audit[q]
      /\ call[p].pc = "audit"
  <2>1. UNCHANGED auditVars /\ contract' = contract /\ call[p].pc = "audit"
    BY DEF Audited, At
  <2>2. \A q \in Processes \ {p} : call'[q] = call[q]
    <3>1. CASE GiveBack(p, "refused")
      BY <3>1, GivenBack DEF IInv
    <3>2. CASE Goto(p, "commit")
      BY <3>2 DEF Goto, IInv, TxnInv
    <3> QED BY <3>1, <3>2 DEF Audited
  <2> QED BY <2>1, <2>2 DEF auditVars, IInv, AuditInv
<1>3. Linked(p)'
  <2>1. CASE AuditAt(p, "ok") /\ Goto(p, "commit")
    <3>1. call'[p] = [call[p] EXCEPT !.pc = "commit"]
      BY <2>1 DEF Goto, IInv, TxnInv
    <3>2. call[p] \in CallState
      BY DEF IInv, TxnInv
    <3>3. /\ call'[p].pc = "commit" /\ call'[p].from = call[p].from
          /\ call'[p].request = call[p].request
      BY <3>1, <3>2 DEF CallState
    <3>4. Event(p)' = Event(p)
      BY <3>3 DEF Event
    <3> QED BY <1>2, <2>1, <3>3, <3>4 DEF Linked, IInv, AuditAt
  <2>2. CASE GiveBack(p, "refused")
    <3>1. call'[p].pc = "refused"
      BY <2>2, GivenBack DEF IInv
    <3> QED BY <3>1, EndedLinked
  <2> QED BY <2>1, <2>2 DEF Audited
<1>4. \A q \in Processes : Linked(q)'
  BY <1>2, <1>3, OthersLinked DEF IInv
<1> QED BY <1>1, <1>2, <1>4, StepOutsideLog

\* A transition that the database or the caller rolls back.
LEMMA RolledBackStep == ASSUME IInv, NEW p \in Processes, RolledBack(p) PROVE IInv'
<1>1. TxnInv'
  BY GiveBackInv DEF IInv, RolledBack
<1>2. /\ audit' = audit /\ UNCHANGED chainVars /\ contract' = contract
      /\ \A q \in Processes \ {p} : call'[q] = call[q] /\ audit'[q] = audit[q]
      /\ call'[p].pc = "refused"
  BY GivenBack DEF RolledBack, IInv
<1>3. faults' \in 0..MaxFaults
  BY ContractAssumption, AuditAssumption DEF RolledBack, IInv, AuditInv
<1>4. \A q \in Processes : Linked(q)'
  BY <1>2, EndedLinked, OthersLinked DEF IInv
<1> QED BY <1>1, <1>2, <1>3, <1>4, StepOutsideLog

\* A process that dies, also in the middle of writing to the log.
LEMMA DieStep == ASSUME IInv, NEW p \in Processes, Die(p) PROVE IInv'
<1>1. TxnInv'
  BY GiveBackInv DEF IInv, Die
<1>2. /\ audit' = [audit EXCEPT ![p] = NoCall] /\ UNCHANGED chainVars /\ contract' = contract
      /\ \A q \in Processes \ {p} : call'[q] = call[q] /\ audit'[q] = audit[q]
      /\ call'[p].pc = "died"
  BY GivenBack DEF Die, IInv, AuditInv
<1>3. faults' \in 0..MaxFaults
  BY AuditAssumption DEF Die, IInv, AuditInv
<1>4. AuditInv'
  BY <1>2, <1>3, AuditForgotten DEF IInv
<1>5. \A q \in Processes : Linked(q)'
  BY <1>2, EndedLinked, OthersLinked DEF IInv
<1>6. TimelineTellsHistory' /\ CommittedIsAudited'
  BY <1>2, HistoryStays DEF IInv, chainVars, Sequences
<1> QED BY <1>1, <1>4, <1>5, <1>6 DEF IInv

LEMMA WriteVehicleStep ==
    ASSUME IInv, NEW v \in Vehicles, NEW s \in VehicleStatus, WriteVehicle(v, s) PROVE IInv'
<1>1. TxnInv'
  BY WriteVehicleInv DEF IInv
<1>2. /\ audit' = audit /\ UNCHANGED chainVars /\ contract' = contract /\ call' = call
  BY DEF WriteVehicle
<1>3. faults' \in 0..MaxFaults
  BY AuditAssumption DEF WriteVehicle, IInv, AuditInv
<1>4. \A q \in Processes : Linked(q)'
  <2>1. \A q \in Processes : Event(q)' = Event(q)
    BY <1>2 DEF Event
  <2> QED BY <1>2, <2>1 DEF IInv, Linked
<1> QED BY <1>1, <1>2, <1>3, <1>4, StepOutsideLog

\* The event that a process gives to the log is its own transition.
LEMMA AuditStart == ASSUME IInv, NEW p \in Processes, Audit(p) PROVE IInv'
<1>1. TxnInv' /\ contract' = contract /\ call' = call /\ call[p].pc = "audit"
  BY TxnStutter DEF IInv, Audit, contractVars, At
<1>2. Event(p) \in Events
  <2>1. /\ call[p].request \in RequestDoc /\ call[p].from \in Status
        /\ Valid(call[p].from, call[p].request.target)
    BY <1>1 DEF IInv, TxnInv, CallOK, Working
  <2>2. /\ Event(p) \in [process : Processes, contract : Contracts, from : Status, to : Status]
        /\ Event(p).from = call[p].from /\ Event(p).to = call[p].request.target
    BY <2>1 DEF Event, RequestDoc
  <2> QED BY <2>1, <2>2, ContractAssumption
<1>3. AuditInv'
  BY <1>2, LogAuditEventInv DEF IInv, Audit
<1>4. entries' = entries
  BY DEF Audit, LogAuditEvent
<1>5. TimelineTellsHistory' /\ CommittedIsAudited'
  BY <1>1, <1>4, HistoryStays DEF IInv, Sequences
<1>6. /\ \A q \in Processes \ {p} : call'[q] = call[q] /\ audit'[q] = audit[q]
      /\ Event(p)' = Event(p)
      /\ \/ audit'[p].pc = "link" /\ audit'[p].event = Event(p)
         \/ audit'[p].pc = "failed"
  <2>1. audit \in [Processes -> AuditCall]
    BY DEF IInv, AuditInv
  <2>2. \/ audit' = [audit EXCEPT ![p] = [NoCall EXCEPT !.pc = "link", !.event = Event(p),
                                                        !.sequence = nextSequence]]
        \/ audit' = [audit EXCEPT ![p].pc = "failed"]
    BY DEF Audit, LogAuditEvent, AuditGoto
  <2>3. \A q \in Processes \ {p} : audit'[q] = audit[q]
    BY <2>1, <2>2
  <2>4. \/ audit'[p].pc = "link" /\ audit'[p].event = Event(p)
        \/ audit'[p].pc = "failed"
    BY <2>1, <2>2 DEF NoCall, AuditCall
  <2> QED BY <1>1, <2>3, <2>4 DEF Event
<1>7. Linked(p)'
  BY <1>1, <1>6 DEF Linked, Writing, Recorded
<1>8. \A q \in Processes : Linked(q)'
  BY <1>6, <1>7, OthersLinked DEF IInv
<1> QED BY <1>1, <1>3, <1>5, <1>8 DEF IInv

\* A step in the log.
LEMMA AuditingStep ==
    ASSUME IInv, NEW p \in Processes, AuditStep(p), UNCHANGED contractVars PROVE IInv'
<1>1. TxnInv' /\ contract' = contract /\ call' = call
  BY TxnStutter DEF IInv, contractVars
<1>2. AuditInv'
  BY AuditStepInv DEF IInv
<1>3. /\ \A n \in Sequences : n \in Sequences' /\ entries'[n] = entries[n]
      /\ \A q \in Processes \ {p} : audit'[q] = audit[q]
      /\ audit'[p].event = audit[p].event
      /\ audit[p].pc \in (Writing \cup Recorded) \ {"ok"}
  BY LogKeeps DEF IInv
<1>4. TimelineTellsHistory' /\ CommittedIsAudited'
  BY <1>1, <1>3, HistoryStays DEF IInv
<1>5. Linked(p)'
  <2>1. Linked(p) /\ call[p].pc \notin {"start", "contract", "vehicle", "commit"}
    BY <1>3 DEF IInv, Linked, Writing, Recorded
  <2>2. Event(p)' = Event(p)
    BY <1>1 DEF Event
  <2> QED BY <1>1, <1>3, <2>1, <2>2 DEF Linked
<1>6. \A q \in Processes : Linked(q)'
  BY <1>1, <1>3, <1>5, OthersLinked DEF IInv
<1> QED BY <1>1, <1>2, <1>4, <1>6 DEF IInv
LEMMA Appended ==
    ASSUME NEW S, NEW s \in Seq(S), NEW e \in S
    PROVE  /\ Append(s, e) \in Seq(S)
           /\ Len(Append(s, e)) = Len(s) + 1 /\ Len(s) \in Nat
           /\ \A i \in 1..Len(s) : Append(s, e)[i] = s[i]
           /\ Append(s, e)[Len(s) + 1] = e
BY AppendProperties, LenProperties

\* A commit adds one entry to one timeline, from the status that was there, and
\* the entry is in the log.
LEMMA CommitStep == ASSUME IInv, NEW p \in Processes, CommitTransition(p) PROVE IInv'
<1> DEFINE r == call[p].request
           c == r.contract
           path == contract[c].timeline
<1>1. TxnInv' /\ AuditInv'
  <2>1. faults' \in 0..MaxFaults /\ UNCHANGED <<chainVars, audit>>
    BY DEF CommitTransition, auditVars, IInv, AuditInv
  <2> QED BY <2>1, CommitInv, AuditStutter DEF IInv
<1>2. /\ c \in Contracts /\ r \in RequestDoc /\ Event(p) \in Events
      /\ Valid(call[p].from, r.target) /\ contract[c].status = call[p].from
  BY CommitReads DEF IInv, CommitTransition
<1>3. /\ contract \in [Contracts -> ContractDoc]
      /\ path \in Seq(Events) /\ contract[c].version \in Nat /\ contract[c].status \in Status
  BY <1>2 DEF IInv, TxnInv, ContractDoc
<1>4. /\ contract'[c].timeline = Append(path, Event(p)) /\ contract'[c].status = r.target
      /\ contract'[c].version = contract[c].version + 1
      /\ \A d \in Contracts \ {c} : contract'[d] = contract[d]
  <2> DEFINE new == [status   |-> r.target, version  |-> contract[c].version + 1,
                     vehicle  |-> IF r.target = "VEHICLE_ASSIGNED" THEN r.vehicle
                                  ELSE contract[c].vehicle,
                     timeline |-> Append(path, Event(p))]
  <2>1. contract' = [contract EXCEPT ![c] = new]
    BY DEF CommitTransition, Applied
  <2>2. contract'[c] = new /\ \A d \in Contracts \ {c} : contract'[d] = contract[d]
    <3>1. c \in Contracts /\ contract \in [Contracts -> ContractDoc]
      BY <1>2, <1>3
    <3> HIDE DEF new, c
    <3> QED BY <2>1, <3>1
  <2>3. /\ new.timeline = Append(path, Event(p)) /\ new.status = r.target
        /\ new.version = contract[c].version + 1
    OBVIOUS
  <2> HIDE DEF new, c, path, r
  <2> QED BY <2>2, <2>3
<1>5. /\ Append(path, Event(p)) \in Seq(Events)
      /\ Len(Append(path, Event(p))) = Len(path) + 1 /\ Len(path) \in Nat
      /\ \A i \in 1..Len(path) : Append(path, Event(p))[i] = path[i]
      /\ Append(path, Event(p))[Len(path) + 1] = Event(p)
  <2>1. path \in Seq(Events) /\ Event(p) \in Events
    BY <1>2, <1>3
  <2> HIDE DEF path
  <2> QED BY <2>1, Appended
<1>6. /\ Event(p).contract = c /\ Event(p).from = contract[c].status /\ Event(p).to = r.target
      /\ Valid(Event(p).from, Event(p).to)
  BY <1>2 DEF Event
<1>7. TimelineTellsHistory'
  <2> SUFFICES ASSUME NEW d \in Contracts
               PROVE  LET new == contract'[d].timeline
                      IN  /\ Len(new) = contract'[d].version
                          /\ \A i \in 1..Len(new) :
                                /\ new[i].contract = d /\ Valid(new[i].from, new[i].to)
                                /\ new[i].to = IF i = Len(new) THEN contract'[d].status
                                               ELSE new[i + 1].from
    BY DEF TimelineTellsHistory
  <2>1. CASE d # c
    <3>1. contract'[d] = contract[d]
      BY <1>4, <2>1
    <3> QED BY <3>1 DEF IInv, TimelineTellsHistory
  <2>2. CASE d = c
    <3> DEFINE new == Append(path, Event(p))
    <3>1. /\ Len(path) = contract[c].version
          /\ \A i \in 1..Len(path) :
                /\ path[i].contract = c /\ Valid(path[i].from, path[i].to)
                /\ path[i].to = IF i = Len(path) THEN contract[c].status ELSE path[i + 1].from
      BY <1>2 DEF IInv, TimelineTellsHistory
    <3>2. \A i \in 1..Len(path) :
             /\ new[i].contract = c /\ Valid(new[i].from, new[i].to)
             /\ new[i].to = new[i + 1].from
      <4> SUFFICES ASSUME NEW i \in 1..Len(path)
                   PROVE  /\ new[i].contract = c /\ Valid(new[i].from, new[i].to)
                          /\ new[i].to = new[i + 1].from
        OBVIOUS
      <4>1. new[i] = path[i]
        BY <1>5
      <4>2. new[i + 1].from = IF i = Len(path) THEN contract[c].status ELSE path[i + 1].from
        <5>1. CASE i = Len(path)
          BY <1>5, <1>6, <5>1
        <5>2. CASE i # Len(path)
          <6>1. i + 1 \in 1..Len(path)
            BY <1>5, <5>2
          <6> QED BY <1>5, <5>2, <6>1
        <5> QED BY <5>1, <5>2
      <4> QED BY <3>1, <4>1, <4>2
    <3>3. new[Len(path) + 1] = Event(p)
      BY <1>5
    <3>4. contract'[d].timeline = new /\ contract'[d].status = r.target
          /\ contract'[d].version = contract[c].version + 1
      BY <1>4, <2>2
    <3>5. Len(new) = Len(path) + 1 /\ Len(path) \in Nat
      BY <1>5
    <3> HIDE DEF new, path, r
    <3> QED BY <1>6, <2>2, <3>1, <3>2, <3>3, <3>4, <3>5
  <2> QED BY <2>1, <2>2
<1>8. CommittedIsAudited'
  <2>1. entries' = entries /\ \A n \in Sequences : n \in Sequences'
    BY DEF CommitTransition, auditVars, chainVars, Sequences
  <2>2. \E n \in Sequences : entries[n].event = Event(p)
    <3>1. audit[p].pc = "ok" /\ audit[p].event = Event(p) /\ WriterOK(p)
      BY DEF CommitTransition, At, IInv, Linked, AuditInv, Recorded
    <3> QED BY <3>1 DEF WriterOK, Recorded
  <2> SUFFICES ASSUME NEW d \in Contracts, NEW i \in 1..Len(contract'[d].timeline)
               PROVE  \E n \in Sequences : entries[n].event = contract'[d].timeline[i]
    BY <2>1 DEF CommittedIsAudited
  <2>3. CASE d # c
    BY <1>4, <2>3 DEF IInv, CommittedIsAudited
  <2>4. CASE d = c /\ i = Len(path) + 1
    BY <1>4, <1>5, <2>2, <2>4
  <2>5. CASE d = c /\ i # Len(path) + 1
    <3>1. i \in 1..Len(path) /\ contract'[d].timeline[i] = path[i]
      <4> DEFINE new == Append(path, Event(p))
      <4>1. contract'[d].timeline = new /\ Len(new) = Len(path) + 1 /\ Len(path) \in Nat
        BY <1>4, <1>5, <2>5
      <4>2. \A k \in 1..Len(path) : new[k] = path[k]
        BY <1>5
      <4> HIDE DEF new, path
      <4> QED BY <2>5, <4>1, <4>2
    <3>2. PICK n \in Sequences : entries[n].event = path[i]
      BY <1>2, <3>1 DEF IInv, CommittedIsAudited
    <3> QED BY <3>1, <3>2
  <2> QED BY <2>3, <2>4, <2>5
<1>9. /\ call'[p].pc = "applied"
      /\ \A q \in Processes \ {p} : call'[q] = call[q] /\ audit'[q] = audit[q]
  <2>1. /\ call' = [call EXCEPT ![p] = [call[p] EXCEPT !.pc = "applied", !.wrote = {}]]
        /\ audit' = audit
    BY DEF CommitTransition, auditVars
  <2>2. call \in [Processes -> CallState] /\ call[p] \in CallState
    BY DEF IInv, TxnInv
  <2>3. call'[p] = [call[p] EXCEPT !.pc = "applied", !.wrote = {}]
    BY <2>1, <2>2
  <2> QED BY <2>1, <2>2, <2>3 DEF CallState
<1>10. \A q \in Processes : Linked(q)'
  BY <1>9, EndedLinked, OthersLinked DEF IInv
<1> QED BY <1>1, <1>7, <1>8, <1>10 DEF IInv

-----------------------------------------------------------------------------
LEMMA NextInv == ASSUME IInv, [Next]_vars PROVE IInv'
<1>1. ASSUME NEW p \in Processes, Transition(p) PROVE IInv'
  BY <1>1, UpdateContractStep, UpdateVehicleStep, AuditStart, AuditedStep, CommitStep
     DEF Transition
<1>2. CASE UNCHANGED vars
  <2>1. TxnInv' /\ UNCHANGED <<chainVars, audit, faults, contract, call>>
    BY <1>2, TxnStutter DEF vars, auditVars, contractVars, IInv
  <2>2. \A q \in Processes : Event(q)' = Event(q)
    BY <2>1 DEF Event
  <2>3. \A q \in Processes : Linked(q)'
    BY <2>1, <2>2 DEF IInv, Linked
  <2> QED BY <2>1, <2>3, StepOutsideLog DEF IInv, AuditInv
<1> QED BY <1>1, <1>2, StartStep, RolledBackStep, DieStep, AuditingStep, WriteVehicleStep DEF Next

\* The invariant the others rest on: transactions write what they have read, one
\* at a time, and commit what the log has.
THEOREM Inductive == Spec => []IInv
BY InitInv, NextInv, PTL DEF Spec

\* Everything has its type.
THEOREM TypeCorrect == Spec => []TypeOK
<1>1. IInv => TypeOK
  <2> SUFFICES ASSUME IInv PROVE TypeOK
    OBVIOUS
  <2>1. AuditTypeOK
    <3>1. Sequences \subseteq 0..nextSequence - 1
      BY DEF IInv, AuditInv, ChainOK
    <3> QED BY <3>1 DEF IInv, AuditInv, ChainOK, CheckpointsOK, AuditTypeOK
  <2> QED BY <2>1 DEF IInv, TxnInv, TypeOK, TxnTypeOK
<1> QED BY <1>1, Inductive, PTL

\* verifyAuditChain and verifyCheckpoints find nothing to report, whatever the
\* processes that write to the log do at the same time, and whichever of them die.
THEOREM LogVerifies == Spec => []AuditVerifies
<1>1. IInv => AuditVerifies
  BY AuditInvVerifies DEF IInv
<1> QED BY <1>1, Inductive, PTL

\* The timeline of a contract is one path through the table of transitions.
THEOREM HistoryIsPath == Spec => []TimelineTellsHistory
<1>1. IInv => TimelineTellsHistory
  BY DEF IInv
<1> QED BY <1>1, Inductive, PTL

\* No transition is applied that the audit log does not have.
THEOREM NoUnauditedTransition == Spec => []CommittedIsAudited
<1>1. IInv => CommittedIsAudited
  BY DEF IInv
<1> QED BY <1>1, Inductive, PTL

\* A vehicle is assigned only while it is available.
THEOREM VehicleWasAvailable == Spec => TakenWhenAvailable
<1> DEFINE Taken == \A c \in Contracts : contract'[c].vehicle # contract[c].vehicle =>
                       vehicle[contract'[c].vehicle] = "Available"
<1>1. ASSUME IInv, Next PROVE Taken
  <2>1. ASSUME NEW p \in Processes, CommitTransition(p) PROVE Taken
    <3>1. contract' = Applied(p) /\ contract \in [Contracts -> ContractDoc]
      BY <1>1, <2>1 DEF CommitTransition, IInv, TxnInv
    <3>2. /\ call[p].request.contract \in Contracts
          /\ call[p].request.target = "VEHICLE_ASSIGNED" =>
                vehicle[call[p].request.vehicle] = "Available"
      BY <1>1, <2>1, CommitReads DEF CommitTransition, IInv
    <3> QED BY <3>1, <3>2 DEF Applied
  <2>2. ASSUME NEW p \in Processes, ~ CommitTransition(p), Transition(p) PROVE contract' = contract
    BY <2>2 DEF Transition, UpdateContract, UpdateVehicle, Audit, Audited, contractVars
  <2>3. ASSUME NEW p \in Processes, NEW r \in Requests[p], Start(p, r) PROVE contract' = contract
    BY <2>3 DEF Start
  <2>4. ASSUME NEW p \in Processes, RolledBack(p) \/ Die(p) PROVE contract' = contract
    BY <2>4 DEF RolledBack, Die
  <2>5. ASSUME NEW v \in Vehicles, NEW s \in VehicleStatus, WriteVehicle(v, s)
        PROVE  contract' = contract
    BY <2>5 DEF WriteVehicle
  <2>6. CASE \E p \in Processes : CommitTransition(p)
    BY <2>1, <2>6
  <2>7. CASE ~ \E p \in Processes : CommitTransition(p)
    <3> SUFFICES contract' = contract
      OBVIOUS
    <3>1. ASSUME NEW p \in Processes, AuditStep(p) /\ UNCHANGED contractVars
          PROVE  contract' = contract
      BY <3>1 DEF contractVars
    <3>2. \A p \in Processes : Transition(p) => contract' = contract
      BY <2>2, <2>7
    <3>3. \A p \in Processes : RolledBack(p) \/ Die(p) => contract' = contract
      BY <2>4
    <3> QED BY <1>1, <2>3, <2>5, <3>1, <3>2, <3>3 DEF Next
  <2> QED BY <2>6, <2>7
<1>2. IInv /\ [Next]_vars => [Taken]_vars
  BY <1>1
<1> QED BY <1>2, Inductive, PTL DEF Spec, TakenWhenAvailable

\* Seen from outside, the log that the transitions write to is an append-only
\* log of which a longer and longer prefix is sealed.
THEOREM LogRefines == Spec => RefinesSealedLog
<1>1. Init => Abstract!Init
  BY InitIsEmpty DEF Init
<1>2. ASSUME IInv, [Next]_vars PROVE [Abstract!Next]_(Abstract!sealedVars)
  <2>1. ASSUME UNCHANGED <<entries, checkpoints>> PROVE [Abstract!Next]_(Abstract!sealedVars)
    BY <2>1, NothingSeen
  <2>2. ASSUME NEW p \in Processes, AuditStep(p) PROVE [Abstract!Next]_(Abstract!sealedVars)
    BY <1>2, <2>2, AuditStepSeen DEF IInv
  <2>3. ASSUME NEW p \in Processes, Transition(p) PROVE UNCHANGED <<entries, checkpoints>>
    BY <2>3 DEF Transition, UpdateContract, UpdateVehicle, Audit, LogAuditEvent, Audited,
                CommitTransition, auditVars, chainVars
  <2>4. ASSUME NEW p \in Processes, NEW r \in Requests[p], Start(p, r)
        PROVE  UNCHANGED <<entries, checkpoints>>
    BY <2>4 DEF Start, auditVars, chainVars
  <2>5. ASSUME NEW p \in Processes, RolledBack(p) \/ Die(p)
        PROVE  UNCHANGED <<entries, checkpoints>>
    BY <2>5 DEF RolledBack, Die, chainVars
  <2>6. ASSUME NEW v \in Vehicles, NEW s \in VehicleStatus, WriteVehicle(v, s)
        PROVE  UNCHANGED <<entries, checkpoints>>
    BY <2>6 DEF WriteVehicle, chainVars
  <2>7. CASE UNCHANGED vars
    BY <2>1, <2>7 DEF vars, auditVars, chainVars
  <2> QED BY <1>2, <2>1, <2>2, <2>3, <2>4, <2>5, <2>6, <2>7 DEF Next
<1> QED BY <1>1, <1>2, Inductive, PTL DEF Spec, RefinesSealedLog, Abstract!Spec
=============================================================================
