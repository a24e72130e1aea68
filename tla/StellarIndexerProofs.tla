------------------------ MODULE StellarIndexerProofs ------------------------
(***************************************************************************)
(* Theorems about StellarIndexer and the settlements that it confirms, for *)
(* every set of records, references, users, operators and workers, every   *)
(* chain, page size, threshold and number of faults.                       *)
(***************************************************************************)
EXTENDS StellarIndexer, Sums, TLAPS

Txns == Operators \cup Workers

\* The states that a record can be in, and those that a transition asks for.
Reached == {"initiated", "provider-pending", "observed", "confirmed", "reversed",
            "failed", "expired"}
Targets == OperatorTargets \cup {"observed"}

\* A snapshot is what the database holds, but for what was missed.
TxnSound(t, r, s) ==
    /\ r \in Records /\ s \in Snapshot
    /\ settlement[r] # Absent /\ s.record.ref = settlement[r].ref
    /\ <<"settlement", r>> \in missed[t] \/ s.record = settlement[r]
    /\ <<"user", UserOf[s.record.ref]>> \in missed[t] \/ s.funds = funds[UserOf[s.record.ref]]

OperatorOK(o) ==
    LET k == operator[o]
    IN  /\ k.pc = "insert" => k.ref \in Refs
        /\ k.pc = "txn" <=> o \in open
        /\ k.pc = "txn" => k.target \in OperatorTargets /\ TxnSound(o, k.rec, k.snap)
        /\ \A r \in k.todo : settlement[r] # Absent

\* The operations of a transaction that were indexed and whose confirmation is
\* over: those that are Waiting have a worker that may yet count them.
Confirming(w) == worker[w].pc \in {"match", "begin", "txn"}
Waiting == {worker[w].at : w \in {v \in Workers : Confirming(v)}}
Done(h) == {n \in indexed \ Waiting : TxOf[n] = h}

WorkerOK(w) ==
    LET k == worker[w]
    IN  /\ k.pc \in {"raw", "event", "match", "begin", "txn", "mark", "quarantine"} =>
              k.from < k.at /\ k.at <= PageEnd(w)
        /\ Confirming(w) \/ k.pc = "mark" => k.at \in indexed
        /\ k.pc \in {"begin", "txn"} =>
              /\ k.rec \in Records /\ settlement[k.rec] # Absent
              /\ HashOf[settlement[k.rec].ref] = TxOf[k.at]
              /\ k.count <= Cardinality(Done(TxOf[k.at])) + 1
        /\ k.pc = "txn" <=> w \in open
        /\ k.pc = "txn" => TxnSound(w, k.rec, k.snap)
        /\ k.pc = "save" => k.from <= k.to

\* No two workers count one operation.
Distinct ==
    \A v, w \in Workers :
        v # w /\ Confirming(v) /\ Confirming(w) => worker[v].at # worker[w].at

RecordOK(r) ==
    /\ settlement[r] # Absent =>
          /\ settlement[r].state \in Reached
          /\ settlement[r].count <= Cardinality(Done(HashOf[settlement[r].ref]))
    /\ journal[r] # Absent => settlement[r] # Absent /\ settlement[r].state = "reversed"

RecordsOK == \A r \in Records : RecordOK(r)

\* Whose token the lease has is at work on the page after the cursor.
LeaseOK(w) == lease.token = w /\ worker[w].pc \notin {"idle", "load"} => worker[w].from = cursor

\* What is projected was indexed, and so is everything that a worker has behind it.
CoverOK ==
    /\ 1..cursor \subseteq indexed
    /\ \A n \in Operations : raw[RawKey(n)] = "projected" => n \in indexed
    /\ \A w \in Workers : /\ 1..worker[w].from \subseteq indexed
                          /\ worker[w].pc = "save" => 1..worker[w].to \subseteq indexed

IInv == /\ TypeOK
        /\ \A o \in Operators : OperatorOK(o)
        /\ \A w \in Workers : WorkerOK(w)
        /\ Distinct
        /\ RecordsOK
        /\ WalletAgrees
        /\ \A w \in Workers : LeaseOK(w)
        /\ KeysDiffer => CoverOK

-----------------------------------------------------------------------------
\* Sums over the records.
LEMMA WorthType ==
    ASSUME settlement \in [Records -> SettlementDoc \cup {Absent}], NEW u, NEW S
    PROVE  LET f == [r \in Records |-> IF Counts(settlement[r], u, S)
                                       THEN Amount[settlement[r].ref] ELSE 0]
           IN  /\ \A r \in Records : f[r] \in Nat
               /\ Worth(u, S) = SumFunctionOnSet(f, Records)
               /\ Worth(u, S) \in Nat
<1> DEFINE f == [r \in Records |-> IF Counts(settlement[r], u, S)
                                   THEN Amount[settlement[r].ref] ELSE 0]
<1>1. ASSUME NEW r \in Records PROVE f[r] \in Nat
  <2>1. CASE Counts(settlement[r], u, S)
    <3>1. settlement[r] \in SettlementDoc
      BY <2>1 DEF Counts
    <3> QED BY <2>1, <3>1, SettlementAssumption DEF SettlementDoc
  <2> QED BY <2>1
<1>2. Worth(u, S) = SumFunctionOnSet(f, Records)
  BY DEF Worth, SumFunction
<1>3. Worth(u, S) \in Nat
  <2> HIDE DEF f
  <2>1. \A r \in Records : f[r] \in Int /\ f[r] >= 0
    BY <1>1
  <2>2. SumFunctionOnSet(f, Records) \in Int /\ SumFunctionOnSet(f, Records) >= 0
    BY <2>1, SettlementAssumption, SumType
  <2> QED BY <1>2, <2>2
<1> QED BY <1>1, <1>2, <1>3

LEMMA TakenType ==
    ASSUME SettlementTypeOK, NEW u
    PROVE  LET f == [r \in Records |->
                        IF journal[r] # Absent /\ UserOf[settlement[r].ref] = u
                        THEN journal[r].available ELSE 0]
           IN  /\ \A r \in Records : f[r] \in Nat
               /\ TakenFrom(u) = SumFunctionOnSet(f, Records)
               /\ TakenFrom(u) \in Nat
<1> DEFINE f == [r \in Records |->
                    IF journal[r] # Absent /\ UserOf[settlement[r].ref] = u
                    THEN journal[r].available ELSE 0]
<1>1. ASSUME NEW r \in Records PROVE f[r] \in Nat
  <2>1. CASE journal[r] # Absent
    <3>1. journal[r] \in JournalDoc
      BY <2>1 DEF SettlementTypeOK
    <3> QED BY <3>1 DEF JournalDoc
  <2> QED BY <2>1
<1>2. TakenFrom(u) = SumFunctionOnSet(f, Records)
  BY DEF TakenFrom, SumFunction
<1>3. TakenFrom(u) \in Nat
  <2> HIDE DEF f
  <2>1. \A r \in Records : f[r] \in Int /\ f[r] >= 0
    BY <1>1
  <2>2. SumFunctionOnSet(f, Records) \in Int /\ SumFunctionOnSet(f, Records) >= 0
    BY <2>1, SettlementAssumption, SumType
  <2> QED BY <1>2, <2>2
<1> QED BY <1>1, <1>2, <1>3

\* What a record counts for, and what was taken from it.
Value(doc, u, S) == IF Counts(doc, u, S) THEN Amount[doc.ref] ELSE 0
Loss(d, doc, u) == IF d # Absent /\ UserOf[doc.ref] = u THEN d.available ELSE 0

\* The sum when the value of one record changes.
LEMMA RecordsChange ==
    ASSUME NEW f, NEW g, NEW r \in Records, \A q \in Records : f[q] \in Int, g[r] \in Int,
           \A q \in Records \ {r} : g[q] = f[q]
    PROVE  SumFunctionOnSet(g, Records) = SumFunctionOnSet(f, Records) - f[r] + g[r]
<1>1. IsFiniteSet(Records)
  BY SettlementAssumption
<1> QED BY <1>1, SumChange

\* One record changes, and with it what its user's records are worth.
LEMMA WorthChanges ==
    ASSUME SettlementTypeOK, SettlementTypeOK', NEW r \in Records, NEW u, NEW S,
           \A q \in Records \ {r} : settlement'[q] = settlement[q]
    PROVE  /\ Worth(u, S)' = Worth(u, S) - Value(settlement[r], u, S) + Value(settlement'[r], u, S)
           /\ Value(settlement[r], u, S) \in Nat /\ Value(settlement'[r], u, S) \in Nat
<1>1. PICK f, g :
         /\ f = [q \in Records |-> IF Counts(settlement[q], u, S)
                                   THEN Amount[settlement[q].ref] ELSE 0]
         /\ g = [q \in Records |-> IF Counts(settlement'[q], u, S)
                                   THEN Amount[settlement'[q].ref] ELSE 0]
  OBVIOUS
<1>2. /\ \A q \in Records : f[q] \in Nat
      /\ Worth(u, S) = SumFunctionOnSet(f, Records)
  BY <1>1, WorthType DEF SettlementTypeOK
<1>3. /\ \A q \in Records : g[q] \in Nat
      /\ Worth(u, S)' = SumFunctionOnSet(g, Records)
  <2>1. ASSUME NEW q \in Records PROVE g[q] \in Nat
    <3>1. CASE Counts(settlement'[q], u, S)
      <4>1. settlement'[q] \in SettlementDoc
        BY <3>1 DEF SettlementTypeOK, Counts
      <4> QED BY <1>1, <3>1, <4>1, SettlementAssumption DEF SettlementDoc
    <3> QED BY <1>1, <3>1
  <2>2. Worth(u, S)' = SumFunctionOnSet(g, Records)
    BY <1>1 DEF Worth, SumFunction, Counts
  <2> QED BY <2>1, <2>2
<1>4. \A q \in Records \ {r} : g[q] = f[q]
  BY <1>1
<1>5. SumFunctionOnSet(g, Records) = SumFunctionOnSet(f, Records) - f[r] + g[r]
  <2>1. (\A q \in Records : f[q] \in Int) /\ g[r] \in Int
    BY <1>2, <1>3
  <2> QED BY <1>4, <2>1, RecordsChange
<1>6. f[r] = Value(settlement[r], u, S) /\ g[r] = Value(settlement'[r], u, S)
  BY <1>1 DEF Value
<1> QED BY <1>2, <1>3, <1>5, <1>6

LEMMA TakenChanges ==
    ASSUME SettlementTypeOK, SettlementTypeOK', NEW r \in Records, NEW u,
           \A q \in Records \ {r} : settlement'[q] = settlement[q] /\ journal'[q] = journal[q]
    PROVE  /\ TakenFrom(u)' = TakenFrom(u) - Loss(journal[r], settlement[r], u)
                                           + Loss(journal'[r], settlement'[r], u)
           /\ Loss(journal[r], settlement[r], u) \in Nat
           /\ Loss(journal'[r], settlement'[r], u) \in Nat
<1>1. PICK f, g :
         /\ f = [q \in Records |-> IF journal[q] # Absent /\ UserOf[settlement[q].ref] = u
                                   THEN journal[q].available ELSE 0]
         /\ g = [q \in Records |-> IF journal'[q] # Absent /\ UserOf[settlement'[q].ref] = u
                                   THEN journal'[q].available ELSE 0]
  OBVIOUS
<1>2. /\ \A q \in Records : f[q] \in Nat
      /\ TakenFrom(u) = SumFunctionOnSet(f, Records)
  BY <1>1, TakenType
<1>3. /\ \A q \in Records : g[q] \in Nat
      /\ TakenFrom(u)' = SumFunctionOnSet(g, Records)
  <2>1. ASSUME NEW q \in Records PROVE g[q] \in Nat
    <3>1. CASE journal'[q] # Absent
      <4>1. journal'[q] \in JournalDoc
        BY <3>1 DEF SettlementTypeOK
      <4> QED BY <1>1, <4>1 DEF JournalDoc
    <3> QED BY <1>1, <3>1
  <2>2. TakenFrom(u)' = SumFunctionOnSet(g, Records)
    BY <1>1 DEF TakenFrom, SumFunction
  <2> QED BY <2>1, <2>2
<1>4. \A q \in Records \ {r} : g[q] = f[q]
  BY <1>1
<1>5. SumFunctionOnSet(g, Records) = SumFunctionOnSet(f, Records) - f[r] + g[r]
  <2>1. (\A q \in Records : f[q] \in Int) /\ g[r] \in Int
    BY <1>2, <1>3
  <2> QED BY <1>4, <2>1, RecordsChange
<1>6. f[r] = Loss(journal[r], settlement[r], u) /\ g[r] = Loss(journal'[r], settlement'[r], u)
  BY <1>1 DEF Loss
<1> QED BY <1>2, <1>3, <1>5, <1>6

-----------------------------------------------------------------------------
\* What a transition does to the balances.
LEMMA TakenFacts ==
    ASSUME NEW f \in FundsDoc, NEW a \in Nat
    PROVE  /\ Taken(f, a) \in JournalDoc
           /\ Reversal(f, a) \in FundsDoc
           /\ Reversal(f, a).available = f.available - Taken(f, a).available
<1>1. /\ f.available \in Nat /\ f.held \in Nat /\ f.pending \in Nat /\ f.reversed \in Nat
  BY DEF FundsDoc
<1>2. PICK x, y, z : /\ x = LesserOf(f.available, a) /\ y = LesserOf(f.held, a - x)
                     /\ z = LesserOf(f.pending, a - x - y)
  OBVIOUS
<1>3. x \in Nat /\ x <= f.available /\ x <= a
  BY <1>1, <1>2 DEF LesserOf
<1>4. y \in Nat /\ y <= f.held /\ y <= a - x
  BY <1>1, <1>2, <1>3 DEF LesserOf
<1>5. z \in Nat /\ z <= f.pending
  BY <1>1, <1>2, <1>3, <1>4 DEF LesserOf
<1>6. Taken(f, a) = [available |-> x, held |-> y, pending |-> z]
  BY <1>2 DEF Taken
<1>7. Taken(f, a) \in JournalDoc
  BY <1>3, <1>4, <1>5, <1>6 DEF JournalDoc
<1>8. Reversal(f, a) = [pending |-> f.pending - z, available |-> f.available - x,
                        held |-> f.held - y, reversed |-> f.reversed + a]
  BY <1>6 DEF Reversal
<1>9. /\ f.pending - z \in Nat /\ f.available - x \in Nat /\ f.held - y \in Nat
      /\ f.reversed + a \in Nat
  BY <1>1, <1>3, <1>4, <1>5
<1>10. Reversal(f, a) \in FundsDoc
  BY <1>8, <1>9 DEF FundsDoc
<1> QED BY <1>6, <1>7, <1>8, <1>10

LEMMA FundsAfterFacts ==
    ASSUME NEW s \in Snapshot, NEW target \in Targets
    PROVE  LET f == FundsAfter(s, target)  x == s.record.ref  a == Amount[x]
           IN  /\ f \in FundsDoc
               /\ f.available = s.funds.available
                    + (IF target = "confirmed" /\ x \in WalletFunding THEN a ELSE 0)
                    - (IF target = "reversed" THEN Taken(s.funds, a).available ELSE 0)
<1> DEFINE x == s.record.ref
<1>1. s.funds \in FundsDoc /\ s.record \in SettlementDoc
  BY DEF Snapshot
<1>2. PICK f, a : f = s.funds /\ a = Amount[x]
  OBVIOUS
<1>3. /\ x \in Refs /\ a \in Nat /\ f \in FundsDoc /\ Taken(f, a).available \in Nat
      /\ f.available \in Nat /\ f.held \in Nat /\ f.pending \in Nat /\ f.reversed \in Nat
  BY <1>1, <1>2, TakenFacts, SettlementAssumption DEF SettlementDoc, FundsDoc, JournalDoc
<1>4. PICK released : released = IF s.record.state \in Pending THEN Less(f.pending, a)
                                 ELSE f.pending
  OBVIOUS
<1>5. released \in Nat
  BY <1>3, <1>4 DEF Less
<1>6. PICK g, t : g = FundsAfter(s, target) /\ t = Taken(f, a).available
  OBVIOUS
<1>14. PICK back, up, down, off :
          /\ back = Reversal(f, a)
          /\ up = [f EXCEPT !.pending = released, !.available = @ + a]
          /\ down = [f EXCEPT !.available = Less(@, a), !.held = @ + LesserOf(f.available, a)]
          /\ off = [f EXCEPT !.pending = released]
  OBVIOUS
<1>15. g = IF target = "reversed" THEN back
           ELSE IF x \notin WalletFunding THEN f
           ELSE CASE target = "confirmed" -> up
                  [] target = "disputed" -> down
                  [] target \in {"failed", "expired"} -> off
                  [] OTHER -> f
  BY <1>2, <1>4, <1>6, <1>14 DEF FundsAfter
<1> DEFINE gained == IF target = "confirmed" /\ x \in WalletFunding THEN a ELSE 0
           lost == IF target = "reversed" THEN t ELSE 0
<1>7. SUFFICES g \in FundsDoc /\ g.available = f.available + gained - lost
  BY <1>2, <1>6
<1>8. t \in Nat
  BY <1>3, <1>6
<1>9. CASE target = "reversed"
  <2>1. g = Reversal(f, a)
    BY <1>9, <1>14, <1>15
  <2>2. g \in FundsDoc /\ g.available = f.available - t
    BY <1>3, <1>6, <2>1, TakenFacts
  <2> QED BY <1>3, <1>8, <1>9, <2>2
<1>10. CASE target # "reversed" /\ x \notin WalletFunding
  <2>1. g = f
    BY <1>10, <1>15
  <2> QED BY <1>3, <1>10, <2>1
<1>11. CASE target = "confirmed" /\ x \in WalletFunding
  <2>1. g = up
    BY <1>11, <1>15
  <2>2. off \in FundsDoc /\ off.available = f.available
    BY <1>3, <1>5, <1>14 DEF FundsDoc
  <2>3. up = [off EXCEPT !.available = f.available + a]
    BY <1>14
  <2>4. up \in FundsDoc /\ up.available = f.available + a
    <3>1. f.available + a \in Nat
      BY <1>3
    <3> QED BY <2>2, <2>3, <3>1 DEF FundsDoc
  <2> QED BY <1>3, <1>11, <2>1, <2>4
<1>12. CASE target = "expired" /\ x \in WalletFunding
  <2>1. g = [f EXCEPT !.pending = released]
    BY <1>12, <1>14, <1>15
  <2>2. g \in FundsDoc /\ g.available = f.available
    BY <1>3, <1>5, <2>1 DEF FundsDoc
  <2> QED BY <1>3, <1>12, <2>2
<1>13. CASE target \in {"provider-pending", "observed"} /\ x \in WalletFunding
  <2>1. g = f
    BY <1>13, <1>15
  <2> QED BY <1>3, <1>13, <2>1
<1> QED BY <1>9, <1>10, <1>11, <1>12, <1>13 DEF Targets, OperatorTargets

\* From where the transitions lead that somebody asks for.
Allowed(target, from) ==
    IF target = "reversed" THEN from = "confirmed"
    ELSE from \in {"initiated", "provider-pending", "observed"}

LEMMA ValidFacts ==
    ASSUME NEW from \in Reached, NEW target \in Targets, Valid(from, target), from # target
    PROVE  Allowed(target, from)
<1>1. from \notin {"reversed", "failed", "expired"}
  BY DEF Valid
<1>2. CASE from = "confirmed"
  <2>1. target \in {"reversed", "disputed"}
    BY <1>2 DEF Valid
  <2> QED BY <1>2, <2>1 DEF Targets, OperatorTargets, Allowed
<1>3. CASE from \in {"initiated", "provider-pending", "observed"}
  <2>1. target # "reversed"
    BY <1>3 DEF Valid
  <2> QED BY <1>3, <2>1 DEF Allowed
<1> QED BY <1>1, <1>2, <1>3 DEF Reached, Allowed

-----------------------------------------------------------------------------
\* What a step does to the transactions of everybody else: the documents that
\* it changed are missed.
Changes(W) ==
    /\ \A r \in Records : settlement[r] # Absent =>
          settlement'[r] # Absent /\ settlement'[r].ref = settlement[r].ref
    /\ \A r \in Records : <<"settlement", r>> \notin W => settlement'[r] = settlement[r]
    /\ \A u \in Users : <<"user", u>> \notin W => funds'[u] = funds[u]

Missing(t, W) == /\ t \in open' <=> t \in open
                 /\ t \in open => missed'[t] = missed[t] \cup W

LEMMA BeginFacts ==
    ASSUME NEW t \in Txns, TxnTypeOK, TxnBegin(t)
    PROVE  /\ t \in open' /\ TxnTypeOK'
           /\ \A v \in Txns \ {t} : Missing(v, {})
  BY DEF TxnBegin, TxnTypeOK, Missing, Txns

LEMMA CommitFacts ==
    ASSUME NEW t \in Txns, TxnTypeOK, NEW W \in SUBSET Docs, TxnCommit(t, W)
    PROVE  /\ t \in open /\ t \notin open' /\ W \cap missed[t] = {} /\ TxnTypeOK'
           /\ \A v \in Txns \ {t} : Missing(v, W)
  BY DEF TxnCommit, Publish, TxnTypeOK, Missing, Txns

LEMMA AbortFacts ==
    ASSUME NEW t \in Txns, TxnTypeOK, TxnAbort(t)
    PROVE  /\ t \notin open' /\ TxnTypeOK'
           /\ \A v \in Txns \ {t} : Missing(v, {})
  BY DEF TxnAbort, TxnTypeOK, Missing, Txns

LEMMA WriteFacts ==
    ASSUME TxnTypeOK, NEW W \in SUBSET Docs, PlainWrite(W)
    PROVE  /\ TxnTypeOK' /\ open' = open
           /\ \A v \in Txns : Missing(v, W)
  BY DEF PlainWrite, TxnTypeOK, Missing, Txns

LEMMA SoundStays ==
    ASSUME NEW t, NEW r, NEW s, TypeOK, TypeOK', TxnSound(t, r, s), t \in open, NEW W, Changes(W),
           Missing(t, W)
    PROVE  TxnSound(t, r, s)'
<1>1. s.record.ref \in Refs /\ UserOf[s.record.ref] \in Users
  BY SettlementAssumption DEF TxnSound, Snapshot, SettlementDoc
<1>2. missed'[t] = missed[t] \cup W
  BY DEF Missing
<1>3. /\ settlement[r] # Absent => settlement'[r] # Absent /\ settlement'[r].ref = settlement[r].ref
      /\ <<"settlement", r>> \notin W => settlement'[r] = settlement[r]
      /\ <<"user", UserOf[s.record.ref]>> \notin W =>
            funds'[UserOf[s.record.ref]] = funds[UserOf[s.record.ref]]
  BY <1>1 DEF Changes, TxnSound
<1> QED BY <1>2, <1>3 DEF TxnSound

-----------------------------------------------------------------------------
\* The operations of a transaction whose confirmation is over grow in number
\* only: a worker waits for operations that nobody has indexed.
Grows == /\ indexed \subseteq indexed'
         /\ \A h : Done(h) \subseteq Done(h)' /\ Cardinality(Done(h)) <= Cardinality(Done(h)')

LEMMA DoneFinite ==
    ASSUME indexed \in SUBSET Operations, NEW h
    PROVE  /\ IsFiniteSet(indexed) /\ IsFiniteSet(Done(h)) /\ Cardinality(Done(h)) \in Nat
           /\ Done(h) \subseteq {n \in indexed : TxOf[n] = h}
           /\ IsFiniteSet({n \in indexed : TxOf[n] = h})
<1>1. IsFiniteSet(Operations)
  BY IndexerAssumption, FS_Interval DEF Operations
<1>2. IsFiniteSet(indexed)
  BY <1>1, FS_Subset
<1>3. Done(h) \subseteq {n \in indexed : TxOf[n] = h} /\ {n \in indexed : TxOf[n] = h} \subseteq indexed
  BY DEF Done
<1>4. IsFiniteSet({n \in indexed : TxOf[n] = h}) /\ IsFiniteSet(Done(h))
  BY <1>2, <1>3, FS_Subset
<1> QED BY <1>2, <1>3, <1>4, FS_CardinalityType

LEMMA DoneGrows ==
    ASSUME indexed \in SUBSET Operations, indexed' \in SUBSET Operations,
           indexed \subseteq indexed', \A n \in Waiting' : n \in Waiting \/ n \notin indexed
    PROVE  Grows
<1> SUFFICES ASSUME NEW h
             PROVE  /\ Done(h) \subseteq Done(h)'
                    /\ Cardinality(Done(h)) <= Cardinality(Done(h)')
  BY DEF Grows
<1>1. Done(h) \subseteq Done(h)'
  BY DEF Done
<1>2. PICK D, E : D = Done(h) /\ E = Done(h)'
  OBVIOUS
<1>3. IsFiniteSet(E)
  <2>1. PICK I : I = indexed'
    OBVIOUS
  <2>2. IsFiniteSet(I)
    <3>1. IsFiniteSet(Operations)
      BY IndexerAssumption, FS_Interval DEF Operations
    <3> QED BY <2>1, <3>1, FS_Subset
  <2>3. E \subseteq I
    BY <1>2, <2>1 DEF Done
  <2> QED BY <2>2, <2>3, FS_Subset
<1>4. D \subseteq E
  BY <1>1, <1>2
<1>5. Cardinality(D) <= Cardinality(E)
  BY <1>3, <1>4, FS_Subset
<1> QED BY <1>1, <1>2, <1>5

\* Workers that do not act, and only leave the operations they wait for.
LEMMA StillGrows ==
    ASSUME indexed \in SUBSET Operations, indexed' = indexed,
           \A w \in Workers : Confirming(w)' => Confirming(w) /\ worker'[w].at = worker[w].at
    PROVE  Grows
<1>1. \A n \in Waiting' : n \in Waiting
  BY DEF Waiting, Confirming
<1> QED BY <1>1, DoneGrows

\* The worker that leaves an operation that it alone waited for adds it.
LEMMA DoneGains ==
    ASSUME indexed \in SUBSET Operations, indexed' = indexed, Grows, Distinct,
           NEW w \in Workers, Confirming(w), worker[w].at \in indexed, ~Confirming(w)',
           \A v \in Workers \ {w} : worker'[v] = worker[v], NEW h, h = TxOf[worker[w].at]
    PROVE  Cardinality(Done(h)) + 1 <= Cardinality(Done(h)')
<1>1. PICK n : n = worker[w].at /\ h = TxOf[n]
  OBVIOUS
<1>2. n \in Waiting /\ n \notin Waiting'
  BY <1>1 DEF Waiting, Confirming, Distinct
<1>3. PICK D, E : D = Done(h) /\ E = Done(h)'
  OBVIOUS
<1>4. n \notin D /\ n \in E /\ D \subseteq E
  BY <1>1, <1>2, <1>3 DEF Done, Grows
<1>5. IsFiniteSet(E) /\ IsFiniteSet(D)
  <2>1. PICK I : I = indexed
    OBVIOUS
  <2>2. IsFiniteSet(I)
    BY <2>1, DoneFinite
  <2>3. D \subseteq I /\ E \subseteq I
    BY <1>3, <2>1 DEF Done
  <2> QED BY <2>2, <2>3, FS_Subset
<1>6. Cardinality(D \cup {n}) = Cardinality(D) + 1
  BY <1>4, <1>5, FS_AddElement
<1>7. D \cup {n} \subseteq E
  BY <1>4
<1>8. Cardinality(D \cup {n}) <= Cardinality(E)
  BY <1>5, <1>7, FS_Subset
<1> QED BY <1>3, <1>6, <1>8

-----------------------------------------------------------------------------
\* Who does not act keeps its invariant.
LEMMA OperatorStays ==
    ASSUME TypeOK, TypeOK', NEW o \in Operators, OperatorOK(o), operator'[o] = operator[o],
           NEW W, Changes(W), Missing(o, W)
    PROVE  OperatorOK(o)'
<1>1. PICK k : k = operator[o]
  OBVIOUS
<1>2. /\ k.pc = "insert" => k.ref \in Refs
      /\ k.pc = "txn" <=> o \in open
      /\ k.pc = "txn" => k.target \in OperatorTargets /\ TxnSound(o, k.rec, k.snap)
      /\ \A r \in k.todo : settlement[r] # Absent
      /\ k \in OperatorState
  BY <1>1 DEF OperatorOK, TypeOK, SettlementTypeOK
<1>3. k.pc = "txn" <=> o \in open'
  BY <1>2 DEF Missing
<1>4. k.pc = "txn" => TxnSound(o, k.rec, k.snap)'
  BY <1>2, SoundStays
<1>5. \A r \in k.todo : settlement'[r] # Absent
  BY <1>2 DEF Changes, OperatorState
<1>6. operator'[o] = k
  BY <1>1
<1> QED BY <1>2, <1>3, <1>4, <1>5, <1>6 DEF OperatorOK

LEMMA WorkerStays ==
    ASSUME TypeOK, TypeOK', NEW w \in Workers, WorkerOK(w), worker'[w] = worker[w],
           NEW W, Changes(W), Missing(w, W), Grows
    PROVE  WorkerOK(w)'
<1>1. PICK k : k = worker[w]
  OBVIOUS
<1>2. worker'[w] = k
  BY <1>1
<1>3. k \in WorkerState
  BY <1>1 DEF TypeOK
<1>4. k.pc \in {"raw", "event", "match", "begin", "txn", "mark", "quarantine"} =>
          k.from < k.at /\ k.at <= PageEnd(w)
  BY <1>1 DEF WorkerOK
<1>5. PageEnd(w)' = PageEnd(w)
  BY DEF PageEnd
<1>6. Confirming(w)' <=> Confirming(w)
  BY DEF Confirming
<1>7. Confirming(w) \/ k.pc = "mark" => k.at \in indexed /\ k.at \in indexed'
  BY <1>1 DEF WorkerOK, Grows
<1>8. k.pc \in {"begin", "txn"} =>
              /\ k.rec \in Records /\ settlement'[k.rec] # Absent
              /\ HashOf[settlement'[k.rec].ref] = TxOf[k.at]
              /\ k.count <= Cardinality(Done(TxOf[k.at])') + 1
  <2> SUFFICES ASSUME k.pc \in {"begin", "txn"}
               PROVE  /\ k.rec \in Records /\ settlement'[k.rec] # Absent
                      /\ HashOf[settlement'[k.rec].ref] = TxOf[k.at]
                      /\ k.count <= Cardinality(Done(TxOf[k.at])') + 1
    OBVIOUS
  <2>1. /\ k.rec \in Records /\ settlement[k.rec] # Absent
        /\ HashOf[settlement[k.rec].ref] = TxOf[k.at]
        /\ k.count <= Cardinality(Done(TxOf[k.at])) + 1
    BY <1>1 DEF WorkerOK
  <2>2. settlement'[k.rec] # Absent /\ settlement'[k.rec].ref = settlement[k.rec].ref
    BY <2>1 DEF Changes
  <2>3. PICK h : h = TxOf[k.at]
    OBVIOUS
  <2>4. PICK c, d : c = Cardinality(Done(h)) /\ d = Cardinality(Done(h)')
    OBVIOUS
  <2>5. c <= d /\ c \in Nat /\ d \in Nat
    <3>1. c \in Nat /\ c <= d
      BY <2>4, DoneFinite DEF TypeOK, Grows
    <3>2. PICK D, I : D = Done(h)' /\ I = indexed'
      OBVIOUS
    <3>3. I \in SUBSET Operations /\ D \subseteq I
      BY <3>2 DEF TypeOK, Done
    <3>4. IsFiniteSet(D)
      <4>1. IsFiniteSet(Operations)
        BY IndexerAssumption, FS_Interval DEF Operations
      <4> QED BY <3>3, <4>1, FS_Subset
    <3>5. d \in Nat
      BY <2>4, <3>2, <3>4, FS_CardinalityType
    <3> QED BY <3>1, <3>5
  <2>6. k.count \in Nat
    BY <1>3 DEF WorkerState
  <2>7. k.count <= d + 1
    BY <2>1, <2>3, <2>4, <2>5, <2>6
  <2> QED BY <2>1, <2>2, <2>3, <2>4, <2>7
<1>9. k.pc = "txn" <=> w \in open'
  BY <1>1 DEF WorkerOK, Missing
<1>10. k.pc = "txn" => TxnSound(w, k.rec, k.snap)'
  <2>1. k.pc = "txn" => w \in open /\ TxnSound(w, k.rec, k.snap)
    BY <1>1 DEF WorkerOK
  <2> QED BY <2>1, SoundStays
<1>11. k.pc = "save" => k.from <= k.to
  BY <1>1 DEF WorkerOK
<1> QED
  BY <1>1, <1>2, <1>4, <1>5, <1>6, <1>7, <1>8, <1>9, <1>10, <1>11 DEF WorkerOK

-----------------------------------------------------------------------------
\* The record after a transition.
Renewed(s, target, count) ==
    [s.record EXCEPT !.state = target, !.count = count, !.stuck = FALSE]

\* A transition that commits has seen the record as it is, and the balances that
\* it changes.
TransitionDone(t, r, s, target, count) ==
    /\ r \in Records /\ s.record = settlement[r] /\ s.record \in SettlementDoc
    /\ Allowed(target, s.record.state)
    /\ settlement' \in [Records -> SettlementDoc \cup {Absent}]
    /\ funds' \in [Users -> FundsDoc]
    /\ journal' \in [Records -> JournalDoc \cup {Absent}]
    /\ TxnTypeOK' /\ t \in open /\ t \notin open'
    /\ \A v \in Txns \ {t} : Missing(v, Written(r, s, target))
    /\ Changes(Written(r, s, target))
    /\ settlement' = [settlement EXCEPT ![r] = Renewed(s, target, count)]

LEMMA TransitionFacts ==
    ASSUME TypeOK, NEW t \in Txns, NEW r, NEW s, NEW target \in Targets, NEW count \in Nat,
           RecordsOK, TxnSound(t, r, s), TransitionRecord(t, r, s, target, count)
    PROVE  TransitionDone(t, r, s, target, count)
<1> DEFINE W == Written(r, s, target)
           x == s.record.ref
           u == UserOf[x]
           doc == Renewed(s, target, count)
<1>1. /\ r \in Records /\ s \in Snapshot /\ settlement[r] # Absent
      /\ s.record \in SettlementDoc /\ s.funds \in FundsDoc
      /\ <<"settlement", r>> \in missed[t] \/ s.record = settlement[r]
      /\ s.record.ref = settlement[r].ref
  BY DEF TxnSound, Snapshot
<1>2. x \in Refs /\ u \in Users /\ Amount[x] \in Nat
  BY <1>1, SettlementAssumption DEF SettlementDoc
<1>3. W \in SUBSET Docs /\ <<"settlement", r>> \in W
  BY <1>1, <1>2 DEF Written, Docs
<1>4. TxnTypeOK /\ TxnCommit(t, W)
  BY DEF TypeOK, SettlementTypeOK, TransitionRecord
<1>5. /\ t \in open /\ t \notin open' /\ W \cap missed[t] = {} /\ TxnTypeOK'
      /\ \A v \in Txns \ {t} : Missing(v, W)
  <2> HIDE DEF W
  <2> QED BY <1>3, <1>4, CommitFacts
<1>6. s.record = settlement[r]
  BY <1>1, <1>3, <1>5
<1>7. s.record.state \in Reached
  BY <1>1, <1>6 DEF RecordsOK, RecordOK
<1>8. Allowed(target, s.record.state)
  <2>1. Valid(s.record.state, target) /\ s.record.state # target
    BY DEF TransitionRecord
  <2> QED BY <1>7, <2>1, ValidFacts
<1>9. settlement' = [settlement EXCEPT ![r] = doc]
  BY DEF TransitionRecord, Renewed
<1>10. doc \in SettlementDoc /\ doc.ref = x
  <2>1. target \in State
    BY DEF Targets, OperatorTargets, State
  <2> QED BY <1>1, <2>1 DEF SettlementDoc, Renewed
<1>11. settlement' \in [Records -> SettlementDoc \cup {Absent}]
  <2> HIDE DEF doc
  <2> QED BY <1>9, <1>10 DEF TypeOK, SettlementTypeOK
<1>12. /\ funds' \in [Users -> FundsDoc]
       /\ \A v \in Users : <<"user", v>> \notin W => funds'[v] = funds[v]
  <2>1. PICK f : f = FundsAfter(s, target)
    OBVIOUS
  <2>2. f \in FundsDoc
    BY <1>1, <2>1, FundsAfterFacts
  <2>3. funds' = IF f = s.funds THEN funds ELSE [funds EXCEPT ![u] = f]
    BY <2>1 DEF TransitionRecord
  <2>4. f # s.funds => <<"user", u>> \in W
    BY <2>1 DEF Written
  <2> QED BY <1>2, <2>2, <2>3, <2>4 DEF TypeOK, SettlementTypeOK
<1>13. journal' \in [Records -> JournalDoc \cup {Absent}]
  <2>1. PICK j : j = Taken(s.funds, Amount[x])
    OBVIOUS
  <2>2. j \in JournalDoc
    BY <1>1, <1>2, <2>1, TakenFacts
  <2>3. journal' = IF target = "reversed" THEN [journal EXCEPT ![r] = j] ELSE journal
    BY <2>1 DEF TransitionRecord
  <2> QED BY <2>2, <2>3 DEF TypeOK, SettlementTypeOK
<1>14. Changes(W)
  <2>1. Absent \notin SettlementDoc
    BY SettlementAssumption
  <2>2. \A q \in Records : settlement[q] # Absent =>
          settlement'[q] # Absent /\ settlement'[q].ref = settlement[q].ref
    <3> HIDE DEF doc
    <3> QED BY <1>1, <1>9, <1>10, <2>1 DEF TypeOK, SettlementTypeOK
  <2>3. \A q \in Records : <<"settlement", q>> \notin W => settlement'[q] = settlement[q]
    <3> HIDE DEF doc, W
    <3> QED BY <1>3, <1>9 DEF TypeOK, SettlementTypeOK
  <2> QED BY <1>12, <2>2, <2>3 DEF Changes
<1> HIDE DEF W, doc
<1> QED BY <1>1, <1>5, <1>6, <1>8, <1>9, <1>11, <1>12, <1>13, <1>14 DEF TransitionDone, W, doc

\* What a transition does to the records: the other ones stay, this one is as the
\* transition says.
LEMMA RecordStays ==
    ASSUME TypeOK, indexed' \in SUBSET Operations, NEW q \in Records, RecordOK(q), Grows,
           settlement'[q] = settlement[q] \/
              /\ settlement'[q] # Absent /\ settlement[q] # Absent
              /\ settlement'[q].ref = settlement[q].ref /\ settlement'[q].state = settlement[q].state
              /\ settlement'[q].count = settlement[q].count,
           journal'[q] = journal[q]
    PROVE  RecordOK(q)'
<1> PICK h : h = HashOf[settlement'[q].ref]
  OBVIOUS
<1>1. ASSUME settlement'[q] # Absent
      PROVE  /\ settlement'[q].state \in Reached
             /\ settlement'[q].count <= Cardinality(Done(h)')
  <2>1. /\ settlement[q] # Absent /\ settlement'[q].ref = settlement[q].ref
        /\ settlement'[q].state = settlement[q].state
        /\ settlement'[q].count = settlement[q].count
    BY <1>1
  <2>2. h = HashOf[settlement[q].ref]
    BY <2>1
  <2>3. settlement[q].count <= Cardinality(Done(h)) /\ settlement[q].count \in Nat
    BY <2>1, <2>2 DEF RecordOK, TypeOK, SettlementTypeOK, SettlementDoc
  <2>4. Cardinality(Done(h)) <= Cardinality(Done(h)') /\ Cardinality(Done(h)) \in Nat
    BY DoneFinite DEF Grows, TypeOK
  <2>5. Cardinality(Done(h)') \in Nat
    <3>1. PICK D, I : D = Done(h)' /\ I = indexed'
      OBVIOUS
    <3>2. D \subseteq I /\ IsFiniteSet(Operations)
      BY <3>1, IndexerAssumption, FS_Interval DEF Done, Operations
    <3>3. IsFiniteSet(D)
      BY <3>1, <3>2, FS_Subset
    <3> QED BY <3>1, <3>3, FS_CardinalityType
  <2>6. settlement[q].count <= Cardinality(Done(h)')
    BY <2>3, <2>4, <2>5
  <2> QED BY <1>1, <2>1, <2>6 DEF RecordOK
<1>2. journal'[q] # Absent => settlement'[q] # Absent /\ settlement'[q].state = "reversed"
  BY DEF RecordOK
<1>3. Done(h)' = Done(HashOf[settlement[q].ref])'
  OBVIOUS
<1> QED BY <1>1, <1>2, <1>3 DEF RecordOK

LEMMA TransitionRecords ==
    ASSUME TypeOK, indexed' \in SUBSET Operations, NEW t \in Txns, NEW r, NEW s,
           NEW target \in Targets, NEW count \in Nat,
           RecordsOK, TxnSound(t, r, s),
           TransitionRecord(t, r, s, target, count), Grows,
           NEW h, h = HashOf[s.record.ref], count <= Cardinality(Done(h)')
    PROVE  RecordsOK'
<1>1. /\ r \in Records /\ s.record = settlement[r] /\ s.record \in SettlementDoc
      /\ Allowed(target, s.record.state)
      /\ settlement' = [settlement EXCEPT ![r] = Renewed(s, target, count)]
  <2>1. TransitionDone(t, r, s, target, count)
    BY TransitionFacts
  <2> QED BY <2>1 DEF TransitionDone
<1>2. ASSUME NEW q \in Records, q # r PROVE RecordOK(q)'
  <2>0. RecordOK(q)
    BY DEF RecordsOK
  <2>1. settlement'[q] = settlement[q]
    BY <1>1, <1>2 DEF TypeOK, SettlementTypeOK
  <2>2. journal'[q] = journal[q]
    BY <1>2 DEF TransitionRecord, TypeOK, SettlementTypeOK
  <2> QED BY <2>0, <2>1, <2>2, RecordStays
<1>3. RecordOK(r)'
  <2>1. /\ settlement'[r].state = target /\ settlement'[r].count = count
        /\ settlement'[r].ref = s.record.ref
    BY <1>1 DEF TypeOK, SettlementTypeOK, SettlementDoc, Renewed
  <2>2. target \in Reached
    BY DEF Targets, OperatorTargets, Reached
  <2>3. settlement[r] # Absent
    BY DEF TxnSound
  <2>4. settlement'[r] # Absent
    <3>1. Renewed(s, target, count) \in SettlementDoc
      <4>1. target \in State
        BY DEF Targets, OperatorTargets, State
      <4> QED BY <1>1, <4>1 DEF SettlementDoc, Renewed
    <3>2. Absent \notin SettlementDoc
      BY SettlementAssumption
    <3> QED BY <1>1, <3>1, <3>2 DEF TypeOK, SettlementTypeOK
  <2>5. journal[r] = Absent
    BY <1>1 DEF RecordsOK, RecordOK, Allowed
  <2>6. journal'[r] # Absent => target = "reversed"
    BY <2>5 DEF TransitionRecord
  <2> QED BY <2>1, <2>2, <2>4, <2>6 DEF RecordOK
<1> QED BY <1>2, <1>3 DEF RecordsOK

\* The wallet agrees with the records after a transition.
LEMMA TransitionWallet ==
    ASSUME TypeOK, SettlementTypeOK', NEW t \in Txns, NEW r, NEW s, NEW target \in Targets,
           NEW count \in Nat, RecordsOK, TxnSound(t, r, s), WalletAgrees,
           TransitionRecord(t, r, s, target, count), spent' = spent
    PROVE  WalletAgrees'
<1> DEFINE S == {"confirmed", "reversed"}
<1> SUFFICES ASSUME NEW u \in Users
             PROVE  funds'[u].available + spent'[u] + TakenFrom(u)' = Worth(u, S)'
  BY DEF WalletAgrees
<1>1. /\ r \in Records /\ s.record = settlement[r] /\ s.record \in SettlementDoc
      /\ Allowed(target, s.record.state)
      /\ t \in open
      /\ settlement' = [settlement EXCEPT ![r] = Renewed(s, target, count)]
  <2>1. TransitionDone(t, r, s, target, count)
    BY TransitionFacts
  <2> QED BY <2>1 DEF TransitionDone
<1>2. PICK x, a, f : x = s.record.ref /\ a = Amount[x] /\ f = FundsAfter(s, target)
  OBVIOUS
<1>3. /\ x \in Refs /\ UserOf[x] \in Users /\ a \in Nat \ {0}
      /\ s \in Snapshot /\ s.funds \in FundsDoc
  BY <1>1, <1>2, SettlementAssumption DEF SettlementDoc, TxnSound, Snapshot
<1>4. PICK old, new : old = settlement[r] /\ new = settlement'[r]
  OBVIOUS
<1>5. /\ old # Absent /\ old.ref = x /\ old = s.record
      /\ new.ref = x /\ new.state = target
  BY <1>1, <1>2, <1>4 DEF TxnSound, TypeOK, SettlementTypeOK, SettlementDoc, Renewed
<1>6. new # Absent
  <2>1. settlement'[r] \in SettlementDoc \cup {Absent}
    BY <1>1 DEF SettlementTypeOK
  <2>2. Renewed(s, target, count) \in SettlementDoc
    <3>1. target \in State
      BY DEF Targets, OperatorTargets, State
    <3> QED BY <1>1, <3>1 DEF SettlementDoc, Renewed
  <2>3. Absent \notin SettlementDoc
    BY SettlementAssumption
  <2> QED BY <1>1, <1>4, <2>2, <2>3 DEF TypeOK, SettlementTypeOK
<1>7. journal[r] = Absent
  BY <1>1 DEF RecordsOK, RecordOK, Allowed
<1>8. /\ Worth(u, S)' = Worth(u, S) - Value(old, u, S) + Value(new, u, S)
      /\ Value(old, u, S) \in Nat /\ Value(new, u, S) \in Nat
  <2>1. \A q \in Records \ {r} : settlement'[q] = settlement[q]
    BY <1>1 DEF TypeOK, SettlementTypeOK
  <2> QED BY <1>1, <1>4, <2>1, WorthChanges DEF TypeOK
<1>9. /\ TakenFrom(u)' = TakenFrom(u) + Loss(journal'[r], new, u)
      /\ Loss(journal'[r], new, u) \in Nat
  <2>1. \A q \in Records \ {r} : settlement'[q] = settlement[q] /\ journal'[q] = journal[q]
    BY <1>1 DEF TransitionRecord, TypeOK, SettlementTypeOK
  <2>2. Loss(journal[r], settlement[r], u) = 0
    BY <1>7 DEF Loss
  <2>3. SettlementTypeOK
    BY DEF TypeOK
  <2>4. TakenFrom(u) \in Nat
    BY <2>3, TakenType
  <2>5. /\ TakenFrom(u)' = TakenFrom(u) - Loss(journal[r], settlement[r], u)
                                        + Loss(journal'[r], settlement'[r], u)
        /\ Loss(journal'[r], settlement'[r], u) \in Nat
    BY <1>1, <2>1, <2>3, TakenChanges
  <2> QED BY <1>4, <2>2, <2>4, <2>5
<1>10. /\ f \in FundsDoc
       /\ f.available = s.funds.available
                    + (IF target = "confirmed" /\ x \in WalletFunding THEN a ELSE 0)
                    - (IF target = "reversed" THEN Taken(s.funds, a).available ELSE 0)
  BY <1>2, <1>3, FundsAfterFacts
<1>11. funds' = IF f = s.funds THEN funds ELSE [funds EXCEPT ![UserOf[x]] = f]
  BY <1>2 DEF TransitionRecord
<1>12. f # s.funds => s.funds = funds[UserOf[x]]
  <2>1. Written(r, s, target) \cap missed[t] = {}
    BY DEF TransitionRecord, TxnCommit
  <2> QED BY <1>2, <2>1 DEF Written, TxnSound
<1>13. /\ funds[u].available + spent[u] + TakenFrom(u) = Worth(u, S)
       /\ funds[u].available \in Int /\ spent[u] \in Int
       /\ TakenFrom(u) \in Int /\ Worth(u, S) \in Int
  <2>1. /\ funds[u].available + spent[u] + TakenFrom(u) = Worth(u, S)
        /\ funds[u].available \in Int /\ spent[u] \in Int
    BY DEF WalletAgrees, TypeOK, SettlementTypeOK, FundsDoc
  <2>2. TakenFrom(u) \in Nat /\ Worth(u, S) \in Nat
    BY TakenType, WorthType DEF TypeOK, SettlementTypeOK
  <2> QED BY <2>1, <2>2
<1>14. SUFFICES funds'[u].available = funds[u].available
                   + (Value(new, u, S) - Value(old, u, S)) - Loss(journal'[r], new, u)
  <2>1. PICK d, v, w, l : d = funds'[u].available /\ v = Value(old, u, S) /\ w = Value(new, u, S)
                          /\ l = Loss(journal'[r], new, u)
    OBVIOUS
  <2>2. PICK b, c, e, g : b = funds[u].available /\ c = spent[u] /\ e = TakenFrom(u) /\ g = Worth(u, S)
    OBVIOUS
  <2>3. /\ v \in Nat /\ w \in Nat /\ l \in Nat /\ b \in Int /\ c \in Int /\ e \in Int /\ g \in Int
        /\ b + c + e = g /\ d = b + (w - v) - l
    BY <1>8, <1>9, <1>13, <1>14, <2>1, <2>2
  <2>4. d + c + (e + l) = g - v + w
    BY <2>3
  <2> QED BY <1>8, <1>9, <2>1, <2>2, <2>4
<1>15. CASE u # UserOf[x]
  <2>1. funds'[u] = funds[u]
    BY <1>11, <1>15 DEF TypeOK, SettlementTypeOK
  <2>2. Value(new, u, S) = 0 /\ Value(old, u, S) = 0 /\ Loss(journal'[r], new, u) = 0
    BY <1>5, <1>15 DEF Value, Counts, Loss
  <2> QED BY <1>13, <2>1, <2>2
<1>16. CASE u = UserOf[x] /\ target = "reversed"
  <2>1. PICK k : k = Taken(s.funds, a).available
    OBVIOUS
  <2>2. k \in Nat
    BY <1>3, <2>1, TakenFacts DEF JournalDoc
  <2>3. f # s.funds
    <3>1. f = Reversal(s.funds, a)
      BY <1>2, <1>16 DEF FundsAfter
    <3>2. f.reversed = s.funds.reversed + a
      BY <3>1 DEF Reversal
    <3> QED BY <1>3, <3>2 DEF FundsDoc
  <2>4. funds'[u] = f /\ s.funds = funds[u]
    BY <1>11, <1>12, <1>16, <2>3 DEF TypeOK, SettlementTypeOK
  <2>5. f.available = funds[u].available - k
    BY <1>10, <1>13, <1>16, <2>1, <2>2, <2>4
  <2>6. Loss(journal'[r], new, u) = k
    <3>1. journal'[r] = Taken(s.funds, a)
      BY <1>1, <1>2, <1>16 DEF TransitionRecord, TypeOK, SettlementTypeOK
    <3>2. Taken(s.funds, a) \in JournalDoc /\ Absent \notin JournalDoc
      BY <1>3, TakenFacts, SettlementAssumption
    <3> QED BY <1>5, <1>16, <2>1, <3>1, <3>2 DEF Loss
  <2>7. Value(new, u, S) = Value(old, u, S)
    BY <1>1, <1>5, <1>6, <1>16 DEF Value, Counts, Allowed
  <2> QED BY <1>8, <1>13, <2>2, <2>4, <2>5, <2>6, <2>7
<1>17. CASE u = UserOf[x] /\ target # "reversed"
  <2>1. Loss(journal'[r], new, u) = 0
    BY <1>7, <1>17 DEF Loss, TransitionRecord
  <2>2. Value(old, u, S) = 0
    BY <1>1, <1>5, <1>17 DEF Value, Counts, Allowed
  <2>3. CASE target = "confirmed" /\ x \in WalletFunding
    <3>1. f.available = s.funds.available + a
      BY <1>3, <1>10, <2>3 DEF FundsDoc
    <3>2. f # s.funds
      BY <1>3, <3>1 DEF FundsDoc
    <3>3. funds'[u] = f /\ s.funds = funds[u]
      BY <1>11, <1>12, <1>17, <3>2 DEF TypeOK, SettlementTypeOK
    <3>4. Value(new, u, S) = a
      BY <1>2, <1>5, <1>6, <1>17, <2>3 DEF Value, Counts
    <3> QED BY <1>3, <1>13, <2>1, <2>2, <3>1, <3>3, <3>4
  <2>4. CASE ~(target = "confirmed" /\ x \in WalletFunding)
    <3>1. f.available = s.funds.available
      BY <1>3, <1>10, <1>17, <2>4 DEF FundsDoc
    <3>2. funds'[u].available = funds[u].available
      BY <1>3, <1>11, <1>12, <1>17, <3>1 DEF TypeOK, SettlementTypeOK
    <3>3. Value(new, u, S) = 0
      BY <1>5, <1>17, <2>4 DEF Value, Counts
    <3> QED BY <1>13, <2>1, <2>2, <3>2, <3>3
  <2> QED BY <2>3, <2>4
<1> QED BY <1>15, <1>16, <1>17

-----------------------------------------------------------------------------
\* A step of one operator, or of a user: the indexer does not move.
OperatorFrame(o, W) ==
    /\ SettlementTypeOK' /\ UNCHANGED <<indexVars, worker, faults>>
    /\ \A p \in Operators \ {o} : operator'[p] = operator[p]
    /\ \A v \in Txns \ {o} : Missing(v, W)
    /\ Changes(W)

LEMMA OperatorStep ==
    ASSUME IInv, NEW o, o \notin Workers, NEW W, OperatorFrame(o, W),
           o \in Operators => OperatorOK(o)', RecordsOK', WalletAgrees'
    PROVE  IInv'
<1>1. TypeOK /\ TypeOK'
  BY DEF IInv, TypeOK, OperatorFrame, indexVars
<1>2. Grows
  <2>1. indexed \in SUBSET Operations /\ indexed' = indexed
    BY <1>1 DEF TypeOK, OperatorFrame, indexVars
  <2>2. \A w \in Workers : Confirming(w)' => Confirming(w) /\ worker'[w].at = worker[w].at
    BY DEF Confirming, OperatorFrame
  <2> QED BY <2>1, <2>2, StillGrows
<1>3. ASSUME NEW p \in Operators PROVE OperatorOK(p)'
  <2>1. CASE p = o
    BY <2>1
  <2>2. CASE p # o
    <3>1. operator'[p] = operator[p] /\ Missing(p, W) /\ Changes(W) /\ OperatorOK(p)
      BY <2>2 DEF OperatorFrame, IInv, Txns
    <3> QED BY <1>1, <3>1, OperatorStays
  <2> QED BY <2>1, <2>2
<1>4. ASSUME NEW w \in Workers PROVE WorkerOK(w)'
  <2>1. worker'[w] = worker[w] /\ Missing(w, W) /\ Changes(W) /\ WorkerOK(w)
    BY DEF OperatorFrame, IInv, Txns
  <2> QED BY <1>1, <1>2, <2>1, WorkerStays
<1>5. Distinct'
  BY DEF IInv, OperatorFrame, Distinct, Confirming
<1>6. \A w \in Workers : LeaseOK(w)'
  BY DEF IInv, OperatorFrame, LeaseOK, indexVars
<1>7. KeysDiffer => CoverOK'
  BY DEF IInv, OperatorFrame, CoverOK, indexVars, KeysDiffer, RawKey
<1> QED BY <1>1, <1>3, <1>4, <1>5, <1>6, <1>7 DEF IInv, KeysDiffer, RawKey

\* Nothing happens to the records and the balances.
LEMMA QuietRecords ==
    ASSUME TypeOK, indexed' \in SUBSET Operations, RecordsOK, WalletAgrees, Grows,
           UNCHANGED <<settlement, funds, journal, spent>>
    PROVE  RecordsOK' /\ WalletAgrees' /\ Changes({})
<1>1. ASSUME NEW q \in Records PROVE RecordOK(q)'
  <2>1. RecordOK(q)
    BY DEF RecordsOK
  <2> QED BY <2>1, RecordStays
<1>2. WalletAgrees'
  BY DEF WalletAgrees, TakenFrom, Worth, Counts
<1> QED BY <1>1, <1>2 DEF RecordsOK, Changes

LEMMA StillWorkers ==
    ASSUME TypeOK, UNCHANGED <<indexVars, worker, faults>>
    PROVE  Grows
<1>1. \A w \in Workers : Confirming(w)' => Confirming(w) /\ worker'[w].at = worker[w].at
  BY DEF Confirming
<1> QED BY <1>1, StillGrows DEF TypeOK, indexVars

LEMMA IdleType ==
    /\ Idle \in OperatorState /\ Idle.pc = "idle" /\ Idle.todo = {}
    /\ IdleWorker \in WorkerState /\ IdleWorker.pc = "idle" /\ IdleWorker.from = 0
  BY IndexerAssumption DEF Idle, OperatorState, IdleWorker, WorkerState

\* An operator that has stopped, or goes on with its sweep.
LEMMA Stopped ==
    ASSUME TypeOK, NEW o \in Operators, OperatorOK(o), o \notin open', NEW W, Changes(W),
           Stop(o) \/ Continue(o)
    PROVE  /\ OperatorOK(o)' /\ operator' \in [Operators -> OperatorState]
           /\ \A p \in Operators \ {o} : operator'[p] = operator[p]
<1>1. operator \in [Operators -> OperatorState]
  BY DEF TypeOK, SettlementTypeOK
<1>2. PICK todo : todo = operator[o].todo
  OBVIOUS
<1>3. todo \in SUBSET Records /\ \A r \in todo : settlement[r] # Absent
  BY <1>1, <1>2 DEF OperatorOK, OperatorState
<1>4. \A r \in todo : settlement'[r] # Absent
  BY <1>3 DEF Changes
<1>5. CASE Stop(o)
  <2>1. operator' = [operator EXCEPT ![o] = Idle]
    BY <1>5 DEF Stop
  <2>2. operator'[o] = Idle
    BY <1>1, <2>1
  <2>3. OperatorOK(o)'
    BY <2>2, IdleType DEF OperatorOK
  <2> QED BY <1>1, <2>1, <2>3, IdleType
<1>6. CASE Continue(o)
  <2>1. PICK k : k = [Idle EXCEPT !.pc = IF todo = {} THEN "idle" ELSE "sweep", !.todo = todo]
    OBVIOUS
  <2>2. /\ k \in OperatorState /\ k.pc \in {"idle", "sweep"} /\ k.todo = todo
    BY <1>3, <2>1 DEF Idle, OperatorState
  <2>3. operator' = [operator EXCEPT ![o] = k]
    BY <1>2, <1>6, <2>1 DEF Continue
  <2>4. operator'[o] = k
    BY <1>1, <2>3
  <2>5. OperatorOK(o)'
    BY <1>4, <2>2, <2>4 DEF OperatorOK
  <2> QED BY <1>1, <2>2, <2>3, <2>5
<1> QED BY <1>5, <1>6

LEMMA SnapshotType ==
    ASSUME SettlementTypeOK, NEW r \in Records, settlement[r] # Absent, NEW s, s = SnapshotOf(r)
    PROVE  /\ s \in Snapshot /\ s.record = settlement[r]
           /\ s.funds = funds[UserOf[s.record.ref]]
<1>1. PICK doc : doc = settlement[r]
  OBVIOUS
<1>2. doc \in SettlementDoc
  BY <1>1 DEF SettlementTypeOK
<1>3. PICK f : f = funds[UserOf[doc.ref]]
  OBVIOUS
<1>4. f \in FundsDoc
  <2>1. UserOf[doc.ref] \in Users
    BY <1>2, SettlementAssumption DEF SettlementDoc
  <2> QED BY <1>3, <2>1 DEF SettlementTypeOK
<1>5. s = [record |-> doc, funds |-> f]
  BY <1>1, <1>3 DEF SnapshotOf
<1> QED BY <1>1, <1>2, <1>3, <1>4, <1>5 DEF Snapshot

-----------------------------------------------------------------------------
\* The steps of an operator.
LEMMA NotWorker == ASSUME NEW o \in Operators PROVE o \notin Workers /\ o \in Txns
  BY SettlementAssumption DEF Txns

LEMMA LookUpStep ==
    ASSUME IInv, NEW o \in Operators, NEW x \in Refs, LookUp(o, x), UNCHANGED <<indexVars, worker, faults>>
    PROVE  IInv'
<1>1. /\ TypeOK /\ SettlementTypeOK /\ indexed \in SUBSET Operations /\ OperatorOK(o)
      /\ RecordsOK /\ WalletAgrees
  BY DEF IInv, TypeOK
<1>2. operator[o].pc = "idle" /\ o \notin open
  BY <1>1 DEF LookUp, At, OperatorOK
<1>3. PICK k : k = [operator[o] EXCEPT !.pc = "insert", !.ref = x]
  OBVIOUS
<1>4. operator[o] \in OperatorState
  BY <1>1 DEF SettlementTypeOK
<1>5. k \in OperatorState /\ k.pc = "insert" /\ k.ref = x /\ k.todo = operator[o].todo
  BY <1>3, <1>4 DEF OperatorState
<1>6. operator' = [operator EXCEPT ![o] = k]
  BY <1>3 DEF LookUp
<1>7. UNCHANGED <<settlement, funds, journal, spent, open, missed>>
  BY DEF LookUp
<1>8. SettlementTypeOK'
  BY <1>1, <1>5, <1>6, <1>7 DEF SettlementTypeOK, TxnTypeOK
<1>9. RecordsOK' /\ WalletAgrees' /\ Changes({})
  BY <1>1, <1>7, StillWorkers, QuietRecords DEF indexVars
<1>10. operator'[o] = k
  BY <1>1, <1>6 DEF SettlementTypeOK
<1>11. OperatorOK(o)'
  BY <1>1, <1>2, <1>5, <1>7, <1>10 DEF OperatorOK
<1>12. OperatorFrame(o, {})
  BY <1>1, <1>6, <1>7, <1>8, <1>9 DEF OperatorFrame, Missing, SettlementTypeOK
<1> QED BY <1>9, <1>11, <1>12, NotWorker, OperatorStep

LEMMA InsertStep ==
    ASSUME IInv, NEW o \in Operators, Insert(o), UNCHANGED <<indexVars, worker, faults>>
    PROVE  IInv'
<1>1. /\ TypeOK /\ SettlementTypeOK /\ indexed \in SUBSET Operations /\ OperatorOK(o)
      /\ RecordsOK /\ WalletAgrees
  BY DEF IInv, TypeOK
<1>2. PICK x : x = operator[o].ref
  OBVIOUS
<1>3. x \in Refs /\ UserOf[x] \in Users /\ Amount[x] \in Nat /\ o \notin open
  BY <1>1, <1>2, SettlementAssumption DEF Insert, At, OperatorOK
<1>4. PICK W : W = IF x \in WalletFunding THEN {<<"user", UserOf[x]>>} ELSE {}
  OBVIOUS
<1>5. PICK r \in Records :
         /\ settlement[r] = Absent
         /\ settlement' = [settlement EXCEPT ![r] = [ref |-> x, state |-> "initiated",
                                                       count |-> 0, stuck |-> FALSE]]
         /\ PlainWrite({<<"settlement", r>>} \cup W)
  BY <1>2, <1>4 DEF Insert
<1>6. PICK doc : doc = [ref |-> x, state |-> "initiated", count |-> 0, stuck |-> FALSE]
  OBVIOUS
<1>7. /\ doc \in SettlementDoc /\ doc # Absent /\ doc.ref = x /\ doc.state = "initiated"
      /\ doc.count = 0
  <2>1. Absent \notin SettlementDoc
    BY SettlementAssumption
  <2>2. doc \in SettlementDoc
    BY <1>3, <1>6 DEF SettlementDoc, State
  <2> QED BY <1>6, <2>1, <2>2
<1>8. /\ settlement' = [settlement EXCEPT ![r] = doc]
      /\ settlement' \in [Records -> SettlementDoc \cup {Absent}]
  BY <1>1, <1>5, <1>6, <1>7 DEF SettlementTypeOK
<1>9. /\ funds' \in [Users -> FundsDoc]
      /\ \A u \in Users : funds'[u].available = funds[u].available
      /\ \A u \in Users : <<"user", u>> \notin W => funds'[u] = funds[u]
  <2>1. CASE x \in WalletFunding
    <3>1. PICK f : f = [funds[UserOf[x]] EXCEPT !.pending = funds[UserOf[x]].pending + Amount[x]]
      OBVIOUS
    <3>2. funds[UserOf[x]] \in FundsDoc
      BY <1>1, <1>3 DEF SettlementTypeOK
    <3>3. f \in FundsDoc /\ f.available = funds[UserOf[x]].available
      BY <1>3, <3>1, <3>2 DEF FundsDoc
    <3>4. funds' = [funds EXCEPT ![UserOf[x]] = f]
      BY <1>2, <2>1, <3>1 DEF Insert
    <3>5. <<"user", UserOf[x]>> \in W
      BY <1>4, <2>1
    <3> QED BY <1>1, <1>3, <3>3, <3>4, <3>5 DEF SettlementTypeOK
  <2>2. CASE x \notin WalletFunding
    <3>1. funds' = funds
      BY <1>2, <2>2 DEF Insert
    <3> QED BY <1>1, <3>1 DEF SettlementTypeOK
  <2> QED BY <2>1, <2>2
<1>10. {<<"settlement", r>>} \cup W \in SUBSET Docs
  BY <1>3, <1>4 DEF Docs
<1>11. /\ TxnTypeOK' /\ open' = open
       /\ \A v \in Txns : Missing(v, {<<"settlement", r>>} \cup W)
  BY <1>1, <1>5, <1>10, WriteFacts DEF SettlementTypeOK
<1>12. Changes({<<"settlement", r>>} \cup W)
  <2>1. \A q \in Records : q # r => settlement'[q] = settlement[q]
    BY <1>1, <1>8 DEF SettlementTypeOK
  <2>2. \A q \in Records : settlement[q] # Absent => q # r
    BY <1>5
  <2> QED BY <1>9, <2>1, <2>2 DEF Changes
<1>13. Stop(o) /\ UNCHANGED <<journal, spent>>
  BY DEF Insert
<1>14. /\ OperatorOK(o)' /\ operator' \in [Operators -> OperatorState]
       /\ \A p \in Operators \ {o} : operator'[p] = operator[p]
  BY <1>1, <1>3, <1>11, <1>12, <1>13, Stopped
<1>15. SettlementTypeOK'
  BY <1>1, <1>8, <1>9, <1>11, <1>13, <1>14 DEF SettlementTypeOK
<1>16. Grows
  BY <1>1, StillWorkers
<1>17. RecordsOK'
  <2>1. ASSUME NEW q \in Records, q # r PROVE RecordOK(q)'
    <3>1. RecordOK(q) /\ settlement'[q] = settlement[q] /\ journal'[q] = journal[q]
      BY <1>1, <1>8, <1>13, <2>1 DEF RecordsOK, SettlementTypeOK
    <3>2. indexed' \in SUBSET Operations
      BY <1>1 DEF indexVars
    <3> QED BY <1>1, <1>16, <3>1, <3>2, RecordStays
  <2>2. RecordOK(r)'
    <3>1. journal'[r] = Absent
      BY <1>1, <1>5, <1>13 DEF RecordsOK, RecordOK
    <3>2. settlement'[r] = doc
      BY <1>1, <1>8 DEF SettlementTypeOK
    <3>3. PICK h : h = HashOf[x]
      OBVIOUS
    <3>4. 0 <= Cardinality(Done(h)')
      <4>1. Cardinality(Done(h)) \in Nat /\ Done(h)' = Done(h)
        <5>1. Cardinality(Done(h)) \in Nat
          BY <1>1, DoneFinite
        <5>2. indexed' = indexed /\ worker' = worker
          BY DEF indexVars
        <5> QED BY <5>1, <5>2 DEF Done, Waiting, Confirming
      <4> QED BY <4>1
    <3> QED BY <1>7, <3>1, <3>2, <3>3, <3>4 DEF RecordOK, Reached
  <2> QED BY <2>1, <2>2 DEF RecordsOK
<1>18. WalletAgrees'
  <2> DEFINE S == {"confirmed", "reversed"}
  <2> SUFFICES ASSUME NEW u \in Users
               PROVE  funds'[u].available + spent'[u] + TakenFrom(u)' = Worth(u, S)'
    BY DEF WalletAgrees
  <2>1. funds[u].available + spent[u] + TakenFrom(u) = Worth(u, S)
    BY <1>1 DEF WalletAgrees
  <2>2. funds'[u].available = funds[u].available /\ spent'[u] = spent[u]
    BY <1>9, <1>13
  <2>3. \A q \in Records \ {r} : settlement'[q] = settlement[q] /\ journal'[q] = journal[q]
    BY <1>1, <1>8, <1>13 DEF SettlementTypeOK
  <2>4. settlement'[r] = doc /\ journal[r] = Absent /\ journal'[r] = Absent
    BY <1>1, <1>5, <1>8, <1>13 DEF SettlementTypeOK, RecordsOK, RecordOK
  <2>5. Worth(u, S)' = Worth(u, S)
    <3>1. Worth(u, S)' = Worth(u, S) - Value(settlement[r], u, S) + Value(settlement'[r], u, S)
      BY <1>1, <1>15, <2>3, WorthChanges
    <3>2. Value(settlement[r], u, S) = 0 /\ Value(settlement'[r], u, S) = 0
      BY <1>5, <1>7, <2>4 DEF Value, Counts
    <3>3. Worth(u, S) \in Nat
      BY <1>1, WorthType DEF SettlementTypeOK
    <3> QED BY <3>1, <3>2, <3>3
  <2>6. TakenFrom(u)' = TakenFrom(u)
    <3>1. TakenFrom(u)' = TakenFrom(u) - Loss(journal[r], settlement[r], u)
                                       + Loss(journal'[r], settlement'[r], u)
      BY <1>1, <1>15, <2>3, TakenChanges
    <3>2. Loss(journal[r], settlement[r], u) = 0 /\ Loss(journal'[r], settlement'[r], u) = 0
      BY <2>4 DEF Loss
    <3>3. TakenFrom(u) \in Nat
      BY <1>1, TakenType
    <3> QED BY <3>1, <3>2, <3>3
  <2> QED BY <2>1, <2>2, <2>5, <2>6
<1>19. OperatorFrame(o, {<<"settlement", r>>} \cup W)
  BY <1>11, <1>12, <1>14, <1>15 DEF OperatorFrame
<1> QED BY <1>14, <1>17, <1>18, <1>19, NotWorker, OperatorStep

LEMMA OperateStep ==
    ASSUME IInv, NEW o \in Operators, NEW r \in Records, NEW target, Operate(o, r, target),
           UNCHANGED <<indexVars, worker, faults>>
    PROVE  IInv'
<1>1. /\ TypeOK /\ SettlementTypeOK /\ indexed \in SUBSET Operations /\ OperatorOK(o)
      /\ RecordsOK /\ WalletAgrees
  BY DEF IInv, TypeOK
<1>2. /\ settlement[r] # Absent /\ target \in OperatorTargets /\ TxnBegin(o)
      /\ UNCHANGED <<settlement, funds, journal, spent>>
  BY DEF Operate
<1>3. PICK s : s = SnapshotOf(r)
  OBVIOUS
<1>4. /\ s \in Snapshot /\ s.record = settlement[r]
      /\ s.funds = funds[UserOf[s.record.ref]]
  BY <1>1, <1>2, <1>3, SnapshotType
<1>5. PICK k : k = [operator[o] EXCEPT !.pc = "txn", !.rec = r, !.target = target, !.snap = s]
  OBVIOUS
<1>6. operator[o] \in OperatorState
  BY <1>1 DEF SettlementTypeOK
<1>7. /\ k \in OperatorState /\ k.pc = "txn" /\ k.rec = r /\ k.target = target /\ k.snap = s
      /\ k.todo = operator[o].todo
  BY <1>2, <1>4, <1>5, <1>6 DEF OperatorState, OperatorTargets, State
<1>8. operator' = [operator EXCEPT ![o] = k]
  BY <1>3, <1>5 DEF Operate
<1>9. o \in open' /\ TxnTypeOK' /\ \A v \in Txns \ {o} : Missing(v, {})
  BY <1>1, <1>2, NotWorker, BeginFacts DEF SettlementTypeOK
<1>10. SettlementTypeOK'
  BY <1>1, <1>2, <1>7, <1>8, <1>9 DEF SettlementTypeOK
<1>11. RecordsOK' /\ WalletAgrees' /\ Changes({})
  BY <1>1, <1>2, StillWorkers, QuietRecords DEF indexVars
<1>12. operator'[o] = k
  BY <1>1, <1>8 DEF SettlementTypeOK
<1>13. OperatorOK(o)'
  <2>1. TxnSound(o, r, s)'
    BY <1>2, <1>4 DEF TxnSound
  <2>2. \A q \in k.todo : settlement'[q] # Absent
    BY <1>1, <1>2, <1>7 DEF OperatorOK
  <2> QED BY <1>2, <1>7, <1>9, <1>12, <2>1, <2>2 DEF OperatorOK
<1>14. OperatorFrame(o, {})
  BY <1>1, <1>8, <1>9, <1>10, <1>11 DEF OperatorFrame, SettlementTypeOK
<1> QED BY <1>11, <1>13, <1>14, NotWorker, OperatorStep

\* A transaction that changes nothing, or is given up.
LEMMA QuietStop ==
    ASSUME IInv, NEW o \in Operators, UNCHANGED <<indexVars, worker, faults>>,
           UNCHANGED <<settlement, funds, journal, spent>>, TxnTypeOK', o \notin open',
           \A v \in Txns \ {o} : Missing(v, {}), Stop(o) \/ Continue(o)
    PROVE  IInv'
<1>1. /\ TypeOK /\ SettlementTypeOK /\ indexed \in SUBSET Operations /\ OperatorOK(o)
      /\ RecordsOK /\ WalletAgrees
  BY DEF IInv, TypeOK
<1>2. RecordsOK' /\ WalletAgrees' /\ Changes({})
  BY <1>1, StillWorkers, QuietRecords DEF indexVars
<1>3. /\ OperatorOK(o)' /\ operator' \in [Operators -> OperatorState]
      /\ \A p \in Operators \ {o} : operator'[p] = operator[p]
  BY <1>1, <1>2, Stopped
<1>4. SettlementTypeOK'
  BY <1>1, <1>3 DEF SettlementTypeOK
<1>5. OperatorFrame(o, {})
  BY <1>2, <1>3, <1>4 DEF OperatorFrame
<1> QED BY <1>2, <1>3, <1>5, NotWorker, OperatorStep

LEMMA CommitStep ==
    ASSUME IInv, NEW o \in Operators, Commit(o), UNCHANGED <<indexVars, worker, faults>>
    PROVE  IInv'
<1>1. /\ TypeOK /\ SettlementTypeOK /\ indexed \in SUBSET Operations /\ OperatorOK(o)
      /\ RecordsOK /\ WalletAgrees
  BY DEF IInv, TypeOK
<1>2. PICK r, s, target, count :
         /\ r = operator[o].rec /\ s = operator[o].snap /\ target = operator[o].target
         /\ count = operator[o].snap.record.count
  OBVIOUS
<1>3. /\ TxnSound(o, r, s) /\ target \in OperatorTargets /\ Continue(o) /\ spent' = spent
      /\ TransitionRecord(o, r, s, target, count) \/ AlreadyThere(o, s, target)
  BY <1>1, <1>2 DEF OperatorOK, Commit, At
<1>4. o \in Txns /\ o \notin Workers
  BY NotWorker
<1>5. CASE AlreadyThere(o, s, target)
  <2>1. TxnCommit(o, {}) /\ UNCHANGED <<settlement, funds, journal, spent>>
    BY <1>3, <1>5 DEF AlreadyThere
  <2>2. TxnTypeOK' /\ o \notin open' /\ \A v \in Txns \ {o} : Missing(v, {})
    <3>1. {} \in SUBSET Docs /\ TxnTypeOK
      BY <1>1 DEF SettlementTypeOK
    <3> QED BY <1>4, <2>1, <3>1, CommitFacts
  <2> QED BY <1>3, <2>1, <2>2, QuietStop
<1>6. CASE TransitionRecord(o, r, s, target, count)
  <2>1. target \in Targets /\ count \in Nat
    BY <1>2, <1>3 DEF Targets, TxnSound, Snapshot, SettlementDoc
  <2>2. PICK W : W = Written(r, s, target)
    OBVIOUS
  <2>3. TransitionDone(o, r, s, target, count)
    BY <1>1, <1>3, <1>4, <1>6, <2>1, TransitionFacts
  <2>4. /\ settlement' \in [Records -> SettlementDoc \cup {Absent}]
        /\ funds' \in [Users -> FundsDoc]
        /\ journal' \in [Records -> JournalDoc \cup {Absent}]
        /\ TxnTypeOK' /\ o \notin open'
        /\ \A v \in Txns \ {o} : Missing(v, W)
        /\ Changes(W) /\ s.record = settlement[r] /\ r \in Records
    BY <2>2, <2>3 DEF TransitionDone
  <2>5. /\ OperatorOK(o)' /\ operator' \in [Operators -> OperatorState]
        /\ \A p \in Operators \ {o} : operator'[p] = operator[p]
    BY <1>1, <1>3, <2>4, Stopped
  <2>6. SettlementTypeOK'
    BY <1>1, <1>3, <2>4, <2>5 DEF SettlementTypeOK
  <2>7. Grows
    BY <1>1, StillWorkers
  <2>8. RecordsOK'
    <3>1. PICK h : h = HashOf[s.record.ref]
      OBVIOUS
    <3>2. Done(h)' = Done(h)
      BY DEF indexVars, Done, Waiting, Confirming
    <3>3. count <= Cardinality(Done(h)')
      <4>1. settlement[r] # Absent /\ RecordOK(r)
        BY <1>1, <1>3, <2>4 DEF TxnSound, RecordsOK
      <4>2. count <= Cardinality(Done(h))
        BY <1>2, <2>4, <3>1, <4>1 DEF RecordOK
      <4> QED BY <3>2, <4>2
    <3>4. indexed' \in SUBSET Operations
      BY <1>1 DEF indexVars
    <3> QED BY <1>1, <1>3, <1>4, <1>6, <2>1, <2>7, <3>1, <3>3, <3>4, TransitionRecords
  <2>9. WalletAgrees'
    BY <1>1, <1>3, <1>4, <1>6, <2>1, <2>6, TransitionWallet
  <2>10. OperatorFrame(o, W)
    BY <2>4, <2>5, <2>6 DEF OperatorFrame
  <2> QED BY <1>4, <2>5, <2>8, <2>9, <2>10, OperatorStep
<1> QED BY <1>3, <1>5, <1>6

LEMMA GivenUpStep ==
    ASSUME IInv, NEW o \in Operators, Refuse(o) \/ Fail(o), UNCHANGED <<indexVars, worker, faults>>
    PROVE  IInv'
<1>1. TxnAbort(o) /\ Stop(o) /\ UNCHANGED <<settlement, funds, journal, spent>>
  BY DEF Refuse, Fail, InvalidTransition
<1>2. TxnTypeOK' /\ o \notin open' /\ \A v \in Txns \ {o} : Missing(v, {})
  <2>1. TxnTypeOK
    BY DEF IInv, TypeOK, SettlementTypeOK
  <2> QED BY <1>1, <2>1, NotWorker, AbortFacts
<1> QED BY <1>1, <1>2, QuietStop

LEMMA SweepStep ==
    ASSUME IInv, NEW o \in Operators, Sweep(o), UNCHANGED <<indexVars, worker, faults>>
    PROVE  IInv'
<1>1. /\ TypeOK /\ SettlementTypeOK /\ indexed \in SUBSET Operations /\ OperatorOK(o)
      /\ RecordsOK /\ WalletAgrees
  BY DEF IInv, TypeOK
<1>2. UNCHANGED <<settlement, funds, journal, spent, open, missed>>
  BY DEF Sweep
<1>3. PICK todo : todo = {r \in Records : settlement[r] # Absent /\ settlement[r].state \in Pending}
  OBVIOUS
<1>4. PICK k : k = [operator[o] EXCEPT !.pc = "sweep", !.todo = todo]
  OBVIOUS
<1>5. operator[o] \in OperatorState
  BY <1>1 DEF SettlementTypeOK
<1>6. k \in OperatorState /\ k.pc = "sweep" /\ k.todo = todo
  <2>1. todo \in SUBSET Records
    BY <1>3
  <2> QED BY <1>4, <1>5, <2>1 DEF OperatorState
<1>7. operator' = [operator EXCEPT ![o] = k]
  BY <1>3, <1>4 DEF Sweep
<1>8. operator[o].pc = "idle" /\ o \notin open
  BY <1>1 DEF Sweep, At, OperatorOK
<1>9. SettlementTypeOK'
  BY <1>1, <1>2, <1>6, <1>7 DEF SettlementTypeOK, TxnTypeOK
<1>10. RecordsOK' /\ WalletAgrees' /\ Changes({})
  BY <1>1, <1>2, StillWorkers, QuietRecords DEF indexVars
<1>11. operator'[o] = k
  BY <1>1, <1>7 DEF SettlementTypeOK
<1>12. OperatorOK(o)'
  BY <1>2, <1>3, <1>6, <1>8, <1>11 DEF OperatorOK
<1>13. OperatorFrame(o, {})
  BY <1>1, <1>2, <1>7, <1>9, <1>10 DEF OperatorFrame, Missing, SettlementTypeOK
<1> QED BY <1>10, <1>12, <1>13, NotWorker, OperatorStep

\* A record that is marked as stuck is worth what it was.
LEMMA StuckRecord ==
    ASSUME TypeOK, RecordsOK, WalletAgrees, SettlementTypeOK', NEW r \in Records,
           settlement[r] # Absent, settlement' = [settlement EXCEPT ![r].stuck = TRUE],
           UNCHANGED <<funds, journal, spent>>, Grows, indexed' \in SUBSET Operations
    PROVE  RecordsOK' /\ WalletAgrees' /\ Changes({<<"settlement", r>>})
<1>1. SettlementTypeOK /\ settlement[r] \in SettlementDoc /\ Absent \notin SettlementDoc
  BY SettlementAssumption DEF TypeOK, SettlementTypeOK
<1>2. PICK doc : doc = [settlement[r] EXCEPT !.stuck = TRUE]
  OBVIOUS
<1>3. /\ doc \in SettlementDoc /\ doc # Absent
      /\ doc.ref = settlement[r].ref /\ doc.state = settlement[r].state
      /\ doc.count = settlement[r].count
  <2>1. doc \in SettlementDoc
    BY <1>1, <1>2 DEF SettlementDoc
  <2> QED BY <1>1, <1>2, <2>1 DEF SettlementDoc
<1>4. settlement' = [settlement EXCEPT ![r] = doc]
  BY <1>2
<1>5. settlement'[r] = doc /\ \A q \in Records : q # r => settlement'[q] = settlement[q]
  BY <1>1, <1>4 DEF SettlementTypeOK
<1>6. ASSUME NEW q \in Records PROVE RecordOK(q)'
  <2>1. RecordOK(q) /\ journal'[q] = journal[q]
    BY DEF RecordsOK
  <2>2. settlement'[q] = settlement[q] \/
              /\ settlement'[q] # Absent /\ settlement[q] # Absent
              /\ settlement'[q].ref = settlement[q].ref /\ settlement'[q].state = settlement[q].state
              /\ settlement'[q].count = settlement[q].count
    BY <1>3, <1>5
  <2> QED BY <2>1, <2>2, RecordStays
<1>7. WalletAgrees'
  <2> DEFINE S == {"confirmed", "reversed"}
  <2> SUFFICES ASSUME NEW u \in Users
               PROVE  funds'[u].available + spent'[u] + TakenFrom(u)' = Worth(u, S)'
    BY DEF WalletAgrees
  <2>1. funds[u].available + spent[u] + TakenFrom(u) = Worth(u, S)
    BY DEF WalletAgrees
  <2>2. \A q \in Records \ {r} : settlement'[q] = settlement[q] /\ journal'[q] = journal[q]
    BY <1>5
  <2>3. Worth(u, S)' = Worth(u, S)
    <3>1. Worth(u, S)' = Worth(u, S) - Value(settlement[r], u, S) + Value(settlement'[r], u, S)
      BY <1>1, <2>2, WorthChanges
    <3>2. Value(settlement'[r], u, S) = Value(settlement[r], u, S)
      <4> PICK old : old = settlement[r]
        OBVIOUS
      <4>1. old # Absent /\ doc # Absent /\ doc.ref = old.ref /\ doc.state = old.state
        BY <1>3
      <4>2. Counts(doc, u, S) <=> Counts(old, u, S)
        BY <4>1 DEF Counts
      <4>3. Value(doc, u, S) = Value(old, u, S)
        BY <4>1, <4>2 DEF Value
      <4> QED BY <1>5, <4>3
    <3>3. Worth(u, S) \in Nat /\ Value(settlement[r], u, S) \in Nat
      BY <1>1, <2>2, WorthType, WorthChanges DEF SettlementTypeOK
    <3> QED BY <3>1, <3>2, <3>3
  <2>4. TakenFrom(u)' = TakenFrom(u)
    <3>1. TakenFrom(u)' = TakenFrom(u) - Loss(journal[r], settlement[r], u)
                                       + Loss(journal'[r], settlement'[r], u)
      BY <1>1, <2>2, TakenChanges
    <3>2. Loss(journal'[r], settlement'[r], u) = Loss(journal[r], settlement[r], u)
      BY <1>3, <1>5 DEF Loss
    <3>3. TakenFrom(u) \in Nat /\ Loss(journal[r], settlement[r], u) \in Nat
      BY <1>1, <2>2, TakenType, TakenChanges
    <3> QED BY <3>1, <3>2, <3>3
  <2> QED BY <2>1, <2>3, <2>4
<1>8. Changes({<<"settlement", r>>})
  BY <1>3, <1>5 DEF Changes
<1> QED BY <1>6, <1>7, <1>8 DEF RecordsOK

LEMMA SweepNextStep ==
    ASSUME IInv, NEW o \in Operators, SweepNext(o), UNCHANGED <<indexVars, worker, faults>>
    PROVE  IInv'
<1>1. /\ TypeOK /\ SettlementTypeOK /\ indexed \in SUBSET Operations /\ OperatorOK(o)
      /\ RecordsOK /\ WalletAgrees /\ operator[o] \in OperatorState
  BY DEF IInv, TypeOK, SettlementTypeOK
<1>2. PICK r, rest, p :
         /\ r \in operator[o].todo /\ rest = operator[o].todo \ {r}
         /\ p = [Idle EXCEPT !.pc = IF rest = {} THEN "idle" ELSE "sweep", !.todo = rest]
         /\ \/ /\ operator' = [operator EXCEPT ![o] = p]
               /\ UNCHANGED <<settlement, open, missed>>
            \/ /\ settlement[r].ref \notin AutoExpire
               /\ settlement' = [settlement EXCEPT ![r].stuck = TRUE]
               /\ PlainWrite({<<"settlement", r>>})
               /\ operator' = [operator EXCEPT ![o] = p]
            \/ /\ settlement[r].ref \in AutoExpire
               /\ TxnBegin(o)
               /\ operator' = [operator EXCEPT ![o] = [p EXCEPT
                                 !.pc = "txn", !.rec = r, !.target = "expired",
                                 !.snap = SnapshotOf(r)]]
               /\ UNCHANGED settlement
         /\ UNCHANGED <<funds, journal, spent>>
  BY DEF SweepNext
<1>3. /\ r \in Records /\ settlement[r] # Absent /\ rest \in SUBSET Records
      /\ \A q \in rest : settlement[q] # Absent
      /\ o \notin open
  BY <1>1, <1>2 DEF OperatorOK, OperatorState, SweepNext, At
<1>4. p \in OperatorState /\ p.pc \in {"idle", "sweep"} /\ p.todo = rest
  <2>1. PICK q : q = [Idle EXCEPT !.todo = rest]
    OBVIOUS
  <2>2. q \in OperatorState /\ q.todo = rest
    BY <1>3, <2>1, IdleType DEF OperatorState
  <2>3. p = [q EXCEPT !.pc = IF rest = {} THEN "idle" ELSE "sweep"]
    BY <1>2, <2>1 DEF Idle
  <2> QED BY <2>2, <2>3 DEF OperatorState
<1>5. Grows /\ indexed' \in SUBSET Operations
  BY <1>1, StillWorkers DEF indexVars
<1>6. CASE operator' = [operator EXCEPT ![o] = p] /\ UNCHANGED <<settlement, open, missed>>
  <2>1. SettlementTypeOK'
    BY <1>1, <1>2, <1>4, <1>6 DEF SettlementTypeOK, TxnTypeOK
  <2>2. RecordsOK' /\ WalletAgrees' /\ Changes({})
    BY <1>1, <1>2, <1>5, <1>6, QuietRecords
  <2>3. operator'[o] = p
    BY <1>1, <1>6 DEF SettlementTypeOK
  <2>4. OperatorOK(o)'
    BY <1>3, <1>4, <1>6, <2>3 DEF OperatorOK
  <2>5. OperatorFrame(o, {})
    BY <1>1, <1>6, <2>1, <2>2 DEF OperatorFrame, Missing, SettlementTypeOK
  <2> QED BY <2>2, <2>4, <2>5, NotWorker, OperatorStep
<1>7. CASE /\ settlement' = [settlement EXCEPT ![r].stuck = TRUE]
           /\ PlainWrite({<<"settlement", r>>})
           /\ operator' = [operator EXCEPT ![o] = p]
  <2>1. /\ TxnTypeOK' /\ open' = open /\ \A v \in Txns : Missing(v, {<<"settlement", r>>})
    <3>1. {<<"settlement", r>>} \in SUBSET Docs
      BY <1>3 DEF Docs
    <3> QED BY <1>1, <1>7, <3>1, WriteFacts DEF SettlementTypeOK
  <2>2. settlement' \in [Records -> SettlementDoc \cup {Absent}]
    <3>1. settlement[r] \in SettlementDoc
      BY <1>1, <1>3 DEF SettlementTypeOK
    <3>2. [settlement[r] EXCEPT !.stuck = TRUE] \in SettlementDoc
      BY <3>1 DEF SettlementDoc
    <3> QED BY <1>1, <1>3, <1>7, <3>2 DEF SettlementTypeOK
  <2>3. SettlementTypeOK'
    BY <1>1, <1>2, <1>4, <1>7, <2>1, <2>2 DEF SettlementTypeOK
  <2>4. RecordsOK' /\ WalletAgrees' /\ Changes({<<"settlement", r>>})
    BY <1>1, <1>2, <1>3, <1>5, <1>7, <2>3, StuckRecord
  <2>5. operator'[o] = p
    BY <1>1, <1>7 DEF SettlementTypeOK
  <2>6. OperatorOK(o)'
    <3>1. \A q \in rest : settlement'[q] # Absent
      BY <1>3, <2>4 DEF Changes
    <3> QED BY <1>3, <1>4, <2>1, <2>5, <3>1 DEF OperatorOK
  <2>7. OperatorFrame(o, {<<"settlement", r>>})
    BY <1>1, <1>7, <2>1, <2>3, <2>4 DEF OperatorFrame, SettlementTypeOK
  <2> QED BY <2>4, <2>6, <2>7, NotWorker, OperatorStep
<1>8. CASE /\ TxnBegin(o) /\ UNCHANGED settlement
           /\ operator' = [operator EXCEPT ![o] = [p EXCEPT
                             !.pc = "txn", !.rec = r, !.target = "expired",
                             !.snap = SnapshotOf(r)]]
  <2>1. PICK s : s = SnapshotOf(r)
    OBVIOUS
  <2>2. /\ s \in Snapshot /\ s.record = settlement[r]
        /\ s.funds = funds[UserOf[s.record.ref]]
    BY <1>1, <1>3, <2>1, SnapshotType
  <2>3. PICK k : k = [p EXCEPT !.pc = "txn", !.rec = r, !.target = "expired", !.snap = s]
    OBVIOUS
  <2>4. /\ k \in OperatorState /\ k.pc = "txn" /\ k.rec = r /\ k.target = "expired"
        /\ k.snap = s /\ k.todo = rest
    BY <1>3, <1>4, <2>2, <2>3 DEF OperatorState, State
  <2>5. operator' = [operator EXCEPT ![o] = k]
    BY <1>8, <2>1, <2>3
  <2>6. o \in open' /\ TxnTypeOK' /\ \A v \in Txns \ {o} : Missing(v, {})
    BY <1>1, <1>8, NotWorker, BeginFacts DEF SettlementTypeOK
  <2>7. SettlementTypeOK'
    BY <1>1, <1>2, <1>8, <2>4, <2>5, <2>6 DEF SettlementTypeOK
  <2>8. RecordsOK' /\ WalletAgrees' /\ Changes({})
    BY <1>1, <1>2, <1>5, <1>8, QuietRecords
  <2>9. operator'[o] = k
    BY <1>1, <2>5 DEF SettlementTypeOK
  <2>10. OperatorOK(o)'
    <3>1. TxnSound(o, r, s)'
      BY <1>2, <1>3, <1>8, <2>2 DEF TxnSound
    <3> QED BY <1>3, <1>8, <2>4, <2>6, <2>9, <3>1 DEF OperatorOK, OperatorTargets
  <2>11. OperatorFrame(o, {})
    BY <1>1, <2>5, <2>6, <2>7, <2>8 DEF OperatorFrame, SettlementTypeOK
  <2> QED BY <2>8, <2>10, <2>11, NotWorker, OperatorStep
<1> QED BY <1>2, <1>6, <1>7, <1>8

LEMMA SpendStep ==
    ASSUME IInv, NEW u \in Users, Spend(u), UNCHANGED <<indexVars, worker, faults>>
    PROVE  IInv'
<1>1. /\ TypeOK /\ SettlementTypeOK /\ indexed \in SUBSET Operations
      /\ RecordsOK /\ WalletAgrees /\ funds[u] \in FundsDoc /\ spent[u] \in Nat
  BY DEF IInv, TypeOK, SettlementTypeOK
<1>2. /\ funds[u].available > 0 /\ funds' = [funds EXCEPT ![u].available = @ - 1]
      /\ spent' = [spent EXCEPT ![u] = @ + 1]
      /\ PlainWrite({<<"user", u>>}) /\ UNCHANGED <<settlement, journal, operator>>
  BY DEF Spend
<1>3. PICK f : f = [funds[u] EXCEPT !.available = funds[u].available - 1]
  OBVIOUS
<1>4. f \in FundsDoc /\ f.available = funds[u].available - 1
  <2>1. funds[u].available - 1 \in Nat
    BY <1>1, <1>2 DEF FundsDoc
  <2> QED BY <1>1, <1>3, <2>1 DEF FundsDoc
<1>5. funds' = [funds EXCEPT ![u] = f]
  BY <1>2, <1>3
<1>6. TxnTypeOK' /\ \A v \in Txns : Missing(v, {<<"user", u>>})
  <2>1. {<<"user", u>>} \in SUBSET Docs
    BY DEF Docs
  <2> QED BY <1>1, <1>2, <2>1, WriteFacts DEF SettlementTypeOK
<1>7. SettlementTypeOK'
  BY <1>1, <1>2, <1>4, <1>5, <1>6 DEF SettlementTypeOK
<1>8. Grows /\ indexed' \in SUBSET Operations
  BY <1>1, StillWorkers DEF indexVars
<1>9. RecordsOK'
  <2>1. ASSUME NEW q \in Records PROVE RecordOK(q)'
    <3>1. RecordOK(q)
      BY <1>1 DEF RecordsOK
    <3> QED BY <1>1, <1>2, <1>8, <3>1, RecordStays
  <2> QED BY <2>1 DEF RecordsOK
<1>10. WalletAgrees'
  <2> DEFINE S == {"confirmed", "reversed"}
  <2> SUFFICES ASSUME NEW v \in Users
               PROVE  funds'[v].available + spent'[v] + TakenFrom(v)' = Worth(v, S)'
    BY DEF WalletAgrees
  <2>1. funds[v].available + spent[v] + TakenFrom(v) = Worth(v, S)
    BY <1>1 DEF WalletAgrees
  <2>2. Worth(v, S)' = Worth(v, S) /\ TakenFrom(v)' = TakenFrom(v)
    BY <1>2 DEF Worth, TakenFrom, Counts
  <2>3. funds[v].available \in Int /\ spent[v] \in Int /\ TakenFrom(v) \in Int
    <3>1. TakenFrom(v) \in Nat
      BY <1>1, TakenType
    <3> QED BY <1>1, <3>1 DEF SettlementTypeOK, FundsDoc
  <2>4. funds'[v].available + spent'[v] = funds[v].available + spent[v]
    <3>1. CASE v = u
      BY <1>1, <1>2, <1>4, <1>5, <2>3, <3>1 DEF SettlementTypeOK
    <3>2. CASE v # u
      BY <1>1, <1>2, <1>5, <3>2 DEF SettlementTypeOK
    <3> QED BY <3>1, <3>2
  <2> QED BY <2>1, <2>2, <2>4
<1>11. Changes({<<"user", u>>})
  BY <1>1, <1>2, <1>5 DEF Changes, SettlementTypeOK
<1>12. PICK o : o \notin Operators \cup Workers
  <2>1. \E x : x \notin Operators \cup Workers
    BY NoSetContainsEverything
  <2> QED BY <2>1
<1>13. OperatorFrame(o, {<<"user", u>>})
  BY <1>2, <1>6, <1>7, <1>11 DEF OperatorFrame
<1> QED BY <1>9, <1>10, <1>12, <1>13, OperatorStep

-----------------------------------------------------------------------------
\* A step of one worker.
WorkerFrame(w, W) ==
    /\ TypeOK' /\ operator' = operator
    /\ \A v \in Workers \ {w} : worker'[v] = worker[v]
    /\ \A v \in Txns \ {w} : Missing(v, W)
    /\ Changes(W)

LEMMA WorkerStep ==
    ASSUME IInv, NEW w \in Workers, NEW W, WorkerFrame(w, W), Grows, WorkerOK(w)', Distinct',
           RecordsOK', WalletAgrees', \A v \in Workers : LeaseOK(v)', KeysDiffer => CoverOK'
    PROVE  IInv'
<1>1. TypeOK /\ TypeOK'
  BY DEF IInv, WorkerFrame
<1>2. ASSUME NEW o \in Operators PROVE OperatorOK(o)'
  <2>1. o \in Txns \ {w}
    BY NotWorker
  <2>2. operator'[o] = operator[o] /\ Missing(o, W) /\ Changes(W) /\ OperatorOK(o)
    BY <2>1 DEF WorkerFrame, IInv
  <2> QED BY <1>1, <2>2, OperatorStays
<1>3. ASSUME NEW v \in Workers PROVE WorkerOK(v)'
  <2>1. CASE v = w
    BY <2>1
  <2>2. CASE v # w
    <3>1. worker'[v] = worker[v] /\ Missing(v, W) /\ Changes(W) /\ WorkerOK(v)
      BY <2>2 DEF WorkerFrame, IInv, Txns
    <3> QED BY <1>1, <3>1, WorkerStays
  <2> QED BY <2>1, <2>2
<1> QED BY <1>1, <1>2, <1>3 DEF IInv, KeysDiffer, RawKey

\* A worker that does not move the cursor, and marks as projected only what was
\* indexed.
LEMMA PlainStep ==
    ASSUME IInv, NEW w \in Workers, NEW W, WorkerFrame(w, W), WorkerOK(w)', RecordsOK',
           WalletAgrees', UNCHANGED <<cursor, lease, indexed>>,
           Confirming(w)' => Confirming(w) /\ worker'[w].at = worker[w].at,
           \/ worker'[w].pc = "idle" /\ worker'[w].from = 0
           \/ /\ worker'[w].from = worker[w].from /\ worker[w].pc \notin {"idle", "load"}
              /\ worker'[w].pc # "save",
           KeysDiffer => \A n \in Operations : raw'[RawKey(n)] = "projected" =>
                            raw[RawKey(n)] = "projected" \/ n \in indexed
    PROVE  IInv'
<1>1. \A v \in Workers \ {w} : worker'[v] = worker[v]
  BY DEF WorkerFrame
<1>2. \A v \in Workers : Confirming(v)' => Confirming(v) /\ worker'[v].at = worker[v].at
  BY <1>1 DEF Confirming
<1>3. Grows
  BY <1>2, StillGrows DEF IInv, TypeOK
<1>4. Distinct'
  <2> SUFFICES ASSUME NEW u \in Workers, NEW v \in Workers, u # v, Confirming(u)', Confirming(v)'
               PROVE  worker'[u].at # worker'[v].at
    BY DEF Distinct
  <2>1. /\ Confirming(u) /\ worker'[u].at = worker[u].at
        /\ Confirming(v) /\ worker'[v].at = worker[v].at
    BY <1>2
  <2> QED BY <2>1 DEF IInv, Distinct
<1>5. ASSUME NEW v \in Workers PROVE LeaseOK(v)'
  <2>1. LeaseOK(v)
    BY DEF IInv
  <2>2. CASE v # w
    BY <1>1, <2>1, <2>2 DEF LeaseOK
  <2>3. CASE v = w
    BY <2>1, <2>3 DEF LeaseOK
  <2> QED BY <2>2, <2>3
<1>6. ASSUME KeysDiffer PROVE CoverOK'
  <2>1. CoverOK
    BY <1>6 DEF IInv
  <2>2. 1..cursor' \subseteq indexed'
    BY <2>1 DEF CoverOK
  <2>3. \A n \in Operations : raw'[RawKey(n)] = "projected" => n \in indexed'
    BY <1>6, <2>1 DEF CoverOK
  <2>4. ASSUME NEW v \in Workers
        PROVE  /\ 1..worker'[v].from \subseteq indexed'
               /\ worker'[v].pc = "save" => 1..worker'[v].to \subseteq indexed'
    <3>1. /\ 1..worker[v].from \subseteq indexed
          /\ worker[v].pc = "save" => 1..worker[v].to \subseteq indexed
      BY <2>1 DEF CoverOK
    <3>2. CASE v # w
      BY <1>1, <3>1, <3>2
    <3>3. CASE v = w /\ worker'[w].pc = "idle" /\ worker'[w].from = 0
      <4>1. 1..worker'[v].from = {}
        BY <3>3
      <4> QED BY <3>3, <4>1
    <3>4. CASE v = w /\ worker'[w].from = worker[w].from /\ worker'[w].pc # "save"
      BY <3>1, <3>4
    <3> QED BY <3>2, <3>3, <3>4
  <2> QED BY <2>2, <2>3, <2>4 DEF CoverOK, RawKey
<1> QED BY <1>3, <1>4, <1>5, <1>6, WorkerStep

-----------------------------------------------------------------------------
\* Where a worker goes.
LEMMA GotoFacts ==
    ASSUME TypeOK, NEW w \in Workers,
           NEW pc \in {"load", "raw", "event", "match", "mark", "quarantine"}, GotoStep(w, pc)
    PROVE  /\ worker' \in [Workers -> WorkerState] /\ worker'[w].pc = pc
           /\ worker'[w].from = worker[w].from /\ worker'[w].at = worker[w].at
           /\ \A v \in Workers \ {w} : worker'[v] = worker[v]
<1>1. worker[w] \in WorkerState /\ worker \in [Workers -> WorkerState]
  BY DEF TypeOK
<1>2. PICK k : k = [worker[w] EXCEPT !.pc = pc]
  OBVIOUS
<1>3. k \in WorkerState /\ k.pc = pc /\ k.from = worker[w].from /\ k.at = worker[w].at
  BY <1>1, <1>2 DEF WorkerState
<1>4. worker' = [worker EXCEPT ![w] = k]
  BY <1>2 DEF GotoStep
<1> QED BY <1>1, <1>3, <1>4

LEMMA EndFacts ==
    ASSUME TypeOK, NEW w \in Workers, EndSync(w)
    PROVE  /\ worker' \in [Workers -> WorkerState] /\ worker'[w].pc = "idle"
           /\ worker'[w].from = 0
           /\ \A v \in Workers \ {w} : worker'[v] = worker[v]
  BY IdleType DEF TypeOK, EndSync

LEMMA NextFacts ==
    ASSUME TypeOK, NEW w \in Workers, NextOperation(w), worker[w].from < worker[w].at,
           worker[w].at <= PageEnd(w)
    PROVE  /\ worker' \in [Workers -> WorkerState] /\ worker'[w].pc \in {"raw", "contiguous"}
           /\ worker'[w].from = worker[w].from /\ worker'[w].from < worker'[w].at
           /\ worker'[w].pc = "raw" => worker'[w].at <= PageEnd(w)
           /\ \A v \in Workers \ {w} : worker'[v] = worker[v]
<1>1. worker[w] \in WorkerState /\ worker \in [Workers -> WorkerState]
  BY DEF TypeOK
<1>2. PICK from, n : from = worker[w].from /\ n = worker[w].at + 1
  OBVIOUS
<1>3. PICK k : k = [IdleWorker EXCEPT !.pc = IF n <= PageEnd(w) THEN "raw" ELSE "contiguous",
                                      !.from = from, !.at = n]
  OBVIOUS
<1>4. from \in 0..Last /\ n \in 0..Last+1 /\ from < n
  <2>1. worker[w].from \in 0..Last /\ worker[w].at \in 0..Last+1 /\ Last \in Nat /\ Limit \in Nat
    BY <1>1, IndexerAssumption DEF WorkerState
  <2>2. PageEnd(w) <= Last
    BY <2>1 DEF PageEnd, LesserOf
  <2>3. PageEnd(w) \in Int
    BY <2>1 DEF PageEnd, LesserOf
  <2> QED BY <1>2, <2>1, <2>2, <2>3
<1>5. k = [pc |-> IF n <= PageEnd(w) THEN "raw" ELSE "contiguous", from |-> from, at |-> n,
           to |-> 0, rec |-> Absent, count |-> 0, snap |-> Absent]
  BY <1>3 DEF IdleWorker
<1>6. /\ k \in WorkerState /\ k.pc \in {"raw", "contiguous"} /\ k.from = from /\ k.at = n
      /\ k.pc = "raw" => n <= PageEnd(w)
  BY <1>4, <1>5, IndexerAssumption DEF WorkerState
<1>7. worker' = [worker EXCEPT ![w] = k]
  BY <1>2, <1>3 DEF NextOperation
<1> QED BY <1>1, <1>2, <1>4, <1>6, <1>7

\* What has to be seen of a worker that is in no transaction.
LEMMA OutsideOK ==
    ASSUME NEW w \in Workers, w \notin open',
           worker'[w].pc \in {"idle", "load", "raw", "event", "match", "mark", "quarantine", "contiguous"},
           worker'[w].pc \in {"raw", "event", "match", "mark", "quarantine"} =>
              worker'[w].from < worker'[w].at /\ worker'[w].at <= PageEnd(w)',
           worker'[w].pc \in {"match", "mark"} => worker'[w].at \in indexed'
    PROVE  WorkerOK(w)'
  BY DEF WorkerOK, Confirming

LEMMA PageStays ==
    ASSUME NEW w \in Workers, worker'[w].from = worker[w].from
    PROVE  PageEnd(w)' = PageEnd(w)
  BY DEF PageEnd

\* What is known before a step, and where no settlement is touched.
LEMMA Before ==
    ASSUME IInv, NEW w \in Workers
    PROVE  /\ TypeOK /\ SettlementTypeOK /\ TxnTypeOK /\ WorkerOK(w) /\ Distinct /\ RecordsOK
           /\ WalletAgrees /\ LeaseOK(w) /\ (KeysDiffer => CoverOK) /\ w \in Txns
           /\ worker \in [Workers -> WorkerState] /\ worker[w] \in WorkerState
           /\ indexed \in SUBSET Operations
  BY DEF IInv, TypeOK, SettlementTypeOK, Txns

LEMMA QuietWorker ==
    ASSUME IInv, NEW w \in Workers, UNCHANGED <<settlementVars, indexed>>,
           Confirming(w)' => Confirming(w) /\ worker'[w].at = worker[w].at,
           \A v \in Workers \ {w} : worker'[v] = worker[v]
    PROVE  /\ SettlementTypeOK' /\ Grows /\ RecordsOK' /\ WalletAgrees' /\ Changes({})
           /\ \A v \in Txns : Missing(v, {})
           /\ open' = open /\ operator' = operator
<1>1. /\ TypeOK /\ SettlementTypeOK /\ indexed \in SUBSET Operations /\ RecordsOK /\ WalletAgrees
  BY Before
<1>2. UNCHANGED <<settlement, funds, journal, spent, open, missed, operator>> /\ indexed' = indexed
  BY DEF settlementVars
<1>3. SettlementTypeOK'
  BY <1>1, <1>2 DEF SettlementTypeOK, TxnTypeOK
<1>4. \A v \in Workers : Confirming(v)' => Confirming(v) /\ worker'[v].at = worker[v].at
  BY DEF Confirming
<1>5. Grows
  BY <1>1, <1>2, <1>4, StillGrows
<1>6. RecordsOK' /\ WalletAgrees' /\ Changes({})
  BY <1>1, <1>2, <1>5, QuietRecords
<1>7. \A v \in Txns : Missing(v, {})
  BY <1>2 DEF Missing
<1> QED BY <1>2, <1>3, <1>5, <1>6, <1>7

\* A worker in no transaction takes a step that touches no settlement and leaves
\* the cursor.
LEMMA QuietStep ==
    ASSUME IInv, NEW w \in Workers, UNCHANGED <<settlementVars, cursor, lease, indexed>>,
           TypeOK', worker[w].pc \notin {"idle", "load", "txn"},
           Confirming(w)' => Confirming(w) /\ worker'[w].at = worker[w].at,
           \A v \in Workers \ {w} : worker'[v] = worker[v], WorkerOK(w)',
           \/ worker'[w].pc = "idle" /\ worker'[w].from = 0
           \/ worker'[w].from = worker[w].from /\ worker'[w].pc # "save",
           KeysDiffer => \A n \in Operations : raw'[RawKey(n)] = "projected" =>
                            raw[RawKey(n)] = "projected" \/ n \in indexed
    PROVE  IInv'
<1>1. /\ RecordsOK' /\ WalletAgrees' /\ Changes({}) /\ operator' = operator
      /\ \A v \in Txns : Missing(v, {})
  BY QuietWorker
<1>2. WorkerFrame(w, {})
  BY <1>1 DEF WorkerFrame
<1>3. UNCHANGED <<cursor, lease, indexed>>
  OBVIOUS
<1> QED BY <1>1, <1>2, <1>3, PlainStep

LEMMA PersistStep ==
    ASSUME IInv, NEW w \in Workers, PersistRaw(w)
    PROVE  IInv'
<1>1. /\ TypeOK /\ SettlementTypeOK /\ WorkerOK(w) /\ worker[w] \in WorkerState
  BY Before
<1>2. PICK n : n = worker[w].at
  OBVIOUS
<1>3. /\ worker[w].pc = "raw" /\ UNCHANGED <<settlementVars, cursor, lease, indexed, deadLetters, faults>>
      /\ \/ GotoStep(w, "quarantine") /\ raw' = raw
         \/ /\ GotoStep(w, "event")
            /\ raw' = [raw EXCEPT ![RawKey(n)] = IF @ = Absent THEN "received" ELSE @]
  BY <1>2 DEF PersistRaw, WorkerAt
<1>4. /\ worker' \in [Workers -> WorkerState] /\ worker'[w].pc \in {"quarantine", "event"}
      /\ worker'[w].from = worker[w].from /\ worker'[w].at = worker[w].at
      /\ \A v \in Workers \ {w} : worker'[v] = worker[v]
  BY <1>1, <1>3, GotoFacts
<1>5. worker[w].from < worker[w].at /\ worker[w].at <= PageEnd(w) /\ w \notin open
  BY <1>1, <1>3 DEF WorkerOK
<1>6. /\ raw' \in [Hashes -> RawStatus \cup {Absent}]
      /\ \A h \in Hashes : raw'[h] = "projected" => raw[h] = "projected"
  BY <1>1, <1>3 DEF TypeOK, RawStatus
<1>7. ~Confirming(w)' /\ open' = open
  BY <1>3, <1>4 DEF Confirming, settlementVars
<1>8. SettlementTypeOK'
  BY <1>3, <1>4, <1>7, QuietWorker
<1>9. TypeOK'
  BY <1>1, <1>3, <1>4, <1>6, <1>8 DEF TypeOK
<1>10. WorkerOK(w)'
  BY <1>4, <1>5, <1>7, PageStays, OutsideOK
<1>11. \A m \in Operations : RawKey(m) \in Hashes
  BY IndexerAssumption DEF RawKey
<1>12. UNCHANGED <<settlementVars, cursor, lease, indexed>>
  BY <1>3
<1> QED BY <1>3, <1>4, <1>6, <1>7, <1>9, <1>10, <1>11, <1>12, QuietStep

LEMMA MatchStep ==
    ASSUME IInv, NEW w \in Workers, MatchSettlement(w)
    PROVE  IInv'
<1>1. /\ TypeOK /\ SettlementTypeOK /\ WorkerOK(w) /\ worker[w] \in WorkerState /\ RecordsOK
      /\ worker \in [Workers -> WorkerState] /\ indexed \in SUBSET Operations
  BY Before
<1>2. worker[w].pc = "match" /\ UNCHANGED <<settlementVars, indexVars, faults>>
  BY DEF MatchSettlement, WorkerAt
<1>3. /\ worker[w].from < worker[w].at /\ worker[w].at <= PageEnd(w) /\ w \notin open
      /\ worker[w].at \in indexed /\ Confirming(w)
  BY <1>1, <1>2 DEF WorkerOK, Confirming
<1>4. UNCHANGED <<cursor, lease, raw, indexed, deadLetters>> /\ open' = open
  BY <1>2 DEF indexVars, settlementVars
<1>5. UNCHANGED <<settlementVars, cursor, lease, indexed>>
  BY <1>2, <1>4
<1>6. CASE GotoStep(w, "mark")
  <2>1. /\ worker' \in [Workers -> WorkerState] /\ worker'[w].pc = "mark"
        /\ worker'[w].from = worker[w].from /\ worker'[w].at = worker[w].at
        /\ \A v \in Workers \ {w} : worker'[v] = worker[v]
    BY <1>1, <1>6, GotoFacts
  <2>2. ~Confirming(w)'
    BY <2>1 DEF Confirming
  <2>3. SettlementTypeOK'
    BY <1>5, <2>1, <2>2, QuietWorker
  <2>4. TypeOK'
    BY <1>1, <1>2, <1>4, <2>1, <2>3 DEF TypeOK
  <2>5. WorkerOK(w)'
    BY <1>3, <1>4, <2>1, PageStays, OutsideOK
  <2> QED BY <1>2, <1>4, <1>5, <2>1, <2>2, <2>4, <2>5, QuietStep
<1>7. ASSUME NEW r \in Records, settlement[r] # Absent,
             HashOf[settlement[r].ref] = TxOf[worker[w].at],
             worker' = [worker EXCEPT ![w].pc = "begin", ![w].rec = r,
                                      ![w].count = settlement[r].count + 1]
      PROVE  IInv'
  <2>1. PICK c : c = settlement[r].count
    OBVIOUS
  <2>2. PICK h, d : h = HashOf[settlement[r].ref] /\ d = Cardinality(Done(h))
    OBVIOUS
  <2>3. c \in Nat /\ c <= d
    BY <1>1, <1>7, <2>1, <2>2 DEF SettlementTypeOK, SettlementDoc, RecordsOK, RecordOK
  <2>4. PICK k : k = [worker[w] EXCEPT !.pc = "begin", !.rec = r, !.count = c + 1]
    OBVIOUS
  <2>5. /\ k \in WorkerState /\ k.pc = "begin" /\ k.rec = r /\ k.count = c + 1
        /\ k.from = worker[w].from /\ k.at = worker[w].at
    <3>1. c + 1 \in Nat
      BY <2>3
    <3> QED BY <1>1, <2>4, <3>1 DEF WorkerState
  <2>6. worker' = [worker EXCEPT ![w] = k]
    BY <1>7, <2>1, <2>4
  <2>7. /\ worker' \in [Workers -> WorkerState] /\ worker'[w] = k
        /\ \A v \in Workers \ {w} : worker'[v] = worker[v]
    BY <1>1, <2>5, <2>6
  <2>8. Confirming(w) /\ worker'[w].at = worker[w].at
    BY <1>3, <2>5, <2>7
  <2>9. SettlementTypeOK' /\ Grows
    BY <1>5, <2>7, <2>8, QuietWorker
  <2>10. TypeOK'
    BY <1>1, <1>2, <1>4, <2>7, <2>9 DEF TypeOK
  <2>11. WorkerOK(w)'
    <3>1. k.from < k.at /\ k.at <= PageEnd(w)'
      BY <1>3, <2>5, <2>7, PageStays
    <3>2. k.at \in indexed'
      BY <1>3, <1>4, <2>5
    <3>3. settlement'[r] # Absent /\ HashOf[settlement'[r].ref] = TxOf[k.at]
      BY <1>2, <1>7, <2>5 DEF settlementVars
    <3>4. PICK e : e = Cardinality(Done(TxOf[k.at])')
      OBVIOUS
    <3>5. d <= e /\ d \in Nat /\ e \in Nat
      <4>1. d <= e
        BY <1>7, <2>2, <2>5, <2>9, <3>4 DEF Grows
      <4>2. d \in Nat
        BY <1>1, <2>2, DoneFinite
      <4>3. PICK D, I : D = Done(TxOf[k.at])' /\ I = indexed'
        OBVIOUS
      <4>4. D \subseteq I /\ I \in SUBSET Operations
        BY <1>1, <1>4, <4>3 DEF Done
      <4>5. IsFiniteSet(D)
        <5>1. IsFiniteSet(Operations)
          BY IndexerAssumption, FS_Interval DEF Operations
        <5> QED BY <4>4, <5>1, FS_Subset
      <4> QED BY <3>4, <4>1, <4>2, <4>3, <4>5, FS_CardinalityType
    <3>6. k.count <= Cardinality(Done(TxOf[k.at])') + 1
      BY <2>3, <2>5, <3>4, <3>5
    <3>7. TxOf[worker'[w].at] = TxOf[k.at]
      BY <2>7
    <3>8. w \notin open'
      BY <1>3, <1>4
    <3> QED BY <2>5, <2>7, <3>1, <3>2, <3>3, <3>6, <3>7, <3>8 DEF WorkerOK, Confirming
  <2> QED BY <1>2, <1>4, <1>5, <2>5, <2>7, <2>8, <2>10, <2>11, QuietStep
<1> QED BY <1>6, <1>7 DEF MatchSettlement

LEMMA BeginStep ==
    ASSUME IInv, NEW w \in Workers, BeginTransition(w)
    PROVE  IInv'
<1>1. /\ TypeOK /\ SettlementTypeOK /\ TxnTypeOK /\ WorkerOK(w) /\ worker[w] \in WorkerState
      /\ RecordsOK /\ WalletAgrees /\ w \in Txns
      /\ worker \in [Workers -> WorkerState] /\ indexed \in SUBSET Operations
  BY Before
<1>2. PICK r, s : r = worker[w].rec /\ s = SnapshotOf(r)
  OBVIOUS
<1>3. /\ worker[w].pc = "begin" /\ TxnBegin(w)
      /\ UNCHANGED <<settlement, funds, journal, spent, operator, indexVars, faults>>
      /\ worker' = [worker EXCEPT ![w].pc = "txn", ![w].snap = s]
  BY <1>2 DEF BeginTransition, WorkerAt
<1>4. /\ r \in Records /\ settlement[r] # Absent
      /\ HashOf[settlement[r].ref] = TxOf[worker[w].at]
      /\ worker[w].count <= Cardinality(Done(TxOf[worker[w].at])) + 1
      /\ worker[w].from < worker[w].at /\ worker[w].at <= PageEnd(w)
      /\ worker[w].at \in indexed /\ Confirming(w)
  BY <1>1, <1>2, <1>3 DEF WorkerOK, Confirming
<1>5. /\ s \in Snapshot /\ s.record = settlement[r] /\ s.funds = funds[UserOf[s.record.ref]]
  BY <1>1, <1>2, <1>4, SnapshotType
<1>6. PICK k : k = [worker[w] EXCEPT !.pc = "txn", !.snap = s]
  OBVIOUS
<1>7. /\ k \in WorkerState /\ k.pc = "txn" /\ k.rec = r /\ k.snap = s
      /\ k.from = worker[w].from /\ k.at = worker[w].at /\ k.count = worker[w].count
  BY <1>1, <1>2, <1>5, <1>6 DEF WorkerState
<1>8. worker' = [worker EXCEPT ![w] = k]
  BY <1>3, <1>6
<1>9. /\ worker' \in [Workers -> WorkerState] /\ worker'[w] = k
      /\ \A v \in Workers \ {w} : worker'[v] = worker[v]
  BY <1>1, <1>7, <1>8
<1>10. w \in open' /\ TxnTypeOK' /\ \A v \in Txns \ {w} : Missing(v, {})
  BY <1>1, <1>3, BeginFacts
<1>11. UNCHANGED <<cursor, lease, raw, indexed, deadLetters>>
  BY <1>3 DEF indexVars
<1>12. SettlementTypeOK'
  BY <1>1, <1>3, <1>10 DEF SettlementTypeOK
<1>13. TypeOK'
  BY <1>1, <1>3, <1>9, <1>11, <1>12 DEF TypeOK
<1>14. Grows
  <2>1. \A v \in Workers : Confirming(v)' => Confirming(v) /\ worker'[v].at = worker[v].at
    BY <1>4, <1>7, <1>9 DEF Confirming
  <2> QED BY <1>1, <1>11, <2>1, StillGrows
<1>15. RecordsOK' /\ WalletAgrees' /\ Changes({})
  <2>1. indexed' \in SUBSET Operations
    BY <1>1, <1>11
  <2>2. UNCHANGED <<settlement, funds, journal, spent>>
    BY <1>3
  <2> QED BY <1>1, <1>14, <2>1, <2>2, QuietRecords
<1>16. WorkerOK(w)'
  <2>1. k.from < k.at /\ k.at <= PageEnd(w)' /\ k.at \in indexed'
    BY <1>4, <1>7, <1>9, <1>11, PageStays
  <2>2. settlement'[r] # Absent /\ HashOf[settlement'[r].ref] = TxOf[k.at]
    BY <1>3, <1>4, <1>7
  <2>3. PICK h : h = TxOf[k.at]
    OBVIOUS
  <2>4. k.count <= Cardinality(Done(h)') + 1
    <3>1. Waiting' = Waiting
      BY <1>4, <1>7, <1>9 DEF Waiting, Confirming
    <3>2. Done(h)' = Done(h)
      BY <1>11, <3>1 DEF Done
    <3> QED BY <1>4, <1>7, <2>3, <3>2
  <2>5. TxnSound(w, r, s)'
    BY <1>3, <1>4, <1>5 DEF TxnSound
  <2>6. h = TxOf[worker'[w].at]
    BY <1>9, <2>3
  <2> QED BY <1>4, <1>7, <1>9, <1>10, <2>1, <2>2, <2>3, <2>4, <2>5, <2>6 DEF WorkerOK, Confirming
<1>17. WorkerFrame(w, {})
  BY <1>3, <1>9, <1>10, <1>13, <1>15 DEF WorkerFrame
<1>18. UNCHANGED <<cursor, lease, indexed>>
  BY <1>11
<1> QED BY <1>3, <1>4, <1>7, <1>9, <1>11, <1>15, <1>16, <1>17, <1>18, PlainStep

LEMMA TargetFacts ==
    ASSUME NEW w
    PROVE  Target(w) \in Targets
  BY DEF Target, Targets, OperatorTargets

\* A worker leaves its transaction without having changed anything.
LEMMA QuietEnd ==
    ASSUME IInv, NEW w \in Workers, TxnTypeOK', w \notin open', \A v \in Txns \ {w} : Missing(v, {}),
           UNCHANGED <<settlement, funds, journal, spent, operator, indexVars>>,
           faults' \in 0..MaxFaults, worker' \in [Workers -> WorkerState],
           \A v \in Workers \ {w} : worker'[v] = worker[v],
           worker[w].pc \notin {"idle", "load"}, ~Confirming(w)', WorkerOK(w)',
           \/ worker'[w].pc = "idle" /\ worker'[w].from = 0
           \/ worker'[w].from = worker[w].from /\ worker'[w].pc # "save"
    PROVE  IInv'
<1>1. /\ TypeOK /\ SettlementTypeOK /\ RecordsOK /\ WalletAgrees /\ indexed \in SUBSET Operations
  BY Before
<1>2. UNCHANGED <<cursor, lease, raw, indexed, deadLetters>>
  BY DEF indexVars
<1>3. SettlementTypeOK'
  BY <1>1 DEF SettlementTypeOK
<1>4. TypeOK'
  BY <1>1, <1>2, <1>3 DEF TypeOK
<1>5. Grows
  <2>1. \A v \in Workers : Confirming(v)' => Confirming(v) /\ worker'[v].at = worker[v].at
    BY DEF Confirming
  <2> QED BY <1>1, <1>2, <2>1, StillGrows
<1>6. RecordsOK' /\ WalletAgrees' /\ Changes({})
  <2>1. indexed' \in SUBSET Operations
    BY <1>1, <1>2
  <2>2. UNCHANGED <<settlement, funds, journal, spent>>
    OBVIOUS
  <2> QED BY <1>1, <1>5, <2>1, <2>2, QuietRecords
<1>7. WorkerFrame(w, {})
  BY <1>4, <1>6 DEF WorkerFrame
<1>8. UNCHANGED <<cursor, lease, indexed>>
  BY <1>2
<1> QED BY <1>2, <1>6, <1>7, <1>8, PlainStep

LEMMA CommitWorkerStep ==
    ASSUME IInv, NEW w \in Workers, CommitTransition(w)
    PROVE  IInv'
<1>1. /\ TypeOK /\ SettlementTypeOK /\ TxnTypeOK /\ WorkerOK(w) /\ worker[w] \in WorkerState
      /\ RecordsOK /\ WalletAgrees /\ w \in Txns /\ Distinct
      /\ worker \in [Workers -> WorkerState] /\ indexed \in SUBSET Operations
  BY Before
<1>2. PICK r, s, target, count :
         /\ r = worker[w].rec /\ s = worker[w].snap /\ target = Target(w)
         /\ count = worker[w].count
  OBVIOUS
<1>3. /\ worker[w].pc = "txn" /\ GotoStep(w, "mark")
      /\ UNCHANGED <<spent, operator, indexVars, faults>>
      /\ TransitionRecord(w, r, s, target, count) \/ AlreadyThere(w, s, target)
  BY <1>2 DEF CommitTransition, WorkerAt
<1>4. /\ TxnSound(w, r, s) /\ w \in open
      /\ HashOf[settlement[r].ref] = TxOf[worker[w].at]
      /\ count <= Cardinality(Done(TxOf[worker[w].at])) + 1
      /\ worker[w].from < worker[w].at /\ worker[w].at <= PageEnd(w)
      /\ worker[w].at \in indexed /\ Confirming(w)
  BY <1>1, <1>2, <1>3 DEF WorkerOK, Confirming
<1>5. /\ worker' \in [Workers -> WorkerState] /\ worker'[w].pc = "mark"
      /\ worker'[w].from = worker[w].from /\ worker'[w].at = worker[w].at
      /\ \A v \in Workers \ {w} : worker'[v] = worker[v]
  BY <1>1, <1>3, GotoFacts
<1>6. UNCHANGED <<cursor, lease, raw, indexed, deadLetters>>
  BY <1>3 DEF indexVars
<1>7. ~Confirming(w)'
  BY <1>5 DEF Confirming
<1>8. ASSUME w \notin open' PROVE WorkerOK(w)'
  BY <1>4, <1>5, <1>6, <1>8, PageStays, OutsideOK
<1>9. CASE AlreadyThere(w, s, target)
  <2>1. TxnCommit(w, {}) /\ UNCHANGED <<settlement, funds, journal>>
    BY <1>9 DEF AlreadyThere
  <2>2. TxnTypeOK' /\ w \notin open' /\ \A v \in Txns \ {w} : Missing(v, {})
    <3>1. {} \in SUBSET Docs
      OBVIOUS
    <3> QED BY <1>1, <2>1, <3>1, CommitFacts
  <2>3. UNCHANGED <<settlement, funds, journal, spent, operator, indexVars>>
    BY <1>3, <2>1
  <2>4. faults' \in 0..MaxFaults
    BY <1>1, <1>3 DEF TypeOK
  <2> QED BY <1>3, <1>5, <1>7, <1>8, <2>2, <2>3, <2>4, QuietEnd
<1>10. CASE TransitionRecord(w, r, s, target, count)
  <2>1. target \in Targets /\ count \in Nat
    BY <1>1, <1>2, TargetFacts DEF WorkerState
  <2>2. PICK W : W = Written(r, s, target)
    OBVIOUS
  <2>3. TransitionDone(w, r, s, target, count)
    BY <1>1, <1>4, <1>10, <2>1, TransitionFacts
  <2>4. /\ settlement' \in [Records -> SettlementDoc \cup {Absent}]
        /\ funds' \in [Users -> FundsDoc]
        /\ journal' \in [Records -> JournalDoc \cup {Absent}]
        /\ TxnTypeOK' /\ w \notin open'
        /\ \A v \in Txns \ {w} : Missing(v, W)
        /\ Changes(W) /\ s.record = settlement[r] /\ r \in Records
    BY <2>2, <2>3 DEF TransitionDone
  <2>5. SettlementTypeOK'
    BY <1>1, <1>3, <2>4 DEF SettlementTypeOK
  <2>6. TypeOK'
    BY <1>1, <1>3, <1>5, <1>6, <2>5 DEF TypeOK
  <2>7. Grows
    <3>1. \A v \in Workers : Confirming(v)' => Confirming(v) /\ worker'[v].at = worker[v].at
      BY <1>5, <1>7 DEF Confirming
    <3> QED BY <1>1, <1>6, <3>1, StillGrows
  <2>8. RecordsOK'
    <3>1. PICK h : h = HashOf[s.record.ref]
      OBVIOUS
    <3>2. h = TxOf[worker[w].at]
      BY <1>4, <2>4, <3>1
    <3>3. Cardinality(Done(h)) + 1 <= Cardinality(Done(h)')
      BY <1>1, <1>4, <1>5, <1>6, <1>7, <2>7, <3>2, DoneGains
    <3>4. count <= Cardinality(Done(h)')
      <4>1. PICK d, e : d = Cardinality(Done(h)) /\ e = Cardinality(Done(h)')
        OBVIOUS
      <4>2. d \in Nat /\ e \in Nat
        <5>1. d \in Nat
          BY <1>1, <4>1, DoneFinite
        <5>2. PICK D, I : D = Done(h)' /\ I = indexed'
          OBVIOUS
        <5>3. D \subseteq I /\ I \in SUBSET Operations
          BY <1>1, <1>6, <5>2 DEF Done
        <5>4. IsFiniteSet(D)
          <6>1. IsFiniteSet(Operations)
            BY IndexerAssumption, FS_Interval DEF Operations
          <6> QED BY <5>3, <6>1, FS_Subset
        <5> QED BY <4>1, <5>1, <5>2, <5>4, FS_CardinalityType
      <4>3. count <= d + 1 /\ d + 1 <= e
        BY <1>4, <3>2, <3>3, <4>1
      <4>4. count <= e
        BY <2>1, <4>2, <4>3
      <4> QED BY <4>1, <4>4
    <3>5. indexed' \in SUBSET Operations
      BY <1>1, <1>6
    <3> QED BY <1>1, <1>4, <1>10, <2>1, <2>7, <3>1, <3>4, <3>5, TransitionRecords
  <2>9. WalletAgrees'
    <3>1. spent' = spent
      BY <1>3
    <3> QED BY <1>1, <1>4, <1>10, <2>1, <2>5, <3>1, TransitionWallet
  <2>10. WorkerFrame(w, W)
    BY <1>3, <1>5, <2>4, <2>6 DEF WorkerFrame
  <2>11. UNCHANGED <<cursor, lease, indexed>>
    BY <1>6
  <2> QED BY <1>3, <1>5, <1>6, <1>7, <1>8, <2>4, <2>8, <2>9, <2>10, <2>11, PlainStep
<1> QED BY <1>3, <1>9, <1>10

\* A transaction that is given up: the operation is quarantined.
LEMMA GivenUpWorker ==
    ASSUME IInv, NEW w \in Workers, TransitionThrows(w) \/ StepFails(w)
    PROVE  IInv'
<1>1. /\ TypeOK /\ TxnTypeOK /\ WorkerOK(w) /\ w \in Txns
  BY Before
<1>2. /\ worker[w].pc \in {"raw", "event", "match", "begin", "txn"} /\ TxnAbort(w)
      /\ GotoStep(w, "quarantine")
      /\ UNCHANGED <<settlement, funds, journal, spent, operator, indexVars>>
  BY DEF TransitionThrows, StepFails, InvalidTransition, WorkerAt
<1>3. faults' \in 0..MaxFaults
  <2>1. faults \in 0..MaxFaults /\ MaxFaults \in Nat
    BY <1>1, IndexerAssumption DEF TypeOK
  <2>2. faults' = faults \/ (faults < MaxFaults /\ faults' = faults + 1)
    BY DEF TransitionThrows, StepFails
  <2> QED BY <2>1, <2>2
<1>4. worker[w].from < worker[w].at /\ worker[w].at <= PageEnd(w)
  BY <1>1, <1>2 DEF WorkerOK
<1>5. /\ worker' \in [Workers -> WorkerState] /\ worker'[w].pc = "quarantine"
      /\ worker'[w].from = worker[w].from /\ worker'[w].at = worker[w].at
      /\ \A v \in Workers \ {w} : worker'[v] = worker[v]
  BY <1>1, <1>2, GotoFacts
<1>6. TxnTypeOK' /\ w \notin open' /\ \A v \in Txns \ {w} : Missing(v, {})
  BY <1>1, <1>2, AbortFacts
<1>7. ~Confirming(w)' /\ WorkerOK(w)'
  BY <1>4, <1>5, <1>6, PageStays, OutsideOK DEF Confirming
<1> QED BY <1>2, <1>3, <1>5, <1>6, <1>7, QuietEnd

LEMMA AbandonStep ==
    ASSUME IInv, NEW w \in Workers, Abandon(w)
    PROVE  IInv'
<1>1. /\ TypeOK /\ SettlementTypeOK /\ TxnTypeOK /\ WorkerOK(w) /\ w \in Txns /\ RecordsOK
      /\ WalletAgrees /\ indexed \in SUBSET Operations
  BY Before
<1>2. /\ TxnAbort(w) /\ EndSync(w)
      /\ UNCHANGED <<settlement, funds, journal, spent, operator, indexVars>>
  BY DEF Abandon
<1>3. faults' \in 0..MaxFaults
  <2>1. faults \in 0..MaxFaults /\ MaxFaults \in Nat
    BY <1>1, IndexerAssumption DEF TypeOK
  <2>2. faults < MaxFaults /\ faults' = faults + 1
    BY DEF Abandon
  <2> QED BY <2>1, <2>2
<1>4. /\ worker' \in [Workers -> WorkerState] /\ worker'[w].pc = "idle" /\ worker'[w].from = 0
      /\ \A v \in Workers \ {w} : worker'[v] = worker[v]
  BY <1>1, <1>2, EndFacts
<1>5. TxnTypeOK' /\ w \notin open' /\ \A v \in Txns \ {w} : Missing(v, {})
  BY <1>1, <1>2, AbortFacts
<1>6. ~Confirming(w)' /\ WorkerOK(w)'
  BY <1>4, <1>5, OutsideOK DEF Confirming
<1>7. UNCHANGED <<cursor, lease, raw, indexed, deadLetters>>
  BY <1>2 DEF indexVars
<1>8. SettlementTypeOK'
  BY <1>1, <1>2, <1>5 DEF SettlementTypeOK
<1>9. TypeOK'
  BY <1>1, <1>3, <1>4, <1>7, <1>8 DEF TypeOK
<1>10. Grows
  <2>1. \A v \in Workers : Confirming(v)' => Confirming(v) /\ worker'[v].at = worker[v].at
    BY <1>4, <1>6 DEF Confirming
  <2> QED BY <1>1, <1>7, <2>1, StillGrows
<1>11. RecordsOK' /\ WalletAgrees' /\ Changes({})
  <2>1. indexed' \in SUBSET Operations
    BY <1>1, <1>7
  <2>2. UNCHANGED <<settlement, funds, journal, spent>>
    BY <1>2
  <2> QED BY <1>1, <1>10, <2>1, <2>2, QuietRecords
<1>12. WorkerFrame(w, {})
  BY <1>2, <1>4, <1>5, <1>9, <1>11 DEF WorkerFrame
<1>13. UNCHANGED <<cursor, lease, indexed>>
  BY <1>7
<1> QED BY <1>4, <1>6, <1>7, <1>11, <1>12, <1>13, PlainStep

LEMMA ProjectStep ==
    ASSUME IInv, NEW w \in Workers, MarkProjected(w) \/ QuarantineDeadLetter(w)
    PROVE  IInv'
<1>1. /\ TypeOK /\ SettlementTypeOK /\ WorkerOK(w) /\ worker[w] \in WorkerState
  BY Before
<1>2. PICK n, key : n = worker[w].at /\ key = RawKey(n)
  OBVIOUS
<1>3. /\ worker[w].pc \in {"mark", "quarantine"} /\ NextOperation(w)
      /\ UNCHANGED <<settlementVars, cursor, lease, indexed, faults>>
  BY DEF MarkProjected, QuarantineDeadLetter, WorkerAt
<1>4. worker[w].from < worker[w].at /\ worker[w].at <= PageEnd(w) /\ w \notin open
  BY <1>1, <1>3 DEF WorkerOK
<1>5. /\ worker' \in [Workers -> WorkerState] /\ worker'[w].pc \in {"raw", "contiguous"}
      /\ worker'[w].from = worker[w].from /\ worker'[w].from < worker'[w].at
      /\ worker'[w].pc = "raw" => worker'[w].at <= PageEnd(w)
      /\ \A v \in Workers \ {w} : worker'[v] = worker[v]
  BY <1>1, <1>3, <1>4, NextFacts
<1>6. n \in Operations /\ key \in Hashes
  <2>1. worker[w].from \in Nat /\ worker[w].at \in Nat /\ PageEnd(w) <= Last /\ PageEnd(w) \in Int
        /\ Last \in Nat
    BY <1>1, IndexerAssumption DEF WorkerState, PageEnd, LesserOf
  <2>2. n \in Operations
    BY <1>2, <1>4, <2>1 DEF Operations
  <2> QED BY <1>2, <2>2, IndexerAssumption DEF RawKey
<1>7. \/ /\ worker[w].pc = "mark" /\ deadLetters' = deadLetters
         /\ raw' = [raw EXCEPT ![key] = IF @ = Absent THEN @ ELSE "projected"]
      \/ /\ worker[w].pc = "quarantine" /\ deadLetters' = deadLetters \cup {key}
         /\ raw' = [raw EXCEPT ![key] = IF @ = Absent THEN @ ELSE "dead_letter"]
  BY <1>2 DEF MarkProjected, QuarantineDeadLetter, WorkerAt
<1>8. /\ raw' \in [Hashes -> RawStatus \cup {Absent}]
      /\ deadLetters' \in SUBSET Hashes
      /\ \A h \in Hashes : raw'[h] = "projected" =>
            raw[h] = "projected" \/ (h = key /\ worker[w].pc = "mark")
  BY <1>1, <1>6, <1>7 DEF TypeOK, RawStatus
<1>9. worker[w].pc = "mark" => n \in indexed
  BY <1>1, <1>2 DEF WorkerOK
<1>10. ~Confirming(w)' /\ open' = open
  BY <1>3, <1>5 DEF Confirming, settlementVars
<1>11. SettlementTypeOK'
  BY <1>3, <1>5, <1>10, QuietWorker
<1>12. TypeOK'
  BY <1>1, <1>3, <1>5, <1>8, <1>11 DEF TypeOK
<1>13. WorkerOK(w)'
  BY <1>4, <1>5, <1>10, PageStays, OutsideOK
<1>14. KeysDiffer => \A m \in Operations : raw'[RawKey(m)] = "projected" =>
                        raw[RawKey(m)] = "projected" \/ m \in indexed
  <2> SUFFICES ASSUME KeysDiffer, NEW m \in Operations, raw'[RawKey(m)] = "projected",
                      raw[RawKey(m)] # "projected"
               PROVE  m \in indexed
    OBVIOUS
  <2>1. RawKey(m) \in Hashes
    BY IndexerAssumption DEF RawKey
  <2>2. RawKey(m) = RawKey(n) /\ worker[w].pc = "mark"
    BY <1>2, <1>8, <2>1
  <2> QED BY <1>6, <1>9, <2>2 DEF KeysDiffer
<1>15. UNCHANGED <<settlementVars, cursor, lease, indexed>>
  BY <1>3
<1> QED BY <1>3, <1>5, <1>10, <1>12, <1>13, <1>14, <1>15, QuietStep

LEMMA HighestFacts ==
    ASSUME TypeOK, NEW w \in Workers
    PROVE  /\ Highest(w) \in 0..Last /\ worker[w].from <= Highest(w)
           /\ \A m \in worker[w].from + 1 .. Highest(w) : raw[RawKey(m)] = "projected"
<1>1. PICK from, end : from = worker[w].from /\ end = PageEnd(w)
  OBVIOUS
<1>2. /\ from \in Nat /\ from <= Last /\ end \in Nat /\ end <= Last /\ Last \in Nat
  BY <1>1, IndexerAssumption DEF TypeOK, WorkerState, PageEnd, LesserOf
<1>3. PICK S : S = {from} \cup {n \in from + 1 .. end : \A m \in from + 1 .. n : raw[RawKey(m)] = "projected"}
  OBVIOUS
<1>4. Highest(w) = Max(S)
  BY <1>1, <1>3 DEF Highest
<1>5. S \subseteq 0..Last /\ from \in S
  BY <1>2, <1>3
<1>6. \E x \in S : \A y \in S : x >= y
  <2>1. IsFiniteSet(S)
    <3>1. IsFiniteSet(0..Last)
      BY <1>2, FS_Interval
    <3> QED BY <1>5, <3>1, FS_Subset
  <2>2. PICK f : f = [x \in S |-> x]
    OBVIOUS
  <2>3. \A x \in S : f[x] \in Nat /\ f[x] = x
    BY <1>2, <1>5, <2>2
  <2>4. \E x \in S : \A y \in S : f[x] >= f[y]
    BY <1>5, <2>1, <2>3, LargestExists
  <2> QED BY <2>3, <2>4
<1>7. Max(S) \in S /\ \A y \in S : Max(S) >= y
  BY <1>6 DEF Max
<1>8. PICK x : x = Max(S)
  OBVIOUS
<1>9. x \in 0..Last /\ from <= x
  BY <1>2, <1>5, <1>7, <1>8
<1>10. \A m \in from + 1 .. x : raw[RawKey(m)] = "projected"
  <2>1. CASE x = from
    BY <1>2, <2>1
  <2>2. CASE x # from
    BY <1>3, <1>7, <1>8, <2>2
  <2> QED BY <2>1, <2>2
<1> QED BY <1>1, <1>4, <1>8, <1>9, <1>10

LEMMA ContiguousStep ==
    ASSUME IInv, NEW w \in Workers, FindContiguous(w)
    PROVE  IInv'
<1>1. /\ TypeOK /\ SettlementTypeOK /\ WorkerOK(w) /\ worker[w] \in WorkerState /\ LeaseOK(w)
      /\ worker \in [Workers -> WorkerState] /\ (KeysDiffer => CoverOK)
  BY Before
<1>2. worker[w].pc = "contiguous" /\ UNCHANGED <<settlementVars, indexVars, faults>>
  BY DEF FindContiguous, WorkerAt
<1>3. /\ UNCHANGED <<cursor, lease, raw, indexed, deadLetters>> /\ open' = open
      /\ UNCHANGED <<settlementVars, cursor, lease, indexed>>
  BY <1>2 DEF indexVars, settlementVars
<1>4. w \notin open
  BY <1>1, <1>2 DEF WorkerOK
<1>5. CASE EndSync(w)
  <2>1. /\ worker' \in [Workers -> WorkerState] /\ worker'[w].pc = "idle" /\ worker'[w].from = 0
        /\ \A v \in Workers \ {w} : worker'[v] = worker[v]
    BY <1>1, <1>5, EndFacts
  <2>2. ~Confirming(w)' /\ WorkerOK(w)'
    BY <1>3, <1>4, <2>1, OutsideOK DEF Confirming
  <2>3. SettlementTypeOK'
    BY <1>3, <2>1, <2>2, QuietWorker
  <2>4. TypeOK'
    BY <1>1, <1>2, <1>3, <2>1, <2>3 DEF TypeOK
  <2> QED BY <1>2, <1>3, <2>1, <2>2, <2>4, QuietStep
<1>6. CASE worker' = [worker EXCEPT ![w].pc = "save", ![w].to = Highest(w)]
  <2>1. PICK k, to : to = Highest(w) /\ k = [worker[w] EXCEPT !.pc = "save", !.to = to]
    OBVIOUS
  <2>2. /\ to \in 0..Last /\ worker[w].from <= to
        /\ \A m \in worker[w].from + 1 .. to : raw[RawKey(m)] = "projected"
    BY <1>1, <2>1, HighestFacts
  <2>3. k \in WorkerState /\ k.pc = "save" /\ k.to = to /\ k.from = worker[w].from
    BY <1>1, <2>1, <2>2 DEF WorkerState
  <2>4. worker' = [worker EXCEPT ![w] = k]
    BY <1>6, <2>1
  <2>5. /\ worker' \in [Workers -> WorkerState] /\ worker'[w] = k
        /\ \A v \in Workers \ {w} : worker'[v] = worker[v]
    BY <1>1, <2>3, <2>4
  <2>6. ~Confirming(w)'
    BY <2>3, <2>5 DEF Confirming
  <2>7. /\ SettlementTypeOK' /\ Grows /\ RecordsOK' /\ WalletAgrees' /\ Changes({})
        /\ \A v \in Txns : Missing(v, {})
        /\ operator' = operator
    BY <1>3, <2>5, <2>6, QuietWorker
  <2>8. TypeOK'
    BY <1>1, <1>2, <1>3, <2>5, <2>7 DEF TypeOK
  <2>9. WorkerOK(w)'
    BY <1>3, <1>4, <2>2, <2>3, <2>5 DEF WorkerOK, Confirming
  <2>10. Distinct'
    <3>1. \A v \in Workers : Confirming(v)' => Confirming(v) /\ worker'[v].at = worker[v].at
      BY <2>5, <2>6 DEF Confirming
    <3> QED BY <3>1 DEF IInv, Distinct
  <2>11. ASSUME NEW v \in Workers PROVE LeaseOK(v)'
    <3>1. LeaseOK(v)
      BY DEF IInv
    <3>2. CASE v = w
      BY <1>2, <1>3, <2>3, <2>5, <3>1, <3>2 DEF LeaseOK
    <3>3. CASE v # w
      BY <1>3, <2>5, <3>1, <3>3 DEF LeaseOK
    <3> QED BY <3>2, <3>3
  <2>12. ASSUME KeysDiffer PROVE CoverOK'
    <3>1. CoverOK
      BY <1>1, <2>12
    <3>2. \A m \in 1..to : m \in indexed
      <4> SUFFICES ASSUME NEW m \in 1..to PROVE m \in indexed
        OBVIOUS
      <4>1. worker[w].from \in Nat /\ to \in Nat /\ to <= Last /\ Last \in Nat /\ m \in Nat
        BY <1>1, <2>2, IndexerAssumption DEF WorkerState
      <4>2. CASE m <= worker[w].from
        BY <3>1, <4>1, <4>2 DEF CoverOK
      <4>3. CASE ~(m <= worker[w].from)
        <5>1. m \in worker[w].from + 1 .. to /\ m \in Operations
          BY <4>1, <4>3 DEF Operations
        <5> QED BY <2>2, <3>1, <5>1 DEF CoverOK
      <4> QED BY <4>2, <4>3
    <3>3. ASSUME NEW v \in Workers
          PROVE  /\ 1..worker'[v].from \subseteq indexed'
                 /\ worker'[v].pc = "save" => 1..worker'[v].to \subseteq indexed'
      <4>1. /\ 1..worker[v].from \subseteq indexed
            /\ worker[v].pc = "save" => 1..worker[v].to \subseteq indexed
        BY <3>1 DEF CoverOK
      <4>2. CASE v = w
        BY <1>3, <2>3, <2>5, <3>2, <4>1, <4>2
      <4>3. CASE v # w
        BY <1>3, <2>5, <4>1, <4>3
      <4> QED BY <4>2, <4>3
    <3> QED BY <1>3, <3>1, <3>3 DEF CoverOK, RawKey
  <2>13. WorkerFrame(w, {})
    BY <2>5, <2>7, <2>8 DEF WorkerFrame
  <2> QED BY <2>7, <2>9, <2>10, <2>11, <2>12, <2>13, WorkerStep
<1> QED BY <1>5, <1>6 DEF FindContiguous

\* A step that moves the cursor or the lease, or takes the worker to another page,
\* but counts nothing.
LEMMA CursorStep ==
    ASSUME IInv, NEW w \in Workers, UNCHANGED <<settlementVars, raw, indexed, deadLetters>>,
           faults' \in 0..MaxFaults, cursor' \in 0..Last, lease' \in LeaseDoc,
           worker' \in [Workers -> WorkerState], WorkerOK(w)', ~Confirming(w)',
           \A v \in Workers \ {w} : worker'[v] = worker[v],
           \A v \in Workers : LeaseOK(v)',
           KeysDiffer => /\ 1..cursor' \subseteq indexed /\ 1..worker'[w].from \subseteq indexed
                         /\ worker'[w].pc # "save"
    PROVE  IInv'
<1>1. /\ TypeOK /\ (KeysDiffer => CoverOK) /\ Distinct
  BY Before
<1>2. UNCHANGED <<settlementVars, indexed>>
  OBVIOUS
<1>3. /\ SettlementTypeOK' /\ Grows /\ RecordsOK' /\ WalletAgrees' /\ Changes({})
      /\ \A v \in Txns : Missing(v, {})
      /\ operator' = operator
  BY <1>2, QuietWorker
<1>4. TypeOK'
  BY <1>1, <1>3 DEF TypeOK
<1>5. Distinct'
  <2>1. \A v \in Workers : Confirming(v)' => Confirming(v) /\ worker'[v].at = worker[v].at
    BY DEF Confirming
  <2> QED BY <1>1, <2>1 DEF Distinct
<1>6. ASSUME KeysDiffer PROVE CoverOK'
  <2>1. CoverOK
    BY <1>1, <1>6
  <2>2. ASSUME NEW v \in Workers
        PROVE  /\ 1..worker'[v].from \subseteq indexed'
               /\ worker'[v].pc = "save" => 1..worker'[v].to \subseteq indexed'
    <3>1. /\ 1..worker[v].from \subseteq indexed
          /\ worker[v].pc = "save" => 1..worker[v].to \subseteq indexed
      BY <2>1 DEF CoverOK
    <3>2. CASE v = w
      BY <1>6, <3>2
    <3>3. CASE v # w
      BY <3>1, <3>3
    <3> QED BY <3>2, <3>3
  <2>3. 1..cursor' \subseteq indexed'
    BY <1>6
  <2> QED BY <2>1, <2>2, <2>3 DEF CoverOK, RawKey
<1>7. WorkerFrame(w, {})
  BY <1>3, <1>4 DEF WorkerFrame
<1> QED BY <1>3, <1>5, <1>6, <1>7, WorkerStep

LEMMA SaveFacts ==
    ASSUME IInv, NEW w \in Workers, SaveCursor(w)
    PROVE  /\ cursor' \in 0..Last /\ cursor <= cursor'
           /\ KeysDiffer => 1..cursor' \subseteq indexed
           /\ \A v \in Workers : lease.token = v /\ v # w => cursor' = cursor
<1>1. /\ TypeOK /\ WorkerOK(w) /\ worker[w] \in WorkerState /\ LeaseOK(w)
      /\ (KeysDiffer => CoverOK)
  BY Before
<1>2. /\ worker[w].pc = "save" /\ cursor' = IF lease.token = w THEN worker[w].to ELSE cursor
  BY DEF SaveCursor, WorkerAt
<1>3. cursor \in 0..Last /\ worker[w].from <= worker[w].to /\ worker[w].to \in 0..Last
  BY <1>1, <1>2 DEF TypeOK, WorkerOK, WorkerState
<1>4. lease.token = w => worker[w].from = cursor
  BY <1>1, <1>2 DEF LeaseOK
<1>5. cursor' \in 0..Last /\ cursor <= cursor'
  BY <1>2, <1>3, <1>4
<1>6. KeysDiffer => 1..cursor' \subseteq indexed
  BY <1>1, <1>2 DEF CoverOK
<1> QED BY <1>2, <1>5, <1>6

LEMMA SaveStep ==
    ASSUME IInv, NEW w \in Workers, SaveCursor(w)
    PROVE  IInv'
<1>1. /\ TypeOK /\ WorkerOK(w)
  BY Before
<1>2. /\ worker[w].pc = "save" /\ EndSync(w)
      /\ UNCHANGED <<settlementVars, lease, raw, indexed, deadLetters, faults>>
  BY DEF SaveCursor, WorkerAt
<1>3. /\ cursor' \in 0..Last
      /\ KeysDiffer => 1..cursor' \subseteq indexed
      /\ \A v \in Workers : lease.token = v /\ v # w => cursor' = cursor
  BY SaveFacts
<1>4. /\ worker' \in [Workers -> WorkerState] /\ worker'[w].pc = "idle" /\ worker'[w].from = 0
      /\ \A v \in Workers \ {w} : worker'[v] = worker[v]
  BY <1>1, <1>2, EndFacts
<1>5. w \notin open'
  BY <1>1, <1>2 DEF WorkerOK, settlementVars
<1>6. ~Confirming(w)' /\ WorkerOK(w)'
  BY <1>4, <1>5, OutsideOK DEF Confirming
<1>7. ASSUME NEW v \in Workers PROVE LeaseOK(v)'
  <2>1. LeaseOK(v)
    BY DEF IInv
  <2>2. CASE v = w
    BY <1>4, <2>2 DEF LeaseOK
  <2>3. CASE v # w
    BY <1>2, <1>3, <1>4, <2>1, <2>3 DEF LeaseOK
  <2> QED BY <2>2, <2>3
<1>8. 1..worker'[w].from = {} /\ worker'[w].pc # "save"
  BY <1>4
<1>9. lease' \in LeaseDoc
  BY <1>1, <1>2 DEF TypeOK
<1>10. UNCHANGED <<settlementVars, raw, indexed, deadLetters>> /\ faults' \in 0..MaxFaults
  BY <1>1, <1>2 DEF TypeOK
<1> QED BY <1>3, <1>4, <1>6, <1>7, <1>8, <1>9, <1>10, CursorStep

LEMMA AcquireStep ==
    ASSUME IInv, NEW w \in Workers, NEW p \in Processes, AcquireLease(w, p)
    PROVE  IInv'
<1>1. /\ TypeOK /\ WorkerOK(w) /\ (KeysDiffer => CoverOK)
  BY Before
<1>2. /\ worker[w].pc = "idle" /\ GotoStep(w, "load") /\ lease' = [token |-> w, owner |-> p]
      /\ UNCHANGED <<settlementVars, cursor, raw, indexed, deadLetters>>
      /\ faults' = faults \/ (faults < MaxFaults /\ faults' = faults + 1)
  BY DEF AcquireLease, WorkerAt
<1>3. /\ worker' \in [Workers -> WorkerState] /\ worker'[w].pc = "load"
      /\ worker'[w].from = worker[w].from
      /\ \A v \in Workers \ {w} : worker'[v] = worker[v]
  BY <1>1, <1>2, GotoFacts
<1>4. w \notin open'
  BY <1>1, <1>2 DEF WorkerOK, settlementVars
<1>5. ~Confirming(w)' /\ WorkerOK(w)'
  BY <1>3, <1>4, OutsideOK DEF Confirming
<1>6. \A v \in Workers : LeaseOK(v)'
  BY <1>2, <1>3 DEF LeaseOK
<1>7. lease' \in LeaseDoc
  BY <1>2 DEF LeaseDoc
<1>8. cursor' \in 0..Last
  BY <1>1, <1>2 DEF TypeOK
<1>9. KeysDiffer => /\ 1..cursor' \subseteq indexed /\ 1..worker'[w].from \subseteq indexed
                    /\ worker'[w].pc # "save"
  BY <1>1, <1>2, <1>3 DEF CoverOK
<1>10. UNCHANGED <<settlementVars, raw, indexed, deadLetters>> /\ faults' \in 0..MaxFaults
  BY <1>1, <1>2, IndexerAssumption DEF TypeOK
<1> QED BY <1>3, <1>5, <1>6, <1>7, <1>8, <1>9, <1>10, CursorStep

LEMMA LoadStep ==
    ASSUME IInv, NEW w \in Workers, LoadCursor(w)
    PROVE  IInv'
<1>1. /\ TypeOK /\ WorkerOK(w) /\ (KeysDiffer => CoverOK) /\ worker[w] \in WorkerState
      /\ worker \in [Workers -> WorkerState]
  BY Before
<1>2. worker[w].pc = "load" /\ UNCHANGED <<settlementVars, indexVars, faults>>
  BY DEF LoadCursor, WorkerAt
<1>3. /\ UNCHANGED <<settlementVars, raw, indexed, deadLetters, faults>>
      /\ cursor' = cursor /\ lease' = lease /\ open' = open /\ faults' \in 0..MaxFaults
  BY <1>1, <1>2 DEF indexVars, settlementVars, TypeOK
<1>4. w \notin open'
  BY <1>1, <1>2, <1>3 DEF WorkerOK
<1>5. /\ cursor \in 0..Last /\ lease \in LeaseDoc
      /\ Last \in Nat /\ Limit \in Nat \ {0}
  BY <1>1, IndexerAssumption DEF TypeOK
<1>6. /\ worker' \in [Workers -> WorkerState]
      /\ \A v \in Workers \ {w} : worker'[v] = worker[v]
      /\ \/ worker'[w].pc = "idle" /\ worker'[w].from = 0
         \/ /\ worker'[w].pc = "raw" /\ worker'[w].from = cursor
            /\ worker'[w].at = cursor + 1 /\ cursor < Last
  <2>1. CASE cursor = Last
    <3>1. EndSync(w)
      BY <2>1 DEF LoadCursor
    <3> QED BY <1>1, <3>1, EndFacts
  <2>2. CASE cursor # Last
    <3>1. PICK k : k = [worker[w] EXCEPT !.pc = "raw", !.from = cursor, !.at = cursor + 1]
      OBVIOUS
    <3>2. cursor < Last /\ cursor + 1 \in 0..Last+1
      BY <1>5, <2>2
    <3>3. k \in WorkerState /\ k.pc = "raw" /\ k.from = cursor /\ k.at = cursor + 1
      BY <1>1, <1>5, <3>1, <3>2 DEF WorkerState
    <3>4. worker' = [worker EXCEPT ![w] = k]
      BY <2>2, <3>1 DEF LoadCursor
    <3>5. worker' \in [Workers -> WorkerState] /\ worker'[w] = k
          /\ \A v \in Workers \ {w} : worker'[v] = worker[v]
      BY <1>1, <3>3, <3>4
    <3> QED BY <3>2, <3>3, <3>5
  <2> QED BY <2>1, <2>2
<1>7. ~Confirming(w)'
  BY <1>6 DEF Confirming
<1>8. WorkerOK(w)'
  <2>1. worker'[w].pc = "raw" => worker'[w].from < worker'[w].at /\ worker'[w].at <= PageEnd(w)'
    <3> SUFFICES ASSUME worker'[w].pc = "raw"
                 PROVE  worker'[w].from < worker'[w].at /\ worker'[w].at <= PageEnd(w)'
      OBVIOUS
    <3>1. worker'[w].from = cursor /\ worker'[w].at = cursor + 1 /\ cursor < Last
      BY <1>6
    <3>2. PageEnd(w)' = LesserOf(cursor + Limit, Last)
      BY <3>1 DEF PageEnd
    <3> QED BY <1>5, <3>1, <3>2 DEF LesserOf
  <2>2. worker'[w].pc \in {"idle", "raw"}
    BY <1>6
  <2> QED BY <1>4, <2>1, <2>2, OutsideOK
<1>9. ASSUME NEW v \in Workers PROVE LeaseOK(v)'
  <2>1. LeaseOK(v)
    BY DEF IInv
  <2>2. CASE v = w
    BY <1>3, <1>6, <2>2 DEF LeaseOK
  <2>3. CASE v # w
    BY <1>3, <1>6, <2>1, <2>3 DEF LeaseOK
  <2> QED BY <2>2, <2>3
<1>10. KeysDiffer => /\ 1..cursor' \subseteq indexed /\ 1..worker'[w].from \subseteq indexed
                     /\ worker'[w].pc # "save"
  <2>1. 1..0 = {}
    OBVIOUS
  <2> QED BY <1>1, <1>3, <1>6, <2>1 DEF CoverOK
<1> QED BY <1>3, <1>5, <1>6, <1>7, <1>8, <1>9, <1>10, CursorStep

LEMMA ExpireStep ==
    ASSUME IInv, ExpireLease
    PROVE  IInv'
<1>1. PICK w : w = lease.token
  OBVIOUS
<1>2. w \in Workers /\ TypeOK /\ lease \in [token : Workers, owner : Processes \cup {Absent}]
  BY <1>1 DEF ExpireLease, IInv, TypeOK, LeaseDoc, NoLease
<1>3. /\ UNCHANGED <<settlementVars, cursor, raw, indexed, deadLetters, worker>>
      /\ lease' = [lease EXCEPT !.owner = Absent]
  BY DEF ExpireLease
<1>4. /\ lease' \in LeaseDoc
      /\ lease'.token = lease.token
  BY <1>2, <1>3 DEF LeaseDoc
<1>5. faults' \in 0..MaxFaults
  <2>1. faults \in 0..MaxFaults /\ MaxFaults \in Nat
    BY <1>2, IndexerAssumption DEF TypeOK
  <2>2. faults' = faults \/ (faults < MaxFaults /\ faults' = faults + 1)
    BY DEF ExpireLease
  <2> QED BY <2>1, <2>2
<1>6. UNCHANGED <<settlementVars, indexed>> /\ \A v \in Workers \ {w} : worker'[v] = worker[v]
  BY <1>3
<1>7. Confirming(w)' => Confirming(w) /\ worker'[w].at = worker[w].at
  BY <1>3 DEF Confirming
<1>8. /\ SettlementTypeOK' /\ Grows /\ RecordsOK' /\ WalletAgrees' /\ Changes({})
      /\ \A v \in Txns : Missing(v, {})
      /\ operator' = operator
  BY <1>2, <1>6, <1>7, QuietWorker
<1>9. TypeOK'
  BY <1>2, <1>3, <1>4, <1>5, <1>8 DEF TypeOK
<1>10. WorkerFrame(w, {})
  BY <1>6, <1>8, <1>9 DEF WorkerFrame
<1>11. WorkerOK(w)'
  <2>1. WorkerOK(w) /\ Changes({}) /\ Missing(w, {}) /\ worker'[w] = worker[w]
    BY <1>2, <1>3, <1>8 DEF IInv, Txns
  <2> QED BY <1>2, <1>8, <1>9, <2>1, WorkerStays
<1>12. Distinct'
  BY <1>3 DEF IInv, Distinct, Confirming
<1>13. \A v \in Workers : LeaseOK(v)'
  BY <1>3, <1>4 DEF IInv, LeaseOK
<1>14. KeysDiffer => CoverOK'
  BY <1>3 DEF IInv, CoverOK, RawKey
<1> QED BY <1>2, <1>8, <1>10, <1>11, <1>12, <1>13, <1>14, WorkerStep

\* The operation that a worker inserts nobody else has indexed, or waits for.
LEMMA IndexStep ==
    ASSUME IInv, NEW w \in Workers, IndexEvent(w)
    PROVE  IInv'
<1>1. /\ TypeOK /\ SettlementTypeOK /\ WorkerOK(w) /\ worker[w] \in WorkerState /\ RecordsOK
      /\ WalletAgrees /\ indexed \in SUBSET Operations /\ Distinct /\ (KeysDiffer => CoverOK)
  BY Before
<1>2. PICK n : n = worker[w].at
  OBVIOUS
<1>3. /\ worker[w].pc = "event" /\ indexed' = indexed \cup {n}
      /\ UNCHANGED <<settlementVars, cursor, lease, raw, deadLetters, faults>>
      /\ IF n \in indexed THEN GotoStep(w, "mark") ELSE GotoStep(w, "match")
  BY <1>2 DEF IndexEvent, WorkerAt
<1>4. worker[w].from < worker[w].at /\ worker[w].at <= PageEnd(w) /\ w \notin open
  BY <1>1, <1>3 DEF WorkerOK
<1>5. /\ worker' \in [Workers -> WorkerState]
      /\ worker'[w].pc = IF n \in indexed THEN "mark" ELSE "match"
      /\ worker'[w].from = worker[w].from /\ worker'[w].at = n
      /\ \A v \in Workers \ {w} : worker'[v] = worker[v]
  BY <1>1, <1>2, <1>3, GotoFacts
<1>6. n \in Operations
  <2>1. worker[w].from \in Nat /\ worker[w].at \in Nat /\ PageEnd(w) <= Last /\ PageEnd(w) \in Int
        /\ Last \in Nat
    BY <1>1, IndexerAssumption DEF WorkerState, PageEnd, LesserOf
  <2> QED BY <1>2, <1>4, <2>1 DEF Operations
<1>7. indexed' \in SUBSET Operations /\ indexed \subseteq indexed' /\ n \in indexed'
  BY <1>1, <1>3, <1>6
<1>8. UNCHANGED <<settlement, funds, journal, spent, open, missed, operator>>
  BY <1>3 DEF settlementVars
<1>9. \A v \in Workers : Confirming(v) => worker[v].at \in indexed
  BY DEF IInv, WorkerOK
<1>10. \A v \in Workers \ {w} : Confirming(v)' => Confirming(v) /\ worker'[v].at = worker[v].at
  BY <1>5 DEF Confirming
<1>11. Confirming(w)' => worker'[w].at = n /\ n \notin indexed
  BY <1>5 DEF Confirming
<1>12. Grows
  <2>1. \A m \in Waiting' : m \in Waiting \/ m \notin indexed
    BY <1>10, <1>11 DEF Waiting, Confirming
  <2> QED BY <1>1, <1>7, <2>1, DoneGrows
<1>13. RecordsOK' /\ WalletAgrees' /\ Changes({})
  <2>1. UNCHANGED <<settlement, funds, journal, spent>>
    BY <1>8
  <2> QED BY <1>1, <1>7, <1>12, <2>1, QuietRecords
<1>14. SettlementTypeOK'
  BY <1>1, <1>8 DEF SettlementTypeOK, TxnTypeOK
<1>15. TypeOK'
  BY <1>1, <1>3, <1>5, <1>7, <1>14 DEF TypeOK
<1>16. WorkerFrame(w, {})
  <2>1. \A v \in Txns : Missing(v, {})
    BY <1>8 DEF Missing
  <2> QED BY <1>5, <1>8, <1>13, <1>15, <2>1 DEF WorkerFrame
<1>17. WorkerOK(w)'
  <2>1. worker'[w].from < worker'[w].at /\ worker'[w].at <= PageEnd(w)'
    BY <1>2, <1>4, <1>5, PageStays
  <2>2. worker'[w].pc \in {"match", "mark"} /\ w \notin open' /\ worker'[w].at \in indexed'
    BY <1>4, <1>5, <1>7, <1>8
  <2> QED BY <2>1, <2>2, OutsideOK
<1>18. Distinct'
  <2> SUFFICES ASSUME NEW u \in Workers, NEW v \in Workers, u # v, Confirming(u)', Confirming(v)'
               PROVE  worker'[u].at # worker'[v].at
    BY DEF Distinct
  <2>1. CASE u # w /\ v # w
    BY <1>1, <1>10, <2>1 DEF Distinct
  <2>2. CASE u = w
    BY <1>9, <1>10, <1>11, <2>2
  <2>3. CASE v = w
    BY <1>9, <1>10, <1>11, <2>3
  <2> QED BY <2>1, <2>2, <2>3
<1>19. ASSUME NEW v \in Workers PROVE LeaseOK(v)'
  <2>1. LeaseOK(v)
    BY DEF IInv
  <2>2. CASE v = w
    BY <1>3, <1>5, <2>1, <2>2 DEF LeaseOK
  <2>3. CASE v # w
    BY <1>3, <1>5, <2>1, <2>3 DEF LeaseOK
  <2> QED BY <2>2, <2>3
<1>20. ASSUME KeysDiffer PROVE CoverOK'
  <2>1. CoverOK
    BY <1>1, <1>20
  <2>2. ASSUME NEW v \in Workers
        PROVE  /\ 1..worker'[v].from \subseteq indexed'
               /\ worker'[v].pc = "save" => 1..worker'[v].to \subseteq indexed'
    <3>1. /\ 1..worker[v].from \subseteq indexed
          /\ worker[v].pc = "save" => 1..worker[v].to \subseteq indexed
      BY <2>1 DEF CoverOK
    <3>2. CASE v = w
      BY <1>5, <1>7, <3>1, <3>2
    <3>3. CASE v # w
      BY <1>5, <1>7, <3>1, <3>3
    <3> QED BY <3>2, <3>3
  <2>3. 1..cursor' \subseteq indexed'
    BY <1>3, <1>7, <2>1 DEF CoverOK
  <2>4. \A m \in Operations : raw'[RawKey(m)] = "projected" => m \in indexed'
    BY <1>3, <1>7, <2>1 DEF CoverOK
  <2> QED BY <2>2, <2>3, <2>4 DEF CoverOK, RawKey
<1> QED BY <1>12, <1>13, <1>16, <1>17, <1>18, <1>19, <1>20, WorkerStep

-----------------------------------------------------------------------------
\* The first state: nothing was counted, taken back or spent yet.
LEMMA InitWallet ==
    ASSUME SettlementInit, SettlementTypeOK
    PROVE  WalletAgrees
<1> SUFFICES ASSUME NEW u \in Users
             PROVE  funds[u].available + spent[u] + TakenFrom(u)
                      = Worth(u, {"confirmed", "reversed"})
  BY DEF WalletAgrees
<1>1. funds[u].available = Worth(u, {"confirmed"}) /\ spent[u] = 0
  BY DEF SettlementInit
<1>2. TakenFrom(u) = 0
  <2>1. PICK f : f = [r \in Records |-> IF journal[r] # Absent /\ UserOf[settlement[r].ref] = u
                                        THEN journal[r].available ELSE 0]
    OBVIOUS
  <2>2. TakenFrom(u) = SumFunctionOnSet(f, Records)
    BY <2>1, TakenType
  <2>3. \A r \in Records : f[r] = 0
    BY <2>1 DEF SettlementInit
  <2> QED BY <2>2, <2>3, SettlementAssumption, SumZero
<1>3. Worth(u, {"confirmed"}) = Worth(u, {"confirmed", "reversed"})
  <2>1. PICK f, g :
           /\ f = [r \in Records |-> IF Counts(settlement[r], u, {"confirmed"})
                                     THEN Amount[settlement[r].ref] ELSE 0]
           /\ g = [r \in Records |-> IF Counts(settlement[r], u, {"confirmed", "reversed"})
                                     THEN Amount[settlement[r].ref] ELSE 0]
    OBVIOUS
  <2>2. /\ Worth(u, {"confirmed"}) = SumFunctionOnSet(f, Records)
        /\ Worth(u, {"confirmed", "reversed"}) = SumFunctionOnSet(g, Records)
    BY <2>1, WorthType DEF SettlementTypeOK
  <2>3. ASSUME NEW r \in Records PROVE f[r] = g[r]
    <3>1. settlement[r] # Absent => settlement[r].state # "reversed"
      BY NothingReversed DEF SettlementInit
    <3>2. Counts(settlement[r], u, {"confirmed"}) <=> Counts(settlement[r], u, {"confirmed", "reversed"})
      BY <3>1 DEF Counts
    <3> QED BY <2>1, <3>2
  <2> QED BY <2>2, <2>3, SettlementAssumption, SumSame
<1>4. Worth(u, {"confirmed"}) \in Nat
  BY WorthType DEF SettlementTypeOK
<1> QED BY <1>1, <1>2, <1>3, <1>4

LEMMA InitType ==
    ASSUME Init
    PROVE  TypeOK
<1>1. settlement \in [Records -> SettlementDoc \cup {Absent}]
  BY SettlementAssumption DEF Init, SettlementInit
<1>2. funds \in [Users -> FundsDoc]
  <2>1. \A u, S : Worth(u, S) \in Nat
    BY <1>1, WorthType
  <2>2. funds = [u \in Users |-> [pending |-> Worth(u, Pending),
                                  available |-> Worth(u, {"confirmed"}), held |-> 0, reversed |-> 0]]
    BY DEF Init, SettlementInit
  <2> QED BY <2>1, <2>2 DEF FundsDoc
<1>3. /\ journal \in [Records -> JournalDoc \cup {Absent}] /\ spent \in [Users -> Nat]
      /\ operator \in [Operators -> OperatorState]
  BY IdleType DEF Init, SettlementInit
<1>4. TxnTypeOK
  BY DEF Init, SettlementInit, TxnInit, TxnTypeOK
<1>5. SettlementTypeOK
  BY <1>1, <1>2, <1>3, <1>4 DEF SettlementTypeOK
<1>6. worker \in [Workers -> WorkerState]
  BY IdleType DEF Init
<1>7. /\ cursor \in 0..Last /\ faults \in 0..MaxFaults
      /\ lease \in LeaseDoc
  BY IndexerAssumption DEF Init, LeaseDoc
<1>8. raw \in [Hashes -> RawStatus \cup {Absent}]
  BY DEF Init
<1>9. indexed \in SUBSET Operations /\ deadLetters \in SUBSET Hashes
  BY DEF Init
<1> QED BY <1>5, <1>6, <1>7, <1>8, <1>9 DEF TypeOK

LEMMA InitInv ==
    ASSUME Init
    PROVE  IInv
<1>1. TypeOK /\ SettlementTypeOK
  BY InitType DEF TypeOK
<1>2. /\ settlement = InitialRecords /\ journal = [r \in Records |-> Absent] /\ open = {}
      /\ operator = [o \in Operators |-> Idle] /\ worker = [w \in Workers |-> IdleWorker]
      /\ indexed = {} /\ cursor = 0 /\ raw = [h \in Hashes |-> Absent]
  BY DEF Init, SettlementInit, TxnInit
<1>3. ASSUME NEW o \in Operators PROVE OperatorOK(o)
  <2>1. operator[o] = Idle
    BY <1>2
  <2> QED BY <1>2, <2>1, IdleType DEF OperatorOK
<1>4. ASSUME NEW w \in Workers PROVE worker[w].pc = "idle" /\ worker[w].from = 0
  BY <1>2, IdleType
<1>5. \A w \in Workers : WorkerOK(w) /\ LeaseOK(w) /\ ~Confirming(w)
  BY <1>2, <1>4 DEF WorkerOK, LeaseOK, Confirming
<1>6. Distinct
  BY <1>5 DEF Distinct
<1>7. ASSUME NEW r \in Records PROVE RecordOK(r)
  <2>1. journal[r] = Absent
    BY <1>2
  <2> SUFFICES ASSUME settlement[r] # Absent
               PROVE  /\ settlement[r].state \in Reached
                      /\ settlement[r].count <= Cardinality(Done(HashOf[settlement[r].ref]))
    BY <2>1 DEF RecordOK
  <2>2. /\ settlement[r].state \in State
        /\ settlement[r].state \notin {"reversed", "disputed", "provisionally_credited"}
    BY <1>1, <1>2, NothingReversed DEF SettlementTypeOK, SettlementDoc
  <2>3. settlement[r].count = 0
    BY <1>2, NothingCounted
  <2>4. Cardinality(Done(HashOf[settlement[r].ref])) \in Nat
    BY <1>1, DoneFinite DEF TypeOK
  <2> QED BY <2>2, <2>3, <2>4 DEF Reached, State
<1>8. CoverOK
  <2>1. 1..0 = {}
    OBVIOUS
  <2>2. ASSUME NEW n \in Operations PROVE raw[RawKey(n)] # "projected"
    BY <1>2, IndexerAssumption DEF RawKey, RawStatus
  <2> QED BY <1>2, <1>4, <2>1, <2>2 DEF CoverOK
<1>9. WalletAgrees
  BY <1>1, InitWallet DEF Init
<1> QED BY <1>1, <1>3, <1>5, <1>6, <1>7, <1>8, <1>9 DEF IInv, RecordsOK

-----------------------------------------------------------------------------
\* Every step keeps the invariant.
LEMMA StutterStep ==
    ASSUME IInv, UNCHANGED vars
    PROVE  IInv'
<1>1. UNCHANGED <<settlementVars, indexVars, worker, faults>>
  BY DEF vars
<1>2. UNCHANGED <<settlement, funds, journal, spent, open, missed, operator, cursor, lease, raw,
                  indexed, deadLetters, worker, faults>>
  BY <1>1 DEF settlementVars, indexVars
<1>3. TypeOK'
  BY <1>2 DEF IInv, TypeOK, SettlementTypeOK, TxnTypeOK
<1>4. \A o \in Operators : OperatorOK(o)'
  BY <1>2 DEF IInv, OperatorOK, TxnSound
<1>5. ASSUME NEW w \in Workers PROVE WorkerOK(w)'
  <2>1. WorkerOK(w)
    BY DEF IInv
  <2>2. \A h : Done(h)' = Done(h)
    BY <1>2 DEF Done, Waiting, Confirming
  <2> QED BY <1>2, <2>1, <2>2 DEF WorkerOK, Confirming, TxnSound, PageEnd
<1>6. Distinct' /\ \A w \in Workers : LeaseOK(w)'
  BY <1>2 DEF IInv, Distinct, Confirming, LeaseOK
<1>7. RecordsOK'
  BY <1>2 DEF IInv, RecordsOK, RecordOK, Done, Waiting, Confirming
<1>8. WalletAgrees'
  BY <1>2 DEF IInv, WalletAgrees, TakenFrom, Worth, Counts
<1>9. KeysDiffer => CoverOK'
  BY <1>2 DEF IInv, CoverOK, RawKey
<1> QED BY <1>3, <1>4, <1>5, <1>6, <1>7, <1>8, <1>9 DEF IInv, KeysDiffer, RawKey

LEMMA SettlementStep ==
    ASSUME IInv, SettlementNext, UNCHANGED <<indexVars, worker, faults>>
    PROVE  IInv'
<1>1. CASE \E o \in Operators, x \in Refs : LookUp(o, x)
  BY <1>1, LookUpStep
<1>2. CASE \E o \in Operators, r \in Records, s \in State : Operate(o, r, s)
  <2>1. PICK o \in Operators, r \in Records, s \in State : Operate(o, r, s)
    BY <1>2
  <2> QED BY <2>1, OperateStep
<1>3. ASSUME NEW o \in Operators,
             Insert(o) \/ Commit(o) \/ Refuse(o) \/ Fail(o) \/ Sweep(o) \/ SweepNext(o)
      PROVE  IInv'
  <2>1. CASE Insert(o)
    BY <2>1, InsertStep
  <2>2. CASE Commit(o)
    BY <2>2, CommitStep
  <2>3. CASE Refuse(o) \/ Fail(o)
    BY <2>3, GivenUpStep
  <2>4. CASE Sweep(o)
    BY <2>4, SweepStep
  <2>5. CASE SweepNext(o)
    BY <2>5, SweepNextStep
  <2> QED BY <1>3, <2>1, <2>2, <2>3, <2>4, <2>5
<1>4. CASE \E u \in Users : Spend(u)
  BY <1>4, SpendStep
<1> QED BY <1>1, <1>2, <1>3, <1>4 DEF SettlementNext

LEMMA StepStep ==
    ASSUME IInv, NEW w \in Workers, Step(w)
    PROVE  IInv'
<1>1. CASE LoadCursor(w)
  BY <1>1, LoadStep
<1>2. CASE PersistRaw(w)
  BY <1>2, PersistStep
<1>3. CASE IndexEvent(w)
  BY <1>3, IndexStep
<1>4. CASE MatchSettlement(w)
  BY <1>4, MatchStep
<1>5. CASE BeginTransition(w)
  BY <1>5, BeginStep
<1>6. CASE CommitTransition(w)
  BY <1>6, CommitWorkerStep
<1>7. CASE TransitionThrows(w)
  BY <1>7, GivenUpWorker
<1>8. CASE MarkProjected(w) \/ QuarantineDeadLetter(w)
  BY <1>8, ProjectStep
<1>9. CASE FindContiguous(w)
  BY <1>9, ContiguousStep
<1>10. CASE SaveCursor(w)
  BY <1>10, SaveStep
<1> QED BY <1>1, <1>2, <1>3, <1>4, <1>5, <1>6, <1>7, <1>8, <1>9, <1>10 DEF Step

LEMMA StepInv ==
    ASSUME IInv, [Next]_vars
    PROVE  IInv'
<1>1. CASE SettlementNext /\ UNCHANGED <<indexVars, worker, faults>>
  BY <1>1, SettlementStep
<1>2. ASSUME NEW w \in Workers, \/ \E p \in Processes : AcquireLease(w, p)
                                \/ Step(w) \/ Abandon(w) \/ StepFails(w)
      PROVE  IInv'
  <2>1. CASE \E p \in Processes : AcquireLease(w, p)
    BY <2>1, AcquireStep
  <2>2. CASE Step(w)
    BY <2>2, StepStep
  <2>3. CASE Abandon(w)
    BY <2>3, AbandonStep
  <2>4. CASE StepFails(w)
    BY <2>4, GivenUpWorker
  <2> QED BY <1>2, <2>1, <2>2, <2>3, <2>4
<1>3. CASE ExpireLease
  BY <1>3, ExpireStep
<1>4. CASE UNCHANGED vars
  BY <1>4, StutterStep
<1> QED BY <1>1, <1>2, <1>3, <1>4 DEF Next

-----------------------------------------------------------------------------
\* The inductive invariant holds in every state: what each worker, operator and
\* transaction knows agrees with the database.
THEOREM Inductive == Spec => []IInv
<1>1. Init => IInv
  BY InitInv
<1>2. IInv /\ [Next]_vars => IInv'
  BY StepInv
<1> QED BY <1>1, <1>2, PTL DEF Spec

\* Every variable of the settlements and of the indexer keeps its type.
THEOREM TypeCorrect == Spec => []TypeOK
<1>1. IInv => TypeOK
  BY DEF IInv
<1> QED BY <1>1, Inductive, PTL

\* However the indexer's workers, the operators of the route, its sweeps and the
\* users' spending interleave, abort and conflict, a wallet funding is credited once
\* when it is confirmed and taken back once when it is reversed: no other sum of
\* what a user has, has spent and lost is reached.
THEOREM WalletsCorrect == Spec => []WalletAgrees
<1>1. IInv => WalletAgrees
  BY DEF IInv
<1> QED BY <1>1, Inductive, PTL

\* Where rawEventKey tells operations apart, the cursor that is saved passes none
\* that is not indexed: not after a lost lease, a worker that died or an operation
\* that was quarantined.
THEOREM CursorSound == Spec => []CursorCovers
<1>1. IInv => CursorCovers
  BY DEF IInv, CursorCovers, CoverOK
<1> QED BY <1>1, Inductive, PTL

\* Two workers that index one operation, or one that fetches it again, never count
\* it twice as a confirmation of the settlement that it pays.
THEOREM CountedOnce == Spec => []OneCountPerOperation
<1>1. ASSUME IInv PROVE OneCountPerOperation
  <2> SUFFICES ASSUME NEW r \in Records, settlement[r] # Absent
               PROVE  settlement[r].count
                        <= Cardinality({n \in indexed : TxOf[n] = HashOf[settlement[r].ref]})
    BY DEF OneCountPerOperation
  <2>1. PICK h : h = HashOf[settlement[r].ref]
    OBVIOUS
  <2>2. PICK S : S = {n \in indexed : TxOf[n] = h}
    OBVIOUS
  <2>3. settlement[r].count <= Cardinality(Done(h))
    BY <1>1, <2>1 DEF IInv, RecordsOK, RecordOK
  <2>4. indexed \in SUBSET Operations /\ settlement[r].count \in Nat
    BY <1>1 DEF IInv, TypeOK, SettlementTypeOK, SettlementDoc
  <2>5. Done(h) \subseteq S /\ IsFiniteSet(S) /\ Cardinality(Done(h)) \in Nat
    BY <2>2, <2>4, DoneFinite
  <2>6. Cardinality(Done(h)) <= Cardinality(S) /\ Cardinality(S) \in Nat
    BY <2>5, FS_Subset, FS_CardinalityType
  <2>7. settlement[r].count <= Cardinality(S)
    BY <2>3, <2>4, <2>5, <2>6
  <2> QED BY <2>1, <2>2, <2>7
<1> QED BY <1>1, Inductive, PTL

\* saveCursor never moves the cursor back: a worker whose lease was taken over while
\* it was at work leaves it where the next one has put it.
THEOREM CursorAdvances == Spec => CursorOnlyAdvances
<1>1. ASSUME IInv, [Next]_vars PROVE [cursor' >= cursor]_cursor
  <2>1. CASE SettlementNext /\ UNCHANGED <<indexVars, worker, faults>>
    BY <2>1 DEF indexVars
  <2>2. ASSUME NEW w \in Workers, \/ \E p \in Processes : AcquireLease(w, p)
                                  \/ Step(w) \/ Abandon(w) \/ StepFails(w),
               ~SaveCursor(w)
        PROVE  UNCHANGED cursor
    BY <2>2 DEF AcquireLease, Step, Abandon, StepFails, LoadCursor, PersistRaw, IndexEvent,
                MatchSettlement, BeginTransition, CommitTransition, TransitionThrows,
                MarkProjected, QuarantineDeadLetter, FindContiguous, indexVars
  <2>3. ASSUME NEW w \in Workers, SaveCursor(w) PROVE cursor' >= cursor
    <3>1. cursor' \in 0..Last /\ cursor <= cursor' /\ cursor \in 0..Last
      BY <1>1, <2>3, SaveFacts DEF IInv, TypeOK
    <3> QED BY <3>1
  <2>4. CASE ExpireLease
    BY <2>4 DEF ExpireLease
  <2>5. CASE UNCHANGED vars
    BY <2>5 DEF vars, indexVars
  <2> QED BY <1>1, <2>1, <2>2, <2>3, <2>4, <2>5 DEF Next
<1> QED BY <1>1, Inductive, PTL DEF Spec, CursorOnlyAdvances
=============================================================================
