------------------------ MODULE SignerRotationProofs ------------------------
(***************************************************************************)
(* Theorems about SignerRotation and the requests of Custody, for every    *)
(* set of handlers, requests and signers, every weight and threshold and   *)
(* every bound.                                                            *)
(***************************************************************************)
EXTENDS SignerRotation, FiniteSetTheorems, SequenceTheorems, TLAPS

Claimed == {"submitting", "submitted", "failed"}
Replaced == {"retiring", "retired"}
Undone == {"reactivate", "undo"}
OnRequest == {"push", "promote", "watermark"} \cup Finalizing
OnSet == {"govern", "activate", "replace", "retire"} \cup Undone

\* A call k that works on a request has found it; one that finalizes it has claimed
\* it, and submits it only with its quorum.
RequesterOK(k) ==
    /\ k.pc = "insert" => k.request \in Requests /\ k.version \in Versions
                           /\ k.sequence \in Sequence
    /\ k.pc \in OnRequest => k.request \in Made
    /\ k.pc = "push" => k.by \in Signers /\ k.status \in {"pending", "quorum_reached"}
    /\ k.pc \in Finalizing => request[k.request].status \in Claimed
    /\ k.pc = "submit" => Enough(request[k.request])

RequestsOK ==
    /\ \A h \in Handlers : RequesterOK(handler[h])
    /\ \A r \in sent \cup landed : request[r].status \in Claimed /\ Enough(request[r])
    /\ \A g, h \in Handlers : g # h /\ handler[g].pc \in Finalizing /\ handler[h].pc \in Finalizing
                                 => handler[g].request # handler[h].request

\* Above a version that was replaced there is an active one, with nothing but
\* replaced ones in between.
SetsOK ==
    /\ 1 \in Exists /\ signerSet[1].status # "pending"
    /\ \A v \in Exists : signerSet[v].previous = v - 1
    /\ \A v \in Exists : signerSet[v].status \in Replaced =>
          \E u \in Exists : /\ v < u /\ signerSet[u].status = "active"
                            /\ \A i \in v..u - 1 : i \in Exists /\ signerSet[i].status \in Replaced
    /\ \A v \in overlapped : v + 1 \in Exists /\ signerSet[v + 1].status # "pending"
    /\ \A v \in Exists : signerSet[v].status = "retired" => v \in overlapped

\* A call that is about to replace the version below its own finds it as it was, and
\* its own is not undone before that.
RotatorOK(k) ==
    /\ k.pc = "create" => k.version \in Versions
    /\ k.pc \in OnSet => k.version \in Exists
    /\ k.pc = "govern" => k.by \in Governors /\ k.type \in QuorumType
    /\ k.pc \in Undone => k.status \in {"pending", "active"}
    /\ k.pc \in Undone /\ k.status = "active" => signerSet[k.version].status # "pending"
    /\ k.pc = "reactivate" => k.status = "active"
    /\ k.pc = "undo" /\ k.status = "active" /\ k.version - 1 \in Exists
          => signerSet[k.version - 1].status \notin Replaced
    /\ k.pc = "replace" => /\ k.version # 1
                           /\ signerSet[k.version].status \in {"active"} \cup Replaced
                           /\ k.version - 1 \notin overlapped
                           /\ k.version - 1 \in Exists
                                 => signerSet[k.version - 1].status \notin Replaced
    /\ k.pc = "retire" => k.version \in overlapped

\* Next to a call k that is about to replace the version below its own, no other
\* call does that, or undoes k's version.
Alone(k, l) ==
    k.pc = "replace" /\ l.version = k.version
       => l.pc # "replace" /\ ~ (l.pc = "undo" /\ l.status = "active")

RotatorsOK ==
    /\ \A h \in Handlers : RotatorOK(handler[h])
    /\ \A g, h \in Handlers : g # h => Alone(handler[g], handler[h])

\* Once the overlap window has passed over a version that was replaced, no request
\* is pinned to it any more; and when it is retired, none is open.
PinnerOK(k) ==
    /\ k.pc = "insert" /\ k.version \in overlapped => signerSet[k.version].status \notin Replaced
    /\ k.pc = "retire" /\ signerSet[k.version].status = "retiring" =>
          \A r \in Made : request[r].version = k.version => request[r].status \in Over

PinnedOK == RetiredBacksNothing /\ \A h \in Handlers : PinnerOK(handler[h])

IInv == TypeOK /\ RequestsOK /\ SetsOK /\ RotatorsOK /\ PinnedOK

-----------------------------------------------------------------------------
\* What a step does to the calls: h goes on as k, and the others stay.
Moves(h, k) ==
    /\ k \in HandlerState
    /\ handler' \in [Handlers -> HandlerState]
    /\ \A g \in Handlers : handler'[g] = IF g = h THEN k ELSE handler[g]

LEMMA MoveFacts ==
    ASSUME handler \in [Handlers -> HandlerState], NEW h \in Handlers, NEW k \in HandlerState,
           handler' = [handler EXCEPT ![h] = k]
    PROVE  Moves(h, k)
  BY DEF Moves

\* A step that moves no call moves one that is not there.
LEMMA StayFacts ==
    ASSUME handler \in [Handlers -> HandlerState], handler' = handler
    PROVE  \E h : h \notin Handlers /\ Moves(h, Idle)
<1>1. Idle \in HandlerState
  BY DEF Idle, HandlerState
<1>2. PICK h : h \notin Handlers
  <2> DEFINE russell == {x \in Handlers : x \notin x}
  <2>1. russell \notin Handlers
    OBVIOUS
  <2> QED
    BY <2>1
<1> QED
  BY <1>1, <1>2 DEF Moves

\* An idle call has nothing to keep.
LEMMA IdleFacts ==
    /\ Idle \in HandlerState /\ Idle.pc = "idle"
    /\ RequesterOK(Idle)' /\ RotatorOK(Idle)' /\ PinnerOK(Idle)'
    /\ \A k : Alone(Idle, k) /\ Alone(k, Idle)
<1>1. Idle \in HandlerState /\ Idle.pc = "idle"
  BY DEF Idle, HandlerState
<1> DEFINE i == Idle
<1> HIDE DEF i
<1>2. i.pc = "idle" => RequesterOK(i)' /\ RotatorOK(i)' /\ PinnerOK(i)'
  BY DEF RequesterOK, RotatorOK, PinnerOK, OnRequest, OnSet, Undone, Finalizing
<1>3. i.pc = "idle" => \A k : Alone(i, k) /\ Alone(k, i)
  BY DEF Alone
<1> QED
  BY <1>1, <1>2, <1>3 DEF i

-----------------------------------------------------------------------------
\* What no step does to a request: it stays, with its version; one that is claimed
\* stays claimed, with its approvals; and one that is over stays as it is.
RequestsAge ==
    \A r \in Made : /\ r \in Made' /\ request'[r].version = request[r].version
                    /\ request[r].status \in Claimed =>
                          /\ request'[r].status \in Claimed
                          /\ request'[r].approvals = request[r].approvals
                    /\ request[r].status \in Over => request'[r] = request[r]

LEMMA SameRequests == request' = request => RequestsAge
  BY DEF RequestsAge, Made

LEMMA StillEnough ==
    ASSUME RequestsAge, NEW r \in Made, request[r].status \in Claimed, Enough(request[r])
    PROVE  Enough(request'[r])
  BY DEF RequestsAge, Enough

LEMMA RequestsKept ==
    ASSUME TypeOK, RequestsOK, RequestsAge, NEW h, NEW k, Moves(h, k), RequesterOK(k)',
           k.pc \in Finalizing => \A g \in Handlers : g # h /\ handler[g].pc \in Finalizing
                                                         => handler[g].request # k.request,
           \A r \in sent' \cup landed' : \/ r \in sent \cup landed
                                         \/ request'[r].status \in Claimed /\ Enough(request'[r])
    PROVE  RequestsOK'
<1>1. ASSUME NEW g \in Handlers PROVE RequesterOK(handler[g])'
  <2>1. CASE g = h
    BY <2>1 DEF Moves
  <2>2. CASE g # h
    <3>1. handler'[g] = handler[g] /\ RequesterOK(handler[g])
      BY <2>2 DEF Moves, RequestsOK
    <3> DEFINE c == handler[g]
    <3>2. c.pc \in OnRequest => c.request \in Made /\ c.request \in Made'
      BY <3>1 DEF RequesterOK, RequestsAge
    <3>3. c.pc \in Finalizing => request'[c.request].status \in Claimed
      BY <3>1, <3>2 DEF RequesterOK, RequestsAge, OnRequest
    <3>4. c.pc = "submit" => Enough(request'[c.request])
      BY <3>1, <3>2, StillEnough DEF RequesterOK, OnRequest, Finalizing
    <3> QED
      BY <3>1, <3>2, <3>3, <3>4 DEF RequesterOK
  <2> QED
    BY <2>1, <2>2
<1>2. ASSUME NEW r \in sent' \cup landed'
      PROVE  request'[r].status \in Claimed /\ Enough(request'[r])
  <2>1. CASE r \in sent \cup landed
    <3>1. r \in Made /\ request[r].status \in Claimed /\ Enough(request[r])
      BY <2>1 DEF TypeOK, RequestsOK
    <3> QED
      BY <3>1, StillEnough DEF RequestsAge
  <2> QED
    BY <2>1
<1>3. ASSUME NEW f \in Handlers, NEW g \in Handlers, f # g,
             handler'[f].pc \in Finalizing, handler'[g].pc \in Finalizing
      PROVE  handler'[f].request # handler'[g].request
  BY <1>3 DEF Moves, RequestsOK
<1> QED
  BY <1>1, <1>2, <1>3 DEF RequestsOK

-----------------------------------------------------------------------------
\* A step that changes the status of version v to s, and of no other.
Restatus(v, s) ==
    /\ Exists' = Exists
    /\ \A u \in Exists : /\ signerSet'[u].previous = signerSet[u].previous
                         /\ signerSet'[u].status = IF u = v THEN s ELSE signerSet[u].status

\* A step that changes no version's status; it may add a version, a pending one.
SameStatuses ==
    /\ \A v \in Exists : /\ v \in Exists'
                         /\ signerSet'[v].previous = signerSet[v].previous
                         /\ signerSet'[v].status = signerSet[v].status
    /\ \A v \in Exists' \ Exists : /\ signerSet'[v].previous = v - 1
                                   /\ signerSet'[v].status = "pending"

LEMMA SameSets == signerSet' = signerSet => SameStatuses
  BY DEF SameStatuses, Exists

LEMMA RestatusFacts ==
    ASSUME \A v \in Exists : signerSet[v] \in SignerSetDoc, NEW v \in Exists,
           NEW s \in {"pending", "active", "retiring"} \cup Gone,
           signerSet' = WithStatus(v, s)
    PROVE  /\ Restatus(v, s)
           /\ \A u \in Exists : signerSet'[u] \in SignerSetDoc
  BY DEF Restatus, WithStatus, SignerSetDoc, Exists

LEMMA SetsKept ==
    ASSUME TypeOK, SetsOK, SameStatuses, overlapped' = overlapped
    PROVE  SetsOK'
<1>1. Exists \subseteq Exists' /\ \A v \in Exists' : signerSet'[v].status \in Replaced => v \in Exists
  BY DEF SameStatuses, Replaced
<1>2. overlapped \subseteq Exists /\ \A v \in Exists : v \in Int
  BY DEF TypeOK, Versions
<1>3. 1 \in Exists' /\ signerSet'[1].status # "pending"
  BY DEF SameStatuses, SetsOK
<1>4. \A v \in Exists' : signerSet'[v].previous = v - 1
  BY DEF SameStatuses, SetsOK
<1>5. ASSUME NEW v \in Exists', signerSet'[v].status \in Replaced
      PROVE  \E u \in Exists' : /\ v < u /\ signerSet'[u].status = "active"
                  /\ \A i \in v..u - 1 : i \in Exists' /\ signerSet'[i].status \in Replaced
  <2>1. v \in Exists /\ signerSet[v].status \in Replaced
    BY <1>1, <1>5 DEF SameStatuses
  <2>2. PICK u \in Exists : /\ v < u /\ signerSet[u].status = "active"
                  /\ \A i \in v..u - 1 : i \in Exists /\ signerSet[i].status \in Replaced
    BY <2>1 DEF SetsOK
  <2> QED
    BY <2>2 DEF SameStatuses
<1>6. \A v \in overlapped : v + 1 \in Exists' /\ signerSet'[v + 1].status # "pending"
  BY DEF SameStatuses, SetsOK
<1>7. \A v \in Exists' : signerSet'[v].status = "retired" => v \in overlapped
  BY <1>1 DEF SameStatuses, SetsOK, Replaced
<1> QED
  BY <1>3, <1>4, <1>5, <1>6, <1>7 DEF SetsOK

LEMMA RotatorsKept ==
    ASSUME TypeOK, RotatorsOK, SameStatuses, overlapped' = overlapped,
           NEW h, NEW k, Moves(h, k), RotatorOK(k)',
           \A g \in Handlers : g # h => Alone(handler[g], k) /\ Alone(k, handler[g])
    PROVE  RotatorsOK'
<1>1. ASSUME NEW c \in HandlerState, RotatorOK(c) PROVE RotatorOK(c)'
  <2>1. c.pc \in OnSet => c.version \in Exists /\ c.version \in Exists'
    BY <1>1 DEF RotatorOK, SameStatuses
  <2>2. c.pc \in OnSet => signerSet'[c.version].status = signerSet[c.version].status
    BY <2>1 DEF SameStatuses
  <2>3. c.version - 1 \in Exists' /\ signerSet'[c.version - 1].status \in Replaced
           => c.version - 1 \in Exists /\ signerSet[c.version - 1].status \in Replaced
    BY DEF SameStatuses, Replaced
  <2> QED
    BY <1>1, <2>1, <2>2, <2>3 DEF RotatorOK, OnSet, Undone
<1>2. ASSUME NEW g \in Handlers PROVE RotatorOK(handler[g])'
  <2>1. CASE g = h
    BY <2>1 DEF Moves
  <2>2. CASE g # h
    <3>1. handler'[g] = handler[g] /\ handler[g] \in HandlerState /\ RotatorOK(handler[g])
      BY <2>2 DEF Moves, RotatorsOK, TypeOK
    <3> QED
      BY <3>1, <1>1
  <2> QED
    BY <2>1, <2>2
<1>3. ASSUME NEW f \in Handlers, NEW g \in Handlers, f # g
      PROVE  Alone(handler'[f], handler'[g])
  BY <1>3 DEF Moves, RotatorsOK
<1> QED
  BY <1>2, <1>3 DEF RotatorsOK

\* The same for a step that changes the status of v, if no other call that is about
\* to replace a version minds.
LEMMA RotatorsRestatus ==
    ASSUME TypeOK, RotatorsOK, overlapped' = overlapped,
           NEW v \in Exists, NEW s, Restatus(v, s), s # "pending",
           NEW h \in Handlers, NEW k, Moves(h, k), RotatorOK(k)',
           \A g \in Handlers : g # h => Alone(handler[g], k) /\ Alone(k, handler[g]),
           \A g \in Handlers : g # h /\ handler[g].pc = "replace" /\ handler[g].version = v
                                  => s \in {"active"} \cup Replaced,
           s \in Replaced /\ signerSet[v].status \notin Replaced =>
              \A g \in Handlers : g # h /\ handler[g].version = v + 1
                 => /\ handler[g].pc # "replace"
                    /\ ~ (handler[g].pc = "undo" /\ handler[g].status = "active")
    PROVE  RotatorsOK'
<1> Exists \subseteq Int
  BY DEF TypeOK, Versions
<1>1. ASSUME NEW g \in Handlers PROVE RotatorOK(handler[g])'
  <2>1. CASE g = h
    BY <2>1 DEF Moves
  <2>2. CASE g # h
    <3>0. PICK c : c = handler[g]
      OBVIOUS
    <3>1. handler[g] = c /\ handler'[g] = c /\ c \in HandlerState /\ RotatorOK(c)
      BY <3>0, <2>2 DEF Moves, RotatorsOK, TypeOK
    <3>2. c.version \in Int
      BY <3>1, CustodyAssumption DEF HandlerState, Versions
    <3>3. /\ c.pc \in OnSet => c.version \in Exists'
          /\ c.pc = "create" => c.version \in Versions
          /\ c.pc = "govern" => c.by \in Governors /\ c.type \in QuorumType
          /\ c.pc \in Undone => c.status \in {"pending", "active"}
          /\ c.pc = "reactivate" => c.status = "active"
          /\ c.pc = "retire" => c.version \in overlapped'
          /\ c.pc = "replace" => c.version # 1
      BY <3>1 DEF RotatorOK, Restatus
    <3>4. c.pc \in Undone /\ c.status = "active" => signerSet'[c.version].status # "pending"
      BY <3>1 DEF RotatorOK, Restatus, OnSet, Undone
    <3>5. ASSUME NEW w \in Exists, w = c.version - 1,
                 c.pc = "replace" \/ (c.pc = "undo" /\ c.status = "active")
          PROVE  signerSet'[w].status \notin Replaced
      <4>1. signerSet[w].status \notin Replaced
        BY <3>1, <3>5 DEF RotatorOK
      <4>2. CASE w = v
        BY <3>1, <3>2, <3>5, <2>2, <4>1, <4>2 DEF Restatus
      <4>3. CASE w # v
        BY <3>5, <4>1, <4>3 DEF Restatus
      <4> QED
        BY <4>2, <4>3
    <3>6. ASSUME c.pc = "replace"
          PROVE  /\ signerSet'[c.version].status \in {"active"} \cup Replaced
                 /\ c.version - 1 \notin overlapped'
      <4>1. /\ c.version \in Exists /\ c.version - 1 \notin overlapped
            /\ signerSet[c.version].status \in {"active"} \cup Replaced
        BY <3>1, <3>6 DEF RotatorOK, OnSet
      <4>2. c.version = v => s \in {"active"} \cup Replaced
        BY <2>2, <3>1, <3>6
      <4>3. signerSet'[c.version].status = IF c.version = v THEN s ELSE signerSet[c.version].status
        BY <4>1 DEF Restatus
      <4> QED
        BY <4>1, <4>2, <4>3
    <3>7. Exists' = Exists
      BY DEF Restatus
    <3>8. ASSUME c.pc = "replace" \/ (c.pc = "undo" /\ c.status = "active"),
                 c.version - 1 \in Exists'
          PROVE  signerSet'[c.version - 1].status \notin Replaced
      BY <3>5, <3>7, <3>8
    <3>9. RotatorOK(c)'
      BY <3>3, <3>4, <3>6, <3>8 DEF RotatorOK
    <3> QED
      BY <3>1, <3>9
  <2> QED
    BY <2>1, <2>2
<1>2. ASSUME NEW f \in Handlers, NEW g \in Handlers, f # g
      PROVE  Alone(handler'[f], handler'[g])
  BY <1>2 DEF Moves, RotatorsOK
<1> QED
  BY <1>1, <1>2 DEF RotatorsOK

LEMMA PinnedKept ==
    ASSUME TypeOK, RotatorsOK, PinnedOK, overlapped' = overlapped, Made' = Made, RequestsAge,
           NEW h, NEW k, Moves(h, k), PinnerOK(k)',
           \A v \in Exists : v \in Exists',
           \A v \in Exists' \ Exists : signerSet'[v].status = "pending",
           \A v \in Exists : /\ signerSet'[v].status \in Replaced
                                   => signerSet[v].status \in Replaced \/ v \notin overlapped
                             /\ signerSet'[v].status = "retiring"
                                   => signerSet[v].status = "retiring" \/ v \notin overlapped
                             /\ signerSet'[v].status = "retired" => \/ signerSet[v].status = "retired"
                                   \/ \A r \in Made : request[r].version = v => request[r].status \in Over
    PROVE  PinnedOK'
<1>1. \A r \in Made : /\ request'[r].version = request[r].version
                      /\ request[r].status \in Over => request'[r].status \in Over
  BY DEF RequestsAge
<1>2. RetiredBacksNothing'
  <2> SUFFICES ASSUME NEW r \in Made, request[r].version \in Exists',
                      signerSet'[request[r].version].status = "retired"
               PROVE  request[r].status \in Over
    BY <1>1 DEF RetiredBacksNothing, HasStatus
  <2> QED
    BY DEF PinnedOK, RetiredBacksNothing, HasStatus
<1>3. ASSUME NEW g \in Handlers PROVE PinnerOK(handler[g])'
  <2>1. CASE g = h
    BY <2>1 DEF Moves
  <2>2. CASE g # h
    <3> DEFINE c == handler[g]
    <3>1. handler'[g] = c /\ RotatorOK(c) /\ PinnerOK(c)
      BY <2>2 DEF Moves, RotatorsOK, PinnedOK
    <3>2. c.pc = "insert" /\ c.version \in overlapped => signerSet'[c.version].status \notin Replaced
      BY <3>1 DEF PinnerOK, TypeOK
    <3>3. ASSUME c.pc = "retire", signerSet'[c.version].status = "retiring",
                 NEW r \in Made, request[r].version = c.version
          PROVE  request[r].status \in Over
      BY <3>1, <3>3 DEF PinnerOK, RotatorOK, OnSet
    <3> QED
      BY <3>1, <3>2, <3>3, <1>1 DEF PinnerOK
  <2> QED
    BY <2>1, <2>2
<1> QED
  BY <1>2, <1>3 DEF PinnedOK

-----------------------------------------------------------------------------
LEMMA GotoFacts ==
    ASSUME handler \in [Handlers -> HandlerState], NEW h \in Handlers,
           NEW pc \in {"promote", "submit", "sent", "advance", "record", "fail", "replace", "undo"},
           Goto(h, pc)
    PROVE  \E k : /\ Moves(h, k)
                  /\ k.pc = pc /\ k.request = handler[h].request /\ k.version = handler[h].version
                  /\ k.status = handler[h].status
<1> DEFINE k == [handler[h] EXCEPT !.pc = pc]
<1>1. /\ k \in HandlerState
      /\ k.pc = pc /\ k.request = handler[h].request /\ k.version = handler[h].version
      /\ k.status = handler[h].status
  BY DEF HandlerState
<1>2. handler' = [handler EXCEPT ![h] = k]
  BY DEF Goto
<1>3. Moves(h, k)
  BY <1>1, <1>2, MoveFacts
<1> QED
  BY <1>1, <1>3

LEMMA ReturnFacts ==
    ASSUME handler \in [Handlers -> HandlerState], NEW h \in Handlers, Return(h)
    PROVE  Moves(h, Idle)
  BY MoveFacts, IdleFacts DEF Return

\* Such a call minds no change of the signer sets, and none of theirs minds it.
LEMMA RequesterFacts ==
    ASSUME NEW k, k.pc \notin OnSet \cup {"create", "insert"}
    PROVE  /\ RotatorOK(k)' /\ PinnerOK(k)'
           /\ \A c : Alone(c, k) /\ Alone(k, c)
  BY DEF RotatorOK, PinnerOK, Alone, OnSet, Undone

\* A step of the requests or of the ledger.
LEMMA RequestStep ==
    ASSUME IInv, signerSet' = signerSet, overlapped' = overlapped,
           Made' = Made, RequestsAge, \A r \in Made : request'[r] \in RequestDoc,
           watermark' \in 0..MaxSequence, consumed' \in 0..MaxSequence,
           late' \subseteq Made, sent' \subseteq Made, landed' \subseteq Made,
           NEW h, NEW k, Moves(h, k), RequesterOK(k)', k.pc \in OnRequest \cup {"idle"},
           k.pc \in Finalizing => \A g \in Handlers : g # h /\ handler[g].pc \in Finalizing
                                                         => handler[g].request # k.request,
           \A r \in sent' \cup landed' : \/ r \in sent \cup landed
                                         \/ request'[r].status \in Claimed /\ Enough(request'[r])
    PROVE  IInv'
<1>1. TypeOK'
  BY DEF IInv, TypeOK, Moves, Exists
<1>2. /\ RotatorOK(k)' /\ PinnerOK(k)'
      /\ \A c : Alone(c, k) /\ Alone(k, c)
  BY RequesterFacts DEF OnRequest, OnSet, Undone, Finalizing
<1>3. RequestsOK'
  BY RequestsKept DEF IInv
<1>4. SetsOK'
  BY SetsKept, SameSets DEF IInv
<1>5. RotatorsOK'
  BY <1>2, RotatorsKept, SameSets DEF IInv
<1>6. PinnedOK'
  <2>1. Exists' = Exists
    BY DEF Exists
  <2> QED
    BY <1>2, <2>1, PinnedKept DEF IInv
<1> QED
  BY <1>1, <1>3, <1>4, <1>5, <1>6 DEF IInv

\* A step of the signer sets.
LEMMA RotationStep ==
    ASSUME IInv, request' = request, watermark' = watermark, UNCHANGED worldVars,
           NEW h, NEW k, Moves(h, k), k.pc \in OnSet \cup {"create", "idle"}
    PROVE  /\ RequestsOK'
           /\ Exists' \subseteq Versions /\ Exists \subseteq Exists'
                 /\ (\A v \in Exists' : signerSet'[v] \in SignerSetDoc) => TypeOK'
           /\ Made' = Made /\ RequestsAge
<1>1. RequesterOK(k)' /\ k.pc \notin Finalizing
  BY DEF RequesterOK, OnSet, Undone, OnRequest, Finalizing
<1>2. Made' = Made /\ RequestsAge
  BY SameRequests DEF Made
<1>3. RequestsOK'
  BY <1>1, <1>2, RequestsKept DEF IInv, worldVars
<1>4. ASSUME Exists' \subseteq Versions, Exists \subseteq Exists',
             \A v \in Exists' : signerSet'[v] \in SignerSetDoc
      PROVE  TypeOK'
  <2>1. handler' \in [Handlers -> HandlerState]
    BY DEF Moves
  <2>2. late' = late /\ overlapped' = overlapped /\ sent' = sent /\ landed' = landed
           /\ consumed' = consumed
    BY DEF worldVars
  <2> QED
    BY <1>2, <1>4, <2>1, <2>2 DEF IInv, TypeOK
<1> QED
  BY <1>2, <1>3, <1>4

-----------------------------------------------------------------------------
\* The steps of the requests, one lemma for each.

LEMMA RequestApprovalStep ==
    ASSUME IInv, NEW h \in Handlers, NEW r \in Requests, NEW n \in Sequence,
           RequestApproval(h, r, n)
    PROVE  IInv'
<1>1. PICK v \in Exists :
         /\ signerSet[v].status = "active"
         /\ handler' = [handler EXCEPT ![h] = [Idle EXCEPT !.pc = "insert", !.request = r,
                                                          !.version = v, !.sequence = n]]
  BY DEF RequestApproval, HasStatus
<1>2. PICK k : /\ handler' = [handler EXCEPT ![h] = k]
               /\ k = [Idle EXCEPT !.pc = "insert", !.request = r, !.version = v, !.sequence = n]
  BY <1>1
<1>3. v \in Versions
  BY DEF IInv, TypeOK
<1>4. /\ k \in HandlerState /\ k.pc = "insert" /\ k.request = r /\ k.version = v /\ k.sequence = n
  BY <1>2, <1>3 DEF Idle, HandlerState
<1>5. Moves(h, k)
  BY <1>2, <1>4, MoveFacts DEF IInv, TypeOK
<1>6. UNCHANGED <<request, signerSet, watermark, late, overlapped, sent, landed, consumed>>
  BY DEF RequestApproval, docVars, worldVars
<1>7. TypeOK'
  BY <1>5, <1>6 DEF IInv, TypeOK, Moves, Made, Exists
<1>8. RequesterOK(k)' /\ k.pc \notin Finalizing
  BY <1>3, <1>4 DEF RequesterOK, OnRequest, Finalizing
<1>9. RequestsOK'
  BY <1>5, <1>6, <1>8, RequestsKept, SameRequests DEF IInv
<1>10. SetsOK'
  BY <1>6, SetsKept, SameSets DEF IInv
<1>11. RotatorOK(k)' /\ \A c : Alone(c, k) /\ Alone(k, c)
  BY <1>4 DEF RotatorOK, Alone, OnSet, Undone
<1>12. RotatorsOK'
  BY <1>5, <1>6, <1>11, RotatorsKept, SameSets DEF IInv
<1>13. PinnerOK(k)'
  BY <1>1, <1>4, <1>6 DEF PinnerOK, Replaced
<1>14. Exists' = Exists /\ Made' = Made
  BY <1>6 DEF Exists, Made
<1>15. PinnedOK'
  BY <1>5, <1>6, <1>13, <1>14, PinnedKept, SameRequests DEF IInv
<1> QED
  BY <1>7, <1>9, <1>10, <1>12, <1>15 DEF IInv

LEMMA ApproveStep ==
    ASSUME IInv, NEW h \in Handlers, NEW r \in Requests, NEW s \in Signers, Approve(h, r, s)
    PROVE  IInv'
<1>1. PICK k : /\ handler' = [handler EXCEPT ![h] = k]
               /\ k = [Idle EXCEPT !.pc = "push", !.request = r, !.by = s,
                                   !.status = request[r].status]
  BY DEF Approve
<1>2. r \in Made /\ request[r].status \in {"pending", "quorum_reached"}
  BY DEF Approve
<1>3. /\ k \in HandlerState /\ k.pc = "push" /\ k.request = r /\ k.by = s
      /\ k.status = request[r].status
  BY <1>1, <1>2 DEF Idle, HandlerState
<1>4. Moves(h, k)
  BY <1>1, <1>3, MoveFacts DEF IInv, TypeOK
<1>5. UNCHANGED <<request, signerSet, watermark, late, overlapped, sent, landed, consumed>>
  BY DEF Approve, docVars, worldVars
<1>6. Made' = Made
  BY <1>5 DEF Made
<1>7. RequesterOK(k)' /\ k.pc \in OnRequest /\ k.pc \notin Finalizing
  BY <1>2, <1>3, <1>6 DEF RequesterOK, OnRequest, Finalizing
<1> QED
  BY <1>4, <1>5, <1>6, <1>7, RequestStep, SameRequests DEF IInv, TypeOK

\* What a request that is made holds.
LEMMA DocFacts ==
    ASSUME NEW d \in RequestDoc
    PROVE  /\ d.status \in Open \cup Over /\ d.sequence \in Sequence /\ d.version \in Versions
           /\ d.approvals \in Seq(Signers)
           /\ \A t \in Open \cup Over : [d EXCEPT !.status = t] \in RequestDoc
           /\ \A s \in Signers : [d EXCEPT !.approvals = Append(d.approvals, s)] \in RequestDoc
<1>1. \A s \in Signers : Append(d.approvals, s) \in Seq(Signers)
  BY AppendProperties DEF RequestDoc
<1> QED
  BY <1>1 DEF RequestDoc

\* A step that gives one request, which is not claimed, another status.
LEMMA StatusFacts ==
    ASSUME TypeOK, NEW r \in Made, NEW t \in Open \cup Over, request[r].status \notin Over,
           request[r].status \in Claimed => t \in Claimed,
           request' = [request EXCEPT ![r].status = t]
    PROVE  /\ Made' = Made /\ RequestsAge /\ \A q \in Made : request'[q] \in RequestDoc
           /\ request'[r].status = t /\ request'[r].approvals = request[r].approvals
           /\ request'[r].version = request[r].version
<1>1. Made' = Made
  BY DEF Made
<1>2. PICK d : d = [request[r] EXCEPT !.status = t]
  OBVIOUS
<1>3. request[r] \in RequestDoc
  BY DEF TypeOK
<1>4. /\ d \in RequestDoc /\ d.status = t /\ d.approvals = request[r].approvals
      /\ d.version = request[r].version
  BY <1>2, <1>3, DocFacts DEF RequestDoc
<1>5. \A q \in Made : request'[q] = IF q = r THEN d ELSE request[q]
  BY <1>2 DEF Made
<1>6. \A q \in Made : request'[q] \in RequestDoc
  BY <1>4, <1>5 DEF TypeOK
<1>7. RequestsAge
  BY <1>1, <1>4, <1>5 DEF RequestsAge
<1> QED
  BY <1>1, <1>4, <1>5, <1>6, <1>7

LEMMA PushApprovalStep ==
    ASSUME IInv, NEW h \in Handlers, PushApproval(h)
    PROVE  IInv'
<1> DEFINE r == handler[h].request
<1>1. /\ handler[h].pc = "push" /\ r \in Made /\ request[r] \in RequestDoc
      /\ handler[h].by \in Signers /\ handler[h].status \in {"pending", "quorum_reached"}
  BY DEF PushApproval, At, IInv, RequestsOK, RequesterOK, OnRequest, TypeOK
<1>2. UNCHANGED <<signerSet, watermark, late, overlapped, sent, landed, consumed>>
  BY DEF PushApproval, worldVars
<1>3. CASE request[r].status = handler[h].status
  <2>1. PICK d : d = [request[r] EXCEPT !.approvals = Append(request[r].approvals, handler[h].by)]
    OBVIOUS
  <2>2. d \in RequestDoc /\ d.status = request[r].status /\ d.version = request[r].version
    BY <1>1, <2>1, DocFacts DEF RequestDoc
  <2>3. Made' = Made /\ \A q \in Made : request'[q] = IF q = r THEN d ELSE request[q]
    BY <1>1, <1>3, <2>1 DEF PushApproval, Made
  <2>4. \A q \in Made : request'[q] \in RequestDoc
    BY <2>2, <2>3 DEF IInv, TypeOK
  <2>5. RequestsAge
    BY <1>1, <1>3, <2>2, <2>3 DEF RequestsAge, Claimed, Over
  <2>6. CASE Goto(h, "promote")
    <3>1. PICK k : Moves(h, k) /\ k.pc = "promote" /\ k.request = r
      BY <2>6, GotoFacts DEF IInv, TypeOK
    <3>2. RequesterOK(k)' /\ k.pc \in OnRequest /\ k.pc \notin Finalizing
      BY <1>1, <2>3, <3>1 DEF RequesterOK, OnRequest, Finalizing
    <3> QED
      BY <1>2, <2>3, <2>4, <2>5, <3>1, <3>2, RequestStep DEF IInv, TypeOK
  <2>7. CASE Return(h)
    <3>1. Moves(h, Idle)
      BY <2>7, ReturnFacts DEF IInv, TypeOK
    <3> QED
      BY <1>2, <2>3, <2>4, <2>5, <3>1, IdleFacts, RequestStep DEF IInv, TypeOK, Finalizing
  <2> QED
    BY <1>3, <2>6, <2>7 DEF PushApproval
<1>4. CASE request[r].status # handler[h].status
  <2>1. Return(h) /\ request' = request
    BY <1>4 DEF PushApproval
  <2>2. Moves(h, Idle)
    BY <2>1, ReturnFacts DEF IInv, TypeOK
  <2>3. Made' = Made
    BY <2>1 DEF Made
  <2> QED
    BY <1>2, <2>1, <2>2, <2>3, IdleFacts, RequestStep, SameRequests DEF IInv, TypeOK, Finalizing
<1> QED
  BY <1>3, <1>4

\* A step that gives one request another status, if any, after which its call is idle.
LEMMA StatusStep ==
    ASSUME IInv, UNCHANGED <<signerSet, watermark, late, overlapped, sent, landed, consumed>>,
           NEW r \in Made, NEW t \in Open \cup Over, request[r].status \notin Over,
           request[r].status \in Claimed => t \in Claimed,
           request' = [request EXCEPT ![r].status = t] \/ request' = request,
           NEW h, Moves(h, Idle)
    PROVE  IInv'
<1>1. CASE request' = [request EXCEPT ![r].status = t]
  BY <1>1, StatusFacts, IdleFacts, RequestStep DEF IInv, TypeOK, Finalizing
<1>2. CASE request' = request
  <2>1. Made' = Made
    BY <1>2 DEF Made
  <2> QED
    BY <1>2, <2>1, SameRequests, IdleFacts, RequestStep DEF IInv, TypeOK, Finalizing
<1> QED
  BY <1>1, <1>2

LEMMA PromoteStep ==
    ASSUME IInv, NEW h \in Handlers, Promote(h)
    PROVE  IInv'
<1> DEFINE r == handler[h].request
<1>1. r \in Made
  BY DEF Promote, At, IInv, RequestsOK, RequesterOK, OnRequest
<1>2. UNCHANGED <<signerSet, watermark, late, overlapped, sent, landed, consumed>>
  BY DEF Promote, worldVars
<1>3. Moves(h, Idle)
  BY ReturnFacts DEF Promote, IInv, TypeOK
<1>4. CASE request[r].status = "pending"
  <2>1. request' = [request EXCEPT ![r].status = "quorum_reached"]
    BY <1>4 DEF Promote
  <2> QED
    BY <1>1, <1>2, <1>3, <1>4, <2>1, StatusStep DEF Open, Over, Claimed
<1>5. CASE request[r].status # "pending"
  <2>1. request' = request /\ Made' = Made
    BY <1>5 DEF Promote, Made
  <2> QED
    BY <1>2, <1>3, <2>1, SameRequests, IdleFacts, RequestStep DEF IInv, TypeOK, Finalizing
<1> QED
  BY <1>4, <1>5

LEMMA ClaimStep ==
    ASSUME IInv, NEW h \in Handlers, NEW r \in Requests, Claim(h, r)
    PROVE  IInv'
<1>1. /\ r \in Made /\ request[r].status = "quorum_reached"
      /\ request' = [request EXCEPT ![r].status = "submitting"]
      /\ UNCHANGED <<signerSet, watermark, late, overlapped, sent, landed, consumed>>
  BY DEF Claim, worldVars
<1>2. PICK k : /\ handler' = [handler EXCEPT ![h] = k]
               /\ k = [Idle EXCEPT !.pc = "check", !.request = r]
  BY DEF Claim
<1>3. k \in HandlerState /\ k.pc = "check" /\ k.request = r
  BY <1>2 DEF Idle, HandlerState
<1>4. Moves(h, k)
  BY <1>2, <1>3, MoveFacts DEF IInv, TypeOK
<1>5. /\ Made' = Made /\ RequestsAge /\ \A q \in Made : request'[q] \in RequestDoc
      /\ request'[r].status = "submitting"
  BY <1>1, StatusFacts DEF IInv, Open, Over, Claimed
<1>6. RequesterOK(k)' /\ k.pc \in OnRequest
  BY <1>1, <1>3, <1>5 DEF RequesterOK, OnRequest, Finalizing, Claimed
<1>7. \A g \in Handlers : handler[g].pc \in Finalizing => handler[g].request # r
  BY <1>1 DEF IInv, RequestsOK, RequesterOK, Claimed
<1> QED
  BY <1>1, <1>3, <1>4, <1>5, <1>6, <1>7, RequestStep DEF IInv, TypeOK

\* A call that finalizes a request goes on with it.
LEMMA FinalizingStep ==
    ASSUME IInv, UNCHANGED <<request, signerSet, late, overlapped, landed, consumed>>,
           watermark' \in 0..MaxSequence, NEW h \in Handlers, handler[h].pc \in Finalizing,
           NEW pc \in {"submit", "sent", "advance", "record", "fail"}, Goto(h, pc),
           pc = "submit" => Enough(request[handler[h].request]),
           sent' \subseteq sent \/ (sent' = sent \cup {handler[h].request}
                                     /\ Enough(request[handler[h].request]))
    PROVE  IInv'
<1>1. PICK k : Moves(h, k) /\ k.pc = pc /\ k.request = handler[h].request
  BY GotoFacts DEF IInv, TypeOK
<1>2. /\ handler[h].request \in Made /\ request[handler[h].request].status \in Claimed
      /\ \A g \in Handlers : g # h /\ handler[g].pc \in Finalizing
                                => handler[g].request # handler[h].request
  BY DEF IInv, RequestsOK, RequesterOK, OnRequest
<1>3. Made' = Made /\ RequestsAge /\ \A q \in Made : request'[q] \in RequestDoc
  BY SameRequests DEF Made, IInv, TypeOK
<1>4. RequesterOK(k)' /\ k.pc \in OnRequest /\ k.pc \in Finalizing
  BY <1>1, <1>2, <1>3 DEF RequesterOK, OnRequest, Finalizing
<1>5. /\ sent' \subseteq Made
      /\ \A r \in sent' \cup landed' : \/ r \in sent \cup landed
                                       \/ request'[r].status \in Claimed /\ Enough(request'[r])
  BY <1>2 DEF IInv, TypeOK
<1> QED
  BY <1>1, <1>2, <1>3, <1>4, <1>5, RequestStep DEF IInv, TypeOK

LEMMA CheckStep ==
    ASSUME IInv, NEW h \in Handlers, Check(h)
    PROVE  IInv'
<1>1. /\ handler[h].pc \in Finalizing
      /\ UNCHANGED <<request, signerSet, watermark, late, overlapped, sent, landed, consumed>>
  BY DEF Check, At, Finalizing, docVars, worldVars
<1>2. watermark' \in 0..MaxSequence
  BY <1>1 DEF IInv, TypeOK
<1>3. CASE Goto(h, "fail")
  BY <1>1, <1>2, <1>3, FinalizingStep
<1>4. CASE Goto(h, "submit") /\ Enough(request[handler[h].request])
  BY <1>1, <1>2, <1>4, FinalizingStep
<1> QED
  BY <1>3, <1>4 DEF Check

LEMMA SubmitStep ==
    ASSUME IInv, NEW h \in Handlers, Submit(h)
    PROVE  IInv'
<1>1. /\ handler[h].pc = "submit" /\ Goto(h, "sent") /\ sent' = sent \cup {handler[h].request}
      /\ UNCHANGED <<request, signerSet, watermark, late, overlapped, landed, consumed>>
  BY DEF Submit, At, docVars
<1>2. Enough(request[handler[h].request]) /\ watermark' \in 0..MaxSequence
  BY <1>1 DEF IInv, RequestsOK, RequesterOK, TypeOK
<1> QED
  BY <1>1, <1>2, FinalizingStep DEF Finalizing

LEMMA AnsweredStep ==
    ASSUME IInv, NEW h \in Handlers, Answered(h)
    PROVE  IInv'
<1>1. /\ handler[h].pc \in Finalizing /\ sent' \subseteq sent
      /\ UNCHANGED <<request, signerSet, watermark, late, overlapped, landed, consumed>>
  BY DEF Answered, At, Finalizing, docVars
<1>2. watermark' \in 0..MaxSequence
  BY <1>1 DEF IInv, TypeOK
<1>3. CASE Goto(h, "advance")
  BY <1>1, <1>2, <1>3, FinalizingStep
<1>4. CASE Goto(h, "fail")
  BY <1>1, <1>2, <1>4, FinalizingStep
<1>5. CASE Return(h) /\ sent' = sent
  <2>1. Moves(h, Idle) /\ Made' = Made
    BY <1>1, <1>5, ReturnFacts DEF IInv, TypeOK, Made
  <2> QED
    BY <1>1, <1>2, <1>5, <2>1, SameRequests, IdleFacts, RequestStep DEF IInv, TypeOK, Finalizing
<1> QED
  BY <1>3, <1>4, <1>5 DEF Answered

LEMMA AdvanceWatermarkStep ==
    ASSUME IInv, NEW h \in Handlers, AdvanceWatermark(h)
    PROVE  IInv'
<1>1. /\ watermark' = Advanced(request[handler[h].request].sequence)
      /\ UNCHANGED <<request, signerSet, late, overlapped, sent, landed, consumed>>
  BY DEF AdvanceWatermark, worldVars
<1>2. handler[h].request \in Made
  BY DEF AdvanceWatermark, At, IInv, RequestsOK, RequesterOK, OnRequest, Finalizing
<1>3. request[handler[h].request].sequence \in 1..MaxSequence
  BY <1>2, DocFacts DEF IInv, TypeOK, Sequence
<1>4. watermark' \in 0..MaxSequence
  BY <1>1, <1>3, CustodyAssumption DEF IInv, TypeOK, Advanced
<1>5. CASE At(h, "advance") /\ Goto(h, "record")
  BY <1>1, <1>4, <1>5, FinalizingStep DEF At, Finalizing
<1>6. CASE Return(h)
  <2>1. Moves(h, Idle) /\ Made' = Made
    BY <1>1, <1>6, ReturnFacts DEF IInv, TypeOK, Made
  <2> QED
    BY <1>1, <1>4, <2>1, SameRequests, IdleFacts, RequestStep DEF IInv, TypeOK, Finalizing
<1> QED
  BY <1>5, <1>6 DEF AdvanceWatermark

LEMMA RecordStep ==
    ASSUME IInv, NEW h \in Handlers, Record(h)
    PROVE  IInv'
<1> DEFINE r == handler[h].request
<1>1. PICK t \in {"submitted", "failed"} :
         request' = IF request[r].status # "submitting" THEN request
                    ELSE [request EXCEPT ![r].status = t]
  BY DEF Record
<1>2. UNCHANGED <<signerSet, watermark, late, overlapped, sent, landed, consumed>>
  BY DEF Record, worldVars
<1>3. r \in Made /\ Moves(h, Idle)
  BY ReturnFacts DEF Record, At, IInv, RequestsOK, RequesterOK, OnRequest, Finalizing, TypeOK
<1>4. CASE request[r].status = "submitting"
  BY <1>1, <1>2, <1>3, <1>4, StatusStep DEF Open, Over, Claimed
<1>5. CASE request[r].status # "submitting"
  <2>1. request' = request /\ Made' = Made
    BY <1>1, <1>5 DEF Made
  <2> QED
    BY <1>2, <1>3, <2>1, SameRequests, IdleFacts, RequestStep DEF IInv, TypeOK, Finalizing
<1> QED
  BY <1>4, <1>5

LEMMA QueryFailsStep ==
    ASSUME IInv, NEW h \in Handlers, QueryFails(h)
    PROVE  IInv'
<1>1. /\ handler[h].pc \in Finalizing /\ Goto(h, "fail")
      /\ UNCHANGED <<request, signerSet, watermark, late, overlapped, sent, landed, consumed>>
  BY DEF QueryFails, Finalizing, docVars, worldVars
<1>2. watermark' \in 0..MaxSequence
  BY <1>1 DEF IInv, TypeOK
<1> QED
  BY <1>1, <1>2, FinalizingStep

LEMMA StopStep ==
    ASSUME IInv, NEW h \in Handlers, Stop(h)
    PROVE  IInv'
<1>1. UNCHANGED <<request, signerSet, watermark, late, overlapped, sent, landed, consumed>>
  BY DEF Stop, docVars, worldVars
<1>2. Moves(h, Idle) /\ Made' = Made
  BY <1>1, ReturnFacts DEF Stop, IInv, TypeOK, Made
<1> QED
  BY <1>1, <1>2, SameRequests, IdleFacts, RequestStep DEF IInv, TypeOK, Finalizing

LEMMA ReconcileStep ==
    ASSUME IInv, NEW h \in Handlers, NEW r \in Requests, Reconcile(h, r)
    PROVE  IInv'
<1>1. /\ r \in Made /\ request[r].status = "submitting"
      /\ UNCHANGED <<signerSet, watermark, late, overlapped, sent, landed, consumed>>
  BY DEF Reconcile, worldVars
<1>2. CASE /\ request' = [request EXCEPT ![r].status = "submitted"]
           /\ handler' = [handler EXCEPT ![h] = [Idle EXCEPT !.pc = "watermark", !.request = r]]
  <2>1. PICK k : /\ handler' = [handler EXCEPT ![h] = k]
                 /\ k = [Idle EXCEPT !.pc = "watermark", !.request = r]
    BY <1>2
  <2>2. k \in HandlerState /\ k.pc = "watermark" /\ k.request = r
    BY <2>1 DEF Idle, HandlerState
  <2>3. Moves(h, k)
    BY <2>1, <2>2, MoveFacts DEF IInv, TypeOK
  <2>4. Made' = Made /\ RequestsAge /\ \A q \in Made : request'[q] \in RequestDoc
    BY <1>1, <1>2, StatusFacts DEF IInv, Open, Over, Claimed
  <2>5. RequesterOK(k)' /\ k.pc \in OnRequest /\ k.pc \notin Finalizing
    BY <1>1, <2>2, <2>4 DEF RequesterOK, OnRequest, Finalizing
  <2> QED
    BY <1>1, <2>3, <2>4, <2>5, RequestStep DEF IInv, TypeOK
<1>3. CASE request' = [request EXCEPT ![r].status = "failed"] /\ handler' = handler
  <2>1. PICK i : i \notin Handlers /\ Moves(i, Idle)
    BY <1>3, StayFacts DEF IInv, TypeOK
  <2> QED
    BY <1>1, <1>3, <2>1, StatusStep DEF Open, Over, Claimed
<1> QED
  BY <1>2, <1>3 DEF Reconcile

LEMMA ExpireStaleStep ==
    ASSUME IInv, ExpireStale
    PROVE  IInv'
<1>1. UNCHANGED <<signerSet, watermark, handler, late, overlapped, sent, landed, consumed>>
  BY DEF ExpireStale, worldVars
<1>2. Made' = Made
  BY DEF ExpireStale, Made
<1>3. ASSUME NEW r \in Made
      PROVE  /\ request'[r] \in RequestDoc /\ request'[r].version = request[r].version
             /\ request[r].status \in Claimed \cup Over => request'[r] = request[r]
  <2>1. PICK d : d = [request[r] EXCEPT !.status = "expired"]
    OBVIOUS
  <2>2. request[r] \in RequestDoc
    BY DEF IInv, TypeOK
  <2>3. d \in RequestDoc /\ d.version = request[r].version
    BY <2>1, <2>2, DocFacts DEF RequestDoc, Over
  <2>4. request'[r] = IF r \in late /\ request[r].status \in {"pending", "quorum_reached"}
                      THEN d ELSE request[r]
    BY <2>1 DEF ExpireStale
  <2> QED
    BY <2>2, <2>3, <2>4 DEF Claimed, Over
<1>4. RequestsAge
  BY <1>2, <1>3 DEF RequestsAge
<1>5. PICK i : i \notin Handlers /\ Moves(i, Idle)
  BY <1>1, StayFacts DEF IInv, TypeOK
<1> QED
  BY <1>1, <1>2, <1>3, <1>4, <1>5, IdleFacts, RequestStep DEF IInv, TypeOK, Finalizing

LEMMA LedgerStep ==
    ASSUME IInv, NEW r, Land(r) \/ TooLate(r) \/ ConsumeElsewhere
    PROVE  IInv'
<1>1. /\ UNCHANGED <<request, signerSet, watermark, handler, overlapped, sent>>
      /\ Made' = Made /\ \A q \in Made : request'[q] \in RequestDoc
  BY DEF Land, TooLate, ConsumeElsewhere, docVars, Made, IInv, TypeOK
<1>2. late' \subseteq Made /\ landed' \subseteq Made /\ landed' \subseteq landed \cup sent
  BY DEF Land, CanLand, TooLate, ConsumeElsewhere, IInv, TypeOK
<1>3. consumed' \in 0..MaxSequence
  <2>1. CASE Land(r)
    <3>1. r \in Made /\ consumed < request[r].sequence /\ consumed' = consumed + 1
      BY <2>1 DEF Land, CanLand, IInv, TypeOK
    <3>2. request[r].sequence \in 1..MaxSequence
      BY <3>1, DocFacts DEF IInv, TypeOK, Sequence
    <3> QED
      BY <3>1, <3>2, CustodyAssumption DEF IInv, TypeOK
  <2>2. CASE TooLate(r) \/ ConsumeElsewhere
    BY <2>2, CustodyAssumption DEF TooLate, ConsumeElsewhere, IInv, TypeOK
  <2> QED
    BY <2>1, <2>2
<1>4. PICK i : i \notin Handlers /\ Moves(i, Idle)
  BY <1>1, StayFacts DEF IInv, TypeOK
<1> QED
  BY <1>1, <1>2, <1>3, <1>4, SameRequests, IdleFacts, RequestStep DEF IInv, TypeOK, Finalizing

\* A request is never pinned to a version that may be retired already.
LEMMA InsertRequestStep ==
    ASSUME IInv, NEW h \in Handlers, InsertRequest(h)
    PROVE  IInv'
<1> DEFINE r == handler[h].request
           v == handler[h].version
<1>1. UNCHANGED <<signerSet, watermark, late, overlapped, sent, landed, consumed>>
  BY DEF InsertRequest, worldVars
<1>2. Moves(h, Idle)
  BY ReturnFacts DEF InsertRequest, IInv, TypeOK
<1>3. CASE request' = request
  <2>1. Made' = Made
    BY <1>3 DEF Made
  <2> QED
    BY <1>1, <1>2, <1>3, <2>1, SameRequests, IdleFacts, RequestStep DEF IInv, TypeOK, Finalizing
<1>4. CASE request' # request
  <2>1. /\ handler[h].pc = "insert" /\ r \in Requests /\ v \in Versions
        /\ handler[h].sequence \in Sequence
    BY DEF InsertRequest, At, IInv, RequestsOK, RequesterOK
  <2>2. PICK d : d = [status |-> "pending", sequence |-> handler[h].sequence, version |-> v,
                      approvals |-> <<>>]
    OBVIOUS
  <2>3. r \notin Made
    BY <1>4 DEF InsertRequest
  <2>4. request' = [q \in Made \cup {r} |-> IF q \in Made THEN request[q] ELSE d]
    BY <1>4, <2>2 DEF InsertRequest
  <2>5. /\ Made' = Made \cup {r} /\ \A q \in Made : request'[q] = request[q]
        /\ request'[r] = d
    BY <2>3, <2>4 DEF Made
  <2>6. d \in RequestDoc /\ d.status = "pending" /\ d.version = v
    BY <2>1, <2>2 DEF RequestDoc, Open
  <2>7. TypeOK'
    BY <1>1, <1>2, <2>1, <2>5, <2>6 DEF IInv, TypeOK, Moves, Exists
  <2>8. RequestsAge
    BY <2>5 DEF RequestsAge
  <2>9. RequestsOK'
    BY <1>1, <1>2, <2>8, IdleFacts, RequestsKept DEF IInv, Finalizing
  <2>10. SetsOK' /\ RotatorsOK'
    BY <1>1, <1>2, IdleFacts, SetsKept, RotatorsKept, SameSets DEF IInv
  <2>11. Exists' = Exists /\ Exists \subseteq Versions
    BY <1>1 DEF Exists, IInv, TypeOK
  <2>12. v \in overlapped => signerSet[v].status \notin Replaced
    BY <2>1 DEF IInv, PinnedOK, PinnerOK
  <2>13. ASSUME NEW g \in Handlers PROVE PinnerOK(handler[g])'
    <3>1. CASE g = h
      BY <1>2, <3>1, IdleFacts DEF Moves
    <3>2. CASE g # h
      <4>1. handler'[g] = handler[g] /\ PinnerOK(handler[g]) /\ RotatorOK(handler[g])
        BY <1>2, <3>2 DEF Moves, IInv, PinnedOK, RotatorsOK
      <4>2. handler[g].pc = "retire" /\ signerSet[handler[g].version].status = "retiring"
               => handler[g].version # v
        BY <2>12, <4>1 DEF RotatorOK, Replaced
      <4> QED
        BY <1>1, <2>5, <2>6, <4>1, <4>2 DEF PinnerOK
    <3> QED
      BY <3>1, <3>2
  <2>14. RetiredBacksNothing'
    <3>1. ~ HasStatus(v, {"retired"})
      BY <2>12 DEF HasStatus, Replaced, IInv, SetsOK
    <3>2. \A u : HasStatus(u, {"retired"})' => HasStatus(u, {"retired"})
      BY <1>1 DEF HasStatus, Exists
    <3> QED
      BY <2>5, <2>6, <3>1, <3>2 DEF IInv, PinnedOK, RetiredBacksNothing
  <2> QED
    BY <2>7, <2>9, <2>10, <2>13, <2>14 DEF IInv, PinnedOK
<1> QED
  BY <1>3, <1>4

-----------------------------------------------------------------------------
\* The steps of the signer sets.

LEMMA SameStatusStep ==
    ASSUME IInv, request' = request, watermark' = watermark, UNCHANGED worldVars,
           SameStatuses, Exists' \subseteq Versions, \A v \in Exists' : signerSet'[v] \in SignerSetDoc,
           NEW h, NEW k, Moves(h, k), k.pc \in OnSet \cup {"create", "idle"},
           RotatorOK(k)', PinnerOK(k)',
           \A g \in Handlers : g # h => Alone(handler[g], k) /\ Alone(k, handler[g])
    PROVE  IInv'
<1>1. Exists \subseteq Exists' /\ \A v \in Exists' \ Exists : signerSet'[v].status = "pending"
  BY DEF SameStatuses
<1>2. TypeOK' /\ RequestsOK' /\ Made' = Made /\ RequestsAge
  BY <1>1, RotationStep
<1>3. overlapped' = overlapped
  BY DEF worldVars
<1>4. SetsOK'
  BY <1>3, SetsKept DEF IInv
<1>5. RotatorsOK'
  BY <1>3, RotatorsKept DEF IInv
<1>6. \A v \in Exists : signerSet'[v].status = signerSet[v].status
  BY DEF SameStatuses
<1>7. PinnedOK'
  BY <1>1, <1>2, <1>3, <1>6, PinnedKept DEF IInv
<1> QED
  BY <1>2, <1>4, <1>5, <1>7 DEF IInv

\* A call that only starts on a version.
LEMMA TakeStep ==
    ASSUME IInv, UNCHANGED <<docVars, worldVars>>, NEW h, NEW k, Moves(h, k),
           k.pc \in OnSet \cup {"create"}, RotatorOK(k)', PinnerOK(k)',
           \A g \in Handlers : g # h => Alone(handler[g], k) /\ Alone(k, handler[g])
    PROVE  IInv'
<1>1. request' = request /\ watermark' = watermark /\ signerSet' = signerSet
  BY DEF docVars
<1>2. UNCHANGED worldVars
  OBVIOUS
<1>3. Exists' \subseteq Versions /\ \A v \in Exists' : signerSet'[v] \in SignerSetDoc
  BY <1>1 DEF Exists, IInv, TypeOK
<1> QED
  BY <1>1, <1>2, <1>3, SameStatusStep, SameSets

LEMMA TakeFacts ==
    ASSUME handler \in [Handlers -> HandlerState], NEW h \in Handlers, NEW v \in Versions,
           NEW pc \in {"activate", "retire"}, Take(h, v, pc)
    PROVE  \E k : Moves(h, k) /\ k.pc = pc /\ k.version = v
<1>1. PICK k : handler' = [handler EXCEPT ![h] = k] /\ k = [Idle EXCEPT !.pc = pc, !.version = v]
  BY DEF Take
<1>2. k \in HandlerState /\ k.pc = pc /\ k.version = v
  BY <1>1 DEF Idle, HandlerState
<1> QED
  BY <1>1, <1>2, MoveFacts

LEMMA ProposeStep ==
    ASSUME IInv, NEW h \in Handlers, Propose(h)
    PROVE  IInv'
<1>1. PICK v \in Exists \cup {0} :
         /\ v < MaxVersion
         /\ handler' = [handler EXCEPT ![h] = [Idle EXCEPT !.pc = "create", !.version = v + 1]]
  BY DEF Propose
<1>2. v + 1 \in Versions
  BY <1>1, CustodyAssumption DEF IInv, TypeOK, Versions
<1>3. PICK k : /\ handler' = [handler EXCEPT ![h] = k]
               /\ k = [Idle EXCEPT !.pc = "create", !.version = v + 1]
  BY <1>1
<1>4. k \in HandlerState /\ k.pc = "create" /\ k.version = v + 1
  BY <1>2, <1>3 DEF Idle, HandlerState
<1>5. Moves(h, k)
  BY <1>3, <1>4, MoveFacts DEF IInv, TypeOK
<1>6. RotatorOK(k)' /\ PinnerOK(k)' /\ \A c : Alone(c, k) /\ Alone(k, c)
  BY <1>2, <1>4 DEF RotatorOK, PinnerOK, Alone, OnSet, Undone
<1>7. UNCHANGED <<docVars, worldVars>>
  BY DEF Propose
<1> QED
  BY <1>4, <1>5, <1>6, <1>7, TakeStep

LEMMA CreateSetStep ==
    ASSUME IInv, NEW h \in Handlers, CreateSet(h)
    PROVE  IInv'
<1> DEFINE n == handler[h].version
<1>1. n \in Versions
  BY DEF CreateSet, At, IInv, RotatorsOK, RotatorOK
<1>2. PICK d : d = [status |-> "pending", previous |-> n - 1, approvals |-> <<>>]
  OBVIOUS
<1>3. signerSet' = [v \in Exists \cup {n} |-> IF v \in Exists THEN signerSet[v] ELSE d]
  BY <1>2 DEF CreateSet
<1>4. n - 1 \in Versions \cup {0}
  BY <1>1, CustodyAssumption DEF Versions
<1>5. d \in SignerSetDoc /\ d.status = "pending" /\ d.previous = n - 1
  BY <1>2, <1>4 DEF SignerSetDoc
<1>6. /\ Exists' = Exists \cup {n}
      /\ \A v \in Exists' : signerSet'[v] = IF v \in Exists THEN signerSet[v] ELSE d
  BY <1>3 DEF Exists
<1>7. SameStatuses
  BY <1>5, <1>6 DEF SameStatuses
<1>8. Exists' \subseteq Versions /\ \A v \in Exists' : signerSet'[v] \in SignerSetDoc
  BY <1>1, <1>5, <1>6 DEF IInv, TypeOK
<1>9. Moves(h, Idle)
  BY ReturnFacts DEF CreateSet, IInv, TypeOK
<1>10. request' = request /\ watermark' = watermark /\ UNCHANGED worldVars
  BY DEF CreateSet
<1> QED
  BY <1>7, <1>8, <1>9, <1>10, IdleFacts, SameStatusStep

LEMMA GovernStep ==
    ASSUME IInv, NEW h \in Handlers, NEW v \in Exists, NEW g \in Governors, NEW t \in QuorumType,
           Govern(h, v, g, t)
    PROVE  IInv'
<1>1. PICK k : /\ handler' = [handler EXCEPT ![h] = k]
               /\ k = [Idle EXCEPT !.pc = "govern", !.version = v, !.by = g, !.type = t]
  BY DEF Govern
<1>2. v \in Versions
  BY DEF IInv, TypeOK
<1>3. k \in HandlerState /\ k.pc = "govern" /\ k.version = v /\ k.by = g /\ k.type = t
  BY <1>1, <1>2 DEF Idle, HandlerState
<1>4. Moves(h, k)
  BY <1>1, <1>3, MoveFacts DEF IInv, TypeOK
<1>5. UNCHANGED <<docVars, worldVars>>
  BY DEF Govern
<1>6. Exists' = Exists
  BY <1>5 DEF Exists, docVars
<1>7. RotatorOK(k)' /\ PinnerOK(k)' /\ \A c : Alone(c, k) /\ Alone(k, c)
  BY <1>3, <1>6 DEF RotatorOK, PinnerOK, Alone, OnSet, Undone
<1> QED
  BY <1>3, <1>4, <1>5, <1>7, TakeStep DEF OnSet

LEMMA PushGovernStep ==
    ASSUME IInv, NEW h \in Handlers, PushGovern(h)
    PROVE  IInv'
<1> DEFINE v == handler[h].version
<1>1. /\ v \in Exists /\ handler[h].by \in Governors /\ handler[h].type \in QuorumType
  BY DEF PushGovern, At, IInv, RotatorsOK, RotatorOK, OnSet
<1>2. Moves(h, Idle)
  BY ReturnFacts DEF PushGovern, IInv, TypeOK
<1>3. request' = request /\ watermark' = watermark /\ UNCHANGED worldVars
  BY DEF PushGovern
<1>4. SameStatuses /\ Exists' = Exists /\ \A u \in Exists : signerSet'[u] \in SignerSetDoc
  <2>1. CASE signerSet[v].status # "pending"
    BY <2>1, SameSets DEF PushGovern, Exists, IInv, TypeOK
  <2>2. CASE signerSet[v].status = "pending"
    <3>1. PICK a : a = Append(signerSet[v].approvals, [by |-> handler[h].by, type |-> handler[h].type])
      OBVIOUS
    <3>2. PICK d : d = [signerSet[v] EXCEPT !.approvals = a]
      OBVIOUS
    <3>3. signerSet[v] \in SignerSetDoc
      BY <1>1 DEF IInv, TypeOK
    <3>4. a \in Seq([by : Governors, type : QuorumType])
      BY <1>1, <3>1, <3>3, AppendProperties DEF SignerSetDoc
    <3>5. d \in SignerSetDoc /\ d.status = signerSet[v].status /\ d.previous = signerSet[v].previous
      BY <3>2, <3>3, <3>4 DEF SignerSetDoc
    <3>6. Exists' = Exists /\ \A u \in Exists : signerSet'[u] = IF u = v THEN d ELSE signerSet[u]
      BY <2>2, <3>1, <3>2 DEF PushGovern, Exists
    <3> QED
      BY <3>5, <3>6 DEF SameStatuses, IInv, TypeOK
  <2> QED
    BY <2>1, <2>2
<1> QED
  BY <1>2, <1>3, <1>4, IdleFacts, SameStatusStep DEF IInv, TypeOK

LEMMA ActivateStep ==
    ASSUME IInv, NEW h \in Handlers, NEW v \in Exists, Activate(h, v)
    PROVE  IInv'
<1>1. PICK k : Moves(h, k) /\ k.pc = "activate" /\ k.version = v
  BY TakeFacts DEF Activate, IInv, TypeOK
<1>2. UNCHANGED <<docVars, worldVars>> /\ Exists' = Exists
  BY DEF Activate, docVars, Exists
<1>3. RotatorOK(k)' /\ PinnerOK(k)' /\ \A c : Alone(c, k) /\ Alone(k, c)
  BY <1>1, <1>2 DEF RotatorOK, PinnerOK, Alone, OnSet, Undone
<1> QED
  BY <1>1, <1>2, <1>3, TakeStep DEF OnSet

LEMMA RetireStep ==
    ASSUME IInv, NEW h \in Handlers, NEW v \in Exists, Retire(h, v)
    PROVE  IInv'
<1>1. PICK k : Moves(h, k) /\ k.pc = "retire" /\ k.version = v
  BY TakeFacts DEF Retire, IInv, TypeOK
<1>2. /\ UNCHANGED <<docVars, worldVars>> /\ Exists' = Exists /\ v \in overlapped
      /\ \A r \in Made : request[r].version = v => request[r].status \notin Open
  BY DEF Retire, docVars, Exists
<1>3. \A r \in Made : request[r].version = v => request[r].status \in Over
  BY <1>2, DocFacts DEF IInv, TypeOK
<1>4. request' = request /\ overlapped' = overlapped /\ Made' = Made
  BY <1>2 DEF docVars, worldVars, Made
<1>5. RotatorOK(k)' /\ \A c : Alone(c, k) /\ Alone(k, c)
  BY <1>1, <1>2, <1>4 DEF RotatorOK, Alone, OnSet, Undone
<1>6. PinnerOK(k)'
  BY <1>1, <1>3, <1>4 DEF PinnerOK
<1> QED
  BY <1>1, <1>2, <1>5, <1>6, TakeStep DEF OnSet

LEMMA RollbackStep ==
    ASSUME IInv, NEW h \in Handlers, NEW v \in Exists, Rollback(h, v)
    PROVE  IInv'
<1>1. /\ signerSet[v].status \in {"pending", "active"}
      /\ UNCHANGED <<docVars, worldVars>>
  BY DEF Rollback, HasStatus
<1>2. PICK pc \in Undone :
         /\ pc = "reactivate" <=> signerSet[v].status = "active" /\ signerSet[v].previous # 0
         /\ handler' = [handler EXCEPT ![h] = [Idle EXCEPT !.pc = pc, !.version = v,
                                                          !.status = signerSet[v].status]]
  BY DEF Rollback, Undone
<1>3. PICK k : /\ handler' = [handler EXCEPT ![h] = k]
               /\ k = [Idle EXCEPT !.pc = pc, !.version = v, !.status = signerSet[v].status]
  BY <1>2
<1>4. v \in Versions /\ v \in Int
  BY DEF IInv, TypeOK, Versions
<1>5. k \in HandlerState /\ k.pc = pc /\ k.version = v /\ k.status = signerSet[v].status
  BY <1>1, <1>3, <1>4 DEF Idle, HandlerState, Undone
<1>6. Moves(h, k)
  BY <1>3, <1>5, MoveFacts DEF IInv, TypeOK
<1>7. signerSet' = signerSet /\ Exists' = Exists
  BY <1>1 DEF docVars, Exists
<1>8. k.pc = "undo" /\ k.status = "active" => v = 1 /\ v - 1 \notin Exists
  BY <1>2, <1>4, <1>5 DEF IInv, SetsOK, TypeOK, Undone, Versions
<1>9. RotatorOK(k)' /\ PinnerOK(k)'
  BY <1>1, <1>2, <1>5, <1>7, <1>8 DEF RotatorOK, PinnerOK, OnSet, Undone
<1>10. \A c : Alone(k, c)
  BY <1>5 DEF Alone, Undone
<1>11. ASSUME NEW g \in Handlers PROVE Alone(handler[g], k)
  <2> SUFFICES ASSUME handler[g].pc = "replace", handler[g].version = v,
                      k.pc = "undo", k.status = "active"
               PROVE  FALSE
    BY <1>5 DEF Alone, Undone
  <2> QED
    BY <1>5, <1>8 DEF IInv, RotatorsOK, RotatorOK
<1> QED
  BY <1>1, <1>5, <1>6, <1>9, <1>10, <1>11, TakeStep DEF OnSet

\* A step that gives version v the status s, if the sets, the calls and the requests
\* pinned to v bear it.
LEMMA RestatusStep ==
    ASSUME IInv, request' = request, watermark' = watermark, UNCHANGED worldVars,
           NEW v \in Exists, NEW s \in {"active", "retiring"} \cup Gone,
           signerSet' = WithStatus(v, s), SetsOK',
           NEW h \in Handlers, NEW k, Moves(h, k), k.pc \in {"idle", "replace", "undo"},
           RotatorOK(k)',
           \A g \in Handlers : g # h => Alone(handler[g], k) /\ Alone(k, handler[g]),
           \A g \in Handlers : g # h /\ handler[g].pc = "replace" /\ handler[g].version = v
                                  => s \in {"active"} \cup Replaced,
           s = "retiring" =>
              /\ v \notin overlapped
              /\ \A g \in Handlers : g # h /\ handler[g].version = v + 1
                    => /\ handler[g].pc # "replace"
                       /\ ~ (handler[g].pc = "undo" /\ handler[g].status = "active"),
           s = "retired" =>
              /\ signerSet[v].status = "retiring"
              /\ \A r \in Made : request[r].version = v => request[r].status \in Over
    PROVE  IInv'
<1>1. Restatus(v, s) /\ Exists' = Exists /\ \A u \in Exists : signerSet'[u] \in SignerSetDoc
  BY RestatusFacts DEF Restatus, IInv, TypeOK
<1>2. overlapped' = overlapped
  BY DEF worldVars
<1>3. TypeOK' /\ RequestsOK' /\ Made' = Made /\ RequestsAge
  BY <1>1, RotationStep DEF IInv, TypeOK, OnSet, Undone
<1>4. s # "pending"
  BY DEF Gone
<1>5. s \in Replaced /\ signerSet[v].status \notin Replaced => s = "retiring"
  BY DEF Replaced
<1>6. RotatorsOK'
  BY <1>1, <1>2, <1>4, <1>5, RotatorsRestatus DEF IInv
<1>7. PinnerOK(k)'
  BY DEF PinnerOK
<1>8. \A u \in Exists : /\ signerSet'[u].status \in Replaced
                              => signerSet[u].status \in Replaced \/ u \notin overlapped
                        /\ signerSet'[u].status = "retiring"
                              => signerSet[u].status = "retiring" \/ u \notin overlapped
                        /\ signerSet'[u].status = "retired" => \/ signerSet[u].status = "retired"
                              \/ \A r \in Made : request[r].version = u => request[r].status \in Over
  BY <1>1 DEF Restatus, Replaced
<1>9. PinnedOK'
  BY <1>1, <1>2, <1>3, <1>7, <1>8, PinnedKept DEF IInv
<1> QED
  BY <1>3, <1>6, <1>9 DEF IInv

\* A step of the signer sets that ends its call and writes nothing.
LEMMA NothingDoneStep ==
    ASSUME IInv, UNCHANGED <<docVars, worldVars>>, NEW h \in Handlers, Return(h)
    PROVE  IInv'
<1>1. Moves(h, Idle)
  BY ReturnFacts DEF IInv, TypeOK
<1>2. request' = request /\ watermark' = watermark /\ signerSet' = signerSet
  BY DEF docVars
<1>3. Exists' \subseteq Versions /\ \A v \in Exists' : signerSet'[v] \in SignerSetDoc
  BY <1>2 DEF Exists, IInv, TypeOK
<1> QED
  BY <1>1, <1>2, <1>3, IdleFacts, SameSets, SameStatusStep

\* What lies above a version that was replaced.
LEMMA AboveReplaced ==
    ASSUME TypeOK, SetsOK, NEW v \in Exists, signerSet[v].status \in Replaced
    PROVE  /\ v \in Int /\ v + 1 \in Exists
           /\ signerSet[v + 1].status \in {"active"} \cup Replaced
<1>1. Exists \subseteq Int
  BY DEF TypeOK, Versions
<1>2. PICK u \in Exists : /\ v < u /\ signerSet[u].status = "active"
                          /\ \A i \in v..u - 1 : i \in Exists /\ signerSet[i].status \in Replaced
  BY DEF SetsOK
<1>3. u = v + 1 \/ v + 1 \in v..u - 1
  BY <1>1, <1>2
<1> QED
  BY <1>1, <1>2, <1>3

\* The sets bear a new status of v if what lies above a replaced version stays right.
AboveOK ==
    \A v \in Exists : signerSet[v].status \in Replaced =>
       \E u \in Exists : /\ v < u /\ signerSet[u].status = "active"
                         /\ \A i \in v..u - 1 : i \in Exists /\ signerSet[i].status \in Replaced

LEMMA SetsRestatus ==
    ASSUME TypeOK, SetsOK, UNCHANGED worldVars, NEW v \in Exists,
           NEW s \in {"active", "retiring"} \cup Gone, signerSet' = WithStatus(v, s),
           s = "retired" => v \in overlapped, AboveOK'
    PROVE  SetsOK'
<1>1. Restatus(v, s) /\ s # "pending"
  BY RestatusFacts DEF TypeOK, Gone
<1>2. Exists' = Exists /\ overlapped' = overlapped
  BY <1>1 DEF Restatus, worldVars
<1>3. 1 \in Exists /\ signerSet'[1].status # "pending"
  BY <1>1 DEF Restatus, SetsOK
<1>4. \A w \in Exists : signerSet'[w].previous = w - 1
  BY <1>1 DEF Restatus, SetsOK
<1>5. \A w \in overlapped : w + 1 \in Exists /\ signerSet'[w + 1].status # "pending"
  BY <1>1 DEF Restatus, SetsOK
<1>6. \A w \in Exists : signerSet'[w].status = "retired" => w \in overlapped
  BY <1>1 DEF Restatus, SetsOK
<1> QED
  BY <1>2, <1>3, <1>4, <1>5, <1>6 DEF SetsOK, AboveOK

\* A call that works on a version has found it.
LEMMA OnSetFacts ==
    ASSUME IInv, NEW h \in Handlers, handler[h].pc \in OnSet
    PROVE  /\ handler[h].version \in Exists /\ handler[h].version \in Int
           /\ signerSet[handler[h].version].previous = handler[h].version - 1
<1>1. handler[h].version \in Exists
  BY DEF IInv, RotatorsOK, RotatorOK
<1>2. Exists \subseteq Int
  BY DEF IInv, TypeOK, Versions
<1> QED
  BY <1>1, <1>2 DEF IInv, SetsOK

LEMMA ActivateSetStep ==
    ASSUME IInv, NEW h \in Handlers, ActivateSet(h)
    PROVE  IInv'
<1> DEFINE v == handler[h].version
<1>1. v \in Exists /\ v \in Int /\ signerSet[v].previous = v - 1
  BY OnSetFacts DEF ActivateSet, At, OnSet
<1>2. request' = request /\ watermark' = watermark /\ UNCHANGED worldVars
  BY DEF ActivateSet
<1>3. CASE signerSet[v].status # "pending"
  BY <1>2, <1>3, NothingDoneStep DEF ActivateSet, docVars
<1>4. CASE signerSet[v].status = "pending"
  <2>1. signerSet' = WithStatus(v, "active")
    BY <1>4 DEF ActivateSet
  <2>2. Restatus(v, "active")
    BY <1>1, <2>1, RestatusFacts DEF IInv, TypeOK
  <2>3. v - 1 \notin overlapped
    BY <1>1, <1>4 DEF IInv, SetsOK
  <2>4. v - 1 \in Exists => signerSet[v - 1].status \notin Replaced
    <3> SUFFICES ASSUME NEW w \in Exists, w = v - 1, signerSet[w].status \in Replaced
                 PROVE  FALSE
      OBVIOUS
    <3>1. signerSet[w + 1].status \in {"active"} \cup Replaced /\ w + 1 = v
      BY <1>1, AboveReplaced DEF IInv
    <3> QED
      BY <1>4, <3>1 DEF Replaced
  <2>5. AboveOK'
    <3>1. /\ Exists' = Exists /\ signerSet'[v].status = "active"
          /\ \A w \in Exists : signerSet[w].status \in Replaced \cup {"active"}
                                  => signerSet'[w].status = signerSet[w].status
          /\ \A w \in Exists : signerSet'[w].status \in Replaced
                                  => signerSet[w].status \in Replaced
      BY <1>1, <1>4, <2>2 DEF Restatus, Replaced
    <3>2. ASSUME NEW w \in Exists, signerSet'[w].status \in Replaced
          PROVE  \E u \in Exists : /\ w < u /\ signerSet'[u].status = "active"
                      /\ \A i \in w..u - 1 : i \in Exists /\ signerSet'[i].status \in Replaced
      <4>1. PICK u \in Exists : /\ w < u /\ signerSet[u].status = "active"
                      /\ \A i \in w..u - 1 : i \in Exists /\ signerSet[i].status \in Replaced
        BY <3>1, <3>2 DEF IInv, SetsOK
      <4> QED
        BY <3>1, <4>1
    <3> QED
      BY <3>1, <3>2 DEF AboveOK
  <2>6. SetsOK'
    BY <1>1, <1>2, <2>1, <2>5, SetsRestatus DEF IInv
  <2>7. ASSUME NEW g \in Handlers, handler[g].version = v
        PROVE  /\ handler[g].pc # "replace"
               /\ ~ (handler[g].pc = "undo" /\ handler[g].status = "active")
    BY <1>4, <2>7 DEF IInv, RotatorsOK, RotatorOK, Replaced, Undone
  <2>8. CASE Return(h)
    <3>1. Moves(h, Idle)
      BY <2>8, ReturnFacts DEF IInv, TypeOK
    <3> QED
      BY <1>1, <1>2, <2>1, <2>6, <2>7, <3>1, IdleFacts, RestatusStep
  <2>9. CASE signerSet[v].previous # 0 /\ Goto(h, "replace")
    <3>1. PICK k : Moves(h, k) /\ k.pc = "replace" /\ k.version = v
      BY <2>9, GotoFacts DEF IInv, TypeOK
    <3>2. v # 1 /\ (v - 1 \in Exists => signerSet'[v - 1].status \notin Replaced)
      BY <1>1, <2>2, <2>4, <2>9 DEF Restatus
    <3>3. Exists' = Exists /\ overlapped' = overlapped /\ signerSet'[v].status = "active"
      BY <1>1, <1>2, <2>2 DEF Restatus, worldVars
    <3>4. RotatorOK(k)'
      BY <1>1, <2>3, <3>1, <3>2, <3>3 DEF RotatorOK, OnSet, Undone
    <3>5. \A g \in Handlers : Alone(handler[g], k) /\ Alone(k, handler[g])
      BY <2>7, <3>1 DEF Alone
    <3> QED
      BY <1>1, <1>2, <2>1, <2>6, <2>7, <3>1, <3>4, <3>5, RestatusStep
  <2> QED
    BY <1>4, <2>8, <2>9 DEF ActivateSet
<1> QED
  BY <1>3, <1>4

LEMMA ReplacePreviousStep ==
    ASSUME IInv, NEW h \in Handlers, ReplacePrevious(h)
    PROVE  IInv'
<1> DEFINE v == handler[h].version
<1>1. v \in Exists /\ v \in Int /\ signerSet[v].previous = v - 1
  BY OnSetFacts DEF ReplacePrevious, At, OnSet
<1>2. request' = request /\ watermark' = watermark /\ UNCHANGED worldVars /\ Return(h)
  BY DEF ReplacePrevious
<1>3. CASE ~ HasStatus(v - 1, {"active"})
  BY <1>1, <1>2, <1>3, NothingDoneStep DEF ReplacePrevious, docVars
<1>4. CASE HasStatus(v - 1, {"active"})
  <2>1. PICK w \in Exists : w = v - 1 /\ w + 1 = v /\ w < v /\ signerSet[w].status = "active"
    BY <1>1, <1>4 DEF HasStatus
  <2>2. signerSet' = WithStatus(w, "retiring")
    BY <1>1, <1>4, <2>1 DEF ReplacePrevious
  <2>3. /\ handler[h].pc = "replace" /\ w \notin overlapped
        /\ signerSet[v].status \in {"active"} \cup Replaced
    BY <2>1 DEF ReplacePrevious, At, IInv, RotatorsOK, RotatorOK
  <2>4. Restatus(w, "retiring")
    BY <2>2, RestatusFacts DEF IInv, TypeOK
  <2>5. AboveOK'
    <3>1. /\ Exists' = Exists /\ signerSet'[w].status = "retiring"
          /\ \A u \in Exists : u # w => signerSet'[u].status = signerSet[u].status
      BY <2>4 DEF Restatus
    <3>2. PICK t \in Exists :
             /\ w < t /\ signerSet'[t].status = "active"
             /\ \A i \in w..t - 1 : i \in Exists /\ signerSet'[i].status \in Replaced
      <4>1. CASE signerSet[v].status = "active"
        <5>1. signerSet'[v].status = "active" /\ w..v - 1 = {w}
          BY <1>1, <2>1, <3>1, <4>1
        <5> QED
          BY <1>1, <2>1, <3>1, <5>1 DEF Replaced
      <4>2. CASE signerSet[v].status \in Replaced
        <5>1. PICK t \in Exists : /\ v < t /\ signerSet[t].status = "active"
                       /\ \A i \in v..t - 1 : i \in Exists /\ signerSet[i].status \in Replaced
          BY <1>1, <4>2 DEF IInv, SetsOK
        <5>2. t \in Int /\ w \in Int
          BY DEF IInv, TypeOK, Versions
        <5>3. \A i \in w..t - 1 : i = w \/ (i # w /\ i \in v..t - 1)
          BY <1>1, <2>1, <5>2
        <5>4. w < t /\ t # w
          BY <1>1, <2>1, <5>1, <5>2
        <5> QED
          BY <2>1, <3>1, <5>1, <5>3, <5>4 DEF Replaced
      <4> QED
        BY <2>3, <4>1, <4>2
    <3>3. ASSUME NEW x \in Exists, signerSet'[x].status \in Replaced
          PROVE  \E u \in Exists : /\ x < u /\ signerSet'[u].status = "active"
                      /\ \A i \in x..u - 1 : i \in Exists /\ signerSet'[i].status \in Replaced
      <4>1. CASE x = w
        BY <3>2, <4>1
      <4>2. CASE x # w
        <5>1. PICK u \in Exists : /\ x < u /\ signerSet[u].status = "active"
                       /\ \A i \in x..u - 1 : i \in Exists /\ signerSet[i].status \in Replaced
          BY <3>1, <3>3, <4>2 DEF IInv, SetsOK
        <5>2. \A i \in x..u - 1 : i # w
          BY <2>1, <5>1 DEF Replaced
        <5>3. \A i \in x..u - 1 : i \in Exists /\ signerSet'[i].status \in Replaced
          BY <3>1, <5>1, <5>2
        <5>4. CASE u # w
          BY <3>1, <5>1, <5>3, <5>4
        <5>5. CASE u = w
          <6>1. x \in Int /\ w \in Int /\ t \in Int
            BY DEF IInv, TypeOK, Versions
          <6>2. \A i \in x..t - 1 : i \in x..u - 1 \/ i \in w..t - 1
            BY <5>5, <6>1
          <6>3. x < t
            BY <3>2, <5>1, <5>5, <6>1
          <6> QED
            BY <3>2, <5>3, <6>2, <6>3
        <5> QED
          BY <5>4, <5>5
      <4> QED
        BY <4>1, <4>2
    <3> QED
      BY <3>1, <3>3 DEF AboveOK
  <2>6. SetsOK'
    BY <1>2, <2>2, <2>5, SetsRestatus DEF IInv
  <2>7. ASSUME NEW g \in Handlers, g # h, handler[g].version = w + 1
        PROVE  /\ handler[g].pc # "replace"
               /\ ~ (handler[g].pc = "undo" /\ handler[g].status = "active")
    BY <2>1, <2>3, <2>7 DEF IInv, RotatorsOK, Alone
  <2>8. Moves(h, Idle)
    BY <1>2, ReturnFacts DEF IInv, TypeOK
  <2> QED
    BY <1>2, <2>2, <2>3, <2>6, <2>7, <2>8, IdleFacts, RestatusStep DEF Replaced
<1> QED
  BY <1>3, <1>4

LEMMA RetireSetStep ==
    ASSUME IInv, NEW h \in Handlers, RetireSet(h)
    PROVE  IInv'
<1> DEFINE v == handler[h].version
<1>1. v \in Exists
  BY OnSetFacts DEF RetireSet, At, OnSet
<1>2. request' = request /\ watermark' = watermark /\ UNCHANGED worldVars /\ Return(h)
  BY DEF RetireSet
<1>3. CASE ~ HasStatus(v, {"retiring"})
  BY <1>2, <1>3, NothingDoneStep DEF RetireSet, docVars
<1>4. CASE HasStatus(v, {"retiring"})
  <2>1. signerSet' = WithStatus(v, "retired") /\ signerSet[v].status = "retiring"
    BY <1>4 DEF RetireSet, HasStatus
  <2>2. /\ v \in overlapped
        /\ \A r \in Made : request[r].version = v => request[r].status \in Over
    BY <2>1 DEF RetireSet, At, IInv, RotatorsOK, RotatorOK, PinnedOK, PinnerOK
  <2>3. /\ Exists' = Exists
        /\ \A u \in Exists : /\ signerSet'[u].status \in Replaced <=> signerSet[u].status \in Replaced
                             /\ signerSet'[u].status = "active" <=> signerSet[u].status = "active"
    BY <1>1, <2>1, RestatusFacts DEF Restatus, Replaced, IInv, TypeOK, Gone
  <2>4. AboveOK'
    <3>1. AboveOK
      BY DEF IInv, SetsOK, AboveOK
    <3> QED
      BY <2>3, <3>1 DEF AboveOK
  <2>5. SetsOK'
    BY <1>1, <1>2, <2>1, <2>2, <2>4, SetsRestatus DEF IInv, Gone
  <2>6. Moves(h, Idle)
    BY <1>2, ReturnFacts DEF IInv, TypeOK
  <2> QED
    BY <1>1, <1>2, <2>1, <2>2, <2>5, <2>6, IdleFacts, RestatusStep DEF Replaced, Gone
<1> QED
  BY <1>3, <1>4

LEMMA ReactivateStep ==
    ASSUME IInv, NEW h \in Handlers, Reactivate(h)
    PROVE  IInv'
<1> DEFINE v == handler[h].version
<1>1. v \in Exists /\ v \in Int /\ signerSet[v].previous = v - 1
  BY OnSetFacts DEF Reactivate, At, OnSet, Undone
<1>2. request' = request /\ watermark' = watermark /\ UNCHANGED worldVars
  BY DEF Reactivate
<1>3. CASE ~ HasStatus(v - 1, {"retiring"})
  BY <1>1, <1>2, <1>3, NothingDoneStep DEF Reactivate, docVars
<1>4. CASE HasStatus(v - 1, {"retiring"})
  <2>1. PICK w \in Exists : w = v - 1 /\ w + 1 = v /\ signerSet[w].status = "retiring"
    BY <1>1, <1>4 DEF HasStatus
  <2>2. signerSet' = WithStatus(w, "active") /\ Goto(h, "undo")
    BY <1>1, <1>4, <2>1 DEF Reactivate
  <2>3. /\ Exists' = Exists /\ signerSet'[w].status = "active"
        /\ \A u \in Exists : u # w => signerSet'[u].status = signerSet[u].status
    BY <2>2, RestatusFacts DEF Restatus, IInv, TypeOK
  <2>4. AboveOK'
    <3>1. ASSUME NEW x \in Exists, signerSet'[x].status \in Replaced
          PROVE  \E u \in Exists : /\ x < u /\ signerSet'[u].status = "active"
                      /\ \A i \in x..u - 1 : i \in Exists /\ signerSet'[i].status \in Replaced
      <4>1. x # w
        BY <2>3, <3>1 DEF Replaced
      <4>2. PICK u \in Exists : /\ x < u /\ signerSet[u].status = "active"
                     /\ \A i \in x..u - 1 : i \in Exists /\ signerSet[i].status \in Replaced
        BY <2>3, <3>1, <4>1 DEF IInv, SetsOK
      <4>3. x \in Int /\ w \in Int /\ u \in Int
        BY DEF IInv, TypeOK, Versions
      <4>6. u # w
        BY <2>1, <4>2
      <4>4. CASE w \in x..u - 1
        <5>1. x < w /\ \A i \in x..w - 1 : i \in x..u - 1 /\ i # w
          BY <4>1, <4>3, <4>4
        <5>2. \A i \in x..w - 1 : i \in Exists /\ signerSet'[i].status \in Replaced
          BY <2>3, <4>2, <5>1
        <5> QED
          BY <2>3, <5>1, <5>2
      <4>5. CASE w \notin x..u - 1
        BY <2>3, <4>2, <4>5, <4>6
      <4> QED
        BY <4>4, <4>5
    <3> QED
      BY <2>3, <3>1 DEF AboveOK
  <2>5. SetsOK'
    BY <1>2, <2>2, <2>4, SetsRestatus DEF IInv
  <2>6. PICK k : Moves(h, k) /\ k.pc = "undo" /\ k.version = v /\ k.status = handler[h].status
    BY <2>2, GotoFacts DEF IInv, TypeOK
  <2>7. k.status = "active" /\ signerSet[v].status # "pending"
    BY <2>6 DEF Reactivate, At, IInv, RotatorsOK, RotatorOK, Undone
  <2>8. RotatorOK(k)'
    BY <1>1, <2>1, <2>3, <2>6, <2>7 DEF RotatorOK, OnSet, Undone, Replaced
  <2>9. ASSUME NEW g \in Handlers PROVE Alone(handler[g], k) /\ Alone(k, handler[g])
    <3>1. ~ (handler[g].pc = "replace" /\ handler[g].version = v)
      BY <2>1 DEF IInv, RotatorsOK, RotatorOK, Replaced
    <3> QED
      BY <2>6, <3>1 DEF Alone
  <2> QED
    BY <1>2, <2>2, <2>5, <2>6, <2>8, <2>9, RestatusStep
<1> QED
  BY <1>3, <1>4

LEMMA UndoSetStep ==
    ASSUME IInv, NEW h \in Handlers, UndoSet(h)
    PROVE  IInv'
<1> DEFINE v == handler[h].version
<1>1. v \in Exists /\ v \in Int
  BY OnSetFacts DEF UndoSet, At, OnSet, Undone
<1>2. request' = request /\ watermark' = watermark /\ UNCHANGED worldVars /\ Return(h)
  BY DEF UndoSet
<1>3. CASE signerSet[v].status # handler[h].status
  BY <1>2, <1>3, NothingDoneStep DEF UndoSet, docVars
<1>4. CASE signerSet[v].status = handler[h].status
  <2>1. signerSet' = WithStatus(v, "rolled_back")
    BY <1>4 DEF UndoSet
  <2>2. /\ handler[h].pc = "undo" /\ signerSet[v].status \in {"pending", "active"}
        /\ signerSet[v].status = "active" /\ v - 1 \in Exists
              => signerSet[v - 1].status \notin Replaced
    BY <1>4 DEF UndoSet, At, IInv, RotatorsOK, RotatorOK, Undone
  <2>3. /\ Exists' = Exists /\ signerSet'[v].status = "rolled_back"
        /\ \A u \in Exists : u # v => signerSet'[u].status = signerSet[u].status
    BY <1>1, <2>1, RestatusFacts DEF Restatus, IInv, TypeOK, Gone
  <2>4. AboveOK'
    <3>1. ASSUME NEW x \in Exists, signerSet'[x].status \in Replaced
          PROVE  \E u \in Exists : /\ x < u /\ signerSet'[u].status = "active"
                      /\ \A i \in x..u - 1 : i \in Exists /\ signerSet'[i].status \in Replaced
      <4>1. x # v
        BY <2>3, <3>1 DEF Replaced
      <4>2. PICK u \in Exists : /\ x < u /\ signerSet[u].status = "active"
                     /\ \A i \in x..u - 1 : i \in Exists /\ signerSet[i].status \in Replaced
        BY <2>3, <3>1, <4>1 DEF IInv, SetsOK
      <4>3. x \in Int /\ u \in Int
        BY DEF IInv, TypeOK, Versions
      <4>4. u - 1 \in x..u - 1
        BY <4>2, <4>3
      <4>5. u # v
        BY <2>2, <4>2, <4>4
      <4>6. \A i \in x..u - 1 : i # v
        BY <2>2, <4>2 DEF Replaced
      <4> QED
        BY <2>3, <4>2, <4>5, <4>6
    <3> QED
      BY <2>3, <3>1 DEF AboveOK
  <2>5. SetsOK'
    BY <1>1, <1>2, <2>1, <2>4, SetsRestatus DEF IInv, Gone
  <2>6. ASSUME NEW g \in Handlers, g # h, handler[g].version = v
        PROVE  handler[g].pc # "replace"
    <3>1. handler[g].pc = "replace" => /\ signerSet[v].status \in {"active"} \cup Replaced
                                       /\ handler[h].status # "active"
      BY <2>2, <2>6 DEF IInv, RotatorsOK, RotatorOK, Alone
    <3> QED
      BY <1>4, <2>2, <3>1 DEF Replaced
  <2>7. Moves(h, Idle)
    BY <1>2, ReturnFacts DEF IInv, TypeOK
  <2> QED
    BY <1>1, <1>2, <2>1, <2>5, <2>6, <2>7, IdleFacts, RestatusStep DEF Gone
<1> QED
  BY <1>3, <1>4

\* The window ends while no call is at work.
LEMMA OverlapEndsStep ==
    ASSUME IInv, NEW v \in Exists, OverlapEnds(v)
    PROVE  IInv'
<1>1. /\ signerSet[v].status = "retiring" /\ \A h \in Handlers : handler[h].pc = "idle"
      /\ overlapped' = overlapped \cup {v}
      /\ UNCHANGED <<request, signerSet, watermark, handler, late, sent, landed, consumed>>
  BY DEF OverlapEnds, HasStatus, At, docVars
<1>2. Made' = Made /\ Exists' = Exists
  BY <1>1 DEF Made, Exists
<1>3. TypeOK'
  BY <1>1, <1>2 DEF IInv, TypeOK
<1>4. RequestsOK'
  BY <1>1, <1>2 DEF IInv, RequestsOK, RequesterOK, OnRequest, Finalizing, Enough
<1>5. SetsOK'
  <2>1. v + 1 \in Exists /\ signerSet[v + 1].status # "pending"
    BY <1>1, AboveReplaced DEF IInv, Replaced
  <2>2. \A w \in overlapped' : w + 1 \in Exists /\ signerSet[w + 1].status # "pending"
    BY <1>1, <2>1 DEF IInv, SetsOK
  <2>3. \A w \in Exists : signerSet[w].status = "retired" => w \in overlapped'
    BY <1>1 DEF IInv, SetsOK
  <2> QED
    BY <1>1, <1>2, <2>2, <2>3 DEF IInv, SetsOK
<1>6. RotatorsOK'
  BY <1>1 DEF RotatorsOK, RotatorOK, Alone, OnSet, Undone
<1>7. PinnedOK'
  <2>1. RetiredBacksNothing'
    BY <1>1, <1>2 DEF IInv, PinnedOK, RetiredBacksNothing, HasStatus
  <2> QED
    BY <1>1, <2>1 DEF PinnedOK, PinnerOK
<1> QED
  BY <1>3, <1>4, <1>5, <1>6, <1>7 DEF IInv

-----------------------------------------------------------------------------
LEMMA InitInv == Init => IInv
<1> SUFFICES ASSUME Init PROVE IInv
  OBVIOUS
<1>1. Made = {}
  BY DEF Init, Made
<1>2. 1 \in Versions
  BY CustodyAssumption DEF Versions
<1>3. PICK d : /\ d = [status |-> "active", previous |-> 0, approvals |-> <<>>]
               /\ signerSet = [v \in {1} |-> d]
  BY DEF Init
<1>4. d \in SignerSetDoc /\ d.status = "active" /\ d.previous = 0
  BY <1>3 DEF SignerSetDoc
<1>5. Exists = {1} /\ signerSet[1] = d
  BY <1>3 DEF Exists
<1>6. handler \in [Handlers -> HandlerState] /\ \A h \in Handlers : handler[h].pc = "idle"
  BY IdleFacts DEF Init
<1>7. TypeOK
  BY <1>1, <1>2, <1>4, <1>5, <1>6, CustodyAssumption DEF Init, TypeOK
<1>8. RequestsOK
  BY <1>6 DEF Init, RequestsOK, RequesterOK, OnRequest, Finalizing
<1>9. SetsOK
  BY <1>4, <1>5 DEF Init, SetsOK, Replaced
<1>10. RotatorsOK
  BY <1>6 DEF RotatorsOK, RotatorOK, Alone, OnSet, Undone
<1>11. PinnedOK
  BY <1>1, <1>6 DEF PinnedOK, PinnerOK, RetiredBacksNothing
<1> QED
  BY <1>7, <1>8, <1>9, <1>10, <1>11 DEF IInv

LEMMA NextInv == IInv /\ [Next]_vars => IInv'
<1> SUFFICES ASSUME IInv, [Next]_vars PROVE IInv'
  OBVIOUS
<1>1. ASSUME NEW h \in Handlers, RequestNext(h) PROVE IInv'
  <2>1. ASSUME NEW r \in Requests, NEW n \in Sequence, RequestApproval(h, r, n) PROVE IInv'
    BY <2>1, RequestApprovalStep
  <2>2. ASSUME NEW r \in Requests, NEW s \in Signers, Approve(h, r, s) PROVE IInv'
    BY <2>2, ApproveStep
  <2>3. ASSUME NEW r \in Requests, Claim(h, r) \/ Reconcile(h, r) PROVE IInv'
    BY <2>3, ClaimStep, ReconcileStep
  <2>4. CASE InsertRequest(h) \/ PushApproval(h) \/ Promote(h) \/ Check(h) \/ Submit(h)
    BY <2>4, InsertRequestStep, PushApprovalStep, PromoteStep, CheckStep, SubmitStep
  <2>5. CASE Answered(h) \/ AdvanceWatermark(h) \/ Record(h) \/ QueryFails(h) \/ Stop(h)
    BY <2>5, AnsweredStep, AdvanceWatermarkStep, RecordStep, QueryFailsStep, StopStep
  <2> QED
    BY <1>1, <2>1, <2>2, <2>3, <2>4, <2>5 DEF RequestNext
<1>2. ASSUME NEW h \in Handlers, RotationNext(h) PROVE IInv'
  <2>1. CASE Propose(h) \/ CreateSet(h) \/ PushGovern(h) \/ ActivateSet(h) \/ ReplacePrevious(h)
    BY <2>1, ProposeStep, CreateSetStep, PushGovernStep, ActivateSetStep, ReplacePreviousStep
  <2>2. CASE RetireSet(h) \/ Reactivate(h) \/ UndoSet(h)
    BY <2>2, RetireSetStep, ReactivateStep, UndoSetStep
  <2>3. ASSUME NEW v \in Exists, Activate(h, v) \/ Retire(h, v) \/ Rollback(h, v) PROVE IInv'
    BY <2>3, ActivateStep, RetireStep, RollbackStep
  <2>4. ASSUME NEW v \in Exists, NEW g \in Governors, NEW t \in QuorumType, Govern(h, v, g, t)
        PROVE  IInv'
    BY <2>4, GovernStep
  <2> QED
    BY <1>2, <2>1, <2>2, <2>3, <2>4 DEF RotationNext
<1>3. ASSUME NEW r \in Requests, Land(r) \/ TooLate(r) PROVE IInv'
  BY <1>3, LedgerStep
<1>4. ASSUME NEW v \in Exists, OverlapEnds(v) PROVE IInv'
  BY <1>4, OverlapEndsStep
<1>5. CASE ExpireStale
  BY <1>5, ExpireStaleStep
<1>6. CASE ConsumeElsewhere
  BY <1>6, LedgerStep
<1>7. CASE UNCHANGED vars
  <2>1. UNCHANGED <<request, signerSet, watermark, handler, late, overlapped, sent, landed, consumed>>
    BY <1>7 DEF vars, docVars, worldVars
  <2>2. Made' = Made /\ Exists' = Exists
    BY <2>1 DEF Made, Exists
  <2>3. PICK i : i \notin Handlers /\ Moves(i, Idle)
    BY <2>1, StayFacts DEF IInv, TypeOK
  <2> QED
    BY <2>1, <2>2, <2>3, SameRequests, IdleFacts, RequestStep DEF IInv, TypeOK, Finalizing
<1> QED
  BY <1>1, <1>2, <1>3, <1>4, <1>5, <1>6, <1>7 DEF Next

-----------------------------------------------------------------------------
\* The invariant that the proofs rest on holds in every state.
THEOREM Inductive == Spec => []IInv
  BY InitInv, NextInv, PTL DEF Spec

\* Every variable keeps its type.
THEOREM TypeCorrect == Spec => []TypeOK
<1>1. IInv => TypeOK
  BY DEF IInv
<1> QED
  BY <1>1, Inductive, PTL

\* No request that is open is pinned to a version that is retired, whatever calls
\* of the two services interleave.
THEOREM RetiredSetsBackNothing == Spec => []RetiredBacksNothing
<1>1. IInv => RetiredBacksNothing
  BY DEF IInv, PinnedOK
<1> QED
  BY <1>1, Inductive, PTL

\* There is an active version, unless one without a predecessor was rolled back.
THEOREM AlwaysActive == Spec => []ActiveUnlessFirstUndone
<1>1. IInv => ActiveUnlessFirstUndone
  <2> SUFFICES ASSUME IInv PROVE ActiveUnlessFirstUndone
    OBVIOUS
  <2>1. 1 \in Exists /\ signerSet[1].status # "pending" /\ signerSet[1].previous = 0
    BY DEF IInv, SetsOK
  <2>2. signerSet[1].status \in {"pending", "active", "retiring", "retired", "rolled_back"}
    BY <2>1 DEF IInv, TypeOK, SignerSetDoc, Gone
  <2>3. CASE signerSet[1].status \in {"active", "rolled_back"}
    BY <2>1, <2>3 DEF ActiveUnlessFirstUndone, HasStatus
  <2>4. CASE signerSet[1].status \in Replaced
    <3>1. \E u \in Exists : signerSet[u].status = "active"
      BY <2>1, <2>4 DEF IInv, SetsOK
    <3> QED
      BY <3>1 DEF ActiveUnlessFirstUndone, HasStatus
  <2> QED
    BY <2>1, <2>2, <2>3, <2>4 DEF Replaced
<1> QED
  BY <1>1, Inductive, PTL

\* What the ledger applies has its quorum, and one call at most finalizes a request.
THEOREM LedgerBacked == Spec => []LedgerIsBacked
<1>1. IInv => LedgerIsBacked
  <2> SUFFICES ASSUME IInv PROVE LedgerIsBacked
    OBVIOUS
  <2>1. ASSUME NEW r \in landed
        PROVE  LET approvers == {s \in Signers : \E i \in DOMAIN request[r].approvals :
                                                    request[r].approvals[i] = s}
                   v == request[r].version
               IN  SumFunctionOnSet(Weight[v], approvers) >= Threshold[v]
    <3> DEFINE a == request[r].approvals
    <3>1. r \in Made /\ Enough(request[r])
      BY DEF IInv, RequestsOK, TypeOK
    <3>2. a \in Seq(Signers)
      BY <3>1, DocFacts DEF IInv, TypeOK
    <3>3. \A i \in DOMAIN a : a[i] \in Signers
      BY <3>2
    <3>4. {a[i] : i \in DOMAIN a} = {s \in Signers : \E i \in DOMAIN a : a[i] = s}
      BY <3>3
    <3> QED
      BY <3>1, <3>4 DEF Enough, SumWeight
  <2>2. ASSUME NEW r \in Made
        PROVE  Cardinality({h \in Handlers : handler[h].pc \in Finalizing /\ handler[h].request = r}) <= 1
    <3> DEFINE S == {h \in Handlers : handler[h].pc \in Finalizing /\ handler[h].request = r}
    <3>1. \A g, h \in S : g = h
      BY DEF IInv, RequestsOK
    <3>2. S = {} \/ \E h : S = {h}
      BY <3>1
    <3>3. Cardinality(S) = 0 \/ Cardinality(S) = 1
      BY <3>2, FS_EmptySet, FS_Singleton
    <3> QED
      BY <3>3
  <2> QED
    BY <2>1, <2>2 DEF LedgerIsBacked
<1> QED
  BY <1>1, Inductive, PTL

\* The outcome of a request and the end of a signer set are never written over.
THEOREM OutcomesAreFinal == Spec => TerminalIsFinal
<1> DEFINE Final ==
      /\ \A r \in Made : request[r].status \in Over => request'[r] = request[r]
      /\ \A v \in Exists : signerSet[v].status \in Gone => signerSet'[v] = signerSet[v]
<1>1. IInv /\ [Next]_vars => [Final]_vars
  <2> SUFFICES ASSUME IInv, Next PROVE Final
    BY DEF vars
  <2>1. ASSUME NEW h \in Handlers, RequestNext(h) PROVE Final
    <3>1. signerSet' = signerSet
      BY <2>1 DEF RequestNext, RequestApproval, Approve, Claim, Reconcile, InsertRequest,
             PushApproval, Promote, Check, Submit, Answered, AdvanceWatermark, Record, QueryFails,
             Stop, docVars
    <3>2. CASE request' = request
      BY <3>1, <3>2
    <3>3. CASE \E r \in Requests : Claim(h, r) \/ Reconcile(h, r)
      BY <3>1, <3>3 DEF Claim, Reconcile, Made, Over
    <3>4. CASE InsertRequest(h)
      BY <3>1, <3>4 DEF InsertRequest
    <3>5. CASE PushApproval(h)
      BY <3>1, <3>5 DEF PushApproval, At, IInv, RequestsOK, RequesterOK, Made, Over
    <3>6. CASE Promote(h) \/ Record(h)
      BY <3>1, <3>6 DEF Promote, Record, Made, Over
    <3> QED
      BY <2>1, <3>2, <3>3, <3>4, <3>5, <3>6 DEF RequestNext, RequestApproval, Approve, Check,
             Submit, Answered, AdvanceWatermark, QueryFails, Stop, docVars
  <2>2. ASSUME NEW h \in Handlers, RotationNext(h) PROVE Final
    <3>1. request' = request
      BY <2>2 DEF RotationNext, Propose, CreateSet, PushGovern, ActivateSet, ReplacePrevious,
             RetireSet, Reactivate, UndoSet, Activate, Retire, Rollback, Govern, docVars
    <3>2. CASE signerSet' = signerSet
      BY <3>1, <3>2
    <3>3. CASE CreateSet(h) \/ PushGovern(h)
      BY <3>1, <3>3 DEF CreateSet, PushGovern, Exists, Gone
    <3>4. CASE ActivateSet(h) \/ ReplacePrevious(h) \/ RetireSet(h) \/ Reactivate(h)
      BY <3>1, <3>4 DEF ActivateSet, ReplacePrevious, RetireSet, Reactivate, WithStatus, HasStatus,
             Exists, Gone
    <3>5. CASE UndoSet(h)
      BY <3>1, <3>5 DEF UndoSet, At, WithStatus, IInv, RotatorsOK, RotatorOK, Undone, Exists, Gone
    <3> QED
      BY <2>2, <3>2, <3>3, <3>4, <3>5 DEF RotationNext, Propose, Activate, Retire, Rollback, Govern,
             Take, docVars
  <2>3. CASE ExpireStale
    BY <2>3 DEF ExpireStale, Over
  <2>4. CASE \/ \E r \in Requests : Land(r) \/ TooLate(r)
             \/ \E v \in Exists : OverlapEnds(v)
             \/ ConsumeElsewhere
    BY <2>4 DEF Land, TooLate, OverlapEnds, ConsumeElsewhere, docVars
  <2> QED
    BY <2>1, <2>2, <2>3, <2>4 DEF Next
<1>2. Spec => [][Next]_vars
  BY DEF Spec
<1>3. Spec => [][Final]_vars
  BY <1>1, <1>2, Inductive, PTL
<1> QED
  BY <1>3 DEF TerminalIsFinal
=============================================================================
