--------------------------- MODULE SignerRotation ---------------------------
(***************************************************************************)
(* The rotation of the signer sets of one category and network             *)
(* (lib/custody/rotation.ts), next to the approval requests that the sets  *)
(* back.  The first set is there, seeded by seedGenesisSignerSet; rotations *)
(* are governed by other categories' sets, which stay as they are.         *)
(***************************************************************************)
EXTENDS Custody

Take(h, v, pc) == handler' = [handler EXCEPT ![h] = [Idle EXCEPT !.pc = pc, !.version = v]]
WithStatus(v, status) == [signerSet EXCEPT ![v].status = status]

\* proposeRotation reads the active set and whether a rotation is pending, ...
Propose(h) ==
    LET active == {v \in Exists : HasStatus(v, {"active"})}
    IN  /\ At(h, "idle")
        /\ \A v \in Exists : signerSet[v].status # "pending"
        /\ \E current \in active \cup {0} :
               /\ \A v \in active : v <= current
               /\ current < MaxVersion
               /\ handler' = [handler EXCEPT ![h] = [Idle EXCEPT !.pc = "create",
                                                                !.version = current + 1]]
        /\ UNCHANGED <<docVars, worldVars>>

\* ... and creates the next version; one that exists is refused.
CreateSet(h) ==
    LET n == handler[h].version
    IN  /\ At(h, "create")
        /\ signerSet' = [v \in Exists \cup {n} |-> IF v \in Exists THEN signerSet[v] ELSE
               [status |-> "pending", previous |-> n - 1, approvals |-> <<>>]]
        /\ Return(h)
        /\ UNCHANGED <<request, watermark, worldVars>>

\* approveRotation reads the set and the governing set, ...
Govern(h, v, g, t) ==
    /\ At(h, "idle") /\ HasStatus(v, {"pending"})
    /\ Governing[t].weight[g] > 0
    /\ \A i \in DOMAIN signerSet[v].approvals : signerSet[v].approvals[i].by # g
    /\ handler' = [handler EXCEPT ![h] = [Idle EXCEPT !.pc = "govern", !.version = v,
                                                     !.by = g, !.type = t]]
    /\ UNCHANGED <<docVars, worldVars>>

\* ... and adds the approval to a set that is still pending.
PushGovern(h) ==
    LET v == handler[h].version
    IN  /\ At(h, "govern")
        /\ signerSet' = IF signerSet[v].status # "pending" THEN signerSet
               ELSE [signerSet EXCEPT ![v].approvals =
                        Append(@, [by |-> handler[h].by, type |-> handler[h].type])]
        /\ Return(h)
        /\ UNCHANGED <<request, watermark, worldVars>>

\* The quorum of the type of the first approval; the others do not count.
UsedType(v) == IF signerSet[v].approvals = <<>> THEN "standard" ELSE signerSet[v].approvals[1].type
GovernedWeight(v) ==
    LET a == signerSet[v].approvals
    IN  SumFunctionOnSet(Governing[UsedType(v)].weight,
                         {a[i].by : i \in {j \in DOMAIN a : a[j].type = UsedType(v)}})

\* activateRotation checks the quorum, ...
Activate(h, v) ==
    /\ At(h, "idle") /\ HasStatus(v, {"pending"})
    /\ GovernedWeight(v) >= Governing[UsedType(v)].threshold
    /\ Take(h, v, "activate")
    /\ UNCHANGED <<docVars, worldVars>>

\* ... makes the set the active one, ...
ActivateSet(h) ==
    LET v == handler[h].version
    IN  /\ At(h, "activate")
        /\ IF signerSet[v].status = "pending"
           THEN /\ signerSet' = WithStatus(v, "active")
                /\ IF signerSet[v].previous = 0 THEN Return(h) ELSE Goto(h, "replace")
           ELSE Return(h) /\ UNCHANGED signerSet
        /\ UNCHANGED <<request, watermark, worldVars>>

\* ... and lets the one before it retire.
ReplacePrevious(h) ==
    LET w == signerSet[handler[h].version].previous
    IN  /\ At(h, "replace")
        /\ signerSet' = IF HasStatus(w, {"active"}) THEN WithStatus(w, "retiring") ELSE signerSet
        /\ Return(h)
        /\ UNCHANGED <<request, watermark, worldVars>>

RetireMutant(h, v) ==                        \* only requests that wait for approvals count
    /\ At(h, "idle") /\ HasStatus(v, {"retiring"}) /\ v \in overlapped
    /\ \A r \in Made : request[r].version = v => request[r].status # "pending"
    /\ Take(h, v, "retire")
    /\ UNCHANGED <<docVars, worldVars>>

\* retireIfSafe: the window has passed and no request that is open is pinned to it.
Retire(h, v) ==
    /\ At(h, "idle") /\ HasStatus(v, {"retiring"}) /\ v \in overlapped
    /\ \A r \in Made : request[r].version = v => request[r].status \notin Open
    /\ Take(h, v, "retire")
    /\ UNCHANGED <<docVars, worldVars>>

RetireSet(h) ==
    LET v == handler[h].version
    IN  /\ At(h, "retire")
        /\ signerSet' = IF HasStatus(v, {"retiring"}) THEN WithStatus(v, "retired") ELSE signerSet
        /\ Return(h)
        /\ UNCHANGED <<request, watermark, worldVars>>

\* rollbackRotation; a set without a predecessor, such as the first one, is
\* undone like a pending one.
Rollback(h, v) ==
    /\ At(h, "idle") /\ HasStatus(v, {"pending", "active"})
    /\ handler' = [handler EXCEPT ![h] = [Idle EXCEPT
           !.pc = IF signerSet[v].status = "active" /\ signerSet[v].previous # 0
                  THEN "reactivate" ELSE "undo",
           !.version = v, !.status = signerSet[v].status]]
    /\ UNCHANGED <<docVars, worldVars>>

ReactivateMutant(h) ==                       \* it undoes the set in any case
    LET w == signerSet[handler[h].version].previous
    IN  /\ At(h, "reactivate")
        /\ Goto(h, "undo")
        /\ signerSet' = IF HasStatus(w, {"retiring"}) THEN WithStatus(w, "active") ELSE signerSet
        /\ UNCHANGED <<request, watermark, worldVars>>
\* The previous set comes back first, or nothing happens.
Reactivate(h) ==
    LET w == signerSet[handler[h].version].previous
    IN  /\ At(h, "reactivate")
        /\ IF HasStatus(w, {"retiring"})
           THEN signerSet' = WithStatus(w, "active") /\ Goto(h, "undo")
           ELSE Return(h) /\ UNCHANGED signerSet
        /\ UNCHANGED <<request, watermark, worldVars>>

UndoSet(h) ==
    LET v == handler[h].version
    IN  /\ At(h, "undo")
        /\ signerSet' = IF signerSet[v].status = handler[h].status
                        THEN WithStatus(v, "rolled_back") ELSE signerSet
        /\ Return(h)
        /\ UNCHANGED <<request, watermark, worldVars>>

-----------------------------------------------------------------------------
\* The ledger applies a transaction, or another one of the account's.
Land(r) == /\ CanLand(r) /\ request[r].sequence = consumed + 1
           /\ landed' = landed \cup {r}
           /\ consumed' = consumed + 1
           /\ UNCHANGED <<docVars, handler, late, overlapped, sent>>
ConsumeElsewhere == /\ consumed < MaxSequence
                    /\ consumed' = consumed + 1
                    /\ UNCHANGED <<docVars, handler, late, overlapped, sent, landed>>

\* Time passes.  The overlap window is longer than any handler takes.
TooLate(r) == /\ r \in Made \ late
              /\ late' = late \cup {r}
              /\ UNCHANGED <<docVars, handler, overlapped, sent, landed, consumed>>
OverlapEnds(v) == /\ HasStatus(v, {"retiring"}) /\ v \notin overlapped
                  /\ \A h \in Handlers : At(h, "idle")
                  /\ overlapped' = overlapped \cup {v}
                  /\ UNCHANGED <<docVars, handler, late, sent, landed, consumed>>

RotationNext(h) ==
    \/ Propose(h) \/ CreateSet(h) \/ PushGovern(h) \/ ActivateSet(h) \/ ReplacePrevious(h)
    \/ RetireSet(h) \/ Reactivate(h) \/ UndoSet(h)
    \/ \E v \in Exists : \/ Activate(h, v) \/ Retire(h, v) \/ Rollback(h, v)
                         \/ \E g \in Governors, t \in QuorumType : Govern(h, v, g, t)

Init == /\ request = << >>
        /\ signerSet = [v \in {1} |-> [status |-> "active", previous |-> 0, approvals |-> <<>>]]
        /\ watermark = 0 /\ consumed = 0
        /\ handler = [h \in Handlers |-> Idle]
        /\ late = {} /\ overlapped = {} /\ sent = {} /\ landed = {}

Next == \/ \E h \in Handlers : RequestNext(h) \/ RotationNext(h)
        \/ \E r \in Requests : Land(r) \/ TooLate(r)
        \/ \E v \in Exists : OverlapEnds(v)
        \/ ExpireStale \/ ConsumeElsewhere

Spec == Init /\ [][Next]_vars

-----------------------------------------------------------------------------
TypeOK ==
    /\ Made \subseteq Requests /\ \A r \in Made : request[r] \in RequestDoc
    /\ Exists \subseteq Versions /\ \A v \in Exists : signerSet[v] \in SignerSetDoc
    /\ watermark \in 0..MaxSequence /\ consumed \in 0..MaxSequence
    /\ handler \in [Handlers -> HandlerState]
    /\ late \subseteq Made /\ sent \subseteq Made /\ landed \subseteq Made
    /\ overlapped \subseteq Exists

Finalizing == {"check", "submit", "sent", "advance", "record", "fail"}

\* Whatever the ledger applies for a request was approved by different signers,
\* of the set that the request is pinned to, of the weight that set asks for; and
\* "two concurrent finalize calls can never both submit" (service.ts:261).
LedgerIsBacked ==
    /\ \A r \in landed :
          LET approvers == {s \in Signers : \E i \in DOMAIN request[r].approvals :
                                               request[r].approvals[i] = s}
              v == request[r].version
          IN  SumFunctionOnSet(Weight[v], approvers) >= Threshold[v]
    /\ \A r \in Made :
          Cardinality({h \in Handlers : handler[h].pc \in Finalizing /\ handler[h].request = r}) <= 1

\* retireIfSafe "refuses while any non-terminal approval request still references
\* this set" (rotation.ts:206): none is left behind with signers that may no longer
\* approve it, however calls of both services interleave.
RetiredBacksNothing ==
    \A r \in Made : HasStatus(request[r].version, {"retired"}) => request[r].status \in Over

\* "A rollback can never leave the category with zero active signer sets"
\* (docs/custody-signer-rotation.md), as far as it holds: unless a set without a
\* predecessor has been rolled back.
ActiveUnlessFirstUndone ==
    \/ \E v \in Exists : HasStatus(v, {"active"})
    \/ \E v \in Exists : HasStatus(v, {"rolled_back"}) /\ signerSet[v].previous = 0

\* What is over stays as it is: no late answer, reconciliation or sweep writes over
\* the outcome of a request, and no retired or undone set comes back.
TerminalIsFinal ==
    [][/\ \A r \in Made : request[r].status \in Over => request'[r] = request[r]
       /\ \A v \in Exists : signerSet[v].status \in Gone => signerSet'[v] = signerSet[v]]_vars
=============================================================================
