------------------------------- MODULE Custody -------------------------------
(***************************************************************************)
(* Custody of one Stellar account: approval requests for its transactions  *)
(* (lib/custody/service.ts), the rotation of the signer sets that back     *)
(* them (lib/custody/rotation.ts), and the account on the ledger.          *)
(*                                                                         *)
(* No transaction spans two documents here.  A handler reads, decides and  *)
(* writes with a compare-and-set on the status it has read, and may die    *)
(* after any step.  A request is pinned to the version of the signer set   *)
(* that was active when it was made.                                       *)
(***************************************************************************)
EXTENDS Integers, Sequences, FiniteSets, FiniteSetsExt, Functions

CONSTANTS Handlers,    \* calls at work at the same time
          Requests,    \* CustodyApprovalRequest ids
          Signers,
          Weight,      \* by version: [Signers -> Nat], 0 for who is not in it
          Threshold,   \* by version
          Governors,   \* the signers of the active governing sets
          Governing,   \* by quorumType: [weight, threshold], not under rotation
          MaxVersion,  \* bound: versions of the signer set
          MaxSequence, \* bound: sequence numbers of the account
          None

Versions == 1..MaxVersion
Sequence == 1..MaxSequence
QuorumType == {"standard", "recovery"}
Open == {"pending", "quorum_reached", "submitting"}
Over == {"submitted", "failed", "expired"}
Gone == {"retired", "rolled_back"}

RequestDoc == [status : Open \cup Over, sequence : Sequence, version : Versions,
               approvals : Seq(Signers)]
SignerSetDoc == [status : {"pending", "active", "retiring"} \cup Gone,
                 previous : Versions \cup {0},
                 approvals : Seq([by : Governors, type : QuorumType])]
HandlerState == [pc : {"idle", "insert", "push", "promote", "check", "submit", "sent", "advance",
                       "record", "fail", "watermark", "create", "govern", "activate",
                       "replace", "retire", "reactivate", "undo"},
                 request : Requests \cup {None}, version : Versions \cup {0},
                 sequence : Sequence \cup {0},
                 status : {"none", "pending", "quorum_reached", "active"},
                 by : Signers \cup Governors \cup {None}, type : QuorumType \cup {None}]

ASSUME CustodyAssumption ==
    /\ MaxVersion \in Nat \ {0} /\ MaxSequence \in Nat \ {0}
    /\ Weight \in [Versions -> [Signers -> Nat]] /\ Threshold \in [Versions -> Nat \ {0}]
    /\ Governing \in [QuorumType -> [weight : [Governors -> Nat], threshold : Nat \ {0}]]
    /\ None \notin Requests \cup Signers \cup Governors \cup QuorumType

VARIABLES request,    \* CustodyApprovalRequest by id
          signerSet,  \* CustodySignerSet by version
          watermark,  \* CustodySequenceWatermark.lastConsumedSequence
          handler,
          late,       \* the requests whose maxTime has passed
          overlapped, \* the versions whose overlap window has passed
          sent,       \* the requests whose transaction is on its way to the ledger
          landed,     \* those whose transaction the ledger has applied
          consumed    \* the account's sequence number on the ledger

docVars == <<request, signerSet, watermark>>
worldVars == <<late, overlapped, sent, landed, consumed>>
vars == <<docVars, handler, worldVars>>

-----------------------------------------------------------------------------
Idle == [pc |-> "idle", request |-> None, version |-> 0, sequence |-> 0, status |-> "none",
         by |-> None, type |-> None]
At(h, pc) == handler[h].pc = pc
Goto(h, pc) == handler' = [handler EXCEPT ![h].pc = pc]
Return(h) == handler' = [handler EXCEPT ![h] = Idle]
Made == DOMAIN request
Exists == DOMAIN signerSet
HasStatus(v, S) == v \in Exists /\ signerSet[v].status \in S

SumWeightMutant(approvals, weight) ==        \* every approval counts, also a repeated one
    MapThenSumSet(LAMBDA i : weight[approvals[i]], DOMAIN approvals)
\* sumApprovedWeight: of the distinct approvers.
SumWeight(approvals, weight) ==
    SumFunctionOnSet(weight, {approvals[i] : i \in DOMAIN approvals})

Enough(doc) == SumWeight(doc.approvals, Weight[doc.version]) >= Threshold[doc.version]

-----------------------------------------------------------------------------
\* requestApproval reads the watermark and the active signer set, ...
RequestApproval(h, r, n) ==
    /\ At(h, "idle") /\ r \notin Made
    /\ watermark < n
    /\ \E v \in Exists :
           /\ HasStatus(v, {"active"})
           /\ handler' = [handler EXCEPT ![h] = [Idle EXCEPT !.pc = "insert", !.request = r,
                                                            !.version = v, !.sequence = n]]
    /\ UNCHANGED <<docVars, worldVars>>

\* ... and inserts the request; a sequence number that another one has is refused.
InsertRequest(h) ==
    LET r == handler[h].request
        n == handler[h].sequence
    IN  /\ At(h, "insert")
        /\ IF r \in Made \/ \E q \in Made : request[q].sequence = n THEN UNCHANGED request
           ELSE request' = [q \in Made \cup {r} |-> IF q \in Made THEN request[q] ELSE
                    [status |-> "pending", sequence |-> n, version |-> handler[h].version,
                     approvals |-> <<>>]]
        /\ Return(h)
        /\ UNCHANGED <<signerSet, watermark, worldVars>>

\* approve reads the request and the set it is pinned to, ...
Approve(h, r, s) ==
    /\ At(h, "idle") /\ r \in Made
    /\ request[r].status \in {"pending", "quorum_reached"} /\ r \notin late
    /\ HasStatus(request[r].version, {"active", "retiring"})
    /\ Weight[request[r].version][s] > 0
    /\ \A i \in DOMAIN request[r].approvals : request[r].approvals[i] # s
    /\ handler' = [handler EXCEPT ![h] = [Idle EXCEPT !.pc = "push", !.request = r, !.by = s,
                                                     !.status = request[r].status]]
    /\ UNCHANGED <<docVars, worldVars>>

\* ... adds the approval if the status is what it was, ...
PushApproval(h) ==
    LET r == handler[h].request
    IN  /\ At(h, "push")
        /\ IF request[r].status = handler[h].status
           THEN /\ request' = [request EXCEPT ![r].approvals = Append(@, handler[h].by)]
                /\ IF Enough(request'[r]) /\ request[r].status = "pending"
                   THEN Goto(h, "promote") ELSE Return(h)
           ELSE Return(h) /\ UNCHANGED request
        /\ UNCHANGED <<signerSet, watermark, worldVars>>

\* ... and promotes the request.
Promote(h) ==
    LET r == handler[h].request
    IN  /\ At(h, "promote")
        /\ request' = IF request[r].status = "pending"
                      THEN [request EXCEPT ![r].status = "quorum_reached"] ELSE request
        /\ Return(h)
        /\ UNCHANGED <<signerSet, watermark, worldVars>>

-----------------------------------------------------------------------------
\* finalizeAndSubmit claims the request, ...
Claim(h, r) ==
    /\ At(h, "idle") /\ r \in Made
    /\ request[r].status = "quorum_reached"
    /\ request' = [request EXCEPT ![r].status = "submitting"]
    /\ handler' = [handler EXCEPT ![h] = [Idle EXCEPT !.pc = "check", !.request = r]]
    /\ UNCHANGED <<signerSet, watermark, worldVars>>

\* ... checks window, watermark and quorum, ...
Check(h) ==
    LET r == handler[h].request
    IN  /\ At(h, "check")
        /\ Goto(h, IF r \notin late /\ watermark < request[r].sequence /\ Enough(request[r])
                   THEN "submit" ELSE "fail")
        /\ UNCHANGED <<docVars, worldVars>>

\* ... and submits the signed transaction.
Submit(h) ==
    /\ At(h, "submit")
    /\ sent' = sent \cup {handler[h].request}
    /\ Goto(h, "sent")
    /\ UNCHANGED <<docVars, late, overlapped, landed, consumed>>

\* Whether the ledger may still apply it.
CanLand(r) == r \in sent \ landed /\ r \notin late /\ consumed < request[r].sequence

\* Horizon has applied it; or rejects it, for good; or answers with another status, such
\* as 504, which counts as a rejection too, although the ledger may apply the transaction
\* or has done so; or nobody answers, and the request is left for reconcileSubmission.
Answered(h) ==
    LET r == handler[h].request
        rejected == r \notin landed /\ (r \in late \/ consumed # request[r].sequence - 1)
    IN  /\ At(h, "sent")
        /\ \/ r \in landed /\ Goto(h, "advance") /\ UNCHANGED sent
           \/ rejected /\ Goto(h, "fail") /\ sent' = sent \ {r}
           \/ Goto(h, "fail") /\ UNCHANGED sent
           \/ Return(h) /\ UNCHANGED sent
        /\ UNCHANGED <<docVars, late, overlapped, landed, consumed>>

\* advanceWatermark: $max.
Advanced(n) == IF watermark < n THEN n ELSE watermark

AdvanceWatermark(h) ==
    /\ \/ At(h, "advance") /\ Goto(h, "record")
       \/ At(h, "watermark") /\ Return(h)
    /\ watermark' = Advanced(request[handler[h].request].sequence)
    /\ UNCHANGED <<request, signerSet, worldVars>>

\* The last write of finalizeAndSubmit, if nobody has reconciled the request.
RecordMutant(h) ==                           \* whatever has become of it
    /\ At(h, "record") \/ At(h, "fail")
    /\ request' = [request EXCEPT ![handler[h].request].status =
                      IF At(h, "record") THEN "submitted" ELSE "failed"]
    /\ Return(h)
    /\ UNCHANGED <<signerSet, watermark, worldVars>>
Record(h) ==
    LET r == handler[h].request
    IN  /\ At(h, "record") \/ At(h, "fail")
        /\ request' = IF request[r].status # "submitting" THEN request
                      ELSE [request EXCEPT ![r].status =
                               IF At(h, "record") THEN "submitted" ELSE "failed"]
        /\ Return(h)
        /\ UNCHANGED <<signerSet, watermark, worldVars>>

\* A query fails: in finalizeAndSubmit that makes the request a failed one, also
\* when the transaction has landed.
QueryFails(h) ==
    /\ handler[h].pc \in {"check", "submit", "advance", "record"}
    /\ Goto(h, "fail")
    /\ UNCHANGED <<docVars, worldVars>>

\* The handler dies, or a critical audit event, written after a step, is refused.
Stop(h) == /\ ~ At(h, "idle")
           /\ Return(h)
           /\ UNCHANGED <<docVars, worldVars>>

\* reconcileSubmission, by an operator who asks the ledger and waits until the
\* transaction has landed or never will.
Reconcile(h, r) ==
    /\ At(h, "idle") /\ r \in Made
    /\ request[r].status = "submitting"
    /\ \/ /\ r \in landed
          /\ request' = [request EXCEPT ![r].status = "submitted"]
          /\ handler' = [handler EXCEPT ![h] = [Idle EXCEPT !.pc = "watermark", !.request = r]]
       \/ /\ r \notin landed /\ (r \in late \/ request[r].sequence <= consumed)
          /\ request' = [request EXCEPT ![r].status = "failed"]
          /\ UNCHANGED handler
    /\ UNCHANGED <<signerSet, watermark, worldVars>>

\* expireStaleRequests.
ExpireStale ==
    /\ \E r \in Made \cap late : request[r].status \in {"pending", "quorum_reached"}
    /\ request' = [r \in Made |->
           IF r \in late /\ request[r].status \in {"pending", "quorum_reached"}
           THEN [request[r] EXCEPT !.status = "expired"] ELSE request[r]]
    /\ UNCHANGED <<signerSet, watermark, handler, worldVars>>

RequestNext(h) ==
    \/ \E r \in Requests : \/ \E n \in Sequence : RequestApproval(h, r, n)
                           \/ \E s \in Signers : Approve(h, r, s)
                           \/ Claim(h, r) \/ Reconcile(h, r)
    \/ InsertRequest(h) \/ PushApproval(h) \/ Promote(h) \/ Check(h) \/ Submit(h)
    \/ Answered(h) \/ AdvanceWatermark(h) \/ Record(h) \/ QueryFails(h) \/ Stop(h)
=============================================================================
