-------------------------- MODULE ApprovalsProofs --------------------------
(***************************************************************************)
(* Theorems about Approvals for every set of users, requests and checkers. *)
(***************************************************************************)
EXTENDS Approvals, TLAPS

\* The program counters between the claim of a request and its last update.
Working == {"start", "version", "revalidate", "execute", "record"}

\* How far a maker is tells whether its request exists, and whether it is
\* exempt and has been executed.
MakerOK(r) ==
    LET m == maker[r]
    IN  /\ m.pc # "idle" => m.actor \in Users /\ m.target \in Users /\ m.command \in Roles
        /\ m.pc \in {"idle", "prepare", "revalidate", "version", "create"} => request[r] = Absent
        /\ m.pc \in {"execute", "record", "audit"} => request[r] # Absent /\ request[r].exempt
        /\ m.pc = "execute" => effects[r] = 0
        /\ m.pc \in {"record", "audit"} => effects[r] = 1

\* A request's status and its approver account for what has been executed.
RequestOK(r) ==
    LET doc == request[r]
    IN  /\ doc = Absent => effects[r] = 0
        /\ effects[r] <= 1
        /\ doc # Absent =>
             /\ doc.status = "executed" => effects[r] = 1
             /\ effects[r] > 0 => doc.status \in {"executing", "executed", "execution_failed"}
             /\ doc.exempt => doc.status \in {"executing", "executed", "execution_failed"}
             /\ effects[r] > 0 /\ ~doc.exempt => doc.approver \notin {Absent, doc.requester}

\* A checker that works on a request has claimed it for somebody else.
CheckerOK(c) ==
    LET k == checker[c]  doc == request[k.request]
    IN  k.pc # "idle" =>
          /\ k.actor \in Users /\ k.request \in Requests /\ doc # Absent
          /\ k.pc # "read" => ~doc.exempt
          /\ k.pc \in {"permissions", "claim"} => k.actor # doc.requester
          /\ k.pc \in Working => doc.approver \notin {Absent, doc.requester}
          /\ k.pc = "start" => doc.status = "approved"
          /\ k.pc \in Working \ {"start"} => doc.status \in {"executing", "execution_failed"}
          /\ k.pc \in Working => effects[k.request] = IF k.pc = "record" THEN 1 ELSE 0

\* Nobody else works on the request that a checker has claimed.
Exclusive ==
    \A c, d \in Checkers :
        checker[c].pc \in Working /\ checker[d].pc \in Working /\ c # d
            => checker[c].request # checker[d].request

IInv == /\ TypeOK
        /\ \A r \in Requests : MakerOK(r) /\ RequestOK(r)
        /\ \A c \in Checkers : CheckerOK(c)
        /\ Exclusive


-----------------------------------------------------------------------------
\* Request r gets status s and approver a, and nothing else changes in any.
Becomes(r, s, a) ==
    /\ request' \in [Requests -> Doc \cup {Absent}]
    /\ \A q \in Requests \ {r} : request'[q] = request[q]
    /\ request'[r] # Absent
    /\ request'[r].status = s /\ request'[r].approver = a
    /\ request'[r].exempt = request[r].exempt
    /\ request'[r].requester = request[r].requester

\* Checker c goes on to pc with the request it has.
Moves(c, pc) ==
    /\ checker' \in [Checkers -> CheckerState]
    /\ \A d \in Checkers \ {c} : checker'[d] = checker[d]
    /\ checker'[c].pc = pc
    /\ checker'[c].actor = checker[c].actor /\ checker'[c].request = checker[c].request

\* Checker c is idle again.
Stops(c) ==
    /\ checker' \in [Checkers -> CheckerState]
    /\ \A d \in Checkers \ {c} : checker'[d] = checker[d]
    /\ checker'[c].pc = "idle"

\* Whoever else works on r can go on when it has status s and approver a.
Undisturbed(c, r, s, a) ==
    \A d \in Checkers \ {c} :
        checker[d].pc \in Working /\ checker[d].request = r =>
            /\ a = request[r].approver
            /\ \/ s = request[r].status
               \/ s = "execution_failed" /\ request[r].status = "executing"

\* A document is no sentinel.
LEMMA DocIsThere == ASSUME NEW d \in Doc PROVE d # Absent
BY ApprovalAssumption

\* What the replacement of a document by another one does.
LEMMA Replaced ==
    ASSUME TypeOK, NEW r \in Requests, NEW new \in Doc, NEW s, NEW a,
           request' = [request EXCEPT ![r] = new], new.status = s, new.approver = a,
           new.exempt = request[r].exempt, new.requester = request[r].requester
    PROVE  Becomes(r, s, a)
<1>1. request \in [Requests -> Doc \cup {Absent}]
  BY DEF TypeOK
<1>2. request' \in [Requests -> Doc \cup {Absent}] /\ request'[r] = new
  BY <1>1
<1> QED BY <1>1, <1>2, DocIsThere DEF Becomes

\* What an update of a status does.
LEMMA StatusUpdate ==
    ASSUME TypeOK, NEW r \in Requests, request[r] # Absent,
           NEW s \in InFlight \cup Terminal, request' = [request EXCEPT ![r].status = s]
    PROVE  Becomes(r, s, request[r].approver)
<1> DEFINE new == [request[r] EXCEPT !.status = s]
<1>1. request[r] \in Doc
  BY DEF TypeOK
<1>2. /\ new \in Doc /\ new.status = s /\ new.approver = request[r].approver
      /\ new.exempt = request[r].exempt /\ new.requester = request[r].requester
  BY <1>1 DEF Doc
<1>3. request' = [request EXCEPT ![r] = new]
  OBVIOUS
<1> HIDE DEF new
<1> QED BY <1>2, <1>3, Replaced

LEMMA TwoFields ==
    ASSUME NEW d \in Doc, NEW s, NEW a
    PROVE  [[d EXCEPT !.status = s] EXCEPT !.approver = a]
              = [d EXCEPT !.status = s, !.approver = a]
BY DEF Doc

\* What an update of a status and an approver does.
LEMMA ApproverUpdate ==
    ASSUME TypeOK, NEW r \in Requests, request[r] # Absent,
           NEW s \in InFlight \cup Terminal, NEW a \in Users,
           request' = [request EXCEPT ![r].status = s, ![r].approver = a]
    PROVE  Becomes(r, s, a)
<1> DEFINE new == [request[r] EXCEPT !.status = s, !.approver = a]
<1>1. request[r] \in Doc
  BY DEF TypeOK
<1>2. /\ new \in Doc /\ new.status = s /\ new.approver = a
      /\ new.exempt = request[r].exempt /\ new.requester = request[r].requester
  BY <1>1 DEF Doc
<1>3. request' = [request EXCEPT ![r] = new]
  <2> DEFINE mid == [request EXCEPT ![r] = [request[r] EXCEPT !.status = s]]
  <2>1. request' = [mid EXCEPT ![r] = [mid[r] EXCEPT !.approver = a]]
    OBVIOUS
  <2>2. request \in [Requests -> Doc \cup {Absent}]
    BY DEF TypeOK
  <2>3. mid[r] = [request[r] EXCEPT !.status = s]
    BY <2>2
  <2>4. [mid EXCEPT ![r] = new] = [request EXCEPT ![r] = new]
    <3> HIDE DEF new
    <3> QED BY <2>2
  <2>5. [mid[r] EXCEPT !.approver = a] = new
    BY <1>1, <2>3, TwoFields
  <2> HIDE DEF mid, new
  <2>6. request' = [mid EXCEPT ![r] = new]
    BY <2>1, <2>5
  <2> QED BY <2>4, <2>6
<1> HIDE DEF new
<1> QED BY <1>2, <1>3, Replaced

\* An update that writes nothing.
LEMMA NoUpdate ==
    ASSUME TypeOK, NEW r \in Requests, request[r] # Absent, request' = request
    PROVE  Becomes(r, request[r].status, request[r].approver)
BY DEF TypeOK, Becomes

\* What the steps of a checker's program counter do.
LEMMA GotoMoves ==
    ASSUME TypeOK, NEW c \in Checkers, NEW pc \in {"reject", "cancel", "permissions", "claim", "start", "version",
                       "revalidate", "execute", "record"}, CheckerGoto(c, pc)
    PROVE  Moves(c, pc)
<1> DEFINE new == [checker[c] EXCEPT !.pc = pc]
<1>1. /\ new \in CheckerState /\ new.pc = pc
      /\ new.actor = checker[c].actor /\ new.request = checker[c].request
  BY DEF TypeOK, CheckerState
<1>2. checker' = [checker EXCEPT ![c] = new]
  BY DEF CheckerGoto
<1> HIDE DEF new
<1> QED BY <1>1, <1>2 DEF TypeOK, Moves

\* What Return does.
LEMMA ReturnStops ==
    ASSUME TypeOK, NEW c \in Checkers, Return(c)
    PROVE  Stops(c)
<1> DEFINE new == [pc |-> "idle", actor |-> Absent, request |-> Absent]
<1>1. new \in CheckerState /\ new.pc = "idle"
  BY DEF CheckerState
<1>2. checker' = [checker EXCEPT ![c] = new]
  BY DEF Return
<1> HIDE DEF new
<1> QED BY <1>1, <1>2 DEF TypeOK, Stops

-----------------------------------------------------------------------------
\* A request that is updated consistently, with nobody disturbed, leaves the
\* makers and the other checkers as they were.
LEMMA UpdateKeeps ==
    ASSUME IInv, NEW c \in Checkers, NEW r \in Requests, NEW s, NEW a,
           request[r] # Absent, Becomes(r, s, a), Undisturbed(c, r, s, a),
           UNCHANGED <<maker, effects>>, \A d \in Checkers \ {c} : checker'[d] = checker[d]
    PROVE  /\ \A q \in Requests : MakerOK(q)'
           /\ \A q \in Requests \ {r} : RequestOK(q)'
           /\ \A d \in Checkers \ {c} : CheckerOK(d)'
<1>1. \A q \in Requests : MakerOK(q)'
  BY DEF IInv, MakerOK, Becomes
<1>2. \A q \in Requests \ {r} : RequestOK(q)'
  BY DEF IInv, RequestOK, Becomes
<1>3. ASSUME NEW d \in Checkers \ {c} PROVE CheckerOK(d)'
  <2>1. CheckerOK(d)
    BY DEF IInv
  <2>2. CASE checker[d].request # r
    BY <2>1, <2>2 DEF CheckerOK, Becomes
  <2>3. CASE checker[d].request = r
    BY <2>1, <2>3 DEF CheckerOK, Becomes, Undisturbed, Working
  <2> QED BY <2>2, <2>3
<1> QED BY <1>1, <1>2, <1>3

\* A checker that updates its request, or does not, and stops.
LEMMA StopKeeps ==
    ASSUME IInv, NEW c \in Checkers, NEW r \in Requests, NEW s, NEW a,
           request[r] # Absent, Becomes(r, s, a), Undisturbed(c, r, s, a), Stops(c),
           RequestOK(r)', UNCHANGED <<role, version, maker, effects>>,
           overdue' \subseteq Requests
    PROVE  IInv'
<1>1. TypeOK'
  BY DEF IInv, TypeOK, Becomes, Stops
<1>2. /\ \A q \in Requests : MakerOK(q)' /\ RequestOK(q)'
      /\ \A d \in Checkers \ {c} : CheckerOK(d)'
  BY UpdateKeeps DEF Stops
<1>3. CheckerOK(c)'
  BY DEF CheckerOK, Stops
<1>4. Exclusive'
  BY DEF IInv, Exclusive, Stops, Working
<1> QED BY <1>1, <1>2, <1>3, <1>4 DEF IInv

\* A checker that updates its request, or does not, and goes on.
LEMMA MoveKeeps ==
    ASSUME IInv, NEW c \in Checkers, NEW s, NEW a, NEW pc, NEW r \in Requests,
           checker[c].request = r, request[r] # Absent, Becomes(r, s, a),
           Undisturbed(c, r, s, a), Moves(c, pc),
           RequestOK(r)', CheckerOK(c)', UNCHANGED <<role, version, maker, effects>>,
           overdue' \subseteq Requests,
           pc \in Working /\ checker[c].pc \notin Working =>
               \A d \in Checkers \ {c} : checker[d].pc \in Working => checker[d].request # r
    PROVE  IInv'
<1>1. TypeOK'
  BY DEF IInv, TypeOK, Becomes, Moves
<1>2. /\ \A q \in Requests : MakerOK(q)' /\ RequestOK(q)'
      /\ \A d \in Checkers \ {c} : CheckerOK(d)'
  BY UpdateKeeps DEF Moves
<1>3. Exclusive'
  BY DEF IInv, Exclusive, Moves, Working
<1> QED BY <1>1, <1>2, <1>3 DEF IInv

-----------------------------------------------------------------------------
\* A checker that is not idle has a request.
LEMMA AtWork ==
    ASSUME IInv, NEW c \in Checkers, checker[c].pc # "idle"
    PROVE  /\ Of(c) \in Requests /\ request[Of(c)] # Absent /\ request[Of(c)] \in Doc
           /\ checker[c].actor \in Users /\ CheckerOK(c) /\ RequestOK(Of(c))
BY DEF IInv, CheckerOK, TypeOK, Of

\* A request that waits, or is over, is worked on by nobody, so any update of
\* it disturbs nobody.
LEMMA NobodyWorks ==
    ASSUME IInv, NEW c \in Checkers, NEW r \in Requests,
           request[r].status \notin {"approved", "executing", "execution_failed"}
    PROVE  /\ \A d \in Checkers : checker[d].pc \in Working => checker[d].request # r
           /\ \A s, a : Undisturbed(c, r, s, a)
BY DEF IInv, CheckerOK, Working, Undisturbed

\* Nor does an update by the one that works on it.
LEMMA WorksAlone ==
    ASSUME IInv, NEW c \in Checkers, checker[c].pc \in Working
    PROVE  \A s, a : Undisturbed(c, Of(c), s, a)
BY DEF IInv, Exclusive, Undisturbed, Of

\* Reaping is such an update too.
LEMMA ReapedKeeps ==
    ASSUME IInv, NEW c \in Checkers, NEW r \in Requests, request[r] # Absent,
           Becomes(r, Reaped(r), request[r].approver), UNCHANGED effects
    PROVE  /\ Undisturbed(c, r, Reaped(r), request[r].approver)
           /\ RequestOK(r)'
<1>1. RequestOK(r)
  BY DEF IInv
<1>2. CASE Reaped(r) = request[r].status
  BY <1>1, <1>2 DEF Undisturbed, Becomes, RequestOK
<1>3. CASE request[r].status = "pending" /\ Reaped(r) = "expired"
  BY <1>1, <1>3, NobodyWorks DEF Becomes, RequestOK
<1>4. CASE request[r].status = "executing" /\ Reaped(r) = "execution_failed"
  BY <1>1, <1>4 DEF Undisturbed, Becomes, RequestOK
<1> QED BY <1>2, <1>3, <1>4 DEF Reaped

\* What is reaped is a status.
LEMMA ReapedType ==
    ASSUME TypeOK, NEW r \in Requests, request[r] # Absent
    PROVE  Reaped(r) \in InFlight \cup Terminal
BY DEF TypeOK, Doc, Reaped, InFlight, Terminal

\* From here on, one lemma per action: it preserves the invariant.  First the
\* steps of a checker.  Begin takes up a request, which claims nothing.
LEMMA BeginInv ==
    ASSUME IInv, NEW c \in Checkers, NEW u \in Users, NEW r \in Requests, Begin(c, u, r)
    PROVE  IInv'
<1> DEFINE new == [pc |-> "read", actor |-> u, request |-> r]
<1>1. /\ new \in CheckerState /\ new.pc = "read" /\ new.actor = u /\ new.request = r
  BY DEF CheckerState
<1>2. checker' = [checker EXCEPT ![c] = new] /\ request[r] # Absent
  BY DEF Begin
<1>3. checker' \in [Checkers -> CheckerState]
  <2> HIDE DEF new
  <2> QED BY <1>1, <1>2 DEF IInv, TypeOK
<1>4. /\ checker'[c].pc = "read" /\ checker'[c].actor = u /\ checker'[c].request = r
      /\ \A d \in Checkers \ {c} : checker'[d] = checker[d]
  BY <1>2 DEF IInv, TypeOK
<1>5. TypeOK'
  BY <1>3 DEF Begin, IInv, TypeOK
<1>6. \A q \in Requests : MakerOK(q)' /\ RequestOK(q)'
  BY DEF Begin, IInv, MakerOK, RequestOK
<1>7. \A d \in Checkers : CheckerOK(d)'
  BY <1>2, <1>4 DEF Begin, IInv, CheckerOK, Working
<1>8. Exclusive'
  BY <1>4 DEF IInv, Exclusive, Working
<1> QED BY <1>5, <1>6, <1>7, <1>8 DEF IInv

\* ReadRequest reaps; whoever goes on has read a request that is not exempt.
LEMMA ReadRequestInv ==
    ASSUME IInv, NEW c \in Checkers, ReadRequest(c)
    PROVE  IInv'
<1>0. PICK r \in Requests : r = Of(c)
  BY AtWork DEF ReadRequest, CheckerAt
<1>1. /\ request[r] # Absent /\ checker[c].request = r
      /\ checker[c].pc = "read" /\ CheckerOK(c) /\ RequestOK(r) /\ TypeOK
  BY <1>0, AtWork DEF ReadRequest, CheckerAt, Of, IInv
<1>2. Becomes(r, Reaped(r), request[r].approver)
  BY <1>0, <1>1, StatusUpdate, ReapedType DEF ReadRequest
<1>3. UNCHANGED <<role, version, overdue, maker, effects>> /\ overdue' \subseteq Requests
  BY <1>1 DEF ReadRequest, TypeOK
<1>4. /\ Undisturbed(c, r, Reaped(r), request[r].approver)
      /\ RequestOK(r)'
  BY <1>1, <1>2, <1>3, ReapedKeeps
<1>5. CASE Return(c)
  BY <1>1, <1>2, <1>3, <1>4, <1>5, ReturnStops, StopKeeps
<1>6. ASSUME NEW pc \in {"cancel", "reject", "permissions"}, CheckerGoto(c, pc),
             Reaped(r) = "pending",
             pc = "permissions" => request[r].requester # checker[c].actor
      PROVE  IInv'
  <2>1. Moves(c, pc)
    BY <1>1, <1>6, GotoMoves
  <2>2. ~request[r].exempt
    BY <1>1, <1>6 DEF RequestOK, Reaped
  <2>3. CheckerOK(c)'
    BY <1>1, <1>2, <1>6, <2>1, <2>2 DEF CheckerOK, Moves, Becomes, Working, ReadRequest, CheckerAt
  <2> QED BY <1>1, <1>2, <1>3, <1>4, <1>6, <2>1, <2>3, MoveKeeps DEF Working
<1> QED BY <1>0, <1>5, <1>6 DEF ReadRequest

\* A checker that stops and changes nothing else.
LEMMA GiveUpInv ==
    ASSUME IInv, NEW c \in Checkers, checker[c].pc # "idle", Return(c),
           UNCHANGED <<role, version, request, overdue, maker, effects>>
    PROVE  IInv'
<1>1. PICK r \in Requests : r = Of(c)
  BY AtWork
<1>2. request[r] # Absent /\ RequestOK(r)
  BY <1>1, AtWork
<1>3. Becomes(r, request[r].status, request[r].approver) /\ Stops(c)
  BY <1>2, NoUpdate, ReturnStops DEF IInv
<1>4. Undisturbed(c, r, request[r].status, request[r].approver) /\ RequestOK(r)'
  BY <1>2 DEF Undisturbed, RequestOK
<1>5. overdue' \subseteq Requests
  BY DEF IInv, TypeOK
<1> QED BY <1>2, <1>3, <1>4, <1>5, StopKeeps

\* A checker that stops when it has ended a request that waits or that it
\* works on, with a status that says so.
LEMMA EndRequestInv ==
    ASSUME IInv, NEW c \in Checkers, checker[c].pc # "idle", Return(c),
           NEW s \in Terminal, NEW a \in Users \cup {Absent},
           Becomes(Of(c), s, a),
           checker[c].pc \in Working \/ request[Of(c)].status = "pending",
           checker[c].pc \in Working => a = request[Of(c)].approver,
           s = "executed" => effects[Of(c)] = 1,
           effects[Of(c)] > 0 => s \in {"executed", "execution_failed"},
           ~request[Of(c)].exempt,
           UNCHANGED <<role, version, overdue, maker, effects>>
    PROVE  IInv'
<1>1. PICK r \in Requests : r = Of(c)
  BY AtWork
<1>2. request[r] # Absent /\ RequestOK(r) /\ CheckerOK(c) /\ checker[c].request = r
  BY <1>1, AtWork DEF Of
<1>3. Stops(c) /\ Becomes(r, s, a)
  BY <1>1, ReturnStops DEF IInv
<1>4. Undisturbed(c, r, s, a)
  <2>1. CASE checker[c].pc \in Working
    BY <1>1, <2>1, WorksAlone
  <2>2. CASE request[r].status = "pending"
    BY <2>2, NobodyWorks
  <2> QED BY <1>1, <2>1, <2>2
<1>5. RequestOK(r)'
  BY <1>1, <1>2, <1>3 DEF RequestOK, Becomes, CheckerOK, Working
<1>6. overdue' \subseteq Requests
  BY DEF IInv, TypeOK
<1> QED BY <1>2, <1>3, <1>4, <1>5, <1>6, StopKeeps

\* Reject ends a request that waits.
LEMMA RejectInv ==
    ASSUME IInv, NEW c \in Checkers, Reject(c)
    PROVE  IInv'
<1>1. /\ checker[c].pc = "reject" /\ Return(c)
      /\ UNCHANGED <<role, version, overdue, maker, effects>>
  BY DEF Reject, CheckerAt
<1>2. CASE request[Of(c)].status # "pending"
  BY <1>1, <1>2, GiveUpInv DEF Reject
<1>3. CASE request[Of(c)].status = "pending"
  <2>1. Becomes(Of(c), "rejected", checker[c].actor)
    BY <1>1, <1>3, AtWork, ApproverUpdate DEF Reject, IInv, Terminal
  <2>2. effects[Of(c)] = 0 /\ ~request[Of(c)].exempt
    BY <1>1, <1>3, AtWork DEF RequestOK, IInv, TypeOK
  <2> QED BY <1>1, <1>3, <2>1, <2>2, AtWork, EndRequestInv DEF Terminal, Working
<1> QED BY <1>2, <1>3

\* Cancel ends a request that waits.
LEMMA CancelInv ==
    ASSUME IInv, NEW c \in Checkers, Cancel(c)
    PROVE  IInv'
<1>1. /\ checker[c].pc = "cancel" /\ Return(c)
      /\ UNCHANGED <<role, version, overdue, maker, effects>>
  BY DEF Cancel, CheckerAt
<1>2. CASE request[Of(c)].status # "pending"
  BY <1>1, <1>2, GiveUpInv DEF Cancel, Update
<1>3. CASE request[Of(c)].status = "pending"
  <2>1. Becomes(Of(c), "cancelled", request[Of(c)].approver)
    BY <1>1, <1>3, AtWork, StatusUpdate DEF Cancel, Update, IInv, Terminal
  <2>2. effects[Of(c)] = 0 /\ ~request[Of(c)].exempt
    BY <1>1, <1>3, AtWork DEF RequestOK, IInv, TypeOK
  <2>3. request[Of(c)].approver \in Users \cup {Absent}
    BY <1>1, AtWork DEF Doc
  <2> QED BY <1>1, <1>3, <2>1, <2>2, <2>3, EndRequestInv DEF Terminal, Working
<1> QED BY <1>2, <1>3

\* CheckPermissions ends a request that waits, or goes on with it as it is.
LEMMA CheckPermissionsInv ==
    ASSUME IInv, NEW c \in Checkers, CheckPermissions(c)
    PROVE  IInv'
<1>0. PICK r \in Requests : r = Of(c)
  BY AtWork DEF CheckPermissions, CheckerAt
<1>1. /\ checker[c].pc = "permissions" /\ checker[c].request = r
      /\ UNCHANGED <<role, version, overdue, maker, effects>>
      /\ request[r] # Absent /\ CheckerOK(c) /\ RequestOK(r) /\ TypeOK
  BY <1>0, AtWork DEF CheckPermissions, CheckerAt, Of, IInv
<1>2. CASE Return(c) /\ request' = request
  BY <1>1, <1>2, GiveUpInv
<1>3. CASE /\ Return(c) /\ request[r].status = "pending"
           /\ request' = [request EXCEPT ![r].status = "rejected", ![r].approver = checker[c].actor]
  <2>1. Becomes(r, "rejected", checker[c].actor)
    BY <1>0, <1>1, <1>3, AtWork, ApproverUpdate DEF Terminal
  <2>2. effects[r] = 0 /\ ~request[r].exempt
    BY <1>1, <1>3 DEF RequestOK, TypeOK
  <2> QED BY <1>0, <1>1, <1>3, <2>1, <2>2, AtWork, EndRequestInv DEF Terminal, Working
<1>4. CASE CheckerGoto(c, "claim") /\ request' = request
  <2>1. Moves(c, "claim") /\ Becomes(r, request[r].status, request[r].approver)
    BY <1>1, <1>4, GotoMoves, NoUpdate
  <2>2. Undisturbed(c, r, request[r].status, request[r].approver) /\ RequestOK(r)'
    BY <1>1, <1>4 DEF Undisturbed, RequestOK
  <2>3. CheckerOK(c)'
    BY <1>1, <1>4, <2>1 DEF CheckerOK, Moves, Working
  <2> QED BY <1>1, <2>1, <2>2, <2>3, MoveKeeps DEF Working, TypeOK
<1> QED BY <1>0, <1>2, <1>3, <1>4 DEF CheckPermissions

\* Claim makes its checker the only one that works on the request.
LEMMA ClaimInv ==
    ASSUME IInv, NEW c \in Checkers, Claim(c)
    PROVE  IInv'
<1>0. PICK r \in Requests : r = Of(c)
  BY AtWork DEF Claim, CheckerAt
<1>1. /\ checker[c].pc = "claim" /\ checker[c].request = r
      /\ UNCHANGED <<role, version, overdue, maker, effects>>
      /\ request[r] # Absent /\ CheckerOK(c) /\ RequestOK(r) /\ TypeOK
      /\ checker[c].actor \in Users
  BY <1>0, AtWork DEF Claim, CheckerAt, Of, IInv
<1>2. CASE request[r].status # "pending"
  BY <1>0, <1>1, <1>2, GiveUpInv DEF Claim
<1>3. CASE request[r].status = "pending"
  <2>1. Becomes(r, "approved", checker[c].actor)
    BY <1>0, <1>1, <1>3, ApproverUpdate DEF Claim, InFlight
  <2>2. Moves(c, "start")
    BY <1>0, <1>1, <1>3, GotoMoves DEF Claim
  <2>3. effects[r] = 0 /\ ~request[r].exempt
    BY <1>1, <1>3 DEF RequestOK, TypeOK
  <2>4. RequestOK(r)'
    BY <1>1, <2>1, <2>3 DEF RequestOK, Becomes
  <2>5. CheckerOK(c)'
    BY <1>1, <2>1, <2>2, <2>3, ApprovalAssumption DEF CheckerOK, Moves, Becomes, Working
  <2> QED BY <1>1, <1>3, <2>1, <2>2, <2>4, <2>5, NobodyWorks, MoveKeeps DEF TypeOK
<1> QED BY <1>2, <1>3

\* StartExecution goes on with what its checker has claimed.
LEMMA StartExecutionInv ==
    ASSUME IInv, NEW c \in Checkers, StartExecution(c)
    PROVE  IInv'
<1>0. PICK r \in Requests : r = Of(c)
  BY AtWork DEF StartExecution, CheckerAt
<1>1. /\ checker[c].pc = "start" /\ checker[c].request = r
      /\ UNCHANGED <<role, version, maker, effects>>
      /\ request[r] # Absent /\ CheckerOK(c) /\ RequestOK(r) /\ TypeOK
  BY <1>0, AtWork DEF StartExecution, CheckerAt, Of, IInv
<1>2. /\ request' = [request EXCEPT ![r].status = "executing"]
      /\ overdue' = overdue \ {r}
      /\ CheckerGoto(c, "version")
  BY <1>0, <1>1 DEF StartExecution, CheckerOK
<1>3. Becomes(r, "executing", request[r].approver) /\ Moves(c, "version")
  BY <1>1, <1>2, StatusUpdate, GotoMoves DEF InFlight
<1>4. RequestOK(r)'
  BY <1>1, <1>3 DEF RequestOK, Becomes, CheckerOK, Working
<1>5. CheckerOK(c)'
  BY <1>1, <1>3 DEF CheckerOK, Moves, Becomes, Working
<1>6. Undisturbed(c, r, "executing", request[r].approver)
  BY <1>0, <1>1, WorksAlone DEF Working
<1> QED BY <1>1, <1>2, <1>3, <1>4, <1>5, <1>6, MoveKeeps DEF Working, TypeOK

\* A checker at work that goes to pc, with its request as it is.
LEMMA GoOnInv ==
    ASSUME IInv, NEW c \in Checkers, checker[c].pc \in {"version", "revalidate"},
           NEW pc \in {"revalidate", "execute"}, CheckerGoto(c, pc),
           UNCHANGED <<role, version, request, overdue, maker, effects>>
    PROVE  IInv'
<1>0. PICK r \in Requests : r = Of(c)
  BY AtWork
<1>1. /\ checker[c].request = r /\ request[r] # Absent /\ CheckerOK(c) /\ RequestOK(r)
      /\ TypeOK
  BY <1>0, AtWork DEF Of, IInv
<1>2. Becomes(r, request[r].status, request[r].approver) /\ Moves(c, pc)
  BY <1>1, NoUpdate, GotoMoves
<1>3. Undisturbed(c, r, request[r].status, request[r].approver) /\ RequestOK(r)'
  BY <1>1 DEF Undisturbed, RequestOK
<1>4. CheckerOK(c)'
  BY <1>1, <1>2 DEF CheckerOK, Moves, Working
<1> QED BY <1>1, <1>2, <1>3, <1>4, MoveKeeps DEF Working, TypeOK

\* A checker that executes and ends its request, unless it has been reaped.
LEMMA EndExecutionInv ==
    ASSUME IInv, NEW c \in Checkers,
           checker[c].pc \in {"version", "revalidate", "execute", "record"},
           NEW s \in {"stale", "executed", "execution_failed"}, Return(c),
           s = "executed" => checker[c].pc = "record",
           s = "stale" => checker[c].pc # "record",
           Update(Of(c), "executing", s),
           UNCHANGED <<role, version, overdue, maker, effects>>
    PROVE  IInv'
<1>1. CASE request[Of(c)].status # "executing"
  BY <1>1, GiveUpInv DEF Update
<1>2. CASE request[Of(c)].status = "executing"
  <2>1. Becomes(Of(c), s, request[Of(c)].approver)
    BY <1>2, AtWork, StatusUpdate DEF Update, IInv, Terminal
  <2>2. /\ checker[c].pc \in Working
        /\ request[Of(c)].approver \in Users \cup {Absent}
        /\ ~request[Of(c)].exempt
        /\ effects[Of(c)] = IF checker[c].pc = "record" THEN 1 ELSE 0
    BY AtWork DEF CheckerOK, Working, Doc, Of
  <2> QED BY <2>1, <2>2, EndRequestInv DEF Terminal
<1> QED BY <1>1, <1>2

\* CheckVersion goes on, or ends a stale request.
LEMMA CheckVersionInv ==
    ASSUME IInv, NEW c \in Checkers, CheckVersion(c)
    PROVE  IInv'
BY GoOnInv, EndExecutionInv DEF CheckVersion, CheckerAt

\* CheckerRevalidate goes on, or fails the request.
LEMMA CheckerRevalidateInv ==
    ASSUME IInv, NEW c \in Checkers, CheckerRevalidate(c)
    PROVE  IInv'
BY GoOnInv, EndExecutionInv DEF CheckerRevalidate, CheckerAt

\* RecordExecuted says that the request has been executed, and it has.
LEMMA RecordExecutedInv ==
    ASSUME IInv, NEW c \in Checkers, RecordExecuted(c)
    PROVE  IInv'
BY EndExecutionInv DEF RecordExecuted, CheckerAt

\* FailExecution leaves open whether it has.
LEMMA FailExecutionInv ==
    ASSUME IInv, NEW c \in Checkers, FailExecution(c)
    PROVE  IInv'
BY EndExecutionInv DEF FailExecution

\* CheckerEnds changes no request.
LEMMA CheckerEndsInv ==
    ASSUME IInv, NEW c \in Checkers, CheckerEnds(c)
    PROVE  IInv'
BY GiveUpInv DEF CheckerEnds, CheckerAt

\* Execute carries out a command that had not been: whoever works on the
\* request is alone, and no maker executes it since it is not exempt.
LEMMA ExecuteInv ==
    ASSUME IInv, NEW c \in Checkers, Execute(c)
    PROVE  IInv'
<1>0. PICK r \in Requests : r = Of(c)
  BY AtWork DEF Execute, CheckerAt
<1>1. /\ checker[c].pc = "execute" /\ checker[c].request = r /\ checker[c].pc \in Working
      /\ UNCHANGED <<request, overdue, maker>>
      /\ request[r] # Absent /\ request[r] \in Doc /\ CheckerOK(c) /\ RequestOK(r) /\ TypeOK
  BY <1>0, AtWork DEF Execute, CheckerAt, Of, IInv, Working
<1>2. /\ request[r].target \in Users /\ request[r].command \in Roles /\ ~request[r].exempt
      /\ effects[r] = 0 /\ request[r].approver \notin {Absent, request[r].requester}
      /\ request[r].status \in {"executing", "execution_failed"}
  BY <1>1 DEF CheckerOK, Doc, Working
<1>3. effects' = [effects EXCEPT ![r] = 1]
  BY <1>0, <1>2 DEF Execute, SaveRole
<1>4. role' \in [Users -> Roles] /\ version' \in [Users -> Nat]
  BY <1>0, <1>1, <1>2 DEF Execute, SaveRole, TypeOK
<1>5. Moves(c, "record")
  BY <1>1, GotoMoves DEF Execute
<1>6. TypeOK'
  BY <1>1, <1>3, <1>4, <1>5 DEF TypeOK, Moves
<1>7. \A q \in Requests : MakerOK(q)'
  BY <1>1, <1>2, <1>3 DEF IInv, MakerOK, TypeOK
<1>8. \A q \in Requests : RequestOK(q)'
  BY <1>1, <1>2, <1>3 DEF IInv, RequestOK, TypeOK
<1>9. \A d \in Checkers : CheckerOK(d)'
  <2>1. CheckerOK(c)'
    BY <1>1, <1>2, <1>3, <1>5 DEF CheckerOK, Moves, Working, TypeOK
  <2>2. ASSUME NEW d \in Checkers \ {c} PROVE CheckerOK(d)'
    <3>1. checker'[d] = checker[d] /\ CheckerOK(d)
      BY <1>5 DEF Moves, IInv
    <3>2. checker[d].pc \in Working => checker[d].request # r
      BY <1>1 DEF IInv, Exclusive
    <3> QED BY <1>1, <1>3, <3>1, <3>2 DEF CheckerOK, TypeOK, Working
  <2> QED BY <2>1, <2>2
<1>10. Exclusive'
  BY <1>1, <1>5 DEF IInv, Exclusive, Moves, Working
<1> QED BY <1>6, <1>7, <1>8, <1>9, <1>10 DEF IInv

-----------------------------------------------------------------------------
\* The steps of a maker.  A maker that only goes on, or ends.
LEMMA MakerKeeps ==
    ASSUME IInv, NEW r \in Requests, NEW m \in MakerState, maker' = [maker EXCEPT ![r] = m],
           MakerOK(r)', UNCHANGED <<role, version, request, overdue, checker, effects>>
    PROVE  IInv'
<1>1. TypeOK'
  BY DEF IInv, TypeOK
<1>2. \A q \in Requests \ {r} : MakerOK(q)'
  BY DEF IInv, TypeOK, MakerOK
<1>3. (\A q \in Requests : RequestOK(q)') /\ (\A c \in Checkers : CheckerOK(c)') /\ Exclusive'
  BY DEF IInv, RequestOK, CheckerOK, Exclusive
<1> QED BY <1>1, <1>2, <1>3 DEF IInv

\* A maker that changes its request, which is exempt, or its effect: checkers
\* have no more than read it.
LEMMA ExemptKeeps ==
    ASSUME IInv, NEW r \in Requests, NEW m \in MakerState, maker' = [maker EXCEPT ![r] = m],
           request' \in [Requests -> Doc \cup {Absent}], effects' \in [Requests -> Nat],
           role' \in [Users -> Roles], version' \in [Users -> Nat],
           \A q \in Requests \ {r} : request'[q] = request[q] /\ effects'[q] = effects[q],
           \A c \in Checkers :
               checker[c].pc # "idle" /\ checker[c].request = r => checker[c].pc = "read",
           request'[r] # Absent, MakerOK(r)', RequestOK(r)', UNCHANGED <<overdue, checker>>
    PROVE  IInv'
<1>1. TypeOK'
  BY DEF IInv, TypeOK
<1>2. \A q \in Requests \ {r} : MakerOK(q)' /\ RequestOK(q)'
  BY DEF IInv, TypeOK, MakerOK, RequestOK
<1>3. ASSUME NEW c \in Checkers PROVE CheckerOK(c)'
  <2>1. CheckerOK(c)
    BY DEF IInv
  <2>2. CASE checker[c].request = r
    BY <2>1, <2>2 DEF CheckerOK, Working
  <2>3. CASE checker[c].request # r
    BY <2>1, <2>3 DEF CheckerOK
  <2> QED BY <2>2, <2>3
<1>4. Exclusive'
  BY DEF IInv, Exclusive
<1> QED BY <1>1, <1>2, <1>3, <1>4 DEF IInv

\* What a step of a maker's program counter does.
LEMMA MakerMoves ==
    ASSUME TypeOK, NEW r \in Requests,
           NEW pc \in {"revalidate", "version", "create", "execute", "record", "audit", "done"},
           MakerGoto(r, pc)
    PROVE  \E m \in MakerState :
             /\ maker' = [maker EXCEPT ![r] = m] /\ m.pc = pc
             /\ m.actor = maker[r].actor /\ m.target = maker[r].target
             /\ m.command = maker[r].command /\ m.exempt = maker[r].exempt
<1> DEFINE new == [maker[r] EXCEPT !.pc = pc]
<1>1. maker[r] \in MakerState
  BY DEF TypeOK
<1>2. /\ new \in MakerState /\ new.pc = pc
      /\ new.actor = maker[r].actor /\ new.target = maker[r].target
      /\ new.command = maker[r].command /\ new.exempt = maker[r].exempt
  BY <1>1 DEF MakerState
<1>3. maker' = [maker EXCEPT ![r] = new]
  BY DEF MakerGoto
<1> HIDE DEF new
<1> QED BY <1>2, <1>3

\* A maker that goes to pc and changes nothing, unless it just began to.
LEMMA MakerGoesInv ==
    ASSUME IInv, NEW r \in Requests, maker[r].pc # "idle",
           NEW pc \in {"version", "done"}, MakerGoto(r, pc),
           pc = "version" => maker[r].pc = "revalidate",
           UNCHANGED <<role, version, request, overdue, checker, effects>>
    PROVE  IInv'
<1>1. PICK m \in MakerState :
             /\ maker' = [maker EXCEPT ![r] = m] /\ m.pc = pc
             /\ m.actor = maker[r].actor /\ m.target = maker[r].target
             /\ m.command = maker[r].command /\ m.exempt = maker[r].exempt
  BY MakerMoves DEF IInv
<1>2. MakerOK(r)'
  BY <1>1 DEF IInv, TypeOK, MakerOK
<1> QED BY <1>1, <1>2, MakerKeeps

\* Ask begins.
LEMMA AskInv ==
    ASSUME IInv, NEW r \in Requests, NEW a \in Users, NEW t \in Users, NEW k \in Commands,
           Ask(r, a, t, k)
    PROVE  IInv'
<1> DEFINE new == [maker[r] EXCEPT !.pc = "prepare", !.actor = a, !.target = t, !.command = k]
<1>1. k \in Roles
  BY ApprovalAssumption
<1>2. maker[r] \in MakerState
  BY DEF IInv, TypeOK
<1>3. /\ new \in MakerState /\ new.pc = "prepare"
      /\ new.actor \in Users /\ new.target \in Users /\ new.command \in Roles
  BY <1>1, <1>2 DEF MakerState
<1>4. maker' = [maker EXCEPT ![r] = new] /\ maker[r].pc = "idle"
  BY DEF Ask, MakerAt
<1> HIDE DEF new
<1>5. MakerOK(r)'
  BY <1>3, <1>4 DEF Ask, IInv, TypeOK, MakerOK
<1> QED BY <1>3, <1>4, <1>5, MakerKeeps DEF Ask

\* Prepare decides whether the request is exempt.
LEMMA PrepareInv ==
    ASSUME IInv, NEW r \in Requests, Prepare(r)
    PROVE  IInv'
<1> DEFINE ex == ~Crosses(role[maker[r].target], maker[r].command)
           new == [maker[r] EXCEPT !.pc = "revalidate", !.exempt = ex]
<1>1. maker[r] \in MakerState /\ ex \in BOOLEAN
  BY DEF IInv, TypeOK, Crosses
<1>2. maker' = [maker EXCEPT ![r].pc = "revalidate", ![r].exempt = ex] /\ maker[r].pc = "prepare"
  BY DEF Prepare, MakerAt
<1> HIDE DEF ex
<1>3. /\ new \in MakerState /\ new.pc = "revalidate"
      /\ new.actor = maker[r].actor /\ new.target = maker[r].target
      /\ new.command = maker[r].command
  BY <1>1 DEF MakerState
<1>4. maker' = [maker EXCEPT ![r] = new]
  BY <1>2 DEF IInv, TypeOK
<1> HIDE DEF new
<1>5. MakerOK(r)'
  BY <1>2, <1>3, <1>4 DEF Prepare, IInv, TypeOK, MakerOK
<1> QED BY <1>3, <1>4, <1>5, MakerKeeps DEF Prepare

\* MakerRevalidate goes on or gives up.
LEMMA MakerRevalidateInv ==
    ASSUME IInv, NEW r \in Requests, MakerRevalidate(r)
    PROVE  IInv'
BY MakerGoesInv DEF MakerRevalidate, MakerAt

\* LoadVersion reads the version that the request will hold.
LEMMA LoadVersionInv ==
    ASSUME IInv, NEW r \in Requests, LoadVersion(r)
    PROVE  IInv'
<1> DEFINE v == version[maker[r].target]
           new == [maker[r] EXCEPT !.pc = "create", !.version = v]
<1>1. maker[r] \in MakerState /\ v \in Nat
  BY DEF LoadVersion, MakerAt, IInv, TypeOK, MakerOK
<1>2. maker' = [maker EXCEPT ![r].pc = "create", ![r].version = v] /\ maker[r].pc = "version"
  BY DEF LoadVersion, MakerAt
<1> HIDE DEF v
<1>3. /\ new \in MakerState /\ new.pc = "create"
      /\ new.actor = maker[r].actor /\ new.target = maker[r].target
      /\ new.command = maker[r].command
  BY <1>1 DEF MakerState
<1>4. maker' = [maker EXCEPT ![r] = new]
  BY <1>2 DEF IInv, TypeOK
<1> HIDE DEF new
<1>5. MakerOK(r)'
  BY <1>2, <1>3, <1>4 DEF LoadVersion, IInv, TypeOK, MakerOK
<1> QED BY <1>3, <1>4, <1>5, MakerKeeps DEF LoadVersion

\* CreateRequest creates what no checker has seen yet, or gives up.
LEMMA CreateRequestInv ==
    ASSUME IInv, NEW r \in Requests, CreateRequest(r)
    PROVE  IInv'
<1>1. /\ maker[r].pc = "create" /\ maker[r] \in MakerState
      /\ request[r] = Absent /\ effects[r] = 0
      /\ maker[r].actor \in Users /\ maker[r].target \in Users /\ maker[r].command \in Roles
      /\ UNCHANGED <<role, version, overdue, checker, effects>>
      /\ TypeOK
  BY DEF CreateRequest, MakerAt, IInv, MakerOK, RequestOK, TypeOK
<1>2. CASE UNCHANGED request /\ MakerGoto(r, "done")
  BY <1>1, <1>2, MakerGoesInv
<1>3. ASSUME NEW doc,
             doc = [status |-> IF maker[r].exempt THEN "executing" ELSE "pending",
                    target |-> maker[r].target, command |-> maker[r].command,
                    requester |-> maker[r].actor, approver |-> Absent,
                    version |-> maker[r].version, exempt |-> maker[r].exempt],
             request' = [request EXCEPT ![r] = doc],
             MakerGoto(r, IF maker[r].exempt THEN "execute" ELSE "done")
      PROVE  IInv'
  <2>1. /\ doc \in Doc /\ doc.exempt = maker[r].exempt
        /\ doc.status = IF maker[r].exempt THEN "executing" ELSE "pending"
    BY <1>1, <1>3 DEF Doc, MakerState, InFlight
  <2>2. doc # Absent
    BY <2>1, DocIsThere
  <2>3. /\ request'[r] = doc /\ request' \in [Requests -> Doc \cup {Absent}]
        /\ \A q \in Requests \ {r} : request'[q] = request[q]
    BY <1>1, <1>3, <2>1 DEF TypeOK
  <2>4. PICK m \in MakerState :
             /\ maker' = [maker EXCEPT ![r] = m]
             /\ m.pc = (IF maker[r].exempt THEN "execute" ELSE "done")
             /\ m.actor = maker[r].actor /\ m.target = maker[r].target
             /\ m.command = maker[r].command /\ m.exempt = maker[r].exempt
    <3>1. CASE maker[r].exempt
      BY <1>1, <1>3, <3>1, MakerMoves
    <3>2. CASE ~maker[r].exempt
      BY <1>1, <1>3, <3>2, MakerMoves
    <3> QED BY <3>1, <3>2
  <2>5. MakerOK(r)'
    BY <1>1, <2>1, <2>2, <2>3, <2>4 DEF MakerOK, TypeOK
  <2>6. RequestOK(r)'
    BY <1>1, <2>1, <2>2, <2>3 DEF RequestOK
  <2>7. \A c \in Checkers : checker[c].pc # "idle" => checker[c].request # r
    BY <1>1 DEF IInv, CheckerOK
  <2> QED BY <1>1, <2>2, <2>3, <2>4, <2>5, <2>6, <2>7, ExemptKeeps DEF TypeOK
<1> QED BY <1>2, <1>3 DEF CreateRequest

\* Who reads an exempt request goes no further.
LEMMA OnlyRead ==
    ASSUME IInv, NEW r \in Requests, request[r].exempt
    PROVE  \A c \in Checkers :
               checker[c].pc # "idle" /\ checker[c].request = r => checker[c].pc = "read"
BY DEF IInv, CheckerOK

\* ExecuteExempt carries out a command that had not been.
LEMMA ExecuteExemptInv ==
    ASSUME IInv, NEW r \in Requests, ExecuteExempt(r)
    PROVE  IInv'
<1>1. /\ maker[r].pc = "execute" /\ request[r] # Absent /\ request[r].exempt /\ effects[r] = 0
      /\ maker[r].target \in Users /\ maker[r].command \in Roles
      /\ UNCHANGED <<request, overdue, checker>> /\ TypeOK /\ RequestOK(r)
      /\ maker[r].actor \in Users
  BY DEF ExecuteExempt, MakerAt, IInv, MakerOK
<1>2. effects' = [effects EXCEPT ![r] = 1]
  BY <1>1 DEF ExecuteExempt, SaveRole
<1>3. role' \in [Users -> Roles] /\ version' \in [Users -> Nat]
  BY <1>1 DEF ExecuteExempt, SaveRole, TypeOK
<1>4. PICK m \in MakerState :
             /\ maker' = [maker EXCEPT ![r] = m] /\ m.pc = "record"
             /\ m.actor = maker[r].actor /\ m.target = maker[r].target
             /\ m.command = maker[r].command /\ m.exempt = maker[r].exempt
  BY <1>1, MakerMoves DEF ExecuteExempt
<1>5. MakerOK(r)' /\ RequestOK(r)'
  BY <1>1, <1>2, <1>4 DEF MakerOK, RequestOK, TypeOK
<1> QED BY <1>1, <1>2, <1>3, <1>4, <1>5, OnlyRead, ExemptKeeps DEF TypeOK

\* A maker that sets the status of its exempt request and goes on.
LEMMA ExemptStatusInv ==
    ASSUME IInv, NEW r \in Requests, maker[r].pc \in {"execute", "record", "audit"},
           NEW s \in {"executed", "execution_failed"}, NEW pc \in {"audit", "done"},
           request' = [request EXCEPT ![r].status = s], MakerGoto(r, pc),
           s = "executed" \/ pc = "audit" => maker[r].pc = "record",
           UNCHANGED <<role, version, overdue, checker, effects>>
    PROVE  IInv'
<1>1. /\ request[r] # Absent /\ request[r].exempt /\ TypeOK /\ RequestOK(r) /\ MakerOK(r)
      /\ effects \in [Requests -> Nat]
  BY DEF IInv, MakerOK, TypeOK
<1>2. Becomes(r, s, request[r].approver)
  BY <1>1, StatusUpdate DEF Terminal
<1>3. PICK m \in MakerState :
             /\ maker' = [maker EXCEPT ![r] = m] /\ m.pc = pc
             /\ m.actor = maker[r].actor /\ m.target = maker[r].target
             /\ m.command = maker[r].command /\ m.exempt = maker[r].exempt
  BY <1>1, MakerMoves
<1>4. MakerOK(r)' /\ RequestOK(r)'
  BY <1>1, <1>2, <1>3 DEF MakerOK, RequestOK, Becomes, TypeOK
<1> QED BY <1>1, <1>2, <1>3, <1>4, OnlyRead, ExemptKeeps DEF TypeOK, Becomes

\* RecordExempt says that the request has been executed, and it has.
LEMMA RecordExemptInv ==
    ASSUME IInv, NEW r \in Requests, RecordExempt(r)
    PROVE  IInv'
BY ExemptStatusInv DEF RecordExempt, MakerAt

\* AuditExempt ends.
LEMMA AuditExemptInv ==
    ASSUME IInv, NEW r \in Requests, AuditExempt(r)
    PROVE  IInv'
BY MakerGoesInv DEF AuditExempt, MakerAt

\* FailExempt leaves open whether the request has been executed.
LEMMA FailExemptInv ==
    ASSUME IInv, NEW r \in Requests, FailExempt(r)
    PROVE  IInv'
BY ExemptStatusInv DEF FailExempt, MakerAt

\* MakerEnds changes no request.
LEMMA MakerEndsInv ==
    ASSUME IInv, NEW r \in Requests, MakerEnds(r)
    PROVE  IInv'
BY MakerGoesInv DEF MakerEnds

-----------------------------------------------------------------------------
\* The steps of nobody in particular.  Reap ends what is overdue, and whoever
\* executes it then will not record it as anything else.
LEMMA ReapInv ==
    ASSUME IInv, NEW r \in Requests, Reap(r)
    PROVE  IInv'
<1>1. /\ request[r] # Absent /\ TypeOK
      /\ UNCHANGED <<role, version, overdue, maker, checker, effects>>
  BY DEF Reap, IInv
<1>2. Becomes(r, Reaped(r), request[r].approver)
  BY <1>1, StatusUpdate, ReapedType DEF Reap
<1>3. \A q \in Requests : MakerOK(q)'
  BY <1>1, <1>2 DEF IInv, MakerOK, Becomes
<1>4. \A q \in Requests \ {r} : RequestOK(q)'
  BY <1>1, <1>2 DEF IInv, RequestOK, Becomes
<1>5. RequestOK(r)'
  <2>1. RequestOK(r)
    BY DEF IInv
  <2>2. \/ Reaped(r) = request[r].status
        \/ request[r].status = "pending" /\ Reaped(r) = "expired"
        \/ request[r].status = "executing" /\ Reaped(r) = "execution_failed"
    BY DEF Reaped
  <2> QED BY <1>1, <1>2, <2>1, <2>2 DEF RequestOK, Becomes
<1>6. ASSUME NEW c \in Checkers PROVE CheckerOK(c)'
  <2>1. CheckerOK(c)
    BY DEF IInv
  <2>2. \/ Reaped(r) = request[r].status
        \/ request[r].status = "pending"
        \/ request[r].status = "executing" /\ Reaped(r) = "execution_failed"
    BY DEF Reaped
  <2>3. CASE checker[c].request # r
    BY <1>1, <1>2, <2>1, <2>3 DEF CheckerOK, Becomes
  <2>4. CASE checker[c].request = r
    BY <1>1, <1>2, <2>1, <2>2, <2>4 DEF CheckerOK, Becomes, Working
  <2> QED BY <2>3, <2>4
<1>7. TypeOK' /\ Exclusive'
  BY <1>1, <1>2 DEF IInv, TypeOK, Exclusive, Becomes
<1> QED BY <1>3, <1>4, <1>5, <1>6, <1>7 DEF IInv

\* The passing of time concerns no request's status.
LEMMA OverdueInv ==
    ASSUME IInv, NEW r \in Requests, Overdue(r)
    PROVE  IInv'
<1>1. TypeOK'
  BY DEF IInv, TypeOK, Overdue
<1> QED BY <1>1 DEF Overdue, IInv, MakerOK, RequestOK, CheckerOK, Exclusive

\* Nor does a write of a user.
LEMMA WriteUserInv ==
    ASSUME IInv, NEW u \in Users, WriteUser(u)
    PROVE  IInv'
<1>1. TypeOK'
  BY DEF IInv, TypeOK, WriteUser
<1> QED BY <1>1 DEF WriteUser, IInv, MakerOK, RequestOK, CheckerOK, Exclusive

\* Nothing has begun.
LEMMA InitInv == Init => IInv
<1> SUFFICES ASSUME Init PROVE IInv
  OBVIOUS
<1>1. TypeOK
  <2> DEFINE m0 == [pc |-> "idle", actor |-> Absent, target |-> Absent,
                    command |-> Absent, exempt |-> FALSE, version |-> 0]
             k0 == [pc |-> "idle", actor |-> Absent, request |-> Absent]
  <2>1. m0 \in MakerState /\ k0 \in CheckerState
    BY DEF MakerState, CheckerState
  <2>2. maker = [r \in Requests |-> m0] /\ checker = [c \in Checkers |-> k0]
    BY DEF Init
  <2> HIDE DEF m0, k0
  <2> QED BY <2>1, <2>2, ApprovalAssumption DEF Init, TypeOK
<1>2. \A r \in Requests : MakerOK(r) /\ RequestOK(r)
  BY DEF Init, MakerOK, RequestOK
<1>3. (\A c \in Checkers : CheckerOK(c)) /\ Exclusive
  BY DEF Init, CheckerOK, Exclusive, Working
<1> QED BY <1>1, <1>2, <1>3 DEF IInv

\* Every step of a maker preserves the invariant.
LEMMA MakeInv ==
    ASSUME IInv, NEW r \in Requests, Make(r)
    PROVE  IInv'
BY AskInv, PrepareInv, MakerRevalidateInv, LoadVersionInv, CreateRequestInv, ExecuteExemptInv,
   RecordExemptInv, AuditExemptInv, FailExemptInv, MakerEndsInv DEF Make

\* So does every step of a checker.
LEMMA CheckInv ==
    ASSUME IInv, NEW c \in Checkers, Check(c)
    PROVE  IInv'
BY BeginInv, ReadRequestInv, RejectInv, CancelInv, CheckPermissionsInv, ClaimInv,
   StartExecutionInv, CheckVersionInv, CheckerRevalidateInv, ExecuteInv, RecordExecutedInv,
   FailExecutionInv, CheckerEndsInv DEF Check

\* And so does every step.
LEMMA NextInv == IInv /\ [Next]_vars => IInv'
<1>1. ASSUME IInv, UNCHANGED vars PROVE IInv'
  BY <1>1 DEF vars, IInv, TypeOK, MakerOK, RequestOK, CheckerOK, Exclusive
<1> QED BY <1>1, MakeInv, CheckInv, ReapInv, OverdueInv, WriteUserInv DEF Next

\* The invariant holds of every behaviour of makers, checkers, reapers and
\* other writers, whatever fails among them.
THEOREM Inductive == Spec => []IInv
BY InitInv, NextInv, PTL DEF Spec

\* Every variable keeps its type.
THEOREM TypeCorrect == Spec => []TypeOK
<1>1. IInv => TypeOK
  BY DEF IInv
<1> QED BY <1>1, Inductive, PTL

\* A command is executed at most once, for any number of administrators who
\* approve, retry and reap its request at the same time.
THEOREM AtMostOnce == Spec => []ExecutedAtMostOnce
<1>1. IInv => ExecutedAtMostOnce
  BY DEF IInv, RequestOK, ExecutedAtMostOnce
<1> QED BY <1>1, Inductive, PTL

\* No command that is not exempt is executed without the approval of somebody
\* else than its requester.
THEOREM FourEyesHold == Spec => []FourEyes
<1>1. IInv => FourEyes
  BY DEF IInv, TypeOK, RequestOK, FourEyes
<1> QED BY <1>1, Inductive, PTL

\* A request that says it has been executed has been, exactly once, and one
\* that says it was rejected, cancelled, expired or stale has not.
THEOREM StatusTruthful == Spec => []StatusTellsEffect
<1>1. IInv => StatusTellsEffect
  BY DEF IInv, RequestOK, StatusTellsEffect
<1> QED BY <1>1, Inductive, PTL

-----------------------------------------------------------------------------
\* To write a status that is there already changes nothing.
LEMMA SameStatus ==
    ASSUME TypeOK, NEW q \in Requests, request[q] # Absent,
           request' = [request EXCEPT ![q].status = request[q].status]
    PROVE  request' = request
<1> DEFINE new == [request[q] EXCEPT !.status = request[q].status]
<1>1. request[q] \in Doc
  BY DEF TypeOK
<1>2. new = request[q]
  BY <1>1 DEF Doc
<1>3. request' = [request EXCEPT ![q] = new]
  OBVIOUS
<1> HIDE DEF new
<1> QED BY <1>2, <1>3 DEF TypeOK

\* Reaping changes only what waits or executes.
LEMMA ReapedIsFinal ==
    ASSUME TypeOK, NEW q \in Requests, request[q] # Absent,
           request' = [request EXCEPT ![q].status = Reaped(q)],
           NEW r \in Requests, request[r].status \in Terminal
    PROVE  request'[r] = request[r]
<1>1. CASE request[q].status \in Terminal
  <2>1. Reaped(q) = request[q].status
    BY <1>1 DEF Reaped, Terminal
  <2> QED BY <2>1, SameStatus
<1>2. CASE request[q].status \notin Terminal
  BY <1>2 DEF TypeOK
<1> QED BY <1>1, <1>2

\* A maker changes only the request it creates or an exempt one.
LEMMA MakeIsFinal ==
    ASSUME IInv, NEW q \in Requests, Make(q),
           NEW r \in Requests, request[r] # Absent, ~request[r].exempt
    PROVE  request'[r] = request[r]
<1>1. MakerOK(q)
  BY DEF IInv
<1>2. CASE request' = request
  BY <1>2
<1>3. CASE CreateRequest(q)
  BY <1>1, <1>3 DEF CreateRequest, MakerAt, MakerOK, IInv, TypeOK
<1>4. CASE RecordExempt(q) \/ FailExempt(q)
  BY <1>1, <1>4 DEF RecordExempt, FailExempt, MakerAt, MakerOK, IInv, TypeOK
<1> QED BY <1>2, <1>3, <1>4 DEF Make, Ask, Prepare, MakerRevalidate, LoadVersion,
                              ExecuteExempt, AuditExempt, MakerEnds

\* A checker changes only what is in the status that it expects.
LEMMA CheckIsFinal ==
    ASSUME IInv, NEW c \in Checkers, Check(c),
           NEW r \in Requests, request[r] # Absent, request[r].status \in Terminal
    PROVE  request'[r] = request[r]
<1>1. request[r].status \notin {"pending", "approved", "executing"}
  BY DEF Terminal
<1>2. CASE request' = request
  BY <1>2
<1>3. CASE ReadRequest(c)
  <2>1. PICK q \in Requests : q = Of(c) /\ request[q] # Absent
    BY <1>3, AtWork DEF ReadRequest, CheckerAt
  <2> QED BY <1>3, <2>1, ReapedIsFinal DEF ReadRequest, IInv
<1>4. CASE Reject(c) \/ Cancel(c) \/ CheckPermissions(c) \/ Claim(c)
  BY <1>1, <1>4 DEF Reject, Cancel, CheckPermissions, Claim, Update, IInv, TypeOK
<1>5. CASE StartExecution(c) \/ CheckVersion(c) \/ CheckerRevalidate(c)
  BY <1>1, <1>5 DEF StartExecution, CheckVersion, CheckerRevalidate, Update, IInv, TypeOK
<1>6. CASE RecordExecuted(c) \/ FailExecution(c)
  BY <1>1, <1>6 DEF RecordExecuted, FailExecution, Update, IInv, TypeOK
<1> QED BY <1>2, <1>3, <1>4, <1>5, <1>6 DEF Check, Begin, Execute, CheckerEnds

\* Whoever races for a request that had to be approved, its last status stays.
THEOREM TerminalStays == Spec => TerminalIsFinal
<1>1. ASSUME IInv, [Next]_vars
      PROVE  [\A r \in Requests :
                request[r] # Absent /\ ~request[r].exempt /\ request[r].status \in Terminal
                  => request'[r] = request[r]]_vars
  <2>1. CASE UNCHANGED vars
    BY <2>1
  <2>2. CASE \E q \in Requests : Make(q)
    BY <1>1, <2>2, MakeIsFinal
  <2>3. CASE \E q \in Requests : Reap(q)
    BY <1>1, <2>3, ReapedIsFinal DEF Reap, IInv
  <2>4. CASE \E c \in Checkers : Check(c)
    BY <1>1, <2>4, CheckIsFinal
  <2>5. CASE (\E q \in Requests : Overdue(q)) \/ (\E u \in Users : WriteUser(u))
    BY <2>5 DEF Overdue, WriteUser
  <2> QED BY <1>1, <2>1, <2>2, <2>3, <2>4, <2>5 DEF Next
<1> QED BY <1>1, Inductive, PTL DEF Spec, TerminalIsFinal
=============================================================================
