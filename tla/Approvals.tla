----------------------------- MODULE Approvals -----------------------------
(***************************************************************************)
(* Maker-checker approvals (lib/approvals/service.ts) of the operation     *)
(* whose executor changes a user's role (lib/approvals/executors.ts).      *)
(*                                                                         *)
(* A maker is one execution of createApprovalRequest: it prepares the      *)
(* command, checks it, and creates the request, which waits for a second   *)
(* administrator unless the command is exempt.  A checker is an            *)
(* administrator's handler that approves, rejects or cancels requests, one *)
(* after the other; an approval executes the request in the same call.     *)
(* Every await is a place where others may run, and every update of a      *)
(* request is one findOneAndUpdate; there is no transaction.               *)
(***************************************************************************)
EXTENDS Integers, FiniteSets

CONSTANTS Users,
          Requests,      \* calls of createApprovalRequest, with the request each may make
          Checkers,      \* handlers at work at the same time
          Commands,      \* the roles that are asked for
          InitialRole,   \* by user
          MaxVersion,    \* bound: how often others may write a user
          Absent

Roles == {"admin", "driver", "investor"}

InFlight == {"pending", "approved", "executing"}
Terminal == {"rejected", "cancelled", "expired", "stale", "executed", "execution_failed"}

Doc == [status : InFlight \cup Terminal, target : Users, command : Roles,
        requester : Users, approver : Users \cup {Absent}, version : Nat, exempt : BOOLEAN]
MakerState == [pc : {"idle", "prepare", "revalidate", "version", "create",
                     "execute", "record", "audit", "done"},
               actor : Users \cup {Absent}, target : Users \cup {Absent},
               command : Roles \cup {Absent}, exempt : BOOLEAN, version : Nat]
CheckerState == [pc : {"idle", "read", "reject", "cancel", "permissions", "claim",
                       "start", "version", "revalidate", "execute", "record"},
                 actor : Users \cup {Absent}, request : Requests \cup {Absent}]

ASSUME ApprovalAssumption ==
    /\ IsFiniteSet(Users) /\ InitialRole \in [Users -> Roles] /\ Commands \subseteq Roles
    /\ MaxVersion \in Nat
    /\ Absent \notin Users \cup Requests \cup Doc

VARIABLES role,      \* User.role
          version,   \* User.updatedAt
          request,   \* ApprovalRequest
          overdue,   \* pending past expiresAt, or executing for EXECUTION_TIMEOUT_MS
          maker, checker,
          effects    \* history: how often a request's command has been saved

vars == <<role, version, request, overdue, maker, checker, effects>>

-----------------------------------------------------------------------------
Admins == {u \in Users : role[u] = "admin"}

\* isPrivilegeCrossingRoleChange: only these need a second administrator.
Crosses(from, to) == from # to /\ (from = "admin" \/ to = "admin")

\* revalidate: at least one administrator must remain.  What others do between
\* its two reads can only make it refuse, which a failure does as well.
Revalid(u, next) ==
    role[u] = "admin" /\ next # "admin" => Cardinality(Admins) > 1

\* The unique index on the target of requests in flight.
InFlightFor(u) == \E r \in Requests : /\ request[r] # Absent
                                      /\ request[r].target = u
                                      /\ request[r].status \in InFlight

\* execute: what save writes does not depend on what findById read, except
\* that nothing is written when the role is already there.
SaveRole(r, u, next) ==
    /\ role' = [role EXCEPT ![u] = next]
    /\ version' = [version EXCEPT ![u] = @ + IF role[u] = next THEN 0 ELSE 1]
    /\ effects' = [effects EXCEPT ![r] = @ + 1]

\* Operators named *Mutant are the bugs that the properties below must notice;
\* nothing in the specification uses them.
UpdateMutant(r, from, to) ==                 \* without the expected status
    request' = [request EXCEPT ![r].status = to]
\* findOneAndUpdate({_id, status: from}, {status: to}): nothing if it has moved on.
Update(r, from, to) ==
    request' = IF request[r].status = from THEN [request EXCEPT ![r].status = to]
               ELSE request

-----------------------------------------------------------------------------
\* createApprovalRequest.
MakerAt(r, pc) == maker[r].pc = pc
MakerGoto(r, pc) == maker' = [maker EXCEPT ![r].pc = pc]

\* PUT /api/users/[id]: nobody takes the admin role from himself.
Ask(r, actor, target, command) ==
    /\ MakerAt(r, "idle")
    /\ role[actor] = "admin" /\ role[target] # command
    /\ actor = target => command = "admin"
    /\ maker' = [maker EXCEPT ![r] = [@ EXCEPT !.pc = "prepare", !.actor = actor,
                                               !.target = target, !.command = command]]
    /\ UNCHANGED <<role, version, request, overdue, checker, effects>>

Prepare(r) ==
    /\ MakerAt(r, "prepare")
    /\ maker' = [maker EXCEPT ![r].pc = "revalidate",
                              ![r].exempt = ~Crosses(role[maker[r].target], maker[r].command)]
    /\ UNCHANGED <<role, version, request, overdue, checker, effects>>

MakerRevalidate(r) ==
    /\ MakerAt(r, "revalidate")
    /\ MakerGoto(r, IF Revalid(maker[r].target, maker[r].command) THEN "version" ELSE "done")
    /\ UNCHANGED <<role, version, request, overdue, checker, effects>>

LoadVersion(r) ==
    /\ MakerAt(r, "version")
    /\ maker' = [maker EXCEPT ![r].pc = "create", ![r].version = version[maker[r].target]]
    /\ UNCHANGED <<role, version, request, overdue, checker, effects>>

CreateRequest(r) ==
    LET m == maker[r]
    IN  /\ MakerAt(r, "create")
        /\ \/ /\ InFlightFor(m.target)
              /\ MakerGoto(r, "done")
              /\ UNCHANGED request
           \/ /\ ~InFlightFor(m.target)
              /\ request' = [request EXCEPT ![r] =
                    [status |-> IF m.exempt THEN "executing" ELSE "pending",
                     target |-> m.target, command |-> m.command, requester |-> m.actor,
                     approver |-> Absent, version |-> m.version, exempt |-> m.exempt]]
              /\ MakerGoto(r, IF m.exempt THEN "execute" ELSE "done")
        /\ UNCHANGED <<role, version, overdue, checker, effects>>

\* The exempt path: it executes at once, and records without a condition.
ExecuteExempt(r) ==
    /\ MakerAt(r, "execute")
    /\ SaveRole(r, maker[r].target, maker[r].command)
    /\ MakerGoto(r, "record")
    /\ UNCHANGED <<request, overdue, checker>>

RecordExempt(r) ==
    /\ MakerAt(r, "record")
    /\ request' = [request EXCEPT ![r].status = "executed"]
    /\ MakerGoto(r, "audit")
    /\ UNCHANGED <<role, version, overdue, checker, effects>>

AuditExempt(r) ==
    /\ MakerAt(r, "audit")
    /\ MakerGoto(r, "done")
    /\ UNCHANGED <<role, version, request, overdue, checker, effects>>

\* An update or an audit event that the code requires could not be written.
FailExempt(r) ==
    /\ \E pc \in {"execute", "record", "audit"} : MakerAt(r, pc)
    /\ request' = [request EXCEPT ![r].status = "execution_failed"]
    /\ MakerGoto(r, "done")
    /\ UNCHANGED <<role, version, overdue, checker, effects>>

\* An error before the request exists, or the death of the process.
MakerEnds(r) ==
    /\ maker[r].pc \notin {"idle", "done"}
    /\ MakerGoto(r, "done")
    /\ UNCHANGED <<role, version, request, overdue, checker, effects>>

-----------------------------------------------------------------------------
\* decideApprovalRequest, cancelApprovalRequest and executeClaimedRequest.
CheckerAt(c, pc) == checker[c].pc = pc
Of(c) == checker[c].request
CheckerGoto(c, pc) == checker' = [checker EXCEPT ![c].pc = pc]
Return(c) == checker' = [checker EXCEPT ![c] =
                            [pc |-> "idle", actor |-> Absent, request |-> Absent]]

\* The route has authenticated an administrator.
Begin(c, actor, r) ==
    /\ CheckerAt(c, "idle")
    /\ role[actor] = "admin" /\ request[r] # Absent
    /\ checker' = [checker EXCEPT ![c] = [pc |-> "read", actor |-> actor, request |-> r]]
    /\ UNCHANGED <<role, version, request, overdue, maker, effects>>

ReapedMutant(r) == IF r \in overdue THEN "timed_out" ELSE request[r].status   \* no such status
Reaped(r) == IF r \notin overdue THEN request[r].status
             ELSE CASE request[r].status = "pending"   -> "expired"
                    [] request[r].status = "executing" -> "execution_failed"
                    [] OTHER                           -> request[r].status

ReadRequestMutant(c) ==                      \* whoever reads it may approve it
    /\ CheckerAt(c, "read")
    /\ request' = [request EXCEPT ![Of(c)].status = Reaped(Of(c))]
    /\ IF Reaped(Of(c)) # "pending" THEN Return(c) ELSE CheckerGoto(c, "permissions")
    /\ UNCHANGED <<role, version, overdue, maker, effects>>

\* The request is read and reaped; the administrator decides what is pending,
\* but does not decide his own.
ReadRequest(c) ==
    LET r == Of(c)
    IN  /\ CheckerAt(c, "read")
        /\ request' = [request EXCEPT ![r].status = Reaped(r)]
        /\ IF Reaped(r) # "pending" THEN Return(c)
           ELSE \/ CheckerGoto(c, "cancel")
                \/ /\ request[r].requester # checker[c].actor
                   /\ \/ CheckerGoto(c, "reject")
                      \/ CheckerGoto(c, "permissions")
        /\ UNCHANGED <<role, version, overdue, maker, effects>>

Reject(c) ==
    LET r == Of(c)
    IN  /\ CheckerAt(c, "reject")
        /\ request' = IF request[r].status # "pending" THEN request
                      ELSE [request EXCEPT ![r].status = "rejected",
                                           ![r].approver = checker[c].actor]
        /\ Return(c)
        /\ UNCHANGED <<role, version, overdue, maker, effects>>

Cancel(c) ==
    /\ CheckerAt(c, "cancel")
    /\ Update(Of(c), "pending", "cancelled")
    /\ Return(c)
    /\ UNCHANGED <<role, version, overdue, maker, effects>>

\* Both sides must still be administrators, or the request is rejected.
CheckPermissions(c) ==
    LET r == Of(c)  lost == role[request[r].requester] # "admin"
    IN  /\ CheckerAt(c, "permissions")
        /\ IF role[checker[c].actor] # "admin"
           THEN Return(c) /\ UNCHANGED request
           ELSE IF lost
           THEN Return(c) /\ request' = IF request[r].status # "pending" THEN request
                                        ELSE [request EXCEPT ![r].status = "rejected",
                                                             ![r].approver = checker[c].actor]
           ELSE CheckerGoto(c, "claim") /\ UNCHANGED request
        /\ UNCHANGED <<role, version, overdue, maker, effects>>

ClaimMutant(c) ==                            \* the status is not expected
    /\ CheckerAt(c, "claim")
    /\ request' = [request EXCEPT ![Of(c)].status = "approved",
                                  ![Of(c)].approver = checker[c].actor]
    /\ CheckerGoto(c, "start")
    /\ UNCHANGED <<role, version, overdue, maker, effects>>
Claim(c) ==
    LET r == Of(c)
    IN  /\ CheckerAt(c, "claim")
        /\ IF request[r].status # "pending" THEN Return(c) /\ UNCHANGED request
           ELSE /\ request' = [request EXCEPT ![r].status = "approved",
                                              ![r].approver = checker[c].actor]
                /\ CheckerGoto(c, "start")
        /\ UNCHANGED <<role, version, overdue, maker, effects>>

StartExecution(c) ==
    LET r == Of(c)
    IN  /\ CheckerAt(c, "start")
        /\ IF request[r].status # "approved" THEN Return(c) /\ UNCHANGED <<request, overdue>>
           ELSE /\ request' = [request EXCEPT ![r].status = "executing"]
                /\ overdue' = overdue \ {r}
                /\ CheckerGoto(c, "version")
        /\ UNCHANGED <<role, version, maker, effects>>

CheckVersion(c) ==
    LET r == Of(c)
    IN  /\ CheckerAt(c, "version")
        /\ IF version[request[r].target] = request[r].version
           THEN CheckerGoto(c, "revalidate") /\ UNCHANGED request
           ELSE Return(c) /\ Update(r, "executing", "stale")
        /\ UNCHANGED <<role, version, overdue, maker, effects>>

CheckerRevalidate(c) ==
    LET r == Of(c)
    IN  /\ CheckerAt(c, "revalidate")
        /\ IF Revalid(request[r].target, request[r].command)
           THEN CheckerGoto(c, "execute") /\ UNCHANGED request
           ELSE Return(c) /\ Update(r, "executing", "execution_failed")
        /\ UNCHANGED <<role, version, overdue, maker, effects>>

Execute(c) ==
    LET r == Of(c)
    IN  /\ CheckerAt(c, "execute")
        /\ SaveRole(r, request[r].target, request[r].command)
        /\ CheckerGoto(c, "record")
        /\ UNCHANGED <<request, overdue, maker>>

RecordExecuted(c) ==
    /\ CheckerAt(c, "record")
    /\ Update(Of(c), "executing", "executed")
    /\ Return(c)
    /\ UNCHANGED <<role, version, overdue, maker, effects>>

\* An error while it executes, before or after the role is saved.
FailExecution(c) ==
    /\ checker[c].pc \in {"version", "revalidate", "execute", "record"}
    /\ Update(Of(c), "executing", "execution_failed")
    /\ Return(c)
    /\ UNCHANGED <<role, version, overdue, maker, effects>>

\* An error that leaves the request as it is, or the death of the process.
CheckerEnds(c) ==
    /\ ~CheckerAt(c, "idle")
    /\ Return(c)
    /\ UNCHANGED <<role, version, request, overdue, maker, effects>>

-----------------------------------------------------------------------------
\* getApprovalRequestById and listApprovalRequests reap what they read.
Reap(r) ==
    /\ request[r] # Absent /\ Reaped(r) # request[r].status
    /\ request' = [request EXCEPT ![r].status = Reaped(r)]
    /\ UNCHANGED <<role, version, overdue, maker, checker, effects>>

\* Time passes; and other handlers write the user (a profile, a wallet).
Overdue(r) ==
    /\ request[r] # Absent /\ request[r].status \in {"pending", "executing"}
    /\ r \notin overdue
    /\ overdue' = overdue \cup {r}
    /\ UNCHANGED <<role, version, request, maker, checker, effects>>

WriteUser(u) ==
    /\ version[u] < MaxVersion
    /\ version' = [version EXCEPT ![u] = @ + 1]
    /\ UNCHANGED <<role, request, overdue, maker, checker, effects>>

-----------------------------------------------------------------------------
Init == /\ role = InitialRole
        /\ version = [u \in Users |-> 0]
        /\ request = [r \in Requests |-> Absent]
        /\ overdue = {}
        /\ maker = [r \in Requests |-> [pc |-> "idle", actor |-> Absent, target |-> Absent,
                                        command |-> Absent, exempt |-> FALSE, version |-> 0]]
        /\ checker = [c \in Checkers |-> [pc |-> "idle", actor |-> Absent, request |-> Absent]]
        /\ effects = [r \in Requests |-> 0]

Make(r) == \/ \E a, t \in Users, command \in Commands : Ask(r, a, t, command)
           \/ Prepare(r)
           \/ MakerRevalidate(r)
           \/ LoadVersion(r)
           \/ CreateRequest(r)
           \/ ExecuteExempt(r)
           \/ RecordExempt(r)
           \/ AuditExempt(r)
           \/ FailExempt(r)
           \/ MakerEnds(r)

Check(c) == \/ \E a \in Users, r \in Requests : Begin(c, a, r)
            \/ ReadRequest(c)
            \/ Reject(c)
            \/ Cancel(c)
            \/ CheckPermissions(c)
            \/ Claim(c)
            \/ StartExecution(c)
            \/ CheckVersion(c)
            \/ CheckerRevalidate(c)
            \/ Execute(c)
            \/ RecordExecuted(c)
            \/ FailExecution(c)
            \/ CheckerEnds(c)

Next == \/ \E r \in Requests : Make(r) \/ Reap(r) \/ Overdue(r)
        \/ \E c \in Checkers : Check(c)
        \/ \E u \in Users : WriteUser(u)

Spec == Init /\ [][Next]_vars

-----------------------------------------------------------------------------
\* The type of every variable.
TypeOK ==
    /\ role \in [Users -> Roles]
    /\ version \in [Users -> Nat]
    /\ request \in [Requests -> Doc \cup {Absent}]
    /\ overdue \subseteq Requests
    /\ maker \in [Requests -> MakerState]
    /\ checker \in [Checkers -> CheckerState]
    /\ effects \in [Requests -> Nat]

\* However often a request is approved, retried, reaped while it executes, or
\* cut off, its command is executed at most once.
ExecutedAtMostOnce == \A r \in Requests : effects[r] <= 1

\* A command that has been executed and is not exempt was approved by somebody
\* else than who asked for it.
FourEyes ==
    \A r \in Requests :
        effects[r] > 0 /\ ~request[r].exempt
            => request[r].approver \notin {Absent, request[r].requester}

\* What a request's status says of its command: done, or not done.  Only a
\* request that is executing or has failed leaves it open.
StatusTellsEffect ==
    \A r \in Requests :
        request[r] # Absent =>
            /\ request[r].status = "executed" => effects[r] = 1
            /\ effects[r] > 0 => request[r].status \in {"executing", "executed",
                                                       "execution_failed"}

\* A request that had to be approved keeps its last status, whoever raced for it.
TerminalIsFinal ==
    [][\A r \in Requests :
          request[r] # Absent /\ ~request[r].exempt /\ request[r].status \in Terminal
            => request'[r] = request[r]]_vars

\* docs/maker-checker-approvals.md: granting or removing the admin role always
\* requires approval; only lateral changes are exempt, and are so when they are
\* carried out.
PrivilegeNeedsApproval ==
    [][\A r \in Requests :
          ExecuteExempt(r) => ~Crosses(role[maker[r].target], maker[r].command)]_vars

\* docs/maker-checker-approvals.md: revalidate guarantees that at least one
\* administrator remains.
AnAdminRemains == Admins # {}
=============================================================================
