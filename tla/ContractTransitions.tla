------------------------- MODULE ContractTransitions -------------------------
(***************************************************************************)
(* The transitions of hire-purchase contracts                              *)
(* (lib/services/contract-transition.service.ts with the tables of         *)
(* lib/contracts/state-machine.ts), the vehicles they assign, and the      *)
(* audit log that every one of them is recorded in.                        *)
(*                                                                         *)
(* A process is one call of transitionHirePurchaseContract.  Contract and  *)
(* vehicle are read and written in one transaction, its own or the one its *)
(* caller has open; the audit event is written between the updates and the *)
(* commit, and outside of the transaction.                                 *)
(***************************************************************************)
EXTENDS AuditChain

CONSTANTS Contracts, Vehicles,
          Requests,      \* [Processes -> SUBSET RequestDoc]: what a caller may ask for
          InitialStates, \* [Contracts -> SUBSET Status]
          VehicleOf,     \* the vehicle of a contract that begins with one, or None
          Settled,       \* the contracts whose payable balance is paid
          KycApproved    \* the contracts whose driver is verified

Status == {"PENDING_APPROVAL", "APPROVED", "VEHICLE_ASSIGNED", "ACTIVE", "DELINQUENT",
           "RESTRUCTURED", "COMPLETED", "REPOSSESSED", "CANCELLED", "CLOSED"}
Actor == {"admin", "driver", "system"}
VehicleStatus == {"Available", "Reserved", "Financed", "Maintenance", "Retired"}
\* VALID_TRANSITIONS.
Valid(from, to) ==
    CASE from = "PENDING_APPROVAL" -> to \in {"APPROVED", "CANCELLED"}
      [] from = "APPROVED"         -> to \in {"VEHICLE_ASSIGNED", "CANCELLED"}
      [] from = "VEHICLE_ASSIGNED" -> to \in {"ACTIVE", "CANCELLED"}
      [] from = "ACTIVE"           -> to \in {"DELINQUENT", "RESTRUCTURED", "COMPLETED"}
      [] from = "DELINQUENT"       -> to \in {"ACTIVE", "RESTRUCTURED", "REPOSSESSED", "COMPLETED"}
      [] from = "RESTRUCTURED"     -> to \in {"ACTIVE", "DELINQUENT", "REPOSSESSED", "COMPLETED"}
      [] from = "COMPLETED"        -> to \in {"ACTIVE", "CLOSED"}
      [] from \in {"REPOSSESSED", "CANCELLED"} -> to = "CLOSED"
      [] from = "CLOSED"           -> FALSE

RequestDoc == [contract : Contracts, target : Status, actor : Actor,
               vehicle : Vehicles \cup {None},  \* vehicleId
               terms : BOOLEAN,                 \* restructure brings a new term
               version : Nat \cup {None}]       \* expectedVersion
ContractDoc == [status : Status, version : Nat, vehicle : Vehicles \cup {None},
                timeline : Seq(Events)]
CallState == [pc : {"start", "contract", "vehicle", "audit", "commit",
                    "applied", "refused", "died"},
              request : RequestDoc \cup {None}, from : Status \cup {None},
              vehicle : Vehicles \cup {None}, wrote : SUBSET (Contracts \cup Vehicles)]

ASSUME ContractAssumption ==
    /\ Requests \in [Processes -> SUBSET RequestDoc]
    /\ Events = {e \in [process : Processes, contract : Contracts, from : Status, to : Status] :
                    Valid(e.from, e.to)}
    /\ InitialStates \in [Contracts -> SUBSET Status]
    /\ VehicleOf \in [Contracts -> Vehicles \cup {None}]
    /\ Settled \subseteq Contracts /\ KycApproved \subseteq Contracts
    /\ Contracts \cap Vehicles = {}
    /\ None \notin Contracts \cup Vehicles \cup Status \cup Nat \cup RequestDoc

VARIABLES contract, vehicle,   \* the documents; of a vehicle, its status
          open, missed,        \* MongoDB's transactions
          call

INSTANCE SnapshotTransactions WITH Txns <- Processes, Docs <- Contracts \cup Vehicles

contractVars == <<contract, vehicle, open, missed, call>>
vars == <<auditVars, contractVars>>

-----------------------------------------------------------------------------
\* TRANSITION_ACTORS and isActorAllowedForTransition: what a driver may cancel
\* is what Valid lets anybody cancel.
Allowed(to, actor) ==
    \/ actor = "admin" /\ to # "PENDING_APPROVAL"
    \/ actor = "system" /\ to \in {"ACTIVE", "DELINQUENT", "COMPLETED", "CLOSED"}
    \/ actor = "driver" /\ to = "CANCELLED"

\* The preconditions of the single targets, on the documents as they are read.
Precondition(r) ==
    LET c == r.contract
    IN  /\ r.target = "VEHICLE_ASSIGNED" =>
               r.vehicle # None /\ vehicle[r.vehicle] = "Available"
        /\ (r.target = "ACTIVE" /\ contract[c].status = "VEHICLE_ASSIGNED") =>
               c \in KycApproved /\ contract[c].vehicle # None
        /\ r.target = "COMPLETED" => c \in Settled
        /\ r.target = "RESTRUCTURED" => r.terms

\* The vehicle that the transition updates, if there is one.
Touches(r) ==
    LET c == contract[r.contract]
    IN  CASE r.target = "VEHICLE_ASSIGNED" -> r.vehicle
          [] r.target = "ACTIVE" /\ c.status = "VEHICLE_ASSIGNED" -> c.vehicle
          [] r.target = "REPOSSESSED" -> c.vehicle
          [] OTHER -> None

\* What becomes of it: assigning it and repossessing it reserve it.
StatusAfter(target) == IF target = "ACTIVE" THEN "Financed" ELSE "Reserved"

-----------------------------------------------------------------------------
At(p, pc) == call[p].pc = pc
Goto(p, pc) == call' = [call EXCEPT ![p].pc = pc]
Event(p) == [process |-> p, contract |-> call[p].request.contract,
             from |-> call[p].from, to |-> call[p].request.target]

\* Roll back, and answer with the refusal.
GiveBack(p, pc) == /\ call' = [call EXCEPT ![p] = [@ EXCEPT !.pc = pc, !.wrote = {}]]
                   /\ TxnAbort(p)

\* The contract, and the vehicle that is to be assigned, are read; whatever they
\* forbid ends the call.  A call for the status that there is has nothing to do.
Start(p, r) ==
    LET c == contract[r.contract]
    IN  /\ At(p, "start")
        /\ IF c.status # r.target /\ Valid(c.status, r.target)
              /\ Allowed(r.target, r.actor) /\ Precondition(r)
           THEN /\ call' = [call EXCEPT ![p] = [@ EXCEPT !.pc = "contract", !.request = r,
                                                  !.from = c.status, !.vehicle = Touches(r)]]
                /\ TxnBegin(p)
           ELSE Goto(p, "refused") /\ UNCHANGED <<open, missed>>
        /\ UNCHANGED <<auditVars, contract, vehicle>>

\* The first transaction to write a document keeps the others from it.
FreeMutant(p, d) == TRUE                     \* the update is not in the session
Free(p, d) == d \notin missed[p] /\ \A q \in open \ {p} : d \notin call[q].wrote

\* findOneAndUpdate on the version; a conflict or another version ends the call.
UpdateContract(p) ==
    LET r == call[p].request
    IN  /\ At(p, "contract")
        /\ IF Free(p, r.contract) /\ r.version \in {None, contract[r.contract].version}
           THEN /\ call' = [call EXCEPT ![p] =
                       [@ EXCEPT !.pc = IF call[p].vehicle = None THEN "audit" ELSE "vehicle",
                                 !.wrote = {r.contract}]]
                /\ UNCHANGED <<open, missed>>
           ELSE GiveBack(p, "refused")
        /\ UNCHANGED <<auditVars, contract, vehicle>>

\* The vehicle's side effect.
UpdateVehicle(p) ==
    /\ At(p, "vehicle")
    /\ IF Free(p, call[p].vehicle)
       THEN /\ call' = [call EXCEPT ![p] = [@ EXCEPT !.pc = "audit",
                                              !.wrote = call[p].wrote \cup {call[p].vehicle}]]
            /\ UNCHANGED <<open, missed>>
       ELSE GiveBack(p, "refused")
    /\ UNCHANGED <<auditVars, contract, vehicle>>

Audit(p) ==
    /\ At(p, "audit")
    /\ LogAuditEvent(p, Event(p))
    /\ UNCHANGED contractVars

AuditedMutant(p) ==                          \* a failure to audit is only logged
    /\ At(p, "audit") /\ audit[p].pc \in {"ok", "failed"}
    /\ Goto(p, "commit")
    /\ UNCHANGED <<auditVars, contract, vehicle, open, missed>>
\* "contract" is a critical pattern: a failure to audit ends the call.
Audited(p) ==
    /\ At(p, "audit")
    /\ \/ AuditAt(p, "ok") /\ Goto(p, "commit") /\ UNCHANGED <<open, missed>>
       \/ AuditAt(p, "failed") /\ GiveBack(p, "refused")
    /\ UNCHANGED <<auditVars, contract, vehicle>>

Applied(p) ==
    LET r == call[p].request
    IN  [contract EXCEPT ![r.contract] =
            [status   |-> r.target,
             version  |-> @.version + 1,
             vehicle  |-> IF r.target = "VEHICLE_ASSIGNED" THEN r.vehicle ELSE @.vehicle,
             timeline |-> Append(@.timeline, Event(p))]]

\* What was written is nobody else's, so that nothing is left to refuse.
CommitTransition(p) ==
    /\ At(p, "commit")
    /\ open' = open \ {p} /\ Publish(p, call[p].wrote)
    /\ contract' = Applied(p)
    /\ vehicle' = IF call[p].vehicle = None THEN vehicle
                  ELSE [vehicle EXCEPT ![call[p].vehicle] = StatusAfter(call[p].request.target)]
    /\ call' = [call EXCEPT ![p] = [@ EXCEPT !.pc = "applied", !.wrote = {}]]
    /\ UNCHANGED auditVars

\* The database ends the transaction, or the caller does that it is part of.
RolledBack(p) ==
    /\ faults < MaxFaults /\ faults' = faults + 1
    /\ call[p].pc \in {"contract", "vehicle", "commit"}
    /\ GiveBack(p, "refused")
    /\ UNCHANGED <<chainVars, audit, contract, vehicle>>

\* The process dies, also while it writes the audit event.
Die(p) ==
    /\ faults < MaxFaults /\ faults' = faults + 1
    /\ p \in open
    /\ GiveBack(p, "died")
    /\ audit' = [audit EXCEPT ![p] = NoCall]
    /\ UNCHANGED <<chainVars, contract, vehicle>>

\* Loans, maintenance orders and administrators write a vehicle's status as well,
\* outside of these transactions; such a write waits for a transaction's.
WriteVehicle(v, s) ==
    /\ faults < MaxFaults /\ faults' = faults + 1
    /\ \A p \in open : v \notin call[p].wrote
    /\ vehicle[v] # s
    /\ vehicle' = [vehicle EXCEPT ![v] = s]
    /\ PlainWrite({v})
    /\ UNCHANGED <<chainVars, audit, contract, call>>

-----------------------------------------------------------------------------
InitialVehicle(v) ==
    LET held == {c \in Contracts : contract[c].vehicle = v}
    IN  IF held = {} THEN "Available"
        ELSE IF \E c \in held : contract[c].status \in {"VEHICLE_ASSIGNED", "REPOSSESSED", "CANCELLED"}
             THEN "Reserved" ELSE "Financed"

\* Contracts from before there was a version or a timeline.
Init ==
    /\ AuditInit /\ TxnInit
    /\ \E s \in [Contracts -> Status] :
           /\ \A c \in Contracts : s[c] \in InitialStates[c]
           /\ contract = [c \in Contracts |->
                  [status |-> s[c], version |-> 0, timeline |-> <<>>,
                   vehicle |-> IF s[c] \in {"PENDING_APPROVAL", "APPROVED"} THEN None
                               ELSE VehicleOf[c]]]
    /\ vehicle = [v \in Vehicles |-> InitialVehicle(v)]
    /\ call = [p \in Processes |-> [pc |-> "start", request |-> None, from |-> None,
                                    vehicle |-> None, wrote |-> {}]]

Transition(p) == \/ UpdateContract(p) \/ UpdateVehicle(p) \/ Audit(p) \/ Audited(p)
                 \/ CommitTransition(p)
Auditing(p) == AuditProgress(p) /\ UNCHANGED contractVars

Next == \/ \E p \in Processes : \/ \E r \in Requests[p] : Start(p, r)
                                \/ Transition(p) \/ RolledBack(p) \/ Die(p)
                                \/ AuditStep(p) /\ UNCHANGED contractVars
        \/ \E v \in Vehicles, s \in VehicleStatus : WriteVehicle(v, s)

Spec == Init /\ [][Next]_vars

\* A process that has begun goes on: every query returns and every wait ends.
Fairness == \A p \in Processes : WF_vars(Transition(p) \/ Auditing(p))
FairSpec == Spec /\ Fairness

-----------------------------------------------------------------------------
TypeOK ==
    /\ AuditTypeOK /\ TxnTypeOK
    /\ contract \in [Contracts -> ContractDoc]
    /\ vehicle \in [Vehicles -> VehicleStatus]
    /\ call \in [Processes -> CallState]

\* "Two competing transitions on the same contract can never both apply"
\* (docs/contract-state-machine.md): the timeline is one path through the table
\* that ends at the contract's status, and has one entry for each version.
TimelineTellsHistory ==
    \A c \in Contracts :
        LET path == contract[c].timeline
        IN  /\ Len(path) = contract[c].version
            /\ \A i \in 1..Len(path) :
                  /\ path[i].contract = c /\ Valid(path[i].from, path[i].to)
                  /\ path[i].to = IF i = Len(path) THEN contract[c].status ELSE path[i + 1].from

\* Critical audit failures "must block the business action"
\* (docs/tamper-evident-audit.md): no transition is in a timeline that is not in
\* the audit log, although the log is written by itself and may refuse.
CommittedIsAudited ==
    \A c \in Contracts : \A i \in 1..Len(contract[c].timeline) :
        \E n \in Sequences : entries[n].event = contract[c].timeline[i]

\* A vehicle is given to a contract only while it is available, whoever else has
\* taken it after the transaction has read it.
TakenWhenAvailable ==
    [][\A c \in Contracts : contract'[c].vehicle # contract[c].vehicle =>
           vehicle[contract'[c].vehicle] = "Available"]_vars

\* A transition that has begun is applied or refused, also when the audit log
\* waits for an entry that nobody will write.
CallsEnd == \A p \in Processes : At(p, "contract") ~> call[p].pc \in {"applied", "refused", "died"}
=============================================================================
