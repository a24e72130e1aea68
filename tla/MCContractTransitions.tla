------------------------ MODULE MCContractTransitions ------------------------
EXTENDS ContractTransitions

CONSTANTS p1, p2, p3, c1, c2, v1

\* c1 may be anywhere in its life, with v1; c2 waits for a vehicle.
States == [c \in Contracts |-> IF c = c1 THEN Status ELSE {"APPROVED"}]
VehiclesOf == [c \in Contracts |-> IF c = c1 THEN v1 ELSE None]

AllEvents == {e \in [process : Processes, contract : Contracts, from : Status, to : Status] :
                 Valid(e.from, e.to)}

\* p1 asks for any target, some of them refused or outdated; p2 competes with it
\* for the contract and p3 for the vehicle.
Ask(c, to, actor, v) == [contract |-> c, target |-> to, actor |-> actor, vehicle |-> v,
                         terms |-> to = "RESTRUCTURED", version |-> None]
AllRequests ==
    [p \in Processes |->
        CASE p = p1 -> {Ask(c1, to, "admin", None) : to \in {"APPROVED", "ACTIVE", "COMPLETED", "REPOSSESSED"}}
                       \cup {Ask(c1, "CLOSED", "system", None), Ask(c1, "RESTRUCTURED", "admin", None),
                             Ask(c1, "VEHICLE_ASSIGNED", "admin", v1)}
          [] p = p2 -> {Ask(c1, "CANCELLED", "driver", None),
                        [Ask(c1, "DELINQUENT", "system", None) EXCEPT !.version = 0]}
          [] p = p3 -> {Ask(c2, "VEHICLE_ASSIGNED", "admin", v1)}]
=============================================================================
