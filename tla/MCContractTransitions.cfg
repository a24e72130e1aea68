SPECIFICATION FairSpec
CONSTANTS
  p1 = p1 p2 = p2 p3 = p3 c1 = c1 c2 = c2 v1 = v1
  None = None
  Processes = {p1, p2, p3}
  Contracts = {c1, c2}
  Vehicles = {v1}
  Requests <- AllRequests
  Events <- AllEvents
  InitialStates <- States
  VehicleOf <- VehiclesOf
  Settled = {c1}
  KycApproved = {c1}
  Threshold = 2
  MaxFaults = 1
INVARIANTS AuditVerifies TimelineTellsHistory CommittedIsAudited
PROPERTIES RefinesSealedLog TakenWhenAvailable CallsEnd
CHECK_DEADLOCK FALSE
