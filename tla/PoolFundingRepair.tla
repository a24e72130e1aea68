-------------------------- MODULE PoolFundingRepair --------------------------
(***************************************************************************)
(* The data-integrity scanner (lib/integrity/scanner.ts and catalog.ts)    *)
(* and the repair RECALCULATE_POOL_FUNDING (lib/integrity/repairEngine.ts) *)
(* at work while investors invest.  The scanner compares pools with        *)
(* investments that it reads later; the repair writes totals that it       *)
(* computed before its transaction began.                                  *)
(***************************************************************************)
EXTENDS PoolInvestment

VARIABLES scanned,   \* the pools as the scan in progress has read them
          finding,   \* InvariantFinding.status of each pool
          proposed   \* the totals that previewRepair computed, by pool

repairVars == <<scanned, finding, proposed>>

TotalsDoc == [raised : Nat, investorCount : Nat]
Finding == {"none", "OPEN", "FAILED", "REPAIRED"}

\* The two totals, recomputed from the confirmed investments of a pool.
ActualTotals(p) ==
    LET mine == {i \in investment : i.pool = p}
    IN  [raised |-> SumFunction([i \in mine |-> i.amount]),
         investorCount |-> Cardinality({i.user : i \in mine})]

Cached(doc) == [raised |-> doc.raised, investorCount |-> doc.investorCount]

-----------------------------------------------------------------------------
\* InvestmentPool.find({}), and then the investments of one pool after another.
ScanPools ==
    /\ \A p \in Pools : scanned[p] = Absent
    /\ scanned' = pool
    /\ UNCHANGED <<vars, finding, proposed>>

ScanInvestments(p) ==
    /\ scanned[p] # Absent
    /\ scanned' = [scanned EXCEPT ![p] = Absent]
    /\ finding' = [finding EXCEPT ![p] =
          IF Cached(scanned[p]) # ActualTotals(p) /\ @ \in {"none", "REPAIRED"}
          THEN "OPEN" ELSE @]
    /\ UNCHANGED <<vars, proposed>>

\* applyRepair on a finding that is not REPAIRED: it first calls previewRepair.
PreviewRepair(p) ==
    /\ finding[p] \in {"OPEN", "FAILED"}
    /\ proposed[p] = Absent
    /\ proposed' = [proposed EXCEPT ![p] = ActualTotals(p)]
    /\ UNCHANGED <<vars, scanned, finding>>

\* The transaction only writes: whatever was committed before it is overwritten.
ApplyRepair(p) ==
    /\ proposed[p] # Absent
    /\ pool' = [pool EXCEPT ![p].raised = proposed[p].raised,
                            ![p].investorCount = proposed[p].investorCount]
    /\ PlainWrite({<<"pool", p>>})
    /\ finding' = [finding EXCEPT ![p] = "REPAIRED"]
    /\ proposed' = [proposed EXCEPT ![p] = Absent]
    /\ UNCHANGED <<user, reservation, investment, call, credited, scanned>>

FailRepair(p) ==
    /\ proposed[p] # Absent
    /\ finding' = [finding EXCEPT ![p] = "FAILED"]
    /\ proposed' = [proposed EXCEPT ![p] = Absent]
    /\ UNCHANGED <<vars, scanned>>

-----------------------------------------------------------------------------
RepairInit == /\ Init
              /\ scanned = [p \in Pools |-> Absent]
              /\ finding = [p \in Pools |-> "none"]
              /\ proposed = [p \in Pools |-> Absent]

RepairNext == \/ Next /\ UNCHANGED repairVars
              \/ ScanPools
              \/ \E p \in Pools : \/ ScanInvestments(p)
                                  \/ PreviewRepair(p)
                                  \/ ApplyRepair(p)
                                  \/ FailRepair(p)

RepairSpec == RepairInit /\ [][RepairNext]_<<vars, repairVars>>

-----------------------------------------------------------------------------
\* The type of every variable.
RepairTypeOK ==
    /\ TypeOK
    /\ scanned \in [Pools -> PoolDoc \cup {Absent}]
    /\ finding \in [Pools -> Finding]
    /\ proposed \in [Pools -> TotalsDoc \cup {Absent}]

\* A repair errs on one side only: what it writes was true when it was previewed, so
\* that a pool never claims money or investors that it does not have.
NeverOverstated ==
    \A p \in Pools : pool[p] # Absent =>
        /\ pool[p].raised <= ActualTotals(p).raised
        /\ pool[p].investorCount <= ActualTotals(p).investorCount

Agrees(p) == Cached(pool[p]) = ActualTotals(p)

\* docs/DATA_INTEGRITY_CATALOG.md calls it a safe repair subsystem: no repair
\* makes the totals of a pool disagree with its investments that agreed before.
RepairIsSafe ==
    [][\A p \in Pools : pool[p] # Absent /\ Agrees(p) => Agrees(p)']_<<vars, repairVars>>
=============================================================================
