-------------------------- MODULE AtomicInvestment --------------------------
(***************************************************************************)
(* What investing in a pool promises, with no transaction, retry, snapshot *)
(* or crash in sight: a wallet is credited, a pool is opened, and an       *)
(* investment happens at once or not at all, at most once for each of an   *)
(* investor's idempotency keys, out of money the wallet has and within the *)
(* capacity the pool still has.                                            *)
(***************************************************************************)
EXTENDS Integers

CONSTANTS Users, Pools, Keys, Amounts, Credits,
          Target,           \* [Pools -> Nat]: targetAmountNgn
          MinContribution,  \* [Pools -> Nat]: minContributionNgn
          TotalUnits,       \* TOTAL_OWNERSHIP_UNITS
          KycApproved,      \* the users whose verification is approved
          Absent            \* a pool or a reservation that does not exist

VARIABLES user,         \* the money fields of the User documents
          pool,         \* the InvestmentPool documents
          reservation,  \* the InvestmentReservation documents, by user and key
          investment    \* the PoolInvestment documents

invVars == <<user, pool, reservation, investment>>

\* What an investor's share of the target is, rounded down.
OwnershipUnits(p, a) == (a * TotalUnits) \div Target[p]

CanPay(u, w, a)    == u \in KycApproved /\ w.available >= a
HasRoom(p, r, a)   == /\ r # Absent
                      /\ r.status = "OPEN"
                      /\ a >= MinContribution[p]
                      /\ Target[p] - r.raised >= a
HasInvested(u, p)  == \E i \in investment : i.user = u /\ i.pool = p

\* The pool after an investment of a, by an investor that is new or is not.
Raised(p, r, a, new) ==
    [raised        |-> r.raised + a,
     investorCount |-> r.investorCount + IF new THEN 1 ELSE 0,
     status        |-> IF r.raised + a >= Target[p] THEN "FUNDED" ELSE r.status]

NewPool == [raised |-> 0, investorCount |-> 0, status |-> "OPEN"]

Credit(u, a) ==
    /\ user' = [user EXCEPT ![u].available = @ + a]
    /\ UNCHANGED <<pool, reservation, investment>>

CreatePool(p) ==
    /\ pool[p] = Absent
    /\ pool' = [pool EXCEPT ![p] = NewPool]
    /\ UNCHANGED <<user, reservation, investment>>

Invest(u, p, a, k) ==
    /\ reservation[u][k] = Absent
    /\ CanPay(u, user[u], a)
    /\ HasRoom(p, pool[p], a)
    /\ user' = [user EXCEPT ![u].available = @ - a, ![u].totalInvested = @ + a]
    /\ pool' = [pool EXCEPT ![p] = Raised(p, pool[p], a, ~HasInvested(u, p))]
    /\ reservation' = [reservation EXCEPT ![u][k] = [status |-> "SETTLED", amount |-> a]]
    /\ investment' = investment \cup
          {[user |-> u, key |-> k, pool |-> p, amount |-> a,
            units |-> OwnershipUnits(p, a)]}

Init == /\ user = [u \in Users |-> [available |-> 0, held |-> 0, totalInvested |-> 0]]
        /\ pool = [p \in Pools |-> Absent]
        /\ reservation = [u \in Users |-> [k \in Keys |-> Absent]]
        /\ investment = {}

Next == \/ \E u \in Users, a \in Credits : Credit(u, a)
        \/ \E p \in Pools : CreatePool(p)
        \/ \E u \in Users, p \in Pools, a \in Amounts, k \in Keys : Invest(u, p, a, k)

Spec == Init /\ [][Next]_invVars
=============================================================================
