-------------------------- MODULE RepaymentsProofs --------------------------
(***************************************************************************)
(* Theorems about Repayments for every set of references, contracts,       *)
(* investors and deliveries, every amount, balance and stake.              *)
(***************************************************************************)
EXTENDS Repayments, Sums, TLAPS

-----------------------------------------------------------------------------
\* How a payment is split.
LEMMA TotalFacts ==
    ASSUME NEW s \in [Investors -> Nat]
    PROVE  Total(s) \in Nat /\ (Total(s) = 0 <=> \A i \in Investors : s[i] = 0)
<1>1. SumFunctionOnSet(s, Investors) \in Int /\ SumFunctionOnSet(s, Investors) >= 0
  <2>1. \A i \in Investors : s[i] \in Int /\ s[i] >= 0
    OBVIOUS
  <2> QED BY <2>1, RepaymentAssumption, SumType
<1>2. SumFunctionOnSet(s, Investors) = 0 <=> \A i \in Investors : s[i] = 0
  BY RepaymentAssumption, SumZero
<1> QED BY <1>1, <1>2 DEF Total

\* Rounding down: what is left of n when t goes into it as often as it can.
LEMMA Rounding ==
    ASSUME NEW n \in Nat, NEW t \in Nat \ {0}
    PROVE  n \div t \in Nat /\ t * (n \div t) <= n /\ n < t * ((n \div t) + 1)
  OBVIOUS

LEMMA TooFewForOne ==
    ASSUME NEW n \in Nat, NEW m \in Nat, NEW t \in Nat \ {0}, NEW f \in Nat,
           t * f <= n, n <= m, m < t * (0 + 1)
    PROVE  f = 0
<1>1. t * (0 + 1) = t
  OBVIOUS
<1>2. t * f < t
  <2>1. t * f \in Int
    OBVIOUS
  <2> QED BY <1>1, <2>1
<1>3. ASSUME f # 0 PROVE FALSE
  <2>1. f - 1 \in Nat /\ f = (f - 1) + 1
    BY <1>3
  <2>2. t * ((f - 1) + 1) = t * (f - 1) + t
    BY <2>1
  <2>3. t * (f - 1) >= 0
    BY <2>1
  <2>4. t * f = t * (f - 1) + t
    BY <2>1, <2>2
  <2> QED BY <1>2, <2>1, <2>3, <2>4
<1> QED BY <1>3

\* All of a payment is split, and whoever leads the others has a share of it.
LEMMA SharesFacts ==
    ASSUME NEW s \in [Investors -> Nat], NEW a \in Nat
    PROVE  /\ Shares(s, a) \in [Investors -> Nat]
           /\ Total(Shares(s, a)) = IF Total(s) = 0 THEN 0 ELSE a
           /\ \A i \in Investors :
                 a > 0 /\ s[i] > 0 /\ (\A j \in Investors \ {i} : s[j] < s[i])
                    => Shares(s, a)[i] > 0
<1>1. CASE Total(s) = 0
  <2>1. Shares(s, a) = [i \in Investors |-> 0]
    BY <1>1 DEF Shares
  <2>2. Total([i \in Investors |-> 0]) = 0
    BY TotalFacts
  <2>3. \A i \in Investors : s[i] = 0
    BY <1>1, TotalFacts
  <2> QED BY <1>1, <2>1, <2>2, <2>3
<1>2. CASE Total(s) # 0
  <2>1. PICK t : t = Total(s)
    OBVIOUS
  <2>2. t \in Nat \ {0}
    BY <1>2, <2>1, TotalFacts
  <2>3. PICK F : F = [i \in Investors |-> (a * s[i]) \div t]
    OBVIOUS
  <2>4. \A i \in Investors : F[i] \in Nat /\ t * F[i] <= a * s[i] /\ a * s[i] < t * (F[i] + 1)
    <3> SUFFICES ASSUME NEW i \in Investors
                 PROVE  F[i] \in Nat /\ t * F[i] <= a * s[i] /\ a * s[i] < t * (F[i] + 1)
      OBVIOUS
    <3>1. PICK n : n = a * s[i]
      OBVIOUS
    <3>2. n \in Nat /\ F[i] = n \div t
      BY <2>3, <3>1
    <3> QED BY <2>2, <3>1, <3>2, Rounding
  <2>5. PICK sum : sum = Total(F)
    OBVIOUS
  <2>6. sum \in Nat /\ sum <= a
    <3>1. F \in [Investors -> Nat]
      BY <2>3, <2>4
    <3>2. sum \in Nat
      BY <2>5, <3>1, TotalFacts
    <3>3. t * sum <= a * t
      BY <2>1, <2>2, <2>4, <2>5, RepaymentAssumption, SumScaled DEF Total
    <3> QED BY <2>2, <3>2, <3>3
  <2>7. PICK largest : largest = CHOOSE i \in Investors : \A j \in Investors : s[i] >= s[j]
    OBVIOUS
  <2>8. largest \in Investors /\ \A j \in Investors : s[largest] >= s[j]
    <3>1. Investors # {}
      BY <1>2, TotalFacts
    <3>2. \E i \in Investors : \A j \in Investors : s[i] >= s[j]
      BY <3>1, RepaymentAssumption, LargestExists
    <3> QED BY <2>7, <3>2
  <2>9. PICK h, B : /\ h = Shares(s, a)
                    /\ B = [i \in Investors |-> IF i = largest THEN a - sum ELSE 0]
    OBVIOUS
  <2>10. h = [i \in Investors |-> F[i] + IF i = largest THEN a - sum ELSE 0]
    BY <1>2, <2>1, <2>3, <2>5, <2>7, <2>9 DEF Shares
  <2>11. h \in [Investors -> Nat]
    <3>1. a - sum \in Nat
      BY <2>6
    <3> QED BY <2>4, <2>10, <3>1
  <2>12. Total(h) = a
    <3>1. Total(h) = Total(F) + Total(B)
      <4>1. \A i \in Investors : F[i] \in Int /\ B[i] \in Int /\ h[i] = F[i] + B[i]
        BY <2>4, <2>6, <2>9, <2>10
      <4> QED BY <4>1, RepaymentAssumption, SumSplit DEF Total
    <3>2. Total(B) = B[largest] + SumFunctionOnSet(B, Investors \ {largest})
      <4>1. \A i \in Investors : B[i] \in Int
        BY <2>6, <2>9
      <4> QED BY <2>8, <4>1, RepaymentAssumption, SumRemove DEF Total
    <3>3. SumFunctionOnSet(B, Investors \ {largest}) = 0
      <4>1. \A i \in Investors \ {largest} : B[i] \in Nat /\ B[i] = 0
        BY <2>9
      <4>2. IsFiniteSet(Investors \ {largest})
        BY RepaymentAssumption, FS_Subset
      <4> QED BY <4>1, <4>2, SumZero
    <3> QED BY <2>5, <2>6, <2>8, <2>9, <3>1, <3>2, <3>3
  <2>13. ASSUME NEW i \in Investors, a > 0, s[i] > 0, \A j \in Investors \ {i} : s[j] < s[i]
         PROVE  h[i] > 0
    <3> SUFFICES ASSUME ~(h[i] > 0) PROVE FALSE
      OBVIOUS
    <3>1. i = largest
      BY <2>8, <2>13
    <3>2. F[i] = 0 /\ sum = a
      BY <2>4, <2>6, <2>10, <3>1
    <3>3. ASSUME NEW j \in Investors PROVE F[j] = 0
      <4>1. s[j] <= s[i] /\ s[j] \in Nat /\ s[i] \in Nat
        BY <2>8, <3>1
      <4>2. a * s[j] <= a * s[i]
        BY <4>1
      <4>3. t * F[j] <= a * s[j] /\ a * s[i] < t * (F[i] + 1) /\ F[j] \in Nat
        BY <2>4
      <4>4. a * s[j] \in Nat /\ a * s[i] \in Nat /\ a * s[i] < t * (0 + 1)
        BY <3>2, <4>1, <4>3
      <4> QED BY <2>2, <4>2, <4>3, <4>4, TooFewForOne
    <3>4. Total(F) = 0
      <4>1. F \in [Investors -> Nat]
        BY <2>3, <2>4
      <4> QED BY <3>3, <4>1, TotalFacts
    <3>5. a = 0
      BY <2>5, <3>2, <3>4
    <3>6. a > 0
      BY <2>13
    <3> QED BY <3>5, <3>6
  <2>14. \A i \in Investors :
            a > 0 /\ s[i] > 0 /\ (\A j \in Investors \ {i} : s[j] < s[i]) => h[i] > 0
    BY <2>13
  <2>15. Total(Shares(s, a)) = IF Total(s) = 0 THEN 0 ELSE a
    BY <1>2, <2>9, <2>12
  <2> QED BY <2>9, <2>11, <2>14, <2>15
<1> QED BY <1>1, <1>2

-----------------------------------------------------------------------------
\* Who leads a pool from the start leads it for ever.
Leads(c, i) ==
    /\ stake[c][i] > MaxStake[i]
    /\ \A j \in Investors \ {i} : stake[c][j] < stake[c][i] /\ MaxStake[j] < stake[c][i]

StakesGrow ==
    \A c \in Contracts, i \in Investors :
        \/ stake'[c][i] = stake[c][i]
        \/ stake[c][i] < MaxStake[i] /\ stake'[c][i] = stake[c][i] + 1

LEMMA LeadersStay ==
    ASSUME TypeOK, TypeOK', StakesGrow, NEW c \in Contracts
    PROVE  /\ \A i \in Investors : Leads(c, i)' <=> Leads(c, i)
           /\ LedFromTheStart(c)' <=> LedFromTheStart(c)
<1>0. /\ \A j \in Investors : stake[c][j] \in Nat /\ stake'[c][j] \in Nat
      /\ \A j \in Investors : MaxStake[j] \in Nat
  <2>1. stake \in [Contracts -> [Investors -> Nat]] /\ stake' \in [Contracts -> [Investors -> Nat]]
    BY DEF TypeOK
  <2> QED BY <2>1, RepaymentAssumption
<1>1. \A j \in Investors : \/ stake'[c][j] = stake[c][j]
                           \/ stake[c][j] < MaxStake[j] /\ stake'[c][j] = stake[c][j] + 1
  BY DEF StakesGrow
<1>2. \A i \in Investors : Leads(c, i)' <=> Leads(c, i)
  <2>1. ASSUME NEW i \in Investors, Leads(c, i) PROVE Leads(c, i)'
    BY <1>0, <1>1, <2>1 DEF Leads
  <2>2. ASSUME NEW i \in Investors, Leads(c, i)' PROVE Leads(c, i)
    BY <1>0, <1>1, <2>2 DEF Leads
  <2> QED BY <2>1, <2>2
<1>3. LedFromTheStart(c) <=> \E i \in Investors : Leads(c, i)
  BY DEF LedFromTheStart, Leads
<1>4. LedFromTheStart(c)' <=> \E i \in Investors : Leads(c, i)'
  BY DEF LedFromTheStart, Leads
<1>5. LedFromTheStart(c)' <=> LedFromTheStart(c)
  BY <1>2, <1>3, <1>4
<1> QED BY <1>2, <1>5

-----------------------------------------------------------------------------
\* What the snapshot of d is worth: it is what the database holds, unless d has
\* missed the document, and what was confirmed, booked or invested remains so.
SnapSound(d, r, s) ==
    LET c == ContractOf[r]
    IN  /\ s \in Snapshot
        /\ s.payment = payment[r] \/ <<"payment", r>> \in missed[d]
        /\ s.contract = contract[c] \/ <<"contract", c>> \in missed[d]
        /\ s.payment.status = "CONFIRMED" => Confirmed(r)
        /\ \/ s.credited
           \/ \A i \in Investors : credit[r][i] = 0 \/ <<"credit", r, i>> \in missed[d]
        /\ s.booked => booked[r] > 0
        /\ \A i \in Investors :
              \/ s.stake[i] = stake[c][i]
              \/ s.stake[i] <= stake[c][i] /\ stake[c][i] <= MaxStake[i]
        /\ LedFromTheStart(c) => (s.credited <=> s.payment.status = "CONFIRMED")

\* A delivery meets the unique index of what was posted only for a payment that
\* has been confirmed.
MissedIsConfirmed(d) ==
    \A r \in Refs :
        (\/ <<"allocation", r>> \in missed[d]
         \/ \E i \in Investors : <<"credit", r, i>> \in missed[d]) => Confirmed(r)

CallSound(d) ==
    LET r == call[d].ref  pc == call[d].pc
    IN  /\ pc \in {"create", "begin", "txn", "retry", "retrytxn", "ok"} => r \in Refs
        /\ d \in open <=> pc \in {"txn", "retrytxn"}
        /\ pc \in {"begin", "retry"} => payment[r] # Absent
        /\ pc \in {"retry", "ok"} => Confirmed(r)
        /\ pc = "retrytxn" => call[d].snap.payment.status = "CONFIRMED"
        /\ d \in open => SnapSound(d, r, call[d].snap) /\ MissedIsConfirmed(d)
        /\ d \notin open => missed[d] = {}
CallsSound == \A d \in Deliveries : CallSound(d)

\* What a step does to the database: nothing is taken back, and it publishes
\* (at least) the documents in W.
DbMoves ==
    /\ \A r \in Refs : payment[r] # Absent => payment'[r] # Absent
    /\ \A r \in Refs : Confirmed(r) => Confirmed(r)'
    /\ \A r \in Refs : booked[r] > 0 => booked'[r] > 0
    /\ StakesGrow

Covers(W) ==
    /\ \A r \in Refs : payment'[r] = payment[r] \/ <<"payment", r>> \in W
    /\ \A c \in Contracts : contract'[c] = contract[c] \/ <<"contract", c>> \in W
    /\ \A r \in Refs, i \in Investors :
          credit'[r][i] = credit[r][i] \/ <<"credit", r, i>> \in W
    /\ \A r \in Refs : (\/ <<"allocation", r>> \in W
                        \/ \E i \in Investors : <<"credit", r, i>> \in W) => Confirmed(r)'

\* What becomes of another delivery meanwhile.
Misses(o, W) ==
    /\ call'[o] = call[o]
    /\ o \in open' <=> o \in open
    /\ o \in open => missed'[o] = missed[o] \cup W
    /\ o \notin open => missed'[o] \subseteq missed[o]

LEMMA StillSound ==
    ASSUME TypeOK, TypeOK', NEW o \in Deliveries, NEW W,
           CallSound(o), DbMoves, Covers(W), Misses(o, W)
    PROVE  CallSound(o)'
<1> DEFINE r == call[o].ref  s == call[o].snap
<1>1. \/ call[o].pc \in {"idle", "inactive", "error"}
      \/ r \in Refs
  BY DEF TypeOK, CallState, CallSound
<1>2. CASE call[o].pc \in {"idle", "inactive", "error"}
  BY <1>2 DEF CallSound, Misses
<1>3. CASE r \in Refs
  <2>1. ASSUME o \in open PROVE SnapSound(o, r, s)'
    <3>1. SnapSound(o, r, s) /\ missed'[o] = missed[o] \cup W /\ call'[o] = call[o]
      BY <2>1 DEF CallSound, Misses
    <3>2. PICK c \in Contracts : c = ContractOf[r]
      BY <1>3, RepaymentAssumption
    <3>3. s \in Snapshot /\ s.stake \in [Investors -> Nat]
      BY <3>1 DEF SnapSound, Snapshot
    <3>4. s.payment = payment'[r] \/ <<"payment", r>> \in missed'[o]
      BY <1>3, <3>1 DEF SnapSound, Covers
    <3>5. s.contract = contract'[c] \/ <<"contract", c>> \in missed'[o]
      BY <3>1, <3>2 DEF SnapSound, Covers
    <3>6. s.payment.status = "CONFIRMED" => Confirmed(r)'
      BY <1>3, <3>1 DEF SnapSound, DbMoves
    <3>7. \/ s.credited
          \/ \A i \in Investors : credit'[r][i] = 0 \/ <<"credit", r, i>> \in missed'[o]
      BY <1>3, <3>1 DEF SnapSound, Covers
    <3>8. s.booked => booked'[r] > 0
      BY <1>3, <3>1 DEF SnapSound, DbMoves
    <3>9. ASSUME NEW i \in Investors
          PROVE  \/ s.stake[i] = stake'[c][i]
                 \/ s.stake[i] <= stake'[c][i] /\ stake'[c][i] <= MaxStake[i]
      <4>1. \/ stake'[c][i] = stake[c][i]
            \/ stake[c][i] < MaxStake[i] /\ stake'[c][i] = stake[c][i] + 1
        BY DEF DbMoves, StakesGrow
      <4>2. \/ s.stake[i] = stake[c][i]
            \/ s.stake[i] <= stake[c][i] /\ stake[c][i] <= MaxStake[i]
        BY <3>1, <3>2 DEF SnapSound
      <4>3. stake[c][i] \in Nat /\ s.stake[i] \in Nat /\ MaxStake[i] \in Nat
        BY <3>3, RepaymentAssumption DEF TypeOK
      <4> QED BY <4>1, <4>2, <4>3
    <3>10. LedFromTheStart(c)' => (s.credited <=> s.payment.status = "CONFIRMED")
      <4>1. LedFromTheStart(c)' <=> LedFromTheStart(c)
        BY LeadersStay DEF DbMoves
      <4> QED BY <3>1, <3>2, <4>1 DEF SnapSound
    <3> QED
      BY <3>1, <3>2, <3>3, <3>4, <3>5, <3>6, <3>7, <3>8, <3>9, <3>10 DEF SnapSound
  <2>2. ASSUME o \in open PROVE MissedIsConfirmed(o)'
    <3>1. MissedIsConfirmed(o) /\ missed'[o] = missed[o] \cup W
      BY <2>2 DEF CallSound, Misses
    <3>2. \A q \in Refs : Confirmed(q) => Confirmed(q)'
      BY DEF DbMoves
    <3> QED BY <3>1, <3>2 DEF MissedIsConfirmed, Covers
  <2>3. /\ call'[o] = call[o]
        /\ o \in open' <=> o \in open
        /\ payment[r] # Absent => payment'[r] # Absent
        /\ Confirmed(r) => Confirmed(r)'
        /\ o \notin open => missed'[o] \subseteq missed[o]
    BY <1>3 DEF Misses, DbMoves
  <2>4. /\ call[o].pc \in {"begin", "retry"} => payment'[r] # Absent
        /\ call[o].pc \in {"retry", "ok"} => Confirmed(r)'
    BY <2>3 DEF CallSound
  <2>5. r' = r /\ s' = s /\ call'[o].pc = call[o].pc
    BY <2>3
  <2>6. o \in open' => SnapSound(o, r, s)' /\ MissedIsConfirmed(o)'
    BY <2>1, <2>2, <2>3
  <2>7. call[o].pc \in {"retry", "ok"} => Confirmed(r)'
    BY <2>4
  <2>8. call'[o].pc \in {"begin", "retry"} => payment'[r'] # Absent
    BY <2>4, <2>5
  <2>9. /\ o \in open' <=> call'[o].pc \in {"txn", "retrytxn"}
        /\ call'[o].pc = "retrytxn" => s'.payment.status = "CONFIRMED"
    BY <2>3, <2>5 DEF CallSound
  <2>10. o \notin open' => missed'[o] = {}
    BY <2>3 DEF CallSound
  <2> QED BY <1>3, <2>5, <2>6, <2>7, <2>8, <2>9, <2>10 DEF CallSound
<1> QED BY <1>1, <1>2, <1>3

-----------------------------------------------------------------------------
\* The invariant.  The largest investor of a pool has a share of every payment;
\* it is the unique index of that credit that stops a second delivery.
AllocationsConfirmed == \A r \in allocation : Confirmed(r)
ChargedIsPending == \A r \in Checkout : charge[r] # "none" => payment[r] # Absent
LeaderCredited ==
    \A r \in Refs, i \in Investors :
        Confirmed(r) /\ Leads(ContractOf[r], i) => credit[r][i] > 0

BooksOK ==
    /\ AllocationsConfirmed
    /\ TotalPaidAgrees
    /\ CompletedMeansPaid
    /\ WalletsAgree
    /\ PaymentSplitExactly
    /\ LeaderCredited
    /\ OneRepaymentTransaction

IInv == TypeOK /\ CallsSound /\ ChargedIsPending /\ BooksOK

-----------------------------------------------------------------------------
\* Whatever is posted, every wallet still has what the records say.
LEMMA Posting ==
    ASSUME TypeOK, WalletsAgree, NEW r \in Refs, NEW shares \in [Investors -> Nat],
           NEW over \in Nat, NEW driver, over = 0 \/ driver = DriverOf[ContractOf[r]],
           Post(r, shares, driver, over)
    PROVE  /\ credit' \in [Refs -> [Investors -> Nat]]
           /\ excess' \in [Refs -> Nat]
           /\ wallet' \in [Users -> Nat]
           /\ \A q \in Refs \ {r} : credit'[q] = credit[q] /\ excess'[q] = excess[q]
           /\ \A i \in Investors : credit'[r][i] = credit[r][i] + shares[i]
           /\ excess'[r] = excess[r] + over
           /\ WalletsAgree'
<1>1. /\ credit \in [Refs -> [Investors -> Nat]]
      /\ excess \in [Refs -> Nat]
      /\ wallet \in [Users -> Nat]
  BY DEF TypeOK
<1>2. /\ credit' = [credit EXCEPT ![r] = [i \in Investors |-> credit[r][i] + shares[i]]]
      /\ excess' = [excess EXCEPT ![r] = excess[r] + over]
  BY DEF Post
<1>3. [i \in Investors |-> credit[r][i] + shares[i]] \in [Investors -> Nat]
  BY <1>1
<1>4. credit' \in [Refs -> [Investors -> Nat]] /\ excess' \in [Refs -> Nat]
  BY <1>1, <1>2, <1>3
<1>5. /\ \A q \in Refs \ {r} : credit'[q] = credit[q] /\ excess'[q] = excess[q]
      /\ \A i \in Investors : credit'[r][i] = credit[r][i] + shares[i]
      /\ excess'[r] = excess[r] + over
  BY <1>1, <1>2
<1>6. ASSUME NEW u \in Users
      PROVE  wallet'[u] = wallet[u] + (IF u \in Investors THEN shares[u] ELSE 0)
                            + (IF u = DriverOf[ContractOf[r]] THEN over ELSE 0)
  <2>1. wallet'[u] = wallet[u] + (IF u \in Investors THEN shares[u] ELSE 0)
                       + (IF u = driver THEN over ELSE 0)
    BY DEF Post
  <2>2. (IF u = driver THEN over ELSE 0) = (IF u = DriverOf[ContractOf[r]] THEN over ELSE 0)
    OBVIOUS
  <2> QED BY <2>1, <2>2
<1>7. wallet' \in [Users -> Nat]
  <2>1. wallet' = [u \in Users |-> wallet[u] + (IF u \in Investors THEN shares[u] ELSE 0)
                                             + (IF u = driver THEN over ELSE 0)]
    BY DEF Post
  <2>2. \A u \in Users : wallet[u] + (IF u \in Investors THEN shares[u] ELSE 0)
                                   + (IF u = driver THEN over ELSE 0) \in Nat
    BY <1>1
  <2> QED BY <2>1, <2>2
<1>8. WalletsAgree'
  <2> SUFFICES ASSUME NEW u \in Users
               PROVE  (wallet[u] =
                   SumFunction([q \in Refs |-> (IF u \in Investors THEN credit[q][u] ELSE 0)
                                + (IF u = DriverOf[ContractOf[q]] THEN excess[q] ELSE 0)]))'
    BY DEF WalletsAgree
  <2>1. PICK f, g :
           /\ f = [q \in Refs |-> (IF u \in Investors THEN credit[q][u] ELSE 0)
                                   + (IF u = DriverOf[ContractOf[q]] THEN excess[q] ELSE 0)]
           /\ g = [q \in Refs |-> (IF u \in Investors THEN credit'[q][u] ELSE 0)
                                   + (IF u = DriverOf[ContractOf[q]] THEN excess'[q] ELSE 0)]
    OBVIOUS
  <2>2. \A q \in Refs : f[q] \in Int
    BY <1>1, <2>1
  <2>3. g[r] \in Int
    BY <1>4, <2>1
  <2>4. \A q \in Refs \ {r} : g[q] = f[q]
    BY <1>5, <2>1
  <2>5. g[r] = f[r] + (IF u \in Investors THEN shares[u] ELSE 0)
                    + (IF u = DriverOf[ContractOf[r]] THEN over ELSE 0)
    <3>1. credit[r] \in [Investors -> Nat] /\ excess[r] \in Nat
      BY <1>1
    <3>2. /\ f[r] = (IF u \in Investors THEN credit[r][u] ELSE 0)
                     + (IF u = DriverOf[ContractOf[r]] THEN excess[r] ELSE 0)
          /\ g[r] = (IF u \in Investors THEN credit'[r][u] ELSE 0)
                     + (IF u = DriverOf[ContractOf[r]] THEN excess'[r] ELSE 0)
      BY <2>1
    <3> QED BY <1>5, <3>1, <3>2
  <2>6. SumFunctionOnSet(g, Refs) = SumFunctionOnSet(f, Refs) - f[r] + g[r]
    BY <2>2, <2>3, <2>4, RepaymentAssumption, SumChange
  <2>7. wallet[u] = SumFunctionOnSet(f, Refs)
    <3>1. wallet[u] = SumFunction(f)
      BY <2>1 DEF WalletsAgree
    <3> QED BY <2>1, <3>1 DEF SumFunction
  <2>8. wallet'[u] = SumFunctionOnSet(g, Refs)
    <3>1. wallet[u] \in Nat /\ f[r] \in Int /\ g[r] \in Int
      BY <1>1, <2>2, <2>3
    <3>2. (IF u \in Investors THEN shares[u] ELSE 0) \in Int
      OBVIOUS
    <3>3. (IF u = DriverOf[ContractOf[r]] THEN over ELSE 0) \in Int
      OBVIOUS
    <3> QED BY <1>6, <2>5, <2>6, <2>7, <3>1, <3>2, <3>3
  <2>9. wallet'[u] = SumFunction(g)
    BY <2>1, <2>8 DEF SumFunction
  <2> QED BY <2>1, <2>9
<1> QED BY <1>4, <1>5, <1>7, <1>8

\* A step that confirms no payment leaves the books in order when it moves nothing
\* in a pool that has a leader.
PaymentsKept ==
    \A r \in Refs : /\ Confirmed(r)' <=> Confirmed(r)
                    /\ Confirmed(r) => payment'[r] = payment[r]

LEMMA BooksAge ==
    ASSUME TypeOK, TypeOK', BooksOK, PaymentsKept, StakesGrow, allocation' = allocation,
           \A c \in Contracts : contract'[c].totalPaid = contract[c].totalPaid,
           CompletedMeansPaid', WalletsAgree',
           \A r \in Refs : credit'[r] = credit[r] \/ ~LedFromTheStart(ContractOf[r]),
           \A r \in Refs : excess'[r] = excess[r],
           \A r \in Refs :
               \/ booked'[r] = booked[r]
               \/ booked[r] > 0 /\ booked'[r] > 0 /\ ~LedFromTheStart(ContractOf[r])
    PROVE  BooksOK'
<1>1. \A r \in Refs : ContractOf[r] \in Contracts
  BY RepaymentAssumption
<1>2. AllocationsConfirmed'
  BY DEF BooksOK, AllocationsConfirmed, PaymentsKept, TypeOK
<1>3. TotalPaidAgrees'
  <2> SUFFICES ASSUME NEW c \in Contracts
               PROVE  (contract[c].totalPaid =
                   LET paid == {r \in Refs : ContractOf[r] = c /\ Confirmed(r)}
                   IN  SumFunction([r \in paid |-> payment[r].applied]))'
    BY DEF TotalPaidAgrees
  <2>1. PICK P : P = {r \in Refs : ContractOf[r] = c /\ Confirmed(r)}
    OBVIOUS
  <2>2. P = {r \in Refs : ContractOf[r] = c /\ Confirmed(r)'}
    BY <2>1 DEF PaymentsKept
  <2>3. [r \in P |-> payment'[r].applied] = [r \in P |-> payment[r].applied]
    BY <2>1 DEF PaymentsKept
  <2>4. contract[c].totalPaid = SumFunction([r \in P |-> payment[r].applied])
    BY <2>1 DEF BooksOK, TotalPaidAgrees
  <2>5. contract'[c].totalPaid = SumFunction([r \in P |-> payment'[r].applied])
    BY <2>3, <2>4
  <2> QED BY <2>2, <2>5
<1>4. PaymentSplitExactly'
  <2> SUFFICES ASSUME NEW r \in Refs, LedFromTheStart(ContractOf[r])'
               PROVE  (IF Confirmed(r)
                       THEN /\ Credited(r) = payment[r].applied
                            /\ excess[r] = Amount[r] - payment[r].applied
                       ELSE Credited(r) = 0 /\ excess[r] = 0)'
    BY DEF PaymentSplitExactly
  <2>1. LedFromTheStart(ContractOf[r])
    BY <1>1, LeadersStay
  <2>2. /\ credit'[r] = credit[r]
        /\ excess'[r] = excess[r]
        /\ Confirmed(r)' <=> Confirmed(r)
        /\ Confirmed(r) => payment'[r] = payment[r]
    BY <2>1 DEF PaymentsKept
  <2>3. IF Confirmed(r)
        THEN /\ Credited(r) = payment[r].applied
             /\ excess[r] = Amount[r] - payment[r].applied
        ELSE Credited(r) = 0 /\ excess[r] = 0
    BY <2>1 DEF BooksOK, PaymentSplitExactly
  <2>4. Credited(r)' = Credited(r)
    BY <2>2 DEF Credited
  <2> QED BY <2>2, <2>3, <2>4
<1>5. LeaderCredited'
  <2> SUFFICES ASSUME NEW r \in Refs, NEW i \in Investors,
                      Confirmed(r)', Leads(ContractOf[r], i)'
               PROVE  credit'[r][i] > 0
    BY DEF LeaderCredited
  <2>1. Leads(ContractOf[r], i)
    BY <1>1, LeadersStay
  <2>2. LedFromTheStart(ContractOf[r])
    BY <2>1 DEF LedFromTheStart, Leads
  <2>3. Confirmed(r) /\ credit'[r] = credit[r]
    BY <2>2 DEF PaymentsKept
  <2> QED BY <2>1, <2>3 DEF BooksOK, LeaderCredited
<1>6. OneRepaymentTransaction'
  <2> SUFFICES ASSUME NEW r \in Refs
               PROVE  (IF LedFromTheStart(ContractOf[r])
                       THEN booked[r] = IF Confirmed(r) THEN 1 ELSE 0
                       ELSE (booked[r] = 0) = ~Confirmed(r))'
    BY DEF OneRepaymentTransaction
  <2>1. /\ LedFromTheStart(ContractOf[r])' <=> LedFromTheStart(ContractOf[r])
        /\ Confirmed(r)' <=> Confirmed(r)
    BY <1>1, LeadersStay DEF PaymentsKept
  <2>2. IF LedFromTheStart(ContractOf[r])
        THEN booked[r] = IF Confirmed(r) THEN 1 ELSE 0
        ELSE (booked[r] = 0) = ~Confirmed(r)
    BY DEF BooksOK, OneRepaymentTransaction
  <2>3. CASE booked'[r] = booked[r]
    BY <2>1, <2>2, <2>3
  <2>4. CASE booked[r] > 0 /\ booked'[r] > 0 /\ ~LedFromTheStart(ContractOf[r])
    <3>1. booked[r] # 0 /\ booked'[r] # 0
      BY <2>4 DEF TypeOK
    <3> QED BY <2>1, <2>2, <2>4, <3>1
  <2> QED BY <2>3, <2>4
<1> QED BY <1>2, <1>3, <1>4, <1>5, <1>6 DEF BooksOK

-----------------------------------------------------------------------------
\* What a delivery posts of its snapshot: something to the leader of the pool, and
\* nothing when it has seen credits.
LEMMA DistributionFacts ==
    ASSUME NEW s \in Snapshot, NEW applied \in Nat, NEW r \in Refs
    PROVE  /\ Distribution(s, applied, r) \in [Investors -> Nat]
           /\ s.credited => \A i \in Investors : Distribution(s, applied, r)[i] = 0
           /\ ~s.credited /\ applied > 0 /\ Total(s.stake) # 0
                => Total(Distribution(s, applied, r)) = applied
           /\ \A i \in Investors :
                 /\ ~s.credited
                 /\ s.stake[i] > 0
                 /\ \A j \in Investors \ {i} : s.stake[j] < s.stake[i]
                 => Distribution(s, applied, r)[i] > 0
<1>1. s.stake \in [Investors -> Nat] /\ s.credited \in BOOLEAN
  BY DEF Snapshot
<1>2. CASE s.credited
  BY <1>2 DEF Distribution
<1>3. CASE ~s.credited
  <2>1. PICK a : a = IF applied > 0 THEN applied ELSE Amount[r]
    OBVIOUS
  <2>2. a \in Nat /\ a > 0 /\ (applied > 0 => a = applied)
    BY <2>1, RepaymentAssumption
  <2>3. Distribution(s, applied, r) = Shares(s.stake, a)
    BY <1>3, <2>1 DEF Distribution
  <2>4. /\ Shares(s.stake, a) \in [Investors -> Nat]
        /\ Total(Shares(s.stake, a)) = IF Total(s.stake) = 0 THEN 0 ELSE a
        /\ \A i \in Investors :
              a > 0 /\ s.stake[i] > 0 /\ (\A j \in Investors \ {i} : s.stake[j] < s.stake[i])
                 => Shares(s.stake, a)[i] > 0
    BY <1>1, <2>2, SharesFacts
  <2> QED BY <1>3, <2>2, <2>3, <2>4
<1> QED BY <1>1, <1>2, <1>3

LEMMA PostedDocsType ==
    ASSUME NEW r \in Refs, NEW shares
    PROVE  PostedDocs(r, shares) \in SUBSET Docs
  BY RepaymentAssumption DEF PostedDocs, Docs

LEMMA GotoFacts ==
    ASSUME TypeOK, NEW d \in Deliveries,
           NEW pc \in {"begin", "retry"}, Goto(d, pc)
    PROVE  /\ call' \in [Deliveries -> CallState]
           /\ call'[d].pc = pc
           /\ call'[d].ref = call[d].ref
           /\ \A o \in Deliveries \ {d} : call'[o] = call[o]
  BY DEF TypeOK, CallState, Goto

LEMMA ReplyFacts ==
    ASSUME TypeOK, NEW d \in Deliveries,
           NEW pc \in {"ok", "inactive", "error"}, Reply(d, pc)
    PROVE  /\ call' \in [Deliveries -> CallState]
           /\ call'[d].pc = pc
           /\ pc = "ok" => call'[d].ref = call[d].ref
           /\ \A o \in Deliveries \ {d} : call'[o] = call[o]
  BY DEF TypeOK, CallState, Reply

\* A snapshot that is taken now.
LEMMA SnapshotType ==
    ASSUME TypeOK, NEW r \in Refs, payment[r] # Absent
    PROVE  SnapshotOf(r) \in Snapshot
<1>1. payment[r] \in PaymentDoc
  BY DEF TypeOK
<1>2. ContractOf[r] \in Contracts
  BY RepaymentAssumption
<1>3. contract[ContractOf[r]] \in ContractDoc /\ stake[ContractOf[r]] \in [Investors -> Nat]
  BY <1>2 DEF TypeOK
<1> QED BY <1>1, <1>3 DEF SnapshotOf, Snapshot

LEMMA TxnType ==
    ASSUME TxnTypeOK, NEW d \in Deliveries, NEW W \in SUBSET Docs,
           \/ TxnCommit(d, W) \/ PlainWrite(W) \/ TxnBegin(d) \/ TxnAbort(d)
           \/ UNCHANGED <<open, missed>>
    PROVE  TxnTypeOK'
<1>1. CASE TxnCommit(d, W)
  BY <1>1 DEF TxnTypeOK, TxnCommit, Publish
<1>2. CASE PlainWrite(W)
  BY <1>2 DEF TxnTypeOK, PlainWrite
<1>3. CASE TxnBegin(d)
  BY <1>3 DEF TxnTypeOK, TxnBegin
<1>4. CASE TxnAbort(d)
  BY <1>4 DEF TxnTypeOK, TxnAbort
<1>5. CASE UNCHANGED <<open, missed>>
  BY <1>5 DEF TxnTypeOK
<1> QED BY <1>1, <1>2, <1>3, <1>4, <1>5

LEMMA WriteType ==
    ASSUME TxnTypeOK, NEW W \in SUBSET Docs, PlainWrite(W)
    PROVE  TxnTypeOK'
  BY DEF TxnTypeOK, PlainWrite

\* What is published by one is missed by the others.
LEMMA OthersMiss ==
    ASSUME TypeOK, NEW d \in Deliveries, NEW o \in Deliveries \ {d}, call'[o] = call[o]
    PROVE  /\ \A W : TxnCommit(d, W) => Misses(o, W)
           /\ TxnBegin(d) => Misses(o, {})
           /\ TxnAbort(d) => Misses(o, {})
<1>1. open \in SUBSET Deliveries /\ missed \in [Deliveries -> SUBSET Docs]
  BY DEF TypeOK, TxnTypeOK
<1>2. ASSUME NEW W, TxnCommit(d, W) PROVE Misses(o, W)
  BY <1>1, <1>2 DEF TxnCommit, Publish, Misses
<1>3. ASSUME TxnBegin(d) PROVE Misses(o, {})
  BY <1>1, <1>3 DEF TxnBegin, Misses
<1>4. ASSUME TxnAbort(d) PROVE Misses(o, {})
  BY <1>1, <1>4 DEF TxnAbort, Misses
<1> QED BY <1>2, <1>3, <1>4

LEMMA AllMiss ==
    ASSUME TypeOK, NEW o \in Deliveries, call'[o] = call[o]
    PROVE  /\ \A W : PlainWrite(W) => Misses(o, W)
           /\ UNCHANGED <<open, missed>> => Misses(o, {})
<1>1. open \in SUBSET Deliveries /\ missed \in [Deliveries -> SUBSET Docs]
  BY DEF TypeOK, TxnTypeOK
<1>2. ASSUME NEW W, PlainWrite(W) PROVE Misses(o, W)
  BY <1>1, <1>2 DEF PlainWrite, Misses
<1>3. ASSUME UNCHANGED <<open, missed>> PROVE Misses(o, {})
  BY <1>1, <1>3 DEF Misses
<1> QED BY <1>2, <1>3

LEMMA DocsApart ==
    \A r, q, i :
        /\ <<"payment", r>> # <<"allocation", q>> /\ <<"payment", r>> # <<"credit", q, i>>
        /\ <<"contract", r>> # <<"allocation", q>> /\ <<"contract", r>> # <<"credit", q, i>>
        /\ <<"user", r>> # <<"allocation", q>> /\ <<"user", r>> # <<"credit", q, i>>
        /\ <<"allocation", r>> # <<"credit", q, i>>
<1> SUFFICES ASSUME NEW r, NEW q, NEW i
             PROVE  /\ <<"payment", r>> # <<"allocation", q>>
                    /\ <<"payment", r>> # <<"credit", q, i>>
                    /\ <<"contract", r>> # <<"allocation", q>>
                    /\ <<"contract", r>> # <<"credit", q, i>>
                    /\ <<"user", r>> # <<"allocation", q>>
                    /\ <<"user", r>> # <<"credit", q, i>>
                    /\ <<"allocation", r>> # <<"credit", q, i>>
  OBVIOUS
<1>1. \A x \in {"payment", "contract", "user", "allocation"} : <<x, r>> # <<"credit", q, i>>
  OBVIOUS
<1>2. \A x \in {"payment", "contract", "user"} : <<x, r>> # <<"allocation", q>>
  OBVIOUS
<1> QED BY <1>1, <1>2

-----------------------------------------------------------------------------
\* How a step keeps the invariant: what it does to the database, to the delivery
\* that takes it, and to the others.
LEMMA StepSound ==
    ASSUME IInv, TypeOK', DbMoves, NEW W, Covers(W),
           \A o \in Deliveries : Misses(o, W) \/ CallSound(o)'
    PROVE  CallsSound'
<1> SUFFICES ASSUME NEW o \in Deliveries PROVE CallSound(o)'
  BY DEF CallsSound
<1>1. TypeOK /\ CallSound(o)
  BY DEF IInv, CallsSound
<1>2. CASE Misses(o, W)
  BY <1>1, <1>2, StillSound
<1>3. CASE CallSound(o)'
  BY <1>3
<1> QED BY <1>2, <1>3

LEMMA DbStays ==
    ASSUME IInv, TypeOK', UNCHANGED db
    PROVE  DbMoves /\ Covers({}) /\ BooksOK'
<1>1. DbMoves
  BY DEF DbMoves, StakesGrow, Confirmed, db
<1>2. Covers({})
  BY DEF Covers, db
<1>3. AllocationsConfirmed' /\ CompletedMeansPaid'
  BY DEF IInv, BooksOK, AllocationsConfirmed, CompletedMeansPaid, Confirmed, db
<1>4. WalletsAgree'
  BY DEF IInv, BooksOK, WalletsAgree, db
<1>5. PaymentsKept
  BY DEF PaymentsKept, Confirmed, db
<1>6. TypeOK /\ BooksOK /\ StakesGrow
  BY DEF IInv, StakesGrow, db
<1>7. allocation' = allocation /\ contract' = contract /\ credit' = credit
      /\ excess' = excess /\ booked' = booked
  BY DEF db
<1>8. /\ \A c \in Contracts : contract'[c].totalPaid = contract[c].totalPaid
      /\ \A r \in Refs : credit'[r] = credit[r] \/ ~LedFromTheStart(ContractOf[r])
      /\ \A r \in Refs : excess'[r] = excess[r]
      /\ \A r \in Refs :
            \/ booked'[r] = booked[r]
            \/ booked[r] > 0 /\ booked'[r] > 0 /\ ~LedFromTheStart(ContractOf[r])
  BY <1>7
<1>9. BooksOK'
  BY <1>3, <1>4, <1>5, <1>6, <1>7, <1>8, BooksAge
<1> QED BY <1>1, <1>2, <1>9

\* A step that only calls and answers.
LEMMA CallStep ==
    ASSUME IInv, UNCHANGED db, charge' \in [Refs -> {"none", "page", "money"}],
           call' \in [Deliveries -> CallState], TxnTypeOK', ChargedIsPending',
           \A o \in Deliveries : Misses(o, {}) \/ CallSound(o)'
    PROVE  IInv'
<1>1. TypeOK'
  BY DEF IInv, TypeOK, db
<1>2. CallsSound' /\ BooksOK'
  BY <1>1, DbStays, StepSound
<1> QED BY <1>1, <1>2 DEF IInv

LEMMA SnapshotIsSound ==
    ASSUME IInv, NEW d \in Deliveries, NEW r \in Refs, payment[r] # Absent
    PROVE  SnapSound(d, r, SnapshotOf(r))
<1>1. PICK c \in Contracts : c = ContractOf[r]
  BY RepaymentAssumption
<1>2. TypeOK /\ PaymentSplitExactly /\ LeaderCredited
  BY DEF IInv, BooksOK
<1>3. SnapshotOf(r) \in Snapshot
  BY <1>2, SnapshotType
<1>4. credit[r] \in [Investors -> Nat]
  BY <1>2 DEF TypeOK
<1>5. ASSUME LedFromTheStart(c)
      PROVE  (\E i \in Investors : credit[r][i] > 0) <=> payment[r].status = "CONFIRMED"
  <2>1. CASE Confirmed(r)
    <3>1. PICK i \in Investors : Leads(c, i)
      BY <1>5 DEF LedFromTheStart, Leads
    <3>2. credit[r][i] > 0
      BY <1>1, <1>2, <2>1, <3>1 DEF LeaderCredited
    <3>3. payment[r].status = "CONFIRMED"
      BY <2>1 DEF Confirmed
    <3> QED BY <3>2, <3>3
  <2>2. CASE ~Confirmed(r)
    <3>1. Total(credit[r]) = 0
      BY <1>1, <1>2, <1>5, <2>2 DEF PaymentSplitExactly, Credited
    <3>2. \A i \in Investors : credit[r][i] = 0
      BY <1>4, <3>1, TotalFacts
    <3> QED BY <2>2, <3>2 DEF Confirmed
  <2> QED BY <2>1, <2>2
<1>6. /\ SnapshotOf(r).payment = payment[r]
      /\ SnapshotOf(r).contract = contract[c]
      /\ SnapshotOf(r).stake = stake[c]
      /\ SnapshotOf(r).credited = \E i \in Investors : credit[r][i] > 0
      /\ SnapshotOf(r).booked = (booked[r] > 0)
  BY <1>1 DEF SnapshotOf
<1>7. payment[r].status = "CONFIRMED" => Confirmed(r)
  BY DEF Confirmed
<1>8. \/ \E i \in Investors : credit[r][i] > 0
      \/ \A i \in Investors : credit[r][i] = 0
  BY <1>4
<1> QED BY <1>1, <1>3, <1>5, <1>6, <1>7, <1>8 DEF SnapSound

\* A delivery that has been answered.
LEMMA ReplySound ==
    ASSUME TypeOK, NEW d \in Deliveries, NEW pc \in {"ok", "inactive", "error"}, Reply(d, pc),
           \/ TxnAbort(d)
           \/ \E W : TxnCommit(d, W)
           \/ CallSound(d) /\ d \notin open /\ UNCHANGED <<open, missed>>,
           pc = "ok" => call[d].ref \in Refs /\ Confirmed(call[d].ref)'
    PROVE  CallSound(d)'
<1>1. missed \in [Deliveries -> SUBSET Docs]
  BY DEF TypeOK, TxnTypeOK
<1>2. d \notin open' /\ missed'[d] = {}
  BY <1>1 DEF TxnAbort, TxnCommit, Publish, CallSound
<1>3. call'[d].pc = pc /\ (pc = "ok" => call'[d].ref = call[d].ref)
  BY ReplyFacts
<1> QED BY <1>2, <1>3 DEF CallSound

LEMMA PaystackOpensStep ==
    ASSUME IInv, NEW r \in Refs, PaystackOpens(r)
    PROVE  IInv'
<1>1. UNCHANGED <<db, open, missed, call>> /\ TypeOK /\ ChargedIsPending
  BY DEF PaystackOpens, IInv
<1>2. charge' \in [Refs -> {"none", "page", "money"}] /\ call' \in [Deliveries -> CallState]
  BY <1>1 DEF PaystackOpens, TypeOK
<1>3. ChargedIsPending'
  BY <1>1, RepaymentAssumption DEF PaystackOpens, ChargedIsPending, TypeOK, db
<1>4. TxnTypeOK' /\ \A o \in Deliveries : Misses(o, {})
  BY <1>1, AllMiss DEF TypeOK, TxnTypeOK
<1> QED BY <1>1, <1>2, <1>3, <1>4, CallStep

LEMMA PayStep ==
    ASSUME IInv, NEW r \in Refs, Pay(r)
    PROVE  IInv'
<1>1. UNCHANGED <<db, open, missed, call>> /\ TypeOK /\ ChargedIsPending
  BY DEF Pay, IInv
<1>2. charge' \in [Refs -> {"none", "page", "money"}] /\ call' \in [Deliveries -> CallState]
  BY <1>1 DEF Pay, TypeOK
<1>3. ChargedIsPending'
  BY <1>1, RepaymentAssumption DEF Pay, ChargedIsPending, TypeOK, db
<1>4. TxnTypeOK' /\ \A o \in Deliveries : Misses(o, {})
  BY <1>1, AllMiss DEF TypeOK, TxnTypeOK
<1> QED BY <1>1, <1>2, <1>3, <1>4, CallStep

LEMMA DeliverStep ==
    ASSUME IInv, NEW d \in Deliveries, NEW r \in Refs, Deliver(d, r)
    PROVE  IInv'
<1>1. UNCHANGED <<charge, db, open, missed>> /\ TypeOK /\ ChargedIsPending /\ CallSound(d)
  BY DEF Deliver, IInv, CallsSound
<1>2. /\ call' \in [Deliveries -> CallState]
      /\ call'[d].pc \in {"begin", "create"}
      /\ call'[d].ref = r
      /\ call'[d].pc = "begin" => r \in Checkout
      /\ \A o \in Deliveries \ {d} : call'[o] = call[o]
  BY <1>1 DEF Deliver, TypeOK, CallState
<1>3. charge' \in [Refs -> {"none", "page", "money"}] /\ ChargedIsPending' /\ TxnTypeOK'
  BY <1>1 DEF TypeOK, ChargedIsPending, TxnTypeOK, db
<1>4. \A o \in Deliveries \ {d} : Misses(o, {})
  BY <1>1, <1>2, AllMiss
<1>5. d \notin open' /\ missed'[d] = {}
  BY <1>1 DEF Deliver, CallSound
<1>6. call'[d].pc = "begin" => payment'[r] # Absent
  BY <1>1, <1>2 DEF Deliver, ChargedIsPending, db
<1>7. CallSound(d)'
  BY <1>2, <1>5, <1>6 DEF CallSound
<1> QED BY <1>1, <1>2, <1>3, <1>4, <1>7, CallStep

LEMMA BeginConfirmStep ==
    ASSUME IInv, NEW d \in Deliveries, BeginConfirm(d)
    PROVE  IInv'
<1>1. UNCHANGED <<charge, db>> /\ TypeOK /\ ChargedIsPending /\ CallSound(d) /\ TxnBegin(d)
  BY DEF BeginConfirm, IInv, CallsSound
<1>2. PICK r \in Refs : r = call[d].ref
  BY <1>1 DEF BeginConfirm, CallSound
<1>3. payment[r] # Absent /\ d \notin open
  BY <1>1, <1>2 DEF BeginConfirm, CallSound
<1>4. SnapSound(d, r, SnapshotOf(r)) /\ SnapshotOf(r) \in Snapshot
  BY <1>1, <1>3, SnapshotIsSound, SnapshotType
<1>5. /\ call' \in [Deliveries -> CallState]
      /\ call'[d].pc = "txn" /\ call'[d].ref = r /\ call'[d].snap = SnapshotOf(r)
      /\ \A o \in Deliveries \ {d} : call'[o] = call[o]
  BY <1>1, <1>2, <1>4 DEF BeginConfirm, TypeOK, CallState
<1>6. charge' \in [Refs -> {"none", "page", "money"}] /\ ChargedIsPending' /\ TxnTypeOK'
  BY <1>1 DEF TypeOK, ChargedIsPending, TxnTypeOK, TxnBegin, db
<1>7. \A o \in Deliveries \ {d} : Misses(o, {})
  BY <1>1, <1>5, OthersMiss
<1>8. d \in open' /\ missed' = missed /\ missed[d] = {}
  BY <1>1, <1>3 DEF TxnBegin, CallSound
<1>9. SnapSound(d, call[d].ref, call[d].snap)'
  <2>1. PICK s : s = SnapshotOf(r)
    OBVIOUS
  <2>2. call'[d].ref = r /\ call'[d].snap = s /\ SnapSound(d, r, s)
    BY <1>4, <1>5, <2>1
  <2>3. /\ payment' = payment /\ contract' = contract /\ stake' = stake /\ credit' = credit
        /\ booked' = booked /\ missed' = missed
    BY <1>1, <1>8 DEF db
  <2>4. LedFromTheStart(ContractOf[r])' <=> LedFromTheStart(ContractOf[r])
    BY <2>3 DEF LedFromTheStart
  <2>5. Confirmed(r)' <=> Confirmed(r)
    BY <2>3 DEF Confirmed
  <2>6. SnapSound(d, r, s)'
    BY <2>2, <2>3, <2>4, <2>5 DEF SnapSound
  <2> QED BY <2>2, <2>6 DEF SnapSound
<1>10. MissedIsConfirmed(d)'
  BY <1>8 DEF MissedIsConfirmed
<1>11. CallSound(d)'
  <2>1. call'[d].pc = "txn" /\ call'[d].ref \in Refs
    BY <1>5
  <2> QED BY <1>8, <1>9, <1>10, <2>1 DEF CallSound
<1> QED BY <1>1, <1>5, <1>6, <1>7, <1>11, CallStep

LEMMA BeginDistributeStep ==
    ASSUME IInv, NEW d \in Deliveries, BeginDistribute(d)
    PROVE  IInv'
<1>1. UNCHANGED <<charge, db>> /\ TypeOK /\ ChargedIsPending /\ CallSound(d) /\ TxnBegin(d)
  BY DEF BeginDistribute, IInv, CallsSound
<1>2. PICK r \in Refs : r = call[d].ref
  BY <1>1 DEF BeginDistribute, CallSound
<1>3. payment[r] # Absent /\ d \notin open /\ Confirmed(r)
  BY <1>1, <1>2 DEF BeginDistribute, CallSound
<1>4. SnapSound(d, r, SnapshotOf(r)) /\ SnapshotOf(r) \in Snapshot
  BY <1>1, <1>3, SnapshotIsSound, SnapshotType
<1>5. /\ call' \in [Deliveries -> CallState]
      /\ call'[d].pc = "retrytxn" /\ call'[d].ref = r /\ call'[d].snap = SnapshotOf(r)
      /\ \A o \in Deliveries \ {d} : call'[o] = call[o]
  BY <1>1, <1>2, <1>4 DEF BeginDistribute, TypeOK, CallState
<1>6. charge' \in [Refs -> {"none", "page", "money"}] /\ ChargedIsPending' /\ TxnTypeOK'
  BY <1>1 DEF TypeOK, ChargedIsPending, TxnTypeOK, TxnBegin, db
<1>7. \A o \in Deliveries \ {d} : Misses(o, {})
  BY <1>1, <1>5, OthersMiss
<1>8. d \in open' /\ missed' = missed /\ missed[d] = {}
  BY <1>1, <1>3 DEF TxnBegin, CallSound
<1>9. SnapSound(d, call[d].ref, call[d].snap)'
  <2>1. PICK s : s = SnapshotOf(r)
    OBVIOUS
  <2>2. call'[d].ref = r /\ call'[d].snap = s /\ SnapSound(d, r, s)
    BY <1>4, <1>5, <2>1
  <2>3. /\ payment' = payment /\ contract' = contract /\ stake' = stake /\ credit' = credit
        /\ booked' = booked /\ missed' = missed
    BY <1>1, <1>8 DEF db
  <2>4. LedFromTheStart(ContractOf[r])' <=> LedFromTheStart(ContractOf[r])
    BY <2>3 DEF LedFromTheStart
  <2>5. Confirmed(r)' <=> Confirmed(r)
    BY <2>3 DEF Confirmed
  <2>6. SnapSound(d, r, s)'
    BY <2>2, <2>3, <2>4, <2>5 DEF SnapSound
  <2> QED BY <2>2, <2>6 DEF SnapSound
<1>10. MissedIsConfirmed(d)'
  BY <1>8 DEF MissedIsConfirmed
<1>11. CallSound(d)'
  <2>1. call'[d].pc = "retrytxn" /\ call'[d].ref \in Refs
    BY <1>5
  <2>2. call'[d].snap.payment.status = "CONFIRMED"
    BY <1>3, <1>5 DEF SnapshotOf, Confirmed
  <2> QED BY <1>8, <1>9, <1>10, <2>1, <2>2 DEF CallSound
<1> QED BY <1>1, <1>5, <1>6, <1>7, <1>11, CallStep

\* Whoever gives up has written nothing.
LEMMA AbortStep ==
    ASSUME IInv, NEW d \in Deliveries, NEW pc \in {"inactive", "error"},
           Reply(d, pc), TxnAbort(d), UNCHANGED <<charge, db>>
    PROVE  IInv'
<1>1. TypeOK /\ ChargedIsPending
  BY DEF IInv
<1>2. call' \in [Deliveries -> CallState] /\ \A o \in Deliveries \ {d} : call'[o] = call[o]
  BY <1>1, ReplyFacts
<1>3. charge' \in [Refs -> {"none", "page", "money"}] /\ ChargedIsPending' /\ TxnTypeOK'
  BY <1>1, TxnType DEF TypeOK, ChargedIsPending, db
<1>4. \A o \in Deliveries \ {d} : Misses(o, {})
  BY <1>1, <1>2, OthersMiss
<1>5. CallSound(d)'
  BY <1>1, ReplySound
<1> QED BY <1>2, <1>3, <1>4, <1>5, CallStep

LEMMA RefuseConfirmStep ==
    ASSUME IInv, NEW d \in Deliveries, RefuseConfirm(d)
    PROVE  IInv'
<1>1. PICK pc \in {"inactive", "error"} : Reply(d, pc)
  BY DEF RefuseConfirm
<1> QED BY <1>1, AbortStep DEF RefuseConfirm

LEMMA FailStep ==
    ASSUME IInv, NEW d \in Deliveries, Fail(d)
    PROVE  IInv'
  BY AbortStep DEF Fail

LEMMA DuplicateKeyStep ==
    ASSUME IInv, NEW d \in Deliveries, DuplicateKey(d)
    PROVE  IInv'
<1>1. /\ UNCHANGED <<charge, db>> /\ TypeOK /\ ChargedIsPending /\ CallSound(d)
      /\ TxnAbort(d) /\ Goto(d, "retry")
  BY DEF DuplicateKey, IInv, CallsSound
<1>2. PICK r \in Refs : r = call[d].ref
  BY <1>1 DEF DuplicateKey, CallSound
<1>3. /\ call' \in [Deliveries -> CallState] /\ \A o \in Deliveries \ {d} : call'[o] = call[o]
      /\ call'[d].pc = "retry" /\ call'[d].ref = r
  BY <1>1, <1>2, GotoFacts
<1>4. charge' \in [Refs -> {"none", "page", "money"}] /\ ChargedIsPending' /\ TxnTypeOK'
  BY <1>1, TxnType DEF TypeOK, ChargedIsPending, db
<1>5. \A o \in Deliveries \ {d} : Misses(o, {})
  BY <1>1, <1>3, OthersMiss
<1>6. CallSound(d)'
  <2>1. Confirmed(r)
    <3>1. MissedIsConfirmed(d)
      BY <1>1 DEF DuplicateKey, CallSound
    <3> QED BY <1>2, <3>1 DEF DuplicateKey, MissedIsConfirmed
  <2>2. Confirmed(r)' /\ payment'[r] # Absent
    BY <1>1, <2>1 DEF Confirmed, db
  <2>3. d \notin open' /\ missed'[d] = {}
    BY <1>1 DEF TxnAbort, TypeOK, TxnTypeOK
  <2> QED BY <1>3, <2>2, <2>3 DEF CallSound
<1> QED BY <1>1, <1>3, <1>4, <1>5, <1>6, CallStep

-----------------------------------------------------------------------------
\* Payments that are created, or marked failed.
LEMMA PaymentWritten ==
    ASSUME IInv, NEW r \in Refs, NEW p \in PaymentDoc, p.status # "CONFIRMED", ~Confirmed(r),
           payment' = [payment EXCEPT ![r] = p], PlainWrite({<<"payment", r>>}),
           UNCHANGED <<charge, allocation, contract, stake, credit, wallet, excess, booked>>,
           call' \in [Deliveries -> CallState],
           \A o \in Deliveries : call'[o] = call[o] \/ CallSound(o)'
    PROVE  IInv'
<1>1. TypeOK /\ BooksOK /\ ChargedIsPending
  BY DEF IInv
<1>2. TypeOK'
  <2>1. TxnTypeOK'
    <3>1. {<<"payment", r>>} \in SUBSET Docs
      BY DEF Docs
    <3> QED BY <1>1, <3>1, WriteType DEF TypeOK
  <2>2. payment' \in [Refs -> PaymentDoc \cup {Absent}]
    BY <1>1 DEF TypeOK
  <2> QED BY <1>1, <2>1, <2>2 DEF TypeOK
<1>3. p # Absent
  BY RepaymentAssumption
<1>4. payment'[r] = p /\ \A q \in Refs \ {r} : payment'[q] = payment[q]
  BY <1>1 DEF TypeOK
<1>5. PaymentsKept
  BY <1>4 DEF PaymentsKept, Confirmed
<1>6. StakesGrow
  BY DEF StakesGrow
<1>7. DbMoves
  BY <1>3, <1>4, <1>5, <1>6 DEF DbMoves, PaymentsKept
<1>8. Covers({<<"payment", r>>})
  BY <1>4, DocsApart DEF Covers
<1>9. CallsSound'
  <2>1. \A o \in Deliveries : Misses(o, {<<"payment", r>>}) \/ CallSound(o)'
    BY <1>1, AllMiss
  <2> QED BY <1>2, <1>7, <1>8, <2>1, StepSound
<1>10. BooksOK'
  <2>1. CompletedMeansPaid' /\ WalletsAgree'
    BY <1>1 DEF BooksOK, CompletedMeansPaid, WalletsAgree
  <2>2. /\ \A c \in Contracts : contract'[c].totalPaid = contract[c].totalPaid
        /\ \A q \in Refs : credit'[q] = credit[q] \/ ~LedFromTheStart(ContractOf[q])
        /\ \A q \in Refs : excess'[q] = excess[q]
        /\ \A q \in Refs :
              \/ booked'[q] = booked[q]
              \/ booked[q] > 0 /\ booked'[q] > 0 /\ ~LedFromTheStart(ContractOf[q])
    OBVIOUS
  <2> QED BY <1>1, <1>2, <1>5, <1>6, <2>1, <2>2, BooksAge
<1>11. ChargedIsPending'
  BY <1>1, <1>7, RepaymentAssumption DEF ChargedIsPending, DbMoves
<1> QED BY <1>2, <1>9, <1>10, <1>11 DEF IInv

LEMMA CreateDriverPaymentStep ==
    ASSUME IInv, NEW r \in Refs, CreateDriverPayment(r)
    PROVE  IInv'
<1>1. PICK p \in PaymentDoc : p = [status |-> "PENDING", applied |-> 0]
  BY DEF PaymentDoc
<1>2. call' = call /\ call \in [Deliveries -> CallState] /\ ~Confirmed(r)
  BY DEF CreateDriverPayment, IInv, TypeOK, Confirmed
<1> QED BY <1>1, <1>2, PaymentWritten DEF CreateDriverPayment

LEMMA MarkFailedStep ==
    ASSUME IInv, NEW r \in Refs, markDriverPaymentFailed(r)
    PROVE  IInv'
<1>1. payment[r] \in PaymentDoc /\ payment[r].status = "PENDING"
  BY DEF markDriverPaymentFailed, IInv, TypeOK
<1>2. PICK p \in PaymentDoc : p = [payment[r] EXCEPT !.status = "FAILED"]
  BY <1>1 DEF PaymentDoc
<1>3. payment' = [payment EXCEPT ![r] = p] /\ p.status # "CONFIRMED"
  BY <1>1, <1>2 DEF markDriverPaymentFailed, PaymentDoc
<1>4. call' = call /\ call \in [Deliveries -> CallState] /\ ~Confirmed(r)
  BY <1>1 DEF markDriverPaymentFailed, IInv, TypeOK, Confirmed
<1> QED BY <1>3, <1>4, PaymentWritten DEF markDriverPaymentFailed

LEMMA CreateTransferPaymentStep ==
    ASSUME IInv, NEW d \in Deliveries, CreateTransferPayment(d)
    PROVE  IInv'
<1>1. TypeOK /\ ChargedIsPending /\ CallSound(d)
  BY DEF IInv, CallsSound
<1>2. PICK r \in Refs : r = call[d].ref
  BY <1>1 DEF CreateTransferPayment, CallSound
<1>3. d \notin open /\ missed[d] = {}
  BY <1>1 DEF CreateTransferPayment, CallSound
<1>4. CASE payment[r] # Absent /\ Goto(d, "begin") /\ UNCHANGED <<charge, db, open, missed>>
  <2>1. /\ call' \in [Deliveries -> CallState] /\ \A o \in Deliveries \ {d} : call'[o] = call[o]
        /\ call'[d].pc = "begin" /\ call'[d].ref = r
    BY <1>1, <1>2, <1>4, GotoFacts
  <2>2. charge' \in [Refs -> {"none", "page", "money"}] /\ ChargedIsPending' /\ TxnTypeOK'
    BY <1>1, <1>4 DEF TypeOK, TxnTypeOK, ChargedIsPending, db
  <2>3. \A o \in Deliveries \ {d} : Misses(o, {})
    BY <1>1, <1>4, <2>1, AllMiss
  <2>4. payment'[r] # Absent /\ d \notin open' /\ missed'[d] = {}
    BY <1>3, <1>4 DEF db
  <2>5. CallSound(d)'
    BY <2>1, <2>4 DEF CallSound
  <2> QED BY <1>4, <2>1, <2>2, <2>3, <2>5, CallStep
<1>5. CASE /\ payment[r] = Absent /\ Goto(d, "begin")
           /\ payment' = [payment EXCEPT ![r] = [status |-> "PENDING", applied |-> 0]]
           /\ PlainWrite({<<"payment", r>>})
           /\ UNCHANGED <<charge, allocation, contract, stake, credit, wallet, excess, booked>>
  <2>1. /\ call' \in [Deliveries -> CallState] /\ \A o \in Deliveries \ {d} : call'[o] = call[o]
        /\ call'[d].pc = "begin" /\ call'[d].ref = r
    BY <1>1, <1>2, <1>5, GotoFacts
  <2>2. PICK p \in PaymentDoc : p = [status |-> "PENDING", applied |-> 0]
    BY DEF PaymentDoc
  <2>3. p # Absent /\ ~Confirmed(r) /\ p.status # "CONFIRMED"
    BY <1>5, <2>2, RepaymentAssumption DEF Confirmed
  <2>4. payment'[r] # Absent
    BY <1>1, <1>5, <2>2, <2>3 DEF TypeOK
  <2>5. d \notin open' /\ missed'[d] = {}
    BY <1>1, <1>3, <1>5 DEF PlainWrite, TypeOK, TxnTypeOK
  <2>6. CallSound(d)'
    BY <2>1, <2>4, <2>5 DEF CallSound
  <2> QED BY <1>5, <2>1, <2>2, <2>3, <2>6, PaymentWritten
<1>6. CASE Reply(d, "inactive") /\ UNCHANGED <<charge, db, open, missed>>
  <2>1. call' \in [Deliveries -> CallState] /\ \A o \in Deliveries \ {d} : call'[o] = call[o]
    BY <1>1, <1>6, ReplyFacts
  <2>2. charge' \in [Refs -> {"none", "page", "money"}] /\ ChargedIsPending' /\ TxnTypeOK'
    BY <1>1, <1>6 DEF TypeOK, TxnTypeOK, ChargedIsPending, db
  <2>3. \A o \in Deliveries \ {d} : Misses(o, {})
    BY <1>1, <1>6, <2>1, AllMiss
  <2>4. CallSound(d)'
    BY <1>1, <1>3, <1>6, ReplySound
  <2> QED BY <1>6, <2>1, <2>2, <2>3, <2>4, CallStep
<1> QED BY <1>2, <1>4, <1>5, <1>6 DEF CreateTransferPayment, db

-----------------------------------------------------------------------------
\* Investors and administrators.
LEMMA InvestStep ==
    ASSUME IInv, NEW c \in Contracts, NEW i \in Investors, Invest(c, i)
    PROVE  IInv'
<1>1. TypeOK /\ BooksOK /\ ChargedIsPending
  BY DEF IInv
<1>2. /\ UNCHANGED <<charge, payment, allocation, contract, credit, wallet, excess, booked, call>>
      /\ PlainWrite({<<"user", i>>})
      /\ stake[c][i] < MaxStake[i]
      /\ stake' = [stake EXCEPT ![c] = [stake[c] EXCEPT ![i] = stake[c][i] + 1]]
  BY DEF Invest
<1>3. stake \in [Contracts -> [Investors -> Nat]]
  BY <1>1 DEF TypeOK
<1>4. stake' \in [Contracts -> [Investors -> Nat]]
  BY <1>2, <1>3
<1>5. StakesGrow
  BY <1>2, <1>3 DEF StakesGrow
<1>6. TypeOK'
  <2>1. {<<"user", i>>} \in SUBSET Docs
    BY RepaymentAssumption DEF Docs
  <2>2. TxnTypeOK'
    BY <1>1, <1>2, <2>1, WriteType DEF TypeOK
  <2> QED BY <1>1, <1>2, <1>4, <2>2 DEF TypeOK
<1>7. DbMoves
  BY <1>2, <1>5 DEF DbMoves, Confirmed
<1>8. Covers({<<"user", i>>})
  BY <1>2, DocsApart DEF Covers
<1>9. CallsSound'
  <2>1. \A o \in Deliveries : Misses(o, {<<"user", i>>})
    BY <1>1, <1>2, AllMiss
  <2> QED BY <1>6, <1>7, <1>8, <2>1, StepSound
<1>10. BooksOK'
  <2>1. CompletedMeansPaid' /\ WalletsAgree' /\ PaymentsKept
    BY <1>1, <1>2 DEF BooksOK, CompletedMeansPaid, WalletsAgree, PaymentsKept, Confirmed
  <2>2. /\ allocation' = allocation
        /\ \A k \in Contracts : contract'[k].totalPaid = contract[k].totalPaid
        /\ \A q \in Refs : credit'[q] = credit[q] \/ ~LedFromTheStart(ContractOf[q])
        /\ \A q \in Refs : excess'[q] = excess[q]
        /\ \A q \in Refs :
              \/ booked'[q] = booked[q]
              \/ booked[q] > 0 /\ booked'[q] > 0 /\ ~LedFromTheStart(ContractOf[q])
    BY <1>2
  <2> QED BY <1>1, <1>5, <1>6, <2>1, <2>2, BooksAge
<1>11. ChargedIsPending'
  BY <1>1, <1>2 DEF ChargedIsPending
<1> QED BY <1>6, <1>9, <1>10, <1>11 DEF IInv

LEMMA TransitionStep ==
    ASSUME IInv, NEW c \in Contracts, NEW target \in Status, Transition(c, target)
    PROVE  IInv'
<1>1. TypeOK /\ BooksOK /\ ChargedIsPending
  BY DEF IInv
<1>2. /\ UNCHANGED <<charge, payment, allocation, stake, credit, wallet, excess, booked, call>>
      /\ PlainWrite({<<"contract", c>>})
      /\ target = "COMPLETED" => contract[c].totalPaid >= contract[c].payable
  BY DEF Transition, Settled
<1>3. PICK p \in Nat :
         /\ target = "COMPLETED" => p = contract[c].payable
         /\ contract' = [contract EXCEPT ![c] = [[contract[c] EXCEPT !.status = target]
                                                    EXCEPT !.payable = p]]
  <2>1. contract[c] \in ContractDoc
    BY <1>1 DEF TypeOK
  <2>2. contract[c].payable \in Nat
    BY <2>1 DEF ContractDoc
  <2>3. PICK p \in IF target = "RESTRUCTURED" THEN NewPayables \cup {contract[c].payable}
                   ELSE {contract[c].payable} :
           contract' = [contract EXCEPT ![c].status = target, ![c].payable = p]
    BY DEF Transition
  <2>4. p \in Nat /\ (target = "COMPLETED" => p = contract[c].payable)
    BY <2>2, RepaymentAssumption
  <2>5. contract' = [contract EXCEPT ![c] = [[contract[c] EXCEPT !.status = target]
                                                EXCEPT !.payable = p]]
    BY <1>1, <2>3 DEF TypeOK
  <2> QED BY <2>4, <2>5
<1>4. /\ contract'[c].totalPaid = contract[c].totalPaid /\ contract'[c].status = target
      /\ contract'[c].payable = p /\ contract'[c] \in ContractDoc
      /\ \A k \in Contracts \ {c} : contract'[k] = contract[k]
  <2>1. contract \in [Contracts -> ContractDoc]
    BY <1>1 DEF TypeOK
  <2> QED BY <1>3, <2>1 DEF ContractDoc
<1>5. StakesGrow /\ PaymentsKept
  BY <1>2 DEF StakesGrow, PaymentsKept, Confirmed
<1>6. TypeOK'
  <2>1. {<<"contract", c>>} \in SUBSET Docs
    BY DEF Docs
  <2>2. TxnTypeOK'
    BY <1>1, <1>2, <2>1, WriteType DEF TypeOK
  <2>3. contract' \in [Contracts -> ContractDoc]
    BY <1>1, <1>3, <1>4 DEF TypeOK
  <2> QED BY <1>1, <1>2, <2>2, <2>3 DEF TypeOK
<1>7. DbMoves
  BY <1>2, <1>5 DEF DbMoves, Confirmed
<1>8. Covers({<<"contract", c>>})
  BY <1>2, <1>4, DocsApart DEF Covers
<1>9. CallsSound'
  <2>1. \A o \in Deliveries : Misses(o, {<<"contract", c>>})
    BY <1>1, <1>2, AllMiss
  <2> QED BY <1>6, <1>7, <1>8, <2>1, StepSound
<1>10. BooksOK'
  <2>1. WalletsAgree'
    BY <1>1, <1>2 DEF BooksOK, WalletsAgree
  <2>2. CompletedMeansPaid'
    BY <1>1, <1>2, <1>3, <1>4 DEF BooksOK, CompletedMeansPaid
  <2>3. /\ allocation' = allocation
        /\ \A k \in Contracts : contract'[k].totalPaid = contract[k].totalPaid
        /\ \A q \in Refs : credit'[q] = credit[q] \/ ~LedFromTheStart(ContractOf[q])
        /\ \A q \in Refs : excess'[q] = excess[q]
        /\ \A q \in Refs :
              \/ booked'[q] = booked[q]
              \/ booked[q] > 0 /\ booked'[q] > 0 /\ ~LedFromTheStart(ContractOf[q])
    BY <1>2, <1>4
  <2> QED BY <1>1, <1>5, <1>6, <2>1, <2>2, <2>3, BooksAge
<1>11. ChargedIsPending'
  BY <1>1, <1>2 DEF ChargedIsPending
<1> QED BY <1>6, <1>9, <1>10, <1>11 DEF IInv

-----------------------------------------------------------------------------
\* What is posted once a payment is confirmed.
LEMMA PostedDocsFacts ==
    ASSUME NEW r, NEW shares
    PROVE  /\ \A i \in Investors : shares[i] > 0 => <<"credit", r, i>> \in PostedDocs(r, shares)
           /\ \A q : <<"allocation", q>> \notin PostedDocs(r, shares)
           /\ \A q, i : <<"credit", q, i>> \in PostedDocs(r, shares) => q = r
<1>1. \A i \in Investors : shares[i] > 0 => <<"credit", r, i>> \in PostedDocs(r, shares)
  BY DEF PostedDocs
<1>2. ASSUME NEW q PROVE <<"allocation", q>> \notin PostedDocs(r, shares)
  BY DocsApart DEF PostedDocs
<1>3. ASSUME NEW q, NEW i, <<"credit", q, i>> \in PostedDocs(r, shares) PROVE q = r
  BY <1>3, DocsApart DEF PostedDocs
<1> QED BY <1>1, <1>2, <1>3

LEMMA LeaderInSnapshot ==
    ASSUME TypeOK, NEW d, NEW r \in Refs, NEW s, SnapSound(d, r, s),
           NEW i \in Investors, Leads(ContractOf[r], i)
    PROVE  s.stake[i] > 0 /\ \A j \in Investors \ {i} : s.stake[j] < s.stake[i]
<1>1. PICK c \in Contracts : c = ContractOf[r]
  BY RepaymentAssumption
<1>2. s.stake \in [Investors -> Nat] /\ stake[c] \in [Investors -> Nat]
  BY DEF SnapSound, Snapshot, TypeOK
<1>3. \A j \in Investors : /\ s.stake[j] \in Nat /\ stake[c][j] \in Nat /\ MaxStake[j] \in Nat
                           /\ \/ s.stake[j] = stake[c][j]
                              \/ s.stake[j] <= stake[c][j] /\ stake[c][j] <= MaxStake[j]
  BY <1>1, <1>2, RepaymentAssumption DEF SnapSound
<1>4. stake[c][i] > MaxStake[i] /\ \A j \in Investors \ {i} : stake[c][j] < stake[c][i]
  BY <1>1 DEF Leads
<1>5. s.stake[i] = stake[c][i] /\ s.stake[i] > 0
  BY <1>3, <1>4
<1>6. ASSUME NEW j \in Investors \ {i} PROVE s.stake[j] < s.stake[i]
  BY <1>3, <1>4, <1>5
<1> QED BY <1>5, <1>6

LEMMA PostStep ==
    ASSUME IInv, NEW d \in Deliveries, NEW r \in Refs, NEW s, NEW shares,
           r = call[d].ref, SnapSound(d, r, s), Confirmed(r),
           shares = Distribution(s, s.payment.applied, r),
           TxnCommit(d, PostedDocs(r, shares)), Post(r, shares, Absent, 0), Reply(d, "ok"),
           UNCHANGED <<charge, payment, allocation, contract, stake>>,
           \/ s.payment.status = "CONFIRMED" /\ booked' = booked
           \/ /\ ~LedFromTheStart(ContractOf[r])
              /\ booked' = [booked EXCEPT ![r] = @ + IF s.booked THEN 0 ELSE 1]
    PROVE  IInv'
<1>1. TypeOK /\ BooksOK /\ ChargedIsPending /\ WalletsAgree
  BY DEF IInv, BooksOK
<1>2. s \in Snapshot /\ s.payment \in PaymentDoc /\ s.payment.applied \in Nat
  BY DEF SnapSound, Snapshot, PaymentDoc
<1>3. /\ shares \in [Investors -> Nat]
      /\ s.credited => \A i \in Investors : shares[i] = 0
  BY <1>2, DistributionFacts
<1>4. /\ credit' \in [Refs -> [Investors -> Nat]]
      /\ excess' \in [Refs -> Nat]
      /\ wallet' \in [Users -> Nat]
      /\ \A q \in Refs \ {r} : credit'[q] = credit[q] /\ excess'[q] = excess[q]
      /\ \A i \in Investors : credit'[r][i] = credit[r][i] + shares[i]
      /\ excess'[r] = excess[r] + 0
      /\ WalletsAgree'
  BY <1>1, <1>3, Posting
<1>5. /\ excess \in [Refs -> Nat] /\ booked \in [Refs -> Nat]
      /\ credit \in [Refs -> [Investors -> Nat]]
  BY <1>1 DEF TypeOK
<1>6. booked' \in [Refs -> Nat] /\ \A q \in Refs : booked[q] > 0 => booked'[q] > 0
  <2>1. CASE booked' = booked
    BY <1>5, <2>1
  <2>2. CASE booked' = [booked EXCEPT ![r] = booked[r] + IF s.booked THEN 0 ELSE 1]
    <3>1. PICK n \in Nat : n = IF s.booked THEN 0 ELSE 1
      OBVIOUS
    <3>2. booked' = [booked EXCEPT ![r] = booked[r] + n]
      BY <2>2, <3>1
    <3> QED BY <1>5, <3>2
  <2> QED BY <2>1, <2>2
<1>7. call' \in [Deliveries -> CallState] /\ \A o \in Deliveries \ {d} : call'[o] = call[o]
  BY <1>1, ReplyFacts
<1>8. TypeOK'
  <2>1. TxnTypeOK'
    BY <1>1, PostedDocsType, TxnType DEF TypeOK
  <2> QED BY <1>1, <1>4, <1>6, <1>7, <2>1 DEF TypeOK
<1>9. StakesGrow /\ PaymentsKept
  BY DEF StakesGrow, PaymentsKept, Confirmed
<1>10. DbMoves
  BY <1>6, <1>9 DEF DbMoves, PaymentsKept
<1>11. Confirmed(r)'
  BY <1>9 DEF PaymentsKept
<1>12. Covers(PostedDocs(r, shares))
  <2>1. ASSUME NEW q \in Refs, NEW i \in Investors
        PROVE  credit'[q][i] = credit[q][i] \/ <<"credit", q, i>> \in PostedDocs(r, shares)
    <3>1. CASE q # r
      BY <1>4, <3>1
    <3>2. CASE q = r /\ shares[i] = 0
      BY <1>4, <1>5, <3>2
    <3>3. CASE q = r /\ shares[i] > 0
      BY <3>3, PostedDocsFacts
    <3> QED BY <1>3, <3>1, <3>2, <3>3
  <2> QED BY <1>11, <2>1, PostedDocsFacts DEF Covers
<1>13. CallsSound'
  <2>1. CallSound(d)'
    <3>1. call'[d].ref = r
      BY <1>1, ReplyFacts
    <3>2. Confirmed(call[d].ref)'
      BY <1>11, <3>1 DEF Confirmed
    <3> QED BY <1>1, <3>2, ReplySound
  <2>2. \A o \in Deliveries \ {d} : Misses(o, PostedDocs(r, shares))
    BY <1>1, <1>7, OthersMiss
  <2> QED BY <1>8, <1>10, <1>12, <2>1, <2>2, StepSound
<1>14. BooksOK'
  <2>1. CompletedMeansPaid'
    BY <1>1 DEF BooksOK, CompletedMeansPaid
  <2>2. ASSUME NEW q \in Refs
        PROVE  credit'[q] = credit[q] \/ ~LedFromTheStart(ContractOf[q])
    <3>1. CASE q # r
      BY <1>4, <3>1
    <3>2. CASE q = r /\ LedFromTheStart(ContractOf[r])
      <4>1. s.credited
        BY <3>2 DEF SnapSound
      <4>2. \A i \in Investors : credit'[r][i] = credit[r][i]
        BY <1>3, <1>4, <1>5, <4>1
      <4> QED BY <1>4, <1>5, <3>2, <4>2
    <3> QED BY <3>1, <3>2
  <2>3. \A q \in Refs : excess'[q] = excess[q]
    BY <1>4, <1>5
  <2>4. ASSUME NEW q \in Refs
        PROVE  \/ booked'[q] = booked[q]
               \/ booked[q] > 0 /\ booked'[q] > 0 /\ ~LedFromTheStart(ContractOf[q])
    <3>1. CASE booked' = booked \/ q # r
      BY <1>5, <3>1
    <3>2. CASE q = r /\ ~LedFromTheStart(ContractOf[r])
      <4>1. booked[r] > 0
        BY <1>1, <1>5, <3>2 DEF BooksOK, OneRepaymentTransaction
      <4> QED BY <1>6, <3>2, <4>1
    <3> QED BY <3>1, <3>2
  <2>5. \A k \in Contracts : contract'[k].totalPaid = contract[k].totalPaid
    OBVIOUS
  <2> QED BY <1>1, <1>4, <1>8, <1>9, <2>1, <2>2, <2>3, <2>4, <2>5, BooksAge
<1>15. ChargedIsPending'
  BY <1>1 DEF ChargedIsPending
<1> QED BY <1>8, <1>13, <1>14, <1>15 DEF IInv

LEMMA AlreadyConfirmedStep ==
    ASSUME IInv, NEW d \in Deliveries, AlreadyConfirmed(d)
    PROVE  IInv'
<1>1. CallSound(d)
  BY DEF IInv, CallsSound
<1>2. PICK r \in Refs : r = call[d].ref
  BY <1>1 DEF AlreadyConfirmed, CallSound
<1>3. PICK s, shares : s = call[d].snap /\ shares = Distribution(s, s.payment.applied, r)
  OBVIOUS
<1>4. SnapSound(d, r, s) /\ s.payment.status = "CONFIRMED" /\ Confirmed(r)
  BY <1>1, <1>2, <1>3 DEF AlreadyConfirmed, CallSound, SnapSound
<1>5. /\ TxnCommit(d, PostedDocs(r, shares)) /\ Post(r, shares, Absent, 0) /\ Reply(d, "ok")
      /\ UNCHANGED <<charge, payment, allocation, contract, stake>> /\ booked' = booked
  BY <1>2, <1>3 DEF AlreadyConfirmed
<1> QED BY <1>2, <1>3, <1>4, <1>5, PostStep

LEMMA DistributeStep ==
    ASSUME IInv, NEW d \in Deliveries, Distribute(d)
    PROVE  IInv'
<1>1. CallSound(d)
  BY DEF IInv, CallsSound
<1>2. PICK r \in Refs : r = call[d].ref
  BY <1>1 DEF Distribute, CallSound
<1>3. PICK s, shares : s = call[d].snap /\ shares = Distribution(s, s.payment.applied, r)
  OBVIOUS
<1>4. SnapSound(d, r, s) /\ s.payment.status = "CONFIRMED" /\ Confirmed(r)
  BY <1>1, <1>2, <1>3 DEF Distribute, CallSound, SnapSound
<1>5. /\ TxnCommit(d, PostedDocs(r, shares)) /\ Post(r, shares, Absent, 0) /\ Reply(d, "ok")
      /\ UNCHANGED <<charge, payment, allocation, contract, stake>> /\ booked' = booked
  BY <1>2, <1>3 DEF Distribute
<1> QED BY <1>2, <1>3, <1>4, <1>5, PostStep

\* Where a pool has a leader, the unique index of its credit refuses what a second
\* delivery would post over an allocation that it did not see.
LEMMA AllocationExistsStep ==
    ASSUME IInv, NEW d \in Deliveries, AllocationExists(d)
    PROVE  IInv'
<1>1. CallSound(d) /\ TypeOK /\ AllocationsConfirmed /\ LeaderCredited
  BY DEF IInv, CallsSound, BooksOK
<1>2. PICK r \in Refs : r = call[d].ref
  BY <1>1 DEF AllocationExists, CallSound
<1>3. PICK s, shares : s = call[d].snap /\ shares = Distribution(s, s.payment.applied, r)
  OBVIOUS
<1>4. SnapSound(d, r, s) /\ s.payment.status = "PENDING" /\ Confirmed(r)
  BY <1>1, <1>2, <1>3
     DEF AllocationExists, Confirmable, CallSound, AllocationsConfirmed
<1>5. /\ TxnCommit(d, PostedDocs(r, shares)) /\ Post(r, shares, Absent, 0) /\ Reply(d, "ok")
      /\ UNCHANGED <<charge, payment, allocation, contract, stake>>
      /\ booked' = [booked EXCEPT ![r] = @ + IF s.booked THEN 0 ELSE 1]
  BY <1>2, <1>3 DEF AllocationExists
<1>6. ~LedFromTheStart(ContractOf[r])
  <2> SUFFICES ASSUME LedFromTheStart(ContractOf[r]) PROVE FALSE
    OBVIOUS
  <2>1. PICK i \in Investors : Leads(ContractOf[r], i)
    BY DEF LedFromTheStart, Leads
  <2>2. s \in Snapshot /\ s.payment.applied \in Nat /\ ~s.credited
    <3>1. s \in Snapshot
      BY <1>4 DEF SnapSound
    <3>2. s.payment \in PaymentDoc
      BY <3>1 DEF Snapshot
    <3>3. s.payment.applied \in Nat
      BY <3>2 DEF PaymentDoc
    <3>4. s.payment.status # "CONFIRMED"
      BY <1>4
    <3>5. ~s.credited
      BY <1>4, <3>4 DEF SnapSound
    <3> QED BY <3>1, <3>3, <3>5
  <2>3. shares[i] > 0
    <3>1. s.stake[i] > 0 /\ \A j \in Investors \ {i} : s.stake[j] < s.stake[i]
      BY <1>1, <1>4, <2>1, LeaderInSnapshot
    <3> QED BY <1>3, <2>2, <3>1, DistributionFacts
  <2>4. <<"credit", r, i>> \in missed[d]
    <3>1. credit[r][i] > 0
      BY <1>1, <1>4, <2>1 DEF LeaderCredited
    <3>2. credit[r][i] # 0
      BY <3>1
    <3> QED BY <1>4, <2>2, <3>2 DEF SnapSound
  <2>5. <<"credit", r, i>> \in PostedDocs(r, shares)
    BY <2>3, PostedDocsFacts
  <2> QED BY <1>5, <2>4, <2>5 DEF TxnCommit
<1> QED BY <1>2, <1>3, <1>4, <1>5, <1>6, PostStep

-----------------------------------------------------------------------------
\* The commit that confirms a payment: it writes the payment and the contract, so
\* it has seen both as they are.
LEMMA ConfirmSeesTheDatabase ==
    ASSUME IInv, NEW d \in Deliveries, ConfirmPayment(d)
    PROVE  \E r \in Refs, s \in Snapshot, a \in Nat :
              /\ r = call[d].ref /\ s = call[d].snap /\ a = Accepted(s, r)
              /\ SnapSound(d, r, s)
              /\ s.payment = payment[r] /\ payment[r] # Absent
              /\ payment[r].status = "PENDING" /\ r \notin allocation
              /\ s.contract = contract[ContractOf[r]]
              /\ a > 0 /\ a <= Amount[r]
              /\ contract[ContractOf[r]].totalPaid + a <= contract[ContractOf[r]].payable
              /\ contract[ContractOf[r]].status \in Repayable
<1>1. CallSound(d) /\ TypeOK
  BY DEF IInv, CallsSound
<1>2. PICK r \in Refs : r = call[d].ref
  BY <1>1 DEF ConfirmPayment, CallSound
<1>3. PICK s, c : s = call[d].snap /\ c = ContractOf[r]
  OBVIOUS
<1>4. SnapSound(d, r, s) /\ s \in Snapshot /\ c \in Contracts
  BY <1>1, <1>2, <1>3, RepaymentAssumption DEF ConfirmPayment, CallSound, SnapSound
<1>5. PICK shares : shares = Distribution(s, Accepted(s, r), r)
  OBVIOUS
<1>6. TxnCommit(d, Written(d, shares)) /\ Confirmable(s) /\ r \notin allocation
  BY <1>2, <1>3, <1>5 DEF ConfirmPayment
<1>7. <<"payment", r>> \in Written(d, shares) /\ <<"contract", c>> \in Written(d, shares)
  BY <1>2, <1>3 DEF Written
<1>8. s.payment = payment[r] /\ s.contract = contract[c]
  BY <1>3, <1>4, <1>6, <1>7 DEF TxnCommit, SnapSound
<1>9. s.payment \in PaymentDoc /\ s.contract \in ContractDoc
  BY <1>4 DEF Snapshot
<1>10. payment[r] # Absent /\ payment[r].status = "PENDING"
  BY <1>6, <1>8, <1>9, RepaymentAssumption DEF Confirmable
<1>11. s.contract.totalPaid \in Nat /\ s.contract.payable \in Nat /\ Amount[r] \in Nat \ {0}
  BY <1>9, RepaymentAssumption DEF ContractDoc
<1>12. /\ s.contract.payable > s.contract.totalPaid
       /\ Remaining(s.contract) = s.contract.payable - s.contract.totalPaid
  BY <1>6, <1>11 DEF Confirmable, Remaining
<1>13. PICK a : a = Accepted(s, r)
  OBVIOUS
<1>14. /\ a \in Nat /\ a > 0 /\ a <= Amount[r]
       /\ s.contract.totalPaid + a <= s.contract.payable
  BY <1>11, <1>12, <1>13 DEF Accepted, LesserOf
<1>15. s.contract.status \in Repayable
  BY <1>6 DEF Confirmable
<1>16. /\ contract[c].totalPaid + a <= contract[c].payable
       /\ contract[c].status \in Repayable
  BY <1>8, <1>14, <1>15
<1> QED BY <1>2, <1>3, <1>4, <1>6, <1>8, <1>10, <1>13, <1>14, <1>16

\* The contract's total grows by what the payment that joins has applied.
LEMMA TotalGrows ==
    ASSUME TypeOK, TotalPaidAgrees, NEW r \in Refs, ~Confirmed(r), NEW a \in Nat,
           NEW p \in PaymentDoc, p.status = "CONFIRMED", p.applied = a,
           payment' = [payment EXCEPT ![r] = p],
           contract'[ContractOf[r]].totalPaid = contract[ContractOf[r]].totalPaid + a,
           \A c \in Contracts \ {ContractOf[r]} : contract'[c] = contract[c]
    PROVE  TotalPaidAgrees'
<1>1. payment \in [Refs -> PaymentDoc \cup {Absent}]
  BY DEF TypeOK
<1>2. payment'[r] = p /\ \A q \in Refs \ {r} : payment'[q] = payment[q]
  BY <1>1
<1>3. p # Absent
  BY RepaymentAssumption
<1>4. Confirmed(r)' /\ \A q \in Refs \ {r} : Confirmed(q)' <=> Confirmed(q)
  BY <1>2, <1>3 DEF Confirmed
<1> SUFFICES ASSUME NEW c \in Contracts
             PROVE  (contract[c].totalPaid =
                 LET paid == {q \in Refs : ContractOf[q] = c /\ Confirmed(q)}
                 IN  SumFunction([q \in paid |-> payment[q].applied]))'
  BY DEF TotalPaidAgrees
<1>5. PICK P, P2 : /\ P = {q \in Refs : ContractOf[q] = c /\ Confirmed(q)}
                   /\ P2 = {q \in Refs : ContractOf[q] = c /\ Confirmed(q)'}
  OBVIOUS
<1>6. PICK f, g : f = [q \in P |-> payment[q].applied] /\ g = [q \in P2 |-> payment'[q].applied]
  OBVIOUS
<1>7. contract[c].totalPaid = SumFunctionOnSet(f, P)
  <2>1. contract[c].totalPaid = SumFunction(f)
    BY <1>5, <1>6 DEF TotalPaidAgrees
  <2>2. DOMAIN f = P
    BY <1>6
  <2> QED BY <2>1, <2>2 DEF SumFunction
<1>8. contract'[c].totalPaid = SumFunctionOnSet(g, P2)
  <2>1. CASE c # ContractOf[r]
    <3>1. P2 = P /\ r \notin P
      BY <1>4, <1>5, <2>1
    <3>2. g = f
      BY <1>2, <1>5, <1>6, <3>1
    <3> QED BY <1>7, <2>1, <3>1, <3>2
  <2>2. CASE c = ContractOf[r]
    <3>1. P2 = P \cup {r} /\ r \notin P /\ IsFiniteSet(P)
      <4>1. P2 = P \cup {r} /\ r \notin P /\ P \subseteq Refs
        BY <1>4, <1>5, <2>2
      <4> QED BY <4>1, RepaymentAssumption, FS_Subset
    <3>2. \A q \in P : g[q] = f[q] /\ g[q] \in Int
      <4> SUFFICES ASSUME NEW q \in P PROVE g[q] = f[q] /\ g[q] \in Int
        OBVIOUS
      <4>1. q \in Refs \ {r} /\ Confirmed(q) /\ q \in P2
        BY <1>5, <3>1
      <4>2. payment[q] \in PaymentDoc /\ payment'[q] = payment[q]
        BY <1>1, <1>2, <4>1 DEF Confirmed
      <4>3. payment[q].applied \in Int
        BY <4>2 DEF PaymentDoc
      <4> QED BY <1>6, <4>1, <4>2, <4>3
    <3>3. g[r] = a
      BY <1>2, <1>6, <3>1
    <3>4. SumFunctionOnSet(g, P \cup {r}) = g[r] + SumFunctionOnSet(g, P)
      <4>1. g[r] \in Int /\ r \notin P /\ IsFiniteSet(P)
        BY <3>1, <3>3
      <4>2. \A q \in P : g[q] \in Int
        BY <3>2
      <4> QED BY <4>1, <4>2, SumAdd
    <3>5. SumFunctionOnSet(g, P) = SumFunctionOnSet(f, P)
      BY <3>1, <3>2, SumSame
    <3>6. contract[c].totalPaid \in Nat
      BY DEF TypeOK, ContractDoc
    <3> QED BY <1>7, <2>2, <3>1, <3>3, <3>4, <3>5, <3>6
  <2> QED BY <2>1, <2>2
<1>9. contract'[c].totalPaid = SumFunction(g)
  <2>1. DOMAIN g = P2
    BY <1>6
  <2> QED BY <1>8, <2>1 DEF SumFunction
<1> QED BY <1>5, <1>6, <1>9

LEMMA ConfirmPaymentStep ==
    ASSUME IInv, NEW d \in Deliveries, ConfirmPayment(d)
    PROVE  IInv'
<1>1. /\ TypeOK /\ BooksOK /\ ChargedIsPending /\ WalletsAgree /\ TotalPaidAgrees
      /\ PaymentSplitExactly /\ LeaderCredited /\ OneRepaymentTransaction
      /\ AllocationsConfirmed /\ CompletedMeansPaid
  BY DEF IInv, BooksOK
<1>2. PICK r \in Refs, s \in Snapshot, a \in Nat :
         /\ r = call[d].ref /\ s = call[d].snap /\ a = Accepted(s, r)
         /\ SnapSound(d, r, s)
         /\ s.payment = payment[r] /\ payment[r] # Absent
         /\ payment[r].status = "PENDING" /\ r \notin allocation
         /\ s.contract = contract[ContractOf[r]]
         /\ a > 0 /\ a <= Amount[r]
         /\ contract[ContractOf[r]].totalPaid + a <= contract[ContractOf[r]].payable
         /\ contract[ContractOf[r]].status \in Repayable
  BY ConfirmSeesTheDatabase
<1>3. PICK c \in Contracts : c = ContractOf[r]
  BY RepaymentAssumption
<1>4. PICK shares, over, doc, p :
         /\ shares = Distribution(s, a, r) /\ over = Amount[r] - a
         /\ doc = ContractAfter(s, r) /\ p = [status |-> "CONFIRMED", applied |-> a]
  OBVIOUS
<1>5. PICK W : W = Written(d, shares)
  OBVIOUS
<1>6. /\ TxnCommit(d, W)
      /\ allocation' = allocation \cup {r}
      /\ contract' = [contract EXCEPT ![c] = doc]
      /\ payment' = [payment EXCEPT ![r] = p]
      /\ booked' = [booked EXCEPT ![r] = @ + IF s.booked THEN 0 ELSE 1]
      /\ Post(r, shares, DriverOf[c], over)
      /\ Reply(d, "ok")
      /\ UNCHANGED <<charge, stake>>
  BY <1>2, <1>3, <1>4, <1>5 DEF ConfirmPayment
<1>7. /\ over \in Nat /\ p \in PaymentDoc /\ p # Absent
      /\ p.status = "CONFIRMED" /\ p.applied = a
  <2>1. Amount[r] \in Nat /\ a <= Amount[r]
    BY <1>2, RepaymentAssumption
  <2>2. over \in Nat
    BY <1>4, <2>1
  <2>3. p \in PaymentDoc /\ p.status = "CONFIRMED" /\ p.applied = a
    BY <1>4 DEF PaymentDoc
  <2> QED BY <2>2, <2>3, RepaymentAssumption
<1>8. ~Confirmed(r)
  BY <1>2 DEF Confirmed
<1>9. /\ shares \in [Investors -> Nat]
      /\ ~s.credited /\ Total(s.stake) # 0 => Total(shares) = a
      /\ \A i \in Investors :
            /\ ~s.credited
            /\ s.stake[i] > 0
            /\ \A j \in Investors \ {i} : s.stake[j] < s.stake[i]
            => shares[i] > 0
  BY <1>2, <1>4, DistributionFacts
<1>10. /\ credit' \in [Refs -> [Investors -> Nat]]
       /\ excess' \in [Refs -> Nat]
       /\ wallet' \in [Users -> Nat]
       /\ \A q \in Refs \ {r} : credit'[q] = credit[q] /\ excess'[q] = excess[q]
       /\ \A i \in Investors : credit'[r][i] = credit[r][i] + shares[i]
       /\ excess'[r] = excess[r] + over
       /\ WalletsAgree'
  <2>1. /\ Post(r, shares, DriverOf[c], over)
        /\ DriverOf[c] = DriverOf[ContractOf[r]]
        /\ TypeOK /\ WalletsAgree /\ over \in Nat /\ shares \in [Investors -> Nat]
    BY <1>1, <1>3, <1>6, <1>7, <1>9
  <2> QED BY <2>1, Posting
<1>11. /\ credit \in [Refs -> [Investors -> Nat]] /\ excess \in [Refs -> Nat]
       /\ booked \in [Refs -> Nat] /\ payment \in [Refs -> PaymentDoc \cup {Absent}]
       /\ contract \in [Contracts -> ContractDoc] /\ stake \in [Contracts -> [Investors -> Nat]]
  BY <1>1 DEF TypeOK
<1>12. /\ doc \in ContractDoc /\ doc.totalPaid = contract[c].totalPaid + a
       /\ doc.payable = contract[c].payable
       /\ doc.status = "COMPLETED" => doc.totalPaid >= doc.payable
  <2>1. contract[c] \in ContractDoc
    BY <1>11
  <2>2. doc = [contract[c] EXCEPT !.totalPaid = contract[c].totalPaid + a,
                                  !.status = IF contract[c].totalPaid + a >= contract[c].payable
                                             THEN "COMPLETED" ELSE @]
    BY <1>2, <1>3, <1>4 DEF ContractAfter
  <2>3. contract[c].status # "COMPLETED" /\ contract[c].totalPaid \in Nat
    BY <1>2, <1>3, <2>1 DEF Repayable, ContractDoc
  <2>4. PICK st : st = IF contract[c].totalPaid + a >= contract[c].payable
                       THEN "COMPLETED" ELSE contract[c].status
    OBVIOUS
  <2>5. st \in Status /\ (st = "COMPLETED" => contract[c].totalPaid + a >= contract[c].payable)
    BY <2>1, <2>3, <2>4 DEF ContractDoc, Status
  <2>6. contract[c].totalPaid + a \in Nat
    BY <2>3
  <2>7. doc = [contract[c] EXCEPT !.totalPaid = contract[c].totalPaid + a, !.status = st]
    BY <2>2, <2>4
  <2> QED BY <2>1, <2>5, <2>6, <2>7 DEF ContractDoc
<1>13. /\ contract' \in [Contracts -> ContractDoc] /\ contract'[c] = doc
       /\ \A k \in Contracts \ {c} : contract'[k] = contract[k]
  BY <1>6, <1>11, <1>12
<1>14. /\ payment' \in [Refs -> PaymentDoc \cup {Absent}] /\ payment'[r] = p
       /\ \A q \in Refs \ {r} : payment'[q] = payment[q]
  BY <1>6, <1>7, <1>11
<1>15. /\ Confirmed(r)'
       /\ \A q \in Refs \ {r} : Confirmed(q)' <=> Confirmed(q)
  BY <1>7, <1>14 DEF Confirmed
<1>16. /\ booked' \in [Refs -> Nat]
       /\ \A q \in Refs \ {r} : booked'[q] = booked[q]
       /\ booked[r] = 0 /\ booked'[r] = 1
  <2>1. booked[r] = 0
    BY <1>1, <1>8, <1>11 DEF OneRepaymentTransaction
  <2>2. ~s.booked
    <3>1. s.booked => booked[r] > 0
      BY <1>2 DEF SnapSound
    <3> QED BY <2>1, <3>1
  <2>3. booked' = [booked EXCEPT ![r] = 1]
    BY <1>6, <2>1, <2>2
  <2>4. booked' \in [Refs -> Nat] /\ booked'[r] = 1
    BY <1>11, <2>3
  <2>5. \A q \in Refs \ {r} : booked'[q] = booked[q]
    BY <1>11, <2>3
  <2> QED BY <2>1, <2>4, <2>5
<1>17. /\ call' \in [Deliveries -> CallState]
       /\ \A o \in Deliveries \ {d} : call'[o] = call[o]
       /\ call'[d].ref = r
  BY <1>1, <1>2, <1>6, ReplyFacts
<1>18. TypeOK'
  <2>1. W \in SUBSET Docs
    <3>1. DriverOf[c] \in Users
      BY RepaymentAssumption
    <3>2. PostedDocs(r, shares) \in SUBSET Docs
      BY PostedDocsType
    <3>3. {<<"payment", r>>, <<"allocation", r>>, <<"contract", c>>, <<"user", DriverOf[c]>>}
             \in SUBSET Docs
      BY <3>1 DEF Docs
    <3> QED BY <1>2, <1>3, <1>5, <3>2, <3>3 DEF Written
  <2>2. TxnTypeOK'
    BY <1>1, <1>6, <2>1, TxnType DEF TypeOK
  <2>3. allocation' \in SUBSET Refs
    BY <1>1, <1>6 DEF TypeOK
  <2> QED BY <1>1, <1>6, <1>10, <1>11, <1>13, <1>14, <1>16, <1>17, <2>2, <2>3 DEF TypeOK
<1>19. StakesGrow
  BY <1>6 DEF StakesGrow
<1>20. DbMoves
  <2>1. \A q \in Refs : payment[q] # Absent => payment'[q] # Absent
    BY <1>7, <1>14
  <2>2. \A q \in Refs : Confirmed(q) => Confirmed(q)'
    BY <1>8, <1>15
  <2>3. \A q \in Refs : booked[q] > 0 => booked'[q] > 0
    BY <1>16
  <2> QED BY <1>19, <2>1, <2>2, <2>3 DEF DbMoves
<1>21. Covers(W)
  <2>1. /\ <<"payment", r>> \in W /\ <<"contract", c>> \in W
        /\ \A i \in Investors : shares[i] > 0 => <<"credit", r, i>> \in W
    BY <1>2, <1>3, <1>5, PostedDocsFacts DEF Written
  <2>2. ASSUME NEW q \in Refs, NEW i \in Investors
        PROVE  credit'[q][i] = credit[q][i] \/ <<"credit", q, i>> \in W
    <3>1. CASE q # r
      BY <1>10, <3>1
    <3>2. CASE q = r /\ shares[i] = 0
      BY <1>10, <1>11, <3>2
    <3>3. CASE q = r /\ shares[i] > 0
      BY <2>1, <3>3
    <3> QED BY <1>9, <3>1, <3>2, <3>3
  <2>3. ASSUME NEW q, <<"allocation", q>> \in W PROVE q = r
    <3>1. \/ <<"allocation", q>> \in PostedDocs(r, shares)
          \/ <<"allocation", q>> \in {<<"payment", r>>, <<"allocation", r>>, <<"contract", c>>,
                                      <<"user", DriverOf[c]>>}
      BY <1>2, <1>3, <1>5, <2>3 DEF Written
    <3> QED BY <3>1, PostedDocsFacts, DocsApart
  <2>4. ASSUME NEW q, NEW i, <<"credit", q, i>> \in W PROVE q = r
    <3>1. \/ <<"credit", q, i>> \in PostedDocs(r, shares)
          \/ <<"credit", q, i>> \in {<<"payment", r>>, <<"allocation", r>>, <<"contract", c>>,
                                     <<"user", DriverOf[c]>>}
      BY <1>2, <1>3, <1>5, <2>4 DEF Written
    <3> QED BY <3>1, PostedDocsFacts, DocsApart
  <2>5. ASSUME NEW q \in Refs,
               \/ <<"allocation", q>> \in W
               \/ \E i \in Investors : <<"credit", q, i>> \in W
        PROVE  Confirmed(q)'
    <3>1. q = r
      BY <2>3, <2>4, <2>5
    <3> QED BY <1>15, <3>1
  <2> QED BY <1>13, <1>14, <2>1, <2>2, <2>5 DEF Covers
<1>22. CallsSound'
  <2>1. CallSound(d)'
    <3>1. Confirmed(call[d].ref)'
      BY <1>15, <1>17 DEF Confirmed
    <3> QED BY <1>1, <1>2, <1>6, <3>1, ReplySound
  <2>2. \A o \in Deliveries \ {d} : Misses(o, W)
    BY <1>1, <1>6, <1>17, OthersMiss
  <2> QED BY <1>18, <1>20, <1>21, <2>1, <2>2, StepSound
<1>23. AllocationsConfirmed'
  <2> SUFFICES ASSUME NEW q \in allocation' PROVE Confirmed(q)'
    BY DEF AllocationsConfirmed
  <2>1. CASE q = r
    BY <1>15, <2>1
  <2>2. CASE q # r
    BY <1>1, <1>6, <1>15, <2>2 DEF AllocationsConfirmed, TypeOK
  <2> QED BY <2>1, <2>2
<1>24. TotalPaidAgrees'
  BY <1>1, <1>3, <1>6, <1>7, <1>8, <1>12, <1>13, TotalGrows
<1>25. CompletedMeansPaid'
  BY <1>1, <1>12, <1>13 DEF CompletedMeansPaid
<1>26. ASSUME LedFromTheStart(c)
       PROVE  /\ \A i \in Investors : credit[r][i] = 0
              /\ excess[r] = 0
              /\ ~s.credited
  <2>1. Credited(r) = 0 /\ excess[r] = 0
    BY <1>1, <1>3, <1>8, <1>26 DEF PaymentSplitExactly
  <2>2. credit[r] \in [Investors -> Nat]
    BY <1>11
  <2>3. \A i \in Investors : credit[r][i] = 0
    BY <2>1, <2>2, TotalFacts DEF Credited
  <2>4. s.payment.status # "CONFIRMED"
    BY <1>2
  <2>5. ~s.credited
    BY <1>2, <1>3, <1>26, <2>4 DEF SnapSound
  <2> QED BY <2>1, <2>3, <2>5
<1>27. ASSUME NEW i \in Investors, Leads(c, i) PROVE shares[i] > 0 /\ Total(s.stake) # 0
  <2>1. s.stake[i] > 0 /\ \A j \in Investors \ {i} : s.stake[j] < s.stake[i]
    BY <1>1, <1>2, <1>3, <1>27, LeaderInSnapshot
  <2>2. ~s.credited
    BY <1>26, <1>27 DEF LedFromTheStart, Leads
  <2>3. s.stake \in [Investors -> Nat]
    BY DEF Snapshot
  <2>4. Total(s.stake) # 0
    BY <2>1, <2>3, TotalFacts
  <2> QED BY <1>9, <2>1, <2>2, <2>4
<1>28. PaymentSplitExactly'
  <2> SUFFICES ASSUME NEW q \in Refs, LedFromTheStart(ContractOf[q])'
               PROVE  (IF Confirmed(q)
                       THEN /\ Credited(q) = payment[q].applied
                            /\ excess[q] = Amount[q] - payment[q].applied
                       ELSE Credited(q) = 0 /\ excess[q] = 0)'
    BY DEF PaymentSplitExactly
  <2>1. LedFromTheStart(ContractOf[q])
    BY <1>6 DEF LedFromTheStart
  <2>2. CASE q = r
    <3>1. PICK i \in Investors : Leads(c, i)
      BY <1>3, <2>1, <2>2 DEF LedFromTheStart, Leads
    <3>2. /\ \A k \in Investors : credit[r][k] = 0
          /\ excess[r] = 0 /\ ~s.credited /\ Total(s.stake) # 0
      BY <1>3, <1>26, <1>27, <2>1, <2>2, <3>1
    <3>3. Total(shares) = a
      BY <1>9, <3>2
    <3>4. credit'[r] = shares
      BY <1>9, <1>10, <3>2
    <3>5. Credited(r)' = a /\ excess'[r] = Amount[r] - a
      BY <1>4, <1>7, <1>10, <3>2, <3>3, <3>4 DEF Credited
    <3> QED BY <1>7, <1>14, <1>15, <2>2, <3>5
  <2>3. CASE q # r
    <3>1. /\ Credited(q)' = Credited(q) /\ excess'[q] = excess[q]
          /\ payment'[q] = payment[q]
      BY <1>10, <1>14, <2>3 DEF Credited
    <3>2. IF Confirmed(q)
          THEN /\ Credited(q) = payment[q].applied
               /\ excess[q] = Amount[q] - payment[q].applied
          ELSE Credited(q) = 0 /\ excess[q] = 0
      BY <1>1, <2>1 DEF PaymentSplitExactly
    <3>3. Confirmed(q)' <=> Confirmed(q)
      BY <1>15, <2>3
    <3> QED BY <3>1, <3>2, <3>3
  <2> QED BY <2>2, <2>3
<1>29. LeaderCredited'
  <2> SUFFICES ASSUME NEW q \in Refs, NEW i \in Investors,
                      Confirmed(q)', Leads(ContractOf[q], i)'
               PROVE  credit'[q][i] > 0
    BY DEF LeaderCredited
  <2>1. Leads(ContractOf[q], i)
    BY <1>6 DEF Leads
  <2>2. CASE q = r
    <3>1. shares[i] > 0 /\ credit[r][i] \in Nat /\ shares[i] \in Nat
      BY <1>3, <1>9, <1>11, <1>27, <2>1, <2>2
    <3> QED BY <1>10, <2>2, <3>1
  <2>3. CASE q # r
    <3>1. Confirmed(q) /\ credit'[q] = credit[q]
      BY <1>10, <1>15, <2>3
    <3> QED BY <1>1, <2>1, <3>1 DEF LeaderCredited
  <2> QED BY <2>2, <2>3
<1>30. OneRepaymentTransaction'
  <2> SUFFICES ASSUME NEW q \in Refs
               PROVE  (IF LedFromTheStart(ContractOf[q])
                       THEN booked[q] = IF Confirmed(q) THEN 1 ELSE 0
                       ELSE (booked[q] = 0) = ~Confirmed(q))'
    BY DEF OneRepaymentTransaction
  <2>1. LedFromTheStart(ContractOf[q])' <=> LedFromTheStart(ContractOf[q])
    BY <1>6 DEF LedFromTheStart
  <2>2. CASE q = r
    BY <1>15, <1>16, <2>2
  <2>3. CASE q # r
    <3>1. booked'[q] = booked[q] /\ (Confirmed(q)' <=> Confirmed(q))
      BY <1>15, <1>16, <2>3
    <3>2. IF LedFromTheStart(ContractOf[q])
          THEN booked[q] = IF Confirmed(q) THEN 1 ELSE 0
          ELSE (booked[q] = 0) = ~Confirmed(q)
      BY <1>1 DEF OneRepaymentTransaction
    <3> QED BY <2>1, <3>1, <3>2
  <2> QED BY <2>2, <2>3
<1>31. ChargedIsPending'
  BY <1>1, <1>6, <1>20, RepaymentAssumption DEF ChargedIsPending, DbMoves
<1> QED
  BY <1>10, <1>18, <1>22, <1>23, <1>24, <1>25, <1>28, <1>29, <1>30, <1>31 DEF IInv, BooksOK

-----------------------------------------------------------------------------
LEMMA InitInv == Init => IInv
<1> SUFFICES ASSUME Init PROVE IInv
  OBVIOUS
<1>1. /\ charge = [r \in Refs |-> "none"] /\ payment = [r \in Refs |-> Absent]
      /\ allocation = {}
      /\ contract = [c \in Contracts |-> [status |-> "ACTIVE", totalPaid |-> 0,
                                          payable |-> InitialPayable[c]]]
      /\ stake \in InitialStakes
      /\ credit = [r \in Refs |-> [i \in Investors |-> 0]]
      /\ wallet = [u \in Users |-> 0] /\ excess = [r \in Refs |-> 0]
      /\ booked = [r \in Refs |-> 0] /\ open = {} /\ missed = [d \in Deliveries |-> {}]
      /\ call = [d \in Deliveries |-> [pc |-> "idle", ref |-> Absent, snap |-> Absent]]
  BY DEF Init, TxnInit
<1>2. TypeOK
  <2>1. contract \in [Contracts -> ContractDoc]
    <3>1. \A c \in Contracts : [status |-> "ACTIVE", totalPaid |-> 0,
                                payable |-> InitialPayable[c]] \in ContractDoc
      BY RepaymentAssumption DEF ContractDoc, Status, Repayable
    <3> QED BY <1>1, <3>1
  <2>2. TxnTypeOK
    BY <1>1 DEF TxnTypeOK
  <2>3. call \in [Deliveries -> CallState]
    BY <1>1 DEF CallState
  <2>4. stake \in [Contracts -> [Investors -> Nat]]
    BY <1>1, RepaymentAssumption
  <2>5. /\ charge \in [Refs -> {"none", "page", "money"}]
        /\ payment \in [Refs -> PaymentDoc \cup {Absent}]
        /\ allocation \in SUBSET Refs
        /\ credit \in [Refs -> [Investors -> Nat]]
        /\ wallet \in [Users -> Nat] /\ excess \in [Refs -> Nat] /\ booked \in [Refs -> Nat]
    BY <1>1
  <2> QED BY <2>1, <2>2, <2>3, <2>4, <2>5 DEF TypeOK
<1>3. CallsSound
  BY <1>1 DEF CallsSound, CallSound
<1>4. ChargedIsPending
  BY <1>1, RepaymentAssumption DEF ChargedIsPending
<1>5. \A r \in Refs : ~Confirmed(r)
  BY <1>1 DEF Confirmed
<1>6. TotalPaidAgrees
  <2> SUFFICES ASSUME NEW c \in Contracts
               PROVE  contract[c].totalPaid =
                   LET paid == {r \in Refs : ContractOf[r] = c /\ Confirmed(r)}
                   IN  SumFunction([r \in paid |-> payment[r].applied])
    BY DEF TotalPaidAgrees
  <2>1. PICK P : P = {r \in Refs : ContractOf[r] = c /\ Confirmed(r)}
    OBVIOUS
  <2>2. P = {}
    BY <1>5, <2>1
  <2>3. PICK f : f = [r \in P |-> payment[r].applied]
    OBVIOUS
  <2>4. SumFunctionOnSet(f, P) = 0 /\ DOMAIN f = P
    BY <2>2, <2>3, SumEmpty
  <2>5. SumFunction(f) = 0
    BY <2>4 DEF SumFunction
  <2>6. contract[c].totalPaid = 0
    BY <1>1
  <2> QED BY <2>1, <2>3, <2>5, <2>6
<1>7. CompletedMeansPaid
  BY <1>1 DEF CompletedMeansPaid
<1>8. WalletsAgree
  <2> SUFFICES ASSUME NEW u \in Users
               PROVE  wallet[u] =
                   SumFunction([r \in Refs |-> (IF u \in Investors THEN credit[r][u] ELSE 0)
                                + (IF u = DriverOf[ContractOf[r]] THEN excess[r] ELSE 0)])
    BY DEF WalletsAgree
  <2>1. PICK f : f = [r \in Refs |-> (IF u \in Investors THEN credit[r][u] ELSE 0)
                                      + (IF u = DriverOf[ContractOf[r]] THEN excess[r] ELSE 0)]
    OBVIOUS
  <2>2. \A r \in Refs : f[r] = 0
    BY <1>1, <2>1
  <2>3. SumFunctionOnSet(f, Refs) = 0 /\ DOMAIN f = Refs
    BY <2>1, <2>2, RepaymentAssumption, SumZero
  <2>4. SumFunction(f) = 0
    BY <2>3 DEF SumFunction
  <2> QED BY <1>1, <2>1, <2>4
<1>9. PaymentSplitExactly
  <2> SUFFICES ASSUME NEW r \in Refs PROVE Credited(r) = 0 /\ excess[r] = 0
    BY <1>5 DEF PaymentSplitExactly
  <2>1. credit[r] \in [Investors -> Nat] /\ \A i \in Investors : credit[r][i] = 0
    BY <1>1
  <2> QED BY <1>1, <2>1, TotalFacts DEF Credited
<1>10. LeaderCredited /\ AllocationsConfirmed
  BY <1>1, <1>5 DEF LeaderCredited, AllocationsConfirmed
<1>11. OneRepaymentTransaction
  BY <1>1, <1>5 DEF OneRepaymentTransaction
<1> QED
  BY <1>2, <1>3, <1>4, <1>6, <1>7, <1>8, <1>9, <1>10, <1>11 DEF IInv, BooksOK

LEMMA StutterStep ==
    ASSUME IInv, UNCHANGED vars
    PROVE  IInv'
<1>1. UNCHANGED <<charge, db, open, missed, call>> /\ TypeOK /\ ChargedIsPending
  BY DEF vars, IInv
<1>2. /\ charge' \in [Refs -> {"none", "page", "money"}]
      /\ call' \in [Deliveries -> CallState]
      /\ TxnTypeOK' /\ ChargedIsPending'
  BY <1>1 DEF TypeOK, TxnTypeOK, ChargedIsPending, db
<1>3. \A o \in Deliveries : Misses(o, {})
  BY <1>1, AllMiss
<1> QED BY <1>1, <1>2, <1>3, CallStep

LEMMA HandleStep ==
    ASSUME IInv, NEW d \in Deliveries, Handle(d)
    PROVE  IInv'
<1>1. CASE CreateTransferPayment(d)
  BY <1>1, CreateTransferPaymentStep
<1>2. CASE BeginConfirm(d)
  BY <1>2, BeginConfirmStep
<1>3. CASE AlreadyConfirmed(d)
  BY <1>3, AlreadyConfirmedStep
<1>4. CASE RefuseConfirm(d)
  BY <1>4, RefuseConfirmStep
<1>5. CASE ConfirmPayment(d)
  BY <1>5, ConfirmPaymentStep
<1>6. CASE AllocationExists(d)
  BY <1>6, AllocationExistsStep
<1>7. CASE DuplicateKey(d)
  BY <1>7, DuplicateKeyStep
<1>8. CASE BeginDistribute(d)
  BY <1>8, BeginDistributeStep
<1>9. CASE Distribute(d)
  BY <1>9, DistributeStep
<1>10. CASE Fail(d)
  BY <1>10, FailStep
<1> QED
  BY <1>1, <1>2, <1>3, <1>4, <1>5, <1>6, <1>7, <1>8, <1>9, <1>10 DEF Handle

LEMMA NextInv == IInv /\ [Next]_vars => IInv'
<1> SUFFICES ASSUME IInv, [Next]_vars PROVE IInv'
  OBVIOUS
<1>1. ASSUME NEW r \in Refs, CreateDriverPayment(r) PROVE IInv'
  BY <1>1, CreateDriverPaymentStep
<1>2. ASSUME NEW r \in Refs, PaystackOpens(r) PROVE IInv'
  BY <1>2, PaystackOpensStep
<1>3. ASSUME NEW r \in Refs, markDriverPaymentFailed(r) PROVE IInv'
  BY <1>3, MarkFailedStep
<1>4. ASSUME NEW r \in Refs, Pay(r) PROVE IInv'
  BY <1>4, PayStep
<1>5. ASSUME NEW c \in Contracts, NEW i \in Investors, Invest(c, i) PROVE IInv'
  BY <1>5, InvestStep
<1>6. ASSUME NEW c \in Contracts, NEW s \in Status, Transition(c, s) PROVE IInv'
  BY <1>6, TransitionStep
<1>7. ASSUME NEW d \in Deliveries, NEW r \in Refs, Deliver(d, r) PROVE IInv'
  BY <1>7, DeliverStep
<1>8. ASSUME NEW d \in Deliveries, Handle(d) PROVE IInv'
  BY <1>8, HandleStep
<1>9. CASE UNCHANGED vars
  BY <1>9, StutterStep
<1> QED
  BY <1>1, <1>2, <1>3, <1>4, <1>5, <1>6, <1>7, <1>8, <1>9 DEF Next

-----------------------------------------------------------------------------
\* The invariant is inductive: whatever deliveries, investors and administrators
\* do next to each other, every snapshot is worth what SnapSound says of it.
THEOREM Inductive == Spec => []IInv
<1> QED BY InitInv, NextInv, PTL DEF Spec

\* Every variable keeps its type; in particular no wallet is ever negative.
THEOREM TypeCorrect == Spec => []TypeOK
<1>1. IInv => TypeOK
  BY DEF IInv
<1> QED BY <1>1, Inductive, PTL

\* The amount paid on a contract is the sum of what its confirmed payments applied.
THEOREM PaidIsTheSum == Spec => []TotalPaidAgrees
<1>1. IInv => TotalPaidAgrees
  BY DEF IInv, BooksOK
<1> QED BY <1>1, Inductive, PTL

\* No contract is completed before its balance is paid.
THEOREM CompletedIsPaid == Spec => []CompletedMeansPaid
<1>1. IInv => CompletedMeansPaid
  BY DEF IInv, BooksOK
<1> QED BY <1>1, Inductive, PTL

\* Each confirmed payment of a pool that is led from the start is split to the
\* kobo and once, however many deliveries confirm and distribute it.
THEOREM SplitExactly == Spec => []PaymentSplitExactly
<1>1. IInv => PaymentSplitExactly
  BY DEF IInv, BooksOK
<1> QED BY <1>1, Inductive, PTL

\* Every wallet was credited with what the records say, in any pool.
THEOREM WalletsCorrect == Spec => []WalletsAgree
<1>1. IInv => WalletsAgree
  BY DEF IInv, BooksOK
<1> QED BY <1>1, Inductive, PTL

\* A reference is booked once where the pool is led from the start, and at least
\* once, and only when confirmed, elsewhere.
THEOREM BookedOnce == Spec => []OneRepaymentTransaction
<1>1. IInv => OneRepaymentTransaction
  BY DEF IInv, BooksOK
<1> QED BY <1>1, Inductive, PTL

\* Paystack is told of success only for a payment that is confirmed.
THEOREM TruthfulAnswers == Spec => []AnswersAreTrue
<1>1. IInv => AnswersAreTrue
  BY DEF IInv, CallsSound, CallSound, AnswersAreTrue
<1> QED BY <1>1, Inductive, PTL

\* No step takes a payment back or applies more than is owed.
THEOREM NeverTooMuch == Spec => NeverOverpaid
<1> DEFINE A == \A c \in Contracts :
                   /\ contract'[c].totalPaid >= contract[c].totalPaid
                   /\ contract'[c].totalPaid # contract[c].totalPaid
                        => contract'[c].totalPaid <= contract'[c].payable
<1>1. ASSUME IInv, [Next]_vars PROVE [A]_vars
  <2>1. TypeOK
    BY <1>1 DEF IInv
  <2>2. ASSUME \A c \in Contracts : contract'[c].totalPaid = contract[c].totalPaid PROVE A
    <3>1. \A c \in Contracts : contract[c].totalPaid \in Nat
      BY <2>1 DEF TypeOK, ContractDoc
    <3> QED BY <2>2, <3>1
  <2>3. CASE \E c \in Contracts, s \in Status : Transition(c, s)
    <3>1. PICK c \in Contracts, s \in Status : Transition(c, s)
      BY <2>3
    <3>2. PICK p : contract' = [contract EXCEPT ![c].status = s, ![c].payable = p]
      BY <3>1 DEF Transition
    <3>3. contract \in [Contracts -> ContractDoc]
      BY <2>1 DEF TypeOK
    <3>4. \A k \in Contracts : contract'[k].totalPaid = contract[k].totalPaid
      BY <3>2, <3>3 DEF ContractDoc
    <3> QED BY <2>2, <3>4
  <2>4. CASE \E d \in Deliveries : ConfirmPayment(d)
    <3>1. PICK d \in Deliveries : ConfirmPayment(d)
      BY <2>4
    <3>2. PICK r \in Refs, s \in Snapshot, a \in Nat :
             /\ r = call[d].ref /\ s = call[d].snap /\ a = Accepted(s, r)
             /\ s.contract = contract[ContractOf[r]]
             /\ a > 0
             /\ contract[ContractOf[r]].totalPaid + a <= contract[ContractOf[r]].payable
      BY <1>1, <3>1, ConfirmSeesTheDatabase
    <3>3. PICK c \in Contracts : c = ContractOf[r]
      BY RepaymentAssumption
    <3>4. PICK doc : doc = ContractAfter(s, r)
      OBVIOUS
    <3>5. contract' = [contract EXCEPT ![c] = doc]
      BY <3>1, <3>2, <3>3, <3>4 DEF ConfirmPayment
    <3>6. contract \in [Contracts -> ContractDoc] /\ contract[c] \in ContractDoc
      BY <2>1 DEF TypeOK
    <3>7. doc.totalPaid = contract[c].totalPaid + a /\ doc.payable = contract[c].payable
      BY <3>2, <3>3, <3>4, <3>6 DEF ContractAfter, ContractDoc
    <3>8. contract'[c] = doc /\ \A k \in Contracts \ {c} : contract'[k] = contract[k]
      BY <3>5, <3>6
    <3>9. \A k \in Contracts : contract[k].totalPaid \in Nat
      BY <3>6 DEF ContractDoc
    <3> QED BY <3>2, <3>3, <3>7, <3>8, <3>9
  <2>5. CASE contract' = contract
    BY <2>2, <2>5
  <2>6. \/ \E c \in Contracts, s \in Status : Transition(c, s)
        \/ \E d \in Deliveries : ConfirmPayment(d)
        \/ contract' = contract
    <3>1. CASE UNCHANGED vars
      BY <3>1 DEF vars, db
    <3>2. ASSUME NEW r \in Refs,
                 CreateDriverPayment(r) \/ PaystackOpens(r) \/ markDriverPaymentFailed(r) \/ Pay(r)
          PROVE  contract' = contract
      BY <3>2 DEF CreateDriverPayment, PaystackOpens, markDriverPaymentFailed, Pay, db
    <3>3. ASSUME NEW c \in Contracts, NEW i \in Investors, Invest(c, i)
          PROVE  contract' = contract
      BY <3>3 DEF Invest
    <3>4. ASSUME NEW d \in Deliveries, NEW r \in Refs, Deliver(d, r)
          PROVE  contract' = contract
      BY <3>4 DEF Deliver, db
    <3>5. ASSUME NEW d \in Deliveries, Handle(d), ~ConfirmPayment(d)
          PROVE  contract' = contract
      BY <3>5 DEF Handle, CreateTransferPayment, BeginConfirm, AlreadyConfirmed, RefuseConfirm,
                  AllocationExists, DuplicateKey, BeginDistribute, Distribute, Fail, db
    <3> QED BY <1>1, <3>1, <3>2, <3>3, <3>4, <3>5 DEF Next
  <2> QED BY <2>3, <2>4, <2>5, <2>6
<1> QED BY <1>1, Inductive, PTL DEF Spec, NeverOverpaid
=============================================================================
