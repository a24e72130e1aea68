# Chainmove: TLA+ models, checks and proofs

Chainmove is a Next.js application with MongoDB behind it. Investors fund a
wallet through Paystack and put money into vehicle pools; drivers repay a
hire-purchase contract; every repayment is split between the investors of the
contract's pool. Around that core stand settlement records, administrators'
approvals, a Stellar indexer, custody of Stellar keys, audit logs and repair
tooling.

Nothing in the process keeps two requests apart: there are no locks and no
queues, a request handler is an `async` function that may be interrupted by any
other at every `await`, and there may be several processes. What the code relies
on is MongoDB: unique indexes, conditional updates (`findOneAndUpdate` with a
filter) and multi-document transactions with snapshot reads. The models are
about exactly that. Paths below are relative to the repository.

## Inventory

| # | Component | Where | State it keeps | Operations | Talks to |
|---|---|---|---|---|---|
| 1 | Pool investment | `lib/services/investments.service.ts`, `pools.service.ts`, `app/api/pools/[id]/invest` | `InvestmentPool`, `PoolInvestment`, `InvestmentReservation`, the money fields of `User` | `createPool`, `investInPool`, `expireInvestmentReservations` | consent (19), wallets (2), repayments (4) through `PoolInvestment` |
| 2 | Gateway charges | `lib/services/paystack-processing.service.ts`, `app/api/payments/{webhook,verify}` | `ProcessedGatewayEvent`, `Transaction`, wallets | `processGatewayCharge`, the webhook, the verify request | Paystack, 1, 4 |
| 3 | Settlement records | `lib/settlement/*` | `SettlementRecord`, pending, held and reversed balances | `initiateSettlement`, `transitionSettlementState`, `evaluateFinalityTimeouts` | 12 confirms records; nothing in the repository initiates one outside of the tests |
| 4 | Repayments | `lib/services/driver-contracts.service.ts`, `lib/repayments/*` | `DriverPayment`, `PaymentAllocation`, `InvestorCredit`, totals of the contract, wallets | create, create for a transfer, mark failed, confirm, apply, distribute, reverse, repair | 2 calls it, 5 completes the contract |
| 5 | Contract lifecycle | `lib/contracts/state-machine.ts`, `lib/services/contract-transition.service.ts` | `HirePurchaseContract.status/version/timeline`, `Vehicle.status` | `transitionHirePurchaseContract` | 4, 6, 17 |
| 6 | Loan, vehicle, investment state machines | `lib/domain/*` | `Loan`, `Vehicle`, `Investment` status | one transition service each | 5 shares vehicles |
| 7 | FX quotes | `lib/fx/*` | `ExchangeRateQuote` | create, lock, consume | rate providers |
| 8 | Maker-checker approvals | `lib/approvals/*` | `ApprovalRequest` | create, decide, execute, cancel, reap | executors for 6, 17, 20 |
| 9 | Double-entry ledger | `lib/ledger/*` | `LedgerAccount`, `LedgerEntry`, `LedgerJournal` | post, reverse, rebuild balances | only migrations post to it |
| 10 | Custody and signer rotation | `lib/custody/*` | `CustodyApprovalRequest`, `CustodySignerSet`, sequence watermark | propose, approve, finalize, reconcile, rotate | Stellar |
| 11 | Payouts | `lib/payouts/*` | an in-memory map of distributions | draft, calculate, approve, execute, retry, reverse | payment provider |
| 12 | Stellar indexer | `lib/stellar/indexer.ts` | cursor and lease, raw and projected events | sync, replay, rebuild | 3 |
| 13 | Account recovery | `lib/recovery/*` | `RecoveryRequest` | factors, freeze, state machine | 16, 20 |
| 14 | Privacy | `lib/privacy/*` | requests, legal holds, archives | request, hold, sweep, delete | 15 |
| 15 | Tamper-evident audit | `lib/security/*audit*` | `AuditSequence`, hash chain, checkpoints | reserve, append, checkpoint, verify | everything logs to it |
| 16 | Notifications | `lib/notifications/*` | `Notification` | emit, mark | everything |
| 17 | Reconciliation and integrity repair | `lib/reconciliation/*`, `lib/integrity/*` | `InvariantFinding` | scan, preview, apply | reads everything, writes 1, 4, 5 |
| 18 | Operations, treasury, release, backup | `lib/operations`, `lib/treasury`, `lib/release`, `lib/backup` | switches, manifests | set, check, dump | admin routes |
| 19 | Financial consent | `lib/consent/*` | `ConsentAcceptance` | publish, accept, require | 1 |
| 20 | Authentication, authorization, rate limits, KYC | `lib/auth`, `lib/authorization`, `lib/security` | sessions, limits, KYC state | | every route |
| 21 | Dedicated virtual accounts | `lib/services/paystack-*dva*` | `DriverVirtualAccount`, ... | provision, look up | Paystack, 2, 4 |
| 22 | Soroban contracts | `contracts/` | on-chain state | | not deployed by the application |
| 23 | Pages, API plumbing, exports | `app/`, `components/`, `lib/api` | none | | |

### What is hard here, and what makes each part correct

* **Investing.** Several investors want the last of a pool's capacity; one
  investor sends the same request twice, or again after a time-out; the driver
  of a transaction retries it (`withTransaction`, and a loop of three around
  it); the reply to a commit is lost. Correct: no pool takes more than its
  target, the pool's totals are its investments', no wallet gains or loses
  money, a key buys at most one investment, and a client that is told of success
  has invested.
* **Repayments.** Paystack repeats a webhook until it is answered, concurrently
  with the payer's own verify request; two references of one contract can
  together exceed what is owed; an administrator may restructure or complete the
  contract meanwhile; one failing insert sends a handler down a second path with a
  transaction of its own. Correct: each reference is applied, booked, split and
  acknowledged once, to the kobo, and the contract's total is that of its
  confirmed payments.
* **Gateway charges.** A duplicate key inside a transaction aborts it on the
  server, while the handler goes on as if it had only been told of a duplicate;
  variables outside of the transaction's body survive its retries. Correct: a
  charge is credited exactly once, and the answer says whether it was.
* **Contracts and vehicles.** A contract and its vehicle change together, in one
  transaction; two contracts may want one vehicle, loans and maintenance write it
  behind their back, and two callers may transition one contract. The audit event
  is written between the updates and the commit, and outside of the transaction.
  Correct: the timeline is one legal path, a vehicle is given away only while it is
  free, and nothing is applied that is not in the audit log.
* **Approvals.** What was previewed, what was approved and what is executed are
  read at three different times; the process may die between approving,
  claiming and executing. Correct: four eyes, at most one execution, and only
  on the resource that was approved.
* **Settlement and the indexer.** Operators, a sweep and the indexer's workers
  move one record; two workers may believe they hold the lease; operations are
  fetched again after every failure. Correct: a wallet funding is credited once and
  taken back once, no operation is passed over or counted twice, and the stream
  does not get stuck.
* **Custody.** Approvals, finalization, reconciliation by an operator, expiry and
  the rotation of the very signers meet without any transaction; the ledger
  answers late or not at all. Correct: what the ledger applies had its quorum, what
  is over stays over, and no open request loses its signers.
* **Audit chain.** A sequence number is reserved before the entry that uses it
  is written, each entry waits for the one before it, and nothing orders the writers
  of checkpoints. Correct: the log and its checkpoints always verify.
* **Repair tooling** reads without a snapshot and writes totals it computed
  earlier. Correct: a repair never breaks what was consistent.

`PROJECT.json` lists every one of these hazards at its line, with the properties
that watch it or the reason that none does yet.

## Modules

| Module | Models | State and actions |
|---|---|---|
| `SnapshotTransactions` | MongoDB's transactions as the services use them (external) | `open` transactions; `missed[t]`, the documents committed behind `t`'s back. `TxnBegin`, `TxnCommit` (refused when it writes a missed document), `TxnAbort`, `PlainWrite` |
| `AtomicInvestment` | what investing promises (abstract) | wallets, pools, reservations, investments; `Credit`, `CreatePool`, `Invest` |
| `PoolInvestment` | component 1 | the collections, and for every request handler its program counter, inputs, retry counters and snapshot. `Request` to `Answer` follow `investInPool` from its first look-up to its reply; `TransientError`, `CommitReplyLost` and `Crash` are what can go wrong; `CreatePool`, `CreditWallet`, `ExpireReservations` run next to it |
| `PoolInvestmentProofs`, `GatewayChargeProofs`, `RepaymentsProofs` | | the theorems about components 1, 2 and 4; the first also those about `PoolFundingRepair` |
| `Sums` | | lemmas about the sum of a function over a finite set, which the books are made of |
| `PoolFundingRepair` | part of component 17, on top of component 1 | `ScanPools`, `ScanInvestments`, `PreviewRepair`, `ApplyRepair`, `FailRepair` interleaved with all of `PoolInvestment` |
| `GatewayCharge` | component 2, and of component 7 what a down payment needs | charges at Paystack; `ProcessedGatewayEvent` (`processed`), the transactions `booked`, wallets, down payments; quotes with status and version; for every checkout and every delivery its program counter. A checkout goes from `StartCheckout` through `ReadQuote` and `ConsumeQuote` to `InitializeDownPayment`; a delivery from `Deliver` through `CreateLock` (or `Duplicate`), `Apply`, `Commit` to `Answer`; `InitializeFunding`, `Pay`, `Spend`, `ReadForLock` and `LockQuote` run next to them, and `TransientError`, `CommitReplyLost`, `Fail`, `FailCheckout` are what can go wrong |
| `Repayments` | component 4, with what it needs of 2 and 5 | charges at Paystack, payments, allocations, contracts, stakes, credits, wallets, booked transactions, and for every delivery a program counter and snapshot |
| `Approvals` | component 8, with the executor of role changes | roles, versions of users, requests, and program counters of makers and checkers. A maker goes from `Ask` through `Prepare`, `MakerRevalidate`, `LoadVersion` to `CreateRequest`, and on to `ExecuteExempt` and `RecordExempt` when the command is exempt; a checker from `Begin` and `ReadRequest` to `Reject`, `Cancel`, or `CheckPermissions`, `Claim`, `StartExecution`, `CheckVersion`, `CheckerRevalidate`, `Execute`, `RecordExecuted`. `Reap`, `Overdue`, `WriteUser` and the failures run next to them |
| `ApprovalsProofs` | | the theorems about `Approvals` |
| `SealedLog` | what the audit log promises (abstract) | the events, and how many of them are sealed; `Add`, `Seal` |
| `AuditChain` | component 15 | `AuditSequence`, entries, checkpoints, and for every process its call of `logAuditEvent`: `LogAuditEvent` draws a number, `Link` finds the predecessor or `GiveUp` stops polling for it, `CreateEntry` inserts, `CountUnsealed`, `LastCheckpoint`, `UnsealedEvents` and `SignCheckpoint` are the automatic checkpoint; `AuditFails` is any query that fails |
| `ContractTransitions` | component 5, on top of 15 | contracts with status, version and timeline, vehicles, transactions, and for every call its program counter. `Start` reads and validates, `UpdateContract` and `UpdateVehicle` write, `Audit` and `Audited` surround the call of `AuditChain`, `CommitTransition` publishes; `RolledBack`, `Die` and `WriteVehicle` run next to them |
| `ContractTransitionsProofs` | | the theorems about both |
| `Settlement` | component 3 | records, the four balances of users, reversal journals, and for every operator its program counter: `LookUp` and `Insert` initiate, `Operate`, `Commit` and `Refuse` are one transition, `Sweep` and `SweepNext` the finality time-outs; `TransitionRecord` is shared with the indexer |
| `StellarIndexer` | component 12, on top of 3 | cursor, lease, raw events, indexed operations, dead letters, and for every worker its program counter: `AcquireLease`, `LoadCursor`, then for each operation `PersistRaw`, `IndexEvent`, `MatchSettlement`, `BeginTransition`, `CommitTransition`, `MarkProjected` or `QuarantineDeadLetter`, and at last `FindContiguous` and `SaveCursor`; `ExpireLease`, `Abandon` and `StepFails` are what can go wrong |
| `StellarIndexerProofs` | | the theorems about both |
| `Custody` | the approval requests of component 10 | requests, signer sets, the sequence watermark, the ledger's account, and for every handler its program counter: `RequestApproval` and `InsertRequest`, `Approve`, `PushApproval` and `Promote`, `Claim`, `Check`, `Submit`, `Answered`, `AdvanceWatermark` and `Record`, `Reconcile`, `ExpireStale` |
| `SignerRotation` | the rotation of component 10, on top of `Custody` | the same state: `Propose` and `CreateSet`, `Govern` and `PushGovern`, `Activate`, `ActivateSet` and `ReplacePrevious`, `Retire` and `RetireSet`, `Rollback`, `Reactivate` and `UndoSet`; `Land`, `ConsumeElsewhere`, `TooLate` and `OverlapEnds` are the ledger and the clock |
| `SignerRotationProofs` | | the theorems about both |
| `MC*` | | small instances |

`SnapshotTransactions` is instantiated (not extended) by `PoolInvestment`,
`Repayments`, `GatewayCharge`, `Settlement` and `ContractTransitions`, each with its
own set of documents. `PoolInvestment` implements `AtomicInvestment` through the
identity mapping on the four collections; everything else it has is invisible
there. `AuditChain` implements `SealedLog` through a mapping that reads the whole log
off the newest entry's hash, and the sealed prefix off the last checkpoint.

### How the code is cut into actions

The body of a transaction is one action, its commit, which computes everything
from the snapshot that the begin action took. This is not an assumption of
atomicity: between begin and commit anything may happen, the commit works on
stale data, and it is refused only when a document *it writes* was written by
another transaction that committed in between. What it merely read may be stale.
A handler is otherwise cut at every point where another can come in between:

* `investInPool`: `Request` (the look-up at line 67, and the early answers),
  `BeginAttempt`, then one of `CommitInvestment`, `DuplicateKey` (the unique
  index on `{userId, idempotencyKey}`), `Refuse` (each `throw` of the body) and
  `TransientError`; after the commit `Answer` or `CommitReplyLost`. `NextTry` is
  the two nested retry loops: `withTransaction`'s own, bounded by `MaxTries`
  for its 120 seconds, and the loop of three.
* `confirmDriverPayment`: `BeginConfirm`, then one of `AlreadyConfirmed`,
  `RefuseConfirm`, `ConfirmPayment`, `AllocationExists` (the engine's look-up of
  `PaymentAllocation` has no session and so sees the present, not the snapshot)
  and `DuplicateKey`, which goes on to a second transaction, `BeginDistribute` and
  `Distribute`. There is no retry; `Fail` is everything that throws, and the
  death of the process.

* `processGatewayCharge`: `CreateLock` is the transaction's first statement, and
  takes its snapshot; a lock that another transaction has inserted and not committed
  is a `WriteConflict`, one that is committed a `Duplicate`. `Apply` stands for the
  saves, after which `result` is set, and `Commit` publishes them. `createdLock`
  and `result` live outside of the body, so `Again` keeps them. After a duplicate
  key the body returns as if all were well, and MongoDB, which has aborted the
  transaction, refuses the commit, so that `withTransaction` runs the body again
  until its time is over. What the server does there is not in the repository;
  `Duplicate` also allows that the commit goes through and the handler looks up
  the earlier result, as its author meant.
* The down payment route: the loan is read (`StartCheckout`), then the quote
  (`ReadQuote`), then the quote is consumed by a conditional update, then Paystack is
  asked. Nothing calls `lockQuote` yet; the model lets anybody.
* `transitionHirePurchaseContract`: contract and vehicle are read in the
  transaction, whose snapshot `Start` takes. Unlike elsewhere the writes are
  actions of their own, because the audit event comes after them and takes long:
  a document that an open transaction has written is kept from all others (`Free`).
  A caller's own transaction, in which the call takes part, ends it by
  `RolledBack`. The audit event is several actions that interleave with
  everything, and stays when the transaction is rolled back.
* `logAuditEvent`: each query is an action. A hash stands for what it was
  computed from, the events of the chain up to its entry, so that two hashes are
  equal only when the chains are. The 25 polls for the predecessor are a wait that may
  be given up at any moment (`GiveUp`), as time is not modelled.
* `transitionSettlementState` is a transaction without retries: begin, and commit
  or failure. The sweep goes through what it has read at its beginning, one
  transaction after the other, and `SweepNext` also makes the plain save that marks a
  record as stuck. The indexer's look-up of a settlement is outside of the
  transaction, as in the code.
* `Custody` and `SignerRotation` have no transactions at all: a handler reads (one
  action), and writes by a compare-and-set on the status it has read (another). It
  may `Stop` before any step, which stands for a death as well as for a critical audit
  event that is refused. `QueryFails` is the `catch` of `finalizeAndSubmit`.

The webhook answers to six events and does not tell them apart; only the
`charge.failed` of an attempt looks like a charge of ours, so `Deliver`, here and in
`Repayments`, is enabled for a charge that is open and not paid.

`Approvals` has no transactions: every `await` on the database is one action, and
a conditional update is one that does nothing when the status has moved on.
Time is the set `overdue` of requests whose clock has run out, to which any
pending or executing request may be added at any moment; so an execution may
always take longer than its timeout. Audit events are left out but for what
happens when one that the code requires cannot be written. `effects` is
a history variable.

A unique key is a document of `Docs`: two inserts of one key conflict like two
updates of one document. A `WriteConflict` needs no action of its own: the
commit is disabled and `TransientError` or `Fail` is what remains.

### Data

Amounts are natural numbers in the smallest unit that the code rounds to, users,
pools, keys and references are model values. The instalment breakdown that
`allocatePayment` computes next to the accepted amount, the ids, timestamps,
descriptions, audit events and the `Transaction` rows that nothing reads back are
left out; the `repayment` and the `_excess` rows are kept, since they are
what a duplicate would show in.

## Runs

| Run | Module, cfg | Asks | Result |
|---|---|---|---|
| `pool_investment` | `MCPoolInvestment` | the safety of investing, that it implements `AtomicInvestment`, and does every request end | holds, 347,180 states |
| `pool_repair` | `MCPoolFundingRepair` | is the pool repair safe next to investors | violated: a finding |
| `gateway_charges` | `MCGatewayCharge` | the safety of charges and quotes, and is each paid charge booked in the end | holds, 625,432 states |
| `gateway_failed_charge` | `...Failed.cfg` | is what is booked as a deposit paid | violated: a finding |
| `repayments` | `MCRepayments` | the safety of repayments, in pools that have an investor at first and in ones that have none | holds, 2,718,625 states |
| `repayments_late_investor` | `...LateInvestor.cfg` | is a payment above the balance distributed whole or not at all in a pool without investors | violated: a finding |
| `approvals` | `MCApprovals` | the safety of approvals | holds, 1,426,606 states |
| `approvals_privilege` | `...Privilege.cfg` | does every change of an administrator's role have an approval | violated: a finding |
| `approvals_last_admin` | `...LastAdmin.cfg` | does an administrator remain | violated: a finding |
| `contract_transitions` | `MCContractTransitions` | the safety of transitions and of the audit log, that the log implements `SealedLog`, and does every transition end | holds, 113,885 states |
| `stellar_settlement` | `MCStellarIndexer` | is each settlement credited once, each operation indexed, the cursor sound, and does the stream go on | holds, 704,687 states |
| `signer_rotation` | `MCSignerRotation` | does the ledger apply only what had its quorum while signers rotate | holds, 3.45 million states |

### Bounds, and why they are enough

* `pool_investment`: two handlers, two investors, two keys, one pool with a
  target of 3, contributions of 1 and 2. One wallet is credited with 4 in two
  steps while it invests, so that one key can be tried with two amounts; the other
  with 2. Two contributions of 2 exceed the pool, two of 1 and 2 fill it exactly, and
  one of 2 does not divide the million units of ownership by three. Handlers are
  not reused, so each key is tried at most twice; every race is between two
  transactions, and a third could only lose in the same ways. `MaxTries = 0`
  leaves the loop of three, so a handler that meets transient errors still makes
  three attempts. One pool is enough because a handler touches one.
* `pool_repair`: one investor, one pool, two requests: one between the scan's
  two queries and one between the preview and the write.
* `gateway_charges`: two deliveries that may serve any number of reports, one
  wallet funding and one down payment, two checkouts for one quote; one retry and
  one failure that is nobody's doing (conflicts are not counted). The user begins
  with 2, so that spending and funding race from the start. A third delivery would
  wait for the same lock.
* `repayments`: two deliveries at work at once, which may serve any number of
  reports one after the other; a checkout of 5 and a transfer of 4 on a contract
  of 7, so that either is capped when the other came first; a restructuring to 3,
  which puts the total payable below what was paid; two investors, one of whom
  joins while payments are confirmed, which changes the split and leaves a
  remainder. In half of the initial states no one has invested when the contract
  becomes active; there `PaymentSplitExactly` and `OneRepaymentTransaction` say
  nothing or less (`LedFromTheStart`), see finding 2.
* `repayments_late_investor`: two deliveries of one payment of 8 on a balance of 7, in
  a pool that has no investor at first.
* `approvals`: two makers, each with one request, and two checkers that may serve any number of
  calls one after the other; two administrators, so that each can ask for the
  other's demotion and approve the other's request, and an investor whose change is
  exempt. Asking for `driver` only makes both kinds of command; `MaxVersion = 1`
  lets others write a user once. A third checker would lose to the same
  conditional updates, and for what is proved the number does not matter.
  `approvals_privilege` adds requests for `admin`.
* `contract_transitions`: three calls, one contract that may be anywhere in its
  life, one that waits for a vehicle, and one vehicle. `p1` asks for any target,
  `p2` competes with it for the contract (with an expected version or without), `p3`
  for the vehicle. One fault: a death, a failed query, a rollback or a foreign write
  of the vehicle. A checkpoint is due after two entries instead of 1000, so that two
  writers may find it due at the same time.
* `stellar_settlement`: three operations, two to a page, the last one foreign;
  two workers, and two processes, either of which may serve any of their syncs, so that
  a lease is refused, taken over while its owner is at work, or taken when it has expired;
  one operator; two references, one of which needs two confirmations; one fault: a death,
  a failed query, a lease that expires under a worker at work, or one that another sync of the
  same process takes from it.
* `signer_rotation`: two handlers, which are reused, one request, three signers, two
  sets that share one signer and ask for two approvals, and one governor of
  each kind. Every step of a handler may be its last. `MaxVersion = 2` is a bound: the
  code goes on to a third version and further, as long as none is rolled back (after a
  rollback `proposeRotation` draws a number that exists, and is refused). The theorems
  hold for any number of versions.

### Fairness

`pool_investment` assumes weak fairness of each handler's `Progress`, that
is, a handler whose next command can be executed eventually gets an answer from
MongoDB, be it an error. Nothing is assumed of which outcome it gets: the
transaction may fail at every attempt. That requests end nevertheless is because
both retry loops are bounded: three attempts in the code, and the driver's 120
seconds for each, abstracted to `MaxTries`. `Request`, `Crash` and everything
outside of the handlers are not fair.

`gateway_charges` assumes weak fairness of a delivery that has begun, and strong
fairness of Paystack's repeating the webhook of a paid charge that nobody has been
told is processed (the webhook answers 500 to everything that throws). Checkouts,
payers, spending and verify requests are not fair. Only finitely many
failures are spontaneous (`MaxFailures`): with a database that fails every time
nothing is ever booked.

`contract_transitions` assumes weak fairness of each process that has begun: its
queries return and its waits end, since the code polls for a predecessor 25 times and
not for ever. `Start` and the faults are not fair. `CallsEnd` then says that a
sequence number that nobody will use holds up nobody for good.

`stellar_settlement` assumes weak fairness of a worker that has begun, of the
lease's expiry (a clock), and of `Requested`, some administrator's `sync` while there is
something to index and nobody has the lease. The last is not the code's but its operators':
`sync` runs when an administrator asks for it. It also assumes, by `MaxFaults`, that what
goes wrong does so finitely often, and one of these things is no failure: `acquireLease` lets
a sync take the lease of another one that the same process serves (`indexer.ts:179`; `workerId`
is made of the process's pid, `:557`). Nothing in the code bounds that. If it went on for ever,
each of two syncs replacing the other's token before the other saves, neither would move the
cursor: without the bound TLC finds that loop, and `CatchesUp` does not hold.

### Deadlock

`signer_rotation` checks for deadlock. The other cfgs switch the check off: their
instances are finite (handlers of `PoolInvestment` and calls of
`ContractTransitions` are not reused; wallets, stakes, payments and operations are
bounded) and really stop when everything has been done.

### Findings

1. **A pool repair overwrites an investment** (`pool_repair`). `scan` reads the
   pools and then their investments, so an investment between the two queries is
   reported as a mismatch. `applyRepair` calls `previewRepair` before it starts its
   transaction, and the transaction only writes: an investment that commits in
   between is erased from the pool's totals, and the pool is left with more room
   than it has.
2. **A reference is booked twice, and more distributed than was applied**
   (`repayments_late_investor`). Two deliveries of one reference begin; the first
   confirms. The second still has its snapshot of a pending payment and a missing
   `repayment` transaction, but the engine's look-up, which is outside of the
   session, finds the allocation: it writes nothing that conflicts, books a second
   `repayment`, and commits. Its snapshot has no applied amount yet, so
   `distributePaymentToInvestors` falls back on the whole payment: an investor who
   joined between the two snapshots is credited also with what the driver has got
   back as excess. The unique index on `InvestorCredit`, and not the look-up, is
   what makes confirmation idempotent, and it refuses the second commit only when
   both deliveries credit one same investor. The largest investor of a pool always gets a
   part, so a largest one who stays it is enough (`LedFromTheStart`); an early investor
   whose part rounds to nothing is not.
3. **The admin role can be taken away without an approval**
   (`approvals_privilege`). Whether a command is exempt is decided from the role
   that `prepare` reads; the exempt path does not look again and checks no version.
   A user who is made an administrator in between, by a request that was approved
   and executed before the exempt one is inserted, loses the role at once.
4. **No administrator may remain** (`approvals_last_admin`). The count and the save
   are apart, and requests exclude each other by target only: two executions that
   demote two different administrators both count two.
5. **A failed charge is credited** (`gateway_failed_charge`). The webhook accepts
   `charge.failed` and treats it like `charge.success`: the wallet is credited with
   the amount of the attempt. The verify route looks at the charge's status. The
   same branch confirms a driver's payment that failed, which is why no property of
   `Repayments` says that a confirmed payment was received.

### What the models contain without a run that asks for it

The models below have these behaviours because the code has them; each was met
while modelling and is left to the reader of the code.

* A completed contract refuses its next webhook: `confirmDriverPayment` and
  `createDriverTransferPayment` throw (`driver-contracts.service.ts:733`, `:449`)
  before they reach the engine, which would answer `alreadyProcessed: true` as
  `docs/repayment-engine.md:80` says.
* A first signer set that is rolled back leaves none that is active, whatever
  `docs/custody-signer-rotation.md` says of rollbacks: hence the second disjunct of
  `ActiveUnlessFirstUndone`. A process that dies between the activation of a set and
  the retirement of the one before it leaves two.
* `finalizeAndSubmit` records a transaction that has landed as `failed` when the query
  after it fails. A request whose handler dies between the last approval and the
  promotion waits until it expires.
* An audit entry is written before its transition commits and outlives a rollback. One
  sequence number that is drawn and never used makes every later critical action of
  the monthly partition fail.
* A cancelled contract keeps its vehicle reserved. `ACTIVE` finances the vehicle
  whatever its status is by then.
* A settlement whose operation is seen again in state `observed` counts no further
  confirmation, so that a threshold of three is never met through the indexer. An
  event that is indexed by a worker that then dies causes no transition any more. A
  foreign operation stops the cursor for good, which is why `CatchesUp` is about
  `Reachable`.
* Two syncs that one process serves take the lease from each other, and the one that loses it
  indexes its page but fails to save the cursor. `CursorOnlyAdvances` and
  `OneCountPerOperation` hold all the same; `CatchesUp` needs this to end (see Fairness).
* No reversal of a settlement commits today: the `AuditLog` that `executeReversalJournal` inserts
  (`settlement-service.ts:356`) lacks the `targetType` that its schema requires
  (`models/AuditLog.ts:28`), so that the transaction is rolled back. In `Settlement` a
  transition to `reversed` may be rolled back (`Fail`, `StepFails`) or commit: `WalletAgrees` covers
  the code as it is, where nothing is taken back, and says "taken back once" of the
  code once that insert is repaired.
* `finalizeAndSubmit` takes any HTTP status from Horizon for a definite rejection
  (`custody/service.ts:361`), a 504 included, after which the ledger may still apply the transaction
  of a request that is recorded as `failed`. `Answered` has that outcome, and the properties
  of `signer_rotation` hold with it: none of them says that what failed is not applied.
* `rawEventKey` is the same for all operations of one transaction (Horizon's
  operations carry neither ledger nor index), and one's success can then stand for
  another's failure: `CursorCovers` has the premise that keys differ (`KeysDiffer`).

## Proofs

`PoolInvestmentProofs` proves, for every set of requests, investors, pools and
keys and every amount and bound that satisfy `InvestmentAssumption` (what
`createPool` and the request schema check, plus that `Absent` is not a document):

| Theorem | Says |
|---|---|
| `Inductive` | `Spec => []IInv` |
| `TypeCorrect` | `Spec => []TypeOK` |
| `NoOversubscription` | `Spec => []PoolWithinTarget` |
| `Conservation` | `Spec => []WalletConserved` |
| `ExactlyOncePerKey` | `Spec => []OneInvestmentPerKey` |
| `TruthfulAnswers` | `Spec => []AnswersAreTrue` |
| `TotalsAgree` | `Spec => []PoolAgreesWithInvestments` |
| `Refinement` | `Spec => RefinesAtomicInvestment` |
| `RepairInductive` | `RepairSpec => []RepairInv` |
| `RepairKeepsWallets` | `RepairSpec => []WalletConserved` |
| `RepairKeepsKeys` | `RepairSpec => []OneInvestmentPerKey` |
| `RepairKeepsAnswers` | `RepairSpec => []AnswersAreTrue` |
| `RepairUnderstates` | `RepairSpec => []NeverOverstated` |

None of the properties is inductive: a handler in the middle of a
transaction may hold any snapshot whatever as far as they are concerned, and
would commit it. `IInv` adds what a snapshot is worth (`SnapshotsAgree`): for
every open transaction, each part of the snapshot is still what the database
holds, unless the document it came from is in `missed`; and a reservation, once
there, never goes away. From this `CommitSeesTheDatabase` follows: a commit
that is accepted has missed none of the three documents it writes, so it was
computed from the present state. That lemma is the heart of every other proof and of the
refinement: it turns an optimistic transaction into an atomic action.
`OnlySettledReservations` says that `RESERVED` never outlives its transaction, so
that the expiry sweep finds nothing (`NothingExpires`), and `WorkingCalls` that a
handler at work knows its request.

`TotalsAgree` is about a sum over a set of investments that grows. `Sums` has what it
needs: what happens to a sum when an element joins the set (`SumAdd`), when the function
changes at one place (`SumChange`), when it is scaled or split. The community modules
define a sum by a fold, which is a recursive function that is chosen; that one exists
for each finite set is shown by induction on its size, and that in turn, since the
library's induction theorems are out of the provers' reach, from the fact that every set of
naturals that is not empty has a least element (`NatSetInduction`).

The last five theorems are about `PoolFundingRepair`, whose repair writes totals that may
be stale (the run `pool_repair` shows that). What it writes can break `PoolWithinTarget`
and `PoolAgreesWithInvestments`, and with them what is sold; it is part of the result that
nothing else depends on the totals. So `IInv` is `SoundInv`, which speaks of no total, and
`PoolWithinTarget`; the lemmas about the investors' actions need `SoundInv` alone, and
`ApplySound` shows that a repair keeps it, because its write makes every open transaction
miss the pool (`PlainWrite`). `NeverOverstated` bounds the damage: the totals that a repair
proposes were true when it was previewed (`PoolKnown`) and investments are only added, so
a pool can come to claim too little but never too much. TLC found no counterexample to
`NeverOverstated` on the instance of `pool_repair`; no run lists it.

`GatewayChargeProofs` proves, for every set of users, loans, quotes, checkouts and deliveries and
all amounts, under the named assumptions of `GatewayCharge`:

| Theorem | Says |
|---|---|
| `Inductive` | `Spec => []IInv` |
| `TypeCorrect` | `Spec => []TypeOK` |
| `NoCreditLostOrRepeated` | `Spec => []CreditedOnce` |
| `BookedTogether` | `Spec => []BookedOnce` |
| `TruthfulAnswers` | `Spec => []AnswersAreTrue` |
| `OneChargePerQuote` | `Spec => []QuotePaysOnce` |

The strengthening says what the variables outside of the transaction's body are worth,
through every abort and retry, and that whoever commits has inserted the lock of a
reference that nobody else has processed. `CreditedOnce` is again a sum, over the processed
references of a user, to which a commit adds one.

`RepaymentsProofs` proves, for every set of references, contracts, investors and deliveries,
all amounts, balances and stakes (`RepaymentAssumption`: investors and references are finitely
many, amounts and balances positive, and `Absent` is nothing else):

| Theorem | Says |
|---|---|
| `Inductive` | `Spec => []IInv` |
| `TypeCorrect` | `Spec => []TypeOK` |
| `PaidIsTheSum` | `Spec => []TotalPaidAgrees` |
| `CompletedIsPaid` | `Spec => []CompletedMeansPaid` |
| `SplitExactly` | `Spec => []PaymentSplitExactly` |
| `WalletsCorrect` | `Spec => []WalletsAgree` |
| `BookedOnce` | `Spec => []OneRepaymentTransaction` |
| `TruthfulAnswers` | `Spec => []AnswersAreTrue` |
| `NeverTooMuch` | `Spec => NeverOverpaid` |

The snapshot argument is that of `PoolInvestment` (`SnapSound`), and
`ConfirmSeesTheDatabase` its use: a confirmation writes the payment and the contract, so it has
seen both as they are. It is not enough, because the second path of a delivery writes
neither. What keeps it from posting is the credit of the pool's leader: the leader's part of
every payment is positive, whatever the rounding (`SharesFacts`, the one
place where the arithmetic of the split matters), it stays the leader
(`LeadersStay`), so a confirmed payment has a credit of the leader (`LeaderCredited`), and a
delivery that has not seen that credit has missed its unique key
(`AllocationExistsStep`). This is also where the premise `LedFromTheStart` comes from: a
first version asked only for some investor in the pool from the start, and neither the
instance nor its bounds could show that this is not enough.

`ApprovalsProofs` proves, for every set of users, requests and checkers, every
initial assignment of roles and every bound (`ApprovalAssumption`: the sets are
finite where they are counted, and `Absent` is nothing else):

| Theorem | Says |
|---|---|
| `Inductive` | `Spec => []IInv` |
| `TypeCorrect` | `Spec => []TypeOK` |
| `AtMostOnce` | `Spec => []ExecutedAtMostOnce` |
| `FourEyesHold` | `Spec => []FourEyes` |
| `StatusTruthful` | `Spec => []StatusTellsEffect` |
| `TerminalStays` | `Spec => TerminalIsFinal` |

Here the strengthening is about program counters. A checker whose counter is in
`Working` has claimed its request (`CheckerOK`), and no two checkers that work
have the same one (`Exclusive`): only `Claim` makes a checker work, and only on a
request that is pending, on which by `CheckerOK` nobody works. The request may
still be reaped under it, which is why `CheckerOK` allows `execution_failed` next to
`executing`, and why the proof of each update goes through `Undisturbed`: what an
update by one checker, or a reaper, may do to a request that another works on.
Exempt requests are executed by their makers, and checkers do no more than read
them (`OnlyRead`). Each action has its lemma; the theorems follow from their
conjunction, `NextInv`.

`ContractTransitionsProofs` proves, for every set of processes, contracts and vehicles,
every table of requests, every initial state that `Init` allows, and every threshold and
number of faults
(`AuditAssumption`, `ContractAssumption`: the events are the valid transitions, and
contracts and vehicles are different documents):

| Theorem | Says |
|---|---|
| `Inductive` | `Spec => []IInv` |
| `TypeCorrect` | `Spec => []TypeOK`, with `AuditTypeOK` |
| `LogVerifies` | `Spec => []AuditVerifies` |
| `LogRefines` | `Spec => RefinesSealedLog` |
| `HistoryIsPath` | `Spec => []TimelineTellsHistory` |
| `NoUnauditedTransition` | `Spec => []CommittedIsAudited` |
| `VehicleWasAvailable` | `Spec => TakenWhenAvailable` |

The invariant has two halves. `AuditInv` is about the log: the number that a writer
has drawn is neither used nor another writer's (`WriterOK`, `Distinct`), and who has
found the predecessor has the first number that is not used; so entries are written
in the order of their numbers, whoever draws and dies. For checkpoints nothing of
the sort holds: several writers sign for different ends under one number. What
is invariant is that one whose number is still free starts where the last checkpoint
ends (`SealerOK`), and the unique index refuses the others. `TxnInv` is about the
transactions: what an open one has read is still so, or the document is in `missed`
(`CallOK`), and no document is written by two (`Exclusive`). A commit has
written the contract and the vehicle it assigns, so neither is in `missed`
(`CommitReads`): it starts from the status in the database, and the vehicle is
available in that very state. `Linked` ties the halves together: a process at its
commit has its own event in the log.

`SignerRotationProofs` proves, for every set of calls, requests, signers and governors,
all weights and thresholds, and any number of versions and sequence numbers
(`CustodyAssumption`: thresholds are positive, and `None` is nothing else):

| Theorem | Says |
|---|---|
| `Inductive` | `Spec => []IInv` |
| `TypeCorrect` | `Spec => []TypeOK` |
| `LedgerBacked` | `Spec => []LedgerIsBacked` |
| `RetiredSetsBackNothing` | `Spec => []RetiredBacksNothing` |
| `AlwaysActive` | `Spec => []ActiveUnlessFirstUndone` |
| `OutcomesAreFinal` | `Spec => TerminalIsFinal` |

There is no transaction to lean on here: every call reads in one step and writes in
another, and the invariant has to say what of the reading is still true. It is about
single calls where that is possible (`RequesterOK`, `RotatorOK`, `PinnerOK`), so that a
step needs two arguments: the call that moves is right afterwards, and what the step
wrote breaks nothing that another call has read. The second is shown once per kind
of write and not per action: `RequestsAge` is all that may happen to a request,
`SameStatuses` and `Restatus` to a signer set, and `RequestStep`, `SameStatusStep` and
`RestatusStep` conclude `IInv'` from them. Three parts carry the weight.

* `SetsOK` keeps the versions in order: above one that was replaced there is an
  active one, with nothing but replaced ones in between. So undoing the active
  version always has one below that was brought back before, which is `AlwaysActive`.
* `Alone`: next to a call that is about to replace a version, nobody undoes the one
  that replaces it. Otherwise the two could meet with nothing left active.
* `PinnerOK`: a call that has yet to insert its request does not hold a version whose
  overlap window has ended while it was being replaced; so between the check of
  `retireIfSafe` and its write no request appears. It rests on the window being longer
  than any call (`OverlapEnds`), which is the reason for the window.

`LedgerBacked` needs no fact about sums: the weight is added up once, at the check,
and nothing that the sum is over changes after the claim.

`StellarIndexerProofs` proves, for every set of records, references, users, operators
and workers, every chain, page size, threshold and number of faults, under these
assumptions. `SettlementAssumption` and `IndexerAssumption`: records are finitely many, amounts
and thresholds positive, operators are not workers, and `Absent` is nothing else.
`NothingReversed` and `NothingCounted`: the initial records, which may be there in any other
state and number, were not reversed yet, in none of the two states that no code of the
repository asks for, and not counted. Both hold of an empty collection.

| Theorem | Says |
|---|---|
| `Inductive` | `Spec => []IInv` |
| `TypeCorrect` | `Spec => []TypeOK` |
| `WalletsCorrect` | `Spec => []WalletAgrees` |
| `CountedOnce` | `Spec => []OneCountPerOperation` |
| `CursorSound` | `Spec => []CursorCovers` |
| `CursorAdvances` | `Spec => CursorOnlyAdvances` |

`WalletAgrees` would be inductive if a transition read the database when it commits. It
reads it when it begins, and `TxnSound` says what that is worth: the record and its user
are as in the snapshot, or are in `missed`. A transition writes the record always and the
user when a balance changes, so one that commits changes nothing that it has not seen
(`TransitionFacts`), and what the records of a user are worth grows by what the user is
credited with (`TransitionWallet`, with the sums of `Sums`). That a record is not taken
back twice needs one fact more, that only a reversed record has a journal (`RecordOK`).
An operator's snapshot and a worker's are treated alike, up to `OperatorStep` and
`WorkerStep`, which conclude `IInv'` from what one of them does to its own state and from
the documents that it writes.

`OneCountPerOperation` is not about one document. A worker reads the number of
confirmations outside of the transaction (`MatchSettlement`) and writes it plus one later,
so between the two there may be any number of others. The invariant counts the operations
whose confirmation is over: indexed, and of no worker that is between the match and the
commit (`Done`). Whoever inserts an event is the only worker that has its operation there
(`Distinct`), because the index on the event refuses everybody else; so the number that a
worker has in hand is at most one more than those that are `Done`, and its own operation
joins them when it commits (`DoneGains`) or gives up, whichever comes first.

For the cursor, `LeaseOK` says that the worker whose token the lease has works on the page
that begins at the cursor, and `CoverOK` that everything before a worker's page, and
everything projected, is indexed. A lease expires under its worker, or a sync of the same
process takes it, but whoever takes it replaces the token, and `saveCursor` compares the token and not the clock. It is
`CoverOK` that needs `KeysDiffer`: without it a projected raw event need not be the one of
the operation that is looked at.

The first attempt at `FundsAfterFacts` failed because the balances after a transition were
a `CASE` with overlapping guards, of which TLA+ chooses any one that holds; they are
nested as in the code now.

Only model-checked: liveness (`CallsTerminate`, `PaidIsBooked`, `CallsEnd`,
`CatchesUp`), which is out of the prover's reach. Every invariant and action property of
the passing runs is a theorem. The properties of the runs that expect a violation are, of
course, none. `TypeOK` of `Repayments`, `GatewayCharge`, `StellarIndexer` and
`SignerRotation` describes their state; no cfg lists it, for they
have deeper properties to spend TLC's time on.

## Not modelled

* Consent (19) is a check that may refuse (`Refuse`); KYC is a constant set.
* Contracts appear out of nowhere in `Repayments`: no code of the repository
  outside of tests and scripts creates one.
* `reverseDriverPayment` and `repairContractBalance`: see the hazards. The first
  cannot commit, because the type of the transaction it inserts is not one that
  the schema of `Transaction` allows.
* A quote's creation from a provider's rate; a quote is there, `created`, from the
  start. Audit events of `processGatewayCharge` are logging.
* Custody: payout limits (a limit that is read and then used, like the sum of a
  balance), envelope hashes, and the governing categories, which stay as they are.
  An operator is assumed to reconcile only what the ledger has decided, and the overlap
  window to outlast every handler. No code outside of the tests calls the service.
* The indexer's replay and rebuild, which nothing calls; the state in which a
  settlement record may be initiated other than `initiated`.
* Loans, vehicles and investments (6) have tables and transactions like those of
  contracts. 9 is written by a migration only; 11 is a prototype in memory that no
  route uses; 13, 14 and 16 are far from the money; 17's reconciliation reports, and
  its remediation posts one transaction under an approval.
* 22 is not used by the application and its main file does not match its tests;
  23, 18, 20 and 21 keep no state of interest to the money, or are input and output.

## Plan

Done: components 1, 2, 3, 4, 5, 8, 10, 12 and 15, the quotes of 7, the pool repair of 17;
the proofs about these.

Next: the executors of repairs and remediations behind `Approvals`, and
`repairContractBalance` next to `Repayments`; `Payouts` (11) when a route uses it.
