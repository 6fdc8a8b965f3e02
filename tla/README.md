# CoreFlow: a verification development

CoreFlow is a payroll system. A Soroban contract keeps the money of each payroll in
escrow and releases it once an oracle has attested the hours and two people have
approved; a Next.js application keeps batches, payments, approvals and transaction
attempts in a PostgreSQL database; an indexer projects the contract's event log into that
database; a reconciler compares the two. The contract is the authority, the database a
projection of it that people act on. These modules model the parts in which state changes
hands, TLC checks them on small instances, and TLAPS proves the safety of most of them for
all instances.

## 1. The system

| Component | Source | State it keeps | Operations |
| --- | --- | --- | --- |
| Contract | `contracts/core-flow/src/lib.rs` | escrows, their rows, nonces, admin, pause flag, oracle registry, pooled custody | create and fund, submit proof, rotate key, approve twice, pay, cancel, administer |
| Payment state machine | `src/lib/payments/state-machine.ts`, `service.ts` | `Payment.state` | `checkTransition`, `applyTransition` (read, check, compare and swap) |
| Payment actions | `src/lib/payments/actions.ts` | `Approval`, `BlockchainTransaction` | approve, reject, cancel, submit, retry, flag |
| Payroll files and batches | `src/lib/payroll` | `PayrollBatch`, draft payments | read a file, create a draft under key, reference and fingerprint, approve a batch |
| Batch page | `components/payroll/BatchDetail.tsx`, `lib/payroll/api.ts` | what the page has of a batch | load, show headline, approvals and rows |
| Funding bridge | `src/lib/funding`, `FundingPanel.tsx` | funding attempts with their frozen plan; the browser tabs | assess, open intent, sign, record hash, abandon, resolve, verify, link |
| Indexer | `src/lib/indexer` | `ChainEvent` markers, `IndexerCursor`, the projected rows | a pass: fetch a page, apply event by event, set the cursor, replay the unattributed |
| Claim | `app/api/organizations/[id]/escrows/claim` | the `Escrow` row | claim an escrow created elsewhere |
| Reconciler | `src/lib/reconciliation/reconciler.ts` | `ReconciliationFinding` | read rows, read contract, compare, correct |
| Chain verifier | `src/lib/reconciliation/chain-verifier.ts` | none | read transfers, match, infer, count duplicates |
| Reconciliation runs, findings | `scheduler.ts`, `findings.ts` | `ReconciliationRun`, `ReconciliationFinding` | lock, heartbeat, take over, finish; open, observe, advance, resolve |
| Membership | `src/lib/tenancy` | `OrgMember`, `Invitation` | invite, accept, revoke, suspend, demote, remove |
| Authentication | `src/lib/auth` | challenges, sessions, platform roles | challenge, verify, revoke, bootstrap |
| Contract client | `src/lib/contracts.ts` | one call at work | simulate, sign, send, poll |
| Bulk Pay page, dashboard | `app/bulk-pay/page.tsx`, `hooks/useDashboard.ts` | snapshots, cards, timers | attest, approve, settle, cancel, create |
| Attest library | `packages/attest` | issuer registry, replay marks | register, revoke, rotate, verify a claim |
| Marketplace hold | `examples/marketplace-hold` | holds and the money held | open, release against a claim, refund after the deadline |

How they interact. The funding bridge sends the contract one transaction that creates an
escrow and deposits into it. Every entry point emits events; the indexer reads them, and is
with the reconciler the only one who may record what the contract did. Users
move payments through the same `applyTransition`, concurrently. The oracle
service signs attestations that `submit_hours_proof` consumes. There is no lock above the
database's unique indexes and the WHERE clauses of its updates.

What is hard. Several writers of one payment read before they write. Passes of the
indexer overlap and die between transactions. Events arrive for escrows that have no row
yet. The reconciler compares rows read early with a contract read late. The contract is not
idempotent: a second funding transaction is a second deposit. The contract's own rules
(approvals before or after proofs, rotation at any stage, pause) meet in orders
no test lists. Requests count, then act; they are repeated, and they die. Pages show what they
read before others acted. `PROJECT.json` has the hazards line by line.

What makes each correct, in short:
- contract: no payout without current proofs and two approvers; no proof used twice; a
  refund is always possible until the end, and nothing after it; custody adds up;
- state machine and indexer: what is terminal stays; READY_TO_SETTLE means approved
  twice, PAID means settled; nothing is passed over; the projection follows from the log;
- reconciler: no false alarm; a settlement is shown or reported; money is said to have
  moved only if it did; a disagreement is recorded, and recorded once;
- actions: an idempotency key is one attempt; an attempt implies a submitted payment;
- payroll: two readers take one payroll from a file; a file is refused for a reason; a
  request is answered with its own batch; a payroll is not entered twice without a word;
- funding: one attempt in flight; only the escrow that was planned is adopted; an uncertain
  transaction invites no second one; one escrow per batch;
- access: a challenge opens one session; seats are invited; ownership comes from owners;
- pages: what is shown as signed is signed; a headline hides nothing broken;
- hold: what is held is there, and goes to one of the two, against a claim used once.

## 2. Modules

| Module | Models | Proofs |
| --- | --- | --- |
| `TokenLedger` | token balances: deposit, refund and payout as sums per token | |
| `EscrowCustody` | what the contract promises about custody: an escrow is funded whole, then settled whole or refunded whole | |
| `CoreFlowContract` | the contract: every entry point an action | `CoreFlowContractProofs` |
| `PaymentStates` | states, roles, the transition table, `checkTransition` | |
| `EscrowLog` | the events one escrow can emit, grouped into ledgers | |
| `Indexer` | passes, markers, cursor, attribution, projection | |
| `Settlement` | composes log, indexer, users and reconciler on one database | `SettlementProofs` |
| `PaymentActions` | the requests of members, statement by statement | `PaymentActionsProofs` |
| `PayrollCsv` | the two readers of CSV text, the checks of a row and of a file | `OfficeProofs` (the checks) |
| `PayrollBatches` | uploads racing on key, reference and fingerprint | `OfficeProofs` |
| `BatchPage` | the roll-up of a batch, its page, the approval of all its payments | `OfficeProofs` |
| `FundingBridge` | the tabs, the funding service, the network | `FundingBridgeProofs` |
| `ChainVerifier` | transfers of the asset and what is concluded from them | `OfficeProofs` |
| `ReconciliationRuns` | the lock, runs slow and dead, the findings they and the indexer open, operators, the panel | `OfficeProofs` |
| `ContractClient` | a page's call: simulated, signed, sent, polled for | |
| `BulkPay`, `Dashboard` | the two pages that call the contract through it | `OfficeProofs` (`BulkPay`) |
| `Rbac`, `Membership` | permissions; members and invitations of one organization | `AccessProofs` |
| `Auth` | challenges, sessions, the cookie the tabs share | `AccessProofs` |
| `Attest` | registry, both replay modes, `verify_claim` | |
| `HoldPromise` | what a hold promises buyer and seller | |
| `MarketplaceHold` | the hold contract on top of `Attest` | `MarketplaceHoldProofs` |
| `NaturalLemmas` | least and greatest members of sets of naturals; sums over finite sets | itself |
| `MC...` | instances of the above | |

**Contract.** `escrows` are `DataKey::Escrow` entries; `nonces` the per-escrow counters;
`accepted` and `signers` are histories (attestations accepted, approvals signed) that no
operation reads.
Each entry point checks its guards in the code's order, but as an abort rolls everything back
the order is not observable and guards are conjuncts. An attestation is a record
of what `build_proof_message` signs; `Verifies` stands for `ed25519_verify`. Integer widths
are kept as bounds (`NonceLimit`, `MaxBalance`) with the checked arithmetic's refusal.
`CoreFlowContract` instantiates `EscrowCustody` with a mapping from row statuses and
implements it.

**Settlement.** An event of the log is a kind, a ledger and a row. `EscrowLog` lets the contract
emit what it allows in any order it allows: proofs, approvals in either order and
before proofs, rotations, settlement or refund, as many invocations per ledger as
`TxPerLedger`. A pass of `Indexer` is `Fetch`, then for each event `Read` (its
transaction reads the marker, the escrow and the payment) and `Apply` (it writes), or `Fail` or
`Crash`, then `EndPage` (cursor, then the backlog of unattributed events) and `EndPass`. A unique
index violation is `ApplyDuplicate`. `Projected` is the state each event handler
gives a payment. `Claim` is the claim route, with `ClaimFirst` and `OwnPayments` saying
whether the Escrow row and the payments precede the passes, as they do for
a batch the bridge funded before the indexer saw it. In `Settlement` a user's move is `Request`
then `Swap`, because `applyTransition` reads and then swaps; the reconciler is `ReadRows`,
`ReadChain`, then for each row `Compare`, `Unconfirmed`, or `Consult` and `Correct`.
Prisma's `upsert` on a unique key is `INSERT ... ON CONFLICT DO UPDATE`, at READ COMMITTED.

**PaymentActions.** A request goes through its statements one at a time (`Begin`, `FindDecision`,
`FindOtherHalf`, `Approve`, `Consult`, `Swap`, `Decline`, `FindAttempt`, `CountAttempts`,
`CreateAttempt`) and may die between any two. `answers` is a history of the
attempts that callers were told of. The indexer is `Observe`, anything the table lets it do, and
`OracleRotated`, the update of a rotation, which does not ask the table.

**Payroll.** A text is typed character by character and read at each point by both readers.
A file is built row by row from rows told apart by what the checks make of them. An upload is
its queries one by one, and a retry is another upload alike; the settlement asset can be
reconfigured between two. `BatchPage` takes what others do to a payment as anything the
table lets somebody do, and loads the page at any time.

**FundingBridge.** A tab has a phase of the panel; a request of it is one read and one
transaction. `Sign` is the wallet and the network accepting, `RecordSubmitted` the request
that follows (which the client may lose), `AfterPolling` what the handler makes of the end of
polling, and `Reload` may come at any point between: a closed tab, a lost response, a double
click. A plan is the manager, who is whoever asks, and the finance approver the server
chooses for that manager. `ConfirmFailed` is the reconciler's `reconcileFailedTransactions`.

**Pages.** `ContractClient` keeps as much of the contract as a page can see or be refused by. A
call is simulated and signed, sent, then decided by the network in any order, and `others`
call the contract as well. The pages' operations are the handlers of their buttons.

**Access.** Requests of `Membership` read, decide and write in steps of their own, two at a
time; `seats` records whose membership each invitation opened. In
`Auth` a request can be lost on its way in or its answer on the way out.

**Hold.** `Attest` is the library in the host contract's storage; a claim is a record of what
is signed, a signature the fact that a key signed its pre-image. `MarketplaceHold` adds the
money. `HoldPromise` knows neither keys nor nonces: a voucher is issued, redeemed once and only
while its issuer is recognized, and what is held moves once. `MarketplaceHold` implements it under a mapping in which a voucher is
the pre-image of a claim, the traders' purses are the wallets, and the vault's own purse is
left out.

## 3. Runs

| Run | What varies | Shows |
| --- | --- | --- |
| `contract` | two escrows over a shared token, two tokens, two keys, a pinned admin with handover, pause, upgrade, registry, one rotation | proofs, nonces, approvals, refund, closure, balances; `EscrowCustody` is implemented |
| `settlement_users` | an owner acting at any time, the escrow's row written at any time | READY_TO_SETTLE is approved; a settlement is shown or found |
| `settlement_people` | an owner and a reconciler at any time, one pass after another | PAID is settled; no false DB_PAID_CHAIN_NOT; a projected refund is shown, unless the payment was handed over for settlement |
| `settlement_passes` | two overlapping passes that create the payments themselves | terminal states stay |
| `settlement_replay` | one pass at a time, a failure or crash, fairness | the projection follows from the log; proofs shown are current; every event of a claimed escrow is eventually applied |
| `access` | three users, two invitations, four requests two at a time; two wallets, two tabs; an owner and a finance approver, two requests about two payments at one time, one key, rotations; two holds for one order, five claims of two issuers | seats, ownership, sessions; keys, attempts and approval halves; the money held is there; `HoldPromise` is implemented |
| `office` | texts of five characters, files of three rows; two uploads; a batch of two; two funding tabs; transfers of five ledgers; two runs, the indexer and an operator on two findings; the two pages | both readers agree; a refusal has a reason; own batch, no silent twin; honest headline; one attempt, confirmed and planned; settled is confirmed; runs do not repeat each other's findings; badges |
| `settlement_failing` | several transactions in a ledger, one fails | **violated**: the cursor passes over the failed event |
| `settlement_finance_first` | finance approves before the manager | **violated**: the settled payment can never be recorded as PAID |
| `settlement_submitted` | a payment is handed over for settlement and its escrow refunded | **violated**: indexer and reconciler are refused and nothing is recorded |
| `funding_twice` | two tabs, one attempt | **violated**: two escrows |
| `funding_uncertain` | polling gives up after the network accepted | **violated**: the panel offers to try again |

With the escrow's row written late only users act beside the indexer, and with both users and the
reconciler it is written first: all of it together is more than TLC gets through in minutes, and
`PaidWasSettled`, `AlarmsAreEarnest`, `ReadyWasApproved`, `SettlementShows` and `TerminalForGood`
(section 5) have every combination.

`access` and `office` hold several components that share no state in the models: a behaviour
takes its steps in one of them, chosen at the start. Where such a component depends on another
it takes the other's effects as inputs (a payment moved by anybody the table permits, an escrow
others call).

Bounds. One escrow of one row takes seven events from creation to settlement, eight with a
rotation: `MaxEvents` is what lets each run reach the end. Two passes suffice for every race
between two, two requests for every race between two requests (`PaymentActionsProofs` has any
number), four for members, where a demotion, a removal, an invitation and an acceptance meet.
Two findings are a pair that may say the same, and one operator at a time resolves them and sets
them back (`OfficeProofs` has any number of both). Two attempts and two transactions let an attempt
be abandoned and followed by another. Two rows in the contract tell a per-row from a
per-escrow rule; two escrows over a common token show pooling; the constraint `Exercised` takes
administration and custody apart, which do not depend on each other once an escrow exists.
`NonceLimit` 3 lets each row be proven, revoked by the rotation and proven again until the
counter is exhausted, as the u64 would. Five characters hold a quoted cell, an escaped quote and
a line end. Five ledgers with a look-back of four put a settlement out of sight. Two holds and
five claims (both modes, a repeated identifier, a wrong type, an expired one) let a claim be
presented again after its key was revoked, rotated and registered anew.

`CHECK_DEADLOCK FALSE` is set where the bounded instance really ends: the log is full, the
requests are used up, the escrows closed, a text is typed, a batch is funded.

Fairness (`settlement_replay`). Weak fairness of closing a ledger (the network goes on), and
for each pass of `Fetch \/ Step`: a scheduler starts passes over and over
(`vercel.json`: `/api/indexer/run` every day, and by hand) and a pass that has started goes on.
Failures and crashes are finite (`FailureLimit`): a permanently failing event does stop the
indexer, by design. Nothing is assumed of users, the contract's callers or the claimant: the
property starts from `claimed`.

## 4. What the runs restrict, and what happens outside

The passing settlement runs have one transaction per ledger, pages no shorter than the log, and
failures only of events that come first in their ledger (`FirstInLedger`). Within those
`NothingPassedOver` holds; outside it does not:
- a ledger of two events of which the second fails is passed over (`settlement_failing`);
- a page that ends inside a ledger moves the cursor past the rest of it (raise
  `TxPerLedger`, lower `PageLimit`).

What `settlement_submitted` shows has no way out: SUBMITTING's only exits but PAID belong to the
actor `system`, which no code uses. `RunsDoNotRepeat` is about what reconciliation runs open: the
indexer's `openFinding` writes the same table without lock or look-up (`NoDuplicateRow` below). Its
two exceptions (a run taken for dead, a finding that was resolved once) are real too.

A hold's seller is never the contract itself, which the example does not refuse: money released
to its own address would stay there unaccounted for.

These statements of the repository are written down in the modules and do not hold; they are
not kept as runs:

| Statement | Said in | How it fails |
| --- | --- | --- |
| `SomebodyAdministers` (`Membership`) | `lib/tenancy/membership.ts`: the last administrator is not removed | two requests count two administrators, each removes one |
| `TwoApprovers` (`PaymentActions`) | `docs/RBAC.md:53-54`: even an OWNER cannot supply both halves of one payment | the other half is looked for, then the own one created (`actions.ts:111`), with no constraint on the pair: two requests of one owner, between whose reads the indexer moves the payment to AWAITING_FINANCE, record both halves. The contract still refuses one signer for both |
| `NoDuplicateRow` (`ReconciliationRuns`) | `docs/RECONCILIATION.md:184`: a finding still present is observed again, "no duplicate row" | the indexer's `openFinding` (`index.ts:202`) leaves the escrow and the slot empty by which `upsertFinding` looks a finding up (`reconciler.ts:199-208`): the next ordinary run opens a second row about the same payment |
| `LinkedIsConfirmed` (`FundingBridge`) | `lib/funding/service.ts:699`: an attempt already confirmed on-chain cannot be abandoned | the row is checked before the transaction, which updates by id alone (`:712`): an abandonment that read SUBMITTED while another tab was verifying takes a linked attempt from CONFIRMED to CANCELLED |
| `RetryIsReplayed` (`PayrollBatches`) | `docs/BULK_PAY.md:128`: a retry is answered with the first batch | two uploads without a reference but with one key race past the look-up; the loser of the unique key is told of a conflict |
| `CompleteIsOnEveryPayment` (`BatchPage`) | `lib/payroll/api.ts:380` | payments that were skipped, because they are no longer waiting, count as present (`:485`) |
| `AllClearIsChecked` (`ReconciliationRuns`) | `ReconciliationPanel.tsx:13-18`: silence is not success | the list says that every payment matches before any run has ended |
| `ConfirmedIsConfirmed` (`BulkPay`) | `bulk-pay/page.tsx:469` | polling ends at the first status that is not PENDING, NOT_FOUND and FAILED included |
| `LiveCardsCanAct` (`Dashboard`) | `api/escrows/route.ts:7-8`: the list works with the existing dashboard | the list speaks of payment states, the cards of statuses of their own: a live card has no button |
| `NobodyTwiceByMistake` (`ChainVerifier`) | `chain-verifier.ts:316-321`: scoping to the transaction makes the duplicate check precise | without a recorded hash the transaction is inferred from a transfer of the same payee and amount, which may be another payroll's; if that one pays the person twice, this payment is reported as paid twice |
| `DisclosedIsStored` (`FundingBridge`) | `FundingPanel.tsx:9-11`: the frozen plan is rendered verbatim | the plan is made anew for whoever asks; a second member sees, and signs, one with another manager |

And others the models contradict:
- an escrow claimed in the middle of a pass has later events projected before the replayed
  earlier ones (`Deterministic` with `ClaimFirst = FALSE`); `docs/RECONCILIATION.md:223`;
- two passes can both apply one event, since the marker is upserted, where
  `src/lib/indexer/index.ts:717-719` expects the unique constraint to reject the second;
- with passes before the claim (`ClaimFirst = FALSE`) a refund need not show at first: the
  cancellation finds the payment VALIDATING, is refused, and the backlog then takes the payment to
  AWAITING_ORACLE, where it stays until the reconciler corrects it;
- a rotation moves payments by `updateMany` along edges the transition table does not have;
- a reconciler beaten by the indexer to PAID reports CHAIN_PAID_DB_NOT about a PAID payment;
- a rejection over somebody's approval keeps that person's address;
- after a rotation that follows an approval, no proof can be submitted again
  (`AlreadyApproved`), so the escrow can only be refunded; `docs/ORACLE.md:109-111`;
- an attempt the reconciler finds falsely failed becomes CONFIRMED without an escrow being
  linked, and the panel shows the batch as funded; only a tab that was still verifying links it.

## 5. Proofs

`CoreFlowContractProofs` proves of `CoreFlowContract`, for any accounts, tokens, keys,
batches and limits:
- `TypeCorrect`: `TypeOK`, which is inductive;
- `DualControl`: `SettledUnderDualControl`. It says nothing of an escrow that is approved and
  not yet settled, so it is not inductive; `ControlInv` adds who signed what, that the two
  roles are distinct, and what a cancelled escrow looks like;
- `Closed`: the action property `ClosedForGood`, from the same invariant;
- `PauseStops` and `RegistryGoverns`: while paused an escrow can only be refunded, and once there
  is an admin a key is taken only if it is registered at that moment;
- `CurrentProofs`: `ProofsAreCurrent`, inductive with `TypeOK`: a standing proof has an accepted
  attestation under the present key since the last rotation;
- `NoReplay`: `AcceptedOnce`, with the nonces as the bound on what was accepted;
- `CustodyImplemented`: the initial states and every step map to `EscrowCustody`'s or stutter;
- `BalancesAreExplained`: `BalancesExplained`, proved on the custody the contract stands for
  (`Explained`): a step of `EscrowCustody` changes one term of each sum, by as much as the balance.
  `SumUpdated` of `NaturalLemmas` says what that does to a sum;
- `DepositsAreCovered`: what an open escrow deposited is in custody, since every row that was funded
  is positive (`RowsPositive`) and no deposit is more than all together (`SumCovers`);
- `RefundsGoThrough`: `RefundAlwaysAvailable`, that nothing `cancel_escrow` asks for
  (`Refundable`, the guard of the action) fails for an open escrow. Custody has the deposit, by the
  theorem before. That the manager's balance has room for it needs to know how much of a token there
  is, which the code leaves to the token: the theorem assumes `SupplyFits`, that there are finitely
  many accounts and of no token more than one balance can hold. `SupplyKept` says that no
  call changes how much there is: a deposit and a refund move one amount between two balances
  (`SumMoved`), and a payout does so row by row (`RowMoves`, `PayOutKeeps`); so no balance is ever
  above the supply.

They assume `ContractAssumption` and `ClientRow`: a batch is what the client library sends
(`src/lib/contracts.ts:305-316`), rows Pending with no hours and no proof, since the
contract stores the rows it is given. The admin, where there is one, is pinned
at build time.

`MarketplaceHoldProofs` proves of `MarketplaceHold`, for any traders, coins, issuers and claims:
- `HoldTyped`: the types of the contract and of the library in it;
- `ClaimsReleaseOnce`: no claim releases two holds (`ReleasedOnce`), and the step that releases one
  spends a claim about its order that is signed by an issuer trusted in that step
  (`ReleasesAreTrusted`). The library remembers nonces by issuer, type and order, and identifiers by
  issuer, so what was spent has to be tied to what is remembered: `HInv` says that every spent claim
  is used up (`Spending`) and that holds are numbered in order (`Numbered`); registering, revoking and
  rotating keys touch neither. That keys are trusted is the guard of `VerifyClaim`; without it
  the property, the theorem and `ImplementsPromise` fail;
- `HeldIsAlwaysThere`: `HeldIsThere`, as opening, releasing and refunding change what one hold holds
  (`Held`) and the vault's balance alike;
- `HoldImplementsPromise`: with `HInv`, opening is a strike of the promise, a release the redemption
  of one voucher of a recognized issuer, a refund a taking back, and everything else an issue, a
  change of who is recognized, or time.

`FundingBridgeProofs` proves of `FundingBridge`, for any payments, tabs, wallets, members,
transactions and number of attempts: `FundingTyped`; `OneInFlight`; `ConfirmedFunded`;
`AdoptedPlanned`. That one attempt is in flight does not follow from itself, because
`openFundingIntent` looks, then writes. The invariant says what a request may still rely on by the
time it writes (`Relying`): one about to open attempt n has either seen that none is in flight
and n is new, or n is taken and the unique key will say so. `Serial` (attempts are numbered without
gaps) makes "n is taken" and "n is not beyond the latest" the same. For adoption it ties the
transaction a tab has resolved to the attempt it is going to link (`Executed`), and `Unrecorded`
says that a hash, once recorded, is not replaced. That the server finds a finance approver
whenever it says that there is one is a lemma: candidates are finite or not, the least role and
the first to join exist (`NaturalLemmas`).

`PaymentActionsProofs` proves of `PaymentActions`, for any members, payments, keys and requests:
`ActionsTyped`; `KeysNameAttempts`; `AttemptsAreSubmitted`; `HalvesApart`. `Knowing` says of a
request, by the statement it is at, what its earlier reads still guarantee: a swap to come is one
the table permits from the state read, an attempt to come belongs to a payment that is SUBMITTING
or PAID, since nobody who shares the database leads out of SUBMITTING but to PAID
(`OutOfSubmitting`, from the table), and the count of attempts that was read is not above the
present one.

`SettlementProofs` proves of `Settlement`, for any rows, passes, failures, roles and whichever
of `ClaimFirst` and `OwnPayments`:
- `SettlementTyped`, `TypeOK` included;
- `PaidWasSettled` and `ReadyWasApproved`: a payment's state says something of the log (`Telling`).
  It holds since events are applied only if they are logged, and because users, the
  indexer and the reconciler write only along the table's edges out of the state they read;
- `AlarmsAreEarnest`: the reconciler read rows before the contract (`Auditing`), so a PAID it read
  was settled when the contract was read, and a payment the indexer read as PAID
  still is (`Seen`), while the contract does not refund what it paid (`LogSound`);
- `SettlementShows`: each applied payment event left a PAID row or a finding (`Shown`), at any
  moment of the projection and not only when it has caught up;
- `TerminalForGood`, an action property, under which the indexer's writes by `updateMany` fall too.
These hold with two transactions per ledger and short pages as well: what such pages lose
is liveness and completeness, not safety. Three more hold under restrictions, which are their
hypotheses:
- `VerifiedUnderPresentKey` assumes `OnePass`: passes do not overlap and begin after the claim.
  Two that overlap can apply a proof again after the rotation that revoked it, and the events of an
  escrow that was not claimed are applied from the backlog, after later ones. Users and the
  reconciliation may do what they like, there may be any number of failures and crashes, and pages
  end anywhere: an event that was passed over (`Lost`) is never applied, so the projection is never
  caught up again. Otherwise events are applied in the order of the log (`Ordered`), because a
  page goes on where the cursor is (`InTurn`) and nobody applies the event a pass is at (`Alone`);
  and a payment shown as verified holds a proof applied after the last rotation that was (`HoldsProof`);
- `RefundShows` assumes `OnePass` and no more: users of any roles act and reconciliations run at any
  point. Once the log is projected a refunded payment is CANCELLED, REJECTED by a user, or in
  SUBMITTING, the one state from which the table lets nobody cancel (`settlement_submitted`). Users
  and the reconciliation, between a pass's read and its write too (`Fresh`), take payments
  only to an end or into SUBMITTING (`Decided`), since nothing is ever SUBMISSION_FAILED
  (`Says`); the indexer cancels from every other state a created payment is in (`Reached`); what is
  refunded was not paid (`LogSound`), so what got to such a state stays in one (`Gone`);
- `ProjectionFollowsLog` assumes besides that no user acts (`Unused`) and nobody reconciles: `Deterministic` says that payments
  are what the log makes of them, which a correction is not. A history of the projection, one state for
  each event applied, is kept by each step (`CaughtUpTo`, `Retells`), and what a pass read is
  still what it will find (`Matches`); that `Replayed`, a recursive function over the log, is the end of
  that history is shown by the least event at which they differ (`RetoldIsReplayed`).

`AccessProofs` proves of `Membership`, for any users, addresses and requests: `MembersTyped`;
`NoSeatUninvited`, where the seats taken have to be counted together with those
an unused invitation may still open (`Spent`), and an invitation being accepted is held by one
request alone (`AllFit`); and `OwnershipNotMinted`. Of `Auth`, for any wallets and tabs:
`SignInTyped`; `ChallengesAreSpentOnce`: whoever is past the check of a challenge is alone with
it, and no session came from it yet (`AllRight`).

`OfficeProofs` proves of `PayrollBatches`, for any files, keys, references and uploads:
`UploadsTyped`; `OwnBatch`, where `OnCourse` is what each request knows of the batch it found or
made; `TwinsAreTold`, where of two uploads the later batch's one must have seen the earlier or it
must have aged (`Told`). Of `ChainVerifier`, for any payrolls and limits: `SettledConfirmed`, from
`Transferred`, which says only that what the contract paid stands in its ledger; the rest is a chain
of lemmas about the operators, from what a window reads to what is inferred and counted.
Of `ReconciliationRuns`, for any workers, operators and runs that overlap: `RunsTyped`;
`NoRepetitions` (`RunsDoNotRepeat`), whatever the indexer opens in between: a worker about to open a
finding found none of a run's that stands, or some run was taken for dead while it lived (`Looked`), because one row is RUNNING at most and whoever works
outside it is marked slow (`OneRunning`, `OwnRow`).
Of `BulkPay`, for any callers, accounts and transactions sent: `BadgesReflect`. What the page shows
was on chain when it was read; that it stands needs that whatever is called, being signed, on its
way or still to be submitted is one of the calls the page makes (`Calling`, `Submitting`), none of
which takes a signature back when the contract accepts it, however late. `ClientAssumption` says
that the escrow there is at first is an escrow record.

Of `BatchPage`, for any lines, approvers and roles: `HeadlinesAreHonest`. What the page
shows is what it loads, so the invariant is only that payments and decisions are of their kinds and
every decision is somebody's (`PInv`); what the roll-up makes of any states (`HeadlineIs`) is a
lemma about `PROGRESS_ORDER` and `First`, by the least place at which a state stands.
Of `PayrollCsv`, for any rows, headers and limits: `FilesAreJustified`. A file of which rows are read is
read by the last branch of `ParsePayrollCsv` (`ParsedIs`), whose payments are of the rows that
are right, in their order (`Nth`); if no line is refused these are all rows, and a row that is right
has what the property asks for (`PaymentSays`). Of another file the lines named are those of the other rows
(`LinesNamed`), as many as there are (`LinesAreCounted`). `RowChoicesAssumption` says that
the cells of money are among those that `MoneyIssue` and `Units` tell apart.

The proofs of these modules assume nothing beyond the hypotheses named above and the named assumptions of the modules
(`FundingAssumption`, `ActionsAssumption` and so on), which say what kinds of values the constants
are and which TLC evaluates on the instances. The theorems are about each component's own
specification; `MCAccess` and `MCOffice` only put several of these side by side.

`NaturalLemmas` has what these share: least and greatest numbers, and sums. `SumFunctionOnSet` is
a recursive function the library only chooses. That there is one is shown by taking the smallest
size of subset without (`SomeSums`), that the order does not matter by a smallest subset for which
it does (`SumTakesOut`), so no induction theorem has to be instantiated. From these: a sum changes by
what one term changes by, and is not less than any of its terms when these are natural numbers.

Only model-checked, and why:
- `EventuallyApplied`: liveness, which TLAPS cannot do here;
- `ReadsBack`: what two readers make of a text of any length and of its export, by induction over
  folds of both, which the library's theorems cannot be instantiated for. The least
  counterexample that serves elsewhere would need an invariant of a reader in the middle of a text;
- `MCAccess!TypeOK` and `MCOffice!TypeOK`: the conjunction of the type invariants of components that
  stand side by side in a run. What the theorems need of it is proved of each component they are
  about, in its own words (`UTyped`, `PInv`, `RunsTyped` and so on); `Dashboard` has no theorem.

## 6. Not modelled

- Storage time-to-live and archival of contract entries, fees, authorisation trees (a call is
  made by the account it requires).
- Indexer: amount and recipient findings, audit rows, batches and workers it creates, the
  look-back of 1000 ledgers and the network's event retention.
- Reconciler: identity and amount checks, unattributed escrows.
- Funding: plan digest, amounts and periods, the roles of those who ask, the older
  `POST /api/escrows`.
- Payroll: length and control-character checks, worker links, projects, warnings.
- Membership: reading routes, projects and workers. Authentication: `POST /api/admin/roles`, the
  audit log. Dashboard: feed, savings, counters. Oracle: key management, rate limits.
- The components listed `not_modelled` in `PROJECT.json`: the superseded reconciliation, the SDK's
  stateless encoders, the workbench, presentation without state, infrastructure.

## 7. What could follow

1. Proofs: `ReadsBack`, from an invariant of the reader after each character.
2. The workbench's verification page, which shows a report beside the fields it is drawn from
   after these were edited.
3. The indexer's amount and recipient findings and the look-back window.
4. One composition of FundingBridge with Indexer, where the linking of an escrow by `created` races
   the verification.
