---------------------------- MODULE FundingBridge ----------------------------
(***************************************************************************)
(* Funding one payroll batch: lib/funding/service.ts and eligibility.ts on *)
(* the server, components/funding/FundingPanel.tsx in the tabs.            *)
(*                                                                         *)
(* The contract creates an escrow for every transaction it is sent and     *)
(* takes its deposit there and then.  Against a second one stands only the *)
(* funding attempt, whose key the database keeps unique.  A plan is what   *)
(* differs in: the wallet that asks, its manager; a transaction goes by    *)
(* its hash, and so does the escrow it created.                            *)
(*                                                                         *)
(* What a request reads before its transaction is read in one step.        *)
(***************************************************************************)
EXTENDS PaymentStates, Naturals

CONSTANTS
  Payments,     \* of the batch
  Tabs,         \* open funding panels
  Wallets,      \* of members who may fund
  WalletOf,     \* the wallet connected in each tab
  Members,      \* active members in the order they joined: wallet and role
  Hashes,       \* transactions that can be made
  NoHash,
  AttemptLimit  \* bound on the attempts

ASSUME FundingAssumption ==
  /\ WalletOf \in [Tabs -> Wallets]
  /\ \A m \in DOMAIN Members : m \in Nat /\ Members[m] \in [wallet : Wallets, role : OrgRole]
  /\ NoHash \notin Hashes \union Wallets
  /\ AttemptLimit \in Nat \ {0}

VARIABLES
  payments, \* state of each payment
  linked,   \* the escrow each payment is a slot of
  attempts, \* BlockchainTransaction rows of kind INITIALIZE_ESCROW
  network,  \* each transaction: the plan it was made from, and what became of it
  tabs,     \* what each tab is doing, or its request on the server
  findings  \* transactions reported as not matching the plan

fundingVars == <<payments, linked, attempts, network, tabs, findings>>

IN_FLIGHT == {"AWAITING_SIGNATURE", "SUBMITTED"}
TxStatus == IN_FLIGHT \union {"CONFIRMED", "FAILED", "CANCELLED"}
NoPlan == NoHash

\* Both halves of the approval need a wallet of their own.  The other one is
\* chosen by the server: who is FINANCE, then the owner, then administrators,
\* and among equals who joined first.
Priority == [FINANCE |-> 0, OWNER |-> 1, ADMIN |-> 2]
Precedes(m, n) ==
  LET rank(i) == Priority[Members[i].role] IN
  rank(m) < rank(n) \/ (rank(m) = rank(n) /\ m <= n)
Candidates(wallet) ==
  {m \in DOMAIN Members : Members[m].role \in DOMAIN Priority /\ Members[m].wallet # wallet}
HasApprover(wallet) == Candidates(wallet) # {}
FinanceApprover(wallet) ==
  Members[CHOOSE m \in Candidates(wallet) : \A n \in Candidates(wallet) : Precedes(m, n)].wallet

\* The plan for the wallet that asks.  The payments, the asset and the network
\* are the same for everybody.
Plan(t) == [manager |-> WalletOf[t], finance |-> FinanceApprover(WalletOf[t])]
Plans == [manager : Wallets, finance : Wallets]
\* An attempt keeps a copy of the plan that nothing changes: its digest would
\* tell.  A request is answered with a plan made anew.
Attempt == [attempt : Nat, status : TxStatus, hash : Hashes \union {NoHash},
            plan : Plans, linked : BOOLEAN]

\* A tab: its phase, the attempt it holds, the plan it shows, the transaction
\* it signed, and what its request concluded from what it read.
NewTab == [phase |-> "load", attempt |-> 0, plan |-> NoPlan, hash |-> NoHash, read |-> NoHash]
In(t, phase) == tabs[t].phase = phase
Goes(t, phase) == tabs' = [tabs EXCEPT ![t].phase = phase]
Holds(t, phase, n, plan) ==
  tabs' = [tabs EXCEPT ![t] = [NewTab EXCEPT !.phase = phase, !.attempt = n, !.plan = plan]]
Reloads(t) == tabs' = [tabs EXCEPT ![t] = NewTab]

FundingInit ==
  /\ payments = [p \in Payments |-> "DRAFT"]
  /\ linked = [p \in Payments |-> NoHash]
  /\ attempts = {}
  /\ network = [h \in Hashes |-> [status |-> "unsent"]]
  /\ tabs = [t \in Tabs |-> NewTab]
  /\ findings = {}

------------------------------------------------------------------------------
\* Eligibility.

\* Mutant: numbers skip one.
SkipOne(n) == n + 2
NextAttempt(n) == n + 1

\* No attempt has a later number; 0 where there is none.
LatestNumber == Cardinality({a.attempt : a \in attempts})
Latest == CHOOSE a \in attempts : a.attempt = LatestNumber
Numbered(n) == CHOOSE a \in attempts : a.attempt = n
LatestIn(statuses) == attempts # {} /\ Latest.status \in statuses

Fundable(p) == payments[p] \in {"DRAFT", "VALIDATING"} /\ linked[p] = NoHash

\* The batch can be funded, apart from an attempt in flight; a new attempt can
\* be opened.
PlanReady(t) ==
  /\ \A p \in Payments : Fundable(p)
  /\ ~LatestIn({"CONFIRMED"})
  /\ HasApprover(WalletOf[t])
Eligible(t) == PlanReady(t) /\ ~LatestIn(IN_FLIGHT)

------------------------------------------------------------------------------
\* The panel.

\* It loads the state of the batch and takes up the attempt there is.  A batch
\* that is funded or blocked leaves nothing to press.
Load(t) ==
  /\ In(t, "load")
  /\ CASE LatestIn({"SUBMITTED"}) -> Holds(t, "verifying", LatestNumber, NoPlan)
       [] LatestIn({"AWAITING_SIGNATURE"}) /\ PlanReady(t) -> Holds(t, "disclosing", LatestNumber, Plan(t))
       [] Eligible(t) -> Goes(t, "ready")
       [] OTHER -> FALSE
  /\ UNCHANGED <<payments, linked, attempts, network, findings>>

\* Nothing is in a tab's way of being closed and opened again, whatever it
\* waits for.  (What its request does on the server others do as well.)
Reload(t) ==
  /\ ~In(t, "load")
  /\ Reloads(t)
  /\ UNCHANGED <<payments, linked, attempts, network, findings>>

\* What the contract is called with: the plan, and nothing else.
Sent(plan) == [status |-> "pending", plan |-> plan]

\* signAndSubmit, up to the answer of the network: the wallet signs the plan
\* that is shown, and the network takes the transaction.
Sign(t, h) ==
  /\ In(t, "disclosing")
  /\ network[h].status = "unsent"
  /\ network' = [network EXCEPT ![h] = Sent(tabs[t].plan)]
  /\ tabs' = [tabs EXCEPT ![t].phase = "submitted", ![t].hash = h, ![t].plan = NoPlan]
  /\ UNCHANGED <<payments, linked, attempts, findings>>

\* What fails before that throws: "Try again".  What the network did not take
\* is verified, like everything else.
SignFails(t) ==
  /\ In(t, "disclosing")
  /\ \/ Holds(t, "ready", 0, NoPlan)
     \/ Holds(t, "verifying", tabs[t].attempt, NoPlan)
  /\ UNCHANGED <<payments, linked, attempts, network, findings>>

\* Polling ends with a status, and verification follows; or it gives up and
\* throws.  The handler then looks for the hash in the render it began in,
\* where there was none: "Try again" again.
AfterPolling(t) ==
  \/ Holds(t, "verifying", tabs[t].attempt, NoPlan)
  \/ tabs' = [tabs EXCEPT ![t].phase = "ready", ![t].attempt = 0]

------------------------------------------------------------------------------
\* openFundingIntent.

\* The panel takes the attempt that is in flight up where it stands.
TakesUp(t, plan) ==
  IF Latest.status = "SUBMITTED" THEN Holds(t, "verifying", LatestNumber, NoPlan)
                                 ELSE Holds(t, "disclosing", LatestNumber, plan)

\* An attempt in flight is the answer; otherwise the batch must be eligible.
FindIntent(t) ==
  /\ In(t, "ready")
  /\ CASE LatestIn(IN_FLIGHT) /\ PlanReady(t) -> TakesUp(t, Plan(t))
       [] Eligible(t) -> LatestNumber < AttemptLimit /\ Holds(t, "opening", NextAttempt(LatestNumber), Plan(t))
       [] OTHER -> Reloads(t)
  /\ UNCHANGED <<payments, linked, attempts, network, findings>>

\* Mutant: keys are not unique.
NeverTaken(n) == FALSE
\* fundingIdempotencyKey(batch, n) exists.
Taken(n) == \E a \in attempts : a.attempt = n

\* The plan is frozen and the payments leave DRAFT.  A key taken by now is an
\* attempt another request opened, and the latest is the answer.
OpenIntent(t) ==
  LET n == tabs[t].attempt IN
  /\ In(t, "opening")
  /\ IF Taken(n)
     THEN /\ TakesUp(t, tabs[t].plan)
          /\ UNCHANGED <<payments, attempts>>
     ELSE /\ attempts' = attempts \union
               {[attempt |-> n, status |-> "AWAITING_SIGNATURE", hash |-> NoHash,
                 plan |-> tabs[t].plan, linked |-> FALSE]}
          /\ payments' = [p \in Payments |-> IF payments[p] = "DRAFT" THEN "VALIDATING" ELSE payments[p]]
          /\ Goes(t, "disclosing")
  /\ UNCHANGED <<linked, network, findings>>

------------------------------------------------------------------------------
\* recordFundingSubmitted, failFundingIntent and markFailed.

\* The row a WHERE clause selects by its id is updated to b.
Update(a, b) == attempts' = (attempts \ {a}) \union {b}

AwaitsHash(a) == a.status = "AWAITING_SIGNATURE"

\* The client of the contract swallows what goes wrong with the recording: the
\* request may be lost.
RecordSubmitted(t) ==
  LET a == Numbered(tabs[t].attempt) IN
  /\ In(t, "submitted")
  /\ \/ AwaitsHash(a) /\ Update(a, [a EXCEPT !.status = "SUBMITTED", !.hash = tabs[t].hash])
     \/ UNCHANGED attempts
  /\ AfterPolling(t)
  /\ UNCHANGED <<payments, linked, network, findings>>

\* "Back", or a declined signature.
GivesUp(t) == In(t, "disclosing")

\* What is confirmed is not abandoned, and
\* what has a hash does not take the payments back.
FindAbandoned(t) ==
  LET a == Numbered(tabs[t].attempt) IN
  /\ GivesUp(t)
  /\ IF a.status = "CONFIRMED" THEN Reloads(t)
     ELSE tabs' = [tabs EXCEPT ![t].phase = "abandoning", ![t].read = a.hash, ![t].plan = NoPlan]
  /\ UNCHANGED <<payments, linked, attempts, network, findings>>

BackToDraft ==
  payments' = [p \in Payments |-> IF payments[p] = "VALIDATING" THEN "DRAFT" ELSE payments[p]]

\* The panel calls it declined; a caller may call it failed.
Abandon(t) ==
  LET a == Numbered(tabs[t].attempt) IN
  /\ In(t, "abandoning")
  /\ \E status \in {"CANCELLED", "FAILED"} : Update(a, [a EXCEPT !.status = status])
  /\ IF tabs[t].read = NoHash THEN BackToDraft ELSE UNCHANGED payments
  /\ Reloads(t)
  /\ UNCHANGED <<linked, network, findings>>

MarkFailed(t) ==
  LET a == Numbered(tabs[t].attempt) IN
  /\ In(t, "failing")
  /\ Update(a, [a EXCEPT !.status = "FAILED"])
  /\ BackToDraft
  /\ Reloads(t)
  /\ UNCHANGED <<linked, network, findings>>

------------------------------------------------------------------------------
\* confirmFunding.

\* Mutant: a transaction that is not known to have failed has succeeded.
NotFailed(h) == network[h].status \in {"pending", "success"}
Succeeded(h) == network[h].status = "success"

\* The escrow that was created is the one that was planned.
AsPlanned(a) == network[a.hash].plan = a.plan

\* Mutant: the events are not those of the transaction.
AnyEscrow(h) == {g \in Hashes : Succeeded(g)}
\* Those the `created` events of the transaction name: it makes one call.
CreatedBy(h) == {g \in {h} : Succeeded(g)}
\* The escrow a transaction created, by the indexer or by the network, each of
\* which may not have it yet.  Of several none is taken.
EscrowsOf(h) == IF Cardinality(CreatedBy(h)) = 1 THEN CreatedBy(h) ELSE {}

\* The payment into custody came from the manager of the plan.
CustodyMoved(a) == network[a.hash].plan.manager = a.plan.manager

\* An escrow that is not the planned one is reported, and not adopted.
ReportMismatch(t, h) == findings' = findings \union {h} /\ Reloads(t)

\* The panel asks when it arrives at a transaction, and again on demand.
\* Without a hash there is nothing to verify: the request is refused and the
\* panel stays where it is.
Asks(t) == In(t, "verifying") /\ Numbered(tabs[t].attempt).hash # NoHash

\* What cannot be read, or was not found yet, and an escrow that is not the one
\* this tab was told of, leave the attempt as it is.
Verify(t) ==
  LET a == Numbered(tabs[t].attempt) IN
  /\ Asks(t)
  /\ \/ Reloads(t) /\ UNCHANGED findings
     \/ /\ ~(a.status = "CONFIRMED" /\ a.linked)
        /\ \/ network[a.hash].status = "failed" /\ Goes(t, "failing") /\ UNCHANGED findings
           \/ \E h \in EscrowsOf(a.hash) :
                IF AsPlanned(a)
                THEN /\ CustodyMoved(a)
                     /\ tabs' = [tabs EXCEPT ![t].phase = "linking", ![t].read = h]
                     /\ UNCHANGED findings
                ELSE ReportMismatch(t, h)
  /\ UNCHANGED <<payments, linked, attempts, network>>

\* The Escrow row, the slots of the payments and the attempt, all at once.
Link(t) ==
  LET a == Numbered(tabs[t].attempt) IN
  /\ In(t, "linking")
  /\ linked' = [p \in Payments |-> tabs[t].read]
  /\ Update(a, [a EXCEPT !.status = "CONFIRMED", !.linked = TRUE])
  /\ Reloads(t)
  /\ UNCHANGED <<payments, network, findings>>

------------------------------------------------------------------------------
\* The network decides, or never does.
Settle(h) ==
  /\ network[h].status = "pending"
  /\ \E outcome \in {"success", "failed"} : network' = [network EXCEPT ![h].status = outcome]
  /\ UNCHANGED <<payments, linked, attempts, tabs, findings>>

FalselyFailed(a) == a.status = "FAILED" /\ a.hash # NoHash /\ Succeeded(a.hash)

\* reconcileFailedTransactions: what was given up and did succeed is confirmed.
\* It is not linked: verification has to follow.
ConfirmFailed ==
  /\ \E a \in attempts : FalselyFailed(a) /\ Update(a, [a EXCEPT !.status = "CONFIRMED"])
  /\ UNCHANGED <<payments, linked, network, tabs, findings>>

\* An owner withdraws a payment; the indexer sees its slot added.
Withdraw(p) ==
  /\ \E s \in {"CANCELLED", "REJECTED"} :
       /\ Permitted(payments[p], s, User("OWNER"))
       /\ payments' = [payments EXCEPT ![p] = s]
  /\ UNCHANGED <<linked, attempts, network, tabs, findings>>

Observe(p) ==
  /\ linked[p] # NoHash /\ payments[p] = "VALIDATING"
  /\ payments' = [payments EXCEPT ![p] = "AWAITING_ORACLE"]
  /\ UNCHANGED <<linked, attempts, network, tabs, findings>>

FundingNext ==
  \/ \E t \in Tabs :
       \/ Load(t) \/ Reload(t) \/ SignFails(t) \/ (\E h \in Hashes : Sign(t, h))
       \/ FindIntent(t) \/ OpenIntent(t) \/ RecordSubmitted(t)
       \/ FindAbandoned(t) \/ Abandon(t)
       \/ Verify(t) \/ MarkFailed(t) \/ Link(t)
  \/ \E h \in Hashes : Settle(h)
  \/ ConfirmFailed
  \/ \E p \in Payments : Withdraw(p) \/ Observe(p)

FundingSpec == FundingInit /\ [][FundingNext]_fundingVars

------------------------------------------------------------------------------
\* Properties.

FundingTypeOK ==
  /\ payments \in [Payments -> PaymentState]
  /\ linked \in [Payments -> Hashes \union {NoHash}]
  /\ attempts \subseteq Attempt
  /\ {a.attempt : a \in attempts} = 1 .. Cardinality(attempts)
  /\ findings \subseteq Hashes
  /\ \A t \in Tabs : /\ tabs[t].attempt \in 0 .. AttemptLimit
                     /\ {tabs[t].hash, tabs[t].read} \subseteq Hashes \union {NoHash}
                     /\ tabs[t].plan \in Plans \union {NoPlan}

\* "Two attempts would fund two escrows": whatever requests interleave, one
\* attempt is in flight at most, and it is the latest.
OneAttemptInFlight ==
  \A a \in attempts : a.status \in IN_FLIGHT => a.attempt = Cardinality(attempts)

\* CONFIRMED says that the network executed the transaction that was recorded.
ConfirmedIsFunded ==
  \A a \in attempts : a.status = "CONFIRMED" => a.hash # NoHash /\ Succeeded(a.hash)

\* An escrow is adopted only if it was created by a transaction recorded for
\* this batch, signed as its frozen plan says, whoever asked for it; and it is
\* the escrow of the whole batch.
AdoptedIsPlanned ==
  \A p, q \in Payments :
    /\ linked[p] = linked[q]
    /\ linked[p] # NoHash =>
         \E a \in attempts : /\ a.hash = linked[p] /\ a.linked
                             /\ Succeeded(a.hash) /\ network[a.hash].plan = a.plan

\* "An uncertain transaction must never invite a second one": a panel that had a
\* transaction accepted offers no other while that one may succeed.
Offers(t) == In(t, "ready") \/ In(t, "disclosing")
UncertainInvitesNothing ==
  \A t \in Tabs : Offers(t) /\ tabs[t].hash # NoHash => network[tabs[t].hash].status = "failed"

\* "Rendered from the frozen plan": what is shown and signed is what the
\* attempt keeps.  It is not: the plan is made anew for whoever asks.
DisclosedIsStored ==
  \A t \in Tabs : In(t, "disclosing") => tabs[t].plan = Numbered(tabs[t].attempt).plan

\* "Double-click, refresh, two tabs and a client retry all converge on one
\* escrow": the batch is not paid into custody twice.
OneEscrow ==
  \A g, h \in Hashes : Succeeded(g) /\ Succeeded(h) => g = h

\* lib/funding/service.ts:699: an attempt "already confirmed on-chain ... cannot
\* be abandoned": whose escrow is linked, it stands as CONFIRMED.
LinkedIsConfirmed == \A a \in attempts : a.linked => a.status = "CONFIRMED"
==============================================================================
