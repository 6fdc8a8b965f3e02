------------------------------ MODULE Settlement ------------------------------
(***************************************************************************)
(* A payment from funding to settlement: the contract's log, the indexer,  *)
(* the people who act on payments (lib/payments/actions.ts) and the        *)
(* reconciler (lib/reconciliation/reconciler.ts), all on one database.     *)
(***************************************************************************)
EXTENDS Indexer, SequencesExt

CONSTANTS
  Roles,      \* the roles of the users who act
  Reconciling \* a reconciliation may run

VARIABLES
  request, \* a user's request: the state it read, and where it wants to go
  audit    \* the reconciler: the rows it read, and those it has yet to compare

appVars == <<request, audit>>
vars == <<logVars, indexerVars, appVars>>

NoRequest == [row |-> NoRow]
Requests == [row : Rows, was : PaymentState, to : PaymentState, role : Roles]
NoAudit == [left |-> {}, rows |-> <<>>, chain |-> "unread", at |-> NoRow, was |-> NoPayment]
Comparing == [NoAudit EXCEPT !.left = Rows, !.rows = payments]

Init ==
  /\ LogInit /\ IndexerInit
  /\ request = NoRequest
  /\ audit = NoAudit

------------------------------------------------------------------------------
\* What the actions ask for: rejectPayment, cancelPayment,
\* submitPaymentForSettlement and retryPayment.
Wanted == {"REJECTED", "CANCELLED", "SUBMITTING", "READY_TO_SETTLE"}

\* transitionPayment reads the payment and checks the transition ...
Request(r, to, role) ==
  /\ request = NoRequest
  /\ payments[r] # NoPayment
  /\ Permitted(payments[r], to, User(role))
  /\ request' = [row |-> r, was |-> payments[r], to |-> to, role |-> role]
  /\ UNCHANGED <<logVars, indexerVars, audit>>

\* ... and swaps the state it read for the new one, or answers 409.
Swap ==
  /\ request # NoRequest
  /\ payments' = IF Swapped(request.was, request.to, User(request.role), payments[request.row])
                 THEN [payments EXCEPT ![request.row] = request.to] ELSE payments
  /\ request' = NoRequest
  /\ UNCHANGED <<logVars, claimed, flags, findings, marks, cursor, passes, failures, audit>>

------------------------------------------------------------------------------
\* reconcileOrganization over this escrow: it reads the rows, then the
\* contract, then compares row by row.

ReadRows ==
  /\ Reconciling /\ claimed
  /\ audit = NoAudit
  /\ audit' = Comparing
  /\ UNCHANGED <<logVars, indexerVars, request>>

\* Mutant: an approved escrow is taken for a settled one.
ChainViewByApproval ==
  IF Logged("manager_approved") /\ Logged("finance_approved") THEN "settled"
  ELSE IF Logged("cancelled") THEN "cancelled" ELSE "open"
\* What the contract answers.
ReadEscrow == [paid |-> Logged("finalized"), cancelled |-> Logged("cancelled")]
ChainView ==
  IF ReadEscrow.paid THEN "settled"
  ELSE IF ReadEscrow.cancelled THEN "cancelled" ELSE "open"

\* An unreadable escrow is a finding and nothing else.
ReadChain ==
  /\ audit.chain = "unread" /\ audit # NoAudit
  /\ \/ /\ audit' = [audit EXCEPT !.chain = ChainView]
        /\ UNCHANGED findings
     \/ /\ audit' = NoAudit
        /\ findings' = findings \union {<<"CHAIN_UNREADABLE", NoRow>>}
  /\ UNCHANGED <<logVars, claimed, flags, payments, marks, cursor, passes, failures, request>>

\* Mutant: the rows are read after the contract.
RowNow(r) == payments[r]
Row(r) == audit.rows[r]

\* What the comparison of a row asks applyTransition for, where it does.
Target == IF audit.chain = "settled" THEN "PAID" ELSE "CANCELLED"
Corrigible(r) ==
  /\ audit.chain \in {"settled", "cancelled"}
  /\ Row(r) \notin {NoPayment, "PAID", Target}

Compared(r) == audit' = IF audit.left = {r} THEN NoAudit
                        ELSE [audit EXCEPT !.left = @ \ {r}, !.at = NoRow, !.was = NoPayment]

\* Nothing to correct: a contract slot without a row, or a PAID the contract
\* does not know of, is reported.
Compare(r) ==
  /\ audit.chain # "unread" /\ r \in audit.left /\ audit.at = NoRow
  /\ ~Corrigible(r)
  /\ findings' = findings \union
       (IF Row(r) = NoPayment THEN {<<"ORPHAN_ON_CHAIN", r>>}
        ELSE IF Row(r) = "PAID" /\ audit.chain # "settled"
             THEN {<<"DB_PAID_CHAIN_NOT", r>>} ELSE {})
  /\ Compared(r)
  /\ UNCHANGED <<logVars, claimed, flags, payments, marks, cursor, passes, failures, request>>

\* A settlement that no transfer confirms is reported and not recorded.  (The
\* finding is MISSING_PAYMENT_EVENT where the transfers could be read.)
Unconfirmed(r) ==
  /\ audit.chain = "settled" /\ r \in audit.left /\ audit.at = NoRow
  /\ Row(r) # NoPayment
  /\ findings' = findings \union {<<"CHAIN_UNREADABLE", r>>}
  /\ Compared(r)
  /\ UNCHANGED <<logVars, claimed, flags, payments, marks, cursor, passes, failures, request>>

\* applyTransition reads the payment ...
Consult(r) ==
  /\ audit.chain # "unread" /\ r \in audit.left /\ audit.at = NoRow
  /\ Corrigible(r)
  /\ audit' = [audit EXCEPT !.at = r, !.was = payments[r]]
  /\ UNCHANGED <<logVars, indexerVars, request>>

\* ... and swaps.  A PAID it did not itself write is reported, a cancellation
\* it could not write is not.
Correct ==
  LET r == audit.at
      done == Swapped(audit.was, Target, Reconciler, payments[r])
  IN
  /\ r # NoRow
  /\ payments' = IF done THEN [payments EXCEPT ![r] = Target] ELSE payments
  /\ findings' = IF ~done /\ Target = "PAID" THEN findings \union {<<"CHAIN_PAID_DB_NOT", r>>}
                 ELSE findings
  /\ Compared(r)
  /\ UNCHANGED <<logVars, claimed, flags, marks, cursor, passes, failures, request>>

------------------------------------------------------------------------------
AppNext ==
  \/ \E r \in Rows, to \in Wanted, role \in Roles : Request(r, to, role)
  \/ Swap
  \/ ReadRows
  \/ ReadChain
  \/ \E r \in Rows : Compare(r) \/ Unconfirmed(r) \/ Consult(r)
  \/ Correct

Next ==
  \/ LogNext /\ UNCHANGED <<indexerVars, appVars>>
  \/ IndexerNext /\ UNCHANGED <<logVars, appVars>>
  \/ AppNext

Spec == Init /\ [][Next]_vars

\* Ledgers close, a scheduler starts passes, and a pass that is not killed goes
\* on: the platform retries forever, failures are finitely many.
Fairness ==
  /\ WF_vars(CloseLedger /\ UNCHANGED <<indexerVars, appVars>>)
  /\ \A w \in Workers :
       WF_vars((Fetch(w) \/ Step(w)) /\ UNCHANGED <<logVars, appVars>>)
FairSpec == Spec /\ Fairness

------------------------------------------------------------------------------
\* Properties.

TypeOK ==
  /\ log \in Seq(Event) /\ Len(log) <= MaxEvents
  /\ room \in 0 .. TxPerLedger
  /\ claimed \in BOOLEAN
  /\ flags \subseteq Flag
  /\ payments \in [Rows -> RowState]
  /\ findings \subseteq FindingKind \X (Rows \union {NoRow})
  /\ marks \in [1 .. MaxEvents -> {"unseen", "unattributed", "applied"}]
  /\ cursor \in 0 .. ledger - 1
  /\ passes \in [Workers -> Pass]
  /\ request = NoRequest \/ request \in Requests

CaughtUp == \A i \in DOMAIN log : marks[i] = "applied"

\* "Only a chain observer may move a payment to PAID": whoever raced whom, a
\* payment is PAID only if the contract paid that row.
PaidIsSettled == \A r \in Rows : payments[r] = "PAID" => Settled(r)

\* A payment is offered for settlement only if the contract accepted a proof
\* for it and holds both approvals.
ReadyIsApproved ==
  \A r \in Rows : payments[r] \in {"READY_TO_SETTLE", "SUBMITTING"} =>
    LoggedFor("hours", r) /\ Logged("manager_approved") /\ Logged("finance_approved")

\* What a rotation revoked is awaited again: once the log is projected, a
\* payment shown as verified has a proof under the present oracle key.
VerifiedIsCurrent ==
  CaughtUp => \A r \in Rows :
    payments[r] \in {"ORACLE_VERIFIED", "AWAITING_MANAGER", "AWAITING_FINANCE", "READY_TO_SETTLE"} =>
      Proven(r)

\* No terminal state is ever left, whatever was read before: the indexer, the
\* reconciler and users all write under the state they read.
TerminalStays ==
  [][\A r \in Rows : payments[r] \in TERMINAL_STATES => payments'[r] = payments[r]]_vars

\* "The cursor advances only past committed events": an event behind the
\* cursor is recorded.
NothingPassedOver ==
  \A i \in DOMAIN log : log[i].ledger <= cursor => marks[i] # "unseen"

\* A settlement the database does not show is a finding.
SettlementShownOrFound ==
  \A r \in Rows : Settled(r) /\ CaughtUp =>
    \/ payments[r] = "PAID"
    \/ \E kind \in {"CHAIN_PAID_DB_NOT", "ORPHAN_ON_CHAIN"} : <<kind, r>> \in findings

\* A refund is shown as soon as the log is projected, whoever rejects, submits
\* or reconciles meanwhile - save of a payment handed over for settlement, from
\* where the table lets nobody take it to CANCELLED.
RefundShownUnlessSubmitted ==
  \A r \in Rows : Refunded(r) /\ CaughtUp => payments[r] \in {"CANCELLED", "REJECTED", "SUBMITTING"}

\* docs/RECONCILIATION.md:24-25: "The database never silently overrides chain
\* evidence.  Where they disagree, the disagreement is recorded."  When the
\* reconciler is done with a row of a cancelled escrow, the log being projected,
\* the row shows the refund or there is a finding about it.
DisagreementIsRecorded ==
  [][\A r \in audit.left \ audit'.left :
       audit.chain = "cancelled" /\ CaughtUp /\ payments[r] # NoPayment =>
         \/ payments'[r] \in {"CANCELLED", "REJECTED"}
         \/ \E f \in findings' : f[2] = r]_vars

\* What an event finds of its payment.
Finds(db, ev) == IF ev.row = NoRow THEN NoPayment ELSE db[ev.row]
\* What the log alone says the payments are, event after event.
Replayed ==
  LET after[n \in 0 .. Len(log)] ==
        IF n = 0 THEN [r \in Rows |-> IF OwnPayments THEN "VALIDATING" ELSE NoPayment]
        ELSE Projected(after[n - 1], log[n], Finds(after[n - 1], log[n]))
  IN  after[Len(log)]

\* "The projection is a function of the event log only": where nobody but the
\* indexer moved a payment, the payments are what the log says.
Deterministic == CaughtUp => payments = Replayed

\* Whatever the contract settled the reconciler can record.
SettledIsRecordable ==
  \A r \in Rows : Settled(r) /\ CaughtUp =>
    payments[r] = "PAID" \/ Permitted(payments[r], "PAID", Reconciler)

\* "The worst finding in the system" is raised in earnest: the contract never
\* unsettles, so while every PAID is settled no interleaving of projection and
\* reconciliation reports a payment as PAID without the contract.
NoFalseAlarm == \A r \in Rows : <<"DB_PAID_CHAIN_NOT", r>> \notin findings

\* Once the escrow has its row every event is applied in the end, and stays
\* applied, whatever failed or died in between.
EventuallyApplied == claimed ~> CaughtUp
=============================================================================
