------------------------------- MODULE Indexer -------------------------------
(***************************************************************************)
(* The projection of the contract's event log into the application's       *)
(* database: lib/indexer/index.ts (applyEvent, processBatch,               *)
(* replayUnattributed) and lib/indexer/run.ts, with the state changes of   *)
(* lib/payments/service.ts.                                                *)
(*                                                                         *)
(* Passes are started by a scheduler and by hand, and nothing keeps two    *)
(* from overlapping: each is a process.  The transaction that applies an   *)
(* event reads first and writes later (READ COMMITTED), so it is two       *)
(* steps; each statement of the second is guarded in its WHERE clause or   *)
(* by a unique index, and the rows it locks stay locked until it commits.  *)
(*                                                                         *)
(* Audit rows are not modelled.  A reconciliation finding is kept as the   *)
(* fact that one of its kind was opened for a row.                         *)
(***************************************************************************)
EXTENDS EscrowLog, PaymentStates

CONSTANTS
  Workers,       \* the passes that may run at one time
  PageLimit,     \* PAGE_LIMIT: events fetched by a pass
  FailingKinds,  \* events whose transaction may fail for a passing reason
  FailureLimit,  \* bound on failures and crashes
  OwnPayments,   \* the payments already exist: an uploaded batch was funded
  ClaimFirst     \* no pass starts before the escrow has its row

ASSUME IndexerAssumption ==
  /\ PageLimit \in Nat \ {0}
  /\ FailingKinds \subseteq EventKind
  /\ FailureLimit \in Nat
  /\ OwnPayments \in BOOLEAN /\ ClaimFirst \in BOOLEAN

NoPayment == "no row"
RowState == PaymentState \union {NoPayment}

VARIABLES
  claimed,   \* an Escrow row maps the escrow to an organization
  flags,     \* managerApproved, financeApproved and cancelled of that row
  payments,  \* the state of each payment, if it has a row
  findings,  \* the findings opened, by kind and row
  marks,     \* ChainEvent: not seen, recorded but unattributed, or applied
  cursor,    \* IndexerCursor.lastLedger
  passes,    \* the passes that are running
  failures   \* failures and crashes so far

dbVars == <<claimed, flags, payments, findings, marks, cursor>>
indexerVars == <<dbVars, passes, failures>>

FindingKind ==
  {"ORPHAN_ON_CHAIN", "CHAIN_PAID_DB_NOT", "DB_PAID_CHAIN_NOT", "CHAIN_UNREADABLE"}
Flag == {"manager", "finance", "cancelled"}

\* A pass: the events left of its page, or of its backlog when it replays; the
\* highest ledger it committed; and, while it applies one, the state it read of
\* the event's payment, or that no organization has claimed the escrow.
NotRead == "not read"
Unattributed == "unattributed"
Idle == [stage |-> "idle", todo |-> <<>>, committed |-> 0, seen |-> NotRead]
Pass ==
  [stage : {"idle", "page", "backlog"}, todo : Seq(1 .. MaxEvents),
   committed : Nat, seen : RowState \union {NotRead, Unattributed}]

IndexerInit ==
  /\ claimed = FALSE
  /\ flags = {}
  /\ payments = [r \in Rows |-> IF OwnPayments THEN "VALIDATING" ELSE NoPayment]
  /\ findings = {}
  /\ marks = [i \in 1 .. MaxEvents |-> "unseen"]
  /\ cursor = 0
  /\ passes = [w \in Workers |-> Idle]
  /\ failures = 0

------------------------------------------------------------------------------
\* What an event does, given the state of its row that was read before.

\* applyTransition: a permitted move whose compare-and-swap finds the state it
\* read.  Anything else leaves the payment alone.
Swapped(was, to, actor, now) == now = was /\ Permitted(was, to, actor)

\* updateMany ... where state in from.
Move(db, r, from, to) == [db EXCEPT ![r] = IF @ \in from THEN to ELSE @]

\* Mutant: whoever approves first approves for both.
ApprovedByEither(db, waitingOn, next) ==
  [r \in Rows |-> IF db[r] \in {"ORACLE_VERIFIED", waitingOn} THEN next ELSE db[r]]
\* The payments waiting on this approver move on; those just verified enter the
\* approval chain first.
Approved(db, waitingOn, next) ==
  LET entered == [r \in Rows |-> IF db[r] = "ORACLE_VERIFIED" THEN "AWAITING_MANAGER" ELSE db[r]]
  IN  [r \in Rows |-> IF entered[r] = waitingOn THEN next ELSE entered[r]]

\* Mutant: a payment already ready for settlement keeps its proof.
UnsettledOnly == {"ORACLE_VERIFIED", "AWAITING_MANAGER", "AWAITING_FINANCE"}
\* The states a rotation takes back to AWAITING_ORACLE.
RevokedBy == {"ORACLE_VERIFIED", "AWAITING_MANAGER", "AWAITING_FINANCE", "READY_TO_SETTLE"}

\* The payments db after an event whose payment was read in state seen.  A
\* handler reads its payment once or twice (applyTransition reads again): where
\* the two differ what decides is the second, and they are one here.
Projected(db, ev, seen) ==
  CASE ev.kind = "payment_added" /\ seen = NoPayment ->
         [db EXCEPT ![ev.row] = "AWAITING_ORACLE"]
    [] ev.kind = "payment_added" /\ seen = "VALIDATING" /\
       Swapped(seen, "AWAITING_ORACLE", Indexer, db[ev.row]) ->
         [db EXCEPT ![ev.row] = "AWAITING_ORACLE"]
    [] ev.kind = "hours" /\ seen # NoPayment -> Move(db, ev.row, {"AWAITING_ORACLE"}, "ORACLE_VERIFIED")
    [] ev.kind = "manager_approved" -> Approved(db, "AWAITING_MANAGER", "AWAITING_FINANCE")
    [] ev.kind = "finance_approved" -> Approved(db, "AWAITING_FINANCE", "READY_TO_SETTLE")
    [] ev.kind = "payment_paid" /\ seen # NoPayment /\
       Swapped(seen, "PAID", Indexer, db[ev.row]) ->
         [db EXCEPT ![ev.row] = "PAID"]
    [] ev.kind = "payment_cancelled" /\ seen # NoPayment /\
       Swapped(seen, "CANCELLED", Indexer, db[ev.row]) ->
         [db EXCEPT ![ev.row] = "CANCELLED"]
    [] ev.kind = "oracle_rotated" ->
         [r \in Rows |-> IF db[r] \in RevokedBy THEN "AWAITING_ORACLE" ELSE db[r]]
    [] OTHER -> db

\* What `finalized` counts: of every state but PAID, cancelled ones included.
LeftUnpaid == {r \in Rows : payments[r] \notin {NoPayment, "PAID"}}
\* Mutant: a refused PAID is only logged.
FindingsQuiet(ev, seen) == {}
FindingsOpened(ev, seen) ==
  CASE ev.kind = "payment_paid" /\ seen = NoPayment -> {<<"ORPHAN_ON_CHAIN", ev.row>>}
    [] ev.kind = "payment_paid" /\ seen \notin {NoPayment, "PAID"} /\
       ~Swapped(seen, "PAID", Indexer, payments[ev.row]) ->
         {<<"CHAIN_PAID_DB_NOT", ev.row>>}
    [] ev.kind = "payment_cancelled" /\ seen = "PAID" -> {<<"DB_PAID_CHAIN_NOT", ev.row>>}
    [] ev.kind = "finalized" /\ LeftUnpaid # {} -> {<<"CHAIN_PAID_DB_NOT", NoRow>>}
    [] OTHER -> {}

FlagsSet(ev) ==
  CASE ev.kind = "manager_approved" -> {"manager"}
    [] ev.kind = "finance_approved" -> {"finance"}
    [] ev.kind = "cancelled" -> {"cancelled"}
    [] OTHER -> {}

\* applyEvent: nothing at all for an escrow no organization has claimed.
ApplyEvent(ev, seen) ==
  IF seen = Unattributed
  THEN UNCHANGED <<payments, findings, flags>>
  ELSE /\ payments' = Projected(payments, ev, seen)
       /\ findings' = findings \union FindingsOpened(ev, seen)
       /\ flags' = flags \union FlagsSet(ev)

------------------------------------------------------------------------------
\* A pass (runIndexerFromRpc).

\* The network serves ledgers that have closed.
Ahead == {i \in DOMAIN log : cursor < log[i].ledger /\ log[i].ledger < ledger}
\* Mutant: in no particular order, the latest first say.
NewestFirst(S) == [k \in 1 .. Cardinality(S) |->
                     CHOOSE i \in S : Cardinality({j \in S : j > i}) = k - 1]
\* By ledger and paging token.
Oldest(S) == [k \in 1 .. Cardinality(S) |->
                CHOOSE i \in S : Cardinality({j \in S : j < i}) = k - 1]
Page == LET ahead == Oldest(Ahead)
        IN  SubSeq(ahead, 1, IF Len(ahead) < PageLimit THEN Len(ahead) ELSE PageLimit)

At(w) == Head(passes[w].todo)
Reading(w) == passes[w].todo # <<>> /\ passes[w].seen = NotRead
Applying(w) == passes[w].todo # <<>> /\ passes[w].seen # NotRead
\* The pass goes on to its next event.
Onward(w, committed) ==
  passes' = [passes EXCEPT ![w].todo = Tail(@), ![w].seen = NotRead,
                           ![w].committed = committed]
\* committedLedger = max(committedLedger, raw.ledger): the page is in order.
Past(w) == IF passes[w].stage = "page" THEN log[At(w)].ledger ELSE passes[w].committed

Fetch(w) ==
  /\ passes[w].stage = "idle"
  /\ ClaimFirst => claimed
  /\ passes' = [passes EXCEPT ![w] =
       [stage |-> "page", todo |-> Page, committed |-> 0, seen |-> NotRead]]
  /\ UNCHANGED <<dbVars, failures>>

\* Already applied: on to the next.  The backlog does not look again.
Skip(w) ==
  /\ Reading(w) /\ passes[w].stage = "page"
  /\ marks[At(w)] = "applied"
  /\ Onward(w, Past(w))
  /\ UNCHANGED <<dbVars, failures>>

Read(w) ==
  /\ Reading(w)
  /\ passes[w].stage = "page" => marks[At(w)] # "applied"
  /\ passes' = [passes EXCEPT ![w].seen =
       IF ~claimed THEN Unattributed
       ELSE IF log[At(w)].row = NoRow THEN NoPayment ELSE payments[log[At(w)].row]]
  /\ UNCHANGED <<dbVars, failures>>

\* Mutant: the payment is upserted.
Upserted(w) == FALSE
\* The payment this event would create exists by now: a duplicate key.
Duplicate(w) ==
  /\ log[At(w)].kind = "payment_added" /\ passes[w].seen = NoPayment
  /\ payments[log[At(w)].row] # NoPayment

\* The effects commit with the marker, which is upserted: where another pass
\* has written it meanwhile it is written again (ON CONFLICT DO UPDATE).
Marked(w) == [marks EXCEPT ![At(w)] = IF passes[w].seen = Unattributed THEN "unattributed" ELSE "applied"]

Apply(w) ==
  /\ Applying(w) /\ ~Duplicate(w)
  /\ ApplyEvent(log[At(w)], passes[w].seen)
  /\ marks' = Marked(w)
  /\ Onward(w, Past(w))
  /\ UNCHANGED <<claimed, cursor, failures>>

\* P2002, whatever key it is about, counts as another worker's success; in the
\* backlog the event stays for the next pass.
ApplyDuplicate(w) ==
  /\ Applying(w) /\ Duplicate(w)
  /\ Onward(w, Past(w))
  /\ UNCHANGED <<dbVars, failures>>

\* Any other failure ends the pass, with the cursor at what it committed; in
\* the backlog it is passed over.
\* Mutants: the cursor goes to the latest ledger, whatever was applied; it
\* names the ledger to come.
SetCursorToLatest(ledgerDone) == cursor' = ledger - 1
SetCursorToNext(ledgerDone) == cursor' = ledgerDone + 1
SetCursor(ledgerDone) == cursor' = IF ledgerDone > 0 THEN ledgerDone ELSE cursor

Fail(w) ==
  /\ Applying(w)
  /\ log[At(w)].kind \in FailingKinds /\ failures < FailureLimit
  /\ failures' = failures + 1
  /\ IF passes[w].stage = "page"
     THEN /\ SetCursor(passes[w].committed)
          /\ passes' = [passes EXCEPT ![w] = Idle]
     ELSE /\ Onward(w, 0)
          /\ UNCHANGED cursor
  /\ UNCHANGED <<claimed, flags, payments, findings, marks>>

Crash(w) ==
  /\ passes[w].stage # "idle" /\ failures < FailureLimit
  /\ failures' = failures + 1
  /\ passes' = [passes EXCEPT ![w] = Idle]
  /\ UNCHANGED dbVars

\* The page is done: advance the cursor, then replay what is unattributed.
EndPage(w) ==
  /\ passes[w].stage = "page" /\ passes[w].todo = <<>>
  /\ SetCursor(passes[w].committed)
  /\ passes' = [passes EXCEPT ![w] =
       [stage |-> "backlog", committed |-> 0, seen |-> NotRead,
        todo |-> Oldest({i \in DOMAIN log : marks[i] = "unattributed"})]]
  /\ UNCHANGED <<claimed, flags, payments, findings, marks, failures>>

EndPass(w) ==
  /\ passes[w].stage = "backlog" /\ passes[w].todo = <<>>
  /\ passes' = [passes EXCEPT ![w] = Idle]
  /\ UNCHANGED <<dbVars, failures>>

\* An Escrow row maps the escrow to an organization.  confirmFunding writes it
\* for a batch of the application's own, unless the escrow is cancelled by then,
\* and links the payments; for any other escrow an operator claims it, and the
\* row copies what the contract reads now.
Claim ==
  /\ ~claimed /\ Created
  /\ OwnPayments => ~Logged("cancelled")
  /\ claimed' = TRUE
  /\ flags' = {f \in Flag : /\ ~OwnPayments
                           /\ \/ f = "manager" /\ Logged("manager_approved")
                              \/ f = "finance" /\ Logged("finance_approved")
                              \/ f = "cancelled" /\ Logged("cancelled")}
  /\ UNCHANGED <<payments, findings, marks, cursor, passes, failures>>

Step(w) ==
  Skip(w) \/ Read(w) \/ Apply(w) \/ ApplyDuplicate(w) \/ EndPage(w) \/ EndPass(w)

IndexerNext ==
  \/ \E w \in Workers : Fetch(w) \/ Step(w) \/ Fail(w) \/ Crash(w)
  \/ Claim
==============================================================================
