------------------------------ MODULE BatchPage ------------------------------
(***************************************************************************)
(* The page of one payroll batch: its payments' standing as the server     *)
(* derives it (api/payroll/batches/[id], rollupBatch, presentBatch), what  *)
(* the page shows of it (components/payroll/BatchDetail.tsx), and the      *)
(* approval of a batch, which approves its payments one after the other.   *)
(* Elsewhere the payments are moved by whoever may.                        *)
(***************************************************************************)
EXTENDS Naturals, Sequences, FiniteSets, SequencesExt

CONSTANTS
  Lines,       \* the number of payments of the batch
  Approver,    \* the people: a function to their role
  MaxApprovals \* bound: batch approvals asked for

\* "nobody" approves nothing, and "waiting" is not somebody's name.
ASSUME BatchPageAssumption ==
  /\ Lines \in Nat \ {0} /\ MaxApprovals \in Nat
  /\ {"nobody", "waiting"} \intersect DOMAIN Approver = {}

States == INSTANCE PaymentStates

VARIABLES
  standing,  \* per payment: its state
  decided,   \* per payment: who decided the manager's and the finance half, and how
  approving, \* approveBatch at work
  outcome,   \* what the last approveBatch answered
  page,      \* whether the page has the batch, is loading it, or could not
  asked      \* how many batch approvals were asked for

batchPageVars == <<standing, decided, approving, outcome, page, asked>>

Halves == {"MANAGER", "FINANCE"}
Nobody == [decision |-> "none"]
Decides(d, m) == [decision |-> d, by |-> m]
NotApproving == [todo |-> <<>>, by |-> "nobody", failed |-> 0, half |-> "none"]
NoOutcome == [by |-> "nobody"]

BatchPageInit ==
  /\ standing = [p \in 1..Lines |-> "DRAFT"]
  /\ decided = [p \in 1..Lines |-> [h \in Halves |-> Nobody]]
  /\ approving = NotApproving /\ outcome = NoOutcome
  /\ page = "loading" /\ asked = 0

\* The rest of CoreFlow: a transition somebody may make, and a rejection with
\* the decision it records.
MovedElsewhere(p, to) ==
  /\ \E kind \in {"indexer", "reconciler", "system"} :
       States!Permitted(standing[p], to, States!Machine(kind))
  /\ standing' = [standing EXCEPT ![p] = to]
  /\ UNCHANGED <<decided, approving, outcome, page, asked>>
Prepared(p) ==
  /\ standing[p] = "DRAFT"
  /\ standing' = [standing EXCEPT ![p] = "VALIDATING"]
  /\ UNCHANGED <<decided, approving, outcome, page, asked>>
RejectPayment(p, m) ==
  LET half == IF Approver[m] = "FINANCE" THEN "FINANCE" ELSE "MANAGER"
      there == decided[p][half]
  IN
  /\ States!Permitted(standing[p], "REJECTED", States!User(Approver[m]))
  /\ standing' = [standing EXCEPT ![p] = "REJECTED"]
  /\ decided' = [decided EXCEPT ![p][half] =
                   Decides("REJECTED", IF there = Nobody THEN m ELSE there.by)]
  /\ UNCHANGED <<approving, outcome, page, asked>>

------------------------------------------------------------------------------
\* approveBatch.
Approvable == {"AWAITING_MANAGER", "AWAITING_FINANCE", "ORACLE_VERIFIED", "DRAFT"}

\* The candidates are the named payments that can be approved when the batch
\* is read; without any the answer is 409.
BeginApproval(m, named) ==
  LET candidates == {p \in named : standing[p] \in Approvable} IN
  /\ approving = NotApproving /\ asked < MaxApprovals /\ candidates # {}
  /\ approving' = [NotApproving EXCEPT !.todo = SetToSortSeq(candidates, <), !.by = m]
  /\ asked' = asked + 1
  /\ UNCHANGED <<standing, decided, outcome, page>>

\* approvePayment for the next of them; owners and administrators act for the
\* half the payment awaits.
HalfFor(m, p) ==
  IF Approver[m] \in Halves THEN Approver[m]
  ELSE IF standing[p] = "AWAITING_FINANCE" THEN "FINANCE" ELSE "MANAGER"
OtherHalf(h) == IF h = "MANAGER" THEN "FINANCE" ELSE "MANAGER"
ApproveNext ==
  LET p == Head(approving.todo)
      m == approving.by
      half == HalfFor(m, p)
      other == decided[p][OtherHalf(half)]
      known == decided[p][half] # Nobody
      refused == ~known /\ other # Nobody /\ other.by = m
  IN
  /\ approving.todo # <<>>
  /\ decided' = IF known \/ refused THEN decided
                ELSE [decided EXCEPT ![p][half] = Decides("APPROVED", m)]
  /\ approving' = [approving EXCEPT !.todo = Tail(@),
                                    !.failed = IF refused THEN @ + 1 ELSE @,
                                    !.half = IF known \/ refused THEN @ ELSE half]
  /\ UNCHANGED <<standing, outcome, page, asked>>

\* The answer; a half that no action returned is inferred from the role.
InferRole(m) == IF Approver[m] = "FINANCE" THEN "FINANCE" ELSE "MANAGER"
EndApproval ==
  /\ approving.by # "nobody" /\ approving.todo = <<>>
  /\ outcome' = [by |-> approving.by,
                 half |-> IF approving.half = "none" THEN InferRole(approving.by) ELSE approving.half,
                 complete |-> approving.failed = 0]
  /\ approving' = NotApproving
  /\ UNCHANGED <<standing, decided, page, asked>>

------------------------------------------------------------------------------
\* describeState, as far as it says more than the state's name.
MayHaveTransaction(s) ==
  s \notin {"DRAFT", "VALIDATING", "AWAITING_ORACLE", "REJECTED", "EXPIRED", "SUBMISSION_FAILED"}
NeedsAttention(s) ==
  s \in {"AWAITING_MANAGER", "AWAITING_FINANCE", "READY_TO_SETTLE", "EXPIRED",
         "SUBMISSION_FAILED", "SETTLEMENT_FAILED", "RECONCILIATION_REQUIRED"}

\* rollupBatch: the first payment that is broken, or else the least advanced.
Broken == {"RECONCILIATION_REQUIRED", "SETTLEMENT_FAILED", "SUBMISSION_FAILED", "EXPIRED"}
PROGRESS_ORDER ==
  <<"DRAFT", "VALIDATING", "AWAITING_ORACLE", "ORACLE_VERIFIED", "AWAITING_MANAGER",
    "AWAITING_FINANCE", "READY_TO_SETTLE", "SUBMITTING", "CONFIRMING", "PAID">>
First(s, wanted) ==
  s[CHOOSE i \in DOMAIN s : s[i] \in wanted /\ \A j \in DOMAIN s : s[j] \in wanted => i <= j]
\* Mutant: the most advanced.
MostAdvanced(states) ==
  First(Reverse(PROGRESS_ORDER) \o states, {states[i] : i \in 1..Len(states)})
Headline(states) ==
  LET there == {states[i] : i \in 1..Len(states)} IN
  IF there \intersect Broken # {} THEN First(states, Broken)
  ELSE First(PROGRESS_ORDER \o states, there)

\* presentBatch, presentActivity and presentFindings: computed from the
\* payments at every read.
PresentBatch ==
  LET states == [p \in 1..Lines |-> standing[p]] IN
  [headline |-> Headline(states), states |-> states, decided |-> decided,
   paid |-> Cardinality({p \in 1..Lines : states[p] = "PAID"}),
   attention |-> Cardinality({p \in 1..Lines : NeedsAttention(states[p])})]

\* load: when it mounts, on "Try again", and when the funding panel reports
\* a change.  What is shown is taken here as of that moment.
LoadPage ==
  /\ page # "batch"
  /\ page' \in {"batch", "error"}
  /\ UNCHANGED <<standing, decided, approving, outcome, asked>>

\* The Approvals section: each half by the first payment it is approved on.
ApprovalSummary(h) ==
  LET given == {p \in 1..Lines : PresentBatch.decided[p][h].decision = "APPROVED"} IN
  IF given = {} THEN "waiting" ELSE PresentBatch.decided[CHOOSE p \in given : \A q \in given : p <= q][h].by
\* A row of the payments table.
PaymentRow(p) ==
  [status |-> PresentBatch.states[p], attention |-> NeedsAttention(PresentBatch.states[p]),
   hash |-> MayHaveTransaction(PresentBatch.states[p]),
   approvals |-> {h \in Halves : PresentBatch.decided[p][h] # Nobody}]

BatchPageNext ==
  \/ \E p \in 1..Lines : \/ Prepared(p)
                         \/ \E to \in States!PaymentState : MovedElsewhere(p, to)
                         \/ \E m \in DOMAIN Approver : RejectPayment(p, m)
  \/ \E m \in DOMAIN Approver, named \in SUBSET (1..Lines) \ {{}} : BeginApproval(m, named)
  \/ ApproveNext \/ EndApproval \/ LoadPage

------------------------------------------------------------------------------
BatchPageTypeOK ==
  /\ standing \in [1..Lines -> States!PaymentState]
  /\ asked \in 0..MaxApprovals
  /\ approving.by \in DOMAIN Approver \union {"nobody"} /\ Len(approving.todo) <= Lines
  /\ page \in {"loading", "batch", "error"}

\* The headline of a batch never says more than its payments do: it is
\* "Paid" only when nothing is left to pay, it names a payment that is broken
\* whenever there is one, and a half shown as awaited is approved on none.
HeadlineIsHonest ==
  page = "batch" =>
    /\ PresentBatch.headline = "PAID" => \A p \in 1..Lines : PresentBatch.states[p] \in States!TERMINAL_STATES
    /\ (\E p \in 1..Lines : PaymentRow(p).status \in Broken /\ PaymentRow(p).attention)
         <=> PresentBatch.headline \in Broken
    /\ PresentBatch.paid = Lines => PresentBatch.headline = "PAID" /\ PresentBatch.attention = 0
    /\ \A h \in Halves : ApprovalSummary(h) = "waiting" =>
         \A p \in 1..Lines : PresentBatch.decided[p][h].decision # "APPROVED"

\* lib/payroll/api.ts:380: an approval is complete for a role only when that
\* half is now present on every payment.
CompleteIsOnEveryPayment ==
  outcome # NoOutcome /\ outcome.complete =>
    \A p \in 1..Lines : decided[p][outcome.half].decision = "APPROVED"
==============================================================================
