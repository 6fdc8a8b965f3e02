---------------------------- MODULE PaymentActions ----------------------------
(***************************************************************************)
(* What members do to payments: lib/payments/actions.ts.                   *)
(*                                                                         *)
(* A request is a process.  Each of its statements commits by itself, save *)
(* the two of transitionPayment, which are a transaction; so everything it *)
(* read may have changed when it writes.  The indexer moves payments as    *)
(* the table lets it (Settlement has the whole of it), and a request may   *)
(* die between two statements.                                             *)
(***************************************************************************)
EXTENDS PaymentStates, Naturals

CONSTANTS
  Payments,
  Members,   \* the wallets of an organization's members
  RoleOf,    \* their roles
  Calls,     \* requests that may be in flight at one time
  Keys,      \* idempotency keys
  CallLimit  \* bound on the requests made

ASSUME ActionsAssumption ==
  /\ RoleOf \in [Members -> OrgRole]
  /\ CallLimit \in Nat
  /\ IsFiniteSet(Keys)

VARIABLES
  state,     \* of each payment
  approvals, \* Approval: the decision of each half of the gate, and its author
  attempts,  \* BlockchainTransaction: the settlement attempts
  inFlight,     \* the requests in flight
  made,      \* requests made so far
  answers    \* the attempts that requests were told of, by key and payment

tables == <<state, approvals, attempts>>
actionVars == <<tables, inFlight, made, answers>>

Half == {"MANAGER", "FINANCE"}
Other(half) == IF half = "MANAGER" THEN "FINANCE" ELSE "MANAGER"
Undecided == [decision |-> "none"]
Decision(d, m) == [decision |-> d, actorAddress |-> m]

\* What a request can ask for, and the state it wants of the payment.
Action == {"approve", "reject", "cancel", "submit", "retry", "flag"}
To(action) ==
  CASE action = "reject" -> "REJECTED"
    [] action = "cancel" -> "CANCELLED"
    [] action = "submit" -> "SUBMITTING"
    [] action = "retry" -> "READY_TO_SETTLE"
    [] action = "flag" -> "RECONCILIATION_REQUIRED"

\* A request: what it does next, for whom, what it read last and, when it
\* approves, the half it approves for.
NoCall == [next |-> "nothing"]
Call(next, action, m, p, k, read, half) ==
  [next |-> next, action |-> action, member |-> m, payment |-> p, key |-> k,
   read |-> read, half |-> half]

ActionsInit ==
  /\ state \in [Payments -> {"AWAITING_MANAGER", "READY_TO_SETTLE"}]
  /\ approvals = [p \in Payments |-> [h \in Half |-> Undecided]]
  /\ attempts = {}
  /\ inFlight = [c \in Calls |-> NoCall]
  /\ made = 0
  /\ answers = {}

Awaits(c, next) == inFlight[c].next = next
Goes(c, next) == inFlight' = [inFlight EXCEPT ![c].next = next]
Returns(c) == inFlight' = [inFlight EXCEPT ![c] = NoCall]

\* Mutant: whoever it is approves for the half the payment waits for.
HalfByState(m, s) == IF s = "AWAITING_FINANCE" THEN "FINANCE" ELSE "MANAGER"
\* The half is the role's; owners and admins act for the half awaited.
HalfOf(m, s) ==
  IF RoleOf[m] \in Half THEN RoleOf[m]
  ELSE IF s = "AWAITING_FINANCE" THEN "FINANCE" ELSE "MANAGER"

Approvers == ADMINISTRATIVE \union Half

\* The first statement after those that let the request in.
FirstStatement(action) ==
  CASE action = "approve" -> "find decision"
    [] action = "submit" -> "find attempt"
    [] OTHER -> "consult"

\* The request is let in and reads its payment.  Only administrators flag, and
\* what has failed on the network is not retried.
Begin(c, action, m, p, k) ==
  /\ inFlight[c] = NoCall /\ made < CallLimit
  /\ action = "approve" => RoleOf[m] \in Approvers
  /\ action = "flag" => RoleOf[m] \in ADMINISTRATIVE
  /\ action = "retry" => state[p] # "SETTLEMENT_FAILED"
  /\ inFlight' = [inFlight EXCEPT ![c] =
       Call(FirstStatement(action), action, m, p, k, state[p], HalfOf(m, state[p]))]
  /\ made' = made + 1
  /\ UNCHANGED <<tables, answers>>

------------------------------------------------------------------------------
\* approvePayment.

FindDecision(c) ==
  LET q == inFlight[c] IN
  /\ Awaits(c, "find decision")
  /\ IF approvals[q.payment][q.half] = Undecided THEN Goes(c, "find other half") ELSE Returns(c)
  /\ UNCHANGED <<tables, made, answers>>

\* 409: two distinct approvers are required.
FindOtherHalf(c) ==
  LET q == inFlight[c]
      other == approvals[q.payment][Other(q.half)]
  IN
  /\ Awaits(c, "find other half")
  /\ IF other # Undecided /\ other.actorAddress = q.member THEN Returns(c) ELSE Goes(c, "approve")
  /\ UNCHANGED <<tables, made, answers>>

\* A decision there by now is a duplicate key, and the request fails.
Approve(c) ==
  LET q == inFlight[c] IN
  /\ Awaits(c, "approve")
  /\ IF approvals[q.payment][q.half] = Undecided
     THEN approvals' = [approvals EXCEPT ![q.payment][q.half] = Decision("APPROVED", q.member)]
     ELSE UNCHANGED approvals
  /\ Returns(c)
  /\ UNCHANGED <<state, attempts, made, answers>>

------------------------------------------------------------------------------
\* transitionPayment, for the other actions.

\* flagForReconciliation acts as the reconciler.
ActorOf(q) == IF q.action = "flag" THEN Reconciler ELSE User(RoleOf[q.member])

\* Where a transition leads that was made, or found made already.
Following(q, changed) ==
  CASE q.action = "submit" -> "count attempts"
    [] q.action = "reject" /\ changed -> "decline"
    [] OTHER -> "nothing"
Proceeds(c, changed) ==
  IF Following(inFlight[c], changed) = "nothing" THEN Returns(c) ELSE Goes(c, Following(inFlight[c], changed))

Consult(c) ==
  LET q == inFlight[c]
      now == state[q.payment]
  IN
  /\ Awaits(c, "consult")
  /\ CASE now = To(q.action) -> Proceeds(c, FALSE)
       [] Permitted(now, To(q.action), ActorOf(q)) ->
            inFlight' = [inFlight EXCEPT ![c].next = "swap", ![c].read = now]
       [] OTHER -> Returns(c)
  /\ UNCHANGED <<tables, made, answers>>

\* Mutant: the swap does not compare.
Unmoved(q) == TRUE
Unchanged(q) == state[q.payment] = q.read

\* The swap finds the state that was read, or the answer is 409.
Swap(c) ==
  LET q == inFlight[c] IN
  /\ Awaits(c, "swap")
  /\ IF Unchanged(q)
     THEN /\ state' = [state EXCEPT ![q.payment] = To(q.action)]
          /\ Proceeds(c, TRUE)
     ELSE /\ Returns(c)
          /\ UNCHANGED state
  /\ UNCHANGED <<approvals, attempts, made, answers>>

\* rejectPayment records the decision, over one that is there already: its
\* author is not updated.
Decline(c) ==
  LET q == inFlight[c]
      half == IF RoleOf[q.member] = "FINANCE" THEN "FINANCE" ELSE "MANAGER"
      there == approvals[q.payment][half]
  IN
  /\ Awaits(c, "decline")
  /\ approvals' = [approvals EXCEPT ![q.payment][half] =
       IF there = Undecided THEN Decision("REJECTED", q.member)
       ELSE Decision("REJECTED", there.actorAddress)]
  /\ Returns(c)
  /\ UNCHANGED <<state, attempts, made, answers>>

------------------------------------------------------------------------------
\* submitPaymentForSettlement.

Keyed(k) == {a \in attempts : a.key = k}
Tell(q, a) == answers' = answers \union {[key |-> q.key, payment |-> q.payment, attempt |-> a]}

Bound(a, q) == a.payment = q.payment

\* A key that is known is answered with its attempt, or refused.
FindAttempt(c) ==
  LET q == inFlight[c] IN
  /\ Awaits(c, "find attempt")
  /\ IF Keyed(q.key) = {}
     THEN Goes(c, "consult") /\ UNCHANGED answers
     ELSE /\ Returns(c)
          /\ \E a \in Keyed(q.key) : IF Bound(a, q) THEN Tell(q, a) ELSE UNCHANGED answers
  /\ UNCHANGED <<tables, made>>

CountAttempts(c) ==
  /\ Awaits(c, "count attempts")
  /\ inFlight' = [inFlight EXCEPT ![c].next = "create attempt",
       ![c].read = Cardinality({a \in attempts : a.payment = inFlight[c].payment})]
  /\ UNCHANGED <<tables, made, answers>>

AttemptAfter(prior) == prior + 1

\* Mutant: keys are not unique.
NeverTaken(k) == FALSE
Taken(k) == Keyed(k) # {}

\* A key taken by now is a duplicate, and the request fails.
CreateAttempt(c) ==
  LET q == inFlight[c]
      a == [key |-> q.key, payment |-> q.payment, attempt |-> AttemptAfter(q.read)]
  IN
  /\ Awaits(c, "create attempt")
  /\ IF Taken(q.key) THEN UNCHANGED <<attempts, answers>>
     ELSE attempts' = attempts \union {a} /\ Tell(q, a)
  /\ Returns(c)
  /\ UNCHANGED <<state, approvals, made>>

------------------------------------------------------------------------------
\* The indexer takes a payment where the table lets it.
Observe(p) ==
  /\ \E s \in PaymentState :
       /\ Permitted(state[p], s, Indexer)
       /\ state' = [state EXCEPT ![p] = s]
  /\ UNCHANGED <<approvals, attempts, inFlight, made, answers>>

\* A rotation of the key revokes what was verified on the escrow: its payments
\* go back past the table, by one update.
RevokedBy == {"ORACLE_VERIFIED", "AWAITING_MANAGER", "AWAITING_FINANCE", "READY_TO_SETTLE"}
OracleRotated ==
  /\ state' = [p \in Payments |-> IF state[p] \in RevokedBy THEN "AWAITING_ORACLE" ELSE state[p]]
  /\ UNCHANGED <<approvals, attempts, inFlight, made, answers>>

\* The process that serves a request dies.
Die(c) ==
  /\ inFlight[c] # NoCall
  /\ Returns(c)
  /\ UNCHANGED <<tables, made, answers>>

ActionsNext ==
  \/ \E c \in Calls :
       \/ \E action \in Action, m \in Members, p \in Payments, k \in Keys :
            Begin(c, action, m, p, k)
       \/ FindDecision(c) \/ FindOtherHalf(c) \/ Approve(c)
       \/ Consult(c) \/ Swap(c) \/ Decline(c)
       \/ FindAttempt(c) \/ CountAttempts(c) \/ CreateAttempt(c)
       \/ Die(c)
  \/ \E p \in Payments : Observe(p)
  \/ OracleRotated

ActionsSpec == ActionsInit /\ [][ActionsNext]_actionVars

------------------------------------------------------------------------------
\* Properties.

ActionsTypeOK ==
  /\ state \in [Payments -> PaymentState]
  /\ \A p \in Payments, h \in Half :
       approvals[p][h] = Undecided \/ approvals[p][h].actorAddress \in Members
  /\ \A a \in attempts : a.key \in Keys /\ a.payment \in Payments /\ a.attempt \in 1 .. Cardinality(Keys)
  /\ made \in 0 .. CallLimit

\* "A repeat returns the original attempt": a key names one attempt of one
\* payment, however many requests carry it and whichever of them died, and no
\* request is told of an attempt of another payment.
KeyMeansOneAttempt ==
  /\ \A a, b \in attempts : a.key = b.key => a = b
  /\ \A t \in answers : /\ t.attempt \in attempts
                        /\ t.attempt.key = t.key
                        /\ t.attempt.payment = t.payment

\* A payment with a settlement attempt was handed over to the chain: nobody who
\* declined or withdrew it meanwhile got through.
AttemptedStaysSubmitted ==
  \A a \in attempts : state[a.payment] \in {"SUBMITTING", "PAID"}

\* "a manager able to exercise the finance decision would collapse the
\* dual-approval gate": neither half is recorded for someone of the other role.
HalvesKeptApart ==
  \A p \in Payments, h \in Half :
    approvals[p][h] # Undecided => RoleOf[approvals[p][h].actorAddress] # Other(h)

\* docs/RBAC.md:53-54: "Even an OWNER cannot supply both halves of one payment":
\* no member's approval stands for both, however their requests and what the
\* indexer observes meanwhile interleave.
TwoApprovers ==
  \A p \in Payments : \A h \in Half :
    approvals[p][h].decision = "APPROVED" /\ approvals[p][Other(h)].decision = "APPROVED"
    => approvals[p][h].actorAddress # approvals[p][Other(h)].actorAddress
==============================================================================
