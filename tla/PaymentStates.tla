---------------------------- MODULE PaymentStates ----------------------------
(***************************************************************************)
(* The payment state machine, lib/payments/state-machine.ts: which actor   *)
(* may move a payment from which state to which.                           *)
(***************************************************************************)
EXTENDS FiniteSets, Rbac

PaymentState ==
  {"DRAFT", "VALIDATING", "AWAITING_ORACLE", "ORACLE_VERIFIED",
   "AWAITING_MANAGER", "AWAITING_FINANCE", "READY_TO_SETTLE", "SUBMITTING",
   "CONFIRMING", "PAID", "REJECTED", "CANCELLED", "EXPIRED",
   "SUBMISSION_FAILED", "SETTLEMENT_FAILED", "RECONCILIATION_REQUIRED"}

\* An actor is a user acting in a role or one of the machines.
User(role) == [kind |-> "user", role |-> role]
Machine(kind) == [kind |-> kind, role |-> "none"]
Indexer == Machine("indexer")
Reconciler == Machine("reconciler")

ADMINISTRATIVE == {"OWNER", "ADMIN"}
\* Mutant: the reconciler alone.
OnlyReconciler == {"reconciler"}
CHAIN_OBSERVERS == {"indexer", "reconciler"}

By(from, to, actors, roles) ==
  [from |-> from, to |-> to, actors |-> actors, roles |-> roles]
ByUser(from, to, roles) == By(from, to, {"user"}, roles)
Observed(from, to) == By(from, to, CHAIN_OBSERVERS, {})
ByMachine(from, to, actors) == By(from, to, actors, {})

preparers == ADMINISTRATIVE \union {"MANAGER"}
deciders == preparers \union {"FINANCE"}

\* Out of a failure, and out of the doubt that follows it.
Recovery ==
  { ByUser("SUBMISSION_FAILED", "READY_TO_SETTLE", deciders),
    ByUser("SUBMISSION_FAILED", "CANCELLED", preparers),
    ByMachine("SUBMISSION_FAILED", "RECONCILIATION_REQUIRED", {"reconciler"}),
    ByMachine("SETTLEMENT_FAILED", "RECONCILIATION_REQUIRED", {"reconciler", "system"}),
    By("RECONCILIATION_REQUIRED", "CANCELLED", {"user", "reconciler"}, ADMINISTRATIVE),
    ByMachine("RECONCILIATION_REQUIRED", "SETTLEMENT_FAILED", {"reconciler"}) }
  \union UNION {{Observed(from, "PAID"), ByMachine(from, "READY_TO_SETTLE", {"reconciler"})} :
                  from \in {"SETTLEMENT_FAILED", "RECONCILIATION_REQUIRED"}}

\* TRANSITIONS.  A transition absent from it is invalid.
TRANSITIONS ==
  LET funded == {"AWAITING_ORACLE", "ORACLE_VERIFIED", "AWAITING_MANAGER",
                 "AWAITING_FINANCE", "READY_TO_SETTLE"}
  IN  { ByUser("DRAFT", "VALIDATING", preparers),
        ByUser("VALIDATING", "REJECTED", deciders),
        ByUser("AWAITING_MANAGER", "REJECTED", preparers),
        ByUser("AWAITING_FINANCE", "REJECTED", ADMINISTRATIVE \union {"FINANCE"}),
        ByUser("READY_TO_SETTLE", "SUBMITTING", deciders) }
      \union {ByUser(from, "CANCELLED", preparers) : from \in {"DRAFT", "VALIDATING"}}
      \union {Observed(from, "CANCELLED") : from \in funded}
      \union {Observed(from, "PAID") : from \in {"READY_TO_SETTLE", "SUBMITTING", "CONFIRMING"}}
      \union { Observed("VALIDATING", "AWAITING_ORACLE"),
               Observed("AWAITING_ORACLE", "ORACLE_VERIFIED"),
               Observed("AWAITING_MANAGER", "AWAITING_FINANCE"),
               Observed("AWAITING_FINANCE", "READY_TO_SETTLE") }
      \union {ByMachine(from, "EXPIRED", {"system"}) :
                from \in {"AWAITING_ORACLE", "AWAITING_MANAGER", "AWAITING_FINANCE"}}
      \union { ByMachine("VALIDATING", "DRAFT", {"system"}),
               ByMachine("ORACLE_VERIFIED", "AWAITING_MANAGER", {"system", "indexer"}),
               ByMachine("SUBMITTING", "CONFIRMING", {"system"}),
               ByMachine("SUBMITTING", "SUBMISSION_FAILED", {"system"}),
               ByMachine("CONFIRMING", "SETTLEMENT_FAILED", {"indexer", "system"}),
               ByMachine("CONFIRMING", "RECONCILIATION_REQUIRED", {"reconciler", "system"}) }
      \union Recovery

TERMINAL_STATES == {"PAID", "REJECTED", "CANCELLED", "EXPIRED"}

\* checkTransition: what it answers, with the refusals in the order it makes them.
CheckTransition(from, to, actor) ==
  LET found == {t \in TRANSITIONS : t.from = from /\ t.to = to}
  IN  IF from = to THEN "SAME_STATE"
      ELSE IF from \in TERMINAL_STATES THEN "TERMINAL"
      ELSE IF found = {} THEN "INVALID_TRANSITION"
      ELSE IF \A t \in found : actor.kind \notin t.actors THEN "ACTOR_NOT_PERMITTED"
      ELSE IF actor.kind = "user" /\ \A t \in found : actor.role \notin t.roles
        THEN "ROLE_NOT_PERMITTED"
      ELSE "OK"

Permitted(from, to, actor) == CheckTransition(from, to, actor) = "OK"
==============================================================================
