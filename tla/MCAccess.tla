------------------------------- MODULE MCAccess -------------------------------
(***************************************************************************)
(* Who is believed and who decides, for TLC: signing in, membership, the   *)
(* decisions about payments, and the claims of the marketplace hold.  They *)
(* share no state (a membership names a user, whoever opened the session;  *)
(* a decision is a member's, whatever made him one; a claim names a key),  *)
(* so a behaviour takes its steps in one of them: interleaving them would  *)
(* only multiply states.                                                   *)
(***************************************************************************)
EXTENDS Membership, Auth, PaymentActions, MarketplaceHold, TLC

CONSTANTS olu, fin

\* An owner and a finance approver.
MCRoleOf == (olu :> "OWNER" @@ fin :> "FINANCE")

\* Claims in sequence and by identifier, of two issuers; one has an encoding
\* that does not fit its byte.
Delivered(k, mode, n, id) ==
  [issuer |-> k, claim_type |-> DeliveryType, subject |-> "order", payload_encoding |-> 0,
   replay_mode |-> mode, nonce |-> n, claim_id |-> id, issued_at |-> 0, expires_at |-> 1]
MCStatements ==
  {Delivered("k1", "UniqueId", 0, "id"), Delivered("k1", "Sequence", 0, ZeroId),
   Delivered("k1", "Sequence", 1, ZeroId), Delivered("k2", "UniqueId", 0, "id"),
   [Delivered("k2", "UniqueId", 0, "id") EXCEPT !.payload_encoding = 256]}
MCPurses == [t \in Traders |-> [coin \in Coins |-> 2]]

VARIABLE part

vars == <<memberVars, authVars, actionVars, holdVars, part>>

\* A payment waits for the manager's approval where it does not matter.
Init ==
  /\ part \in {"membership", "auth", "decisions", "holds"}
  /\ MembershipInit /\ AuthInit /\ HoldInit
  /\ ActionsInit
  /\ part # "decisions" => \A p \in Payments : state[p] = "AWAITING_MANAGER"
Next ==
  \/ part = "membership" /\ MembershipNext /\ UNCHANGED <<authVars, actionVars, holdVars, part>>
  \/ part = "auth" /\ AuthNext /\ UNCHANGED <<memberVars, actionVars, holdVars, part>>
  \/ part = "decisions" /\ ActionsNext /\ UNCHANGED <<memberVars, authVars, holdVars, part>>
  \/ part = "holds" /\ HoldNext /\ UNCHANGED <<memberVars, authVars, actionVars, part>>
Spec == Init /\ [][Next]_vars

TypeOK == MembershipTypeOK /\ AuthTypeOK /\ ActionsTypeOK /\ HoldTypeOK

\* The members of a set are alike, but for who has a role; payments, requests
\* and tabs take the names of slots and users, so that few permutations do.
Sym == Permutations(Slots) \union Permutations(Users \ {Founder})
==============================================================================
