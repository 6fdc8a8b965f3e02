------------------------------ MODULE Membership ------------------------------
(***************************************************************************)
(* The members of one organization and the invitations to it:              *)
(* lib/tenancy/membership.ts and the routes under organizations/[id] and   *)
(* invitations/[token].  A request reads, decides and writes in steps of   *)
(* its own, so requests interleave; none is repeated by the server.        *)
(***************************************************************************)
EXTENDS Naturals, FiniteSets, Rbac

CONSTANTS
  Users,
  Founder,     \* who created the organization
  Emails,      \* addresses that get invited
  Roles,       \* the roles requests ask for
  Slots,       \* requests being served at one time
  MaxTokens,   \* bound: invitations sent
  MaxRequests  \* bound: requests made

ASSUME MembershipAssumption ==
  /\ Founder \in Users /\ Roles \subseteq OrgRole /\ MaxTokens \in Nat /\ MaxRequests \in Nat
  /\ "" \notin Users

VARIABLES
  members,     \* per user: the membership, or NoMember
  invitations, \* per address: the one invitation, or NoInvitation
  issued,      \* how many tokens were issued
  calls,       \* how many requests were made
  requests,    \* per slot: the request being served and what it has read
  seats        \* history: per token, the users whose membership it opened

memberVars == <<members, invitations, issued, calls, requests, seats>>

MembershipStatus == {"INVITED", "ACTIVE", "SUSPENDED", "REMOVED"}
NoMember == [status |-> "none", role |-> "none"]
Member == [status : MembershipStatus, role : OrgRole]
NoInvitation == [token |-> 0]
Invitation == [token : 1 .. MaxTokens, role : OrgRole, used : BOOLEAN, revoked : BOOLEAN,
               expired : BOOLEAN]
NoRequest == [at |-> "idle"]
Keep == "keep" \* a field a PATCH does not name

\* MEMBERSHIP_TRANSITIONS
Transitions == [s \in MembershipStatus |->
  CASE s = "INVITED"   -> {"ACTIVE", "REMOVED"}
    [] s = "ACTIVE"    -> {"SUSPENDED", "REMOVED"}
    [] s = "SUSPENDED" -> {"ACTIVE", "REMOVED"}
    [] s = "REMOVED"   -> {}]

Administers(m) == m.status = "ACTIVE" /\ m.role \in AdministrativeRoles

\* POST /api/organizations: the creator is its OWNER, in one transaction.
MembershipInit ==
  /\ members = [u \in Users |-> IF u = Founder THEN [status |-> "ACTIVE", role |-> "OWNER"]
                                ELSE NoMember]
  /\ invitations = [e \in Emails |-> NoInvitation]
  /\ issued = 0 /\ calls = 0
  /\ requests = [s \in Slots |-> NoRequest]
  /\ seats = [t \in 1 .. MaxTokens |-> {}]

------------------------------------------------------------------------------
\* Serving a request.
Becomes(s, r) == requests' = [requests EXCEPT ![s] = r]
GoesOn(s, r) == Becomes(s, r) /\ UNCHANGED calls
Replied(s) == GoesOn(s, NoRequest)
Begins(s, r) ==
  /\ requests[s] = NoRequest /\ calls < MaxRequests
  /\ calls' = calls + 1
  /\ Becomes(s, r)

\* withTenant: the caller must be an active member, and the role it holds now
\* is the one every later check of the request uses.
Enters(u, permission) ==
  /\ members[u].status = "ACTIVE"
  /\ permission = Keep \/ Can(members[u].role, permission)

\* checkNotSelf
NotSelf(u, target) == u # target

\* checkRoleAssignment
MayAssign(role, wanted) == Can(role, "member:role:assign") /\ CanAssignRole(role, wanted)

\* What a PATCH refuses: a self-target, nothing asked for, a role beyond the
\* caller's delegation, a status beyond its permissions.
PatchMember(s, u, target, role, status) ==
  /\ Enters(u, Keep)
  /\ NotSelf(u, target) /\ <<role, status>> # <<Keep, Keep>>
  /\ role = Keep \/ MayAssign(members[u].role, role)
  /\ status = Keep \/ Can(members[u].role,
                         IF status = "REMOVED" THEN "member:remove" ELSE "member:suspend")
  /\ Begins(s, [at |-> "load", target |-> target, role |-> role, status |-> status])
  /\ UNCHANGED <<members, invitations, issued, seats>>

DeleteMember(s, u, target) ==
  /\ Enters(u, "member:remove")
  /\ NotSelf(u, target)
  /\ Begins(s, [at |-> "load", target |-> target, role |-> Keep, status |-> "REMOVED"])
  /\ UNCHANGED <<members, invitations, issued, seats>>

\* checkNotLastAdministrator is asked when an active administrator loses the
\* role or the status.
LosesAdministrator(m, r) ==
  /\ Administers(m)
  /\ \/ r.role \notin {Keep, m.role} \union AdministrativeRoles
     \/ r.status \in {"SUSPENDED", "REMOVED"}

\* loadMember and the membership state machine.
LoadMember(s) ==
  LET r == requests[s]
      m == members[r.target]
      allowed == m # NoMember /\ (r.status # Keep => r.status \in Transitions[m.status])
  IN
  /\ r.at = "load"
  /\ IF ~allowed THEN Replied(s)
     ELSE GoesOn(s, [r EXCEPT !.at = IF LosesAdministrator(m, r) THEN "count" ELSE "write"])
  /\ UNCHANGED <<members, invitations, issued, seats>>

OtherAdministrators(u) == {v \in Users \ {u} : Administers(members[v])}

\* The other administrators are counted, outside the transaction that follows.
Count(s) ==
  LET r == requests[s] IN
  /\ r.at = "count"
  /\ IF OtherAdministrators(r.target) = {} THEN Replied(s)
     ELSE GoesOn(s, [r EXCEPT !.at = "write"])
  /\ UNCHANGED <<members, invitations, issued, seats>>

\* Mutant: a field the request does not name is written too.
WrittenWhole(m, r) == [role |-> r.role, status |-> r.status]
Patched(m, r) == [role   |-> IF r.role = Keep THEN m.role ELSE r.role,
                  status |-> IF r.status = Keep THEN m.status ELSE r.status]

\* The update goes by id: it names the fields asked for and looks at nothing.
Write(s) ==
  LET r == requests[s] IN
  /\ r.at = "write"
  /\ members' = [members EXCEPT ![r.target] = Patched(@, r)]
  /\ Replied(s)
  /\ UNCHANGED <<invitations, issued, seats>>

------------------------------------------------------------------------------
\* Invitations.  A transaction that accepts one holds its row until it commits.
Held(e) == \E s \in Slots : requests[s].at = "joining" /\ requests[s].email = e

\* POST invitations: allowed to invite, and to grant the role invited to.
Invite(s, u, e, role) ==
  /\ Enters(u, "member:invite")
  /\ MayAssign(members[u].role, role)
  /\ issued < MaxTokens
  /\ Begins(s, [at |-> "send", email |-> e, role |-> role])
  /\ UNCHANGED <<members, invitations, issued, seats>>

\* The upsert replaces whatever invitation the address had: token, role, marks.
SendInvitation(s) ==
  LET r == requests[s] IN
  /\ r.at = "send" /\ ~Held(r.email) /\ issued < MaxTokens
  /\ issued' = issued + 1
  /\ invitations' = [invitations EXCEPT ![r.email] =
       [token |-> issued + 1, role |-> r.role, used |-> FALSE, revoked |-> FALSE, expired |-> FALSE]]
  /\ Replied(s)
  /\ UNCHANGED <<members, seats>>

\* DELETE invitations/[invitationId]: an accepted invitation is not revoked ...
Revoke(s, u, e) ==
  /\ Enters(u, "member:invite")
  /\ invitations[e] # NoInvitation /\ ~invitations[e].used
  /\ Begins(s, [at |-> "revoke", email |-> e])
  /\ UNCHANGED <<members, invitations, issued, seats>>

\* ... unless it is accepted between the look and the update.
RevokeWrite(s) ==
  LET e == requests[s].email IN
  /\ requests[s].at = "revoke" /\ ~Held(e)
  /\ invitations' = [invitations EXCEPT ![e].revoked = TRUE]
  /\ Replied(s)
  /\ UNCHANGED <<members, issued, seats>>

ExpireInvitation(e) ==
  /\ invitations[e] # NoInvitation /\ ~invitations[e].expired
  /\ invitations' = [invitations EXCEPT ![e].expired = TRUE]
  /\ UNCHANGED <<members, issued, calls, requests, seats>>

\* PublicInvitePage: whoever has the link and is signed in accepts it.
Accept(s, u, e) ==
  /\ invitations[e] # NoInvitation
  /\ Begins(s, [at |-> "resolve", user |-> u, email |-> e, token |-> invitations[e].token])
  /\ UNCHANGED <<members, invitations, issued, seats>>

\* acceptInvitation.  resolveInvitation finds the token usable; what it read of
\* the invitation is what the membership will be made from.
Resolve(s) ==
  LET r == requests[s]
      i == invitations[r.email]
  IN
  /\ r.at = "resolve"
  /\ IF i.token = r.token /\ ~i.revoked /\ ~i.used /\ ~i.expired
     THEN GoesOn(s, [at |-> "claim", user |-> r.user, email |-> r.email, token |-> r.token,
                       role |-> i.role])
     ELSE Replied(s)
  /\ UNCHANGED <<members, invitations, issued, seats>>

\* The claim is conditional on usedAt and revokedAt, not on the token or its
\* expiry; the membership is read in the same transaction.
\* Mutant: the claim is not conditional.
AnyClaim(i) == TRUE
Claimable(i) == ~i.used /\ ~i.revoked
Claim(s) ==
  LET r == requests[s] IN
  /\ r.at = "claim" /\ ~Held(r.email)
  /\ IF ~Claimable(invitations[r.email]) THEN Replied(s)
     ELSE GoesOn(s, [at |-> "joining", user |-> r.user, email |-> r.email, token |-> r.token,
                      role |-> r.role, existing |-> members[r.user]])
  /\ UNCHANGED <<members, invitations, issued, seats>>

\* The transaction commits: the invitation is used up in every case, also for a
\* removed member, who is refused.  A member keeps the role it has; another
\* request that made the membership first makes this one fail whole.
Join(s) ==
  LET r == requests[s]
      u == r.user
      duplicate == r.existing = NoMember /\ members[u] # NoMember
      opened == r.existing = NoMember \/ r.existing.status \in {"INVITED", "SUSPENDED"}
  IN
  /\ r.at = "joining"
  /\ Replied(s)
  /\ UNCHANGED issued
  /\ IF duplicate THEN UNCHANGED <<members, invitations, seats>>
     ELSE /\ invitations' = [invitations EXCEPT ![r.email].used = TRUE]
          /\ members' = CASE r.existing = NoMember ->
                               [members EXCEPT ![u] = [status |-> "ACTIVE", role |-> r.role]]
                          [] r.existing # NoMember /\ opened ->
                               [members EXCEPT ![u].status = "ACTIVE"]
                          [] OTHER -> members
          /\ seats' = IF opened THEN [seats EXCEPT ![r.token] = @ \union {u}] ELSE seats

Ask(s, u) ==
  \/ \E t \in Users :
       \/ \E role \in Roles \union {Keep}, status \in (MembershipStatus \ {"INVITED"}) \union {Keep} :
            PatchMember(s, u, t, role, status)
       \/ DeleteMember(s, u, t)
  \/ \E e \in Emails : Revoke(s, u, e) \/ Accept(s, u, e)
                       \/ \E role \in Roles : Invite(s, u, e, role)
Serve(s) ==
  \/ LoadMember(s) \/ Count(s) \/ Write(s)
  \/ SendInvitation(s) \/ RevokeWrite(s) \/ Resolve(s) \/ Claim(s) \/ Join(s)

MembershipNext ==
  \/ \E s \in Slots : Serve(s) \/ \E u \in Users : Ask(s, u)
  \/ \E e \in Emails : ExpireInvitation(e)

------------------------------------------------------------------------------
MembershipTypeOK ==
  /\ members \in [Users -> Member \union {NoMember}]
  /\ invitations \in [Emails -> Invitation \union {NoInvitation}]
  /\ issued \in 0 .. MaxTokens /\ calls \in 0 .. MaxRequests
  /\ seats \in [1 .. MaxTokens -> SUBSET Users]
  /\ DOMAIN requests = Slots

\* Ownership is in somebody's hands: a member's (of any status), an invitation's,
\* or those of a request an owner began.
OwnershipAbroad ==
  \/ \E u \in Users : members[u].role = "OWNER"
  \/ \E e \in Emails : invitations[e] # NoInvitation /\ invitations[e].role = "OWNER"
  \/ \E s \in Slots : requests[s].at # "idle" /\ "role" \in DOMAIN requests[s]
                      /\ requests[s].role = "OWNER"

\* "An ADMIN cannot mint an OWNER": once nobody holds or hands on ownership it
\* never comes back, whatever roles, invitations and reinstatements follow.
OwnershipIsNotMinted == [][~OwnershipAbroad => ~OwnershipAbroad']_memberVars

Seated == {seat \in (1 .. MaxTokens) \X Users : seat[2] \in seats[seat[1]]}
\* An invitation is a seat: however accepts, re-invitations and revocations
\* race, no more memberships are opened than invitations were sent.
SeatsAreInvited == Cardinality(Seated) <= issued

\* "A token cannot mint two memberships."
OneSeatPerToken == \A t \in 1 .. MaxTokens : Cardinality(seats[t]) <= 1

\* "Removing the last administrator" is refused: an organization always has an
\* active administrator.
SomebodyAdministers == \E u \in Users : Administers(members[u])
==============================================================================
