----------------------------- MODULE AccessProofs -----------------------------
(***************************************************************************)
(* Theorems about who is believed: the members of an organization and the  *)
(* invitations to it, for any users, addresses and requests under way, and *)
(* signing in, for any wallets and tabs.                                   *)
(***************************************************************************)
EXTENDS Membership, Auth, TLAPS, FiniteSetTheorems, SequenceTheorems, NaturalLemmas

MembershipSpec == MembershipInit /\ [][MembershipNext]_memberVars
AuthSpec == AuthInit /\ [][AuthNext]_authVars

------------------------------------------------------------------------------
\* Membership: the inductive invariant.

\* What is being served, by how far it is.
MemberRequest ==
  {NoRequest}
  \union [at : {"load", "count", "write"}, target : Users, role : Roles \union {Keep},
          status : MembershipStatus \union {Keep}]
  \union [at : {"send"}, email : Emails, role : Roles]
  \union [at : {"revoke"}, email : Emails]
  \union [at : {"resolve"}, user : Users, email : Emails, token : 1 .. MaxTokens]
  \union [at : {"claim"}, user : Users, email : Emails, token : 1 .. MaxTokens, role : OrgRole]
  \union [at : {"joining"}, user : Users, email : Emails, token : 1 .. MaxTokens, role : OrgRole,
          existing : Member \union {NoMember}]

Typed ==
  /\ MembershipTypeOK
  /\ requests \in [Slots -> MemberRequest]

\* Neither members nor invitations are ever taken away; and an invitation is held
\* by one request at most, that found it unused.
Fits(s, r) ==
  /\ r.at \in {"count", "write"} => members[r.target] # NoMember
  /\ r.at \in {"revoke", "resolve", "claim", "joining"} => invitations[r.email] # NoInvitation
  /\ r.at = "joining" =>
       /\ ~invitations[r.email].used
       /\ r.existing # NoMember => members[r.user] # NoMember
       /\ \A z \in Slots \ {s} : ~(requests[z].at = "joining" /\ requests[z].email = r.email)
AllFit == \A s \in Slots : Fits(s, requests[s])

\* To the seats taken add those that an unused invitation may still open.
Pending == {e \in Emails : invitations[e] # NoInvitation /\ ~invitations[e].used}
Spent ==
  /\ IsFiniteSet(Seated) /\ IsFiniteSet(Pending)
  /\ Cardinality(Seated) + Cardinality(Pending) <= issued

MInv == Typed /\ AllFit /\ Spent

------------------------------------------------------------------------------
LEMMA MembershipStarts == MembershipInit => MInv
<1> SUFFICES ASSUME MembershipInit PROVE MInv
  OBVIOUS
<1>1. /\ members \in [Users -> Member \union {NoMember}]
      /\ invitations \in [Emails -> {NoInvitation}]
      /\ issued = 0 /\ calls = 0
      /\ requests \in [Slots -> {NoRequest}]
      /\ seats \in [1 .. MaxTokens -> {{}}]
  BY DEF MembershipInit, Member, MembershipStatus, OrgRole
<1>2. Typed
  <2>1. NoRequest \in MemberRequest
    BY DEF MemberRequest
  <2>2. issued \in 0 .. MaxTokens /\ calls \in 0 .. MaxRequests
    <3>1. MaxTokens \in Nat /\ MaxRequests \in Nat
      BY MembershipAssumption
    <3> QED
      BY <1>1, <3>1
  <2>3. seats \in [1 .. MaxTokens -> SUBSET Users]
    <3>1. seats = [t \in 1 .. MaxTokens |-> {}]
      BY DEF MembershipInit
    <3> QED
      BY <3>1
  <2>4. invitations \in [Emails -> Invitation \union {NoInvitation}]
    BY <1>1
  <2>5. requests \in [Slots -> MemberRequest] /\ DOMAIN requests = Slots
    BY <1>1, <2>1
  <2> QED
    BY <1>1, <2>2, <2>3, <2>4, <2>5 DEF Typed, MembershipTypeOK
<1>3. AllFit
  BY <1>1 DEF AllFit, Fits, NoRequest
<1>4. Seated = {} /\ Pending = {}
  <2>1. \A t \in 1 .. MaxTokens : seats[t] = {}
    BY <1>1
  <2>2. \A seat \in (1 .. MaxTokens) \X Users : seat[1] \in 1 .. MaxTokens
    OBVIOUS
  <2> QED
    BY <1>1, <2>1, <2>2 DEF Seated, Pending
<1>5. Spent
  BY <1>1, <1>4, FS_EmptySet DEF Spent
<1> QED
  BY <1>2, <1>3, <1>5 DEF MInv

\* A request goes on, and nothing else happens.
LEMMA GoingOn ==
  ASSUME MInv, NEW s \in Slots, NEW r \in MemberRequest, Becomes(s, r), Fits(s, r),
         UNCHANGED <<members, invitations, issued, seats>>, calls' \in 0 .. MaxRequests
  PROVE  MInv'
<1>1. requests \in [Slots -> MemberRequest]
  BY DEF MInv, Typed
<1>2. /\ requests' \in [Slots -> MemberRequest]
      /\ requests'[s] = r /\ \A z \in Slots \ {s} : requests'[z] = requests[z]
  BY <1>1 DEF Becomes
<1>3. Typed'
  BY <1>2 DEF MInv, Typed, MembershipTypeOK
<1>4. ASSUME NEW z \in Slots
      PROVE  Fits(z, requests[z])'
  <2>1. CASE z = s
    BY <1>2, <2>1 DEF Fits
  <2>2. CASE z # s
    <3>1. Fits(z, requests[z]) /\ requests'[z] = requests[z]
      BY <1>2, <2>2 DEF MInv, AllFit
    <3>2. ~(r.at = "joining" /\ requests[z].at = "joining" /\ r.email = requests[z].email)
      BY <2>2 DEF Fits
    <3> QED
      BY <1>2, <3>1, <3>2 DEF Fits
  <2> QED
    BY <2>1, <2>2
<1>5. Spent'
  BY DEF MInv, Spent, Seated, Pending
<1> QED
  BY <1>3, <1>4, <1>5 DEF MInv, AllFit

LEMMA Idles == NoRequest \in MemberRequest /\ \A s : Fits(s, NoRequest)
BY DEF MemberRequest, Fits, NoRequest

LEMMA RepliedKeeps ==
  ASSUME MInv, NEW s \in Slots, Replied(s), UNCHANGED <<members, invitations, issued, seats>>
  PROVE  MInv'
<1>1. Becomes(s, NoRequest) /\ calls' \in 0 .. MaxRequests
  BY DEF Replied, GoesOn, MInv, Typed, MembershipTypeOK
<1> QED
  BY <1>1, Idles, GoingOn

\* A request is made, or goes on.
LEMMA BeginsKeeps ==
  ASSUME MInv, NEW s \in Slots, NEW r \in MemberRequest, Begins(s, r), Fits(s, r),
         UNCHANGED <<members, invitations, issued, seats>>
  PROVE  MInv'
<1>1. calls' \in 0 .. MaxRequests
  <2>1. MaxRequests \in Nat /\ calls \in 0 .. MaxRequests
    BY MembershipAssumption DEF MInv, Typed, MembershipTypeOK
  <2>2. calls < MaxRequests /\ calls' = calls + 1
    BY DEF Begins
  <2> QED
    BY <2>1, <2>2
<1> QED
  BY <1>1, GoingOn DEF Begins

LEMMA GoesOnKeeps ==
  ASSUME MInv, NEW s \in Slots, NEW r \in MemberRequest, GoesOn(s, r), Fits(s, r),
         UNCHANGED <<members, invitations, issued, seats>>
  PROVE  MInv'
<1>1. calls' \in 0 .. MaxRequests
  BY DEF GoesOn, MInv, Typed, MembershipTypeOK
<1> QED
  BY <1>1, GoingOn DEF GoesOn

LEMMA AskKeeps ==
  ASSUME MInv, NEW s \in Slots, NEW u \in Users, Ask(s, u)
  PROVE  MInv'
<1>1. ASSUME NEW t \in Users, NEW asked \in Roles \union {Keep},
             NEW status \in (MembershipStatus \ {"INVITED"}) \union {Keep},
             PatchMember(s, u, t, asked, status)
      PROVE  MInv'
  <2> DEFINE r == [at |-> "load", target |-> t, role |-> asked, status |-> status]
  <2>1. r \in MemberRequest /\ Fits(s, r)
    BY DEF MemberRequest, Fits
  <2>2. Begins(s, r) /\ UNCHANGED <<members, invitations, issued, seats>>
    BY <1>1 DEF PatchMember
  <2> HIDE DEF r
  <2> QED
    BY <2>1, <2>2, BeginsKeeps
<1>2. ASSUME NEW t \in Users, DeleteMember(s, u, t)
      PROVE  MInv'
  <2> DEFINE r == [at |-> "load", target |-> t, role |-> Keep, status |-> "REMOVED"]
  <2>1. r \in MemberRequest /\ Fits(s, r)
    BY DEF MemberRequest, Fits, MembershipStatus
  <2>2. Begins(s, r) /\ UNCHANGED <<members, invitations, issued, seats>>
    BY <1>2 DEF DeleteMember
  <2> HIDE DEF r
  <2> QED
    BY <2>1, <2>2, BeginsKeeps
<1>3. ASSUME NEW e \in Emails, NEW asked \in Roles, Invite(s, u, e, asked)
      PROVE  MInv'
  <2> DEFINE r == [at |-> "send", email |-> e, role |-> asked]
  <2>1. r \in MemberRequest /\ Fits(s, r)
    BY DEF MemberRequest, Fits
  <2>2. Begins(s, r) /\ UNCHANGED <<members, invitations, issued, seats>>
    BY <1>3 DEF Invite
  <2> HIDE DEF r
  <2> QED
    BY <2>1, <2>2, BeginsKeeps
<1>4. ASSUME NEW e \in Emails, Revoke(s, u, e)
      PROVE  MInv'
  <2> DEFINE r == [at |-> "revoke", email |-> e]
  <2>1. r \in MemberRequest /\ Fits(s, r)
    BY <1>4 DEF MemberRequest, Fits, Revoke
  <2>2. Begins(s, r) /\ UNCHANGED <<members, invitations, issued, seats>>
    BY <1>4 DEF Revoke
  <2> HIDE DEF r
  <2> QED
    BY <2>1, <2>2, BeginsKeeps
<1>5. ASSUME NEW e \in Emails, Accept(s, u, e)
      PROVE  MInv'
  <2> DEFINE r == [at |-> "resolve", user |-> u, email |-> e, token |-> invitations[e].token]
  <2>1. invitations[e] # NoInvitation /\ invitations[e].token \in 1 .. MaxTokens
    BY <1>5 DEF Accept, MInv, Typed, MembershipTypeOK, Invitation
  <2>2. r \in MemberRequest /\ Fits(s, r)
    BY <2>1 DEF MemberRequest, Fits
  <2>3. Begins(s, r) /\ UNCHANGED <<members, invitations, issued, seats>>
    BY <1>5 DEF Accept
  <2> HIDE DEF r
  <2> QED
    BY <2>2, <2>3, BeginsKeeps
<1> QED
  BY <1>1, <1>2, <1>3, <1>4, <1>5 DEF Ask

\* What a request holds, by how far it is.
LEMMA RequestIs ==
  ASSUME MInv, NEW s \in Slots
  PROVE  LET r == requests[s] IN
         /\ r \in MemberRequest
         /\ r.at \in {"load", "count", "write"} =>
              r \in [at : {"load", "count", "write"}, target : Users, role : Roles \union {Keep},
                     status : MembershipStatus \union {Keep}]
         /\ r.at = "send" => r \in [at : {"send"}, email : Emails, role : Roles]
         /\ r.at = "revoke" => r \in [at : {"revoke"}, email : Emails]
         /\ r.at = "resolve" =>
              r \in [at : {"resolve"}, user : Users, email : Emails, token : 1 .. MaxTokens]
         /\ r.at = "claim" =>
              r \in [at : {"claim"}, user : Users, email : Emails, token : 1 .. MaxTokens,
                     role : OrgRole]
         /\ r.at = "joining" =>
              r \in [at : {"joining"}, user : Users, email : Emails, token : 1 .. MaxTokens,
                     role : OrgRole, existing : Member \union {NoMember}]
<1>1. requests[s] \in MemberRequest
  BY DEF MInv, Typed
<1> DEFINE r == requests[s]
<1> HIDE DEF r
<1>2. r \in MemberRequest
  BY <1>1 DEF r
<1>3. NoRequest.at = "idle"
  BY DEF NoRequest
<1>4. \/ r = NoRequest
      \/ /\ r.at \in {"load", "count", "write"}
         /\ r \in [at : {"load", "count", "write"}, target : Users, role : Roles \union {Keep},
                   status : MembershipStatus \union {Keep}]
      \/ r.at = "send" /\ r \in [at : {"send"}, email : Emails, role : Roles]
      \/ r.at = "revoke" /\ r \in [at : {"revoke"}, email : Emails]
      \/ /\ r.at = "resolve"
         /\ r \in [at : {"resolve"}, user : Users, email : Emails, token : 1 .. MaxTokens]
      \/ /\ r.at = "claim"
         /\ r \in [at : {"claim"}, user : Users, email : Emails, token : 1 .. MaxTokens, role : OrgRole]
      \/ /\ r.at = "joining"
         /\ r \in [at : {"joining"}, user : Users, email : Emails, token : 1 .. MaxTokens,
                   role : OrgRole, existing : Member \union {NoMember}]
  BY <1>2 DEF MemberRequest
<1> QED
  BY <1>2, <1>3, <1>4 DEF r

LEMMA LoadKeeps ==
  ASSUME MInv, NEW s \in Slots, LoadMember(s) \/ Count(s)
  PROVE  MInv'
<1>1. PICK r : r = requests[s]
  OBVIOUS
<1>2. r.at \in {"load", "count"} /\ UNCHANGED <<members, invitations, issued, seats>>
  BY <1>1 DEF LoadMember, Count
<1>3. r \in [at : {"load", "count", "write"}, target : Users, role : Roles \union {Keep},
             status : MembershipStatus \union {Keep}]
  BY <1>1, <1>2, RequestIs
<1>4. \/ Replied(s)
      \/ members[r.target] # NoMember /\ GoesOn(s, [r EXCEPT !.at = "count"])
      \/ members[r.target] # NoMember /\ GoesOn(s, [r EXCEPT !.at = "write"])
  <2>1. CASE LoadMember(s)
    BY <1>1, <2>1 DEF LoadMember
  <2>2. CASE Count(s)
    <3>1. r.at = "count" /\ Fits(s, r)
      BY <1>1, <2>2 DEF Count, MInv, AllFit
    <3> QED
      BY <1>1, <2>2, <3>1 DEF Count, Fits
  <2> QED
    BY <2>1, <2>2
<1>5. ASSUME NEW next \in {"count", "write"}, members[r.target] # NoMember
      PROVE  [r EXCEPT !.at = next] \in MemberRequest /\ Fits(s, [r EXCEPT !.at = next])
  <2>1. [r EXCEPT !.at = next] \in
          [at : {"load", "count", "write"}, target : Users, role : Roles \union {Keep},
           status : MembershipStatus \union {Keep}]
    BY <1>3
  <2>2. [r EXCEPT !.at = next].at = next /\ [r EXCEPT !.at = next].target = r.target
    BY <1>3
  <2> QED
    BY <1>5, <2>1, <2>2 DEF MemberRequest, Fits
<1> QED
  BY <1>2, <1>4, <1>5, RepliedKeeps, GoesOnKeeps

\* The answer to a request that wrote something.
LEMMA Answered ==
  ASSUME MInv, NEW s \in Slots, Replied(s)
  PROVE  /\ requests' \in [Slots -> MemberRequest] /\ DOMAIN requests' = Slots
         /\ \A z \in Slots : requests'[z] = NoRequest \/ (z # s /\ requests'[z] = requests[z])
         /\ calls' = calls
<1>1. requests \in [Slots -> MemberRequest] /\ requests' = [requests EXCEPT ![s] = NoRequest]
  BY DEF MInv, Typed, Replied, GoesOn, Becomes
<1> QED
  BY <1>1, Idles DEF Replied, GoesOn

\* The members stay members; the invitations stay, and those that are held are
\* not used up by another.
LEMMA AnsweredFits ==
  ASSUME MInv, NEW s \in Slots, Replied(s),
         \A u \in Users : members[u] # NoMember => members'[u] # NoMember,
         \A e \in Emails : /\ invitations[e] # NoInvitation => invitations'[e] # NoInvitation
                           /\ \A z \in Slots \ {s} :
                                requests[z].at = "joining" /\ requests[z].email = e
                                /\ ~invitations[e].used => ~invitations'[e].used
  PROVE  AllFit'
<1> SUFFICES ASSUME NEW z \in Slots PROVE Fits(z, requests[z])'
  BY DEF AllFit
<1>1. CASE requests'[z] = NoRequest
  BY <1>1 DEF Fits, NoRequest
<1>2. CASE z # s /\ requests'[z] = requests[z]
  <2>1. PICK r : r = requests[z]
    OBVIOUS
  <2>2. Fits(z, r)
    BY <2>1 DEF MInv, AllFit
  <2>3. r.at \in {"count", "write"} => members'[r.target] # NoMember
    <3>1. r.at \in {"count", "write"} => r.target \in Users
      BY <2>1, RequestIs
    <3> QED
      BY <2>2, <3>1 DEF Fits
  <2>4. r.at \in {"revoke", "resolve", "claim", "joining"} => r.email \in Emails
    BY <2>1, RequestIs
  <2>5. r.at \in {"revoke", "resolve", "claim", "joining"} => invitations'[r.email] # NoInvitation
    BY <2>2, <2>4 DEF Fits
  <2>6. r.at = "joining" =>
          ~invitations'[r.email].used /\ (r.existing # NoMember => members'[r.user] # NoMember)
    <3>1. r.at = "joining" => r.user \in Users
      BY <2>1, RequestIs
    <3> QED
      BY <1>2, <2>1, <2>2, <2>4, <3>1 DEF Fits
  <2>7. r.at = "joining" =>
          \A y \in Slots \ {z} : ~(requests'[y].at = "joining" /\ requests'[y].email = r.email)
    <3>1. ASSUME r.at = "joining", NEW y \in Slots \ {z}
          PROVE  ~(requests'[y].at = "joining" /\ requests'[y].email = r.email)
      <4>1. requests'[y] = NoRequest \/ requests'[y] = requests[y]
        BY Answered
      <4>2. NoRequest.at # "joining"
        BY DEF NoRequest
      <4> QED
        BY <2>2, <3>1, <4>1, <4>2 DEF Fits
    <3> QED
      BY <3>1
  <2> QED
    BY <1>2, <2>1, <2>3, <2>5, <2>6, <2>7 DEF Fits
<1> QED
  BY <1>1, <1>2, Answered

LEMMA WriteKeeps ==
  ASSUME MInv, NEW s \in Slots, Write(s)
  PROVE  MInv'
<1>1. PICK r : r = requests[s]
  OBVIOUS
<1>2. /\ r.at = "write" /\ Replied(s) /\ UNCHANGED <<invitations, issued, seats>>
      /\ members' = [members EXCEPT ![r.target] = Patched(members[r.target], r)]
  BY <1>1 DEF Write
<1>3. /\ r.target \in Users /\ r.role \in Roles \union {Keep}
      /\ r.status \in MembershipStatus \union {Keep}
  BY <1>1, <1>2, RequestIs
<1>4. members \in [Users -> Member \union {NoMember}] /\ members[r.target] \in Member
  <2>1. members[r.target] # NoMember
    BY <1>1, <1>2 DEF MInv, AllFit, Fits
  <2> QED
    BY <1>3, <2>1 DEF MInv, Typed, MembershipTypeOK
<1>5. PICK p : p = Patched(members[r.target], r)
  OBVIOUS
<1>6. p \in Member /\ p # NoMember
  <2>1. Roles \subseteq OrgRole
    BY MembershipAssumption
  <2>2. p \in Member
    BY <1>3, <1>4, <1>5, <2>1 DEF Patched, Member
  <2>3. NoMember \notin Member
    BY DEF NoMember, Member, MembershipStatus
  <2> QED
    BY <2>2, <2>3
<1>7. /\ members' \in [Users -> Member \union {NoMember}]
      /\ \A u \in Users : members[u] # NoMember => members'[u] # NoMember
  BY <1>2, <1>4, <1>5, <1>6
<1>8. Typed'
  BY <1>2, <1>7, Answered DEF MInv, Typed, MembershipTypeOK
<1>9. AllFit'
  BY <1>2, <1>7, AnsweredFits
<1>10. Spent'
  BY <1>2 DEF MInv, Spent, Seated, Pending
<1> QED
  BY <1>8, <1>9, <1>10 DEF MInv

LEMMA NoneIsNone == NoInvitation \notin Invitation
<1>1. \A i \in Invitation : i.token # 0
  BY DEF Invitation
<1> QED
  BY <1>1 DEF NoInvitation

\* An invitation is marked, and as unused as before.
LEMMA Marking ==
  ASSUME MInv, NEW e \in Emails, NEW i \in Invitation, invitations[e] # NoInvitation,
         i.used = invitations[e].used, invitations' = [invitations EXCEPT ![e] = i]
  PROVE  /\ invitations' \in [Emails -> Invitation \union {NoInvitation}]
         /\ Pending' = Pending
         /\ \A f \in Emails : /\ invitations[f] # NoInvitation => invitations'[f] # NoInvitation
                              /\ ~invitations[f].used => ~invitations'[f].used
<1>1. invitations \in [Emails -> Invitation \union {NoInvitation}]
  BY DEF MInv, Typed, MembershipTypeOK
<1>2. /\ invitations' \in [Emails -> Invitation \union {NoInvitation}]
      /\ \A f \in Emails : invitations'[f] = IF f = e THEN i ELSE invitations[f]
  BY <1>1
<1>3. \A f \in Emails : /\ invitations[f] # NoInvitation <=> invitations'[f] # NoInvitation
                        /\ invitations'[f].used = invitations[f].used
  BY <1>2, NoneIsNone
<1> QED
  BY <1>2, <1>3 DEF Pending

LEMMA RevokeWriteKeeps ==
  ASSUME MInv, NEW s \in Slots, RevokeWrite(s)
  PROVE  MInv'
<1>1. PICK e : e = requests[s].email
  OBVIOUS
<1>2. /\ Replied(s) /\ UNCHANGED <<members, issued, seats>> /\ requests[s].at = "revoke"
      /\ invitations' = [invitations EXCEPT ![e].revoked = TRUE]
  BY <1>1 DEF RevokeWrite
<1>3. e \in Emails /\ invitations[e] # NoInvitation
  BY <1>1, <1>2, RequestIs DEF MInv, AllFit, Fits
<1>4. PICK i : i = [invitations[e] EXCEPT !.revoked = TRUE]
  OBVIOUS
<1>5. invitations[e] \in Invitation
  BY <1>3 DEF MInv, Typed, MembershipTypeOK
<1>6. i \in Invitation /\ i.used = invitations[e].used
  BY <1>4, <1>5 DEF Invitation
<1>7. invitations' = [invitations EXCEPT ![e] = i]
  BY <1>2, <1>4
<1>8. Typed'
  BY <1>2, <1>3, <1>6, <1>7, Marking, Answered DEF MInv, Typed, MembershipTypeOK
<1>9. AllFit'
  BY <1>2, <1>3, <1>6, <1>7, Marking, AnsweredFits
<1>10. Pending' = Pending /\ Seated' = Seated
  BY <1>2, <1>3, <1>6, <1>7, Marking DEF Seated
<1> QED
  BY <1>2, <1>8, <1>9, <1>10 DEF MInv, Spent

LEMMA ExpireKeeps ==
  ASSUME MInv, NEW e \in Emails, ExpireInvitation(e)
  PROVE  MInv'
<1>1. /\ UNCHANGED <<members, issued, calls, requests, seats>> /\ invitations[e] # NoInvitation
      /\ invitations' = [invitations EXCEPT ![e].expired = TRUE]
  BY DEF ExpireInvitation
<1>2. PICK i : i = [invitations[e] EXCEPT !.expired = TRUE]
  OBVIOUS
<1>3. invitations[e] \in Invitation
  BY <1>1 DEF MInv, Typed, MembershipTypeOK
<1>4. i \in Invitation /\ i.used = invitations[e].used
  BY <1>2, <1>3 DEF Invitation
<1>5. invitations' = [invitations EXCEPT ![e] = i]
  BY <1>1, <1>2
<1>6. Typed'
  BY <1>1, <1>4, <1>5, Marking DEF MInv, Typed, MembershipTypeOK
<1>7. ASSUME NEW s \in Slots
      PROVE  Fits(s, requests[s])'
  <2>1. PICK r : r = requests[s]
    OBVIOUS
  <2>2. r.at \in {"revoke", "resolve", "claim", "joining"} => r.email \in Emails
    BY <2>1, RequestIs
  <2>3. Fits(s, r) /\ requests' = requests /\ members' = members
    BY <1>1, <2>1 DEF MInv, AllFit
  <2>4. \A f \in Emails : /\ invitations[f] # NoInvitation => invitations'[f] # NoInvitation
                          /\ ~invitations[f].used => ~invitations'[f].used
    BY <1>1, <1>4, <1>5, Marking
  <2> QED
    BY <2>1, <2>2, <2>3, <2>4 DEF Fits
<1>8. Pending' = Pending /\ Seated' = Seated
  BY <1>1, <1>4, <1>5, Marking DEF Seated
<1> QED
  BY <1>1, <1>6, <1>7, <1>8 DEF MInv, Spent, AllFit

LEMMA SendKeeps ==
  ASSUME MInv, NEW s \in Slots, SendInvitation(s)
  PROVE  MInv'
<1>1. PICK e, i : /\ e = requests[s].email
                  /\ i = [token |-> issued + 1, role |-> requests[s].role, used |-> FALSE,
                          revoked |-> FALSE, expired |-> FALSE]
  OBVIOUS
<1>2. /\ Replied(s) /\ UNCHANGED <<members, seats>> /\ requests[s].at = "send"
      /\ ~Held(e) /\ issued < MaxTokens /\ issued' = issued + 1
      /\ invitations' = [invitations EXCEPT ![e] = i]
  BY <1>1 DEF SendInvitation
<1>3. e \in Emails /\ requests[s].role \in OrgRole
  BY <1>1, <1>2, RequestIs, MembershipAssumption
<1>4. /\ issued \in Nat /\ MaxTokens \in Nat /\ issued' \in 0 .. MaxTokens
      /\ issued + 1 \in 1 .. MaxTokens
  <2>1. MaxTokens \in Nat /\ issued \in 0 .. MaxTokens
    BY MembershipAssumption DEF MInv, Typed, MembershipTypeOK
  <2> QED
    BY <1>2, <2>1
<1>5. i \in Invitation
  BY <1>1, <1>3, <1>4 DEF Invitation
<1>6. /\ invitations' \in [Emails -> Invitation \union {NoInvitation}]
      /\ \A f \in Emails : invitations'[f] = IF f = e THEN i ELSE invitations[f]
  <2>1. invitations \in [Emails -> Invitation \union {NoInvitation}]
    BY DEF MInv, Typed, MembershipTypeOK
  <2> QED
    BY <1>2, <1>3, <1>5, <2>1
<1>7. Typed'
  BY <1>2, <1>4, <1>6, Answered DEF MInv, Typed, MembershipTypeOK
<1>8. AllFit'
  <2>1. \A f \in Emails : invitations[f] # NoInvitation => invitations'[f] # NoInvitation
    BY <1>5, <1>6, NoneIsNone
  <2>2. \A z \in Slots : ~(requests[z].at = "joining" /\ requests[z].email = e)
    BY <1>2 DEF Held
  <2>3. \A f \in Emails : \A z \in Slots \ {s} :
          requests[z].at = "joining" /\ requests[z].email = f
          /\ ~invitations[f].used => ~invitations'[f].used
    BY <1>6, <2>2
  <2> QED
    BY <1>2, <2>1, <2>3, AnsweredFits
<1>9. Spent'
  <2>1. Pending' \subseteq Pending \union {e}
    BY <1>6 DEF Pending
  <2> DEFINE more == Pending \union {e}
  <2>2. /\ IsFiniteSet(Pending) /\ Cardinality(Pending) \in Nat /\ IsFiniteSet(more)
        /\ Cardinality(more) \in Nat /\ Cardinality(more) <= Cardinality(Pending) + 1
    <3>1. IsFiniteSet(Pending) /\ Cardinality(Pending) \in Nat
      BY FS_CardinalityType DEF MInv, Spent
    <3>2. /\ IsFiniteSet(more)
          /\ Cardinality(more) = Cardinality(Pending) \/ Cardinality(more) = Cardinality(Pending) + 1
      BY <3>1, FS_AddElement
    <3> QED
      BY <3>1, <3>2
  <2>3. IsFiniteSet(Pending') /\ Cardinality(Pending') <= Cardinality(Pending) + 1
        /\ Cardinality(Pending') \in Nat
    <3>1. Pending' \subseteq more
      BY <2>1
    <3> HIDE DEF more
    <3> QED
      BY <2>2, <3>1, FS_Subset, FS_CardinalityType
  <2>4. Seated' = Seated
    BY <1>2 DEF Seated
  <2>5. /\ IsFiniteSet(Seated) /\ Cardinality(Seated) \in Nat
        /\ Cardinality(Seated) + Cardinality(Pending) <= issued
    BY FS_CardinalityType DEF MInv, Spent
  <2> QED
    BY <1>2, <1>4, <2>2, <2>3, <2>4, <2>5 DEF Spent
<1> QED
  BY <1>7, <1>8, <1>9 DEF MInv

LEMMA ResolveKeeps ==
  ASSUME MInv, NEW s \in Slots, Resolve(s)
  PROVE  MInv'
<1>1. PICK r, i : r = requests[s] /\ i = invitations[r.email]
  OBVIOUS
<1>2. r.at = "resolve" /\ UNCHANGED <<members, invitations, issued, seats>>
  BY <1>1 DEF Resolve
<1>3. r \in [at : {"resolve"}, user : Users, email : Emails, token : 1 .. MaxTokens]
  BY <1>1, <1>2, RequestIs
<1>4. PICK q : q = [at |-> "claim", user |-> r.user, email |-> r.email, token |-> r.token,
                    role |-> i.role]
  OBVIOUS
<1>5. Replied(s) \/ GoesOn(s, q)
  BY <1>1, <1>4 DEF Resolve
<1>6. i # NoInvitation /\ i \in Invitation
  <2>1. i # NoInvitation
    BY <1>1, <1>2 DEF MInv, AllFit, Fits
  <2> QED
    BY <1>1, <1>3, <2>1 DEF MInv, Typed, MembershipTypeOK
<1>7. q \in MemberRequest /\ q.at = "claim" /\ q.email = r.email
  <2>1. i.role \in OrgRole
    BY <1>6 DEF Invitation
  <2>2. q \in [at : {"claim"}, user : Users, email : Emails, token : 1 .. MaxTokens, role : OrgRole]
    BY <1>3, <1>4, <2>1
  <2> QED
    BY <1>4, <2>2 DEF MemberRequest
<1>8. Fits(s, q)
  BY <1>1, <1>6, <1>7 DEF Fits
<1> QED
  BY <1>2, <1>5, <1>7, <1>8, RepliedKeeps, GoesOnKeeps

LEMMA ClaimKeeps ==
  ASSUME MInv, NEW s \in Slots, Claim(s)
  PROVE  MInv'
<1>1. PICK r : r = requests[s]
  OBVIOUS
<1>2. /\ r.at = "claim" /\ UNCHANGED <<members, invitations, issued, seats>>
      /\ ~Held(r.email)
  BY <1>1 DEF Claim
<1>3. r \in [at : {"claim"}, user : Users, email : Emails, token : 1 .. MaxTokens, role : OrgRole]
  BY <1>1, <1>2, RequestIs
<1>4. PICK q : q = [at |-> "joining", user |-> r.user, email |-> r.email, token |-> r.token,
                    role |-> r.role, existing |-> members[r.user]]
  OBVIOUS
<1>5. Replied(s) \/ (~invitations[r.email].used /\ GoesOn(s, q))
  BY <1>1, <1>4 DEF Claim, Claimable
<1>6. q \in MemberRequest /\ q.at = "joining" /\ q.email = r.email
  <2>1. members[r.user] \in Member \union {NoMember}
    BY <1>3 DEF MInv, Typed, MembershipTypeOK
  <2>2. q \in [at : {"joining"}, user : Users, email : Emails, token : 1 .. MaxTokens,
               role : OrgRole, existing : Member \union {NoMember}]
    BY <1>3, <1>4, <2>1
  <2> QED
    BY <1>4, <2>2 DEF MemberRequest
<1>7. invitations[r.email] # NoInvitation
  BY <1>1, <1>2 DEF MInv, AllFit, Fits
<1>8. ~invitations[r.email].used => Fits(s, q)
  BY <1>2, <1>4, <1>6, <1>7 DEF Fits, Held
<1> QED
  BY <1>2, <1>5, <1>6, <1>8, RepliedKeeps, GoesOnKeeps

\* What acceptInvitation's transaction writes.
LEMMA JoinIs ==
  ASSUME NEW s, Join(s)
  PROVE  LET r == requests[s] IN
         \/ UNCHANGED <<members, invitations, seats>>
         \/ /\ invitations' = [invitations EXCEPT ![r.email].used = TRUE]
            /\ \/ members' = [members EXCEPT ![r.user] = [status |-> "ACTIVE", role |-> r.role]]
               \/ r.existing # NoMember /\ members' = [members EXCEPT ![r.user].status = "ACTIVE"]
               \/ members' = members
            /\ \/ seats' = [seats EXCEPT ![r.token] = seats[r.token] \union {r.user}]
               \/ seats' = seats
BY Zenon DEF Join

\* A membership is opened, or not, and the invitation is used up.
LEMMA JoinKeeps ==
  ASSUME MInv, NEW s \in Slots, Join(s)
  PROVE  MInv'
<1>1. PICK r : r = requests[s]
  OBVIOUS
<1>2. PICK u, e, t : u = r.user /\ e = r.email /\ t = r.token
  OBVIOUS
<1>3. r.at = "joining" /\ Replied(s) /\ UNCHANGED issued
  BY <1>1 DEF Join
<1>4. u \in Users /\ e \in Emails /\ t \in 1 .. MaxTokens /\ r.role \in OrgRole
  BY <1>1, <1>2, <1>3, RequestIs
<1>5. /\ invitations[e] # NoInvitation /\ ~invitations[e].used
      /\ \A z \in Slots \ {s} : ~(requests[z].at = "joining" /\ requests[z].email = e)
  BY <1>1, <1>2, <1>3 DEF MInv, AllFit, Fits
<1>6. CASE UNCHANGED <<members, invitations, seats>>
  BY <1>3, <1>6, RepliedKeeps
<1>7. CASE /\ invitations' = [invitations EXCEPT ![e].used = TRUE]
           /\ \/ members' = [members EXCEPT ![u] = [status |-> "ACTIVE", role |-> r.role]]
              \/ members[u] # NoMember /\ members' = [members EXCEPT ![u].status = "ACTIVE"]
              \/ members' = members
           /\ \/ seats' = [seats EXCEPT ![t] = seats[t] \union {u}]
              \/ seats' = seats
  <2>1. PICK i : i = [invitations[e] EXCEPT !.used = TRUE]
    OBVIOUS
  <2>2. invitations[e] \in Invitation
    BY <1>4, <1>5 DEF MInv, Typed, MembershipTypeOK
  <2>3. i \in Invitation /\ i.used
    BY <2>1, <2>2 DEF Invitation
  <2>4. /\ invitations' \in [Emails -> Invitation \union {NoInvitation}]
        /\ \A f \in Emails : invitations'[f] = IF f = e THEN i ELSE invitations[f]
    <3>1. invitations' = [invitations EXCEPT ![e] = i]
      BY <1>7, <2>1
    <3> QED
      BY <1>4, <2>3, <3>1 DEF MInv, Typed, MembershipTypeOK
  <2>5. /\ members' \in [Users -> Member \union {NoMember}]
        /\ \A v \in Users : members[v] # NoMember => members'[v] # NoMember
    <3>1. members \in [Users -> Member \union {NoMember}] /\ NoMember \notin Member
      BY DEF MInv, Typed, MembershipTypeOK, NoMember, Member, MembershipStatus
    <3>2. CASE members' = [members EXCEPT ![u] = [status |-> "ACTIVE", role |-> r.role]]
      <4>1. PICK m : m = [status |-> "ACTIVE", role |-> r.role]
        OBVIOUS
      <4>2. m \in Member
        BY <1>4, <4>1 DEF Member, MembershipStatus
      <4>3. members' = [members EXCEPT ![u] = m]
        BY <3>2, <4>1
      <4> QED
        BY <1>4, <3>1, <4>2, <4>3
    <3>3. CASE members[u] # NoMember /\ members' = [members EXCEPT ![u].status = "ACTIVE"]
      <4>1. PICK m : m = [members[u] EXCEPT !.status = "ACTIVE"]
        OBVIOUS
      <4>2. members[u] \in Member
        BY <1>4, <3>1, <3>3
      <4>3. m \in Member
        BY <4>1, <4>2 DEF Member, MembershipStatus
      <4>4. members' = [members EXCEPT ![u] = m]
        BY <3>3, <4>1
      <4> QED
        BY <1>4, <3>1, <4>3, <4>4
    <3> QED
      BY <1>7, <3>1, <3>2, <3>3
  <2>6. /\ seats' \in [1 .. MaxTokens -> SUBSET Users]
        /\ \A k \in 1 .. MaxTokens : seats'[k] \subseteq IF k = t THEN seats[k] \union {u} ELSE seats[k]
    BY <1>4, <1>7 DEF MInv, Typed, MembershipTypeOK
  <2>7. Typed'
    BY <1>3, <2>4, <2>5, <2>6, Answered DEF MInv, Typed, MembershipTypeOK
  <2>8. AllFit'
    <3>1. \A f \in Emails : invitations[f] # NoInvitation => invitations'[f] # NoInvitation
      BY <2>3, <2>4, NoneIsNone
    <3>2. \A f \in Emails : \A z \in Slots \ {s} :
            requests[z].at = "joining" /\ requests[z].email = f
            /\ ~invitations[f].used => ~invitations'[f].used
      BY <1>5, <2>4
    <3> QED
      BY <1>3, <2>5, <3>1, <3>2, AnsweredFits
  <2>9. Spent'
    <3>1. Pending' = Pending \ {e} /\ e \in Pending
      BY <1>4, <1>5, <2>3, <2>4 DEF Pending
    <3>2. Seated' \subseteq Seated \union {<<t, u>>}
      <4>1. \A seat \in (1 .. MaxTokens) \X Users :
              seat[1] \in 1 .. MaxTokens /\ seat = <<seat[1], seat[2]>>
        OBVIOUS
      <4>2. \A seat \in (1 .. MaxTokens) \X Users :
              seat[2] \in seats'[seat[1]] => seat[2] \in seats[seat[1]] \/ seat = <<t, u>>
        BY <2>6, <4>1
      <4> QED
        BY <4>2 DEF Seated
    <3> DEFINE more == Seated \union {<<t, u>>}
               less == Pending \ {e}
    <3>3. /\ IsFiniteSet(Seated) /\ IsFiniteSet(Pending)
          /\ Cardinality(Seated) \in Nat /\ Cardinality(Pending) \in Nat
          /\ Cardinality(Seated) + Cardinality(Pending) <= issued
      BY FS_CardinalityType DEF MInv, Spent
    <3>4. /\ IsFiniteSet(less) /\ Cardinality(less) = Cardinality(Pending) - 1
      BY <3>1, <3>3, FS_RemoveElement
    <3>5. IsFiniteSet(more) /\ Cardinality(more) <= Cardinality(Seated) + 1 /\ Cardinality(more) \in Nat
      <4>1. /\ IsFiniteSet(more)
            /\ Cardinality(more) = Cardinality(Seated) \/ Cardinality(more) = Cardinality(Seated) + 1
        BY <3>3, FS_AddElement
      <4> QED
        BY <3>3, <4>1
    <3>6. IsFiniteSet(Seated') /\ Cardinality(Seated') <= Cardinality(more) /\ Cardinality(Seated') \in Nat
      <4>1. Seated' \subseteq more
        BY <3>2
      <4> HIDE DEF more
      <4> QED
        BY <3>5, <4>1, FS_Subset, FS_CardinalityType
    <3>7. issued \in Nat
      BY DEF MInv, Typed, MembershipTypeOK
    <3>8. Pending' = less
      BY <3>1
    <3> HIDE DEF more, less
    <3> QED
      BY <1>3, <3>3, <3>4, <3>5, <3>6, <3>7, <3>8 DEF Spent
  <2> QED
    BY <2>7, <2>8, <2>9 DEF MInv
<1>8. \/ UNCHANGED <<members, invitations, seats>>
      \/ /\ invitations' = [invitations EXCEPT ![e].used = TRUE]
         /\ \/ members' = [members EXCEPT ![u] = [status |-> "ACTIVE", role |-> r.role]]
            \/ members[u] # NoMember /\ members' = [members EXCEPT ![u].status = "ACTIVE"]
            \/ members' = members
         /\ \/ seats' = [seats EXCEPT ![t] = seats[t] \union {u}]
            \/ seats' = seats
  <2>1. r.existing # NoMember => members[u] # NoMember
    BY <1>1, <1>2, <1>3 DEF MInv, AllFit, Fits
  <2> QED
    BY <1>1, <1>2, <2>1, JoinIs
<1> QED
  BY <1>6, <1>7, <1>8

LEMMA ServeKeeps ==
  ASSUME MInv, NEW s \in Slots, Serve(s)
  PROVE  MInv'
BY LoadKeeps, WriteKeeps, SendKeeps, RevokeWriteKeeps, ResolveKeeps, ClaimKeeps, JoinKeeps DEF Serve

LEMMA MembershipInductive == MInv /\ [MembershipNext]_memberVars => MInv'
<1> SUFFICES ASSUME MInv, [MembershipNext]_memberVars PROVE MInv'
  OBVIOUS
<1>1. CASE UNCHANGED memberVars
  <2>1. Typed' /\ AllFit'
    BY <1>1 DEF memberVars, MInv, Typed, MembershipTypeOK, AllFit, Fits
  <2>2. Spent'
    BY <1>1 DEF memberVars, MInv, Spent, Seated, Pending
  <2> QED
    BY <2>1, <2>2 DEF MInv
<1>2. CASE MembershipNext
  BY <1>2, ServeKeeps, AskKeeps, ExpireKeeps DEF MembershipNext
<1> QED
  BY <1>1, <1>2

LEMMA MembershipAlways == MembershipSpec => []MInv
BY MembershipStarts, MembershipInductive, PTL DEF MembershipSpec

\* The rows of an organization stay well formed, whatever requests race.
THEOREM MembersTyped == MembershipSpec => []MembershipTypeOK
<1>1. MInv => MembershipTypeOK
  BY DEF MInv, Typed
<1> QED
  BY <1>1, MembershipAlways, PTL

\* No more memberships are opened through invitations than invitations were
\* sent (acceptInvitation claims the row, sendInvitation replaces it).
THEOREM NoSeatUninvited == MembershipSpec => []SeatsAreInvited
<1>1. MInv => SeatsAreInvited
  <2> SUFFICES ASSUME MInv PROVE SeatsAreInvited
    OBVIOUS
  <2>1. Cardinality(Seated) \in Nat /\ Cardinality(Pending) \in Nat /\ issued \in Nat
    BY FS_CardinalityType DEF MInv, Spent, Typed, MembershipTypeOK
  <2> QED
    BY <2>1 DEF MInv, Spent, SeatsAreInvited
<1> QED
  BY <1>1, MembershipAlways, PTL

------------------------------------------------------------------------------
\* Ownership is handed on by owners only.

LEMMA OnlyOwnersMakeOwners ==
  ASSUME NEW r \in OrgRole, CanAssignRole(r, "OWNER")
  PROVE  r = "OWNER"
<1>1. CASE r = "ADMIN"
  <2>1. "ADMIN" # "OWNER"
    OBVIOUS
  <2>2. Delegatable[r] = OrgRole \ {"OWNER"}
    BY <1>1, <2>1, Zenon DEF Delegatable, OrgRole
  <2> QED
    BY <2>2 DEF CanAssignRole
<1>2. CASE r # "ADMIN" /\ r # "OWNER"
  <2>1. Delegatable[r] = {}
    BY <1>2, Zenon DEF Delegatable
  <2> QED
    BY <2>1 DEF CanAssignRole
<1> QED
  BY <1>1, <1>2

\* A request that hands on ownership.
HandsOn(r) ==
  /\ r.at \in {"load", "count", "write", "send", "claim", "joining"}
  /\ r.role = "OWNER"

Abroad ==
  \/ \E u \in Users : members[u].role = "OWNER"
  \/ \E e \in Emails : invitations[e] # NoInvitation /\ invitations[e].role = "OWNER"
  \/ \E s \in Slots : HandsOn(requests[s])

LEMMA HandsOnIs ==
  ASSUME NEW r \in MemberRequest
  PROVE  HandsOn(r) <=> r.at # "idle" /\ "role" \in DOMAIN r /\ r.role = "OWNER"
<1>1. r.at \in {"load", "count", "write", "send", "claim", "joining"} <=>
        r.at # "idle" /\ "role" \in DOMAIN r
  BY DEF MemberRequest, NoRequest
<1> QED
  BY <1>1 DEF HandsOn

LEMMA AbroadIs == Typed => (OwnershipAbroad <=> Abroad)
<1> SUFFICES ASSUME Typed PROVE OwnershipAbroad <=> Abroad
  OBVIOUS
<1>1. ASSUME NEW s \in Slots
      PROVE  HandsOn(requests[s]) <=>
               /\ requests[s].at # "idle" /\ "role" \in DOMAIN requests[s]
               /\ requests[s].role = "OWNER"
  <2>1. requests[s] \in MemberRequest
    BY DEF Typed
  <2> QED
    BY <2>1, HandsOnIs
<1> QED
  BY <1>1, Zenon DEF OwnershipAbroad, Abroad

LEMMA IdlesNotOn == ~HandsOn(NoRequest)
BY DEF HandsOn, NoRequest

\* A request that hands on what is abroad already.
LEMMA GoingOnMintsNot ==
  ASSUME MInv, NEW s \in Slots, NEW r, Becomes(s, r), UNCHANGED <<members, invitations>>,
         HandsOn(r) => Abroad, Abroad'
  PROVE  Abroad
<1>1. \A z \in Slots : requests'[z] = IF z = s THEN r ELSE requests[z]
  BY DEF MInv, Typed, Becomes
<1> QED
  BY <1>1 DEF Abroad

\* Whoever may grant ownership has it.
LEMMA GrantsOwned ==
  ASSUME MInv, NEW u \in Users, NEW permission, Enters(u, permission),
         MayAssign(members[u].role, "OWNER")
  PROVE  Abroad
<1>1. members[u] \in Member
  BY DEF Enters, MInv, Typed, MembershipTypeOK, NoMember
<1>2. members[u].role \in OrgRole
  BY <1>1 DEF Member
<1>3. members[u].role = "OWNER"
  BY <1>2, OnlyOwnersMakeOwners DEF MayAssign
<1> QED
  BY <1>3 DEF Abroad

LEMMA AskMintsNot ==
  ASSUME MInv, NEW s \in Slots, NEW u \in Users, Ask(s, u), Abroad'
  PROVE  Abroad
<1>1. ASSUME NEW t \in Users, NEW asked, NEW status, PatchMember(s, u, t, asked, status)
      PROVE  Abroad
  <2> DEFINE r == [at |-> "load", target |-> t, role |-> asked, status |-> status]
  <2>1. Begins(s, r) /\ UNCHANGED <<members, invitations>>
    BY <1>1 DEF PatchMember
  <2>2. HandsOn(r) => asked = "OWNER"
    BY DEF HandsOn
  <2>3. asked = "OWNER" => Abroad
    BY <1>1, GrantsOwned DEF PatchMember, Keep
  <2> HIDE DEF r
  <2> QED
    BY <2>1, <2>2, <2>3, GoingOnMintsNot DEF Begins
<1>2. ASSUME NEW t \in Users, DeleteMember(s, u, t)
      PROVE  Abroad
  <2> DEFINE r == [at |-> "load", target |-> t, role |-> Keep, status |-> "REMOVED"]
  <2>1. Begins(s, r) /\ UNCHANGED <<members, invitations>>
    BY <1>2 DEF DeleteMember
  <2>2. ~HandsOn(r)
    BY DEF HandsOn, Keep
  <2> HIDE DEF r
  <2> QED
    BY <2>1, <2>2, GoingOnMintsNot DEF Begins
<1>3. ASSUME NEW e \in Emails, NEW asked \in Roles, Invite(s, u, e, asked)
      PROVE  Abroad
  <2> DEFINE r == [at |-> "send", email |-> e, role |-> asked]
  <2>1. Begins(s, r) /\ UNCHANGED <<members, invitations>>
    BY <1>3 DEF Invite
  <2>2. HandsOn(r) => asked = "OWNER"
    BY DEF HandsOn
  <2>3. asked = "OWNER" => Abroad
    BY <1>3, GrantsOwned DEF Invite
  <2> HIDE DEF r
  <2> QED
    BY <2>1, <2>2, <2>3, GoingOnMintsNot DEF Begins
<1>4. ASSUME NEW e \in Emails, Revoke(s, u, e)
      PROVE  Abroad
  <2> DEFINE r == [at |-> "revoke", email |-> e]
  <2>1. Begins(s, r) /\ UNCHANGED <<members, invitations>> /\ ~HandsOn(r)
    BY <1>4 DEF Revoke, HandsOn
  <2> HIDE DEF r
  <2> QED
    BY <2>1, GoingOnMintsNot DEF Begins
<1>5. ASSUME NEW e \in Emails, Accept(s, u, e)
      PROVE  Abroad
  <2> DEFINE r == [at |-> "resolve", user |-> u, email |-> e, token |-> invitations[e].token]
  <2>1. Begins(s, r) /\ UNCHANGED <<members, invitations>> /\ ~HandsOn(r)
    BY <1>5 DEF Accept, HandsOn
  <2> HIDE DEF r
  <2> QED
    BY <2>1, GoingOnMintsNot DEF Begins
<1> QED
  BY <1>1, <1>2, <1>3, <1>4, <1>5 DEF Ask

LEMMA RepliedMintsNot ==
  ASSUME MInv, NEW s \in Slots, Replied(s), UNCHANGED <<members, invitations>>, Abroad'
  PROVE  Abroad
BY IdlesNotOn, GoingOnMintsNot DEF Replied, GoesOn

\* A step of a request that writes: ownership written was handed on, or held.
LEMMA WritingMintsNot ==
  ASSUME MInv, NEW s \in Slots, Replied(s) \/ UNCHANGED requests,
         \A u \in Users : members'[u].role = "OWNER" => Abroad,
         \A e \in Emails : invitations'[e] # NoInvitation /\ invitations'[e].role = "OWNER" => Abroad,
         Abroad'
  PROVE  Abroad
<1>1. \A z \in Slots : requests'[z] = NoRequest \/ requests'[z] = requests[z]
  BY Answered
<1>2. \A z \in Slots : HandsOn(requests'[z]) => HandsOn(requests[z])
  BY <1>1, IdlesNotOn
<1> QED
  BY <1>2 DEF Abroad

LEMMA LoadMintsNot ==
  ASSUME MInv, NEW s \in Slots, LoadMember(s) \/ Count(s) \/ Resolve(s) \/ Claim(s), Abroad'
  PROVE  Abroad
<1>1. PICK r : r = requests[s]
  OBVIOUS
<1>2. r.at \in {"load", "count", "resolve", "claim"} /\ UNCHANGED <<members, invitations>>
  BY <1>1 DEF LoadMember, Count, Resolve, Claim
<1>3. HandsOn(r) => Abroad
  BY <1>1 DEF Abroad
<1>4. CASE Replied(s)
  BY <1>2, <1>4, RepliedMintsNot
<1>5. CASE LoadMember(s) \/ Count(s)
  <2>1. r.at \in {"load", "count"}
    BY <1>1, <1>5 DEF LoadMember, Count
  <2>2. r \in [at : {"load", "count", "write"}, target : Users, role : Roles \union {Keep},
               status : MembershipStatus \union {Keep}]
    BY <1>1, <2>1, RequestIs
  <2>3. ASSUME NEW next, GoesOn(s, [r EXCEPT !.at = next])
        PROVE  Abroad
    <3>1. PICK q : q = [r EXCEPT !.at = next]
      OBVIOUS
    <3>2. q.role = r.role
      BY <2>2, <3>1
    <3>3. HandsOn(q) => HandsOn(r)
      BY <2>1, <3>2 DEF HandsOn
    <3> QED
      BY <1>2, <1>3, <2>3, <3>1, <3>3, GoingOnMintsNot DEF GoesOn
  <2> QED
    BY <1>1, <1>4, <1>5, <2>3 DEF LoadMember, Count
<1>6. CASE Resolve(s)
  <2>1. r.at = "resolve"
    BY <1>1, <1>6 DEF Resolve
  <2>2. r.email \in Emails /\ invitations[r.email] # NoInvitation
    BY <1>1, <2>1, RequestIs DEF MInv, AllFit, Fits
  <2>3. PICK q : q = [at |-> "claim", user |-> r.user, email |-> r.email, token |-> r.token,
                      role |-> invitations[r.email].role]
    OBVIOUS
  <2>4. HandsOn(q) => Abroad
    BY <2>2, <2>3 DEF HandsOn, Abroad
  <2>5. Replied(s) \/ GoesOn(s, q)
    BY <1>1, <1>6, <2>3 DEF Resolve
  <2> QED
    BY <1>2, <1>4, <2>4, <2>5, GoingOnMintsNot DEF GoesOn
<1>7. CASE Claim(s)
  <2>1. r.at = "claim"
    BY <1>1, <1>7 DEF Claim
  <2>2. PICK q : q = [at |-> "joining", user |-> r.user, email |-> r.email, token |-> r.token,
                      role |-> r.role, existing |-> members[r.user]]
    OBVIOUS
  <2>3. HandsOn(q) => HandsOn(r)
    BY <2>1, <2>2 DEF HandsOn
  <2>4. Replied(s) \/ GoesOn(s, q)
    BY <1>1, <1>7, <2>2 DEF Claim
  <2> QED
    BY <1>2, <1>3, <1>4, <2>3, <2>4, GoingOnMintsNot DEF GoesOn
<1> QED
  BY <1>5, <1>6, <1>7

LEMMA WriteMintsNot ==
  ASSUME MInv, NEW s \in Slots, Write(s), Abroad'
  PROVE  Abroad
<1>1. PICK r : r = requests[s]
  OBVIOUS
<1>2. /\ r.at = "write" /\ Replied(s) /\ UNCHANGED invitations
      /\ members' = [members EXCEPT ![r.target] = Patched(members[r.target], r)]
  BY <1>1 DEF Write
<1>3. r.target \in Users /\ members \in [Users -> Member \union {NoMember}]
  BY <1>1, <1>2, RequestIs DEF MInv, Typed, MembershipTypeOK
<1>4. PICK p : p = Patched(members[r.target], r)
  OBVIOUS
<1>5. p.role = "OWNER" => Abroad
  <2>1. p.role = IF r.role = Keep THEN members[r.target].role ELSE r.role
    BY <1>4 DEF Patched
  <2>2. r.role = "OWNER" => Abroad
    BY <1>1, <1>2 DEF Abroad, HandsOn
  <2> QED
    BY <1>3, <2>1, <2>2 DEF Abroad
<1>6. \A u \in Users : members'[u] = IF u = r.target THEN p ELSE members[u]
  BY <1>2, <1>3, <1>4
<1>7. \A u \in Users : members'[u].role = "OWNER" => Abroad
  BY <1>5, <1>6 DEF Abroad
<1>8. \A e \in Emails : invitations'[e] # NoInvitation /\ invitations'[e].role = "OWNER" => Abroad
  BY <1>2 DEF Abroad
<1> QED
  BY <1>2, <1>7, <1>8, WritingMintsNot

\* An invitation takes its role from the request that sends it, or keeps it.
LEMMA InvitingMintsNot ==
  ASSUME MInv, NEW s \in Slots, Replied(s) \/ UNCHANGED requests, UNCHANGED members,
         NEW e, NEW i, invitations' = [invitations EXCEPT ![e] = i],
         e \in Emails /\ i.role = "OWNER" => Abroad,
         Abroad'
  PROVE  Abroad
<1>1. \A f \in Emails : invitations'[f] = IF f = e THEN i ELSE invitations[f]
  BY DEF MInv, Typed, MembershipTypeOK
<1>2. \A f \in Emails : invitations'[f] # NoInvitation /\ invitations'[f].role = "OWNER" => Abroad
  BY <1>1 DEF Abroad
<1>3. \A u \in Users : members'[u].role = "OWNER" => Abroad
  BY DEF Abroad
<1> QED
  BY <1>2, <1>3, WritingMintsNot

LEMMA SendMintsNot ==
  ASSUME MInv, NEW s \in Slots, SendInvitation(s), Abroad'
  PROVE  Abroad
<1>1. PICK r, i : /\ r = requests[s]
                  /\ i = [token |-> issued + 1, role |-> r.role, used |-> FALSE,
                          revoked |-> FALSE, expired |-> FALSE]
  OBVIOUS
<1>2. /\ Replied(s) /\ UNCHANGED members /\ r.at = "send"
      /\ invitations' = [invitations EXCEPT ![r.email] = i]
  BY <1>1 DEF SendInvitation
<1>3. i.role = "OWNER" => Abroad
  BY <1>1, <1>2 DEF Abroad, HandsOn
<1> QED
  BY <1>2, <1>3, InvitingMintsNot

LEMMA MarkingMintsNot ==
  ASSUME MInv, Abroad',
         \/ \E s \in Slots : RevokeWrite(s)
         \/ \E e \in Emails : ExpireInvitation(e)
  PROVE  Abroad
<1>1. ASSUME NEW s \in Slots, RevokeWrite(s)
      PROVE  Abroad
  <2>1. PICK e : e = requests[s].email
    OBVIOUS
  <2>2. /\ Replied(s) /\ UNCHANGED members /\ requests[s].at = "revoke"
        /\ invitations' = [invitations EXCEPT ![e].revoked = TRUE]
    BY <1>1, <2>1 DEF RevokeWrite
  <2>3. e \in Emails /\ invitations[e] # NoInvitation /\ invitations[e] \in Invitation
    BY <2>1, <2>2, RequestIs DEF MInv, AllFit, Fits, Typed, MembershipTypeOK
  <2>4. PICK i : i = [invitations[e] EXCEPT !.revoked = TRUE]
    OBVIOUS
  <2>5. i.role = invitations[e].role
    BY <2>3, <2>4 DEF Invitation
  <2>6. invitations' = [invitations EXCEPT ![e] = i]
    BY <2>2, <2>4
  <2>7. i.role = "OWNER" => Abroad
    BY <2>3, <2>5 DEF Abroad
  <2> QED
    BY <2>2, <2>6, <2>7, InvitingMintsNot
<1>2. ASSUME NEW e \in Emails, ExpireInvitation(e)
      PROVE  Abroad
  <2>1. /\ UNCHANGED <<members, requests>>
        /\ invitations[e] # NoInvitation
        /\ invitations' = [invitations EXCEPT ![e].expired = TRUE]
    BY <1>2 DEF ExpireInvitation
  <2>2. invitations[e] \in Invitation
    BY <2>1 DEF MInv, Typed, MembershipTypeOK
  <2>3. PICK i : i = [invitations[e] EXCEPT !.expired = TRUE]
    OBVIOUS
  <2>4. i.role = invitations[e].role
    BY <2>2, <2>3 DEF Invitation
  <2>5. invitations' = [invitations EXCEPT ![e] = i]
    BY <2>1, <2>3
  <2>6. i.role = "OWNER" => Abroad
    BY <2>1, <2>4 DEF Abroad
  <2>7. \A f \in Emails : invitations'[f] = IF f = e THEN i ELSE invitations[f]
    BY <2>5 DEF MInv, Typed, MembershipTypeOK
  <2> QED
    BY <2>1, <2>6, <2>7 DEF Abroad
<1> QED
  BY <1>1, <1>2

LEMMA JoinMintsNot ==
  ASSUME MInv, NEW s \in Slots, Join(s), Abroad'
  PROVE  Abroad
<1>1. PICK r : r = requests[s]
  OBVIOUS
<1>2. PICK u, e : u = r.user /\ e = r.email
  OBVIOUS
<1>3. r.at = "joining" /\ Replied(s)
  BY <1>1 DEF Join
<1>4. /\ u \in Users /\ e \in Emails /\ invitations[e] # NoInvitation
      /\ r.existing # NoMember => members[u] # NoMember
  BY <1>1, <1>2, <1>3, RequestIs DEF MInv, AllFit, Fits
<1>5. /\ members \in [Users -> Member \union {NoMember}]
      /\ invitations \in [Emails -> Invitation \union {NoInvitation}]
  BY DEF MInv, Typed, MembershipTypeOK
<1>6. r.role = "OWNER" => Abroad
  BY <1>1, <1>3 DEF HandsOn, Abroad
<1>7. \A v \in Users : members'[v].role = "OWNER" => Abroad
  <2>1. PICK m : m = [status |-> "ACTIVE", role |-> r.role]
    OBVIOUS
  <2>2. PICK n : n = [members[u] EXCEPT !.status = "ACTIVE"]
    OBVIOUS
  <2>3. \/ members' = [members EXCEPT ![u] = m]
        \/ members[u] # NoMember /\ members' = [members EXCEPT ![u] = n]
        \/ members' = members
    BY <1>1, <1>2, <1>4, <2>1, <2>2, JoinIs
  <2>4. m.role = r.role
    BY <2>1
  <2>5. members[u] # NoMember => n.role = members[u].role
    <3>1. members[u] # NoMember => members[u] \in Member
      BY <1>4, <1>5
    <3> QED
      BY <2>2, <3>1 DEF Member
  <2>6. CASE members' = [members EXCEPT ![u] = m]
    BY <1>5, <1>6, <2>4, <2>6 DEF Abroad
  <2>7. CASE members[u] # NoMember /\ members' = [members EXCEPT ![u] = n]
    BY <1>4, <1>5, <2>5, <2>7 DEF Abroad
  <2> QED
    BY <2>3, <2>6, <2>7 DEF Abroad
<1>8. \A f \in Emails : invitations'[f] # NoInvitation /\ invitations'[f].role = "OWNER" => Abroad
  <2>1. PICK i : i = [invitations[e] EXCEPT !.used = TRUE]
    OBVIOUS
  <2>2. invitations' = [invitations EXCEPT ![e] = i] \/ invitations' = invitations
    BY <1>1, <1>2, <2>1, JoinIs
  <2>3. i.role = invitations[e].role
    <3>1. invitations[e] \in Invitation
      BY <1>4, <1>5
    <3> QED
      BY <2>1, <3>1 DEF Invitation
  <2> QED
    BY <1>4, <1>5, <2>2, <2>3 DEF Abroad
<1> QED
  BY <1>3, <1>7, <1>8, WritingMintsNot

LEMMA NoneMinted == MInv /\ [MembershipNext]_memberVars /\ Abroad' => Abroad
<1> SUFFICES ASSUME MInv, [MembershipNext]_memberVars, Abroad' PROVE Abroad
  OBVIOUS
<1>1. CASE UNCHANGED memberVars
  BY <1>1 DEF memberVars, Abroad, HandsOn
<1>2. ASSUME NEW s \in Slots, Serve(s)
      PROVE  Abroad
  BY <1>2, LoadMintsNot, WriteMintsNot, SendMintsNot, MarkingMintsNot, JoinMintsNot DEF Serve
<1> QED
  BY <1>1, <1>2, AskMintsNot, MarkingMintsNot DEF MembershipNext

\* "An ADMIN cannot mint an OWNER" (canAssignRole, in POST invitations and PATCH
\* members): where nobody has ownership, and no invitation or request hands it
\* on, nobody ever will.
THEOREM OwnershipNotMinted == MembershipSpec => OwnershipIsNotMinted
<1>1. MInv /\ MInv' /\ [MembershipNext]_memberVars =>
        [~OwnershipAbroad => ~OwnershipAbroad']_memberVars
  <2> SUFFICES ASSUME MInv, MInv', [MembershipNext]_memberVars, OwnershipAbroad'
               PROVE  OwnershipAbroad
    OBVIOUS
  <2>1. Typed /\ Typed'
    BY DEF MInv
  <2>2. OwnershipAbroad <=> Abroad
    BY <2>1, AbroadIs
  <2>3. OwnershipAbroad' <=> Abroad'
    BY <2>1, AbroadIs, PTL
  <2> QED
    BY <2>2, <2>3, NoneMinted
<1> QED
  BY <1>1, MembershipAlways, PTL DEF MembershipSpec, OwnershipIsNotMinted

------------------------------------------------------------------------------
\* Signing in: the inductive invariant.

Challenge == [wallet : Signers, used : BOOLEAN, expired : BOOLEAN]
Session == [wallet : Signers, from : 1 .. MaxChallenges, state : {"live", "deleted", "expired"}]
Shown == [in : BOOLEAN, wallet : Signers \union {"nobody"}, role : Role]

\* What a tab waits for, by how far it is.
TabRequest ==
  [at : {"restoring", "ready"}]
  \union [at : {"asking", "creating"}, wallet : Signers]
  \union [at : {"prompt", "sent"}, wallet : Signers, signs : 1 .. MaxChallenges]
  \union [at : {"taken"}, wallet : Signers, signs : 1 .. MaxChallenges, takes : 1 .. MaxChallenges]
  \union [at : {"verified"}, wallet : Signers, from : 1 .. MaxChallenges]
  \union [at : {"known"}, wallet : Signers, from : 1 .. MaxChallenges, role : Role]
  \union [at : {"granting", "granted"}, target : Signers, role : Role]

SignTyped == AuthTypeOK /\ browsers \in [Browsers -> [request : TabRequest, shows : Shown]]

\* Whoever is past the check of a challenge is alone with it: the challenge is
\* used, is the wallet's own, and has opened no session.
Past == {"verified", "known"}
Right(t, r) ==
  /\ r.at = "taken" => r.takes \in DOMAIN challenges /\ challenges[r.takes].wallet = r.wallet
  /\ r.at \in Past =>
       /\ r.from \in DOMAIN challenges
       /\ challenges[r.from].used /\ challenges[r.from].wallet = r.wallet
       /\ \A s \in DOMAIN sessions : sessions[s].from # r.from
       /\ \A v \in Browsers \ {t} :
            browsers[v].request.at \in Past => browsers[v].request.from # r.from
  /\ r.at = "known" => role[r.wallet] # "none"
AllRight == \A t \in Browsers : Right(t, browsers[t].request)

Opened ==
  \A s \in DOMAIN sessions :
    /\ sessions[s].from \in DOMAIN challenges /\ challenges[sessions[s].from].used
    /\ role[sessions[s].wallet] # "none"

SInv == SignTyped /\ AllRight /\ Opened /\ OneSessionPerChallenge

------------------------------------------------------------------------------
LEMMA TabIs ==
  ASSUME SignTyped, NEW t \in Browsers
  PROVE  LET r == browsers[t].request IN
         /\ r \in TabRequest /\ browsers[t].shows \in Shown
         /\ r.at \in {"asking", "creating"} => r \in [at : {"asking", "creating"}, wallet : Signers]
         /\ r.at \in {"prompt", "sent"} =>
              r \in [at : {"prompt", "sent"}, wallet : Signers, signs : 1 .. MaxChallenges]
         /\ r.at = "taken" =>
              r \in [at : {"taken"}, wallet : Signers, signs : 1 .. MaxChallenges,
                     takes : 1 .. MaxChallenges]
         /\ r.at = "verified" =>
              r \in [at : {"verified"}, wallet : Signers, from : 1 .. MaxChallenges]
         /\ r.at = "known" =>
              r \in [at : {"known"}, wallet : Signers, from : 1 .. MaxChallenges, role : Role]
         /\ r.at \in {"granting", "granted"} =>
              r \in [at : {"granting", "granted"}, target : Signers, role : Role]
<1>1. browsers[t].request \in TabRequest /\ browsers[t].shows \in Shown
  BY DEF SignTyped
<1> DEFINE r == browsers[t].request
<1> HIDE DEF r
<1>2. r \in TabRequest
  BY <1>1 DEF r
<1>3. \/ r.at \in {"restoring", "ready"}
      \/ r.at \in {"asking", "creating"} /\ r \in [at : {"asking", "creating"}, wallet : Signers]
      \/ /\ r.at \in {"prompt", "sent"}
         /\ r \in [at : {"prompt", "sent"}, wallet : Signers, signs : 1 .. MaxChallenges]
      \/ /\ r.at = "taken"
         /\ r \in [at : {"taken"}, wallet : Signers, signs : 1 .. MaxChallenges,
                   takes : 1 .. MaxChallenges]
      \/ /\ r.at = "verified"
         /\ r \in [at : {"verified"}, wallet : Signers, from : 1 .. MaxChallenges]
      \/ /\ r.at = "known"
         /\ r \in [at : {"known"}, wallet : Signers, from : 1 .. MaxChallenges, role : Role]
      \/ /\ r.at \in {"granting", "granted"}
         /\ r \in [at : {"granting", "granted"}, target : Signers, role : Role]
  BY <1>2 DEF TabRequest
<1> QED
  BY <1>1, <1>2, <1>3 DEF r

LEMMA RowsOf ==
  ASSUME SignTyped
  PROVE  /\ Len(challenges) \in 0 .. MaxChallenges /\ Len(sessions) \in 0 .. MaxSessions
         /\ DOMAIN challenges = 1 .. Len(challenges) /\ DOMAIN sessions = 1 .. Len(sessions)
         /\ \A c \in DOMAIN challenges : challenges[c] \in Challenge
         /\ \A s \in DOMAIN sessions : sessions[s] \in Session
         /\ MaxChallenges \in Nat /\ MaxSessions \in Nat
<1>1. /\ challenges \in Seq(Challenge) /\ sessions \in Seq(Session)
      /\ Len(challenges) <= MaxChallenges /\ Len(sessions) <= MaxSessions
  BY DEF SignTyped, AuthTypeOK, Challenge, Session
<1>2. MaxChallenges \in Nat /\ MaxSessions \in Nat
  BY AuthAssumption
<1>3. Len(challenges) \in Nat /\ Len(sessions) \in Nat
      /\ DOMAIN challenges = 1 .. Len(challenges) /\ DOMAIN sessions = 1 .. Len(sessions)
  BY <1>1, LenProperties
<1>4. /\ \A c \in DOMAIN challenges : challenges[c] \in Challenge
      /\ \A s \in DOMAIN sessions : sessions[s] \in Session
  BY <1>1, <1>3, ElementOfSeq
<1> QED
  BY <1>1, <1>2, <1>3, <1>4

\* Of the active challenges of a wallet the latest is one of them.
LEMMA LastIs ==
  ASSUME NEW n \in Nat, NEW S, S \subseteq 1 .. n, S # {}
  PROVE  Max(S) \in S
<1>1. PICK x \in S : \A y \in S : y <= x
  BY LastNatural
<1>2. \A y \in S : x >= y
  <2> SUFFICES ASSUME NEW y \in S PROVE x >= y
    OBVIOUS
  <2>1. x \in Nat /\ y \in Nat /\ y <= x
    BY <1>1
  <2> QED
    BY <2>1
<1> QED
  BY <1>2 DEF Max

LEMMA LatestIs ==
  ASSUME SignTyped, NEW w, Active(w) # {}
  PROVE  /\ Max(Active(w)) \in DOMAIN challenges /\ Max(Active(w)) \in 1 .. MaxChallenges
         /\ challenges[Max(Active(w))].wallet = w
<1>1. Active(w) \subseteq 1 .. Len(challenges) /\ Len(challenges) \in Nat
  BY RowsOf DEF Active
<1>2. Max(Active(w)) \in Active(w)
  BY <1>1, LastIs
<1> HIDE DEF Max
<1> QED
  BY <1>1, <1>2, RowsOf DEF Active

\* Whoever has a role keeps one.
RolesKept ==
  /\ role' \in [Signers -> Role \union {"none"}]
  /\ \A w \in Signers : role[w] # "none" => role'[w] # "none"

\* Challenges are added and used up; sessions stay what they are.
Grown ==
  /\ RolesKept
  /\ DOMAIN challenges \subseteq DOMAIN challenges'
  /\ \A c \in DOMAIN challenges :
       /\ challenges'[c].wallet = challenges[c].wallet
       /\ challenges[c].used => challenges'[c].used
  /\ DOMAIN sessions' = DOMAIN sessions
  /\ \A s \in DOMAIN sessions :
       sessions'[s].from = sessions[s].from /\ sessions'[s].wallet = sessions[s].wallet

\* A tab goes on without getting past a check.
Follows(r, q) ==
  \/ q = r
  \/ q.at \notin {"taken", "verified", "known"}
  \/ q.at = "taken" /\ q.takes \in DOMAIN challenges /\ challenges[q.takes].wallet = q.wallet
  \/ /\ r.at = "verified" /\ q.at = "known" /\ q.from = r.from /\ q.wallet = r.wallet
     /\ role'[q.wallet] # "none"

LEMMA Following ==
  ASSUME SInv, SignTyped', Grown,
         \A t \in Browsers : Follows(browsers[t].request, browsers'[t].request)
  PROVE  SInv'
<1>1. Opened' /\ OneSessionPerChallenge'
  <2>1. \A s \in DOMAIN sessions : sessions[s].wallet \in Signers
    BY RowsOf DEF SInv, Session
  <2> QED
    BY <2>1 DEF SInv, Opened, OneSessionPerChallenge, Grown, RolesKept
<1>2. ASSUME NEW t \in Browsers, browsers'[t].request.at \in Past
      PROVE  browsers[t].request.at \in Past /\ browsers'[t].request.from = browsers[t].request.from
             /\ browsers'[t].request.wallet = browsers[t].request.wallet
  BY <1>2 DEF Follows, Past
<1>3. ASSUME NEW t \in Browsers
      PROVE  Right(t, browsers[t].request)'
  <2>1. PICK r : r = browsers[t].request
    OBVIOUS
  <2>2. PICK q : q = browsers'[t].request
    OBVIOUS
  <2>3. Right(t, r) /\ Follows(r, q)
    BY <2>1, <2>2 DEF SInv, AllRight
  <2>4. q.at = "taken" => q.takes \in DOMAIN challenges' /\ challenges'[q.takes].wallet = q.wallet
    BY <2>3 DEF Right, Follows, Grown
  <2>5. ASSUME q.at \in Past
        PROVE  /\ q.from \in DOMAIN challenges'
               /\ challenges'[q.from].used /\ challenges'[q.from].wallet = q.wallet
               /\ \A s \in DOMAIN sessions' : sessions'[s].from # q.from
               /\ \A v \in Browsers \ {t} :
                    browsers'[v].request.at \in Past => browsers'[v].request.from # q.from
    <3>1. r.at \in Past /\ q.from = r.from /\ q.wallet = r.wallet
      BY <1>2, <2>1, <2>2, <2>5
    <3>2. /\ r.from \in DOMAIN challenges
          /\ challenges[r.from].used /\ challenges[r.from].wallet = r.wallet
          /\ \A s \in DOMAIN sessions : sessions[s].from # r.from
          /\ \A v \in Browsers \ {t} :
               browsers[v].request.at \in Past => browsers[v].request.from # r.from
      BY <2>3, <3>1 DEF Right
    <3>3. \A v \in Browsers \ {t} :
            browsers'[v].request.at \in Past => browsers'[v].request.from # q.from
      BY <1>2, <3>1, <3>2
    <3> QED
      BY <3>1, <3>2, <3>3 DEF Grown
  <2>6. q.at = "known" => role'[q.wallet] # "none"
    <3>1. q.at = "known" /\ q # r => role'[q.wallet] # "none"
      BY <2>3 DEF Follows
    <3>2. r.at = "known" => r.wallet \in Signers /\ role[r.wallet] # "none"
      BY <2>1, <2>3, TabIs DEF SInv, Right
    <3> QED
      BY <3>1, <3>2 DEF Grown, RolesKept
  <2> QED
    BY <2>2, <2>4, <2>5, <2>6 DEF Right
<1> QED
  BY <1>1, <1>3 DEF SInv, AllRight

LEMMA Still ==
  ASSUME SInv, UNCHANGED <<challenges, sessions>>, RolesKept
  PROVE  Grown
BY DEF Grown

\* One tab takes a step; roles and the cookie may change with it.
LEMMA TabSteps ==
  ASSUME SInv, NEW t \in Browsers, NEW b \in [request : TabRequest, shows : Shown],
         browsers' = [browsers EXCEPT ![t] = b], Follows(browsers[t].request, b.request), Grown,
         challenges' \in Seq(Challenge), Len(challenges') <= MaxChallenges,
         sessions' \in Seq(Session), Len(sessions') <= MaxSessions,
         cookie' \in 0 .. Len(sessions')
  PROVE  SInv'
<1>1. browsers \in [Browsers -> [request : TabRequest, shows : Shown]]
  BY DEF SInv, SignTyped
<1>2. browsers' \in [Browsers -> [request : TabRequest, shows : Shown]]
  BY <1>1
<1>3. AuthTypeOK'
  <2>1. \A v \in Browsers : browsers'[v].shows \in Shown
    BY <1>2
  <2> QED
    BY <2>1 DEF AuthTypeOK, Challenge, Session, Shown, Grown, RolesKept
<1>4. \A v \in Browsers : Follows(browsers[v].request, browsers'[v].request)
  <2> SUFFICES ASSUME NEW v \in Browsers
               PROVE  Follows(browsers[v].request, browsers'[v].request)
    OBVIOUS
  <2>1. CASE v = t
    BY <1>1, <2>1
  <2>2. CASE v # t
    BY <1>1, <2>2 DEF Follows
  <2> QED
    BY <2>1, <2>2
<1> QED
  BY <1>2, <1>3, <1>4, Following DEF SignTyped

\* Without challenges and sessions.
LEMMA TabKeeps ==
  ASSUME SInv, NEW t \in Browsers, NEW q \in TabRequest, NEW shown \in Shown,
         browsers' = [browsers EXCEPT ![t] = [request |-> q, shows |-> shown]],
         Follows(browsers[t].request, q),
         UNCHANGED <<challenges, sessions>>,
         RolesKept, cookie' \in 0 .. Len(sessions)
  PROVE  SInv'
<1> DEFINE b == [request |-> q, shows |-> shown]
<1>1. b \in [request : TabRequest, shows : Shown] /\ b.request = q
  OBVIOUS
<1>2. /\ challenges' \in Seq(Challenge) /\ Len(challenges') <= MaxChallenges
      /\ sessions' \in Seq(Session) /\ Len(sessions') <= MaxSessions
  BY DEF SInv, SignTyped, AuthTypeOK, Challenge, Session
<1> HIDE DEF b
<1>3. browsers' = [browsers EXCEPT ![t] = b] /\ Follows(browsers[t].request, b.request)
  BY <1>1 DEF b
<1> QED
  BY <1>1, <1>2, <1>3, Still, TabSteps

LEMMA TabGoesIs ==
  ASSUME SignTyped, NEW t \in Browsers, NEW q, TabGoes(t, q)
  PROVE  browsers' = [browsers EXCEPT ![t] = [request |-> q, shows |-> browsers[t].shows]]
<1>1. browsers[t] \in [request : TabRequest, shows : Shown]
  BY DEF SignTyped
<1>2. [browsers[t] EXCEPT !.request = q] = [request |-> q, shows |-> browsers[t].shows]
  BY <1>1
<1> QED
  BY <1>2 DEF TabGoes

\* A tab asks, waits or gives up.
LEMMA GoesKeeps ==
  ASSUME SInv, NEW t \in Browsers, NEW q \in TabRequest, TabGoes(t, q),
         Follows(browsers[t].request, q), UNCHANGED <<challenges, sessions>>,
         RolesKept, cookie' \in 0 .. Len(sessions)
  PROVE  SInv'
<1>1. browsers[t].shows \in Shown
  BY TabIs DEF SInv
<1> QED
  BY <1>1, TabGoesIs, TabKeeps DEF SInv

LEMMA Readies ==
  ASSUME NEW r
  PROVE  Step("ready") \in TabRequest /\ Follows(r, Step("ready"))
<1>1. PICK q : q = [at |-> "ready"]
  OBVIOUS
<1>2. q \in TabRequest /\ Follows(r, q)
  BY <1>1 DEF TabRequest, Follows
<1> QED
  BY <1>1, <1>2 DEF Step

LEMMA EndsKeeps ==
  ASSUME SInv, NEW t \in Browsers, NEW shown \in Shown, Ends(t, shown),
         UNCHANGED <<challenges, sessions>>,
         RolesKept, cookie' \in 0 .. Len(sessions)
  PROVE  SInv'
BY Readies, TabKeeps DEF Ends, Tab

LEMMA FailsKeeps ==
  ASSUME SInv, NEW t \in Browsers, Fails(t), UNCHANGED <<challenges, sessions>>,
         RolesKept, cookie' \in 0 .. Len(sessions)
  PROVE  SInv'
BY Readies, GoesKeeps DEF Fails

\* What a step leaves of the rows and the cookie.
LEMMA RolesAre ==
  ASSUME SInv
  PROVE  /\ role \in [Signers -> Role \union {"none"}] /\ cookie \in 0 .. Len(sessions)
         /\ UNCHANGED role => RolesKept
BY DEF SInv, SignTyped, AuthTypeOK, RolesKept

LEMMA ShownAre ==
  /\ SignedOut \in Shown
  /\ \A w \in Signers : \A a \in Role : SignedIn(w, a) \in Shown
BY DEF SignedOut, SignedIn, Shown, Role

LEMMA RestoreKeeps ==
  ASSUME SInv, NEW t \in Browsers, Restore(t) \/ ReloadTab(t)
  PROVE  SInv'
<1>1. /\ UNCHANGED <<role, challenges, sessions, cookie>>
  BY DEF Restore, ReloadTab
<1>2. CASE ReloadTab(t)
  <2>1. PICK q : q = Step("restoring")
    OBVIOUS
  <2>2. q \in TabRequest /\ Follows(browsers[t].request, q)
    BY <2>1 DEF Step, TabRequest, Follows
  <2>3. browsers' = [browsers EXCEPT ![t] = [request |-> q, shows |-> SignedOut]]
    BY <1>2, <2>1 DEF ReloadTab, Tab
  <2> QED
    BY <1>1, <2>2, <2>3, RolesAre, ShownAre, TabKeeps
<1>3. CASE Restore(t)
  <2>1. Ends(t, SignedOut) \/ (Holder # "nobody" /\ Ends(t, SignedIn(Holder, role[Holder])))
    BY <1>3 DEF Restore
  <2>2. Holder # "nobody" => Holder \in Signers /\ role[Holder] \in Role
    <3>1. ASSUME cookie # 0, sessions[cookie].state = "live"
          PROVE  sessions[cookie].wallet \in Signers /\ role[sessions[cookie].wallet] \in Role
      <4>1. cookie \in DOMAIN sessions
        BY <3>1, RolesAre, RowsOf DEF SInv
      <4>2. sessions[cookie].wallet \in Signers /\ role[sessions[cookie].wallet] # "none"
        BY <4>1, RowsOf DEF SInv, Session, Opened
      <4> QED
        BY <4>2, RolesAre
    <3> QED
      BY <3>1 DEF Holder
  <2>3. PICK shown \in Shown : Ends(t, shown)
    BY <2>1, <2>2, ShownAre
  <2> QED
    BY <1>1, <2>3, RolesAre, EndsKeeps
<1> QED
  BY <1>2, <1>3

LEMMA ConnectKeeps ==
  ASSUME SInv, NEW t \in Browsers, NEW w \in Signers, Connect(t, w)
  PROVE  SInv'
<1>1. PICK q : q = [at |-> "asking", wallet |-> w]
  OBVIOUS
<1>2. q \in TabRequest /\ Follows(browsers[t].request, q)
  BY <1>1 DEF TabRequest, Follows
<1> QED
  BY <1>1, <1>2, RolesAre, GoesKeeps DEF Connect

LEMMA FindKeeps ==
  ASSUME SInv, NEW t \in Browsers, FindChallenge(t)
  PROVE  SInv'
<1>1. PICK w : w = browsers[t].request.wallet
  OBVIOUS
<1>2. w \in Signers
  BY <1>1, TabIs DEF SInv, FindChallenge, At
<1>3. PICK p : p = [at |-> "creating", wallet |-> w]
  OBVIOUS
<1>4. PICK q : q = [at |-> "prompt", wallet |-> w, signs |-> Max(Active(w))]
  OBVIOUS
<1>5. p \in TabRequest /\ Follows(browsers[t].request, p)
  BY <1>2, <1>3 DEF TabRequest, Follows
<1>6. Active(w) # {} => q \in TabRequest /\ Follows(browsers[t].request, q)
  <2>1. ASSUME Active(w) # {}
        PROVE  Max(Active(w)) \in 1 .. MaxChallenges
    BY <2>1, LatestIs DEF SInv
  <2> HIDE DEF Max, Active
  <2> QED
    BY <1>2, <1>4, <2>1 DEF TabRequest, Follows
<1>7. TabGoes(t, p) \/ (Active(w) # {} /\ TabGoes(t, q))
  BY <1>1, <1>3, <1>4 DEF FindChallenge
<1>8. UNCHANGED <<role, challenges, sessions, cookie>>
  BY DEF FindChallenge
<1> QED
  BY <1>5, <1>6, <1>7, <1>8, RolesAre, GoesKeeps

LEMMA CreateKeeps ==
  ASSUME SInv, NEW t \in Browsers, CreateChallenge(t)
  PROVE  SInv'
<1>1. PICK w : w = browsers[t].request.wallet
  OBVIOUS
<1>2. w \in Signers
  BY <1>1, TabIs DEF SInv, CreateChallenge, At
<1>3. PICK n : n = Len(challenges) + 1
  OBVIOUS
<1>4. PICK c : c = [wallet |-> w, used |-> FALSE, expired |-> FALSE]
  OBVIOUS
<1>5. PICK q : q = [at |-> "prompt", wallet |-> w, signs |-> n]
  OBVIOUS
<1>6. /\ Len(challenges) < MaxChallenges /\ challenges' = Append(challenges, c)
      /\ TabGoes(t, q) /\ UNCHANGED <<role, sessions, cookie>>
  BY <1>1, <1>3, <1>4, <1>5 DEF CreateChallenge
<1>7. c \in Challenge /\ challenges \in Seq(Challenge)
  BY <1>2, <1>4 DEF Challenge, SInv, SignTyped, AuthTypeOK
<1>8. /\ challenges' \in Seq(Challenge) /\ Len(challenges') = n
      /\ \A i \in 1 .. Len(challenges) : challenges'[i] = challenges[i]
  BY <1>3, <1>6, <1>7, AppendProperties
<1>9. n \in 1 .. MaxChallenges /\ DOMAIN challenges' = 1 .. n
  BY <1>3, <1>6, <1>8, RowsOf, LenProperties DEF SInv
<1>10. Grown
  <2>1. DOMAIN challenges = 1 .. Len(challenges) /\ Len(challenges) \in Nat
    BY RowsOf DEF SInv
  <2>2. DOMAIN challenges \subseteq DOMAIN challenges'
    BY <1>3, <1>9, <2>1
  <2> QED
    BY <1>6, <1>8, <2>1, <2>2, RolesAre DEF Grown
<1>11. PICK b : b = [request |-> q, shows |-> browsers[t].shows]
  OBVIOUS
<1>12. /\ b \in [request : TabRequest, shows : Shown] /\ b.request = q
       /\ Follows(browsers[t].request, q)
  <2>1. q \in TabRequest /\ Follows(browsers[t].request, q)
    BY <1>2, <1>5, <1>9 DEF TabRequest, Follows
  <2> QED
    BY <1>11, <2>1, TabIs DEF SInv
<1>13. browsers' = [browsers EXCEPT ![t] = b]
  BY <1>6, <1>11, TabGoesIs DEF SInv
<1>14. /\ sessions' \in Seq(Session) /\ Len(sessions') <= MaxSessions
       /\ cookie' \in 0 .. Len(sessions')
  BY <1>6 DEF SInv, SignTyped, AuthTypeOK, Session
<1>15. Len(challenges') <= MaxChallenges
  BY <1>8, <1>9
<1> QED
  BY <1>8, <1>10, <1>12, <1>13, <1>14, <1>15, TabSteps

LEMMA SignKeeps ==
  ASSUME SInv, NEW t \in Browsers, SignChallenge(t)
  PROVE  SInv'
<1>1. PICK r : r = browsers[t].request
  OBVIOUS
<1>2. r \in [at : {"prompt", "sent"}, wallet : Signers, signs : 1 .. MaxChallenges]
  BY <1>1, TabIs DEF SInv, SignChallenge, At
<1>3. PICK q : q = [r EXCEPT !.at = "sent"]
  OBVIOUS
<1>4. /\ q \in [at : {"prompt", "sent"}, wallet : Signers, signs : 1 .. MaxChallenges]
      /\ q.at = "sent"
  BY <1>2, <1>3
<1>5. q \in TabRequest /\ Follows(r, q)
  BY <1>4 DEF TabRequest, Follows
<1> QED
  BY <1>1, <1>3, <1>5, RolesAre, GoesKeeps DEF SignChallenge

LEMMA TakeKeeps ==
  ASSUME SInv, NEW t \in Browsers, TakeChallenge(t)
  PROVE  SInv'
<1>1. PICK r : r = browsers[t].request
  OBVIOUS
<1>2. /\ r \in [at : {"prompt", "sent"}, wallet : Signers, signs : 1 .. MaxChallenges]
      /\ Active(r.wallet) # {}
  BY <1>1, TabIs DEF SInv, TakeChallenge, At
<1>3. PICK c : c = Max(Active(r.wallet))
  OBVIOUS
<1>4. c \in DOMAIN challenges /\ c \in 1 .. MaxChallenges /\ challenges[c].wallet = r.wallet
  BY <1>2, <1>3, LatestIs DEF SInv
<1>5. PICK q : q = [at |-> "taken", wallet |-> r.wallet, signs |-> r.signs, takes |-> c]
  OBVIOUS
<1>6. q \in TabRequest /\ Follows(r, q)
  BY <1>2, <1>4, <1>5 DEF TabRequest, Follows
<1> QED
  BY <1>1, <1>3, <1>5, <1>6, RolesAre, GoesKeeps DEF TakeChallenge

LEMMA UpsertKeeps ==
  ASSUME SInv, NEW t \in Browsers, UpsertUser(t)
  PROVE  SInv'
<1>1. PICK r : r = browsers[t].request
  OBVIOUS
<1>2. r \in [at : {"verified"}, wallet : Signers, from : 1 .. MaxChallenges] /\ r.at = "verified"
  BY <1>1, TabIs DEF SInv, UpsertUser, At
<1>3. PICK a : a = RoleOnArrival(r.wallet)
  OBVIOUS
<1>4. a \in Role
  BY <1>2, <1>3, RolesAre DEF RoleOnArrival, Role
<1>5. RolesKept /\ role'[r.wallet] # "none"
  BY <1>1, <1>2, <1>3, <1>4, RolesAre DEF UpsertUser, RolesKept, Role
<1>6. PICK q : q = [at |-> "known", wallet |-> r.wallet, from |-> r.from, role |-> a]
  OBVIOUS
<1>7. q \in TabRequest /\ Follows(r, q)
  BY <1>2, <1>4, <1>5, <1>6 DEF TabRequest, Follows
<1>8. TabGoes(t, q) /\ UNCHANGED <<challenges, sessions, cookie>>
  BY <1>1, <1>3, <1>6 DEF UpsertUser
<1> QED
  BY <1>1, <1>5, <1>7, <1>8, RolesAre, GoesKeeps

\* A challenge is used up; the one that used it may go on.
LEMMA ChallengeSet ==
  ASSUME SInv, NEW c \in DOMAIN challenges, NEW x \in Challenge,
         x.wallet = challenges[c].wallet, challenges[c].used => x.used,
         challenges' = [challenges EXCEPT ![c] = x], UNCHANGED <<role, sessions>>
  PROVE  /\ challenges' \in Seq(Challenge) /\ Len(challenges') <= MaxChallenges
         /\ DOMAIN challenges' = DOMAIN challenges /\ Grown
         /\ \A d \in DOMAIN challenges : challenges'[d] = IF d = c THEN x ELSE challenges[d]
<1>1. challenges \in Seq(Challenge) /\ c \in 1 .. Len(challenges) /\ Len(challenges) <= MaxChallenges
  BY RowsOf DEF SInv, SignTyped, AuthTypeOK, Challenge
<1>2. /\ challenges' \in Seq(Challenge) /\ Len(challenges') = Len(challenges)
      /\ \A d \in 1 .. Len(challenges) : challenges'[d] = IF d = c THEN x ELSE challenges[d]
  BY <1>1, ExceptSeq
<1>3. DOMAIN challenges' = DOMAIN challenges
  OBVIOUS
<1>4. \A d \in DOMAIN challenges : challenges'[d] = IF d = c THEN x ELSE challenges[d]
  OBVIOUS
<1>5. Grown
  BY <1>3, <1>4, RolesAre DEF Grown
<1> QED
  BY <1>1, <1>2, <1>3, <1>4, <1>5

LEMMA UseKeeps ==
  ASSUME SInv, NEW t \in Browsers, UseChallenge(t)
  PROVE  SInv'
<1>1. PICK r : r = browsers[t].request
  OBVIOUS
<1>2. /\ r \in [at : {"taken"}, wallet : Signers, signs : 1 .. MaxChallenges,
                takes : 1 .. MaxChallenges]
      /\ r.at = "taken"
  BY <1>1, TabIs DEF SInv, UseChallenge, At
<1>3. PICK c : c = r.takes
  OBVIOUS
<1>4. c \in DOMAIN challenges /\ challenges[c].wallet = r.wallet
  BY <1>1, <1>2, <1>3 DEF SInv, AllRight, Right
<1>5. PICK x : x = [challenges[c] EXCEPT !.used = TRUE]
  OBVIOUS
<1>6. challenges' = [challenges EXCEPT ![c] = x] /\ UNCHANGED <<role, sessions, cookie>>
  BY <1>1, <1>3, <1>5 DEF UseChallenge
<1>7. x \in Challenge /\ x.used /\ x.wallet = challenges[c].wallet
  BY <1>4, <1>5, RowsOf DEF SInv, Challenge
<1>8. /\ challenges' \in Seq(Challenge) /\ Len(challenges') <= MaxChallenges
      /\ DOMAIN challenges' = DOMAIN challenges /\ Grown
      /\ \A d \in DOMAIN challenges : challenges'[d] = IF d = c THEN x ELSE challenges[d]
  BY <1>4, <1>6, <1>7, ChallengeSet
<1>9. /\ sessions' \in Seq(Session) /\ Len(sessions') <= MaxSessions
      /\ cookie' \in 0 .. Len(sessions')
  BY <1>6 DEF SInv, SignTyped, AuthTypeOK, Session
<1>10. PICK q : q = [at |-> "verified", wallet |-> r.wallet, from |-> c]
  OBVIOUS
<1>11. Fails(t) \/ (~challenges[c].used /\ TabGoes(t, q))
  BY <1>1, <1>3, <1>10 DEF UseChallenge, Unused
<1>12. browsers[t].shows \in Shown
  BY TabIs DEF SInv
<1>13. CASE Fails(t)
  <2>1. PICK p : p = Step("ready")
    OBVIOUS
  <2>2. PICK b : b = [request |-> p, shows |-> browsers[t].shows]
    OBVIOUS
  <2>3. browsers' = [browsers EXCEPT ![t] = b]
    BY <1>13, <2>1, <2>2, TabGoesIs DEF Fails, SInv
  <2>4. b \in [request : TabRequest, shows : Shown] /\ b.request = p
        /\ Follows(browsers[t].request, p)
    BY <1>12, <2>1, <2>2, Readies
  <2> QED
    BY <1>8, <1>9, <2>3, <2>4, TabSteps
<1>14. CASE ~challenges[c].used /\ TabGoes(t, q)
  <2>1. PICK b : b = [request |-> q, shows |-> browsers[t].shows]
    OBVIOUS
  <2>2. browsers' = [browsers EXCEPT ![t] = b]
    BY <1>14, <2>1, TabGoesIs DEF SInv
  <2>3. browsers \in [Browsers -> [request : TabRequest, shows : Shown]]
    BY DEF SInv, SignTyped
  <2>4. b \in [request : TabRequest, shows : Shown] /\ b.request = q
    <3>1. q \in TabRequest
      BY <1>2, <1>3, <1>10 DEF TabRequest
    <3> QED
      BY <1>12, <2>1, <3>1
  <2>5. browsers' \in [Browsers -> [request : TabRequest, shows : Shown]]
    BY <2>2, <2>3, <2>4
  <2>6. SignTyped'
    <3>1. \A v \in Browsers : browsers'[v].shows \in Shown
      BY <2>5
    <3> QED
      BY <1>6, <1>8, <1>9, <2>5, <3>1, RolesAre
      DEF SignTyped, AuthTypeOK, Challenge, Session, Shown
  <2>7. /\ browsers'[t].request = q
        /\ \A v \in Browsers \ {t} : browsers'[v] = browsers[v]
    BY <2>2, <2>3, <2>4
  <2>8. /\ \A v \in Browsers : browsers[v].request.at \in Past => browsers[v].request.from # c
        /\ \A s \in DOMAIN sessions : sessions[s].from # c
    BY <1>14 DEF SInv, AllRight, Right, Opened
  <2>9. Right(t, q)'
    BY <1>4, <1>6, <1>7, <1>8, <1>10, <2>7, <2>8 DEF Right, Past
  <2>10. ASSUME NEW v \in Browsers \ {t}
         PROVE  Right(v, browsers[v].request)'
    <3>1. PICK p : p = browsers[v].request
      OBVIOUS
    <3>2. Right(v, p) /\ browsers'[v].request = p
      BY <2>7, <3>1 DEF SInv, AllRight
    <3>3. p.at = "taken" => p.takes \in DOMAIN challenges' /\ challenges'[p.takes].wallet = p.wallet
      BY <1>8, <3>2 DEF Right, Grown
    <3>4. p.at = "known" => role'[p.wallet] # "none"
      BY <1>6, <3>2 DEF Right
    <3>5. ASSUME p.at \in Past
          PROVE  /\ p.from \in DOMAIN challenges'
                 /\ challenges'[p.from].used /\ challenges'[p.from].wallet = p.wallet
                 /\ \A s \in DOMAIN sessions' : sessions'[s].from # p.from
      BY <1>6, <1>8, <3>2, <3>5 DEF Right, Grown
    <3>6. ASSUME p.at \in Past, NEW u \in Browsers \ {v}, browsers'[u].request.at \in Past
          PROVE  browsers'[u].request.from # p.from
      <4>1. CASE u = t
        BY <1>10, <2>7, <2>8, <3>1, <3>6, <4>1
      <4>2. CASE u # t
        BY <2>7, <3>2, <3>6, <4>2 DEF Right
      <4> QED
        BY <4>1, <4>2
    <3> QED
      BY <3>2, <3>3, <3>4, <3>5, <3>6 DEF Right
  <2>11. AllRight'
    BY <2>7, <2>9, <2>10 DEF AllRight
  <2>12. Opened' /\ OneSessionPerChallenge'
    BY <1>6, <1>8 DEF SInv, Opened, OneSessionPerChallenge, Grown
  <2> QED
    BY <2>6, <2>11, <2>12 DEF SInv
<1> QED
  BY <1>11, <1>13, <1>14

\* A session is opened: nobody else is past the check of its challenge.
LEMMA SessionKeeps ==
  ASSUME SInv, NEW t \in Browsers, CreateSession(t)
  PROVE  SInv'
<1>1. PICK r : r = browsers[t].request
  OBVIOUS
<1>2. /\ r \in [at : {"known"}, wallet : Signers, from : 1 .. MaxChallenges, role : Role]
      /\ r.at = "known"
  BY <1>1, TabIs DEF SInv, CreateSession, NewSession, At
<1>3. PICK x : x = [wallet |-> r.wallet, from |-> r.from, state |-> "live"]
  OBVIOUS
<1>4. /\ sessions' = Append(sessions, x) /\ Len(sessions) < MaxSessions
      /\ UNCHANGED <<role, challenges>>
      /\ \/ cookie' = Len(sessions) + 1 /\ Ends(t, SignedIn(r.wallet, r.role))
         \/ UNCHANGED cookie /\ Fails(t)
  BY <1>1, <1>3 DEF CreateSession, NewSession
<1>5. x \in Session /\ sessions \in Seq(Session)
  BY <1>2, <1>3 DEF Session, SInv, SignTyped, AuthTypeOK
<1>6. PICK n : n = Len(sessions) + 1
  OBVIOUS
<1>7. /\ sessions' \in Seq(Session) /\ Len(sessions') = n
      /\ \A s \in 1 .. Len(sessions) : sessions'[s] = sessions[s]
      /\ sessions'[n] = x
  BY <1>4, <1>5, <1>6, AppendProperties
<1>8. /\ Len(sessions) \in Nat /\ n \in Nat /\ n <= MaxSessions /\ DOMAIN sessions' = 1 .. n
      /\ DOMAIN sessions = 1 .. Len(sessions) /\ cookie' \in 0 .. n
  <2>1. /\ Len(sessions) \in Nat /\ MaxSessions \in Nat /\ DOMAIN sessions = 1 .. Len(sessions)
        /\ cookie \in 0 .. Len(sessions)
    BY RowsOf, RolesAre DEF SInv
  <2>2. DOMAIN sessions' = 1 .. Len(sessions')
    BY <1>7, LenProperties
  <2> QED
    BY <1>4, <1>6, <1>7, <2>1, <2>2
<1>9. \A s \in DOMAIN sessions' : s = n \/ (s \in DOMAIN sessions /\ sessions'[s] = sessions[s])
  BY <1>6, <1>7, <1>8
<1>10. PICK b \in [request : TabRequest, shows : Shown] :
         browsers' = [browsers EXCEPT ![t] = b] /\ b.request = Step("ready")
  <2>1. Step("ready") \in TabRequest
    BY Readies
  <2>2. ASSUME NEW shown \in Shown, Ends(t, shown)
        PROVE  \E b \in [request : TabRequest, shows : Shown] :
                 browsers' = [browsers EXCEPT ![t] = b] /\ b.request = Step("ready")
    <3>1. PICK q : q = Step("ready")
      OBVIOUS
    <3>2. PICK b : b = [request |-> q, shows |-> shown]
      OBVIOUS
    <3>3. browsers' = [browsers EXCEPT ![t] = b]
      BY <2>2, <3>1, <3>2 DEF Ends, Tab
    <3>4. b \in [request : TabRequest, shows : Shown] /\ b.request = q
      BY <2>1, <3>1, <3>2
    <3> QED
      BY <3>1, <3>3, <3>4
  <2>3. ASSUME Fails(t)
        PROVE  \E b \in [request : TabRequest, shows : Shown] :
                 browsers' = [browsers EXCEPT ![t] = b] /\ b.request = Step("ready")
    <3>1. PICK q : q = Step("ready")
      OBVIOUS
    <3>2. PICK b : b = [request |-> q, shows |-> browsers[t].shows]
      OBVIOUS
    <3>3. browsers' = [browsers EXCEPT ![t] = b]
      BY <2>3, <3>1, <3>2, TabGoesIs DEF Fails, SInv
    <3>4. b \in [request : TabRequest, shows : Shown] /\ b.request = q
      BY <2>1, <3>1, <3>2, TabIs DEF SInv
    <3> QED
      BY <3>1, <3>3, <3>4
  <2> QED
    BY <1>2, <1>4, <2>2, <2>3, ShownAre
<1>11. /\ browsers' \in [Browsers -> [request : TabRequest, shows : Shown]]
       /\ browsers'[t].request.at = "ready"
       /\ \A v \in Browsers \ {t} : browsers'[v] = browsers[v]
  <2>1. browsers \in [Browsers -> [request : TabRequest, shows : Shown]]
    BY DEF SInv, SignTyped
  <2> QED
    BY <1>10, <2>1 DEF Step
<1>12. SignTyped'
  <2>1. \A v \in Browsers : browsers'[v].shows \in Shown
    BY <1>11
  <2> QED
    BY <1>4, <1>7, <1>8, <1>11, <2>1 DEF SInv, SignTyped, AuthTypeOK, Challenge, Session, Shown
<1>13. /\ r.from \in DOMAIN challenges
       /\ challenges[r.from].used /\ challenges[r.from].wallet = r.wallet
       /\ role[r.wallet] # "none"
       /\ \A s \in DOMAIN sessions : sessions[s].from # r.from
       /\ \A v \in Browsers \ {t} :
            browsers[v].request.at \in Past => browsers[v].request.from # r.from
  BY <1>1, <1>2 DEF SInv, AllRight, Right, Past
<1>14. x.from = r.from /\ x.wallet = r.wallet
  BY <1>3
<1>15. ASSUME NEW v \in Browsers
       PROVE  Right(v, browsers[v].request)'
  <2>1. CASE v = t
    BY <1>11, <2>1 DEF Right, Past
  <2>2. CASE v # t
    <3>1. PICK p : p = browsers[v].request
      OBVIOUS
    <3>2. Right(v, p) /\ browsers'[v].request = p
      BY <1>11, <2>2, <3>1 DEF SInv, AllRight
    <3>3. ASSUME p.at \in Past
          PROVE  \A s \in DOMAIN sessions' : sessions'[s].from # p.from
      BY <1>7, <1>9, <1>13, <1>14, <2>2, <3>1, <3>2, <3>3 DEF Right
    <3>4. ASSUME p.at \in Past, NEW u \in Browsers \ {v}, browsers'[u].request.at \in Past
          PROVE  browsers'[u].request.from # p.from
      BY <1>11, <3>2, <3>4 DEF Right, Past
    <3> QED
      BY <1>4, <3>2, <3>3, <3>4 DEF Right
  <2> QED
    BY <2>1, <2>2
<1>16. Opened'
  BY <1>4, <1>7, <1>9, <1>13, <1>14 DEF SInv, Opened
<1>17. OneSessionPerChallenge'
  <2>1. \A s, u \in DOMAIN sessions' : sessions'[s].from = sessions'[u].from => s = u
    BY <1>7, <1>9, <1>13, <1>14 DEF SInv, OneSessionPerChallenge
  <2>2. \A s \in DOMAIN sessions' : sessions'[s].wallet = challenges'[sessions'[s].from].wallet
    BY <1>4, <1>7, <1>9, <1>13, <1>14 DEF SInv, OneSessionPerChallenge
  <2> QED
    BY <2>1, <2>2 DEF OneSessionPerChallenge
<1> QED
  BY <1>12, <1>15, <1>16, <1>17 DEF SInv, AllRight

\* A session's row is marked, and the cookie may go.
LEMMA SessionSet ==
  ASSUME SInv, NEW s \in DOMAIN sessions, NEW state \in {"live", "deleted", "expired"},
         sessions' = [sessions EXCEPT ![s].state = state], UNCHANGED <<role, challenges>>
  PROVE  /\ sessions' \in Seq(Session) /\ Len(sessions') = Len(sessions)
         /\ Len(sessions') <= MaxSessions /\ Grown
<1>1. sessions \in Seq(Session) /\ s \in 1 .. Len(sessions) /\ Len(sessions) <= MaxSessions
  BY RowsOf DEF SInv, SignTyped, AuthTypeOK, Session
<1>2. PICK x : x = [sessions[s] EXCEPT !.state = state]
  OBVIOUS
<1>3. x \in Session /\ x.from = sessions[s].from /\ x.wallet = sessions[s].wallet
  BY <1>2, RowsOf DEF SInv, Session
<1>4. sessions' = [sessions EXCEPT ![s] = x]
  BY <1>2
<1>5. /\ sessions' \in Seq(Session) /\ Len(sessions') = Len(sessions)
      /\ \A d \in 1 .. Len(sessions) : sessions'[d] = IF d = s THEN x ELSE sessions[d]
  BY <1>1, <1>3, <1>4, ExceptSeq
<1>6. DOMAIN sessions' = DOMAIN sessions /\ DOMAIN sessions = 1 .. Len(sessions)
  BY RowsOf DEF SInv
<1>7. Grown
  BY <1>3, <1>5, <1>6, RolesAre DEF Grown
<1> QED
  BY <1>1, <1>5, <1>7

LEMMA SignOutKeeps ==
  ASSUME SInv, NEW t \in Browsers, SignOut(t)
  PROVE  SInv'
<1>1. Ends(t, SignedOut) /\ UNCHANGED <<role, challenges>>
  BY DEF SignOut
<1>2. CASE UNCHANGED sessions /\ (UNCHANGED cookie \/ cookie' = 0)
  <2>1. cookie' \in 0 .. Len(sessions)
    BY <1>2, RolesAre, RowsOf DEF SInv
  <2> QED
    BY <1>1, <1>2, <2>1, RolesAre, ShownAre, EndsKeeps
<1>3. CASE /\ cookie # 0 /\ cookie' = 0
           /\ sessions' = [sessions EXCEPT ![cookie].state = IF @ = "live" THEN "deleted" ELSE @]
  <2>1. cookie \in DOMAIN sessions
    BY <1>3, RolesAre, RowsOf DEF SInv
  <2>2. PICK state : state = IF sessions[cookie].state = "live" THEN "deleted" ELSE sessions[cookie].state
    OBVIOUS
  <2>3. state \in {"live", "deleted", "expired"}
    BY <2>1, <2>2, RowsOf DEF SInv, Session
  <2>4. sessions' = [sessions EXCEPT ![cookie].state = state]
    BY <1>3, <2>2
  <2>5. /\ sessions' \in Seq(Session) /\ Len(sessions') = Len(sessions)
        /\ Len(sessions') <= MaxSessions /\ Grown
    BY <1>1, <2>1, <2>3, <2>4, SessionSet
  <2>6. /\ challenges' \in Seq(Challenge) /\ Len(challenges') <= MaxChallenges
        /\ cookie' \in 0 .. Len(sessions')
    BY <1>1, <1>3, <2>5, RowsOf DEF SInv, SignTyped, AuthTypeOK, Challenge
  <2>7. PICK q : q = Step("ready")
    OBVIOUS
  <2>8. q \in TabRequest /\ Follows(browsers[t].request, q)
    BY <2>7, Readies
  <2>9. PICK b : b = [request |-> q, shows |-> SignedOut]
    OBVIOUS
  <2>10. b \in [request : TabRequest, shows : Shown] /\ b.request = q
    BY <2>8, <2>9, ShownAre
  <2>11. browsers' = [browsers EXCEPT ![t] = b]
    BY <1>1, <2>7, <2>9 DEF Ends, Tab
  <2> QED
    BY <2>5, <2>6, <2>8, <2>10, <2>11, TabSteps
<1> QED
  BY <1>2, <1>3 DEF SignOut

LEMMA ChangeKeeps ==
  ASSUME SInv, NEW t \in Browsers, NEW w \in Signers, NEW a \in Role, ChangeRole(t, w, a)
  PROVE  SInv'
<1>1. PICK q : q = [at |-> "granting", target |-> w, role |-> a]
  OBVIOUS
<1>2. q \in TabRequest /\ Follows(browsers[t].request, q)
  BY <1>1 DEF TabRequest, Follows
<1> QED
  BY <1>1, <1>2, RolesAre, GoesKeeps DEF ChangeRole

LEMMA AuthorizeKeeps ==
  ASSUME SInv, NEW t \in Browsers, AuthorizeGrant(t)
  PROVE  SInv'
<1>1. PICK r : r = browsers[t].request
  OBVIOUS
<1>2. r \in [at : {"granting", "granted"}, target : Signers, role : Role]
  BY <1>1, TabIs DEF SInv, AuthorizeGrant, At
<1>3. PICK q : q = [r EXCEPT !.at = "granted"]
  OBVIOUS
<1>4. q \in [at : {"granting", "granted"}, target : Signers, role : Role] /\ q.at = "granted"
  BY <1>2, <1>3
<1>5. q \in TabRequest /\ Follows(r, q)
  BY <1>4 DEF TabRequest, Follows
<1>6. cookie' \in 0 .. Len(sessions) /\ UNCHANGED <<role, challenges, sessions>>
      /\ (TabGoes(t, q) \/ Fails(t))
  BY <1>1, <1>3, RolesAre, RowsOf DEF AuthorizeGrant, SInv
<1> QED
  BY <1>1, <1>5, <1>6, RolesAre, GoesKeeps, FailsKeeps

LEMMA WriteGrantKeeps ==
  ASSUME SInv, NEW t \in Browsers, WriteGrant(t)
  PROVE  SInv'
<1>1. PICK r : r = browsers[t].request
  OBVIOUS
<1>2. r \in [at : {"granting", "granted"}, target : Signers, role : Role]
  BY <1>1, TabIs DEF SInv, WriteGrant, At
<1>3. role' = [role EXCEPT ![r.target] = r.role]
  BY <1>1 DEF WriteGrant
<1>4. RolesKept
  BY <1>2, <1>3, RolesAre DEF RolesKept, Role
<1> QED
  BY <1>4, RolesAre, FailsKeeps DEF WriteGrant

\* What happens outside the tabs.
LEMMA OutsideKeeps ==
  ASSUME SInv, UNCHANGED browsers, Grown, cookie' = cookie, Len(sessions') = Len(sessions),
         challenges' \in Seq(Challenge), Len(challenges') <= MaxChallenges,
         sessions' \in Seq(Session)
  PROVE  SInv'
<1>1. AuthTypeOK' /\ SignTyped'
  BY DEF SInv, SignTyped, AuthTypeOK, Challenge, Session, Shown, Grown, RolesKept
<1>2. \A t \in Browsers : Follows(browsers[t].request, browsers'[t].request)
  BY DEF Follows
<1> QED
  BY <1>1, <1>2, Following

LEMMA BootstrapKeeps ==
  ASSUME SInv, NEW w \in Signers, Bootstrap(w)
  PROVE  SInv'
<1>1. RolesKept
  BY RolesAre DEF Bootstrap, RolesKept, Role
<1>2. challenges \in Seq(Challenge) /\ sessions \in Seq(Session) /\ Len(challenges) <= MaxChallenges
  BY DEF SInv, SignTyped, AuthTypeOK, Challenge, Session
<1> QED
  BY <1>1, <1>2, Still, OutsideKeeps DEF Bootstrap

LEMMA ExpiresKeeps ==
  ASSUME SInv, Expire
  PROVE  SInv'
<1>1. challenges \in Seq(Challenge) /\ sessions \in Seq(Session) /\ Len(challenges) <= MaxChallenges
  BY DEF SInv, SignTyped, AuthTypeOK, Challenge, Session
<1>2. ASSUME NEW c \in DOMAIN challenges, challenges' = [challenges EXCEPT ![c].expired = TRUE],
             UNCHANGED <<role, sessions, cookie, browsers>>
      PROVE  SInv'
  <2>1. PICK x : x = [challenges[c] EXCEPT !.expired = TRUE]
    OBVIOUS
  <2>2. x \in Challenge /\ x.wallet = challenges[c].wallet /\ (challenges[c].used => x.used)
    BY <2>1, RowsOf DEF SInv, Challenge
  <2>3. challenges' = [challenges EXCEPT ![c] = x]
    BY <1>2, <2>1
  <2> QED
    BY <1>1, <1>2, <2>2, <2>3, ChallengeSet, OutsideKeeps
<1>3. ASSUME NEW s \in DOMAIN sessions, sessions' = [sessions EXCEPT ![s].state = "expired"],
             UNCHANGED <<role, challenges, cookie, browsers>>
      PROVE  SInv'
  BY <1>1, <1>3, SessionSet, OutsideKeeps
<1> QED
  BY <1>2, <1>3 DEF Expire

LEMMA SignStarts == AuthInit => SInv
<1> SUFFICES ASSUME AuthInit PROVE SInv
  OBVIOUS
<1>1. PICK q : q = Step("restoring")
  OBVIOUS
<1>2. q \in TabRequest /\ q.at = "restoring"
  BY <1>1 DEF TabRequest, Step
<1>3. PICK b : b = [request |-> q, shows |-> SignedOut]
  OBVIOUS
<1>4. b \in [request : TabRequest, shows : Shown] /\ b.request = q
  BY <1>2, <1>3, ShownAre
<1>5. browsers = [t \in Browsers |-> b]
  BY <1>1, <1>3 DEF AuthInit, Tab
<1>6. browsers \in [Browsers -> [request : TabRequest, shows : Shown]]
  BY <1>4, <1>5
<1>7. \A t \in Browsers : browsers[t].request.at = "restoring" /\ browsers[t].shows \in Shown
  BY <1>2, <1>4, <1>5
<1>8. /\ challenges = <<>> /\ sessions = <<>> /\ cookie = 0 /\ Len(challenges) = 0 /\ Len(sessions) = 0
      /\ DOMAIN challenges = {} /\ DOMAIN sessions = {}
      /\ challenges \in Seq(Challenge) /\ sessions \in Seq(Session)
  BY EmptySeq DEF AuthInit
<1>9. role \in [Signers -> Role \union {"none"}] /\ MaxChallenges \in Nat /\ MaxSessions \in Nat
  BY AuthAssumption DEF AuthInit
<1>10. SignTyped
  BY <1>6, <1>7, <1>8, <1>9 DEF SignTyped, AuthTypeOK, Challenge, Session, Shown
<1>11. AllRight
  BY <1>7 DEF AllRight, Right, Past
<1> QED
  BY <1>8, <1>10, <1>11 DEF SInv, Opened, OneSessionPerChallenge

LEMMA SignInductive == SInv /\ [AuthNext]_authVars => SInv'
<1> SUFFICES ASSUME SInv, [AuthNext]_authVars PROVE SInv'
  OBVIOUS
<1>1. CASE UNCHANGED authVars
  <2>1. challenges \in Seq(Challenge) /\ sessions \in Seq(Session) /\ Len(challenges) <= MaxChallenges
    BY DEF SInv, SignTyped, AuthTypeOK, Challenge, Session
  <2> QED
    BY <1>1, <2>1, Still, RolesAre, OutsideKeeps DEF authVars
<1>2. CASE AuthNext
  <2>1. ASSUME NEW t \in Browsers,
               \/ Restore(t) \/ ReloadTab(t)
               \/ FindChallenge(t) \/ CreateChallenge(t) \/ SignChallenge(t) \/ TakeChallenge(t)
               \/ UseChallenge(t) \/ UpsertUser(t) \/ CreateSession(t)
        PROVE  SInv'
    BY <2>1, RestoreKeeps, FindKeeps, CreateKeeps, SignKeeps, TakeKeeps, UseKeeps, UpsertKeeps,
       SessionKeeps
  <2>2. ASSUME NEW t \in Browsers, SignOut(t) \/ AuthorizeGrant(t) \/ WriteGrant(t)
        PROVE  SInv'
    BY <2>2, SignOutKeeps, AuthorizeKeeps, WriteGrantKeeps
  <2>3. ASSUME NEW t \in Browsers, GiveUp(t)
        PROVE  SInv'
    BY <2>3, RolesAre, FailsKeeps DEF GiveUp
  <2>4. ASSUME NEW t \in Browsers, NEW w \in Signers, Connect(t, w) \/ \E a \in Role : ChangeRole(t, w, a)
        PROVE  SInv'
    BY <2>4, ConnectKeeps, ChangeKeeps
  <2> QED
    BY <1>2, <2>1, <2>2, <2>3, <2>4, BootstrapKeeps, ExpiresKeeps DEF AuthNext
<1> QED
  BY <1>1, <1>2

LEMMA SignAlways == AuthSpec => []SInv
BY SignStarts, SignInductive, PTL DEF AuthSpec

\* Whatever tabs, retries and expiries do, the rows of users, challenges and
\* sessions stay well formed, and a cookie names a session that was opened.
THEOREM SignInTyped == AuthSpec => []AuthTypeOK
<1>1. SInv => AuthTypeOK
  BY DEF SInv, SignTyped
<1> QED
  BY <1>1, SignAlways, PTL

\* verifyChallenge and createSession: a challenge opens at most one session,
\* that of the wallet it was made for, for every number of tabs of a browser.
THEOREM ChallengesAreSpentOnce == AuthSpec => []OneSessionPerChallenge
<1>1. SInv => OneSessionPerChallenge
  BY DEF SInv
<1> QED
  BY <1>1, SignAlways, PTL
==============================================================================
