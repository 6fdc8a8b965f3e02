--------------------------------- MODULE Auth ---------------------------------
(***************************************************************************)
(* Signing in with a wallet: challenges, sessions and platform roles       *)
(* (lib/auth, api/auth, api/admin) and the tabs of one browser that use    *)
(* them (hooks/useAuth.ts and the layouts of the dashboard).  The tabs     *)
(* share the cookie.  A request can be lost on its way in or its answer on *)
(* the way out; the owner of the wallet can refuse to sign.                *)
EXTENDS Naturals, Sequences, FiniteSets, FiniteSetsExt

CONSTANTS
  Signers,
  Allowlist,     \* ADMIN_WALLETS
  Bootstrapping, \* BOOTSTRAP_SECRET is configured
  Browsers,
  MaxChallenges, \* bound: challenges made
  MaxSessions    \* bound: sessions opened

ASSUME AuthAssumption ==
  Allowlist \subseteq Signers /\ Bootstrapping \in BOOLEAN
  /\ MaxChallenges \in Nat /\ MaxSessions \in Nat

VARIABLES
  role,       \* the users table: a wallet's role, "none" without a row
  challenges, \* AuthChallenge rows, oldest first
  sessions,   \* Session rows, also the deleted; `from` is the challenge signed
  cookie,     \* the session the browser's cookie names, 0 for none
  browsers        \* per tab: what useAuth shows, and the request it waits for

authVars == <<role, challenges, sessions, cookie, browsers>>

Role == {"ADMIN", "EMPLOYEE"}
SignedOut == [in |-> FALSE, wallet |-> "nobody", role |-> "EMPLOYEE"]
SignedIn(w, r) == [in |-> TRUE, wallet |-> w, role |-> r]
Step(name) == [at |-> name]
Tab(request, shows) == [request |-> request, shows |-> shows]

AuthInit ==
  /\ role = [w \in Signers |-> "none"]
  /\ challenges = <<>> /\ sessions = <<>> /\ cookie = 0
  /\ browsers = [t \in Browsers |-> Tab(Step("restoring"), SignedOut)]

At(t, name) == browsers[t].request.at = name
TabGoes(t, request) == browsers' = [browsers EXCEPT ![t].request = request]
Ends(t, shows) == browsers' = [browsers EXCEPT ![t] = Tab(Step("ready"), shows)]

\* An error leaves what is shown as it was.
Fails(t) == TabGoes(t, Step("ready"))

\* getSession: a token that verifies, with a row that is there and not expired.
\* What it may do is the user's present role, not the token's.
Holder == IF cookie # 0 /\ sessions[cookie].state = "live" THEN sessions[cookie].wallet ELSE "nobody"
IsAdmin == Holder # "nobody" /\ role[Holder] = "ADMIN"

\* restoreSession, on mount: GET /api/auth/me.
Restore(t) ==
  /\ At(t, "restoring")
  /\ \/ Ends(t, SignedOut)
     \/ Holder # "nobody" /\ Ends(t, SignedIn(Holder, role[Holder]))
  /\ UNCHANGED <<role, challenges, sessions, cookie>>

ReloadTab(t) ==
  /\ browsers' = [browsers EXCEPT ![t] = Tab(Step("restoring"), SignedOut)]
  /\ UNCHANGED <<role, challenges, sessions, cookie>>

------------------------------------------------------------------------------
\* What each page shows, by what useAuth knows.
Verifying(t) == browsers[t].request.at \notin {"ready", "granting", "granted"}
AdminLayout(t) ==
  IF Verifying(t) THEN "verifying"
  ELSE IF ~browsers[t].shows.in THEN "sign in"
  ELSE IF browsers[t].shows.role # "ADMIN" THEN "denied"
  ELSE "panel"
EmployeeLayout(t) ==
  IF Verifying(t) THEN "verifying" ELSE IF browsers[t].shows.in THEN "portal" ELSE "sign in"

\* /dashboard?access=...: sends whoever is signed in on to a panel.
DashboardPage(t, access) ==
  IF Verifying(t) THEN "verifying"
  ELSE IF ~browsers[t].shows.in THEN IF access = "none" THEN "choose" ELSE "sign in"
  ELSE CASE access = "admin" /\ AdminLayout(t) = "denied" -> "denied"
         [] access = "admin" /\ AdminLayout(t) = "panel"  -> "to admin"
         [] OTHER                                         -> "to employee"
OffersSignIn(t) ==
  "sign in" \in {AdminLayout(t), EmployeeLayout(t), DashboardPage(t, "admin")}

------------------------------------------------------------------------------
\* signIn: connect, ask for a challenge, sign it, send the signature.

Connect(t, w) ==
  /\ OffersSignIn(t)
  /\ TabGoes(t, [at |-> "asking", wallet |-> w])
  /\ UNCHANGED <<role, challenges, sessions, cookie>>

Active(w) == {c \in DOMAIN challenges :
                challenges[c].wallet = w /\ ~challenges[c].used /\ ~challenges[c].expired}

\* createChallenge hands out the latest active challenge again; without one it
\* makes one, after the look.
FindChallenge(t) ==
  LET w == browsers[t].request.wallet IN
  /\ At(t, "asking")
  /\ TabGoes(t, IF Active(w) = {} THEN [at |-> "creating", wallet |-> w]
             ELSE [at |-> "prompt", wallet |-> w, signs |-> Max(Active(w))])
  /\ UNCHANGED <<role, challenges, sessions, cookie>>

CreateChallenge(t) ==
  LET w == browsers[t].request.wallet IN
  /\ At(t, "creating") /\ Len(challenges) < MaxChallenges
  /\ challenges' = Append(challenges, [wallet |-> w, used |-> FALSE, expired |-> FALSE])
  /\ TabGoes(t, [at |-> "prompt", wallet |-> w, signs |-> Len(challenges) + 1])
  /\ UNCHANGED <<role, sessions, cookie>>

SignChallenge(t) ==
  /\ At(t, "prompt")
  /\ TabGoes(t, [browsers[t].request EXCEPT !.at = "sent"])
  /\ UNCHANGED <<role, challenges, sessions, cookie>>

\* verifyChallenge takes the wallet's latest active challenge, whichever was
\* signed ...
TakeChallenge(t) ==
  LET r == browsers[t].request IN
  /\ At(t, "sent") /\ Active(r.wallet) # {}
  /\ TabGoes(t, [at |-> "taken", wallet |-> r.wallet, signs |-> r.signs,
              takes |-> Max(Active(r.wallet))])
  /\ UNCHANGED <<role, challenges, sessions, cookie>>

\* ... marks it used if it still is not, and only then verifies the signature.
\* Mutant: it is used up again.
UsedAgain(c) == TRUE
Unused(c) == ~challenges[c].used
UseChallenge(t) ==
  LET r == browsers[t].request
      valid == Unused(r.takes) /\ r.signs = r.takes
  IN
  /\ At(t, "taken")
  /\ challenges' = [challenges EXCEPT ![r.takes].used = TRUE]
  /\ IF valid THEN TabGoes(t, [at |-> "verified", wallet |-> r.wallet, from |-> r.takes]) ELSE Fails(t)
  /\ UNCHANGED <<role, sessions, cookie>>

\* upsertUser: a new user is an EMPLOYEE unless allowlisted, and no role is
\* lowered.
RoleOnArrival(w) ==
  IF w \in Allowlist THEN "ADMIN" ELSE IF role[w] = "none" THEN "EMPLOYEE" ELSE role[w]
UpsertUser(t) ==
  LET w == browsers[t].request.wallet IN
  /\ At(t, "verified")
  /\ role' = [role EXCEPT ![w] = RoleOnArrival(w)]
  /\ TabGoes(t, [at |-> "known", wallet |-> w, from |-> browsers[t].request.from, role |-> RoleOnArrival(w)])
  /\ UNCHANGED <<challenges, sessions, cookie>>

\* createSession: a row per token, so that signing out can revoke it.
NewSession(r) ==
  sessions' = Append(sessions, [wallet |-> r.wallet, from |-> r.from, state |-> "live"])

\* The answer sets the cookie, or is lost on the way.
CreateSession(t) ==
  LET r == browsers[t].request IN
  /\ At(t, "known") /\ Len(sessions) < MaxSessions
  /\ NewSession(r)
  /\ \/ cookie' = Len(sessions) + 1 /\ Ends(t, SignedIn(r.wallet, r.role))
     \/ UNCHANGED cookie /\ Fails(t)
  /\ UNCHANGED <<role, challenges>>

\* The owner refuses, the rate limit answers 429, a request is lost, or no
\* active challenge is left: the tab reports an error.
GiveUp(t) ==
  /\ browsers[t].request.at \in {"asking", "creating", "prompt", "sent", "taken", "verified", "known",
                             "granting", "granted"}
  /\ Fails(t)
  /\ UNCHANGED <<role, challenges, sessions, cookie>>

\* signOut: the session row goes, or its deletion fails, and the cookie goes in
\* any case; if the request is lost neither does.  The tab signs out anyway.
SignOut(t) ==
  /\ At(t, "ready") /\ (AdminLayout(t) = "panel" \/ EmployeeLayout(t) = "portal")
  /\ Ends(t, SignedOut)
  /\ \/ UNCHANGED <<sessions, cookie>>
     \/ UNCHANGED sessions /\ cookie' = 0
     \/ /\ cookie # 0 /\ cookie' = 0
        /\ sessions' = [sessions EXCEPT ![cookie].state =
                          IF @ = "live" THEN "deleted" ELSE @]
  /\ UNCHANGED <<role, challenges>>

------------------------------------------------------------------------------
\* The user directory.  AdminUsersPage offers the other role for every user but oneself.
ChangeRole(t, w, r) ==
  /\ AdminLayout(t) = "panel" /\ At(t, "ready")
  /\ w # browsers[t].shows.wallet /\ role[w] \notin {"none", r}
  /\ TabGoes(t, [at |-> "granting", target |-> w, role |-> r])
  /\ UNCHANGED <<role, challenges, sessions, cookie>>

\* PATCH admin/users/[id]/role: whoever holds the cookie must be ADMIN; a token
\* that no longer verifies loses the cookie in the middleware.
AuthorizeGrant(t) ==
  /\ At(t, "granting")
  /\ IF IsAdmin THEN TabGoes(t, [browsers[t].request EXCEPT !.at = "granted"]) ELSE Fails(t)
  /\ cookie' = IF cookie # 0 /\ sessions[cookie].state = "expired" THEN 0 ELSE cookie
  /\ UNCHANGED <<role, challenges, sessions>>

WriteGrant(t) ==
  /\ At(t, "granted")
  /\ role' = [role EXCEPT ![browsers[t].request.target] = browsers[t].request.role]
  /\ Fails(t)
  /\ UNCHANGED <<challenges, sessions, cookie>>

\* POST admin/bootstrap, for who knows the secret.
Bootstrap(w) ==
  /\ Bootstrapping
  /\ role' = [role EXCEPT ![w] = "ADMIN"]
  /\ UNCHANGED <<challenges, sessions, cookie, browsers>>

Expire ==
  \/ \E c \in DOMAIN challenges :
       challenges' = [challenges EXCEPT ![c].expired = TRUE] /\ UNCHANGED <<role, sessions, cookie, browsers>>
  \/ \E s \in DOMAIN sessions :
       /\ sessions[s].state = "live"
       /\ sessions' = [sessions EXCEPT ![s].state = "expired"]
       /\ UNCHANGED <<role, challenges, cookie, browsers>>

AuthNext ==
  \/ \E t \in Browsers :
       \/ Restore(t) \/ ReloadTab(t)
       \/ FindChallenge(t) \/ CreateChallenge(t) \/ SignChallenge(t) \/ TakeChallenge(t) \/ UseChallenge(t)
       \/ UpsertUser(t) \/ CreateSession(t) \/ GiveUp(t) \/ SignOut(t)
       \/ AuthorizeGrant(t) \/ WriteGrant(t)
       \/ \E w \in Signers : Connect(t, w) \/ \E r \in Role : ChangeRole(t, w, r)
  \/ \E w \in Signers : Bootstrap(w)
  \/ Expire

------------------------------------------------------------------------------
AuthTypeOK ==
  /\ role \in [Signers -> Role \union {"none"}]
  /\ challenges \in Seq([wallet : Signers, used : BOOLEAN, expired : BOOLEAN])
  /\ sessions \in Seq([wallet : Signers, from : 1 .. MaxChallenges,
                       state : {"live", "deleted", "expired"}])
  /\ Len(challenges) <= MaxChallenges /\ Len(sessions) <= MaxSessions
  /\ cookie \in 0 .. Len(sessions)
  /\ \A t \in Browsers : browsers[t].shows \in [in : BOOLEAN, wallet : Signers \union {"nobody"}, role : Role]

\* "Challenges are one-time-use": whichever tabs, retries and look-ups race, a
\* challenge opens one session at most, and for the wallet it was made for.
OneSessionPerChallenge ==
  /\ \A s, u \in DOMAIN sessions : sessions[s].from = sessions[u].from => s = u
  /\ \A s \in DOMAIN sessions : sessions[s].wallet = challenges[sessions[s].from].wallet
==============================================================================
