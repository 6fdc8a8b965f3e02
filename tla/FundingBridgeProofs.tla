------------------------- MODULE FundingBridgeProofs -------------------------
(***************************************************************************)
(* Theorems about the funding of a batch, for any payments, tabs, wallets, *)
(* members, transactions and number of attempts.                           *)
(***************************************************************************)
EXTENDS FundingBridge, TLAPS, FiniteSetTheorems, NaturalLemmas

Phase ==
  {"load", "ready", "opening", "disclosing", "submitted", "abandoning", "verifying",
   "linking", "failing"}
\* The phases in which a tab has hold of an attempt there is.
Holding == Phase \ {"load", "ready", "opening"}

Tab ==
  [phase : Phase, attempt : 0 .. AttemptLimit, plan : Plans \union {NoPlan},
   hash : Hashes \union {NoHash}, read : Hashes \union {NoHash}]
Transaction ==
  [status : {"unsent"}] \union [status : {"pending", "success", "failed"}, plan : Plans]

Typed ==
  /\ payments \in [Payments -> PaymentState]
  /\ linked \in [Payments -> Hashes \union {NoHash}]
  /\ attempts \subseteq Attempt
  /\ network \in [Hashes -> Transaction]
  /\ tabs \in [Tabs -> Tab]
  /\ findings \subseteq Hashes

\* Attempts are numbered one after another.
Serial ==
  /\ LatestNumber \in 0 .. AttemptLimit
  /\ {a.attempt : a \in attempts} = 1 .. LatestNumber
  /\ \A a, b \in attempts : a.attempt = b.attempt => a = b

NoneInFlight == \A a \in attempts : a.status \notin IN_FLIGHT
LatestInFlight == \A a \in attempts : a.status \in IN_FLIGHT => a.attempt = LatestNumber

\* A transaction is recorded once, and by then the attempt awaits it.
Unrecorded == \A a \in attempts : AwaitsHash(a) => a.hash = NoHash

\* The network has executed what this attempt planned.
Executed(a) == a.hash \in Hashes /\ Succeeded(a.hash) /\ AsPlanned(a)

\* What a tab, or its request, may rely on.
Relies(tab) ==
  /\ tab.phase \in Holding => tab.attempt \in 1 .. LatestNumber
  /\ tab.phase = "opening" =>
       /\ tab.attempt \in 1 .. LatestNumber + 1 /\ tab.plan \in Plans
       /\ tab.attempt = LatestNumber + 1 => NoneInFlight
  /\ tab.phase = "disclosing" => tab.plan \in Plans
  /\ tab.phase = "submitted" => tab.hash \in Hashes
  /\ tab.phase = "linking" =>
       \E a \in attempts : a.attempt = tab.attempt /\ a.hash = tab.read /\ Executed(a)
Relying == \A t \in Tabs : Relies(tabs[t])

Funded == \A a \in attempts : a.status = "CONFIRMED" => a.hash \in Hashes /\ Succeeded(a.hash)

\* What is linked was executed for an attempt that says so.
Backed(h) == \E a \in attempts : a.hash = h /\ a.linked /\ Executed(a)
Adopted ==
  \A p, q \in Payments : linked[p] = linked[q] /\ (linked[p] # NoHash => Backed(linked[p]))

IInv ==
  /\ Typed /\ Serial /\ LatestInFlight /\ Unrecorded
  /\ Relying /\ Funded /\ Adopted

------------------------------------------------------------------------------
\* The approver the server chooses.

\* Among candidates there is always a first, so the choice is of one of them.
LEMMA ApproverIsMember ==
  ASSUME NEW w, HasApprover(w)
  PROVE  FinanceApprover(w) \in Wallets
<1> DEFINE C == Candidates(w)
           rank == [m \in C |-> Priority[Members[m].role]]
           R == {rank[m] : m \in C}
<1>1. C \subseteq DOMAIN Members /\ C \subseteq Nat /\ C # {}
  BY FundingAssumption DEF Candidates, HasApprover
<1>2. \A m \in C : rank[m] \in Nat
  BY DEF Candidates, Priority
<1>3. PICK r \in R : \A s \in R : r <= s
  <2>1. R \subseteq Nat /\ R # {}
    BY <1>1, <1>2
  <2> QED
    BY <2>1, LeastNatural
<1>4. PICK m \in C : rank[m] = r /\ \A n \in C : rank[n] = r => m <= n
  <2> DEFINE T == {m \in C : rank[m] = r}
  <2>1. T \subseteq Nat /\ T # {}
    BY <1>1, <1>3
  <2>2. \E m \in T : \A n \in T : m <= n
    BY <2>1, LeastNatural
  <2> QED
    BY <2>2
<1>5. \A n \in C : Precedes(m, n)
  <2> SUFFICES ASSUME NEW n \in C PROVE Precedes(m, n)
    OBVIOUS
  <2>1. rank[m] <= rank[n] /\ rank[m] \in Nat /\ rank[n] \in Nat
    BY <1>2, <1>3, <1>4
  <2>2. rank[m] < rank[n] \/ (rank[m] = rank[n] /\ m <= n)
    BY <1>4, <2>1
  <2> QED
    BY <2>2 DEF Precedes
<1> DEFINE first == CHOOSE i \in C : \A n \in C : Precedes(i, n)
<1>6. first \in C
  BY <1>5
<1> HIDE DEF first, C
<1>7. Members[first].wallet \in Wallets
  BY <1>1, <1>6, FundingAssumption
<1> QED
  BY <1>7 DEF FinanceApprover, first, C

LEMMA PlanTyped ==
  ASSUME NEW t \in Tabs, PlanReady(t) \/ Eligible(t)
  PROVE  Plan(t) \in Plans
<1>1. WalletOf[t] \in Wallets /\ HasApprover(WalletOf[t])
  BY FundingAssumption DEF PlanReady, Eligible
<1> QED
  BY <1>1, ApproverIsMember DEF Plan, Plans

------------------------------------------------------------------------------
\* The attempts.

LEMMA NoHashIsNone == NoHash \notin Hashes /\ NoPlan \notin Wallets
BY FundingAssumption DEF NoPlan

LEMMA NumberedIs ==
  ASSUME IInv, NEW n \in 1 .. LatestNumber
  PROVE  Numbered(n) \in attempts /\ Numbered(n).attempt = n /\ Numbered(n) \in Attempt
<1>1. \E a \in attempts : a.attempt = n
  BY DEF IInv, Serial
<1> QED
  BY <1>1 DEF Numbered, IInv, Typed

LEMMA TheNumbered ==
  ASSUME IInv, NEW a \in attempts
  PROVE  a.attempt \in 1 .. LatestNumber /\ Numbered(a.attempt) = a
<1>1. a.attempt \in 1 .. LatestNumber
  BY DEF IInv, Serial
<1> QED
  BY <1>1, NumberedIs DEF IInv, Serial

LEMMA LatestIs ==
  ASSUME IInv, attempts # {}
  PROVE  /\ LatestNumber \in 1 .. LatestNumber
         /\ Latest = Numbered(LatestNumber) /\ Latest \in attempts /\ Latest.attempt = LatestNumber
<1>1. LatestNumber \in Nat /\ 1 .. LatestNumber # {}
  BY DEF IInv, Serial
<1>2. LatestNumber \in 1 .. LatestNumber
  BY <1>1
<1> QED
  BY <1>2, NumberedIs DEF Latest, Numbered

\* A row the database updates keeps its number; what was executed stays so.
LEMMA UpdateKeeps ==
  ASSUME IInv, NEW a \in attempts, NEW b \in Attempt, Update(a, b), UNCHANGED network,
         b.attempt = a.attempt, b.plan = a.plan,
         b.status \in IN_FLIGHT => a.status \in IN_FLIGHT,
         AwaitsHash(b) => b.hash = NoHash,
         b.status = "CONFIRMED" => b.hash \in Hashes /\ Succeeded(b.hash),
         a.hash # NoHash => b.hash = a.hash,
         a.linked => b.linked
  PROVE  /\ attempts' \subseteq Attempt /\ Serial' /\ LatestNumber' = LatestNumber
         /\ LatestInFlight' /\ Unrecorded' /\ Funded' /\ (NoneInFlight => NoneInFlight')
         /\ \A c \in attempts : Executed(c) =>
              \E d \in attempts' : /\ d.attempt = c.attempt /\ d.hash = c.hash /\ Executed(d)'
                                   /\ c.linked => d.linked
<1>1. attempts' = (attempts \ {a}) \union {b}
  BY DEF Update
<1>2. {c.attempt : c \in attempts'} = {c.attempt : c \in attempts}
  BY <1>1
<1>3. LatestNumber' = LatestNumber
  BY <1>2 DEF LatestNumber
<1>4. attempts' \subseteq Attempt /\ Serial'
  BY <1>1, <1>2, <1>3 DEF IInv, Typed, Serial
<1>5. LatestInFlight' /\ Unrecorded' /\ (NoneInFlight => NoneInFlight')
  BY <1>1, <1>3 DEF IInv, LatestInFlight, Unrecorded, NoneInFlight, AwaitsHash
<1>6. Funded'
  BY <1>1 DEF IInv, Funded, Succeeded
<1>7. ASSUME NEW c \in attempts, Executed(c)
      PROVE  \E d \in attempts' : /\ d.attempt = c.attempt /\ d.hash = c.hash /\ Executed(d)'
                                  /\ c.linked => d.linked
  <2>1. CASE c # a
    BY <1>1, <1>7, <2>1 DEF Executed, Succeeded, AsPlanned
  <2>2. CASE c = a
    <3>1. b \in attempts' /\ b.hash = c.hash
      BY <1>1, <1>7, <2>2, NoHashIsNone DEF Executed
    <3>2. Executed(b)'
      BY <1>7, <2>2, <3>1 DEF Executed, Succeeded, AsPlanned
    <3> QED
      BY <2>2, <3>1, <3>2
  <2> QED
    BY <2>1, <2>2
<1> QED
  BY <1>3, <1>4, <1>5, <1>6, <1>7

------------------------------------------------------------------------------
\* The tabs.

LEMMA NextNumber ==
  \A k, l \in Nat : k <= l => \A n \in 1 .. k + 1 : n \in 1 .. l + 1 /\ (n = l + 1 => l = k)
OBVIOUS

\* What a tab relies on outlives steps that only add or update attempts.
LEMMA StillRelies ==
  ASSUME IInv, NEW u \in Tabs, tabs'[u] = tabs[u],
         LatestNumber' \in Nat, LatestNumber <= LatestNumber',
         LatestNumber' = LatestNumber /\ NoneInFlight => NoneInFlight',
         \A c \in attempts : Executed(c) =>
           \E d \in attempts' : d.attempt = c.attempt /\ d.hash = c.hash /\ Executed(d)'
  PROVE  Relies(tabs[u])'
<1> DEFINE tab == tabs[u]
<1>1. Relies(tab) /\ tab \in Tab /\ LatestNumber \in Nat
  BY DEF IInv, Typed, Serial, Relying
<1>2. tab.phase \in Holding => tab.attempt \in 1 .. LatestNumber'
  BY <1>1 DEF Relies
<1>3. ASSUME tab.phase = "opening"
      PROVE  /\ tab.attempt \in 1 .. LatestNumber' + 1 /\ tab.plan \in Plans
             /\ tab.attempt = LatestNumber' + 1 => NoneInFlight'
  <2>1. /\ tab.attempt \in 1 .. LatestNumber + 1 /\ tab.plan \in Plans
        /\ tab.attempt = LatestNumber + 1 => NoneInFlight
    BY <1>1, <1>3 DEF Relies
  <2>2. /\ tab.attempt \in 1 .. LatestNumber' + 1
        /\ tab.attempt = LatestNumber' + 1 => LatestNumber' = LatestNumber
    BY <1>1, <2>1, NextNumber
  <2> QED
    BY <1>1, <2>1, <2>2
<1>4. tab.phase = "linking" =>
        \E a \in attempts' : a.attempt = tab.attempt /\ a.hash = tab.read /\ Executed(a)'
  BY <1>1 DEF Relies
<1> QED
  BY <1>1, <1>2, <1>3, <1>4 DEF Relies

\* A tab that moved relies on what is there, and so do the others.
LEMMA OthersRely ==
  ASSUME IInv, NEW t \in Tabs,
         tabs' = [tabs EXCEPT ![t] = tabs'[t]], tabs'[t] \in Tab, Relies(tabs[t])',
         LatestNumber' \in Nat, LatestNumber <= LatestNumber',
         LatestNumber' = LatestNumber /\ NoneInFlight => NoneInFlight',
         \A c \in attempts : Executed(c) =>
           \E d \in attempts' : d.attempt = c.attempt /\ d.hash = c.hash /\ Executed(d)'
  PROVE  tabs' \in [Tabs -> Tab] /\ Relying'
<1>1. tabs \in [Tabs -> Tab]
  BY DEF IInv, Typed
<1>2. tabs' \in [Tabs -> Tab]
  BY <1>1
<1>3. ASSUME NEW u \in Tabs, u # t
      PROVE  Relies(tabs[u])'
  <2>1. tabs'[u] = tabs[u]
    BY <1>1, <1>3
  <2> QED
    BY <2>1, StillRelies
<1> QED
  BY <1>2, <1>3 DEF Relying

\* A step that changes nothing but a tab, and what is reported.
LEMMA TabKeeps ==
  ASSUME IInv, NEW t \in Tabs, UNCHANGED <<payments, linked, attempts, network>>,
         findings' \subseteq Hashes,
         tabs' = [tabs EXCEPT ![t] = tabs'[t]], tabs'[t] \in Tab, Relies(tabs[t])'
  PROVE  IInv'
<1>1. LatestNumber' = LatestNumber /\ LatestNumber \in Nat
  BY DEF LatestNumber, IInv, Serial
<1>2. NoneInFlight => NoneInFlight'
  BY DEF NoneInFlight
<1>3. \A a : Executed(a)' = Executed(a)
  BY DEF Executed, Succeeded, AsPlanned
<1>4. tabs' \in [Tabs -> Tab] /\ Relying'
  BY <1>1, <1>2, <1>3, OthersRely
<1>5. Typed'
  BY <1>4 DEF IInv, Typed
<1>6. Serial' /\ LatestInFlight' /\ Unrecorded' /\ Funded'
  BY <1>1 DEF IInv, Serial, LatestInFlight, Unrecorded, AwaitsHash, Funded, Succeeded
<1>7. Adopted'
  BY <1>3 DEF IInv, Adopted, Backed
<1> QED
  BY <1>4, <1>5, <1>6, <1>7 DEF IInv

LEMMA HoldsIs ==
  ASSUME IInv, NEW t \in Tabs, NEW phase \in Phase, NEW n \in 0 .. AttemptLimit,
         NEW plan \in Plans \union {NoPlan}, Holds(t, phase, n, plan)
  PROVE  /\ tabs' = [tabs EXCEPT ![t] = tabs'[t]] /\ tabs'[t] \in Tab
         /\ tabs'[t].phase = phase /\ tabs'[t].attempt = n /\ tabs'[t].plan = plan
<1>1. tabs \in [Tabs -> Tab]
  BY DEF IInv, Typed
<1>2. tabs'[t] = [NewTab EXCEPT !.phase = phase, !.attempt = n, !.plan = plan]
  BY <1>1 DEF Holds
<1>3. tabs' = [tabs EXCEPT ![t] = tabs'[t]]
  BY <1>1, <1>2 DEF Holds
<1> QED
  BY <1>2, <1>3 DEF NewTab, Tab

LEMMA ReloadsIs ==
  ASSUME IInv, NEW t \in Tabs, Reloads(t)
  PROVE  tabs' = [tabs EXCEPT ![t] = tabs'[t]] /\ tabs'[t] \in Tab /\ Relies(tabs[t])'
<1>1. tabs \in [Tabs -> Tab]
  BY DEF IInv, Typed
<1>2. tabs'[t] = NewTab /\ tabs' = [tabs EXCEPT ![t] = tabs'[t]]
  BY <1>1 DEF Reloads
<1>3. NewTab \in Tab /\ NewTab.phase = "load"
  BY FundingAssumption DEF NewTab, Tab, Phase, NoPlan
<1> QED
  BY <1>2, <1>3 DEF Relies, Holding

LEMMA GoesIs ==
  ASSUME IInv, NEW t \in Tabs, NEW phase \in Phase, Goes(t, phase)
  PROVE  /\ tabs' = [tabs EXCEPT ![t] = tabs'[t]] /\ tabs'[t] \in Tab
         /\ tabs'[t].phase = phase /\ tabs'[t].attempt = tabs[t].attempt
         /\ tabs'[t].plan = tabs[t].plan /\ tabs'[t].hash = tabs[t].hash
<1>1. tabs \in [Tabs -> Tab]
  BY DEF IInv, Typed
<1>2. tabs'[t] = [tabs[t] EXCEPT !.phase = phase] /\ tabs[t] \in Tab
  BY <1>1 DEF Goes
<1>3. tabs' = [tabs EXCEPT ![t] = tabs'[t]]
  BY <1>1, <1>2 DEF Goes
<1> QED
  BY <1>2, <1>3 DEF Tab

\* A tab that takes up an attempt.
LEMMA TakingUp ==
  ASSUME IInv, NEW t \in Tabs, UNCHANGED <<payments, linked, attempts, network, findings>>,
         NEW n \in 1 .. LatestNumber, NEW plan \in Plans \union {NoPlan},
         \/ Holds(t, "verifying", n, plan)
         \/ Holds(t, "disclosing", n, plan) /\ plan \in Plans
  PROVE  IInv'
<1>1. n \in 0 .. AttemptLimit /\ LatestNumber' = LatestNumber
  <2>1. LatestNumber' = LatestNumber
    BY DEF LatestNumber
  <2>2. LatestNumber \in Nat /\ LatestNumber <= AttemptLimit /\ AttemptLimit \in Nat
    BY FundingAssumption DEF IInv, Serial
  <2> QED
    BY <2>1, <2>2
<1>2. PICK phase \in {"verifying", "disclosing"} :
        Holds(t, phase, n, plan) /\ (phase = "disclosing" => plan \in Plans)
  OBVIOUS
<1>3. /\ tabs' = [tabs EXCEPT ![t] = tabs'[t]] /\ tabs'[t] \in Tab
      /\ tabs'[t].phase = phase /\ tabs'[t].attempt = n /\ tabs'[t].plan = plan
  <2>1. phase \in Phase
    BY DEF Phase
  <2> QED
    BY <1>1, <1>2, <2>1, HoldsIs
<1>4. Relies(tabs[t])'
  <2>1. tabs'[t].attempt \in 1 .. LatestNumber'
    BY <1>1, <1>3
  <2>2. tabs'[t].phase \notin {"opening", "submitted", "linking"}
    BY <1>2, <1>3
  <2>3. tabs'[t].phase = "disclosing" => tabs'[t].plan \in Plans
    BY <1>2, <1>3
  <2> QED
    BY <2>1, <2>2, <2>3 DEF Relies
<1>5. findings' \subseteq Hashes
  BY DEF IInv, Typed
<1> QED
  BY <1>3, <1>4, <1>5, TabKeeps

\* A tab that is where nothing is relied on.
LEMMA Resting ==
  ASSUME IInv, NEW t \in Tabs, UNCHANGED <<payments, linked, attempts, network, findings>>,
         \/ Reloads(t) \/ Goes(t, "ready") \/ Holds(t, "ready", 0, NoPlan)
  PROVE  IInv'
<1>1. findings' \subseteq Hashes
  BY DEF IInv, Typed
<1>2. /\ tabs' = [tabs EXCEPT ![t] = tabs'[t]] /\ tabs'[t] \in Tab
      /\ Relies(tabs[t])'
  <2>1. CASE Reloads(t)
    BY <2>1, ReloadsIs
  <2>2. CASE Goes(t, "ready") \/ Holds(t, "ready", 0, NoPlan)
    <3>1. "ready" \in Phase /\ 0 \in 0 .. AttemptLimit
      BY FundingAssumption DEF Phase
    <3>2. tabs' = [tabs EXCEPT ![t] = tabs'[t]] /\ tabs'[t] \in Tab /\ tabs'[t].phase = "ready"
      BY <2>2, <3>1, GoesIs, HoldsIs
    <3> QED
      BY <3>2 DEF Relies, Holding
  <2> QED
    BY <2>1, <2>2
<1> QED
  BY <1>1, <1>2, TabKeeps

------------------------------------------------------------------------------
\* The panel.

LEMMA LoadCases ==
  ASSUME NEW t, Load(t)
  PROVE  /\ UNCHANGED <<payments, linked, attempts, network, findings>>
         /\ \/ LatestIn({"SUBMITTED"}) /\ Holds(t, "verifying", LatestNumber, NoPlan)
            \/ /\ LatestIn({"AWAITING_SIGNATURE"}) /\ PlanReady(t)
               /\ Holds(t, "disclosing", LatestNumber, Plan(t))
            \/ Eligible(t) /\ Goes(t, "ready")
BY Zenon DEF Load

LEMMA LoadKeeps ==
  ASSUME IInv, NEW t \in Tabs, Load(t)
  PROVE  IInv'
<1>1. ASSUME attempts # {}
      PROVE  LatestNumber \in 1 .. LatestNumber
  BY <1>1, LatestIs
<1>2. CASE LatestIn({"SUBMITTED"}) /\ Holds(t, "verifying", LatestNumber, NoPlan)
  BY <1>1, <1>2, LoadCases, TakingUp DEF LatestIn
<1>3. CASE /\ LatestIn({"AWAITING_SIGNATURE"}) /\ PlanReady(t)
           /\ Holds(t, "disclosing", LatestNumber, Plan(t))
  BY <1>1, <1>3, LoadCases, PlanTyped, TakingUp DEF LatestIn
<1>4. CASE Goes(t, "ready")
  BY <1>4, LoadCases, Resting
<1> QED
  BY <1>2, <1>3, <1>4, LoadCases

LEMMA ReloadKeeps ==
  ASSUME IInv, NEW t \in Tabs, Reload(t)
  PROVE  IInv'
BY Resting DEF Reload

LEMMA SignFailsKeeps ==
  ASSUME IInv, NEW t \in Tabs, SignFails(t)
  PROVE  IInv'
<1>1. tabs[t].attempt \in 1 .. LatestNumber
  BY DEF IInv, Relying, Relies, SignFails, In, Holding, Phase
<1>2. CASE Holds(t, "ready", 0, NoPlan)
  BY <1>2, Resting DEF SignFails
<1>3. CASE Holds(t, "verifying", tabs[t].attempt, NoPlan)
  BY <1>1, <1>3, TakingUp DEF SignFails
<1> QED
  BY <1>2, <1>3 DEF SignFails

LEMMA SignKeeps ==
  ASSUME IInv, NEW t \in Tabs, NEW h \in Hashes, Sign(t, h)
  PROVE  IInv'
<1>1. /\ network \in [Hashes -> Transaction] /\ tabs \in [Tabs -> Tab]
      /\ tabs[t].plan \in Plans /\ tabs[t].attempt \in 1 .. LatestNumber
      /\ LatestNumber \in Nat
  BY DEF IInv, Typed, Serial, Relying, Relies, Sign, In, Holding, Phase
<1>2. network' \in [Hashes -> Transaction]
  BY <1>1 DEF Sign, Sent, Transaction
<1>3. /\ tabs' = [tabs EXCEPT ![t] = tabs'[t]]
      /\ tabs'[t] = [tabs[t] EXCEPT !.phase = "submitted", !.hash = h, !.plan = NoPlan]
  BY <1>1 DEF Sign
<1>4. tabs'[t] \in Tab /\ tabs'[t].phase = "submitted" /\ tabs'[t].hash = h
      /\ tabs'[t].attempt = tabs[t].attempt
  <2>1. tabs[t] \in Tab /\ "submitted" \in Phase
    BY <1>1 DEF Phase
  <2> QED
    BY <1>3, <2>1 DEF Tab
<1>5. LatestNumber' = LatestNumber
  BY DEF Sign, LatestNumber
<1>6. \A g \in Hashes : Succeeded(g) => network'[g] = network[g]
  BY <1>1 DEF Sign, Succeeded
<1>7. \A a \in attempts : Executed(a) => Executed(a)'
  BY <1>6 DEF Executed, Succeeded, AsPlanned
<1>8. Relies(tabs[t])'
  BY <1>1, <1>4, <1>5 DEF Relies
<1>9. NoneInFlight => NoneInFlight'
  BY DEF Sign, NoneInFlight
<1>10. tabs' \in [Tabs -> Tab] /\ Relying'
  <2>1. \A c \in attempts : Executed(c) =>
          \E d \in attempts' : d.attempt = c.attempt /\ d.hash = c.hash /\ Executed(d)'
    BY <1>7 DEF Sign
  <2> QED
    BY <1>1, <1>3, <1>4, <1>5, <1>8, <1>9, <2>1, OthersRely
<1>11. Typed'
  BY <1>2, <1>10 DEF Sign, IInv, Typed
<1>12. Serial' /\ LatestInFlight' /\ Unrecorded'
  BY <1>5 DEF Sign, IInv, Serial, LatestInFlight, Unrecorded
<1>13. Funded'
  BY <1>6 DEF Sign, IInv, Funded, Succeeded
<1>14. Adopted'
  BY <1>7 DEF Sign, IInv, Adopted, Backed
<1> QED
  BY <1>10, <1>11, <1>12, <1>13, <1>14 DEF IInv

------------------------------------------------------------------------------
\* Opening an attempt.

LEMMA TakesUpKeeps ==
  ASSUME IInv, NEW t \in Tabs, UNCHANGED <<payments, linked, attempts, network, findings>>,
         attempts # {}, NEW plan \in Plans, TakesUp(t, plan)
  PROVE  IInv'
<1>1. LatestNumber \in 1 .. LatestNumber
  BY LatestIs
<1> QED
  BY <1>1, TakingUp DEF TakesUp

LEMMA FindIntentCases ==
  ASSUME NEW t, FindIntent(t)
  PROVE  /\ In(t, "ready") /\ UNCHANGED <<payments, linked, attempts, network, findings>>
         /\ \/ LatestIn(IN_FLIGHT) /\ PlanReady(t) /\ TakesUp(t, Plan(t))
            \/ /\ Eligible(t) /\ LatestNumber < AttemptLimit
               /\ Holds(t, "opening", NextAttempt(LatestNumber), Plan(t))
            \/ Reloads(t)
BY Zenon DEF FindIntent

\* Where the latest attempt is not in flight, none is.
LEMMA NothingInFlight ==
  ASSUME IInv, ~LatestIn(IN_FLIGHT)
  PROVE  NoneInFlight
<1> SUFFICES ASSUME NEW a \in attempts, a.status \in IN_FLIGHT PROVE FALSE
  BY DEF NoneInFlight
<1>1. a.attempt = LatestNumber
  BY DEF IInv, LatestInFlight
<1>2. Latest = a
  BY <1>1, TheNumbered, LatestIs
<1> QED
  BY <1>2 DEF LatestIn

LEMMA FindIntentKeeps ==
  ASSUME IInv, NEW t \in Tabs, FindIntent(t)
  PROVE  IInv'
<1>1. UNCHANGED <<payments, linked, attempts, network, findings>> /\ findings' \subseteq Hashes
  BY FindIntentCases DEF IInv, Typed
<1>2. CASE LatestIn(IN_FLIGHT) /\ PlanReady(t) /\ TakesUp(t, Plan(t))
  BY <1>1, <1>2, PlanTyped, TakesUpKeeps DEF LatestIn
<1>3. CASE /\ Eligible(t) /\ LatestNumber < AttemptLimit
           /\ Holds(t, "opening", NextAttempt(LatestNumber), Plan(t))
  <2>1. Plan(t) \in Plans /\ NoneInFlight
    BY <1>3, PlanTyped, NothingInFlight DEF Eligible
  <2>2. LatestNumber \in Nat /\ AttemptLimit \in Nat
    BY FundingAssumption DEF IInv, Serial
  <2>3. NextAttempt(LatestNumber) = LatestNumber + 1 /\ LatestNumber + 1 \in 0 .. AttemptLimit
        /\ LatestNumber + 1 \in 1 .. LatestNumber + 1
    BY <1>3, <2>2 DEF NextAttempt
  <2>4. "opening" \in Phase
    BY DEF Phase
  <2>5. /\ tabs' = [tabs EXCEPT ![t] = tabs'[t]] /\ tabs'[t] \in Tab
        /\ tabs'[t].phase = "opening" /\ tabs'[t].attempt = LatestNumber + 1
        /\ tabs'[t].plan = Plan(t)
    BY <1>3, <2>1, <2>3, <2>4, HoldsIs
  <2>6. LatestNumber' = LatestNumber
    BY <1>1 DEF LatestNumber
  <2>7. NoneInFlight'
    BY <1>1, <2>1 DEF NoneInFlight
  <2>8. Relies(tabs[t])'
    BY <2>1, <2>3, <2>5, <2>6, <2>7 DEF Relies, Holding
  <2> QED
    BY <1>1, <2>5, <2>8, TabKeeps
<1>4. CASE Reloads(t)
  BY <1>1, <1>4, Resting
<1> QED
  BY <1>2, <1>3, <1>4, FindIntentCases

\* One more attempt is the latest of one more.
LEMMA OneMore ==
  ASSUME IInv, NEW b, b.attempt = LatestNumber + 1, attempts' = attempts \union {b}
  PROVE  LatestNumber' = LatestNumber + 1 /\ {a.attempt : a \in attempts'} = 1 .. LatestNumber + 1
<1>1. LatestNumber \in Nat /\ {a.attempt : a \in attempts} = 1 .. LatestNumber
  BY DEF IInv, Serial
<1>2. {a.attempt : a \in attempts'} = {a.attempt : a \in attempts} \union {LatestNumber + 1}
  OBVIOUS
<1>3. (1 .. LatestNumber) \union {LatestNumber + 1} = 1 .. LatestNumber + 1
  BY <1>1
<1>4. {a.attempt : a \in attempts'} = 1 .. LatestNumber + 1
  BY <1>1, <1>2, <1>3
<1>5. Cardinality(1 .. LatestNumber + 1) = LatestNumber + 1
  <2> DEFINE n == LatestNumber + 1
  <2>1. 1 \in Int /\ n \in Int /\ ~(1 > n) /\ n - 1 + 1 = n
    BY <1>1
  <2> HIDE DEF n
  <2>2. Cardinality(1 .. n) = n
    BY <2>1, FS_Interval
  <2> QED
    BY <2>2 DEF n
<1> QED
  BY <1>4, <1>5 DEF LatestNumber

LEMMA OpenIntentKeeps ==
  ASSUME IInv, NEW t \in Tabs, OpenIntent(t)
  PROVE  IInv'
<1> DEFINE n == tabs[t].attempt
           b == [attempt |-> n, status |-> "AWAITING_SIGNATURE", hash |-> NoHash,
                 plan |-> tabs[t].plan, linked |-> FALSE]
<1>1. /\ tabs \in [Tabs -> Tab] /\ n \in 0 .. AttemptLimit /\ n \in 1 .. LatestNumber + 1
      /\ tabs[t].plan \in Plans /\ (n = LatestNumber + 1 => NoneInFlight)
      /\ AttemptLimit \in Nat /\ LatestNumber \in Nat
  BY FundingAssumption DEF IInv, Typed, Serial, Relying, Relies, OpenIntent, In, Tab
<1>2. UNCHANGED <<linked, network, findings>>
  BY DEF OpenIntent
<1>3. CASE Taken(n)
  <2>1. TakesUp(t, tabs[t].plan) /\ UNCHANGED <<payments, linked, attempts, network, findings>>
    BY <1>3 DEF OpenIntent
  <2>2. attempts # {}
    BY <1>3 DEF Taken
  <2> QED
    BY <1>1, <2>1, <2>2, TakesUpKeeps
<1>4. CASE ~Taken(n)
  <2>1. /\ attempts' = attempts \union {b} /\ Goes(t, "disclosing")
        /\ payments' = [p \in Payments |-> IF payments[p] = "DRAFT" THEN "VALIDATING" ELSE payments[p]]
    BY <1>4 DEF OpenIntent
  <2>2. n = LatestNumber + 1 /\ NoneInFlight
    <3>1. n \notin 1 .. LatestNumber
      BY <1>4 DEF Taken, IInv, Serial
    <3>2. n = LatestNumber + 1
      BY <1>1, <3>1
    <3> QED
      BY <1>1, <3>2
  <2>3. /\ b \in Attempt /\ b.attempt = LatestNumber + 1 /\ b.hash = NoHash
        /\ b.status = "AWAITING_SIGNATURE"
    BY <1>1, <2>2 DEF Attempt, TxStatus, IN_FLIGHT
  <2> HIDE DEF b
  <2>4. LatestNumber' = LatestNumber + 1 /\ {a.attempt : a \in attempts'} = 1 .. LatestNumber'
    BY <2>1, <2>3, OneMore
  <2>5. LatestNumber' \in 0 .. AttemptLimit /\ LatestNumber' \in 1 .. LatestNumber'
        /\ LatestNumber <= LatestNumber' /\ LatestNumber' # LatestNumber
    BY <1>1, <2>2, <2>4
  <2>6. Serial'
    <3>1. \A a \in attempts : a.attempt # b.attempt
      BY <1>1, <1>4, <2>2, <2>3 DEF Taken
    <3>2. \A a, c \in attempts' : a.attempt = c.attempt => a = c
      BY <2>1, <3>1 DEF IInv, Serial
    <3> QED
      BY <2>4, <2>5, <3>2 DEF Serial
  <2>7. attempts' \subseteq Attempt /\ payments' \in [Payments -> PaymentState]
    <3>1. payments \in [Payments -> PaymentState] /\ "VALIDATING" \in PaymentState
      BY DEF IInv, Typed, PaymentState
    <3> QED
      BY <2>1, <2>3, <3>1 DEF IInv, Typed
  <2>8. /\ tabs' = [tabs EXCEPT ![t] = tabs'[t]] /\ tabs'[t] \in Tab
        /\ tabs'[t].phase = "disclosing" /\ tabs'[t].attempt = n /\ tabs'[t].plan = tabs[t].plan
    <3>1. "disclosing" \in Phase
      BY DEF Phase
    <3> QED
      BY <2>1, <3>1, GoesIs
  <2>9. \A a \in attempts : a \in attempts' /\ (Executed(a) => Executed(a)')
    BY <1>2, <2>1 DEF Executed, Succeeded, AsPlanned
  <2>10. tabs' \in [Tabs -> Tab] /\ Relying'
    <3>1. Relies(tabs[t])'
      BY <1>1, <2>2, <2>4, <2>5, <2>8 DEF Relies
    <3>2. LatestNumber' \in Nat
      BY <1>1, <2>4
    <3>3. \A c \in attempts : Executed(c) =>
            \E d \in attempts' : d.attempt = c.attempt /\ d.hash = c.hash /\ Executed(d)'
      BY <2>9
    <3> QED
      BY <2>5, <2>8, <3>1, <3>2, <3>3, OthersRely
  <2>11. Typed'
    BY <1>2, <2>7, <2>10 DEF IInv, Typed
  <2>12. LatestInFlight' /\ Unrecorded'
    BY <2>1, <2>2, <2>3, <2>4 DEF IInv, NoneInFlight, LatestInFlight, Unrecorded
  <2>13. Funded'
    BY <1>2, <2>1, <2>3 DEF IInv, Funded, Succeeded
  <2>14. Adopted'
    BY <1>2, <2>9 DEF IInv, Adopted, Backed
  <2> QED
    BY <2>6, <2>10, <2>11, <2>12, <2>13, <2>14 DEF IInv
<1> QED
  BY <1>3, <1>4

------------------------------------------------------------------------------
\* Recording, giving up and failing.

\* A request that updated its row, and a tab that moved.
LEMMA RowKeeps ==
  ASSUME IInv, NEW t \in Tabs, UNCHANGED <<linked, network, findings>>,
         payments' \in [Payments -> PaymentState],
         NEW a \in attempts, NEW b \in Attempt, Update(a, b),
         b.attempt = a.attempt, b.plan = a.plan,
         b.status \in IN_FLIGHT => a.status \in IN_FLIGHT,
         AwaitsHash(b) => b.hash = NoHash,
         b.status = "CONFIRMED" => b.hash \in Hashes /\ Succeeded(b.hash),
         a.hash # NoHash => b.hash = a.hash,
         a.linked => b.linked,
         tabs' = [tabs EXCEPT ![t] = tabs'[t]], tabs'[t] \in Tab, Relies(tabs[t])'
  PROVE  IInv'
<1>1. /\ attempts' \subseteq Attempt /\ Serial' /\ LatestNumber' = LatestNumber
      /\ LatestInFlight' /\ Unrecorded' /\ Funded' /\ (NoneInFlight => NoneInFlight')
      /\ \A c \in attempts : Executed(c) =>
           \E d \in attempts' : /\ d.attempt = c.attempt /\ d.hash = c.hash /\ Executed(d)'
                                /\ c.linked => d.linked
  BY UpdateKeeps
<1>2. LatestNumber \in Nat
  BY DEF IInv, Serial
<1>3. tabs' \in [Tabs -> Tab] /\ Relying'
  BY <1>1, <1>2, OthersRely
<1>4. Typed'
  BY <1>1, <1>3 DEF IInv, Typed
<1>5. Adopted'
  BY <1>1 DEF IInv, Adopted, Backed
<1> QED
  BY <1>1, <1>3, <1>4, <1>5 DEF IInv

\* Polling ends where nothing but the attempt is relied on.
LEMMA AfterPollingIs ==
  ASSUME IInv, NEW t \in Tabs, In(t, "submitted"), AfterPolling(t), LatestNumber' = LatestNumber
  PROVE  tabs' = [tabs EXCEPT ![t] = tabs'[t]] /\ tabs'[t] \in Tab /\ Relies(tabs[t])'
<1>1. /\ tabs \in [Tabs -> Tab] /\ tabs[t] \in Tab /\ tabs[t].attempt \in 1 .. LatestNumber
      /\ tabs[t].attempt \in 0 .. AttemptLimit
      /\ 0 \in 0 .. AttemptLimit /\ {"verifying", "ready"} \subseteq Phase
  BY FundingAssumption DEF IInv, Typed, Relying, Relies, In, Holding, Phase, Tab
<1>2. CASE Holds(t, "verifying", tabs[t].attempt, NoPlan)
  <2>1. /\ tabs' = [tabs EXCEPT ![t] = tabs'[t]] /\ tabs'[t] \in Tab
        /\ tabs'[t].phase = "verifying" /\ tabs'[t].attempt = tabs[t].attempt
    BY <1>1, <1>2, HoldsIs
  <2> QED
    BY <1>1, <2>1 DEF Relies
<1>3. CASE tabs' = [tabs EXCEPT ![t].phase = "ready", ![t].attempt = 0]
  <2>1. /\ tabs'[t] = [tabs[t] EXCEPT !.phase = "ready", !.attempt = 0]
        /\ tabs' = [tabs EXCEPT ![t] = tabs'[t]]
    BY <1>1, <1>3
  <2>2. tabs'[t] \in Tab /\ tabs'[t].phase = "ready"
    BY <1>1, <2>1 DEF Tab
  <2> QED
    BY <2>1, <2>2 DEF Relies, Holding
<1> QED
  BY <1>2, <1>3 DEF AfterPolling

LEMMA RecordSubmittedKeeps ==
  ASSUME IInv, NEW t \in Tabs, RecordSubmitted(t)
  PROVE  IInv'
<1> DEFINE n == tabs[t].attempt
           a == Numbered(n)
           b == [a EXCEPT !.status = "SUBMITTED", !.hash = tabs[t].hash]
<1>1. /\ n \in 1 .. LatestNumber /\ tabs[t].hash \in Hashes /\ In(t, "submitted")
      /\ AfterPolling(t) /\ UNCHANGED <<payments, linked, network, findings>>
      /\ payments \in [Payments -> PaymentState] /\ findings \subseteq Hashes
  BY DEF IInv, Typed, Relying, Relies, RecordSubmitted, In, Holding, Phase
<1>2. a \in attempts /\ a \in Attempt
  BY <1>1, NumberedIs
<1>3. CASE AwaitsHash(a) /\ Update(a, b)
  <2>1. /\ b \in Attempt /\ b.attempt = a.attempt /\ b.plan = a.plan /\ b.status = "SUBMITTED"
        /\ b.linked = a.linked
    BY <1>1, <1>2 DEF Attempt, TxStatus, IN_FLIGHT
  <2>2. a.hash = NoHash /\ a.status \in IN_FLIGHT
    BY <1>2, <1>3 DEF IInv, Unrecorded, AwaitsHash, IN_FLIGHT
  <2> HIDE DEF a, b
  <2>3. LatestNumber' = LatestNumber
    BY <1>1, <1>2, <1>3, <2>1, <2>2, UpdateKeeps DEF AwaitsHash
  <2>4. tabs' = [tabs EXCEPT ![t] = tabs'[t]] /\ tabs'[t] \in Tab /\ Relies(tabs[t])'
    BY <1>1, <2>3, AfterPollingIs
  <2>5. UNCHANGED <<linked, network, findings>> /\ payments' \in [Payments -> PaymentState]
    BY <1>1
  <2> QED
    BY <1>2, <1>3, <2>1, <2>2, <2>4, <2>5, RowKeeps DEF AwaitsHash
<1>4. CASE UNCHANGED attempts
  <2>1. LatestNumber' = LatestNumber
    BY <1>4 DEF LatestNumber
  <2> QED
    BY <1>1, <1>4, <2>1, AfterPollingIs, TabKeeps
<1> QED
  BY <1>3, <1>4 DEF RecordSubmitted

\* A tab goes on with the attempt it has.
LEMMA GoingOn ==
  ASSUME IInv, NEW t \in Tabs, UNCHANGED <<payments, linked, attempts, network, findings>>,
         tabs[t].phase \in Holding,
         tabs'[t] \in Tab, tabs' = [tabs EXCEPT ![t] = tabs'[t]],
         tabs'[t].attempt = tabs[t].attempt, tabs'[t].phase \in {"abandoning", "failing"}
  PROVE  IInv'
<1>1. tabs[t].attempt \in 1 .. LatestNumber /\ findings' \subseteq Hashes
  BY DEF IInv, Typed, Relying, Relies
<1>2. LatestNumber' = LatestNumber
  BY DEF LatestNumber
<1>3. Relies(tabs[t])'
  BY <1>1, <1>2 DEF Relies
<1> QED
  BY <1>1, <1>3, TabKeeps

LEMMA FindAbandonedKeeps ==
  ASSUME IInv, NEW t \in Tabs, FindAbandoned(t)
  PROVE  IInv'
<1> DEFINE a == Numbered(tabs[t].attempt)
<1>1. /\ In(t, "disclosing") /\ tabs[t].phase \in Holding
      /\ tabs[t].attempt \in 1 .. LatestNumber
      /\ UNCHANGED <<payments, linked, attempts, network, findings>>
      /\ tabs \in [Tabs -> Tab] /\ tabs[t] \in Tab
  BY DEF IInv, Typed, Relying, Relies, FindAbandoned, GivesUp, In, Holding, Phase
<1>2. a \in Attempt
  BY <1>1, NumberedIs
<1>3. CASE Reloads(t)
  BY <1>1, <1>3, Resting
<1>4. CASE tabs' = [tabs EXCEPT ![t].phase = "abandoning", ![t].read = a.hash, ![t].plan = NoPlan]
  <2>1. a.hash \in Hashes \union {NoHash} /\ "abandoning" \in Phase
    BY <1>2 DEF Attempt, Phase
  <2> HIDE DEF a
  <2>2. /\ tabs'[t] = [tabs[t] EXCEPT !.phase = "abandoning", !.read = a.hash, !.plan = NoPlan]
        /\ tabs' = [tabs EXCEPT ![t] = tabs'[t]]
    BY <1>1, <1>4
  <2>3. tabs'[t] \in Tab /\ tabs'[t].phase = "abandoning" /\ tabs'[t].attempt = tabs[t].attempt
    BY <1>1, <2>1, <2>2 DEF Tab
  <2> QED
    BY <1>1, <2>2, <2>3, GoingOn
<1> QED
  BY <1>3, <1>4 DEF FindAbandoned

LEMMA BackToDraftTyped ==
  ASSUME IInv, BackToDraft
  PROVE  payments' \in [Payments -> PaymentState]
<1>1. payments \in [Payments -> PaymentState] /\ "DRAFT" \in PaymentState
  BY DEF IInv, Typed, PaymentState
<1> QED
  BY <1>1 DEF BackToDraft

\* An attempt that ends without success.
LEMMA EndingKeeps ==
  ASSUME IInv, NEW t \in Tabs, tabs[t].phase \in Holding,
         NEW status \in {"CANCELLED", "FAILED"},
         Update(Numbered(tabs[t].attempt), [Numbered(tabs[t].attempt) EXCEPT !.status = status]),
         payments' \in [Payments -> PaymentState],
         Reloads(t), UNCHANGED <<linked, network, findings>>
  PROVE  IInv'
<1> DEFINE a == Numbered(tabs[t].attempt)
           b == [a EXCEPT !.status = status]
<1>1. a \in attempts /\ a \in Attempt
  BY NumberedIs DEF IInv, Relying, Relies
<1>2. /\ b \in Attempt /\ b.attempt = a.attempt /\ b.plan = a.plan /\ b.hash = a.hash
      /\ b.status = status /\ b.linked = a.linked
  BY <1>1 DEF Attempt, TxStatus, IN_FLIGHT
<1>3. b.status \notin IN_FLIGHT /\ ~AwaitsHash(b) /\ b.status # "CONFIRMED"
  BY <1>2 DEF IN_FLIGHT, AwaitsHash
<1>4. tabs' = [tabs EXCEPT ![t] = tabs'[t]] /\ tabs'[t] \in Tab /\ Relies(tabs[t])'
  BY ReloadsIs
<1>5. Update(a, b)
  OBVIOUS
<1> HIDE DEF a, b
<1> QED
  BY <1>1, <1>2, <1>3, <1>4, <1>5, RowKeeps

LEMMA AbandonKeeps ==
  ASSUME IInv, NEW t \in Tabs, Abandon(t)
  PROVE  IInv'
<1>1. tabs[t].phase \in Holding /\ Reloads(t) /\ UNCHANGED <<linked, network, findings>>
  BY DEF Abandon, In, Holding, Phase
<1>2. payments' \in [Payments -> PaymentState]
  BY BackToDraftTyped DEF Abandon, IInv, Typed
<1>3. PICK status \in {"CANCELLED", "FAILED"} :
        Update(Numbered(tabs[t].attempt), [Numbered(tabs[t].attempt) EXCEPT !.status = status])
  BY Zenon DEF Abandon
<1> QED
  BY <1>1, <1>2, <1>3, EndingKeeps

LEMMA MarkFailedKeeps ==
  ASSUME IInv, NEW t \in Tabs, MarkFailed(t)
  PROVE  IInv'
<1>1. tabs[t].phase \in Holding /\ Reloads(t) /\ UNCHANGED <<linked, network, findings>>
  BY DEF MarkFailed, In, Holding, Phase
<1>2. payments' \in [Payments -> PaymentState]
  BY BackToDraftTyped DEF MarkFailed
<1>3. Update(Numbered(tabs[t].attempt), [Numbered(tabs[t].attempt) EXCEPT !.status = "FAILED"])
  BY Zenon DEF MarkFailed
<1> QED
  BY <1>1, <1>2, <1>3, EndingKeeps

------------------------------------------------------------------------------
\* Verification.

LEMMA VerifyKeeps ==
  ASSUME IInv, NEW t \in Tabs, Verify(t)
  PROVE  IInv'
<1>0. PICK a : a = Numbered(tabs[t].attempt)
  OBVIOUS
<1>1. /\ In(t, "verifying") /\ tabs[t].phase \in Holding
      /\ tabs[t].attempt \in 1 .. LatestNumber
      /\ UNCHANGED <<payments, linked, attempts, network>>
      /\ tabs \in [Tabs -> Tab] /\ tabs[t] \in Tab /\ findings \subseteq Hashes
      /\ a.hash # NoHash
  BY <1>0 DEF IInv, Typed, Relying, Relies, Verify, Asks, In, Holding, Phase
<1>2. a \in attempts /\ a.attempt = tabs[t].attempt /\ a.hash \in Hashes
  BY <1>0, <1>1, NumberedIs DEF Attempt
<1>3. CASE Reloads(t) /\ UNCHANGED findings
  BY <1>1, <1>3, Resting
<1>4. CASE Goes(t, "failing") /\ UNCHANGED findings
  <2>1. "failing" \in Phase
    BY DEF Phase
  <2>2. /\ tabs' = [tabs EXCEPT ![t] = tabs'[t]] /\ tabs'[t] \in Tab
        /\ tabs'[t].phase = "failing" /\ tabs'[t].attempt = tabs[t].attempt
    BY <1>4, <2>1, GoesIs
  <2> QED
    BY <1>1, <1>4, <2>2, GoingOn
<1>5. ASSUME NEW h \in EscrowsOf(a.hash), AsPlanned(a), UNCHANGED findings,
             tabs' = [tabs EXCEPT ![t].phase = "linking", ![t].read = h]
      PROVE  IInv'
  <2>1. h = a.hash /\ Succeeded(a.hash)
    BY <1>5 DEF EscrowsOf, CreatedBy
  <2>2. Executed(a) /\ h \in Hashes /\ "linking" \in Phase
    BY <1>2, <1>5, <2>1 DEF Executed, Phase
  <2>3. /\ tabs'[t] = [tabs[t] EXCEPT !.phase = "linking", !.read = h]
        /\ tabs' = [tabs EXCEPT ![t] = tabs'[t]]
    BY <1>1, <1>5
  <2>4. /\ tabs'[t] \in Tab /\ tabs'[t].phase = "linking"
        /\ tabs'[t].attempt = tabs[t].attempt /\ tabs'[t].read = h
    BY <1>1, <2>2, <2>3 DEF Tab
  <2>5. LatestNumber' = LatestNumber
    BY <1>1 DEF LatestNumber
  <2>6. Executed(a)'
    BY <1>1, <2>2 DEF Executed, Succeeded, AsPlanned
  <2>7. \E c \in attempts' : c.attempt = tabs'[t].attempt /\ c.hash = tabs'[t].read /\ Executed(c)'
    BY <1>1, <1>2, <2>1, <2>4, <2>6
  <2>8. Relies(tabs[t])'
    BY <1>1, <2>4, <2>5, <2>7 DEF Relies
  <2> QED
    BY <1>1, <1>5, <2>3, <2>4, <2>8, TabKeeps
<1>6. ASSUME NEW h \in EscrowsOf(a.hash), ReportMismatch(t, h)
      PROVE  IInv'
  <2>1. findings' \subseteq Hashes
    BY <1>1, <1>2, <1>6 DEF EscrowsOf, CreatedBy, ReportMismatch
  <2>2. tabs' = [tabs EXCEPT ![t] = tabs'[t]] /\ tabs'[t] \in Tab /\ Relies(tabs[t])'
    BY <1>6, ReloadsIs DEF ReportMismatch
  <2> QED
    BY <1>1, <2>1, <2>2, TabKeeps
<1> QED
  BY <1>0, <1>3, <1>4, <1>5, <1>6 DEF Verify

LEMMA LinkKeeps ==
  ASSUME IInv, NEW t \in Tabs, Link(t)
  PROVE  IInv'
<1> DEFINE n == tabs[t].attempt
<1>0. PICK h : h = tabs[t].read
  OBVIOUS
<1>1. PICK a \in attempts : a.attempt = n /\ a.hash = h /\ Executed(a)
  BY <1>0 DEF IInv, Relying, Relies, Link, In
<1>2. Numbered(n) = a /\ a \in Attempt
  BY <1>1, TheNumbered DEF IInv, Typed
<1> DEFINE b == [a EXCEPT !.status = "CONFIRMED", !.linked = TRUE]
<1>3. /\ linked' = [p \in Payments |-> h] /\ Update(a, b) /\ Reloads(t)
      /\ UNCHANGED <<payments, network, findings>>
  BY <1>0, <1>2, Zenon DEF Link
<1>4. /\ b \in Attempt /\ b.attempt = n /\ b.plan = a.plan /\ b.hash = h
      /\ b.status = "CONFIRMED" /\ b.linked
  BY <1>1, <1>2 DEF Attempt, TxStatus
<1> HIDE DEF b
<1>5. b.status \notin IN_FLIGHT /\ ~AwaitsHash(b) /\ h \in Hashes /\ Succeeded(h)
  BY <1>1, <1>4 DEF IN_FLIGHT, AwaitsHash, Executed
<1>6. /\ attempts' \subseteq Attempt /\ Serial' /\ LatestNumber' = LatestNumber
      /\ LatestInFlight' /\ Unrecorded' /\ Funded' /\ (NoneInFlight => NoneInFlight')
      /\ \A c \in attempts : Executed(c) =>
           \E d \in attempts' : /\ d.attempt = c.attempt /\ d.hash = c.hash /\ Executed(d)'
                                /\ c.linked => d.linked
  BY <1>1, <1>3, <1>4, <1>5, UpdateKeeps
<1>7. tabs' \in [Tabs -> Tab] /\ Relying'
  <2>1. tabs' = [tabs EXCEPT ![t] = tabs'[t]] /\ tabs'[t] \in Tab /\ Relies(tabs[t])'
    BY <1>3, ReloadsIs
  <2>2. LatestNumber \in Nat
    BY DEF IInv, Serial
  <2> QED
    BY <1>6, <2>1, <2>2, OthersRely
<1>8. Typed'
  BY <1>3, <1>5, <1>6, <1>7 DEF IInv, Typed
<1>9. Adopted'
  <2>1. b \in attempts' /\ Executed(b)'
    BY <1>1, <1>3, <1>4 DEF Update, Executed, Succeeded, AsPlanned
  <2>2. Backed(h)'
    BY <1>4, <2>1 DEF Backed
  <2> QED
    BY <1>3, <2>2 DEF Adopted, Backed
<1> QED
  BY <1>6, <1>7, <1>8, <1>9 DEF IInv

------------------------------------------------------------------------------
\* The network, the reconciliation and the owner.

LEMMA SettleKeeps ==
  ASSUME IInv, NEW h \in Hashes, Settle(h)
  PROVE  IInv'
<1>1. /\ UNCHANGED <<payments, linked, attempts, tabs, findings>>
      /\ network \in [Hashes -> Transaction] /\ network[h].status = "pending"
      /\ tabs \in [Tabs -> Tab] /\ LatestNumber \in Nat
  BY DEF IInv, Typed, Serial, Settle
<1>2. PICK outcome \in {"success", "failed"} : network' = [network EXCEPT ![h].status = outcome]
  BY DEF Settle
<1>3. network' \in [Hashes -> Transaction]
  <2>1. network[h] \in [status : {"pending", "success", "failed"}, plan : Plans]
    BY <1>1 DEF Transaction
  <2>2. [network[h] EXCEPT !.status = outcome] \in Transaction
    BY <2>1 DEF Transaction
  <2> QED
    BY <1>1, <1>2, <2>2
<1>4. \A g \in Hashes : Succeeded(g) => network'[g] = network[g]
  BY <1>1, <1>2 DEF Succeeded
<1>5. \A a \in attempts : Executed(a) => Executed(a)'
  BY <1>4 DEF Executed, Succeeded, AsPlanned
<1>6. LatestNumber' = LatestNumber
  BY <1>1 DEF LatestNumber
<1>7. Relying'
  <2>1. NoneInFlight => NoneInFlight'
    BY <1>1 DEF NoneInFlight
  <2>2. LatestNumber' \in Nat /\ LatestNumber <= LatestNumber'
    BY <1>1, <1>6
  <2>3. \A c \in attempts : Executed(c) =>
          \E d \in attempts' : d.attempt = c.attempt /\ d.hash = c.hash /\ Executed(d)'
    BY <1>1, <1>5
  <2>4. ASSUME NEW u \in Tabs PROVE Relies(tabs[u])'
    BY <1>1, <2>1, <2>2, <2>3, StillRelies
  <2> QED
    BY <2>4 DEF Relying
<1>8. Typed' /\ Serial' /\ LatestInFlight' /\ Unrecorded'
  BY <1>1, <1>3, <1>6 DEF IInv, Typed, Serial, LatestInFlight, Unrecorded
<1>9. Funded'
  BY <1>1, <1>4 DEF IInv, Funded, Succeeded
<1>10. Adopted'
  BY <1>1, <1>5 DEF IInv, Adopted, Backed
<1> QED
  BY <1>7, <1>8, <1>9, <1>10 DEF IInv

LEMMA ConfirmFailedKeeps ==
  ASSUME IInv, ConfirmFailed
  PROVE  IInv'
<1>1. PICK a \in attempts : FalselyFailed(a) /\ Update(a, [a EXCEPT !.status = "CONFIRMED"])
  BY DEF ConfirmFailed
<1> DEFINE b == [a EXCEPT !.status = "CONFIRMED"]
<1>2. UNCHANGED <<payments, linked, network, tabs, findings>> /\ LatestNumber \in Nat
  BY DEF ConfirmFailed, IInv, Serial
<1>3. /\ a \in Attempt /\ a.hash \in Hashes /\ Succeeded(a.hash)
  BY <1>1 DEF IInv, Typed, Attempt, FalselyFailed
<1>4. /\ b \in Attempt /\ b.attempt = a.attempt /\ b.plan = a.plan /\ b.hash = a.hash
      /\ b.status = "CONFIRMED" /\ b.linked = a.linked /\ Update(a, b)
  BY <1>1, <1>3 DEF Attempt, TxStatus
<1> HIDE DEF b
<1>5. b.status \notin IN_FLIGHT /\ ~AwaitsHash(b)
  BY <1>4 DEF IN_FLIGHT, AwaitsHash
<1>6. /\ attempts' \subseteq Attempt /\ Serial' /\ LatestNumber' = LatestNumber
      /\ LatestInFlight' /\ Unrecorded' /\ Funded' /\ (NoneInFlight => NoneInFlight')
      /\ \A c \in attempts : Executed(c) =>
           \E d \in attempts' : /\ d.attempt = c.attempt /\ d.hash = c.hash /\ Executed(d)'
                                /\ c.linked => d.linked
  BY <1>2, <1>3, <1>4, <1>5, UpdateKeeps
<1>7. Relying'
  <2>1. LatestNumber' \in Nat /\ LatestNumber <= LatestNumber'
    BY <1>2, <1>6
  <2>2. ASSUME NEW u \in Tabs PROVE Relies(tabs[u])'
    BY <1>2, <1>6, <2>1, StillRelies
  <2> QED
    BY <2>2 DEF Relying
<1>8. Typed'
  BY <1>2, <1>6 DEF IInv, Typed
<1>9. Adopted'
  BY <1>2, <1>6 DEF IInv, Adopted, Backed
<1> QED
  BY <1>6, <1>7, <1>8, <1>9 DEF IInv

\* The payments are apart from all that.
LEMMA PaymentsMove ==
  ASSUME IInv, UNCHANGED <<linked, attempts, network, tabs, findings>>,
         payments' \in [Payments -> PaymentState]
  PROVE  IInv'
<1>1. LatestNumber' = LatestNumber
  BY DEF LatestNumber
<1>2. \A a : Executed(a)' = Executed(a)
  BY DEF Executed, Succeeded, AsPlanned
<1>3. NoneInFlight' = NoneInFlight
  BY DEF NoneInFlight
<1>4. Relying'
  BY <1>1, <1>2, <1>3 DEF IInv, Relying, Relies
<1>5. Typed' /\ Serial' /\ LatestInFlight' /\ Unrecorded' /\ Funded'
  BY <1>1 DEF IInv, Typed, Serial, LatestInFlight, Unrecorded, Funded, Succeeded
<1>6. Adopted'
  BY <1>2 DEF IInv, Adopted, Backed
<1> QED
  BY <1>4, <1>5, <1>6 DEF IInv

LEMMA PaymentStepKeeps ==
  ASSUME IInv, NEW p \in Payments, Withdraw(p) \/ Observe(p)
  PROVE  IInv'
<1>1. payments \in [Payments -> PaymentState]
  BY DEF IInv, Typed
<1>2. {"CANCELLED", "REJECTED", "AWAITING_ORACLE"} \subseteq PaymentState
  BY DEF PaymentState
<1>3. payments' \in [Payments -> PaymentState]
  BY <1>1, <1>2 DEF Withdraw, Observe
<1> QED
  BY <1>3, PaymentsMove DEF Withdraw, Observe

------------------------------------------------------------------------------
\* The invariant, and the theorems.

LEMMA Initial == FundingInit => IInv
<1> SUFFICES ASSUME FundingInit PROVE IInv
  OBVIOUS
<1>1. NewTab \in Tab /\ NewTab.phase = "load"
  BY FundingAssumption DEF NewTab, Tab, Phase, NoPlan
<1>2. Typed
  BY <1>1 DEF FundingInit, Typed, PaymentState, Transaction
<1>3. LatestNumber = 0
  <2>1. {a.attempt : a \in attempts} = {}
    BY DEF FundingInit
  <2> QED
    BY <2>1, FS_EmptySet DEF LatestNumber
<1>4. Serial
  BY <1>3, FundingAssumption DEF FundingInit, Serial
<1>5. Relying
  BY <1>1 DEF FundingInit, Relying, Relies, Holding
<1>6. LatestInFlight /\ Unrecorded /\ Funded
  BY DEF FundingInit, LatestInFlight, Unrecorded, Funded
<1>7. Adopted
  BY DEF FundingInit, Adopted
<1> QED
  BY <1>2, <1>4, <1>5, <1>6, <1>7 DEF IInv

LEMMA Inductive == IInv /\ [FundingNext]_fundingVars => IInv'
<1> SUFFICES ASSUME IInv, [FundingNext]_fundingVars PROVE IInv'
  OBVIOUS
<1>1. CASE UNCHANGED fundingVars
  BY <1>1, PaymentsMove DEF fundingVars, IInv, Typed
<1>2. ASSUME NEW t \in Tabs, Load(t) \/ Reload(t) \/ SignFails(t) \/ (\E h \in Hashes : Sign(t, h))
      PROVE  IInv'
  BY <1>2, LoadKeeps, ReloadKeeps, SignFailsKeeps, SignKeeps
<1>3. ASSUME NEW t \in Tabs, FindIntent(t) \/ OpenIntent(t) \/ RecordSubmitted(t)
      PROVE  IInv'
  BY <1>3, FindIntentKeeps, OpenIntentKeeps, RecordSubmittedKeeps
<1>4. ASSUME NEW t \in Tabs, FindAbandoned(t) \/ Abandon(t) \/ MarkFailed(t)
      PROVE  IInv'
  BY <1>4, FindAbandonedKeeps, AbandonKeeps, MarkFailedKeeps
<1>5. ASSUME NEW t \in Tabs, Verify(t) \/ Link(t)
      PROVE  IInv'
  BY <1>5, VerifyKeeps, LinkKeeps
<1>6. ASSUME NEW h \in Hashes, Settle(h)
      PROVE  IInv'
  BY <1>6, SettleKeeps
<1>7. CASE ConfirmFailed
  BY <1>7, ConfirmFailedKeeps
<1>8. ASSUME NEW p \in Payments, Withdraw(p) \/ Observe(p)
      PROVE  IInv'
  BY <1>8, PaymentStepKeeps
<1> QED
  BY <1>1, <1>2, <1>3, <1>4, <1>5, <1>6, <1>7, <1>8 DEF FundingNext

LEMMA Always == FundingSpec => []IInv
BY Initial, Inductive, PTL DEF FundingSpec

\* There are as many attempts as the latest one's number says.
LEMMA AsManyAsNumbered ==
  ASSUME IInv
  PROVE  Cardinality(attempts) = LatestNumber
<1> DEFINE row == [n \in 1 .. LatestNumber |-> Numbered(n)]
<1>1. LatestNumber \in Nat
  BY DEF IInv, Serial
<1>2. \A n \in 1 .. LatestNumber : row[n] \in attempts /\ row[n].attempt = n
  BY NumberedIs
<1>3. \A a \in attempts : a.attempt \in 1 .. LatestNumber /\ row[a.attempt] = a
  BY TheNumbered
<1>4. row \in [1 .. LatestNumber -> attempts]
  BY <1>2
<1> HIDE DEF row
<1>5. row \in Bijection(1 .. LatestNumber, attempts)
  BY <1>2, <1>3, <1>4 DEF Bijection, Injection, IsInjective, Surjection
<1> QED
  BY <1>1, <1>5, FS_CountingElements DEF ExistsBijection

\* Whatever requests of whatever tabs interleave, the attempts are numbered one
\* after another and every tab holds a number there is or the next one.
THEOREM FundingTyped == FundingSpec => []FundingTypeOK
<1>1. IInv => FundingTypeOK
  <2> SUFFICES ASSUME IInv PROVE FundingTypeOK
    OBVIOUS
  <2>1. {a.attempt : a \in attempts} = 1 .. Cardinality(attempts)
    BY AsManyAsNumbered DEF IInv, Serial
  <2>2. \A t \in Tabs : tabs[t] \in Tab
    BY DEF IInv, Typed
  <2>3. \A t \in Tabs : /\ tabs[t].attempt \in 0 .. AttemptLimit
                        /\ {tabs[t].hash, tabs[t].read} \subseteq Hashes \union {NoHash}
                        /\ tabs[t].plan \in Plans \union {NoPlan}
    BY <2>2 DEF Tab
  <2> QED
    BY <2>1, <2>3 DEF FundingTypeOK, IInv, Typed
<1> QED
  BY Always, <1>1, PTL

\* However many tabs ask at once, retry or are opened again, at most one funding
\* attempt is in flight, and it is the latest: the unique key and the check
\* before it suffice (openFundingIntent).
THEOREM OneInFlight == FundingSpec => []OneAttemptInFlight
<1>1. IInv => OneAttemptInFlight
  BY AsManyAsNumbered DEF IInv, LatestInFlight, OneAttemptInFlight
<1> QED
  BY Always, <1>1, PTL

\* An attempt is CONFIRMED only with a hash whose transaction the network has
\* executed, whether verification or the reconciliation confirmed it.
THEOREM ConfirmedFunded == FundingSpec => []ConfirmedIsFunded
<1>1. IInv => ConfirmedIsFunded
  BY NoHashIsNone DEF IInv, Funded, ConfirmedIsFunded
<1> QED
  BY Always, <1>1, PTL

\* Every payment of the batch is linked to the same escrow, and only to one that
\* a recorded transaction created as its attempt planned it (confirmFunding).
THEOREM AdoptedPlanned == FundingSpec => []AdoptedIsPlanned
<1>1. IInv => AdoptedIsPlanned
  <2> SUFFICES ASSUME IInv, NEW p \in Payments, NEW q \in Payments
               PROVE  /\ linked[p] = linked[q]
                      /\ linked[p] # NoHash =>
                           \E a \in attempts : /\ a.hash = linked[p] /\ a.linked
                                               /\ Succeeded(a.hash) /\ network[a.hash].plan = a.plan
    BY DEF AdoptedIsPlanned
  <2> QED
    BY DEF IInv, Adopted, Backed, Executed, AsPlanned
<1> QED
  BY Always, <1>1, PTL
==============================================================================
