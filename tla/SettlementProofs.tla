---------------------------- MODULE SettlementProofs ----------------------------
(***************************************************************************)
(* Theorems about a payment from funding to settlement, for any number of  *)
(* rows, passes, events, failures and any roles of the users; and three    *)
(* more for where passes do not overlap and begin after the claim: proofs  *)
(* shown are current, refunds show, and the projection follows the log.    *)
(***************************************************************************)
EXTENDS Settlement, TLAPS, FiniteSetTheorems, SequenceTheorems, NaturalLemmas

------------------------------------------------------------------------------
\* The inductive invariant.

View == {"unread", "open", "settled", "cancelled"}
Audit ==
  {NoAudit} \union
  [left : SUBSET Rows, rows : [Rows -> RowState], chain : View,
   at : Rows \union {NoRow}, was : RowState]

Typed ==
  /\ log \in Seq(Event) /\ Len(log) <= MaxEvents
  /\ ledger \in Nat /\ room \in 0 .. TxPerLedger
  /\ claimed \in BOOLEAN
  /\ flags \subseteq Flag
  /\ payments \in [Rows -> RowState]
  /\ findings \subseteq FindingKind \X (Rows \union {NoRow})
  /\ marks \in [1 .. MaxEvents -> {"unseen", "unattributed", "applied"}]
  /\ cursor \in Nat
  /\ passes \in [Workers -> Pass]
  /\ request = NoRequest \/ request \in Requests
  /\ audit \in Audit

\* What the contract's guards make of its log.
LogSound ==
  /\ Logged("finalized") => ~Logged("cancelled")
  /\ \A r \in Rows : /\ Settled(r) <=> Logged("finalized")
                     /\ Refunded(r) => Logged("cancelled")

\* What a pass has to do is in closed ledgers of the log, and so is what the
\* cursor has passed.
Serves(pass) ==
  /\ \A k \in DOMAIN pass.todo :
       /\ pass.todo[k] \in DOMAIN log
       /\ pass.stage = "page" => log[pass.todo[k]].ledger < ledger
  /\ pass.committed < ledger
Served == cursor < ledger /\ \A w \in Workers : Serves(passes[w])

\* A payment that was PAID when its event was read is PAID.
Sees(pass) ==
  pass.todo # <<>> /\ pass.seen = "PAID" =>
    log[Head(pass.todo)].row \in Rows /\ payments[log[Head(pass.todo)].row] = "PAID"
Seen == \A w \in Workers : Sees(passes[w])

\* What a payment's state says of the log.
HasProof ==
  {"ORACLE_VERIFIED", "AWAITING_MANAGER", "AWAITING_FINANCE", "READY_TO_SETTLE", "SUBMITTING"}
ManagerDone == {"AWAITING_FINANCE", "READY_TO_SETTLE", "SUBMITTING"}
BothDone == {"READY_TO_SETTLE", "SUBMITTING"}
Says(state, r) ==
  /\ state # "SUBMISSION_FAILED"
  /\ state \in HasProof => LoggedFor("hours", r)
  /\ state \in ManagerDone => Logged("manager_approved")
  /\ state \in BothDone => Logged("finance_approved")
  /\ state = "PAID" => Settled(r)
Telling == \A r \in Rows : Says(payments[r], r)

Asking == request = NoRequest \/ request.to \in Wanted

\* A reconciliation reads its rows before the contract.
Auditing ==
  audit # NoAudit =>
    /\ \A r \in Rows : audit.rows[r] = "PAID" => Settled(r) /\ audit.chain \in {"unread", "settled"}
    /\ audit.chain = "settled" => Logged("finalized")

\* A settlement that was applied left its mark.
Shows(i) ==
  \/ payments[log[i].row] = "PAID"
  \/ \E kind \in {"CHAIN_PAID_DB_NOT", "ORPHAN_ON_CHAIN"} : <<kind, log[i].row>> \in findings
Shown ==
  /\ \A i \in DOMAIN log :
       log[i].kind = "payment_paid" /\ log[i].row \in Rows /\ marks[i] = "applied" => Shows(i)
  /\ \A i \in 1 .. MaxEvents : i \notin DOMAIN log => marks[i] = "unseen"

IInv ==
  /\ Typed /\ LogSound /\ Served /\ Seen /\ Telling
  /\ Asking /\ Auditing /\ Shown /\ NoFalseAlarm

------------------------------------------------------------------------------
\* Rows, and what a pass fetches.

LEMMA RowsAre == NoRow \in Nat /\ NoRow \notin Rows /\ Rows \subseteq Nat
<1>1. Cardinality(Rows) \in Nat
  BY LogAssumption, FS_CardinalityType
<1> QED
  BY <1>1, LogAssumption DEF NoRow

\* Numbers of a finite set are told apart by how many are less, so each is the
\* k-th for one k, and the smaller ones come before it.
LEMMA OldestIs ==
  ASSUME NEW S, S \subseteq Nat, IsFiniteSet(S)
  PROVE  /\ Cardinality(S) \in Nat /\ Oldest(S) \in [1 .. Cardinality(S) -> S]
         /\ \A k \in 1 .. Cardinality(S) : \A i \in S : i < Oldest(S)[k] =>
              \E m \in 1 .. Cardinality(S) : m < k /\ Oldest(S)[m] = i
<1> DEFINE Less == [i \in S |-> {j \in S : j < i}]
           rank == [i \in S |-> Cardinality(Less[i])]
           n == Cardinality(S)
<1>1. n \in Nat
  BY FS_CardinalityType
<1>2. ASSUME NEW i \in S PROVE rank[i] \in 0 .. n - 1
  <2>1. Less[i] \subseteq S /\ Less[i] # S
    <3>1. ~(i < i) /\ i \in S
      BY <1>2
    <3> QED
      BY <3>1
  <2>2. Cardinality(Less[i]) <= n /\ Cardinality(Less[i]) # n /\ Cardinality(Less[i]) \in Nat
    BY <2>1, FS_Subset, FS_CardinalityType
  <2> QED
    BY <1>1, <2>2
<1>3. ASSUME NEW i \in S, NEW j \in S, i < j PROVE rank[i] < rank[j]
  <2>1. /\ IsFiniteSet(Less[j]) /\ Less[i] \subseteq Less[j]
        /\ i \in Less[j] /\ i \notin Less[i]
    <3>1. IsFiniteSet(Less[j])
      BY FS_Subset
    <3>2. \A k \in S : k < i => k < j
      BY <1>3
    <3>3. ~(i < i)
      BY <1>3
    <3> QED
      BY <1>3, <3>1, <3>2, <3>3
  <2>2. /\ Cardinality(Less[i]) # Cardinality(Less[j])
        /\ Cardinality(Less[i]) <= Cardinality(Less[j])
    BY <2>1, FS_Subset
  <2>3. rank[i] \in Nat /\ rank[j] \in Nat
    BY <1>1, <1>2
  <2> QED
    BY <2>2, <2>3
<1>4. \A i, j \in S : rank[i] = rank[j] => i = j
  <2>1. \A i, j \in S : i = j \/ i < j \/ j < i
    OBVIOUS
  <2>2. \A i \in S : rank[i] \in Nat
    BY <1>1, <1>2
  <2> QED
    BY <1>3, <2>1, <2>2
<1> HIDE DEF Less
<1>5. rank \in [S -> 0 .. n - 1]
  BY <1>2
<1>6. IsFiniteSet(0 .. n - 1) /\ Cardinality(0 .. n - 1) = n
  <2> DEFINE m == n - 1
  <2>1. 0 \in Int /\ m \in Int /\ (0 > m => n = 0) /\ m - 0 + 1 = n
    BY <1>1
  <2> HIDE DEF m
  <2>2. IsFiniteSet(0 .. m) /\ Cardinality(0 .. m) = n
    BY <2>1, FS_Interval
  <2> QED
    BY <2>2 DEF m
<1> HIDE DEF rank, n
<1>7. rank \in Surjection(S, 0 .. n - 1)
  <2>1. rank \in Injection(S, 0 .. n - 1)
    BY <1>4, <1>5 DEF Injection, IsInjective
  <2>2. Cardinality(S) = Cardinality(0 .. n - 1)
    BY <1>6 DEF n
  <2> QED
    BY <1>6, <2>1, <2>2, FS_Injection
<1>8. \A k \in 1 .. n : \E i \in S : Cardinality({j \in S : j < i}) = k - 1
  <2>1. \A k \in 1 .. n : k - 1 \in 0 .. n - 1
    BY <1>1
  <2>2. \A k \in 1 .. n : \E i \in S : rank[i] = k - 1
    BY <1>7, <2>1 DEF Surjection
  <2> QED
    BY <2>2 DEF rank, Less
<1>9. Oldest(S) \in [1 .. n -> S]
  BY <1>8 DEF Oldest, n
<1>10. \A k \in 1 .. n : rank[Oldest(S)[k]] = k - 1
  <2> SUFFICES ASSUME NEW k \in 1 .. n PROVE rank[Oldest(S)[k]] = k - 1
    OBVIOUS
  <2>1. /\ Oldest(S)[k] \in S
        /\ Cardinality({j \in S : j < Oldest(S)[k]}) = k - 1
    BY <1>8 DEF Oldest, n
  <2> QED
    BY <2>1 DEF rank, Less
<1>11. ASSUME NEW k \in 1 .. n, NEW i \in S, i < Oldest(S)[k]
       PROVE  \E m \in 1 .. n : m < k /\ Oldest(S)[m] = i
  <2>1. Oldest(S)[k] \in S
    BY <1>9
  <2>2. rank[i] \in 0 .. n - 1 /\ rank[i] < k - 1
    BY <1>3, <1>5, <1>10, <1>11, <2>1
  <2>3. rank[i] + 1 \in 1 .. n /\ rank[i] + 1 < k /\ (rank[i] + 1) - 1 = rank[i]
    BY <1>1, <2>2
  <2>4. Oldest(S)[rank[i] + 1] \in S /\ rank[Oldest(S)[rank[i] + 1]] = rank[i]
    BY <1>9, <1>10, <2>3
  <2> QED
    BY <1>4, <2>3, <2>4
<1> QED
  BY <1>1, <1>9, <1>11 DEF n

LEMMA PositionsAre ==
  ASSUME Typed
  PROVE  /\ Len(log) \in Nat /\ DOMAIN log = 1 .. Len(log) /\ IsFiniteSet(DOMAIN log)
         /\ DOMAIN log \subseteq 1 .. MaxEvents /\ DOMAIN log \subseteq Nat
<1>1. Len(log) \in Nat /\ DOMAIN log = 1 .. Len(log) /\ Len(log) <= MaxEvents /\ MaxEvents \in Nat
  BY LogAssumption, LenProperties DEF Typed
<1>2. IsFiniteSet(1 .. Len(log))
  <2>1. 1 \in Int /\ Len(log) \in Int
    BY <1>1
  <2> QED
    BY <2>1, FS_Interval
<1> QED
  BY <1>1, <1>2

\* What is listed is there, each time.
LEMMA ListIs ==
  ASSUME Typed, NEW S, S \subseteq DOMAIN log
  PROVE  /\ Oldest(S) \in Seq(1 .. MaxEvents) /\ \A k \in DOMAIN Oldest(S) : Oldest(S)[k] \in S
         /\ \A k \in DOMAIN Oldest(S) : \A i \in S : i < Oldest(S)[k] =>
              \E m \in DOMAIN Oldest(S) : m < k /\ Oldest(S)[m] = i
<1>1. S \subseteq Nat /\ IsFiniteSet(S) /\ S \subseteq 1 .. MaxEvents
  BY PositionsAre, FS_Subset
<1>2. /\ Cardinality(S) \in Nat /\ Oldest(S) \in [1 .. Cardinality(S) -> S]
      /\ \A k \in 1 .. Cardinality(S) : \A i \in S : i < Oldest(S)[k] =>
           \E m \in 1 .. Cardinality(S) : m < k /\ Oldest(S)[m] = i
  BY <1>1, OldestIs
<1> HIDE DEF Oldest
<1>3. Oldest(S) \in Seq(S)
  BY <1>2, SeqDef
<1>4. DOMAIN Oldest(S) = 1 .. Cardinality(S)
  BY <1>2
<1> QED
  BY <1>1, <1>2, <1>3, <1>4, SeqMonotonic

LEMMA PageIs ==
  ASSUME Typed
  PROVE  /\ Page \in Seq(1 .. MaxEvents) /\ \A k \in DOMAIN Page : Page[k] \in Ahead
         /\ \A k \in DOMAIN Page : \A i \in Ahead : i < Page[k] =>
              \E m \in DOMAIN Page : m < k /\ Page[m] = i
<1> DEFINE ahead == Oldest(Ahead)
           n == IF Len(ahead) < PageLimit THEN Len(ahead) ELSE PageLimit
<1>1. /\ ahead \in Seq(1 .. MaxEvents) /\ \A k \in DOMAIN ahead : ahead[k] \in Ahead
      /\ \A k \in DOMAIN ahead : \A i \in Ahead : i < ahead[k] =>
           \E m \in DOMAIN ahead : m < k /\ ahead[m] = i
  <2>1. Ahead \subseteq DOMAIN log
    BY DEF Ahead
  <2> HIDE DEF Ahead, Oldest
  <2> QED
    BY <2>1, ListIs
<1>2. n \in Nat /\ n <= Len(ahead) /\ Len(ahead) \in Nat /\ DOMAIN ahead = 1 .. Len(ahead)
  BY <1>1, IndexerAssumption
<1>3. Page = SubSeq(ahead, 1, n)
  BY DEF Page
<1> HIDE DEF ahead, n
<1>4. \A i \in 1 .. n : ahead[i] \in 1 .. MaxEvents
  <2>1. \A i \in 1 .. n : i \in 1 .. Len(ahead)
    BY <1>2
  <2> QED
    BY <1>1, <2>1, ElementOfSeq
<1>5. /\ SubSeq(ahead, 1, n) \in Seq(1 .. MaxEvents) /\ Len(SubSeq(ahead, 1, n)) = n
      /\ \A k \in 1 .. n : SubSeq(ahead, 1, n)[k] = ahead[k]
  <2>1. 1 \in Int /\ n \in Int /\ n - 1 + 1 = n /\ (~(1 <= n) => n = 0)
        /\ \A k \in 1 .. n : 1 + k - 1 = k
    BY <1>2
  <2>2. /\ SubSeq(ahead, 1, n) \in Seq(1 .. MaxEvents)
        /\ Len(SubSeq(ahead, 1, n)) = (IF 1 <= n THEN n - 1 + 1 ELSE 0)
        /\ \A k \in 1 .. n - 1 + 1 : SubSeq(ahead, 1, n)[k] = ahead[1 + k - 1]
    BY <1>4, <2>1, SubSeqProperties
  <2> QED
    BY <2>1, <2>2
<1>6. DOMAIN SubSeq(ahead, 1, n) = 1 .. n
  BY <1>5, LenProperties
<1>7. \A k \in 1 .. n : ahead[k] \in Ahead
  BY <1>1, <1>2
<1>8. ASSUME NEW k \in 1 .. n, NEW i \in Ahead, i < ahead[k]
      PROVE  \E m \in 1 .. n : m < k /\ ahead[m] = i
  <2>1. k \in DOMAIN ahead
    BY <1>2
  <2>2. PICK m \in DOMAIN ahead : m < k /\ ahead[m] = i
    BY <1>1, <1>8, <2>1
  <2>3. m \in 1 .. n
    BY <1>2, <2>2
  <2> QED
    BY <2>2, <2>3
<1>9. DOMAIN Page = 1 .. n /\ \A k \in 1 .. n : Page[k] = ahead[k]
  BY <1>3, <1>5, <1>6
<1> HIDE DEF Page, Ahead
<1>10. \A k \in DOMAIN Page : Page[k] \in Ahead
  BY <1>7, <1>9
<1>11. ASSUME NEW k \in DOMAIN Page, NEW i \in Ahead, i < Page[k]
       PROVE  \E m \in DOMAIN Page : m < k /\ Page[m] = i
  BY <1>8, <1>9, <1>11
<1> QED
  BY <1>3, <1>5, <1>10, <1>11

------------------------------------------------------------------------------
\* The log only grows, and stays what the contract's guards make of it.

Pair == EventKind \X (Rows \union {NoRow})

LEMMA OnlyGrows ==
  ASSUME Typed, NEW events \in Seq(Pair), Emit(events)
  PROVE  /\ log' \in Seq(Event) /\ Len(log') <= MaxEvents
         /\ \A i \in DOMAIN log : i \in DOMAIN log' /\ log'[i] = log[i]
         /\ \A j \in DOMAIN log' : j \in DOMAIN log \/ \E x \in Range(events) :
              log'[j].kind = x[1] /\ log'[j].row = x[2]
         /\ \A x \in Range(events) : \E j \in DOMAIN log' :
              log'[j].kind = x[1] /\ log'[j].row = x[2]
         /\ \A j \in DOMAIN log' : j \in DOMAIN log \/ log'[j].ledger = ledger
<1> DEFINE new == [i \in DOMAIN events |->
                     [kind |-> events[i][1], row |-> events[i][2], ledger |-> ledger]]
           m == Len(log)
           n == Len(events)
<1>1. /\ log \in Seq(Event) /\ m \in Nat /\ DOMAIN log = 1 .. m
      /\ n \in Nat /\ DOMAIN events = 1 .. n
  BY PositionsAre, LenProperties DEF Typed
<1>2. \A i \in 1 .. n : events[i] \in Pair /\ new[i] \in Event
  <2>1. \A i \in 1 .. n : events[i] \in Pair
    BY ElementOfSeq
  <2> QED
    BY <1>1, <2>1 DEF Pair, Event, Typed
<1>3. new \in Seq(Event) /\ Len(new) = n
  <2>1. new \in [1 .. n -> Event]
    BY <1>1, <1>2
  <2> HIDE DEF new
  <2>2. new \in Seq(Event)
    BY <1>1, <2>1, SeqDef
  <2>3. DOMAIN new = 1 .. n /\ DOMAIN new = 1 .. Len(new) /\ Len(new) \in Nat
    BY <2>1, <2>2, LenProperties
  <2> QED
    BY <1>1, <2>2, <2>3
<1>4. \A i \in 1 .. n : /\ new[i].kind = events[i][1] /\ new[i].row = events[i][2]
                       /\ new[i].ledger = ledger
  <2> SUFFICES ASSUME NEW i \in DOMAIN events
               PROVE  /\ new[i].kind = events[i][1] /\ new[i].row = events[i][2]
                      /\ new[i].ledger = ledger
    BY <1>1
  <2>1. new[i] = [kind |-> events[i][1], row |-> events[i][2], ledger |-> ledger]
    OBVIOUS
  <2> HIDE DEF new
  <2> QED
    BY <2>1
<1>5. log' = log \o new /\ m + n <= MaxEvents
  BY DEF Emit
<1> HIDE DEF new
<1>6. /\ log' \in Seq(Event) /\ Len(log') = m + n
      /\ \A i \in 1 .. m + n : log'[i] = IF i <= m THEN log[i] ELSE new[i - m]
  <2>1. /\ log \o new \in Seq(Event) /\ Len(log \o new) = Len(log) + Len(new)
        /\ \A i \in 1 .. Len(log) + Len(new) :
             (log \o new)[i] = IF i <= Len(log) THEN log[i] ELSE new[i - Len(log)]
    BY <1>1, <1>3, ConcatProperties
  <2> HIDE DEF n
  <2> QED
    BY <1>3, <1>5, <2>1, Zenon
<1> HIDE DEF m, n
<1>7. DOMAIN log' = 1 .. m + n
  BY <1>6, LenProperties
<1>8. \A i \in 1 .. m : i \in 1 .. m + n /\ i <= m
  BY <1>1
<1>9. ASSUME NEW j \in 1 .. m + n, j \notin 1 .. m
      PROVE  j - m \in 1 .. n /\ ~(j <= m)
  BY <1>1, <1>9
<1>10. ASSUME NEW i \in 1 .. n
       PROVE  m + i \in 1 .. m + n /\ ~(m + i <= m) /\ (m + i) - m = i
  BY <1>1
<1>11. \A j \in DOMAIN log' : j \in DOMAIN log \/
         /\ \E x \in Range(events) : log'[j].kind = x[1] /\ log'[j].row = x[2]
         /\ log'[j].ledger = ledger
  <2> SUFFICES ASSUME NEW j \in 1 .. m + n, j \notin 1 .. m
               PROVE  /\ \E x \in Range(events) : log'[j].kind = x[1] /\ log'[j].row = x[2]
                      /\ log'[j].ledger = ledger
    BY <1>1, <1>7
  <2>1. j - m \in 1 .. n /\ log'[j] = new[j - m]
    BY <1>6, <1>9
  <2>2. events[j - m] \in Range(events)
    BY <1>1, <2>1 DEF Range
  <2> QED
    BY <1>4, <2>1, <2>2
<1>12. \A x \in Range(events) : \E j \in DOMAIN log' : log'[j].kind = x[1] /\ log'[j].row = x[2]
  <2> SUFFICES ASSUME NEW i \in 1 .. n
               PROVE  \E j \in DOMAIN log' : log'[j].kind = events[i][1] /\ log'[j].row = events[i][2]
    BY <1>1 DEF Range
  <2>1. m + i \in DOMAIN log' /\ log'[m + i] = new[i]
    BY <1>6, <1>7, <1>10
  <2> QED
    BY <1>4, <2>1
<1>13. Len(log') <= MaxEvents
  BY <1>5, <1>6
<1> QED
  BY <1>1, <1>6, <1>7, <1>8, <1>11, <1>12, <1>13

\* What the log says, in no order.
History == {<<log[i].kind, log[i].row>> : i \in DOMAIN log}
Tells(kind, H) == \E r \in Rows \union {NoRow} : <<kind, r>> \in H

LEMMA Recorded ==
  ASSUME Typed, NEW events \in Seq(Pair), Emit(events)
  PROVE  History' = History \union Range(events)
<1>1. /\ \A i \in DOMAIN log : i \in DOMAIN log' /\ log'[i] = log[i]
      /\ \A j \in DOMAIN log' : j \in DOMAIN log \/ \E x \in Range(events) :
              log'[j].kind = x[1] /\ log'[j].row = x[2]
      /\ \A x \in Range(events) : \E j \in DOMAIN log' :
              log'[j].kind = x[1] /\ log'[j].row = x[2]
  BY OnlyGrows
<1>2. \A x \in Range(events) : x = <<x[1], x[2]>>
  <2>1. Range(events) \subseteq Pair
    BY RangeOfSeq
  <2> QED
    BY <2>1 DEF Pair
<1>3. History' \subseteq History \union Range(events)
  <2> SUFFICES ASSUME NEW j \in DOMAIN log'
               PROVE  <<log'[j].kind, log'[j].row>> \in History \union Range(events)
    BY DEF History
  <2>1. CASE j \in DOMAIN log
    BY <1>1, <2>1 DEF History
  <2>2. CASE \E x \in Range(events) : log'[j].kind = x[1] /\ log'[j].row = x[2]
    BY <1>2, <2>2
  <2> QED
    BY <1>1, <2>1, <2>2
<1>4. History \subseteq History'
  BY <1>1 DEF History
<1>5. Range(events) \subseteq History'
  <2> SUFFICES ASSUME NEW x \in Range(events) PROVE x \in History'
    OBVIOUS
  <2>1. PICK j \in DOMAIN log' : log'[j].kind = x[1] /\ log'[j].row = x[2]
    BY <1>1
  <2>2. x = <<log'[j].kind, log'[j].row>>
    BY <1>2, <2>1
  <2> QED
    BY <2>2 DEF History
<1> QED
  BY <1>3, <1>4, <1>5

\* The log is sound if its history is.
Sound(H) ==
  /\ ~(Tells("finalized", H) /\ Tells("cancelled", H))
  /\ \A r \in Rows : /\ <<"payment_paid", r>> \in H <=> Tells("finalized", H)
                     /\ <<"payment_cancelled", r>> \in H => Tells("cancelled", H)

LEMMA SoundIs ==
  /\ log \in Seq(Event) => (LogSound <=> Sound(History))
  /\ log' \in Seq(Event) => (LogSound' <=> Sound(History'))
<1>1. ASSUME log \in Seq(Event)
      PROVE  LogSound <=> Sound(History)
  <2>1. \A i \in DOMAIN log : log[i].row \in Rows \union {NoRow}
    <3>1. \A i \in DOMAIN log : log[i] \in Event
      BY <1>1, LenProperties, ElementOfSeq
    <3> QED
      BY <3>1 DEF Event
  <2>2. /\ Logged("finalized") <=> Tells("finalized", History)
        /\ Logged("cancelled") <=> Tells("cancelled", History)
    BY <2>1, Zenon DEF Logged, Tells, History
  <2>3. \A r \in Rows : Settled(r) <=> <<"payment_paid", r>> \in History
    BY DEF Settled, LoggedFor, History
  <2>4. \A r \in Rows : Refunded(r) <=> <<"payment_cancelled", r>> \in History
    BY DEF Refunded, LoggedFor, History
  <2> QED
    BY <2>2, <2>3, <2>4, Zenon DEF LogSound, Sound
<1>2. ASSUME log' \in Seq(Event)
      PROVE  LogSound' <=> Sound(History')
  <2>1. \A i \in DOMAIN log' : log'[i].row \in Rows \union {NoRow}
    <3>1. \A i \in DOMAIN log' : log'[i] \in Event
      BY <1>2, LenProperties, ElementOfSeq
    <3> QED
      BY <3>1 DEF Event
  <2>2. /\ Logged("finalized")' <=> Tells("finalized", History')
        /\ Logged("cancelled")' <=> Tells("cancelled", History')
    BY <2>1, Zenon DEF Logged, Tells, History
  <2>3. \A r \in Rows : Settled(r)' <=> <<"payment_paid", r>> \in History'
    BY DEF Settled, LoggedFor, History
  <2>4. \A r \in Rows : Refunded(r)' <=> <<"payment_cancelled", r>> \in History'
    BY DEF Refunded, LoggedFor, History
  <2> QED
    BY <2>2, <2>3, <2>4, Zenon DEF LogSound, Sound
<1> QED
  BY <1>1, <1>2

LEMMA SoundAfterThat ==
  ASSUME Typed, NEW events \in Seq(Pair), Emit(events), Sound(History \union Range(events))
  PROVE  LogSound'
BY Recorded, OnlyGrows, SoundIs

LEMMA OneEvent ==
  ASSUME NEW x \in Pair
  PROVE  <<x>> \in Seq(Pair) /\ Range(<<x>>) = {x}
<1>1. <<x>> \in Seq(Pair) /\ DOMAIN <<x>> = 1 .. 1 /\ <<x>>[1] = x
  OBVIOUS
<1> QED
  BY <1>1 DEF Range

LEMMA TwoParts ==
  ASSUME NEW a \in Seq(Pair), NEW b \in Seq(Pair)
  PROVE  a \o b \in Seq(Pair) /\ Range(a \o b) = Range(a) \union Range(b)
<1>1. a \o b \in Seq(Pair)
  BY ConcatProperties
<1>2. Range(a \o b) = Range(a) \union Range(b)
  BY RangeConcatenation
<1> QED
  BY <1>1, <1>2

LEMMA PerRowIs ==
  ASSUME NEW kind \in EventKind
  PROVE  PerRow(kind) \in Seq(Pair) /\ Range(PerRow(kind)) = {<<kind, r>> : r \in Rows}
<1> DEFINE n == Cardinality(Rows)
<1>1. n \in Nat /\ Rows = 0 .. n - 1
  BY LogAssumption, FS_CardinalityType
<1> HIDE DEF n
<1>2. /\ \A i \in 1 .. n : i - 1 \in Rows
      /\ \A r \in Rows : r + 1 \in 1 .. n /\ (r + 1) - 1 = r
  BY <1>1
<1>3. PerRow(kind) = [i \in 1 .. n |-> <<kind, i - 1>>]
  BY DEF PerRow, n
<1>4. PerRow(kind) \in [1 .. n -> Pair]
  BY <1>2, <1>3 DEF Pair
<1>5. PerRow(kind) \in Seq(Pair)
  BY <1>1, <1>4, SeqDef
<1>6. Range(PerRow(kind)) = {<<kind, r>> : r \in Rows}
  BY <1>2, <1>3 DEF Range
<1> QED
  BY <1>5, <1>6

\* Events that settle and refund nothing leave the log sound.
LEMMA SoundAfter ==
  ASSUME Typed, LogSound, NEW events \in Seq(Pair), Emit(events),
         \A x \in Range(events) :
           x[1] \notin {"finalized", "cancelled", "payment_paid", "payment_cancelled"}
  PROVE  LogSound'
<1> DEFINE H == History
           R == Range(events)
<1>1. \A r : /\ <<"finalized", r>> \notin R /\ <<"cancelled", r>> \notin R
             /\ <<"payment_paid", r>> \notin R /\ <<"payment_cancelled", r>> \notin R
  OBVIOUS
<1>2. Sound(H)
  BY SoundIs DEF Typed
<1> HIDE DEF H, R
<1>3. Sound(H \union R)
  BY <1>1, <1>2 DEF Sound, Tells
<1> QED
  BY <1>3, SoundAfterThat DEF H, R

\* What a step of the contract leaves of the log.
Grows ==
  /\ log' \in Seq(Event) /\ Len(log') <= MaxEvents
  /\ \A i \in DOMAIN log : i \in DOMAIN log' /\ log'[i] = log[i]
  /\ \A j \in DOMAIN log' : j \in DOMAIN log \/ log'[j].ledger = ledger
  /\ ledger' \in Nat /\ ledger <= ledger'
  /\ room' \in 0 .. TxPerLedger

LEMMA EmitGrows ==
  ASSUME Typed, NEW events \in Seq(Pair), Emit(events)
  PROVE  Grows
<1>1. /\ room > 0 /\ room' = room - 1 /\ ledger' = ledger /\ ledger \in Nat
      /\ room \in 0 .. TxPerLedger
  BY DEF Emit, Typed
<1>2. room' \in 0 .. TxPerLedger /\ ledger <= ledger'
  BY <1>1, LogAssumption
<1> QED
  BY <1>1, <1>2, OnlyGrows DEF Grows

LEMMA NotLogged ==
  ASSUME NEW kind, ~Logged(kind)
  PROVE  ~Tells(kind, History)
BY DEF Logged, Tells, History

LEMMA SettleBatchIsSound ==
  ASSUME Typed, LogSound, SettleBatch
  PROVE  Grows /\ LogSound'
<1> DEFINE events == PerRow("payment_paid") \o <<<<"finalized", NoRow>>>>
<1>1. /\ events \in Seq(Pair)
      /\ Range(events) = {<<"payment_paid", r>> : r \in Rows} \union {<<"finalized", NoRow>>}
  <2>1. <<"finalized", NoRow>> \in Pair /\ "payment_paid" \in EventKind
    BY DEF Pair, EventKind
  <2>2. /\ <<<<"finalized", NoRow>>>> \in Seq(Pair)
        /\ Range(<<<<"finalized", NoRow>>>>) = {<<"finalized", NoRow>>}
    BY <2>1, OneEvent
  <2>3. /\ PerRow("payment_paid") \in Seq(Pair)
        /\ Range(PerRow("payment_paid")) = {<<"payment_paid", r>> : r \in Rows}
    BY <2>1, PerRowIs
  <2> QED
    BY <2>2, <2>3, TwoParts
<1>2. Emit(events) /\ ~Logged("finalized") /\ ~Logged("cancelled")
  BY DEF SettleBatch, StillOpen
<1> HIDE DEF events
<1> DEFINE H == History
           R == Range(events)
<1>3. Sound(H) /\ ~Tells("finalized", H) /\ ~Tells("cancelled", H)
  BY <1>2, NotLogged, SoundIs DEF Typed
<1>4. R = {<<"payment_paid", r>> : r \in Rows} \union {<<"finalized", NoRow>>}
  BY <1>1
<1> HIDE DEF H, R
<1>5. /\ Tells("finalized", H \union R) /\ ~Tells("cancelled", H \union R)
      /\ \A r \in Rows : <<"payment_paid", r>> \in H \union R
      /\ \A r \in Rows : <<"payment_cancelled", r>> \notin H \union R
  BY <1>3, <1>4 DEF Sound, Tells
<1>6. Sound(H \union R)
  BY <1>5 DEF Sound
<1> QED
  BY <1>1, <1>2, <1>6, SoundAfterThat, EmitGrows DEF H, R

LEMMA RefundEscrowIsSound ==
  ASSUME Typed, LogSound, RefundEscrow
  PROVE  Grows /\ LogSound'
<1> DEFINE events == PerRow("payment_cancelled") \o <<<<"cancelled", NoRow>>>>
<1>1. /\ events \in Seq(Pair)
      /\ Range(events) = {<<"payment_cancelled", r>> : r \in Rows} \union {<<"cancelled", NoRow>>}
  <2>1. <<"cancelled", NoRow>> \in Pair /\ "payment_cancelled" \in EventKind
    BY DEF Pair, EventKind
  <2>2. /\ <<<<"cancelled", NoRow>>>> \in Seq(Pair)
        /\ Range(<<<<"cancelled", NoRow>>>>) = {<<"cancelled", NoRow>>}
    BY <2>1, OneEvent
  <2>3. /\ PerRow("payment_cancelled") \in Seq(Pair)
        /\ Range(PerRow("payment_cancelled")) = {<<"payment_cancelled", r>> : r \in Rows}
    BY <2>1, PerRowIs
  <2> QED
    BY <2>2, <2>3, TwoParts
<1>2. Emit(events) /\ ~Logged("finalized") /\ ~Logged("cancelled")
  BY DEF RefundEscrow, StillOpen
<1> HIDE DEF events
<1> DEFINE H == History
           R == Range(events)
<1>3. Sound(H) /\ ~Tells("finalized", H) /\ ~Tells("cancelled", H)
  BY <1>2, NotLogged, SoundIs DEF Typed
<1>4. R = {<<"payment_cancelled", r>> : r \in Rows} \union {<<"cancelled", NoRow>>}
  BY <1>1
<1> HIDE DEF H, R
<1>5. /\ Tells("cancelled", H \union R) /\ ~Tells("finalized", H \union R)
      /\ \A r \in Rows : <<"payment_paid", r>> \notin H \union R
  BY <1>3, <1>4 DEF Sound, Tells
<1>6. Sound(H \union R)
  BY <1>5 DEF Sound
<1> QED
  BY <1>1, <1>2, <1>6, SoundAfterThat, EmitGrows DEF H, R

LEMMA CreateEscrowIsSound ==
  ASSUME Typed, LogSound, CreateEscrow
  PROVE  Grows /\ LogSound'
<1> DEFINE events == <<<<"created", NoRow>>>> \o PerRow("payment_added")
<1>1. /\ events \in Seq(Pair)
      /\ Range(events) = {<<"created", NoRow>>} \union {<<"payment_added", r>> : r \in Rows}
  <2>1. <<"created", NoRow>> \in Pair /\ "payment_added" \in EventKind
    BY DEF Pair, EventKind
  <2>2. /\ <<<<"created", NoRow>>>> \in Seq(Pair)
        /\ Range(<<<<"created", NoRow>>>>) = {<<"created", NoRow>>}
    BY <2>1, OneEvent
  <2>3. /\ PerRow("payment_added") \in Seq(Pair)
        /\ Range(PerRow("payment_added")) = {<<"payment_added", r>> : r \in Rows}
    BY <2>1, PerRowIs
  <2> QED
    BY <2>2, <2>3, TwoParts
<1>2. Emit(events)
  BY DEF CreateEscrow
<1> HIDE DEF events
<1>3. \A x \in Range(events) :
        x[1] \notin {"finalized", "cancelled", "payment_paid", "payment_cancelled"}
  BY <1>1
<1> QED
  BY <1>1, <1>2, <1>3, SoundAfter, EmitGrows

\* The other invocations emit one event each.
LEMMA OneEventIsSound ==
  ASSUME Typed, LogSound, NEW x \in Pair, Emit(<<x>>),
         x[1] \in {"hours", "oracle_rotated", "manager_approved", "finance_approved"}
  PROVE  Grows /\ LogSound'
<1>1. <<x>> \in Seq(Pair) /\ Range(<<x>>) = {x}
  BY OneEvent
<1>2. \A y \in Range(<<x>>) :
        y[1] \notin {"finalized", "cancelled", "payment_paid", "payment_cancelled"}
  BY <1>1
<1> QED
  BY <1>1, <1>2, SoundAfter, EmitGrows

LEMMA LogStep ==
  ASSUME Typed, LogSound, LogNext
  PROVE  Grows /\ LogSound'
<1>1. CASE CreateEscrow
  BY <1>1, CreateEscrowIsSound
<1>2. ASSUME NEW r \in Rows, SubmitHours(r) PROVE Grows /\ LogSound'
  <2>1. <<"hours", r>> \in Pair
    BY DEF Pair, EventKind
  <2> QED
    BY <1>2, <2>1, OneEventIsSound DEF SubmitHours
<1>3. CASE RotateKey
  <2>1. <<"oracle_rotated", NoRow>> \in Pair
    BY DEF Pair, EventKind
  <2> QED
    BY <1>3, <2>1, OneEventIsSound DEF RotateKey
<1>4. ASSUME NEW kind \in {"manager_approved", "finance_approved"}, Approve(kind)
      PROVE  Grows /\ LogSound'
  <2>1. <<kind, NoRow>> \in Pair
    BY DEF Pair, EventKind
  <2> QED
    BY <1>4, <2>1, OneEventIsSound DEF Approve
<1>5. CASE SettleBatch
  BY <1>5, SettleBatchIsSound
<1>6. CASE RefundEscrow
  BY <1>6, RefundEscrowIsSound
<1>7. CASE CloseLedger
  <2>1. log' = log /\ ledger' = ledger + 1 /\ room' = TxPerLedger
    BY <1>7 DEF CloseLedger
  <2>2. LogSound'
    BY <2>1 DEF LogSound, Logged, LoggedFor, Settled, Refunded
  <2> QED
    BY <2>1, <2>2, LogAssumption DEF Typed, Grows
<1> QED
  BY <1>1, <1>2, <1>3, <1>4, <1>5, <1>6, <1>7 DEF LogNext

\* The contract takes a step: nothing that was said of the log becomes false.
LEMMA LogKeeps ==
  ASSUME IInv, LogNext, UNCHANGED <<indexerVars, appVars>>
  PROVE  IInv'
<1>1. Grows /\ LogSound'
  BY LogStep DEF IInv
<1>2. /\ UNCHANGED <<claimed, flags, payments, findings, marks, cursor>>
      /\ UNCHANGED <<passes, failures, request, audit>>
  BY DEF indexerVars, dbVars, appVars
<1>3. Typed'
  BY <1>1, <1>2 DEF IInv, Typed, Grows
<1>4. /\ \A i \in DOMAIN log : i \in DOMAIN log' /\ log'[i] = log[i]
      /\ ledger \in Nat /\ ledger' \in Nat /\ ledger <= ledger'
  BY <1>1 DEF Grows, IInv, Typed
<1>5. /\ \A r : LoggedFor("hours", r) => LoggedFor("hours", r)'
      /\ \A r : Settled(r) => Settled(r)'
      /\ Logged("manager_approved") => Logged("manager_approved")'
      /\ Logged("finance_approved") => Logged("finance_approved")'
      /\ Logged("finalized") => Logged("finalized")'
  BY <1>4 DEF LoggedFor, Settled, Logged
<1>6. Served'
  <2>1. cursor' < ledger'
    BY <1>2, <1>4 DEF IInv, Served, Typed
  <2>2. ASSUME NEW w \in Workers PROVE Serves(passes[w])'
    <3>1. Serves(passes[w]) /\ passes[w].committed \in Nat
      BY DEF IInv, Served, Typed, Pass
    <3>2. passes[w].committed < ledger'
      BY <1>4, <3>1 DEF Serves
    <3>3. \A k \in DOMAIN passes[w].todo : passes[w].todo[k] \in DOMAIN log =>
            log[passes[w].todo[k]].ledger \in Nat
      <4>1. \A i \in DOMAIN log : log[i] \in Event
        BY LenProperties, ElementOfSeq DEF IInv, Typed
      <4> QED
        BY <4>1 DEF Event
    <3>4. ASSUME NEW k \in DOMAIN passes[w].todo
          PROVE  /\ passes[w].todo[k] \in DOMAIN log'
                 /\ passes[w].stage = "page" => log'[passes[w].todo[k]].ledger < ledger'
      BY <1>4, <3>1, <3>3 DEF Serves
    <3> QED
      BY <1>2, <3>2, <3>4 DEF Serves
  <2> QED
    BY <2>1, <2>2 DEF Served
<1>7. Seen'
  <2> SUFFICES ASSUME NEW w \in Workers PROVE Sees(passes[w])'
    BY DEF Seen
  <2>1. passes[w].todo # <<>> => Head(passes[w].todo) \in DOMAIN log
    <3>1. passes[w].todo \in Seq(1 .. MaxEvents) /\ Serves(passes[w])
      BY DEF IInv, Typed, Pass, Served
    <3> QED
      BY <3>1, HeadTailProperties, LenProperties DEF Serves
  <2> QED
    BY <1>2, <1>4, <2>1 DEF IInv, Seen, Sees
<1>8. Telling'
  BY <1>2, <1>5 DEF IInv, Telling, Says
<1>9. Asking' /\ NoFalseAlarm'
  BY <1>2 DEF IInv, Asking, NoFalseAlarm
<1>10. Auditing'
  BY <1>2, <1>5 DEF IInv, Auditing
<1>11. Shown'
  <2>1. DOMAIN log' \subseteq 1 .. MaxEvents
    BY <1>3, LogAssumption, LenProperties DEF Typed
  <2>2. \A i \in 1 .. MaxEvents : i \notin DOMAIN log => marks[i] = "unseen"
    BY DEF IInv, Shown
  <2>3. \A i \in DOMAIN log : Shows(i) => Shows(i)'
    BY <1>2, <1>4 DEF Shows
  <2> QED
    BY <1>2, <1>4, <2>1, <2>2, <2>3 DEF IInv, Shown
<1> QED
  BY <1>1, <1>3, <1>6, <1>7, <1>8, <1>9, <1>10, <1>11 DEF IInv

------------------------------------------------------------------------------
\* Payments, whoever moves them.

\* The states the payments may move to, under a log that stays.
Moves ==
  /\ payments' \in [Rows -> RowState]
  /\ \A r \in Rows : Says(payments'[r], r)
  /\ \A r \in Rows : payments[r] \in TERMINAL_STATES => payments'[r] = payments[r]

LEMMA NothingFromTerminal ==
  ASSUME NEW from, NEW to, NEW actor, Permitted(from, to, actor)
  PROVE  from \notin TERMINAL_STATES
BY Zenon DEF Permitted, CheckTransition

LEMMA SwappedIs ==
  ASSUME NEW was, NEW to, NEW actor, NEW now, Swapped(was, to, actor, now)
  PROVE  now = was /\ was \notin TERMINAL_STATES /\ Permitted(was, to, actor)
BY NothingFromTerminal DEF Swapped

LEMMA OneMoves ==
  ASSUME IInv, NEW r, NEW s \in RowState, payments' = [payments EXCEPT ![r] = s],
         r \in Rows => payments[r] \notin TERMINAL_STATES /\ Says(s, r)
  PROVE  Moves
<1>1. payments \in [Rows -> RowState] /\ \A q \in Rows : Says(payments[q], q)
  BY DEF IInv, Typed, Telling
<1>2. \A q \in Rows : payments'[q] = IF q = r THEN s ELSE payments[q]
  BY <1>1
<1>3. payments' \in [Rows -> RowState]
  BY <1>1
<1> QED
  BY <1>1, <1>2, <1>3 DEF Moves

\* A payment at rest may always be said to await its proof.
LEMMA Awaits ==
  ASSUME NEW r
  PROVE  /\ Says("AWAITING_ORACLE", r) /\ Says("CANCELLED", r) /\ Says("REJECTED", r)
         /\ {"AWAITING_ORACLE", "CANCELLED", "REJECTED", "PAID", "ORACLE_VERIFIED"} \subseteq RowState
BY DEF Says, HasProof, ManagerDone, BothDone, RowState, PaymentState

\* What an approval makes of the payments.
LEMMA ApprovalMoves ==
  ASSUME IInv,
         \/ Logged("manager_approved") /\ payments' = Approved(payments, "AWAITING_MANAGER", "AWAITING_FINANCE")
         \/ Logged("finance_approved") /\ payments' = Approved(payments, "AWAITING_FINANCE", "READY_TO_SETTLE")
  PROVE  Moves
<1>1. payments \in [Rows -> RowState] /\ \A q \in Rows : Says(payments[q], q)
  BY DEF IInv, Typed, Telling
<1>2. {"AWAITING_MANAGER", "AWAITING_FINANCE", "READY_TO_SETTLE"} \subseteq RowState
  BY DEF RowState, PaymentState
<1>3. CASE Logged("manager_approved") /\ payments' = Approved(payments, "AWAITING_MANAGER", "AWAITING_FINANCE")
  <2>1. /\ payments' \in [Rows -> RowState]
        /\ \A r \in Rows : payments'[r] =
             IF payments[r] \in {"ORACLE_VERIFIED", "AWAITING_MANAGER"} THEN "AWAITING_FINANCE" ELSE payments[r]
    BY <1>1, <1>2, <1>3 DEF Approved
  <2> QED
    BY <1>1, <1>3, <2>1 DEF Moves, Says, HasProof, ManagerDone, BothDone, TERMINAL_STATES
<1>4. CASE Logged("finance_approved") /\ payments' = Approved(payments, "AWAITING_FINANCE", "READY_TO_SETTLE")
  <2>1. /\ payments' \in [Rows -> RowState]
        /\ \A r \in Rows : payments'[r] =
             IF payments[r] = "ORACLE_VERIFIED" THEN "AWAITING_MANAGER"
             ELSE IF payments[r] = "AWAITING_FINANCE" THEN "READY_TO_SETTLE" ELSE payments[r]
    BY <1>1, <1>2, <1>4 DEF Approved
  <2> QED
    BY <1>1, <1>4, <2>1 DEF Moves, Says, HasProof, ManagerDone, BothDone, TERMINAL_STATES
<1> QED
  BY <1>3, <1>4

\* What a rotation takes back.
LEMMA RotationMoves ==
  ASSUME IInv,
         payments' = [r \in Rows |-> IF payments[r] \in RevokedBy THEN "AWAITING_ORACLE" ELSE payments[r]]
  PROVE  Moves
<1>1. payments \in [Rows -> RowState] /\ \A q \in Rows : Says(payments[q], q)
  BY DEF IInv, Typed, Telling
<1>2. payments' \in [Rows -> RowState]
  BY <1>1, Awaits
<1> QED
  BY <1>1, <1>2, Awaits DEF Moves, RevokedBy, TERMINAL_STATES

LEMMA ProjectedIs ==
  ASSUME NEW ev, NEW seen
  PROVE  \/ /\ ev.kind = "payment_added" /\ seen = NoPayment
            /\ Projected(payments, ev, seen) = [payments EXCEPT ![ev.row] = "AWAITING_ORACLE"]
         \/ /\ ev.kind = "payment_added" /\ Swapped(seen, "AWAITING_ORACLE", Indexer, payments[ev.row])
            /\ Projected(payments, ev, seen) = [payments EXCEPT ![ev.row] = "AWAITING_ORACLE"]
         \/ /\ ev.kind = "hours"
            /\ Projected(payments, ev, seen) = Move(payments, ev.row, {"AWAITING_ORACLE"}, "ORACLE_VERIFIED")
         \/ /\ ev.kind = "manager_approved"
            /\ Projected(payments, ev, seen) = Approved(payments, "AWAITING_MANAGER", "AWAITING_FINANCE")
         \/ /\ ev.kind = "finance_approved"
            /\ Projected(payments, ev, seen) = Approved(payments, "AWAITING_FINANCE", "READY_TO_SETTLE")
         \/ /\ ev.kind = "payment_paid" /\ Swapped(seen, "PAID", Indexer, payments[ev.row])
            /\ Projected(payments, ev, seen) = [payments EXCEPT ![ev.row] = "PAID"]
         \/ /\ ev.kind = "payment_cancelled" /\ Swapped(seen, "CANCELLED", Indexer, payments[ev.row])
            /\ Projected(payments, ev, seen) = [payments EXCEPT ![ev.row] = "CANCELLED"]
         \/ /\ ev.kind = "oracle_rotated"
            /\ Projected(payments, ev, seen) =
                 [r \in Rows |-> IF payments[r] \in RevokedBy THEN "AWAITING_ORACLE" ELSE payments[r]]
         \/ ev.kind # "oracle_rotated" /\ Projected(payments, ev, seen) = payments
BY Zenon DEF Projected

LEMMA SwapMoves ==
  ASSUME IInv, NEW r, NEW was, NEW to \in RowState, NEW actor,
         Swapped(was, to, actor, payments[r]), payments' = [payments EXCEPT ![r] = to],
         r \in Rows => Says(to, r)
  PROVE  Moves
<1>1. payments[r] \notin TERMINAL_STATES
  BY SwappedIs
<1> QED
  BY <1>1, OneMoves

LEMMA AppliedMoves ==
  ASSUME IInv, NEW i \in DOMAIN log, NEW seen,
         payments' = Projected(payments, log[i], seen),
         log[i].kind = "payment_added" /\ seen = NoPayment => payments[log[i].row] = NoPayment
  PROVE  Moves
<1> DEFINE ev == log[i]
<1>1. payments \in [Rows -> RowState] /\ \A r \in Rows : Says(payments[r], r)
  BY DEF IInv, Typed, Telling
<1>2. LoggedFor(ev.kind, ev.row) /\ Logged(ev.kind)
  BY DEF LoggedFor, Logged
<1>3. NoPayment \notin TERMINAL_STATES
  BY DEF NoPayment, TERMINAL_STATES
<1>4. CASE /\ ev.kind = "payment_added" /\ seen = NoPayment
           /\ payments' = [payments EXCEPT ![ev.row] = "AWAITING_ORACLE"]
  BY <1>3, <1>4, Awaits, OneMoves
<1>5. CASE /\ Swapped(seen, "AWAITING_ORACLE", Indexer, payments[ev.row])
           /\ payments' = [payments EXCEPT ![ev.row] = "AWAITING_ORACLE"]
  BY <1>5, Awaits, SwapMoves
<1>6. CASE /\ ev.kind = "hours"
           /\ payments' = Move(payments, ev.row, {"AWAITING_ORACLE"}, "ORACLE_VERIFIED")
  <2>1. payments' = [payments EXCEPT ![ev.row] =
          IF payments[ev.row] = "AWAITING_ORACLE" THEN "ORACLE_VERIFIED" ELSE payments[ev.row]]
    BY <1>6 DEF Move
  <2>2. CASE payments[ev.row] = "AWAITING_ORACLE"
    <3>1. Says("ORACLE_VERIFIED", ev.row)
      BY <1>2, <1>6 DEF Says, HasProof, ManagerDone, BothDone
    <3> QED
      BY <2>1, <2>2, <3>1, Awaits, OneMoves DEF TERMINAL_STATES
  <2>3. CASE payments[ev.row] # "AWAITING_ORACLE"
    <3>1. payments' = payments
      BY <1>1, <2>1, <2>3
    <3> QED
      BY <1>1, <3>1 DEF Moves
  <2> QED
    BY <2>2, <2>3
<1>7. CASE /\ ev.kind = "manager_approved"
           /\ payments' = Approved(payments, "AWAITING_MANAGER", "AWAITING_FINANCE")
  BY <1>2, <1>7, ApprovalMoves
<1>8. CASE /\ ev.kind = "finance_approved"
           /\ payments' = Approved(payments, "AWAITING_FINANCE", "READY_TO_SETTLE")
  BY <1>2, <1>8, ApprovalMoves
<1>9. CASE /\ ev.kind = "payment_paid" /\ Swapped(seen, "PAID", Indexer, payments[ev.row])
           /\ payments' = [payments EXCEPT ![ev.row] = "PAID"]
  <2>1. Says("PAID", ev.row)
    BY <1>2, <1>9 DEF Says, HasProof, ManagerDone, BothDone, Settled
  <2> QED
    BY <1>9, <2>1, Awaits, SwapMoves
<1>10. CASE /\ Swapped(seen, "CANCELLED", Indexer, payments[ev.row])
            /\ payments' = [payments EXCEPT ![ev.row] = "CANCELLED"]
  BY <1>10, Awaits, SwapMoves
<1>11. CASE payments' = [r \in Rows |-> IF payments[r] \in RevokedBy THEN "AWAITING_ORACLE" ELSE payments[r]]
  BY <1>11, RotationMoves
<1>12. CASE payments' = payments
  BY <1>1, <1>12 DEF Moves
<1> HIDE DEF ev
<1>13. payments' = Projected(payments, ev, seen)
         /\ (ev.kind = "payment_added" /\ seen = NoPayment => payments[ev.row] = NoPayment)
  BY DEF ev
<1> QED
  BY <1>4, <1>5, <1>6, <1>7, <1>8, <1>9, <1>10, <1>11, <1>12, <1>13, ProjectedIs

\* A settlement that is applied to an attributed escrow shows.
LEMMA PaidShows ==
  ASSUME NEW ev, NEW seen, ev.kind = "payment_paid", ev.row \in Rows, seen # Unattributed,
         payments \in [Rows -> RowState], ApplyEvent(ev, seen),
         seen = "PAID" => payments[ev.row] = "PAID"
  PROVE  \/ payments'[ev.row] = "PAID"
         \/ \E kind \in {"CHAIN_PAID_DB_NOT", "ORPHAN_ON_CHAIN"} : <<kind, ev.row>> \in findings'
<1>1. /\ payments' = Projected(payments, ev, seen)
      /\ findings' = findings \union FindingsOpened(ev, seen)
  BY DEF ApplyEvent
<1>2. CASE seen = NoPayment
  <2>1. FindingsOpened(ev, seen) = {<<"ORPHAN_ON_CHAIN", ev.row>>}
    BY <1>2, Zenon DEF FindingsOpened
  <2> QED
    BY <1>1, <2>1
<1>3. CASE seen # NoPayment /\ Swapped(seen, "PAID", Indexer, payments[ev.row])
  <2>1. Projected(payments, ev, seen) = [payments EXCEPT ![ev.row] = "PAID"]
    BY <1>3, Zenon DEF Projected
  <2> QED
    BY <1>1, <2>1
<1>4. CASE seen \notin {NoPayment, "PAID"} /\ ~Swapped(seen, "PAID", Indexer, payments[ev.row])
  <2>1. FindingsOpened(ev, seen) = {<<"CHAIN_PAID_DB_NOT", ev.row>>}
    BY <1>4, Zenon DEF FindingsOpened
  <2> QED
    BY <1>1, <2>1
<1>5. CASE seen = "PAID" /\ ~Swapped(seen, "PAID", Indexer, payments[ev.row])
  <2>1. Projected(payments, ev, seen) = payments
    BY <1>5, Zenon DEF Projected
  <2> QED
    BY <1>1, <1>5, <2>1
<1> QED
  BY <1>2, <1>3, <1>4, <1>5

\* The indexer reports a PAID the contract does not know of only where it reads
\* a cancellation of a payment that was PAID.
LEMMA OpenedIs ==
  ASSUME NEW ev, NEW seen
  PROVE  /\ FindingsOpened(ev, seen) \subseteq FindingKind \X {ev.row, NoRow}
         /\ \A r \in Rows : <<"DB_PAID_CHAIN_NOT", r>> \in FindingsOpened(ev, seen) =>
              ev.kind = "payment_cancelled" /\ seen = "PAID" /\ ev.row = r
<1>1. \/ FindingsOpened(ev, seen) = {<<"ORPHAN_ON_CHAIN", ev.row>>}
      \/ FindingsOpened(ev, seen) = {<<"CHAIN_PAID_DB_NOT", ev.row>>}
      \/ /\ FindingsOpened(ev, seen) = {<<"DB_PAID_CHAIN_NOT", ev.row>>}
         /\ ev.kind = "payment_cancelled" /\ seen = "PAID"
      \/ FindingsOpened(ev, seen) = {<<"CHAIN_PAID_DB_NOT", NoRow>>}
      \/ FindingsOpened(ev, seen) = {}
  BY Zenon DEF FindingsOpened
<1> HIDE DEF FindingsOpened
<1> QED
  BY <1>1 DEF FindingKind

------------------------------------------------------------------------------
\* A pass.

\* The log, the application and everything of the other passes stay.
PassStep(w) ==
  /\ UNCHANGED <<logVars, appVars>>
  /\ passes' = [passes EXCEPT ![w] = passes'[w]]
  /\ passes'[w] \in Pass /\ Serves(passes[w])' /\ Sees(passes[w])'
  /\ cursor' \in Nat /\ cursor' < ledger
  /\ claimed' \in BOOLEAN /\ flags' \subseteq Flag

LEMMA PassKeeps ==
  ASSUME IInv, NEW w \in Workers, PassStep(w), Moves,
         findings' \subseteq FindingKind \X (Rows \union {NoRow}), NoFalseAlarm',
         marks' \in [1 .. MaxEvents -> {"unseen", "unattributed", "applied"}], Shown'
  PROVE  IInv'
<1>1. /\ log' = log /\ ledger' = ledger /\ room' = room /\ request' = request /\ audit' = audit
      /\ passes \in [Workers -> Pass]
  BY DEF PassStep, logVars, appVars, IInv, Typed
<1>2. passes' \in [Workers -> Pass]
  BY <1>1 DEF PassStep
<1>3. Typed'
  BY <1>1, <1>2 DEF IInv, Typed, PassStep, Moves
<1>4. LogSound' /\ Asking' /\ Auditing'
  BY <1>1 DEF IInv, LogSound, Logged, Settled, Refunded, LoggedFor, Asking, Auditing
<1>5. Telling'
  BY <1>1 DEF Moves, Telling, Says, Settled, LoggedFor, Logged
<1>6. ASSUME NEW v \in Workers PROVE Serves(passes[v])' /\ Sees(passes[v])'
  <2>1. CASE v = w
    BY <2>1 DEF PassStep
  <2>2. CASE v # w
    <3>1. passes'[v] = passes[v] /\ Serves(passes[v]) /\ Sees(passes[v])
      BY <1>1, <2>2 DEF PassStep, IInv, Served, Seen
    <3>2. \A r \in Rows : payments[r] = "PAID" => payments'[r] = "PAID"
      BY DEF Moves, TERMINAL_STATES
    <3> QED
      BY <1>1, <3>1, <3>2 DEF Serves, Sees
  <2> QED
    BY <2>1, <2>2
<1>7. Served' /\ Seen'
  BY <1>1, <1>6 DEF Served, Seen, PassStep
<1> QED
  BY <1>3, <1>4, <1>5, <1>7 DEF IInv

\* A step that leaves payments, findings and marks alone.
LEMMA QuietKeeps ==
  ASSUME IInv, NEW w \in Workers, PassStep(w), UNCHANGED <<payments, findings, marks>>
  PROVE  IInv'
<1>1. log' = log
  BY DEF PassStep, logVars
<1>2. Moves
  BY DEF IInv, Typed, Telling, Moves
<1>3. Shown' /\ NoFalseAlarm'
  BY <1>1 DEF IInv, Shown, Shows, NoFalseAlarm
<1> QED
  BY <1>2, <1>3, PassKeeps DEF IInv, Typed

\* The event a pass is at.
LEMMA AtIs ==
  ASSUME IInv, NEW w \in Workers, passes[w].todo # <<>>
  PROVE  /\ passes[w].todo \in Seq(1 .. MaxEvents) /\ At(w) = passes[w].todo[1]
         /\ At(w) \in DOMAIN log /\ log[At(w)] \in Event
         /\ Past(w) \in Nat /\ Past(w) < ledger
<1>1. /\ passes[w].todo \in Seq(1 .. MaxEvents) /\ Serves(passes[w])
      /\ passes[w].committed \in Nat
  BY DEF IInv, Typed, Pass, Served
<1>2. At(w) = passes[w].todo[1] /\ 1 \in DOMAIN passes[w].todo
  BY <1>1, EmptySeq, LenProperties DEF At
<1>3. At(w) \in DOMAIN log /\ (passes[w].stage = "page" => log[At(w)].ledger < ledger)
  BY <1>1, <1>2 DEF Serves
<1>4. log[At(w)] \in Event
  BY <1>3, LenProperties, ElementOfSeq DEF IInv, Typed
<1>5. Past(w) \in Nat /\ Past(w) < ledger
  BY <1>1, <1>3, <1>4 DEF Past, Serves, Event
<1> QED
  BY <1>1, <1>2, <1>3, <1>4, <1>5

LEMMA OnwardIs ==
  ASSUME IInv, NEW w \in Workers, passes[w].todo # <<>>, UNCHANGED logVars,
         NEW n \in Nat, n < ledger, Onward(w, n)
  PROVE  /\ passes' = [passes EXCEPT ![w] = passes'[w]]
         /\ passes'[w] \in Pass /\ Serves(passes[w])' /\ Sees(passes[w])'
<1> DEFINE todo == passes[w].todo
<1>1. /\ passes \in [Workers -> Pass] /\ passes[w] \in Pass /\ Serves(passes[w])
      /\ todo \in Seq(1 .. MaxEvents) /\ log' = log /\ ledger' = ledger
  BY DEF IInv, Typed, Pass, Served, logVars
<1>2. /\ passes'[w] = [passes[w] EXCEPT !.todo = Tail(todo), !.seen = NotRead, !.committed = n]
      /\ passes' = [passes EXCEPT ![w] = passes'[w]]
  BY <1>1 DEF Onward
<1>3. /\ Tail(todo) \in Seq(1 .. MaxEvents)
      /\ \A k \in DOMAIN Tail(todo) : k + 1 \in DOMAIN todo /\ Tail(todo)[k] = todo[k + 1]
  <2>1. /\ Tail(todo) \in Seq(1 .. MaxEvents) /\ Len(Tail(todo)) = Len(todo) - 1
        /\ \A k \in 1 .. Len(Tail(todo)) : Tail(todo)[k] = todo[k + 1]
    BY <1>1, HeadTailProperties
  <2>2. /\ DOMAIN Tail(todo) = 1 .. Len(Tail(todo)) /\ DOMAIN todo = 1 .. Len(todo)
        /\ Len(todo) \in Nat /\ Len(Tail(todo)) \in Nat
    BY <1>1, <2>1, LenProperties
  <2>3. \A k \in 1 .. Len(Tail(todo)) : k + 1 \in 1 .. Len(todo)
    BY <2>1, <2>2
  <2> QED
    BY <2>1, <2>2, <2>3
<1>4. /\ passes'[w] \in Pass /\ passes'[w].todo = Tail(todo) /\ passes'[w].seen = NotRead
      /\ passes'[w].committed = n /\ passes'[w].stage = passes[w].stage
  BY <1>1, <1>2, <1>3 DEF Pass
<1>5. Serves(passes[w])'
  <2>1. \A k \in DOMAIN Tail(todo) :
          /\ Tail(todo)[k] \in DOMAIN log
          /\ passes[w].stage = "page" => log[Tail(todo)[k]].ledger < ledger
    BY <1>1, <1>3 DEF Serves
  <2> QED
    BY <1>1, <1>4, <2>1 DEF Serves
<1>6. Sees(passes[w])'
  BY <1>4 DEF Sees, NotRead
<1> QED
  BY <1>2, <1>4, <1>5, <1>6

\* A pass that starts a list, or is over.
LEMMA StartsIs ==
  ASSUME IInv, NEW w \in Workers, UNCHANGED logVars,
         NEW stage \in {"idle", "page", "backlog"}, NEW todo \in Seq(1 .. MaxEvents),
         \A k \in DOMAIN todo : todo[k] \in DOMAIN log /\ (stage = "page" => log[todo[k]].ledger < ledger),
         passes' = [passes EXCEPT ![w] =
           [stage |-> stage, todo |-> todo, committed |-> 0, seen |-> NotRead]]
  PROVE  /\ passes' = [passes EXCEPT ![w] = passes'[w]]
         /\ passes'[w] \in Pass /\ Serves(passes[w])' /\ Sees(passes[w])'
<1>1. /\ passes \in [Workers -> Pass] /\ log' = log /\ ledger' = ledger
      /\ ledger \in Nat /\ cursor \in Nat /\ cursor < ledger
  BY DEF IInv, Typed, Served, logVars
<1>2. /\ passes'[w] = [stage |-> stage, todo |-> todo, committed |-> 0, seen |-> NotRead]
      /\ passes' = [passes EXCEPT ![w] = passes'[w]]
  BY <1>1
<1>3. passes'[w] \in Pass
  BY <1>2 DEF Pass
<1>4. Serves(passes[w])'
  <2>1. passes'[w].todo = todo /\ passes'[w].stage = stage /\ passes'[w].committed = 0
    BY <1>2
  <2>2. 0 < ledger
    BY <1>1
  <2> QED
    BY <1>1, <2>1, <2>2 DEF Serves
<1>5. Sees(passes[w])'
  <2>1. passes'[w].seen = NotRead
    BY <1>2
  <2>2. NotRead # "PAID"
    BY DEF NotRead
  <2> QED
    BY <2>1, <2>2 DEF Sees
<1> QED
  BY <1>2, <1>3, <1>4, <1>5

LEMMA IdleIs ==
  ASSUME IInv, NEW w \in Workers, UNCHANGED logVars, passes' = [passes EXCEPT ![w] = Idle]
  PROVE  /\ passes' = [passes EXCEPT ![w] = passes'[w]]
         /\ passes'[w] \in Pass /\ Serves(passes[w])' /\ Sees(passes[w])'
<1>1. <<>> \in Seq(1 .. MaxEvents) /\ \A k \in DOMAIN <<>> : FALSE
  OBVIOUS
<1>2. passes' = [passes EXCEPT ![w] =
        [stage |-> "idle", todo |-> <<>>, committed |-> 0, seen |-> NotRead]]
  BY DEF Idle
<1> DEFINE none == <<>>
<1>3. none \in Seq(1 .. MaxEvents) /\ \A k \in DOMAIN none : FALSE
  BY <1>1
<1>4. passes' = [passes EXCEPT ![w] =
        [stage |-> "idle", todo |-> none, committed |-> 0, seen |-> NotRead]]
  BY <1>2
<1> HIDE DEF none
<1> QED
  BY <1>3, <1>4, StartsIs

LEMMA CursorIs ==
  ASSUME IInv, NEW n \in Nat, n < ledger, SetCursor(n)
  PROVE  cursor' \in Nat /\ cursor' < ledger
BY DEF SetCursor, IInv, Typed, Served

LEMMA FetchKeeps ==
  ASSUME IInv, NEW w \in Workers, Fetch(w), UNCHANGED <<logVars, appVars>>
  PROVE  IInv'
<1>1. UNCHANGED <<claimed, flags, payments, findings, marks, cursor>>
  BY DEF Fetch, dbVars
<1>2. Page \in Seq(1 .. MaxEvents) /\ \A k \in DOMAIN Page : Page[k] \in Ahead
  BY PageIs DEF IInv
<1>3. \A i \in Ahead : i \in DOMAIN log /\ log[i].ledger < ledger
  BY DEF Ahead
<1>4. passes' = [passes EXCEPT ![w] =
        [stage |-> "page", todo |-> Page, committed |-> 0, seen |-> NotRead]]
  BY DEF Fetch
<1>5. PassStep(w)
  BY <1>1, <1>2, <1>3, <1>4, StartsIs DEF PassStep, IInv, Typed, Served
<1> QED
  BY <1>1, <1>5, QuietKeeps

LEMMA SkipKeeps ==
  ASSUME IInv, NEW w \in Workers, Skip(w) \/ ApplyDuplicate(w), UNCHANGED <<logVars, appVars>>
  PROVE  IInv'
<1>1. /\ UNCHANGED <<claimed, flags, payments, findings, marks, cursor>>
      /\ passes[w].todo # <<>> /\ Onward(w, Past(w))
  BY DEF Skip, Reading, ApplyDuplicate, Applying, dbVars
<1>2. Past(w) \in Nat /\ Past(w) < ledger
  BY <1>1, AtIs
<1>3. PassStep(w)
  BY <1>1, <1>2, OnwardIs DEF PassStep, IInv, Typed, Served
<1> QED
  BY <1>1, <1>3, QuietKeeps

LEMMA ReadKeeps ==
  ASSUME IInv, NEW w \in Workers, Read(w), UNCHANGED <<logVars, appVars>>
  PROVE  IInv'
<1> DEFINE row == log[At(w)].row
           seen == IF ~claimed THEN Unattributed ELSE IF row = NoRow THEN NoPayment ELSE payments[row]
<1>1. /\ UNCHANGED <<claimed, flags, payments, findings, marks, cursor>>
      /\ passes[w].todo # <<>> /\ passes' = [passes EXCEPT ![w].seen = seen]
      /\ log' = log /\ ledger' = ledger
  BY DEF Read, Reading, dbVars, logVars
<1>2. /\ passes \in [Workers -> Pass] /\ passes[w] \in Pass /\ Serves(passes[w])
      /\ payments \in [Rows -> RowState]
  BY DEF IInv, Typed, Served
<1>3. row \in Rows \union {NoRow}
  BY <1>1, AtIs DEF Event
<1>4. /\ seen \in RowState \union {NotRead, Unattributed}
      /\ seen = "PAID" => row \in Rows /\ payments[row] = "PAID"
  BY <1>2, <1>3 DEF RowState, NoPayment, Unattributed
<1> HIDE DEF seen
<1>5. /\ passes'[w] = [passes[w] EXCEPT !.seen = seen]
      /\ passes' = [passes EXCEPT ![w] = passes'[w]]
  BY <1>1, <1>2
<1>6. /\ passes'[w] \in Pass /\ passes'[w].todo = passes[w].todo /\ passes'[w].seen = seen
      /\ passes'[w].stage = passes[w].stage /\ passes'[w].committed = passes[w].committed
  BY <1>2, <1>4, <1>5 DEF Pass
<1>7. Serves(passes[w])'
  BY <1>1, <1>2, <1>6 DEF Serves
<1>8. Sees(passes[w])'
  BY <1>1, <1>4, <1>6 DEF Sees, At
<1>9. PassStep(w)
  BY <1>1, <1>5, <1>6, <1>7, <1>8 DEF PassStep, IInv, Typed, Served
<1> QED
  BY <1>1, <1>9, QuietKeeps

LEMMA FailKeeps ==
  ASSUME IInv, NEW w \in Workers, Fail(w), UNCHANGED <<logVars, appVars>>
  PROVE  IInv'
<1>1. UNCHANGED <<claimed, flags, payments, findings, marks>> /\ passes[w].todo # <<>>
  BY DEF Fail, Applying
<1>2. passes[w].committed \in Nat /\ passes[w].committed < ledger
  BY DEF IInv, Typed, Pass, Served, Serves
<1>3. 0 \in Nat /\ 0 < ledger
  BY DEF IInv, Typed, Served
<1>4. CASE SetCursor(passes[w].committed) /\ passes' = [passes EXCEPT ![w] = Idle]
  <2>1. PassStep(w)
    BY <1>1, <1>2, <1>4, CursorIs, IdleIs DEF PassStep, IInv, Typed
  <2> QED
    BY <1>1, <2>1, QuietKeeps
<1>5. CASE Onward(w, 0) /\ UNCHANGED cursor
  <2>1. PassStep(w)
    BY <1>1, <1>3, <1>5, OnwardIs DEF PassStep, IInv, Typed, Served
  <2> QED
    BY <1>1, <2>1, QuietKeeps
<1> QED
  BY <1>4, <1>5 DEF Fail

LEMMA EndsKeeps ==
  ASSUME IInv, NEW w \in Workers, Crash(w) \/ EndPass(w), UNCHANGED <<logVars, appVars>>
  PROVE  IInv'
<1>1. /\ UNCHANGED <<claimed, flags, payments, findings, marks, cursor>>
      /\ passes' = [passes EXCEPT ![w] = Idle]
  BY DEF Crash, EndPass, dbVars
<1>2. PassStep(w)
  BY <1>1, IdleIs DEF PassStep, IInv, Typed, Served
<1> QED
  BY <1>1, <1>2, QuietKeeps

LEMMA EndPageKeeps ==
  ASSUME IInv, NEW w \in Workers, EndPage(w), UNCHANGED <<logVars, appVars>>
  PROVE  IInv'
<1> DEFINE backlog == {i \in DOMAIN log : marks[i] = "unattributed"}
<1>1. UNCHANGED <<claimed, flags, payments, findings, marks>>
  BY DEF EndPage
<1>2. passes[w].committed \in Nat /\ passes[w].committed < ledger
  BY DEF IInv, Typed, Pass, Served, Serves
<1>3. Oldest(backlog) \in Seq(1 .. MaxEvents) /\ \A k \in DOMAIN Oldest(backlog) : Oldest(backlog)[k] \in DOMAIN log
  BY ListIs DEF IInv
<1>4. SetCursor(passes[w].committed) /\ passes' = [passes EXCEPT ![w] =
        [stage |-> "backlog", todo |-> Oldest(backlog), committed |-> 0, seen |-> NotRead]]
  BY DEF EndPage
<1> HIDE DEF backlog
<1>5. PassStep(w)
  BY <1>1, <1>2, <1>3, <1>4, CursorIs, StartsIs DEF PassStep, IInv, Typed
<1> QED
  BY <1>1, <1>5, QuietKeeps

LEMMA FlagsAre ==
  ASSUME NEW ev
  PROVE  FlagsSet(ev) \subseteq Flag
<1>1. FlagsSet(ev) \in {{"manager"}, {"finance"}, {"cancelled"}, {}}
  BY Zenon DEF FlagsSet
<1> HIDE DEF FlagsSet
<1> QED
  BY <1>1 DEF Flag

\* What was shown stays shown.
LEMMA StillShown ==
  ASSUME IInv, Moves, UNCHANGED log, findings \subseteq findings',
         NEW i \in DOMAIN log, log[i].row \in Rows, Shows(i)
  PROVE  Shows(i)'
<1>1. payments[log[i].row] = "PAID" => payments'[log[i].row] = "PAID"
  BY DEF Moves, TERMINAL_STATES
<1> QED
  BY <1>1 DEF Shows

LEMMA ApplyAttributed ==
  ASSUME IInv, NEW w \in Workers, Apply(w), UNCHANGED logVars, passes[w].seen # Unattributed
  PROVE  /\ Moves /\ flags' \subseteq Flag /\ findings \subseteq findings'
         /\ findings' \subseteq FindingKind \X (Rows \union {NoRow}) /\ NoFalseAlarm'
         /\ Shown'
<1>0. PICK i : i = At(w)
  OBVIOUS
<1>1. PICK ev : ev = log[i]
  OBVIOUS
<1>2. PICK seen : seen = passes[w].seen
  OBVIOUS
<1>3. /\ passes[w].todo # <<>> /\ i \in DOMAIN log /\ ev \in Event /\ log' = log
  BY <1>0, <1>1, AtIs DEF Apply, Applying, logVars
<1>4. /\ ApplyEvent(ev, seen) /\ marks' = [marks EXCEPT ![i] = "applied"]
      /\ ~(ev.kind = "payment_added" /\ seen = NoPayment /\ payments[ev.row] # NoPayment)
  BY <1>0, <1>1, <1>2 DEF Apply, Duplicate, Marked
<1>5. /\ payments' = Projected(payments, ev, seen)
      /\ findings' = findings \union FindingsOpened(ev, seen)
      /\ flags' = flags \union FlagsSet(ev)
  BY <1>2, <1>4 DEF ApplyEvent
<1>6. seen = "PAID" => ev.row \in Rows /\ payments[ev.row] = "PAID"
  BY <1>0, <1>1, <1>2, <1>3 DEF IInv, Seen, Sees, At
<1>7. Moves
  BY <1>1, <1>3, <1>4, <1>5, AppliedMoves
<1>8. flags' \subseteq Flag
  BY <1>5, FlagsAre DEF IInv, Typed
<1>9. findings \subseteq findings' /\ findings' \subseteq FindingKind \X (Rows \union {NoRow})
  <2>1. FindingsOpened(ev, seen) \subseteq FindingKind \X {ev.row, NoRow}
    BY OpenedIs
  <2>2. ev.row \in Rows \union {NoRow}
    BY <1>3 DEF Event
  <2> QED
    BY <1>5, <2>1, <2>2 DEF IInv, Typed
<1>10. NoFalseAlarm'
  <2> SUFFICES ASSUME NEW r \in Rows, <<"DB_PAID_CHAIN_NOT", r>> \in FindingsOpened(ev, seen)
               PROVE  FALSE
    BY <1>5 DEF IInv, NoFalseAlarm
  <2>1. ev.kind = "payment_cancelled" /\ seen = "PAID" /\ ev.row = r
    BY OpenedIs
  <2>2. Refunded(r)
    BY <1>1, <1>3, <2>1 DEF Refunded, LoggedFor
  <2>3. Settled(r)
    BY <1>6, <2>1 DEF IInv, Telling, Says
  <2> QED
    BY <2>2, <2>3 DEF IInv, LogSound
<1>11. Shown'
  <2>1. ASSUME NEW j \in DOMAIN log, log[j].kind = "payment_paid", log[j].row \in Rows,
               marks'[j] = "applied"
        PROVE  Shows(j)'
    <3>1. CASE j = i
      <4>1. /\ payments \in [Rows -> RowState] /\ ev.kind = "payment_paid" /\ ev.row \in Rows
            /\ seen # Unattributed /\ ev = log[j]
        BY <1>1, <1>2, <2>1, <3>1 DEF IInv, Typed
      <4>2. \/ payments'[ev.row] = "PAID"
            \/ \E kind \in {"CHAIN_PAID_DB_NOT", "ORPHAN_ON_CHAIN"} : <<kind, ev.row>> \in findings'
        BY <1>4, <1>6, <4>1, PaidShows
      <4> QED
        BY <1>3, <4>1, <4>2 DEF Shows
    <3>2. CASE j # i
      <4>1. marks[j] = "applied"
        BY <1>4, <2>1, <3>2 DEF IInv, Typed
      <4> QED
        BY <1>3, <1>7, <1>9, <2>1, <4>1, StillShown DEF IInv, Shown
    <3> QED
      BY <3>1, <3>2
  <2>2. \A j \in 1 .. MaxEvents : j \notin DOMAIN log => marks'[j] = "unseen"
    BY <1>3, <1>4 DEF IInv, Typed, Shown
  <2> QED
    BY <1>3, <2>1, <2>2 DEF Shown
<1> QED
  BY <1>7, <1>8, <1>9, <1>10, <1>11

LEMMA ApplyKeeps ==
  ASSUME IInv, NEW w \in Workers, Apply(w), UNCHANGED <<logVars, appVars>>
  PROVE  IInv'
<1>1. /\ UNCHANGED <<claimed, cursor>> /\ passes[w].todo # <<>> /\ Onward(w, Past(w))
      /\ log' = log /\ UNCHANGED logVars
  BY DEF Apply, Applying, logVars
<1>2. At(w) \in DOMAIN log /\ Past(w) \in Nat /\ Past(w) < ledger
  BY <1>1, AtIs
<1>3. marks' \in [1 .. MaxEvents -> {"unseen", "unattributed", "applied"}]
  BY DEF Apply, Marked, IInv, Typed
<1>4. flags' \subseteq Flag => PassStep(w)
  BY <1>1, <1>2, OnwardIs DEF PassStep, IInv, Typed, Served
<1>5. CASE passes[w].seen = Unattributed
  <2>1. UNCHANGED <<payments, findings, flags>>
    BY <1>5 DEF Apply, ApplyEvent
  <2>2. Moves /\ NoFalseAlarm'
    BY <2>1 DEF IInv, Typed, Telling, Moves, NoFalseAlarm
  <2>3. marks' = [marks EXCEPT ![At(w)] = "unattributed"]
    BY <1>5 DEF Apply, Marked
  <2>4. PICK i : i = At(w)
    OBVIOUS
  <2>5. \A j \in 1 .. MaxEvents : marks'[j] = IF j = i THEN "unattributed" ELSE marks[j]
    BY <2>3, <2>4 DEF IInv, Typed
  <2>6. DOMAIN log \subseteq 1 .. MaxEvents /\ i \in DOMAIN log
    BY <1>2, <2>4, PositionsAre DEF IInv
  <2>7. \A j \in DOMAIN log : Shows(j)' = Shows(j)
    BY <1>1, <2>1 DEF Shows
  <2>8. Shown'
    BY <1>1, <2>5, <2>6, <2>7 DEF IInv, Shown
  <2> QED
    BY <1>3, <1>4, <2>1, <2>2, <2>8, PassKeeps DEF IInv, Typed
<1>6. CASE passes[w].seen # Unattributed
  BY <1>1, <1>3, <1>4, <1>6, ApplyAttributed, PassKeeps
<1> QED
  BY <1>5, <1>6

------------------------------------------------------------------------------
\* Users, and the reconciliation.

\* A step that leaves the log, the passes and what they marked.
LEMMA AppKeeps ==
  ASSUME IInv, UNCHANGED <<logVars, marks, cursor, passes>>,
         claimed' \in BOOLEAN, flags' \subseteq Flag, Moves,
         findings \subseteq findings', findings' \subseteq FindingKind \X (Rows \union {NoRow}),
         NoFalseAlarm',
         request' = NoRequest \/ request' \in Requests, Asking', audit' \in Audit, Auditing'
  PROVE  IInv'
<1>1. log' = log /\ ledger' = ledger /\ room' = room
  BY DEF logVars
<1>2. Typed'
  BY <1>1 DEF IInv, Typed, Moves
<1>3. LogSound'
  BY <1>1 DEF IInv, LogSound, Logged, Settled, Refunded, LoggedFor
<1>4. Telling'
  BY <1>1 DEF Moves, Telling, Says, Settled, LoggedFor, Logged
<1>5. Served'
  BY <1>1 DEF IInv, Served, Serves
<1>6. Seen'
  <2>1. \A r \in Rows : payments[r] = "PAID" => payments'[r] = "PAID"
    BY DEF Moves, TERMINAL_STATES
  <2> QED
    BY <1>1, <2>1 DEF IInv, Seen, Sees
<1>7. Shown'
  BY <1>1, StillShown DEF IInv, Shown
<1> QED
  BY <1>2, <1>3, <1>4, <1>5, <1>6, <1>7 DEF IInv

\* Payments that stay may stay.
LEMMA Resting ==
  ASSUME IInv, UNCHANGED payments
  PROVE  Moves
BY DEF IInv, Typed, Telling, Moves

LEMMA ClaimKeeps ==
  ASSUME IInv, Claim, UNCHANGED <<logVars, appVars>>
  PROVE  IInv'
<1>1. /\ UNCHANGED <<payments, findings, marks, cursor, passes, request, audit>> /\ log' = log
      /\ claimed' = TRUE
  BY DEF Claim, appVars, logVars
<1>2. flags' \subseteq Flag
  BY DEF Claim
<1>3. NoFalseAlarm' /\ Asking' /\ Auditing'
  BY <1>1 DEF IInv, NoFalseAlarm, Asking, Auditing, Settled, LoggedFor, Logged
<1> QED
  BY <1>1, <1>2, <1>3, Resting, AppKeeps DEF IInv, Typed

LEMMA RequestKeeps ==
  ASSUME IInv, NEW r \in Rows, NEW to \in Wanted, NEW role \in Roles, Request(r, to, role)
  PROVE  IInv'
<1>1. /\ UNCHANGED <<logVars, claimed, flags, payments, findings, marks, cursor, passes, audit>>
      /\ request' = [row |-> r, was |-> payments[r], to |-> to, role |-> role]
      /\ payments[r] # NoPayment /\ log' = log
  BY DEF Request, indexerVars, dbVars, logVars
<1>2. payments[r] \in PaymentState
  BY <1>1 DEF IInv, Typed, RowState
<1>3. request' \in Requests /\ request'.to = to
  BY <1>1, <1>2 DEF Requests, Wanted, PaymentState
<1>4. NoFalseAlarm' /\ Asking' /\ Auditing'
  BY <1>1, <1>3 DEF IInv, NoFalseAlarm, Asking, Auditing, Settled, LoggedFor, Logged
<1> QED
  BY <1>1, <1>3, <1>4, Resting, AppKeeps DEF IInv, Typed

\* Users offer for settlement only what failed to be submitted, and submit only
\* what is offered.
LEMMA UsersMay ==
  ASSUME NEW from, NEW to, NEW role, Permitted(from, to, User(role))
  PROVE  /\ to = "SUBMITTING" => from = "READY_TO_SETTLE"
         /\ to = "READY_TO_SETTLE" => from = "SUBMISSION_FAILED"
<1>1. PICK t \in TRANSITIONS : t.from = from /\ t.to = to /\ "user" \in t.actors
  BY DEF Permitted, CheckTransition, User
<1>2. CASE to = "SUBMITTING"
  BY <1>1, <1>2 DEF TRANSITIONS, Recovery, By, ByUser, Observed, ByMachine, CHAIN_OBSERVERS
<1>3. CASE to = "READY_TO_SETTLE"
  BY <1>1, <1>3 DEF TRANSITIONS, Recovery, By, ByUser, Observed, ByMachine, CHAIN_OBSERVERS
<1> QED
  BY <1>2, <1>3

LEMMA SwapRequestMoves ==
  ASSUME IInv, Swap
  PROVE  Moves
<1> DEFINE r == request.row
           to == request.to
           done == Swapped(request.was, to, User(request.role), payments[r])
<1>1. r \in Rows /\ to \in Wanted /\ to \in PaymentState
  BY DEF IInv, Typed, Asking, Swap, Requests
<1>2. payments' = IF done THEN [payments EXCEPT ![r] = to] ELSE payments
  BY DEF Swap
<1>3. ASSUME done
      PROVE  Says(to, r)
  <2>1. Permitted(payments[r], to, User(request.role)) /\ Says(payments[r], r)
    BY <1>1, <1>3, SwappedIs DEF IInv, Telling
  <2>2. CASE to \in {"REJECTED", "CANCELLED"}
    BY <2>2, Awaits
  <2>3. CASE to = "SUBMITTING"
    BY <2>1, <2>3, UsersMay DEF Says, HasProof, ManagerDone, BothDone
  <2>4. CASE to = "READY_TO_SETTLE"
    BY <2>1, <2>4, UsersMay DEF Says
  <2> QED
    BY <1>1, <2>2, <2>3, <2>4 DEF Wanted
<1>4. CASE done
  BY <1>1, <1>2, <1>3, <1>4, SwapMoves DEF RowState
<1>5. CASE ~done
  BY <1>2, <1>5, Resting
<1> QED
  BY <1>4, <1>5

LEMMA SwapKeeps ==
  ASSUME IInv, Swap
  PROVE  IInv'
<1>1. /\ UNCHANGED <<logVars, claimed, flags, findings, marks, cursor, passes, audit>>
      /\ request' = NoRequest /\ log' = log
  BY DEF Swap, logVars
<1>2. NoFalseAlarm' /\ Asking' /\ Auditing'
  BY <1>1 DEF IInv, NoFalseAlarm, Asking, Auditing, Settled, LoggedFor, Logged
<1> QED
  BY <1>1, <1>2, SwapRequestMoves, AppKeeps DEF IInv, Typed

\* A step of the reconciliation that moves no payment.
LEMMA AuditKeeps ==
  ASSUME IInv, UNCHANGED <<logVars, claimed, flags, payments, marks, cursor, passes, request>>,
         findings \subseteq findings', findings' \subseteq FindingKind \X (Rows \union {NoRow}),
         NoFalseAlarm', audit' \in Audit, Auditing'
  PROVE  IInv'
<1>1. Asking'
  BY DEF IInv, Asking
<1> QED
  BY <1>1, Resting, AppKeeps DEF IInv, Typed

LEMMA ReadRowsKeeps ==
  ASSUME IInv, ReadRows
  PROVE  IInv'
<1>1. /\ UNCHANGED <<logVars, claimed, flags, payments, findings, marks, cursor, passes, request>>
      /\ log' = log
      /\ audit' = [left |-> Rows, rows |-> payments, chain |-> "unread", at |-> NoRow, was |-> NoPayment]
  BY DEF ReadRows, indexerVars, dbVars, logVars, Comparing, NoAudit
<1>2. audit' \in Audit
  BY <1>1 DEF Audit, View, RowState, IInv, Typed
<1>3. Auditing'
  BY <1>1 DEF IInv, Telling, Says, Auditing, Settled, LoggedFor
<1>4. NoFalseAlarm'
  BY <1>1 DEF IInv, NoFalseAlarm
<1> QED
  BY <1>1, <1>2, <1>3, <1>4, AuditKeeps DEF IInv, Typed

\* The reconciliation that is under way.
LEMMA UnderWay ==
  ASSUME IInv, audit # NoAudit \/ audit.chain # "unread" \/ audit.at # NoRow
  PROVE  /\ audit # NoAudit
         /\ audit \in [left : SUBSET Rows, rows : [Rows -> RowState], chain : View,
                       at : Rows \union {NoRow}, was : RowState]
<1>1. audit # NoAudit
  BY DEF NoAudit
<1> QED
  BY <1>1 DEF IInv, Typed, Audit

LEMMA NoAuditIs ==
  ASSUME audit' = NoAudit
  PROVE  audit' \in Audit /\ Auditing'
BY DEF Audit, Auditing

LEMMA ReadChainKeeps ==
  ASSUME IInv, ReadChain
  PROVE  IInv'
<1>1. /\ UNCHANGED <<logVars, claimed, flags, payments, marks, cursor, passes, request>>
      /\ log' = log /\ audit # NoAudit /\ audit.chain = "unread"
  BY DEF ReadChain, logVars
<1>2. CASE audit' = [audit EXCEPT !.chain = ChainView] /\ UNCHANGED findings
  <2>1. /\ ChainView \in View
        /\ (ChainView = "settled" <=> Logged("finalized"))
    BY DEF ChainView, ReadEscrow, View
  <2> HIDE DEF ChainView
  <2>2. audit' \in Audit /\ audit'.rows = audit.rows /\ audit'.chain = ChainView
    BY <1>1, <1>2, <2>1, UnderWay DEF Audit
  <2>3. Auditing'
    <3>1. \A r \in Rows : audit.rows[r] = "PAID" => Settled(r) /\ Logged("finalized")
      BY <1>1 DEF IInv, Auditing, LogSound
    <3> QED
      BY <1>1, <2>1, <2>2, <3>1 DEF Auditing, Settled, LoggedFor, Logged
  <2>4. NoFalseAlarm'
    BY <1>2 DEF IInv, NoFalseAlarm
  <2> QED
    BY <1>1, <1>2, <2>2, <2>3, <2>4, AuditKeeps DEF IInv, Typed
<1>3. CASE audit' = NoAudit /\ findings' = findings \union {<<"CHAIN_UNREADABLE", NoRow>>}
  <2>1. NoFalseAlarm'
    BY <1>3 DEF IInv, NoFalseAlarm
  <2>2. findings \subseteq findings' /\ findings' \subseteq FindingKind \X (Rows \union {NoRow})
    BY <1>3 DEF IInv, Typed, FindingKind
  <2> QED
    BY <1>1, <1>3, <2>1, <2>2, NoAuditIs, AuditKeeps
<1> QED
  BY <1>2, <1>3 DEF ReadChain

\* A row is done with.
LEMMA ComparedIs ==
  ASSUME IInv, audit # NoAudit, NEW r \in Rows, Compared(r), UNCHANGED log
  PROVE  audit' \in Audit /\ Auditing'
<1>1. CASE audit' = NoAudit
  BY <1>1, NoAuditIs
<1>2. CASE audit' = [audit EXCEPT !.left = audit.left \ {r}, !.at = NoRow, !.was = NoPayment]
  <2>1. /\ audit' \in [left : SUBSET Rows, rows : [Rows -> RowState], chain : View,
                       at : Rows \union {NoRow}, was : RowState]
        /\ audit'.rows = audit.rows /\ audit'.chain = audit.chain
    BY <1>2, UnderWay DEF RowState
  <2>2. Auditing'
    BY <2>1 DEF IInv, Auditing, Settled, LoggedFor, Logged
  <2> QED
    BY <2>1, <2>2 DEF Audit
<1> QED
  BY <1>1, <1>2 DEF Compared

LEMMA CompareKeeps ==
  ASSUME IInv, NEW r \in Rows, Compare(r)
  PROVE  IInv'
<1>1. /\ UNCHANGED <<logVars, claimed, flags, payments, marks, cursor, passes, request>>
      /\ log' = log /\ audit.chain # "unread" /\ Compared(r)
  BY DEF Compare, logVars
<1>2. audit # NoAudit
  BY <1>1, UnderWay
<1>3. audit' \in Audit /\ Auditing'
  BY <1>1, <1>2, ComparedIs
<1>4. \/ findings' = findings \/ findings' = findings \union {<<"ORPHAN_ON_CHAIN", r>>}
      \/ /\ findings' = findings \union {<<"DB_PAID_CHAIN_NOT", r>>}
         /\ Row(r) = "PAID" /\ audit.chain # "settled"
  BY DEF Compare
<1>5. ~(Row(r) = "PAID" /\ audit.chain # "settled")
  BY <1>1, <1>2 DEF IInv, Auditing, Row
<1>6. findings' = findings \/ findings' = findings \union {<<"ORPHAN_ON_CHAIN", r>>}
  BY <1>4, <1>5
<1>7. NoFalseAlarm'
  <2>1. \A q \in Rows : <<"DB_PAID_CHAIN_NOT", q>> # <<"ORPHAN_ON_CHAIN", r>>
    OBVIOUS
  <2> QED
    BY <1>6, <2>1 DEF IInv, NoFalseAlarm
<1>8. findings \subseteq findings' /\ findings' \subseteq FindingKind \X (Rows \union {NoRow})
  BY <1>6 DEF IInv, Typed, FindingKind
<1> QED
  BY <1>1, <1>3, <1>7, <1>8, AuditKeeps

LEMMA UnconfirmedKeeps ==
  ASSUME IInv, NEW r \in Rows, Unconfirmed(r)
  PROVE  IInv'
<1>1. /\ UNCHANGED <<logVars, claimed, flags, payments, marks, cursor, passes, request>>
      /\ log' = log /\ audit.chain # "unread" /\ Compared(r)
      /\ findings' = findings \union {<<"CHAIN_UNREADABLE", r>>}
  BY DEF Unconfirmed, logVars
<1>2. audit' \in Audit /\ Auditing'
  BY <1>1, UnderWay, ComparedIs
<1>3. NoFalseAlarm'
  BY <1>1 DEF IInv, NoFalseAlarm
<1>4. findings \subseteq findings' /\ findings' \subseteq FindingKind \X (Rows \union {NoRow})
  BY <1>1 DEF IInv, Typed, FindingKind
<1> QED
  BY <1>1, <1>2, <1>3, <1>4, AuditKeeps

LEMMA ConsultKeeps ==
  ASSUME IInv, NEW r \in Rows, Consult(r)
  PROVE  IInv'
<1>1. /\ UNCHANGED <<logVars, claimed, flags, payments, findings, marks, cursor, passes, request>>
      /\ log' = log /\ audit.chain # "unread"
      /\ audit' = [audit EXCEPT !.at = r, !.was = payments[r]]
  BY DEF Consult, indexerVars, dbVars, logVars
<1>2. /\ audit' \in Audit /\ audit'.rows = audit.rows /\ audit'.chain = audit.chain
  <2>1. audit \in [left : SUBSET Rows, rows : [Rows -> RowState], chain : View,
                  at : Rows \union {NoRow}, was : RowState]
    BY <1>1, UnderWay
  <2>2. payments[r] \in RowState
    BY DEF IInv, Typed
  <2> QED
    BY <1>1, <2>1, <2>2 DEF Audit
<1>3. Auditing'
  BY <1>1, <1>2, UnderWay DEF IInv, Auditing, Settled, LoggedFor, Logged
<1>4. NoFalseAlarm'
  BY <1>1 DEF IInv, NoFalseAlarm
<1> QED
  BY <1>1, <1>2, <1>3, <1>4, AuditKeeps DEF IInv, Typed

\* A correction under way has its row, and its target is what the contract says.
LEMMA Correcting ==
  ASSUME IInv, Correct
  PROVE  Moves /\ audit # NoAudit /\ audit.at \in Rows
<1> DEFINE r == audit.at
           done == Swapped(audit.was, Target, Reconciler, payments[r])
<1>1. audit # NoAudit /\ r \in Rows
  BY UnderWay DEF Correct
<1>2. payments' = IF done THEN [payments EXCEPT ![r] = Target] ELSE payments
  BY DEF Correct
<1>3. Says(Target, r) /\ Target \in RowState
  <2>1. CASE audit.chain = "settled"
    <3>1. Target = "PAID" /\ Settled(r)
      BY <1>1, <2>1 DEF Target, IInv, Auditing, LogSound
    <3> QED
      BY <3>1, Awaits DEF Says, HasProof, ManagerDone, BothDone
  <2>2. CASE audit.chain # "settled"
    <3>1. Target = "CANCELLED"
      BY <2>2 DEF Target
    <3> QED
      BY <3>1, Awaits
  <2> QED
    BY <2>1, <2>2
<1>4. ASSUME done
      PROVE  Moves
  BY <1>2, <1>3, <1>4, SwapMoves
<1>5. ASSUME ~done
      PROVE  Moves
  BY <1>2, <1>5, Resting
<1> QED
  BY <1>1, <1>4, <1>5

LEMMA CorrectKeeps ==
  ASSUME IInv, Correct
  PROVE  IInv'
<1>1. /\ UNCHANGED <<logVars, claimed, flags, marks, cursor, passes, request>>
      /\ log' = log /\ Compared(audit.at)
      /\ \/ findings' = findings
         \/ findings' = findings \union {<<"CHAIN_PAID_DB_NOT", audit.at>>}
  BY DEF Correct, logVars
<1>2. Moves /\ audit # NoAudit /\ audit.at \in Rows
  BY Correcting
<1>3. audit' \in Audit /\ Auditing'
  BY <1>1, <1>2, ComparedIs
<1>4. NoFalseAlarm' /\ Asking'
  BY <1>1 DEF IInv, NoFalseAlarm, Asking
<1>5. findings \subseteq findings' /\ findings' \subseteq FindingKind \X (Rows \union {NoRow})
  BY <1>1, <1>2 DEF IInv, Typed, FindingKind
<1> QED
  BY <1>1, <1>2, <1>3, <1>4, <1>5, AppKeeps DEF IInv, Typed
------------------------------------------------------------------------------
\* The invariant.

LEMMA NothingLogged ==
  ASSUME log = <<>>
  PROVE  /\ log \in Seq(Event) /\ Len(log) = 0 /\ DOMAIN log = {}
         /\ \A kind : ~Logged(kind) /\ \A r : ~LoggedFor(kind, r)
<1>1. log \in Seq(Event) /\ Len(log) = 0
  BY EmptySeq
<1>2. DOMAIN log = {}
  BY <1>1, LenProperties
<1> QED
  BY <1>1, <1>2 DEF Logged, LoggedFor

LEMMA Initial == Init => IInv
<1> SUFFICES ASSUME Init PROVE IInv
  OBVIOUS
<1>1. /\ log = <<>> /\ ledger = 1 /\ room = TxPerLedger
      /\ claimed = FALSE /\ flags = {} /\ findings = {} /\ cursor = 0
      /\ marks = [i \in 1 .. MaxEvents |-> "unseen"]
      /\ payments = [r \in Rows |-> IF OwnPayments THEN "VALIDATING" ELSE NoPayment]
      /\ passes = [w \in Workers |-> Idle]
      /\ request = NoRequest /\ audit = NoAudit
  BY DEF Init, LogInit, IndexerInit
<1>2. Idle \in Pass /\ Idle.todo = <<>> /\ Idle.committed = 0 /\ DOMAIN Idle.todo = {}
  <2>1. <<>> \in Seq(1 .. MaxEvents) /\ Len(<<>>) = 0
    BY EmptySeq
  <2>2. DOMAIN <<>> = {}
    BY EmptySeq, LenProperties
  <2> QED
    BY <2>1, <2>2 DEF Idle, Pass, NotRead
<1>3. \A r \in Rows : payments[r] \in {"VALIDATING", NoPayment}
  BY <1>1
<1>4. Typed
  <2>1. payments \in [Rows -> RowState]
    BY <1>1 DEF RowState, PaymentState
  <2>2. room \in 0 .. TxPerLedger /\ Len(log) <= MaxEvents
    BY <1>1, NothingLogged, LogAssumption
  <2> QED
    BY <1>1, <1>2, <2>1, <2>2, NothingLogged DEF Typed, Audit
<1>5. LogSound
  BY <1>1, NothingLogged DEF LogSound, Settled, Refunded
<1>6. Served /\ Seen
  BY <1>1, <1>2 DEF Served, Serves, Seen, Sees
<1>7. Telling
  BY <1>3 DEF Telling, Says, HasProof, ManagerDone, BothDone, NoPayment
<1>8. Asking /\ Auditing /\ NoFalseAlarm
  BY <1>1 DEF Asking, Auditing, NoFalseAlarm
<1>9. Shown
  BY <1>1, NothingLogged DEF Shown
<1> QED
  BY <1>4, <1>5, <1>6, <1>7, <1>8, <1>9 DEF IInv

LEMMA IndexerKeeps ==
  ASSUME IInv, IndexerNext, UNCHANGED <<logVars, appVars>>
  PROVE  IInv'
<1>1. ASSUME NEW w \in Workers, Fetch(w) \/ Step(w) \/ Fail(w) \/ Crash(w)
      PROVE  IInv'
  BY <1>1, FetchKeeps, SkipKeeps, ReadKeeps, ApplyKeeps, EndPageKeeps, EndsKeeps, FailKeeps DEF Step
<1> QED
  BY <1>1, ClaimKeeps DEF IndexerNext

LEMMA AppNextKeeps ==
  ASSUME IInv, AppNext
  PROVE  IInv'
BY RequestKeeps, SwapKeeps, ReadRowsKeeps, ReadChainKeeps, CompareKeeps, UnconfirmedKeeps,
   ConsultKeeps, CorrectKeeps DEF AppNext

LEMMA Stutters == IInv /\ UNCHANGED vars => IInv'
<1> SUFFICES ASSUME IInv, UNCHANGED vars PROVE IInv'
  OBVIOUS
<1>1. /\ UNCHANGED <<logVars, marks, cursor, passes, request, audit>>
      /\ UNCHANGED <<claimed, flags, payments, findings>> /\ log' = log
  BY DEF vars, indexerVars, dbVars, appVars, logVars
<1>2. NoFalseAlarm' /\ Asking' /\ Auditing'
  BY <1>1 DEF IInv, NoFalseAlarm, Asking, Auditing, Settled, LoggedFor, Logged
<1> QED
  BY <1>1, <1>2, Resting, AppKeeps DEF IInv, Typed

LEMMA Inductive == IInv /\ [Next]_vars => IInv'
BY LogKeeps, IndexerKeeps, AppNextKeeps, Stutters DEF Next

LEMMA Always == Spec => []IInv
BY Initial, Inductive, PTL DEF Spec

\* Payments are moved by the indexer, by a user's request and by the
\* reconciliation, and by nothing else.
LEMMA AnyStepMoves == IInv /\ [Next]_vars => Moves
<1> SUFFICES ASSUME IInv, [Next]_vars PROVE Moves
  OBVIOUS
<1>1. CASE UNCHANGED payments
  BY <1>1, Resting
<1>2. ASSUME NEW w \in Workers, Apply(w), UNCHANGED logVars
      PROVE  Moves
  BY <1>1, <1>2, ApplyAttributed DEF Apply, ApplyEvent
<1>3. CASE Swap \/ Correct
  BY <1>3, SwapRequestMoves, Correcting
<1>4. CASE IndexerNext /\ UNCHANGED <<logVars, appVars>>
  <2>1. ASSUME NEW w \in Workers, Fetch(w) \/ Skip(w) \/ Read(w) \/ ApplyDuplicate(w)
                                  \/ EndPage(w) \/ EndPass(w) \/ Fail(w) \/ Crash(w)
        PROVE  UNCHANGED payments
    BY <2>1 DEF Fetch, Skip, Read, ApplyDuplicate, EndPage, EndPass, Fail, Crash, dbVars
  <2> QED
    BY <1>1, <1>2, <1>4, <2>1 DEF IndexerNext, Step, Claim
<1>5. CASE AppNext
  <2>1. Swap \/ Correct \/ UNCHANGED payments
    BY <1>5 DEF AppNext, Request, ReadRows, ReadChain, Compare, Unconfirmed, Consult,
                indexerVars, dbVars
  <2> QED
    BY <1>1, <1>3, <2>1
<1> QED
  BY <1>1, <1>4, <1>5 DEF Next, vars, indexerVars, dbVars

------------------------------------------------------------------------------
\* One pass at a time, once the escrow has its row: events are applied in the
\* order of the log, until one is passed over.

OnePass == ClaimFirst /\ \A v, w \in Workers : v = w

\* The cursor passed an event over (a failure, or the end of a page, between
\* two events of one ledger): it is never applied.
Lost == \E i \in DOMAIN log : log[i].ledger <= cursor /\ marks[i] # "applied"

Chronological ==
  \A i \in DOMAIN log : /\ log[i].ledger <= ledger
                        /\ \A j \in DOMAIN log : i <= j => log[i].ledger <= log[j].ledger
Ordered ==
  ~Lost => \A i, j \in DOMAIN log : i <= j /\ marks[j] = "applied" => marks[i] = "applied"

\* No pass ran before the claim, so no backlog gathers.
Attributed(pass) ==
  /\ pass.stage # "idle" => claimed
  /\ pass.stage # "page" => pass.todo = <<>>
  /\ pass.seen # Unattributed

\* A page goes on where the cursor is: what is before one of its events was
\* applied, or is before it in the page.
InTurn(pass) ==
  /\ pass.stage = "page" => pass.committed = 0 \/ cursor < pass.committed
  /\ \A k \in DOMAIN pass.todo : cursor < log[pass.todo[k]].ledger
  /\ \A k \in DOMAIN pass.todo : \A i \in DOMAIN log :
       cursor < log[i].ledger /\ i < pass.todo[k] =>
         marks[i] = "applied" \/ \E m \in DOMAIN pass.todo : m < k /\ pass.todo[m] = i

\* Between its reads and its writes nobody applies its event, nor creates the
\* payment it did not find.
Alone(pass) ==
  pass.todo # <<>> /\ pass.seen # NotRead =>
    /\ marks[Head(pass.todo)] # "applied"
    /\ pass.seen = NoPayment /\ log[Head(pass.todo)].row \in Rows =>
         payments[log[Head(pass.todo)].row] = NoPayment

\* A payment shown as verified has a proof that was applied after the last
\* rotation that was.
Verified == {"ORACLE_VERIFIED", "AWAITING_MANAGER", "AWAITING_FINANCE", "READY_TO_SETTLE"}
HoldsProof(r) ==
  \E i \in DOMAIN log :
    /\ log[i].kind = "hours" /\ log[i].row = r /\ marks[i] = "applied"
    /\ \A j \in DOMAIN log : i < j /\ marks[j] = "applied" => log[j].kind # "oracle_rotated"
Current == ~Lost => \A r \in Rows : payments[r] \in Verified => HoldsProof(r)

\* Positions and ledgers of the log are numbers.
LEMMA LedgersAre ==
  ASSUME Typed
  PROVE  /\ \A i \in DOMAIN log : i \in Nat /\ log[i] \in Event /\ log[i].ledger \in Nat
         /\ cursor \in Nat /\ ledger \in Nat
<1>1. \A i \in DOMAIN log : log[i] \in Event
  BY LenProperties, ElementOfSeq DEF Typed
<1> QED
  BY <1>1, PositionsAre DEF Typed, Event

\* What is new comes after what was there, in the ledger that is closing.
LEMMA NewIsLast ==
  ASSUME Typed, Grows, Typed'
  PROVE  /\ \A i \in DOMAIN log : \A j \in DOMAIN log' : j \in DOMAIN log \/ i < j
         /\ \A i \in DOMAIN log, j \in DOMAIN log' : j <= i => j \in DOMAIN log
<1>1. Len(log) \in Nat /\ DOMAIN log = 1 .. Len(log)
  BY PositionsAre
<1>2. Len(log') \in Nat /\ DOMAIN log' = 1 .. Len(log')
  BY LenProperties DEF Typed
<1> QED
  BY <1>1, <1>2

LEMMA LogChronological ==
  ASSUME Typed, Grows, Typed', Chronological
  PROVE  Chronological'
<1>1. /\ \A i \in DOMAIN log : i \in DOMAIN log' /\ log'[i] = log[i] /\ log[i].ledger \in Nat
      /\ \A j \in DOMAIN log' : j \in DOMAIN log \/ log'[j].ledger = ledger
      /\ ledger \in Nat /\ ledger' \in Nat /\ ledger <= ledger'
  BY LedgersAre DEF Grows
<1>2. ASSUME NEW i \in DOMAIN log' PROVE log'[i].ledger <= ledger'
  <2>1. CASE i \in DOMAIN log
    BY <1>1, <2>1 DEF Chronological
  <2>2. CASE i \notin DOMAIN log
    BY <1>1, <2>2
  <2> QED
    BY <2>1, <2>2
<1>3. ASSUME NEW i \in DOMAIN log', NEW j \in DOMAIN log', i <= j
      PROVE  log'[i].ledger <= log'[j].ledger
  <2>1. CASE j \in DOMAIN log
    <3>1. i \in DOMAIN log
      BY <1>3, <2>1, NewIsLast
    <3> QED
      BY <1>1, <1>3, <2>1, <3>1 DEF Chronological
  <2>2. CASE j \notin DOMAIN log
    <3>1. log'[j].ledger = ledger
      BY <1>1, <2>2
    <3>2. CASE i \in DOMAIN log
      BY <1>1, <3>1, <3>2 DEF Chronological
    <3>3. CASE i \notin DOMAIN log
      BY <1>1, <3>1, <3>3
    <3> QED
      BY <3>2, <3>3
  <2> QED
    BY <2>1, <2>2
<1> QED
  BY <1>2, <1>3 DEF Chronological

\* What an invocation adds: payments of the escrow's rows when it is created,
\* and refunds of an escrow that was created before.
Adds(events) ==
  /\ events \in Seq(Pair) /\ Emit(events)
  /\ \A x \in Range(events) : x[1] = "payment_added" => x[2] \in Rows
  /\ \A x \in Range(events) : x[1] = "payment_cancelled" => Created /\ x[2] \in Rows
  /\ \A x \in Range(events) : x[1] = "created" =>
       \A r \in Rows : <<"payment_added", r>> \in Range(events)

LEMMA AddsOne ==
  ASSUME NEW x \in Pair, Emit(<<x>>),
         x[1] \in {"hours", "oracle_rotated", "manager_approved", "finance_approved"}
  PROVE  Adds(<<x>>)
<1>1. <<x>> \in Seq(Pair) /\ Range(<<x>>) = {x}
  BY OneEvent
<1> QED
  BY <1>1 DEF Adds

LEMMA LogAdds ==
  ASSUME LogNext
  PROVE  log' = log \/ \E events : Adds(events)
<1>1. CASE CreateEscrow
  <2> DEFINE events == <<<<"created", NoRow>>>> \o PerRow("payment_added")
  <2>1. <<"created", NoRow>> \in Pair /\ "payment_added" \in EventKind
    BY DEF Pair, EventKind
  <2>2. /\ <<<<"created", NoRow>>>> \in Seq(Pair)
        /\ Range(<<<<"created", NoRow>>>>) = {<<"created", NoRow>>}
    BY <2>1, OneEvent
  <2>3. /\ PerRow("payment_added") \in Seq(Pair)
        /\ Range(PerRow("payment_added")) = {<<"payment_added", r>> : r \in Rows}
    BY <2>1, PerRowIs
  <2>4. /\ events \in Seq(Pair)
        /\ Range(events) = {<<"created", NoRow>>} \union {<<"payment_added", r>> : r \in Rows}
    BY <2>2, <2>3, TwoParts
  <2>5. Emit(events)
    BY <1>1 DEF CreateEscrow
  <2> HIDE DEF events
  <2>6. Adds(events)
    BY <2>4, <2>5 DEF Adds
  <2> QED
    BY <2>6
<1>2. ASSUME NEW r \in Rows, SubmitHours(r) PROVE \E events : Adds(events)
  <2>1. <<"hours", r>> \in Pair
    BY DEF Pair, EventKind
  <2> QED
    BY <1>2, <2>1, AddsOne DEF SubmitHours
<1>3. CASE RotateKey
  <2>1. <<"oracle_rotated", NoRow>> \in Pair
    BY DEF Pair, EventKind
  <2> QED
    BY <1>3, <2>1, AddsOne DEF RotateKey
<1>4. ASSUME NEW kind \in {"manager_approved", "finance_approved"}, Approve(kind)
      PROVE  \E events : Adds(events)
  <2>1. <<kind, NoRow>> \in Pair
    BY DEF Pair, EventKind
  <2> QED
    BY <1>4, <2>1, AddsOne DEF Approve
<1>5. CASE SettleBatch
  <2> DEFINE events == PerRow("payment_paid") \o <<<<"finalized", NoRow>>>>
  <2>1. <<"finalized", NoRow>> \in Pair /\ "payment_paid" \in EventKind
    BY DEF Pair, EventKind
  <2>2. /\ <<<<"finalized", NoRow>>>> \in Seq(Pair)
        /\ Range(<<<<"finalized", NoRow>>>>) = {<<"finalized", NoRow>>}
    BY <2>1, OneEvent
  <2>3. /\ PerRow("payment_paid") \in Seq(Pair)
        /\ Range(PerRow("payment_paid")) = {<<"payment_paid", r>> : r \in Rows}
    BY <2>1, PerRowIs
  <2>4. /\ events \in Seq(Pair)
        /\ Range(events) = {<<"payment_paid", r>> : r \in Rows} \union {<<"finalized", NoRow>>}
    BY <2>2, <2>3, TwoParts
  <2>5. Emit(events)
    BY <1>5 DEF SettleBatch
  <2> HIDE DEF events
  <2>6. Adds(events)
    BY <2>4, <2>5 DEF Adds
  <2> QED
    BY <2>6
<1>6. CASE RefundEscrow
  <2> DEFINE events == PerRow("payment_cancelled") \o <<<<"cancelled", NoRow>>>>
  <2>1. <<"cancelled", NoRow>> \in Pair /\ "payment_cancelled" \in EventKind
    BY DEF Pair, EventKind
  <2>2. /\ <<<<"cancelled", NoRow>>>> \in Seq(Pair)
        /\ Range(<<<<"cancelled", NoRow>>>>) = {<<"cancelled", NoRow>>}
    BY <2>1, OneEvent
  <2>3. /\ PerRow("payment_cancelled") \in Seq(Pair)
        /\ Range(PerRow("payment_cancelled")) = {<<"payment_cancelled", r>> : r \in Rows}
    BY <2>1, PerRowIs
  <2>4. /\ events \in Seq(Pair)
        /\ Range(events) = {<<"payment_cancelled", r>> : r \in Rows} \union {<<"cancelled", NoRow>>}
    BY <2>2, <2>3, TwoParts
  <2>5. Emit(events) /\ Created
    BY <1>6 DEF RefundEscrow, StillOpen
  <2> HIDE DEF events
  <2>6. Adds(events)
    BY <2>4, <2>5 DEF Adds
  <2> QED
    BY <2>6
<1>7. CASE CloseLedger
  BY <1>7 DEF CloseLedger
<1> QED
  BY <1>1, <1>2, <1>3, <1>4, <1>5, <1>6, <1>7 DEF LogNext

\* Payments are added to rows of the escrow, all of them when it is created,
\* and what is refunded was added before.
Refundable ==
  /\ \A i \in DOMAIN log : log[i].kind = "payment_added" => log[i].row \in Rows
  /\ Created => \A r \in Rows : LoggedFor("payment_added", r)
  /\ \A i \in DOMAIN log : log[i].kind = "payment_cancelled" =>
       /\ log[i].row \in Rows
       /\ \E j \in DOMAIN log : j < i /\ log[j].kind = "payment_added" /\ log[j].row = log[i].row

LEMMA LogRefundable ==
  ASSUME Typed, Typed', Grows, LogNext, Refundable
  PROVE  Refundable'
<1>1. CASE log' = log
  BY <1>1 DEF Refundable, Created, Logged, LoggedFor
<1>2. ASSUME NEW events, Adds(events) PROVE Refundable'
  <2>1. /\ \A i \in DOMAIN log : i \in DOMAIN log' /\ log'[i] = log[i]
        /\ \A j \in DOMAIN log' : j \in DOMAIN log \/ \E x \in Range(events) :
             log'[j].kind = x[1] /\ log'[j].row = x[2]
        /\ \A x \in Range(events) : \E j \in DOMAIN log' :
             log'[j].kind = x[1] /\ log'[j].row = x[2]
    BY <1>2, OnlyGrows DEF Adds
  <2>2. ASSUME NEW i \in DOMAIN log', log'[i].kind = "payment_added" PROVE log'[i].row \in Rows
    BY <1>2, <2>1, <2>2 DEF Adds, Refundable
  <2>3. ASSUME Created', NEW r \in Rows PROVE LoggedFor("payment_added", r)'
    <3>1. CASE Created
      <4>1. PICK j \in DOMAIN log : log[j].kind = "payment_added" /\ log[j].row = r
        BY <3>1 DEF Refundable, LoggedFor
      <4> QED
        BY <2>1, <4>1 DEF LoggedFor
    <3>2. CASE ~Created
      <4>1. PICK i \in DOMAIN log' : log'[i].kind = "created"
        BY <2>3 DEF Created, Logged
      <4>2. i \notin DOMAIN log
        BY <2>1, <3>2, <4>1 DEF Created, Logged
      <4>3. PICK x \in Range(events) : x[1] = "created"
        BY <2>1, <4>1, <4>2
      <4>4. <<"payment_added", r>> \in Range(events)
        BY <1>2, <4>3 DEF Adds
      <4>5. PICK y \in Range(events) : y = <<"payment_added", r>>
        BY <4>4
      <4>6. y[1] = "payment_added" /\ y[2] = r
        BY <4>5
      <4>7. \E j \in DOMAIN log' : log'[j].kind = y[1] /\ log'[j].row = y[2]
        BY <2>1
      <4> QED
        BY <4>6, <4>7 DEF LoggedFor
    <3> QED
      BY <3>1, <3>2
  <2>4. ASSUME NEW i \in DOMAIN log', log'[i].kind = "payment_cancelled"
        PROVE  /\ log'[i].row \in Rows
               /\ \E j \in DOMAIN log' : j < i /\ log'[j].kind = "payment_added" /\ log'[j].row = log'[i].row
    <3>1. CASE i \in DOMAIN log
      <4>1. log[i].kind = "payment_cancelled" /\ log'[i] = log[i]
        BY <2>1, <2>4, <3>1
      <4>2. PICK j \in DOMAIN log : j < i /\ log[j].kind = "payment_added" /\ log[j].row = log[i].row
        BY <3>1, <4>1 DEF Refundable
      <4> QED
        BY <2>1, <3>1, <4>1, <4>2 DEF Refundable
    <3>2. CASE i \notin DOMAIN log
      <4>1. Created /\ log'[i].row \in Rows
        BY <1>2, <2>1, <2>4, <3>2 DEF Adds
      <4>2. PICK j \in DOMAIN log : log[j].kind = "payment_added" /\ log[j].row = log'[i].row
        BY <4>1 DEF Refundable, LoggedFor
      <4>3. j < i
        BY <3>2, NewIsLast
      <4> QED
        BY <2>1, <4>1, <4>2, <4>3
    <3> QED
      BY <3>1, <3>2
  <2> QED
    BY <2>2, <2>3, <2>4 DEF Refundable
<1> QED
  BY <1>1, <1>2, LogAdds

OneByOne ==
  /\ Chronological /\ Refundable /\ Ordered /\ Current
  /\ \A i \in DOMAIN log : marks[i] # "unattributed"
  /\ \A w \in Workers : Attributed(passes[w]) /\ InTurn(passes[w]) /\ Alone(passes[w])

\* What a pass has in hand is in the log.
LEMMA InHand ==
  ASSUME IInv, NEW w \in Workers
  PROVE  /\ passes[w] \in Pass /\ passes[w].todo \in Seq(1 .. MaxEvents)
         /\ \A k \in DOMAIN passes[w].todo : passes[w].todo[k] \in DOMAIN log
         /\ passes[w].todo # <<>> =>
              /\ 1 \in DOMAIN passes[w].todo /\ Head(passes[w].todo) = passes[w].todo[1]
              /\ Head(passes[w].todo) \in DOMAIN log
<1>1. passes[w] \in Pass /\ passes[w].todo \in Seq(1 .. MaxEvents) /\ Serves(passes[w])
  BY DEF IInv, Typed, Pass, Served
<1>2. passes[w].todo # <<>> => 1 \in DOMAIN passes[w].todo /\ Head(passes[w].todo) = passes[w].todo[1]
  BY <1>1, EmptySeq, LenProperties
<1> QED
  BY <1>1, <1>2 DEF Serves

\* The contract takes a step.
LEMMA LogOne ==
  ASSUME IInv, IInv', OneByOne, LogNext, UNCHANGED <<indexerVars, appVars>>
  PROVE  OneByOne'
<1>1. Grows
  BY LogStep DEF IInv
<1>2. /\ \A i \in DOMAIN log : i \in DOMAIN log' /\ log'[i] = log[i]
      /\ \A i \in DOMAIN log : \A j \in DOMAIN log' : j <= i => j \in DOMAIN log
  BY <1>1, NewIsLast DEF Grows, IInv
<1>3. UNCHANGED <<claimed, payments, marks, cursor, passes>>
  BY DEF indexerVars, dbVars
<1>4. \A i \in DOMAIN log' : i \in DOMAIN log \/ marks[i] = "unseen"
  <2>1. DOMAIN log' \subseteq 1 .. MaxEvents
    BY LogAssumption, LenProperties DEF IInv, Typed
  <2> QED
    BY <2>1 DEF IInv, Shown
<1>5. Chronological' /\ Refundable'
  BY <1>1, LogChronological, LogRefundable DEF IInv, OneByOne
<1>6. Lost => Lost'
  BY <1>2, <1>3 DEF Lost
<1>7. Ordered'
  <2> SUFFICES ASSUME ~Lost', NEW i \in DOMAIN log', NEW j \in DOMAIN log', i <= j, marks[j] = "applied"
               PROVE  marks[i] = "applied"
    BY <1>3 DEF Ordered
  <2>1. i \in DOMAIN log /\ j \in DOMAIN log
    BY <1>2, <1>4
  <2> QED
    BY <1>6, <2>1 DEF OneByOne, Ordered
<1>8. Current'
  <2> SUFFICES ASSUME ~Lost', NEW r \in Rows, payments[r] \in Verified PROVE HoldsProof(r)'
    BY <1>3 DEF Current
  <2>1. PICK i \in DOMAIN log :
          /\ log[i].kind = "hours" /\ log[i].row = r /\ marks[i] = "applied"
          /\ \A j \in DOMAIN log : i < j /\ marks[j] = "applied" => log[j].kind # "oracle_rotated"
    BY <1>6 DEF OneByOne, Current, HoldsProof
  <2>2. ASSUME NEW j \in DOMAIN log', i < j, marks[j] = "applied" PROVE log'[j].kind # "oracle_rotated"
    BY <1>2, <1>4, <2>1, <2>2
  <2> QED
    BY <1>2, <1>3, <2>1, <2>2 DEF HoldsProof
<1>9. \A i \in DOMAIN log' : marks'[i] # "unattributed"
  BY <1>3, <1>4 DEF OneByOne
<1>10. ASSUME NEW w \in Workers
       PROVE  Attributed(passes[w])' /\ InTurn(passes[w])' /\ Alone(passes[w])'
  <2>1. Attributed(passes[w]) /\ InTurn(passes[w]) /\ Alone(passes[w])
    BY DEF OneByOne
  <2>2. Attributed(passes[w])'
    BY <1>3, <2>1 DEF Attributed
  <2>3. InTurn(passes[w])'
    <3>1. \A k \in DOMAIN passes[w].todo : passes[w].todo[k] \in DOMAIN log
      BY InHand
    <3>2. \A k \in DOMAIN passes[w].todo : cursor < log'[passes[w].todo[k]].ledger
      BY <1>2, <2>1, <3>1 DEF InTurn
    <3>3. ASSUME NEW k \in DOMAIN passes[w].todo, NEW i \in DOMAIN log', cursor < log'[i].ledger, i < passes[w].todo[k]
          PROVE  marks[i] = "applied" \/ \E m \in DOMAIN passes[w].todo : m < k /\ passes[w].todo[m] = i
      <4>1. passes[w].todo[k] \in DOMAIN log /\ i \in Nat /\ passes[w].todo[k] \in Nat
        BY <3>1, LedgersAre, PositionsAre, LenProperties DEF IInv, Typed
      <4>2. i <= passes[w].todo[k]
        BY <3>3, <4>1
      <4>3. i \in DOMAIN log /\ log'[i] = log[i]
        BY <1>2, <4>1, <4>2
      <4> QED
        BY <2>1, <3>3, <4>3 DEF InTurn
    <3> QED
      BY <1>3, <2>1, <3>2, <3>3 DEF InTurn
  <2>4. Alone(passes[w])'
    BY <1>2, <1>3, <2>1, InHand DEF Alone
  <2> QED
    BY <2>2, <2>3, <2>4
<1> QED
  BY <1>5, <1>7, <1>8, <1>9, <1>10 DEF OneByOne

\* The pass takes a step that applies nothing.
LEMMA QuietOne ==
  ASSUME IInv, OneByOne, OnePass, UNCHANGED <<log, ledger, payments, marks>>,
         cursor' \in Nat, cursor <= cursor', NEW w \in Workers,
         Attributed(passes[w])', InTurn(passes[w])', Alone(passes[w])'
  PROVE  OneByOne'
<1>1. Chronological' /\ Refundable'
  BY DEF OneByOne, Chronological, Refundable, Created, Logged, LoggedFor
<1>2. Lost => Lost'
  BY LedgersAre DEF IInv, Lost
<1>3. Ordered' /\ Current'
  BY <1>2 DEF OneByOne, Ordered, Current, HoldsProof
<1>4. \A i \in DOMAIN log' : marks'[i] # "unattributed"
  BY DEF OneByOne
<1>5. \A v \in Workers : Attributed(passes[v])' /\ InTurn(passes[v])' /\ Alone(passes[v])'
  BY DEF OnePass
<1> QED
  BY <1>1, <1>3, <1>4, <1>5 DEF OneByOne

\* The cursor never goes back.
LEMMA CursorAdvances ==
  ASSUME IInv, OneByOne, NEW w \in Workers, passes[w].stage = "page", SetCursor(passes[w].committed)
  PROVE  cursor' \in Nat /\ cursor <= cursor'
<1>1. passes[w].committed \in Nat /\ cursor \in Nat
  BY InHand DEF Pass, IInv, Typed
<1>2. passes[w].committed = 0 \/ cursor < passes[w].committed
  BY DEF OneByOne, InTurn
<1> QED
  BY <1>1, <1>2 DEF SetCursor

\* A pass without a list is in order.
LEMMA EmptyHand ==
  ASSUME NEW w \in Workers, NEW stage \in {"idle", "backlog"},
         stage # "idle" => claimed', passes \in [Workers -> Pass],
         passes' = [passes EXCEPT ![w] =
           [stage |-> stage, todo |-> <<>>, committed |-> 0, seen |-> NotRead]]
  PROVE  Attributed(passes[w])' /\ InTurn(passes[w])' /\ Alone(passes[w])'
<1>1. /\ passes'[w].stage = stage /\ passes'[w].todo = <<>>
      /\ passes'[w].committed = 0 /\ passes'[w].seen = NotRead
  OBVIOUS
<1>2. DOMAIN passes'[w].todo = {}
  <2>1. <<>> \in Seq(1 .. MaxEvents) /\ Len(<<>>) = 0
    BY EmptySeq
  <2> QED
    BY <1>1, <2>1, LenProperties
<1>3. Attributed(passes[w])'
  BY <1>1 DEF Attributed, NotRead, Unattributed
<1>4. InTurn(passes[w])'
  BY <1>1, <1>2 DEF InTurn
<1>5. Alone(passes[w])'
  BY <1>1 DEF Alone
<1> QED
  BY <1>3, <1>4, <1>5

LEMMA FetchOne ==
  ASSUME IInv, OneByOne, OnePass, NEW w \in Workers, Fetch(w), UNCHANGED <<logVars, appVars>>
  PROVE  OneByOne'
<1>1. /\ UNCHANGED <<claimed, payments, marks, cursor>> /\ log' = log /\ ledger' = ledger
      /\ claimed /\ passes \in [Workers -> Pass]
      /\ passes' = [passes EXCEPT ![w] =
           [stage |-> "page", todo |-> Page, committed |-> 0, seen |-> NotRead]]
  BY DEF Fetch, dbVars, logVars, OnePass, IInv, Typed
<1>2. /\ Page \in Seq(1 .. MaxEvents) /\ \A k \in DOMAIN Page : Page[k] \in Ahead
      /\ \A k \in DOMAIN Page : \A i \in Ahead : i < Page[k] =>
           \E m \in DOMAIN Page : m < k /\ Page[m] = i
  BY PageIs DEF IInv
<1> HIDE DEF Page
<1>3. /\ passes'[w].stage = "page" /\ passes'[w].todo = Page
      /\ passes'[w].committed = 0 /\ passes'[w].seen = NotRead
  BY <1>1
<1>4. Attributed(passes[w])'
  BY <1>1, <1>3 DEF Attributed, NotRead, Unattributed
<1>5. Alone(passes[w])'
  BY <1>3 DEF Alone
<1>6. InTurn(passes[w])'
  <2>1. \A k \in DOMAIN Page : Page[k] \in DOMAIN log /\ cursor < log[Page[k]].ledger
    BY <1>2 DEF Ahead
  <2>2. ASSUME NEW k \in DOMAIN Page, NEW i \in DOMAIN log, cursor < log[i].ledger, i < Page[k]
        PROVE  \E m \in DOMAIN Page : m < k /\ Page[m] = i
    <3>1. Page[k] \in DOMAIN log /\ log[Page[k]].ledger < ledger
      BY <1>2 DEF Ahead
    <3>2. /\ i \in Nat /\ Page[k] \in Nat /\ ledger \in Nat
          /\ log[i].ledger \in Nat /\ log[Page[k]].ledger \in Nat
      BY <3>1, LedgersAre DEF IInv
    <3>3. log[i].ledger <= log[Page[k]].ledger
      BY <2>2, <3>1, <3>2 DEF OneByOne, Chronological
    <3>4. i \in Ahead
      BY <2>2, <3>1, <3>2, <3>3 DEF Ahead
    <3> QED
      BY <1>2, <2>2, <3>4
  <2> QED
    BY <1>1, <1>3, <2>1, <2>2 DEF InTurn
<1>7. cursor' \in Nat /\ cursor <= cursor'
  BY <1>1 DEF IInv, Typed
<1> QED
  BY <1>1, <1>4, <1>5, <1>6, <1>7, QuietOne

\* The pass is done with its event, which was applied: the page goes on.
LEMMA OnwardOne ==
  ASSUME IInv, OneByOne, NEW w \in Workers, passes[w].todo # <<>>, Onward(w, Past(w)),
         log' = log, cursor' = cursor, claimed' = claimed,
         \A i \in DOMAIN log : marks[i] = "applied" => marks'[i] = "applied",
         marks'[At(w)] = "applied"
  PROVE  Attributed(passes[w])' /\ InTurn(passes[w])' /\ Alone(passes[w])'
<1> DEFINE todo == passes[w].todo
<1>1. /\ passes \in [Workers -> Pass] /\ passes[w] \in Pass /\ todo \in Seq(1 .. MaxEvents)
      /\ \A k \in DOMAIN todo : todo[k] \in DOMAIN log
      /\ Attributed(passes[w]) /\ InTurn(passes[w])
      /\ 1 \in DOMAIN todo /\ At(w) = todo[1]
  BY InHand DEF IInv, Typed, OneByOne, At
<1>2. /\ passes'[w] = [passes[w] EXCEPT !.todo = Tail(todo), !.seen = NotRead, !.committed = Past(w)]
  BY <1>1 DEF Onward
<1>3. /\ passes'[w].todo = Tail(todo) /\ passes'[w].seen = NotRead
      /\ passes'[w].committed = Past(w) /\ passes'[w].stage = passes[w].stage
  BY <1>1, <1>2 DEF Pass
<1>4. /\ Tail(todo) \in Seq(1 .. MaxEvents) /\ Len(todo) \in Nat /\ Len(Tail(todo)) = Len(todo) - 1
      /\ DOMAIN todo = 1 .. Len(todo) /\ DOMAIN Tail(todo) = 1 .. Len(todo) - 1
      /\ \A k \in 1 .. Len(todo) - 1 : Tail(todo)[k] = todo[k + 1] /\ k + 1 \in 1 .. Len(todo)
  <2>1. /\ Tail(todo) \in Seq(1 .. MaxEvents) /\ Len(Tail(todo)) = Len(todo) - 1
        /\ \A k \in 1 .. Len(Tail(todo)) : Tail(todo)[k] = todo[k + 1]
    BY <1>1, HeadTailProperties
  <2>2. /\ DOMAIN Tail(todo) = 1 .. Len(Tail(todo)) /\ DOMAIN todo = 1 .. Len(todo) /\ Len(todo) \in Nat
    BY <1>1, <2>1, LenProperties
  <2> QED
    BY <2>1, <2>2
<1>5. passes[w].stage = "page"
  BY <1>1 DEF Attributed
<1>6. Past(w) = log[todo[1]].ledger /\ cursor < log[todo[1]].ledger
  BY <1>1, <1>5 DEF Past, InTurn
<1>7. Attributed(passes[w])'
  BY <1>1, <1>3, <1>5 DEF Attributed, NotRead, Unattributed
<1>8. Alone(passes[w])'
  BY <1>3 DEF Alone
<1>9. InTurn(passes[w])'
  <2>1. \A k \in DOMAIN Tail(todo) : cursor < log[Tail(todo)[k]].ledger
    BY <1>1, <1>4 DEF InTurn
  <2>2. ASSUME NEW k \in DOMAIN Tail(todo), NEW i \in DOMAIN log, cursor < log[i].ledger, i < Tail(todo)[k]
        PROVE  marks'[i] = "applied" \/ \E m \in DOMAIN Tail(todo) : m < k /\ Tail(todo)[m] = i
    <3>1. k + 1 \in DOMAIN todo /\ i < todo[k + 1] /\ k \in Nat
      BY <1>4, <2>2
    <3>2. CASE marks[i] = "applied"
      BY <3>2
    <3>3. ASSUME NEW m \in DOMAIN todo, m < k + 1, todo[m] = i
          PROVE  marks'[i] = "applied" \/ \E l \in DOMAIN Tail(todo) : l < k /\ Tail(todo)[l] = i
      <4>1. CASE m = 1
        BY <1>1, <3>3, <4>1
      <4>2. CASE m # 1
        <5>1. m - 1 \in DOMAIN Tail(todo) /\ m - 1 < k /\ (m - 1) + 1 = m
          BY <1>4, <3>1, <3>3, <4>2
        <5>2. Tail(todo)[m - 1] = i
          BY <1>4, <3>3, <5>1
        <5> QED
          BY <5>1, <5>2
      <4> QED
        BY <4>1, <4>2
    <3>4. marks[i] = "applied" \/ \E m \in DOMAIN todo : m < k + 1 /\ todo[m] = i
      BY <1>1, <2>2, <3>1 DEF InTurn
    <3> QED
      BY <3>2, <3>3, <3>4
  <2> HIDE DEF todo
  <2> QED
    BY <1>3, <1>6, <2>1, <2>2 DEF InTurn
<1> QED
  BY <1>7, <1>8, <1>9

LEMMA SkipOne ==
  ASSUME IInv, OneByOne, OnePass, NEW w \in Workers, Skip(w), UNCHANGED <<logVars, appVars>>
  PROVE  OneByOne'
<1>1. /\ UNCHANGED <<claimed, payments, marks, cursor>> /\ log' = log /\ ledger' = ledger
      /\ passes[w].todo # <<>> /\ Onward(w, Past(w)) /\ marks[At(w)] = "applied"
  BY DEF Skip, Reading, dbVars, logVars
<1>2. Attributed(passes[w])' /\ InTurn(passes[w])' /\ Alone(passes[w])'
  BY <1>1, OnwardOne
<1>3. cursor' \in Nat /\ cursor <= cursor'
  BY <1>1 DEF IInv, Typed
<1> QED
  BY <1>1, <1>2, <1>3, QuietOne

LEMMA ReadOne ==
  ASSUME IInv, OneByOne, OnePass, NEW w \in Workers, Read(w), UNCHANGED <<logVars, appVars>>
  PROVE  OneByOne'
<1> DEFINE row == log[At(w)].row
           seen == IF ~claimed THEN Unattributed ELSE IF row = NoRow THEN NoPayment ELSE payments[row]
<1>1. /\ UNCHANGED <<claimed, payments, marks, cursor>> /\ log' = log /\ ledger' = ledger
      /\ passes[w].todo # <<>> /\ passes' = [passes EXCEPT ![w].seen = seen]
      /\ passes[w].stage = "page" => marks[At(w)] # "applied"
  BY DEF Read, Reading, dbVars, logVars
<1>2. /\ passes \in [Workers -> Pass] /\ passes[w] \in Pass /\ payments \in [Rows -> RowState]
      /\ Attributed(passes[w]) /\ InTurn(passes[w])
  BY DEF IInv, Typed, OneByOne
<1>3. passes[w].stage = "page" /\ claimed
  BY <1>1, <1>2 DEF Attributed
<1>4. row \in Rows \union {NoRow}
  BY <1>1, AtIs DEF Event
<1>5. /\ seen # Unattributed
      /\ seen = NoPayment /\ row \in Rows => payments[row] = NoPayment
  <2>1. \A r \in Rows : payments[r] # Unattributed
    BY <1>2 DEF RowState, PaymentState, NoPayment, Unattributed
  <2> QED
    BY <1>3, <1>4, <2>1, RowsAre DEF NoPayment, Unattributed
<1> HIDE DEF seen
<1>6. /\ passes'[w] = [passes[w] EXCEPT !.seen = seen]
  BY <1>1, <1>2
<1>7. /\ passes'[w].todo = passes[w].todo /\ passes'[w].seen = seen
      /\ passes'[w].stage = passes[w].stage /\ passes'[w].committed = passes[w].committed
  BY <1>2, <1>6 DEF Pass
<1>8. Attributed(passes[w])'
  BY <1>1, <1>2, <1>3, <1>5, <1>7 DEF Attributed
<1>9. InTurn(passes[w])'
  BY <1>1, <1>2, <1>7 DEF InTurn
<1>10. Alone(passes[w])'
  BY <1>1, <1>3, <1>5, <1>7 DEF Alone, At
<1>11. cursor' \in Nat /\ cursor <= cursor'
  BY <1>1 DEF IInv, Typed
<1> QED
  BY <1>1, <1>8, <1>9, <1>10, <1>11, QuietOne

LEMMA FailOne ==
  ASSUME IInv, OneByOne, OnePass, NEW w \in Workers, Fail(w), UNCHANGED <<logVars, appVars>>
  PROVE  OneByOne'
<1>1. /\ UNCHANGED <<claimed, payments, marks>> /\ log' = log /\ ledger' = ledger
      /\ passes[w].todo # <<>> /\ passes \in [Workers -> Pass]
  BY DEF Fail, Applying, logVars, IInv, Typed
<1>2. passes[w].stage = "page"
  BY <1>1 DEF OneByOne, Attributed
<1>3. SetCursor(passes[w].committed) /\ passes' = [passes EXCEPT ![w] = Idle]
  BY <1>2 DEF Fail
<1>4. Attributed(passes[w])' /\ InTurn(passes[w])' /\ Alone(passes[w])'
  BY <1>1, <1>3, EmptyHand DEF Idle
<1> QED
  BY <1>1, <1>2, <1>3, <1>4, CursorAdvances, QuietOne

LEMMA EndsOne ==
  ASSUME IInv, OneByOne, OnePass, NEW w \in Workers, Crash(w) \/ EndPass(w),
         UNCHANGED <<logVars, appVars>>
  PROVE  OneByOne'
<1>1. /\ UNCHANGED <<claimed, payments, marks, cursor>> /\ log' = log /\ ledger' = ledger
      /\ passes' = [passes EXCEPT ![w] = Idle] /\ passes \in [Workers -> Pass]
  BY DEF Crash, EndPass, dbVars, logVars, IInv, Typed
<1>2. Attributed(passes[w])' /\ InTurn(passes[w])' /\ Alone(passes[w])'
  BY <1>1, EmptyHand DEF Idle
<1>3. cursor' \in Nat /\ cursor <= cursor'
  BY <1>1 DEF IInv, Typed
<1> QED
  BY <1>1, <1>2, <1>3, QuietOne

LEMMA EndPageOne ==
  ASSUME IInv, OneByOne, OnePass, NEW w \in Workers, EndPage(w), UNCHANGED <<logVars, appVars>>
  PROVE  OneByOne'
<1> DEFINE backlog == {i \in DOMAIN log : marks[i] = "unattributed"}
<1>1. /\ UNCHANGED <<claimed, payments, marks>> /\ log' = log /\ ledger' = ledger
      /\ passes[w].stage = "page" /\ SetCursor(passes[w].committed)
      /\ passes' = [passes EXCEPT ![w] =
           [stage |-> "backlog", todo |-> Oldest(backlog), committed |-> 0, seen |-> NotRead]]
      /\ passes \in [Workers -> Pass]
  BY DEF EndPage, logVars, IInv, Typed
<1>2. claimed
  BY <1>1 DEF OneByOne, Attributed
<1>3. Oldest(backlog) = <<>>
  <2>1. backlog = {}
    BY DEF OneByOne
  <2>2. Cardinality({}) = 0 /\ {} \subseteq DOMAIN log
    BY FS_EmptySet
  <2>3. /\ Oldest({}) \in Seq(1 .. MaxEvents)
        /\ \A k \in DOMAIN Oldest({}) : Oldest({})[k] \in {}
    BY <2>2, ListIs DEF IInv
  <2>4. Len(Oldest({})) \in Nat /\ DOMAIN Oldest({}) = 1 .. Len(Oldest({}))
    BY <2>3, LenProperties
  <2>5. 1 \notin DOMAIN Oldest({})
    BY <2>3
  <2>6. Len(Oldest({})) = 0
    BY <2>4, <2>5
  <2>7. Oldest({}) = <<>>
    BY <2>3, <2>6, EmptySeq
  <2> QED
    BY <2>1, <2>7
<1> HIDE DEF backlog
<1>4. Attributed(passes[w])' /\ InTurn(passes[w])' /\ Alone(passes[w])'
  BY <1>1, <1>2, <1>3, EmptyHand
<1> QED
  BY <1>1, <1>4, CursorAdvances, QuietOne

\* Alone, a pass is never told that the payment it creates is there.
LEMMA NeverDuplicate ==
  ASSUME IInv, OneByOne, NEW w \in Workers
  PROVE  ~ApplyDuplicate(w)
<1> SUFFICES ASSUME ApplyDuplicate(w) PROVE FALSE
  OBVIOUS
<1>1. /\ passes[w].todo # <<>> /\ passes[w].seen # NotRead /\ passes[w].seen = NoPayment
      /\ log[At(w)].kind = "payment_added" /\ payments[log[At(w)].row] # NoPayment
  BY DEF ApplyDuplicate, Applying, Duplicate
<1>2. log[At(w)].row \in Rows
  BY <1>1, AtIs DEF OneByOne, Refundable
<1> QED
  BY <1>1, <1>2 DEF OneByOne, Alone, At

\* The rest of the application: it verifies nothing and creates nothing.
LEMMA AppOne ==
  ASSUME IInv, OneByOne, UNCHANGED <<logVars, marks, cursor, passes>>, claimed => claimed',
         \A r \in Rows : payments[r] = NoPayment => payments'[r] = NoPayment,
         \A r \in Rows : payments'[r] \in Verified => payments[r] \in Verified
  PROVE  OneByOne'
<1>1. log' = log /\ ledger' = ledger
  BY DEF logVars
<1>2. Chronological' /\ Refundable' /\ Ordered'
  BY <1>1 DEF OneByOne, Chronological, Refundable, Created, Logged, LoggedFor, Ordered, Lost
<1>3. Current'
  BY <1>1 DEF OneByOne, Current, HoldsProof, Lost
<1>4. \A i \in DOMAIN log' : marks'[i] # "unattributed"
  BY <1>1 DEF OneByOne
<1>5. ASSUME NEW w \in Workers
      PROVE  Attributed(passes[w])' /\ InTurn(passes[w])' /\ Alone(passes[w])'
  <2>1. Attributed(passes[w]) /\ InTurn(passes[w]) /\ Alone(passes[w])
    BY DEF OneByOne
  <2> QED
    BY <1>1, <2>1 DEF Attributed, InTurn, Alone
<1> QED
  BY <1>2, <1>3, <1>4, <1>5 DEF OneByOne

\* Nothing moves without a row.
LEMMA FromRow ==
  ASSUME NEW from, NEW to, NEW actor, Permitted(from, to, actor)
  PROVE  from \in PaymentState
<1>1. PICK t \in TRANSITIONS : t.from = from /\ t.to = to
  BY DEF Permitted, CheckTransition
<1> QED
  BY <1>1 DEF TRANSITIONS, Recovery, By, ByUser, Observed, ByMachine, PaymentState

LEMMA SwapOne ==
  ASSUME IInv, OneByOne, NEW r \in Rows, NEW was, NEW to, NEW actor,
         payments' = IF Swapped(was, to, actor, payments[r])
                     THEN [payments EXCEPT ![r] = to] ELSE payments,
         Swapped(was, to, actor, payments[r]) => to \notin Verified \union {NoPayment},
         UNCHANGED <<logVars, claimed, marks, cursor, passes>>
  PROVE  OneByOne'
<1>1. Swapped(was, to, actor, payments[r]) => payments[r] # NoPayment
  <2>1. NoPayment \notin PaymentState
    BY DEF NoPayment, PaymentState
  <2> QED
    BY <2>1, FromRow, SwappedIs
<1>2. payments \in [Rows -> RowState]
  BY DEF IInv, Typed
<1>3. /\ \A q \in Rows : payments[q] = NoPayment => payments'[q] = NoPayment
      /\ \A q \in Rows : payments'[q] \in Verified => payments[q] \in Verified
  BY <1>1, <1>2
<1> QED
  BY <1>3, AppOne

LEMMA RequestOne ==
  ASSUME IInv, OneByOne, Swap
  PROVE  OneByOne'
<1> DEFINE to == request.to
<1>1. request.row \in Rows /\ to \in Wanted
  BY DEF IInv, Typed, Asking, Swap, Requests
<1>2. ASSUME Swapped(request.was, to, User(request.role), payments[request.row])
      PROVE  to \notin Verified \union {NoPayment}
  <2>1. Permitted(payments[request.row], to, User(request.role))
    BY <1>2, SwappedIs
  <2>2. to # "READY_TO_SETTLE"
    BY <1>1, <2>1, UsersMay DEF IInv, Telling, Says
  <2> QED
    BY <1>1, <2>2 DEF Wanted, Verified, NoPayment
<1>3. UNCHANGED <<logVars, claimed, marks, cursor, passes>>
  BY DEF Swap
<1>4. payments' = IF Swapped(request.was, to, User(request.role), payments[request.row])
                  THEN [payments EXCEPT ![request.row] = to] ELSE payments
  BY DEF Swap
<1> HIDE DEF to
<1> QED
  BY <1>1, <1>2, <1>3, <1>4, SwapOne

LEMMA CorrectOne ==
  ASSUME IInv, OneByOne, Correct
  PROVE  OneByOne'
<1>1. audit.at \in Rows
  BY Correcting
<1>2. Target \notin Verified \union {NoPayment}
  BY DEF Target, Verified, NoPayment
<1>3. /\ UNCHANGED <<logVars, claimed, marks, cursor, passes>>
      /\ payments' = IF Swapped(audit.was, Target, Reconciler, payments[audit.at])
                     THEN [payments EXCEPT ![audit.at] = Target] ELSE payments
  BY DEF Correct
<1> QED
  BY <1>1, <1>2, <1>3, SwapOne

\* Of the events in its page, the one a pass applies is the next: all before
\* it were applied and none after it.
LEMMA NextInOrder ==
  ASSUME IInv, OneByOne, ~Lost, NEW w \in Workers,
         passes[w].todo # <<>>, passes[w].seen # NotRead
  PROVE  \A j \in DOMAIN log : /\ j < At(w) => marks[j] = "applied"
                               /\ At(w) <= j => marks[j] # "applied"
<1>1. /\ At(w) = passes[w].todo[1] /\ At(w) \in DOMAIN log
      /\ 1 \in DOMAIN passes[w].todo /\ passes[w].todo \in Seq(1 .. MaxEvents)
      /\ marks[At(w)] # "applied"
  BY InHand DEF At, OneByOne, Alone
<1>2. ASSUME NEW j \in DOMAIN log, j < At(w) PROVE marks[j] = "applied"
  <2>1. CASE log[j].ledger <= cursor
    BY <2>1 DEF Lost
  <2>2. CASE ~(log[j].ledger <= cursor)
    <3>1. cursor < log[j].ledger
      BY <2>2, LedgersAre DEF IInv
    <3>2. marks[j] = "applied" \/ \E m \in DOMAIN passes[w].todo : m < 1 /\ passes[w].todo[m] = j
      BY <1>1, <1>2, <3>1 DEF OneByOne, InTurn
    <3>3. \A m \in DOMAIN passes[w].todo : ~(m < 1)
      BY <1>1, LenProperties
    <3> QED
      BY <3>2, <3>3
  <2> QED
    BY <2>1, <2>2
<1>3. ASSUME NEW j \in DOMAIN log, At(w) <= j PROVE marks[j] # "applied"
  BY <1>1, <1>3 DEF OneByOne, Ordered
<1> QED
  BY <1>2, <1>3

\* A payment is verified by the proof it awaits, and by nothing else; a
\* rotation leaves none verified.
LEMMA VerifiedBy ==
  ASSUME payments \in [Rows -> RowState], NEW ev, NEW seen,
         payments' = Projected(payments, ev, seen),
         NEW r \in Rows, payments'[r] \in Verified
  PROVE  \/ ev.kind = "hours" /\ ev.row = r
         \/ ev.kind # "oracle_rotated" /\ payments[r] \in Verified
<1>1. CASE \E to \in {"AWAITING_ORACLE", "PAID", "CANCELLED"} : payments' = [payments EXCEPT ![ev.row] = to]
  <2>1. PICK to \in {"AWAITING_ORACLE", "PAID", "CANCELLED"} : payments' = [payments EXCEPT ![ev.row] = to]
    BY <1>1
  <2>2. payments[r] \in Verified
    BY <2>1 DEF Verified
  <2>3. ev.kind = "oracle_rotated" => payments' = [q \in Rows |-> IF payments[q] \in RevokedBy THEN "AWAITING_ORACLE" ELSE payments[q]]
    BY ProjectedIs
  <2>4. ev.kind # "oracle_rotated"
    BY <2>3 DEF Verified, RevokedBy
  <2> QED
    BY <2>2, <2>4
<1>2. CASE ev.kind = "hours" /\ payments' = Move(payments, ev.row, {"AWAITING_ORACLE"}, "ORACLE_VERIFIED")
  BY <1>2 DEF Move
<1>3. CASE ev.kind = "manager_approved" /\ payments' = Approved(payments, "AWAITING_MANAGER", "AWAITING_FINANCE")
  BY <1>3 DEF Approved, Verified
<1>4. CASE ev.kind = "finance_approved" /\ payments' = Approved(payments, "AWAITING_FINANCE", "READY_TO_SETTLE")
  BY <1>4 DEF Approved, Verified
<1>5. CASE payments' = [q \in Rows |-> IF payments[q] \in RevokedBy THEN "AWAITING_ORACLE" ELSE payments[q]]
  BY <1>5 DEF Verified, RevokedBy
<1>6. CASE ev.kind # "oracle_rotated" /\ payments' = payments
  BY <1>6
<1> QED
  BY <1>1, <1>2, <1>3, <1>4, <1>5, <1>6, ProjectedIs

\* What applying an event does where its escrow is claimed.
LEMMA AppliedIs ==
  ASSUME IInv, OneByOne, NEW w \in Workers, Apply(w), UNCHANGED <<logVars, appVars>>,
         NEW i, i = At(w)
  PROVE  /\ passes[w].todo # <<>> /\ passes[w].seen # NotRead /\ Onward(w, Past(w))
         /\ claimed' = claimed /\ cursor' = cursor /\ log' = log /\ ledger' = ledger
         /\ passes[w].seen # Unattributed /\ i \in DOMAIN log
         /\ payments' = Projected(payments, log[i], passes[w].seen)
         /\ \A j \in DOMAIN log : marks'[j] = IF j = i THEN "applied" ELSE marks[j]
         /\ Lost => Lost'
<1>1. /\ passes[w].todo # <<>> /\ passes[w].seen # NotRead /\ Onward(w, Past(w))
      /\ claimed' = claimed /\ cursor' = cursor /\ log' = log /\ ledger' = ledger
      /\ passes[w].seen # Unattributed /\ i \in DOMAIN log
  BY InHand DEF Apply, Applying, logVars, OneByOne, Attributed, At
<1>2. /\ payments' = Projected(payments, log[i], passes[w].seen)
      /\ marks' = [marks EXCEPT ![i] = "applied"]
  BY <1>1 DEF Apply, ApplyEvent, Marked
<1>3. \A j \in DOMAIN log : marks'[j] = IF j = i THEN "applied" ELSE marks[j]
  BY <1>2, PositionsAre DEF IInv, Typed
<1>4. ASSUME NEW j \in DOMAIN log, log[j].ledger <= cursor, marks[j] # "applied"
      PROVE  Lost'
  <2>1. cursor < log[i].ledger
    BY <1>1, InHand DEF OneByOne, InTurn, At
  <2>2. j # i
    BY <1>1, <1>4, <2>1, LedgersAre DEF IInv
  <2> QED
    BY <1>1, <1>3, <1>4, <2>2 DEF Lost
<1> QED
  BY <1>1, <1>2, <1>3, <1>4 DEF Lost

LEMMA ApplyOne ==
  ASSUME IInv, OneByOne, OnePass, NEW w \in Workers, Apply(w), UNCHANGED <<logVars, appVars>>
  PROVE  OneByOne'
<1>0. PICK i : i = At(w)
  OBVIOUS
<1>1. /\ passes[w].todo # <<>> /\ passes[w].seen # NotRead /\ Onward(w, Past(w))
      /\ claimed' = claimed /\ cursor' = cursor /\ log' = log /\ ledger' = ledger
      /\ i \in DOMAIN log
  BY <1>0, AppliedIs
<1>2. payments' = Projected(payments, log[i], passes[w].seen)
  BY <1>0, AppliedIs
<1>3. \A j \in DOMAIN log : marks'[j] = IF j = i THEN "applied" ELSE marks[j]
  BY <1>0, AppliedIs
<1>4. Attributed(passes[w])' /\ InTurn(passes[w])' /\ Alone(passes[w])'
  BY <1>0, <1>1, <1>3, OnwardOne
<1>5. Chronological' /\ Refundable'
  BY <1>1 DEF OneByOne, Chronological, Refundable, Created, Logged, LoggedFor
<1>6. Lost => Lost'
  BY <1>0, AppliedIs
<1>7. ASSUME ~Lost'
      PROVE  \A j \in DOMAIN log : marks'[j] = "applied" <=> j <= i
  <2>1. \A j \in DOMAIN log : (j < i => marks[j] = "applied") /\ (i <= j => marks[j] # "applied")
    BY <1>0, <1>1, <1>6, <1>7, NextInOrder
  <2>2. \A j \in DOMAIN log : j \in Nat /\ i \in Nat
    BY <1>1, LedgersAre DEF IInv
  <2> QED
    BY <1>3, <2>1, <2>2
<1>8. Ordered'
  <2> SUFFICES ASSUME ~Lost', NEW j \in DOMAIN log, NEW k \in DOMAIN log, j <= k, marks'[k] = "applied"
               PROVE  marks'[j] = "applied"
    BY <1>1 DEF Ordered
  <2>1. j \in Nat /\ k \in Nat /\ i \in Nat /\ k <= i
    BY <1>1, <1>7, LedgersAre DEF IInv
  <2>2. j <= i
    BY <2>1
  <2> QED
    BY <1>7, <2>2
<1>9. Current'
  <2> SUFFICES ASSUME ~Lost', NEW r \in Rows, payments'[r] \in Verified PROVE HoldsProof(r)'
    BY DEF Current
  <2>1. \A j \in DOMAIN log : j \in Nat
    BY LedgersAre DEF IInv
  <2>2. CASE log[i].kind = "hours" /\ log[i].row = r
    <3>1. \A j \in DOMAIN log : ~(i < j /\ marks'[j] = "applied")
      BY <1>1, <1>7, <2>1
    <3> QED
      BY <1>1, <1>3, <2>2, <3>1 DEF HoldsProof
  <2>3. CASE log[i].kind # "oracle_rotated" /\ payments[r] \in Verified
    <3>1. PICK p \in DOMAIN log :
            /\ log[p].kind = "hours" /\ log[p].row = r /\ marks[p] = "applied"
            /\ \A j \in DOMAIN log : p < j /\ marks[j] = "applied" => log[j].kind # "oracle_rotated"
      BY <1>6, <2>3 DEF OneByOne, Current, HoldsProof
    <3>2. \A j \in DOMAIN log : p < j /\ marks'[j] = "applied" => log[j].kind # "oracle_rotated"
      BY <1>3, <2>3, <3>1
    <3> QED
      BY <1>1, <1>3, <3>1, <3>2 DEF HoldsProof
  <2> QED
    BY <1>2, <2>2, <2>3, VerifiedBy DEF IInv, Typed
<1>10. \A j \in DOMAIN log' : marks'[j] # "unattributed"
  BY <1>1, <1>3 DEF OneByOne
<1>11. \A v \in Workers : Attributed(passes[v])' /\ InTurn(passes[v])' /\ Alone(passes[v])'
  BY <1>4 DEF OnePass
<1> QED
  BY <1>5, <1>8, <1>9, <1>10, <1>11 DEF OneByOne

LEMMA StartsOne ==
  ASSUME Init
  PROVE  OneByOne
<1>1. /\ log = <<>> /\ payments = [r \in Rows |-> IF OwnPayments THEN "VALIDATING" ELSE NoPayment]
      /\ passes = [w \in Workers |-> Idle]
  BY DEF Init, LogInit, IndexerInit
<1>2. DOMAIN log = {}
  BY <1>1, NothingLogged
<1>3. Chronological /\ Refundable /\ Ordered
  BY <1>1, <1>2, NothingLogged DEF Chronological, Refundable, Created, Ordered
<1>4. Current
  BY <1>1 DEF Current, Verified, NoPayment
<1>5. ASSUME NEW w \in Workers
      PROVE  Attributed(passes[w]) /\ InTurn(passes[w]) /\ Alone(passes[w])
  <2>1. /\ passes[w].stage = "idle" /\ passes[w].todo = <<>>
        /\ passes[w].seen = NotRead
    BY <1>1 DEF Idle
  <2>2. DOMAIN <<>> = {}
    BY EmptySeq, LenProperties
  <2> QED
    BY <2>1, <2>2 DEF Attributed, InTurn, Alone, NotRead, Unattributed
<1> QED
  BY <1>2, <1>3, <1>4, <1>5 DEF OneByOne

LEMMA StepOne ==
  ASSUME OnePass, IInv, IInv', OneByOne, [Next]_vars
  PROVE  OneByOne'
<1>1. CASE LogNext /\ UNCHANGED <<indexerVars, appVars>>
  BY <1>1, LogOne
<1>2. CASE IndexerNext /\ UNCHANGED <<logVars, appVars>>
  <2>1. ASSUME NEW w \in Workers, Fetch(w) \/ Step(w) \/ Fail(w) \/ Crash(w)
        PROVE  OneByOne'
    BY <1>2, <2>1, FetchOne, SkipOne, ReadOne, ApplyOne, NeverDuplicate, EndPageOne, EndsOne,
       FailOne DEF Step
  <2>2. CASE Claim
    BY <1>2, <2>2, AppOne DEF Claim
  <2> QED
    BY <1>2, <2>1, <2>2 DEF IndexerNext
<1>3. CASE AppNext
  <2>1. CASE Swap \/ Correct
    BY <2>1, RequestOne, CorrectOne
  <2>2. CASE ~(Swap \/ Correct)
    <3>1. UNCHANGED <<logVars, claimed, payments, marks, cursor, passes>>
      BY <1>3, <2>2 DEF AppNext, Request, ReadRows, ReadChain, Compare, Unconfirmed, Consult,
                        indexerVars, dbVars
    <3> QED
      BY <3>1, AppOne
  <2> QED
    BY <2>1, <2>2
<1>4. CASE UNCHANGED vars
  <2>1. UNCHANGED <<logVars, claimed, payments, marks, cursor, passes>>
    BY <1>4 DEF vars, indexerVars, dbVars
  <2> QED
    BY <2>1, AppOne
<1> QED
  BY <1>1, <1>2, <1>3, <1>4 DEF Next

LEMMA AlwaysOne ==
  ASSUME OnePass
  PROVE  Spec => [](IInv /\ OneByOne)
<1>1. Init => OneByOne
  BY StartsOne
<1>2. IInv /\ IInv' /\ OneByOne /\ [Next]_vars => OneByOne'
  BY StepOne
<1> QED
  BY <1>1, <1>2, Always, PTL DEF Spec

\* Where everything was applied nothing was passed over.
LEMMA NothingLost == CaughtUp => ~Lost
BY DEF CaughtUp, Lost

------------------------------------------------------------------------------
\* One pass at a time: what the contract refunded it had created, and nobody
\* takes such a payment anywhere but to an end of its own or into a submission.

\* Where users and the reconciliation may take a payment to, and where a
\* refunded one then is.
Decided == {"PAID", "CANCELLED", "REJECTED", "SUBMITTING"}
Gone == {"CANCELLED", "REJECTED", "SUBMITTING"}

\* The states a payment takes after the contract created it.
Reached ==
  {"AWAITING_ORACLE", "ORACLE_VERIFIED", "AWAITING_MANAGER", "AWAITING_FINANCE",
   "READY_TO_SETTLE"} \union Decided

\* Between a pass's read and its write users and the reconciliation move the
\* payment, to where no event but its settlement or its refund finds it.
Fresh(pass) ==
  pass.todo # <<>> /\ pass.seen # NotRead /\ log[Head(pass.todo)].row \in Rows =>
    \/ payments[log[Head(pass.todo)].row] = pass.seen
    \/ payments[log[Head(pass.todo)].row] \in Decided

Untouched ==
  /\ \A r \in Rows : payments[r] \in Reached \union {NoPayment, "VALIDATING"}
  /\ \A w \in Workers : Fresh(passes[w])
  /\ \A i \in DOMAIN log : log[i].kind = "payment_added" /\ marks[i] = "applied" =>
       payments[log[i].row] \in Reached
  /\ ~Lost => \A i \in DOMAIN log : log[i].kind = "payment_cancelled" /\ marks[i] = "applied" =>
       payments[log[i].row] \in Gone

\* A step that moves no payment and applies nothing.
LEMMA QuietUntouched ==
  ASSUME IInv, Untouched, UNCHANGED <<payments, marks>>,
         \A i \in DOMAIN log : i \in DOMAIN log' /\ log'[i] = log[i],
         \A j \in DOMAIN log' : j \in DOMAIN log \/ marks[j] = "unseen",
         cursor' \in Nat, cursor <= cursor', \A w \in Workers : Fresh(passes[w])'
  PROVE  Untouched'
<1>1. Lost => Lost'
  BY LedgersAre DEF IInv, Lost
<1>2. \A i \in DOMAIN log' : log'[i].kind = "payment_added" /\ marks'[i] = "applied" =>
        payments'[log'[i].row] \in Reached
  BY DEF Untouched
<1>3. ~Lost' => \A i \in DOMAIN log' : log'[i].kind = "payment_cancelled" /\ marks'[i] = "applied" =>
        payments'[log'[i].row] \in Gone
  BY <1>1 DEF Untouched
<1> QED
  BY <1>2, <1>3 DEF Untouched

\* A step of the pass that begins nothing anew.
LEMMA FreshAgain ==
  ASSUME IInv, OneByOne, OnePass, NEW w \in Workers, UNCHANGED <<logVars, appVars>>,
         Fetch(w) \/ Skip(w) \/ Read(w) \/ EndPage(w) \/ EndPass(w) \/ Fail(w) \/ Crash(w)
  PROVE  /\ UNCHANGED <<payments, marks>> /\ cursor' \in Nat /\ cursor <= cursor'
         /\ \A v \in Workers : Fresh(passes[v])'
<1>1. passes \in [Workers -> Pass] /\ cursor \in Nat /\ log' = log
  BY DEF IInv, Typed, logVars
<1>2. UNCHANGED <<payments, marks>>
  BY DEF Fetch, Skip, Read, EndPage, EndPass, Fail, Crash, dbVars
<1>3. CASE UNCHANGED cursor /\ passes'[w].seen = NotRead
  <2>1. Fresh(passes[w])'
    BY <1>3 DEF Fresh
  <2> QED
    BY <1>1, <1>2, <1>3, <2>1 DEF OnePass
<1>4. CASE Fetch(w) \/ Crash(w) \/ EndPass(w)
  BY <1>1, <1>3, <1>4 DEF Fetch, Crash, EndPass, Idle, dbVars
<1>5. CASE Skip(w)
  <2>1. Onward(w, Past(w)) /\ UNCHANGED cursor
    BY <1>5 DEF Skip, dbVars
  <2>2. passes'[w].seen = NotRead
    BY <1>1, <2>1 DEF Onward, Pass
  <2> QED
    BY <1>3, <2>1, <2>2
<1>6. CASE Fail(w) \/ EndPage(w)
  <2>1. passes[w].stage = "page"
    BY <1>6 DEF Fail, Applying, EndPage, OneByOne, Attributed
  <2>2. SetCursor(passes[w].committed)
    BY <1>6, <2>1 DEF Fail, EndPage
  <2>3. passes'[w].seen = NotRead
    BY <1>1, <1>6, <2>1 DEF Fail, EndPage, Idle
  <2>4. Fresh(passes[w])'
    BY <2>3 DEF Fresh
  <2> QED
    BY <1>2, <2>1, <2>2, <2>4, CursorAdvances DEF OnePass
<1>7. CASE Read(w)
  <2>1. /\ passes[w].todo # <<>> /\ UNCHANGED <<cursor, payments>>
        /\ passes' = [passes EXCEPT ![w].seen =
             IF ~claimed THEN Unattributed
             ELSE IF log[At(w)].row = NoRow THEN NoPayment ELSE payments[log[At(w)].row]]
    BY <1>7 DEF Read, Reading, dbVars
  <2>2. claimed
    BY <2>1 DEF OneByOne, Attributed
  <2>3. /\ passes'[w].todo = passes[w].todo
        /\ passes'[w].seen = IF log[At(w)].row = NoRow THEN NoPayment ELSE payments[log[At(w)].row]
    BY <1>1, <2>1, <2>2 DEF Pass
  <2>4. Fresh(passes[w])'
    BY <1>1, <2>1, <2>3, RowsAre DEF Fresh, At
  <2> QED
    BY <1>1, <1>2, <2>1, <2>4 DEF OnePass
<1> QED
  BY <1>4, <1>5, <1>6, <1>7

\* The contract refunds what it never paid.
LEMMA RefundedIsUnpaid ==
  ASSUME IInv'
  PROVE  \A r \in Rows : Refunded(r)' => payments'[r] # "PAID"
BY DEF IInv, Telling, Says, LogSound

\* Some transitions that the machines may and may not make.
LEMMA MachinesMay ==
  /\ Permitted("VALIDATING", "AWAITING_ORACLE", Indexer)
  /\ \A from \in {"AWAITING_ORACLE", "ORACLE_VERIFIED", "AWAITING_MANAGER", "AWAITING_FINANCE",
                  "READY_TO_SETTLE"} : Permitted(from, "CANCELLED", Indexer)
  /\ ~Permitted("SUBMITTING", "AWAITING_ORACLE", Indexer)
<1>1. ASSUME NEW from, NEW to, from # to, from \notin TERMINAL_STATES, Observed(from, to) \in TRANSITIONS
      PROVE  Permitted(from, to, Indexer)
  <2> DEFINE found == {t \in TRANSITIONS : t.from = from /\ t.to = to}
  <2>1. Observed(from, to) \in found /\ "indexer" \in Observed(from, to).actors
    BY <1>1 DEF Observed, By, CHAIN_OBSERVERS
  <2>2. Indexer.kind = "indexer"
    BY DEF Indexer, Machine
  <2>3. found # {} /\ ~(\A t \in found : Indexer.kind \notin t.actors) /\ Indexer.kind # "user"
    BY <2>1, <2>2
  <2> HIDE DEF found
  <2>4. CheckTransition(from, to, Indexer) = "OK"
    BY <1>1, <2>3, Zenon DEF CheckTransition, found
  <2> QED
    BY <2>4 DEF Permitted
<1>2. Permitted("VALIDATING", "AWAITING_ORACLE", Indexer)
  <2>1. Observed("VALIDATING", "AWAITING_ORACLE") \in TRANSITIONS
    BY Zenon DEF TRANSITIONS
  <2> QED
    BY <1>1, <2>1 DEF TERMINAL_STATES
<1>3. ASSUME NEW from \in {"AWAITING_ORACLE", "ORACLE_VERIFIED", "AWAITING_MANAGER",
                           "AWAITING_FINANCE", "READY_TO_SETTLE"}
      PROVE  Permitted(from, "CANCELLED", Indexer)
  <2>1. Observed(from, "CANCELLED") \in TRANSITIONS
    BY Zenon DEF TRANSITIONS
  <2> QED
    BY <1>1, <2>1 DEF TERMINAL_STATES
<1>4. ASSUME Permitted("SUBMITTING", "AWAITING_ORACLE", Indexer)
      PROVE  FALSE
  <2>1. PICK t \in TRANSITIONS : t.from = "SUBMITTING" /\ t.to = "AWAITING_ORACLE"
    BY <1>4 DEF Permitted, CheckTransition
  <2> QED
    BY <2>1 DEF TRANSITIONS, Recovery, By, ByUser, Observed, ByMachine, CHAIN_OBSERVERS
<1> QED
  BY <1>2, <1>3, <1>4

\* What users and the reconciliation move they take to where it stays decided;
\* what the contract refunded it did not pay.
LEMMA AppUntouched ==
  ASSUME IInv, IInv', OneByOne, Untouched, UNCHANGED <<logVars, marks, cursor, passes>>,
         \A r \in Rows : payments'[r] = payments[r] \/ payments'[r] \in Decided
  PROVE  Untouched'
<1>1. log' = log /\ (Lost' <=> Lost) /\ marks' = marks /\ passes' = passes
  BY DEF logVars, Lost
<1>2. \A r \in Rows : /\ payments'[r] \in Reached \union {NoPayment, "VALIDATING"}
                      /\ payments[r] \in Reached => payments'[r] \in Reached
  BY DEF Untouched, Reached
<1>3. \A w \in Workers : Fresh(passes[w])'
  BY <1>1 DEF Untouched, Fresh
<1>4. \A i \in DOMAIN log : log[i].kind \in {"payment_added", "payment_cancelled"} => log[i].row \in Rows
  BY DEF OneByOne, Refundable
<1>5. \A i \in DOMAIN log' : log'[i].kind = "payment_added" /\ marks'[i] = "applied" =>
        payments'[log'[i].row] \in Reached
  BY <1>1, <1>2, <1>4 DEF Untouched
<1>6. ASSUME ~Lost', NEW i \in DOMAIN log', log'[i].kind = "payment_cancelled", marks'[i] = "applied"
      PROVE  payments'[log'[i].row] \in Gone
  <2>1. i \in DOMAIN log /\ log[i].row \in Rows /\ log'[i].row = log[i].row
    BY <1>1, <1>4, <1>6
  <2>2. payments[log[i].row] \in Gone
    BY <1>1, <1>6, <2>1 DEF Untouched
  <2>3. Refunded(log[i].row)'
    BY <1>1, <1>6, <2>1 DEF Refunded, LoggedFor
  <2>4. payments'[log[i].row] # "PAID"
    BY <2>1, <2>3, RefundedIsUnpaid
  <2> QED
    BY <2>1, <2>2, <2>4 DEF Decided, Gone
<1> QED
  BY <1>2, <1>3, <1>5, <1>6 DEF Untouched

\* The reconciliation settles or cancels.
LEMMA CorrectUntouched ==
  ASSUME IInv, IInv', OneByOne, Untouched, Correct
  PROVE  Untouched'
<1>1. audit.at \in Rows /\ Target \in Decided /\ payments \in [Rows -> RowState]
  BY Correcting DEF Target, Decided, IInv, Typed
<1>2. payments' = [payments EXCEPT ![audit.at] = Target] \/ payments' = payments
  BY DEF Correct
<1>3. \A r \in Rows : payments'[r] = payments[r] \/ payments'[r] \in Decided
  BY <1>1, <1>2
<1>4. UNCHANGED <<logVars, marks, cursor, passes>>
  BY DEF Correct
<1> QED
  BY <1>3, <1>4, AppUntouched

\* A user rejects, cancels or submits: there is no failed submission to retry.
LEMMA SwapUntouched ==
  ASSUME IInv, IInv', OneByOne, Untouched, Swap
  PROVE  Untouched'
<1> DEFINE to == request.to
           done == Swapped(request.was, to, User(request.role), payments[request.row])
<1>1. request.row \in Rows /\ to \in Wanted /\ payments \in [Rows -> RowState]
  BY DEF IInv, Typed, Asking, Swap, Requests
<1>2. payments' = IF done THEN [payments EXCEPT ![request.row] = to] ELSE payments
  BY DEF Swap
<1>3. ASSUME done
      PROVE  to \in Decided
  <2>1. Permitted(payments[request.row], to, User(request.role))
    BY <1>3, SwappedIs
  <2>2. to # "READY_TO_SETTLE"
    BY <1>1, <2>1, UsersMay DEF IInv, Telling, Says
  <2> QED
    BY <1>1, <2>2 DEF Wanted, Decided
<1> HIDE DEF done, to
<1>4. \A r \in Rows : payments'[r] = payments[r] \/ payments'[r] \in Decided
  BY <1>1, <1>2, <1>3
<1>5. UNCHANGED <<logVars, marks, cursor, passes>>
  BY DEF Swap
<1> QED
  BY <1>4, <1>5, AppUntouched

\* An event moves payments the contract created to states it takes after.
LEMMA AppliedReaches ==
  ASSUME payments \in [Rows -> RowState],
         \A r \in Rows : payments[r] \in Reached \union {NoPayment, "VALIDATING"},
         NEW ev, NEW seen, payments' = Projected(payments, ev, seen)
  PROVE  \A r \in Rows : \/ payments'[r] = payments[r]
                         \/ payments'[r] \in Reached
<1>1. CASE \E to \in {"AWAITING_ORACLE", "PAID", "CANCELLED"} : payments' = [payments EXCEPT ![ev.row] = to]
  BY <1>1 DEF Reached, Decided
<1>2. CASE payments' = Move(payments, ev.row, {"AWAITING_ORACLE"}, "ORACLE_VERIFIED")
  BY <1>2 DEF Move, Reached
<1>3. CASE payments' = Approved(payments, "AWAITING_MANAGER", "AWAITING_FINANCE")
  BY <1>3 DEF Approved, Reached
<1>4. CASE payments' = Approved(payments, "AWAITING_FINANCE", "READY_TO_SETTLE")
  BY <1>4 DEF Approved, Reached
<1>5. CASE payments' = [q \in Rows |-> IF payments[q] \in RevokedBy THEN "AWAITING_ORACLE" ELSE payments[q]]
  BY <1>5 DEF Reached
<1>6. CASE payments' = payments
  BY <1>6
<1> QED
  BY <1>1, <1>2, <1>3, <1>4, <1>5, <1>6, ProjectedIs

\* What the contract created has reached the approval chain once that is applied.
LEMMA AddedReaches ==
  ASSUME payments \in [Rows -> RowState], NEW ev, NEW seen, payments' = Projected(payments, ev, seen),
         ev.kind = "payment_added", ev.row \in Rows,
         payments[ev.row] \in Reached \union {NoPayment, "VALIDATING"},
         payments[ev.row] = seen \/ payments[ev.row] \in Reached,
         \A r \in Rows : payments'[r] = payments[r] \/ payments'[r] \in Reached
  PROVE  payments'[ev.row] \in Reached
<1>1. CASE payments[ev.row] \in Reached
  BY <1>1
<1>2. CASE seen = NoPayment
  <2>1. payments' = [payments EXCEPT ![ev.row] = "AWAITING_ORACLE"]
    BY <1>2, Zenon DEF Projected
  <2> QED
    BY <2>1 DEF Reached
<1>3. CASE seen = "VALIDATING" /\ payments[ev.row] = seen
  <2>1. Swapped(seen, "AWAITING_ORACLE", Indexer, payments[ev.row])
    BY <1>3, MachinesMay DEF Swapped
  <2>2. seen # NoPayment
    BY <1>3 DEF NoPayment
  <2>3. payments' = [payments EXCEPT ![ev.row] = "AWAITING_ORACLE"]
    BY <1>3, <2>1, <2>2, Zenon DEF Projected
  <2> QED
    BY <2>3 DEF Reached
<1> QED
  BY <1>1, <1>2, <1>3

\* A refund that is applied to a payment not yet at its end ends it.
LEMMA RefundEnds ==
  ASSUME NEW ev, NEW seen, payments' = Projected(payments, ev, seen),
         payments \in [Rows -> RowState], ev.kind = "payment_cancelled", ev.row \in Rows,
         payments[ev.row] = seen, seen \in Reached, seen \notin Decided
  PROVE  payments'[ev.row] = "CANCELLED"
<1>1. Swapped(seen, "CANCELLED", Indexer, payments[ev.row]) /\ seen # NoPayment
  BY MachinesMay DEF Swapped, Reached, Decided, NoPayment
<1>2. payments' = [payments EXCEPT ![ev.row] = "CANCELLED"]
  BY <1>1, Zenon DEF Projected
<1> QED
  BY <1>2

\* From a submission an event takes a payment to its end only.
LEMMA SubmittedStays ==
  ASSUME payments \in [Rows -> RowState], NEW ev, NEW seen, payments' = Projected(payments, ev, seen),
         ~(ev.kind = "payment_added" /\ seen = NoPayment),
         NEW r \in Rows, payments[r] = "SUBMITTING"
  PROVE  payments'[r] \in {"SUBMITTING", "PAID", "CANCELLED"}
<1>1. CASE Swapped(seen, "AWAITING_ORACLE", Indexer, payments[ev.row]) /\
           payments' = [payments EXCEPT ![ev.row] = "AWAITING_ORACLE"]
  <2>1. Permitted(payments[ev.row], "AWAITING_ORACLE", Indexer)
    BY <1>1, SwappedIs
  <2>2. ev.row # r
    BY <2>1, MachinesMay
  <2> QED
    BY <1>1, <2>2
<1>2. CASE \E to \in {"PAID", "CANCELLED"} : payments' = [payments EXCEPT ![ev.row] = to]
  BY <1>2
<1>3. CASE payments' = Move(payments, ev.row, {"AWAITING_ORACLE"}, "ORACLE_VERIFIED")
  BY <1>3 DEF Move
<1>4. CASE payments' = Approved(payments, "AWAITING_MANAGER", "AWAITING_FINANCE")
  BY <1>4 DEF Approved
<1>5. CASE payments' = Approved(payments, "AWAITING_FINANCE", "READY_TO_SETTLE")
  BY <1>5 DEF Approved
<1>6. CASE payments' = [q \in Rows |-> IF payments[q] \in RevokedBy THEN "AWAITING_ORACLE" ELSE payments[q]]
  BY <1>6 DEF RevokedBy
<1>7. CASE payments' = payments
  BY <1>7
<1> QED
  BY <1>1, <1>2, <1>3, <1>4, <1>5, <1>6, <1>7, ProjectedIs

LEMMA ApplyUntouched ==
  ASSUME IInv, IInv', OneByOne, OnePass, Untouched, NEW w \in Workers, Apply(w),
         UNCHANGED <<logVars, appVars>>
  PROVE  Untouched'
<1>0. PICK i : i = At(w)
  OBVIOUS
<1> DEFINE ev == log[i]
           seen == passes[w].seen
<1>1. /\ passes[w].todo # <<>> /\ seen # NotRead /\ Onward(w, Past(w))
      /\ cursor' = cursor /\ log' = log /\ i \in DOMAIN log
  BY <1>0, AppliedIs
<1>2. payments' = Projected(payments, ev, seen)
  BY <1>0, AppliedIs
<1>3. \A j \in DOMAIN log : marks'[j] = IF j = i THEN "applied" ELSE marks[j]
  BY <1>0, AppliedIs
<1>4. /\ payments \in [Rows -> RowState] /\ passes \in [Workers -> Pass]
      /\ \A r \in Rows : payments[r] \in Reached \union {NoPayment, "VALIDATING"}
  BY DEF IInv, Typed, Untouched
<1>5. ev.row \in Rows => payments[ev.row] = seen \/ payments[ev.row] \in Decided
  BY <1>0, <1>1 DEF Untouched, Fresh, At
<1>6. \A r \in Rows : payments'[r] = payments[r] \/ payments'[r] \in Reached
  BY <1>2, <1>4, AppliedReaches
<1>7. ASSUME NEW r \in Rows, Refunded(r), payments[r] \in Gone
      PROVE  payments'[r] \in Gone
  <2>1. Moves
    <3>1. ev.kind = "payment_added" /\ seen = NoPayment => payments[ev.row] = NoPayment
      BY <1>0 DEF Apply, Duplicate
    <3> QED
      BY <1>1, <1>2, <3>1, AppliedMoves
  <2>2. CASE payments[r] \in {"CANCELLED", "REJECTED"}
    BY <1>7, <2>1, <2>2 DEF Moves, TERMINAL_STATES
  <2>3. CASE payments[r] = "SUBMITTING"
    <3>1. CASE ev.kind = "payment_added" /\ seen = NoPayment
      <4>1. payments[ev.row] = NoPayment
        BY <1>0, <3>1 DEF Apply, Duplicate
      <4>2. payments' = [payments EXCEPT ![ev.row] = "AWAITING_ORACLE"]
        BY <1>2, <3>1, Zenon DEF Projected
      <4>3. ev.row # r
        BY <2>3, <4>1 DEF NoPayment
      <4> QED
        BY <1>7, <4>2, <4>3
    <3>2. CASE ~(ev.kind = "payment_added" /\ seen = NoPayment)
      <4>1. payments'[r] \in {"SUBMITTING", "PAID", "CANCELLED"}
        BY <1>2, <1>4, <1>7, <2>3, <3>2, SubmittedStays
      <4>2. Refunded(r)'
        BY <1>1, <1>7 DEF Refunded, LoggedFor
      <4>3. payments'[r] # "PAID"
        BY <4>2, RefundedIsUnpaid
      <4> QED
        BY <4>1, <4>3 DEF Gone
    <3> QED
      BY <3>1, <3>2
  <2> QED
    BY <1>7, <2>2, <2>3 DEF Gone
<1>8. Lost => Lost'
  BY <1>0, AppliedIs
<1>9. /\ \A j \in DOMAIN log : log[j].kind = "payment_added" => log[j].row \in Rows
      /\ \A j \in DOMAIN log : log[j].kind = "payment_cancelled" =>
           /\ log[j].row \in Rows
           /\ \E p \in DOMAIN log : p < j /\ log[p].kind = "payment_added" /\ log[p].row = log[j].row
  BY DEF OneByOne, Refundable
<1>10. ASSUME NEW j \in DOMAIN log, log[j].kind = "payment_added", marks'[j] = "applied"
       PROVE  payments'[log[j].row] \in Reached
  <2>1. CASE j = i
    <3>1. payments[ev.row] = seen \/ payments[ev.row] \in Reached
      BY <1>5, <1>9, <1>10, <2>1 DEF Reached
    <3>2. ev.kind = "payment_added" /\ ev.row \in Rows
      BY <1>9, <1>10, <2>1
    <3> HIDE DEF ev, seen
    <3>3. payments'[ev.row] \in Reached
      BY <1>2, <1>4, <1>6, <3>1, <3>2, AddedReaches
    <3> QED
      BY <2>1, <3>3 DEF ev
  <2>2. CASE j # i
    BY <1>3, <1>6, <1>9, <1>10, <2>2 DEF Untouched
  <2> QED
    BY <2>1, <2>2
<1>11. ASSUME ~Lost', NEW j \in DOMAIN log, log[j].kind = "payment_cancelled", marks'[j] = "applied"
       PROVE  payments'[log[j].row] \in Gone
  <2>1. log[j].row \in Rows /\ Refunded(log[j].row)
    BY <1>9, <1>11 DEF Refunded, LoggedFor
  <2>2. CASE payments[log[j].row] \in Gone
    BY <1>7, <2>1, <2>2
  <2>3. CASE j # i
    <3>1. payments[log[j].row] \in Gone
      BY <1>3, <1>8, <1>11, <2>3 DEF Untouched
    <3> QED
      BY <2>2, <3>1
  <2>4. CASE j = i /\ payments[ev.row] \notin Gone
    <3>1. PICK p \in DOMAIN log : p < i /\ log[p].kind = "payment_added" /\ log[p].row = ev.row
      BY <1>1, <1>9, <1>11, <2>4
    <3>2. marks[p] = "applied"
      BY <1>0, <1>1, <1>8, <1>11, <3>1, NextInOrder
    <3>3. payments[ev.row] \in Reached
      BY <3>1, <3>2 DEF Untouched
    <3>4. ev.row \in Rows /\ Refunded(ev.row) /\ ev.kind = "payment_cancelled"
      BY <1>11, <2>1, <2>4
    <3>5. payments[ev.row] # "PAID"
      BY <3>4 DEF IInv, LogSound, Telling, Says
    <3>6. payments[ev.row] \notin Decided
      BY <2>4, <3>5 DEF Decided, Gone
    <3>7. payments[ev.row] = seen /\ seen \in Reached /\ seen \notin Decided
      BY <1>5, <3>3, <3>4, <3>6
    <3> HIDE DEF ev, seen
    <3>8. payments'[ev.row] = "CANCELLED"
      BY <1>2, <1>4, <3>4, <3>7, RefundEnds
    <3> QED
      BY <2>4, <3>8 DEF ev, Gone
  <2> QED
    BY <2>2, <2>3, <2>4
<1>12. \A v \in Workers : Fresh(passes[v])'
  <2>1. passes'[w].seen = NotRead
    BY <1>1, <1>4 DEF Onward, Pass
  <2> QED
    BY <2>1 DEF Fresh, OnePass
<1>13. \A r \in Rows : payments'[r] \in Reached \union {NoPayment, "VALIDATING"}
  BY <1>4, <1>6
<1> HIDE DEF ev, seen
<1> QED
  BY <1>1, <1>4, <1>10, <1>11, <1>12, <1>13 DEF Untouched

LEMMA LogUntouched ==
  ASSUME IInv, IInv', Untouched, LogNext, UNCHANGED <<indexerVars, appVars>>
  PROVE  Untouched'
<1>1. Grows
  BY LogStep DEF IInv
<1>2. \A i \in DOMAIN log : i \in DOMAIN log' /\ log'[i] = log[i]
  BY <1>1 DEF Grows
<1>3. UNCHANGED <<payments, marks, cursor, passes>>
  BY DEF indexerVars, dbVars
<1>4. \A j \in DOMAIN log' : j \in DOMAIN log \/ marks[j] = "unseen"
  <2>1. DOMAIN log' \subseteq 1 .. MaxEvents
    BY LogAssumption, LenProperties DEF IInv, Typed
  <2> QED
    BY <2>1 DEF IInv, Shown
<1>5. \A w \in Workers : Fresh(passes[w])'
  BY <1>2, <1>3, InHand DEF Untouched, Fresh
<1>6. cursor' \in Nat /\ cursor <= cursor'
  BY <1>3 DEF IInv, Typed
<1> QED
  BY <1>2, <1>3, <1>4, <1>5, <1>6, QuietUntouched

LEMMA StartsUntouched ==
  ASSUME Init
  PROVE  Untouched
<1>1. /\ log = <<>> /\ payments = [r \in Rows |-> IF OwnPayments THEN "VALIDATING" ELSE NoPayment]
      /\ passes = [w \in Workers |-> Idle]
  BY DEF Init, LogInit, IndexerInit
<1>2. DOMAIN log = {}
  BY <1>1, NothingLogged
<1>3. \A w \in Workers : Fresh(passes[w])
  BY <1>1 DEF Fresh, Idle
<1> QED
  BY <1>1, <1>2, <1>3 DEF Untouched

LEMMA StepUntouched ==
  ASSUME OnePass, IInv, IInv', OneByOne, Untouched, [Next]_vars
  PROVE  Untouched'
<1>1. CASE LogNext /\ UNCHANGED <<indexerVars, appVars>>
  BY <1>1, LogUntouched
<1>2. ASSUME UNCHANGED <<logVars, payments, marks, cursor, passes>>
      PROVE  Untouched'
  <2>1. log' = log /\ cursor' \in Nat /\ cursor <= cursor'
    BY <1>2 DEF logVars, IInv, Typed
  <2>2. \A w \in Workers : Fresh(passes[w])'
    BY <1>2, <2>1 DEF Untouched, Fresh
  <2> QED
    BY <1>2, <2>1, <2>2, QuietUntouched
<1>3. CASE IndexerNext /\ UNCHANGED <<logVars, appVars>>
  <2>1. ASSUME NEW w \in Workers,
               Fetch(w) \/ Skip(w) \/ Read(w) \/ EndPage(w) \/ EndPass(w) \/ Fail(w) \/ Crash(w)
        PROVE  Untouched'
    <3>1. /\ UNCHANGED <<payments, marks>> /\ cursor' \in Nat /\ cursor <= cursor'
          /\ \A v \in Workers : Fresh(passes[v])'
      BY <1>3, <2>1, FreshAgain
    <3>2. log' = log
      BY <1>3 DEF logVars
    <3> QED
      BY <3>1, <3>2, QuietUntouched
  <2>2. CASE Claim
    <3>1. UNCHANGED <<logVars, payments, marks, cursor, passes>>
      BY <1>3, <2>2 DEF Claim
    <3> QED
      BY <1>2, <3>1
  <2> QED
    BY <1>3, <2>1, <2>2, ApplyUntouched, NeverDuplicate DEF IndexerNext, Step
<1>4. CASE AppNext
  <2>1. CASE Correct
    BY <2>1, CorrectUntouched
  <2>2. CASE Swap
    BY <2>2, SwapUntouched
  <2>3. CASE ~Correct /\ ~Swap
    <3>1. UNCHANGED <<logVars, payments, marks, cursor, passes>>
      BY <1>4, <2>3 DEF AppNext, Request, ReadRows, ReadChain, Compare, Unconfirmed, Consult,
                        indexerVars, dbVars
    <3> QED
      BY <1>2, <3>1
  <2> QED
    BY <2>1, <2>2, <2>3
<1>5. CASE UNCHANGED vars
  <2>1. UNCHANGED <<logVars, payments, marks, cursor, passes>>
    BY <1>5 DEF vars, indexerVars, dbVars
  <2> QED
    BY <1>2, <2>1
<1> QED
  BY <1>1, <1>3, <1>4, <1>5 DEF Next

LEMMA AlwaysUntouched ==
  ASSUME OnePass
  PROVE  Spec => [](IInv /\ OneByOne /\ Untouched)
<1>1. Init => Untouched
  BY StartsUntouched
<1>2. IInv /\ IInv' /\ OneByOne /\ Untouched /\ [Next]_vars => Untouched'
  BY StepUntouched
<1> QED
  BY <1>1, <1>2, AlwaysOne, PTL DEF Spec

------------------------------------------------------------------------------
\* One pass at a time and nobody else writing: the payments follow the log.

Unused == Roles = {}

\* The payments before the first event.
Blank == [r \in Rows |-> IF OwnPayments THEN "VALIDATING" ELSE NoPayment]
\* What event k makes of the payments db.
Then(db, k) == Projected(db, log[k], Finds(db, log[k]))

\* Since a pass read, nothing moved.
Matches(pass) ==
  pass.todo # <<>> /\ pass.seen # NotRead => pass.seen = Finds(payments, log[Head(pass.todo)])

\* h is what the first n events made of the payments, one after the other.
Retells(h, n) == h[0] = Blank /\ \A k \in 1 .. n : h[k] = Then(h[k - 1], k)
\* The first n events were applied, and made the payments what they are.
CaughtUpTo(n) ==
  /\ \A i \in DOMAIN log : marks[i] = "applied" <=> i <= n
  /\ \E h : Retells(h, n) /\ payments = h[n]

InStep ==
  /\ request = NoRequest /\ audit = NoAudit
  /\ \A w \in Workers : Matches(passes[w])
  /\ ~Lost => \E n \in 0 .. Len(log) : CaughtUpTo(n)

\* A step that moves no payment and applies nothing.
LEMMA QuietInStep ==
  ASSUME IInv, InStep, UNCHANGED <<payments, marks, request, audit>>,
         Len(log) <= Len(log'), log' \in Seq(Event),
         \A i \in DOMAIN log : i \in DOMAIN log' /\ log'[i] = log[i],
         \A j \in DOMAIN log' : j \in DOMAIN log \/ marks[j] = "unseen",
         cursor' \in Nat, cursor <= cursor', \A w \in Workers : Matches(passes[w])'
  PROVE  InStep'
<1>1. Lost => Lost'
  BY LedgersAre DEF IInv, Lost
<1>2. /\ Len(log) \in Nat /\ DOMAIN log = 1 .. Len(log)
      /\ Len(log') \in Nat /\ DOMAIN log' = 1 .. Len(log')
  BY LenProperties DEF IInv, Typed
<1>3. ASSUME ~Lost
      PROVE  \E n \in 0 .. Len(log') : CaughtUpTo(n)'
  <2>1. PICK n \in 0 .. Len(log) : CaughtUpTo(n)
    BY <1>3 DEF InStep
  <2>2. PICK h : Retells(h, n) /\ payments = h[n]
    BY <2>1 DEF CaughtUpTo
  <2>3. n \in 0 .. Len(log')
    BY <1>2
  <2>4. ASSUME NEW i \in DOMAIN log'
        PROVE  marks'[i] = "applied" <=> i <= n
    <3>1. CASE i \in DOMAIN log
      BY <2>1, <3>1 DEF CaughtUpTo
    <3>2. CASE i \notin DOMAIN log
      BY <1>2, <2>4, <3>2
    <3> QED
      BY <3>1, <3>2
  <2>5. h[0] = Blank /\ \A k \in 1 .. n : h[k] = Then(h[k - 1], k)'
    <3>1. \A k \in 1 .. n : log'[k] = log[k]
      BY <1>2
    <3> QED
      BY <2>2, <3>1 DEF Retells, Then
  <2>6. Retells(h, n)'
    BY <2>5 DEF Retells
  <2>7. payments' = h[n]
    BY <2>2
  <2> QED
    BY <2>3, <2>4, <2>6, <2>7 DEF CaughtUpTo
<1> QED
  BY <1>1, <1>3 DEF InStep

LEMMA LogInStep ==
  ASSUME IInv, IInv', InStep, LogNext, UNCHANGED <<indexerVars, appVars>>
  PROVE  InStep'
<1>1. Grows
  BY LogStep DEF IInv
<1>2. /\ log' \in Seq(Event) /\ \A i \in DOMAIN log : i \in DOMAIN log' /\ log'[i] = log[i]
  BY <1>1 DEF Grows
<1>3. UNCHANGED <<payments, marks, cursor, passes, request, audit>>
  BY DEF indexerVars, dbVars, appVars
<1>4. \A j \in DOMAIN log' : j \in DOMAIN log \/ marks[j] = "unseen"
  <2>1. DOMAIN log' \subseteq 1 .. MaxEvents
    BY LogAssumption, LenProperties DEF IInv, Typed
  <2> QED
    BY <2>1 DEF IInv, Shown
<1>5. Len(log) <= Len(log')
  <2>1. /\ Len(log) \in Nat /\ DOMAIN log = 1 .. Len(log)
        /\ Len(log') \in Nat /\ DOMAIN log' = 1 .. Len(log')
    BY LenProperties DEF IInv, Typed
  <2>2. CASE Len(log) = 0
    BY <2>1, <2>2
  <2>3. CASE Len(log) # 0
    <3>1. Len(log) \in DOMAIN log
      BY <2>1, <2>3
    <3> QED
      BY <1>2, <2>1, <3>1
  <2> QED
    BY <2>2, <2>3
<1>6. \A w \in Workers : Matches(passes[w])'
  BY <1>2, <1>3, InHand DEF InStep, Matches, Finds
<1>7. cursor' \in Nat /\ cursor <= cursor'
  BY <1>3 DEF IInv, Typed
<1> QED
  BY <1>2, <1>3, <1>4, <1>5, <1>6, <1>7, QuietInStep

\* A step of the pass that applies nothing.
LEMMA PassInStep ==
  ASSUME IInv, OneByOne, OnePass, InStep, NEW w \in Workers, UNCHANGED <<logVars, appVars>>,
         Fetch(w) \/ Skip(w) \/ Read(w) \/ EndPage(w) \/ EndPass(w) \/ Fail(w) \/ Crash(w)
  PROVE  InStep'
<1>1. /\ UNCHANGED <<payments, marks>> /\ cursor' \in Nat /\ cursor <= cursor'
  BY FreshAgain
<1>2. /\ passes \in [Workers -> Pass] /\ log' = log /\ UNCHANGED <<request, audit>>
      /\ log' \in Seq(Event) /\ Len(log) <= Len(log')
  BY LenProperties DEF IInv, Typed, logVars, appVars
<1>3. Matches(passes[w])'
  <2>1. CASE Read(w)
    <3>1. /\ passes[w].todo # <<>> /\ UNCHANGED payments
          /\ passes' = [passes EXCEPT ![w].seen =
               IF ~claimed THEN Unattributed
               ELSE IF log[At(w)].row = NoRow THEN NoPayment ELSE payments[log[At(w)].row]]
      BY <2>1 DEF Read, Reading, dbVars
    <3>2. claimed
      BY <3>1 DEF OneByOne, Attributed
    <3>3. /\ passes'[w].todo = passes[w].todo
          /\ passes'[w].seen = Finds(payments, log[At(w)])
      BY <1>2, <3>1, <3>2 DEF Pass, Finds
    <3> QED
      BY <1>2, <3>1, <3>3 DEF Matches, Finds, At
  <2>2. CASE Skip(w)
    <3>1. Onward(w, Past(w))
      BY <2>2 DEF Skip
    <3>2. passes'[w].seen = NotRead
      BY <1>2, <3>1 DEF Onward, Pass
    <3> QED
      BY <3>2 DEF Matches
  <2>3. CASE Fail(w) \/ EndPage(w) \/ Fetch(w) \/ EndPass(w) \/ Crash(w)
    <3>1. Fail(w) => passes[w].stage = "page"
      BY DEF Fail, Applying, OneByOne, Attributed
    <3>2. passes'[w].seen = NotRead
      BY <1>2, <2>3, <3>1 DEF Fail, EndPage, Fetch, EndPass, Crash, Idle
    <3> QED
      BY <3>2 DEF Matches
  <2> QED
    BY <2>1, <2>2, <2>3
<1>4. \A v \in Workers : Matches(passes[v])'
  BY <1>3 DEF OnePass
<1> QED
  BY <1>1, <1>2, <1>4, QuietInStep

\* A history goes on with what the next event makes of the payments.
LEMMA GoesOn ==
  ASSUME NEW n \in Nat, NEW h, Retells(h, n), NEW db, db = Then(h[n], n + 1)
  PROVE  \E g : Retells(g, n + 1) /\ g[n + 1] = db
<1> DEFINE g == [k \in 0 .. n + 1 |-> IF k = n + 1 THEN db ELSE h[k]]
<1>1. g[n + 1] = db /\ \A k \in 0 .. n : g[k] = h[k]
  OBVIOUS
<1> HIDE DEF g
<1>2. g[0] = Blank
  BY <1>1 DEF Retells
<1>3. ASSUME NEW k \in 1 .. n + 1
      PROVE  g[k] = Then(g[k - 1], k)
  <2>1. CASE k = n + 1
    <3>1. k - 1 = n /\ g[n] = h[n]
      BY <1>1, <2>1
    <3> QED
      BY <1>1, <2>1, <3>1
  <2>2. CASE k # n + 1
    <3>1. k \in 1 .. n /\ k \in 0 .. n /\ k - 1 \in 0 .. n
      BY <1>3, <2>2
    <3>2. h[k] = Then(h[k - 1], k)
      BY <3>1 DEF Retells
    <3> QED
      BY <1>1, <3>1, <3>2
  <2> QED
    BY <2>1, <2>2
<1> QED
  BY <1>1, <1>2, <1>3 DEF Retells

LEMMA ApplyInStep ==
  ASSUME IInv, OneByOne, OnePass, InStep, NEW w \in Workers, Apply(w), UNCHANGED <<logVars, appVars>>
  PROVE  InStep'
<1>0. PICK i : i = At(w)
  OBVIOUS
<1>1. /\ passes[w].todo # <<>> /\ passes[w].seen # NotRead /\ Onward(w, Past(w))
      /\ cursor' = cursor /\ log' = log /\ i \in DOMAIN log
  BY <1>0, AppliedIs
<1>2. payments' = Then(payments, i)
  <2>1. payments' = Projected(payments, log[i], passes[w].seen)
    BY <1>0, AppliedIs
  <2>2. passes[w].seen = Finds(payments, log[i])
    BY <1>0, <1>1 DEF InStep, Matches, At
  <2> QED
    BY <2>1, <2>2 DEF Then
<1>3. \A j \in DOMAIN log : marks'[j] = IF j = i THEN "applied" ELSE marks[j]
  BY <1>0, AppliedIs
<1>4. Lost => Lost'
  BY <1>0, AppliedIs
<1>5. ASSUME ~Lost'
      PROVE  \E n \in 0 .. Len(log') : CaughtUpTo(n)'
  <2>1. PICK n \in 0 .. Len(log) : CaughtUpTo(n)
    BY <1>4, <1>5 DEF InStep
  <2>2. PICK h : Retells(h, n) /\ payments = h[n]
    BY <2>1 DEF CaughtUpTo
  <2>3. Len(log) \in Nat /\ DOMAIN log = 1 .. Len(log)
    BY PositionsAre DEF IInv
  <2>4. i = n + 1
    <3>1. /\ \A j \in DOMAIN log : j < i => marks[j] = "applied"
          /\ marks[i] # "applied"
      BY <1>0, <1>1, <1>4, <1>5, <2>3, NextInOrder
    <3>2. ~(i <= n)
      BY <1>1, <2>1, <3>1 DEF CaughtUpTo
    <3>3. ~(n + 1 < i)
      <4>1. n + 1 < i => n + 1 \in DOMAIN log
        BY <1>1, <2>3
      <4> QED
        BY <2>1, <2>3, <3>1, <4>1 DEF CaughtUpTo
    <3> QED
      BY <1>1, <2>3, <3>2, <3>3
  <2>5. n + 1 \in 0 .. Len(log')
    BY <1>1, <2>3, <2>4
  <2>6. \A j \in DOMAIN log' : marks'[j] = "applied" <=> j <= n + 1
    BY <1>1, <1>3, <2>1, <2>3, <2>4 DEF CaughtUpTo
  <2>7. PICK g : Retells(g, n + 1) /\ g[n + 1] = payments'
    BY <1>2, <2>2, <2>4, GoesOn
  <2>8. Retells(g, n + 1)'
    BY <1>1, <2>7 DEF Retells, Then
  <2> QED
    BY <2>5, <2>6, <2>7, <2>8 DEF CaughtUpTo
<1>6. \A v \in Workers : Matches(passes[v])'
  <2>1. passes'[w].seen = NotRead
    BY <1>1 DEF Onward, Pass, IInv, Typed
  <2> QED
    BY <2>1 DEF Matches, OnePass
<1>7. request' = NoRequest /\ audit' = NoAudit
  BY DEF InStep, appVars
<1> QED
  BY <1>5, <1>6, <1>7 DEF InStep

LEMMA StartsInStep ==
  ASSUME Init
  PROVE  InStep
<1>1. /\ log = <<>> /\ payments = Blank
      /\ passes = [w \in Workers |-> Idle] /\ request = NoRequest /\ audit = NoAudit
  BY DEF Init, LogInit, IndexerInit, Blank
<1>2. DOMAIN log = {} /\ Len(log) = 0
  BY <1>1, NothingLogged, EmptySeq
<1>3. \A w \in Workers : Matches(passes[w])
  BY <1>1 DEF Matches, Idle
<1>4. CaughtUpTo(0)
  <2> DEFINE h == [k \in {0} |-> payments]
  <2>1. Retells(h, 0) /\ payments = h[0]
    BY <1>1 DEF Retells
  <2> HIDE DEF h
  <2> QED
    BY <1>2, <2>1 DEF CaughtUpTo
<1> QED
  BY <1>1, <1>2, <1>3, <1>4 DEF InStep

LEMMA StepInStep ==
  ASSUME OnePass, Unused, ~Reconciling, IInv, IInv', OneByOne, InStep, [Next]_vars
  PROVE  InStep'
<1>1. CASE LogNext /\ UNCHANGED <<indexerVars, appVars>>
  BY <1>1, LogInStep
<1>2. ASSUME UNCHANGED <<logVars, payments, marks, cursor, passes, request, audit>>
      PROVE  InStep'
  <2>1. /\ log' = log /\ cursor' \in Nat /\ cursor <= cursor'
        /\ log' \in Seq(Event) /\ Len(log) <= Len(log')
    BY <1>2, LenProperties DEF logVars, IInv, Typed
  <2>2. \A w \in Workers : Matches(passes[w])'
    BY <1>2, <2>1 DEF InStep, Matches, Finds
  <2> QED
    BY <1>2, <2>1, <2>2, QuietInStep
<1>3. CASE IndexerNext /\ UNCHANGED <<logVars, appVars>>
  <2>1. CASE Claim
    <3>1. UNCHANGED <<logVars, payments, marks, cursor, passes, request, audit>>
      BY <1>3, <2>1 DEF Claim, appVars
    <3> QED
      BY <1>2, <3>1
  <2> QED
    BY <1>3, <2>1, PassInStep, ApplyInStep, NeverDuplicate DEF IndexerNext, Step
<1>4. ~AppNext
  <2>1. ~Swap /\ ~(\E r \in Rows, to \in Wanted, role \in Roles : Request(r, to, role))
    BY DEF Swap, InStep, Unused
  <2>2. ~ReadRows /\ ~ReadChain
    BY DEF ReadRows, ReadChain, InStep
  <2>3. \A r \in Rows : ~Compare(r) /\ ~Unconfirmed(r) /\ ~Consult(r)
    BY DEF Compare, Unconfirmed, Consult, InStep, NoAudit
  <2>4. ~Correct
    BY DEF Correct, InStep, NoAudit
  <2> QED
    BY <2>1, <2>2, <2>3, <2>4 DEF AppNext
<1>5. CASE UNCHANGED vars
  <2>1. UNCHANGED <<logVars, payments, marks, cursor, passes, request, audit>>
    BY <1>5 DEF vars, indexerVars, dbVars, appVars
  <2> QED
    BY <1>2, <2>1
<1> QED
  BY <1>1, <1>3, <1>4, <1>5 DEF Next

LEMMA AlwaysInStep ==
  ASSUME OnePass, Unused, ~Reconciling
  PROVE  Spec => [](IInv /\ OneByOne /\ InStep)
<1>1. Init => InStep
  BY StartsInStep
<1>2. IInv /\ IInv' /\ OneByOne /\ InStep /\ [Next]_vars => InStep'
  BY StepInStep
<1> QED
  BY <1>1, <1>2, AlwaysOne, PTL DEF Spec

\* A history of the whole log is what Replayed reads.
LEMMA RetoldIsReplayed ==
  ASSUME Typed, NEW h, Retells(h, Len(log))
  PROVE  h[Len(log)] = Replayed
<1> DEFINE n == Len(log)
           G(g) == g = [k \in 0 .. n |->
                          IF k = 0 THEN Blank
                          ELSE Projected(g[k - 1], log[k], Finds(g[k - 1], log[k]))]
           after == CHOOSE g : G(g)
           cut == [k \in 0 .. n |-> h[k]]
<1>1. n \in Nat
  BY LenProperties DEF Typed
<1>2. Replayed = after[n]
  BY DEF Replayed, Blank
<1> HIDE DEF n
<1>3. G(cut)
  <2>1. ASSUME NEW k \in 0 .. n
        PROVE  h[k] = IF k = 0 THEN Blank
                      ELSE Projected(cut[k - 1], log[k], Finds(cut[k - 1], log[k]))
    <3>1. CASE k = 0
      BY <3>1 DEF Retells
    <3>2. CASE k # 0
      <4>1. k \in 1 .. n /\ k - 1 \in 0 .. n
        BY <1>1, <2>1, <3>2
      <4>2. h[k] = Then(h[k - 1], k) /\ cut[k - 1] = h[k - 1]
        BY <4>1 DEF Retells, n
      <4> QED
        BY <3>2, <4>2 DEF Then
    <3> QED
      BY <3>1, <3>2
  <2> QED
    BY <2>1
<1>4. G(after)
  BY <1>3
<1>5. \A k \in 1 .. n : after[k] = Then(after[k - 1], k)
  <2> SUFFICES ASSUME NEW k \in 1 .. n PROVE after[k] = Then(after[k - 1], k)
    OBVIOUS
  <2>1. k \in 0 .. n /\ k # 0
    BY <1>1
  <2> HIDE DEF after
  <2> QED
    BY <1>4, <2>1 DEF Then
<1>6. after[0] = Blank
  <2>1. 0 \in 0 .. n
    BY <1>1
  <2> HIDE DEF after
  <2> QED
    BY <1>4, <2>1
<1> HIDE DEF after
<1>7. ASSUME NEW k \in 0 .. n, after[k] # h[k]
      PROVE  FALSE
  <2> DEFINE Apart == {m \in 0 .. n : after[m] # h[m]}
  <2>1. Apart \subseteq Nat /\ Apart # {}
    BY <1>1, <1>7
  <2>2. PICK m \in Apart : \A l \in Apart : m <= l
    BY <2>1, LeastNatural
  <2>3. m \in 0 .. n /\ after[m] # h[m] /\ m # 0
    BY <1>6, <2>2 DEF Retells
  <2>4. m \in 1 .. n /\ m - 1 \in 0 .. n /\ ~(m <= m - 1)
    BY <1>1, <2>3
  <2>5. after[m - 1] = h[m - 1]
    BY <2>2, <2>4
  <2>6. h[m] = Then(h[m - 1], m)
    BY <2>4 DEF Retells, n
  <2> QED
    BY <1>5, <2>3, <2>4, <2>5, <2>6
<1> QED
  BY <1>1, <1>2, <1>7 DEF n

------------------------------------------------------------------------------
\* The theorems.

\* Type correctness: whoever raced whom, the database holds what its columns
\* may hold and the cursor names a ledger that has closed.
THEOREM SettlementTyped == Spec => []TypeOK
<1>1. IInv => TypeOK
  <2> SUFFICES ASSUME IInv PROVE TypeOK
    OBVIOUS
  <2>1. cursor \in 0 .. ledger - 1
    BY DEF IInv, Typed, Served
  <2> QED
    BY <2>1 DEF IInv, Typed, TypeOK
<1> QED
  BY <1>1, Always, PTL

\* Only a chain observer records PAID, and only what the contract paid
\* (applyEvent, reconcileOrganization): a user's request never does.
THEOREM PaidWasSettled == Spec => []PaidIsSettled
<1>1. IInv => PaidIsSettled
  BY DEF IInv, Telling, Says, PaidIsSettled
<1> QED
  BY <1>1, Always, PTL

\* What is offered for settlement has a proof the contract accepted, and both
\* approvals.
THEOREM ReadyWasApproved == Spec => []ReadyIsApproved
<1>1. IInv => ReadyIsApproved
  BY DEF IInv, Telling, Says, HasProof, ManagerDone, BothDone, ReadyIsApproved
<1> QED
  BY <1>1, Always, PTL

\* The reconciler never reports a PAID the contract does not know of, because
\* it reads its rows first and the contract never unsettles.
THEOREM AlarmsAreEarnest == Spec => []NoFalseAlarm
<1>1. IInv => NoFalseAlarm
  BY DEF IInv
<1> QED
  BY <1>1, Always, PTL

\* A settlement the projection applied shows in the database or as a finding.
THEOREM SettlementShows == Spec => []SettlementShownOrFound
<1>1. IInv => SettlementShownOrFound
  <2> SUFFICES ASSUME IInv, NEW r \in Rows, Settled(r), CaughtUp
               PROVE  \/ payments[r] = "PAID"
                      \/ \E kind \in {"CHAIN_PAID_DB_NOT", "ORPHAN_ON_CHAIN"} : <<kind, r>> \in findings
    BY DEF SettlementShownOrFound
  <2>1. PICK i \in DOMAIN log : log[i].kind = "payment_paid" /\ log[i].row = r
    BY DEF Settled, LoggedFor
  <2>2. Shows(i)
    BY <2>1 DEF CaughtUp, IInv, Shown
  <2> QED
    BY <2>1, <2>2 DEF Shows
<1> QED
  BY <1>1, Always, PTL

\* Whoever writes a payment's state does so under the state it read, so none
\* leaves a terminal state.
THEOREM TerminalForGood == Spec => TerminalStays
<1>1. IInv /\ [Next]_vars =>
        [\A r \in Rows : payments[r] \in TERMINAL_STATES => payments'[r] = payments[r]]_vars
  BY AnyStepMoves DEF Moves
<1> QED
  BY <1>1, Always, PTL DEF Spec, TerminalStays

\* A rotation of the oracle key revokes what it verified, whatever users and
\* reconciliations do meanwhile, if passes do not overlap and begin after the
\* claim: a payment shown as verified then has a proof under the present key.
THEOREM VerifiedUnderPresentKey ==
  ASSUME OnePass
  PROVE  Spec => []VerifiedIsCurrent
<1>1. IInv /\ OneByOne => VerifiedIsCurrent
  <2> SUFFICES ASSUME IInv, OneByOne, CaughtUp, NEW r \in Rows, payments[r] \in Verified
               PROVE  Proven(r)
    BY DEF VerifiedIsCurrent, Verified
  <2>1. HoldsProof(r)
    BY NothingLost DEF OneByOne, Current
  <2> QED
    BY <2>1 DEF HoldsProof, Proven, CaughtUp
<1> QED
  BY <1>1, AlwaysOne, PTL

\* Where passes do not overlap and begin after the claim, a refund that was
\* applied shows whatever users and reconciliations do meanwhile, or the payment
\* stands where a submission left it (applyTransition is refused there, and
\* says nothing): what the contract refunds it had created, from every other
\* state the indexer may cancel it, and what users move they take to an end.
THEOREM RefundShows ==
  ASSUME OnePass
  PROVE  Spec => []RefundShownUnlessSubmitted
<1>1. IInv /\ OneByOne /\ Untouched => RefundShownUnlessSubmitted
  <2> SUFFICES ASSUME OneByOne, Untouched, CaughtUp, NEW r \in Rows, Refunded(r)
               PROVE  payments[r] \in {"CANCELLED", "REJECTED", "SUBMITTING"}
    BY DEF RefundShownUnlessSubmitted
  <2>1. PICK i \in DOMAIN log : log[i].kind = "payment_cancelled" /\ log[i].row = r
    BY DEF Refunded, LoggedFor
  <2> QED
    BY <2>1, NothingLost DEF Untouched, CaughtUp, Gone
<1> QED
  BY <1>1, AlwaysUntouched, PTL

\* The projection is a function of the log: where nobody but the indexer moves
\* a payment the payments are what replaying the log makes of them, however
\* often passes failed, died or came back to an event.
THEOREM ProjectionFollowsLog ==
  ASSUME OnePass, Unused, ~Reconciling
  PROVE  Spec => []Deterministic
<1>1. IInv /\ InStep => Deterministic
  <2> SUFFICES ASSUME IInv, InStep, CaughtUp PROVE payments = Replayed
    BY DEF Deterministic
  <2>1. Len(log) \in Nat /\ DOMAIN log = 1 .. Len(log)
    BY PositionsAre DEF IInv
  <2>2. PICK n \in 0 .. Len(log) : CaughtUpTo(n)
    BY NothingLost DEF InStep
  <2>3. PICK h : Retells(h, n) /\ payments = h[n]
    BY <2>2 DEF CaughtUpTo
  <2>4. n = Len(log)
    <3>1. n \in Nat /\ n <= Len(log) /\ Len(log) \in Nat
      BY <2>1
    <3>2. CASE Len(log) = 0
      BY <3>1, <3>2
    <3>3. CASE Len(log) # 0
      <4>1. Len(log) \in DOMAIN log
        BY <2>1, <3>3
      <4>2. Len(log) <= n
        BY <2>2, <4>1 DEF CaughtUp, CaughtUpTo
      <4> QED
        BY <3>1, <4>2
    <3> QED
      BY <3>2, <3>3
  <2> QED
    BY <2>3, <2>4, RetoldIsReplayed DEF IInv
<1> QED
  BY <1>1, AlwaysInStep, PTL
==============================================================================
