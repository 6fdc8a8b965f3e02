------------------------- MODULE PaymentActionsProofs -------------------------
(***************************************************************************)
(* Theorems about the actions of members, for any members, payments, keys  *)
(* and number of requests in flight.                                       *)
(***************************************************************************)
EXTENDS PaymentActions, TLAPS, FiniteSetTheorems

Statement ==
  {"find decision", "find other half", "approve", "consult", "swap", "decline",
   "find attempt", "count attempts", "create attempt"}
IsRequest(q) ==
  /\ q = Call(q.next, q.action, q.member, q.payment, q.key, q.read, q.half)
  /\ q.next \in Statement /\ q.action \in Action /\ q.member \in Members
  /\ q.payment \in Payments /\ q.key \in Keys /\ q.half \in Half
Decided == [decision : {"APPROVED", "REJECTED"}, actorAddress : Members]
AttemptRow == [key : Keys, payment : Payments, attempt : Nat \ {0}]

Typed ==
  /\ state \in [Payments -> PaymentState]
  /\ approvals \in [Payments -> [Half -> Decided \union {Undecided}]]
  /\ attempts \subseteq AttemptRow
  /\ inFlight = [c \in Calls |-> inFlight[c]]
  /\ \A c \in Calls : inFlight[c] = NoCall \/ IsRequest(inFlight[c])
  /\ made \in 0 .. CallLimit

AttemptsOf(p) == {a \in attempts : a.payment = p}
Count == [p \in Payments |-> Cardinality(AttemptsOf(p))]

\* What a request knows by the statement it is at.
Knows(q) ==
  /\ q.next \in {"find decision", "find other half", "approve"} =>
       RoleOf[q.member] # Other(q.half)
  /\ q.next \in {"consult", "swap", "decline"} => q.action # "approve"
  /\ q.next = "find attempt" => q.action = "submit"
  /\ q.next = "swap" => q.read \in PaymentState /\ Permitted(q.read, To(q.action), ActorOf(q))
  /\ q.next \in {"count attempts", "create attempt"} => state[q.payment] \in {"SUBMITTING", "PAID"}
  /\ q.next = "create attempt" => q.read \in Nat /\ q.read <= Count[q.payment]

Knowing == \A c \in Calls : inFlight[c] # NoCall => Knows(inFlight[c])

\* There are no more attempts than keys.
Numbered == \A a \in attempts : a.attempt <= Cardinality(Keys)

IInv ==
  /\ Typed /\ Knowing /\ Numbered
  /\ KeyMeansOneAttempt /\ AttemptedStaysSubmitted /\ HalvesKeptApart

------------------------------------------------------------------------------
\* The transition table.

\* Nobody but the system takes a payment out of SUBMITTING, save to PAID.
LEMMA OutOfSubmitting ==
  ASSUME NEW to, NEW actor, actor.kind # "system", Permitted("SUBMITTING", to, actor)
  PROVE  to = "PAID"
<1>1. PICK t \in TRANSITIONS : t.from = "SUBMITTING" /\ t.to = to /\ actor.kind \in t.actors
  BY DEF Permitted, CheckTransition
<1>2. t.from = "SUBMITTING" => t.to = "PAID" \/ t.actors = {"system"}
  BY DEF TRANSITIONS, Recovery, By, ByUser, Observed, ByMachine
<1> QED
  BY <1>1, <1>2

\* What is PAID stays PAID.
LEMMA PaidIsTerminal ==
  ASSUME NEW to, NEW actor
  PROVE  ~Permitted("PAID", to, actor)
BY DEF Permitted, CheckTransition, TERMINAL_STATES

LEMMA TargetTyped ==
  /\ To("submit") = "SUBMITTING"
  /\ \A action \in Action \ {"approve"} : To(action) \in PaymentState
BY DEF Action, To, PaymentState

\* Where a request goes on to after its transition.
LEMMA FollowingOf ==
  ASSUME NEW q, NEW changed
  PROVE  /\ q.action = "submit" => Following(q, changed) = "count attempts"
         /\ q.action # "submit" => Following(q, changed) \in {"decline", "nothing"}
BY DEF Following

------------------------------------------------------------------------------
\* What a step of one request leaves of the invariant.

LEMMA Fields ==
  ASSUME IInv, NEW c \in Calls, inFlight[c].next # "nothing"
  PROVE  /\ IsRequest(inFlight[c]) /\ Knows(inFlight[c]) /\ inFlight[c] # NoCall
         /\ DOMAIN inFlight = Calls
BY DEF IInv, Typed, Knowing, NoCall

\* A request that moved knows what it should, and the others still do, where
\* submitted payments stay so and attempts are only added.
LEMMA Moves ==
  ASSUME IInv, NEW c \in Calls,
         inFlight' = [inFlight EXCEPT ![c] = inFlight'[c]],
         inFlight'[c] = NoCall \/ (IsRequest(inFlight'[c]) /\ Knows(inFlight[c])'),
         \A p \in Payments : state[p] \in {"SUBMITTING", "PAID"} => state'[p] \in {"SUBMITTING", "PAID"},
         \A p \in Payments : Count[p] \in Nat /\ Count'[p] \in Nat /\ Count[p] <= Count'[p]
  PROVE  /\ inFlight' = [d \in Calls |-> inFlight'[d]]
         /\ \A d \in Calls : inFlight'[d] = NoCall \/ IsRequest(inFlight'[d])
         /\ Knowing'
<1>1. DOMAIN inFlight = Calls /\ inFlight' = [d \in Calls |-> inFlight'[d]]
  BY DEF IInv, Typed
<1>2. ASSUME NEW d \in Calls, d # c
      PROVE  inFlight'[d] = inFlight[d]
  BY <1>1, <1>2
<1>3. ASSUME NEW d \in Calls
      PROVE  inFlight'[d] = NoCall \/ IsRequest(inFlight'[d])
  BY <1>2, <1>3 DEF IInv, Typed
<1>4. ASSUME NEW d \in Calls, inFlight'[d] # NoCall
      PROVE  Knows(inFlight[d])'
  <2>1. CASE d = c
    BY <1>4, <2>1
  <2>2. CASE d # c
    <3>1. IsRequest(inFlight[d]) /\ Knows(inFlight[d]) /\ inFlight'[d] = inFlight[d]
      BY <1>2, <1>4, <2>2 DEF IInv, Typed, Knowing
    <3>2. inFlight[d].payment \in Payments
      BY <3>1 DEF IsRequest
    <3>3. ASSUME inFlight[d].next = "create attempt"
          PROVE  inFlight[d].read \in Nat /\ inFlight[d].read <= Count'[inFlight[d].payment]
      <4>1. inFlight[d].read \in Nat /\ inFlight[d].read <= Count[inFlight[d].payment]
        BY <3>1, <3>3 DEF Knows
      <4>2. /\ Count[inFlight[d].payment] \in Nat /\ Count'[inFlight[d].payment] \in Nat
            /\ Count[inFlight[d].payment] <= Count'[inFlight[d].payment]
        BY <3>2
      <4> QED
        BY <4>1, <4>2
    <3> QED
      BY <3>1, <3>2, <3>3 DEF Knows
  <2> QED
    BY <2>1, <2>2
<1> QED
  BY <1>1, <1>3, <1>4 DEF Knowing

LEMMA Finite ==
  ASSUME IInv
  PROVE  /\ IsFiniteSet(attempts)
         /\ \A p \in Payments : IsFiniteSet(AttemptsOf(p)) /\ Count[p] \in Nat
                                /\ Count[p] <= Cardinality(attempts)
         /\ Cardinality(attempts) \in Nat
         /\ \A k \in Keys : ~Taken(k) => Cardinality(attempts) < Cardinality(Keys)
<1> DEFINE f == [a \in attempts |-> a.key]
<1>1. f \in Injection(attempts, Keys)
  BY DEF IInv, Typed, AttemptRow, KeyMeansOneAttempt, Injection, IsInjective
<1>2. IsFiniteSet(attempts) /\ Cardinality(attempts) \in Nat
  BY <1>1, FS_Injection, FS_CardinalityType, ActionsAssumption
<1>3. ASSUME NEW p \in Payments
      PROVE  IsFiniteSet(AttemptsOf(p)) /\ Count[p] \in Nat /\ Count[p] <= Cardinality(attempts)
  <2>1. AttemptsOf(p) \in SUBSET attempts
    BY DEF AttemptsOf
  <2> QED
    BY <1>2, <2>1, FS_Subset, FS_CardinalityType DEF Count
<1>4. ASSUME NEW k \in Keys, ~Taken(k)
      PROVE  Cardinality(attempts) < Cardinality(Keys)
  <2>1. f \in Injection(attempts, Keys \ {k})
    BY <1>4, <1>1 DEF Taken, Keyed, IInv, Typed, AttemptRow, Injection
  <2>2. IsFiniteSet(Keys \ {k}) /\ Cardinality(Keys \ {k}) = Cardinality(Keys) - 1
    BY FS_RemoveElement, ActionsAssumption
  <2>3. Cardinality(attempts) <= Cardinality(Keys) - 1
    BY <2>1, <2>2, FS_Injection
  <2> QED
    BY <1>2, <2>3, FS_CardinalityType, ActionsAssumption
<1> QED
  BY <1>2, <1>3, <1>4

\* A request that only reads, and so changes nothing but itself.
LEMMA Reads ==
  ASSUME IInv, NEW c \in Calls, UNCHANGED <<tables, answers>>, made' \in 0 .. CallLimit,
         inFlight' = [inFlight EXCEPT ![c] = inFlight'[c]],
         inFlight'[c] = NoCall \/ (IsRequest(inFlight'[c]) /\ Knows(inFlight[c])')
  PROVE  IInv'
<1>1. state' = state /\ approvals' = approvals /\ attempts' = attempts /\ answers' = answers
  BY DEF tables
<1>2. \A p \in Payments : Count[p] \in Nat /\ Count'[p] = Count[p]
  BY <1>1, Finite DEF Count, AttemptsOf
<1>3. /\ inFlight' = [d \in Calls |-> inFlight'[d]]
      /\ \A d \in Calls : inFlight'[d] = NoCall \/ IsRequest(inFlight'[d])
      /\ Knowing'
  BY <1>1, <1>2, Moves
<1>4. Typed'
  BY <1>1, <1>3 DEF IInv, Typed
<1>5. Numbered' /\ KeyMeansOneAttempt' /\ AttemptedStaysSubmitted' /\ HalvesKeptApart'
  BY <1>1 DEF IInv, Numbered, KeyMeansOneAttempt, AttemptedStaysSubmitted, HalvesKeptApart
<1> QED
  BY <1>3, <1>4, <1>5 DEF IInv

LEMMA CallIsRequest ==
  ASSUME NEW next \in Statement, NEW action \in Action, NEW m \in Members, NEW p \in Payments,
         NEW k \in Keys, NEW read, NEW half \in Half
  PROVE  IsRequest(Call(next, action, m, p, k, read, half))
BY DEF IsRequest, Call

\* A step to the next statement, and one that ends the request.
LEMMA GoesIs ==
  ASSUME IInv, NEW c \in Calls, NEW next \in Statement, inFlight[c].next # "nothing", Goes(c, next)
  PROVE  /\ inFlight' = [inFlight EXCEPT ![c] = inFlight'[c]]
         /\ inFlight'[c] = [inFlight[c] EXCEPT !.next = next]
         /\ IsRequest(inFlight'[c])
         /\ LET q == inFlight[c]  r == inFlight'[c] IN
            /\ r.next = next /\ r.action = q.action /\ r.member = q.member
            /\ r.payment = q.payment /\ r.key = q.key /\ r.read = q.read /\ r.half = q.half
<1>1. IsRequest(inFlight[c]) /\ DOMAIN inFlight = Calls
  BY Fields
<1>2. inFlight'[c] = [inFlight[c] EXCEPT !.next = next]
  BY <1>1 DEF Goes
<1> QED
  BY <1>1, <1>2 DEF Goes, IsRequest, Call

LEMMA EndsIs ==
  ASSUME IInv, NEW c \in Calls, Returns(c)
  PROVE  inFlight' = [inFlight EXCEPT ![c] = inFlight'[c]] /\ inFlight'[c] = NoCall
BY DEF Returns, IInv, Typed

------------------------------------------------------------------------------
LEMMA BeginKeeps ==
  ASSUME IInv, NEW c \in Calls, NEW action \in Action, NEW m \in Members,
         NEW p \in Payments, NEW k \in Keys, Begin(c, action, m, p, k)
  PROVE  IInv'
<1> DEFINE q == Call(FirstStatement(action), action, m, p, k, state[p], HalfOf(m, state[p]))
<1>1. \/ action = "approve" /\ FirstStatement(action) = "find decision"
      \/ action = "submit" /\ FirstStatement(action) = "find attempt"
      \/ action \notin {"approve", "submit"} /\ FirstStatement(action) = "consult"
  BY Zenon DEF FirstStatement
<1>2. /\ made < CallLimit /\ made' = made + 1
      /\ UNCHANGED <<tables, answers>>
      /\ inFlight' = [inFlight EXCEPT ![c] = q]
  BY DEF Begin
<1> HIDE DEF q
<1>3. inFlight' = [inFlight EXCEPT ![c] = inFlight'[c]] /\ inFlight'[c] = q
  <2>1. DOMAIN inFlight = Calls
    BY DEF IInv, Typed
  <2> QED
    BY <1>2, <2>1
<1> USE DEF q
<1>4. RoleOf[m] # Other(HalfOf(m, state[p])) /\ HalfOf(m, state[p]) \in Half
  BY DEF HalfOf, Half, Other
<1>5. /\ inFlight'[c].next = FirstStatement(action) /\ inFlight'[c].action = action /\ inFlight'[c].member = m
      /\ inFlight'[c].half = HalfOf(m, state[p])
  BY <1>3 DEF Call
<1>6. IsRequest(inFlight'[c])
  <2>1. FirstStatement(action) \in Statement
    BY <1>1 DEF Statement
  <2> QED
    BY <1>3, <1>4, <2>1, CallIsRequest
<1>7. Knows(inFlight[c])'
  BY <1>1, <1>4, <1>5 DEF Knows
<1>8. made' \in 0 .. CallLimit
  BY <1>2, ActionsAssumption DEF IInv, Typed
<1> QED
  BY <1>2, <1>3, <1>6, <1>7, <1>8, Reads

\* A step of a request that has only looked at the approvals.
LEMMA ApprovingKeeps ==
  ASSUME IInv, NEW c \in Calls, FindDecision(c) \/ FindOtherHalf(c)
  PROVE  IInv'
<1>1. /\ inFlight[c].next \in {"find decision", "find other half"}
      /\ Goes(c, "find other half") \/ Goes(c, "approve") \/ Returns(c)
      /\ UNCHANGED <<tables, made, answers>>
  BY DEF FindDecision, FindOtherHalf, Awaits
<1>2. made' \in 0 .. CallLimit
  BY <1>1 DEF IInv, Typed
<1>3. CASE Returns(c)
  BY <1>1, <1>2, <1>3, EndsIs, Reads
<1>4. ASSUME NEW next \in {"find other half", "approve"}, Goes(c, next)
      PROVE  IInv'
  <2>1. next \in Statement /\ inFlight[c].next # "nothing" /\ Knows(inFlight[c])
    BY <1>1, <1>4, Fields DEF Statement
  <2>2. /\ inFlight' = [inFlight EXCEPT ![c] = inFlight'[c]] /\ IsRequest(inFlight'[c])
        /\ inFlight'[c].next = next /\ inFlight'[c].half = inFlight[c].half
        /\ inFlight'[c].member = inFlight[c].member
    BY <1>4, <2>1, GoesIs
  <2>3. Knows(inFlight[c])'
    BY <1>1, <1>4, <2>1, <2>2 DEF Knows
  <2> QED
    BY <1>1, <1>2, <2>2, <2>3, Reads
<1> QED
  BY <1>1, <1>3, <1>4

\* A request whose transition was made, or found made already.
LEMMA GoesOnIs ==
  ASSUME IInv, NEW c \in Calls, inFlight[c].next \in {"consult", "swap"},
         Proceeds(c, TRUE) \/ Proceeds(c, FALSE),
         inFlight[c].action = "submit" => state'[inFlight[c].payment] \in {"SUBMITTING", "PAID"}
  PROVE  /\ inFlight' = [inFlight EXCEPT ![c] = inFlight'[c]]
         /\ inFlight'[c] = NoCall \/ (IsRequest(inFlight'[c]) /\ Knows(inFlight[c])')
<1>1. Knows(inFlight[c]) /\ inFlight[c].next # "nothing"
  BY Fields
<1>0. \/ Returns(c)
      \/ inFlight[c].action = "submit" /\ Goes(c, "count attempts")
      \/ Goes(c, "decline")
  <2>1. /\ \/ Following(inFlight[c], TRUE) = "count attempts" /\ inFlight[c].action = "submit"
           \/ Following(inFlight[c], TRUE) \in {"decline", "nothing"}
        /\ \/ Following(inFlight[c], FALSE) = "count attempts" /\ inFlight[c].action = "submit"
           \/ Following(inFlight[c], FALSE) \in {"decline", "nothing"}
    BY Zenon, FollowingOf
  <2> QED
    BY <2>1 DEF Proceeds
<1>2. CASE Returns(c)
  BY <1>2, EndsIs
<1>3. CASE inFlight[c].action = "submit" /\ Goes(c, "count attempts")
  <2>1. /\ inFlight' = [inFlight EXCEPT ![c] = inFlight'[c]] /\ IsRequest(inFlight'[c])
        /\ inFlight'[c].next = "count attempts" /\ inFlight'[c].payment = inFlight[c].payment
    BY <1>1, <1>3, GoesIs DEF Statement
  <2>2. Knows(inFlight[c])'
    BY <1>3, <2>1 DEF Knows
  <2> QED
    BY <2>1, <2>2
<1>4. CASE Goes(c, "decline")
  <2>1. /\ inFlight' = [inFlight EXCEPT ![c] = inFlight'[c]] /\ IsRequest(inFlight'[c])
        /\ inFlight'[c].next = "decline" /\ inFlight'[c].action = inFlight[c].action
    BY <1>1, <1>4, GoesIs DEF Statement
  <2>2. Knows(inFlight[c])'
    BY <1>1, <2>1 DEF Knows
  <2> QED
    BY <2>1, <2>2
<1> QED
  BY <1>0, <1>2, <1>3, <1>4

\* The three ways of Consult.
LEMMA ConsultCases ==
  ASSUME NEW c \in Calls, Consult(c)
  PROVE  /\ inFlight[c].next = "consult" /\ UNCHANGED <<tables, made, answers>>
         /\ \/ state[inFlight[c].payment] = To(inFlight[c].action) /\ Proceeds(c, FALSE)
            \/ /\ Permitted(state[inFlight[c].payment], To(inFlight[c].action), ActorOf(inFlight[c]))
               /\ inFlight' = [inFlight EXCEPT ![c].next = "swap", ![c].read = state[inFlight[c].payment]]
            \/ Returns(c)
BY Zenon DEF Consult, Awaits

LEMMA ConsultKeeps ==
  ASSUME IInv, NEW c \in Calls, Consult(c)
  PROVE  IInv'
<1>1. /\ inFlight[c].next = "consult" /\ inFlight[c].next # "nothing"
      /\ UNCHANGED <<tables, made, answers>>
  BY ConsultCases
<1>2. IsRequest(inFlight[c]) /\ Knows(inFlight[c]) /\ DOMAIN inFlight = Calls
  BY <1>1, Fields
<1>3. made' \in 0 .. CallLimit /\ state' = state
  BY <1>1 DEF IInv, Typed, tables
<1>4. CASE state[inFlight[c].payment] = To(inFlight[c].action) /\ Proceeds(c, FALSE)
  <2>1. inFlight[c].action = "submit" => state'[inFlight[c].payment] = "SUBMITTING"
    BY <1>3, <1>4, TargetTyped
  <2>2. /\ inFlight' = [inFlight EXCEPT ![c] = inFlight'[c]]
        /\ inFlight'[c] = NoCall \/ (IsRequest(inFlight'[c]) /\ Knows(inFlight[c])')
    BY <1>1, <1>4, <2>1, GoesOnIs
  <2> QED
    BY <1>1, <1>3, <2>2, Reads
<1>5. CASE /\ Permitted(state[inFlight[c].payment], To(inFlight[c].action), ActorOf(inFlight[c]))
           /\ inFlight' = [inFlight EXCEPT ![c].next = "swap", ![c].read = state[inFlight[c].payment]]
  <2>1. inFlight'[c] = [inFlight[c] EXCEPT !.next = "swap", !.read = state[inFlight[c].payment]]
    BY <1>2, <1>5
  <2>2. /\ inFlight'[c].next = "swap" /\ inFlight'[c].action = inFlight[c].action
        /\ inFlight'[c].read = state[inFlight[c].payment] /\ inFlight'[c].member = inFlight[c].member
        /\ IsRequest(inFlight'[c])
    BY <1>2, <2>1 DEF IsRequest, Call, Statement
  <2>3. state[inFlight[c].payment] \in PaymentState
    BY <1>2 DEF IsRequest, IInv, Typed
  <2>4. Permitted(inFlight'[c].read, To(inFlight'[c].action), ActorOf(inFlight'[c]))
    BY <1>5, <2>2 DEF ActorOf
  <2>5. Knows(inFlight[c])'
    BY <1>1, <1>2, <2>2, <2>3, <2>4 DEF Knows
  <2>6. inFlight' = [inFlight EXCEPT ![c] = inFlight'[c]]
    BY <1>2, <1>5
  <2> QED
    BY <1>1, <1>3, <2>2, <2>5, <2>6, Reads
<1>6. CASE Returns(c)
  BY <1>1, <1>3, <1>6, EndsIs, Reads
<1> QED
  BY <1>4, <1>5, <1>6, ConsultCases

\* A payment that moves the way the table has it for users and observers stays
\* with the chain once it is there.
LEMMA WithTheChain ==
  ASSUME IInv, NEW p \in Payments, NEW to \in PaymentState, NEW actor, actor.kind # "system",
         Permitted(state[p], to, actor), state' = [state EXCEPT ![p] = to]
  PROVE  /\ state' \in [Payments -> PaymentState]
         /\ \A r \in Payments : state[r] \in {"SUBMITTING", "PAID"} => state'[r] \in {"SUBMITTING", "PAID"}
<1>1. state \in [Payments -> PaymentState]
  BY DEF IInv, Typed
<1>2. state[p] \in {"SUBMITTING", "PAID"} => to = "PAID"
  BY OutOfSubmitting, PaidIsTerminal
<1> QED
  BY <1>1, <1>2

\* A step that moves payments, and keeps those with the chain there.
LEMMA PaymentMoves ==
  ASSUME IInv, NEW c \in Calls, UNCHANGED <<approvals, attempts, made, answers>>,
         state' \in [Payments -> PaymentState],
         \A p \in Payments : state[p] \in {"SUBMITTING", "PAID"} => state'[p] \in {"SUBMITTING", "PAID"},
         inFlight' = [inFlight EXCEPT ![c] = inFlight'[c]],
         inFlight'[c] = NoCall \/ (IsRequest(inFlight'[c]) /\ Knows(inFlight[c])')
  PROVE  IInv'
<1>1. \A p \in Payments : Count[p] \in Nat /\ Count'[p] = Count[p]
  BY Finite DEF Count, AttemptsOf
<1>2. /\ inFlight' = [d \in Calls |-> inFlight'[d]]
      /\ \A d \in Calls : inFlight'[d] = NoCall \/ IsRequest(inFlight'[d])
      /\ Knowing'
  BY <1>1, Moves
<1>3. Typed'
  BY <1>2 DEF IInv, Typed
<1>4. AttemptedStaysSubmitted'
  BY DEF IInv, Typed, AttemptRow, AttemptedStaysSubmitted
<1>5. Numbered' /\ KeyMeansOneAttempt' /\ HalvesKeptApart'
  BY DEF IInv, Numbered, KeyMeansOneAttempt, HalvesKeptApart
<1> QED
  BY <1>2, <1>3, <1>4, <1>5 DEF IInv

LEMMA SwapKeeps ==
  ASSUME IInv, NEW c \in Calls, Swap(c)
  PROVE  IInv'
<1> DEFINE q == inFlight[c]
<1>1. q.next = "swap" /\ UNCHANGED <<approvals, attempts, made, answers>>
  BY DEF Swap, Awaits
<1>2. IsRequest(q) /\ Knows(q) /\ q.payment \in Payments
  BY <1>1, Fields DEF IsRequest
<1>3. CASE /\ state[q.payment] = q.read
           /\ state' = [state EXCEPT ![q.payment] = To(q.action)]
           /\ Proceeds(c, TRUE)
  <2>1. Permitted(state[q.payment], To(q.action), ActorOf(q)) /\ q.action \in Action \ {"approve"}
    BY <1>1, <1>2, <1>3 DEF Knows, IsRequest
  <2>2. To(q.action) \in PaymentState /\ ActorOf(q).kind # "system"
    BY <2>1, TargetTyped DEF ActorOf, User, Reconciler, Machine
  <2>3. /\ state' \in [Payments -> PaymentState]
        /\ \A p \in Payments : state[p] \in {"SUBMITTING", "PAID"} => state'[p] \in {"SUBMITTING", "PAID"}
    BY <1>2, <1>3, <2>1, <2>2, WithTheChain
  <2>4. q.action = "submit" => state'[q.payment] \in {"SUBMITTING", "PAID"}
    BY <1>2, <1>3, TargetTyped DEF IInv, Typed
  <2>5. /\ inFlight' = [inFlight EXCEPT ![c] = inFlight'[c]]
        /\ inFlight'[c] = NoCall \/ (IsRequest(inFlight'[c]) /\ Knows(inFlight[c])')
    BY <1>1, <1>3, <2>4, GoesOnIs
  <2> QED
    BY <1>1, <2>3, <2>5, PaymentMoves
<1>4. CASE Returns(c) /\ UNCHANGED state
  <2>1. state' \in [Payments -> PaymentState]
    BY <1>4 DEF IInv, Typed
  <2> QED
    BY <1>1, <1>4, <2>1, EndsIs, PaymentMoves
<1> QED
  BY <1>3, <1>4 DEF Swap, Unchanged

------------------------------------------------------------------------------
\* Decisions.

\* A half that is decided, or decided anew, by someone who may.
LEMMA DecisionKeeps ==
  ASSUME IInv, NEW c \in Calls, Returns(c), UNCHANGED <<state, attempts, made, answers>>,
         NEW p \in Payments, NEW h \in Half, NEW d \in Decided, RoleOf[d.actorAddress] # Other(h),
         approvals' = [approvals EXCEPT ![p][h] = d] \/ UNCHANGED approvals
  PROVE  IInv'
<1>1. approvals \in [Payments -> [Half -> Decided \union {Undecided}]]
  BY DEF IInv, Typed
<1>2. ASSUME approvals' = [approvals EXCEPT ![p][h] = d]
      PROVE  approvals' \in [Payments -> [Half -> Decided \union {Undecided}]] /\ HalvesKeptApart'
  <2>1. approvals' = [approvals EXCEPT ![p] = [approvals[p] EXCEPT ![h] = d]]
    BY <1>2
  <2>2. [approvals[p] EXCEPT ![h] = d] \in [Half -> Decided \union {Undecided}]
    BY <1>1
  <2>3. approvals' \in [Payments -> [Half -> Decided \union {Undecided}]]
    BY <1>1, <2>1, <2>2
  <2>4. ASSUME NEW r \in Payments, NEW g \in Half
        PROVE  approvals'[r][g] = IF r = p /\ g = h THEN d ELSE approvals[r][g]
    BY <1>1, <2>1
  <2>5. HalvesKeptApart'
    BY <2>4 DEF IInv, HalvesKeptApart
  <2> QED
    BY <2>3, <2>5
<1>3. ASSUME UNCHANGED approvals
      PROVE  approvals' \in [Payments -> [Half -> Decided \union {Undecided}]] /\ HalvesKeptApart'
  BY <1>1, <1>3 DEF IInv, HalvesKeptApart
<1>4. approvals' \in [Payments -> [Half -> Decided \union {Undecided}]] /\ HalvesKeptApart'
  BY <1>2, <1>3
<1>5. inFlight' = [inFlight EXCEPT ![c] = inFlight'[c]] /\ inFlight'[c] = NoCall
  BY EndsIs
<1>6. \A r \in Payments : Count[r] \in Nat /\ Count'[r] = Count[r]
  BY Finite DEF Count, AttemptsOf
<1>7. /\ inFlight' = [e \in Calls |-> inFlight'[e]]
      /\ \A e \in Calls : inFlight'[e] = NoCall \/ IsRequest(inFlight'[e])
      /\ Knowing'
  BY <1>5, <1>6, Moves
<1>8. Typed'
  BY <1>4, <1>7 DEF IInv, Typed
<1>9. Numbered' /\ KeyMeansOneAttempt' /\ AttemptedStaysSubmitted'
  BY DEF IInv, Numbered, KeyMeansOneAttempt, AttemptedStaysSubmitted
<1> QED
  BY <1>4, <1>7, <1>8, <1>9 DEF IInv

LEMMA ApproveKeeps ==
  ASSUME IInv, NEW c \in Calls, Approve(c)
  PROVE  IInv'
<1> DEFINE q == inFlight[c]
           d == Decision("APPROVED", q.member)
<1>1. q.next = "approve" /\ Returns(c) /\ UNCHANGED <<state, attempts, made, answers>>
  BY DEF Approve, Awaits
<1>2. IsRequest(q) /\ Knows(q)
  BY <1>1, Fields
<1>3. q.payment \in Payments /\ q.half \in Half /\ d \in Decided /\ d.actorAddress = q.member
  BY <1>2 DEF IsRequest, Decided, Decision
<1>4. RoleOf[d.actorAddress] # Other(q.half)
  BY <1>1, <1>2, <1>3 DEF Knows
<1>5. approvals' = [approvals EXCEPT ![q.payment][q.half] = d] \/ UNCHANGED approvals
  BY DEF Approve
<1> QED
  BY <1>1, <1>3, <1>4, <1>5, DecisionKeeps

LEMMA DeclineKeeps ==
  ASSUME IInv, NEW c \in Calls, Decline(c)
  PROVE  IInv'
<1> DEFINE q == inFlight[c]
           half == IF RoleOf[q.member] = "FINANCE" THEN "FINANCE" ELSE "MANAGER"
           there == approvals[q.payment][half]
           d == IF there = Undecided THEN Decision("REJECTED", q.member)
                ELSE Decision("REJECTED", there.actorAddress)
<1>1. q.next = "decline" /\ Returns(c) /\ UNCHANGED <<state, attempts, made, answers>>
  BY DEF Decline, Awaits
<1>2. q.payment \in Payments /\ q.member \in Members /\ half \in Half
  BY <1>1, Fields DEF IsRequest, Half
<1>3. d \in Decided /\ RoleOf[d.actorAddress] # Other(half)
  <2>1. CASE there = Undecided
    <3>1. d = Decision("REJECTED", q.member) /\ d \in Decided /\ d.actorAddress = q.member
      BY <1>2, <2>1 DEF Decided, Decision
    <3>2. RoleOf[q.member] # Other(half)
      BY DEF Other
    <3> QED
      BY <3>1, <3>2
  <2>2. CASE there # Undecided
    <3>1. there \in Decided
      BY <1>2, <2>2 DEF IInv, Typed
    <3>2. d = Decision("REJECTED", there.actorAddress) /\ d \in Decided
          /\ d.actorAddress = there.actorAddress
      BY <2>2, <3>1 DEF Decided, Decision
    <3>3. RoleOf[there.actorAddress] # Other(half)
      BY <1>2, <2>2 DEF IInv, HalvesKeptApart
    <3> QED
      BY <3>2, <3>3
  <2> QED
    BY <2>1, <2>2
<1>4. approvals' = [approvals EXCEPT ![q.payment][half] = d]
  BY DEF Decline
<1> HIDE DEF d, half
<1> QED
  BY <1>1, <1>2, <1>3, <1>4, DecisionKeeps

------------------------------------------------------------------------------
\* Attempts.

LEMMA FindAttemptKeeps ==
  ASSUME IInv, NEW c \in Calls, FindAttempt(c)
  PROVE  IInv'
<1> DEFINE q == inFlight[c]
<1>1. q.next = "find attempt" /\ UNCHANGED <<tables, made>> /\ q.next # "nothing"
  BY DEF FindAttempt, Awaits
<1>2. IsRequest(q) /\ Knows(q)
  BY <1>1, Fields
<1>3. made' \in 0 .. CallLimit
  BY <1>1 DEF IInv, Typed
<1>4. CASE Goes(c, "consult") /\ UNCHANGED answers
  <2>1. /\ inFlight' = [inFlight EXCEPT ![c] = inFlight'[c]] /\ IsRequest(inFlight'[c])
        /\ inFlight'[c].next = "consult" /\ inFlight'[c].action = q.action
    BY <1>1, <1>4, GoesIs DEF Statement
  <2>2. Knows(inFlight[c])'
    BY <1>1, <1>2, <2>1 DEF Knows
  <2> QED
    BY <1>1, <1>3, <1>4, <2>1, <2>2, Reads
<1>5. CASE Returns(c) /\ UNCHANGED answers
  BY <1>1, <1>3, <1>5, EndsIs, Reads
<1>6. ASSUME NEW a \in Keyed(q.key), a.payment = q.payment, Returns(c), Tell(q, a)
      PROVE  IInv'
  <2>1. UNCHANGED <<state, approvals, attempts, made>>
    BY <1>1 DEF tables
  <2>2. inFlight' = [inFlight EXCEPT ![c] = inFlight'[c]] /\ inFlight'[c] = NoCall
    BY <1>6, EndsIs
  <2>3. \A p \in Payments : Count[p] \in Nat /\ Count'[p] = Count[p]
    BY <2>1, Finite DEF Count, AttemptsOf
  <2>4. /\ inFlight' = [d \in Calls |-> inFlight'[d]]
        /\ \A d \in Calls : inFlight'[d] = NoCall \/ IsRequest(inFlight'[d])
        /\ Knowing'
    BY <2>1, <2>2, <2>3, Moves
  <2>5. Typed'
    BY <2>1, <2>4 DEF IInv, Typed
  <2>6. KeyMeansOneAttempt'
    BY <1>6, <2>1 DEF Tell, Keyed, KeyMeansOneAttempt, IInv
  <2>7. Numbered' /\ AttemptedStaysSubmitted' /\ HalvesKeptApart'
    BY <2>1 DEF IInv, Numbered, AttemptedStaysSubmitted, HalvesKeptApart
  <2> QED
    BY <2>4, <2>5, <2>6, <2>7 DEF IInv
<1> QED
  BY <1>4, <1>5, <1>6 DEF FindAttempt, Bound

LEMMA CountAttemptsKeeps ==
  ASSUME IInv, NEW c \in Calls, CountAttempts(c)
  PROVE  IInv'
<1> DEFINE q == inFlight[c]
<1>1. /\ q.next = "count attempts" /\ UNCHANGED <<tables, made, answers>>
      /\ q.next # "nothing"
      /\ inFlight' = [inFlight EXCEPT ![c].next = "create attempt",
                                ![c].read = Cardinality(AttemptsOf(q.payment))]
  BY DEF CountAttempts, Awaits, AttemptsOf
<1>2. IsRequest(q) /\ Knows(q) /\ DOMAIN inFlight = Calls /\ q.payment \in Payments
  BY <1>1, Fields DEF IsRequest
<1>3. made' \in 0 .. CallLimit /\ state' = state /\ attempts' = attempts
  BY <1>1 DEF IInv, Typed, tables
<1>4. Count[q.payment] = Cardinality(AttemptsOf(q.payment)) /\ Count[q.payment] \in Nat
  BY <1>2, Finite DEF Count
<1>5. inFlight'[c] = [q EXCEPT !.next = "create attempt", !.read = Count[q.payment]]
  BY <1>1, <1>2, <1>4
<1>6. /\ inFlight'[c].next = "create attempt" /\ inFlight'[c].payment = q.payment
      /\ inFlight'[c].read = Count[q.payment] /\ IsRequest(inFlight'[c])
  BY <1>2, <1>5 DEF IsRequest, Call, Statement
<1>7. Count' = Count
  BY <1>3 DEF Count, AttemptsOf
<1>8. Knows(inFlight[c])'
  <2>1. state'[inFlight'[c].payment] \in {"SUBMITTING", "PAID"}
    BY <1>1, <1>2, <1>3, <1>6 DEF Knows
  <2>2. inFlight'[c].read \in Nat /\ inFlight'[c].read <= Count'[inFlight'[c].payment]
    <3>1. Count'[inFlight'[c].payment] = Count[q.payment]
      BY <1>6, <1>7
    <3>2. \A n \in Nat : n <= n
      OBVIOUS
    <3> QED
      BY <1>4, <1>6, <3>1, <3>2
  <2> QED
    BY <1>6, <2>1, <2>2 DEF Knows
<1>9. inFlight' = [inFlight EXCEPT ![c] = inFlight'[c]]
  BY <1>1, <1>2
<1> QED
  BY <1>1, <1>3, <1>6, <1>8, <1>9, Reads

LEMMA CreateAttemptKeeps ==
  ASSUME IInv, NEW c \in Calls, CreateAttempt(c)
  PROVE  IInv'
<1> DEFINE q == inFlight[c]
           a == [key |-> q.key, payment |-> q.payment, attempt |-> q.read + 1]
<1>1. q.next = "create attempt" /\ UNCHANGED <<state, approvals, made>> /\ q.next # "nothing" /\ Returns(c)
  BY DEF CreateAttempt, Awaits
<1>2. IsRequest(q) /\ Knows(q) /\ q.payment \in Payments /\ q.key \in Keys
  BY <1>1, Fields DEF IsRequest
<1>3. inFlight' = [inFlight EXCEPT ![c] = inFlight'[c]] /\ inFlight'[c] = NoCall
  BY <1>1, EndsIs
<1>4. CASE UNCHANGED <<attempts, answers>>
  <2>1. made' \in 0 .. CallLimit /\ UNCHANGED <<tables, answers>>
    BY <1>1, <1>4 DEF IInv, Typed, tables
  <2> QED
    BY <1>3, <2>1, Reads
<1>5. CASE ~Taken(q.key) /\ attempts' = attempts \union {a} /\ Tell(q, a)
  <2>1. /\ q.read \in Nat /\ q.read <= Count[q.payment]
        /\ state[q.payment] \in {"SUBMITTING", "PAID"}
    BY <1>1, <1>2 DEF Knows
  <2>2. q.read + 1 <= Cardinality(Keys)
    <3>1. /\ Count[q.payment] \in Nat /\ Cardinality(attempts) \in Nat /\ Cardinality(Keys) \in Nat
          /\ Count[q.payment] <= Cardinality(attempts) /\ Cardinality(attempts) < Cardinality(Keys)
      BY <1>2, <1>5, Finite, FS_CardinalityType, ActionsAssumption
    <3> QED
      BY <2>1, <3>1
  <2>3. a \in AttemptRow /\ a.key = q.key /\ a.payment = q.payment /\ a.attempt = q.read + 1
    BY <1>2, <2>1 DEF AttemptRow
  <2> HIDE DEF a
  <2>4. ASSUME NEW p \in Payments
        PROVE  Count[p] \in Nat /\ Count'[p] \in Nat /\ Count[p] <= Count'[p]
    <3>1. IsFiniteSet(AttemptsOf(p)) /\ Count[p] = Cardinality(AttemptsOf(p))
          /\ Count'[p] = Cardinality(AttemptsOf(p)')
      BY Finite DEF Count
    <3>2. AttemptsOf(p)' = AttemptsOf(p) \/ AttemptsOf(p)' = AttemptsOf(p) \union {a}
      BY <1>5 DEF AttemptsOf
    <3>3. /\ IsFiniteSet(AttemptsOf(p) \union {a})
          /\ Cardinality(AttemptsOf(p) \union {a}) \in {Cardinality(AttemptsOf(p)), Cardinality(AttemptsOf(p)) + 1}
      BY <3>1, FS_AddElement
    <3>4. Cardinality(AttemptsOf(p)) \in Nat
      BY <3>1, FS_CardinalityType
    <3> QED
      BY <3>1, <3>2, <3>3, <3>4
  <2>5. /\ inFlight' = [d \in Calls |-> inFlight'[d]]
        /\ \A d \in Calls : inFlight'[d] = NoCall \/ IsRequest(inFlight'[d])
        /\ Knowing'
    BY <1>1, <1>3, <2>4, Moves
  <2>6. Typed'
    BY <1>1, <1>5, <2>3, <2>5 DEF IInv, Typed
  <2>7. Numbered'
    BY <1>5, <2>2, <2>3 DEF IInv, Numbered
  <2>8. KeyMeansOneAttempt'
    <3>1. \A b \in attempts : b.key # q.key
      BY <1>5 DEF Taken, Keyed
    <3>2. \A b, d \in attempts' : b.key = d.key => b = d
      BY <1>5, <2>3, <3>1 DEF IInv, KeyMeansOneAttempt
    <3>3. \A t \in answers' : t.attempt \in attempts' /\ t.attempt.key = t.key /\ t.attempt.payment = t.payment
      BY <1>5, <2>3 DEF IInv, KeyMeansOneAttempt, Tell
    <3> QED
      BY <3>2, <3>3 DEF KeyMeansOneAttempt
  <2>9. AttemptedStaysSubmitted' /\ HalvesKeptApart'
    BY <1>1, <1>5, <2>1, <2>3 DEF IInv, AttemptedStaysSubmitted, HalvesKeptApart
  <2> QED
    BY <2>5, <2>6, <2>7, <2>8, <2>9 DEF IInv
<1> QED
  BY <1>4, <1>5 DEF CreateAttempt, AttemptAfter

------------------------------------------------------------------------------
\* The rest: a request dies, the indexer moves a payment.

LEMMA DieKeeps ==
  ASSUME IInv, NEW c \in Calls, Die(c)
  PROVE  IInv'
<1>1. made' \in 0 .. CallLimit /\ Returns(c) /\ UNCHANGED <<tables, answers>>
  BY DEF Die, IInv, Typed
<1> QED
  BY <1>1, EndsIs, Reads

\* Nothing but states moved, and none that the chain decides.
LEMMA OnlyMoved ==
  ASSUME IInv, UNCHANGED <<approvals, attempts, inFlight, made, answers>>,
         state' \in [Payments -> PaymentState],
         \A r \in Payments : state[r] \in {"SUBMITTING", "PAID"} => state'[r] \in {"SUBMITTING", "PAID"}
  PROVE  IInv'
<1>1. ASSUME NEW c \in Calls, inFlight[c] # NoCall
      PROVE  Knows(inFlight[c])'
  <2>1. IsRequest(inFlight[c]) /\ Knows(inFlight[c]) /\ inFlight[c].payment \in Payments
    BY <1>1 DEF IInv, Typed, Knowing, IsRequest
  <2>2. Count' = Count
    BY DEF Count, AttemptsOf
  <2> QED
    BY <2>1, <2>2 DEF Knows
<1>2. Typed' /\ Knowing'
  BY <1>1 DEF IInv, Typed, Knowing
<1>3. AttemptedStaysSubmitted'
  BY DEF IInv, Typed, AttemptRow, AttemptedStaysSubmitted
<1>4. Numbered' /\ KeyMeansOneAttempt' /\ HalvesKeptApart'
  BY DEF IInv, Numbered, KeyMeansOneAttempt, HalvesKeptApart
<1> QED
  BY <1>2, <1>3, <1>4 DEF IInv

LEMMA ObserveKeeps ==
  ASSUME IInv, NEW p \in Payments, Observe(p)
  PROVE  IInv'
<1>1. PICK s \in PaymentState : Permitted(state[p], s, Indexer) /\ state' = [state EXCEPT ![p] = s]
  BY DEF Observe
<1>2. Indexer.kind # "system"
  BY DEF Indexer, Machine
<1>3. /\ state' \in [Payments -> PaymentState]
      /\ \A r \in Payments : state[r] \in {"SUBMITTING", "PAID"} => state'[r] \in {"SUBMITTING", "PAID"}
  BY <1>1, <1>2, WithTheChain
<1> QED
  BY <1>3, OnlyMoved DEF Observe

\* A rotation touches nothing that was handed over to the chain.
LEMMA RotationKeeps ==
  ASSUME IInv, OracleRotated
  PROVE  IInv'
<1>1. state \in [Payments -> PaymentState] /\ "AWAITING_ORACLE" \in PaymentState
  BY DEF IInv, Typed, PaymentState
<1>2. state' \in [Payments -> PaymentState]
  BY <1>1 DEF OracleRotated
<1>3. {"SUBMITTING", "PAID"} \intersect RevokedBy = {}
  BY DEF RevokedBy
<1>4. \A r \in Payments : state[r] \in {"SUBMITTING", "PAID"} => state'[r] \in {"SUBMITTING", "PAID"}
  BY <1>3 DEF OracleRotated
<1> QED
  BY <1>2, <1>4, OnlyMoved DEF OracleRotated

LEMMA StutterKeeps == IInv /\ UNCHANGED actionVars => IInv'
<1> SUFFICES ASSUME IInv, UNCHANGED actionVars PROVE IInv'
  OBVIOUS
<1>1. UNCHANGED <<state, approvals, attempts, inFlight, made, answers>>
  BY DEF actionVars, tables
<1>2. Typed'
  BY <1>1 DEF IInv, Typed
<1>3. Count' = Count
  BY <1>1 DEF Count, AttemptsOf
<1>4. Knowing'
  BY <1>1, <1>3 DEF IInv, Knowing, Knows
<1> QED
  BY <1>1, <1>2, <1>4 DEF IInv, Numbered, KeyMeansOneAttempt, AttemptedStaysSubmitted, HalvesKeptApart

LEMMA Initially == ActionsInit => IInv
<1> SUFFICES ASSUME ActionsInit PROVE IInv
  OBVIOUS
<1>1. Typed
  BY ActionsAssumption DEF ActionsInit, Typed, PaymentState
<1>2. Knowing /\ Numbered /\ KeyMeansOneAttempt /\ AttemptedStaysSubmitted
  BY DEF ActionsInit, Knowing, Numbered, KeyMeansOneAttempt, AttemptedStaysSubmitted
<1>3. HalvesKeptApart
  BY DEF ActionsInit, HalvesKeptApart
<1> QED
  BY <1>1, <1>2, <1>3 DEF IInv

LEMMA Inductive == IInv /\ [ActionsNext]_actionVars => IInv'
<1> SUFFICES ASSUME IInv, [ActionsNext]_actionVars PROVE IInv'
  OBVIOUS
<1>1. ASSUME NEW c \in Calls, NEW action \in Action, NEW m \in Members, NEW p \in Payments,
             NEW k \in Keys, Begin(c, action, m, p, k)
      PROVE  IInv'
  BY <1>1, BeginKeeps
<1>2. ASSUME NEW c \in Calls, FindDecision(c) \/ FindOtherHalf(c)
      PROVE  IInv'
  BY <1>2, ApprovingKeeps
<1>3. ASSUME NEW c \in Calls, Approve(c) \/ Decline(c)
      PROVE  IInv'
  BY <1>3, ApproveKeeps, DeclineKeeps
<1>4. ASSUME NEW c \in Calls, Consult(c) \/ Swap(c)
      PROVE  IInv'
  BY <1>4, ConsultKeeps, SwapKeeps
<1>5. ASSUME NEW c \in Calls, FindAttempt(c) \/ CountAttempts(c) \/ CreateAttempt(c)
      PROVE  IInv'
  BY <1>5, FindAttemptKeeps, CountAttemptsKeeps, CreateAttemptKeeps
<1>6. ASSUME NEW c \in Calls, Die(c)
      PROVE  IInv'
  BY <1>6, DieKeeps
<1>7. ASSUME NEW p \in Payments, Observe(p)
      PROVE  IInv'
  BY <1>7, ObserveKeeps
<1>8. CASE UNCHANGED actionVars
  BY <1>8, StutterKeeps
<1>9. CASE OracleRotated
  BY <1>9, RotationKeeps
<1> QED
  BY <1>1, <1>2, <1>3, <1>4, <1>5, <1>6, <1>7, <1>8, <1>9 DEF ActionsNext

LEMMA Invariance == ActionsSpec => []IInv
BY Initially, Inductive, PTL DEF ActionsSpec

\* The state is what its rows are declared to be; no more attempts are numbered
\* than there are keys.
THEOREM ActionsTyped == ActionsSpec => []ActionsTypeOK
<1>1. IInv => ActionsTypeOK
  <2> SUFFICES ASSUME IInv PROVE ActionsTypeOK
    OBVIOUS
  <2>1. \A p \in Payments, h \in Half :
          approvals[p][h] = Undecided \/ approvals[p][h].actorAddress \in Members
    BY DEF IInv, Typed, Decided
  <2>2. \A a \in attempts : a.attempt \in 1 .. Cardinality(Keys)
    <3>1. Cardinality(Keys) \in Nat
      BY FS_CardinalityType, ActionsAssumption
    <3> QED
      BY <3>1 DEF IInv, Typed, Numbered, AttemptRow
  <2> QED
    BY <2>1, <2>2 DEF IInv, Typed, ActionsTypeOK, AttemptRow
<1> QED
  BY <1>1, Invariance, PTL

\* An idempotency key names one attempt of one payment, and requests are told
\* of no other.
THEOREM KeysNameAttempts == ActionsSpec => []KeyMeansOneAttempt
<1>1. IInv => KeyMeansOneAttempt
  BY DEF IInv
<1> QED
  BY <1>1, Invariance, PTL

\* A payment with a settlement attempt is with the chain, whoever rejected or
\* cancelled it meanwhile.
THEOREM AttemptsAreSubmitted == ActionsSpec => []AttemptedStaysSubmitted
<1>1. IInv => AttemptedStaysSubmitted
  BY DEF IInv
<1> QED
  BY <1>1, Invariance, PTL

\* No half of the approval is recorded for somebody of the other half's role.
THEOREM HalvesApart == ActionsSpec => []HalvesKeptApart
<1>1. IInv => HalvesKeptApart
  BY DEF IInv
<1> QED
  BY <1>1, Invariance, PTL
==============================================================================
