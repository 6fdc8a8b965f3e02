------------------------------ MODULE EscrowLog ------------------------------
(***************************************************************************)
(* The contract as the application sees it: the event log of one escrow.   *)
(*                                                                         *)
(* Each invocation that succeeds appends its events to the ledger that is  *)
(* closing.  What the contract's guards look at (CoreFlowContract) is a    *)
(* function of that log, so there is no other state.  Which rows settle    *)
(* which way is kept; amounts, accounts and nonces are not.                *)
(***************************************************************************)
EXTENDS Naturals, Sequences, FiniteSets

CONSTANTS
  Rows,       \* the indices of the escrow's payments, 0 .. n-1
  MaxEvents,  \* bound on the length of the log
  TxPerLedger \* bound on the invocations that share a ledger

ASSUME LogAssumption ==
  /\ IsFiniteSet(Rows) /\ Rows = 0 .. Cardinality(Rows) - 1
  /\ MaxEvents \in Nat
  /\ TxPerLedger \in Nat \ {0}

VARIABLES
  log,    \* the events, in the order of their paging tokens
  ledger, \* the ledger that is closing
  room    \* invocations it still takes

logVars == <<log, ledger, room>>

NoRow == Cardinality(Rows)
EventKind ==
  {"created", "payment_added", "hours", "manager_approved", "finance_approved",
   "payment_paid", "payment_cancelled", "finalized", "cancelled", "oracle_rotated"}
Event == [kind : EventKind, row : Rows \union {NoRow}, ledger : Nat]

Logged(kind) == \E i \in DOMAIN log : log[i].kind = kind
LoggedFor(kind, r) == \E i \in DOMAIN log : log[i].kind = kind /\ log[i].row = r

Created == Logged("created")
Settled(r) == LoggedFor("payment_paid", r)
Refunded(r) == LoggedFor("payment_cancelled", r)
Proven(r) ==
  \E i \in DOMAIN log :
    /\ log[i].kind = "hours" /\ log[i].row = r
    /\ \A j \in DOMAIN log : j > i => log[j].kind # "oracle_rotated"
AnyApproval == Logged("manager_approved") \/ Logged("finance_approved")
StillOpen == Created /\ ~Logged("finalized") /\ ~Logged("cancelled")

\* One event of a kind for every row, in index order.
PerRow(kind) == [i \in 1 .. Cardinality(Rows) |-> <<kind, i - 1>>]

Emit(events) ==
  /\ room > 0
  /\ Len(log) + Len(events) <= MaxEvents
  /\ log' = log \o [i \in DOMAIN events |->
                      [kind |-> events[i][1], row |-> events[i][2], ledger |-> ledger]]
  /\ room' = room - 1
  /\ UNCHANGED ledger

LogInit == log = <<>> /\ ledger = 1 /\ room = TxPerLedger

CreateEscrow ==
  /\ ~Created
  /\ Emit(<<<<"created", NoRow>>>> \o PerRow("payment_added"))

SubmitHours(r) ==
  /\ StillOpen /\ ~AnyApproval
  /\ Emit(<<<<"hours", r>>>>)

RotateKey ==
  /\ StillOpen
  /\ Emit(<<<<"oracle_rotated", NoRow>>>>)

\* The two approvals come in either order, with or without the proofs.
Approve(kind) ==
  /\ Created /\ ~Logged("cancelled") /\ ~Logged(kind)
  /\ Emit(<<<<kind, NoRow>>>>)

SettleBatch ==
  /\ StillOpen
  /\ Logged("manager_approved") /\ Logged("finance_approved")
  /\ \A r \in Rows : Proven(r)
  /\ Emit(PerRow("payment_paid") \o <<<<"finalized", NoRow>>>>)

RefundEscrow ==
  /\ StillOpen
  /\ Emit(PerRow("payment_cancelled") \o <<<<"cancelled", NoRow>>>>)

CloseLedger ==
  /\ room < TxPerLedger
  /\ ledger' = ledger + 1
  /\ room' = TxPerLedger
  /\ UNCHANGED log

LogNext ==
  \/ CreateEscrow
  \/ \E r \in Rows : SubmitHours(r)
  \/ RotateKey
  \/ \E kind \in {"manager_approved", "finance_approved"} : Approve(kind)
  \/ SettleBatch
  \/ RefundEscrow
  \/ CloseLedger
==============================================================================
