---------------------------- MODULE EscrowCustody ----------------------------
(***************************************************************************)
(* What the escrow contract promises about money, and nothing else: a      *)
(* batch is funded once, and what was funded leaves custody at most once,  *)
(* whole, either to the workers of the batch or back to whoever paid it    *)
(* in.  Who may do it and when is the business of CoreFlowContract, which  *)
(* implements this specification.                                          *)
(***************************************************************************)
EXTENDS TokenLedger

CONSTANTS
  EscrowIds,        \* escrow identifiers
  Batches,          \* the batches of payment rows that may be funded
  InitialBalances   \* who holds what before the first escrow

VARIABLES
  balances,         \* balances[holder][token]
  custody           \* custody[e]: what became of escrow e's deposit

custodyVars == <<balances, custody>>

Unfunded == [state |-> "unfunded"]

CustodyInit ==
  /\ balances = InitialBalances
  /\ custody = [e \in EscrowIds |-> Unfunded]

Fund(e, m, rows) ==
  /\ custody[e] = Unfunded
  /\ custody' = [custody EXCEPT ![e] = [state |-> "held", payer |-> m, rows |-> rows]]
  /\ balances' = Deposit(balances, m, rows)

Settle(e) ==
  /\ custody[e].state = "held"
  /\ custody' = [custody EXCEPT ![e].state = "settled"]
  /\ balances' = PayOut(balances, custody[e].rows)

Refund(e) ==
  /\ custody[e].state = "held"
  /\ custody' = [custody EXCEPT ![e].state = "refunded"]
  /\ balances' = GiveBack(balances, custody[e].payer, custody[e].rows)

CustodyNext ==
  \E e \in EscrowIds :
    \/ \E m \in Accounts, rows \in Batches : Fund(e, m, rows)
    \/ Settle(e)
    \/ Refund(e)

CustodySpec == CustodyInit /\ [][CustodyNext]_custodyVars
==============================================================================
