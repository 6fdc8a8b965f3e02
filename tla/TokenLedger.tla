----------------------------- MODULE TokenLedger -----------------------------
(***************************************************************************)
(* The Stellar Asset Contract balances an escrow moves, and the four bulk  *)
(* transfers contracts/core-flow/src/lib.rs makes through TokenClient.     *)
(*                                                                         *)
(* A transaction is atomic: when one transfer of a batch traps, the host   *)
(* reverts all of them.  So each operator below gives the balances after   *)
(* ALL the transfers of one call, and Transferable says that none of them  *)
(* trapped.                                                                *)
(***************************************************************************)
EXTENDS Integers, FiniteSetsExt

CONSTANTS
  Accounts,     \* user addresses (G... accounts)
  Contract,     \* the escrow contract's own address: the custody account
  Tokens,       \* Stellar Asset Contracts
  MaxBalance    \* what one balance can hold; a transfer beyond it traps

ASSUME TokenAssumption ==
  /\ Contract \notin Accounts
  /\ MaxBalance \in Nat

Holders == Accounts \union {Contract}
Amounts == 0 .. MaxBalance
Balances == [Holders -> [Tokens -> Amounts]]

\* What a batch of payment rows needs in token t: the inner summing loop.
Total(rows, t) ==
  SumFunction([i \in DOMAIN rows |-> IF rows[i].token = t THEN rows[i].amount ELSE 0])

\* What a batch owes the account a in token t.
Owed(rows, a, t) ==
  SumFunction([i \in DOMAIN rows |->
                 IF rows[i].token = t /\ rows[i].worker = a THEN rows[i].amount ELSE 0])

\* Mutant: only the first row of a batch is deposited.
DepositOfFirstRow(b, m, rows) ==
  [b EXCEPT ![m]        = [@ EXCEPT ![rows[1].token] = @ - rows[1].amount],
            ![Contract] = [@ EXCEPT ![rows[1].token] = @ + rows[1].amount]]
\* One transfer per distinct token, manager to custody.
Deposit(b, m, rows) ==
  [b EXCEPT ![m]        = [t \in Tokens |-> @[t] - Total(rows, t)],
            ![Contract] = [t \in Tokens |-> @[t] + Total(rows, t)]]

\* Mutant: a token is refunded once for every row that names it.
GiveBackPerRow(b, m, rows) ==
  LET Rows(t) == Cardinality({i \in DOMAIN rows : rows[i].token = t}) IN
  [b EXCEPT ![m]        = [t \in Tokens |-> @[t] + Rows(t) * Total(rows, t)],
            ![Contract] = [t \in Tokens |-> @[t] - Rows(t) * Total(rows, t)]]
\* One transfer per distinct token, custody back to the manager.
GiveBack(b, m, rows) ==
  [b EXCEPT ![m]        = [t \in Tokens |-> @[t] + Total(rows, t)],
            ![Contract] = [t \in Tokens |-> @[t] - Total(rows, t)]]

\* One transfer per row, custody to that row's worker in that row's token.
PayOut(b, rows) ==
  [a \in Holders |-> [t \in Tokens |->
     IF a = Contract THEN b[a][t] - Total(rows, t)
                     ELSE b[a][t] + Owed(rows, a, t)]]

\* No transfer trapped: nobody overdrew, nobody's balance overflowed.
Transferable(b) == b \in Balances
==============================================================================
