---------------------------- MODULE ContractClient ----------------------------
(***************************************************************************)
(* CoreFlowClient (lib/contracts.ts): how a page of the web interface      *)
(* calls the contract.  A call is simulated, signed in Freighter, sent,    *)
(* and polled for until its status is something other than PENDING; that   *)
(* status is returned, and no caller looks at it.  The ledger is as much   *)
(* of the contract (module CoreFlowContract) as a page can see or be       *)
(* refused by.                                                             *)
(***************************************************************************)
EXTENDS Naturals, Sequences, FiniteSets, SequencesExt

CONSTANTS
  Callers,   \* the places of the pages that call: each has one call at a time
  Accounts,  \* the wallets
  Escrow1,   \* the escrow there is at first
  MaxSent,   \* bound, per caller: transactions there may be once it has sent its own
  MaxOthers  \* bound: what others have the contract do

VARIABLES
  ledger,  \* the contract's escrows, by id
  sent,    \* the transactions the pages sent, with what became of each
  client,  \* per caller: the call at work
  others   \* how often others called the contract

clientVars == <<ledger, sent, client, others>>

Both == {"manager", "finance"}
EscrowDetails ==
  [manager : Accounts, finance : Accounts, payments : Nat, proved : SUBSET Nat, nonce : Nat,
   signed : SUBSET Both, end : {"open", "paid", "cancelled"}]
ASSUME ClientAssumption == Escrow1 \in EscrowDetails

NewEscrow(m, f, n) ==
  [manager |-> m, finance |-> f, payments |-> n, proved |-> {}, nonce |-> 0,
   signed |-> {}, end |-> "open"]
Idle == [stage |-> "idle"]
Called(c) == [stage |-> "called", call |-> c]
Returned(n, v) == [stage |-> "returned", tx |-> n, value |-> v]
Threw == [stage |-> "threw"]

ClientInit ==
  /\ ledger = <<Escrow1>> /\ sent = <<>> /\ others = 0
  /\ client = [p \in Callers |-> Idle]

------------------------------------------------------------------------------
\* The contract: whether it accepts a call signed by a, and what it does.
Call(fn, e) == [fn |-> fn, escrow |-> e]
Proof(e, i, n) == [fn |-> "submit_hours_proof", escrow |-> e, payment |-> i, nonce |-> n]
Initialize(m, f) == [fn |-> "initialize_multi_sig_escrow", manager |-> m, finance |-> f]

Accepts(c, a) ==
  IF c.fn = "initialize_multi_sig_escrow" THEN a = c.manager /\ c.manager # c.finance
  ELSE
  /\ c.escrow \in DOMAIN ledger
  /\ LET r == ledger[c.escrow] IN
     /\ r.end # "cancelled"
     /\ CASE c.fn = "submit_hours_proof" ->
               r.signed = {} /\ c.payment \in 0..(r.payments - 1) /\ c.nonce = r.nonce
          [] c.fn = "manager_approve" -> a = r.manager /\ "manager" \notin r.signed
          [] c.fn = "finance_approve" -> a = r.finance /\ "finance" \notin r.signed
          [] c.fn = "pay_batch" ->
               r.end = "open" /\ r.signed = Both /\ r.proved = 0..(r.payments - 1)
          [] c.fn = "cancel_escrow" -> r.end = "open" /\ a = r.manager

Apply(c) ==
  CASE c.fn = "initialize_multi_sig_escrow" -> Append(ledger, NewEscrow(c.manager, c.finance, 1))
    [] c.fn = "submit_hours_proof" ->
         [ledger EXCEPT ![c.escrow].proved = @ \union {c.payment}, ![c.escrow].nonce = @ + 1]
    [] c.fn = "manager_approve" -> [ledger EXCEPT ![c.escrow].signed = @ \union {"manager"}]
    [] c.fn = "finance_approve" -> [ledger EXCEPT ![c.escrow].signed = @ \union {"finance"}]
    [] c.fn = "pay_batch" -> [ledger EXCEPT ![c.escrow].end = "paid"]
    [] c.fn = "cancel_escrow" -> [ledger EXCEPT ![c.escrow].end = "cancelled"]

\* A pending transaction is applied or fails on the ledger it meets there, or
\* is never included (its five minutes pass).
Include(n) ==
  /\ sent[n].state = "pending"
  /\ \/ /\ Accepts(sent[n].call, sent[n].by)
        /\ ledger' = Apply(sent[n].call)
        /\ sent' = [sent EXCEPT ![n].state = "success", ![n].value =
                      IF sent[n].call.fn = "initialize_multi_sig_escrow" THEN Len(ledger) + 1 ELSE 0]
     \/ /\ ~Accepts(sent[n].call, sent[n].by)
        /\ sent' = [sent EXCEPT ![n].state = "failed"] /\ UNCHANGED ledger
     \/ sent' = [sent EXCEPT ![n].state = "expired"] /\ UNCHANGED ledger
  /\ UNCHANGED <<client, others>>

\* What other people, with other tools, have the contract do.
Elsewhere(c, a) ==
  /\ Accepts(c, a) /\ others < MaxOthers
  /\ ledger' = Apply(c) /\ others' = others + 1
  /\ UNCHANGED <<sent, client>>

------------------------------------------------------------------------------
\* submitTransaction: simulate; a call the contract refuses now throws.  a is
\* the account Freighter signs with.
Simulate(p, a) ==
  /\ client[p].stage = "called"
  /\ client' = [client EXCEPT ![p] =
       IF Accepts(client[p].call, a) THEN [stage |-> "signing", call |-> client[p].call, by |-> a]
       ELSE Threw]
  /\ UNCHANGED <<ledger, sent, others>>

\* The network, the wallet or the user fails.
Throw(p) ==
  /\ client[p].stage \in {"called", "signing"}
  /\ client' = [client EXCEPT ![p] = Threw]
  /\ UNCHANGED <<ledger, sent, others>>

\* Signed and sent: the node queues it, or turns it down with a status of its
\* own, which the caller is handed with the hash.
Send(p) ==
  /\ client[p].stage = "signing"
  /\ \/ /\ Len(sent) < MaxSent[p]
        /\ sent' = Append(sent, [call |-> client[p].call, by |-> client[p].by,
                                 state |-> "pending", value |-> 0])
        /\ client' = [client EXCEPT ![p] = [stage |-> "polling", tx |-> Len(sent) + 1]]
     \/ client' = [client EXCEPT ![p] = Returned(0, 0)] /\ UNCHANGED sent
  /\ UNCHANGED <<ledger, others>>

\* pollForResult ends at the first status but PENDING, and a transaction the
\* node has not applied yet is NOT_FOUND: as any other, it ends the polling.
\* Thirty errors in a row are a time-out.  The value is read afterwards, from
\* the transaction as it then stands.
PollForResult(p) ==
  /\ client[p].stage = "polling"
  /\ client' \in {[client EXCEPT ![p] = Returned(client[p].tx, sent[client[p].tx].value)],
                  [client EXCEPT ![p] = Threw]}
  /\ UNCHANGED <<ledger, sent, others>>

ClientNext ==
  \/ \E n \in DOMAIN sent : Include(n)
  \/ \E p \in Callers : \/ \E a \in Accounts : Simulate(p, a)
                        \/ Throw(p) \/ Send(p) \/ PollForResult(p)
OthersNext ==
  \E e \in DOMAIN ledger, a \in Accounts :
    \/ \E fn \in {"manager_approve", "finance_approve", "pay_batch", "cancel_escrow"} :
         Elsewhere(Call(fn, e), a)
    \/ \E i \in 0..(ledger[e].payments - 1) : Elsewhere(Proof(e, i, ledger[e].nonce), a)

\* What getEscrow and getNonce return: a simulation against the present ledger.
GetEscrow(e) == ledger[e]
GetNonce(e) == ledger[e].nonce
==============================================================================
