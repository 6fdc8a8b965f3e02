------------------------------- MODULE BulkPay -------------------------------
(***************************************************************************)
(* The bulk-pay page (app/bulk-pay/page.tsx) and the route that signs the  *)
(* hours of its batch (api/submit-batch): one escrow, attested, approved   *)
(* by two signers and settled from the page.  What the page shows of the   *)
(* escrow is the last answer of get_escrow it received.  The side the page *)
(* is switched to, the signed-in wallet (which Freighter need not sign     *)
(* with) and the chosen file change freely between two operations, so an   *)
(* operation takes them as parameters.                                     *)
(***************************************************************************)
EXTENDS ContractClient

CONSTANTS Page  \* the page's place among the callers

ESCROW_ID == 1

VARIABLES
  chain,    \* the snapshot shown
  busy,     \* the operation at work
  todo,     \* the proofs attest still has to submit
  shown     \* the transaction shown as confirmed (0: one the node turned down)

bulkVars == <<chain, busy, todo, shown>>
NotRead == [signed |-> {}]
NothingShown == <<>>

BulkInit ==
  /\ chain = NotRead
  /\ busy = "no" /\ todo = <<>> /\ shown = NothingShown

\* ChainState: what the page keeps of get_escrow, as far as it uses it.
Snapshot(r) == [manager |-> r.manager, finance |-> r.finance, signed |-> r.signed]

\* The effect on mounting reads the escrow.
Mount ==
  /\ chain = NotRead
  /\ chain' = Snapshot(GetEscrow(ESCROW_ID))
  /\ UNCHANGED <<clientVars, busy, todo, shown>>

------------------------------------------------------------------------------
\* run: clears what is shown, and awaits the operation.
Operate(label) ==
  /\ busy = "no"
  /\ busy' = label /\ shown' = NothingShown

\* POST /api/submit-batch: only for the escrow's manager and its own rows; the
\* signatures number on from the nonce, the hours follow from each row.
BatchSignatures ==
  [i \in 1..GetEscrow(ESCROW_ID).payments |-> Proof(ESCROW_ID, i - 1, GetNonce(ESCROW_ID) + i - 1)]
SubmitBatch(wallet, itsRows) ==
  IF wallet = GetEscrow(ESCROW_ID).manager /\ itsRows THEN BatchSignatures ELSE <<>>

\* attest: without signatures it ends there, with an error.
Attest(wallet, itsRows) ==
  LET signatures == SubmitBatch(wallet, itsRows) IN
  /\ Operate(IF signatures = <<>> THEN "no" ELSE "attest")
  /\ todo' = signatures
  /\ UNCHANGED <<clientVars, chain>>
SubmitHoursProof ==
  /\ busy = "attest" /\ client[Page] = Idle
  /\ client' = [client EXCEPT ![Page] = Called(Head(todo))]
  /\ UNCHANGED <<ledger, sent, others, bulkVars>>
\* The next proof follows on whatever status this one came back with.
NextProof ==
  /\ busy = "attest" /\ client[Page].stage = "returned" /\ Len(todo) > 1
  /\ todo' = Tail(todo)
  /\ client' = [client EXCEPT ![Page] = Idle]
  /\ UNCHANGED <<ledger, sent, others, chain, busy, shown>>

BothSigned == chain.signed = Both
ExpectedSigner(role) == IF role = "manager" THEN chain.manager ELSE chain.finance
WalletMatches(role, wallet) == chain # NotRead /\ wallet = ExpectedSigner(role)
AlreadySigned(role) == role \in chain.signed

\* Approving asks for no proof.
Approve(role, wallet) ==
  /\ WalletMatches(role, wallet) /\ ~AlreadySigned(role)
  /\ Operate(role)
  /\ client' = [client EXCEPT ![Page] =
       Called(Call(IF role = "manager" THEN "manager_approve" ELSE "finance_approve", ESCROW_ID))]
  /\ UNCHANGED <<ledger, sent, others, chain, todo>>
SettleBatch ==
  /\ BothSigned
  /\ Operate("settle")
  /\ client' = [client EXCEPT ![Page] = Called(Call("pay_batch", ESCROW_ID))]
  /\ UNCHANGED <<ledger, sent, others, chain, todo>>

\* Mutant: the operation's own effect is shown, whatever the contract says.
Optimistic(r) == IF busy \in Both THEN [r EXCEPT !.signed = @ \union {busy}] ELSE r
\* What refresh shows: the escrow as the contract has it.
Refreshed(r) == r
\* The operation returned: its hash is shown as a confirmed transaction, and
\* the escrow is read again, unless it cannot be.
RunReturned ==
  /\ client[Page].stage = "returned" /\ busy # "no" /\ Len(todo) <= 1
  /\ shown' = <<client[Page].tx>>
  /\ chain' \in {Refreshed(Snapshot(GetEscrow(ESCROW_ID))), chain}
  /\ busy' = "no" /\ todo' = <<>>
  /\ client' = [client EXCEPT ![Page] = Idle]
  /\ UNCHANGED <<ledger, sent, others>>
\* It threw: the error is shown and nothing is read.
RunThrew ==
  /\ client[Page].stage = "threw" /\ busy # "no"
  /\ busy' = "no" /\ todo' = <<>>
  /\ client' = [client EXCEPT ![Page] = Idle]
  /\ UNCHANGED <<ledger, sent, others, chain, shown>>

BulkNext ==
  \/ Mount
  \/ \E wallet \in Accounts :
       \/ \E itsRows \in BOOLEAN : Attest(wallet, itsRows)
       \/ \E role \in Both : Approve(role, wallet)
  \/ SubmitHoursProof \/ NextProof \/ SettleBatch \/ RunReturned \/ RunThrew
  \/ (ClientNext \/ OthersNext) /\ UNCHANGED bulkVars

BulkTypeOK ==
  /\ busy \in Both \union {"no", "attest", "settle"}
  /\ Len(todo) <= ledger[ESCROW_ID].payments /\ Len(shown) <= 1

------------------------------------------------------------------------------
\* Every badge reflects get_escrow (page.tsx:3): whoever is shown as having
\* signed has signed on chain, and settling is unlocked only by two approvals
\* that the contract holds.
BadgesReflectChain == chain.signed \subseteq ledger[ESCROW_ID].signed

\* page.tsx:469: the hash is shown as "Transaction confirmed".
ConfirmedIsConfirmed ==
  shown # NothingShown => shown[1] # 0 /\ sent[shown[1]].state = "success"
==============================================================================
