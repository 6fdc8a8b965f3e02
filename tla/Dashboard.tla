------------------------------ MODULE Dashboard ------------------------------
(***************************************************************************)
(* The dashboard: the hook useDashboard, the cards of its escrows          *)
(* (components/EscrowCard.tsx) and the list they come from (api/escrows).  *)
(* When the list is empty or cannot be read it shows demonstration cards,  *)
(* whose handlers change the card on a timer; live handlers call the       *)
(* contract and read the list again.  What others do to the contract is    *)
(* left out here: a page meets it as a call that throws, a transaction     *)
(* that does not succeed, or a list that has moved on.                     *)
(***************************************************************************)
EXTENDS ContractClient

CONSTANTS
  Admin,       \* the signed-in administrator's wallet
  Here         \* the dialogs' place among the callers; a card's is its id

Domain == INSTANCE PaymentStates

VARIABLES
  configured, \* whether the contract's address is; it stays as it is
  recorded,  \* the server's escrows: the state of their payment, by on-chain id
  cards,     \* the cards shown, by the id they go by
  running    \* per caller: the handler at work

dashVars == <<configured, recorded, cards, running>>

Card(s, live) == [status |-> s, live |-> live]
\* The third demonstration card is paid, and has no buttons.
DemoCards == <<Card("pending_manager", FALSE), Card("pending_finance", FALSE)>>
NotRunning == [handler |-> "none", demo |-> FALSE]

DashInit ==
  /\ configured \in BOOLEAN
  /\ recorded = [e \in {1} |-> "AWAITING_ORACLE"]
  /\ cards = <<>>
  /\ running = [c \in Callers |-> NotRunning]

------------------------------------------------------------------------------
\* GET /api/escrows: the headline of an escrow is the label of its payment's
\* state; the indexer moves that state, and records escrows it finds.
LiveCards == [e \in DOMAIN recorded |-> Card(recorded[e], TRUE)]
Indexed(e) ==
  /\ e \in DOMAIN ledger
  /\ \E s \in {"AWAITING_ORACLE", "AWAITING_MANAGER", "AWAITING_FINANCE", "READY_TO_SETTLE", "PAID"} :
       /\ s = IF ledger[e].end = "paid" THEN "PAID"
              ELSE IF ledger[e].signed = Both THEN "READY_TO_SETTLE"
              ELSE IF ledger[e].signed # {} THEN "AWAITING_FINANCE"
              ELSE IF ledger[e].proved # {} THEN "AWAITING_MANAGER"
              ELSE "AWAITING_ORACLE"
       /\ recorded' = [x \in DOMAIN recorded \union {e} |-> IF x = e THEN s ELSE recorded[x]]
  /\ UNCHANGED <<configured, clientVars, cards, running>>
\* POST /api/escrows: without an id the body does not parse; an escrow already
\* known is left alone.
PostEscrow(e) ==
  IF e = 0 \/ e \in DOMAIN recorded THEN recorded
  ELSE [x \in DOMAIN recorded \union {e} |-> IF x = e THEN "VALIDATING" ELSE recorded[x]]

\* loadInitialData.
LoadInitialData ==
  cards' \in (IF configured /\ recorded # <<>> THEN {LiveCards} ELSE {}) \union {DemoCards}
Refresh ==
  /\ LoadInitialData
  /\ UNCHANGED <<configured, clientVars, recorded, running>>

------------------------------------------------------------------------------
\* The buttons of a card, by its status.
Buttons(status) ==
  CASE status = "pending_manager" -> {"manager", "reject", "cancel"}
    [] status = "pending_finance" -> {"finance", "reject", "cancel"}
    [] status = "ready" -> {"finalize", "cancel"}
    [] status \in {"rejected", "pending_hours"} -> {"hours"}
    [] OTHER -> {}

CallOf(b, e) ==
  Call(CASE b = "manager" -> "manager_approve" [] b = "finance" -> "finance_approve"
         [] b = "finalize" -> "pay_batch" [] b = "cancel" -> "cancel_escrow", e)

\* handleAction: handleManagerApprove, handleFinanceApprove, handleFinalize,
\* handleCancelEscrow and handleRejectHours begin alike.  A rejection goes to
\* a route that does not exist, and calls no contract.
HandleAction(e, b) ==
  LET demo == ~configured \/ ~cards[e].live IN
  /\ e \in DOMAIN cards /\ e \in Callers /\ running[e] = NotRunning
  /\ b \in Buttons(cards[e].status) \ {"hours"}
  /\ running' = [running EXCEPT ![e] = [handler |-> b, demo |-> demo]]
  /\ client' = IF demo \/ b = "reject" THEN client
               ELSE [client EXCEPT ![e] = Called(CallOf(b, e))]
  /\ UNCHANGED <<configured, ledger, sent, others, recorded, cards>>

\* A demonstration handler's timer: it finds its card by id.
DemoStatus(b) ==
  CASE b = "manager" -> "pending_finance" [] b = "finance" -> "ready"
    [] b = "finalize" -> "paid" [] b = "cancel" -> "cancelled" [] b = "reject" -> "rejected"
    [] b = "hours" -> "pending_manager"
DemoTimer(e) ==
  /\ running[e].demo
  /\ cards' = IF e \in DOMAIN cards
              THEN [cards EXCEPT ![e].status = DemoStatus(running[e].handler)] ELSE cards
  /\ running' = [running EXCEPT ![e] = NotRunning]
  /\ UNCHANGED <<configured, clientVars, recorded>>

\* The contract call came back, with whatever status: it is listed as a
\* success, and the list is read.
LiveDone(e) ==
  /\ running[e].handler \in {"manager", "finance", "finalize", "cancel"}
  /\ client[e].stage = "returned"
  /\ LoadInitialData
  /\ running' = [running EXCEPT ![e] = NotRunning]
  /\ client' = [client EXCEPT ![e] = Idle]
  /\ UNCHANGED <<configured, ledger, sent, others, recorded>>
RejectDone(e) ==
  /\ running[e].handler = "reject" /\ ~running[e].demo
  /\ LoadInitialData
  /\ running' = [running EXCEPT ![e] = NotRunning]
  /\ UNCHANGED <<configured, clientVars, recorded>>
\* handleBlockchainError: reported, and swallowed: the card says it is done.
HandleBlockchainError(e) ==
  /\ running[e] # NotRunning /\ client[e].stage = "threw"
  /\ running' = [running EXCEPT ![e] = NotRunning]
  /\ client' = [client EXCEPT ![e] = Idle]
  /\ UNCHANGED <<configured, ledger, sent, others, recorded, cards>>

------------------------------------------------------------------------------
\* handleCreateEscrow, from the dialog; the demonstration adds a card.
HandleCreateEscrow(finance) ==
  /\ running[Here] = NotRunning
  /\ IF ~configured
     THEN /\ running' = running /\ client' = client
          /\ cards' = Append(cards, Card("pending_hours", FALSE))
          /\ Len(cards) < 3
     ELSE /\ finance # Admin
          /\ running' = [running EXCEPT ![Here] = [handler |-> "create", demo |-> FALSE]]
          /\ client' = [client EXCEPT ![Here] = Called(Initialize(Admin, finance))]
          /\ cards' = cards
  /\ UNCHANGED <<configured, ledger, sent, others, recorded>>
EscrowCreated ==
  /\ running[Here].handler = "create" /\ client[Here].stage = "returned"
  /\ recorded' \in {PostEscrow(client[Here].value), recorded}
  /\ LoadInitialData
  /\ running' = [running EXCEPT ![Here] = NotRunning]
  /\ client' = [client EXCEPT ![Here] = Idle]
  /\ UNCHANGED <<configured, ledger, sent, others>>

\* handleSubmitHours: the nonce is read, api/oracle/attest signs for the
\* escrow's manager only, and the proof is submitted.
HandleSubmitHours(e) ==
  /\ running[Here] = NotRunning
  /\ IF configured /\ (e \in DOMAIN cards => cards[e].live)
     THEN /\ e \in DOMAIN ledger /\ e \in DOMAIN recorded /\ ledger[e].manager = Admin
          /\ running' = [running EXCEPT ![Here] = [handler |-> "hours", demo |-> FALSE]]
          /\ client' = [client EXCEPT ![Here] = Called(Proof(e, 0, GetNonce(e)))]
     ELSE /\ e \in DOMAIN cards /\ running[e] = NotRunning /\ e \in Callers
          /\ running' = [running EXCEPT ![e] = [handler |-> "hours", demo |-> TRUE]]
          /\ client' = client
  /\ UNCHANGED <<configured, ledger, sent, others, recorded, cards>>
HoursSubmitted ==
  /\ running[Here].handler = "hours" /\ client[Here].stage = "returned"
  /\ LoadInitialData
  /\ running' = [running EXCEPT ![Here] = NotRunning]
  /\ client' = [client EXCEPT ![Here] = Idle]
  /\ UNCHANGED <<configured, ledger, sent, others, recorded>>

DashNext ==
  \/ Refresh \/ EscrowCreated \/ HoursSubmitted
  \/ \E e \in DOMAIN ledger : Indexed(e)
  \/ \E e \in DOMAIN DemoCards : \/ \E b \in {"manager", "finance", "finalize", "cancel", "reject"} : HandleAction(e, b)
                     \/ HandleSubmitHours(e)
  \/ \E e \in Callers : DemoTimer(e) \/ LiveDone(e) \/ RejectDone(e) \/ HandleBlockchainError(e)
  \/ \E a \in Accounts : HandleCreateEscrow(a)
  \/ ClientNext /\ UNCHANGED dashVars

------------------------------------------------------------------------------
DashTypeOK ==
  /\ \A e \in DOMAIN recorded : recorded[e] \in Domain!PaymentState
  /\ \A e \in DOMAIN cards : cards[e].live \in BOOLEAN

\* api/escrows/route.ts:8: the list is retained because the dashboard consumes
\* its shape.  An escrow awaiting its manager then offers the approval.
LiveCardsCanAct ==
  \A e \in DOMAIN cards :
    cards[e].live /\ cards[e].status = "AWAITING_MANAGER" => "manager" \in Buttons(cards[e].status)
==============================================================================
