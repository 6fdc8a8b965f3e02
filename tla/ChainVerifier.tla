----------------------------- MODULE ChainVerifier -----------------------------
(***************************************************************************)
(* How the reconciler makes sure that money moved: the asset's transfers   *)
(* are read from the network (lib/reconciliation/chain-verifier.ts) and    *)
(* searched for the one that settles a payment.  Anybody may transfer the  *)
(* asset; the contract does when an escrow is finalized, all its payments  *)
(* in one transaction.                                                     *)
(***************************************************************************)
EXTENDS Integers, Sequences, FiniteSets

CONSTANTS
  Payrolls,   \* the payments of an escrow: sequences of [recipient, asset, amount]
  Strangers,  \* transfers others make
  LookBack,   \* DEFAULT_TRANSFER_LOOKBACK_LEDGERS
  MaxRead,    \* 20 pages of events, in transactions
  MaxLedger   \* bound: ledgers, of one transaction each

ASSUME VerifierAssumption ==
  LookBack \in Nat \ {0} /\ MaxRead \in Nat \ {0} /\ MaxLedger \in Nat

VARIABLES
  ledgers, \* the transactions: who transfers, and what
  escrow   \* the escrow that is looked at: its payroll and the ledger that settled it

verifierVars == <<ledgers, escrow>>

Contract == "core-flow"
Unsettled == 0

VerifierInit ==
  /\ ledgers = <<>>
  /\ escrow \in [payments : Payrolls, at : {Unsettled}]

\* Another escrow is finalized, a stranger pays, or nothing moves.
Transact(from, payments) ==
  /\ Len(ledgers) < MaxLedger
  /\ ledgers' = Append(ledgers, [from |-> from, payments |-> payments])
  /\ UNCHANGED escrow
FinalizeEscrow ==
  /\ escrow.at = Unsettled /\ Len(ledgers) < MaxLedger
  /\ ledgers' = Append(ledgers, [from |-> Contract, payments |-> escrow.payments])
  /\ escrow' = [escrow EXCEPT !.at = Len(ledgers) + 1]

VerifierNext ==
  \/ \E p \in Payrolls : Transact(Contract, p)
  \/ \E p \in Strangers \union {<<>>} : Transact("stranger", p)
  \/ FinalizeEscrow

------------------------------------------------------------------------------
\* readTransfers: the asset's transfers from a day back on, as far as the
\* pages reach.
FirstRead == IF Len(ledgers) > LookBack THEN Len(ledgers) - LookBack ELSE 1
Reads == {l \in 1..Len(ledgers) : FirstRead <= l /\ l < FirstRead + MaxRead}
TransfersIn(l, asset) ==
  {[from |-> ledgers[l].from, payment |-> ledgers[l].payments[i], tx |-> l, nth |-> i] :
     i \in {i \in 1 .. Len(ledgers[l].payments) : ledgers[l].payments[i].asset = asset}}
ReadTransfers(asset) == UNION {TransfersIn(l, asset) : l \in Reads}

\* matchSettlementTransfer: from the contract, to the recipient, the asset and
\* the amount, in the transaction when one is known.
MatchSettlementTransfer(transfers, p, tx) ==
  {t \in transfers : t.from = Contract /\ t.payment = p /\ tx \in {Unsettled, t.tx}}

\* inferSettlementTransaction: the latest transaction of the contract that
\* pays everybody the escrow pays.
\* Mutant: that pays anybody.
PaysAnybody(transfers, tx, payments) ==
  \E i \in 1..Len(payments), t \in transfers : t.from = Contract /\ t.tx = tx /\ t.payment = payments[i]
CoversAll(transfers, tx, payments) ==
  \A i \in 1..Len(payments) : \E t \in transfers : t.from = Contract /\ t.tx = tx /\ t.payment = payments[i]
InferSettlementTransaction(transfers, payments) ==
  LET covering == {t.tx : t \in {t \in transfers : CoversAll(transfers, t.tx, payments)}}
  IN  IF covering = {} THEN Unsettled ELSE CHOOSE tx \in covering : \A o \in covering : o <= tx

\* countDuplicateSettlementsInSameTransaction
DuplicatedIn(matches) == \E s, t \in matches : s # t /\ s.tx = t.tx
\* findAmountMismatchedTransfers
WrongAmount(transfers, p, tx) ==
  {t \in transfers : /\ t.from = Contract /\ t.payment.recipient = p.recipient
                     /\ t.payment.amount # p.amount /\ tx \in {Unsettled, t.tx}}

\* reconcileOrganization, per payment that is settled on either side: the
\* transaction is the recorded one, or else inferred.
Verdict(payments, i, recorded) ==
  LET p == payments[i]
      transfers == ReadTransfers(p.asset)
      tx == IF recorded # Unsettled THEN recorded ELSE InferSettlementTransaction(transfers, payments)
      matched == MatchSettlementTransfer(transfers, p, tx)
  IN  IF DuplicatedIn(matched) THEN {"CONFIRMED", "DUPLICATE_PAYMENT_EVENT"}
      ELSE IF matched # {} THEN {"CONFIRMED"}
      ELSE IF WrongAmount(transfers, p, tx) # {} THEN {"ABSENT", "AMOUNT_MISMATCH"}
      ELSE {"ABSENT"}

------------------------------------------------------------------------------
VerifierTypeOK == Len(ledgers) <= MaxLedger /\ escrow.at \in 0..MaxLedger

\* A payment that was settled within what is read is confirmed, whether or not
\* its transaction was recorded; where it was, the payment is said to have been
\* paid twice just if its payroll has it twice, and where it was not, only if
\* one transaction of the contract does pay it twice, maybe another payroll's.
Twice(payments, i) == \E k \in 1 .. Len(payments) : k # i /\ payments[k] = payments[i]
PaidTwiceIn(l, p) ==
  /\ ledgers[l].from = Contract
  /\ \E i \in 1 .. Len(ledgers[l].payments) : ledgers[l].payments[i] = p /\ Twice(ledgers[l].payments, i)
SettledIsConfirmed ==
  escrow.at \in Reads =>
    \A i \in 1 .. Len(escrow.payments) :
      LET recorded == Verdict(escrow.payments, i, escrow.at)
          inferred == Verdict(escrow.payments, i, Unsettled)
      IN
      /\ "CONFIRMED" \in recorded /\ "CONFIRMED" \in inferred
      /\ "DUPLICATE_PAYMENT_EVENT" \in recorded <=> Twice(escrow.payments, i)
      /\ "DUPLICATE_PAYMENT_EVENT" \in inferred => \E l \in Reads : PaidTwiceIn(l, escrow.payments[i])

\* lib/reconciliation/chain-verifier.ts:316-321: scoping the match to one
\* transaction reports no duplicate payment that never happened.
NobodyTwiceByMistake ==
  escrow.at \in Reads =>
    \A i \in 1 .. Len(escrow.payments) :
      "DUPLICATE_PAYMENT_EVENT" \in Verdict(escrow.payments, i, Unsettled) => Twice(escrow.payments, i)
==============================================================================
