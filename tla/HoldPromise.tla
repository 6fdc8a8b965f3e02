----------------------------- MODULE HoldPromise -----------------------------
(***************************************************************************)
(* What the marketplace hold (examples/marketplace-hold) promises a buyer  *)
(* and a seller: what is held for an order goes to the seller against a    *)
(* voucher for that order by an issuer recognized at the time, each        *)
(* voucher buying one release, or back to the buyer after the deadline     *)
(* they agreed on, and never both.  How vouchers are verified, who decides *)
(* on issuers, and where the money is kept meanwhile, is the business of   *)
(* MarketplaceHold, which implements this specification.                   *)
(***************************************************************************)
EXTENDS Integers

CONSTANTS
  HoldIds,      \* the identifiers holds are given
  Traders,      \* buyers and sellers
  Vouchers,     \* the statements that orders were delivered
  FirstIssuer,  \* who is recognized at first
  FirstPurses   \* who has what at first

VARIABLES
  deals,       \* deals[h]: the terms of a hold and how it stands
  wallets,     \* what each trader has, by coin
  recognized,  \* the issuers whose vouchers are good now
  issued,      \* the vouchers issued so far
  redeemed,    \* redeemed[h]: the voucher hold h was released against
  time

promiseVars == <<deals, wallets, recognized, issued, redeemed, time>>

NoDeal == [status |-> "None"]
NoVoucher == [subject |-> "none"]

PromiseInit ==
  /\ deals = [h \in HoldIds |-> NoDeal]
  /\ wallets = FirstPurses
  /\ recognized = {FirstIssuer}
  /\ issued = {}
  /\ redeemed = [h \in HoldIds |-> NoVoucher]
  /\ time = 0

\* The wallets after n of a coin came in, or went out, for a trader.
Change(ws, trader, coin, n) == [ws EXCEPT ![trader][coin] = @ + n]

\* Two traders agree on any terms the buyer can pay for.
Strike(h) ==
  LET deal == deals'[h] IN
  /\ deals[h] = NoDeal /\ deal.status = "Open"
  /\ deal.buyer # deal.seller
  /\ deal.amount > 0 /\ wallets[deal.buyer][deal.token] >= deal.amount
  /\ \A other \in HoldIds \ {h} : deals'[other] = deals[other]
  /\ wallets' = Change(wallets, deal.buyer, deal.token, -deal.amount)
  /\ UNCHANGED <<recognized, issued, redeemed, time>>

Issue(v) ==
  /\ issued' = issued \union {v}
  /\ UNCHANGED <<deals, wallets, recognized, redeemed, time>>

\* Issuers come, go and come back.
Recognize == UNCHANGED <<deals, wallets, issued, redeemed, time>>

Redeem(h, v) ==
  /\ deals[h].status = "Open"
  /\ v \in issued /\ v.issuer \in recognized
  /\ v.subject = deals[h].order
  /\ \A other \in HoldIds : redeemed[other] # v
  /\ deals' = [deals EXCEPT ![h].status = "Released"]
  /\ redeemed' = [redeemed EXCEPT ![h] = v]
  /\ wallets' = Change(wallets, deals[h].seller, deals[h].token, deals[h].amount)
  /\ UNCHANGED <<recognized, issued, time>>

TakeBack(h) ==
  /\ deals[h].status = "Open" /\ time > deals[h].refund_after
  /\ deals' = [deals EXCEPT ![h].status = "Refunded"]
  /\ wallets' = Change(wallets, deals[h].buyer, deals[h].token, deals[h].amount)
  /\ UNCHANGED <<recognized, issued, redeemed, time>>

Pass ==
  /\ time' > time
  /\ UNCHANGED <<deals, wallets, recognized, issued, redeemed>>

PromiseNext ==
  \/ Recognize \/ Pass
  \/ \E h \in HoldIds : \/ \E v \in Vouchers : Redeem(h, v)
                        \/ Strike(h) \/ TakeBack(h)
  \/ \E v \in Vouchers : Issue(v)

PromiseSpec == PromiseInit /\ [][PromiseNext]_promiseVars
==============================================================================
