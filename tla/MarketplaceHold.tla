--------------------------- MODULE MarketplaceHold ---------------------------
(***************************************************************************)
(* The example contract examples/marketplace-hold: a buyer's money is held *)
(* for an order until an issuer's delivery claim for that order, relayed   *)
(* by anybody, releases it to the seller, or until the buyer takes it back *)
(* after a deadline.  Claims are verified by Attest.                       *)
(*                                                                         *)
(* A call that fails is rolled back by the host, so an action is a call    *)
(* that succeeds; a is who authorized it.                                  *)
(***************************************************************************)
EXTENDS Attest, Functions

CONSTANTS
  Traders,      \* addresses of buyers and sellers
  Vault,        \* the contract's own address
  HoldAdmin,    \* who the constructor names as administrator
  FirstIssuer,  \* and whose key it trusts
  Coins,        \* token contracts
  Prices,       \* the amounts holds are opened with (i128)
  Deadlines,    \* and the deadlines
  FirstPurses,  \* what each trader has at first
  MaxHolds,     \* bound on the holds that are opened
  MaxClock      \* bound on the ledger's timestamp

HoldIds == 1 .. MaxHolds
Owners == Traders \union {Vault}
Empty == [coin \in Coins |-> 0]
NoClaim == [subject |-> "none"]

ASSUME HoldAssumption ==
  /\ Vault \notin Traders
  /\ NoClaim.subject \notin Orders
  /\ FirstIssuer \in Issuers
  /\ Prices \subseteq Int /\ Deadlines \subseteq Nat
  /\ FirstPurses \in [Traders -> [Coins -> Nat]]
  /\ MaxHolds \in Nat /\ MaxClock \in Nat

VARIABLES
  holds,     \* DataKey::Hold
  nextHold,  \* DataKey::NextHoldId
  purses,    \* the balances at the token contracts
  spent      \* by hold, the claim that released it (its transaction names both)

holdVars == <<attestVars, holds, nextHold, purses, spent>>

DeliveryType == "marketplace.delivery.v1"
NoHold == [status |-> "None"]
Hold ==
  [buyer : Traders, seller : Traders, token : Coins, amount : Nat \ {0},
   order : Orders, refund_after : Nat, status : {"Open", "Released", "Refunded"}]

\* __constructor.
HoldInit ==
  /\ AttestInit(FirstIssuer)
  /\ holds = [h \in HoldIds |-> NoHold]
  /\ nextHold = 1
  /\ purses = [o \in Owners |-> IF o = Vault THEN Empty ELSE FirstPurses[o]]
  /\ spent = [h \in HoldIds |-> NoClaim]

------------------------------------------------------------------------------
Transfer(from, to, coin, n) ==
  /\ purses[from][coin] >= n
  /\ purses' = [purses EXCEPT ![from][coin] = @ - n, ![to][coin] = @ + n]

OpenHold(a, buyer, seller, token, amount, order, refund_after) ==
  /\ a = buyer
  /\ amount > 0
  /\ buyer # seller
  /\ nextHold <= MaxHolds
  /\ holds' = [holds EXCEPT ![nextHold] =
       [buyer |-> buyer, seller |-> seller, token |-> token, amount |-> amount,
        order |-> order, refund_after |-> refund_after, status |-> "Open"]]
  /\ nextHold' = nextHold + 1
  /\ Transfer(buyer, Vault, token, amount)
  /\ UNCHANGED <<attestVars, spent>>

\* Mutant: only a release closes a hold.
NotReleased(h) == holds[h].status \notin {"None", "Released"}
StillHeld(h) == holds[h].status = "Open"

Release(h, c) ==
  /\ StillHeld(h)
  /\ c.claim_type = DeliveryType
  /\ c.subject = holds[h].order
  /\ VerifyClaim(c)
  /\ holds' = [holds EXCEPT ![h].status = "Released"]
  /\ Transfer(Vault, holds[h].seller, holds[h].token, holds[h].amount)
  /\ spent' = [spent EXCEPT ![h] = c]
  /\ UNCHANGED <<trusted, signed, clock, nextHold>>

RefundHold(a, h) ==
  /\ StillHeld(h)
  /\ a = holds[h].buyer
  /\ clock > holds[h].refund_after
  /\ holds' = [holds EXCEPT ![h].status = "Refunded"]
  /\ Transfer(Vault, holds[h].buyer, holds[h].token, holds[h].amount)
  /\ UNCHANGED <<attestVars, nextHold, spent>>

\* add_issuer, remove_issuer and rotate_issuer.
ChangeIssuers(a) ==
  /\ a = HoldAdmin
  /\ \E k \in Issuers : RegisterIssuer(k) \/ RevokeIssuer(k) \/ \E new \in Issuers : RotateIssuer(k, new)
  /\ UNCHANGED <<next, used, signed, clock, holds, nextHold, purses, spent>>

\* An issuer signs, and time passes.
SignStatement(c) ==
  /\ signed' = signed \union {Preimage(c)}
  /\ UNCHANGED <<trusted, next, used, clock, holds, nextHold, purses, spent>>
ClockTicks ==
  /\ clock < MaxClock
  /\ clock' = clock + 1
  /\ UNCHANGED <<trusted, next, used, signed, holds, nextHold, purses, spent>>

HoldNext ==
  \/ \E a, buyer, seller \in Traders, token \in Coins, n \in Prices, order \in Orders, d \in Deadlines :
       OpenHold(a, buyer, seller, token, n, order, d)
  \/ \E h \in HoldIds : \/ \E c \in Statements : Release(h, c)
                        \/ \E a \in Traders : RefundHold(a, h)
  \/ \E a \in Traders \union {HoldAdmin} : ChangeIssuers(a)
  \/ \E c \in Statements : SignStatement(c)
  \/ ClockTicks

HoldSpec == HoldInit /\ [][HoldNext]_holdVars

------------------------------------------------------------------------------
\* Properties.

HoldTypeOK ==
  /\ trusted \subseteq Issuers
  /\ next \in [Scopes -> 0 .. MaxU64]
  /\ used \subseteq Issuers \X (ClaimIds \union {ZeroId})
  /\ clock \in Nat
  /\ nextHold \in 1 .. MaxHolds + 1
  /\ \A h \in HoldIds : holds[h] \in Hold \union {NoHold}
  /\ purses \in [Owners -> [Coins -> Nat]]

\* The contract can pay: what it has of a coin is what its open holds are for,
\* whatever was opened, released and refunded in whatever order.
HeldIsThere ==
  LET Held(coin) == [h \in HoldIds |-> IF StillHeld(h) /\ holds[h].token = coin
                                       THEN holds[h].amount ELSE 0]
  IN  \A coin \in Coins : purses[Vault][coin] = SumFunction(Held(coin))

\* A hold is released against a claim of its own, which somebody signed: no
\* claim pays twice, though issuers come, go and come back.
ReleasedOnce ==
  \A h \in HoldIds :
    /\ holds[h].status = "Released" <=> spent[h] # NoClaim
    /\ spent[h] # NoClaim =>
         /\ spent[h] \in signed /\ spent[h].subject = holds[h].order
         /\ \A other \in HoldIds \ {h} : spent[other] # spent[h]

\* lib.rs, release: when a hold is released, the key that signed the claim is
\* registered at that moment, whatever keys were before or will be, and the
\* claim is about the order of that very hold.
ReleasesAreTrusted ==
  [][\A h \in HoldIds : spent'[h] # spent[h] =>
       /\ spent'[h].issuer \in trusted /\ spent'[h] \in signed
       /\ spent'[h].subject = holds[h].order]_holdVars

\* What the contract promises, with the money it keeps and the verification of
\* claims left out.
Promise ==
  INSTANCE HoldPromise WITH
    Vouchers <- {Preimage(c) : c \in Statements}, deals <- holds,
    wallets <- [t \in Traders |-> purses[t]], recognized <- trusted, issued <- signed,
    redeemed <- spent, time <- clock
ImplementsPromise == Promise!PromiseSpec
==============================================================================
