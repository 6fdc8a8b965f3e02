------------------------ MODULE MarketplaceHoldProofs ------------------------
(***************************************************************************)
(* Theorems about the marketplace hold, for any traders, coins, issuers,   *)
(* statements and bounds.                                                  *)
(***************************************************************************)
EXTENDS MarketplaceHold, TLAPS, NaturalLemmas

\* Holds are numbered in order, and stored as they are.
Numbered ==
  /\ holds = [h \in HoldIds |-> holds[h]]
  /\ \A h \in HoldIds : holds[h] = NoHold <=> h >= nextHold

\* What was used up by a release cannot be fresh again.
UsedUp(c) ==
  IF c.replay_mode = "Sequence" THEN c.nonce < next[scope_key(c)]
  ELSE <<c.issuer, c.claim_id>> \in used
Spending ==
  /\ spent = [h \in HoldIds |-> spent[h]]
  /\ \A h \in HoldIds : spent[h] # NoClaim =>
       spent[h] \in Statements /\ UsedUp(spent[h]) /\ spent[h].payload_encoding <= 1

HInv == HoldTypeOK /\ Numbered /\ Spending /\ ReleasedOnce

\* The fields of a statement.
LEMMA StatementFields ==
  ASSUME NEW c \in Statements
  PROVE  /\ c.issuer \in Issuers /\ c.subject \in Orders
         /\ c.claim_id \in ClaimIds \union {ZeroId} /\ c.nonce \in 0 .. MaxU64
         /\ c.payload_encoding \in Nat
         /\ scope_key(c) \in Scopes /\ c # NoClaim
<1>1. c \in AttestedClaim
  BY AttestAssumption
<1>2. c.subject # NoClaim.subject
  BY <1>1, HoldAssumption DEF AttestedClaim
<1> QED
  BY <1>1, <1>2 DEF AttestedClaim, Scopes, scope_key

\* An encoding that is accepted is written as it is.
LEMMA ValidPreimage ==
  ASSUME NEW c \in Statements, c.payload_encoding <= 1
  PROVE  Preimage(c) = c
<1>1. c \in AttestedClaim /\ ~(c.payload_encoding > 255)
  BY AttestAssumption, StatementFields
<1> QED
  BY <1>1 DEF Preimage, AttestedClaim

LEMMA NoHoldIsNone == \A r \in Hold : r # NoHold /\ r.status # "None"
  BY DEF Hold, NoHold

------------------------------------------------------------------------------
LEMMA HoldInitially == HoldInit => HInv
<1> SUFFICES ASSUME HoldInit PROVE HInv
  OBVIOUS
<1>1. HoldTypeOK
  <2>1. purses \in [Owners -> [Coins -> Nat]]
    BY HoldAssumption DEF HoldInit, Owners, Empty
  <2>2. next \in [Scopes -> 0 .. MaxU64] /\ trusted \subseteq Issuers /\ used = {} /\ clock = 0
    BY AttestAssumption, HoldAssumption DEF HoldInit, AttestInit
  <2>3. nextHold \in 1 .. MaxHolds + 1 /\ \A h \in HoldIds : holds[h] = NoHold
    BY HoldAssumption DEF HoldInit
  <2> QED
    BY <2>1, <2>2, <2>3 DEF HoldTypeOK
<1>2. Numbered
  BY DEF HoldInit, Numbered, HoldIds
<1>3. Spending /\ ReleasedOnce
  BY DEF HoldInit, Spending, ReleasedOnce, NoHold, NoClaim
<1> QED
  BY <1>1, <1>2, <1>3 DEF HInv

\* A transfer between two owners keeps the type of the balances.
LEMMA TransferTyped ==
  ASSUME purses \in [Owners -> [Coins -> Nat]],
         NEW from \in Owners, NEW to \in Owners, NEW coin \in Coins, NEW n \in Nat,
         from # to, Transfer(from, to, coin, n)
  PROVE  purses' \in [Owners -> [Coins -> Nat]]
<1>1. purses[from][coin] \in Nat /\ purses[from][coin] - n \in Nat
  BY DEF Transfer
<1>2. [purses[from] EXCEPT ![coin] = @ - n] \in [Coins -> Nat]
  BY <1>1
<1>3. [purses[to] EXCEPT ![coin] = @ + n] \in [Coins -> Nat]
  <2>1. purses[to][coin] \in Nat /\ purses[to][coin] + n \in Nat
    OBVIOUS
  <2> QED
    BY <2>1
<1>4. purses' = [purses EXCEPT ![from] = [purses[from] EXCEPT ![coin] = @ - n],
                               ![to] = [purses[to] EXCEPT ![coin] = @ + n]]
  BY DEF Transfer
<1> QED
  BY <1>2, <1>3, <1>4

\* What is on the record about the holds that exist.
LEMMA HoldFields ==
  ASSUME HInv, NEW h \in HoldIds, holds[h] # NoHold
  PROVE  /\ holds[h] \in Hold
         /\ holds[h].buyer \in Traders /\ holds[h].seller \in Traders
         /\ holds[h].buyer \in Owners /\ holds[h].seller \in Owners
         /\ holds[h].buyer # Vault /\ holds[h].seller # Vault
         /\ holds[h].token \in Coins /\ holds[h].amount \in Nat /\ holds[h].amount > 0
         /\ holds[h].order \in Orders /\ holds[h].refund_after \in Nat
<1>1. holds[h] \in Hold
  BY DEF HInv, HoldTypeOK
<1> QED
  BY <1>1, HoldAssumption DEF Hold, Owners

LEMMA OpenKeeps ==
  ASSUME HInv, NEW a \in Traders, NEW buyer \in Traders, NEW seller \in Traders,
         NEW token \in Coins, NEW n \in Prices, NEW order \in Orders, NEW d \in Deadlines,
         OpenHold(a, buyer, seller, token, n, order, d)
  PROVE  HInv'
<1> DEFINE new == [buyer |-> buyer, seller |-> seller, token |-> token, amount |-> n,
                   order |-> order, refund_after |-> d, status |-> "Open"]
<1>1. nextHold \in HoldIds /\ nextHold \in Nat /\ MaxHolds \in Nat
  BY HoldAssumption DEF OpenHold, HoldIds, HInv, HoldTypeOK
<1>2. new \in Hold /\ n \in Nat
  BY HoldAssumption DEF OpenHold, Hold
<1>3. holds' = [holds EXCEPT ![nextHold] = new] /\ nextHold' = nextHold + 1
  BY DEF OpenHold
<1>4. holds[nextHold] = NoHold /\ spent[nextHold] = NoClaim
  <2>1. holds[nextHold] = NoHold
    BY <1>1 DEF HInv, Numbered
  <2> QED
    BY <1>1, <2>1 DEF HInv, ReleasedOnce, NoHold
<1>5. /\ holds'[nextHold] = new
      /\ \A h \in HoldIds \ {nextHold} : holds'[h] = holds[h]
  BY <1>1, <1>3 DEF HInv, Numbered
<1> HIDE DEF new
<1>6. HoldTypeOK'
  <2>1. purses' \in [Owners -> [Coins -> Nat]]
    BY <1>2, TransferTyped, HoldAssumption DEF OpenHold, Owners, HInv, HoldTypeOK
  <2>2. nextHold' \in 1 .. MaxHolds + 1
    BY <1>1, <1>3 DEF HoldIds
  <2>3. \A h \in HoldIds : holds'[h] \in Hold \union {NoHold}
    BY <1>2, <1>5 DEF HInv, HoldTypeOK
  <2> QED
    BY <2>1, <2>2, <2>3 DEF HInv, HoldTypeOK, OpenHold, attestVars
<1>7. Numbered'
  <2>1. \A h \in HoldIds : h \in Nat
    BY DEF HoldIds
  <2>2. \A h \in HoldIds : holds'[h] = NoHold <=> h >= nextHold'
    BY <1>1, <1>2, <1>3, <1>5, <2>1, NoHoldIsNone DEF HInv, Numbered
  <2>3. holds' = [h \in HoldIds |-> holds'[h]]
    BY <1>3 DEF HInv, Numbered
  <2> QED
    BY <2>2, <2>3 DEF Numbered
<1>8. Spending'
  BY DEF OpenHold, attestVars, HInv, Spending, UsedUp, scope_key
<1>9. ReleasedOnce'
  <2>1. new.status = "Open"
    BY DEF new
  <2> QED
    BY <1>4, <1>5, <2>1 DEF OpenHold, attestVars, HInv, ReleasedOnce
<1> QED
  BY <1>6, <1>7, <1>8, <1>9 DEF HInv

\* A hold that moves on from Open, its money leaving the vault.
LEMMA MovesOn ==
  ASSUME HInv, NEW h \in HoldIds, StillHeld(h),
         NEW to \in Traders, NEW s \in {"Released", "Refunded"},
         holds' = [holds EXCEPT ![h].status = s],
         Transfer(Vault, to, holds[h].token, holds[h].amount),
         UNCHANGED nextHold
  PROVE  /\ Numbered'
         /\ purses' \in [Owners -> [Coins -> Nat]]
         /\ holds[h] # NoHold
         /\ holds' = [holds EXCEPT ![h] = [holds[h] EXCEPT !.status = s]]
         /\ holds'[h] = [holds[h] EXCEPT !.status = s] /\ holds'[h] \in Hold
         /\ holds'[h].status = s /\ holds'[h].order = holds[h].order
         /\ \A x \in HoldIds \ {h} : holds'[x] = holds[x]
<1>1. holds[h] # NoHold
  BY DEF StillHeld, NoHold
<1>2. holds[h] \in Hold /\ holds[h].token \in Coins /\ holds[h].amount \in Nat
  BY <1>1, HoldFields
<1>3. /\ holds'[h] = [holds[h] EXCEPT !.status = s]
      /\ \A x \in HoldIds \ {h} : holds'[x] = holds[x]
      /\ holds' = [x \in HoldIds |-> holds'[x]]
  BY DEF HInv, Numbered
<1>4. holds'[h] \in Hold /\ holds'[h].status = s /\ holds'[h].order = holds[h].order
  BY <1>2, <1>3 DEF Hold
<1>5. holds'[h] # NoHold
  BY <1>4, NoHoldIsNone
<1>6. Numbered'
  BY <1>1, <1>3, <1>5 DEF HInv, Numbered
<1>7. purses' \in [Owners -> [Coins -> Nat]]
  BY <1>2, TransferTyped, HoldAssumption DEF Owners, HInv, HoldTypeOK
<1>8. holds' = [holds EXCEPT ![h] = [holds[h] EXCEPT !.status = s]]
  OBVIOUS
<1> QED
  BY <1>1, <1>3, <1>4, <1>6, <1>7, <1>8

LEMMA RefundKeeps ==
  ASSUME HInv, NEW a \in Traders, NEW h \in HoldIds, RefundHold(a, h)
  PROVE  HInv'
<1>1. holds[h] # NoHold /\ StillHeld(h)
  BY DEF RefundHold, StillHeld, NoHold
<1>2. holds[h].buyer \in Traders
  BY <1>1, HoldFields
<1>3. /\ Numbered' /\ purses' \in [Owners -> [Coins -> Nat]]
      /\ holds'[h] \in Hold /\ holds'[h].status = "Refunded"
      /\ \A x \in HoldIds \ {h} : holds'[x] = holds[x]
  BY <1>1, <1>2, MovesOn DEF RefundHold
<1>4. HoldTypeOK'
  BY <1>3 DEF HInv, HoldTypeOK, RefundHold, attestVars
<1>5. Spending'
  BY DEF RefundHold, attestVars, HInv, Spending, UsedUp, scope_key
<1>6. spent[h] = NoClaim
  BY <1>1 DEF HInv, ReleasedOnce, StillHeld
<1>7. ReleasedOnce'
  BY <1>3, <1>6 DEF RefundHold, attestVars, HInv, ReleasedOnce
<1> QED
  BY <1>3, <1>4, <1>5, <1>7 DEF HInv

\* A claim that is verified was not used up, is used up then, and leaves what
\* was used up before as it was.
LEMMA Verified ==
  ASSUME HInv, NEW c \in Statements, VerifyClaim(c)
  PROVE  /\ ~UsedUp(c) /\ UsedUp(c)'
         /\ next' \in [Scopes -> 0 .. MaxU64]
         /\ used \subseteq used' /\ used' \subseteq Issuers \X (ClaimIds \union {ZeroId})
         /\ \A s \in Scopes : next'[s] >= next[s]
         /\ c \in signed /\ c.payload_encoding <= 1
<1>1. /\ c.issuer \in Issuers /\ c.claim_id \in ClaimIds \union {ZeroId}
      /\ c.nonce \in 0 .. MaxU64 /\ scope_key(c) \in Scopes
      /\ MaxU64 \in Nat
  BY StatementFields, AttestAssumption
<1>2. c.payload_encoding <= 1 /\ Fresh(c) /\ Consume(c) /\ Preimage(c) \in signed
  BY DEF VerifyClaim
<1>3. c \in signed
  BY <1>2, ValidPreimage
<1>4. next \in [Scopes -> 0 .. MaxU64] /\ used \subseteq Issuers \X (ClaimIds \union {ZeroId})
  BY DEF HInv, HoldTypeOK
<1>5. CASE c.replay_mode = "Sequence"
  <2>1. /\ c.nonce = next[scope_key(c)] /\ c.nonce # MaxU64 /\ used' = used
        /\ next' = [next EXCEPT ![scope_key(c)] = c.nonce + 1]
    BY <1>2, <1>5 DEF Fresh, Consume
  <2>2. c.nonce + 1 \in 0 .. MaxU64
    BY <1>1, <2>1
  <2>3. next'[scope_key(c)] = c.nonce + 1 /\ scope_key(c)' = scope_key(c)
    BY <1>1, <1>4, <2>1 DEF scope_key
  <2>4. next' \in [Scopes -> 0 .. MaxU64]
    BY <1>4, <2>1, <2>2
  <2>5. \A s \in Scopes : next'[s] >= next[s]
    BY <1>1, <1>4, <2>1
  <2>6. ~UsedUp(c) /\ UsedUp(c)'
    BY <1>1, <1>5, <2>1, <2>3 DEF UsedUp
  <2> QED
    BY <1>2, <1>3, <1>4, <2>1, <2>4, <2>5, <2>6
<1>6. CASE c.replay_mode # "Sequence"
  <2>1. /\ <<c.issuer, c.claim_id>> \notin used /\ next' = next
        /\ used' = used \union {<<c.issuer, c.claim_id>>}
    BY <1>2, <1>6 DEF Fresh, Consume
  <2>2. ~UsedUp(c) /\ UsedUp(c)'
    BY <1>6, <2>1 DEF UsedUp
  <2>3. \A s \in Scopes : next'[s] >= next[s]
    BY <1>1, <1>4, <2>1
  <2>4. used' \subseteq Issuers \X (ClaimIds \union {ZeroId})
    BY <1>1, <1>4, <2>1
  <2> QED
    BY <1>2, <1>3, <1>4, <2>1, <2>2, <2>3, <2>4
<1> QED
  BY <1>5, <1>6

\* The claim a release spends has released no other hold.
LEMMA Unspent ==
  ASSUME HInv, NEW c \in Statements, VerifyClaim(c), NEW h \in HoldIds
  PROVE  spent[h] # c
<1>1. ~UsedUp(c) /\ c # NoClaim
  BY Verified, StatementFields
<1> QED
  BY <1>1 DEF HInv, Spending

LEMMA ReleaseKeeps ==
  ASSUME HInv, NEW h \in HoldIds, NEW c \in Statements, Release(h, c)
  PROVE  HInv'
<1>1. holds[h] # NoHold /\ StillHeld(h) /\ VerifyClaim(c)
  BY DEF Release, StillHeld, NoHold
<1>2. holds[h].seller \in Traders
  BY <1>1, HoldFields
<1>3. /\ Numbered' /\ purses' \in [Owners -> [Coins -> Nat]]
      /\ holds'[h] \in Hold /\ holds'[h].status = "Released"
      /\ holds'[h].order = holds[h].order
      /\ \A x \in HoldIds \ {h} : holds'[x] = holds[x]
  BY <1>1, <1>2, MovesOn DEF Release
<1>4. /\ UsedUp(c)' /\ next' \in [Scopes -> 0 .. MaxU64]
      /\ used' \subseteq Issuers \X (ClaimIds \union {ZeroId})
      /\ c \in signed /\ c.payload_encoding <= 1 /\ c # NoClaim
  BY <1>1, Verified, StatementFields
<1>5. /\ spent' = [spent EXCEPT ![h] = c]
      /\ UNCHANGED <<trusted, signed, clock, nextHold>>
      /\ c.subject = holds[h].order
  BY DEF Release
<1>6. /\ spent'[h] = c
      /\ \A x \in HoldIds \ {h} : spent'[x] = spent[x]
      /\ spent' = [x \in HoldIds |-> spent'[x]]
  BY <1>5 DEF HInv, Spending
<1>7. HoldTypeOK'
  BY <1>3, <1>4, <1>5 DEF HInv, HoldTypeOK
<1>8. Spending'
  <2>1. ASSUME NEW x \in HoldIds \ {h}, spent[x] # NoClaim
        PROVE  spent[x] \in Statements /\ spent[x].payload_encoding <= 1 /\ UsedUp(spent[x])'
    <3>1. spent[x] \in Statements /\ UsedUp(spent[x]) /\ spent[x].payload_encoding <= 1
      BY <2>1 DEF HInv, Spending
    <3> DEFINE d == spent[x]
    <3>2. /\ \A s \in Scopes : next'[s] >= next[s]
          /\ used \subseteq used'
          /\ scope_key(d) \in Scopes /\ d.nonce \in 0 .. MaxU64
      BY <1>1, <3>1, Verified, StatementFields
    <3>3. next[scope_key(d)] \in Int /\ next'[scope_key(d)] \in Int /\ d.nonce \in Int
      BY <1>4, <3>2, AttestAssumption DEF HInv, HoldTypeOK
    <3>4. CASE d.replay_mode = "Sequence"
      <4>1. d.nonce < next[scope_key(d)]
        BY <3>1, <3>4 DEF UsedUp
      <4>2. d.nonce < next'[scope_key(d)]
        BY <3>2, <3>3, <4>1
      <4> QED
        BY <3>1, <3>4, <4>2, <1>6 DEF UsedUp, scope_key
    <3>5. CASE d.replay_mode # "Sequence"
      BY <3>1, <3>2, <3>5, <1>6 DEF UsedUp
    <3> QED
      BY <3>1, <3>4, <3>5
  <2> QED
    BY <1>4, <1>6, <2>1 DEF Spending, UsedUp, scope_key
<1>9. ReleasedOnce'
  <2>1. \A x \in HoldIds : spent[x] # c
    BY <1>1, Unspent
  <2>2. /\ holds'[h].status = "Released" /\ spent'[h] # NoClaim
        /\ spent'[h] \in signed' /\ spent'[h].subject = holds'[h].order
        /\ \A x \in HoldIds \ {h} : spent'[x] # spent'[h]
    BY <1>3, <1>4, <1>5, <1>6, <2>1
  <2>3. \A x \in HoldIds \ {h} :
          /\ holds'[x].status = "Released" <=> spent'[x] # NoClaim
          /\ spent'[x] # NoClaim =>
               /\ spent'[x] \in signed' /\ spent'[x].subject = holds'[x].order
               /\ \A other \in HoldIds \ {x} : spent'[other] # spent'[x]
    BY <1>3, <1>5, <1>6, <2>1 DEF HInv, ReleasedOnce
  <2> QED
    BY <2>2, <2>3 DEF ReleasedOnce
<1> QED
  BY <1>3, <1>7, <1>8, <1>9 DEF HInv

\* Statements are signed, keys come and go and time passes without touching
\* what was spent.
LEMMA OthersKeep ==
  ASSUME HInv,
         \/ \E a \in Traders \union {HoldAdmin} : ChangeIssuers(a)
         \/ \E c \in Statements : SignStatement(c)
         \/ ClockTicks
         \/ UNCHANGED holdVars
  PROVE  HInv'
<1>1. UNCHANGED <<next, used, holds, nextHold, purses, spent>> /\ signed \subseteq signed'
  BY DEF ChangeIssuers, SignStatement, ClockTicks, holdVars, attestVars
<1>2. trusted' \subseteq Issuers /\ clock' \in Nat
  BY DEF HInv, HoldTypeOK, ChangeIssuers, RegisterIssuer, RevokeIssuer, RotateIssuer, SignStatement,
     ClockTicks, holdVars, attestVars
<1>3. HoldTypeOK'
  BY <1>1, <1>2 DEF HInv, HoldTypeOK
<1>4. Numbered' /\ Spending'
  BY <1>1 DEF HInv, Numbered, Spending, UsedUp, scope_key
<1>5. ReleasedOnce'
  BY <1>1 DEF HInv, ReleasedOnce
<1> QED
  BY <1>3, <1>4, <1>5 DEF HInv

LEMMA HoldInductive == HInv /\ [HoldNext]_holdVars => HInv'
<1> SUFFICES ASSUME HInv, [HoldNext]_holdVars PROVE HInv'
  OBVIOUS
<1>1. ASSUME NEW a \in Traders, NEW buyer \in Traders, NEW seller \in Traders,
             NEW token \in Coins, NEW n \in Prices, NEW order \in Orders, NEW d \in Deadlines,
             OpenHold(a, buyer, seller, token, n, order, d)
      PROVE  HInv'
  BY <1>1, OpenKeeps
<1>2. ASSUME NEW h \in HoldIds, NEW c \in Statements, Release(h, c) PROVE HInv'
  BY <1>2, ReleaseKeeps
<1>3. ASSUME NEW h \in HoldIds, NEW a \in Traders, RefundHold(a, h) PROVE HInv'
  BY <1>3, RefundKeeps
<1>4. CASE \/ \E a \in Traders \union {HoldAdmin} : ChangeIssuers(a)
           \/ \E c \in Statements : SignStatement(c)
           \/ ClockTicks
           \/ UNCHANGED holdVars
  BY <1>4, OthersKeep
<1> QED
  BY <1>1, <1>2, <1>3, <1>4 DEF HoldNext

LEMMA HoldInvariant == HoldSpec => []HInv
<1> QED
  BY HoldInitially, HoldInductive, PTL DEF HoldSpec

\* The hold contract keeps its types (lib.rs, Hold and DataKey).
THEOREM HoldTyped == HoldSpec => []HoldTypeOK
<1>1. HInv => HoldTypeOK
  BY DEF HInv
<1> QED
  BY <1>1, HoldInvariant, PTL

\* A release is against a claim that a key registered at that moment signed for
\* the order of that hold.
LEMMA ReleaseTrusts ==
  ASSUME HInv, [HoldNext]_holdVars, NEW h \in HoldIds, spent'[h] # spent[h]
  PROVE  /\ spent'[h].issuer \in trusted /\ spent'[h] \in signed
         /\ spent'[h].subject = holds[h].order
<1>1. PICK x \in HoldIds, c \in Statements : Release(x, c)
  <2>1. (\E x \in HoldIds, c \in Statements : Release(x, c)) \/ UNCHANGED spent
    BY DEF HoldNext, OpenHold, RefundHold, ChangeIssuers, SignStatement, ClockTicks, holdVars
  <2> QED
    BY <2>1
<1>2. spent' = [spent EXCEPT ![x] = c] /\ VerifyClaim(c) /\ c.subject = holds[x].order
  BY <1>1 DEF Release
<1>3. h = x /\ spent'[h] = c
  BY <1>2 DEF HInv, Spending
<1> QED
  BY <1>2, <1>3, Verified DEF VerifyClaim

\* No delivery claim releases two holds, and each release is against a claim
\* signed, for the order of its hold, by a key that the registry holds at that
\* moment, for whatever keys are added, removed and added again (lib.rs,
\* release; registry.rs; replay.rs).
THEOREM ClaimsReleaseOnce == HoldSpec => []ReleasedOnce /\ ReleasesAreTrusted
<1>1. HInv => ReleasedOnce
  BY DEF HInv
<1>2. HInv /\ [HoldNext]_holdVars =>
        \A h \in HoldIds : spent'[h] # spent[h] =>
          /\ spent'[h].issuer \in trusted /\ spent'[h] \in signed
          /\ spent'[h].subject = holds[h].order
  BY ReleaseTrusts
<1> QED
  BY <1>1, <1>2, HoldInvariant, PTL DEF HoldSpec, ReleasesAreTrusted

------------------------------------------------------------------------------
\* What is held of a coin, by hold.
Held(coin) ==
  [h \in HoldIds |-> IF StillHeld(h) /\ holds[h].token = coin THEN holds[h].amount ELSE 0]

LEMMA HeldTyped ==
  ASSUME HoldTypeOK
  PROVE  /\ IsFiniteSet(HoldIds)
         /\ \A coin \in Coins : \A h \in HoldIds : Held(coin)[h] \in Nat
<1>1. IsFiniteSet(HoldIds)
  BY HoldAssumption, FS_Interval DEF HoldIds
<1>2. ASSUME NEW coin \in Coins, NEW h \in HoldIds PROVE Held(coin)[h] \in Nat
  <2>1. StillHeld(h) => holds[h] \in Hold
    BY DEF StillHeld, HoldTypeOK, NoHold
  <2> QED
    BY <2>1 DEF Held, Hold
<1> QED
  BY <1>1, <1>2

LEMMA HeldIsThereIs ==
  HeldIsThere <=> \A coin \in Coins : purses[Vault][coin] = SumFunctionOnSet(Held(coin), HoldIds)
<1>1. \A coin \in Coins : DOMAIN Held(coin) = HoldIds
  BY DEF Held
<1> QED
  BY <1>1 DEF HeldIsThere, SumFunction, Held

\* One hold changes what is held by what it comes to hold or ceases to.
LEMMA OneHoldChanges ==
  ASSUME HInv, HInv', HeldIsThere, NEW h \in HoldIds,
         \A x \in HoldIds \ {h} : holds'[x] = holds[x],
         \A coin \in Coins :
           purses'[Vault][coin] = purses[Vault][coin] + (Held(coin)'[h] - Held(coin)[h])
  PROVE  HeldIsThere'
<1>1. ASSUME NEW coin \in Coins
      PROVE  purses'[Vault][coin] = SumFunctionOnSet(Held(coin)', HoldIds)
  <2> DEFINE f == Held(coin)
             g == Held(coin)'
  <2>1. \A x \in HoldIds \ {h} : g[x] = f[x]
    BY DEF Held, StillHeld
  <2>2. \A x \in HoldIds : f[x] \in Int /\ g[x] \in Int
    <3>1. \A x \in HoldIds : f[x] \in Nat
      BY HeldTyped DEF HInv
    <3>2. \A x \in HoldIds : g[x] \in Nat
      <4>1. \A x \in HoldIds : StillHeld(x)' => holds'[x] \in Hold
        BY DEF StillHeld, HInv, HoldTypeOK, NoHold
      <4> QED
        BY <4>1 DEF Held, Hold
    <3> QED
      BY <3>1, <3>2
  <2>3. IsFiniteSet(HoldIds)
    BY HeldTyped DEF HInv
  <2>4. purses'[Vault][coin] = SumFunctionOnSet(f, HoldIds) + (g[h] - f[h])
    BY HeldIsThereIs
  <2> HIDE DEF f, g
  <2>5. SumFunctionOnSet(g, HoldIds) = SumFunctionOnSet(f, HoldIds) + (g[h] - f[h])
    BY <2>1, <2>2, <2>3, SumUpdated
  <2> QED
    BY <2>4, <2>5 DEF g
<1>2. HeldIsThere' <=> \A coin \in Coins :
                         purses'[Vault][coin] = SumFunctionOnSet(Held(coin)', HoldIds)
  <2>1. \A coin \in Coins : DOMAIN Held(coin)' = HoldIds
    BY DEF Held
  <2> QED
    BY <2>1 DEF HeldIsThere, SumFunction, Held
<1> QED
  BY <1>1, <1>2

\* The two sides of a transfer in and out of the vault.
LEMMA VaultMoves ==
  ASSUME HoldTypeOK, NEW who \in Traders, NEW token \in Coins, NEW n \in Nat
  PROVE  /\ Transfer(who, Vault, token, n) =>
              \A coin \in Coins : purses'[Vault][coin] =
                purses[Vault][coin] + (IF coin = token THEN n ELSE 0)
         /\ Transfer(Vault, who, token, n) =>
              \A coin \in Coins : purses'[Vault][coin] =
                purses[Vault][coin] - (IF coin = token THEN n ELSE 0)
<1>1. who # Vault /\ who \in Owners /\ Vault \in Owners
  BY HoldAssumption DEF Owners
<1>2. purses \in [Owners -> [Coins -> Nat]]
  BY DEF HoldTypeOK
<1>3. ASSUME Transfer(who, Vault, token, n), NEW coin \in Coins
      PROVE  purses'[Vault][coin] = purses[Vault][coin] + (IF coin = token THEN n ELSE 0)
  <2>1. purses' = [purses EXCEPT ![who] = [purses[who] EXCEPT ![token] = @ - n],
                                 ![Vault] = [purses[Vault] EXCEPT ![token] = @ + n]]
    BY <1>1, <1>3 DEF Transfer
  <2>2. purses'[Vault] = [purses[Vault] EXCEPT ![token] = @ + n]
    BY <1>1, <1>2, <2>1
  <2>3. purses[Vault] \in [Coins -> Nat]
    BY <1>1, <1>2
  <2> QED
    BY <2>2, <2>3
<1>4. ASSUME Transfer(Vault, who, token, n), NEW coin \in Coins
      PROVE  purses'[Vault][coin] = purses[Vault][coin] - (IF coin = token THEN n ELSE 0)
  <2>1. purses' = [purses EXCEPT ![Vault] = [purses[Vault] EXCEPT ![token] = @ - n],
                                 ![who] = [purses[who] EXCEPT ![token] = @ + n]]
    BY <1>1, <1>4 DEF Transfer
  <2>2. purses'[Vault] = [purses[Vault] EXCEPT ![token] = @ - n]
    BY <1>1, <1>2, <2>1
  <2>3. purses[Vault] \in [Coins -> Nat]
    BY <1>1, <1>2
  <2> QED
    BY <2>2, <2>3
<1> QED
  BY <1>3, <1>4

LEMMA HeldInitially == HoldInit => HeldIsThere
<1> SUFFICES ASSUME HoldInit PROVE HeldIsThere
  OBVIOUS
<1>1. IsFiniteSet(HoldIds)
  BY HoldInitially, HeldTyped DEF HInv
<1>2. ASSUME NEW coin \in Coins
      PROVE  purses[Vault][coin] = SumFunctionOnSet(Held(coin), HoldIds)
  <2>1. \A h \in HoldIds : Held(coin)[h] = 0
    BY DEF Held, StillHeld, HoldInit, NoHold
  <2>2. SumFunctionOnSet(Held(coin), HoldIds) = 0
    BY <1>1, <2>1, SumOfZeros
  <2>3. purses[Vault][coin] = 0
    BY DEF HoldInit, Owners, Empty
  <2> QED
    BY <2>2, <2>3
<1> QED
  BY <1>2, HeldIsThereIs

LEMMA HeldByOpening ==
  ASSUME HInv, HInv', HeldIsThere, NEW a \in Traders, NEW buyer \in Traders, NEW seller \in Traders,
         NEW token \in Coins, NEW n \in Prices, NEW order \in Orders, NEW d \in Deadlines,
         OpenHold(a, buyer, seller, token, n, order, d)
  PROVE  HeldIsThere'
<1>1. nextHold \in HoldIds /\ n \in Nat
  BY HoldAssumption DEF OpenHold, HoldIds, HInv, HoldTypeOK
<1>2. holds[nextHold] = NoHold
  BY <1>1 DEF HInv, Numbered, HoldIds
<1>3. /\ holds'[nextHold].status = "Open" /\ holds'[nextHold].token = token
      /\ holds'[nextHold].amount = n
      /\ \A h \in HoldIds \ {nextHold} : holds'[h] = holds[h]
  BY <1>1 DEF OpenHold, HInv, Numbered
<1>4. \A coin \in Coins : /\ Held(coin)'[nextHold] = IF coin = token THEN n ELSE 0
                          /\ Held(coin)[nextHold] = 0
  BY <1>1, <1>2, <1>3 DEF Held, StillHeld, NoHold
<1>5. \A coin \in Coins : purses'[Vault][coin] =
         purses[Vault][coin] + (IF coin = token THEN n ELSE 0)
  BY <1>1, VaultMoves DEF OpenHold, HInv
<1>6. \A coin \in Coins : purses'[Vault][coin] =
         purses[Vault][coin] + (Held(coin)'[nextHold] - Held(coin)[nextHold])
  BY <1>1, <1>4, <1>5
<1> QED
  BY <1>1, <1>3, <1>6, OneHoldChanges

LEMMA HeldByClosing ==
  ASSUME HInv, HInv', HeldIsThere, NEW h \in HoldIds, StillHeld(h),
         NEW to \in Traders, NEW s \in {"Released", "Refunded"},
         holds' = [holds EXCEPT ![h].status = s],
         Transfer(Vault, to, holds[h].token, holds[h].amount),
         UNCHANGED nextHold
  PROVE  HeldIsThere'
<1>1. /\ holds[h] # NoHold /\ holds'[h].status = s
      /\ \A x \in HoldIds \ {h} : holds'[x] = holds[x]
  BY MovesOn
<1>2. holds[h].token \in Coins /\ holds[h].amount \in Nat
  BY <1>1, HoldFields
<1>3. \A coin \in Coins : /\ Held(coin)'[h] = 0
                          /\ Held(coin)[h] = IF coin = holds[h].token THEN holds[h].amount ELSE 0
  BY <1>1 DEF Held, StillHeld
<1>4. \A coin \in Coins : purses'[Vault][coin] =
         purses[Vault][coin] - (IF coin = holds[h].token THEN holds[h].amount ELSE 0)
  BY <1>2, VaultMoves DEF HInv
<1>5. \A coin \in Coins : purses[Vault][coin] \in Nat
  BY DEF HInv, HoldTypeOK, Owners
<1>6. \A coin \in Coins : purses'[Vault][coin] =
         purses[Vault][coin] + (Held(coin)'[h] - Held(coin)[h])
  BY <1>2, <1>3, <1>4, <1>5
<1> QED
  BY <1>1, <1>6, OneHoldChanges

LEMMA HeldStep == HInv /\ HeldIsThere /\ [HoldNext]_holdVars => HeldIsThere'
<1> SUFFICES ASSUME HInv, HeldIsThere, [HoldNext]_holdVars PROVE HeldIsThere'
  OBVIOUS
<1>0. HInv'
  BY HoldInductive
<1>1. ASSUME NEW a \in Traders, NEW buyer \in Traders, NEW seller \in Traders,
             NEW token \in Coins, NEW n \in Prices, NEW order \in Orders, NEW d \in Deadlines,
             OpenHold(a, buyer, seller, token, n, order, d)
      PROVE  HeldIsThere'
  BY <1>0, <1>1, HeldByOpening
<1>2. ASSUME NEW h \in HoldIds, NEW c \in Statements, Release(h, c) PROVE HeldIsThere'
  <2>1. StillHeld(h) /\ holds[h] # NoHold
    BY <1>2 DEF Release, StillHeld, NoHold
  <2>2. holds[h].seller \in Traders
    BY <2>1, HoldFields
  <2> QED
    BY <1>0, <1>2, <2>1, <2>2, HeldByClosing DEF Release
<1>3. ASSUME NEW h \in HoldIds, NEW a \in Traders, RefundHold(a, h) PROVE HeldIsThere'
  <2>1. StillHeld(h) /\ holds[h] # NoHold
    BY <1>3 DEF RefundHold, StillHeld, NoHold
  <2>2. holds[h].buyer \in Traders
    BY <2>1, HoldFields
  <2> QED
    BY <1>0, <1>3, <2>1, <2>2, HeldByClosing DEF RefundHold
<1>4. CASE \/ \E a \in Traders \union {HoldAdmin} : ChangeIssuers(a)
           \/ \E c \in Statements : SignStatement(c)
           \/ ClockTicks
           \/ UNCHANGED holdVars
  <2>1. UNCHANGED <<holds, purses>>
    BY <1>4 DEF ChangeIssuers, SignStatement, ClockTicks, holdVars
  <2> QED
    BY <2>1 DEF HeldIsThere, StillHeld
<1> QED
  BY <1>1, <1>2, <1>3, <1>4 DEF HoldNext

\* The vault has of every coin what its open holds add up to, so that each can
\* be released or refunded whatever became of the others (lib.rs, open, release
\* and refund).
THEOREM HeldIsAlwaysThere == HoldSpec => []HeldIsThere
<1> QED
  BY HoldInvariant, HeldInitially, HeldStep, PTL DEF HoldSpec

------------------------------------------------------------------------------
\* The refinement.

LEMMA PromisedInitially == HoldInit => Promise!PromiseInit
<1> SUFFICES ASSUME HoldInit PROVE Promise!PromiseInit
  OBVIOUS
<1>1. [t \in Traders |-> purses[t]] = FirstPurses
  BY HoldAssumption DEF HoldInit, Owners
<1> QED
  BY <1>1 DEF HoldInit, AttestInit, Promise!PromiseInit, NoHold, NoClaim,
     Promise!NoDeal, Promise!NoVoucher

\* What a transfer between a trader and the vault is to the trader's wallet.
LEMMA PaidIn ==
  ASSUME HInv, NEW t \in Traders, NEW coin \in Coins, NEW n \in Nat,
         Transfer(t, Vault, coin, n)
  PROVE  /\ [x \in Traders |-> purses'[x]] =
              Promise!Change([x \in Traders |-> purses[x]], t, coin, -n)
         /\ purses[t][coin] >= n
<1> DEFINE mine == [purses[t] EXCEPT ![coin] = purses[t][coin] - n]
           vaults == [purses[Vault] EXCEPT ![coin] = purses[Vault][coin] + n]
           w == [x \in Traders |-> purses[x]]
<1>1. purses \in [Owners -> [Coins -> Nat]] /\ t # Vault /\ Traders \subseteq Owners
  BY HoldAssumption DEF HInv, HoldTypeOK, Owners
<1>2. purses[t][coin] \in Nat /\ purses[t][coin] - n = purses[t][coin] + (-n)
  BY <1>1
<1>3. purses' = [purses EXCEPT ![t] = mine, ![Vault] = vaults] /\ purses[t][coin] >= n
  BY DEF Transfer
<1> HIDE DEF mine, vaults
<1>4. \A x \in Traders : purses'[x] = IF x = t THEN mine ELSE purses[x]
  BY <1>1, <1>3, HoldAssumption
<1>5. [x \in Traders |-> purses'[x]] = [w EXCEPT ![t] = mine]
  BY <1>4
<1>6. mine = [w[t] EXCEPT ![coin] = w[t][coin] + (-n)]
  BY <1>2 DEF mine
<1>7. Promise!Change(w, t, coin, -n) = [w EXCEPT ![t] = [w[t] EXCEPT ![coin] = w[t][coin] + (-n)]]
  BY DEF Promise!Change
<1> QED
  BY <1>3, <1>5, <1>6, <1>7

LEMMA PaidOut ==
  ASSUME HInv, NEW t \in Traders, NEW coin \in Coins, NEW n \in Nat,
         Transfer(Vault, t, coin, n)
  PROVE  [x \in Traders |-> purses'[x]] =
           Promise!Change([x \in Traders |-> purses[x]], t, coin, n)
<1> DEFINE mine == [purses[t] EXCEPT ![coin] = purses[t][coin] + n]
           vaults == [purses[Vault] EXCEPT ![coin] = purses[Vault][coin] - n]
           w == [x \in Traders |-> purses[x]]
<1>1. purses \in [Owners -> [Coins -> Nat]] /\ t # Vault /\ Traders \subseteq Owners
  BY HoldAssumption DEF HInv, HoldTypeOK, Owners
<1>2. purses' = [purses EXCEPT ![Vault] = vaults, ![t] = mine]
  <2>1. purses' = [purses EXCEPT ![Vault] = vaults,
                                 ![t] = [purses[t] EXCEPT ![coin] = purses[t][coin] + n]]
    BY <1>1 DEF Transfer
  <2> QED
    BY <2>1
<1> HIDE DEF mine, vaults
<1>3. \A x \in Traders : purses'[x] = IF x = t THEN mine ELSE purses[x]
  BY <1>1, <1>2, HoldAssumption
<1>4. [x \in Traders |-> purses'[x]] = [w EXCEPT ![t] = mine]
  BY <1>3
<1>5. mine = [w[t] EXCEPT ![coin] = w[t][coin] + n]
  BY DEF mine
<1>6. Promise!Change(w, t, coin, n) = [w EXCEPT ![t] = [w[t] EXCEPT ![coin] = w[t][coin] + n]]
  BY DEF Promise!Change
<1> QED
  BY <1>4, <1>5, <1>6

LEMMA OpenIsStrike ==
  ASSUME HInv, NEW a \in Traders, NEW buyer \in Traders, NEW seller \in Traders,
         NEW token \in Coins, NEW n \in Prices, NEW order \in Orders, NEW d \in Deadlines,
         OpenHold(a, buyer, seller, token, n, order, d)
  PROVE  Promise!PromiseNext
<1>0. PICK h \in HoldIds : h = nextHold
  BY HoldAssumption DEF OpenHold, HoldIds, HInv, HoldTypeOK
<1> DEFINE w == [t \in Traders |-> purses[t]]
           new == [buyer |-> buyer, seller |-> seller, token |-> token, amount |-> n,
                   order |-> order, refund_after |-> d, status |-> "Open"]
<1>1. holds[h] = NoHold
  <2>1. h \in Nat /\ nextHold \in Nat
    BY <1>0 DEF HoldIds, HInv, HoldTypeOK
  <2> QED
    BY <1>0, <2>1 DEF HInv, Numbered
<1>2. n \in Nat /\ n > 0 /\ buyer # seller
  BY HoldAssumption DEF OpenHold
<1>3. holds' = [holds EXCEPT ![h] = new]
  BY <1>0 DEF OpenHold
<1>4. holds'[h] = new /\ \A x \in HoldIds \ {h} : holds'[x] = holds[x]
  BY <1>1, <1>3 DEF HInv, Numbered
<1>5. [t \in Traders |-> purses'[t]] = Promise!Change(w, buyer, token, -n)
      /\ purses[buyer][token] >= n
  BY <1>2, PaidIn DEF OpenHold
<1>6. UNCHANGED <<trusted, signed, spent, clock>>
  BY DEF OpenHold, attestVars
<1>7. Promise!Strike(h)
  BY <1>1, <1>2, <1>4, <1>5, <1>6 DEF Promise!Strike, Promise!NoDeal, NoHold
<1> QED
  BY <1>7 DEF Promise!PromiseNext

LEMMA ReleaseIsRedeem ==
  ASSUME HInv, NEW h \in HoldIds, NEW c \in Statements, Release(h, c)
  PROVE  Promise!PromiseNext
<1>1. StillHeld(h) /\ VerifyClaim(c) /\ holds[h] # NoHold
  BY DEF Release, StillHeld, NoHold
<1>2. c \in signed /\ Preimage(c) = c /\ \A x \in HoldIds : spent[x] # c
  BY <1>1, Verified, ValidPreimage, Unspent
<1>3. holds[h].seller \in Traders /\ holds[h].token \in Coins /\ holds[h].amount \in Nat
  BY <1>1, HoldFields
<1>4. [t \in Traders |-> purses'[t]] =
        Promise!Change([t \in Traders |-> purses[t]], holds[h].seller, holds[h].token, holds[h].amount)
  BY <1>3, PaidOut DEF Release
<1>5. Promise!Redeem(h, c)
  BY <1>1, <1>2, <1>4 DEF Release, StillHeld, VerifyClaim, Promise!Redeem
<1>6. c \in {Preimage(s) : s \in Statements}
  BY <1>2
<1> QED
  BY <1>5, <1>6 DEF Promise!PromiseNext

LEMMA RefundIsTakeBack ==
  ASSUME HInv, NEW h \in HoldIds, NEW a \in Traders, RefundHold(a, h)
  PROVE  Promise!PromiseNext
<1>1. holds[h] # NoHold
  BY DEF RefundHold, StillHeld, NoHold
<1>2. holds[h].buyer \in Traders /\ holds[h].token \in Coins /\ holds[h].amount \in Nat
  BY <1>1, HoldFields
<1>3. [t \in Traders |-> purses'[t]] =
        Promise!Change([t \in Traders |-> purses[t]], holds[h].buyer, holds[h].token, holds[h].amount)
  BY <1>2, PaidOut DEF RefundHold
<1>4. Promise!TakeBack(h)
  BY <1>3 DEF RefundHold, StillHeld, attestVars, Promise!TakeBack
<1> QED
  BY <1>4 DEF Promise!PromiseNext

LEMMA OthersPromised ==
  ASSUME HInv,
         \/ \E a \in Traders \union {HoldAdmin} : ChangeIssuers(a)
         \/ \E c \in Statements : SignStatement(c)
         \/ ClockTicks
         \/ UNCHANGED holdVars
  PROVE  Promise!PromiseNext \/ UNCHANGED Promise!promiseVars
<1>1. CASE \E a \in Traders \union {HoldAdmin} : ChangeIssuers(a)
  BY <1>1 DEF ChangeIssuers, Promise!PromiseNext, Promise!Recognize
<1>2. CASE \E c \in Statements : SignStatement(c)
  BY <1>2 DEF SignStatement, Promise!PromiseNext, Promise!Issue
<1>3. CASE ClockTicks
  <2>1. clock' > clock
    BY <1>3 DEF ClockTicks, HInv, HoldTypeOK
  <2> QED
    BY <1>3, <2>1 DEF ClockTicks, Promise!PromiseNext, Promise!Pass
<1>4. CASE UNCHANGED holdVars
  BY <1>4 DEF holdVars, attestVars, Promise!promiseVars
<1> QED
  BY <1>1, <1>2, <1>3, <1>4

LEMMA StepsPromised ==
  HInv /\ [HoldNext]_holdVars => [Promise!PromiseNext]_Promise!promiseVars
<1> SUFFICES ASSUME HInv, [HoldNext]_holdVars
             PROVE  Promise!PromiseNext \/ UNCHANGED Promise!promiseVars
  OBVIOUS
<1>1. ASSUME NEW a \in Traders, NEW buyer \in Traders, NEW seller \in Traders,
             NEW token \in Coins, NEW n \in Prices, NEW order \in Orders, NEW d \in Deadlines,
             OpenHold(a, buyer, seller, token, n, order, d)
      PROVE  Promise!PromiseNext
  BY <1>1, OpenIsStrike
<1>2. ASSUME NEW h \in HoldIds, NEW c \in Statements, Release(h, c) PROVE Promise!PromiseNext
  BY <1>2, ReleaseIsRedeem
<1>3. ASSUME NEW h \in HoldIds, NEW a \in Traders, RefundHold(a, h) PROVE Promise!PromiseNext
  BY <1>3, RefundIsTakeBack
<1>4. CASE \/ \E a \in Traders \union {HoldAdmin} : ChangeIssuers(a)
           \/ \E c \in Statements : SignStatement(c)
           \/ ClockTicks
           \/ UNCHANGED holdVars
  BY <1>4, OthersPromised
<1> QED
  BY <1>1, <1>2, <1>3, <1>4 DEF HoldNext

\* The contract implements what it promises the buyer and the seller: one
\* voucher, one release; no refund before the deadline; never both (lib.rs,
\* release and refund).
THEOREM HoldImplementsPromise == HoldSpec => ImplementsPromise
<1> QED
  BY HoldInvariant, PromisedInitially, StepsPromised, PTL
  DEF HoldSpec, ImplementsPromise, Promise!PromiseSpec
==============================================================================
