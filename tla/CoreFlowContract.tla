-------------------------- MODULE CoreFlowContract --------------------------
(***************************************************************************)
(* The Soroban contract contracts/core-flow/src/lib.rs: payroll escrows    *)
(* under dual control, settled only against oracle attestations.           *)
(*                                                                         *)
(* One action is one successful invocation.  An invocation that returns an *)
(* Err or traps is reverted whole by the host and changes nothing, so its  *)
(* early returns are the guards below.  require_auth(a) means that a       *)
(* signed the transaction: the accounts that sign are the parameters.      *)
(*                                                                         *)
(* Overflow checks are on in the release profile (Cargo.toml): a counter   *)
(* that would pass its width traps, which MaxEscrows, MaxRotations and     *)
(* NonceLimit stand for.  Storage time-to-live is not modelled: an         *)
(* archived entry makes invocations fail until it is restored.             *)
(***************************************************************************)
EXTENDS TokenLedger, Sequences

CONSTANTS
  NoAccount,        \* the absence of an address (Option::None)
  PinnedAdmin,      \* the admin address built into the WASM, or NoAccount
  OracleKeys,       \* Ed25519 public keys
  Builds,           \* WASM hashes
  FirstBuild,       \* the WASM deployed
  Batches,          \* the Vec<PaymentSchedule> arguments callers pass
  NoEscrow,         \* the absence of an escrow under a key
  InitialBalances,  \* balances when the contract is deployed
  Hours,            \* the hours an oracle may attest
  MaxBatchSize,     \* MAX_BATCH_SIZE
  MaxEscrows,       \* the largest escrow id (u32::MAX)
  MaxRotations,     \* the largest rotation count (u32::MAX)
  NonceLimit        \* the largest nonce (u64::MAX)

EscrowIds == 1 .. MaxEscrows

PaymentStatus == {"Pending", "ManagerApproved", "FinanceApproved", "Finalized", "Cancelled"}

\* A row as the caller passes it.  start_date and end_date are days.
PaymentSchedule ==
  [worker : Accounts, token : Tokens, amount : Int, rate_per_hour : Int,
   start_date : Nat, end_date : Nat,
   hours_logged : Nat, proof_verified : BOOLEAN, status : PaymentStatus]

\* The contract stores a batch as it was passed, the last three fields
\* included.  The client passes none logged, FALSE and Pending (lib/contracts.ts).
ClientRow(r) == r.hours_logged = 0 /\ ~r.proof_verified /\ r.status = "Pending"

ASSUME ContractAssumption ==
  /\ NoAccount \notin Holders
  /\ FirstBuild \in Builds
  /\ Batches \subseteq Seq(PaymentSchedule)
  /\ \A b \in Batches : \A i \in DOMAIN b : ClientRow(b[i])
  /\ InitialBalances \in Balances
  /\ Hours \subseteq Nat
  /\ {MaxBatchSize, MaxEscrows, MaxRotations, NonceLimit} \subseteq Nat

\* An attestation: the key that signed and the fields of the preimage the
\* submitter chooses.  Worker, token, amount and period are the stored row's.
Attestations ==
  [key : OracleKeys, escrow : EscrowIds, payment : 1 .. MaxBatchSize,
   hours : Hours, nonce : 0 .. NonceLimit]

VARIABLES
  admin,         \* DataKey::Admin
  pendingAdmin,  \* DataKey::PendingAdmin
  paused,        \* DataKey::Paused
  wasm,          \* the code installed
  registered,    \* DataKey::OracleKey(k), for the k present
  escrowCount,   \* DataKey::EscrowCount
  escrows,       \* DataKey::Escrow(id)
  nonces,        \* DataKey::Nonce(id)
  balances,      \* the token balances, custody included
  accepted,      \* history: the attestations accepted, with the rotation then
  signers        \* history: who has signed an approval of each escrow

adminVars == <<admin, pendingAdmin, paused, wasm>>
vars == <<admin, pendingAdmin, paused, wasm, registered, escrowCount, escrows,
          nonces, balances, accepted, signers>>

\* A stored CoreFlowEscrow.  What settlement never rewrites in a row stays in
\* payments; the fields it does rewrite are functions of the row's index.
EscrowOf(b) ==
  [manager : Accounts, finance_approver : Accounts, oracle_pubkey : OracleKeys,
   payments : {b},
   hours_logged : [DOMAIN b -> Hours \union {0}],
   proof_verified : [DOMAIN b -> BOOLEAN],
   status : [DOMAIN b -> PaymentStatus],
   manager_approved : BOOLEAN, finance_approved : BOOLEAN, cancelled : BOOLEAN,
   oracle_rotations : 0 .. MaxRotations]

ASSUME NoEscrowAssumption == \A b \in Batches : NoEscrow \notin EscrowOf(b)

Exists(e) == escrows[e] # NoEscrow
Finalized(e) == \E i \in DOMAIN escrows[e].payments : escrows[e].status[i] = "Finalized"
NotPaused == ~paused
Open(e) == Exists(e) /\ ~escrows[e].cancelled /\ ~Finalized(e)
------------------------------------------------------------------------------
Init ==
  /\ admin = NoAccount
  /\ pendingAdmin = NoAccount
  /\ paused = FALSE
  /\ wasm = FirstBuild
  /\ registered = {}
  /\ escrowCount = 0
  /\ escrows = [e \in EscrowIds |-> NoEscrow]
  /\ nonces = [e \in EscrowIds |-> 0]
  /\ balances = InitialBalances
  /\ accepted = {}
  /\ signers = [e \in EscrowIds |-> {}]

------------------------------------------------------------------------------
\* Administration.  Every operation but the first is signed by the admin.

InitAdmin(a) ==
  /\ admin = NoAccount
  /\ PinnedAdmin \in {NoAccount, a}
  /\ admin' = a
  /\ UNCHANGED <<pendingAdmin, paused, wasm, registered, escrowCount, escrows,
                 nonces, balances, accepted, signers>>

ProposeAdmin(a) ==
  /\ admin # NoAccount
  /\ pendingAdmin' = a
  /\ UNCHANGED <<admin, paused, wasm, registered, escrowCount, escrows,
                 nonces, balances, accepted, signers>>

AcceptAdmin ==
  /\ pendingAdmin # NoAccount
  /\ admin' = pendingAdmin
  /\ pendingAdmin' = NoAccount
  /\ UNCHANGED <<paused, wasm, registered, escrowCount, escrows,
                 nonces, balances, accepted, signers>>

SetPaused(b) ==
  /\ admin # NoAccount
  /\ paused' = b
  /\ UNCHANGED <<admin, pendingAdmin, wasm, registered, escrowCount, escrows,
                 nonces, balances, accepted, signers>>

\* The code installed is taken to behave as this one does.
Upgrade(w) ==
  /\ admin # NoAccount
  /\ paused
  /\ wasm' = w
  /\ UNCHANGED <<admin, pendingAdmin, paused, registered, escrowCount, escrows,
                 nonces, balances, accepted, signers>>

RegisterOracleKey(k) ==
  /\ admin # NoAccount
  /\ registered' = registered \union {k}
  /\ UNCHANGED <<adminVars, escrowCount, escrows, nonces, balances, accepted, signers>>

\* Not retroactive: escrows that name k keep it.
RevokeOracleKey(k) ==
  /\ admin # NoAccount
  /\ registered' = registered \ {k}
  /\ UNCHANGED <<adminVars, escrowCount, escrows, nonces, balances, accepted, signers>>

\* require_registered_oracle: a contract without an admin accepts any key.
Registered(k) == admin = NoAccount \/ k \in registered

------------------------------------------------------------------------------
\* Escrows.

ValidRow(r) ==
  /\ r.amount > 0
  /\ r.rate_per_hour > 0
  /\ r.end_date > r.start_date
  /\ r.amount % r.rate_per_hour = 0

InitializeMultiSigEscrow(m, f, k, b) ==
  LET id == escrowCount + 1 IN
  /\ NotPaused
  /\ m # f
  /\ Len(b) \in 1 .. MaxBatchSize
  /\ Registered(k)
  /\ \A i \in DOMAIN b : ValidRow(b[i])
  /\ id \in EscrowIds
  /\ balances' = Deposit(balances, m, b)
  /\ Transferable(balances')
  /\ escrows' = [escrows EXCEPT ![id] =
       [manager |-> m, finance_approver |-> f, oracle_pubkey |-> k,
        payments |-> b,
        hours_logged |-> [i \in DOMAIN b |-> b[i].hours_logged],
        proof_verified |-> [i \in DOMAIN b |-> b[i].proof_verified],
        status |-> [i \in DOMAIN b |-> b[i].status],
        manager_approved |-> FALSE, finance_approved |-> FALSE,
        cancelled |-> FALSE, oracle_rotations |-> 0]]
  /\ nonces' = [nonces EXCEPT ![id] = 0]
  /\ escrowCount' = id
  /\ UNCHANGED <<adminVars, registered, accepted, signers>>

\* Mutant: how the escrow ended is not looked at.
SettledIgnored(e) == TRUE
Unsettled(e) == ~escrows[e].cancelled /\ ~Finalized(e)

\* Mutant: a rotation keeps the proofs.
ProofsKept(r) == r.proof_verified
\* Rotating revokes every proof verified so far.
ProofsRevoked(r) == [i \in DOMAIN r.payments |-> FALSE]

RotateOracleKey(e, k) ==
  /\ NotPaused
  /\ Exists(e)
  /\ Registered(k)
  /\ Unsettled(e)
  /\ escrows[e].oracle_rotations < MaxRotations
  /\ escrows' = [escrows EXCEPT ![e] =
       [@ EXCEPT !.oracle_pubkey = k,
                 !.oracle_rotations = escrows[e].oracle_rotations + 1,
                 !.proof_verified = ProofsRevoked(escrows[e])]]
  /\ UNCHANGED <<adminVars, registered, escrowCount, nonces, balances, accepted, signers>>

\* The signature verifies: the escrow's key signed the preimage the contract
\* rebuilds from the stored row, the hours and the nonce.
Verifies(s) == s.key = escrows[s.escrow].oracle_pubkey

NoApproval(r) == ~r.manager_approved /\ ~r.finance_approved

\* Mutants: the next nonce may overflow; a nonce may skip ahead.
TrackNonceUnchecked(s) ==
  /\ s.nonce = nonces[s.escrow]
  /\ nonces' = [nonces EXCEPT ![s.escrow] = s.nonce + 1]
TrackNonceAtLeast(s) ==
  /\ s.nonce >= nonces[s.escrow]
  /\ s.nonce + 1 <= NonceLimit
  /\ nonces' = [nonces EXCEPT ![s.escrow] = s.nonce + 1]
\* The next nonce exactly, and there must be one after it.
TrackNonce(s) ==
  /\ s.nonce = nonces[s.escrow]
  /\ s.nonce + 1 <= NonceLimit
  /\ nonces' = [nonces EXCEPT ![s.escrow] = s.nonce + 1]

SubmitHoursProof(s) ==
  LET e == s.escrow
      i == s.payment
  IN
  /\ NotPaused
  /\ Exists(e)
  /\ ~escrows[e].cancelled
  /\ NoApproval(escrows[e])
  /\ i \in DOMAIN escrows[e].payments
  /\ s.hours * escrows[e].payments[i].rate_per_hour = escrows[e].payments[i].amount
  /\ Verifies(s)
  /\ TrackNonce(s)
  /\ escrows' = [escrows EXCEPT ![e] =
       [@ EXCEPT !.hours_logged[i] = s.hours, !.proof_verified[i] = TRUE]]
  /\ accepted' = accepted \union {[att |-> s, rotation |-> escrows[e].oracle_rotations]}
  /\ UNCHANGED <<adminVars, registered, escrowCount, balances, signers>>

\* The two approvals, in either order, proofs or no proofs.
ManagerApprove(e, a) ==
  /\ NotPaused
  /\ Exists(e)
  /\ ~escrows[e].cancelled
  /\ a = escrows[e].manager
  /\ ~escrows[e].manager_approved
  /\ escrows' = [escrows EXCEPT ![e].manager_approved = TRUE]
  /\ signers' = [signers EXCEPT ![e] = @ \union {a}]
  /\ UNCHANGED <<adminVars, registered, escrowCount, nonces, balances, accepted>>

FinanceApprove(e, a) ==
  /\ NotPaused
  /\ Exists(e)
  /\ ~escrows[e].cancelled
  /\ a = escrows[e].finance_approver
  /\ ~escrows[e].finance_approved
  /\ escrows' = [escrows EXCEPT ![e].finance_approved = TRUE]
  /\ signers' = [signers EXCEPT ![e] = @ \union {a}]
  /\ UNCHANGED <<adminVars, registered, escrowCount, nonces, balances, accepted>>

\* Mutant: one approval is enough.
EitherApproved(r) == r.manager_approved \/ r.finance_approved
Approved(r) == r.manager_approved /\ r.finance_approved

\* Mutant: no protection against settling twice.
ProvenRows(r) == \A i \in DOMAIN r.payments : r.proof_verified[i]
PayableRows(r) ==
  \A i \in DOMAIN r.payments : r.status[i] # "Finalized" /\ r.proof_verified[i]

\* pay_batch, and finalize_payment which calls it.  All rows or none.
PayBatch(e) ==
  LET r == escrows[e] IN
  /\ NotPaused
  /\ Exists(e)
  /\ ~r.cancelled
  /\ r.manager # r.finance_approver
  /\ Approved(r)
  /\ PayableRows(r)
  /\ balances' = PayOut(balances, r.payments)
  /\ Transferable(balances')
  /\ escrows' = [escrows EXCEPT ![e].status = [i \in DOMAIN r.payments |-> "Finalized"]]
  /\ UNCHANGED <<adminVars, registered, escrowCount, nonces, accepted, signers>>

\* All that cancel_escrow asks: it neither looks at the pause nor needs an admin.
Refundable(e) ==
  /\ Exists(e)
  /\ Unsettled(e)
  /\ Transferable(GiveBack(balances, escrows[e].manager, escrows[e].payments))

\* Open while paused: the emergency withdrawal.
CancelEscrow(e) ==
  LET r == escrows[e] IN
  /\ Refundable(e)
  /\ balances' = GiveBack(balances, r.manager, r.payments)
  /\ escrows' = [escrows EXCEPT ![e] =
       [@ EXCEPT !.cancelled = TRUE,
                 !.status = [i \in DOMAIN r.payments |-> "Cancelled"]]]
  /\ UNCHANGED <<adminVars, registered, escrowCount, nonces, accepted, signers>>

------------------------------------------------------------------------------
AdminNext ==
  \/ \E a \in Accounts : InitAdmin(a) \/ ProposeAdmin(a)
  \/ AcceptAdmin
  \/ \E b \in BOOLEAN : SetPaused(b)
  \/ \E w \in Builds : Upgrade(w)
  \/ \E k \in OracleKeys : RegisterOracleKey(k) \/ RevokeOracleKey(k)

EscrowNext ==
  \/ \E m, f \in Accounts, k \in OracleKeys, b \in Batches :
       InitializeMultiSigEscrow(m, f, k, b)
  \/ \E s \in Attestations : SubmitHoursProof(s)
  \/ \E e \in EscrowIds :
       \/ \E k \in OracleKeys : RotateOracleKey(e, k)
       \/ \E a \in Accounts : ManagerApprove(e, a) \/ FinanceApprove(e, a)
       \/ PayBatch(e)
       \/ CancelEscrow(e)

Next == AdminNext \/ EscrowNext

Spec == Init /\ [][Next]_vars

------------------------------------------------------------------------------
\* Properties.

TypeOK ==
  /\ admin \in Accounts \union {NoAccount}
  /\ pendingAdmin \in Accounts \union {NoAccount}
  /\ paused \in BOOLEAN
  /\ wasm \in Builds
  /\ registered \subseteq OracleKeys
  /\ escrowCount \in 0 .. MaxEscrows
  /\ escrows = [e \in EscrowIds |-> escrows[e]]
  /\ \A e \in EscrowIds : Exists(e) => \E b \in Batches : escrows[e] \in EscrowOf(b)
  /\ \A e \in EscrowIds : Exists(e) <=> e <= escrowCount
  /\ nonces \in [EscrowIds -> 0 .. NonceLimit]
  /\ balances \in Balances
  /\ accepted \subseteq [att : Attestations, rotation : 0 .. MaxRotations]
  /\ signers \in [EscrowIds -> SUBSET Accounts]

\* Custody holds exactly what the open escrows deposited, and every account
\* holds what it began with, less what its escrows took and were not refunded,
\* plus what settled rows owed it: nothing is paid twice, refunded after it was
\* paid, paid after it was refunded, or taken from another escrow's deposit.
BalancesExplained ==
  LET Held(t) == [e \in EscrowIds |-> IF Open(e) THEN Total(escrows[e].payments, t) ELSE 0]
      Spent(a, t) == [e \in EscrowIds |->
        IF Exists(e) /\ escrows[e].manager = a /\ ~escrows[e].cancelled
        THEN Total(escrows[e].payments, t) ELSE 0]
      Earned(a, t) == [e \in EscrowIds |->
        IF Exists(e) /\ Finalized(e) THEN Owed(escrows[e].payments, a, t) ELSE 0]
  IN \A t \in Tokens :
       /\ balances[Contract][t] = InitialBalances[Contract][t] + SumFunction(Held(t))
       /\ \A a \in Accounts :
            balances[a][t] = InitialBalances[a][t] - SumFunction(Spent(a, t))
                                                  + SumFunction(Earned(a, t))

\* A row counts as proven only on an attestation the escrow's present key
\* signed for that row, accepted since the last rotation, whose hours times the
\* rate are the amount: a rotation, even back to an old key, leaves no proof
\* standing (rotate_oracle_key, submit_hours_proof).
ProofsAreCurrent ==
  \A e \in EscrowIds : Exists(e) =>
    \A i \in DOMAIN escrows[e].payments : escrows[e].proof_verified[i] =>
      \E x \in accepted :
        /\ x.att.escrow = e /\ x.att.payment = i
        /\ x.att.key = escrows[e].oracle_pubkey
        /\ x.rotation = escrows[e].oracle_rotations
        /\ x.att.hours = escrows[e].hours_logged[i]
        /\ x.att.hours * escrows[e].payments[i].rate_per_hour
             = escrows[e].payments[i].amount

\* An attestation is accepted at most once, and an escrow's nonce counts its
\* acceptances: no replay, no gap (track_nonce), across rotations too.
AcceptedOnce ==
  \A e \in EscrowIds :
    LET mine == {x \in accepted : x.att.escrow = e} IN
    /\ {x.att.nonce : x \in mine} = 0 .. nonces[e] - 1
    /\ \A x, y \in mine : x.att.nonce = y.att.nonce => x = y

\* Whatever was settled was settled whole, with every row proven, with the
\* signatures of two different accounts, and was not also refunded (pay_batch).
SettledUnderDualControl ==
  \A e \in EscrowIds : Exists(e) /\ Finalized(e) =>
    /\ \A i \in DOMAIN escrows[e].payments :
         escrows[e].status[i] = "Finalized" /\ escrows[e].proof_verified[i]
    /\ ~escrows[e].cancelled
    /\ \E a, b \in signers[e] : a # b

\* A settled or cancelled escrow never changes again, by any operation:
\* approvals and proofs are not re-checked against settlement by the entry
\* points that take them, so this rests on what settling required.
ClosedForGood ==
  [][\A e \in EscrowIds : Exists(e) /\ ~Open(e) => escrows'[e] = escrows[e]]_vars

\* While the contract is paused the only thing that can happen to an escrow is
\* a refund, and no escrow appears (require_not_paused; cancel_escrow).
PausedMeansRefundOnly ==
  [][\A e \in EscrowIds :
       paused /\ escrows'[e] # escrows[e] => Exists(e) /\ escrows'[e].cancelled]_vars

\* Whatever else happened, paused or not, the manager of an open escrow can
\* have it refunded: custody always covers it, the manager's balance can take
\* it and no state refuses it.
RefundAlwaysAvailable ==
  \A e \in EscrowIds : Open(e) => Refundable(e)

\* Once there is an admin, an escrow comes to name a key, at creation or by
\* rotation, only if that key is registered then (require_registered_oracle).
RegistryGovernsNewKeys ==
  [][\A e \in EscrowIds :
       /\ admin # NoAccount
       /\ escrows'[e] # escrows[e]
       /\ Exists(e) => escrows'[e].oracle_rotations # escrows[e].oracle_rotations
       => escrows'[e].oracle_pubkey \in registered]_vars

\* The custody an escrow stands for: the refinement mapping.
CustodyOf == [e \in EscrowIds |->
  IF ~Exists(e) THEN [state |-> "unfunded"]
  ELSE [state |-> IF escrows[e].cancelled THEN "refunded"
                  ELSE IF Finalized(e) THEN "settled" ELSE "held",
        payer |-> escrows[e].manager, rows |-> escrows[e].payments]]

Custody == INSTANCE EscrowCustody WITH custody <- CustodyOf

\* The contract moves money only as EscrowCustody allows.
ImplementsCustody == Custody!CustodySpec
==============================================================================
