----------------------- MODULE CoreFlowContractProofs ------------------------
(***************************************************************************)
(* Theorems about the escrow contract, for any accounts, keys, batches,    *)
(* balances and limits.                                                    *)
(***************************************************************************)
EXTENDS CoreFlowContract, TLAPS, NaturalLemmas

\* The limits are natural numbers.
LEMMA Limits ==
  MaxBatchSize \in Nat /\ MaxEscrows \in Nat /\ MaxRotations \in Nat /\ NonceLimit \in Nat
  BY ContractAssumption

\* The fields of a stored escrow, whatever batch it was made from.
LEMMA EscrowFields ==
  ASSUME NEW b \in Batches, NEW r \in EscrowOf(b)
  PROVE  /\ r.payments = b
         /\ r.manager \in Accounts /\ r.finance_approver \in Accounts
         /\ r.oracle_pubkey \in OracleKeys
         /\ r.hours_logged \in [DOMAIN b -> Hours \union {0}]
         /\ r.proof_verified \in [DOMAIN b -> BOOLEAN]
         /\ r.status \in [DOMAIN b -> PaymentStatus]
         /\ r.manager_approved \in BOOLEAN /\ r.finance_approved \in BOOLEAN
         /\ r.cancelled \in BOOLEAN
         /\ r.oracle_rotations \in 0 .. MaxRotations
  BY DEF EscrowOf

\* Writing one escrow that exists keeps the escrow part of the type invariant.
LEMMA EscrowWritten ==
  ASSUME TypeOK,
         NEW e \in EscrowIds, Exists(e),
         NEW r, NEW b \in Batches, r \in EscrowOf(b),
         escrows' = [escrows EXCEPT ![e] = r],
         UNCHANGED escrowCount
  PROVE  /\ escrows' = [x \in EscrowIds |-> escrows'[x]]
         /\ \A x \in EscrowIds : Exists(x)' => \E c \in Batches : escrows'[x] \in EscrowOf(c)
         /\ \A x \in EscrowIds : Exists(x)' <=> x <= escrowCount'
  BY NoEscrowAssumption DEF TypeOK, Exists

\* The batch an existing escrow was made from.
LEMMA StoredBatch ==
  ASSUME TypeOK, NEW e \in EscrowIds, Exists(e)
  PROVE  /\ escrows[e].payments \in Batches
         /\ escrows[e] \in EscrowOf(escrows[e].payments)
  BY EscrowFields DEF TypeOK

\* TypeOK without its conjuncts about stored escrows.
RestOK ==
  /\ admin \in Accounts \union {NoAccount}
  /\ pendingAdmin \in Accounts \union {NoAccount}
  /\ paused \in BOOLEAN
  /\ wasm \in Builds
  /\ registered \subseteq OracleKeys
  /\ escrowCount \in 0 .. MaxEscrows
  /\ nonces \in [EscrowIds -> 0 .. NonceLimit]
  /\ balances \in Balances
  /\ accepted \subseteq [att : Attestations, rotation : 0 .. MaxRotations]
  /\ signers \in [EscrowIds -> SUBSET Accounts]

LEMMA TypeInit == Init => TypeOK
<1> SUFFICES ASSUME Init PROVE TypeOK
  OBVIOUS
<1>1. RestOK
  <2>1. escrowCount \in 0 .. MaxEscrows /\ nonces \in [EscrowIds -> 0 .. NonceLimit]
    BY Limits DEF Init
  <2>2. signers \in [EscrowIds -> SUBSET Accounts]
    BY DEF Init
  <2>3. balances \in Balances /\ wasm \in Builds
    BY ContractAssumption DEF Init
  <2> QED
    BY <2>1, <2>2, <2>3 DEF Init, RestOK
<1>2. \A e \in EscrowIds : ~Exists(e) /\ ~(e <= escrowCount)
  BY Limits DEF Init, Exists, EscrowIds
<1> QED
  BY <1>1, <1>2 DEF RestOK, TypeOK, Init

LEMMA TypeAdmin == TypeOK /\ AdminNext => TypeOK'
<1> SUFFICES ASSUME TypeOK, AdminNext PROVE TypeOK'
  OBVIOUS
<1>1. UNCHANGED <<escrowCount, escrows>>
  BY DEF AdminNext, InitAdmin, ProposeAdmin, AcceptAdmin, SetPaused, Upgrade,
         RegisterOracleKey, RevokeOracleKey
<1>2. RestOK'
  BY DEF TypeOK, RestOK, AdminNext, InitAdmin, ProposeAdmin, AcceptAdmin, SetPaused,
         Upgrade, RegisterOracleKey, RevokeOracleKey, adminVars
<1> QED
  BY <1>1, <1>2 DEF TypeOK, RestOK, Exists

LEMMA TypeInitialize ==
  ASSUME TypeOK, NEW m \in Accounts, NEW f \in Accounts, NEW k \in OracleKeys,
         NEW b \in Batches, InitializeMultiSigEscrow(m, f, k, b)
  PROVE  TypeOK'
<1> DEFINE id == escrowCount + 1
           r == escrows'[id]
<1>1. id \in EscrowIds /\ id \in Nat /\ escrowCount \in Nat
  BY Limits DEF InitializeMultiSigEscrow, EscrowIds, TypeOK
<1>2. \A i \in DOMAIN b : b[i] \in PaymentSchedule /\ b[i].hours_logged = 0
  BY ContractAssumption DEF ClientRow
<1>3. r \in EscrowOf(b)
  <2> DEFINE hours == [i \in DOMAIN b |-> b[i].hours_logged]
             proofs == [i \in DOMAIN b |-> b[i].proof_verified]
             status == [i \in DOMAIN b |-> b[i].status]
  <2>1. r = [manager |-> m, finance_approver |-> f, oracle_pubkey |-> k, payments |-> b,
             hours_logged |-> hours, proof_verified |-> proofs, status |-> status,
             manager_approved |-> FALSE, finance_approved |-> FALSE,
             cancelled |-> FALSE, oracle_rotations |-> 0]
    BY <1>1 DEF InitializeMultiSigEscrow, TypeOK
  <2>2. /\ hours \in [DOMAIN b -> Hours \union {0}]
        /\ proofs \in [DOMAIN b -> BOOLEAN]
        /\ status \in [DOMAIN b -> PaymentStatus]
    BY <1>2 DEF PaymentSchedule
  <2>3. 0 \in 0 .. MaxRotations
    BY Limits
  <2> HIDE DEF r, hours, proofs, status
  <2> QED
    BY <2>1, <2>2, <2>3 DEF EscrowOf
<1>4. r # NoEscrow
  BY <1>3, NoEscrowAssumption
<1>5. RestOK'
  BY <1>1, Limits DEF InitializeMultiSigEscrow, TypeOK, RestOK, Transferable,
     adminVars, EscrowIds
<1>6. \A x \in EscrowIds : x # id => escrows'[x] = escrows[x]
  BY DEF InitializeMultiSigEscrow, TypeOK
<1>7. escrows' = [x \in EscrowIds |-> escrows'[x]] /\ escrowCount' = id
  BY DEF InitializeMultiSigEscrow, TypeOK
<1>8. \A x \in EscrowIds : Exists(x)' => \E c \in Batches : escrows'[x] \in EscrowOf(c)
  BY <1>3, <1>6 DEF TypeOK, Exists
<1>9. \A x \in EscrowIds : Exists(x)' <=> x <= escrowCount'
  <2> SUFFICES ASSUME NEW x \in EscrowIds PROVE Exists(x)' <=> x <= id
    BY <1>7
  <2>1. CASE x = id
    BY <2>1, <1>1, <1>4 DEF Exists
  <2>2. CASE x # id
    BY <2>2, <1>1, <1>6 DEF Exists, EscrowIds, TypeOK
  <2> QED
    BY <2>1, <2>2
<1> QED
  BY <1>5, <1>7, <1>8, <1>9 DEF TypeOK, RestOK

\* An operation that rewrites one existing escrow and keeps the rest typed.
LEMMA TypeRewrite ==
  ASSUME TypeOK, RestOK', UNCHANGED escrowCount,
         NEW e \in EscrowIds, Exists(e), NEW r,
         escrows' = [escrows EXCEPT ![e] = r],
         r \in EscrowOf(escrows[e].payments)
  PROVE  TypeOK'
  BY EscrowWritten, StoredBatch DEF TypeOK, RestOK

LEMMA TypeRotate ==
  ASSUME TypeOK, NEW e \in EscrowIds, NEW k \in OracleKeys, RotateOracleKey(e, k)
  PROVE  TypeOK'
<1> DEFINE r == [escrows[e] EXCEPT !.oracle_pubkey = k,
                   !.oracle_rotations = escrows[e].oracle_rotations + 1,
                   !.proof_verified = [i \in DOMAIN escrows[e].payments |-> FALSE]]
<1>1. Exists(e) /\ escrows' = [escrows EXCEPT ![e] = r] /\ UNCHANGED escrowCount
  BY DEF RotateOracleKey, Unsettled, ProofsRevoked
<1>2. escrows[e].oracle_rotations + 1 \in 0 .. MaxRotations
  <2>1. escrows[e].oracle_rotations \in 0 .. MaxRotations
    BY <1>1, StoredBatch, EscrowFields
  <2>2. escrows[e].oracle_rotations < MaxRotations
    BY DEF RotateOracleKey, Unsettled, ProofsRevoked
  <2> QED
    BY <2>1, <2>2, Limits
<1>3. r \in EscrowOf(escrows[e].payments)
  BY <1>1, <1>2, StoredBatch DEF EscrowOf
<1>4. RestOK'
  BY DEF RotateOracleKey, Unsettled, TypeOK, RestOK, adminVars
<1> QED
  BY <1>1, <1>3, <1>4, TypeRewrite

\* Recording a proof changes the hours and the proof of one row.
WithProof(x, i, h) == [x EXCEPT !.hours_logged[i] = h, !.proof_verified[i] = TRUE]

LEMMA ProofWritten ==
  ASSUME NEW b \in Batches, NEW x \in EscrowOf(b), NEW i \in DOMAIN b, NEW h \in Hours
  PROVE  LET y == WithProof(x, i, h) IN
         /\ y \in EscrowOf(b)
         /\ y.payments = x.payments
         /\ y.oracle_pubkey = x.oracle_pubkey
         /\ y.oracle_rotations = x.oracle_rotations
         /\ y.hours_logged = [x.hours_logged EXCEPT ![i] = h]
         /\ y.proof_verified = [x.proof_verified EXCEPT ![i] = TRUE]
<1>1. /\ x.hours_logged \in [DOMAIN b -> Hours \union {0}]
      /\ x.proof_verified \in [DOMAIN b -> BOOLEAN]
  BY DEF EscrowOf
<1>2. /\ [x.hours_logged EXCEPT ![i] = h] \in [DOMAIN b -> Hours \union {0}]
      /\ [x.proof_verified EXCEPT ![i] = TRUE] \in [DOMAIN b -> BOOLEAN]
  BY <1>1
<1> QED
  BY <1>2 DEF EscrowOf, WithProof

LEMMA TypeSubmit ==
  ASSUME TypeOK, NEW s \in Attestations, SubmitHoursProof(s)
  PROVE  TypeOK'
<1> DEFINE e == s.escrow
           i == s.payment
           r == WithProof(escrows[e], i, s.hours)
<1>1. /\ e \in EscrowIds /\ Exists(e) /\ i \in DOMAIN escrows[e].payments
      /\ escrows' = [escrows EXCEPT ![e] = r] /\ UNCHANGED escrowCount
  BY DEF SubmitHoursProof, Attestations, WithProof
<1>2. s.hours \in Hours /\ s.nonce \in 0 .. NonceLimit
  BY DEF Attestations
<1>3. r \in EscrowOf(escrows[e].payments)
  <2>1. escrows[e].payments \in Batches /\ escrows[e] \in EscrowOf(escrows[e].payments)
    BY <1>1, StoredBatch
  <2> QED
    BY <1>1, <1>2, <2>1, ProofWritten
<1>4. escrows[e].oracle_rotations \in 0 .. MaxRotations
  BY <1>1, StoredBatch, EscrowFields
<1>5. nonces' \in [EscrowIds -> 0 .. NonceLimit]
  <2>1. nonces \in [EscrowIds -> 0 .. NonceLimit] /\ e \in EscrowIds
    BY <1>1 DEF TypeOK
  <2>2. TrackNonce(s)
    BY DEF SubmitHoursProof
  <2>3. nonces' = [nonces EXCEPT ![e] = s.nonce + 1] /\ s.nonce + 1 \in 0 .. NonceLimit
    BY <1>2, <2>2, Limits DEF TrackNonce
  <2> HIDE DEF e
  <2> QED
    BY <2>1, <2>3
<1>6. RestOK'
  <2> DEFINE x == [att |-> s, rotation |-> escrows[e].oracle_rotations]
  <2>1. x \in [att : Attestations, rotation : 0 .. MaxRotations]
    BY <1>4
  <2>2. accepted' = accepted \union {x} /\ UNCHANGED <<adminVars, registered, escrowCount, balances, signers>>
    BY DEF SubmitHoursProof
  <2> HIDE DEF x
  <2>3. accepted' \subseteq [att : Attestations, rotation : 0 .. MaxRotations]
    BY <2>1, <2>2 DEF TypeOK
  <2> QED
    BY <1>5, <2>2, <2>3 DEF TypeOK, RestOK, adminVars
<1> QED
  BY <1>1, <1>3, <1>6, TypeRewrite

LEMMA TypeManagerApprove ==
  ASSUME TypeOK, NEW e \in EscrowIds, NEW a \in Accounts, ManagerApprove(e, a)
  PROVE  TypeOK'
<1> DEFINE r == [escrows[e] EXCEPT !.manager_approved = TRUE]
<1>1. Exists(e) /\ escrows' = [escrows EXCEPT ![e] = r] /\ UNCHANGED escrowCount
  BY DEF ManagerApprove
<1>2. r \in EscrowOf(escrows[e].payments)
  BY <1>1, StoredBatch DEF EscrowOf
<1>3. RestOK'
  BY DEF ManagerApprove, TypeOK, RestOK, adminVars
<1> QED
  BY <1>1, <1>2, <1>3, TypeRewrite

LEMMA TypeFinanceApprove ==
  ASSUME TypeOK, NEW e \in EscrowIds, NEW a \in Accounts, FinanceApprove(e, a)
  PROVE  TypeOK'
<1> DEFINE r == [escrows[e] EXCEPT !.finance_approved = TRUE]
<1>1. Exists(e) /\ escrows' = [escrows EXCEPT ![e] = r] /\ UNCHANGED escrowCount
  BY DEF FinanceApprove
<1>2. r \in EscrowOf(escrows[e].payments)
  BY <1>1, StoredBatch DEF EscrowOf
<1>3. RestOK'
  BY DEF FinanceApprove, TypeOK, RestOK, adminVars
<1> QED
  BY <1>1, <1>2, <1>3, TypeRewrite

LEMMA TypePay ==
  ASSUME TypeOK, NEW e \in EscrowIds, PayBatch(e)
  PROVE  TypeOK'
<1> DEFINE r == [escrows[e] EXCEPT
                   !.status = [i \in DOMAIN escrows[e].payments |-> "Finalized"]]
<1>1. Exists(e) /\ escrows' = [escrows EXCEPT ![e] = r] /\ UNCHANGED escrowCount
  BY DEF PayBatch
<1>2. r \in EscrowOf(escrows[e].payments)
  BY <1>1, StoredBatch DEF EscrowOf, PaymentStatus
<1>3. RestOK'
  BY DEF PayBatch, Transferable, TypeOK, RestOK, adminVars
<1> QED
  BY <1>1, <1>2, <1>3, TypeRewrite

LEMMA TypeCancel ==
  ASSUME TypeOK, NEW e \in EscrowIds, CancelEscrow(e)
  PROVE  TypeOK'
<1> DEFINE r == [escrows[e] EXCEPT !.cancelled = TRUE,
                   !.status = [i \in DOMAIN escrows[e].payments |-> "Cancelled"]]
<1>1. Exists(e) /\ escrows' = [escrows EXCEPT ![e] = r] /\ UNCHANGED escrowCount
  BY DEF CancelEscrow, Refundable, Unsettled
<1>2. r \in EscrowOf(escrows[e].payments)
  BY <1>1, StoredBatch DEF EscrowOf, PaymentStatus
<1>3. RestOK'
  BY DEF CancelEscrow, Refundable, Unsettled, Transferable, TypeOK, RestOK, adminVars
<1> QED
  BY <1>1, <1>2, <1>3, TypeRewrite

LEMMA TypeStep == TypeOK /\ [Next]_vars => TypeOK'
<1> SUFFICES ASSUME TypeOK, [Next]_vars PROVE TypeOK'
  OBVIOUS
<1>1. CASE AdminNext
  BY <1>1, TypeAdmin
<1>2. CASE EscrowNext
  BY <1>2, TypeInitialize, TypeSubmit, TypeRotate, TypeManagerApprove,
     TypeFinanceApprove, TypePay, TypeCancel DEF EscrowNext
<1>3. CASE UNCHANGED vars
  BY <1>3 DEF vars, TypeOK, Exists
<1> QED
  BY <1>1, <1>2, <1>3 DEF Next

\* Every reachable state of the contract is well typed: each entry point stores
\* an escrow made from a batch that was accepted, nonces and rotations stay
\* within their width, and no balance is ever negative.
THEOREM TypeCorrect == Spec => []TypeOK
  BY TypeInit, TypeStep, PTL DEF Spec

------------------------------------------------------------------------------
\* Settlement under dual control.  The property says nothing of an escrow that
\* is approved but not yet settled, so it is not inductive: Controlled adds who
\* signed what, that the two roles are distinct, and what cancelling leaves.
Controlled(e) ==
  LET r == escrows[e] IN
  /\ r.manager # r.finance_approver
  /\ DOMAIN r.payments # {}
  /\ r.manager_approved => r.manager \in signers[e]
  /\ r.finance_approved => r.finance_approver \in signers[e]
  /\ r.cancelled => \A i \in DOMAIN r.payments : r.status[i] = "Cancelled"
  /\ Finalized(e) =>
       /\ r.manager_approved /\ r.finance_approved
       /\ \A i \in DOMAIN r.payments : r.status[i] = "Finalized" /\ r.proof_verified[i]

ControlInv == \A e \in EscrowIds : Exists(e) => Controlled(e)

\* Controlled(e) reads nothing but the escrow and who signed for it.
LEMMA ControlledFrame ==
  ASSUME NEW e \in EscrowIds, Controlled(e),
         escrows'[e] = escrows[e], signers'[e] = signers[e]
  PROVE  Controlled(e)'
  BY DEF Controlled, Finalized

\* An operation on e leaves the other escrows and their signers alone.
LEMMA ControlledOthers ==
  ASSUME TypeOK, ControlInv, NEW e \in EscrowIds, NEW r, NEW S,
         escrows' = [escrows EXCEPT ![e] = r],
         signers' = [signers EXCEPT ![e] = S] \/ UNCHANGED signers,
         Exists(e)' => Controlled(e)'
  PROVE  ControlInv'
<1> SUFFICES ASSUME NEW x \in EscrowIds, Exists(x)' PROVE Controlled(x)'
  BY DEF ControlInv
<1>1. CASE x = e
  BY <1>1
<1>2. CASE x # e
  <2>1. escrows'[x] = escrows[x] /\ signers'[x] = signers[x]
    BY <1>2 DEF TypeOK
  <2>2. Exists(x)
    BY <2>1 DEF Exists
  <2> QED
    BY <2>1, <2>2, ControlledFrame DEF ControlInv
<1> QED
  BY <1>1, <1>2

LEMMA ControlInitialize ==
  ASSUME TypeOK, ControlInv, NEW m \in Accounts, NEW f \in Accounts, NEW k \in OracleKeys,
         NEW b \in Batches, InitializeMultiSigEscrow(m, f, k, b)
  PROVE  ControlInv'
<1>1. PICK id \in EscrowIds : id = escrowCount + 1
  BY DEF InitializeMultiSigEscrow
<1> DEFINE r == escrows'[id]
<1>2. /\ escrows' = [escrows EXCEPT ![id] = r]
      /\ r.manager = m /\ r.finance_approver = f /\ r.payments = b
      /\ ~r.manager_approved /\ ~r.finance_approved /\ ~r.cancelled
      /\ r.status = [i \in DOMAIN b |-> b[i].status]
      /\ UNCHANGED signers
  BY <1>1 DEF InitializeMultiSigEscrow, TypeOK
<1>3. m # f /\ DOMAIN b # {}
  <2>1. m # f /\ Len(b) \in 1 .. MaxBatchSize
    BY DEF InitializeMultiSigEscrow
  <2>2. b \in Seq(PaymentSchedule)
    BY ContractAssumption
  <2>3. 1 \in DOMAIN b
    BY <2>1, <2>2, Limits
  <2> QED
    BY <2>1, <2>3
<1>4. \A i \in DOMAIN b : b[i].status = "Pending"
  BY ContractAssumption DEF ClientRow
<1>5. Controlled(id)'
  BY <1>2, <1>3, <1>4 DEF Controlled, Finalized
<1> QED
  BY <1>1, <1>2, <1>5, ControlledOthers

LEMMA ControlRotate ==
  ASSUME TypeOK, ControlInv, NEW e \in EscrowIds, NEW k \in OracleKeys, RotateOracleKey(e, k)
  PROVE  ControlInv'
<1> DEFINE r == escrows'[e]
<1>1. /\ Exists(e) /\ ~escrows[e].cancelled /\ ~Finalized(e)
      /\ escrows' = [escrows EXCEPT ![e] = r] /\ UNCHANGED signers
      /\ r = [escrows[e] EXCEPT !.oracle_pubkey = k,
                !.oracle_rotations = escrows[e].oracle_rotations + 1,
                !.proof_verified = [i \in DOMAIN escrows[e].payments |-> FALSE]]
  BY DEF RotateOracleKey, Unsettled, ProofsRevoked, TypeOK
<1>2. escrows[e] \in EscrowOf(escrows[e].payments)
  BY <1>1, StoredBatch
<1>3. /\ r.manager = escrows[e].manager /\ r.finance_approver = escrows[e].finance_approver
      /\ r.payments = escrows[e].payments /\ r.status = escrows[e].status
      /\ r.manager_approved = escrows[e].manager_approved
      /\ r.finance_approved = escrows[e].finance_approved
      /\ r.cancelled = escrows[e].cancelled
  BY <1>1, <1>2 DEF EscrowOf
<1>4. Controlled(e)'
  BY <1>1, <1>3 DEF ControlInv, Controlled, Finalized
<1> QED
  BY <1>1, <1>4, ControlledOthers

LEMMA ControlSubmit ==
  ASSUME TypeOK, ControlInv, NEW s \in Attestations, SubmitHoursProof(s)
  PROVE  ControlInv'
<1> DEFINE e == s.escrow
           r == escrows'[e]
<1>1. e \in EscrowIds /\ s.payment \in DOMAIN escrows[e].payments
  BY DEF Attestations, SubmitHoursProof
<1>2. /\ Exists(e) /\ ~escrows[e].cancelled
      /\ ~escrows[e].manager_approved /\ ~escrows[e].finance_approved
      /\ escrows' = [escrows EXCEPT ![e] = r] /\ UNCHANGED signers
      /\ r = [escrows[e] EXCEPT !.hours_logged[s.payment] = s.hours,
                                !.proof_verified[s.payment] = TRUE]
  BY <1>1 DEF SubmitHoursProof, NoApproval, TypeOK
<1>3. escrows[e] \in EscrowOf(escrows[e].payments)
  BY <1>1, <1>2, StoredBatch
<1>4. /\ r.manager = escrows[e].manager /\ r.finance_approver = escrows[e].finance_approver
      /\ r.payments = escrows[e].payments /\ r.status = escrows[e].status
      /\ r.manager_approved = escrows[e].manager_approved
      /\ r.finance_approved = escrows[e].finance_approved
      /\ r.cancelled = escrows[e].cancelled
  BY <1>2, <1>3 DEF EscrowOf
<1>5. ~Finalized(e)
  BY <1>1, <1>2 DEF ControlInv, Controlled
<1>6. Controlled(e)'
  BY <1>1, <1>2, <1>4, <1>5 DEF ControlInv, Controlled, Finalized
<1> QED
  BY <1>1, <1>2, <1>6, ControlledOthers

LEMMA ControlManagerApprove ==
  ASSUME TypeOK, ControlInv, NEW e \in EscrowIds, NEW a \in Accounts, ManagerApprove(e, a)
  PROVE  ControlInv'
<1> DEFINE r == escrows'[e]
           S == signers[e] \union {a}
<1>1. /\ Exists(e) /\ ~escrows[e].cancelled /\ ~escrows[e].manager_approved
      /\ a = escrows[e].manager
      /\ escrows' = [escrows EXCEPT ![e] = r]
      /\ signers' = [signers EXCEPT ![e] = S]
      /\ r = [escrows[e] EXCEPT !.manager_approved = TRUE]
  BY DEF ManagerApprove, TypeOK
<1>2. escrows[e] \in EscrowOf(escrows[e].payments)
  BY <1>1, StoredBatch
<1>3. /\ r = [escrows[e] EXCEPT !.manager_approved = TRUE]
      /\ r.manager = escrows[e].manager /\ r.finance_approver = escrows[e].finance_approver
      /\ r.payments = escrows[e].payments /\ r.status = escrows[e].status
      /\ r.proof_verified = escrows[e].proof_verified /\ r.cancelled = escrows[e].cancelled
      /\ r.manager_approved
      /\ r.finance_approved = escrows[e].finance_approved
  BY <1>1, <1>2 DEF EscrowOf
<1>4. signers'[e] = S
  BY <1>1 DEF TypeOK
<1>5. ~Finalized(e)
  BY <1>1 DEF ControlInv, Controlled
<1>6. Controlled(e)'
  BY <1>1, <1>3, <1>4, <1>5 DEF ControlInv, Controlled, Finalized
<1> QED
  BY <1>1, <1>6, ControlledOthers

LEMMA ControlFinanceApprove ==
  ASSUME TypeOK, ControlInv, NEW e \in EscrowIds, NEW a \in Accounts, FinanceApprove(e, a)
  PROVE  ControlInv'
<1> DEFINE r == escrows'[e]
           S == signers[e] \union {a}
<1>1. /\ Exists(e) /\ ~escrows[e].cancelled /\ ~escrows[e].finance_approved
      /\ a = escrows[e].finance_approver
      /\ escrows' = [escrows EXCEPT ![e] = r]
      /\ signers' = [signers EXCEPT ![e] = S]
      /\ r = [escrows[e] EXCEPT !.finance_approved = TRUE]
  BY DEF FinanceApprove, TypeOK
<1>2. escrows[e] \in EscrowOf(escrows[e].payments)
  BY <1>1, StoredBatch
<1>3. /\ r = [escrows[e] EXCEPT !.finance_approved = TRUE]
      /\ r.manager = escrows[e].manager /\ r.finance_approver = escrows[e].finance_approver
      /\ r.payments = escrows[e].payments /\ r.status = escrows[e].status
      /\ r.proof_verified = escrows[e].proof_verified /\ r.cancelled = escrows[e].cancelled
      /\ r.finance_approved
      /\ r.manager_approved = escrows[e].manager_approved
  BY <1>1, <1>2 DEF EscrowOf
<1>4. signers'[e] = S
  BY <1>1 DEF TypeOK
<1>5. ~Finalized(e)
  BY <1>1 DEF ControlInv, Controlled
<1>6. Controlled(e)'
  BY <1>1, <1>3, <1>4, <1>5 DEF ControlInv, Controlled, Finalized
<1> QED
  BY <1>1, <1>6, ControlledOthers

\* Rewriting the status of an escrow's rows rewrites nothing else of it.
WithStatus(x, s) == [x EXCEPT !.status = s]

LEMMA ControlPay ==
  ASSUME TypeOK, ControlInv, NEW e \in EscrowIds, PayBatch(e)
  PROVE  ControlInv'
<1> DEFINE x == escrows[e]
           r == escrows'[e]
           S == [i \in DOMAIN x.payments |-> "Finalized"]
<1>1. /\ Exists(e) /\ ~x.cancelled
      /\ x.manager_approved /\ x.finance_approved
      /\ \A i \in DOMAIN x.payments : x.proof_verified[i]
      /\ escrows' = [escrows EXCEPT ![e] = r] /\ UNCHANGED signers
      /\ r = WithStatus(x, S)
  BY DEF PayBatch, Approved, PayableRows, TypeOK, WithStatus
<1>2. x.payments \in Batches /\ x \in EscrowOf(x.payments)
  BY <1>1, StoredBatch
<1>3. /\ r.manager = x.manager /\ r.finance_approver = x.finance_approver
      /\ r.payments = x.payments
      /\ r.status = S
      /\ r.proof_verified = x.proof_verified
      /\ r.manager_approved = x.manager_approved
      /\ r.finance_approved = x.finance_approved
      /\ r.cancelled = x.cancelled
  <2>1. x \in EscrowOf(x.payments) /\ r = WithStatus(x, S)
    BY <1>1, <1>2
  <2> HIDE DEF x, r, S
  <2> QED
    BY <2>1 DEF WithStatus, EscrowOf
<1>4. \A i \in DOMAIN r.payments : r.status[i] = "Finalized" /\ r.proof_verified[i]
  BY <1>1, <1>3
<1>5. r.manager = x.manager /\ r.finance_approver = x.finance_approver
      /\ Controlled(e)
  BY <1>1, <1>3 DEF ControlInv
<1>6. signers'[e] = signers[e]
  BY <1>1
<1> HIDE DEF S
<1>7. Controlled(e)'
  BY <1>1, <1>3, <1>4, <1>5, <1>6 DEF Controlled, Finalized
<1> QED
  BY <1>1, <1>7, ControlledOthers

LEMMA ControlCancel ==
  ASSUME TypeOK, ControlInv, NEW e \in EscrowIds, CancelEscrow(e)
  PROVE  ControlInv'
<1> DEFINE r == escrows'[e]
<1>1. /\ Exists(e)
      /\ escrows' = [escrows EXCEPT ![e] = r] /\ UNCHANGED signers
      /\ r = [escrows[e] EXCEPT !.cancelled = TRUE,
                !.status = [i \in DOMAIN escrows[e].payments |-> "Cancelled"]]
  BY DEF CancelEscrow, Refundable, Unsettled, TypeOK
<1>2. escrows[e] \in EscrowOf(escrows[e].payments)
  BY <1>1, StoredBatch
<1>3. /\ r.manager = escrows[e].manager /\ r.finance_approver = escrows[e].finance_approver
      /\ r.payments = escrows[e].payments
      /\ r.status = [i \in DOMAIN escrows[e].payments |-> "Cancelled"]
      /\ r.manager_approved = escrows[e].manager_approved
      /\ r.finance_approved = escrows[e].finance_approved
  BY <1>1, <1>2 DEF EscrowOf
<1>4. Controlled(e)'
  BY <1>1, <1>3 DEF ControlInv, Controlled, Finalized
<1> QED
  BY <1>1, <1>4, ControlledOthers

LEMMA ControlStep == TypeOK /\ ControlInv /\ [Next]_vars => ControlInv'
<1> SUFFICES ASSUME TypeOK, ControlInv, [Next]_vars PROVE ControlInv'
  OBVIOUS
<1>1. CASE AdminNext
  <2>1. UNCHANGED <<escrows, signers>>
    BY <1>1 DEF AdminNext, InitAdmin, ProposeAdmin, AcceptAdmin, SetPaused, Upgrade,
           RegisterOracleKey, RevokeOracleKey
  <2> QED
    BY <2>1 DEF ControlInv, Controlled, Exists, Finalized
<1>2. CASE EscrowNext
  BY <1>2, ControlInitialize, ControlSubmit, ControlRotate, ControlManagerApprove,
     ControlFinanceApprove, ControlPay, ControlCancel DEF EscrowNext
<1>3. CASE UNCHANGED vars
  BY <1>3 DEF vars, ControlInv, Controlled, Exists, Finalized
<1> QED
  BY <1>1, <1>2, <1>3 DEF Next

THEOREM ControlHolds == Spec => []ControlInv
<1>1. Init => ControlInv
  BY DEF Init, ControlInv, Exists
<1> QED
  BY <1>1, ControlStep, TypeCorrect, PTL DEF Spec

\* Whatever was settled was settled whole, proven and approved by two different
\* accounts, and not also refunded (pay_batch, manager_approve, finance_approve).
THEOREM DualControl == Spec => []SettledUnderDualControl
<1>1. TypeOK /\ ControlInv => SettledUnderDualControl
  <2> SUFFICES ASSUME TypeOK, ControlInv, NEW e \in EscrowIds, Exists(e), Finalized(e)
               PROVE  /\ \A i \in DOMAIN escrows[e].payments :
                           escrows[e].status[i] = "Finalized" /\ escrows[e].proof_verified[i]
                      /\ ~escrows[e].cancelled
                      /\ \E a, b \in signers[e] : a # b
    BY DEF SettledUnderDualControl
  <2>1. Controlled(e)
    BY DEF ControlInv
  <2>2. PICK i \in DOMAIN escrows[e].payments : escrows[e].status[i] = "Finalized"
    BY DEF Finalized
  <2>3. escrows[e].status[i] # "Cancelled"
    BY <2>2
  <2>4. ~escrows[e].cancelled
    BY <2>1, <2>3 DEF Controlled
  <2>5. \E a, b \in signers[e] : a # b
    BY <2>1 DEF Controlled
  <2> QED
    BY <2>1, <2>4, <2>5 DEF Controlled
<1> QED
  BY <1>1, TypeCorrect, ControlHolds, PTL

\* A settled or cancelled escrow is never written again, by any entry point.
THEOREM Closed == Spec => ClosedForGood
<1>1. TypeOK /\ ControlInv /\ [Next]_vars =>
        \A e \in EscrowIds : Exists(e) /\ ~Open(e) => escrows'[e] = escrows[e]
  <2> SUFFICES ASSUME TypeOK, ControlInv, [Next]_vars,
                      NEW e \in EscrowIds, Exists(e), ~Open(e)
               PROVE  escrows'[e] = escrows[e]
    OBVIOUS
  <2>1. escrows[e].cancelled \/ Finalized(e)
    BY DEF Open
  <2>2. Finalized(e) => escrows[e].manager_approved /\ escrows[e].finance_approved
    BY DEF ControlInv, Controlled
  <2>3. CASE AdminNext \/ UNCHANGED vars
    BY <2>3 DEF AdminNext, InitAdmin, ProposeAdmin, AcceptAdmin, SetPaused, Upgrade,
           RegisterOracleKey, RevokeOracleKey, vars
  <2>4. CASE \E m, f \in Accounts, k \in OracleKeys, b \in Batches :
               InitializeMultiSigEscrow(m, f, k, b)
    <3>1. e # escrowCount + 1
      BY DEF TypeOK, EscrowIds
    <3> QED
      BY <2>4, <3>1 DEF InitializeMultiSigEscrow, TypeOK
  <2>5. CASE \E s \in Attestations : SubmitHoursProof(s)
    BY <2>1, <2>2, <2>5 DEF SubmitHoursProof, NoApproval, TypeOK
  <2>6. CASE \E x \in EscrowIds, k \in OracleKeys : RotateOracleKey(x, k)
    BY <2>1, <2>6 DEF RotateOracleKey, Unsettled, ProofsRevoked, TypeOK
  <2>7. CASE \E x \in EscrowIds, a \in Accounts : ManagerApprove(x, a) \/ FinanceApprove(x, a)
    BY <2>1, <2>2, <2>7 DEF ManagerApprove, FinanceApprove, TypeOK
  <2>8. CASE \E x \in EscrowIds : PayBatch(x)
    BY <2>1, <2>8 DEF PayBatch, PayableRows, Finalized, TypeOK
  <2>9. CASE \E x \in EscrowIds : CancelEscrow(x)
    BY <2>1, <2>9 DEF CancelEscrow, Refundable, Unsettled, TypeOK
  <2> QED
    BY <2>3, <2>4, <2>5, <2>6, <2>7, <2>8, <2>9 DEF Next, EscrowNext
<1>2. TypeOK /\ ControlInv /\ [Next]_vars =>
        [\A e \in EscrowIds : Exists(e) /\ ~Open(e) => escrows'[e] = escrows[e]]_vars
  BY <1>1
<1> QED
  BY <1>2, TypeCorrect, ControlHolds, PTL DEF Spec, ClosedForGood

\* While the contract is paused an escrow can only be refunded, and none appears:
\* every entry point but cancel_escrow and the administrative ones looks at the
\* pause (require_not_paused).
THEOREM PauseStops == Spec => PausedMeansRefundOnly
<1>1. TypeOK /\ [Next]_vars =>
        \A e \in EscrowIds :
          paused /\ escrows'[e] # escrows[e] => Exists(e) /\ escrows'[e].cancelled
  <2> SUFFICES ASSUME TypeOK, [Next]_vars, NEW e \in EscrowIds,
                      paused, escrows'[e] # escrows[e]
               PROVE  Exists(e) /\ escrows'[e].cancelled
    OBVIOUS
  <2>1. ~UNCHANGED escrows /\ ~NotPaused
    BY DEF NotPaused
  <2>2. ~AdminNext /\ ~UNCHANGED vars
    BY <2>1 DEF AdminNext, InitAdmin, ProposeAdmin, AcceptAdmin, SetPaused, Upgrade,
           RegisterOracleKey, RevokeOracleKey, vars
  <2>3. PICK x \in EscrowIds : CancelEscrow(x)
    BY <2>1, <2>2 DEF Next, EscrowNext, InitializeMultiSigEscrow, SubmitHoursProof,
           RotateOracleKey, ManagerApprove, FinanceApprove, PayBatch
  <2>4. x = e
    BY <2>3 DEF CancelEscrow, Refundable, TypeOK
  <2>5. escrows[e] \in EscrowOf(escrows[e].payments) /\ Exists(e)
    BY <2>3, <2>4, StoredBatch DEF CancelEscrow, Refundable
  <2>6. escrows'[e] = [escrows[e] EXCEPT !.cancelled = TRUE,
                        !.status = [i \in DOMAIN escrows[e].payments |-> "Cancelled"]]
    BY <2>3, <2>4 DEF CancelEscrow, Refundable, TypeOK
  <2> QED
    BY <2>5, <2>6 DEF EscrowOf
<1>2. TypeOK /\ [Next]_vars =>
        [\A e \in EscrowIds :
           paused /\ escrows'[e] # escrows[e] => Exists(e) /\ escrows'[e].cancelled]_vars
  BY <1>1
<1> QED
  BY <1>2, TypeCorrect, PTL DEF Spec, PausedMeansRefundOnly

\* Only a rotation counts as one: every other operation on an escrow leaves its
\* count alone, and the other escrows whole.
LEMMA RotationsOnly ==
  ASSUME TypeOK, NEW x \in EscrowIds,
         \/ \E s \in Attestations : s.escrow = x /\ SubmitHoursProof(s)
         \/ \E a \in Accounts : ManagerApprove(x, a) \/ FinanceApprove(x, a)
         \/ PayBatch(x)
         \/ CancelEscrow(x)
  PROVE  /\ Exists(x) /\ \A y \in EscrowIds \ {x} : escrows'[y] = escrows[y]
         /\ escrows'[x].oracle_rotations = escrows[x].oracle_rotations
<1>1. Exists(x)
  BY DEF SubmitHoursProof, ManagerApprove, FinanceApprove, PayBatch, CancelEscrow, Refundable
<1>2. escrows[x] \in EscrowOf(escrows[x].payments)
  BY <1>1, StoredBatch
<1>3. \A y \in EscrowIds \ {x} : escrows'[y] = escrows[y]
  BY DEF SubmitHoursProof, ManagerApprove, FinanceApprove, PayBatch, CancelEscrow, Refundable, TypeOK
<1>4. CASE \E s \in Attestations : s.escrow = x /\ SubmitHoursProof(s)
  <2>1. PICK s \in Attestations : s.escrow = x /\ SubmitHoursProof(s)
    BY <1>4
  <2> QED
    BY <1>1, <1>2, <1>3, <2>1 DEF SubmitHoursProof, EscrowOf, TypeOK
<1>5. CASE \E a \in Accounts : ManagerApprove(x, a) \/ FinanceApprove(x, a)
  <2>1. PICK a \in Accounts : ManagerApprove(x, a) \/ FinanceApprove(x, a)
    BY <1>5
  <2> QED
    BY <1>1, <1>2, <1>3, <2>1 DEF ManagerApprove, FinanceApprove, EscrowOf, TypeOK
<1>6. CASE PayBatch(x)
  BY <1>1, <1>2, <1>3, <1>6 DEF PayBatch, EscrowOf, TypeOK
<1>7. CASE CancelEscrow(x)
  BY <1>1, <1>2, <1>3, <1>7 DEF CancelEscrow, Refundable, EscrowOf, TypeOK
<1> QED
  BY <1>4, <1>5, <1>6, <1>7

\* Once there is an admin, an escrow is created under a key, or rotated to one,
\* only if that key is registered at that moment (require_registered_oracle).
THEOREM RegistryGoverns == Spec => RegistryGovernsNewKeys
<1> DEFINE Governed(e) ==
      /\ admin # NoAccount
      /\ escrows'[e] # escrows[e]
      /\ Exists(e) => escrows'[e].oracle_rotations # escrows[e].oracle_rotations
      => escrows'[e].oracle_pubkey \in registered
<1>1. TypeOK /\ [Next]_vars => \A e \in EscrowIds : Governed(e)
  <2> SUFFICES ASSUME TypeOK, [Next]_vars, NEW e \in EscrowIds PROVE Governed(e)
    OBVIOUS
  <2>1. CASE AdminNext \/ UNCHANGED vars
    BY <2>1 DEF AdminNext, InitAdmin, ProposeAdmin, AcceptAdmin, SetPaused, Upgrade,
           RegisterOracleKey, RevokeOracleKey, vars
  <2>2. CASE \E m, f \in Accounts, k \in OracleKeys, b \in Batches :
               InitializeMultiSigEscrow(m, f, k, b)
    BY <2>2 DEF InitializeMultiSigEscrow, Registered, TypeOK
  <2>3. CASE \E x \in EscrowIds, k \in OracleKeys : RotateOracleKey(x, k)
    BY <2>3 DEF RotateOracleKey, Registered, TypeOK
  <2>4. \A x \in EscrowIds :
           /\ Exists(x) /\ \A y \in EscrowIds \ {x} : escrows'[y] = escrows[y]
           /\ escrows'[x].oracle_rotations = escrows[x].oracle_rotations
           => Governed(e)
    OBVIOUS
  <2> HIDE DEF Governed
  <2>5. CASE \E s \in Attestations : SubmitHoursProof(s)
    <3>1. PICK s \in Attestations : SubmitHoursProof(s)
      BY <2>5
    <3>2. s.escrow \in EscrowIds
      BY DEF Attestations
    <3> QED
      BY <2>4, <3>1, <3>2, RotationsOnly
  <2>6. CASE \E x \in EscrowIds, a \in Accounts : ManagerApprove(x, a) \/ FinanceApprove(x, a)
    <3>1. PICK x \in EscrowIds, a \in Accounts : ManagerApprove(x, a) \/ FinanceApprove(x, a)
      BY <2>6
    <3> QED
      BY <2>4, <3>1, RotationsOnly
  <2>7. CASE \E x \in EscrowIds : PayBatch(x) \/ CancelEscrow(x)
    <3>1. PICK x \in EscrowIds : PayBatch(x) \/ CancelEscrow(x)
      BY <2>7
    <3> QED
      BY <2>4, <3>1, RotationsOnly
  <2> QED
    BY <2>1, <2>2, <2>3, <2>5, <2>6, <2>7 DEF Next, EscrowNext
<1>2. TypeOK /\ [Next]_vars => [\A e \in EscrowIds : Governed(e)]_vars
  BY <1>1
<1> QED
  BY <1>2, TypeCorrect, PTL DEF Spec, RegistryGovernsNewKeys

------------------------------------------------------------------------------
\* Proofs of work.  Attested(e, i) is what ProofsAreCurrent says of one row.
Attested(e, i) ==
  \E x \in accepted :
    /\ x.att.escrow = e /\ x.att.payment = i
    /\ x.att.key = escrows[e].oracle_pubkey
    /\ x.rotation = escrows[e].oracle_rotations
    /\ x.att.hours = escrows[e].hours_logged[i]
    /\ x.att.hours * escrows[e].payments[i].rate_per_hour
         = escrows[e].payments[i].amount

\* A row keeps its attestation as long as its escrow keeps its key, its rotation
\* count, its terms and the hours it logged.
LEMMA AttestedFrame ==
  ASSUME NEW e \in EscrowIds, NEW i, Attested(e, i), accepted \subseteq accepted',
         escrows'[e].payments = escrows[e].payments,
         escrows'[e].oracle_pubkey = escrows[e].oracle_pubkey,
         escrows'[e].oracle_rotations = escrows[e].oracle_rotations,
         escrows'[e].hours_logged[i] = escrows[e].hours_logged[i]
  PROVE  Attested(e, i)'
  BY DEF Attested

\* An operation that leaves proofs, hours, key, rotations and terms as they were.
LEMMA CurrentFrame ==
  ASSUME ProofsAreCurrent, accepted \subseteq accepted',
         \A e \in EscrowIds : Exists(e)' =>
           /\ Exists(e)
           /\ escrows'[e].payments = escrows[e].payments
           /\ escrows'[e].oracle_pubkey = escrows[e].oracle_pubkey
           /\ escrows'[e].oracle_rotations = escrows[e].oracle_rotations
           /\ escrows'[e].hours_logged = escrows[e].hours_logged
           /\ escrows'[e].proof_verified = escrows[e].proof_verified
  PROVE  ProofsAreCurrent'
<1> SUFFICES ASSUME NEW e \in EscrowIds, Exists(e)',
                    NEW i \in DOMAIN escrows'[e].payments, escrows'[e].proof_verified[i]
             PROVE  Attested(e, i)'
  BY DEF ProofsAreCurrent, Attested
<1>1. Attested(e, i)
  BY DEF ProofsAreCurrent, Attested
<1> QED
  BY <1>1, AttestedFrame

LEMMA CurrentInitialize ==
  ASSUME TypeOK, ProofsAreCurrent, NEW m \in Accounts, NEW f \in Accounts,
         NEW k \in OracleKeys, NEW b \in Batches, InitializeMultiSigEscrow(m, f, k, b)
  PROVE  ProofsAreCurrent'
<1>1. PICK id \in EscrowIds : id = escrowCount + 1
  BY DEF InitializeMultiSigEscrow
<1>2. /\ escrows'[id].payments = b
      /\ escrows'[id].proof_verified = [i \in DOMAIN b |-> b[i].proof_verified]
      /\ accepted' = accepted
      /\ \A x \in EscrowIds : x # id => escrows'[x] = escrows[x]
  BY <1>1 DEF InitializeMultiSigEscrow, TypeOK
<1>3. \A i \in DOMAIN b : ~b[i].proof_verified
  BY ContractAssumption DEF ClientRow
<1> SUFFICES ASSUME NEW e \in EscrowIds, Exists(e)',
                    NEW i \in DOMAIN escrows'[e].payments, escrows'[e].proof_verified[i]
             PROVE  Attested(e, i)'
  BY DEF ProofsAreCurrent, Attested
<1>4. e # id
  BY <1>2, <1>3
<1>5. Exists(e) /\ escrows'[e] = escrows[e]
  BY <1>2, <1>4 DEF Exists
<1>6. Attested(e, i)
  BY <1>5 DEF ProofsAreCurrent, Attested
<1> QED
  BY <1>2, <1>5, <1>6, AttestedFrame

LEMMA CurrentRotate ==
  ASSUME TypeOK, ProofsAreCurrent, NEW x \in EscrowIds, NEW k \in OracleKeys,
         RotateOracleKey(x, k)
  PROVE  ProofsAreCurrent'
<1>1. Exists(x) /\ escrows[x] \in EscrowOf(escrows[x].payments)
  BY StoredBatch DEF RotateOracleKey, Unsettled
<1>2. /\ escrows'[x].payments = escrows[x].payments
      /\ escrows'[x].proof_verified = [i \in DOMAIN escrows[x].payments |-> FALSE]
      /\ accepted' = accepted
      /\ \A y \in EscrowIds : y # x => escrows'[y] = escrows[y]
  BY <1>1 DEF RotateOracleKey, Unsettled, ProofsRevoked, TypeOK, EscrowOf
<1> SUFFICES ASSUME NEW e \in EscrowIds, Exists(e)',
                    NEW i \in DOMAIN escrows'[e].payments, escrows'[e].proof_verified[i]
             PROVE  Attested(e, i)'
  BY DEF ProofsAreCurrent, Attested
<1>3. e # x
  BY <1>2
<1>4. Exists(e) /\ escrows'[e] = escrows[e]
  BY <1>2, <1>3 DEF Exists
<1>5. Attested(e, i)
  BY <1>4 DEF ProofsAreCurrent, Attested
<1> QED
  BY <1>2, <1>4, <1>5, AttestedFrame

LEMMA CurrentSubmit ==
  ASSUME TypeOK, ProofsAreCurrent, NEW s \in Attestations, SubmitHoursProof(s)
  PROVE  ProofsAreCurrent'
<1>1. /\ s.escrow \in EscrowIds /\ Exists(s.escrow)
      /\ s.payment \in DOMAIN escrows[s.escrow].payments
      /\ s.hours * escrows[s.escrow].payments[s.payment].rate_per_hour
           = escrows[s.escrow].payments[s.payment].amount
      /\ s.key = escrows[s.escrow].oracle_pubkey
  BY DEF SubmitHoursProof, Attestations, Verifies
<1>2. escrows[s.escrow].payments \in Batches /\ escrows[s.escrow] \in EscrowOf(escrows[s.escrow].payments)
  BY <1>1, StoredBatch
<1>3. /\ escrows'[s.escrow].payments = escrows[s.escrow].payments
      /\ escrows'[s.escrow].oracle_pubkey = escrows[s.escrow].oracle_pubkey
      /\ escrows'[s.escrow].oracle_rotations = escrows[s.escrow].oracle_rotations
      /\ escrows'[s.escrow].hours_logged
           = [escrows[s.escrow].hours_logged EXCEPT ![s.payment] = s.hours]
      /\ escrows'[s.escrow].proof_verified
           = [escrows[s.escrow].proof_verified EXCEPT ![s.payment] = TRUE]
      /\ \A y \in EscrowIds : y # s.escrow => escrows'[y] = escrows[y]
  <2> DEFINE y == escrows'[s.escrow]
  <2>1. /\ y = WithProof(escrows[s.escrow], s.payment, s.hours)
        /\ \A z \in EscrowIds : z # s.escrow => escrows'[z] = escrows[z]
    BY <1>1 DEF SubmitHoursProof, TypeOK, WithProof
  <2>2. s.hours \in Hours
    BY DEF Attestations
  <2>4. escrows[s.escrow] \in EscrowOf(escrows[s.escrow].payments)
    BY <1>2
  <2> DEFINE x == escrows[s.escrow]
  <2> HIDE DEF y
  <2>3. /\ y.payments = escrows[s.escrow].payments
        /\ y.oracle_pubkey = escrows[s.escrow].oracle_pubkey
        /\ y.oracle_rotations = escrows[s.escrow].oracle_rotations
        /\ y.hours_logged = [escrows[s.escrow].hours_logged EXCEPT ![s.payment] = s.hours]
        /\ y.proof_verified = [escrows[s.escrow].proof_verified EXCEPT ![s.payment] = TRUE]
    <3> DEFINE i == s.payment  h == s.hours
    <3>1. x \in EscrowOf(x.payments) /\ y = WithProof(x, i, h)
      BY <2>1, <2>4
    <3> HIDE DEF x, i, h
    <3>2. /\ y.payments = x.payments
          /\ y.oracle_pubkey = x.oracle_pubkey
          /\ y.oracle_rotations = x.oracle_rotations
          /\ y.hours_logged = [x.hours_logged EXCEPT ![i] = h]
          /\ y.proof_verified = [x.proof_verified EXCEPT ![i] = TRUE]
      BY <3>1 DEF WithProof, EscrowOf
    <3> QED
      BY <3>2 DEF x, i, h
  <2> QED
    BY <2>1, <2>3 DEF y
<1>4. accepted' = accepted \union
        {[att |-> s, rotation |-> escrows[s.escrow].oracle_rotations]}
  BY DEF SubmitHoursProof
<1> SUFFICES ASSUME NEW e \in EscrowIds, Exists(e)',
                    NEW i \in DOMAIN escrows'[e].payments, escrows'[e].proof_verified[i]
             PROVE  Attested(e, i)'
  BY DEF ProofsAreCurrent, Attested
<1>5. CASE e = s.escrow /\ i = s.payment
  <2> DEFINE x == [att |-> s, rotation |-> escrows[s.escrow].oracle_rotations]
  <2>1. x \in accepted' /\ x.att = s /\ x.rotation = escrows[s.escrow].oracle_rotations
    BY <1>4
  <2>2. escrows'[e].hours_logged[i] = s.hours
    BY <1>1, <1>2, <1>3, <1>5 DEF EscrowOf
  <2>3. /\ x.att.escrow = e /\ x.att.payment = i /\ x.att.hours = s.hours
        /\ x.att.key = escrows'[e].oracle_pubkey
        /\ x.rotation = escrows'[e].oracle_rotations
    BY <1>1, <1>3, <1>5, <2>1
  <2>4. s.hours * escrows'[e].payments[i].rate_per_hour = escrows'[e].payments[i].amount
    BY <1>1, <1>3, <1>5
  <2> HIDE DEF x
  <2> QED
    BY <2>1, <2>2, <2>3, <2>4 DEF Attested
<1>6. CASE e = s.escrow /\ i # s.payment
  <2>1. i \in DOMAIN escrows[e].payments /\ escrows[e].proof_verified[i]
        /\ escrows'[e].hours_logged[i] = escrows[e].hours_logged[i]
    BY <1>1, <1>2, <1>3, <1>6 DEF EscrowOf
  <2>2. Attested(e, i)
    BY <1>1, <1>6, <2>1 DEF ProofsAreCurrent, Attested
  <2> QED
    BY <1>3, <1>4, <1>6, <2>1, <2>2, AttestedFrame
<1>7. CASE e # s.escrow
  <2>1. Exists(e) /\ escrows'[e] = escrows[e]
    BY <1>3, <1>7 DEF Exists
  <2>2. Attested(e, i)
    BY <2>1 DEF ProofsAreCurrent, Attested
  <2> QED
    BY <1>4, <2>1, <2>2, AttestedFrame
<1> QED
  BY <1>5, <1>6, <1>7

\* Approving, paying and cancelling touch none of what a proof rests on.
LEMMA CurrentOthers ==
  ASSUME TypeOK, ProofsAreCurrent, NEW e \in EscrowIds, NEW a \in Accounts,
         ManagerApprove(e, a) \/ FinanceApprove(e, a) \/ PayBatch(e) \/ CancelEscrow(e)
  PROVE  ProofsAreCurrent'
<1>1. Exists(e) /\ escrows[e] \in EscrowOf(escrows[e].payments)
  BY StoredBatch DEF ManagerApprove, FinanceApprove, PayBatch, CancelEscrow, Refundable, Unsettled
<1>2. /\ escrows'[e].payments = escrows[e].payments
      /\ escrows'[e].oracle_pubkey = escrows[e].oracle_pubkey
      /\ escrows'[e].oracle_rotations = escrows[e].oracle_rotations
      /\ escrows'[e].hours_logged = escrows[e].hours_logged
      /\ escrows'[e].proof_verified = escrows[e].proof_verified
  <2>1. CASE ManagerApprove(e, a)
    BY <1>1, <2>1 DEF ManagerApprove, EscrowOf, TypeOK
  <2>2. CASE FinanceApprove(e, a)
    BY <1>1, <2>2 DEF FinanceApprove, EscrowOf, TypeOK
  <2>3. CASE PayBatch(e)
    BY <1>1, <2>3 DEF PayBatch, EscrowOf, TypeOK
  <2>4. CASE CancelEscrow(e)
    BY <1>1, <2>4 DEF CancelEscrow, Refundable, Unsettled, EscrowOf, TypeOK
  <2> QED
    BY <2>1, <2>2, <2>3, <2>4
<1>3. accepted' = accepted /\ \A x \in EscrowIds : x # e => escrows'[x] = escrows[x]
  BY DEF ManagerApprove, FinanceApprove, PayBatch, CancelEscrow, Refundable, Unsettled, TypeOK
<1> QED
  BY <1>1, <1>2, <1>3, CurrentFrame DEF Exists

\* Every proof that stands was accepted under the key that stands: rotating the
\* key, even back to an earlier one, leaves no proof behind (rotate_oracle_key).
THEOREM CurrentProofs == Spec => []ProofsAreCurrent
<1>1. Init => ProofsAreCurrent
  BY DEF Init, ProofsAreCurrent, Exists
<1>2. TypeOK /\ ProofsAreCurrent /\ [Next]_vars => ProofsAreCurrent'
  <2> SUFFICES ASSUME TypeOK, ProofsAreCurrent, [Next]_vars PROVE ProofsAreCurrent'
    OBVIOUS
  <2>1. CASE AdminNext \/ UNCHANGED vars
    <3>1. UNCHANGED <<escrows, accepted>>
      BY <2>1 DEF AdminNext, InitAdmin, ProposeAdmin, AcceptAdmin, SetPaused, Upgrade,
             RegisterOracleKey, RevokeOracleKey, vars
    <3> QED
      BY <3>1 DEF ProofsAreCurrent, Exists
  <2>2. CASE \E m, f \in Accounts, k \in OracleKeys, b \in Batches :
               InitializeMultiSigEscrow(m, f, k, b)
    BY <2>2, CurrentInitialize
  <2>3. CASE \E s \in Attestations : SubmitHoursProof(s)
    BY <2>3, CurrentSubmit
  <2>4. CASE \E x \in EscrowIds, k \in OracleKeys : RotateOracleKey(x, k)
    BY <2>4, CurrentRotate
  <2>5. CASE \E x \in EscrowIds : \/ \E a \in Accounts : ManagerApprove(x, a) \/ FinanceApprove(x, a)
                                  \/ PayBatch(x) \/ CancelEscrow(x)
    <3>1. PICK x \in EscrowIds : \/ \E a \in Accounts : ManagerApprove(x, a) \/ FinanceApprove(x, a)
                                 \/ PayBatch(x) \/ CancelEscrow(x)
      BY <2>5
    <3>2. escrows[x].manager \in Accounts /\ Exists(x)
      BY <3>1, StoredBatch, EscrowFields DEF ManagerApprove, FinanceApprove, PayBatch, CancelEscrow, Refundable, Unsettled
    <3> QED
      BY <3>1, <3>2, CurrentOthers
  <2> QED
    BY <2>1, <2>2, <2>3, <2>4, <2>5 DEF Next, EscrowNext
<1> QED
  BY <1>1, <1>2, TypeCorrect, PTL DEF Spec

------------------------------------------------------------------------------
\* Nonces.  AcceptedOnce row by row, with what it needs of ids not yet in use.
NonceInv ==
  /\ \A e \in EscrowIds : ~Exists(e) => nonces[e] = 0
  /\ \A x \in accepted : x.att.nonce < nonces[x.att.escrow]
  /\ \A e \in EscrowIds : \A n \in 0 .. nonces[e] - 1 :
       \E x \in accepted : x.att.escrow = e /\ x.att.nonce = n
  /\ \A x, y \in accepted :
       x.att.escrow = y.att.escrow /\ x.att.nonce = y.att.nonce => x = y

LEMMA NonceSubmit ==
  ASSUME TypeOK, NonceInv, NEW s \in Attestations, SubmitHoursProof(s)
  PROVE  NonceInv'
<1> DEFINE z == [att |-> s, rotation |-> escrows[s.escrow].oracle_rotations]
<1>1. /\ s.escrow \in EscrowIds /\ Exists(s.escrow) /\ s.nonce \in Nat
      /\ s.nonce = nonces[s.escrow]
      /\ nonces' = [nonces EXCEPT ![s.escrow] = s.nonce + 1]
      /\ accepted' = accepted \union {z}
  BY Limits DEF SubmitHoursProof, TrackNonce, Attestations
<1>2. z.att = s /\ z \in accepted'
  BY <1>1
<1>3. \A e \in EscrowIds : Exists(e)' <=> Exists(e)
  BY <1>1, TypeSubmit DEF SubmitHoursProof, NoApproval, TypeOK
<1> HIDE DEF z
<1>4. \A x \in accepted : x.att.escrow \in EscrowIds /\ x.att.nonce \in Nat
  BY Limits DEF TypeOK, Attestations
<1>5. /\ nonces'[s.escrow] = s.nonce + 1
      /\ \A e \in EscrowIds : e # s.escrow => nonces'[e] = nonces[e]
      /\ \A e \in EscrowIds : nonces[e] \in Nat
  BY <1>1, Limits DEF TypeOK
<1>6. \A e \in EscrowIds : ~Exists(e)' => nonces'[e] = 0
  BY <1>1, <1>3, <1>5 DEF NonceInv
<1>7. \A x \in accepted' : x.att.nonce < nonces'[x.att.escrow]
  BY <1>1, <1>2, <1>4, <1>5 DEF NonceInv
<1>8. ASSUME NEW e \in EscrowIds, NEW n \in 0 .. nonces'[e] - 1
      PROVE  \E x \in accepted' : x.att.escrow = e /\ x.att.nonce = n
  <2>1. CASE e = s.escrow /\ n = s.nonce
    BY <1>2, <2>1
  <2>2. CASE ~(e = s.escrow /\ n = s.nonce)
    <3>1. n \in 0 .. nonces[e] - 1
      BY <1>1, <1>5, <2>2
    <3> QED
      BY <1>1, <3>1 DEF NonceInv
  <2> QED
    BY <2>1, <2>2
<1>9. ASSUME NEW x \in accepted', NEW y \in accepted',
             x.att.escrow = y.att.escrow, x.att.nonce = y.att.nonce
      PROVE  x = y
  <2>1. \A w \in accepted : ~(w.att.escrow = s.escrow /\ w.att.nonce = s.nonce)
    BY <1>1, <1>4 DEF NonceInv
  <2>2. CASE x \in accepted /\ y \in accepted
    BY <1>9, <2>2 DEF NonceInv
  <2> QED
    BY <1>1, <1>2, <1>9, <2>1, <2>2
<1> QED
  BY <1>6, <1>7, <1>8, <1>9 DEF NonceInv

LEMMA NonceInitialize ==
  ASSUME TypeOK, NonceInv, NEW m \in Accounts, NEW f \in Accounts,
         NEW k \in OracleKeys, NEW b \in Batches, InitializeMultiSigEscrow(m, f, k, b)
  PROVE  NonceInv'
<1>1. PICK id \in EscrowIds : id = escrowCount + 1
  BY DEF InitializeMultiSigEscrow
<1>2. ~Exists(id)
  BY <1>1 DEF TypeOK, EscrowIds
<1>3. nonces' = nonces /\ accepted' = accepted
  BY <1>1, <1>2 DEF InitializeMultiSigEscrow, NonceInv, TypeOK
<1>4. \A e \in EscrowIds : Exists(e) => Exists(e)'
  BY <1>1, <1>2 DEF InitializeMultiSigEscrow, TypeOK, Exists
<1> QED
  BY <1>3, <1>4 DEF NonceInv

\* No attestation is ever accepted twice and no nonce is skipped, whatever keys
\* were rotated in between (track_nonce).
THEOREM NoReplay == Spec => []AcceptedOnce
<1>1. Init => NonceInv
  <2> SUFFICES ASSUME Init PROVE NonceInv
    OBVIOUS
  <2>1. accepted = {} /\ \A e \in EscrowIds : nonces[e] = 0
    BY DEF Init
  <2>2. \A e \in EscrowIds : \A n \in 0 .. nonces[e] - 1 : FALSE
    BY <2>1
  <2> QED
    BY <2>1, <2>2 DEF NonceInv
<1>2. TypeOK /\ NonceInv /\ [Next]_vars => NonceInv'
  <2> SUFFICES ASSUME TypeOK, NonceInv, [Next]_vars PROVE NonceInv'
    OBVIOUS
  <2>1. CASE AdminNext \/ UNCHANGED vars
    <3>1. UNCHANGED <<escrows, accepted, nonces>>
      BY <2>1 DEF AdminNext, InitAdmin, ProposeAdmin, AcceptAdmin, SetPaused, Upgrade,
             RegisterOracleKey, RevokeOracleKey, vars
    <3> QED
      BY <3>1 DEF NonceInv, Exists
  <2>2. CASE \E m, f \in Accounts, k \in OracleKeys, b \in Batches :
               InitializeMultiSigEscrow(m, f, k, b)
    BY <2>2, NonceInitialize
  <2>3. CASE \E s \in Attestations : SubmitHoursProof(s)
    BY <2>3, NonceSubmit
  <2>4. CASE \E e \in EscrowIds :
               \/ \E k \in OracleKeys : RotateOracleKey(e, k)
               \/ \E a \in Accounts : ManagerApprove(e, a) \/ FinanceApprove(e, a)
               \/ PayBatch(e) \/ CancelEscrow(e)
    <3>1. UNCHANGED <<nonces, accepted>>
      BY <2>4 DEF RotateOracleKey, Unsettled, ManagerApprove, FinanceApprove, PayBatch, CancelEscrow, Refundable
    <3>2. UNCHANGED escrowCount
      BY <2>4 DEF RotateOracleKey, Unsettled, ManagerApprove, FinanceApprove, PayBatch, CancelEscrow, Refundable
    <3>3. TypeOK'
      BY TypeStep
    <3> QED
      BY <3>1, <3>2, <3>3 DEF NonceInv, TypeOK
  <2> QED
    BY <2>1, <2>2, <2>3, <2>4 DEF Next, EscrowNext
<1>3. TypeOK /\ NonceInv => AcceptedOnce
  <2> SUFFICES ASSUME TypeOK, NonceInv, NEW e \in EscrowIds
               PROVE  LET mine == {x \in accepted : x.att.escrow = e} IN
                      /\ {x.att.nonce : x \in mine} = 0 .. nonces[e] - 1
                      /\ \A x, y \in mine : x.att.nonce = y.att.nonce => x = y
    BY DEF AcceptedOnce
  <2> DEFINE mine == {x \in accepted : x.att.escrow = e}
  <2>1. \A x \in mine : x.att.nonce \in 0 .. nonces[e] - 1
    BY Limits DEF NonceInv, TypeOK, Attestations
  <2>2. \A n \in 0 .. nonces[e] - 1 : \E x \in mine : n = x.att.nonce
    BY DEF NonceInv
  <2>3. {x.att.nonce : x \in mine} = 0 .. nonces[e] - 1
    BY <2>1, <2>2
  <2> QED
    BY <2>3 DEF NonceInv
<1> QED
  BY <1>1, <1>2, <1>3, TypeCorrect, PTL DEF Spec

------------------------------------------------------------------------------
\* The contract implements EscrowCustody.

\* An escrow whose terms, cancellation and settlement did not change stands for
\* the same custody.
LEMMA CustodyFrame ==
  ASSUME NEW e \in EscrowIds, Exists(e)' <=> Exists(e),
         Exists(e) => /\ escrows'[e].manager = escrows[e].manager
                      /\ escrows'[e].payments = escrows[e].payments
                      /\ escrows'[e].cancelled = escrows[e].cancelled
                      /\ escrows'[e].status = escrows[e].status
  PROVE  CustodyOf'[e] = CustodyOf[e]
  BY DEF CustodyOf, Finalized

\* Contract and custody move tokens by the same ledger.
LEMMA SameTotal ==
  ASSUME NEW rows, NEW t
  PROVE  Custody!Total(rows, t) = Total(rows, t)
  BY DEF Custody!Total, Total, Custody!SumFunction, SumFunction,
         Custody!SumFunctionOnSet, SumFunctionOnSet, Custody!FoldFunctionOnSet, FoldFunctionOnSet,
         Custody!MapThenFoldSet, MapThenFoldSet

LEMMA SameOwed ==
  ASSUME NEW rows, NEW a, NEW t
  PROVE  Custody!Owed(rows, a, t) = Owed(rows, a, t)
  BY DEF Custody!Owed, Owed, Custody!SumFunction, SumFunction,
         Custody!SumFunctionOnSet, SumFunctionOnSet, Custody!FoldFunctionOnSet, FoldFunctionOnSet,
         Custody!MapThenFoldSet, MapThenFoldSet

LEMMA SameLedger ==
  ASSUME NEW b, NEW m, NEW rows
  PROVE  /\ Custody!Deposit(b, m, rows) = Deposit(b, m, rows)
         /\ Custody!GiveBack(b, m, rows) = GiveBack(b, m, rows)
         /\ Custody!PayOut(b, rows) = PayOut(b, rows)
<1>1. Custody!Deposit(b, m, rows) = Deposit(b, m, rows)
  BY SameTotal DEF Custody!Deposit, Deposit
<1>2. Custody!GiveBack(b, m, rows) = GiveBack(b, m, rows)
  BY SameTotal DEF Custody!GiveBack, GiveBack
<1>3. Custody!PayOut(b, rows) = PayOut(b, rows)
  BY SameTotal, SameOwed DEF Custody!PayOut, PayOut, Custody!Holders, Holders
<1> QED
  BY <1>1, <1>2, <1>3

LEMMA CustodyInitialize ==
  ASSUME TypeOK, TypeOK', NEW m \in Accounts, NEW f \in Accounts, NEW k \in OracleKeys,
         NEW b \in Batches, InitializeMultiSigEscrow(m, f, k, b)
  PROVE  \E id \in EscrowIds : Custody!Fund(id, m, b)
<1>1. PICK id \in EscrowIds : id = escrowCount + 1
  BY DEF InitializeMultiSigEscrow
<1>2. ~Exists(id)
  BY <1>1 DEF TypeOK, EscrowIds
<1>3. Exists(id)'
  BY <1>1 DEF InitializeMultiSigEscrow, TypeOK, EscrowIds
<1>4. /\ escrows'[id].manager = m /\ escrows'[id].payments = b /\ ~escrows'[id].cancelled
      /\ escrows'[id].status = [i \in DOMAIN b |-> b[i].status]
      /\ \A x \in EscrowIds : x # id => escrows'[x] = escrows[x]
  BY <1>1 DEF InitializeMultiSigEscrow, TypeOK
<1>5. \A i \in DOMAIN b : b[i].status = "Pending"
  BY ContractAssumption DEF ClientRow
<1>6. ~Finalized(id)'
  BY <1>4, <1>5 DEF Finalized
<1>7. CustodyOf'[id] = [state |-> "held", payer |-> m, rows |-> b]
  BY <1>3, <1>4, <1>6 DEF CustodyOf
<1>8. \A x \in EscrowIds : x # id => CustodyOf'[x] = CustodyOf[x]
  BY <1>4, CustodyFrame DEF Exists
<1>9. CustodyOf' = [CustodyOf EXCEPT ![id] = [state |-> "held", payer |-> m, rows |-> b]]
  BY <1>7, <1>8 DEF CustodyOf
<1>10. CustodyOf[id] = [state |-> "unfunded"]
  BY <1>2 DEF CustodyOf
<1>11. balances' = Deposit(balances, m, b)
  BY DEF InitializeMultiSigEscrow
<1> QED
  BY <1>9, <1>10, <1>11, SameLedger DEF Custody!Fund, Custody!Unfunded

\* Paying and refunding end the custody of an open escrow.
LEMMA CustodyPay ==
  ASSUME TypeOK, ControlInv, NEW e \in EscrowIds, PayBatch(e)
  PROVE  Custody!Settle(e)
<1>1. Exists(e) /\ escrows[e] \in EscrowOf(escrows[e].payments)
  BY StoredBatch DEF PayBatch
<1>2. ~escrows[e].cancelled /\ ~Finalized(e)
  BY DEF PayBatch, PayableRows, Finalized
<1>3. /\ escrows'[e].manager = escrows[e].manager /\ escrows'[e].payments = escrows[e].payments
      /\ escrows'[e].cancelled = escrows[e].cancelled
      /\ escrows'[e].status = [i \in DOMAIN escrows[e].payments |-> "Finalized"]
      /\ \A x \in EscrowIds : x # e => escrows'[x] = escrows[x]
  BY <1>1 DEF PayBatch, EscrowOf, TypeOK
<1>4. DOMAIN escrows[e].payments # {}
  BY <1>1 DEF ControlInv, Controlled
<1>5. Finalized(e)'
  BY <1>3, <1>4 DEF Finalized
<1>6. Exists(e)'
  BY <1>1, TypePay DEF PayBatch, Approved, PayableRows, TypeOK
<1>7. CustodyOf[e] = [state |-> "held", payer |-> escrows[e].manager,
                      rows |-> escrows[e].payments]
  BY <1>1, <1>2 DEF CustodyOf
<1>8. CustodyOf'[e] = [state |-> "settled", payer |-> escrows[e].manager,
                       rows |-> escrows[e].payments]
  BY <1>2, <1>3, <1>5, <1>6 DEF CustodyOf
<1>9. \A x \in EscrowIds : x # e => CustodyOf'[x] = CustodyOf[x]
  BY <1>3, CustodyFrame DEF Exists
<1>10. CustodyOf' = [CustodyOf EXCEPT ![e].state = "settled"]
  BY <1>7, <1>8, <1>9 DEF CustodyOf
<1>11. balances' = PayOut(balances, escrows[e].payments)
  BY DEF PayBatch
<1>12. CustodyOf[e].state = "held" /\ CustodyOf[e].rows = escrows[e].payments
  BY <1>7
<1> QED
  BY <1>10, <1>11, <1>12, SameLedger DEF Custody!Settle

LEMMA CustodyCancel ==
  ASSUME TypeOK, ControlInv, NEW e \in EscrowIds, CancelEscrow(e)
  PROVE  Custody!Refund(e)
<1>1. Exists(e) /\ escrows[e] \in EscrowOf(escrows[e].payments)
  BY StoredBatch DEF CancelEscrow, Refundable, Unsettled
<1>2. ~escrows[e].cancelled /\ ~Finalized(e)
  BY DEF CancelEscrow, Refundable, Unsettled
<1>3. escrows'[e] = [escrows[e] EXCEPT !.cancelled = TRUE,
                       !.status = [i \in DOMAIN escrows[e].payments |-> "Cancelled"]]
  BY DEF CancelEscrow, Refundable, Unsettled, TypeOK
<1>4. /\ escrows'[e].manager = escrows[e].manager /\ escrows'[e].payments = escrows[e].payments
      /\ escrows'[e].cancelled
      /\ \A x \in EscrowIds : x # e => escrows'[x] = escrows[x]
  BY <1>1, <1>3 DEF CancelEscrow, Refundable, Unsettled, EscrowOf, TypeOK
<1>5. Exists(e)'
  BY <1>1, TypeCancel DEF CancelEscrow, Refundable, Unsettled, TypeOK
<1>6. CustodyOf[e] = [state |-> "held", payer |-> escrows[e].manager,
                      rows |-> escrows[e].payments]
  BY <1>1, <1>2 DEF CustodyOf
<1>7. CustodyOf'[e] = [state |-> "refunded", payer |-> escrows[e].manager,
                       rows |-> escrows[e].payments]
  BY <1>4, <1>5 DEF CustodyOf
<1>8. \A x \in EscrowIds : x # e => CustodyOf'[x] = CustodyOf[x]
  BY <1>4, CustodyFrame DEF Exists
<1>9. CustodyOf' = [CustodyOf EXCEPT ![e].state = "refunded"]
  BY <1>6, <1>7, <1>8 DEF CustodyOf
<1>10. balances' = GiveBack(balances, escrows[e].manager, escrows[e].payments)
  BY DEF CancelEscrow, Refundable, Unsettled
<1>11. /\ CustodyOf[e].state = "held" /\ CustodyOf[e].rows = escrows[e].payments
       /\ CustodyOf[e].payer = escrows[e].manager
  BY <1>6
<1> QED
  BY <1>9, <1>10, <1>11, SameLedger DEF Custody!Refund

\* Proving, rotating and approving move no money.
LEMMA CustodyOthers ==
  ASSUME TypeOK, TypeOK', NEW e \in EscrowIds,
         \/ \E a \in Accounts : ManagerApprove(e, a) \/ FinanceApprove(e, a)
         \/ \E k \in OracleKeys : RotateOracleKey(e, k)
         \/ \E s \in Attestations : s.escrow = e /\ SubmitHoursProof(s)
  PROVE  UNCHANGED Custody!custodyVars
<1>1. Exists(e) /\ escrows[e] \in EscrowOf(escrows[e].payments)
  BY StoredBatch DEF ManagerApprove, FinanceApprove, RotateOracleKey, Unsettled, SubmitHoursProof
<1>2. /\ UNCHANGED <<balances, escrowCount>>
      /\ \A x \in EscrowIds : x # e => escrows'[x] = escrows[x]
  BY DEF ManagerApprove, FinanceApprove, RotateOracleKey, Unsettled, SubmitHoursProof, TypeOK
<1>3. /\ escrows'[e].manager = escrows[e].manager
      /\ escrows'[e].payments = escrows[e].payments
      /\ escrows'[e].cancelled = escrows[e].cancelled
      /\ escrows'[e].status = escrows[e].status
  <2>1. CASE \E a \in Accounts : ManagerApprove(e, a)
    <3>1. escrows'[e] = [escrows[e] EXCEPT !.manager_approved = TRUE]
      BY <2>1 DEF ManagerApprove, TypeOK
    <3> QED
      BY <1>1, <3>1 DEF EscrowOf
  <2>2. CASE \E a \in Accounts : FinanceApprove(e, a)
    <3>1. escrows'[e] = [escrows[e] EXCEPT !.finance_approved = TRUE]
      BY <2>2 DEF FinanceApprove, TypeOK
    <3> QED
      BY <1>1, <3>1 DEF EscrowOf
  <2>3. CASE \E k \in OracleKeys : RotateOracleKey(e, k)
    <3>1. PICK k \in OracleKeys : RotateOracleKey(e, k)
      BY <2>3
    <3> QED
      BY <1>1, <3>1 DEF RotateOracleKey, Unsettled, ProofsRevoked, EscrowOf, TypeOK
  <2>4. CASE \E s \in Attestations : s.escrow = e /\ SubmitHoursProof(s)
    <3>1. PICK s \in Attestations : s.escrow = e /\ SubmitHoursProof(s)
      BY <2>4
    <3> QED
      BY <1>1, <3>1 DEF SubmitHoursProof, EscrowOf, TypeOK
  <2> QED
    BY <2>1, <2>2, <2>3, <2>4
<1>4. \A x \in EscrowIds : Exists(x)' <=> Exists(x)
  BY <1>2 DEF TypeOK
<1>5. \A x \in EscrowIds : CustodyOf'[x] = CustodyOf[x]
  BY <1>2, <1>3, <1>4, CustodyFrame
<1>6. CustodyOf' = CustodyOf
  BY <1>5 DEF CustodyOf
<1> QED
  BY <1>2, <1>6 DEF Custody!custodyVars

\* The batch an escrow is funded with was checked row by row.
FundsValid(e) ==
  \E m \in Accounts, b \in Batches :
    Custody!Fund(e, m, b) /\ \A i \in DOMAIN b : ValidRow(b[i])

\* Every step of the contract is one of EscrowCustody, or moves no money.
LEMMA CustodyMoves ==
  ASSUME TypeOK, TypeOK', ControlInv, [Next]_vars
  PROVE  \/ \E e \in EscrowIds : FundsValid(e) \/ Custody!Settle(e) \/ Custody!Refund(e)
         \/ UNCHANGED Custody!custodyVars
<1>1. CASE AdminNext \/ UNCHANGED vars
  <2>1. UNCHANGED <<escrows, balances>>
    BY <1>1 DEF AdminNext, InitAdmin, ProposeAdmin, AcceptAdmin, SetPaused, Upgrade,
           RegisterOracleKey, RevokeOracleKey, vars
  <2> QED
    BY <2>1 DEF Custody!custodyVars, CustodyOf, Exists, Finalized
<1>2. CASE \E m, f \in Accounts, k \in OracleKeys, b \in Batches :
             InitializeMultiSigEscrow(m, f, k, b)
  <2>1. PICK m, f \in Accounts, k \in OracleKeys, b \in Batches :
          InitializeMultiSigEscrow(m, f, k, b)
    BY <1>2
  <2>2. PICK id \in EscrowIds : Custody!Fund(id, m, b)
    BY <2>1, CustodyInitialize
  <2>3. FundsValid(id)
    BY <2>1, <2>2 DEF FundsValid, InitializeMultiSigEscrow
  <2> QED
    BY <2>3
<1>3. CASE \E e \in EscrowIds : PayBatch(e)
  BY <1>3, CustodyPay
<1>4. CASE \E e \in EscrowIds : CancelEscrow(e)
  BY <1>4, CustodyCancel
<1>5. CASE \E s \in Attestations : SubmitHoursProof(s)
  <2>1. \A s \in Attestations : s.escrow \in EscrowIds
    BY DEF Attestations
  <2> QED
    BY <1>5, <2>1, CustodyOthers
<1>6. CASE \E e \in EscrowIds, k \in OracleKeys : RotateOracleKey(e, k)
  BY <1>6, CustodyOthers
<1>7. CASE \E e \in EscrowIds, a \in Accounts : ManagerApprove(e, a) \/ FinanceApprove(e, a)
  BY <1>7, CustodyOthers
<1> QED
  BY <1>1, <1>2, <1>3, <1>4, <1>5, <1>6, <1>7 DEF Next, EscrowNext

LEMMA CustodyStep ==
  TypeOK /\ TypeOK' /\ ControlInv /\ [Next]_vars => [Custody!CustodyNext]_(Custody!custodyVars)
  BY CustodyMoves DEF FundsValid, Custody!CustodyNext

\* Money enters custody once per escrow and leaves it at most once, whole, to
\* the workers or back to the manager (initialize_multi_sig_escrow, pay_batch,
\* cancel_escrow): the contract implements EscrowCustody.
THEOREM CustodyImplemented == Spec => ImplementsCustody
<1>1. Init => Custody!CustodyInit
  <2> SUFFICES ASSUME Init PROVE Custody!CustodyInit
    OBVIOUS
  <2>1. \A e \in EscrowIds : ~Exists(e)
    BY DEF Init, Exists
  <2>2. CustodyOf = [e \in EscrowIds |-> [state |-> "unfunded"]]
    BY <2>1 DEF CustodyOf
  <2> QED
    BY <2>2 DEF Init, Custody!CustodyInit, Custody!Unfunded
<1> QED
  BY <1>1, CustodyStep, TypeCorrect, ControlHolds, PTL DEF Spec, ImplementsCustody, Custody!CustodySpec

------------------------------------------------------------------------------
\* Where the money is.  Balances are sums over escrows, of which a step of
\* EscrowCustody changes one term; the rest of the contract does not matter.

\* What one escrow adds to the contract's balance, takes from a and gives to a.
InCustody(c, t) == IF c.state = "held" THEN Total(c.rows, t) ELSE 0
TakenFrom(c, a, t) ==
  IF c.state \in {"held", "settled"} /\ c.payer = a THEN Total(c.rows, t) ELSE 0
GivenTo(c, a, t) == IF c.state = "settled" THEN Owed(c.rows, a, t) ELSE 0

Held(t) == [e \in EscrowIds |-> InCustody(CustodyOf[e], t)]
Spent(a, t) == [e \in EscrowIds |-> TakenFrom(CustodyOf[e], a, t)]
Earned(a, t) == [e \in EscrowIds |-> GivenTo(CustodyOf[e], a, t)]
OverEscrows(f) == SumFunctionOnSet(f, EscrowIds)

Explained ==
  \A t \in Tokens :
    /\ balances[Contract][t] = InitialBalances[Contract][t] + OverEscrows(Held(t))
    /\ \A a \in Accounts :
         balances[a][t] = InitialBalances[a][t] - OverEscrows(Spent(a, t))
                                               + OverEscrows(Earned(a, t))

\* What was cancelled is not settled, so the property says the same.
LEMMA ExplainedIs ==
  ASSUME TypeOK, ControlInv
  PROVE  BalancesExplained <=> Explained
<1>1. \A e \in EscrowIds : Exists(e) /\ escrows[e].cancelled => ~Finalized(e)
  BY DEF ControlInv, Controlled, Finalized
<1>2. ASSUME NEW t \in Tokens
      PROVE  Held(t) = [e \in EscrowIds |->
               IF Open(e) THEN Total(escrows[e].payments, t) ELSE 0]
  BY DEF Held, InCustody, CustodyOf, Open
<1>3. ASSUME NEW t \in Tokens, NEW a \in Accounts
      PROVE  /\ Spent(a, t) = [e \in EscrowIds |->
                  IF Exists(e) /\ escrows[e].manager = a /\ ~escrows[e].cancelled
                  THEN Total(escrows[e].payments, t) ELSE 0]
             /\ Earned(a, t) = [e \in EscrowIds |->
                  IF Exists(e) /\ Finalized(e) THEN Owed(escrows[e].payments, a, t) ELSE 0]
  <2>1. \A e \in EscrowIds : TakenFrom(CustodyOf[e], a, t) =
          IF Exists(e) /\ escrows[e].manager = a /\ ~escrows[e].cancelled
          THEN Total(escrows[e].payments, t) ELSE 0
    BY DEF TakenFrom, CustodyOf
  <2>2. \A e \in EscrowIds : GivenTo(CustodyOf[e], a, t) =
          IF Exists(e) /\ Finalized(e) THEN Owed(escrows[e].payments, a, t) ELSE 0
    BY <1>1 DEF GivenTo, CustodyOf
  <2> QED
    BY <2>1, <2>2 DEF Spent, Earned
<1>4. ASSUME NEW t \in Tokens, NEW a \in Accounts
      PROVE  /\ SumFunction(Held(t)) = OverEscrows(Held(t))
             /\ SumFunction(Spent(a, t)) = OverEscrows(Spent(a, t))
             /\ SumFunction(Earned(a, t)) = OverEscrows(Earned(a, t))
  <2>1. /\ DOMAIN Held(t) = EscrowIds /\ DOMAIN Spent(a, t) = EscrowIds
        /\ DOMAIN Earned(a, t) = EscrowIds
    BY DEF Held, Spent, Earned
  <2> QED
    BY <2>1 DEF SumFunction, OverEscrows
<1>5. ASSUME NEW t \in Tokens PROVE SumFunction(Held(t)) = OverEscrows(Held(t))
  <2>1. DOMAIN Held(t) = EscrowIds
    BY DEF Held
  <2> QED
    BY <2>1 DEF SumFunction, OverEscrows
<1> QED
  BY <1>2, <1>3, <1>4, <1>5 DEF BalancesExplained, Explained

\* A batch has finitely many rows, of whole amounts.
LEMMA TotalTyped ==
  ASSUME NEW b \in Batches, NEW t, NEW a
  PROVE  Total(b, t) \in Int /\ Owed(b, a, t) \in Int
<1>1. b \in Seq(PaymentSchedule)
  BY ContractAssumption
<1>2. IsFiniteSet(DOMAIN b)
  <2>1. Len(b) \in Nat /\ DOMAIN b = 1 .. Len(b)
    BY <1>1
  <2> QED
    BY <2>1, FS_Interval
<1>3. \A i \in DOMAIN b : b[i].amount \in Int
  <2>1. \A i \in DOMAIN b : b[i] \in PaymentSchedule
    BY <1>1
  <2> QED
    BY <2>1 DEF PaymentSchedule
<1> DEFINE f == [i \in DOMAIN b |-> IF b[i].token = t THEN b[i].amount ELSE 0]
           g == [i \in DOMAIN b |-> IF b[i].token = t /\ b[i].worker = a THEN b[i].amount ELSE 0]
<1>4. \A i \in DOMAIN b : f[i] \in Int /\ g[i] \in Int
  BY <1>3
<1>5. DOMAIN f = DOMAIN b /\ DOMAIN g = DOMAIN b
  OBVIOUS
<1>6. Total(b, t) = SumFunctionOnSet(f, DOMAIN b) /\ Owed(b, a, t) = SumFunctionOnSet(g, DOMAIN b)
  BY <1>5 DEF Total, Owed, SumFunction
<1> HIDE DEF f, g
<1> QED
  BY <1>2, <1>4, <1>6, SumTyped

\* What an escrow adds, takes and gives is a whole amount.
LEMMA TermTyped ==
  ASSUME NEW c, c.state # "unfunded" => c.rows \in Batches, NEW t, NEW a
  PROVE  InCustody(c, t) \in Int /\ TakenFrom(c, a, t) \in Int /\ GivenTo(c, a, t) \in Int
<1>1. c.rows \in Batches => Total(c.rows, t) \in Int /\ Owed(c.rows, a, t) \in Int
  BY TotalTyped
<1> QED
  BY <1>1 DEF InCustody, TakenFrom, GivenTo

LEMMA EscrowsFinite == IsFiniteSet(EscrowIds)
  BY ContractAssumption, FS_Interval DEF EscrowIds

LEMMA CustodyRows ==
  ASSUME TypeOK
  PROVE  \A e \in EscrowIds : CustodyOf[e].state # "unfunded" => CustodyOf[e].rows \in Batches
BY StoredBatch DEF CustodyOf

\* One escrow changes what each sum comes to by its own term.
LEMMA OneEscrowChanges ==
  ASSUME TypeOK, NEW e \in EscrowIds, NEW k, k.state # "unfunded", k.rows \in Batches,
         CustodyOf' = [CustodyOf EXCEPT ![e] = k], NEW t, NEW a
  PROVE  /\ OverEscrows(Held(t))' =
              OverEscrows(Held(t)) + (InCustody(k, t) - InCustody(CustodyOf[e], t))
         /\ OverEscrows(Spent(a, t))' =
              OverEscrows(Spent(a, t)) + (TakenFrom(k, a, t) - TakenFrom(CustodyOf[e], a, t))
         /\ OverEscrows(Earned(a, t))' =
              OverEscrows(Earned(a, t)) + (GivenTo(k, a, t) - GivenTo(CustodyOf[e], a, t))
         /\ OverEscrows(Held(t)) \in Int
         /\ OverEscrows(Spent(a, t)) \in Int
         /\ OverEscrows(Earned(a, t)) \in Int
<1>1. CustodyOf'[e] = k /\ \A x \in EscrowIds \ {e} : CustodyOf'[x] = CustodyOf[x]
  BY DEF CustodyOf
<1>2. \A x \in EscrowIds :
        /\ InCustody(CustodyOf[x], t) \in Int
        /\ TakenFrom(CustodyOf[x], a, t) \in Int
        /\ GivenTo(CustodyOf[x], a, t) \in Int
  BY CustodyRows, TermTyped
<1>3. InCustody(k, t) \in Int /\ TakenFrom(k, a, t) \in Int /\ GivenTo(k, a, t) \in Int
  BY TermTyped
<1>4. ASSUME NEW f, NEW g, \A x \in EscrowIds : f[x] \in Int, g[e] \in Int,
             \A x \in EscrowIds \ {e} : g[x] = f[x]
      PROVE  OverEscrows(g) = OverEscrows(f) + (g[e] - f[e]) /\ OverEscrows(f) \in Int
  <2>1. \A x \in EscrowIds : f[x] \in Int /\ g[x] \in Int
    BY <1>4
  <2>2. OverEscrows(f) \in Int
    BY <2>1, EscrowsFinite, SumTyped DEF OverEscrows
  <2>3. SumFunctionOnSet(g, EscrowIds) = SumFunctionOnSet(f, EscrowIds) + (g[e] - f[e])
    BY <1>4, <2>1, EscrowsFinite, SumUpdated
  <2> QED
    BY <2>2, <2>3 DEF OverEscrows
<1>5. /\ OverEscrows(Held(t)') = OverEscrows(Held(t)) + (InCustody(k, t) - InCustody(CustodyOf[e], t))
      /\ OverEscrows(Held(t)) \in Int
  <2> DEFINE f == Held(t)
             g == Held(t)'
  <2>1. \A x \in EscrowIds : f[x] = InCustody(CustodyOf[x], t)
    BY DEF Held
  <2>2. g[e] = InCustody(k, t) /\ \A x \in EscrowIds \ {e} : g[x] = InCustody(CustodyOf[x], t)
    BY <1>1 DEF Held, InCustody
  <2> HIDE DEF f, g
  <2>3. OverEscrows(g) = OverEscrows(f) + (g[e] - f[e]) /\ OverEscrows(f) \in Int
    BY <1>2, <1>3, <1>4, <2>1, <2>2
  <2> QED
    BY <2>1, <2>2, <2>3 DEF f, g
<1>6. /\ OverEscrows(Spent(a, t)') =
           OverEscrows(Spent(a, t)) + (TakenFrom(k, a, t) - TakenFrom(CustodyOf[e], a, t))
      /\ OverEscrows(Spent(a, t)) \in Int
  <2> DEFINE f == Spent(a, t)
             g == Spent(a, t)'
  <2>1. \A x \in EscrowIds : f[x] = TakenFrom(CustodyOf[x], a, t)
    BY DEF Spent
  <2>2. g[e] = TakenFrom(k, a, t) /\ \A x \in EscrowIds \ {e} : g[x] = TakenFrom(CustodyOf[x], a, t)
    BY <1>1 DEF Spent, TakenFrom
  <2> HIDE DEF f, g
  <2>3. OverEscrows(g) = OverEscrows(f) + (g[e] - f[e]) /\ OverEscrows(f) \in Int
    BY <1>2, <1>3, <1>4, <2>1, <2>2
  <2> QED
    BY <2>1, <2>2, <2>3 DEF f, g
<1>7. /\ OverEscrows(Earned(a, t)') =
           OverEscrows(Earned(a, t)) + (GivenTo(k, a, t) - GivenTo(CustodyOf[e], a, t))
      /\ OverEscrows(Earned(a, t)) \in Int
  <2> DEFINE f == Earned(a, t)
             g == Earned(a, t)'
  <2>1. \A x \in EscrowIds : f[x] = GivenTo(CustodyOf[x], a, t)
    BY DEF Earned
  <2>2. g[e] = GivenTo(k, a, t) /\ \A x \in EscrowIds \ {e} : g[x] = GivenTo(CustodyOf[x], a, t)
    BY <1>1 DEF Earned, GivenTo
  <2> HIDE DEF f, g
  <2>3. OverEscrows(g) = OverEscrows(f) + (g[e] - f[e]) /\ OverEscrows(f) \in Int
    BY <1>2, <1>3, <1>4, <2>1, <2>2
  <2> QED
    BY <2>1, <2>2, <2>3 DEF f, g
<1> QED
  BY <1>5, <1>6, <1>7 DEF OverEscrows

\* The balances change as an escrow goes from c to k.
MovedBy(c, k) ==
  \A t \in Tokens :
    /\ balances'[Contract][t] = balances[Contract][t] + (InCustody(k, t) - InCustody(c, t))
    /\ \A a \in Accounts : balances'[a][t] =
         balances[a][t] - (TakenFrom(k, a, t) - TakenFrom(c, a, t))
                        + (GivenTo(k, a, t) - GivenTo(c, a, t))

\* So the sums explain the balances again once these changed by as much.
LEMMA ExplainedAgain ==
  ASSUME TypeOK, Explained,
         NEW e \in EscrowIds, NEW k, k.state # "unfunded", k.rows \in Batches,
         CustodyOf' = [CustodyOf EXCEPT ![e] = k],
         MovedBy(CustodyOf[e], k)
  PROVE  Explained'
<1>1. ASSUME NEW x, NEW t \in Tokens
      PROVE  /\ InCustody(k, t) \in Int /\ InCustody(CustodyOf[e], t) \in Int
             /\ TakenFrom(k, x, t) \in Int /\ TakenFrom(CustodyOf[e], x, t) \in Int
             /\ GivenTo(k, x, t) \in Int /\ GivenTo(CustodyOf[e], x, t) \in Int
  BY CustodyRows, TermTyped
<1>2. \A h \in Holders, t \in Tokens : InitialBalances[h][t] \in Int
  BY ContractAssumption DEF Balances, Amounts
<1>3. ASSUME NEW t \in Tokens
      PROVE  balances'[Contract][t] = InitialBalances[Contract][t] + OverEscrows(Held(t))'
  <2>1. /\ OverEscrows(Held(t))' =
             OverEscrows(Held(t)) + (InCustody(k, t) - InCustody(CustodyOf[e], t))
        /\ OverEscrows(Held(t)) \in Int
    BY OneEscrowChanges
  <2>2. balances[Contract][t] = InitialBalances[Contract][t] + OverEscrows(Held(t))
    BY DEF Explained
  <2>3. InitialBalances[Contract][t] \in Int
    BY <1>2 DEF Holders
  <2>4. InCustody(k, t) \in Int /\ InCustody(CustodyOf[e], t) \in Int
    BY <1>1
  <2>5. balances'[Contract][t] =
          balances[Contract][t] + (InCustody(k, t) - InCustody(CustodyOf[e], t))
    BY DEF MovedBy
  <2> QED
    BY <2>1, <2>2, <2>3, <2>4, <2>5
<1>4. ASSUME NEW t \in Tokens, NEW a \in Accounts
      PROVE  balances'[a][t] = InitialBalances[a][t] - OverEscrows(Spent(a, t))'
                                                     + OverEscrows(Earned(a, t))'
  <2>1. /\ OverEscrows(Spent(a, t))' =
             OverEscrows(Spent(a, t)) + (TakenFrom(k, a, t) - TakenFrom(CustodyOf[e], a, t))
        /\ OverEscrows(Spent(a, t)) \in Int
    BY OneEscrowChanges
  <2>2. /\ OverEscrows(Earned(a, t))' =
             OverEscrows(Earned(a, t)) + (GivenTo(k, a, t) - GivenTo(CustodyOf[e], a, t))
        /\ OverEscrows(Earned(a, t)) \in Int
    BY OneEscrowChanges
  <2>3. balances[a][t] = InitialBalances[a][t] - OverEscrows(Spent(a, t)) + OverEscrows(Earned(a, t))
    BY DEF Explained
  <2>4. InitialBalances[a][t] \in Int
    BY <1>2 DEF Holders
  <2>5. balances'[a][t] = balances[a][t] - (TakenFrom(k, a, t) - TakenFrom(CustodyOf[e], a, t))
                                          + (GivenTo(k, a, t) - GivenTo(CustodyOf[e], a, t))
    BY DEF MovedBy
  <2> QED
    BY <1>1, <2>1, <2>2, <2>3, <2>4, <2>5
<1> QED
  BY <1>3, <1>4 DEF Explained

\* Paying in: custody and the payer's debt grow by the total of the batch.
LEMMA ExplainedByFunding ==
  ASSUME TypeOK, Explained, NEW e \in EscrowIds, NEW m \in Accounts, NEW b \in Batches,
         Custody!Fund(e, m, b)
  PROVE  Explained'
<1> DEFINE k == [state |-> "held", payer |-> m, rows |-> b]
<1>1. CustodyOf' = [CustodyOf EXCEPT ![e] = k] /\ CustodyOf[e].state = "unfunded"
  BY DEF Custody!Fund, Custody!Unfunded
<1>2. balances' = Deposit(balances, m, b)
  BY SameLedger DEF Custody!Fund
<1>3. m # Contract /\ m \in Holders /\ Contract \in Holders /\ balances \in [Holders -> [Tokens -> Amounts]]
  BY TokenAssumption DEF Holders, TypeOK, Balances
<1>4. ASSUME NEW t \in Tokens
      PROVE  /\ balances'[Contract][t] =
                  balances[Contract][t] + (InCustody(k, t) - InCustody(CustodyOf[e], t))
             /\ \A a \in Accounts : balances'[a][t] =
                  balances[a][t] - (TakenFrom(k, a, t) - TakenFrom(CustodyOf[e], a, t))
                                 + (GivenTo(k, a, t) - GivenTo(CustodyOf[e], a, t))
  <2> DEFINE T == Total(b, t)
  <2>1. T \in Int
    BY TotalTyped
  <2>2. /\ balances'[Contract][t] = balances[Contract][t] + T
        /\ \A a \in Accounts : balances'[a][t] = balances[a][t] - (IF m = a THEN T ELSE 0)
    <3>1. balances'[m] = [x \in Tokens |-> balances[m][x] - Total(b, x)]
      BY <1>2, <1>3 DEF Deposit
    <3>2. balances'[Contract] = [x \in Tokens |-> balances[Contract][x] + Total(b, x)]
      BY <1>2, <1>3 DEF Deposit
    <3>3. ASSUME NEW a \in Accounts, a # m PROVE balances'[a] = balances[a]
      BY <1>2, <1>3, <3>3, TokenAssumption DEF Deposit, Holders
    <3>4. \A a \in Accounts : balances[a][t] \in Int
      BY <1>3 DEF Holders, Amounts
    <3> QED
      BY <3>1, <3>2, <3>3, <3>4
  <2>3. InCustody(k, t) = T /\ InCustody(CustodyOf[e], t) = 0
    BY <1>1 DEF InCustody
  <2>4. \A a : /\ TakenFrom(k, a, t) = IF m = a THEN T ELSE 0
               /\ TakenFrom(CustodyOf[e], a, t) = 0
               /\ GivenTo(k, a, t) = 0 /\ GivenTo(CustodyOf[e], a, t) = 0
    BY <1>1 DEF TakenFrom, GivenTo
  <2>5. \A h \in Holders : balances[h][t] \in Int
    BY <1>3 DEF Amounts
  <2> HIDE DEF T, k
  <2> QED
    BY <2>1, <2>2, <2>3, <2>4, <2>5 DEF Holders
<1> QED
  BY <1>1, <1>4, ExplainedAgain DEF MovedBy

\* What is held is held of somebody who paid a batch in.
LEMMA HeldRecord ==
  ASSUME TypeOK, NEW e \in EscrowIds, CustodyOf[e].state = "held"
  PROVE  LET c == CustodyOf[e] IN
         /\ c = [state |-> "held", payer |-> c.payer, rows |-> c.rows]
         /\ c.payer \in Accounts /\ c.rows \in Batches
<1>1. Exists(e)
  BY DEF CustodyOf
<1>2. escrows[e].manager \in Accounts /\ escrows[e].payments \in Batches
  BY <1>1, StoredBatch, EscrowFields
<1> QED
  BY <1>1, <1>2 DEF CustodyOf

\* Paying out: custody shrinks by the total, the workers earn what is theirs.
LEMMA ExplainedBySettling ==
  ASSUME TypeOK, Explained, NEW e \in EscrowIds, Custody!Settle(e)
  PROVE  Explained'
<1> DEFINE c == CustodyOf[e]
           k == [state |-> "settled", payer |-> c.payer, rows |-> c.rows]
<1>1. /\ c = [state |-> "held", payer |-> c.payer, rows |-> c.rows]
      /\ c.payer \in Accounts /\ c.rows \in Batches
  BY HeldRecord DEF Custody!Settle
<1>2. CustodyOf' = [CustodyOf EXCEPT ![e] = k]
  <2>1. [c EXCEPT !.state = "settled"] = k
    <3> HIDE DEF c
    <3> QED
      BY <1>1
  <2>2. CustodyOf' = [CustodyOf EXCEPT ![e] = [c EXCEPT !.state = "settled"]]
    BY DEF Custody!Settle
  <2> QED
    BY <2>1, <2>2
<1>3. balances' = PayOut(balances, c.rows)
  BY SameLedger DEF Custody!Settle
<1>4. ASSUME NEW t \in Tokens
      PROVE  /\ balances'[Contract][t] = balances[Contract][t] + (InCustody(k, t) - InCustody(c, t))
             /\ \A a \in Accounts : balances'[a][t] =
                  balances[a][t] - (TakenFrom(k, a, t) - TakenFrom(c, a, t))
                                 + (GivenTo(k, a, t) - GivenTo(c, a, t))
  <2> DEFINE T == Total(c.rows, t)
  <2>1. T \in Int /\ \A a : Owed(c.rows, a, t) \in Int
    BY <1>1, TotalTyped
  <2>2. /\ balances'[Contract][t] = balances[Contract][t] - T
        /\ \A a \in Accounts : balances'[a][t] = balances[a][t] + Owed(c.rows, a, t)
    BY <1>3, TokenAssumption DEF PayOut, Holders
  <2>3. InCustody(k, t) = 0 /\ InCustody(c, t) = T
    BY <1>1 DEF InCustody
  <2>4. \A a : /\ TakenFrom(k, a, t) = IF c.payer = a THEN T ELSE 0
               /\ TakenFrom(c, a, t) = IF c.payer = a THEN T ELSE 0
               /\ GivenTo(k, a, t) = Owed(c.rows, a, t) /\ GivenTo(c, a, t) = 0
    BY <1>1 DEF TakenFrom, GivenTo
  <2>5. \A h \in Holders : balances[h][t] \in Int
    BY DEF TypeOK, Balances, Amounts
  <2> HIDE DEF T, k, c
  <2> QED
    BY <2>1, <2>2, <2>3, <2>4, <2>5 DEF Holders
<1>5. k.state # "unfunded" /\ k.rows \in Batches
  BY <1>1
<1> QED
  BY <1>2, <1>4, <1>5, ExplainedAgain DEF MovedBy

\* Giving back: custody shrinks by the total, and so does the payer's debt.
LEMMA ExplainedByRefunding ==
  ASSUME TypeOK, Explained, NEW e \in EscrowIds, Custody!Refund(e)
  PROVE  Explained'
<1> DEFINE c == CustodyOf[e]
           m == c.payer
           k == [state |-> "refunded", payer |-> c.payer, rows |-> c.rows]
<1>1. /\ c = [state |-> "held", payer |-> c.payer, rows |-> c.rows]
      /\ c.payer \in Accounts /\ c.rows \in Batches
  BY HeldRecord DEF Custody!Refund
<1>2. CustodyOf' = [CustodyOf EXCEPT ![e] = k]
  <2>1. [c EXCEPT !.state = "refunded"] = k
    <3> HIDE DEF c
    <3> QED
      BY <1>1
  <2>2. CustodyOf' = [CustodyOf EXCEPT ![e] = [c EXCEPT !.state = "refunded"]]
    BY DEF Custody!Refund
  <2> QED
    BY <2>1, <2>2
<1>3. balances' = GiveBack(balances, m, c.rows)
  BY SameLedger DEF Custody!Refund
<1>4. m # Contract /\ m \in Holders /\ Contract \in Holders /\ balances \in [Holders -> [Tokens -> Amounts]]
  BY <1>1, TokenAssumption DEF Holders, TypeOK, Balances
<1>5. ASSUME NEW t \in Tokens
      PROVE  /\ balances'[Contract][t] = balances[Contract][t] + (InCustody(k, t) - InCustody(c, t))
             /\ \A a \in Accounts : balances'[a][t] =
                  balances[a][t] - (TakenFrom(k, a, t) - TakenFrom(c, a, t))
                                 + (GivenTo(k, a, t) - GivenTo(c, a, t))
  <2> DEFINE T == Total(c.rows, t)
  <2>1. T \in Int
    BY <1>1, TotalTyped
  <2>2. /\ balances'[Contract][t] = balances[Contract][t] - T
        /\ \A a \in Accounts : balances'[a][t] = balances[a][t] + (IF m = a THEN T ELSE 0)
    <3> HIDE DEF c, m
    <3>1. balances'[m] = [x \in Tokens |-> balances[m][x] + Total(c.rows, x)]
      BY <1>3, <1>4 DEF GiveBack
    <3>2. balances'[Contract] = [x \in Tokens |-> balances[Contract][x] - Total(c.rows, x)]
      BY <1>3, <1>4 DEF GiveBack
    <3>3. ASSUME NEW a \in Accounts, a # m PROVE balances'[a] = balances[a]
      BY <1>3, <1>4, <3>3, TokenAssumption DEF GiveBack, Holders
    <3>4. \A a \in Accounts : balances[a][t] \in Int
      BY <1>4 DEF Holders, Amounts
    <3> QED
      BY <3>1, <3>2, <3>3, <3>4
  <2>3. InCustody(k, t) = 0 /\ InCustody(c, t) = T
    BY <1>1 DEF InCustody
  <2>4. \A a : /\ TakenFrom(k, a, t) = 0
               /\ TakenFrom(c, a, t) = IF m = a THEN T ELSE 0
               /\ GivenTo(k, a, t) = 0 /\ GivenTo(c, a, t) = 0
    BY <1>1 DEF TakenFrom, GivenTo
  <2>5. \A h \in Holders : balances[h][t] \in Int
    BY <1>4 DEF Amounts
  <2> HIDE DEF T, k, c, m
  <2> QED
    BY <2>1, <2>2, <2>3, <2>4, <2>5 DEF Holders
<1>6. k.state # "unfunded" /\ k.rows \in Batches
  BY <1>1
<1> QED
  BY <1>2, <1>5, <1>6, ExplainedAgain DEF MovedBy

LEMMA ExplainedInitially == Init => Explained
<1> SUFFICES ASSUME Init PROVE Explained
  OBVIOUS
<1>1. \A e \in EscrowIds : CustodyOf[e].state = "unfunded"
  BY DEF Init, CustodyOf, Exists
<1>2. ASSUME NEW t, NEW a
      PROVE  /\ OverEscrows(Held(t)) = 0
             /\ OverEscrows(Spent(a, t)) = 0 /\ OverEscrows(Earned(a, t)) = 0
  <2>1. \A e \in EscrowIds : /\ Held(t)[e] = 0 /\ Spent(a, t)[e] = 0 /\ Earned(a, t)[e] = 0
    BY <1>1 DEF Held, Spent, Earned, InCustody, TakenFrom, GivenTo
  <2> QED
    BY <2>1, EscrowsFinite, SumOfZeros DEF OverEscrows
<1>3. \A h \in Holders, t \in Tokens : balances[h][t] = InitialBalances[h][t] /\ balances[h][t] \in Int
  BY ContractAssumption DEF Init, Balances, Amounts
<1> QED
  BY <1>2, <1>3 DEF Explained, Holders

LEMMA ExplainedStep ==
  TypeOK /\ TypeOK' /\ ControlInv /\ Explained /\ [Next]_vars => Explained'
<1> SUFFICES ASSUME TypeOK, TypeOK', ControlInv, Explained, [Next]_vars PROVE Explained'
  OBVIOUS
<1>1. Custody!CustodyNext \/ UNCHANGED Custody!custodyVars
  BY CustodyStep
<1>2. CASE Custody!CustodyNext
  BY <1>2, ExplainedByFunding, ExplainedBySettling, ExplainedByRefunding DEF Custody!CustodyNext
<1>3. CASE UNCHANGED Custody!custodyVars
  BY <1>3 DEF Custody!custodyVars, Explained, Held, Spent, Earned, OverEscrows
<1> QED
  BY <1>1, <1>2, <1>3

\* Custody holds what the open escrows deposited, and every account what it
\* began with, less what its escrows took and were not refunded, plus what it
\* earned: nothing is paid twice, refunded and paid, or taken from another
\* escrow's deposit, for any number of escrows (initialize_multi_sig_escrow,
\* pay_batch, cancel_escrow).
THEOREM BalancesAreExplained == Spec => []BalancesExplained
<1>1. TypeOK /\ ControlInv /\ Explained => BalancesExplained
  BY ExplainedIs
<1> QED
  BY <1>1, ExplainedInitially, ExplainedStep, TypeCorrect, ControlHolds, PTL DEF Spec

------------------------------------------------------------------------------
\* What an open escrow deposited is there, so that no refund fails for want of
\* money: no deposit is negative, hence none is larger than all together.
RowsPositive ==
  \A e \in EscrowIds : CustodyOf[e].state # "unfunded" =>
    \A i \in DOMAIN CustodyOf[e].rows : CustodyOf[e].rows[i].amount > 0
DepositsCovered ==
  \A e \in EscrowIds, t \in Tokens :
    Open(e) => Total(escrows[e].payments, t) <= balances[Contract][t]

LEMMA RowsPositiveStep ==
  TypeOK /\ TypeOK' /\ ControlInv /\ RowsPositive /\ [Next]_vars => RowsPositive'
<1> SUFFICES ASSUME TypeOK, TypeOK', ControlInv, RowsPositive, [Next]_vars PROVE RowsPositive'
  OBVIOUS
<1>1. ASSUME NEW e \in EscrowIds, FundsValid(e) PROVE RowsPositive'
  <2>1. PICK m \in Accounts, b \in Batches :
          Custody!Fund(e, m, b) /\ \A i \in DOMAIN b : ValidRow(b[i])
    BY <1>1 DEF FundsValid
  <2>2. CustodyOf' = [CustodyOf EXCEPT ![e] = [state |-> "held", payer |-> m, rows |-> b]]
    BY <2>1 DEF Custody!Fund
  <2>3. /\ CustodyOf'[e].rows = b
        /\ \A x \in EscrowIds : x # e => CustodyOf'[x] = CustodyOf[x]
    BY <2>2 DEF CustodyOf
  <2>4. \A i \in DOMAIN b : b[i].amount > 0
    BY <2>1 DEF ValidRow
  <2> HIDE DEF ValidRow
  <2> QED
    BY <2>3, <2>4 DEF RowsPositive
<1>2. ASSUME NEW e \in EscrowIds, Custody!Settle(e) \/ Custody!Refund(e) PROVE RowsPositive'
  <2>1. CustodyOf[e].state = "held"
    BY <1>2 DEF Custody!Settle, Custody!Refund
  <2>2. PICK s : CustodyOf' = [CustodyOf EXCEPT ![e] = [CustodyOf[e] EXCEPT !.state = s]]
    BY <1>2 DEF Custody!Settle, Custody!Refund
  <2> DEFINE c == CustodyOf[e]
  <2>3. c = [state |-> "held", payer |-> c.payer, rows |-> c.rows]
    BY <2>1, HeldRecord
  <2>4. [c EXCEPT !.state = s].rows = c.rows
    <3> HIDE DEF c
    <3> QED
      BY <2>3
  <2>5. /\ CustodyOf'[e].rows = c.rows
        /\ \A x \in EscrowIds : x # e => CustodyOf'[x] = CustodyOf[x]
    BY <2>2, <2>4 DEF CustodyOf
  <2> QED
    BY <2>1, <2>5 DEF RowsPositive
<1>3. CASE UNCHANGED Custody!custodyVars
  BY <1>3 DEF Custody!custodyVars, RowsPositive
<1> QED
  BY <1>1, <1>2, <1>3, CustodyMoves

LEMMA TotalPositive ==
  ASSUME NEW b \in Batches, \A i \in DOMAIN b : b[i].amount > 0, NEW t
  PROVE  Total(b, t) >= 0
<1>1. b \in Seq(PaymentSchedule)
  BY ContractAssumption
<1>2. Len(b) \in Nat /\ DOMAIN b = 1 .. Len(b)
  BY <1>1
<1>3. IsFiniteSet(DOMAIN b)
  BY <1>2, FS_Interval
<1>4. \A i \in DOMAIN b : b[i].amount \in Nat
  <2>1. \A i \in DOMAIN b : b[i] \in PaymentSchedule
    BY <1>1
  <2>2. \A i \in DOMAIN b : b[i].amount \in Int
    BY <2>1 DEF PaymentSchedule
  <2> QED
    BY <2>2
<1> DEFINE f == [i \in DOMAIN b |-> IF b[i].token = t THEN b[i].amount ELSE 0]
<1>5. Total(b, t) = SumFunctionOnSet(f, DOMAIN b)
  <2>1. DOMAIN f = DOMAIN b
    OBVIOUS
  <2> QED
    BY <2>1 DEF Total, SumFunction
<1>6. \A i \in DOMAIN b : f[i] \in Nat
  BY <1>4
<1> HIDE DEF f
<1>7. CASE DOMAIN b = {}
  BY <1>3, <1>5, <1>7, SumOfZeros
<1>8. CASE DOMAIN b # {}
  <2>1. PICK i \in DOMAIN b : TRUE
    BY <1>8
  <2>2. f[i] <= SumFunctionOnSet(f, DOMAIN b)
    BY <1>3, <1>6, SumCovers
  <2>3. Total(b, t) \in Int
    BY TotalTyped
  <2> QED
    BY <1>5, <1>6, <2>2, <2>3
<1> QED
  BY <1>7, <1>8

LEMMA Covered ==
  ASSUME TypeOK, ControlInv, Explained, RowsPositive
  PROVE  DepositsCovered
<1> SUFFICES ASSUME NEW e \in EscrowIds, NEW t \in Tokens, Open(e)
             PROVE  Total(escrows[e].payments, t) <= balances[Contract][t]
  BY DEF DepositsCovered
<1>1. \A x \in EscrowIds : InCustody(CustodyOf[x], t) \in Nat
  <2> SUFFICES ASSUME NEW x \in EscrowIds, CustodyOf[x].state = "held"
               PROVE  Total(CustodyOf[x].rows, t) \in Nat
    BY DEF InCustody
  <2>1. CustodyOf[x].rows \in Batches
    BY CustodyRows
  <2>2. \A i \in DOMAIN CustodyOf[x].rows : CustodyOf[x].rows[i].amount > 0
    BY DEF RowsPositive
  <2>3. Total(CustodyOf[x].rows, t) \in Int
    BY <2>1, TotalTyped
  <2>4. Total(CustodyOf[x].rows, t) >= 0
    BY <2>1, <2>2, TotalPositive
  <2> QED
    BY <2>3, <2>4
<1>2. InCustody(CustodyOf[e], t) = Total(escrows[e].payments, t)
  BY DEF InCustody, CustodyOf, Open
<1> DEFINE f == Held(t)
<1>3. \A x \in EscrowIds : f[x] = InCustody(CustodyOf[x], t)
  BY DEF Held
<1>4. balances[Contract][t] = InitialBalances[Contract][t] + SumFunctionOnSet(f, EscrowIds)
  BY DEF Explained, OverEscrows
<1> HIDE DEF f
<1>5. f[e] <= SumFunctionOnSet(f, EscrowIds)
  BY <1>1, <1>3, EscrowsFinite, SumCovers
<1>6. f[e] \in Int /\ SumFunctionOnSet(f, EscrowIds) \in Int
  BY <1>1, <1>3, EscrowsFinite, SumTyped
<1>7. InitialBalances[Contract][t] \in Nat
  BY ContractAssumption, TokenAssumption DEF Balances, Amounts, Holders
<1> QED
  BY <1>2, <1>3, <1>4, <1>5, <1>6, <1>7

\* Whatever was paid and refunded of other escrows, custody has what every open
\* escrow deposited: a refund is never refused for want of money, paused or not
\* (cancel_escrow).
THEOREM DepositsAreCovered == Spec => []DepositsCovered
<1>1. Init => RowsPositive
  BY DEF Init, RowsPositive, CustodyOf, Exists
<1> QED
  BY <1>1, Covered, RowsPositiveStep, ExplainedInitially, ExplainedStep, TypeCorrect, ControlHolds, PTL DEF Spec

------------------------------------------------------------------------------
\* No transfer makes or destroys money, so that a refund cannot overflow the
\* manager's balance where one balance could hold all there is of the token.
Purse(b, t) == [h \in Holders |-> b[h][t]]
Supply(b, t) == SumFunctionOnSet(Purse(b, t), Holders)
Ledgers == [Holders -> [Tokens -> Int]]

\* Of no token there is more than one balance can hold.
SupplyFits ==
  IsFiniteSet(Accounts) /\ \A t \in Tokens : Supply(InitialBalances, t) <= MaxBalance

LEMMA HoldersFinite ==
  ASSUME IsFiniteSet(Accounts)
  PROVE  IsFiniteSet(Holders) /\ Contract \in Holders /\ \A a \in Accounts : a \in Holders /\ a # Contract
BY FS_AddElement, TokenAssumption DEF Holders

\* A batch goes into custody and back whole.
LEMMA DepositKeeps ==
  ASSUME IsFiniteSet(Accounts), NEW b \in Ledgers, NEW m \in Accounts, NEW rows \in Batches,
         NEW t \in Tokens
  PROVE  /\ Supply(Deposit(b, m, rows), t) = Supply(b, t)
         /\ Supply(GiveBack(b, m, rows), t) = Supply(b, t)
<1> DEFINE T == Total(rows, t)
           f == Purse(b, t)
           in == Purse(Deposit(b, m, rows), t)
           out == Purse(GiveBack(b, m, rows), t)
<1>1. T \in Int
  BY TotalTyped
<1>2. IsFiniteSet(Holders) /\ m \in Holders /\ Contract \in Holders /\ m # Contract
  BY HoldersFinite
<1>3. /\ \A h \in Holders : f[h] \in Int
      /\ in[m] = f[m] - T /\ in[Contract] = f[Contract] + T
      /\ \A h \in Holders \ {m, Contract} : in[h] = f[h]
  BY <1>1, <1>2 DEF Deposit, Purse, Ledgers
<1>4. /\ out[m] = f[m] + T /\ out[Contract] = f[Contract] - T
      /\ \A h \in Holders \ {m, Contract} : out[h] = f[h]
  BY <1>1, <1>2 DEF GiveBack, Purse, Ledgers
<1> HIDE DEF T, f, in, out
<1>5. \A h \in Holders : in[h] \in Int /\ out[h] \in Int
  BY <1>1, <1>2, <1>3, <1>4
<1>6. in[m] + in[Contract] = f[m] + f[Contract] /\ out[m] + out[Contract] = f[m] + f[Contract]
  BY <1>1, <1>2, <1>3, <1>4
<1>7. SumFunctionOnSet(in, Holders) = SumFunctionOnSet(f, Holders)
  <2>1. \A h \in Holders : f[h] \in Int /\ in[h] \in Int
    BY <1>3, <1>5
  <2> QED
    BY <1>2, <1>3, <1>6, <2>1, SumMoved
<1>8. SumFunctionOnSet(out, Holders) = SumFunctionOnSet(f, Holders)
  <2>1. \A h \in Holders : f[h] \in Int /\ out[h] \in Int
    BY <1>3, <1>5
  <2> QED
    BY <1>2, <1>4, <1>6, <2>1, SumMoved
<1> QED
  BY <1>7, <1>8 DEF Supply, f, in, out

\* What the rows of s are worth in t, and what of it is a worker's.
Worth(rows, t) == [i \in DOMAIN rows |-> IF rows[i].token = t THEN rows[i].amount ELSE 0]
WorthTo(rows, a, t) ==
  [i \in DOMAIN rows |-> IF rows[i].token = t /\ rows[i].worker = a THEN rows[i].amount ELSE 0]
\* Who has what when the rows of s are paid.
PaidRows(b, rows, t, s) ==
  [h \in Holders |-> IF h = Contract THEN b[h][t] - Sums(Worth(rows, t), DOMAIN rows)[s]
                                     ELSE b[h][t] + Sums(WorthTo(rows, h, t), DOMAIN rows)[s]]

\* One row more moves its amount from custody to its worker.
LEMMA RowMoves ==
  ASSUME IsFiniteSet(Accounts), NEW b \in Ledgers, NEW rows \in Batches, NEW t \in Tokens,
         NEW s \in SUBSET DOMAIN rows, NEW i \in s
  PROVE  SumFunctionOnSet(PaidRows(b, rows, t, s), Holders)
           = SumFunctionOnSet(PaidRows(b, rows, t, s \ {i}), Holders)
<1> DEFINE R == DOMAIN rows
           r == s \ {i}
           w == rows[i].worker
           u == rows[i].amount
           W == Worth(rows, t)
           To(a) == WorthTo(rows, a, t)
           f == PaidRows(b, rows, t, r)
           g == PaidRows(b, rows, t, s)
<1>1. rows \in Seq(PaymentSchedule)
  BY ContractAssumption
<1>2. IsFiniteSet(R)
  <2>1. Len(rows) \in Nat /\ R = 1 .. Len(rows)
    BY <1>1
  <2> QED
    BY <2>1, FS_Interval
<1>3. \A k \in R : rows[k].amount \in Int /\ rows[k].worker \in Accounts
  <2>1. \A k \in R : rows[k] \in PaymentSchedule
    BY <1>1
  <2> QED
    BY <2>1 DEF PaymentSchedule
<1>4. i \in R /\ u \in Int /\ w \in Accounts /\ r \in SUBSET R
  BY <1>3
<1>5. /\ \A k \in R : W[k] \in Int
      /\ W[i] = IF rows[i].token = t THEN u ELSE 0
  BY <1>3, <1>4 DEF Worth
<1>6. \A a : /\ \A k \in R : To(a)[k] \in Int
             /\ To(a)[i] = IF rows[i].token = t /\ w = a THEN u ELSE 0
  BY <1>3, <1>4 DEF WorthTo
<1> HIDE DEF R, W, To, r
<1>7. /\ Sums(W, R)[s] = W[i] + Sums(W, R)[r]
      /\ Sums(W, R)[r] \in Int
  <2>1. Sums(W, R)[s] = W[i] + Sums(W, R)[s \ {i}]
    BY <1>2, <1>5, SumTakesOut DEF R
  <2> QED
    BY <1>2, <1>4, <1>5, <2>1, SumsTyped DEF r
<1>8. ASSUME NEW a
      PROVE  /\ Sums(To(a), R)[s] = To(a)[i] + Sums(To(a), R)[r]
             /\ Sums(To(a), R)[r] \in Int
  <2> DEFINE q == To(a)
  <2>1. \A k \in R : q[k] \in Int
    BY <1>6
  <2> HIDE DEF q
  <2>2. Sums(q, R)[s] = q[i] + Sums(q, R)[s \ {i}]
    BY <1>2, <2>1, SumTakesOut DEF R
  <2>3. Sums(q, R)[r] \in Int
    BY <1>2, <1>4, <2>1, SumsTyped
  <2> QED
    BY <2>2, <2>3 DEF r, q
<1>9. IsFiniteSet(Holders) /\ w \in Holders /\ Contract \in Holders /\ w # Contract
  BY <1>4, HoldersFinite
<1>10. \A h \in Holders : b[h][t] \in Int
  BY DEF Ledgers
<1> DEFINE moved == IF rows[i].token = t THEN u ELSE 0
<1>11. moved \in Int
  BY <1>4
<1>12. /\ f[Contract] = b[Contract][t] - Sums(W, R)[r]
       /\ g[Contract] = b[Contract][t] - Sums(W, R)[s]
       /\ \A h \in Holders \ {Contract} : /\ f[h] = b[h][t] + Sums(To(h), R)[r]
                                          /\ g[h] = b[h][t] + Sums(To(h), R)[s]
  BY <1>9 DEF PaidRows, W, R, To
<1> HIDE DEF f, g, u, w, moved
<1>13. W[i] = moved /\ \A a : To(a)[i] = IF w = a THEN moved ELSE 0
  BY <1>5, <1>6 DEF moved
<1>14. f[Contract] \in Int /\ g[Contract] = f[Contract] - moved
  BY <1>7, <1>9, <1>10, <1>11, <1>12, <1>13
<1>15. \A h \in Holders \ {Contract} : f[h] \in Int /\ g[h] = f[h] + (IF w = h THEN moved ELSE 0)
  <2> SUFFICES ASSUME NEW h \in Holders \ {Contract}
               PROVE  f[h] \in Int /\ g[h] = f[h] + (IF w = h THEN moved ELSE 0)
    OBVIOUS
  <2> DEFINE p == Sums(To(h), R)[s]
             q == Sums(To(h), R)[r]
             v == To(h)[i]
  <2>1. p = v + q /\ q \in Int
    BY <1>8
  <2>2. v = IF w = h THEN moved ELSE 0
    BY <1>13
  <2>3. f[h] = b[h][t] + q /\ g[h] = b[h][t] + p
    BY <1>12
  <2>4. b[h][t] \in Int
    BY <1>10
  <2> HIDE DEF p, q, v
  <2> QED
    BY <1>11, <2>1, <2>2, <2>3, <2>4
<1>16. \A h \in Holders : f[h] \in Int /\ g[h] \in Int
  BY <1>11, <1>14, <1>15
<1>17. /\ \A h \in Holders \ {w, Contract} : g[h] = f[h]
       /\ g[w] + g[Contract] = f[w] + f[Contract]
  BY <1>9, <1>11, <1>14, <1>15
<1> QED
  BY <1>9, <1>16, <1>17, SumMoved DEF f, g, r

\* All rows together take from custody what the workers get.
LEMMA PayOutKeeps ==
  ASSUME IsFiniteSet(Accounts), NEW b \in Ledgers, NEW rows \in Batches, NEW t \in Tokens
  PROVE  Supply(PayOut(b, rows), t) = Supply(b, t)
<1> DEFINE R == DOMAIN rows
           P(s) == SumFunctionOnSet(PaidRows(b, rows, t, s), Holders)
           B == {s \in SUBSET R : P(s) # Supply(b, t)}
<1>1. IsFiniteSet(R)
  <2>1. Len(rows) \in Nat /\ R = 1 .. Len(rows)
    BY ContractAssumption
  <2> QED
    BY <2>1, FS_Interval
<1>2. P({}) = Supply(b, t)
  <2>1. /\ Sums(Worth(rows, t), R)[{}] = 0
        /\ \A a : Sums(WorthTo(rows, a, t), R)[{}] = 0
    BY <1>1, SumParts
  <2>2. \A h \in Holders : b[h][t] \in Int
    BY DEF Ledgers
  <2>3. \A h \in Holders : /\ b[h][t] - Sums(Worth(rows, t), R)[{}] = b[h][t]
                           /\ b[h][t] + Sums(WorthTo(rows, h, t), R)[{}] = b[h][t]
    BY <2>1, <2>2
  <2>4. PaidRows(b, rows, t, {}) = Purse(b, t)
    BY <2>3 DEF PaidRows, Purse
  <2> QED
    BY <2>4 DEF Supply
<1>3. \A s \in SUBSET R : \A i \in s : P(s) = P(s \ {i})
  BY RowMoves
<1> HIDE DEF P
<1>4. B = {}
  <2> SUFFICES ASSUME B # {} PROVE FALSE
    OBVIOUS
  <2>1. PICK s \in B : \A i \in s : s \ {i} \notin B
    <3> HIDE DEF R
    <3> QED
      BY <1>1, SmallestSubset
  <2>2. s # {}
    BY <1>2
  <2>3. PICK i \in s : TRUE
    BY <2>2
  <2>4. s \ {i} \in SUBSET R /\ P(s \ {i}) = Supply(b, t)
    BY <2>1, <2>3
  <2> QED
    BY <1>3, <2>3, <2>4
<1>5. P(R) = Supply(b, t)
  BY <1>4
<1>6. PaidRows(b, rows, t, R) = Purse(PayOut(b, rows), t)
  <2>1. Sums(Worth(rows, t), R)[R] = Total(rows, t)
    <3>1. DOMAIN Worth(rows, t) = R
      BY DEF Worth
    <3> QED
      BY <3>1, SumUnfolds DEF Total, SumFunction, Worth
  <2>2. \A a : Sums(WorthTo(rows, a, t), R)[R] = Owed(rows, a, t)
    <3> SUFFICES ASSUME NEW a PROVE Sums(WorthTo(rows, a, t), R)[R] = Owed(rows, a, t)
      OBVIOUS
    <3>1. DOMAIN WorthTo(rows, a, t) = R
      BY DEF WorthTo
    <3> QED
      BY <3>1, SumUnfolds DEF Owed, SumFunction, WorthTo
  <2>3. \A h \in Holders : PayOut(b, rows)[h][t] =
          IF h = Contract THEN b[h][t] - Total(rows, t) ELSE b[h][t] + Owed(rows, h, t)
    BY DEF PayOut
  <2> QED
    BY <2>1, <2>2, <2>3 DEF PaidRows, Purse
<1> QED
  BY <1>5, <1>6 DEF P, Supply

\* There is as much of every token as there was at first.
SupplyKept == \A t \in Tokens : Supply(balances, t) = Supply(InitialBalances, t)

LEMMA SupplyStep ==
  ASSUME IsFiniteSet(Accounts)
  PROVE  TypeOK /\ TypeOK' /\ ControlInv /\ SupplyKept /\ [Next]_vars => SupplyKept'
<1> SUFFICES ASSUME TypeOK, TypeOK', ControlInv, SupplyKept, [Next]_vars PROVE SupplyKept'
  OBVIOUS
<1>1. balances \in Ledgers
  BY DEF TypeOK, Balances, Amounts, Ledgers
<1>2. SUFFICES ASSUME NEW t \in Tokens PROVE Supply(balances', t) = Supply(balances, t)
  BY DEF SupplyKept, Supply, Purse
<1>3. ASSUME NEW e \in EscrowIds, NEW m \in Accounts, NEW rows \in Batches, Custody!Fund(e, m, rows)
      PROVE  Supply(balances', t) = Supply(balances, t)
  <2>1. balances' = Deposit(balances, m, rows)
    BY <1>3, SameLedger DEF Custody!Fund
  <2> QED
    BY <1>1, <2>1, DepositKeeps
<1>4. ASSUME NEW e \in EscrowIds, Custody!Settle(e)
      PROVE  Supply(balances', t) = Supply(balances, t)
  <2>1. CustodyOf[e].rows \in Batches
    BY <1>4, HeldRecord DEF Custody!Settle
  <2>2. balances' = PayOut(balances, CustodyOf[e].rows)
    BY <1>4, SameLedger DEF Custody!Settle
  <2> QED
    BY <1>1, <2>1, <2>2, PayOutKeeps
<1>5. ASSUME NEW e \in EscrowIds, Custody!Refund(e)
      PROVE  Supply(balances', t) = Supply(balances, t)
  <2>1. CustodyOf[e].rows \in Batches /\ CustodyOf[e].payer \in Accounts
    BY <1>5, HeldRecord DEF Custody!Refund
  <2>2. balances' = GiveBack(balances, CustodyOf[e].payer, CustodyOf[e].rows)
    BY <1>5, SameLedger DEF Custody!Refund
  <2> QED
    BY <1>1, <2>1, <2>2, DepositKeeps
<1>6. CASE UNCHANGED Custody!custodyVars
  BY <1>6 DEF Custody!custodyVars
<1> QED
  BY <1>3, <1>4, <1>5, <1>6, CustodyStep DEF Custody!CustodyNext

\* A refund leaves custody with no less than nothing, and the manager with no
\* more than there is.
LEMMA RefundFits ==
  ASSUME SupplyFits, TypeOK, DepositsCovered, RowsPositive, SupplyKept,
         NEW e \in EscrowIds, Open(e)
  PROVE  Refundable(e)
<1> DEFINE m == escrows[e].manager
           rows == escrows[e].payments
           after == GiveBack(balances, m, rows)
<1>1. Exists(e) /\ Unsettled(e)
  BY DEF Open, Unsettled
<1>2. rows \in Batches /\ m \in Accounts
  BY <1>1, StoredBatch, EscrowFields
<1>3. IsFiniteSet(Holders) /\ m \in Holders /\ Contract \in Holders /\ m # Contract
  BY <1>2, HoldersFinite DEF SupplyFits
<1>4. balances \in Balances /\ balances \in Ledgers /\ MaxBalance \in Nat
  BY TokenAssumption DEF TypeOK, Balances, Amounts, Ledgers
<1>5. \A i \in DOMAIN rows : rows[i].amount > 0
  <2>1. CustodyOf[e] = [state |-> "held", payer |-> m, rows |-> rows]
    BY DEF CustodyOf, Open
  <2>2. CustodyOf[e].state # "unfunded" /\ CustodyOf[e].rows = rows
    BY <2>1
  <2> QED
    BY <2>2 DEF RowsPositive
<1>6. after \in [Holders -> [Tokens -> Int]]
  <2>1. \A t \in Tokens : Total(rows, t) \in Int
    BY <1>2, TotalTyped
  <2> DEFINE paid == [t \in Tokens |-> balances[m][t] + Total(rows, t)]
             left == [t \in Tokens |-> balances[Contract][t] - Total(rows, t)]
  <2>2. paid \in [Tokens -> Int] /\ left \in [Tokens -> Int]
    BY <1>3, <1>4, <2>1 DEF Ledgers
  <2>3. after = [balances EXCEPT ![m] = paid, ![Contract] = left]
    BY <1>3, <1>4 DEF GiveBack, Ledgers
  <2> HIDE DEF paid, left, m, after
  <2> QED
    BY <1>3, <1>4, <2>2, <2>3 DEF Ledgers
<1>7. ASSUME NEW t \in Tokens
      PROVE  \A h \in Holders : after[h][t] \in Amounts
  <2> DEFINE T == Total(rows, t)
             f == Purse(after, t)
             b == Purse(balances, t)
  <2>1. T \in Int /\ T >= 0 /\ T <= balances[Contract][t]
    BY <1>2, <1>5, TotalTyped, TotalPositive DEF DepositsCovered
  <2>2. \A h \in Holders : b[h] \in 0 .. MaxBalance
    BY <1>4 DEF Purse, Balances, Amounts
  <2>3. /\ f[m] = b[m] + T /\ f[Contract] = b[Contract] - T
        /\ \A h \in Holders \ {m, Contract} : f[h] = b[h]
    BY <1>3, <1>4, <2>1 DEF GiveBack, Purse, Ledgers
  <2>4. T <= b[Contract]
    BY <1>3, <2>1 DEF Purse
  <2>5. SumFunctionOnSet(f, Holders) <= MaxBalance
    <3>1. Supply(after, t) = Supply(balances, t)
      BY <1>2, <1>4, DepositKeeps DEF SupplyFits
    <3> QED
      BY <3>1 DEF SupplyKept, SupplyFits, Supply
  <2>6. \A h \in Holders : after[h][t] = f[h]
    BY DEF Purse
  <2> HIDE DEF T, f, b, m, after
  <2>7. \A h \in Holders : f[h] \in Nat
    BY <1>3, <1>4, <2>1, <2>2, <2>3, <2>4
  <2>8. \A h \in Holders : f[h] <= SumFunctionOnSet(f, Holders)
    BY <1>3, <2>7, SumCovers
  <2>9. SumFunctionOnSet(f, Holders) \in Int
    BY <1>3, <2>7, SumTyped
  <2> QED
    BY <1>4, <2>5, <2>6, <2>7, <2>8, <2>9 DEF Amounts
<1>8. after \in Balances
  <2> HIDE DEF after
  <2> QED
    BY <1>6, <1>7 DEF Balances
<1> QED
  BY <1>1, <1>8 DEF Refundable, Transferable

\* Whatever was deposited, settled and refunded of other escrows, and whether
\* the contract is paused or not, an open escrow can be refunded: custody has
\* the deposit, and the manager's balance has room for it, because no call
\* makes money (cancel_escrow).
THEOREM RefundsGoThrough ==
  ASSUME SupplyFits
  PROVE  Spec => []RefundAlwaysAvailable
<1>1. Init => RowsPositive /\ SupplyKept
  BY DEF Init, RowsPositive, CustodyOf, Exists, SupplyKept
<1>2. TypeOK /\ DepositsCovered /\ RowsPositive /\ SupplyKept => RefundAlwaysAvailable
  BY RefundFits DEF RefundAlwaysAvailable
<1>3. TypeOK /\ TypeOK' /\ ControlInv /\ SupplyKept /\ [Next]_vars => SupplyKept'
  BY SupplyStep DEF SupplyFits
<1> QED
  BY <1>1, <1>2, <1>3, RowsPositiveStep, DepositsAreCovered, TypeCorrect, ControlHolds, PTL DEF Spec
==============================================================================
