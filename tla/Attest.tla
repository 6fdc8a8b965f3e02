-------------------------------- MODULE Attest --------------------------------
(***************************************************************************)
(* The claim verifier coreflow-attest (packages/attest): a contract trusts *)
(* a registry of issuer keys, and accepts a claim one of them signed while *)
(* it is valid, once.  The state is kept in the host contract's persistent *)
(* storage; an entry whose rent lapses is restored before it is read.      *)
(*                                                                         *)
(* Keys, digests and payloads are values, and a hash is what was hashed.   *)
(* A signature is the fact that the key signed that pre-image: pre-images  *)
(* name the network and the verifying contract, so statements made for     *)
(* others never match and are left out.                                    *)
(***************************************************************************)
EXTENDS Integers

CONSTANTS
  Issuers,     \* Ed25519 keys
  ClaimTypes,  \* kinds of claims
  Orders,      \* what claims are about
  ClaimIds,    \* identifiers, other than all zero
  Statements,  \* the claims issuers may sign for this contract
  MaxU64       \* the largest nonce

ZeroId == "zero"
\* The wire format.  The payload's hash is of no consequence here.
AttestedClaim ==
  [issuer : Issuers, claim_type : ClaimTypes, subject : Orders,
   payload_encoding : Nat, replay_mode : {"Sequence", "UniqueId"},
   nonce : 0 .. MaxU64, claim_id : ClaimIds \union {ZeroId},
   issued_at : Nat, expires_at : Nat]

ASSUME AttestAssumption ==
  /\ MaxU64 \in Nat
  /\ ZeroId \notin ClaimIds
  /\ Statements \subseteq AttestedClaim

VARIABLES
  trusted,  \* CfaIssuer: the registered keys
  next,     \* CfaSeq: by scope, the nonce that is expected
  used,     \* CfaUsed: the identifiers used, with their issuer
  signed,   \* the pre-images that were signed, off the chain
  clock     \* the ledger's timestamp

attestVars == <<trusted, next, used, signed, clock>>

Scopes == Issuers \X ClaimTypes \X Orders
scope_key(c) == <<c.issuer, c.claim_type, c.subject>>

AttestInit(issuer) ==
  /\ trusted = {issuer}
  /\ next = [s \in Scopes |-> 0]
  /\ used = {}
  /\ signed = {}
  /\ clock = 0

\* An encoding that does not fit its byte is written as the reserved 255.
Preimage(c) == [c EXCEPT !.payload_encoding = IF @ > 255 THEN 255 ELSE @]

------------------------------------------------------------------------------
\* The registry.  The host has authorized the caller.

RegisterIssuer(k) == k \notin trusted /\ trusted' = trusted \union {k}
RevokeIssuer(k) == k \in trusted /\ trusted' = trusted \ {k}
RotateIssuer(old, new) ==
  /\ old \in trusted /\ new \notin trusted
  /\ trusted' = (trusted \union {new}) \ {old}

------------------------------------------------------------------------------
\* verify_claim: a claim that fails any of this changes nothing.

Unexpired(c) == c.expires_at > c.issued_at /\ clock <= c.expires_at
FieldsMatchMode(c) ==
  IF c.replay_mode = "Sequence" THEN c.claim_id = ZeroId ELSE c.nonce = 0

\* replay::check.
Fresh(c) ==
  IF c.replay_mode = "Sequence" THEN c.nonce = next[scope_key(c)]
  ELSE <<c.issuer, c.claim_id>> \notin used

\* Mutant: only sequences are recorded.
ConsumeNonce(c) ==
  /\ c.nonce # MaxU64
  /\ next' = [next EXCEPT ![scope_key(c)] = c.nonce + 1]
  /\ used' = used
\* replay::consume; the last nonce of a scope is never used.
Consume(c) ==
  IF c.replay_mode = "Sequence"
  THEN /\ c.nonce # MaxU64
       /\ next' = [next EXCEPT ![scope_key(c)] = c.nonce + 1]
       /\ used' = used
  ELSE /\ next' = next
       /\ used' = used \union {<<c.issuer, c.claim_id>>}

VerifyClaim(c) ==
  /\ c.issuer \in trusted
  /\ Unexpired(c)
  /\ FieldsMatchMode(c) /\ c.payload_encoding <= 1
  /\ Fresh(c)
  /\ Preimage(c) \in signed
  /\ Consume(c)
==============================================================================
