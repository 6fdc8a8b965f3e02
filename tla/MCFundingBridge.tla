--------------------------- MODULE MCFundingBridge ---------------------------
(***************************************************************************)
(* Small instances of FundingBridge for TLC.                               *)
(***************************************************************************)
EXTENDS FundingBridge, TLC

CONSTANTS t1, t2, ann, bob

\* Two members, each with a panel open.
MCWalletOf == (t1 :> ann @@ t2 :> bob)
MCMembers == <<[wallet |-> ann, role |-> "OWNER"], [wallet |-> bob, role |-> "FINANCE"]>>

HashSymmetry == Permutations(Hashes)
=============================================================================
