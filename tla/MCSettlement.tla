---------------------------- MODULE MCSettlement ----------------------------
(***************************************************************************)
(* Small instances of Settlement for TLC: one row, whose escrow takes seven *)
(* events from its creation to its settlement without a rotation.          *)
(***************************************************************************)
EXTENDS Settlement

\* Events that come first in their ledger when a ledger takes one invocation:
\* a page that fails there has passed nothing over.
FirstInLedger ==
  {"created", "hours", "manager_approved", "finance_approved", "oracle_rotated"}

\* Passes differ in nothing but their name.
PassSymmetry == Permutations(Workers)
=============================================================================
