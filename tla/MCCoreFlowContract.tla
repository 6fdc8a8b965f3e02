-------------------------- MODULE MCCoreFlowContract -------------------------
(***************************************************************************)
(* Small instances of CoreFlowContract for TLC.                            *)
(***************************************************************************)
EXTENDS CoreFlowContract

CONSTANTS mia, fin, usdc, xlm, k1

Row(w, t, amount, rate, from, to) ==
  [worker |-> w, token |-> t, amount |-> amount, rate_per_hour |-> rate,
   start_date |-> from, end_date |-> to,
   hours_logged |-> 0, proof_verified |-> FALSE, status |-> "Pending"]

\* Two rows in two tokens, the second one's payee a manager elsewhere; two rows
\* in one token; one row in a token other batches use too.
TwoTokens == << Row(fin, usdc, 2, 1, 0, 1), Row(mia, xlm, 1, 1, 0, 1) >>
OneToken == << Row(fin, usdc, 2, 1, 0, 1), Row(mia, usdc, 1, 1, 0, 1) >>
OneRow == << Row(fin, usdc, 1, 1, 0, 1) >>

\* What validation refuses: nothing, no amount, no period, hours that do not
\* divide the amount, too many rows.
Refused == { << >>,
             << Row(fin, usdc, 0, 1, 0, 1) >>,
             << Row(fin, usdc, 1, 1, 1, 1) >>,
             << Row(fin, usdc, 3, 2, 0, 1) >>,
             OneRow \o OneRow \o OneRow }

MCBatches == {OneToken, TwoTokens, OneRow} \union Refused

\* One escrow with everything that administers a deployment (and an upgrade
\* before it), or two that share a token, on a deployment whose admin never
\* takes the role.
Exercised ==
  \/ /\ escrowCount < 2 /\ (wasm = FirstBuild \/ escrowCount = 0)
     /\ \A e \in EscrowIds : Exists(e) => escrows[e].payments = OneToken
  \/ /\ <<admin, pendingAdmin, paused, wasm>> = <<NoAccount, NoAccount, FALSE, FirstBuild>>
     /\ \A e \in EscrowIds : Exists(e) =>
          /\ escrows[e].payments \in {TwoTokens, OneRow}
          /\ escrows[e].oracle_pubkey = k1 /\ escrows[e].oracle_rotations = 0
          /\ nonces[e] < 3

MCHours == {1, 2}

Purse(n) == [h \in Holders |-> [t \in Tokens |-> IF h = Contract THEN 0 ELSE n]]
MCBalances == Purse(3)
==============================================================================
