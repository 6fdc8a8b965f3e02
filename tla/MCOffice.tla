------------------------------- MODULE MCOffice -------------------------------
(***************************************************************************)
(* The payroll office for TLC: payroll files and their upload, the page of *)
(* a batch, its funding, the verification of what was paid, reconciliation *)
(* runs, and the two pages that call the contract.  These share no state   *)
(* in the models (each takes the others' effects as inputs), so a          *)
(* behaviour takes its steps in one of them: interleaving them would only  *)
(* multiply states.                                                        *)
(***************************************************************************)
EXTENDS PayrollBatches, BatchPage, FundingBridge, ChainVerifier, ReconciliationRuns,
        BulkPay, Dashboard, TLC

CONSTANTS t1, t2, ann, bob, mia, fin

\* A row of a file, and what may be wrong with it.
Cell(r, a, am, h, ra, s, e) ==
  [recipient |-> r, asset |-> a, amount |-> am, hours |-> h, rate |-> ra,
   period_start |-> s, period_end |-> e]
Good == Cell("G1", "USDC", "4", "2", "2", "2026-09-01", "2026-09-02")
MCRows ==
  {Good,
   [Good EXCEPT !.recipient = "G2"], [Good EXCEPT !.recipient = "GABC"],
   [Good EXCEPT !.asset = "XLM"], [Good EXCEPT !.amount = "2"],
   [Good EXCEPT !.amount = "0", !.hours = "0"], [Good EXCEPT !.amount = ""],
   [Good EXCEPT !.hours = "1.5"], [Good EXCEPT !.hours = "1", !.rate = "4"],
   [Good EXCEPT !.rate = "1e3"], [Good EXCEPT !.period_end = "2026-09-01"],
   [Good EXCEPT !.period_start = ""]}
Cols == <<"recipient", "amount", "asset", "hours", "rate", "period_start", "period_end">>
MCHeaders == {Cols, <<>>, Tail(Cols), Append(Cols, "rate")}
MCFiles ==
  [may |-> [header |-> Cols, rows |-> <<Good>>],
   june |-> [header |-> Cols, rows |-> <<[Good EXCEPT !.recipient = "G2"], Good>>]]
MCApprover == [a |-> "ADMIN", f |-> "FINANCE"]

\* Two members, each with a funding panel open.
MCWalletOf == (t1 :> ann @@ t2 :> bob)
MCMembers == <<[wallet |-> ann, role |-> "OWNER"], [wallet |-> bob, role |-> "FINANCE"]>>

\* Payrolls: one payee, two, the same payee twice, two assets.
Pays(r, a, n) == [recipient |-> r, asset |-> a, amount |-> n]
MCPayrolls ==
  {<<Pays("g", "USDC", 1)>>,
   <<Pays("g", "USDC", 1), Pays("h", "USDC", 2)>>,
   <<Pays("g", "USDC", 1), Pays("g", "USDC", 1)>>,
   <<Pays("g", "USDC", 2), Pays("h", "XLM", 2)>>}
MCStrangers == {<<Pays("g", "USDC", 1)>>}
MCSubjects == <<"payment">>

\* The bulk-pay page may send two transactions, a dashboard one.
MCEscrow == NewEscrow(mia, fin, 2)
MCSent == [c \in Callers |-> IF c = Page THEN 2 ELSE 1]

VARIABLE part

vars == <<csvVars, uploadVars, batchPageVars, fundingVars, verifierVars, runVars,
          clientVars, bulkVars, dashVars, part>>

Init ==
  /\ part \in {"csv", "uploads", "page", "funding", "verifier", "runs", "bulk", "dashboard"}
  /\ CsvInit /\ (part # "csv" => text = <<>> /\ header = Cols /\ refuses)
  /\ UploadInit /\ (part # "uploads" => settles = "USDC")
  /\ BatchPageInit /\ FundingInit
  /\ VerifierInit /\ (part # "verifier" => escrow.payments \in MCStrangers)
  /\ RunsInit
  /\ ClientInit /\ BulkInit
  /\ DashInit /\ (part # "dashboard" => configured)

Next ==
  \/ part = "csv" /\ CsvNext
     /\ UNCHANGED <<uploadVars, batchPageVars, fundingVars, verifierVars, runVars, clientVars, bulkVars, dashVars, part>>
  \/ part = "uploads" /\ UploadNext
     /\ UNCHANGED <<csvVars, batchPageVars, fundingVars, verifierVars, runVars, clientVars, bulkVars, dashVars, part>>
  \/ part = "page" /\ BatchPageNext
     /\ UNCHANGED <<csvVars, uploadVars, fundingVars, verifierVars, runVars, clientVars, bulkVars, dashVars, part>>
  \/ part = "funding" /\ FundingNext
     /\ UNCHANGED <<csvVars, uploadVars, batchPageVars, verifierVars, runVars, clientVars, bulkVars, dashVars, part>>
  \/ part = "verifier" /\ VerifierNext
     /\ UNCHANGED <<csvVars, uploadVars, batchPageVars, fundingVars, runVars, clientVars, bulkVars, dashVars, part>>
  \/ part = "runs" /\ RunsNext
     /\ UNCHANGED <<csvVars, uploadVars, batchPageVars, fundingVars, verifierVars, clientVars, bulkVars, dashVars, part>>
  \/ part = "bulk" /\ BulkNext
     /\ UNCHANGED <<csvVars, uploadVars, batchPageVars, fundingVars, verifierVars, runVars, dashVars, part>>
  \/ part = "dashboard" /\ DashNext
     /\ UNCHANGED <<csvVars, uploadVars, batchPageVars, fundingVars, verifierVars, runVars, bulkVars, part>>

Spec == Init /\ [][Next]_vars

TypeOK ==
  CsvTypeOK /\ UploadTypeOK /\ BatchPageTypeOK /\ FundingTypeOK /\ RunsTypeOK /\ VerifierTypeOK
  /\ BulkTypeOK /\ DashTypeOK

\* Two interchangeable values stand for the members of every set whose members
\* are alike: one permutation then does for all parts.
Sym == Permutations(Hashes)
===============================================================================
