--------------------------- MODULE ReconciliationRuns ---------------------------
(***************************************************************************)
(* Runs of the reconciler over one organization (lib/reconciliation/       *)
(* scheduler.ts), the findings they open and observe again (upsertFinding  *)
(* of reconciler.ts), the findings the indexer opens in the same table     *)
(* (openFinding of indexer/index.ts), the administrators who close them,   *)
(* and the panel that says whether payments are verified.  A run is        *)
(* started by the hourly sweep and by anybody who may ask for one; it can  *)
(* be slow enough to be taken for dead, and it can die.  What a run        *)
(* corrects is in Settlement; here it looks at subjects (payments,         *)
(* escrows, attempts) and finds each as recorded, unlike it, or unreadable.*)
(***************************************************************************)
EXTENDS Naturals, Sequences, FiniteSets, SequencesExt

CONSTANTS
  Workers,      \* calls of runReconciliation
  Subjects,     \* what a run looks at, in order
  Closers,      \* requests to advance a finding
  MaxFindings   \* bound: findings there are

ASSUME RunsAssumption == MaxFindings \in Nat /\ Subjects \in Seq(Range(Subjects))

VARIABLES
  runs,     \* ReconciliationRun rows, in the order they started
  workers,  \* what each call is doing, and about which row
  found,    \* ReconciliationFinding rows
  closers   \* requests to advance a finding, with the status they read

runVars == <<runs, workers, found, closers>>

Free == [at |-> "free"]
Working(step, run, todo) == [at |-> step, run |-> run, todo |-> todo, kind |-> "none", there |-> 0]
Kinds == {"agrees", "CHAIN_PAID_DB_NOT", "DB_PAID_CHAIN_NOT", "CHAIN_UNREADABLE"}
IndexerKinds == {"CHAIN_PAID_DB_NOT", "DB_PAID_CHAIN_NOT"}
NoRow == 0

RunsInit ==
  /\ runs = <<>> /\ found = <<>>
  /\ workers = [w \in Workers |-> Free]
  /\ closers = [c \in Closers |-> Free]

WorkerAt(w, step) == workers[w].at = step
Moves(w, step) == workers' = [workers EXCEPT ![w].at = step]
Indices(s) == 1..Len(s)

AtWork(w) == workers[w].at \in {"observe", "write"}
\* A row of a run; `beat` is "fresh" or, ten minutes after the last
\* heartbeat, "old"; `slow` remembers a run taken for dead.
Run == [status |-> "RUNNING", beat |-> "fresh", slow |-> FALSE]
Running == {r \in Indices(runs) : runs[r].status = "RUNNING"}

------------------------------------------------------------------------------
\* startRun.  Rows whose worker stopped reporting are marked STALE ...
ReclaimStale(w) ==
  /\ WorkerAt(w, "free")
  /\ runs' = [r \in Indices(runs) |->
       IF r \in Running /\ runs[r].beat = "old"
         THEN [runs[r] EXCEPT !.status = "STALE",
                              !.slow = \E v \in Workers : AtWork(v) /\ workers[v].run = r]
       ELSE runs[r]]
  /\ workers' = [workers EXCEPT ![w] = Working("look", NoRow, <<>>)]
  /\ UNCHANGED <<found, closers>>

\* ... a run in progress is left to itself ...
LookForActive(w) ==
  /\ WorkerAt(w, "look")
  /\ Moves(w, IF Running = {} THEN "create" ELSE "skipped")
  /\ UNCHANGED <<runs, found, closers>>

\* ... and the partial unique index has the last word.
\* Mutant: there is no such index.
NoLock == TRUE
LockIsFree == Running = {}
CreateRun(w) ==
  /\ WorkerAt(w, "create")
  /\ IF LockIsFree
     THEN /\ runs' = Append(runs, Run)
          /\ workers' = [workers EXCEPT ![w] = Working("observe", Len(runs) + 1, Subjects)]
     ELSE Moves(w, "skipped") /\ UNCHANGED runs
  /\ UNCHANGED <<found, closers>>

\* heartbeat, every 30 seconds while the run lasts: only of a RUNNING row.
Heartbeat(w) ==
  /\ AtWork(w) /\ workers[w].run \in Running /\ runs[workers[w].run].beat = "old"
  /\ runs' = [runs EXCEPT ![workers[w].run].beat = "fresh"]
  /\ UNCHANGED <<workers, found, closers>>
TenMinutesPass(r) ==
  /\ r \in Running /\ runs[r].beat = "fresh"
  /\ runs' = [runs EXCEPT ![r].beat = "old"]
  /\ UNCHANGED <<workers, found, closers>>

\* A row of the queue.  `by` is who opened it: the reconciler names the escrow
\* and the slot of its subject, the indexer leaves them, and the run, empty.
Finding(by, kind, subject, run) ==
  [by |-> by, kind |-> kind, subject |-> subject, status |-> "OPEN", run |-> run, reason |-> FALSE]
\* Its severity: the policy's, or the column's default.
Severity(finding) ==
  IF finding.by = "indexer" \/ finding.kind = "CHAIN_PAID_DB_NOT" THEN "MEDIUM"
  ELSE IF finding.kind = "DB_PAID_CHAIN_NOT" THEN "CRITICAL" ELSE "LOW"

\* openFinding, in the transaction that applies an event: it takes no lock and
\* looks for nothing.
OpenFinding(kind, subject) ==
  /\ Len(found) < MaxFindings
  /\ found' = Append(found, Finding("indexer", kind, subject, NoRow))
  /\ UNCHANGED <<runs, workers, closers>>

\* upsertFinding looks for a finding of the same kind about the same subject,
\* escrow and slot that is not resolved ...
Open(kind, subject) ==
  {f \in Indices(found) : /\ found[f].by = "run"
                             /\ found[f].kind = kind /\ found[f].subject = subject
                             /\ found[f].status # "RESOLVED"}
\* The next subject: readEscrow, readTransfers and readTransactionSucceeded
\* answer, and what agrees opens nothing.
Inspect(w, kind) ==
  LET there == Open(kind, Head(workers[w].todo)) IN
  /\ WorkerAt(w, "observe") /\ workers[w].todo # <<>>
  /\ IF kind = "agrees" THEN workers' = [workers EXCEPT ![w].todo = Tail(@)]
     ELSE \E f \in IF there = {} THEN {NoRow} ELSE there :
            workers' = [workers EXCEPT ![w].at = "write", ![w].kind = kind, ![w].there = f]
  /\ UNCHANGED <<runs, found, closers>>

\* ... and observes it again, whatever became of it, or opens one.
WriteFinding(w) ==
  LET call == workers[w] IN
  /\ WorkerAt(w, "write")
  /\ IF call.there # NoRow THEN found' = [found EXCEPT ![call.there].run = call.run]
     ELSE /\ Len(found) < MaxFindings
          /\ found' = Append(found, Finding("run", call.kind, Head(call.todo), call.run))
  /\ workers' = [workers EXCEPT ![w] = Working("observe", call.run, Tail(call.todo))]
  /\ UNCHANGED <<runs, closers>>

\* finishRun, by the row's id: COMPLETED, or FAILED when anything threw.
Finish(w, status) ==
  /\ AtWork(w)
  /\ status = "COMPLETED" => WorkerAt(w, "observe") /\ workers[w].todo = <<>>
  /\ runs' = [runs EXCEPT ![workers[w].run].status = status]
  /\ workers' = [workers EXCEPT ![w] = [at |-> "done"]]
  /\ UNCHANGED <<found, closers>>
\* The process ends; the row stays as it is.
DiesRunning(w) ==
  /\ AtWork(w)
  /\ workers' = [workers EXCEPT ![w] = [at |-> "done"]]
  /\ UNCHANGED <<runs, found, closers>>

------------------------------------------------------------------------------
(* PATCH findings/:findingId: the status is read, checked, and written.    *)

Advances ==
  [OPEN |-> {"ACKNOWLEDGED", "INVESTIGATING", "RESOLVED"},
   ACKNOWLEDGED |-> {"INVESTIGATING", "RESOLVED"},
   INVESTIGATING |-> {"ACKNOWLEDGED", "RESOLVED"},
   RESOLVED |-> {}]

PatchFinding(c, f, to) ==
  /\ closers[c] = Free /\ f \in Indices(found)
  /\ to \in Advances[found[f].status]
  /\ closers' = [closers EXCEPT ![c] = [at |-> "write", finding |-> f, to |-> to]]
  /\ UNCHANGED <<runs, workers, found>>
\* Resolving takes a reason of some length; it is kept from then on.
WriteStatus(c) ==
  LET f == closers[c].finding IN
  /\ closers[c].at = "write"
  /\ found' = [found EXCEPT ![f].status = closers[c].to,
                                  ![f].reason = @ \/ closers[c].to = "RESOLVED"]
  /\ closers' = [closers EXCEPT ![c] = [at |-> "done"]]
  /\ UNCHANGED <<runs, workers>>

RunsNext ==
  \/ \E w \in Workers :
       \/ ReclaimStale(w) \/ LookForActive(w) \/ CreateRun(w) \/ Heartbeat(w)
       \/ \E kind \in Kinds : Inspect(w, kind)
       \/ WriteFinding(w) \/ DiesRunning(w)
       \/ \E status \in {"COMPLETED", "FAILED"} : Finish(w, status)
  \/ \E r \in Indices(runs) : TenMinutesPass(r)
  \/ \E kind \in IndexerKinds, subject \in Range(Subjects) : OpenFinding(kind, subject)
  \/ \E c \in Closers :
       \/ \E f \in Indices(found), to \in DOMAIN Advances : PatchFinding(c, f, to)
       \/ WriteStatus(c)

------------------------------------------------------------------------------
\* reconciliationHealth: by the run that started last.
Unresolved == {f \in Indices(found) : found[f].status # "RESOLVED"}
Critical == {f \in Unresolved : Severity(found[f]) = "CRITICAL"}
Degraded ==
  \/ runs = <<>>
  \/ runs[Len(runs)].status \in {"FAILED", "STALE"}
  \/ runs[Len(runs)].status = "RUNNING" /\ runs[Len(runs)].beat = "old"

\* ReconciliationPanel: the line at its head, and the empty list of findings.
PanelSays ==
  IF Degraded THEN "degraded"
  ELSE IF Critical # {} THEN "urgent"
  ELSE "All payments verified against Stellar."
ListSays ==
  IF Unresolved # {} THEN "findings"
  ELSE IF Degraded THEN "Verification has not completed, so no payments were checked."
  ELSE "Every payment matches its on-chain settlement."
\* Its buttons.
MayAcknowledge(f) == found[f].status = "OPEN"
MayResolve(f) == found[f].status # "RESOLVED"

RunsTypeOK ==
  /\ \A r \in Indices(runs) : runs[r].status \in {"RUNNING", "COMPLETED", "FAILED", "STALE"}
  /\ Len(found) <= MaxFindings
  /\ \A f \in Indices(found) :
       /\ found[f].status \in DOMAIN Advances
       /\ found[f].subject \in Range(Subjects) /\ found[f].kind \in Kinds
       /\ \/ found[f].by = "run" /\ found[f].run \in Indices(runs)
          \/ found[f].by = "indexer" /\ found[f].run = NoRow

\* Two rows that are open say the same.
Repeats(f, g) ==
  f # g /\ found[f].kind = found[g].kind /\ found[f].subject = found[g].subject

\* reconciler.ts, upsertFinding: of two findings of runs that say the same, one
\* was opened by a run beside another that had been taken for dead, or was
\* resolved before and set back: while workers report in time, the lock keeps
\* runs from repeating each other.
RunsDoNotRepeat ==
  \A f, g \in Unresolved :
    Repeats(f, g) /\ found[f].by = "run" /\ found[g].by = "run"
    => \/ \E r \in Indices(runs) : runs[r].slow
       \/ found[f].reason \/ found[g].reason

\* docs/RECONCILIATION.md:184: a finding still present at the next run is
\* observed again, "no duplicate row" - whoever opened it.
NoDuplicateRow ==
  \A f, g \in Unresolved :
    Repeats(f, g) /\ found[g].by = "run"
    => \/ \E r \in Indices(runs) : runs[r].slow
       \/ found[f].reason \/ found[g].reason

\* components/reconciliation/ReconciliationPanel.tsx:13-18: silence is not
\* success; the panel says that all is verified only if something was checked.
AllClearIsChecked ==
  ListSays = "Every payment matches its on-chain settlement." =>
    \E r \in Indices(runs) : runs[r].status = "COMPLETED"
==============================================================================
