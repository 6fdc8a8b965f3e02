---------------------------- MODULE PayrollBatches ----------------------------
(***************************************************************************)
(* Uploads of payroll files that become batches (api/payroll/batches,      *)
(* lib/payroll/api.ts, lib/payroll/batches.ts).  A request may carry a key *)
(* that makes its repetition harmless and a reference for the batch; two   *)
(* requests can be under way at once, and one can die between any two of   *)
(* its queries.  References are numbers, CF-00001 and on, also when the    *)
(* request supplies one.                                                   *)
(***************************************************************************)
EXTENDS PayrollCsv

CONSTANTS
  Uploads,      \* the requests, each sent once; a retry is another one alike
  Files,        \* the files, by name: header and rows
  UploadKeys,   \* idempotency keys
  References,   \* references requests supply
  MaxAttempts,  \* MAX_REFERENCE_ATTEMPTS, 5 in the code
  MaxReconfigured \* bound: changes of the asset that is settled

ASSUME UploadAssumption ==
  References \subseteq Nat \ {0} /\ MaxAttempts \in Nat \ {0} /\ MaxReconfigured \in Nat

VARIABLES
  settles,      \* settlementAsset().code
  reconfigured, \* how often it was changed
  batches,      \* payroll_batches, in the order of their creation
  uploads       \* the requests, and what each was answered

uploadVars == <<settles, reconfigured, batches, uploads>>

NoKey == "no key"
None == 0
Assets == {"USDC", "XLM"}

Unsent == [at |-> "unsent"]
Request(file, key, ref) ==
  [at |-> "look", file |-> file, key |-> key, ref |-> ref, asset |-> settles,
   attempt |-> 0, number |-> ref]
Answer(u, kind, batch) ==
  [at |-> "answered", kind |-> kind, batch |-> batch, twin |-> None,
   file |-> u.file, key |-> u.key, ref |-> u.ref, asset |-> u.asset]

UploadInit ==
  /\ settles \in Assets /\ reconfigured = 0
  /\ batches = <<>>
  /\ uploads = [s \in Uploads |-> Unsent]

UploadAt(s, step) == uploads[s].at = step
Proceeds(s, step) == uploads' = [uploads EXCEPT ![s].at = step]
Answers(s, kind, batch) == uploads' = [uploads EXCEPT ![s] = Answer(uploads[s], kind, batch)]

\* validateCsv: the asset is the one settled now.
Report(file, asset) == ValidateCsv(Files[file].header, Files[file].rows, TRUE, asset)

\* fingerprintCreateRequest: all a repetition has to have in common.
Fingerprint(u) == <<u.file, u.ref, u.asset>>

\* replayVerdict, and what is answered by it.
\* Mutant: whatever the key was used for is replayed.
AnyPrior(b, u) == TRUE
SameRequest(b, u) == b.fingerprint = Fingerprint(u)
Replays(s, b) ==
  IF SameRequest(batches[b], uploads[s]) THEN Answers(s, "replayed", b)
  ELSE Answers(s, "key reused", None)

WithKey(k) == {b \in 1..Len(batches) : k # NoKey /\ batches[b].key = k}
WithReference(r) == {b \in 1..Len(batches) : batches[b].reference = r}

------------------------------------------------------------------------------
\* createBatch: a file with problems is refused before anything is looked up.
Upload(s, file, key, ref) ==
  LET u == Request(file, key, ref) IN
  /\ UploadAt(s, "unsent")
  /\ uploads' = [uploads EXCEPT ![s] =
       IF Report(file, settles).valid THEN u ELSE Answer(u, "invalid", None)]
  /\ UNCHANGED <<settles, reconfigured, batches>>

LookForKey(s) ==
  LET prior == WithKey(uploads[s].key) IN
  /\ UploadAt(s, "look")
  /\ IF prior # {} THEN \E b \in prior : Replays(s, b)
     ELSE Proceeds(s, IF uploads[s].ref = None THEN "number" ELSE "insert")
  /\ UNCHANGED <<settles, reconfigured, batches>>

\* generateReference: by the number of batches there are.
GenerateReference(s) ==
  /\ UploadAt(s, "number")
  /\ uploads' = [uploads EXCEPT ![s].at = "insert",
                                ![s].number = Len(batches) + 1 + uploads[s].attempt]
  /\ UNCHANGED <<settles, reconfigured, batches>>

Batch(u) ==
  [reference |-> u.number, key |-> u.key, fingerprint |-> Fingerprint(u),
   file |-> u.file, payments |-> Report(u.file, u.asset).rows, aged |-> FALSE]

\* What a unique index refuses: the first in line is named, and which one is
\* is the database's choice.
Refusals(u) ==
  {"reference" : b \in WithReference(u.number)} \union {"key" : b \in WithKey(u.key)}

\* A reference that was asked for is refused; one that was counted is counted
\* again, so many times.
ReferenceRefused(s) ==
  LET u == uploads[s] IN
  \/ u.ref # None /\ Answers(s, "reference taken", None)
  \/ /\ u.ref = None /\ u.attempt + 1 < MaxAttempts
     /\ uploads' = [uploads EXCEPT ![s].at = "number", ![s].attempt = @ + 1]
  \/ u.ref = None /\ u.attempt + 1 >= MaxAttempts /\ Answers(s, "references exhausted", None)

InsertBatch(s) ==
  LET u == uploads[s] IN
  /\ UploadAt(s, "insert")
  /\ IF Refusals(u) = {}
     THEN /\ batches' = Append(batches, Batch(u))
          /\ uploads' = [uploads EXCEPT ![s].at = "warn", ![s].number = Len(batches) + 1]
     ELSE /\ UNCHANGED batches
          /\ \/ "key" \in Refusals(u) /\ Proceeds(s, "reread")
             \/ "reference" \in Refusals(u) /\ ReferenceRefused(s)
  /\ UNCHANGED <<settles, reconfigured>>

RereadKey(s) ==
  /\ UploadAt(s, "reread")
  /\ \E b \in WithKey(uploads[s].key) : Replays(s, b)
  /\ UNCHANGED <<settles, reconfigured, batches>>

\* findDuplicateUpload: another batch of the same file, of the last hour.
\* Mutant: the newest, which is the one just made.
NewestTwin(b) == {Len(batches)}
Twins(b) == {t \in 1..Len(batches) : t # b /\ batches[t].file = batches[b].file /\ ~batches[t].aged}
WarnOfTwin(s) ==
  LET b == uploads[s].number IN
  /\ UploadAt(s, "warn")
  /\ uploads' = [uploads EXCEPT ![s] =
       [Answer(uploads[s], "created", b) EXCEPT
          !.twin = IF Twins(b) = {} THEN None ELSE CHOOSE t \in Twins(b) : \A o \in Twins(b) : o <= t]]
  /\ UNCHANGED <<settles, reconfigured, batches>>

\* The process dies, or the answer never gets there.
DiesUploading(s) ==
  /\ uploads[s].at \notin {"unsent", "answered", "gone"}
  /\ uploads' = [uploads EXCEPT ![s] = [at |-> "gone"]]
  /\ UNCHANGED <<settles, reconfigured, batches>>

\* An hour later, and a deployment that settles another asset.
HourPasses ==
  /\ \E b \in 1..Len(batches) : ~batches[b].aged
  /\ batches' = [b \in 1..Len(batches) |-> [batches[b] EXCEPT !.aged = TRUE]]
  /\ UNCHANGED <<settles, reconfigured, uploads>>
Reconfigure ==
  /\ reconfigured < MaxReconfigured
  /\ reconfigured' = reconfigured + 1
  /\ settles' \in Assets \ {settles}
  /\ UNCHANGED <<batches, uploads>>

UploadNext ==
  \/ \E s \in Uploads :
       \/ \E file \in DOMAIN Files, key \in UploadKeys \union {NoKey}, ref \in References \union {None} :
            Upload(s, file, key, ref)
       \/ LookForKey(s) \/ GenerateReference(s) \/ InsertBatch(s) \/ RereadKey(s)
       \/ WarnOfTwin(s) \/ DiesUploading(s)
  \/ HourPasses \/ Reconfigure

------------------------------------------------------------------------------
\* revalidateBatch: what stands in the way of settling a stored batch.
RevalidateBatch(b) ==
  LET payments == Range(batches[b].payments) IN
  {"ASSET_NOT_SETTLEABLE" : p \in {p \in payments : p.asset # settles}}
    \union {"HOURS_RATE_MISMATCH" : p \in {p \in payments : p.hours * p.rate # p.amount}}
    \union {"AMOUNT_NOT_POSITIVE" : p \in {p \in payments : p.amount <= 0}}

UploadTypeOK ==
  /\ settles \in Assets /\ reconfigured \in 0..MaxReconfigured
  /\ \A b \in 1..Len(batches) :
       /\ batches[b].reference \in Nat \ {0} /\ batches[b].key \in UploadKeys \union {NoKey}
       /\ batches[b].file \in DOMAIN Files /\ batches[b].aged \in BOOLEAN
  /\ \A s \in Uploads :
       uploads[s].at \in {"unsent", "look", "number", "insert", "reread", "warn", "answered", "gone"}

\* A request is answered with a batch of its own file and its own reference,
\* and all that share a key are answered with the same one, however they
\* overlap, die and come again.
Answered(s) == UploadAt(s, "answered") /\ uploads[s].batch # None
AnsweredWithOwnBatch ==
  \A s \in Uploads : Answered(s) =>
    /\ batches[uploads[s].batch].file = uploads[s].file
    /\ uploads[s].ref # None => batches[uploads[s].batch].reference = uploads[s].ref
    /\ uploads[s].key # NoKey =>
         \A t \in Uploads : Answered(t) /\ uploads[t].key = uploads[s].key =>
           uploads[t].batch = uploads[s].batch

\* Of two batches of one file made within the hour, one upload at least was
\* told of the other batch: a payroll is not entered twice without a word.
NoSilentTwin ==
  \A s, t \in Uploads :
    /\ Answered(s) /\ Answered(t) /\ uploads[s].kind = "created" /\ uploads[t].kind = "created"
    /\ s # t /\ uploads[s].file = uploads[t].file
    /\ ~batches[uploads[s].batch].aged /\ ~batches[uploads[t].batch].aged
    => \E r \in {s, t} : uploads[r].twin # None /\ uploads[r].twin # uploads[r].batch

\* docs/BULK_PAY.md: a request sent again, a double-click or a retry after a
\* timeout, is answered with the batch the first one made.
RetryIsReplayed ==
  \A s, t \in Uploads :
    /\ Answered(s) /\ UploadAt(t, "answered") /\ uploads[s].key # NoKey
    /\ uploads[t].key = uploads[s].key /\ Fingerprint(uploads[t]) = Fingerprint(uploads[s])
    => uploads[t].batch = uploads[s].batch
==============================================================================
