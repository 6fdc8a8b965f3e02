------------------------------ MODULE OfficeProofs ------------------------------
(***************************************************************************)
(* Theorems about the office around a payment: the uploads of payroll      *)
(* files, for any files, keys and references and any number of requests    *)
(* under way, and what is said of a file, for any rows; the page of a      *)
(* batch, for any lines and approvers; the verification of what was paid,  *)
(* for any payrolls and limits; the runs of the reconciler, for any        *)
(* workers and operators; and the bulk-pay page, whatever others call and  *)
(* the network does.                                                       *)
(***************************************************************************)
EXTENDS PayrollBatches, BatchPage, ChainVerifier, ReconciliationRuns, BulkPay, TLAPS, SequenceTheorems, NaturalLemmas

UploadSpec == UploadInit /\ [][UploadNext]_uploadVars

------------------------------------------------------------------------------
\* What a request, its answer and a batch are made of.
File == DOMAIN Files
Key == UploadKeys \union {NoKey}
Ref == References \union {None}
Paid == {Report(file, asset).rows : file \in File, asset \in Assets}

UploadState ==
  [at : {"unsent", "gone"}]
  \union [at : {"look", "number", "insert", "reread", "warn"}, file : File, key : Key, ref : Ref,
          asset : Assets, attempt : Nat, number : Nat]
  \union [at : {"answered"}, file : File, key : Key, ref : Ref, asset : Assets,
          kind : {"invalid", "replayed", "key reused", "reference taken", "references exhausted",
                  "created"},
          batch : Nat, twin : Nat]
BatchRow ==
  [reference : Nat \ {0}, key : Key, fingerprint : File \X Ref \X Assets,
   file : File, payments : Paid, aged : BOOLEAN]

UTyped ==
  /\ settles \in Assets /\ reconfigured \in 0 .. MaxReconfigured
  /\ batches \in Seq(BatchRow)
  /\ uploads \in [Uploads -> UploadState]

\* A batch keeps what was asked for, and a key names one batch.
Rows == 1 .. Len(batches)
Faithful ==
  \A b \in Rows : /\ batches[b].fingerprint[1] = batches[b].file
                  /\ batches[b].fingerprint[2] # None => batches[b].reference = batches[b].fingerprint[2]
KeyNamesOne ==
  \A b, c \in Rows : batches[b].key = batches[c].key /\ batches[b].key # NoKey => b = c

\* What a request knows of the batch it made or was given.
Suits(u, b) ==
  /\ b \in Rows /\ batches[b].file = u.file
  /\ u.key # NoKey => batches[b].key = u.key
  /\ u.ref # None => batches[b].reference = u.ref
OnCourse(u) ==
  /\ u.at = "look" => u.number = u.ref
  /\ u.at = "number" => u.ref = None
  /\ u.at = "insert" => u.number # 0 /\ (u.ref # None => u.number = u.ref)
  /\ u.at = "warn" => Suits(u, u.number)
  /\ u.at = "answered" /\ u.batch # None => Suits(u, u.batch)
  /\ u.at = "answered" /\ u.kind = "created" => u.batch # None
AllOnCourse == \A s \in Uploads : OnCourse(uploads[s])

\* No two requests made the same batch, and whoever made one looked for a twin.
Makes(u, b) ==
  \/ u.at = "warn" /\ u.number = b
  \/ u.at = "answered" /\ u.kind = "created" /\ u.batch = b
MadeOnce ==
  \A s, t \in Uploads : \A b \in Rows : Makes(uploads[s], b) /\ Makes(uploads[t], b) => s = t
Told(u) ==
  u.at = "answered" /\ u.kind = "created" =>
    \/ u.twin # None /\ u.twin # u.batch
    \/ \A o \in Rows : o < u.batch /\ batches[o].file = u.file => batches[o].aged
AllTold == \A s \in Uploads : Told(uploads[s])

UInv == UTyped /\ Faithful /\ KeyNamesOne /\ AllOnCourse /\ MadeOnce /\ AllTold

------------------------------------------------------------------------------
\* A request under way.
Steps == {"look", "number", "insert", "reread", "warn"}
Underway ==
  [at : Steps, file : File, key : Key, ref : Ref, asset : Assets, attempt : Nat, number : Nat]
AnswerKinds ==
  {"invalid", "replayed", "key reused", "reference taken", "references exhausted", "created"}
AnswerState ==
  [at : {"answered"}, file : File, key : Key, ref : Ref, asset : Assets,
   kind : AnswerKinds, batch : Nat, twin : Nat]

LEMMA StatesAre == UploadState = [at : {"unsent", "gone"}] \union Underway \union AnswerState
BY DEF UploadState, Underway, AnswerState, Steps, AnswerKinds

LEMMA UnderwayIs ==
  ASSUME UTyped, NEW s \in Uploads, uploads[s].at \in Steps
  PROVE  uploads[s] \in Underway
<1>1. PICK u : u = uploads[s]
  OBVIOUS
<1>2. u \in UploadState
  BY <1>1 DEF UTyped
<1>3. u \in [at : {"unsent", "gone"}] => u.at \notin Steps
  BY DEF Steps
<1>4. u \in AnswerState => u.at \notin Steps
  BY DEF AnswerState, Steps
<1> QED
  BY <1>1, <1>2, <1>3, <1>4, StatesAre

LEMMA RowsAre ==
  ASSUME UTyped
  PROVE  /\ Len(batches) \in Nat /\ DOMAIN batches = Rows
         /\ \A b \in Rows : batches[b] \in BatchRow /\ b \in Nat /\ b # 0
<1>1. batches \in Seq(BatchRow)
  BY DEF UTyped
<1>2. Len(batches) \in Nat /\ DOMAIN batches = 1 .. Len(batches)
  BY <1>1, LenProperties
<1>3. \A b \in 1 .. Len(batches) : batches[b] \in BatchRow
  BY <1>1, ElementOfSeq
<1> QED
  BY <1>2, <1>3 DEF Rows

LEMMA AnswerIs ==
  ASSUME NEW u \in Underway, NEW kind \in AnswerKinds, NEW b \in Nat
  PROVE  LET q == Answer(u, kind, b) IN
         /\ q \in UploadState /\ q.at = "answered" /\ q.kind = kind /\ q.batch = b /\ q.twin = None
         /\ q.file = u.file /\ q.key = u.key /\ q.ref = u.ref
<1>1. PICK q : q = Answer(u, kind, b)
  OBVIOUS
<1>2. q = [at |-> "answered", kind |-> kind, batch |-> b, twin |-> None,
           file |-> u.file, key |-> u.key, ref |-> u.ref, asset |-> u.asset]
  BY <1>1 DEF Answer
<1>3. q \in AnswerState
  BY <1>2 DEF AnswerState, Underway, None
<1>4. q \in UploadState
  BY <1>3, StatesAre
<1> QED
  BY <1>1, <1>2, <1>4

\* Batches are added, and grow older; nothing else happens to one.
Kept ==
  /\ Rows \subseteq Rows'
  /\ \A b \in Rows :
       /\ batches'[b].file = batches[b].file /\ batches'[b].key = batches[b].key
       /\ batches'[b].reference = batches[b].reference
       /\ batches'[b].fingerprint = batches[b].fingerprint
       /\ batches[b].aged => batches'[b].aged

LEMMA StillOnCourse ==
  ASSUME UTyped, Kept, NEW u, OnCourse(u), Told(u)
  PROVE  OnCourse(u)' /\ Told(u)'
<1>1. \A b : Suits(u, b) => Suits(u, b)'
  BY DEF Suits, Kept
<1>2. OnCourse(u)'
  BY <1>1 DEF OnCourse
<1>3. ASSUME u.at = "answered", u.kind = "created"
      PROVE  \/ u.twin # None /\ u.twin # u.batch
             \/ \A o \in Rows' : o < u.batch /\ batches'[o].file = u.file => batches'[o].aged
  <2>1. CASE u.twin # None /\ u.twin # u.batch
    BY <2>1
  <2>2. CASE \A o \in Rows : o < u.batch /\ batches[o].file = u.file => batches[o].aged
    <3>1. u.batch \in 1 .. Len(batches) /\ Len(batches) \in Nat
      BY <1>3, RowsAre DEF OnCourse, Suits, Rows
    <3>2. \A o \in Rows' : o < u.batch => o \in Rows
      BY <3>1 DEF Rows
    <3> QED
      BY <2>2, <3>2 DEF Kept
  <2> QED
    BY <1>3, <2>1, <2>2 DEF Told
<1>4. Told(u)'
  BY <1>3 DEF Told
<1> QED
  BY <1>2, <1>4

\* One request takes a step; what it makes, it made before or is new.
LEMMA RequestSteps ==
  ASSUME UInv, UTyped', Kept, Faithful', KeyNamesOne',
         NEW s \in Uploads, NEW q, uploads' = [uploads EXCEPT ![s] = q],
         OnCourse(q)', Told(q)',
         \A b \in Rows' : Makes(q, b) => Makes(uploads[s], b) \/ b \notin Rows
  PROVE  UInv'
<1>1. /\ uploads'[s] = q
      /\ \A t \in Uploads \ {s} : uploads'[t] = uploads[t]
  BY DEF UInv, UTyped
<1>2. ASSUME NEW t \in Uploads
      PROVE  OnCourse(uploads[t])' /\ Told(uploads[t])'
  <2>1. CASE t = s
    BY <1>1, <2>1
  <2>2. CASE t # s
    <3>1. PICK u : u = uploads[t]
      OBVIOUS
    <3>2. OnCourse(u) /\ Told(u)
      BY <3>1 DEF UInv, AllOnCourse, AllTold
    <3>3. OnCourse(u)' /\ Told(u)'
      BY <3>2, StillOnCourse DEF UInv
    <3>4. uploads'[t] = u
      BY <1>1, <2>2, <3>1
    <3> QED
      BY <3>3, <3>4
  <2> QED
    BY <2>1, <2>2
<1>3. AllOnCourse' /\ AllTold'
  BY <1>2 DEF AllOnCourse, AllTold
<1>4. MadeOnce'
  <2> SUFFICES ASSUME NEW t \in Uploads, NEW v \in Uploads, NEW b \in Rows',
                      Makes(uploads'[t], b), Makes(uploads'[v], b), t # v
               PROVE  FALSE
    BY DEF MadeOnce, Makes
  <2>1. ASSUME NEW w \in Uploads, w # s, Makes(uploads'[w], b)
        PROVE  Makes(uploads[w], b) /\ b \in Rows
    <3>1. Makes(uploads[w], b)
      BY <1>1, <2>1
    <3>2. OnCourse(uploads[w])
      BY DEF UInv, AllOnCourse
    <3>3. b # 0
      BY DEF Rows
    <3> QED
      BY <3>1, <3>2, <3>3 DEF Makes, OnCourse, Suits, None
  <2>2. ASSUME Makes(uploads'[s], b)
        PROVE  Makes(uploads[s], b) \/ b \notin Rows
    BY <1>1, <2>2
  <2> QED
    BY <2>1, <2>2 DEF UInv, MadeOnce
<1> QED
  BY <1>3, <1>4 DEF UInv

\* Without batches.
LEMMA RequestGoes ==
  ASSUME UInv, NEW s \in Uploads, NEW q \in UploadState, uploads' = [uploads EXCEPT ![s] = q],
         UNCHANGED <<settles, reconfigured, batches>>, OnCourse(q), Told(q),
         \A b \in Rows : Makes(q, b) => Makes(uploads[s], b)
  PROVE  UInv'
<1>1. Kept /\ Rows' = Rows
  BY DEF Kept, Rows
<1>2. UTyped'
  BY DEF UInv, UTyped
<1>3. Faithful' /\ KeyNamesOne'
  BY <1>1 DEF UInv, Faithful, KeyNamesOne
<1>4. OnCourse(q)' /\ Told(q)'
  BY <1>1, StillOnCourse DEF UInv
<1> QED
  BY <1>1, <1>2, <1>3, <1>4, RequestSteps

\* Answered without a batch, or with one that suits and is not its own making.
LEMMA AnswersKeep ==
  ASSUME UInv, NEW s \in Uploads, NEW kind \in AnswerKinds \ {"created"}, NEW b \in Nat,
         uploads[s] \in Underway, Answers(s, kind, b), b = None \/ Suits(uploads[s], b),
         UNCHANGED <<settles, reconfigured, batches>>
  PROVE  UInv'
<1>1. PICK u : u = uploads[s]
  OBVIOUS
<1>2. PICK q : q = Answer(u, kind, b)
  OBVIOUS
<1>3. /\ q \in UploadState /\ q.at = "answered" /\ q.kind = kind /\ q.batch = b
      /\ q.file = u.file /\ q.key = u.key /\ q.ref = u.ref
  BY <1>1, <1>2, AnswerIs
<1>4. OnCourse(q) /\ Told(q) /\ \A c \in Rows : ~Makes(q, c)
  BY <1>1, <1>3 DEF OnCourse, Told, Makes, Suits
<1>5. uploads' = [uploads EXCEPT ![s] = q]
  BY <1>1, <1>2 DEF Answers
<1> QED
  BY <1>3, <1>4, <1>5, RequestGoes

LEMMA ReplaysKeep ==
  ASSUME UInv, NEW s \in Uploads, uploads[s] \in Underway, NEW b \in WithKey(uploads[s].key),
         Replays(s, b), UNCHANGED <<settles, reconfigured, batches>>
  PROVE  UInv'
<1>1. b \in Rows /\ b \in Nat /\ uploads[s].key # NoKey /\ batches[b].key = uploads[s].key
  BY DEF WithKey, Rows
<1>2. CASE SameRequest(batches[b], uploads[s])
  <2>1. batches[b].fingerprint = <<uploads[s].file, uploads[s].ref, uploads[s].asset>>
    BY <1>2 DEF SameRequest, Fingerprint
  <2>2. /\ batches[b].fingerprint[1] = batches[b].file
        /\ batches[b].fingerprint[2] # None => batches[b].reference = batches[b].fingerprint[2]
    BY <1>1 DEF UInv, Faithful
  <2>3. Suits(uploads[s], b)
    BY <1>1, <2>1, <2>2 DEF Suits
  <2> QED
    BY <1>1, <1>2, <2>3, AnswersKeep DEF Replays, AnswerKinds
<1>3. CASE ~SameRequest(batches[b], uploads[s])
  BY <1>3, AnswersKeep DEF Replays, AnswerKinds, None
<1> QED
  BY <1>2, <1>3

LEMMA ProceedsKeeps ==
  ASSUME UInv, NEW s \in Uploads, uploads[s] \in Underway, NEW step \in {"number", "insert", "reread"},
         Proceeds(s, step), step = "number" => uploads[s].ref = None,
         step = "insert" => uploads[s].number # 0
                            /\ (uploads[s].ref # None => uploads[s].number = uploads[s].ref),
         UNCHANGED <<settles, reconfigured, batches>>
  PROVE  UInv'
<1>1. PICK u : u = uploads[s]
  OBVIOUS
<1>2. PICK q : q = [u EXCEPT !.at = step]
  OBVIOUS
<1>3. q \in Underway /\ q.at = step /\ q.number = u.number /\ q.ref = u.ref
  BY <1>1, <1>2 DEF Underway, Steps
<1>4. q \in UploadState /\ OnCourse(q) /\ Told(q) /\ \A c \in Rows : ~Makes(q, c)
  BY <1>1, <1>3, StatesAre DEF OnCourse, Told, Makes
<1>5. uploads' = [uploads EXCEPT ![s] = q]
  BY <1>1, <1>2 DEF Proceeds
<1> QED
  BY <1>4, <1>5, RequestGoes

LEMMA UploadKeeps ==
  ASSUME UInv, NEW s \in Uploads, NEW file \in File, NEW key \in Key, NEW ref \in Ref,
         Upload(s, file, key, ref)
  PROVE  UInv'
<1>1. PICK u : u = Request(file, key, ref)
  OBVIOUS
<1>2. u = [at |-> "look", file |-> file, key |-> key, ref |-> ref, asset |-> settles,
           attempt |-> 0, number |-> ref]
  BY <1>1 DEF Request
<1>3. u \in Underway /\ u.at = "look" /\ u.number = u.ref
  BY <1>2, UploadAssumption DEF Underway, Steps, UInv, UTyped, Ref, None
<1>4. u \in UploadState /\ OnCourse(u) /\ Told(u) /\ \A c \in Rows : ~Makes(u, c)
  BY <1>3, StatesAre DEF OnCourse, Told, Makes
<1>5. PICK q : q = Answer(u, "invalid", None)
  OBVIOUS
<1>6. q \in UploadState /\ q.at = "answered" /\ q.kind = "invalid" /\ q.batch = None
  <2>1. None \in Nat /\ "invalid" \in AnswerKinds
    BY DEF None, AnswerKinds
  <2> QED
    BY <1>3, <1>5, <2>1, AnswerIs
<1>7. OnCourse(q) /\ Told(q) /\ \A c \in Rows : ~Makes(q, c)
  BY <1>6 DEF OnCourse, Told, Makes
<1>8. /\ uploads' = [uploads EXCEPT ![s] = u] \/ uploads' = [uploads EXCEPT ![s] = q]
      /\ UNCHANGED <<settles, reconfigured, batches>>
  BY <1>1, <1>5 DEF Upload
<1> QED
  BY <1>4, <1>6, <1>7, <1>8, RequestGoes

LEMMA KeyLookKeeps ==
  ASSUME UInv, NEW s \in Uploads, LookForKey(s)
  PROVE  UInv'
<1>1. uploads[s] \in Underway /\ uploads[s].at = "look" /\ uploads[s].number = uploads[s].ref
  BY UnderwayIs DEF UInv, LookForKey, UploadAt, Steps, AllOnCourse, OnCourse
<1>2. UNCHANGED <<settles, reconfigured, batches>>
  BY DEF LookForKey
<1>3. CASE \E b \in WithKey(uploads[s].key) : Replays(s, b)
  BY <1>1, <1>2, <1>3, ReplaysKeep
<1>4. CASE uploads[s].ref = None /\ Proceeds(s, "number")
  BY <1>1, <1>2, <1>4, ProceedsKeeps
<1>5. CASE uploads[s].ref # None /\ Proceeds(s, "insert")
  BY <1>1, <1>2, <1>5, ProceedsKeeps DEF None
<1> QED
  BY <1>3, <1>4, <1>5 DEF LookForKey

LEMMA NumberKeeps ==
  ASSUME UInv, NEW s \in Uploads, GenerateReference(s)
  PROVE  UInv'
<1>1. PICK u : u = uploads[s]
  OBVIOUS
<1>2. u \in Underway /\ u.ref = None
  BY <1>1, UnderwayIs DEF UInv, GenerateReference, UploadAt, Steps, AllOnCourse, OnCourse
<1>3. PICK n : n = Len(batches) + 1 + u.attempt
  OBVIOUS
<1>4. n \in Nat /\ n # 0
  BY <1>2, <1>3, RowsAre DEF Underway, UInv
<1>5. PICK q : q = [u EXCEPT !.at = "insert", !.number = n]
  OBVIOUS
<1>6. q \in Underway /\ q.at = "insert" /\ q.number = n /\ q.ref = None
  BY <1>2, <1>4, <1>5 DEF Underway, Steps
<1>7. q \in UploadState /\ OnCourse(q) /\ Told(q) /\ \A c \in Rows : ~Makes(q, c)
  BY <1>4, <1>6, StatesAre DEF OnCourse, Told, Makes
<1>8. uploads' = [uploads EXCEPT ![s] = q]
  BY <1>1, <1>3, <1>5 DEF GenerateReference, UInv, UTyped
<1> QED
  BY <1>7, <1>8, RequestGoes DEF GenerateReference

\* InsertBatch writes what was asked for.
LEMMA BatchIs ==
  ASSUME UTyped, NEW u \in Underway, u.number # 0
  PROVE  LET b == Batch(u) IN
         /\ b \in BatchRow /\ b.reference = u.number /\ b.key = u.key /\ b.file = u.file
         /\ b.fingerprint = <<u.file, u.ref, u.asset>>
<1>1. Report(u.file, u.asset).rows \in Paid
  BY DEF Paid, Underway
<1>2. <<u.file, u.ref, u.asset>> \in File \X Ref \X Assets
  BY DEF Underway
<1>3. PICK p : p = Report(u.file, u.asset).rows
  OBVIOUS
<1>4. Batch(u) = [reference |-> u.number, key |-> u.key, fingerprint |-> <<u.file, u.ref, u.asset>>,
                  file |-> u.file, payments |-> p, aged |-> FALSE]
  BY <1>3 DEF Batch, Fingerprint
<1>5. u.number \in Nat \ {0} /\ u.key \in Key /\ u.file \in File /\ p \in Paid
  BY <1>1, <1>3 DEF Underway
<1> QED
  BY <1>2, <1>4, <1>5 DEF BatchRow

LEMMA AddedKeeps ==
  ASSUME UInv, NEW s \in Uploads, uploads[s].at = "insert", Refusals(uploads[s]) = {},
         batches' = Append(batches, Batch(uploads[s])),
         uploads' = [uploads EXCEPT ![s].at = "warn", ![s].number = Len(batches) + 1],
         UNCHANGED <<settles, reconfigured>>
  PROVE  UInv'
<1>1. PICK u : u = uploads[s]
  OBVIOUS
<1>2. u \in Underway /\ u.number # 0 /\ (u.ref # None => u.number = u.ref)
  BY <1>1, UnderwayIs DEF UInv, Steps, AllOnCourse, OnCourse
<1>3. PICK x : x = Batch(u)
  OBVIOUS
<1>4. /\ x \in BatchRow /\ x.reference = u.number /\ x.key = u.key /\ x.file = u.file
      /\ x.fingerprint = <<u.file, u.ref, u.asset>>
  BY <1>2, <1>3, BatchIs DEF UInv
<1>5. PICK n : n = Len(batches) + 1
  OBVIOUS
<1>6. Len(batches) \in Nat /\ n \in Nat /\ n # 0 /\ batches \in Seq(BatchRow)
  BY <1>5, RowsAre DEF UInv, UTyped
<1>7. /\ batches' \in Seq(BatchRow) /\ Len(batches') = n
      /\ \A b \in 1 .. Len(batches) : batches'[b] = batches[b]
      /\ batches'[n] = x
  BY <1>1, <1>3, <1>4, <1>5, <1>6, AppendProperties
<1>8. /\ Rows' = Rows \union {n} /\ n \notin Rows
      /\ \A b \in Rows : batches'[b] = batches[b]
  BY <1>5, <1>6, <1>7 DEF Rows
<1>9. PICK q : q = [u EXCEPT !.at = "warn", !.number = n]
  OBVIOUS
<1>10. /\ q \in Underway /\ q.at = "warn" /\ q.number = n
       /\ q.file = u.file /\ q.key = u.key /\ q.ref = u.ref
  BY <1>2, <1>6, <1>9 DEF Underway, Steps
<1>11. uploads' = [uploads EXCEPT ![s] = q]
  BY <1>1, <1>5, <1>9 DEF UInv, UTyped
<1>12. Kept
  BY <1>8 DEF Kept
<1>13. UTyped'
  <2>1. q \in UploadState
    BY <1>10, StatesAre
  <2> QED
    BY <1>7, <1>11, <2>1 DEF UInv, UTyped
<1>14. Faithful'
  <2>1. x.fingerprint[1] = x.file /\ (x.fingerprint[2] # None => x.reference = x.fingerprint[2])
    BY <1>2, <1>4
  <2> QED
    BY <1>7, <1>8, <2>1 DEF UInv, Faithful
<1>15. KeyNamesOne'
  <2>1. WithKey(u.key) = {}
    <3>1. PICK none : none \notin {}
      OBVIOUS
    <3>2. \A b \in WithKey(u.key) : "key" \in Refusals(u)
      BY DEF Refusals
    <3> QED
      BY <1>1, <3>2
  <2>2. x.key # NoKey => \A b \in Rows : batches[b].key # x.key
    BY <1>4, <2>1 DEF WithKey, Rows
  <2> SUFFICES ASSUME NEW b \in Rows', NEW c \in Rows',
                      batches'[b].key = batches'[c].key, batches'[b].key # NoKey
               PROVE  b = c
    BY DEF KeyNamesOne
  <2>3. CASE b \in Rows /\ c \in Rows
    BY <1>8, <2>3 DEF UInv, KeyNamesOne
  <2>4. CASE b = n \/ c = n
    BY <1>7, <1>8, <2>2, <2>4
  <2> QED
    BY <1>8, <2>3, <2>4
<1>16. OnCourse(q)' /\ Told(q)'
  BY <1>2, <1>4, <1>7, <1>8, <1>10 DEF OnCourse, Told, Suits
<1>17. \A b \in Rows' : Makes(q, b) => b \notin Rows
  BY <1>8, <1>10 DEF Makes
<1> QED
  BY <1>11, <1>12, <1>13, <1>14, <1>15, <1>16, <1>17, RequestSteps

\* What becomes of a request whose batch is refused.
LEMMA RefusedIs ==
  ASSUME NEW s \in Uploads, InsertBatch(s), Refusals(uploads[s]) # {}
  PROVE  /\ UNCHANGED batches
         /\ \/ Proceeds(s, "reread")
            \/ Answers(s, "reference taken", None)
            \/ /\ uploads[s].ref = None
               /\ uploads' = [uploads EXCEPT ![s].at = "number", ![s].attempt = @ + 1]
            \/ Answers(s, "references exhausted", None)
BY DEF InsertBatch, ReferenceRefused

LEMMA InsertKeeps ==
  ASSUME UInv, NEW s \in Uploads, InsertBatch(s)
  PROVE  UInv'
<1>1. uploads[s].at = "insert" /\ UNCHANGED <<settles, reconfigured>>
  BY DEF InsertBatch, UploadAt
<1>2. uploads[s] \in Underway
  BY <1>1, UnderwayIs DEF UInv, Steps
<1>3. CASE Refusals(uploads[s]) = {}
  <2>1. /\ batches' = Append(batches, Batch(uploads[s]))
        /\ uploads' = [uploads EXCEPT ![s].at = "warn", ![s].number = Len(batches) + 1]
    BY <1>3 DEF InsertBatch
  <2> QED
    BY <1>1, <1>3, <2>1, AddedKeeps
<1>4. CASE Refusals(uploads[s]) # {}
  <2>1. UNCHANGED batches
    BY <1>4, RefusedIs
  <2>2. CASE Proceeds(s, "reread")
    BY <1>1, <1>2, <2>1, <2>2, ProceedsKeeps
  <2>3. CASE Answers(s, "reference taken", None) \/ Answers(s, "references exhausted", None)
    BY <1>1, <1>2, <2>1, <2>3, AnswersKeep DEF AnswerKinds, None
  <2>4. CASE /\ uploads[s].ref = None
             /\ uploads' = [uploads EXCEPT ![s].at = "number", ![s].attempt = @ + 1]
    <3>1. PICK u : u = uploads[s]
      OBVIOUS
    <3>2. PICK q : q = [u EXCEPT !.at = "number", !.attempt = u.attempt + 1]
      OBVIOUS
    <3>3. q \in Underway /\ q.at = "number" /\ q.ref = None
      <4>1. u \in Underway /\ u.ref = None
        BY <1>2, <2>4, <3>1
      <4>2. u.attempt + 1 \in Nat
        BY <4>1 DEF Underway
      <4> QED
        BY <3>2, <4>1, <4>2 DEF Underway, Steps
    <3>4. q \in UploadState /\ OnCourse(q) /\ Told(q) /\ \A c \in Rows : ~Makes(q, c)
      BY <3>3, StatesAre DEF OnCourse, Told, Makes
    <3>5. uploads' = [uploads EXCEPT ![s] = q]
      BY <2>4, <3>1, <3>2 DEF UInv, UTyped
    <3> QED
      BY <1>1, <2>1, <3>4, <3>5, RequestGoes
  <2> QED
    BY <1>4, <2>2, <2>3, <2>4, RefusedIs
<1> QED
  BY <1>3, <1>4

LEMMA RereadKeeps ==
  ASSUME UInv, NEW s \in Uploads, RereadKey(s)
  PROVE  UInv'
<1>1. uploads[s] \in Underway
  BY UnderwayIs DEF UInv, RereadKey, UploadAt, Steps
<1> QED
  BY <1>1, ReplaysKeep DEF RereadKey

\* findDuplicateUpload names a batch that is a twin, if there is one.
LEMMA TwinIs ==
  ASSUME UTyped, NEW b, Twins(b) # {}
  PROVE  (CHOOSE t \in Twins(b) : \A o \in Twins(b) : o <= t) \in Twins(b)
<1>1. Twins(b) \subseteq 1 .. Len(batches) /\ Len(batches) \in Nat
  BY RowsAre DEF Twins
<1>2. \E t \in Twins(b) : \A o \in Twins(b) : o <= t
  BY <1>1, LastNatural
<1> QED
  BY <1>2

LEMMA WarnKeeps ==
  ASSUME UInv, NEW s \in Uploads, WarnOfTwin(s)
  PROVE  UInv'
<1>1. PICK u : u = uploads[s]
  OBVIOUS
<1>2. u \in Underway /\ u.at = "warn" /\ Suits(u, u.number)
  BY <1>1, UnderwayIs DEF UInv, WarnOfTwin, UploadAt, Steps, AllOnCourse, OnCourse
<1>3. PICK b : b = u.number
  OBVIOUS
<1>4. PICK twin : twin = IF Twins(b) = {} THEN None
                         ELSE CHOOSE t \in Twins(b) : \A o \in Twins(b) : o <= t
  OBVIOUS
<1>5. (Twins(b) = {} /\ twin = None) \/ twin \in Twins(b)
  BY <1>4, TwinIs DEF UInv
<1>6. b \in Rows /\ b \in Nat /\ b # 0
  BY <1>2, <1>3, RowsAre DEF Suits, UInv
<1>7. twin \in Nat
  BY <1>5 DEF Twins, None
<1>8. PICK a : a = Answer(u, "created", b)
  OBVIOUS
<1>9. "created" \in AnswerKinds
  BY DEF AnswerKinds
<1>10. a \in AnswerState /\ a.kind = "created" /\ a.batch = b
       /\ a.file = u.file /\ a.key = u.key /\ a.ref = u.ref
  <2>1. a = [at |-> "answered", kind |-> "created", batch |-> b, twin |-> None,
             file |-> u.file, key |-> u.key, ref |-> u.ref, asset |-> u.asset]
    BY <1>8 DEF Answer
  <2> QED
    BY <1>2, <1>6, <1>9, <2>1 DEF AnswerState, Underway, None
<1>11. PICK q : q = [a EXCEPT !.twin = twin]
  OBVIOUS
<1>12. /\ q \in AnswerState /\ q.at = "answered" /\ q.kind = "created" /\ q.batch = b /\ q.twin = twin
       /\ q.file = u.file /\ q.key = u.key /\ q.ref = u.ref
  BY <1>7, <1>10, <1>11 DEF AnswerState
<1>13. q \in UploadState
  BY <1>12, StatesAre
<1>14. OnCourse(q)
  BY <1>2, <1>3, <1>6, <1>12 DEF OnCourse, Suits, None
<1>15. Told(q)
  <2>1. CASE twin \in Twins(b)
    BY <1>12, <2>1 DEF Told, Twins, None
  <2>2. CASE Twins(b) = {}
    <3>1. \A o \in Rows : o # b /\ batches[o].file = batches[b].file => batches[o].aged
      <4> SUFFICES ASSUME NEW o \in Rows, o # b, batches[o].file = batches[b].file, ~batches[o].aged
                   PROVE  FALSE
        BY RowsAre DEF UInv, BatchRow
      <4>1. o \in Twins(b)
        BY DEF Twins, Rows
      <4> QED
        BY <2>2, <4>1
    <3>2. batches[b].file = u.file
      BY <1>2, <1>3 DEF Suits
    <3>3. \A o \in Rows : o < b => o # b
      BY <1>6, RowsAre DEF UInv
    <3> QED
      BY <1>12, <3>1, <3>2, <3>3 DEF Told
  <2> QED
    BY <1>5, <2>1, <2>2
<1>16. \A c \in Rows : Makes(q, c) => Makes(uploads[s], c)
  BY <1>1, <1>2, <1>3, <1>12 DEF Makes
<1>17. uploads' = [uploads EXCEPT ![s] = q] /\ UNCHANGED <<settles, reconfigured, batches>>
  BY <1>1, <1>3, <1>4, <1>8, <1>11 DEF WarnOfTwin
<1> QED
  BY <1>13, <1>14, <1>15, <1>16, <1>17, RequestGoes

LEMMA UploadDiesKeeps ==
  ASSUME UInv, NEW s \in Uploads, DiesUploading(s)
  PROVE  UInv'
<1>1. PICK q : q = [at |-> "gone"]
  OBVIOUS
<1>2. q \in UploadState /\ OnCourse(q) /\ Told(q) /\ \A c \in Rows : ~Makes(q, c)
  BY <1>1, StatesAre DEF OnCourse, Told, Makes
<1> QED
  BY <1>1, <1>2, RequestGoes DEF DiesUploading

LEMMA HourKeeps ==
  ASSUME UInv, HourPasses
  PROVE  UInv'
<1>1. /\ batches' = [b \in 1 .. Len(batches) |-> [batches[b] EXCEPT !.aged = TRUE]]
      /\ UNCHANGED <<settles, reconfigured, uploads>>
  BY DEF HourPasses
<1>2. ASSUME NEW b \in Rows
      PROVE  /\ batches'[b] \in BatchRow /\ batches'[b].aged
             /\ batches'[b].file = batches[b].file /\ batches'[b].key = batches[b].key
             /\ batches'[b].reference = batches[b].reference
             /\ batches'[b].fingerprint = batches[b].fingerprint
  <2>1. PICK x : x = batches[b]
    OBVIOUS
  <2>2. PICK y : y = [x EXCEPT !.aged = TRUE]
    OBVIOUS
  <2>3. x \in BatchRow
    BY <2>1, RowsAre DEF UInv
  <2>4. /\ y \in BatchRow /\ y.aged /\ y.file = x.file /\ y.key = x.key
        /\ y.reference = x.reference /\ y.fingerprint = x.fingerprint
    BY <2>2, <2>3 DEF BatchRow
  <2>5. batches'[b] = y
    BY <1>1, <2>1, <2>2 DEF Rows
  <2> QED
    BY <2>1, <2>4, <2>5
<1>3. Len(batches) \in Nat
  BY RowsAre DEF UInv
<1>4. batches' \in [1 .. Len(batches) -> BatchRow]
  BY <1>1, <1>2 DEF Rows
<1>5. batches' \in Seq(BatchRow) /\ Len(batches') = Len(batches)
  BY <1>3, <1>4, SeqDef, LenProperties
<1>6. Rows' = Rows /\ Kept
  BY <1>2, <1>5 DEF Rows, Kept
<1>7. UTyped'
  BY <1>1, <1>5 DEF UInv, UTyped
<1>8. Faithful' /\ KeyNamesOne'
  BY <1>2, <1>6 DEF UInv, Faithful, KeyNamesOne
<1>9. AllOnCourse' /\ AllTold'
  <2> SUFFICES ASSUME NEW t \in Uploads PROVE OnCourse(uploads[t])' /\ Told(uploads[t])'
    BY DEF AllOnCourse, AllTold
  <2>1. PICK u : u = uploads[t]
    OBVIOUS
  <2>2. OnCourse(u)' /\ Told(u)'
    BY <1>6, <2>1, StillOnCourse DEF UInv, AllOnCourse, AllTold
  <2>3. uploads'[t] = u
    BY <1>1, <2>1
  <2> QED
    BY <2>2, <2>3
<1>10. MadeOnce'
  BY <1>1, <1>6 DEF UInv, MadeOnce, Makes
<1> QED
  BY <1>7, <1>8, <1>9, <1>10 DEF UInv

LEMMA ReconfigureKeeps ==
  ASSUME UInv, Reconfigure
  PROVE  UInv'
<1>1. UTyped'
  BY UploadAssumption DEF UInv, UTyped, Reconfigure
<1>2. UNCHANGED <<batches, uploads>>
  BY DEF Reconfigure
<1>3. Rows' = Rows /\ Faithful' /\ KeyNamesOne' /\ MadeOnce'
  BY <1>2 DEF UInv, Rows, Faithful, KeyNamesOne, MadeOnce, Makes
<1>4. AllOnCourse' /\ AllTold'
  BY <1>2, <1>3 DEF UInv, AllOnCourse, OnCourse, Suits, AllTold, Told
<1> QED
  BY <1>1, <1>3, <1>4 DEF UInv

LEMMA UploadsStart == UploadInit => UInv
<1> SUFFICES ASSUME UploadInit PROVE UInv
  OBVIOUS
<1>1. PICK u : u = Unsent
  OBVIOUS
<1>2. u \in UploadState /\ u.at = "unsent"
  BY <1>1, StatesAre DEF Unsent
<1>3. uploads = [s \in Uploads |-> u]
  BY <1>1 DEF UploadInit
<1>4. batches \in Seq(BatchRow) /\ Len(batches) = 0
  BY EmptySeq DEF UploadInit
<1>5. Rows = {}
  BY <1>4 DEF Rows
<1>6. UTyped
  BY <1>2, <1>3, <1>4, UploadAssumption DEF UploadInit, UTyped
<1>7. \A s \in Uploads : OnCourse(uploads[s]) /\ Told(uploads[s])
  BY <1>2, <1>3 DEF OnCourse, Told
<1> QED
  BY <1>5, <1>6, <1>7 DEF UInv, Faithful, KeyNamesOne, AllOnCourse, MadeOnce, AllTold

LEMMA UploadsInductive == UInv /\ [UploadNext]_uploadVars => UInv'
<1> SUFFICES ASSUME UInv, [UploadNext]_uploadVars PROVE UInv'
  OBVIOUS
<1>1. CASE UNCHANGED uploadVars
  BY <1>1 DEF uploadVars, UInv, UTyped, Rows, Faithful, KeyNamesOne, AllOnCourse, OnCourse, Suits,
     MadeOnce, Makes, AllTold, Told
<1>2. CASE UploadNext
  <2>1. ASSUME NEW s \in Uploads,
               \/ LookForKey(s) \/ GenerateReference(s) \/ InsertBatch(s) \/ RereadKey(s)
               \/ WarnOfTwin(s) \/ DiesUploading(s)
        PROVE  UInv'
    BY <2>1, KeyLookKeeps, NumberKeeps, InsertKeeps, RereadKeeps, WarnKeeps, UploadDiesKeeps
  <2>2. ASSUME NEW s \in Uploads, NEW file \in DOMAIN Files, NEW key \in UploadKeys \union {NoKey},
               NEW ref \in References \union {None}, Upload(s, file, key, ref)
        PROVE  UInv'
    BY <2>2, UploadKeeps DEF File, Key, Ref
  <2> QED
    BY <1>2, <2>1, <2>2, HourKeeps, ReconfigureKeeps DEF UploadNext
<1> QED
  BY <1>1, <1>2

LEMMA UploadsAlways == UploadSpec => []UInv
BY UploadsStart, UploadsInductive, PTL DEF UploadSpec

------------------------------------------------------------------------------
\* createBatch: however requests under a key overlap, die and are sent again, a
\* request is answered with a batch of its own file and reference, and every
\* request under one key with the same batch.
THEOREM OwnBatch == UploadSpec => []AnsweredWithOwnBatch
<1>1. UInv => AnsweredWithOwnBatch
  <2> SUFFICES ASSUME UInv, NEW s \in Uploads, Answered(s)
               PROVE  /\ batches[uploads[s].batch].file = uploads[s].file
                      /\ uploads[s].ref # None => batches[uploads[s].batch].reference = uploads[s].ref
                      /\ uploads[s].key # NoKey =>
                           \A t \in Uploads : Answered(t) /\ uploads[t].key = uploads[s].key =>
                             uploads[t].batch = uploads[s].batch
    BY DEF AnsweredWithOwnBatch
  <2>1. \A t \in Uploads : Answered(t) => Suits(uploads[t], uploads[t].batch)
    BY DEF UInv, AllOnCourse, OnCourse, Answered, UploadAt
  <2>2. \A t \in Uploads : Answered(t) /\ uploads[t].key = uploads[s].key /\ uploads[s].key # NoKey =>
          uploads[t].batch = uploads[s].batch
    BY <2>1 DEF UInv, KeyNamesOne, Suits
  <2> QED
    BY <2>1, <2>2 DEF Suits
<1> QED
  BY <1>1, UploadsAlways, PTL

\* findDuplicateUpload: of two batches of one file made within the hour, the
\* later one was made by a request that was told of another.
THEOREM TwinsAreTold == UploadSpec => []NoSilentTwin
<1>1. UInv => NoSilentTwin
  <2> SUFFICES ASSUME UInv, NEW s \in Uploads, NEW t \in Uploads,
                      Answered(s), Answered(t),
                      uploads[s].kind = "created", uploads[t].kind = "created",
                      s # t, uploads[s].file = uploads[t].file,
                      ~batches[uploads[s].batch].aged, ~batches[uploads[t].batch].aged
               PROVE  \E r \in {s, t} : uploads[r].twin # None /\ uploads[r].twin # uploads[r].batch
    BY DEF NoSilentTwin
  <2>1. \A r \in {s, t} :
          /\ uploads[r].at = "answered" /\ uploads[r].kind = "created"
          /\ uploads[r].batch \in Rows /\ batches[uploads[r].batch].file = uploads[r].file
    BY DEF UInv, AllOnCourse, OnCourse, Answered, UploadAt, Suits
  <2>2. uploads[s].batch # uploads[t].batch
    BY <2>1 DEF UInv, MadeOnce, Makes
  <2>3. uploads[s].batch < uploads[t].batch \/ uploads[t].batch < uploads[s].batch
    BY <2>1, <2>2, RowsAre DEF UInv
  <2>4. Told(uploads[s]) /\ Told(uploads[t])
    BY DEF UInv, AllTold
  <2> QED
    BY <2>1, <2>3, <2>4 DEF Told
<1> QED
  BY <1>1, UploadsAlways, PTL

\* Batches and requests stay well formed: every batch has a reference of one or
\* more, a key it was asked for and a file.
THEOREM UploadsTyped == UploadSpec => []UploadTypeOK
<1>1. UInv => UploadTypeOK
  <2> SUFFICES ASSUME UInv PROVE UploadTypeOK
    OBVIOUS
  <2>1. settles \in Assets /\ reconfigured \in 0 .. MaxReconfigured
    BY DEF UInv, UTyped
  <2>2. ASSUME NEW b \in 1 .. Len(batches)
        PROVE  /\ batches[b].reference \in Nat \ {0} /\ batches[b].key \in UploadKeys \union {NoKey}
               /\ batches[b].file \in DOMAIN Files /\ batches[b].aged \in BOOLEAN
    <3>1. batches[b] \in BatchRow
      BY RowsAre DEF UInv, Rows
    <3> QED
      BY <3>1 DEF BatchRow, Key, File
  <2>3. ASSUME NEW s \in Uploads
        PROVE  uploads[s].at \in {"unsent", "look", "number", "insert", "reread", "warn", "answered", "gone"}
    <3>1. PICK u : u = uploads[s]
      OBVIOUS
    <3>2. u \in UploadState
      BY <3>1 DEF UInv, UTyped
    <3>3. \/ u \in [at : {"unsent", "gone"}]
          \/ u \in Underway
          \/ u \in AnswerState
      BY <3>2, StatesAre
    <3> QED
      BY <3>1, <3>3 DEF Underway, Steps, AnswerState
  <2> QED
    BY <2>1, <2>2, <2>3 DEF UploadTypeOK
<1> QED
  BY <1>1, UploadsAlways, PTL

------------------------------------------------------------------------------
\* Verification of what was paid.

VerifierSpec == VerifierInit /\ [][VerifierNext]_verifierVars

------------------------------------------------------------------------------
\* What the contract transferred for the escrow is there, under its ledger.
Transaction ==
  [from : {Contract, "stranger"}, payments : Payrolls \union Strangers \union {<<>>}]
VTyped ==
  /\ ledgers \in Seq(Transaction) /\ Len(ledgers) <= MaxLedger
  /\ escrow \in [payments : Payrolls, at : 0 .. MaxLedger]
Transferred ==
  escrow.at # Unsettled =>
    /\ escrow.at \in 1 .. Len(ledgers)
    /\ ledgers[escrow.at].from = Contract /\ ledgers[escrow.at].payments = escrow.payments
VInv == VTyped /\ Transferred

LEMMA VerifierStarts == VerifierInit => VInv
<1> SUFFICES ASSUME VerifierInit PROVE VInv
  OBVIOUS
<1>1. ledgers \in Seq(Transaction) /\ Len(ledgers) = 0 /\ MaxLedger \in Nat
  BY EmptySeq, VerifierAssumption DEF VerifierInit
<1> QED
  BY <1>1 DEF VerifierInit, VInv, VTyped, Transferred, Unsettled

LEMMA AddedLedger ==
  ASSUME VInv, NEW x \in Transaction, Len(ledgers) < MaxLedger, ledgers' = Append(ledgers, x)
  PROVE  /\ ledgers' \in Seq(Transaction) /\ Len(ledgers') = Len(ledgers) + 1
         /\ Len(ledgers') <= MaxLedger /\ Len(ledgers) \in Nat
         /\ \A l \in 1 .. Len(ledgers) : ledgers'[l] = ledgers[l]
         /\ ledgers'[Len(ledgers) + 1] = x
<1>1. ledgers \in Seq(Transaction)
  BY DEF VInv, VTyped
<1>2. /\ Append(ledgers, x) \in Seq(Transaction) /\ Len(Append(ledgers, x)) = Len(ledgers) + 1
      /\ \A l \in 1 .. Len(ledgers) : Append(ledgers, x)[l] = ledgers[l]
      /\ Append(ledgers, x)[Len(ledgers) + 1] = x
      /\ Len(ledgers) \in Nat
  BY <1>1, AppendProperties, LenProperties
<1>3. MaxLedger \in Nat
  BY VerifierAssumption
<1> QED
  BY <1>2, <1>3

LEMMA TransactKeeps ==
  ASSUME VInv, NEW from \in {Contract, "stranger"},
         NEW p \in Payrolls \union Strangers \union {<<>>}, Transact(from, p)
  PROVE  VInv'
<1>1. PICK x : x = [from |-> from, payments |-> p]
  OBVIOUS
<1>2. x \in Transaction
  BY <1>1 DEF Transaction
<1>3. ledgers' = Append(ledgers, x) /\ Len(ledgers) < MaxLedger /\ escrow' = escrow
  BY <1>1 DEF Transact
<1>4. /\ ledgers' \in Seq(Transaction) /\ Len(ledgers') = Len(ledgers) + 1
      /\ Len(ledgers') <= MaxLedger /\ Len(ledgers) \in Nat
      /\ \A l \in 1 .. Len(ledgers) : ledgers'[l] = ledgers[l]
  BY <1>2, <1>3, AddedLedger
<1>5. VTyped'
  BY <1>3, <1>4 DEF VInv, VTyped
<1>6. Transferred'
  BY <1>3, <1>4 DEF VInv, Transferred
<1> QED
  BY <1>5, <1>6 DEF VInv

LEMMA FinalizeKeeps ==
  ASSUME VInv, FinalizeEscrow
  PROVE  VInv'
<1>1. PICK x : x = [from |-> Contract, payments |-> escrow.payments]
  OBVIOUS
<1>2. PICK e : e = escrow
  OBVIOUS
<1>3. e \in [payments : Payrolls, at : 0 .. MaxLedger]
  BY <1>2 DEF VInv, VTyped
<1>4. x \in Transaction
  BY <1>1, <1>2, <1>3 DEF Transaction
<1>5. PICK n : n = Len(ledgers) + 1
  OBVIOUS
<1>6. ledgers' = Append(ledgers, x) /\ Len(ledgers) < MaxLedger
  BY <1>1 DEF FinalizeEscrow
<1>7. /\ ledgers' \in Seq(Transaction) /\ Len(ledgers') = n /\ n <= MaxLedger
      /\ Len(ledgers) \in Nat /\ ledgers'[n] = x
  BY <1>4, <1>5, <1>6, AddedLedger
<1>8. PICK f : f = [e EXCEPT !.at = n]
  OBVIOUS
<1>9. f \in [payments : Payrolls, at : 0 .. MaxLedger] /\ f.at = n /\ f.payments = e.payments
  <2>1. n \in 0 .. MaxLedger
    BY <1>5, <1>7, VerifierAssumption
  <2> QED
    BY <1>3, <1>8, <2>1
<1>10. escrow' = f
  BY <1>2, <1>5, <1>8 DEF FinalizeEscrow
<1>11. VTyped'
  BY <1>7, <1>9, <1>10 DEF VTyped
<1>12. Transferred'
  BY <1>1, <1>2, <1>5, <1>7, <1>9, <1>10 DEF Transferred
<1> QED
  BY <1>11, <1>12 DEF VInv

LEMMA VerifierInductive == VInv /\ [VerifierNext]_verifierVars => VInv'
<1> SUFFICES ASSUME VInv, [VerifierNext]_verifierVars PROVE VInv'
  OBVIOUS
<1>1. CASE UNCHANGED verifierVars
  BY <1>1 DEF verifierVars, VInv, VTyped, Transferred
<1>2. CASE VerifierNext
  BY <1>2, TransactKeeps, FinalizeKeeps DEF VerifierNext
<1> QED
  BY <1>1, <1>2

LEMMA VerifierAlways == VerifierSpec => []VInv
BY VerifierStarts, VerifierInductive, PTL DEF VerifierSpec

------------------------------------------------------------------------------
\* What is read and matched, by what the ledgers hold.
Transfer(l, i) ==
  [from |-> ledgers[l].from, payment |-> ledgers[l].payments[i], tx |-> l, nth |-> i]
Settles(l, i, p, tx) ==
  /\ l \in Reads /\ i \in 1 .. Len(ledgers[l].payments)
  /\ ledgers[l].from = Contract /\ ledgers[l].payments[i] = p /\ tx \in {Unsettled, l}
Matched(p, tx) == MatchSettlementTransfer(ReadTransfers(p.asset), p, tx)

LEMMA TransferIs ==
  ASSUME NEW l, NEW i
  PROVE  /\ Transfer(l, i).from = ledgers[l].from /\ Transfer(l, i).payment = ledgers[l].payments[i]
         /\ Transfer(l, i).tx = l /\ Transfer(l, i).nth = i
BY DEF Transfer

LEMMA ReadIs ==
  ASSUME NEW asset, NEW t
  PROVE  t \in ReadTransfers(asset) <=>
           \E l \in Reads : \E i \in 1 .. Len(ledgers[l].payments) :
             ledgers[l].payments[i].asset = asset /\ t = Transfer(l, i)
BY DEF ReadTransfers, TransfersIn, Transfer

LEMMA MatchedIs ==
  ASSUME NEW p, NEW tx, NEW t
  PROVE  t \in Matched(p, tx) <=> \E l, i : Settles(l, i, p, tx) /\ t = Transfer(l, i)
<1>1. ASSUME t \in Matched(p, tx)
      PROVE  \E l, i : Settles(l, i, p, tx) /\ t = Transfer(l, i)
  <2>1. /\ t \in ReadTransfers(p.asset) /\ t.from = Contract /\ t.payment = p
        /\ tx \in {Unsettled, t.tx}
    BY <1>1 DEF Matched, MatchSettlementTransfer
  <2>2. PICK l \in Reads : \E i \in 1 .. Len(ledgers[l].payments) : t = Transfer(l, i)
    BY <2>1, ReadIs
  <2>3. PICK i \in 1 .. Len(ledgers[l].payments) : t = Transfer(l, i)
    BY <2>2
  <2>4. Settles(l, i, p, tx)
    BY <2>1, <2>3, TransferIs DEF Settles
  <2> QED
    BY <2>3, <2>4
<1>2. ASSUME NEW l, NEW i, Settles(l, i, p, tx), t = Transfer(l, i)
      PROVE  t \in Matched(p, tx)
  <2>1. t \in ReadTransfers(p.asset)
    BY <1>2, ReadIs DEF Settles
  <2>2. t.from = Contract /\ t.payment = p /\ tx \in {Unsettled, t.tx}
    BY <1>2, TransferIs DEF Settles
  <2> QED
    BY <2>1, <2>2 DEF Matched, MatchSettlementTransfer
<1> QED
  BY <1>1, <1>2

\* Two transfers are matched in one transaction just if it pays twice.
LEMMA DuplicatedIs ==
  ASSUME NEW p, NEW tx
  PROVE  DuplicatedIn(Matched(p, tx)) <=> \E l \in Reads : PaidTwiceIn(l, p) /\ tx \in {Unsettled, l}
<1>1. ASSUME DuplicatedIn(Matched(p, tx))
      PROVE  \E l \in Reads : PaidTwiceIn(l, p) /\ tx \in {Unsettled, l}
  <2>1. PICK s, t \in Matched(p, tx) : s # t /\ s.tx = t.tx
    BY <1>1 DEF DuplicatedIn
  <2>2. PICK l, i : Settles(l, i, p, tx) /\ s = Transfer(l, i)
    BY <2>1, MatchedIs
  <2>3. PICK m, k : Settles(m, k, p, tx) /\ t = Transfer(m, k)
    BY <2>1, MatchedIs
  <2>4. l = m
    BY <2>1, <2>2, <2>3, TransferIs
  <2>5. i # k
    BY <2>1, <2>2, <2>3, <2>4
  <2> QED
    BY <2>2, <2>3, <2>4, <2>5 DEF Settles, PaidTwiceIn, Twice
<1>2. ASSUME NEW l \in Reads, PaidTwiceIn(l, p), tx \in {Unsettled, l}
      PROVE  DuplicatedIn(Matched(p, tx))
  <2>1. PICK i \in 1 .. Len(ledgers[l].payments) :
          ledgers[l].payments[i] = p /\ Twice(ledgers[l].payments, i)
    BY <1>2 DEF PaidTwiceIn
  <2>2. PICK k \in 1 .. Len(ledgers[l].payments) : k # i /\ ledgers[l].payments[k] = p
    BY <2>1 DEF Twice
  <2>3. Settles(l, i, p, tx) /\ Settles(l, k, p, tx)
    BY <1>2, <2>1, <2>2 DEF Settles, PaidTwiceIn
  <2>4. Transfer(l, i) \in Matched(p, tx) /\ Transfer(l, k) \in Matched(p, tx)
    BY <2>3, MatchedIs
  <2>5. Transfer(l, i) # Transfer(l, k) /\ Transfer(l, i).tx = Transfer(l, k).tx
    BY <2>2, TransferIs
  <2> QED
    BY <2>4, <2>5 DEF DuplicatedIn
<1> QED
  BY <1>1, <1>2

LEMMA VerdictIs ==
  ASSUME NEW payments, NEW i, NEW tx, NEW recorded,
         tx = IF recorded # Unsettled THEN recorded
              ELSE InferSettlementTransaction(ReadTransfers(payments[i].asset), payments)
  PROVE  LET matched == Matched(payments[i], tx)
             verdict == Verdict(payments, i, recorded)
         IN  /\ "CONFIRMED" \in verdict <=> matched # {}
             /\ "DUPLICATE_PAYMENT_EVENT" \in verdict <=> DuplicatedIn(matched)
<1> DEFINE matched == Matched(payments[i], tx)
<1>1. DuplicatedIn(matched) => matched # {}
  BY DEF DuplicatedIn
<1>2. \/ DuplicatedIn(matched) /\ Verdict(payments, i, recorded) = {"CONFIRMED", "DUPLICATE_PAYMENT_EVENT"}
      \/ /\ ~DuplicatedIn(matched) /\ matched # {}
         /\ Verdict(payments, i, recorded) = {"CONFIRMED"}
      \/ /\ ~DuplicatedIn(matched) /\ matched = {}
         /\ Verdict(payments, i, recorded) \in {{"ABSENT", "AMOUNT_MISMATCH"}, {"ABSENT"}}
  BY DEF Verdict, Matched
<1> HIDE DEF matched
<1>3. /\ "CONFIRMED" \in Verdict(payments, i, recorded) <=> matched # {}
      /\ "DUPLICATE_PAYMENT_EVENT" \in Verdict(payments, i, recorded) <=> DuplicatedIn(matched)
  BY <1>1, <1>2
<1> QED
  BY <1>3 DEF matched

\* inferSettlementTransaction takes a transaction that pays everybody, if any.
LEMMA InferredIs ==
  ASSUME VInv, NEW payments, NEW i \in 1 .. Len(payments)
  PROVE  LET transfers == ReadTransfers(payments[i].asset)
             tx == InferSettlementTransaction(transfers, payments)
         IN  tx = Unsettled \/ Matched(payments[i], tx) # {}
<1> DEFINE transfers == ReadTransfers(payments[i].asset)
           covering == {t.tx : t \in {t \in transfers : CoversAll(transfers, t.tx, payments)}}
           tx == InferSettlementTransaction(transfers, payments)
<1>1. covering \subseteq 1 .. Len(ledgers) /\ Len(ledgers) \in Nat
  <2>1. \A t \in transfers : t.tx \in Reads
    BY ReadIs, TransferIs
  <2> QED
    BY <2>1, LenProperties DEF Reads, VInv, VTyped
<1>2. covering # {} => tx \in covering
  <2>1. ASSUME covering # {}
        PROVE  \E x \in covering : \A o \in covering : o <= x
    <3> HIDE DEF covering
    <3> QED
      BY <1>1, <2>1, LastNatural
  <2> QED
    BY <2>1 DEF InferSettlementTransaction
<1>3. tx \in covering => \E t \in transfers : t.from = Contract /\ t.tx = tx /\ t.payment = payments[i]
  <2> HIDE DEF tx, transfers
  <2> QED
    BY DEF CoversAll
<1>4. covering = {} => tx = Unsettled
  BY DEF InferSettlementTransaction
<1>5. (\E t \in transfers : t.from = Contract /\ t.tx = tx /\ t.payment = payments[i])
        => Matched(payments[i], tx) # {}
  <2> HIDE DEF tx
  <2> QED
    BY DEF Matched, MatchSettlementTransfer
<1> HIDE DEF transfers, covering, tx
<1>6. tx = Unsettled \/ Matched(payments[i], tx) # {}
  BY <1>2, <1>3, <1>4, <1>5
<1> QED
  BY <1>6 DEF tx, transfers

------------------------------------------------------------------------------
\* matchSettlementTransfer and inferSettlementTransaction: what was settled
\* within the window is confirmed whatever else was transferred, and nobody is
\* said to have been paid twice whom no single transaction pays twice.
THEOREM SettledConfirmed == VerifierSpec => []SettledIsConfirmed
<1>1. VInv => SettledIsConfirmed
  <2> SUFFICES ASSUME VInv, escrow.at \in Reads, NEW i \in 1 .. Len(escrow.payments)
               PROVE  LET recorded == Verdict(escrow.payments, i, escrow.at)
                          inferred == Verdict(escrow.payments, i, Unsettled)
                      IN
                      /\ "CONFIRMED" \in recorded /\ "CONFIRMED" \in inferred
                      /\ "DUPLICATE_PAYMENT_EVENT" \in recorded <=> Twice(escrow.payments, i)
                      /\ "DUPLICATE_PAYMENT_EVENT" \in inferred =>
                           \E l \in Reads : PaidTwiceIn(l, escrow.payments[i])
    BY DEF SettledIsConfirmed
  <2>1. PICK payments : payments = escrow.payments
    OBVIOUS
  <2>2. PICK at : at = escrow.at
    OBVIOUS
  <2>3. PICK p : p = payments[i]
    OBVIOUS
  <2>4. at # Unsettled /\ at \in Reads /\ ledgers[at].from = Contract /\ ledgers[at].payments = payments
    BY <2>1, <2>2 DEF VInv, Transferred, Reads, Unsettled
  <2>5. ASSUME NEW tx \in {Unsettled, at}
        PROVE  Matched(p, tx) # {}
    <3>1. Settles(at, i, p, tx)
      BY <2>1, <2>3, <2>4 DEF Settles
    <3>2. PICK t : t = Transfer(at, i)
      OBVIOUS
    <3>3. t \in Matched(p, tx)
      BY <3>1, <3>2, MatchedIs
    <3> QED
      BY <3>3
  <2>6. PICK tx : tx = InferSettlementTransaction(ReadTransfers(p.asset), payments)
    OBVIOUS
  <2>7. Matched(p, tx) # {}
    <3>1. tx = Unsettled \/ Matched(p, tx) # {}
      BY <2>1, <2>3, <2>6, InferredIs
    <3> QED
      BY <2>5, <3>1
  <2>8. /\ "CONFIRMED" \in Verdict(payments, i, at) <=> Matched(p, at) # {}
        /\ "DUPLICATE_PAYMENT_EVENT" \in Verdict(payments, i, at) <=> DuplicatedIn(Matched(p, at))
    <3>1. at = IF at # Unsettled THEN at
               ELSE InferSettlementTransaction(ReadTransfers(payments[i].asset), payments)
      BY <2>4
    <3> QED
      BY <2>3, <3>1, VerdictIs
  <2>9. /\ "CONFIRMED" \in Verdict(payments, i, Unsettled) <=> Matched(p, tx) # {}
        /\ "DUPLICATE_PAYMENT_EVENT" \in Verdict(payments, i, Unsettled) <=> DuplicatedIn(Matched(p, tx))
    <3>1. tx = IF Unsettled # Unsettled THEN Unsettled
               ELSE InferSettlementTransaction(ReadTransfers(payments[i].asset), payments)
      BY <2>3, <2>6
    <3> QED
      BY <2>3, <3>1, VerdictIs
  <2>10. DuplicatedIn(Matched(p, at)) <=> Twice(payments, i)
    <3>1. DuplicatedIn(Matched(p, at)) <=> PaidTwiceIn(at, p)
      BY <2>4, DuplicatedIs
    <3>2. PaidTwiceIn(at, p) <=> Twice(payments, i)
      BY <2>1, <2>3, <2>4 DEF PaidTwiceIn, Twice
    <3> QED
      BY <3>1, <3>2
  <2>11. DuplicatedIn(Matched(p, tx)) => \E l \in Reads : PaidTwiceIn(l, p)
    BY DuplicatedIs
  <2> QED
    BY <2>1, <2>2, <2>3, <2>5, <2>7, <2>8, <2>9, <2>10, <2>11
<1> QED
  BY <1>1, VerifierAlways, PTL

------------------------------------------------------------------------------
\* Runs of the reconciler: the inductive invariant.

RunsSpec == RunsInit /\ [][RunsNext]_runVars

Subject == Range(Subjects)
Findable == {"CHAIN_PAID_DB_NOT", "DB_PAID_CHAIN_NOT", "CHAIN_UNREADABLE"}
Status == {"OPEN", "ACKNOWLEDGED", "INVESTIGATING", "RESOLVED"}
RunRow ==
  [status : {"RUNNING", "COMPLETED", "FAILED", "STALE"}, beat : {"fresh", "old"}, slow : BOOLEAN]
FindingRow ==
  [by : {"run", "indexer"}, kind : Findable, subject : Subject, status : Status, run : Nat,
   reason : BOOLEAN]
Stage == {"look", "create", "skipped", "observe", "write"}
Work ==
  [at : Stage, run : Nat, todo : Seq(Subject), kind : Kinds \union {"none"}, there : Nat]
Resting == [at : {"free", "done"}]
Closing == [at : {"write"}, finding : Nat, to : Status]

RTyped ==
  /\ runs \in Seq(RunRow)
  /\ found \in Seq(FindingRow) /\ Len(found) <= MaxFindings
  /\ workers \in [Workers -> Resting \union Work]
  /\ closers \in [Closers -> Resting \union Closing]

\* Who is at work has a row of its own, which is RUNNING unless it was taken
\* for dead; and one row is RUNNING at most.
Busy == {"observe", "write"}
HasRow(q) ==
  q.at \in Busy =>
    q.run \in Indices(runs) /\ (runs[q.run].status = "RUNNING" \/ runs[q.run].slow)
OwnRow ==
  /\ \A w \in Workers : HasRow(workers[w])
  /\ \A w, v \in Workers : AtWork(w) /\ AtWork(v) /\ workers[w].run = workers[v].run => w = v
OneRunning ==
  /\ \A r, q \in Running : r = q
  /\ \A r \in Running : ~runs[r].slow

\* A finding is resolved for a reason, and one of a run names its row.  Who is
\* about to open one found none of a run that is not resolved, or somebody's
\* row is marked slow.
Slow == \E r \in Indices(runs) : runs[r].slow
Sourced(x) ==
  (x.by = "run" /\ x.run \in Indices(runs)) \/ (x.by = "indexer" /\ x.run = NoRow)
Reasoned ==
  /\ \A f \in Indices(found) : /\ found[f].status = "RESOLVED" => found[f].reason
                               /\ Sourced(found[f])
  /\ \A c \in Closers : closers[c].at = "write" => closers[c].finding \in Indices(found)
Alike(f, kind, subject) ==
  found[f].by = "run" /\ found[f].kind = kind /\ found[f].subject = subject
Looked(q) ==
  q.at = "write" =>
    /\ q.kind \in Findable /\ q.todo # <<>>
    /\ q.there # NoRow => q.there \in Indices(found) /\ found[q.there].by = "run"
    /\ q.there = NoRow =>
         Slow \/ \A f \in Indices(found) : Alike(f, q.kind, Head(q.todo)) => found[f].reason
AllLooked == \A w \in Workers : Looked(workers[w])
NoRepetition ==
  \A f, g \in Indices(found) :
    f # g /\ found[g].by = "run" /\ Alike(f, found[g].kind, found[g].subject)
    => Slow \/ found[f].reason \/ found[g].reason

RInv == RTyped /\ OwnRow /\ OneRunning /\ Reasoned /\ AllLooked /\ NoRepetition

LEMMA RunRowsAre ==
  ASSUME RTyped
  PROVE  /\ Len(runs) \in Nat /\ Len(found) \in Nat
         /\ DOMAIN runs = Indices(runs) /\ DOMAIN found = Indices(found)
         /\ \A r \in Indices(runs) : runs[r] \in RunRow /\ r \in Nat
         /\ \A f \in Indices(found) : found[f] \in FindingRow /\ f \in Nat /\ f # NoRow
<1>1. runs \in Seq(RunRow) /\ found \in Seq(FindingRow)
  BY DEF RTyped
<1>2. /\ Len(runs) \in Nat /\ Len(found) \in Nat
      /\ DOMAIN runs = 1 .. Len(runs) /\ DOMAIN found = 1 .. Len(found)
  BY <1>1, LenProperties
<1>3. /\ \A r \in 1 .. Len(runs) : runs[r] \in RunRow
      /\ \A f \in 1 .. Len(found) : found[f] \in FindingRow
  BY <1>1, ElementOfSeq
<1> QED
  BY <1>2, <1>3 DEF Indices, NoRow

LEMMA WorkIs ==
  ASSUME RTyped, NEW w \in Workers, workers[w].at \in Stage
  PROVE  workers[w] \in Work
<1>1. PICK q : q = workers[w]
  OBVIOUS
<1>2. q \in Resting \/ q \in Work
  BY <1>1 DEF RTyped
<1>3. q \in Resting => q.at \notin Stage
  BY DEF Resting, Stage
<1> QED
  BY <1>1, <1>2, <1>3

LEMMA WorkingIs ==
  ASSUME NEW step \in Stage, NEW run \in Nat, NEW rest \in Seq(Subject)
  PROVE  LET q == Working(step, run, rest) IN
         /\ q \in Work /\ q.at = step /\ q.run = run /\ q.todo = rest
<1>1. PICK q : q = Working(step, run, rest)
  OBVIOUS
<1>2. q = [at |-> step, run |-> run, todo |-> rest, kind |-> "none", there |-> 0]
  BY <1>1 DEF Working
<1>3. q \in Work /\ q.at = step /\ q.run = run /\ q.todo = rest
  BY <1>2 DEF Work
<1> QED
  BY <1>1, <1>3

\* Runs are started, marked and finished: what was slow stays so, and nothing
\* but a new run becomes RUNNING.
LEMMA RunsStep ==
  ASSUME RInv, RTyped', UNCHANGED <<found, closers>>,
         Indices(runs) \subseteq Indices(runs'),
         \A r \in Indices(runs) : runs[r].slow => runs'[r].slow,
         \A w \in Workers : workers'[w] = workers[w] \/ workers'[w].at # "write",
         OwnRow', OneRunning'
  PROVE  RInv'
<1>1. Slow => Slow'
  BY DEF Slow
<1>2. Reasoned'
  BY DEF RInv, Reasoned, Sourced, Indices
<1>3. ASSUME NEW w \in Workers
      PROVE  Looked(workers[w])'
  <2>1. CASE workers'[w].at # "write"
    BY <2>1 DEF Looked
  <2>2. CASE workers'[w] = workers[w]
    <3>1. PICK q : q = workers[w]
      OBVIOUS
    <3>2. Looked(q)
      BY <3>1 DEF RInv, AllLooked
    <3>3. Looked(q)'
      BY <1>1, <3>2 DEF Looked, Alike, Indices
    <3> QED
      BY <2>2, <3>1, <3>3
  <2> QED
    BY <2>1, <2>2
<1>4. NoRepetition'
  BY <1>1 DEF RInv, NoRepetition, Alike, Indices
<1> QED
  BY <1>2, <1>3, <1>4 DEF RInv, AllLooked

\* One call goes on, about the same run if about any.
LEMMA WorkerSteps ==
  ASSUME RInv, NEW w \in Workers, NEW q \in Resting \union Work, workers' = [workers EXCEPT ![w] = q],
         UNCHANGED <<runs, found, closers>>,
         q.at \in Busy => AtWork(w) /\ q.run = workers[w].run,
         Looked(q)
  PROVE  RInv'
<1>1. /\ workers' \in [Workers -> Resting \union Work] /\ workers'[w] = q
      /\ \A v \in Workers \ {w} : workers'[v] = workers[v]
  BY DEF RInv, RTyped
<1>2. RTyped'
  BY <1>1 DEF RInv, RTyped
<1>3. Slow' = Slow /\ Running' = Running /\ Indices(runs)' = Indices(runs)
      /\ Indices(found)' = Indices(found)
  BY DEF Slow, Running, Indices
<1>4. ASSUME NEW v \in Workers
      PROVE  /\ HasRow(workers[v])' /\ Looked(workers[v])'
             /\ AtWork(v)' => AtWork(v) /\ workers'[v].run = workers[v].run
  <2>1. PICK p : p = workers'[v]
    OBVIOUS
  <2>2. (v = w /\ p = q) \/ (v # w /\ p = workers[v])
    BY <1>1, <2>1
  <2>3. HasRow(workers[w]) /\ HasRow(workers[v]) /\ Looked(workers[v])
    BY DEF RInv, OwnRow, AllLooked
  <2>4. HasRow(q)
    BY <2>3 DEF HasRow, AtWork, Busy
  <2>5. HasRow(p) /\ Looked(p)
    BY <2>2, <2>3, <2>4
  <2>6. HasRow(p)' /\ Looked(p)'
    BY <1>3, <2>5 DEF HasRow, Looked, Alike
  <2>7. p.at \in Busy => AtWork(v) /\ p.run = workers[v].run
    BY <2>2 DEF AtWork, Busy
  <2> QED
    BY <2>1, <2>6, <2>7 DEF AtWork, Busy
<1>5. OwnRow'
  BY <1>4 DEF RInv, OwnRow
<1>6. OneRunning' /\ Reasoned' /\ NoRepetition'
  BY <1>3 DEF RInv, OneRunning, Reasoned, Sourced, NoRepetition, Alike
<1> QED
  BY <1>2, <1>4, <1>5, <1>6 DEF RInv, AllLooked

LEMMA LookKeeps ==
  ASSUME RInv, NEW w \in Workers, LookForActive(w)
  PROVE  RInv'
<1>1. PICK q : q = workers[w]
  OBVIOUS
<1>2. q \in Work
  BY <1>1, WorkIs DEF RInv, LookForActive, WorkerAt, Stage
<1>3. PICK step : step = IF Running = {} THEN "create" ELSE "skipped"
  OBVIOUS
<1>4. step \in {"create", "skipped"}
  BY <1>3
<1>5. PICK p : p = [q EXCEPT !.at = step]
  OBVIOUS
<1>6. p \in Work /\ p.at = step
  BY <1>2, <1>4, <1>5 DEF Work, Stage
<1>7. workers' = [workers EXCEPT ![w] = p] /\ UNCHANGED <<runs, found, closers>>
  BY <1>1, <1>3, <1>5 DEF LookForActive, Moves
<1>8. p.at \notin Busy /\ Looked(p)
  BY <1>4, <1>6 DEF Busy, Looked
<1> QED
  BY <1>6, <1>7, <1>8, WorkerSteps

LEMMA DiesKeeps ==
  ASSUME RInv, NEW w \in Workers, DiesRunning(w)
  PROVE  RInv'
<1>1. PICK p : p = [at |-> "done"]
  OBVIOUS
<1>2. p \in Resting /\ p.at \notin Busy /\ Looked(p)
  BY <1>1 DEF Resting, Busy, Looked
<1> QED
  BY <1>1, <1>2, WorkerSteps DEF DiesRunning

LEMMA InspectKeeps ==
  ASSUME RInv, NEW w \in Workers, NEW kind \in Kinds, Inspect(w, kind)
  PROVE  RInv'
<1>1. PICK q : q = workers[w]
  OBVIOUS
<1>2. q \in Work /\ q.at = "observe" /\ q.todo # <<>> /\ AtWork(w)
  BY <1>1, WorkIs DEF RInv, Inspect, WorkerAt, Stage, AtWork
<1>3. q.todo \in Seq(Subject) /\ Head(q.todo) \in Subject /\ Tail(q.todo) \in Seq(Subject)
  BY <1>2, HeadTailProperties DEF Work
<1>4. UNCHANGED <<runs, found, closers>>
  BY DEF Inspect
<1>5. CASE kind = "agrees"
  <2>1. PICK rest : rest = Tail(q.todo)
    OBVIOUS
  <2>2. PICK p : p = [q EXCEPT !.todo = rest]
    OBVIOUS
  <2>3. p \in Work /\ p.at = "observe" /\ p.run = q.run
    BY <1>2, <1>3, <2>1, <2>2 DEF Work
  <2>4. workers' = [workers EXCEPT ![w] = p]
    BY <1>1, <1>5, <2>1, <2>2 DEF Inspect
  <2>5. Looked(p)
    BY <2>3 DEF Looked
  <2> QED
    BY <1>1, <1>2, <1>4, <2>3, <2>4, <2>5, WorkerSteps
<1>6. CASE kind # "agrees"
  <2>1. kind \in Findable
    BY <1>6 DEF Kinds, Findable
  <2>2. PICK there : there = Open(kind, Head(q.todo))
    OBVIOUS
  <2>3. PICK f \in IF there = {} THEN {NoRow} ELSE there :
          workers' = [workers EXCEPT ![w].at = "write", ![w].kind = kind, ![w].there = f]
    BY <1>1, <1>6, <2>2 DEF Inspect
  <2>4. (there = {} /\ f = NoRow) \/ (f \in there /\ f \in Indices(found) /\ found[f].by = "run")
    BY <2>2, <2>3 DEF Open
  <2>5. f \in Nat
    BY <2>4, RunRowsAre DEF RInv, NoRow
  <2>6. PICK p : p = [q EXCEPT !.at = "write", !.kind = kind, !.there = f]
    OBVIOUS
  <2>7. /\ p \in Work /\ p.at = "write" /\ p.run = q.run /\ p.kind = kind /\ p.there = f
        /\ p.todo = q.todo
    BY <1>2, <2>1, <2>5, <2>6 DEF Work, Stage, Findable, Kinds
  <2>8. workers' = [workers EXCEPT ![w] = p]
    BY <1>1, <2>3, <2>6 DEF RInv, RTyped
  <2>9. there = {} => \A g \in Indices(found) : Alike(g, kind, Head(q.todo)) => found[g].reason
    <3> SUFFICES ASSUME there = {}, NEW g \in Indices(found), Alike(g, kind, Head(q.todo))
                 PROVE  found[g].reason
      OBVIOUS
    <3>1. g \notin Open(kind, Head(q.todo))
      BY <2>2
    <3>2. found[g].status = "RESOLVED"
      BY <3>1 DEF Open, Alike
    <3> QED
      BY <3>2 DEF RInv, Reasoned
  <2>10. Looked(p)
    <3>1. f # NoRow => f \in Indices(found) /\ found[f].by = "run"
      BY <2>4
    <3>2. f = NoRow => there = {}
      BY <2>4, RunRowsAre DEF RInv
    <3> QED
      BY <1>2, <2>1, <2>7, <2>9, <3>1, <3>2 DEF Looked
  <2> QED
    BY <1>1, <1>2, <1>4, <2>7, <2>8, <2>10, WorkerSteps
<1> QED
  BY <1>5, <1>6

\* A run taken for dead while its worker is at work is marked slow.
LEMMA ReclaimKeeps ==
  ASSUME RInv, NEW w \in Workers, ReclaimStale(w)
  PROVE  RInv'
<1> DEFINE Stale(r) == r \in Running /\ runs[r].beat = "old"
           Row(r) == IF Stale(r)
                       THEN [runs[r] EXCEPT !.status = "STALE",
                                            !.slow = \E v \in Workers : AtWork(v) /\ workers[v].run = r]
                     ELSE runs[r]
<1>1. runs' = [r \in Indices(runs) |-> Row(r)] /\ UNCHANGED <<found, closers>>
  BY DEF ReclaimStale
<1>2. ASSUME NEW r \in Indices(runs)
      PROVE  /\ runs'[r] \in RunRow
             /\ runs[r].slow => runs'[r].slow
             /\ runs'[r].status = "RUNNING" => runs[r].status = "RUNNING" /\ runs'[r].slow = runs[r].slow
             /\ runs'[r].status # runs[r].status =>
                  \A v \in Workers : AtWork(v) /\ workers[v].run = r => runs'[r].slow
  <2>1. PICK x : x = runs[r]
    OBVIOUS
  <2>2. x \in RunRow
    BY <2>1, RunRowsAre DEF RInv
  <2>3. PICK slow \in BOOLEAN : slow <=> \E v \in Workers : AtWork(v) /\ workers[v].run = r
    OBVIOUS
  <2>4. PICK y : y = [x EXCEPT !.status = "STALE", !.slow = slow]
    OBVIOUS
  <2>5. y \in RunRow /\ y.status = "STALE" /\ y.slow = slow
    BY <2>2, <2>4 DEF RunRow
  <2>6. (runs'[r] = y /\ r \in Running) \/ runs'[r] = x
    <3>1. runs'[r] = Row(r)
      BY <1>1
    <3>2. CASE Stale(r)
      <4>1. Row(r) = [x EXCEPT !.status = "STALE", !.slow = \E v \in Workers : AtWork(v) /\ workers[v].run = r]
        BY <2>1, <3>2
      <4>2. (\E v \in Workers : AtWork(v) /\ workers[v].run = r) = slow
        BY <2>3
      <4> QED
        BY <2>4, <3>1, <3>2, <4>1, <4>2
    <3>3. CASE ~Stale(r)
      BY <2>1, <3>1, <3>3
    <3> QED
      BY <3>2, <3>3
  <2>7. r \in Running => ~x.slow
    BY <2>1 DEF RInv, OneRunning
  <2> QED
    BY <2>1, <2>2, <2>3, <2>5, <2>6, <2>7
<1> HIDE DEF Row
<1>3. Len(runs) \in Nat
  BY RunRowsAre DEF RInv
<1>4. runs' \in Seq(RunRow) /\ Len(runs') = Len(runs)
  <2>1. runs' \in [1 .. Len(runs) -> RunRow]
    BY <1>1, <1>2 DEF Indices
  <2> QED
    BY <1>3, <2>1, SeqDef, LenProperties
<1>5. Indices(runs') = Indices(runs)
  BY <1>4 DEF Indices
<1>6. PICK q : q = Working("look", NoRow, <<>>)
  OBVIOUS
<1>7. q \in Work /\ q.at = "look"
  <2>1. "look" \in Stage /\ NoRow \in Nat
    BY DEF Stage, NoRow
  <2>2. PICK none : none = <<>>
    OBVIOUS
  <2>3. none \in Seq(Subject)
    BY <2>2, EmptySeq
  <2>4. q = Working("look", NoRow, none)
    BY <1>6, <2>2
  <2> QED
    BY <2>1, <2>3, <2>4, WorkingIs
<1>8. workers' = [workers EXCEPT ![w] = q]
  BY <1>6 DEF ReclaimStale
<1>9. /\ workers' \in [Workers -> Resting \union Work] /\ workers'[w] = q
      /\ \A v \in Workers \ {w} : workers'[v] = workers[v]
  BY <1>7, <1>8 DEF RInv, RTyped
<1>10. RTyped'
  BY <1>1, <1>4, <1>9 DEF RInv, RTyped
<1>11. ASSUME NEW v \in Workers
       PROVE  HasRow(workers[v])' /\ (AtWork(v)' => AtWork(v) /\ workers'[v] = workers[v])
  <2>1. CASE v = w
    BY <1>7, <1>9, <2>1 DEF HasRow, AtWork, Busy
  <2>2. CASE v # w
    <3>1. PICK p : p = workers[v]
      OBVIOUS
    <3>2. HasRow(p) /\ workers'[v] = p
      BY <1>9, <2>2, <3>1 DEF RInv, OwnRow
    <3>3. ASSUME p.at \in Busy
          PROVE  p.run \in Indices(runs)' /\ (runs'[p.run].status = "RUNNING" \/ runs'[p.run].slow)
      <4>1. AtWork(v) /\ p.run \in Indices(runs)
        BY <3>1, <3>2, <3>3 DEF HasRow, AtWork, Busy
      <4> QED
        BY <1>2, <1>5, <3>1, <3>2, <3>3, <4>1 DEF HasRow
    <3>4. HasRow(p)'
      BY <3>3 DEF HasRow
    <3> QED
      BY <3>1, <3>2, <3>4 DEF AtWork
  <2> QED
    BY <2>1, <2>2
<1>12. OwnRow'
  BY <1>11 DEF RInv, OwnRow
<1>13. OneRunning'
  BY <1>2, <1>5 DEF RInv, OneRunning, Running
<1>14. \A v \in Workers : workers'[v] = workers[v] \/ workers'[v].at # "write"
  BY <1>7, <1>9
<1> QED
  BY <1>1, <1>2, <1>5, <1>10, <1>12, <1>13, <1>14, RunsStep

\* The partial unique index: a row is created only where none is RUNNING.
LEMMA CreateKeeps ==
  ASSUME RInv, NEW w \in Workers, CreateRun(w)
  PROVE  RInv'
<1>1. PICK q : q = workers[w]
  OBVIOUS
<1>2. q \in Work /\ UNCHANGED <<found, closers>>
  BY <1>1, WorkIs DEF RInv, CreateRun, WorkerAt, Stage
<1>3. CASE Moves(w, "skipped") /\ UNCHANGED runs
  <2>1. PICK p : p = [q EXCEPT !.at = "skipped"]
    OBVIOUS
  <2>2. p \in Work /\ p.at = "skipped"
    BY <1>2, <2>1 DEF Work, Stage
  <2>3. workers' = [workers EXCEPT ![w] = p]
    BY <1>1, <1>3, <2>1 DEF Moves
  <2>4. p.at \notin Busy /\ Looked(p)
    BY <2>2 DEF Busy, Looked
  <2> QED
    BY <1>2, <1>3, <2>2, <2>3, <2>4, WorkerSteps
<1>4. CASE /\ LockIsFree /\ runs' = Append(runs, Run)
           /\ workers' = [workers EXCEPT ![w] = Working("observe", Len(runs) + 1, Subjects)]
  <2>1. PICK n : n = Len(runs) + 1
    OBVIOUS
  <2>2. PICK x : x = Run
    OBVIOUS
  <2>3. x \in RunRow /\ x.status = "RUNNING" /\ x.slow = FALSE
    BY <2>2 DEF Run, RunRow
  <2>4. runs \in Seq(RunRow) /\ Len(runs) \in Nat /\ n \in Nat
    BY <2>1, RunRowsAre DEF RInv, RTyped
  <2>5. /\ runs' \in Seq(RunRow) /\ Len(runs') = n
        /\ \A r \in 1 .. Len(runs) : runs'[r] = runs[r]
        /\ runs'[n] = x
    BY <1>4, <2>1, <2>2, <2>3, <2>4, AppendProperties
  <2>6. /\ Indices(runs') = Indices(runs) \union {n} /\ n \notin Indices(runs)
        /\ \A r \in Indices(runs) : runs'[r] = runs[r]
    BY <2>1, <2>4, <2>5 DEF Indices
  <2>7. PICK p : p = Working("observe", n, Subjects)
    OBVIOUS
  <2>8. p \in Work /\ p.at = "observe" /\ p.run = n
    <3>1. Subjects \in Seq(Subject)
      BY RunsAssumption DEF Subject
    <3> QED
      BY <2>4, <2>7, <3>1, WorkingIs DEF Stage
  <2>9. workers' = [workers EXCEPT ![w] = p]
    BY <1>4, <2>1, <2>7
  <2>10. /\ workers' \in [Workers -> Resting \union Work] /\ workers'[w] = p
         /\ \A v \in Workers \ {w} : workers'[v] = workers[v]
    BY <2>8, <2>9 DEF RInv, RTyped
  <2>11. RTyped'
    BY <1>2, <2>5, <2>10 DEF RInv, RTyped
  <2>12. ASSUME NEW v \in Workers
         PROVE  /\ HasRow(workers[v])'
                /\ AtWork(v)' => v = w \/ (AtWork(v) /\ workers'[v] = workers[v]
                                           /\ workers[v].run \in Indices(runs))
    <3>1. CASE v = w
      BY <2>3, <2>5, <2>6, <2>8, <2>10, <3>1 DEF HasRow, Busy
    <3>2. CASE v # w
      <4>1. PICK c : c = workers[v]
        OBVIOUS
      <4>2. HasRow(c) /\ workers'[v] = c
        BY <2>10, <3>2, <4>1 DEF RInv, OwnRow
      <4>3. HasRow(c)'
        BY <2>6, <4>2 DEF HasRow
      <4> QED
        BY <4>1, <4>2, <4>3 DEF AtWork, HasRow, Busy
    <3> QED
      BY <3>1, <3>2
  <2>13. OwnRow'
    <3>1. \A v, u \in Workers : AtWork(v)' /\ AtWork(u)' /\ workers'[v].run = workers'[u].run => v = u
      BY <2>6, <2>8, <2>10, <2>12 DEF RInv, OwnRow
    <3> QED
      BY <2>12, <3>1 DEF OwnRow
  <2>14. OneRunning'
    <3>1. Running' = {n}
      BY <1>4, <2>3, <2>5, <2>6 DEF LockIsFree, Running
    <3> QED
      BY <2>3, <2>5, <3>1 DEF OneRunning
  <2>15. \A v \in Workers : workers'[v] = workers[v] \/ workers'[v].at # "write"
    BY <2>8, <2>10
  <2> QED
    BY <1>2, <2>6, <2>11, <2>13, <2>14, <2>15, RunsStep
<1> QED
  BY <1>3, <1>4 DEF CreateRun

\* One row changes; it does not become RUNNING, and slow stays what it is.
LEMMA RowSet ==
  ASSUME RInv, NEW r \in Indices(runs), NEW x \in RunRow, runs' = [runs EXCEPT ![r] = x],
         x.slow = runs[r].slow, x.status = "RUNNING" => runs[r].status = "RUNNING"
  PROVE  /\ runs' \in Seq(RunRow) /\ Indices(runs') = Indices(runs)
         /\ runs'[r] = x /\ \A d \in Indices(runs) \ {r} : runs'[d] = runs[d]
         /\ \A d \in Indices(runs) : runs[d].slow => runs'[d].slow
         /\ OneRunning'
<1>1. runs \in Seq(RunRow) /\ r \in 1 .. Len(runs)
  BY DEF RInv, RTyped, Indices
<1>2. /\ runs' \in Seq(RunRow) /\ Len(runs') = Len(runs)
      /\ \A d \in 1 .. Len(runs) : runs'[d] = IF d = r THEN x ELSE runs[d]
  BY <1>1, ExceptSeq
<1>3. /\ Indices(runs') = Indices(runs)
      /\ runs'[r] = x /\ \A d \in Indices(runs) \ {r} : runs'[d] = runs[d]
  BY <1>2 DEF Indices
<1>4. OneRunning'
  BY <1>3 DEF RInv, OneRunning, Running
<1> QED
  BY <1>2, <1>3, <1>4

LEMMA BeatKeeps ==
  ASSUME RInv, NEW r \in Running, NEW beat \in {"fresh", "old"},
         runs' = [runs EXCEPT ![r].beat = beat], UNCHANGED <<workers, found, closers>>
  PROVE  RInv'
<1>1. r \in Indices(runs) /\ runs[r].status = "RUNNING"
  BY DEF Running
<1>2. PICK y : y = runs[r]
  OBVIOUS
<1>3. y \in RunRow
  BY <1>1, <1>2, RunRowsAre DEF RInv
<1>4. PICK x : x = [y EXCEPT !.beat = beat]
  OBVIOUS
<1>5. x \in RunRow /\ x.status = y.status /\ x.slow = y.slow
  BY <1>3, <1>4 DEF RunRow
<1>6. runs' = [runs EXCEPT ![r] = x]
  BY <1>2, <1>4
<1>7. /\ runs' \in Seq(RunRow) /\ Indices(runs') = Indices(runs)
      /\ runs'[r] = x /\ \A d \in Indices(runs) \ {r} : runs'[d] = runs[d]
      /\ \A d \in Indices(runs) : runs[d].slow => runs'[d].slow
      /\ OneRunning'
  BY <1>1, <1>2, <1>5, <1>6, RowSet
<1>8. RTyped'
  BY <1>7 DEF RInv, RTyped
<1>9. OwnRow'
  <2>1. \A d \in Indices(runs) : runs'[d].status = runs[d].status /\ runs'[d].slow = runs[d].slow
    BY <1>2, <1>5, <1>7
  <2>2. \A v \in Workers : HasRow(workers[v])'
    BY <1>7, <2>1 DEF RInv, OwnRow, HasRow
  <2> QED
    BY <2>2 DEF RInv, OwnRow, AtWork
<1> QED
  BY <1>7, <1>8, <1>9, RunsStep

LEMMA FinishKeeps ==
  ASSUME RInv, NEW w \in Workers, NEW status \in {"COMPLETED", "FAILED"}, Finish(w, status)
  PROVE  RInv'
<1>1. PICK r : r = workers[w].run
  OBVIOUS
<1>2. AtWork(w) /\ r \in Indices(runs)
  BY <1>1 DEF Finish, RInv, OwnRow, HasRow, AtWork, Busy
<1>3. PICK y : y = runs[r]
  OBVIOUS
<1>4. y \in RunRow
  BY <1>2, <1>3, RunRowsAre DEF RInv
<1>5. PICK x : x = [y EXCEPT !.status = status]
  OBVIOUS
<1>6. x \in RunRow /\ x.status = status /\ x.slow = y.slow
  BY <1>4, <1>5 DEF RunRow
<1>7. runs' = [runs EXCEPT ![r] = x] /\ UNCHANGED <<found, closers>>
  BY <1>1, <1>3, <1>5 DEF Finish
<1>8. /\ runs' \in Seq(RunRow) /\ Indices(runs') = Indices(runs)
      /\ runs'[r] = x /\ \A d \in Indices(runs) \ {r} : runs'[d] = runs[d]
      /\ \A d \in Indices(runs) : runs[d].slow => runs'[d].slow
      /\ OneRunning'
  BY <1>2, <1>3, <1>6, <1>7, RowSet
<1>9. PICK p : p = [at |-> "done"]
  OBVIOUS
<1>10. p \in Resting /\ p.at = "done"
  BY <1>9 DEF Resting
<1>11. /\ workers' \in [Workers -> Resting \union Work] /\ workers'[w] = p
       /\ \A v \in Workers \ {w} : workers'[v] = workers[v]
  BY <1>9, <1>10 DEF Finish, RInv, RTyped
<1>12. RTyped'
  BY <1>7, <1>8, <1>11 DEF RInv, RTyped
<1>13. OwnRow'
  <2>1. ASSUME NEW v \in Workers
        PROVE  HasRow(workers[v])' /\ (AtWork(v)' => AtWork(v) /\ workers'[v] = workers[v])
    <3>1. CASE v = w
      BY <1>10, <1>11, <3>1 DEF HasRow, AtWork, Busy
    <3>2. CASE v # w
      <4>1. PICK c : c = workers[v]
        OBVIOUS
      <4>2. HasRow(c) /\ workers'[v] = c
        BY <1>11, <3>2, <4>1 DEF RInv, OwnRow
      <4>3. c.at \in Busy => c.run # r
        BY <1>1, <1>2, <3>2, <4>1 DEF RInv, OwnRow, AtWork, Busy
      <4>4. HasRow(c)'
        BY <1>8, <4>2, <4>3 DEF HasRow
      <4> QED
        BY <4>1, <4>2, <4>4 DEF AtWork
    <3> QED
      BY <3>1, <3>2
  <2> QED
    BY <2>1 DEF RInv, OwnRow
<1>14. \A v \in Workers : workers'[v] = workers[v] \/ workers'[v].at # "write"
  BY <1>10, <1>11
<1> QED
  BY <1>7, <1>8, <1>12, <1>13, <1>14, RunsStep

LEMMA BeatsKeep ==
  ASSUME RInv,
         (\E w \in Workers : Heartbeat(w)) \/ (\E r \in Indices(runs) : TenMinutesPass(r))
  PROVE  RInv'
<1>1. CASE \E w \in Workers : Heartbeat(w)
  <2>1. PICK w \in Workers : Heartbeat(w)
    BY <1>1
  <2>2. PICK r : r = workers[w].run
    OBVIOUS
  <2> QED
    BY <2>1, <2>2, BeatKeeps DEF Heartbeat
<1>2. CASE \E r \in Indices(runs) : TenMinutesPass(r)
  BY <1>2, BeatKeeps DEF TenMinutesPass
<1> QED
  BY <1>1, <1>2

\* A call about to write stays right while no finding is opened and a
\* reason, once given, stays.
LEMMA LookedKept ==
  ASSUME NEW q, Looked(q), UNCHANGED runs, Indices(found') = Indices(found),
         \A g \in Indices(found) : /\ found'[g].by = found[g].by
                                   /\ found'[g].kind = found[g].kind
                                   /\ found'[g].subject = found[g].subject
                                   /\ found[g].reason => found'[g].reason
  PROVE  Looked(q)'
<1>1. Slow' = Slow
  BY DEF Slow, Indices
<1> QED
  BY <1>1 DEF Looked, Alike

\* Two at work have two rows, of which one at most is RUNNING.
LEMMA TwoMeansSlow ==
  ASSUME RInv, NEW w \in Workers, NEW v \in Workers, v # w, AtWork(w), AtWork(v)
  PROVE  Slow
<1>1. PICK r, d : r = workers[w].run /\ d = workers[v].run
  OBVIOUS
<1>2. /\ r \in Indices(runs) /\ (runs[r].status = "RUNNING" \/ runs[r].slow)
      /\ d \in Indices(runs) /\ (runs[d].status = "RUNNING" \/ runs[d].slow)
  BY <1>1 DEF RInv, OwnRow, HasRow, AtWork, Busy
<1>3. r # d
  BY <1>1 DEF RInv, OwnRow
<1> QED
  BY <1>2, <1>3 DEF RInv, OneRunning, Running, Slow

LEMMA WriteKeeps ==
  ASSUME RInv, NEW w \in Workers, WriteFinding(w)
  PROVE  RInv'
<1>1. PICK q : q = workers[w]
  OBVIOUS
<1>2. q \in Work /\ q.at = "write" /\ AtWork(w) /\ UNCHANGED <<runs, closers>>
  BY <1>1, WorkIs DEF RInv, WriteFinding, WorkerAt, Stage, AtWork
<1>3. Looked(q) /\ HasRow(q)
  BY <1>1 DEF RInv, AllLooked, OwnRow
<1>4. /\ q.run \in Indices(runs) /\ q.run \in Nat /\ q.kind \in Findable /\ q.todo # <<>>
      /\ q.todo \in Seq(Subject)
  BY <1>2, <1>3 DEF Looked, HasRow, Busy, Work
<1>5. PICK s, rest : s = Head(q.todo) /\ rest = Tail(q.todo)
  OBVIOUS
<1>6. s \in Subject /\ rest \in Seq(Subject)
  BY <1>4, <1>5, HeadTailProperties
<1>7. PICK p : p = Working("observe", q.run, rest)
  OBVIOUS
<1>8. p \in Work /\ p.at = "observe" /\ p.run = q.run
  BY <1>4, <1>6, <1>7, WorkingIs DEF Stage
<1>9. workers' = [workers EXCEPT ![w] = p]
  BY <1>1, <1>5, <1>7 DEF WriteFinding
<1>10. /\ workers' \in [Workers -> Resting \union Work] /\ workers'[w] = p
       /\ \A v \in Workers \ {w} : workers'[v] = workers[v]
  BY <1>8, <1>9 DEF RInv, RTyped
<1>11. /\ Indices(runs)' = Indices(runs) /\ Running' = Running /\ Slow' = Slow
  BY <1>2 DEF Indices, Running, Slow
<1>12. OwnRow'
  <2>1. ASSUME NEW v \in Workers
        PROVE  /\ HasRow(workers[v])'
               /\ AtWork(v)' => AtWork(v) /\ workers'[v].run = workers[v].run
    <3>1. PICK d : d = workers'[v]
      OBVIOUS
    <3>2. (v = w /\ d = p) \/ (v # w /\ d = workers[v])
      BY <1>10, <3>1
    <3>3. HasRow(d)
      BY <1>4, <1>3, <1>2, <1>8, <3>2 DEF RInv, OwnRow, HasRow, Busy
    <3>4. HasRow(d)'
      BY <1>2, <1>11, <3>3 DEF HasRow
    <3>5. d.at \in Busy => AtWork(v) /\ d.run = workers[v].run
      BY <1>1, <1>2, <1>8, <3>2 DEF AtWork, Busy
    <3> QED
      BY <3>1, <3>4, <3>5 DEF AtWork, Busy
  <2> QED
    BY <2>1 DEF RInv, OwnRow
<1>13. OneRunning'
  BY <1>2, <1>11 DEF RInv, OneRunning
<1>14. RTyped /\ found \in Seq(FindingRow) /\ Len(found) \in Nat
  BY RunRowsAre DEF RInv, RTyped
<1>15. CASE q.there # NoRow
  <2>1. PICK f : f = q.there
    OBVIOUS
  <2>2. f \in Indices(found) /\ found[f].by = "run"
    BY <1>2, <1>3, <1>15, <2>1 DEF Looked
  <2>3. PICK y : y = found[f]
    OBVIOUS
  <2>4. y \in FindingRow
    BY <1>14, <2>2, <2>3, RunRowsAre
  <2>5. PICK x : x = [y EXCEPT !.run = q.run]
    OBVIOUS
  <2>6. /\ x \in FindingRow /\ x.by = y.by /\ x.kind = y.kind /\ x.subject = y.subject
        /\ x.status = y.status /\ x.reason = y.reason /\ x.run = q.run
    BY <1>4, <2>4, <2>5 DEF FindingRow
  <2>7. found' = [found EXCEPT ![f] = x]
    BY <1>1, <1>15, <2>1, <2>3, <2>5 DEF WriteFinding
  <2>8. /\ found' \in Seq(FindingRow) /\ Len(found') = Len(found)
        /\ \A g \in 1 .. Len(found) : found'[g] = IF g = f THEN x ELSE found[g]
    <3>1. f \in 1 .. Len(found)
      BY <2>2 DEF Indices
    <3> QED
      BY <1>14, <2>6, <2>7, <3>1, ExceptSeq
  <2>9. /\ Indices(found') = Indices(found)
        /\ \A g \in Indices(found) : (g = f /\ found'[g] = x) \/ found'[g] = found[g]
    BY <2>8 DEF Indices
  <2>10. \A g \in Indices(found) :
           /\ found'[g].by = found[g].by
           /\ found'[g].kind = found[g].kind /\ found'[g].subject = found[g].subject
           /\ found'[g].status = found[g].status /\ found'[g].reason = found[g].reason
           /\ found'[g].run = found[g].run \/ (found[g].by = "run" /\ found'[g].run = q.run)
    BY <2>2, <2>3, <2>6, <2>9
  <2>11. RTyped'
    BY <1>2, <1>10, <2>8 DEF RInv, RTyped
  <2>12. Reasoned'
    BY <1>2, <1>4, <1>11, <2>9, <2>10 DEF RInv, Reasoned, Sourced
  <2>13. ASSUME NEW v \in Workers
         PROVE  Looked(workers[v])'
    <3>1. CASE v = w
      BY <1>8, <1>10, <3>1 DEF Looked
    <3>2. CASE v # w
      <4>1. PICK d : d = workers[v]
        OBVIOUS
      <4>2. Looked(d) /\ workers'[v] = d
        BY <1>10, <3>2, <4>1 DEF RInv, AllLooked
      <4>3. Looked(d)'
        BY <1>2, <2>9, <2>10, <4>2, LookedKept
      <4> QED
        BY <4>2, <4>3
    <3> QED
      BY <3>1, <3>2
  <2>14. NoRepetition'
    BY <1>11, <2>9, <2>10 DEF RInv, NoRepetition, Alike
  <2> QED
    BY <1>12, <1>13, <2>11, <2>12, <2>13, <2>14 DEF RInv, AllLooked
<1>16. CASE q.there = NoRow
  <2>1. PICK n : n = Len(found) + 1
    OBVIOUS
  <2>2. PICK x : x = Finding("run", q.kind, s, q.run)
    OBVIOUS
  <2>3. /\ x \in FindingRow /\ x.by = "run" /\ x.kind = q.kind /\ x.subject = s
        /\ x.status = "OPEN" /\ x.run = q.run
    BY <1>4, <1>6, <2>2 DEF Finding, FindingRow, Status
  <2>4. found' = Append(found, x) /\ Len(found) < MaxFindings
    BY <1>1, <1>5, <1>16, <2>2 DEF WriteFinding
  <2>5. /\ found' \in Seq(FindingRow) /\ Len(found') = n
        /\ \A g \in 1 .. Len(found) : found'[g] = found[g]
        /\ found'[n] = x
    BY <1>14, <2>1, <2>3, <2>4, AppendProperties
  <2>6. /\ Indices(found') = Indices(found) \union {n} /\ n \notin Indices(found)
        /\ \A g \in Indices(found) : found'[g] = found[g]
    BY <1>14, <2>1, <2>5 DEF Indices
  <2>7. RTyped'
    <3>1. Len(found') <= MaxFindings
      BY <1>14, <2>1, <2>4, <2>5, RunsAssumption
    <3> QED
      BY <1>2, <1>10, <2>5, <3>1 DEF RInv, RTyped
  <2>8. Reasoned'
    BY <1>2, <1>4, <1>11, <2>3, <2>5, <2>6 DEF RInv, Reasoned, Sourced
  <2>9. ASSUME NEW v \in Workers
        PROVE  Looked(workers[v])'
    <3>1. CASE v = w
      BY <1>8, <1>10, <3>1 DEF Looked
    <3>2. CASE v # w
      <4>1. PICK d : d = workers[v]
        OBVIOUS
      <4>2. Looked(d) /\ workers'[v] = d
        BY <1>10, <3>2, <4>1 DEF RInv, AllLooked
      <4>3. d.at = "write" => Slow'
        BY <1>2, <1>11, <3>2, <4>1, TwoMeansSlow DEF AtWork
      <4>4. Looked(d)'
        BY <2>6, <4>2, <4>3 DEF Looked
      <4> QED
        BY <4>2, <4>4
    <3> QED
      BY <3>1, <3>2
  <2>10. NoRepetition'
    <3>1. Slow \/ \A g \in Indices(found) : Alike(g, x.kind, x.subject) => found[g].reason
      BY <1>2, <1>3, <1>5, <1>16, <2>3 DEF Looked
    <3>2. \A g \in Indices(found) :
            Alike(g, x.kind, x.subject) => Slow \/ found[g].reason
      BY <3>1
    <3> QED
      BY <1>11, <2>5, <2>6, <3>2 DEF RInv, NoRepetition, Alike
  <2> QED
    BY <1>12, <1>13, <2>7, <2>8, <2>9, <2>10 DEF RInv, AllLooked
<1> QED
  BY <1>15, <1>16

\* The indexer opens findings of its own, beside whoever looks.
LEMMA OpenKeeps ==
  ASSUME RInv, NEW kind \in IndexerKinds, NEW subject \in Subject, OpenFinding(kind, subject)
  PROVE  RInv'
<1>1. PICK n : n = Len(found) + 1
  OBVIOUS
<1>2. PICK x : x = Finding("indexer", kind, subject, NoRow)
  OBVIOUS
<1>3. /\ x \in FindingRow /\ x.by = "indexer" /\ x.status = "OPEN" /\ x.run = NoRow
  BY <1>2 DEF Finding, FindingRow, Status, IndexerKinds, Findable, NoRow
<1>4. /\ found' = Append(found, x) /\ Len(found) < MaxFindings
      /\ UNCHANGED <<runs, workers, closers>>
  BY <1>2 DEF OpenFinding
<1>5. RTyped /\ found \in Seq(FindingRow) /\ Len(found) \in Nat
  BY RunRowsAre DEF RInv, RTyped
<1>6. /\ found' \in Seq(FindingRow) /\ Len(found') = n
      /\ \A g \in 1 .. Len(found) : found'[g] = found[g]
      /\ found'[n] = x
  BY <1>1, <1>3, <1>4, <1>5, AppendProperties
<1>7. /\ Indices(found') = Indices(found) \union {n} /\ n \notin Indices(found)
      /\ \A g \in Indices(found) : found'[g] = found[g]
  BY <1>1, <1>5, <1>6 DEF Indices
<1>8. /\ Indices(runs)' = Indices(runs) /\ Running' = Running /\ Slow' = Slow
  BY <1>4 DEF Indices, Running, Slow
<1>9. RTyped'
  <2>1. Len(found') <= MaxFindings
    BY <1>1, <1>4, <1>5, <1>6, RunsAssumption
  <2> QED
    BY <1>4, <1>6, <2>1 DEF RInv, RTyped
<1>10. Reasoned'
  BY <1>3, <1>4, <1>6, <1>7, <1>8 DEF RInv, Reasoned, Sourced
<1>11. ASSUME NEW w \in Workers
       PROVE  HasRow(workers[w])' /\ Looked(workers[w])'
  <2>1. PICK q : q = workers[w]
    OBVIOUS
  <2>2. HasRow(q) /\ Looked(q)
    BY <2>1 DEF RInv, OwnRow, AllLooked
  <2>3. HasRow(q)'
    BY <1>4, <1>8, <2>2 DEF HasRow
  <2>4. \A k, d : \A g \in Indices(found') : Alike(g, k, d)' => g \in Indices(found) /\ Alike(g, k, d)
    BY <1>3, <1>6, <1>7 DEF Alike
  <2>5. Looked(q)'
    BY <1>7, <1>8, <2>2, <2>4 DEF Looked
  <2> QED
    BY <1>4, <2>1, <2>3, <2>5
<1>12. OwnRow' /\ OneRunning'
  BY <1>4, <1>8, <1>11 DEF RInv, OwnRow, OneRunning, AtWork
<1>13. NoRepetition'
  BY <1>3, <1>6, <1>7, <1>8 DEF RInv, NoRepetition, Alike
<1> QED
  BY <1>9, <1>10, <1>11, <1>12, <1>13 DEF RInv, AllLooked

\* Administrators advance findings.
LEMMA AdvancesAre ==
  DOMAIN Advances = Status /\ \A s \in Status : Advances[s] \subseteq Status
BY DEF Advances, Status

LEMMA PatchKeeps ==
  ASSUME RInv, NEW c \in Closers, NEW f \in Indices(found), NEW to \in DOMAIN Advances,
         PatchFinding(c, f, to)
  PROVE  RInv'
<1>1. PICK p : p = [at |-> "write", finding |-> f, to |-> to]
  OBVIOUS
<1>2. p \in Closing /\ p.finding = f
  BY <1>1, AdvancesAre, RunRowsAre DEF Closing, RInv
<1>3. /\ closers' \in [Closers -> Resting \union Closing] /\ closers'[c] = p
      /\ \A d \in Closers \ {c} : closers'[d] = closers[d]
      /\ UNCHANGED <<runs, workers, found>>
  BY <1>1, <1>2 DEF PatchFinding, RInv, RTyped
<1>4. Indices(runs)' = Indices(runs) /\ Indices(found)' = Indices(found) /\ Running' = Running
      /\ Slow' = Slow
  BY <1>3 DEF Indices, Running, Slow
<1>5. RTyped' /\ Reasoned'
  BY <1>2, <1>3, <1>4 DEF RInv, RTyped, Reasoned, Sourced
<1>6. ASSUME NEW w \in Workers
      PROVE  HasRow(workers[w])' /\ Looked(workers[w])'
  <2>1. PICK q : q = workers[w]
    OBVIOUS
  <2>2. HasRow(q) /\ Looked(q)
    BY <2>1 DEF RInv, OwnRow, AllLooked
  <2>3. HasRow(q)' /\ Looked(q)'
    BY <1>3, <1>4, <2>2 DEF HasRow, Looked, Alike
  <2> QED
    BY <1>3, <2>1, <2>3
<1>7. OwnRow' /\ OneRunning' /\ NoRepetition'
  BY <1>3, <1>4, <1>6 DEF RInv, OwnRow, OneRunning, NoRepetition, AtWork, Alike
<1> QED
  BY <1>5, <1>6, <1>7 DEF RInv, AllLooked

LEMMA CloseKeeps ==
  ASSUME RInv, NEW c \in Closers, WriteStatus(c)
  PROVE  RInv'
<1>1. PICK k : k = closers[c]
  OBVIOUS
<1>2. k.at = "write" /\ k.finding \in Indices(found) /\ UNCHANGED <<runs, workers>>
  BY <1>1 DEF WriteStatus, RInv, Reasoned
<1>3. k.to \in Status
  <2>1. k \in Resting \union Closing
    BY <1>1 DEF RInv, RTyped
  <2>2. k \notin Resting
    BY <1>2 DEF Resting
  <2> QED
    BY <2>1, <2>2 DEF Closing
<1>4. PICK f, to : f = k.finding /\ to = k.to
  OBVIOUS
<1>5. PICK y : y = found[f]
  OBVIOUS
<1>6. y \in FindingRow
  BY <1>2, <1>4, <1>5, RunRowsAre DEF RInv
<1>7. PICK b \in BOOLEAN : b <=> (y.reason \/ to = "RESOLVED")
  OBVIOUS
<1>8. PICK x : x = [y EXCEPT !.status = to, !.reason = b]
  OBVIOUS
<1>9. /\ x \in FindingRow /\ x.by = y.by /\ x.kind = y.kind /\ x.subject = y.subject /\ x.run = y.run
      /\ x.status = to /\ x.reason = b
  BY <1>3, <1>4, <1>6, <1>8 DEF FindingRow
<1>10. y.reason \in BOOLEAN
  BY <1>6 DEF FindingRow
<1>11. found' = [found EXCEPT ![f] = x]
  <2>1. (y.reason \/ to = "RESOLVED") = b
    BY <1>7
  <2>2. found' = [found EXCEPT ![f] = [y EXCEPT !.status = to, !.reason = (y.reason \/ to = "RESOLVED")]]
    BY <1>1, <1>4, <1>5 DEF WriteStatus
  <2> QED
    BY <1>8, <2>1, <2>2
<1>12. found \in Seq(FindingRow) /\ f \in 1 .. Len(found)
  BY <1>2, <1>4 DEF RInv, RTyped, Indices
<1>13. /\ found' \in Seq(FindingRow) /\ Len(found') = Len(found)
       /\ \A g \in 1 .. Len(found) : found'[g] = IF g = f THEN x ELSE found[g]
  BY <1>9, <1>11, <1>12, ExceptSeq
<1>14. /\ Indices(found') = Indices(found)
       /\ \A g \in Indices(found) : (g = f /\ found'[g] = x) \/ found'[g] = found[g]
  BY <1>13 DEF Indices
<1>15. \A g \in Indices(found) :
         /\ found'[g].by = found[g].by
         /\ found'[g].kind = found[g].kind /\ found'[g].subject = found[g].subject
         /\ found'[g].run = found[g].run
         /\ found[g].reason => found'[g].reason
         /\ found'[g].status = "RESOLVED" => found'[g].reason \/ found'[g].status = found[g].status
  <2>1. y.reason => x.reason
    BY <1>7, <1>9
  <2>2. x.status = "RESOLVED" => x.reason
    BY <1>7, <1>9
  <2> QED
    BY <1>5, <1>9, <1>14, <2>1, <2>2
<1>16. PICK p : p = [at |-> "done"]
  OBVIOUS
<1>17. p \in Resting /\ p.at = "done"
  BY <1>16 DEF Resting
<1>18. /\ closers' \in [Closers -> Resting \union Closing] /\ closers'[c] = p
       /\ \A d \in Closers \ {c} : closers'[d] = closers[d]
  BY <1>16, <1>17 DEF WriteStatus, RInv, RTyped
<1>19. Indices(runs)' = Indices(runs) /\ Running' = Running /\ Slow' = Slow
  BY <1>2 DEF Indices, Running, Slow
<1>20. RTyped'
  BY <1>2, <1>13, <1>18 DEF RInv, RTyped
<1>21. Reasoned'
  BY <1>2, <1>14, <1>15, <1>17, <1>18, <1>19 DEF RInv, Reasoned, Sourced
<1>22. ASSUME NEW w \in Workers
       PROVE  HasRow(workers[w])' /\ Looked(workers[w])'
  <2>1. PICK q : q = workers[w]
    OBVIOUS
  <2>2. HasRow(q) /\ Looked(q)
    BY <2>1 DEF RInv, OwnRow, AllLooked
  <2>3. HasRow(q)'
    BY <1>2, <1>19, <2>2 DEF HasRow
  <2>4. Looked(q)'
    BY <1>2, <1>14, <1>15, <2>2, LookedKept
  <2> QED
    BY <1>2, <2>1, <2>3, <2>4
<1>23. OwnRow' /\ OneRunning'
  BY <1>2, <1>19, <1>22 DEF RInv, OwnRow, OneRunning, AtWork
<1>24. NoRepetition'
  BY <1>14, <1>15, <1>19 DEF RInv, NoRepetition, Alike
<1> QED
  BY <1>20, <1>21, <1>22, <1>23, <1>24 DEF RInv, AllLooked

LEMMA RunsStarts ==
  RunsInit => RInv
<1> SUFFICES ASSUME RunsInit PROVE RInv
  OBVIOUS
<1>1. PICK p : p = Free
  OBVIOUS
<1>2. p \in Resting /\ p.at = "free"
  BY <1>1 DEF Free, Resting
<1>3. (\A w \in Workers : workers[w] = p) /\ (\A c \in Closers : closers[c] = p)
  BY <1>1 DEF RunsInit
<1>4. /\ runs \in Seq(RunRow) /\ Len(runs) = 0 /\ found \in Seq(FindingRow) /\ Len(found) = 0
  BY EmptySeq DEF RunsInit
<1>5. Indices(runs) = {} /\ Indices(found) = {}
  BY <1>4 DEF Indices
<1>6. RTyped
  BY <1>1, <1>2, <1>4, RunsAssumption DEF RTyped, RunsInit
<1>7. ASSUME NEW w \in Workers
      PROVE  HasRow(workers[w]) /\ Looked(workers[w]) /\ ~AtWork(w)
  BY <1>2, <1>3 DEF HasRow, Looked, AtWork, Busy
<1> QED
  BY <1>2, <1>3, <1>5, <1>6, <1>7
     DEF RInv, OwnRow, OneRunning, Running, Reasoned, AllLooked, NoRepetition

LEMMA RunsInductive ==
  RInv /\ [RunsNext]_runVars => RInv'
<1> SUFFICES ASSUME RInv, [RunsNext]_runVars PROVE RInv'
  OBVIOUS
<1>1. CASE UNCHANGED runVars
  BY <1>1 DEF runVars, RInv, RTyped, OwnRow, OneRunning, Reasoned, AllLooked, NoRepetition, HasRow,
     Sourced, Looked, Alike, AtWork, Slow, Running, Indices
<1>2. ASSUME NEW w \in Workers,
             \/ ReclaimStale(w) \/ LookForActive(w) \/ CreateRun(w) \/ Heartbeat(w)
             \/ \E kind \in Kinds : Inspect(w, kind)
             \/ WriteFinding(w) \/ DiesRunning(w)
             \/ \E status \in {"COMPLETED", "FAILED"} : Finish(w, status)
      PROVE  RInv'
  BY <1>2, ReclaimKeeps, LookKeeps, CreateKeeps, BeatsKeep, InspectKeeps, WriteKeeps, DiesKeeps,
     FinishKeeps
<1>3. CASE \E r \in Indices(runs) : TenMinutesPass(r)
  BY <1>3, BeatsKeep
<1>4. ASSUME NEW c \in Closers,
             \/ \E f \in Indices(found), to \in DOMAIN Advances : PatchFinding(c, f, to)
             \/ WriteStatus(c)
      PROVE  RInv'
  BY <1>4, PatchKeeps, CloseKeeps
<1>5. CASE \E kind \in IndexerKinds, subject \in Range(Subjects) : OpenFinding(kind, subject)
  BY <1>5, OpenKeeps DEF Subject
<1> QED
  BY <1>1, <1>2, <1>3, <1>4, <1>5 DEF RunsNext

LEMMA RunsAlways == RunsSpec => []RInv
  BY RunsStarts, RunsInductive, PTL DEF RunsSpec

\* The rows of runs and of findings are of their types; a finding of the
\* reconciler is of a run there is, one of the indexer of none
\* (prisma/schema.prisma, ReconciliationFinding.runId).
THEOREM RunsTyped == RunsSpec => []RunsTypeOK
<1>1. RInv => RunsTypeOK
  <2> SUFFICES ASSUME RInv PROVE RunsTypeOK
    OBVIOUS
  <2>1. \A r \in Indices(runs) : runs[r].status \in {"RUNNING", "COMPLETED", "FAILED", "STALE"}
    BY RunRowsAre DEF RInv, RunRow
  <2>2. ASSUME NEW f \in Indices(found)
        PROVE  /\ found[f].status \in DOMAIN Advances
               /\ found[f].subject \in Range(Subjects) /\ found[f].kind \in Kinds
               /\ \/ found[f].by = "run" /\ found[f].run \in Indices(runs)
                  \/ found[f].by = "indexer" /\ found[f].run = NoRow
    <3>1. found[f] \in FindingRow /\ Sourced(found[f])
      BY RunRowsAre DEF RInv, Reasoned
    <3> QED
      BY <3>1, AdvancesAre DEF Sourced, FindingRow, Findable, Kinds, Subject
  <2> QED
    BY <2>1, <2>2 DEF RInv, RTyped, RunsTypeOK
<1> QED
  BY <1>1, RunsAlways, PTL

\* upsertFinding (reconciler.ts) observes an open finding of a run again
\* instead of opening another.  Whatever runs overlap and die, whatever the
\* indexer opens beside them and whoever closes findings meanwhile, two of runs
\* that are open say the same only beside a run that was slow or after one of
\* them was resolved.  (The indexer's own rows are repeated: NoDuplicateRow.)
THEOREM NoRepetitions == RunsSpec => []RunsDoNotRepeat
<1>1. RInv => RunsDoNotRepeat
  <2> SUFFICES ASSUME RInv, NEW f \in Unresolved, NEW g \in Unresolved, Repeats(f, g),
                      found[f].by = "run", found[g].by = "run"
               PROVE  \/ \E r \in Indices(runs) : runs[r].slow
                      \/ found[f].reason \/ found[g].reason
    BY DEF RunsDoNotRepeat
  <2>1. f # g /\ f \in Indices(found) /\ g \in Indices(found)
        /\ Alike(f, found[g].kind, found[g].subject)
    BY DEF Unresolved, Repeats, Alike
  <2> QED
    BY <2>1 DEF RInv, NoRepetition, Slow
<1> QED
  BY <1>1, RunsAlways, PTL

------------------------------------------------------------------------------
\* The bulk-pay page: the inductive invariant.

BulkStart == ClientInit /\ BulkInit
BulkSpec == BulkStart /\ [][BulkNext]_<<clientVars, bulkVars>>

\* What the page and the others call.
Approvals == {"manager_approve", "finance_approve"}
Calls ==
  [fn : Approvals \union {"pay_batch", "cancel_escrow"}, escrow : Nat]
  \union [fn : {"submit_hours_proof"}, escrow : Nat, payment : Nat, nonce : Nat]
SentCall ==
  [call : Calls, by : Accounts, state : {"pending", "success", "failed", "expired"}, value : Nat]

\* What is called, at work and on its way is a call of the page, and no call
\* that is included takes a signature back.
Calling ==
  /\ ledger \in Seq(EscrowDetails) /\ Len(ledger) >= 1
  /\ sent \in Seq(SentCall)
  /\ client = [p \in Callers |-> client[p]]
  /\ \A p \in Callers : /\ client[p].stage \in {"called", "signing"} => client[p].call \in Calls
                        /\ client[p].stage = "signing" => client[p].by \in Accounts
Submitting == todo \in Seq(Calls) /\ (busy = "attest" => todo # <<>>)
BInv == Calling /\ Submitting /\ BadgesReflectChain

LEMMA BulkStarts == BulkStart => BInv
<1> SUFFICES ASSUME BulkStart PROVE BInv
  OBVIOUS
<1>1. /\ ledger = <<Escrow1>> /\ Escrow1 \in EscrowDetails
      /\ client = [p \in Callers |-> [stage |-> "idle"]]
      /\ sent = <<>> /\ todo = <<>> /\ busy = "no" /\ chain.signed = {}
  BY ClientAssumption DEF BulkStart, ClientInit, BulkInit, NotRead, Idle
<1>2. ledger \in Seq(EscrowDetails) /\ Len(ledger) = 1
  BY <1>1
<1>3. sent \in Seq(SentCall) /\ todo \in Seq(Calls)
  BY <1>1, EmptySeq
<1>4. Calling
  BY <1>1, <1>2, <1>3 DEF Calling
<1> QED
  BY <1>1, <1>3, <1>4 DEF BInv, Submitting, BadgesReflectChain

\* What the contract accepts changes one escrow there is, and takes no
\* signature from it.
LEMMA AppliedCall ==
  ASSUME Calling, NEW c \in Calls, NEW a, Accepts(c, a)
  PROVE  LET after == Apply(c) IN
         /\ after \in Seq(EscrowDetails) /\ Len(after) = Len(ledger)
         /\ \A e \in 1 .. Len(ledger) : ledger[e].signed \subseteq after[e].signed
<1>1. c.fn # "initialize_multi_sig_escrow" /\ c.escrow \in DOMAIN ledger
  BY DEF Calls, Approvals, Accepts
<1>2. PICK e \in 1 .. Len(ledger) : e = c.escrow
  BY <1>1, LenProperties DEF Calling
<1>3. PICK r \in EscrowDetails : r = ledger[e]
  BY ElementOfSeq DEF Calling
<1>4. ASSUME NEW t \in EscrowDetails, r.signed \subseteq t.signed, Apply(c) = [ledger EXCEPT ![e] = t]
      PROVE  LET after == Apply(c) IN
             /\ after \in Seq(EscrowDetails) /\ Len(after) = Len(ledger)
             /\ \A f \in 1 .. Len(ledger) : ledger[f].signed \subseteq after[f].signed
  BY <1>3, <1>4, ExceptSeq DEF Calling
<1>5. CASE c.fn = "submit_hours_proof"
  <2>1. c.payment \in Nat
    BY <1>5 DEF Calls, Approvals
  <2> DEFINE t == [r EXCEPT !.proved = r.proved \union {c.payment}, !.nonce = r.nonce + 1]
  <2>2. t \in EscrowDetails /\ t.signed = r.signed
    <3>1. PICK proved \in SUBSET Nat : proved = r.proved \union {c.payment}
      BY <2>1 DEF EscrowDetails
    <3>2. PICK nonce \in Nat : nonce = r.nonce + 1
      BY DEF EscrowDetails
    <3>3. t = [r EXCEPT !.proved = proved, !.nonce = nonce]
      BY <3>1, <3>2
    <3> QED
      BY <3>3, Zenon DEF EscrowDetails
  <2>3. Apply(c) = [ledger EXCEPT ![e] = t]
    <3>1. Apply(c) = [ledger EXCEPT ![c.escrow].proved = @ \union {c.payment},
                                    ![c.escrow].nonce = @ + 1]
      BY <1>5 DEF Apply
    <3> QED
      BY <1>2, <1>3, <3>1 DEF Calling
  <2> QED
    BY <1>4, <2>2, <2>3
<1>6. ASSUME NEW role \in Both, c.fn = IF role = "manager" THEN "manager_approve" ELSE "finance_approve"
      PROVE  Apply(c) = [ledger EXCEPT ![e] = [r EXCEPT !.signed = @ \union {role}]]
  BY <1>2, <1>3, <1>6 DEF Apply, Both
<1>7. CASE c.fn \in Approvals
  <2>1. PICK role \in Both : c.fn = IF role = "manager" THEN "manager_approve" ELSE "finance_approve"
    BY <1>7 DEF Approvals, Both
  <2> DEFINE t == [r EXCEPT !.signed = @ \union {role}]
  <2>2. t \in EscrowDetails /\ r.signed \subseteq t.signed
    BY DEF EscrowDetails
  <2> QED
    BY <1>4, <1>6, <2>1, <2>2
<1>8. CASE c.fn \in {"pay_batch", "cancel_escrow"}
  <2>1. PICK end \in {"paid", "cancelled"} : Apply(c) = [ledger EXCEPT ![e] = [r EXCEPT !.end = end]]
    BY <1>2, <1>3, <1>8 DEF Apply
  <2> DEFINE t == [r EXCEPT !.end = end]
  <2>2. t \in EscrowDetails /\ t.signed = r.signed
    BY DEF EscrowDetails
  <2> QED
    BY <1>4, <2>1, <2>2
<1> QED
  BY <1>5, <1>7, <1>8 DEF Calls

\* The contract's escrows keep their signatures, and whoever called goes on.
LEMMA BulkStep ==
  ASSUME BInv, Calling',
         \A e \in 1 .. Len(ledger) : ledger[e].signed \subseteq ledger'[e].signed,
         UNCHANGED bulkVars
  PROVE  BInv'
<1>1. 1 \in 1 .. Len(ledger)
  BY LenProperties DEF BInv, Calling
<1>2. BadgesReflectChain'
  BY <1>1 DEF BInv, BadgesReflectChain, bulkVars, ESCROW_ID
<1> QED
  BY <1>2 DEF BInv, Submitting, bulkVars

\* A call goes on.
LEMMA CallerSteps ==
  ASSUME Calling, NEW p \in Callers, NEW k, client' = [client EXCEPT ![p] = k],
         k.stage \in {"called", "signing"} => k.call \in Calls,
         k.stage = "signing" => k.by \in Accounts,
         UNCHANGED ledger, sent' \in Seq(SentCall)
  PROVE  Calling'
<1>1. /\ client' = [q \in Callers |-> client'[q]]
      /\ client'[p] = k
      /\ \A q \in Callers \ {p} : client'[q] = client[q]
  BY DEF Calling
<1> QED
  BY <1>1 DEF Calling

LEMMA PagesCall ==
  ASSUME BInv, ClientNext \/ OthersNext, UNCHANGED bulkVars
  PROVE  BInv'
<1> USE DEF BInv
<1>1. ASSUME NEW n \in DOMAIN sent, Include(n)
      PROVE  BInv'
  <2>1. PICK s \in SentCall : s = sent[n] /\ n \in 1 .. Len(sent)
    BY LenProperties, ElementOfSeq DEF Calling
  <2>2. s.call \in Calls
    BY DEF SentCall
  <2>3. \/ /\ Accepts(s.call, s.by) /\ ledger' = Apply(s.call)
           /\ sent' = [sent EXCEPT ![n].state = "success", ![n].value = 0]
        \/ /\ sent' = [sent EXCEPT ![n].state = "failed"] /\ UNCHANGED ledger
        \/ /\ sent' = [sent EXCEPT ![n].state = "expired"] /\ UNCHANGED ledger
    BY <1>1, <2>1, <2>2 DEF Include, Calls, Approvals
  <2>4. PICK t \in SentCall : sent' = [sent EXCEPT ![n] = t]
    <3>1. CASE sent' = [sent EXCEPT ![n].state = "success", ![n].value = 0]
      <4>1. [s EXCEPT !.state = "success", !.value = 0] \in SentCall
        BY DEF SentCall
      <4> QED
        BY <2>1, <3>1, <4>1
    <3>2. ASSUME NEW state \in {"failed", "expired"}, sent' = [sent EXCEPT ![n].state = state]
          PROVE  \E t \in SentCall : sent' = [sent EXCEPT ![n] = t]
      <4>1. [s EXCEPT !.state = state] \in SentCall
        BY DEF SentCall
      <4> QED
        BY <2>1, <3>2, <4>1
    <3> QED
      BY <2>3, <3>1, <3>2
  <2>5. sent' \in Seq(SentCall)
    BY <2>1, <2>4, ExceptSeq DEF Calling
  <2>6. /\ ledger' \in Seq(EscrowDetails) /\ Len(ledger') = Len(ledger)
        /\ \A e \in 1 .. Len(ledger) : ledger[e].signed \subseteq ledger'[e].signed
    BY <2>2, <2>3, AppliedCall DEF Calling
  <2>7. UNCHANGED client
    BY <1>1 DEF Include
  <2>8. Calling'
    BY <2>5, <2>6, <2>7 DEF Calling
  <2> QED
    BY <2>6, <2>8, BulkStep
<1>2. ASSUME NEW p \in Callers, NEW a \in Accounts, Simulate(p, a)
      PROVE  BInv'
  <2>1. PICK k : /\ client' = [client EXCEPT ![p] = k]
                 /\ \/ k = [stage |-> "signing", call |-> client[p].call, by |-> a]
                    \/ k = [stage |-> "threw"]
    BY <1>2 DEF Simulate, Threw
  <2>2. client[p].call \in Calls /\ UNCHANGED <<ledger, sent>>
    BY <1>2 DEF Simulate, Calling
  <2>3. Calling'
    <3>1. /\ k.stage \in {"called", "signing"} => k.call \in Calls
          /\ k.stage = "signing" => k.by \in Accounts
      BY <2>1, <2>2
    <3>2. Calling /\ UNCHANGED ledger /\ sent' \in Seq(SentCall)
      BY <2>2 DEF Calling
    <3> HIDE DEF BInv
    <3> QED
      BY <2>1, <3>1, <3>2, CallerSteps
  <2> QED
    BY <2>2, <2>3, BulkStep
<1>3. ASSUME NEW p \in Callers, Throw(p) \/ PollForResult(p)
      PROVE  BInv'
  <2>1. PICK k : /\ client' = [client EXCEPT ![p] = k]
                 /\ k.stage \in {"threw", "returned"}
    <3> DEFINE back == [stage |-> "returned", tx |-> client[p].tx, value |-> sent[client[p].tx].value]
               threw == [stage |-> "threw"]
    <3>1. client' = [client EXCEPT ![p] = back] \/ client' = [client EXCEPT ![p] = threw]
      BY <1>3 DEF Throw, PollForResult, Threw, Returned
    <3>2. back.stage = "returned" /\ threw.stage = "threw"
      OBVIOUS
    <3> HIDE DEF back, threw
    <3> QED
      BY <3>1, <3>2
  <2>2. UNCHANGED <<ledger, sent>>
    BY <1>3 DEF Throw, PollForResult
  <2>3. Calling'
    <3>1. Calling /\ UNCHANGED ledger /\ sent' \in Seq(SentCall)
      BY <2>2 DEF Calling
    <3> HIDE DEF BInv
    <3> QED
      BY <2>1, <3>1, CallerSteps
  <2> QED
    BY <2>2, <2>3, BulkStep
<1>4. ASSUME NEW p \in Callers, Send(p)
      PROVE  BInv'
  <2>1. PICK k : /\ client' = [client EXCEPT ![p] = k]
                 /\ k.stage \in {"polling", "returned"}
    <3> DEFINE polling == [stage |-> "polling", tx |-> Len(sent) + 1]
               back == [stage |-> "returned", tx |-> 0, value |-> 0]
    <3>1. client' = [client EXCEPT ![p] = polling] \/ client' = [client EXCEPT ![p] = back]
      BY <1>4 DEF Send, Returned
    <3>2. polling.stage = "polling" /\ back.stage = "returned"
      OBVIOUS
    <3> HIDE DEF back, polling
    <3> QED
      BY <3>1, <3>2
  <2>2. sent' \in Seq(SentCall)
    <3> DEFINE s == [call |-> client[p].call, by |-> client[p].by, state |-> "pending", value |-> 0]
    <3>1. client[p].call \in Calls /\ client[p].by \in Accounts
      BY <1>4 DEF Send, Calling
    <3>2. s \in SentCall
      BY <3>1 DEF SentCall
    <3>3. sent' = Append(sent, s) \/ UNCHANGED sent
      BY <1>4 DEF Send
    <3> QED
      BY <3>2, <3>3, AppendProperties DEF Calling
  <2>3. UNCHANGED ledger
    BY <1>4 DEF Send
  <2>4. Calling'
    BY <2>1, <2>2, <2>3, CallerSteps
  <2> QED
    BY <2>3, <2>4, BulkStep
<1>5. ASSUME OthersNext
      PROVE  BInv'
  <2>1. PICK e \in DOMAIN ledger, a \in Accounts :
          \/ \E fn \in {"manager_approve", "finance_approve", "pay_batch", "cancel_escrow"} :
               Elsewhere(Call(fn, e), a)
          \/ \E i \in 0 .. (ledger[e].payments - 1) : Elsewhere(Proof(e, i, ledger[e].nonce), a)
    BY <1>5 DEF OthersNext
  <2>2. PICK r \in EscrowDetails : r = ledger[e] /\ e \in Nat
    BY LenProperties, ElementOfSeq DEF Calling
  <2>3. PICK c \in Calls : Elsewhere(c, a)
    <3>1. \A fn \in {"manager_approve", "finance_approve", "pay_batch", "cancel_escrow"} :
            Call(fn, e) \in Calls
      BY <2>2 DEF Call, Calls, Approvals
    <3>2. \A i \in 0 .. (ledger[e].payments - 1) : Proof(e, i, ledger[e].nonce) \in Calls
      BY <2>2 DEF Proof, Calls, EscrowDetails
    <3> QED
      BY <2>1, <3>1, <3>2
  <2>4. Accepts(c, a) /\ ledger' = Apply(c) /\ UNCHANGED <<sent, client>>
    BY <2>3 DEF Elsewhere
  <2>5. /\ ledger' \in Seq(EscrowDetails) /\ Len(ledger') = Len(ledger)
        /\ \A f \in 1 .. Len(ledger) : ledger[f].signed \subseteq ledger'[f].signed
    BY <2>4, AppliedCall
  <2>6. Calling'
    BY <2>4, <2>5 DEF Calling
  <2> QED
    BY <2>5, <2>6, BulkStep
<1> QED
  BY <1>1, <1>2, <1>3, <1>4, <1>5 DEF ClientNext

\* The page's own place goes on, and the ledger is as it was.
LEMMA PageSteps ==
  ASSUME BInv, NEW k, client' = [client EXCEPT ![Page] = k], k.stage \in {"idle", "called"},
         k.stage = "called" => k.call \in Calls,
         UNCHANGED <<ledger, sent>>,
         Submitting', chain'.signed \subseteq ledger[ESCROW_ID].signed
  PROVE  BInv'
<1>1. \A p \in Callers : client'[p] = k \/ client'[p] = client[p]
  BY DEF BInv, Calling
<1>2. client' = [p \in Callers |-> client'[p]]
  BY DEF BInv, Calling
<1>3. Calling'
  BY <1>1, <1>2 DEF BInv, Calling
<1> QED
  BY <1>3 DEF BInv, BadgesReflectChain

\* What the route signs are calls the contract knows.
LEMMA SignaturesAre ==
  ASSUME Calling, NEW wallet, NEW itsRows
  PROVE  SubmitBatch(wallet, itsRows) \in Seq(Calls)
<1>1. PICK r \in EscrowDetails : r = ledger[ESCROW_ID]
  BY LenProperties, ElementOfSeq DEF Calling, ESCROW_ID
<1>2. r.payments \in Nat /\ r.nonce \in Nat
  BY DEF EscrowDetails
<1>3. \A i \in 1 .. r.payments : Proof(ESCROW_ID, i - 1, r.nonce + i - 1) \in Calls
  BY <1>2 DEF Proof, Calls, ESCROW_ID
<1>4. BatchSignatures = [i \in 1 .. r.payments |-> Proof(ESCROW_ID, i - 1, r.nonce + i - 1)]
  BY <1>1 DEF BatchSignatures, GetEscrow, GetNonce
<1>5. BatchSignatures \in Seq(Calls)
  BY <1>2, <1>3, <1>4, SeqDef
<1> QED
  BY <1>5, EmptySeq DEF SubmitBatch

LEMMA BulkSteps ==
  ASSUME BInv, BulkNext
  PROVE  BInv'
<1>1. \/ Mount
      \/ \E wallet \in Accounts : \/ \E itsRows \in BOOLEAN : Attest(wallet, itsRows)
                                  \/ \E role \in Both : Approve(role, wallet)
      \/ SubmitHoursProof \/ NextProof \/ SettleBatch \/ RunReturned \/ RunThrew
      \/ (ClientNext \/ OthersNext) /\ UNCHANGED bulkVars
  BY DEF BulkNext
<1>2. Submitting /\ BadgesReflectChain /\ Calling
  BY DEF BInv
<1>3. ASSUME UNCHANGED clientVars, Submitting', chain'.signed \subseteq ledger[ESCROW_ID].signed
      PROVE  BInv'
  BY <1>2, <1>3 DEF BInv, Calling, BadgesReflectChain, clientVars
<1>4. CASE Mount
  <2>1. chain'.signed = ledger[ESCROW_ID].signed
    BY <1>4 DEF Mount, Snapshot, GetEscrow
  <2> QED
    BY <1>2, <1>3, <1>4, <2>1 DEF Mount, Submitting
<1>5. ASSUME NEW wallet \in Accounts, NEW itsRows \in BOOLEAN, Attest(wallet, itsRows)
      PROVE  BInv'
  <2>1. PICK signatures \in Seq(Calls) : signatures = SubmitBatch(wallet, itsRows)
    BY <1>2, SignaturesAre
  <2>2. /\ busy' = IF signatures = <<>> THEN "no" ELSE "attest"
        /\ todo' = signatures /\ UNCHANGED <<clientVars, chain>>
    BY <1>5, <2>1 DEF Attest, Operate
  <2>3. Submitting'
    BY <2>2 DEF Submitting
  <2> QED
    BY <1>2, <1>3, <2>2, <2>3 DEF BadgesReflectChain
<1>6. ASSUME NEW wallet \in Accounts, NEW role \in Both, Approve(role, wallet)
      PROVE  BInv'
  <2>1. PICK c \in Calls :
          /\ client' = [client EXCEPT ![Page] = [stage |-> "called", call |-> c]]
          /\ UNCHANGED <<ledger, sent, chain, todo>> /\ busy' = role
    <3> DEFINE c == [fn |-> IF role = "manager" THEN "manager_approve" ELSE "finance_approve",
                     escrow |-> 1]
    <3>1. c \in Calls
      BY DEF Calls, Approvals
    <3>2. /\ client' = [client EXCEPT ![Page] = [stage |-> "called", call |-> c]]
          /\ UNCHANGED <<ledger, sent, chain, todo>> /\ busy' = role
      BY <1>6 DEF Approve, Operate, Called, Call, ESCROW_ID
    <3> HIDE DEF c
    <3> QED
      BY <3>1, <3>2
  <2>2. Submitting'
    BY <1>2, <2>1 DEF Submitting, Both
  <2> QED
    BY <1>2, <2>1, <2>2, PageSteps DEF BadgesReflectChain
<1>7. CASE SubmitHoursProof
  <2>1. PICK c : c = Head(todo) /\ c \in Calls
    BY <1>2, <1>7, HeadTailProperties DEF SubmitHoursProof, Submitting
  <2>2. /\ client' = [client EXCEPT ![Page] = [stage |-> "called", call |-> c]]
        /\ UNCHANGED <<ledger, sent, chain, todo, busy>>
    BY <1>7, <2>1 DEF SubmitHoursProof, Called, bulkVars
  <2>3. Submitting'
    BY <1>2, <2>2 DEF Submitting
  <2> QED
    BY <1>2, <2>1, <2>2, <2>3, PageSteps DEF BadgesReflectChain
<1>8. CASE NextProof
  <2>1. /\ client' = [client EXCEPT ![Page] = [stage |-> "idle"]]
        /\ todo' = Tail(todo) /\ Len(todo) > 1 /\ UNCHANGED <<ledger, sent, chain, busy>>
    BY <1>8 DEF NextProof, Idle
  <2>2. todo \in Seq(Calls) /\ todo # <<>>
    BY <1>2, <2>1 DEF Submitting
  <2>3. Tail(todo) \in Seq(Calls) /\ Len(Tail(todo)) = Len(todo) - 1 /\ Len(todo) \in Nat
    BY <2>2, HeadTailProperties, LenProperties
  <2>4. PICK rest : rest = Tail(todo)
    OBVIOUS
  <2>5. rest # <<>>
    <3>1. Len(rest) >= 1
      BY <2>1, <2>3, <2>4
    <3> QED
      BY <3>1, Len(<<>>) = 0
  <2>6. Submitting'
    BY <2>1, <2>3, <2>4, <2>5 DEF Submitting
  <2> QED
    BY <1>2, <2>1, <2>6, PageSteps DEF BadgesReflectChain
<1>9. CASE SettleBatch
  <2>1. PICK c \in Calls :
          /\ client' = [client EXCEPT ![Page] = [stage |-> "called", call |-> c]]
          /\ UNCHANGED <<ledger, sent, chain, todo>> /\ busy' = "settle"
    <3> DEFINE c == [fn |-> "pay_batch", escrow |-> 1]
    <3>1. c \in Calls
      BY DEF Calls
    <3>2. /\ client' = [client EXCEPT ![Page] = [stage |-> "called", call |-> c]]
          /\ UNCHANGED <<ledger, sent, chain, todo>> /\ busy' = "settle"
      BY <1>9 DEF SettleBatch, Operate, Called, Call, ESCROW_ID
    <3> HIDE DEF c
    <3> QED
      BY <3>1, <3>2
  <2>2. Submitting'
    BY <1>2, <2>1 DEF Submitting
  <2> QED
    BY <1>2, <2>1, <2>2, PageSteps DEF BadgesReflectChain
<1>10. CASE RunReturned
  <2>1. /\ client' = [client EXCEPT ![Page] = [stage |-> "idle"]]
        /\ todo' = <<>> /\ busy' = "no" /\ UNCHANGED <<ledger, sent>>
        /\ chain' = Snapshot(ledger[ESCROW_ID]) \/ chain' = chain
    BY <1>10 DEF RunReturned, Idle, Refreshed, GetEscrow
  <2>2. Submitting'
    BY <2>1, EmptySeq DEF Submitting
  <2>3. chain'.signed \subseteq ledger[ESCROW_ID].signed
    BY <1>2, <2>1 DEF Snapshot, BadgesReflectChain
  <2> QED
    BY <2>1, <2>2, <2>3, PageSteps
<1>11. CASE RunThrew
  <2>1. /\ client' = [client EXCEPT ![Page] = [stage |-> "idle"]]
        /\ todo' = <<>> /\ busy' = "no" /\ UNCHANGED <<ledger, sent, chain>>
    BY <1>11 DEF RunThrew, Idle
  <2>2. Submitting'
    BY <2>1, EmptySeq DEF Submitting
  <2> QED
    BY <1>2, <2>1, <2>2, PageSteps DEF BadgesReflectChain
<1> QED
  BY <1>1, <1>4, <1>5, <1>6, <1>7, <1>8, <1>9, <1>10, <1>11, PagesCall

\* Every badge of the bulk-pay page reflects get_escrow: a signature shown is
\* on chain, although the page is behind the contract, calls fail, time out or
\* come back late, and others sign (app/bulk-pay/page.tsx).
THEOREM BadgesReflect == BulkSpec => []BadgesReflectChain
<1>1. BInv /\ UNCHANGED <<clientVars, bulkVars>> => BInv'
  BY DEF BInv, Calling, Submitting, BadgesReflectChain, clientVars, bulkVars
<1>2. BInv => BadgesReflectChain
  BY DEF BInv
<1> QED
  BY <1>1, <1>2, BulkStarts, BulkSteps, PTL DEF BulkSpec

------------------------------------------------------------------------------
\* The page of a batch.

PageSpec == BatchPageInit /\ [][BatchPageNext]_batchPageVars

\* Whoever decided a half of a payment has a name, and approvals go on in the
\* name of who asked.
Signed == {Nobody} \union {Decides(d, m) : d \in {"APPROVED", "REJECTED"}, m \in DOMAIN Approver}
PInv ==
  /\ standing \in [1..Lines -> States!PaymentState]
  /\ decided \in [1..Lines -> [Halves -> Signed]]
  /\ \E list, m, n, h :
       /\ approving = [todo |-> list, by |-> m, failed |-> n, half |-> h]
       /\ m \in DOMAIN Approver \/ (m = "nobody" /\ list = <<>>)

\* Another decision of a half is a decision.
LEMMA OneDecided ==
  ASSUME decided \in [1..Lines -> [Halves -> Signed]], NEW p, NEW half, NEW d \in Signed,
         decided' = [decided EXCEPT ![p] = [decided[p] EXCEPT ![half] = d]]
  PROVE  decided' \in [1..Lines -> [Halves -> Signed]]
<1>1. ASSUME NEW q \in 1..Lines PROVE decided'[q] \in [Halves -> Signed]
  <2>1. decided[q] \in [Halves -> Signed]
    BY <1>1
  <2>2. [decided[q] EXCEPT ![half] = d] \in [Halves -> Signed]
    BY <2>1
  <2>3. decided'[q] = IF q = p THEN [decided[q] EXCEPT ![half] = d] ELSE decided[q]
    BY <1>1
  <2> QED
    BY <2>1, <2>2, <2>3
<1>2. decided' = [q \in 1..Lines |-> decided'[q]]
  OBVIOUS
<1> QED
  BY <1>1, <1>2

LEMMA PageStarts == BatchPageInit => PInv
<1> SUFFICES ASSUME BatchPageInit PROVE PInv
  OBVIOUS
<1>1. standing \in [1..Lines -> States!PaymentState]
  BY DEF BatchPageInit, States!PaymentState
<1>2. decided \in [1..Lines -> [Halves -> Signed]]
  BY DEF BatchPageInit, Signed
<1>3. approving = [todo |-> <<>>, by |-> "nobody", failed |-> 0, half |-> "none"]
  BY DEF BatchPageInit, NotApproving
<1> QED
  BY <1>1, <1>2, <1>3 DEF PInv

LEMMA PageGoesOn ==
  ASSUME PInv, [BatchPageNext]_batchPageVars
  PROVE  PInv'
<1> DEFINE Carried(a) ==
             \E list, m, n, h :
               /\ a = [todo |-> list, by |-> m, failed |-> n, half |-> h]
               /\ m \in DOMAIN Approver \/ (m = "nobody" /\ list = <<>>)
<1>1. /\ standing \in [1..Lines -> States!PaymentState]
      /\ decided \in [1..Lines -> [Halves -> Signed]] /\ Carried(approving)
  BY DEF PInv
<1> HIDE DEF Carried
<1>2. ASSUME NEW p, NEW to \in States!PaymentState, standing' = [standing EXCEPT ![p] = to]
      PROVE  standing' \in [1..Lines -> States!PaymentState]
  BY <1>1, <1>2
<1>3. SUFFICES /\ standing' \in [1..Lines -> States!PaymentState]
               /\ decided' \in [1..Lines -> [Halves -> Signed]] /\ Carried(approving')
  BY DEF PInv, Carried
<1>4. ASSUME NEW p \in 1..Lines, NEW to \in States!PaymentState, MovedElsewhere(p, to)
      PROVE  /\ standing' \in [1..Lines -> States!PaymentState]
             /\ UNCHANGED <<decided, approving>>
  BY <1>2, <1>4 DEF MovedElsewhere
<1>5. ASSUME NEW p \in 1..Lines, Prepared(p)
      PROVE  /\ standing' \in [1..Lines -> States!PaymentState]
             /\ UNCHANGED <<decided, approving>>
  BY <1>2, <1>5 DEF Prepared, States!PaymentState
<1>6. ASSUME NEW p \in 1..Lines, NEW m \in DOMAIN Approver, RejectPayment(p, m)
      PROVE  /\ standing' \in [1..Lines -> States!PaymentState]
             /\ decided' \in [1..Lines -> [Halves -> Signed]] /\ approving' = approving
  <2> DEFINE half == IF Approver[m] = "FINANCE" THEN "FINANCE" ELSE "MANAGER"
             d == Decides("REJECTED", IF decided[p][half] = Nobody THEN m ELSE decided[p][half].by)
  <2>1. /\ standing' = [standing EXCEPT ![p] = "REJECTED"] /\ approving' = approving
        /\ decided' = [decided EXCEPT ![p] = [decided[p] EXCEPT ![half] = d]]
    BY <1>6 DEF RejectPayment
  <2>2. d \in Signed
    <3>1. half \in Halves /\ decided[p][half] \in Signed
      BY <1>1 DEF Halves
    <3> HIDE DEF half
    <3>2. decided[p][half] # Nobody => decided[p][half].by \in DOMAIN Approver
      <4>1. SUFFICES ASSUME decided[p][half] # Nobody PROVE decided[p][half].by \in DOMAIN Approver
        OBVIOUS
      <4>2. PICK e \in {"APPROVED", "REJECTED"}, q \in DOMAIN Approver : decided[p][half] = Decides(e, q)
        BY <3>1, <4>1 DEF Signed
      <4>3. decided[p][half].by = q
        BY <4>2 DEF Decides
      <4> QED
        BY <4>3
    <3> QED
      BY <3>2 DEF Signed
  <2>3. "REJECTED" \in States!PaymentState
    BY DEF States!PaymentState
  <2> HIDE DEF half, d
  <2> QED
    BY <1>1, <1>2, <2>1, <2>2, <2>3, OneDecided
<1>7. ASSUME NEW m \in DOMAIN Approver, NEW named, BeginApproval(m, named)
      PROVE  UNCHANGED <<standing, decided>> /\ Carried(approving')
  <2> DEFINE list == SetToSortSeq({p \in named : standing[p] \in Approvable}, <)
  <2>1. /\ UNCHANGED <<standing, decided>>
        /\ approving' = [NotApproving EXCEPT !.todo = list, !.by = m]
    BY <1>7 DEF BeginApproval
  <2> HIDE DEF list
  <2>2. approving' = [todo |-> list, by |-> m, failed |-> 0, half |-> "none"]
    BY <2>1 DEF NotApproving
  <2> QED
    BY <2>1, <2>2 DEF Carried
<1>8. CASE ApproveNext
  <2> DEFINE p == Head(approving.todo)
             half == HalfFor(approving.by, p)
             other == decided[p][OtherHalf(half)]
             known == decided[p][half] # Nobody
             refused == ~known /\ other # Nobody /\ other.by = approving.by
  <2>1. PICK list, m, n, h :
          /\ approving = [todo |-> list, by |-> m, failed |-> n, half |-> h]
          /\ m \in DOMAIN Approver \/ (m = "nobody" /\ list = <<>>)
    BY <1>1 DEF Carried
  <2>2. /\ standing' = standing /\ approving.todo # <<>>
        /\ decided' = IF known \/ refused THEN decided
                      ELSE [decided EXCEPT ![p] = [decided[p] EXCEPT ![half] = Decides("APPROVED", approving.by)]]
        /\ approving' = [approving EXCEPT !.todo = Tail(approving.todo),
                           !.failed = IF refused THEN approving.failed + 1 ELSE approving.failed,
                           !.half = IF known \/ refused THEN approving.half ELSE half]
    BY <1>8 DEF ApproveNext
  <2>3. approving.by = m /\ m \in DOMAIN Approver
    BY <2>1, <2>2
  <2>4. Decides("APPROVED", approving.by) \in Signed
    BY <2>3 DEF Signed
  <2> HIDE DEF p, half, known, refused
  <2>5. decided' \in [1..Lines -> [Halves -> Signed]]
    BY <1>1, <2>2, <2>4, OneDecided
  <2>6. approving' = [todo |-> Tail(list), by |-> m,
                      failed |-> IF refused THEN n + 1 ELSE n,
                      half |-> IF known \/ refused THEN h ELSE half]
    BY <2>1, <2>2
  <2>7. Carried(approving')
    BY <2>3, <2>6 DEF Carried
  <2> QED
    BY <1>1, <2>2, <2>5, <2>7
<1>9. CASE EndApproval
  <2>1. /\ UNCHANGED <<standing, decided>>
        /\ approving' = [todo |-> <<>>, by |-> "nobody", failed |-> 0, half |-> "none"]
    BY <1>9 DEF EndApproval, NotApproving
  <2> QED
    BY <1>1, <2>1 DEF Carried
<1>10. CASE LoadPage \/ UNCHANGED batchPageVars
  <2>1. UNCHANGED <<standing, decided, approving>>
    BY <1>10 DEF LoadPage, batchPageVars
  <2> QED
    BY <1>1, <2>1
<1> QED
  BY <1>1, <1>4, <1>5, <1>6, <1>7, <1>8, <1>9, <1>10 DEF BatchPageNext

LEMMA PageAlways == PageSpec => []PInv
BY PageStarts, PageGoesOn, PTL DEF PageSpec

\* What is found is of the kind looked for, and nothing before it is.
LEMMA FirstIs ==
  ASSUME NEW s, DOMAIN s \subseteq Nat, NEW wanted, \E i \in DOMAIN s : s[i] \in wanted
  PROVE  \E i \in DOMAIN s : /\ First(s, wanted) = s[i] /\ s[i] \in wanted
                             /\ \A j \in DOMAIN s : s[j] \in wanted => i <= j
<1> DEFINE There == {i \in DOMAIN s : s[i] \in wanted}
<1>1. PICK i \in There : \A j \in There : i <= j
  BY LeastNatural
<1>2. \E k \in DOMAIN s : s[k] \in wanted /\ \A j \in DOMAIN s : s[j] \in wanted => k <= j
  BY <1>1
<1> QED
  BY <1>2 DEF First

\* The ten states in which a payment progresses, PAID the last of them.
LEMMA ProgressIs ==
  /\ PROGRESS_ORDER \in Seq(States!PaymentState) /\ Len(PROGRESS_ORDER) = 10
  /\ PROGRESS_ORDER[10] = "PAID" /\ \A i \in 1..9 : PROGRESS_ORDER[i] # "PAID"
  /\ \A state \in States!PaymentState \ Broken :
       state \in States!TERMINAL_STATES \/ \E i \in 1..9 : PROGRESS_ORDER[i] = state
<1>1. PROGRESS_ORDER \in Seq(States!PaymentState) /\ Len(PROGRESS_ORDER) = 10
  BY DEF PROGRESS_ORDER, States!PaymentState
<1>2. /\ PROGRESS_ORDER[1] = "DRAFT" /\ PROGRESS_ORDER[2] = "VALIDATING"
      /\ PROGRESS_ORDER[3] = "AWAITING_ORACLE" /\ PROGRESS_ORDER[4] = "ORACLE_VERIFIED"
      /\ PROGRESS_ORDER[5] = "AWAITING_MANAGER" /\ PROGRESS_ORDER[6] = "AWAITING_FINANCE"
      /\ PROGRESS_ORDER[7] = "READY_TO_SETTLE" /\ PROGRESS_ORDER[8] = "SUBMITTING"
      /\ PROGRESS_ORDER[9] = "CONFIRMING" /\ PROGRESS_ORDER[10] = "PAID"
  BY DEF PROGRESS_ORDER
<1>3. \A i \in 1..9 : i = 1 \/ i = 2 \/ i = 3 \/ i = 4 \/ i = 5 \/ i = 6 \/ i = 7 \/ i = 8 \/ i = 9
  OBVIOUS
<1>4. \A i \in 1..9 : PROGRESS_ORDER[i] # "PAID"
  BY <1>2, <1>3
<1>5. ASSUME NEW state \in States!PaymentState \ Broken, state \notin States!TERMINAL_STATES
      PROVE  \E i \in 1..9 : PROGRESS_ORDER[i] = state
  <2>1. state \in {"DRAFT", "VALIDATING", "AWAITING_ORACLE", "ORACLE_VERIFIED", "AWAITING_MANAGER",
                   "AWAITING_FINANCE", "READY_TO_SETTLE", "SUBMITTING", "CONFIRMING"}
    BY <1>5 DEF States!PaymentState, Broken, States!TERMINAL_STATES
  <2>2. 1 \in 1..9 /\ 2 \in 1..9 /\ 3 \in 1..9 /\ 4 \in 1..9 /\ 5 \in 1..9 /\ 6 \in 1..9
        /\ 7 \in 1..9 /\ 8 \in 1..9 /\ 9 \in 1..9
    OBVIOUS
  <2> QED
    BY <1>2, <2>1, <2>2
<1> QED
  BY <1>1, <1>2, <1>4, <1>5

\* What a headline says of the states it sums up.
LEMMA HeadlineIs ==
  ASSUME NEW states \in [1..Lines -> States!PaymentState]
  PROVE  /\ Headline(states) \in Broken <=> \E p \in 1..Lines : states[p] \in Broken
         /\ Headline(states) = "PAID" => \A p \in 1..Lines : states[p] \in States!TERMINAL_STATES
         /\ (\A p \in 1..Lines : states[p] = "PAID") => Headline(states) = "PAID"
<1> DEFINE there == {states[i] : i \in 1..Len(states)}
           s == PROGRESS_ORDER \o states
<1>1. /\ states \in Seq(States!PaymentState) /\ Len(states) = Lines
      /\ Lines \in Nat \ {0} /\ DOMAIN states = 1..Lines
  BY BatchPageAssumption, SeqDef, LenProperties
<1>2. /\ \A p \in 1..Lines : states[p] \in there
      /\ \A state \in there : \E p \in 1..Lines : states[p] = state
  BY <1>1
<1>3. /\ Headline(states) = IF there \intersect Broken # {} THEN First(states, Broken) ELSE First(s, there)
  BY DEF Headline
<1>4. /\ s \in Seq(States!PaymentState) /\ Len(s) = 10 + Lines /\ DOMAIN s = 1..10 + Lines
      /\ \A i \in 1..10 + Lines : s[i] = IF i <= 10 THEN PROGRESS_ORDER[i] ELSE states[i - 10]
  <2> DEFINE order == PROGRESS_ORDER
             S == States!PaymentState
  <2>1. order \in Seq(S) /\ Len(order) = 10 /\ states \in Seq(S) /\ Len(states) = Lines
    BY <1>1, ProgressIs
  <2>2. s = order \o states
    OBVIOUS
  <2> HIDE DEF order, S, s
  <2>3. /\ order \o states \in Seq(S) /\ Len(order \o states) = 10 + Lines
        /\ \A i \in 1..10 + Lines : (order \o states)[i] = IF i <= 10 THEN order[i] ELSE states[i - 10]
    <3>1. /\ order \o states \in Seq(S) /\ Len(order \o states) = Len(order) + Len(states)
          /\ \A i \in 1..Len(order) + Len(states) :
               (order \o states)[i] = IF i <= Len(order) THEN order[i] ELSE states[i - Len(order)]
      BY <2>1, ConcatProperties, Zenon
    <3> QED
      BY <2>1, <3>1
  <2>4. DOMAIN s = 1..Len(s)
    BY <2>2, <2>3, LenProperties
  <2> QED
    BY <2>2, <2>3, <2>4 DEF order, S
<1>5. /\ \A i \in 1..10 : s[i] = PROGRESS_ORDER[i]
      /\ \A p \in 1..Lines : s[10 + p] = states[p]
  <2> HIDE DEF s
  <2>1. \A i \in 1..10 + Lines : s[i] = IF i <= 10 THEN PROGRESS_ORDER[i] ELSE states[i - 10]
    BY <1>4
  <2>2. \A i \in 1..10 : i \in 1..10 + Lines /\ i <= 10
    BY <1>1
  <2>3. \A p \in 1..Lines : 10 + p \in 1..10 + Lines /\ ~(10 + p <= 10) /\ (10 + p) - 10 = p
    BY <1>1
  <2> QED
    BY <2>1, <2>2, <2>3
<1> HIDE DEF there, s
<1>6. CASE there \intersect Broken # {}
  <2>1. \E p \in DOMAIN states : states[p] \in Broken
    BY <1>1, <1>2, <1>6
  <2>2. First(states, Broken) \in Broken
    BY <1>1, <2>1, FirstIs
  <2>3. "PAID" \notin Broken
    BY DEF Broken
  <2> QED
    BY <1>1, <1>3, <1>6, <2>1, <2>2, <2>3
<1>7. CASE there \intersect Broken = {}
  <2>1. /\ 10 + 1 \in DOMAIN s /\ s[10 + 1] \in there
    BY <1>1, <1>2, <1>4, <1>5
  <2>2. DOMAIN s \subseteq Nat
    BY <1>1, <1>4
  <2>3. PICK i \in DOMAIN s : /\ First(s, there) = s[i] /\ s[i] \in there
                              /\ \A j \in DOMAIN s : s[j] \in there => i <= j
    BY <2>1, <2>2, FirstIs
  <2>4. Headline(states) = s[i] /\ s[i] \notin Broken
    BY <1>3, <1>7, <2>3
  <2>5. ~ \E p \in 1..Lines : states[p] \in Broken
    BY <1>2, <1>7
  <2>6. (\A p \in 1..Lines : states[p] = "PAID") => s[i] = "PAID"
    BY <1>2, <2>3
  <2>7. ASSUME s[i] = "PAID", NEW p \in 1..Lines
        PROVE  states[p] \in States!TERMINAL_STATES
    <3>1. \A k \in 1..10 : k \in DOMAIN s
      BY <1>1, <1>4
    <3>2. s[10] = "PAID" /\ \A k \in 1..9 : s[k] = PROGRESS_ORDER[k] /\ s[k] # "PAID"
      BY <1>5, ProgressIs
    <3>3. 10 \in DOMAIN s /\ i \in Nat /\ i # 0
      BY <1>1, <1>4, <3>1
    <3>4. i <= 10
      BY <2>3, <2>7, <3>2, <3>3
    <3>5. i = 10
      BY <2>7, <3>2, <3>3, <3>4
    <3>6. \A k \in 1..9 : PROGRESS_ORDER[k] \notin there
      <4>1. \A k \in 1..9 : k \in DOMAIN s /\ ~(i <= k)
        BY <3>1, <3>5
      <4> QED
        BY <2>3, <3>2, <4>1
    <3>7. states[p] \in there /\ states[p] \in States!PaymentState \ Broken
      BY <1>2, <2>5
    <3> QED
      BY <3>6, <3>7, ProgressIs
  <2> QED
    BY <2>4, <2>5, <2>6, <2>7
<1> QED
  BY <1>6, <1>7

\* The headline of a batch says no more than its payments do, and a half shown
\* as awaited is approved on none (rollupBatch, BatchDetail), for any number of
\* payments, of people and of approvals asked for.
THEOREM HeadlinesAreHonest == PageSpec => []HeadlineIsHonest
<1>1. PInv => HeadlineIsHonest
  <2> SUFFICES ASSUME PInv PROVE HeadlineIsHonest
    OBVIOUS
  <2>1. /\ standing \in [1..Lines -> States!PaymentState]
        /\ decided \in [1..Lines -> [Halves -> Signed]] /\ Lines \in Nat \ {0}
    BY BatchPageAssumption DEF PInv
  <2>2. /\ PresentBatch.headline = Headline(standing) /\ PresentBatch.states = standing
        /\ PresentBatch.decided = decided
        /\ PresentBatch.paid = Cardinality({p \in 1..Lines : standing[p] = "PAID"})
        /\ PresentBatch.attention = Cardinality({p \in 1..Lines : NeedsAttention(standing[p])})
    <3> DEFINE states == [p \in 1..Lines |-> standing[p]]
    <3>1. states = standing
      BY <2>1
    <3>2. PresentBatch =
            [headline |-> Headline(states), states |-> states, decided |-> decided,
             paid |-> Cardinality({p \in 1..Lines : states[p] = "PAID"}),
             attention |-> Cardinality({p \in 1..Lines : NeedsAttention(states[p])})]
      BY DEF PresentBatch
    <3> HIDE DEF states
    <3> QED
      BY <3>1, <3>2
  <2>3. PresentBatch.headline = "PAID" =>
          \A p \in 1..Lines : PresentBatch.states[p] \in States!TERMINAL_STATES
    BY <2>1, <2>2, HeadlineIs
  <2>4. (\E p \in 1..Lines : PaymentRow(p).status \in Broken /\ PaymentRow(p).attention)
          <=> PresentBatch.headline \in Broken
    <3>1. \A p \in 1..Lines : /\ PaymentRow(p).status = standing[p]
                              /\ PaymentRow(p).attention = NeedsAttention(standing[p])
      BY <2>2 DEF PaymentRow
    <3>2. \A state \in Broken : NeedsAttention(state)
      BY DEF Broken, NeedsAttention
    <3>3. PresentBatch.headline \in Broken <=> \E p \in 1..Lines : standing[p] \in Broken
      <4>1. Headline(standing) \in Broken <=> \E p \in 1..Lines : standing[p] \in Broken
        BY <2>1, HeadlineIs
      <4> QED
        BY <2>2, <4>1
    <3>4. \A p \in 1..Lines : PaymentRow(p).status \in Broken /\ PaymentRow(p).attention
                             <=> standing[p] \in Broken
      BY <3>1, <3>2
    <3> QED
      BY <3>3, <3>4
  <2>5. PresentBatch.paid = Lines => PresentBatch.headline = "PAID" /\ PresentBatch.attention = 0
    <3> SUFFICES ASSUME PresentBatch.paid = Lines
                 PROVE  PresentBatch.headline = "PAID" /\ PresentBatch.attention = 0
      OBVIOUS
    <3>1. IsFiniteSet(1..Lines) /\ Cardinality(1..Lines) = Lines
      BY <2>1, FS_Interval
    <3>2. {p \in 1..Lines : standing[p] = "PAID"} = 1..Lines
      BY <2>2, <3>1, FS_Subset
    <3>3. \A p \in 1..Lines : standing[p] = "PAID"
      BY <3>2
    <3>4. {p \in 1..Lines : NeedsAttention(standing[p])} = {}
      BY <3>3 DEF NeedsAttention
    <3> QED
      BY <2>1, <2>2, <3>3, <3>4, HeadlineIs, FS_EmptySet
  <2>6. ASSUME NEW h \in Halves, ApprovalSummary(h) = "waiting", NEW p \in 1..Lines
        PROVE  PresentBatch.decided[p][h].decision # "APPROVED"
    <3> DEFINE given == {q \in 1..Lines : decided[q][h].decision = "APPROVED"}
               earliest == CHOOSE q \in given : \A r \in given : q <= r
    <3>1. ApprovalSummary(h) = IF given = {} THEN "waiting" ELSE decided[earliest][h].by
      BY <2>2 DEF ApprovalSummary
    <3>2. ASSUME given # {}
          PROVE  decided[earliest][h].by \in DOMAIN Approver
      <4>1. given \subseteq Nat
        OBVIOUS
      <4>2. \E q \in given : \A r \in given : q <= r
        BY <3>2, <4>1, LeastNatural
      <4>3. earliest \in given
        BY <4>2
      <4> HIDE DEF earliest
      <4>4. /\ earliest \in 1..Lines /\ decided[earliest][h].decision = "APPROVED"
            /\ decided[earliest][h] \in Signed
        BY <2>1, <2>6, <4>3
      <4>5. PICK d \in {"APPROVED", "REJECTED"}, m \in DOMAIN Approver : decided[earliest][h] = Decides(d, m)
        BY <4>4 DEF Signed, Nobody
      <4> QED
        BY <4>5 DEF Decides
    <3> HIDE DEF given, earliest
    <3>3. given = {}
      BY <2>6, <3>1, <3>2, BatchPageAssumption
    <3> QED
      BY <2>2, <3>3 DEF given
  <2> QED
    BY <2>3, <2>4, <2>5, <2>6 DEF HeadlineIsHonest
<1> QED
  BY <1>1, PageAlways, PTL

------------------------------------------------------------------------------
\* A payroll file, row by row.
CsvSpec == CsvInit /\ [][CsvNext]_csvVars

\* The rows there is nothing wrong with, the i-th of them, and what is said of
\* the others and of the header.
Right(rows, once, asset) == {n \in 1..Len(rows) : RowIssues(rows, n, once, asset) = {}}
Nth(S, i) == CHOOSE n \in S : Cardinality({m \in S : m < n}) = i - 1
Taken(rows, S) == [i \in 1..Cardinality(S) |-> Payment(rows[Nth(S, i)])]
RowErrors(rows, once, asset) ==
  UNION {{<<Line(n), i>> : i \in RowIssues(rows, n, once, asset)} : n \in 1..Len(rows)}
HeaderErrors(columns) == {<<1, i>> : i \in Missing(columns) \union Doubled(columns)}
Named(errors) == {e[1] : e \in {e \in errors : e[1] > 1}}

\* A payroll is read, or nothing is.
LEMMA ParsedIs ==
  ASSUME NEW columns, NEW rows, NEW once, NEW asset,
         ParsePayrollCsv(columns, rows, once, asset).rows # <<>>
  PROVE  /\ ~ Len(rows) > MaxRows
         /\ ParsePayrollCsv(columns, rows, once, asset).rows = Taken(rows, Right(rows, once, asset))
         /\ ParsePayrollCsv(columns, rows, once, asset).issues
              = HeaderErrors(columns) \union RowErrors(rows, once, asset)
<1> DEFINE P == ParsePayrollCsv(columns, rows, once, asset)
           S == Right(rows, once, asset)
           read == [rows |-> Taken(rows, S), issues |-> HeaderErrors(columns) \union RowErrors(rows, once, asset)]
           refusal(issues) == [rows |-> <<>>, issues |-> HeaderErrors(columns) \union issues]
<1>1. P = IF columns = <<>> THEN [rows |-> <<>>, issues |-> {<<0, "FILE_EMPTY">>}]
          ELSE IF Missing(columns) # {} THEN refusal({})
          ELSE IF rows = <<>> THEN refusal({<<1, "NO_ROWS">>})
          ELSE IF Len(rows) > MaxRows THEN refusal({<<0, "TOO_MANY_ROWS">>})
          ELSE read
  BY Zenon DEF ParsePayrollCsv, HeaderErrors, RowErrors, Taken, Right, Nth
<1> HIDE DEF P
<1>2. read.rows = Taken(rows, S)
      /\ read.issues = HeaderErrors(columns) \union RowErrors(rows, once, asset)
  OBVIOUS
<1>3. \A issues : refusal(issues).rows = <<>>
  OBVIOUS
<1>4. P.rows # <<>>
  BY DEF P
<1> HIDE DEF read, refusal
<1>5. P = read /\ ~ Len(rows) > MaxRows
  <2>1. columns # <<>>
    BY <1>1, <1>4
  <2>2. Missing(columns) = {}
    BY <2>1, <1>1, <1>3, <1>4
  <2>3. rows # <<>>
    BY <2>1, <2>2, <1>1, <1>3, <1>4
  <2>4. ~ Len(rows) > MaxRows
    BY <2>1, <2>2, <2>3, <1>1, <1>3, <1>4
  <2> QED
    BY <2>1, <2>2, <2>3, <2>4, <1>1
<1> QED
  BY <1>2, <1>5 DEF P, S

\* Of an interval, the n-th is n.
LEMMA NthOfAll ==
  ASSUME NEW l \in Nat, NEW i \in 1..l
  PROVE  Nth(1..l, i) = i
<1>1. \A n \in 1..l : Cardinality({m \in 1..l : m < n}) = n - 1
  <2> SUFFICES ASSUME NEW n \in 1..l PROVE Cardinality({m \in 1..l : m < n}) = n - 1
    OBVIOUS
  <2>1. {m \in 1..l : m < n} = 1..(n - 1)
    OBVIOUS
  <2>2. Cardinality(1..(n - 1)) = n - 1
    BY FS_Interval
  <2> QED
    BY <2>1, <2>2
<1> DEFINE below(n) == Cardinality({m \in 1..l : m < n})
<1>2. \A n \in 1..l : below(n) = n - 1
  BY <1>1
<1>3. Nth(1..l, i) = CHOOSE n \in 1..l : below(n) = i - 1
  BY Zenon DEF Nth
<1> HIDE DEF below
<1>4. \E n \in 1..l : below(n) = i - 1
  BY <1>2
<1>5. \A n \in 1..l : below(n) = i - 1 => n = i
  BY <1>2
<1> QED
  BY <1>3, <1>4, <1>5

\* What a payment that was taken says.
LEMMA PaymentSays ==
  ASSUME NEW rows \in Seq(RowChoices), NEW once, NEW asset, NEW n \in Right(rows, once, asset)
  PROVE  /\ Payment(rows[n]).amount = Payment(rows[n]).hours * Payment(rows[n]).rate
         /\ Payment(rows[n]).amount > 0
         /\ Payment(rows[n]).asset = asset
         /\ Payment(rows[n]).to > Payment(rows[n]).from
         /\ once => \A k \in 1..(n - 1) : rows[k].recipient # rows[n].recipient
<1> DEFINE r == rows[n]
<1>1. n \in 1..Len(rows) /\ RowIssues(rows, n, once, asset) = {}
  BY DEF Right
<1>2. r \in RowChoices
  BY <1>1, ElementOfSeq
<1>3. /\ RecipientIssues(rows, n, once) = {} /\ AssetIssues(r, asset) = {}
      /\ MoneyIssue(r.amount) = {} /\ MoneyIssue(r.rate) = {} /\ HoursIssue(r.hours) = {}
      /\ JustifiedIssues(r) = {} /\ PeriodIssues(r) = {}
  BY <1>1 DEF RowIssues
<1>4. once => \A k \in 1..(n - 1) : rows[k].recipient # rows[n].recipient
  <2>1. ASSUME once, \E k \in 1..(n - 1) : rows[k].recipient = rows[n].recipient PROVE FALSE
    <3>1. RecipientIssues(rows, n, once) = {"INVALID_ADDRESS"}
          \/ RecipientIssues(rows, n, once) = {"DUPLICATE_RECIPIENT"}
      BY <2>1 DEF RecipientIssues
    <3> QED
      BY <3>1, <1>3
  <2> QED
    BY <2>1
<1> HIDE DEF r
<1>5. r.asset = asset
  BY <1>3 DEF AssetIssues
<1>6. Hours(r.hours) * Units(r.rate) = Units(r.amount)
  BY Zenon, <1>3 DEF JustifiedIssues
<1>7. Day(r.period_end) > Day(r.period_start)
  <2>1. ASSUME ~ Day(r.period_end) > Day(r.period_start) PROVE FALSE
    <3>1. PeriodIssues(r) # {}
      BY <2>1 DEF PeriodIssues
    <3> QED
      BY <3>1, <1>3
  <2> QED
    BY <2>1
<1>8. Units(r.amount) > 0
  <2>1. r.amount \in MoneyCells
    BY <1>2, RowChoicesAssumption DEF r
  <2>2. r.amount \in {"1", "$1", "2", "2 USDC", "4"}
    BY <2>1, <1>3 DEF MoneyIssue, MoneyCells
  <2>3. Units(r.amount) \in {1, 2, 4}
    BY <2>2 DEF Units
  <2> QED
    BY <2>3
<1> QED
  BY <1>4, <1>5, <1>6, <1>7, <1>8 DEF Payment, r

\* The lines named in a report, but for the header's, are of the rows that
\* were not taken.
LEMMA LinesNamed ==
  ASSUME NEW columns, NEW rows \in Seq(RowChoices), NEW once, NEW asset
  PROVE  Named(HeaderErrors(columns) \union RowErrors(rows, once, asset))
           = {n + 1 : n \in 1..Len(rows) \ Right(rows, once, asset)}
<1> DEFINE errors == HeaderErrors(columns) \union RowErrors(rows, once, asset)
           named == Named(errors)
           S == 1..Len(rows) \ Right(rows, once, asset)
<1>0. Len(rows) \in Nat
  OBVIOUS
<1>1. ASSUME NEW e \in errors, e[1] > 1 PROVE e[1] \in {n + 1 : n \in S}
  <2>1. e \notin HeaderErrors(columns)
    BY <1>1 DEF HeaderErrors
  <2>2. PICK n \in 1..Len(rows) : e \in {<<Line(n), i>> : i \in RowIssues(rows, n, once, asset)}
    BY <2>1 DEF RowErrors
  <2>3. RowIssues(rows, n, once, asset) # {} /\ e[1] = n + 1
    BY <2>2 DEF Line
  <2>4. n \in S
    BY <2>3 DEF Right
  <2> QED
    BY <2>3, <2>4
<1>2. ASSUME NEW n \in S PROVE n + 1 \in named
  <2>1. n \in 1..Len(rows) /\ RowIssues(rows, n, once, asset) # {}
    BY DEF Right
  <2>2. PICK i \in RowIssues(rows, n, once, asset) : TRUE
    BY <2>1
  <2>3. <<Line(n), i>> \in RowErrors(rows, once, asset)
    BY <2>1, <2>2 DEF RowErrors
  <2>4. <<Line(n), i>>[1] = n + 1 /\ n + 1 > 1
    BY <1>0, <2>1 DEF Line
  <2> QED
    BY <2>3, <2>4 DEF Named
<1> HIDE DEF S, errors
<1>3. named \subseteq {n + 1 : n \in S}
  BY <1>1 DEF Named
<1>4. {n + 1 : n \in S} \subseteq named
  BY <1>2
<1> QED
  BY <1>3, <1>4 DEF S, errors

\* As many lines as rows.
LEMMA LinesAreCounted ==
  ASSUME NEW l \in Nat, NEW S \in SUBSET (1..l)
  PROVE  /\ IsFiniteSet(S) /\ Cardinality(S) \in Nat
         /\ Cardinality(S) + Cardinality({n + 1 : n \in 1..l \ S}) = l
<1> DEFINE R == 1..l \ S
           below == {n + 1 : n \in R}
           line == [n \in R |-> n + 1]
<1>1. IsFiniteSet(1..l) /\ Cardinality(1..l) = l
  BY FS_Interval
<1>2. IsFiniteSet(S) /\ Cardinality(S) \in Nat
  BY <1>1, FS_Subset, FS_CardinalityType
<1>3. (1..l) \cap S = S
  OBVIOUS
<1>4. IsFiniteSet(R) /\ Cardinality(R) = l - Cardinality(S)
  <2>1. ASSUME NEW all, IsFiniteSet(all)
        PROVE  /\ IsFiniteSet(all \ S)
               /\ Cardinality(all \ S) = Cardinality(all) - Cardinality(all \cap S)
    BY <2>1, FS_Difference
  <2>2. /\ IsFiniteSet(R)
        /\ Cardinality(R) = Cardinality(1..l) - Cardinality((1..l) \cap S)
    BY <1>1, <2>1
  <2> QED
    BY <1>1, <1>3, <2>2
<1>5. line \in Bijection(R, below)
  <2>1. line \in [R -> below] /\ \A n \in R : n \in Int /\ line[n] = n + 1
    OBVIOUS
  <2>2. DOMAIN line = R /\ \A t \in below : \E n \in R : t = n + 1
    OBVIOUS
  <2> HIDE DEF line, R, below
  <2>3. \A a, b \in R : line[a] = line[b] => a = b
    BY <2>1
  <2>4. \A t \in below : \E n \in R : line[n] = t
    BY <2>1, <2>2
  <2> QED
    BY <2>1, <2>2, <2>3, <2>4 DEF Bijection, Injection, IsInjective, Surjection
<1>6. Cardinality(below) = Cardinality(R)
  BY <1>4, <1>5, FS_Bijection DEF ExistsBijection
<1> QED
  BY <1>1, <1>2, <1>4, <1>6

\* What is read is made of the rows of the file, and of no more than that.
LEMMA SheetTyped == CsvSpec => [](sheet \in Seq(RowChoices) /\ refuses \in BOOLEAN)
<1> DEFINE Typed == sheet \in Seq(RowChoices) /\ refuses \in BOOLEAN
<1>1. CsvInit => Typed
  BY DEF CsvInit
<1>2. Typed /\ [CsvNext]_csvVars => Typed'
  <2> SUFFICES ASSUME Typed, [CsvNext]_csvVars PROVE Typed'
    OBVIOUS
  <2>1. CASE \E c \in Characters : Type(c)
    BY <2>1 DEF Type
  <2>2. CASE \E r \in RowChoices : AddRow(r)
    BY <2>2 DEF AddRow
  <2>3. CASE UNCHANGED csvVars
    BY <2>3 DEF csvVars
  <2> QED
    BY <2>1, <2>2, <2>3 DEF CsvNext
<1> QED
  BY <1>1, <1>2, PTL DEF CsvSpec

\* A payroll file that is accepted, whatever its rows and however many, asks
\* for payments that are each what hours and rate make, above nothing, in the
\* asset settled and for a period that ends after it starts, and for none
\* twice unless that was asked for; of any other, each row is taken or its
\* line is named (parsePayrollCsv and validateCsv).
THEOREM FilesAreJustified == CsvSpec => []FileIsJustified
<1>1. sheet \in Seq(RowChoices) /\ refuses \in BOOLEAN => FileIsJustified
  <2> SUFFICES ASSUME sheet \in Seq(RowChoices), refuses \in BOOLEAN PROVE FileIsJustified
    OBVIOUS
  <2> DEFINE P == ParsePayrollCsv(header, sheet, refuses, "USDC")
             report == ValidateCsv(header, sheet, refuses, "USDC")
             S == Right(sheet, refuses, "USDC")
             l == Len(sheet)
             errors == HeaderErrors(header) \union RowErrors(sheet, refuses, "USDC")
             named == Named(report.errors)
  <2>1. /\ report.rows = P.rows /\ report.errors = P.issues
        /\ report.valid <=> P.issues = {} /\ P.rows # <<>>
    BY DEF ValidateCsv
  <2>2. l \in Nat /\ S \in SUBSET (1..l) /\ MaxRows \in Nat
    BY CsvAssumption DEF Right
  <2>3. P.rows # <<>> => ~ l > MaxRows /\ P.rows = Taken(sheet, S) /\ P.issues = errors
    BY ParsedIs
  <2>4. Cardinality(S) \in Nat /\ Cardinality(S) + Cardinality({n + 1 : n \in 1..l \ S}) = l
    BY <2>2, LinesAreCounted
  <2>5. Named(errors) = {n + 1 : n \in 1..l \ S}
    BY LinesNamed
  <2>6. Len(Taken(sheet, S)) = Cardinality(S)
    BY <2>4 DEF Taken
  <2> HIDE DEF report, P, errors, S
  <2>7. report.rows # <<>> => Len(report.rows) + Cardinality(named) = l
    <3> SUFFICES ASSUME report.rows # <<>> PROVE Len(report.rows) + Cardinality(named) = l
      OBVIOUS
    <3>1. report.rows = Taken(sheet, S) /\ report.errors = errors
      BY <2>1, <2>3
    <3>2. named = {n + 1 : n \in 1..l \ S}
      BY <3>1, <2>5
    <3> HIDE DEF named
    <3> QED
      BY <3>1, <3>2, <2>4, <2>6
  <2>8. ASSUME report.valid
        PROVE  /\ Len(report.rows) = l /\ l <= MaxRows
               /\ \A i \in 1..l : report.rows[i] = Payment(sheet[i]) /\ i \in S
    <3>1. errors = {} /\ report.rows = Taken(sheet, S) /\ ~ l > MaxRows
      BY <2>1, <2>3, <2>8
    <3>2. S = 1..l
      <4>1. \A n \in 1..l : RowIssues(sheet, n, refuses, "USDC") = {}
        <5> SUFFICES ASSUME NEW n \in 1..l, NEW i \in RowIssues(sheet, n, refuses, "USDC") PROVE FALSE
          OBVIOUS
        <5>1. <<Line(n), i>> \in errors
          BY DEF errors, RowErrors
        <5> QED
          BY <5>1, <3>1
      <4> QED
        BY <4>1 DEF S, Right
    <3>3. Cardinality(S) = l
      <4>1. Cardinality(1..l) = l
        <5> HIDE DEF l
        <5> QED
          BY <2>2, FS_Interval
      <4> QED
        BY <4>1, <3>2
    <3>4. \A i \in 1..l : Nth(S, i) = i
      BY <2>2, <3>2, NthOfAll
    <3>5. \A i \in 1..l : Taken(sheet, S)[i] = Payment(sheet[Nth(S, i)])
      BY <3>3 DEF Taken
    <3> QED
      BY <2>2, <2>6, <3>1, <3>2, <3>3, <3>4, <3>5
  <2>9. ASSUME report.valid, NEW i \in 1..Len(report.rows)
        PROVE  LET p == report.rows[i] IN
               /\ p.amount = p.hours * p.rate /\ p.amount > 0 /\ p.asset = "USDC" /\ p.to > p.from
               /\ refuses => \A k \in 1..(i - 1) : report.rows[k].recipient # p.recipient
    <3>1. i \in 1..l /\ i \in S /\ report.rows[i] = Payment(sheet[i])
      BY <2>8, <2>9
    <3>2. /\ Payment(sheet[i]).amount = Payment(sheet[i]).hours * Payment(sheet[i]).rate
          /\ Payment(sheet[i]).amount > 0
          /\ Payment(sheet[i]).asset = "USDC"
          /\ Payment(sheet[i]).to > Payment(sheet[i]).from
          /\ refuses => \A k \in 1..(i - 1) : sheet[k].recipient # sheet[i].recipient
      BY <3>1, PaymentSays DEF S
    <3>3. \A k \in 1..(i - 1) : report.rows[k] = Payment(sheet[k])
      <4>1. \A k \in 1..(i - 1) : k \in 1..l
        BY <2>2, <3>1
      <4> QED
        BY <4>1, <2>8, <2>9
    <3>4. \A k : Payment(sheet[k]).recipient = sheet[k].recipient
      BY DEF Payment
    <3> QED
      BY <3>1, <3>2, <3>3, <3>4
  <2> QED
    BY <2>7, <2>8, <2>9 DEF FileIsJustified, report, Named
<1> QED
  BY <1>1, SheetTyped, PTL
==============================================================================
