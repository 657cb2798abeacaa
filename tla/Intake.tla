-------------------------------- MODULE Intake --------------------------------
(***************************************************************************)
(* Documents of one tender: acquisition/service.py and zip.py download the *)
(* attachments, expand archives and store bytes and Document rows, and     *)
(* processing/service.py reads the rows into the tender's bundle.          *)
(*                                                                         *)
(* The worker and the admin server may take the same tender in at the same *)
(* time; they share the rows, the object storage and the bundle.  Bytes    *)
(* are an identity, and an item is a pair of source URL and file name.     *)
(***************************************************************************)
EXTENDS Integers, FiniteSets, Sequences, SequencesExt

CONSTANTS
  Processes,      \* processes that take the tender in
  Items,          \* document identities: attachments and archive members
  Offered,        \* the attachments the detail page lists, in order
  Contents,       \* identities of bytes
  Format,         \* what the bytes of each item are
  Content,        \* the bytes of each item
  Members,        \* the members of each archive, in order
  MaxMembers,     \* ZipLimits.max_members
  MaxTotal,       \* ZipLimits.max_total_uncompressed_bytes
  MaxSingle,      \* ZipLimits.max_single_member_bytes
  MaxRatio,       \* ZipLimits.max_compression_ratio
  MaxNestedDepth, \* ZipLimits.max_nested_depth
  Attempts,       \* RetryPolicy.attempts of the acquisition stage
  NoContent,      \* a row without checksum and storage path
  Adverse,        \* the adverse events this instance of the model allows
  Scenes          \* bound: the processes that run and how many adverse events happen

AdverseKinds == {"fetch", "escape", "storage", "mark", "extract", "lost", "crash"}
\* a package is a document in a ZIP container (DOCX)
Formats == {"text", "blank", "package", "archive", "corrupt", "other"}

\* one entry of an archive: unsafe stands for its name or a symlink, damaged for
\* bytes that do not unpack
Member == [item : Items, unsafe : BOOLEAN, damaged : BOOLEAN, size : Nat,
           packed : Nat \ {0}]

ASSUME IntakeConstants ==
  /\ Offered \in Seq(Items) /\ NoContent \notin Contents
  /\ Format \in [Items -> Formats] /\ Content \in [Items -> Contents]
  /\ Members \in [Items -> Seq(Member)]
  /\ {MaxMembers, MaxTotal, MaxSingle, MaxRatio, MaxNestedDepth} \subseteq Nat
  /\ Attempts \in Nat \ {0} /\ Scenes \subseteq [active : SUBSET Processes, adverse : Nat]
  /\ Adverse \subseteq AdverseKinds

VARIABLES
  rows,      \* Document rows of the tender; the id of a row is its position
  objects,   \* items whose bytes are in the object storage
  artifact,  \* extraction artifacts, keyed by checksum
  bundle,    \* the persisted bundle of the tender
  job,       \* the pass each process makes over the tender
  scene,     \* the scene that is played
  budget     \* adverse events left

vars == <<rows, objects, artifact, bundle, job, scene, budget>>

Outcomes == {"extracted", "blank", "failed", "skipped", "unread"}
Row == [item : Items, status : {"downloaded", "failed"},
        content : Contents \cup {NoContent}, extraction : Outcomes \cup {"pending"}]
Failure == [item : Items, retryable : BOOLEAN, rejected : BOOLEAN]
Stages == {"idle", "acquire", "fetch", "put", "commit", "mark", "extract",
           "persist", "bundle"}
Job == [stage : Stages, todo : Seq(Items), depth : [Items -> Nat], found : Nat,
        docs : SUBSET Items, failures : SUBSET Failure, cut : BOOLEAN, tries : 1..Attempts,
        snapshot : Seq(Row), outcomes : Seq(Outcomes), alone : BOOLEAN, blind : BOOLEAN]
NoJob == [stage |-> "idle", todo |-> <<>>, depth |-> [i \in Items |-> 0], found |-> 0,
          docs |-> {}, failures |-> {}, cut |-> FALSE, tries |-> 1, snapshot |-> <<>>,
          outcomes |-> <<>>, alone |-> TRUE, blind |-> FALSE]
Bundle == [incomplete : BOOLEAN, notice : BOOLEAN]
NoBundle == [incomplete |-> FALSE, notice |-> FALSE]

-----------------------------------------------------------------------------
(* safe_extract_archive *)

Listed(m) == ~m.unsafe
Sum(ms) == FoldLeft(LAMBDA n, m : n + m.size, 0, SelectSeq(ms, Listed))
\* the members counted against the total are the ones with a safe name
TooLarge(ms) == Len(ms) > MaxMembers \/ Sum(ms) > MaxTotal
\* a member that becomes a document
Kept(m) == /\ ~m.unsafe /\ ~m.damaged /\ m.size <= MaxSingle
           /\ ~(MaxRatio > 0 /\ m.size > MaxRatio * m.packed)
\* the entries, in the order of the archive
Entries(ms) ==
  LET upto[n \in 0..Len(ms)] == IF n = 0 THEN <<>>
                                ELSE IF Kept(ms[n]) THEN Append(upto[n - 1], ms[n])
                                ELSE upto[n - 1]
  IN  upto[Len(ms)]
Rejects(ms) == {ms[k] : k \in {n \in 1..Len(ms) : ~Kept(ms[n])}}

\* _is_archive, looks_like_zip: by the bytes
IsArchive(i) == Format[i] \in {"archive", "corrupt", "package"}
\* the extraction is refused: nothing of the archive is used
Unopened(i) == Format[i] = "corrupt" \/ TooLarge(Members[i])

-----------------------------------------------------------------------------
(* Rows and storage *)

\* _row_is_acquired
Acquired(r) == r.status = "downloaded" /\ r.content # NoContent /\ r.item \in objects
RowsOf(items) == {n \in DOMAIN rows : rows[n].item \in items}
\* _find_row: the latest row of an item in a table, 0 when there is none
FindRow(table, i) == LET ids == {n \in DOMAIN table : table[n].item = i}
                     IN  IF ids = {} THEN 0 ELSE CHOOSE n \in ids : \A m \in ids : m <= n
\* mutant: identical bytes are stored twice
HolderNone(c, except) == {}
\* _find_by_checksum, as the constraint on (tender_id, checksum) sees it
Holder(c, except) == {n \in DOMAIN rows : n # except /\ rows[n].content = c}

\* the items whose source_url is the attachment's or starts with it and "!/"
Lineage ==
  LET Closed(S) == \A j \in S : \A k \in DOMAIN Members[j] : Members[j][k].item \in S
  IN  [i \in Items |-> {j \in Items : \A S \in SUBSET Items : i \in S /\ Closed(S) => j \in S}]
\* _lineage_acquired
LineageAcquired(i) == LET ids == RowsOf(Lineage[i]) IN
                      ids # {} /\ \A n \in ids : Acquired(rows[n])

-----------------------------------------------------------------------------
Init ==
  /\ rows = <<>>
  /\ objects = {}
  /\ artifact = [c \in Contents |-> "none"]
  /\ bundle = NoBundle
  /\ job = [p \in Processes |-> NoJob]
  /\ scene \in Scenes
  /\ budget = scene.adverse

Spend(kind) == kind \in Adverse /\ budget > 0 /\ budget' = budget - 1

\* process p goes on with pass j
Goes(p, j) == job' = [job EXCEPT ![p] = j]
Item(p) == Head(job[p].todo)

\* the acquisition stage takes the tender up; the others are not alone any more
Start(p) ==
  /\ p \in scene.active /\ job[p].stage = "idle"
  /\ job' = [q \in Processes |->
       IF q = p THEN [NoJob EXCEPT !.stage = "acquire", !.todo = Offered,
                        !.depth = [i \in Items |-> 1],
                        !.alone = \A o \in Processes : job[o].stage = "idle"]
                ELSE [job[q] EXCEPT !.alone = @ /\ job[q].stage = "idle"]]
  /\ UNCHANGED <<rows, objects, artifact, bundle, budget>>

-----------------------------------------------------------------------------
(* DocumentAcquisitionService.acquire, one item after the other *)

\* the members of an archive come before the items that follow it; a nested
\* archive is opened down to the depth limit
Expanded(j, i) ==
  LET entries == Entries(Members[i])
      inner == [k \in DOMAIN entries |-> entries[k].item]
      rest == Tail(j.todo)
  IN  IF IsArchive(i) /\ (j.depth[i] = 1 \/ j.depth[i] <= MaxNestedDepth)
      THEN [j EXCEPT !.todo = inner \o rest,
                     !.depth = [m \in Items |-> IF m \in Range(inner) THEN j.depth[i] + 1
                                                                     ELSE @[m]],
                     !.failures = @ \cup {[item |-> m.item, retryable |-> FALSE,
                                            rejected |-> TRUE] : m \in Rejects(Members[i])}]
      ELSE [j EXCEPT !.todo = rest]

\* the item raised; _mark_failed looks for its row in the table
Failed(j, i, retryable, table) ==
  [j EXCEPT !.stage = "mark", !.found = FindRow(table, i),
            !.failures = @ \cup {[item |-> i, retryable |-> retryable, rejected |-> FALSE]}]

\* the item is stored in a row of the table, as i or as another item with its
\* bytes; a nested archive is opened only now
Stored(p, i, docs, table) ==
  LET j == [job[p] EXCEPT !.stage = "acquire", !.found = 0, !.docs = @ \cup docs] IN
  Goes(p, IF /\ IsArchive(i) /\ Unopened(i)
             /\ 1 < j.depth[i] /\ j.depth[i] <= MaxNestedDepth
          THEN Failed(j, i, FALSE, table) ELSE Expanded(j, i))

\* _acquire_file: a stored row of the item is reused, else the bytes are stored
Keep(p, i) == LET n == FindRow(rows, i) IN
  IF n # 0 /\ Acquired(rows[n]) THEN Stored(p, i, {i}, rows)
                               ELSE Goes(p, [job[p] EXCEPT !.stage = "put"])

\* an attachment whose lineage is stored is reused, any other is downloaded; the
\* bytes of a member are there already
TakeItem(p) ==
  LET j == job[p]  i == Item(p) IN
  /\ j.stage = "acquire" /\ j.todo # <<>>
  /\ IF j.depth[i] > 1 THEN Keep(p, i)
     ELSE IF ~LineageAcquired(i) THEN Goes(p, [j EXCEPT !.stage = "fetch"])
     ELSE Goes(p, [j EXCEPT !.todo = Tail(@),
                            !.docs = @ \cup {rows[n].item : n \in RowsOf(Lineage[i])}])
  /\ UNCHANGED <<rows, objects, artifact, bundle, budget>>

\* the bytes arrive; an attachment that is an archive is opened before it is kept
Fetch(p) ==
  LET i == Item(p) IN
  /\ job[p].stage = "fetch"
  /\ IF IsArchive(i) /\ Unopened(i) THEN Goes(p, Failed(job[p], i, FALSE, rows)) ELSE Keep(p, i)
  /\ UNCHANGED <<rows, objects, artifact, bundle, budget>>

\* the fetcher gives up, or the response is not the document
FetchFails(p) ==
  /\ job[p].stage = "fetch" /\ Spend("fetch")
  /\ Goes(p, Failed(job[p], Item(p), FALSE, rows))
  /\ UNCHANGED <<rows, objects, artifact, bundle>>

\* an exception that is not a DocumentAcquisitionError: too many redirects, an
\* encrypted member, a read of the rows that fails.  _stage_acquisition only counts
\* it: no row is marked, the other items are left out, the tender goes on
Escapes(p) ==
  LET j == job[p] IN
  /\ j.stage \in {"acquire", "fetch"} /\ j.todo # <<>> /\ Spend("escape")
  /\ Goes(p, [j EXCEPT !.stage = "acquire", !.todo = <<>>, !.cut = TRUE])
  /\ UNCHANGED <<rows, objects, artifact, bundle>>

\* the bytes are written to the storage, then the row is looked up
Put(p) ==
  /\ job[p].stage = "put"
  /\ objects' = objects \cup {Item(p)}
  /\ Goes(p, [job[p] EXCEPT !.stage = "commit", !.found = FindRow(rows, Item(p))])
  /\ UNCHANGED <<rows, artifact, bundle, budget>>

\* the storage or the database fails: these are tried again
StorageFails(p) ==
  /\ job[p].stage \in {"put", "commit"} /\ Spend("storage")
  /\ Goes(p, Failed(job[p], Item(p), TRUE, rows))
  /\ UNCHANGED <<rows, objects, artifact, bundle>>

\* the row of the item, found before or created, after the change
With(found, row) == IF found = 0 THEN Append(rows, row) ELSE [rows EXCEPT ![found] = row]

\* _persist_acquired's commit: the unique constraint decides between two rows
Commit(p) ==
  LET i == Item(p)  n == job[p].found  holder == Holder(Content[i], n)
      table == With(n, [item |-> i, status |-> "downloaded", content |-> Content[i],
                        extraction |-> IF n = 0 THEN "pending" ELSE rows[n].extraction])
  IN
  /\ job[p].stage = "commit"
  /\ IF holder = {}
     THEN rows' = table /\ Stored(p, i, {i}, table)
     ELSE rows' = rows /\ Stored(p, i, {rows[m].item : m \in holder}, rows)
  /\ UNCHANGED <<objects, artifact, bundle, budget>>

\* _mark_failed's commit, after which the next item is taken
MarkFailed(p) ==
  LET i == Item(p)  n == job[p].found IN
  /\ job[p].stage = "mark"
  /\ rows' = With(n, IF n = 0 THEN [item |-> i, status |-> "failed", content |-> NoContent,
                                    extraction |-> "pending"]
                     ELSE [rows[n] EXCEPT !.status = "failed"])
  /\ Goes(p, [job[p] EXCEPT !.stage = "acquire", !.todo = Tail(@), !.found = 0])
  /\ UNCHANGED <<objects, artifact, bundle, budget>>

\* the failure could not be recorded; that is logged only
MarkLost(p) ==
  /\ job[p].stage = "mark" /\ Spend("mark")
  /\ Goes(p, [job[p] EXCEPT !.stage = "acquire", !.todo = Tail(@), !.found = 0,
                            !.blind = TRUE])
  /\ UNCHANGED <<rows, objects, artifact, bundle>>

\* all failures are the storage's, and the attempts are not used up:
\* _is_retryable_acquisition, run_with_retry
Retried(j) == /\ ~j.cut /\ j.failures # {} /\ \A f \in j.failures : f.retryable
              /\ j.tries < Attempts

\* all items again, or process_tender: _load_documents reads the rows as plain
\* values, used until the bundle is written
EndAcquisition(p) ==
  LET j == job[p] IN
  /\ j.stage = "acquire" /\ j.todo = <<>>
  /\ Goes(p, IF Retried(j)
             THEN [j EXCEPT !.todo = Offered, !.tries = @ + 1, !.docs = {}, !.failures = {},
                            !.depth = [i \in Items |-> 1]]
             ELSE [j EXCEPT !.stage = IF rows = <<>> THEN "bundle" ELSE "extract",
                            !.snapshot = rows])
  /\ UNCHANGED <<rows, objects, artifact, bundle, budget>>

-----------------------------------------------------------------------------
(* DocumentProcessingService.process_tender, one row after the other *)

At(p) == Len(job[p].outcomes) + 1
Snapped(p) == job[p].snapshot[At(p)]

\* what the format of the bytes makes of them; skips are not failures
Extracted(i) == CASE Format[i] \in {"text", "package"} -> "extracted"
                  [] Format[i] = "blank" -> "blank"
                  [] OTHER -> "skipped"

\* the outcome of the next row; artifacts of an earlier success are reused
Reusable(c) == c # NoContent /\ artifact[c] \in {"extracted", "blank"}
\* mutant: bytes that are gone count as skipped by design
OutcomeSkipped(r) == IF r.status = "failed" \/ r.content = NoContent THEN "unread"
                     ELSE IF Reusable(r.content) THEN artifact[r.content]
                     ELSE IF r.item \notin objects THEN "skipped" ELSE Extracted(r.item)
Outcome(r) == IF r.status = "failed" \/ r.content = NoContent THEN "unread"
              ELSE IF Reusable(r.content) THEN artifact[r.content]
              ELSE IF r.item \notin objects THEN "failed" ELSE Extracted(r.item)

\* _process_snapshot: a new outcome is written to its artifact first
Extract(p) ==
  LET r == Snapped(p) IN
  /\ job[p].stage = "extract"
  /\ \E o \in {Outcome(r), "failed"} :
       /\ IF o = Outcome(r) THEN UNCHANGED budget
          ELSE /\ Outcome(r) \in {"extracted", "blank"} /\ ~Reusable(r.content)
               /\ Spend("extract")
       /\ artifact' = IF r.content = NoContent THEN artifact
                      ELSE [artifact EXCEPT ![r.content] = o]
       /\ Goes(p, [job[p] EXCEPT !.stage = "persist", !.outcomes = Append(@, o)])
  /\ UNCHANGED <<rows, objects, bundle>>

\* mutant: a row that was processed before is not written again
PersistRowOnce(p) ==
  LET j == job[p]  n == Len(j.outcomes) IN
  /\ j.stage = "persist"
  /\ rows' = IF rows[n].extraction # "pending" THEN rows
             ELSE [rows EXCEPT ![n].extraction = j.outcomes[n]]
  /\ Goes(p, [j EXCEPT !.stage = IF n = Len(j.snapshot) THEN "bundle" ELSE "extract"])
  /\ UNCHANGED <<objects, artifact, bundle, budget>>
\* _persist_row, a transaction of its own
PersistRow(p) ==
  LET j == job[p]  n == Len(j.outcomes) IN
  /\ j.stage = "persist"
  /\ rows' = [rows EXCEPT ![n].extraction = j.outcomes[n]]
  /\ Goes(p, [j EXCEPT !.stage = IF n = Len(j.snapshot) THEN "bundle" ELSE "extract"])
  /\ UNCHANGED <<objects, artifact, bundle, budget>>

\* mutant: documents that were not downloaded count as skipped by design
IncompleteExtraction(outcomes) == "failed" \in Range(outcomes)
\* _incomplete
Incomplete(outcomes) == Range(outcomes) \cap {"failed", "unread"} # {}

\* the bundle replaces the tender's previous one; the published notice stands in
\* for documents without content
WriteBundle(p) ==
  LET outcomes == job[p].outcomes IN
  /\ job[p].stage = "bundle"
  /\ \E notice \in BOOLEAN :
       /\ notice => "extracted" \notin Range(outcomes)
       /\ bundle' = [incomplete |-> Incomplete(outcomes) \/ notice, notice |-> notice]
  /\ Goes(p, NoJob)
  /\ UNCHANGED <<rows, objects, artifact, budget>>

-----------------------------------------------------------------------------
(* Adverse events *)

Crash(p) ==
  /\ job[p].stage # "idle" /\ Spend("crash")
  /\ Goes(p, NoJob)
  /\ UNCHANGED <<rows, objects, artifact, bundle>>

\* stored bytes disappear
LoseObject(i) ==
  /\ i \in objects /\ Spend("lost")
  /\ objects' = objects \ {i}
  /\ UNCHANGED <<rows, artifact, bundle, job>>

-----------------------------------------------------------------------------
Next ==
  \/ \E p \in Processes :
       \/ Start(p) \/ TakeItem(p) \/ Fetch(p) \/ FetchFails(p) \/ Escapes(p) \/ Put(p)
       \/ StorageFails(p) \/ Commit(p) \/ MarkFailed(p) \/ MarkLost(p)
       \/ EndAcquisition(p) \/ Extract(p) \/ PersistRow(p)
       \/ WriteBundle(p) \/ Crash(p)
  \/ \E i \in Items : LoseObject(i)

NextInScene == Next /\ UNCHANGED scene

Spec == Init /\ [][NextInScene]_vars
-----------------------------------------------------------------------------
(* Properties *)

\* Every variable stays within its type.
TypeOK ==
  /\ rows \in Seq(Row)
  /\ objects \in SUBSET Items
  /\ artifact \in [Contents -> Outcomes \cup {"none"}]
  /\ bundle \in Bundle
  /\ job \in [Processes -> Job]
  /\ scene \in Scenes /\ budget \in 0..scene.adverse

\* Two processes that take the same tender in never keep a document twice: each
\* looks its row up before it writes, and only the unique constraint on
\* (tender_id, checksum) stands between them (_persist_acquired).
KeptOnce ==
  \A m, n \in DOMAIN rows :
    m # n /\ rows[m].content # NoContent => rows[m].content # rows[n].content

\* A failure the acquisition records is known to the bundle of that pass, also of
\* one that an exception cuts short later: the document's row is there and was
\* acquired by another process meanwhile, or the bundle is incomplete (docs/14
\* FH5: a document that cannot be downloaded).  CutShortIsFlagged is about the rest.
FailureIsFlagged ==
  \A p \in Processes : job[p].stage = "bundle" /\ ~job[p].blind =>
    \A f \in job[p].failures : f.rejected
      \/ Incomplete(job[p].outcomes)
      \/ \E n \in DOMAIN job[p].snapshot :
           job[p].snapshot[n].item = f.item /\ job[p].snapshot[n].status = "downloaded"

\* What a pass acquired with text in it reaches the bundle as text, or the
\* bundle is incomplete, whatever the other process, the storage and earlier
\* failed extractions do in between (is_reusable, SKIP_SOURCE_BYTES_UNAVAILABLE).
AcquiredIsRead ==
  \A p \in Processes : job[p].stage = "bundle" =>
    \A i \in job[p].docs : Format[i] = "text" =>
      \/ Incomplete(job[p].outcomes)
      \/ \E n \in DOMAIN job[p].snapshot :
           job[p].snapshot[n].content = Content[i] /\ job[p].outcomes[n] = "extracted"

\* A pass that no other process joined leaves every row in agreement with its
\* artifact, even where a crash came between the two writes (store.py: the row
\* and the artifact can never disagree).
PassRepairsRows ==
  \A p \in Processes : job[p].stage = "bundle" /\ job[p].alone =>
    \A n \in DOMAIN rows : rows[n].content # NoContent /\ rows[n].status = "downloaded" =>
      rows[n].extraction = artifact[rows[n].content]

-----------------------------------------------------------------------------
(* Promises the code does not keep today (README, known disagreements) *)

\* An attachment is reused only when all members of its archive are stored
\* (_lineage_acquired: a partially acquired archive is not considered acquired).
ReusedIsComplete ==
  [][\A p \in Processes :
       job[p].stage = "acquire" /\ job'[p].stage = "acquire" /\ job[p].todo # <<>>
       /\ job'[p].tries = job[p].tries
       => LET entries == Entries(Members[Item(p)]) IN
          \A k \in DOMAIN entries :
            \E n \in DOMAIN rows : rows[n].content = Content[entries[k].item]]_vars

\* A pass that an unforeseen exception cuts short, its document and the ones after
\* it neither stored nor marked, makes the bundle incomplete (docs/14 FH5).
CutShortIsFlagged ==
  \A p \in Processes : job[p].stage = "bundle" /\ job[p].cut => Incomplete(job[p].outcomes)

\* A member refused by the extraction limits makes the bundle incomplete
\* (docs/06 6.5: any attachment that failed).
RejectedIsFlagged ==
  \A p \in Processes :
    job[p].stage = "bundle" /\ (\E f \in job[p].failures : f.rejected)
    => Incomplete(job[p].outcomes)
=============================================================================
