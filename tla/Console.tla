------------------------------- MODULE Console -------------------------------
(***************************************************************************)
(* The admin process (admin/api.py, admin/main.py): operators start runs,  *)
(* edit settings and recipients, upload to the knowledge base and send     *)
(* test mails while the scheduler loop of the same process crawls what is  *)
(* due.  A run of a source and a run of one of its tenders share a lock in *)
(* memory; everything else meets in the database, one transaction each.    *)
(*                                                                         *)
(* A request is a thread: what it reads first may be old when it writes.   *)
(***************************************************************************)
EXTENDS Integers, FiniteSets, Sequences

CONSTANTS
  Requests,   \* the requests operators send, each once
  Portals,    \* the configured sources
  Staff,      \* the recipients of the developer list
  Files,      \* what is uploaded to the knowledge base
  Capacity,   \* operations kept in memory, 100 in _record_operation
  Troubles,   \* bound: failed commits and stores, and restarts
  Loop,       \* the scheduler loop
  Nobody,
  Scenes      \* the kinds of requests of a behaviour, and the requests that are sent

Kinds == {"source", "tender", "toggle", "switch", "triage", "remove", "retire", "revive",
          "upload", "mail", "loop"}

ASSUME ConsoleConstants ==
  /\ {Loop, Nobody} \cap (Requests \cup Portals \cup Staff \cup Files) = {} /\ Loop # Nobody
  /\ IsFiniteSet(Staff) /\ Capacity \in Nat \ {0} /\ Troubles \in Nat
  /\ Scenes \subseteq [kinds : SUBSET Kinds, sent : SUBSET Requests]

VARIABLES
  scene,       \* what happens in this behaviour
  portal,      \* sources: active, and due when the crawl interval has elapsed
  testMode,    \* Setting.test_mode
  rules,       \* Setting.triage_rules: the requests whose keys it holds
  staff,       \* Recipient.active
  gate,        \* who holds the row locks of the last-recipient guard
  kb,          \* KnowledgeBaseVersion
  blobs,       \* the object storage
  letters,     \* NotificationLog.status of test mails
  lock,        \* app.state.source_run_locks
  operations,  \* app.state.operations, the oldest first
  task,        \* the requests
  loop,        \* the scheduler loop
  leaked,      \* requests that ended without giving their lock back
  trouble      \* troubles that may still come

stored == <<portal, testMode, rules, staff, kb, blobs, letters>>
memory == <<gate, lock, operations, leaked>>
cvars == <<scene, stored, memory, task, loop, trouble>>

Steps == {"new", "asked", "queued", "running", "ran", "read", "guarded", "stored",
          "composed", "cleared", "saved", "done"}
Outcomes == {"none", "COMPLETED", "FAILED"}
\* row: what a removal read, result: what a run reports, seen: the rules an edit read
Task == [kind : Kinds \cup {"none"}, at : Steps, on : Portals \cup Staff \cup Files \cup {Nobody},
         row : {"active", "inactive", "gone"}, result : Outcomes, seen : SUBSET Requests]
Waiting == [kind |-> "none", at |-> "new", on |-> Nobody, row |-> "gone", result |-> "none",
            seen |-> {}]
Resting == [at |-> "idle", todo |-> {}, on |-> Nobody]

TypeOK ==
  /\ scene \in Scenes
  /\ portal \in [Portals -> [active : BOOLEAN, due : BOOLEAN]]
  /\ testMode \in BOOLEAN /\ rules \subseteq Requests
  /\ staff \in [Staff -> {"active", "inactive", "gone"}]
  /\ gate \in Requests \cup {Nobody}
  /\ kb \subseteq Files /\ blobs \subseteq Files
  /\ letters \in [Requests -> {"none", "sending", "sent", "failed"}]
  /\ lock \in [Portals -> Requests \cup {Loop, Nobody}]
  /\ operations \in Seq([by : Requests, status : {"QUEUED", "RUNNING"} \cup Outcomes])
  /\ task \in [Requests -> Task]
  /\ loop \in [at : {"idle", "pass", "running", "ran"}, todo : SUBSET Portals,
               on : Portals \cup {Nobody}]
  /\ leaked \subseteq Requests /\ trouble \in 0..Troubles

ConsoleInit ==
  /\ scene \in Scenes
  /\ portal = [p \in Portals |-> [active |-> TRUE, due |-> TRUE]]
  /\ testMode = TRUE
  /\ rules = {}
  /\ staff \in [Staff -> {"active", "inactive"}] /\ \E s \in Staff : staff[s] = "active"
  /\ gate = Nobody
  /\ kb = {} /\ blobs = {}
  /\ letters = [r \in Requests |-> "none"]
  /\ lock = [p \in Portals |-> Nobody]
  /\ operations = <<>>
  /\ task = [r \in Requests |-> Waiting]
  /\ loop = Resting
  /\ leaked = {}
  /\ trouble = Troubles

Arrives(r, k) == task[r].at = "new" /\ r \in scene.sent /\ k \in scene.kinds
\* request r of kind k starts on x, at step a
Opens(r, k, x, a) == [Waiting EXCEPT !.kind = k, !.on = x, !.at = a]
Goes(r, from, to) == task[r].at = from /\ task' = [task EXCEPT ![r].at = to]
Mishap == trouble > 0 /\ trouble' = trouble - 1

-----------------------------------------------------------------------------
(* Run Now and Process Now *)

\* run_source_now, process_existing_tender: the guards and the lock; a tender is
\* processed whether or not its source is active
Ask(r, k, p) ==
  /\ Arrives(r, k) /\ k \in {"source", "tender"}
  /\ testMode /\ (k = "source" => portal[p].active) /\ lock[p] = Nobody
  /\ lock' = [lock EXCEPT ![p] = r]
  /\ operations' = Append(operations, [by |-> r, status |-> "QUEUED"])
  /\ task' = [task EXCEPT ![r] = Opens(r, k, p, "asked")]
  /\ UNCHANGED <<scene, stored, gate, leaked, loop, trouble>>

\* session.commit, background_tasks.add_task
Accept(r) ==
  /\ Goes(r, "asked", "queued")
  /\ UNCHANGED <<scene, stored, memory, loop, trouble>>

\* the commit raises: nothing releases the lock
CommitFails(r) ==
  /\ Goes(r, "asked", "done") /\ Mishap
  /\ leaked' = leaked \cup {r}
  /\ UNCHANGED <<scene, stored, gate, lock, operations, loop>>

Recorded(r) == \E i \in DOMAIN operations : operations[i].by = r
\* _record_operation: the update, then the oldest are dropped
Marked(r, s) ==
  LET ops == [i \in DOMAIN operations |->
                IF operations[i].by = r THEN [operations[i] EXCEPT !.status = s] ELSE operations[i]]
      extra == IF Len(ops) > Capacity THEN Len(ops) - Capacity ELSE 0
  IN  SubSeq(ops, extra + 1, Len(ops))

\* _run_source_operation, _run_tender_operation: an operation that was dropped
\* raises before the try block
Begin(r) ==
  /\ task[r].at = "queued"
  /\ IF Recorded(r)
     THEN /\ Goes(r, "queued", "running")
          /\ operations' = Marked(r, "RUNNING") /\ UNCHANGED leaked
     ELSE /\ Goes(r, "queued", "done")
          /\ leaked' = leaked \cup {r} /\ UNCHANGED operations
  /\ UNCHANGED <<scene, stored, gate, lock, loop, trouble>>

\* RunCoordinator.run_source stamps last_run_at of an active source and refuses
\* another; run_existing_tender stamps nothing
RunOf(p) == IF portal[p].active THEN [portal EXCEPT ![p].due = FALSE] ELSE portal
Run(r, result) ==
  /\ task[r].at = "running"
  /\ task' = [task EXCEPT ![r].at = "ran", ![r].result = result]
  /\ IF task[r].kind = "source"
     THEN /\ portal[task[r].on].active \/ result = "FAILED"
          /\ portal' = RunOf(task[r].on)
     ELSE UNCHANGED portal
  /\ UNCHANGED <<scene, testMode, rules, staff, kb, blobs, letters, memory, loop, trouble>>

\* mutant: an operation that was dropped keeps the lock
FinishRecorded(r) ==
  /\ Goes(r, "ran", "saved")
  /\ operations' = IF Recorded(r) THEN Marked(r, task[r].result) ELSE operations
  /\ lock' = IF Recorded(r) THEN [lock EXCEPT ![task[r].on] = Nobody] ELSE lock
  /\ UNCHANGED <<scene, stored, gate, leaked, loop, trouble>>
\* _finish_manual_operation: whatever fails, the lock is released
Finish(r) ==
  /\ Goes(r, "ran", "saved")
  /\ operations' = IF Recorded(r) THEN Marked(r, task[r].result) ELSE operations
  /\ lock' = [lock EXCEPT ![task[r].on] = Nobody]
  /\ UNCHANGED <<scene, stored, gate, leaked, loop, trouble>>

-----------------------------------------------------------------------------
(* The scheduler loop *)

\* decisions: the sources of this pass
LoopPoll ==
  /\ "loop" \in scene.kinds /\ loop.at = "idle"
  /\ loop' = [Resting EXCEPT !.at = "pass",
                             !.todo = {p \in Portals : portal[p].active /\ portal[p].due}]
  /\ UNCHANGED <<scene, stored, memory, task, trouble>>

\* a source whose lock is held waits for the next pass
LoopSkip(p) ==
  /\ loop.at = "pass" /\ p \in loop.todo /\ lock[p] # Nobody
  /\ loop' = [loop EXCEPT !.todo = @ \ {p}]
  /\ UNCHANGED <<scene, stored, memory, task, trouble>>

LoopTake(p) ==
  /\ loop.at = "pass" /\ p \in loop.todo /\ lock[p] = Nobody
  /\ lock' = [lock EXCEPT ![p] = Loop]
  /\ loop' = [at |-> "running", todo |-> loop.todo \ {p}, on |-> p]
  /\ UNCHANGED <<scene, stored, gate, operations, leaked, task, trouble>>

\* _scheduled_source_run: a source turned inactive since the poll is refused
LoopRun ==
  /\ loop.at = "running"
  /\ portal' = RunOf(loop.on)
  /\ loop' = [loop EXCEPT !.at = "ran"]
  /\ UNCHANGED <<scene, testMode, rules, staff, kb, blobs, letters, memory, task, trouble>>

\* mutant: a refused run leaves the lock
LoopReleaseRun ==
  /\ loop.at = "ran"
  /\ lock' = IF portal[loop.on].due THEN lock ELSE [lock EXCEPT ![loop.on] = Nobody]
  /\ loop' = [loop EXCEPT !.at = "pass", !.on = Nobody]
  /\ UNCHANGED <<scene, stored, gate, operations, leaked, task, trouble>>
LoopRelease ==
  /\ loop.at = "ran"
  /\ lock' = [lock EXCEPT ![loop.on] = Nobody]
  /\ loop' = [loop EXCEPT !.at = "pass", !.on = Nobody]
  /\ UNCHANGED <<scene, stored, gate, operations, leaked, task, trouble>>

\* _flush_mail_outbox, which never raises, and the sleep
LoopSleep ==
  /\ loop.at = "pass" /\ loop.todo = {}
  /\ loop' = Resting
  /\ UNCHANGED <<scene, stored, memory, task, trouble>>

\* the crawl interval elapses
Elapse(p) ==
  /\ "loop" \in scene.kinds /\ ~portal[p].due
  /\ portal' = [portal EXCEPT ![p].due = TRUE]
  /\ UNCHANGED <<scene, testMode, rules, staff, kb, blobs, letters, memory, task, loop, trouble>>

-----------------------------------------------------------------------------
(* Edits *)

\* set_source_active
Toggle(r, p) ==
  /\ Arrives(r, "toggle")
  /\ portal' = [portal EXCEPT ![p].active = ~@]
  /\ task' = [task EXCEPT ![r] = Opens(r, "toggle", p, "saved")]
  /\ UNCHANGED <<scene, testMode, rules, staff, kb, blobs, letters, memory, loop, trouble>>

\* update_settings: Test Mode
Switch(r) ==
  /\ Arrives(r, "switch")
  /\ testMode' = ~testMode
  /\ task' = [task EXCEPT ![r] = Opens(r, "switch", Nobody, "saved")]
  /\ UNCHANGED <<scene, portal, rules, staff, kb, blobs, letters, memory, loop, trouble>>

\* update_triage reads the rules, puts its keys into a copy ...
ReadRules(r) ==
  /\ Arrives(r, "triage")
  /\ task' = [task EXCEPT ![r] = [Opens(r, "triage", Nobody, "read") EXCEPT !.seen = rules]]
  /\ UNCHANGED <<scene, stored, memory, loop, trouble>>
\* ... and stores the copy
SaveRules(r) ==
  /\ task[r].kind = "triage" /\ Goes(r, "read", "saved")
  /\ rules' = task[r].seen \cup {r}
  /\ UNCHANGED <<scene, portal, testMode, staff, kb, blobs, letters, memory, loop, trouble>>

\* delete_recipient, update_recipient (to inactive): the row is read
ReadRecipient(r, k, s) ==
  /\ Arrives(r, k) /\ k \in {"remove", "retire"} /\ staff[s] # "gone"
  /\ task' = [task EXCEPT ![r] = [Opens(r, k, s, "read") EXCEPT !.row = staff[s]]]
  /\ UNCHANGED <<scene, stored, memory, loop, trouble>>

OnDuty == {s \in Staff : staff[s] = "active"}
\* mutant: the count is taken without the row locks
GuardUnlocked(r) ==
  /\ task[r].kind \in {"remove", "retire"} /\ task[r].row = "active"
  /\ Goes(r, "read", IF Cardinality(OnDuty) <= 1 THEN "done" ELSE "guarded")
  /\ UNCHANGED <<scene, stored, memory, loop, trouble>>
\* _protect_last_dev, RecipientGuard.refuse_last_dev_removal: the Setting row and
\* the active recipients are locked, then counted
Guard(r) ==
  /\ task[r].kind \in {"remove", "retire"} /\ task[r].row = "active"
  /\ gate = Nobody
  /\ IF Cardinality(OnDuty) <= 1
     THEN Goes(r, "read", "done") /\ UNCHANGED gate
     ELSE Goes(r, "read", "guarded") /\ gate' = r
  /\ UNCHANGED <<scene, stored, lock, operations, leaked, loop, trouble>>

\* the row is deleted or deactivated; a recipient read inactive is not guarded, and
\* a locked row is waited for
RemoveRecipient(r) ==
  LET s == task[r].on IN
  /\ task[r].kind \in {"remove", "retire"}
  /\ IF task[r].row = "active" THEN task[r].at = "guarded" ELSE task[r].at = "read"
  /\ gate \in {Nobody, r} \/ staff[s] # "active"
  /\ staff' = IF staff[s] = "gone" THEN staff
              ELSE IF task[r].kind = "remove" THEN [staff EXCEPT ![s] = "gone"]
              ELSE IF task[r].row = "active" THEN [staff EXCEPT ![s] = "inactive"] ELSE staff
  /\ gate' = IF gate = r THEN Nobody ELSE gate
  /\ task' = [task EXCEPT ![r].at = "saved"]
  /\ UNCHANGED <<scene, portal, testMode, rules, kb, blobs, letters, lock, operations, leaked,
                 loop, trouble>>

\* update_recipient (to active)
Revive(r, s) ==
  /\ Arrives(r, "revive") /\ staff[s] = "inactive"
  /\ staff' = [staff EXCEPT ![s] = "active"]
  /\ task' = [task EXCEPT ![r] = Opens(r, "revive", s, "saved")]
  /\ UNCHANGED <<scene, portal, testMode, rules, kb, blobs, letters, memory, loop, trouble>>

\* upload_kb looks the hash up ...
ReadUpload(r, f) ==
  /\ Arrives(r, "upload") /\ f \notin kb
  /\ task' = [task EXCEPT ![r] = Opens(r, "upload", f, "read")]
  /\ UNCHANGED <<scene, stored, memory, loop, trouble>>
\* ... stores the content, or fails ...
StoreUpload(r) ==
  /\ task[r].kind = "upload" /\ Goes(r, "read", "stored")
  /\ blobs' = blobs \cup {task[r].on}
  /\ UNCHANGED <<scene, portal, testMode, rules, staff, kb, letters, memory, loop, trouble>>
StoreFails(r) ==
  /\ task[r].kind = "upload" /\ Goes(r, "read", "done") /\ Mishap
  /\ UNCHANGED <<scene, stored, memory, loop>>
\* mutant: the row comes before the content
InsertUploadFirst(r) ==
  /\ task[r].kind = "upload" /\ task[r].at \in {"read", "stored"}
  /\ task' = [task EXCEPT ![r].at = IF task[r].on \in kb THEN "done" ELSE "saved"]
  /\ kb' = kb \cup {task[r].on}
  /\ UNCHANGED <<scene, portal, testMode, rules, staff, blobs, letters, memory, loop, trouble>>
\* ... and inserts the row; content_hash is unique
InsertUpload(r) ==
  /\ task[r].kind = "upload" /\ Goes(r, "stored", IF task[r].on \in kb THEN "done" ELSE "saved")
  /\ kb' = kb \cup {task[r].on}
  /\ UNCHANGED <<scene, portal, testMode, rules, staff, blobs, letters, memory, loop, trouble>>

-----------------------------------------------------------------------------
(* Test mails *)

\* send_test_email, test_mail_provider, then NotificationService.send_test_email
\* under its delivery lock: the row is written in sending
ComposeMail(r, s) ==
  /\ Arrives(r, "mail") /\ testMode /\ s \in OnDuty
  /\ \A q \in Requests : task[q].at \notin {"composed", "cleared"}
  /\ letters' = [letters EXCEPT ![r] = "sending"]
  /\ task' = [task EXCEPT ![r] = Opens(r, "mail", s, "composed")]
  /\ UNCHANGED <<scene, portal, testMode, rules, staff, kb, blobs, memory, loop, trouble>>
\* recheck_test_route; what it raises nobody catches before the admin handler
Recheck(r) ==
  /\ Goes(r, "composed", IF testMode /\ task[r].on \in OnDuty THEN "cleared" ELSE "done")
  /\ UNCHANGED <<scene, stored, memory, loop, trouble>>
\* the chain delivers or not, and the row is closed
Attempt(r, status) ==
  /\ Goes(r, "cleared", "saved")
  /\ letters' = [letters EXCEPT ![r] = status]
  /\ UNCHANGED <<scene, portal, testMode, rules, staff, kb, blobs, memory, loop, trouble>>

-----------------------------------------------------------------------------
\* the process ends and is started again: memory is empty, transactions are undone
Restart ==
  /\ Mishap
  /\ lock' = [p \in Portals |-> Nobody] /\ operations' = <<>>
  /\ gate' = Nobody /\ leaked' = {} /\ loop' = Resting
  /\ task' = [r \in Requests |->
                IF task[r].at \in {"new", "saved"} THEN task[r] ELSE [task[r] EXCEPT !.at = "done"]]
  /\ UNCHANGED <<scene, stored>>

LoopStep == \/ LoopPoll \/ LoopRun \/ LoopRelease \/ LoopSleep
            \/ \E p \in Portals : LoopSkip(p) \/ LoopTake(p)
Operation(r) == \/ Accept(r) \/ Begin(r) \/ Finish(r)
                \/ \E result \in {"COMPLETED", "FAILED"} : Run(r, result)
Edit(r) ==
  \/ Switch(r) \/ ReadRules(r) \/ SaveRules(r) \/ Guard(r) \/ RemoveRecipient(r)
  \/ StoreUpload(r) \/ StoreFails(r) \/ InsertUpload(r) \/ Recheck(r)
  \/ \E p \in Portals : Toggle(r, p)
  \/ \E s \in Staff : \/ Revive(r, s) \/ ComposeMail(r, s)
                      \/ \E k \in {"remove", "retire"} : ReadRecipient(r, k, s)
  \/ \E f \in Files : ReadUpload(r, f)
  \/ \E status \in {"sent", "failed"} : Attempt(r, status)
ConsoleNext ==
  \/ LoopStep \/ Restart
  \/ \E p \in Portals : Elapse(p)
  \/ \E r \in Requests : \/ Operation(r) \/ CommitFails(r) \/ Edit(r)
                         \/ \E p \in Portals, k \in {"source", "tender"} : Ask(r, k, p)

\* the loop is a task of the event loop, an operation a thread that was started
ConsoleFairness == WF_cvars(LoopStep) /\ \A r \in Requests : WF_cvars(Operation(r))
ConsoleSpec == ConsoleInit /\ [][ConsoleNext]_cvars /\ ConsoleFairness

-----------------------------------------------------------------------------
(* Properties *)

\* request r works on portal p, from its lock to its release
WorksOn(r, p) == task[r].on = p /\ task[r].at \in {"asked", "queued", "running", "ran"}
LoopWorksOn(p) == loop.on = p /\ loop.at \in {"running", "ran"}

\* The lock of a source is held by the one who works on it, and whoever works on a
\* source holds its lock: a manual run, a tender run and a scheduled run exclude each
\* other, and a lock is lost only to a commit that fails before the background task
\* exists or to an operation dropped before it began (_finish_manual_operation,
\* _scheduled_source_run).
HeldIsWorked ==
  \A p \in Portals :
    /\ \A r \in Requests : WorksOn(r, p) => lock[p] = r
    /\ LoopWorksOn(p) => lock[p] = Loop
    /\ lock[p] = Loop => LoopWorksOn(p)
    /\ lock[p] \in Requests => WorksOn(lock[p], p) \/ lock[p] \in leaked

\* The developer list is never emptied by removals and deactivations, however they
\* overlap: the guard counts under row locks (_protect_last_dev, RecipientGuard).
LastDevStays == OnDuty # {} \/ \E r \in Requests : task[r].kind = "revive"

\* A row of the knowledge base has its content in the storage (upload_kb).
KbRowHasContent == kb \subseteq blobs

\* A source that is due and active is run, unless its lock was lost: a lock that was
\* held at one poll is tried again at the next (_scheduled_source_loop).
DueIsRun ==
  \A p \in Portals : "loop" \in scene.kinds /\ portal[p].due /\ portal[p].active
                       ~> ~portal[p].due \/ ~portal[p].active \/ lock[p] \in leaked

-----------------------------------------------------------------------------
(* Promises the code does not keep *)

\* docs/02: one run per source per schedule.  A lock that leaked stays held until the
\* process is restarted: every later run of the source is refused and skipped.
LocksComeBack == leaked = {}

\* A saved triage edit stays: an edit that read the rules earlier stores its copy.
EditsAreKept ==
  \A r \in Requests : task[r].kind = "triage" /\ task[r].at = "saved" => r \in rules

\* docs/11 F17, docs/14 A5: the last active developer recipient cannot be removed.  A
\* recipient that was read inactive is deleted unguarded, even when it was
\* reactivated and has become the last one since.
DevListNeverEmpties == OnDuty # {}

\* docs/15: Run Now and Process Now are for Test Mode.  The mode is read once, at the
\* request: switched off under a run, the run mails to the business list.
ManualRunsAreTests ==
  \A r \in Requests : task[r].kind \in {"source", "tender"} /\ task[r].at = "running" => testMode

\* A test mail ends sent or failed.  A refused recheck and a restart leave it in
\* sending, without a claim that the reaper could find.
TestMailSettles == \A r \in Requests : task[r].at = "done" => letters[r] # "sending"

\* A scheduled run is of a source that is due: the decision is not taken again after
\* the lock, so a source run by hand since the poll is crawled twice.
ScheduledIsDue == loop.at = "running" => portal[loop.on].due
=============================================================================
