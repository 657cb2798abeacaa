# Verification of tender-intelligence

TLA+ specifications of tender-intelligence, from the listing of a tender to the mail
about it: the crawl of a source, the pipeline that carries a tender to its verdict,
its documents, the verdict engine and its rules, the durable outbox that mails the
verdict, the provider chain the mail goes through, and the admin process beside it.
TLC checks the specifications on small instances; TLAPS proves the properties that
matter most for every value of the constants.

Paths below are relative to `src/tender_intelligence/` of the repository, those that
begin with `docs/` to its root.

## 1. The system

tender-intelligence crawls configured tender sources, finds new and changed
tenders, fetches and reads their documents, has a language model judge whether to
bid, and mails the verdict. Two kinds of process run it against one PostgreSQL
database: the *worker* (`worker/main.py`) and the *admin server*
(`admin/main.py`), which has a scheduler loop of its own and manual runs started
from the console. Locks exist inside a process only; between processes the
database (row locks, unique indexes) is the only coordination.

| Component | State it keeps | Operations | What makes it correct |
|---|---|---|---|
| Notification outbox (`notifications/service.py`, `db/repositories/notifications.py`) | `notification_log` rows with status, claim token, lease, attempts, `possible_duplicate`, recipient snapshot, dedupe key; the red banner; Test Mode | `notify_tender`, `flush_pending_retry`, `claim_pending`, `begin_send`, `renew_claim`, `mark_sent`, `keep_pending`, `requeue_possible_duplicate` | no notice is lost; nothing is repeated unmarked; ambiguous sends are bounded; Test Mode reaches nobody outside; raw notices stay internal |
| Provider chain, breakers (`mail/chain.py`, `mail/breaker.py`) | breaker and usage columns of `mail_provider`, copied into each chain | `deliver`, `allow_probe`, `record_failure/success`, `cancel_probe`, `claim_breaker_probe`, `try_consume`, `_persist_breakers` | failures trip, cooldowns hold, one probe at a time, limits kept, a provider comes back |
| Run coordinator (`orchestrator/coordinator.py`) | `run_history`, the run's work sets in memory | `run_source`, `run_existing_tender`, `_recover_unprocessed`, the stages, `_finalize_run` | a stored tender is assessed and mailed once, whatever dies |
| Deduplication (`dedup/`) | `tenders` rows | `claim_new`, `_maybe_update` in one transaction | new once, update once per change |
| Source connectors, polite fetcher (`sources/`) | the chain of pages of one crawl | `list_new_tenders`, `get_detail`, `get_attachments` | what stays on the list is returned; transient failures are ridden out |
| Acquisition, processing (`acquisition/`, `processing/`) | document rows, object storage, artifacts, the tender's bundle | `acquire`, `safe_extract_archive`, `_mark_failed`, `process_tender`, `_persist_row` | a document is kept once; a failure never looks like a complete bundle |
| Deadline (`deadline/`) | deadline columns | `resolve`, `apply_deadline_resolution` | a deadline is never invented |
| Triage, verdict engine (`triage/`, `verdict/`) | triage and verdict rows, tender status, LLM usage, alerts | `evaluate`, `generate`, `_invoke_with_policy`, `_validate_semantics` | documents go to approved profiles only; budget respected; failures visible; verdicts grounded |
| Recipients (`notifications/router.py`, `notifications/admin.py`) | recipient lists | `resolve`, `resolve_raw_notice`, add, deactivate, delete | the route follows Test Mode and kind; the developer list never empties |
| Admin API, schedulers (`admin/api.py`, `admin/main.py`, `orchestrator/scheduler.py`) | operation table and locks in memory, settings, knowledge base | `run_source_now`, `process_existing_tender`, `_scheduled_source_loop`, edits, uploads, test mails | one run per source and process; due sources run; edits that overlap keep the rules |
| Alerts (`audit/`) | `alert_event` rows | `trigger`, reminders | one open alert per condition |
| Mail adapters, LLM adapters, configuration, secrets, storage | none of their own | formatting, requests, files | see their own tests |

They interact as follows. A crawl hands listings to dedup; a run carries what is new
or changed through triage, acquisition, processing, deadline and verdict, and hands
the verdict to the outbox by calling `notify_tender` at its last stage; from then on
the notification row is the only memory of it. A live send and every later flush
build a provider chain out of the database, walk it, and write the breakers back
with the row. The outbox and the chain meet in one callback,
`_before_provider_attempt`, which renews the row's lease and re-checks Test Mode
immediately before every request. Recipient lists, profiles, Test Mode and triage
rules are settings an operator may change between any two of these steps.

What is hard, and therefore modelled:

* two processes that flush, crawl, probe, acquire or generate at the same time, with
  leases that run out under a holder that is only slow, and rows that are read without a
  lock and written by primary key later;
* a process that dies between a side effect (mail accepted, bytes stored, verdict
  committed) and the record of it;
* a request without an answer, which may have been accepted, and one rejected as too
  large, which must be made smaller and not merely be repeated;
* a failure the code foresees, which is recorded, and an exception it does not, which
  leaves no trace but a counter;
* settings that change between the decision and the request;
* state copied out of the database (breakers, rows, listings, rules) and written back;
* a list that changes while its pages are read;
* recovery that selects the work an interrupted run left behind.

PROJECT.json lists each such hazard with its line and the properties that watch it. Where
the code loses the race today, the hazard names no property and points to section 5.

## 2. The modules

### Outbox (`Outbox.tla`, `MCOutbox.tla`)

One process per service instance (an instance is sequential: `_delivery_lock`),
one step per database transaction, because between two transactions anything may
happen. `rows` is `notification_log`, `pc`/`job` are the locals of
`notify_tender` and `flush_pending_retry`:

    Prepare -> AlreadyNotified | Reserve -> BeginSend -> Revalidate -> RenewClaim     (live)
    [ReadStale ->] ClaimPending -> (OpenRow -> Revalidate)* -> FinishFlush -> ClearBanner  (flush)
    both: BeforeAttempt -> Accept | Reject | Timeout ... -> FinalizeSent | FinalizeFailed

`Recipients` is the router, `Recipients`/`KeyTaken`/`Rerouted` carry the dedupe
key and its rewriting at send time, `Claim`, `Recovered`, `MarkSent` and
`KeepPending` are the updates of `NotificationRepository`. `claim_pending` is two steps
where it recovers: `_recover_stale_sending` reads the stale rows without a lock
(`ReadStale`, into `job[w].stale`), and what follows writes those rows by primary key,
whatever another instance has made of them since, and claims (`ClaimPending`). Whether a
recovered row is claimed from the copy the session holds, with the attempts it was read
with, or read again, depends on the session's identity map: `copied` is either. A list of recipients is
represented by where it comes from ("dev", "tender", or "none" when it is empty);
a due time and a lease by the fact that they have passed; a claim token by the
instance that drew it. The environment switches Test Mode, edits recipients, lets
leases expire, crashes instances and releases quarantined rows. `mail` and
`lateBiz` record what providers received: no code reads them.

### Delivery and its refinement (`Delivery.tla`, `OutboxDelivery.tla`)

`Delivery` is what a caller of the outbox may rely on, without claims, leases,
retries or processes: a letter is owed until it is done or held for the operator, is
called done only after a provider took it, and afterwards nothing happens to it
unless it is marked as a possible duplicate. `OutboxDelivery` maps a row to a letter
(pending, sending and pending_retry are owed, possible_duplicate is held; `accepted`
is "some provider took it") and states the implementation as `KeepsItsPromise`. It is
checked in outbox_claims and proved in `OutboxDelivery_proofs`.

### MailChain (`MailChain.tla`, `MCMailChain.tla`)

`Build` copies the breakers, `ClaimProbe` is the atomic lease in the database
followed by `allow_probe` on the copy, `Reserve` is the shared usage window, `Send`
to `FailRequest`/`Succeed` one request, `Persist` the write-back of the breakers a
chain touched, `Refuse` and `Rollback` the two ways a chain ends without one. A
point in time is the number of ticks until it. `sent`, `streak` and `lease` are history:
the requests of a window, the failures in a row, and the running chains that took the
probe lease of a breaker since it was last written (`TakeLease`).

### Pipeline (`Pipeline.tla`, `MCPipeline.tla`)

One process of the model is one process of the system, driving one source.
`StartRun`, `LoadSeen`, `Dedup`, `Select`, `ReadDetails`, `Triage`, `BeginVerdict`,
`VerdictAvailable`/`VerdictUnavailable`, `Notify`, `Finish` are the steps of a run in
order, and `FailStage` is the discovery, dedup or detail stage that FAILED and ends it; `run[p]` is everything a run holds in memory, and all a crash
takes. `Set` models the ORM's unit of work: an assignment reaches the row only
where it differs from what was loaded, which is what makes lost updates visible. A
listing's material content is a version number; a message of `outbox` is the row
that module Outbox delivers.

### Intake (`Intake.tla`, `MCIntake.tla`)

The stages between triage and verdict for one tender: `TakeItem` (reuse or download),
`Fetch`, `Put`, `Commit`, `MarkFailed` and the retry of the stage are
`DocumentAcquisitionService.acquire`; `Extract`, `PersistRow` and `WriteBundle` are
`DocumentProcessingService.process_tender`. The row of an item is looked up when its
bytes are written and used when it commits, and the rows are read once into a
snapshot before processing: `job[p].found` and `job[p].snapshot` are those stale
values. Archives are expanded by `Expanded` with the limits of `ZipLimits`; bytes
are identities, so that two attachments with equal content meet in the unique
constraint on the checksum. A failure the code turns into a `DocumentAcquisitionError`
or a member failure is recorded (`MarkFailed`, `Rejects`; a member may be `damaged`). Any
other exception `Escapes`: the rest of the tender's items is left out, no row is
marked, and the tender goes on to its bundle with `cut` set, a note no code keeps.

### Verdict (`Verdict.tla`, `MCVerdict.tla`)

One generation is one transaction of `verdict/runtime.py`. `Begun` are the gates of
`generate` in their order, `Candidates` the profiles a request may go to, `Accepted`
and `Corrected` what a valid and an invalid answer lead to, `Passed` the fallback,
`Shrunk` the reaction to a payload that is too large. `job[w]` holds what the
transaction has read (`rows`, `loaded`) and not yet written (`status`, `alerts`,
`cost`); `Commit` writes it, `Crash` drops it. Prompts and token counts are not
modelled: that a request fits no window, or that a reduced payload got smaller, is a
choice.

### Assessment (`Assessment.tla`)

The pure rules of the assessment as operators: deadline resolution, classes of failed
calls and what each policy does with them, splitting and reduction of documents,
retrieval, validation of evidence, repair and validation of a verdict. They are
checked against statements of what they are for, over every input of their bounds: a
behaviour of MCVerdict is either a scene of the engine or one question (`given`).
`Answering` is the behaviour of a question alone, about which the theorems are.

### Console (`Console.tla`, `MCConsole.tla`)

The admin process: an operator's request is a thread that reads in one step and
writes in a later one. `Ask`, `Accept`, `Begin`, `Run`, `Finish` are Run Now and
Process Now from the lock to its release, `Loop...` the scheduler loop on the same
locks, `ReadRules`/`SaveRules`, `ReadRecipient`/`Guard`/`RemoveRecipient`,
`ReadUpload`/`StoreUpload`/`InsertUpload` and `ComposeMail`/`Recheck`/`Attempt` the
handlers whose steps can interleave. `Restart` empties what is in memory. The
recipient guard's row locks are `gate`.

### Listings (`Listings.tla`)

One crawl of one source by its connector: HTML rows, a search form, a JSON list (paged
by link, number or offset) or a feed, while the site publishes and withdraws tenders
and requests fail. `Served`, `NextPage`, `Finished`, `Ends`, `Misparsed` are the
connector's decisions about one page; what a crawl found counts only when it ends.
It runs under MCConsole, one behaviour being either a scene of the console or crawls.

### The proofs

`Outbox_proofs` has what holds of the outbox whatever happens (types, claims, Test Mode,
raw notices), `OutboxMail_proofs` what it does with mail under a named hypothesis,
`OutboxDelivery_proofs` its refinement. `MailChain_proofs`, `Pipeline_proofs` and
`Intake_proofs` extend one module each, `Verdict_proofs` extends Verdict and Assessment,
`Console_proofs` Console and Listings (section 6).

## 3. Runs

Every model counts its adverse events: `Adverse` names those that may happen and a
budget (`MaxAdverse`, `Troubles`, `Mishaps`, or the `adverse` field of a scene) how
often; without one the steps are those of a healthy system. A kind that is absent
from `Adverse` is a hypothesis of the run. A *scene* fixes who takes part in a
behaviour and what may go wrong in it, so that one run asks a question of several
instances; it never changes.

| Run | Question | Instance |
|---|---|---|
| outbox_claims | Is a claim ever lost, a row sent by two, or a mail repeated without its mark? Is every step one of the letter box? | 2 instances, 2 notices (one UPDATE), 2 rows, batches of 2; crash, slow, reject, timeout, requeue, 3 events |
| outbox_final | Do the snapshot, the dedupe key and the Test Mode check survive switches of Test Mode? | 2 instances, 1 notice, 3 rows; crash, slow, reject, mode, down, 3 events |
| outbox_routes | Can a raw notice reach a business list? | 1 instance, 2 notices (one raw), 5 rows, four start configurations; mode, recipients, fault, 2 events |
| outbox_quarantine | Are ambiguous sends bounded? | 2 instances, 2 notices; timeout, reject, requeue, down, 4 events |
| outbox_settles | Does every notification settle, and does the operator see it while it has not? | 1 instance, 2 notices; crash, slow, reject, timeout, 3 events; fairness |
| chain | One probe lease, no overrun, a breaker that opens and keeps its cooldown, and a provider that comes back? | scenes: 2 instances and 1 tripped provider with refuse, lost, crash (2 events); 1 instance, 2 providers, threshold 3 with outage, error, unfit (3 events); fairness |
| pipeline_crawls | Is a tender announced as new twice? | 2 processes, 1 tender, 2 versions; crash, manual, triage, verdict, mail, 2 events |
| pipeline_process | Versions, statuses, reports and recovery inside one process | 1 process, 2 tenders (one irrelevant), 2 versions; crash, manual, verdict, expire, fault, 2 events; fairness |
| intake | Is a document kept once, and every recorded failure in the bundle? | 6 documents: an archive of a document, an oversized and a damaged member and a nested archive that does not open, and an attachment with the document's bytes; 2 processes and 1 event, or 1 process and 3; every kind of event |
| verdict | Who gets the documents, what is charged, what fails visibly, does a generation end; and the rules | 2 processes, 1 tender, 2 profiles, budget 2, 1 segment; two processes with 1 event of any kind, or one whose calls fail at will; the questions over 3 instants, 2 requirements, 2 quotes, 2 headings, texts of 5 characters; fairness |
| console | Are locks held by who works, does the developer list keep a member, is a due source run; what can lose a crawl, and does it return what stays listed? | 3 requests, 2 sources, 2 developers, 1 upload, room for 1 operation, 1 trouble, seven scenes; 5 tenders, pages of 2, at most 3 pages, 1 retry, 2 mishaps, 29 kinds of source, lists of 4, of 3 with an unreadable entry and of 1; fairness |
| pipeline_never_mailed | the disagreement of section 5 that has a run of its own | 1 process, 1 tender, 1 event |

The bounds, and why they suffice. Two instances are all an interleaving of the
outbox, the chain, the intake or the engine needs: its conflicts are about one row
(breaker, document, budget), a stale holder and a newer one. Three rows for one notice
are one per route and the unrouted reservation, the most the dedupe key can tell
apart. `MaxTries` 2 is a retry or a failover, after which a walk repeats itself; the
provider's identity is module MailChain's concern. `MaxAttempts` 4 is above the
quarantine limit of 2, so that an overrun is visible. In the chain, counters saturate
at the threshold because nothing distinguishes higher counts. Two versions give one
change; two tenders give one that blocks the other in the recovery. Six documents
are one of each outcome of an archive member, and one collision of checksums; the
archive's limits let all its members through but the oversized one. A batch of two has a
row that waits while the first is sent, as long as its lease may run out. A
profile and its fallback are all a request may choose from. Three requests are a
removal, another one and a reactivation between them, or one more run than `Capacity`
keeps. Four entries on pages of two are a first, a full and a following page, with one
more tender to publish. Texts of five characters have every relation of length, limit
and separator the cut distinguishes: a piece of at most four, the half, the limit and
the end. Histories (`mail`, `lateBiz`, `sent`) saturate one above what the properties
allow. `pc`, `job`, `run` and `task` are never bounded. Symmetry over processes is
used in safety runs only.

Deadlock is checked in every run but verdict and console, where a behaviour may
really be over: a question has been asked, or every request of a scene has been
answered.

The type invariants of Outbox, MailChain, Pipeline, Intake, Verdict and Console are
theorems (section 6), so the runs spend their time on the other properties.

Every property has a mutant of the definition that protects it (RecoveredClean:
recovery forgets the mark; HolderNone: equal bytes are stored twice; CandidatesActive:
the fallback's approval is not tested; GuardUnlocked: the count is taken without row
locks; EndsAtRepeat: a crawl ends at the first entry seen before; and so on), listed in
PROJECT.json, under which its run fails. Mutants stand beside the definition they
change and are named in a comment; no specification uses them.

## 4. Fairness

* Outbox: an instance that began a send goes on with it (`WF` of its steps: no step
  waits for another instance), and flushes again and again (`SF` of `ReadStale` and of
  `ClaimPending`: both process loops end every pass with `flush_pending_retry`, which
  begins with the recovery, and between two flushes live notices may intervene, so
  neither is continuously enabled). Time passes: `WF` of `LeaseExpires` and `BecomesDue`. Nothing is assumed
  about operators, providers, or live notices.
* MailChain: `deliver` returns (`WF` of the walk), passes keep building chains
  (`WF` of `Build`), time and usage windows advance.
* Pipeline: `WF` of the steps of a pass: the scheduler starts passes for ever and a
  run that was started is carried on. Faults are limited by `MaxAdverse`:
  a liveness claim is about what happens once they stop.
* Verdict: `WF` of a process's steps: every call has a timeout and is answered or
  fails, and the handoff commits. `GenerationEnds` holds although, in one scene, calls
  fail at will: termination does not rest on failures stopping.
* Console: `WF` of the loop, a task of the event loop whose waits time out, and of each
  operation, a thread that was started. Nothing is assumed about operators.
* Listings: `WF` of the crawl: a due source is crawled again. `Mishaps` bounds changes
  and failures, so `MissedIsFoundLater` is about a list that holds still.

## 5. Known disagreements

What the documents, comments or docstrings promise and the code does not keep, as
the models show it. `VerdictIsMailed` has a run; for the others, change the constants
named (the other lines stay) in a copy of the run's cfg, check the property, and TLC
prints the trace.

| Property | Where | What happens | To see it |
|---|---|---|---|
| VerdictIsMailed | `orchestrator/coordinator.py:1172` | A tender recovered after a crash is in neither set of this run's dedup result; the provenance gate drops its verdict, and no later run produces another. | run pipeline_never_mailed |
| OneLateBusinessMail | `notifications/service.py:1406` | A flush whose revalidation finds no route empties the selection that is *checked* and keeps the message that is *sent*; with Test Mode ON the check passes and business recipients get mail. | outbox_final, Workers One, Adverse mode, recipients, reject, MaxAdverse 4 |
| RepeatIsFlagged | `notifications/service.py:1439` | An exception at the wire boundary replaces the result of the attempts made: a timeout before it is forgotten and the mail is repeated unmarked. | outbox_final, Adverse mode, timeout |
| AmbiguousSendsBounded | `db/repositories/notifications.py:378` | The recovery of a stale claim marks the row but claims it whatever its count; only `keep_pending` quarantines. | outbox_quarantine, Adverse crash |
| SentIsFinal | `db/repositories/notifications.py:238`, `:386` | A sender that lost its claim finds the token NULL, which passes the ownership test, and reopens the row another instance has marked sent. No slow instance is needed: the recovery of a crashed claim, read without a lock, writes over a row that another flush has recovered and sent meanwhile. | outbox_final, Adverse slow, reject, down; or Adverse crash |
| SnapshotIsTruthful | `db/repositories/notifications.py:210` | The same senders mark sent a row another instance has re-routed meanwhile. The row is marked possible_duplicate, its snapshot is not true. | outbox_final, Adverse slow, mode, down, or crash, mode, down, MaxAdverse 4; property without `rows[r].flag` |
| FailureShowsBanner | `notifications/service.py:433` | The flush counts, then clears; a failure committed in between loses its banner. | outbox_settles, Workers Two, Adverse reject, down |
| BannerClears | `notifications/service.py:433` | Only a flush that itself delivered clears the banner; a live reservation at that moment keeps it up until some later flush delivers. | outbox_settles, Workers Two, Adverse down |
| EveryRowSettles | `notifications/service.py:1069` | The key of a row that is re-routed at send time collides with the row already sent to that list. The flush path does not catch the IntegrityError: the row stays `sending`, is recovered, claimed and collides again for as long as the route lasts. | outbox_settles, one notice, four rows, Adverse mode, down |
| CooldownHolds | `notifications/service.py:1776` | `_persist_breakers` writes its older copy over a breaker another instance has opened. | chain, a third scene of two instances and one provider, tripped {}, threshold 2, kinds outage; property without `Alone` |
| ProbesExclusive | `notifications/service.py:1770` | A chain built before the breaker opened goes on using the provider beside the leased probe. | chain, the same scene |
| OpenProviderIsNotCalled | `mail/chain.py:256` | The retry loop does not ask the breaker its own failure has opened. | chain |
| VersionMailedOnce | `dedup/service.py:450` | Two processes compare a changed listing with rows loaded without a lock and both mail an UPDATE. | pipeline_crawls, Adverse {} |
| TerminalIsFinal | `verdict/service.py:885` | The engine assigns the status of a row read before the model call; `processed` overwrites another process's `verdict_failed`. | pipeline_crawls, Adverse verdict |
| FailedVerdictIsReported | `notifications/service.py:487` | Without its first disjunct the property is false: a tender that has a verdict of an earlier version gets no raw notice for the failed one. | pipeline_process, Adverse verdict, property without `tender[t].verdict > 0` |
| BrokenRunIsNotCompleted | `orchestrator/coordinator.py:416` | An exception between the stages ends the run, and its status is computed from the outcomes of the stages that did run. | pipeline_process, Adverse fault |
| UpdateIsAssessed | `db/repositories/tenders.py:147` | The recovery selects status `new`; an `updated` tender of an interrupted run is unchanged for every later crawl. | pipeline_process, Adverse crash |
| StrandedIsAssessed | `orchestrator/coordinator.py:1319` | Discarded tenders keep status `new`; with a recovery limit they fill, what is behind them starves. | pipeline_process, RecoveryLimit 1, Irrelevant {1} |
| QueuedIsResumed | `db/repositories/tenders.py:147` | Nothing selects `awaiting_budget`. | pipeline_process, Adverse verdict |
| ReusedIsComplete | `acquisition/service.py:697` | The docstring excludes partially acquired archives, but the test looks at the rows that exist: a crash after the archive's row, before its members', leaves an archive that counts as acquired for ever. | intake |
| CutShortIsFlagged | `acquisition/service.py:235`, `:401` | docs/14 FH5 has a document that cannot be downloaded or extracted make the inputs incomplete. Only a `DocumentAcquisitionError` is recorded; what the fetcher does not list (`acquisition/fetcher.py:70`: TooManyRedirects, InvalidURL) or `archive.read` raises besides `zipfile.error` (`acquisition/zip.py:203`: an encrypted member, damaged compressed data) leaves no row, the rest of the tender's items is not tried, and `orchestrator/coordinator.py:900` only counts it: the bundle may be complete. | intake |
| RejectedIsFlagged | `acquisition/service.py:416` | docs/06:68 has every attachment that failed make the inputs incomplete; an oversized member is reported by the stage and has no row, so the bundle does not know. | intake |
| WithdrawnGetsNothing | `verdict/service.py:910` | The profile rows are read once: approval withdrawn during a generation shows only in the next one. | verdict |
| NewVerdictIsProcessed | `verdict/service.py:885` | A generation that loaded `processed` assigns the same value, which the unit of work does not write; the other process's `verdict_failed` stays beside the new verdict. | verdict |
| DetailPrevails | `deadline/service.py:168` | The docstring (`deadline/service.py:13`) favours the detail page within the tolerance; `resolve` returns the listing's deadline. | verdict |
| MetHasNoGap | `verdict/service.py:2225` | Rule 8 of the prompt (`verdict/service.py:2365`) wants no gap for `met`; the overrides turn the missing gap into "No evidence on file", which the mail shows. | verdict |
| CompliantCitationIsKept | `verdict/service.py:2158` | The text before the first heading is sent under a heading that is not among those that may be cited, so its citation is discarded. | verdict |
| NoticeInstructionSurvives | `verdict/service.py:1743` | The reduced documents lose the field that tells a published notice, and with it the instruction for an assessment from the notice alone. | verdict |
| TriageRetriesTransient | `triage/service.py:149` | Triage gives up at once on rate limits and server errors, which the verdict engine repeats. | verdict |
| LocksComeBack | `admin/api.py:804` | A commit that fails after the lock was taken, or an operation dropped from the table before it began, leaves the source locked until a restart. | console |
| EditsAreKept | `admin/api.py:1181` | Two edits of the triage rules each store a copy of what they read. | console |
| DevListNeverEmpties | `admin/api.py:1595` | docs/14:88 A5 refuses to remove the last active developer; a recipient that was read inactive is deleted unguarded, even when it was reactivated and has become the last one. | console |
| ManualRunsAreTests | `admin/api.py:786` | docs/15:17 guards manual runs with Test Mode, which is read at the request and not by the background run. | console |
| TestMailSettles | `notifications/service.py:340` | A refused recheck or a restart leaves the row `sending`, without a claim the recovery could find. | console |
| ScheduledIsDue | `admin/main.py:203` | The due decision is not taken again after the lock: a source run by hand since the poll is crawled twice. | console |
| DeadlineIsStated | `sources/waho.py:730` | docs/05:54 never assumes a time zone; a machine-readable date without one is taken for UTC. | console |
| KnownIsReadable | `sources/json_api.py:695` | A recovered tender of a feed or JSON source without a template is no longer on the list and has no detail page. | console |
| ListedIsKnown | `sources/json_api.py:509` | docs/05:36 follows pages until no new items are found. A site that caps the page size ends the crawl after its first page, one malformed row alone on a page makes it fail, and the fetcher the processes wire (`worker/main.py:93`) cannot carry a credential. | console |

Where a passing run checks one of these properties, its `Adverse` or its scenes leave
the event that breaks it out: outbox_quarantine has no crash, outbox_settles no switch of
Test Mode and one instance, pipeline_process one process. The passing run says what the
mechanism does guarantee, the table what it does not. Of the hazards, the banner race
(`notifications/service.py:433`), the row whose key collides, the notice refused for an
earlier verdict and the races of two processes on a tender's row are therefore broken
today, and no passing run exercises them.

Read in the code while modelling it, and stated by no property: the registry is wired with a fetcher that
only knows GET, so the method, headers and credential of a JSON source are dropped
(`orchestrator/registry.py:94`), and `Source.auth_encrypted` is never read; the search-form driver builds a polite client for each request, so pacing
does not span them, and the robots cache is never refreshed; the coordinator resolves
deadlines without documents; urgency is the one authoritative field the overrides
do not correct; `_mark_failed` of two processes may insert two rows of one
failure; content replaced under the same URL is not downloaded again; every DOCX
looks like a nested archive; the local storage uses one temporary name per object, so
that of two concurrent puts the second rename fails; a crash loses the cost of the
calls made; an answer that explains why a requirement is unverified, without the fixed
words, is rejected; the dedupe key of an alert's reminder is permanent and swallows the
next reminders, and `mark_recovered` and `requeue_possible_duplicate` have no caller; a
run row left RUNNING by a crash is never swept.

## 6. Proofs

All theorems hold for any number of instances, processes, requests, notices, tenders,
documents, profiles, providers and segments, any limits, and any finite number of
adverse events, under the assumptions on the constants named in the modules
(`OutboxConstants`, `MailChainConstants`, `PipelineConstants`, `IntakeConstants`,
`VerdictConstants`, `AssessmentConstants`, `ConsoleConstants`, `ListingsConstants`),
which TLC evaluates in every run of the module. "Under" is the hypothesis a theorem has
besides them; without one, every kind of adverse event may happen.

| Theorem | Statement | Under | Inductive invariant |
|---|---|---|---|
| Outbox_proofs!TypeCorrect | `[]TypeOK` | | `TypeOK` itself, with one lemma per row update |
| Outbox_proofs!ClaimsAreSafe, OneSenderAtATime | no claim is lost, and no row has two senders, without the mark | | `ClaimInv`: `TypeOK`; `JobShape` (a working stage names a row outside the batch); `StaleExist` (a row a recovery has read exists); `AbsentUnflagged`; and `ClaimLossIsFlagged`, inductive only with them |
| Outbox_proofs!TestModeIsSafe | `[]OneLateBusinessMail` | `Staffed` | `TestModeInv`: lists keep a member, the checked selection is the one the message carries (`ChecksItsMessage`), and an instance with a business request in flight has none behind it (`InFlightIsFirst`) |
| Outbox_proofs!RawNoticesAreInternal | `[]RawNoticesStayInternal` | | `RawInv`: rows in use exist, and keys, snapshots and selections of raw notices are never "tender" |
| OutboxDelivery_proofs!OutboxDelivers | `Spec => KeepsItsPromise` (refinement) | | `DeliveryInv`: `ClaimInv` and `DeliveredIsTaken` (who is about to call a row sent has had it accepted); then each action maps to one of `Delivery` or to a stutter |
| OutboxMail_proofs!RepeatsAreFlagged | `[]RepeatIsFlagged` | `NoLostDoubt` | `RepeatInv`: `ClaimInv`; an unmarked row that waits was not accepted, one that is sent only once (`RowFine`); the instance at work on it knows what it does not know (`HoldFine`); what the hypothesis buys (`DoubtInv`) |
| OutboxMail_proofs!ListsAreMailedOnce | `[]ListMailedOnceUnlessFlagged` | `NoLostDoubt`, `Staffed` | `ListInv`: `RepeatInv`, different rows of a notice have different keys (`KeysDistinct`), an unmarked row was accepted for the list in its key only (`KeyFine`), and the message that is sent goes to that list (`MessageFine`) |
| OutboxMail_proofs!SnapshotsAreTruthful | `[]SnapshotIsTruthful` | | `SnapshotInv`: `ClaimInv`, and unless the row is marked, the row of an instance that sends it names the list of its message, and a delivered message reached its list (`SnapshotFine`) |
| OutboxMail_proofs!FailuresShowTheBanner | `[]FailureShowsBanner` | `OneInstance`, `DevSeeded` | `BannerInv`: the developer list keeps a member, and an instance that is about to clear the banner has found nothing that waits (`ClearingIsRight`) |
| OutboxMail_proofs!AmbiguousSendsAreBounded | `[]AmbiguousSendsBounded` | `Steady` | `QuotaInv`: an instance at work on a row holds its live lease (`HeldLive`) and no recovery is under way (`NoRecovery`); every row in `sending` is in somebody's hands (`AllHeld`), its key is the list the settings route to (`KeyRouted`), and a marked row waits only while it has a send left (`QuotaFine`) |
| MailChain_proofs!TypeCorrect | `[]TypeOK` | | `TypeOK` |
| MailChain_proofs!RequestsAreLimited | `[]RequestsWithinLimit` | | `ChainInv`: the walk names a provider (`WalkInv`), and what was sent plus what is reserved and not yet sent is at most what the window counts plus one for each instance (`ReservedInv`) |
| MailChain_proofs!LeasesAreExclusive | `[]LeaseIsExclusive` | `Prompt` | `LeaseInv`: a chain ends before the leases it took do, and nobody has written those breakers meanwhile (`Lent`) |
| MailChain_proofs!FailingProvidersTrip | `[]TripsAtThreshold` | `Undisturbed` | `CountInv`: a closed breaker has counted the streak of failures, in the copy of the chain if the chain touched it and in the database otherwise (`Settles`) |
| MailChain_proofs!CooldownsHold | `Spec => CooldownHolds` (action property) | | `CoolInv`: no breaker that the one instance touched is open in the database (`Cool`) |
| Pipeline_proofs!TypeCorrect | `[]TypeOK` | | `TypeOK` |
| Pipeline_proofs!NewIsMailedOnce | `[]NewMailedOnce` | | `NewInv`: a tender a run calls new is stored, belongs to one run only, comes from that run's dedup, and is announced by it at most once |
| Pipeline_proofs!FailedVerdictsAreReported | `[]FailedVerdictIsReported` | `"mail"` not in `Adverse` | `ReportInv`: the unavailable tenders a run has gone past are reported (`PastIsReported`), what it works on has a row, and a verdict number never goes back |
| Pipeline_proofs!VersionIsMailedOnce, ProcessedTendersAreAssessed | `[]VersionMailedOnce`, `[]ProcessedIsAssessed` | `OneProcess` | `VersionInv`: what a crawl holds is the version it stored (`HeldIsStored`), a row that was read and is still used has not changed since (`SeenIsCurrent`), and a held version is mailed only when the crawl is past it (`CrawledIsPast`) |
| Intake_proofs!IntakeTypeCorrect, DocumentsKeptOnce | `[]TypeOK`, `[]KeptOnce` | | `KeptInv`: jobs have the shape of their stage, and the bytes of a row are those of its document (`OwnBytes`) |
| Intake_proofs!FailuresAreFlagged, AcquiredDocumentsAreRead | `[]FailureIsFlagged`, `[]AcquiredIsRead` | | `ReadInv`: `KeptInv`, everything a pass has dealt with has its row in the snapshot (`AllRead`), an artifact is the text of its row's bytes (`ArtifactsTrue`) |
| Intake_proofs!PassesRepairRows | `[]PassRepairsRows` | | `RepairInv`: a pass that is alone has nobody beside it (`AloneIsAlone`) and agrees with what it has processed (`AloneRepairs`) |
| Verdict_proofs!TypeCorrect | `[]TypeOK` | | part of `VerdictInv` |
| Verdict_proofs!FailuresAreVisible, DocumentsAreApproved, RejectedStaysRejected | `[]` of FailureIsVisible, DocumentsStayApproved, RejectedPayloadNotRepeated | | `VerdictInv`: every generation is `Sound`: its candidates were active and approved in the rows it read, a failure it has not committed has its alert among its uncommitted alerts, and each payload it saw refused is one it has moved past |
| Verdict_proofs!OverspendIsBounded | `[]OverspendBounded` | | `BudgetInv`: a generation has been charged no more than the calls its stage has behind it (`Frugal`), and the budget was not spent when the last one began (`Affordable`) |
| Verdict_proofs!DeadlinesAreStated, DocumentsAreMappedWhole, VerdictsAreGrounded, FaithfulVerdictsAreAccepted | `Answering => []` of DeadlineNeverInvented, PiecesAreTheDocument, VerdictIsGrounded, EstablishedEvidenceIsAccepted | | the question never changes; lemmas on the operators: `ResolvedDates`, `PiecesFollow`, `ValidIsGrounded`, `FaithfulIsValid` |
| Console_proofs!TypeCorrect | `ConsoleSpec => []TypeOK` | | `TypeInv`: `TypeOK` and `UploadsAreFiles` (an upload's object is a file) |
| Console_proofs!LocksAreHeld | `ConsoleSpec => []HeldIsWorked` | | inductive as it stands, given `TypeInv` |
| Console_proofs!DevStays | `ConsoleSpec => []LastDevStays` | | `DevInv`: who has passed the guard holds the gate and somebody else is on duty (`GuardHolds`), and, while nobody reactivates, who was read inactive stays so (`NoRevival`) |
| Console_proofs!KbIsStored | `ConsoleSpec => []KbRowHasContent` | | `KbInv`: the content of an upload that is past its store is in the storage |
| Console_proofs!TransientsDoNotLoseCrawls | `CrawlSpec => TransientsAreRidden` (action property) | | `CrawlInv`: a request has been tried no more often than requests failed, and a chain of pages that goes on without having read a page is at the start of its list |
| Console_proofs!CrawlsSkipOnlyUnderChange | `CrawlSpec => []SkipNeedsChange` | `ListedOnce` | `SkipInv`: `CrawlInv`; the site names a tender once; and while nothing was withdrawn and publications with unreadable entries do not fill a page (`Quiet`), the crawl has found the first entries of its list, as many as lie before its page, which have moved down by no more than was published (`Reads`), and every finished chain has found all up to the cap (`Complete`) |

The hypotheses and why they are there. Each excludes the event that makes the statement
false, and section 5 has the counterexample.

* `Staffed`: recipients are not edited and both lists have members at the start. An
  empty list is what separates the checked selection from the message
  (OneLateBusinessMail).
* `NoLostDoubt`: no request times out, or neither the database nor Test Mode can stop
  an attempt at the wire boundary, where the timeout before it is forgotten
  (RepeatIsFlagged).
* `Prompt`: no instance of a scene of the chain outlives its lease. An outlived probe
  lease is given to the next chain: that is what leases are for.
* `OneInstance`: counting and clearing the banner are two transactions
  (FailureShowsBanner). `DevSeeded`: the developer list has a member at the start. The
  code seeds it, and `LastDevStays` keeps it.
* `Steady`: nobody crashes or is slow, since the recovery of a stale claim sends again
  whatever the count (AmbiguousSendsBounded), and the settings stay, since a row whose new
  key collides waits for that recovery (EveryRowSettles).
* `Undisturbed`: a scene of one instance has no refused, rolled back or crashed chain:
  what such a chain saw it does not write.
* `"mail"` not in `Adverse`: the dispatcher does not raise; where it does, the run drops
  the report with the exception.
* `OneProcess`: the lock of a source keeps runs apart inside one process only
  (VersionMailedOnce, TerminalIsFinal).
* `ListedOnce`: no list the site starts with names a tender twice. On a list that
  repeats one, a whole page can hold nothing new, and the crawl takes it for the end:
  with pages of two, it never comes to `t2` in `<<t1, t1, t1, t1, t2>>`.

`OneSenderAtATime` follows from `ClaimsAreSafe`: two holders cannot both own a row.
`RawNoticesAreInternal` needs no `Staffed`: even the stale route of a raw notice is
internal. `OutboxDelivers` needs `ClaimInv` because a promise about a settled letter is
one about stale senders: the one that finalises a row another instance has settled may
do so only if the claim it lost was marked.

`NewMailedOnce` is proved for any number of processes although they share no lock:
the unique constraint gives each tender one creating run (`NewIsOwned`), a run
announces only what its dedup created, and recovered tenders do not pass the
provenance gate. That gate is also what loses their mail (section 5).

`RejectedPayloadNotRepeated` is not inductive without the order of the requests: a
later payload differs from a refused one because the request, `mapped` or `reduced`
has changed since, and none of them goes back.

`LastDevStays` is stated for behaviours without a reactivation, since with one it is
false (`DevListNeverEmpties`).

What a recursive function over data computes is proved by its least counterexample
(the order of the naturals is well founded), since the induction theorems of the
library take an operator as their parameter: the pieces of a document
(`PiecesFollow`), the items of an archive, the entries of a filtered list
(`ViewType`, `ShowsKeeps`, `ShowsPrepends`).

`SkipNeedsChange` rests on an order: an entry never moves up while nothing is withdrawn,
and it moves down by one for each publication above it. What lay before the page has then
been seen, and a page without news repeats entries that moved down into it. It takes a
page full of publications and unreadable entries to make one, and those the
property excludes.

Some attempts showed that a property said less, or more, than was meant. One probe at a
time (`ProbesExclusive`) held only within the bounds of its run: a chain built before the
breaker opened uses the provider beside the probe, so the theorem is about the lease and
the rest is in section 5. A crawl of an empty list fails although a tender is published
the next moment, so `TransientsAreRidden` is a property of the failing step and not of
the state after it. Two arms of the rules' `CASE` overlapped, where TLA+ leaves the
choice open and the code takes the first.

Model-checked only: liveness (EveryRowSettles, FirstProviderRecovers,
StrandedIsAssessed, GenerationEnds, DueIsRun, MissedIsFoundLater), because fairness is
out of the prover's reach.

## 7. What is not modelled

* The system alerts of the outbox, forced recovery of a breaker, and the in-process
  usage limiter that production replaces by the shared one.
* Message text, links, formatting, mail adapters; the wording of errors. The
  attachment planner and the composition of a mail are pure and have tests.
* The model's answers: an LLM call is a choice between the outcomes the engine
  distinguishes. Prompts, JSON parsing and token estimates are those choices.
* Text: the extraction of documents, OCR, translation, the patterns of dates, the
  comparison of titles. A date is a class and a point in time, a text an identity.
* Pacing and the robots cache of the polite fetcher, redirects and response limits of
  a download: a fetch arrives or fails.
* Reminders, escalation, digest and health pages: nothing in production delivers the
  first two, and the others only read.
* Handlers of the admin API that create, update or read one row in one transaction;
  configuration, secrets, logging.
* Real time. Leases, cooldowns, intervals and the retry schedule are abstracted to
  "has run out", so a property may not depend on durations, and none does.
* More than one source in Pipeline, more than one tender in Intake: nothing is shared
  between two of them but what Outbox, Verdict and Console model.

## 8. State of the plan

Built: the outbox with its abstract specification and refinement, the provider chain,
the pipeline, the intake of documents, the engine and its rules, the admin process, the
connectors. Proved: section 6, every safety and action property that a passing run checks.

Left, in order of importance:

1. The outbox with the pipeline as its caller and the chain as its callee in one
   composition (`Delivery` is the interface the pipeline would be checked against).
2. Alerts with reminders, once something in production delivers them; pacing of the
   polite fetcher.
