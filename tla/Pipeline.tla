------------------------------- MODULE Pipeline -------------------------------
(***************************************************************************)
(* The run coordinator: orchestrator/coordinator.py carrying one source's  *)
(* tenders from the listing through dedup, triage and verdict to the       *)
(* notification row, with the recovery of stranded tenders.                *)
(*                                                                         *)
(* The worker and the admin server each run this pipeline; a lock keeps    *)
(* the runs of one source apart inside a process and nothing does between  *)
(* processes.  What a run holds in memory is lost in a crash; what it has  *)
(* committed stays.  A listing's material content is a version number, and *)
(* a notification is the durable row that module Outbox delivers.  The     *)
(* stages that fetch and read documents change nothing recorded here.      *)
(***************************************************************************)
EXTENDS Integers, FiniteSets

CONSTANTS
  Processes,     \* processes that run the source
  LastTender,    \* tenders of the source are 1..LastTender
  Irrelevant,    \* tenders the triage rules discard
  MaxVersion,    \* bound: versions of a listing
  RecoveryLimit, \* unprocessed_recovery_limit
  Adverse,       \* the adverse events this instance of the model allows
  MaxAdverse     \* bound: how many of them happen

AdverseKinds == {"crash", "fault", "triage", "verdict", "mail", "manual", "expire"}

ASSUME PipelineConstants ==
  /\ LastTender \in Nat \ {0} /\ MaxVersion \in Nat \ {0}
  /\ Irrelevant \subseteq 1..LastTender /\ RecoveryLimit \in Nat
  /\ Adverse \subseteq AdverseKinds /\ MaxAdverse \in Nat

Tenders == 1..LastTender

VARIABLES
  site,     \* the version of each listing on the site, 0 before publication
  overdue,  \* tenders whose deadline has passed
  tender,   \* the Tender rows, with their latest triage and verdict
  run,      \* the run each process is driving
  outbox,   \* NotificationLog rows created
  report,   \* the RunHistory row of each process's latest run
  budget    \* adverse events left

vars == <<site, overdue, tender, run, outbox, report, budget>>

\* the statuses dedup, the recovery and the verdict tell apart
Statuses == {"none", "new", "updated", "processed", "awaiting_budget",
             "awaiting_approved_provider", "verdict_failed"}
Terminal == {"verdict_failed"}

Row == [status : Statuses, version : 0..MaxVersion, is_update : BOOLEAN,
        born : Nat, triage : {"none", "passed", "triage_discarded", "failed"},
        verdict : Nat, assessed : 0..MaxVersion]
NoRow == [status |-> "none", version |-> 0, is_update |-> FALSE, born |-> 0,
          triage |-> "none", verdict |-> 0, assessed |-> 0]

\* row a run read and still uses: the tender's status and version
Read == [status : Statuses, version : 0..MaxVersion]
ReadOf(row) == [status |-> row.status, version |-> row.version]

Stages == {"idle", "discovery", "dedup", "select", "detail", "triage", "verdict",
           "thinking", "notification", "finish"}
Run == [stage : Stages, manual : BOOLEAN, found : [Tenders -> 0..MaxVersion],
        seen : [Tenders -> Read], new : SUBSET Tenders, updates : SUBSET Tenders,
        todo : SUBSET Tenders, passed : SUBSET Tenders,
        available : [Tenders -> Nat], unavailable : SUBSET Tenders,
        at : Tenders, failed : BOOLEAN, broken : BOOLEAN]
NoRun == [stage |-> "idle", manual |-> FALSE, found |-> [t \in Tenders |-> 0],
          seen |-> [t \in Tenders |-> ReadOf(NoRow)], new |-> {}, updates |-> {},
          todo |-> {}, passed |-> {}, available |-> [t \in Tenders |-> 0],
          unavailable |-> {}, at |-> 1, failed |-> FALSE, broken |-> FALSE]

\* verdict 0 stands for a raw notice
Message == [tender : Tenders, verdict : Nat, kind : {"new", "update", "raw"},
            manual : BOOLEAN, version : 0..MaxVersion]

Init ==
  /\ site = [t \in Tenders |-> 0]
  /\ overdue = {}
  /\ tender = [t \in Tenders |-> NoRow]
  /\ run = [p \in Processes |-> NoRun]
  /\ outbox = {}
  /\ report = [p \in Processes |-> "none"]
  /\ budget = MaxAdverse

Spend(kind) == kind \in Adverse /\ budget > 0 /\ budget' = budget - 1

\* process p goes on with run r
Goes(p, r) == run' = [run EXCEPT ![p] = r]

-----------------------------------------------------------------------------
(* run_source up to the work set *)

\* _open_run commits a RUNNING row, discovery reads the listing
StartRun(p) ==
  /\ run[p].stage = "idle"
  /\ Goes(p, [NoRun EXCEPT !.stage = "discovery", !.found = site])
  /\ report' = [report EXCEPT ![p] = "running"]
  /\ UNCHANGED <<site, overdue, tender, outbox, budget>>

\* discovery, the dedup transaction or all detail pages fail: the stage and the run
\* are FAILED, and the run ends
FailStage(p) ==
  /\ run[p].stage \in {"discovery", "dedup", "detail"}
  /\ Spend("fault")
  /\ Goes(p, [run[p] EXCEPT !.stage = "finish", !.failed = TRUE])
  /\ UNCHANGED <<site, overdue, tender, outbox, report>>

\* the dedup transaction loads the rows of the listings
LoadSeen(p) ==
  /\ run[p].stage = "discovery"
  /\ Goes(p, [run[p] EXCEPT !.stage = "dedup",
                            !.seen = [t \in Tenders |-> ReadOf(tender[t])]])
  /\ UNCHANGED <<site, overdue, tender, outbox, report, budget>>

Listed(p) == {t \in Tenders : run[p].found[t] > 0}
\* mutant: the loser of the unique-constraint race also counts its listing NEW
CreatedByBoth(p) == {t \in Listed(p) : run[p].seen[t].status = "none"}
\* claim_new inserts unless another run did since the load
Created(p) == {t \in Listed(p) : /\ run[p].seen[t].status = "none"
                                 /\ tender[t].status = "none"}
\* the row a listing is compared with: the loaded one, or the race's winner
Base(p, t) == IF run[p].seen[t].status = "none" THEN ReadOf(tender[t])
                                                ELSE run[p].seen[t]
\* _maybe_update: a material change of a tender that is not terminal
Changed(p) == {t \in Listed(p) \ Created(p) :
                 /\ run[p].found[t] # Base(p, t).version
                 /\ Base(p, t).status \notin Terminal}

\* mutants: the update leaves the status, or is not stored
UpdatedQuietly(p, t) == [tender[t] EXCEPT !.version = run[p].found[t],
                                          !.is_update = TRUE]
UpdatedStatusOnly(p, t) == [tender[t] EXCEPT !.is_update = TRUE, !.status = "updated"]
\* apply_update; the ORM writes the status only where it differs from the load
Updated(p, t) ==
  [tender[t] EXCEPT !.version = run[p].found[t], !.is_update = TRUE,
                    !.status = IF Base(p, t).status = "updated" THEN @ ELSE "updated"]

\* the dedup transaction classifies every listing and commits
Dedup(p) ==
  /\ run[p].stage = "dedup"
  /\ tender' = [t \in Tenders |->
       IF t \in Created(p)
       THEN [NoRow EXCEPT !.status = "new", !.version = run[p].found[t],
               !.born = Cardinality({u \in Tenders : tender[u].status # "none"})]
       ELSE IF t \in Changed(p) THEN Updated(p, t) ELSE tender[t]]
  /\ Goes(p, [run[p] EXCEPT !.stage = "select", !.new = Created(p),
                            !.updates = Changed(p),
                            !.found = [t \in Tenders |-> IF t \in Created(p) \cup Changed(p)
                                                        THEN @[t] ELSE 0],
                            !.seen = NoRun.seen])
  /\ UNCHANGED <<site, overdue, outbox, report, budget>>

\* rows list_unprocessed may return, oldest first
Unprocessed == {t \in Tenders : tender[t].status = "new" /\ t \notin overdue}
Older(t, u) == \/ tender[t].born < tender[u].born
               \/ tender[t].born = tender[u].born /\ t < u
\* mutant: nothing is recovered
RecoveredNone == {}
Recovered == {t \in Unprocessed :
                Cardinality({u \in Unprocessed : Older(u, t)}) < RecoveryLimit}

\* _resolve_work and _recover_unprocessed decide what the run works on
Select(p) ==
  LET work == run[p].new \cup run[p].updates \cup Recovered IN
  /\ run[p].stage = "select"
  /\ Goes(p, IF work = {}
             THEN [run[p] EXCEPT !.stage = "finish"]
             ELSE [run[p] EXCEPT !.stage = "detail", !.todo = work])
  /\ UNCHANGED <<site, overdue, tender, outbox, report, budget>>

\* a database error there escapes the stages: the run ends where it is
BreakRun(p) ==
  /\ run[p].stage = "select"
  /\ Spend("fault")
  /\ Goes(p, [run[p] EXCEPT !.stage = "finish", !.broken = TRUE])
  /\ UNCHANGED <<site, overdue, tender, outbox, report>>

\* run_existing_tender: an operator reprocesses one tender
StartManual(p, t) ==
  /\ run[p].stage = "idle"
  /\ tender[t].status \notin {"none"} \cup Terminal
  /\ Spend("manual")
  /\ Goes(p, [NoRun EXCEPT !.stage = "detail", !.manual = TRUE, !.todo = {t},
                           !.updates = IF tender[t].is_update THEN {t} ELSE {}])
  /\ report' = [report EXCEPT ![p] = "running"]
  /\ UNCHANGED <<site, overdue, tender, outbox>>

-----------------------------------------------------------------------------
(* Detail pages, triage, verdict and notification of the work set *)

\* the detail pages are read, with failures of single items; acquisition and
\* processing follow (Intake)
ReadDetails(p) ==
  /\ run[p].stage = "detail"
  /\ Goes(p, [run[p] EXCEPT !.stage = "triage"])
  /\ UNCHANGED <<site, overdue, tender, outbox, report, budget>>

\* a triage decision is committed; the status of the tender stays as it is
Triage(p) ==
  \E t \in run[p].todo, decision \in {"passed", "triage_discarded", "failed"} :
    /\ run[p].stage = "triage"
    /\ IF decision = "failed"
       THEN Spend("triage")
       ELSE decision = (IF t \in Irrelevant THEN "triage_discarded" ELSE "passed")
            /\ UNCHANGED budget
    /\ tender' = [tender EXCEPT ![t].triage = decision]
    /\ Goes(p, [run[p] EXCEPT !.todo = @ \ {t},
                  !.passed = IF decision = "passed" THEN @ \cup {t} ELSE @])
    /\ UNCHANGED <<site, overdue, outbox, report>>

\* a stage has gone through its items and the next one begins
NextStage(p) ==
  LET r == run[p] IN
  /\ r.todo = {}
  /\ \/ /\ r.stage = "triage"
        /\ Goes(p, [r EXCEPT !.stage = "verdict", !.todo = r.passed, !.passed = {}])
     \/ /\ r.stage = "verdict"
        /\ Goes(p, [r EXCEPT !.stage = "notification",
                      !.todo = {t \in Tenders : r.available[t] > 0} \cup r.unavailable])
     \/ /\ r.stage = "notification"
        /\ Goes(p, [r EXCEPT !.stage = "finish"])
  /\ UNCHANGED <<site, overdue, tender, outbox, report, budget>>

\* VerdictEngine.generate reads the row and the latest triage result
BeginVerdict(p) ==
  \E t \in run[p].todo :
    LET r == [run[p] EXCEPT !.todo = @ \ {t}] IN
    /\ run[p].stage = "verdict"
    /\ Goes(p, IF tender[t].triage = "passed"
               THEN [r EXCEPT !.stage = "thinking", !.at = t, !.seen[t] = ReadOf(tender[t])]
               ELSE [r EXCEPT !.unavailable = @ \cup {t}])
    /\ UNCHANGED <<site, overdue, tender, outbox, report, budget>>

\* a status the engine sets reaches the row where it differs from the load
Set(p, status) == LET t == run[p].at IN
                  IF run[p].seen[t].status = status THEN tender[t].status ELSE status

\* a verdict row is committed and the tender is processed
VerdictAvailable(p) ==
  LET r == run[p]  t == r.at  number == tender[t].verdict + 1 IN
  /\ r.stage = "thinking"
  /\ tender' = [tender EXCEPT ![t] = [@ EXCEPT !.status = Set(p, "processed"),
                     !.verdict = number, !.assessed = r.seen[t].version]]
  /\ Goes(p, [r EXCEPT !.stage = "verdict", !.available[t] = number,
                       !.seen = NoRun.seen, !.at = 1])
  /\ UNCHANGED <<site, overdue, outbox, report, budget>>

\* no verdict: the tender waits or has failed, or the transaction rolls back
VerdictUnavailable(p) ==
  LET r == run[p]  t == r.at IN
  /\ r.stage = "thinking"
  /\ Spend("verdict")
  /\ \E status \in {"verdict_failed", "awaiting_budget", "awaiting_approved_provider",
                     tender[t].status} :
       tender' = [tender EXCEPT ![t].status = Set(p, status)]
  /\ Goes(p, [r EXCEPT !.stage = "verdict", !.unavailable = @ \cup {t},
                       !.seen = NoRun.seen, !.at = 1])
  /\ UNCHANGED <<site, overdue, outbox, report>>

\* the provenance gate: a run mails what its own dedup called new or updated
Known(p, t) == run[p].manual \/ t \in run[p].new \cup run[p].updates

\* mutant: a failed verdict is logged and not reported
NoticesNone(p, t) == {}
\* a raw notice is refused for a tender that has a verdict
Notices(p, t) ==
  IF tender[t].verdict = 0
  THEN {[tender |-> t, verdict |-> 0, kind |-> "raw", manual |-> FALSE, version |-> 0]}
  ELSE {}
\* the notification of an available verdict
Mails(p, t) ==
  IF Known(p, t)
  THEN {[tender |-> t, verdict |-> run[p].available[t], manual |-> run[p].manual,
         kind |-> IF t \in run[p].updates THEN "update" ELSE "new",
         version |-> run[p].found[t]]}
  ELSE {}

\* _stage_notifications, one event: a message gets its durable row, once
Notify(p) ==
  \E t \in run[p].todo :
    /\ run[p].stage = "notification"
    /\ outbox' = outbox \cup (IF t \in run[p].unavailable THEN Notices(p, t)
                                                         ELSE Mails(p, t))
    /\ Goes(p, [run[p] EXCEPT !.todo = @ \ {t}])
    /\ UNCHANGED <<site, overdue, tender, report, budget>>

\* the dispatcher raises before the row is there; the run goes on
LoseMail(p) ==
  \E t \in run[p].todo :
    /\ run[p].stage = "notification"
    /\ Spend("mail")
    /\ Goes(p, [run[p] EXCEPT !.todo = @ \ {t}])
    /\ UNCHANGED <<site, overdue, tender, outbox, report>>

\* _finalize_run: the status comes from the outcomes of the stages alone
Finish(p) ==
  /\ run[p].stage = "finish"
  /\ report' = [report EXCEPT ![p] = IF run[p].failed THEN "errored" ELSE "completed"]
  /\ Goes(p, NoRun)
  /\ UNCHANGED <<site, overdue, tender, outbox, budget>>

\* what the run held in memory is gone and its row stays RUNNING
Crash(p) ==
  /\ run[p].stage # "idle"
  /\ Spend("crash")
  /\ Goes(p, NoRun)
  /\ UNCHANGED <<site, overdue, tender, outbox, report>>

-----------------------------------------------------------------------------
(* The environment *)

\* a listing appears, or its material content changes
Publish(t) ==
  /\ site[t] < MaxVersion
  /\ site' = [site EXCEPT ![t] = @ + 1]
  /\ UNCHANGED <<overdue, tender, run, outbox, report, budget>>

Expire(t) ==
  /\ t \notin overdue /\ Spend("expire")
  /\ overdue' = overdue \cup {t}
  /\ UNCHANGED <<site, tender, run, outbox, report>>

-----------------------------------------------------------------------------
\* the steps of a pass that goes well
Pass(p) == \/ StartRun(p) \/ LoadSeen(p) \/ Dedup(p) \/ Select(p) \/ ReadDetails(p)
           \/ Triage(p) \/ NextStage(p) \/ BeginVerdict(p) \/ VerdictAvailable(p) \/ Notify(p)
           \/ Finish(p)

Next == \/ \E p \in Processes :
             \/ Pass(p) \/ FailStage(p) \/ BreakRun(p) \/ VerdictUnavailable(p)
             \/ LoseMail(p) \/ Crash(p)
             \/ \E t \in Tenders : StartManual(p, t)
        \/ \E t \in Tenders : Publish(t) \/ Expire(t)

Spec == Init /\ [][Next]_vars

\* the scheduler makes passes again and again, and a pass is carried on
FairSpec == Spec /\ \A p \in Processes : WF_vars(Pass(p))
-----------------------------------------------------------------------------
(* Properties *)

\* Every variable stays within its type.
TypeOK ==
  /\ site \in [Tenders -> 0..MaxVersion]
  /\ overdue \in SUBSET Tenders
  /\ tender \in [Tenders -> Row]
  /\ run \in [Processes -> Run]
  /\ outbox \in SUBSET Message
  /\ report \in [Processes -> {"none", "running", "completed", "errored"}]
  /\ budget \in 0..MaxAdverse

\* However many processes run the source and whenever they crash, a tender is
\* mailed as new at most once by the crawls (claim_new's unique constraint and
\* the provenance gate of _stage_notifications against recovered tenders).
NewMailedOnce ==
  \A m, n \in outbox : /\ m.tender = n.tender /\ m.kind = "new" /\ n.kind = "new"
                       /\ ~m.manual /\ ~n.manual
                       => m = n

\* The crawls mail one version of a listing at most once (docs/04 4.7: re-running
\* a crawl never sends a duplicate notification).
VersionMailedOnce ==
  \A m, n \in outbox : /\ m.tender = n.tender /\ m.version = n.version
                       /\ m.kind # "raw" /\ n.kind # "raw" /\ ~m.manual /\ ~n.manual
                       => m = n

\* When a run ends, every tender whose verdict was unavailable, and that never
\* had one, has its raw notice (_stage_notifications: so nothing is lost).
FailedVerdictIsReported ==
  \A p \in Processes : run[p].stage = "finish" =>
    \A t \in run[p].unavailable :
      tender[t].verdict > 0 \/ \E m \in outbox : m.tender = t /\ m.kind = "raw"

\* A tender is processed only if it has been assessed in the version stored: a
\* change takes it out of the processed tenders until its new verdict, whatever
\* happens to the run that saw it (apply_update against VerdictEngine.generate).
ProcessedIsAssessed ==
  \A t \in Tenders : tender[t].status = "processed" => tender[t].assessed = tender[t].version

Biddable(t) == t \notin Irrelevant \cup overdue
\* A biddable, relevant tender that was stored gets a verdict or fails, whatever
\* run was interrupted (_recover_unprocessed).
StrandedIsAssessed ==
  \A t \in Tenders : tender[t].status = "new" /\ Biddable(t)
                     ~> (tender[t].status # "new" \/ ~Biddable(t))
-----------------------------------------------------------------------------
(* Promises the code does not keep today (README, known disagreements) *)

\* When a run ends, every verdict it produced has its message
\* (_recover_unprocessed: a stranded tender is emailed after all).
VerdictIsMailed ==
  \A p \in Processes : run[p].stage = "finish" =>
    \A t \in Tenders : run[p].available[t] > 0 =>
      \E m \in outbox : m.tender = t /\ m.verdict = run[p].available[t]

\* A run that broke off in the middle is not recorded as completed
\* (_run_status: not COMPLETED merely because it finished).
BrokenRunIsNotCompleted ==
  [][\A p \in Processes : run[p].broken => report'[p] # "completed"]_vars

\* The same for a changed tender (docs/14 FH1: a crash loses no seen tender).
UpdateIsAssessed ==
  \A t \in Tenders : tender[t].status = "updated" /\ Biddable(t)
                     ~> (tender[t].status # "updated" \/ ~Biddable(t))
\* A tender queued for budget is taken up again (status.py: budget restored, run
\* resumes).
QueuedIsResumed ==
  \A t \in Tenders : tender[t].status = "awaiting_budget"
                     ~> tender[t].status # "awaiting_budget"
\* A tender whose verdict failed stays so (docs/13 O21): an engine that loaded it
\* before another process's failure sets it to processed.
TerminalIsFinal ==
  [][\A t \in Tenders : tender[t].status \in Terminal => tender'[t].status \in Terminal]_vars
=============================================================================
