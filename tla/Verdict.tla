-------------------------------- MODULE Verdict --------------------------------
(***************************************************************************)
(* The assessment of a tender by the verdict engine (verdict/service.py),  *)
(* as the handoff of verdict/runtime.py runs it: one generation is one     *)
(* transaction, in which the documents are mapped when they do not fit,    *)
(* the requirements extracted and the verdict asked for, each with one     *)
(* correction, by the approved profiles of the role in their order.        *)
(*                                                                         *)
(* The worker and the admin server generate at the same time; they share   *)
(* the profiles, the monthly budget, the tenders and the alerts.           *)
(***************************************************************************)
EXTENDS Integers, FiniteSets, Sequences

CONSTANTS
  Workers,   \* processes that generate verdicts
  Tenders,
  Profiles,  \* saved LLM profiles
  None,      \* no profile, no tender
  Budget,    \* monthly_ai_budget, in units of the dearest call
  Segments,  \* segments of the documents of a tender, when they are mapped
  Assigned,  \* the assignments of the role a behaviour starts with
  Adverse,   \* the adverse events this instance of the model allows
  Scenes     \* bound: the processes that run, the events that happen at will and
             \* how many of the others happen

AdverseKinds == {"transient", "refused", "too_large", "window", "unfit", "invalid",
                 "inputs", "triage", "edit", "crash"}

ASSUME VerdictConstants ==
  /\ IsFiniteSet(Workers) /\ None \notin Profiles /\ None \notin Tenders
  /\ Budget \in Nat /\ Segments \in Nat \ {0}
  /\ Assigned \subseteq [primary : Profiles \cup {None}, fallback : Profiles \cup {None}]
  /\ Adverse \subseteq AdverseKinds
  /\ Scenes \subseteq [active : SUBSET Workers, free : SUBSET AdverseKinds, adverse : Nat]

VARIABLES
  tender,   \* tender and triage rows
  profile,  \* profile rows
  role,     \* the assignment of the verdict role
  spent,    \* estimated cost of this month's committed calls
  alerts,   \* open alert rows
  job,      \* the generation of each process, its uncommitted writes included
  scene,    \* the scene that is played
  budget    \* adverse events left

vars == <<tender, profile, role, spent, alerts, job, scene, budget>>

Statuses == {"new", "processed", "verdict_failed", "awaiting_approved_provider",
             "awaiting_budget"}
AlertTypes == {"ai_failure", "invalid_ai_output", "budget_80_percent", "budget_100_percent"}
Alert == [type : AlertTypes, tender : Tenders]
Assignable == Profiles \cup {None}
\* the requests of a generation; a fix is the one correction of a request
Requests == {"map", "map_fix", "extract", "extract_fix", "verdict", "verdict_fix"}
\* the documents of a request: as they are, mapped, reduced once more
Payload == [request : Requests, mapped : BOOLEAN, reduced : BOOLEAN]
Attempts == 3
Job == [stage : Requests \cup {"idle", "commit"}, tender : Tenders \cup {None},
        rows : [Profiles -> [active : BOOLEAN, approved : BOOLEAN]],
        primary : Assignable, fallback : Assignable, queue : Seq(Profiles),
        tries : 0..Attempts - 1, segment : 1..Segments, mapped : BOOLEAN, reduced : BOOLEAN,
        refused : SUBSET [profile : Profiles, payload : Payload], cost : Nat,
        loaded : Statuses, status : Statuses, alerts : SUBSET Alert, verdict : BOOLEAN]
NoRows == [p \in Profiles |-> [active |-> FALSE, approved |-> FALSE]]
NoJob == [stage |-> "idle", tender |-> None, rows |-> NoRows, primary |-> None,
          fallback |-> None, queue |-> <<>>, tries |-> 0, segment |-> 1, mapped |-> FALSE,
          reduced |-> FALSE, refused |-> {}, cost |-> 0, loaded |-> "new", status |-> "new",
          alerts |-> {}, verdict |-> FALSE]

Init ==
  /\ tender = [t \in Tenders |-> [status |-> "new", passed |-> TRUE, assessed |-> FALSE]]
  /\ profile = [p \in Profiles |-> [active |-> TRUE, approved |-> TRUE]]
  /\ role \in Assigned
  /\ spent = 0 /\ alerts = {}
  /\ job = [w \in Workers |-> NoJob]
  /\ scene \in Scenes
  /\ budget = scene.adverse

Spend(kind) == /\ kind \in Adverse
               /\ IF kind \in scene.free THEN UNCHANGED budget
                  ELSE budget > 0 /\ budget' = budget - 1

\* process w goes on with generation j
Goes(w, j) == job' = [job EXCEPT ![w] = j]

-----------------------------------------------------------------------------
(* Outcomes of a generation, kept in the transaction until it commits *)

\* AlertManager.trigger: an open alert of the tender absorbs the next one
Alerted(j, types) ==
  [j EXCEPT !.alerts = @ \cup {[type |-> y, tender |-> j.tender] : y \in types}]
\* _failure
Failed(j) == [Alerted(j, {"ai_failure"}) EXCEPT !.stage = "commit", !.queue = <<>>,
                                                !.status = "verdict_failed"]
Unapproved(j) == [j EXCEPT !.stage = "commit", !.status = "awaiting_approved_provider"]
Recorded(j) == [j EXCEPT !.stage = "commit", !.queue = <<>>, !.status = "processed",
                         !.verdict = TRUE]

Usable(j, p) == p # None /\ j.rows[p].active /\ j.rows[p].approved
\* mutant: the approval of the fallback is not tested
CandidatesActive(j, request) ==
  LET second == IF request \in {"map", "map_fix"} THEN None ELSE j.fallback IN
  (IF Usable(j, j.primary) THEN <<j.primary>> ELSE <<>>) \o
  (IF second # None /\ second # j.primary /\ j.rows[second].active THEN <<second>> ELSE <<>>)
\* the candidates of _invoke_with_policy; mapping has no fallback
Candidates(j, request) ==
  LET second == IF request \in {"map", "map_fix"} THEN None ELSE j.fallback IN
  (IF Usable(j, j.primary) THEN <<j.primary>> ELSE <<>>) \o
  (IF second # j.primary /\ Usable(j, second) THEN <<second>> ELSE <<>>)
\* generation j turns to its next request
Asks(j, request) == [j EXCEPT !.stage = request, !.queue = Candidates(j, request), !.tries = 0]

-----------------------------------------------------------------------------
(* VerdictEngine.generate up to its first request *)

\* mutant: the budget gate lets the last call through
WithinBudgetOrEqual == spent <= Budget
\* _within_budget
WithinBudget == spent < Budget
\* the warning share is a configuration, 0.8 by default
Warned == IF spent * 10 >= Budget * 8 THEN {"budget_80_percent"} ELSE {}

\* the generation of a tender whose profiles and budget allow it: the documents
\* are mapped first when they exceed the context window
Opened(j) == {Asks(j, "map"), Asks(j, "extract")}

\* the gates of generate, in their order; the profile rows are read once
Begun(t) ==
  LET rows == profile
      j0 == [NoJob EXCEPT !.tender = t, !.rows = rows, !.fallback = role.fallback,
                          !.loaded = tender[t].status, !.status = tender[t].status]
      first == IF Usable(j0, role.primary) THEN role.primary ELSE role.fallback
      j == Alerted([j0 EXCEPT !.primary = first], Warned)
  IN  IF ~tender[t].passed THEN {[j0 EXCEPT !.stage = "commit"]}
      ELSE IF ~Usable(j0, first) THEN {Unapproved(j0)}
      ELSE IF ~WithinBudget
      THEN {[Alerted(j, {"budget_100_percent"}) EXCEPT !.stage = "commit",
                                                      !.status = "awaiting_budget"]}
      ELSE Opened(j)

\* tenders that failed are not taken up again; one that is processed may be, by hand
Begin(w, t) ==
  /\ w \in scene.active /\ job[w].stage = "idle" /\ tender[t].status # "verdict_failed"
  /\ \E j \in Begun(t) : Goes(w, j)
  /\ UNCHANGED <<tender, profile, role, spent, alerts, budget>>

\* no bundle, no knowledge base, no document with content
InputsMissing(w, t) ==
  /\ w \in scene.active /\ job[w].stage = "idle" /\ tender[t].status # "verdict_failed"
  /\ Spend("inputs")
  /\ \E j \in Begun(t) : j.stage \in Requests /\ Goes(w, Failed(j))
  /\ UNCHANGED <<tender, profile, role, spent, alerts>>

-----------------------------------------------------------------------------
(* Requests: _invoke_with_policy and what generate does with its answers *)

Calling(w) == job[w].stage \in Requests /\ job[w].queue # <<>>
Caller(w) == Head(job[w].queue)
Sent(j) == [request |-> j.stage, mapped |-> j.mapped, reduced |-> j.reduced]

\* the request after a valid answer by profile p; it is the first choice from now on
Accepted(j, p) ==
  IF j.stage \in {"map", "map_fix"}
  THEN IF j.segment < Segments THEN Asks([j EXCEPT !.segment = @ + 1], "map")
       ELSE Asks([j EXCEPT !.mapped = TRUE], "extract")
  ELSE IF j.stage \in {"extract", "extract_fix"} THEN Asks([j EXCEPT !.primary = p], "verdict")
  ELSE Recorded(j)

\* after an invalid one: each request is corrected once, by the profile that answered
Corrected(j, p) ==
  IF j.stage = "map" THEN Asks(j, "map_fix")
  ELSE IF j.stage = "extract" THEN Asks([j EXCEPT !.primary = p], "extract_fix")
  ELSE IF j.stage = "verdict" THEN Asks([j EXCEPT !.primary = p], "verdict_fix")
  ELSE IF j.stage = "verdict_fix" THEN Failed(Alerted(j, {"invalid_ai_output"}))
  ELSE Failed(j)

\* _record_call of a success; the provider may report no usage to cost
Paid(j, cost) == [j EXCEPT !.cost = @ + cost]

Answer(w) ==
  /\ Calling(w)
  /\ \E cost \in {0, 1} : Goes(w, Accepted(Paid(job[w], cost), Caller(w)))
  /\ UNCHANGED <<tender, profile, role, spent, alerts, budget>>

AnswerInvalid(w) ==
  /\ Calling(w) /\ Spend("invalid")
  /\ \E cost \in {0, 1} : Goes(w, Corrected(Paid(job[w], cost), Caller(w)))
  /\ UNCHANGED <<tender, profile, role, spent, alerts>>

\* a truncated map answer, or one that cites what it was not given; a reply whose
\* next request fits no window; a map over its byte bound
Unfit(w) ==
  /\ Calling(w) /\ Spend("unfit")
  /\ job[w].stage \in {"map", "map_fix", "extract", "extract_fix"}
  /\ \E cost \in {0, 1} : Goes(w, Failed(Paid(job[w], cost)))
  /\ UNCHANGED <<tender, profile, role, spent, alerts>>

\* mutant: after the last candidate the first is asked again
PassedAround(j) == IF Len(j.queue) = 1 THEN Asks(j, j.stage)
                   ELSE [j EXCEPT !.queue = Tail(@), !.tries = 0]
\* the next candidate; without one the generation fails
Passed(j) == IF Len(j.queue) = 1 THEN Failed(j)
             ELSE [j EXCEPT !.queue = Tail(@), !.tries = 0]

\* timeouts, 429 and 5xx: three attempts for each candidate
CallTransient(w) ==
  /\ Calling(w) /\ Spend("transient")
  /\ Goes(w, IF job[w].tries < Attempts - 1 THEN [job[w] EXCEPT !.tries = @ + 1]
             ELSE Passed(job[w]))
  /\ UNCHANGED <<tender, profile, role, spent, alerts>>

\* a rejection that is not tried again, or no room for an answer (and no call)
CallRefused(w) ==
  /\ Calling(w) /\ (Spend("refused") \/ Spend("window"))
  /\ Goes(w, Passed(job[w]))
  /\ UNCHANGED <<tender, profile, role, spent, alerts>>

\* mutant: a verdict payload that could not be reduced is sent once more
ShrunkBlindly(j, p, smaller) ==
  IF j.stage = "extract" /\ ~j.mapped THEN Asks([j EXCEPT !.primary = p], "map")
  ELSE IF j.stage = "verdict" /\ ~j.reduced THEN Asks([j EXCEPT !.reduced = smaller], "verdict")
  ELSE Failed(j)
\* provider_payload_too_large: the extraction is repeated with mapped documents,
\* the verdict once with reduced ones, when they got smaller; nothing else is
Shrunk(j, p, smaller) ==
  IF j.stage = "extract" /\ ~j.mapped THEN Asks([j EXCEPT !.primary = p], "map")
  ELSE IF j.stage = "verdict" /\ ~j.reduced /\ smaller
  THEN Asks([j EXCEPT !.reduced = TRUE], "verdict")
  ELSE Failed(j)

CallTooLarge(w) ==
  /\ Calling(w) /\ Spend("too_large")
  /\ \E smaller \in BOOLEAN :
       Goes(w, [Shrunk(job[w], Caller(w), smaller) EXCEPT
                  !.refused = @ \cup {[profile |-> Caller(w), payload |-> Sent(job[w])]}])
  /\ UNCHANGED <<tender, profile, role, spent, alerts>>

-----------------------------------------------------------------------------
(* The handoff's commit, and what happens around a generation *)

\* mutant: a failure is reported before its transaction, which is rolled back
CommitUnreported(w) ==
  LET j == job[w] IN
  /\ j.stage = "commit"
  /\ tender' = [tender EXCEPT ![j.tender].status = IF j.status = j.loaded THEN @ ELSE j.status,
                              ![j.tender].assessed = @ \/ j.verdict]
  /\ spent' = spent + j.cost
  /\ alerts' = IF j.status = "verdict_failed" THEN alerts ELSE alerts \cup j.alerts
  /\ Goes(w, NoJob)
  /\ UNCHANGED <<profile, role, budget>>
\* a status that is what the transaction read is not written
Commit(w) ==
  LET j == job[w] IN
  /\ j.stage = "commit"
  /\ tender' = [tender EXCEPT ![j.tender].status = IF j.status = j.loaded THEN @ ELSE j.status,
                              ![j.tender].assessed = @ \/ j.verdict]
  /\ spent' = spent + j.cost
  /\ alerts' = alerts \cup j.alerts
  /\ Goes(w, NoJob)
  /\ UNCHANGED <<profile, role, budget>>

\* nothing of the transaction is kept, the record of its calls included
Crash(w) ==
  /\ job[w].stage # "idle" /\ Spend("crash")
  /\ Goes(w, NoJob)
  /\ UNCHANGED <<tender, profile, role, spent, alerts>>

\* an administrator edits a profile
EditProfile(p) ==
  /\ Spend("edit")
  /\ \E row \in [active : BOOLEAN, approved : BOOLEAN] :
       row # profile[p] /\ profile' = [profile EXCEPT ![p] = row]
  /\ UNCHANGED <<tender, role, spent, alerts, job>>

\* or assigns the role
AssignRole ==
  /\ Spend("edit")
  /\ \E p \in Profiles, q \in Assignable : role' = [primary |-> p, fallback |-> q]
  /\ UNCHANGED <<tender, profile, spent, alerts, job>>

\* a later triage of the tender does not pass
Retriage(t) ==
  /\ tender[t].passed /\ Spend("triage")
  /\ tender' = [tender EXCEPT ![t].passed = FALSE]
  /\ UNCHANGED <<profile, role, spent, alerts, job>>

Step(w) == Answer(w) \/ AnswerInvalid(w) \/ Unfit(w) \/ CallTransient(w)
           \/ CallRefused(w) \/ CallTooLarge(w) \/ Commit(w)

Next ==
  /\ \/ \E w \in Workers :
          Step(w) \/ Crash(w) \/ \E t \in Tenders : Begin(w, t) \/ InputsMissing(w, t)
     \/ \E p \in Profiles : EditProfile(p)
     \/ \E t \in Tenders : Retriage(t)
     \/ AssignRole
  /\ UNCHANGED scene

\* every call is answered or fails within its timeout, and the handoff commits
Fairness == \A w \in Workers : WF_vars(Step(w) /\ UNCHANGED scene)
Spec == Init /\ [][Next]_vars /\ Fairness
-----------------------------------------------------------------------------
(* Properties *)

\* Every variable stays within its type.
TypeOK ==
  /\ tender \in [Tenders -> [status : Statuses, passed : BOOLEAN, assessed : BOOLEAN]]
  /\ profile \in [Profiles -> [active : BOOLEAN, approved : BOOLEAN]]
  /\ role \in [primary : Assignable, fallback : Assignable]
  /\ spent \in Nat /\ alerts \in SUBSET Alert
  /\ job \in [Workers -> Job]
  /\ scene \in Scenes /\ budget \in Nat

\* The calls one generation can be charged for: extraction and verdict with their
\* corrections, and two for each segment
MostCost == 4 + 2 * Segments
\* The generations that may still be charged for calls, or have not committed them
Charging == {w \in Workers : job[w].stage \in Requests \/ job[w].cost > 0}
\* The budget is tested once, before the first call, and the cost of a generation
\* shows only when it commits: no generation pays for more than MostCost calls, and
\* if each open one still pays for all of them, the processes that generate at the
\* same time exceed the budget by less than one generation each (_within_budget).
OverspendBounded ==
  /\ \A w \in Workers : job[w].cost <= MostCost
  /\ scene.active # {} =>
       spent + MostCost * Cardinality(Charging) < Budget + MostCost * Cardinality(scene.active)

\* Tender documents and the knowledge base go to profiles that were active and
\* approved for company documents when the generation read them, through every
\* retry, fallback, correction and repetition (_invoke_with_policy).
DocumentsStayApproved ==
  \A w \in Workers : Calling(w) => job[w].rows[Caller(w)] = [active |-> TRUE, approved |-> TRUE]

\* A payload that a provider rejected as too large is never sent to it again
\* unchanged, through mapping, reduction and fallback (DETERMINISTIC_ERRORS).
RejectedPayloadNotRepeated ==
  \A w \in Workers : Calling(w) =>
    [profile |-> Caller(w), payload |-> Sent(job[w])] \notin job[w].refused

\* A tender whose verdict failed has its alert, whichever of two overlapping
\* generations committed last and whatever crashed in between (_failure).
FailureIsVisible ==
  \A t \in Tenders : tender[t].status = "verdict_failed" =>
    [type |-> "ai_failure", tender |-> t] \in alerts

\* A generation comes to an end: no answer, rejection or fallback makes it map,
\* reduce or correct for ever (generate).
GenerationEnds == \A w \in Workers : job[w].stage # "idle" ~> job[w].stage = "idle"

-----------------------------------------------------------------------------
(* Promises the code does not keep today (README, known disagreements) *)

\* A profile whose approval is withdrawn gets no more documents (docs/07: a
\* provider that is not approved is never sent company documents).
WithdrawnGetsNothing ==
  \A w \in Workers : Calling(w) => profile[Caller(w)].approved

\* The generation that records a verdict leaves the tender processed (_failure
\* and generate move the status); a status equal to the one read is not written.
NewVerdictIsProcessed ==
  [][\A w \in Workers : job[w].stage = "commit" /\ job[w].verdict /\ spent' # spent
       => tender'[job[w].tender].status = "processed"]_vars
=============================================================================
