------------------------------- MODULE Outbox -------------------------------
(***************************************************************************)
(* The durable notification outbox: notifications/service.py driving       *)
(* db/repositories/notifications.py.  Several service instances (the       *)
(* scheduled worker, the Admin scheduler and the Admin's manual runs) share *)
(* one database.  Each is sequential (its delivery lock), so an instance   *)
(* is one process of this model; every database transaction is one step.   *)
(*                                                                         *)
(* A recipient set is abstracted to the list it comes from: "dev" or       *)
(* "tender"; "none" is the empty selection.  Time is abstracted to "the    *)
(* lease of this row has run out" and "this row is due".  A claim token (a *)
(* fresh uuid) is abstracted to the instance that drew it: an instance     *)
(* holds at most one token per row, and a crash forgets it.                *)
(***************************************************************************)
EXTENDS Integers, FiniteSets

CONSTANTS
  Workers,       \* service instances
  Notices,       \* what is notified: a (tender, verdict) pair, or a raw notice
  RawNotices,    \* the notices without a verdict (v1.1 5.6)
  Updates,       \* the UPDATE notices (priority 200, every other kind is 100)
  RowIds,        \* ids of notification_log, in creation order (a bound)
  NoWorker,      \* the NULL claim token
  NoNotice,      \* the notice of a row that does not exist yet
  FlushLimit,    \* flush_pending_retry(limit)
  MaxTries,      \* bound: provider attempts in one walk of the chain
  MaxAttempts,   \* bound: attempt_count saturates here
  Adverse,       \* the adverse events this instance of the model allows
  MaxAdverse,    \* bound: how many of them happen
  InitConfigs    \* the settings the run may start from

AdverseKinds == {"crash", "slow", "fault", "reject", "timeout", "down",
                 "mode", "recipients", "requeue"}

\* MAX_AMBIGUOUS_AUTOMATIC_SENDS
MaxAmbiguous == 2

ASSUME OutboxConstants ==
  /\ RawNotices \subseteq Notices /\ Updates \subseteq Notices
  /\ RowIds \subseteq Nat /\ IsFiniteSet(RowIds)
  /\ NoWorker \notin Workers /\ NoNotice \notin Notices
  /\ FlushLimit \in Nat \ {0} /\ MaxTries \in Nat \ {0}
  /\ MaxAttempts \in Nat /\ MaxAttempts > MaxAmbiguous
  /\ Adverse \subseteq AdverseKinds /\ MaxAdverse \in Nat
  /\ InitConfigs \subseteq [testMode : BOOLEAN, dev : BOOLEAN, biz : BOOLEAN]

Routes == {"dev", "tender"}
RouteOrNone == Routes \cup {"none"}
Statuses == {"absent", "pending", "sending", "pending_retry", "sent",
             "possible_duplicate"}
Stages == {"idle", "prepared", "reserved", "recovering", "flushing", "claimed",
           "revalidated", "ready", "sending", "delivered", "failed",
           "clearing"}

VARIABLES
  rows,     \* notification_log
  config,   \* Setting.test_mode, and which recipient lists have an active member
  banner,   \* the open email_chain_down AlertEvent
  pc,       \* where each instance is
  job,      \* the locals of each instance
  mail,     \* what providers accepted for each row (environment, history)
  lateBiz,  \* business requests of each instance since Test Mode went ON (history)
  budget    \* adverse events left

vars == <<rows, config, banner, pc, job, mail, lateBiz, budget>>
env == <<mail, lateBiz, config, budget>>

Row == [notice : Notices \cup {NoNotice}, key : RouteOrNone, to : RouteOrNone,
        status : Statuses, token : Workers \cup {NoWorker},
        lease : {"none", "live", "expired"}, due : BOOLEAN,
        attempts : 0..MaxAttempts, flag : BOOLEAN, released : BOOLEAN]
\* sel is the selection that is checked, to the one the message is addressed to;
\* stale and counts are the rows a recovery has read, with their attempts
Job == [mode : {"live", "flush"}, notice : Notices \cup {NoNotice},
        row : RowIds \cup {-1}, sel : RouteOrNone, to : RouteOrNone,
        amb : BOOLEAN,
        tries : 0..MaxTries, batch : SUBSET RowIds, flushed : BOOLEAN,
        stale : SUBSET RowIds, counts : [RowIds -> 0..MaxAttempts]]

AbsentRow == [notice |-> NoNotice, key |-> "none", to |-> "none",
              status |-> "absent", token |-> NoWorker, lease |-> "none",
              due |-> FALSE, attempts |-> 0, flag |-> FALSE,
              released |-> FALSE]
NoJob == [mode |-> "live", notice |-> NoNotice, row |-> -1, sel |-> "none",
          to |-> "none", amb |-> FALSE, tries |-> 0, batch |-> {}, flushed |-> FALSE,
          stale |-> {}, counts |-> [r \in RowIds |-> 0]]

-----------------------------------------------------------------------------
(* Reads *)

\* mutant: a raw notice is routed like a business notification
RecipientsByMode(n, c) == IF c.testMode THEN IF c.dev THEN "dev" ELSE "none"
                                        ELSE IF c.biz THEN "tender" ELSE "none"
\* RecipientRouter.resolve / resolve_raw_notice, and _selection's RoutingError
Recipients(n, c) ==
  IF c.testMode \/ n \in RawNotices
  THEN IF c.dev THEN "dev" ELSE "none"
  ELSE IF c.biz THEN "tender" ELSE "none"

\* the unique index on dedupe_key: tender + verdict + recipient-set hash
KeyTaken(n, route) ==
  \E q \in RowIds : rows[q].notice = n /\ rows[q].key = route

\* order_by(priority, created_at, id)
Priority(r) == IF rows[r].notice \in Updates THEN 200 ELSE 100
Before(q, r) == \/ Priority(q) < Priority(r)
                \/ Priority(q) = Priority(r) /\ q < r

\* _recover_stale_sending: a sending row whose lease has run out
Stale(r) == rows[r].status = "sending" /\ rows[r].lease = "expired"
\* mutant: reservations that never began are not picked up again
ClaimableRetries(row) == row.status = "pending_retry" /\ row.due
\* claim_pending's selection, after the recovery
Claimable(row) == row.status \in {"pending", "pending_retry"} /\ row.due

\* mutant: begin_send without its test for "sent"
SendableAgain(r) == rows[r].status \in {"pending", "pending_retry", "sent"}
\* begin_send's tests
Sendable(r) == rows[r].status \in {"pending", "pending_retry"}

\* get_for_update + the ownership test of renew_claim / _revalidate_for_send
Owns(w, r) == rows[r].status = "sending" /\ rows[r].token = w
\* the ownership test of mark_sent and keep_pending: a NULL token passes
MayFinalize(w, r) == rows[r].token \in {NoWorker, w}

\* mutant: quarantined rows are left out
RecoverableRetries(r) == rows[r].status \in {"pending", "pending_retry"}
\* count_recoverable
Recoverable(r) ==
  rows[r].status \in {"pending", "pending_retry", "possible_duplicate"}

\* mutant: the wire-boundary check is gone
NeverUnsafe(w) == FALSE
\* _assert_test_mode_safety
Unsafe(w) == config.testMode /\ job[w].sel = "tender"

-----------------------------------------------------------------------------
(* Row updates of NotificationRepository *)

Claim(row, w) ==
  [row EXCEPT !.status = "sending", !.token = w, !.lease = "live",
              !.due = FALSE, !.attempts = IF @ < MaxAttempts THEN @ + 1 ELSE @]

\* mutant: a stale claim is taken for a clean failure
RecoveredClean(row) ==
  [row EXCEPT !.status = "pending_retry", !.token = NoWorker,
              !.lease = "none", !.due = @ \/ row.status # "pending_retry"]
\* _recover_stale_sending's write, whatever the row has become; only keep_pending
\* schedules a row for later
Recovered(row) ==
  [row EXCEPT !.status = "pending_retry", !.token = NoWorker, !.lease = "none",
              !.due = @ \/ row.status # "pending_retry", !.flag = TRUE]

\* mutant: the flag of the row is kept, the doubt of this chain is not
MarkSentForgetful(row, amb) ==
  [row EXCEPT !.status = "sent", !.token = NoWorker, !.lease = "none",
              !.due = FALSE]
MarkSent(row, amb) ==
  [row EXCEPT !.status = "sent", !.flag = @ \/ amb, !.token = NoWorker,
              !.lease = "none", !.due = FALSE]

\* mutant: quarantine one send late
KeepPendingLate(row, amb) ==
  LET flag == row.flag \/ amb
      held == flag /\ row.attempts > MaxAmbiguous
  IN [row EXCEPT !.status = IF held THEN "possible_duplicate"
                                    ELSE "pending_retry",
                 !.flag = flag, !.token = NoWorker, !.lease = "none",
                 !.due = ~held /\ row.attempts <= 1]
\* an ambiguous row that used up its automatic sends is quarantined
KeepPending(row, amb) ==
  LET flag == row.flag \/ amb
      held == flag /\ row.attempts >= MaxAmbiguous
  IN [row EXCEPT !.status = IF held THEN "possible_duplicate"
                                    ELSE "pending_retry",
                 !.flag = flag, !.token = NoWorker, !.lease = "none",
                 !.due = ~held /\ row.attempts <= 1]

\* mutants: the dedupe key, or the snapshot, keeps the stale route
ReroutedSnapshotOnly(row, route) == [row EXCEPT !.to = route]
ReroutedKeyOnly(row, route) == [row EXCEPT !.key = route]
\* _revalidate_for_send: key and snapshot follow the recipients really used
Rerouted(row, route) == [row EXCEPT !.key = route, !.to = route]

-----------------------------------------------------------------------------
Init ==
  /\ rows = [r \in RowIds |-> AbsentRow]
  /\ config \in InitConfigs
  /\ banner = FALSE
  /\ pc = [w \in Workers |-> "idle"]
  /\ job = [w \in Workers |-> NoJob]
  /\ mail = [r \in RowIds |-> [count |-> 0, reached |-> {}]]
  /\ lateBiz = [w \in Workers |-> 0]
  /\ budget = MaxAdverse

Spend(kind) == kind \in Adverse /\ budget > 0 /\ budget' = budget - 1

\* the instance is done with its row: a live send returns to its caller, a
\* flush goes on with the rest of its batch
Leave(w, delivered) ==
  IF job[w].mode = "live"
  THEN /\ pc' = [pc EXCEPT ![w] = "idle"]
       /\ job' = [job EXCEPT ![w] = NoJob]
  ELSE /\ pc' = [pc EXCEPT ![w] = "flushing"]
       /\ job' = [job EXCEPT ![w].row = -1, ![w].sel = "none", ![w].to = "none",
                             ![w].amb = FALSE, ![w].tries = 0,
                             ![w].flushed = @ \/ delivered]

\* the chain is over without a delivery this instance can still vouch for
Fail(w, amb) == /\ pc' = [pc EXCEPT ![w] = "failed"]
                /\ job' = [job EXCEPT ![w].amb = amb, ![w].tries = 0]

-----------------------------------------------------------------------------
(* notify_tender: the live path *)

\* _prepare: read the settings and the route; the selection may be empty
Prepare(w, n) ==
  /\ pc[w] = "idle"
  /\ pc' = [pc EXCEPT ![w] = "prepared"]
  /\ job' = [job EXCEPT ![w].notice = n, ![w].sel = Recipients(n, config),
                           ![w].to = Recipients(n, config)]
  /\ UNCHANGED <<rows, banner, env>>

\* _reserve, an existing row (or the winner of the IntegrityError): already_notified
AlreadyNotified(w) ==
  /\ pc[w] = "prepared"
  /\ KeyTaken(job[w].notice, job[w].sel)
  /\ Leave(w, FALSE)
  /\ UNCHANGED <<rows, banner, env>>

\* _reserve: create the pending row in its own transaction
Reserve(w) ==
  /\ pc[w] = "prepared"
  /\ ~KeyTaken(job[w].notice, job[w].sel)
  /\ \E r \in RowIds :
       /\ rows[r].status = "absent"
       /\ \A q \in RowIds : q < r => rows[q].status # "absent"
       /\ rows' = [rows EXCEPT ![r] =
                     [AbsentRow EXCEPT !.notice = job[w].notice,
                                       !.key = job[w].sel, !.to = job[w].sel,
                                       !.status = "pending"]]
       /\ job' = [job EXCEPT ![w].row = r]
  /\ pc' = [pc EXCEPT ![w] = "reserved"]
  /\ UNCHANGED <<banner, env>>

\* begin_send; a reservation without recipients fails at once
BeginSend(w) ==
  LET r == job[w].row IN
  /\ pc[w] = "reserved"
  /\ IF Sendable(r)
     THEN /\ rows' = [rows EXCEPT ![r] = Claim(rows[r], w)]
          /\ pc' = [pc EXCEPT ![w] = IF job[w].sel = "none" THEN "failed"
                                                            ELSE "claimed"]
          /\ UNCHANGED job
     ELSE /\ Leave(w, FALSE)
          /\ UNCHANGED rows
  /\ UNCHANGED <<banner, env>>

\* _deliver_and_finalize renews the lease before it builds the chain
RenewClaim(w) ==
  LET r == job[w].row IN
  /\ pc[w] = "revalidated"
  /\ IF Owns(w, r)
     THEN /\ rows' = [rows EXCEPT ![r].lease = "live"]
          /\ pc' = [pc EXCEPT ![w] = "ready"]
          /\ UNCHANGED job
     ELSE /\ Leave(w, FALSE)
          /\ UNCHANGED rows
  /\ UNCHANGED <<banner, env>>

-----------------------------------------------------------------------------
(* flush_pending_retry: the outbox path *)

\* claim_pending, _recover_stale_sending: stale claims are read without a lock
\* (a read that finds none is no step)
ReadStale(w) ==
  LET stale == {r \in RowIds : Stale(r)} IN
  /\ pc[w] = "idle" /\ stale # {}
  /\ pc' = [pc EXCEPT ![w] = "recovering"]
  /\ job' = [job EXCEPT ![w] =
       [NoJob EXCEPT !.mode = "flush", !.stale = stale,
                     !.counts = [r \in RowIds |-> IF r \in stale THEN rows[r].attempts ELSE 0]]]
  /\ UNCHANGED <<rows, banner, env>>

\* the rest of its transaction: the rows that were read are recovered by primary
\* key, whoever has claimed or settled them since, and the first FlushLimit rows
\* are claimed.  A claimed row that the session still holds (copied) counts from
\* the attempts it was read with.
\* (a flush that claims nothing changes nothing and is not a step)
ClaimPending(w) ==
  \E copied \in BOOLEAN :
    LET stale == IF pc[w] = "recovering" THEN job[w].stale ELSE {}
        recovered == [r \in RowIds |-> IF r \in stale THEN Recovered(rows[r]) ELSE rows[r]]
        claimed == {r \in RowIds :
                      /\ Claimable(recovered[r])
                      /\ Cardinality({q \in RowIds : Claimable(recovered[q]) /\ Before(q, r)})
                           < FlushLimit}
        loaded(r) == IF copied /\ r \in stale
                     THEN [recovered[r] EXCEPT !.attempts = job[w].counts[r]]
                     ELSE recovered[r]
    IN
    /\ pc[w] \in {"idle", "recovering"}
    /\ stale \cup claimed # {}
    /\ rows' = [r \in RowIds |-> IF r \in claimed THEN Claim(loaded(r), w) ELSE recovered[r]]
    /\ pc' = [pc EXCEPT ![w] = "flushing"]
    /\ job' = [job EXCEPT ![w] = [NoJob EXCEPT !.mode = "flush", !.batch = claimed]]
    /\ UNCHANGED <<banner, env>>

\* _flush_claimed up to the revalidation: the token must still be ours, a
\* business snapshot is re-routed while Test Mode is ON, an empty one is
\* routed again
OpenRow(w) ==
  /\ pc[w] = "flushing"
  /\ \E r \in job[w].batch :
       LET route == Recipients(rows[r].notice, config)
           reroute == config.testMode /\ rows[r].to = "tender"
           open(stage, to) ==
             /\ pc' = [pc EXCEPT ![w] = stage]
             /\ rows' = [rows EXCEPT ![r].to = to]
             /\ job' = [job EXCEPT ![w].batch = @ \ {r}, ![w].row = r,
                                   ![w].sel = to, ![w].to = to]
           skip == /\ job' = [job EXCEPT ![w].batch = @ \ {r}]
                   /\ UNCHANGED pc
       IN
       /\ \A q \in job[w].batch \ {r} : Before(r, q)
       /\ \/ /\ rows[r].token # w
             /\ skip /\ UNCHANGED rows
          \/ /\ rows[r].token = w /\ reroute /\ route = "none"
             /\ skip
             /\ rows' = [rows EXCEPT ![r] = KeepPending(rows[r], FALSE)]
          \/ /\ rows[r].token = w /\ reroute /\ route # "none"
             /\ open("claimed", route)
          \/ /\ rows[r].token = w /\ ~reroute /\ rows[r].to = "none"
             /\ open(IF route = "none" THEN "failed" ELSE "claimed", route)
          \/ /\ rows[r].token = w /\ ~reroute /\ rows[r].to # "none"
             /\ open("claimed", rows[r].to)
  /\ UNCHANGED <<banner, env>>

\* the closing transaction of flush_pending_retry, its reads ...
FinishFlush(w) ==
  /\ pc[w] = "flushing" /\ job[w].batch = {}
  /\ pc' = [pc EXCEPT ![w] =
              IF /\ job[w].flushed
                 /\ \A r \in RowIds : ~Recoverable(r)
                 /\ banner
              THEN "clearing" ELSE "idle"]
  /\ job' = [job EXCEPT ![w] = NoJob]
  /\ UNCHANGED <<rows, banner, env>>

\* ... and its write: resolve every open banner
ClearBanner(w) ==
  /\ pc[w] = "clearing"
  /\ banner' = FALSE
  /\ pc' = [pc EXCEPT ![w] = "idle"]
  /\ UNCHANGED <<rows, job, env>>

-----------------------------------------------------------------------------
(* Both paths: revalidation, the provider chain, finalisation *)

\* _revalidate_for_send: route again, and rewrite the dedupe key to the
\* recipients actually used.  Without a route the live path gives up; the
\* flush path empties its selection and still sends the message it composed.
\* A collision with another row's key is an IntegrityError: caught by the live
\* path, not by the flush path, which leaves the row "sending".
Revalidate(w) ==
  LET r == job[w].row
      n == rows[r].notice
      route == Recipients(n, config)
      collides == \E q \in RowIds \ {r} : rows[q].notice = n /\ rows[q].key = route
  IN
  /\ pc[w] = "claimed"
  /\ \/ /\ rows[r].token # w
        /\ Leave(w, FALSE) /\ UNCHANGED rows
     \/ /\ rows[r].token = w /\ route = "none"
        /\ IF job[w].mode = "live"
           THEN Fail(w, FALSE)
           ELSE /\ job' = [job EXCEPT ![w].sel = "none"]
                /\ pc' = [pc EXCEPT ![w] = "ready"]
        /\ UNCHANGED rows
     \/ /\ rows[r].token = w /\ route # "none" /\ collides
        /\ IF job[w].mode = "live" THEN Fail(w, FALSE) ELSE Leave(w, FALSE)
        /\ UNCHANGED rows
     \/ /\ rows[r].token = w /\ route # "none" /\ ~collides
        /\ rows' = [rows EXCEPT ![r] = Rerouted(rows[r], route)]
        /\ job' = [job EXCEPT ![w].sel = route, ![w].to = route]
        /\ pc' = [pc EXCEPT ![w] = IF job[w].mode = "live" THEN "revalidated"
                                                           ELSE "ready"]
  /\ UNCHANGED <<banner, env>>

\* _before_provider_attempt: renew the lease, then re-check Test Mode.  An
\* exception leaves ProviderChain.deliver and takes the ambiguity of earlier
\* attempts with it.
BeforeAttempt(w) ==
  LET r == job[w].row IN
  /\ pc[w] = "ready" /\ job[w].tries < MaxTries
  /\ \/ /\ ~Owns(w, r) /\ job[w].mode = "live"
        /\ Leave(w, FALSE) /\ UNCHANGED rows
     \/ /\ ~Owns(w, r) /\ job[w].mode = "flush"
        /\ Fail(w, FALSE) /\ UNCHANGED rows
     \/ /\ Owns(w, r) /\ Unsafe(w)
        /\ rows' = [rows EXCEPT ![r].lease = "live"]
        /\ Fail(w, FALSE)
     \/ /\ Owns(w, r) /\ ~Unsafe(w)
        /\ rows' = [rows EXCEPT ![r].lease = "live"]
        /\ pc' = [pc EXCEPT ![w] = "sending"]
        /\ job' = [job EXCEPT ![w].tries = @ + 1]
  /\ UNCHANGED <<banner, env>>

\* the database is unavailable at the wire boundary (OperationalError)
AttemptFault(w) ==
  /\ pc[w] = "ready" /\ job[w].tries < MaxTries
  /\ Spend("fault")
  /\ Fail(w, FALSE)
  /\ UNCHANGED <<rows, banner, config, mail, lateBiz>>

\* what the environment records when a request reaches a provider
Arrive(w, accepted) ==
  LET r == job[w].row IN
  /\ mail' = IF accepted
             THEN [mail EXCEPT ![r].count = IF @ < 2 THEN @ + 1 ELSE @,
                               ![r].reached = @ \cup {job[w].to}]
             ELSE mail
  /\ lateBiz' = IF config.testMode /\ job[w].to = "tender"
                THEN [lateBiz EXCEPT ![w] = IF @ < 2 THEN @ + 1 ELSE @]
                ELSE lateBiz

\* the provider accepts and answers
Accept(w) ==
  /\ pc[w] = "sending"
  /\ Arrive(w, TRUE)
  /\ pc' = [pc EXCEPT ![w] = "delivered"]
  /\ UNCHANGED <<rows, banner, job, config, budget>>

\* a definite failure: retry, or the next provider
Reject(w) ==
  /\ pc[w] = "sending"
  /\ Spend("reject")
  /\ Arrive(w, FALSE)
  /\ pc' = [pc EXCEPT ![w] = "ready"]
  /\ UNCHANGED <<rows, banner, job, config>>

\* no answer: the provider may have accepted the message
Timeout(w) ==
  /\ pc[w] = "sending"
  /\ Spend("timeout")
  /\ \E accepted \in BOOLEAN : Arrive(w, accepted)
  /\ pc' = [pc EXCEPT ![w] = "ready"]
  /\ job' = [job EXCEPT ![w].amb = TRUE]
  /\ UNCHANGED <<rows, banner, config>>

\* the chain is exhausted; with no attempt made, every provider was inactive,
\* behind its breaker, over its limit or misconfigured ("down")
ChainExhausted(w) ==
  /\ pc[w] = "ready"
  /\ IF job[w].tries = 0 THEN Spend("down") ELSE UNCHANGED budget
  /\ Fail(w, job[w].amb)
  /\ UNCHANGED <<rows, banner, config, mail, lateBiz>>

\* _finalize_result / _finalize_outbox_result after a delivery
FinalizeSent(w) ==
  LET r == job[w].row IN
  /\ pc[w] = "delivered"
  /\ IF MayFinalize(w, r)
     THEN rows' = [rows EXCEPT ![r] = MarkSent(rows[r], job[w].amb)]
     ELSE UNCHANGED rows
  /\ Leave(w, MayFinalize(w, r))
  /\ UNCHANGED <<banner, env>>

\* keep_pending and the red banner, in one transaction
FinalizeFailed(w) ==
  LET r == job[w].row IN
  /\ pc[w] = "failed"
  /\ IF MayFinalize(w, r)
     THEN /\ rows' = [rows EXCEPT ![r] = KeepPending(rows[r], job[w].amb)]
          /\ banner' = TRUE
     ELSE UNCHANGED <<rows, banner>>
  /\ Leave(w, FALSE)
  /\ UNCHANGED env

-----------------------------------------------------------------------------
(* The environment *)

Working == {"claimed", "revalidated", "ready", "sending", "delivered", "failed"}
Holds(w, r) == \/ r \in job[w].batch
               \/ pc[w] \in Working /\ job[w].row = r

\* a lease runs out: the holder is gone, or slower than its lease
LeaseExpires(r) ==
  /\ rows[r].status = "sending" /\ rows[r].lease = "live"
  /\ IF \E w \in Workers : Holds(w, r) /\ rows[r].token = w
     THEN Spend("slow") ELSE UNCHANGED budget
  /\ rows' = [rows EXCEPT ![r].lease = "expired"]
  /\ UNCHANGED <<config, banner, pc, job, mail, lateBiz>>

\* next_retry_at passes, or a reservation is older than a lease
BecomesDue(r) ==
  /\ rows[r].status \in {"pending", "pending_retry"} /\ ~rows[r].due
  /\ rows' = [rows EXCEPT ![r].due = TRUE]
  /\ UNCHANGED <<config, banner, pc, job, mail, lateBiz, budget>>

\* the process dies: its locals are gone, its claims stay in the database
Crash(w) ==
  /\ pc[w] # "idle"
  /\ Spend("crash")
  /\ pc' = [pc EXCEPT ![w] = "idle"]
  /\ job' = [job EXCEPT ![w] = NoJob]
  /\ UNCHANGED <<rows, config, banner, mail, lateBiz>>

\* TestModeSettings: the audited switch
SwitchTestMode ==
  /\ Spend("mode")
  /\ config' = [config EXCEPT !.testMode = ~@]
  /\ lateBiz' = [w \in Workers |-> 0]
  /\ UNCHANGED <<rows, banner, pc, job, mail>>

\* recipients are added or removed; RecipientAdmin keeps a dev list that has
\* been seeded from becoming empty
EditRecipients ==
  /\ Spend("recipients")
  /\ \/ config' = [config EXCEPT !.biz = ~@]
     \/ ~config.dev /\ config' = [config EXCEPT !.dev = TRUE]
  /\ UNCHANGED <<rows, banner, pc, job, mail, lateBiz>>

\* requeue_possible_duplicate (no caller in the code base yet)
Requeue(r) ==
  /\ rows[r].status = "possible_duplicate"
  /\ Spend("requeue")
  /\ rows' = [rows EXCEPT ![r].status = "pending_retry", ![r].due = TRUE,
                          ![r].released = TRUE]
  /\ UNCHANGED <<config, banner, pc, job, mail, lateBiz>>

-----------------------------------------------------------------------------
Deliver(w) == \/ Revalidate(w) \/ RenewClaim(w) \/ BeforeAttempt(w)
              \/ Accept(w) \/ Reject(w) \/ Timeout(w) \/ ChainExhausted(w)
              \/ FinalizeSent(w) \/ FinalizeFailed(w)

\* the steps an instance that has started something goes on to take
Progress(w) == \/ AlreadyNotified(w) \/ Reserve(w) \/ BeginSend(w)
               \/ OpenRow(w) \/ FinishFlush(w) \/ ClearBanner(w)
               \/ Deliver(w)

WorkerStep(w) == \/ \E n \in Notices : Prepare(w, n)
                 \/ ReadStale(w) \/ ClaimPending(w)
                 \/ Progress(w)
                 \/ AttemptFault(w)
                 \/ Crash(w)

Environment == \/ \E r \in RowIds : LeaseExpires(r) \/ BecomesDue(r) \/ Requeue(r)
               \/ SwitchTestMode
               \/ EditRecipients

Next == (\E w \in Workers : WorkerStep(w)) \/ Environment

Spec == Init /\ [][Next]_vars

\* An instance that started finishes (no step blocks for ever), time passes,
\* and every instance flushes again and again: both process loops end each
\* pass with a flush, between passes they may also send live notices.
Fairness ==
  /\ \A w \in Workers : /\ WF_vars(Progress(w))
                         /\ SF_vars(ReadStale(w)) /\ SF_vars(ClaimPending(w))
  /\ \A r \in RowIds : WF_vars(LeaseExpires(r)) /\ WF_vars(BecomesDue(r))

FairSpec == Spec /\ Fairness
-----------------------------------------------------------------------------
(* Properties *)

\* Every variable stays within its type.
TypeOK ==
  /\ rows \in [RowIds -> Row]
  /\ config \in [testMode : BOOLEAN, dev : BOOLEAN, biz : BOOLEAN]
  /\ banner \in BOOLEAN
  /\ pc \in [Workers -> Stages]
  /\ job \in [Workers -> Job]
  /\ mail \in [RowIds -> [count : 0..2, reached : SUBSET RouteOrNone]]
  /\ lateBiz \in [Workers -> 0..2]
  /\ budget \in 0..MaxAdverse

\* An instance that works on a row it claimed still owns it, or the row is
\* marked possible_duplicate: no claim is lost silently (claim_pending's
\* recovery of stale leases against renew_claim, mark_sent, keep_pending).
ClaimLossIsFlagged ==
  \A w \in Workers, r \in RowIds : Holds(w, r) => Owns(w, r) \/ rows[r].flag

\* Two instances work on one row at the same time only if the row is marked
\* possible_duplicate (the claim tokens and leases of the outbox).
OneSenderUnlessFlagged ==
  \A v, w \in Workers, r \in RowIds :
    v # w /\ Holds(v, r) /\ Holds(w, r) => rows[r].flag

\* A row that nobody is sending is marked possible_duplicate if a provider
\* accepted it twice, or accepted it although the outbox does not call it
\* sent (the possible_duplicate bookkeeping of chain and finalisation).
RepeatIsFlagged ==
  \A r \in RowIds :
    /\ rows[r].status # "sending"
    /\ mail[r].count > (IF rows[r].status = "sent" THEN 1 ELSE 0)
    => rows[r].flag

\* After Test Mode is switched ON at most one business request of each instance
\* still reaches a provider: the one that had passed the wire-boundary check
\* (_before_provider_attempt, _revalidate_for_send, the flush re-route).
OneLateBusinessMail == \A w \in Workers : lateBiz[w] <= 1

\* No recipient list gets one notice through two rows, unless one of them is
\* marked possible_duplicate (the dedupe key and its rewriting at send time).
ListMailedOnceUnlessFlagged ==
  \A q, r \in RowIds :
    /\ q # r /\ rows[q].notice = rows[r].notice
    /\ mail[q].reached \cap mail[r].reached # {}
    => rows[q].flag \/ rows[r].flag

\* A raw notice, which carries no assessment, never reaches a business list,
\* whichever route it was reserved, re-routed and revalidated with
\* (resolve_raw_notice, _outbox_route, _revalidate_for_send; v1.1 5.6).
RawNoticesStayInternal ==
  \A r \in RowIds : rows[r].notice \in RawNotices => "tender" \notin mail[r].reached

\* An ambiguous row is sent automatically at most MAX_AMBIGUOUS_AUTOMATIC_SENDS
\* times, unless an operator released it (keep_pending's quarantine).
AmbiguousSendsBounded ==
  \A r \in RowIds :
    rows[r].status = "sending" /\ rows[r].flag /\ ~rows[r].released
    => rows[r].attempts <= MaxAmbiguous

\* The recipient snapshot of a sent row names a list that was really mailed, or the
\* row is marked: its snapshot may come from another instance than its delivery
\* (_revalidate_for_send's snapshot against mark_sent).
SnapshotIsTruthful ==
  \A r \in RowIds : rows[r].status = "sent" => rows[r].to \in mail[r].reached \/ rows[r].flag

\* While a notification that failed cleanly or is quarantined waits in the
\* outbox, the red banner is up (keep_pending with the banner against the
\* clearing transaction of flush_pending_retry).
FailureShowsBanner ==
  (\E r \in RowIds : \/ rows[r].status = "possible_duplicate"
                     \/ rows[r].status = "pending_retry" /\ ~rows[r].flag)
  => banner

\* Every reserved notification is eventually sent or quarantined for the
\* operator: none stays pending or claimed for ever.
EveryRowSettles ==
  \A r \in RowIds :
    rows[r].status # "absent" ~> rows[r].status \in {"sent", "possible_duplicate"}

-----------------------------------------------------------------------------
(* Promises the code does not keep today (README, known disagreements) *)

\* The red banner comes down again once the outage is over (clear_email_chain_down:
\* it clears once delivery is possible again).
BannerClears == banner ~> ~banner

\* A notification logged as sent is never scheduled or sent again: keep_pending lets
\* a sender pass that lost its claim, the token being NULL by then, and a recovery
\* writes to rows that were stale when it read them.
SentIsFinal ==
  [][\A r \in RowIds : rows[r].status = "sent" => rows'[r].status = "sent"]_vars
=============================================================================
