------------------------- MODULE OutboxMail_proofs -------------------------
(***************************************************************************)
(* What the outbox may say about the messages the providers accepted: the  *)
(* possible_duplicate mark, the dedupe key, the recipient snapshot, the    *)
(* quarantine and the red banner.                                          *)
(***************************************************************************)
EXTENDS Outbox_proofs

-----------------------------------------------------------------------------
(* What the steps do, field by field. *)

Others(w) == \A v \in Workers \ {w} : pc'[v] = pc[v] /\ job'[v] = job[v]
OnlyRow(c) == \A q \in RowIds \ {c} : rows'[q] = rows[q]

\* Leaving a row, and giving up on it.
LEMMA LeaveDoes ==
  ASSUME ClaimInv, NEW w \in Workers, NEW b \in BOOLEAN, Leave(w, b)
  PROVE  /\ Others(w) /\ pc'[w] \in {"idle", "flushing"}
         /\ job'[w].batch = job[w].batch /\ job'[w].row \notin RowIds
         /\ ~job'[w].amb /\ job'[w].sel = "none" /\ job'[w].to = "none"
<1>0. job[w] \in Job /\ -1 \notin RowIds
  BY OutboxConstants DEF ClaimInv, TypeOK
<1>1. CASE job[w].mode = "live"
  <2>1. job[w].batch = {} /\ job'[w] = NoJob /\ pc'[w] = "idle" /\ Others(w)
    BY <1>1 DEF Leave, ClaimInv, TypeOK, JobShape, Others
  <2> QED BY <1>0, <2>1 DEF NoJob
<1>2. CASE job[w].mode # "live"
  BY <1>0, <1>2 DEF Leave, ClaimInv, TypeOK, Job, Others
<1> QED BY <1>1, <1>2

LEMMA FailDoes ==
  ASSUME ClaimInv, NEW w \in Workers, NEW b \in BOOLEAN, Fail(w, b)
  PROVE  /\ Others(w) /\ pc'[w] = "failed"
         /\ job'[w].batch = job[w].batch /\ job'[w].row = job[w].row
         /\ job'[w].amb = b /\ job'[w].sel = job[w].sel /\ job'[w].to = job[w].to
         /\ job'[w].mode = job[w].mode
<1>0. job[w] \in Job
  BY DEF ClaimInv, TypeOK
<1> QED BY <1>0 DEF Fail, ClaimInv, TypeOK, Job, Others

\* A step that touches neither rows nor mail and lets go of the row, if any.
LetsGo(w) ==
  /\ Others(w) /\ rows' = rows /\ mail' = mail /\ config' = config
  /\ pc'[w] \in {"idle", "recovering", "flushing", "clearing"}
  /\ job'[w].batch \subseteq job[w].batch
  /\ job'[w].amb => job[w].amb
  /\ job'[w].sel \in {"none", job[w].sel}

LEMMA LeaveLetsGo ==
  ASSUME ClaimInv, NEW w \in Workers, NEW b \in BOOLEAN, Leave(w, b),
         rows' = rows, mail' = mail, config' = config
  PROVE  LetsGo(w)
BY LeaveDoes DEF LetsGo

\* Nor do these: a recovery that has read its rows holds none of them yet.
Quiet(w) == \/ AlreadyNotified(w) \/ FinishFlush(w) \/ ClearBanner(w) \/ Crash(w)
            \/ ReadStale(w)

LEMMA QuietDoes ==
  ASSUME ClaimInv, NEW w \in Workers, Quiet(w)
  PROVE  LetsGo(w)
<1> USE DEF env
<1>1. CASE AlreadyNotified(w)
  BY <1>1, LeaveLetsGo DEF AlreadyNotified
<1>2. CASE FinishFlush(w) \/ Crash(w)
  BY <1>2 DEF FinishFlush, Crash, LetsGo, Others, ClaimInv, TypeOK, NoJob
<1>3. CASE ClearBanner(w)
  BY <1>3 DEF ClearBanner, LetsGo, Others, ClaimInv, TypeOK
<1>4. CASE ReadStale(w)
  BY <1>4, ReadEffect DEF LetsGo, Others, ClaimInv
<1> QED BY <1>1, <1>2, <1>3, <1>4 DEF Quiet

LEMMA PrepareDoes ==
  ASSUME ClaimInv, NEW w \in Workers, NEW n \in Notices, Prepare(w, n)
  PROVE  /\ Others(w) /\ rows' = rows /\ mail' = mail /\ config' = config
         /\ pc[w] = "idle" /\ pc'[w] = "prepared"
         /\ job'[w].batch = job[w].batch /\ job'[w].amb = job[w].amb
         /\ job'[w].notice = n /\ job'[w].sel = Recipients(n, config)
         /\ job'[w].to = Recipients(n, config)
<1>1. job[w] \in Job
  BY DEF ClaimInv, TypeOK
<1> QED BY <1>1 DEF Prepare, env, Others, ClaimInv, TypeOK, Job

\* The new row takes the route of the reservation; no row had that key.
LEMMA ReserveDoes ==
  ASSUME ClaimInv, NEW w \in Workers, Reserve(w)
  PROVE  /\ Others(w) /\ mail' = mail /\ config' = config
         /\ pc[w] = "prepared" /\ pc'[w] = "reserved"
         /\ job'[w].batch = job[w].batch /\ job'[w].amb = job[w].amb
         /\ job'[w].sel = job[w].sel /\ job'[w].to = job[w].to
         /\ ~KeyTaken(job[w].notice, job[w].sel)
         /\ \E r \in RowIds :
              /\ rows[r].status = "absent" /\ OnlyRow(r) /\ job'[w].row = r
              /\ rows'[r].status = "pending" /\ ~rows'[r].flag
              /\ rows'[r].notice = job[w].notice
              /\ rows'[r].key = job[w].sel /\ rows'[r].to = job[w].sel
<1>1. job[w] \in Job
  BY DEF ClaimInv, TypeOK
<1>2. PICK r \in RowIds :
        /\ rows[r].status = "absent"
        /\ rows' = [rows EXCEPT ![r] =
                      [AbsentRow EXCEPT !.notice = job[w].notice,
                                        !.key = job[w].sel, !.to = job[w].sel,
                                        !.status = "pending"]]
        /\ job' = [job EXCEPT ![w].row = r]
  BY DEF Reserve
<1>3. /\ rows'[r].status = "pending" /\ ~rows'[r].flag
      /\ rows'[r].notice = job[w].notice
      /\ rows'[r].key = job[w].sel /\ rows'[r].to = job[w].sel
      /\ OnlyRow(r)
  BY <1>2 DEF AbsentRow, ClaimInv, TypeOK, OnlyRow
<1>4. /\ Others(w) /\ job'[w].row = r /\ job'[w].batch = job[w].batch
      /\ job'[w].amb = job[w].amb /\ job'[w].sel = job[w].sel
      /\ job'[w].to = job[w].to
      /\ pc[w] = "prepared" /\ pc'[w] = "reserved"
  BY <1>1, <1>2 DEF Reserve, Others, ClaimInv, TypeOK, Job
<1> QED BY <1>2, <1>3, <1>4 DEF Reserve, env

LEMMA BeginDoes ==
  ASSUME ClaimInv, NEW w \in Workers, BeginSend(w)
  PROVE  \/ LetsGo(w)
         \/ /\ Others(w) /\ mail' = mail /\ config' = config
            /\ Sendable(job[w].row) /\ OnlyRow(job[w].row)
            /\ job[w].row \in RowIds =>
                 rows'[job[w].row] = Claim(rows[job[w].row], w)
            /\ job'[w] = job[w]
            /\ pc[w] = "reserved"
            /\ pc'[w] = IF job[w].sel = "none" THEN "failed" ELSE "claimed"
<1>1. CASE Sendable(job[w].row)
  BY <1>1 DEF BeginSend, env, Others, OnlyRow, ClaimInv, TypeOK
<1>2. CASE ~Sendable(job[w].row)
  BY <1>2, LeaveLetsGo DEF BeginSend, env
<1> QED BY <1>1, <1>2

\* Every row that is claimed is w's, and every row that was read as stale is marked.
LEMMA ClaimDoes ==
  ASSUME ClaimInv, NEW w \in Workers, ClaimPending(w)
  PROVE  /\ Others(w) /\ mail' = mail /\ config' = config
         /\ pc[w] \in {"idle", "recovering"} /\ pc'[w] = "flushing"
         /\ job'[w].row \notin RowIds /\ ~job'[w].amb /\ job'[w].sel = "none"
         /\ job'[w].batch \subseteq RowIds
         /\ \A r \in RowIds :
              /\ rows'[r].notice = rows[r].notice /\ rows'[r].key = rows[r].key
              /\ rows'[r].to = rows[r].to
              /\ rows[r].status # "absent" <=> rows'[r].status # "absent"
              /\ rows'[r].status = "sent" => rows[r].status = "sent"
              /\ \/ /\ rows'[r].flag
                    /\ r \in StaleRead(w)
                    /\ rows'[r].status \in {"sending", "pending_retry"}
                 \/ /\ r \in job'[w].batch
                    /\ rows[r].status \in {"pending", "pending_retry"}
                    /\ rows'[r] = Claim(rows[r], w) /\ rows'[r].flag = rows[r].flag
                    /\ rows'[r].status = "sending"
                 \/ rows'[r] = rows[r] /\ r \notin job'[w].batch
<1>0. TypeOK /\ -1 \notin RowIds
  BY OutboxConstants DEF ClaimInv
<1>1. /\ Others(w) /\ mail' = mail /\ config' = config
      /\ pc[w] \in {"idle", "recovering"} /\ pc'[w] = "flushing"
      /\ job'[w].row = -1 /\ ~job'[w].amb /\ job'[w].sel = "none"
      /\ job'[w].batch \subseteq RowIds
  BY <1>0, ClaimEffect DEF Others, ClaimPending, env
<1>2. ASSUME NEW r \in RowIds
      PROVE  /\ rows'[r].notice = rows[r].notice /\ rows'[r].key = rows[r].key
             /\ rows'[r].to = rows[r].to
             /\ \/ /\ r \in StaleRead(w) /\ rows'[r].flag
                   /\ rows'[r].status \in {"sending", "pending_retry"}
                \/ /\ r \notin StaleRead(w) /\ r \in job'[w].batch
                   /\ rows[r].status \in {"pending", "pending_retry"}
                   /\ rows'[r] = Claim(rows[r], w) /\ rows'[r].flag = rows[r].flag
                   /\ rows'[r].status = "sending"
                \/ rows'[r] = rows[r] /\ r \notin job'[w].batch
  BY <1>0, ClaimEffect
<1>3. \A r \in StaleRead(w) : rows[r].status # "absent"
  BY DEF StaleRead, ClaimInv, StaleExist
<1>4. ASSUME NEW r \in RowIds
      PROVE  /\ rows[r].status # "absent" <=> rows'[r].status # "absent"
             /\ rows'[r].status = "sent" => rows[r].status = "sent"
  BY <1>2, <1>3
<1> QED BY <1>0, <1>1, <1>2, <1>4

\* A row leaves the batch: skipped, parked, or opened with the list it goes to.
Skips(w, r) == /\ rows[r].token # w /\ rows' = rows /\ pc'[w] = "flushing"
               /\ job'[w].amb = job[w].amb /\ job'[w].sel = job[w].sel
Parks(w, r) == /\ rows[r].token = w /\ config.testMode
               /\ Recipients(rows[r].notice, config) = "none"
               /\ rows'[r] = KeepPending(rows[r], FALSE)
               /\ pc'[w] = "flushing" /\ job'[w].amb = job[w].amb
               /\ job'[w].sel = job[w].sel
Opens(w, r) == /\ rows[r].token = w
               /\ job'[w].row = r /\ job'[w].amb = job[w].amb
               /\ rows'[r] = [rows[r] EXCEPT !.to = job'[w].to]
               /\ job'[w].sel = job'[w].to
               /\ config.testMode => job'[w].sel # "tender"
               /\ \/ pc'[w] = "claimed"
                  \/ /\ pc'[w] = "failed"
                     /\ Recipients(rows[r].notice, config) = "none"

LEMMA OpenDoes ==
  ASSUME ClaimInv, NEW w \in Workers, OpenRow(w)
  PROVE  /\ Others(w) /\ mail' = mail /\ config' = config
         /\ pc[w] = "flushing" /\ job'[w].mode = "flush"
         /\ \E r \in job[w].batch :
              /\ r \in RowIds /\ OnlyRow(r) /\ job'[w].batch = job[w].batch \ {r}
              /\ Skips(w, r) \/ Parks(w, r) \/ Opens(w, r)
<1> USE DEF env
<1>0. job[w] \in Job /\ job[w].batch \subseteq RowIds
  BY DEF ClaimInv, TypeOK, Job
<1>1. pc[w] = "flushing" /\ mail' = mail /\ config' = config /\ job[w].mode = "flush"
  BY <1>0 DEF OpenRow, ClaimInv, JobShape, Job
<1> DEFINE Skipped(r) == job' = [job EXCEPT ![w].batch = @ \ {r}] /\ pc' = pc
           Opened(r, stage, to) ==
             /\ pc' = [pc EXCEPT ![w] = stage]
             /\ rows' = [rows EXCEPT ![r].to = to]
             /\ job' = [job EXCEPT ![w].batch = @ \ {r}, ![w].row = r,
                                   ![w].sel = to, ![w].to = to]
<1>2. PICK r \in job[w].batch :
        \/ rows[r].token # w /\ rows' = rows /\ Skipped(r)
        \/ /\ rows[r].token = w /\ config.testMode
           /\ Recipients(rows[r].notice, config) = "none"
           /\ rows' = [rows EXCEPT ![r] = KeepPending(rows[r], FALSE)]
           /\ Skipped(r)
        \/ \E stage \in {"claimed", "failed"}, to \in {Recipients(rows[r].notice, config), rows[r].to} :
             /\ rows[r].token = w /\ Opened(r, stage, to)
             /\ config.testMode => to # "tender"
             /\ stage = "failed" => Recipients(rows[r].notice, config) = "none"
  <2>1. \A n : config.testMode => Recipients(n, config) # "tender"
    BY DEF Recipients
  <2> QED BY <2>1 DEF OpenRow
<1>3. r \in RowIds /\ rows[r] \in Row
  BY <1>0 DEF ClaimInv, TypeOK
<1>4. ASSUME Skipped(r)
      PROVE  /\ Others(w) /\ job'[w].batch = job[w].batch \ {r}
             /\ job'[w].mode = "flush" /\ job'[w].amb = job[w].amb
             /\ job'[w].sel = job[w].sel /\ pc'[w] = "flushing"
  BY <1>0, <1>1, <1>4 DEF Others, ClaimInv, TypeOK, Job
<1>5. ASSUME NEW stage, NEW to, Opened(r, stage, to)
      PROVE  /\ Others(w) /\ job'[w].batch = job[w].batch \ {r}
             /\ job'[w].mode = "flush" /\ job'[w].amb = job[w].amb
             /\ job'[w].sel = to /\ job'[w].to = to /\ job'[w].row = r
             /\ pc'[w] = stage /\ OnlyRow(r)
             /\ rows'[r] = [rows[r] EXCEPT !.to = to]
  BY <1>0, <1>1, <1>3, <1>5 DEF Others, ClaimInv, TypeOK, Job, OnlyRow
<1> HIDE DEF Skipped, Opened
<1>6. CASE rows[r].token # w /\ rows' = rows /\ Skipped(r)
  BY <1>1, <1>3, <1>4, <1>6 DEF OnlyRow, Skips
<1>7. CASE /\ rows[r].token = w /\ config.testMode
           /\ Recipients(rows[r].notice, config) = "none"
           /\ rows' = [rows EXCEPT ![r] = KeepPending(rows[r], FALSE)]
           /\ Skipped(r)
  BY <1>1, <1>3, <1>4, <1>7 DEF OnlyRow, Parks, ClaimInv, TypeOK
<1>8. ASSUME NEW stage \in {"claimed", "failed"}, NEW to,
             rows[r].token = w, Opened(r, stage, to),
             config.testMode => to # "tender",
             stage = "failed" => Recipients(rows[r].notice, config) = "none"
      PROVE  /\ Others(w) /\ mail' = mail /\ config' = config
             /\ pc[w] = "flushing" /\ job'[w].mode = "flush"
             /\ r \in RowIds /\ OnlyRow(r) /\ job'[w].batch = job[w].batch \ {r}
             /\ Opens(w, r)
  <2>1. /\ r \in RowIds /\ OnlyRow(r) /\ job'[w].batch = job[w].batch \ {r}
        /\ rows[r].token = w
        /\ job'[w].row = r /\ job'[w].amb = job[w].amb
        /\ rows'[r] = [rows[r] EXCEPT !.to = job'[w].to]
        /\ job'[w].sel = job'[w].to
        /\ config.testMode => job'[w].sel # "tender"
    BY <1>3, <1>5, <1>8
  <2>2. \/ pc'[w] = "claimed"
        \/ pc'[w] = "failed" /\ Recipients(rows[r].notice, config) = "none"
    BY <1>5, <1>8
  <2>3. Others(w) /\ job'[w].mode = "flush"
    BY <1>5, <1>8
  <2> QED BY <1>1, <2>1, <2>2, <2>3, Zenon DEF Opens
<1> QED BY <1>2, <1>6, <1>7, <1>8

\* Both paths: revalidation.
LEMMA RevalidateDoes ==
  ASSUME ClaimInv, NEW w \in Workers, NEW r, r = job[w].row, Revalidate(w)
  PROVE  /\ Others(w) /\ mail' = mail /\ config' = config /\ pc[w] = "claimed"
         /\ \/ /\ rows[r].token # w \/ job[w].mode # "live"
               /\ rows[r].token = w =>
                    \E q \in RowIds \ {r} :
                      /\ rows[q].notice = rows[r].notice
                      /\ rows[q].key = Recipients(rows[r].notice, config)
               /\ LetsGo(w)
            \/ /\ rows' = rows /\ pc'[w] = "failed"
               /\ job'[w].batch = job[w].batch /\ job'[w].row = r
               /\ ~job'[w].amb /\ job'[w].sel = job[w].sel /\ job'[w].to = job[w].to
            \/ /\ rows' = rows /\ pc'[w] = "ready" /\ job[w].mode = "flush"
               /\ Recipients(rows[r].notice, config) = "none"
               /\ job'[w].batch = job[w].batch /\ job'[w].row = r
               /\ job'[w].amb = job[w].amb /\ job'[w].sel = "none"
               /\ job'[w].to = job[w].to
            \/ /\ rows[r].token = w /\ pc'[w] \in {"revalidated", "ready"}
               /\ Recipients(rows[r].notice, config) # "none"
               /\ OnlyRow(r)
               /\ r \in RowIds =>
                    rows'[r] = Rerouted(rows[r], Recipients(rows[r].notice, config))
               /\ \A q \in RowIds \ {r} :
                    rows[q].notice = rows[r].notice
                      => rows[q].key # Recipients(rows[r].notice, config)
               /\ job'[w].batch = job[w].batch /\ job'[w].row = r
               /\ job'[w].amb = job[w].amb
               /\ job'[w].sel = Recipients(rows[r].notice, config)
               /\ job'[w].to = Recipients(rows[r].notice, config)
<1> USE DEF env
<1>0. job[w] \in Job
  BY DEF ClaimInv, TypeOK
<1> DEFINE n == rows[r].notice
           route == Recipients(n, config)
           collides == \E q \in RowIds \ {r} : rows[q].notice = n /\ rows[q].key = route
<1>1. mail' = mail /\ config' = config /\ pc[w] = "claimed"
  BY DEF Revalidate
<1>2. CASE rows[r].token # w /\ Leave(w, FALSE) /\ rows' = rows
  BY <1>1, <1>2, LeaveLetsGo DEF LetsGo
<1>3. CASE Fail(w, FALSE) /\ rows' = rows
  BY <1>1, <1>3, FailDoes
<1>4. CASE /\ rows' = rows /\ route = "none" /\ job[w].mode # "live"
           /\ job' = [job EXCEPT ![w].sel = "none"]
           /\ pc' = [pc EXCEPT ![w] = "ready"]
  BY <1>0, <1>1, <1>4 DEF Others, ClaimInv, TypeOK, Job
<1>5. CASE rows[r].token = w /\ collides /\ job[w].mode # "live" /\ Leave(w, FALSE) /\ rows' = rows
  BY <1>1, <1>5, LeaveLetsGo DEF LetsGo
<1>6. CASE /\ rows[r].token = w /\ route # "none" /\ ~collides
           /\ rows' = [rows EXCEPT ![r] = Rerouted(rows[r], route)]
           /\ job' = [job EXCEPT ![w].sel = route, ![w].to = route]
           /\ pc' = [pc EXCEPT ![w] = IF job[w].mode = "live" THEN "revalidated"
                                                              ELSE "ready"]
  <2> HIDE DEF route
  <2>1. /\ OnlyRow(r) /\ (r \in RowIds => rows'[r] = Rerouted(rows[r], route))
        /\ Others(w) /\ pc'[w] \in {"revalidated", "ready"}
        /\ job'[w].batch = job[w].batch /\ job'[w].row = r
        /\ job'[w].amb = job[w].amb /\ job'[w].sel = route /\ job'[w].to = route
    BY <1>0, <1>6 DEF Others, ClaimInv, TypeOK, Job, OnlyRow
  <2> QED BY <1>1, <1>6, <2>1 DEF route
<1> QED BY <1>2, <1>3, <1>4, <1>5, <1>6 DEF Revalidate

\* The lease is renewed, or lost.
LEMMA RenewDoes ==
  ASSUME ClaimInv, NEW w \in Workers, NEW r, r = job[w].row,
         RenewClaim(w) \/ BeforeAttempt(w)
  PROVE  /\ Others(w) /\ mail' = mail /\ config' = config
         /\ pc[w] \in {"revalidated", "ready"}
         /\ \/ ~Owns(w, r) /\ LetsGo(w)
            \/ /\ \/ ~Owns(w, r) /\ rows' = rows
                  \/ Owns(w, r) /\ Unsafe(w) /\ rows' = [rows EXCEPT ![r].lease = "live"]
               /\ pc[w] = "ready" /\ pc'[w] = "failed"
               /\ job'[w].batch = job[w].batch /\ job'[w].row = r
               /\ ~job'[w].amb /\ job'[w].sel = job[w].sel /\ job'[w].to = job[w].to
            \/ /\ Owns(w, r) /\ rows' = [rows EXCEPT ![r].lease = "live"]
               /\ \/ pc[w] = "revalidated" /\ pc'[w] = "ready"
                  \/ pc[w] = "ready" /\ pc'[w] = "sending"
               /\ job'[w].batch = job[w].batch /\ job'[w].row = r
               /\ job'[w].amb = job[w].amb /\ job'[w].sel = job[w].sel
               /\ job'[w].to = job[w].to
<1> USE DEF env
<1>0. job[w] \in Job
  BY DEF ClaimInv, TypeOK
<1>1. mail' = mail /\ config' = config /\ pc[w] \in {"revalidated", "ready"}
  BY DEF RenewClaim, BeforeAttempt
<1>2. CASE ~Owns(w, r) /\ Leave(w, FALSE) /\ rows' = rows
  BY <1>1, <1>2, LeaveLetsGo DEF LetsGo
<1>3. CASE /\ pc[w] = "ready" /\ Fail(w, FALSE)
           /\ \/ ~Owns(w, r) /\ rows' = rows
              \/ Owns(w, r) /\ Unsafe(w) /\ rows' = [rows EXCEPT ![r].lease = "live"]
  BY <1>1, <1>3, FailDoes
<1>4. CASE /\ Owns(w, r) /\ rows' = [rows EXCEPT ![r].lease = "live"]
           /\ \/ /\ pc[w] = "revalidated" /\ pc' = [pc EXCEPT ![w] = "ready"]
                 /\ job' = job
              \/ /\ pc[w] = "ready" /\ pc' = [pc EXCEPT ![w] = "sending"]
                 /\ job' = [job EXCEPT ![w].tries = @ + 1]
  BY <1>0, <1>1, <1>4 DEF Others, ClaimInv, TypeOK, Job
<1> QED BY <1>2, <1>3, <1>4 DEF RenewClaim, BeforeAttempt

\* What renewing a lease changes.
LEMMA LeaseFields ==
  ASSUME TypeOK, NEW r, NEW lease, rows' = [rows EXCEPT ![r].lease = lease]
  PROVE  /\ OnlyRow(r)
         /\ r \in RowIds =>
              /\ rows'[r].lease = lease
              /\ rows'[r].status = rows[r].status /\ rows'[r].token = rows[r].token
              /\ rows'[r].flag = rows[r].flag /\ rows'[r].notice = rows[r].notice
              /\ rows'[r].key = rows[r].key /\ rows'[r].to = rows[r].to
              /\ rows'[r].attempts = rows[r].attempts
              /\ rows'[r].released = rows[r].released
<1>1. r \in RowIds => rows[r] \in Row
  BY DEF TypeOK
<1> QED BY <1>1 DEF TypeOK, Row, OnlyRow

\* The chain gives up, or the boundary raised.
LEMMA GiveUpDoes ==
  ASSUME ClaimInv, NEW w \in Workers, AttemptFault(w) \/ ChainExhausted(w)
  PROVE  /\ Others(w) /\ rows' = rows /\ mail' = mail /\ config' = config
         /\ pc[w] = "ready" /\ pc'[w] = "failed"
         /\ job'[w].batch = job[w].batch /\ job'[w].row = job[w].row
         /\ job'[w].sel = job[w].sel /\ job'[w].to = job[w].to
         /\ \/ job'[w].amb = job[w].amb
            \/ "fault" \in Adverse /\ ~job'[w].amb
<1>1. job[w].amb \in BOOLEAN
  BY DEF ClaimInv, TypeOK, Job
<1>2. CASE AttemptFault(w)
  BY <1>2, FailDoes DEF AttemptFault, Spend
<1>3. CASE ChainExhausted(w)
  BY <1>1, <1>3, FailDoes DEF ChainExhausted
<1> QED BY <1>2, <1>3

\* A request reaches a provider.
LEMMA ArriveDoes ==
  ASSUME ClaimInv, NEW w \in Workers, NEW r, r = job[w].row,
         Accept(w) \/ Reject(w) \/ Timeout(w)
  PROVE  /\ Others(w) /\ rows' = rows /\ config' = config /\ pc[w] = "sending"
         /\ job'[w].batch = job[w].batch /\ job'[w].row = r
         /\ job'[w].sel = job[w].sel /\ job'[w].to = job[w].to
         /\ \/ /\ mail' = mail /\ pc'[w] = "ready"
               /\ \/ job'[w].amb = job[w].amb
                  \/ "timeout" \in Adverse /\ job'[w].amb
            \/ /\ \A q \in RowIds \ {r} : mail'[q] = mail[q]
               /\ r \in RowIds =>
                    /\ mail'[r].count = IF mail[r].count < 2 THEN mail[r].count + 1
                                                            ELSE mail[r].count
                    /\ mail'[r].reached = mail[r].reached \cup {job[w].to}
               /\ \/ pc'[w] = "delivered" /\ job'[w].amb = job[w].amb
                  \/ pc'[w] = "ready" /\ job'[w].amb /\ "timeout" \in Adverse
<1>0. job[w] \in Job
  BY DEF ClaimInv, TypeOK
<1>1. ASSUME Arrive(w, TRUE)
      PROVE  /\ \A q \in RowIds \ {r} : mail'[q] = mail[q]
             /\ r \in RowIds =>
                  /\ mail'[r].count = IF mail[r].count < 2 THEN mail[r].count + 1
                                                          ELSE mail[r].count
                  /\ mail'[r].reached = mail[r].reached \cup {job[w].to}
  <2>1. r \in RowIds => mail[r] \in [count : 0..2, reached : SUBSET RouteOrNone]
    BY DEF ClaimInv, TypeOK
  <2> QED BY <1>1, <2>1 DEF Arrive, ClaimInv, TypeOK
<1>2. CASE Accept(w)
  BY <1>1, <1>2 DEF Accept, Others, ClaimInv, TypeOK
<1>3. CASE Reject(w)
  BY <1>3 DEF Reject, Arrive, Others, ClaimInv, TypeOK
<1>4. CASE Timeout(w)
  <2>1. /\ Others(w) /\ rows' = rows /\ config' = config /\ pc[w] = "sending"
        /\ job'[w].batch = job[w].batch /\ job'[w].row = r
        /\ job'[w].sel = job[w].sel /\ job'[w].to = job[w].to
        /\ pc'[w] = "ready" /\ job'[w].amb /\ "timeout" \in Adverse
    BY <1>0, <1>4 DEF Timeout, Spend, Others, ClaimInv, TypeOK, Job
  <2>2. Arrive(w, TRUE) \/ Arrive(w, FALSE)
    BY <1>4 DEF Timeout
  <2>3. CASE Arrive(w, FALSE)
    BY <2>1, <2>3 DEF Arrive
  <2> QED BY <1>1, <2>1, <2>2, <2>3
<1> QED BY <1>2, <1>3, <1>4

\* Leases run out, retries fall due, an operator releases a quarantined row.
LEMMA EnvironmentDoes ==
  ASSUME ClaimInv, Environment \/ UNCHANGED vars
  PROVE  /\ pc' = pc /\ job' = job /\ mail' = mail
         /\ \A r \in RowIds :
              /\ rows'[r].flag = rows[r].flag /\ rows'[r].token = rows[r].token
              /\ rows'[r].notice = rows[r].notice /\ rows'[r].key = rows[r].key
              /\ rows'[r].to = rows[r].to /\ rows'[r].attempts = rows[r].attempts
              /\ \/ /\ rows'[r].status = rows[r].status
                    /\ rows'[r].released = rows[r].released
                 \/ /\ rows[r].status = "possible_duplicate"
                    /\ rows'[r].status = "pending_retry" /\ rows'[r].released
              /\ rows'[r].lease = rows[r].lease \/ LeaseExpires(r)
         /\ config' = config \/ ({"mode", "recipients"} \cap Adverse # {})
         /\ banner' = banner
<1> DEFINE Changed(r) ==
             \/ LeaseExpires(r) /\ rows' = [rows EXCEPT ![r].lease = "expired"]
             \/ rows' = [rows EXCEPT ![r].due = TRUE]
             \/ /\ rows[r].status = "possible_duplicate"
                /\ rows' = [rows EXCEPT ![r].status = "pending_retry",
                                        ![r].due = TRUE, ![r].released = TRUE]
           Same(r) ==
              /\ rows'[r].flag = rows[r].flag /\ rows'[r].token = rows[r].token
              /\ rows'[r].notice = rows[r].notice /\ rows'[r].key = rows[r].key
              /\ rows'[r].to = rows[r].to /\ rows'[r].attempts = rows[r].attempts
              /\ \/ /\ rows'[r].status = rows[r].status
                    /\ rows'[r].released = rows[r].released
                 \/ /\ rows[r].status = "possible_duplicate"
                    /\ rows'[r].status = "pending_retry" /\ rows'[r].released
              /\ rows'[r].lease = rows[r].lease \/ LeaseExpires(r)
<1>1. /\ pc' = pc /\ job' = job /\ mail' = mail /\ banner' = banner
      /\ config' = config \/ ({"mode", "recipients"} \cap Adverse # {})
      /\ rows' = rows \/ \E r \in RowIds : Changed(r)
  BY DEF Environment, LeaseExpires, BecomesDue, Requeue, SwitchTestMode, EditRecipients,
         Spend, vars
<1>2. ASSUME NEW c \in RowIds, Changed(c), NEW r \in RowIds PROVE Same(r)
  <2>1. rows[r] \in Row
    BY DEF ClaimInv, TypeOK
  <2>2. CASE r # c
    BY <1>2, <2>2 DEF ClaimInv, TypeOK
  <2>3. CASE r = c /\ LeaseExpires(c) /\ rows' = [rows EXCEPT ![c].lease = "expired"]
    BY <2>1, <2>3 DEF ClaimInv, TypeOK, Row
  <2>4. CASE r = c /\ rows' = [rows EXCEPT ![c].due = TRUE]
    BY <2>1, <2>4 DEF ClaimInv, TypeOK, Row
  <2>5. CASE /\ r = c /\ rows[c].status = "possible_duplicate"
             /\ rows' = [rows EXCEPT ![c].status = "pending_retry",
                                     ![c].due = TRUE, ![c].released = TRUE]
    BY <2>1, <2>5 DEF ClaimInv, TypeOK, Row
  <2> QED BY <1>2, <2>2, <2>3, <2>4, <2>5
<1>3. rows' = rows => \A r \in RowIds : Same(r)
  OBVIOUS
<1> HIDE DEF Changed
<1>4. \A r \in RowIds : Same(r)
  BY <1>1, <1>2, <1>3
<1> QED BY <1>1, <1>4

\* The result is written, unless somebody else holds the row by now.
LEMMA FinalizeDoes ==
  ASSUME ClaimInv, NEW w \in Workers, NEW r, r = job[w].row,
         FinalizeSent(w) \/ FinalizeFailed(w)
  PROVE  /\ Others(w) /\ mail' = mail /\ config' = config
         /\ pc'[w] \in {"idle", "flushing"}
         /\ job'[w].batch = job[w].batch /\ job'[w].row \notin RowIds
         /\ ~job'[w].amb /\ job'[w].sel = "none"
         /\ \/ rows' = rows /\ ~MayFinalize(w, r)
            \/ /\ OnlyRow(r) /\ MayFinalize(w, r)
               /\ \/ /\ pc[w] = "delivered"
                     /\ r \in RowIds => rows'[r] = MarkSent(rows[r], job[w].amb)
                  \/ /\ pc[w] = "failed" /\ banner'
                     /\ r \in RowIds => rows'[r] = KeepPending(rows[r], job[w].amb)
<1> USE DEF env
<1>1. \E b \in BOOLEAN : Leave(w, b)
  <2>1. MayFinalize(w, job[w].row) \in BOOLEAN
    BY DEF MayFinalize
  <2>2. Leave(w, MayFinalize(w, job[w].row)) \/ Leave(w, FALSE)
    BY Zenon DEF FinalizeSent, FinalizeFailed
  <2> QED BY <2>1, <2>2, Zenon
<1>2. /\ Others(w) /\ pc'[w] \in {"idle", "flushing"}
      /\ job'[w].batch = job[w].batch /\ job'[w].row \notin RowIds
      /\ ~job'[w].amb /\ job'[w].sel = "none"
  BY <1>1, LeaveDoes
<1>3. mail' = mail /\ config' = config
  BY DEF FinalizeSent, FinalizeFailed
<1>4. CASE ~MayFinalize(w, r)
  BY <1>2, <1>3, <1>4 DEF FinalizeSent, FinalizeFailed
<1>5. CASE MayFinalize(w, r)
  <2>1. CASE FinalizeSent(w)
    BY <1>2, <1>3, <1>5, <2>1 DEF FinalizeSent, OnlyRow, ClaimInv, TypeOK
  <2>2. CASE FinalizeFailed(w)
    BY <1>2, <1>3, <1>5, <2>2 DEF FinalizeFailed, OnlyRow, ClaimInv, TypeOK
  <2> QED BY <2>1, <2>2
<1> QED BY <1>4, <1>5

-----------------------------------------------------------------------------
(* The possible_duplicate mark covers every repetition. *)

\* No doubt is dropped: either every request is answered, or nothing raises at
\* the wire boundary after one that was not.
NoLostDoubt == "timeout" \notin Adverse \/ {"fault", "mode"} \cap Adverse = {}

\* An unmarked row that waits was not accepted, one that was sent only once.
RowFine(r) ==
  rows[r].flag \/ /\ rows[r].status \notin {"sending", "sent"} => mail[r].count = 0
                  /\ rows[r].status = "sent" => mail[r].count <= 1

\* Neither was a row whose chain has not begun; afterwards the chain knows what
\* it does not know.
HoldFine(w, r) ==
  rows[r].flag \/
    /\ r \in job[w].batch \/ (pc[w] \in {"claimed", "revalidated"} /\ job[w].row = r)
         => mail[r].count = 0
    /\ pc[w] \in {"ready", "sending", "failed"} /\ job[w].row = r
         => mail[r].count = 0 \/ job[w].amb
    /\ pc[w] = "delivered" /\ job[w].row = r => mail[r].count <= 1 \/ job[w].amb

\* What the hypothesis buys: no request was left unanswered, or no check fails
\* at the wire boundary.
DoubtInv ==
  /\ "timeout" \notin Adverse => \A w \in Workers : ~job[w].amb
  /\ "mode" \notin Adverse => \A w \in Workers : ~Unsafe(w)

RepeatInv == /\ ClaimInv /\ DoubtInv
             /\ \A r \in RowIds : RowFine(r)
             /\ \A w \in Workers, r \in RowIds : HoldFine(w, r)

\* The locals of the others stay, those of w start no chain by themselves.
LEMMA DoubtStep ==
  ASSUME DoubtInv, NEW w \in Workers, Others(w),
         "timeout" \notin Adverse => (job'[w].amb => job[w].amb),
         "mode" \notin Adverse => config' = config /\ ~Unsafe(w)'
  PROVE  DoubtInv'
BY DEF DoubtInv, Others, Unsafe

\* The test of the wire boundary never fails while Test Mode is left alone.
LEMMA NextDoubt ==
  ASSUME ClaimInv, DoubtInv, [Next]_vars
  PROVE  DoubtInv'
<1>0. \A n : config.testMode => Recipients(n, config) # "tender"
  BY DEF Recipients
<1>1. \A w \in Workers : "mode" \notin Adverse => ~Unsafe(w)
  BY DEF DoubtInv
<1>2. ASSUME NEW w \in Workers, LetsGo(w) PROVE DoubtInv'
  BY <1>1, <1>2, DoubtStep DEF LetsGo, Unsafe
<1>3. ASSUME NEW w \in Workers, NEW n \in Notices, Prepare(w, n) PROVE DoubtInv'
  <2>1. /\ Others(w) /\ config' = config /\ job'[w].amb = job[w].amb
        /\ job'[w].sel = Recipients(n, config)
    BY <1>3, PrepareDoes
  <2> QED BY <1>0, <2>1, DoubtStep DEF Unsafe
<1>4. ASSUME NEW w \in Workers, Reserve(w) PROVE DoubtInv'
  BY <1>1, <1>4, ReserveDoes, DoubtStep DEF Unsafe
<1>5. ASSUME NEW w \in Workers, BeginSend(w) PROVE DoubtInv'
  BY <1>1, <1>2, <1>5, BeginDoes, DoubtStep DEF Unsafe
<1>6. ASSUME NEW w \in Workers, ClaimPending(w) PROVE DoubtInv'
  BY <1>6, ClaimDoes, DoubtStep DEF Unsafe
<1>7. ASSUME NEW w \in Workers, OpenRow(w) PROVE DoubtInv'
  <2>1. /\ Others(w) /\ config' = config /\ job'[w].amb = job[w].amb
        /\ job'[w].sel = job[w].sel \/ (config.testMode => job'[w].sel # "tender")
    BY <1>7, OpenDoes DEF Skips, Parks, Opens
  <2> QED BY <1>1, <2>1, DoubtStep DEF Unsafe
<1>8. ASSUME NEW w \in Workers, Revalidate(w) PROVE DoubtInv'
  BY <1>0, <1>1, <1>2, <1>8, RevalidateDoes, DoubtStep DEF Unsafe
<1>9. ASSUME NEW w \in Workers, RenewClaim(w) \/ BeforeAttempt(w) PROVE DoubtInv'
  BY <1>1, <1>2, <1>9, RenewDoes, DoubtStep DEF Unsafe
<1>10. ASSUME NEW w \in Workers, AttemptFault(w) \/ ChainExhausted(w) PROVE DoubtInv'
  BY <1>1, <1>10, GiveUpDoes, DoubtStep DEF Unsafe
<1>11. ASSUME NEW w \in Workers, Accept(w) \/ Reject(w) \/ Timeout(w) PROVE DoubtInv'
  BY <1>1, <1>11, ArriveDoes, DoubtStep DEF Unsafe
<1>12. ASSUME NEW w \in Workers, FinalizeSent(w) \/ FinalizeFailed(w) PROVE DoubtInv'
  BY <1>12, FinalizeDoes, DoubtStep DEF Unsafe
<1>13. CASE Environment \/ UNCHANGED vars
  <2>1. job' = job /\ (config'.testMode = config.testMode \/ "mode" \in Adverse)
    BY <1>13 DEF Environment, LeaseExpires, BecomesDue, Requeue, SwitchTestMode,
                 EditRecipients, Spend, vars, ClaimInv, TypeOK
  <2> QED BY <2>1 DEF DoubtInv, Unsafe
<1>14. ASSUME NEW w \in Workers, Quiet(w)
       PROVE  DoubtInv'
  BY <1>2, <1>14, QuietDoes
<1> QED
  BY <1>3, <1>4, <1>5, <1>6, <1>7, <1>8, <1>9, <1>10, <1>11, <1>12, <1>13, <1>14
  DEF Next, WorkerStep, Progress, Quiet, Deliver

\* A step of w about row c: nobody else's row or locals change, the mark of c is
\* kept, a request arrives only for a row w holds, and c and w fit afterwards.
LEMMA RepeatStep ==
  ASSUME RepeatInv, NEW w \in Workers, NEW c, Others(w), OnlyRow(c),
         \A q \in RowIds \ {c} : mail'[q] = mail[q],
         job'[w].batch \subseteq job[w].batch \cup {c},
         job'[w].row = c \/ pc'[w] \notin Working \/ job'[w].row \notin RowIds,
         c \in RowIds => /\ rows[c].flag => rows'[c].flag
                         /\ mail'[c] = mail[c] \/ Holds(w, c)
                         /\ RowFine(c)' /\ HoldFine(w, c)'
  PROVE  /\ \A r \in RowIds : RowFine(r)'
         /\ \A v \in Workers, r \in RowIds : HoldFine(v, r)'
<1>1. ASSUME NEW r \in RowIds PROVE RowFine(r)'
  BY <1>1 DEF OnlyRow, RepeatInv, RowFine
<1>2. ASSUME NEW r \in RowIds PROVE HoldFine(w, r)'
  <2>1. CASE r # c
    <3>1. rows'[r] = rows[r] /\ mail'[r] = mail[r]
      BY <2>1 DEF OnlyRow
    <3>2. r \in job'[w].batch => r \in job[w].batch
      BY <2>1
    <3> QED BY <2>1, <3>1, <3>2 DEF RepeatInv, HoldFine, Working
  <2> QED BY <2>1
<1>3. ASSUME NEW v \in Workers \ {w}, NEW r \in RowIds PROVE HoldFine(v, r)'
  <2>1. pc'[v] = pc[v] /\ job'[v] = job[v] /\ HoldFine(v, r)
    BY DEF Others, RepeatInv
  <2>2. CASE mail'[r] = mail[r]
    <3>1. rows[r].flag => rows'[r].flag
      BY DEF OnlyRow
    <3> QED BY <2>1, <2>2, <3>1 DEF HoldFine
  <2>3. CASE r = c /\ Holds(w, c) /\ Holds(v, c)
    BY <2>3 DEF RepeatInv, ClaimInv, Claims, ClaimLossIsFlagged, Owns, HoldFine
  <2>4. CASE r = c /\ ~Holds(v, c)
    BY <2>1, <2>4 DEF HoldFine, Holds, Working
  <2> QED BY <2>2, <2>3, <2>4
<1> QED BY <1>1, <1>2, <1>3

LEMMA RepeatLetsGo ==
  ASSUME RepeatInv, NEW w \in Workers, LetsGo(w)
  PROVE  /\ \A r \in RowIds : RowFine(r)'
         /\ \A v \in Workers, r \in RowIds : HoldFine(v, r)'
<1>1. ASSUME NEW r \in RowIds PROVE RowFine(r)'
  BY DEF LetsGo, RepeatInv, RowFine
<1>2. ASSUME NEW v \in Workers, NEW r \in RowIds PROVE HoldFine(v, r)'
  <2>1. HoldFine(v, r)
    BY DEF RepeatInv
  <2> QED BY <2>1 DEF LetsGo, Others, HoldFine
<1> QED BY <1>1, <1>2

\* An unmarked row that an instance holds is being sent by it and nobody else.
LEMMA HeldIsOwned ==
  ASSUME ClaimInv, NEW w \in Workers, NEW r \in RowIds, Holds(w, r), ~rows[r].flag
  PROVE  Owns(w, r)
BY DEF ClaimInv, Claims, ClaimLossIsFlagged

LEMMA RepeatLive ==
  ASSUME RepeatInv, NEW w \in Workers,
         (\E n \in Notices : Prepare(w, n)) \/ Reserve(w) \/ BeginSend(w)
  PROVE  /\ \A r \in RowIds : RowFine(r)'
         /\ \A v \in Workers, r \in RowIds : HoldFine(v, r)'
<1>0. ClaimInv /\ TypeOK /\ job[w] \in Job /\ -1 \notin RowIds
  BY OutboxConstants DEF RepeatInv, ClaimInv, TypeOK
<1>1. CASE \E n \in Notices : Prepare(w, n)
  <2>1. /\ Others(w) /\ rows' = rows /\ mail' = mail
        /\ pc'[w] = "prepared" /\ job'[w].batch = job[w].batch
    BY <1>0, <1>1, PrepareDoes
  <2>2. ASSUME NEW v \in Workers, NEW r \in RowIds PROVE HoldFine(v, r)'
    BY <2>1 DEF RepeatInv, Others, HoldFine
  <2> QED BY <2>1, <2>2 DEF RepeatInv, RowFine
<1>2. CASE Reserve(w)
  <2>1. PICK r \in RowIds :
          /\ rows[r].status = "absent" /\ OnlyRow(r) /\ job'[w].row = r
          /\ rows'[r].status = "pending" /\ ~rows'[r].flag
    BY <1>0, <1>2, ReserveDoes
  <2>2. /\ Others(w) /\ mail' = mail /\ pc'[w] = "reserved"
        /\ job'[w].batch = job[w].batch
    BY <1>0, <1>2, ReserveDoes
  <2>3. ~rows[r].flag /\ mail[r].count = 0
    BY <2>1 DEF RepeatInv, ClaimInv, Claims, AbsentUnflagged, RowFine
  <2>4. RowFine(r)' /\ HoldFine(w, r)'
    BY <2>1, <2>2, <2>3 DEF RowFine, HoldFine
  <2> QED BY <2>1, <2>2, <2>3, <2>4, RepeatStep
<1>3. CASE BeginSend(w)
  <2>1. CASE LetsGo(w)
    BY <2>1, RepeatLetsGo
  <2>2. CASE ~LetsGo(w)
    <3>0. PICK r : r = job[w].row
      OBVIOUS
    <3>1. /\ Others(w) /\ mail' = mail /\ Sendable(r) /\ OnlyRow(r)
          /\ (r \in RowIds => rows'[r] = Claim(rows[r], w))
          /\ job'[w] = job[w] /\ pc'[w] \in {"failed", "claimed"}
      BY <1>0, <1>3, <2>2, <3>0, BeginDoes
    <3>2. ASSUME r \in RowIds
          PROVE  /\ rows[r].flag => rows'[r].flag
                 /\ RowFine(r)' /\ HoldFine(w, r)'
      <4>1. rows'[r].status = "sending" /\ rows'[r].flag = rows[r].flag
        BY <1>0, <3>1, <3>2 DEF Claim, TypeOK, Row
      <4>2. rows[r].flag \/ mail[r].count = 0
        BY <3>1, <3>2 DEF Sendable, RepeatInv, RowFine
      <4> QED BY <3>1, <4>1, <4>2 DEF RowFine, HoldFine
    <3> QED BY <3>0, <3>1, <3>2, RepeatStep
  <2> QED BY <2>1, <2>2
<1> QED BY <1>1, <1>2, <1>3

LEMMA RepeatFlush ==
  ASSUME RepeatInv, NEW w \in Workers, ClaimPending(w) \/ OpenRow(w)
  PROVE  /\ \A r \in RowIds : RowFine(r)'
         /\ \A v \in Workers, r \in RowIds : HoldFine(v, r)'
<1>0. ClaimInv /\ TypeOK /\ job[w] \in Job
  BY DEF RepeatInv, ClaimInv, TypeOK
<1>1. CASE ClaimPending(w)
  <2>1. /\ Others(w) /\ mail' = mail /\ pc'[w] = "flushing"
    BY <1>0, <1>1, ClaimDoes
  <2>2. ASSUME NEW r \in RowIds
        PROVE  /\ rows[r].flag => rows'[r].flag
               /\ \/ rows'[r].flag
                  \/ /\ r \in job'[w].batch
                     /\ rows[r].status \in {"pending", "pending_retry"}
                     /\ rows'[r].flag = rows[r].flag /\ rows'[r].status = "sending"
                  \/ rows'[r] = rows[r] /\ r \notin job'[w].batch
    BY <1>0, <1>1, ClaimDoes
  <2>3. ASSUME NEW r \in RowIds, r \in job'[w].batch, ~rows'[r].flag
        PROVE  mail'[r].count = 0
    <3>1. rows[r].status \in {"pending", "pending_retry"} /\ ~rows[r].flag
      BY <2>2, <2>3
    <3> QED BY <2>1, <3>1 DEF RepeatInv, RowFine
  <2>4. ASSUME NEW r \in RowIds PROVE RowFine(r)'
    BY <2>1, <2>2, <2>3 DEF RepeatInv, RowFine
  <2>5. ASSUME NEW v \in Workers, NEW r \in RowIds PROVE HoldFine(v, r)'
    <3>1. CASE v = w
      BY <2>1, <2>3, <3>1 DEF HoldFine
    <3>2. CASE v # w
      BY <2>1, <2>2, <3>2 DEF RepeatInv, HoldFine, Others
    <3> QED BY <3>1, <3>2
  <2> QED BY <2>4, <2>5
<1>2. CASE OpenRow(w)
  <2>1. PICK r \in job[w].batch :
          /\ r \in RowIds /\ OnlyRow(r) /\ job'[w].batch = job[w].batch \ {r}
          /\ Skips(w, r) \/ Parks(w, r) \/ Opens(w, r)
    BY <1>0, <1>2, OpenDoes
  <2>2. Others(w) /\ mail' = mail
    BY <1>0, <1>2, OpenDoes
  <2>3. rows[r] \in Row /\ r \notin job'[w].batch
    BY <1>0, <2>1 DEF TypeOK
  <2>4. rows[r].flag \/ mail[r].count = 0
    BY <2>1 DEF RepeatInv, HoldFine
  <2>5. CASE Skips(w, r)
    BY <2>1, <2>2, <2>3, <2>5, RepeatStep DEF Skips, RepeatInv, RowFine, HoldFine, Working
  <2>6. CASE Parks(w, r)
    <3>0. rows'[r] = KeepPending(rows[r], FALSE) /\ pc'[w] = "flushing"
      BY <2>6 DEF Parks
    <3>1. /\ rows[r].flag <=> rows'[r].flag
          /\ rows'[r].status \notin {"sending", "sent"}
      BY <2>3, <3>0 DEF KeepPending, Row
    <3>2. RowFine(r)' /\ HoldFine(w, r)'
      BY <2>2, <2>3, <2>4, <3>0, <3>1 DEF RowFine, HoldFine
    <3> QED BY <2>1, <2>2, <3>0, <3>1, <3>2, RepeatStep DEF Working
  <2>7. CASE Opens(w, r)
    <3>0. /\ job'[w].row = r /\ pc'[w] \in {"claimed", "failed"}
          /\ rows'[r] = [rows[r] EXCEPT !.to = job'[w].to]
      BY <2>7 DEF Opens
    <3>1. rows'[r].flag = rows[r].flag /\ rows'[r].status = rows[r].status
      BY <2>3, <3>0 DEF Row
    <3>2. RowFine(r)' /\ HoldFine(w, r)'
      BY <2>2, <2>3, <2>4, <3>0, <3>1 DEF RepeatInv, RowFine, HoldFine
    <3> QED BY <2>1, <2>2, <3>0, <3>1, <3>2, RepeatStep
  <2> QED BY <2>1, <2>5, <2>6, <2>7
<1> QED BY <1>1, <1>2

LEMMA RepeatDeliver ==
  ASSUME NoLostDoubt, RepeatInv, NEW w \in Workers, Deliver(w) \/ AttemptFault(w)
  PROVE  /\ \A r \in RowIds : RowFine(r)'
         /\ \A v \in Workers, r \in RowIds : HoldFine(v, r)'
<1>0. ClaimInv /\ TypeOK /\ JobShape /\ job[w] \in Job
  BY DEF RepeatInv, ClaimInv, TypeOK
<1>1. PICK r : r = job[w].row
  OBVIOUS
<1>2. r \notin job[w].batch
  BY <1>0, <1>1 DEF JobShape
<1>3. CASE Revalidate(w)
  <2>1. CASE LetsGo(w)
    BY <2>1, RepeatLetsGo
  <2>2. CASE ~LetsGo(w)
    <3>1. /\ Others(w) /\ mail' = mail /\ pc[w] = "claimed"
          /\ job'[w].batch = job[w].batch /\ job'[w].row = r
          /\ pc'[w] \in {"failed", "ready", "revalidated"}
          /\ \/ rows' = rows
             \/ /\ OnlyRow(r)
                /\ r \in RowIds =>
                     rows'[r] = Rerouted(rows[r], Recipients(rows[r].notice, config))
      BY <1>0, <1>1, <1>3, <2>2, RevalidateDoes
    <3>2. OnlyRow(r)
      BY <3>1 DEF OnlyRow
    <3>3. ASSUME r \in RowIds
          PROVE  /\ rows'[r].flag = rows[r].flag
                 /\ RowFine(r)' /\ HoldFine(w, r)'
      <4>1. rows'[r].flag = rows[r].flag /\ rows'[r].status = rows[r].status
        BY <1>0, <3>1, <3>3 DEF TypeOK, Row, Rerouted
      <4>2. rows[r].flag \/ mail[r].count = 0
        BY <1>1, <3>1, <3>3 DEF RepeatInv, HoldFine
      <4> QED BY <1>2, <3>1, <3>3, <4>1, <4>2 DEF RepeatInv, RowFine, HoldFine
    <3> QED BY <3>1, <3>2, <3>3, RepeatStep
  <2> QED BY <2>1, <2>2
<1>4. CASE RenewClaim(w) \/ BeforeAttempt(w)
  <2>1. CASE LetsGo(w)
    BY <2>1, RepeatLetsGo
  <2>2. CASE ~LetsGo(w)
    <3>1. /\ Others(w) /\ mail' = mail /\ job'[w].batch = job[w].batch
          /\ job'[w].row = r /\ pc[w] \in {"revalidated", "ready"}
          /\ \/ /\ pc[w] = "ready" /\ pc'[w] = "failed"
                /\ \/ ~Owns(w, r) /\ rows' = rows
                   \/ Unsafe(w) /\ rows' = [rows EXCEPT ![r].lease = "live"]
             \/ /\ pc'[w] \in {"ready", "sending"} /\ job'[w].amb = job[w].amb
                /\ rows' = [rows EXCEPT ![r].lease = "live"]
      BY <1>0, <1>1, <1>4, <2>2, RenewDoes, ZenonT(60)
    <3>2. rows' = rows \/ rows' = [rows EXCEPT ![r].lease = "live"]
      BY <3>1
    <3>9. OnlyRow(r)
      <4>1. CASE rows' = rows
        BY <4>1 DEF OnlyRow
      <4>2. CASE rows' = [rows EXCEPT ![r].lease = "live"]
        BY <1>0, <4>2, LeaseFields
      <4> QED BY <3>2, <4>1, <4>2
    <3>3. ASSUME r \in RowIds
          PROVE  /\ rows[r].flag => rows'[r].flag
                 /\ RowFine(r)' /\ HoldFine(w, r)'
      <4>0. rows'[r].flag = rows[r].flag /\ rows'[r].status = rows[r].status
        BY <1>0, <3>2, <3>3, LeaseFields
      <4>1. (rows'[r].flag <=> rows[r].flag) /\ rows'[r].status = rows[r].status
        BY <4>0
      <4>2. RowFine(r)'
        BY <3>1, <3>3, <4>1 DEF RepeatInv, RowFine
      <4>3. HoldFine(w, r)
        BY <3>3 DEF RepeatInv
      <4>4. ASSUME pc'[w] \in {"ready", "sending"}, job'[w].amb = job[w].amb
            PROVE  HoldFine(w, r)'
        <5>1. job[w].amb => job'[w].amb
          BY <4>4
        <5> QED BY <1>1, <1>2, <3>1, <4>1, <4>3, <4>4, <5>1 DEF HoldFine
      <4>5. ASSUME pc'[w] = "failed", pc[w] = "ready", ~Owns(w, r)
            PROVE  HoldFine(w, r)'
        <5>1. Holds(w, r)
          BY <1>1, <4>5 DEF Holds, Working
        <5>2. rows[r].flag
          BY <1>0, <3>3, <4>5, <5>1, HeldIsOwned
        <5> QED BY <4>1, <5>2 DEF HoldFine
      <4>6. ASSUME pc'[w] = "failed", pc[w] = "ready", Unsafe(w)
            PROVE  HoldFine(w, r)'
        <5>1. ~job[w].amb
          BY <4>6 DEF NoLostDoubt, RepeatInv, DoubtInv
        <5> QED BY <1>1, <1>2, <3>1, <4>1, <4>3, <4>6, <5>1 DEF HoldFine
      <4> QED BY <3>1, <4>1, <4>2, <4>4, <4>5, <4>6
    <3> QED BY <3>1, <3>3, <3>9, RepeatStep
  <2> QED BY <2>1, <2>2
<1>5. CASE AttemptFault(w) \/ ChainExhausted(w)
  <2>1. /\ Others(w) /\ rows' = rows /\ mail' = mail
        /\ pc[w] = "ready" /\ pc'[w] = "failed"
        /\ job'[w].batch = job[w].batch /\ job'[w].row = job[w].row
        /\ job'[w].amb = job[w].amb \/ "fault" \in Adverse
    BY <1>0, <1>5, GiveUpDoes
  <2>2. job'[w].amb = job[w].amb \/ ~job[w].amb
    BY <2>1 DEF NoLostDoubt, RepeatInv, DoubtInv
  <2>3. OnlyRow(r)
    BY <2>1 DEF OnlyRow
  <2>4. ASSUME r \in RowIds PROVE RowFine(r)' /\ HoldFine(w, r)'
    <3>1. HoldFine(w, r) /\ RowFine(r)
      BY <2>4 DEF RepeatInv
    <3> QED BY <1>1, <1>2, <2>1, <2>2, <3>1 DEF RowFine, HoldFine
  <2> QED BY <1>1, <2>1, <2>3, <2>4, RepeatStep
<1>6. CASE Accept(w) \/ Reject(w) \/ Timeout(w)
  <2>1. /\ Others(w) /\ rows' = rows /\ pc[w] = "sending"
        /\ job'[w].batch = job[w].batch /\ job'[w].row = r
        /\ \/ /\ mail' = mail /\ pc'[w] = "ready"
              /\ job'[w].amb = job[w].amb \/ job'[w].amb
           \/ /\ \A q \in RowIds \ {r} : mail'[q] = mail[q]
              /\ r \in RowIds =>
                   mail'[r].count = IF mail[r].count < 2 THEN mail[r].count + 1
                                                        ELSE mail[r].count
              /\ \/ pc'[w] = "delivered" /\ job'[w].amb = job[w].amb
                 \/ pc'[w] = "ready" /\ job'[w].amb
    BY <1>0, <1>1, <1>6, ArriveDoes
  <2>2. OnlyRow(r) /\ \A q \in RowIds \ {r} : mail'[q] = mail[q]
    BY <2>1 DEF OnlyRow
  <2>3. Holds(w, r)
    BY <1>1, <2>1 DEF Holds, Working
  <2>4. ASSUME r \in RowIds PROVE RowFine(r)' /\ HoldFine(w, r)'
    <3>1. HoldFine(w, r) /\ RowFine(r)
      BY <2>4 DEF RepeatInv
    <3>2. rows[r].flag \/ rows[r].status = "sending"
      BY <1>0, <2>3, <2>4, HeldIsOwned DEF Owns
    <3>3. RowFine(r)'
      BY <2>1, <3>2 DEF RowFine
    <3>4. rows[r].flag \/ mail[r].count = 0 \/ job[w].amb
      BY <1>1, <2>1, <3>1 DEF HoldFine
    <3>5. mail[r].count \in 0..2
      BY <1>0, <2>4 DEF TypeOK
    <3>6. ASSUME mail' = mail, pc'[w] = "ready", job[w].amb => job'[w].amb
          PROVE  HoldFine(w, r)'
      BY <1>2, <2>1, <3>4, <3>6 DEF HoldFine
    <3>7. ASSUME pc'[w] = "ready", job'[w].amb
          PROVE  HoldFine(w, r)'
      BY <1>2, <2>1, <3>7 DEF HoldFine
    <3>8. ASSUME mail'[r].count = IF mail[r].count < 2 THEN mail[r].count + 1
                                                       ELSE mail[r].count,
                 pc'[w] = "delivered", job'[w].amb = job[w].amb
          PROVE  HoldFine(w, r)'
      <4>1. /\ mail[r].count = 0 => mail'[r].count <= 1
            /\ job[w].amb => job'[w].amb
        BY <3>8
      <4> QED BY <1>2, <2>1, <3>4, <3>8, <4>1 DEF HoldFine
    <3> QED BY <2>1, <2>4, <3>3, <3>6, <3>7, <3>8
  <2> QED BY <2>1, <2>2, <2>3, <2>4, RepeatStep
<1>7. CASE FinalizeSent(w) \/ FinalizeFailed(w)
  <2>1. /\ Others(w) /\ mail' = mail /\ pc'[w] \in {"idle", "flushing"}
        /\ job'[w].batch = job[w].batch /\ job'[w].row \notin RowIds
        /\ \/ rows' = rows
           \/ /\ OnlyRow(r)
              /\ \/ /\ pc[w] = "delivered"
                    /\ r \in RowIds => rows'[r] = MarkSent(rows[r], job[w].amb)
                 \/ /\ pc[w] = "failed"
                    /\ r \in RowIds => rows'[r] = KeepPending(rows[r], job[w].amb)
    BY <1>0, <1>1, <1>7, FinalizeDoes
  <2>2. OnlyRow(r)
    BY <2>1 DEF OnlyRow
  <2>3. ASSUME r \in RowIds
        PROVE  /\ rows[r].flag => rows'[r].flag
               /\ RowFine(r)' /\ HoldFine(w, r)'
    <3>1. HoldFine(w, r) /\ RowFine(r) /\ rows[r] \in Row /\ job[w].amb \in BOOLEAN
      BY <1>0, <2>3 DEF RepeatInv, TypeOK, Job
    <3>2. HoldFine(w, r)'
      BY <1>2, <2>1, <2>3 DEF HoldFine
    <3>3. CASE rows' = rows
      BY <2>1, <3>1, <3>2, <3>3 DEF RowFine
    <3>4. CASE pc[w] = "delivered" /\ rows'[r] = MarkSent(rows[r], job[w].amb)
      <4>1. /\ rows'[r].status = "sent"
            /\ rows'[r].flag <=> rows[r].flag \/ job[w].amb
        BY <3>1, <3>4 DEF MarkSent, Row
      <4> QED BY <1>1, <2>1, <3>1, <3>2, <3>4, <4>1 DEF RowFine, HoldFine
    <3>5. CASE pc[w] = "failed" /\ rows'[r] = KeepPending(rows[r], job[w].amb)
      <4>1. /\ rows'[r].status \notin {"sending", "sent"}
            /\ rows'[r].flag <=> rows[r].flag \/ job[w].amb
        BY <3>1, <3>5 DEF KeepPending, Row
      <4> QED BY <1>1, <2>1, <3>1, <3>2, <3>5, <4>1 DEF RowFine, HoldFine
    <3> QED BY <2>1, <2>3, <3>3, <3>4, <3>5
  <2> QED BY <2>1, <2>2, <2>3, RepeatStep
<1> QED BY <1>3, <1>4, <1>5, <1>6, <1>7 DEF Deliver

LEMMA NextRepeat ==
  ASSUME NoLostDoubt, RepeatInv, [Next]_vars
  PROVE  RepeatInv'
<1>1. ClaimInv' /\ DoubtInv'
  BY NextClaimInv, NextDoubt DEF RepeatInv
<1> SUFFICES /\ \A r \in RowIds : RowFine(r)'
             /\ \A v \in Workers, r \in RowIds : HoldFine(v, r)'
  BY <1>1 DEF RepeatInv
<1>2. CASE Environment \/ UNCHANGED vars
  <2>1. /\ pc' = pc /\ job' = job /\ mail' = mail
        /\ \A r \in RowIds :
             /\ rows'[r].flag = rows[r].flag
             /\ \/ rows'[r].status = rows[r].status
                \/ /\ rows[r].status = "possible_duplicate"
                   /\ rows'[r].status = "pending_retry"
    <3>1. \A r \in RowIds : rows[r] \in Row
      BY DEF RepeatInv, ClaimInv, TypeOK
    <3> QED BY <1>2, <3>1, EnvironmentDoes DEF RepeatInv
  <2>2. ASSUME NEW r \in RowIds PROVE RowFine(r)'
    BY <2>1 DEF RepeatInv, RowFine
  <2>3. ASSUME NEW v \in Workers, NEW r \in RowIds PROVE HoldFine(v, r)'
    BY <2>1 DEF RepeatInv, HoldFine
  <2> QED BY <2>2, <2>3
<1>3. ASSUME NEW w \in Workers, WorkerStep(w)
      PROVE  /\ \A r \in RowIds : RowFine(r)'
             /\ \A v \in Workers, r \in RowIds : HoldFine(v, r)'
  <2>1. CASE Quiet(w)
    BY <2>1, QuietDoes, RepeatLetsGo DEF RepeatInv
  <2> QED BY <1>3, <2>1, RepeatLive, RepeatFlush, RepeatDeliver
          DEF WorkerStep, Progress, Quiet
<1> QED BY <1>2, <1>3 DEF Next

LEMMA InitRepeat == Init => RepeatInv
<1> SUFFICES ASSUME Init PROVE RepeatInv
  OBVIOUS
<1>1. ClaimInv
  BY InitClaimInv
<1>2. DoubtInv
  BY DEF Init, NoJob, DoubtInv, Unsafe
<1> QED BY <1>1, <1>2 DEF Init, NoJob, AbsentRow, RepeatInv, RowFine, HoldFine

\* Whatever crashes, runs late or is refused, as long as no doubt is dropped at
\* the wire boundary: a row nobody is sending that was accepted twice, or accepted
\* without being called sent, is marked possible_duplicate.
THEOREM RepeatsAreFlagged == NoLostDoubt => (Spec => []RepeatIsFlagged)
<1> SUFFICES ASSUME NoLostDoubt PROVE Spec => []RepeatIsFlagged
  OBVIOUS
<1>1. Init => RepeatInv
  BY InitRepeat
<1>2. RepeatInv /\ [Next]_vars => RepeatInv'
  BY NextRepeat
<1>3. RepeatInv => RepeatIsFlagged
  <2> SUFFICES ASSUME RepeatInv, NEW r \in RowIds, rows[r].status # "sending",
                      mail[r].count > (IF rows[r].status = "sent" THEN 1 ELSE 0)
               PROVE  rows[r].flag
    BY DEF RepeatIsFlagged
  <2>1. RowFine(r) /\ mail[r].count \in 0..2
    BY DEF RepeatInv, ClaimInv, TypeOK
  <2> QED BY <2>1 DEF RowFine
<1> QED BY <1>1, <1>2, <1>3, PTL DEF Spec

-----------------------------------------------------------------------------
(* One list, one message. *)

\* The unique index on the dedupe key: no two rows of one notice share it.
KeysDistinct ==
  \A q, r \in RowIds :
    /\ q # r /\ rows[q].notice = rows[r].notice
    /\ rows[q].status # "absent" /\ rows[r].status # "absent"
    => rows[q].key # rows[r].key

ReachedIsCounted == \A r \in RowIds : mail[r].reached # {} => mail[r].count > 0

\* An unmarked row was accepted for no list but the one in its key ...
KeyFine(r) == rows[r].flag \/ mail[r].reached \subseteq {rows[r].key}

\* ... and after the revalidation the message goes to that list.
Addressed == {"revalidated", "ready", "sending"}
MessageFine(w, r) ==
  rows[r].flag \/ (pc[w] \in Addressed /\ job[w].row = r => job[w].to = rows[r].key)

ListInv == /\ RepeatInv /\ ListsStaffed /\ KeysDistinct /\ ReachedIsCounted
           /\ \A r \in RowIds : KeyFine(r)
           /\ \A w \in Workers, r \in RowIds : MessageFine(w, r)

ListGoal == /\ KeysDistinct' /\ ReachedIsCounted'
            /\ \A r \in RowIds : KeyFine(r)'
            /\ \A w \in Workers, r \in RowIds : MessageFine(w, r)'

\* A step of w about row c: its key is new to its notice if it changes, and w has
\* the row to itself when it does.
LEMMA ListStep ==
  ASSUME ListInv, NEW w \in Workers, NEW c, Others(w), OnlyRow(c),
         \A q \in RowIds \ {c} : mail'[q] = mail[q],
         job'[w].row = c \/ pc'[w] \notin Working \/ job'[w].row \notin RowIds,
         c \in RowIds =>
           /\ rows[c].flag => rows'[c].flag
           /\ \/ /\ rows'[c].notice = rows[c].notice /\ rows'[c].key = rows[c].key
                 /\ rows[c].status = "absent" => rows'[c].status = "absent"
              \/ /\ \A q \in RowIds \ {c} :
                      rows[q].notice = rows'[c].notice => rows[q].key # rows'[c].key
                 /\ Holds(w, c) \/ rows[c].status # "sending"
           /\ mail'[c].reached # {} => mail'[c].count > 0
           /\ KeyFine(c)' /\ MessageFine(w, c)'
  PROVE  ListGoal
<1>1. KeysDistinct'
  BY DEF ListInv, KeysDistinct, OnlyRow
<1>2. ReachedIsCounted'
  BY DEF ListInv, ReachedIsCounted
<1>3. ASSUME NEW r \in RowIds PROVE KeyFine(r)'
  BY <1>3 DEF ListInv, KeyFine, OnlyRow
<1>4. ASSUME NEW r \in RowIds PROVE MessageFine(w, r)'
  BY <1>4 DEF MessageFine, OnlyRow, Addressed, Working
<1>5. ASSUME NEW v \in Workers \ {w}, NEW r \in RowIds PROVE MessageFine(v, r)'
  <2>1. pc'[v] = pc[v] /\ job'[v] = job[v] /\ MessageFine(v, r)
    BY DEF Others, ListInv
  <2>2. CASE rows'[r].key = rows[r].key
    <3>1. rows[r].flag => rows'[r].flag
      BY DEF OnlyRow
    <3> QED BY <2>1, <2>2, <3>1 DEF MessageFine
  <2>3. CASE r = c /\ (Holds(w, c) \/ rows[c].status # "sending")
    <3>1. Holds(v, c) => rows[c].flag
      BY <2>3, HeldIsOwned DEF ListInv, RepeatInv, Owns
    <3> QED BY <2>1, <2>3, <3>1 DEF MessageFine, Holds, Addressed, Working
  <2> QED BY <2>2, <2>3 DEF OnlyRow
<1> QED BY <1>1, <1>2, <1>3, <1>4, <1>5 DEF ListGoal

\* A step that changes neither the keys nor the mail, and starts no message.
LEMMA ListQuiet ==
  ASSUME ListInv, NEW w \in Workers, Others(w), mail' = mail, pc'[w] \notin Addressed,
         \A r \in RowIds : /\ rows'[r].notice = rows[r].notice
                           /\ rows'[r].key = rows[r].key
                           /\ rows[r].status = "absent" => rows'[r].status = "absent"
                           /\ rows[r].flag => rows'[r].flag
  PROVE  ListGoal
<1>1. KeysDistinct' /\ ReachedIsCounted'
  BY DEF ListInv, KeysDistinct, ReachedIsCounted
<1>2. ASSUME NEW r \in RowIds PROVE KeyFine(r)'
  BY DEF ListInv, KeyFine
<1>3. ASSUME NEW v \in Workers, NEW r \in RowIds PROVE MessageFine(v, r)'
  BY DEF ListInv, MessageFine, Others
<1> QED BY <1>1, <1>2, <1>3 DEF ListGoal

LEMMA ListLive ==
  ASSUME ListInv, NEW w \in Workers,
         (\E n \in Notices : Prepare(w, n)) \/ Reserve(w) \/ BeginSend(w)
  PROVE  ListGoal
<1>0. ClaimInv /\ TypeOK /\ job[w] \in Job
  BY DEF ListInv, RepeatInv, ClaimInv, TypeOK
<1>1. CASE \E n \in Notices : Prepare(w, n)
  <2>1. Others(w) /\ rows' = rows /\ mail' = mail /\ pc'[w] = "prepared"
    BY <1>0, <1>1, PrepareDoes
  <2> QED BY <2>1, ListQuiet DEF Addressed
<1>2. CASE Reserve(w)
  <2>1. PICK r \in RowIds :
          /\ rows[r].status = "absent" /\ OnlyRow(r) /\ job'[w].row = r
          /\ rows'[r].status = "pending" /\ ~rows'[r].flag
          /\ rows'[r].notice = job[w].notice
          /\ rows'[r].key = job[w].sel /\ rows'[r].to = job[w].sel
    BY <1>0, <1>2, ReserveDoes
  <2>2. /\ Others(w) /\ mail' = mail /\ pc'[w] = "reserved"
        /\ ~KeyTaken(job[w].notice, job[w].sel)
    BY <1>0, <1>2, ReserveDoes
  <2>3. /\ ~rows[r].flag /\ mail[r].reached = {}
    <3>1. ~rows[r].flag
      BY <1>0, <2>1 DEF ClaimInv, Claims, AbsentUnflagged
    <3>2. mail[r].count = 0
      BY <2>1, <3>1 DEF ListInv, RepeatInv, RowFine
    <3> QED BY <3>1, <3>2 DEF ListInv, ReachedIsCounted
  <2>4. \A q \in RowIds : rows[q].notice = rows'[r].notice => rows[q].key # rows'[r].key
    BY <2>1, <2>2 DEF KeyTaken
  <2>5. KeyFine(r)' /\ MessageFine(w, r)'
    BY <2>2, <2>3 DEF KeyFine, MessageFine, Addressed
  <2> QED BY <2>1, <2>2, <2>3, <2>4, <2>5, ListStep
<1>3. CASE BeginSend(w)
  <2>1. CASE LetsGo(w)
    BY <2>1, ListQuiet DEF LetsGo, Addressed
  <2>2. CASE ~LetsGo(w)
    <3>0. PICK r : r = job[w].row
      OBVIOUS
    <3>1. /\ Others(w) /\ mail' = mail /\ Sendable(r) /\ OnlyRow(r)
          /\ (r \in RowIds => rows'[r] = Claim(rows[r], w))
          /\ pc'[w] \in {"failed", "claimed"}
      BY <1>0, <1>3, <2>2, <3>0, BeginDoes
    <3>2. ASSUME NEW q \in RowIds
          PROVE  /\ rows'[q].notice = rows[q].notice /\ rows'[q].key = rows[q].key
                 /\ rows[q].status = "absent" => rows'[q].status = "absent"
                 /\ rows[q].flag => rows'[q].flag
      <4>1. rows[q] \in Row
        BY <1>0 DEF TypeOK
      <4>2. CASE q = r
        BY <3>1, <4>1, <4>2 DEF Claim, Row, Sendable
      <4>3. CASE q # r
        BY <3>1, <4>3 DEF OnlyRow
      <4> QED BY <4>2, <4>3
    <3> QED BY <3>1, <3>2, ListQuiet DEF Addressed
  <2> QED BY <2>1, <2>2
<1> QED BY <1>1, <1>2, <1>3

LEMMA ListFlush ==
  ASSUME ListInv, NEW w \in Workers, ClaimPending(w) \/ OpenRow(w)
  PROVE  ListGoal
<1>0. ClaimInv /\ TypeOK /\ job[w] \in Job
  BY DEF ListInv, RepeatInv, ClaimInv, TypeOK
<1>1. CASE ClaimPending(w)
  <2>1. /\ Others(w) /\ mail' = mail /\ pc'[w] = "flushing"
    BY <1>0, <1>1, ClaimDoes
  <2>2. ASSUME NEW r \in RowIds
        PROVE  /\ rows'[r].notice = rows[r].notice /\ rows'[r].key = rows[r].key
               /\ rows[r].status = "absent" => rows'[r].status = "absent"
               /\ rows[r].flag => rows'[r].flag
    BY <1>0, <1>1, ClaimDoes
  <2> QED BY <2>1, <2>2, ListQuiet DEF Addressed
<1>2. CASE OpenRow(w)
  <2>1. PICK r \in job[w].batch :
          /\ r \in RowIds /\ OnlyRow(r) /\ job'[w].batch = job[w].batch \ {r}
          /\ Skips(w, r) \/ Parks(w, r) \/ Opens(w, r)
    BY <1>0, <1>2, OpenDoes
  <2>2. Others(w) /\ mail' = mail
    BY <1>0, <1>2, OpenDoes
  <2>3. rows[r] \in Row
    BY <1>0, <2>1 DEF TypeOK
  <2>4. pc'[w] \notin Addressed
    BY <2>1 DEF Skips, Parks, Opens, Addressed
  <2>5. /\ rows'[r].notice = rows[r].notice /\ rows'[r].key = rows[r].key
        /\ rows[r].flag => rows'[r].flag
        /\ rows[r].status = "absent" => rows'[r].status = "absent" \/ Holds(w, r)
    <3>1. CASE Skips(w, r)
      BY <3>1 DEF Skips
    <3>2. CASE Parks(w, r)
      BY <2>1, <2>3, <3>2 DEF Parks, KeepPending, Row, Holds
    <3>3. CASE Opens(w, r)
      BY <2>3, <3>3 DEF Opens, Row
    <3> QED BY <2>1, <3>1, <3>2, <3>3
  <2>6. Holds(w, r) => rows[r].status # "absent"
    BY <1>0, <2>1 DEF ClaimInv, Claims, ClaimLossIsFlagged, AbsentUnflagged, Owns
  <2> QED BY <2>1, <2>2, <2>4, <2>5, <2>6, ListQuiet DEF OnlyRow
<1> QED BY <1>1, <1>2

LEMMA ListDeliver ==
  ASSUME ListInv, NEW w \in Workers, Deliver(w) \/ AttemptFault(w)
  PROVE  ListGoal
<1>0. ClaimInv /\ TypeOK /\ job[w] \in Job
  BY DEF ListInv, RepeatInv, ClaimInv, TypeOK
<1>1. PICK r : r = job[w].row
  OBVIOUS
<1>2. ASSUME LetsGo(w) PROVE ListGoal
  BY <1>2, ListQuiet DEF LetsGo, Addressed
<1>3. ASSUME Others(w), mail' = mail, OnlyRow(r), job'[w].row = r,
             r \in RowIds => /\ rows'[r].flag = rows[r].flag
                             /\ rows'[r].notice = rows[r].notice
                             /\ rows'[r].key = rows[r].key
                             /\ rows'[r].status = rows[r].status,
             pc'[w] \in Addressed => pc[w] \in Addressed /\ job'[w].to = job[w].to
      PROVE  ListGoal
  <2>1. ASSUME r \in RowIds
        PROVE  /\ mail'[r].reached # {} => mail'[r].count > 0
               /\ KeyFine(r)' /\ MessageFine(w, r)'
    <3>1. KeyFine(r) /\ MessageFine(w, r)
      BY <2>1 DEF ListInv
    <3>2. rows'[r].flag <=> rows[r].flag
      BY <1>3, <2>1
    <3> QED BY <1>1, <1>3, <2>1, <3>1, <3>2 DEF ListInv, ReachedIsCounted, KeyFine, MessageFine
  <2> QED BY <1>3, <2>1, ListStep
<1>4. CASE Revalidate(w)
  <2>1. CASE LetsGo(w)
    BY <1>2, <2>1
  <2>2. CASE ~LetsGo(w)
    <3>0. Recipients(rows[r].notice, config) # "none"
      BY AlwaysRouted DEF ListInv
    <3> DEFINE route == Recipients(rows[r].notice, config)
    <3>1. /\ Others(w) /\ mail' = mail /\ pc[w] = "claimed"
          /\ job'[w].batch = job[w].batch /\ job'[w].row = r
          /\ \/ rows' = rows /\ pc'[w] = "failed"
             \/ /\ pc'[w] \in {"revalidated", "ready"}
                /\ OnlyRow(r) /\ (r \in RowIds => rows'[r] = Rerouted(rows[r], route))
                /\ \A q \in RowIds \ {r} :
                     rows[q].notice = rows[r].notice => rows[q].key # route
                /\ job'[w].to = route
      BY <1>0, <1>1, <1>4, <2>2, <3>0, RevalidateDoes
    <3>2. CASE rows' = rows /\ pc'[w] = "failed"
      BY <3>1, <3>2, ListQuiet DEF Addressed
    <3>3. CASE /\ OnlyRow(r) /\ (r \in RowIds => rows'[r] = Rerouted(rows[r], route))
               /\ \A q \in RowIds \ {r} :
                    rows[q].notice = rows[r].notice => rows[q].key # route
               /\ job'[w].to = route
      <4>1. ASSUME r \in RowIds
            PROVE  /\ rows'[r].flag = rows[r].flag /\ rows'[r].notice = rows[r].notice
                   /\ rows'[r].key = route
                   /\ Holds(w, r)
                   /\ mail'[r].reached # {} => mail'[r].count > 0
                   /\ KeyFine(r)' /\ MessageFine(w, r)'
        <5>1. rows[r] \in Row
          BY <1>0, <4>1 DEF TypeOK
        <5>2. /\ rows'[r].flag = rows[r].flag /\ rows'[r].notice = rows[r].notice
              /\ rows'[r].key = route
          BY <3>3, <4>1, <5>1 DEF Rerouted, Row
        <5>3. Holds(w, r)
          BY <1>1, <3>1 DEF Holds, Working
        <5>4. rows[r].flag \/ mail[r].reached = {}
          BY <1>1, <3>1, <4>1 DEF ListInv, RepeatInv, HoldFine, ReachedIsCounted
        <5>5. KeyFine(r)'
          BY <3>1, <5>2, <5>4 DEF KeyFine
        <5>6. MessageFine(w, r)'
          BY <3>3, <5>2 DEF MessageFine
        <5> QED BY <3>1, <4>1, <5>2, <5>3, <5>5, <5>6 DEF ListInv, ReachedIsCounted
      <4> HIDE DEF route
      <4> QED BY <3>1, <3>3, <4>1, ListStep
    <3> QED BY <3>1, <3>2, <3>3
  <2> QED BY <2>1, <2>2
<1>5. CASE RenewClaim(w) \/ BeforeAttempt(w)
  <2>1. CASE LetsGo(w)
    BY <1>2, <2>1
  <2>2. CASE ~LetsGo(w)
    <3>1. /\ Others(w) /\ mail' = mail /\ job'[w].row = r
          /\ pc[w] \in Addressed /\ job'[w].to = job[w].to
          /\ rows' = rows \/ rows' = [rows EXCEPT ![r].lease = "live"]
      BY <1>0, <1>1, <1>5, <2>2, RenewDoes DEF Addressed
    <3>2. /\ OnlyRow(r)
          /\ r \in RowIds => /\ rows'[r].flag = rows[r].flag
                             /\ rows'[r].notice = rows[r].notice
                             /\ rows'[r].key = rows[r].key
                             /\ rows'[r].status = rows[r].status
      <4>1. CASE rows' = rows
        BY <4>1 DEF OnlyRow
      <4>2. CASE rows' = [rows EXCEPT ![r].lease = "live"]
        BY <1>0, <4>2, LeaseFields
      <4> QED BY <3>1, <4>1, <4>2
    <3> QED BY <1>3, <3>1, <3>2
  <2> QED BY <2>1, <2>2
<1>6. CASE AttemptFault(w) \/ ChainExhausted(w)
  <2>1. Others(w) /\ rows' = rows /\ mail' = mail /\ pc'[w] = "failed"
    BY <1>0, <1>6, GiveUpDoes
  <2> QED BY <2>1, ListQuiet DEF Addressed
<1>7. CASE Accept(w) \/ Reject(w) \/ Timeout(w)
  <2>1. /\ Others(w) /\ rows' = rows /\ pc[w] = "sending"
        /\ job'[w].row = r /\ job'[w].to = job[w].to
        /\ \/ mail' = mail
           \/ /\ \A q \in RowIds \ {r} : mail'[q] = mail[q]
              /\ r \in RowIds =>
                   /\ mail'[r].count = IF mail[r].count < 2 THEN mail[r].count + 1
                                                           ELSE mail[r].count
                   /\ mail'[r].reached = mail[r].reached \cup {job[w].to}
    BY <1>0, <1>1, <1>7, ArriveDoes
  <2>2. OnlyRow(r)
    BY <2>1 DEF OnlyRow
  <2>3. CASE mail' = mail
    BY <1>3, <2>1, <2>2, <2>3 DEF Addressed
  <2>4. CASE mail' # mail
    <3>1. ASSUME r \in RowIds
          PROVE  /\ mail'[r].count > 0
                 /\ KeyFine(r)' /\ MessageFine(w, r)'
      <4>1. KeyFine(r) /\ MessageFine(w, r) /\ mail[r].count \in 0..2
        BY <1>0, <3>1 DEF ListInv, TypeOK
      <4>2. rows[r].flag \/ job[w].to = rows[r].key
        BY <1>1, <2>1, <4>1 DEF MessageFine, Addressed
      <4>3. mail'[r].count > 0
        BY <2>1, <2>4, <3>1, <4>1
      <4>4. KeyFine(r)'
        BY <2>1, <2>4, <3>1, <4>1, <4>2 DEF KeyFine
      <4>5. MessageFine(w, r)'
        BY <2>1, <4>2 DEF MessageFine
      <4> QED BY <4>3, <4>4, <4>5
    <3> QED BY <2>1, <2>2, <2>4, <3>1, ListStep
  <2> QED BY <2>3, <2>4
<1>8. CASE FinalizeSent(w) \/ FinalizeFailed(w)
  <2>1. /\ Others(w) /\ mail' = mail /\ pc'[w] \in {"idle", "flushing"}
        /\ job'[w].row \notin RowIds /\ pc[w] \in Working
        /\ \/ rows' = rows
           \/ /\ OnlyRow(r)
              /\ r \in RowIds => \/ rows'[r] = MarkSent(rows[r], job[w].amb)
                                 \/ rows'[r] = KeepPending(rows[r], job[w].amb)
    BY <1>0, <1>1, <1>8, FinalizeDoes DEF FinalizeSent, FinalizeFailed, Working
  <2>2. ASSUME NEW q \in RowIds
        PROVE  /\ rows'[q].notice = rows[q].notice /\ rows'[q].key = rows[q].key
               /\ rows[q].status = "absent" => rows'[q].status = "absent"
               /\ rows[q].flag => rows'[q].flag
    <3>1. rows[q] \in Row
      BY <1>0 DEF TypeOK
    <3>2. CASE rows'[q] = rows[q]
      BY <3>2
    <3>3. CASE /\ q = r
               /\ \/ rows'[r] = MarkSent(rows[r], job[w].amb)
                  \/ rows'[r] = KeepPending(rows[r], job[w].amb)
      <4>1. Holds(w, r)
        BY <1>1, <2>1 DEF Holds
      <4>2. rows[r].status # "absent"
        BY <1>0, <3>3, <4>1 DEF ClaimInv, Claims, ClaimLossIsFlagged, AbsentUnflagged, Owns
      <4> QED BY <3>1, <3>3, <4>2 DEF MarkSent, KeepPending, Row
    <3> QED BY <2>1, <3>2, <3>3 DEF OnlyRow
  <2> QED BY <2>1, <2>2, ListQuiet DEF Addressed
<1> QED BY <1>4, <1>5, <1>6, <1>7, <1>8 DEF Deliver

LEMMA NextList ==
  ASSUME NoLostDoubt, Staffed, ListInv, [Next]_vars
  PROVE  ListInv'
<1>0. ClaimInv /\ RepeatInv'
  BY NextRepeat DEF ListInv, RepeatInv
<1>1. ListsStaffed'
  <2>1. CASE Environment \/ UNCHANGED vars
    BY <2>1 DEF Environment, LeaseExpires, BecomesDue, Requeue, SwitchTestMode,
                EditRecipients, Spend, vars, Staffed, ListInv, ListsStaffed, RepeatInv,
                ClaimInv, TypeOK
  <2>2. ASSUME NEW w \in Workers, WorkerStep(w) PROVE config' = config
    BY <2>2 DEF WorkerStep, Progress, Deliver, Prepare, AlreadyNotified, Reserve,
                BeginSend, RenewClaim, ReadStale, ClaimPending, OpenRow, FinishFlush, ClearBanner,
                Revalidate, BeforeAttempt, AttemptFault, Accept, Reject, Timeout,
                ChainExhausted, FinalizeSent, FinalizeFailed, Crash, env
  <2> QED BY <2>1, <2>2 DEF Next, ListInv, ListsStaffed
<1> SUFFICES ListGoal
  BY <1>0, <1>1 DEF ListInv, ListGoal
<1>2. CASE Environment \/ UNCHANGED vars
  <2>1. /\ pc' = pc /\ job' = job /\ mail' = mail
        /\ \A r \in RowIds :
             /\ rows'[r].flag = rows[r].flag
             /\ rows'[r].notice = rows[r].notice /\ rows'[r].key = rows[r].key
             /\ rows[r].status = "absent" => rows'[r].status = "absent"
    BY <1>0, <1>2, EnvironmentDoes
  <2>3. KeysDistinct' /\ ReachedIsCounted'
    BY <2>1 DEF ListInv, KeysDistinct, ReachedIsCounted
  <2>4. ASSUME NEW r \in RowIds PROVE KeyFine(r)'
    BY <2>1 DEF ListInv, KeyFine
  <2>5. ASSUME NEW v \in Workers, NEW r \in RowIds PROVE MessageFine(v, r)'
    BY <2>1 DEF ListInv, MessageFine
  <2> QED BY <2>3, <2>4, <2>5 DEF ListGoal
<1>3. ASSUME NEW w \in Workers, WorkerStep(w) PROVE ListGoal
  <2>1. CASE Quiet(w)
    BY <1>0, <2>1, QuietDoes, ListQuiet DEF LetsGo, Addressed
  <2> QED BY <1>3, <2>1, ListLive, ListFlush, ListDeliver DEF WorkerStep, Progress, Quiet
<1> QED BY <1>2, <1>3 DEF Next

\* While both lists keep a member and no doubt is dropped at the wire boundary: no
\* list is mailed one notice through two rows, unless one of them is marked.
THEOREM ListsAreMailedOnce ==
  NoLostDoubt /\ Staffed => (Spec => []ListMailedOnceUnlessFlagged)
<1> SUFFICES ASSUME NoLostDoubt, Staffed PROVE Spec => []ListMailedOnceUnlessFlagged
  OBVIOUS
<1>1. Init => ListInv
  <2> SUFFICES ASSUME Init PROVE ListInv
    OBVIOUS
  <2>1. RepeatInv
    BY InitRepeat
  <2>2. ListsStaffed /\ KeysDistinct /\ ReachedIsCounted
    BY DEF Init, Staffed, ListsStaffed, KeysDistinct, ReachedIsCounted, AbsentRow
  <2> QED BY <2>1, <2>2 DEF Init, ListInv, KeyFine, MessageFine, Addressed
<1>2. ListInv /\ [Next]_vars => ListInv'
  BY NextList
<1>3. ListInv => ListMailedOnceUnlessFlagged
  <2> SUFFICES ASSUME ListInv, NEW q \in RowIds, NEW r \in RowIds, q # r,
                      rows[q].notice = rows[r].notice,
                      mail[q].reached \cap mail[r].reached # {},
                      ~rows[q].flag, ~rows[r].flag
               PROVE  FALSE
    BY DEF ListMailedOnceUnlessFlagged
  <2>1. rows[q].key = rows[r].key
    BY DEF ListInv, KeyFine
  <2>2. mail[q].count > 0 /\ mail[r].count > 0
    BY DEF ListInv, ReachedIsCounted
  <2>3. rows[q].status # "absent" /\ rows[r].status # "absent"
    BY <2>2 DEF ListInv, RepeatInv, RowFine
  <2> QED BY <2>1, <2>3 DEF ListInv, KeysDistinct
<1> QED BY <1>1, <1>2, <1>3, PTL DEF Spec

-----------------------------------------------------------------------------
(* The recipient snapshot. *)

\* Unless a row is marked, its snapshot follows the message of the instance that
\* sends it, and a delivered message reached its list.
Routed(w) == \/ pc[w] \in {"revalidated", "ready", "sending", "delivered"}
             \/ pc[w] = "claimed" /\ job[w].mode = "flush"
SnapshotFine(w, r) ==
  rows[r].flag \/
    (job[w].row = r => /\ Routed(w) => rows[r].to = job[w].to
                       /\ pc[w] = "delivered" => job[w].to \in mail[r].reached)

SnapshotInv == /\ ClaimInv /\ SnapshotIsTruthful
               /\ \A w \in Workers, r \in RowIds : SnapshotFine(w, r)

SnapshotGoal == /\ SnapshotIsTruthful'
                /\ \A w \in Workers, r \in RowIds : SnapshotFine(w, r)'

\* A step of w about row c, which w has to itself if its snapshot changes.
LEMMA SnapshotStep ==
  ASSUME SnapshotInv, NEW w \in Workers, NEW c, Others(w), OnlyRow(c),
         \A q \in RowIds : mail[q].reached \subseteq mail'[q].reached,
         job'[w].row = c \/ ~Routed(w)' \/ job'[w].row \notin RowIds,
         c \in RowIds =>
           /\ rows[c].flag => rows'[c].flag
           /\ rows'[c].status = "sent" => rows'[c].to \in mail'[c].reached \/ rows'[c].flag
           /\ SnapshotFine(w, c)'
           /\ rows'[c].to = rows[c].to \/ Holds(w, c) \/ rows[c].status # "sending"
  PROVE  SnapshotGoal
<1>1. SnapshotIsTruthful'
  BY DEF SnapshotInv, SnapshotIsTruthful, OnlyRow
<1>2. ASSUME NEW r \in RowIds PROVE SnapshotFine(w, r)'
  BY <1>2 DEF SnapshotFine, Routed
<1>3. ASSUME NEW v \in Workers \ {w}, NEW r \in RowIds PROVE SnapshotFine(v, r)'
  <2>1. pc'[v] = pc[v] /\ job'[v] = job[v] /\ SnapshotFine(v, r)
    BY DEF Others, SnapshotInv
  <2>0. rows[r].flag => rows'[r].flag
    BY DEF OnlyRow
  <2>2. CASE rows'[r].to = rows[r].to
    BY <2>0, <2>1, <2>2 DEF SnapshotFine, Routed
  <2>3. CASE r = c /\ (Holds(w, c) \/ rows[c].status # "sending")
    <3>1. rows[r].flag \/ ~Holds(v, r)
      BY <2>3, HeldIsOwned DEF SnapshotInv, Owns
    <3> QED BY <2>0, <2>1, <3>1 DEF SnapshotFine, Routed, Holds, Working
  <2> QED BY <2>2, <2>3 DEF OnlyRow
<1> QED BY <1>1, <1>2, <1>3 DEF SnapshotGoal

\* A step that keeps the snapshots, sends nothing and marks nothing as sent.
LEMMA SnapshotQuiet ==
  ASSUME SnapshotInv, NEW w \in Workers, Others(w), mail' = mail, ~Routed(w)',
         \A r \in RowIds : /\ rows'[r].to = rows[r].to
                           /\ rows[r].flag => rows'[r].flag
                           /\ rows'[r].status = "sent" => rows[r].status = "sent"
  PROVE  SnapshotGoal
<1>1. SnapshotIsTruthful'
  BY DEF SnapshotInv, SnapshotIsTruthful
<1>2. ASSUME NEW v \in Workers, NEW r \in RowIds PROVE SnapshotFine(v, r)'
  <2>1. CASE v = w
    BY <2>1 DEF SnapshotFine, Routed
  <2>2. CASE v # w
    BY <2>2 DEF SnapshotInv, SnapshotFine, Routed, Others
  <2> QED BY <2>1, <2>2
<1> QED BY <1>1, <1>2 DEF SnapshotGoal

LEMMA SnapshotLive ==
  ASSUME SnapshotInv, NEW w \in Workers,
         (\E n \in Notices : Prepare(w, n)) \/ Reserve(w) \/ BeginSend(w)
  PROVE  SnapshotGoal
<1>0. ClaimInv /\ TypeOK /\ job[w] \in Job
  BY DEF SnapshotInv, ClaimInv, TypeOK
<1>1. CASE \E n \in Notices : Prepare(w, n)
  <2>1. Others(w) /\ rows' = rows /\ mail' = mail /\ pc'[w] = "prepared"
    BY <1>0, <1>1, PrepareDoes
  <2> QED BY <2>1, SnapshotQuiet DEF Routed
<1>2. CASE Reserve(w)
  <2>1. PICK r \in RowIds : /\ rows[r].status = "absent" /\ OnlyRow(r)
                            /\ rows'[r].status = "pending"
    BY <1>0, <1>2, ReserveDoes
  <2>4. ~rows[r].flag
    BY <1>0, <2>1 DEF ClaimInv, Claims, AbsentUnflagged
  <2>2. Others(w) /\ mail' = mail /\ pc'[w] = "reserved"
    BY <1>0, <1>2, ReserveDoes
  <2>3. ~Routed(w)' /\ SnapshotFine(w, r)'
    BY <2>2 DEF Routed, SnapshotFine
  <2> QED BY <2>1, <2>2, <2>3, <2>4, SnapshotStep
<1>3. CASE BeginSend(w)
  <2>1. CASE LetsGo(w)
    BY <2>1, SnapshotQuiet DEF LetsGo, Routed
  <2>2. CASE ~LetsGo(w)
    <3>0. PICK r : r = job[w].row
      OBVIOUS
    <3>1. /\ Others(w) /\ mail' = mail /\ OnlyRow(r) /\ job'[w] = job[w]
          /\ (r \in RowIds => rows'[r] = Claim(rows[r], w))
          /\ pc[w] = "reserved" /\ pc'[w] \in {"failed", "claimed"}
      BY <1>0, <1>3, <2>2, <3>0, BeginDoes
    <3>2. job[w].mode = "live"
      BY <1>0, <3>1 DEF ClaimInv, JobShape
    <3>3. r \in RowIds => /\ rows'[r].to = rows[r].to /\ rows'[r].status = "sending"
                          /\ rows'[r].flag = rows[r].flag
      BY <1>0, <3>1 DEF TypeOK, Row, Claim
    <3> QED BY <3>1, <3>2, <3>3, SnapshotQuiet DEF Routed, OnlyRow
  <2> QED BY <2>1, <2>2
<1> QED BY <1>1, <1>2, <1>3

LEMMA SnapshotFlush ==
  ASSUME SnapshotInv, NEW w \in Workers, ClaimPending(w) \/ OpenRow(w)
  PROVE  SnapshotGoal
<1>0. ClaimInv /\ TypeOK /\ job[w] \in Job
  BY DEF SnapshotInv, ClaimInv, TypeOK
<1>1. CASE ClaimPending(w)
  <2>1. /\ Others(w) /\ mail' = mail /\ pc'[w] = "flushing"
    BY <1>0, <1>1, ClaimDoes
  <2>2. ASSUME NEW r \in RowIds
        PROVE  /\ rows'[r].to = rows[r].to
               /\ rows[r].flag => rows'[r].flag
               /\ rows'[r].status = "sent" => rows[r].status = "sent"
    BY <1>0, <1>1, ClaimDoes
  <2> QED BY <2>1, <2>2, SnapshotQuiet DEF Routed
<1>2. CASE OpenRow(w)
  <2>1. PICK r \in job[w].batch :
          /\ r \in RowIds /\ OnlyRow(r) /\ job'[w].batch = job[w].batch \ {r}
          /\ Skips(w, r) \/ Parks(w, r) \/ Opens(w, r)
    BY <1>0, <1>2, OpenDoes
  <2>2. Others(w) /\ mail' = mail /\ rows[r] \in Row /\ Holds(w, r)
    BY <1>0, <1>2, <2>1, OpenDoes DEF TypeOK, Holds
  <2>3. CASE Skips(w, r)
    BY <2>1, <2>2, <2>3, SnapshotQuiet DEF Skips, Routed
  <2>4. CASE Parks(w, r)
    <3>1. /\ rows'[r].to = rows[r].to /\ rows'[r].status # "sent" /\ pc'[w] = "flushing"
          /\ rows'[r].flag <=> rows[r].flag
      BY <2>2, <2>4 DEF Parks, KeepPending, Row
    <3> QED BY <2>1, <2>2, <3>1, SnapshotQuiet DEF OnlyRow, Routed
  <2>5. CASE Opens(w, r)
    <3>1. /\ rows'[r].status = rows[r].status /\ rows'[r].to = job'[w].to
          /\ rows'[r].flag = rows[r].flag
          /\ job'[w].row = r /\ pc'[w] # "delivered"
      BY <2>2, <2>5 DEF Opens, Row
    <3>2. rows[r].status = "sending" \/ rows[r].flag
      BY <1>0, <2>1, <2>2, HeldIsOwned DEF Owns
    <3>3. SnapshotFine(w, r)'
      BY <3>1 DEF SnapshotFine
    <3> QED BY <2>1, <2>2, <3>1, <3>2, <3>3, SnapshotStep
  <2> QED BY <2>1, <2>3, <2>4, <2>5
<1> QED BY <1>1, <1>2

LEMMA SnapshotDeliver ==
  ASSUME SnapshotInv, NEW w \in Workers, Deliver(w) \/ AttemptFault(w)
  PROVE  SnapshotGoal
<1>0. ClaimInv /\ TypeOK /\ job[w] \in Job
  BY DEF SnapshotInv, ClaimInv, TypeOK
<1>1. PICK r : r = job[w].row
  OBVIOUS
<1>2. r \in RowIds /\ pc[w] \in Working => /\ Holds(w, r) /\ rows[r] \in Row
                                           /\ rows[r].status = "sending" \/ rows[r].flag
  BY <1>0, <1>1, HeldIsOwned DEF Holds, Owns, TypeOK
<1>3. ASSUME LetsGo(w) PROVE SnapshotGoal
  BY <1>3, SnapshotQuiet DEF LetsGo, Routed
\* the message and the snapshot stay
<1>4. ASSUME Others(w), OnlyRow(r), mail' = mail, job'[w].row = r,
             job'[w].to = job[w].to, pc[w] \in Working, pc'[w] # "delivered",
             r \in RowIds => /\ rows'[r].status = rows[r].status
                             /\ rows'[r].to = rows[r].to
                             /\ rows'[r].flag = rows[r].flag,
             Routed(w)' => Routed(w)
      PROVE  SnapshotGoal
  <2>1. ASSUME r \in RowIds PROVE SnapshotFine(w, r)'
    BY <1>1, <1>4, <2>1 DEF SnapshotInv, SnapshotFine
  <2>2. r \in RowIds => rows'[r].status # "sent" \/ rows'[r].flag
    BY <1>2, <1>4
  <2> QED BY <1>4, <2>1, <2>2, SnapshotStep
<1>5. CASE Revalidate(w)
  <2>1. CASE LetsGo(w)
    BY <1>3, <2>1
  <2>2. CASE ~LetsGo(w)
    <3> DEFINE route == Recipients(rows[r].notice, config)
    <3>1. /\ Others(w) /\ mail' = mail /\ pc[w] = "claimed" /\ job'[w].row = r
          /\ \/ rows' = rows /\ pc'[w] = "failed" /\ job'[w].to = job[w].to
             \/ /\ rows' = rows /\ pc'[w] = "ready" /\ job[w].mode = "flush"
                /\ job'[w].to = job[w].to
             \/ /\ pc'[w] \in {"revalidated", "ready"} /\ job'[w].to = route
                /\ OnlyRow(r) /\ (r \in RowIds => rows'[r] = Rerouted(rows[r], route))
      BY <1>0, <1>1, <1>5, <2>2, RevalidateDoes
    <3>2. CASE rows' = rows /\ pc'[w] = "failed" /\ job'[w].to = job[w].to
      BY <1>4, <3>1, <3>2 DEF OnlyRow, Routed, Working
    <3>3. CASE /\ rows' = rows /\ pc'[w] = "ready" /\ job[w].mode = "flush"
               /\ job'[w].to = job[w].to
      BY <1>4, <3>1, <3>3 DEF OnlyRow, Routed, Working
    <3>4. CASE /\ pc'[w] \in {"revalidated", "ready"} /\ job'[w].to = route
               /\ OnlyRow(r) /\ (r \in RowIds => rows'[r] = Rerouted(rows[r], route))
      <4>1. ASSUME r \in RowIds
            PROVE  /\ Holds(w, r) /\ (rows'[r].status # "sent" \/ rows'[r].flag)
                   /\ SnapshotFine(w, r)' /\ rows'[r].flag = rows[r].flag
        <5>1. /\ rows'[r].to = route /\ rows'[r].status = rows[r].status
              /\ rows'[r].flag = rows[r].flag
          BY <1>0, <3>4, <4>1 DEF TypeOK, Row, Rerouted
        <5>2. Holds(w, r) /\ (rows[r].status = "sending" \/ rows[r].flag)
          BY <1>2, <3>1, <4>1 DEF Working
        <5> QED BY <3>1, <3>4, <5>1, <5>2 DEF SnapshotFine
      <4> QED BY <3>1, <3>4, <4>1, SnapshotStep
    <3> QED BY <3>1, <3>2, <3>3, <3>4
  <2> QED BY <2>1, <2>2
<1>6. CASE RenewClaim(w) \/ BeforeAttempt(w)
  <2>1. CASE LetsGo(w)
    BY <1>3, <2>1
  <2>2. CASE ~LetsGo(w)
    <3>1. /\ Others(w) /\ mail' = mail /\ job'[w].row = r /\ job'[w].to = job[w].to
          /\ pc[w] \in {"revalidated", "ready"} /\ pc'[w] # "delivered"
          /\ rows' = rows \/ rows' = [rows EXCEPT ![r].lease = "live"]
      BY <1>0, <1>1, <1>6, <2>2, RenewDoes
    <3>2. /\ OnlyRow(r)
          /\ r \in RowIds => /\ rows'[r].status = rows[r].status
                             /\ rows'[r].to = rows[r].to
                             /\ rows'[r].flag = rows[r].flag
      <4>1. CASE rows' = rows
        BY <4>1 DEF OnlyRow
      <4>2. CASE rows' = [rows EXCEPT ![r].lease = "live"]
        BY <1>0, <4>2, LeaseFields
      <4> QED BY <3>1, <4>1, <4>2
    <3> QED BY <1>4, <3>1, <3>2 DEF Routed, Working
  <2> QED BY <2>1, <2>2
<1>7. CASE AttemptFault(w) \/ ChainExhausted(w)
  <2>1. /\ Others(w) /\ rows' = rows /\ mail' = mail /\ pc[w] = "ready"
        /\ pc'[w] = "failed" /\ job'[w].row = r /\ job'[w].to = job[w].to
    BY <1>0, <1>1, <1>7, GiveUpDoes
  <2> QED BY <1>4, <2>1 DEF OnlyRow, Routed, Working
<1>8. CASE Accept(w) \/ Reject(w) \/ Timeout(w)
  <2>1. /\ Others(w) /\ rows' = rows /\ pc[w] = "sending"
        /\ job'[w].row = r /\ job'[w].to = job[w].to
        /\ \/ mail' = mail /\ pc'[w] = "ready"
           \/ /\ \A q \in RowIds \ {r} : mail'[q] = mail[q]
              /\ r \in RowIds => mail'[r].reached = mail[r].reached \cup {job[w].to}
              /\ pc'[w] \in {"delivered", "ready"}
    BY <1>0, <1>1, <1>8, ArriveDoes
  <2>2. CASE mail' = mail /\ pc'[w] = "ready"
    BY <1>4, <2>1, <2>2 DEF OnlyRow, Routed, Working
  <2>3. CASE /\ \A q \in RowIds \ {r} : mail'[q] = mail[q]
             /\ r \in RowIds => mail'[r].reached = mail[r].reached \cup {job[w].to}
    <3>1. \A q \in RowIds : mail[q].reached \subseteq mail'[q].reached
      BY <2>3
    <3>2. ASSUME r \in RowIds
          PROVE  SnapshotFine(w, r)' /\ (rows'[r].status # "sent" \/ rows'[r].flag)
      <4>1. rows[r].to = job[w].to \/ rows[r].flag
        BY <1>1, <2>1, <3>2 DEF SnapshotInv, SnapshotFine, Routed
      <4>2. rows'[r].status # "sent" \/ rows'[r].flag
        BY <1>2, <2>1, <3>2 DEF Working
      <4>3. SnapshotFine(w, r)'
        BY <2>1, <2>3, <3>2, <4>1 DEF SnapshotFine
      <4> QED BY <4>2, <4>3
    <3> QED BY <2>1, <3>1, <3>2, SnapshotStep DEF OnlyRow
  <2> QED BY <2>1, <2>2, <2>3
<1>9. CASE FinalizeSent(w) \/ FinalizeFailed(w)
  <2>1. /\ Others(w) /\ mail' = mail /\ pc'[w] \in {"idle", "flushing"}
        /\ job'[w].row \notin RowIds
        /\ \/ rows' = rows
           \/ /\ OnlyRow(r) /\ pc[w] \in {"delivered", "failed"}
              /\ r \in RowIds =>
                   \/ pc[w] = "delivered" /\ rows'[r] = MarkSent(rows[r], job[w].amb)
                   \/ rows'[r] = KeepPending(rows[r], job[w].amb)
    BY <1>0, <1>1, <1>9, FinalizeDoes
  <2>2. CASE rows' = rows
    BY <2>1, <2>2, SnapshotQuiet DEF Routed
  <2>3. CASE /\ OnlyRow(r) /\ pc[w] \in {"delivered", "failed"}
             /\ r \in RowIds =>
                  \/ pc[w] = "delivered" /\ rows'[r] = MarkSent(rows[r], job[w].amb)
                  \/ rows'[r] = KeepPending(rows[r], job[w].amb)
    <3>1. ASSUME r \in RowIds
          PROVE  /\ rows[r].flag => rows'[r].flag
                 /\ rows'[r].status = "sent" => rows'[r].to \in mail'[r].reached \/ rows'[r].flag
                 /\ SnapshotFine(w, r)' /\ rows'[r].to = rows[r].to
      <4>1. rows[r] \in Row
        BY <1>0, <3>1 DEF TypeOK
      <4>2. rows'[r].to = rows[r].to /\ (rows[r].flag => rows'[r].flag)
        BY <2>3, <3>1, <4>1 DEF MarkSent, KeepPending, Row
      <4>3. rows'[r].status = "sent" => pc[w] = "delivered"
        BY <2>3, <3>1, <4>1 DEF KeepPending, Row
      <4>4. pc[w] = "delivered" => rows[r].to \in mail[r].reached \/ rows[r].flag
        BY <1>1, <3>1 DEF SnapshotInv, SnapshotFine, Routed
      <4>5. SnapshotFine(w, r)'
        BY <2>1, <3>1 DEF SnapshotFine
      <4> QED BY <2>1, <4>2, <4>3, <4>4, <4>5
    <3> QED BY <2>1, <2>3, <3>1, SnapshotStep
  <2> QED BY <2>1, <2>2, <2>3
<1> QED BY <1>5, <1>6, <1>7, <1>8, <1>9 DEF Deliver

LEMMA NextSnapshot ==
  ASSUME SnapshotInv, [Next]_vars
  PROVE  SnapshotInv'
<1>0. ClaimInv
  BY DEF SnapshotInv
<1>1. ClaimInv'
  BY NextClaimInv DEF SnapshotInv
<1> SUFFICES SnapshotGoal
  BY <1>1 DEF SnapshotInv, SnapshotGoal
<1>2. CASE Environment \/ UNCHANGED vars
  <2>1. /\ pc' = pc /\ job' = job /\ mail' = mail
        /\ \A r \in RowIds :
              /\ rows'[r].to = rows[r].to /\ rows'[r].flag = rows[r].flag
              /\ \/ rows'[r].status = rows[r].status
                 \/ rows'[r].status = "pending_retry"
    BY <1>0, <1>2, EnvironmentDoes
  <2>2. SnapshotIsTruthful'
    BY <2>1 DEF SnapshotInv, SnapshotIsTruthful
  <2>3. ASSUME NEW v \in Workers, NEW r \in RowIds PROVE SnapshotFine(v, r)'
    BY <2>1 DEF SnapshotInv, SnapshotFine, Routed
  <2> QED BY <2>2, <2>3 DEF SnapshotGoal
<1>3. ASSUME NEW w \in Workers, WorkerStep(w) PROVE SnapshotGoal
  <2>1. CASE Quiet(w)
    BY <1>0, <2>1, QuietDoes, SnapshotQuiet DEF LetsGo, Routed
  <2> QED BY <1>3, <2>1, SnapshotLive, SnapshotFlush, SnapshotDeliver
          DEF WorkerStep, Progress, Quiet
<1> QED BY <1>2, <1>3 DEF Next

\* Whatever crashes, runs late, is switched or edited: the recipient snapshot of a
\* sent row names a list that was really mailed, however often the row was re-routed
\* and whoever recovered it, or the row is marked possible_duplicate.
THEOREM SnapshotsAreTruthful == Spec => []SnapshotIsTruthful
<1>1. Init => SnapshotInv
  <2> SUFFICES ASSUME Init PROVE SnapshotInv
    OBVIOUS
  <2>1. ClaimInv
    BY InitClaimInv
  <2>2. -1 \notin RowIds
    BY OutboxConstants
  <2> QED BY <2>1, <2>2 DEF Init, NoJob, AbsentRow, SnapshotInv, SnapshotIsTruthful,
                            SnapshotFine
<1>2. SnapshotInv /\ [Next]_vars => SnapshotInv'
  BY NextSnapshot
<1>3. SnapshotInv => SnapshotIsTruthful
  BY DEF SnapshotInv
<1> QED BY <1>1, <1>2, <1>3, PTL DEF Spec

-----------------------------------------------------------------------------
(* While no instance is slower than its lease and no recovery is under way: *)
(* a claim is held alone to the end.                                        *)

Prompt == "slow" \notin Adverse
NoRecovery == \A w \in Workers : pc[w] # "recovering"

\* An instance that works on a row owns it, and its lease has not run out.
HeldLive == \A w \in Workers, r \in RowIds :
              Holds(w, r) => Owns(w, r) /\ rows[r].lease = "live"

\* A step of w about row c, which w has to itself if the claim changes.
LEMMA HeldStep ==
  ASSUME HeldLive, NEW w \in Workers, NEW c, Others(w), OnlyRow(c),
         \A q \in RowIds \ {c} : Holds(w, q)' => Holds(w, q),
         c \in RowIds =>
           /\ Holds(w, c)' => Owns(w, c)' /\ rows'[c].lease = "live"
           /\ \/ /\ rows'[c].status = rows[c].status /\ rows'[c].token = rows[c].token
                 /\ rows'[c].lease = "live" \/ rows'[c].lease = rows[c].lease
              \/ Holds(w, c) \/ rows[c].status # "sending"
  PROVE  HeldLive'
<1>1. ASSUME NEW r \in RowIds, Holds(w, r)'
      PROVE  Owns(w, r)' /\ rows'[r].lease = "live"
  BY <1>1 DEF HeldLive, OnlyRow, Owns
<1>2. ASSUME NEW v \in Workers \ {w}, NEW r \in RowIds, Holds(v, r)'
      PROVE  Owns(v, r)' /\ rows'[r].lease = "live"
  <2>1. Holds(v, r)
    BY <1>2 DEF Others, Holds
  <2>2. Owns(v, r) /\ rows[r].lease = "live"
    BY <2>1 DEF HeldLive
  <2>3. r = c => ~Holds(w, c) /\ rows[c].status = "sending"
    BY <2>2 DEF HeldLive, Owns
  <2> QED BY <2>2, <2>3 DEF OnlyRow, Owns
<1> QED BY <1>1, <1>2 DEF HeldLive

\* A step that keeps the claims and lets w hold no new row.
LEMMA HeldQuiet ==
  ASSUME HeldLive, NEW w \in Workers, Others(w), rows' = rows,
         \A q \in RowIds : Holds(w, q)' => Holds(w, q)
  PROVE  HeldLive'
<1>1. ASSUME NEW v \in Workers, NEW r \in RowIds, Holds(v, r)' PROVE Holds(v, r)
  BY <1>1 DEF Others, Holds
<1> QED BY <1>1 DEF HeldLive, Owns

LEMMA LetsGoHeld ==
  ASSUME NEW w \in Workers, LetsGo(w), NEW q \in RowIds, Holds(w, q)'
  PROVE  q \in job[w].batch /\ Holds(w, q)
BY DEF LetsGo, Holds, Working

LEMMA HeldReserve ==
  ASSUME ClaimInv, HeldLive, NEW w \in Workers,
         (\E n \in Notices : Prepare(w, n)) \/ Reserve(w) \/ BeginSend(w)
  PROVE  HeldLive'
<1>0. TypeOK /\ job[w] \in Job
  BY DEF ClaimInv, TypeOK
<1>1. CASE \E n \in Notices : Prepare(w, n)
  <2>1. /\ Others(w) /\ rows' = rows /\ pc'[w] = "prepared"
        /\ job'[w].batch = job[w].batch
    BY <1>1, PrepareDoes
  <2> QED BY <2>1, HeldQuiet DEF Holds, Working
<1>2. CASE Reserve(w)
  <2>1. PICK r \in RowIds : rows[r].status = "absent" /\ OnlyRow(r)
    BY <1>2, ReserveDoes
  <2>2. Others(w) /\ pc'[w] = "reserved" /\ job'[w].batch = job[w].batch
    BY <1>2, ReserveDoes
  <2>3. \A q \in RowIds : Holds(w, q)' => Holds(w, q)
    BY <2>2 DEF Holds, Working
  <2>4. ~Holds(w, r)
    BY <2>1 DEF HeldLive, Owns
  <2> QED BY <2>1, <2>2, <2>3, <2>4, HeldStep
<1>3. CASE BeginSend(w)
  <2>1. CASE LetsGo(w)
    BY <2>1, LetsGoHeld, HeldQuiet DEF LetsGo
  <2>2. CASE ~LetsGo(w)
    <3>0. PICK r : r = job[w].row
      OBVIOUS
    <3>1. /\ Others(w) /\ Sendable(r) /\ OnlyRow(r)
          /\ (r \in RowIds => rows'[r] = Claim(rows[r], w))
          /\ job'[w] = job[w] /\ pc'[w] \in {"failed", "claimed"}
      BY <1>3, <2>2, <3>0, BeginDoes
    <3>2. \A q \in RowIds \ {r} : Holds(w, q)' => Holds(w, q)
      BY <3>0, <3>1 DEF Holds
    <3>3. r \in RowIds => /\ Owns(w, r)' /\ rows'[r].lease = "live"
                          /\ rows[r].status # "sending"
      BY <1>0, <3>1, ZenonT(60) DEF TypeOK, Row, Claim, Owns, Sendable
    <3> QED BY <3>1, <3>2, <3>3, HeldStep
  <2> QED BY <2>1, <2>2
<1> QED BY <1>1, <1>2, <1>3

LEMMA HeldFlush ==
  ASSUME ClaimInv, HeldLive, NoRecovery, NEW w \in Workers, ClaimPending(w) \/ OpenRow(w)
  PROVE  HeldLive'
<1>0. TypeOK /\ job[w] \in Job
  BY DEF ClaimInv, TypeOK
<1>1. CASE ClaimPending(w)
  <2>1. /\ Others(w) /\ pc'[w] = "flushing"
        /\ \A r \in RowIds :
             \/ r \in job'[w].batch /\ rows[r].status # "sending" /\ rows'[r] = Claim(rows[r], w)
             \/ r \notin job'[w].batch /\ rows'[r] = rows[r]
    BY <1>1, ClaimDoes DEF NoRecovery, StaleRead
  <2>2. ASSUME NEW v \in Workers \ {w}, NEW r \in RowIds, Holds(v, r)'
        PROVE  Owns(v, r)' /\ rows'[r].lease = "live"
    <3>1. Owns(v, r) /\ rows[r].lease = "live"
      BY <2>1, <2>2 DEF Others, Holds, HeldLive
    <3> QED BY <2>1, <3>1 DEF Owns
  <2>3. ASSUME NEW r \in RowIds, Holds(w, r)'
        PROVE  Owns(w, r)' /\ rows'[r].lease = "live"
    <3>1. r \in job'[w].batch
      BY <2>1, <2>3 DEF Holds, Working
    <3>2. rows[r] \in Row /\ rows'[r] = Claim(rows[r], w)
      BY <1>0, <2>1, <3>1 DEF TypeOK
    <3> QED BY <3>2 DEF Claim, Row, Owns
  <2> QED BY <2>2, <2>3 DEF HeldLive
<1>2. CASE OpenRow(w)
  <2>1. PICK r \in job[w].batch :
          /\ r \in RowIds /\ OnlyRow(r) /\ job'[w].batch = job[w].batch \ {r}
          /\ Skips(w, r) \/ Parks(w, r) \/ Opens(w, r)
    BY <1>2, OpenDoes
  <2>2. Others(w) /\ rows[r] \in Row
    BY <1>0, <1>2, <2>1, OpenDoes DEF TypeOK
  <2>3. Holds(w, r)
    BY <2>1 DEF Holds
  <2>4. \A q \in RowIds \ {r} : Holds(w, q)' => Holds(w, q)
    BY <2>1 DEF Skips, Parks, Opens, Holds, Working
  <2>5. Holds(w, r)' => Owns(w, r)' /\ rows'[r].lease = "live"
    <3>1. CASE Opens(w, r)
      <4>1. Owns(w, r) /\ rows[r].lease = "live"
        BY <2>1, <2>3 DEF HeldLive
      <4> QED BY <2>2, <3>1, <4>1 DEF Opens, Row, Owns
    <3>2. CASE Skips(w, r) \/ Parks(w, r)
      BY <2>1, <3>2 DEF Skips, Parks, Holds, Working
    <3> QED BY <2>1, <3>1, <3>2
  <2> QED BY <2>1, <2>2, <2>3, <2>4, <2>5, HeldStep
<1> QED BY <1>1, <1>2

LEMMA HeldDeliver ==
  ASSUME ClaimInv, HeldLive, NEW w \in Workers, Deliver(w) \/ AttemptFault(w)
  PROVE  HeldLive'
<1>0. TypeOK /\ job[w] \in Job
  BY DEF ClaimInv, TypeOK
<1>1. PICK r : r = job[w].row
  OBVIOUS
<1>2. ASSUME LetsGo(w) PROVE HeldLive'
  BY <1>2, LetsGoHeld, HeldQuiet DEF LetsGo
<1>3. ASSUME Others(w), OnlyRow(r), job'[w].batch = job[w].batch, job'[w].row = r,
             pc[w] \in Working,
             r \in RowIds => /\ rows'[r].status = rows[r].status
                             /\ rows'[r].token = rows[r].token
                             /\ rows'[r].lease = "live" \/ rows'[r].lease = rows[r].lease
      PROVE  HeldLive'
  <2>1. \A q \in RowIds : Holds(w, q)' => Holds(w, q)
    BY <1>1, <1>3 DEF Holds
  <2>2. r \in RowIds => Owns(w, r) /\ rows[r].lease = "live"
    BY <1>1, <1>3 DEF HeldLive, Holds
  <2>3. r \in RowIds => Owns(w, r)' /\ rows'[r].lease = "live"
    BY <1>3, <2>2 DEF Owns
  <2> QED BY <1>3, <2>1, <2>3, HeldStep
<1>4. CASE Revalidate(w)
  <2>1. CASE LetsGo(w)
    BY <1>2, <2>1
  <2>2. CASE ~LetsGo(w)
    <3>1. /\ Others(w) /\ pc[w] \in Working
          /\ job'[w].batch = job[w].batch /\ job'[w].row = r
          /\ \/ rows' = rows
             \/ /\ OnlyRow(r)
                /\ r \in RowIds =>
                     rows'[r] = Rerouted(rows[r], Recipients(rows[r].notice, config))
      BY <1>1, <1>4, <2>2, RevalidateDoes DEF Working
    <3>2. /\ OnlyRow(r)
          /\ r \in RowIds => /\ rows'[r].status = rows[r].status
                             /\ rows'[r].token = rows[r].token
                             /\ rows'[r].lease = rows[r].lease
      BY <1>0, <3>1 DEF OnlyRow, TypeOK, Row, Rerouted
    <3> QED BY <1>3, <3>1, <3>2
  <2> QED BY <2>1, <2>2
<1>5. CASE RenewClaim(w) \/ BeforeAttempt(w)
  <2>1. CASE LetsGo(w)
    BY <1>2, <2>1
  <2>2. CASE ~LetsGo(w)
    <3>1. /\ Others(w) /\ job'[w].batch = job[w].batch /\ job'[w].row = r
          /\ pc[w] \in Working
          /\ rows' = rows \/ rows' = [rows EXCEPT ![r].lease = "live"]
      BY <1>1, <1>5, <2>2, RenewDoes DEF Working
    <3>2. CASE rows' = rows
      BY <1>3, <3>1, <3>2 DEF OnlyRow
    <3>3. CASE rows' = [rows EXCEPT ![r].lease = "live"]
      <4>1. /\ OnlyRow(r)
            /\ r \in RowIds => /\ rows'[r].status = rows[r].status
                               /\ rows'[r].token = rows[r].token
                               /\ rows'[r].lease = "live"
        BY <1>0, <3>3, LeaseFields
      <4> QED BY <1>3, <3>1, <4>1
    <3> QED BY <3>1, <3>2, <3>3
  <2> QED BY <2>1, <2>2
<1>6. CASE AttemptFault(w) \/ ChainExhausted(w) \/ Accept(w) \/ Reject(w) \/ Timeout(w)
  <2>1. /\ Others(w) /\ rows' = rows /\ pc[w] \in Working
        /\ job'[w].batch = job[w].batch /\ job'[w].row = r
    BY <1>1, <1>6, GiveUpDoes, ArriveDoes DEF Working
  <2> QED BY <1>3, <2>1 DEF OnlyRow
<1>7. CASE FinalizeSent(w) \/ FinalizeFailed(w)
  <2>1. /\ Others(w) /\ pc'[w] \notin Working /\ pc[w] \in Working
        /\ job'[w].batch = job[w].batch
        /\ rows' = rows \/ OnlyRow(r)
    BY <1>1, <1>7, FinalizeDoes DEF FinalizeSent, FinalizeFailed, Working
  <2>2. \A q \in RowIds : Holds(w, q)' => q \in job[w].batch /\ Holds(w, q)
    BY <2>1 DEF Holds
  <2>3. r \notin job[w].batch /\ Holds(w, r)
    BY <1>1, <2>1 DEF ClaimInv, JobShape, Holds
  <2>4. OnlyRow(r)
    BY <2>1 DEF OnlyRow
  <2> QED BY <2>1, <2>2, <2>3, <2>4, HeldStep
<1> QED BY <1>4, <1>5, <1>6, <1>7 DEF Deliver

LEMMA NextHeld ==
  ASSUME Prompt, ClaimInv, HeldLive, NoRecovery, [Next]_vars
  PROVE  HeldLive'
<1>1. CASE Environment \/ UNCHANGED vars
  <2>1. /\ pc' = pc /\ job' = job
        /\ \A r \in RowIds :
              /\ rows'[r].token = rows[r].token
              /\ \/ rows'[r].status = rows[r].status
                 \/ rows[r].status = "possible_duplicate"
              /\ rows'[r].lease = rows[r].lease \/ LeaseExpires(r)
    BY <1>1, EnvironmentDoes
  <2>2. ASSUME NEW w \in Workers, NEW r \in RowIds, Holds(w, r)'
        PROVE  Owns(w, r)' /\ rows'[r].lease = "live"
    <3>1. Holds(w, r) /\ Owns(w, r) /\ rows[r].lease = "live"
      BY <2>1, <2>2 DEF Holds, HeldLive
    <3>2. ~LeaseExpires(r)
      BY <3>1 DEF LeaseExpires, Spend, Prompt, Owns
    <3> QED BY <2>1, <3>1, <3>2 DEF Owns
  <2> QED BY <2>2 DEF HeldLive
<1>2. ASSUME NEW w \in Workers, WorkerStep(w) PROVE HeldLive'
  <2>1. CASE Quiet(w)
    BY <2>1, QuietDoes, LetsGoHeld, HeldQuiet DEF LetsGo
  <2> QED BY <1>2, <2>1, HeldReserve, HeldFlush, HeldDeliver DEF WorkerStep, Progress, Quiet
<1> QED BY <1>1, <1>2 DEF Next

LEMMA InitHeld == Init => HeldLive
BY DEF Init, NoJob, HeldLive, Holds, Working

-----------------------------------------------------------------------------
(* The red banner, for one instance and a seeded dev list. *)

OneInstance == \A v, w \in Workers : v = w
DevSeeded == \A c \in InitConfigs : c.dev

Failing(r) == \/ rows[r].status = "possible_duplicate"
              \/ rows[r].status = "pending_retry" /\ ~rows[r].flag

\* What the closing transaction read still holds when it writes.
ClearingIsRight == \A w \in Workers : pc[w] = "clearing" =>
                     \A r \in RowIds : ~Recoverable(r)

BannerInv == ClaimInv /\ config.dev /\ ClearingIsRight /\ FailureShowsBanner

LEMMA BannerSays == FailureShowsBanner <=> \A r \in RowIds : Failing(r) => banner
BY DEF FailureShowsBanner, Failing

\* Only keep_pending makes a row a failure, and it raises the banner.
LEMMA FailingStep ==
  ASSUME ClaimInv, config.dev, NEW w \in Workers, WorkerStep(w),
         NEW r \in RowIds, Failing(r)'
  PROVE  Failing(r) \/ banner'
<1>0. rows[r] \in Row
  BY DEF ClaimInv, TypeOK
<1>1. ASSUME rows'[r].status = rows[r].status, rows'[r].flag = rows[r].flag
      PROVE  Failing(r)
  BY <1>1 DEF Failing
<1>2. CASE LetsGo(w) \/ rows' = rows
  BY <1>1, <1>2 DEF LetsGo
<1>3. CASE Quiet(w)
  BY <1>2, <1>3, QuietDoes
<1>4. CASE \E n \in Notices : Prepare(w, n)
  BY <1>2, <1>4, PrepareDoes
<1>5. CASE Reserve(w)
  <2>1. PICK c \in RowIds : OnlyRow(c) /\ rows'[c].status = "pending"
    BY <1>5, ReserveDoes
  <2>2. r # c
    BY <2>1 DEF Failing
  <2> QED BY <1>1, <2>1, <2>2 DEF OnlyRow
<1>6. CASE BeginSend(w) /\ ~LetsGo(w)
  <2>1. /\ OnlyRow(job[w].row)
        /\ job[w].row \in RowIds => rows'[job[w].row] = Claim(rows[job[w].row], w)
    BY <1>6, BeginDoes
  <2>2. Claim(rows[r], w).status = "sending"
    BY <1>0 DEF Claim, Row
  <2>3. r # job[w].row
    BY <2>1, <2>2 DEF Failing
  <2> QED BY <1>1, <2>1, <2>3 DEF OnlyRow
<1>7. CASE ClaimPending(w)
  <2>1. ASSUME rows'[r].flag PROVE Failing(r)
    BY <1>0, <1>7, <2>1, ClaimDoes DEF Failing, ClaimInv
  <2>2. ASSUME ~rows'[r].flag PROVE Failing(r)
    BY <1>1, <1>7, <2>2, ClaimDoes DEF Failing
  <2> QED BY <2>1, <2>2
<1>8. CASE OpenRow(w)
  <2>1. PICK c \in job[w].batch : /\ c \in RowIds /\ OnlyRow(c)
                                  /\ Skips(w, c) \/ Parks(w, c) \/ Opens(w, c)
    BY <1>8, OpenDoes
  <2>2. ~Parks(w, c)
    BY DEF Parks, Recipients
  <2>3. CASE r # c \/ Skips(w, c)
    BY <1>1, <2>1, <2>3 DEF OnlyRow, Skips
  <2>4. CASE r = c /\ Opens(w, c)
    <3>1. rows'[r].status = rows[r].status /\ rows'[r].flag = rows[r].flag
      BY <1>0, <2>4 DEF Opens, Row
    <3> QED BY <1>1, <3>1
  <2> QED BY <2>1, <2>2, <2>3, <2>4
<1>9. CASE Revalidate(w) /\ ~LetsGo(w)
  <2>1. \/ rows' = rows
        \/ /\ OnlyRow(job[w].row)
           /\ job[w].row \in RowIds =>
                \E route : rows'[job[w].row] = Rerouted(rows[job[w].row], route)
    BY <1>9, RevalidateDoes
  <2>2. rows'[r].status = rows[r].status /\ rows'[r].flag = rows[r].flag
    BY <1>0, <2>1, ZenonT(60) DEF OnlyRow, Rerouted, Row
  <2> QED BY <1>1, <2>2
<1>10. CASE (RenewClaim(w) \/ BeforeAttempt(w)) /\ ~LetsGo(w)
  <2>1. rows' = rows \/ rows' = [rows EXCEPT ![job[w].row].lease = "live"]
    BY <1>10, RenewDoes
  <2>2. rows'[r].status = rows[r].status /\ rows'[r].flag = rows[r].flag
    BY <2>1, LeaseFields DEF OnlyRow, ClaimInv
  <2> QED BY <1>1, <2>2
<1>11. CASE AttemptFault(w) \/ ChainExhausted(w) \/ Accept(w) \/ Reject(w) \/ Timeout(w)
  BY <1>2, <1>11, GiveUpDoes, ArriveDoes
<1>12. CASE FinalizeSent(w) \/ FinalizeFailed(w)
  <2>1. \/ rows' = rows
        \/ OnlyRow(job[w].row) /\ r # job[w].row
        \/ rows'[r] = MarkSent(rows[r], job[w].amb)
        \/ banner'
    BY <1>12, FinalizeDoes
  <2>2. MarkSent(rows[r], job[w].amb).status = "sent"
    BY <1>0 DEF MarkSent, Row
  <2>3. rows'[r] # MarkSent(rows[r], job[w].amb)
    BY <2>2 DEF Failing
  <2> QED BY <1>1, <2>1, <2>3 DEF OnlyRow
<1> QED BY <1>2, <1>3, <1>4, <1>5, <1>6, <1>7, <1>8, <1>9, <1>10, <1>11, <1>12
        DEF WorkerStep, Progress, Quiet, Deliver

\* Only the closing transaction of a flush lowers it.
LEMMA BannerStays ==
  ASSUME TypeOK, NEW w \in Workers, WorkerStep(w), ~ClearBanner(w), banner
  PROVE  banner'
<1> USE DEF env
<1>1. CASE \/ \E n \in Notices : Prepare(w, n)
           \/ AlreadyNotified(w) \/ Reserve(w) \/ BeginSend(w)
  BY <1>1 DEF Prepare, AlreadyNotified, Reserve, BeginSend
<1>2. CASE \/ ReadStale(w) \/ ClaimPending(w) \/ OpenRow(w) \/ FinishFlush(w)
           \/ Crash(w) \/ AttemptFault(w)
  BY <1>2 DEF ReadStale, ClaimPending, OpenRow, FinishFlush, Crash, AttemptFault
<1>3. CASE Revalidate(w) \/ RenewClaim(w) \/ BeforeAttempt(w) \/ ChainExhausted(w)
  BY <1>3 DEF Revalidate, RenewClaim, BeforeAttempt, ChainExhausted
<1>4. CASE Accept(w) \/ Reject(w) \/ Timeout(w) \/ FinalizeSent(w) \/ FinalizeFailed(w)
  BY <1>4 DEF Accept, Reject, Timeout, FinalizeSent, FinalizeFailed
<1> QED BY <1>1, <1>2, <1>3, <1>4 DEF WorkerStep, Progress, Deliver

\* Only a flush that found nothing left to do reaches the clearing transaction.
LEMMA ClearingStep ==
  ASSUME ClaimInv, NEW w \in Workers, WorkerStep(w), pc'[w] = "clearing"
  PROVE  \A r \in RowIds : ~Recoverable(r)'
<1>1. CASE FinishFlush(w)
  BY <1>1 DEF FinishFlush, ClaimInv, TypeOK, Recoverable
<1>2. ~(AlreadyNotified(w) \/ ClearBanner(w) \/ Crash(w))
  <2>1. ~AlreadyNotified(w)
    BY LeaveDoes DEF AlreadyNotified
  <2> QED BY <2>1 DEF ClearBanner, Crash, ClaimInv, TypeOK
<1>3. ~((\E n \in Notices : Prepare(w, n)) \/ Reserve(w) \/ ReadStale(w) \/ ClaimPending(w))
  BY PrepareDoes, ReserveDoes, ReadEffect, ClaimDoes DEF ClaimInv
<1>4. ~OpenRow(w)
  BY OpenDoes DEF Skips, Parks, Opens
<1>5. ~BeginSend(w)
  BY LeaveDoes DEF BeginSend, ClaimInv, TypeOK
<1>6. ~Revalidate(w)
  BY LeaveDoes, FailDoes DEF Revalidate, ClaimInv, TypeOK
<1>7. ~(RenewClaim(w) \/ BeforeAttempt(w))
  BY LeaveDoes, FailDoes DEF RenewClaim, BeforeAttempt, ClaimInv, TypeOK
<1>8. ~(AttemptFault(w) \/ ChainExhausted(w))
  BY GiveUpDoes
<1>9. ~(Accept(w) \/ Reject(w) \/ Timeout(w))
  BY DEF Accept, Reject, Timeout, ClaimInv, TypeOK
<1>10. ~(FinalizeSent(w) \/ FinalizeFailed(w))
  BY FinalizeDoes
<1> QED BY <1>1, <1>2, <1>3, <1>4, <1>5, <1>6, <1>7, <1>8, <1>9, <1>10
        DEF WorkerStep, Progress, Deliver

LEMMA NextBanner ==
  ASSUME OneInstance, BannerInv, [Next]_vars
  PROVE  BannerInv'
<1>0. ClaimInv /\ TypeOK /\ ClaimInv' /\ config.dev
  BY NextClaimInv DEF BannerInv, ClaimInv
<1>1. CASE Environment \/ UNCHANGED vars
  <2>1. config'.dev
    BY <1>0, <1>1 DEF Environment, LeaseExpires, BecomesDue, Requeue, SwitchTestMode,
                      EditRecipients, vars, TypeOK
  <2>2. /\ pc' = pc /\ banner' = banner
        /\ \A r \in RowIds :
             /\ rows'[r].flag = rows[r].flag
             /\ \/ rows'[r].status = rows[r].status
                \/ /\ rows[r].status = "possible_duplicate"
                   /\ rows'[r].status = "pending_retry"
    BY <1>0, <1>1, EnvironmentDoes
  <2>3. ClearingIsRight'
    BY <2>2 DEF BannerInv, ClearingIsRight, Recoverable
  <2>4. \A r \in RowIds : Failing(r)' => Failing(r)
    BY <2>2 DEF Failing
  <2>5. FailureShowsBanner'
    BY <2>2, <2>4 DEF BannerInv, FailureShowsBanner, Failing
  <2> QED BY <1>0, <2>1, <2>3, <2>5 DEF BannerInv
<1>2. ASSUME NEW w \in Workers, WorkerStep(w) PROVE BannerInv'
  <2>1. config'.dev
    <3>1. config' = config
      BY <1>2 DEF WorkerStep, Progress, Deliver, Prepare, ReadStale, ClaimPending, AttemptFault, Crash,
           AlreadyNotified, Reserve, BeginSend, OpenRow, FinishFlush, ClearBanner,
           Revalidate, RenewClaim, BeforeAttempt, Accept, Reject, Timeout,
           ChainExhausted, FinalizeSent, FinalizeFailed, env
    <3> QED BY <1>0, <3>1
  <2>2. ClearingIsRight'
    BY <1>0, <1>2, ClearingStep DEF OneInstance, ClearingIsRight
  <2>3. FailureShowsBanner'
    <3>1. CASE ClearBanner(w)
      <4>1. \A r \in RowIds : ~Recoverable(r) /\ rows' = rows
        BY <3>1 DEF ClearBanner, BannerInv, ClearingIsRight
      <4> QED BY <4>1 DEF FailureShowsBanner, Recoverable
    <3>2. CASE ~ClearBanner(w)
      <4>1. \A r \in RowIds : Failing(r)' => banner'
        BY <1>0, <1>2, <3>2, FailingStep, BannerStays, BannerSays DEF BannerInv
      <4> QED BY <4>1 DEF FailureShowsBanner, Failing
    <3> QED BY <3>1, <3>2
  <2> QED BY <1>0, <2>1, <2>2, <2>3 DEF BannerInv
<1> QED BY <1>1, <1>2 DEF Next

\* With one service instance and a dev list that was seeded, whatever crashes,
\* times out, is switched or edited: as long as a notification that failed
\* cleanly or is quarantined waits in the outbox, the red banner is up.
THEOREM FailuresShowTheBanner ==
  OneInstance /\ DevSeeded => (Spec => []FailureShowsBanner)
<1> SUFFICES ASSUME OneInstance, DevSeeded PROVE Spec => []FailureShowsBanner
  OBVIOUS
<1>1. Init => BannerInv
  <2> SUFFICES ASSUME Init PROVE BannerInv
    OBVIOUS
  <2>1. ClaimInv
    BY InitClaimInv
  <2> QED BY <2>1 DEF Init, DevSeeded, AbsentRow, BannerInv, ClearingIsRight,
                      FailureShowsBanner
<1>2. BannerInv /\ [Next]_vars => BannerInv'
  BY NextBanner
<1>3. BannerInv => FailureShowsBanner
  BY DEF BannerInv
<1> QED BY <1>1, <1>2, <1>3, PTL DEF Spec

-----------------------------------------------------------------------------
(* The quarantine, while nothing but the providers fails. *)

\* No instance dies or outlives a lease, the settings and the lists stay.
Steady == {"crash", "slow", "mode", "recipients"} \cap Adverse = {}

\* A claim is always in somebody's hands, so none is ever stale.
AllHeld == \A r \in RowIds :
             rows[r].status = "sending" => \E w \in Workers : Holds(w, r)

\* The key is the list the settings route to, from the reservation on: the
\* revalidation finds the key it would write already there.
KeyRouted(r) ==
  IF rows[r].status = "absent" THEN rows[r].notice = NoNotice
  ELSE rows[r].notice \in Notices /\ rows[r].key = Recipients(rows[r].notice, config)
PreparedRouted(w) ==
  pc[w] = "prepared" => /\ job[w].notice \in Notices
                        /\ job[w].sel = Recipients(job[w].notice, config)

\* A marked row waits only while it has a send left.
QuotaFine(r) ==
  rows[r].flag /\ ~rows[r].released =>
    /\ rows[r].status \in {"pending", "pending_retry"} => rows[r].attempts < MaxAmbiguous
    /\ rows[r].status = "sending" => rows[r].attempts <= MaxAmbiguous

QuotaInv == /\ ClaimInv /\ HeldLive /\ AllHeld /\ KeysDistinct
            /\ \A r \in RowIds : KeyRouted(r) /\ QuotaFine(r)
            /\ \A w \in Workers : PreparedRouted(w)
            /\ NoRecovery

QuotaGoal == /\ AllHeld' /\ KeysDistinct'
             /\ \A r \in RowIds : KeyRouted(r)' /\ QuotaFine(r)'
             /\ \A w \in Workers : PreparedRouted(w)'

\* A step of w about row c: w lets go of c only if c is no longer being sent, and
\* the key of c is new to its notice if it changes.
LEMMA QuotaStep ==
  ASSUME QuotaInv, NEW w \in Workers, NEW c, Others(w), OnlyRow(c), config' = config,
         \A q \in RowIds \ {c} : Holds(w, q) => Holds(w, q)',
         PreparedRouted(w)',
         c \in RowIds =>
           /\ rows'[c].status = "sending" => Holds(w, c)'
           /\ KeyRouted(c)' /\ QuotaFine(c)'
           /\ \/ /\ rows'[c].notice = rows[c].notice /\ rows'[c].key = rows[c].key
                 /\ rows[c].status = "absent" => rows'[c].status = "absent"
              \/ \A q \in RowIds \ {c} :
                   rows[q].notice = rows'[c].notice => rows[q].key # rows'[c].key
  PROVE  QuotaGoal
<1>1. AllHeld'
  <2> SUFFICES ASSUME NEW r \in RowIds, rows'[r].status = "sending"
               PROVE  \E v \in Workers : Holds(v, r)'
    BY DEF AllHeld
  <2>1. CASE r = c
    BY <2>1
  <2>2. CASE r # c
    <3>1. PICK v \in Workers : Holds(v, r)
      BY <2>2 DEF OnlyRow, QuotaInv, AllHeld
    <3>2. Holds(v, r)'
      BY <2>2, <3>1 DEF Others, Holds
    <3> QED BY <3>2
  <2> QED BY <2>1, <2>2
<1>2. KeysDistinct'
  BY DEF QuotaInv, KeysDistinct, OnlyRow
<1>3. ASSUME NEW r \in RowIds PROVE KeyRouted(r)' /\ QuotaFine(r)'
  BY <1>3 DEF QuotaInv, KeyRouted, QuotaFine, OnlyRow
<1>4. ASSUME NEW v \in Workers PROVE PreparedRouted(v)'
  BY <1>4 DEF QuotaInv, PreparedRouted, Others
<1> QED BY <1>1, <1>2, <1>3, <1>4 DEF QuotaGoal

\* A step that leaves the rows alone and lets go of none that is being sent.
LEMMA QuotaQuiet ==
  ASSUME QuotaInv, NEW w \in Workers, Others(w), rows' = rows, config' = config,
         \A q \in RowIds : Holds(w, q) => Holds(w, q)',
         PreparedRouted(w)'
  PROVE  QuotaGoal
<1>1. -1 \notin RowIds
  BY OutboxConstants
<1>2. OnlyRow(-1)
  BY DEF OnlyRow
<1> QED BY <1>1, <1>2, QuotaStep

\* Claiming spends one of the sends a marked row has left.
LEMMA QuotaClaim ==
  ASSUME NEW x \in Row, NEW w \in Workers, x.status \in {"pending", "pending_retry"}
  PROVE  /\ Claim(x, w).status = "sending" /\ Claim(x, w).flag = x.flag
         /\ Claim(x, w).released = x.released
         /\ Claim(x, w).notice = x.notice /\ Claim(x, w).key = x.key
         /\ x.attempts < MaxAmbiguous => Claim(x, w).attempts <= MaxAmbiguous
<1> DEFINE attempts == IF x.attempts < MaxAttempts THEN x.attempts + 1 ELSE x.attempts
<1>1. x.attempts < MaxAmbiguous => attempts <= MaxAmbiguous
  BY OutboxConstants DEF Row, MaxAmbiguous
<1>2. Claim(x, w) = [x EXCEPT !.status = "sending", !.token = w, !.lease = "live",
                              !.due = FALSE, !.attempts = attempts]
  BY DEF Claim
<1> HIDE DEF attempts
<1> QED BY <1>1, <1>2 DEF Row

LEMMA QuotaLive ==
  ASSUME QuotaInv, NEW w \in Workers,
         (\E n \in Notices : Prepare(w, n)) \/ AlreadyNotified(w) \/ Reserve(w)
           \/ BeginSend(w)
  PROVE  QuotaGoal
<1>0. ClaimInv /\ TypeOK /\ job[w] \in Job
  BY DEF QuotaInv, ClaimInv, TypeOK
<1>1. CASE \E n \in Notices : Prepare(w, n)
  <2>1. PICK n \in Notices : Prepare(w, n)
    BY <1>1
  <2>2. /\ Others(w) /\ rows' = rows /\ config' = config /\ pc[w] = "idle"
        /\ job'[w].batch = job[w].batch
        /\ job'[w].notice = n /\ job'[w].sel = Recipients(n, config)
    BY <1>0, <2>1, PrepareDoes
  <2> QED BY <2>2, QuotaQuiet DEF Holds, Working, PreparedRouted
<1>2. CASE AlreadyNotified(w)
  <2>1. /\ Others(w) /\ pc'[w] \in {"idle", "flushing"} /\ job'[w].batch = job[w].batch
        /\ pc[w] = "prepared" /\ rows' = rows /\ config' = config
    BY <1>0, <1>2, LeaveDoes DEF AlreadyNotified, env
  <2> QED BY <2>1, QuotaQuiet DEF Holds, Working, PreparedRouted
<1>3. CASE Reserve(w)
  <2>1. PICK r \in RowIds :
          /\ rows[r].status = "absent" /\ OnlyRow(r) /\ job'[w].row = r
          /\ rows'[r].status = "pending" /\ ~rows'[r].flag
          /\ rows'[r].notice = job[w].notice
          /\ rows'[r].key = job[w].sel /\ rows'[r].to = job[w].sel
    BY <1>0, <1>3, ReserveDoes
  <2>2. /\ Others(w) /\ config' = config /\ pc[w] = "prepared" /\ pc'[w] = "reserved"
        /\ job'[w].batch = job[w].batch
        /\ ~KeyTaken(job[w].notice, job[w].sel)
    BY <1>0, <1>3, ReserveDoes
  <2>3. KeyRouted(r)' /\ QuotaFine(r)' /\ PreparedRouted(w)'
    BY <2>1, <2>2 DEF QuotaInv, KeyRouted, QuotaFine, PreparedRouted
  <2>4. \A q \in RowIds : rows[q].notice = rows'[r].notice => rows[q].key # rows'[r].key
    BY <2>1, <2>2 DEF KeyTaken
  <2>5. \A q \in RowIds : Holds(w, q) => Holds(w, q)'
    BY <2>2 DEF Holds, Working
  <2> QED BY <2>1, <2>2, <2>3, <2>4, <2>5, QuotaStep
<1>4. CASE BeginSend(w) /\ ~Sendable(job[w].row)
  <2>1. /\ Others(w) /\ pc'[w] \in {"idle", "flushing"} /\ job'[w].batch = job[w].batch
        /\ pc[w] = "reserved" /\ rows' = rows /\ config' = config
    BY <1>0, <1>4, LeaveDoes DEF BeginSend, env
  <2> QED BY <2>1, QuotaQuiet DEF Holds, Working, PreparedRouted
<1>5. CASE BeginSend(w) /\ Sendable(job[w].row)
  <2>0. PICK r : r = job[w].row
    OBVIOUS
  <2>1. /\ Others(w) /\ config' = config /\ OnlyRow(r) /\ job'[w] = job[w]
        /\ pc[w] = "reserved" /\ pc'[w] \in {"failed", "claimed"}
        /\ r \in RowIds => rows'[r] = Claim(rows[r], w)
    BY <1>0, <1>5, <2>0 DEF BeginSend, env, Others, OnlyRow, TypeOK
  <2>2. ASSUME r \in RowIds
        PROVE  /\ Holds(w, r)' /\ KeyRouted(r)' /\ QuotaFine(r)'
               /\ rows'[r].notice = rows[r].notice /\ rows'[r].key = rows[r].key
               /\ rows[r].status # "absent"
    <3>1. rows[r] \in Row /\ rows[r].status \in {"pending", "pending_retry"}
      BY <1>0, <1>5, <2>0, <2>2 DEF TypeOK, Sendable
    <3>2. /\ rows'[r].status = "sending" /\ rows'[r].flag = rows[r].flag
          /\ rows'[r].released = rows[r].released
          /\ rows'[r].notice = rows[r].notice /\ rows'[r].key = rows[r].key
          /\ rows[r].attempts < MaxAmbiguous => rows'[r].attempts <= MaxAmbiguous
      BY <2>1, <2>2, <3>1, QuotaClaim
    <3>3. KeyRouted(r) /\ QuotaFine(r)
      BY <2>2 DEF QuotaInv
    <3>4. KeyRouted(r)'
      BY <2>1, <3>1, <3>2, <3>3 DEF KeyRouted
    <3>5. QuotaFine(r)'
      BY <3>1, <3>2, <3>3 DEF QuotaFine
    <3>6. Holds(w, r)'
      BY <2>0, <2>1 DEF Holds, Working
    <3> QED BY <3>1, <3>2, <3>4, <3>5, <3>6
  <2>3. \A q \in RowIds : Holds(w, q) => Holds(w, q)'
    BY <2>1 DEF Holds, Working
  <2>4. PreparedRouted(w)'
    BY <2>1 DEF PreparedRouted
  <2> QED BY <2>1, <2>2, <2>3, <2>4, QuotaStep
<1> QED BY <1>1, <1>2, <1>3, <1>4, <1>5

LEMMA QuotaFlush ==
  ASSUME QuotaInv, NEW w \in Workers,
         ClaimPending(w) \/ OpenRow(w) \/ FinishFlush(w) \/ ClearBanner(w)
  PROVE  QuotaGoal
<1>0. ClaimInv /\ TypeOK /\ job[w] \in Job
  BY DEF QuotaInv, ClaimInv, TypeOK
<1>1. CASE ClaimPending(w)
  <2>1. /\ Others(w) /\ config' = config /\ pc[w] = "idle" /\ pc'[w] = "flushing"
        /\ \A r \in RowIds :
             \/ /\ r \in job'[w].batch /\ rows[r].status \in {"pending", "pending_retry"}
                /\ rows'[r] = Claim(rows[r], w)
             \/ r \notin job'[w].batch /\ rows'[r] = rows[r]
    BY <1>0, <1>1, ClaimDoes DEF QuotaInv, NoRecovery, StaleRead
  <2>3. \A r \in RowIds :
          \/ rows'[r] = rows[r] /\ r \notin job'[w].batch
          \/ /\ rows'[r] = Claim(rows[r], w) /\ Holds(w, r)'
             /\ rows[r].status \in {"pending", "pending_retry"}
    BY <2>1 DEF Holds
  <2>4. ASSUME NEW r \in RowIds
        PROVE  /\ rows'[r].notice = rows[r].notice /\ rows'[r].key = rows[r].key
               /\ rows'[r].status = "absent" <=> rows[r].status = "absent"
               /\ KeyRouted(r)' /\ QuotaFine(r)'
    <3>1. rows[r] \in Row /\ KeyRouted(r) /\ QuotaFine(r)
      BY <1>0 DEF TypeOK, QuotaInv
    <3>2. CASE rows'[r] = rows[r]
      BY <2>1, <3>1, <3>2 DEF KeyRouted, QuotaFine
    <3>3. CASE /\ rows'[r] = Claim(rows[r], w)
               /\ rows[r].status \in {"pending", "pending_retry"}
      <4>1. /\ rows'[r].status = "sending" /\ rows'[r].flag = rows[r].flag
            /\ rows'[r].released = rows[r].released
            /\ rows'[r].notice = rows[r].notice /\ rows'[r].key = rows[r].key
            /\ rows[r].attempts < MaxAmbiguous => rows'[r].attempts <= MaxAmbiguous
        BY <3>1, <3>3, QuotaClaim
      <4>2. KeyRouted(r)'
        BY <2>1, <3>1, <3>3, <4>1 DEF KeyRouted
      <4>3. QuotaFine(r)'
        BY <3>1, <3>3, <4>1 DEF QuotaFine
      <4> QED BY <3>3, <4>1, <4>2, <4>3
    <3> QED BY <2>3, <3>2, <3>3
  <2>5. AllHeld'
    <3> SUFFICES ASSUME NEW r \in RowIds, rows'[r].status = "sending"
                 PROVE  \E v \in Workers : Holds(v, r)'
      BY DEF AllHeld
    <3>1. CASE Holds(w, r)'
      BY <3>1
    <3>2. CASE rows'[r] = rows[r]
      <4>1. PICK v \in Workers : Holds(v, r)
        BY <3>2 DEF QuotaInv, AllHeld
      <4>2. v # w
        BY <1>0, <2>1, <4>1 DEF Holds, Working, ClaimInv, JobShape
      <4>3. Holds(v, r)'
        BY <2>1, <4>1, <4>2 DEF Others, Holds
      <4> QED BY <4>3
    <3> QED BY <2>3, <3>1, <3>2
  <2>6. KeysDistinct'
    BY <2>4 DEF QuotaInv, KeysDistinct
  <2>7. \A v \in Workers : PreparedRouted(v)'
    BY <2>1 DEF QuotaInv, PreparedRouted, Others
  <2> QED BY <2>4, <2>5, <2>6, <2>7 DEF QuotaGoal
<1>2. CASE OpenRow(w)
  <2>1. PICK r \in job[w].batch :
          /\ r \in RowIds /\ OnlyRow(r) /\ job'[w].batch = job[w].batch \ {r}
          /\ Skips(w, r) \/ Parks(w, r) \/ Opens(w, r)
    BY <1>0, <1>2, OpenDoes
  <2>2. Others(w) /\ config' = config /\ pc[w] = "flushing"
    BY <1>0, <1>2, OpenDoes
  <2>3. rows[r] \in Row /\ KeyRouted(r) /\ QuotaFine(r)
    BY <1>0, <2>1 DEF TypeOK, QuotaInv
  <2>4. rows[r].status = "sending" /\ rows[r].token = w
    BY <2>1 DEF QuotaInv, HeldLive, Holds, Owns
  <2>5. /\ rows'[r].notice = rows[r].notice /\ rows'[r].key = rows[r].key
        /\ rows'[r].status # "absent"
        /\ rows'[r].status = "sending" => Holds(w, r)'
        /\ QuotaFine(r)'
    <3>1. CASE Parks(w, r)
      <4>1. /\ rows'[r].notice = rows[r].notice /\ rows'[r].key = rows[r].key
            /\ rows'[r].status = IF rows[r].flag /\ rows[r].attempts >= MaxAmbiguous
                                 THEN "possible_duplicate" ELSE "pending_retry"
            /\ rows'[r].flag <=> rows[r].flag
            /\ rows'[r].attempts = rows[r].attempts
        BY <2>3, <3>1 DEF Parks, KeepPending, Row
      <4>2. rows[r].attempts \in Int
        BY <2>3, OutboxConstants DEF Row
      <4> QED BY <4>1, <4>2 DEF QuotaFine, MaxAmbiguous
    <3>2. CASE Opens(w, r)
      <4>1. /\ rows'[r].notice = rows[r].notice /\ rows'[r].key = rows[r].key
            /\ rows'[r].status = rows[r].status /\ rows'[r].flag = rows[r].flag
            /\ rows'[r].released = rows[r].released
            /\ rows'[r].attempts = rows[r].attempts
        BY <2>3, <3>2 DEF Opens, Row
      <4>2. Holds(w, r)'
        BY <3>2 DEF Opens, Holds, Working
      <4> QED BY <2>3, <2>4, <4>1, <4>2 DEF QuotaFine
    <3> QED BY <2>1, <2>4, <3>1, <3>2 DEF Skips
  <2>6. KeyRouted(r)'
    BY <2>2, <2>3, <2>4, <2>5 DEF KeyRouted
  <2>7. \A q \in RowIds \ {r} : Holds(w, q) => Holds(w, q)'
    BY <2>1, <2>2 DEF Holds, Working
  <2>8. PreparedRouted(w)'
    BY <2>1 DEF PreparedRouted, Skips, Parks, Opens
  <2> QED BY <2>1, <2>2, <2>4, <2>5, <2>6, <2>7, <2>8, QuotaStep
<1>3. CASE FinishFlush(w) \/ ClearBanner(w)
  <2>1. /\ LetsGo(w)
        /\ \A q \in RowIds : ~Holds(w, q)
    <3>1. pc[w] = "clearing" => job[w].batch = {}
      BY <1>0 DEF ClaimInv, JobShape
    <3> QED BY <1>0, <1>3, <3>1, QuietDoes DEF Quiet, FinishFlush, ClearBanner, Holds, Working
  <2> QED BY <2>1, QuotaQuiet DEF LetsGo, PreparedRouted
<1> QED BY <1>1, <1>2, <1>3

\* A delivery works on one row: the rest of the batch waits.
LEMMA BatchKept ==
  ASSUME ClaimInv, NEW w \in Workers, Deliver(w) \/ AttemptFault(w)
  PROVE  job'[w].batch = job[w].batch
<1>0. job[w] \in Job /\ TypeOK
  BY DEF ClaimInv, TypeOK
<1>1. ASSUME Leave(w, TRUE) \/ Leave(w, FALSE) PROVE job'[w].batch = job[w].batch
  BY <1>1, LeaveDoes
<1>2. ASSUME Fail(w, FALSE) PROVE job'[w].batch = job[w].batch
  BY <1>2, FailDoes
<1>3. CASE Revalidate(w)
  <2>1. \/ Leave(w, FALSE) \/ Fail(w, FALSE)
        \/ job' = [job EXCEPT ![w].sel = "none"]
        \/ \E route : job' = [job EXCEPT ![w].sel = route, ![w].to = route]
    BY <1>3 DEF Revalidate
  <2>2. CASE job' = [job EXCEPT ![w].sel = "none"]
    BY <1>0, <2>2 DEF TypeOK, Job
  <2>3. ASSUME NEW route, job' = [job EXCEPT ![w].sel = route, ![w].to = route]
        PROVE  job'[w].batch = job[w].batch
    BY <1>0, <2>3 DEF TypeOK, Job
  <2> QED BY <1>1, <1>2, <2>1, <2>2, <2>3
<1>4. CASE RenewClaim(w) \/ BeforeAttempt(w)
  <2>1. \/ Leave(w, FALSE) \/ Fail(w, FALSE) \/ job' = job
        \/ job' = [job EXCEPT ![w].tries = @ + 1]
    BY <1>4 DEF RenewClaim, BeforeAttempt
  <2>2. CASE job' = [job EXCEPT ![w].tries = @ + 1]
    BY <1>0, <2>2 DEF TypeOK, Job
  <2> QED BY <1>1, <1>2, <2>1, <2>2
<1>5. CASE AttemptFault(w) \/ ChainExhausted(w) \/ Accept(w) \/ Reject(w) \/ Timeout(w)
  BY <1>5, GiveUpDoes, ArriveDoes
<1>6. CASE FinalizeSent(w) \/ FinalizeFailed(w)
  BY <1>6, FinalizeDoes
<1> QED BY <1>3, <1>4, <1>5, <1>6 DEF Deliver

LEMMA QuotaDeliver ==
  ASSUME QuotaInv, NEW w \in Workers, Deliver(w) \/ AttemptFault(w)
  PROVE  QuotaGoal
<1>0. ClaimInv /\ TypeOK /\ job[w] \in Job
  BY DEF QuotaInv, ClaimInv, TypeOK
<1>1. PICK r : r = job[w].row
  OBVIOUS
<1>2. pc[w] \in Working
  BY DEF Deliver, Revalidate, RenewClaim, BeforeAttempt, AttemptFault, Accept, Reject,
         Timeout, ChainExhausted, FinalizeSent, FinalizeFailed, Working
<1>3. r \in RowIds => /\ rows[r].status = "sending" /\ rows[r].token = w
                      /\ rows[r] \in Row /\ KeyRouted(r) /\ QuotaFine(r)
  BY <1>0, <1>1, <1>2 DEF QuotaInv, HeldLive, Holds, Owns, TypeOK
<1>4. ASSUME Others(w), OnlyRow(r), config' = config,
             job'[w].batch = job[w].batch, job'[w].row = r, pc'[w] \in Working,
             r \in RowIds => /\ rows'[r].status = rows[r].status
                             /\ rows'[r].notice = rows[r].notice
                             /\ rows'[r].key = rows[r].key
                             /\ rows'[r].flag = rows[r].flag
                             /\ rows'[r].released = rows[r].released
                             /\ rows'[r].attempts = rows[r].attempts
      PROVE  QuotaGoal
  <2>1. \A q \in RowIds : Holds(w, q) => Holds(w, q)'
    BY <1>1, <1>4 DEF Holds
  <2>2. r \in RowIds => Holds(w, r)' /\ KeyRouted(r)' /\ QuotaFine(r)'
    BY <1>3, <1>4 DEF Holds, KeyRouted, QuotaFine
  <2>3. PreparedRouted(w)'
    BY <1>4 DEF PreparedRouted, Working
  <2> QED BY <1>3, <1>4, <2>1, <2>2, <2>3, QuotaStep
<1>5. job'[w].batch = job[w].batch
  BY <1>0, BatchKept
<1>6. ASSUME LetsGo(w), r \notin RowIds PROVE QuotaGoal
  <2>1. \A q \in RowIds : Holds(w, q) => Holds(w, q)'
    BY <1>1, <1>5, <1>6 DEF Holds
  <2> QED BY <1>6, <2>1, QuotaQuiet DEF LetsGo, PreparedRouted
<1>7. CASE Revalidate(w)
  <2>1. r \in RowIds => \A q \in RowIds \ {r} :
          rows[q].notice = rows[r].notice
            => rows[q].key # Recipients(rows[r].notice, config)
    <3> SUFFICES ASSUME r \in RowIds, NEW q \in RowIds \ {r},
                        rows[q].notice = rows[r].notice,
                        rows[q].key = Recipients(rows[r].notice, config)
                 PROVE  FALSE
      OBVIOUS
    <3>1. rows[r].notice \in Notices /\ rows[r].key = Recipients(rows[r].notice, config)
      BY <1>3 DEF KeyRouted
    <3>2. rows[q].status # "absent"
      BY <3>1, OutboxConstants DEF QuotaInv, KeyRouted
    <3> QED BY <1>3, <3>1, <3>2 DEF QuotaInv, KeysDistinct
  <2>2. CASE LetsGo(w)
    <3>1. pc'[w] \in {"idle", "recovering", "flushing", "clearing"}
      BY <2>2 DEF LetsGo
    <3>2. rows[r].token = w =>
            \E q \in RowIds \ {r} : /\ rows[q].notice = rows[r].notice
                                    /\ rows[q].key = Recipients(rows[r].notice, config)
      BY <1>0, <1>1, <1>7, <3>1, RevalidateDoes
    <3> QED BY <1>3, <1>6, <2>1, <2>2, <3>2
  <2>3. CASE ~LetsGo(w)
    <3>1. /\ Others(w) /\ config' = config /\ job'[w].row = r
          /\ pc'[w] \in {"failed", "ready", "revalidated"}
          /\ \/ rows' = rows
             \/ /\ OnlyRow(r)
                /\ r \in RowIds =>
                     rows'[r] = Rerouted(rows[r], Recipients(rows[r].notice, config))
      BY <1>0, <1>1, <1>7, <2>3, RevalidateDoes
    <3>2. r \in RowIds => rows[r].key = Recipients(rows[r].notice, config)
      BY <1>3 DEF KeyRouted
    <3>3. /\ OnlyRow(r)
          /\ r \in RowIds => /\ rows'[r].status = rows[r].status
                             /\ rows'[r].notice = rows[r].notice
                             /\ rows'[r].key = rows[r].key
                             /\ rows'[r].flag = rows[r].flag
                             /\ rows'[r].released = rows[r].released
                             /\ rows'[r].attempts = rows[r].attempts
      BY <1>3, <3>1, <3>2 DEF OnlyRow, Row, Rerouted
    <3> QED BY <1>4, <1>5, <3>1, <3>3 DEF Working
  <2> QED BY <2>2, <2>3
<1>8. CASE RenewClaim(w) \/ BeforeAttempt(w)
  <2>1. r \in RowIds => Owns(w, r)
    BY <1>3 DEF Owns
  <2>2. CASE LetsGo(w)
    <3>1. pc'[w] \in {"idle", "recovering", "flushing", "clearing"}
      BY <2>2 DEF LetsGo
    <3>2. ~Owns(w, r)
      BY <1>0, <1>1, <1>8, <3>1, RenewDoes
    <3> QED BY <1>6, <2>1, <2>2, <3>2
  <2>3. CASE ~LetsGo(w)
    <3>1. /\ Others(w) /\ config' = config /\ job'[w].row = r
          /\ pc'[w] \in {"failed", "ready", "sending"}
          /\ rows' = rows \/ rows' = [rows EXCEPT ![r].lease = "live"]
      BY <1>0, <1>1, <1>8, <2>3, RenewDoes
    <3>2. /\ OnlyRow(r)
          /\ r \in RowIds => /\ rows'[r].status = rows[r].status
                             /\ rows'[r].notice = rows[r].notice
                             /\ rows'[r].key = rows[r].key
                             /\ rows'[r].flag = rows[r].flag
                             /\ rows'[r].released = rows[r].released
                             /\ rows'[r].attempts = rows[r].attempts
      BY <1>0, <3>1, LeaseFields DEF OnlyRow
    <3> QED BY <1>4, <1>5, <3>1, <3>2 DEF Working
  <2> QED BY <2>2, <2>3
<1>9. CASE AttemptFault(w) \/ ChainExhausted(w) \/ Accept(w) \/ Reject(w) \/ Timeout(w)
  <2>1. /\ Others(w) /\ rows' = rows /\ config' = config /\ job'[w].row = r
        /\ pc'[w] \in {"failed", "ready", "delivered"}
    BY <1>0, <1>1, <1>9, GiveUpDoes, ArriveDoes
  <2> QED BY <1>4, <1>5, <2>1 DEF OnlyRow, Working
<1>10. CASE FinalizeSent(w) \/ FinalizeFailed(w)
  <2>1. /\ Others(w) /\ config' = config /\ pc'[w] \in {"idle", "flushing"}
        /\ \/ rows' = rows /\ ~MayFinalize(w, r)
           \/ /\ OnlyRow(r)
              /\ r \in RowIds => \/ rows'[r] = MarkSent(rows[r], job[w].amb)
                                 \/ rows'[r] = KeepPending(rows[r], job[w].amb)
    BY <1>0, <1>1, <1>10, FinalizeDoes
  <2>2. \A q \in RowIds \ {r} : Holds(w, q) => Holds(w, q)'
    BY <1>1, <1>5 DEF Holds
  <2>3. r \in RowIds => MayFinalize(w, r)
    BY <1>3 DEF MayFinalize
  <2>4. OnlyRow(r)
    BY <2>1 DEF OnlyRow
  <2>5. ASSUME r \in RowIds
        PROVE  /\ rows'[r].notice = rows[r].notice /\ rows'[r].key = rows[r].key
               /\ rows'[r].status \notin {"absent", "sending"}
               /\ QuotaFine(r)'
    <3>1. rows[r] \in Row
      BY <1>3, <2>5
    <3>2. CASE rows'[r] = MarkSent(rows[r], job[w].amb)
      BY <3>1, <3>2 DEF MarkSent, Row, QuotaFine
    <3>3. CASE rows'[r] = KeepPending(rows[r], job[w].amb)
      <4> DEFINE flag == rows[r].flag \/ job[w].amb
                 held == flag /\ rows[r].attempts >= MaxAmbiguous
      <4>1. /\ rows'[r].notice = rows[r].notice /\ rows'[r].key = rows[r].key
            /\ rows'[r].status = IF held THEN "possible_duplicate" ELSE "pending_retry"
            /\ rows'[r].flag => flag
            /\ rows'[r].attempts = rows[r].attempts
        BY <3>1, <3>3 DEF KeepPending, Row
      <4>2. rows[r].attempts \in Int
        BY <3>1, OutboxConstants DEF Row
      <4>3. rows'[r].status = "pending_retry" => ~flag \/ rows[r].attempts < MaxAmbiguous
        BY <4>1, <4>2 DEF MaxAmbiguous
      <4>4. rows'[r].status \in {"pending_retry", "possible_duplicate"}
        BY <4>1
      <4> HIDE DEF flag, held
      <4> QED BY <4>1, <4>3, <4>4 DEF QuotaFine
    <3> QED BY <2>1, <2>3, <2>5, <3>2, <3>3
  <2>6. r \in RowIds => KeyRouted(r)'
    BY <1>3, <2>1, <2>5 DEF KeyRouted
  <2>7. PreparedRouted(w)'
    BY <2>1 DEF PreparedRouted
  <2> QED BY <1>3, <2>1, <2>2, <2>4, <2>5, <2>6, <2>7, QuotaStep
<1> QED BY <1>7, <1>8, <1>9, <1>10 DEF Deliver

\* Only a read of stale rows begins a recovery.
LEMMA OnlyReadStale ==
  ASSUME ClaimInv, NEW w \in Workers, WorkerStep(w), ~ReadStale(w)
  PROVE  /\ \A v \in Workers \ {w} : pc'[v] = pc[v]
         /\ pc'[w] = "recovering" => pc[w] = "recovering"
<1> USE DEF env
<1>0. TypeOK
  BY DEF ClaimInv
<1>1. CASE \E b \in BOOLEAN : Leave(w, b) \/ Fail(w, b)
  BY <1>1, LeaveDoes, FailDoes DEF Others
<1>2. CASE (\E n \in Notices : Prepare(w, n)) \/ Reserve(w) \/ ClaimPending(w)
  BY <1>2, PrepareDoes, ReserveDoes, ClaimDoes DEF Others
<1>3. CASE OpenRow(w)
  <2>1. Others(w) /\ \E r \in job[w].batch : Skips(w, r) \/ Parks(w, r) \/ Opens(w, r)
    BY <1>3, OpenDoes
  <2>2. PICK r \in job[w].batch : Skips(w, r) \/ Parks(w, r) \/ Opens(w, r)
    BY <2>1
  <2>3. pc'[w] \in {"flushing", "claimed", "failed"}
    BY <2>2 DEF Skips, Parks, Opens
  <2> QED BY <2>1, <2>3 DEF Others
<1>4. CASE FinishFlush(w) \/ ClearBanner(w) \/ Crash(w)
  BY <1>0, <1>4 DEF FinishFlush, ClearBanner, Crash, TypeOK
<1>5. CASE AlreadyNotified(w) \/ BeginSend(w)
  BY <1>0, <1>1, <1>5 DEF AlreadyNotified, BeginSend, TypeOK
<1>6. CASE Revalidate(w)
  BY <1>0, <1>1, <1>6 DEF Revalidate, TypeOK
<1>7. CASE RenewClaim(w) \/ BeforeAttempt(w)
  BY <1>0, <1>1, <1>7 DEF RenewClaim, BeforeAttempt, TypeOK
<1>8. CASE AttemptFault(w) \/ ChainExhausted(w)
  BY <1>8, GiveUpDoes DEF Others
<1>9. CASE Accept(w) \/ Reject(w) \/ Timeout(w)
  BY <1>9, ArriveDoes DEF Others
<1>10. CASE FinalizeSent(w) \/ FinalizeFailed(w)
  BY <1>10, FinalizeDoes DEF Others
<1> QED BY <1>2, <1>3, <1>4, <1>5, <1>6, <1>7, <1>8, <1>9, <1>10
        DEF WorkerStep, Progress, Deliver

LEMMA NextQuota ==
  ASSUME Steady, QuotaInv, [Next]_vars
  PROVE  QuotaInv'
<1>0. ClaimInv /\ ClaimInv' /\ HeldLive'
  BY NextClaimInv, NextHeld DEF QuotaInv, Steady, Prompt
<1> SUFFICES QuotaGoal /\ NoRecovery'
  BY <1>0 DEF QuotaInv, QuotaGoal
<1>1. CASE Environment \/ UNCHANGED vars
  <2>1. /\ pc' = pc /\ job' = job /\ config' = config
        /\ \A r \in RowIds :
             /\ rows'[r].flag = rows[r].flag
             /\ rows'[r].notice = rows[r].notice /\ rows'[r].key = rows[r].key
             /\ rows'[r].attempts = rows[r].attempts
             /\ \/ /\ rows'[r].status = rows[r].status
                   /\ rows'[r].released = rows[r].released
                \/ /\ rows[r].status = "possible_duplicate"
                   /\ rows'[r].status = "pending_retry" /\ rows'[r].released
    BY <1>0, <1>1, EnvironmentDoes DEF Steady
  <2>2. AllHeld'
    BY <2>1 DEF QuotaInv, AllHeld, Holds
  <2>3. KeysDistinct'
    BY <2>1 DEF QuotaInv, KeysDistinct
  <2>4. ASSUME NEW r \in RowIds PROVE KeyRouted(r)' /\ QuotaFine(r)'
    <3>1. KeyRouted(r)'
      BY <2>1 DEF QuotaInv, KeyRouted
    <3>2. QuotaFine(r)'
      BY <2>1 DEF QuotaInv, QuotaFine
    <3> QED BY <3>1, <3>2
  <2>5. \A w \in Workers : PreparedRouted(w)'
    BY <2>1 DEF QuotaInv, PreparedRouted
  <2>6. NoRecovery'
    BY <2>1 DEF QuotaInv, NoRecovery
  <2> QED BY <2>2, <2>3, <2>4, <2>5, <2>6 DEF QuotaGoal
<1>2. ASSUME NEW w \in Workers, WorkerStep(w) PROVE QuotaGoal /\ NoRecovery'
  <2>1. ~Crash(w)
    BY DEF Crash, Spend, Steady
  <2>2. ~ReadStale(w)
    BY DEF ReadStale, Stale, QuotaInv, AllHeld, HeldLive
  <2>3. QuotaGoal
    BY <1>2, <2>1, <2>2, QuotaLive, QuotaFlush, QuotaDeliver DEF WorkerStep, Progress
  <2>4. NoRecovery'
    BY <1>0, <1>2, <2>2, OnlyReadStale DEF QuotaInv, NoRecovery
  <2> QED BY <2>3, <2>4
<1> QED BY <1>1, <1>2 DEF Next

\* As long as instances neither die nor outlive their leases and the settings stay,
\* however often the providers reject, time out or are down, and whatever an
\* operator releases: a marked row is sent automatically at most MaxAmbiguous times.
THEOREM AmbiguousSendsAreBounded == Steady => (Spec => []AmbiguousSendsBounded)
<1> SUFFICES ASSUME Steady PROVE Spec => []AmbiguousSendsBounded
  OBVIOUS
<1>1. Init => QuotaInv
  <2> SUFFICES ASSUME Init PROVE QuotaInv
    OBVIOUS
  <2>1. ClaimInv /\ HeldLive
    BY InitClaimInv, InitHeld
  <2> QED BY <2>1 DEF Init, AbsentRow, NoRecovery, QuotaInv, AllHeld, KeysDistinct, KeyRouted,
                      QuotaFine, PreparedRouted
<1>2. QuotaInv /\ [Next]_vars => QuotaInv'
  BY NextQuota
<1>3. QuotaInv => AmbiguousSendsBounded
  BY DEF QuotaInv, QuotaFine, AmbiguousSendsBounded
<1> QED BY <1>1, <1>2, <1>3, PTL DEF Spec
=============================================================================
