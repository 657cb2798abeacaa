--------------------------- MODULE Outbox_proofs ---------------------------
(* What holds of the outbox for every number of instances, notices and rows. *)
EXTENDS Outbox, TLAPS

\* The row updates of NotificationRepository keep a row a row.
LEMMA RowUpdates ==
  ASSUME NEW row \in Row
  PROVE  /\ \A w \in Workers : Claim(row, w) \in Row
         /\ Recovered(row) \in Row
         /\ \A amb \in BOOLEAN : /\ MarkSent(row, amb) \in Row
                               /\ KeepPending(row, amb) \in Row
         /\ \A route \in RouteOrNone : /\ Rerouted(row, route) \in Row
                                     /\ [row EXCEPT !.to = route] \in Row
         /\ \A lease \in {"live", "expired"} : [row EXCEPT !.lease = lease] \in Row
         /\ [row EXCEPT !.due = TRUE] \in Row
         /\ \A count \in 0..MaxAttempts : [row EXCEPT !.attempts = count] \in Row
         /\ [row EXCEPT !.status = "pending_retry", !.due = TRUE,
                        !.released = TRUE] \in Row
<1>1. ASSUME NEW w \in Workers PROVE Claim(row, w) \in Row
  <2> DEFINE attempts == IF row.attempts < MaxAttempts THEN row.attempts + 1
                                                       ELSE row.attempts
  <2>1. attempts \in 0..MaxAttempts
    BY OutboxConstants DEF Row
  <2>2. Claim(row, w) = [row EXCEPT !.status = "sending", !.token = w,
                           !.lease = "live", !.due = FALSE, !.attempts = attempts]
    BY DEF Claim
  <2> HIDE DEF attempts
  <2> QED BY <2>1, <2>2 DEF Row, Statuses
<1>2. Recovered(row) \in Row
  BY DEF Recovered, Row, Statuses
<1>3. ASSUME NEW amb \in BOOLEAN PROVE MarkSent(row, amb) \in Row
  BY DEF MarkSent, Row, Statuses
<1>4. ASSUME NEW amb \in BOOLEAN PROVE KeepPending(row, amb) \in Row
  BY ZenonT(60), OutboxConstants DEF KeepPending, Row, Statuses, MaxAmbiguous
<1>5. ASSUME NEW route \in RouteOrNone
      PROVE  /\ Rerouted(row, route) \in Row
             /\ [row EXCEPT !.to = route] \in Row
  BY DEF Rerouted, Row
<1>6. ASSUME NEW lease \in {"live", "expired"}
      PROVE  [row EXCEPT !.lease = lease] \in Row
  BY DEF Row
<1>7. [row EXCEPT !.due = TRUE] \in Row
  BY DEF Row
<1>8. [row EXCEPT !.status = "pending_retry", !.due = TRUE, !.released = TRUE] \in Row
  BY DEF Row, Statuses
<1>9. ASSUME NEW count \in 0..MaxAttempts PROVE [row EXCEPT !.attempts = count] \in Row
  BY DEF Row
<1> QED BY <1>1, <1>2, <1>3, <1>4, <1>5, <1>6, <1>7, <1>8, <1>9

LEMMA AbsentRowType == AbsentRow \in Row
BY OutboxConstants DEF AbsentRow, Row, RouteOrNone, Statuses

LEMMA NoJobType == NoJob \in Job
BY OutboxConstants DEF NoJob, Job, RouteOrNone

LEMMA InitTypeOK == Init => TypeOK
<1> SUFFICES ASSUME Init PROVE TypeOK
  OBVIOUS
<1>1. rows \in [RowIds -> Row]
  BY AbsentRowType DEF Init
<1>2. config \in [testMode : BOOLEAN, dev : BOOLEAN, biz : BOOLEAN]
  BY OutboxConstants DEF Init
<1>3. job \in [Workers -> Job]
  BY NoJobType DEF Init
<1>4. [count |-> 0, reached |-> {}] \in [count : 0..2, reached : SUBSET RouteOrNone]
  OBVIOUS
<1>5. mail \in [RowIds -> [count : 0..2, reached : SUBSET RouteOrNone]]
  BY <1>4 DEF Init
<1>6. banner \in BOOLEAN /\ pc \in [Workers -> Stages]
  BY DEF Init, Stages
<1>7. lateBiz \in [Workers -> 0..2] /\ budget \in 0..MaxAdverse
  BY OutboxConstants DEF Init
<1> QED BY <1>1, <1>2, <1>3, <1>5, <1>6, <1>7 DEF TypeOK

\* So do the updates of an instance's locals.
LEMMA JobUpdates ==
  ASSUME NEW j \in Job
  PROVE  /\ \A bool \in BOOLEAN :
              /\ [j EXCEPT !.row = -1, !.sel = "none", !.to = "none", !.amb = FALSE,
                           !.tries = 0, !.flushed = @ \/ bool] \in Job
              /\ [j EXCEPT !.amb = bool, !.tries = 0] \in Job
         /\ \A n \in Notices, route \in RouteOrNone :
              [j EXCEPT !.notice = n, !.sel = route, !.to = route] \in Job
         /\ \A route \in RouteOrNone : [j EXCEPT !.sel = route, !.to = route] \in Job
         /\ [j EXCEPT !.sel = "none"] \in Job
         /\ \A r \in RowIds :
              /\ [j EXCEPT !.row = r] \in Job
              /\ [j EXCEPT !.batch = @ \ {r}] \in Job
              /\ \A route \in RouteOrNone :
                   [j EXCEPT !.batch = @ \ {r}, !.row = r, !.sel = route,
                             !.to = route] \in Job
<1>0. 0 \in 0..MaxTries
  BY OutboxConstants
<1>1. ASSUME NEW bool \in BOOLEAN
      PROVE  /\ [j EXCEPT !.row = -1, !.sel = "none", !.to = "none", !.amb = FALSE,
                          !.tries = 0, !.flushed = @ \/ bool] \in Job
             /\ [j EXCEPT !.amb = bool, !.tries = 0] \in Job
  BY <1>0 DEF Job, RouteOrNone
<1>2. ASSUME NEW n \in Notices, NEW route \in RouteOrNone
      PROVE  [j EXCEPT !.notice = n, !.sel = route, !.to = route] \in Job
  BY DEF Job
<1>3. /\ \A route \in RouteOrNone : [j EXCEPT !.sel = route, !.to = route] \in Job
      /\ [j EXCEPT !.sel = "none"] \in Job
  BY DEF Job, RouteOrNone
<1>4. ASSUME NEW r \in RowIds
      PROVE  /\ [j EXCEPT !.row = r] \in Job
             /\ [j EXCEPT !.batch = @ \ {r}] \in Job
             /\ \A route \in RouteOrNone :
                  [j EXCEPT !.batch = @ \ {r}, !.row = r, !.sel = route,
                            !.to = route] \in Job
  BY DEF Job
<1> QED BY <1>1, <1>2, <1>3, <1>4

\* Leaving a row, and giving up on it, keep the locals well typed.
LEMMA LeaveType ==
  ASSUME TypeOK, NEW w \in Workers, NEW delivered \in BOOLEAN, Leave(w, delivered)
  PROVE  pc' \in [Workers -> Stages] /\ job' \in [Workers -> Job]
<1>1. CASE job[w].mode = "live"
  BY <1>1, NoJobType DEF Leave, TypeOK, Stages
<1>2. CASE job[w].mode # "live"
  <2>1. pc' \in [Workers -> Stages]
    BY <1>2 DEF Leave, TypeOK, Stages
  <2>2. job' = [job EXCEPT ![w] = [job[w] EXCEPT !.row = -1, !.sel = "none",
                  !.to = "none", !.amb = FALSE, !.tries = 0, !.flushed = @ \/ delivered]]
    BY <1>2 DEF Leave, TypeOK
  <2>3. [job[w] EXCEPT !.row = -1, !.sel = "none", !.to = "none", !.amb = FALSE,
                       !.tries = 0, !.flushed = @ \/ delivered] \in Job
    BY JobUpdates DEF TypeOK
  <2> QED BY <2>1, <2>2, <2>3 DEF TypeOK
<1> QED BY <1>1, <1>2

LEMMA FailType ==
  ASSUME TypeOK, NEW w \in Workers, NEW amb \in BOOLEAN, Fail(w, amb)
  PROVE  pc' \in [Workers -> Stages] /\ job' \in [Workers -> Job]
<1>1. pc' \in [Workers -> Stages]
  BY DEF Fail, TypeOK, Stages
<1>2. job' = [job EXCEPT ![w] = [job[w] EXCEPT !.amb = amb, !.tries = 0]]
  BY DEF Fail, TypeOK
<1>3. [job[w] EXCEPT !.amb = amb, !.tries = 0] \in Job
  BY JobUpdates DEF TypeOK
<1> QED BY <1>1, <1>2, <1>3 DEF TypeOK

LEMMA RecipientsType ==
  ASSUME NEW n, NEW c PROVE Recipients(n, c) \in RouteOrNone
BY DEF Recipients, RouteOrNone, Routes

\* Replacing one row by a row keeps the table well typed.
LEMMA RowsExcept ==
  ASSUME TypeOK, NEW r, NEW row, r \in RowIds => row \in Row
  PROVE  [rows EXCEPT ![r] = row] \in [RowIds -> Row]
BY DEF TypeOK

\* What one budgeted event does to the budget.
LEMMA SpendType == ASSUME TypeOK, NEW kind, Spend(kind) PROVE budget' \in 0..MaxAdverse
BY OutboxConstants DEF TypeOK, Spend

LEMMA ArriveType ==
  ASSUME TypeOK, NEW w \in Workers, NEW accepted \in BOOLEAN, Arrive(w, accepted)
  PROVE  /\ mail' \in [RowIds -> [count : 0..2, reached : SUBSET RouteOrNone]]
         /\ lateBiz' \in [Workers -> 0..2]
<1> DEFINE r == job[w].row
           m == mail[r]
<1>1. job[w].to \in RouteOrNone
  BY DEF TypeOK, Job
<1>2. mail' \in [RowIds -> [count : 0..2, reached : SUBSET RouteOrNone]]
  <2>1. CASE r \in RowIds
    <3>1. m \in [count : 0..2, reached : SUBSET RouteOrNone]
      BY <2>1 DEF TypeOK
    <3>2. (IF m.count < 2 THEN m.count + 1 ELSE m.count) \in 0..2
      BY <3>1
    <3>3. [m EXCEPT !.count = IF @ < 2 THEN @ + 1 ELSE @,
                    !.reached = @ \cup {job[w].to}]
            \in [count : 0..2, reached : SUBSET RouteOrNone]
      BY <1>1, <3>1, <3>2
    <3> QED BY <2>1, <3>3 DEF Arrive, TypeOK
  <2>2. CASE r \notin RowIds
    BY <2>2 DEF Arrive, TypeOK
  <2> QED BY <2>1, <2>2
<1>3. lateBiz' \in [Workers -> 0..2]
  <2>1. (IF lateBiz[w] < 2 THEN lateBiz[w] + 1 ELSE lateBiz[w]) \in 0..2
    BY DEF TypeOK
  <2> QED BY <2>1 DEF Arrive, TypeOK
<1> QED BY <1>2, <1>3

LEMMA RenewType ==
  ASSUME TypeOK, NEW r, NEW lease \in {"live", "expired"}
  PROVE  [rows EXCEPT ![r].lease = lease] \in [RowIds -> Row]
<1>1. r \in RowIds => [rows[r] EXCEPT !.lease = lease] \in Row
  BY RowUpdates DEF TypeOK
<1>2. [rows EXCEPT ![r].lease = lease] =
        [rows EXCEPT ![r] = [rows[r] EXCEPT !.lease = lease]]
  OBVIOUS
<1> QED BY <1>1, <1>2, RowsExcept

\* The rows that w's recovery has read, and what it makes of a row.
StaleRead(w) == IF pc[w] = "recovering" THEN job[w].stale ELSE {}
RecoveredBy(w, r) == IF r \in StaleRead(w) THEN Recovered(rows[r]) ELSE rows[r]

\* A recovery and claim in one transaction, before anything is said about the rows.
ClaimsRows(w, copied, claimed) ==
  /\ claimed \subseteq RowIds
  /\ \A r \in claimed : Claimable(RecoveredBy(w, r))
  /\ rows' = [r \in RowIds |->
       IF r \in claimed
       THEN Claim(IF copied /\ r \in StaleRead(w)
                  THEN [RecoveredBy(w, r) EXCEPT !.attempts = job[w].counts[r]]
                  ELSE RecoveredBy(w, r), w)
       ELSE RecoveredBy(w, r)]
  /\ job' = [job EXCEPT ![w] = [NoJob EXCEPT !.mode = "flush", !.batch = claimed]]

LEMMA ClaimTakes ==
  ASSUME NEW w \in Workers, ClaimPending(w)
  PROVE  \E copied \in BOOLEAN, claimed \in SUBSET RowIds : ClaimsRows(w, copied, claimed)
<1> DEFINE recovered == [r \in RowIds |-> RecoveredBy(w, r)]
           loaded(copied, r) == IF copied /\ r \in StaleRead(w)
                                THEN [recovered[r] EXCEPT !.attempts = job[w].counts[r]]
                                ELSE recovered[r]
<1>1. PICK copied \in BOOLEAN, claimed \in SUBSET RowIds :
        /\ \A r \in claimed : Claimable(recovered[r])
        /\ rows' = [r \in RowIds |-> IF r \in claimed THEN Claim(loaded(copied, r), w)
                                                     ELSE recovered[r]]
        /\ job' = [job EXCEPT ![w] = [NoJob EXCEPT !.mode = "flush", !.batch = claimed]]
  BY Zenon DEF ClaimPending, RecoveredBy, StaleRead
<1>2. \A r \in RowIds : recovered[r] = RecoveredBy(w, r)
  OBVIOUS
<1> HIDE DEF recovered
<1>3. ClaimsRows(w, copied, claimed)
  BY <1>1, <1>2 DEF ClaimsRows
<1> QED BY <1>3

LEMMA ClaimType ==
  ASSUME TypeOK, NEW w \in Workers, ClaimPending(w)
  PROVE  rows' \in [RowIds -> Row] /\ job' \in [Workers -> Job]
<1>1. PICK copied \in BOOLEAN, claimed \in SUBSET RowIds : ClaimsRows(w, copied, claimed)
  BY ClaimTakes
<1>2. ASSUME NEW r \in RowIds
      PROVE  /\ RecoveredBy(w, r) \in Row
             /\ [RecoveredBy(w, r) EXCEPT !.attempts = job[w].counts[r]] \in Row
  <2>1. RecoveredBy(w, r) \in Row
    BY RowUpdates DEF RecoveredBy, TypeOK
  <2>2. job[w].counts[r] \in 0..MaxAttempts
    BY DEF TypeOK, Job
  <2> QED BY <2>1, <2>2, RowUpdates
<1>3. rows' \in [RowIds -> Row]
  BY <1>1, <1>2, RowUpdates DEF ClaimsRows
<1>4. [NoJob EXCEPT !.mode = "flush", !.batch = claimed] \in Job
  BY NoJobType DEF Job
<1> QED BY <1>1, <1>3, <1>4 DEF ClaimsRows, TypeOK

\* Every step of the model keeps every variable within its type.
LEMMA NextTypeOK == TypeOK /\ [Next]_vars => TypeOK'
<1> SUFFICES ASSUME TypeOK, [Next]_vars PROVE TypeOK'
  OBVIOUS
<1> USE DEF env
<1>0. \A w \in Workers : job[w] \in Job
  BY DEF TypeOK
<1>1. ASSUME NEW w \in Workers, NEW n \in Notices, Prepare(w, n) PROVE TypeOK'
  <2>1. Recipients(n, config) \in RouteOrNone
    BY RecipientsType
  <2>2. job' \in [Workers -> Job]
    BY <1>0, <1>1, <2>1, JobUpdates DEF Prepare, TypeOK
  <2>3. pc' \in [Workers -> Stages]
    BY <1>1 DEF Prepare, TypeOK, Stages
  <2> QED BY <1>1, <2>2, <2>3 DEF Prepare, TypeOK
<1>2. ASSUME NEW w \in Workers, AlreadyNotified(w) PROVE TypeOK'
  <2>1. pc' \in [Workers -> Stages] /\ job' \in [Workers -> Job]
    BY <1>2, LeaveType DEF AlreadyNotified
  <2> QED BY <1>2, <2>1 DEF AlreadyNotified, TypeOK
<1>3. ASSUME NEW w \in Workers, Reserve(w) PROVE TypeOK'
  <2>1. PICK r \in RowIds :
          /\ rows' = [rows EXCEPT ![r] =
                        [AbsentRow EXCEPT !.notice = job[w].notice,
                                          !.key = job[w].sel, !.to = job[w].sel,
                                          !.status = "pending"]]
          /\ job' = [job EXCEPT ![w].row = r]
    BY <1>3 DEF Reserve
  <2>2. [AbsentRow EXCEPT !.notice = job[w].notice, !.key = job[w].sel,
                          !.to = job[w].sel, !.status = "pending"] \in Row
    BY <1>0, AbsentRowType DEF Job, Row, Statuses
  <2>3. rows' \in [RowIds -> Row]
    BY <2>1, <2>2 DEF TypeOK
  <2>4. job' \in [Workers -> Job]
    BY <1>0, <2>1, JobUpdates DEF TypeOK
  <2>5. pc' \in [Workers -> Stages]
    BY <1>3 DEF Reserve, TypeOK, Stages
  <2> QED BY <1>3, <2>3, <2>4, <2>5 DEF Reserve, TypeOK
<1>4. ASSUME NEW w \in Workers, BeginSend(w) PROVE TypeOK'
  <2>1. CASE Sendable(job[w].row)
    <3>1. rows' \in [RowIds -> Row]
      <4>1. job[w].row \in RowIds => Claim(rows[job[w].row], w) \in Row
        BY RowUpdates DEF TypeOK
      <4> QED BY <1>4, <2>1, <4>1, RowsExcept DEF BeginSend
    <3>2. pc' \in [Workers -> Stages]
      BY <1>4, <2>1 DEF BeginSend, TypeOK, Stages
    <3> QED BY <1>4, <2>1, <3>1, <3>2 DEF BeginSend, TypeOK
  <2>2. CASE ~Sendable(job[w].row)
    <3>1. pc' \in [Workers -> Stages] /\ job' \in [Workers -> Job]
      BY <1>4, <2>2, LeaveType DEF BeginSend
    <3> QED BY <1>4, <2>2, <3>1 DEF BeginSend, TypeOK
  <2> QED BY <2>1, <2>2
<1>5. ASSUME NEW w \in Workers, RenewClaim(w) PROVE TypeOK'
  <2>1. CASE Owns(w, job[w].row)
    <3>1. rows' \in [RowIds -> Row]
      <4>1. [rows EXCEPT ![job[w].row].lease = "live"] \in [RowIds -> Row]
        BY RenewType
      <4> QED BY <1>5, <2>1, <4>1 DEF RenewClaim
    <3>2. pc' \in [Workers -> Stages]
      BY <1>5, <2>1 DEF RenewClaim, TypeOK, Stages
    <3> QED BY <1>5, <2>1, <3>1, <3>2 DEF RenewClaim, TypeOK
  <2>2. CASE ~Owns(w, job[w].row)
    <3>1. pc' \in [Workers -> Stages] /\ job' \in [Workers -> Job]
      BY <1>5, <2>2, LeaveType DEF RenewClaim
    <3> QED BY <1>5, <2>2, <3>1 DEF RenewClaim, TypeOK
  <2> QED BY <2>1, <2>2
<1>6. ASSUME NEW w \in Workers, ClaimPending(w) PROVE TypeOK'
  <2>1. rows' \in [RowIds -> Row] /\ job' \in [Workers -> Job]
    BY <1>6, ClaimType
  <2>2. pc' \in [Workers -> Stages]
    BY <1>6 DEF ClaimPending, TypeOK, Stages
  <2> QED BY <1>6, <2>1, <2>2 DEF ClaimPending, TypeOK
<1>7. ASSUME NEW w \in Workers, OpenRow(w) PROVE TypeOK'
  <2>1. PICK r \in RowIds, to \in RouteOrNone :
          \/ /\ job' = [job EXCEPT ![w].batch = @ \ {r}]
             /\ UNCHANGED pc
             /\ UNCHANGED rows \/ rows' = [rows EXCEPT ![r] = KeepPending(rows[r], FALSE)]
          \/ /\ pc' \in {[pc EXCEPT ![w] = "claimed"], [pc EXCEPT ![w] = "failed"]}
             /\ rows' = [rows EXCEPT ![r].to = to]
             /\ job' = [job EXCEPT ![w].batch = @ \ {r}, ![w].row = r,
                                   ![w].sel = to, ![w].to = to]
    <3>1. PICK r \in job[w].batch :
            \E to \in {Recipients(rows[r].notice, config), rows[r].to} :
              \/ /\ job' = [job EXCEPT ![w].batch = @ \ {r}]
                 /\ UNCHANGED pc
                 /\ UNCHANGED rows \/ rows' = [rows EXCEPT ![r] = KeepPending(rows[r], FALSE)]
              \/ /\ pc' \in {[pc EXCEPT ![w] = "claimed"], [pc EXCEPT ![w] = "failed"]}
                 /\ rows' = [rows EXCEPT ![r].to = to]
                 /\ job' = [job EXCEPT ![w].batch = @ \ {r}, ![w].row = r,
                                       ![w].sel = to, ![w].to = to]
      BY <1>7 DEF OpenRow
    <3>2. r \in RowIds
      BY <1>0 DEF Job
    <3>3. {Recipients(rows[r].notice, config), rows[r].to} \subseteq RouteOrNone
      BY <3>2, RecipientsType DEF TypeOK, Row
    <3> QED BY <3>1, <3>2, <3>3
  <2>2. KeepPending(rows[r], FALSE) \in Row /\ [rows[r] EXCEPT !.to = to] \in Row
    BY RowUpdates DEF TypeOK
  <2>3. rows' \in [RowIds -> Row]
    BY <2>1, <2>2 DEF TypeOK
  <2>4. job' \in [Workers -> Job]
    <3>1. /\ [job[w] EXCEPT !.batch = @ \ {r}] \in Job
          /\ [job[w] EXCEPT !.batch = @ \ {r}, !.row = r, !.sel = to, !.to = to] \in Job
      BY <1>0, JobUpdates
    <3> QED BY <2>1, <3>1 DEF TypeOK
  <2>5. pc' \in [Workers -> Stages]
    BY <2>1 DEF TypeOK, Stages
  <2> QED BY <1>7, <2>3, <2>4, <2>5 DEF OpenRow, TypeOK
<1>8. ASSUME NEW w \in Workers, FinishFlush(w) PROVE TypeOK'
  BY <1>8, NoJobType DEF FinishFlush, TypeOK, Stages
<1>9. ASSUME NEW w \in Workers, ClearBanner(w) PROVE TypeOK'
  BY <1>9 DEF ClearBanner, TypeOK, Stages
<1>10. ASSUME NEW w \in Workers, Revalidate(w) PROVE TypeOK'
  <2> DEFINE r == job[w].row
             route == Recipients(rows[r].notice, config)
  <2>1. CASE Leave(w, FALSE) /\ UNCHANGED rows
    BY <1>10, <2>1, LeaveType DEF Revalidate, TypeOK
  <2>2. CASE Fail(w, FALSE) /\ UNCHANGED rows
    BY <1>10, <2>2, FailType DEF Revalidate, TypeOK
  <2>3. CASE /\ rows' = [rows EXCEPT ![r] = Rerouted(rows[r], route)]
             /\ job' = [job EXCEPT ![w].sel = route, ![w].to = route]
             /\ pc' = [pc EXCEPT ![w] = IF job[w].mode = "live" THEN "revalidated"
                                                                ELSE "ready"]
    <3>1. route \in RouteOrNone
      BY RecipientsType
    <3>2. r \in RowIds => Rerouted(rows[r], route) \in Row
      BY <3>1, RowUpdates DEF TypeOK
    <3>3. rows' \in [RowIds -> Row]
      BY <2>3, <3>2, RowsExcept
    <3>4. job' \in [Workers -> Job]
      BY <1>0, <2>3, <3>1, JobUpdates DEF TypeOK
    <3>5. pc' \in [Workers -> Stages]
      BY <2>3 DEF TypeOK, Stages
    <3> QED BY <1>10, <3>3, <3>4, <3>5 DEF Revalidate, TypeOK
  <2>4. CASE /\ job' = [job EXCEPT ![w].sel = "none"]
             /\ pc' = [pc EXCEPT ![w] = "ready"] /\ UNCHANGED rows
    <3>1. [job[w] EXCEPT !.sel = "none"] \in Job
      BY <1>0, JobUpdates
    <3> QED BY <1>10, <2>4, <3>1 DEF Revalidate, TypeOK, Stages
  <2> QED BY <1>10, <2>1, <2>2, <2>3, <2>4 DEF Revalidate
<1>11. ASSUME NEW w \in Workers, BeforeAttempt(w) PROVE TypeOK'
  <2> DEFINE r == job[w].row
  <2>0. [rows EXCEPT ![r].lease = "live"] \in [RowIds -> Row]
    BY RenewType
  <2>1. CASE Leave(w, FALSE) /\ UNCHANGED rows
    BY <1>11, <2>1, LeaveType DEF BeforeAttempt, TypeOK
  <2>2. CASE Fail(w, FALSE) /\ (rows' = [rows EXCEPT ![r].lease = "live"] \/ UNCHANGED rows)
    BY <1>11, <2>0, <2>2, FailType DEF BeforeAttempt, TypeOK
  <2>3. CASE /\ rows' = [rows EXCEPT ![r].lease = "live"]
             /\ pc' = [pc EXCEPT ![w] = "sending"]
             /\ job[w].tries < MaxTries
             /\ job' = [job EXCEPT ![w].tries = @ + 1]
    <3>1. job[w].tries + 1 \in 0..MaxTries
      BY <1>0, <2>3, OutboxConstants DEF Job
    <3>2. [job[w] EXCEPT !.tries = job[w].tries + 1] \in Job
      BY <1>0, <3>1 DEF Job
    <3>3. job' \in [Workers -> Job]
      BY <2>3, <3>2 DEF TypeOK
    <3> QED BY <1>11, <2>0, <2>3, <3>3 DEF BeforeAttempt, TypeOK, Stages
  <2> QED BY <1>11, <2>1, <2>2, <2>3 DEF BeforeAttempt
<1>12. ASSUME NEW w \in Workers, AttemptFault(w) PROVE TypeOK'
  <2>1. pc' \in [Workers -> Stages] /\ job' \in [Workers -> Job]
    BY <1>12, FailType DEF AttemptFault
  <2>2. budget' \in 0..MaxAdverse
    BY <1>12, SpendType DEF AttemptFault
  <2> QED BY <1>12, <2>1, <2>2 DEF AttemptFault, TypeOK
<1>13. ASSUME NEW w \in Workers, Accept(w) PROVE TypeOK'
  BY <1>13, ArriveType DEF Accept, TypeOK, Stages
<1>14. ASSUME NEW w \in Workers, Reject(w) \/ Timeout(w) PROVE TypeOK'
  <2>1. PICK accepted \in BOOLEAN : Arrive(w, accepted)
    BY <1>14 DEF Reject, Timeout
  <2>2. [job[w] EXCEPT !.amb = TRUE] \in Job
    BY <1>0 DEF Job
  <2>3. job' \in [Workers -> Job]
    BY <1>14, <2>2 DEF Reject, Timeout, TypeOK
  <2>4. pc' \in [Workers -> Stages]
    BY <1>14 DEF Reject, Timeout, TypeOK, Stages
  <2>5. budget' \in 0..MaxAdverse
    BY <1>14, SpendType DEF Reject, Timeout
  <2> QED BY ZenonT(60), <1>14, <2>1, <2>3, <2>4, <2>5, ArriveType DEF Reject, Timeout, TypeOK
<1>15. ASSUME NEW w \in Workers, ChainExhausted(w) PROVE TypeOK'
  <2>1. job[w].amb \in BOOLEAN
    BY <1>0 DEF Job
  <2>2. pc' \in [Workers -> Stages] /\ job' \in [Workers -> Job]
    BY <1>15, <2>1, FailType DEF ChainExhausted
  <2>3. budget' \in 0..MaxAdverse
    BY <1>15, SpendType DEF ChainExhausted, TypeOK
  <2> QED BY <1>15, <2>2, <2>3 DEF ChainExhausted, TypeOK
<1>16. ASSUME NEW w \in Workers, FinalizeSent(w) \/ FinalizeFailed(w) PROVE TypeOK'
  <2> DEFINE r == job[w].row
  <2>1. job[w].amb \in BOOLEAN
    BY <1>0 DEF Job
  <2>2. r \in RowIds => /\ MarkSent(rows[r], job[w].amb) \in Row
                        /\ KeepPending(rows[r], job[w].amb) \in Row
    BY <2>1, RowUpdates DEF TypeOK
  <2>3. rows' \in [RowIds -> Row]
    BY <1>16, <2>2, RowsExcept DEF FinalizeSent, FinalizeFailed, TypeOK
  <2>4. MayFinalize(w, r) \in BOOLEAN
    BY DEF MayFinalize
  <2>5. pc' \in [Workers -> Stages] /\ job' \in [Workers -> Job]
    BY <1>16, <2>4, LeaveType DEF FinalizeSent, FinalizeFailed
  <2>6. banner' \in BOOLEAN
    BY <1>16 DEF FinalizeSent, FinalizeFailed, TypeOK
  <2> QED BY <1>16, <2>3, <2>5, <2>6 DEF FinalizeSent, FinalizeFailed, TypeOK
<1>17. ASSUME NEW w \in Workers, Crash(w) PROVE TypeOK'
  BY <1>17, NoJobType, SpendType DEF Crash, TypeOK, Stages
<1>18. ASSUME NEW r \in RowIds, LeaseExpires(r) \/ BecomesDue(r) \/ Requeue(r)
       PROVE  TypeOK'
  <2>1. rows' \in [RowIds -> Row]
    <3>1. [rows EXCEPT ![r].lease = "expired"] \in [RowIds -> Row]
      BY RenewType
    <3>2. /\ [rows[r] EXCEPT !.due = TRUE] \in Row
          /\ [rows[r] EXCEPT !.status = "pending_retry", !.due = TRUE,
                             !.released = TRUE] \in Row
      BY RowUpdates DEF TypeOK
    <3> QED BY <1>18, <3>1, <3>2 DEF LeaseExpires, BecomesDue, Requeue, TypeOK
  <2>2. budget' \in 0..MaxAdverse
    BY <1>18, SpendType DEF LeaseExpires, BecomesDue, Requeue, TypeOK
  <2> QED BY <1>18, <2>1, <2>2 DEF LeaseExpires, BecomesDue, Requeue, TypeOK
<1>19. CASE SwitchTestMode
  <2>1. [config EXCEPT !.testMode = ~@] \in
          [testMode : BOOLEAN, dev : BOOLEAN, biz : BOOLEAN]
    BY DEF TypeOK
  <2>2. budget' \in 0..MaxAdverse
    BY <1>19, SpendType DEF SwitchTestMode
  <2>3. lateBiz' \in [Workers -> 0..2]
    BY <1>19 DEF SwitchTestMode
  <2> QED BY <1>19, <2>1, <2>2, <2>3 DEF SwitchTestMode, TypeOK
<1>20. CASE EditRecipients
  BY <1>20, SpendType DEF EditRecipients, TypeOK
<1>21. CASE UNCHANGED vars
  BY <1>21 DEF vars, TypeOK
<1>22. ASSUME NEW w \in Workers, ReadStale(w) PROVE TypeOK'
  <2> DEFINE counts == [r \in RowIds |-> IF Stale(r) THEN rows[r].attempts ELSE 0]
             read == [NoJob EXCEPT !.mode = "flush", !.stale = {r \in RowIds : Stale(r)},
                                   !.counts = counts]
  <2>1. counts \in [RowIds -> 0..MaxAttempts]
    BY OutboxConstants DEF TypeOK, Row
  <2>2. job' = [job EXCEPT ![w] = read]
    BY <1>22 DEF ReadStale
  <2> HIDE DEF counts
  <2>3. read \in Job
    BY <2>1, NoJobType DEF Job
  <2>4. pc' \in [Workers -> Stages]
    BY <1>22 DEF ReadStale, TypeOK, Stages
  <2> QED BY <1>22, <2>2, <2>3, <2>4 DEF ReadStale, TypeOK
<1> QED
  BY <1>1, <1>2, <1>3, <1>4, <1>5, <1>6, <1>7, <1>8, <1>9, <1>10, <1>11, <1>12,
     <1>13, <1>14, <1>15, <1>16, <1>17, <1>18, <1>19, <1>20, <1>21, <1>22
  DEF Next, WorkerStep, Progress, Deliver, Environment

\* TypeOK is an invariant of the outbox.
THEOREM TypeCorrect == Spec => []TypeOK
<1>1. Init => TypeOK
  BY InitTypeOK
<1>2. TypeOK /\ [Next]_vars => TypeOK'
  BY NextTypeOK
<1> QED BY <1>1, <1>2, PTL DEF Spec

-----------------------------------------------------------------------------
(* What recovery and claim do, row by row. *)

\* A row that was read as stale comes out marked, whoever has it; another row
\* changes only by being claimed; what a row is about stays.
LEMMA ClaimEffect ==
  ASSUME TypeOK, NEW w \in Workers, ClaimPending(w)
  PROVE  /\ pc[w] \in {"idle", "recovering"} /\ pc'[w] = "flushing"
         /\ \A v \in Workers \ {w} : pc'[v] = pc[v] /\ job'[v] = job[v]
         /\ job'[w].mode = "flush" /\ job'[w].row = -1 /\ ~job'[w].amb
         /\ job'[w].sel = "none" /\ job'[w].to = "none" /\ job'[w].stale = {}
         /\ job'[w].batch \subseteq RowIds
         /\ \A r \in RowIds :
              /\ rows'[r].notice = rows[r].notice /\ rows'[r].key = rows[r].key
              /\ rows'[r].to = rows[r].to
              /\ r \in StaleRead(w) => /\ rows'[r].flag
                                       /\ rows'[r].status \in {"sending", "pending_retry"}
              /\ r \in job'[w].batch => /\ rows'[r].status = "sending"
                                         /\ rows'[r].token = w /\ rows'[r].lease = "live"
              /\ r \notin StaleRead(w) /\ r \in job'[w].batch =>
                   /\ rows[r].status \in {"pending", "pending_retry"}
                   /\ rows'[r] = Claim(rows[r], w) /\ rows'[r].flag = rows[r].flag
              /\ r \notin StaleRead(w) /\ r \notin job'[w].batch => rows'[r] = rows[r]
<1>1. PICK copied \in BOOLEAN, claimed \in SUBSET RowIds : ClaimsRows(w, copied, claimed)
  BY ClaimTakes
<1>2. /\ job'[w].mode = "flush" /\ job'[w].row = -1 /\ ~job'[w].amb
      /\ job'[w].sel = "none" /\ job'[w].to = "none" /\ job'[w].stale = {}
      /\ job'[w].batch = claimed
      /\ \A v \in Workers \ {w} : job'[v] = job[v]
  BY <1>1 DEF ClaimsRows, NoJob, TypeOK
<1>3. /\ pc[w] \in {"idle", "recovering"} /\ pc'[w] = "flushing"
      /\ \A v \in Workers \ {w} : pc'[v] = pc[v]
  BY DEF ClaimPending, TypeOK
<1>4. ASSUME NEW r \in RowIds
      PROVE  /\ rows'[r].notice = rows[r].notice /\ rows'[r].key = rows[r].key
             /\ rows'[r].to = rows[r].to
             /\ r \in StaleRead(w) => /\ rows'[r].flag
                                      /\ rows'[r].status \in {"sending", "pending_retry"}
             /\ r \in claimed => /\ rows'[r].status = "sending"
                                 /\ rows'[r].token = w /\ rows'[r].lease = "live"
             /\ r \notin StaleRead(w) /\ r \in claimed =>
                  /\ rows[r].status \in {"pending", "pending_retry"}
                  /\ rows'[r] = Claim(rows[r], w) /\ rows'[r].flag = rows[r].flag
             /\ r \notin StaleRead(w) /\ r \notin claimed => rows'[r] = rows[r]
  <2>1. rows[r] \in Row /\ Recovered(rows[r]) \in Row
    BY RowUpdates DEF TypeOK
  <2>2. /\ Recovered(rows[r]).notice = rows[r].notice /\ Recovered(rows[r]).key = rows[r].key
        /\ Recovered(rows[r]).to = rows[r].to /\ Recovered(rows[r]).flag
        /\ Recovered(rows[r]).status = "pending_retry"
    BY <2>1 DEF Recovered, Row
  <2>3. \A x \in Row : /\ Claim(x, w).notice = x.notice /\ Claim(x, w).key = x.key
                       /\ Claim(x, w).to = x.to /\ Claim(x, w).flag = x.flag
                       /\ Claim(x, w).status = "sending" /\ Claim(x, w).token = w
                       /\ Claim(x, w).lease = "live"
    BY DEF Claim, Row
  <2>4. CASE r \notin StaleRead(w)
    <3>1. /\ r \in claimed => rows'[r] = Claim(rows[r], w) /\ Claimable(rows[r])
          /\ r \notin claimed => rows'[r] = rows[r]
      BY <1>1, <2>4 DEF ClaimsRows, RecoveredBy
    <3> QED BY <2>1, <2>3, <2>4, <3>1 DEF Claimable
  <2>5. CASE r \in StaleRead(w)
    <3> DEFINE x == [Recovered(rows[r]) EXCEPT !.attempts = job[w].counts[r]]
    <3>1. job[w].counts[r] \in 0..MaxAttempts
      BY DEF TypeOK, Job
    <3>2. x \in Row
      BY <2>1, <3>1, RowUpdates
    <3>3. /\ x.notice = Recovered(rows[r]).notice /\ x.key = Recovered(rows[r]).key
          /\ x.to = Recovered(rows[r]).to /\ x.flag = Recovered(rows[r]).flag
      BY <2>1 DEF Row
    <3> HIDE DEF x
    <3>4. rows'[r] \in {Claim(x, w), Claim(Recovered(rows[r]), w), Recovered(rows[r])}
          /\ (r \in claimed => rows'[r] \in {Claim(x, w), Claim(Recovered(rows[r]), w)})
      BY <1>1, <2>5 DEF ClaimsRows, RecoveredBy, x
    <3>5. /\ Claim(x, w).notice = rows[r].notice /\ Claim(x, w).key = rows[r].key
          /\ Claim(x, w).to = rows[r].to /\ Claim(x, w).flag
          /\ Claim(x, w).status = "sending" /\ Claim(x, w).token = w
          /\ Claim(x, w).lease = "live"
      BY <2>2, <2>3, <3>2, <3>3
    <3> QED BY <2>1, <2>2, <2>3, <2>5, <3>4, <3>5
  <2> QED BY <2>4, <2>5
<1> QED BY <1>2, <1>3, <1>4

\* The unlocked read of a recovery changes nothing but its own locals.
LEMMA ReadEffect ==
  ASSUME TypeOK, NEW w \in Workers, ReadStale(w)
  PROVE  /\ pc[w] = "idle" /\ pc'[w] = "recovering"
         /\ \A v \in Workers \ {w} : pc'[v] = pc[v] /\ job'[v] = job[v]
         /\ job'[w].mode = "flush" /\ job'[w].row = -1 /\ ~job'[w].amb
         /\ job'[w].sel = "none" /\ job'[w].to = "none" /\ job'[w].batch = {}
         /\ job'[w].stale = {r \in RowIds : Stale(r)}
         /\ rows' = rows /\ banner' = banner /\ mail' = mail /\ lateBiz' = lateBiz
         /\ config' = config
BY DEF ReadStale, NoJob, TypeOK, env

-----------------------------------------------------------------------------
(* The claim protocol, for every combination of adverse events. *)

\* An instance that is not flushing has no batch, and the row it is working on
\* has left its batch.
JobShape ==
  \A w \in Workers :
    /\ pc[w] \in {"idle", "prepared", "reserved", "clearing"} => job[w].mode = "live"
    /\ job[w].mode = "live" => job[w].batch = {}
    /\ job[w].row \notin job[w].batch

\* A row that does not exist yet carries no flag.
AbsentUnflagged == \A r \in RowIds : rows[r].status = "absent" => ~rows[r].flag

Claims == AbsentUnflagged /\ ClaimLossIsFlagged

\* A row that a recovery has read exists.
StaleExist == \A w \in Workers : \A r \in job[w].stale : rows[r].status # "absent"

\* Claims is inductive relative to the type and the shape of jobs.
ClaimInv == TypeOK /\ JobShape /\ StaleExist /\ Claims

LEMMA LeaveShape ==
  ASSUME TypeOK, JobShape, NEW w \in Workers, NEW delivered \in BOOLEAN,
         Leave(w, delivered)
  PROVE  /\ JobShape'
         /\ \A v \in Workers, r \in RowIds : Holds(v, r)' => Holds(v, r)
         /\ \A r \in RowIds : r = job[w].row => ~Holds(w, r)'
<1>0. -1 \notin RowIds
  BY OutboxConstants
<1>1. CASE job[w].mode = "live"
  BY <1>0, <1>1 DEF Leave, TypeOK, JobShape, NoJob, Holds, Working
<1>2. CASE job[w].mode # "live"
  <2>1. /\ pc' = [pc EXCEPT ![w] = "flushing"]
        /\ job' = [job EXCEPT ![w] = [job[w] EXCEPT !.row = -1, !.sel = "none",
                     !.to = "none", !.amb = FALSE, !.tries = 0, !.flushed = @ \/ delivered]]
    BY <1>2 DEF Leave, TypeOK
  <2>2. job[w] \in Job
    BY DEF TypeOK
  <2>3. /\ job'[w].row = -1 /\ job'[w].mode = job[w].mode
        /\ job'[w].batch = job[w].batch
        /\ \A v \in Workers \ {w} : job'[v] = job[v] /\ pc'[v] = pc[v]
        /\ pc'[w] = "flushing"
    BY <2>1, <2>2 DEF TypeOK, Job
  <2>4. -1 \notin job'[w].batch
    BY <1>0, <2>2, <2>3 DEF Job
  <2>5. JobShape'
    BY <1>2, <2>3, <2>4 DEF JobShape
  <2> QED BY <1>0, <2>3, <2>5 DEF JobShape, Holds, Working
<1> QED BY <1>1, <1>2

LEMMA FailShape ==
  ASSUME TypeOK, JobShape, NEW w \in Workers, NEW amb \in BOOLEAN, Fail(w, amb),
         pc[w] \in Working
  PROVE  /\ JobShape'
         /\ \A v \in Workers, r \in RowIds : Holds(v, r)' => Holds(v, r)
<1>1. /\ pc'[w] = "failed" /\ job'[w].row = job[w].row
      /\ job'[w].mode = job[w].mode /\ job'[w].batch = job[w].batch
      /\ \A v \in Workers \ {w} : job'[v] = job[v] /\ pc'[v] = pc[v]
  BY DEF Fail, TypeOK, Job
<1> QED BY <1>1 DEF JobShape, Holds, Working

\* A step that leaves the claims of the rows alone and lets nobody hold a row
\* they did not hold cannot lose a claim.
LEMMA ClaimsKept ==
  ASSUME Claims,
         \A v \in Workers, r \in RowIds : Holds(v, r)' => Holds(v, r),
         \A r \in RowIds : /\ rows'[r].status = rows[r].status
                           /\ rows'[r].token = rows[r].token
                           /\ rows'[r].flag = rows[r].flag
  PROVE  Claims'
BY DEF Claims, AbsentUnflagged, ClaimLossIsFlagged, Owns

\* Neither can a step of w that changes one row which nobody else owns, that
\* keeps the flag of that row, and that leaves it w's if w still holds it.
LEMMA OneRowChanged ==
  ASSUME Claims, NEW w \in Workers, NEW c,
         \A v \in Workers, r \in RowIds : Holds(v, r)' => Holds(v, r) \/ (v = w /\ r = c),
         \A r \in RowIds \ {c} : rows'[r] = rows[r],
         c \in RowIds => /\ \A v \in Workers \ {w} : ~Owns(v, c)
                         /\ rows[c].flag => rows'[c].flag
                         /\ rows'[c].status # "absent"
                         /\ Holds(w, c)' => Owns(w, c)' \/ rows'[c].flag
  PROVE  Claims'
BY DEF Claims, AbsentUnflagged, ClaimLossIsFlagged, Owns

LEMMA InitClaimInv == Init => ClaimInv
<1> SUFFICES ASSUME Init PROVE ClaimInv
  OBVIOUS
<1>1. JobShape
  BY OutboxConstants DEF Init, NoJob, JobShape
<1>2. Claims
  BY DEF Init, NoJob, AbsentRow, Claims, AbsentUnflagged, ClaimLossIsFlagged, Holds,
         Working
<1>3. StaleExist
  BY DEF Init, NoJob, StaleExist
<1> QED BY <1>1, <1>2, <1>3, InitTypeOK DEF ClaimInv

\* The steps of the live path before the row is claimed, and the claim itself.
LEMMA LiveClaims ==
  ASSUME ClaimInv, NEW w \in Workers,
         \/ \E n \in Notices : Prepare(w, n)
         \/ AlreadyNotified(w) \/ Reserve(w) \/ BeginSend(w)
  PROVE  JobShape' /\ Claims'
<1> USE DEF ClaimInv, env
<1>0. job[w] \in Job /\ pc[w] \in Stages
  BY DEF TypeOK
<1>1. ASSUME NEW n \in Notices, Prepare(w, n)
      PROVE  JobShape' /\ Claims'
  <2>1. /\ job'[w].row = job[w].row /\ job'[w].mode = job[w].mode
        /\ job'[w].batch = job[w].batch /\ pc'[w] = "prepared"
        /\ \A v \in Workers \ {w} : job'[v] = job[v] /\ pc'[v] = pc[v]
    BY <1>0, <1>1 DEF Prepare, TypeOK, Job
  <2>2. JobShape'
    BY <1>1, <2>1 DEF JobShape, Prepare
  <2>3. \A v \in Workers, r \in RowIds : Holds(v, r)' => Holds(v, r)
    BY <2>1 DEF Holds, Working
  <2>4. rows' = rows
    BY <1>1 DEF Prepare
  <2> QED BY <2>2, <2>3, <2>4, ClaimsKept
<1>2. CASE AlreadyNotified(w)
  <2>1. Leave(w, FALSE) /\ rows' = rows
    BY <1>2 DEF AlreadyNotified
  <2> QED BY <2>1, LeaveShape, ClaimsKept
<1>3. CASE Reserve(w)
  <2>1. PICK r \in RowIds :
          /\ rows[r].status = "absent"
          /\ rows' = [rows EXCEPT ![r] =
                        [AbsentRow EXCEPT !.notice = job[w].notice,
                                          !.key = job[w].sel, !.to = job[w].sel,
                                          !.status = "pending"]]
          /\ job' = [job EXCEPT ![w].row = r]
    BY <1>3 DEF Reserve
  <2>2. /\ job'[w].row = r /\ job'[w].mode = job[w].mode
        /\ job'[w].batch = job[w].batch /\ pc'[w] = "reserved"
        /\ \A v \in Workers \ {w} : job'[v] = job[v] /\ pc'[v] = pc[v]
    BY <1>0, <1>3, <2>1 DEF Reserve, TypeOK, Job
  <2>3. job[w].mode = "live" /\ job[w].batch = {}
    BY <1>3 DEF Reserve, JobShape
  <2>4. JobShape'
    BY <2>2, <2>3 DEF JobShape
  <2>5. \A v \in Workers, q \in RowIds : Holds(v, q)' => Holds(v, q)
    BY <2>2 DEF Holds, Working
  <2>6. /\ rows'[r].status = "pending"
        /\ \A q \in RowIds \ {r} : rows'[q] = rows[q]
    BY <2>1, AbsentRowType DEF TypeOK, AbsentRow
  <2>7. ~rows[r].flag /\ \A v \in Workers : ~Owns(v, r) /\ ~Holds(v, r)
    BY <2>1 DEF Claims, AbsentUnflagged, ClaimLossIsFlagged, Owns
  <2>8. /\ \A v \in Workers, q \in RowIds :
              Holds(v, q)' => Holds(v, q) \/ (v = w /\ q = r)
        /\ /\ \A v \in Workers \ {w} : ~Owns(v, r)
           /\ rows[r].flag => rows'[r].flag
           /\ rows'[r].status # "absent"
           /\ Holds(w, r)' => Owns(w, r)' \/ rows'[r].flag
    BY <2>5, <2>6, <2>7
  <2>9. Claims'
    BY <2>6, <2>8, OneRowChanged
  <2> QED BY <2>4, <2>9
<1>4. CASE BeginSend(w)
  <2>0. PICK r : r = job[w].row
    OBVIOUS
  <2>1. CASE ~Sendable(r)
    BY <1>4, <2>0, <2>1, LeaveShape, ClaimsKept DEF BeginSend
  <2>2. CASE Sendable(r)
    <3>1. /\ rows' = [rows EXCEPT ![r] = Claim(rows[r], w)]
          /\ job' = job /\ pc[w] = "reserved"
          /\ pc'[w] \in {"failed", "claimed"}
          /\ \A v \in Workers \ {w} : pc'[v] = pc[v]
      BY <1>4, <2>0, <2>2 DEF BeginSend, TypeOK
    <3>2. JobShape'
      BY <3>1 DEF JobShape
    <3>3. \A v \in Workers, q \in RowIds :
             Holds(v, q)' => Holds(v, q) \/ (v = w /\ q = r)
      BY <2>0, <3>1 DEF Holds, Working
    <3>4. r \in RowIds => /\ rows'[r].status = "sending" /\ rows'[r].token = w
                          /\ rows'[r].flag = rows[r].flag
      BY <3>1 DEF TypeOK, Row, Claim
    <3>5. \A v \in Workers : ~Owns(v, r)
      BY <2>2 DEF Sendable, Owns
    <3>6. \A q \in RowIds \ {r} : rows'[q] = rows[q]
      BY <3>1 DEF TypeOK
    <3>7. r \in RowIds => Owns(w, r)'
      BY <3>1, <3>4 DEF Owns
    <3>8. r \in RowIds => /\ \A v \in Workers \ {w} : ~Owns(v, r)
                          /\ rows[r].flag => rows'[r].flag
                          /\ rows'[r].status # "absent"
                          /\ Holds(w, r)' => Owns(w, r)' \/ rows'[r].flag
      BY <3>4, <3>5, <3>7
    <3>9. Claims'
      BY <3>3, <3>6, <3>8, OneRowChanged
    <3> QED BY <3>2, <3>9
  <2> QED BY <2>1, <2>2
<1> QED BY <1>1, <1>2, <1>3, <1>4

\* The steps of a flush.
LEMMA FlushClaims ==
  ASSUME ClaimInv, NEW w \in Workers,
         ReadStale(w) \/ ClaimPending(w) \/ OpenRow(w) \/ FinishFlush(w) \/ ClearBanner(w)
  PROVE  JobShape' /\ Claims'
<1> USE DEF ClaimInv, env
<1>0. job[w] \in Job /\ -1 \notin RowIds
  BY OutboxConstants DEF TypeOK
<1>1. CASE ClaimPending(w)
  <2>1. /\ job'[w].row = -1 /\ job'[w].mode = "flush" /\ job'[w].batch \subseteq RowIds
        /\ pc'[w] = "flushing"
        /\ \A v \in Workers \ {w} : job'[v] = job[v] /\ pc'[v] = pc[v]
    BY <1>1, ClaimEffect
  <2>2. JobShape'
    BY <1>0, <2>1 DEF JobShape
  <2>3. ASSUME NEW r \in RowIds
        PROVE  /\ rows[r].flag => rows'[r].flag
               /\ r \in job'[w].batch => rows'[r].status = "sending" /\ rows'[r].token = w
               /\ \/ rows'[r] = rows[r]
                  \/ rows'[r].flag /\ rows'[r].status # "absent"
                  \/ rows[r].status # "sending" /\ rows'[r].status = "sending"
    BY <1>1, ClaimEffect
  <2>4. \A v \in Workers, r \in RowIds :
           Holds(v, r)' => Holds(v, r) \/ (v = w /\ r \in job'[w].batch)
    BY <2>1 DEF Holds, Working
  <2>5. ASSUME NEW v \in Workers, NEW r \in RowIds, Holds(v, r)'
        PROVE  Owns(v, r)' \/ rows'[r].flag
    <3>1. CASE Holds(v, r)
      <4>1. Owns(v, r) \/ rows[r].flag
        BY <3>1 DEF Claims, ClaimLossIsFlagged
      <4> QED BY <2>3, <4>1 DEF Owns
    <3>2. CASE v = w /\ r \in job'[w].batch
      BY <2>3, <3>2 DEF Owns
    <3> QED BY <2>4, <2>5, <3>1, <3>2
  <2>6. AbsentUnflagged'
    BY <2>3 DEF Claims, AbsentUnflagged
  <2> QED BY <2>2, <2>5, <2>6 DEF Claims, ClaimLossIsFlagged
<1>2. CASE OpenRow(w)
  <2> DEFINE Opened(r, to) ==
          \/ /\ job' = [job EXCEPT ![w].batch = @ \ {r}]
             /\ UNCHANGED <<pc, rows>>
          \/ /\ job' = [job EXCEPT ![w].batch = @ \ {r}]
             /\ UNCHANGED pc
             /\ rows[r].token = w
             /\ rows' = [rows EXCEPT ![r] = KeepPending(rows[r], FALSE)]
          \/ /\ pc' \in {[pc EXCEPT ![w] = "claimed"], [pc EXCEPT ![w] = "failed"]}
             /\ rows' = [rows EXCEPT ![r].to = to]
             /\ job' = [job EXCEPT ![w].batch = @ \ {r}, ![w].row = r,
                                   ![w].sel = to, ![w].to = to]
  <2>0. PICK r \in job[w].batch : \E to : Opened(r, to)
    BY <1>2 DEF OpenRow
  <2>1. PICK to : Opened(r, to)
    BY <2>0
  <2>2. r \in RowIds /\ pc[w] = "flushing" /\ job[w].mode = "flush"
    BY <1>0, <1>2 DEF OpenRow, JobShape, Job
  <2>3. /\ job'[w].mode = job[w].mode /\ job'[w].batch = job[w].batch \ {r}
        /\ \A v \in Workers \ {w} : job'[v] = job[v] /\ pc'[v] = pc[v]
        /\ \/ job'[w].row = job[w].row /\ pc'[w] = pc[w]
           \/ job'[w].row = r /\ pc'[w] \in {"claimed", "failed"}
    <3>1. CASE job' = [job EXCEPT ![w].batch = @ \ {r}] /\ UNCHANGED pc
      BY <1>0, <3>1 DEF TypeOK, Job
    <3>2. CASE /\ job' = [job EXCEPT ![w].batch = @ \ {r}, ![w].row = r,
                                     ![w].sel = to, ![w].to = to]
               /\ pc' \in {[pc EXCEPT ![w] = "claimed"], [pc EXCEPT ![w] = "failed"]}
      BY <1>0, <3>2 DEF TypeOK, Job
    <3> QED BY <2>1, <3>1, <3>2
  <2>4. JobShape'
    BY <2>2, <2>3 DEF JobShape
  <2>5. \A v \in Workers, q \in RowIds : Holds(v, q)' => Holds(v, q)
    BY <2>1, <2>2, <2>3 DEF Holds, Working
  <2>6. CASE rows' = rows
    BY <2>4, <2>5, <2>6, ClaimsKept
  <2>7. CASE rows' = [rows EXCEPT ![r].to = to]
    <3>1. \A q \in RowIds : /\ rows'[q].status = rows[q].status
                           /\ rows'[q].token = rows[q].token
                           /\ rows'[q].flag = rows[q].flag
      BY <2>2, <2>7 DEF TypeOK, Row
    <3> QED BY <2>4, <2>5, <3>1, ClaimsKept
  <2>8. CASE /\ rows[r].token = w /\ pc' = pc
             /\ job' = [job EXCEPT ![w].batch = @ \ {r}]
             /\ rows' = [rows EXCEPT ![r] = KeepPending(rows[r], FALSE)]
    <3>1. ~Holds(w, r)'
      BY <1>0, <2>2, <2>3, <2>8 DEF Holds, Working, TypeOK
    <3>2. /\ \A v \in Workers \ {w} : ~Owns(v, r)
          /\ rows[r].flag => rows'[r].flag
          /\ rows'[r].status # "absent"
          /\ \A q \in RowIds \ {r} : rows'[q] = rows[q]
      BY <2>2, <2>8 DEF Owns, KeepPending, TypeOK, Row
    <3>3. Claims'
      BY <2>5, <3>1, <3>2, OneRowChanged
    <3> QED BY <2>4, <3>3
  <2> QED BY <2>1, <2>6, <2>7, <2>8
<1>3. CASE FinishFlush(w)
  <2>1. /\ job'[w] = NoJob /\ pc'[w] \in {"idle", "clearing"} /\ rows' = rows
        /\ \A v \in Workers \ {w} : job'[v] = job[v] /\ pc'[v] = pc[v]
    BY <1>3 DEF FinishFlush, TypeOK
  <2>2. JobShape'
    BY <1>0, <2>1 DEF JobShape, NoJob
  <2>3. \A v \in Workers, q \in RowIds : Holds(v, q)' => Holds(v, q)
    BY <2>1 DEF Holds, Working, NoJob
  <2> QED BY <2>1, <2>2, <2>3, ClaimsKept
<1>4. CASE ClearBanner(w)
  <2>1. /\ pc[w] = "clearing" /\ pc'[w] = "idle" /\ rows' = rows /\ job' = job
        /\ \A v \in Workers \ {w} : pc'[v] = pc[v]
    BY <1>4 DEF ClearBanner, TypeOK
  <2>2. JobShape'
    BY <2>1 DEF JobShape
  <2>3. \A v \in Workers, q \in RowIds : Holds(v, q)' => Holds(v, q)
    BY <2>1 DEF Holds, Working
  <2> QED BY <2>1, <2>2, <2>3, ClaimsKept
<1>5. CASE ReadStale(w)
  <2>1. /\ job'[w].mode = "flush" /\ job'[w].row = -1 /\ job'[w].batch = {}
        /\ pc'[w] = "recovering" /\ rows' = rows
        /\ \A v \in Workers \ {w} : job'[v] = job[v] /\ pc'[v] = pc[v]
    BY <1>5, ReadEffect
  <2>2. JobShape'
    BY <2>1 DEF JobShape
  <2>3. \A v \in Workers, q \in RowIds : Holds(v, q)' => Holds(v, q)
    BY <2>1 DEF Holds, Working
  <2> QED BY <2>1, <2>2, <2>3, ClaimsKept
<1> QED BY <1>1, <1>2, <1>3, <1>4, <1>5

\* Revalidation, the provider chain and the finalisation.
LEMMA DeliverClaims ==
  ASSUME ClaimInv, NEW w \in Workers, Deliver(w) \/ AttemptFault(w) \/ Crash(w)
  PROVE  JobShape' /\ Claims'
<1> USE DEF ClaimInv, env
<1>0. job[w] \in Job /\ -1 \notin RowIds
  BY OutboxConstants DEF TypeOK
<1>1. PICK r : r = job[w].row
  OBVIOUS
\* the rows keep their claims, and w holds no more than before
<1>2. ASSUME \/ \E b \in BOOLEAN : Leave(w, b)
             \/ pc[w] \in Working /\ \E b \in BOOLEAN : Fail(w, b)
             \/ /\ pc[w] \in Working
                /\ pc'[w] \in Working
                /\ job'[w].row = job[w].row /\ job'[w].mode = job[w].mode
                /\ job'[w].batch = job[w].batch
                /\ \A v \in Workers \ {w} : job'[v] = job[v] /\ pc'[v] = pc[v],
             \/ rows' = rows
             \/ rows' = [rows EXCEPT ![r].lease = "live"]
             \/ \E route : rows' = [rows EXCEPT ![r] = Rerouted(rows[r], route)]
      PROVE  JobShape' /\ Claims'
  <2>1. /\ JobShape'
        /\ \A v \in Workers, q \in RowIds : Holds(v, q)' => Holds(v, q)
    <3>1. CASE \E b \in BOOLEAN : Leave(w, b)
      BY <3>1, LeaveShape
    <3>2. CASE pc[w] \in Working /\ \E b \in BOOLEAN : Fail(w, b)
      BY <3>2, FailShape
    <3>3. CASE /\ pc[w] \in Working
               /\ pc'[w] \in Working
               /\ job'[w].row = job[w].row /\ job'[w].mode = job[w].mode
               /\ job'[w].batch = job[w].batch
               /\ \A v \in Workers \ {w} : job'[v] = job[v] /\ pc'[v] = pc[v]
      BY <3>3 DEF JobShape, Holds, Working
    <3> QED BY <1>2, <3>1, <3>2, <3>3
  <2>2. \A q \in RowIds : /\ rows'[q].status = rows[q].status
                          /\ rows'[q].token = rows[q].token
                          /\ rows'[q].flag = rows[q].flag
    <3>1. CASE rows' = [rows EXCEPT ![r].lease = "live"]
      BY <3>1 DEF TypeOK, Row
    <3>2. CASE \E route : rows' = [rows EXCEPT ![r] = Rerouted(rows[r], route)]
      BY <3>2 DEF TypeOK, Row, Rerouted
    <3> QED BY <1>2, <3>1, <3>2
  <2> QED BY <2>1, <2>2, ClaimsKept
<1>3. CASE Revalidate(w)
  <2>1. CASE \E b \in BOOLEAN : (Leave(w, b) \/ Fail(w, b)) /\ rows' = rows
    BY <1>2, <1>3, <2>1 DEF Revalidate, Working
  <2>2. CASE /\ \E route : /\ rows' = [rows EXCEPT ![r] = Rerouted(rows[r], route)]
                         /\ job' = [job EXCEPT ![w].sel = route, ![w].to = route]
             /\ pc' = [pc EXCEPT ![w] = IF job[w].mode = "live" THEN "revalidated"
                                                                ELSE "ready"]
    <3>1. /\ pc[w] \in Working /\ pc'[w] \in Working
          /\ \A v \in Workers \ {w} : pc'[v] = pc[v]
      BY <1>3, <2>2 DEF Revalidate, Working, TypeOK
    <3>2. /\ job'[w].row = job[w].row /\ job'[w].mode = job[w].mode
          /\ job'[w].batch = job[w].batch
          /\ \A v \in Workers \ {w} : job'[v] = job[v]
      BY <1>0, <2>2 DEF TypeOK, Job
    <3> QED BY <1>2, <2>2, <3>1, <3>2
  <2>3. CASE /\ rows' = rows /\ job' = [job EXCEPT ![w].sel = "none"]
             /\ pc' = [pc EXCEPT ![w] = "ready"]
    <3>1. /\ pc[w] \in Working /\ pc'[w] \in Working
          /\ \A v \in Workers \ {w} : pc'[v] = pc[v]
      BY <1>3, <2>3 DEF Revalidate, Working, TypeOK
    <3>2. /\ job'[w].row = job[w].row /\ job'[w].mode = job[w].mode
          /\ job'[w].batch = job[w].batch
          /\ \A v \in Workers \ {w} : job'[v] = job[v]
      BY <1>0, <2>3 DEF TypeOK, Job
    <3> QED BY <1>2, <2>3, <3>1, <3>2
  <2> QED BY <1>1, <1>3, <2>1, <2>2, <2>3 DEF Revalidate
<1>4. CASE RenewClaim(w) \/ BeforeAttempt(w)
  <2>1. CASE \/ \E b \in BOOLEAN : Leave(w, b)
             \/ \E b \in BOOLEAN : Fail(w, b)
    BY <1>1, <1>2, <1>4, <2>1 DEF RenewClaim, BeforeAttempt, Working
  <2>2. CASE /\ rows' = [rows EXCEPT ![r].lease = "live"]
             /\ \/ job' = job /\ pc' = [pc EXCEPT ![w] = "ready"]
                \/ /\ job' = [job EXCEPT ![w].tries = @ + 1]
                   /\ pc' = [pc EXCEPT ![w] = "sending"]
    <3>1. /\ pc[w] \in Working /\ pc'[w] \in Working
          /\ \A v \in Workers \ {w} : pc'[v] = pc[v]
      BY <1>4, <2>2 DEF RenewClaim, BeforeAttempt, Working, TypeOK
    <3>2. /\ job'[w].row = job[w].row /\ job'[w].mode = job[w].mode
          /\ job'[w].batch = job[w].batch
          /\ \A v \in Workers \ {w} : job'[v] = job[v]
      BY <1>0, <2>2 DEF TypeOK, Job
    <3> QED BY <1>2, <2>2, <3>1, <3>2
  <2> QED BY <1>1, <1>4, <2>1, <2>2 DEF RenewClaim, BeforeAttempt
<1>5. CASE AttemptFault(w) \/ ChainExhausted(w)
  <2>1. rows' = rows /\ pc[w] \in Working /\ \E b \in BOOLEAN : Fail(w, b)
    BY <1>0, <1>5 DEF AttemptFault, ChainExhausted, Working, Job
  <2> QED BY <1>2, <2>1
<1>6. CASE Accept(w) \/ Reject(w) \/ Timeout(w)
  <2>1. /\ rows' = rows /\ pc[w] \in Working /\ pc'[w] \in Working
        /\ \A v \in Workers \ {w} : pc'[v] = pc[v]
        /\ job' = job \/ job' = [job EXCEPT ![w].amb = TRUE]
    BY <1>6 DEF Accept, Reject, Timeout, Working, TypeOK
  <2>2. /\ job'[w].row = job[w].row /\ job'[w].mode = job[w].mode
        /\ job'[w].batch = job[w].batch
        /\ \A v \in Workers \ {w} : job'[v] = job[v]
    BY <1>0, <2>1 DEF TypeOK, Job
  <2> QED BY <1>2, <2>1, <2>2
<1>7. CASE FinalizeSent(w) \/ FinalizeFailed(w)
  <2>1. \E b \in BOOLEAN : Leave(w, b)
    <3>1. MayFinalize(w, job[w].row) \in BOOLEAN
      BY DEF MayFinalize
    <3>2. Leave(w, MayFinalize(w, job[w].row)) \/ Leave(w, FALSE)
      BY <1>7, Zenon DEF FinalizeSent, FinalizeFailed
    <3> QED BY <3>1, <3>2, Zenon
  <2>2. CASE rows' = rows
    BY <1>2, <2>1, <2>2
  <2>3. CASE /\ MayFinalize(w, r)
             /\ rows' \in {[rows EXCEPT ![r] = MarkSent(rows[r], job[w].amb)],
                          [rows EXCEPT ![r] = KeepPending(rows[r], job[w].amb)]}
    <3>1. /\ JobShape' /\ (r \in RowIds => ~Holds(w, r)')
          /\ \A v \in Workers, q \in RowIds : Holds(v, q)' => Holds(v, q)
      BY <1>1, <2>1, LeaveShape
    <3>2. \A v \in Workers \ {w} : ~Owns(v, r)
      BY <2>3, OutboxConstants DEF MayFinalize, Owns
    <3>3. r \in RowIds => (rows[r].flag => rows'[r].flag) /\ rows'[r].status # "absent"
      <4>1. CASE rows' = [rows EXCEPT ![r] = MarkSent(rows[r], job[w].amb)]
        BY <4>1 DEF MarkSent, TypeOK, Row
      <4>2. CASE rows' = [rows EXCEPT ![r] = KeepPending(rows[r], job[w].amb)]
        BY <4>2 DEF KeepPending, TypeOK, Row
      <4> QED BY <2>3, <4>1, <4>2
    <3>4. \A q \in RowIds \ {r} : rows'[q] = rows[q]
      BY <2>3 DEF TypeOK
    <3>5. Claims'
      BY <3>1, <3>2, <3>3, <3>4, OneRowChanged
    <3> QED BY <3>1, <3>5
  <2> QED BY <1>1, <1>7, <2>2, <2>3 DEF FinalizeSent, FinalizeFailed
<1>8. CASE Crash(w)
  <2>1. /\ job'[w] = NoJob /\ pc'[w] = "idle" /\ rows' = rows
        /\ \A v \in Workers \ {w} : job'[v] = job[v] /\ pc'[v] = pc[v]
    BY <1>8 DEF Crash, TypeOK
  <2>2. JobShape'
    BY <1>0, <2>1 DEF JobShape, NoJob
  <2>3. \A v \in Workers, q \in RowIds : Holds(v, q)' => Holds(v, q)
    BY <2>1 DEF Holds, Working, NoJob
  <2> QED BY <2>1, <2>2, <2>3, ClaimsKept
<1> QED BY <1>3, <1>4, <1>5, <1>6, <1>7, <1>8 DEF Deliver

\* What happens around the instances: time, settings, the operator.
LEMMA EnvironmentClaims ==
  ASSUME ClaimInv, Environment \/ UNCHANGED vars
  PROVE  JobShape' /\ Claims'
<1> USE DEF ClaimInv
<1>1. pc' = pc /\ job' = job
  BY DEF Environment, LeaseExpires, BecomesDue, Requeue, SwitchTestMode,
         EditRecipients, vars
<1>2. JobShape' /\ \A v \in Workers, q \in RowIds : Holds(v, q)' => Holds(v, q)
  BY <1>1 DEF JobShape, Holds
<1>3. CASE \E r \in RowIds : Requeue(r)
  <2>1. PICK r \in RowIds : Requeue(r)
    BY <1>3
  <2>2. /\ rows'[r].status = "pending_retry" /\ rows'[r].flag = rows[r].flag
        /\ \A q \in RowIds \ {r} : rows'[q] = rows[q]
    BY <2>1 DEF Requeue, TypeOK, Row
  <2>3. \A v \in Workers : ~Owns(v, r)
    BY <2>1 DEF Requeue, Owns
  <2>4. \A v \in Workers : Holds(v, r)' => rows'[r].flag
    BY <1>2, <2>2, <2>3 DEF Claims, ClaimLossIsFlagged
  <2>5. AbsentUnflagged'
    BY <2>2 DEF Claims, AbsentUnflagged
  <2>6. ClaimLossIsFlagged'
    BY <1>2, <2>2, <2>4 DEF Claims, ClaimLossIsFlagged, Owns
  <2> QED BY <1>2, <2>5, <2>6 DEF Claims
<1>4. CASE ~\E r \in RowIds : Requeue(r)
  <2>1. \A r \in RowIds : /\ rows'[r].status = rows[r].status
                          /\ rows'[r].token = rows[r].token
                          /\ rows'[r].flag = rows[r].flag
    BY <1>4 DEF Environment, LeaseExpires, BecomesDue, SwitchTestMode,
                EditRecipients, vars, TypeOK, Row
  <2> QED BY <1>2, <2>1, ClaimsKept
<1> QED BY <1>3, <1>4

\* No step makes a row disappear.
LEMMA RowsStay ==
  ASSUME TypeOK, [Next]_vars, NEW r \in RowIds, rows'[r].status = "absent"
  PROVE  rows[r].status = "absent"
<1> USE DEF env
<1>0. rows[r] \in Row
  BY DEF TypeOK
<1>1. CASE rows'[r] = rows[r]
  BY <1>1
<1>2. CASE \E lease : rows'[r] = [rows[r] EXCEPT !.lease = lease]
  BY <1>0, <1>2 DEF Row
<1>3. CASE \E to : rows'[r] = [rows[r] EXCEPT !.to = to] \/ rows'[r] = Rerouted(rows[r], to)
  BY <1>0, <1>3 DEF Row, Rerouted
<1>4. CASE \E w \in Workers, amb \in BOOLEAN :
             rows'[r] \in {Claim(rows[r], w), MarkSent(rows[r], amb), KeepPending(rows[r], amb)}
  <2>1. \A w \in Workers, amb \in BOOLEAN :
          /\ Claim(rows[r], w).status = "sending" /\ MarkSent(rows[r], amb).status = "sent"
          /\ KeepPending(rows[r], amb).status \in {"possible_duplicate", "pending_retry"}
    BY <1>0 DEF Row, Claim, MarkSent, KeepPending
  <2> QED BY <1>4, <2>1
<1>5. CASE \/ rows'[r].status = "pending"
           \/ rows'[r] = [rows[r] EXCEPT !.due = TRUE]
           \/ rows'[r] = [rows[r] EXCEPT !.status = "pending_retry", !.due = TRUE,
                                         !.released = TRUE]
  BY <1>0, <1>5 DEF Row
<1>6. ASSUME NEW w \in Workers, WorkerStep(w), ~ClaimPending(w)
      PROVE  \/ rows' = rows
             \/ rows'[r].status = "pending"
             \/ \E c : \/ rows' = [rows EXCEPT ![c].lease = "live"]
                      \/ \E to : \/ rows' = [rows EXCEPT ![c].to = to]
                                 \/ rows' = [rows EXCEPT ![c] = Rerouted(rows[c], to)]
                      \/ \E amb \in BOOLEAN :
                           \/ rows' = [rows EXCEPT ![c] = Claim(rows[c], w)]
                           \/ rows' = [rows EXCEPT ![c] = MarkSent(rows[c], amb)]
                           \/ rows' = [rows EXCEPT ![c] = KeepPending(rows[c], amb)]
             \/ rows'[r] = rows[r]
  <2>0. job[w].amb \in BOOLEAN
    BY DEF TypeOK, Job
  <2>1. CASE (\E n \in Notices : Prepare(w, n)) \/ ReadStale(w) \/ AlreadyNotified(w)
             \/ FinishFlush(w) \/ ClearBanner(w) \/ AttemptFault(w) \/ Crash(w)
             \/ Accept(w) \/ Reject(w) \/ Timeout(w) \/ ChainExhausted(w)
    BY <2>1 DEF Prepare, ReadStale, AlreadyNotified, FinishFlush, ClearBanner, AttemptFault,
                Crash, Accept, Reject, Timeout, ChainExhausted
  <2>2. CASE Reserve(w)
    BY <2>2 DEF Reserve, TypeOK, AbsentRow
  <2>3. CASE BeginSend(w)
    BY <2>3, Zenon DEF BeginSend
  <2>4. CASE OpenRow(w)
    <3>1. PICK c \in job[w].batch :
             \/ rows' = rows
             \/ rows' = [rows EXCEPT ![c] = KeepPending(rows[c], FALSE)]
             \/ \E to : rows' = [rows EXCEPT ![c].to = to]
      BY <2>4, Zenon DEF OpenRow
    <3> QED BY <3>1
  <2>5. CASE Revalidate(w)
    BY <2>5, Zenon DEF Revalidate
  <2>6. CASE RenewClaim(w)
    BY <2>6, Zenon DEF RenewClaim
  <2>7. CASE BeforeAttempt(w)
    BY <2>7, Zenon DEF BeforeAttempt
  <2>8. CASE FinalizeSent(w) \/ FinalizeFailed(w)
    BY <2>0, <2>8, Zenon DEF FinalizeSent, FinalizeFailed
  <2> QED BY <1>6, <2>1, <2>2, <2>3, <2>4, <2>5, <2>6, <2>7, <2>8
          DEF WorkerStep, Progress, Deliver
<1>7. DOMAIN rows = RowIds
  BY DEF TypeOK
<1>8. ASSUME NEW w \in Workers, WorkerStep(w), ~ClaimPending(w)
      PROVE  rows[r].status = "absent"
  <2>1. CASE rows' = rows \/ rows'[r].status = "pending" \/ rows'[r] = rows[r]
    BY <1>1, <1>5, <2>1
  <2>2. CASE \E c : rows' = [rows EXCEPT ![c].lease = "live"]
    BY <1>1, <1>2, <1>7, <2>2
  <2>3. CASE \E c, to : rows' = [rows EXCEPT ![c].to = to]
    BY <1>1, <1>3, <1>7, <2>3
  <2>4. CASE \E c, to : rows' = [rows EXCEPT ![c] = Rerouted(rows[c], to)]
    BY <1>1, <1>3, <1>7, <2>4
  <2>5. CASE \E c : \E amb \in BOOLEAN :
               \/ rows' = [rows EXCEPT ![c] = Claim(rows[c], w)]
               \/ rows' = [rows EXCEPT ![c] = MarkSent(rows[c], amb)]
               \/ rows' = [rows EXCEPT ![c] = KeepPending(rows[c], amb)]
    BY <1>1, <1>4, <1>7, <2>5
  <2> QED BY <1>6, <1>8, <2>1, <2>2, <2>3, <2>4, <2>5
<1>9. ASSUME NEW w \in Workers, WorkerStep(w) PROVE rows[r].status = "absent"
  BY <1>8, <1>9, ClaimEffect
<1>10. ASSUME NEW q \in RowIds, LeaseExpires(q) \/ BecomesDue(q) \/ Requeue(q)
       PROVE  rows[r].status = "absent"
  <2>1. CASE q # r
    BY <1>1, <1>7, <1>10, <2>1 DEF LeaseExpires, BecomesDue, Requeue
  <2>2. CASE q = r /\ LeaseExpires(q)
    BY <1>2, <1>7, <2>2 DEF LeaseExpires
  <2>3. CASE q = r /\ BecomesDue(q)
    BY <1>5, <1>7, <2>3 DEF BecomesDue
  <2>4. CASE q = r /\ Requeue(q)
    <3>1. rows'[r] = [rows[r] EXCEPT !.status = "pending_retry", !.due = TRUE, !.released = TRUE]
      BY <1>7, <2>4 DEF Requeue
    <3> QED BY <1>5, <3>1
  <2> QED BY <1>10, <2>1, <2>2, <2>3, <2>4
<1>11. CASE SwitchTestMode \/ EditRecipients \/ UNCHANGED vars
  BY <1>1, <1>11 DEF SwitchTestMode, EditRecipients, vars
<1> QED BY <1>9, <1>10, <1>11 DEF Next, Environment

\* The fields an update of a job leaves alone stay where they are.
LEMMA JobDomain ==
  ASSUME TypeOK
  PROVE  /\ DOMAIN job = Workers
         /\ \A w \in Workers : {"sel", "to", "amb", "stale"} \subseteq DOMAIN job[w]
BY DEF TypeOK, Job

LEMMA LeaveStale ==
  ASSUME TypeOK, NEW v \in Workers, NEW w \in Workers, NEW b,
         Leave(v, b) \/ Fail(v, b)
  PROVE  job'[w].stale \subseteq job[w].stale
<1>1. CASE Fail(v, b)
  BY <1>1, JobDomain DEF Fail
<1>2. CASE Leave(v, b) /\ job[v].mode = "live"
  <2>1. NoJob.stale = {}
    BY DEF NoJob
  <2> QED BY <1>2, <2>1, JobDomain DEF Leave
<1>3. CASE Leave(v, b) /\ job[v].mode # "live"
  <2>1. job' = [job EXCEPT ![v].row = -1, ![v].sel = "none", ![v].to = "none",
                           ![v].amb = FALSE, ![v].tries = 0, ![v].flushed = @ \/ b]
    BY <1>3 DEF Leave
  <2> QED BY <2>1, JobDomain
<1> QED BY <1>1, <1>2, <1>3

\* What a recovery has in hand it has read before.
LEMMA StaleStays ==
  ASSUME TypeOK, [Next]_vars, NEW w \in Workers
  PROVE  ReadStale(w) \/ job'[w].stale \subseteq job[w].stale
<1> USE DEF env
<1>1. ASSUME NEW v \in Workers, WorkerStep(v), ~ReadStale(v)
      PROVE  job'[w].stale \subseteq job[w].stale
  <2>1. CASE (\E n \in Notices : Prepare(v, n)) \/ Reserve(v) \/ Accept(v) \/ Reject(v)
             \/ Timeout(v)
    <3>1. \/ job' = job \/ job' = [job EXCEPT ![v].amb = TRUE]
          \/ \E r \in RowIds : job' = [job EXCEPT ![v].row = r]
          \/ \E n \in Notices : \E to : job' = [job EXCEPT ![v].notice = n, ![v].sel = to, ![v].to = to]
      BY <2>1, Zenon DEF Prepare, Reserve, Accept, Reject, Timeout
    <3>2. CASE job' = job \/ job' = [job EXCEPT ![v].amb = TRUE]
      BY <3>2, JobDomain
    <3>3. CASE \E r \in RowIds : job' = [job EXCEPT ![v].row = r]
      BY <3>3, JobDomain
    <3>4. ASSUME NEW n, NEW to, job' = [job EXCEPT ![v].notice = n, ![v].sel = to, ![v].to = to]
          PROVE  job'[w].stale \subseteq job[w].stale
      BY <3>4, JobDomain
    <3> QED BY <3>1, <3>2, <3>3, <3>4
  <2>2. CASE ClaimPending(v)
    BY <2>2, ClaimEffect
  <2>3. CASE OpenRow(v)
    <3>1. PICK r \in job[v].batch :
             \E to : \/ job' = [job EXCEPT ![v].batch = @ \ {r}]
                     \/ job' = [job EXCEPT ![v].batch = @ \ {r}, ![v].row = r,
                                           ![v].sel = to, ![v].to = to]
      BY <2>3 DEF OpenRow
    <3>2. PICK to : \/ job' = [job EXCEPT ![v].batch = @ \ {r}]
                    \/ job' = [job EXCEPT ![v].batch = @ \ {r}, ![v].row = r,
                                          ![v].sel = to, ![v].to = to]
      BY <3>1
    <3> QED BY <3>2, JobDomain
  <2>4. CASE FinishFlush(v) \/ ClearBanner(v) \/ Crash(v)
    <3>1. NoJob.stale = {}
      BY DEF NoJob
    <3> QED BY <2>4, <3>1, JobDomain DEF FinishFlush, ClearBanner, Crash
  <2>5. CASE AlreadyNotified(v) \/ BeginSend(v) \/ RenewClaim(v) \/ AttemptFault(v)
    BY <2>5, LeaveStale DEF AlreadyNotified, BeginSend, RenewClaim, AttemptFault
  <2>6. CASE Revalidate(v)
    <3>1. \/ Leave(v, FALSE) \/ Fail(v, FALSE)
          \/ job' = [job EXCEPT ![v].sel = "none"]
          \/ \E route : job' = [job EXCEPT ![v].sel = route, ![v].to = route]
      BY <2>6, Zenon DEF Revalidate
    <3>2. CASE job' = [job EXCEPT ![v].sel = "none"]
      BY <3>2, JobDomain
    <3>3. ASSUME NEW route, job' = [job EXCEPT ![v].sel = route, ![v].to = route]
          PROVE  job'[w].stale \subseteq job[w].stale
      BY <3>3, JobDomain
    <3> QED BY <3>1, <3>2, <3>3, LeaveStale
  <2>7. CASE BeforeAttempt(v)
    <3>1. \/ Leave(v, FALSE) \/ Fail(v, FALSE)
          \/ job' = [job EXCEPT ![v].tries = @ + 1]
      BY <2>7, Zenon DEF BeforeAttempt
    <3> QED BY <3>1, LeaveStale, JobDomain
  <2>8. CASE ChainExhausted(v) \/ FinalizeSent(v) \/ FinalizeFailed(v)
    <3>1. \E b : Leave(v, b) \/ Fail(v, b)
      BY <2>8 DEF ChainExhausted, FinalizeSent, FinalizeFailed
    <3> QED BY <3>1, LeaveStale
  <2> QED BY <1>1, <2>1, <2>2, <2>3, <2>4, <2>5, <2>6, <2>7, <2>8
          DEF WorkerStep, Progress, Deliver
<1>2. ASSUME NEW v \in Workers \ {w}, ReadStale(v) PROVE job'[w] = job[w]
  BY <1>2, ReadEffect
<1>3. CASE Environment \/ UNCHANGED vars
  BY <1>3 DEF Environment, LeaseExpires, BecomesDue, Requeue, SwitchTestMode, EditRecipients, vars
<1> QED BY <1>1, <1>2, <1>3 DEF Next

LEMMA NextStale ==
  ASSUME TypeOK, StaleExist, [Next]_vars
  PROVE  StaleExist'
<1> SUFFICES ASSUME NEW w \in Workers, NEW r \in job'[w].stale
             PROVE  rows'[r].status # "absent"
  BY DEF StaleExist
<1>1. TypeOK'
  BY NextTypeOK
<1>2. r \in RowIds
  BY <1>1 DEF TypeOK, Job
<1>3. rows[r].status # "absent"
  <2>1. CASE ReadStale(w)
    BY <2>1, ReadEffect DEF Stale
  <2>2. CASE ~ReadStale(w)
    BY <2>2, StaleStays DEF StaleExist
  <2> QED BY <2>1, <2>2
<1> QED BY <1>2, <1>3, RowsStay

LEMMA NextClaimInv == ClaimInv /\ [Next]_vars => ClaimInv'
<1> SUFFICES ASSUME ClaimInv, [Next]_vars PROVE ClaimInv'
  OBVIOUS
<1>1. TypeOK'
  BY NextTypeOK DEF ClaimInv
<1>2. JobShape' /\ Claims'
  BY LiveClaims, FlushClaims, DeliverClaims, EnvironmentClaims
     DEF Next, WorkerStep, Progress
<1>3. StaleExist'
  BY NextStale DEF ClaimInv
<1> QED BY <1>1, <1>2, <1>3 DEF ClaimInv

\* An instance that works on a row it claimed still owns it, or the row is
\* marked possible_duplicate: no claim is ever lost silently.
THEOREM ClaimsAreSafe == Spec => []ClaimLossIsFlagged
<1>1. ClaimInv => ClaimLossIsFlagged
  BY DEF ClaimInv, Claims
<1> QED BY <1>1, InitClaimInv, NextClaimInv, PTL DEF Spec

\* Two instances send one row at the same time only if it is marked
\* possible_duplicate: both would own its only claim token.
THEOREM OneSenderAtATime == Spec => []OneSenderUnlessFlagged
<1>1. ClaimInv => OneSenderUnlessFlagged
  BY DEF ClaimInv, Claims, ClaimLossIsFlagged, OneSenderUnlessFlagged, Owns
<1> QED BY <1>1, InitClaimInv, NextClaimInv, PTL DEF Spec

-----------------------------------------------------------------------------
(* Who a message reaches: Test Mode and the raw notices. *)

\* Both recipient lists have an active member, and keep one.
Staffed == "recipients" \notin Adverse /\ \A c \in InitConfigs : c.dev /\ c.biz

ListsStaffed == config.dev /\ config.biz

\* The selection the wire check looks at is the one the message goes to.
ChecksItsMessage == \A w \in Workers : job[w].sel = job[w].to

\* A business message that passed the check at the wire boundary before Test
\* Mode came ON is the first one to arrive after it.
InFlightIsFirst ==
  \A w \in Workers :
    pc[w] = "sending" /\ Unsafe(w) => lateBiz[w] = 0

TestModeInv == /\ TypeOK /\ ListsStaffed /\ ChecksItsMessage
               /\ OneLateBusinessMail /\ InFlightIsFirst

\* With both lists staffed every notice has a route.
LEMMA AlwaysRouted == ASSUME ListsStaffed, NEW n PROVE Recipients(n, config) # "none"
BY DEF ListsStaffed, Recipients

\* Only a request that is already on its way can still arrive.
LEMMA QuietStep ==
  ASSUME TestModeInv, NEW w \in Workers,
         lateBiz' = lateBiz, config' = config,
         \A v \in Workers \ {w} : pc'[v] = pc[v] /\ job'[v] = job[v],
         pc'[w] # "sending" \/ ~Unsafe(w)',
         job'[w].sel = job'[w].to
  PROVE  ListsStaffed' /\ ChecksItsMessage' /\ OneLateBusinessMail' /\ InFlightIsFirst'
BY DEF TestModeInv, ListsStaffed, ChecksItsMessage, OneLateBusinessMail,
       InFlightIsFirst, Unsafe

\* Leaving a row, or giving up on it, keeps the message and its check together.
LEMMA StayTogether ==
  ASSUME TypeOK, ChecksItsMessage, NEW w \in Workers, NEW b \in BOOLEAN,
         Leave(w, b) \/ Fail(w, b)
  PROVE  /\ job'[w].sel = job'[w].to
         /\ pc'[w] # "sending"
         /\ \A v \in Workers \ {w} : pc'[v] = pc[v] /\ job'[v] = job[v]
<1>1. job[w] \in Job /\ job[w].sel = job[w].to
  BY DEF TypeOK, ChecksItsMessage
<1> QED BY <1>1 DEF Leave, Fail, NoJob, TypeOK, Job

LEMMA NextTestMode ==
  ASSUME Staffed, TestModeInv, [Next]_vars
  PROVE  TestModeInv'
<1> USE DEF env
<1>0. TypeOK /\ TypeOK' /\ ChecksItsMessage
  BY NextTypeOK DEF TestModeInv
<1> SUFFICES ListsStaffed' /\ ChecksItsMessage' /\ OneLateBusinessMail' /\ InFlightIsFirst'
  BY <1>0 DEF TestModeInv
<1>1. ASSUME NEW w \in Workers, Accept(w) \/ Reject(w) \/ Timeout(w)
      PROVE  ListsStaffed' /\ ChecksItsMessage' /\ OneLateBusinessMail' /\ InFlightIsFirst'
  <2>1. /\ pc[w] = "sending" /\ pc'[w] # "sending" /\ config' = config
        /\ \A v \in Workers \ {w} : pc'[v] = pc[v] /\ job'[v] = job[v]
        /\ job'[w].sel = job[w].sel /\ job'[w].to = job[w].to
        /\ \E accepted \in BOOLEAN : Arrive(w, accepted)
    <3>1. /\ pc[w] = "sending" /\ pc'[w] # "sending" /\ config' = config
          /\ job' = job \/ job' = [job EXCEPT ![w].amb = TRUE]
          /\ \A v \in Workers \ {w} : pc'[v] = pc[v]
          /\ \E accepted \in BOOLEAN : Arrive(w, accepted)
      BY <1>0, <1>1 DEF Accept, Reject, Timeout, TypeOK
    <3>2. /\ \A v \in Workers \ {w} : job'[v] = job[v]
          /\ job'[w].sel = job[w].sel /\ job'[w].to = job[w].to
      BY <1>0, <3>1 DEF TypeOK, Job
    <3> QED BY <3>1, <3>2
  <2>2. \A v \in Workers \ {w} : lateBiz'[v] = lateBiz[v]
    BY <1>0, <2>1 DEF Arrive, TypeOK
  <2>3. Unsafe(w) => lateBiz[w] = 0
    BY <2>1 DEF TestModeInv, InFlightIsFirst
  <2>4. lateBiz'[w] <= 1
    <3>1. CASE lateBiz' = lateBiz
      BY <3>1 DEF TestModeInv, OneLateBusinessMail
    <3>2. CASE Unsafe(w) /\ lateBiz' # lateBiz
      <4>1. lateBiz[w] = 0
        BY <2>3, <3>2
      <4> QED BY <1>0, <2>1, <3>2, <4>1 DEF Arrive, TypeOK
    <3>3. lateBiz' = lateBiz \/ Unsafe(w)
      BY <1>0, <2>1 DEF Arrive, Unsafe, ChecksItsMessage
    <3> QED BY <3>1, <3>2, <3>3
  <2>5. ListsStaffed' /\ ChecksItsMessage'
    BY <1>0, <2>1 DEF TestModeInv, ListsStaffed, ChecksItsMessage
  <2> QED BY <2>1, <2>2, <2>4, <2>5 DEF TestModeInv, OneLateBusinessMail,
                                        InFlightIsFirst, Unsafe
<1>2. ASSUME NEW w \in Workers, BeforeAttempt(w)
      PROVE  ListsStaffed' /\ ChecksItsMessage' /\ OneLateBusinessMail' /\ InFlightIsFirst'
  <2>1. lateBiz' = lateBiz /\ config' = config
    BY <1>2 DEF BeforeAttempt
  <2>2. CASE \E b \in BOOLEAN : Leave(w, b) \/ Fail(w, b)
    BY <1>0, <2>1, <2>2, StayTogether, QuietStep
  <2>3. CASE /\ ~Unsafe(w) /\ pc' = [pc EXCEPT ![w] = "sending"]
             /\ job' = [job EXCEPT ![w].tries = @ + 1]
    <3>1. /\ job'[w].sel = job[w].sel /\ job'[w].to = job[w].to
          /\ \A v \in Workers \ {w} : pc'[v] = pc[v] /\ job'[v] = job[v]
      BY <1>0, <2>3 DEF TypeOK, Job
    <3>2. ~Unsafe(w)' /\ job'[w].sel = job'[w].to
      BY <1>0, <2>1, <2>3, <3>1 DEF Unsafe, ChecksItsMessage
    <3> QED BY <2>1, <3>1, <3>2, QuietStep
  <2> QED BY <1>2, <2>2, <2>3 DEF BeforeAttempt
<1>3. ASSUME NEW w \in Workers,
             \/ (\E n \in Notices : Prepare(w, n)) \/ Reserve(w)
             \/ ReadStale(w) \/ ClaimPending(w) \/ OpenRow(w) \/ FinishFlush(w)
             \/ ClearBanner(w) \/ Crash(w)
      PROVE  ListsStaffed' /\ ChecksItsMessage' /\ OneLateBusinessMail' /\ InFlightIsFirst'
  <2>1. /\ lateBiz' = lateBiz /\ config' = config
        /\ \A v \in Workers \ {w} : pc'[v] = pc[v] /\ job'[v] = job[v]
        /\ pc'[w] # "sending"
    BY ZenonT(60), <1>0, <1>3
    DEF Prepare, Reserve, ReadStale, ClaimPending, OpenRow, FinishFlush, ClearBanner, Crash,
        TypeOK
  <2>2. job[w] \in Job /\ job[w].sel = job[w].to
    BY <1>0 DEF TypeOK, ChecksItsMessage
  <2>3. job'[w].sel = job'[w].to
    <3>1. CASE \E n \in Notices : Prepare(w, n)
      BY <1>0, <2>2, <3>1 DEF Prepare, Job, TypeOK
    <3>2. CASE Reserve(w)
      BY <1>0, <2>2, <3>2 DEF Reserve, Job, TypeOK
    <3>3. CASE ReadStale(w) \/ ClaimPending(w)
      BY <1>0, <3>3, ReadEffect, ClaimEffect
    <3>4. CASE OpenRow(w)
      <4> DEFINE Opened(r, to) ==
                   \/ job' = [job EXCEPT ![w].batch = @ \ {r}]
                   \/ job' = [job EXCEPT ![w].batch = @ \ {r}, ![w].row = r,
                                         ![w].sel = to, ![w].to = to]
      <4>1. PICK r \in job[w].batch : \E to : Opened(r, to)
        BY <3>4 DEF OpenRow
      <4>2. PICK to : Opened(r, to)
        BY <4>1
      <4>3. CASE job' = [job EXCEPT ![w].batch = @ \ {r}]
        BY <1>0, <2>2, <4>3, JobDomain
      <4>4. CASE job' = [job EXCEPT ![w].batch = @ \ {r}, ![w].row = r,
                                    ![w].sel = to, ![w].to = to]
        BY <1>0, <4>4, JobDomain
      <4> QED BY <4>2, <4>3, <4>4
    <3>5. CASE FinishFlush(w) \/ Crash(w)
      BY <1>0, <3>5 DEF FinishFlush, Crash, NoJob, TypeOK
    <3>6. CASE ClearBanner(w)
      BY <2>2, <3>6 DEF ClearBanner
    <3> QED BY <1>3, <3>1, <3>2, <3>3, <3>4, <3>5, <3>6
  <2> QED BY <2>1, <2>3, QuietStep
<1>4. ASSUME NEW w \in Workers,
             \/ AlreadyNotified(w) \/ BeginSend(w) \/ Revalidate(w) \/ RenewClaim(w)
             \/ AttemptFault(w) \/ ChainExhausted(w)
             \/ FinalizeSent(w) \/ FinalizeFailed(w)
      PROVE  ListsStaffed' /\ ChecksItsMessage' /\ OneLateBusinessMail' /\ InFlightIsFirst'
  <2>1. lateBiz' = lateBiz /\ config' = config
    BY <1>4 DEF AlreadyNotified, BeginSend, Revalidate, RenewClaim, AttemptFault,
                ChainExhausted, FinalizeSent, FinalizeFailed
  <2>2. CASE \E b \in BOOLEAN : Leave(w, b) \/ Fail(w, b)
    BY <1>0, <2>1, <2>2, StayTogether, QuietStep
  <2>3. CASE /\ pc' \in {[pc EXCEPT ![w] = s] : s \in Stages \ {"sending"}}
             /\ \/ job' = job
                \/ \E route : job' = [job EXCEPT ![w].sel = route, ![w].to = route]
    <3>1. /\ job'[w].sel = job'[w].to /\ pc'[w] # "sending"
          /\ \A v \in Workers \ {w} : pc'[v] = pc[v] /\ job'[v] = job[v]
      <4>1. CASE job' = job
        BY <1>0, <2>3, <4>1 DEF TypeOK, ChecksItsMessage
      <4>2. ASSUME NEW route, job' = [job EXCEPT ![w].sel = route, ![w].to = route]
            PROVE  /\ job'[w].sel = job'[w].to
                   /\ \A v \in Workers \ {w} : job'[v] = job[v]
        BY <1>0, <4>2 DEF TypeOK, Job
      <4> QED BY ZenonT(60), <1>0, <2>3, <4>1, <4>2 DEF TypeOK
    <3> QED BY <2>1, <3>1, QuietStep
  <2>4. CASE Revalidate(w)
    <3>1. Recipients(rows[job[w].row].notice, config) # "none"
      BY AlwaysRouted DEF TestModeInv
    <3> QED BY <2>2, <2>3, <2>4, <3>1 DEF Revalidate, Stages
  <2>5. CASE RenewClaim(w) \/ BeginSend(w)
    BY <2>2, <2>3, <2>5 DEF RenewClaim, BeginSend, Stages
  <2>6. CASE AlreadyNotified(w) \/ AttemptFault(w)
    BY <2>2, <2>6 DEF AlreadyNotified, AttemptFault
  <2>7. CASE ChainExhausted(w)
    <3>1. job[w].amb \in BOOLEAN
      BY <1>0 DEF TypeOK, Job
    <3> QED BY <2>2, <2>7, <3>1 DEF ChainExhausted
  <2>8. CASE FinalizeSent(w) \/ FinalizeFailed(w)
    <3>1. MayFinalize(w, job[w].row) \in BOOLEAN
      BY DEF MayFinalize
    <3>2. Leave(w, MayFinalize(w, job[w].row)) \/ Leave(w, FALSE)
      BY <2>8, Zenon DEF FinalizeSent, FinalizeFailed
    <3>3. \E b \in BOOLEAN : Leave(w, b) \/ Fail(w, b)
      BY <3>1, <3>2, Zenon
    <3> QED BY <2>2, <3>3
  <2> QED BY <1>4, <2>4, <2>5, <2>6, <2>7, <2>8
<1>5. CASE SwitchTestMode
  BY <1>0, <1>5 DEF SwitchTestMode, OneLateBusinessMail, InFlightIsFirst, TestModeInv,
                    ListsStaffed, ChecksItsMessage, TypeOK
<1>6. CASE EditRecipients
  BY <1>6 DEF EditRecipients, Spend, Staffed
<1>7. CASE UNCHANGED vars \/ \E r \in RowIds : LeaseExpires(r) \/ BecomesDue(r) \/ Requeue(r)
  BY <1>7 DEF vars, LeaseExpires, BecomesDue, Requeue, TestModeInv, ListsStaffed,
              ChecksItsMessage, OneLateBusinessMail, InFlightIsFirst, Unsafe
<1> QED BY <1>1, <1>2, <1>3, <1>4, <1>5, <1>6, <1>7
        DEF Next, WorkerStep, Progress, Deliver, Environment

\* Whatever fails or crashes, while both lists keep a member: after Test Mode is
\* switched ON, an instance delivers at most the one business message it had
\* already started.
THEOREM TestModeIsSafe == Staffed => (Spec => []OneLateBusinessMail)
<1> SUFFICES ASSUME Staffed PROVE Spec => []OneLateBusinessMail
  OBVIOUS
<1>1. Init => TestModeInv
  BY InitTypeOK DEF Init, NoJob, Staffed, TestModeInv, ListsStaffed, ChecksItsMessage,
                    OneLateBusinessMail, InFlightIsFirst
<1>2. TestModeInv /\ [Next]_vars => TestModeInv'
  BY NextTestMode
<1>3. TestModeInv => OneLateBusinessMail
  BY DEF TestModeInv
<1> QED BY <1>1, <1>2, <1>3, PTL DEF Spec
-----------------------------------------------------------------------------
Raw(n) == n \in RawNotices

\* A row exists as soon as somebody works on it; before that it is not a raw
\* notice and no provider has seen it.
RowsExist ==
  /\ \A r \in RowIds :
       rows[r].status = "absent" => ~Raw(rows[r].notice) /\ mail[r].reached = {}
  /\ \A w \in Workers :
       /\ \A r \in job[w].batch : rows[r].status # "absent"
       /\ job[w].row \in RowIds => rows[job[w].row].status # "absent"
       /\ pc[w] \in {"idle", "prepared", "clearing"} => job[w].row \notin RowIds

\* The route of a raw notice is never the business one, in the row, in the
\* reservation that is being prepared, and in the message that is being sent.
RawRoutes ==
  /\ \A r \in RowIds : Raw(rows[r].notice) => rows[r].to # "tender"
  /\ \A w \in Workers :
       /\ pc[w] = "prepared" /\ Raw(job[w].notice) => job[w].sel # "tender"
       /\ pc[w] = "prepared" => job[w].sel = job[w].to
       /\ job[w].row \in RowIds /\ Raw(rows[job[w].row].notice)
            => job[w].to # "tender"

RawInv == TypeOK /\ StaleExist /\ RowsExist /\ RawRoutes /\ RawNoticesStayInternal

LEMMA RawRecipients ==
  ASSUME NEW n, Raw(n), NEW c PROVE Recipients(n, c) # "tender"
BY DEF Raw, Recipients

\* A step of w that keeps the notices and lets no row disappear, that sends
\* nothing, and whose own row and message still fit.
LEMMA RawStep ==
  ASSUME RawInv, NEW w \in Workers, mail' = mail,
         \A v \in Workers \ {w} : pc'[v] = pc[v] /\ job'[v] = job[v],
         \A r \in RowIds :
           /\ rows'[r].notice = rows[r].notice
           /\ rows'[r].status = "absent" => rows[r].status = "absent"
           /\ Raw(rows[r].notice) => rows'[r].to # "tender",
         \A r \in job'[w].batch : r \in RowIds /\ rows[r].status # "absent",
         job'[w].row \in RowIds => rows[job'[w].row].status # "absent",
         pc'[w] \in {"idle", "prepared", "clearing"} => job'[w].row \notin RowIds,
         pc'[w] = "prepared" => /\ Raw(job'[w].notice) => job'[w].sel # "tender"
                                /\ job'[w].sel = job'[w].to,
         job'[w].row \in RowIds /\ Raw(rows[job'[w].row].notice) => job'[w].to # "tender"
  PROVE  RowsExist' /\ RawRoutes' /\ RawNoticesStayInternal'
<1>1. job[w].batch \subseteq RowIds /\ \A v \in Workers : job[v].batch \subseteq RowIds
  BY DEF RawInv, TypeOK, Job
<1>2. RowsExist'
  BY <1>1 DEF RawInv, RowsExist
<1>3. RawRoutes'
  BY DEF RawInv, RawRoutes
<1>4. RawNoticesStayInternal'
  BY DEF RawInv, RawNoticesStayInternal, Raw
<1> QED BY <1>2, <1>3, <1>4

\* The updates of a row, the re-routing apart, keep its notice and its route.
LEMMA RowKept ==
  ASSUME TypeOK, NEW r \in RowIds, NEW w \in Workers, NEW b \in BOOLEAN,
         NEW row \in {Claim(rows[r], w), Recovered(rows[r]), MarkSent(rows[r], b),
                      KeepPending(rows[r], b), Claim(Recovered(rows[r]), w)}
  PROVE  row.notice = rows[r].notice /\ row.to = rows[r].to /\ row.status # "absent"
<1>1. rows[r] \in Row /\ Recovered(rows[r]) \in Row
  BY RowUpdates DEF TypeOK
<1>2. \A x \in Row : /\ Claim(x, w).notice = x.notice /\ Claim(x, w).to = x.to
                     /\ Claim(x, w).status = "sending"
                     /\ Recovered(x).notice = x.notice /\ Recovered(x).to = x.to
                     /\ Recovered(x).status = "pending_retry"
  BY DEF Claim, Recovered, Row
<1>3. \A x \in Row : /\ MarkSent(x, b).notice = x.notice /\ MarkSent(x, b).to = x.to
                     /\ MarkSent(x, b).status = "sent"
  BY DEF MarkSent, Row
<1>4. \A x \in Row : /\ KeepPending(x, b).notice = x.notice /\ KeepPending(x, b).to = x.to
                     /\ KeepPending(x, b).status # "absent"
  BY DEF KeepPending, Row
<1> QED BY <1>1, <1>2, <1>3, <1>4

LEMMA RawLeave ==
  ASSUME RawInv, NEW w \in Workers, NEW b \in BOOLEAN,
         \/ Leave(w, b)
         \/ Fail(w, b)
  PROVE  /\ \A v \in Workers \ {w} : pc'[v] = pc[v] /\ job'[v] = job[v]
         /\ job'[w].batch \subseteq job[w].batch
         /\ pc'[w] \notin {"prepared", "clearing"}
         /\ \/ /\ job'[w].row = job[w].row /\ job'[w].to = job[w].to
               /\ pc'[w] # "idle"
            \/ job'[w].row \notin RowIds
<1>1. job[w] \in Job /\ -1 \notin RowIds
  BY OutboxConstants DEF RawInv, TypeOK
<1>2. CASE Leave(w, b) /\ job[w].mode = "live"
  BY <1>1, <1>2 DEF Leave, NoJob, RawInv, TypeOK
<1>3. CASE Leave(w, b) /\ job[w].mode # "live"
  BY <1>1, <1>3 DEF Leave, Job, RawInv, TypeOK
<1>4. CASE Fail(w, b)
  BY <1>1, <1>4 DEF Fail, Job, RawInv, TypeOK
<1> QED BY <1>2, <1>3, <1>4

\* A step that ends or gives up the work on a row, and changes rows only as
\* RowKept allows.
LEMMA RawLeaveStep ==
  ASSUME RawInv, NEW w \in Workers, NEW b \in BOOLEAN, Leave(w, b) \/ Fail(w, b),
         mail' = mail,
         \A r \in RowIds : /\ rows'[r].notice = rows[r].notice
                           /\ rows'[r].to = rows[r].to
                           /\ rows'[r].status = "absent" => rows[r].status = "absent"
  PROVE  RowsExist' /\ RawRoutes' /\ RawNoticesStayInternal'
<1>1. /\ \A v \in Workers \ {w} : pc'[v] = pc[v] /\ job'[v] = job[v]
      /\ job'[w].batch \subseteq job[w].batch
      /\ pc'[w] \notin {"prepared", "clearing"}
      /\ \/ /\ job'[w].row = job[w].row /\ job'[w].to = job[w].to
            /\ pc'[w] # "idle"
         \/ job'[w].row \notin RowIds
  BY RawLeave
<1>2. \A r \in job'[w].batch : r \in RowIds /\ rows[r].status # "absent"
  BY <1>1 DEF RawInv, RowsExist, TypeOK, Job
<1>3. job'[w].row \in RowIds => rows[job'[w].row].status # "absent"
  BY <1>1 DEF RawInv, RowsExist
<1>4. job'[w].row \in RowIds /\ Raw(rows[job'[w].row].notice) => job'[w].to # "tender"
  BY <1>1 DEF RawInv, RawRoutes
<1>5. \A r \in RowIds : /\ rows'[r].notice = rows[r].notice
                        /\ rows'[r].status = "absent" => rows[r].status = "absent"
                        /\ Raw(rows[r].notice) => rows'[r].to # "tender"
  BY DEF RawInv, RawRoutes
<1>6. pc'[w] \in {"idle", "prepared", "clearing"} => job'[w].row \notin RowIds
  BY <1>1
<1>7. pc'[w] = "prepared" => /\ Raw(job'[w].notice) => job'[w].sel # "tender"
                             /\ job'[w].sel = job'[w].to
  BY <1>1
<1> QED BY <1>1, <1>2, <1>3, <1>4, <1>5, <1>6, <1>7, RawStep

\* A step that goes on with the same row and message.
LEMMA RawGoOn ==
  ASSUME RawInv, NEW w \in Workers, mail' = mail,
         \A v \in Workers \ {w} : pc'[v] = pc[v] /\ job'[v] = job[v],
         job'[w].batch = job[w].batch, job'[w].row = job[w].row,
         job'[w].to = job[w].to,
         pc'[w] \notin {"idle", "prepared", "clearing"},
         \A r \in RowIds : /\ rows'[r].notice = rows[r].notice
                           /\ rows'[r].to = rows[r].to
                           /\ rows'[r].status = "absent" => rows[r].status = "absent"
  PROVE  RowsExist' /\ RawRoutes' /\ RawNoticesStayInternal'
<1>2. \A r \in job'[w].batch : r \in RowIds /\ rows[r].status # "absent"
  BY DEF RawInv, RowsExist, TypeOK, Job
<1>3. job'[w].row \in RowIds => rows[job'[w].row].status # "absent"
  BY DEF RawInv, RowsExist
<1>4. job'[w].row \in RowIds /\ Raw(rows[job'[w].row].notice) => job'[w].to # "tender"
  BY DEF RawInv, RawRoutes
<1>5. \A r \in RowIds : /\ rows'[r].notice = rows[r].notice
                        /\ rows'[r].status = "absent" => rows[r].status = "absent"
                        /\ Raw(rows[r].notice) => rows'[r].to # "tender"
  BY DEF RawInv, RawRoutes
<1>6. pc'[w] \in {"idle", "prepared", "clearing"} => job'[w].row \notin RowIds
  OBVIOUS
<1>7. pc'[w] = "prepared" => /\ Raw(job'[w].notice) => job'[w].sel # "tender"
                             /\ job'[w].sel = job'[w].to
  OBVIOUS
<1> QED BY <1>2, <1>3, <1>4, <1>5, <1>6, <1>7, RawStep

LEMMA RowsKept ==
  ASSUME TypeOK, NEW w \in Workers, NEW b \in BOOLEAN, NEW c,
         \/ rows' = rows
         \/ rows' = [rows EXCEPT ![c].lease = "live"]
         \/ rows' = [rows EXCEPT ![c] = Claim(rows[c], w)]
         \/ rows' = [rows EXCEPT ![c] = MarkSent(rows[c], b)]
         \/ rows' = [rows EXCEPT ![c] = KeepPending(rows[c], b)]
  PROVE  \A r \in RowIds : /\ rows'[r].notice = rows[r].notice
                           /\ rows'[r].to = rows[r].to
                           /\ rows'[r].status = "absent" => rows[r].status = "absent"
<1>1. CASE rows' = [rows EXCEPT ![c].lease = "live"]
  BY <1>1 DEF TypeOK, Row
<1>2. CASE rows' # [rows EXCEPT ![c].lease = "live"]
  <2> TAKE r \in RowIds
  <2>1. CASE rows'[r] = rows[r]
    BY <2>1
  <2>2. CASE rows'[r] \in {Claim(rows[r], w), MarkSent(rows[r], b), KeepPending(rows[r], b)}
    BY <2>2, RowKept
  <2> QED BY <1>2, <2>1, <2>2 DEF TypeOK
<1> QED BY <1>1, <1>2

LEMMA RawLive ==
  ASSUME RawInv, NEW w \in Workers,
         (\E n \in Notices : Prepare(w, n)) \/ AlreadyNotified(w) \/ Reserve(w) \/ BeginSend(w)
  PROVE  RowsExist' /\ RawRoutes' /\ RawNoticesStayInternal'
<1> USE DEF env
<1>0. TypeOK /\ job[w] \in Job /\ -1 \notin RowIds
  BY OutboxConstants DEF RawInv, TypeOK
<1>1. ASSUME NEW n \in Notices, Prepare(w, n)
      PROVE  RowsExist' /\ RawRoutes' /\ RawNoticesStayInternal'
  <2>1. /\ job'[w].row = job[w].row /\ job'[w].batch = job[w].batch
        /\ job'[w].notice = n /\ job'[w].sel = Recipients(n, config)
        /\ job'[w].to = Recipients(n, config)
        /\ pc[w] = "idle" /\ pc'[w] = "prepared"
        /\ \A v \in Workers \ {w} : pc'[v] = pc[v] /\ job'[v] = job[v]
    BY <1>0, <1>1 DEF Prepare, TypeOK, Job
  <2>2. job'[w].row \notin RowIds
    BY <2>1 DEF RawInv, RowsExist
  <2>3. \A r \in job'[w].batch : r \in RowIds /\ rows[r].status # "absent"
    BY <1>0, <2>1 DEF RawInv, RowsExist, Job
  <2>4. /\ Raw(job'[w].notice) => job'[w].sel # "tender"
        /\ job'[w].sel = job'[w].to
    BY <2>1, RawRecipients
  <2>5. mail' = mail /\ \A r \in RowIds :
           /\ rows'[r].notice = rows[r].notice
           /\ rows'[r].status = "absent" => rows[r].status = "absent"
           /\ Raw(rows[r].notice) => rows'[r].to # "tender"
    BY <1>1 DEF Prepare, RawInv, RawRoutes
  <2> QED BY <2>1, <2>2, <2>3, <2>4, <2>5, RawStep
<1>2. CASE AlreadyNotified(w)
  <2>1. Leave(w, FALSE) /\ rows' = rows /\ mail' = mail
    BY <1>2 DEF AlreadyNotified
  <2> QED BY <2>1, RawLeaveStep
<1>3. CASE Reserve(w)
  <2>1. PICK r \in RowIds :
          /\ rows[r].status = "absent"
          /\ rows' = [rows EXCEPT ![r] =
                        [AbsentRow EXCEPT !.notice = job[w].notice,
                                          !.key = job[w].sel, !.to = job[w].sel,
                                          !.status = "pending"]]
          /\ job' = [job EXCEPT ![w].row = r]
    BY <1>3 DEF Reserve
  <2>2. /\ job'[w].row = r /\ job'[w].batch = job[w].batch /\ job'[w].to = job[w].to
        /\ pc[w] = "prepared" /\ pc'[w] = "reserved" /\ mail' = mail
        /\ \A v \in Workers \ {w} : pc'[v] = pc[v] /\ job'[v] = job[v]
    BY <1>0, <1>3, <2>1 DEF Reserve, TypeOK, Job
  <2>3. /\ rows'[r].status = "pending" /\ rows'[r].to = job[w].sel
        /\ rows'[r].notice = job[w].notice
        /\ \A q \in RowIds \ {r} : rows'[q] = rows[q]
    BY <1>0, <2>1 DEF TypeOK, AbsentRow
  <2>4. \A v \in Workers : r \notin job[v].batch /\ job[v].row # r
    BY <2>1 DEF RawInv, RowsExist
  <2>5. RowsExist'
    <3>1. \A q \in RowIds : rows'[q].status = "absent"
                              => ~Raw(rows'[q].notice) /\ mail'[q].reached = {}
      BY <2>2, <2>3 DEF RawInv, RowsExist
    <3>2. ASSUME NEW v \in Workers
          PROVE  /\ \A q \in job'[v].batch : rows'[q].status # "absent"
                 /\ job'[v].row \in RowIds => rows'[job'[v].row].status # "absent"
                 /\ pc'[v] \in {"idle", "prepared", "clearing"} => job'[v].row \notin RowIds
      <4>1. job[v].batch \subseteq RowIds
        BY <1>0 DEF TypeOK, Job
      <4>2. CASE v = w
        BY <2>2, <2>3, <2>4, <4>1, <4>2 DEF RawInv, RowsExist
      <4>3. CASE v # w
        BY <2>2, <2>3, <2>4, <4>1, <4>3 DEF RawInv, RowsExist
      <4> QED BY <4>2, <4>3
    <3> QED BY <3>1, <3>2 DEF RowsExist
  <2>6. RawRoutes'
    <3>1. \A q \in RowIds : Raw(rows'[q].notice) => rows'[q].to # "tender"
      BY <2>2, <2>3 DEF RawInv, RawRoutes
    <3>2. /\ pc'[w] # "prepared"
          /\ Raw(rows'[job'[w].row].notice) => job'[w].to # "tender"
      BY <2>2, <2>3 DEF RawInv, RawRoutes
    <3>3. \A v \in Workers \ {w} :
            /\ pc'[v] = "prepared" /\ Raw(job'[v].notice) => job'[v].sel # "tender"
            /\ pc'[v] = "prepared" => job'[v].sel = job'[v].to
            /\ job'[v].row \in RowIds /\ Raw(rows'[job'[v].row].notice)
                 => job'[v].to # "tender"
      BY <2>2, <2>3, <2>4 DEF RawInv, RawRoutes
    <3> QED BY <3>1, <3>2, <3>3 DEF RawRoutes
  <2>7. mail[r].reached = {}
    BY <2>1 DEF RawInv, RowsExist
  <2>8. RawNoticesStayInternal'
    BY <2>2, <2>3, <2>7 DEF RawInv, RawNoticesStayInternal, Raw
  <2> QED BY <2>5, <2>6, <2>8
<1>4. CASE BeginSend(w)
  <2>0. PICK r : r = job[w].row
    OBVIOUS
  <2>1. CASE ~Sendable(r)
    BY <1>4, <2>0, <2>1, RawLeaveStep DEF BeginSend
  <2>2. CASE Sendable(r)
    <3>1. /\ rows' = [rows EXCEPT ![r] = Claim(rows[r], w)] /\ job' = job /\ mail' = mail
          /\ pc'[w] \notin {"idle", "prepared", "clearing"}
          /\ \A v \in Workers \ {w} : pc'[v] = pc[v]
      BY <1>0, <1>4, <2>0, <2>2 DEF BeginSend, TypeOK
    <3>2. \A q \in RowIds : /\ rows'[q].notice = rows[q].notice
                            /\ rows'[q].to = rows[q].to
                            /\ rows'[q].status = "absent" => rows[q].status = "absent"
      BY <1>0, <3>1, RowsKept
    <3> QED BY <3>1, <3>2, RawGoOn
  <2> QED BY <2>1, <2>2
<1> QED BY <1>1, <1>2, <1>3, <1>4

LEMMA RawFlush ==
  ASSUME RawInv, NEW w \in Workers,
         ReadStale(w) \/ ClaimPending(w) \/ OpenRow(w) \/ FinishFlush(w) \/ ClearBanner(w) \/ Crash(w)
  PROVE  RowsExist' /\ RawRoutes' /\ RawNoticesStayInternal'
<1> USE DEF env
<1>0. TypeOK /\ job[w] \in Job /\ -1 \notin RowIds
  BY OutboxConstants DEF RawInv, TypeOK
<1>1. CASE ClaimPending(w)
  <2>1. /\ job'[w].row = -1 /\ job'[w].batch \subseteq RowIds
        /\ pc'[w] = "flushing"
        /\ \A v \in Workers \ {w} : job'[v] = job[v] /\ pc'[v] = pc[v]
    BY <1>0, <1>1, ClaimEffect
  <2>2. mail' = mail
    BY <1>1 DEF ClaimPending
  <2>3. StaleRead(w) \subseteq RowIds /\ \A r \in StaleRead(w) : rows[r].status # "absent"
    BY <1>0 DEF RawInv, StaleExist, StaleRead, Job
  <2>4. \A r \in job'[w].batch : r \in RowIds /\ rows[r].status # "absent"
    BY <1>0, <1>1, <2>1, <2>3, ClaimEffect
  <2>5. ASSUME NEW r \in RowIds
        PROVE  /\ rows'[r].notice = rows[r].notice
               /\ rows'[r].status = "absent" => rows[r].status = "absent"
               /\ Raw(rows[r].notice) => rows'[r].to # "tender"
    <3>1. /\ rows'[r].notice = rows[r].notice /\ rows'[r].to = rows[r].to
          /\ rows'[r].status = "absent" => rows[r].status = "absent"
      BY <1>0, <1>1, ClaimEffect
    <3> QED BY <3>1 DEF RawInv, RawRoutes
  <2> QED BY <1>0, <2>1, <2>2, <2>4, <2>5, RawStep
<1>2. CASE OpenRow(w)
  <2>1. PICK r \in job[w].batch :
          \E to \in {Recipients(rows[r].notice, config), rows[r].to} :
          \/ /\ job' = [job EXCEPT ![w].batch = @ \ {r}]
             /\ UNCHANGED pc
             /\ UNCHANGED rows \/ rows' = [rows EXCEPT ![r] = KeepPending(rows[r], FALSE)]
          \/ /\ pc' \in {[pc EXCEPT ![w] = "claimed"], [pc EXCEPT ![w] = "failed"]}
             /\ rows' = [rows EXCEPT ![r].to = to]
             /\ job' = [job EXCEPT ![w].batch = @ \ {r}, ![w].row = r,
                                   ![w].sel = to, ![w].to = to]
    BY <1>2 DEF OpenRow
  <2>2. /\ r \in RowIds /\ pc[w] = "flushing" /\ rows[r].status # "absent"
        /\ mail' = mail
    BY <1>0, <1>2, <2>1 DEF OpenRow, Job, RawInv, RowsExist
  <2>3. Raw(rows[r].notice) => "tender" \notin {Recipients(rows[r].notice, config), rows[r].to}
    BY <2>2, RawRecipients DEF RawInv, RawRoutes
  <2>4. ASSUME job' = [job EXCEPT ![w].batch = @ \ {r}], UNCHANGED pc,
               UNCHANGED rows \/ rows' = [rows EXCEPT ![r] = KeepPending(rows[r], FALSE)]
        PROVE  RowsExist' /\ RawRoutes' /\ RawNoticesStayInternal'
    <3>1. /\ job'[w].batch = job[w].batch \ {r} /\ job'[w].row = job[w].row
          /\ job'[w].to = job[w].to
          /\ \A v \in Workers \ {w} : job'[v] = job[v] /\ pc'[v] = pc[v]
      BY <1>0, <2>4 DEF TypeOK, Job
    <3>2. \A q \in RowIds : /\ rows'[q].notice = rows[q].notice
                            /\ rows'[q].status = "absent" => rows[q].status = "absent"
                            /\ Raw(rows[q].notice) => rows'[q].to # "tender"
      BY <1>0, <2>4, RowsKept DEF RawInv, RawRoutes
    <3>3. \A q \in job'[w].batch : q \in RowIds /\ rows[q].status # "absent"
      BY <1>0, <3>1 DEF RawInv, RowsExist, Job
    <3>4. /\ job'[w].row \in RowIds => rows[job'[w].row].status # "absent"
          /\ job'[w].row \in RowIds /\ Raw(rows[job'[w].row].notice) => job'[w].to # "tender"
      BY <3>1 DEF RawInv, RowsExist, RawRoutes
    <3> QED BY <2>2, <2>4, <3>1, <3>2, <3>3, <3>4, RawStep
  <2>5. ASSUME NEW to \in {Recipients(rows[r].notice, config), rows[r].to},
               pc' \in {[pc EXCEPT ![w] = "claimed"], [pc EXCEPT ![w] = "failed"]},
               rows' = [rows EXCEPT ![r].to = to],
               job' = [job EXCEPT ![w].batch = @ \ {r}, ![w].row = r,
                                  ![w].sel = to, ![w].to = to]
        PROVE  RowsExist' /\ RawRoutes' /\ RawNoticesStayInternal'
    <3>1. /\ job'[w].batch = job[w].batch \ {r} /\ job'[w].row = r
          /\ job'[w].to = to
          /\ \A v \in Workers \ {w} : job'[v] = job[v] /\ pc'[v] = pc[v]
          /\ pc'[w] \in {"claimed", "failed"}
      BY <1>0, <2>5 DEF TypeOK, Job
    <3>2. \A q \in RowIds : /\ rows'[q].notice = rows[q].notice
                            /\ rows'[q].status = "absent" => rows[q].status = "absent"
                            /\ Raw(rows[q].notice) => rows'[q].to # "tender"
      BY <1>0, <2>2, <2>3, <2>5 DEF RawInv, RawRoutes, TypeOK, Row
    <3>3. \A q \in job'[w].batch : q \in RowIds /\ rows[q].status # "absent"
      BY <1>0, <3>1 DEF RawInv, RowsExist, Job
    <3> QED BY <2>2, <2>3, <3>1, <3>2, <3>3, RawStep
  <2> QED BY <2>1, <2>4, <2>5
<1>4. CASE ReadStale(w)
  <2>1. /\ rows' = rows /\ mail' = mail /\ pc'[w] = "recovering"
        /\ job'[w].row = -1 /\ job'[w].batch = {}
        /\ \A v \in Workers \ {w} : job'[v] = job[v] /\ pc'[v] = pc[v]
    BY <1>0, <1>4, ReadEffect
  <2>2. \A q \in RowIds : /\ rows'[q].notice = rows[q].notice
                          /\ rows'[q].status = "absent" => rows[q].status = "absent"
                          /\ Raw(rows[q].notice) => rows'[q].to # "tender"
    BY <2>1 DEF RawInv, RawRoutes
  <2> QED BY <1>0, <2>1, <2>2, RawStep
<1>3. CASE FinishFlush(w) \/ ClearBanner(w) \/ Crash(w)
  <2>1. /\ rows' = rows /\ mail' = mail /\ pc'[w] \in {"idle", "clearing"}
        /\ \/ job'[w] = NoJob
           \/ job'[w] = job[w] /\ pc[w] = "clearing"
        /\ \A v \in Workers \ {w} : job'[v] = job[v] /\ pc'[v] = pc[v]
    BY <1>0, <1>3 DEF FinishFlush, ClearBanner, Crash, TypeOK
  <2>2. job'[w].row \notin RowIds /\ \A q \in job'[w].batch : q \in job[w].batch
    BY <1>0, <2>1 DEF NoJob, RawInv, RowsExist
  <2>3. \A q \in job'[w].batch : q \in RowIds /\ rows[q].status # "absent"
    BY <1>0, <2>2 DEF RawInv, RowsExist, Job
  <2>4. \A q \in RowIds : /\ rows'[q].notice = rows[q].notice
                          /\ rows'[q].status = "absent" => rows[q].status = "absent"
                          /\ Raw(rows[q].notice) => rows'[q].to # "tender"
    BY <2>1 DEF RawInv, RawRoutes
  <2> QED BY <2>1, <2>2, <2>3, <2>4, RawStep
<1> QED BY <1>1, <1>2, <1>3, <1>4

LEMMA RawDeliver ==
  ASSUME RawInv, NEW w \in Workers, Deliver(w) \/ AttemptFault(w)
  PROVE  RowsExist' /\ RawRoutes' /\ RawNoticesStayInternal'
<1> USE DEF env
<1>0. TypeOK /\ job[w] \in Job /\ -1 \notin RowIds
  BY OutboxConstants DEF RawInv, TypeOK
<1>1. PICK r : r = job[w].row
  OBVIOUS
\* the work ends, or goes on with the same message
<1>2. ASSUME mail' = mail,
             \E b \in BOOLEAN : Leave(w, b) \/ Fail(w, b),
             \E b \in BOOLEAN : \/ rows' = rows
                                \/ rows' = [rows EXCEPT ![r].lease = "live"]
                                \/ rows' = [rows EXCEPT ![r] = MarkSent(rows[r], b)]
                                \/ rows' = [rows EXCEPT ![r] = KeepPending(rows[r], b)]
      PROVE  RowsExist' /\ RawRoutes' /\ RawNoticesStayInternal'
  <2>1. \A q \in RowIds : /\ rows'[q].notice = rows[q].notice
                          /\ rows'[q].to = rows[q].to
                          /\ rows'[q].status = "absent" => rows[q].status = "absent"
    BY <1>0, <1>2, RowsKept
  <2> QED BY <1>2, <2>1, RawLeaveStep
<1>3. ASSUME mail' = mail,
             \/ job' = job
             \/ job' = [job EXCEPT ![w].amb = TRUE]
             \/ job' = [job EXCEPT ![w].sel = "none"]
             \/ job' = [job EXCEPT ![w].tries = @ + 1],
             pc' \in {[pc EXCEPT ![w] = s] : s \in Working},
             rows' = rows \/ rows' = [rows EXCEPT ![r].lease = "live"]
      PROVE  RowsExist' /\ RawRoutes' /\ RawNoticesStayInternal'
  <2>1. /\ job'[w].row = job[w].row /\ job'[w].batch = job[w].batch
        /\ job'[w].to = job[w].to
        /\ \A v \in Workers \ {w} : job'[v] = job[v]
    BY <1>0, <1>3 DEF TypeOK, Job
  <2>2. /\ pc'[w] \notin {"idle", "prepared", "clearing"}
        /\ \A v \in Workers \ {w} : pc'[v] = pc[v]
    BY <1>0, <1>3 DEF TypeOK, Working
  <2>3. \A q \in RowIds : /\ rows'[q].notice = rows[q].notice
                          /\ rows'[q].to = rows[q].to
                          /\ rows'[q].status = "absent" => rows[q].status = "absent"
    BY <1>0, <1>3, RowsKept
  <2> QED BY <1>3, <2>1, <2>2, <2>3, RawGoOn
<1>4. CASE Revalidate(w)
  <2>1. PICK n, route : n = rows[r].notice /\ route = Recipients(n, config)
    OBVIOUS
  <2>2. CASE rows' = rows /\ (Leave(w, FALSE) \/ Fail(w, FALSE))
    BY <1>2, <1>4, <2>2 DEF Revalidate
  <2>3. CASE rows' = rows /\ job' = [job EXCEPT ![w].sel = "none"]
             /\ pc' = [pc EXCEPT ![w] = "ready"]
    BY <1>3, <1>4, <2>3 DEF Revalidate, Working
  <2>4. CASE /\ rows' = [rows EXCEPT ![r] = Rerouted(rows[r], route)]
             /\ job' = [job EXCEPT ![w].sel = route, ![w].to = route]
             /\ pc' = [pc EXCEPT ![w] = IF job[w].mode = "live" THEN "revalidated"
                                                                ELSE "ready"]
    <3>1. /\ job'[w].row = r /\ job'[w].batch = job[w].batch
          /\ job'[w].to = route /\ mail' = mail
          /\ \A v \in Workers \ {w} : job'[v] = job[v] /\ pc'[v] = pc[v]
          /\ pc'[w] \notin {"idle", "prepared", "clearing"}
      BY <1>0, <1>1, <1>4, <2>4 DEF Revalidate, TypeOK, Job
    <3>2. Raw(n) => route # "tender"
      BY <2>1, RawRecipients
    <3>3. \A q \in RowIds : /\ rows'[q].notice = rows[q].notice
                            /\ rows'[q].status = "absent" => rows[q].status = "absent"
                            /\ Raw(rows[q].notice) => rows'[q].to # "tender"
      BY <1>0, <2>1, <2>4, <3>2 DEF RawInv, RawRoutes, TypeOK, Row, Rerouted
    <3>4. /\ \A q \in job'[w].batch : q \in RowIds /\ rows[q].status # "absent"
          /\ job'[w].row \in RowIds => rows[job'[w].row].status # "absent"
      BY <1>0, <1>1, <3>1 DEF RawInv, RowsExist, Job
    <3>5. job'[w].row \in RowIds /\ Raw(rows[job'[w].row].notice) => job'[w].to # "tender"
      BY <2>1, <3>1, <3>2
    <3> QED BY <3>1, <3>3, <3>4, <3>5, RawStep
  <2> QED BY <1>1, <1>4, <2>1, <2>2, <2>3, <2>4 DEF Revalidate
<1>5. CASE RenewClaim(w) \/ BeforeAttempt(w)
  BY <1>1, <1>2, <1>3, <1>5 DEF RenewClaim, BeforeAttempt, Working
<1>6. CASE AttemptFault(w) \/ ChainExhausted(w)
  BY <1>0, <1>2, <1>6 DEF AttemptFault, ChainExhausted, Job
<1>7. CASE FinalizeSent(w) \/ FinalizeFailed(w)
  <2>1. mail' = mail /\ job[w].amb \in BOOLEAN
    BY <1>0, <1>7 DEF FinalizeSent, FinalizeFailed, Job
  <2>2. \E b \in BOOLEAN : Leave(w, b) \/ Fail(w, b)
    <3>1. MayFinalize(w, job[w].row) \in BOOLEAN
      BY DEF MayFinalize
    <3>2. Leave(w, MayFinalize(w, job[w].row)) \/ Leave(w, FALSE)
      BY <1>7, Zenon DEF FinalizeSent, FinalizeFailed
    <3> QED BY <3>1, <3>2, Zenon
  <2>3. \/ rows' = rows
        \/ rows' = [rows EXCEPT ![r] = MarkSent(rows[r], job[w].amb)]
        \/ rows' = [rows EXCEPT ![r] = KeepPending(rows[r], job[w].amb)]
    BY <1>1, <1>7 DEF FinalizeSent, FinalizeFailed
  <2> QED BY <1>2, <2>1, <2>2, <2>3
\* a request arrives, or not
<1>8. CASE Accept(w) \/ Reject(w) \/ Timeout(w)
  <2>1. /\ rows' = rows
        /\ job' = job \/ job' = [job EXCEPT ![w].amb = TRUE]
        /\ pc' \in {[pc EXCEPT ![w] = s] : s \in Working}
        /\ \E accepted \in BOOLEAN : Arrive(w, accepted)
    BY <1>8 DEF Accept, Reject, Timeout, Working
  <2>2. CASE mail' = mail
    BY <1>3, <2>1, <2>2
  <2>3. CASE mail' # mail
    <3>1. /\ \A q \in RowIds \ {r} : mail'[q] = mail[q]
          /\ r \in RowIds => mail'[r].reached = mail[r].reached \cup {job[w].to}
      BY <1>0, <1>1, <2>1, <2>3 DEF Arrive, TypeOK
    <3>2. \A v \in Workers :
            /\ job'[v].row = job[v].row /\ job'[v].batch = job[v].batch
            /\ job'[v].to = job[v].to /\ job'[v].sel = job[v].sel
            /\ job'[v].notice = job[v].notice
            /\ pc'[v] = pc[v] \/ pc'[v] \notin {"idle", "prepared", "clearing"}
      BY <1>0, <2>1 DEF TypeOK, Job, Working
    <3>3. RowsExist'
      <4>1. ASSUME NEW q \in RowIds, rows'[q].status = "absent"
            PROVE  ~Raw(rows'[q].notice) /\ mail'[q].reached = {}
        <5>1. ~Raw(rows[q].notice) /\ mail[q].reached = {}
          BY <2>1, <4>1 DEF RawInv, RowsExist
        <5>2. q # r
          BY <1>1, <2>1, <4>1 DEF RawInv, RowsExist
        <5> QED BY <2>1, <3>1, <5>1, <5>2
      <4>2. ASSUME NEW v \in Workers
            PROVE  /\ \A q \in job'[v].batch : rows'[q].status # "absent"
                   /\ job'[v].row \in RowIds => rows'[job'[v].row].status # "absent"
                   /\ pc'[v] \in {"idle", "prepared", "clearing"} => job'[v].row \notin RowIds
        <5>1. /\ job'[v].row = job[v].row /\ job'[v].batch = job[v].batch
              /\ pc'[v] = pc[v] \/ pc'[v] \notin {"idle", "prepared", "clearing"}
          BY <3>2
        <5> QED BY <2>1, <5>1 DEF RawInv, RowsExist
      <4> QED BY <4>1, <4>2 DEF RowsExist
    <3>4. RawRoutes'
      <4>1. ASSUME NEW v \in Workers
            PROVE  /\ pc'[v] = "prepared" /\ Raw(job'[v].notice) => job'[v].sel # "tender"
                   /\ pc'[v] = "prepared" => job'[v].sel = job'[v].to
                   /\ job'[v].row \in RowIds /\ Raw(rows'[job'[v].row].notice)
                        => job'[v].to # "tender"
        <5>1. /\ job'[v].row = job[v].row /\ job'[v].to = job[v].to
              /\ job'[v].sel = job[v].sel /\ job'[v].notice = job[v].notice
              /\ pc'[v] = pc[v] \/ pc'[v] # "prepared"
          BY <3>2
        <5> QED BY <2>1, <5>1 DEF RawInv, RawRoutes
      <4> QED BY <2>1, <4>1 DEF RawInv, RawRoutes
    <3>5. RawNoticesStayInternal'
      BY <1>1, <2>1, <3>1 DEF RawInv, RawRoutes, RawNoticesStayInternal, Raw
    <3> QED BY <3>3, <3>4, <3>5
  <2> QED BY <2>2, <2>3
<1> QED BY <1>4, <1>5, <1>6, <1>7, <1>8 DEF Deliver

LEMMA NextRaw == RawInv /\ [Next]_vars => RawInv'
<1> SUFFICES ASSUME RawInv, [Next]_vars PROVE RawInv'
  OBVIOUS
<1>0. TypeOK /\ TypeOK' /\ StaleExist'
  BY NextTypeOK, NextStale DEF RawInv
<1>1. CASE Environment \/ UNCHANGED vars
  <2>1. /\ pc' = pc /\ job' = job /\ mail' = mail
        /\ \A q \in RowIds : /\ rows'[q].notice = rows[q].notice
                             /\ rows'[q].to = rows[q].to
                             /\ rows'[q].status = "absent" <=> rows[q].status = "absent"
    <3>1. /\ pc' = pc /\ job' = job /\ mail' = mail
          /\ \/ rows' = rows
             \/ \E r \in RowIds :
                  \/ /\ rows[r].status = "sending"
                     /\ rows' = [rows EXCEPT ![r].lease = "expired"]
                  \/ rows' = [rows EXCEPT ![r].due = TRUE]
                  \/ /\ rows[r].status = "possible_duplicate"
                     /\ rows' = [rows EXCEPT ![r].status = "pending_retry",
                                             ![r].due = TRUE, ![r].released = TRUE]
      BY <1>1 DEF Environment, LeaseExpires, BecomesDue, Requeue, SwitchTestMode,
                  EditRecipients, vars
    <3>2. \A q \in RowIds : rows[q] \in Row
      BY <1>0 DEF TypeOK
    <3>3. CASE rows' = rows
      BY <3>1, <3>3
    <3>4. ASSUME NEW r \in RowIds,
                 \/ /\ rows[r].status = "sending"
                    /\ rows' = [rows EXCEPT ![r].lease = "expired"]
                 \/ rows' = [rows EXCEPT ![r].due = TRUE]
                 \/ /\ rows[r].status = "possible_duplicate"
                    /\ rows' = [rows EXCEPT ![r].status = "pending_retry",
                                            ![r].due = TRUE, ![r].released = TRUE]
          PROVE  \A q \in RowIds : /\ rows'[q].notice = rows[q].notice
                                   /\ rows'[q].to = rows[q].to
                                   /\ rows'[q].status = "absent" <=> rows[q].status = "absent"
      <4>1. \A q \in RowIds \ {r} : rows'[q] = rows[q]
        BY <1>0, <3>4 DEF TypeOK
      <4>2. CASE /\ rows[r].status = "sending"
                 /\ rows' = [rows EXCEPT ![r].lease = "expired"]
        <5>1. rows'[r] = [rows[r] EXCEPT !.lease = "expired"]
          BY <1>0, <4>2 DEF TypeOK
        <5>2. /\ rows'[r].notice = rows[r].notice /\ rows'[r].to = rows[r].to
              /\ rows'[r].status = rows[r].status
          BY <3>2, <5>1 DEF Row
        <5> QED BY <4>1, <5>2
      <4>3. CASE rows' = [rows EXCEPT ![r].due = TRUE]
        <5>1. rows'[r] = [rows[r] EXCEPT !.due = TRUE]
          BY <1>0, <4>3 DEF TypeOK
        <5>2. /\ rows'[r].notice = rows[r].notice /\ rows'[r].to = rows[r].to
              /\ rows'[r].status = rows[r].status
          BY <3>2, <5>1 DEF Row
        <5> QED BY <4>1, <5>2
      <4>4. CASE /\ rows[r].status = "possible_duplicate"
                 /\ rows' = [rows EXCEPT ![r].status = "pending_retry",
                                         ![r].due = TRUE, ![r].released = TRUE]
        <5>1. rows'[r] = [rows[r] EXCEPT !.status = "pending_retry", !.due = TRUE,
                                         !.released = TRUE]
          BY <1>0, <4>4 DEF TypeOK
        <5>2. /\ rows'[r].notice = rows[r].notice /\ rows'[r].to = rows[r].to
              /\ rows'[r].status = "pending_retry"
          BY <3>2, <5>1 DEF Row
        <5> QED BY <4>1, <4>4, <5>2
      <4> QED BY <3>4, <4>2, <4>3, <4>4
    <3> QED BY <3>1, <3>3, <3>4
  <2>2. RowsExist'
    BY ZenonT(60), <1>0, <2>1 DEF RawInv, RowsExist, TypeOK, Job
  <2>3. RawRoutes' /\ RawNoticesStayInternal'
    BY <2>1 DEF RawInv, RawRoutes, RawNoticesStayInternal
  <2> QED BY <1>0, <2>2, <2>3 DEF RawInv
<1>2. ASSUME NEW w \in Workers, WorkerStep(w) PROVE RawInv'
  BY <1>0, <1>2, RawLive, RawFlush, RawDeliver DEF RawInv, WorkerStep, Progress
<1> QED BY <1>1, <1>2 DEF Next

\* Whatever fails, crashes, is switched or edited: a notice without an
\* assessment never reaches a business list.
THEOREM RawNoticesAreInternal == Spec => []RawNoticesStayInternal
<1>1. Init => RawInv
  BY InitTypeOK, OutboxConstants
     DEF Init, AbsentRow, NoJob, RawInv, StaleExist, RowsExist, RawRoutes, RawNoticesStayInternal, Raw
<1>2. RawInv => RawNoticesStayInternal
  BY DEF RawInv
<1> QED BY <1>1, <1>2, NextRaw, PTL DEF Spec
=============================================================================
