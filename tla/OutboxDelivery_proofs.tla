------------------------ MODULE OutboxDelivery_proofs ------------------------
(* The outbox implements Delivery for every number of instances, notices and *)
(* rows and for every combination of adverse events.                         *)
EXTENDS OutboxDelivery, Outbox_proofs

Letters == [r \in RowIds |-> LetterOf(r)]

\* An instance that has a delivery to record has had one.
DeliveredIsTaken ==
  \A w \in Workers :
    pc[w] = "delivered" /\ job[w].row \in RowIds => mail[job[w].row].count > 0

DeliveryInv == ClaimInv /\ DeliveredIsTaken

LEMMA StateFacts ==
  /\ StateOf("absent") = "none" /\ StateOf("sent") = "done"
  /\ StateOf("possible_duplicate") = "held"
  /\ \A s \in {"pending", "sending", "pending_retry"} : StateOf(s) = "owed"
BY DEF StateOf

\* What a worker holds is owed, or it is marked; either way it exists.
LEMMA HeldIsOwed ==
  ASSUME ClaimInv, NEW w \in Workers, NEW r \in RowIds, Holds(w, r)
  PROVE  /\ Letters[r].state # "none"
         /\ Letters[r].state = "owed" \/ Letters[r].doubt
<1>1. Owns(w, r) \/ rows[r].flag
  BY DEF ClaimInv, Claims, ClaimLossIsFlagged
<1>2. CASE Owns(w, r)
  BY <1>2, StateFacts DEF Owns, Letters, LetterOf
<1>3. CASE rows[r].flag
  <2>1. rows[r].status \in Statuses \ {"absent"}
    BY <1>3 DEF ClaimInv, TypeOK, Row, Claims, AbsentUnflagged
  <2> QED BY <1>3, <2>1, StateFacts DEF Letters, LetterOf, Statuses
<1> QED BY <1>1, <1>2, <1>3

\* A step that changes no status, no flag and no acceptance changes no letter.
LEMMA SameLetters ==
  ASSUME \A r \in RowIds : /\ rows'[r].status = rows[r].status
                           /\ rows'[r].flag = rows[r].flag
                           /\ mail'[r].count = mail[r].count
  PROVE  Letters' = Letters
BY DEF Letters, LetterOf

\* A step that changes one row changes one letter.
LEMMA OneLetter ==
  ASSUME NEW r \in RowIds, mail' = mail,
         \A q \in RowIds \ {r} : rows'[q] = rows[q]
  PROVE  Letters' = [Letters EXCEPT ![r] = [state |-> StateOf(rows'[r].status),
                                            accepted |-> Letters[r].accepted,
                                            doubt |-> rows'[r].flag]]
BY DEF Letters, LetterOf

\* The letters after a step that stays within what Delivery allows.
Promised == D!DeliveryNext \/ Letters' = Letters

\* The row updates of a step: what they do to the letter.
LEMMA UpdatedLetters ==
  ASSUME NEW row \in Row, NEW w \in Workers, NEW amb \in BOOLEAN
  PROVE  /\ Claim(row, w).status = "sending" /\ Claim(row, w).flag = row.flag
         /\ MarkSent(row, amb).status = "sent" /\ MarkSent(row, amb).flag = (row.flag \/ amb)
         /\ KeepPending(row, amb).flag = (row.flag \/ amb)
         /\ \/ KeepPending(row, amb).status = "pending_retry"
            \/ KeepPending(row, amb).status = "possible_duplicate" /\ (row.flag \/ amb)
         /\ \A route \in RouteOrNone : /\ Rerouted(row, route).status = row.status
                                       /\ Rerouted(row, route).flag = row.flag
BY DEF Claim, MarkSent, KeepPending, Rerouted, Row

\* keep_pending by someone who holds the row
LEMMA KeptLetter ==
  ASSUME ClaimInv, NEW w \in Workers, NEW r \in RowIds, Holds(w, r), NEW amb \in BOOLEAN,
         rows' = [rows EXCEPT ![r] = KeepPending(rows[r], amb)], mail' = mail
  PROVE  Promised
<1> DEFINE x == KeepPending(rows[r], amb)
<1>0. rows[r] \in Row /\ rows'[r] = x /\ \A q \in RowIds \ {r} : rows'[q] = rows[q]
  BY DEF ClaimInv, TypeOK
<1>1. /\ x.flag = (rows[r].flag \/ amb)
      /\ x.status = "pending_retry" \/ (x.status = "possible_duplicate" /\ (rows[r].flag \/ amb))
  BY <1>0, UpdatedLetters
<1>2. Letters' = [Letters EXCEPT ![r] = [state |-> StateOf(x.status),
                                         accepted |-> Letters[r].accepted, doubt |-> x.flag]]
  BY <1>0, OneLetter
<1>3. StateOf(x.status) \in {"owed", "held"}
      /\ (StateOf(x.status) = "held" => rows[r].flag \/ amb)
  BY <1>1, StateFacts
<1>4. Letters[r].doubt = rows[r].flag
  BY DEF Letters, LetterOf
<1> HIDE DEF x
<1>5. Letters' = [Letters EXCEPT ![r].state = StateOf(x.status), ![r].doubt = @ \/ amb]
  BY <1>1, <1>2, <1>4 DEF Letters, LetterOf
<1>6. D!Kept(r, StateOf(x.status), amb)
  BY <1>3, <1>4, <1>5, HeldIsOwed DEF D!Kept, Letters
<1> QED BY <1>3, <1>6 DEF Promised, D!DeliveryNext

\* The steps of an instance before it holds a row, and of a flush.
LEMMA LiveStep ==
  ASSUME DeliveryInv, NEW w \in Workers,
         \/ \E n \in Notices : Prepare(w, n)
         \/ AlreadyNotified(w) \/ Reserve(w) \/ BeginSend(w)
  PROVE  Promised
<1> USE DEF env
<1>1. ASSUME UNCHANGED <<rows, mail>> PROVE Promised
  BY <1>1, SameLetters DEF Promised
<1>2. CASE \E n \in Notices : Prepare(w, n)
  BY <1>1, <1>2 DEF Prepare
<1>3. CASE AlreadyNotified(w)
  BY <1>1, <1>3 DEF AlreadyNotified
<1>4. CASE Reserve(w)
  <2>1. PICK r \in RowIds :
          /\ rows[r].status = "absent"
          /\ rows' = [rows EXCEPT ![r] =
                        [AbsentRow EXCEPT !.notice = job[w].notice,
                                          !.key = job[w].sel, !.to = job[w].sel,
                                          !.status = "pending"]]
    BY <1>4 DEF Reserve
  <2>2. mail' = mail
    BY <1>4 DEF Reserve
  <2>3. /\ rows'[r].status = "pending" /\ ~rows'[r].flag /\ ~rows[r].flag
        /\ \A q \in RowIds \ {r} : rows'[q] = rows[q]
    BY <2>1 DEF DeliveryInv, ClaimInv, Claims, AbsentUnflagged, TypeOK, AbsentRow
  <2>4. Letters' = [Letters EXCEPT ![r] = [state |-> "owed", accepted |-> Letters[r].accepted,
                                           doubt |-> rows'[r].flag]]
    BY <2>2, <2>3, OneLetter, StateFacts
  <2>5. Letters[r].state = "none" /\ Letters[r].doubt = rows[r].flag
    BY <2>1, StateFacts DEF Letters, LetterOf
  <2>6. rows'[r].flag = rows[r].flag
    <3>1. rows'[r].flag = FALSE
      BY <2>1 DEF DeliveryInv, ClaimInv, TypeOK, AbsentRow
    <3>2. rows[r].flag \in BOOLEAN
      BY DEF DeliveryInv, ClaimInv, TypeOK, Row
    <3> QED BY <2>3, <3>1, <3>2
  <2>7. Letters' = [Letters EXCEPT ![r].state = "owed"]
    BY <2>4, <2>5, <2>6 DEF Letters, LetterOf
  <2>8. D!Post(r)
    BY <2>5, <2>7 DEF D!Post, Letters
  <2> QED BY <2>8 DEF Promised, D!DeliveryNext
<1>5. CASE BeginSend(w)
  <2> DEFINE r == job[w].row
  <2>1. CASE r \in RowIds /\ Sendable(r)
    <3>1. rows' = [rows EXCEPT ![r] = Claim(rows[r], w)] /\ mail' = mail
      BY <1>5, <2>1 DEF BeginSend
    <3>2. rows[r] \in Row
      BY <2>1 DEF DeliveryInv, ClaimInv, TypeOK
    <3>3. /\ rows'[r].status = "sending" /\ rows'[r].flag = rows[r].flag
          /\ \A q \in RowIds \ {r} : rows'[q] = rows[q]
      BY <2>1, <3>1, <3>2, UpdatedLetters DEF DeliveryInv, ClaimInv, TypeOK
    <3>4. StateOf(rows'[r].status) = StateOf(rows[r].status)
      BY <2>1, <3>3, StateFacts DEF Sendable
    <3>5. Letters' = Letters
      BY <2>1, <3>1, <3>3, <3>4 DEF Letters, LetterOf
    <3> QED BY <3>5 DEF Promised
  <2>2. CASE ~(r \in RowIds /\ Sendable(r))
    <3>1. mail' = mail /\ (rows' = rows \/ rows' = [rows EXCEPT ![r] = Claim(rows[r], w)])
      BY <1>5 DEF BeginSend
    <3>2. \A q \in RowIds : rows'[q] = rows[q]
      <4>1. CASE r \in RowIds
        BY <1>5, <2>2, <4>1 DEF BeginSend
      <4>2. CASE r \notin RowIds
        BY <3>1, <4>2 DEF DeliveryInv, ClaimInv, TypeOK
      <4> QED BY <4>1, <4>2
    <3> QED BY <3>1, <3>2, SameLetters DEF Promised
  <2> QED BY <2>1, <2>2
<1> QED BY <1>2, <1>3, <1>4, <1>5

LEMMA FlushStep ==
  ASSUME DeliveryInv, NEW w \in Workers,
         ReadStale(w) \/ ClaimPending(w) \/ OpenRow(w) \/ FinishFlush(w) \/ ClearBanner(w)
  PROVE  Promised
<1> USE DEF env
<1>1. ASSUME UNCHANGED <<rows, mail>> PROVE Promised
  BY <1>1, SameLetters DEF Promised
<1>2. CASE ClaimPending(w)
  <2> DEFINE stale == StaleRead(w)
  <2>1. mail' = mail /\ TypeOK /\ TypeOK'
    BY <1>2, NextTypeOK DEF ClaimPending, DeliveryInv, ClaimInv, Next, WorkerStep
  <2>2. stale \subseteq RowIds /\ \A r \in stale : rows[r].status # "absent"
    BY <2>1 DEF StaleRead, StaleExist, DeliveryInv, ClaimInv, TypeOK, Job
  <2>3. ASSUME NEW r \in RowIds
        PROVE  LetterOf(r)' = IF r \in stale
                              THEN [LetterOf(r) EXCEPT !.state = "owed", !.doubt = TRUE]
                              ELSE LetterOf(r)
    <3>1. CASE r \in stale
      <4>1. rows'[r].status \in {"sending", "pending_retry"} /\ rows'[r].flag
        BY <1>2, <2>1, <3>1, ClaimEffect
      <4>2. rows'[r].flag = TRUE
        BY <2>1, <4>1 DEF TypeOK, Row
      <4>3. StateOf(rows'[r].status) = "owed"
        BY <4>1, StateFacts
      <4> QED BY <2>1, <3>1, <4>2, <4>3 DEF LetterOf
    <3>2. CASE r \notin stale /\ r \in job'[w].batch
      <4>1. /\ rows[r].status \in {"pending", "pending_retry"}
            /\ rows'[r].status = "sending" /\ rows'[r].flag = rows[r].flag
        BY <1>2, <2>1, <3>2, ClaimEffect
      <4>2. StateOf(rows'[r].status) = StateOf(rows[r].status)
        BY <4>1, StateFacts
      <4> QED BY <2>1, <3>2, <4>1, <4>2 DEF LetterOf
    <3>3. CASE r \notin stale /\ r \notin job'[w].batch
      <4>1. rows'[r] = rows[r]
        BY <1>2, <2>1, <3>3, ClaimEffect
      <4> QED BY <2>1, <3>3, <4>1 DEF LetterOf
    <3> QED BY <3>1, <3>2, <3>3
  <2>4. \A r \in stale : Letters[r].state # "none"
    <3>1. ASSUME NEW r \in stale PROVE StateOf(rows[r].status) # "none"
      BY <2>2 DEF StateOf
    <3> QED BY <2>2, <3>1 DEF Letters, LetterOf
  <2> HIDE DEF stale
  <2>5. D!TakenBack(stale)
    BY <2>3, <2>4 DEF D!TakenBack, Letters
  <2> QED BY <2>2, <2>5 DEF Promised, D!DeliveryNext
<1>3. CASE OpenRow(w)
  <2>1. PICK r \in job[w].batch :
          \/ rows' = rows
          \/ rows' = [rows EXCEPT ![r] = KeepPending(rows[r], FALSE)]
          \/ \E to : rows' = [rows EXCEPT ![r].to = to]
    BY <1>3, Zenon DEF OpenRow
  <2>2. r \in RowIds /\ Holds(w, r) /\ mail' = mail
    BY <1>3, <2>1 DEF OpenRow, Holds, DeliveryInv, ClaimInv, TypeOK, Job
  <2>3. CASE rows' = rows
    BY <1>1, <2>2, <2>3
  <2>4. CASE rows' = [rows EXCEPT ![r] = KeepPending(rows[r], FALSE)]
    BY <2>2, <2>4, KeptLetter DEF DeliveryInv
  <2>5. ASSUME NEW to, rows' = [rows EXCEPT ![r].to = to] PROVE Promised
    <3>1. \A q \in RowIds : rows'[q].status = rows[q].status /\ rows'[q].flag = rows[q].flag
      BY <2>5 DEF DeliveryInv, ClaimInv, TypeOK, Row
    <3> QED BY <2>2, <3>1, SameLetters DEF Promised
  <2> QED BY <2>1, <2>3, <2>4, <2>5
<1>4. CASE FinishFlush(w)
  BY <1>1, <1>4 DEF FinishFlush
<1>5. CASE ReadStale(w) \/ ClearBanner(w)
  BY <1>1, <1>5 DEF ReadStale, ClearBanner
<1> QED BY <1>2, <1>3, <1>4, <1>5

LEMMA DeliverStep ==
  ASSUME DeliveryInv, NEW w \in Workers, Deliver(w) \/ AttemptFault(w) \/ Crash(w)
  PROVE  Promised
<1> USE DEF env
<1> DEFINE r == job[w].row
<1>1. ASSUME mail' = mail,
             \A q \in RowIds : rows'[q].status = rows[q].status /\ rows'[q].flag = rows[q].flag
      PROVE  Promised
  BY <1>1, SameLetters DEF Promised
<1>2. ASSUME UNCHANGED <<rows, mail>> PROVE Promised
  BY <1>1, <1>2
<1>3. ASSUME mail' = mail, r \in RowIds, rows[r] \in Row,
             rows' = [rows EXCEPT ![r].lease = "live"]
      PROVE  Promised
  BY <1>1, <1>3 DEF DeliveryInv, ClaimInv, TypeOK, Row
<1>4. r \in RowIds => rows[r] \in Row
  BY DEF DeliveryInv, ClaimInv, TypeOK
<1>5. ASSUME mail' = mail, rows' = [rows EXCEPT ![r].lease = "live"] PROVE Promised
  <2>1. CASE r \in RowIds
    BY <1>3, <1>4, <1>5, <2>1
  <2>2. CASE r \notin RowIds
    BY <1>1, <1>5, <2>2 DEF DeliveryInv, ClaimInv, TypeOK
  <2> QED BY <2>1, <2>2
<1>6. pc[w] \in Working /\ r \in RowIds => Holds(w, r)
  BY DEF Holds
<1>7. CASE Revalidate(w)
  <2>1. PICK route \in RouteOrNone : rows' = rows \/ rows' = [rows EXCEPT ![r] = Rerouted(rows[r], route)]
    BY <1>7, RecipientsType DEF Revalidate, DeliveryInv, ClaimInv
  <2>2. mail' = mail
    BY <1>7 DEF Revalidate
  <2>3. CASE rows' = rows
    BY <1>2, <2>2, <2>3
  <2>4. CASE rows' = [rows EXCEPT ![r] = Rerouted(rows[r], route)]
    <3>1. \A q \in RowIds : rows'[q].status = rows[q].status /\ rows'[q].flag = rows[q].flag
      BY <1>4, <2>4 DEF DeliveryInv, ClaimInv, TypeOK, Rerouted, Row
    <3> QED BY <1>1, <2>2, <3>1
  <2> QED BY <2>1, <2>3, <2>4
<1>8. CASE RenewClaim(w)
  BY <1>2, <1>5, <1>8 DEF RenewClaim
<1>9. CASE BeforeAttempt(w)
  BY <1>2, <1>5, <1>9 DEF BeforeAttempt
<1>10. CASE AttemptFault(w)
  BY <1>2, <1>10 DEF AttemptFault
<1>11. CASE Crash(w)
  BY <1>2, <1>11 DEF Crash
<1>12. CASE ChainExhausted(w)
  BY <1>2, <1>12 DEF ChainExhausted
<1>13. ASSUME NEW accepted \in BOOLEAN, Arrive(w, accepted), rows' = rows, pc[w] = "sending"
       PROVE  Promised
  <2>1. CASE accepted /\ r \in RowIds
    <3>1. /\ mail'[r].count > 0 /\ \A q \in RowIds \ {r} : mail'[q] = mail[q]
      BY <1>13, <2>1 DEF Arrive, DeliveryInv, ClaimInv, TypeOK
    <3>2. Letters' = [Letters EXCEPT ![r].accepted = TRUE]
      BY <1>13, <3>1 DEF Letters, LetterOf
    <3>3. D!Taken(r)
      BY <1>6, <1>13, <2>1, <3>2, HeldIsOwed DEF D!Taken, Letters, Working, DeliveryInv
    <3> QED BY <2>1, <3>3 DEF Promised, D!DeliveryNext
  <2>2. CASE ~(accepted /\ r \in RowIds)
    <3>1. \A q \in RowIds : mail'[q] = mail[q]
      BY <1>13, <2>2 DEF Arrive, DeliveryInv, ClaimInv, TypeOK
    <3> QED BY <1>13, <3>1, SameLetters DEF Promised
  <2> QED BY <2>1, <2>2
<1>14. CASE Accept(w)
  BY <1>13, <1>14 DEF Accept
<1>15. CASE Reject(w)
  BY <1>13, <1>15 DEF Reject
<1>16. CASE Timeout(w)
  BY <1>13, <1>16 DEF Timeout
<1>17. CASE FinalizeSent(w)
  <2> DEFINE amb == job[w].amb
  <2>1. mail' = mail /\ pc[w] = "delivered"
    BY <1>17 DEF FinalizeSent
  <2>2. rows' = rows \/ rows' = [rows EXCEPT ![r] = MarkSent(rows[r], amb)]
    BY <1>17 DEF FinalizeSent
  <2>3. CASE rows' = rows
    BY <1>2, <2>1, <2>3
  <2>4. CASE r \notin RowIds /\ rows' # rows
    BY <1>1, <2>1, <2>2, <2>4 DEF DeliveryInv, ClaimInv, TypeOK
  <2>5. CASE r \in RowIds /\ rows' # rows
    <3>1. amb \in BOOLEAN
      BY DEF DeliveryInv, ClaimInv, TypeOK, Job
    <3>2. /\ rows'[r].status = "sent" /\ rows'[r].flag = (rows[r].flag \/ amb)
          /\ \A q \in RowIds \ {r} : rows'[q] = rows[q]
      BY <1>4, <2>2, <2>5, <3>1, UpdatedLetters DEF DeliveryInv, ClaimInv, TypeOK
    <3>3. Letters' = [Letters EXCEPT ![r] = [state |-> "done", accepted |-> Letters[r].accepted,
                                             doubt |-> rows'[r].flag]]
      BY <2>1, <2>5, <3>2, OneLetter, StateFacts
    <3>4. Letters[r].doubt = rows[r].flag
      BY <2>5 DEF Letters, LetterOf
    <3> HIDE DEF amb
    <3>5. Letters' = [Letters EXCEPT ![r].state = "done", ![r].doubt = @ \/ amb]
      BY <2>5, <3>2, <3>3, <3>4 DEF Letters, LetterOf
    <3>6. Letters[r].accepted
      BY <2>1, <2>5 DEF DeliveryInv, DeliveredIsTaken, Letters, LetterOf
    <3>7. D!Closed(r, amb)
      BY <1>6, <2>1, <2>5, <3>5, <3>6, HeldIsOwed DEF D!Closed, Letters, Working, DeliveryInv
    <3> QED BY <2>5, <3>1, <3>7 DEF Promised, D!DeliveryNext
  <2> QED BY <2>3, <2>4, <2>5
<1>18. CASE FinalizeFailed(w)
  <2>1. mail' = mail /\ pc[w] = "failed"
    BY <1>18 DEF FinalizeFailed
  <2>2. rows' = rows \/ rows' = [rows EXCEPT ![r] = KeepPending(rows[r], job[w].amb)]
    BY <1>18 DEF FinalizeFailed
  <2>3. CASE rows' = rows
    BY <1>2, <2>1, <2>3
  <2>4. CASE r \notin RowIds /\ rows' # rows
    BY <1>1, <2>1, <2>2, <2>4 DEF DeliveryInv, ClaimInv, TypeOK
  <2>5. CASE r \in RowIds /\ rows' # rows
    <3>1. Holds(w, r) /\ job[w].amb \in BOOLEAN
      BY <1>6, <2>1, <2>5 DEF Working, DeliveryInv, ClaimInv, TypeOK, Job
    <3> QED BY <2>1, <2>2, <2>5, <3>1, KeptLetter DEF DeliveryInv
  <2> QED BY <2>3, <2>4, <2>5
<1> QED BY <1>7, <1>8, <1>9, <1>10, <1>11, <1>12, <1>14, <1>15, <1>16, <1>17, <1>18 DEF Deliver

LEMMA EnvironmentStep == ASSUME DeliveryInv, Environment PROVE Promised
<1>1. ASSUME mail' = mail,
             \A q \in RowIds : rows'[q].status = rows[q].status /\ rows'[q].flag = rows[q].flag
      PROVE  Promised
  BY <1>1, SameLetters DEF Promised
<1>2. CASE SwitchTestMode \/ EditRecipients
  BY <1>1, <1>2 DEF SwitchTestMode, EditRecipients
<1>3. ASSUME NEW r \in RowIds, LeaseExpires(r) \/ BecomesDue(r) PROVE Promised
  <2>1. mail' = mail /\ rows[r] \in Row
    BY <1>3 DEF LeaseExpires, BecomesDue, DeliveryInv, ClaimInv, TypeOK
  <2>2. \/ rows' = [rows EXCEPT ![r].lease = "expired"]
        \/ rows' = [rows EXCEPT ![r].due = TRUE]
    BY <1>3 DEF LeaseExpires, BecomesDue
  <2>3. rows \in [RowIds -> Row]
    BY DEF DeliveryInv, ClaimInv, TypeOK
  <2>4. /\ rows'[r].status = rows[r].status /\ rows'[r].flag = rows[r].flag
        /\ \A q \in RowIds \ {r} : rows'[q] = rows[q]
    BY <2>1, <2>2, <2>3 DEF Row
  <2> QED BY <1>1, <2>1, <2>4
<1>4. ASSUME NEW r \in RowIds, Requeue(r) PROVE Promised
  <2>1. mail' = mail /\ rows[r] \in Row /\ rows[r].status = "possible_duplicate"
    BY <1>4 DEF Requeue, DeliveryInv, ClaimInv, TypeOK
  <2>2. /\ rows'[r].status = "pending_retry" /\ rows'[r].flag = rows[r].flag
        /\ \A q \in RowIds \ {r} : rows'[q] = rows[q]
    BY <1>4, <2>1 DEF Requeue, DeliveryInv, ClaimInv, TypeOK, Row
  <2>3. Letters' = [Letters EXCEPT ![r] = [state |-> "owed", accepted |-> Letters[r].accepted,
                                           doubt |-> rows'[r].flag]]
    BY <2>1, <2>2, OneLetter, StateFacts
  <2>4. Letters' = [Letters EXCEPT ![r].state = "owed"]
    BY <2>2, <2>3 DEF Letters, LetterOf
  <2>5. D!Released(r)
    BY <2>1, <2>4, StateFacts DEF D!Released, Letters, LetterOf
  <2> QED BY <2>5 DEF Promised, D!DeliveryNext
<1> QED BY <1>2, <1>3, <1>4 DEF Environment

\* Deliveries are not taken back, and an instance has none to record before a
\* provider accepted one.
LEMMA NextDelivered == ASSUME DeliveryInv, [Next]_vars PROVE DeliveredIsTaken'
<1> USE DEF env
<1>0. TypeOK
  BY DEF DeliveryInv, ClaimInv
<1>1. ASSUME \A v \in Workers : pc'[v] = "delivered" => /\ pc[v] = "delivered"
                                                        /\ job'[v].row = job[v].row,
             \A q \in RowIds : mail[q].count > 0 => mail'[q].count > 0
      PROVE  DeliveredIsTaken'
  BY <1>1 DEF DeliveryInv, DeliveredIsTaken
<1>2. ASSUME NEW w \in Workers, pc'[w] # "delivered",
             \A v \in Workers \ {w} : pc'[v] = pc[v] /\ job'[v] = job[v],
             mail' = mail
      PROVE  DeliveredIsTaken'
  BY <1>1, <1>2
<1>3. ASSUME NEW w \in Workers, NEW delivered, Leave(w, delivered), mail' = mail
      PROVE  DeliveredIsTaken'
  BY <1>0, <1>2, <1>3 DEF Leave, TypeOK
<1>4. ASSUME NEW w \in Workers, NEW amb, Fail(w, amb), mail' = mail
      PROVE  DeliveredIsTaken'
  BY <1>0, <1>2, <1>4 DEF Fail, TypeOK
<1>5. ASSUME NEW w \in Workers, Arrive(w, TRUE) \/ Arrive(w, FALSE), NEW q \in RowIds, mail[q].count > 0
      PROVE  mail'[q].count > 0
  <2>1. mail[q].count \in 0..2 /\ mail[q] \in [count : 0..2, reached : SUBSET RouteOrNone]
    BY <1>0 DEF TypeOK
  <2> QED BY <1>0, <1>5, <2>1 DEF Arrive, TypeOK
<1>6. ASSUME NEW w \in Workers, NEW n \in Notices, Prepare(w, n) PROVE DeliveredIsTaken'
  BY <1>0, <1>2, <1>6 DEF Prepare, TypeOK
<1>7. ASSUME NEW w \in Workers,
             \/ ReadStale(w) \/ ClaimPending(w) \/ Crash(w) \/ Reserve(w)
             \/ FinishFlush(w) \/ ClearBanner(w)
      PROVE  DeliveredIsTaken'
  BY <1>0, <1>2, <1>7 DEF ReadStale, ClaimPending, Crash, Reserve, FinishFlush, ClearBanner, TypeOK
<1>8. ASSUME NEW w \in Workers, AlreadyNotified(w) PROVE DeliveredIsTaken'
  BY <1>3, <1>8 DEF AlreadyNotified
<1>9. ASSUME NEW w \in Workers, BeginSend(w) \/ RenewClaim(w) PROVE DeliveredIsTaken'
  <2>1. CASE Leave(w, FALSE)
    BY <1>3, <1>9, <2>1 DEF BeginSend, RenewClaim
  <2>2. CASE ~Leave(w, FALSE)
    BY <1>0, <1>2, <1>9, <2>2 DEF BeginSend, RenewClaim, TypeOK
  <2> QED BY <2>1, <2>2
<1>10. ASSUME NEW w \in Workers, OpenRow(w) PROVE DeliveredIsTaken'
  BY <1>0, <1>2, <1>10 DEF OpenRow, TypeOK
<1>11. ASSUME NEW w \in Workers, Revalidate(w) PROVE DeliveredIsTaken'
  <2>1. CASE Leave(w, FALSE) \/ Fail(w, FALSE)
    BY <1>3, <1>4, <1>11, <2>1 DEF Revalidate
  <2>2. CASE ~(Leave(w, FALSE) \/ Fail(w, FALSE))
    BY <1>0, <1>2, <1>11, <2>2 DEF Revalidate, TypeOK
  <2> QED BY <2>1, <2>2
<1>12. ASSUME NEW w \in Workers, BeforeAttempt(w) PROVE DeliveredIsTaken'
  <2>1. CASE Leave(w, FALSE) \/ Fail(w, FALSE)
    BY <1>3, <1>4, <1>12, <2>1 DEF BeforeAttempt
  <2>2. CASE ~(Leave(w, FALSE) \/ Fail(w, FALSE))
    BY <1>0, <1>2, <1>12, <2>2 DEF BeforeAttempt, TypeOK
  <2> QED BY <2>1, <2>2
<1>13. ASSUME NEW w \in Workers, AttemptFault(w) \/ ChainExhausted(w) PROVE DeliveredIsTaken'
  BY <1>4, <1>13 DEF AttemptFault, ChainExhausted
<1>14. ASSUME NEW w \in Workers, Reject(w) \/ Timeout(w) PROVE DeliveredIsTaken'
  <2>1. Arrive(w, TRUE) \/ Arrive(w, FALSE)
    BY <1>14 DEF Reject, Timeout
  <2>2. \A v \in Workers : pc'[v] = "delivered" => pc[v] = "delivered" /\ job'[v].row = job[v].row
    BY <1>0, <1>14 DEF Reject, Timeout, TypeOK
  <2> QED BY <1>1, <1>5, <2>1, <2>2
<1>15. ASSUME NEW w \in Workers, Accept(w) PROVE DeliveredIsTaken'
  <2>1. \A q \in RowIds : mail[q].count > 0 => mail'[q].count > 0
    BY <1>5, <1>15 DEF Accept
  <2>2. job' = job /\ \A v \in Workers \ {w} : pc'[v] = pc[v]
    BY <1>15 DEF Accept, TypeOK
  <2>3. job[w].row \in RowIds => mail'[job[w].row].count > 0
    BY <1>0, <1>15 DEF Accept, Arrive, TypeOK
  <2> QED BY <2>1, <2>2, <2>3 DEF DeliveryInv, DeliveredIsTaken
<1>16. ASSUME NEW w \in Workers, FinalizeSent(w) \/ FinalizeFailed(w) PROVE DeliveredIsTaken'
  <2>1. mail' = mail /\ \E delivered : Leave(w, delivered)
    BY <1>16 DEF FinalizeSent, FinalizeFailed
  <2> QED BY <1>3, <2>1
<1>17. CASE Environment
  BY <1>1, <1>17 DEF Environment, LeaseExpires, BecomesDue, SwitchTestMode, EditRecipients,
                     Requeue
<1>18. CASE UNCHANGED vars
  BY <1>1, <1>18 DEF vars
<1> QED BY <1>6, <1>7, <1>8, <1>9, <1>10, <1>11, <1>12, <1>13, <1>14, <1>15, <1>16, <1>17, <1>18
        DEF Next, WorkerStep, Progress, Deliver

LEMMA InitDelivery == Init => DeliveryInv /\ D!DeliveryInit
<1> SUFFICES ASSUME Init PROVE DeliveryInv /\ D!DeliveryInit
  OBVIOUS
<1>1. DeliveredIsTaken
  BY DEF Init, DeliveredIsTaken
<1>2. ASSUME NEW r \in RowIds
      PROVE  LetterOf(r) = [state |-> "none", accepted |-> FALSE, doubt |-> FALSE]
  <2>1. /\ rows[r].status = "absent" /\ rows[r].flag = FALSE
        /\ (mail[r].count > 0) = FALSE
    BY <1>2 DEF Init, AbsentRow
  <2> QED BY <2>1, StateFacts DEF LetterOf
<1>3. D!DeliveryInit
  BY <1>2 DEF D!DeliveryInit
<1> QED BY <1>1, <1>3, InitClaimInv DEF DeliveryInv

LEMMA NextPromised == DeliveryInv /\ [Next]_vars => Promised
<1> SUFFICES ASSUME DeliveryInv, [Next]_vars PROVE Promised
  OBVIOUS
<1>1. CASE UNCHANGED vars
  BY <1>1, SameLetters DEF vars, Promised
<1> QED BY <1>1, LiveStep, FlushStep, DeliverStep, EnvironmentStep
        DEF Next, WorkerStep, Progress

\* The outbox implements Delivery: whatever crashes, is lost, late or edited, a
\* notification is called sent only when a provider took it, and a settled one is
\* reopened or mailed again only when it is marked as a possible duplicate.
THEOREM OutboxDelivers == Spec => KeepsItsPromise
<1>1. DeliveryInv /\ [Next]_vars => DeliveryInv'
  BY NextClaimInv, NextDelivered DEF DeliveryInv
<1>2. DeliveryInv /\ [Next]_vars => [D!DeliveryNext]_Letters
  BY NextPromised DEF Promised
<1>3. Letters = [r \in RowIds |-> LetterOf(r)]
  BY DEF Letters
<1> QED BY <1>1, <1>2, InitDelivery, PTL DEF Spec, KeepsItsPromise, D!DeliverySpec, Letters
=============================================================================
