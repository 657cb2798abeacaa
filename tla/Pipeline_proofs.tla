--------------------------- MODULE Pipeline_proofs ---------------------------
(* What holds of the pipeline for every number of processes and tenders. *)
EXTENDS Pipeline, FiniteSetTheorems, TLAPS

-----------------------------------------------------------------------------
(* Type correctness *)

LEMMA NoRunType == NoRun \in Run /\ ReadOf(NoRow) \in Read /\ NoRow \in Row
<1>1. NoRow \in Row /\ ReadOf(NoRow) \in Read
  BY PipelineConstants DEF NoRow, Row, Read, ReadOf, Statuses
<1>2. 1 \in Tenders
  BY PipelineConstants DEF Tenders
<1>3. 0 \in 0..MaxVersion /\ [t \in Tenders |-> 0] \in [Tenders -> 0..MaxVersion]
  BY PipelineConstants
<1>4. NoRun \in Run
  BY <1>1, <1>2, <1>3 DEF NoRun, Run, Stages
<1> QED BY <1>1, <1>4

LEMMA SpendType ==
  ASSUME NEW kind, Spend(kind), budget \in 0..MaxAdverse
  PROVE  budget' \in 0..MaxAdverse
BY PipelineConstants DEF Spend

\* Giving one process another run leaves the runs of the others.
LEMMA GoesType ==
  ASSUME TypeOK, NEW p \in Processes, NEW r \in Run, Goes(p, r)
  PROVE  /\ run' \in [Processes -> Run]
         /\ run'[p] = r
         /\ \A q \in Processes : q # p => run'[q] = run[q]
BY DEF Goes, TypeOK

\* The parts of a run that the stages change.
LEMMA RunUpdates ==
  ASSUME NEW r \in Run
  PROVE  /\ \A s \in Stages, T \in SUBSET Tenders, U \in SUBSET Tenders,
               V \in SUBSET Tenders :
              [r EXCEPT !.stage = s, !.todo = T, !.passed = U, !.unavailable = V] \in Run
         /\ \A s \in Stages, x \in BOOLEAN, y \in BOOLEAN :
              [r EXCEPT !.stage = s, !.failed = x, !.broken = y] \in Run
BY DEF Run

LEMMA RowUpdates ==
  ASSUME NEW row \in Row
  PROVE  /\ \A d \in {"passed", "triage_discarded", "failed"} :
              [row EXCEPT !.triage = d] \in Row
         /\ \A s \in Statuses : [row EXCEPT !.status = s] \in Row
         /\ \A s \in Statuses, v \in 0..MaxVersion :
              [row EXCEPT !.status = s, !.verdict = @ + 1, !.assessed = v] \in Row
<1>1. ASSUME NEW d \in {"passed", "triage_discarded", "failed"}
      PROVE  [row EXCEPT !.triage = d] \in Row
  BY DEF Row
<1>2. ASSUME NEW s \in Statuses
      PROVE  [row EXCEPT !.status = s] \in Row
  BY DEF Row
<1>3. ASSUME NEW s \in Statuses, NEW v \in 0..MaxVersion
      PROVE  [row EXCEPT !.status = s, !.verdict = @ + 1, !.assessed = v] \in Row
  <2>1. row.verdict + 1 \in Nat
    BY DEF Row
  <2> QED BY <2>1 DEF Row
<1> QED BY <1>1, <1>2, <1>3

LEMMA InitTypeOK == Init => TypeOK
BY NoRunType, PipelineConstants DEF Init, TypeOK

\* A dedup transaction writes well-formed rows.
LEMMA DedupRows ==
  ASSUME TypeOK, NEW p \in Processes, Dedup(p)
  PROVE  /\ tender' \in [Tenders -> Row]
         /\ \A t \in Tenders : tender[t].status # "none" => tender'[t].status # "none"
         /\ \A t \in Created(p) : tender[t].status = "none" /\ tender'[t].status # "none"
         /\ run'[p] \in Run /\ run'[p].new = Created(p) /\ run'[p].stage = "select"
         /\ run'[p].manual = run[p].manual
         /\ run' \in [Processes -> Run]
         /\ \A q \in Processes : q # p => run'[q] = run[q]
<1> DEFINE n == Cardinality({u \in Tenders : tender[u].status # "none"})
<1>1. n \in Nat
  <2>1. IsFiniteSet(Tenders)
    BY FS_Interval, PipelineConstants DEF Tenders
  <2>2. IsFiniteSet({u \in Tenders : tender[u].status # "none"})
    BY <2>1, FS_Subset
  <2> QED BY <2>2, FS_CardinalityType
<1> DEFINE fresh(t) == [NoRow EXCEPT !.status = "new", !.version = run[p].found[t],
                                     !.born = n]
<1>2. tender' = [t \in Tenders |-> IF t \in Created(p) THEN fresh(t)
                                   ELSE IF t \in Changed(p) THEN Updated(p, t)
                                   ELSE tender[t]]
  BY DEF Dedup
<1>3. ASSUME NEW t \in Tenders
      PROVE  /\ fresh(t) \in Row /\ fresh(t).status = "new"
             /\ Updated(p, t) \in Row /\ Updated(p, t).status \in {tender[t].status, "updated"}
  <2>1. run[p].found[t] \in 0..MaxVersion
    BY DEF TypeOK, Run
  <2>2. fresh(t) \in Row /\ fresh(t).status = "new"
    <3> HIDE DEF n
    <3> QED BY <1>1, <2>1, NoRunType DEF NoRow, Row, Statuses
  <2>3. tender[t] \in Row
    BY DEF TypeOK
  <2>4. Updated(p, t) \in Row /\ Updated(p, t).status \in {tender[t].status, "updated"}
    BY <2>1, <2>3 DEF Updated, Row, Statuses
  <2> QED BY <2>2, <2>4
<1>4. tender' \in [Tenders -> Row]
  <2> HIDE DEF fresh
  <2> QED BY <1>2, <1>3 DEF TypeOK
<1>5. \A t \in Created(p) : t \in Tenders /\ tender[t].status = "none"
  BY DEF Created, Listed
<1>6. \A t \in Tenders : tender[t].status # "none" => tender'[t].status # "none"
  <2> HIDE DEF fresh
  <2> QED BY <1>2, <1>3
<1>7. \A t \in Created(p) : tender'[t].status # "none"
  <2> HIDE DEF fresh
  <2> QED BY <1>2, <1>3, <1>5
<1> DEFINE found == [t \in Tenders |-> IF t \in Created(p) \cup Changed(p)
                                       THEN run[p].found[t] ELSE 0]
           r == [run[p] EXCEPT !.stage = "select", !.new = Created(p),
                               !.updates = Changed(p), !.found = found,
                               !.seen = NoRun.seen]
<1>8. run' = [run EXCEPT ![p] = r]
  BY DEF Dedup, Goes
<1>9. Created(p) \in SUBSET Tenders /\ Changed(p) \in SUBSET Tenders
  BY DEF Created, Changed, Listed
<1>10. found \in [Tenders -> 0..MaxVersion]
  BY PipelineConstants DEF TypeOK, Run
<1>11. NoRun.seen \in [Tenders -> Read]
  BY NoRunType DEF Run
<1>12. /\ r \in Run /\ r.new = Created(p) /\ r.stage = "select"
       /\ r.manual = run[p].manual
  <2> HIDE DEF found
  <2>1. run[p] \in Run
    BY DEF TypeOK
  <2> QED BY <2>1, <1>9, <1>10, <1>11 DEF Run, Stages
<1>13. /\ run' \in [Processes -> Run] /\ run'[p] = r
       /\ \A q \in Processes : q # p => run'[q] = run[q]
  <2> HIDE DEF r
  <2> QED BY <1>8, <1>12 DEF TypeOK
<1> QED
  <2> HIDE DEF r
  <2> QED BY <1>4, <1>5, <1>6, <1>7, <1>12, <1>13

\* Every action keeps the types.
LEMMA NextTypeOK == TypeOK /\ [Next]_vars => TypeOK'
<1> SUFFICES ASSUME TypeOK, [Next]_vars PROVE TypeOK'
  OBVIOUS
<1>0. /\ \A p \in Processes : run[p] \in Run
      /\ \A t \in Tenders : tender[t] \in Row
      /\ site \in [Tenders -> 0..MaxVersion]
  BY DEF TypeOK
<1>1. ASSUME NEW p \in Processes, StartRun(p)
      PROVE  TypeOK'
  <2> DEFINE r == [NoRun EXCEPT !.stage = "discovery", !.found = site]
  <2>1. r \in Run
    BY <1>0, NoRunType DEF Run, Stages
  <2>2. Goes(p, r)
    BY <1>0, <1>1 DEF StartRun
  <2> HIDE DEF r
  <2>3. run' \in [Processes -> Run]
    BY <2>1, <2>2 DEF Goes, TypeOK
  <2> QED BY <1>1, <2>3 DEF StartRun, TypeOK
<1>2. ASSUME NEW p \in Processes, FailStage(p)
      PROVE  TypeOK'
  <2> DEFINE r == [run[p] EXCEPT !.stage = "finish", !.failed = TRUE]
  <2>1. r \in Run
    BY ZenonT(60), <1>0 DEF Run, Stages
  <2>2. Goes(p, r)
    BY <1>2 DEF FailStage
  <2> HIDE DEF r
  <2>3. run' \in [Processes -> Run]
    BY <2>1, <2>2 DEF Goes, TypeOK
  <2> QED BY <1>2, <2>3, SpendType DEF FailStage, TypeOK
<1>2a. ASSUME NEW p \in Processes, ReadDetails(p)
       PROVE  TypeOK'
  <2> DEFINE r == [run[p] EXCEPT !.stage = "triage"]
  <2>1. r \in Run
    BY ZenonT(60), <1>0 DEF Run, Stages
  <2>2. Goes(p, r)
    BY <1>2a DEF ReadDetails
  <2> HIDE DEF r
  <2>3. run' \in [Processes -> Run]
    BY <2>1, <2>2 DEF Goes, TypeOK
  <2> QED BY <1>2a, <2>3 DEF ReadDetails, TypeOK
<1>3. ASSUME NEW p \in Processes, LoadSeen(p)
      PROVE  TypeOK'
  <2> DEFINE r == [run[p] EXCEPT !.stage = "dedup",
                                 !.seen = [t \in Tenders |-> ReadOf(tender[t])]]
  <2>1. [t \in Tenders |-> ReadOf(tender[t])] \in [Tenders -> Read]
    BY <1>0 DEF Row, Read, ReadOf
  <2>2. r \in Run
    BY ZenonT(60), <1>0, <2>1 DEF Run, Stages
  <2>3. Goes(p, r)
    BY <1>3 DEF LoadSeen
  <2> HIDE DEF r
  <2>4. run' \in [Processes -> Run]
    BY <2>2, <2>3 DEF Goes, TypeOK
  <2> QED BY <1>3, <2>4 DEF LoadSeen, TypeOK
<1>4. ASSUME NEW p \in Processes, Dedup(p)
      PROVE  TypeOK'
  BY <1>4, DedupRows DEF Dedup, TypeOK
<1>5. ASSUME NEW p \in Processes, Select(p)
      PROVE  TypeOK'
  <2> DEFINE work == run[p].new \cup run[p].updates \cup Recovered
             r == IF work = {} THEN [run[p] EXCEPT !.stage = "finish"]
                  ELSE [run[p] EXCEPT !.stage = "detail", !.todo = work]
  <2>1. work \in SUBSET Tenders
    BY <1>0 DEF Run, Recovered, Unprocessed
  <2>2. r \in Run
    <3> HIDE DEF work
    <3>1. run[p] \in Run
      BY <1>0
    <3>2. [run[p] EXCEPT !.stage = "finish"] \in Run
      BY <3>1 DEF Run, Stages
    <3>3. [run[p] EXCEPT !.stage = "detail", !.todo = work] \in Run
      BY <2>1, <3>1 DEF Run, Stages
    <3> QED BY <3>2, <3>3
  <2>3. Goes(p, r)
    BY <1>5 DEF Select
  <2> HIDE DEF r
  <2>4. run' \in [Processes -> Run]
    BY <2>2, <2>3 DEF Goes, TypeOK
  <2> QED BY <1>5, <2>4 DEF Select, TypeOK
<1>6. ASSUME NEW p \in Processes, BreakRun(p)
      PROVE  TypeOK'
  <2> DEFINE r == [run[p] EXCEPT !.stage = "finish", !.broken = TRUE]
  <2>1. r \in Run
    BY ZenonT(60), <1>0 DEF Run, Stages
  <2>2. Goes(p, r)
    BY <1>0, <1>6 DEF BreakRun
  <2> HIDE DEF r
  <2>3. run' \in [Processes -> Run]
    BY <2>1, <2>2 DEF Goes, TypeOK
  <2> QED BY <1>6, <2>3, SpendType DEF BreakRun, TypeOK
<1>7. ASSUME NEW p \in Processes, NEW t \in Tenders, StartManual(p, t)
      PROVE  TypeOK'
  <2> DEFINE r == [NoRun EXCEPT !.stage = "detail", !.manual = TRUE, !.todo = {t},
                                !.updates = IF tender[t].is_update THEN {t} ELSE {}]
  <2>1. r \in Run
    BY <1>0, NoRunType DEF Run, Stages
  <2>2. Goes(p, r)
    BY <1>7 DEF StartManual
  <2> HIDE DEF r
  <2>3. run' \in [Processes -> Run]
    BY <2>1, <2>2 DEF Goes, TypeOK
  <2> QED BY <1>7, <2>3, SpendType DEF StartManual, TypeOK
<1>8. ASSUME NEW p \in Processes, Triage(p)
      PROVE  TypeOK'
  <2>1. PICK t \in run[p].todo, d \in {"passed", "triage_discarded", "failed"} :
          /\ tender' = [tender EXCEPT ![t].triage = d]
          /\ Goes(p, [run[p] EXCEPT !.todo = @ \ {t},
                        !.passed = IF d = "passed" THEN @ \cup {t} ELSE @])
          /\ Spend("triage") \/ budget' = budget
    BY <1>8 DEF Triage
  <2>2. t \in Tenders
    BY <1>0 DEF Run
  <2> DEFINE r == [run[p] EXCEPT !.todo = @ \ {t},
                     !.passed = IF d = "passed" THEN @ \cup {t} ELSE @]
  <2>3. r \in Run
    BY ZenonT(60), <1>0, <2>2 DEF Run
  <2>4. Goes(p, r)
    BY <2>1
  <2> HIDE DEF r
  <2>5. run' \in [Processes -> Run]
    BY <2>3, <2>4 DEF Goes, TypeOK
  <2>6. tender' \in [Tenders -> Row]
    BY <2>1, <2>2, <1>0, RowUpdates DEF TypeOK
  <2>7. budget' \in 0..MaxAdverse
    BY <2>1, SpendType DEF TypeOK
  <2> QED BY <1>8, <2>5, <2>6, <2>7 DEF Triage, TypeOK
<1>9. ASSUME NEW p \in Processes, NextStage(p)
      PROVE  TypeOK'
  <2>1. PICK r :
          /\ Goes(p, r)
          /\ \/ r = [run[p] EXCEPT !.stage = "verdict", !.todo = run[p].passed,
                                    !.passed = {}]
             \/ r = [run[p] EXCEPT !.stage = "notification",
                       !.todo = {t \in Tenders : run[p].available[t] > 0}
                                \cup run[p].unavailable]
             \/ r = [run[p] EXCEPT !.stage = "finish"]
    BY <1>9 DEF NextStage
  <2>2. r \in Run
    <3> DEFINE reached == {t \in Tenders : run[p].available[t] > 0}
                          \cup run[p].unavailable
    <3>1. run[p] \in Run
      BY <1>0
    <3>2. reached \in SUBSET Tenders
      BY <3>1 DEF Run
    <3> HIDE DEF reached
    <3>3. CASE r = [run[p] EXCEPT !.stage = "verdict", !.todo = run[p].passed, !.passed = {}]
      BY <3>1, <3>3 DEF Run, Stages
    <3>4. CASE r = [run[p] EXCEPT !.stage = "notification", !.todo = reached]
      BY <3>1, <3>2, <3>4 DEF Run, Stages
    <3>5. CASE r = [run[p] EXCEPT !.stage = "finish"]
      BY <3>1, <3>5 DEF Run, Stages
    <3> QED BY <2>1, <3>3, <3>4, <3>5 DEF reached
  <2>3. run' \in [Processes -> Run]
    BY <2>1, <2>2 DEF Goes, TypeOK
  <2> QED BY <1>9, <2>3 DEF NextStage, TypeOK
<1>10. ASSUME NEW p \in Processes, BeginVerdict(p)
       PROVE  TypeOK'
  <2> DEFINE Begun(t, r) ==
          /\ Goes(p, r)
          /\ \/ r = [[run[p] EXCEPT !.todo = @ \ {t}] EXCEPT !.stage = "thinking",
                       !.at = t, !.seen[t] = ReadOf(tender[t])]
             \/ r = [[run[p] EXCEPT !.todo = @ \ {t}] EXCEPT
                       !.unavailable = @ \cup {t}]
  <2>0. PICK t \in run[p].todo : \E r : Begun(t, r)
    BY <1>10 DEF BeginVerdict
  <2>1. PICK r : Begun(t, r)
    BY <2>0
  <2>2. t \in Tenders
    BY <1>0 DEF Run
  <2>3. ReadOf(tender[t]) \in Read
    BY <1>0, <2>2 DEF Row, Read, ReadOf
  <2>4. r \in Run
    <3> DEFINE s == [run[p].seen EXCEPT ![t] = ReadOf(tender[t])]
    <3>1. run[p] \in Run
      BY <1>0
    <3>2. s \in [Tenders -> Read]
      BY <2>2, <2>3, <3>1 DEF Run
    <3>3. \/ r = [run[p] EXCEPT !.todo = @ \ {t}, !.stage = "thinking", !.at = t,
                               !.seen = s]
          \/ r = [run[p] EXCEPT !.todo = @ \ {t}, !.unavailable = @ \cup {t}]
      BY <2>1, <3>1 DEF Run
    <3> HIDE DEF s
    <3>4. CASE r = [run[p] EXCEPT !.todo = @ \ {t}, !.stage = "thinking", !.at = t,
                                 !.seen = s]
      BY <2>2, <3>1, <3>2, <3>4 DEF Run, Stages
    <3>5. CASE r = [run[p] EXCEPT !.todo = @ \ {t}, !.unavailable = @ \cup {t}]
      BY <2>2, <3>1, <3>5 DEF Run
    <3> QED BY <3>3, <3>4, <3>5
  <2>5. run' \in [Processes -> Run]
    BY <2>1, <2>4 DEF Goes, TypeOK
  <2> QED BY <1>10, <2>5 DEF BeginVerdict, TypeOK
<1>11. ASSUME NEW p \in Processes, VerdictAvailable(p)
       PROVE  TypeOK'
  <2> DEFINE t == run[p].at
  <2>1. /\ t \in Tenders /\ tender[t] \in Row /\ run[p].seen[t].version \in 0..MaxVersion
        /\ run[p].available \in [Tenders -> Nat]
    BY <1>0 DEF Run, Read
  <2>2. Set(p, "processed") \in Statuses
    BY <1>0, <2>1 DEF Set, Row, Statuses
  <2>3. tender' \in [Tenders -> Row]
    <3> DEFINE row == [tender[t] EXCEPT !.status = Set(p, "processed"),
                         !.verdict = @ + 1, !.assessed = run[p].seen[t].version]
    <3>1. row \in Row
      BY <2>1, <2>2, RowUpdates
    <3>2. tender' = [tender EXCEPT ![t] = row]
      BY <1>11 DEF VerdictAvailable
    <3> HIDE DEF row
    <3> QED BY <2>1, <3>1, <3>2 DEF TypeOK
  <2>4. PICK r : /\ Goes(p, r)
                 /\ r = [run[p] EXCEPT !.stage = "verdict",
                           !.available[t] = tender[t].verdict + 1,
                           !.seen = NoRun.seen, !.at = 1]
    BY <1>11 DEF VerdictAvailable
  <2>5. tender[t].verdict + 1 \in Nat /\ NoRun.seen \in [Tenders -> Read] /\ 1 \in Tenders
    <3>1. tender[t].verdict + 1 \in Nat
      BY <2>1 DEF Row
    <3>2. NoRun.seen \in [Tenders -> Read]
      BY NoRunType DEF Run
    <3> QED BY <3>1, <3>2, PipelineConstants DEF Tenders
  <2>6. r \in Run
    <3> DEFINE n == tender[t].verdict + 1
               a == [run[p].available EXCEPT ![t] = n]
    <3>1. a \in [Tenders -> Nat]
      BY <2>1, <2>5
    <3>2. r = [run[p] EXCEPT !.stage = "verdict", !.available = a,
                             !.seen = NoRun.seen, !.at = 1]
      BY <2>4, <1>0 DEF Run
    <3>3. run[p] \in Run
      BY <1>0
    <3> HIDE DEF a
    <3> QED BY <2>5, <3>1, <3>2, <3>3 DEF Run, Stages
  <2>7. run' \in [Processes -> Run]
    BY <2>4, <2>6 DEF Goes, TypeOK
  <2> QED BY <1>11, <2>3, <2>7 DEF VerdictAvailable, TypeOK
<1>12. ASSUME NEW p \in Processes, VerdictUnavailable(p)
       PROVE  TypeOK'
  <2> DEFINE t == run[p].at
  <2>1. t \in Tenders /\ tender[t] \in Row /\ tender[t].status \in Statuses
    BY <1>0 DEF Run, Row
  <2>2. PICK status \in {"verdict_failed", "awaiting_budget",
                         "awaiting_approved_provider", tender[t].status} :
          tender' = [tender EXCEPT ![t].status = Set(p, status)]
    BY <1>12 DEF VerdictUnavailable
  <2>3. Set(p, status) \in Statuses
    BY <2>1, <2>2 DEF Set, Statuses
  <2>4. tender' \in [Tenders -> Row]
    BY <2>1, <2>2, <2>3, <1>0, RowUpdates DEF TypeOK
  <2>5. PICK r : /\ Goes(p, r)
                 /\ r = [run[p] EXCEPT !.stage = "verdict",
                           !.unavailable = @ \cup {t}, !.seen = NoRun.seen, !.at = 1]
    BY <1>12 DEF VerdictUnavailable
  <2>6. NoRun.seen \in [Tenders -> Read] /\ 1 \in Tenders
    BY <1>0, NoRunType, PipelineConstants DEF Run, Tenders
  <2>7. r \in Run
    <3>1. run[p] \in Run /\ t \in Tenders
      BY <1>0, <2>1
    <3> HIDE DEF t
    <3>2. [run[p] EXCEPT !.stage = "verdict", !.unavailable = @ \cup {t},
                         !.seen = NoRun.seen, !.at = 1] \in Run
      BY ZenonT(60), <2>6, <3>1 DEF Run, Stages
    <3> QED BY <2>5, <3>2
  <2>8. run' \in [Processes -> Run]
    BY <2>5, <2>7 DEF Goes, TypeOK
  <2> QED BY <1>12, <2>4, <2>8, SpendType DEF VerdictUnavailable, TypeOK
<1>13. ASSUME NEW p \in Processes, Notify(p) \/ LoseMail(p)
       PROVE  TypeOK'
  <2>1. PICK t \in run[p].todo :
          /\ Goes(p, [run[p] EXCEPT !.todo = @ \ {t}])
          /\ \/ outbox' = outbox
             \/ outbox' = outbox \cup Notices(p, t)
             \/ outbox' = outbox \cup Mails(p, t)
          /\ budget' = budget \/ Spend("mail")
          /\ UNCHANGED <<site, overdue, tender, report>>
    BY <1>13 DEF Notify, LoseMail
  <2>2. t \in Tenders
    BY <1>0 DEF Run
  <2> DEFINE r == [run[p] EXCEPT !.todo = @ \ {t}]
  <2>3. r \in Run
    BY <1>0 DEF Run
  <2>4. Goes(p, r)
    BY <2>1
  <2> HIDE DEF r
  <2>5. run' \in [Processes -> Run]
    BY <2>3, <2>4 DEF Goes, TypeOK
  <2>6. Notices(p, t) \subseteq Message /\ Mails(p, t) \subseteq Message
    <3>1. Notices(p, t) \subseteq Message
      <4>1. [tender |-> t, verdict |-> 0, kind |-> "raw", manual |-> FALSE,
             version |-> 0] \in Message
        BY <2>2, PipelineConstants DEF Message
      <4> QED BY <4>1 DEF Notices
    <3>2. /\ run[p].available[t] \in Nat /\ run[p].found[t] \in 0..MaxVersion
          /\ run[p].manual \in BOOLEAN
      BY <1>0, <2>2 DEF Run
    <3>3. Mails(p, t) \subseteq Message
      BY <2>2, <3>2 DEF Mails, Message
    <3> QED BY <3>1, <3>3
  <2>7. outbox' \in SUBSET Message
    BY <2>1, <2>6 DEF TypeOK
  <2>8. budget' \in 0..MaxAdverse
    BY <2>1, SpendType DEF TypeOK
  <2> QED BY <2>1, <2>5, <2>7, <2>8 DEF TypeOK
<1>14. ASSUME NEW p \in Processes, Finish(p) \/ Crash(p)
       PROVE  TypeOK'
  <2>1. Goes(p, NoRun)
    BY <1>14 DEF Finish, Crash
  <2>2. run' \in [Processes -> Run]
    BY <2>1, NoRunType DEF Goes, TypeOK
  <2>3. budget' \in 0..MaxAdverse
    BY <1>14, SpendType DEF TypeOK, Finish, Crash
  <2> QED BY <1>14, <2>2, <2>3 DEF Finish, Crash, TypeOK
<1>15. ASSUME NEW t \in Tenders, Publish(t)
       PROVE  TypeOK'
  <2>1. site[t] + 1 \in 0..MaxVersion
    BY <1>15, <1>0, PipelineConstants DEF Publish
  <2> QED BY <1>15, <2>1 DEF Publish, TypeOK
<1>16. ASSUME NEW t \in Tenders, Expire(t)
       PROVE  TypeOK'
  BY <1>16, SpendType DEF Expire, TypeOK
<1>17. ASSUME UNCHANGED vars
       PROVE  TypeOK'
  BY <1>17 DEF vars, TypeOK
<1> QED
  BY <1>1, <1>2, <1>2a, <1>3, <1>4, <1>5, <1>6, <1>7, <1>8, <1>9, <1>10, <1>11,
     <1>12, <1>13, <1>14, <1>15, <1>16, <1>17 DEF Next, Pass

\* Every reachable state of the pipeline is well typed.
THEOREM TypeCorrect == Spec => []TypeOK
<1> QED BY InitTypeOK, NextTypeOK, PTL DEF Spec

-----------------------------------------------------------------------------
(* A tender is mailed as new once.                                         *)
(*                                                                         *)
(* Only the run that inserted a tender holds it as new, and only until it  *)
(* has mailed it.  A second run cannot hold it: the insert is refused once *)
(* the row is there, and no action takes the row away.                     *)

\* the mails that announce a new tender, sent by the crawls
Announcements == {m \in outbox : m.kind = "new" /\ ~m.manual}

\* run r has gone past the mail of tender t
Past(r, t) == r.stage \in {"notification", "finish"} /\ t \notin r.todo

\* what a run holds as new has a row
NewIsStored == \A p \in Processes : \A t \in run[p].new : tender[t].status # "none"
\* and no other run holds it
NewIsOwned == \A p, q \in Processes : \A t \in run[p].new \cap run[q].new : p = q
\* it comes from the run's own dedup, which a manual run does not make
NewComesFromDedup ==
  \A p \in Processes :
    /\ run[p].manual \/ run[p].stage \in {"idle", "discovery", "dedup"} => run[p].new = {}
    /\ run[p].stage \in {"discovery", "dedup"} => ~run[p].manual
\* a tender that has been announced is not announced again by the run that holds it
AnnouncedIsPast ==
  \A m \in Announcements :
    /\ tender[m.tender].status # "none"
    /\ \A p \in Processes : m.tender \in run[p].new => Past(run[p], m.tender)

\* the inductive invariant
NewInv == /\ TypeOK /\ NewIsStored /\ NewIsOwned /\ NewComesFromDedup
          /\ AnnouncedIsPast /\ NewMailedOnce

LEMMA InitNewInv == Init => NewInv
<1> SUFFICES ASSUME Init PROVE NewInv
  OBVIOUS
<1>1. TypeOK
  BY InitTypeOK
<1>2. \A p \in Processes : run[p].new = {}
  BY DEF Init, NoRun
<1>3. outbox = {}
  BY DEF Init
<1>4. \A p \in Processes : run[p].stage = "idle" /\ ~run[p].manual
  BY DEF Init, NoRun
<1>5. NewIsStored /\ NewIsOwned
  BY <1>2 DEF NewIsStored, NewIsOwned
<1>6. NewComesFromDedup
  BY <1>2, <1>4 DEF NewComesFromDedup
<1>7. AnnouncedIsPast /\ NewMailedOnce
  BY <1>3 DEF AnnouncedIsPast, Announcements, NewMailedOnce
<1> QED BY <1>1, <1>5, <1>6, <1>7 DEF NewInv

\* No action takes a row away.
RowsStay == \A t \in Tenders : tender[t].status # "none" => tender'[t].status # "none"
\* The run of p stays past what it was past.
StaysPast(p) ==
  \/ /\ run'[p].new = {}
     /\ run'[p].stage \in {"discovery", "dedup"} => ~run'[p].manual
  \/ /\ run'[p].new = run[p].new /\ run'[p].manual = run[p].manual
     /\ run'[p].stage \notin {"idle", "discovery", "dedup"}
     /\ run[p].stage \in {"notification", "finish"}
        => run'[p].stage \in {"notification", "finish"} /\ run'[p].todo \subseteq run[p].todo

\* A step that announces nothing and gives no run a new tender keeps the invariant.
LEMMA QuietStep ==
  ASSUME NewInv, TypeOK', RowsStay, NEW p \in Processes, StaysPast(p),
         \A q \in Processes : q # p => run'[q] = run[q],
         Announcements' \subseteq Announcements
  PROVE  NewInv'
<1>1. \A q \in Processes : run'[q].new \subseteq run[q].new
  BY DEF StaysPast
<1>2. \A q \in Processes : run[q].new \subseteq Tenders
  BY DEF NewInv, TypeOK, Run
<1>3. NewIsStored'
  BY <1>1, <1>2 DEF NewInv, NewIsStored, RowsStay
<1>4. NewIsOwned'
  BY <1>1 DEF NewInv, NewIsOwned
<1>5. NewComesFromDedup'
  BY DEF NewInv, NewComesFromDedup, StaysPast
<1>6. AnnouncedIsPast'
  <2> SUFFICES ASSUME NEW m \in Announcements'
               PROVE  /\ tender'[m.tender].status # "none"
                      /\ \A q \in Processes : m.tender \in run'[q].new
                                              => Past(run'[q], m.tender)
    BY DEF AnnouncedIsPast
  <2>1. m \in Announcements /\ m.tender \in Tenders
    BY DEF NewInv, TypeOK, Announcements, Message
  <2>2. /\ tender[m.tender].status # "none"
        /\ \A q \in Processes : m.tender \in run[q].new => Past(run[q], m.tender)
    BY <2>1 DEF NewInv, AnnouncedIsPast
  <2>3. ASSUME NEW q \in Processes, m.tender \in run'[q].new
        PROVE  Past(run'[q], m.tender)
    <3>1. Past(run[q], m.tender)
      BY <1>1, <2>2, <2>3
    <3> QED BY <2>3, <3>1 DEF Past, StaysPast
  <2> QED BY <2>1, <2>2, <2>3 DEF RowsStay
<1>7. NewMailedOnce'
  BY DEF NewInv, NewMailedOnce, Announcements
<1> QED BY <1>3, <1>4, <1>5, <1>6, <1>7 DEF NewInv

\* The dedup transaction gives its run only tenders no run has held.
LEMMA DedupKeepsNewInv ==
  ASSUME NewInv, TypeOK', NEW p \in Processes, Dedup(p)
  PROVE  NewInv'
<1>1. TypeOK /\ outbox' = outbox
  BY DEF NewInv, Dedup
<1>2. RowsStay
  BY <1>1, DedupRows DEF RowsStay
<1>3. \A t \in Created(p) : tender[t].status = "none" /\ tender'[t].status # "none"
  BY <1>1, DedupRows
<1>4. /\ run'[p].new = Created(p) /\ run'[p].stage = "select"
      /\ run'[p].manual = run[p].manual
      /\ \A q \in Processes : q # p => run'[q] = run[q]
  BY <1>1, DedupRows
<1>5. Created(p) \subseteq Tenders
  BY DEF Created, Listed
<1>6. \A q \in Processes : \A t \in run[q].new : t \in Tenders /\ tender[t].status # "none"
  BY <1>1 DEF NewInv, NewIsStored, TypeOK, Run
<1>7. NewIsStored'
  BY <1>2, <1>3, <1>4, <1>6 DEF NewIsStored, RowsStay
<1>8. NewIsOwned'
  BY <1>3, <1>4, <1>6 DEF NewInv, NewIsOwned
<1>9. NewComesFromDedup'
  <2>1. ~run[p].manual
    BY DEF NewInv, NewComesFromDedup, Dedup
  <2> QED BY <1>4, <2>1 DEF NewInv, NewComesFromDedup
<1>10. AnnouncedIsPast'
  <2> SUFFICES ASSUME NEW m \in Announcements
               PROVE  /\ tender'[m.tender].status # "none"
                      /\ \A q \in Processes : m.tender \in run'[q].new
                                              => Past(run'[q], m.tender)
    BY <1>1 DEF AnnouncedIsPast, Announcements
  <2>1. m.tender \in Tenders /\ tender[m.tender].status # "none"
    BY <1>1 DEF NewInv, AnnouncedIsPast, TypeOK, Announcements, Message
  <2>2. m.tender \notin run'[p].new
    BY <2>1, <1>3, <1>4
  <2>3. \A q \in Processes : q # p /\ m.tender \in run'[q].new => Past(run'[q], m.tender)
    BY <1>4 DEF NewInv, AnnouncedIsPast
  <2> QED BY <2>1, <2>2, <2>3, <1>2 DEF RowsStay
<1>11. NewMailedOnce'
  BY <1>1 DEF NewInv, NewMailedOnce
<1> QED BY <1>7, <1>8, <1>9, <1>10, <1>11 DEF NewInv

\* A run mails as new what it holds as new, and goes past it.
LEMMA NotifyKeepsNewInv ==
  ASSUME NewInv, TypeOK', NEW p \in Processes, Notify(p)
  PROVE  NewInv'
<1>1. PICK t \in run[p].todo :
        /\ run[p].stage = "notification"
        /\ outbox' \subseteq outbox \cup Notices(p, t) \cup Mails(p, t)
        /\ run' = [run EXCEPT ![p] = [run[p] EXCEPT !.todo = @ \ {t}]]
        /\ UNCHANGED <<tender, report>>
  BY DEF Notify, Goes
<1>2. t \in Tenders /\ run[p] \in Run /\ run \in [Processes -> Run]
  BY DEF NewInv, TypeOK, Run
<1>3. /\ \A q \in Processes : q # p => run'[q] = run[q]
      /\ run'[p].new = run[p].new /\ run'[p].manual = run[p].manual
      /\ run'[p].stage = "notification" /\ run'[p].todo = run[p].todo \ {t}
  BY <1>1, <1>2 DEF Run
<1>4. /\ RowsStay
      /\ StaysPast(p)
  BY <1>1, <1>3 DEF RowsStay, StaysPast
<1>5. \A m \in Announcements' \ Announcements :
        /\ t \in run[p].new /\ m.tender = t
        /\ m = [tender |-> t, verdict |-> run[p].available[t], manual |-> FALSE,
                kind |-> "new", version |-> run[p].found[t]]
  <2> SUFFICES ASSUME NEW m \in Announcements', m \notin Announcements
               PROVE  /\ t \in run[p].new /\ m.tender = t
                      /\ m = [tender |-> t, verdict |-> run[p].available[t],
                              manual |-> FALSE, kind |-> "new",
                              version |-> run[p].found[t]]
    OBVIOUS
  <2>1. m.kind = "new" /\ ~m.manual /\ (m \in Notices(p, t) \/ m \in Mails(p, t))
    BY <1>1 DEF Announcements
  <2>2. m \notin Notices(p, t)
    BY <2>1 DEF Notices
  <2>3. /\ Known(p, t)
        /\ m = [tender |-> t, verdict |-> run[p].available[t], manual |-> run[p].manual,
                kind |-> IF t \in run[p].updates THEN "update" ELSE "new",
                version |-> run[p].found[t]]
    BY <2>1, <2>2 DEF Mails
  <2>4. run[p].manual = FALSE /\ t \notin run[p].updates
    BY <2>1, <2>3, <1>2 DEF Run
  <2> QED BY <2>3, <2>4 DEF Known
<1>6. CASE Announcements' \subseteq Announcements
  BY <1>3, <1>4, <1>6, QuietStep
<1>7. CASE ~(Announcements' \subseteq Announcements)
  <2>1. t \in run[p].new
    BY <1>5, <1>7
  <2>2. \A m \in Announcements : m.tender # t
    BY <1>1, <2>1 DEF NewInv, AnnouncedIsPast, Past
  <2>3. NewIsStored' /\ NewIsOwned' /\ NewComesFromDedup'
    <3>1. \A q \in Processes : run'[q].new = run[q].new /\ run'[q].manual = run[q].manual
                                /\ run'[q].stage = run[q].stage
      BY <1>1, <1>3
    <3> QED BY <1>1, <3>1 DEF NewInv, NewIsStored, NewIsOwned, NewComesFromDedup
  <2>4. AnnouncedIsPast'
    <3> SUFFICES ASSUME NEW m \in Announcements'
                 PROVE  /\ tender[m.tender].status # "none"
                        /\ \A q \in Processes : m.tender \in run[q].new
                                                => Past(run'[q], m.tender)
      BY <1>1, <1>3 DEF AnnouncedIsPast
    <3>1. CASE m \in Announcements
      <4>1. /\ tender[m.tender].status # "none"
            /\ \A q \in Processes : m.tender \in run[q].new => Past(run[q], m.tender)
        BY <3>1 DEF NewInv, AnnouncedIsPast
      <4> QED BY <4>1, <1>3 DEF Past
    <3>2. CASE m \notin Announcements
      <4>1. m.tender = t
        BY <3>2, <1>5
      <4>2. tender[t].status # "none"
        BY <2>1 DEF NewInv, NewIsStored
      <4>3. \A q \in Processes : t \in run[q].new => q = p
        BY <2>1 DEF NewInv, NewIsOwned
      <4>4. Past(run'[p], t)
        BY <1>3 DEF Past
      <4> QED BY <4>1, <4>2, <4>3, <4>4
    <3> QED BY <3>1, <3>2
  <2>5. NewMailedOnce'
    <3> SUFFICES ASSUME NEW m \in Announcements', NEW n \in Announcements',
                        m.tender = n.tender
                 PROVE  m = n
      BY DEF NewMailedOnce, Announcements
    <3>1. CASE m \in Announcements /\ n \in Announcements
      BY <3>1 DEF NewInv, NewMailedOnce, Announcements
    <3>2. CASE m \notin Announcements /\ n \notin Announcements
      <4> DEFINE mail == [tender |-> t, verdict |-> run[p].available[t], manual |-> FALSE,
                          kind |-> "new", version |-> run[p].found[t]]
      <4>1. m = mail
        BY <3>2, <1>5
      <4>2. n = mail
        BY <3>2, <1>5
      <4> QED BY <4>1, <4>2
    <3>3. CASE (m \in Announcements) # (n \in Announcements)
      BY <3>3, <1>5, <2>2
    <3> QED BY <3>1, <3>2, <3>3
  <2> QED BY <2>3, <2>4, <2>5 DEF NewInv
<1> QED BY <1>6, <1>7

\* Every action keeps the invariant.
LEMMA NextNewInv == NewInv /\ [Next]_vars => NewInv'
<1> SUFFICES ASSUME NewInv, [Next]_vars PROVE NewInv'
  OBVIOUS
<1>1. TypeOK /\ TypeOK'
  BY NextTypeOK DEF NewInv
<1>2. /\ \A p \in Processes : run[p] \in Run
      /\ run \in [Processes -> Run] /\ tender \in [Tenders -> Row]
  BY <1>1 DEF TypeOK
<1>3. NoRun.new = {} /\ NoRun.manual = FALSE
  BY DEF NoRun
<1>4. ASSUME NEW p \in Processes, StartRun(p) \/ Finish(p) \/ Crash(p)
      PROVE  NewInv'
  <2>1. /\ \A q \in Processes : q # p => run'[q] = run[q]
        /\ run'[p].new = {} /\ ~run'[p].manual
    <3>1. CASE StartRun(p)
      <4>1. run' = [run EXCEPT ![p] = [NoRun EXCEPT !.stage = "discovery", !.found = site]]
        BY <3>1 DEF StartRun, Goes
      <4> QED BY <1>2, <4>1 DEF NoRun
    <3>2. CASE Finish(p) \/ Crash(p)
      <4>1. run' = [run EXCEPT ![p] = NoRun]
        BY <3>2 DEF Finish, Crash, Goes
      <4> QED BY <1>2, <1>3, <4>1
    <3> QED BY <1>4, <3>1, <3>2
  <2>2. RowsStay /\ Announcements' = Announcements
    BY <1>4 DEF StartRun, Finish, Crash, RowsStay, Announcements
  <2> QED BY <1>1, <2>1, <2>2, QuietStep DEF StaysPast
<1>5. ASSUME NEW p \in Processes, LoadSeen(p)
      PROVE  NewInv'
  <2>1. /\ \A q \in Processes : q # p => run'[q] = run[q]
        /\ run'[p].new = run[p].new /\ run'[p].manual = run[p].manual
        /\ run[p].stage = "discovery"
    <3>1. PICK seen : run' = [run EXCEPT ![p] = [run[p] EXCEPT !.stage = "dedup",
                                                               !.seen = seen]]
      BY <1>5 DEF LoadSeen, Goes
    <3> QED BY <1>2, <1>5, <3>1 DEF LoadSeen, Run
  <2>2. RowsStay /\ Announcements' = Announcements
    BY <1>5 DEF LoadSeen, RowsStay, Announcements
  <2>3. run'[p].new = {} /\ ~run'[p].manual
    BY <2>1 DEF NewInv, NewComesFromDedup
  <2> QED BY <1>1, <2>1, <2>2, <2>3, QuietStep DEF StaysPast
<1>6. ASSUME NEW p \in Processes, Select(p) \/ BreakRun(p) \/ FailStage(p)
                                   \/ ReadDetails(p) \/ NextStage(p) \/ LoseMail(p)
                                   \/ Triage(p) \/ BeginVerdict(p)
      PROVE  NewInv'
  <2>1. \A q \in Processes : q # p => run'[q] = run[q]
    BY <1>2, <1>6 DEF Select, BreakRun, FailStage, ReadDetails, NextStage, LoseMail, Triage, BeginVerdict, Goes
  <2>2. StaysPast(p)
    <3>1. CASE Select(p) \/ BreakRun(p)
      <4>1. run[p].stage = "select"
        BY <3>1 DEF Select, BreakRun
      <4>2. PICK T : \/ run'[p] = [run[p] EXCEPT !.stage = "finish", !.broken = TRUE]
                     \/ run'[p] = [run[p] EXCEPT !.stage = "finish"]
                     \/ run'[p] = [run[p] EXCEPT !.stage = "detail", !.todo = T]
        BY <1>2, <3>1 DEF Select, BreakRun, Goes
      <4> QED BY ZenonT(60), <1>2, <4>1, <4>2 DEF Run, StaysPast
    <3>2. CASE NextStage(p)
      <4>1. PICK T : /\ run[p].todo = {}
                     /\ \/ /\ run[p].stage = "triage"
                           /\ run'[p] = [run[p] EXCEPT !.stage = "verdict",
                                          !.todo = run[p].passed, !.passed = {}]
                        \/ /\ run[p].stage = "verdict"
                           /\ run'[p] = [run[p] EXCEPT !.stage = "notification", !.todo = T]
                        \/ /\ run[p].stage = "notification"
                           /\ run'[p] = [run[p] EXCEPT !.stage = "finish"]
        BY <1>2, <3>2 DEF NextStage, Goes
      <4>2. CASE run[p].stage = "triage"
        BY <1>2, <4>1, <4>2 DEF Run, StaysPast
      <4>3. CASE run[p].stage = "verdict"
        BY <1>2, <4>1, <4>3 DEF Run, StaysPast
      <4>4. CASE run[p].stage = "notification"
        BY <1>2, <4>1, <4>4 DEF Run, StaysPast
      <4> QED BY <4>1, <4>2, <4>3, <4>4
    <3>3. CASE LoseMail(p)
      BY <1>2, <3>3 DEF LoseMail, Goes, Run, StaysPast
    <3>4. CASE Triage(p)
      BY <1>2, <3>4 DEF Triage, Goes, Run, StaysPast
    <3>5. CASE BeginVerdict(p)
      BY <1>2, <3>5 DEF BeginVerdict, Goes, Run, StaysPast
    <3>6. CASE FailStage(p)
      <4>1. /\ run[p].stage \in {"discovery", "dedup", "detail"}
            /\ run'[p] = [run[p] EXCEPT !.stage = "finish", !.failed = TRUE]
        BY <1>2, <3>6 DEF FailStage, Goes
      <4> QED BY <1>2, <4>1 DEF Run, StaysPast
    <3>7. CASE ReadDetails(p)
      <4>1. /\ run[p].stage = "detail"
            /\ run'[p] = [run[p] EXCEPT !.stage = "triage"]
        BY <1>2, <3>7 DEF ReadDetails, Goes
      <4> QED BY <1>2, <4>1 DEF Run, StaysPast
    <3> QED BY <1>6, <3>1, <3>2, <3>3, <3>4, <3>5, <3>6, <3>7
  <2>3. RowsStay
    <3>1. CASE Triage(p)
      <4>1. PICK t, d : t \in Tenders /\ tender' = [tender EXCEPT ![t].triage = d]
        BY <1>2, <3>1 DEF Triage, Run
      <4> QED BY <4>1, <1>2 DEF RowsStay, Row
    <3> QED BY <1>6, <3>1 DEF Select, BreakRun, FailStage, ReadDetails, NextStage, LoseMail, BeginVerdict, RowsStay
  <2>4. Announcements' = Announcements
    BY <1>6 DEF Select, BreakRun, FailStage, ReadDetails, NextStage, LoseMail, Triage, BeginVerdict, Announcements
  <2> QED BY <1>1, <2>1, <2>2, <2>3, <2>4, QuietStep
<1>7. ASSUME NEW p \in Processes, Dedup(p)
      PROVE  NewInv'
  BY <1>1, <1>7, DedupKeepsNewInv
<1>8. ASSUME NEW p \in Processes, NEW t \in Tenders, StartManual(p, t)
      PROVE  NewInv'
  <2>1. /\ \A q \in Processes : q # p => run'[q] = run[q]
        /\ run'[p].new = {} /\ run'[p].stage = "detail"
    BY <1>2, <1>8 DEF StartManual, Goes, NoRun
  <2>2. RowsStay /\ Announcements' = Announcements
    BY <1>8 DEF StartManual, RowsStay, Announcements
  <2> QED BY <1>1, <2>1, <2>2, QuietStep DEF StaysPast
<1>9. ASSUME NEW p \in Processes, VerdictAvailable(p) \/ VerdictUnavailable(p)
      PROVE  NewInv'
  <2>1. /\ \A q \in Processes : q # p => run'[q] = run[q]
        /\ run'[p].new = run[p].new /\ run'[p].manual = run[p].manual
        /\ run[p].stage = "thinking" /\ run'[p].stage = "verdict"
    <3>1. CASE VerdictAvailable(p)
      <4>1. PICK a, seen : run' = [run EXCEPT ![p] =
              [run[p] EXCEPT !.stage = "verdict", !.available = a, !.seen = seen, !.at = 1]]
        BY <1>2, <3>1 DEF VerdictAvailable, Goes, Run
      <4> QED BY <1>2, <3>1, <4>1 DEF VerdictAvailable, Run
    <3>2. CASE VerdictUnavailable(p)
      BY <1>2, <3>2 DEF VerdictUnavailable, Goes, Run
    <3> QED BY <1>9, <3>1, <3>2
  <2>2. Announcements' = Announcements
    BY <1>9 DEF VerdictAvailable, VerdictUnavailable, Announcements
  <2>3. RowsStay
    <3> DEFINE at == run[p].at
    <3>1. at \in Tenders
      BY <1>2 DEF Run
    <3>2. CASE VerdictAvailable(p)
      <4>1. PICK n, v : tender' = [tender EXCEPT ![at] =
              [@ EXCEPT !.status = Set(p, "processed"), !.verdict = n, !.assessed = v]]
        BY <3>2 DEF VerdictAvailable
      <4>2. Set(p, "processed") \in {tender[at].status, "processed"}
        BY DEF Set
      <4> QED BY <3>1, <4>1, <4>2, <1>2 DEF RowsStay, Row
    <3>3. CASE VerdictUnavailable(p)
      <4>1. PICK s \in {"verdict_failed", "awaiting_budget",
                        "awaiting_approved_provider", tender[at].status} :
              tender' = [tender EXCEPT ![at].status = Set(p, s)]
        BY <3>3 DEF VerdictUnavailable
      <4>2. Set(p, s) \in {tender[at].status, s}
        BY DEF Set
      <4> QED BY <3>1, <4>1, <4>2, <1>2 DEF RowsStay, Row
    <3> QED BY <1>9, <3>2, <3>3
  <2> QED BY <1>1, <2>1, <2>2, <2>3, QuietStep DEF StaysPast
<1>10. ASSUME NEW p \in Processes, Notify(p)
       PROVE  NewInv'
  BY <1>1, <1>10, NotifyKeepsNewInv
<1>11. ASSUME UNCHANGED <<tender, run, outbox>>
       PROVE  NewInv'
  BY <1>1, <1>11 DEF NewInv, NewIsStored, NewIsOwned, NewComesFromDedup,
     AnnouncedIsPast, Announcements, NewMailedOnce
<1>12. ASSUME NEW t \in Tenders, Publish(t) \/ Expire(t)
       PROVE  NewInv'
  BY <1>11, <1>12 DEF Publish, Expire
<1> QED BY <1>4, <1>5, <1>6, <1>7, <1>8, <1>9, <1>10, <1>11, <1>12 DEF Next, Pass, vars

\* However many processes crawl, and whatever fails, the crawls mail a tender as
\* new at most once (claim_new and the provenance gate of _stage_notifications).
THEOREM NewIsMailedOnce == Spec => []NewMailedOnce
<1>1. NewInv => NewMailedOnce
  BY DEF NewInv
<1> QED BY <1>1, InitNewInv, NextNewInv, PTL DEF Spec

-----------------------------------------------------------------------------
(* What the steps of a run change *)

\* the listing a run found and what its dedup made of it
Carried(r, s) ==
  s.manual = r.manual /\ s.found = r.found /\ s.new = r.new /\ s.updates = r.updates
\* nor does the step touch the work
Kept(r, s) ==
  Carried(r, s) /\ s.todo = r.todo /\ s.passed = r.passed /\ s.unavailable = r.unavailable

\* The steps between the stages.
LEMMA StageSteps ==
  ASSUME TypeOK, NEW p \in Processes
  PROVE  LET r == run[p]  s == run'[p] IN
         /\ FailStage(p) \/ BreakRun(p) => Kept(r, s) /\ s.stage = "finish"
         /\ LoadSeen(p) => /\ Kept(r, s) /\ s.stage = "dedup"
                           /\ s.seen = [t \in Tenders |-> ReadOf(tender[t])]
         /\ Select(p) =>
              /\ Carried(r, s) /\ s.passed = r.passed /\ s.unavailable = r.unavailable
              /\ s.seen = r.seen
              /\ \/ s.stage = "finish" /\ s.todo = r.todo
                 \/ s.stage = "detail" /\ s.todo = r.new \cup r.updates \cup Recovered
         /\ ReadDetails(p) =>
              Kept(r, s) /\ s.seen = r.seen /\ r.stage = "detail" /\ s.stage = "triage"
         /\ NextStage(p) =>
              /\ Carried(r, s) /\ s.unavailable = r.unavailable /\ s.seen = r.seen
              /\ r.todo = {} /\ s.passed \subseteq r.passed
              /\ \/ /\ r.stage = "triage" /\ s.stage = "verdict"
                    /\ s.todo = r.passed /\ s.passed = {}
                 \/ /\ r.stage = "verdict" /\ s.stage = "notification"
                    /\ r.unavailable \subseteq s.todo
                 \/ /\ r.stage = "notification" /\ s.stage = "finish" /\ s.todo = {}
<1> run[p] \in Run /\ run \in [Processes -> Run]
  BY DEF TypeOK
<1>1. ASSUME FailStage(p) \/ BreakRun(p)
      PROVE  Kept(run[p], run'[p]) /\ run'[p].stage = "finish"
  <2>1. PICK x, y : run' = [run EXCEPT ![p] = [run[p] EXCEPT !.stage = "finish",
                                                !.failed = x, !.broken = y]]
    <3>1. CASE FailStage(p)
      <4>1. run' = [run EXCEPT ![p] = [run[p] EXCEPT !.stage = "finish", !.failed = TRUE,
                                                     !.broken = run[p].broken]]
        BY Zenon, <3>1 DEF FailStage, Goes, Run
      <4> QED BY <4>1
    <3>2. CASE BreakRun(p)
      <4>1. run' = [run EXCEPT ![p] = [run[p] EXCEPT !.stage = "finish",
                                         !.failed = run[p].failed, !.broken = TRUE]]
        BY Zenon, <3>2 DEF BreakRun, Goes, Run
      <4> QED BY <4>1
    <3> QED BY <1>1, <3>1, <3>2
  <2> QED BY <2>1 DEF Run, Kept, Carried
<1>2. ASSUME LoadSeen(p)
      PROVE  /\ Kept(run[p], run'[p]) /\ run'[p].stage = "dedup"
             /\ run'[p].seen = [t \in Tenders |-> ReadOf(tender[t])]
  <2> DEFINE seen == [t \in Tenders |-> ReadOf(tender[t])]
  <2>1. run' = [run EXCEPT ![p] = [run[p] EXCEPT !.stage = "dedup", !.seen = seen]]
    BY <1>2 DEF LoadSeen, Goes
  <2> HIDE DEF seen
  <2>2. Kept(run[p], run'[p]) /\ run'[p].stage = "dedup" /\ run'[p].seen = seen
    BY <2>1 DEF Run, Kept, Carried
  <2> QED BY <2>2 DEF seen
<1>3. ASSUME Select(p)
      PROVE  LET r == run[p]  s == run'[p] IN
             /\ Carried(r, s) /\ s.passed = r.passed /\ s.unavailable = r.unavailable
             /\ s.seen = r.seen
             /\ \/ s.stage = "finish" /\ s.todo = r.todo
                \/ s.stage = "detail" /\ s.todo = r.new \cup r.updates \cup Recovered
  <2> DEFINE work == run[p].new \cup run[p].updates \cup Recovered
  <2>1. \/ run' = [run EXCEPT ![p] = [run[p] EXCEPT !.stage = "finish"]]
        \/ run' = [run EXCEPT ![p] = [run[p] EXCEPT !.stage = "detail", !.todo = work]]
    BY <1>3 DEF Select, Goes
  <2> HIDE DEF work
  <2>2. LET r == run[p]  s == run'[p] IN
        /\ Carried(r, s) /\ s.passed = r.passed /\ s.unavailable = r.unavailable
        /\ s.seen = r.seen
        /\ \/ s.stage = "finish" /\ s.todo = r.todo
           \/ s.stage = "detail" /\ s.todo = work
    BY <2>1, ZenonT(60) DEF Run, Carried
  <2> QED BY <2>2 DEF work
<1>4. ASSUME NextStage(p)
      PROVE  LET r == run[p]  s == run'[p] IN
             /\ Carried(r, s) /\ s.unavailable = r.unavailable /\ s.seen = r.seen
             /\ r.todo = {} /\ s.passed \subseteq r.passed
             /\ \/ /\ r.stage = "triage" /\ s.stage = "verdict"
                   /\ s.todo = r.passed /\ s.passed = {}
                \/ /\ r.stage = "verdict" /\ s.stage = "notification"
                   /\ r.unavailable \subseteq s.todo
                \/ /\ r.stage = "notification" /\ s.stage = "finish" /\ s.todo = {}
  <2>1. PICK T \in SUBSET Tenders :
          /\ run[p].todo = {} /\ run[p].unavailable \subseteq T
          /\ \/ /\ run[p].stage = "triage"
                /\ run' = [run EXCEPT ![p] = [run[p] EXCEPT !.stage = "verdict",
                             !.todo = run[p].passed, !.passed = {}]]
             \/ /\ run[p].stage = "verdict"
                /\ run' = [run EXCEPT ![p] = [run[p] EXCEPT !.stage = "notification",
                             !.todo = T]]
             \/ /\ run[p].stage = "notification"
                /\ run' = [run EXCEPT ![p] = [run[p] EXCEPT !.stage = "finish"]]
    <3> DEFINE reached == {t \in Tenders : run[p].available[t] > 0} \cup run[p].unavailable
    <3>1. reached \in SUBSET Tenders /\ run[p].unavailable \subseteq reached
      BY DEF Run
    <3> QED BY <1>4, <3>1 DEF NextStage, Goes
  <2>2. CASE run[p].stage = "triage"
    <3>1. run'[p] = [run[p] EXCEPT !.stage = "verdict", !.todo = run[p].passed, !.passed = {}]
      BY <2>1, <2>2
    <3> QED BY <2>1, <2>2, <3>1 DEF Run, Carried
  <2>3. CASE run[p].stage = "verdict"
    <3>1. run'[p] = [run[p] EXCEPT !.stage = "notification", !.todo = T]
      BY <2>1, <2>3
    <3> QED BY <2>1, <2>3, <3>1 DEF Run, Carried
  <2>4. CASE run[p].stage = "notification"
    <3>1. run'[p] = [run[p] EXCEPT !.stage = "finish"]
      BY <2>1, <2>4
    <3> QED BY <2>1, <2>4, <3>1 DEF Run, Carried
  <2> QED BY <2>1, <2>2, <2>3, <2>4
<1>5. ASSUME ReadDetails(p)
      PROVE  LET r == run[p]  s == run'[p] IN
             Kept(r, s) /\ s.seen = r.seen /\ r.stage = "detail" /\ s.stage = "triage"
  BY <1>5 DEF ReadDetails, Goes, Run, Kept, Carried
<1> QED BY <1>1, <1>2, <1>3, <1>4, <1>5

\* The steps on one tender of a run's work.
LEMMA WorkSteps ==
  ASSUME TypeOK, NEW p \in Processes
  PROVE  LET r == run[p]  s == run'[p] IN
         /\ Triage(p) => \E t \in r.todo :
              /\ Carried(r, s) /\ s.unavailable = r.unavailable /\ s.seen = r.seen
              /\ r.stage = "triage" /\ s.stage = "triage"
              /\ s.todo = r.todo \ {t} /\ s.passed \subseteq r.passed \cup {t}
              /\ \E d : tender' = [tender EXCEPT ![t].triage = d]
         /\ BeginVerdict(p) => \E t \in r.todo :
              /\ Carried(r, s) /\ s.passed = r.passed
              /\ r.stage = "verdict" /\ s.todo = r.todo \ {t}
              /\ \/ /\ s.stage = "thinking" /\ s.at = t /\ tender[t].triage = "passed"
                    /\ s.seen = [r.seen EXCEPT ![t] = ReadOf(tender[t])]
                    /\ s.unavailable = r.unavailable
                 \/ /\ s.stage = "verdict" /\ s.seen = r.seen
                    /\ s.unavailable = r.unavailable \cup {t}
         /\ VerdictAvailable(p) \/ VerdictUnavailable(p) =>
              /\ Carried(r, s) /\ s.passed = r.passed /\ s.todo = r.todo
              /\ r.stage = "thinking" /\ s.stage = "verdict" /\ s.seen = NoRun.seen
              /\ \/ VerdictAvailable(p) /\ s.unavailable = r.unavailable
                 \/ VerdictUnavailable(p) /\ s.unavailable = r.unavailable \cup {r.at}
         /\ Notify(p) \/ LoseMail(p) => \E t \in r.todo :
              /\ Carried(r, s) /\ s.passed = r.passed /\ s.unavailable = r.unavailable
              /\ r.stage = "notification" /\ s.stage = "notification" /\ s.seen = r.seen
              /\ s.todo = r.todo \ {t}
              /\ \/ LoseMail(p) /\ outbox' = outbox
                 \/ outbox' = outbox \cup (IF t \in r.unavailable THEN Notices(p, t)
                                                                  ELSE Mails(p, t))
<1> run[p] \in Run /\ run \in [Processes -> Run]
  BY DEF TypeOK
<1>1. ASSUME Triage(p)
      PROVE  LET r == run[p]  s == run'[p] IN \E t \in r.todo :
              /\ Carried(r, s) /\ s.unavailable = r.unavailable /\ s.seen = r.seen
              /\ r.stage = "triage" /\ s.stage = "triage"
              /\ s.todo = r.todo \ {t} /\ s.passed \subseteq r.passed \cup {t}
              /\ \E d : tender' = [tender EXCEPT ![t].triage = d]
  <2>1. PICK t \in run[p].todo : \E d :
          /\ run[p].stage = "triage" /\ tender' = [tender EXCEPT ![t].triage = d]
          /\ run' = [run EXCEPT ![p] = [run[p] EXCEPT !.todo = @ \ {t},
                       !.passed = IF d = "passed" THEN @ \cup {t} ELSE @]]
    BY <1>1 DEF Triage, Goes
  <2>2. /\ Carried(run[p], run'[p]) /\ run'[p].unavailable = run[p].unavailable
        /\ run'[p].seen = run[p].seen /\ run'[p].stage = "triage"
        /\ run'[p].todo = run[p].todo \ {t}
        /\ run'[p].passed \subseteq run[p].passed \cup {t}
    BY <2>1 DEF Run, Carried
  <2> QED BY <2>1, <2>2
<1>2. ASSUME BeginVerdict(p)
      PROVE  LET r == run[p]  s == run'[p] IN \E t \in r.todo :
              /\ Carried(r, s) /\ s.passed = r.passed
              /\ r.stage = "verdict" /\ s.todo = r.todo \ {t}
              /\ \/ /\ s.stage = "thinking" /\ s.at = t /\ tender[t].triage = "passed"
                    /\ s.seen = [r.seen EXCEPT ![t] = ReadOf(tender[t])]
                    /\ s.unavailable = r.unavailable
                 \/ /\ s.stage = "verdict" /\ s.seen = r.seen
                    /\ s.unavailable = r.unavailable \cup {t}
  <2>1. PICK t \in run[p].todo :
          /\ run[p].stage = "verdict"
          /\ Goes(p, IF tender[t].triage = "passed"
                     THEN [[run[p] EXCEPT !.todo = @ \ {t}] EXCEPT !.stage = "thinking",
                              !.at = t, !.seen[t] = ReadOf(tender[t])]
                     ELSE [[run[p] EXCEPT !.todo = @ \ {t}] EXCEPT
                              !.unavailable = @ \cup {t}])
    BY <1>2 DEF BeginVerdict
  <2> DEFINE seen == [run[p].seen EXCEPT ![t] = ReadOf(tender[t])]
  <2>2. \/ /\ tender[t].triage = "passed"
           /\ run' = [run EXCEPT ![p] = [run[p] EXCEPT !.todo = @ \ {t},
                        !.stage = "thinking", !.at = t, !.seen = seen]]
        \/ run' = [run EXCEPT ![p] = [run[p] EXCEPT !.todo = @ \ {t},
                     !.unavailable = @ \cup {t}]]
    <3>1. CASE tender[t].triage = "passed"
      BY <2>1, <3>1 DEF Goes, Run
    <3>2. CASE tender[t].triage # "passed"
      BY <2>1, <3>2 DEF Goes, Run
    <3> QED BY <3>1, <3>2
  <2> HIDE DEF seen
  <2>3. /\ Carried(run[p], run'[p]) /\ run'[p].passed = run[p].passed
        /\ run'[p].todo = run[p].todo \ {t}
        /\ \/ /\ run'[p].stage = "thinking" /\ run'[p].at = t
              /\ tender[t].triage = "passed" /\ run'[p].seen = seen
              /\ run'[p].unavailable = run[p].unavailable
           \/ /\ run'[p].stage = "verdict" /\ run'[p].seen = run[p].seen
              /\ run'[p].unavailable = run[p].unavailable \cup {t}
    <3>1. CASE run' = [run EXCEPT ![p] = [run[p] EXCEPT !.todo = @ \ {t},
                         !.unavailable = @ \cup {t}]]
      BY <2>1, <3>1 DEF Run, Carried
    <3>2. CASE /\ tender[t].triage = "passed"
               /\ run' = [run EXCEPT ![p] = [run[p] EXCEPT !.todo = @ \ {t},
                            !.stage = "thinking", !.at = t, !.seen = seen]]
      BY <3>2 DEF Run, Carried
    <3> QED BY <2>2, <3>1, <3>2
  <2> QED BY <2>1, <2>3 DEF seen
<1>3. ASSUME VerdictAvailable(p) \/ VerdictUnavailable(p)
      PROVE  LET r == run[p]  s == run'[p] IN
              /\ Carried(r, s) /\ s.passed = r.passed /\ s.todo = r.todo
              /\ r.stage = "thinking" /\ s.stage = "verdict" /\ s.seen = NoRun.seen
              /\ \/ VerdictAvailable(p) /\ s.unavailable = r.unavailable
                 \/ VerdictUnavailable(p) /\ s.unavailable = r.unavailable \cup {r.at}
  <2>1. CASE VerdictAvailable(p)
    <3> DEFINE a == [run[p].available EXCEPT ![run[p].at] = tender[run[p].at].verdict + 1]
               seen == NoRun.seen
    <3>1. run' = [run EXCEPT ![p] = [run[p] EXCEPT !.stage = "verdict", !.available = a,
                                                   !.seen = seen, !.at = 1]]
      BY <2>1 DEF VerdictAvailable, Goes, Run
    <3>2. run[p].stage = "thinking"
      BY <2>1 DEF VerdictAvailable
    <3> HIDE DEF a, seen
    <3>3. /\ Carried(run[p], run'[p]) /\ run'[p].passed = run[p].passed
          /\ run'[p].todo = run[p].todo /\ run'[p].stage = "verdict"
          /\ run'[p].seen = seen /\ run'[p].unavailable = run[p].unavailable
      BY <3>1 DEF Run, Carried
    <3> QED BY <2>1, <3>2, <3>3 DEF seen
  <2>2. CASE VerdictUnavailable(p)
    <3> DEFINE seen == NoRun.seen
    <3>1. /\ run[p].stage = "thinking"
          /\ run' = [run EXCEPT ![p] = [run[p] EXCEPT !.stage = "verdict",
                       !.unavailable = @ \cup {run[p].at}, !.seen = seen, !.at = 1]]
      BY <2>2 DEF VerdictUnavailable, Goes
    <3> HIDE DEF seen
    <3>2. /\ Carried(run[p], run'[p]) /\ run'[p].passed = run[p].passed
          /\ run'[p].todo = run[p].todo /\ run'[p].stage = "verdict"
          /\ run'[p].seen = seen
          /\ run'[p].unavailable = run[p].unavailable \cup {run[p].at}
      BY <3>1 DEF Run, Carried
    <3> QED BY <2>2, <3>1, <3>2 DEF seen
  <2> QED BY <1>3, <2>1, <2>2
<1>4. ASSUME Notify(p) \/ LoseMail(p)
      PROVE  LET r == run[p]  s == run'[p] IN \E t \in r.todo :
              /\ Carried(r, s) /\ s.passed = r.passed /\ s.unavailable = r.unavailable
              /\ r.stage = "notification" /\ s.stage = "notification" /\ s.seen = r.seen
              /\ s.todo = r.todo \ {t}
              /\ \/ LoseMail(p) /\ outbox' = outbox
                 \/ outbox' = outbox \cup (IF t \in r.unavailable THEN Notices(p, t)
                                                                  ELSE Mails(p, t))
  <2>1. PICK t \in run[p].todo :
          /\ run[p].stage = "notification"
          /\ run' = [run EXCEPT ![p] = [run[p] EXCEPT !.todo = @ \ {t}]]
          /\ \/ LoseMail(p) /\ outbox' = outbox
             \/ outbox' = outbox \cup (IF t \in run[p].unavailable THEN Notices(p, t)
                                                                   ELSE Mails(p, t))
    <3>1. CASE Notify(p)
      BY <3>1 DEF Notify, Goes
    <3>2. CASE LoseMail(p)
      <4>1. outbox' = outbox
        BY <3>2 DEF LoseMail
      <4> QED BY <3>2, <4>1 DEF LoseMail, Goes
    <3> QED BY <1>4, <3>1, <3>2
  <2>2. /\ Carried(run[p], run'[p]) /\ run'[p].passed = run[p].passed
        /\ run'[p].unavailable = run[p].unavailable /\ run'[p].seen = run[p].seen
        /\ run'[p].stage = run[p].stage /\ run'[p].todo = run[p].todo \ {t}
    BY <2>1 DEF Run, Carried
  <2> QED BY <2>1, <2>2
<1> QED BY <1>1, <1>2, <1>3, <1>4

-----------------------------------------------------------------------------
(* A failed verdict is reported.                                           *)
(*                                                                         *)
(* The notification stage goes through every unavailable tender, and it    *)
(* leaves one out only when the row shows a verdict.  A verdict number     *)
(* never goes back, because no action takes a row away.                    *)

HasRow(t) == tender[t].status # "none"
\* what a run works on has a row
WorkHasRows(r) ==
  /\ \A t \in r.new \cup r.updates \cup r.passed : HasRow(t)
  /\ r.stage \in {"detail", "triage", "verdict", "thinking"} => \A t \in r.todo : HasRow(t)
  /\ r.stage = "thinking" => HasRow(r.at)
  /\ r.stage = "dedup" => \A t \in Tenders : r.seen[t].status # "none" => HasRow(t)
\* a tender without a row has no triage result and no verdict
UnstoredIsBlank ==
  \A t \in Tenders : ~HasRow(t) => tender[t].triage = "none" /\ tender[t].verdict = 0

Reported(t) == tender[t].verdict > 0 \/ \E m \in outbox : m.tender = t /\ m.kind = "raw"
\* the unavailable tenders that a run has gone past are reported
PastIsReported(r) ==
  /\ r.stage \in {"idle", "discovery", "dedup", "select", "detail", "triage"}
       => r.unavailable = {}
  /\ r.stage = "notification" => \A t \in r.unavailable \ r.todo : Reported(t)
  /\ r.stage = "finish" => \A t \in r.unavailable : Reported(t)

\* the inductive invariant
ReportInv == /\ TypeOK /\ UnstoredIsBlank
             /\ \A p \in Processes : WorkHasRows(run[p]) /\ PastIsReported(run[p])

\* A row stays, and its verdict number does not go back.
LEMMA RowSteps ==
  ASSUME ReportInv, [Next]_vars, NEW t \in Tenders
  PROVE  /\ HasRow(t) => HasRow(t)' /\ tender'[t].verdict >= tender[t].verdict
         /\ \/ HasRow(t)'
            \/ /\ tender'[t].triage = tender[t].triage
               /\ tender'[t].verdict = tender[t].verdict
<1> DEFINE Goal == /\ HasRow(t) => HasRow(t)' /\ tender'[t].verdict >= tender[t].verdict
                   /\ \/ HasRow(t)'
                      \/ /\ tender'[t].triage = tender[t].triage
                         /\ tender'[t].verdict = tender[t].verdict
<1>0. /\ TypeOK /\ tender \in [Tenders -> Row] /\ tender[t].verdict \in Nat
      /\ \A p \in Processes : run[p] \in Run
  BY DEF ReportInv, TypeOK, Row
<1>1. ASSUME NEW p \in Processes, Dedup(p)
      PROVE  Goal
  <2>1. t \in Created(p) => ~HasRow(t) /\ HasRow(t)'
    BY <1>0, <1>1, DedupRows DEF HasRow
  <2>2. HasRow(t) => HasRow(t)'
    BY <1>0, <1>1, DedupRows DEF HasRow
  <2>3. t \notin Created(p) => /\ tender'[t].triage = tender[t].triage
                               /\ tender'[t].verdict = tender[t].verdict
    <3>1. t \notin Created(p) => tender'[t] \in {Updated(p, t), tender[t]}
      BY <1>1 DEF Dedup
    <3>2. /\ Updated(p, t).triage = tender[t].triage
          /\ Updated(p, t).verdict = tender[t].verdict
      BY <1>0 DEF Updated, Row
    <3> QED BY <3>1, <3>2
  <2> QED BY <1>0, <2>1, <2>2, <2>3
<1>2. ASSUME NEW p \in Processes, Triage(p)
      PROVE  Goal
  <2>1. PICK u \in run[p].todo : /\ run[p].stage = "triage"
                                 /\ \E d : tender' = [tender EXCEPT ![u].triage = d]
    BY <1>0, <1>2, WorkSteps
  <2>2. HasRow(u) /\ u \in Tenders
    BY <1>0, <2>1 DEF ReportInv, WorkHasRows, Run
  <2>3. tender'[t].status = tender[t].status /\ tender'[t].verdict = tender[t].verdict
    BY <1>0, <2>1, <2>2 DEF Row
  <2>4. t # u => tender'[t].triage = tender[t].triage
    BY <1>0, <2>1, <2>2
  <2> QED BY <1>0, <2>2, <2>3, <2>4 DEF HasRow
<1>3. ASSUME NEW p \in Processes, VerdictAvailable(p)
      PROVE  Goal
  <2> DEFINE u == run[p].at
  <2>1. u \in Tenders /\ HasRow(u)
    BY <1>0, <1>3 DEF ReportInv, WorkHasRows, Run, VerdictAvailable
  <2>2. PICK v : tender' = [tender EXCEPT ![u] =
          [@ EXCEPT !.status = Set(p, "processed"), !.verdict = tender[u].verdict + 1,
                    !.assessed = v]]
    BY <1>3 DEF VerdictAvailable
  <2>3. Set(p, "processed") # "none"
    BY <2>1 DEF Set, HasRow
  <2> QED BY <1>0, <2>1, <2>2, <2>3 DEF HasRow, Row
<1>4. ASSUME NEW p \in Processes, VerdictUnavailable(p)
      PROVE  Goal
  <2> DEFINE u == run[p].at
  <2>1. u \in Tenders /\ HasRow(u)
    BY <1>0, <1>4 DEF ReportInv, WorkHasRows, Run, VerdictUnavailable
  <2>2. PICK s \in {"verdict_failed", "awaiting_budget",
                    "awaiting_approved_provider", tender[u].status} :
          tender' = [tender EXCEPT ![u].status = Set(p, s)]
    BY <1>4 DEF VerdictUnavailable
  <2>3. Set(p, s) # "none"
    BY <2>1, <2>2 DEF Set, HasRow
  <2> QED BY <1>0, <2>1, <2>2, <2>3 DEF HasRow, Row
<1>5. ASSUME tender' = tender
      PROVE  Goal
  BY <1>0, <1>5 DEF HasRow
<1>6. \/ tender' = tender
      \/ \E p \in Processes : \/ Dedup(p) \/ Triage(p)
                              \/ VerdictAvailable(p) \/ VerdictUnavailable(p)
  BY DEF Next, Pass, vars, StartRun, LoadSeen, Select, ReadDetails, NextStage, BeginVerdict,
     Notify, Finish, FailStage, BreakRun, LoseMail, Crash, StartManual, Publish, Expire
<1> HIDE DEF Goal
<1>7. Goal
  <2>1. CASE tender' = tender
    BY <1>5, <2>1
  <2>2. CASE \E p \in Processes : \/ Dedup(p) \/ Triage(p)
                                  \/ VerdictAvailable(p) \/ VerdictUnavailable(p)
    BY <1>1, <1>2, <1>3, <1>4, <2>2
  <2> QED BY <1>6, <2>1, <2>2
<1> QED BY <1>7 DEF Goal

\* A message is never taken out of the outbox.
LEMMA OutboxGrows == [Next]_vars => outbox \subseteq outbox'
<1>1. [Next]_vars => outbox' = outbox \/ \E p \in Processes : Notify(p)
  BY ZenonT(60) DEF Next, Pass, vars, StartRun, LoadSeen, Dedup, Select, ReadDetails, Triage, NextStage,
     BeginVerdict, VerdictAvailable, VerdictUnavailable, Finish, FailStage, BreakRun, LoseMail,
     Crash, StartManual, Publish, Expire
<1>2. \A p \in Processes : Notify(p) => outbox \subseteq outbox'
  BY DEF Notify
<1> QED BY <1>1, <1>2

\* The invariant is kept when the run that moved keeps its part of it.
LEMMA ReportStep ==
  ASSUME ReportInv, TypeOK', [Next]_vars, NEW p \in Processes,
         \A q \in Processes : q # p => run'[q] = run[q],
         WorkHasRows(run[p])', PastIsReported(run[p])'
  PROVE  ReportInv'
<1>1. \A t \in Tenders : HasRow(t) => HasRow(t)'
  BY RowSteps
<1>2. UnstoredIsBlank'
  BY RowSteps DEF UnstoredIsBlank, ReportInv
<1>3. \A t \in Tenders : Reported(t) => Reported(t)'
  <2> SUFFICES ASSUME NEW t \in Tenders, Reported(t) PROVE Reported(t)'
    OBVIOUS
  <2>1. CASE tender[t].verdict > 0
    <3>1. HasRow(t) /\ tender[t].verdict \in Nat
      BY <2>1 DEF ReportInv, UnstoredIsBlank, TypeOK, Row
    <3>2. tender'[t].verdict >= tender[t].verdict /\ tender'[t].verdict \in Nat
      BY <3>1, RowSteps DEF TypeOK, Row
    <3> QED BY <2>1, <3>1, <3>2 DEF Reported
  <2>2. CASE \E m \in outbox : m.tender = t /\ m.kind = "raw"
    BY <2>2, OutboxGrows DEF Reported
  <2> QED BY <2>1, <2>2 DEF Reported
<1>4. ASSUME NEW q \in Processes, q # p
      PROVE  WorkHasRows(run[q])' /\ PastIsReported(run[q])'
  <2>1. run'[q] = run[q] /\ run[q] \in Run
    BY <1>4 DEF ReportInv, TypeOK
  <2>2. WorkHasRows(run[q]) /\ PastIsReported(run[q])
    BY DEF ReportInv
  <2>3. WorkHasRows(run[q])'
    BY <1>1, <2>1, <2>2 DEF WorkHasRows, Run
  <2>4. PastIsReported(run[q])'
    BY <1>3, <2>1, <2>2 DEF PastIsReported, Run
  <2> QED BY <2>3, <2>4
<1> QED BY <1>2, <1>4 DEF ReportInv

LEMMA InitReportInv == Init => ReportInv
<1> SUFFICES ASSUME Init PROVE ReportInv
  OBVIOUS
<1>1. TypeOK
  BY InitTypeOK
<1>2. UnstoredIsBlank
  BY DEF Init, UnstoredIsBlank, NoRow
<1>3. \A p \in Processes : WorkHasRows(run[p]) /\ PastIsReported(run[p])
  BY DEF Init, NoRun, WorkHasRows, PastIsReported
<1> QED BY <1>1, <1>2, <1>3 DEF ReportInv

LEMMA NextReportInv ==
  ASSUME "mail" \notin Adverse, ReportInv, [Next]_vars
  PROVE  ReportInv'
<1>1. TypeOK /\ TypeOK'
  BY NextTypeOK DEF ReportInv
<1>2. /\ \A p \in Processes : /\ run[p] \in Run /\ WorkHasRows(run[p])
                              /\ PastIsReported(run[p])
      /\ run \in [Processes -> Run] /\ tender \in [Tenders -> Row]
  BY <1>1 DEF TypeOK, ReportInv
<1>3. \A t \in Tenders : HasRow(t) => HasRow(t)'
  BY RowSteps
<1>4. ASSUME NEW p \in Processes, StartRun(p) \/ Finish(p) \/ Crash(p)
      PROVE  ReportInv'
  <2>1. PICK r : /\ run' = [run EXCEPT ![p] = r]
                 /\ r.new = {} /\ r.updates = {} /\ r.todo = {}
                 /\ r.passed = {} /\ r.unavailable = {}
                 /\ r.stage \in {"idle", "discovery"}
    <3>1. CASE StartRun(p)
      <4> DEFINE r == [NoRun EXCEPT !.stage = "discovery", !.found = site]
      <4>1. run' = [run EXCEPT ![p] = r]
        BY <3>1 DEF StartRun, Goes
      <4>2. /\ r.new = {} /\ r.updates = {} /\ r.todo = {} /\ r.passed = {}
            /\ r.unavailable = {} /\ r.stage = "discovery"
        BY DEF NoRun
      <4> HIDE DEF r
      <4> QED BY <4>1, <4>2
    <3>2. CASE Finish(p) \/ Crash(p)
      <4>1. run' = [run EXCEPT ![p] = NoRun]
        BY <3>2 DEF Finish, Crash, Goes
      <4>2. /\ NoRun.new = {} /\ NoRun.updates = {} /\ NoRun.todo = {}
            /\ NoRun.passed = {} /\ NoRun.unavailable = {} /\ NoRun.stage = "idle"
        BY DEF NoRun
      <4> QED BY <4>1, <4>2
    <3> QED BY <1>4, <3>1, <3>2
  <2>2. /\ run'[p].new = {} /\ run'[p].updates = {} /\ run'[p].todo = {}
        /\ run'[p].passed = {} /\ run'[p].unavailable = {}
        /\ run'[p].stage \notin {"dedup", "thinking"}
        /\ \A q \in Processes : q # p => run'[q] = run[q]
    BY <1>2, <2>1
  <2>3. WorkHasRows(run[p])' /\ PastIsReported(run[p])'
    BY <2>2 DEF WorkHasRows, PastIsReported
  <2> QED BY <1>1, <2>2, <2>3, ReportStep
<1>5. ASSUME NEW p \in Processes, FailStage(p) \/ BreakRun(p)
      PROVE  ReportInv'
  <2>1. Kept(run[p], run'[p]) /\ run'[p].stage = "finish"
    BY <1>1, <1>5, StageSteps
  <2>2. run[p].unavailable = {}
    BY <1>2, <1>5 DEF PastIsReported, FailStage, BreakRun
  <2>3. \A q \in Processes : q # p => run'[q] = run[q]
    BY <1>2, <1>5 DEF FailStage, BreakRun, Goes
  <2>4. WorkHasRows(run[p])'
    BY <1>2, <1>3, <2>1 DEF WorkHasRows, Kept, Carried, Run
  <2>5. PastIsReported(run[p])'
    BY <2>1, <2>2 DEF PastIsReported, Kept
  <2> QED BY <1>1, <2>3, <2>4, <2>5, ReportStep
<1>6. ASSUME NEW p \in Processes, LoadSeen(p)
      PROVE  ReportInv'
  <2>1. /\ Kept(run[p], run'[p]) /\ run'[p].stage = "dedup"
        /\ run'[p].seen = [t \in Tenders |-> ReadOf(tender[t])]
    BY <1>1, <1>6, StageSteps
  <2>2. run[p].unavailable = {}
    BY <1>2, <1>6 DEF PastIsReported, LoadSeen
  <2>3. \A q \in Processes : q # p => run'[q] = run[q]
    BY <1>2, <1>6 DEF LoadSeen, Goes
  <2>4. \A t \in Tenders : run'[p].seen[t].status # "none" => HasRow(t)
    BY <2>1 DEF ReadOf, HasRow
  <2>5. WorkHasRows(run[p])'
    BY <1>2, <1>3, <2>1, <2>4 DEF WorkHasRows, Kept, Carried, Run
  <2>6. PastIsReported(run[p])'
    BY <2>1, <2>2 DEF PastIsReported, Kept
  <2> QED BY <1>1, <2>3, <2>5, <2>6, ReportStep
<1>7. ASSUME NEW p \in Processes, Dedup(p)
      PROVE  ReportInv'
  <2>1. /\ \A t \in Created(p) : HasRow(t)'
        /\ run'[p].new = Created(p) /\ run'[p].stage = "select"
        /\ \A q \in Processes : q # p => run'[q] = run[q]
    BY <1>1, <1>7, DedupRows DEF HasRow
  <2>2. /\ run'[p].updates = Changed(p) /\ run'[p].unavailable = run[p].unavailable
        /\ run'[p].passed = run[p].passed
    <3>1. PICK f, seen : run' = [run EXCEPT ![p] = [run[p] EXCEPT !.stage = "select",
                           !.new = Created(p), !.updates = Changed(p), !.found = f,
                           !.seen = seen]]
      BY <1>7 DEF Dedup, Goes
    <3> QED BY <1>2, <3>1 DEF Run
  <2>3. \A t \in Changed(p) : HasRow(t)'
    <3> SUFFICES ASSUME NEW t \in Changed(p) PROVE HasRow(t)
      BY <1>3 DEF Changed, Listed
    <3>1. t \in Tenders /\ t \in Listed(p) /\ t \notin Created(p)
      BY DEF Changed, Listed
    <3>2. run[p].seen[t].status = "none" => HasRow(t)
      BY <3>1 DEF Created, HasRow
    <3>3. run[p].seen[t].status # "none" => HasRow(t)
      BY <1>2, <1>7, <3>1 DEF WorkHasRows, Dedup
    <3> QED BY <3>2, <3>3
  <2>4. WorkHasRows(run[p])'
    BY <1>2, <1>3, <2>1, <2>2, <2>3 DEF WorkHasRows, Run
  <2>5. PastIsReported(run[p])'
    BY <1>2, <1>7, <2>1, <2>2 DEF PastIsReported, Dedup
  <2> QED BY <1>1, <2>1, <2>4, <2>5, ReportStep
<1>8. ASSUME NEW p \in Processes, Select(p)
      PROVE  ReportInv'
  <2>1. /\ Carried(run[p], run'[p]) /\ run'[p].passed = run[p].passed
        /\ run'[p].unavailable = run[p].unavailable
        /\ \/ run'[p].stage = "finish"
           \/ run'[p].stage = "detail"
              /\ run'[p].todo = run[p].new \cup run[p].updates \cup Recovered
    BY <1>1, <1>8, StageSteps
  <2>2. run[p].unavailable = {} /\ run[p].stage = "select"
    BY <1>2, <1>8 DEF PastIsReported, Select
  <2>3. \A q \in Processes : q # p => run'[q] = run[q]
    BY <1>2, <1>8 DEF Select, Goes
  <2>4. \A t \in Recovered : HasRow(t)
    BY DEF Recovered, Unprocessed, HasRow
  <2>6. WorkHasRows(run[p])'
    BY <1>2, <1>3, <2>1, <2>4 DEF WorkHasRows, Carried, Run, Recovered, Unprocessed
  <2>7. PastIsReported(run[p])'
    BY <2>1, <2>2 DEF PastIsReported
  <2> QED BY <1>1, <2>3, <2>6, <2>7, ReportStep
<1>8a. ASSUME NEW p \in Processes, ReadDetails(p)
       PROVE  ReportInv'
  <2>1. /\ Kept(run[p], run'[p])
        /\ run[p].stage = "detail" /\ run'[p].stage = "triage"
    BY <1>1, <1>8a, StageSteps
  <2>2. \A q \in Processes : q # p => run'[q] = run[q]
    BY <1>2, <1>8a DEF ReadDetails, Goes
  <2>3. WorkHasRows(run[p])'
    BY <1>2, <1>3, <2>1 DEF WorkHasRows, Kept, Carried, Run
  <2>4. PastIsReported(run[p])'
    BY <1>2, <2>1 DEF PastIsReported, Kept
  <2> QED BY <1>1, <2>2, <2>3, <2>4, ReportStep
<1>9. ASSUME NEW p \in Processes, NEW t \in Tenders, StartManual(p, t)
      PROVE  ReportInv'
  <2>1. /\ run'[p].new = {} /\ run'[p].updates \subseteq {t} /\ run'[p].todo = {t}
        /\ run'[p].passed = {} /\ run'[p].unavailable = {} /\ run'[p].stage = "detail"
        /\ \A q \in Processes : q # p => run'[q] = run[q]
    BY <1>2, <1>9 DEF StartManual, Goes, NoRun
  <2>2. HasRow(t)'
    BY <1>3, <1>9 DEF StartManual, HasRow
  <2>3. WorkHasRows(run[p])' /\ PastIsReported(run[p])'
    BY <2>1, <2>2 DEF WorkHasRows, PastIsReported
  <2> QED BY <1>1, <2>1, <2>3, ReportStep
<1>10. ASSUME NEW p \in Processes, Triage(p)
       PROVE  ReportInv'
  <2>1. PICK t \in run[p].todo :
          /\ Carried(run[p], run'[p]) /\ run'[p].unavailable = run[p].unavailable
          /\ run[p].stage = "triage" /\ run'[p].stage = "triage"
          /\ run'[p].todo = run[p].todo \ {t} /\ run'[p].passed \subseteq run[p].passed \cup {t}
    BY <1>1, <1>10, WorkSteps
  <2>2. \A q \in Processes : q # p => run'[q] = run[q]
    BY <1>2, <1>10 DEF Triage, Goes
  <2>3. WorkHasRows(run[p])'
    BY <1>2, <1>3, <2>1 DEF WorkHasRows, Carried, Run
  <2>4. PastIsReported(run[p])'
    BY <1>2, <2>1 DEF PastIsReported
  <2> QED BY <1>1, <2>2, <2>3, <2>4, ReportStep
<1>11. ASSUME NEW p \in Processes, NextStage(p)
       PROVE  ReportInv'
  <2>1. /\ Carried(run[p], run'[p]) /\ run'[p].unavailable = run[p].unavailable
        /\ run[p].todo = {} /\ run'[p].passed \subseteq run[p].passed
        /\ \/ /\ run[p].stage = "triage" /\ run'[p].stage = "verdict"
              /\ run'[p].todo = run[p].passed /\ run'[p].passed = {}
           \/ /\ run[p].stage = "verdict" /\ run'[p].stage = "notification"
              /\ run[p].unavailable \subseteq run'[p].todo
           \/ /\ run[p].stage = "notification" /\ run'[p].stage = "finish"
    BY <1>1, <1>11, StageSteps
  <2>2. \A q \in Processes : q # p => run'[q] = run[q]
    BY <1>2, <1>11 DEF NextStage, Goes
  <2>3. WorkHasRows(run[p])'
    BY <1>2, <1>3, <2>1 DEF WorkHasRows, Carried, Run
  <2>4. \A t \in run[p].unavailable : Reported(t) => Reported(t)'
    <3>1. tender' = tender /\ outbox' = outbox
      BY <1>11 DEF NextStage
    <3> QED BY <3>1 DEF Reported
  <2>5. PastIsReported(run[p])'
    BY <1>2, <2>1, <2>4 DEF PastIsReported
  <2> QED BY <1>1, <2>2, <2>3, <2>5, ReportStep
<1>12. ASSUME NEW p \in Processes, BeginVerdict(p)
       PROVE  ReportInv'
  <2>1. PICK t \in run[p].todo :
          /\ Carried(run[p], run'[p]) /\ run'[p].passed = run[p].passed
          /\ run[p].stage = "verdict" /\ run'[p].todo = run[p].todo \ {t}
          /\ \/ run'[p].stage = "thinking" /\ run'[p].at = t
             \/ run'[p].stage = "verdict"
    BY <1>1, <1>12, WorkSteps
  <2>2. \A q \in Processes : q # p => run'[q] = run[q]
    BY <1>2, <1>12 DEF BeginVerdict, Goes
  <2>3. WorkHasRows(run[p])'
    BY <1>2, <1>3, <2>1 DEF WorkHasRows, Carried, Run
  <2>4. PastIsReported(run[p])'
    BY <2>1 DEF PastIsReported
  <2> QED BY <1>1, <2>2, <2>3, <2>4, ReportStep
<1>13. ASSUME NEW p \in Processes, VerdictAvailable(p) \/ VerdictUnavailable(p)
       PROVE  ReportInv'
  <2>1. /\ Carried(run[p], run'[p]) /\ run'[p].passed = run[p].passed
        /\ run'[p].todo = run[p].todo
        /\ run[p].stage = "thinking" /\ run'[p].stage = "verdict"
    BY <1>1, <1>13, WorkSteps
  <2>2. \A q \in Processes : q # p => run'[q] = run[q]
    BY <1>2, <1>13 DEF VerdictAvailable, VerdictUnavailable, Goes
  <2>3. WorkHasRows(run[p])'
    BY <1>2, <1>3, <2>1 DEF WorkHasRows, Carried, Run
  <2>4. PastIsReported(run[p])'
    BY <2>1 DEF PastIsReported
  <2> QED BY <1>1, <2>2, <2>3, <2>4, ReportStep
<1>14. ASSUME NEW p \in Processes, Notify(p) \/ LoseMail(p)
       PROVE  ReportInv'
  <2>1. ~LoseMail(p)
    BY DEF LoseMail, Spend
  <2>2. PICK t \in run[p].todo :
          /\ Carried(run[p], run'[p]) /\ run'[p].passed = run[p].passed
          /\ run'[p].unavailable = run[p].unavailable
          /\ run[p].stage = "notification" /\ run'[p].stage = "notification"
          /\ run'[p].todo = run[p].todo \ {t}
          /\ outbox' = outbox \cup (IF t \in run[p].unavailable THEN Notices(p, t)
                                                                ELSE Mails(p, t))
    BY <1>1, <1>14, <2>1, WorkSteps
  <2>3. \A q \in Processes : q # p => run'[q] = run[q]
    BY <1>2, <1>14 DEF Notify, LoseMail, Goes
  <2>4. tender' = tender /\ outbox \subseteq outbox' /\ t \in Tenders
    BY <1>2, <1>14, <2>2 DEF Notify, LoseMail, Run
  <2>5. WorkHasRows(run[p])'
    BY <1>2, <1>3, <2>2 DEF WorkHasRows, Carried, Run
  <2>6. t \in run[p].unavailable => Reported(t)'
    <3>1. ASSUME t \in run[p].unavailable, tender[t].verdict = 0
          PROVE  Reported(t)'
      <4>1. [tender |-> t, verdict |-> 0, kind |-> "raw", manual |-> FALSE,
             version |-> 0] \in outbox'
        BY <2>2, <3>1 DEF Notices
      <4> QED BY <4>1 DEF Reported
    <3>2. tender[t].verdict \in Nat
      BY <1>2, <2>4 DEF Row
    <3> QED BY <2>4, <3>1, <3>2 DEF Reported
  <2>7. \A u \in Tenders : Reported(u) => Reported(u)'
    BY <2>4 DEF Reported
  <2>8. PastIsReported(run[p])'
    BY <1>2, <2>2, <2>6, <2>7 DEF PastIsReported, Run
  <2> QED BY <1>1, <2>3, <2>5, <2>8, ReportStep
<1>15. ASSUME UNCHANGED <<tender, run, outbox>>
       PROVE  ReportInv'
  BY <1>1, <1>15 DEF ReportInv, UnstoredIsBlank, WorkHasRows, PastIsReported, HasRow, Reported
<1>16. ASSUME NEW t \in Tenders, Publish(t) \/ Expire(t)
       PROVE  ReportInv'
  BY <1>15, <1>16 DEF Publish, Expire
<1> QED
  BY <1>4, <1>5, <1>6, <1>7, <1>8, <1>8a, <1>9, <1>10, <1>11, <1>12, <1>13, <1>14,
     <1>15, <1>16 DEF Next, Pass, vars

\* Where the dispatcher does not raise, every run that ends has reported each of
\* its unavailable verdicts, however many processes run the source and whatever
\* is crashed or interrupted (_stage_notifications: so nothing is lost).
THEOREM FailedVerdictsAreReported ==
  ASSUME "mail" \notin Adverse
  PROVE  Spec => []FailedVerdictIsReported
<1>1. ReportInv => FailedVerdictIsReported
  BY DEF ReportInv, PastIsReported, FailedVerdictIsReported, Reported
<1>2. ReportInv /\ [Next]_vars => ReportInv'
  BY NextReportInv
<1> QED BY <1>1, <1>2, InitReportInv, PTL DEF Spec

-----------------------------------------------------------------------------
(* One process mails a version once and assesses what it processed.        *)
(*                                                                         *)
(* The lock keeps the runs of a source apart inside a process, so that     *)
(* nothing changes a row between a run's read of it and its write.  Then   *)
(* dedup holds a listing only when the site shows a later version than     *)
(* every one that was stored, and a mailed version was stored.             *)

\* one process runs the source
OneProcess == \A p, q \in Processes : p = q

\* the messages of the crawls, and the tenders a crawl may mail
Crawled == {m \in outbox : m.kind # "raw" /\ ~m.manual}
Held(r) == IF r.manual THEN {} ELSE r.new \cup r.updates

\* a row holds a version of its listing that the site has shown
StoredIsPublished ==
  \A t \in Tenders : /\ tender[t].version <= site[t]
                     /\ tender[t].status = "none" => tender[t].version = 0
\* what a run found was on the site, and is no older than the row it will meet
FoundIsFresh(r) ==
  \A t \in Tenders : /\ r.found[t] <= site[t]
                     /\ r.stage \in {"discovery", "dedup"} => tender[t].version <= r.found[t]
\* a row that a run read and still uses has not changed since
SeenIsCurrent(r) ==
  /\ r.stage = "dedup" => \A t \in Tenders : r.seen[t] = ReadOf(tender[t])
  /\ r.stage = "thinking" => r.seen[r.at] = ReadOf(tender[r.at])
\* a crawl holds tenders in the version it stored
HeldIsStored(r) ==
  /\ r.stage \in {"idle", "discovery", "dedup"} => Held(r) = {}
  /\ \A t \in Held(r) : r.found[t] = tender[t].version
\* a version a crawl holds is mailed only when the crawl is past it
CrawledIsPast(r) ==
  \A m \in Crawled : m.tender \in Held(r) /\ m.version = r.found[m.tender]
                     => Past(r, m.tender)
Versioned(r) == FoundIsFresh(r) /\ SeenIsCurrent(r) /\ HeldIsStored(r) /\ CrawledIsPast(r)
\* a version that was mailed has been stored
CrawledIsStored == \A m \in Crawled : m.version <= tender[m.tender].version

\* the inductive invariant
VersionInv == /\ TypeOK /\ StoredIsPublished /\ CrawledIsStored
              /\ \A p \in Processes : Versioned(run[p])
              /\ VersionMailedOnce /\ ProcessedIsAssessed

LEMMA InitVersionInv == Init => VersionInv
<1> SUFFICES ASSUME Init PROVE VersionInv
  OBVIOUS
<1>1. TypeOK
  BY InitTypeOK
<1>2. StoredIsPublished /\ ProcessedIsAssessed
  BY DEF Init, StoredIsPublished, ProcessedIsAssessed, NoRow
<1>3. outbox = {}
  BY DEF Init
<1>4. CrawledIsStored /\ VersionMailedOnce
  BY <1>3 DEF CrawledIsStored, Crawled, VersionMailedOnce
<1>5. ASSUME NEW p \in Processes
      PROVE  Versioned(run[p])
  <2>1. /\ run[p].stage = "idle" /\ run[p].new = {} /\ run[p].updates = {}
        /\ \A t \in Tenders : run[p].found[t] = 0 /\ site[t] = 0
    BY DEF Init, NoRun
  <2> QED BY <1>3, <2>1 DEF Versioned, FoundIsFresh, SeenIsCurrent, HeldIsStored,
             CrawledIsPast, Crawled, Held
<1> QED BY <1>1, <1>2, <1>4, <1>5 DEF VersionInv

\* the step leaves what the rows say of status and version, and the site goes on
RowsSame == /\ \A t \in Tenders : /\ tender'[t].status = tender[t].status
                                  /\ tender'[t].version = tender[t].version
                                  /\ tender'[t].assessed = tender[t].assessed
                                  /\ site[t] <= site'[t]
            /\ outbox' = outbox

\* A step that changes no status, version or message keeps the invariant.
LEMMA VersionQuiet ==
  ASSUME VersionInv, TypeOK', RowsSame, \A p \in Processes : Versioned(run[p])'
  PROVE  VersionInv'
<1>1. /\ \A m \in outbox : m.tender \in Tenders /\ m.version \in 0..MaxVersion
      /\ \A t \in Tenders : /\ site[t] \in 0..MaxVersion /\ site'[t] \in 0..MaxVersion
                            /\ tender[t].version \in 0..MaxVersion
  BY DEF VersionInv, TypeOK, Message, Row
<1>2. StoredIsPublished'
  BY <1>1 DEF VersionInv, StoredIsPublished, RowsSame
<1>3. CrawledIsStored' /\ VersionMailedOnce'
  BY <1>1 DEF VersionInv, CrawledIsStored, Crawled, RowsSame, VersionMailedOnce
<1>4. ProcessedIsAssessed'
  BY DEF VersionInv, ProcessedIsAssessed, RowsSame
<1> QED BY <1>2, <1>3, <1>4 DEF VersionInv

\* A run that carries its listing past a quiet step, and reads no row anew, keeps
\* its part of the invariant.
LEMMA CarriedIsVersioned ==
  ASSUME TypeOK, TypeOK', RowsSame, NEW p \in Processes, Versioned(run[p]),
         Carried(run[p], run'[p]), run'[p].stage \notin {"idle", "discovery", "dedup", "thinking"},
         \A t \in Held(run[p]) : Past(run[p], t) => Past(run'[p], t)
  PROVE  Versioned(run[p])'
<1>1. /\ \A t \in Tenders : /\ site[t] \in 0..MaxVersion /\ site'[t] \in 0..MaxVersion
                            /\ run[p].found[t] \in 0..MaxVersion
      /\ Held(run[p]) \subseteq Tenders
  BY DEF TypeOK, Run, Held
<1>2. Held(run'[p]) = Held(run[p]) /\ run'[p].found = run[p].found
  BY DEF Held, Carried
<1>3. FoundIsFresh(run[p])'
  BY <1>1, <1>2 DEF Versioned, FoundIsFresh, RowsSame
<1>4. SeenIsCurrent(run[p])'
  BY DEF SeenIsCurrent
<1>5. HeldIsStored(run[p])'
  BY <1>1, <1>2 DEF Versioned, HeldIsStored, RowsSame, Held
<1>6. CrawledIsPast(run[p])'
  BY <1>1, <1>2 DEF Versioned, CrawledIsPast, RowsSame, Held, Crawled
<1> QED BY <1>3, <1>4, <1>5, <1>6 DEF Versioned

\* What a dedup transaction writes, read against rows that have not changed.
LEMMA DedupWrites ==
  ASSUME VersionInv, NEW p \in Processes, Dedup(p), NEW t \in Tenders
  PROVE  /\ t \in Created(p) \cup Changed(p) =>
              /\ run[p].found[t] > tender[t].version
              /\ tender'[t].version = run[p].found[t]
              /\ tender'[t].status \in {"new", "updated"}
         /\ t \notin Created(p) \cup Changed(p) => tender'[t] = tender[t]
<1>1. /\ run[p] \in Run /\ tender[t] \in Row /\ run[p].stage = "dedup"
      /\ run[p].found[t] \in 0..MaxVersion /\ tender[t].version \in 0..MaxVersion
  BY DEF VersionInv, TypeOK, Run, Row, Dedup
<1>2. /\ run[p].seen[t] = ReadOf(tender[t]) /\ tender[t].version <= run[p].found[t]
  BY <1>1 DEF VersionInv, Versioned, SeenIsCurrent, FoundIsFresh
<1>3. Base(p, t) = ReadOf(tender[t])
  BY <1>2 DEF Base
<1>4. ReadOf(tender[t]).status = tender[t].status /\ ReadOf(tender[t]).version = tender[t].version
  BY DEF ReadOf
<1>5. CASE t \in Created(p)
  <2>1. run[p].found[t] > 0 /\ tender[t].status = "none"
    BY <1>5 DEF Created, Listed
  <2>2. tender[t].version = 0
    BY <2>1 DEF VersionInv, StoredIsPublished
  <2>3. PICK n : tender'[t] = [NoRow EXCEPT !.status = "new", !.version = run[p].found[t],
                                            !.born = n]
    BY <1>5 DEF Dedup
  <2>4. tender'[t].version = run[p].found[t] /\ tender'[t].status = "new"
    BY <2>3 DEF NoRow
  <2> QED BY <1>5, <2>1, <2>2, <2>4
<1>6. CASE t \in Changed(p) \ Created(p)
  <2>1. run[p].found[t] # tender[t].version
    BY <1>3, <1>4, <1>6 DEF Changed
  <2>2. tender'[t] = Updated(p, t)
    BY <1>6 DEF Dedup
  <2>3. Updated(p, t).version = run[p].found[t] /\ Updated(p, t).status = "updated"
    BY <1>1, <1>3, <1>4 DEF Updated, Row
  <2> QED BY <1>1, <1>2, <1>6, <2>1, <2>2, <2>3
<1>7. CASE t \notin Created(p) \cup Changed(p)
  BY <1>7 DEF Dedup
<1> QED BY <1>5, <1>6, <1>7

LEMMA DedupVersionInv ==
  ASSUME OneProcess, VersionInv, TypeOK', NEW p \in Processes, Dedup(p)
  PROVE  VersionInv'
<1>0. /\ TypeOK /\ outbox' = outbox /\ site' = site /\ run[p] \in Run
      /\ \A q \in Processes : q = p
      /\ Versioned(run[p])
  BY DEF VersionInv, TypeOK, Dedup, OneProcess
<1>1. /\ run'[p].new = Created(p) /\ run'[p].updates = Changed(p)
      /\ run'[p].stage = "select" /\ run'[p].manual = run[p].manual
      /\ run'[p].found = [t \in Tenders |-> IF t \in Created(p) \cup Changed(p)
                                            THEN run[p].found[t] ELSE 0]
  <2> DEFINE found == [t \in Tenders |-> IF t \in Created(p) \cup Changed(p)
                                         THEN run[p].found[t] ELSE 0]
  <2>1. PICK seen : run' = [run EXCEPT ![p] = [run[p] EXCEPT !.stage = "select",
                      !.new = Created(p), !.updates = Changed(p), !.found = found,
                      !.seen = seen]]
    BY DEF Dedup, Goes
  <2> HIDE DEF found
  <2>2. /\ run'[p].new = Created(p) /\ run'[p].updates = Changed(p)
        /\ run'[p].stage = "select" /\ run'[p].manual = run[p].manual
        /\ run'[p].found = found
    BY <1>0, <2>1 DEF Run, TypeOK
  <2> QED BY <2>2 DEF found
<1>2. /\ \A m \in outbox : m.tender \in Tenders /\ m.version \in 0..MaxVersion
      /\ \A t \in Tenders : /\ site[t] \in 0..MaxVersion
                            /\ run[p].found[t] \in 0..MaxVersion
                            /\ tender[t].version \in 0..MaxVersion
                            /\ tender'[t].version \in 0..MaxVersion
      /\ Created(p) \cup Changed(p) \subseteq Tenders
  BY <1>0 DEF TypeOK, Message, Row, Run, Created, Changed, Listed
<1>3. \A t \in Tenders : tender[t].version <= tender'[t].version
  BY <1>2, DedupWrites
<1>4. StoredIsPublished'
  <2> SUFFICES ASSUME NEW t \in Tenders
               PROVE  /\ tender'[t].version <= site[t]
                      /\ tender'[t].status = "none" => tender'[t].version = 0
    BY <1>0 DEF StoredIsPublished
  <2>1. run[p].found[t] <= site[t]
    BY <1>0 DEF Versioned, FoundIsFresh
  <2> QED BY <2>1, DedupWrites DEF VersionInv, StoredIsPublished
<1>5. CrawledIsStored' /\ VersionMailedOnce'
  BY <1>0, <1>2, <1>3 DEF VersionInv, CrawledIsStored, Crawled, VersionMailedOnce
<1>6. ProcessedIsAssessed'
  BY DedupWrites DEF VersionInv, ProcessedIsAssessed
<1>7. Versioned(run[p])'
  <2>1. FoundIsFresh(run[p])'
    <3> SUFFICES ASSUME NEW t \in Tenders PROVE run'[p].found[t] <= site[t]
      BY <1>0, <1>1 DEF FoundIsFresh
    <3>1. run[p].found[t] <= site[t]
      BY <1>0 DEF Versioned, FoundIsFresh
    <3> QED BY <3>1, <1>1, <1>2
  <2>2. SeenIsCurrent(run[p])'
    BY <1>1 DEF SeenIsCurrent
  <2>3. \A t \in Held(run'[p]) : /\ t \in Tenders /\ run'[p].found[t] = run[p].found[t]
                                 /\ run[p].found[t] > tender[t].version
                                 /\ tender'[t].version = run[p].found[t]
    BY <1>1, <1>2, DedupWrites DEF Held
  <2>4. HeldIsStored(run[p])'
    BY <1>1, <2>3 DEF HeldIsStored
  <2>5. CrawledIsPast(run[p])'
    <3> SUFFICES ASSUME NEW m \in Crawled, m.tender \in Held(run'[p])
                 PROVE  m.version # run'[p].found[m.tender]
      BY <1>0 DEF CrawledIsPast, Crawled
    <3>1. m.version <= tender[m.tender].version /\ m \in outbox
      BY DEF VersionInv, CrawledIsStored, Crawled
    <3> QED BY <1>2, <2>3, <3>1
  <2> QED BY <2>1, <2>2, <2>4, <2>5 DEF Versioned
<1> QED BY <1>0, <1>4, <1>5, <1>6, <1>7 DEF VersionInv

\* The engine writes the verdict of the version it read.
LEMMA VerdictVersionInv ==
  ASSUME OneProcess, VersionInv, TypeOK', NEW p \in Processes,
         VerdictAvailable(p) \/ VerdictUnavailable(p)
  PROVE  VersionInv'
<1> DEFINE u == run[p].at
<1>0. /\ TypeOK /\ outbox' = outbox /\ site' = site /\ run[p] \in Run /\ u \in Tenders
      /\ \A q \in Processes : q = p
      /\ Versioned(run[p]) /\ tender \in [Tenders -> Row]
  BY DEF VersionInv, TypeOK, Run, VerdictAvailable, VerdictUnavailable, OneProcess
<1>1. /\ Carried(run[p], run'[p])
      /\ run[p].stage = "thinking" /\ run'[p].stage = "verdict"
  BY <1>0, WorkSteps
<1>2. run[p].seen[u].status = tender[u].status /\ run[p].seen[u].version = tender[u].version
  BY <1>0, <1>1 DEF Versioned, SeenIsCurrent, ReadOf
<1>3. /\ \A t \in Tenders : tender'[t].version = tender[t].version
      /\ \A t \in Tenders \ {u} : tender'[t] = tender[t]
      /\ tender'[u].status = "none" => tender[u].status = "none"
      /\ tender'[u].status = "processed" =>
           \/ tender'[u].assessed = tender[u].version
           \/ tender[u].status = "processed" /\ tender'[u].assessed = tender[u].assessed
  <2>1. CASE VerdictAvailable(p)
    <3>1. PICK n : tender' = [tender EXCEPT ![u] =
            [@ EXCEPT !.status = Set(p, "processed"), !.verdict = n,
                      !.assessed = tender[u].version]]
      BY <1>2, <2>1 DEF VerdictAvailable
    <3>2. Set(p, "processed") = "processed"
      BY <1>2 DEF Set
    <3> QED BY <1>0, <3>1, <3>2 DEF Row
  <2>2. CASE VerdictUnavailable(p)
    <3>1. PICK s \in {"verdict_failed", "awaiting_budget",
                      "awaiting_approved_provider", tender[u].status} :
            tender' = [tender EXCEPT ![u].status = Set(p, s)]
      BY <2>2 DEF VerdictUnavailable
    <3>2. Set(p, s) = s
      BY <1>2 DEF Set
    <3> QED BY <1>0, <3>1, <3>2 DEF Row
  <2> QED BY <2>1, <2>2
<1>4. StoredIsPublished'
  BY <1>0, <1>3 DEF VersionInv, StoredIsPublished
<1>5. CrawledIsStored' /\ VersionMailedOnce'
  <2>1. \A m \in outbox : m.tender \in Tenders
    BY <1>0 DEF TypeOK, Message
  <2> QED BY <1>0, <1>3, <2>1 DEF VersionInv, CrawledIsStored, Crawled, VersionMailedOnce
<1>6. ProcessedIsAssessed'
  BY <1>3 DEF VersionInv, ProcessedIsAssessed
<1>7. Versioned(run[p])'
  <2>1. Held(run'[p]) = Held(run[p]) /\ run'[p].found = run[p].found
    BY <1>1 DEF Held, Carried
  <2>2. Held(run[p]) \subseteq Tenders
    BY <1>0 DEF Held, Run
  <2>3. FoundIsFresh(run[p])'
    BY <1>0, <1>1, <2>1 DEF Versioned, FoundIsFresh
  <2>4. SeenIsCurrent(run[p])'
    BY <1>1 DEF SeenIsCurrent
  <2>5. HeldIsStored(run[p])'
    BY <1>0, <1>1, <1>3, <2>1, <2>2 DEF Versioned, HeldIsStored, Held
  <2>6. CrawledIsPast(run[p])'
    BY <1>0, <1>1, <2>1 DEF Versioned, CrawledIsPast, Held, Crawled, Past
  <2> QED BY <2>3, <2>4, <2>5, <2>6 DEF Versioned
<1> QED BY <1>0, <1>4, <1>5, <1>6, <1>7 DEF VersionInv

\* A crawl mails a tender in the version it holds, and goes past it.
LEMMA NotifyVersionInv ==
  ASSUME OneProcess, VersionInv, TypeOK', NEW p \in Processes, Notify(p)
  PROVE  VersionInv'
<1>0. /\ TypeOK /\ site' = site /\ tender' = tender /\ run[p] \in Run
      /\ \A q \in Processes : q = p
      /\ Versioned(run[p])
  BY DEF VersionInv, TypeOK, Notify, OneProcess
<1>1. PICK t \in run[p].todo :
        /\ Carried(run[p], run'[p])
        /\ run[p].stage = "notification" /\ run'[p].stage = "notification"
        /\ run'[p].todo = run[p].todo \ {t}
        /\ outbox' \subseteq outbox \cup Notices(p, t) \cup Mails(p, t)
        /\ outbox \subseteq outbox'
  <2>1. ~LoseMail(p) \/ outbox' = outbox
    BY DEF LoseMail
  <2> QED BY <1>0, <2>1, WorkSteps
<1> DEFINE mail == [tender |-> t, verdict |-> run[p].available[t], manual |-> run[p].manual,
                    kind |-> IF t \in run[p].updates THEN "update" ELSE "new",
                    version |-> run[p].found[t]]
<1>2. \A m \in Crawled' \ Crawled : m = mail /\ t \in Held(run[p])
  <2> SUFFICES ASSUME NEW m \in Crawled', m \notin Crawled
               PROVE  m = mail /\ t \in Held(run[p])
    OBVIOUS
  <2>1. m.kind # "raw" /\ ~m.manual /\ (m \in Notices(p, t) \/ m \in Mails(p, t))
    BY <1>1 DEF Crawled
  <2>2. m \notin Notices(p, t)
    BY <2>1 DEF Notices
  <2>3. Known(p, t) /\ m = mail
    BY <2>1, <2>2 DEF Mails
  <2>4. run[p].manual = FALSE
    BY <2>1, <2>3, <1>0 DEF Run
  <2> QED BY <2>3, <2>4 DEF Known, Held
<1>3. mail.tender = t /\ mail.version = run[p].found[t]
  OBVIOUS
<1> HIDE DEF mail
<1>4. Crawled \subseteq Crawled'
  BY <1>1 DEF Crawled
<1>5. t \in Held(run[p]) => /\ run[p].found[t] = tender[t].version
                            /\ \A m \in Crawled : ~(m.tender = t /\ m.version = mail.version)
  BY <1>0, <1>1, <1>3 DEF Versioned, HeldIsStored, CrawledIsPast, Past
<1>6. t \in Tenders /\ tender[t].version \in 0..MaxVersion
  BY <1>0, <1>1 DEF Run, TypeOK, Row
<1>7. StoredIsPublished' /\ ProcessedIsAssessed'
  BY <1>0 DEF VersionInv, StoredIsPublished, ProcessedIsAssessed
<1>8. CrawledIsStored'
  <2> SUFFICES ASSUME NEW m \in Crawled' PROVE m.version <= tender[m.tender].version
    BY <1>0 DEF CrawledIsStored
  <2>1. CASE m \in Crawled
    BY <2>1 DEF VersionInv, CrawledIsStored
  <2>2. CASE m \notin Crawled
    BY <2>2, <1>2, <1>3, <1>5, <1>6
  <2> QED BY <2>1, <2>2
<1>9. VersionMailedOnce'
  <2> SUFFICES ASSUME NEW m \in Crawled', NEW n \in Crawled',
                      m.tender = n.tender, m.version = n.version
               PROVE  m = n
    BY DEF VersionMailedOnce, Crawled
  <2>1. CASE m \in Crawled /\ n \in Crawled
    BY <2>1 DEF VersionInv, VersionMailedOnce, Crawled
  <2>2. CASE m \notin Crawled /\ n \notin Crawled
    BY <2>2, <1>2
  <2>3. CASE m \in Crawled /\ n \notin Crawled
    BY <2>3, <1>2, <1>3, <1>5
  <2>4. CASE m \notin Crawled /\ n \in Crawled
    BY <2>4, <1>2, <1>3, <1>5
  <2> QED BY <2>1, <2>2, <2>3, <2>4
<1>10. Versioned(run[p])'
  <2>1. Held(run'[p]) = Held(run[p]) /\ run'[p].found = run[p].found
    BY <1>1 DEF Held, Carried
  <2>2. FoundIsFresh(run[p])'
    BY <1>0, <1>1, <2>1 DEF Versioned, FoundIsFresh
  <2>3. SeenIsCurrent(run[p])'
    BY <1>1 DEF SeenIsCurrent
  <2>4. HeldIsStored(run[p])'
    BY <1>0, <1>1, <2>1 DEF Versioned, HeldIsStored, Held
  <2>5. CrawledIsPast(run[p])'
    <3> SUFFICES ASSUME NEW m \in Crawled', m.tender \in Held(run[p]),
                        m.version = run[p].found[m.tender]
                 PROVE  Past(run'[p], m.tender)
      BY <2>1 DEF CrawledIsPast, Held
    <3>1. CASE m \in Crawled
      BY <3>1, <1>0, <1>1 DEF Versioned, CrawledIsPast, Past
    <3>2. CASE m \notin Crawled
      BY <3>2, <1>1, <1>2, <1>3 DEF Past
    <3> QED BY <3>1, <3>2
  <2> QED BY <2>2, <2>3, <2>4, <2>5 DEF Versioned
<1> QED BY <1>0, <1>7, <1>8, <1>9, <1>10 DEF VersionInv

\* Every action of the one process keeps the invariant.
LEMMA NextVersionInv ==
  ASSUME OneProcess, VersionInv, [Next]_vars
  PROVE  VersionInv'
<1>1. TypeOK /\ TypeOK'
  BY NextTypeOK DEF VersionInv
<1>2. /\ \A p, q \in Processes : q = p
      /\ \A p \in Processes : Versioned(run[p]) /\ run[p] \in Run
      /\ run \in [Processes -> Run] /\ tender \in [Tenders -> Row]
      /\ \A t \in Tenders : /\ site[t] \in 0..MaxVersion /\ tender[t].version \in 0..MaxVersion
                            /\ tender[t].version <= site[t]
  BY <1>1 DEF VersionInv, TypeOK, OneProcess, Row, StoredIsPublished
<1>3. (tender' = tender /\ outbox' = outbox /\ site' = site) => RowsSame
  BY <1>2 DEF RowsSame
<1>4. ASSUME NEW p \in Processes, RowsSame, Versioned(run[p])'
      PROVE  VersionInv'
  BY <1>1, <1>2, <1>4, VersionQuiet
<1>5. ASSUME NEW p \in Processes, StartRun(p) \/ Finish(p) \/ Crash(p)
      PROVE  VersionInv'
  <2>1. RowsSame
    BY <1>3, <1>5 DEF StartRun, Finish, Crash
  <2>2. PICK r : /\ run' = [run EXCEPT ![p] = r]
                 /\ r.new = {} /\ r.updates = {} /\ r.stage \in {"idle", "discovery"}
                 /\ \/ r.found = site
                    \/ r.found = [t \in Tenders |-> 0] /\ r.stage = "idle"
    <3>1. CASE StartRun(p)
      <4> DEFINE r == [NoRun EXCEPT !.stage = "discovery", !.found = site]
      <4>1. run' = [run EXCEPT ![p] = r]
        BY <3>1 DEF StartRun, Goes
      <4>2. r.new = {} /\ r.updates = {} /\ r.stage = "discovery" /\ r.found = site
        BY DEF NoRun
      <4> HIDE DEF r
      <4> QED BY <4>1, <4>2
    <3>2. CASE Finish(p) \/ Crash(p)
      <4>1. run' = [run EXCEPT ![p] = NoRun]
        BY <3>2 DEF Finish, Crash, Goes
      <4>2. /\ NoRun.new = {} /\ NoRun.updates = {} /\ NoRun.stage = "idle"
            /\ NoRun.found = [t \in Tenders |-> 0]
        BY DEF NoRun
      <4> QED BY <4>1, <4>2
    <3> QED BY <1>5, <3>1, <3>2
  <2>3. run'[p] = r /\ Held(r) = {} /\ site' = site /\ tender' = tender
    BY <1>2, <1>5, <2>2 DEF Held, StartRun, Finish, Crash
  <2>4. Versioned(run[p])'
    <3>1. \A t \in Tenders : /\ r.found[t] <= site[t]
                             /\ r.stage = "discovery" => tender[t].version <= r.found[t]
      BY <1>2, <2>2
    <3>2. FoundIsFresh(run[p])'
      BY <2>2, <2>3, <3>1 DEF FoundIsFresh
    <3>3. SeenIsCurrent(run[p])' /\ HeldIsStored(run[p])' /\ CrawledIsPast(run[p])'
      BY <2>2, <2>3 DEF SeenIsCurrent, HeldIsStored, CrawledIsPast
    <3> QED BY <3>2, <3>3 DEF Versioned
  <2> QED BY <1>4, <2>1, <2>4
<1>6. ASSUME NEW p \in Processes, NEW t \in Tenders, StartManual(p, t)
      PROVE  VersionInv'
  <2>1. RowsSame /\ site' = site
    BY <1>3, <1>6 DEF StartManual
  <2>2. /\ run'[p].stage = "detail" /\ run'[p].manual = TRUE
        /\ run'[p].found = [u \in Tenders |-> 0]
    <3> DEFINE T == IF tender[t].is_update THEN {t} ELSE {}
               r == [NoRun EXCEPT !.stage = "detail", !.manual = TRUE, !.todo = {t},
                                  !.updates = T]
    <3>1. run' = [run EXCEPT ![p] = r]
      BY <1>6 DEF StartManual, Goes
    <3>2. r.stage = "detail" /\ r.manual = TRUE /\ r.found = [u \in Tenders |-> 0]
      <4> HIDE DEF T
      <4> QED BY DEF NoRun
    <3> HIDE DEF r
    <3> QED BY <1>2, <3>1, <3>2
  <2>3. Held(run'[p]) = {}
    BY <2>2 DEF Held
  <2>4. FoundIsFresh(run[p])'
    BY <1>2, <2>1, <2>2 DEF FoundIsFresh
  <2>5. SeenIsCurrent(run[p])' /\ HeldIsStored(run[p])' /\ CrawledIsPast(run[p])'
    BY <2>2, <2>3 DEF SeenIsCurrent, HeldIsStored, CrawledIsPast
  <2> QED BY <1>4, <2>1, <2>4, <2>5 DEF Versioned
<1>7. ASSUME NEW p \in Processes, LoadSeen(p)
      PROVE  VersionInv'
  <2>1. RowsSame /\ site' = site /\ tender' = tender
    BY <1>3, <1>7 DEF LoadSeen
  <2>2. /\ Kept(run[p], run'[p]) /\ run'[p].stage = "dedup"
        /\ run'[p].seen = [t \in Tenders |-> ReadOf(tender[t])]
        /\ run[p].stage = "discovery"
    BY <1>1, <1>7, StageSteps DEF LoadSeen
  <2>3. Held(run'[p]) = {} /\ run'[p].found = run[p].found
    <3>1. Held(run[p]) = {}
      BY <1>2, <2>2 DEF Versioned, HeldIsStored
    <3> QED BY <2>2, <3>1 DEF Held, Kept, Carried
  <2>4. FoundIsFresh(run[p])'
    BY <1>2, <2>1, <2>2, <2>3 DEF Versioned, FoundIsFresh
  <2>5. SeenIsCurrent(run[p])'
    BY <2>1, <2>2 DEF SeenIsCurrent, ReadOf
  <2>6. HeldIsStored(run[p])' /\ CrawledIsPast(run[p])'
    BY <2>3 DEF HeldIsStored, CrawledIsPast
  <2> QED BY <1>4, <2>1, <2>4, <2>5, <2>6 DEF Versioned
<1>8. ASSUME NEW p \in Processes, BeginVerdict(p)
      PROVE  VersionInv'
  <2>1. RowsSame /\ site' = site /\ tender' = tender /\ outbox' = outbox
    BY <1>3, <1>8 DEF BeginVerdict
  <2>2. PICK t \in run[p].todo :
          /\ Carried(run[p], run'[p]) /\ run[p].stage = "verdict"
          /\ \/ /\ run'[p].stage = "thinking" /\ run'[p].at = t
                /\ run'[p].seen = [run[p].seen EXCEPT ![t] = ReadOf(tender[t])]
             \/ run'[p].stage = "verdict"
    BY <1>1, <1>8, WorkSteps
  <2>3. Held(run'[p]) = Held(run[p]) /\ run'[p].found = run[p].found
    BY <2>2 DEF Held, Carried
  <2>4. t \in Tenders /\ run[p].seen \in [Tenders -> Read]
    BY <1>2 DEF Run
  <2>5. FoundIsFresh(run[p])'
    BY <1>2, <2>1, <2>2, <2>3 DEF Versioned, FoundIsFresh
  <2>6. SeenIsCurrent(run[p])'
    BY <2>1, <2>2, <2>4 DEF SeenIsCurrent, ReadOf
  <2>7. HeldIsStored(run[p])'
    BY <1>2, <2>1, <2>2, <2>3 DEF Versioned, HeldIsStored, Held
  <2>8. CrawledIsPast(run[p])'
    BY <1>2, <2>1, <2>2, <2>3 DEF Versioned, CrawledIsPast, Crawled, Held, Past
  <2> QED BY <1>4, <2>1, <2>5, <2>6, <2>7, <2>8 DEF Versioned
<1>9. ASSUME NEW p \in Processes,
             \/ FailStage(p) \/ BreakRun(p) \/ Select(p) \/ ReadDetails(p)
             \/ NextStage(p) \/ Triage(p) \/ LoseMail(p)
      PROVE  VersionInv'
  <2>1. RowsSame
    <3>1. CASE Triage(p)
      <4>1. PICK t, d : tender' = [tender EXCEPT ![t].triage = d]
        BY <1>1, <3>1, WorkSteps
      <4>2. \A u \in Tenders : /\ tender'[u].status = tender[u].status
                               /\ tender'[u].version = tender[u].version
                               /\ tender'[u].assessed = tender[u].assessed
        BY <1>2, <4>1 DEF Row
      <4> QED BY <1>2, <3>1, <4>2 DEF Triage, RowsSame
    <3> QED BY <1>3, <1>9, <3>1 DEF FailStage, BreakRun, Select, ReadDetails, NextStage, LoseMail
  <2>2. /\ Carried(run[p], run'[p])
        /\ run'[p].stage \notin {"idle", "discovery", "dedup", "thinking"}
        /\ \A t \in Held(run[p]) : Past(run[p], t) => Past(run'[p], t)
    <3>1. CASE FailStage(p) \/ BreakRun(p)
      BY <1>1, <3>1, StageSteps DEF Kept, Past
    <3>2. CASE Select(p)
      <4>1. run[p].stage = "select"
        BY <3>2 DEF Select
      <4> QED BY <1>1, <3>2, <4>1, StageSteps DEF Past
    <3>3. CASE NextStage(p)
      <4>1. /\ Carried(run[p], run'[p])
            /\ \/ run[p].stage = "triage" /\ run'[p].stage = "verdict"
               \/ run[p].stage = "verdict" /\ run'[p].stage = "notification"
               \/ run[p].stage = "notification" /\ run'[p].stage = "finish" /\ run'[p].todo = {}
        BY <1>1, <3>3, StageSteps
      <4> QED BY <4>1 DEF Past
    <3>4. CASE Triage(p)
      <4>1. Carried(run[p], run'[p]) /\ run[p].stage = "triage" /\ run'[p].stage = "triage"
        BY <1>1, <3>4, WorkSteps
      <4> QED BY <4>1 DEF Past
    <3>5. CASE LoseMail(p)
      <4>1. PICK t : /\ Carried(run[p], run'[p]) /\ run[p].stage = "notification"
                     /\ run'[p].stage = "notification" /\ run'[p].todo = run[p].todo \ {t}
        BY <1>1, <3>5, WorkSteps
      <4> QED BY <4>1 DEF Past
    <3>6. CASE ReadDetails(p)
      BY <1>1, <3>6, StageSteps DEF Kept, Past
    <3> QED BY <1>9, <3>1, <3>2, <3>3, <3>4, <3>5, <3>6
  <2>3. Versioned(run[p])'
    BY <1>1, <1>2, <2>1, <2>2, CarriedIsVersioned
  <2> QED BY <1>4, <2>1, <2>3
<1>10. ASSUME NEW p \in Processes, Dedup(p)
       PROVE  VersionInv'
  BY <1>1, <1>10, DedupVersionInv
<1>11. ASSUME NEW p \in Processes, VerdictAvailable(p) \/ VerdictUnavailable(p)
       PROVE  VersionInv'
  BY <1>1, <1>11, VerdictVersionInv
<1>12. ASSUME NEW p \in Processes, Notify(p)
       PROVE  VersionInv'
  BY <1>1, <1>12, NotifyVersionInv
<1>13. ASSUME UNCHANGED <<tender, run, outbox>>, \A t \in Tenders : site[t] <= site'[t]
       PROVE  VersionInv'
  <2>1. RowsSame
    BY <1>13 DEF RowsSame
  <2>2. ASSUME NEW p \in Processes
        PROVE  Versioned(run[p])'
    <3>1. \A t \in Tenders : site'[t] \in 0..MaxVersion /\ run[p].found[t] \in 0..MaxVersion
      BY <1>1, <1>2 DEF TypeOK, Run
    <3>2. FoundIsFresh(run[p])'
      BY <1>2, <1>13, <3>1 DEF Versioned, FoundIsFresh
    <3>3. SeenIsCurrent(run[p])'
      BY <1>2, <1>13 DEF Versioned, SeenIsCurrent
    <3>4. HeldIsStored(run[p])' /\ CrawledIsPast(run[p])'
      BY <1>2, <1>13 DEF Versioned, HeldIsStored, CrawledIsPast, Crawled
    <3> QED BY <3>2, <3>3, <3>4 DEF Versioned
  <2> QED BY <1>1, <2>1, <2>2, VersionQuiet
<1>14. ASSUME NEW t \in Tenders, Publish(t) \/ Expire(t)
       PROVE  VersionInv'
  <2>1. \A u \in Tenders : site[u] <= site'[u]
    BY <1>1, <1>2, <1>14 DEF Publish, Expire, TypeOK
  <2> QED BY <1>13, <1>14, <2>1 DEF Publish, Expire
<1>15. ASSUME UNCHANGED vars
       PROVE  VersionInv'
  BY <1>2, <1>13, <1>15 DEF vars
<1> QED BY <1>5, <1>6, <1>7, <1>8, <1>9, <1>10, <1>11, <1>12, <1>14, <1>15 DEF Next, Pass

\* One process, whatever crashes, fails or is reprocessed in it, mails a version
\* of a listing at most once (docs/04 4.7: re-running never sends a duplicate).
THEOREM VersionIsMailedOnce ==
  ASSUME OneProcess
  PROVE  Spec => []VersionMailedOnce
<1>1. VersionInv => VersionMailedOnce
  BY DEF VersionInv
<1>2. VersionInv /\ [Next]_vars => VersionInv'
  BY NextVersionInv
<1> QED BY <1>1, <1>2, InitVersionInv, PTL DEF Spec

\* In one process a processed tender has been assessed in the version stored
\* (apply_update against VerdictEngine.generate).
THEOREM ProcessedTendersAreAssessed ==
  ASSUME OneProcess
  PROVE  Spec => []ProcessedIsAssessed
<1>1. VersionInv => ProcessedIsAssessed
  BY DEF VersionInv
<1>2. VersionInv /\ [Next]_vars => VersionInv'
  BY NextVersionInv
<1> QED BY <1>1, <1>2, InitVersionInv, PTL DEF Spec
=============================================================================
