---------------------------- MODULE Console_proofs ----------------------------
(* The locks of the admin process, its last developer recipient and its       *)
(* knowledge base, for any number of requests, sources, recipients and        *)
(* troubles and for every mixture of requests; and what can lose a crawl, and *)
(* what a crawl may miss, for every source and list.                          *)
EXTENDS Console, Listings, FiniteSetTheorems, SequenceTheorems,
        WellFoundedInduction, TLAPS

Operation_ == [by : Requests, status : {"QUEUED", "RUNNING"} \cup Outcomes]

\* What an upload works on is a file; only then is the type invariant inductive.
UploadsAreFiles == \A r \in Requests : task[r].kind = "upload" => task[r].on \in Files
TypeInv == TypeOK /\ UploadsAreFiles

LEMMA Apart == Loop \notin Requests /\ Nobody \notin Requests /\ Loop # Nobody
               /\ Nobody \notin Staff /\ Nobody \notin Portals
BY ConsoleConstants

\* _record_operation keeps a list of operations.
LEMMA MarkedOperations ==
  ASSUME TypeOK, NEW r \in Requests, NEW s \in {"RUNNING"} \cup Outcomes
  PROVE  Marked(r, s) \in Seq(Operation_)
<1> DEFINE ops == [i \in DOMAIN operations |->
                     IF operations[i].by = r THEN [operations[i] EXCEPT !.status = s]
                                             ELSE operations[i]]
           extra == IF Len(ops) > Capacity THEN Len(ops) - Capacity ELSE 0
<1>1. operations \in Seq(Operation_)
  BY DEF TypeOK, Operation_
<1>2. \A i \in 1..Len(operations) : operations[i] \in Operation_
  BY <1>1
<1>3. ops \in [1..Len(operations) -> Operation_]
  BY <1>1, <1>2 DEF Operation_
<1>4. ops \in Seq(Operation_) /\ Len(ops) = Len(operations)
  BY <1>1, <1>3
<1>5. extra \in Nat /\ extra <= Len(ops)
  BY <1>4, ConsoleConstants
<1> HIDE DEF ops, extra
<1>6. SubSeq(ops, extra + 1, Len(ops)) \in Seq(Operation_)
  BY <1>4, <1>5
<1> QED BY <1>6 DEF Marked, ops, extra

-----------------------------------------------------------------------------
(* Types *)

LEMMA InitType == ConsoleInit => TypeOK
<1> SUFFICES ASSUME ConsoleInit PROVE TypeOK
  OBVIOUS
<1>1. Waiting \in Task
  BY DEF Waiting, Task, Steps, Outcomes
<1>2. task \in [Requests -> Task]
  BY <1>1 DEF ConsoleInit
<1>3. operations \in Seq(Operation_)
  BY DEF ConsoleInit
<1> QED BY <1>2, <1>3, ConsoleConstants DEF ConsoleInit, TypeOK, Resting, Operation_

\* A request goes on, and nothing else of it changes.
LEMMA GoesType ==
  ASSUME TypeOK, NEW r \in Requests, NEW a \in Steps
  PROVE  [task EXCEPT ![r].at = a] \in [Requests -> Task]
<1>1. task \in [Requests -> Task]
  BY DEF TypeOK
<1>2. [task[r] EXCEPT !.at = a] \in Task
  BY <1>1 DEF Task
<1> QED BY <1>1, <1>2

LEMMA FieldType ==
  ASSUME NEW x \in Task
  PROVE  /\ \A S \in SUBSET Requests : [x EXCEPT !.seen = S] \in Task
         /\ \A y \in {"active", "inactive", "gone"} : [x EXCEPT !.row = y] \in Task
         /\ \A a \in Steps, y \in Outcomes : [x EXCEPT !.at = a, !.result = y] \in Task
BY DEF Task

LEMMA StepNames ==
  {"new", "asked", "queued", "running", "ran", "read", "guarded", "stored", "composed",
   "cleared", "saved", "done"} \subseteq Steps
BY DEF Steps

LEMMA RunType ==
  ASSUME TypeOK, NEW p
  PROVE  RunOf(p) \in [Portals -> [active : BOOLEAN, due : BOOLEAN]]
BY DEF TypeOK, RunOf

LEMMA OperationType ==
  ASSUME TypeOK, NEW r \in Requests,
         \/ Operation(r) \/ CommitFails(r)
         \/ \E p \in Portals, k \in {"source", "tender"} : Ask(r, k, p)
  PROVE  TypeOK'
<1> USE DEF stored, memory, Goes, Mishap
<1>1. CASE \E p \in Portals, k \in {"source", "tender"} : Ask(r, k, p)
  <2>1. PICK p \in Portals, k \in {"source", "tender"} : Ask(r, k, p)
    BY <1>1
  <2>2. Opens(r, k, p, "asked") \in Task
    BY DEF Opens, Waiting, Task, Steps, Outcomes, Kinds
  <2>3. Append(operations, [by |-> r, status |-> "QUEUED"]) \in Seq(Operation_)
    <3>1. [by |-> r, status |-> "QUEUED"] \in Operation_
      BY DEF Operation_
    <3> QED BY <3>1 DEF TypeOK, Operation_
  <2> QED BY <2>1, <2>2, <2>3 DEF Ask, TypeOK, Operation_
<1>2. CASE Accept(r)
  BY <1>2, GoesType, StepNames DEF Accept, TypeOK
<1>3. CASE CommitFails(r)
  BY <1>3, GoesType, StepNames, ConsoleConstants DEF CommitFails, TypeOK
<1>4. CASE Begin(r)
  <2>1. Marked(r, "RUNNING") \in Seq(Operation_)
    BY MarkedOperations
  <2> QED BY <1>4, <2>1, GoesType, StepNames DEF Begin, TypeOK, Operation_
<1>5. CASE \E result \in {"COMPLETED", "FAILED"} : Run(r, result)
  <2>1. PICK result \in {"COMPLETED", "FAILED"} : Run(r, result)
    BY <1>5
  <2>2. task[r] \in Task /\ result \in Outcomes /\ "ran" \in Steps
    BY DEF TypeOK, Outcomes, Steps
  <2>3. [task[r] EXCEPT !.at = "ran", !.result = result] \in Task
    BY <2>2, FieldType
  <2>4. task' = [task EXCEPT ![r] = [task[r] EXCEPT !.at = "ran", !.result = result]]
    BY <2>1 DEF Run, TypeOK
  <2>5. task' \in [Requests -> Task]
    BY <2>3, <2>4 DEF TypeOK
  <2>6. portal' \in [Portals -> [active : BOOLEAN, due : BOOLEAN]]
    BY <2>1, RunType DEF Run, TypeOK
  <2> QED BY <2>1, <2>5, <2>6 DEF Run, TypeOK
<1>6. CASE Finish(r)
  <2>1. task[r].result \in Outcomes
    BY DEF TypeOK, Task
  <2>2. Marked(r, task[r].result) \in Seq(Operation_)
    BY <2>1, MarkedOperations
  <2> QED BY <1>6, <2>2, GoesType, StepNames DEF Finish, TypeOK, Operation_
<1> QED BY <1>1, <1>2, <1>3, <1>4, <1>5, <1>6 DEF Operation

LEMMA LoopType ==
  ASSUME TypeOK, LoopStep
  PROVE  TypeOK'
<1> USE DEF stored, memory, Resting
<1>1. CASE LoopPoll
  BY <1>1 DEF LoopPoll, TypeOK
<1>2. CASE LoopRun
  <2>1. portal' \in [Portals -> [active : BOOLEAN, due : BOOLEAN]]
    BY <1>2, RunType DEF LoopRun
  <2>2. loop' \in [at : {"idle", "pass", "running", "ran"}, todo : SUBSET Portals,
                   on : Portals \cup {Nobody}]
    BY <1>2 DEF LoopRun, TypeOK
  <2> QED BY <1>2, <2>1, <2>2 DEF LoopRun, TypeOK
<1>3. CASE LoopRelease
  BY <1>3 DEF LoopRelease, TypeOK
<1>4. CASE LoopSleep
  BY <1>4 DEF LoopSleep, TypeOK
<1>5. CASE \E p \in Portals : LoopSkip(p)
  <2>1. PICK p \in Portals : LoopSkip(p)
    BY <1>5
  <2>2. loop' \in [at : {"idle", "pass", "running", "ran"}, todo : SUBSET Portals,
                   on : Portals \cup {Nobody}]
    BY <2>1 DEF LoopSkip, TypeOK
  <2> QED BY <2>1, <2>2 DEF LoopSkip, TypeOK
<1>6. CASE \E p \in Portals : LoopTake(p)
  BY <1>6 DEF LoopTake, TypeOK
<1> QED BY <1>1, <1>2, <1>3, <1>4, <1>5, <1>6 DEF LoopStep

\* The two ways a guard and a beginning go.
LEMMA GuardWays ==
  ASSUME NEW r, Guard(r)
  PROVE  /\ task[r].at = "read"
         /\ \E a \in {"done", "guarded"} : task' = [task EXCEPT ![r].at = a]
         /\ gate' \in {gate, r}
<1>1. CASE Cardinality(OnDuty) <= 1
  BY <1>1 DEF Guard, Goes
<1>2. CASE ~(Cardinality(OnDuty) <= 1)
  BY <1>2 DEF Guard, Goes
<1> QED BY <1>1, <1>2

LEMMA BeginWays ==
  ASSUME NEW r, Begin(r)
  PROVE  /\ task[r].at = "queued"
         /\ \/ task' = [task EXCEPT ![r].at = "running"] /\ leaked' = leaked
            \/ task' = [task EXCEPT ![r].at = "done"] /\ leaked' = leaked \cup {r}
         /\ UNCHANGED <<stored, gate, lock, loop, trouble, scene>>
<1>1. CASE Recorded(r)
  BY <1>1 DEF Begin, Goes
<1>2. CASE ~Recorded(r)
  BY <1>2 DEF Begin, Goes
<1> QED BY <1>1, <1>2

\* the edits; each changes the request and at most one table
LEMMA OpensType ==
  ASSUME NEW r, NEW k \in Kinds, NEW x \in Portals \cup Staff \cup Files \cup {Nobody},
         NEW a \in Steps
  PROVE  Opens(r, k, x, a) \in Task
BY DEF Opens, Waiting, Task, Outcomes

LEMMA EditType ==
  ASSUME TypeInv, NEW r \in Requests, Edit(r)
  PROVE  TypeOK'
<1> USE DEF stored, memory, Goes, Mishap, Arrives
<1>0. TypeOK
  BY DEF TypeInv
<1>1. CASE Switch(r)
  <2>1. Opens(r, "switch", Nobody, "saved") \in Task
    BY <1>0, OpensType, StepNames DEF Kinds
  <2> QED BY <1>0, <1>1, <2>1 DEF Switch, TypeOK
<1>2. CASE ReadRules(r)
  <2>1. [Opens(r, "triage", Nobody, "read") EXCEPT !.seen = rules] \in Task
    BY <1>0, OpensType, StepNames, FieldType DEF TypeOK, Kinds
  <2> QED BY <1>0, <1>2, <2>1 DEF ReadRules, TypeOK
<1>3. CASE SaveRules(r)
  <2>1. task' \in [Requests -> Task]
    BY <1>0, <1>3, GoesType, StepNames DEF SaveRules
  <2>2. rules' \subseteq Requests
    <3>1. task[r].seen \subseteq Requests
      BY <1>0 DEF TypeOK, Task
    <3> QED BY <1>0, <1>3, <3>1 DEF SaveRules
  <2> QED BY <1>0, <1>3, <2>1, <2>2 DEF SaveRules, TypeOK
<1>4. CASE Guard(r)
  <2>1. task' \in [Requests -> Task]
    <3>1. PICK a \in {"done", "guarded"} : task' = [task EXCEPT ![r].at = a]
      BY <1>4, GuardWays
    <3>2. a \in Steps
      BY StepNames
    <3> QED BY <1>0, <3>1, <3>2, GoesType
  <2>2. gate' \in Requests \cup {Nobody}
    BY <1>0, <1>4 DEF Guard, TypeOK
  <2> QED BY <1>0, <1>4, <2>1, <2>2 DEF Guard, TypeOK
<1>5. CASE RemoveRecipient(r)
  BY <1>0, <1>5, GoesType, StepNames DEF RemoveRecipient, TypeOK
<1>6. CASE StoreUpload(r)
  <2>1. task[r].kind = "upload" /\ task[r].at = "read"
    BY <1>0, <1>6 DEF StoreUpload
  <2>2. task' \in [Requests -> Task]
    BY <1>0, <1>6, GoesType, StepNames DEF StoreUpload
  <2>3. task[r].on \in Files
    BY <1>0, <2>1 DEF TypeInv, UploadsAreFiles
  <2> QED BY <1>0, <1>6, <2>2, <2>3 DEF StoreUpload, TypeOK
<1>7. CASE StoreFails(r)
  BY <1>0, <1>7, ConsoleConstants, GoesType, StepNames DEF StoreFails, TypeOK
<1>8. CASE InsertUpload(r)
  <2>1. task' \in [Requests -> Task]
    BY <1>0, <1>8, GoesType, StepNames DEF InsertUpload
  <2>2. task[r].on \in Files
    BY <1>0, <1>8 DEF InsertUpload, TypeInv, UploadsAreFiles
  <2> QED BY <1>0, <1>8, <2>1, <2>2 DEF InsertUpload, TypeOK
<1>9. CASE Recheck(r)
  BY <1>0, <1>9, GoesType, StepNames DEF Recheck, TypeOK
<1>10. CASE \E p \in Portals : Toggle(r, p)
  <2>1. PICK p \in Portals : Toggle(r, p)
    BY <1>10
  <2>2. Opens(r, "toggle", p, "saved") \in Task
    BY <1>0, OpensType, StepNames DEF Kinds
  <2>3. portal' \in [Portals -> [active : BOOLEAN, due : BOOLEAN]]
    BY <1>0, <2>1 DEF Toggle, TypeOK
  <2>4. task' \in [Requests -> Task]
    BY <1>0, <2>1, <2>2 DEF Toggle, TypeOK
  <2> QED BY <1>0, <2>1, <2>3, <2>4 DEF Toggle, TypeOK
<1>11. CASE \E s \in Staff : Revive(r, s)
  <2>1. PICK s \in Staff : Revive(r, s)
    BY <1>0, <1>11
  <2>2. Opens(r, "revive", s, "saved") \in Task
    BY <1>0, OpensType, StepNames DEF Kinds
  <2> QED BY <1>0, <2>1, <2>2 DEF Revive, TypeOK
<1>12. CASE \E s \in Staff : ComposeMail(r, s)
  <2>1. PICK s \in Staff : ComposeMail(r, s)
    BY <1>0, <1>12
  <2>2. Opens(r, "mail", s, "composed") \in Task
    BY <1>0, OpensType, StepNames DEF Kinds
  <2> QED BY <1>0, <2>1, <2>2 DEF ComposeMail, TypeOK
<1>13. CASE \E s \in Staff, k \in {"remove", "retire"} : ReadRecipient(r, k, s)
  <2>1. PICK s \in Staff, k \in {"remove", "retire"} : ReadRecipient(r, k, s)
    BY <1>0, <1>13
  <2>2. Opens(r, k, s, "read") \in Task /\ staff[s] \in {"active", "inactive", "gone"}
    BY <1>0, OpensType, StepNames DEF TypeOK, Kinds
  <2>3. [Opens(r, k, s, "read") EXCEPT !.row = staff[s]] \in Task
    BY <1>0, <2>2, FieldType
  <2> QED BY <1>0, <2>1, <2>3 DEF ReadRecipient, TypeOK
<1>14. CASE \E f \in Files : ReadUpload(r, f)
  <2>1. PICK f \in Files : ReadUpload(r, f)
    BY <1>0, <1>14
  <2>2. Opens(r, "upload", f, "read") \in Task
    BY <1>0, OpensType, StepNames DEF Kinds
  <2> QED BY <1>0, <2>1, <2>2 DEF ReadUpload, TypeOK
<1>15. CASE \E status \in {"sent", "failed"} : Attempt(r, status)
  BY <1>0, <1>15, GoesType, StepNames DEF Attempt, TypeOK
<1> QED BY <1>0, <1>1, <1>2, <1>3, <1>4, <1>5, <1>6, <1>7, <1>8, <1>9, <1>10, <1>11, <1>12,
           <1>13, <1>14, <1>15 DEF Edit
\* An edit changes one request, whose source is not at work, and opens an upload only
\* on a file; the locks and the loop are left alone.
EditChanges(r) ==
  /\ UNCHANGED <<lock, loop, leaked>>
  /\ \A q \in Requests \ {r} : task'[q] = task[q]
  /\ {task[r].at, task'[r].at} \cap {"asked", "queued", "running", "ran"} = {}
  /\ \/ task'[r].kind = task[r].kind /\ task'[r].on = task[r].on
     \/ task[r].at = "new" /\ (task'[r].kind = "upload" => task'[r].on \in Files)

LEMMA EditStep ==
  ASSUME TypeOK, NEW r \in Requests, Edit(r)
  PROVE  EditChanges(r)
<1> USE DEF stored, memory, Goes, Mishap, Arrives, EditChanges, TypeOK
<1>1. CASE Switch(r)
  BY <1>1 DEF Switch, Opens, Waiting
<1>2. CASE ReadRules(r)
  BY <1>2 DEF ReadRules, Opens, Waiting
<1>3. CASE SaveRules(r)
  BY <1>3 DEF SaveRules
<1>4. CASE Guard(r)
  <2>1. PICK a \in {"done", "guarded"} : task' = [task EXCEPT ![r].at = a]
    BY <1>4, GuardWays
  <2>2. task[r].at = "read" /\ UNCHANGED <<lock, loop, leaked>>
    BY <1>4, GuardWays DEF Guard
  <2> QED BY <2>1, <2>2
<1>5. CASE RemoveRecipient(r)
  BY <1>5 DEF RemoveRecipient
<1>6. CASE StoreUpload(r)
  BY <1>6 DEF StoreUpload
<1>7. CASE StoreFails(r)
  BY <1>7 DEF StoreFails
<1>8. CASE InsertUpload(r)
  BY <1>8 DEF InsertUpload
<1>9. CASE Recheck(r)
  BY <1>9 DEF Recheck
<1>10. CASE \E p \in Portals : Toggle(r, p)
  BY <1>10 DEF Toggle, Opens, Waiting
<1>11. CASE \E s \in Staff : Revive(r, s)
  BY <1>11 DEF Revive, Opens, Waiting
<1>12. CASE \E s \in Staff : ComposeMail(r, s)
  BY <1>12 DEF ComposeMail, Opens, Waiting
<1>13. CASE \E s \in Staff, k \in {"remove", "retire"} : ReadRecipient(r, k, s)
  BY <1>13 DEF ReadRecipient, Opens, Waiting
<1>14. CASE \E f \in Files : ReadUpload(r, f)
  BY <1>14 DEF ReadUpload, Opens, Waiting
<1>15. CASE \E status \in {"sent", "failed"} : Attempt(r, status)
  BY <1>15 DEF Attempt
<1> QED BY <1>1, <1>2, <1>3, <1>4, <1>5, <1>6, <1>7, <1>8, <1>9, <1>10, <1>11, <1>12,
           <1>13, <1>14, <1>15 DEF Edit

\* A manual run touches no recipient, no upload and no row of the knowledge base.
Manual(r) == \/ Operation(r) \/ CommitFails(r)
             \/ \E p \in Portals, k \in {"source", "tender"} : Ask(r, k, p)
ManualChanges(r) ==
  /\ UNCHANGED <<staff, gate, kb, blobs, loop>>
  /\ \A q \in Requests \ {r} : task'[q] = task[q]
  /\ {task[r].at, task'[r].at} \cap {"read", "guarded", "stored"} = {}
  /\ \/ task'[r].kind = task[r].kind /\ task'[r].on = task[r].on /\ task'[r].row = task[r].row
     \/ task[r].at = "new" /\ task'[r].kind \in {"source", "tender"}

LEMMA ManualStep ==
  ASSUME TypeOK, NEW r \in Requests, Manual(r)
  PROVE  ManualChanges(r)
<1> USE DEF stored, memory, Goes, Mishap, Arrives, ManualChanges, TypeOK
<1>1. CASE \E p \in Portals, k \in {"source", "tender"} : Ask(r, k, p)
  BY <1>1 DEF Ask, Opens, Waiting
<1>2. CASE Accept(r)
  BY <1>2 DEF Accept
<1>3. CASE CommitFails(r)
  BY <1>3 DEF CommitFails
<1>4. CASE Begin(r)
  <2>1. PICK a \in {"running", "done"} : task' = [task EXCEPT ![r].at = a]
    BY <1>4, BeginWays
  <2>2. task[r].at = "queued" /\ UNCHANGED <<staff, gate, kb, blobs, loop>>
    BY <1>4, BeginWays
  <2> QED BY <2>1, <2>2
<1>5. CASE \E result \in {"COMPLETED", "FAILED"} : Run(r, result)
  BY <1>5 DEF Run
<1>6. CASE Finish(r)
  BY <1>6 DEF Finish
<1> QED BY <1>1, <1>2, <1>3, <1>4, <1>5, <1>6 DEF Operation, Manual

LEMMA RestartStep ==
  ASSUME TypeOK, Restart, NEW q \in Requests
  PROVE  /\ task'[q].kind = task[q].kind /\ task'[q].on = task[q].on
         /\ task'[q].at \in {"new", "saved", "done"}
BY DEF Restart, TypeOK, Task

LEMMA LoopChanges ==
  ASSUME LoopStep
  PROVE  UNCHANGED <<staff, gate, kb, blobs, task, leaked>>
BY DEF LoopStep, LoopPoll, LoopSkip, LoopTake, LoopRun, LoopRelease, LoopSleep, stored, memory

LEMMA NextType == TypeInv /\ [ConsoleNext]_cvars => TypeInv'
<1> SUFFICES ASSUME TypeInv, [ConsoleNext]_cvars PROVE TypeInv'
  OBVIOUS
<1> USE DEF stored, memory, Goes, Mishap
<1>1. CASE LoopStep
  BY <1>1, LoopType, LoopChanges DEF TypeInv, UploadsAreFiles
<1>2. CASE Restart
  <2>1. task' \in [Requests -> Task]
    <3>1. \A r \in Requests : [task[r] EXCEPT !.at = "done"] \in Task
      <4> SUFFICES ASSUME NEW r \in Requests PROVE [task[r] EXCEPT !.at = "done"] \in Task
        OBVIOUS
      <4>1. task[r] \in Task /\ "done" \in Steps
        BY DEF TypeInv, TypeOK, Steps
      <4> QED BY <4>1 DEF Task
    <3> QED BY <1>2, <3>1 DEF Restart, TypeInv, TypeOK
  <2>2. TypeOK'
    BY <1>2, <2>1, ConsoleConstants DEF Restart, TypeInv, TypeOK, Resting
  <2> QED BY <1>2, <2>2, RestartStep DEF TypeInv, UploadsAreFiles
<1>3. CASE \E p \in Portals : Elapse(p)
  <2>1. portal' \in [Portals -> [active : BOOLEAN, due : BOOLEAN]]
    <3>1. PICK p \in Portals : portal' = [portal EXCEPT ![p].due = TRUE]
      BY <1>3 DEF Elapse
    <3> QED BY <3>1 DEF TypeInv, TypeOK
  <2> QED BY <1>3, <2>1 DEF Elapse, TypeInv, TypeOK, UploadsAreFiles
<1>4. ASSUME NEW r \in Requests, Manual(r) PROVE TypeInv'
  <2>1. TypeOK'
    BY <1>4, OperationType DEF TypeInv, Manual
  <2> QED BY <1>4, <2>1, ManualStep DEF ManualChanges, TypeInv, UploadsAreFiles
<1>5. ASSUME NEW r \in Requests, Edit(r) PROVE TypeInv'
  <2>1. TypeOK'
    BY <1>5, EditType
  <2> QED BY <1>5, <2>1, EditStep DEF EditChanges, TypeInv, UploadsAreFiles
<1>6. CASE UNCHANGED cvars
  BY <1>6 DEF cvars, TypeInv, TypeOK, UploadsAreFiles
<1> QED BY <1>1, <1>2, <1>3, <1>4, <1>5, <1>6 DEF ConsoleNext, Manual

\* Every variable of the console stays within its type.
THEOREM TypeCorrect == ConsoleSpec => []TypeOK
<1>1. ConsoleInit => TypeInv
  BY InitType DEF ConsoleInit, Waiting, TypeInv, UploadsAreFiles
<1>2. TypeInv => TypeOK
  BY DEF TypeInv
<1> QED BY <1>1, <1>2, NextType, PTL DEF ConsoleSpec

-----------------------------------------------------------------------------
(* Locks *)

LEMMA NextLocks == TypeInv /\ HeldIsWorked /\ [ConsoleNext]_cvars => HeldIsWorked'
<1> SUFFICES ASSUME TypeInv, HeldIsWorked, [ConsoleNext]_cvars PROVE HeldIsWorked'
  OBVIOUS
<1> USE DEF stored, memory, Goes, Mishap
<1>0. TypeOK
  BY DEF TypeInv
<1>1. CASE LoopStep
  <2> USE Apart DEF HeldIsWorked, WorksOn, LoopWorksOn
  <2>1. task' = task /\ leaked' = leaked
    BY <1>1, LoopChanges
  <2>2. CASE LoopPoll
    BY <2>1, <2>2 DEF LoopPoll, Resting
  <2>3. CASE LoopRun
    BY <2>1, <2>3 DEF LoopRun, TypeInv, TypeOK
  <2>4. CASE LoopRelease
    BY <2>1, <2>4 DEF LoopRelease, TypeInv, TypeOK
  <2>5. CASE LoopSleep
    BY <2>1, <2>5 DEF LoopSleep, Resting
  <2>6. CASE \E p \in Portals : LoopSkip(p)
    BY <2>1, <2>6 DEF LoopSkip, TypeInv, TypeOK
  <2>7. CASE \E p \in Portals : LoopTake(p)
    BY <2>1, <2>7 DEF LoopTake, TypeInv, TypeOK
  <2> QED BY <1>1, <2>2, <2>3, <2>4, <2>5, <2>6, <2>7 DEF LoopStep
<1>2. CASE Restart
  <2>1. \A p \in Portals : lock'[p] = Nobody
    BY <1>2 DEF Restart
  <2>2. \A q \in Requests : task'[q].at \in {"new", "saved", "done"}
    BY <1>0, <1>2, RestartStep
  <2>3. loop'.at = "idle"
    BY <1>2 DEF Restart, Resting
  <2> QED BY <2>1, <2>2, <2>3, Apart DEF HeldIsWorked, WorksOn, LoopWorksOn
<1>3. CASE \E p \in Portals : Elapse(p)
  BY <1>3 DEF Elapse, HeldIsWorked, WorksOn, LoopWorksOn
<1>4. ASSUME NEW r \in Requests, Manual(r) PROVE HeldIsWorked'
  <2> USE <1>0, Apart DEF HeldIsWorked, WorksOn, LoopWorksOn
  <2>1. ManualChanges(r)
    BY <1>4, ManualStep
  <2>2. CASE \E p \in Portals, k \in {"source", "tender"} : Ask(r, k, p)
    BY <2>1, <2>2 DEF Ask, Arrives, Opens, Waiting, TypeOK, ManualChanges
  <2>3. CASE Accept(r)
    BY <2>1, <2>3 DEF Accept, TypeOK, ManualChanges
  <2>4. CASE CommitFails(r)
    BY <2>1, <2>4 DEF CommitFails, TypeOK, ManualChanges
  <2>5. CASE Begin(r)
    <3>1. task[r].at = "queued" /\ UNCHANGED <<lock, loop>>
      BY <2>5, BeginWays
    <3>2. CASE task' = [task EXCEPT ![r].at = "running"] /\ leaked' = leaked
      BY <3>1, <3>2 DEF TypeOK
    <3>3. CASE task' = [task EXCEPT ![r].at = "done"] /\ leaked' = leaked \cup {r}
      BY <3>1, <3>3 DEF TypeOK
    <3> QED BY <2>5, <3>2, <3>3, BeginWays
  <2>6. CASE \E result \in {"COMPLETED", "FAILED"} : Run(r, result)
    BY <2>1, <2>6 DEF Run, TypeOK, ManualChanges
  <2>7. CASE Finish(r)
    BY <2>1, <2>7 DEF Finish, TypeOK, ManualChanges
  <2> QED BY <1>4, <2>2, <2>3, <2>4, <2>5, <2>6, <2>7 DEF Manual, Operation
<1>5. ASSUME NEW r \in Requests, Edit(r) PROVE HeldIsWorked'
  <2>1. EditChanges(r)
    BY <1>0, <1>5, EditStep
  <2>2. \A q \in Requests, p \in Portals : WorksOn(q, p)' <=> WorksOn(q, p)
    BY <2>1 DEF EditChanges, WorksOn
  <2> QED BY <2>1, <2>2 DEF EditChanges, HeldIsWorked, LoopWorksOn
<1>6. CASE UNCHANGED cvars
  BY <1>6 DEF cvars, HeldIsWorked, WorksOn, LoopWorksOn
<1> QED BY <1>1, <1>2, <1>3, <1>4, <1>5, <1>6 DEF ConsoleNext, Manual

\* The lock of a source is held by whoever works on it and by nobody else, except
\* the requests that ended without giving it back.
THEOREM LocksAreHeld == ConsoleSpec => []HeldIsWorked
<1>1. ConsoleInit => TypeInv /\ HeldIsWorked
  BY InitType, Apart DEF ConsoleInit, Waiting, Resting, TypeInv, UploadsAreFiles, HeldIsWorked,
                         WorksOn, LoopWorksOn
<1> QED BY <1>1, NextType, NextLocks, PTL DEF ConsoleSpec
-----------------------------------------------------------------------------
(* The last developer recipient *)

NoRevival == \A r \in Requests : task[r].kind # "revive"
Removal == {"remove", "retire"}
FreshIsBlank == \A r \in Requests : task[r].at = "new" => task[r].kind = "none"
\* Whoever passed the guard holds the row locks and leaves somebody behind; what was
\* read inactive stays so.
GuardHolds ==
  /\ OnDuty # {}
  /\ \A r \in Requests : task[r].at = "guarded" =>
       gate = r /\ \E s \in OnDuty : s # task[r].on
  /\ \A r \in Requests :
       task[r].at = "read" /\ task[r].kind \in Removal /\ task[r].row # "active" =>
         task[r].on \notin OnDuty
DevInv == TypeInv /\ FreshIsBlank /\ (NoRevival => GuardHolds)

\* the count of the guard
LEMMA SomebodyElse ==
  ASSUME ~(Cardinality(OnDuty) <= 1), NEW x
  PROVE  \E s \in OnDuty : s # x
<1> SUFFICES ASSUME \A s \in OnDuty : s = x PROVE FALSE
  OBVIOUS
<1>1. OnDuty \subseteq {x}
  OBVIOUS
<1>2. IsFiniteSet({x}) /\ Cardinality({x}) = 1
  BY FS_Singleton
<1>3. IsFiniteSet(OnDuty) /\ Cardinality(OnDuty) <= 1
  BY <1>1, <1>2, FS_Subset
<1> QED BY <1>3

\* An edit does not return a request to its start, and opens one of no other kind.
LEMMA EditStarts ==
  ASSUME TypeOK, NEW r \in Requests, Edit(r)
  PROVE  /\ task'[r].at # "new"
         /\ task[r].at = "new" \/ task'[r].kind = task[r].kind
<1> USE DEF Goes, Mishap, Arrives, TypeOK
<1>1. CASE Switch(r)
  BY <1>1 DEF Switch, Opens, Waiting
<1>2. CASE ReadRules(r)
  BY <1>2 DEF ReadRules, Opens, Waiting
<1>3. CASE SaveRules(r)
  BY <1>3 DEF SaveRules
<1>4. CASE Guard(r)
  <2>1. PICK a \in {"done", "guarded"} : task' = [task EXCEPT ![r].at = a]
    BY <1>4, GuardWays
  <2> QED BY <2>1
<1>5. CASE RemoveRecipient(r)
  BY <1>5 DEF RemoveRecipient
<1>6. CASE StoreUpload(r)
  BY <1>6 DEF StoreUpload
<1>7. CASE StoreFails(r)
  BY <1>7 DEF StoreFails
<1>8. CASE InsertUpload(r)
  BY <1>8 DEF InsertUpload
<1>9. CASE Recheck(r)
  BY <1>9 DEF Recheck
<1>10. CASE \E p \in Portals : Toggle(r, p)
  BY <1>10 DEF Toggle, Opens, Waiting
<1>11. CASE \E s \in Staff : Revive(r, s)
  BY <1>11 DEF Revive, Opens, Waiting
<1>12. CASE \E s \in Staff : ComposeMail(r, s)
  BY <1>12 DEF ComposeMail, Opens, Waiting
<1>13. CASE \E s \in Staff, k \in {"remove", "retire"} : ReadRecipient(r, k, s)
  BY <1>13 DEF ReadRecipient, Opens, Waiting
<1>14. CASE \E f \in Files : ReadUpload(r, f)
  BY <1>14 DEF ReadUpload, Opens, Waiting
<1>15. CASE \E status \in {"sent", "failed"} : Attempt(r, status)
  BY <1>15 DEF Attempt
<1> QED BY <1>1, <1>2, <1>3, <1>4, <1>5, <1>6, <1>7, <1>8, <1>9, <1>10, <1>11, <1>12,
           <1>13, <1>14, <1>15 DEF Edit

LEMMA ManualStarts ==
  ASSUME TypeOK, NEW r \in Requests, Manual(r)
  PROVE  task'[r].at # "new"
<1> USE DEF Goes, TypeOK
<1>1. CASE \E p \in Portals, k \in {"source", "tender"} : Ask(r, k, p)
  BY <1>1 DEF Ask, Opens, Waiting
<1>2. CASE Accept(r)
  BY <1>2 DEF Accept
<1>3. CASE CommitFails(r)
  BY <1>3 DEF CommitFails
<1>4. CASE Begin(r)
  <2>1. PICK a \in {"running", "done"} : task' = [task EXCEPT ![r].at = a]
    BY <1>4, BeginWays
  <2> QED BY <2>1
<1>5. CASE \E result \in {"COMPLETED", "FAILED"} : Run(r, result)
  BY <1>5 DEF Run
<1>6. CASE Finish(r)
  BY <1>6 DEF Finish
<1> QED BY <1>1, <1>2, <1>3, <1>4, <1>5, <1>6 DEF Operation, Manual

\* What an edit does to the list and its guard, when it is no revival.
LEMMA EditGuards ==
  ASSUME TypeInv, GuardHolds, NEW r \in Requests, Edit(r), task'[r].kind # "revive"
  PROVE  GuardHolds'
<1> USE DEF stored, memory, Goes, Mishap, Arrives, GuardHolds, OnDuty, Removal
<1>0. TypeOK /\ gate \in Requests \cup {Nobody} /\ Nobody \notin Requests
  BY Apart DEF TypeInv, TypeOK
<1>a. task \in [Requests -> Task] /\ staff \in [Staff -> {"active", "inactive", "gone"}]
  BY <1>0 DEF TypeOK
<1>1. CASE Switch(r)
  BY <1>1, <1>a DEF Switch, Opens, Waiting
<1>2. CASE ReadRules(r)
  BY <1>2, <1>a DEF ReadRules, Opens, Waiting
<1>3. CASE SaveRules(r)
  BY <1>3, <1>a DEF SaveRules
<1>4. CASE Guard(r)
  <2>1. gate = Nobody /\ staff' = staff /\ task[r].row = "active"
    BY <1>4 DEF Guard
  <2>2. \A q \in Requests : task[q].at # "guarded"
    BY <1>0, <2>1
  <2>3. CASE Cardinality(OnDuty) <= 1
    <3>1. task' = [task EXCEPT ![r].at = "done"] /\ gate' = gate
      BY <1>4, <2>3 DEF Guard
    <3> QED BY <1>a, <2>1, <3>1
  <2>4. CASE ~(Cardinality(OnDuty) <= 1)
    <3>1. task' = [task EXCEPT ![r].at = "guarded"] /\ gate' = r
      BY <1>4, <2>4 DEF Guard
    <3>2. \E s \in OnDuty : s # task[r].on
      BY <2>4, SomebodyElse
    <3> QED BY <1>a, <2>1, <2>2, <3>1, <3>2
  <2> QED BY <2>3, <2>4
<1>5. CASE RemoveRecipient(r)
  <2> DEFINE s == task[r].on
  <2>1. task' = [task EXCEPT ![r].at = "saved"] /\ task[r].kind \in Removal
    BY <1>5 DEF RemoveRecipient
  <2>2. staff' = staff \/ \E y \in {"inactive", "gone"} : staff' = [staff EXCEPT ![s] = y]
    BY <1>5 DEF RemoveRecipient
  <2>3. \A t \in Staff \ {s} : staff'[t] = staff[t]
    BY <2>2, <1>a
  <2>4. \A t \in Staff : staff'[t] = "active" => staff[t] = "active"
    BY <2>2, <1>a
  <2>5. CASE task[r].row = "active"
    <3>1. task[r].at = "guarded"
      BY <1>5, <2>5 DEF RemoveRecipient
    <3>2. gate = r /\ \E t \in OnDuty : t # s
      BY <3>1
    <3>3. \A q \in Requests : task'[q].at # "guarded"
      BY <1>a, <2>1, <3>2
    <3>4. OnDuty' # {}
      BY <2>3, <3>2
    <3> QED BY <1>a, <2>1, <2>4, <3>3, <3>4
  <2>6. CASE task[r].row # "active"
    <3>1. task[r].at = "read"
      BY <1>5, <2>6 DEF RemoveRecipient
    <3>2. s \notin OnDuty
      BY <2>1, <2>6, <3>1
    <3>3. OnDuty' = OnDuty
      BY <2>3, <2>4, <3>2
    <3>4. \A q \in Requests \ {r} : gate = q => gate' = q
      BY <1>5 DEF RemoveRecipient
    <3> QED BY <1>a, <2>1, <3>3, <3>4
  <2> QED BY <2>5, <2>6
<1>6. CASE StoreUpload(r)
  BY <1>6, <1>a DEF StoreUpload
<1>7. CASE StoreFails(r)
  BY <1>7, <1>a DEF StoreFails
<1>8. CASE InsertUpload(r)
  BY <1>8, <1>a DEF InsertUpload
<1>9. CASE Recheck(r)
  BY <1>9, <1>a DEF Recheck
<1>10. CASE \E p \in Portals : Toggle(r, p)
  BY <1>10, <1>a DEF Toggle, Opens, Waiting
<1>11. CASE \E s \in Staff : Revive(r, s)
  BY <1>11, <1>a DEF Revive, Opens, Waiting
<1>12. CASE \E s \in Staff : ComposeMail(r, s)
  BY <1>12, <1>a DEF ComposeMail, Opens, Waiting
<1>13. CASE \E s \in Staff, k \in {"remove", "retire"} : ReadRecipient(r, k, s)
  BY <1>13, <1>a DEF ReadRecipient, Opens, Waiting
<1>14. CASE \E f \in Files : ReadUpload(r, f)
  BY <1>14, <1>a DEF ReadUpload, Opens, Waiting
<1>15. CASE \E status \in {"sent", "failed"} : Attempt(r, status)
  BY <1>15, <1>a DEF Attempt
<1> QED BY <1>1, <1>2, <1>3, <1>4, <1>5, <1>6, <1>7, <1>8, <1>9, <1>10, <1>11, <1>12,
           <1>13, <1>14, <1>15, <1>0 DEF Edit

LEMMA NextDev == DevInv /\ [ConsoleNext]_cvars => DevInv'
<1> SUFFICES ASSUME DevInv, [ConsoleNext]_cvars PROVE FreshIsBlank' /\ (NoRevival => GuardHolds)'
  BY NextType DEF DevInv
<1>0. TypeInv /\ TypeOK /\ FreshIsBlank /\ (NoRevival => GuardHolds)
  BY DEF DevInv, TypeInv
<1> USE DEF FreshIsBlank, NoRevival
<1>1. CASE LoopStep
  BY <1>0, <1>1, LoopChanges DEF GuardHolds, OnDuty
<1>2. CASE Restart
  <2>1. /\ staff' = staff
        /\ \A q \in Requests : task[q].kind = task'[q].kind
        /\ \A q \in Requests : task'[q].at \in {"new", "saved", "done"}
    BY <1>0, <1>2, RestartStep DEF Restart, stored
  <2>2. \A q \in Requests : task'[q].at = "new" => task[q].at = "new"
    BY <1>0, <1>2 DEF Restart, TypeOK, Task
  <2> QED BY <1>0, <2>1, <2>2 DEF GuardHolds, OnDuty
<1>3. CASE \E p \in Portals : Elapse(p)
  BY <1>0, <1>3 DEF Elapse, memory, GuardHolds, OnDuty
<1>4. ASSUME NEW r \in Requests, Manual(r) PROVE FreshIsBlank' /\ (NoRevival => GuardHolds)'
  <2>1. ManualChanges(r) /\ task'[r].at # "new"
    BY <1>0, <1>4, ManualStep, ManualStarts
  <2>2. FreshIsBlank'
    BY <1>0, <2>1 DEF ManualChanges
  <2>3. NoRevival' => NoRevival
    BY <1>0, <2>1 DEF ManualChanges
  <2>4. NoRevival' => GuardHolds'
    <3> SUFFICES ASSUME NoRevival' PROVE GuardHolds'
      OBVIOUS
    <3>1. GuardHolds
      BY <1>0, <2>3
    <3>2. staff' = staff /\ gate' = gate /\ OnDuty' = OnDuty
      BY <2>1 DEF ManualChanges, OnDuty
    <3>3. /\ \A q \in Requests \ {r} : task'[q] = task[q]
          /\ task'[r].at \notin {"read", "guarded"}
      BY <2>1 DEF ManualChanges
    <3> QED BY <3>1, <3>2, <3>3 DEF GuardHolds
  <2> QED BY <2>2, <2>4
<1>5. ASSUME NEW r \in Requests, Edit(r) PROVE FreshIsBlank' /\ (NoRevival => GuardHolds)'
  <2>1. EditChanges(r) /\ task'[r].at # "new"
        /\ (task[r].at = "new" \/ task'[r].kind = task[r].kind)
    BY <1>0, <1>5, EditStep, EditStarts
  <2>2. FreshIsBlank'
    BY <1>0, <2>1 DEF EditChanges
  <2>3. NoRevival' => NoRevival
    BY <1>0, <2>1 DEF EditChanges
  <2>4. NoRevival' => GuardHolds'
    BY <1>0, <1>5, <2>3, EditGuards
  <2> QED BY <2>2, <2>4
<1>6. CASE UNCHANGED cvars
  BY <1>0, <1>6 DEF cvars, stored, memory, GuardHolds, OnDuty
<1> QED BY <1>1, <1>2, <1>3, <1>4, <1>5, <1>6 DEF ConsoleNext, Manual

\* Removals and deactivations that overlap never empty the developer list, however
\* many there are: the guard counts and removes under one row lock
\* (_protect_last_dev, RecipientGuard.refuse_last_dev_removal).
THEOREM DevStays == ConsoleSpec => []LastDevStays
<1>1. ConsoleInit => DevInv
  <2> SUFFICES ASSUME ConsoleInit PROVE DevInv
    OBVIOUS
  <2>1. TypeInv
    BY InitType DEF ConsoleInit, Waiting, TypeInv, UploadsAreFiles
  <2> QED BY <2>1 DEF ConsoleInit, Waiting, DevInv, FreshIsBlank, GuardHolds, OnDuty
<1>2. DevInv => LastDevStays
  BY DEF DevInv, NoRevival, GuardHolds, LastDevStays
<1> QED BY <1>1, <1>2, NextDev, PTL DEF ConsoleSpec

-----------------------------------------------------------------------------
(* The knowledge base *)

KbInv == TypeInv /\ KbRowHasContent
         /\ \A r \in Requests : task[r].at = "stored" => task[r].on \in blobs

LEMMA EditKeeps ==
  ASSUME KbInv, NEW r \in Requests, Edit(r)
  PROVE  /\ KbRowHasContent'
         /\ \A q \in Requests : task'[q].at = "stored" => task'[q].on \in blobs'
<1> USE DEF stored, memory, Goes, Mishap, Arrives, KbRowHasContent
<1>a. /\ task \in [Requests -> Task] /\ KbRowHasContent
      /\ \A q \in Requests : task[q].at = "stored" => task[q].on \in blobs
  BY DEF KbInv, TypeInv, TypeOK
<1>1. CASE Switch(r)
  BY <1>1, <1>a DEF Switch, Opens, Waiting
<1>2. CASE ReadRules(r)
  BY <1>2, <1>a DEF ReadRules, Opens, Waiting
<1>3. CASE SaveRules(r)
  BY <1>3, <1>a DEF SaveRules
<1>4. CASE Guard(r)
  <2>1. PICK a \in {"done", "guarded"} : task' = [task EXCEPT ![r].at = a]
    BY <1>4, GuardWays
  <2>2. UNCHANGED <<kb, blobs>>
    BY <1>4 DEF Guard
  <2> QED BY <1>a, <2>1, <2>2
<1>5. CASE RemoveRecipient(r)
  BY <1>5, <1>a DEF RemoveRecipient
<1>6. CASE StoreUpload(r)
  BY <1>6, <1>a DEF StoreUpload
<1>7. CASE StoreFails(r)
  BY <1>7, <1>a DEF StoreFails
<1>8. CASE InsertUpload(r)
  BY <1>8, <1>a DEF InsertUpload
<1>9. CASE Recheck(r)
  BY <1>9, <1>a DEF Recheck
<1>10. CASE \E p \in Portals : Toggle(r, p)
  BY <1>10, <1>a DEF Toggle, Opens, Waiting
<1>11. CASE \E s \in Staff : Revive(r, s)
  BY <1>11, <1>a DEF Revive, Opens, Waiting
<1>12. CASE \E s \in Staff : ComposeMail(r, s)
  BY <1>12, <1>a DEF ComposeMail, Opens, Waiting
<1>13. CASE \E s \in Staff, k \in {"remove", "retire"} : ReadRecipient(r, k, s)
  BY <1>13, <1>a DEF ReadRecipient, Opens, Waiting
<1>14. CASE \E f \in Files : ReadUpload(r, f)
  BY <1>14, <1>a DEF ReadUpload, Opens, Waiting
<1>15. CASE \E status \in {"sent", "failed"} : Attempt(r, status)
  BY <1>15, <1>a DEF Attempt
<1> QED BY <1>1, <1>2, <1>3, <1>4, <1>5, <1>6, <1>7, <1>8, <1>9, <1>10, <1>11, <1>12,
           <1>13, <1>14, <1>15 DEF Edit

LEMMA NextKb == KbInv /\ [ConsoleNext]_cvars => KbInv'
<1> SUFFICES ASSUME KbInv, [ConsoleNext]_cvars
             PROVE  /\ KbRowHasContent'
                    /\ \A r \in Requests : task'[r].at = "stored" => task'[r].on \in blobs'
  BY NextType DEF KbInv
<1>0. TypeInv /\ TypeOK
  BY DEF KbInv, TypeInv
<1> USE DEF KbInv, KbRowHasContent
<1>1. CASE LoopStep
  BY <1>1, LoopChanges
<1>2. CASE Restart
  BY <1>0, <1>2, RestartStep DEF Restart, stored
<1>3. CASE \E p \in Portals : Elapse(p)
  BY <1>3 DEF Elapse
<1>4. ASSUME NEW r \in Requests, Manual(r)
      PROVE  /\ KbRowHasContent'
             /\ \A q \in Requests : task'[q].at = "stored" => task'[q].on \in blobs'
  BY <1>0, <1>4, ManualStep DEF ManualChanges
<1>5. ASSUME NEW r \in Requests, Edit(r)
      PROVE  /\ KbRowHasContent'
             /\ \A q \in Requests : task'[q].at = "stored" => task'[q].on \in blobs'
  BY <1>5, EditKeeps
<1>6. CASE UNCHANGED cvars
  BY <1>6 DEF cvars, stored
<1> QED BY <1>1, <1>2, <1>3, <1>4, <1>5, <1>6 DEF ConsoleNext, Manual

\* A row of the knowledge base has its content in the storage, whatever fails and
\* whenever the process is restarted (upload_kb).
THEOREM KbIsStored == ConsoleSpec => []KbRowHasContent
<1>1. ConsoleInit => KbInv
  <2> SUFFICES ASSUME ConsoleInit PROVE KbInv
    OBVIOUS
  <2>1. TypeInv
    BY InitType DEF ConsoleInit, Waiting, TypeInv, UploadsAreFiles
  <2> QED BY <2>1 DEF ConsoleInit, Waiting, KbInv, KbRowHasContent
<1>2. KbInv => KbRowHasContent
  BY DEF KbInv
<1> QED BY <1>1, <1>2, NextKb, PTL DEF ConsoleSpec

-----------------------------------------------------------------------------
(* The crawl of a list *)

Entry == Listed \cup {Unreadable}

\* A set of natural numbers that is not empty has a least element.
LEMMA LeastExists ==
  ASSUME NEW T, T \subseteq Nat, T # {}
  PROVE  \E n \in T : \A m \in T : n <= m
<1> DEFINE below == OpToRel(<, Nat)
<1>1. PICK n \in T : \A m \in T : <<m, n>> \notin below
  <2>1. IsWellFoundedOn(below, Nat)
    BY NatLessThanWellFounded
  <2> HIDE DEF below
  <2> QED BY <2>1, WFMin
<1>2. ASSUME NEW m \in T PROVE n <= m
  <2>1. ~(m < n)
    BY <1>1, Zenon DEF OpToRel
  <2> QED BY <2>1
<1> QED BY <1>2

\* The filter of View on the list s: what it keeps of the first n entries.
Upto(s, wanted, g, n) ==
  IF n = 0 THEN <<>>
  ELSE IF s[n] = Unreadable \/ s[n] \in wanted THEN Append(g[n - 1], s[n]) ELSE g[n - 1]
Shows(s, wanted) == CHOOSE g : g = [n \in 0..Len(s) |-> Upto(s, wanted, g, n)]

LEMMA ViewShows == \A f : View(f) = Shows(site, source.facets[f])[Len(site)]
BY DEF View, Shows, Upto

\* The filter is defined from one entry to the next.
LEMMA ShowsRuns ==
  ASSUME NEW s, Len(s) \in Nat, NEW wanted
  PROVE  \A n \in 0..Len(s) :
           Shows(s, wanted)[n] = Upto(s, wanted, Shows(s, wanted), n)
<1> DEFINE N == Len(s)
           Next_(g, n) == Upto(s, wanted, g, n)
<1>1. ASSUME NEW n \in 0..N, NEW g, NEW h, n # 0 => g[n - 1] = h[n - 1]
      PROVE  Next_(g, n) = Next_(h, n)
  BY <1>1 DEF Upto
<1>2. \E g : g = [n \in 0..N |-> Next_(g, n)]
  <2> DEFINE Bad == {k \in 0..N : ~\E g : g = [n \in 0..k |-> Next_(g, n)]}
  <2> HIDE DEF Next_
  <2>1. CASE Bad = {}
    <3>1. N \in 0..N
      OBVIOUS
    <3> QED BY <2>1, <3>1
  <2>2. CASE Bad # {}
    <3>1. PICK k \in Bad : \A m \in Bad : k <= m
      <4>1. Bad \subseteq Nat
        OBVIOUS
      <4> HIDE DEF Bad
      <4> QED BY <2>2, <4>1, LeastExists
    <3>2. k \in Nat /\ k \in 0..N
      OBVIOUS
    <3>3. ASSUME NEW g, \A n \in 0..(k - 1) : g[n] = Next_(g, n) PROVE FALSE
      <4> DEFINE h == [n \in 0..k |-> IF n = k THEN Next_(g, k) ELSE g[n]]
      <4>1. ASSUME NEW n \in 0..k PROVE h[n] = Next_(h, n)
        <5>1. n # 0 => h[n - 1] = g[n - 1]
          BY <3>2
        <5>2. n \in 0..N
          BY <3>2
        <5>3. Next_(h, n) = Next_(g, n)
          <6> HIDE DEF h
          <6> QED BY <1>1, <5>1, <5>2
        <5>4. n # k => n \in 0..(k - 1)
          BY <3>2
        <5> QED BY <3>3, <5>3, <5>4
      <4>2. h = [n \in 0..k |-> Next_(h, n)]
        BY <4>1
      <4> HIDE DEF h
      <4> QED BY <3>1, <4>2
    <3>4. CASE k = 0
      <4> DEFINE g == [n \in {} |-> <<>>]
      <4>1. \A n \in 0..(k - 1) : g[n] = Next_(g, n)
        BY <3>4
      <4> HIDE DEF g
      <4> QED BY <3>3, <4>1
    <3>5. CASE k # 0
      <4>1. k - 1 \in 0..N /\ k - 1 \notin Bad
        <5> HIDE DEF Bad
        <5> QED BY <3>1, <3>2, <3>5
      <4>2. PICK g : g = [n \in 0..(k - 1) |-> Next_(g, n)]
        BY <4>1
      <4>3. \A n \in 0..(k - 1) : g[n] = Next_(g, n)
        BY <4>2, Zenon
      <4> QED BY <3>3, <4>3
    <3> QED BY <3>4, <3>5
  <2> QED BY <2>1, <2>2
<1>3. Shows(s, wanted) = [n \in 0..N |-> Next_(Shows(s, wanted), n)]
  BY <1>2 DEF Shows
<1> DEFINE shows == Shows(s, wanted)
<1> HIDE DEF Next_, shows
<1>4. \A n \in 0..N : shows[n] = Next_(shows, n)
  BY <1>3, Zenon DEF shows
<1> QED BY <1>4 DEF shows, Next_

\* The list v keeps its entries in the order they have among the first n of s.
Keeps(s, n, v) ==
  /\ v \in Seq(Range(s))
  /\ \E at \in [1..Len(v) -> 1..n] :
       /\ \A i \in 1..Len(v) : v[i] = s[at[i]]
       /\ \A i, j \in 1..Len(v) : i < j => at[i] < at[j]

LEMMA KeepsMore ==
  ASSUME NEW s \in Seq(Entry), NEW n \in 1..Len(s), NEW v, Keeps(s, n - 1, v)
  PROVE  Keeps(s, n, v) /\ Keeps(s, n, Append(v, s[n]))
<1>1. PICK at \in [1..Len(v) -> 1..(n - 1)] :
        /\ \A i \in 1..Len(v) : v[i] = s[at[i]]
        /\ \A i, j \in 1..Len(v) : i < j => at[i] < at[j]
  BY DEF Keeps
<1>2. v \in Seq(Range(s)) /\ Len(v) \in Nat /\ Len(s) \in Nat
  BY LenProperties DEF Keeps
<1>3. at \in [1..Len(v) -> 1..n]
  BY <1>2
<1> DEFINE w == Append(v, s[n])
           to == [i \in 1..Len(w) |-> IF i <= Len(v) THEN at[i] ELSE n]
<1>4. s[n] \in Range(s)
  BY <1>2, LenProperties DEF Range
<1>5. /\ w \in Seq(Range(s)) /\ Len(w) = Len(v) + 1 /\ w[Len(v) + 1] = s[n]
      /\ \A i \in 1..Len(v) : w[i] = v[i]
  BY <1>2, <1>4, AppendProperties
<1> HIDE DEF w
<1>6. to \in [1..Len(w) -> 1..n]
  BY <1>2, <1>3, <1>5
<1>7. \A i \in 1..Len(w) : w[i] = s[to[i]]
  BY <1>1, <1>2, <1>5
<1>8. \A i, j \in 1..Len(w) : i < j => to[i] < to[j]
  <2> SUFFICES ASSUME NEW i \in 1..Len(w), NEW j \in 1..Len(w), i < j PROVE to[i] < to[j]
    OBVIOUS
  <2>1. i \in 1..Len(v) /\ at[i] \in 1..(n - 1)
    BY <1>2, <1>5
  <2> QED BY <1>1, <1>2, <1>5, <2>1
<1> HIDE DEF to
<1>9. Keeps(s, n, w)
  BY <1>5, <1>6, <1>7, <1>8 DEF Keeps
<1> QED BY <1>1, <1>2, <1>3, <1>9 DEF Keeps, w

LEMMA ShowsKeeps ==
  ASSUME NEW s \in Seq(Entry), NEW wanted
  PROVE  \A n \in 0..Len(s) : Keeps(s, n, Shows(s, wanted)[n])
<1> DEFINE shows == Shows(s, wanted)
           Bad == {n \in 0..Len(s) : ~Keeps(s, n, shows[n])}
<1>1. Len(s) \in Nat
  BY LenProperties
<1>2. \A n \in 0..Len(s) : shows[n] = Upto(s, wanted, shows, n)
  BY <1>1, ShowsRuns
<1> HIDE DEF shows
<1>3. ASSUME Bad # {} PROVE FALSE
  <2>1. PICK k \in Bad : \A m \in Bad : k <= m
    <3>1. Bad \subseteq Nat
      OBVIOUS
    <3> HIDE DEF Bad
    <3> QED BY <1>3, <3>1, LeastExists
  <2>2. k \in 0..Len(s) /\ ~Keeps(s, k, shows[k])
    OBVIOUS
  <2>3. CASE k = 0
    <3>1. shows[k] = <<>>
      BY <1>2, <2>2, <2>3 DEF Upto
    <3> DEFINE at == [i \in 1..0 |-> 1]
    <3>2. /\ at \in [1..Len(<<>>) -> 1..0] /\ <<>> \in Seq(Range(s))
          /\ \A i \in 1..Len(<<>>) : <<>>[i] = s[at[i]]
          /\ \A i, j \in 1..Len(<<>>) : i < j => at[i] < at[j]
      <4>1. Len(<<>>) = 0 /\ \A i \in 1..0 : FALSE
        OBVIOUS
      <4>2. at \in [1..0 -> 1..0]
        BY <4>1
      <4> HIDE DEF at
      <4> QED BY <4>1, <4>2
    <3> HIDE DEF at
    <3>3. Keeps(s, 0, <<>>)
      BY <3>2 DEF Keeps
    <3> QED BY <2>2, <2>3, <3>1, <3>3
  <2>4. CASE k # 0
    <3>1. k \in 1..Len(s) /\ k - 1 \in 0..Len(s) /\ k - 1 \notin Bad
      <4> HIDE DEF Bad
      <4> QED BY <1>1, <2>1, <2>2, <2>4
    <3>2. Keeps(s, k - 1, shows[k - 1])
      BY <3>1
    <3>3. shows[k] = shows[k - 1] \/ shows[k] = Append(shows[k - 1], s[k])
      BY <1>2, <2>2, <2>4 DEF Upto
    <3>4. Keeps(s, k, shows[k - 1]) /\ Keeps(s, k, Append(shows[k - 1], s[k]))
      BY <3>1, <3>2, KeepsMore
    <3> QED BY <2>2, <3>3, <3>4
  <2> QED BY <2>3, <2>4
<1> QED BY <1>3 DEF shows

LEMMA LesserOf ==
  ASSUME NEW a \in Int, NEW b \in Int
  PROVE  Min({a, b}) = IF a <= b THEN a ELSE b
BY DEF Min

\* What the chain of pages of a facet shows are entries of the site in their order.
LEMMA ViewType ==
  ASSUME site \in Seq(Entry), NEW f
  PROVE  View(f) \in Seq(Range(site)) /\ Keeps(site, Len(site), View(f))
<1>1. Len(site) \in 0..Len(site)
  BY LenProperties
<1>2. Keeps(site, Len(site), Shows(site, source.facets[f])[Len(site)])
  BY <1>1, ShowsKeeps
<1>3. View(f) = Shows(site, source.facets[f])[Len(site)]
  BY ViewShows
<1> QED BY <1>2, <1>3 DEF Keeps

LEMMA AppendBehind ==
  ASSUME NEW a \in Seq(Entry), NEW b \in Seq(Entry), NEW e \in Entry
  PROVE  Append(a \o b, e) = a \o Append(b, e)
<1> DEFINE c == a \o b
           x == Append(c, e)
           y == Append(b, e)
           z == a \o y
<1>1. /\ c \in Seq(Entry) /\ Len(c) = Len(a) + Len(b)
      /\ \A i \in 1..Len(a) + Len(b) : c[i] = IF i <= Len(a) THEN a[i] ELSE b[i - Len(a)]
      /\ Len(a) \in Nat /\ Len(b) \in Nat
  BY ConcatProperties, LenProperties
<1>2. /\ y \in Seq(Entry) /\ Len(y) = Len(b) + 1 /\ y[Len(b) + 1] = e
      /\ \A i \in 1..Len(b) : y[i] = b[i]
  BY AppendProperties
<1> HIDE DEF c, y
<1>3. /\ x \in Seq(Entry) /\ Len(x) = Len(c) + 1 /\ x[Len(c) + 1] = e
      /\ \A i \in 1..Len(c) : x[i] = c[i]
  BY <1>1, AppendProperties
<1>4. /\ z \in Seq(Entry) /\ Len(z) = Len(a) + Len(y)
      /\ \A i \in 1..Len(a) + Len(y) : z[i] = IF i <= Len(a) THEN a[i] ELSE y[i - Len(a)]
  BY <1>2, ConcatProperties
<1> HIDE DEF x, z
<1>5. ASSUME NEW i \in 1..Len(x) PROVE x[i] = z[i]
  <2>1. i \in Nat /\ 1 <= i /\ i <= Len(a) + Len(b) + 1 /\ i \in 1..Len(a) + Len(y)
    BY <1>1, <1>2, <1>3
  <2>2. CASE i <= Len(a)
    <3>1. i \in 1..Len(c) /\ i \in 1..Len(a) + Len(b)
      BY <1>1, <2>1, <2>2
    <3>2. x[i] = c[i] /\ c[i] = a[i]
      BY <1>1, <1>3, <2>2, <3>1
    <3>3. z[i] = a[i]
      BY <1>4, <2>1, <2>2
    <3> QED BY <3>2, <3>3
  <2>3. CASE Len(a) < i /\ i <= Len(a) + Len(b)
    <3>1. i - Len(a) \in 1..Len(b) /\ i \in 1..Len(c)
      BY <1>1, <2>1, <2>3
    <3> QED BY <1>1, <1>2, <1>3, <1>4, <2>1, <2>3, <3>1
  <2>4. CASE i = Len(a) + Len(b) + 1
    <3>1. i - Len(a) = Len(b) + 1 /\ i = Len(c) + 1 /\ ~(i <= Len(a))
      BY <1>1, <2>4
    <3> QED BY <1>2, <1>3, <1>4, <2>1, <3>1
  <2> QED BY <1>1, <2>1, <2>2, <2>3, <2>4
<1>6. x = z
  BY <1>1, <1>2, <1>3, <1>4, <1>5, SeqEqual
<1> QED BY <1>6 DEF x, y, z, c

LEMMA PrependedList ==
  ASSUME NEW s \in Seq(Entry), NEW t \in Listed
  PROVE  LET r == <<t>> \o s IN
         /\ Len(s) \in Nat /\ Len(r) = Len(s) + 1 /\ r[1] = t /\ r \in Seq(Entry)
         /\ \A n \in 1..Len(s) : r[n + 1] = s[n]
<1> DEFINE r == <<t>> \o s
<1>1. <<t>> \in Seq(Entry) /\ Len(<<t>>) = 1 /\ <<t>>[1] = t
  BY DEF Entry
<1>2. Len(s) \in Nat
  BY LenProperties
<1>3. /\ r \in Seq(Entry) /\ Len(r) = Len(<<t>>) + Len(s)
      /\ \A i \in 1..Len(<<t>>) + Len(s) :
           r[i] = IF i <= Len(<<t>>) THEN <<t>>[i] ELSE s[i - Len(<<t>>)]
  BY <1>1, ConcatProperties
<1> HIDE DEF r
<1> QED BY <1>1, <1>2, <1>3 DEF r

\* An entry at the top of the site is at the top of what a facet shows, or not shown.
LEMMA ShowsPrepends ==
  ASSUME NEW s \in Seq(Entry), NEW t \in Listed, NEW wanted
  PROVE  Shows(<<t>> \o s, wanted)[Len(<<t>> \o s)] =
           (IF t \in wanted THEN <<t>> ELSE <<>>) \o Shows(s, wanted)[Len(s)]
<1> DEFINE r == <<t>> \o s
           old == Shows(s, wanted)
           new == Shows(r, wanted)
           top == IF t \in wanted THEN <<t>> ELSE <<>>
           Bad == {n \in 0..Len(s) : new[n + 1] # top \o old[n]}
<1>1. /\ Len(s) \in Nat /\ Len(r) = Len(s) + 1 /\ r[1] = t
      /\ \A n \in 1..Len(s) : r[n + 1] = s[n]
  BY PrependedList
<1>2. \A n \in 0..Len(s) : old[n] = Upto(s, wanted, old, n)
  BY <1>1, ShowsRuns
<1> HIDE DEF r
<1>3. \A n \in 0..Len(r) : new[n] = Upto(r, wanted, new, n)
  <2>1. Len(r) \in Nat
    BY <1>1
  <2> QED BY <2>1, ShowsRuns
<1>4. \A n \in 0..Len(s) : old[n] \in Seq(Entry)
  <2>1. Range(s) \subseteq Entry
    BY RangeOfSeq
  <2> QED BY <2>1, ShowsKeeps, SeqMonotonic DEF Keeps
<1>5. top \in Seq(Entry)
  <2>1. <<t>> \in Seq(Entry) /\ <<>> \in Seq(Entry)
    BY DEF Entry
  <2> QED BY <2>1
<1> HIDE DEF old, new
<1>6. new[1] = top
  <2>1. new[0] = <<>> /\ t # Unreadable
    BY <1>1, <1>3, ListingsConstants DEF Upto
  <2>2. new[1] = IF t \in wanted THEN Append(new[0], t) ELSE new[0]
    <3>1. 1 \in 0..Len(r) /\ 1 # 0 /\ 1 - 1 = 0
      BY <1>1
    <3>2. new[1] = Upto(r, wanted, new, 1)
      BY <1>3, <3>1
    <3> QED BY <1>1, <2>1, <3>1, <3>2 DEF Upto
  <2>3. Append(<<>>, t) = <<t>>
    OBVIOUS
  <2> QED BY <2>1, <2>2, <2>3
<1> HIDE DEF top
<1>7. ASSUME Bad # {} PROVE FALSE
  <2>1. PICK k \in Bad : \A m \in Bad : k <= m
    <3>1. Bad \subseteq Nat
      OBVIOUS
    <3> HIDE DEF Bad
    <3> QED BY <1>7, <3>1, LeastExists
  <2>2. k \in 0..Len(s) /\ new[k + 1] # top \o old[k]
    OBVIOUS
  <2>3. CASE k = 0
    <3>1. old[0] = <<>>
      BY <1>1, <1>2 DEF Upto
    <3> QED BY <1>5, <1>6, <2>2, <2>3, <3>1, ConcatEmptySeq
  <2>4. CASE k # 0
    <3>1. k \in 1..Len(s) /\ k - 1 \in 0..Len(s) /\ k - 1 \notin Bad
      <4> HIDE DEF Bad
      <4> QED BY <1>1, <2>1, <2>2, <2>4
    <3>2. new[k] = top \o old[k - 1]
      BY <3>1
    <3>3. r[k + 1] = s[k] /\ s[k] \in Entry /\ old[k - 1] \in Seq(Entry)
      BY <1>1, <1>4, <3>1, ElementOfSeq
    <3>4. k + 1 \in 0..Len(r) /\ k + 1 # 0 /\ (k + 1) - 1 = k
      BY <1>1, <3>1
    <3>5. new[k + 1] = IF s[k] = Unreadable \/ s[k] \in wanted THEN Append(new[k], s[k]) ELSE new[k]
      BY <1>3, <3>3, <3>4 DEF Upto
    <3>6. old[k] = IF s[k] = Unreadable \/ s[k] \in wanted
                   THEN Append(old[k - 1], s[k]) ELSE old[k - 1]
      BY <1>2, <2>2, <2>4 DEF Upto
    <3>7. Append(top \o old[k - 1], s[k]) = top \o Append(old[k - 1], s[k])
      BY <1>5, <3>3, AppendBehind
    <3> QED BY <2>2, <3>2, <3>5, <3>6, <3>7
  <2> QED BY <2>3, <2>4
<1>8. Len(s) \in 0..Len(s) /\ Len(s) \notin Bad
  BY <1>1, <1>7
<1> QED BY <1>1, <1>8 DEF r, old, new, top

\* A list names a tender once.
NamedOnce(s) == \A i, j \in 1..Len(s) : s[i] = s[j] /\ s[i] # Unreadable => i = j

LEMMA ViewOnce ==
  ASSUME site \in Seq(Entry), NamedOnce(site), NEW f
  PROVE  NamedOnce(View(f))
<1> DEFINE view == View(f)
<1>1. Keeps(site, Len(site), view)
  BY ViewType
<1> HIDE DEF view
<1>2. PICK at \in [1..Len(view) -> 1..Len(site)] :
        /\ \A i \in 1..Len(view) : view[i] = site[at[i]]
        /\ \A i, j \in 1..Len(view) : i < j => at[i] < at[j]
  BY <1>1 DEF Keeps
<1>3. Len(view) \in Nat /\ Len(site) \in Nat
  BY <1>1, LenProperties DEF Keeps
<1>4. ASSUME NEW i \in 1..Len(view), NEW j \in 1..Len(view), view[i] = view[j],
             view[i] # Unreadable, i < j
      PROVE  FALSE
  <2>1. at[i] \in 1..Len(site) /\ at[j] \in 1..Len(site) /\ at[i] < at[j]
    BY <1>2, <1>4
  <2>2. at[i] = at[j]
    BY <1>2, <1>4, <2>1 DEF NamedOnce
  <2> QED BY <1>3, <2>1, <2>2
<1>5. ASSUME NEW i \in 1..Len(view), NEW j \in 1..Len(view), view[i] = view[j],
             view[i] # Unreadable
      PROVE  i = j
  <2>1. ~(i < j) /\ ~(j < i)
    BY <1>4, <1>5
  <2> QED BY <1>3, <2>1
<1> QED BY <1>5 DEF NamedOnce, view

\* Where the list s has an unreadable entry.
Spots(s) == {k \in 1..Len(s) : s[k] = Unreadable}

LEMMA SpotsFinite ==
  ASSUME NEW s \in Seq(Entry)
  PROVE  IsFiniteSet(Spots(s)) /\ Cardinality(Spots(s)) \in Nat
<1>1. Len(s) \in Int /\ IsFiniteSet(1..Len(s))
  BY LenProperties, FS_Interval
<1>2. IsFiniteSet(Spots(s))
  BY <1>1, FS_Subset DEF Spots
<1> QED BY <1>2, FS_CardinalityType

LEMMA UnreadablesAreSpots == site \in Seq(Entry) => Unreadables = Cardinality(Spots(site))
<1> SUFFICES ASSUME site \in Seq(Entry) PROVE Unreadables = Cardinality(Spots(site))
  OBVIOUS
<1>1. DOMAIN site = 1..Len(site)
  BY LenProperties
<1> QED BY <1>1 DEF Unreadables, Spots

\* A run of unreadable entries in what a facet shows is no longer than the site has them.
LEMMA UnreadableRun ==
  ASSUME site \in Seq(Entry), NEW f, NEW a \in Nat, NEW b \in Nat, a <= b, b <= Len(View(f)),
         \A i \in (a + 1)..b : View(f)[i] = Unreadable
  PROVE  b - a <= Unreadables
<1> DEFINE view == View(f)
           run == (a + 1)..b
<1>1. Keeps(site, Len(site), view)
  BY ViewType
<1>2. b <= Len(view) /\ \A i \in run : view[i] = Unreadable
  OBVIOUS
<1> HIDE DEF view
<1>3. PICK at \in [1..Len(view) -> 1..Len(site)] :
        /\ \A i \in 1..Len(view) : view[i] = site[at[i]]
        /\ \A i, j \in 1..Len(view) : i < j => at[i] < at[j]
  BY <1>1 DEF Keeps
<1>4. Len(view) \in Nat /\ Len(site) \in Nat
  BY <1>1, LenProperties DEF Keeps
<1>5. run \subseteq 1..Len(view)
  BY <1>2, <1>4
<1>6. \A i \in run : at[i] \in Spots(site)
  BY <1>2, <1>3, <1>5 DEF Spots
<1>7. ASSUME NEW i \in run, NEW j \in run, at[i] = at[j] PROVE i = j
  <2>1. i \in 1..Len(view) /\ j \in 1..Len(view)
    BY <1>5
  <2>2. i \in Int /\ j \in Int /\ at[i] \in Int /\ at[j] \in Int
    BY <1>3, <2>1
  <2>3. ~(i < j) /\ ~(j < i)
    BY <1>3, <1>7, <2>1, <2>2
  <2> QED BY <2>2, <2>3
<1> DEFINE to == [i \in run |-> at[i]]
<1>8. to \in Injection(run, Spots(site))
  <2>1. to \in [run -> Spots(site)]
    BY <1>6
  <2>2. \A i, j \in run : to[i] = to[j] => i = j
    BY <1>7
  <2> HIDE DEF to, run
  <2> QED BY <2>1, <2>2 DEF Injection, IsInjective
<1>9. Cardinality(run) <= Cardinality(Spots(site))
  <2> HIDE DEF run, to
  <2> QED BY <1>8, SpotsFinite, FS_Injection
<1>10. Cardinality(run) = b - a
  <2>1. a + 1 \in Int /\ b \in Int
    OBVIOUS
  <2>2. Cardinality(run) = IF a + 1 > b THEN 0 ELSE b - (a + 1) + 1
    BY <2>1, FS_Interval
  <2> QED BY <2>2
<1> HIDE DEF run
<1> QED BY <1>9, <1>10, UnreadablesAreSpots

\* A facet shows no more entries than the site has.
LEMMA ViewShorter ==
  ASSUME site \in Seq(Entry), NEW f
  PROVE  Len(View(f)) <= Len(site)
<1> DEFINE view == View(f)
<1>1. Keeps(site, Len(site), view) /\ Len(site) \in Nat
  BY ViewType, LenProperties
<1> HIDE DEF view
<1>2. PICK at \in [1..Len(view) -> 1..Len(site)] :
        \A i, j \in 1..Len(view) : i < j => at[i] < at[j]
  BY <1>1 DEF Keeps
<1>3. Len(view) \in Nat
  BY <1>1, LenProperties DEF Keeps
<1>4. \A i, j \in 1..Len(view) : at[i] = at[j] => i = j
  <2> SUFFICES ASSUME NEW i \in 1..Len(view), NEW j \in 1..Len(view), at[i] = at[j] PROVE i = j
    OBVIOUS
  <2>1. at[i] \in Int /\ at[j] \in Int
    BY <1>2
  <2> QED BY <1>2, <1>3, <2>1
<1>5. at \in Injection(1..Len(view), 1..Len(site))
  BY <1>2, <1>4 DEF Injection, IsInjective
<1>6. Cardinality(1..Len(view)) = Len(view) /\ Cardinality(1..Len(site)) = Len(site)
  <2>1. 1 \in Int /\ Len(view) \in Int /\ Len(site) \in Int
    BY <1>1, <1>3
  <2>2. /\ Cardinality(1..Len(view)) = IF 1 > Len(view) THEN 0 ELSE Len(view) - 1 + 1
        /\ Cardinality(1..Len(site)) = IF 1 > Len(site) THEN 0 ELSE Len(site) - 1 + 1
    BY <2>1, FS_Interval
  <2> QED BY <1>1, <1>3, <2>2
<1>7. IsFiniteSet(1..Len(site))
  BY <1>1, FS_Interval
<1> QED BY <1>5, <1>6, <1>7, FS_Injection DEF view

LEMMA PublishedSpots ==
  ASSUME NEW s \in Seq(Entry), NEW t \in Listed
  PROVE  Cardinality(Spots(s)) <= Cardinality(Spots(<<t>> \o s))
<1> DEFINE r == <<t>> \o s
<1>1. /\ Len(s) \in Nat /\ Len(r) = Len(s) + 1 /\ r \in Seq(Entry)
      /\ \A n \in 1..Len(s) : r[n + 1] = s[n]
  BY PrependedList
<1> HIDE DEF r
<1> DEFINE to == [k \in Spots(s) |-> k + 1]
<1>2. to \in [Spots(s) -> Spots(r)]
  BY <1>1 DEF Spots
<1>3. \A k, l \in Spots(s) : to[k] = to[l] => k = l
  BY <1>1 DEF Spots
<1> HIDE DEF to
<1>4. to \in Injection(Spots(s), Spots(r))
  BY <1>2, <1>3 DEF Injection, IsInjective
<1> QED BY <1>1, <1>4, SpotsFinite, FS_Injection DEF r

\* The pages of a source: their size, and the position of the first one.
LEMMA PageNumbers ==
  ASSUME site \in Seq(Entry), source \in Sources
  PROVE  /\ source \in Source /\ source.size \in Nat /\ source.paging \in Pagings
         /\ PageSize \in Nat /\ First \in Nat /\ Before(First) = 0
         /\ source.family # "feed" => PageSize >= 1
         /\ source.family = "feed" => PageSize = Len(site) /\ source.paging = "next"
         /\ source.family # "feed" /\ ~Shortchanged /\ source.size > 0 => PageSize = source.size
         /\ \A p \in Nat : p >= First => Before(p) \in Nat
<1>1. /\ source \in Source /\ PageCap \in Nat \ {0} /\ source.size \in Nat
      /\ source.paging \in Pagings /\ (source.family # "json" => source.paging = "next")
  BY ListingsConstants DEF Source
<1>2. Len(site) \in Nat /\ First \in Nat
  BY LenProperties DEF First
<1>3. Min({source.size, PageCap}) = IF source.size <= PageCap THEN source.size ELSE PageCap
  BY <1>1, LesserOf
<1>4. PageSize \in Nat /\ (source.family # "feed" => PageSize >= 1)
  BY <1>1, <1>2, <1>3 DEF PageSize
<1>5. source.family # "feed" /\ ~Shortchanged /\ source.size > 0 => PageSize = source.size
  BY <1>1, <1>3 DEF PageSize, Shortchanged
<1>6. source.family = "feed" => PageSize = Len(site) /\ source.paging = "next"
  BY <1>1 DEF PageSize
<1> HIDE DEF PageSize
<1>7. ASSUME NEW p \in Nat, p >= First PROVE Before(p) \in Nat
  <2>1. CASE source.paging = "offset"
    BY <2>1 DEF Before
  <2>2. CASE source.paging # "offset"
    <3>1. p - 1 \in Nat
      BY <1>7, <2>2 DEF First
    <3>2. \A a, b \in Nat : a * b \in Nat
      OBVIOUS
    <3> QED BY <1>4, <2>2, <3>1, <3>2 DEF Before
  <2> QED BY <2>1, <2>2
<1>8. Before(First) = 0
  <2>1. CASE source.paging = "offset"
    BY <2>1 DEF Before, First
  <2>2. CASE source.paging # "offset"
    <3>1. First = 1 /\ 0 * PageSize = 0
      BY <1>4, <2>2 DEF First
    <3> QED BY <2>2, <3>1 DEF Before
  <2> QED BY <2>1, <2>2
<1> QED BY <1>1, <1>2, <1>4, <1>5, <1>6, <1>7, <1>8

\* A page holds the entries that follow the ones before it, and ends at the end of its
\* list or is full.
LEMMA ServedEntries ==
  ASSUME site \in Seq(Entry), source \in Sources, NEW f, NEW p \in Nat, p >= First
  PROVE  LET served == Served(f, p) view == View(f) IN
         /\ served \in Seq(Range(site)) /\ Readable(served) \subseteq Listed
         /\ Len(served) \in Nat /\ Len(view) \in Nat /\ Before(p) \in Nat
         /\ \A j \in 1..Len(served) : Before(p) + j \in 1..Len(view) /\ served[j] = view[Before(p) + j]
         /\ source.family # "feed" =>
              /\ Len(served) <= PageSize
              /\ Before(p) + Len(served) >= Len(view) \/ Len(served) = PageSize
         /\ source.family = "feed" /\ p = First =>
              /\ Len(served) <= MaxPages
              /\ Len(served) >= Len(view) \/ Len(served) = MaxPages
<1> DEFINE view == View(f)
           served == Served(f, p)
           before == Before(p)
           end == IF source.family = "feed" THEN MaxPages ELSE before + PageSize
           last == Min({end, Len(view)})
<1>1. /\ PageSize \in Nat /\ before \in Nat /\ MaxPages \in Nat \ {0}
      /\ (p = First => before = 0)
  BY PageNumbers, ListingsConstants
<1>2. view \in Seq(Range(site)) /\ Len(view) \in Nat
  BY ViewType, LenProperties
<1>3. served = SubSeq(view, before + 1, last)
  BY DEF Served
<1> HIDE DEF view, served, before
<1>4. end \in Nat
  BY <1>1
<1> HIDE DEF end
<1>5. last = IF end <= Len(view) THEN end ELSE Len(view)
  BY <1>2, <1>4, LesserOf
<1>6. last \in Nat /\ last <= Len(view) /\ last <= end
  BY <1>2, <1>4, <1>5
<1> HIDE DEF last
<1>7. \A i \in (before + 1)..last : view[i] \in Range(site)
  <2>1. \A i \in (before + 1)..last : i \in 1..Len(view)
    BY <1>1, <1>2, <1>6
  <2> QED BY <1>2, <2>1, ElementOfSeq
<1>8. /\ served \in Seq(Range(site))
      /\ Len(served) = IF before + 1 <= last THEN last - (before + 1) + 1 ELSE 0
      /\ \A j \in 1..(last - (before + 1) + 1) : served[j] = view[(before + 1) + j - 1]
  <2>1. before + 1 \in Int /\ last \in Int
    BY <1>1, <1>6
  <2> QED BY <1>3, <1>7, <2>1, SubSeqProperties
<1>9. Len(served) = IF before < last THEN last - before ELSE 0
  BY <1>1, <1>6, <1>8
<1>10. ASSUME NEW j \in 1..Len(served)
       PROVE  before + j \in 1..Len(view) /\ served[j] = view[before + j]
  <2>1. before < last /\ j \in 1..(last - (before + 1) + 1) /\ (before + 1) + j - 1 = before + j
    BY <1>1, <1>6, <1>9
  <2> QED BY <1>1, <1>2, <1>6, <1>8, <2>1
<1>11. Readable(served) \subseteq Listed
  <2>1. Range(site) \subseteq Entry
    BY RangeOfSeq
  <2>2. \A i \in DOMAIN served : served[i] \in Range(site)
    BY <1>8, ElementOfSeq, LenProperties
  <2> QED BY <2>1, <2>2 DEF Readable, Range, Entry
<1>12. ASSUME source.family # "feed"
       PROVE  /\ Len(served) <= PageSize
              /\ before + Len(served) >= Len(view) \/ Len(served) = PageSize
  <2>1. end = before + PageSize
    BY <1>12 DEF end
  <2> QED BY <1>1, <1>2, <1>5, <1>6, <1>9, <2>1
<1>13. ASSUME source.family = "feed", p = First
       PROVE  /\ Len(served) <= MaxPages
              /\ Len(served) >= Len(view) \/ Len(served) = MaxPages
  <2>1. end = MaxPages /\ before = 0
    BY <1>1, <1>13 DEF end
  <2> QED BY <1>1, <1>2, <1>5, <1>6, <1>9, <2>1
<1>14. Len(served) \in Nat
  BY <1>1, <1>6, <1>9
<1> QED BY <1>1, <1>2, <1>8, <1>10, <1>11, <1>12, <1>13, <1>14 DEF view, served, before

\* The first page is empty only when the list is.
LEMMA FirstPage ==
  ASSUME site \in Seq(Entry), source \in Sources, NEW f, Served(f, First) = <<>>
  PROVE  View(f) = <<>>
<1>1. /\ First \in Nat /\ First >= First /\ Before(First) = 0 /\ MaxPages \in Nat \ {0}
      /\ source.family # "feed" => PageSize >= 1
  BY PageNumbers, ListingsConstants
<1>2. Len(Served(f, First)) = 0
  BY EmptySeq
<1>3. /\ Len(View(f)) \in Nat
      /\ source.family # "feed" => 0 >= Len(View(f)) \/ 0 = PageSize
      /\ source.family = "feed" => 0 >= Len(View(f)) \/ 0 = MaxPages
  BY <1>1, <1>2, ServedEntries
<1>4. Len(View(f)) = 0
  BY <1>1, <1>3, PageNumbers
<1> QED BY <1>4, ViewType, EmptySeq

\* A page with entries none of which can be read shows that the list has such an entry.
LEMMA NothingReadable ==
  ASSUME site \in Seq(Entry), NEW served \in Seq(Range(site)), served # <<>>,
         Readable(served) = {}
  PROVE  Unreadables > 0
<1> DEFINE spots == {k \in DOMAIN site : site[k] = Unreadable}
<1>1. PICK k \in DOMAIN site : site[k] = Unreadable
  <2>1. Len(served) \in Nat \ {0} /\ 1 \in 1..Len(served) /\ DOMAIN served = 1..Len(served)
    BY EmptySeq, LenProperties
  <2>2. served[1] \in Range(site) /\ served[1] = Unreadable
    BY <2>1, ElementOfSeq DEF Readable, Range
  <2> QED BY <2>2 DEF Range
<1>2. IsFiniteSet(spots)
  <2>1. DOMAIN site = 1..Len(site) /\ Len(site) \in Nat
    BY LenProperties
  <2>2. IsFiniteSet(1..Len(site))
    BY <2>1, FS_Interval
  <2> QED BY <2>1, <2>2, FS_Subset
<1>3. Cardinality(spots) \in Nat /\ Cardinality(spots) # 0
  <2>1. spots # {}
    BY <1>1
  <2> HIDE DEF spots
  <2> QED BY <1>2, <2>1, FS_CardinalityType, FS_EmptySet
<1> QED BY <1>3 DEF Unreadables

\* A crawl knows its facet and starts it at the first page, and has had at least as many
\* failed requests as the request it repeats.
CrawlInv ==
  /\ source \in Sources /\ site \in Seq(Entry) /\ crawl \in Crawl
  /\ crawl.tries <= crawl.transient
  /\ Working => /\ crawl.facet \in DOMAIN source.facets /\ crawl.at >= First
                /\ crawl.pages = 0 => crawl.at = First

LEMMA InitCrawl == CrawlInit => CrawlInv
<1> SUFFICES ASSUME CrawlInit PROVE CrawlInv
  OBVIOUS
<1>1. NoCrawl \in Crawl /\ NoCrawl.tries = 0 /\ NoCrawl.transient = 0 /\ NoCrawl.stage = "idle"
  BY DEF NoCrawl, Crawl
<1>2. source \in Sources /\ site \in Seq(Entry)
  BY ListingsConstants DEF CrawlInit, Entry
<1> QED BY <1>1, <1>2 DEF CrawlInit, CrawlInv, Working

\* A chain of pages starts at the first page of its facet.
LEMMA ChainStarts ==
  ASSUME NEW c \in Crawl, NEW f \in Nat
  PROVE  /\ Chain(c, f) \in Crawl /\ Chain(c, f).facet = f /\ Chain(c, f).at = First
         /\ Chain(c, f).tries = 0 /\ Chain(c, f).transient = c.transient
         /\ Chain(c, f).stage = c.stage
<1>1. First \in Nat
  BY DEF First
<1> QED BY <1>1 DEF Chain, Crawl

\* The page that is read, what is new on it and where the next one is.
Page == Served(crawl.facet, crawl.at)
Fresh == Readable(Page) \ crawl.seen
Taken == {AsListing(t) : t \in Fresh}
NextAt == IF Finished(crawl.entries + Len(Page), Page) THEN 0 ELSE NextPage(crawl.at, Page)
ReadOn == [crawl EXCEPT !.visited = @ \cup {crawl.at}, !.pages = @ + 1,
                        !.entries = crawl.entries + Len(Page), !.seen = @ \cup Fresh,
                        !.tries = 0, !.found = @ \cup Taken]

LEMMA PageTaken ==
  ASSUME CrawlInv, crawl.stage = "request"
  PROVE  /\ Page \in Seq(Range(site)) /\ Readable(Page) \subseteq Listed /\ Len(Page) \in Nat
         /\ Taken \subseteq Listing /\ NextAt \in Nat /\ (NextAt # 0 => NextAt > crawl.at)
         /\ AfterPage(Page) = IF Ends(ReadOn, NextAt, Fresh, Page) THEN NextChain(ReadOn)
                              ELSE [ReadOn EXCEPT !.at = NextAt]
<1>1. /\ crawl \in Crawl /\ crawl.at \in Nat /\ crawl.at >= First
      /\ crawl.facet \in DOMAIN source.facets /\ source \in Sources /\ site \in Seq(Entry)
  BY DEF CrawlInv, Working, Crawl
<1>2. Page \in Seq(Range(site)) /\ Readable(Page) \subseteq Listed /\ Len(Page) \in Nat
  BY <1>1, ServedEntries DEF Page
<1>3. Taken \subseteq Listing
  <2>1. ASSUME NEW t \in Listed PROVE AsListing(t) \in Listing
    <3>1. HtmlDeadline(Closing[t]) \in Deadlines /\ JsonDeadline(Closing[t]) \in Deadlines
      BY DEF HtmlDeadline, JsonDeadline, Deadlines
    <3> QED BY <3>1 DEF AsListing, HtmlListing, JsonListing, FeedListing, Listing, Deadlines
  <2> QED BY <1>2, <2>1 DEF Taken, Fresh
<1>4. NextAt \in Nat /\ (NextAt # 0 => NextAt > crawl.at)
  <2>1. source.size \in Nat /\ source.paging \in Pagings
    BY <1>1, PageNumbers
  <2>2. /\ Advertised(crawl.at) \in {0, crawl.at + 1}
        /\ Stepped(crawl.at, Page) \in Nat
        /\ Stepped(crawl.at, Page) # 0 => Stepped(crawl.at, Page) > crawl.at
    BY <1>1, <1>2, <2>1 DEF Advertised, Stepped
  <2>3. NextPage(crawl.at, Page)
          \in {Advertised(crawl.at), Stepped(crawl.at, Page), crawl.at + 1}
    BY <2>1 DEF NextPage, Pagings
  <2> QED BY <1>1, <2>2, <2>3 DEF NextAt
<1>5. AfterPage(Page) = IF Ends(ReadOn, NextAt, Fresh, Page) THEN NextChain(ReadOn)
                        ELSE [ReadOn EXCEPT !.at = NextAt]
  BY DEF AfterPage, ReadOn, Taken, Fresh, NextAt
<1> QED BY <1>2, <1>3, <1>4, <1>5

LEMMA ReadOnKeeps ==
  ASSUME CrawlInv, crawl.stage = "request"
  PROVE  /\ ReadOn \in Crawl /\ ReadOn.tries = 0 /\ ReadOn.transient = crawl.transient
         /\ ReadOn.stage = "request" /\ ReadOn.facet = crawl.facet /\ ReadOn.at = crawl.at
         /\ ReadOn.pages = crawl.pages + 1 /\ crawl.pages \in Nat
         /\ ReadOn.visited = crawl.visited \cup {crawl.at} /\ ReadOn.seen = crawl.seen \cup Fresh
         /\ ReadOn.found = crawl.found \cup Taken /\ ReadOn.entries = crawl.entries + Len(Page)
         /\ ReadOn.stayed = crawl.stayed /\ ReadOn.published = crawl.published
         /\ ReadOn.withdrawn = crawl.withdrawn
<1>1. crawl \in Crawl /\ crawl.at \in Nat /\ crawl.pages \in Nat
  BY DEF CrawlInv, Crawl
<1>2. Fresh \in SUBSET Listed /\ Taken \in SUBSET Listing /\ Len(Page) \in Nat
  BY PageTaken DEF Fresh
<1>3. /\ crawl.visited \cup {crawl.at} \in SUBSET Nat /\ crawl.pages + 1 \in Nat
      /\ crawl.seen \cup Fresh \in SUBSET Listed /\ crawl.found \cup Taken \in SUBSET Listing
      /\ crawl.entries + Len(Page) \in Nat
  BY <1>1, <1>2 DEF Crawl
<1>4. ReadOn \in Crawl
  BY <1>1, <1>3 DEF ReadOn, Crawl
<1>5. /\ ReadOn.tries = 0 /\ ReadOn.transient = crawl.transient
      /\ ReadOn.stage = crawl.stage /\ ReadOn.facet = crawl.facet /\ ReadOn.at = crawl.at
      /\ ReadOn.pages = crawl.pages + 1
  BY <1>1 DEF ReadOn, Crawl
<1>6. /\ ReadOn.visited = crawl.visited \cup {crawl.at} /\ ReadOn.seen = crawl.seen \cup Fresh
      /\ ReadOn.found = crawl.found \cup Taken /\ ReadOn.entries = crawl.entries + Len(Page)
  BY <1>1 DEF ReadOn, Crawl
<1>7. /\ ReadOn.stayed = crawl.stayed /\ ReadOn.published = crawl.published
      /\ ReadOn.withdrawn = crawl.withdrawn
  BY <1>1 DEF ReadOn, Crawl
<1> QED BY <1>1, <1>4, <1>5, <1>6, <1>7

\* What a crawl keeps of a page.
LEMMA PageKept ==
  ASSUME CrawlInv, crawl.stage = "request"
  PROVE  LET c == AfterPage(Served(crawl.facet, crawl.at)) IN
         /\ c \in Crawl /\ c.tries <= c.transient /\ c.stage # "failed"
         /\ c.stage \in {"form", "request"} =>
              /\ c.facet \in DOMAIN source.facets /\ c.at >= First
              /\ c.pages = 0 => c.at = First
<1> DEFINE served == Page
           fresh == Fresh
           next == NextAt
           read == ReadOn
<1>1. /\ crawl \in Crawl /\ crawl.at \in Nat /\ crawl.at >= First
      /\ crawl.facet \in DOMAIN source.facets
  BY DEF CrawlInv, Working, Crawl
<1>5. next \in Nat /\ (next # 0 => next > crawl.at)
  BY PageTaken
<1>6. /\ read \in Crawl /\ read.tries = 0 /\ read.transient = crawl.transient
      /\ read.stage = "request" /\ read.facet = crawl.facet /\ read.pages > 0
  <2>1. crawl.pages \in Nat /\ ReadOn.pages = crawl.pages + 1
    BY ReadOnKeeps
  <2> QED BY <2>1, ReadOnKeeps
<1>7. AfterPage(served) = IF Ends(read, next, fresh, served) THEN NextChain(read)
                          ELSE [read EXCEPT !.at = next]
  BY PageTaken
<1>11. served = Served(crawl.facet, crawl.at)
  BY DEF Page
<1> HIDE DEF served, next, read, fresh
<1> DEFINE c == AfterPage(served)
<1>8. CASE Ends(read, next, fresh, served) /\ read.facet < Len(source.facets)
  <2>1. c = Chain(read, read.facet + 1)
    BY <1>7, <1>8 DEF NextChain
  <2>2. source.facets \in Seq(SUBSET Listed)
    BY ListingsConstants DEF CrawlInv, Source
  <2>3. read.facet + 1 \in DOMAIN source.facets /\ read.facet + 1 \in Nat
    <3>1. read.facet \in Nat
      BY <1>6 DEF Crawl
    <3>2. Len(source.facets) \in Nat /\ DOMAIN source.facets = 1..Len(source.facets)
      BY <2>2, LenProperties
    <3> QED BY <1>8, <3>1, <3>2
  <2>4. First \in Nat /\ read.transient \in Nat
    BY <1>6 DEF First, Crawl
  <2> HIDE DEF c
  <2>5. /\ c \in Crawl /\ c.facet = read.facet + 1 /\ c.at = First /\ c.tries = 0
        /\ c.transient = read.transient /\ c.stage = "request"
    BY <1>6, <2>1, <2>3, ChainStarts
  <2> QED BY <1>11, <2>3, <2>4, <2>5 DEF c
<1>9. CASE Ends(read, next, fresh, served) /\ ~(read.facet < Len(source.facets))
  <2>1. c = [read EXCEPT !.stage = "done"]
    BY <1>7, <1>9 DEF NextChain
  <2> HIDE DEF c
  <2>2. /\ c \in Crawl /\ c.tries = 0 /\ c.transient \in Nat /\ c.stage = "done"
    BY <1>6, <2>1 DEF Crawl
  <2> QED BY <1>11, <2>2 DEF c
<1>10. CASE ~Ends(read, next, fresh, served)
  <2>1. c = [read EXCEPT !.at = next] /\ next # 0
    BY <1>7, <1>10 DEF Ends
  <2> HIDE DEF c
  <2>2. /\ c \in Crawl /\ c.tries = 0 /\ c.transient \in Nat /\ c.stage = "request"
        /\ c.at = next /\ c.facet = crawl.facet /\ c.pages > 0
    BY <1>5, <1>6, <2>1 DEF Crawl
  <2>3. next >= First /\ c.pages # 0
    BY <1>1, <1>5, <2>1, <2>2 DEF First
  <2> QED BY <1>11, <1>1, <2>2, <2>3 DEF c
<1> QED BY <1>8, <1>9, <1>10, <1>11

\* The steps that turn a running crawl into a failed one.
Fails == crawl.stage # "failed" /\ crawl'.stage = "failed"
LEMMA NextCrawl ==
  CrawlInv /\ [CrawlNext]_lvars =>
    /\ CrawlInv'
    /\ Fails => crawl'.refused \/ crawl'.transient > MaxRetries \/ Unreadables > 0
                \/ View(crawl.facet) = <<>>
<1> SUFFICES ASSUME CrawlInv, [CrawlNext]_lvars
    PROVE  /\ CrawlInv'
           /\ Fails => crawl'.refused \/ crawl'.transient > MaxRetries \/ Unreadables > 0
                       \/ View(crawl.facet) = <<>>
  OBVIOUS
<1> DEFINE Excused == crawl'.refused \/ crawl'.transient > MaxRetries \/ Unreadables > 0
                      \/ View(crawl.facet) = <<>>
           Kept == crawl' \in Crawl /\ crawl'.tries <= crawl'.transient
                   /\ (crawl'.stage \in {"form", "request"} =>
                        /\ crawl'.facet \in DOMAIN source.facets /\ crawl'.at >= First
                        /\ crawl'.pages = 0 => crawl'.at = First)
<1> USE DEF Working
<1>1. /\ source \in Sources /\ site \in Seq(Entry) /\ crawl \in Crawl
      /\ MaxRetries \in Nat /\ crawl.tries \in Nat /\ crawl.transient \in Nat
      /\ crawl.tries <= crawl.transient
  BY ListingsConstants DEF CrawlInv, Crawl
<1>2. ASSUME source' = source, site' \in Seq(Entry), Kept PROVE CrawlInv'
  <2>1. First' = First
    BY <1>2 DEF First
  <2> QED BY <1>1, <1>2, <2>1 DEF CrawlInv
<1>3. CASE StartCrawl
  <2> DEFINE c == [NoCrawl EXCEPT !.stage = IF source.family = "form" THEN "form" ELSE "request",
                                  !.stayed = Range(site) \cap Listed]
  <2>1. crawl' = Chain(c, 1) /\ source' = source /\ site' = site
    BY <1>3 DEF StartCrawl
  <2>2. c \in Crawl /\ c.transient = 0 /\ c.stage \in {"form", "request"}
    BY DEF NoCrawl, Crawl
  <2>3. 1 \in DOMAIN source.facets
    <3>1. source.facets \in Seq(SUBSET Listed) /\ source.facets # <<>>
      BY <1>1, ListingsConstants DEF Source
    <3> QED BY <3>1, EmptySeq
  <2> HIDE DEF c
  <2>4. First \in Nat
    BY DEF First
  <2>5. /\ crawl' \in Crawl /\ crawl'.facet = 1 /\ crawl'.at = First /\ crawl'.tries = 0
        /\ crawl'.transient = 0 /\ crawl'.stage \in {"form", "request"}
    BY <2>1, <2>2, ChainStarts
  <2>6. Kept /\ crawl'.stage # "failed"
    BY <2>3, <2>4, <2>5
  <2> QED BY <1>1, <1>2, <2>1, <2>6 DEF Fails
<1>4. CASE FormRead
  <2>1. crawl' = [crawl EXCEPT !.stage = "request", !.tries = 0] /\ crawl.stage = "form"
        /\ source' = source /\ site' = site
    BY <1>4 DEF FormRead
  <2>2. Kept /\ crawl'.stage = "request"
    <3>1. crawl' \in Crawl
      BY <1>1, <2>1 DEF Crawl
    <3>2. /\ crawl'.stage = "request" /\ crawl'.tries = 0 /\ crawl'.transient = crawl.transient
          /\ crawl'.facet = crawl.facet /\ crawl'.at = crawl.at /\ crawl'.pages = crawl.pages
      BY <1>1, <2>1 DEF Crawl
    <3> QED BY <1>1, <2>1, <3>1, <3>2 DEF CrawlInv
  <2> QED BY <1>1, <1>2, <2>1, <2>2 DEF Fails
<1>5. CASE PageRead
  <2> DEFINE served == Served(crawl.facet, crawl.at)
  <2>1. /\ crawl.stage = "request" /\ source' = source /\ site' = site
        /\ crawl' = IF Misparsed(served) THEN [crawl EXCEPT !.stage = "failed"]
                    ELSE AfterPage(served)
    BY <1>5 DEF PageRead
  <2>2. crawl.at \in Nat /\ crawl.at >= First
    BY <2>1 DEF CrawlInv, Crawl
  <2>3. CASE Misparsed(served)
    <3>1. Kept
      BY <1>1, <2>1, <2>3 DEF Crawl
    <3>2. CASE served # <<>> /\ Readable(served) = {}
      <4>1. served \in Seq(Range(site))
        BY <1>1, <2>2, ServedEntries
      <4>2. Unreadables > 0
        BY <1>1, <3>2, <4>1, NothingReadable
      <4> QED BY <1>1, <1>2, <2>1, <3>1, <4>2
    <3>3. CASE served = <<>> /\ crawl.pages = 0
      <4>1. crawl.at = First
        BY <2>1, <3>3 DEF CrawlInv
      <4>2. View(crawl.facet) = <<>>
        BY <1>1, <3>3, <4>1, FirstPage
      <4> QED BY <1>1, <1>2, <2>1, <3>1, <4>2
    <3> QED BY <2>3, <3>2, <3>3 DEF Misparsed, HtmlMisparsed, FeedMisparsed
  <2>4. CASE ~Misparsed(served)
    <3>1. crawl' = AfterPage(served)
      BY <2>1, <2>4
    <3>2. Kept /\ crawl'.stage # "failed"
      BY <2>1, <3>1, PageKept
    <3> QED BY <1>1, <1>2, <2>1, <3>2 DEF Fails
  <2> QED BY <2>3, <2>4
<1>6. CASE Unauthorised \/ Refused
  <2>1. crawl' = [crawl EXCEPT !.stage = "failed", !.refused = TRUE]
        /\ source' = source /\ site' = site
    BY <1>6 DEF Unauthorised, Refused
  <2>2. Kept /\ crawl'.refused
    BY <1>1, <2>1 DEF Crawl
  <2> QED BY <1>1, <1>2, <2>1, <2>2
<1>7. CASE Unanswered
  <2>1. source' = source /\ site' = site /\ Working
    BY <1>7 DEF Unanswered
  <2>2. CASE crawl.tries >= MaxRetries
    <3>1. crawl' = [crawl EXCEPT !.transient = @ + 1, !.stage = "failed"]
      BY <1>7, <2>2 DEF Unanswered
    <3>2. crawl' \in Crawl
      <4>1. crawl.transient + 1 \in Nat /\ crawl.tries + 1 \in Nat
        BY <1>1
      <4> QED BY <1>1, <3>1, <4>1 DEF Crawl
    <3>3. /\ crawl'.stage = "failed" /\ crawl'.tries = crawl.tries
          /\ crawl'.transient = crawl.transient + 1
      BY <1>1, <3>1 DEF Crawl
    <3>4. Kept /\ crawl'.transient > MaxRetries
      BY <1>1, <2>2, <3>2, <3>3
    <3> QED BY <1>1, <1>2, <2>1, <3>4
  <2>3. CASE ~(crawl.tries >= MaxRetries)
    <3>1. crawl' = [crawl EXCEPT !.transient = @ + 1, !.tries = @ + 1]
      BY <1>7, <2>3 DEF Unanswered
    <3>2. crawl' \in Crawl
      <4>1. crawl.transient + 1 \in Nat /\ crawl.tries + 1 \in Nat
        BY <1>1
      <4> QED BY <1>1, <3>1, <4>1 DEF Crawl
    <3>3. /\ crawl'.stage = crawl.stage /\ crawl'.tries = crawl.tries + 1
          /\ crawl'.transient = crawl.transient + 1
          /\ crawl'.facet = crawl.facet /\ crawl'.at = crawl.at /\ crawl'.pages = crawl.pages
      BY <1>1, <3>1 DEF Crawl
    <3>4. Kept
      BY <1>1, <2>1, <3>2, <3>3 DEF CrawlInv
    <3> QED BY <1>1, <1>2, <2>1, <3>3, <3>4 DEF Fails
  <2> QED BY <2>2, <2>3
<1>8. ASSUME NEW t \in Listed, Publish(t) PROVE CrawlInv' /\ ~Fails
  <2>1. crawl' = [crawl EXCEPT !.published = @ + 1] /\ source' = source /\ site' = <<t>> \o site
    BY <1>8 DEF Publish
  <2>2. site' \in Seq(Entry)
    <3>1. <<t>> \in Seq(Entry)
      BY DEF Entry
    <3> QED BY <1>1, <2>1, <3>1, ConcatProperties
  <2>3. crawl' \in Crawl
    <3>1. crawl.published + 1 \in Nat
      BY <1>1 DEF Crawl
    <3> QED BY <1>1, <2>1, <3>1 DEF Crawl
  <2>4. /\ crawl'.stage = crawl.stage /\ crawl'.tries = crawl.tries
        /\ crawl'.transient = crawl.transient
        /\ crawl'.facet = crawl.facet /\ crawl'.at = crawl.at /\ crawl'.pages = crawl.pages
    BY <1>1, <2>1 DEF Crawl
  <2>5. Kept
    BY <1>1, <2>3, <2>4 DEF CrawlInv
  <2> QED BY <1>2, <2>1, <2>2, <2>4, <2>5 DEF Fails
<1>9. ASSUME NEW k \in DOMAIN site, Withdraw(k) PROVE CrawlInv' /\ ~Fails
  <2>1. crawl' = [crawl EXCEPT !.withdrawn = @ + 1, !.stayed = @ \ {site[k]}]
        /\ source' = source /\ site' = SubSeq(site, 1, k - 1) \o SubSeq(site, k + 1, Len(site))
    BY <1>9 DEF Withdraw, RemoveAt
  <2>2. site' \in Seq(Entry)
    <3>1. Len(site) \in Nat /\ k \in 1..Len(site) /\ \A i \in 1..Len(site) : site[i] \in Entry
      BY <1>1, LenProperties
    <3>2. SubSeq(site, 1, k - 1) \in Seq(Entry)
      BY <3>1, SubSeqProperties
    <3>3. SubSeq(site, k + 1, Len(site)) \in Seq(Entry)
      BY <3>1, SubSeqProperties
    <3> QED BY <2>1, <3>2, <3>3, ConcatProperties
  <2>3. crawl' \in Crawl
    <3>1. crawl.withdrawn + 1 \in Nat /\ crawl.stayed \ {site[k]} \in SUBSET Listed
      BY <1>1 DEF Crawl
    <3> QED BY <1>1, <2>1, <3>1 DEF Crawl
  <2>4. /\ crawl'.stage = crawl.stage /\ crawl'.tries = crawl.tries
        /\ crawl'.transient = crawl.transient
        /\ crawl'.facet = crawl.facet /\ crawl'.at = crawl.at /\ crawl'.pages = crawl.pages
    BY <1>1, <2>1 DEF Crawl
  <2>5. Kept
    BY <1>1, <2>3, <2>4 DEF CrawlInv
  <2> QED BY <1>2, <2>1, <2>2, <2>4, <2>5 DEF Fails
<1>10. ASSUME NEW t \in Listed, ReadDetail(t) PROVE CrawlInv' /\ ~Fails
  <2>1. crawl' = crawl /\ source' = source /\ site' = site
    BY <1>10 DEF ReadDetail
  <2> QED BY <2>1 DEF CrawlInv, Fails, First
<1>11. CASE UNCHANGED lvars
  BY <1>11 DEF lvars, CrawlInv, Fails, First
<1> QED BY <1>3, <1>4, <1>5, <1>6, <1>7, <1>8, <1>9, <1>10, <1>11 DEF CrawlNext, CrawlStep

LEMMA CrawlInvariant == CrawlSpec => []CrawlInv
BY InitCrawl, NextCrawl, PTL DEF CrawlSpec

\* A crawl is lost only to a refusal, to more failures than the client retries, to an
\* entry that cannot be read or to an empty list (PoliteHttpClient, list_new_tenders).
THEOREM TransientsDoNotLoseCrawls == CrawlSpec => TransientsAreRidden
<1>1. CrawlInv /\ [CrawlNext]_lvars =>
        [Fails => crawl'.refused \/ crawl'.transient > MaxRetries \/ Unreadables > 0
                 \/ View(crawl.facet) = <<>>]_lvars
  BY NextCrawl
<1> QED BY <1>1, CrawlInvariant, PTL DEF CrawlSpec, TransientsAreRidden, Fails
-----------------------------------------------------------------------------
(* What a crawl may miss *)

Found(c, t) == \E l \in c.found : l.tender = t
\* Of the first n entries of a list the crawl c has found the tenders that stayed.
Got(view, c, n) == \A i \in 1..Len(view) : i <= n /\ view[i] \in c.stayed => Found(c, view[i])
GotAll(view, c) == Got(view, c, Len(view))
\* The last position a chain of pages can reach under the cap.
CapEnd == IF source.family = "feed" THEN MaxPages ELSE MaxPages * PageSize

\* The crawl c has read the first entries of its list, so many as are before its page.
\* What was published since has only moved them down.
ReadsTo(c, view, read) ==
  /\ \A v \in c.visited : v < c.at
  /\ Got(view, c, read)
  /\ \A i \in 1..Len(view) : view[i] \in c.seen => i <= read + c.published
  /\ \A t \in c.seen : Found(c, t)
  /\ c.entries <= read
Reads(c) ==
  /\ ReadsTo(c, View(c.facet), Before(c.at))
  /\ GotAll(View(c.facet), c) \/ Before(c.at) = c.pages * PageSize
  /\ source.family = "feed" => c.pages = 0

\* Nothing has happened yet that may make the crawl c miss an entry.
Quiet(c) == c.withdrawn = 0 /\ c.published + Unreadables < PageSize /\ ~Shortchanged
\* Then it has what it read, and once it is done all that is within its reach.
Complete(c) ==
  /\ c.stayed \subseteq Range(site)
  /\ c.stage \in {"form", "request"} =>
       Reads(c) /\ \A g \in 1..(c.facet - 1) : Got(View(g), c, CapEnd)
  /\ c.stage = "done" => \A g \in DOMAIN source.facets : Got(View(g), c, CapEnd)
SkipInv == CrawlInv /\ NamedOnce(site) /\ (Quiet(crawl) => Complete(crawl))

LEMMA AsListingNames == \A t : AsListing(t).tender = t
BY DEF AsListing, HtmlListing, JsonListing, FeedListing

LEMMA GotMore ==
  ASSUME NEW view, NEW n \in Int, NEW m \in Int, NEW c, NEW d, Got(view, c, n), m <= n,
         Len(view) \in Nat, c.found \subseteq d.found, d.stayed = c.stayed
  PROVE  Got(view, d, m)
BY DEF Got, Found

\* A page adds the entries it holds to what was read.
LEMMA PageGot ==
  ASSUME CrawlInv, crawl.stage = "request", Reads(crawl)
  PROVE  Got(View(crawl.facet), ReadOn, Before(crawl.at) + Len(Page))
<1> DEFINE view == View(crawl.facet)
           before == Before(crawl.at)
<1>1. /\ crawl \in Crawl /\ crawl.at \in Nat /\ crawl.at >= First
      /\ source \in Sources /\ site \in Seq(Entry)
  BY DEF CrawlInv, Working, Crawl
<1>2. /\ Len(Page) \in Nat /\ Len(view) \in Nat /\ before \in Nat /\ Page \in Seq(Range(site))
      /\ \A j \in 1..Len(Page) : before + j \in 1..Len(view) /\ Page[j] = view[before + j]
  BY <1>1, ServedEntries DEF Page
<1>3. Got(view, crawl, before) /\ \A t \in crawl.seen : Found(crawl, t)
  BY DEF Reads, ReadsTo
<1>4. /\ ReadOn.found = crawl.found \cup Taken /\ ReadOn.stayed = crawl.stayed
      /\ crawl.stayed \subseteq Listed
  BY <1>1, ReadOnKeeps DEF Crawl
<1> HIDE DEF view, before
<1>5. ASSUME NEW i \in 1..Len(view), i <= before + Len(Page), view[i] \in crawl.stayed
      PROVE  Found(ReadOn, view[i])
  <2>1. CASE i <= before
    <3>1. Found(crawl, view[i])
      BY <1>3, <1>5, <2>1 DEF Got
    <3> QED BY <1>4, <3>1 DEF Found
  <2>2. CASE i > before
    <3>1. PICK j \in 1..Len(Page) : j = i - before
      BY <1>2, <1>5, <2>2
    <3>2. Page[j] = view[i]
      BY <1>2, <1>5, <3>1
    <3>3. view[i] \in Readable(Page)
      <4>1. view[i] # Unreadable
        BY <1>4, <1>5, ListingsConstants
      <4>2. j \in DOMAIN Page
        BY <1>2, LenProperties
      <4> QED BY <3>2, <4>1, <4>2 DEF Readable, Range
    <3>4. CASE view[i] \in crawl.seen
      <4>1. Found(crawl, view[i])
        BY <1>3, <3>4
      <4> QED BY <1>4, <4>1 DEF Found
    <3>5. CASE view[i] \notin crawl.seen
      <4>1. AsListing(view[i]) \in Taken
        BY <3>3, <3>5 DEF Taken, Fresh
      <4> QED BY <1>4, <4>1, AsListingNames DEF Found
    <3> QED BY <3>4, <3>5
  <2> QED BY <1>2, <1>5, <2>1, <2>2
<1> QED BY <1>4, <1>5 DEF Got, view, before

\* A full page without a new entry is one the publications and the unreadable entries fill.
LEMMA NewsUntilTheEnd ==
  ASSUME CrawlInv, crawl.stage = "request", Reads(crawl), Quiet(crawl), Fresh = {},
         Len(Page) = PageSize
  PROVE  FALSE
<1> DEFINE view == View(crawl.facet)
           before == Before(crawl.at)
           moved == before + crawl.published
           last == before + Len(Page)
<1>1. /\ crawl \in Crawl /\ crawl.at \in Nat /\ crawl.at >= First /\ crawl.published \in Nat
      /\ source \in Sources /\ site \in Seq(Entry)
  BY DEF CrawlInv, Working, Crawl
<1>2. /\ Len(Page) \in Nat /\ Len(view) \in Nat /\ before \in Nat /\ Page \in Seq(Range(site))
      /\ \A j \in 1..Len(Page) : before + j \in 1..Len(view) /\ Page[j] = view[before + j]
  BY <1>1, ServedEntries DEF Page
<1>3. \A i \in 1..Len(view) : view[i] \in crawl.seen => i <= moved
  BY DEF Reads, ReadsTo
<1>4. crawl.published + Unreadables < PageSize /\ Unreadables \in Nat
  BY <1>1, SpotsFinite, UnreadablesAreSpots DEF Quiet
<1> HIDE DEF view, before
<1>5. /\ moved \in Nat /\ last \in Nat /\ moved < last /\ before <= moved /\ last <= Len(view)
      /\ last - moved > Unreadables
  <2>1. Len(Page) \in 1..Len(Page)
    BY <1>1, <1>2, <1>4
  <2>2. before + Len(Page) \in 1..Len(view)
    BY <1>2, <2>1
  <2>3. /\ before \in Nat /\ crawl.published \in Nat /\ Len(Page) \in Nat /\ Unreadables \in Nat
        /\ crawl.published + Unreadables < Len(Page) /\ before + Len(Page) <= Len(view)
    BY <1>1, <1>2, <1>4, <2>2
  <2> QED BY <2>3
<1>6. \A j \in Int : j > before /\ j <= last => j - before \in 1..Len(Page) /\ before + (j - before) = j
  BY <1>2
<1> HIDE DEF moved, last
<1>7. ASSUME NEW i \in (moved + 1)..last PROVE view[i] = Unreadable
  <2>1. i \in Int /\ i > before /\ i <= last /\ ~(i <= moved) /\ i \in 1..Len(view)
    BY <1>2, <1>5, <1>7
  <2>2. PICK j \in 1..Len(Page) : before + j = i
    BY <1>6, <2>1
  <2>3. Page[j] = view[i]
    BY <1>2, <2>2
  <2>4. j \in DOMAIN Page
    BY <1>2, LenProperties
  <2>5. view[i] \in Readable(Page) \/ view[i] = Unreadable
    BY <2>3, <2>4 DEF Readable, Range
  <2>6. view[i] \in Readable(Page) => view[i] \in crawl.seen
    BY DEF Fresh
  <2> QED BY <1>3, <2>1, <2>5, <2>6
<1>8. last - moved <= Unreadables
  <2>1. \A i \in (moved + 1)..last : View(crawl.facet)[i] = Unreadable
    BY <1>7 DEF view
  <2>2. moved <= last /\ last <= Len(View(crawl.facet))
    BY <1>5 DEF view
  <2> QED BY <1>1, <1>5, <2>1, <2>2, UnreadableRun
<1> QED BY <1>4, <1>5, <1>8

LEMMA Multiples ==
  /\ \A a, b, c \in Nat : a <= b => a * c <= b * c
  /\ \A a, c \in Nat : (a + 1) * c = a * c + c
<1>1. \A a, d, c \in Nat : d * c \in Nat /\ (a + d) * c = a * c + d * c
  OBVIOUS
<1>2. ASSUME NEW a \in Nat, NEW b \in Nat, NEW c \in Nat, a <= b PROVE a * c <= b * c
  <2>1. PICK d \in Nat : b = a + d
    <3>1. b - a \in Nat /\ b = a + (b - a)
      BY <1>2
    <3> QED BY <3>1
  <2>2. a * c \in Nat /\ d * c \in Nat /\ b * c = a * c + d * c
    BY <1>1, <2>1
  <2> QED BY <2>2
<1>3. \A a, c \in Nat : (a + 1) * c = a * c + c
  OBVIOUS
<1> QED BY <1>2, <1>3

\* Where the next page starts: behind the one that was read, unless that one ends its
\* list.  A feed has one page.
LEMMA NextStarts ==
  ASSUME CrawlInv, crawl.stage = "request", ~Shortchanged,
         source.family = "feed" => crawl.pages = 0,
         crawl.entries <= Before(crawl.at)
  PROVE  LET end == Before(crawl.at) + Len(Page) IN
         /\ source.family = "feed" => NextAt = 0 /\ Before(crawl.at) = 0
         /\ NextAt = 0 /\ source.family # "feed" => end >= Len(View(crawl.facet))
         /\ NextAt # 0 =>
              /\ Before(NextAt) >= end
              /\ \/ end >= Len(View(crawl.facet))
                 \/ Len(Page) = PageSize /\ Before(NextAt) = end
<1> DEFINE view == View(crawl.facet)
           before == Before(crawl.at)
<1>1. /\ crawl \in Crawl /\ crawl.at \in Nat /\ crawl.at >= First /\ crawl.entries \in Nat
      /\ crawl.pages = 0 => crawl.at = First
      /\ source \in Sources /\ site \in Seq(Entry)
  BY DEF CrawlInv, Working, Crawl
<1>2. /\ source.size \in Nat /\ source.paging \in Pagings /\ PageSize \in Nat
      /\ source.family # "feed" => PageSize >= 1
      /\ source.family = "feed" => PageSize = Len(site) /\ source.paging = "next"
      /\ source.family # "feed" /\ source.size > 0 => PageSize = source.size
      /\ Before(First) = 0 /\ before \in Nat
  BY <1>1, PageNumbers
<1>3. /\ Len(Page) \in Nat /\ Len(view) \in Nat
      /\ source.family # "feed" =>
           /\ Len(Page) <= PageSize
           /\ before + Len(Page) >= Len(view) \/ Len(Page) = PageSize
  BY <1>1, ServedEntries DEF Page
<1>4. Len(view) <= Len(site)
  BY <1>1, ViewShorter
<1>5. ASSUME source.family = "feed" PROVE NextAt = 0 /\ before = 0
  <2>1. before = 0 /\ PageSize = Len(site) /\ source.paging = "next"
    BY <1>1, <1>2, <1>5
  <2>2. ~(before + PageSize < Len(view))
    BY <1>2, <1>3, <1>4, <2>1
  <2>3. Advertised(crawl.at) = 0
    BY <2>2 DEF Advertised
  <2>4. NextPage(crawl.at, Page) = 0
    BY <2>1, <2>3 DEF NextPage
  <2> QED BY <2>1, <2>4 DEF NextAt
<1> HIDE DEF view, before
<1>6. ASSUME source.family # "feed", Finished(crawl.entries + Len(Page), Page)
      PROVE  before + Len(Page) >= Len(view)
  <2>1. \/ crawl.entries + Len(Page) >= Len(view)
        \/ source.size > 0 /\ Len(Page) < source.size
    BY <1>6 DEF Finished, view
  <2>2. crawl.entries <= before
    BY DEF before
  <2> QED BY <1>1, <1>2, <1>3, <1>6, <2>1, <2>2
<1>7. ASSUME source.family # "feed", ~Finished(crawl.entries + Len(Page), Page)
      PROVE  /\ NextAt = 0 => before + Len(Page) >= Len(view)
             /\ NextAt # 0 =>
                  /\ Before(NextAt) >= before + Len(Page)
                  /\ \/ before + Len(Page) >= Len(view)
                     \/ Len(Page) = PageSize /\ Before(NextAt) = before + Len(Page)
  <2>1. NextAt = NextPage(crawl.at, Page)
    BY <1>7 DEF NextAt
  <2>2. source.paging # "offset" => Before(crawl.at + 1) = before + PageSize
    <3> SUFFICES ASSUME source.paging # "offset" PROVE Before(crawl.at + 1) = before + PageSize
      OBVIOUS
    <3>1. PICK q \in Nat : q = crawl.at - 1
      BY <1>1 DEF First
    <3>3. Before(crawl.at + 1) = (q + 1) * PageSize /\ before = q * PageSize
      <4>1. \A p : Before(p) = (p - 1) * PageSize
        BY Zenon DEF Before
      <4> HIDE DEF Before
      <4> DEFINE now == crawl.at
                 then == crawl.at + 1
      <4>2. now - 1 = q /\ then - 1 = q + 1
        BY <1>1, <3>1
      <4> HIDE DEF now, then
      <4>3. Before(then) = (then - 1) * PageSize /\ Before(now) = (now - 1) * PageSize
        BY <4>1, Zenon
      <4>4. Before(then) = (q + 1) * PageSize /\ Before(now) = q * PageSize
        BY <4>2, <4>3, Zenon
      <4> QED BY <4>4 DEF now, then, before
    <3> QED BY <1>2, <3>3, Multiples
  <2>3. CASE source.paging = "next"
    <3>1. NextAt = Advertised(crawl.at)
      BY <2>1, <2>3 DEF NextPage
    <3>2. CASE before + PageSize < Len(view)
      <4>1. NextAt = crawl.at + 1
        BY <3>1, <3>2 DEF Advertised, before, view
      <4>2. Before(NextAt) = before + PageSize /\ NextAt # 0
        BY <1>1, <2>2, <2>3, <4>1
      <4> QED BY <1>2, <1>3, <1>7, <4>2
    <3>3. CASE ~(before + PageSize < Len(view))
      <4>1. NextAt = 0
        BY <3>1, <3>3 DEF Advertised, before, view
      <4> QED BY <1>2, <1>3, <1>7, <3>3, <4>1
    <3> QED BY <3>2, <3>3
  <2>4. CASE source.paging = "page"
    <3>1. NextAt = crawl.at + 1
      BY <2>1, <2>4 DEF NextPage
    <3>2. Before(NextAt) = before + PageSize /\ NextAt # 0
      BY <1>1, <2>2, <2>4, <3>1
    <3> QED BY <1>2, <1>3, <1>7, <3>2
  <2>5. CASE source.paging = "offset"
    <3>1. NextAt = Stepped(crawl.at, Page) /\ before = crawl.at /\ Before(NextAt) = NextAt
      BY <2>1, <2>5 DEF NextPage, Before, before
    <3>2. CASE source.size > 0
      <4>1. NextAt = crawl.at + PageSize
        BY <1>2, <1>7, <3>1, <3>2 DEF Stepped
      <4> QED BY <1>1, <1>2, <1>3, <1>7, <3>1, <4>1
    <3>3. CASE source.size = 0
      <4>1. NextAt = IF Len(Page) = 0 THEN 0 ELSE crawl.at + Len(Page)
        BY <3>1, <3>3 DEF Stepped
      <4> QED BY <1>1, <1>2, <1>3, <1>7, <3>1, <4>1
    <3> QED BY <1>2, <3>2, <3>3
  <2> QED BY <1>2, <2>3, <2>4, <2>5 DEF Pagings
<1>8. source.family # "feed" /\ Finished(crawl.entries + Len(Page), Page) => NextAt = 0
  BY DEF NextAt
<1> QED BY <1>5, <1>6, <1>7, <1>8 DEF view, before
\* A chain of pages that ends has found what its facet shows within the cap.
LEMMA PageEnds ==
  ASSUME CrawlInv, crawl.stage = "request", Reads(crawl), Quiet(crawl),
         Ends(ReadOn, NextAt, Fresh, Page)
  PROVE  Got(View(crawl.facet), ReadOn, CapEnd)
<1> DEFINE view == View(crawl.facet)
           before == Before(crawl.at)
           end == before + Len(Page)
<1>1. /\ crawl \in Crawl /\ crawl.at \in Nat /\ crawl.at >= First /\ crawl.pages \in Nat
      /\ crawl.pages = 0 => crawl.at = First
      /\ source \in Sources /\ site \in Seq(Entry) /\ MaxPages \in Nat /\ PageSize \in Nat
  BY PageNumbers, ListingsConstants DEF CrawlInv, Working, Crawl
<1>2. /\ ~Shortchanged /\ (source.family = "feed" => crawl.pages = 0)
      /\ crawl.entries <= Before(crawl.at) /\ \A v \in crawl.visited : v < crawl.at
      /\ GotAll(view, crawl) \/ before = crawl.pages * PageSize
  BY DEF Reads, ReadsTo, Quiet
<1>3. /\ Len(Page) \in Nat /\ Len(view) \in Nat /\ before \in Nat
      /\ source.family # "feed" => end >= Len(view) \/ Len(Page) = PageSize
      /\ source.family = "feed" /\ crawl.at = First =>
           Len(Page) >= Len(view) \/ Len(Page) = MaxPages
  BY <1>1, ServedEntries DEF Page
<1>4. /\ source.family = "feed" => NextAt = 0 /\ before = 0
      /\ NextAt = 0 /\ source.family # "feed" => end >= Len(view)
  BY <1>2, NextStarts
<1>5. Got(view, ReadOn, end)
  BY PageGot
<1>6. /\ ReadOn.pages = crawl.pages + 1 /\ ReadOn.visited = crawl.visited \cup {crawl.at}
      /\ ReadOn.stayed = crawl.stayed /\ crawl.found \subseteq ReadOn.found
      /\ NextAt \in Nat /\ (NextAt # 0 => NextAt > crawl.at) /\ crawl.visited \subseteq Nat
  BY <1>1, ReadOnKeeps, PageTaken DEF Crawl
<1>7. CapEnd \in Nat
  <2>1. \A a, b \in Nat : a * b \in Nat
    OBVIOUS
  <2> QED BY <1>1, <2>1 DEF CapEnd
<1> HIDE DEF view, before
<1>8. ASSUME end >= Len(view) PROVE Got(view, ReadOn, CapEnd)
  BY <1>3, <1>5, <1>8 DEF Got
<1>9. ASSUME source.family = "feed" PROVE Got(view, ReadOn, CapEnd)
  <2>1. end >= Len(view) \/ end = CapEnd
    BY <1>1, <1>2, <1>3, <1>4, <1>9 DEF CapEnd
  <2> QED BY <1>5, <1>8, <2>1
<1>10. ASSUME source.family # "feed", ~(end >= Len(view)) PROVE Got(view, ReadOn, CapEnd)
  <2>1. NextAt # 0 /\ NextAt \notin ReadOn.visited /\ Len(Page) = PageSize
    BY <1>1, <1>2, <1>3, <1>4, <1>6, <1>10
  <2>2. CASE Fresh = {}
    BY <2>1, <2>2, NewsUntilTheEnd
  <2>3. CASE Fresh # {}
    <3>1. MaxPages <= crawl.pages + 1
      BY <1>1, <1>6, <2>1, <2>3 DEF Ends
    <3>2. CASE GotAll(view, crawl)
      BY <1>3, <1>6, <3>2 DEF GotAll, Got, Found
    <3>3. CASE before = crawl.pages * PageSize
      <4>1. crawl.pages + 1 \in Nat
        BY <1>1
      <4>2. MaxPages * PageSize <= (crawl.pages + 1) * PageSize
        BY <1>1, <3>1, <4>1, Multiples
      <4>3. end = (crawl.pages + 1) * PageSize
        BY <1>1, <2>1, <3>3, Multiples
      <4>4. CapEnd <= end /\ end \in Int
        BY <1>3, <1>10, <4>2, <4>3 DEF CapEnd
      <4> HIDE DEF end
      <4> QED BY <1>3, <1>5, <1>7, <4>4, GotMore
    <3> QED BY <1>2, <3>2, <3>3
  <2> QED BY <2>2, <2>3
<1> QED BY <1>8, <1>9, <1>10 DEF view

\* A chain of pages that goes on has found what is before its next page.
LEMMA PageContinues ==
  ASSUME CrawlInv, NamedOnce(site), crawl.stage = "request", Reads(crawl), Quiet(crawl),
         ~Ends(ReadOn, NextAt, Fresh, Page), NEW c, c = [ReadOn EXCEPT !.at = NextAt]
  PROVE  /\ Reads(c) /\ c.facet = crawl.facet /\ c.found = ReadOn.found
         /\ c.stayed = crawl.stayed /\ c.stage = "request"
<1> DEFINE view == View(crawl.facet)
           before == Before(crawl.at)
           end == before + Len(Page)
           next == Before(NextAt)
<1>1. /\ crawl \in Crawl /\ crawl.at \in Nat /\ crawl.at >= First /\ crawl.pages \in Nat
      /\ crawl.entries \in Nat /\ crawl.published \in Nat
      /\ source \in Sources /\ site \in Seq(Entry) /\ PageSize \in Nat /\ First \in Nat
  BY PageNumbers DEF CrawlInv, Working, Crawl
<1>2. /\ ~Shortchanged /\ (source.family = "feed" => crawl.pages = 0)
      /\ crawl.entries <= before /\ \A v \in crawl.visited : v < crawl.at
      /\ GotAll(view, crawl) \/ before = crawl.pages * PageSize
      /\ \A i \in 1..Len(view) : view[i] \in crawl.seen => i <= before + crawl.published
      /\ \A t \in crawl.seen : Found(crawl, t)
  BY DEF Reads, ReadsTo, Quiet
<1>3. NextAt # 0 /\ NextAt \in Nat /\ NextAt > crawl.at
  BY PageTaken DEF Ends
<1>4. /\ source.family # "feed" /\ next >= end
      /\ end >= Len(view) \/ (Len(Page) = PageSize /\ next = end)
  BY <1>2, <1>3, NextStarts
<1>5. /\ Len(Page) \in Nat /\ Len(view) \in Nat /\ before \in Nat /\ Page \in Seq(Range(site))
      /\ \A j \in 1..Len(Page) : before + j \in 1..Len(view) /\ Page[j] = view[before + j]
  BY <1>1, ServedEntries DEF Page
<1>6. next \in Nat
  BY <1>1, <1>3, PageNumbers
<1>7. Got(view, ReadOn, end)
  BY PageGot
<1>8. NamedOnce(view)
  BY <1>1, ViewOnce
<1>9. /\ c.at = NextAt /\ c.facet = crawl.facet /\ c.found = crawl.found \cup Taken
      /\ c.stayed = crawl.stayed /\ c.stage = "request" /\ c.pages = crawl.pages + 1
      /\ c.visited = crawl.visited \cup {crawl.at} /\ c.seen = crawl.seen \cup Fresh
      /\ c.entries = crawl.entries + Len(Page) /\ c.published = crawl.published
      /\ c.found = ReadOn.found /\ ReadOn.stayed = crawl.stayed
  BY ReadOnKeeps DEF Crawl
<1> HIDE DEF view, before, next
<1>10. Got(view, c, next)
  BY <1>4, <1>5, <1>6, <1>7, <1>9 DEF Got, Found
<1>11. ASSUME NEW i \in 1..Len(view), view[i] \in c.seen PROVE i <= next + c.published
  <2>1. CASE view[i] \in crawl.seen
    BY <1>1, <1>2, <1>4, <1>5, <1>6, <1>9, <2>1
  <2>2. CASE view[i] \in Fresh
    <3>1. PICK j \in 1..Len(Page) : Page[j] = view[i] /\ view[i] # Unreadable
      BY <1>5, <2>2, LenProperties DEF Fresh, Readable, Range
    <3>2. before + j \in 1..Len(view) /\ view[before + j] = view[i]
      BY <1>5, <3>1
    <3>3. i = before + j
      BY <1>8, <3>1, <3>2 DEF NamedOnce
    <3> QED BY <1>1, <1>4, <1>5, <1>6, <1>9, <3>3
  <2> QED BY <1>9, <1>11, <2>1, <2>2
<1>12. ASSUME NEW t \in c.seen PROVE Found(c, t)
  <2>1. CASE t \in crawl.seen
    BY <1>2, <1>9, <2>1 DEF Found
  <2>2. CASE t \in Fresh
    <3>1. AsListing(t) \in Taken
      BY <2>2 DEF Taken
    <3> QED BY <1>9, <3>1, AsListingNames DEF Found
  <2> QED BY <1>9, <1>12, <2>1, <2>2
<1>13. GotAll(view, c) \/ next = c.pages * PageSize
  <2>1. CASE GotAll(view, crawl)
    BY <1>9, <2>1 DEF GotAll, Got, Found
  <2>2. CASE end >= Len(view)
    BY <1>5, <1>7, <1>9, <2>2 DEF GotAll, Got, Found
  <2>3. CASE before = crawl.pages * PageSize /\ Len(Page) = PageSize /\ next = end
    BY <1>1, <1>9, <2>3, Multiples
  <2> QED BY <1>2, <1>4, <2>1, <2>2, <2>3
<1>14. \A v \in c.visited : v < c.at
  <2>1. crawl.visited \subseteq Nat
    BY <1>1 DEF Crawl
  <2>2. c.visited = crawl.visited \cup {crawl.at} /\ c.at = NextAt
    BY <1>9
  <2>3. \A v \in crawl.visited : v \in Nat /\ v < crawl.at
    BY <1>2, <2>1
  <2>4. crawl.at \in Nat /\ NextAt \in Nat /\ crawl.at < NextAt
    BY <1>1, <1>3
  <2> QED BY <2>2, <2>3, <2>4
<1>15. c.entries <= next
  <2>1. /\ c.entries = crawl.entries + Len(Page) /\ crawl.entries <= before
        /\ next >= before + Len(Page)
    BY <1>2, <1>4, <1>9
  <2>2. crawl.entries \in Nat /\ Len(Page) \in Nat /\ before \in Nat /\ next \in Nat
    BY <1>1, <1>5, <1>6
  <2> QED BY <2>1, <2>2
<1>16. ReadsTo(c, View(c.facet), Before(c.at))
  BY <1>9, <1>10, <1>11, <1>12, <1>14, <1>15 DEF ReadsTo, view, next
<1> QED BY <1>4, <1>9, <1>13, <1>16 DEF Reads, view, next

LEMMA ChainReads ==
  ASSUME site \in Seq(Entry), source \in Sources, NEW c \in Crawl, NEW f \in Nat
  PROVE  /\ Reads(Chain(c, f)) /\ Chain(c, f).found = c.found /\ Chain(c, f).stayed = c.stayed
         /\ Chain(c, f).facet = f /\ Chain(c, f).stage = c.stage
         /\ Chain(c, f).published = c.published /\ Chain(c, f).withdrawn = c.withdrawn
<1> DEFINE d == Chain(c, f)
           view == View(f)
<1>1. First \in Nat /\ Before(First) = 0 /\ PageSize \in Nat /\ Len(view) \in Nat
  BY PageNumbers, ViewType, LenProperties
<1>2. /\ d.facet = f /\ d.at = First /\ d.visited = {} /\ d.seen = {} /\ d.pages = 0
      /\ d.entries = 0 /\ d.found = c.found /\ d.stayed = c.stayed /\ d.stage = c.stage
      /\ d.published = c.published /\ d.withdrawn = c.withdrawn
  BY <1>1 DEF Chain, Crawl
<1> HIDE DEF d, view
<1>3. Got(view, d, 0)
  BY <1>1 DEF Got
<1>4. ReadsTo(d, view, 0) /\ 0 = 0 * PageSize
  BY <1>1, <1>2, <1>3 DEF ReadsTo
<1>5. Reads(d)
  BY <1>1, <1>2, <1>4 DEF Reads, view
<1> QED BY <1>2, <1>5 DEF d

\* What a crawl has of the chains before, it keeps.
LEMMA PageComplete ==
  ASSUME CrawlInv, NamedOnce(site), crawl.stage = "request", Quiet(crawl), Complete(crawl)
  PROVE  Complete(AfterPage(Page))
<1> DEFINE c == AfterPage(Page)
           Before_(d, n) == \A g \in 1..n : Got(View(g), d, CapEnd)
<1>1. /\ site \in Seq(Entry) /\ source \in Sources /\ crawl.facet \in DOMAIN source.facets
      /\ crawl \in Crawl /\ crawl.facet \in Nat /\ ReadOn.facet = crawl.facet
  BY ReadOnKeeps DEF CrawlInv, Working, Crawl
<1>2. Reads(crawl) /\ Before_(crawl, crawl.facet - 1) /\ crawl.stayed \subseteq Range(site)
  BY DEF Complete
<1>3. c = IF Ends(ReadOn, NextAt, Fresh, Page) THEN NextChain(ReadOn)
          ELSE [ReadOn EXCEPT !.at = NextAt]
  BY PageTaken
<1>4. /\ ReadOn \in Crawl /\ ReadOn.stayed = crawl.stayed /\ crawl.found \subseteq ReadOn.found
      /\ ReadOn.stage = "request"
  BY ReadOnKeeps
<1>5. ASSUME NEW d, crawl.found \subseteq d.found, d.stayed = crawl.stayed
      PROVE  Before_(d, crawl.facet - 1)
  BY <1>2, <1>5 DEF Got, Found
<1>6. /\ source.facets \in Seq(SUBSET Listed) /\ Len(source.facets) \in Nat
      /\ DOMAIN source.facets = 1..Len(source.facets)
  <2>1. source.facets \in Seq(SUBSET Listed)
    BY <1>1, PageNumbers DEF Source
  <2> QED BY <2>1, LenProperties
<1> HIDE DEF c
<1>7. CASE ~Ends(ReadOn, NextAt, Fresh, Page)
  <2>1. c = [ReadOn EXCEPT !.at = NextAt]
    BY <1>3, <1>7
  <2>2. /\ Reads(c) /\ c.facet = crawl.facet /\ c.found = ReadOn.found
        /\ c.stayed = crawl.stayed /\ c.stage = "request"
    BY <1>2, <1>7, <2>1, PageContinues
  <2>3. Before_(c, c.facet - 1)
    BY <1>4, <1>5, <2>2
  <2> QED BY <1>2, <2>2, <2>3 DEF Complete, c
<1>8. ASSUME Ends(ReadOn, NextAt, Fresh, Page), NEW d, d.found = ReadOn.found,
             d.stayed = crawl.stayed
      PROVE  Before_(d, crawl.facet)
  <2>1. Got(View(crawl.facet), ReadOn, CapEnd)
    BY <1>2, <1>8, PageEnds
  <2>2. Got(View(crawl.facet), d, CapEnd)
    BY <1>4, <1>8, <2>1 DEF Got, Found
  <2>3. Before_(d, crawl.facet - 1)
    BY <1>4, <1>5, <1>8
  <2> QED BY <1>1, <2>2, <2>3
<1>9. CASE Ends(ReadOn, NextAt, Fresh, Page) /\ crawl.facet < Len(source.facets)
  <2>1. c = Chain(ReadOn, crawl.facet + 1) /\ crawl.facet + 1 \in Nat
    BY <1>1, <1>3, <1>9 DEF NextChain
  <2>2. /\ Reads(c) /\ c.facet = crawl.facet + 1 /\ c.found = ReadOn.found
        /\ c.stayed = crawl.stayed /\ c.stage = "request"
    BY <1>1, <1>4, <2>1, ChainReads
  <2>3. Before_(c, c.facet - 1)
    <3>1. c.facet - 1 = crawl.facet
      BY <1>1, <2>2
    <3> QED BY <1>8, <1>9, <2>2, <3>1
  <2> QED BY <1>2, <2>2, <2>3 DEF Complete, c
<1>10. CASE Ends(ReadOn, NextAt, Fresh, Page) /\ ~(crawl.facet < Len(source.facets))
  <2>1. c = [ReadOn EXCEPT !.stage = "done"]
    BY <1>1, <1>3, <1>10 DEF NextChain
  <2>2. c.stage = "done" /\ c.found = ReadOn.found /\ c.stayed = crawl.stayed
    BY <1>4, <2>1 DEF Crawl
  <2>3. Before_(c, crawl.facet)
    BY <1>8, <1>10, <2>2
  <2>4. \A g \in DOMAIN source.facets : Got(View(g), c, CapEnd)
    <3>1. DOMAIN source.facets \subseteq 1..crawl.facet
      BY <1>1, <1>6, <1>10
    <3> QED BY <2>3, <3>1
  <2> QED BY <1>2, <2>2, <2>4 DEF Complete, c
<1> QED BY <1>7, <1>9, <1>10
\* Steps that leave the site alone.
LEMMA SameSite ==
  ASSUME site' = site, source' = source
  PROVE  (Quiet(crawl)' <=> Quiet(crawl')) /\ (Complete(crawl)' <=> Complete(crawl'))
<1>1. \A f : View(f)' = View(f)
  BY DEF View
<1>2. \A p : Before(p)' = Before(p)
  BY DEF Before, PageSize
<1>3. CapEnd' = CapEnd /\ PageSize' = PageSize
  BY DEF CapEnd, PageSize
<1>4. Reads(crawl)' <=> Reads(crawl')
  <2>1. View(crawl.facet)' = View(crawl'.facet)
    BY <1>1
  <2>2. Before(crawl.at)' = Before(crawl'.at)
    BY <1>2
  <2> QED BY <2>1, <2>2, <1>3 DEF Reads
<1>5. Quiet(crawl)' <=> Quiet(crawl')
  BY DEF Quiet, Unreadables, PageSize, Shortchanged
<1>6. Complete(crawl)' <=> Complete(crawl')
  BY <1>1, <1>3, <1>4 DEF Complete
<1> QED BY <1>5, <1>6

\* Steps that neither read a page nor change the site.
SameProgress(c) ==
  /\ c.facet = crawl.facet /\ c.at = crawl.at /\ c.visited = crawl.visited
  /\ c.seen = crawl.seen /\ c.pages = crawl.pages /\ c.entries = crawl.entries
  /\ c.found = crawl.found /\ c.stayed = crawl.stayed /\ c.published = crawl.published
  /\ c.withdrawn = crawl.withdrawn
  /\ c.stage \in {"form", "request"} => crawl.stage \in {"form", "request"}
  /\ c.stage = "done" => crawl.stage = "done"

LEMMA ProgressKept ==
  ASSUME NEW c, SameProgress(c)
  PROVE  (Quiet(c) => Quiet(crawl)) /\ (Complete(crawl) => Complete(c))
<1>1. \A view, n : Got(view, crawl, n) => Got(view, c, n)
  BY DEF SameProgress, Got, Found
<1>2. ASSUME Reads(crawl) PROVE Reads(c)
  <2>1. ReadsTo(c, View(c.facet), Before(c.at))
    <3>1. ReadsTo(crawl, View(c.facet), Before(c.at))
      BY <1>2 DEF Reads, SameProgress
    <3> QED BY <1>1, <3>1 DEF ReadsTo, SameProgress, Found
  <2> QED BY <1>1, <1>2, <2>1 DEF Reads, SameProgress, GotAll
<1> QED BY <1>1, <1>2 DEF Complete, Quiet, SameProgress

\* An entry that is published moves what a facet shows by one or not at all.
LEMMA ViewMoves ==
  ASSUME site \in Seq(Entry), NEW t \in Listed, site' = <<t>> \o site, source' = source, NEW f
  PROVE  /\ Len(View(f)) \in Nat /\ Len(View(f)') \in Nat
         /\ \A i \in 1..Len(View(f)') :
              \/ i = 1 /\ (View(f)')[i] = t
              \/ \E k \in 1..Len(View(f)) : k <= i /\ i <= k + 1 /\ (View(f)')[i] = View(f)[k]
<1> DEFINE wanted == source.facets[f]
           view == View(f)
           top == IF t \in wanted THEN <<t>> ELSE <<>>
           moved == top \o view
<1>1. View(f)' = moved
  <2>1. View(f) = Shows(site, wanted)[Len(site)]
    BY ViewShows
  <2>2. View(f)' = Shows(site', wanted)[Len(site')]
    BY DEF View, Shows, Upto
  <2>3. View(f)' = Shows(<<t>> \o site, wanted)[Len(<<t>> \o site)]
    BY <2>2
  <2>4. Shows(<<t>> \o site, wanted)[Len(<<t>> \o site)]
          = top \o Shows(site, wanted)[Len(site)]
    BY ShowsPrepends
  <2> HIDE DEF wanted, top
  <2> QED BY <2>1, <2>3, <2>4, Zenon
<1>2. view \in Seq(Entry)
  <2>1. Range(site) \subseteq Entry
    BY RangeOfSeq
  <2> QED BY <2>1, ViewType, SeqMonotonic
<1>3. Len(view) \in Nat
  BY <1>2, LenProperties
<1> HIDE DEF view
<1>4. CASE t \in wanted
  <2>1. moved = <<t>> \o view
    BY <1>4
  <2>2. /\ Len(moved) = Len(view) + 1 /\ moved[1] = t
        /\ \A n \in 1..Len(view) : moved[n + 1] = view[n]
    BY <1>2, <2>1, PrependedList
  <2> HIDE DEF moved
  <2>3. ASSUME NEW i \in 1..Len(moved), i # 1
        PROVE  \E k \in 1..Len(view) : k <= i /\ i <= k + 1 /\ moved[i] = view[k]
    <3>1. i - 1 \in 1..Len(view) /\ (i - 1) + 1 = i
      BY <1>3, <2>2, <2>3
    <3>2. i - 1 <= i /\ i <= (i - 1) + 1 /\ moved[i] = view[i - 1]
      BY <2>2, <3>1
    <3> QED BY <3>1, <3>2
  <2> QED BY <1>1, <1>3, <2>2, <2>3 DEF view
<1>5. CASE t \notin wanted
  <2>1. moved = view
    <3>1. top = <<>>
      BY <1>5
    <3> QED BY <1>2, <3>1, ConcatEmptySeq
  <2> HIDE DEF moved
  <2>2. \A i \in 1..Len(moved) : i \in 1..Len(view) /\ i <= i /\ i <= i + 1 /\ moved[i] = view[i]
    BY <1>3, <2>1
  <2> QED BY <1>1, <1>3, <2>1, <2>2 DEF view
<1> QED BY <1>4, <1>5

\* A publication makes no crawl miss an entry that it would not have missed.
LEMMA PublishKeeps ==
  ASSUME CrawlInv, NamedOnce(site), NEW t \in Listed, Publish(t)
  PROVE  /\ NamedOnce(site)'
         /\ Quiet(crawl)' => Quiet(crawl)
         /\ Quiet(crawl) /\ Complete(crawl) => Complete(crawl)'
<1>1. /\ crawl \in Crawl /\ crawl.published \in Nat /\ site \in Seq(Entry) /\ source \in Sources
      /\ crawl.facet \in Nat /\ crawl.pages \in Nat /\ crawl.at \in Nat
  BY DEF CrawlInv, Crawl
<1>2. /\ site' = <<t>> \o site /\ source' = source /\ t \notin Range(site)
      /\ crawl' = [crawl EXCEPT !.published = @ + 1]
  BY DEF Publish
<1>3. /\ Len(site) \in Nat /\ Len(site') = Len(site) + 1 /\ site' \in Seq(Entry) /\ site'[1] = t
      /\ \A n \in 1..Len(site) : site'[n + 1] = site[n]
  BY <1>1, <1>2, PrependedList
<1>4. \A n \in 1..Len(site) : site[n] # t
  <2>1. DOMAIN site = 1..Len(site)
    BY <1>1, LenProperties
  <2> QED BY <1>2, <2>1 DEF Range
<1>5. NamedOnce(site)'
  <2> SUFFICES ASSUME NEW i \in 1..Len(site'), NEW j \in 1..Len(site'),
                      site'[i] = site'[j], site'[i] # Unreadable
      PROVE  i = j
    BY DEF NamedOnce
  <2>1. \A n \in 1..Len(site') : n # 1 =>
          n - 1 \in 1..Len(site) /\ site'[n] = site[n - 1]
    <3> SUFFICES ASSUME NEW n \in 1..Len(site'), n # 1
        PROVE  n - 1 \in 1..Len(site) /\ site'[n] = site[n - 1]
      OBVIOUS
    <3>1. n - 1 \in 1..Len(site) /\ (n - 1) + 1 = n
      BY <1>3
    <3> QED BY <1>3, <3>1
  <2>2. CASE i = 1 \/ j = 1
    BY <1>3, <1>4, <2>1, <2>2
  <2>3. CASE i # 1 /\ j # 1
    <3>1. i - 1 = j - 1
      BY <2>1, <2>3 DEF NamedOnce
    <3> QED BY <1>3, <3>1
  <2> QED BY <2>2, <2>3
<1>6. /\ crawl'.published = crawl.published + 1 /\ crawl'.withdrawn = crawl.withdrawn
      /\ crawl'.facet = crawl.facet /\ crawl'.at = crawl.at /\ crawl'.visited = crawl.visited
      /\ crawl'.seen = crawl.seen /\ crawl'.pages = crawl.pages
      /\ crawl'.entries = crawl.entries /\ crawl'.found = crawl.found
      /\ crawl'.stayed = crawl.stayed /\ crawl'.stage = crawl.stage
  BY <1>1, <1>2 DEF Crawl
<1>7. /\ source.family # "feed" => PageSize' = PageSize
      /\ source.family = "feed" => PageSize = Len(site) /\ PageSize' = Len(site) + 1
      /\ PageSize \in Nat /\ PageSize' \in Nat /\ CapEnd' = CapEnd
  <2>1. /\ source.family # "feed" => PageSize' = PageSize
        /\ source.family = "feed" => PageSize = Len(site) /\ PageSize' = Len(site) + 1
    BY <1>2, <1>3 DEF PageSize
  <2>2. CapEnd' = CapEnd
    BY <1>2, <2>1 DEF CapEnd
  <2> QED BY <1>1, <1>3, <2>1, <2>2, PageNumbers
<1>8. Unreadables \in Nat /\ Unreadables' \in Nat /\ Unreadables <= Unreadables'
  <2>1. Unreadables = Cardinality(Spots(site))
    BY <1>1, UnreadablesAreSpots
  <2>2. Unreadables' = Cardinality(Spots(site'))
    <3>1. DOMAIN site' = 1..Len(site')
      BY <1>3, LenProperties
    <3> QED BY <3>1 DEF Unreadables, Spots
  <2>3. /\ Cardinality(Spots(site)) \in Nat /\ Cardinality(Spots(site')) \in Nat
        /\ Cardinality(Spots(site)) <= Cardinality(Spots(site'))
    <3>1. Cardinality(Spots(site)) <= Cardinality(Spots(<<t>> \o site))
      BY <1>1, PublishedSpots
    <3> QED BY <1>1, <1>2, <1>3, <3>1, SpotsFinite
  <2> QED BY <2>1, <2>2, <2>3
<1>9. Quiet(crawl)' => Quiet(crawl)
  <2>1. Shortchanged' = Shortchanged
    BY <1>2 DEF Shortchanged
  <2> QED BY <1>1, <1>6, <1>7, <1>8, <2>1 DEF Quiet
<1>10. ASSUME Complete(crawl) PROVE Complete(crawl)'
  <2>1. t \notin crawl.stayed /\ crawl'.stayed \subseteq Range(site')
    <3>1. Range(site) \subseteq Range(site')
      <4>1. DOMAIN site = 1..Len(site) /\ DOMAIN site' = 1..Len(site')
        BY <1>1, <1>3, LenProperties
      <4>2. \A n \in 1..Len(site) : n + 1 \in 1..Len(site')
        BY <1>3
      <4>3. \A n \in 1..Len(site) : \E m \in DOMAIN site' : site'[m] = site[n]
        BY <1>3, <4>1, <4>2
      <4> QED BY <4>1, <4>3 DEF Range
    <3> QED BY <1>2, <1>6, <1>10, <3>1 DEF Complete
  <2>6. ASSUME NEW g, NEW i \in 1..Len(View(g)'), (View(g)')[i] \in crawl.stayed
        PROVE  /\ Len(View(g)) \in Nat /\ Len(View(g)') \in Nat
               /\ \E k \in 1..Len(View(g)) : k <= i /\ (View(g)')[i] = View(g)[k]
    <3>1. /\ Len(View(g)) \in Nat /\ Len(View(g)') \in Nat
          /\ \/ (View(g)')[i] = t
             \/ \E k \in 1..Len(View(g)) : k <= i /\ i <= k + 1 /\ (View(g)')[i] = View(g)[k]
      BY <1>1, <1>2, ViewMoves
    <3>2. (View(g)')[i] # t
      BY <2>1, <2>6
    <3> QED BY <3>1, <3>2
  <2>2. ASSUME NEW g, NEW n \in Int, Got(View(g), crawl, n) PROVE Got(View(g)', crawl', n)
    <3> SUFFICES ASSUME NEW i \in 1..Len(View(g)'), i <= n, (View(g)')[i] \in crawl.stayed
        PROVE  Found(crawl', (View(g)')[i])
      BY <1>6 DEF Got
    <3>1. PICK k \in 1..Len(View(g)) : k <= i /\ (View(g)')[i] = View(g)[k]
      BY <2>6
    <3>2. Len(View(g)) \in Nat /\ Len(View(g)') \in Nat
      BY <2>6
    <3>3. k <= n
      BY <3>1, <3>2
    <3>4. Found(crawl, View(g)[k])
      BY <2>2, <3>1, <3>3 DEF Got
    <3> QED BY <1>6, <3>1, <3>4 DEF Found
  <2>3. ASSUME NEW g, GotAll(View(g), crawl) PROVE GotAll(View(g)', crawl')
    <3> SUFFICES ASSUME NEW i \in 1..Len(View(g)'), (View(g)')[i] \in crawl.stayed
        PROVE  Found(crawl', (View(g)')[i])
      BY <1>6 DEF Got, GotAll
    <3>1. PICK k \in 1..Len(View(g)) : (View(g)')[i] = View(g)[k]
      BY <2>6
    <3>2. Len(View(g)) \in Nat
      BY <2>6
    <3>3. Found(crawl, View(g)[k])
      BY <2>3, <3>1, <3>2 DEF Got, GotAll
    <3> QED BY <1>6, <3>1, <3>3 DEF Found
  <2>4. CapEnd \in Int
    <3>1. \A a, b \in Nat : a * b \in Nat
      OBVIOUS
    <3> QED BY <1>7, <3>1, ListingsConstants DEF CapEnd
  <2>5. ASSUME crawl.stage \in {"form", "request"} PROVE Reads(crawl)'
    <3> DEFINE before == Before(crawl.at)
    <3>1. PICK g : g = crawl.facet
      OBVIOUS
    <3>2. /\ ReadsTo(crawl, View(g), before)
          /\ GotAll(View(g), crawl) \/ before = crawl.pages * PageSize
          /\ source.family = "feed" => crawl.pages = 0
      BY <1>10, <2>5, <3>1 DEF Complete, Reads
    <3>3. crawl.at >= First /\ (crawl.pages = 0 => crawl.at = First)
      BY <2>5 DEF CrawlInv, Working
    <3>4. before \in Nat
      BY <1>1, <3>3, PageNumbers
    <3>5. Before(crawl.at)' = before
      <4>1. CASE source.family # "feed"
        BY <1>2, <1>6, <1>7, <4>1 DEF Before
      <4>2. CASE source.family = "feed"
        <5>1. source.paging = "next" /\ crawl.at = 1 /\ before = 0
          BY <1>1, <3>2, <3>3, <4>2, PageNumbers DEF First
        <5>2. Before(crawl.at)' = (1 - 1) * PageSize'
          BY <1>2, <1>6, <5>1 DEF Before
        <5>3. (1 - 1) * PageSize' = 0
          <6>1. \A n \in Nat : (1 - 1) * n = 0
            OBVIOUS
          <6> QED BY <1>7, <6>1
        <5> QED BY <5>1, <5>2, <5>3
      <4> QED BY <4>1, <4>2
    <3> HIDE DEF before
    <3>6. Got(View(g)', crawl', before)
      BY <2>2, <3>2, <3>4 DEF ReadsTo
    <3>7. ASSUME NEW i \in 1..Len(View(g)'), (View(g)')[i] \in crawl'.seen
          PROVE  i <= before + crawl'.published
      <4>1. Len(View(g)) \in Nat /\ Len(View(g)') \in Nat
        BY <1>1, <1>2, ViewMoves
      <4>2. CASE (View(g)')[i] = t /\ i = 1
        BY <1>1, <1>6, <3>4, <4>2
      <4>3. ASSUME NEW k \in 1..Len(View(g)), i <= k + 1, (View(g)')[i] = View(g)[k]
            PROVE  i <= before + crawl'.published
        <5>1. k <= before + crawl.published
          BY <1>6, <3>2, <3>7, <4>3 DEF ReadsTo
        <5> QED BY <1>1, <1>6, <3>4, <4>1, <4>3, <5>1
      <4> QED BY <1>1, <1>2, <4>2, <4>3, ViewMoves
    <3>8. ReadsTo(crawl', View(g)', before)
      BY <1>6, <3>2, <3>6, <3>7 DEF ReadsTo, Found
    <3>9. GotAll(View(g)', crawl') \/ before = crawl'.pages * PageSize'
      <4>1. CASE GotAll(View(g), crawl)
        BY <2>3, <4>1
      <4>2. CASE before = crawl.pages * PageSize /\ source.family # "feed"
        BY <1>6, <1>7, <4>2
      <4>3. CASE before = crawl.pages * PageSize /\ source.family = "feed"
        <5>1. crawl.pages = 0 /\ 0 * PageSize = 0 /\ 0 * PageSize' = 0
          BY <1>7, <3>2, <4>3
        <5> QED BY <1>6, <4>3, <5>1
      <4> QED BY <3>2, <4>1, <4>2, <4>3
    <3> QED BY <1>2, <1>6, <3>1, <3>2, <3>5, <3>8, <3>9 DEF Reads
  <2>7. ASSUME NEW S, \A g \in S : Got(View(g), crawl, CapEnd)
        PROVE  \A g \in S : Got(View(g)', crawl', CapEnd')
    <3> SUFFICES ASSUME NEW g \in S PROVE Got(View(g)', crawl', CapEnd)
      BY <1>7
    <3> QED BY <2>2, <2>4, <2>7
  <2>8. ASSUME crawl.stage \in {"form", "request"}
        PROVE  \A g \in 1..(crawl.facet - 1) : Got(View(g)', crawl', CapEnd')
    <3>1. \A g \in 1..(crawl.facet - 1) : Got(View(g), crawl, CapEnd)
      BY <1>10, <2>8 DEF Complete
    <3> HIDE DEF CapEnd
    <3> QED BY <2>7, <3>1
  <2>9. ASSUME crawl.stage = "done"
        PROVE  \A g \in DOMAIN source.facets : Got(View(g)', crawl', CapEnd')
    <3>1. \A g \in DOMAIN source.facets : Got(View(g), crawl, CapEnd)
      BY <1>10, <2>9 DEF Complete
    <3> QED BY <2>7, <3>1
  <2> QED BY <1>2, <1>6, <2>1, <2>5, <2>8, <2>9 DEF Complete
<1> QED BY <1>5, <1>9, <1>10

\* A list from which an entry is withdrawn still names a tender once.
LEMMA WithdrawKeepsNames ==
  ASSUME NEW s \in Seq(Entry), NamedOnce(s), NEW k \in DOMAIN s
  PROVE  NamedOnce(RemoveAt(s, k))
<1> DEFINE left == SubSeq(s, 1, k - 1)
           right == SubSeq(s, k + 1, Len(s))
           r == left \o right
           from(i) == IF i < k THEN i ELSE i + 1
<1>1. Len(s) \in Nat /\ k \in 1..Len(s) /\ \A i \in 1..Len(s) : s[i] \in Entry
  BY LenProperties
<1>2. /\ left \in Seq(Entry) /\ Len(left) = k - 1 /\ \A i \in 1..(k - 1) : left[i] = s[i]
  <2>1. /\ left \in Seq(Entry) /\ Len(left) = (IF 1 <= k - 1 THEN k - 1 - 1 + 1 ELSE 0)
        /\ \A i \in 1..(k - 1 - 1 + 1) : left[i] = s[1 + i - 1]
    BY <1>1, SubSeqProperties
  <2> HIDE DEF left
  <2> QED BY <1>1, <2>1
<1>3. /\ right \in Seq(Entry) /\ Len(right) = Len(s) - k
      /\ \A i \in 1..(Len(s) - k) : right[i] = s[k + i]
  <2>1. /\ right \in Seq(Entry)
        /\ Len(right) = (IF k + 1 <= Len(s) THEN Len(s) - (k + 1) + 1 ELSE 0)
        /\ \A i \in 1..(Len(s) - (k + 1) + 1) : right[i] = s[(k + 1) + i - 1]
    BY <1>1, SubSeqProperties
  <2> HIDE DEF right
  <2>2. \A i \in 1..(Len(s) - k) : (k + 1) + i - 1 = k + i /\ i \in 1..(Len(s) - (k + 1) + 1)
    BY <1>1
  <2> QED BY <1>1, <2>1, <2>2
<1> HIDE DEF left, right
<1>4. /\ Len(r) = Len(left) + Len(right)
      /\ \A i \in 1..Len(left) + Len(right) :
           r[i] = IF i <= Len(left) THEN left[i] ELSE right[i - Len(left)]
  BY <1>2, <1>3, ConcatProperties
<1> HIDE DEF r
<1>5. ASSUME NEW i \in 1..Len(r) PROVE from(i) \in 1..Len(s) /\ r[i] = s[from(i)]
  <2>1. CASE i < k
    <3>1. i \in 1..(k - 1) /\ i <= Len(left) /\ i \in 1..Len(left) + Len(right)
      BY <1>1, <1>2, <1>3, <1>4, <2>1
    <3> QED BY <1>1, <1>2, <1>4, <2>1, <3>1
  <2>2. CASE ~(i < k)
    <3>1. PICK j \in 1..(Len(s) - k) : j = i - Len(left) /\ k + j = i + 1
      <4>1. Len(r) = Len(s) - 1 /\ i \in 1..(Len(s) - 1)
        BY <1>1, <1>2, <1>3, <1>4
      <4>2. i - (k - 1) \in 1..(Len(s) - k) /\ k + (i - (k - 1)) = i + 1
        BY <1>1, <2>2, <4>1
      <4> QED BY <1>2, <4>2
    <3>2. ~(i <= Len(left)) /\ i \in 1..Len(left) + Len(right)
      BY <1>1, <1>2, <1>4, <2>2
    <3>3. r[i] = right[j]
      BY <1>4, <3>1, <3>2
    <3> QED BY <1>1, <1>3, <2>2, <3>1, <3>3
  <2> QED BY <2>1, <2>2
<1>6. ASSUME NEW i \in 1..Len(r), NEW j \in 1..Len(r), r[i] = r[j], r[i] # Unreadable
      PROVE  i = j
  <2>1. from(i) = from(j)
    <3> HIDE DEF from
    <3> QED BY <1>5, <1>6 DEF NamedOnce
  <2> QED BY <1>1, <2>1
<1> QED BY <1>6 DEF NamedOnce, RemoveAt, r, left, right

\* A tender is within reach at a position the cap allows.
LEMMA ReachIsPosition ==
  ASSUME site \in Seq(Entry), source \in Sources, NEW t, WithinReach(t)
  PROVE  \E f \in DOMAIN source.facets : \E i \in 1..Len(View(f)) :
           View(f)[i] = t /\ i <= CapEnd
<1>1. PICK f \in DOMAIN source.facets, p \in 1..(IF source.family = "feed" THEN 1 ELSE MaxPages) :
        t \in Range(Served(f, IF source.paging = "offset" THEN (p - 1) * PageSize ELSE p))
  BY DEF WithinReach
<1> DEFINE at == IF source.paging = "offset" THEN (p - 1) * PageSize ELSE p
           served == Served(f, at)
<1>2. /\ PageSize \in Nat /\ MaxPages \in Nat \ {0} /\ p \in Nat /\ p - 1 \in Nat
      /\ source.family = "feed" => source.paging = "next" /\ p = 1
      /\ source.family # "feed" => p <= MaxPages
  BY PageNumbers, ListingsConstants
<1>3. at \in Nat /\ at >= First /\ Before(at) = (p - 1) * PageSize
  <2>1. \A a, b \in Nat : a * b \in Nat
    OBVIOUS
  <2>2. (p - 1) * PageSize \in Nat
    BY <1>2, <2>1
  <2>3. CASE source.paging = "offset"
    BY <2>2, <2>3 DEF First, Before
  <2>4. CASE source.paging # "offset"
    BY <1>2, <2>4 DEF First, Before
  <2> QED BY <2>3, <2>4
<1>4. /\ Len(served) \in Nat /\ Len(View(f)) \in Nat /\ Before(at) \in Nat
      /\ served \in Seq(Range(site))
      /\ \A j \in 1..Len(served) :
           Before(at) + j \in 1..Len(View(f)) /\ served[j] = View(f)[Before(at) + j]
      /\ source.family # "feed" => Len(served) <= PageSize
      /\ source.family = "feed" /\ at = First => Len(served) <= MaxPages
  <2> HIDE DEF at
  <2> QED BY <1>3, ServedEntries
<1>5. PICK j \in 1..Len(served) : served[j] = t
  BY <1>1, <1>4, LenProperties DEF Range
<1>6. Before(at) + j <= CapEnd
  <2>1. CASE source.family = "feed"
    <3>1. at = First /\ Before(at) = 0
      <4>1. at = 1 /\ First = 1 /\ 0 * PageSize = 0 /\ p - 1 = 0
        BY <1>2, <2>1 DEF First
      <4> QED BY <1>3, <4>1
    <3> QED BY <1>2, <1>4, <2>1, <3>1 DEF CapEnd
  <2>2. CASE source.family # "feed"
    <3>1. PICK q \in Nat : q = p - 1 /\ q + 1 = p
      BY <1>2
    <3>2. (q + 1) * PageSize = q * PageSize + PageSize /\ (q + 1) * PageSize <= MaxPages * PageSize
      <4>1. q + 1 \in Nat /\ q + 1 <= MaxPages
        BY <1>2, <2>2, <3>1
      <4> QED BY <1>2, <3>1, <4>1, Multiples
    <3>3. Before(at) = q * PageSize
      BY <1>3, <3>1
    <3>4. q * PageSize \in Nat /\ MaxPages * PageSize \in Nat
      <4>1. \A a, b \in Nat : a * b \in Nat
        OBVIOUS
      <4> QED BY <1>2, <4>1
    <3>5. CapEnd = MaxPages * PageSize
      BY <2>2 DEF CapEnd
    <3> DEFINE before == Before(at)
    <3> HIDE DEF at, served
    <3>6. before + PageSize <= CapEnd /\ CapEnd \in Nat
      BY <3>2, <3>3, <3>4, <3>5
    <3>7. before \in Nat /\ j <= PageSize /\ j \in Nat
      BY <1>2, <1>4, <2>2
    <3> HIDE DEF before
    <3>8. before + j <= CapEnd
      BY <1>2, <3>6, <3>7
    <3> QED BY <3>8 DEF before
  <2> QED BY <2>1, <2>2
<1> HIDE DEF at, served
<1> QED BY <1>4, <1>5, <1>6
LEMMA PageChanges ==
  ASSUME CrawlInv, crawl.stage = "request"
  PROVE  /\ AfterPage(Page).withdrawn = crawl.withdrawn
         /\ AfterPage(Page).published = crawl.published
<1>1. /\ ReadOn \in Crawl /\ ReadOn.published = crawl.published
      /\ ReadOn.withdrawn = crawl.withdrawn
  BY ReadOnKeeps
<1>2. AfterPage(Page) = IF Ends(ReadOn, NextAt, Fresh, Page) THEN NextChain(ReadOn)
                        ELSE [ReadOn EXCEPT !.at = NextAt]
  BY PageTaken
<1>3. AfterPage(Page) \in {NextChain(ReadOn), [ReadOn EXCEPT !.at = NextAt]}
  BY <1>2
<1> HIDE DEF Page, Fresh, NextAt, ReadOn, AfterPage
<1>4. /\ NextChain(ReadOn).withdrawn = ReadOn.withdrawn
      /\ NextChain(ReadOn).published = ReadOn.published
  BY <1>1 DEF NextChain, Chain, Crawl
<1>5. /\ [ReadOn EXCEPT !.at = NextAt].withdrawn = ReadOn.withdrawn
      /\ [ReadOn EXCEPT !.at = NextAt].published = ReadOn.published
  BY <1>1 DEF Crawl
<1> QED BY <1>1, <1>3, <1>4, <1>5

LEMMA NextSkip == SkipInv /\ [CrawlNext]_lvars => SkipInv'
<1> SUFFICES ASSUME SkipInv, [CrawlNext]_lvars PROVE SkipInv'
  OBVIOUS
<1> USE DEF Working
<1>1. /\ CrawlInv /\ NamedOnce(site) /\ (Quiet(crawl) => Complete(crawl))
      /\ source \in Sources /\ site \in Seq(Entry) /\ crawl \in Crawl
  BY DEF SkipInv, CrawlInv
<1>2. CrawlInv'
  BY <1>1, NextCrawl
<1>3. ASSUME site' = site, source' = source, Quiet(crawl') => Complete(crawl') PROVE SkipInv'
  <2>1. NamedOnce(site)'
    BY <1>1, <1>3 DEF NamedOnce
  <2>2. (Quiet(crawl)' <=> Quiet(crawl')) /\ (Complete(crawl)' <=> Complete(crawl'))
    BY <1>3, SameSite
  <2> QED BY <1>2, <1>3, <2>1, <2>2 DEF SkipInv
<1>4. ASSUME site' = site, source' = source, SameProgress(crawl') PROVE SkipInv'
  <2>1. (Quiet(crawl') => Quiet(crawl)) /\ (Complete(crawl) => Complete(crawl'))
    BY <1>4, ProgressKept
  <2> QED BY <1>1, <1>3, <1>4, <2>1
<1>5. CASE StartCrawl
  <2> DEFINE c == [NoCrawl EXCEPT !.stage = IF source.family = "form" THEN "form" ELSE "request",
                                  !.stayed = Range(site) \cap Listed]
  <2>1. crawl' = Chain(c, 1) /\ source' = source /\ site' = site
    BY <1>5 DEF StartCrawl
  <2>2. c \in Crawl /\ c.stage \in {"form", "request"} /\ c.stayed \subseteq Range(site)
    BY DEF NoCrawl, Crawl
  <2> HIDE DEF c
  <2>3. /\ Reads(crawl') /\ crawl'.stayed \subseteq Range(site) /\ crawl'.facet = 1
        /\ crawl'.stage \in {"form", "request"}
    BY <1>1, <2>1, <2>2, ChainReads
  <2>4. \A g \in 1..(crawl'.facet - 1) : FALSE
    BY <2>3
  <2>5. Complete(crawl')
    BY <2>3, <2>4 DEF Complete
  <2> QED BY <1>3, <2>1, <2>5
<1>6. CASE FormRead
  <2>1. crawl' = [crawl EXCEPT !.stage = "request", !.tries = 0] /\ crawl.stage = "form"
        /\ source' = source /\ site' = site
    BY <1>6 DEF FormRead
  <2>2. SameProgress(crawl')
    BY <1>1, <2>1 DEF SameProgress, Crawl
  <2> QED BY <1>4, <2>1, <2>2
<1>7. CASE PageRead
  <2>1. /\ crawl.stage = "request" /\ source' = source /\ site' = site
        /\ crawl' = IF Misparsed(Page) THEN [crawl EXCEPT !.stage = "failed"]
                    ELSE AfterPage(Page)
    BY <1>7 DEF PageRead, Page
  <2>2. CASE Misparsed(Page)
    <3>1. crawl' = [crawl EXCEPT !.stage = "failed"]
      BY <2>1, <2>2
    <3>2. SameProgress(crawl')
      BY <1>1, <3>1 DEF SameProgress, Crawl
    <3> QED BY <1>4, <2>1, <3>2
  <2>3. CASE ~Misparsed(Page)
    <3>1. crawl' = AfterPage(Page)
      BY <2>1, <2>3
    <3>2. Quiet(crawl') => Quiet(crawl)
      <4>1. crawl'.withdrawn = crawl.withdrawn /\ crawl'.published = crawl.published
        BY <1>1, <2>1, <3>1, PageChanges
      <4> QED BY <4>1 DEF Quiet
    <3>3. Quiet(crawl) => Complete(crawl')
      BY <1>1, <2>1, <3>1, PageComplete
    <3> QED BY <1>3, <2>1, <3>2, <3>3
  <2> QED BY <2>2, <2>3
<1>8. CASE Unauthorised \/ Refused
  <2>1. crawl' = [crawl EXCEPT !.stage = "failed", !.refused = TRUE]
        /\ source' = source /\ site' = site
    BY <1>8 DEF Unauthorised, Refused
  <2>2. SameProgress(crawl')
    BY <1>1, <2>1 DEF SameProgress, Crawl
  <2> QED BY <1>4, <2>1, <2>2
<1>9. CASE Unanswered
  <2>1. source' = source /\ site' = site
    BY <1>9 DEF Unanswered
  <2>2. CASE crawl.tries >= MaxRetries
    <3>1. crawl' = [crawl EXCEPT !.transient = @ + 1, !.stage = "failed"]
      BY <1>9, <2>2 DEF Unanswered
    <3>2. SameProgress(crawl')
      BY <1>1, <3>1 DEF SameProgress, Crawl
    <3> QED BY <1>4, <2>1, <3>2
  <2>3. CASE ~(crawl.tries >= MaxRetries)
    <3>1. crawl' = [crawl EXCEPT !.transient = @ + 1, !.tries = @ + 1]
      BY <1>9, <2>3 DEF Unanswered
    <3>2. SameProgress(crawl')
      BY <1>1, <3>1 DEF SameProgress, Crawl
    <3> QED BY <1>4, <2>1, <3>2
  <2> QED BY <2>2, <2>3
<1>10. ASSUME NEW t \in Listed, Publish(t) PROVE SkipInv'
  BY <1>1, <1>2, <1>10, PublishKeeps DEF SkipInv
<1>11. ASSUME NEW k \in DOMAIN site, Withdraw(k) PROVE SkipInv'
  <2>1. crawl' = [crawl EXCEPT !.withdrawn = @ + 1, !.stayed = @ \ {site[k]}]
        /\ site' = RemoveAt(site, k)
    BY <1>11 DEF Withdraw
  <2>2. NamedOnce(site)'
    <3>1. NamedOnce(RemoveAt(site, k))
      BY <1>1, <1>11, WithdrawKeepsNames
    <3>2. NamedOnce(site')
      BY <2>1, <3>1
    <3> QED BY <3>2 DEF NamedOnce
  <2>3. crawl'.withdrawn # 0
    <3>1. crawl.withdrawn \in Nat /\ crawl'.withdrawn = crawl.withdrawn + 1
      BY <1>1, <2>1 DEF Crawl
    <3> QED BY <3>1
  <2>4. ~Quiet(crawl)'
    BY <2>3 DEF Quiet
  <2> QED BY <1>2, <2>2, <2>4 DEF SkipInv
<1>12. ASSUME NEW t \in Listed, ReadDetail(t) PROVE SkipInv'
  <2>1. crawl' = crawl /\ source' = source /\ site' = site
    BY <1>12 DEF ReadDetail
  <2> QED BY <1>1, <1>3, <2>1
<1>13. CASE UNCHANGED lvars
  <2>1. crawl' = crawl /\ source' = source /\ site' = site
    BY <1>13 DEF lvars
  <2> QED BY <1>1, <1>3, <2>1
<1> QED BY <1>5, <1>6, <1>7, <1>8, <1>9, <1>10, <1>11, <1>12, <1>13 DEF CrawlNext, CrawlStep

\* No list names a tender twice when the behaviour starts.
ListedOnce == \A s \in Lists : NamedOnce(s)

LEMMA SkipGives == SkipInv => SkipNeedsChange
<1> SUFFICES ASSUME SkipInv, crawl.stage = "done", NEW t \in crawl.stayed, WithinReach(t),
                    ~(\/ \E l \in crawl.found : l.tender = t
                      \/ crawl.withdrawn > 0 \/ crawl.published + Unreadables >= PageSize
                      \/ Shortchanged)
    PROVE  FALSE
  BY DEF SkipNeedsChange
<1>1. /\ source \in Sources /\ site \in Seq(Entry) /\ crawl.withdrawn \in Nat
      /\ crawl.published \in Nat
  BY DEF SkipInv, CrawlInv, Crawl
<1>2. PICK f \in DOMAIN source.facets : \E i \in 1..Len(View(f)) : View(f)[i] = t /\ i <= CapEnd
  BY <1>1, ReachIsPosition
<1>3. PICK i \in 1..Len(View(f)) : View(f)[i] = t /\ i <= CapEnd
  BY <1>2
<1>4. Quiet(crawl)
  <2>1. PageSize \in Nat /\ Unreadables \in Nat
    BY <1>1, PageNumbers, SpotsFinite, UnreadablesAreSpots
  <2> QED BY <1>1, <2>1 DEF Quiet
<1>5. Got(View(f), crawl, CapEnd)
  BY <1>2, <1>4 DEF SkipInv, Complete
<1>6. Found(crawl, t)
  BY <1>3, <1>5 DEF Got
<1> QED BY <1>6 DEF Found

\* A crawl that succeeds returns every tender that stayed within its reach, unless an
\* entry was withdrawn under it or the publications and the unreadable entries fill a
\* page (_crawl, _page_through): on every list that names a tender once, for every
\* source, cap and page size.
THEOREM CrawlsSkipOnlyUnderChange == ListedOnce => (CrawlSpec => []SkipNeedsChange)
<1> SUFFICES ASSUME ListedOnce PROVE CrawlSpec => []SkipNeedsChange
  OBVIOUS
<1>1. CrawlInit => SkipInv
  <2> SUFFICES ASSUME CrawlInit PROVE SkipInv
    OBVIOUS
  <2>1. CrawlInv /\ NamedOnce(site)
    BY InitCrawl DEF CrawlInit, ListedOnce
  <2>2. Complete(crawl)
    BY DEF CrawlInit, NoCrawl, Complete
  <2> QED BY <2>1, <2>2 DEF SkipInv
<1> QED BY <1>1, NextSkip, SkipGives, PTL DEF CrawlSpec
=============================================================================
