----------------------------- MODULE Verdict_proofs -----------------------------
(* What a generation may send to whom, that a failure is reported and what the *)
(* generations cost together, for any number of processes, tenders, profiles   *)
(* and segments, any budget and any adverse events; and what the rules of      *)
(* Assessment make of a deadline, a document and an answer, for any inputs.    *)
EXTENDS Verdict, Assessment, FiniteSetTheorems, SequenceTheorems,
        WellFoundedInduction, TLAPS

Rows == [Profiles -> [active : BOOLEAN, approved : BOOLEAN]]
Fit == [active |-> TRUE, approved |-> TRUE]
Refusal == [profile : Profiles, payload : Payload]
Blamed(j) == [type |-> "ai_failure", tender |-> j.tender]
\* the stages after an extraction of whole documents was rejected as too large
PastWhole(j) == j.mapped \/ j.stage \in {"map", "map_fix", "commit"}

\* The inductive invariant of one generation: it has its tender, the candidates that
\* wait were fit when the rows were read, a failure has its alert, and of each
\* rejected payload the generation has moved on.
Sound(j) ==
  /\ j \in Job
  /\ j.stage # "idle" => j.tender \in Tenders
  /\ \A i \in 1..Len(j.queue) : j.rows[j.queue[i]] = Fit
  /\ j.status = "verdict_failed" => Blamed(j) \in j.alerts
  /\ \A x \in j.refused :
       \/ j.stage = "commit"
       \/ x.payload.request = "extract" /\ ~x.payload.mapped /\ PastWhole(j)
       \/ x.payload.request = "verdict" /\ ~x.payload.reduced /\ j.reduced

\* what a generation k that asks about something else has in common with j
SameBut(k, j) ==
  /\ k.tender = j.tender /\ k.refused = j.refused /\ k.mapped = j.mapped
  /\ k.reduced = j.reduced /\ k.status = j.status /\ k.alerts = j.alerts

-----------------------------------------------------------------------------
(* The steps of one generation *)

LEMMA CandidatesFit ==
  ASSUME NEW j, j.rows \in Rows, j.primary \in Assignable, j.fallback \in Assignable,
         NEW request \in Requests
  PROVE  /\ Candidates(j, request) \in Seq(Profiles)
         /\ \A i \in 1..Len(Candidates(j, request)) : j.rows[Candidates(j, request)[i]] = Fit
<1> DEFINE second == IF request \in {"map", "map_fix"} THEN None ELSE j.fallback
           a == IF Usable(j, j.primary) THEN <<j.primary>> ELSE <<>>
           b == IF second # j.primary /\ Usable(j, second) THEN <<second>> ELSE <<>>
<1>1. \A p \in Assignable : Usable(j, p) => p \in Profiles /\ j.rows[p] = Fit
  BY DEF Usable, Assignable, Rows, Fit
<1>2. second \in Assignable
  BY DEF Assignable
<1>3. a \in Seq(Profiles) /\ \A i \in 1..Len(a) : j.rows[a[i]] = Fit
  BY <1>1
<1>4. b \in Seq(Profiles) /\ \A i \in 1..Len(b) : j.rows[b[i]] = Fit
  BY <1>1, <1>2
<1>5. Candidates(j, request) = a \o b
  BY DEF Candidates
<1> HIDE DEF a, b
<1>6. a \o b \in Seq(Profiles) /\ Len(a \o b) = Len(a) + Len(b)
  BY <1>3, <1>4
<1>7. \A i \in 1..Len(a \o b) : (a \o b)[i] = IF i <= Len(a) THEN a[i] ELSE b[i - Len(a)]
  BY <1>3, <1>4
<1>8. ASSUME NEW i \in 1..Len(a \o b) PROVE j.rows[(a \o b)[i]] = Fit
  <2>1. CASE i <= Len(a)
    BY <1>3, <1>4, <1>6, <1>7, <2>1
  <2>2. CASE ~(i <= Len(a))
    <3>1. i - Len(a) \in 1..Len(b)
      BY <1>3, <1>4, <1>6, <2>2
    <3> QED BY <1>4, <1>7, <2>2, <3>1
  <2> QED BY <2>1, <2>2
<1> QED BY <1>5, <1>6, <1>8

\* The parts of a generation, as the provers use them.
LEMMA JobParts ==
  ASSUME NEW j \in Job
  PROVE  /\ j.rows \in Rows /\ j.primary \in Assignable /\ j.fallback \in Assignable
         /\ j.queue \in Seq(Profiles) /\ j.tries \in 0..Attempts - 1
         /\ j.segment \in 1..Segments /\ j.mapped \in BOOLEAN /\ j.reduced \in BOOLEAN
         /\ j.refused \subseteq Refusal /\ j.cost \in Nat /\ j.alerts \subseteq Alert
         /\ j.stage \in Requests \cup {"idle", "commit"} /\ j.status \in Statuses
         /\ j.tender \in Tenders \cup {None} /\ j.loaded \in Statuses
         /\ j.verdict \in BOOLEAN
BY DEF Job, Rows, Refusal

LEMMA AsksSound ==
  ASSUME NEW j \in Job, NEW request \in Requests, j.tender \in Tenders,
         j.status = "verdict_failed" => Blamed(j) \in j.alerts,
         \A x \in j.refused :
           \/ /\ x.payload.request = "extract" /\ ~x.payload.mapped
              /\ j.mapped \/ request \in {"map", "map_fix"}
           \/ x.payload.request = "verdict" /\ ~x.payload.reduced /\ j.reduced
  PROVE  Sound(Asks(j, request))
<1> DEFINE q == Candidates(j, request)
<1>1. q \in Seq(Profiles) /\ \A i \in 1..Len(q) : j.rows[q[i]] = Fit
  BY JobParts, CandidatesFit
<1> HIDE DEF q
<1>2. Asks(j, request) = [j EXCEPT !.stage = request, !.queue = q, !.tries = 0]
  BY DEF Asks, q
<1>3. 0 \in 0..Attempts - 1
  BY DEF Attempts
<1>4. Asks(j, request) \in Job
  BY <1>1, <1>2, <1>3 DEF Job
<1>5. /\ Asks(j, request).stage = request /\ Asks(j, request).queue = q
      /\ Asks(j, request).rows = j.rows /\ Asks(j, request).tender = j.tender
      /\ Asks(j, request).status = j.status /\ Asks(j, request).alerts = j.alerts
      /\ Asks(j, request).refused = j.refused /\ Asks(j, request).mapped = j.mapped
      /\ Asks(j, request).reduced = j.reduced
  BY <1>2 DEF Job
<1> QED BY <1>1, <1>4, <1>5 DEF Sound, PastWhole, Blamed
LEMMA AlertedJob ==
  ASSUME NEW j \in Job, j.tender \in Tenders, NEW types \in SUBSET AlertTypes
  PROVE  /\ Alerted(j, types) \in Job
         /\ \A y \in types : [type |-> y, tender |-> j.tender] \in Alerted(j, types).alerts
         /\ j.alerts \subseteq Alerted(j, types).alerts
         /\ Alerted(j, types) =
              [j EXCEPT !.alerts = j.alerts \cup {[type |-> y, tender |-> j.tender] : y \in types}]
<1> DEFINE more == {[type |-> y, tender |-> j.tender] : y \in types}
<1>1. more \subseteq Alert
  BY DEF Alert
<1>2. \A y \in types : [type |-> y, tender |-> j.tender] \in more
  OBVIOUS
<1> HIDE DEF more
<1>3. Alerted(j, types) = [j EXCEPT !.alerts = j.alerts \cup more]
  BY DEF Alerted, more
<1>4. j.alerts \cup more \subseteq Alert
  BY <1>1 DEF Job
<1>5. Alerted(j, types) \in Job /\ Alerted(j, types).alerts = j.alerts \cup more
  BY <1>3, <1>4 DEF Job
<1> QED BY <1>2, <1>3, <1>5 DEF more

LEMMA NoQueue == <<>> \in Seq(Profiles) /\ Len(<<>>) = 0
OBVIOUS

LEMMA FailedSound ==
  ASSUME NEW j \in Job, j.tender \in Tenders
  PROVE  Sound(Failed(j)) /\ Failed(j).refused = j.refused /\ Failed(j).stage = "commit"
<1> DEFINE k == Alerted(j, {"ai_failure"})
<1>1. k \in Job /\ [type |-> "ai_failure", tender |-> j.tender] \in k.alerts
  BY AlertedJob DEF AlertTypes
<1>2. k.tender = j.tender /\ k.refused = j.refused
  BY AlertedJob DEF Job, AlertTypes
<1> HIDE DEF k
<1>3. Failed(j) = [k EXCEPT !.stage = "commit", !.queue = <<>>, !.status = "verdict_failed"]
  BY DEF Failed, k
<1>4. Failed(j) \in Job
  BY <1>1, <1>3, NoQueue DEF Job, Statuses
<1>5. /\ Failed(j).stage = "commit" /\ Failed(j).queue = <<>>
      /\ Failed(j).alerts = k.alerts /\ Failed(j).tender = k.tender
      /\ Failed(j).refused = k.refused
  BY <1>1, <1>3 DEF Job
<1> QED BY <1>1, <1>2, <1>4, <1>5, NoQueue DEF Sound, Blamed

LEMMA RecordedSound ==
  ASSUME NEW j \in Job, j.tender \in Tenders
  PROVE  Sound(Recorded(j))
<1>1. Recorded(j) \in Job
  BY NoQueue DEF Recorded, Job, Statuses
<1>2. /\ Recorded(j).stage = "commit" /\ Recorded(j).queue = <<>>
      /\ Recorded(j).status = "processed" /\ Recorded(j).tender = j.tender
  BY DEF Recorded, Job
<1> QED BY <1>1, <1>2, NoQueue DEF Sound

LEMMA PaidSound ==
  ASSUME NEW j, Sound(j), NEW cost \in {0, 1}
  PROVE  Sound(Paid(j, cost)) /\ Paid(j, cost).stage = j.stage /\ Paid(j, cost).queue = j.queue
<1>1. j \in Job
  BY DEF Sound
<1>2. j.cost + cost \in Nat
  BY <1>1 DEF Job
<1>3. Paid(j, cost) \in Job
  BY <1>1, <1>2 DEF Paid, Job
<1>4. /\ Paid(j, cost).stage = j.stage /\ Paid(j, cost).queue = j.queue
      /\ Paid(j, cost).rows = j.rows /\ Paid(j, cost).tender = j.tender
      /\ Paid(j, cost).status = j.status /\ Paid(j, cost).alerts = j.alerts
      /\ Paid(j, cost).refused = j.refused /\ Paid(j, cost).mapped = j.mapped
      /\ Paid(j, cost).reduced = j.reduced
  BY <1>1 DEF Paid, Job
<1> QED BY <1>3, <1>4 DEF Sound, PastWhole, Blamed

\* The profile that is asked is one of the candidates.
LEMMA CallerOf ==
  ASSUME NEW j, Sound(j), j.queue # <<>>
  PROVE  Head(j.queue) \in Profiles /\ j.rows[Head(j.queue)] = Fit
<1>1. j.queue \in Seq(Profiles)
  BY JobParts DEF Sound
<1>2. Head(j.queue) = j.queue[1] /\ 1 \in 1..Len(j.queue)
  BY <1>1
<1> QED BY <1>1, <1>2 DEF Sound

\* a retried attempt, and the next candidate
LEMMA PassedSound ==
  ASSUME NEW j, Sound(j), j.stage \in Requests, j.queue # <<>>
  PROVE  Sound(Passed(j))
<1>1. j \in Job /\ j.tender \in Tenders /\ j.queue \in Seq(Profiles)
  BY JobParts DEF Sound, Requests
<1>2. CASE Len(j.queue) = 1
  BY <1>1, <1>2, FailedSound DEF Passed
<1>3. CASE Len(j.queue) # 1
  <2> DEFINE q == Tail(j.queue)
  <2>1. q \in Seq(Profiles) /\ Len(q) = Len(j.queue) - 1 /\ Len(j.queue) \in Nat
    BY <1>1
  <2>2. \A i \in 1..Len(q) : q[i] = j.queue[i + 1] /\ i + 1 \in 1..Len(j.queue)
    BY <1>1
  <2>3. \A i \in 1..Len(q) : j.rows[q[i]] = Fit
    BY <2>2 DEF Sound
  <2> HIDE DEF q
  <2>4. Passed(j) = [j EXCEPT !.queue = q, !.tries = 0]
    BY <1>3 DEF Passed, q
  <2>5. Passed(j) \in Job
    <3>1. 0 \in 0..Attempts - 1
      BY DEF Attempts
    <3> QED BY <1>1, <2>1, <2>4, <3>1 DEF Job
  <2>6. /\ Passed(j).stage = j.stage /\ Passed(j).queue = q
        /\ Passed(j).rows = j.rows /\ Passed(j).tender = j.tender
        /\ Passed(j).status = j.status /\ Passed(j).alerts = j.alerts
        /\ Passed(j).refused = j.refused /\ Passed(j).mapped = j.mapped
        /\ Passed(j).reduced = j.reduced
    BY <1>1, <2>4 DEF Job
  <2> QED BY <2>3, <2>5, <2>6 DEF Sound, PastWhole, Blamed
<1> QED BY <1>2, <1>3

LEMMA TriedSound ==
  ASSUME NEW j, Sound(j), NEW n \in 0..Attempts - 1
  PROVE  Sound([j EXCEPT !.tries = n])
<1> DEFINE k == [j EXCEPT !.tries = n]
<1>1. j \in Job
  BY DEF Sound
<1>2. k \in Job
  BY <1>1 DEF Job
<1>3. /\ k.stage = j.stage /\ k.queue = j.queue /\ k.rows = j.rows /\ k.tender = j.tender
      /\ k.status = j.status /\ k.alerts = j.alerts /\ k.refused = j.refused
      /\ k.mapped = j.mapped /\ k.reduced = j.reduced
  BY <1>1 DEF Job
<1> HIDE DEF k
<1>4. Sound(k)
  BY <1>2, <1>3 DEF Sound, PastWhole, Blamed
<1> QED BY <1>4 DEF k

\* a generation that only changes what it asks about and whom it prefers
LEMMA TunedJob ==
  ASSUME NEW j \in Job, NEW p \in Profiles
  PROVE  /\ j.segment < Segments =>
              [j EXCEPT !.segment = @ + 1] \in Job /\ SameBut([j EXCEPT !.segment = @ + 1], j)
         /\ [j EXCEPT !.mapped = TRUE] \in Job
         /\ [j EXCEPT !.reduced = TRUE] \in Job
         /\ [j EXCEPT !.primary = p] \in Job /\ SameBut([j EXCEPT !.primary = p], j)
<1>1. [j EXCEPT !.mapped = TRUE] \in Job /\ [j EXCEPT !.reduced = TRUE] \in Job
  BY DEF Job
<1>2. [j EXCEPT !.primary = p] \in Job /\ SameBut([j EXCEPT !.primary = p], j)
  BY DEF Job, Assignable, SameBut
<1>3. ASSUME j.segment < Segments
      PROVE  [j EXCEPT !.segment = @ + 1] \in Job /\ SameBut([j EXCEPT !.segment = @ + 1], j)
  <2>1. j.segment + 1 \in 1..Segments
    BY <1>3, JobParts, VerdictConstants
  <2> QED BY <2>1 DEF Job, SameBut
<1> QED BY <1>1, <1>2, <1>3

LEMMA AcceptedSound ==
  ASSUME NEW j, Sound(j), j.stage \in Requests, NEW p \in Profiles
  PROVE  Sound(Accepted(j, p))
<1>1. j \in Job /\ j.tender \in Tenders
  BY DEF Sound, Requests
<1>2. CASE j.stage \in {"map", "map_fix"} /\ j.segment < Segments
  <2> DEFINE k == [j EXCEPT !.segment = @ + 1]
  <2>1. k \in Job /\ SameBut(k, j)
    BY <1>1, <1>2, TunedJob
  <2> HIDE DEF k
  <2>2. Sound(Asks(k, "map"))
    <3> SUFFICES \A x \in k.refused :
                   \/ x.payload.request = "extract" /\ ~x.payload.mapped
                   \/ x.payload.request = "verdict" /\ ~x.payload.reduced /\ k.reduced
      BY <1>1, <2>1, AsksSound DEF Requests, SameBut, Sound, Blamed
    <3> QED BY <1>2, <2>1 DEF Sound, SameBut
  <2> QED BY <1>2, <2>2 DEF Accepted, k
<1>3. CASE j.stage \in {"map", "map_fix"} /\ ~(j.segment < Segments)
  <2> DEFINE k == [j EXCEPT !.mapped = TRUE]
  <2>1. k \in Job /\ k.mapped /\ k.reduced = j.reduced /\ k.refused = j.refused
        /\ k.tender = j.tender /\ k.status = j.status /\ k.alerts = j.alerts
    BY <1>1, TunedJob DEF Job
  <2> HIDE DEF k
  <2>2. Sound(Asks(k, "extract"))
    <3> SUFFICES \A x \in k.refused :
                   \/ x.payload.request = "extract" /\ ~x.payload.mapped
                   \/ x.payload.request = "verdict" /\ ~x.payload.reduced /\ k.reduced
      BY <1>1, <2>1, AsksSound, ZenonT(60) DEF Requests, Sound, Blamed
    <3> QED BY <1>3, <2>1 DEF Sound
  <2> QED BY <1>3, <2>2 DEF Accepted, k
<1>4. CASE j.stage \in {"extract", "extract_fix"}
  <2> DEFINE k == [j EXCEPT !.primary = p]
  <2>1. k \in Job /\ SameBut(k, j)
    BY <1>1, TunedJob
  <2> HIDE DEF k
  <2>2. Sound(Asks(k, "verdict"))
    <3> SUFFICES \A x \in k.refused :
                   \/ x.payload.request = "extract" /\ ~x.payload.mapped /\ k.mapped
                   \/ x.payload.request = "verdict" /\ ~x.payload.reduced /\ k.reduced
      BY <1>1, <2>1, AsksSound DEF Requests, SameBut, Sound, Blamed
    <3> QED BY <1>4, <2>1 DEF Sound, SameBut, PastWhole
  <2> QED BY <1>4, <2>2 DEF Accepted, k
<1>5. CASE j.stage \in {"verdict", "verdict_fix"}
  BY <1>1, <1>5, RecordedSound DEF Accepted
<1> QED BY <1>2, <1>3, <1>4, <1>5 DEF Requests

LEMMA CorrectedSound ==
  ASSUME NEW j, Sound(j), j.stage \in Requests, NEW p \in Profiles
  PROVE  Sound(Corrected(j, p))
<1>1. j \in Job /\ j.tender \in Tenders
  BY DEF Sound, Requests
<1>2. CASE j.stage = "map"
  <2>1. Sound(Asks(j, "map_fix"))
    <3> SUFFICES \A x \in j.refused :
                   \/ x.payload.request = "extract" /\ ~x.payload.mapped
                   \/ x.payload.request = "verdict" /\ ~x.payload.reduced /\ j.reduced
      BY <1>1, AsksSound DEF Requests, Sound, Blamed
    <3> QED BY <1>2 DEF Sound
  <2> QED BY <1>2, <2>1 DEF Corrected
<1>3. CASE j.stage \in {"extract", "verdict"}
  <2> DEFINE k == [j EXCEPT !.primary = p]
             fix == IF j.stage = "extract" THEN "extract_fix" ELSE "verdict_fix"
  <2>1. k \in Job /\ SameBut(k, j)
    BY <1>1, TunedJob
  <2>2. fix \in Requests
    BY DEF Requests
  <2> HIDE DEF k, fix
  <2>3. Sound(Asks(k, fix))
    <3> SUFFICES \A x \in k.refused :
                   \/ x.payload.request = "extract" /\ ~x.payload.mapped /\ k.mapped
                   \/ x.payload.request = "verdict" /\ ~x.payload.reduced /\ k.reduced
      BY <1>1, <2>1, <2>2, AsksSound DEF SameBut, Sound, Blamed
    <3> QED BY <1>3, <2>1 DEF Sound, SameBut, PastWhole
  <2> QED BY <1>3, <2>3 DEF Corrected, k, fix
<1>4. CASE j.stage = "verdict_fix"
  <2>1. Alerted(j, {"invalid_ai_output"}) \in Job
        /\ Alerted(j, {"invalid_ai_output"}).tender = j.tender
    BY <1>1, AlertedJob DEF AlertTypes, Job
  <2> QED BY <1>1, <1>4, <2>1, FailedSound DEF Corrected
<1>5. CASE j.stage \in {"map_fix", "extract_fix"}
  BY <1>1, <1>5, FailedSound DEF Corrected
<1> QED BY <1>2, <1>3, <1>4, <1>5 DEF Requests

\* After a rejected payload: the generation has moved on from every rejected one.
LEMMA ShrunkSound ==
  ASSUME NEW j, Sound(j), j.stage \in Requests, j.queue # <<>>, NEW smaller \in BOOLEAN
  PROVE  Sound([Shrunk(j, Head(j.queue), smaller) EXCEPT
                  !.refused = @ \cup {[profile |-> Head(j.queue), payload |-> Sent(j)]}])
<1> DEFINE p == Head(j.queue)
           x == [profile |-> p, payload |-> Sent(j)]
           k == Shrunk(j, p, smaller)
           l == [k EXCEPT !.refused = @ \cup {x}]
<1>1. j \in Job /\ j.tender \in Tenders /\ p \in Profiles
  BY CallerOf DEF Sound, Requests
<1>2. x \in Refusal /\ x.payload = Sent(j)
  BY <1>1, JobParts DEF Refusal, Sent, Payload
<1>3. /\ Sent(j).request = j.stage /\ Sent(j).mapped = j.mapped /\ Sent(j).reduced = j.reduced
  BY DEF Sent
<1> HIDE DEF p, x
<1>4. /\ Sound(k) /\ k.refused = j.refused
      /\ \/ k.stage = "commit"
         \/ j.stage = "extract" /\ ~j.mapped /\ k.stage = "map"
         \/ j.stage = "verdict" /\ ~j.reduced /\ k.reduced
  <2>1. CASE j.stage = "extract" /\ ~j.mapped
    <3> DEFINE m == [j EXCEPT !.primary = p]
    <3>1. m \in Job /\ SameBut(m, j)
      BY <1>1, TunedJob
    <3> HIDE DEF m
    <3>2. k = Asks(m, "map")
      BY <2>1 DEF Shrunk, m
    <3> HIDE DEF k
    <3>3. Sound(Asks(m, "map"))
      <4> SUFFICES \A y \in m.refused :
                     \/ y.payload.request = "extract" /\ ~y.payload.mapped
                     \/ y.payload.request = "verdict" /\ ~y.payload.reduced /\ m.reduced
        BY <1>1, <3>1, AsksSound DEF Requests, SameBut, Sound, Blamed
      <4> QED BY <2>1, <3>1 DEF Sound, SameBut
    <3>4. k.stage = "map" /\ k.refused = m.refused
      BY <3>1, <3>2 DEF Asks, Job
    <3> QED BY <2>1, <3>1, <3>2, <3>3, <3>4 DEF SameBut
  <2>2. CASE j.stage = "verdict" /\ ~j.reduced /\ smaller
    <3> DEFINE m == [j EXCEPT !.reduced = TRUE]
    <3>1. m \in Job /\ m.reduced /\ m.refused = j.refused /\ m.mapped = j.mapped
          /\ m.tender = j.tender /\ m.status = j.status /\ m.alerts = j.alerts
      BY <1>1, TunedJob, ZenonT(60) DEF Job
    <3> HIDE DEF m
    <3>2. k = Asks(m, "verdict")
      BY <2>2 DEF Shrunk, m
    <3> HIDE DEF k
    <3>3. Sound(Asks(m, "verdict"))
      <4> SUFFICES \A y \in m.refused :
                     \/ y.payload.request = "extract" /\ ~y.payload.mapped /\ m.mapped
                     \/ y.payload.request = "verdict" /\ ~y.payload.reduced /\ m.reduced
        BY <1>1, <3>1, AsksSound DEF Requests, Sound, Blamed
      <4> QED BY <2>2, <3>1 DEF Sound, PastWhole
    <3>4. k.reduced /\ k.refused = m.refused
      BY <3>1, <3>2 DEF Asks, Job
    <3> QED BY <2>2, <3>1, <3>2, <3>3, <3>4
  <2>3. CASE ~(j.stage = "extract" /\ ~j.mapped) /\ ~(j.stage = "verdict" /\ ~j.reduced /\ smaller)
    BY <1>1, <2>3, FailedSound DEF Shrunk
  <2> QED BY <2>1, <2>2, <2>3
<1> HIDE DEF k
<1>5. k \in Job
  BY <1>4 DEF Sound
<1>6. k.refused \cup {x} \subseteq Refusal
  BY <1>2, <1>5, JobParts
<1>7. l \in Job
  BY <1>5, <1>6 DEF Job, Refusal
<1>8. /\ l.stage = k.stage /\ l.queue = k.queue /\ l.rows = k.rows /\ l.tender = k.tender
      /\ l.status = k.status /\ l.alerts = k.alerts /\ l.refused = k.refused \cup {x}
      /\ l.mapped = k.mapped /\ l.reduced = k.reduced
  BY <1>5 DEF Job
<1> HIDE DEF l
<1>9. \A y \in l.refused :
        \/ l.stage = "commit"
        \/ y.payload.request = "extract" /\ ~y.payload.mapped /\ PastWhole(l)
        \/ y.payload.request = "verdict" /\ ~y.payload.reduced /\ l.reduced
  <2>1. \A y \in k.refused :
          \/ k.stage = "commit"
          \/ y.payload.request = "extract" /\ ~y.payload.mapped /\ PastWhole(k)
          \/ y.payload.request = "verdict" /\ ~y.payload.reduced /\ k.reduced
    BY <1>4 DEF Sound
  <2> QED BY <1>2, <1>3, <1>4, <1>8, <2>1 DEF PastWhole
<1>10. Sound(l)
  BY <1>4, <1>7, <1>8, <1>9 DEF Sound, Blamed
<1> QED BY <1>10 DEF l, k, x, p
-----------------------------------------------------------------------------
(* Beginning, and what the processes share *)

LEMMA IdleSound == Sound(NoJob) /\ NoJob.stage = "idle"
<1>1. NoJob \in Job
  BY NoQueue, VerdictConstants DEF NoJob, NoRows, Job, Requests, Statuses, Assignable, Attempts
<1> QED BY <1>1, NoQueue DEF Sound, NoJob

LEMMA BegunSound ==
  ASSUME TypeOK, NEW t \in Tenders, tender[t].status # "verdict_failed",
         NEW k \in Begun(t)
  PROVE  Sound(k) /\ k.stage \in Requests \cup {"commit"} /\ k.tender = t
<1> DEFINE j0 == [NoJob EXCEPT !.tender = t, !.rows = profile, !.fallback = role.fallback,
                          !.loaded = tender[t].status, !.status = tender[t].status]
           first == IF Usable(j0, role.primary) THEN role.primary ELSE role.fallback
           j1 == [j0 EXCEPT !.primary = first]
           j == Alerted(j1, Warned)
           over == Alerted(j, {"budget_100_percent"})
<1>1. /\ j0 \in Job /\ j0.tender = t /\ j0.queue = <<>> /\ j0.refused = {}
      /\ j0.status # "verdict_failed"
  <2>1. tender[t].status \in Statuses /\ profile \in Rows /\ role.fallback \in Assignable
    BY DEF TypeOK, Rows
  <2>2. NoJob \in Job
    BY IdleSound DEF Sound
  <2>3. j0 \in Job
    BY <2>1, <2>2 DEF Job, Rows
  <2> QED BY <2>3 DEF NoJob
<1>2. first \in Assignable
  BY DEF TypeOK
<1> HIDE DEF j0, first
<1>3. /\ j1 \in Job /\ j1.tender = t /\ j1.queue = <<>> /\ j1.refused = {}
      /\ j1.status # "verdict_failed"
  BY <1>1, <1>2 DEF Job
<1> HIDE DEF j1
<1>4. /\ j \in Job /\ j.tender = t /\ j.queue = <<>> /\ j.refused = {}
      /\ j.status # "verdict_failed"
  <2>1. Warned \in SUBSET AlertTypes
    BY DEF Warned, AlertTypes
  <2>2. j \in Job /\ \E S : j = [j1 EXCEPT !.alerts = S]
    BY <1>3, <2>1, AlertedJob
  <2> QED BY <1>3, <2>2 DEF Job
<1> HIDE DEF j
<1>5. /\ over \in Job /\ over.tender = t /\ over.queue = <<>> /\ over.refused = {}
  <2>1. {"budget_100_percent"} \in SUBSET AlertTypes
    BY DEF AlertTypes
  <2>2. over \in Job /\ \E S : over = [j EXCEPT !.alerts = S]
    BY <1>4, <2>1, AlertedJob
  <2> QED BY <1>4, <2>2 DEF Job
<1> HIDE DEF over
<1>6. \/ k = [j0 EXCEPT !.stage = "commit"] \/ k = Unapproved(j0)
      \/ k = [over EXCEPT !.stage = "commit", !.status = "awaiting_budget"]
      \/ k = Asks(j, "map") \/ k = Asks(j, "extract")
  <2>1. Begun(t) \subseteq {[j0 EXCEPT !.stage = "commit"], Unapproved(j0),
           [over EXCEPT !.stage = "commit", !.status = "awaiting_budget"],
           Asks(j, "map"), Asks(j, "extract")}
    BY DEF Begun, Opened, over, j, j1, first, j0
  <2> QED BY <2>1
<1>7. CASE k = [j0 EXCEPT !.stage = "commit"]
  <2>1. k \in Job /\ k.stage = "commit" /\ k.queue = <<>> /\ k.status = j0.status
        /\ k.tender = t
    BY <1>1, <1>7 DEF Job
  <2> QED BY <1>1, <2>1, NoQueue DEF Sound
<1>8. CASE k = Unapproved(j0)
  <2>1. k \in Job /\ k.stage = "commit" /\ k.queue = <<>> /\ k.status # "verdict_failed"
        /\ k.tender = t
    BY <1>1, <1>8 DEF Job, Unapproved, Statuses
  <2> QED BY <2>1, NoQueue DEF Sound
<1>9. CASE k = [over EXCEPT !.stage = "commit", !.status = "awaiting_budget"]
  <2>1. k \in Job /\ k.stage = "commit" /\ k.queue = <<>> /\ k.status # "verdict_failed"
        /\ k.tender = t
    BY <1>5, <1>9 DEF Job, Statuses
  <2> QED BY <2>1, NoQueue DEF Sound
<1>10. CASE k = Asks(j, "map") \/ k = Asks(j, "extract")
  <2>1. Sound(k)
    BY <1>4, <1>10, AsksSound DEF Requests
  <2>2. k.stage \in Requests /\ k.tender = j.tender
    BY <1>4, <1>10 DEF Asks, Job, Requests
  <2> QED BY <1>4, <2>1, <2>2
<1> QED BY <1>6, <1>7, <1>8, <1>9, <1>10

VerdictInv == TypeOK /\ FailureIsVisible /\ \A w \in Workers : Sound(job[w])

\* A step of process w that leaves it with a sound generation and the shared rows alone.
LEMMA OwnStep ==
  ASSUME VerdictInv, NEW w \in Workers, NEW j, Sound(j), Goes(w, j), budget' \in Nat,
         UNCHANGED <<tender, profile, role, spent, alerts, scene>>
  PROVE  VerdictInv'
<1>1. job \in [Workers -> Job] /\ j \in Job
  BY DEF VerdictInv, TypeOK, Sound
<1>2. job' = [job EXCEPT ![w] = j]
  BY DEF Goes
<1>3. job' \in [Workers -> Job] /\ job'[w] = j /\ \A v \in Workers \ {w} : job'[v] = job[v]
  BY <1>1, <1>2
<1>4. TypeOK'
  BY <1>3 DEF VerdictInv, TypeOK
<1>5. \A v \in Workers : Sound(job'[v])
  BY <1>3 DEF VerdictInv
<1> QED BY <1>4, <1>5 DEF VerdictInv, FailureIsVisible

LEMMA SpendNat ==
  ASSUME budget \in Nat, NEW kind, Spend(kind)
  PROVE  budget' \in Nat
<1>1. CASE kind \in scene.free
  BY <1>1 DEF Spend
<1>2. CASE kind \notin scene.free
  BY <1>2 DEF Spend
<1> QED BY <1>1, <1>2

LEMMA CallStep ==
  ASSUME VerdictInv, NEW w \in Workers, UNCHANGED scene,
         \/ Answer(w) \/ AnswerInvalid(w) \/ Unfit(w) \/ CallTransient(w)
         \/ CallRefused(w) \/ CallTooLarge(w)
  PROVE  VerdictInv'
<1> DEFINE j == job[w]
<1>1. Sound(j) /\ budget \in Nat
  BY DEF VerdictInv, TypeOK
<1>2. Calling(w) /\ UNCHANGED <<tender, profile, role, spent, alerts, scene>>
  BY DEF Answer, AnswerInvalid, Unfit, CallTransient, CallRefused, CallTooLarge
<1>3. j.stage \in Requests /\ j.queue # <<>>
  BY <1>2 DEF Calling
<1>4. Caller(w) = Head(j.queue) /\ Caller(w) \in Profiles
  BY <1>1, <1>3, CallerOf DEF Caller
<1> HIDE DEF j
<1>5. ASSUME NEW cost \in {0, 1}
      PROVE  /\ Sound(Accepted(Paid(j, cost), Caller(w))) /\ Sound(Corrected(Paid(j, cost), Caller(w)))
             /\ Sound(Failed(Paid(j, cost)))
  <2> DEFINE k == Paid(j, cost)
  <2>1. Sound(k) /\ k.stage \in Requests
    BY <1>1, <1>3, PaidSound
  <2> HIDE DEF k
  <2>2. k \in Job /\ k.tender \in Tenders
    BY <2>1 DEF Sound, Requests
  <2>3. Sound(Accepted(k, Caller(w))) /\ Sound(Corrected(k, Caller(w))) /\ Sound(Failed(k))
    BY <1>4, <2>1, <2>2, AcceptedSound, CorrectedSound, FailedSound
  <2> QED BY <2>3 DEF k
<1>6. CASE Answer(w)
  <2>1. budget' = budget
    BY <1>6 DEF Answer
  <2>2. PICK cost \in {0, 1} : Goes(w, Accepted(Paid(j, cost), Caller(w)))
    BY <1>6 DEF Answer, j
  <2> QED BY <1>1, <1>2, <1>5, <2>1, <2>2, OwnStep
<1>7. CASE AnswerInvalid(w)
  <2>1. budget' \in Nat
    BY <1>1, <1>7, SpendNat DEF AnswerInvalid
  <2>2. PICK cost \in {0, 1} : Goes(w, Corrected(Paid(j, cost), Caller(w)))
    BY <1>7 DEF AnswerInvalid, j
  <2> QED BY <1>1, <1>2, <1>5, <2>1, <2>2, OwnStep
<1>8. CASE Unfit(w)
  <2>1. budget' \in Nat
    BY <1>1, <1>8, SpendNat DEF Unfit
  <2>2. PICK cost \in {0, 1} : Goes(w, Failed(Paid(j, cost)))
    BY <1>8 DEF Unfit, j
  <2> QED BY <1>1, <1>2, <1>5, <2>1, <2>2, OwnStep
<1>9. CASE CallTransient(w)
  <2>1. budget' \in Nat
    BY <1>1, <1>9, SpendNat DEF CallTransient
  <2>2. Sound(Passed(j))
    BY <1>1, <1>3, PassedSound
  <2>3. CASE j.tries < Attempts - 1
    <3>1. j.tries + 1 \in 0..Attempts - 1
      BY <1>1, <2>3, JobParts DEF Attempts, Sound
    <3>2. Sound([j EXCEPT !.tries = j.tries + 1])
      BY <1>1, <3>1, TriedSound
    <3>3. Goes(w, [j EXCEPT !.tries = j.tries + 1])
      BY <1>9, <2>3 DEF CallTransient, j
    <3> QED BY <1>2, <2>1, <3>2, <3>3, OwnStep
  <2>4. CASE ~(j.tries < Attempts - 1)
    <3>1. Goes(w, Passed(j))
      BY <1>9, <2>4 DEF CallTransient, j
    <3> QED BY <1>2, <2>1, <2>2, <3>1, OwnStep
  <2> QED BY <2>3, <2>4
<1>10. CASE CallRefused(w)
  <2>1. budget' \in Nat
    BY <1>1, <1>10, SpendNat DEF CallRefused
  <2>2. Goes(w, Passed(j)) /\ Sound(Passed(j))
    BY <1>1, <1>3, <1>10, PassedSound DEF CallRefused, j
  <2> QED BY <1>2, <2>1, <2>2, OwnStep
<1>11. CASE CallTooLarge(w)
  <2>1. budget' \in Nat
    BY <1>1, <1>11, SpendNat DEF CallTooLarge
  <2>2. PICK smaller \in BOOLEAN :
          Goes(w, [Shrunk(j, Caller(w), smaller) EXCEPT
                     !.refused = @ \cup {[profile |-> Caller(w), payload |-> Sent(j)]}])
    BY <1>11 DEF CallTooLarge, j
  <2> DEFINE l == [Shrunk(j, Caller(w), smaller) EXCEPT
                     !.refused = @ \cup {[profile |-> Caller(w), payload |-> Sent(j)]}]
  <2>3. Sound(l)
    BY <1>1, <1>3, <1>4, ShrunkSound
  <2>4. Goes(w, l)
    BY <2>2
  <2> HIDE DEF l
  <2> QED BY <1>2, <2>1, <2>3, <2>4, OwnStep
<1> QED BY <1>6, <1>7, <1>8, <1>9, <1>10, <1>11

LEMMA BeginStep ==
  ASSUME VerdictInv, NEW w \in Workers, NEW t \in Tenders, UNCHANGED scene,
         Begin(w, t) \/ InputsMissing(w, t)
  PROVE  VerdictInv'
<1>1. TypeOK /\ budget \in Nat
  BY DEF VerdictInv, TypeOK
<1>2. CASE Begin(w, t)
  <2>1. PICK j \in Begun(t) : Goes(w, j)
    BY <1>2 DEF Begin
  <2>2. Sound(j)
    BY <1>1, <1>2, BegunSound DEF Begin
  <2> QED BY <1>1, <1>2, <2>1, <2>2, OwnStep DEF Begin
<1>3. CASE InputsMissing(w, t)
  <2>1. PICK j \in Begun(t) : Goes(w, Failed(j))
    BY <1>3 DEF InputsMissing
  <2>2. Sound(j) /\ j.tender = t
    BY <1>1, <1>3, BegunSound DEF InputsMissing
  <2>3. Sound(Failed(j))
    BY <2>2, FailedSound DEF Sound
  <2>4. budget' \in Nat
    BY <1>1, <1>3, SpendNat DEF InputsMissing
  <2> QED BY <1>3, <2>1, <2>3, <2>4, OwnStep DEF InputsMissing
<1> QED BY <1>2, <1>3

LEMMA CommitStep ==
  ASSUME VerdictInv, NEW w \in Workers, UNCHANGED scene, Commit(w)
  PROVE  VerdictInv'
<1> DEFINE j == job[w]
           t == j.tender
           s == IF j.status = j.loaded THEN tender[t].status ELSE j.status
<1>1. TypeOK /\ Sound(j) /\ j \in Job /\ t \in Tenders
  BY DEF VerdictInv, Commit, Sound
<1>2. j.cost \in Nat /\ j.alerts \subseteq Alert /\ j.verdict \in BOOLEAN /\ j.status \in Statuses
  BY <1>1, JobParts
<1>3. /\ tender' = [tender EXCEPT ![t].status = IF j.status = j.loaded THEN @ ELSE j.status,
                                  ![t].assessed = @ \/ j.verdict]
      /\ spent' = spent + j.cost /\ alerts' = alerts \cup j.alerts
      /\ Goes(w, NoJob) /\ UNCHANGED <<profile, role, budget, scene>>
  BY DEF Commit
<1> HIDE DEF j
<1>4. tender \in [Tenders -> [status : Statuses, passed : BOOLEAN, assessed : BOOLEAN]]
  BY <1>1 DEF TypeOK
<1>5. /\ tender' \in [Tenders -> [status : Statuses, passed : BOOLEAN, assessed : BOOLEAN]]
      /\ tender'[t].status = s /\ \A u \in Tenders \ {t} : tender'[u].status = tender[u].status
  BY <1>1, <1>2, <1>3, <1>4
<1>6. job' \in [Workers -> Job] /\ \A v \in Workers : Sound(job'[v])
  <2>1. job \in [Workers -> Job] /\ job' = [job EXCEPT ![w] = NoJob]
    BY <1>1, <1>3 DEF TypeOK, Goes
  <2> QED BY <2>1, IdleSound DEF VerdictInv, Sound
<1>7. TypeOK'
  <2>1. spent' \in Nat /\ alerts' \in SUBSET Alert
    BY <1>1, <1>2, <1>3 DEF TypeOK
  <2> QED BY <1>1, <1>3, <1>5, <1>6, <2>1 DEF TypeOK
<1>8. FailureIsVisible'
  <2> SUFFICES ASSUME NEW u \in Tenders, tender'[u].status = "verdict_failed"
               PROVE  [type |-> "ai_failure", tender |-> u] \in alerts'
    BY DEF FailureIsVisible
  <2>1. CASE tender[u].status = "verdict_failed"
    BY <1>3, <2>1 DEF VerdictInv, FailureIsVisible
  <2>2. CASE tender[u].status # "verdict_failed"
    <3>1. u = t /\ j.status = "verdict_failed"
      BY <1>5, <2>2
    <3> QED BY <1>1, <1>3, <3>1 DEF Sound, Blamed
  <2> QED BY <2>1, <2>2
<1> QED BY <1>6, <1>7, <1>8 DEF VerdictInv

LEMMA NextVerdict == VerdictInv /\ [Next]_vars => VerdictInv'
<1> SUFFICES ASSUME VerdictInv, [Next]_vars PROVE VerdictInv'
  OBVIOUS
<1>1. TypeOK /\ budget \in Nat
  BY DEF VerdictInv, TypeOK
<1>2. ASSUME NEW w \in Workers, Step(w), UNCHANGED scene PROVE VerdictInv'
  BY <1>2, CallStep, CommitStep DEF Step
<1>3. ASSUME NEW w \in Workers, Crash(w), UNCHANGED scene PROVE VerdictInv'
  <2>1. budget' \in Nat
    BY <1>1, <1>3, SpendNat DEF Crash
  <2> QED BY <1>3, <2>1, IdleSound, OwnStep DEF Crash
<1>4. ASSUME NEW w \in Workers, NEW t \in Tenders, Begin(w, t) \/ InputsMissing(w, t),
             UNCHANGED scene
      PROVE  VerdictInv'
  BY <1>4, BeginStep
<1>5. ASSUME NEW p \in Profiles, EditProfile(p), UNCHANGED scene PROVE VerdictInv'
  <2>1. budget' \in Nat
    BY <1>1, <1>5, SpendNat DEF EditProfile
  <2>2. profile' \in [Profiles -> [active : BOOLEAN, approved : BOOLEAN]]
    <3>1. PICK row \in [active : BOOLEAN, approved : BOOLEAN] : profile' = [profile EXCEPT ![p] = row]
      BY <1>5 DEF EditProfile
    <3> QED BY <1>1, <3>1 DEF TypeOK
  <2> QED BY <1>1, <1>5, <2>1, <2>2 DEF EditProfile, VerdictInv, TypeOK, FailureIsVisible
<1>6. ASSUME AssignRole, UNCHANGED scene PROVE VerdictInv'
  <2>1. budget' \in Nat
    BY <1>1, <1>6, SpendNat DEF AssignRole
  <2>2. role' \in [primary : Assignable, fallback : Assignable]
    BY <1>6 DEF AssignRole, Assignable
  <2> QED BY <1>1, <1>6, <2>1, <2>2 DEF AssignRole, VerdictInv, TypeOK, FailureIsVisible
<1>7. ASSUME NEW t \in Tenders, Retriage(t), UNCHANGED scene PROVE VerdictInv'
  <2>1. budget' \in Nat
    BY <1>1, <1>7, SpendNat DEF Retriage
  <2>2. /\ tender' \in [Tenders -> [status : Statuses, passed : BOOLEAN, assessed : BOOLEAN]]
        /\ \A u \in Tenders : tender'[u].status = tender[u].status
    <3>1. tender' = [tender EXCEPT ![t].passed = FALSE]
      BY <1>7 DEF Retriage
    <3> QED BY <1>1, <3>1 DEF TypeOK
  <2> QED BY <1>1, <1>7, <2>1, <2>2 DEF Retriage, VerdictInv, TypeOK, FailureIsVisible
<1>8. CASE UNCHANGED vars
  BY <1>8 DEF vars, VerdictInv, TypeOK, FailureIsVisible
<1> QED BY <1>2, <1>3, <1>4, <1>5, <1>6, <1>7, <1>8 DEF Next

-----------------------------------------------------------------------------
(* Theorems *)

LEMMA InitVerdict == Init => VerdictInv
<1> SUFFICES ASSUME Init PROVE VerdictInv
  OBVIOUS
<1>1. \A w \in Workers : job[w] = NoJob
  BY DEF Init
<1>2. job \in [Workers -> Job] /\ \A w \in Workers : Sound(job[w])
  BY <1>1, IdleSound DEF Init, Sound
<1>3. role \in [primary : Assignable, fallback : Assignable]
  BY VerdictConstants DEF Init, Assignable
<1>4. budget \in Nat /\ scene \in Scenes
  BY VerdictConstants DEF Init
<1>5. tender \in [Tenders -> [status : Statuses, passed : BOOLEAN, assessed : BOOLEAN]]
  BY DEF Init, Statuses
<1> QED BY <1>2, <1>3, <1>4, <1>5 DEF Init, VerdictInv, TypeOK, FailureIsVisible

LEMMA VerdictInvariant == Spec => []VerdictInv
BY InitVerdict, NextVerdict, PTL DEF Spec

\* Every variable of the engine stays within its type.
THEOREM TypeCorrect == Spec => []TypeOK
<1>1. VerdictInv => TypeOK
  BY DEF VerdictInv
<1> QED BY <1>1, VerdictInvariant, PTL

\* A tender whose verdict failed has its alert, whichever generation committed last
\* and whatever crashed (_failure, and the one transaction of a generation).
THEOREM FailuresAreVisible == Spec => []FailureIsVisible
<1>1. VerdictInv => FailureIsVisible
  BY DEF VerdictInv
<1> QED BY <1>1, VerdictInvariant, PTL

\* Documents go only to profiles that were active and approved when the generation
\* read them, through every retry, fallback and correction (_invoke_with_policy).
THEOREM DocumentsAreApproved == Spec => []DocumentsStayApproved
<1>1. VerdictInv => DocumentsStayApproved
  <2> SUFFICES ASSUME VerdictInv, NEW w \in Workers, Calling(w)
               PROVE  job[w].rows[Caller(w)] = [active |-> TRUE, approved |-> TRUE]
    BY DEF DocumentsStayApproved
  <2>1. Sound(job[w]) /\ job[w].queue # <<>>
    BY DEF VerdictInv, Calling
  <2> QED BY <2>1, CallerOf DEF Caller, Fit
<1> QED BY <1>1, VerdictInvariant, PTL

\* A payload that was rejected as too large is sent to nobody again unchanged: the
\* generation maps, reduces or gives up (DETERMINISTIC_ERRORS).
THEOREM RejectedStaysRejected == Spec => []RejectedPayloadNotRepeated
<1>1. VerdictInv => RejectedPayloadNotRepeated
  <2> SUFFICES ASSUME VerdictInv, NEW w \in Workers, Calling(w),
                      [profile |-> Caller(w), payload |-> Sent(job[w])] \in job[w].refused
               PROVE  FALSE
    BY DEF RejectedPayloadNotRepeated
  <2> DEFINE x == [profile |-> Caller(w), payload |-> Sent(job[w])]
  <2>1. Sound(job[w]) /\ job[w].stage \in Requests
    BY DEF VerdictInv, Calling
  <2>2. /\ x.payload.request = job[w].stage /\ x.payload.mapped = job[w].mapped
        /\ x.payload.reduced = job[w].reduced
    BY DEF Sent
  <2> HIDE DEF x
  <2>3. x \in job[w].refused
    BY DEF x
  <2> QED BY <2>1, <2>2, <2>3 DEF Sound, PastWhole, Requests
<1> QED BY <1>1, VerdictInvariant, PTL

-----------------------------------------------------------------------------
(* The budget *)

\* the most that a generation has been charged when it comes to its request
Charged(j) ==
  CASE j.stage = "map" -> 2 * (j.segment - 1)
    [] j.stage = "map_fix" -> 2 * (j.segment - 1) + 1
    [] j.stage = "extract" -> IF j.mapped THEN 2 * Segments ELSE 0
    [] j.stage = "extract_fix" -> (IF j.mapped THEN 2 * Segments ELSE 0) + 1
    [] j.stage = "verdict" -> 2 * Segments + 2
    [] j.stage = "verdict_fix" -> 2 * Segments + 3
    [] j.stage = "commit" -> MostCost
    [] OTHER -> 0
Frugal(j) == j.cost <= Charged(j)

\* The budget was not spent when the last generation began, and the ones that are
\* charged are among the processes that run.
Affordable == scene.active # {} =>
  spent + MostCost * Cardinality(Charging) < Budget + MostCost * Cardinality(scene.active)
BudgetInv == /\ \A w \in Workers : Frugal(job[w]) /\ (job[w].stage # "idle" => w \in scene.active)
             /\ Affordable

LEMMA CostBounds ==
  /\ Segments \in Nat \ {0} /\ Budget \in Nat /\ MostCost \in Nat /\ MostCost = 4 + 2 * Segments
BY VerdictConstants DEF MostCost

LEMMA ChargedBounds ==
  ASSUME NEW j \in Job
  PROVE  /\ Charged(j) \in Nat /\ Charged(j) <= MostCost
         /\ j.stage \in Requests => Charged(j) + 1 <= MostCost
         /\ j.stage = "idle" => Charged(j) = 0
<1>1. j.segment \in 1..Segments /\ j.stage \in Requests \cup {"idle", "commit"}
  BY JobParts
<1> QED BY <1>1, CostBounds DEF Charged, Requests

\* what a new request, a failure and the passing of a request leave of the cost
LEMMA AsksCost ==
  ASSUME NEW j \in Job, NEW request \in Requests
  PROVE  /\ Asks(j, request).stage = request /\ Asks(j, request).cost = j.cost
         /\ Asks(j, request).segment = j.segment /\ Asks(j, request).mapped = j.mapped
BY DEF Asks, Job

LEMMA FailedCost ==
  ASSUME NEW j \in Job
  PROVE  Failed(j).stage = "commit" /\ Failed(j).cost = j.cost
BY DEF Failed, Alerted, Job

LEMMA PassedFrugal ==
  ASSUME NEW j \in Job, j.stage \in Requests, Frugal(j)
  PROVE  Frugal(Passed(j)) /\ Frugal(Failed(j)) /\ Failed(j).stage = "commit"
         /\ Passed(j).stage \in {j.stage, "commit"}
         /\ Frugal([j EXCEPT !.tries = @ + 1]) /\ [j EXCEPT !.tries = @ + 1].stage = j.stage
<1>1. j.cost \in Nat
  BY JobParts
<1>2. Frugal(Failed(j)) /\ Failed(j).stage = "commit"
  BY <1>1, ChargedBounds, FailedCost, CostBounds DEF Frugal, Charged
<1>3. CASE Len(j.queue) = 1
  BY <1>2, <1>3 DEF Passed, Frugal, Charged, Job
<1>4. CASE Len(j.queue) # 1
  <2>1. /\ Passed(j).stage = j.stage /\ Passed(j).cost = j.cost
        /\ Passed(j).segment = j.segment /\ Passed(j).mapped = j.mapped
    BY <1>4 DEF Passed, Job
  <2> QED BY <1>2, <2>1 DEF Frugal, Charged, Job
<1> QED BY <1>3, <1>4

LEMMA PaidFrugal ==
  ASSUME NEW j \in Job, j.stage \in Requests, j.tender \in Tenders, Frugal(j),
         NEW cost \in {0, 1}, NEW p \in Profiles
  PROVE  /\ Frugal(Accepted(Paid(j, cost), p)) /\ Frugal(Corrected(Paid(j, cost), p))
         /\ Frugal(Failed(Paid(j, cost)))
<1> DEFINE k == Paid(j, cost)
<1>1. /\ k \in Job /\ k.stage = j.stage /\ k.cost = j.cost + cost
      /\ k.segment = j.segment /\ k.mapped = j.mapped /\ k.tender = j.tender
  <2>1. j.cost + cost \in Nat
    BY JobParts
  <2> QED BY <2>1 DEF Paid, Job
<1> HIDE DEF k
<1>2. /\ j.cost \in Nat /\ k.cost \in Nat /\ k.cost <= j.cost + 1 /\ j.segment \in 1..Segments
      /\ j.cost <= Charged(j)
  BY <1>1, JobParts DEF Frugal
<1>3. Frugal(Failed(k))
  BY <1>1, <1>2, ChargedBounds, FailedCost, CostBounds DEF Frugal, Charged
<1>4. /\ [k EXCEPT !.primary = p] \in Job
      /\ [k EXCEPT !.primary = p].cost = k.cost /\ [k EXCEPT !.primary = p].mapped = k.mapped
      /\ [k EXCEPT !.primary = p].segment = k.segment
  BY <1>1, TunedJob DEF Job
<1>5. Frugal(Accepted(k, p))
  <2>1. CASE k.stage \in {"map", "map_fix"} /\ k.segment < Segments
    <3> DEFINE m == [k EXCEPT !.segment = @ + 1]
    <3>1. m \in Job /\ m.cost = k.cost /\ m.segment = k.segment + 1
      BY <1>1, <2>1, TunedJob DEF Job
    <3> HIDE DEF m
    <3>2. Accepted(k, p) = Asks(m, "map")
      BY <2>1 DEF Accepted, m
    <3>3. Asks(m, "map").cost = k.cost /\ Asks(m, "map").segment = k.segment + 1
          /\ Asks(m, "map").stage = "map"
      BY <3>1, AsksCost DEF Requests
    <3> HIDE DEF Asks
    <3> QED BY <1>1, <1>2, <2>1, <3>2, <3>3 DEF Frugal, Charged
  <2>2. CASE k.stage \in {"map", "map_fix"} /\ ~(k.segment < Segments)
    <3> DEFINE m == [k EXCEPT !.mapped = TRUE]
    <3>1. m \in Job /\ m.cost = k.cost /\ m.mapped
      BY <1>1, TunedJob DEF Job
    <3> HIDE DEF m
    <3>2. Accepted(k, p) = Asks(m, "extract")
      BY <2>2 DEF Accepted, m
    <3>3. Asks(m, "extract").cost = k.cost /\ Asks(m, "extract").mapped
          /\ Asks(m, "extract").stage = "extract"
      BY <3>1, AsksCost DEF Requests
    <3>4. k.segment = Segments
      BY <1>1, <1>2, <2>2, CostBounds
    <3> QED BY <1>1, <1>2, <2>2, <3>2, <3>3, <3>4, CostBounds DEF Frugal, Charged
  <2>3. CASE k.stage \in {"extract", "extract_fix"}
    <3>1. Accepted(k, p) = Asks([k EXCEPT !.primary = p], "verdict")
      BY <2>3 DEF Accepted
    <3>2. Accepted(k, p).cost = k.cost /\ Accepted(k, p).stage = "verdict"
      BY <1>4, <3>1, AsksCost, ZenonT(60) DEF Requests
    <3> QED BY <1>1, <1>2, <2>3, <3>2, CostBounds DEF Frugal, Charged
  <2>4. CASE k.stage \in {"verdict", "verdict_fix"}
    <3>1. Accepted(k, p) = Recorded(k)
      BY <2>4 DEF Accepted
    <3>2. Recorded(k).cost = k.cost /\ Recorded(k).stage = "commit"
      BY <1>1 DEF Recorded, Job
    <3> QED BY <1>1, <1>2, <3>1, <3>2, ChargedBounds, CostBounds DEF Frugal, Charged
  <2> QED BY <1>1, <2>1, <2>2, <2>3, <2>4 DEF Requests
<1>6. Frugal(Corrected(k, p))
  <2>1. CASE k.stage = "map"
    <3>1. Corrected(k, p) = Asks(k, "map_fix")
      BY <2>1 DEF Corrected
    <3>2. Corrected(k, p).cost = k.cost /\ Corrected(k, p).stage = "map_fix"
          /\ Corrected(k, p).segment = k.segment
      BY <1>1, <3>1, AsksCost DEF Requests
    <3> QED BY <1>1, <1>2, <2>1, <3>2 DEF Frugal, Charged
  <2>2. CASE k.stage = "extract"
    <3>1. Corrected(k, p) = Asks([k EXCEPT !.primary = p], "extract_fix")
      BY <2>2 DEF Corrected
    <3>2. Corrected(k, p).cost = k.cost /\ Corrected(k, p).stage = "extract_fix"
          /\ Corrected(k, p).mapped = k.mapped
      BY <1>4, <3>1, AsksCost, ZenonT(60) DEF Requests
    <3> QED BY <1>1, <1>2, <2>2, <3>2, CostBounds DEF Frugal, Charged
  <2>3. CASE k.stage = "verdict"
    <3>1. Corrected(k, p) = Asks([k EXCEPT !.primary = p], "verdict_fix")
      BY <2>3 DEF Corrected
    <3>2. Corrected(k, p).cost = k.cost /\ Corrected(k, p).stage = "verdict_fix"
      BY <1>4, <3>1, AsksCost, ZenonT(60) DEF Requests
    <3> QED BY <1>1, <1>2, <2>3, <3>2, CostBounds DEF Frugal, Charged
  <2>4. CASE k.stage = "verdict_fix"
    <3> DEFINE m == Alerted(k, {"invalid_ai_output"})
    <3>1. m \in Job /\ m.cost = k.cost
      BY <1>1, AlertedJob, SMTT(30) DEF AlertTypes, Job
    <3> HIDE DEF m
    <3>2. Corrected(k, p) = Failed(m)
      BY <2>4 DEF Corrected, m
    <3>3. Corrected(k, p).cost = k.cost /\ Corrected(k, p).stage = "commit"
      BY <3>1, <3>2, FailedCost
    <3> QED BY <1>1, <1>2, <3>3, ChargedBounds, CostBounds DEF Frugal, Charged
  <2>5. CASE k.stage \in {"map_fix", "extract_fix"}
    BY <1>3, <2>5 DEF Corrected
  <2> QED BY <1>1, <2>1, <2>2, <2>3, <2>4, <2>5 DEF Requests
<1> QED BY <1>3, <1>5, <1>6 DEF k
LEMMA ShrunkFrugal ==
  ASSUME NEW j \in Job, j.stage \in Requests, Frugal(j), NEW p \in Profiles,
         NEW smaller \in BOOLEAN, NEW more
  PROVE  /\ Frugal([Shrunk(j, p, smaller) EXCEPT !.refused = more])
         /\ [Shrunk(j, p, smaller) EXCEPT !.refused = more].stage # "idle"
<1> DEFINE k == Shrunk(j, p, smaller)
<1>1. /\ j.cost \in Nat /\ j.segment \in 1..Segments /\ j.cost <= Charged(j)
  BY JobParts DEF Frugal
<1>2. /\ Frugal(k) /\ k.stage \in Requests \cup {"commit"}
  <2>1. CASE j.stage = "extract" /\ ~j.mapped
    <3> DEFINE m == [j EXCEPT !.primary = p]
    <3>1. m \in Job /\ m.cost = j.cost /\ m.segment = j.segment
      BY TunedJob DEF Job
    <3>2. k = Asks(m, "map")
      BY <2>1 DEF Shrunk
    <3>3. k.stage = "map" /\ k.cost = j.cost /\ k.segment = j.segment
      <4> HIDE DEF m, k
      <4> QED BY <3>1, <3>2, AsksCost DEF Requests
    <3>4. Frugal(k)
      BY <1>1, <2>1, <3>3 DEF Frugal, Charged
    <3> QED BY <3>3, <3>4 DEF Requests
  <2>2. CASE j.stage = "verdict" /\ ~j.reduced /\ smaller
    <3> DEFINE m == [j EXCEPT !.reduced = TRUE]
    <3>1. m \in Job /\ m.cost = j.cost
      BY TunedJob DEF Job
    <3>2. k = Asks(m, "verdict")
      BY <2>2 DEF Shrunk
    <3>3. k.stage = "verdict" /\ k.cost = j.cost
      <4> HIDE DEF m, k
      <4> QED BY <3>1, <3>2, AsksCost DEF Requests
    <3>4. Frugal(k)
      BY <1>1, <2>2, <3>3 DEF Frugal, Charged
    <3> QED BY <3>3, <3>4 DEF Requests
  <2>3. CASE ~(j.stage = "extract" /\ ~j.mapped) /\ ~(j.stage = "verdict" /\ ~j.reduced /\ smaller)
    BY <2>3, PassedFrugal DEF Shrunk
  <2> QED BY <2>1, <2>2, <2>3
<1>3. /\ [k EXCEPT !.refused = more].stage = k.stage /\ [k EXCEPT !.refused = more].cost = k.cost
      /\ [k EXCEPT !.refused = more].segment = k.segment
      /\ [k EXCEPT !.refused = more].mapped = k.mapped
  OBVIOUS
<1> QED BY <1>2, <1>3 DEF Frugal, Charged, Requests
\* a generation that begins has been charged nothing, and asks only within the budget
LEMMA BegunFree ==
  ASSUME TypeOK, NEW t \in Tenders, tender[t].status # "verdict_failed", NEW k \in Begun(t)
  PROVE  k.cost = 0 /\ (k.stage \in Requests => spent < Budget)
<1> DEFINE j0 == [NoJob EXCEPT !.tender = t, !.rows = profile, !.fallback = role.fallback,
                          !.loaded = tender[t].status, !.status = tender[t].status]
           first == IF Usable(j0, role.primary) THEN role.primary ELSE role.fallback
           j == Alerted([j0 EXCEPT !.primary = first], Warned)
           over == Alerted(j, {"budget_100_percent"})
<1>1. j0.cost = 0 /\ j.cost = 0 /\ over.cost = 0
  BY DEF Alerted, NoJob
<1>2. \/ k = [j0 EXCEPT !.stage = "commit"] \/ k = Unapproved(j0)
      \/ k = [over EXCEPT !.stage = "commit", !.status = "awaiting_budget"]
      \/ (k = Asks(j, "map") \/ k = Asks(j, "extract")) /\ WithinBudget
  BY DEF Begun, Opened
<1>3. Asks(j, "map").cost = 0 /\ Asks(j, "extract").cost = 0
  BY DEF Asks, Alerted, NoJob
<1>4. CASE k = [j0 EXCEPT !.stage = "commit"]
  BY <1>4 DEF NoJob, Requests
<1>5. CASE k = Unapproved(j0)
  BY <1>5 DEF NoJob, Requests, Unapproved
<1>6. CASE k = [over EXCEPT !.stage = "commit", !.status = "awaiting_budget"]
  BY <1>6 DEF NoJob, Requests, Alerted
<1>7. CASE (k = Asks(j, "map") \/ k = Asks(j, "extract")) /\ WithinBudget
  BY <1>3, <1>7 DEF WithinBudget
<1> QED BY <1>2, <1>4, <1>5, <1>6, <1>7

LEMMA Monotone ==
  ASSUME NEW m \in Nat, NEW a \in Nat, NEW b \in Nat, a <= b
  PROVE  m * a <= m * b /\ m * a \in Nat /\ m * b \in Nat
OBVIOUS

\* the processes of a scene are finitely many
LEMMA ActiveFinite ==
  ASSUME TypeOK, NEW S \in SUBSET scene.active
  PROVE  IsFiniteSet(S) /\ Cardinality(S) \in Nat /\ Cardinality(S) <= Cardinality(scene.active)
         /\ Cardinality(scene.active) \in Nat
<1>1. scene.active \subseteq Workers
  BY VerdictConstants DEF TypeOK
<1>2. IsFiniteSet(scene.active)
  BY <1>1, VerdictConstants, FS_Subset
<1> QED BY <1>2, FS_Subset, FS_CardinalityType

LEMMA ChargingActive ==
  ASSUME VerdictInv, BudgetInv
  PROVE  Charging \subseteq scene.active /\ (\A w \in Workers : job[w].stage = "idle" => job[w].cost = 0)
<1> SUFFICES ASSUME NEW w \in Workers
             PROVE  /\ w \in Charging => w \in scene.active
                    /\ job[w].stage = "idle" => job[w].cost = 0
  BY DEF Charging
<1>1. job[w] \in Job /\ Frugal(job[w]) /\ job[w].cost \in Nat
  BY JobParts DEF VerdictInv, Sound, BudgetInv
<1>2. job[w].stage = "idle" => job[w].cost = 0
  BY <1>1, ChargedBounds DEF Frugal
<1> QED BY <1>2 DEF Charging, BudgetInv, Requests

\* nobody is charged anew and nothing is spent
LEMMA ChargesNobody ==
  ASSUME VerdictInv, BudgetInv, Charging' \subseteq Charging, UNCHANGED <<spent, scene>>
  PROVE  Affordable'
<1>0. TypeOK /\ Charging \subseteq scene.active
  BY ChargingActive DEF VerdictInv
<1>1. IsFiniteSet(Charging) /\ Cardinality(Charging) \in Nat /\ Cardinality(scene.active) \in Nat
  BY <1>0, ActiveFinite
<1>2. Cardinality(Charging') <= Cardinality(Charging) /\ Cardinality(Charging') \in Nat
  BY <1>1, FS_Subset, FS_CardinalityType
<1>3. /\ MostCost * Cardinality(Charging') <= MostCost * Cardinality(Charging)
      /\ MostCost * Cardinality(Charging') \in Nat /\ MostCost * Cardinality(Charging) \in Nat
      /\ MostCost * Cardinality(scene.active) \in Nat
  BY <1>1, <1>2, Monotone, CostBounds
<1>4. spent \in Nat
  BY <1>0 DEF TypeOK
<1>5. Affordable
  BY DEF BudgetInv
<1> DEFINE a == MostCost * Cardinality(Charging)
           b == MostCost * Cardinality(Charging')
           c == MostCost * Cardinality(scene.active)
<1>6. Affordable <=> (scene.active # {} => spent + a < Budget + c)
  BY DEF Affordable
<1>7. Affordable' <=> (scene.active # {} => spent + b < Budget + c)
  BY DEF Affordable, MostCost
<1>8. a \in Nat /\ b \in Nat /\ c \in Nat /\ b <= a
  BY <1>3
<1> HIDE DEF a, b, c
<1> QED BY <1>4, <1>5, <1>6, <1>7, <1>8, CostBounds

\* process w goes on with a generation j that has paid no more than it may
LEMMA BudgetTurn ==
  ASSUME VerdictInv, BudgetInv, NEW w \in scene.active, NEW j, Goes(w, j), Frugal(j),
         scene' = scene, Affordable'
  PROVE  BudgetInv'
<1>1. w \in Workers /\ job \in [Workers -> Job]
  BY VerdictConstants DEF VerdictInv, TypeOK
<1>2. job'[w] = j /\ \A v \in Workers \ {w} : job'[v] = job[v]
  BY <1>1 DEF Goes
<1>3. \A v \in Workers : Frugal(job'[v]) /\ (job'[v].stage # "idle" => v \in scene.active)
  BY <1>2 DEF BudgetInv
<1>4. \A v \in Workers : Frugal(job[v])' <=> Frugal(job'[v])
  BY DEF Frugal, Charged, MostCost
<1> QED BY <1>3, <1>4 DEF BudgetInv
LEMMA BudgetCalls ==
  ASSUME VerdictInv, BudgetInv, NEW w \in Workers, UNCHANGED scene,
         \/ Answer(w) \/ AnswerInvalid(w) \/ Unfit(w) \/ CallTransient(w)
         \/ CallRefused(w) \/ CallTooLarge(w)
  PROVE  BudgetInv'
<1> DEFINE j == job[w]
<1>1. Calling(w) /\ UNCHANGED <<spent, scene>>
  BY DEF Answer, AnswerInvalid, Unfit, CallTransient, CallRefused, CallTooLarge
<1>2. /\ j \in Job /\ j.tender \in Tenders /\ j.stage \in Requests /\ Frugal(j)
      /\ Caller(w) \in Profiles /\ w \in scene.active
  BY <1>1, CallerOf DEF Calling, Caller, VerdictInv, BudgetInv, Sound, Requests
<1>3. \E k : Goes(w, k) /\ Frugal(k)
  <2>1. CASE Answer(w) \/ AnswerInvalid(w) \/ Unfit(w)
    BY <1>2, <2>1, PaidFrugal DEF Answer, AnswerInvalid, Unfit
  <2>2. CASE CallTransient(w)
    <3>1. CASE j.tries < Attempts - 1
      BY <1>2, <2>2, <3>1, PassedFrugal DEF CallTransient
    <3>2. CASE ~(j.tries < Attempts - 1)
      BY <1>2, <2>2, <3>2, PassedFrugal DEF CallTransient
    <3> QED BY <3>1, <3>2
  <2>3. CASE CallRefused(w)
    BY <1>2, <2>3, PassedFrugal DEF CallRefused
  <2>4. CASE CallTooLarge(w)
    <3>1. PICK smaller \in BOOLEAN :
            Goes(w, [Shrunk(j, Caller(w), smaller) EXCEPT
                       !.refused = @ \cup {[profile |-> Caller(w), payload |-> Sent(j)]}])
      BY <2>4 DEF CallTooLarge
    <3> QED BY <1>2, <3>1, ShrunkFrugal
  <2> QED BY <2>1, <2>2, <2>3, <2>4
<1>4. PICK k : Goes(w, k) /\ Frugal(k)
  BY <1>3
<1>5. Charging' \subseteq Charging
  <2>1. job \in [Workers -> Job] /\ w \in Charging
    BY <1>2 DEF VerdictInv, TypeOK, Charging
  <2>2. \A v \in Workers \ {w} : job'[v] = job[v]
    BY <1>4, <2>1 DEF Goes
  <2> QED BY <2>1, <2>2 DEF Charging
<1> QED BY <1>1, <1>2, <1>4, <1>5, ChargesNobody, BudgetTurn

LEMMA BudgetBegins ==
  ASSUME VerdictInv, BudgetInv, NEW w \in Workers, NEW t \in Tenders, UNCHANGED scene,
         Begin(w, t) \/ InputsMissing(w, t)
  PROVE  BudgetInv'
<1>1. /\ TypeOK /\ w \in scene.active /\ job[w].stage = "idle" /\ UNCHANGED <<spent, scene>>
      /\ tender[t].status # "verdict_failed" /\ job \in [Workers -> Job]
  BY DEF Begin, InputsMissing, VerdictInv, TypeOK
<1>2. job[w].cost = 0 /\ Charging \subseteq scene.active
  BY <1>1, ChargingActive
<1>3. PICK k \in Begun(t) : Goes(w, k) \/ Goes(w, Failed(k))
  BY DEF Begin, InputsMissing
<1>4. /\ k \in Job /\ k.stage \in Requests \cup {"commit"} /\ k.cost = 0
      /\ k.stage \in Requests => spent < Budget
  BY <1>1, BegunSound, BegunFree DEF Sound
<1>5. /\ Frugal(k) /\ Frugal(Failed(k)) /\ Failed(k) \in Job /\ Failed(k).cost = 0
      /\ Failed(k).stage = "commit"
  <2>1. Failed(k).stage = "commit" /\ Failed(k).cost = 0
    BY <1>4, FailedCost
  <2>2. Failed(k) \in Job
    BY <1>1, <1>4, BegunSound, FailedSound DEF Sound
  <2> QED BY <1>4, <2>1, <2>2, ChargedBounds DEF Frugal
<1>6. PICK l : Goes(w, l) /\ Frugal(l) /\ l.cost = 0 /\ (l.stage \in Requests => spent < Budget)
  BY <1>3, <1>4, <1>5 DEF Requests
<1>7. job'[w] = l /\ \A v \in Workers \ {w} : job'[v] = job[v]
  BY <1>1, <1>6 DEF Goes
<1>8. Affordable'
  <2>1. CASE l.stage \notin Requests
    <3>1. Charging' \subseteq Charging
      BY <1>6, <1>7, <2>1 DEF Charging
    <3> QED BY <1>1, <3>1, ChargesNobody
  <2>2. CASE l.stage \in Requests
    <3> DEFINE b == MostCost * Cardinality(Charging')
               c == MostCost * Cardinality(scene.active)
    <3>1. Charging' \subseteq scene.active
      BY <1>1, <1>2, <1>7 DEF Charging
    <3>2. Cardinality(Charging') \in Nat /\ Cardinality(Charging') <= Cardinality(scene.active)
          /\ Cardinality(scene.active) \in Nat
      BY <1>1, <3>1, ActiveFinite
    <3>3. b \in Nat /\ c \in Nat /\ b <= c
      BY <3>2, Monotone, CostBounds
    <3>4. Affordable' <=> (scene.active # {} => spent + b < Budget + c)
      BY <1>1 DEF Affordable, MostCost
    <3>5. spent \in Nat /\ spent < Budget
      BY <1>1, <1>6, <2>2 DEF TypeOK
    <3> HIDE DEF b, c
    <3> QED BY <3>3, <3>4, <3>5, CostBounds
  <2> QED BY <2>1, <2>2
<1> QED BY <1>1, <1>6, <1>8, BudgetTurn

LEMMA IdleFrugal == Frugal(NoJob) /\ NoJob.cost = 0 /\ NoJob.stage = "idle"
BY DEF Frugal, Charged, NoJob

\* what a generation paid becomes spending when it is not counted as charging any more
LEMMA BudgetCommits ==
  ASSUME VerdictInv, BudgetInv, NEW w \in Workers, UNCHANGED scene, Commit(w)
  PROVE  BudgetInv'
<1> DEFINE n == job[w].cost
<1>0. /\ TypeOK /\ spent \in Nat /\ job \in [Workers -> Job] /\ n \in Nat
      /\ Charging \subseteq scene.active
  BY JobParts, ChargingActive DEF VerdictInv, TypeOK
<1>1. /\ w \in scene.active /\ spent' = spent + n /\ Goes(w, NoJob) /\ n <= MostCost
  <2>1. job[w].stage = "commit" /\ Frugal(job[w])
    BY DEF Commit, BudgetInv
  <2>2. w \in scene.active /\ n <= MostCost
    BY <2>1 DEF BudgetInv, Frugal, Charged
  <2> QED BY <2>2 DEF Commit
<1>2. job'[w] = NoJob /\ \A v \in Workers \ {w} : job'[v] = job[v]
  BY <1>0, <1>1 DEF Goes
<1>3. Charging' = Charging \ {w}
  BY <1>2, IdleFrugal DEF Charging, Requests
<1>4. Affordable'
  <2>1. CASE n = 0
    BY <1>0, <1>1, <1>3, <2>1, ChargesNobody
  <2>2. CASE n # 0
    <3>1. w \in Charging
      BY <1>0, <2>2 DEF Charging
    <3>2. IsFiniteSet(Charging) /\ Cardinality(Charging) \in Nat /\ Cardinality(scene.active) \in Nat
      BY <1>0, ActiveFinite
    <3>3. Cardinality(Charging') = Cardinality(Charging) - 1 /\ Cardinality(Charging') \in Nat
      BY <1>3, <3>1, <3>2, FS_RemoveElement, FS_CardinalityType
    <3> DEFINE a == MostCost * Cardinality(Charging)
               b == MostCost * Cardinality(Charging')
               c == MostCost * Cardinality(scene.active)
    <3>4. b = a - MostCost /\ a \in Nat /\ b \in Nat /\ c \in Nat
      <4>1. \A m, x \in Nat : m * (x - 1) = m * x - m
        OBVIOUS
      <4>2. a \in Nat /\ b \in Nat /\ c \in Nat
        BY <3>2, <3>3, Monotone, CostBounds
      <4> QED BY <3>2, <3>3, <4>1, <4>2, CostBounds
    <3>5. /\ Affordable <=> (scene.active # {} => spent + a < Budget + c)
          /\ Affordable' <=> (scene.active # {} => spent' + b < Budget + c)
      BY DEF Affordable, MostCost
    <3>6. Affordable
      BY DEF BudgetInv
    <3> HIDE DEF a, b, c
    <3> QED BY <1>0, <1>1, <3>4, <3>5, <3>6, CostBounds
  <2> QED BY <2>1, <2>2
<1> QED BY <1>1, <1>4, IdleFrugal, BudgetTurn

LEMMA NextBudget == VerdictInv /\ BudgetInv /\ [Next]_vars => BudgetInv'
<1> SUFFICES ASSUME VerdictInv, BudgetInv, [Next]_vars PROVE BudgetInv'
  OBVIOUS
<1>1. ASSUME NEW w \in Workers, Step(w), UNCHANGED scene PROVE BudgetInv'
  BY <1>1, BudgetCalls, BudgetCommits DEF Step
<1>2. ASSUME NEW w \in Workers, Crash(w), UNCHANGED scene PROVE BudgetInv'
  <2>1. w \in scene.active /\ Goes(w, NoJob) /\ spent' = spent /\ job \in [Workers -> Job]
    BY <1>2 DEF Crash, BudgetInv, VerdictInv, TypeOK
  <2>2. job'[w] = NoJob /\ \A v \in Workers \ {w} : job'[v] = job[v]
    BY <2>1 DEF Goes
  <2>3. Charging' \subseteq Charging
    BY <2>2, IdleFrugal DEF Charging, Requests
  <2> QED BY <1>2, <2>1, <2>3, IdleFrugal, ChargesNobody, BudgetTurn
<1>3. ASSUME NEW w \in Workers, NEW t \in Tenders, Begin(w, t) \/ InputsMissing(w, t),
             UNCHANGED scene
      PROVE  BudgetInv'
  BY <1>3, BudgetBegins
<1>4. CASE UNCHANGED <<spent, job, scene>>
  BY <1>4 DEF BudgetInv, Affordable, Charging, Frugal, Charged, MostCost
<1> QED BY <1>1, <1>2, <1>3, <1>4 DEF Next, vars, EditProfile, AssignRole, Retriage

\* The processes that generate at the same time exceed the monthly budget by less
\* than one generation each, and no generation pays for more than two calls a
\* segment and four for extraction and verdict, however its calls fail, are
\* corrected, repeated or crash (_within_budget, before the first call only).
THEOREM OverspendIsBounded == Spec => []OverspendBounded
<1>1. Init => BudgetInv
  <2> SUFFICES ASSUME Init PROVE BudgetInv
    OBVIOUS
  <2>1. \A w \in Workers : job[w] = NoJob
    BY DEF Init
  <2>2. Charging = {} /\ \A w \in Workers : Frugal(job[w]) /\ job[w].stage = "idle"
    BY <2>1, IdleFrugal DEF Charging, Requests
  <2>3. Affordable
    <3> SUFFICES ASSUME scene.active # {}
                 PROVE  MostCost * 0 < Budget + MostCost * Cardinality(scene.active)
      <4>1. Cardinality(Charging) = 0 /\ spent = 0
        BY <2>2, FS_EmptySet DEF Init
      <4>2. MostCost * 0 = 0
        BY CostBounds
      <4> HIDE DEF Charging
      <4> QED BY <4>1, <4>2 DEF Affordable
    <3>1. TypeOK
      BY InitVerdict DEF VerdictInv
    <3>2. Cardinality(scene.active) \in Nat /\ Cardinality(scene.active) # 0
      BY <3>1, ActiveFinite, FS_EmptySet
    <3>3. MostCost * 1 <= MostCost * Cardinality(scene.active)
          /\ MostCost * Cardinality(scene.active) \in Nat
      BY <3>2, Monotone, CostBounds
    <3> QED BY <3>3, CostBounds
  <2> QED BY <2>2, <2>3 DEF BudgetInv
<1>2. VerdictInv /\ BudgetInv => OverspendBounded
  <2> SUFFICES ASSUME VerdictInv, BudgetInv PROVE OverspendBounded
    OBVIOUS
  <2>1. ASSUME NEW w \in Workers PROVE job[w].cost <= MostCost
    <3>1. job[w] \in Job /\ Frugal(job[w])
      BY DEF VerdictInv, Sound, BudgetInv
    <3> QED BY <3>1, JobParts, ChargedBounds, CostBounds DEF Frugal
  <2> QED BY <2>1 DEF OverspendBounded, BudgetInv, Affordable
<1> QED BY <1>1, <1>2, NextBudget, VerdictInvariant, PTL DEF Spec

-----------------------------------------------------------------------------
(* The rules an assessment follows *)

\* A set of natural numbers that is not empty has a least element, which Min returns.
LEMMA LeastExists ==
  ASSUME NEW T, T \subseteq Nat, T # {}
  PROVE  Min(T) \in T /\ \A m \in T : Min(T) <= m
<1> DEFINE below == OpToRel(<, Nat)
<1>1. PICK n \in T : \A m \in T : <<m, n>> \notin below
  <2>1. IsWellFoundedOn(below, Nat)
    BY NatLessThanWellFounded
  <2> HIDE DEF below
  <2> QED BY <2>1, WFMin
<1>2. ASSUME NEW m \in T PROVE n <= m
  <2>1. ~(m < n)
    BY <1>1, Zenon DEF OpToRel
  <2> QED BY <2>1
<1> QED BY <1>2 DEF Min

\* What can be read of a segment is a date of it that names its time zone.
LEMMA ExtractedDates ==
  ASSUME NEW segment \in Seq(Dates), segment # <<>>
  PROVE  \/ Extracted(segment) = Unresolved
         \/ \E d \in ToSet(segment) : d.zoned /\ Extracted(segment) = Resolved("document", d.at)
<1> DEFINE worded == {i \in 1..Len(segment) : ~segment[i].iso}
<1>1. CASE IsoDate(segment)
  <2>1. 1 \in DOMAIN segment
    OBVIOUS
  <2> QED BY <1>1, <2>1 DEF Extracted, IsoDate, ToSet
<1>2. CASE ~IsoDate(segment) /\ InWords(segment) # 0
  <2>1. InWords(segment) = Min(worded) /\ worded # {}
    BY <1>2 DEF InWords, SelectInSeq
  <2>2. InWords(segment) \in DOMAIN segment
    <3>1. worded \subseteq Nat
      OBVIOUS
    <3>2. worded \subseteq DOMAIN segment
      OBVIOUS
    <3> HIDE DEF worded
    <3> QED BY <2>1, <3>1, <3>2, LeastExists
  <2> QED BY <1>2, <2>2 DEF Extracted, ToSet
<1>3. CASE ~IsoDate(segment) /\ InWords(segment) = 0
  BY <1>3 DEF Extracted
<1> QED BY <1>1, <1>2, <1>3

\* What can be read of a document.
Said(text) == {d.at : d \in {e \in UNION {ToSet(s) : s \in ToSet(text)} : e.zoned}}
LEMMA TextDates ==
  ASSUME NEW text \in Seq(Seq(Dates))
  PROVE  \/ FromText(text) \in {Absent, Unresolved}
         \/ \E at \in Said(text) : FromText(text) = Resolved("document", at)
<1> DEFINE labelled == {i \in 1..Len(text) : text[i] # <<>>}
           n == IF labelled # {} THEN Min(labelled) ELSE 0
<1>1. FromText(text) = IF n = 0 THEN Absent ELSE Extracted(text[n])
  BY DEF FromText, SelectInSeq
<1>2. CASE labelled = {}
  BY <1>1, <1>2
<1>3. CASE labelled # {}
  <2>1. n \in labelled
    <3>1. labelled \subseteq Nat
      OBVIOUS
    <3> HIDE DEF labelled
    <3> QED BY <1>3, <3>1, LeastExists
  <2>2. n # 0 /\ n \in DOMAIN text /\ text[n] \in Seq(Dates) /\ text[n] # <<>>
    BY <2>1
  <2> HIDE DEF n
  <2>3. CASE Extracted(text[n]) = Unresolved
    BY <1>1, <2>2, <2>3
  <2>4. CASE \E d \in ToSet(text[n]) : d.zoned /\ Extracted(text[n]) = Resolved("document", d.at)
    <3>1. text[n] \in ToSet(text)
      BY <2>2 DEF ToSet
    <3>2. PICK d \in ToSet(text[n]) : d.zoned /\ Extracted(text[n]) = Resolved("document", d.at)
      BY <2>4
    <3>3. d.at \in Said(text)
      BY <3>1, <3>2 DEF Said
    <3> QED BY <1>1, <2>2, <3>2, <3>3
  <2> QED BY <2>2, <2>3, <2>4, ExtractedDates
<1> QED BY <1>2, <1>3

\* What can be read of the documents of a tender.
LEMMA DocumentDates ==
  ASSUME NEW docs \in Seq(Seq(Seq(Dates)))
  PROVE  \/ FromDocuments(docs) = Unresolved
         \/ \E doc \in ToSet(docs) : \E at \in Said(doc) :
              FromDocuments(docs) = Resolved("document", at)
<1> DEFINE dated == {i \in 1..Len(docs) : FromText(docs[i]).status = "RESOLVED"}
           n == IF dated # {} THEN Min(dated) ELSE 0
<1>1. FromDocuments(docs) = IF n = 0 THEN Unresolved ELSE FromText(docs[n])
  BY DEF FromDocuments, SelectInSeq
<1>2. CASE dated = {}
  BY <1>1, <1>2
<1>3. CASE dated # {}
  <2>1. n \in dated
    <3>1. dated \subseteq Nat
      OBVIOUS
    <3> HIDE DEF dated
    <3> QED BY <1>3, <3>1, LeastExists
  <2>2. n \in 1..Len(docs) /\ FromText(docs[n]).status = "RESOLVED"
    BY <2>1
  <2> HIDE DEF n
  <2>3. n # 0 /\ docs[n] \in ToSet(docs)
    <3>1. Len(docs) \in Nat /\ DOMAIN docs = 1..Len(docs)
      BY LenProperties
    <3> QED BY <2>2, <3>1 DEF ToSet
  <2>4. FromText(docs[n]) \notin {Absent, Unresolved}
    BY <2>2 DEF Absent, Unresolved
  <2>5. docs[n] \in Seq(Seq(Dates))
    BY <2>2, ElementOfSeq
  <2> QED BY <1>1, <2>3, <2>4, <2>5, TextDates
<1> QED BY <1>2, <1>3

\* The documents of a question have segments of dates.
LEMMA DocumentsType == Documents \subseteq Seq(Seq(Dates))
<1> DEFINE Parts == Seq(Dates)
<1>1. UpToOne \subseteq Parts
  <2>1. <<>> \in Parts /\ \A d \in Dates : <<d>> \in Parts
    OBVIOUS
  <2> HIDE DEF Parts
  <2> QED BY <2>1 DEF UpToOne
<1>2. Dates \X Dates \subseteq Parts
  <2>1. \A d, e \in Dates : <<d, e>> \in Parts
    OBVIOUS
  <2>2. \A x \in Dates \X Dates : x = <<x[1], x[2]>> /\ x[1] \in Dates /\ x[2] \in Dates
    OBVIOUS
  <2> HIDE DEF Parts
  <2> QED BY <2>1, <2>2
<1> HIDE DEF Parts
<1>3. \A s \in Parts : <<s>> \in Seq(Parts)
  OBVIOUS
<1>4. \A s, t \in Parts : <<s, t>> \in Seq(Parts)
  OBVIOUS
<1>5. \A x \in UpToOne \X UpToOne : x \in Seq(Parts)
  <2>1. \A x \in UpToOne \X UpToOne : x = <<x[1], x[2]>> /\ x[1] \in UpToOne /\ x[2] \in UpToOne
    OBVIOUS
  <2> QED BY <1>1, <1>4, <2>1
<1>6. Documents \subseteq Seq(Parts)
  BY <1>1, <1>2, <1>3, <1>5 DEF Documents
<1> QED BY <1>6 DEF Parts

\* What a listing page, a detail page and the documents resolve to.
LEMMA ResolvedDates ==
  ASSUME NEW listing \in Pages, NEW detail \in Pages \cup {Nil}, NEW document \in Documents
  PROVE  LET result == Resolve(listing, detail, <<document>>)
             pages == ({listing.at} \cup (IF detail = Nil THEN {} ELSE {detail.at})) \ {Nil}
         IN  \/ result \in {Conflicting, Unresolved}
             \/ \E source \in {"listing_page", "detail_page", "document"} :
                \E at \in pages \cup Said(document) :
                  /\ result = Resolved(source, at) /\ at \in Instants
                  /\ \A page \in pages : ~Apart(at, page)
<1> DEFINE a == FromListing(listing, "listing_page")
           b == IF detail = Nil THEN Absent ELSE FromListing(detail, "detail_page")
           pages == ({listing.at} \cup (IF detail = Nil THEN {} ELSE {detail.at})) \ {Nil}
           result == Resolve(listing, detail, <<document>>)
<1>0. Instants \subseteq Nat /\ Nil \notin Instants
  BY AssessmentConstants
<1>1. listing.at \in Instants \cup {Nil} /\ (detail # Nil => detail.at \in Instants \cup {Nil})
  BY DEF Pages
<1>2. /\ a.status = "RESOLVED" <=> listing.at # Nil
      /\ listing.at # Nil => a = Resolved("listing_page", listing.at)
  BY DEF FromListing, Resolved, Unresolved, Absent
<1>3. /\ b.status = "RESOLVED" <=> detail # Nil /\ detail.at # Nil
      /\ detail # Nil /\ detail.at # Nil => b = Resolved("detail_page", detail.at)
  BY DEF FromListing, Resolved, Unresolved, Absent
<1>4. result = IF a.status = "RESOLVED" /\ b.status = "RESOLVED" /\ Apart(a.at, b.at)
               THEN Conflicting
               ELSE IF a.status = "RESOLVED" THEN a ELSE IF b.status = "RESOLVED" THEN b
               ELSE FromDocuments(<<document>>)
  BY DEF Resolve
<1>5. \A x \in Instants : ~Apart(x, x)
  BY <1>0 DEF Apart, Tolerance
<1>6. \A s, t : Resolved(s, t).at = t
  BY DEF Resolved
<1> HIDE DEF a, b
<1>7. CASE listing.at # Nil
  <2>1. a = Resolved("listing_page", listing.at) /\ listing.at \in pages /\ listing.at \in Instants
    BY <1>0, <1>1, <1>2, <1>7
  <2>2. CASE detail = Nil \/ detail.at = Nil
    <3>1. pages = {listing.at} /\ result = a
      BY <1>2, <1>3, <1>4, <1>7, <2>2
    <3> QED BY <1>5, <2>1, <3>1
  <2>3. CASE detail # Nil /\ detail.at # Nil
    <3>1. pages = {listing.at, detail.at} /\ a.at = listing.at /\ b.at = detail.at
      BY <1>3, <1>6, <1>7, <2>1, <2>3
    <3>2. CASE Apart(a.at, b.at)
      BY <1>2, <1>3, <1>4, <1>7, <2>3, <3>2
    <3>3. CASE ~Apart(a.at, b.at)
      <4>1. result = a
        BY <1>2, <1>3, <1>4, <1>7, <2>3, <3>3
      <4> QED BY <1>5, <2>1, <3>1, <3>3, <4>1
    <3> QED BY <3>2, <3>3
  <2> QED BY <2>2, <2>3
<1>8. CASE listing.at = Nil /\ detail # Nil /\ detail.at # Nil
  <2>1. pages = {detail.at} /\ result = b /\ detail.at \in Instants
    BY <1>0, <1>1, <1>2, <1>3, <1>4, <1>8
  <2> QED BY <1>3, <1>5, <1>8, <2>1
<1>9. CASE listing.at = Nil /\ (detail = Nil \/ detail.at = Nil)
  <2>1. pages = {} /\ result = FromDocuments(<<document>>)
    BY <1>2, <1>3, <1>4, <1>9
  <2>2. document \in Seq(Seq(Dates)) /\ <<document>> \in Seq(Seq(Seq(Dates)))
    BY DocumentsType
  <2>3. ToSet(<<document>>) = {document}
    BY DEF ToSet
  <2>4. Said(document) \subseteq Instants
    <3>1. \A s \in ToSet(document) : s \in Seq(Dates)
      BY <2>2, ElementOfSeq DEF ToSet
    <3>2. \A s \in ToSet(document) : ToSet(s) \subseteq Dates
      BY <3>1, ElementOfSeq DEF ToSet
    <3>3. \A d \in Dates : d.at \in Instants
      BY DEF Dates
    <3> QED BY <3>2, <3>3 DEF Said
  <2>5. \/ result = Unresolved
        \/ \E at \in Said(document) : result = Resolved("document", at)
    BY <2>1, <2>2, <2>3, DocumentDates
  <2>6. CASE result = Unresolved
    BY <2>6
  <2>7. CASE \E at \in Said(document) : result = Resolved("document", at)
    <3>1. PICK at \in Said(document) : result = Resolved("document", at)
      BY <2>7
    <3> HIDE DEF result
    <3>2. /\ result = Resolved("document", at) /\ at \in Instants
          /\ \A page \in pages : ~Apart(at, page)
      BY <2>1, <2>4, <3>1
    <3> HIDE DEF pages
    <3>3. \E source \in {"listing_page", "detail_page", "document"} :
          \E at_ \in pages \cup Said(document) :
            /\ result = Resolved(source, at_) /\ at_ \in Instants
            /\ \A page \in pages : ~Apart(at_, page)
      BY <3>2
    <3> QED BY <3>3 DEF pages, result
  <2> QED BY <2>5, <2>6, <2>7
<1> QED BY <1>7, <1>8, <1>9

\* The question a behaviour is about never changes.
LEMMA Answers == Answering => []Asked
<1>1. Asked /\ [UNCHANGED given]_given => Asked'
  BY DEF Asked
<1> QED BY <1>1, PTL DEF Answering

\* The deadline of a tender is an instant one of its pages or documents states, with a
\* time zone, and which no page contradicts; the row and the context of a verdict say
\* nothing else (resolve, apply_deadline_resolution, _deadline_context).
THEOREM DeadlinesAreStated == Answering => []DeadlineNeverInvented
<1>1. Asked => DeadlineNeverInvented
  <2> SUFFICES ASSUME Asked, given.about = "deadline" PROVE DeadlineNeverInvented
    BY DEF DeadlineNeverInvented
  <2>1. PICK listing \in Pages, detail \in Pages \cup {Nil}, document \in Documents :
          given = [about |-> "deadline", listing |-> listing, detail |-> detail,
                   document |-> document]
    BY DEF Asked
  <2> DEFINE result == Resolve(listing, detail, <<document>>)
             context == Context(Stored(result))
             pages == ({listing.at} \cup (IF detail = Nil THEN {} ELSE {detail.at})) \ {Nil}
             zoned(segment) == {d.at : d \in {e \in ToSet(segment) : e.zoned}}
             stated == UNION {zoned(x) : x \in ToSet(document)}
  <2>2. Said(document) = stated
    BY DEF Said
  <2>3. /\ context.status = result.status
        /\ context.status = "RESOLVED" =>
             context.at \in pages \cup stated /\ \A at \in pages : ~Apart(context.at, at)
        /\ context.status # "RESOLVED" => context.at = Nil
    <3>1. CASE result \in {Conflicting, Unresolved}
      <4> HIDE DEF result
      <4>1. result.status # "RESOLVED" /\ context.status = result.status /\ context.at = Nil
        <5>1. result.status \in {"CONFLICTING", "UNRESOLVED"}
              /\ (result.status = "CONFLICTING" <=> result.source = "conflicting")
              /\ (result.status = "UNRESOLVED" <=> result.source = "unresolved")
          BY <3>1 DEF Conflicting, Unresolved
        <5>2. Stored(result) = [source |-> result.source, at |-> Nil]
          BY <5>1 DEF Stored
        <5>3. Stored(result).source = result.source /\ Stored(result).at = Nil
          BY <5>2
        <5>4. context.at = Nil
          BY <5>3 DEF Context
        <5>5. context.status = result.status
          BY <5>1, <5>3 DEF Context
        <5> QED BY <5>1, <5>4, <5>5
      <4> QED BY <4>1
    <3>2. CASE result \notin {Conflicting, Unresolved}
      <4>1. PICK source \in {"listing_page", "detail_page", "document"},
                 at \in pages \cup Said(document) :
              /\ result = Resolved(source, at) /\ at \in Instants
              /\ \A page \in pages : ~Apart(at, page)
        BY <3>2, ResolvedDates
      <4>2. at # Nil
        BY <4>1, AssessmentConstants
      <4>3. result.status = "RESOLVED" /\ result.at = at /\ result.source = source
        BY <4>1 DEF Resolved
      <4> HIDE DEF result
      <4>4. context = [status |-> "RESOLVED", at |-> at]
        BY <4>2, <4>3 DEF Context, Stored
      <4> QED BY <2>2, <4>1, <4>3, <4>4
    <3> QED BY <3>1, <3>2
  <2> HIDE DEF zoned, pages
  <2> QED BY <2>1, <2>3 DEF DeadlineNeverInvented, zoned, pages
<1> QED BY <1>1, Answers, PTL

\* A payload the engine accepts is grounded, whatever the model answered: every
\* requirement is judged with its evidence, nobody is told to apply without company
\* evidence for each requirement, or not to apply without company evidence on one.
LEMMA ValidIsGrounded ==
  ASSUME NEW payload, NEW chunks, NEW material, NEW headings, NEW context,
         NEW incomplete, NEW urgent,
         Valid(payload, chunks, material, headings, context, incomplete, urgent)
  PROVE  LET all == ToSet(payload.assessments) IN
         /\ \A m \in ToSet(material) : \E a \in all : a.name = m.name /\ m.refs \subseteq a.refs
         /\ payload.verdict = "APPLY" => payload.gaps = {} /\ \A a \in all : a.cites # {}
         /\ payload.verdict = "DO NOT APPLY" =>
              \E a \in all : a.status = "not_met" /\ a.cites # {} /\ a.refs # {}
<1> DEFINE given_ == payload.assessments
           all == ToSet(given_)
           statuses == {given_[i].status : i \in DOMAIN given_}
<1>1. /\ \A i \in DOMAIN given_ : AssessmentValid(given_[i], chunks, material, headings)
      /\ Covers(given_, material)
      /\ payload.verdict = Derived(given_, payload.gaps)
  BY DEF Valid
<1> HIDE DEF given_
<1>2. ASSUME NEW m \in ToSet(material)
      PROVE  \E a \in all : a.name = m.name /\ m.refs \subseteq a.refs
  <2>1. PICK i \in DOMAIN material : material[i] = m
    BY DEF ToSet
  <2>2. m.name \in Names_(given_)
    BY <1>1, <2>1 DEF Covers, Names_
  <2>3. PICK j \in DOMAIN given_ : given_[j].name = m.name
    BY <2>2 DEF Names_
  <2>4. m.refs \subseteq given_[j].refs /\ given_[j] \in all
    BY <1>1, <2>1, <2>3 DEF Covers, ToSet
  <2> QED BY <2>3, <2>4
<1>3. ASSUME NEW a \in all
      PROVE  /\ a.status \in statuses /\ a.refs # {}
             /\ a.status # "unverified" => a.cites # {}
  BY <1>1 DEF ToSet, AssessmentValid
<1>4. ASSUME payload.verdict = "APPLY"
      PROVE  payload.gaps = {} /\ \A a \in all : a.cites # {}
  <2>1. statuses \subseteq {"met"} /\ payload.gaps = {}
    BY <1>1, <1>4 DEF Derived
  <2> QED BY <1>3, <2>1
<1>5. ASSUME payload.verdict = "DO NOT APPLY"
      PROVE  \E a \in all : a.status = "not_met" /\ a.cites # {} /\ a.refs # {}
  <2>1. "not_met" \in statuses
    BY <1>1, <1>5 DEF Derived
  <2>2. PICK i \in DOMAIN given_ : given_[i].status = "not_met"
    BY <2>1
  <2>3. given_[i] \in all
    BY DEF ToSet
  <2> QED BY <1>3, <2>2, <2>3
<1> QED BY <1>2, <1>4, <1>5 DEF given_

\* A recorded verdict is grounded in the evidence of each requirement and of the
\* company (_apply_authoritative_overrides, _validate_semantics), for any wordings,
\* headings and evidence.
THEOREM VerdictsAreGrounded == Answering => []VerdictIsGrounded
<1>1. Asked => VerdictIsGrounded
  BY ValidIsGrounded DEF VerdictIsGrounded
<1> QED BY <1>1, Answers, PTL

\* An answer that repeats the evidence of the requirements and calls each of them
\* unverified is accepted, whatever chunks the request carried.
LEMMA FaithfulIsValid ==
  ASSUME NEW material \in Materials, NEW chunks, NEW noticeOnly \in BOOLEAN
  PROVE  LET faithful == [i \in DOMAIN material |->
                            [name |-> material[i].name, status |-> "unverified", cites |-> {},
                             refs |-> material[i].refs, gap |-> "none", words |-> "none"]]
         IN  Valid(Overridden(Draft(faithful, {}), material, Headings, NoDeadline, noticeOnly),
                   chunks, material, Headings, NoDeadline, FALSE, FALSE)
<1> DEFINE faithful == [i \in DOMAIN material |->
                          [name |-> material[i].name, status |-> "unverified", cites |-> {},
                           refs |-> material[i].refs, gap |-> "none", words |-> "none"]]
           answer == Draft(faithful, {})
           payload == Overridden(answer, material, Headings, NoDeadline, noticeOnly)
           repaired == [i \in DOMAIN material |->
                          [name |-> material[i].name, status |-> "unverified", cites |-> {},
                           refs |-> material[i].refs, gap |-> NoEvidence, words |-> NoEvidence]]
<1>1. /\ DOMAIN material # {} /\ material # <<>>
      /\ \A i \in DOMAIN material : material[i].refs # {}
      /\ \A i, j \in DOMAIN material : i # j => material[i].name # material[j].name
  <2>1. PICK n \in 1..2 :
          material \in [1..n -> [name : Names, refs : {{Reference(q)} : q \in Quotes}]]
    BY DEF Materials
  <2>2. SourcesValid(material, Chunks)
    BY DEF Materials
  <2>3. 1 \in DOMAIN material
    BY <2>1
  <2>4. ASSUME NEW i \in DOMAIN material PROVE material[i].refs # {}
    <3>1. material[i] \in [name : Names, refs : {{Reference(q)} : q \in Quotes}]
      BY <2>1
    <3> QED BY <3>1
  <2> QED BY <2>2, <2>3, <2>4 DEF SourcesValid
<1>2. DOMAIN answer.assessments = DOMAIN material
  BY DEF Draft
<1>3. ASSUME NEW i \in DOMAIN material
      PROVE  Repaired(answer, material, Headings, i) = repaired[i]
  <2>1. answer.assessments[i] =
          [name |-> material[i].name, status |-> "unverified", cites |-> {},
           refs |-> material[i].refs, gap |-> "none", words |-> "none"]
    BY DEF Draft
  <2>2. material[i].name \in Names_(material)
    BY DEF Names_
  <2> HIDE DEF answer
  <2>3. Bound(answer, material, i) = material[i].name
    BY <2>1, <2>2 DEF Bound
  <2>4. Status("unverified") = "unverified"
    BY DEF Status, Synonyms
  <2> DEFINE a == answer.assessments[i]
  <2>5. a.cites \cap Headings = {} /\ a.status = "unverified" /\ a.gap \in Boilerplate
        /\ a.words \in Boilerplate
    BY <2>1 DEF Boilerplate
  <2>6. Repaired(answer, material, Headings, i)
          = [a EXCEPT !.name = material[i].name, !.cites = {}, !.status = "unverified",
                      !.gap = NoEvidence, !.words = NoEvidence]
    <3> HIDE DEF a
    <3>1. Repaired(answer, material, Headings, i)
            = [a EXCEPT !.name = Bound(answer, material, i), !.cites = a.cites \cap Headings,
                 !.status = IF a.cites \cap Headings = {} /\ Status(a.status) = "met"
                            THEN "unverified" ELSE Status(a.status),
                 !.gap = IF a.gap \in Boilerplate THEN NoEvidence ELSE a.gap,
                 !.words = IF a.words \in Boilerplate THEN NoEvidence ELSE a.words]
      BY DEF Repaired, a
    <3> QED BY <2>3, <2>4, <2>5, <3>1
  <2>7. repaired[i] = [name |-> material[i].name, status |-> "unverified", cites |-> {},
                       refs |-> material[i].refs, gap |-> NoEvidence, words |-> NoEvidence]
    OBVIOUS
  <2>8. a = [name |-> material[i].name, status |-> "unverified", cites |-> {},
             refs |-> material[i].refs, gap |-> "none", words |-> "none"]
    BY <2>1
  <2> HIDE DEF repaired, a
  <2> QED BY <2>6, <2>7, <2>8
<1>4. [i \in DOMAIN answer.assessments |-> Repaired(answer, material, Headings, i)] = repaired
  BY <1>2, <1>3
<1>5. /\ answer.gaps = {} /\ answer.incomplete = FALSE /\ answer.urgent = FALSE
      /\ Discounted(answer, noticeOnly).incomplete = FALSE
      /\ Discounted(answer, noticeOnly).urgent = FALSE
  BY DEF Draft, Discounted
<1> HIDE DEF answer, repaired
<1>6. /\ payload.assessments = repaired /\ payload.listed = Names_(material)
      /\ payload.deadline = NoDeadline /\ payload.verdict = Derived(repaired, payload.gaps)
      /\ payload.incomplete = FALSE /\ payload.urgent = FALSE
  BY <1>4, <1>5 DEF Overridden
<1> HIDE DEF payload
<1>7. DOMAIN repaired = DOMAIN material
  BY DEF repaired
<1>8. ASSUME NEW i \in DOMAIN material
      PROVE  AssessmentValid(repaired[i], chunks, material, Headings)
  <2>1. /\ repaired[i].status = "unverified" /\ repaired[i].cites = {}
        /\ repaired[i].refs = material[i].refs
        /\ repaired[i].gap = NoEvidence /\ repaired[i].words = NoEvidence
    BY DEF repaired
  <2>2. \A ref \in repaired[i].refs : Traceable(ref, chunks, material)
    BY <2>1 DEF Traceable
  <2> QED BY <1>1, <2>1, <2>2 DEF AssessmentValid, NoEvidence
<1>9. Covers(repaired, material)
  <2>1. \A i \in DOMAIN material : repaired[i].name = material[i].name
                                 /\ repaired[i].refs = material[i].refs
    BY DEF repaired
  <2>2. Names_(repaired) = Names_(material)
    BY <1>7, <2>1 DEF Names_
  <2>3. \A i, j \in DOMAIN material :
          repaired[j].name = material[i].name => material[i].refs \subseteq repaired[j].refs
    BY <1>1, <2>1
  <2> QED BY <1>1, <1>7, <2>1, <2>2, <2>3 DEF Covers
<1>10. repaired # <<>>
  BY <1>1, <1>7
<1>11. Valid(payload, chunks, material, Headings, NoDeadline, FALSE, FALSE)
  BY <1>6, <1>7, <1>8, <1>9, <1>10 DEF Valid, NoDeadline
<1> QED BY <1>11 DEF payload, answer

\* A faithful verdict is accepted whatever part of the documents a reduction kept
\* (_reduce_documents_for_budget against _validate_semantics).
THEOREM FaithfulVerdictsAreAccepted == Answering => []EstablishedEvidenceIsAccepted
<1>1. Asked => EstablishedEvidenceIsAccepted
  <2> SUFFICES ASSUME Asked, given.about = "reduction" PROVE EstablishedEvidenceIsAccepted
    BY DEF EstablishedEvidenceIsAccepted
  <2>1. given.material \in Materials /\ given.noticeOnly \in BOOLEAN
    BY DEF Asked
  <2> QED BY <2>1, FaithfulIsValid DEF EstablishedEvidenceIsAccepted
<1> QED BY <1>1, Answers, PTL

\* A set of natural numbers that is bounded has a greatest element, which Max returns.
LEMMA GreatestExists ==
  ASSUME NEW T, T \subseteq Nat, T # {}, NEW b \in Nat, \A n \in T : n <= b
  PROVE  Max(T) \in T /\ \A m \in T : m <= Max(T)
<1> DEFINE Gaps == {b - n : n \in T}
<1>1. Gaps \subseteq Nat /\ Gaps # {}
  <2>1. \A n \in T : n \in Nat /\ n <= b
    OBVIOUS
  <2>2. \A n \in T : b - n \in Nat
    BY <2>1
  <2> QED BY <2>1, <2>2
<1>2. Min(Gaps) \in Gaps /\ \A h \in Gaps : Min(Gaps) <= h
  <2> HIDE DEF Gaps
  <2> QED BY <1>1, LeastExists
<1>3. PICK n \in T : Min(Gaps) = b - n
  BY <1>2
<1>4. ASSUME NEW m \in T PROVE m <= n
  <2>1. Min(Gaps) <= b - m
    BY <1>2
  <2>2. n \in Nat /\ m \in Nat /\ b - n <= b - m
    BY <1>3, <2>1
  <2> QED BY <2>2
<1> QED BY <1>4 DEF Max

\* A piece is not empty, not longer than allowed, and ends at the end of the document,
\* at the limit or after a separator.
Piece(start, end, length, most, breaks) ==
  /\ start < end /\ end <= length /\ end - start <= most
  /\ end = length \/ end - start = most \/ end - 1 \in breaks
LEMMA PieceEnds ==
  ASSUME NEW length \in Nat, NEW most \in Nat \ {0}, NEW breaks \in SUBSET Nat,
         NEW start \in Nat, start < length
  PROVE  /\ PieceEnd(start, length, most, breaks) \in Nat
         /\ Piece(start, PieceEnd(start, length, most, breaks), length, most, breaks)
<1> DEFINE end == IF start + most < length THEN start + most ELSE length
           near == {b \in breaks : start + most \div 2 <= b /\ b < end /\ b > start}
<1>1. PieceEnd(start, length, most, breaks)
        = IF end < length /\ near # {} THEN Max(near) + 1 ELSE end
  BY DEF PieceEnd
<1>2. /\ end \in Nat /\ start < end /\ end <= length /\ end - start <= most
      /\ end = length \/ end - start = most
  OBVIOUS
<1>3. \A b \in near : b \in Nat /\ b > start /\ b < end /\ b \in breaks
  OBVIOUS
<1> HIDE DEF end
<1>4. CASE near = {} \/ ~(end < length)
  BY <1>1, <1>2, <1>4 DEF Piece
<1>5. CASE near # {} /\ end < length
  <2> HIDE DEF near
  <2>1. Max(near) \in near
    <3>1. near \subseteq Nat /\ \A b \in near : b <= end
      BY <1>2, <1>3
    <3> QED BY <1>2, <1>5, <3>1, GreatestExists
  <2>2. /\ Max(near) \in Nat /\ Max(near) > start /\ Max(near) < end
        /\ Max(near) \in breaks
    BY <1>3, <2>1
  <2> QED BY <1>1, <1>2, <1>5, <2>2 DEF Piece
<1> QED BY <1>4, <1>5

\* Pieces returns a set that holds the end of the document, and every end in it is
\* that of a piece which starts where the one before it ends.
LEMMA PiecesFollow ==
  ASSUME NEW length \in Nat \ {0}, NEW most \in Nat \ {0}, NEW breaks \in SUBSET Nat
  PROVE  LET ends == Pieces(length, most, breaks) IN
         /\ length \in ends /\ ends \subseteq Nat
         /\ \A end \in ends : \E start \in ends \cup {0} :
              /\ Piece(start, end, length, most, breaks)
              /\ \A e \in ends \cup {0} : e < end => e <= start
<1> DEFINE Ends(s) == PieceEnd(s, length, most, breaks)
           Link(g, s) == IF s = length THEN {}
                         ELSE {Ends(s)} \cup IF Ends(s) > s THEN g[Ends(s)] ELSE {}
           from == CHOOSE g : g = [s \in 0..length |-> Link(g, s)]
<1>1. ASSUME NEW s \in 0..length, s # length
      PROVE  Ends(s) \in Nat /\ Ends(s) \in (s + 1)..length
             /\ Piece(s, Ends(s), length, most, breaks)
  <2>1. s \in Nat /\ s < length
    BY <1>1
  <2>2. Ends(s) \in Nat /\ Piece(s, Ends(s), length, most, breaks)
    BY <2>1, PieceEnds
  <2> HIDE DEF Ends
  <2> QED BY <2>1, <2>2 DEF Piece
<1> HIDE DEF Ends
<1>2. \E g : g = [s \in 0..length |-> Link(g, s)]
  <2> DEFINE Bad == {k \in 0..length :
                      ~\E g : g = [s \in (length - k)..length |-> Link(g, s)]}
  <2>1. CASE Bad = {}
    <3>1. length \in 0..length /\ (length - length)..length = 0..length
      OBVIOUS
    <3> HIDE DEF Link
    <3>2. PICK g : g = [s \in (length - length)..length |-> Link(g, s)]
      BY <2>1, <3>1, Zenon
    <3>3. g = [s \in 0..length |-> Link(g, s)]
      BY <3>1, <3>2, Zenon
    <3> QED BY <3>3
  <2>2. CASE Bad # {}
    <3>1. PICK k \in Bad : \A m \in Bad : k <= m
      <4>1. Bad \subseteq Nat
        OBVIOUS
      <4> HIDE DEF Bad
      <4> QED BY <2>2, <4>1, LeastExists
    <3> DEFINE low == length - k
    <3>2. k \in 0..length /\ low \in 0..length
      OBVIOUS
    <3>3. ASSUME NEW g, NEW h, h = [s \in low..length |-> IF s = low THEN Link(g, low) ELSE g[s]],
                 \A s \in (low + 1)..length : g[s] = Link(g, s)
          PROVE  FALSE
      <4>1. ASSUME NEW s \in low..length PROVE h[s] = Link(h, s)
        <5>1. h[s] = Link(g, s)
          <6>1. s = low \/ s \in (low + 1)..length
            BY <3>2
          <6>2. h[s] = IF s = low THEN Link(g, low) ELSE g[s]
            BY <3>3
          <6> HIDE DEF Link, low
          <6> QED BY <3>3, <6>1, <6>2
        <5>2. s # length => Ends(s) \in (s + 1)..length
          BY <1>1, <3>2
        <5>3. s # length => h[Ends(s)] = g[Ends(s)]
          BY <3>2, <3>3, <5>2
        <5> QED BY <5>1, <5>3
      <4>2. h = [s \in low..length |-> Link(h, s)]
        <5> HIDE DEF Link
        <5> QED BY <3>3, <4>1
      <4> HIDE DEF Link
      <4> QED BY <4>2
    <3>4. CASE k = 0
      <4> DEFINE g == [s \in {} |-> {}]
                 h == [s \in low..length |-> IF s = low THEN Link(g, low) ELSE g[s]]
      <4>1. \A s \in (low + 1)..length : g[s] = Link(g, s)
        BY <3>4
      <4> HIDE DEF g, Link
      <4> QED BY <3>3, <4>1
    <3>5. CASE k # 0
      <4>1. k - 1 \in 0..length /\ k - 1 \notin Bad /\ length - (k - 1) = low + 1
        <5> HIDE DEF Bad
        <5> QED BY <3>1, <3>2, <3>5
      <4> HIDE DEF low, Link
      <4>2. PICK g : g = [s \in (length - (k - 1))..length |-> Link(g, s)]
        BY <4>1, Zenon
      <4>3. g = [s \in (low + 1)..length |-> Link(g, s)]
        BY <4>1, <4>2, Zenon
      <4>4. \A s \in (low + 1)..length : g[s] = Link(g, s)
        BY <4>3, Zenon
      <4> DEFINE h == [s \in low..length |-> IF s = low THEN Link(g, low) ELSE g[s]]
      <4> QED BY <3>3, <4>4
    <3> QED BY <3>4, <3>5
  <2> QED BY <2>1, <2>2
<1>3. from = [s \in 0..length |-> Link(from, s)]
  <2> HIDE DEF Link
  <2> QED BY <1>2
<1>4. Pieces(length, most, breaks) = from[0]
  BY DEF Pieces, Ends
<1> HIDE DEF from
<1> DEFINE Chain(s) == /\ s # length => length \in from[s]
                       /\ from[s] \subseteq (s + 1)..length
                       /\ \A end \in from[s] : \E start \in from[s] \cup {s} :
                            /\ Piece(start, end, length, most, breaks)
                            /\ \A e \in from[s] \cup {s} : e < end => e <= start
<1>5. ASSUME NEW s \in 0..length, \A t \in 0..length : t > s => Chain(t)
      PROVE  Chain(s)
  <2>1. CASE s = length
    <3>1. from[s] = {}
      BY <1>3, <2>1
    <3> QED BY <2>1, <3>1
  <2>2. CASE s # length
    <3> DEFINE t == Ends(s)
    <3>1. t \in (s + 1)..length /\ t \in 0..length /\ t > s
          /\ Piece(s, t, length, most, breaks)
      BY <1>1, <2>2
    <3> HIDE DEF t
    <3>2. from[s] = {t} \cup from[t]
      BY <1>3, <2>2, <3>1 DEF t
    <3>3. Chain(t)
      BY <1>5, <3>1
    <3>4. length \in from[s]
      BY <3>1, <3>2, <3>3
    <3>5. from[s] \subseteq (s + 1)..length
      BY <3>1, <3>2, <3>3
    <3>6. ASSUME NEW end \in from[s]
          PROVE  \E start \in from[s] \cup {s} :
                   /\ Piece(start, end, length, most, breaks)
                   /\ \A e \in from[s] \cup {s} : e < end => e <= start
      <4>1. CASE end = t
        <5>1. \A e \in from[s] \cup {s} : e < end => e <= s
          BY <3>1, <3>2, <3>3, <4>1
        <5> QED BY <3>1, <4>1, <5>1
      <4>2. CASE end # t
        <5>1. PICK start \in from[t] \cup {t} :
                /\ Piece(start, end, length, most, breaks)
                /\ \A e \in from[t] \cup {t} : e < end => e <= start
          BY <3>2, <3>3, <4>2
        <5>2. start \in Nat /\ start >= t
          BY <3>1, <3>3, <5>1
        <5>3. \A e \in from[s] \cup {s} : e < end => e <= start
          BY <3>1, <3>2, <5>1, <5>2
        <5> QED BY <3>2, <5>1, <5>3
      <4> QED BY <4>1, <4>2
    <3> QED BY <3>4, <3>5, <3>6
  <2> QED BY <2>1, <2>2
<1> HIDE DEF Chain
<1>6. Chain(0)
  <2> DEFINE Bad == {s \in 0..length : ~Chain(s)}
  <2>1. ASSUME Bad # {} PROVE FALSE
    <3>1. Bad \subseteq Nat /\ \A s \in Bad : s <= length
      OBVIOUS
    <3> DEFINE s == Max(Bad)
    <3>2. s \in Bad /\ \A t \in Bad : t <= s
      <4> HIDE DEF Bad
      <4> QED BY <2>1, <3>1, GreatestExists
    <3> HIDE DEF s
    <3>3. s \in 0..length /\ ~Chain(s) /\ \A t \in 0..length : t > s => Chain(t)
      BY <3>2
    <3> QED BY <1>5, <3>3
  <2>2. 0 \in 0..length
    OBVIOUS
  <2> QED BY <2>1, <2>2
<1> DEFINE ends == Pieces(length, most, breaks)
<1>7. ends \subseteq Nat /\ length \in ends
  BY <1>4, <1>6 DEF Chain
<1> QED BY <1>4, <1>6, <1>7 DEF Chain

\* The pieces a document is mapped in are the document, for any length, limit and
\* separators (_split_document_content).
THEOREM DocumentsAreMappedWhole == Answering => []PiecesAreTheDocument
<1>1. Asked => PiecesAreTheDocument
  <2> SUFFICES ASSUME Asked, given.about = "pieces" PROVE PiecesAreTheDocument
    BY DEF PiecesAreTheDocument
  <2> DEFINE length == given.length
             most == given.most
             breaks == given.breaks
             ends == Pieces(length, most, breaks)
             before(end) == {e \in ends \cup {0} : e < end}
  <2>1. length \in Nat \ {0} /\ most \in Nat \ {0} /\ breaks \in SUBSET Nat
    <3>1. PICK l \in 1..5, m \in 1..4, b \in SUBSET (0..4) :
            given = [about |-> "pieces", length |-> l, most |-> m, breaks |-> b]
      BY SMTT(60) DEF Asked
    <3>2. given.length = l /\ given.most = m /\ given.breaks = b
      BY <3>1
    <3> QED BY <3>2
  <2> HIDE DEF length, most, breaks
  <2>2. /\ length \in ends /\ ends \subseteq Nat
        /\ \A end \in ends : \E start \in ends \cup {0} :
             /\ Piece(start, end, length, most, breaks)
             /\ \A e \in ends \cup {0} : e < end => e <= start
    BY <2>1, PiecesFollow
  <2> HIDE DEF ends
  <2>3. ASSUME NEW end \in ends
        PROVE  LET start == Max(before(end)) IN
               /\ end - start <= most
               /\ end = length \/ end - start = most \/ end - 1 \in breaks
    <3>1. PICK start \in ends \cup {0} :
            /\ Piece(start, end, length, most, breaks)
            /\ \A e \in ends \cup {0} : e < end => e <= start
      BY <2>2
    <3>2. start \in before(end) /\ before(end) \subseteq Nat /\ start \in Nat
          /\ \A e \in before(end) : e <= start
      <4>1. start < end
        BY <3>1 DEF Piece
      <4>2. \A e \in before(end) : e \in ends \cup {0} /\ e < end
        OBVIOUS
      <4>3. start \in before(end)
        BY <4>1
      <4> HIDE DEF before
      <4>4. before(end) \subseteq Nat /\ start \in Nat
        <5>1. \A e \in ends \cup {0} : e \in Nat
          BY <2>2
        <5>2. start \in ends \cup {0}
          BY <3>1
        <5> QED BY <4>2, <5>1, <5>2
      <4>5. \A e \in before(end) : e <= start
        BY <3>1, <4>2
      <4> QED BY <4>3, <4>4, <4>5
    <3> HIDE DEF before
    <3>3. Max(before(end)) = start
      <4>1. Max(before(end)) \in before(end) /\ \A e \in before(end) : e <= Max(before(end))
        BY <3>2, GreatestExists
      <4>2. Max(before(end)) <= start /\ start <= Max(before(end)) /\ Max(before(end)) \in Nat
        BY <3>2, <4>1
      <4> QED BY <3>2, <4>2
    <3> QED BY <3>1, <3>3 DEF Piece
  <2> QED BY <2>2, <2>3 DEF PiecesAreTheDocument, ends, length, most, breaks
<1> QED BY <1>1, Answers, PTL
=============================================================================
