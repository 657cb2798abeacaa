--------------------------- MODULE Intake_proofs ---------------------------
(* What holds of a tender's documents for every number of processes, every   *)
(* tree of archives and every combination of adverse events.                 *)
EXTENDS Intake, SequenceTheorems, WellFoundedInduction, TLAPS

-----------------------------------------------------------------------------
(* The operators of the model *)

\* A set of natural numbers that is not empty has a least element.
LEMMA LeastExists ==
  ASSUME NEW T, T \subseteq Nat, T # {}
  PROVE  \E n \in T : \A m \in T : n <= m
<1> DEFINE below == OpToRel(<, Nat)
<1>1. PICK n \in T : \A m \in T : <<m, n>> \notin below
  <2>1. IsWellFoundedOn(below, Nat)
    BY NatLessThanWellFounded
  <2> HIDE DEF below
  <2> QED BY <2>1, WFMin
<1>2. ASSUME NEW m \in T PROVE n <= m
  <2>1. ~(m < n)
    BY <1>1, Zenon DEF OpToRel
  <2> QED BY <2>1
<1> QED BY <1>2

\* One that is bounded has a greatest element.
LEMMA GreatestExists ==
  ASSUME NEW T, T \subseteq Nat, T # {}, NEW b \in Nat, \A n \in T : n <= b
  PROVE  \E n \in T : \A m \in T : m <= n
<1> DEFINE Gaps == {b - n : n \in T}
<1>1. Gaps \subseteq Nat /\ Gaps # {}
  <2>1. \A n \in T : n \in Nat /\ n <= b
    OBVIOUS
  <2>2. \A n \in T : b - n \in Nat
    BY <2>1
  <2> QED BY <2>2
<1>2. PICK g \in Gaps : \A h \in Gaps : g <= h
  <2> HIDE DEF Gaps
  <2> QED BY <1>1, LeastExists
<1>3. PICK n \in T : g = b - n
  OBVIOUS
<1>4. ASSUME NEW m \in T PROVE m <= n
  <2>1. g <= b - m
    BY <1>2
  <2> QED BY <1>3, <2>1
<1> QED BY <1>4

\* FindRow returns the position of a row of the item, or 0 when there is none.
LEMMA FindRowType ==
  ASSUME NEW table \in Seq(Row), NEW i
  PROVE  /\ FindRow(table, i) \in 0..Len(table)
         /\ FindRow(table, i) # 0 => table[FindRow(table, i)].item = i
         /\ FindRow(table, i) = 0 => \A n \in DOMAIN table : table[n].item # i
<1> DEFINE ids == {n \in DOMAIN table : table[n].item = i}
<1>1. CASE ids = {}
  BY <1>1 DEF FindRow
<1>2. CASE ids # {}
  <2>1. /\ ids \subseteq Nat /\ Len(table) \in Nat
        /\ \A n \in ids : n <= Len(table)
    OBVIOUS
  <2>2. \E n \in ids : \A m \in ids : m <= n
    <3> HIDE DEF ids
    <3> QED BY <1>2, <2>1, GreatestExists
  <2>3. FindRow(table, i) \in ids
    BY <1>2, <2>2 DEF FindRow
  <2> QED BY <2>3
<1> QED BY <1>1, <1>2

\* The entries of an archive are members of it.
LEMMA EntriesType ==
  ASSUME NEW ms \in Seq(Member)
  PROVE  Entries(ms) \in Seq(Member)
<1> DEFINE N == Len(ms)
           Upto(g, n) == IF n = 0 THEN <<>>
                          ELSE IF Kept(ms[n]) THEN Append(g[n - 1], ms[n])
                          ELSE g[n - 1]
           upto == CHOOSE g : g = [n \in 0..N |-> Upto(g, n)]
<1>1. N \in Nat /\ \A n \in 1..N : ms[n] \in Member
  OBVIOUS
<1>2. \E g : g = [n \in 0..N |-> Upto(g, n)]
  <2> DEFINE Bad == {k \in 0..N : ~\E g : /\ g = [n \in 0..k |-> Upto(g, n)]
                                         /\ \A n \in 0..k : g[n] \in Seq(Member)}
  <2>1. CASE Bad = {}
    <3>1. N \in 0..N
      BY <1>1
    <3> HIDE DEF Upto
    <3>2. PICK g : g = [n \in 0..N |-> Upto(g, n)]
      BY <2>1, <3>1, Zenon
    <3> QED BY <3>2
  <2>2. CASE Bad # {}
    <3>1. PICK k \in Bad : \A m \in Bad : k <= m
      <4>1. Bad \subseteq Nat
        BY <1>1
      <4> HIDE DEF Bad
      <4> QED BY <2>2, <4>1, LeastExists
    <3>2. CASE k = 0
      <4> DEFINE g == [n \in 0..0 |-> <<>>]
      <4>1. g = [n \in 0..0 |-> Upto(g, n)] /\ \A n \in 0..0 : g[n] \in Seq(Member)
        OBVIOUS
      <4> QED BY <3>2, <4>1
    <3>3. CASE k # 0
      <4>0. k \in Nat \ {0} /\ k \in 0..N
        BY <1>1, <3>3
      <4>1. k - 1 \in 0..N /\ k - 1 \notin Bad
        <5> HIDE DEF Bad
        <5> QED BY <1>1, <3>1, <3>3, <4>0
      <4>2. PICK g : /\ g = [n \in 0..(k - 1) |-> Upto(g, n)]
                     /\ \A n \in 0..(k - 1) : g[n] \in Seq(Member)
        BY <4>1
      <4> DEFINE h == [n \in 0..k |-> IF n = k THEN Upto(g, k) ELSE g[n]]
      <4>3. \A n \in 0..k : h[n] = Upto(h, n)
        <5>1. ASSUME NEW n \in 0..(k - 1) PROVE h[n] = Upto(h, n)
          <6>1. h[n] = g[n] /\ g[n] = Upto(g, n)
            <7>1. h[n] = g[n]
              BY <4>0
            <7>2. g = [m \in 0..(k - 1) |-> Upto(g, m)]
              BY <4>2
            <7> HIDE DEF Upto
            <7>3. g[n] = Upto(g, n)
              BY <7>2, Zenon
            <7> QED BY <7>1, <7>3
          <6>2. n # 0 => h[n - 1] = g[n - 1]
            BY <4>0
          <6> HIDE DEF h
          <6> QED BY <6>1, <6>2
        <5>2. h[k] = Upto(h, k)
          <6>1. h[k] = Upto(g, k) /\ h[k - 1] = g[k - 1]
            BY <4>0, <3>3
          <6> HIDE DEF h
          <6> QED BY <6>1, <3>3
        <5>3. \A n \in 0..k : n = k \/ n \in 0..(k - 1)
          BY <4>0
        <5> HIDE DEF h, Upto
        <5> QED BY <5>1, <5>2, <5>3, Zenon
      <4>4. \A n \in 0..k : h[n] \in Seq(Member)
        BY <1>1, <4>0, <4>2, <3>3
      <4>5. h = [n \in 0..k |-> Upto(h, n)]
        BY <4>3
      <4> QED BY <4>4, <4>5
    <3> QED BY <3>2, <3>3
  <2> QED BY <2>1, <2>2
<1>3. upto = [n \in 0..N |-> Upto(upto, n)]
  BY <1>2
<1>4. \A n \in 0..N : upto[n] \in Seq(Member)
  <2> DEFINE Bad == {n \in 0..N : upto[n] \notin Seq(Member)}
  <2> HIDE DEF upto
  <2>1. ASSUME Bad # {} PROVE FALSE
    <3>1. PICK k \in Bad : \A m \in Bad : k <= m
      <4>1. Bad \subseteq Nat
        BY <1>1
      <4> HIDE DEF Bad
      <4> QED BY <2>1, <4>1, LeastExists
    <3>2. k \in 0..N /\ upto[k] \notin Seq(Member)
      OBVIOUS
    <3>3. k # 0 => upto[k - 1] \in Seq(Member)
      <4>1. k # 0 => k - 1 \in 0..N /\ k - 1 \notin Bad
        <5> HIDE DEF Bad
        <5> QED BY <1>1, <3>1, <3>2
      <4> QED BY <4>1
    <3>4. upto[k] = Upto(upto, k)
      BY <1>3, <3>2
    <3> QED BY <1>1, <3>2, <3>3, <3>4
  <2> QED BY <2>1
<1>5. Entries(ms) = upto[N]
  BY DEF Entries
<1> QED BY <1>1, <1>4, <1>5

-----------------------------------------------------------------------------
(* What the steps of a pass change *)

Acquiring == {"acquire", "fetch", "put", "commit", "mark"}
Reading == {"extract", "persist", "bundle"}

HasRow(table, i) == \E n \in DOMAIN table : table[n].item = i
HasBytes(table, i) ==
  \E n \in DOMAIN table : table[n].item = i /\ table[n].content = Content[i]

\* A table after a step: no row is taken away, moved to another item or emptied.
Grown(table, after) ==
  /\ Len(table) <= Len(after)
  /\ \A n \in DOMAIN table : /\ after[n].item = table[n].item
                            /\ table[n].content \in {NoContent, after[n].content}

\* A pass after a step of the acquisition, which leaves the table.
Advance(j, k, table) ==
  /\ k \in Job /\ k.stage \in Acquiring
  /\ k.snapshot = j.snapshot /\ k.outcomes = j.outcomes /\ k.alone = j.alone
  /\ k.stage # "acquire" => k.todo = j.todo
  /\ k.found \in 0..Len(table)
  /\ k.stage \in {"commit", "mark"} /\ k.found # 0 => table[k.found].item = Head(j.todo)
  /\ \A i \in k.docs : i \in j.docs \/ HasBytes(table, i)
  /\ j.blind => k.blind
  /\ j.stage = "mark" => k.blind \/ HasRow(table, Head(j.todo))
  /\ \A f \in k.failures : \/ f \in j.failures \/ f.rejected
                           \/ k.stage = "mark" /\ f.item = Head(j.todo)

\* Only process p goes on.
Moves(p) == \A q \in Processes : q # p => job'[q] = job[q]

LEMMA MaxAttempts == 1 \in 1..Attempts
BY IntakeConstants

LEMMA NoJobType == NoJob \in Job
BY MaxAttempts DEF NoJob, Job, Stages

LEMMA GoesMoves ==
  ASSUME job \in [Processes -> Job], NEW p \in Processes, NEW k \in Job, Goes(p, k)
  PROVE  /\ job' \in [Processes -> Job] /\ job'[p] = k /\ Moves(p)
BY DEF Goes, Moves

LEMMA FailedAdvances ==
  ASSUME NEW j \in Job, j.todo # <<>>, j.stage # "mark", NEW retryable \in BOOLEAN,
         NEW table \in Seq(Row)
  PROVE  Advance(j, Failed(j, Head(j.todo), retryable, table), table)
<1> DEFINE i == Head(j.todo)
           n == FindRow(table, i)
           f == [item |-> i, retryable |-> retryable, rejected |-> FALSE]
           k == [j EXCEPT !.stage = "mark", !.found = n, !.failures = @ \cup {f}]
<1>1. Failed(j, i, retryable, table) = k
  BY DEF Failed
<1>2. i \in Items
  BY HeadTailProperties DEF Job
<1>3. n \in 0..Len(table) /\ n \in Nat /\ (n # 0 => table[n].item = i)
  <2>1. n \in 0..Len(table) /\ (n # 0 => table[n].item = i)
    BY FindRowType
  <2> QED BY <2>1
<1>4. f \in Failure /\ f.item = i
  BY <1>2 DEF Failure
<1> HIDE DEF i, n, f
<1>5. /\ k \in Job /\ k.stage = "mark" /\ k.found = n /\ k.failures = j.failures \cup {f}
      /\ k.todo = j.todo /\ k.snapshot = j.snapshot /\ k.outcomes = j.outcomes
      /\ k.alone = j.alone /\ k.docs = j.docs /\ k.blind = j.blind
  BY <1>3, <1>4 DEF Job, Stages
<1> HIDE DEF k
<1>6. Advance(j, k, table)
  BY <1>3, <1>4, <1>5 DEF Advance, Acquiring, i
<1> QED BY <1>1, <1>6 DEF i

LEMMA ExpandedAdvances ==
  ASSUME NEW j \in Job, j.todo # <<>>, j.stage = "acquire", j.found = 0,
         NEW table \in Seq(Row)
  PROVE  Advance(j, Expanded(j, Head(j.todo)), table)
<1> DEFINE i == Head(j.todo)
           rest == Tail(j.todo)
           entries == Entries(Members[i])
           inner == [e \in DOMAIN entries |-> entries[e].item]
           depth == [m \in Items |-> IF m \in Range(inner) THEN j.depth[i] + 1
                                                          ELSE j.depth[m]]
           refused == {[item |-> m.item, retryable |-> FALSE, rejected |-> TRUE] :
                         m \in Rejects(Members[i])}
           opened == [j EXCEPT !.todo = inner \o rest, !.depth = depth,
                               !.failures = @ \cup refused]
           passed == [j EXCEPT !.todo = rest]
<1>1. i \in Items /\ rest \in Seq(Items)
  BY HeadTailProperties DEF Job
<1>2. Expanded(j, i) = opened \/ Expanded(j, i) = passed
  BY DEF Expanded
<1>3. Members[i] \in Seq(Member)
  BY <1>1, IntakeConstants
<1>4. inner \in Seq(Items)
  <2>1. entries \in Seq(Member)
    BY <1>3, EntriesType
  <2> HIDE DEF entries
  <2>2. Len(entries) \in Nat /\ DOMAIN entries = 1..Len(entries)
        /\ \A e \in 1..Len(entries) : entries[e] \in Member
    BY <2>1
  <2>3. \A e \in 1..Len(entries) : entries[e].item \in Items
    BY <2>2 DEF Member
  <2> QED BY <2>2, <2>3
<1>5. depth \in [Items -> Nat]
  <2>1. j.depth \in [Items -> Nat]
    BY DEF Job
  <2> QED BY <1>1, <2>1
<1>6. \A f \in refused : f \in Failure /\ f.rejected
  <2>1. \A m \in Rejects(Members[i]) : m \in Member
    BY <1>3 DEF Rejects
  <2>2. \A m \in Rejects(Members[i]) : m.item \in Items
    BY <2>1 DEF Member
  <2>3. ASSUME NEW f \in refused PROVE f \in Failure /\ f.rejected
    <3>1. PICK m \in Rejects(Members[i]) :
            f = [item |-> m.item, retryable |-> FALSE, rejected |-> TRUE]
      OBVIOUS
    <3> QED BY <2>2, <3>1 DEF Failure
  <2> QED BY <2>3
<1>7. inner \o rest \in Seq(Items)
  <2> HIDE DEF inner, rest
  <2> QED BY <1>1, <1>4
<1> HIDE DEF i, rest, inner, depth, refused
<1>8. /\ opened \in Job /\ opened.stage = j.stage /\ opened.found = j.found
      /\ opened.failures = j.failures \cup refused /\ opened.docs = j.docs
      /\ opened.snapshot = j.snapshot /\ opened.outcomes = j.outcomes
      /\ opened.alone = j.alone /\ opened.blind = j.blind
  BY <1>5, <1>6, <1>7 DEF Job
<1>9. /\ passed \in Job /\ passed.stage = j.stage /\ passed.found = j.found
      /\ passed.failures = j.failures /\ passed.docs = j.docs
      /\ passed.snapshot = j.snapshot /\ passed.outcomes = j.outcomes
      /\ passed.alone = j.alone /\ passed.blind = j.blind
  BY <1>1 DEF Job
<1>10. Len(table) \in Nat
  OBVIOUS
<1> HIDE DEF opened, passed
<1>11. Advance(j, opened, table)
  BY <1>6, <1>8, <1>10 DEF Advance, Acquiring
<1>12. Advance(j, passed, table)
  BY <1>9, <1>10 DEF Advance, Acquiring
<1> QED BY <1>2, <1>11, <1>12 DEF i

LEMMA StoredAdvances ==
  ASSUME job \in [Processes -> Job], NEW p \in Processes, job[p].todo # <<>>,
         job[p].stage # "mark", NEW docs \in SUBSET Items, NEW table \in Seq(Row),
         \A i \in docs : HasBytes(table, i), Stored(p, Item(p), docs, table)
  PROVE  /\ job' \in [Processes -> Job] /\ Moves(p)
         /\ Advance(job[p], job'[p], table)
<1> DEFINE j == job[p]
           i == Head(j.todo)
           k == [j EXCEPT !.stage = "acquire", !.found = 0, !.docs = @ \cup docs]
           after == IF /\ IsArchive(i) /\ Unopened(i)
                       /\ 1 < k.depth[i] /\ k.depth[i] <= MaxNestedDepth
                    THEN Failed(k, i, FALSE, table) ELSE Expanded(k, i)
<1>1. j \in Job /\ Item(p) = i /\ Goes(p, after)
  BY DEF Stored, Item
<1>2. /\ k \in Job /\ k.stage = "acquire" /\ k.found = 0 /\ k.docs = j.docs \cup docs
      /\ k.todo = j.todo /\ k.snapshot = j.snapshot /\ k.outcomes = j.outcomes
      /\ k.alone = j.alone /\ k.blind = j.blind /\ k.failures = j.failures
  BY <1>1 DEF Job, Stages
<1> HIDE DEF k
<1>3. Advance(k, after, table)
  <2>1. Advance(k, Failed(k, i, FALSE, table), table)
    BY <1>2, FailedAdvances
  <2>2. Advance(k, Expanded(k, i), table)
    BY <1>2, ExpandedAdvances
  <2> QED BY <2>1, <2>2
<1> HIDE DEF after
<1>4. Advance(j, after, table)
  BY <1>2, <1>3 DEF Advance
<1>5. after \in Job
  BY <1>3 DEF Advance
<1> QED BY <1>1, <1>4, <1>5, GoesMoves

-----------------------------------------------------------------------------
(* The shape of a pass, and documents that are kept once *)

\* What a pass has in hand at each stage.
Shape(j) ==
  /\ j.stage \in {"fetch", "put", "commit", "mark"} => j.todo # <<>>
  /\ j.found \in 0..Len(rows)
  /\ j.stage \in {"commit", "mark"} /\ j.found # 0 => rows[j.found].item = Head(j.todo)
  /\ j.stage = "extract" => Len(j.outcomes) < Len(j.snapshot)
  /\ j.stage = "persist" => Len(j.outcomes) \in 1..Len(j.snapshot)
  /\ j.stage = "bundle" => Len(j.outcomes) = Len(j.snapshot)
  /\ j.stage \notin Reading => j.outcomes = <<>> /\ j.snapshot = <<>>
  /\ Grown(j.snapshot, rows)

Shaped == \A p \in Processes : Shape(job[p])

\* A row holds no bytes but its item's.
OwnBytes == \A n \in DOMAIN rows : rows[n].content \in {NoContent, Content[rows[n].item]}

KeptInv == TypeOK /\ Shaped /\ OwnBytes /\ KeptOnce

LEMMA InitKept == Init => KeptInv
<1> SUFFICES ASSUME Init PROVE KeptInv
  OBVIOUS
<1>1. TypeOK
  <2>1. NoBundle \in Bundle
    BY DEF NoBundle, Bundle
  <2>2. scene.adverse \in Nat
    BY IntakeConstants DEF Init
  <2> QED BY <2>1, <2>2, NoJobType DEF Init, TypeOK, Outcomes
<1>2. rows = <<>> /\ \A p \in Processes : job[p] = NoJob
  BY DEF Init
<1>3. /\ NoJob.stage = "idle" /\ NoJob.found = 0
      /\ NoJob.outcomes = <<>> /\ NoJob.snapshot = <<>>
  BY DEF NoJob
<1>4. Shaped
  BY <1>2, <1>3 DEF Shaped, Shape, Reading, Grown
<1> QED BY <1>1, <1>2, <1>4 DEF KeptInv, OwnBytes, KeptOnce

\* The table has row at n, or behind its last row if n is 0, and grew by nothing else.
Written(table, n, row) ==
  /\ table \in Seq(Row) /\ Grown(rows, table)
  /\ \E at \in DOMAIN table :
       /\ table[at] = row /\ (at = n \/ (n = 0 /\ at \notin DOMAIN rows))
       /\ \A m \in DOMAIN table : m # at => m \in DOMAIN rows /\ table[m] = rows[m]

\* A row that is written is kept: a table after With has grown.
LEMMA WithGrows ==
  ASSUME rows \in Seq(Row), NEW n \in 0..Len(rows), NEW row \in Row,
         n # 0 => /\ rows[n].item = row.item
                  /\ rows[n].content \in {NoContent, row.content}
  PROVE  Written(With(n, row), n, row)
<1>1. Len(rows) \in Nat /\ DOMAIN rows = 1..Len(rows)
  OBVIOUS
<1>2. CASE n = 0
  <2>1. With(n, row) = Append(rows, row)
    BY <1>2 DEF With
  <2> DEFINE after == Append(rows, row)
  <2>2. /\ after \in Seq(Row) /\ DOMAIN after = 1..(Len(rows) + 1)
        /\ Len(after) = Len(rows) + 1
        /\ \A m \in 1..Len(rows) : after[m] = rows[m]
        /\ after[Len(rows) + 1] = row
    OBVIOUS
  <2> HIDE DEF after
  <2>3. Grown(rows, after)
    BY <1>1, <2>2 DEF Grown
  <2>4. /\ Len(rows) + 1 \in DOMAIN after /\ Len(rows) + 1 \notin DOMAIN rows
        /\ \A m \in DOMAIN after : m # Len(rows) + 1 =>
             m \in DOMAIN rows /\ after[m] = rows[m]
    BY <1>1, <2>2
  <2>5. after[Len(rows) + 1] = row
    BY <2>2
  <2>6. With(n, row) = after
    BY <2>1 DEF after
  <2>7. Written(after, n, row)
    BY <1>2, <2>2, <2>3, <2>4, <2>5 DEF Written
  <2> QED BY <2>6, <2>7
<1>3. CASE n # 0
  <2>1. With(n, row) = [rows EXCEPT ![n] = row]
    BY <1>3 DEF With
  <2> DEFINE after == [rows EXCEPT ![n] = row]
  <2>2. n \in 1..Len(rows)
    BY <1>1, <1>3
  <2>3. /\ after \in Seq(Row) /\ DOMAIN after = 1..Len(rows)
        /\ Len(after) = Len(rows)
        /\ \A m \in 1..Len(rows) : after[m] = IF m = n THEN row ELSE rows[m]
    BY <2>2
  <2> HIDE DEF after
  <2>4. Grown(rows, after)
    BY <1>1, <1>3, <2>2, <2>3 DEF Grown
  <2>5. /\ n \in DOMAIN after /\ after[n] = row
        /\ \A m \in DOMAIN after : m # n => m \in DOMAIN rows /\ after[m] = rows[m]
    BY <1>1, <2>2, <2>3
  <2>6. With(n, row) = after
    BY <2>1 DEF after
  <2>7. \E at \in DOMAIN after :
          /\ after[at] = row /\ (at = n \/ (n = 0 /\ at \notin DOMAIN rows))
          /\ \A m \in DOMAIN after : m # at => m \in DOMAIN rows /\ after[m] = rows[m]
    <3>1. n \in DOMAIN after
      BY <2>5
    <3> WITNESS n \in DOMAIN after
    <3> QED BY <2>5, Zenon
  <2> QED BY <2>3, <2>4, <2>6, <2>7 DEF Written
<1> QED BY <1>2, <1>3

LEMMA GrownAgain ==
  ASSUME NEW s \in Seq(Row), NEW t \in Seq(Row), NEW u \in Seq(Row),
         Grown(s, t), Grown(t, u)
  PROVE  Grown(s, u)
<1>1. /\ Len(s) \in Nat /\ Len(t) \in Nat /\ Len(u) \in Nat
      /\ DOMAIN s = 1..Len(s) /\ DOMAIN t = 1..Len(t)
  OBVIOUS
<1> QED BY <1>1 DEF Grown

LEMMA GrownAlready == ASSUME NEW s \in Seq(Row) PROVE Grown(s, s)
<1>1. Len(s) \in Nat
  OBVIOUS
<1> QED BY <1>1 DEF Grown

Advanced(p) ==
  /\ job' \in [Processes -> Job] /\ Moves(p)
  /\ job[p].stage \in Acquiring /\ Advance(job[p], job'[p], rows')
  /\ job[p].todo # <<>> \/ job'[p].stage = "acquire"

TableKept == rows' \in Seq(Row) /\ Grown(rows, rows') /\ OwnBytes' /\ KeptOnce'

LEMMA TableUnchanged ==
  ASSUME KeptInv, rows' = rows PROVE TableKept
BY GrownAlready DEF TableKept, KeptInv, TypeOK, OwnBytes, KeptOnce

\* A row is written that holds its item's bytes, and no other row holds them.
LEMMA RowWritten ==
  ASSUME KeptInv, NEW n \in 0..Len(rows), NEW row \in Row, rows' = With(n, row),
         n # 0 => rows[n].item = row.item,
         \/ row.content = NoContent /\ (n # 0 => rows[n].content = NoContent)
         \/ n # 0 /\ row.content = rows[n].content
         \/ row.content = Content[row.item] /\ Holder(row.content, n) = {}
  PROVE  TableKept
<1>0. /\ rows \in Seq(Row) /\ OwnBytes /\ KeptOnce
      /\ Len(rows) \in Nat /\ DOMAIN rows = 1..Len(rows)
  <2>1. rows \in Seq(Row) /\ OwnBytes /\ KeptOnce
    BY DEF KeptInv, TypeOK
  <2> QED BY <2>1
<1>1. n # 0 => n \in DOMAIN rows /\ rows[n].content \in {NoContent, Content[row.item]}
  BY <1>0 DEF OwnBytes
<1>2. n # 0 => rows[n].content \in {NoContent, row.content}
  BY <1>1
<1>3. row.content \in {NoContent, Content[row.item]}
  BY <1>1
<1>4. ASSUME NEW m \in DOMAIN rows, m # n, row.content # NoContent
      PROVE  rows[m].content # row.content
  BY <1>0, <1>1, <1>4 DEF KeptOnce, Holder
<1>5. /\ rows' \in Seq(Row) /\ Grown(rows, rows')
      /\ \E at \in DOMAIN rows' :
           /\ rows'[at] = row /\ (at = n \/ (n = 0 /\ at \notin DOMAIN rows))
           /\ \A m \in DOMAIN rows' : m # at => m \in DOMAIN rows /\ rows'[m] = rows[m]
  <2>1. n # 0 => rows[n].item = row.item /\ rows[n].content \in {NoContent, row.content}
    BY <1>2
  <2>2. rows \in Seq(Row) /\ n \in 0..Len(rows)
    BY <1>0
  <2>3. Written(rows', n, row)
    BY <2>1, <2>2, WithGrows
  <2> QED BY <2>3 DEF Written
<1>6. PICK at \in DOMAIN rows' :
        /\ rows'[at] = row /\ (at = n \/ (n = 0 /\ at \notin DOMAIN rows))
        /\ \A m \in DOMAIN rows' : m # at => m \in DOMAIN rows /\ rows'[m] = rows[m]
  BY <1>5
<1>7. OwnBytes'
  BY <1>0, <1>3, <1>6 DEF OwnBytes
<1>8. \A m \in DOMAIN rows' : m # at /\ row.content # NoContent =>
        m # n /\ rows[m].content # row.content
  BY <1>4, <1>6
<1>9. KeptOnce'
  BY <1>0, <1>6, <1>8 DEF KeptOnce
<1> QED BY <1>5, <1>7, <1>9 DEF TableKept

LEMMA KeepAdvances ==
  ASSUME KeptInv, NEW p \in Processes, job[p].stage \in {"acquire", "fetch"},
         job[p].todo # <<>>, Keep(p, Item(p)), rows' = rows
  PROVE  Advanced(p)
<1> DEFINE j == job[p]
           i == Head(j.todo)
           n == FindRow(rows, i)
           k == [j EXCEPT !.stage = "put"]
<1>0. /\ rows \in Seq(Row) /\ job \in [Processes -> Job] /\ j \in Job /\ OwnBytes
      /\ Item(p) = i /\ i \in Items /\ Shape(j)
  <2>1. rows \in Seq(Row) /\ job \in [Processes -> Job] /\ j \in Job /\ OwnBytes
    BY DEF KeptInv, TypeOK
  <2>2. i \in Items
    BY <2>1, HeadTailProperties DEF Job
  <2> QED BY <2>1, <2>2 DEF KeptInv, Shaped, Item
<1>1. CASE n # 0 /\ Acquired(rows[n])
  <2>1. Stored(p, Item(p), {i}, rows)
    BY <1>0, <1>1 DEF Keep
  <2>2. n \in DOMAIN rows /\ rows[n].item = i
    BY <1>0, <1>1, FindRowType
  <2>3. HasBytes(rows, i)
    BY <1>0, <1>1, <2>2 DEF HasBytes, OwnBytes, Acquired
  <2>4. {i} \in SUBSET Items /\ \A m \in {i} : HasBytes(rows, m)
    BY <1>0, <2>3
  <2>5. j.stage # "mark" /\ j.stage \in Acquiring
    BY DEF Acquiring
  <2> HIDE DEF n
  <2>6. Moves(p) /\ Advance(j, job'[p], rows) /\ job' \in [Processes -> Job]
    BY <1>0, <2>1, <2>4, <2>5, StoredAdvances
  <2> QED BY <2>5, <2>6 DEF Advanced
<1>2. CASE ~(n # 0 /\ Acquired(rows[n]))
  <2>1. Goes(p, k)
    BY <1>0, <1>2 DEF Keep
  <2>2. /\ k \in Job /\ k.stage = "put" /\ k.found = j.found /\ k.todo = j.todo
        /\ k.snapshot = j.snapshot /\ k.outcomes = j.outcomes /\ k.alone = j.alone
        /\ k.docs = j.docs /\ k.failures = j.failures /\ k.blind = j.blind
    BY <1>0 DEF Job, Stages
  <2> HIDE DEF k, n
  <2>3. Advance(j, k, rows)
    BY <1>0, <2>2 DEF Advance, Acquiring, Shape
  <2> QED BY <1>0, <2>1, <2>2, <2>3, GoesMoves DEF Advanced, Acquiring
<1> QED BY <1>1, <1>2

\* What is known of a pass at the head of its list.
LEMMA InHand ==
  ASSUME KeptInv, NEW p \in Processes
  PROVE  /\ rows \in Seq(Row) /\ job \in [Processes -> Job] /\ job[p] \in Job
         /\ Shape(job[p]) /\ Item(p) = Head(job[p].todo)
         /\ job[p].todo # <<>> => Item(p) \in Items /\ Tail(job[p].todo) \in Seq(Items)
<1>1. rows \in Seq(Row) /\ job \in [Processes -> Job] /\ job[p] \in Job /\ Shape(job[p])
  BY DEF KeptInv, TypeOK, Shaped
<1>2. job[p].todo \in Seq(Items)
  BY <1>1 DEF Job
<1> QED BY <1>1, <1>2, HeadTailProperties DEF Item

LEMMA FailsAdvances ==
  ASSUME KeptInv, NEW p \in Processes, job[p].stage \in {"fetch", "put", "commit"},
         NEW retryable \in BOOLEAN, Goes(p, Failed(job[p], Item(p), retryable, rows)),
         rows' = rows
  PROVE  Advanced(p)
<1> DEFINE j == job[p]
           k == Failed(j, Item(p), retryable, rows)
<1>1. /\ rows \in Seq(Row) /\ job \in [Processes -> Job] /\ j \in Job
      /\ Item(p) = Head(j.todo) /\ j.todo # <<>>
      /\ j.stage # "mark" /\ j.stage \in Acquiring /\ Goes(p, k)
  BY InHand DEF Shape, Acquiring
<1>2. Advance(j, k, rows)
  BY <1>1, FailedAdvances
<1> HIDE DEF k
<1>3. k \in Job
  BY <1>2 DEF Advance
<1> QED BY <1>1, <1>2, <1>3, GoesMoves DEF Advanced

LEMMA TakeItemAdvances ==
  ASSUME KeptInv, NEW p \in Processes, TakeItem(p)
  PROVE  Advanced(p) /\ TableKept
<1> DEFINE j == job[p]
           i == Head(j.todo)
           reused == {rows[n].item : n \in RowsOf(Lineage[i])}
           fetching == [j EXCEPT !.stage = "fetch"]
           skipping == [j EXCEPT !.todo = Tail(@), !.docs = @ \cup reused]
<1>0. /\ rows \in Seq(Row) /\ job \in [Processes -> Job] /\ j \in Job
      /\ Item(p) = i /\ j.todo # <<>> /\ Tail(j.todo) \in Seq(Items)
      /\ j.stage = "acquire" /\ rows' = rows /\ j.found \in 0..Len(rows) /\ OwnBytes
  BY InHand DEF TakeItem, Shape, KeptInv
<1>1. CASE j.depth[i] > 1
  <2>1. Keep(p, Item(p))
    BY <1>0, <1>1 DEF TakeItem
  <2> QED BY <1>0, <2>1, KeepAdvances, TableUnchanged
<1>2. CASE ~(j.depth[i] > 1) /\ ~LineageAcquired(i)
  <2>1. Goes(p, fetching)
    BY <1>0, <1>2 DEF TakeItem
  <2>2. /\ fetching \in Job /\ fetching.stage = "fetch" /\ fetching.found = j.found
        /\ fetching.todo = j.todo /\ fetching.docs = j.docs
        /\ fetching.failures = j.failures /\ fetching.blind = j.blind
        /\ fetching.snapshot = j.snapshot /\ fetching.outcomes = j.outcomes
        /\ fetching.alone = j.alone
    BY <1>0 DEF Job, Stages
  <2> HIDE DEF fetching
  <2>3. Advance(j, fetching, rows)
    BY <1>0, <2>2 DEF Advance, Acquiring
  <2>4. Advanced(p)
    BY <1>0, <2>1, <2>2, <2>3, GoesMoves DEF Advanced, Acquiring
  <2> QED BY <1>0, <2>4, TableUnchanged
<1>3. CASE ~(j.depth[i] > 1) /\ LineageAcquired(i)
  <2>1. Goes(p, skipping)
    BY <1>0, <1>3 DEF TakeItem
  <2>2. ASSUME NEW d \in reused PROVE d \in Items /\ HasBytes(rows, d)
    <3>1. PICK n \in RowsOf(Lineage[i]) : d = rows[n].item
      OBVIOUS
    <3>2. n \in DOMAIN rows /\ Acquired(rows[n])
      BY <1>3 DEF LineageAcquired, RowsOf
    <3>3. rows[n] \in Row
      BY <1>0, <3>2
    <3> QED BY <1>0, <3>1, <3>2, <3>3 DEF HasBytes, OwnBytes, Acquired, Row
  <2> HIDE DEF reused
  <2>3. /\ skipping \in Job /\ skipping.stage = "acquire" /\ skipping.found = j.found
        /\ skipping.docs = j.docs \cup reused
        /\ skipping.failures = j.failures /\ skipping.blind = j.blind
        /\ skipping.snapshot = j.snapshot /\ skipping.outcomes = j.outcomes
        /\ skipping.alone = j.alone
    <3>1. reused \subseteq Items
      BY <2>2
    <3> QED BY <1>0, <3>1 DEF Job
  <2> HIDE DEF skipping
  <2>4. Advance(j, skipping, rows)
    BY <1>0, <2>2, <2>3 DEF Advance, Acquiring
  <2>5. Advanced(p)
    BY <1>0, <2>1, <2>3, <2>4, GoesMoves DEF Advanced, Acquiring
  <2> QED BY <1>0, <2>5, TableUnchanged
<1> QED BY <1>1, <1>2, <1>3

LEMMA FetchAdvances ==
  ASSUME KeptInv, NEW p \in Processes, Fetch(p) \/ FetchFails(p) \/ StorageFails(p)
  PROVE  Advanced(p) /\ TableKept
<1>1. rows' = rows /\ job[p].stage \in {"fetch", "put", "commit"} /\ job[p].todo # <<>>
  BY InHand DEF Fetch, FetchFails, StorageFails, Shape
<1>2. TableKept
  BY <1>1, TableUnchanged
<1>3. \/ \E retryable \in BOOLEAN : Goes(p, Failed(job[p], Item(p), retryable, rows))
      \/ job[p].stage = "fetch" /\ Keep(p, Item(p))
  BY DEF Fetch, FetchFails, StorageFails
<1> QED BY <1>1, <1>2, <1>3, FailsAdvances, KeepAdvances

LEMMA EscapeAdvances ==
  ASSUME KeptInv, NEW p \in Processes, Escapes(p)
  PROVE  Advanced(p) /\ TableKept
<1> DEFINE j == job[p]
           none == <<>>
           k == [j EXCEPT !.stage = "acquire", !.todo = none, !.cut = TRUE]
<1>1. /\ rows \in Seq(Row) /\ job \in [Processes -> Job] /\ j \in Job
      /\ j.stage \in {"acquire", "fetch"} /\ j.found \in 0..Len(rows)
      /\ rows' = rows /\ Goes(p, k)
  BY InHand DEF Escapes, Shape
<1> none \in Seq(Items)
  OBVIOUS
<1> HIDE DEF none
<1>2. /\ k \in Job /\ k.stage = "acquire" /\ k.found = j.found
      /\ k.snapshot = j.snapshot /\ k.outcomes = j.outcomes /\ k.alone = j.alone
      /\ k.docs = j.docs /\ k.failures = j.failures /\ k.blind = j.blind
  BY <1>1 DEF Job, Stages
<1> HIDE DEF k
<1>3. Advance(j, k, rows)
  BY <1>1, <1>2 DEF Advance, Acquiring
<1>4. Advanced(p)
  BY <1>1, <1>2, <1>3, GoesMoves DEF Advanced, Acquiring
<1> QED BY <1>1, <1>4, TableUnchanged

LEMMA PutAdvances ==
  ASSUME KeptInv, NEW p \in Processes, Put(p)
  PROVE  Advanced(p) /\ TableKept
<1> DEFINE j == job[p]
           n == FindRow(rows, Head(j.todo))
           k == [j EXCEPT !.stage = "commit", !.found = n]
<1>1. /\ rows \in Seq(Row) /\ job \in [Processes -> Job] /\ j \in Job
      /\ j.todo # <<>> /\ j.stage = "put" /\ rows' = rows /\ Goes(p, k)
  BY InHand DEF Put, Shape
<1>2. /\ n \in 0..Len(rows) /\ n \in Nat
      /\ (n # 0 => rows[n].item = Head(j.todo))
  BY <1>1, FindRowType
<1> HIDE DEF n
<1>3. /\ k \in Job /\ k.stage = "commit" /\ k.found = n /\ k.todo = j.todo
      /\ k.snapshot = j.snapshot /\ k.outcomes = j.outcomes /\ k.alone = j.alone
      /\ k.docs = j.docs /\ k.failures = j.failures /\ k.blind = j.blind
  BY <1>1, <1>2 DEF Job, Stages
<1> HIDE DEF k
<1>4. Advance(j, k, rows)
  BY <1>1, <1>2, <1>3 DEF Advance, Acquiring
<1>5. Advanced(p)
  BY <1>1, <1>3, <1>4, GoesMoves DEF Advanced, Acquiring
<1> QED BY <1>1, <1>5, TableUnchanged

LEMMA CommitAdvances ==
  ASSUME KeptInv, NEW p \in Processes, Commit(p)
  PROVE  Advanced(p) /\ TableKept
<1> DEFINE j == job[p]
           i == Head(j.todo)
           n == j.found
           row == [item |-> i, status |-> "downloaded", content |-> Content[i],
                   extraction |-> IF n = 0 THEN "pending" ELSE rows[n].extraction]
           holder == Holder(Content[i], n)
           kept == {rows[m].item : m \in holder}
<1>0. /\ rows \in Seq(Row) /\ job \in [Processes -> Job] /\ j \in Job
      /\ Item(p) = i /\ i \in Items /\ j.todo # <<>> /\ j.stage = "commit"
      /\ n \in 0..Len(rows) /\ (n # 0 => rows[n].item = i)
      /\ j.stage # "mark" /\ j.stage \in Acquiring /\ OwnBytes
  BY InHand DEF Commit, Shape, KeptInv, Acquiring
<1>1. Content[i] \in Contents /\ Content[i] # NoContent
  BY <1>0, IntakeConstants
<1>2. CASE holder = {}
  <2>1. rows' = With(n, row) /\ Stored(p, i, {i}, With(n, row))
    BY <1>0, <1>2 DEF Commit
  <2>2. row \in Row
    <3>1. n # 0 => rows[n].extraction \in Outcomes \cup {"pending"}
      <4>1. n # 0 => rows[n] \in Row
        BY <1>0
      <4> QED BY <4>1 DEF Row
    <3> QED BY <1>0, <1>1, <3>1 DEF Row
  <2>3. row.item = i /\ row.content = Content[i] /\ (n # 0 => rows[n].item = row.item)
    BY <1>0
  <2>4. row.content = Content[row.item] /\ Holder(row.content, n) = {}
    BY <1>2, <2>3
  <2>5. n # 0 => rows[n].content \in {NoContent, row.content}
    BY <1>0, <2>3 DEF OwnBytes
  <2> HIDE DEF row
  <2>6. TableKept
    BY <1>0, <2>1, <2>2, <2>3, <2>4, RowWritten
  <2>7. HasBytes(rows', i)
    <3>1. \E at \in DOMAIN With(n, row) : With(n, row)[at] = row
      BY <1>0, <2>2, <2>3, <2>5, WithGrows DEF Written
    <3>2. \E at \in DOMAIN rows' : rows'[at] = row
      BY <2>1, <3>1
    <3> QED BY <2>3, <3>2 DEF HasBytes
  <2>8. /\ {i} \in SUBSET Items /\ \A m \in {i} : HasBytes(rows', m)
        /\ rows' \in Seq(Row)
    BY <1>0, <2>6, <2>7 DEF TableKept
  <2>9. Stored(p, Item(p), {i}, rows')
    BY <1>0, <2>1
  <2>10. Moves(p) /\ Advance(j, job'[p], rows') /\ job' \in [Processes -> Job]
    BY <1>0, <2>8, <2>9, StoredAdvances
  <2> QED BY <1>0, <2>6, <2>10 DEF Advanced
<1>3. CASE holder # {}
  <2>1. rows' = rows /\ Stored(p, i, kept, rows)
    BY <1>0, <1>3 DEF Commit
  <2>2. ASSUME NEW d \in kept PROVE d \in Items /\ HasBytes(rows, d)
    <3>1. PICK m \in holder : d = rows[m].item
      OBVIOUS
    <3>2. m \in DOMAIN rows /\ rows[m].content = Content[i]
      BY DEF Holder
    <3>3. rows[m] \in Row
      BY <1>0, <3>2
    <3> QED BY <1>0, <1>1, <3>1, <3>2, <3>3 DEF HasBytes, OwnBytes, Row
  <2> HIDE DEF kept
  <2>3. kept \in SUBSET Items
    BY <2>2
  <2>4. Moves(p) /\ Advance(j, job'[p], rows) /\ job' \in [Processes -> Job]
    BY <1>0, <2>1, <2>2, <2>3, StoredAdvances
  <2> QED BY <1>0, <2>1, <2>4, TableUnchanged DEF Advanced
<1> QED BY <1>2, <1>3

LEMMA MarkAdvances ==
  ASSUME KeptInv, NEW p \in Processes, MarkFailed(p) \/ MarkLost(p)
  PROVE  Advanced(p) /\ TableKept
<1> DEFINE j == job[p]
           i == Head(j.todo)
           n == j.found
           row == IF n = 0 THEN [item |-> i, status |-> "failed", content |-> NoContent,
                                 extraction |-> "pending"]
                  ELSE [rows[n] EXCEPT !.status = "failed"]
           marked == [j EXCEPT !.stage = "acquire", !.todo = Tail(@), !.found = 0]
           lost == [j EXCEPT !.stage = "acquire", !.todo = Tail(@), !.found = 0,
                             !.blind = TRUE]
<1>0. /\ rows \in Seq(Row) /\ job \in [Processes -> Job] /\ j \in Job
      /\ Item(p) = i /\ i \in Items /\ Tail(j.todo) \in Seq(Items)
      /\ j.todo # <<>> /\ j.stage = "mark" /\ j.stage \in Acquiring
      /\ n \in 0..Len(rows) /\ (n # 0 => rows[n].item = i)
  BY InHand DEF MarkFailed, MarkLost, Shape, Acquiring
<1>1. CASE MarkFailed(p)
  <2>1. rows' = With(n, row) /\ Goes(p, marked)
    BY <1>0, <1>1 DEF MarkFailed
  <2>2. /\ row \in Row /\ row.item = i
        /\ (n = 0 => row.content = NoContent) /\ (n # 0 => row.content = rows[n].content)
    <3>1. n # 0 => rows[n] \in Row
      BY <1>0
    <3>2. CASE n = 0
      BY <1>0, <3>2 DEF Row, Outcomes
    <3>3. CASE n # 0
      BY <1>0, <3>1, <3>3 DEF Row
    <3> QED BY <3>2, <3>3
  <2> HIDE DEF row
  <2>3. TableKept
    BY <1>0, <2>1, <2>2, RowWritten
  <2>4. HasRow(rows', i)
    <3>1. n # 0 => /\ rows[n].item = row.item
                   /\ rows[n].content \in {NoContent, row.content}
      BY <1>0, <2>2
    <3>2. \E at \in DOMAIN With(n, row) : With(n, row)[at] = row
      BY <1>0, <2>2, <3>1, WithGrows DEF Written
    <3> QED BY <2>1, <2>2, <3>2 DEF HasRow
  <2>5. /\ marked \in Job /\ marked.stage = "acquire" /\ marked.found = 0
        /\ marked.snapshot = j.snapshot /\ marked.outcomes = j.outcomes
        /\ marked.alone = j.alone /\ marked.docs = j.docs
        /\ marked.failures = j.failures /\ marked.blind = j.blind
    BY <1>0 DEF Job, Stages
  <2>6. Len(rows') \in Nat
    BY <2>3 DEF TableKept
  <2> HIDE DEF marked
  <2>7. Advance(j, marked, rows')
    BY <1>0, <2>4, <2>5, <2>6 DEF Advance, Acquiring
  <2> QED BY <1>0, <2>1, <2>3, <2>5, <2>7, GoesMoves DEF Advanced
<1>2. CASE MarkLost(p)
  <2>1. rows' = rows /\ Goes(p, lost)
    BY <1>2 DEF MarkLost
  <2>2. /\ lost \in Job /\ lost.stage = "acquire" /\ lost.found = 0
        /\ lost.snapshot = j.snapshot /\ lost.outcomes = j.outcomes
        /\ lost.alone = j.alone /\ lost.docs = j.docs
        /\ lost.failures = j.failures /\ lost.blind
    BY <1>0 DEF Job, Stages
  <2>3. Len(rows) \in Nat
    BY <1>0
  <2> HIDE DEF lost
  <2>4. Advance(j, lost, rows)
    BY <1>0, <2>2, <2>3 DEF Advance, Acquiring
  <2> QED BY <1>0, <2>1, <2>2, <2>4, GoesMoves, TableUnchanged DEF Advanced
<1> QED BY <1>1, <1>2

LEMMA RetryAdvances ==
  ASSUME KeptInv, NEW p \in Processes, EndAcquisition(p), Retried(job[p])
  PROVE  Advanced(p) /\ TableKept
<1> DEFINE j == job[p]
           k == [j EXCEPT !.todo = Offered, !.tries = @ + 1, !.docs = {}, !.failures = {},
                          !.depth = [i \in Items |-> 1]]
<1>1. /\ rows \in Seq(Row) /\ job \in [Processes -> Job] /\ j \in Job
      /\ j.stage = "acquire" /\ rows' = rows /\ j.found \in 0..Len(rows) /\ Goes(p, k)
  BY InHand DEF EndAcquisition, Shape
<1>2. Offered \in Seq(Items) /\ j.tries + 1 \in 1..Attempts
  BY <1>1, IntakeConstants DEF Retried, Job
<1>3. /\ k \in Job /\ k.stage = "acquire" /\ k.found = j.found
      /\ k.snapshot = j.snapshot /\ k.outcomes = j.outcomes /\ k.alone = j.alone
      /\ k.docs = {} /\ k.failures = {} /\ k.blind = j.blind
  BY <1>1, <1>2 DEF Job
<1> HIDE DEF k
<1>4. Advance(j, k, rows)
  BY <1>1, <1>3 DEF Advance, Acquiring
<1>5. Advanced(p)
  BY <1>1, <1>3, <1>4, GoesMoves DEF Advanced, Acquiring
<1> QED BY <1>1, <1>5, TableUnchanged

\* The steps of the acquisition, up to its end.
Acquires(p) ==
  \/ TakeItem(p) \/ Fetch(p) \/ FetchFails(p) \/ Escapes(p) \/ Put(p) \/ StorageFails(p)
  \/ Commit(p) \/ MarkFailed(p) \/ MarkLost(p)
  \/ EndAcquisition(p) /\ Retried(job[p])

LEMMA AcquiresAdvances ==
  ASSUME KeptInv, NEW p \in Processes, Acquires(p)
  PROVE  /\ Advanced(p) /\ TableKept
         /\ artifact' = artifact /\ bundle' = bundle
<1>1. Advanced(p) /\ TableKept
  BY TakeItemAdvances, FetchAdvances, EscapeAdvances, PutAdvances, CommitAdvances,
     MarkAdvances, RetryAdvances DEF Acquires
<1> QED BY <1>1 DEF Acquires, TakeItem, Fetch, FetchFails, Escapes, Put, StorageFails,
                    Commit, MarkFailed, MarkLost, EndAcquisition

LEMMA SpendType ==
  ASSUME TypeOK, NEW kind, Spend(kind), scene' = scene
  PROVE  budget' \in 0..scene'.adverse
<1>1. scene.adverse \in Nat
  BY IntakeConstants DEF TypeOK
<1> QED BY <1>1 DEF TypeOK, Spend

\* A pass keeps its shape while the table grows.
LEMMA ShapeGrows ==
  ASSUME rows \in Seq(Row), rows' \in Seq(Row), Grown(rows, rows'),
         NEW j \in Job, Shape(j)
  PROVE  Shape(j)'
<1>1. /\ Len(rows) \in Nat /\ Len(rows') \in Nat /\ DOMAIN rows = 1..Len(rows)
      /\ j.snapshot \in Seq(Row)
  BY DEF Job
<1>2. Grown(j.snapshot, rows')
  BY <1>1, GrownAgain DEF Shape
<1>3. Len(rows) <= Len(rows') /\ \A n \in 1..Len(rows) : rows'[n].item = rows[n].item
  BY <1>1 DEF Grown
<1> QED BY <1>1, <1>2, <1>3 DEF Shape

LEMMA AdvanceShape ==
  ASSUME KeptInv, NEW p \in Processes, Advanced(p), TableKept
  PROVE  Shaped'
<1>1. /\ rows \in Seq(Row) /\ rows' \in Seq(Row) /\ Grown(rows, rows')
      /\ job \in [Processes -> Job]
  BY DEF KeptInv, TypeOK, TableKept
<1>2. ASSUME NEW q \in Processes, q # p PROVE Shape(job[q])'
  <2>1. job'[q] = job[q] /\ job[q] \in Job /\ Shape(job[q])
    BY <1>1, <1>2 DEF Advanced, Moves, KeptInv, Shaped
  <2>2. \A j \in Job : Shape(j) => Shape(j)'
    BY <1>1, ShapeGrows
  <2> DEFINE j == job[q]
  <2> QED BY <2>1, <2>2 DEF Shape
<1>3. Shape(job[p])'
  <2> DEFINE j == job[p]
             k == job'[p]
  <2>1. j.outcomes = <<>> /\ j.snapshot = <<>>
    BY DEF KeptInv, Shaped, Shape, Advanced, Acquiring, Reading
  <2>2. Advance(j, k, rows') /\ (j.todo # <<>> \/ k.stage = "acquire")
    BY DEF Advanced
  <2>3. Len(rows') \in Nat
    BY <1>1
  <2>4. Grown(<<>>, rows')
    BY <2>3 DEF Grown
  <2> HIDE DEF j, k
  <2>5. /\ k.stage \in {"fetch", "put", "commit", "mark"} => k.todo # <<>>
        /\ k.found \in 0..Len(rows')
        /\ k.stage \in {"commit", "mark"} /\ k.found # 0 =>
             rows'[k.found].item = Head(k.todo)
        /\ k.stage \notin Reading /\ k.outcomes = <<>> /\ k.snapshot = <<>>
    BY <2>1, <2>2 DEF Advance, Acquiring, Reading
  <2> QED BY <2>4, <2>5 DEF Shape, Reading, k
<1> QED BY <1>2, <1>3 DEF Shaped

\* The passes that do not move keep their shape; the one that does needs its own.
LEMMA MovedShape ==
  ASSUME KeptInv, NEW p \in Processes, Moves(p), TableKept, Shape(job[p])'
  PROVE  Shaped'
<1>1. /\ rows \in Seq(Row) /\ rows' \in Seq(Row) /\ Grown(rows, rows')
      /\ job \in [Processes -> Job]
  BY DEF KeptInv, TypeOK, TableKept
<1>2. ASSUME NEW q \in Processes, q # p PROVE Shape(job[q])'
  <2>1. job'[q] = job[q] /\ job[q] \in Job /\ Shape(job[q])
    BY <1>1, <1>2 DEF Moves, KeptInv, Shaped
  <2>2. \A j \in Job : Shape(j) => Shape(j)'
    BY <1>1, ShapeGrows
  <2> QED BY <2>1, <2>2 DEF Shape
<1> QED BY <1>2 DEF Shaped

LEMMA StartType ==
  ASSUME KeptInv, NEW p \in Processes, Start(p)
  PROVE  /\ job' \in [Processes -> Job]
         /\ \A q \in Processes \ {p} :
              /\ job'[q] = [job[q] EXCEPT !.alone = job'[q].alone]
              /\ job'[q].alone = (job[q].alone /\ job[q].stage = "idle")
         /\ job[p].stage = "idle"
         /\ job'[p] = [NoJob EXCEPT !.stage = "acquire", !.todo = Offered,
                          !.depth = [i \in Items |-> 1], !.alone = job'[p].alone]
         /\ job'[p].alone = (\A o \in Processes : job[o].stage = "idle")
<1> DEFINE fresh(a) == [NoJob EXCEPT !.stage = "acquire", !.todo = Offered,
                                     !.depth = [i \in Items |-> 1], !.alone = a]
           left(q) == [job[q] EXCEPT !.alone = @ /\ job[q].stage = "idle"]
           only == \A o \in Processes : job[o].stage = "idle"
<1>1. job' = [q \in Processes |-> IF q = p THEN fresh(only) ELSE left(q)]
  BY DEF Start
<1>2. job \in [Processes -> Job] /\ \A q \in Processes : job[q] \in Job
  BY DEF KeptInv, TypeOK
<1>3. only \in BOOLEAN
  OBVIOUS
<1> HIDE DEF only
<1>4. fresh(only) \in Job /\ fresh(only).alone = only
  <2>1. Offered \in Seq(Items) /\ NoJob \in Job
    BY IntakeConstants, NoJobType
  <2> QED BY <1>3, <2>1 DEF Job, Stages
<1>5. ASSUME NEW q \in Processes
      PROVE  /\ left(q) \in Job
             /\ left(q).alone = (job[q].alone /\ job[q].stage = "idle")
             /\ left(q) = [job[q] EXCEPT !.alone = left(q).alone]
  <2> DEFINE a == job[q].alone /\ job[q].stage = "idle"
  <2>1. a \in BOOLEAN
    BY <1>2 DEF Job
  <2>2. left(q) = [job[q] EXCEPT !.alone = a]
    BY Zenon
  <2> HIDE DEF a
  <2>3. [job[q] EXCEPT !.alone = a] \in Job /\ [job[q] EXCEPT !.alone = a].alone = a
    BY <1>2, <2>1 DEF Job
  <2> QED BY <2>2, <2>3 DEF a
<1> HIDE DEF fresh, left
<1>6. job'[p] = fresh(only) /\ \A q \in Processes \ {p} : job'[q] = left(q)
  BY <1>1
<1>7. job' \in [Processes -> Job]
  BY <1>1, <1>4, <1>5
<1>8. job[p].stage = "idle"
  BY DEF Start
<1> QED BY <1>4, <1>5, <1>6, <1>7, <1>8 DEF fresh, only

LEMMA StartKept ==
  ASSUME KeptInv, NEW p \in Processes, Start(p), scene' = scene
  PROVE  KeptInv' /\ TableKept
<1>0. /\ rows' = rows /\ rows \in Seq(Row) /\ TypeOK
      /\ objects' = objects /\ artifact' = artifact /\ bundle' = bundle /\ budget' = budget
  BY DEF Start, KeptInv, TypeOK
<1>1. TableKept
  BY <1>0, TableUnchanged
<1>2. TypeOK'
  BY <1>0, StartType DEF TypeOK
<1>3. ASSUME NEW q \in Processes PROVE Shape(job[q])'
  <2> DEFINE j == job[q]
             k == job'[q]
  <2>1. j \in Job /\ Shape(j)
    BY <1>0 DEF TypeOK, KeptInv, Shaped
  <2>2. CASE q = p
    <3>1. /\ k.stage = "acquire" /\ k.found = 0 /\ k.outcomes = <<>>
          /\ k.snapshot = <<>>
      <4> DEFINE a == job'[p].alone
                 fresh == [NoJob EXCEPT !.stage = "acquire", !.todo = Offered,
                                        !.depth = [i \in Items |-> 1], !.alone = a]
      <4>1. k = fresh
        BY <2>2, StartType
      <4> HIDE DEF a
      <4>2. /\ fresh.stage = "acquire" /\ fresh.found = 0 /\ fresh.outcomes = <<>>
            /\ fresh.snapshot = <<>>
        BY DEF NoJob
      <4> HIDE DEF fresh
      <4> QED BY <4>1, <4>2
    <3>2. Len(rows) \in Nat
      BY <1>0
    <3> HIDE DEF k
    <3>3. Grown(<<>>, rows)
      BY <3>2 DEF Grown
    <3> QED BY <1>0, <3>1, <3>2, <3>3 DEF Shape, Reading, k
  <2>3. CASE q # p
    <3>1. /\ k.stage = j.stage /\ k.todo = j.todo /\ k.found = j.found
          /\ k.outcomes = j.outcomes /\ k.snapshot = j.snapshot
      <4> DEFINE a == job'[q].alone
                 left == [j EXCEPT !.alone = a]
      <4>1. k = left
        BY <2>3, StartType
      <4> HIDE DEF a
      <4>2. /\ left.stage = j.stage /\ left.todo = j.todo /\ left.found = j.found
            /\ left.outcomes = j.outcomes /\ left.snapshot = j.snapshot
        BY <2>1 DEF Job
      <4> HIDE DEF left
      <4> QED BY <4>1, <4>2
    <3> HIDE DEF j, k
    <3> QED BY <1>0, <2>1, <3>1 DEF Shape, k
  <2> QED BY <2>2, <2>3
<1> QED BY <1>1, <1>2, <1>3 DEF KeptInv, Shaped, TableKept

LEMMA FinishKept ==
  ASSUME KeptInv, NEW p \in Processes, EndAcquisition(p), ~Retried(job[p]), scene' = scene
  PROVE  KeptInv' /\ TableKept
<1> DEFINE j == job[p]
           k == [j EXCEPT !.stage = IF rows = <<>> THEN "bundle" ELSE "extract",
                          !.snapshot = rows]
<1>0. /\ rows' = rows /\ rows \in Seq(Row) /\ TypeOK /\ j.stage = "acquire"
      /\ objects' = objects /\ artifact' = artifact /\ bundle' = bundle /\ budget' = budget
      /\ j \in Job /\ job \in [Processes -> Job] /\ Shape(j) /\ Goes(p, k)
  BY InHand DEF EndAcquisition, KeptInv
<1>1. TableKept
  BY <1>0, TableUnchanged
<1>2. /\ k \in Job /\ k.stage = (IF rows = <<>> THEN "bundle" ELSE "extract")
      /\ k.found = j.found /\ k.todo = j.todo /\ k.outcomes = <<>> /\ k.snapshot = rows
  BY <1>0 DEF Job, Stages, Shape, Reading
<1> HIDE DEF k
<1>3. TypeOK' /\ Moves(p) /\ job'[p] = k
  BY <1>0, <1>2, GoesMoves DEF TypeOK
<1>4. Shape(k)
  BY <1>0, <1>2, GrownAlready DEF Shape, Reading
<1>5. Shape(job[p])'
  BY <1>0, <1>3, <1>4 DEF Shape
<1> QED BY <1>1, <1>3, <1>5, MovedShape DEF KeptInv, TableKept

\* The row a pass is at.
LEMMA AtRow ==
  ASSUME KeptInv, NEW p \in Processes, job[p].stage = "extract"
  PROVE  /\ At(p) \in 1..Len(job[p].snapshot) /\ Snapped(p) \in Row
         /\ job[p].outcomes \in Seq(Outcomes) /\ At(p) = Len(job[p].outcomes) + 1
         /\ At(p) \in DOMAIN rows /\ rows[At(p)].item = Snapped(p).item
         /\ Snapped(p).content \in {NoContent, rows[At(p)].content}
<1>1. /\ job[p].snapshot \in Seq(Row) /\ job[p].outcomes \in Seq(Outcomes)
      /\ rows \in Seq(Row) /\ Shape(job[p])
  BY InHand DEF Job
<1>2. Len(job[p].outcomes) \in Nat /\ Len(job[p].snapshot) \in Nat /\ Len(rows) \in Nat
  BY <1>1
<1> QED BY <1>1, <1>2, SMTT(30) DEF At, Snapped, Shape, Grown

LEMMA OutcomeType ==
  ASSUME TypeOK, NEW r \in Row
  PROVE  Outcome(r) \in Outcomes
<1>1. Reusable(r.content) => artifact[r.content] \in Outcomes
  BY DEF Reusable, Outcomes
<1> QED BY <1>1 DEF Outcome, Extracted, Outcomes

LEMMA ExtractKept ==
  ASSUME KeptInv, NEW p \in Processes, Extract(p), scene' = scene
  PROVE  KeptInv' /\ TableKept
<1> DEFINE j == job[p]
           r == Snapped(p)
<1>0. /\ rows' = rows /\ rows \in Seq(Row) /\ TypeOK /\ j.stage = "extract"
      /\ objects' = objects /\ bundle' = bundle
      /\ j \in Job /\ job \in [Processes -> Job] /\ Shape(j) /\ r \in Row
  BY InHand, AtRow DEF Extract, KeptInv
<1>1. TableKept
  BY <1>0, TableUnchanged
<1>2. PICK o \in {Outcome(r), "failed"} :
        /\ budget' = budget \/ Spend("extract")
        /\ artifact' = IF r.content = NoContent THEN artifact
                       ELSE [artifact EXCEPT ![r.content] = o]
        /\ Goes(p, [j EXCEPT !.stage = "persist", !.outcomes = Append(@, o)])
  BY DEF Extract
<1>3. o \in Outcomes
  BY <1>0, OutcomeType DEF Outcomes
<1> DEFINE k == [j EXCEPT !.stage = "persist", !.outcomes = Append(@, o)]
<1>4. Append(j.outcomes, o) \in Seq(Outcomes) /\ Len(Append(j.outcomes, o)) = At(p)
  BY <1>0, <1>3, AtRow
<1>5. /\ k \in Job /\ k.stage = "persist" /\ k.found = j.found /\ k.todo = j.todo
      /\ k.outcomes = Append(j.outcomes, o) /\ k.snapshot = j.snapshot
  BY <1>0, <1>4 DEF Job, Stages
<1>6. Goes(p, k)
  BY <1>2
<1> HIDE DEF k
<1>7. job' \in [Processes -> Job] /\ Moves(p) /\ job'[p] = k
  BY <1>0, <1>5, <1>6, GoesMoves
<1>8. artifact' \in [Contents -> Outcomes \cup {"none"}]
  BY <1>0, <1>2, <1>3 DEF TypeOK
<1>9. budget' \in 0..scene'.adverse
  BY <1>0, <1>2, SpendType DEF TypeOK
<1>10. TypeOK'
  BY <1>0, <1>7, <1>8, <1>9 DEF TypeOK
<1>11. Shape(k)
  BY <1>0, <1>4, <1>5, AtRow DEF Shape, Reading
<1>12. Shape(job[p])'
  BY <1>0, <1>7, <1>11 DEF Shape
<1> QED BY <1>1, <1>7, <1>10, <1>12, MovedShape DEF KeptInv, TableKept

LEMMA PersistFacts ==
  ASSUME KeptInv, NEW p \in Processes, PersistRow(p)
  PROVE  LET j == job[p]  n == Len(j.outcomes)
             k == [j EXCEPT !.stage = IF n = Len(j.snapshot) THEN "bundle" ELSE "extract"]
         IN  /\ n \in 1..Len(j.snapshot) /\ n \in DOMAIN rows /\ j.outcomes[n] \in Outcomes
             /\ rows' = [rows EXCEPT ![n] = [rows[n] EXCEPT !.extraction = j.outcomes[n]]]
             /\ k \in Job /\ Moves(p) /\ job'[p] = k /\ job' \in [Processes -> Job]
             /\ k.stage = (IF n = Len(j.snapshot) THEN "bundle" ELSE "extract")
             /\ k.found = j.found /\ k.todo = j.todo /\ k.outcomes = j.outcomes
             /\ k.snapshot = j.snapshot
             /\ k.docs = j.docs /\ k.failures = j.failures /\ k.alone = j.alone
             /\ k.blind = j.blind
<1> DEFINE j == job[p]
           n == Len(j.outcomes)
           k == [j EXCEPT !.stage = IF n = Len(j.snapshot) THEN "bundle" ELSE "extract"]
<1>1. /\ rows \in Seq(Row) /\ j.stage = "persist" /\ j \in Job /\ Shape(j)
      /\ job \in [Processes -> Job]
      /\ j.outcomes \in Seq(Outcomes) /\ j.snapshot \in Seq(Row)
  BY InHand DEF PersistRow, Job
<1>2. n \in 1..Len(j.snapshot) /\ n \in DOMAIN rows /\ j.outcomes[n] \in Outcomes
  <2>1. Len(j.outcomes) \in Nat /\ Len(j.snapshot) \in Nat /\ Len(rows) \in Nat
    BY <1>1
  <2> QED BY <1>1, <2>1 DEF Shape, Grown
<1>3. rows' = [rows EXCEPT ![n] = [rows[n] EXCEPT !.extraction = j.outcomes[n]]]
  BY DEF PersistRow
<1>4. /\ k \in Job /\ k.stage = (IF n = Len(j.snapshot) THEN "bundle" ELSE "extract")
      /\ k.found = j.found /\ k.todo = j.todo /\ k.outcomes = j.outcomes
      /\ k.snapshot = j.snapshot
      /\ k.docs = j.docs /\ k.failures = j.failures /\ k.alone = j.alone
      /\ k.blind = j.blind
  BY <1>1 DEF Job, Stages
<1>5. Goes(p, k)
  BY DEF PersistRow
<1> HIDE DEF k
<1>6. job' \in [Processes -> Job] /\ Moves(p) /\ job'[p] = k
  BY <1>1, <1>4, <1>5, GoesMoves
<1> QED BY <1>2, <1>3, <1>4, <1>6 DEF k

LEMMA PersistKept ==
  ASSUME KeptInv, NEW p \in Processes, PersistRow(p), scene' = scene
  PROVE  KeptInv' /\ TableKept
<1> DEFINE j == job[p]
           n == Len(j.outcomes)
           row == [rows[n] EXCEPT !.extraction = j.outcomes[n]]
           k == job'[p]
<1>0. /\ rows \in Seq(Row) /\ TypeOK /\ j \in Job /\ Shape(j)
      /\ objects' = objects /\ artifact' = artifact /\ bundle' = bundle /\ budget' = budget
  BY InHand DEF PersistRow, KeptInv
<1>1. /\ n \in 1..Len(j.snapshot) /\ n \in DOMAIN rows /\ j.outcomes[n] \in Outcomes
      /\ rows' = [rows EXCEPT ![n] = row]
      /\ k \in Job /\ Moves(p) /\ job' \in [Processes -> Job]
      /\ k.stage = (IF n = Len(j.snapshot) THEN "bundle" ELSE "extract")
      /\ k.found = j.found /\ k.todo = j.todo /\ k.outcomes = j.outcomes
      /\ k.snapshot = j.snapshot
  BY PersistFacts
<1>2. TableKept
  <2>1. n \in 0..Len(rows) /\ n # 0 /\ rows[n] \in Row
    BY <1>0, <1>1
  <2>2. row \in Row /\ row.item = rows[n].item /\ row.content = rows[n].content
    BY <1>1, <2>1 DEF Row
  <2>3. rows' = With(n, row)
    BY <1>1, <2>1 DEF With
  <2> HIDE DEF row
  <2> QED BY <2>1, <2>2, <2>3, RowWritten
<1>3. TypeOK'
  BY <1>0, <1>1, <1>2 DEF TypeOK, TableKept
<1>4. Shape(job[p])'
  <2>1. rows' \in Seq(Row) /\ Grown(rows, rows')
    BY <1>2 DEF TableKept
  <2>2. /\ Len(rows) \in Nat /\ Len(rows') \in Nat /\ Len(rows) <= Len(rows')
        /\ j.snapshot \in Seq(Row) /\ Len(j.snapshot) \in Nat
    BY <1>0, <2>1 DEF Grown, Job
  <2>3. Grown(j.snapshot, rows') /\ j.found \in 0..Len(rows')
    BY <1>0, <2>1, <2>2, GrownAgain DEF Shape
  <2>4. /\ k.stage \in {"extract", "bundle"} /\ k.outcomes = j.outcomes
        /\ k.snapshot = j.snapshot /\ k.found = j.found
        /\ k.stage = "bundle" => Len(j.outcomes) = Len(j.snapshot)
        /\ k.stage = "extract" => Len(j.outcomes) < Len(j.snapshot)
    BY <1>1, <2>2
  <2> HIDE DEF j, k, n
  <2>5. /\ k.found \in 0..Len(rows') /\ Grown(k.snapshot, rows')
        /\ k.stage \in {"extract", "bundle"}
        /\ k.stage = "bundle" => Len(k.outcomes) = Len(k.snapshot)
        /\ k.stage = "extract" => Len(k.outcomes) < Len(k.snapshot)
    BY <2>3, <2>4
  <2> QED BY <2>5 DEF Shape, Reading, k
<1> QED BY <1>1, <1>2, <1>3, <1>4, MovedShape DEF KeptInv, TableKept

LEMMA DroppedKept ==
  ASSUME KeptInv, NEW p \in Processes, Goes(p, NoJob), rows' = rows, TypeOK'
  PROVE  KeptInv' /\ TableKept
<1>1. TableKept
  BY TableUnchanged
<1>2. job' \in [Processes -> Job] /\ Moves(p) /\ job'[p] = NoJob
  <2>1. job \in [Processes -> Job]
    BY InHand
  <2> QED BY <2>1, NoJobType, GoesMoves
<1>3. Shape(job[p])'
  <2>1. rows \in Seq(Row) /\ Len(rows) \in Nat
    BY InHand
  <2>2. /\ NoJob.stage = "idle" /\ NoJob.found = 0 /\ NoJob.outcomes = <<>>
        /\ NoJob.snapshot = <<>>
    BY DEF NoJob
  <2>3. Grown(<<>>, rows)
    BY <2>1 DEF Grown
  <2> QED BY <1>2, <2>1, <2>2, <2>3 DEF Shape, Reading
<1> QED BY <1>1, <1>2, <1>3, MovedShape DEF KeptInv, TableKept

\* The steps of Next, by what they do to a pass.
LEMMA StepCases ==
  ASSUME Next
  PROVE  \/ \E p \in Processes : Acquires(p)
         \/ \E p \in Processes : WriteBundle(p) \/ Crash(p)
         \/ \E p \in Processes : Start(p)
         \/ \E p \in Processes : EndAcquisition(p) /\ ~Retried(job[p])
         \/ \E p \in Processes : Extract(p)
         \/ \E p \in Processes : PersistRow(p)
         \/ \E i \in Items : LoseObject(i)
<1>1. ASSUME NEW p \in Processes,
             \/ Start(p) \/ TakeItem(p) \/ Fetch(p) \/ FetchFails(p) \/ Escapes(p) \/ Put(p)
             \/ StorageFails(p) \/ Commit(p) \/ MarkFailed(p) \/ MarkLost(p)
             \/ EndAcquisition(p) \/ Extract(p) \/ PersistRow(p)
             \/ WriteBundle(p) \/ Crash(p)
      PROVE  \/ Acquires(p) \/ WriteBundle(p) \/ Crash(p) \/ Start(p)
             \/ (EndAcquisition(p) /\ ~Retried(job[p])) \/ Extract(p) \/ PersistRow(p)
  BY <1>1, Zenon DEF Acquires
<1>2. \/ \E p \in Processes :
           \/ Start(p) \/ TakeItem(p) \/ Fetch(p) \/ FetchFails(p) \/ Escapes(p) \/ Put(p)
           \/ StorageFails(p) \/ Commit(p) \/ MarkFailed(p) \/ MarkLost(p)
           \/ EndAcquisition(p) \/ Extract(p) \/ PersistRow(p)
           \/ WriteBundle(p) \/ Crash(p)
      \/ \E i \in Items : LoseObject(i)
  BY Zenon DEF Next
<1> QED BY <1>1, <1>2

LEMMA NextKept == ASSUME KeptInv, Next, scene' = scene PROVE KeptInv' /\ TableKept
<1>0. TypeOK
  BY DEF KeptInv
<1>1. ASSUME NEW p \in Processes, Acquires(p) PROVE KeptInv' /\ TableKept
  <2>1. /\ Advanced(p) /\ TableKept /\ artifact' = artifact /\ bundle' = bundle
    BY <1>1, AcquiresAdvances
  <2>2. objects' \in SUBSET Items
    <3>1. job[p].stage = "put" => Item(p) \in Items
      BY InHand DEF Shape
    <3> QED BY <1>0, <1>1, <3>1 DEF TypeOK, Acquires, TakeItem, Fetch, FetchFails, Escapes, Put,
                StorageFails, Commit, MarkFailed, MarkLost, EndAcquisition
  <2>3. budget' = budget \/ \E kind \in AdverseKinds : Spend(kind)
    BY <1>1 DEF Acquires, TakeItem, Fetch, FetchFails, Escapes, Put, StorageFails, Commit,
                MarkFailed, MarkLost, EndAcquisition, AdverseKinds
  <2>4. budget' \in 0..scene'.adverse
    BY <1>0, <2>3, SpendType DEF TypeOK
  <2>5. TypeOK'
    BY <1>0, <2>1, <2>2, <2>4 DEF TypeOK, TableKept, Advanced
  <2> QED BY <2>1, <2>5, AdvanceShape DEF KeptInv, TableKept
<1>2. ASSUME NEW p \in Processes, WriteBundle(p) \/ Crash(p) PROVE KeptInv' /\ TableKept
  <2>1. Goes(p, NoJob) /\ rows' = rows
    BY <1>2 DEF WriteBundle, Crash
  <2>2. job' \in [Processes -> Job]
    BY <1>0, <2>1, NoJobType, GoesMoves DEF TypeOK
  <2>3. bundle' \in Bundle
    <3>1. CASE WriteBundle(p)
      <4>1. PICK notice \in BOOLEAN :
              bundle' = [incomplete |-> Incomplete(job[p].outcomes) \/ notice,
                         notice |-> notice]
        BY <3>1 DEF WriteBundle
      <4>2. (Incomplete(job[p].outcomes) \/ notice) \in BOOLEAN
        BY Zenon
      <4> QED BY <4>1, <4>2 DEF Bundle
    <3>2. CASE Crash(p)
      BY <1>0, <3>2 DEF TypeOK, Crash
    <3> QED BY <1>2, <3>1, <3>2
  <2>4. budget' \in 0..scene'.adverse
    BY <1>0, <1>2, SpendType DEF TypeOK, WriteBundle, Crash
  <2>5. TypeOK'
    BY <1>0, <1>2, <2>2, <2>3, <2>4 DEF TypeOK, WriteBundle, Crash
  <2> QED BY <2>1, <2>5, DroppedKept
<1>3. ASSUME NEW i \in Items, LoseObject(i) PROVE KeptInv' /\ TableKept
  <2>1. rows' = rows /\ job' = job
    BY <1>3 DEF LoseObject
  <2>2. budget' \in 0..scene'.adverse
    BY <1>0, <1>3, SpendType DEF LoseObject
  <2>3. TypeOK'
    BY <1>0, <1>3, <2>1, <2>2 DEF TypeOK, LoseObject
  <2>4. Shaped'
    BY <2>1 DEF KeptInv, Shaped, Shape
  <2> QED BY <2>1, <2>3, <2>4, TableUnchanged DEF KeptInv, TableKept
<1>4. ASSUME NEW p \in Processes, Start(p) PROVE KeptInv' /\ TableKept
  BY <1>4, StartKept
<1>5. ASSUME NEW p \in Processes, EndAcquisition(p), ~Retried(job[p])
      PROVE  KeptInv' /\ TableKept
  BY <1>5, FinishKept
<1>6. ASSUME NEW p \in Processes, Extract(p) PROVE KeptInv' /\ TableKept
  BY <1>6, ExtractKept
<1>7. ASSUME NEW p \in Processes, PersistRow(p) PROVE KeptInv' /\ TableKept
  BY <1>7, PersistKept
<1> QED BY <1>1, <1>2, <1>3, <1>4, <1>5, <1>6, <1>7, StepCases

LEMMA StutterKept == KeptInv /\ UNCHANGED vars => KeptInv'
BY DEF KeptInv, TypeOK, Shaped, Shape, OwnBytes, KeptOnce, vars

\* Every variable of the intake stays within its type.
THEOREM IntakeTypeCorrect == Spec => []TypeOK
<1>1. KeptInv => TypeOK
  BY DEF KeptInv
<1>2. KeptInv /\ [NextInScene]_vars => KeptInv'
  BY NextKept, StutterKept DEF NextInScene
<1> QED BY <1>1, <1>2, InitKept, PTL DEF Spec

\* No document of a tender is kept twice, however many processes take it in at
\* once and whatever fails on the way: between a look-up and the write that
\* follows it only the constraint on (tender_id, checksum) decides.
THEOREM DocumentsKeptOnce == Spec => []KeptOnce
<1>1. KeptInv => KeptOnce
  BY DEF KeptInv
<1>2. KeptInv /\ [NextInScene]_vars => KeptInv'
  BY NextKept, StutterKept DEF NextInScene
<1> QED BY <1>1, <1>2, InitKept, PTL DEF Spec

-----------------------------------------------------------------------------
(* What a pass knows of its failures and its documents *)

\* The rows the bundle is made from: the table, and after _load_documents the copy.
Table(j) == IF j.stage \in Reading THEN j.snapshot ELSE rows

\* A failure has a row, unless it is about to get one or recording it failed.
Known(j) ==
  ~j.blind => \A f \in j.failures :
    f.rejected \/ HasRow(Table(j), f.item) \/ (j.stage = "mark" /\ f.item = Head(j.todo))

\* The bytes of an acquired document are in a row of the document.
Held(j) == \A i \in j.docs : HasBytes(Table(j), i)

\* An outcome that is not "unread" is the failure or the format's of a stored row.
Told(j) ==
  \A n \in DOMAIN j.outcomes :
    \/ j.outcomes[n] = "unread"
    \/ /\ j.snapshot[n].status = "downloaded" /\ j.snapshot[n].content # NoContent
       /\ j.outcomes[n] \in {"failed", Extracted(j.snapshot[n].item)}

Read(j) == Known(j) /\ Held(j) /\ Told(j)
AllRead == \A p \in Processes : Read(job[p])

\* An artifact of a successful extraction is the one of the row that holds the
\* bytes: the content is the only key it has.
ArtifactsTrue ==
  \A c \in Contents : artifact[c] \in {"extracted", "blank"} =>
    \E n \in DOMAIN rows : rows[n].content = c /\ artifact[c] = Extracted(rows[n].item)

ReadInv == KeptInv /\ AllRead /\ ArtifactsTrue

LEMMA GrownHas ==
  ASSUME NEW s \in Seq(Row), NEW t \in Seq(Row), Grown(s, t), NEW i \in Items
  PROVE  /\ HasRow(s, i) => HasRow(t, i)
         /\ HasBytes(s, i) => HasBytes(t, i)
<1>1. \A n \in DOMAIN s : n \in DOMAIN t
  <2>1. Len(s) \in Nat /\ Len(t) \in Nat /\ DOMAIN s = 1..Len(s) /\ DOMAIN t = 1..Len(t)
    OBVIOUS
  <2> QED BY <2>1 DEF Grown
<1>2. Content[i] # NoContent
  BY IntakeConstants
<1> QED BY <1>1, <1>2 DEF Grown, HasRow, HasBytes

LEMMA ReadGrows ==
  ASSUME rows \in Seq(Row), rows' \in Seq(Row), Grown(rows, rows'), NEW j \in Job, Read(j)
  PROVE  Read(j)'
<1>1. /\ j.docs \subseteq Items /\ \A f \in j.failures : f.item \in Items
  <2>1. j.docs \subseteq Items /\ \A f \in j.failures : f \in Failure
    BY DEF Job
  <2> QED BY <2>1 DEF Failure
<1>2. ASSUME NEW i \in Items
      PROVE  /\ HasRow(Table(j), i) => HasRow(Table(j)', i)
             /\ HasBytes(Table(j), i) => HasBytes(Table(j)', i)
  <2>1. Table(j)' = Table(j) \/ (Table(j) = rows /\ Table(j)' = rows')
    BY DEF Table
  <2> QED BY <2>1, GrownHas
<1>3. Known(j)'
  BY <1>1, <1>2 DEF Known, Read
<1>4. Held(j)'
  BY <1>1, <1>2 DEF Held, Read
<1> QED BY <1>3, <1>4 DEF Read, Told

LEMMA ArtifactsGrow ==
  ASSUME KeptInv, ArtifactsTrue, TableKept, artifact' = artifact
  PROVE  ArtifactsTrue'
<1>1. /\ rows \in Seq(Row) /\ rows' \in Seq(Row) /\ Grown(rows, rows')
  BY DEF KeptInv, TypeOK, TableKept
<1>2. Len(rows) \in Nat /\ Len(rows') \in Nat /\ DOMAIN rows = 1..Len(rows)
      /\ DOMAIN rows' = 1..Len(rows')
  BY <1>1
<1>3. ASSUME NEW c \in Contents, NEW n \in DOMAIN rows, rows[n].content = c
      PROVE  n \in DOMAIN rows' /\ rows'[n].content = c /\ rows'[n].item = rows[n].item
  <2>1. c # NoContent
    BY IntakeConstants
  <2> QED BY <1>1, <1>2, <1>3, <2>1 DEF Grown
<1> QED BY <1>3 DEF ArtifactsTrue

\* The passes that do not move still know what they knew.
LEMMA MovedRead ==
  ASSUME KeptInv, AllRead, NEW p \in Processes, Moves(p), TableKept, Read(job[p])'
  PROVE  AllRead'
<1>1. /\ rows \in Seq(Row) /\ rows' \in Seq(Row) /\ Grown(rows, rows')
      /\ job \in [Processes -> Job]
  BY DEF KeptInv, TypeOK, TableKept
<1>2. ASSUME NEW q \in Processes, q # p PROVE Read(job[q])'
  <2>1. job'[q] = job[q] /\ job[q] \in Job /\ Read(job[q])
    BY <1>1, <1>2 DEF Moves, AllRead
  <2>2. \A j \in Job : Read(j) => Read(j)'
    BY <1>1, ReadGrows
  <2> QED BY <2>1, <2>2 DEF Read, Known, Held, Told, Table
<1> QED BY <1>2 DEF AllRead

LEMMA AdvanceRead ==
  ASSUME ReadInv, NEW p \in Processes, Advanced(p), TableKept
  PROVE  AllRead'
<1> DEFINE j == job[p]
           k == job'[p]
<1>1. /\ rows \in Seq(Row) /\ rows' \in Seq(Row) /\ Grown(rows, rows') /\ j \in Job
      /\ Read(j) /\ Shape(j) /\ j.stage \in Acquiring /\ Advance(j, k, rows') /\ k \in Job
  BY InHand DEF ReadInv, KeptInv, TypeOK, TableKept, AllRead, Advanced, Advance
<1>2. Table(j) = rows /\ Table(job[p])' = rows' /\ j.outcomes = <<>> /\ k.outcomes = <<>>
  BY <1>1 DEF Table, Shape, Acquiring, Reading, Advance
<1>3. /\ \A i \in j.docs : HasBytes(rows, i)
      /\ ~j.blind => \A f \in j.failures :
           \/ f.rejected \/ HasRow(rows, f.item)
           \/ j.stage = "mark" /\ f.item = Head(j.todo)
  BY <1>1, <1>2 DEF Read, Known, Held
<1>4. (\A i \in j.docs : i \in Items) /\ (\A f \in j.failures : f.item \in Items)
  <2>1. j.docs \subseteq Items /\ \A f \in j.failures : f \in Failure
    BY <1>1 DEF Job
  <2> QED BY <2>1 DEF Failure
<1>5. \A i \in Items : /\ HasRow(rows, i) => HasRow(rows', i)
                       /\ HasBytes(rows, i) => HasBytes(rows', i)
  BY <1>1, GrownHas
<1> HIDE DEF j, k
<1>6. \A i \in k.docs : HasBytes(rows', i)
  BY <1>1, <1>3, <1>4, <1>5 DEF Advance
<1>7. ~k.blind => \A f \in k.failures :
        f.rejected \/ HasRow(rows', f.item) \/ (k.stage = "mark" /\ f.item = Head(k.todo))
  <2> SUFFICES ASSUME ~k.blind, NEW f \in k.failures, ~f.rejected
               PROVE  \/ HasRow(rows', f.item)
                      \/ k.stage = "mark" /\ f.item = Head(k.todo)
    OBVIOUS
  <2>1. ~j.blind /\ (j.stage = "mark" => HasRow(rows', Head(j.todo)))
    BY <1>1 DEF Advance
  <2>2. CASE f \in j.failures
    BY <1>3, <1>4, <1>5, <2>1, <2>2
  <2>3. CASE k.stage = "mark" /\ f.item = Head(j.todo)
    BY <1>1, <2>3 DEF Advance
  <2> QED BY <1>1, <2>2, <2>3 DEF Advance
<1>8. Read(job[p])'
  BY <1>2, <1>6, <1>7 DEF Read, Known, Held, Told, k
<1> QED BY <1>8, MovedRead DEF ReadInv, Advanced

\* A pass whose knowledge is empty, or that changed only its company.
LEMMA BlankRead ==
  ASSUME NEW j, j.failures = {}, j.docs = {}, j.outcomes = <<>>
  PROVE  Read(j)
BY DEF Read, Known, Held, Told

LEMMA StartRead ==
  ASSUME ReadInv, NEW p \in Processes, Start(p)
  PROVE  AllRead'
<1>1. ASSUME NEW q \in Processes PROVE Read(job[q])'
  <2> DEFINE j == job[q]
             k == job'[q]
             a == job'[q].alone
  <2>1. j \in Job /\ Read(j) /\ rows' = rows
    BY InHand DEF ReadInv, AllRead, Start
  <2>2. CASE q = p
    <3> DEFINE fresh == [NoJob EXCEPT !.stage = "acquire", !.todo = Offered,
                                      !.depth = [i \in Items |-> 1], !.alone = a]
    <3>1. k = fresh
      BY <2>2, StartType DEF ReadInv
    <3> HIDE DEF a
    <3>2. fresh.failures = {} /\ fresh.docs = {} /\ fresh.outcomes = <<>>
      BY DEF NoJob
    <3> HIDE DEF fresh, k
    <3>3. k.failures = {} /\ k.docs = {} /\ k.outcomes = <<>>
      BY <3>1, <3>2
    <3> QED BY <3>3 DEF Read, Known, Held, Told, k
  <2>3. CASE q # p
    <3> DEFINE left == [j EXCEPT !.alone = a]
    <3>1. k = left
      BY <2>3, StartType DEF ReadInv
    <3> HIDE DEF a
    <3>2. /\ left.stage = j.stage /\ left.todo = j.todo /\ left.blind = j.blind
          /\ left.failures = j.failures /\ left.docs = j.docs
          /\ left.outcomes = j.outcomes /\ left.snapshot = j.snapshot
      BY <2>1 DEF Job
    <3> HIDE DEF left
    <3>3. /\ k.stage = j.stage /\ k.todo = j.todo /\ k.blind = j.blind
          /\ k.failures = j.failures /\ k.docs = j.docs
          /\ k.outcomes = j.outcomes /\ k.snapshot = j.snapshot
      BY <3>1, <3>2
    <3> HIDE DEF j, k
    <3> QED BY <2>1, <3>3 DEF Read, Known, Held, Told, Table, k
  <2> QED BY <2>2, <2>3
<1> QED BY <1>1 DEF AllRead

LEMMA FinishRead ==
  ASSUME ReadInv, NEW p \in Processes, EndAcquisition(p), ~Retried(job[p]), TableKept
  PROVE  AllRead'
<1> DEFINE j == job[p]
           k == [j EXCEPT !.stage = IF rows = <<>> THEN "bundle" ELSE "extract",
                          !.snapshot = rows]
<1>1. /\ job \in [Processes -> Job] /\ j \in Job /\ j.stage = "acquire" /\ rows' = rows
      /\ Goes(p, k) /\ Read(j) /\ j.outcomes = <<>> /\ rows \in Seq(Row)
  BY InHand DEF EndAcquisition, ReadInv, AllRead, Shape, Reading
<1>2. /\ k \in Job /\ k.stage \in Reading /\ k.blind = j.blind /\ k.snapshot = rows
      /\ k.failures = j.failures /\ k.docs = j.docs /\ k.outcomes = j.outcomes
  BY <1>1 DEF Job, Stages, Reading
<1> HIDE DEF k
<1>3. Moves(p) /\ job'[p] = k
  BY <1>1, <1>2, GoesMoves
<1>4. Table(j) = rows /\ Table(k) = rows
  BY <1>1, <1>2 DEF Table, Reading
<1>5. Read(k)
  BY <1>1, <1>2, <1>4 DEF Read, Known, Held, Told
<1>6. Read(job[p])'
  BY <1>1, <1>3, <1>5 DEF Read, Known, Held, Told, Table
<1> QED BY <1>3, <1>6, MovedRead DEF ReadInv

\* The outcome of a row says what its bytes are, also when an artifact of an
\* earlier pass is reused: no other row holds the same bytes.
LEMMA OutcomeTold ==
  ASSUME ReadInv, NEW p \in Processes, job[p].stage = "extract"
  PROVE  LET r == Snapped(p) IN
         \/ Outcome(r) = "unread"
         \/ /\ r.status = "downloaded" /\ r.content # NoContent
            /\ Outcome(r) \in {"failed", Extracted(r.item)}
<1> DEFINE r == Snapped(p)
           at == At(p)
<1>1. /\ r \in Row /\ at \in DOMAIN rows /\ rows[at].item = r.item
      /\ r.content \in {NoContent, rows[at].content}
  BY AtRow DEF ReadInv
<1>2. r.status \in {"downloaded", "failed"} /\ r.content \in Contents \cup {NoContent}
  BY <1>1 DEF Row
<1>3. ASSUME r.status = "downloaded", r.content # NoContent, Reusable(r.content)
      PROVE  artifact[r.content] = Extracted(r.item)
  <2>1. PICK n \in DOMAIN rows :
          rows[n].content = r.content /\ artifact[r.content] = Extracted(rows[n].item)
    BY <1>2, <1>3 DEF ReadInv, ArtifactsTrue, Reusable
  <2>2. rows[at].content = r.content
    BY <1>1, <1>3
  <2>3. n = at
    BY <1>1, <1>3, <2>1, <2>2 DEF ReadInv, KeptInv, KeptOnce
  <2> QED BY <1>1, <2>1, <2>3
<1>4. CASE r.status = "failed" \/ r.content = NoContent
  BY <1>4 DEF Outcome, Reusable
<1>5. CASE r.status = "downloaded" /\ r.content # NoContent
  BY <1>3, <1>5 DEF Outcome
<1> QED BY <1>2, <1>4, <1>5

LEMMA ExtractRead ==
  ASSUME ReadInv, NEW p \in Processes, Extract(p), TableKept
  PROVE  AllRead' /\ ArtifactsTrue'
<1> DEFINE j == job[p]
           r == Snapped(p)
           at == At(p)
<1>1. /\ rows \in Seq(Row) /\ rows' = rows /\ j.stage = "extract" /\ j \in Job
      /\ job \in [Processes -> Job] /\ Read(j) /\ r \in Row
      /\ artifact \in [Contents -> Outcomes \cup {"none"}]
  BY InHand, AtRow DEF Extract, ReadInv, KeptInv, TypeOK, AllRead
<1>2. PICK o \in {Outcome(r), "failed"} :
        /\ o = Outcome(r) \/ Outcome(r) \in {"extracted", "blank"}
        /\ artifact' = IF r.content = NoContent THEN artifact
                       ELSE [artifact EXCEPT ![r.content] = o]
        /\ Goes(p, [j EXCEPT !.stage = "persist", !.outcomes = Append(@, o)])
  BY DEF Extract
<1>3. \/ o = "unread"
      \/ r.status = "downloaded" /\ r.content # NoContent /\ o \in {"failed", Extracted(r.item)}
  BY <1>1, <1>2, OutcomeTold
<1>4. o \in Outcomes
  <2>1. TypeOK
    BY DEF ReadInv, KeptInv
  <2> QED BY <1>1, <1>2, <2>1, OutcomeType DEF Outcomes
<1> DEFINE k == [j EXCEPT !.stage = "persist", !.outcomes = Append(@, o)]
<1>5. /\ Append(j.outcomes, o) \in Seq(Outcomes)
      /\ DOMAIN Append(j.outcomes, o) = 1..at
      /\ Append(j.outcomes, o)[at] = o /\ at - 1 = Len(j.outcomes) /\ at \in Nat
      /\ \A n \in 1..(at - 1) : n \in DOMAIN j.outcomes /\ Append(j.outcomes, o)[n] = j.outcomes[n]
  <2>1. j.outcomes \in Seq(Outcomes) /\ at = Len(j.outcomes) + 1
    BY <1>1, AtRow DEF ReadInv
  <2> HIDE DEF at
  <2> QED BY <1>4, <2>1
<1>6. /\ k \in Job /\ k.stage = "persist" /\ k.todo = j.todo /\ k.blind = j.blind
      /\ k.outcomes = Append(j.outcomes, o) /\ k.snapshot = j.snapshot
      /\ k.failures = j.failures /\ k.docs = j.docs
  BY <1>1, <1>5 DEF Job, Stages
<1>7. Goes(p, k)
  BY <1>2
<1> HIDE DEF k
<1>8. Moves(p) /\ job'[p] = k
  BY <1>1, <1>6, <1>7, GoesMoves
<1>9. Told(k)
  <2>1. j.snapshot[at] = r
    BY DEF Snapped
  <2> HIDE DEF at, r
  <2>2. ASSUME NEW n \in 1..at
        PROVE  \/ k.outcomes[n] = "unread"
               \/ /\ k.snapshot[n].status = "downloaded" /\ k.snapshot[n].content # NoContent
                  /\ k.outcomes[n] \in {"failed", Extracted(k.snapshot[n].item)}
    <3>1. CASE n = at
      BY <1>3, <1>5, <1>6, <2>1, <3>1
    <3>2. CASE n # at
      <4>1. n \in 1..(at - 1)
        BY <1>5, <3>2
      <4> QED BY <1>1, <1>5, <1>6, <4>1 DEF Read, Told
    <3> QED BY <3>1, <3>2
  <2> QED BY <1>5, <1>6, <2>2 DEF Told
<1>10. Known(k) /\ Held(k)
  <2>1. Table(k) = Table(j)
    BY <1>1, <1>6 DEF Table, Reading
  <2> HIDE DEF j
  <2> QED BY <1>1, <1>6, <2>1 DEF Read, Known, Held, j
<1>11. Read(job[p])'
  BY <1>1, <1>8, <1>9, <1>10 DEF Read, Known, Held, Told, Table
<1>12. AllRead'
  BY <1>8, <1>11, MovedRead DEF ReadInv
<1>13. ArtifactsTrue'
  <2>1. /\ at \in DOMAIN rows /\ rows[at].item = r.item
        /\ r.content \in {NoContent, rows[at].content}
    BY <1>1, AtRow DEF ReadInv
  <2> HIDE DEF at, r
  <2> SUFFICES ASSUME NEW c \in Contents, artifact'[c] \in {"extracted", "blank"}
               PROVE  \E n \in DOMAIN rows : /\ rows[n].content = c
                                            /\ artifact'[c] = Extracted(rows[n].item)
    BY <1>1 DEF ArtifactsTrue
  <2>2. CASE artifact'[c] = artifact[c]
    BY <2>2 DEF ReadInv, ArtifactsTrue
  <2>3. CASE artifact'[c] # artifact[c]
    <3>1. r.content = c /\ r.content # NoContent /\ artifact'[c] = o
      BY <1>1, <1>2, <2>3
    <3>2. o = Extracted(r.item)
      BY <1>3, <3>1
    <3> QED BY <2>1, <3>1, <3>2
  <2> QED BY <2>2, <2>3
<1> QED BY <1>12, <1>13

LEMMA PersistRead ==
  ASSUME ReadInv, NEW p \in Processes, PersistRow(p), TableKept
  PROVE  AllRead'
<1> DEFINE j == job[p]
           n == Len(j.outcomes)
           k == [j EXCEPT !.stage = IF n = Len(j.snapshot) THEN "bundle" ELSE "extract"]
<1>1. /\ Moves(p) /\ job'[p] = k
      /\ k.stage = (IF n = Len(j.snapshot) THEN "bundle" ELSE "extract")
      /\ k.todo = j.todo /\ k.outcomes = j.outcomes /\ k.snapshot = j.snapshot
      /\ k.docs = j.docs /\ k.failures = j.failures /\ k.blind = j.blind
  BY PersistFacts DEF ReadInv
<1>2. Read(j) /\ j.stage = "persist"
  BY DEF ReadInv, AllRead, PersistRow
<1> HIDE DEF k
<1>3. k.stage \in Reading /\ k.stage # "mark" /\ Table(k) = j.snapshot /\ Table(j) = j.snapshot
  BY <1>1, <1>2 DEF Table, Reading
<1>4. Table(job[p])' = j.snapshot
  BY <1>1, <1>3 DEF Table
<1> HIDE DEF j, n
<1>5. Read(job[p])'
  BY <1>1, <1>2, <1>3, <1>4 DEF Read, Known, Held, Told, j
<1> QED BY <1>1, <1>5, MovedRead DEF ReadInv

LEMMA InitRead == Init => ReadInv
<1> SUFFICES ASSUME Init PROVE ReadInv
  OBVIOUS
<1>1. KeptInv
  BY InitKept
<1>2. NoJob.failures = {} /\ NoJob.docs = {} /\ NoJob.outcomes = <<>>
  BY DEF NoJob
<1>3. AllRead
  BY <1>2, BlankRead DEF Init, AllRead
<1>4. ArtifactsTrue
  BY DEF Init, ArtifactsTrue
<1> QED BY <1>1, <1>3, <1>4 DEF ReadInv

LEMMA NextRead == ASSUME ReadInv, Next, scene' = scene PROVE ReadInv'
<1>0. KeptInv /\ KeptInv' /\ TableKept
  BY NextKept DEF ReadInv
<1>1. ASSUME NEW p \in Processes, Acquires(p) PROVE AllRead' /\ artifact' = artifact
  BY <1>0, <1>1, AcquiresAdvances, AdvanceRead
<1>2. ASSUME NEW p \in Processes, WriteBundle(p) \/ Crash(p)
      PROVE  AllRead' /\ artifact' = artifact
  <2>1. Goes(p, NoJob) /\ artifact' = artifact
    BY <1>2 DEF WriteBundle, Crash
  <2>2. Moves(p) /\ job'[p] = NoJob
    BY <1>0, <2>1, InHand, NoJobType, GoesMoves
  <2>3. NoJob.failures = {} /\ NoJob.docs = {} /\ NoJob.outcomes = <<>>
    BY DEF NoJob
  <2>4. Read(job[p])'
    BY <2>2, <2>3 DEF Read, Known, Held, Told
  <2> QED BY <1>0, <2>1, <2>2, <2>4, MovedRead DEF ReadInv
<1>3. ASSUME NEW i \in Items, LoseObject(i) PROVE AllRead' /\ artifact' = artifact
  BY <1>3 DEF LoseObject, ReadInv, AllRead, Read, Known, Held, Told, Table
<1>4. ASSUME NEW p \in Processes, Start(p) PROVE AllRead' /\ artifact' = artifact
  BY <1>4, StartRead DEF Start
<1>5. ASSUME NEW p \in Processes, EndAcquisition(p), ~Retried(job[p])
      PROVE  AllRead' /\ artifact' = artifact
  BY <1>0, <1>5, FinishRead DEF EndAcquisition
<1>6. ASSUME NEW p \in Processes, PersistRow(p) PROVE AllRead' /\ artifact' = artifact
  BY <1>0, <1>6, PersistRead DEF PersistRow
<1>7. ASSUME NEW p \in Processes, Extract(p) PROVE AllRead' /\ ArtifactsTrue'
  BY <1>0, <1>7, ExtractRead
<1>8. artifact' = artifact => ArtifactsTrue'
  BY <1>0, ArtifactsGrow DEF ReadInv
<1>9. AllRead' /\ ArtifactsTrue'
  BY <1>1, <1>2, <1>3, <1>4, <1>5, <1>6, <1>7, <1>8, StepCases
<1> QED BY <1>0, <1>9 DEF ReadInv

LEMMA StutterRead == ReadInv /\ UNCHANGED vars => ReadInv'
<1>1. KeptInv /\ UNCHANGED vars => KeptInv'
  BY StutterKept
<1>2. AllRead /\ UNCHANGED vars => AllRead'
  BY DEF AllRead, Read, Known, Held, Told, Table, vars
<1>3. ArtifactsTrue /\ UNCHANGED vars => ArtifactsTrue'
  BY DEF ArtifactsTrue, vars
<1> QED BY <1>1, <1>2, <1>3 DEF ReadInv

LEMMA ReadAlways == Spec => []ReadInv
<1>1. ReadInv /\ [NextInScene]_vars => ReadInv'
  BY NextRead, StutterRead DEF NextInScene
<1> QED BY <1>1, InitRead, PTL DEF Spec

\* One row that was not read makes the bundle incomplete.
LEMMA UnreadIsIncomplete ==
  ASSUME NEW outcomes, NEW n \in DOMAIN outcomes, outcomes[n] \in {"failed", "unread"}
  PROVE  Incomplete(outcomes)
<1>1. outcomes[n] \in Range(outcomes)
  BY DEF Range
<1> QED BY <1>1 DEF Incomplete

\* The rows of a bundle and their outcomes.
LEMMA BundleRows ==
  ASSUME ReadInv, NEW p \in Processes, job[p].stage = "bundle"
  PROVE  /\ Table(job[p]) = job[p].snapshot /\ job[p].snapshot \in Seq(Row)
         /\ DOMAIN job[p].snapshot = DOMAIN job[p].outcomes /\ Read(job[p])
         /\ Grown(job[p].snapshot, rows)
<1>1. /\ job[p].snapshot \in Seq(Row) /\ job[p].outcomes \in Seq(Outcomes)
      /\ Len(job[p].outcomes) = Len(job[p].snapshot) /\ Grown(job[p].snapshot, rows)
  BY InHand DEF ReadInv, Job, Shape
<1>2. DOMAIN job[p].snapshot = DOMAIN job[p].outcomes
  BY <1>1
<1> QED BY <1>1, <1>2 DEF ReadInv, AllRead, Table, Reading

\* Whatever fails and whoever else takes the tender in, a document whose
\* download failed leaves the bundle incomplete or has a row that another
\* process filled meanwhile, unless recording the failure failed as well.
THEOREM FailuresAreFlagged == Spec => []FailureIsFlagged
<1>1. ASSUME ReadInv PROVE FailureIsFlagged
  <2> SUFFICES ASSUME NEW p \in Processes, job[p].stage = "bundle", ~job[p].blind,
                      NEW f \in job[p].failures, ~f.rejected
               PROVE  \/ Incomplete(job[p].outcomes)
                      \/ \E n \in DOMAIN job[p].snapshot :
                           /\ job[p].snapshot[n].item = f.item
                           /\ job[p].snapshot[n].status = "downloaded"
    BY DEF FailureIsFlagged
  <2> DEFINE j == job[p]
  <2>1. PICK n \in DOMAIN j.snapshot : j.snapshot[n].item = f.item
    BY <1>1, BundleRows DEF Read, Known, HasRow
  <2>2. n \in DOMAIN j.outcomes
    BY <1>1, <2>1, BundleRows
  <2>3. j.outcomes[n] = "unread" \/ j.snapshot[n].status = "downloaded"
    BY <1>1, <2>2, BundleRows DEF Read, Told
  <2> QED BY <2>1, <2>2, <2>3, UnreadIsIncomplete
<1> QED BY <1>1, ReadAlways, PTL

\* A document a pass acquired with text in it reaches the bundle as text or
\* leaves it incomplete, also when its bytes are another attachment's, its
\* object is gone or an earlier extraction of the bytes failed.
THEOREM AcquiredDocumentsAreRead == Spec => []AcquiredIsRead
<1>1. ASSUME ReadInv PROVE AcquiredIsRead
  <2> SUFFICES ASSUME NEW p \in Processes, job[p].stage = "bundle",
                      NEW i \in job[p].docs, Format[i] = "text"
               PROVE  \/ Incomplete(job[p].outcomes)
                      \/ \E n \in DOMAIN job[p].snapshot :
                           /\ job[p].snapshot[n].content = Content[i]
                           /\ job[p].outcomes[n] = "extracted"
    BY DEF AcquiredIsRead
  <2> DEFINE j == job[p]
  <2>1. PICK n \in DOMAIN j.snapshot :
          j.snapshot[n].item = i /\ j.snapshot[n].content = Content[i]
    BY <1>1, BundleRows DEF Read, Held, HasBytes
  <2>2. n \in DOMAIN j.outcomes
    BY <1>1, <2>1, BundleRows
  <2>3. j.outcomes[n] \in {"unread", "failed", Extracted(i)}
    BY <1>1, <2>1, <2>2, BundleRows DEF Read, Told
  <2>4. Extracted(i) = "extracted"
    BY DEF Extracted
  <2> QED BY <2>1, <2>2, <2>3, <2>4, UnreadIsIncomplete
<1> QED BY <1>1, ReadAlways, PTL

-----------------------------------------------------------------------------
(* A pass that no other process joined repairs the rows *)

\* A pass that is alone has the tender to itself.
AloneIsAlone ==
  \A p, q \in Processes :
    job[p].stage # "idle" /\ job[p].alone /\ q # p => job[q].stage = "idle"

\* The rows are the ones the pass copied; each one it is done with agrees with
\* its artifact, and the last one is written next.
Repairs(j) ==
  /\ Len(rows) = Len(j.snapshot)
  /\ \A n \in DOMAIN rows : rows[n].content = j.snapshot[n].content
  /\ \A n \in DOMAIN j.outcomes : rows[n].content # NoContent =>
       /\ artifact[rows[n].content] = j.outcomes[n]
       /\ \/ j.stage = "persist" /\ n = Len(j.outcomes)
          \/ rows[n].extraction = j.outcomes[n]

AloneRepairs ==
  \A p \in Processes : job[p].stage \in Reading /\ job[p].alone => Repairs(job[p])

RepairInv == KeptInv /\ AloneIsAlone /\ AloneRepairs

LEMMA InitRepair == Init => RepairInv
<1> SUFFICES ASSUME Init PROVE RepairInv
  OBVIOUS
<1>1. \A p \in Processes : job[p].stage = "idle"
  BY DEF Init, NoJob
<1> QED BY <1>1, InitKept DEF RepairInv, AloneIsAlone, AloneRepairs, Reading

\* While a pass moves, no other one is alone.
LEMMA MovedAlone ==
  ASSUME RepairInv, NEW p \in Processes, Moves(p), job[p].stage # "idle",
         job'[p].stage = "idle" \/ job'[p].alone = job[p].alone
  PROVE  /\ AloneIsAlone'
         /\ \A q \in Processes : q # p => ~(job'[q].stage \in Reading /\ job'[q].alone)
<1>1. ASSUME NEW q \in Processes, q # p
      PROVE  job'[q] = job[q] /\ ~(job'[q].stage # "idle" /\ job'[q].alone)
  BY <1>1 DEF Moves, RepairInv, AloneIsAlone
<1>2. \A q \in Processes : q # p /\ job'[p].stage # "idle" /\ job'[p].alone =>
        job'[q].stage = "idle"
  BY DEF Moves, RepairInv, AloneIsAlone
<1>3. AloneIsAlone'
  BY <1>1, <1>2 DEF AloneIsAlone
<1> QED BY <1>1, <1>3 DEF Reading

LEMMA StartRepair ==
  ASSUME RepairInv, NEW p \in Processes, Start(p)
  PROVE  AloneIsAlone' /\ AloneRepairs'
<1>1. ASSUME NEW q \in Processes, q # p
      PROVE  /\ job'[q].stage = job[q].stage
             /\ job'[q].alone = (job[q].alone /\ job[q].stage = "idle")
  <2> DEFINE a == job'[q].alone
             left == [job[q] EXCEPT !.alone = a]
  <2>1. job'[q] = left /\ a = (job[q].alone /\ job[q].stage = "idle")
    BY <1>1, StartType DEF RepairInv
  <2>2. job[q] \in Job
    BY InHand DEF RepairInv
  <2> HIDE DEF a
  <2>3. left.stage = job[q].stage
    BY <2>2 DEF Job
  <2> HIDE DEF left
  <2> QED BY <2>1, <2>3 DEF a
<1>2. /\ job'[p].stage = "acquire"
      /\ job'[p].alone = (\A o \in Processes : job[o].stage = "idle")
  <2> DEFINE a == job'[p].alone
             fresh == [NoJob EXCEPT !.stage = "acquire", !.todo = Offered,
                                    !.depth = [i \in Items |-> 1], !.alone = a]
  <2>1. job'[p] = fresh /\ a = (\A o \in Processes : job[o].stage = "idle")
    BY StartType DEF RepairInv
  <2> HIDE DEF a
  <2>2. fresh.stage = "acquire"
    BY DEF NoJob
  <2> HIDE DEF fresh
  <2> QED BY <2>1, <2>2 DEF a
<1>3. \A q \in Processes : q # p /\ job'[q].stage # "idle" => ~job'[q].alone
  BY <1>1, Zenon
<1>4. job'[p].alone => \A q \in Processes : q # p => job'[q].stage = "idle"
  BY <1>1, <1>2, Zenon
<1>5. AloneIsAlone'
  BY <1>3, <1>4, Zenon DEF AloneIsAlone
<1>6. ASSUME NEW q \in Processes PROVE ~(job'[q].stage \in Reading /\ job'[q].alone)
  <2>1. "acquire" \notin Reading /\ "idle" \notin Reading
    BY DEF Reading
  <2> QED BY <1>2, <1>3, <2>1, Zenon
<1> QED BY <1>5, <1>6, Zenon DEF AloneRepairs

LEMMA FinishRepair ==
  ASSUME RepairInv, NEW p \in Processes, EndAcquisition(p), ~Retried(job[p])
  PROVE  AloneIsAlone' /\ AloneRepairs'
<1> DEFINE j == job[p]
           k == [j EXCEPT !.stage = IF rows = <<>> THEN "bundle" ELSE "extract",
                          !.snapshot = rows]
<1>1. /\ job \in [Processes -> Job] /\ j \in Job /\ j.stage = "acquire" /\ rows' = rows
      /\ Goes(p, k) /\ j.outcomes = <<>> /\ rows \in Seq(Row)
  BY InHand DEF EndAcquisition, RepairInv, Shape, Reading
<1>2. /\ k \in Job /\ k.snapshot = rows /\ k.outcomes = <<>> /\ k.alone = j.alone
  BY <1>1 DEF Job, Stages
<1> HIDE DEF k
<1>3. Moves(p) /\ job'[p] = k
  BY <1>1, <1>2, GoesMoves
<1>4. /\ AloneIsAlone'
      /\ \A q \in Processes : q # p => ~(job'[q].stage \in Reading /\ job'[q].alone)
  BY <1>1, <1>2, <1>3, MovedAlone
<1>5. Repairs(job[p])'
  BY <1>1, <1>2, <1>3 DEF Repairs
<1> QED BY <1>4, <1>5 DEF AloneRepairs

LEMMA ExtractRepair ==
  ASSUME RepairInv, NEW p \in Processes, Extract(p)
  PROVE  AloneIsAlone' /\ AloneRepairs'
<1> DEFINE j == job[p]
           r == Snapped(p)
           at == At(p)
<1>1. /\ rows \in Seq(Row) /\ rows' = rows /\ j.stage = "extract" /\ j \in Job
      /\ job \in [Processes -> Job] /\ r \in Row /\ KeptOnce /\ TypeOK /\ Shape(j)
      /\ artifact \in [Contents -> Outcomes \cup {"none"}]
      /\ at \in DOMAIN rows /\ j.snapshot[at] = r
  BY InHand, AtRow DEF Extract, RepairInv, KeptInv, TypeOK, Snapped
<1>2. PICK o \in {Outcome(r), "failed"} :
        /\ artifact' = IF r.content = NoContent THEN artifact
                       ELSE [artifact EXCEPT ![r.content] = o]
        /\ Goes(p, [j EXCEPT !.stage = "persist", !.outcomes = Append(@, o)])
  BY DEF Extract
<1>3. o \in Outcomes
  BY <1>1, OutcomeType DEF Outcomes
<1> DEFINE k == [j EXCEPT !.stage = "persist", !.outcomes = Append(@, o)]
<1>4. /\ Append(j.outcomes, o) \in Seq(Outcomes)
      /\ DOMAIN Append(j.outcomes, o) = 1..at /\ Len(Append(j.outcomes, o)) = at
      /\ Append(j.outcomes, o)[at] = o /\ at - 1 = Len(j.outcomes) /\ at \in Nat
      /\ \A n \in 1..(at - 1) : n \in DOMAIN j.outcomes /\ Append(j.outcomes, o)[n] = j.outcomes[n]
  <2>1. j.outcomes \in Seq(Outcomes) /\ at = Len(j.outcomes) + 1
    BY <1>1, AtRow DEF RepairInv
  <2> HIDE DEF at
  <2> QED BY <1>3, <2>1
<1>5. /\ k \in Job /\ k.stage = "persist" /\ k.outcomes = Append(j.outcomes, o)
      /\ k.snapshot = j.snapshot /\ k.alone = j.alone
  BY <1>1, <1>4 DEF Job, Stages
<1>6. Goes(p, k)
  BY <1>2
<1> HIDE DEF k
<1>7. Moves(p) /\ job'[p] = k
  BY <1>1, <1>5, <1>6, GoesMoves
<1>8. /\ AloneIsAlone'
      /\ \A q \in Processes : q # p => ~(job'[q].stage \in Reading /\ job'[q].alone)
  BY <1>1, <1>5, <1>7, MovedAlone
<1>9. ASSUME j.alone PROVE Repairs(job[p])'
  <2>1. Repairs(j)
    BY <1>1, <1>9 DEF RepairInv, AloneRepairs, Reading
  <2>2. /\ Len(rows) = Len(k.snapshot)
        /\ \A n \in DOMAIN rows : rows[n].content = k.snapshot[n].content
    BY <1>5, <2>1 DEF Repairs
  <2>3. rows[at].content = r.content
    BY <1>1, <2>1 DEF Repairs
  <2>4. \A n \in 1..at : n \in DOMAIN rows
    <3> HIDE DEF at
    <3> QED BY <1>1, <1>4
  <2>5. \A n \in DOMAIN rows : rows[n].content \in Contents \cup {NoContent}
    <3>1. \A n \in DOMAIN rows : rows[n] \in Row
      BY <1>1
    <3> QED BY <3>1 DEF Row
  <2> HIDE DEF at, r, j
  <2>6. ASSUME NEW n \in 1..at, rows[n].content # NoContent
        PROVE  /\ artifact'[rows[n].content] = k.outcomes[n]
               /\ n = at \/ rows[n].extraction = k.outcomes[n]
    <3>1. CASE n = at
      BY <1>1, <1>2, <1>4, <1>5, <2>3, <2>4, <2>5, <2>6, <3>1
    <3>2. CASE n # at
      <4>1. n \in 1..(at - 1)
        BY <1>4, <3>2
      <4>2. /\ artifact[rows[n].content] = j.outcomes[n] /\ rows[n].extraction = j.outcomes[n]
            /\ k.outcomes[n] = j.outcomes[n]
        BY <1>1, <1>4, <1>5, <2>1, <2>6, <4>1 DEF Repairs
      <4>3. rows[n].content # r.content
        BY <1>1, <2>3, <2>4, <2>6, <3>2 DEF KeptOnce
      <4>4. artifact'[rows[n].content] = artifact[rows[n].content]
        BY <1>1, <1>2, <2>4, <2>5, <2>6, <4>3
      <4> QED BY <4>2, <4>4
    <3> QED BY <3>1, <3>2
  <2> QED BY <1>1, <1>4, <1>5, <1>7, <2>2, <2>6 DEF Repairs, j
<1> QED BY <1>5, <1>7, <1>8, <1>9 DEF AloneRepairs

LEMMA PersistRepair ==
  ASSUME RepairInv, NEW p \in Processes, PersistRow(p)
  PROVE  AloneIsAlone' /\ AloneRepairs'
<1> DEFINE j == job[p]
           n == Len(j.outcomes)
           k == job'[p]
<1>1. /\ n \in 1..Len(j.snapshot) /\ n \in DOMAIN rows
      /\ rows' = [rows EXCEPT ![n] = [rows[n] EXCEPT !.extraction = j.outcomes[n]]]
      /\ Moves(p) /\ k.outcomes = j.outcomes /\ k.snapshot = j.snapshot
      /\ k.alone = j.alone
  BY PersistFacts DEF RepairInv
<1>2. rows \in Seq(Row) /\ j.stage = "persist" /\ artifact' = artifact
  BY InHand DEF PersistRow, RepairInv
<1>3. /\ AloneIsAlone'
      /\ \A q \in Processes : q # p => ~(job'[q].stage \in Reading /\ job'[q].alone)
  BY <1>1, <1>2, MovedAlone
<1>4. ASSUME j.alone PROVE Repairs(job[p])'
  <2>1. Repairs(j)
    BY <1>2, <1>4 DEF RepairInv, AloneRepairs, Reading
  <2>2. /\ Len(rows') = Len(rows) /\ DOMAIN rows' = DOMAIN rows
        /\ \A m \in DOMAIN rows : /\ rows'[m].content = rows[m].content
                                 /\ m # n => rows'[m].extraction = rows[m].extraction
        /\ rows'[n].extraction = j.outcomes[n]
    <3> DEFINE row == [rows[n] EXCEPT !.extraction = j.outcomes[n]]
    <3>1. rows[n] \in Row
      BY <1>1, <1>2
    <3>2. row.content = rows[n].content /\ row.extraction = j.outcomes[n]
      BY <3>1 DEF Row
    <3> HIDE DEF row, n
    <3>3. rows' = [rows EXCEPT ![n] = row]
      BY <1>1 DEF row
    <3>4. /\ DOMAIN rows' = DOMAIN rows /\ rows'[n] = row
          /\ \A m \in DOMAIN rows : m # n => rows'[m] = rows[m]
      BY <1>1, <1>2, <3>3
    <3>5. Len(rows') = Len(rows)
      BY <1>1, <1>2, <3>3
    <3> QED BY <3>2, <3>4, <3>5
  <2>3. \A m \in DOMAIN j.outcomes : m \in DOMAIN rows
    <3>1. j.outcomes \in Seq(Outcomes) /\ rows \in Seq(Row) /\ j.snapshot \in Seq(Row)
      BY InHand DEF RepairInv, Job
    <3>2. DOMAIN j.outcomes = 1..n /\ n \in Nat /\ DOMAIN rows = 1..Len(rows)
      BY <3>1
    <3> HIDE DEF n
    <3> QED BY <1>1, <3>1, <3>2
  <2> HIDE DEF j, k
  <2>4. /\ Len(rows') = Len(k.snapshot)
        /\ \A m \in DOMAIN rows' : rows'[m].content = k.snapshot[m].content
        /\ \A m \in DOMAIN k.outcomes : rows'[m].content # NoContent =>
             /\ artifact'[rows'[m].content] = k.outcomes[m]
             /\ rows'[m].extraction = k.outcomes[m]
    BY <1>1, <1>2, <2>1, <2>2, <2>3 DEF Repairs
  <2> QED BY <2>4 DEF Repairs, k
<1> QED BY <1>1, <1>3, <1>4 DEF AloneRepairs

LEMMA NextRepair == ASSUME RepairInv, Next, scene' = scene PROVE RepairInv'
<1>0. KeptInv /\ KeptInv'
  BY NextKept DEF RepairInv
<1>1. ASSUME NEW p \in Processes, Acquires(p) PROVE AloneIsAlone' /\ AloneRepairs'
  <2>1. /\ Moves(p) /\ job[p].stage \in Acquiring /\ job'[p].stage \in Acquiring
        /\ job'[p].alone = job[p].alone
    BY <1>0, <1>1, AcquiresAdvances DEF Advanced, Advance
  <2>2. job[p].stage # "idle" /\ job'[p].stage \notin Reading
    BY <2>1 DEF Acquiring, Reading
  <2> QED BY <2>1, <2>2, MovedAlone DEF AloneRepairs
<1>2. ASSUME NEW p \in Processes, WriteBundle(p) \/ Crash(p)
      PROVE  AloneIsAlone' /\ AloneRepairs'
  <2>1. Goes(p, NoJob) /\ job[p].stage # "idle"
    BY <1>2 DEF WriteBundle, Crash
  <2>2. Moves(p) /\ job'[p] = NoJob
    BY <1>0, <2>1, InHand, NoJobType, GoesMoves
  <2>3. job'[p].stage = "idle" /\ job'[p].stage \notin Reading
    BY <2>2 DEF NoJob, Reading
  <2> QED BY <2>1, <2>2, <2>3, MovedAlone DEF AloneRepairs
<1>3. ASSUME NEW i \in Items, LoseObject(i) PROVE AloneIsAlone' /\ AloneRepairs'
  BY <1>3 DEF LoseObject, RepairInv, AloneIsAlone, AloneRepairs, Repairs
<1>4. ASSUME NEW p \in Processes,
             \/ Start(p) \/ (EndAcquisition(p) /\ ~Retried(job[p]))
             \/ Extract(p) \/ PersistRow(p)
      PROVE  AloneIsAlone' /\ AloneRepairs'
  BY <1>4, StartRepair, FinishRepair, ExtractRepair, PersistRepair
<1>5. AloneIsAlone' /\ AloneRepairs'
  BY <1>1, <1>2, <1>3, <1>4, StepCases
<1> QED BY <1>0, <1>5 DEF RepairInv

LEMMA StutterRepair == RepairInv /\ UNCHANGED vars => RepairInv'
<1>1. KeptInv /\ UNCHANGED vars => KeptInv'
  BY StutterKept
<1>2. AloneIsAlone /\ AloneRepairs /\ UNCHANGED vars => AloneIsAlone' /\ AloneRepairs'
  BY DEF AloneIsAlone, AloneRepairs, Repairs, vars
<1> QED BY <1>1, <1>2 DEF RepairInv

\* A pass that has the tender to itself ends with every row in agreement with
\* its artifact, whatever an earlier crash, fault or pass of another process
\* left in the two of them.
THEOREM PassesRepairRows == Spec => []PassRepairsRows
<1>1. ASSUME RepairInv PROVE PassRepairsRows
  <2> SUFFICES ASSUME NEW p \in Processes, job[p].stage = "bundle", job[p].alone,
                      NEW n \in DOMAIN rows, rows[n].content # NoContent
               PROVE  rows[n].extraction = artifact[rows[n].content]
    BY DEF PassRepairsRows
  <2> DEFINE j == job[p]
  <2>1. Repairs(j)
    BY <1>1 DEF RepairInv, AloneRepairs, Reading
  <2>2. n \in DOMAIN j.outcomes
    <3>1. /\ j.outcomes \in Seq(Outcomes) /\ rows \in Seq(Row)
          /\ Len(j.outcomes) = Len(j.snapshot)
      BY <1>1, InHand DEF RepairInv, Job, Shape
    <3> QED BY <2>1, <3>1 DEF Repairs
  <2> QED BY <2>1, <2>2 DEF Repairs
<1>2. RepairInv /\ [NextInScene]_vars => RepairInv'
  BY NextRepair, StutterRepair DEF NextInScene
<1> QED BY <1>1, <1>2, InitRepair, PTL DEF Spec
=============================================================================
