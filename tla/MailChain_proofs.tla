---------------------------- MODULE MailChain_proofs ----------------------------
(* The requests a provider gets in one usage window, the lease on its recovery *)
(* probe, and the breakers of one instance that works alone: for any number of *)
(* instances, providers, attempts and adverse events, and any limit.           *)
EXTENDS MailChain, FiniteSetTheorems, TLAPS

Places == {"idle", "walk", "closing"} \cup Working

\* What holds of instance w at place a with chain c: the walk stays among the
\* configured providers, starts each one afresh and stops at the attempts.
Walks(w, a, c) ==
  /\ c \in Chain /\ a \in Places
  /\ a # "idle" => w \in scene.active
  /\ c.at <= scene.last
  /\ a = "walk" => c.tries = 0
  /\ a \in {"claimed", "ready"} => c.tries < Attempts
WalkInv == TypeOK /\ \A w \in Workers : Walks(w, pc[w], chain[w])

\* instances that have reserved a request of provider p and not sent it yet
Ready(p) == {w \in scene.active : pc[w] = "ready" /\ chain[w].at = p}
\* Every request of the window was reserved in it, or before it and then sent by an
\* instance that can hold one reservation only.
ReservedInv ==
  \A p \in Providers :
    sent[p] + Cardinality(Ready(p)) <= used[p] + Cardinality(scene.active)
ChainInv == WalkInv /\ ReservedInv

-----------------------------------------------------------------------------
(* Breakers and chains *)

LEMMA SceneType ==
  ASSUME TypeOK
  PROVE  /\ scene.active \subseteq Workers /\ IsFiniteSet(scene.active)
         /\ scene.last \in 1..LastProvider /\ scene.threshold \in 1..Threshold
         /\ scene.adverse \in Nat /\ Cardinality(scene.active) \in Nat
         /\ scene.tripped \subseteq Providers
<1>1. /\ scene.active \subseteq Workers /\ scene.last \in 1..LastProvider
      /\ scene.threshold \in 1..Threshold /\ scene.adverse \in Nat
      /\ scene.tripped \subseteq Providers
  BY MailChainConstants DEF TypeOK, Providers
<1> QED BY <1>1, MailChainConstants, FS_Subset, FS_CardinalityType

LEMMA ChainParts ==
  ASSUME NEW c \in Chain
  PROVE  /\ c.at \in Providers /\ c.tries \in 0..Attempts /\ c.copy \in [Providers -> Breaker]
         /\ c.copy[c.at] \in Breaker
BY DEF Chain

LEMMA BreakerSteps ==
  ASSUME TypeOK, NEW b \in Breaker
  PROVE  /\ Probed(b) \in Breaker /\ RecordFailure(b) \in Breaker /\ CancelProbe(b) \in Breaker
         /\ Leased(b) \in Breaker /\ Closed \in Breaker
         /\ [b EXCEPT !.left = Elapsed(b.left)] \in Breaker /\ [b EXCEPT !.probe = FALSE] \in Breaker
<1>1. Cooldown \in 0..Cooldown /\ Elapsed(b.left) \in 0..Cooldown
  BY MailChainConstants DEF Breaker, Elapsed
<1>2. Capped(b.failures + 1, scene.threshold) \in 0..Threshold
  BY SceneType, MailChainConstants DEF Capped, Breaker
<1>3. RecordFailure(b) \in Breaker
  BY <1>1, <1>2 DEF RecordFailure, Breaker
<1>4. Closed \in Breaker
  BY MailChainConstants DEF Closed, Breaker
<1> QED BY <1>1, <1>3, <1>4 DEF Breaker, Probed, CancelProbe, Leased

\* a chain whose breaker of the current provider is replaced
LEMMA CopyType ==
  ASSUME NEW c \in Chain, NEW b \in Breaker
  PROVE  /\ [c EXCEPT !.copy[c.at] = b] \in Chain
         /\ [c EXCEPT !.copy[c.at] = b].at = c.at /\ [c EXCEPT !.copy[c.at] = b].tries = c.tries
BY DEF Chain

LEMMA NoChainWalks ==
  ASSUME TypeOK, NEW w
  PROVE  Walks(w, "idle", NoChain)
<1>1. Closed \in Breaker
  BY MailChainConstants DEF Closed, Breaker
<1>2. NoChain \in Chain /\ NoChain.at = 1
  BY <1>1, MailChainConstants DEF NoChain, Chain, Providers
<1> QED BY <1>2, SceneType DEF Walks, Places

\* the next provider, or the end of the walk
LEMMA AdvanceWays ==
  ASSUME TypeOK, NEW w \in scene.active, NEW c \in Chain, c.at <= scene.last, Advance(w, c)
  PROVE  \E a \in {"walk", "closing"}, d \in Chain :
            /\ Walks(w, a, d)
            /\ pc' = [pc EXCEPT ![w] = a] /\ chain' = [chain EXCEPT ![w] = d]
<1>1. CASE c.at = scene.last
  <2>1. Walks(w, "closing", c)
    BY DEF Walks, Places
  <2> QED BY <1>1, <2>1 DEF Advance
<1>2. CASE c.at # scene.last
  <2> DEFINE d == [c EXCEPT !.at = @ + 1, !.tries = 0]
  <2>1. c.at + 1 \in Providers /\ c.at + 1 <= scene.last /\ 0 \in 0..Attempts
    BY <1>2, SceneType, ChainParts, MailChainConstants DEF Providers
  <2>2. d \in Chain /\ d.at = c.at + 1 /\ d.tries = 0
    BY <2>1 DEF Chain
  <2>3. pc' = [pc EXCEPT ![w] = "walk"] /\ chain' = [chain EXCEPT ![w] = d]
    BY <1>2 DEF Advance
  <2> HIDE DEF d
  <2>4. Walks(w, "walk", d)
    BY <2>1, <2>2 DEF Walks, Places
  <2> QED BY <2>2, <2>3, <2>4
<1> QED BY <1>1, <1>2

-----------------------------------------------------------------------------
(* Steps of one instance *)

\* Instance w goes to a with chain d and leaves the others alone.
Moves(w, a, d) == /\ pc' = [pc EXCEPT ![w] = a] /\ chain' = [chain EXCEPT ![w] = d]
                  /\ Walks(w, a, d)

LEMMA MovesWalk ==
  ASSUME WalkInv, NEW w \in Workers, NEW a, NEW d, Moves(w, a, d), scene' = scene
  PROVE  /\ pc' \in [Workers -> Places] /\ chain' \in [Workers -> Chain]
         /\ \A v \in Workers : Walks(v, pc[v], chain[v])'
         /\ pc'[w] = a /\ chain'[w] = d
         /\ \A v \in Workers \ {w} : pc'[v] = pc[v] /\ chain'[v] = chain[v]
<1>1. pc \in [Workers -> Places] /\ chain \in [Workers -> Chain] /\ a \in Places /\ d \in Chain
  BY DEF WalkInv, TypeOK, Walks, Moves, Places
<1>2. /\ pc' \in [Workers -> Places] /\ chain' \in [Workers -> Chain]
      /\ pc'[w] = a /\ chain'[w] = d
      /\ \A v \in Workers \ {w} : pc'[v] = pc[v] /\ chain'[v] = chain[v]
  BY <1>1 DEF Moves
<1>3. \A v \in Workers : Walks(v, pc[v], chain[v])'
  BY <1>2 DEF WalkInv, Moves, Walks
<1> QED BY <1>2, <1>3

\* A step that reserves nothing and sends nothing.
LEMMA MovesReserve ==
  ASSUME WalkInv, ReservedInv, NEW w \in Workers, NEW a, NEW d, Moves(w, a, d), a # "ready",
         scene' = scene, sent' = sent, used' \in [Providers -> 0..Limit],
         \A p \in Providers : used'[p] >= used[p]
  PROVE  ReservedInv'
<1> SUFFICES ASSUME NEW p \in Providers
             PROVE  (sent[p] + Cardinality(Ready(p)) <= used[p] + Cardinality(scene.active))'
  BY DEF ReservedInv
<1>1. Ready(p)' \subseteq Ready(p) /\ Ready(p) \subseteq scene.active
  BY MovesWalk, SceneType DEF Ready, WalkInv
<1>2. IsFiniteSet(scene.active) /\ scene.active' = scene.active
  BY SceneType DEF WalkInv
<1>3. IsFiniteSet(Ready(p)) /\ IsFiniteSet(Ready(p)')
  BY <1>1, <1>2, FS_Subset
<1>4. Cardinality(Ready(p)') <= Cardinality(Ready(p)) /\ Cardinality(Ready(p)') \in Nat
      /\ Cardinality(Ready(p)) \in Nat /\ Cardinality(scene.active) \in Nat
  BY <1>1, <1>2, <1>3, FS_Subset, FS_CardinalityType
<1>5. sent[p] \in Nat /\ used[p] \in Nat /\ used'[p] \in Nat
  BY MailChainConstants, SceneType DEF WalkInv, TypeOK, SentBound
<1> QED BY <1>2, <1>4, <1>5 DEF ReservedInv
\* Instance w's own steps that neither reserve a request nor send one.
LEMMA MovesInv ==
  ASSUME ChainInv, NEW w \in Workers, NEW a, NEW d, Moves(w, a, d), a # "ready",
         scene' = scene, sent' = sent, used' = used, up' = up,
         db' \in [Providers -> Breaker], streak' \in [Providers -> 0..Threshold],
         budget' \in 0..scene.adverse, lease' \in [Providers -> SUBSET Workers]
  PROVE  ChainInv'
<1>1. WalkInv /\ ReservedInv /\ TypeOK
  BY DEF ChainInv, WalkInv
<1>2. /\ pc' \in [Workers -> Places] /\ chain' \in [Workers -> Chain]
      /\ \A v \in Workers : Walks(v, pc[v], chain[v])'
  BY <1>1, MovesWalk
<1>3. TypeOK'
  BY <1>1, <1>2 DEF TypeOK, Places, SentBound
<1>4. ReservedInv'
  <2>1. used' \in [Providers -> 0..Limit] /\ \A p \in Providers : used'[p] >= used[p]
    BY <1>1, MailChainConstants DEF TypeOK
  <2> QED BY <1>1, <2>1, MovesReserve
<1> QED BY <1>2, <1>3, <1>4 DEF ChainInv, WalkInv

\* an Advance is such a step
LEMMA AdvanceInv ==
  ASSUME ChainInv, NEW w \in Workers, pc[w] # "idle", NEW c \in Chain, c.at <= scene.last,
         Advance(w, c), scene' = scene, sent' = sent, used' = used, up' = up,
         db' \in [Providers -> Breaker], streak' \in [Providers -> 0..Threshold],
         budget' \in 0..scene.adverse, lease' \in [Providers -> SUBSET Workers]
  PROVE  ChainInv'
<1>1. TypeOK /\ w \in scene.active
  BY DEF ChainInv, WalkInv, Walks
<1>2. PICK a \in {"walk", "closing"}, d \in Chain : Moves(w, a, d)
  BY <1>1, AdvanceWays DEF Moves
<1> QED BY <1>2, MovesInv

LEMMA SpendBudget ==
  ASSUME TypeOK, NEW kind, Spend(kind)
  PROVE  budget' \in 0..scene.adverse
<1>1. budget \in 0..scene.adverse /\ scene.adverse \in Nat
  BY SceneType DEF TypeOK
<1> QED BY <1>1 DEF Spend

\* what the steps of an instance rely on
LEMMA Known ==
  ASSUME ChainInv, NEW w \in Workers
  PROVE  /\ TypeOK /\ db \in [Providers -> Breaker] /\ streak \in [Providers -> 0..Threshold]
         /\ budget \in 0..scene.adverse /\ chain[w] \in Chain /\ chain[w].at \in Providers
         /\ Walks(w, pc[w], chain[w]) /\ chain[w].at <= scene.last
         /\ chain[w].copy[chain[w].at] \in Breaker /\ db[chain[w].at] \in Breaker
         /\ chain \in [Workers -> Chain] /\ pc \in [Workers -> Places]
         /\ lease \in [Providers -> SUBSET Workers]
<1>1. TypeOK /\ Walks(w, pc[w], chain[w])
  BY DEF ChainInv, WalkInv
<1>2. chain[w] \in Chain
  BY <1>1 DEF Walks
<1> QED BY <1>1, <1>2, ChainParts DEF TypeOK, Walks, Places

LEMMA BuildStep ==
  ASSUME ChainInv, NEW w \in Workers, Build(w), scene' = scene
  PROVE  ChainInv'
<1>1. PICK flush \in BOOLEAN :
        chain' = [chain EXCEPT ![w] = [NoChain EXCEPT !.flush = flush, !.copy = db,
                                                      !.patience = Cooldown - 1]]
  BY DEF Build
<1> DEFINE d == [NoChain EXCEPT !.flush = flush, !.copy = db, !.patience = Cooldown - 1]
<1>2. NoChain \in Chain /\ NoChain.at = 1 /\ NoChain.tries = 0
  BY NoChainWalks, Known DEF Walks, NoChain
<1>3. Cooldown - 1 \in 0..Cooldown
  BY MailChainConstants
<1>4. d \in Chain /\ d.at = 1 /\ d.tries = 0
  BY <1>2, <1>3, Known DEF Chain
<1>5. chain' = [chain EXCEPT ![w] = d]
  BY <1>1
<1> HIDE DEF d
<1>6. Moves(w, "walk", d)
  <2>1. w \in scene.active /\ pc' = [pc EXCEPT ![w] = "walk"]
    BY DEF Build
  <2>2. 1 <= scene.last
    BY SceneType, Known
  <2> QED BY <1>4, <1>5, <2>1, <2>2 DEF Moves, Walks, Places
<1> QED BY <1>6, MovesInv, Known DEF Build

LEMMA ClaimStep ==
  ASSUME ChainInv, NEW w \in Workers, ClaimProbe(w), scene' = scene
  PROVE  ChainInv'
<1> DEFINE c == chain[w]
           p == c.at
<1>1. /\ pc[w] = "walk" /\ UNCHANGED <<used, up, sent, streak, budget>>
      /\ db' \in [Providers -> Breaker] /\ lease' \in [Providers -> SUBSET Workers]
  <2>1. pc[w] = "walk" /\ UNCHANGED <<used, up, sent, streak, budget>>
        /\ (TakeLease(w, p) \/ UNCHANGED <<db, lease>>)
    BY DEF ClaimProbe
  <2>2. Leased(db[p]) \in Breaker
    BY Known, BreakerSteps
  <2> QED BY <2>1, <2>2, Known DEF TakeLease
<1>2. CASE Advance(w, c)
  BY <1>1, <1>2, AdvanceInv, Known
<1>3. CASE ~Advance(w, c)
  <2> DEFINE d == [c EXCEPT !.copy[p] = Probed(@), !.dirty = @ \cup {p}]
  <2>1. pc' = [pc EXCEPT ![w] = "claimed"] /\ chain' = [chain EXCEPT ![w] = d]
    BY <1>3, Known DEF ClaimProbe
  <2>2. Probed(c.copy[p]) \in Breaker
    BY Known, BreakerSteps
  <2>3. d \in Chain /\ d.at = c.at /\ d.tries = c.tries
    BY <2>2, Known DEF Chain
  <2> HIDE DEF d
  <2>4. Moves(w, "claimed", d)
    BY <1>1, <2>1, <2>3, Known, MailChainConstants DEF Moves, Walks, Places, Working
  <2> QED BY <1>1, <2>4, MovesInv, Known
<1> QED BY <1>2, <1>3

LEMMA FinishSteps ==
  ASSUME ChainInv, NEW w \in Workers, scene' = scene,
         Refuse(w) \/ Succeed(w) \/ FailRequest(w) \/ Persist(w) \/ Rollback(w) \/ Crash(w)
  PROVE  ChainInv'
<1> DEFINE c == chain[w]
           p == c.at
<1>0. Closed \in Breaker /\ RecordFailure(c.copy[p]) \in Breaker
  BY Known, BreakerSteps
<1>a. ASSUME Drop(w), UNCHANGED <<used, up, sent, streak>>, db' \in [Providers -> Breaker],
             budget' \in 0..scene.adverse
      PROVE  ChainInv'
  <2>1. Moves(w, "idle", NoChain) /\ lease' \in [Providers -> SUBSET Workers]
    BY <1>a, NoChainWalks, Known DEF Drop, Moves
  <2> QED BY <1>a, <2>1, MovesInv, Known
<1>1. CASE Refuse(w)
  <2>1. pc[w] = "ready" /\ budget' \in 0..scene.adverse /\ UNCHANGED <<db, used, up, sent, streak>>
    BY <1>1, SpendBudget, Known DEF Refuse
  <2>2. CASE c.flush
    <3>1. pc' = [pc EXCEPT ![w] = "closing"] /\ chain' = chain /\ lease' = lease
      BY <1>1, <2>2 DEF Refuse
    <3>2. Moves(w, "closing", c)
      BY <2>1, <3>1, Known DEF Moves, Walks, Places
    <3> QED BY <2>1, <3>1, <3>2, MovesInv, Known
  <2>3. CASE ~c.flush
    BY <1>1, <1>a, <2>1, <2>3, Known DEF Refuse
  <2> QED BY <2>2, <2>3
<1>2. CASE Succeed(w)
  <2> DEFINE d == [c EXCEPT !.copy[p] = Closed]
  <2>1. /\ pc[w] = "sending" /\ pc' = [pc EXCEPT ![w] = "closing"]
        /\ chain' = [chain EXCEPT ![w] = d] /\ UNCHANGED <<db, used, up, sent, lease, budget>>
    BY <1>2, Known DEF Succeed
  <2>2. d \in Chain /\ d.at = c.at
    BY <1>0, Known DEF Chain
  <2> HIDE DEF d
  <2>3. Moves(w, "closing", d)
    BY <2>1, <2>2, Known DEF Moves, Walks, Places
  <2>4. streak' \in [Providers -> 0..Threshold]
    BY <1>2, Known, MailChainConstants DEF Succeed
  <2> QED BY <2>1, <2>3, <2>4, MovesInv, Known
<1>3. CASE FailRequest(w)
  <2> DEFINE d == [c EXCEPT !.copy[p] = RecordFailure(@)]
  <2>1. /\ pc[w] = "sending" /\ UNCHANGED <<db, used, up, sent, lease>>
        /\ \/ c.tries < Attempts /\ pc' = [pc EXCEPT ![w] = "claimed"]
              /\ chain' = [chain EXCEPT ![w] = d]
           \/ Advance(w, d)
    BY <1>3 DEF FailRequest
  <2>2. d \in Chain /\ d.at = c.at /\ d.tries = c.tries
    BY <1>0, Known DEF Chain
  <2> HIDE DEF d
  <2>3. streak' \in [Providers -> 0..Threshold]
    <3>1. Capped(streak[p] + 1, scene.threshold) \in 0..Threshold
      BY Known, SceneType, MailChainConstants DEF Capped
    <3> QED BY <1>3, <3>1, Known DEF FailRequest
  <2>4. budget' \in 0..scene.adverse
    <3>1. CASE p \in up
      BY <1>3, <3>1, SpendBudget, Known DEF FailRequest
    <3>2. CASE p \notin up
      BY <1>3, <3>2, Known DEF FailRequest
    <3> QED BY <3>1, <3>2
  <2>5. CASE Advance(w, d)
    BY <2>1, <2>2, <2>3, <2>4, <2>5, AdvanceInv, Known
  <2>6. CASE c.tries < Attempts /\ pc' = [pc EXCEPT ![w] = "claimed"]
             /\ chain' = [chain EXCEPT ![w] = d]
    <3>1. Moves(w, "claimed", d)
      BY <2>1, <2>2, <2>6, Known DEF Moves, Walks, Places, Working
    <3> QED BY <2>1, <2>3, <2>4, <3>1, MovesInv, Known
  <2> QED BY <2>1, <2>5, <2>6
<1>4. CASE Persist(w)
  <2>1. Persisted(w) \in [Providers -> Breaker]
    <3>1. \A q \in Providers : c.copy[q] \in Breaker /\ db[q] \in Breaker
      BY ChainParts, Known
    <3>2. \A q \in Providers : [c.copy[q] EXCEPT !.probe = FALSE] \in Breaker
      BY <3>1, BreakerSteps, Known
    <3> QED BY <3>1, <3>2 DEF Persisted
  <2>2. Moves(w, "idle", NoChain)
    BY <1>4, NoChainWalks, Known DEF Persist, Moves
  <2>3. lease' \in [Providers -> SUBSET Workers]
    BY <1>4, Known DEF Persist
  <2> QED BY <1>4, <2>1, <2>2, <2>3, MovesInv, Known DEF Persist
<1>5. CASE Rollback(w) \/ Crash(w)
  <2>1. budget' \in 0..scene.adverse
    BY <1>5, SpendBudget, Known DEF Rollback, Crash
  <2> QED BY <1>5, <1>a, <2>1, Known DEF Rollback, Crash
<1> QED BY <1>1, <1>2, <1>3, <1>4, <1>5

-----------------------------------------------------------------------------
(* Reserving and sending *)

LEMMA ReadyFinite ==
  ASSUME TypeOK, NEW p
  PROVE  IsFiniteSet(Ready(p)) /\ Cardinality(Ready(p)) \in Nat
<1>1. Ready(p) \subseteq scene.active /\ IsFiniteSet(scene.active)
  BY SceneType DEF Ready
<1> QED BY <1>1, FS_Subset, FS_CardinalityType

LEMMA CountsType ==
  ASSUME TypeOK, NEW p \in Providers
  PROVE  sent[p] \in Nat /\ used[p] \in 0..Limit /\ SentBound \in Nat
         /\ SentBound = Limit + Cardinality(scene.active)
BY SceneType, MailChainConstants DEF TypeOK, SentBound

LEMMA ReserveStep ==
  ASSUME ChainInv, NEW w \in Workers, Reserve(w), scene' = scene
  PROVE  ChainInv'
<1> DEFINE c == chain[w]
           p == c.at
           k == [c EXCEPT !.copy[p] = CancelProbe(@)]
<1>0. /\ WalkInv /\ ReservedInv /\ TypeOK /\ w \in scene.active /\ p \in Providers
      /\ pc[w] = "claimed" /\ UNCHANGED <<db, up, sent, streak, lease>>
  BY Known DEF ChainInv, Reserve, Walks
<1>1. k \in Chain /\ k.at = c.at
  BY Known, BreakerSteps, CopyType
<1>2. used[p] < Limit => [used EXCEPT ![p] = @ + 1] \in [Providers -> 0..Limit]
  BY <1>0, MailChainConstants DEF TypeOK
<1>3. CASE HasRoom(p) /\ used' = [used EXCEPT ![p] = @ + 1]
           /\ pc' = [pc EXCEPT ![w] = "ready"] /\ UNCHANGED <<chain, budget>>
  <2>1. Moves(w, "ready", c)
    BY <1>0, <1>3, Known DEF Moves, Walks, Places, Working
  <2>2. /\ pc' \in [Workers -> Places] /\ chain' \in [Workers -> Chain]
        /\ \A v \in Workers : Walks(v, pc[v], chain[v])'
        /\ \A v \in Workers \ {w} : pc'[v] = pc[v] /\ chain'[v] = chain[v]
    BY <1>0, <2>1, MovesWalk
  <2>3. TypeOK'
    BY <1>0, <1>2, <1>3, <2>2 DEF TypeOK, Places, SentBound, HasRoom
  <2>4. ReservedInv'
    <3> SUFFICES ASSUME NEW q \in Providers
                 PROVE  (sent[q] + Cardinality(Ready(q)) <= used[q] + Cardinality(scene.active))'
      BY DEF ReservedInv
    <3>1. IsFiniteSet(Ready(q)) /\ Cardinality(Ready(q)) \in Nat /\ Cardinality(scene.active) \in Nat
      BY <1>0, ReadyFinite, SceneType
    <3>2. sent[q] + Cardinality(Ready(q)) <= used[q] + Cardinality(scene.active)
      BY <1>0 DEF ReservedInv
    <3>3. CASE q = p
      <4>1. Ready(q)' = Ready(q) \cup {w}
        BY <1>0, <1>3, <2>2, <3>3, Known, SceneType DEF Ready
      <4>2. Cardinality(Ready(q)') <= Cardinality(Ready(q)) + 1 /\ Cardinality(Ready(q)') \in Nat
        <5>1. /\ IsFiniteSet(Ready(q) \cup {w})
              /\ Cardinality(Ready(q) \cup {w}) =
                   IF w \in Ready(q) THEN Cardinality(Ready(q)) ELSE Cardinality(Ready(q)) + 1
          BY <3>1, FS_AddElement
        <5> QED BY <3>1, <4>1, <5>1
      <4>3. used'[q] = used[q] + 1
        BY <1>0, <1>3, <3>3 DEF TypeOK
      <4> QED BY <1>0, <3>1, <3>2, <4>2, <4>3, CountsType
    <3>4. CASE q # p
      <4>1. Ready(q)' = Ready(q)
        BY <1>0, <1>3, <2>2, <3>4, Known, SceneType DEF Ready
      <4>2. used'[q] = used[q]
        BY <1>0, <1>3, <3>4 DEF TypeOK
      <4> QED BY <1>0, <3>2, <4>1, <4>2
    <3> QED BY <3>3, <3>4
  <2> QED BY <2>2, <2>3, <2>4 DEF ChainInv, WalkInv
<1>4. CASE /\ Advance(w, k) /\ budget' \in 0..scene.adverse
           /\ \/ used' = used
              \/ used[p] < Limit /\ used' = [used EXCEPT ![p] = @ + 1]
  <2>1. PICK a \in {"walk", "closing"}, d \in Chain : Moves(w, a, d)
    BY <1>0, <1>1, <1>4, AdvanceWays, Known DEF Moves
  <2>2. /\ pc' \in [Workers -> Places] /\ chain' \in [Workers -> Chain]
        /\ \A v \in Workers : Walks(v, pc[v], chain[v])'
    BY <1>0, <2>1, MovesWalk
  <2>3. used' \in [Providers -> 0..Limit] /\ \A q \in Providers : used'[q] >= used[q]
    BY <1>0, <1>2, <1>4, MailChainConstants DEF TypeOK
  <2>4. TypeOK'
    BY <1>0, <1>4, <2>2, <2>3 DEF TypeOK, Places, SentBound
  <2>5. ReservedInv'
    BY <1>0, <2>1, <2>3, MovesReserve
  <2> QED BY <2>2, <2>4, <2>5 DEF ChainInv, WalkInv
<1>5. CASE HasRoom(p) /\ c.tries = 0 /\ Spend("unfit")
           /\ used' = [used EXCEPT ![p] = @ + 1] /\ Cancel(w)
  BY <1>0, <1>4, <1>5, SpendBudget DEF Cancel, HasRoom
<1>6. CASE ~HasRoom(p) /\ Cancel(w) /\ UNCHANGED <<used, budget>>
  <2>1. budget' \in 0..scene.adverse
    BY <1>0, <1>6 DEF TypeOK
  <2> QED BY <1>4, <1>6, <2>1 DEF Cancel
<1> QED BY <1>3, <1>5, <1>6 DEF Reserve

LEMMA SendStep ==
  ASSUME ChainInv, NEW w \in Workers, Send(w), scene' = scene
  PROVE  ChainInv'
<1> DEFINE c == chain[w]
           p == c.at
           d == [c EXCEPT !.tries = @ + 1]
<1>0. /\ WalkInv /\ ReservedInv /\ TypeOK /\ w \in scene.active /\ p \in Providers
      /\ pc[w] = "ready" /\ UNCHANGED <<db, used, up, streak, lease, budget>>
      /\ pc' = [pc EXCEPT ![w] = "sending"] /\ c.tries < Attempts
      /\ sent' = [sent EXCEPT ![p] = Capped(@ + 1, SentBound + 1)]
  BY Known DEF ChainInv, Send, Walks
<1>1. chain' = [chain EXCEPT ![w] = d]
  BY Known DEF Send
<1>2. d \in Chain /\ d.at = c.at
  <2>1. c.tries + 1 \in 0..Attempts
    BY <1>0, Known, ChainParts, MailChainConstants
  <2> QED BY <2>1, Known DEF Chain
<1> HIDE DEF d
<1>3. Moves(w, "sending", d)
  BY <1>0, <1>1, <1>2, Known DEF Moves, Walks, Places, Working
<1>4. /\ pc' \in [Workers -> Places] /\ chain' \in [Workers -> Chain]
      /\ \A v \in Workers : Walks(v, pc[v], chain[v])'
      /\ pc'[w] = "sending"
      /\ \A v \in Workers \ {w} : pc'[v] = pc[v] /\ chain'[v] = chain[v]
  BY <1>0, <1>3, MovesWalk
<1>5. Capped(sent[p] + 1, SentBound + 1) \in 0..(SentBound + 1)
      /\ Capped(sent[p] + 1, SentBound + 1) <= sent[p] + 1
  BY <1>0, CountsType DEF Capped
<1>6. sent \in [Providers -> 0..(SentBound + 1)]
  BY <1>0 DEF TypeOK
<1>7. sent' \in [Providers -> 0..(SentBound + 1)]
  BY <1>0, <1>5, <1>6
<1>8. TypeOK'
  <2>1. SentBound' = SentBound
    BY DEF SentBound
  <2> QED BY <1>0, <1>4, <1>7, <2>1 DEF TypeOK, Places
<1>9. ReservedInv'
  <2> SUFFICES ASSUME NEW q \in Providers
               PROVE  (sent[q] + Cardinality(Ready(q)) <= used[q] + Cardinality(scene.active))'
    BY DEF ReservedInv
  <2>1. IsFiniteSet(Ready(q)) /\ Cardinality(Ready(q)) \in Nat /\ Cardinality(scene.active) \in Nat
    BY <1>0, ReadyFinite, SceneType
  <2>2. sent[q] + Cardinality(Ready(q)) <= used[q] + Cardinality(scene.active)
    BY <1>0 DEF ReservedInv
  <2>3. Ready(q)' = Ready(q) \ {w}
    BY <1>4, SceneType, <1>0 DEF Ready
  <2>4. CASE q = p
    <3>1. w \in Ready(q)
      BY <1>0, <2>4 DEF Ready
    <3>2. Cardinality(Ready(q)') = Cardinality(Ready(q)) - 1
      BY <2>1, <2>3, <3>1, FS_RemoveElement
    <3>3. sent'[q] <= sent[q] + 1 /\ sent'[q] \in Nat
      BY <1>0, <1>5, <1>6, <2>4, CountsType
    <3> QED BY <1>0, <2>1, <2>2, <3>2, <3>3, CountsType
  <2>5. CASE q # p
    <3>1. w \notin Ready(q)
      BY <2>5 DEF Ready
    <3>2. Ready(q)' = Ready(q) /\ sent'[q] = sent[q]
      BY <1>0, <1>6, <2>3, <2>5, <3>1
    <3> QED BY <1>0, <2>2, <3>2
  <2> QED BY <2>4, <2>5
<1> QED BY <1>4, <1>8, <1>9 DEF ChainInv, WalkInv

-----------------------------------------------------------------------------
(* Time and windows *)

LEMMA SameReady ==
  ASSUME TypeOK, scene' = scene, pc' = pc, \A w \in Workers : chain'[w].at = chain[w].at
  PROVE  \A p : Ready(p)' = Ready(p)
BY SceneType DEF Ready

LEMMA TickStep ==
  ASSUME ChainInv, Tick, scene' = scene
  PROVE  ChainInv'
<1>0. WalkInv /\ ReservedInv /\ TypeOK /\ UNCHANGED <<used, pc, up, sent, streak, lease>>
  BY DEF ChainInv, WalkInv, Tick
<1>1. budget' \in 0..scene.adverse
  <2>1. budget' = budget \/ Spend("slow")
    <3>1. CASE \E w \in Workers : pc[w] # "idle" /\ chain[w].patience = 0
      BY <3>1 DEF Tick
    <3>2. CASE ~\E w \in Workers : pc[w] # "idle" /\ chain[w].patience = 0
      BY <3>2 DEF Tick
    <3> QED BY <3>1, <3>2
  <2> QED BY <1>0, <2>1, SpendBudget DEF TypeOK
<1>2. db' \in [Providers -> Breaker]
  <2>1. \A p \in Providers : [db[p] EXCEPT !.left = Elapsed(db[p].left)] \in Breaker
    BY <1>0, BreakerSteps DEF TypeOK
  <2> QED BY <2>1 DEF Tick
<1>3. \A w \in Workers : chain'[w] \in Chain /\ chain'[w].at = chain[w].at
                         /\ chain'[w].tries = chain[w].tries
  <2> SUFFICES ASSUME NEW w \in Workers
               PROVE  chain'[w] \in Chain /\ chain'[w].at = chain[w].at
                      /\ chain'[w].tries = chain[w].tries
    OBVIOUS
  <2> DEFINE later == [p \in Providers |->
                         [chain[w].copy[p] EXCEPT !.left = Elapsed(chain[w].copy[p].left)]]
  <2>1. chain[w] \in Chain
    BY Known
  <2>2. \A p \in Providers : chain[w].copy[p] \in Breaker
    BY <2>1, ChainParts
  <2>3. \A p \in Providers :
          [chain[w].copy[p] EXCEPT !.left = Elapsed(chain[w].copy[p].left)] \in Breaker
    BY <1>0, <2>2, BreakerSteps
  <2>4. later \in [Providers -> Breaker]
    BY <2>3
  <2>5. Elapsed(chain[w].patience) \in 0..Cooldown
    BY <2>1, MailChainConstants DEF Elapsed, Chain
  <2>6. chain'[w] = [chain[w] EXCEPT !.patience = Elapsed(@), !.copy = later]
    BY DEF Tick
  <2> HIDE DEF later
  <2> QED BY <2>1, <2>4, <2>5, <2>6 DEF Chain
<1>4. chain' \in [Workers -> Chain]
  <2>1. chain' = [w \in Workers |-> chain'[w]]
    BY DEF Tick
  <2> QED BY <1>3, <2>1
<1>5. TypeOK'
  BY <1>0, <1>1, <1>2, <1>4 DEF TypeOK, SentBound
<1>6. \A w \in Workers : Walks(w, pc[w], chain[w])'
  BY <1>0, <1>3 DEF WalkInv, Walks
<1>7. ReservedInv'
  BY <1>0, <1>3, SameReady DEF ReservedInv
<1> QED BY <1>5, <1>6, <1>7 DEF ChainInv, WalkInv

LEMMA WindowStep ==
  ASSUME ChainInv, NewWindow, scene' = scene
  PROVE  ChainInv'
<1>0. WalkInv /\ TypeOK /\ UNCHANGED <<db, pc, chain, up, streak, lease, budget>>
  BY DEF ChainInv, WalkInv, NewWindow
<1>1. \A p \in Providers : sent'[p] = 0 /\ used'[p] = 0
  BY DEF NewWindow
<1>2. TypeOK'
  <2>1. 0 \in 0..(SentBound + 1) /\ 0 \in 0..Limit
    BY <1>0, SceneType, MailChainConstants DEF SentBound
  <2>2. sent' \in [Providers -> 0..(SentBound + 1)] /\ used' \in [Providers -> 0..Limit]
    BY <2>1 DEF NewWindow
  <2> QED BY <1>0, <2>2 DEF TypeOK, SentBound
<1>3. ReservedInv'
  <2> SUFFICES ASSUME NEW p \in Providers
               PROVE  (sent[p] + Cardinality(Ready(p)) <= used[p] + Cardinality(scene.active))'
    BY DEF ReservedInv
  <2>1. Ready(p)' = Ready(p) /\ Ready(p) \subseteq scene.active
    BY <1>0, SameReady DEF Ready
  <2>2. Cardinality(Ready(p)) <= Cardinality(scene.active) /\ Cardinality(Ready(p)) \in Nat
        /\ Cardinality(scene.active) \in Nat
    BY <1>0, <2>1, SceneType, ReadyFinite, FS_Subset
  <2> QED BY <1>1, <2>1, <2>2
<1> QED BY <1>0, <1>2, <1>3 DEF ChainInv, WalkInv, Walks

LEMMA UpStep ==
  ASSUME ChainInv, NEW p \in Providers, Outage(p) \/ Restore(p), scene' = scene
  PROVE  ChainInv'
<1>0. WalkInv /\ ReservedInv /\ TypeOK /\ UNCHANGED <<db, used, pc, chain, sent, streak, lease>>
  BY DEF ChainInv, WalkInv, Outage, Restore
<1>1. budget' \in 0..scene.adverse
  BY <1>0, SpendBudget DEF Outage, Restore, TypeOK
<1>2. up' \in SUBSET Providers
  BY <1>0 DEF Outage, Restore, TypeOK
<1>3. TypeOK'
  BY <1>0, <1>1, <1>2 DEF TypeOK, SentBound
<1> QED BY <1>0, <1>3, SameReady DEF ChainInv, WalkInv, Walks, ReservedInv

-----------------------------------------------------------------------------
(* Theorems *)

LEMMA InitChain == Init => ChainInv
<1> SUFFICES ASSUME Init PROVE ChainInv
  OBVIOUS
<1>1. /\ scene \in Scenes /\ scene.last \in 1..LastProvider /\ scene.threshold \in 1..Threshold
      /\ scene.adverse \in Nat /\ scene.active \subseteq Workers /\ scene.tripped \subseteq Providers
  BY MailChainConstants DEF Init, Providers
<1>2. Cardinality(scene.active) \in Nat /\ IsFiniteSet(scene.active)
  BY <1>1, MailChainConstants, FS_Subset, FS_CardinalityType
<1>3. Closed \in Breaker /\ [Closed EXCEPT !.state = "open", !.failures = scene.threshold] \in Breaker
  <2>1. scene.threshold \in 0..Threshold /\ 0 \in 0..Threshold /\ 0 \in 0..Cooldown
    BY <1>1, MailChainConstants
  <2>2. Closed \in Breaker
    BY <2>1 DEF Closed, Breaker
  <2> QED BY <2>1, <2>2 DEF Breaker
<1>4. NoChain \in Chain /\ NoChain.at = 1
  BY <1>3, MailChainConstants DEF NoChain, Chain, Providers
<1>5. TypeOK
  <2>1. db \in [Providers -> Breaker]
    BY <1>3 DEF Init
  <2>2. used \in [Providers -> 0..Limit] /\ sent \in [Providers -> 0..(SentBound + 1)]
    BY <1>2, MailChainConstants DEF Init, SentBound
  <2>3. streak \in [Providers -> 0..Threshold]
    BY <1>1, MailChainConstants DEF Init
  <2> QED BY <1>1, <1>4, <2>1, <2>2, <2>3 DEF Init, TypeOK
<1>6. \A w \in Workers : Walks(w, pc[w], chain[w])
  BY <1>5, NoChainWalks DEF Init
<1>7. ReservedInv
  <2> SUFFICES ASSUME NEW p \in Providers
               PROVE  sent[p] + Cardinality(Ready(p)) <= used[p] + Cardinality(scene.active)
    BY DEF ReservedInv
  <2>1. Ready(p) \subseteq scene.active
    BY DEF Ready
  <2>2. Cardinality(Ready(p)) <= Cardinality(scene.active) /\ Cardinality(Ready(p)) \in Nat
    BY <1>2, <1>5, <2>1, ReadyFinite, FS_Subset
  <2> QED BY <1>2, <2>2 DEF Init
<1> QED BY <1>5, <1>6, <1>7 DEF ChainInv, WalkInv

LEMMA NextChain == ChainInv /\ [Next]_vars => ChainInv'
<1> SUFFICES ASSUME ChainInv, [Next]_vars PROVE ChainInv'
  OBVIOUS
<1>1. ASSUME NEW w \in Workers, Build(w) \/ Walk(w) \/ Refuse(w) \/ Rollback(w) \/ Crash(w),
             scene' = scene
      PROVE  ChainInv'
  BY <1>1, BuildStep, ClaimStep, ReserveStep, SendStep, FinishSteps DEF Walk
<1>2. CASE UNCHANGED vars
  BY <1>2 DEF vars, ChainInv, WalkInv, ReservedInv, TypeOK, Walks, Ready, SentBound
<1> QED BY <1>1, <1>2, TickStep, WindowStep, UpStep DEF Next

LEMMA ChainInvariant == Spec => []ChainInv
BY InitChain, NextChain, PTL DEF Spec

\* Every variable of the chain stays within its type.
THEOREM TypeCorrect == Spec => []TypeOK
<1>1. ChainInv => TypeOK
  BY DEF ChainInv, WalkInv
<1> QED BY <1>1, ChainInvariant, PTL

\* In one usage window a provider gets no more requests than its limit and one for
\* each instance, whatever is refused, retried or lost: every request is reserved
\* first (_reserve_provider_usage, try_consume).
THEOREM RequestsAreLimited == Spec => []RequestsWithinLimit
<1>1. ChainInv => RequestsWithinLimit
  <2> SUFFICES ASSUME ChainInv, NEW p \in Providers PROVE sent[p] <= SentBound
    BY DEF RequestsWithinLimit
  <2>1. TypeOK /\ sent[p] + Cardinality(Ready(p)) <= used[p] + Cardinality(scene.active)
    BY DEF ChainInv, WalkInv, ReservedInv
  <2>2. /\ Cardinality(Ready(p)) \in Nat /\ sent[p] \in Nat /\ used[p] \in 0..Limit
        /\ SentBound = Limit + Cardinality(scene.active) /\ Cardinality(scene.active) \in Nat
    BY <2>1, ReadyFinite, CountsType, SceneType
  <2> QED BY <2>1, <2>2, MailChainConstants
<1> QED BY <1>1, ChainInvariant, PTL

-----------------------------------------------------------------------------
(* The lease on the recovery probe *)

\* No chain outlives the cooldown it was built in.
Prompt == \A s \in Scenes : "slow" \notin s.kinds

\* A chain of patience n at place a ends before its leases do, and nobody has
\* written the breakers it leased.
Lent(w, a, n) ==
  /\ a # "idle" => n < Cooldown
  /\ \A p \in Providers :
       w \in lease[p] => a # "idle" /\ db[p].state = "half_open" /\ db[p].left > n
LeaseInv == \A w \in Workers : Lent(w, pc[w], chain[w].patience)

\* instance w goes to place a with chain d
Turn(w, a, d) == /\ pc' = [pc EXCEPT ![w] = a] /\ chain' = [chain EXCEPT ![w] = d]
                 /\ d \in Chain

LEMMA TurnParts ==
  ASSUME ChainInv, NEW w \in Workers, NEW a, NEW d, Turn(w, a, d)
  PROVE  /\ pc'[w] = a /\ chain'[w] = d
         /\ \A v \in Workers \ {w} : pc'[v] = pc[v] /\ chain'[v] = chain[v]
BY Known DEF Turn

LEMMA AdvanceTurn ==
  ASSUME ChainInv, NEW w \in Workers, NEW c \in Chain, c.at <= scene.last, Advance(w, c)
  PROVE  \E a \in {"walk", "closing"}, d \in Chain :
           /\ Turn(w, a, d)
           /\ d.copy = c.copy /\ d.dirty = c.dirty /\ d.patience = c.patience
           /\ d.at = IF a = "walk" THEN c.at + 1 ELSE c.at
<1>1. CASE c.at = scene.last
  <2>1. Turn(w, "closing", c)
    BY <1>1 DEF Advance, Turn
  <2> QED BY <2>1
<1>2. CASE c.at # scene.last
  <2> DEFINE d == [c EXCEPT !.at = @ + 1, !.tries = 0]
  <2>1. c.at + 1 \in Providers /\ 0 \in 0..Attempts
    BY <1>2, Known, SceneType, ChainParts, MailChainConstants DEF Providers
  <2>2. /\ d \in Chain /\ d.at = c.at + 1
        /\ d.copy = c.copy /\ d.dirty = c.dirty /\ d.patience = c.patience
    BY <2>1 DEF Chain
  <2>3. pc' = [pc EXCEPT ![w] = "walk"] /\ chain' = [chain EXCEPT ![w] = d]
    BY <1>2 DEF Advance
  <2> HIDE DEF d
  <2> QED BY <2>2, <2>3 DEF Turn
<1> QED BY <1>1, <1>2

\* an instance that goes on with its chain, or drops it
LEMMA LeaseTurn ==
  ASSUME ChainInv, LeaseInv, NEW w \in Workers, NEW a, NEW d, Turn(w, a, d), db' = db,
         \/ pc[w] # "idle" /\ d.patience = chain[w].patience /\ lease' = lease /\ a # "idle"
         \/ a = "idle" /\ lease' = [p \in Providers |-> lease[p] \ {w}]
  PROVE  LeaseInv'
<1> SUFFICES ASSUME NEW v \in Workers PROVE Lent(v, pc[v], chain[v].patience)'
  BY DEF LeaseInv
<1>1. Lent(v, pc[v], chain[v].patience)
  BY DEF LeaseInv
<1>2. CASE v = w
  <2>1. pc'[w] = a /\ chain'[w] = d
    BY TurnParts
  <2>2. CASE a = "idle" /\ lease' = [p \in Providers |-> lease[p] \ {w}]
    BY <1>2, <2>1, <2>2 DEF Lent
  <2>3. CASE pc[w] # "idle" /\ d.patience = chain[w].patience /\ lease' = lease /\ a # "idle"
    BY <1>1, <1>2, <2>1, <2>3 DEF Lent
  <2> QED BY <2>2, <2>3
<1>3. CASE v # w
  BY <1>1, <1>3, TurnParts DEF Lent
<1> QED BY <1>2, <1>3

LEMMA DropTurn ==
  ASSUME ChainInv, NEW w, Drop(w)
  PROVE  Turn(w, "idle", NoChain) /\ lease' = [p \in Providers |-> lease[p] \ {w}]
<1>1. NoChain \in Chain
  BY NoChainWalks DEF ChainInv, WalkInv, Walks
<1> QED BY <1>1 DEF Drop, Turn

\* what w's chain keeps in a step that neither claims nor writes a breaker
Kept(w) == \E a, d : /\ Turn(w, a, d) /\ pc[w] # "idle" /\ a # "idle" /\ lease' = lease
                     /\ d.patience = chain[w].patience /\ d.dirty = chain[w].dirty

LEMMA WalkTurn ==
  ASSUME ChainInv, NEW w \in Workers,
         Reserve(w) \/ Send(w) \/ Refuse(w) \/ Succeed(w) \/ FailRequest(w)
         \/ Rollback(w) \/ Crash(w)
  PROVE  db' = db /\ (Kept(w) \/ Drop(w))
<1> DEFINE c == chain[w]
           p == c.at
<1>0. c \in Chain /\ p \in Providers /\ p <= scene.last /\ c.copy[p] \in Breaker /\ TypeOK
  BY Known
<1>a. ASSUME NEW b \in Breaker
      PROVE  /\ [c EXCEPT !.copy[p] = b] \in Chain
             /\ [c EXCEPT !.copy[p] = b].at = p /\ [c EXCEPT !.copy[p] = b].patience = c.patience
             /\ [c EXCEPT !.copy[p] = b].dirty = c.dirty
  BY <1>0 DEF Chain
<1>b. ASSUME NEW e \in Chain, e.at <= scene.last, e.patience = c.patience, e.dirty = c.dirty,
             Advance(w, e), pc[w] # "idle", lease' = lease
      PROVE  Kept(w)
  <2>1. PICK a \in {"walk", "closing"}, d \in Chain :
          Turn(w, a, d) /\ d.patience = e.patience /\ d.dirty = e.dirty
    BY <1>b, AdvanceTurn
  <2> QED BY <1>b, <2>1 DEF Kept
<1>c. ASSUME NEW a, a # "idle", NEW d \in Chain, d.patience = c.patience, d.dirty = c.dirty,
             pc[w] # "idle", pc' = [pc EXCEPT ![w] = a], chain' = [chain EXCEPT ![w] = d],
             lease' = lease
      PROVE  Kept(w)
  BY <1>c DEF Kept, Turn
<1>e. chain' = chain => chain' = [chain EXCEPT ![w] = c]
  BY Known
<1>1. CASE Reserve(w)
  <2>1. pc[w] = "claimed" /\ db' = db /\ lease' = lease
    BY <1>1 DEF Reserve
  <2>2. CASE pc' = [pc EXCEPT ![w] = "ready"] /\ chain' = chain
    BY <1>0, <1>c, <1>e, <2>1, <2>2
  <2>3. CASE Cancel(w)
    BY <1>0, <1>a, <1>b, <2>1, <2>3, BreakerSteps DEF Cancel
  <2> QED BY <1>1, <2>2, <2>3 DEF Reserve
<1>2. CASE Send(w)
  <2> DEFINE d == [c EXCEPT !.tries = @ + 1]
  <2>1. c.tries < Attempts
    BY <1>2, Known DEF Send, Walks
  <2>2. d \in Chain /\ d.patience = c.patience /\ d.dirty = c.dirty
    BY <1>0, <2>1, MailChainConstants DEF Chain
  <2>3. /\ pc[w] = "ready" /\ pc' = [pc EXCEPT ![w] = "sending"]
        /\ chain' = [chain EXCEPT ![w] = d] /\ lease' = lease /\ db' = db
    BY <1>2, Known DEF Send
  <2> HIDE DEF d
  <2> QED BY <1>c, <2>2, <2>3
<1>3. CASE Refuse(w)
  <2>1. CASE Drop(w)
    BY <1>3, <2>1 DEF Refuse
  <2>2. CASE ~Drop(w)
    BY <1>0, <1>3, <1>c, <1>e, <2>2 DEF Refuse
  <2> QED BY <2>1, <2>2
<1>4. CASE Succeed(w)
  <2>1. /\ pc[w] = "sending" /\ pc' = [pc EXCEPT ![w] = "closing"]
        /\ chain' = [chain EXCEPT ![w] = [c EXCEPT !.copy[p] = Closed]] /\ lease' = lease /\ db' = db
    BY <1>4, Known DEF Succeed
  <2> QED BY <1>0, <1>a, <1>c, <2>1, BreakerSteps
<1>5. CASE FailRequest(w)
  <2> DEFINE d == [c EXCEPT !.copy[p] = RecordFailure(@)]
  <2>1. d \in Chain /\ d.at = p /\ d.patience = c.patience /\ d.dirty = c.dirty
    BY <1>0, <1>a, BreakerSteps
  <2>2. /\ pc[w] = "sending" /\ lease' = lease /\ db' = db
        /\ \/ pc' = [pc EXCEPT ![w] = "claimed"] /\ chain' = [chain EXCEPT ![w] = d]
           \/ Advance(w, d)
    BY <1>5 DEF FailRequest
  <2> HIDE DEF d
  <2>3. CASE Advance(w, d)
    BY <1>0, <1>b, <2>1, <2>2, <2>3
  <2>4. CASE pc' = [pc EXCEPT ![w] = "claimed"] /\ chain' = [chain EXCEPT ![w] = d]
    BY <1>c, <2>1, <2>2, <2>4
  <2> QED BY <2>2, <2>3, <2>4
<1>6. CASE Rollback(w) \/ Crash(w)
  BY <1>6 DEF Rollback, Crash
<1> QED BY <1>1, <1>2, <1>3, <1>4, <1>5, <1>6

LEMMA LeaseWalks ==
  ASSUME ChainInv, LeaseInv, NEW w \in Workers,
         Reserve(w) \/ Send(w) \/ Refuse(w) \/ Succeed(w) \/ FailRequest(w)
         \/ Rollback(w) \/ Crash(w)
  PROVE  LeaseInv'
<1>1. CASE Kept(w)
  BY <1>1, WalkTurn, LeaseTurn DEF Kept
<1>2. CASE Drop(w)
  BY <1>2, WalkTurn, DropTurn, LeaseTurn
<1> QED BY <1>1, <1>2, WalkTurn

LEMMA LeaseBuilds ==
  ASSUME ChainInv, LeaseInv, NEW w \in Workers, Build(w)
  PROVE  LeaseInv'
<1>1. PICK flush \in BOOLEAN :
        chain' = [chain EXCEPT ![w] = [NoChain EXCEPT !.flush = flush, !.copy = db,
                                                      !.patience = Cooldown - 1]]
  BY DEF Build
<1>2. chain'[w].patience = Cooldown - 1 /\ \A v \in Workers \ {w} : chain'[v] = chain[v]
  <2>1. NoChain.patience = 0
    BY DEF NoChain
  <2> QED BY <1>1, <2>1, Known DEF NoChain
<1>3. pc[w] = "idle" /\ pc'[w] = "walk" /\ \A v \in Workers \ {w} : pc'[v] = pc[v]
  BY Known DEF Build
<1>4. lease' = lease /\ db' = db
  BY DEF Build
<1> SUFFICES ASSUME NEW v \in Workers PROVE Lent(v, pc[v], chain[v].patience)'
  BY DEF LeaseInv
<1>5. Lent(v, pc[v], chain[v].patience)
  BY DEF LeaseInv
<1>6. CASE v = w
  BY <1>2, <1>3, <1>4, <1>5, <1>6, MailChainConstants DEF Lent
<1>7. CASE v # w
  BY <1>2, <1>3, <1>4, <1>5, <1>7 DEF Lent
<1> QED BY <1>6, <1>7

\* The lease is given when nobody has it: a chain that has it ends before it expires.
LEMMA LeaseIsFree ==
  ASSUME ChainInv, LeaseInv, NEW p \in Providers, db[p].state # "closed", Granted(db[p])
  PROVE  lease[p] = {}
<1>1. db[p].left = 0
  BY DEF Granted
<1>2. ASSUME NEW v \in lease[p] PROVE FALSE
  <2>1. v \in Workers
    BY DEF ChainInv, WalkInv, TypeOK
  <2>2. db[p].left > chain[v].patience
    BY <2>1 DEF LeaseInv, Lent
  <2>3. chain[v].patience \in 0..Cooldown
    BY <2>1, Known DEF Chain
  <2> QED BY <1>1, <2>2, <2>3
<1> QED BY <1>2

LEMMA LeaseClaims ==
  ASSUME ChainInv, LeaseInv, NEW w \in Workers, ClaimProbe(w)
  PROVE  LeaseInv'
<1> DEFINE c == chain[w]
           p == c.at
<1>0. /\ c \in Chain /\ p \in Providers /\ p <= scene.last /\ c.copy[p] \in Breaker /\ TypeOK
      /\ db \in [Providers -> Breaker] /\ lease \in [Providers -> SUBSET Workers]
      /\ pc[w] = "walk" /\ chain \in [Workers -> Chain]
  BY Known DEF ClaimProbe
<1>1. \E a \in {"walk", "closing", "claimed"}, d \in Chain : Turn(w, a, d) /\ d.patience = c.patience
  <2>1. CASE Advance(w, c)
    BY <1>0, <2>1, AdvanceTurn
  <2>2. CASE ~Advance(w, c)
    <3> DEFINE d == [c EXCEPT !.copy[p] = Probed(@), !.dirty = @ \cup {p}]
    <3>1. pc' = [pc EXCEPT ![w] = "claimed"] /\ chain' = [chain EXCEPT ![w] = d]
      BY <2>2, Known DEF ClaimProbe
    <3>2. Probed(c.copy[p]) \in Breaker
      BY <1>0, BreakerSteps
    <3>3. d \in Chain /\ d.patience = c.patience
      BY <1>0, <3>2 DEF Chain
    <3> HIDE DEF d
    <3> QED BY <3>1, <3>3 DEF Turn
  <2> QED BY <2>1, <2>2
<1>2. PICK a \in {"walk", "closing", "claimed"}, d \in Chain : Turn(w, a, d) /\ d.patience = c.patience
  BY <1>1
<1>3. CASE db' = db /\ lease' = lease
  BY <1>0, <1>2, <1>3, LeaseTurn
<1>4. CASE TakeLease(w, p) /\ Granted(db[p])
  <2>1. CASE db[p].state = "closed"
    <3>1. db' = db /\ lease' = lease
      BY <1>0, <1>4, <2>1 DEF TakeLease, Leased
    <3> QED BY <1>3, <3>1
  <2>2. CASE db[p].state # "closed"
    <3>1. /\ db[p].left = 0
          /\ db'[p] = [db[p] EXCEPT !.state = "half_open", !.left = Cooldown]
          /\ lease'[p] = lease[p] \cup {w}
          /\ \A q \in Providers \ {p} : db'[q] = db[q] /\ lease'[q] = lease[q]
      BY <1>0, <1>4, <2>2 DEF TakeLease, Leased, Granted
    <3>2. db'[p].state = "half_open" /\ db'[p].left = Cooldown
      BY <1>0, <3>1 DEF Breaker
    <3>3. lease'[p] = {w}
      BY <1>0, <1>4, <2>2, <3>1, LeaseIsFree
    <3>4. \A v \in Workers : Lent(v, pc[v], chain[v].patience)
      BY DEF LeaseInv
    <3>5. ASSUME NEW v \in Workers PROVE Lent(v, pc[v], chain[v].patience)'
      <4>1. /\ pc'[w] = a /\ chain'[w] = d
            /\ \A u \in Workers \ {w} : pc'[u] = pc[u] /\ chain'[u] = chain[u]
        BY <1>2, TurnParts
      <4>2. CASE v = w
        <5>1. c.patience < Cooldown
          BY <1>0, <3>4 DEF Lent
        <5> QED BY <1>0, <1>2, <3>1, <3>2, <3>4, <4>1, <4>2, <5>1 DEF Lent
      <4>3. CASE v # w
        BY <3>1, <3>2, <3>3, <3>4, <4>1, <4>3 DEF Lent
      <4> QED BY <4>2, <4>3
    <3> QED BY <3>5 DEF LeaseInv
  <2> QED BY <2>1, <2>2
<1> QED BY <1>3, <1>4 DEF ClaimProbe

LEMMA LeasePersists ==
  ASSUME ChainInv, LeaseInv, NEW w \in Workers, Persist(w)
  PROVE  LeaseInv'
<1>0. pc'[w] = "idle" /\ \A v \in Workers \ {w} : pc'[v] = pc[v] /\ chain'[v] = chain[v]
  BY Known DEF Persist
<1>1. \A p \in Providers : w \notin lease'[p] /\ lease'[p] \subseteq lease[p]
  BY DEF Persist
<1>2. \A p \in Providers : lease'[p] # {} => db'[p] = db[p]
  BY DEF Persist, Persisted
<1> SUFFICES ASSUME NEW v \in Workers PROVE Lent(v, pc[v], chain[v].patience)'
  BY DEF LeaseInv
<1>3. Lent(v, pc[v], chain[v].patience)
  BY DEF LeaseInv
<1>4. CASE v = w
  BY <1>0, <1>1, <1>4 DEF Lent
<1>5. CASE v # w
  <2>1. pc'[v] = pc[v] /\ chain'[v] = chain[v]
    BY <1>0, <1>5
  <2>2. ASSUME NEW p \in Providers, v \in lease'[p]
        PROVE  pc[v] # "idle" /\ db'[p].state = "half_open" /\ db'[p].left > chain[v].patience
    BY <1>1, <1>2, <1>3, <2>2 DEF Lent
  <2> QED BY <1>3, <2>1, <2>2 DEF Lent
<1> QED BY <1>4, <1>5

LEMMA LeaseTicks ==
  ASSUME ChainInv, LeaseInv, Prompt, Tick
  PROVE  LeaseInv'
<1>0. "slow" \notin scene.kinds
  BY DEF ChainInv, WalkInv, TypeOK, Prompt
<1>1. \A w \in Workers : pc[w] # "idle" => chain[w].patience # 0
  BY <1>0 DEF Tick, Spend
<1> SUFFICES ASSUME NEW w \in Workers PROVE Lent(w, pc[w], chain[w].patience)'
  BY DEF LeaseInv
<1>2. Lent(w, pc[w], chain[w].patience) /\ chain[w].patience \in 0..Cooldown
  BY Known DEF LeaseInv, Chain
<1>3. pc' = pc /\ lease' = lease
  BY DEF Tick
<1>4. chain'[w].patience = Elapsed(chain[w].patience)
  BY Known DEF Tick, Chain
<1>5. \A p \in Providers : db'[p].state = db[p].state /\ db'[p].left = Elapsed(db[p].left)
                           /\ db[p].left \in 0..Cooldown
  BY Known DEF Tick, Breaker
<1> QED BY <1>1, <1>2, <1>3, <1>4, <1>5, MailChainConstants DEF Lent, Elapsed

LEMMA LeaseChanges ==
  ASSUME ChainInv, LeaseInv, [Next]_vars, NEW p \in Providers
  PROVE  lease'[p] \subseteq lease[p] \/ \E w \in Workers : lease'[p] = {w}
<1>1. ASSUME NEW w \in Workers, ClaimProbe(w)
      PROVE  lease'[p] \subseteq lease[p] \/ lease'[p] = {w}
  <2> DEFINE q == chain[w].at
  <2>1. CASE lease' = lease
    BY <2>1
  <2>2. CASE TakeLease(w, q) /\ Granted(db[q])
    <3>1. /\ q \in Providers /\ lease \in [Providers -> SUBSET Workers]
      BY Known
    <3>2. CASE p = q /\ db[q].state # "closed"
      BY <2>2, <3>1, <3>2, LeaseIsFree DEF TakeLease
    <3>3. CASE p # q \/ db[q].state = "closed"
      BY <2>2, <3>1, <3>3 DEF TakeLease
    <3> QED BY <3>2, <3>3
  <2> QED BY <1>1, <2>1, <2>2 DEF ClaimProbe
<1>2. ASSUME NEW w \in Workers, Drop(w) \/ Persist(w)
      PROVE  lease'[p] \subseteq lease[p]
  BY <1>2 DEF Drop, Persist
<1>3. ASSUME NEW w \in Workers, Build(w) \/ Walk(w) \/ Refuse(w) \/ Rollback(w) \/ Crash(w)
      PROVE  lease'[p] \subseteq lease[p] \/ \E v \in Workers : lease'[p] = {v}
  <2>1. CASE ClaimProbe(w) \/ Drop(w) \/ Persist(w)
    BY <1>1, <1>2, <2>1
  <2>2. CASE lease' = lease
    BY <2>2
  <2>3. \/ ClaimProbe(w) \/ Drop(w) \/ Persist(w)
        \/ lease' = lease
    BY <1>3 DEF Build, Walk, Refuse, Rollback, Crash, Reserve, Send, Succeed, FailRequest
  <2> QED BY <2>1, <2>2, <2>3
<1>4. CASE lease' = lease
  BY <1>4
<1> QED BY <1>3, <1>4 DEF Next, vars, Tick, NewWindow, Outage, Restore

LEMMA LeaseInvariant ==
  ASSUME Prompt
  PROVE  Spec => []LeaseInv
<1>1. Init => LeaseInv
  BY DEF Init, LeaseInv, Lent
<1>2. ChainInv /\ LeaseInv /\ [Next]_vars => LeaseInv'
  <2> SUFFICES ASSUME ChainInv, LeaseInv, [Next]_vars PROVE LeaseInv'
    OBVIOUS
  <2>1. ASSUME NEW w \in Workers, Build(w) \/ Walk(w) \/ Refuse(w) \/ Rollback(w) \/ Crash(w)
        PROVE  LeaseInv'
    BY <2>1, LeaseBuilds, LeaseClaims, LeaseWalks, LeasePersists DEF Walk
  <2>2. CASE UNCHANGED <<db, pc, chain, lease>>
    BY <2>2 DEF LeaseInv, Lent
  <2> QED BY <2>1, <2>2, LeaseTicks DEF Next, vars, NewWindow, Outage, Restore
<1> QED BY <1>1, <1>2, ChainInvariant, PTL DEF Spec

\* Between two writes of a breaker one running chain at most has the lease on its
\* recovery probe, however many instances walk, crash or lose their claims: the
\* lease lasts one cooldown and no chain lives so long (claim_breaker_probe).
THEOREM LeasesAreExclusive ==
  ASSUME Prompt
  PROVE  Spec => []LeaseIsExclusive
<1>1. Init => LeaseIsExclusive
  BY DEF Init, LeaseIsExclusive
<1>2. ChainInv /\ LeaseInv /\ LeaseIsExclusive /\ [Next]_vars => LeaseIsExclusive'
  BY LeaseChanges DEF LeaseIsExclusive
<1> QED BY <1>1, <1>2, ChainInvariant, LeaseInvariant, PTL DEF Spec

-----------------------------------------------------------------------------
(* The breakers of one instance *)

LEMMA OneActive ==
  ASSUME TypeOK, Alone, NEW v \in scene.active, NEW w \in scene.active
  PROVE  v = w
BY SceneType, FS_Singleton DEF Alone

\* A closed breaker has counted every failure since the last success.
Counts(b, n) == b.state = "closed" => n <= b.failures /\ b.failures < scene.threshold

\* The chain c of the one instance, at place a, beside the rows and the streaks n:
\* what it touched is in its copies, the rest is as it read it.
Settles(a, c, rows, n) ==
  /\ a = "idle" => c.dirty = {}
  /\ a \in Working => c.at \in c.dirty
  /\ \A p \in c.dirty : p <= c.at /\ (a = "walk" => p # c.at)
  /\ \A p \in c.dirty : Counts(c.copy[p], n[p])
  /\ \A p \in Providers \ c.dirty :
       /\ Counts(rows[p], n[p])
       /\ a # "idle" => /\ c.copy[p].failures = rows[p].failures
                        /\ c.copy[p].state = "closed" <=> rows[p].state = "closed"
CountInv == \A w \in scene.active : Settles(pc[w], chain[w], db, streak)

\* No breaker that the one instance touched is open in the database.
Cool(c, rows) == \A p \in c.dirty : rows[p].state # "open"
CoolInv == \A w \in scene.active : (pc[w] = "idle" => chain[w].dirty = {}) /\ Cool(chain[w], db)

LEMMA ActiveOnly ==
  ASSUME ChainInv, NEW w \in Workers, pc[w] # "idle" \/ Build(w)
  PROVE  w \in scene.active
BY DEF ChainInv, WalkInv, Walks, Build

\* the one instance's step decides whether the invariant is preserved
LEMMA CountTurn ==
  ASSUME ChainInv, Alone, NEW w \in scene.active, NEW a, NEW d, Turn(w, a, d), scene' = scene,
         Settles(a, d, db', streak')
  PROVE  CountInv'
<1> SUFFICES ASSUME NEW v \in scene.active PROVE Settles(pc[v], chain[v], db, streak)'
  BY DEF CountInv
<1>1. v = w /\ w \in Workers
  BY OneActive, SceneType DEF ChainInv, WalkInv
<1>2. pc'[v] = a /\ chain'[v] = d
  BY <1>1, TurnParts
<1> QED BY <1>2 DEF Settles, Counts

\* a step within the walk changes the copy of the current provider only
LEMMA SettlesWalking ==
  ASSUME ChainInv, NEW c \in Chain, NEW a \in Working, Settles(a, c, db, streak),
         NEW b \in {"walk", "closing"} \cup Working, NEW d \in Chain, NEW n,
         d.dirty = c.dirty, d.at = IF b = "walk" THEN c.at + 1 ELSE c.at,
         \A p \in Providers \ {c.at} : d.copy[p] = c.copy[p] /\ n[p] = streak[p],
         Counts(d.copy[c.at], n[c.at])
  PROVE  Settles(b, d, db, n)
<1>1. c.at \in c.dirty /\ c.dirty \subseteq Providers /\ a # "idle" /\ c.at \in Nat
  BY DEF Settles, Working, Chain, Providers
<1>2. b # "idle"
  BY DEF Working
<1>3. \A p \in d.dirty : p <= d.at /\ (b = "walk" => p # d.at)
  BY <1>1 DEF Settles, Providers
<1>4. \A p \in d.dirty : Counts(d.copy[p], n[p])
  BY <1>1 DEF Settles
<1>5. \A p \in Providers \ d.dirty : d.copy[p] = c.copy[p] /\ n[p] = streak[p]
  BY <1>1
<1>6. b \in Working => d.at \in d.dirty
  BY <1>1 DEF Working
<1> QED BY <1>1, <1>2, <1>3, <1>4, <1>5, <1>6 DEF Settles

LEMMA BreakerCounts ==
  ASSUME TypeOK, NEW b \in Breaker, NEW n \in 0..Threshold, Counts(b, n)
  PROVE  /\ Counts(Probed(b), n) /\ Counts(CancelProbe(b), n) /\ Counts(Leased(b), n)
         /\ Counts([b EXCEPT !.probe = FALSE], n) /\ Counts([b EXCEPT !.left = Elapsed(@)], n)
         /\ Counts(RecordFailure(b), Capped(n + 1, scene.threshold)) /\ Counts(Closed, 0)
<1>1. scene.threshold \in 1..Threshold /\ Threshold \in Nat
  BY SceneType, MailChainConstants
<1>2. Counts(RecordFailure(b), Capped(n + 1, scene.threshold))
  BY <1>1 DEF Counts, RecordFailure, Capped, Breaker
<1>3. Counts(Closed, 0)
  BY <1>1 DEF Counts, Closed
<1> QED BY <1>2, <1>3 DEF Counts, Probed, CancelProbe, Leased, Breaker

LEMMA BreakerStates ==
  ASSUME NEW b \in Breaker
  PROVE  /\ Leased(b).failures = b.failures /\ (Leased(b).state = "closed" <=> b.state = "closed")
         /\ Probed(b).failures = b.failures /\ (Probed(b).state = "closed" <=> b.state = "closed")
         /\ (Granted(b) => (Leased(b).state # "open" \/ b.left # 0))
         /\ Leased(b).state # "open"
         /\ [b EXCEPT !.left = Elapsed(@)].failures = b.failures
         /\ [b EXCEPT !.left = Elapsed(@)].state = b.state
BY DEF Leased, Probed, Breaker
LEMMA CountWalks ==
  ASSUME ChainInv, CountInv, Alone, NEW w \in Workers, scene' = scene,
         Reserve(w) \/ Send(w) \/ Succeed(w) \/ FailRequest(w)
  PROVE  CountInv'
<1> DEFINE c == chain[w]
           p == c.at
<1>0. /\ c \in Chain /\ p \in Providers /\ p <= scene.last /\ c.copy[p] \in Breaker /\ TypeOK
      /\ streak \in [Providers -> 0..Threshold] /\ streak[p] \in 0..Threshold
  BY Known
<1>1. /\ w \in scene.active /\ pc[w] \in Working /\ db' = db
      /\ Settles(pc[w], c, db, streak)
  <2>1. pc[w] \in Working /\ db' = db
    BY DEF Reserve, Send, Succeed, FailRequest, Working
  <2> QED BY <2>1, ActiveOnly DEF Working, CountInv
<1>2. Counts(c.copy[p], streak[p])
  BY <1>1 DEF Settles
<1>a. ASSUME NEW b \in Breaker
      PROVE  /\ [c EXCEPT !.copy[p] = b] \in Chain /\ [c EXCEPT !.copy[p] = b].at = p
             /\ [c EXCEPT !.copy[p] = b].dirty = c.dirty
             /\ [c EXCEPT !.copy[p] = b].copy[p] = b
             /\ \A q \in Providers \ {p} : [c EXCEPT !.copy[p] = b].copy[q] = c.copy[q]
  BY <1>0 DEF Chain
<1>b. ASSUME NEW e \in Chain, e.at = p, e.dirty = c.dirty, Advance(w, e),
             \A q \in Providers \ {p} : e.copy[q] = c.copy[q] /\ streak'[q] = streak[q],
             Counts(e.copy[p], streak'[p])
      PROVE  CountInv'
  <2>1. PICK b \in {"walk", "closing"}, d \in Chain :
          /\ Turn(w, b, d) /\ d.copy = e.copy /\ d.dirty = e.dirty
          /\ d.at = IF b = "walk" THEN e.at + 1 ELSE e.at
    BY <1>0, <1>b, AdvanceTurn
  <2>2. Settles(b, d, db', streak')
    BY <1>0, <1>1, <1>b, <2>1, SettlesWalking
  <2> QED BY <1>1, <2>1, <2>2, CountTurn
<1>c. ASSUME NEW b \in {"closing"} \cup Working, NEW d \in Chain, d.at = p, d.dirty = c.dirty,
             pc' = [pc EXCEPT ![w] = b], chain' = [chain EXCEPT ![w] = d],
             \A q \in Providers \ {p} : d.copy[q] = c.copy[q] /\ streak'[q] = streak[q],
             Counts(d.copy[p], streak'[p])
      PROVE  CountInv'
  <2>1. Settles(b, d, db', streak')
    <3>1. b # "walk"
      BY DEF Working
    <3> QED BY <1>0, <1>1, <1>c, <3>1, SettlesWalking
  <2> QED BY <1>1, <1>c, <2>1, CountTurn DEF Turn
<1>3. CASE Reserve(w)
  <2>1. streak' = streak
    BY <1>3 DEF Reserve
  <2>2. CASE pc' = [pc EXCEPT ![w] = "ready"] /\ chain' = chain
    <3>1. chain' = [chain EXCEPT ![w] = c] /\ "ready" \in Working
      BY <2>2, Known DEF Working
    <3> QED BY <1>0, <1>2, <1>c, <2>1, <2>2, <3>1
  <2>3. CASE Cancel(w)
    <3>1. CancelProbe(c.copy[p]) \in Breaker /\ Counts(CancelProbe(c.copy[p]), streak[p])
      BY <1>0, <1>2, BreakerSteps, BreakerCounts
    <3>2. Advance(w, [c EXCEPT !.copy[p] = CancelProbe(c.copy[p])])
      BY <2>3 DEF Cancel
    <3> QED BY <1>a, <1>b, <2>1, <3>1, <3>2
  <2> QED BY <1>3, <2>2, <2>3 DEF Reserve
<1>4. CASE Send(w)
  <2> DEFINE d == [c EXCEPT !.tries = @ + 1]
  <2>1. c.tries < Attempts
    BY <1>4, Known DEF Send, Walks
  <2>2. d \in Chain /\ d.at = p /\ d.dirty = c.dirty /\ d.copy = c.copy
    BY <1>0, <2>1, MailChainConstants DEF Chain
  <2>3. /\ pc' = [pc EXCEPT ![w] = "sending"] /\ "sending" \in Working
        /\ chain' = [chain EXCEPT ![w] = d] /\ streak' = streak
    BY <1>4, Known DEF Send, Working
  <2> HIDE DEF d
  <2> QED BY <1>2, <1>c, <2>2, <2>3
<1>5. CASE Succeed(w)
  <2>1. /\ pc' = [pc EXCEPT ![w] = "closing"]
        /\ chain' = [chain EXCEPT ![w] = [c EXCEPT !.copy[p] = Closed]]
        /\ streak' = [streak EXCEPT ![p] = 0]
    BY <1>5, Known DEF Succeed
  <2>2. Closed \in Breaker /\ Counts(Closed, 0)
    BY <1>0, <1>2, BreakerSteps, BreakerCounts
  <2>3. streak'[p] = 0 /\ \A q \in Providers \ {p} : streak'[q] = streak[q]
    BY <1>0, <2>1
  <2> QED BY <1>a, <1>c, <2>1, <2>2, <2>3
<1>6. CASE FailRequest(w)
  <2> DEFINE b == RecordFailure(c.copy[p])
             d == [c EXCEPT !.copy[p] = b]
  <2>1. b \in Breaker /\ Counts(b, Capped(streak[p] + 1, scene.threshold))
    BY <1>0, <1>2, BreakerSteps, BreakerCounts
  <2>2. /\ d \in Chain /\ d.at = p /\ d.dirty = c.dirty /\ d.copy[p] = b
        /\ \A q \in Providers \ {p} : d.copy[q] = c.copy[q]
    BY <1>a, <2>1
  <2>3. /\ streak' = [streak EXCEPT ![p] = Capped(@ + 1, scene.threshold)]
        /\ \/ pc' = [pc EXCEPT ![w] = "claimed"] /\ chain' = [chain EXCEPT ![w] = d]
           \/ Advance(w, d)
    BY <1>6 DEF FailRequest
  <2>4. /\ streak'[p] = Capped(streak[p] + 1, scene.threshold)
        /\ \A q \in Providers \ {p} : streak'[q] = streak[q]
    BY <1>0, <2>3
  <2> HIDE DEF d, b
  <2>5. CASE Advance(w, d)
    BY <1>b, <2>1, <2>2, <2>4, <2>5
  <2>6. CASE pc' = [pc EXCEPT ![w] = "claimed"] /\ chain' = [chain EXCEPT ![w] = d]
    <3>1. "claimed" \in Working
      BY DEF Working
    <3> QED BY <1>c, <2>1, <2>2, <2>4, <2>6, <3>1
  <2> QED BY <2>3, <2>5, <2>6
<1> QED BY <1>3, <1>4, <1>5, <1>6

LEMMA CountClaims ==
  ASSUME ChainInv, CountInv, Alone, NEW w \in Workers, scene' = scene, ClaimProbe(w)
  PROVE  CountInv'
<1> DEFINE c == chain[w]
           p == c.at
<1>0. /\ c \in Chain /\ p \in Providers /\ p <= scene.last /\ c.copy[p] \in Breaker /\ TypeOK
      /\ db \in [Providers -> Breaker] /\ db[p] \in Breaker
      /\ streak \in [Providers -> 0..Threshold] /\ streak[p] \in 0..Threshold
      /\ pc[w] = "walk" /\ streak' = streak /\ p \in Nat
  <2>1. c \in Chain /\ p \in Providers /\ pc[w] = "walk" /\ streak' = streak
    BY Known DEF ClaimProbe
  <2>2. p \in Nat
    BY <2>1 DEF Providers
  <2> QED BY <2>1, <2>2, Known
<1>1. w \in scene.active /\ Settles("walk", c, db, streak)
  <2>1. w \in scene.active
    BY <1>0, ActiveOnly
  <2> QED BY <1>0, <2>1 DEF CountInv
<1>2. c.dirty \subseteq Providers /\ p \notin c.dirty
  BY <1>0, <1>1 DEF Settles, Chain
\* the row keeps its count and whether it is closed
<1>3. /\ \A q \in Providers \ {p} : db'[q] = db[q]
      /\ db'[p].failures = db[p].failures /\ (db'[p].state = "closed" <=> db[p].state = "closed")
  <2>1. CASE db' = [db EXCEPT ![p] = Leased(@)]
    BY <1>0, <2>1, BreakerStates
  <2>2. CASE db' = db
    BY <2>2
  <2> QED BY <2>1, <2>2 DEF ClaimProbe, TakeLease
<1>4. \A q \in Providers \ c.dirty :
        /\ Counts(db'[q], streak[q]) /\ c.copy[q].failures = db'[q].failures
        /\ c.copy[q].state = "closed" <=> db'[q].state = "closed"
  <2> SUFFICES ASSUME NEW q \in Providers \ c.dirty
               PROVE  /\ Counts(db'[q], streak[q]) /\ c.copy[q].failures = db'[q].failures
                      /\ c.copy[q].state = "closed" <=> db'[q].state = "closed"
    OBVIOUS
  <2>1. /\ Counts(db[q], streak[q]) /\ c.copy[q].failures = db[q].failures
        /\ c.copy[q].state = "closed" <=> db[q].state = "closed"
    BY <1>1 DEF Settles
  <2>2. CASE q = p
    BY <1>3, <2>1, <2>2 DEF Counts
  <2>3. CASE q # p
    BY <1>3, <2>1, <2>3 DEF Counts
  <2> QED BY <2>2, <2>3
<1>5. CASE Advance(w, c)
  <2>1. PICK a \in {"walk", "closing"}, d \in Chain :
          /\ Turn(w, a, d) /\ d.copy = c.copy /\ d.dirty = c.dirty
          /\ d.at = IF a = "walk" THEN p + 1 ELSE p
    BY <1>0, <1>5, AdvanceTurn
  <2>2. \A q \in c.dirty : q <= d.at /\ (a = "walk" => q # d.at)
    BY <1>0, <1>1, <1>2, <2>1 DEF Settles, Providers
  <2>3. Settles(a, d, db', streak')
    BY <1>0, <1>1, <1>4, <2>1, <2>2 DEF Settles, Working
  <2> QED BY <1>1, <2>1, <2>3, CountTurn
<1>6. CASE ~Advance(w, c)
  <2> DEFINE d == [c EXCEPT !.copy[p] = Probed(@), !.dirty = @ \cup {p}]
  <2>1. pc' = [pc EXCEPT ![w] = "claimed"] /\ chain' = [chain EXCEPT ![w] = d]
    BY <1>6, Known DEF ClaimProbe
  <2>2. Probed(c.copy[p]) \in Breaker
    BY <1>0, BreakerSteps
  <2>3. /\ d \in Chain /\ d.at = p /\ d.dirty = c.dirty \cup {p} /\ d.copy[p] = Probed(c.copy[p])
        /\ \A q \in Providers \ {p} : d.copy[q] = c.copy[q]
    BY <1>0, <2>2 DEF Chain
  <2> HIDE DEF d
  <2>4. Counts(Probed(c.copy[p]), streak[p])
    <3>1. Counts(c.copy[p], streak[p])
      BY <1>2, <1>1, <1>0 DEF Settles, Counts
    <3> QED BY <1>0, <3>1, BreakerCounts
  <2>5. Settles("claimed", d, db', streak')
    <3>1. \A q \in d.dirty : q <= d.at
      BY <1>0, <1>1, <2>3 DEF Settles
    <3>2. \A q \in d.dirty : Counts(d.copy[q], streak'[q])
      BY <1>0, <1>1, <1>2, <2>3, <2>4 DEF Settles
    <3>3. \A q \in Providers \ d.dirty :
        /\ Counts(db'[q], streak'[q]) /\ d.copy[q].failures = db'[q].failures
        /\ d.copy[q].state = "closed" <=> db'[q].state = "closed"
      <4> SUFFICES ASSUME NEW q \in Providers \ d.dirty
                   PROVE  /\ Counts(db'[q], streak'[q]) /\ d.copy[q].failures = db'[q].failures
                          /\ d.copy[q].state = "closed" <=> db'[q].state = "closed"
        OBVIOUS
      <4>1. q # p /\ q \in Providers \ c.dirty
        BY <2>3
      <4>2. d.copy[q] = c.copy[q] /\ streak'[q] = streak[q]
        BY <1>0, <2>3, <4>1
      <4> QED BY <1>4, <4>1, <4>2
    <3> QED BY <2>3, <3>1, <3>2, <3>3 DEF Settles
  <2> QED BY <1>1, <2>1, <2>3, <2>5, CountTurn DEF Turn
<1> QED BY <1>5, <1>6
LEMMA BuiltChain ==
  ASSUME ChainInv, NEW w \in Workers, Build(w)
  PROVE  \E d \in Chain : /\ Turn(w, "walk", d)
                          /\ d.dirty = {} /\ d.copy = db /\ d.at = 1
<1>1. PICK flush \in BOOLEAN :
        chain' = [chain EXCEPT ![w] = [NoChain EXCEPT !.flush = flush, !.copy = db,
                                                      !.patience = Cooldown - 1]]
  BY DEF Build
<1> DEFINE d == [NoChain EXCEPT !.flush = flush, !.copy = db, !.patience = Cooldown - 1]
<1>2. NoChain \in Chain /\ NoChain.at = 1 /\ NoChain.dirty = {}
  BY NoChainWalks, Known DEF Walks, NoChain
<1>3. Cooldown - 1 \in 0..Cooldown
  BY MailChainConstants
<1>4. d \in Chain /\ d.at = 1 /\ d.dirty = {} /\ d.copy = db
  BY <1>2, <1>3, Known DEF Chain
<1>5. chain' = [chain EXCEPT ![w] = d] /\ pc' = [pc EXCEPT ![w] = "walk"]
  BY <1>1 DEF Build
<1> HIDE DEF d
<1> QED BY <1>4, <1>5 DEF Turn

LEMMA CountBuilds ==
  ASSUME ChainInv, CountInv, Alone, NEW w \in Workers, scene' = scene, Build(w)
  PROVE  CountInv'
<1>1. w \in scene.active /\ pc[w] = "idle" /\ db' = db /\ streak' = streak
  BY DEF Build
<1>2. Settles("idle", chain[w], db, streak)
  BY <1>1 DEF CountInv
<1>3. PICK d \in Chain : Turn(w, "walk", d) /\ d.dirty = {} /\ d.copy = db /\ d.at = 1
  BY BuiltChain
<1>4. Settles("walk", d, db', streak')
  BY <1>1, <1>2, <1>3 DEF Settles, Working
<1> QED BY <1>1, <1>3, <1>4, CountTurn

LEMMA CountPersists ==
  ASSUME ChainInv, CountInv, Alone, NEW w \in Workers, scene' = scene, Persist(w)
  PROVE  CountInv'
<1> DEFINE c == chain[w]
<1>0. /\ c \in Chain /\ TypeOK /\ db \in [Providers -> Breaker]
      /\ streak \in [Providers -> 0..Threshold] /\ pc[w] = "closing" /\ streak' = streak
  BY Known DEF Persist
<1>1. w \in scene.active /\ Settles("closing", c, db, streak)
  <2>1. w \in scene.active
    BY <1>0, ActiveOnly
  <2> QED BY <1>0, <2>1 DEF CountInv
<1>2. Turn(w, "idle", NoChain) /\ NoChain.dirty = {}
  <2>1. NoChain \in Chain
    BY <1>0, NoChainWalks DEF Walks
  <2> QED BY <2>1 DEF Persist, Turn, NoChain
<1>3. ASSUME NEW p \in Providers PROVE Counts(db'[p], streak[p])
  <2>1. CASE p \in c.dirty
    <3>1. c.copy[p] \in Breaker /\ Counts(c.copy[p], streak[p])
      BY <1>0, <1>1, <2>1, ChainParts DEF Settles
    <3>2. db'[p] = [c.copy[p] EXCEPT !.probe = FALSE]
      BY <2>1 DEF Persist, Persisted
    <3> QED BY <1>0, <3>1, <3>2, BreakerCounts
  <2>2. CASE p \notin c.dirty
    <3>1. db'[p] = db[p]
      BY <2>2 DEF Persist, Persisted
    <3> QED BY <1>1, <2>2, <3>1 DEF Settles
  <2> QED BY <2>1, <2>2
<1>4. Settles("idle", NoChain, db', streak')
  BY <1>0, <1>2, <1>3 DEF Settles, Working
<1> QED BY <1>1, <1>2, <1>4, CountTurn

\* what the passing of time leaves of breakers and chains
LEMMA TickKeeps ==
  ASSUME ChainInv, Tick
  PROVE  /\ pc' = pc /\ streak' = streak
         /\ \A p \in Providers : db'[p].state = db[p].state /\ db'[p].failures = db[p].failures
         /\ \A w \in Workers :
              /\ chain'[w].dirty = chain[w].dirty /\ chain'[w].at = chain[w].at
              /\ \A p \in Providers : /\ chain'[w].copy[p].state = chain[w].copy[p].state
                                      /\ chain'[w].copy[p].failures = chain[w].copy[p].failures
<1>1. \A p \in Providers : db'[p].state = db[p].state /\ db'[p].failures = db[p].failures
  <2> SUFFICES ASSUME NEW p \in Providers
               PROVE  db'[p].state = db[p].state /\ db'[p].failures = db[p].failures
    OBVIOUS
  <2>1. db'[p] = [db[p] EXCEPT !.left = Elapsed(@)] /\ db[p] \in Breaker
    BY DEF Tick, ChainInv, WalkInv, TypeOK
  <2> QED BY <2>1, BreakerStates
<1>2. ASSUME NEW w \in Workers
      PROVE  /\ chain'[w].dirty = chain[w].dirty /\ chain'[w].at = chain[w].at
             /\ \A p \in Providers : /\ chain'[w].copy[p].state = chain[w].copy[p].state
                                     /\ chain'[w].copy[p].failures = chain[w].copy[p].failures
  <2> DEFINE later == [p \in Providers |->
                         [chain[w].copy[p] EXCEPT !.left = Elapsed(chain[w].copy[p].left)]]
  <2>1. chain'[w] = [chain[w] EXCEPT !.patience = Elapsed(@), !.copy = later]
    BY DEF Tick
  <2>2. chain[w] \in Chain
    BY Known
  <2>3. chain'[w].dirty = chain[w].dirty /\ chain'[w].at = chain[w].at /\ chain'[w].copy = later
    <3> HIDE DEF later
    <3> QED BY <2>1, <2>2 DEF Chain
  <2>4. \A p \in Providers : chain[w].copy[p] \in Breaker
    BY <2>2, ChainParts
  <2> QED BY <2>3, <2>4, BreakerStates
<1>3. pc' = pc /\ streak' = streak
  BY DEF Tick
<1> QED BY <1>1, <1>2, <1>3

LEMMA CountTicks ==
  ASSUME ChainInv, CountInv, scene' = scene, Tick
  PROVE  CountInv'
<1> SUFFICES ASSUME NEW w \in scene.active PROVE Settles(pc[w], chain[w], db, streak)'
  BY DEF CountInv
<1>1. w \in Workers /\ Settles(pc[w], chain[w], db, streak)
  BY SceneType DEF ChainInv, WalkInv, CountInv
<1>2. chain[w].dirty \subseteq Providers
  BY <1>1, Known DEF Chain
<1>3. /\ pc'[w] = pc[w] /\ streak' = streak
      /\ chain'[w].dirty = chain[w].dirty /\ chain'[w].at = chain[w].at
  BY <1>1, TickKeeps
<1>4. \A p \in chain[w].dirty : Counts(chain'[w].copy[p], streak[p])
  BY <1>1, <1>2, TickKeeps DEF Settles, Counts
<1>5. ASSUME NEW p \in Providers \ chain[w].dirty
      PROVE  /\ Counts(db'[p], streak[p])
             /\ pc[w] # "idle" => /\ chain'[w].copy[p].failures = db'[p].failures
                                  /\ chain'[w].copy[p].state = "closed" <=> db'[p].state = "closed"
  BY <1>1, TickKeeps DEF Settles, Counts
<1>6. /\ pc[w] = "idle" => chain[w].dirty = {}
      /\ pc[w] \in Working => chain[w].at \in chain[w].dirty
      /\ \A p \in chain[w].dirty : p <= chain[w].at /\ (pc[w] = "walk" => p # chain[w].at)
  BY <1>1 DEF Settles
<1> QED BY <1>3, <1>4, <1>5, <1>6 DEF Settles, Counts

\* The one instance runs on, and no finalisation of it is given up.
Undisturbed == \A s \in Scenes :
  Cardinality(s.active) = 1 => s.kinds \cap {"refuse", "lost", "crash"} = {}

LEMMA CountNext ==
  ASSUME ChainInv, Undisturbed, Alone, CountInv, [Next]_vars
  PROVE  CountInv'
<1>0. scene \in Scenes /\ scene' = scene
  BY DEF ChainInv, WalkInv, TypeOK, Next, vars
<1>1. "refuse" \notin scene.kinds /\ "lost" \notin scene.kinds /\ "crash" \notin scene.kinds
  BY <1>0 DEF Undisturbed, Alone
<1>2. ASSUME NEW w \in Workers, Build(w) \/ Walk(w) \/ Refuse(w) \/ Rollback(w) \/ Crash(w)
      PROVE  CountInv'
  <2>1. Build(w) \/ Walk(w)
    BY <1>1, <1>2 DEF Refuse, Rollback, Crash, Spend
  <2> QED BY <1>0, <2>1, CountBuilds, CountClaims, CountWalks, CountPersists DEF Walk
<1>3. CASE UNCHANGED <<db, pc, chain, streak>>
  BY <1>0, <1>3 DEF CountInv, Settles, Counts
<1> QED BY <1>0, <1>2, <1>3, CountTicks DEF Next, vars, NewWindow, Outage, Restore

LEMMA CountInvariant ==
  ASSUME Undisturbed
  PROVE  Spec => [](Alone => CountInv)
<1>1. Init => CountInv
  <2> SUFFICES ASSUME Init, NEW w \in scene.active
               PROVE  Settles(pc[w], chain[w], db, streak)
    BY DEF CountInv
  <2>1. ChainInv
    BY InitChain
  <2>2. /\ w \in Workers /\ scene.threshold \in 1..Threshold
    BY <2>1, SceneType DEF ChainInv, WalkInv
  <2>3. pc[w] = "idle" /\ chain[w].dirty = {}
    BY <2>2 DEF Init, NoChain
  <2>4. \A p \in Providers : Counts(db[p], streak[p])
    BY <2>2, MailChainConstants DEF Init, Counts, Closed
  <2> QED BY <2>3, <2>4 DEF Settles, Working
<1>2. ChainInv /\ (Alone => CountInv) /\ [Next]_vars => (Alone => CountInv)'
  <2>1. [Next]_vars => scene' = scene
    BY DEF Next, vars
  <2> QED BY <2>1, CountNext DEF Alone
<1> QED BY <1>1, <1>2, ChainInvariant, PTL DEF Spec

\* With one instance, whose chains are all finalised, a provider that failed
\* threshold times in a row is found with its breaker open or on probe once the
\* instance is done, however the failures are spread over chains
\* (record_failure, _persist_breakers).
THEOREM FailingProvidersTrip ==
  ASSUME Undisturbed
  PROVE  Spec => []TripsAtThreshold
<1>1. ChainInv /\ (Alone => CountInv) => TripsAtThreshold
  <2> SUFFICES ASSUME ChainInv, CountInv, Alone, \A w \in Workers : pc[w] = "idle",
                      NEW p \in Providers, streak[p] >= scene.threshold
               PROVE  db[p].state # "closed"
    BY DEF TripsAtThreshold
  <2>1. PICK w \in scene.active : TRUE
    BY SceneType, FS_Singleton DEF Alone, ChainInv, WalkInv
  <2>2. w \in Workers
    BY <2>1, SceneType DEF ChainInv, WalkInv
  <2>3. Counts(db[p], streak[p])
    BY <2>1, <2>2 DEF CountInv, Settles
  <2>4. db[p] \in Breaker /\ streak[p] \in 0..Threshold /\ scene.threshold \in 1..Threshold
    BY SceneType DEF ChainInv, WalkInv, TypeOK
  <2> QED BY <2>3, <2>4 DEF Counts, Breaker
<1> QED BY <1>1, ChainInvariant, CountInvariant, PTL

-----------------------------------------------------------------------------
(* The cooldown *)

\* the one instance's step decides whether the invariant is preserved
LEMMA CoolTurn ==
  ASSUME ChainInv, Alone, NEW w \in scene.active, NEW a, NEW d, Turn(w, a, d), scene' = scene,
         a = "idle" => d.dirty = {}, Cool(d, db')
  PROVE  CoolInv'
<1> SUFFICES ASSUME NEW v \in scene.active
             PROVE  ((pc[v] = "idle" => chain[v].dirty = {}) /\ Cool(chain[v], db))'
  BY DEF CoolInv
<1>1. v = w /\ w \in Workers
  BY OneActive, SceneType DEF ChainInv, WalkInv
<1>2. pc'[v] = a /\ chain'[v] = d
  BY <1>1, TurnParts
<1> QED BY <1>2 DEF Cool
LEMMA CoolNext ==
  ASSUME ChainInv, Alone, CoolInv, [Next]_vars
  PROVE  CoolInv'
<1>0. scene' = scene
  BY DEF Next, vars
<1>1. ASSUME NEW w \in Workers, Build(w) \/ Walk(w) \/ Refuse(w) \/ Rollback(w) \/ Crash(w)
      PROVE  CoolInv'
  <2>0. w \in scene.active
    BY <1>1, ActiveOnly DEF Walk, ClaimProbe, Reserve, Send, Succeed, FailRequest, Persist,
                            Refuse, Rollback, Crash, Build
  <2>1. Cool(chain[w], db) /\ chain[w] \in Chain
    BY <2>0, Known DEF CoolInv
  <2>2. CASE Build(w)
    BY <1>0, <2>0, <2>2, BuiltChain, CoolTurn DEF Cool
  <2>3. CASE ClaimProbe(w)
    <3> DEFINE c == chain[w]
               p == c.at
    <3>0. /\ p \in Providers /\ p <= scene.last /\ c.copy[p] \in Breaker
          /\ db \in [Providers -> Breaker] /\ TypeOK
      BY Known
    <3>1. \A q \in Providers : db[q].state # "open" => db'[q].state # "open"
      BY <2>3, <3>0, BreakerStates DEF ClaimProbe, TakeLease
    <3>2. Cool(c, db')
      BY <2>1, <3>1 DEF Cool, Chain
    <3>3. CASE Advance(w, c)
      BY <1>0, <2>0, <2>1, <3>0, <3>2, <3>3, AdvanceTurn, CoolTurn DEF Cool
    <3>4. CASE ~Advance(w, c)
      <4> DEFINE d == [c EXCEPT !.copy[p] = Probed(@), !.dirty = @ \cup {p}]
      <4>1. pc' = [pc EXCEPT ![w] = "claimed"] /\ chain' = [chain EXCEPT ![w] = d]
            /\ db' = [db EXCEPT ![p] = Leased(@)]
        BY <2>3, <3>4, Known DEF ClaimProbe, TakeLease
      <4>2. Probed(c.copy[p]) \in Breaker
        BY <3>0, BreakerSteps
      <4>3. d \in Chain /\ d.dirty = c.dirty \cup {p}
        BY <2>1, <3>0, <4>2 DEF Chain
      <4> HIDE DEF d
      <4>4. db'[p].state # "open"
        BY <3>0, <4>1, BreakerStates
      <4>5. Cool(d, db')
        BY <3>2, <4>3, <4>4 DEF Cool
      <4> QED BY <1>0, <2>0, <4>1, <4>3, <4>5, CoolTurn DEF Turn
    <3> QED BY <3>3, <3>4
  <2>4. CASE Persist(w) \/ Drop(w)
    <3>1. NoChain \in Chain /\ NoChain.dirty = {}
      BY NoChainWalks, Known DEF Walks, NoChain
    <3>2. Turn(w, "idle", NoChain)
      BY <2>4, <3>1 DEF Turn, Persist, Drop
    <3> QED BY <1>0, <2>0, <3>1, <3>2, CoolTurn DEF Cool
  <2>5. CASE Kept(w) /\ db' = db
    BY <1>0, <2>0, <2>1, <2>5, CoolTurn DEF Cool, Kept
  <2> QED BY <1>1, <2>2, <2>3, <2>4, <2>5, WalkTurn DEF Walk
<1>2. CASE Tick
  <2> SUFFICES ASSUME NEW w \in scene.active
               PROVE  ((pc[w] = "idle" => chain[w].dirty = {}) /\ Cool(chain[w], db))'
    BY <1>0 DEF CoolInv
  <2>1. w \in Workers
    BY SceneType DEF ChainInv, WalkInv
  <2>2. chain[w].dirty \subseteq Providers
    BY <2>1, Known DEF Chain
  <2> QED BY <1>2, <2>1, <2>2, TickKeeps DEF CoolInv, Cool
<1>3. CASE UNCHANGED <<db, pc, chain>>
  BY <1>0, <1>3 DEF CoolInv, Cool
<1> QED BY <1>1, <1>2, <1>3 DEF Next, vars, NewWindow, Outage, Restore

LEMMA CoolInvariant == Spec => [](Alone => CoolInv)
<1>1. Init => CoolInv
  <2>1. Init => \A w \in Workers : chain[w].dirty = {}
    BY DEF Init, NoChain
  <2>2. Init => ChainInv
    BY InitChain
  <2> QED BY <2>1, <2>2, SceneType DEF CoolInv, Cool, ChainInv, WalkInv
<1>2. ChainInv /\ (Alone => CoolInv) /\ [Next]_vars => (Alone => CoolInv)'
  <2>1. [Next]_vars => scene' = scene
    BY DEF Next, vars
  <2> QED BY <2>1, CoolNext DEF Alone
<1> QED BY <1>1, <1>2, ChainInvariant, PTL DEF Spec

\* With one instance an open breaker stays open for its cooldown, whatever is
\* sent, refused, rolled back or crashed meanwhile: no chain claims it before
\* (claim_breaker_probe), and a chain that touched it has claimed it and writes
\* over a breaker that is not open any more (_persist_breakers).
THEOREM CooldownsHold == Spec => CooldownHolds
<1>1. ChainInv /\ (Alone => CoolInv) /\ [Next]_vars =>
        [Alone => \A p \in Providers :
           (db[p].state = "open" /\ db[p].left > 0) => db'[p].state = "open"]_vars
  <2> SUFFICES ASSUME ChainInv, CoolInv, Next, Alone,
                      NEW p \in Providers, db[p].state = "open", db[p].left > 0
               PROVE  db'[p].state = "open"
    OBVIOUS
  <2>1. ASSUME NEW w \in Workers, ClaimProbe(w)
        PROVE  db'[p] = db[p]
    <3>1. ~Granted(db[p]) /\ chain[w].at \in Providers
      BY Known DEF Granted
    <3> QED BY <2>1, <3>1, Known DEF ClaimProbe, TakeLease
  <2>2. ASSUME NEW w \in Workers, Persist(w)
        PROVE  db'[p] = db[p]
    <3>1. w \in scene.active
      BY <2>2, ActiveOnly DEF Persist
    <3>2. p \notin chain[w].dirty
      BY <3>1 DEF CoolInv, Cool
    <3> QED BY <2>2, <3>2 DEF Persist, Persisted
  <2>3. ASSUME NEW w \in Workers, Build(w) \/ Walk(w) \/ Refuse(w) \/ Rollback(w) \/ Crash(w)
        PROVE  db'[p] = db[p]
    BY <2>1, <2>2, <2>3, WalkTurn DEF Walk, Build
  <2>4. CASE Tick
    BY <2>4, TickKeeps
  <2> QED BY <2>3, <2>4 DEF Next, NewWindow, Outage, Restore
<1> QED BY <1>1, ChainInvariant, CoolInvariant, PTL DEF Spec, CooldownHolds
=============================================================================
