------------------------------ MODULE MailChain ------------------------------
(***************************************************************************)
(* The provider chain: mail/chain.py walking the configured providers,     *)
(* mail/breaker.py counting their failures, and the breaker and usage      *)
(* columns of MailProvider that all service instances share.               *)
(*                                                                         *)
(* An instance copies the breakers out of the database when it builds a    *)
(* chain, works on the copies, and writes the ones it touched back when it *)
(* finalises the notification.  A point in time is abstracted to the ticks *)
(* left until it.                                                          *)
(***************************************************************************)
EXTENDS Integers, FiniteSets

CONSTANTS
  Workers,     \* service instances
  LastProvider,\* providers are 1..LastProvider, in priority order
  Threshold,   \* bound: no breaker_threshold is larger
  Cooldown,    \* breaker_cooldown_seconds, in ticks
  Attempts,    \* MailRetryPolicy.attempts: requests per provider and walk
  Limit,       \* requests a usage window allows each provider
  Scenes       \* bound: the instances that run, the last configured provider, the
               \* providers found down with an open breaker, the breaker_threshold,
               \* the adverse events that may happen and how many of them do

AdverseKinds == {"outage", "error", "refuse", "lost", "crash", "slow", "unfit"}

ASSUME MailChainConstants ==
  /\ LastProvider \in Nat \ {0} /\ Threshold \in Nat \ {0}
  /\ Cooldown \in Nat \ {0} /\ Attempts \in Nat \ {0} /\ Limit \in Nat \ {0}
  /\ IsFiniteSet(Workers)
  /\ Scenes \subseteq [active : SUBSET Workers, last : 1..LastProvider,
                      tripped : SUBSET (1..LastProvider), threshold : 1..Threshold,
                      kinds : SUBSET AdverseKinds, adverse : Nat]

Providers == 1..LastProvider

VARIABLES
  db,      \* breaker_state, breaker_until, breaker_failures of each provider
  used,    \* MailProviderUsage: requests reserved in the current window
  pc,      \* where each instance is
  chain,   \* the chain object of each instance
  up,      \* the providers that accept mail (environment)
  sent,    \* requests each provider received in the window (history)
  streak,  \* failures of each provider since its last success (history)
  lease,   \* running chains that took the probe lease of each provider since its
           \* breaker was last written (history)
  scene,   \* the scene that is played
  budget   \* adverse events left

vars == <<db, used, pc, chain, up, sent, streak, lease, scene, budget>>

\* failures and streak saturate at the threshold, beyond which nothing tells them
\* apart; sent saturates one above what RequestsWithinLimit allows
Breaker == [state : {"closed", "open", "half_open"}, left : 0..Cooldown,
            failures : 0..Threshold, probe : BOOLEAN]
SentBound == Limit + Cardinality(scene.active)
Chain == [flush : BOOLEAN, copy : [Providers -> Breaker], at : Providers,
          tries : 0..Attempts, dirty : SUBSET Providers, patience : 0..Cooldown]

Closed == [state |-> "closed", left |-> 0, failures |-> 0, probe |-> FALSE]
NoChain == [flush |-> FALSE, copy |-> [p \in Providers |-> Closed], at |-> 1,
            tries |-> 0, dirty |-> {}, patience |-> 0]

Capped(n, max) == IF n > max THEN max ELSE n

-----------------------------------------------------------------------------
(* CircuitBreaker *)

\* allow_probe's answer ...
Allowed(b) == \/ b.state = "closed"
              \/ b.state = "open" /\ b.left = 0
              \/ b.state = "half_open" /\ ~b.probe /\ b.left = 0
\* ... and its effect
Probed(b) ==
  IF b.state = "open"
  THEN [b EXCEPT !.state = "half_open", !.left = Cooldown, !.probe = TRUE]
  ELSE [b EXCEPT !.probe = (b.state = "half_open")]

\* mutant: the threshold is missed by one
RecordFailureLate(b) ==
  LET n == Capped(b.failures + 1, scene.threshold) IN
  IF \/ b.state = "half_open"
     \/ b.state = "closed" /\ b.failures >= scene.threshold
  THEN [state |-> "open", left |-> Cooldown, failures |-> n, probe |-> FALSE]
  ELSE [b EXCEPT !.failures = n]
\* record_failure
RecordFailure(b) ==
  LET n == Capped(b.failures + 1, scene.threshold) IN
  IF \/ b.state = "half_open"
     \/ b.state = "closed" /\ n >= scene.threshold
  THEN [state |-> "open", left |-> Cooldown, failures |-> n, probe |-> FALSE]
  ELSE [b EXCEPT !.failures = n]

\* cancel_probe
CancelProbe(b) ==
  IF b.state = "half_open" THEN [b EXCEPT !.probe = FALSE] ELSE b

\* mutants: half-open rows are not granted, half-open rows are granted under a
\* running lease, open rows are granted during their cooldown
GrantedOpen(row) == row.state = "closed" \/ (row.state = "open" /\ row.left = 0)
GrantedHalf(row) == row.state # "open" \/ row.left = 0
GrantedEarly(row) == row.state # "half_open" \/ row.left = 0
\* claim_breaker_probe's answer
Granted(row) == row.state = "closed" \/ row.left = 0
\* its effect: an atomic lease on the one recovery probe
Leased(row) ==
  IF row.state = "closed" THEN row
  ELSE [row EXCEPT !.state = "half_open", !.left = Cooldown]

-----------------------------------------------------------------------------
Init ==
  /\ scene \in Scenes
  /\ db = [p \in Providers |->
             IF p \in scene.tripped
             THEN [Closed EXCEPT !.state = "open", !.failures = scene.threshold]
             ELSE Closed]
  /\ used = [p \in Providers |-> 0]
  /\ pc = [w \in Workers |-> "idle"]
  /\ chain = [w \in Workers |-> NoChain]
  /\ up = Providers \ scene.tripped
  /\ sent = [p \in Providers |-> 0]
  /\ streak = [p \in Providers |-> IF p \in scene.tripped THEN scene.threshold ELSE 0]
  /\ lease = [p \in Providers |-> {}]
  /\ budget = scene.adverse

Spend(kind) == kind \in scene.kinds /\ budget > 0 /\ budget' = budget - 1

\* go on with the next provider of the chain c, or finalise after the last
Advance(w, c) ==
  IF c.at = scene.last
  THEN /\ pc' = [pc EXCEPT ![w] = "closing"]
       /\ chain' = [chain EXCEPT ![w] = c]
  ELSE /\ pc' = [pc EXCEPT ![w] = "walk"]
       /\ chain' = [chain EXCEPT ![w] = [c EXCEPT !.at = @ + 1, !.tries = 0]]

\* give the current provider up before a request was made
Cancel(w) == LET c == chain[w] IN
             Advance(w, [c EXCEPT !.copy[c.at] = CancelProbe(@)])

\* the chain object is dropped without writing its breakers
Drop(w) == /\ pc' = [pc EXCEPT ![w] = "idle"]
           /\ chain' = [chain EXCEPT ![w] = NoChain]
           /\ lease' = [p \in Providers |-> lease[p] \ {w}]

-----------------------------------------------------------------------------
\* _build_chain: rebuild the breakers from the MailProvider rows
Build(w) ==
  /\ w \in scene.active /\ pc[w] = "idle"
  /\ pc' = [pc EXCEPT ![w] = "walk"]
  /\ \E flush \in BOOLEAN :
       chain' = [chain EXCEPT ![w] = [NoChain EXCEPT !.flush = flush, !.copy = db,
                                                     !.patience = Cooldown - 1]]
  /\ UNCHANGED <<db, used, up, sent, streak, lease, budget>>

\* the granted claim is committed
TakeLease(w, p) ==
  /\ db' = [db EXCEPT ![p] = Leased(@)]
  /\ lease' = [lease EXCEPT ![p] = IF db[p].state = "closed" THEN @ ELSE @ \cup {w}]

\* the probe claim in the database, then allow_probe on the copy
ClaimProbe(w) ==
  LET c == chain[w]  p == c.at IN
  /\ pc[w] = "walk"
  /\ \/ /\ Granted(db[p]) /\ Allowed(c.copy[p])
        /\ TakeLease(w, p)
        /\ pc' = [pc EXCEPT ![w] = "claimed"]
        /\ chain' = [chain EXCEPT ![w].copy[p] = Probed(@),
                                  ![w].dirty = @ \cup {p}]
     \/ /\ Granted(db[p]) /\ ~Allowed(c.copy[p])
        /\ TakeLease(w, p)
        /\ Advance(w, c)
     \/ /\ ~Granted(db[p])
        /\ Advance(w, c)
        /\ UNCHANGED <<db, lease>>
  /\ UNCHANGED <<used, up, sent, streak, budget>>

\* mutant: a full window takes one more
HasRoomForOneMore(p) == used[p] <= Limit
\* try_consume's condition
HasRoom(p) == used[p] < Limit

\* _reserve_provider_usage, before every request; a full window or (before
\* the first request) a message the provider cannot carry gives it up
Reserve(w) ==
  LET c == chain[w]  p == c.at IN
  /\ pc[w] = "claimed"
  /\ \/ /\ HasRoom(p)
        /\ used' = [used EXCEPT ![p] = @ + 1]
        /\ pc' = [pc EXCEPT ![w] = "ready"]
        /\ UNCHANGED <<chain, budget>>
     \/ /\ HasRoom(p) /\ c.tries = 0 /\ Spend("unfit")
        /\ used' = [used EXCEPT ![p] = @ + 1]
        /\ Cancel(w)
     \/ /\ ~HasRoom(p)
        /\ Cancel(w)
        /\ UNCHANGED <<used, budget>>
  /\ UNCHANGED <<db, up, sent, streak, lease>>

\* before_attempt passes and the request goes out
Send(w) ==
  LET p == chain[w].at IN
  /\ pc[w] = "ready"
  /\ pc' = [pc EXCEPT ![w] = "sending"]
  /\ chain' = [chain EXCEPT ![w].tries = @ + 1]
  /\ sent' = [sent EXCEPT ![p] = Capped(@ + 1, SentBound + 1)]
  /\ UNCHANGED <<db, used, up, streak, lease, budget>>

\* before_attempt raises: the live path forgets the chain, the flush path
\* still finalises it
Refuse(w) ==
  /\ pc[w] = "ready"
  /\ Spend("refuse")
  /\ IF chain[w].flush
     THEN /\ pc' = [pc EXCEPT ![w] = "closing"]
          /\ UNCHANGED <<chain, lease>>
     ELSE Drop(w)
  /\ UNCHANGED <<db, used, up, sent, streak>>

\* record_success ends the walk
Succeed(w) ==
  LET p == chain[w].at IN
  /\ pc[w] = "sending" /\ p \in up
  /\ pc' = [pc EXCEPT ![w] = "closing"]
  /\ chain' = [chain EXCEPT ![w].copy[p] = Closed]
  /\ streak' = [streak EXCEPT ![p] = 0]
  /\ UNCHANGED <<db, used, up, sent, lease, budget>>

\* record_failure, then a retry or the next provider
FailRequest(w) ==
  LET c == chain[w]  p == c.at
      failed == [c EXCEPT !.copy[p] = RecordFailure(@)]
  IN
  /\ pc[w] = "sending"
  /\ IF p \in up THEN Spend("error") ELSE UNCHANGED budget
  /\ streak' = [streak EXCEPT ![p] = Capped(@ + 1, scene.threshold)]
  /\ \/ /\ c.tries < Attempts
        /\ pc' = [pc EXCEPT ![w] = "claimed"]
        /\ chain' = [chain EXCEPT ![w] = failed]
     \/ Advance(w, failed)
  /\ UNCHANGED <<db, used, up, sent, lease>>

\* _persist_breakers
Persisted(w) ==
  [p \in Providers |-> IF p \in chain[w].dirty
                       THEN [chain[w].copy[p] EXCEPT !.probe = FALSE]
                       ELSE db[p]]

\* the finalisation writes the breakers this chain touched
Persist(w) ==
  /\ pc[w] = "closing"
  /\ db' = Persisted(w)
  /\ pc' = [pc EXCEPT ![w] = "idle"]
  /\ chain' = [chain EXCEPT ![w] = NoChain]
  /\ lease' = [p \in Providers |->
                 IF p \in chain[w].dirty THEN {} ELSE lease[p] \ {w}]
  /\ UNCHANGED <<used, up, sent, streak, budget>>

\* the finalisation is rolled back: the claim on the row was lost
Rollback(w) ==
  /\ pc[w] = "closing"
  /\ Spend("lost")
  /\ Drop(w)
  /\ UNCHANGED <<db, used, up, sent, streak>>

Crash(w) ==
  /\ pc[w] # "idle"
  /\ Spend("crash")
  /\ Drop(w)
  /\ UNCHANGED <<db, used, up, sent, streak>>

-----------------------------------------------------------------------------
(* The environment *)

Working == {"claimed", "ready", "sending"}
Elapsed(n) == IF n > 0 THEN n - 1 ELSE 0

\* time passes; an instance is done with a chain within a cooldown of building
\* it, unless it is "slow"
Tick ==
  /\ \/ \E p \in Providers : db[p].left > 0
     \/ \E w \in Workers, p \in Providers : chain[w].copy[p].left > 0
  /\ IF \E w \in Workers : pc[w] # "idle" /\ chain[w].patience = 0
     THEN Spend("slow") ELSE UNCHANGED budget
  /\ db' = [p \in Providers |-> [db[p] EXCEPT !.left = Elapsed(@)]]
  /\ chain' = [w \in Workers |->
                 [chain[w] EXCEPT !.patience = Elapsed(@),
                                  !.copy = [p \in Providers |->
                                     [chain[w].copy[p] EXCEPT !.left = Elapsed(@)]]]]
  /\ UNCHANGED <<used, pc, up, sent, streak, lease>>

\* the next minute or day begins
NewWindow ==
  /\ \E p \in Providers : used[p] > 0
  /\ used' = [p \in Providers |-> 0]
  /\ sent' = [p \in Providers |-> 0]
  /\ UNCHANGED <<db, pc, chain, up, streak, lease, budget>>

Outage(p) ==
  /\ p \in up /\ p <= scene.last /\ Spend("outage")
  /\ up' = up \ {p}
  /\ UNCHANGED <<db, used, pc, chain, sent, streak, lease>>

Restore(p) ==
  /\ p \notin up
  /\ up' = up \cup {p}
  /\ UNCHANGED <<db, used, pc, chain, sent, streak, lease, budget>>

-----------------------------------------------------------------------------
\* the steps of a chain that has been built
Walk(w) == \/ ClaimProbe(w) \/ Reserve(w) \/ Send(w) \/ Succeed(w)
           \/ FailRequest(w) \/ Persist(w)

Next == /\ \/ \E w \in Workers : \/ Build(w) \/ Walk(w)
                                 \/ Refuse(w) \/ Rollback(w) \/ Crash(w)
           \/ Tick \/ NewWindow
           \/ \E p \in Providers : Outage(p) \/ Restore(p)
        /\ UNCHANGED scene

Spec == Init /\ [][Next]_vars

\* deliver returns, mail keeps coming (every pass of the process loops may
\* build a chain), time passes and usage windows end
Going(A) == A /\ UNCHANGED scene
Fairness == /\ \A w \in Workers : WF_vars(Going(Walk(w))) /\ WF_vars(Going(Build(w)))
            /\ WF_vars(Going(Tick)) /\ WF_vars(Going(NewWindow))

FairSpec == Spec /\ Fairness
-----------------------------------------------------------------------------
(* Properties *)

\* Every variable stays within its type.
TypeOK ==
  /\ db \in [Providers -> Breaker]
  /\ used \in [Providers -> 0..Limit]
  /\ pc \in [Workers -> {"idle", "walk", "closing"} \cup Working]
  /\ chain \in [Workers -> Chain]
  /\ up \in SUBSET Providers
  /\ sent \in [Providers -> 0..(SentBound + 1)]
  /\ streak \in [Providers -> 0..Threshold]
  /\ lease \in [Providers -> SUBSET Workers]
  /\ scene \in Scenes /\ budget \in 0..scene.adverse

\* While a breaker stays as the lease left it, one running chain at most has the
\* lease: neither a crash nor a rolled back finalisation lets a second chain
\* take it before the first is done (claim_breaker_probe's single update, and a
\* lease of one cooldown, which a chain that is not slow outlives never).
LeaseIsExclusive ==
  \A p \in Providers : \A v, w \in lease[p] : v = w

Alone == Cardinality(scene.active) = 1
\* A provider that failed threshold times in a row has its breaker open, or on
\* probe, whenever the one instance is not using it (record_failure's counter
\* across chains that are built and persisted).
TripsAtThreshold ==
  Alone /\ (\A w \in Workers : pc[w] = "idle") =>
    \A p \in Providers : streak[p] >= scene.threshold => db[p].state # "closed"

\* In one usage window a provider gets no more requests than the limit and one
\* already reserved by each instance before the window began
\* (ProviderUsageRepository.try_consume before every request).
RequestsWithinLimit == \A p \in Providers : sent[p] <= SentBound

\* While an open breaker cools down no chain takes it out of open (docs/08 8.3: the
\* provider is skipped for a cooldown period), as long as one instance runs:
\* another one writes its older copy of the breaker back.
CooldownHolds ==
  [][Alone => \A p \in Providers :
       (db[p].state = "open" /\ db[p].left > 0) => db'[p].state = "open"]_vars

\* The breaker of the first provider closes again and again once the provider
\* stays up: no crash or rate limit leaves it open or on probe for good.
FirstProviderRecovers ==
  <>[](1 \in up) => []<>(db[1].state = "closed")
-----------------------------------------------------------------------------
(* Promises the code does not keep today (README, known disagreements) *)

\* A provider whose breaker is open, in the chain's own copy, is not called
\* (allow_probe: exactly one recovery probe).
OpenProviderIsNotCalled ==
  \A w \in Workers : pc[w] = "sending" =>
    chain[w].copy[chain[w].at].state # "open"

Probing(w, p) == /\ pc[w] \in Working /\ chain[w].at = p
                 /\ chain[w].copy[p].state = "half_open"
\* At most one instance probes a provider whose shared breaker is half open
\* (_persist_breakers never overwrites a newer lease): a chain that was built
\* before the breaker opened did touch it, and goes on or writes its copy back.
ProbesExclusive ==
  \A p \in Providers : db[p].state = "half_open" =>
    \A v, w \in Workers : Probing(v, p) /\ Probing(w, p) => v = w
=============================================================================
