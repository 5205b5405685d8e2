--------------------------- MODULE GatewayProofs ---------------------------
(***************************************************************************)
(* The pins, the cooldowns and the transport cache of Gateway, for every   *)
(* number of requests, routes, identities, configurations and reloads.     *)
(*                                                                         *)
(* Neither invariant is inductive alone.  That a cooling egress is not     *)
(* planned needs its health state to survive the maintenance of other      *)
(* requests, which it does because the request's own pin is counted        *)
(* (PinsMatchRequests), and that a cooldown is only ever armed on a known  *)
(* entry, since Healthy asks for the entry before it asks for the time.    *)
(***************************************************************************)
EXTENDS Gateway, FiniteSetTheorems, TLAPS

\* The requests in flight that hold a pin on k.
Holders(k) == {r \in Pinning : k \in RouteKeys(r)}
Pins == \A k \in Keys : refs[k] = Cardinality(Holders(k))

\* A cooldown is armed only together with the entry it belongs to.
ArmedIsKnown == \A k \in Keys : Cooling(states[k]) => states[k].known

\* What a request remembers as cooling is pinned by it and still is cooling.
CoolingIsPinned ==
    \A r \in Requests :
        /\ r \notin Pinning => cooling[r] = {}
        /\ r \in Pinning => cooling[r] \subseteq RouteKeys(r)
        /\ \A k \in cooling[r] : Cooling(states[k])

\* The heads of a request exist between its planning and its release only.
HeadsWhilePlanned ==
    \A r \in Requests :
        pc[r] \in {"idle", "gate", "match", "maintain", "done"} => heads[r] = {}

GatewayInv ==
    /\ TypeOK
    /\ Pins
    /\ ArmedIsKnown
    /\ CoolingIsPinned
    /\ HeadsWhilePlanned
    /\ CoolingEgressNotPlanned

-----------------------------------------------------------------------------
(***************************************************************************)
(* What the operators of the registry do to one entry.                     *)
(***************************************************************************)

\* Observe keeps an entry well formed, arms no cooldown on an unknown entry
\* and never lengthens one that runs.
LEMMA ObservedFacts ==
    ASSUME NEW s \in HealthState, NEW ok \in BOOLEAN, NEW p \in HealthPolicy
    PROVE  /\ Observed(s, ok, p) \in HealthState
           /\ (Cooling(s) => s.known) =>
                 (Cooling(Observed(s, ok, p)) => Observed(s, ok, p).known)
           /\ Cooling(s) => Observed(s, ok, p).left <= s.left
BY DEF Observed, HealthState, HealthPolicy, Cooling

\* Nor does the clock.
LEMMA ElapsedFacts ==
    ASSUME NEW s \in HealthState
    PROVE  /\ Elapsed(s) \in HealthState
           /\ Elapsed(s).known = s.known
           /\ Elapsed(s).left <= s.left
BY DEF Elapsed, HealthState, Cooling

\* An identity without an entry is healthy.
LEMMA UnknownFacts == Unknown \in HealthState /\ ~Cooling(Unknown) /\ Unknown.left = 0
BY DEF Unknown, HealthState, Cooling

\* The snapshot of a request is a configuration a reload brought.
LEMMA SnapshotType ==
    ASSUME TypeOK, NEW r \in Requests
    PROVE  /\ Snapshot(r) \in Config
           /\ \A id \in RouteIds : Snapshot(r).routes[id] \subseteq Keys
           /\ RouteKeys(r) \subseteq Keys
           /\ Policy(r) \in HealthPolicy
<1>1. Snapshot(r) \in Config
  <2>1. snap[r] \in 1..Len(history) /\ history \in Seq(Configs)
    BY DEF TypeOK
  <2>2. history[snap[r]] \in Configs
    BY <2>1
  <2>3. QED
    BY <2>2, GatewayAssumption DEF Snapshot
<1>2. QED
  BY <1>1 DEF TypeOK, RouteKeys, Policy, Config

-----------------------------------------------------------------------------
(***************************************************************************)
(* Types.                                                                  *)
(***************************************************************************)

\* The program starts within its types.
LEMMA GatewayTypeInit == Init => TypeOK
<1> SUFFICES ASSUME Init PROVE TypeOK
  OBVIOUS
<1>1. history \in Seq(Configs) /\ Len(history) = 1
  <2>1. PICK c \in Configs : history = <<c>>
    BY DEF Init
  <2>2. <<c>> \in Seq(Configs) /\ Len(<<c>>) = 1
    OBVIOUS
  <2>3. QED
    BY <2>1, <2>2
<1>2. states \in [Keys -> HealthState]
  BY UnknownFacts DEF Init
<1>3. prunedGen \in 0..Len(history) /\ snap \in [Requests -> 1..Len(history)]
  BY <1>1 DEF Init
<1>4. QED
  BY <1>1, <1>2, <1>3 DEF Init, TypeOK

\* Every step of a request, every reload, the drain and the clock keep them.
LEMMA GatewayTypeStep == TypeOK /\ [Next]_vars => TypeOK'
<1> SUFFICES ASSUME TypeOK, [Next]_vars PROVE TypeOK'
  OBVIOUS
<1>1. ASSUME NEW c \in Configs, Reload(c) PROVE TypeOK'
  <2>1. history' \in Seq(Configs) /\ Len(history') = Len(history) + 1
    BY <1>1 DEF Reload, TypeOK
  <2>2. Len(history) \in Nat
    BY DEF TypeOK
  <2>3. prunedGen' \in 0..Len(history')
    BY <1>1, <2>1, <2>2 DEF Reload, TypeOK
  <2>4. snap' \in [Requests -> 1..Len(history')]
    BY <1>1, <2>1, <2>2 DEF Reload, TypeOK
  <2>5. QED
    BY <1>1, <2>1, <2>3, <2>4 DEF Reload, TypeOK
<1>2. CASE Drain
  BY <1>2 DEF Drain, TypeOK
<1>3. CASE Tick
  <2>1. states' \in [Keys -> HealthState]
    BY <1>3, ElapsedFacts DEF Tick, TypeOK
  <2>2. cooling' \in [Requests -> SUBSET Keys]
    BY <1>3 DEF Tick, TypeOK, StillCooling
  <2>3. QED
    BY <1>3, <2>1, <2>2 DEF Tick, TypeOK
<1>4. ASSUME NEW r \in Requests, Serve(r) PROVE TypeOK'
  <2> USE SnapshotType
  <2>1. CASE Arrive(r)
    BY <2>1 DEF Arrive, shared, TypeOK
  <2>2. CASE AnsweredLocally(r) \/ PassGate(r) \/ NoRoute(r) \/ Undialed(r)
    BY <2>2 DEF AnsweredLocally, PassGate, NoRoute, Undialed, shared, TypeOK
  <2>3. ASSUME NEW id \in RouteIds, MatchAndPin(r, id) PROVE TypeOK'
    <3>1. refs' \in [Keys -> Nat]
      BY <2>3 DEF MatchAndPin, Pinned, TypeOK
    <3>2. cooling' \in [Requests -> SUBSET Keys]
      BY <2>3 DEF MatchAndPin, TypeOK
    <3>3. QED
      BY <2>3, <3>1, <3>2 DEF MatchAndPin, TypeOK
  <2>4. CASE OnGeneration(r)
    <3>1. states' \in [Keys -> HealthState]
      BY <2>4, UnknownFacts DEF OnGeneration, Reclaimed, TypeOK
    <3>2. prunedGen' \in 0..Len(history')
      BY <2>4 DEF OnGeneration, TypeOK
    <3>3. clients' \subseteq {Signature(k) : k \in Keys}
      BY <2>4 DEF OnGeneration, TypeOK
    <3>4. unseen' \in [Requests -> SUBSET Keys]
      BY <2>4 DEF OnGeneration, TypeOK
    <3>5. QED
      BY <2>4, <3>1, <3>2, <3>3, <3>4 DEF OnGeneration, TypeOK
  <2>5. ASSUME NEW k \in Keys, NEW take \in BOOLEAN, Judge(r, k, take) PROVE TypeOK'
    BY <2>5 DEF Judge, shared, TypeOK
  <2>6. CASE Planned(r)
    BY <2>6 DEF Planned, shared, TypeOK
  <2>7. ASSUME NEW k \in Keys, Attempt(r, k) PROVE TypeOK'
    BY <2>7 DEF Attempt, TypeOK
  <2>8. ASSUME NEW k \in Keys, NEW verdict \in {"ok", "fault", "neutral"},
               NEW move \in BOOLEAN, Observe(r, k, verdict, move)
        PROVE  TypeOK'
    <3>1. states' \in [Keys -> HealthState]
      BY <2>8, ObservedFacts DEF Observe, TypeOK
    <3>2. cooling' \in [Requests -> SUBSET Keys]
      BY <2>8 DEF Observe, StillCooling, TypeOK
    <3>3. QED
      BY <2>8, <3>1, <3>2 DEF Observe, TypeOK
  <2>9. CASE Release(r)
    <3>1. refs' \in [Keys -> Nat]
      BY <2>9 DEF Release, Unpinned, TypeOK
    <3>2. QED
      BY <2>9, <3>1 DEF Release, TypeOK
  <2>10. QED
    BY <1>4, <2>1, <2>2, <2>3, <2>4, <2>5, <2>6, <2>7, <2>8, <2>9 DEF Serve
<1>5. CASE UNCHANGED vars
  BY <1>5 DEF vars, TypeOK
<1>6. QED
  BY <1>1, <1>2, <1>3, <1>4, <1>5 DEF Next

-----------------------------------------------------------------------------
(***************************************************************************)
(* What the steps leave alone.                                             *)
(***************************************************************************)

\* Generations are appended: what a request's snapshot says stays what it says.
LEMMA HistoryGrows ==
    ASSUME TypeOK, [Next]_vars
    PROVE  \A i \in 1..Len(history) : history'[i] = history[i]
<1>1. ASSUME NEW c \in Configs, Reload(c)
      PROVE  \A i \in 1..Len(history) : history'[i] = history[i]
  BY <1>1 DEF Reload, TypeOK
<1>2. (\A c \in Configs : ~Reload(c)) => history' = history
  BY DEF Next, vars, shared, Drain, Tick, Serve, Arrive, AnsweredLocally, PassGate, NoRoute,
         MatchAndPin, OnGeneration, Judge, Planned, Attempt, Undialed, Observe, Release
<1>3. QED
  BY <1>1, <1>2

\* A request keeps its snapshot from its arrival to the next one, and a request
\* that holds pins keeps its route: it releases the identities it pinned.
LEMMA PinnedRouteKept ==
    ASSUME TypeOK, [Next]_vars, NEW r \in Pinning
    PROVE  RouteKeys(r)' = RouteKeys(r)
<1>1. snap'[r] = snap[r] /\ route'[r] = route[r]
  <2> DEFINE Kept == snap'[r] = snap[r] /\ route'[r] = route[r]
  <2>1. ASSUME NEW c \in Configs, Reload(c) PROVE Kept
    BY <2>1 DEF Reload, Pinning, TypeOK
  <2>2. CASE Drain \/ Tick \/ UNCHANGED vars
    BY <2>2 DEF Drain, Tick, vars, Pinning, TypeOK
  <2>3. ASSUME NEW q \in Requests, Serve(q) PROVE Kept
    <3>1. CASE Arrive(q) \/ AnsweredLocally(q) \/ PassGate(q) \/ NoRoute(q) \/ Undialed(q)
      BY <3>1 DEF Arrive, AnsweredLocally, PassGate, NoRoute, Undialed, shared, Pinning, TypeOK
    <3>2. ASSUME NEW id \in RouteIds, MatchAndPin(q, id) PROVE Kept
      BY <3>2 DEF MatchAndPin, Pinning, TypeOK
    <3>3. CASE OnGeneration(q)
      BY <3>3 DEF OnGeneration, Pinning, TypeOK
    <3>4. ASSUME NEW k \in Keys, NEW take \in BOOLEAN, Judge(q, k, take) PROVE Kept
      BY <3>4 DEF Judge, shared, Pinning, TypeOK
    <3>5. CASE Planned(q)
      BY <3>5 DEF Planned, shared, Pinning, TypeOK
    <3>6. ASSUME NEW k \in Keys, Attempt(q, k) PROVE Kept
      BY <3>6 DEF Attempt, Pinning, TypeOK
    <3>7. ASSUME NEW k \in Keys, NEW verdict \in {"ok", "fault", "neutral"},
                 NEW move \in BOOLEAN, Observe(q, k, verdict, move)
          PROVE  Kept
      BY <3>7 DEF Observe, Pinning, TypeOK
    <3>8. CASE Release(q)
      BY <3>8 DEF Release, Pinning, TypeOK
    <3>9. QED
      BY <2>3, <3>1, <3>2, <3>3, <3>4, <3>5, <3>6, <3>7, <3>8 DEF Serve
  <2>4. QED
    BY <2>1, <2>2, <2>3 DEF Next
<1>2. snap[r] \in 1..Len(history)
  BY DEF Pinning, TypeOK
<1>3. QED
  BY <1>1, <1>2, HistoryGrows DEF RouteKeys, Snapshot

\* References are taken by the match and given back by the release, and by
\* nothing else; so is the standing of a request as one that holds pins.
LEMMA PinSteps ==
    ASSUME TypeOK, [Next]_vars
    PROVE  \/ \E r \in Requests, id \in RouteIds : MatchAndPin(r, id)
           \/ \E r \in Requests : Release(r)
           \/ Pinning' = Pinning /\ refs' = refs
<1> DEFINE Goal ==
        \/ \E r \in Requests, id \in RouteIds : MatchAndPin(r, id)
        \/ \E r \in Requests : Release(r)
        \/ Pinning' = Pinning /\ refs' = refs
<1>1. ASSUME NEW c \in Configs, Reload(c) PROVE Goal
  BY <1>1 DEF Reload, Pinning, TypeOK
<1>2. CASE Drain \/ Tick \/ UNCHANGED vars
  BY <1>2 DEF Drain, Tick, vars, Pinning, TypeOK
<1>3. ASSUME NEW q \in Requests, Serve(q) PROVE Goal
  <2>1. CASE Arrive(q) \/ AnsweredLocally(q) \/ PassGate(q) \/ NoRoute(q) \/ Undialed(q)
    BY <2>1 DEF Arrive, AnsweredLocally, PassGate, NoRoute, Undialed, shared, Pinning, TypeOK
  <2>2. ASSUME NEW id \in RouteIds, MatchAndPin(q, id) PROVE Goal
    BY <2>2
  <2>3. CASE OnGeneration(q)
    BY <2>3 DEF OnGeneration, Pinning, TypeOK
  <2>4. ASSUME NEW k \in Keys, NEW take \in BOOLEAN, Judge(q, k, take) PROVE Goal
    BY <2>4 DEF Judge, shared, Pinning, TypeOK
  <2>5. CASE Planned(q)
    BY <2>5 DEF Planned, shared, Pinning, TypeOK
  <2>6. ASSUME NEW k \in Keys, Attempt(q, k) PROVE Goal
    BY <2>6 DEF Attempt, Pinning, TypeOK
  <2>7. ASSUME NEW k \in Keys, NEW verdict \in {"ok", "fault", "neutral"},
               NEW move \in BOOLEAN, Observe(q, k, verdict, move)
        PROVE  Goal
    BY <2>7 DEF Observe, Pinning, TypeOK
  <2>8. CASE Release(q)
    BY <2>8
  <2>9. QED
    BY <1>3, <2>1, <2>2, <2>3, <2>4, <2>5, <2>6, <2>7, <2>8 DEF Serve
<1>4. QED
  BY <1>1, <1>2, <1>3 DEF Next

\* A held identity has a positive count, so Reclaim leaves it.
LEMMA HeldIsCounted ==
    ASSUME TypeOK, Pins, NEW k \in Keys, NEW r \in Pinning, k \in RouteKeys(r)
    PROVE  refs[k] > 0
<1>1. IsFiniteSet(Holders(k)) /\ r \in Holders(k)
  <2>1. Holders(k) \subseteq Requests
    BY DEF Holders, Pinning
  <2>2. QED
    BY <2>1, GatewayAssumption, FS_Subset DEF Holders
<1>2. Cardinality(Holders(k)) \in Nat /\ Cardinality(Holders(k)) # 0
  BY <1>1, FS_CardinalityType, FS_EmptySet
<1>3. QED
  BY <1>2 DEF Pins

\* The count follows the holders through every step.
LEMMA PinsStep ==
    ASSUME TypeOK, Pins, [Next]_vars
    PROVE  Pins'
<1> SUFFICES ASSUME NEW k \in Keys PROVE refs'[k] = Cardinality(Holders(k)')
  BY DEF Pins
<1>1. IsFiniteSet(Holders(k)) /\ Holders(k) \subseteq Pinning
  <2>1. Holders(k) \subseteq Requests
    BY DEF Holders, Pinning
  <2>2. QED
    BY <2>1, GatewayAssumption, FS_Subset DEF Holders
<1>2. refs[k] = Cardinality(Holders(k)) /\ refs[k] \in Nat
  BY DEF Pins, TypeOK
<1>3. ASSUME NEW r \in Requests, NEW id \in RouteIds, MatchAndPin(r, id)
      PROVE  refs'[k] = Cardinality(Holders(k)')
  <2>1. Pinning' = Pinning \cup {r} /\ r \notin Pinning
    BY <1>3 DEF MatchAndPin, Pinning, TypeOK
  <2>2. RouteKeys(r)' = Snapshot(r).routes[id]
    BY <1>3 DEF MatchAndPin, RouteKeys, Snapshot, TypeOK
  <2>3. \A q \in Pinning : RouteKeys(q)' = RouteKeys(q)
    BY PinnedRouteKept
  <2>4. refs'[k] = IF k \in RouteKeys(r)' THEN refs[k] + 1 ELSE refs[k]
    BY <1>3, <2>2 DEF MatchAndPin, Pinned, TypeOK
  <2>5. CASE k \in RouteKeys(r)'
    <3>1. Holders(k)' = Holders(k) \cup {r} /\ r \notin Holders(k)
      BY <2>1, <2>3, <2>5 DEF Holders
    <3>2. Cardinality(Holders(k)') = Cardinality(Holders(k)) + 1
      BY <3>1, <1>1, FS_AddElement
    <3>3. QED
      BY <1>2, <2>4, <2>5, <3>2
  <2>6. CASE k \notin RouteKeys(r)'
    <3>1. Holders(k)' = Holders(k)
      BY <2>1, <2>3, <2>6 DEF Holders
    <3>2. QED
      BY <1>2, <2>4, <2>6, <3>1
  <2>7. QED
    BY <2>5, <2>6
<1>4. ASSUME NEW r \in Requests, Release(r) PROVE refs'[k] = Cardinality(Holders(k)')
  <2>1. Pinning' = Pinning \ {r} /\ r \in Pinning
    BY <1>4 DEF Release, Pinning, TypeOK
  <2>2. \A q \in Pinning : RouteKeys(q)' = RouteKeys(q)
    BY PinnedRouteKept
  <2>3. refs'[k] = IF k \in RouteKeys(r) /\ refs[k] > 0 THEN refs[k] - 1 ELSE refs[k]
    BY <1>4 DEF Release, Unpinned, TypeOK
  <2>4. CASE k \in RouteKeys(r)
    <3>1. Holders(k)' = Holders(k) \ {r} /\ r \in Holders(k)
      BY <2>1, <2>2, <2>4 DEF Holders
    <3>2. Cardinality(Holders(k)') = Cardinality(Holders(k)) - 1
      BY <3>1, <1>1, FS_RemoveElement
    <3>3. refs[k] > 0
      BY <2>1, <2>4, HeldIsCounted
    <3>4. QED
      BY <1>2, <2>3, <2>4, <3>2, <3>3
  <2>5. CASE k \notin RouteKeys(r)
    <3>1. Holders(k)' = Holders(k)
      BY <2>1, <2>2, <2>5 DEF Holders
    <3>2. QED
      BY <1>2, <2>3, <2>5, <3>1
  <2>6. QED
    BY <2>4, <2>5
<1>5. CASE Pinning' = Pinning /\ refs' = refs
  <2>1. \A q \in Pinning : RouteKeys(q)' = RouteKeys(q)
    BY PinnedRouteKept
  <2>2. Holders(k)' = Holders(k)
    BY <2>1, <1>5 DEF Holders
  <2>3. QED
    BY <1>2, <1>5, <2>2
<1>6. QED
  BY <1>3, <1>4, <1>5, PinSteps

-----------------------------------------------------------------------------
(***************************************************************************)
(* What happens to one entry of the registry, and to what a request        *)
(* remembers of it.                                                        *)
(***************************************************************************)

\* Registry.states changes by an observation, by the clock, and by a Reclaim
\* that only drops identities without a reference.
LEMMA EntrySteps ==
    ASSUME TypeOK, [Next]_vars, NEW k \in Keys
    PROVE  \/ states'[k] = states[k]
           \/ states'[k] = Unknown /\ ~(refs[k] > 0)
           \/ \E ok \in BOOLEAN, p \in HealthPolicy :
                 states'[k] = Observed(states[k], ok, p)
           \/ states'[k] = Elapsed(states[k])
<1> DEFINE Goal ==
           \/ states'[k] = states[k]
           \/ states'[k] = Unknown /\ ~(refs[k] > 0)
           \/ \E ok \in BOOLEAN, p \in HealthPolicy :
                 states'[k] = Observed(states[k], ok, p)
           \/ states'[k] = Elapsed(states[k])
<1>1. ASSUME NEW c \in Configs, Reload(c) PROVE Goal
  BY <1>1 DEF Reload, TypeOK
<1>2. CASE Drain \/ UNCHANGED vars
  BY <1>2 DEF Drain, vars, TypeOK
<1>3. CASE Tick
  BY <1>3 DEF Tick, TypeOK
<1>4. ASSUME NEW q \in Requests, Serve(q) PROVE Goal
  <2>1. CASE Arrive(q) \/ AnsweredLocally(q) \/ PassGate(q) \/ NoRoute(q) \/ Undialed(q)
    BY <2>1 DEF Arrive, AnsweredLocally, PassGate, NoRoute, Undialed, shared, TypeOK
  <2>2. ASSUME NEW id \in RouteIds, MatchAndPin(q, id) PROVE Goal
    BY <2>2 DEF MatchAndPin, TypeOK
  <2>3. CASE OnGeneration(q)
    BY <2>3 DEF OnGeneration, Reclaimed, TypeOK
  <2>4. ASSUME NEW h \in Keys, NEW take \in BOOLEAN, Judge(q, h, take) PROVE Goal
    BY <2>4 DEF Judge, shared, TypeOK
  <2>5. CASE Planned(q)
    BY <2>5 DEF Planned, shared, TypeOK
  <2>6. ASSUME NEW h \in Keys, Attempt(q, h) PROVE Goal
    BY <2>6 DEF Attempt, TypeOK
  <2>7. ASSUME NEW h \in Keys, NEW verdict \in {"ok", "fault", "neutral"},
               NEW move \in BOOLEAN, Observe(q, h, verdict, move)
        PROVE  Goal
    <3>1. Policy(q) \in HealthPolicy /\ (verdict = "ok") \in BOOLEAN
      BY SnapshotType
    <3>2. \/ states'[k] = states[k]
          \/ states'[k] = Observed(states[k], verdict = "ok", Policy(q))
      BY <2>7 DEF Observe, TypeOK
    <3>3. QED
      BY <3>1, <3>2
  <2>8. CASE Release(q)
    BY <2>8 DEF Release, TypeOK
  <2>9. QED
    BY <1>4, <2>1, <2>2, <2>3, <2>4, <2>5, <2>6, <2>7, <2>8 DEF Serve
<1>5. QED
  BY <1>1, <1>2, <1>3, <1>4 DEF Next

\* What a request remembers as cooling grows when it pins only.
LEMMA CoolingShrinks ==
    ASSUME TypeOK, [Next]_vars
    PROVE  \/ \E q \in Requests, id \in RouteIds : MatchAndPin(q, id)
           \/ \A r \in Requests : cooling'[r] \subseteq cooling[r]
<1> DEFINE Goal ==
           \/ \E q \in Requests, id \in RouteIds : MatchAndPin(q, id)
           \/ \A r \in Requests : cooling'[r] \subseteq cooling[r]
<1>1. ASSUME NEW c \in Configs, Reload(c) PROVE Goal
  BY <1>1 DEF Reload, StillCooling, TypeOK
<1>2. CASE Drain \/ UNCHANGED vars
  BY <1>2 DEF Drain, vars, StillCooling, TypeOK
<1>3. CASE Tick
  BY <1>3 DEF Tick, StillCooling, TypeOK
<1>4. ASSUME NEW q \in Requests, Serve(q) PROVE Goal
  <2>1. CASE Arrive(q) \/ AnsweredLocally(q) \/ PassGate(q) \/ NoRoute(q) \/ Undialed(q)
    BY <2>1 DEF Arrive, AnsweredLocally, PassGate, NoRoute, Undialed, shared, StillCooling, TypeOK
  <2>2. ASSUME NEW id \in RouteIds, MatchAndPin(q, id) PROVE Goal
    BY <2>2
  <2>3. CASE OnGeneration(q)
    BY <2>3 DEF OnGeneration, StillCooling, TypeOK
  <2>4. ASSUME NEW h \in Keys, NEW take \in BOOLEAN, Judge(q, h, take) PROVE Goal
    BY <2>4 DEF Judge, shared, StillCooling, TypeOK
  <2>5. CASE Planned(q)
    BY <2>5 DEF Planned, shared, StillCooling, TypeOK
  <2>6. ASSUME NEW h \in Keys, Attempt(q, h) PROVE Goal
    BY <2>6 DEF Attempt, StillCooling, TypeOK
  <2>7. ASSUME NEW h \in Keys, NEW verdict \in {"ok", "fault", "neutral"},
               NEW move \in BOOLEAN, Observe(q, h, verdict, move)
        PROVE  Goal
    BY <2>7 DEF Observe, StillCooling, TypeOK
  <2>8. CASE Release(q)
    BY <2>8 DEF Release, StillCooling, TypeOK
  <2>9. QED
    BY <1>4, <2>1, <2>2, <2>3, <2>4, <2>5, <2>6, <2>7, <2>8 DEF Serve
<1>5. QED
  BY <1>1, <1>2, <1>3, <1>4 DEF Next

-----------------------------------------------------------------------------
(***************************************************************************)
(* The inductive invariant, part by part.                                  *)
(***************************************************************************)

\* No step arms a cooldown without its entry.
LEMMA ArmedStep ==
    ASSUME TypeOK, ArmedIsKnown, [Next]_vars
    PROVE  ArmedIsKnown'
<1> SUFFICES ASSUME NEW k \in Keys PROVE Cooling(states'[k]) => states'[k].known
  BY DEF ArmedIsKnown
<1>1. states[k] \in HealthState /\ (Cooling(states[k]) => states[k].known)
  BY DEF TypeOK, ArmedIsKnown
<1>2. ASSUME NEW ok \in BOOLEAN, NEW p \in HealthPolicy,
             states'[k] = Observed(states[k], ok, p)
      PROVE  Cooling(states'[k]) => states'[k].known
  BY <1>1, <1>2, ObservedFacts
<1>3. CASE states'[k] = Elapsed(states[k])
  BY <1>1, <1>3, ElapsedFacts DEF Cooling, HealthState
<1>4. QED
  BY <1>1, <1>2, <1>3, EntrySteps, UnknownFacts

\* The memory of a request stays within what it pinned.
LEMMA CoolingPinnedStep ==
    ASSUME TypeOK, Pins, CoolingIsPinned, [Next]_vars
    PROVE  CoolingIsPinned'
<1>1. \A q \in Pinning : RouteKeys(q)' = RouteKeys(q)
  BY PinnedRouteKept
<1>2. ASSUME NEW r \in Requests
      PROVE  /\ r \notin Pinning' => cooling'[r] = {}
             /\ r \in Pinning' => cooling'[r] \subseteq RouteKeys(r)'
  <2> DEFINE Within == /\ r \notin Pinning' => cooling'[r] = {}
                       /\ r \in Pinning' => cooling'[r] \subseteq RouteKeys(r)'
  <2>1. ASSUME NEW q \in Requests, NEW id \in RouteIds, MatchAndPin(q, id) PROVE Within
    <3>1. Pinning' = Pinning \cup {q} /\ q \notin Pinning
      BY <2>1 DEF MatchAndPin, Pinning, TypeOK
    <3>2. RouteKeys(q)' = Snapshot(q).routes[id]
      BY <2>1 DEF MatchAndPin, RouteKeys, Snapshot, TypeOK
    <3>3. cooling'[q] \subseteq RouteKeys(q)' /\ (r # q => cooling'[r] = cooling[r])
      BY <2>1, <3>2 DEF MatchAndPin, TypeOK
    <3>4. QED
      BY <1>1, <3>1, <3>3 DEF CoolingIsPinned
  <2>2. ASSUME NEW q \in Requests, Release(q) PROVE Within
    <3>1. Pinning' = Pinning \ {q}
      BY <2>2 DEF Release, Pinning, TypeOK
    <3>2. cooling'[q] = {} /\ (r # q => cooling'[r] = cooling[r])
      BY <2>2 DEF Release, TypeOK
    <3>3. QED
      BY <1>1, <3>1, <3>2 DEF CoolingIsPinned
  <2>3. CASE Pinning' = Pinning /\ cooling'[r] \subseteq cooling[r]
    BY <1>1, <2>3 DEF CoolingIsPinned
  <2>4. QED
    BY <2>1, <2>2, <2>3, PinSteps, CoolingShrinks
<1>3. ASSUME NEW r \in Requests PROVE \A k \in cooling'[r] : Cooling(states'[k])
  <2> DEFINE Cools == \A k \in cooling'[r] : Cooling(states'[k])
  <2>0. \A k \in cooling[r] : Cooling(states[k])
    BY DEF CoolingIsPinned
  <2>1. ASSUME NEW c \in Configs, Reload(c) PROVE Cools
    BY <2>0, <2>1 DEF Reload, TypeOK
  <2>2. CASE Drain \/ UNCHANGED vars
    BY <2>0, <2>2 DEF Drain, vars, TypeOK
  <2>3. CASE Tick
      BY <2>0, <2>3 DEF Tick, StillCooling, TypeOK
  <2>4. ASSUME NEW q \in Requests, Serve(q) PROVE Cools
    <3>1. CASE Arrive(q) \/ AnsweredLocally(q) \/ PassGate(q) \/ NoRoute(q) \/ Undialed(q)
      BY <2>0, <3>1 DEF Arrive, AnsweredLocally, PassGate, NoRoute, Undialed, shared, TypeOK
    <3>2. ASSUME NEW id \in RouteIds, MatchAndPin(q, id) PROVE Cools
      BY <2>0, <3>2 DEF MatchAndPin, TypeOK
    <3>3. CASE OnGeneration(q)
      <4>1. ASSUME NEW k \in cooling[r] PROVE states'[k] = states[k]
        <5>1. r \in Pinning /\ k \in RouteKeys(r) /\ k \in Keys
          BY DEF CoolingIsPinned, TypeOK
        <5>2. refs[k] > 0
          BY <5>1, HeldIsCounted
        <5>3. QED
          BY <2>0, <3>3, <5>1, <5>2 DEF OnGeneration, Reclaimed, TypeOK
      <4>2. QED
        BY <3>3, <2>0, <4>1 DEF OnGeneration, TypeOK
    <3>4. ASSUME NEW h \in Keys, NEW take \in BOOLEAN, Judge(q, h, take) PROVE Cools
      BY <2>0, <3>4 DEF Judge, shared, TypeOK
    <3>5. CASE Planned(q)
      BY <2>0, <3>5 DEF Planned, shared, TypeOK
    <3>6. ASSUME NEW h \in Keys, Attempt(q, h) PROVE Cools
      BY <2>0, <3>6 DEF Attempt, TypeOK
    <3>7. ASSUME NEW h \in Keys, NEW verdict \in {"ok", "fault", "neutral"},
                 NEW move \in BOOLEAN, Observe(q, h, verdict, move)
          PROVE  Cools
      BY <2>0, <3>7 DEF Observe, StillCooling, TypeOK
    <3>8. CASE Release(q)
      BY <2>0, <3>8 DEF Release, TypeOK
    <3>9. QED
      BY <2>4, <3>1, <3>2, <3>3, <3>4, <3>5, <3>6, <3>7, <3>8 DEF Serve
  <2>5. QED
    BY <2>1, <2>2, <2>3, <2>4 DEF Next
<1>4. QED
  BY <1>2, <1>3 DEF CoolingIsPinned

\* A request has heads only after it planned.
LEMMA HeadsPlannedStep ==
    ASSUME TypeOK, HeadsWhilePlanned, [Next]_vars
    PROVE  HeadsWhilePlanned'
<1> SUFFICES ASSUME NEW r \in Requests
             PROVE  pc'[r] \in {"idle", "gate", "match", "maintain", "done"} => heads'[r] = {}
  BY DEF HeadsWhilePlanned
<1> DEFINE Goal ==
        pc'[r] \in {"idle", "gate", "match", "maintain", "done"} => heads'[r] = {}
<1>0. pc[r] \in {"idle", "gate", "match", "maintain", "done"} => heads[r] = {}
  BY DEF HeadsWhilePlanned
<1>1. ASSUME NEW c \in Configs, Reload(c) PROVE Goal
  BY <1>0, <1>1 DEF Reload, TypeOK
<1>2. CASE Drain \/ UNCHANGED vars
  BY <1>0, <1>2 DEF Drain, vars, TypeOK
<1>3. CASE Tick
  BY <1>0, <1>3 DEF Tick, TypeOK
<1>4. ASSUME NEW q \in Requests, Serve(q) PROVE Goal
  <2>1. CASE Arrive(q) \/ AnsweredLocally(q) \/ PassGate(q) \/ NoRoute(q) \/ Undialed(q)
    BY <1>0, <2>1 DEF Arrive, AnsweredLocally, PassGate, NoRoute, Undialed, shared, TypeOK
  <2>2. ASSUME NEW id \in RouteIds, MatchAndPin(q, id) PROVE Goal
    BY <1>0, <2>2 DEF MatchAndPin, TypeOK
  <2>3. CASE OnGeneration(q)
    BY <1>0, <2>3 DEF OnGeneration, TypeOK
  <2>4. ASSUME NEW h \in Keys, NEW take \in BOOLEAN, Judge(q, h, take) PROVE Goal
    BY <1>0, <2>4 DEF Judge, shared, TypeOK
  <2>5. CASE Planned(q)
    BY <1>0, <2>5 DEF Planned, shared, TypeOK
  <2>6. ASSUME NEW h \in Keys, Attempt(q, h) PROVE Goal
    BY <1>0, <2>6 DEF Attempt, TypeOK
  <2>7. ASSUME NEW h \in Keys, NEW verdict \in {"ok", "fault", "neutral"},
               NEW move \in BOOLEAN, Observe(q, h, verdict, move)
        PROVE  Goal
    BY <1>0, <2>7 DEF Observe, TypeOK
  <2>8. CASE Release(q)
    BY <1>0, <2>8 DEF Release, TypeOK
  <2>9. QED
    BY <1>4, <2>1, <2>2, <2>3, <2>4, <2>5, <2>6, <2>7, <2>8 DEF Serve
<1>5. QED
  BY <1>1, <1>2, <1>3, <1>4 DEF Next

\* An egress that kept cooling since the pin does not become a head: routeHeads
\* finds it cooling, and known.
LEMMA CoolingNotPlannedStep ==
    ASSUME GatewayInv, [Next]_vars
    PROVE  CoolingEgressNotPlanned'
<1> SUFFICES ASSUME NEW r \in Requests
             PROVE  Policy(r)'.enabled => heads'[r] \cap cooling'[r] = {}
  BY DEF CoolingEgressNotPlanned
<1> DEFINE Goal == Policy(r)'.enabled => heads'[r] \cap cooling'[r] = {}
<1>a. TypeOK /\ (Policy(r).enabled => heads[r] \cap cooling[r] = {})
  BY DEF GatewayInv, CoolingEgressNotPlanned
<1>b. ASSUME snap'[r] = snap[r], heads'[r] \subseteq heads[r], cooling'[r] \subseteq cooling[r]
      PROVE  Goal
  <2>1. snap[r] \in 1..Len(history)
    BY <1>a DEF TypeOK
  <2>2. Policy(r)' = Policy(r)
    BY <1>a, <1>b, <2>1, HistoryGrows DEF Policy, Snapshot
  <2>3. QED
    BY <1>a, <1>b, <2>2
<1>1. ASSUME NEW c \in Configs, Reload(c) PROVE Goal
  BY <1>a, <1>b, <1>1 DEF Reload, TypeOK
<1>2. CASE Drain \/ UNCHANGED vars
  BY <1>a, <1>b, <1>2 DEF Drain, vars, TypeOK
<1>3. CASE Tick
  BY <1>a, <1>b, <1>3 DEF Tick, StillCooling, TypeOK
<1>4. ASSUME NEW q \in Requests, Serve(q) PROVE Goal
  <2>1. CASE Arrive(q) \/ AnsweredLocally(q) \/ PassGate(q) \/ NoRoute(q) \/ Undialed(q)
    <3>1. CASE Arrive(q) /\ q = r
      BY <1>a, <3>1 DEF Arrive, GatewayInv, HeadsWhilePlanned, TypeOK
    <3>2. CASE ~(Arrive(q) /\ q = r)
      BY <1>a, <1>b, <2>1, <3>2
         DEF Arrive, AnsweredLocally, PassGate, NoRoute, Undialed, shared, TypeOK
    <3>3. QED
      BY <3>1, <3>2
  <2>2. ASSUME NEW id \in RouteIds, MatchAndPin(q, id) PROVE Goal
    <3>1. CASE q = r
      BY <1>a, <2>2, <3>1 DEF MatchAndPin, GatewayInv, HeadsWhilePlanned, TypeOK
    <3>2. CASE q # r
      BY <1>a, <1>b, <2>2, <3>2 DEF MatchAndPin, TypeOK
    <3>3. QED
      BY <3>1, <3>2
  <2>3. CASE OnGeneration(q)
    BY <1>a, <1>b, <2>3 DEF OnGeneration, TypeOK
  <2>4. ASSUME NEW h \in Keys, NEW take \in BOOLEAN, Judge(q, h, take) PROVE Goal
    <3>1. CASE q = r /\ take
      <4>1. h \in cooling[r] => Cooling(states[h]) /\ states[h].known
        BY DEF GatewayInv, CoolingIsPinned, ArmedIsKnown
      <4>2. Policy(r).enabled => h \notin cooling[r]
        BY <2>4, <3>1, <4>1 DEF Judge, Healthy
      <4>3. heads'[r] = heads[r] \cup {h} /\ cooling'[r] = cooling[r]
        BY <1>a, <2>4, <3>1 DEF Judge, TypeOK
      <4>4. Policy(r)' = Policy(r)
        BY <2>4 DEF Judge, shared, Policy, Snapshot
      <4>5. QED
        BY <1>a, <4>2, <4>3, <4>4
    <3>2. CASE ~(q = r /\ take)
      BY <1>a, <1>b, <2>4, <3>2 DEF Judge, shared, TypeOK
    <3>3. QED
      BY <3>1, <3>2
  <2>5. CASE Planned(q)
    BY <1>a, <1>b, <2>5 DEF Planned, shared, TypeOK
  <2>6. ASSUME NEW h \in Keys, Attempt(q, h) PROVE Goal
    BY <1>a, <1>b, <2>6 DEF Attempt, TypeOK
  <2>7. ASSUME NEW h \in Keys, NEW verdict \in {"ok", "fault", "neutral"},
               NEW move \in BOOLEAN, Observe(q, h, verdict, move)
        PROVE  Goal
    BY <1>a, <1>b, <2>7 DEF Observe, StillCooling, TypeOK
  <2>8. CASE Release(q)
    BY <1>a, <1>b, <2>8 DEF Release, TypeOK
  <2>9. QED
    BY <1>4, <2>1, <2>2, <2>3, <2>4, <2>5, <2>6, <2>7, <2>8 DEF Serve
<1>5. QED
  BY <1>1, <1>2, <1>3, <1>4 DEF Next

-----------------------------------------------------------------------------
(***************************************************************************)
(* The theorems.                                                           *)
(***************************************************************************)

\* The invariant holds before the first request...
LEMMA GatewayInit == Init => GatewayInv
<1> SUFFICES ASSUME Init PROVE GatewayInv
  OBVIOUS
<1>1. TypeOK
  BY GatewayTypeInit
<1>2. Pinning = {} /\ \A r \in Requests : heads[r] = {} /\ cooling[r] = {}
  BY DEF Init, Pinning
<1>3. \A k \in Keys : Holders(k) = {} /\ refs[k] = 0
  BY <1>2 DEF Init, Holders
<1>4. Pins
  BY <1>3, FS_EmptySet DEF Pins
<1>5. ArmedIsKnown
  BY UnknownFacts DEF Init, ArmedIsKnown
<1>6. CoolingIsPinned /\ HeadsWhilePlanned /\ CoolingEgressNotPlanned
  BY <1>2 DEF CoolingIsPinned, HeadsWhilePlanned, CoolingEgressNotPlanned
<1>7. QED
  BY <1>1, <1>4, <1>5, <1>6 DEF GatewayInv

\* ...and every step keeps it.
LEMMA GatewayStep == GatewayInv /\ [Next]_vars => GatewayInv'
BY GatewayTypeStep, PinsStep, ArmedStep, CoolingPinnedStep, HeadsPlannedStep,
   CoolingNotPlannedStep DEF GatewayInv

\* The shared tables of the gateway are consistent at all times.
THEOREM GatewayInvariant == Spec => []GatewayInv
BY GatewayInit, GatewayStep, PTL DEF Spec

\* Registry.Pin and its deferred release balance through every early return of
\* relay, for any number of concurrent requests and reloads: the count of an
\* identity is the number of requests in flight whose route reaches it.
THEOREM PinsBalance == Spec => []PinsMatchRequests
<1>1. GatewayInv => PinsMatchRequests
  BY DEF GatewayInv, Pins, Holders, PinsMatchRequests
<1>2. QED
  BY <1>1, GatewayInvariant, PTL

\* routeHeads never offers an egress that has been in cooldown since the request
\* pinned it, whatever maintenance, observations and reloads run in between.
THEOREM CoolingIsSkipped == Spec => []CoolingEgressNotPlanned
<1>1. GatewayInv => CoolingEgressNotPlanned
  BY DEF GatewayInv
<1>2. QED
  BY <1>1, GatewayInvariant, PTL

\* A transport leaves the cache only when a newer generation is serviced that
\* no longer routes to it: a request with an older snapshot evicts nothing.
THEOREM TransportsMoveForward == Spec => NeverEvictsNewerTransport
<1> DEFINE Forward == \A s \in clients \ clients' :
          /\ prunedGen' > prunedGen
          /\ s \notin {Signature(k) : k \in Active(history[prunedGen'])}
<1>a. ASSUME GatewayInv, [Next]_vars PROVE [Forward]_vars
  <2>0. TypeOK
    BY <1>a DEF GatewayInv
  <2>1. ASSUME NEW c \in Configs, Reload(c) PROVE Forward
    BY <2>1 DEF Reload
  <2>2. CASE Drain \/ UNCHANGED vars
    BY <2>2 DEF Drain, vars
  <2>3. CASE Tick
    BY <2>3 DEF Tick
  <2>4. ASSUME NEW q \in Requests, Serve(q) PROVE Forward
    <3>1. CASE Arrive(q) \/ AnsweredLocally(q) \/ PassGate(q) \/ NoRoute(q) \/ Undialed(q)
      BY <3>1 DEF Arrive, AnsweredLocally, PassGate, NoRoute, Undialed, shared
    <3>2. ASSUME NEW id \in RouteIds, MatchAndPin(q, id) PROVE Forward
      BY <3>2 DEF MatchAndPin
    <3>3. CASE OnGeneration(q)
      <4>1. CASE Newer(q)
        <5>1. /\ prunedGen' = snap[q] /\ prunedGen < snap[q]
              /\ clients' = clients \cap {Signature(k) : k \in Active(Snapshot(q))}
          BY <3>3, <4>1 DEF OnGeneration, Newer
        <5>2. prunedGen' > prunedGen
          BY <2>0, <5>1 DEF TypeOK
        <5>3. Snapshot(q) = history[prunedGen']
          BY <5>1 DEF Snapshot
        <5>4. QED
          BY <5>1, <5>2, <5>3
      <4>2. CASE ~Newer(q)
        BY <3>3, <4>2 DEF OnGeneration
      <4>3. QED
        BY <4>1, <4>2
    <3>4. ASSUME NEW h \in Keys, NEW take \in BOOLEAN, Judge(q, h, take) PROVE Forward
      BY <3>4 DEF Judge, shared
    <3>5. CASE Planned(q)
      BY <3>5 DEF Planned, shared
    <3>6. ASSUME NEW h \in Keys, Attempt(q, h) PROVE Forward
      BY <3>6 DEF Attempt
    <3>7. ASSUME NEW h \in Keys, NEW verdict \in {"ok", "fault", "neutral"},
                 NEW move \in BOOLEAN, Observe(q, h, verdict, move)
          PROVE  Forward
      BY <3>7 DEF Observe
    <3>8. CASE Release(q)
      BY <3>8 DEF Release
    <3>9. QED
      BY <2>4, <3>1, <3>2, <3>3, <3>4, <3>5, <3>6, <3>7, <3>8 DEF Serve
  <2>5. QED
    BY <1>a, <2>1, <2>2, <2>3, <2>4 DEF Next
<1>1. GatewayInv /\ [Next]_vars => [Forward]_vars
  BY <1>a
<1>2. QED
  BY <1>1, GatewayInvariant, PTL DEF Spec, NeverEvictsNewerTransport

\* No observation, under whatever policy, and no maintenance lengthens a
\* cooldown that runs.
THEOREM CooldownRunsDown == Spec => CooldownOnlyRunsDown
<1> DEFINE Down == \A k \in Keys : Cooling(states[k]) => states'[k].left <= states[k].left
<1>1. GatewayInv /\ [Next]_vars => [Down]_vars
  <2> SUFFICES ASSUME GatewayInv, [Next]_vars, NEW k \in Keys, Cooling(states[k])
               PROVE  states'[k].left <= states[k].left
    OBVIOUS
  <2>0. TypeOK /\ states[k] \in HealthState
    BY DEF GatewayInv, TypeOK
  <2>1. ASSUME NEW ok \in BOOLEAN, NEW p \in HealthPolicy,
               states'[k] = Observed(states[k], ok, p)
        PROVE  states'[k].left <= states[k].left
    BY <2>0, <2>1, ObservedFacts
  <2>2. CASE states'[k] = Elapsed(states[k])
    BY <2>0, <2>2, ElapsedFacts
  <2>3. CASE states'[k] = Unknown
    BY <2>0, <2>3, UnknownFacts DEF HealthState
  <2>4. CASE states'[k] = states[k]
    BY <2>0, <2>4 DEF HealthState
  <2>5. QED
    BY <2>0, <2>1, <2>2, <2>3, <2>4, EntrySteps
<1>2. QED
  BY <1>1, GatewayInvariant, PTL DEF Spec, CooldownOnlyRunsDown

=============================================================================
