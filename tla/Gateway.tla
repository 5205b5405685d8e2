------------------------------ MODULE Gateway ------------------------------
(***************************************************************************)
(* Server.relay around the executor (internal/router/handler.go and        *)
(* server.go): a request takes the snapshot of its arrival, passes the     *)
(* drain gate, matches a route and pins the route's health identities      *)
(* under clientMu, pays the once-per-generation maintenance, filters the   *)
(* route's egresses, is tried on them and releases its pins, while reloads *)
(* swap generations in.  The walk itself is module Executor: here an       *)
(* attempt is what it does to the caches shared by all requests, the       *)
(* transports by signature and the health registry by identity.            *)
(*                                                                         *)
(* An identity is a pair of an egress id and a transport signature.        *)
(***************************************************************************)
EXTENDS Naturals, Sequences, FiniteSets, Health

CONSTANTS
    Requests, RouteIds,
    Keys,            \* health identities <<egress id, transport signature>>
    Configs,         \* what a reload can bring
    MaxGeneration    \* bound on the number of reloads

\* A generation: the identities each route reaches (none: the route is absent)
\* and the health policy.
Config == [routes : [RouteIds -> SUBSET Keys], health : HealthPolicy]
Signature(k) == k[2]
Active(c) == UNION {c.routes[id] : id \in RouteIds}

ASSUME GatewayAssumption ==
    /\ IsFiniteSet(Requests)
    /\ Configs \subseteq Config
    /\ MaxGeneration \in Nat

VARIABLES
    history,     \* history[g] is generation g; the last is Store.Get()
    draining,    \* Server.Draining
    prunedGen,   \* Server.prunedGen
    clients,     \* signatures in Server.clients
    refs,        \* Registry.refs
    states,      \* Registry.states
    pc, snap, route,  \* each request, its generation and its matched route
    unseen,      \* identities of the route routeHeads has not judged yet
    heads,       \* the eligible ones, not tried yet
    \* Not in the program, for the properties only:
    cooling      \* identities in cooldown ever since the request pinned them

vars == <<history, draining, prunedGen, clients, refs, states, pc, snap, route,
          unseen, heads, cooling>>
shared == <<history, draining, prunedGen, clients, refs, states>>

Snapshot(r) == history[snap[r]]
RouteKeys(r) == Snapshot(r).routes[route[r]]
Policy(r) == Snapshot(r).health

\* The requests that hold pins.
Pinning == {r \in Requests : pc[r] \in {"maintain", "heads", "attempt", "observe", "release"}}

Init ==
    /\ history \in {<<c>> : c \in Configs}
    /\ draining = FALSE
    /\ prunedGen = 0
    /\ clients = {}
    /\ refs = [k \in Keys |-> 0]
    /\ states = [k \in Keys |-> Unknown]
    /\ pc = [r \in Requests |-> "idle"]
    /\ snap = [r \in Requests |-> 1]
    /\ route \in {[r \in Requests |-> id] : id \in RouteIds}
    /\ unseen = [r \in Requests |-> {}]
    /\ heads = [r \in Requests |-> {}]
    /\ cooling = [r \in Requests |-> {}]

\* cooling after a step that leaves the registry in st.
StillCooling(st) == [r \in Requests |-> {k \in cooling[r] : Cooling(st[k])}]

-----------------------------------------------------------------------------
\* Store.tick swaps in a valid new file.
Reload(c) ==
    /\ Len(history) < MaxGeneration
    /\ history' = Append(history, c)
    /\ UNCHANGED <<draining, prunedGen, clients, refs, states, pc, snap, route, unseen,
                   heads, cooling>>

\* Server.Drain
Drain ==
    /\ ~draining
    /\ draining' = TRUE
    /\ UNCHANGED <<history, prunedGen, clients, refs, states, pc, snap, route, unseen,
                   heads, cooling>>

\* relay takes its one snapshot.
Arrive(r) ==
    /\ pc[r] \in {"idle", "done"}
    /\ pc' = [pc EXCEPT ![r] = "gate"]
    /\ snap' = [snap EXCEPT ![r] = Len(history)]
    /\ UNCHANGED <<shared, route, unseen, heads, cooling>>

\* Answered without an egress: a wrong method, the drain gate, a bad body, a
\* connection test, a bypassed request, a failed translation.
AnsweredLocally(r) ==
    /\ pc[r] = "gate"
    /\ pc' = [pc EXCEPT ![r] = "done"]
    /\ UNCHANGED <<shared, snap, route, unseen, heads, cooling>>

PassGate(r) ==
    /\ pc[r] = "gate"
    /\ ~draining
    /\ pc' = [pc EXCEPT ![r] = "match"]
    /\ UNCHANGED <<shared, snap, route, unseen, heads, cooling>>

\* Under clientMu: MatchRoute finds a route and its identities are pinned.
MatchAndPin(r, id) ==
    /\ pc[r] = "match"
    /\ Snapshot(r).routes[id] # {}
    /\ route' = [route EXCEPT ![r] = id]
    /\ refs' = Pinned(refs, Snapshot(r).routes[id])
    /\ cooling' = [cooling EXCEPT ![r] = {k \in Snapshot(r).routes[id] : Cooling(states[k])}]
    /\ pc' = [pc EXCEPT ![r] = "maintain"]
    /\ UNCHANGED <<history, draining, prunedGen, clients, states, snap, unseen, heads>>

\* No route matched: the answer leaves before the maintenance.
NoRoute(r) ==
    /\ pc[r] = "match"
    /\ pc' = [pc EXCEPT ![r] = "done"]
    /\ UNCHANGED <<shared, snap, route, unseen, heads, cooling>>

\* Mutant of Newer: any other generation is serviced, older ones too.
NewerOrOlder(r) == prunedGen # snap[r]

\* onGeneration's fast path: this generation, or a newer one, was serviced.
Newer(r) == prunedGen < snap[r]

\* onGeneration, one step under clientMu: a snapshot newer than the last one
\* serviced prunes the transports and reclaims the identities it does not name.
OnGeneration(r) ==
    LET keep == Active(Snapshot(r)) IN
    /\ pc[r] = "maintain"
    /\ prunedGen' = IF Newer(r) THEN snap[r] ELSE prunedGen
    /\ clients' = IF Newer(r) THEN clients \cap {Signature(k) : k \in keep} ELSE clients
    /\ states' = IF Newer(r) THEN Reclaimed(states, refs, keep) ELSE states
    /\ unseen' = [unseen EXCEPT ![r] = RouteKeys(r)]
    /\ heads' = [heads EXCEPT ![r] = {}]
    /\ pc' = [pc EXCEPT ![r] = "heads"]
    /\ UNCHANGED <<history, draining, refs, snap, route, cooling>>

\* routeHeads judges one egress; the registry is locked for each of them alone.
\* A healthy one may be left out for its own limits and capacity.
Judge(r, k, take) ==
    /\ pc[r] = "heads"
    /\ k \in unseen[r]
    /\ take => Healthy(states[k], Policy(r))
    /\ unseen' = [unseen EXCEPT ![r] = @ \ {k}]
    /\ heads' = [heads EXCEPT ![r] = IF take THEN @ \cup {k} ELSE @]
    /\ UNCHANGED <<shared, pc, snap, route, cooling>>

\* The plan goes to the executor; without a head the request is rejected.
Planned(r) ==
    /\ pc[r] = "heads"
    /\ unseen[r] = {}
    /\ pc' = [pc EXCEPT ![r] = IF heads[r] = {} THEN "release" ELSE "attempt"]
    /\ UNCHANGED <<shared, snap, route, unseen, heads, cooling>>

\* clientForEgress: the cached transport of the identity, or a new one.
Attempt(r, k) ==
    /\ pc[r] = "attempt"
    /\ k \in heads[r]
    /\ clients' = clients \cup {Signature(k)}
    /\ heads' = [heads EXCEPT ![r] = @ \ {k}]
    /\ unseen' = [unseen EXCEPT ![r] = {k}]
    /\ pc' = [pc EXCEPT ![r] = "observe"]
    /\ UNCHANGED <<history, draining, prunedGen, refs, states, snap, route, cooling>>

\* What is left of the plan is skipped (no transport, no slot, no entry with a
\* weight), or the body cannot be serialized: the request ends undialed.
Undialed(r) ==
    /\ pc[r] = "attempt"
    /\ pc' = [pc EXCEPT ![r] = "release"]
    /\ UNCHANGED <<shared, snap, route, unseen, heads, cooling>>

\* The attempt ends: a success or a failure of the egress itself is observed,
\* any other failure is not; a failure may move on to the next head.
Observe(r, k, verdict, move) ==
    LET st == IF verdict = "neutral" THEN states
              ELSE [states EXCEPT ![k] = Observed(@, verdict = "ok", Policy(r))]
    IN
    /\ pc[r] = "observe"
    /\ k \in unseen[r]
    /\ move => verdict # "ok" /\ heads[r] # {}
    /\ states' = st
    /\ cooling' = StillCooling(st)
    /\ unseen' = [unseen EXCEPT ![r] = {}]
    /\ pc' = [pc EXCEPT ![r] = IF move THEN "attempt" ELSE "release"]
    /\ UNCHANGED <<history, draining, prunedGen, clients, refs, snap, route, heads>>

\* relay returns; the deferred release runs.
Release(r) ==
    /\ pc[r] = "release"
    /\ refs' = Unpinned(refs, RouteKeys(r))
    /\ cooling' = [cooling EXCEPT ![r] = {}]
    /\ heads' = [heads EXCEPT ![r] = {}]
    /\ pc' = [pc EXCEPT ![r] = "done"]
    /\ UNCHANGED <<history, draining, prunedGen, clients, states, snap, route, unseen>>

Tick ==
    LET st == [k \in Keys |-> Elapsed(states[k])] IN
    /\ st # states
    /\ states' = st
    /\ cooling' = StillCooling(st)
    /\ UNCHANGED <<history, draining, prunedGen, clients, refs, pc, snap, route, unseen, heads>>

Serve(r) ==
    \/ Arrive(r) \/ AnsweredLocally(r) \/ PassGate(r) \/ NoRoute(r)
    \/ \E id \in RouteIds : MatchAndPin(r, id)
    \/ OnGeneration(r)
    \/ \E k \in Keys, take \in BOOLEAN : Judge(r, k, take)
    \/ Planned(r)
    \/ \E k \in Keys : Attempt(r, k)
    \/ Undialed(r)
    \/ \E k \in Keys, verdict \in {"ok", "fault", "neutral"}, move \in BOOLEAN :
          Observe(r, k, verdict, move)
    \/ Release(r)

Next == \/ \E c \in Configs : Reload(c)
        \/ Drain
        \/ \E r \in Requests : Serve(r)
        \/ Tick

Spec == Init /\ [][Next]_vars

-----------------------------------------------------------------------------
(***************************************************************************)
(* Properties.                                                             *)
(***************************************************************************)

\* Every variable stays within its type.
TypeOK ==
    /\ history \in Seq(Configs)
    /\ draining \in BOOLEAN
    /\ prunedGen \in 0..Len(history)
    /\ clients \subseteq {Signature(k) : k \in Keys}
    /\ refs \in [Keys -> Nat]
    /\ states \in [Keys -> HealthState]
    /\ pc \in [Requests -> {"idle", "gate", "match", "maintain", "heads", "attempt",
                            "observe", "release", "done"}]
    /\ snap \in [Requests -> 1..Len(history)]
    /\ route \in [Requests -> RouteIds]
    /\ unseen \in [Requests -> SUBSET Keys]
    /\ heads \in [Requests -> SUBSET Keys]
    /\ cooling \in [Requests -> SUBSET Keys]

\* The reference count of an identity is the number of requests in flight whose
\* route reaches it, through every early return of relay: no pin leaks and none
\* is released twice (issue #9).
PinsMatchRequests ==
    \A k \in Keys : refs[k] = Cardinality({r \in Pinning : k \in RouteKeys(r)})

\* An egress that is in cooldown from the moment the request pins it until the
\* request plans is never among the egresses tried, although maintenance runs
\* in between and the registry is unlocked between any two looks at it.
CoolingEgressNotPlanned ==
    \A r \in Requests : Policy(r).enabled => heads[r] \cap cooling[r] = {}

\* The cached transports and rotation keep-sets only ever move forward: what
\* the newest serviced generation still routes to is not evicted, least of all
\* by a request that holds an older snapshot (server.go, onGeneration).
NeverEvictsNewerTransport ==
    [][\A s \in clients \ clients' :
          /\ prunedGen' > prunedGen
          /\ s \notin {Signature(k) : k \in Active(history[prunedGen'])}]_vars

\* "the cooldown bounds the absence - repeated failures can't push an egress
\* out indefinitely" (health.go): the failures of requests that were planned
\* before an egress went into cooldown, under whatever policy, arrive during
\* it and never lengthen it.
CooldownOnlyRunsDown ==
    [][\A k \in Keys : Cooling(states[k]) => states'[k].left <= states[k].left]_vars

=============================================================================
