------------------------------ MODULE Rotation ------------------------------
(***************************************************************************)
(* The scheduler's table under hot reloads: requests hold the snapshot of  *)
(* their arrival, run the once-per-generation maintenance of               *)
(* Server.onGeneration and then plan, each in a critical section of its    *)
(* own, while the config store swaps in new generations.                   *)
(***************************************************************************)
EXTENDS Scheduler

CONSTANTS
    Requests, RouteIds,
    Configs,          \* the route tables a reload can bring: [RouteIds -> route]
    MaxGeneration,    \* bound on the number of reloads
    MaxTurns          \* bound on the plans made: requests stop arriving there

\* What Validate leaves of a route: its egresses are distinct and each has a
\* weight that is not negative.
IsRoute(route) ==
    /\ route = [strategy |-> route.strategy, egress |-> route.egress, weight |-> route.weight]
    /\ route.egress \in Seq(ToSet(route.egress))
    /\ IsInjective(route.egress)
    /\ \A e \in ToSet(route.egress) : e \in DOMAIN route.weight /\ route.weight[e] \in Nat

ASSUME RotationAssumption ==
    /\ \A c \in Configs : DOMAIN c = RouteIds /\ \A id \in RouteIds : IsRoute(c[id])
    /\ MaxTurns \in Nat

VARIABLES
    history,   \* history[g] is the route table of generation g; the last is live
    prunedGen, \* Server.prunedGen
    sched,     \* Scheduler.state
    pc,        \* where each request stands
    snap,      \* the generation each request arrived in
    match,     \* the route it matched
    turns,     \* arrivals so far, for the bound
    \* Not in the program, for the properties only:
    heads,     \* the eligible heads of its last plan, in the route's order
    plan       \* the plan

vars == <<history, prunedGen, sched, pc, snap, match, turns, heads, plan>>

Live == Len(history)
RouteOf(r) == history[snap[r]][match[r]]

Init ==
    /\ history \in {<<c>> : c \in Configs}
    /\ prunedGen = 0
    /\ sched = [id \in RouteIds |-> NoState]
    /\ pc = [r \in Requests |-> "idle"]
    /\ snap = [r \in Requests |-> 1]
    /\ match \in {[r \in Requests |-> id] : id \in RouteIds}
    /\ turns = 0
    /\ heads = [r \in Requests |-> <<>>]
    /\ plan = [r \in Requests |-> <<>>]

\* Store.tick swaps in the next generation.
Reload(c) ==
    /\ Live < MaxGeneration
    /\ history' = Append(history, c)
    /\ UNCHANGED <<prunedGen, sched, pc, snap, match, turns, heads, plan>>

\* relay takes its snapshot once, and matches a route of it.
Arrive(r, id) ==
    /\ pc[r] \in {"idle", "done"}
    /\ turns < MaxTurns
    /\ history[Live][id] # NoRoute
    /\ pc' = [pc EXCEPT ![r] = "maintain"]
    /\ snap' = [snap EXCEPT ![r] = Live]
    /\ match' = [match EXCEPT ![r] = id]
    /\ turns' = turns + 1
    /\ heads' = [heads EXCEPT ![r] = <<>>]
    /\ plan' = [plan EXCEPT ![r] = <<>>]
    /\ UNCHANGED <<history, prunedGen, sched>>

\* onGeneration, the scheduler's part: a snapshot newer than the last one
\* serviced prunes the routes it does not name.
OnGeneration(r) ==
    LET newer == prunedGen < snap[r]
        keep  == {id \in RouteIds : history[snap[r]][id] # NoRoute}
    IN
    /\ pc[r] = "maintain"
    /\ prunedGen' = IF newer THEN snap[r] ELSE prunedGen
    /\ sched' = IF newer THEN PrunedRoutes(sched, keep) ELSE sched
    /\ pc' = [pc EXCEPT ![r] = "plan"]
    /\ UNCHANGED <<history, snap, match, turns, heads, plan>>

\* Health, slots and the request's own shape leave any non-empty subset of the
\* route's egresses eligible, in the route's order; an empty one is answered
\* without a plan.
Eligible(route) ==
    LET InOrder(d, e) == \E i, j \in DOMAIN route.egress :
                            i < j /\ route.egress[i] = d /\ route.egress[j] = e
    IN {hs \in SetToAllKPermutations(ToSet(route.egress)) \ {<<>>} : IsSorted(hs, InOrder)}

\* relay plans over the eligible heads hs of its route.
Plan(r) ==
    /\ pc[r] = "plan"
    /\ \E hs \in Eligible(RouteOf(r)) :
          LET turn == Planned(sched[match[r]], RouteOf(r), snap[r], hs)
          IN  /\ sched' = [sched EXCEPT ![match[r]] = turn.state]
              /\ heads' = [heads EXCEPT ![r] = hs]
              /\ plan' = [plan EXCEPT ![r] = turn.attempts]
    /\ pc' = [pc EXCEPT ![r] = "done"]
    /\ UNCHANGED <<history, prunedGen, snap, match, turns>>

Next ==
    \/ \E c \in Configs : Reload(c)
    \/ \E r \in Requests : \/ \E id \in RouteIds : Arrive(r, id)
                           \/ OnGeneration(r)
                           \/ Plan(r)

Spec == Init /\ [][Next]_vars

-----------------------------------------------------------------------------
\* Every variable stays within its type; no rotation state is stamped with a
\* generation that is not there yet.
TypeOK ==
    /\ history \in Seq(Configs)
    /\ prunedGen \in 0..Live
    /\ pc \in [Requests -> {"idle", "maintain", "plan", "done"}]
    /\ snap \in [Requests -> 1..Live]
    /\ match \in [Requests -> RouteIds]
    /\ turns \in 0..MaxTurns
    /\ \A id \in RouteIds : sched[id].generation \in 0..Live

\* The plan of a request is its eligible heads, each once: whatever rotation
\* state it met, nothing is lost and nothing is tried twice.  "a weight-0
\* egress is configured but never scheduled as a route head" (routing.go): no
\* stale current_weight puts one in front, and a weighted route left with such
\* heads only gives an empty plan.
PlanIsPermutationOfHeads ==
    \A r \in Requests : pc[r] = "done" =>
        LET weighted == RouteOf(r).strategy = "weighted_round_robin"
            weight   == RouteOf(r).weight
        IN  \/ /\ ToSet(plan[r]) = ToSet(heads[r])
               /\ Len(plan[r]) = Len(heads[r])
               /\ weighted => weight[plan[r][1]] > 0
            \/ /\ plan[r] = <<>> /\ weighted
               /\ \A i \in DOMAIN heads[r] : weight[heads[r][i]] = 0

\* The smooth algorithm is fair whatever it goes through, eligibility flaps,
\* reloads and late requests of older generations included: what is owed and
\* what was overdrawn cancel out, and on a route of up to three egresses none
\* is ever a whole turn ahead of its weight or behind it.  (With four, flaps
\* can drive weights 7, 1, 1, 5 a whole turn off: the code bounds no more.)
WeightsStayFair ==
    \A id \in RouteIds : sched[id] # NoState =>
        LET cw   == sched[id].cw
            turn == SumFunctionOnSet(sched[id].fingerprint.weight,
                                     ToSet(sched[id].fingerprint.egress))
        IN  /\ SumFunction(cw) = 0
            /\ Cardinality(DOMAIN cw) <= 3 =>
                  \A e \in DOMAIN cw : cw[e] = 0 \/ (-turn < cw[e] /\ cw[e] < turn)

\* Every turn is a whole and fair one.
PlansAreFair == PlanIsPermutationOfHeads /\ WeightsStayFair

\* "it can never replace a newer generation's state with an older shape's"
\* (routing.go): what a late request leaves of a state newer than its own
\* snapshot is that state, or that state advanced by one turn.
LateRequestKeepsRotation ==
    [][\A r \in Requests :
          pc[r] = "plan" /\ pc'[r] = "done" /\ snap[r] < sched[match[r]].generation =>
              /\ sched'[match[r]].generation = sched[match[r]].generation
              /\ sched'[match[r]].cursor >= sched[match[r]].cursor]_vars

=============================================================================
