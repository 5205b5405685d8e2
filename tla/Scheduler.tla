----------------------------- MODULE Scheduler -----------------------------
(***************************************************************************)
(* routing.Scheduler (internal/routing/routing.go): per-route rotation     *)
(* state, kept across config reloads as long as the route keeps its shape. *)
(* Plan is one critical section of Scheduler.mu: the operators below give  *)
(* the plan it returns and the table it leaves.                            *)
(*                                                                         *)
(* A route is a record of its strategy, its egress list and the weight of  *)
(* each egress in the snapshot; NoRoute stands for a route id the snapshot *)
(* does not name and NoState for one the table does not hold.              *)
(***************************************************************************)
EXTENDS Integers, Sequences, FiniteSets, SequencesExt, FiniteSetsExt

NoRoute == [strategy |-> "absent", egress |-> <<>>, weight |-> <<>>]
NoState == [fingerprint |-> NoRoute, generation |-> 0, cursor |-> 0, cw |-> <<>>]

\* schedulerFingerprint: weights are part of the shape only where they are read.
Fingerprint(route) ==
    [route EXCEPT !.weight = IF route.strategy = "weighted_round_robin"
                             THEN [e \in ToSet(route.egress) |-> route.weight[e]]
                             ELSE <<>>]

\* freshState, stamped with a generation.
FreshState(route, gen) ==
    [fingerprint |-> Fingerprint(route), generation |-> gen, cursor |-> 0,
     cw |-> [e \in ToSet(route.egress) |-> 0]]

\* Mutant of Superseded: no snapshot is ever too old.
SupersededNever(st, route, gen) == FALSE

\* stateFor: the stored state when the shape matches, fresh state otherwise;
\* a snapshot older than the stored state never replaces it.
ShapeMatches(st, route) == st # NoState /\ st.fingerprint = Fingerprint(route)
Superseded(st, route, gen) ==
    st # NoState /\ st.fingerprint # Fingerprint(route) /\ gen < st.generation
StateFor(st, route, gen) ==
    IF ShapeMatches(st, route) THEN st ELSE FreshState(route, gen)

\* The weighted pool: only positive weights are schedulable as a head.
Pool(route, heads) == {e \in ToSet(heads) : route.weight[e] > 0}

\* An empty head set, or a weighted one without a positive weight, gives an
\* empty plan and touches no state.
Unplannable(route, heads) ==
    \/ heads = <<>>
    \/ route.strategy = "weighted_round_robin" /\ Pool(route, heads) = {}

\* Mutant of Total: the leader pays for the ineligible too.
TotalOfRoute(route, pool) == SumFunctionOnSet(route.weight, ToSet(route.egress))

\* nginx's smooth algorithm: every member of the pool gains its weight, the
\* first of the highest leads and pays the total.  The rest of the plan is
\* without(heads, best), and heads are distinct.
Raised(cw, route, pool) ==
    [e \in DOMAIN cw |-> IF e \in pool THEN cw[e] + route.weight[e] ELSE cw[e]]
Total(route, pool) == SumFunctionOnSet(route.weight, pool)
Leads(cw, heads, pool, i) ==
    /\ heads[i] \in pool
    /\ \A j \in DOMAIN heads : heads[j] \in pool =>
          \/ cw[heads[j]] < cw[heads[i]]
          \/ cw[heads[j]] = cw[heads[i]] /\ i <= j
Best(cw, heads, pool) == CHOOSE i \in DOMAIN heads : Leads(cw, heads, pool, i)
WeightedTurn(st, route, heads) ==
    LET pool == Pool(route, heads)
        cw   == Raised(st.cw, route, pool)
        best == Best(cw, heads, pool)
    IN [attempts |-> <<heads[best]>> \o RemoveAt(heads, best),
        state    |-> [st EXCEPT !.cw = [cw EXCEPT ![heads[best]] = @ - Total(route, pool)]]]

\* Round-robin: the heads rotated by the cursor.
RotatedTurn(st, heads) ==
    LET i == st.cursor % Len(heads)
    IN [attempts |-> SubSeq(heads, i + 1, Len(heads)) \o SubSeq(heads, 1, i),
        state    |-> [st EXCEPT !.cursor = @ + 1]]

Turn(st, route, heads) ==
    IF route.strategy = "weighted_round_robin"
    THEN WeightedTurn(st, route, heads)
    ELSE RotatedTurn(st, heads)

\* Scheduler.Plan for one route id: the plan and what is stored under the id.
\* A superseded snapshot plans against throwaway state.
Planned(st, route, gen, heads) ==
    IF Unplannable(route, heads) THEN [attempts |-> <<>>, state |-> st]
    ELSE LET turn == Turn(StateFor(st, route, gen), route, heads)
         IN IF Superseded(st, route, gen) THEN [turn EXCEPT !.state = st] ELSE turn

\* Scheduler.PruneRoutes
PrunedRoutes(sched, keep) == [id \in DOMAIN sched |-> IF id \in keep THEN sched[id] ELSE NoState]

=============================================================================
