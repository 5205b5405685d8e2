------------------------------- MODULE Health -------------------------------
(***************************************************************************)
(* health.Registry (internal/health/health.go): failure streaks and        *)
(* cooldowns per egress identity (id + transport signature), and the pins  *)
(* of requests in flight.  Each operator is one critical section of        *)
(* Registry.mu, as a function of the registry's tables.                    *)
(*                                                                         *)
(* A health state is a record of its failure streak and of the time its    *)
(* cooldown still has to run; a cooldown deadline in the code is absolute, *)
(* so the remaining time only changes with the clock (Elapse) and with     *)
(* Observe.  Unknown stands for a key absent from Registry.states.         *)
(***************************************************************************)
EXTENDS Integers

Unknown == [known |-> FALSE, failures |-> 0, left |-> 0]
HealthState == [known : BOOLEAN, failures : Nat, left : Nat]

\* health.Policy, immutable and carried by each request's snapshot.
HealthPolicy == [enabled : BOOLEAN, threshold : Nat, cooldown : Nat]

\* now().Before(st.until)
Cooling(s) == s.left > 0

\* Mutant of Observed: a failure in cooldown starts it over.
ObservedExtending(s, ok, p) ==
    IF ~p.enabled \/ p.threshold <= 0 THEN s
    ELSE IF ok THEN [known |-> TRUE, failures |-> 0, left |-> 0]
    ELSE IF Cooling(s) \/ s.failures + 1 >= p.threshold
         THEN [known |-> TRUE, failures |-> 0, left |-> p.cooldown]
         ELSE [known |-> TRUE, failures |-> s.failures + 1, left |-> 0]

\* Registry.Observe on one entry: a success clears it, a failure in cooldown
\* changes nothing, a failure that reaches the threshold arms the cooldown.
Observed(s, ok, p) ==
    IF ~p.enabled \/ p.threshold <= 0 THEN s
    ELSE IF ok THEN [known |-> TRUE, failures |-> 0, left |-> 0]
    ELSE IF Cooling(s) THEN s
    ELSE IF s.failures + 1 >= p.threshold
         THEN [known |-> TRUE, failures |-> 0, left |-> p.cooldown]
         ELSE [known |-> TRUE, failures |-> s.failures + 1, left |-> 0]

\* Registry.Healthy
Healthy(s, p) == ~p.enabled \/ ~s.known \/ ~Cooling(s)

\* The clock advances by one unit.
Elapsed(s) == IF Cooling(s) THEN [s EXCEPT !.left = @ - 1] ELSE s

\* Mutant of Unpinned: a reference shared by two requests is not counted down.
UnpinnedLast(refs, keys) ==
    [k \in DOMAIN refs |-> IF k \in keys /\ refs[k] = 1 THEN 0 ELSE refs[k]]

\* Registry.Pin and the release it returns: one reference per key, the
\* release guarded at zero.
Pinned(refs, keys) == [k \in DOMAIN refs |-> IF k \in keys THEN refs[k] + 1 ELSE refs[k]]
Unpinned(refs, keys) ==
    [k \in DOMAIN refs |-> IF k \in keys /\ refs[k] > 0 THEN refs[k] - 1 ELSE refs[k]]

\* Mutant of Reclaimed: the pins are not consulted.
ReclaimedPinned(states, refs, active) ==
    [k \in DOMAIN states |-> IF k \in active THEN states[k] ELSE Unknown]

\* Registry.Reclaim: drops what is neither active nor pinned.
Reclaimed(states, refs, active) ==
    [k \in DOMAIN states |->
        IF k \in active \/ refs[k] > 0 THEN states[k] ELSE Unknown]

=============================================================================
