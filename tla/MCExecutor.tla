---------------------------- MODULE MCExecutor ----------------------------
(***************************************************************************)
(* Values for the constants of Executor.                                   *)
(***************************************************************************)
EXTENDS Executor, TLC

CONSTANTS r1, r2, r3, a, b

\* One outcome of each kind the executor tells apart.
Verdict(origin, phase, state) == [origin |-> origin, phase |-> phase, state |-> state]
Fails(origin, phase, state, sent) ==
    [ok |-> FALSE, failure |-> Verdict(origin, phase, state), sent |-> sent]
MCOutcomes ==
    { [ok |-> TRUE, failure |-> Verdict("upstream", "none", "response_started"), sent |-> TRUE],
      Fails("transport", "proxy_connect", "not_sent", FALSE),
      Fails("transport", "target_connect", "not_sent", FALSE),
      Fails("transport", "proxy_connect", "unknown", TRUE),
      Fails("upstream", "response_headers", "response_started", TRUE) }

Caps(na, nb) == [e \in Egresses |-> IF e = a THEN na ELSE nb]
SomePolicy(fb, n, caps) ==
    [fallback |-> fb, maxAttempts |-> n, cap |-> caps, key |-> [e \in Egresses |-> e],
     health |-> [enabled |-> TRUE, threshold |-> 1, cooldown |-> 1]]

\* Budgets below and above the plan's length; two positive caps on a, none
\* on b.
WalkPolicies == {SomePolicy(TRUE, 1, Caps(1, 0)), SomePolicy(TRUE, 3, Caps(2, 0)),
                 SomePolicy(FALSE, 2, Caps(1, 0))}

\* One request after the other walks every plan while one of a newer
\* generation holds a slot of a for as long as it likes.
ContendsForA ==
    /\ pc[r2] = "idle" /\ pc'[r2] = "select" =>
          plan'[r2] = <<a>> /\ policy'[r2].cap[a] = 2
    /\ pc[r2] = "done" => pc'[r2] = "done"

\* A reload that puts a cap on an egress that had none.
MixedPolicies == {SomePolicy(TRUE, 1, Caps(0, 0)), SomePolicy(TRUE, 1, Caps(1, 0))}

=============================================================================
