----------------------------- MODULE MCGateway -----------------------------
(***************************************************************************)
(* Values for the constants of Gateway.                                    *)
(***************************************************************************)
EXTENDS Gateway, TLC

CONSTANTS r1, r2

\* The requests are interchangeable.
Symmetry == Permutations({r1, r2})

Hp(enabled, threshold, cooldown) ==
    [enabled |-> enabled, threshold |-> threshold, cooldown |-> cooldown]
OldA == <<"a", "u1">>
NewA == <<"a", "u2">>
B    == <<"b", "u1">>

\* A proxy URL swapped for another and back, an egress dropped, and a policy
\* edit; a and b share a transport in the first two.
SwapKeys == {OldA, NewA, B}
SwapConfigs == { [routes |-> [main |-> {OldA, B}], health |-> Hp(TRUE, 1, 1)],
                 [routes |-> [main |-> {NewA}],    health |-> Hp(TRUE, 2, 2)] }

=============================================================================
