---------------------------- MODULE MCRotation ----------------------------
(***************************************************************************)
(* Values for the constants of Rotation.                                   *)
(***************************************************************************)
EXTENDS Rotation

WRR(egress, weight) == [strategy |-> "weighted_round_robin", egress |-> egress, weight |-> weight]
RR(egress, weight) == [strategy |-> "round_robin", egress |-> egress, weight |-> weight]
W(za, zb, zc) == [a |-> za, b |-> zb, c |-> zc]
Main(route) == [main |-> route, other |-> RR(<<"a">>, W(1, 1, 1))]

\* A weight edit, a strategy edit, a reordering and a removal of the route.
ReloadConfigs == {Main(WRR(<<"a", "b", "c">>, W(2, 1, 1))), Main(WRR(<<"a", "b">>, W(0, 1, 1))),
                  Main(RR(<<"b", "a">>, W(1, 1, 1))), Main(NoRoute)}

=============================================================================
