------------------------------ MODULE Delivery ------------------------------
(***************************************************************************)
(* What the proxy promises the client of one relayed request, egresses,    *)
(* retries and limits left out: the request reaches the provider at most   *)
(* once, and not after the client got its answer.                          *)
(***************************************************************************)
CONSTANT Requests

VARIABLES
    view,      \* what the client sees of its request
    carriers   \* the attempts that may have carried it to the provider

vars == <<view, carriers>>

Init == /\ view = [r \in Requests |-> "idle"]
        /\ carriers = [r \in Requests |-> {}]

Open(r) == /\ view[r] \in {"idle", "answered"}
           /\ view' = [view EXCEPT ![r] = "open"]
           /\ carriers' = [carriers EXCEPT ![r] = {}]

\* The one delivery; its answer may come with it or later.
Deliver(r) == /\ view[r] = "open"
              /\ carriers[r] = {}
              /\ \E n \in carriers'[r] : carriers' = [carriers EXCEPT ![r] = {n}]
              /\ \/ UNCHANGED view
                 \/ view' = [view EXCEPT ![r] = "answered"]

Answer(r) == /\ view[r] = "open"
             /\ view' = [view EXCEPT ![r] = "answered"]
             /\ UNCHANGED carriers

Next == \E r \in Requests : Open(r) \/ Deliver(r) \/ Answer(r)

Spec == Init /\ [][Next]_vars

=============================================================================
