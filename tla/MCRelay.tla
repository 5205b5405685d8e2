------------------------------ MODULE MCRelay ------------------------------
(***************************************************************************)
(* Instances of Relays and Forced: two calls, the second of a custom tool. *)
(***************************************************************************)
EXTENDS Forced

MCNames == 0 :> <<"f">> @@ 1 :> <<"custom">>
MCCustomToolNames == {<<"custom">>}
AllRoutes == {"chat", "responses"} \X {"chat", "responses"}
ResponsesPassthrough == {<<"responses", "responses">>}

=============================================================================
