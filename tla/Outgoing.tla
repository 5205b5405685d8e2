------------------------------ MODULE Outgoing ------------------------------
(***************************************************************************)
(* What goes into an outgoing request: the body (RequestBody), the session *)
(* id (Sessions) and the user agent (UserAgentCache), which PrepareRequest *)
(* and BuildHeaders put together.  The three share no state, so a          *)
(* behaviour follows one of them and the others stand still: their         *)
(* interleavings are those of the parts.                                   *)
(***************************************************************************)
EXTENDS RequestBody, Sessions, UserAgentCache

VARIABLE follows     \* the part this behaviour is about

vars == <<follows, bodyVars, sessionVars, cacheVars>>

\* The parts that are not followed are in one of their initial states.
Init ==
    /\ follows \in {"body", "session", "agent"}
    /\ BodyInit /\ SessionsInit /\ CacheInit
    /\ follows # "body" => source = "chat" /\ model = CHOOSE m \in Models : TRUE
    /\ follows # "agent" => ~online /\ ~enabled

OfBody(A) == follows = "body" /\ A /\ UNCHANGED <<follows, sessionVars, cacheVars>>
OfSession(A) == follows = "session" /\ A /\ UNCHANGED <<follows, bodyVars, cacheVars>>
OfAgent(A) == follows = "agent" /\ A /\ UNCHANGED <<follows, bodyVars, sessionVars>>

Next == OfBody(BodyNext) \/ OfSession(SessionsNext) \/ OfAgent(CacheNext)

Spec == Init /\ [][Next]_vars

=============================================================================
