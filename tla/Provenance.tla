----------------------------- MODULE Provenance -----------------------------
(***************************************************************************)
(* The vocabulary of internal/upstream/provenance.go: who a failure is     *)
(* attributed to (origin), at which step of the egress path it happened    *)
(* (phase) and what the process can prove about the request (state), with  *)
(* the two predicates the fallback executor decides on.                    *)
(***************************************************************************)

\* type Origin
Origins == {"none", "upstream", "ambiguous", "transport", "client"}

\* type FailurePhase; "none" is FailurePhaseNone, "not attributable".
Phases == {"none", "proxy_connect", "proxy_tls", "proxy_auth",
           "socks5_greeting", "socks5_auth", "socks5_connect",
           "connect_write", "connect_read", "target_connect", "origin_tls",
           "request_write", "response_headers", "response_body"}

\* type RequestState
RequestStates == {"unknown", "not_sent", "response_started"}

\* type Failure.  The class is left out: no decision reads it.
Failure == [origin : Origins, phase : Phases, state : RequestStates]

\* Failure.ReplaySafe: the only permission to re-send a request.
ReplaySafe(f) == f.origin = "transport" /\ f.state = "not_sent"

\* The steps performed against the egress endpoint itself.
MarkingPhases == {"proxy_connect", "proxy_tls", "proxy_auth",
                  "socks5_greeting", "socks5_auth", "connect_write"}

\* Failure.MarksEgressHealth
MarksEgressHealth(f) == f.origin = "transport" /\ f.phase \in MarkingPhases

\* NoDialFailure: the record of a request that never dialed.
NoDialFailure == [origin |-> "transport", phase |-> "none", state |-> "not_sent"]

\* hopPath.responseOrigin / responseState / statusFailure: a response relayed
\* on a hop a forward proxy carried in absolute form may be the proxy's own.
StatusFailure(intermediated) ==
    [origin |-> IF intermediated THEN "ambiguous" ELSE "upstream",
     phase  |-> "response_headers",
     state  |-> IF intermediated THEN "unknown" ELSE "response_started"]

\* classifyTransportFailure, first test: a canceled caller context.
CanceledFailure == [origin |-> "client", phase |-> "none", state |-> "unknown"]

\* The zero Failure of a success.
NoFailure == [origin |-> "none", phase |-> "none", state |-> "unknown"]

(***************************************************************************)
(* What one logical upstream call (Client.DoClassifiedObserved) reports to *)
(* the executor.  sent is not in the program: it records whether a byte of *)
(* the client's request may have left the process during the call.         *)
(***************************************************************************)
CallOutcome == [ok : BOOLEAN, failure : Failure, sent : BOOLEAN]

\* The call contract the executor relies on: a verdict that authorises a
\* replay is only given for a call that put no request byte on a connection.
\* Module UpstreamCall checks it of the client and its transports.
SoundOutcome(o) ==
    /\ o \in CallOutcome
    /\ ReplaySafe(o.failure) => ~o.sent
    /\ o.ok => ~ReplaySafe(o.failure)

=============================================================================
