---------------------------- MODULE UpstreamCall ----------------------------
(***************************************************************************)
(* One logical upstream call through one egress:                           *)
(* Client.DoClassifiedObserved and Client.attempt (client.go), the dialers *)
(* of transport.go, connect.go, socks5.go and hello.go, and the record     *)
(* provenance.go keeps of them.                                            *)
(*                                                                         *)
(* net/http's transport is external.  What the code relies on is modelled: *)
(*  - a hop rides an idle connection or starts a dial on a goroutine of    *)
(*    its own, and a connection another request gives back may serve the   *)
(*    hop while its dial still runs;                                       *)
(*  - WroteRequest fires when the write of a request ends, failed or not;  *)
(*    an error is returned only after that, a response may come before;    *)
(*  - a request is sent again on another connection only when it failed on *)
(*    a reused one and either nothing was written or it is a GET.          *)
(***************************************************************************)
EXTENDS Naturals, Sequences, Provenance

CONSTANTS
    Kinds,         \* proxy types of the egresses: "direct", "socks5", "http", "https"
    Schemes,       \* schemes a redirect can lead to
    MaxRedirects,  \* config.MaxRedirects
    MaxIdle        \* bound on the idle connections one call meets

ASSUME CallAssumption ==
    /\ Kinds \subseteq {"direct", "socks5", "http", "https"}
    /\ Schemes \subseteq {"http", "https"}
    /\ MaxRedirects \in Nat
    /\ MaxIdle \in Nat

VARIABLES
    kind, scheme,  \* the egress and the scheme of the current hop
    method,        \* POST, or GET once a redirect dropped the body
    followed,      \* redirects followed (hops)
    pc,            \* where the current hop stands
    hop,           \* its dialTrace
    call,          \* the callTrace
    dial,          \* the step the hop's dial is in, "none" or "over"
    lateDial,      \* the step of a dial started before the request was resent
    idle,          \* idle connections the transport can still come by
    reused,        \* the connection in hand was idle before
    bytes,         \* bytes of the request went out on it
    writing,       \* the current write has not ended: its hook is still to fire
    lateWrite,     \* so has an earlier hop's, overtaken by its response
    canceled,      \* ctx.Err() # nil
    outcome,       \* what the executor is told, <<>> before
    \* Not in the program, for the properties only:
    sent,          \* a request byte may have left the process
    cause          \* what ended the call

vars == <<kind, scheme, method, followed, pc, hop, call, dial, lateDial, idle,
          reused, bytes, writing, lateWrite, canceled, outcome, sent, cause>>

\* The fields of dialTrace and callTrace.
HopTrace == [dialed : BOOLEAN, dialOK : BOOLEAN, wrote : BOOLEAN, phase : Phases]
CallTrace == [transmitted : BOOLEAN, responded : BOOLEAN]
FreshHop == [dialed |-> FALSE, dialOK |-> FALSE, wrote |-> FALSE, phase |-> "none"]

\* The steps of a dial, in the order the dialers enter them.
ProxyTLS(k) == IF k = "https" THEN <<"proxy_tls">> ELSE <<>>
OriginTLS(s) == IF s = "https" THEN <<"origin_tls">> ELSE <<>>
DialPath(k, s) ==
    CASE k = "direct" -> <<"target_connect">> \o OriginTLS(s)
      [] k = "socks5" -> <<"proxy_connect", "socks5_greeting", "socks5_auth",
                           "socks5_connect">> \o OriginTLS(s)
      [] OTHER        -> <<"proxy_connect">> \o ProxyTLS(k)
                         \o (IF s = "http" THEN <<>>
                             ELSE <<"connect_write", "connect_read">> \o OriginTLS(s))

\* The steps in which a proxy can refuse the credentials.
AuthSteps == {"socks5_greeting", "socks5_auth", "connect_read"}

\* A proxy that asks for no authentication skips that step.
Follows(path, p, q) ==
    \E i \in DOMAIN path : /\ path[i] = p
                           /\ \/ i + 1 \in DOMAIN path /\ path[i + 1] = q
                              \/ /\ p = "socks5_greeting" /\ q = "socks5_connect"

IsLast(path, p) == path[Len(path)] = p
Running(d) == d \notin {"none", "over"}

\* The traces are read once: what happens after the call returned is left out.
Open == pc # "returned"

\* hopPathOf: a forward proxy answers for a plain-http hop.
Intermediated == kind \in {"http", "https"} /\ scheme = "http"

Init ==
    /\ kind \in Kinds
    /\ scheme \in Schemes
    /\ method = "POST"
    /\ followed = 0
    /\ pc = "getconn"
    /\ hop = FreshHop
    /\ call = [transmitted |-> FALSE, responded |-> FALSE]
    /\ dial = "none"
    /\ lateDial = "none"
    /\ idle \in 0..MaxIdle
    /\ reused = FALSE
    /\ bytes = FALSE
    /\ writing = FALSE
    /\ lateWrite = FALSE
    /\ canceled = FALSE
    /\ outcome = <<>>
    /\ sent = FALSE
    /\ cause = "none"

-----------------------------------------------------------------------------
(***************************************************************************)
(* Provenance of a failure.                                                *)
(***************************************************************************)

\* callTrace.state
CallState == IF call.responded THEN "response_started" ELSE "unknown"

\* dialTrace.provenance; post is what postDialPhase reads off the error.
HopPhase(post) ==
    CASE ~hop.dialed -> "none"
      [] hop.dialed /\ ~hop.dialOK -> hop.phase
      [] hop.dialOK /\ ~hop.wrote -> "none"
      [] OTHER -> post

\* Mutant of InheritCall: an answer does not count as a transmission.
InheritTransmitted == call.transmitted
InheritCall == call.transmitted \/ call.responded

\* Mutant of HopState: a hop that never wrote is not told apart.
HopStateUnknown == IF InheritCall THEN CallState ELSE "unknown"
HopState ==
    IF InheritCall THEN CallState
    ELSE IF ~hop.dialed \/ (hop.dialOK /\ hop.wrote) THEN "unknown" ELSE "not_sent"

\* classifyTransportFailure
TransportFailure(post) ==
    IF canceled THEN CanceledFailure
    ELSE [origin |-> "transport", phase |-> HopPhase(post), state |-> HopState]

\* attempt returned an error: the call fails with its provenance.
Fail(why, post) ==
    /\ pc' = "returned"
    /\ outcome' = [ok |-> FALSE, failure |-> TransportFailure(post), sent |-> sent]
    /\ cause' = why

-----------------------------------------------------------------------------
(***************************************************************************)
(* The transport (net/http) and the dialers it calls.                      *)
(***************************************************************************)

\* The hop gets an idle connection.
Reuse ==
    /\ pc \in {"getconn", "waiting"}
    /\ idle > 0
    /\ idle' = idle - 1
    /\ reused' = TRUE
    /\ pc' = "conn"
    /\ UNCHANGED <<kind, scheme, method, followed, hop, call, dial, lateDial,
                   bytes, writing, lateWrite, canceled, outcome, sent, cause>>

\* recordingDialer begins a dial.
BeginDial ==
    /\ pc = "getconn"
    /\ hop' = [hop EXCEPT !.dialed = TRUE, !.phase = Head(DialPath(kind, scheme))]
    /\ dial' = Head(DialPath(kind, scheme))
    /\ pc' = "waiting"
    /\ UNCHANGED <<kind, scheme, method, followed, call, lateDial, idle, reused,
                   bytes, writing, lateWrite, canceled, outcome, sent, cause>>

\* dialTrace.enter, by the goroutine of the hop's dial.
EnterPhase(q) ==
    /\ Open /\ Running(dial) /\ Follows(DialPath(kind, scheme), dial, q)
    /\ dial' = q
    /\ hop' = [hop EXCEPT !.phase = q]
    /\ UNCHANGED <<kind, scheme, method, followed, pc, call, lateDial, idle,
                   reused, bytes, writing, lateWrite, canceled, outcome, sent,
                   cause>>

\* A dial step fails, or a proxy refuses the credentials; the hop that still
\* waits for the dial gets the error.
DialFails(refused) ==
    /\ Open /\ Running(dial)
    /\ refused => dial \in AuthSteps
    /\ hop' = [hop EXCEPT !.phase = IF refused THEN "proxy_auth" ELSE @]
    /\ dial' = "over"
    /\ pc' = IF pc = "waiting" THEN "error" ELSE pc
    /\ cause' = IF pc = "waiting" THEN "dial" ELSE cause
    /\ UNCHANGED <<kind, scheme, method, followed, call, lateDial, idle, reused,
                   bytes, writing, lateWrite, canceled, outcome, sent>>

\* dialTrace.succeeded: the connection serves the hop that waits for it.
DialSucceeds ==
    /\ Open /\ Running(dial) /\ IsLast(DialPath(kind, scheme), dial)
    /\ hop' = [hop EXCEPT !.dialOK = TRUE]
    /\ dial' = "over"
    /\ pc' = IF pc = "waiting" THEN "conn" ELSE pc
    /\ reused' = IF pc = "waiting" THEN FALSE ELSE reused
    /\ UNCHANGED <<kind, scheme, method, followed, call, lateDial, idle, bytes,
                   writing, lateWrite, canceled, outcome, sent, cause>>

\* A dial the hop no longer waits for goes on writing into the hop's trace.
LateDialEnters(q) ==
    /\ Open /\ Running(lateDial) /\ Follows(DialPath(kind, scheme), lateDial, q)
    /\ lateDial' = q
    /\ hop' = [hop EXCEPT !.phase = q]
    /\ UNCHANGED <<kind, scheme, method, followed, pc, call, dial, idle, reused,
                   bytes, writing, lateWrite, canceled, outcome, sent, cause>>
LateDialEnds(ok) ==
    /\ Open /\ Running(lateDial)
    /\ ok => IsLast(DialPath(kind, scheme), lateDial)
    /\ lateDial' = "over"
    /\ hop' = [hop EXCEPT !.dialOK = @ \/ ok]
    /\ UNCHANGED <<kind, scheme, method, followed, pc, call, dial, idle, reused,
                   bytes, writing, lateWrite, canceled, outcome, sent, cause>>

\* The request is written; some tells whether any of it left the process.
Write(some) ==
    /\ pc = "conn"
    /\ pc' = "sending"
    /\ writing' = TRUE
    /\ bytes' = some
    /\ sent' = (sent \/ some)
    /\ UNCHANGED <<kind, scheme, method, followed, hop, call, dial, lateDial,
                   idle, reused, lateWrite, canceled, outcome, cause>>

\* writeHook -> markWrite, when the current write ends.
Wrote ==
    /\ Open /\ writing
    /\ writing' = FALSE
    /\ hop' = [hop EXCEPT !.wrote = TRUE]
    /\ call' = [call EXCEPT !.transmitted = TRUE]
    /\ UNCHANGED <<kind, scheme, method, followed, pc, dial, lateDial, idle,
                   reused, bytes, lateWrite, canceled, outcome, sent, cause>>

\* The same, for a write an early response overtook: its hop is gone.
LateWrote ==
    /\ Open /\ lateWrite
    /\ lateWrite' = FALSE
    /\ call' = [call EXCEPT !.transmitted = TRUE]
    /\ UNCHANGED <<kind, scheme, method, followed, pc, hop, dial, lateDial, idle,
                   reused, bytes, writing, canceled, outcome, sent, cause>>

\* The connection dies: before the request was written, or after.
ConnDies ==
    /\ pc = "conn" \/ (pc = "sending" /\ ~writing)
    /\ pc' = "error"
    /\ cause' = "conn"
    /\ UNCHANGED <<kind, scheme, method, followed, hop, call, dial, lateDial,
                   idle, reused, bytes, writing, lateWrite, canceled, outcome,
                   sent>>

\* Transport.RoundTrip tries again on another connection, with the same trace.
Resendable == pc = "error" /\ cause = "conn" /\ reused /\ (~bytes \/ method = "GET")
Resend ==
    /\ Resendable /\ ~canceled
    /\ pc' = "getconn"
    /\ cause' = "none"
    /\ lateDial' = IF Running(dial) THEN dial ELSE lateDial
    /\ dial' = "none"
    /\ bytes' = FALSE
    /\ UNCHANGED <<kind, scheme, method, followed, hop, call, idle, reused, writing,
                   lateWrite, canceled, outcome, sent>>

\* The caller goes away; a transport that waits gives up.
Cancel ==
    /\ Open /\ ~canceled
    /\ canceled' = TRUE
    /\ UNCHANGED <<kind, scheme, method, followed, pc, hop, call, dial, lateDial,
                   idle, reused, bytes, writing, lateWrite, outcome, sent, cause>>

GiveUp ==
    /\ canceled
    /\ pc \in {"getconn", "waiting", "conn"} \/ (pc = "sending" /\ ~writing)
    /\ pc' = "error"
    /\ cause' = "cancel"
    /\ UNCHANGED <<kind, scheme, method, followed, hop, call, dial, lateDial,
                   idle, reused, bytes, writing, lateWrite, canceled, outcome,
                   sent>>

-----------------------------------------------------------------------------
(***************************************************************************)
(* Client.attempt and DoClassifiedObserved.                                *)
(***************************************************************************)

\* RoundTrip returned the error of this hop.
HopFails(post) ==
    /\ pc = "error"
    /\ ~Resendable \/ canceled
    /\ Fail(cause, post)
    /\ UNCHANGED <<kind, scheme, method, followed, hop, call, dial, lateDial,
                   idle, reused, bytes, writing, lateWrite, canceled, sent>>

\* The headers of a response that is no redirect.
Answered(refused) ==
    /\ pc = "sending" /\ bytes
    /\ pc' = "returned"
    /\ cause' = "response"
    /\ outcome' = [ok |-> ~refused, sent |-> sent,
                   failure |-> IF refused THEN StatusFailure(Intermediated)
                               ELSE [StatusFailure(Intermediated) EXCEPT !.phase = "none"]]
    /\ UNCHANGED <<kind, scheme, method, followed, hop, call, dial, lateDial,
                   idle, reused, bytes, writing, lateWrite, canceled, sent>>

\* A redirect is noted in the call's record before anything else.
Redirected ==
    /\ pc = "sending" /\ bytes
    /\ call' = [call EXCEPT !.responded = TRUE]
    /\ pc' = "redirect"
    /\ UNCHANGED <<kind, scheme, method, followed, hop, dial, lateDial, idle,
                   reused, bytes, writing, lateWrite, canceled, outcome, sent,
                   cause>>

\* Without a Location it is the answer.
NoLocation ==
    /\ pc = "redirect"
    /\ pc' = "returned"
    /\ cause' = "response"
    /\ outcome' = [ok |-> TRUE, sent |-> sent,
                   failure |-> [StatusFailure(Intermediated) EXCEPT !.phase = "none"]]
    /\ UNCHANGED <<kind, scheme, method, followed, hop, call, dial, lateDial,
                   idle, reused, bytes, writing, lateWrite, canceled, sent>>

\* A Location that does not parse, is not http(s) or leaves the host.
BadLocation ==
    /\ pc = "redirect"
    /\ Fail("redirect", "none")
    /\ UNCHANGED <<kind, scheme, method, followed, hop, call, dial, lateDial,
                   idle, reused, bytes, writing, lateWrite, canceled, sent>>

\* Mutant of Hops: the counter is not advanced.
HopsForgotten == followed

\* hops++, and the limit it is compared with.
Hops == followed + 1
MayFollow == Hops <= MaxRedirects

\* One redirect too many.
TooManyRedirects ==
    /\ pc = "redirect"
    /\ ~MayFollow
    /\ followed' = Hops
    /\ Fail("redirect", "none")
    /\ UNCHANGED <<kind, scheme, method, hop, call, dial, lateDial, idle, reused,
                   bytes, writing, lateWrite, canceled, sent>>

\* The next hop: a fresh trace, maybe another transport, maybe no body.
NextHop(s, m) ==
    /\ pc = "redirect"
    /\ MayFollow
    /\ followed' = Hops
    /\ m = "POST" => method = "POST"
    /\ method' = m
    /\ scheme' = s
    /\ hop' = FreshHop
    /\ dial' = "none"
    /\ lateDial' = "none"
    /\ lateWrite' = (lateWrite \/ writing)
    /\ writing' = FALSE
    /\ reused' = FALSE
    /\ bytes' = FALSE
    /\ pc' = "getconn"
    /\ UNCHANGED <<kind, call, idle, canceled, outcome, sent, cause>>

\* The phases postDialPhase can read off a post-dial error.
PostPhases == {"none", "request_write", "response_headers"}

TransportStep == \/ Reuse \/ BeginDial
                 \/ \E q \in Phases : EnterPhase(q) \/ LateDialEnters(q)
                 \/ \E refused \in BOOLEAN : DialFails(refused)
                 \/ DialSucceeds
                 \/ \E ok \in BOOLEAN : LateDialEnds(ok)
                 \/ \E some \in BOOLEAN : Write(some)
                 \/ Wrote \/ LateWrote \/ ConnDies \/ Resend \/ GiveUp
ClientStep == \/ \E post \in PostPhases : HopFails(post)
              \/ \E refused \in BOOLEAN : Answered(refused)
              \/ Redirected \/ NoLocation \/ BadLocation \/ TooManyRedirects
              \/ \E s \in Schemes, m \in {"POST", "GET"} : NextHop(s, m)

Next == TransportStep \/ ClientStep \/ Cancel

Spec == Init /\ [][Next]_vars

\* Every step of the call is under a deadline and the transport's goroutines
\* keep running, so the call's own steps are weakly fair; Cancel is not.
FairSpec == Spec /\ WF_vars(TransportStep \/ ClientStep)

-----------------------------------------------------------------------------
(***************************************************************************)
(* Properties.                                                             *)
(***************************************************************************)

\* Every variable stays within its type.
TypeOK ==
    /\ kind \in Kinds /\ scheme \in Schemes
    /\ method \in {"POST", "GET"}
    /\ followed \in 0..(MaxRedirects + 1)
    /\ pc \in {"getconn", "waiting", "conn", "sending", "error", "redirect", "returned"}
    /\ hop \in HopTrace
    /\ call \in CallTrace
    /\ dial \in Phases \cup {"over"} /\ lateDial \in Phases \cup {"over"}
    /\ reused \in BOOLEAN /\ bytes \in BOOLEAN
    /\ idle \in 0..MaxIdle
    /\ writing \in BOOLEAN /\ lateWrite \in BOOLEAN /\ canceled \in BOOLEAN
    /\ outcome = <<>> \/ outcome \in CallOutcome
    /\ sent \in BOOLEAN
    /\ cause \in {"none", "dial", "conn", "cancel", "redirect", "response"}

\* The contract the executor moves on: whatever the hops, pooled connections,
\* early answers and late hooks of the call, a failure that authorises a replay
\* is reported only when no request byte can have left the process (issue #60).
CallContract == outcome # <<>> => SoundOutcome(outcome)

\* The other direction: a dial that failed before anything was written always
\* lets the request move to the next egress.
UnsentDialFailureMoves ==
    outcome # <<>> /\ cause = "dial" /\ ~sent /\ ~hop.wrote =>
        outcome.failure = CanceledFailure \/ ReplaySafe(outcome.failure)

\* One logical call always comes back: redirect chains and resends end.
CallReturns == <>(pc = "returned")

=============================================================================
