------------------------- MODULE UpstreamCallProofs -------------------------
(***************************************************************************)
(* The call contract, for any redirect budget and any number of pooled     *)
(* connections: UpstreamCall provides what Executor assumes of Outcomes.   *)
(***************************************************************************)
EXTENDS UpstreamCall, TLAPS

\* Whatever left the process is on record in the call's own trace, or the hook
\* that will record it belongs to a write the transport still waits for; a
\* hop that a redirect ended is on record as answered.
SentIsOnRecord ==
    /\ sent => call.transmitted \/ call.responded \/ writing
    /\ writing => pc \in {"sending", "redirect", "returned"}
    /\ pc = "redirect" => call.responded

\* The redirect budget is overrun only by the redirect that ends the call.
WithinBudget == Open => followed <= MaxRedirects

CallInv == TypeOK /\ SentIsOnRecord /\ WithinBudget /\ CallContract

\* The other way round: the call's record claims no transmission of its own
\* making.  What it says of earlier hops, and of writes that were overtaken,
\* was really sent.
RecordIsOfSent ==
    /\ bytes => sent
    /\ lateWrite => sent
    /\ pc = "redirect" => sent
    /\ call.responded => sent
    /\ call.transmitted => sent \/ hop.wrote

\* A dial that fails the hop is one the hop's trace knows of, and the call
\* returns once.
FailedDialIsKnown ==
    /\ pc = "waiting" => hop.dialed
    /\ cause = "dial" => hop.dialed /\ pc \in {"error", "returned"}
    /\ outcome # <<>> => pc = "returned"

DialInv == RecordIsOfSent /\ FailedDialIsKnown /\ UnsentDialFailureMoves

-----------------------------------------------------------------------------
\* A dial starts in, and moves through, named phases.
LEMMA DialPathPhases ==
    ASSUME NEW k \in Kinds, NEW s \in Schemes
    PROVE  Head(DialPath(k, s)) \in Phases
BY DEF DialPath, ProxyTLS, OriginTLS, Phases

\* What the dialers and the hooks write into the traces keeps their type.
LEMMA PhaseType ==
    ASSUME NEW h \in HopTrace, NEW p \in Phases
    PROVE  /\ [h EXCEPT !.phase = p] \in HopTrace
           /\ [h EXCEPT !.dialed = TRUE, !.phase = p] \in HopTrace
BY DEF HopTrace

\* So do the hooks of a hop...
LEMMA HookType ==
    ASSUME NEW h \in HopTrace, NEW b \in BOOLEAN
    PROVE  /\ [h EXCEPT !.dialOK = b] \in HopTrace
           /\ [h EXCEPT !.wrote = b] \in HopTrace
BY DEF HopTrace

\* ...and those of the call.
LEMMA CallTraceType ==
    ASSUME NEW c \in CallTrace, NEW b \in BOOLEAN
    PROVE  /\ [c EXCEPT !.transmitted = b] \in CallTrace
           /\ [c EXCEPT !.responded = b] \in CallTrace
BY DEF CallTrace

\* The provenance of a failed call has its type.
LEMMA FailureType ==
    ASSUME TypeOK, NEW post \in PostPhases
    PROVE  TransportFailure(post) \in Failure
<1>1. HopPhase(post) \in Phases
  BY DEF HopPhase, TypeOK, HopTrace, PostPhases, Phases
<1>2. HopState \in RequestStates
  BY DEF HopState, CallState, RequestStates
<1>3. QED
  BY <1>1, <1>2 DEF TransportFailure, CanceledFailure, Failure, Origins, Phases, RequestStates

\* A hop that fails with its write ended is never called unsent when a byte of
\* the call went out, on this hop or on an earlier one.
LEMMA FailedCallIsSound ==
    ASSUME TypeOK, SentIsOnRecord, NEW post \in PostPhases, ~writing \/ call.responded
    PROVE  SoundOutcome([ok |-> FALSE, failure |-> TransportFailure(post), sent |-> sent])
<1> DEFINE o == [ok |-> FALSE, failure |-> TransportFailure(post), sent |-> sent]
<1>1. o \in CallOutcome
  BY FailureType DEF CallOutcome, TypeOK
<1>2. sent => HopState # "not_sent"
  BY DEF SentIsOnRecord, HopState, InheritCall, CallState
<1>3. ReplaySafe(TransportFailure(post)) => ~sent
  BY <1>2 DEF ReplaySafe, TransportFailure, CanceledFailure
<1>4. QED
  BY <1>1, <1>3 DEF SoundOutcome

\* The record of an answered call never authorises a replay.
LEMMA AnsweredCallIsSound ==
    ASSUME TypeOK, NEW ok \in BOOLEAN, NEW im \in BOOLEAN, NEW f,
           f \in {StatusFailure(im), [StatusFailure(im) EXCEPT !.phase = "none"]}
    PROVE  SoundOutcome([ok |-> ok, failure |-> f, sent |-> sent])
BY DEF TypeOK, StatusFailure, SoundOutcome, CallOutcome, Failure, Origins, Phases,
       RequestStates, ReplaySafe

\* The initial state satisfies the invariant.
LEMMA CallInvInit == Init => CallInv
<1> SUFFICES ASSUME Init PROVE CallInv
  OBVIOUS
<1>1. FreshHop \in HopTrace
  BY DEF FreshHop, HopTrace, Phases
<1>2. [transmitted |-> FALSE, responded |-> FALSE] \in CallTrace
  BY DEF CallTrace
<1>3. TypeOK
  <2>1. followed \in 0..(MaxRedirects + 1) /\ idle \in 0..MaxIdle
    BY CallAssumption DEF Init
  <2>2. /\ reused \in BOOLEAN /\ bytes \in BOOLEAN /\ writing \in BOOLEAN
        /\ lateWrite \in BOOLEAN /\ canceled \in BOOLEAN /\ sent \in BOOLEAN
    BY DEF Init
  <2>3. /\ kind \in Kinds /\ scheme \in Schemes /\ method = "POST" /\ pc = "getconn"
        /\ hop = FreshHop /\ call = [transmitted |-> FALSE, responded |-> FALSE]
        /\ dial = "none" /\ lateDial = "none" /\ outcome = <<>> /\ cause = "none"
    BY DEF Init
  <2>4. QED
    BY <1>1, <1>2, <2>1, <2>2, <2>3 DEF TypeOK, Phases
<1>4. QED
  BY <1>3, CallAssumption DEF Init, CallInv, SentIsOnRecord, WithinBudget, CallContract

\* What every step before the call returns has in common: the outcome is still
\* open.
LEMMA OpenStep ==
    ASSUME CallInv, TypeOK', UNCHANGED outcome, SentIsOnRecord', WithinBudget'
    PROVE  CallInv'
BY DEF CallInv, CallContract

\* Every step keeps the invariant.
LEMMA CallInvStep == CallInv /\ [Next]_vars => CallInv'
<1> SUFFICES ASSUME CallInv, [Next]_vars PROVE CallInv'
  OBVIOUS
<1> USE DEF CallInv
<1>1. CASE Reuse
  <2>1. TypeOK'
    BY <1>1, CallAssumption DEF Reuse, TypeOK
  <2>2. SentIsOnRecord'
    BY <1>1 DEF Reuse, TypeOK, SentIsOnRecord
  <2>3. WithinBudget'
    BY <1>1 DEF Reuse, WithinBudget, Open
  <2>4. QED
    BY <1>1, <2>1, <2>2, <2>3, OpenStep DEF Reuse
<1>2. CASE BeginDial
  <2>1. TypeOK'
    <3>1. hop' \in HopTrace
      BY <1>2, DialPathPhases, PhaseType DEF BeginDial, TypeOK
    <3>2. QED
      BY <1>2, <3>1, DialPathPhases DEF BeginDial, TypeOK
  <2>2. SentIsOnRecord'
    BY <1>2 DEF BeginDial, TypeOK, SentIsOnRecord
  <2>3. WithinBudget'
    BY <1>2 DEF BeginDial, WithinBudget, Open
  <2>4. QED
    BY <1>2, <2>1, <2>2, <2>3, OpenStep DEF BeginDial
<1>3. CASE DialSucceeds
  <2>1. TypeOK'
    <3>1. hop' \in HopTrace
      <4>1. hop' = [hop EXCEPT !.dialOK = TRUE] /\ hop \in HopTrace
        BY <1>3 DEF DialSucceeds, TypeOK
      <4>2. QED
        BY <4>1, HookType
    <3>2. reused' \in BOOLEAN
      BY <1>3 DEF DialSucceeds, TypeOK
    <3>3. /\ dial' = "over"
          /\ pc' \in {pc, "conn"}
          /\ UNCHANGED <<kind, scheme, method, followed, call, lateDial, idle, bytes,
                         writing, lateWrite, canceled, outcome, sent, cause>>
      BY <1>3 DEF DialSucceeds
    <3>4. QED
      BY <3>1, <3>2, <3>3 DEF TypeOK
  <2>2. SentIsOnRecord'
    BY <1>3 DEF DialSucceeds, TypeOK, SentIsOnRecord
  <2>3. WithinBudget'
    BY <1>3 DEF DialSucceeds, WithinBudget, Open
  <2>4. QED
    BY <1>3, <2>1, <2>2, <2>3, OpenStep DEF DialSucceeds
<1>4. CASE Wrote
  <2>1. TypeOK'
    <3>1. /\ hop' = [hop EXCEPT !.wrote = TRUE] /\ hop \in HopTrace
          /\ call' = [call EXCEPT !.transmitted = TRUE] /\ call \in CallTrace
          /\ writing' = FALSE
          /\ UNCHANGED <<kind, scheme, method, followed, pc, dial, lateDial, idle,
                         reused, bytes, lateWrite, canceled, outcome, sent, cause>>
      BY <1>4 DEF Wrote, TypeOK
    <3>2. hop' \in HopTrace
      BY <3>1, HookType
    <3>3. call' \in CallTrace
      BY <3>1, CallTraceType
    <3>4. writing' \in BOOLEAN
      BY <3>1
    <3>5. QED
      BY <3>1, <3>2, <3>3, <3>4 DEF TypeOK
  <2>2. SentIsOnRecord'
    BY <1>4 DEF Wrote, TypeOK, SentIsOnRecord
  <2>3. WithinBudget'
    BY <1>4 DEF Wrote, WithinBudget, Open
  <2>4. QED
    BY <1>4, <2>1, <2>2, <2>3, OpenStep DEF Wrote
<1>5. CASE LateWrote
  <2>1. TypeOK'
    <3>1. call' = [call EXCEPT !.transmitted = TRUE] /\ call \in CallTrace
      BY <1>5 DEF LateWrote, TypeOK
    <3>2. call' \in CallTrace
      BY <3>1, CallTraceType
    <3>3. lateWrite' \in BOOLEAN
      BY <1>5 DEF LateWrote
    <3>4. UNCHANGED <<kind, scheme, method, followed, pc, hop, dial, lateDial, idle,
                      reused, bytes, writing, canceled, outcome, sent, cause>>
      BY <1>5 DEF LateWrote
    <3>5. QED
      BY <3>2, <3>3, <3>4 DEF TypeOK
  <2>2. SentIsOnRecord'
    BY <1>5 DEF LateWrote, TypeOK, SentIsOnRecord
  <2>3. WithinBudget'
    BY <1>5 DEF LateWrote, WithinBudget, Open
  <2>4. QED
    BY <1>5, <2>1, <2>2, <2>3, OpenStep DEF LateWrote
<1>6. CASE ConnDies
  <2>1. TypeOK'
    BY <1>6 DEF ConnDies, TypeOK
  <2>2. SentIsOnRecord'
    BY <1>6 DEF ConnDies, TypeOK, SentIsOnRecord
  <2>3. WithinBudget'
    BY <1>6 DEF ConnDies, WithinBudget, Open
  <2>4. QED
    BY <1>6, <2>1, <2>2, <2>3, OpenStep DEF ConnDies
<1>7. CASE Resend
  <2>1. TypeOK'
    BY <1>7 DEF Resend, TypeOK, Phases
  <2>2. SentIsOnRecord'
    BY <1>7 DEF Resend, Resendable, TypeOK, SentIsOnRecord
  <2>3. WithinBudget'
    BY <1>7 DEF Resend, Resendable, WithinBudget, Open
  <2>4. QED
    BY <1>7, <2>1, <2>2, <2>3, OpenStep DEF Resend
<1>8. CASE GiveUp
  <2>1. TypeOK'
    BY <1>8 DEF GiveUp, TypeOK
  <2>2. SentIsOnRecord'
    BY <1>8 DEF GiveUp, TypeOK, SentIsOnRecord
  <2>3. WithinBudget'
    BY <1>8 DEF GiveUp, WithinBudget, Open
  <2>4. QED
    BY <1>8, <2>1, <2>2, <2>3, OpenStep DEF GiveUp
<1>9. CASE Cancel
  <2>1. TypeOK'
    BY <1>9 DEF Cancel, TypeOK
  <2>2. SentIsOnRecord'
    BY <1>9 DEF Cancel, TypeOK, SentIsOnRecord
  <2>3. WithinBudget'
    BY <1>9 DEF Cancel, WithinBudget, Open
  <2>4. QED
    BY <1>9, <2>1, <2>2, <2>3, OpenStep DEF Cancel
<1>10. CASE Redirected
  <2>1. TypeOK'
    <3>1. call' \in CallTrace
      <4>1. call' = [call EXCEPT !.responded = TRUE] /\ call \in CallTrace
        BY <1>10 DEF Redirected, TypeOK
      <4>2. QED
        BY <4>1, CallTraceType
    <3>2. QED
      BY <1>10, <3>1 DEF Redirected, TypeOK
  <2>2. SentIsOnRecord'
    BY <1>10 DEF Redirected, TypeOK, SentIsOnRecord
  <2>3. WithinBudget'
    BY <1>10 DEF Redirected, WithinBudget, Open
  <2>4. QED
    BY <1>10, <2>1, <2>2, <2>3, OpenStep DEF Redirected
<1>11. ASSUME NEW q \in Phases, EnterPhase(q) PROVE CallInv'
  <2>1. TypeOK'
    <3>1. hop' \in HopTrace
      BY <1>11, PhaseType DEF EnterPhase, TypeOK
    <3>2. QED
      BY <1>11, <3>1 DEF EnterPhase, TypeOK
  <2>2. SentIsOnRecord'
    BY <1>11 DEF EnterPhase, TypeOK, SentIsOnRecord
  <2>3. WithinBudget'
    BY <1>11 DEF EnterPhase, WithinBudget, Open
  <2>4. QED
    BY <1>11, <2>1, <2>2, <2>3, OpenStep DEF EnterPhase
<1>12. ASSUME NEW q \in Phases, LateDialEnters(q) PROVE CallInv'
  <2>1. TypeOK'
    <3>1. hop' \in HopTrace
      BY <1>12, PhaseType DEF LateDialEnters, TypeOK
    <3>2. QED
      BY <1>12, <3>1 DEF LateDialEnters, TypeOK
  <2>2. SentIsOnRecord'
    BY <1>12 DEF LateDialEnters, TypeOK, SentIsOnRecord
  <2>3. WithinBudget'
    BY <1>12 DEF LateDialEnters, WithinBudget, Open
  <2>4. QED
    BY <1>12, <2>1, <2>2, <2>3, OpenStep DEF LateDialEnters
<1>13. ASSUME NEW refused \in BOOLEAN, DialFails(refused) PROVE CallInv'
  <2>1. TypeOK'
    <3>1. hop' \in HopTrace
      <4>1. hop' = [hop EXCEPT !.phase = IF refused THEN "proxy_auth" ELSE hop.phase]
        BY <1>13 DEF DialFails
      <4>2. hop \in HopTrace
        BY DEF TypeOK
      <4>3. (IF refused THEN "proxy_auth" ELSE hop.phase) \in Phases
        BY <4>2 DEF HopTrace, Phases
      <4>4. QED
        BY <4>1, <4>2, <4>3, PhaseType
    <3>2. QED
      BY <1>13, <3>1 DEF DialFails, TypeOK, Phases
  <2>2. SentIsOnRecord'
    BY <1>13 DEF DialFails, TypeOK, SentIsOnRecord
  <2>3. WithinBudget'
    BY <1>13 DEF DialFails, WithinBudget, Open
  <2>4. QED
    BY <1>13, <2>1, <2>2, <2>3, OpenStep DEF DialFails
<1>14. ASSUME NEW ok \in BOOLEAN, LateDialEnds(ok) PROVE CallInv'
  <2>1. TypeOK'
    <3>1. hop' \in HopTrace
      <4>1. hop' = [hop EXCEPT !.dialOK = hop.dialOK \/ ok] /\ hop \in HopTrace
        BY <1>14 DEF LateDialEnds, TypeOK
      <4>2. (hop.dialOK \/ ok) \in BOOLEAN
        OBVIOUS
      <4>3. QED
        BY <4>1, <4>2, HookType
    <3>2. QED
      BY <1>14, <3>1 DEF LateDialEnds, TypeOK
  <2>2. SentIsOnRecord'
    BY <1>14 DEF LateDialEnds, TypeOK, SentIsOnRecord
  <2>3. WithinBudget'
    BY <1>14 DEF LateDialEnds, WithinBudget, Open
  <2>4. QED
    BY <1>14, <2>1, <2>2, <2>3, OpenStep DEF LateDialEnds
<1>15. ASSUME NEW some \in BOOLEAN, Write(some) PROVE CallInv'
  <2>1. TypeOK'
    BY <1>15 DEF Write, TypeOK
  <2>2. SentIsOnRecord'
    BY <1>15 DEF Write, TypeOK, SentIsOnRecord
  <2>3. WithinBudget'
    BY <1>15 DEF Write, WithinBudget, Open
  <2>4. QED
    BY <1>15, <2>1, <2>2, <2>3, OpenStep DEF Write
<1>16. ASSUME NEW s \in Schemes, NEW m \in {"POST", "GET"}, NextHop(s, m) PROVE CallInv'
  <2>1. TypeOK'
    <3>1. FreshHop \in HopTrace
      BY DEF FreshHop, HopTrace, Phases
    <3>2. followed' \in 0..(MaxRedirects + 1)
      BY <1>16, CallAssumption DEF NextHop, MayFollow, Hops, TypeOK
    <3>3. /\ lateWrite' \in BOOLEAN /\ writing' \in BOOLEAN
          /\ reused' \in BOOLEAN /\ bytes' \in BOOLEAN
      BY <1>16 DEF NextHop, MayFollow, Hops
    <3>4. /\ hop' = FreshHop /\ dial' = "none" /\ lateDial' = "none"
          /\ pc' = "getconn" /\ method' = m /\ scheme' = s
          /\ UNCHANGED <<kind, call, idle, canceled, outcome, sent, cause>>
      BY <1>16 DEF NextHop, MayFollow, Hops
    <3>5. QED
      BY <3>1, <3>2, <3>3, <3>4 DEF TypeOK, Phases
  <2>2. SentIsOnRecord'
    BY <1>16 DEF NextHop, MayFollow, Hops, TypeOK, SentIsOnRecord
  <2>3. WithinBudget'
    BY <1>16 DEF NextHop, MayFollow, Hops, WithinBudget, Open
  <2>4. QED
    BY <1>16, <2>1, <2>2, <2>3, OpenStep DEF NextHop, MayFollow, Hops
<1>17. ASSUME NEW post \in PostPhases, HopFails(post) PROVE CallInv'
  <2>1. outcome' \in CallOutcome /\ SoundOutcome(outcome')
    BY <1>17, FailedCallIsSound DEF HopFails, Fail, SentIsOnRecord, SoundOutcome
  <2>2. TypeOK'
    BY <1>17, <2>1 DEF HopFails, Fail, TypeOK
  <2>3. SentIsOnRecord' /\ WithinBudget'
    BY <1>17 DEF HopFails, Fail, SentIsOnRecord, WithinBudget, Open
  <2>4. QED
    BY <2>1, <2>2, <2>3 DEF CallContract
<1>18. CASE BadLocation
  <2>1. outcome' \in CallOutcome /\ SoundOutcome(outcome')
    BY <1>18, FailedCallIsSound DEF BadLocation, Fail, SentIsOnRecord, SoundOutcome, PostPhases
  <2>2. TypeOK'
    BY <1>18, <2>1 DEF BadLocation, Fail, TypeOK
  <2>3. SentIsOnRecord' /\ WithinBudget'
    BY <1>18 DEF BadLocation, Fail, SentIsOnRecord, WithinBudget, Open
  <2>4. QED
    BY <2>1, <2>2, <2>3 DEF CallContract
<1>19. CASE TooManyRedirects
  <2>1. outcome' \in CallOutcome /\ SoundOutcome(outcome')
    BY <1>19, FailedCallIsSound DEF TooManyRedirects, MayFollow, Hops, Fail, SentIsOnRecord, SoundOutcome, PostPhases
  <2>2. TypeOK'
    BY <1>19, <2>1, CallAssumption DEF TooManyRedirects, MayFollow, Hops, Fail, TypeOK, WithinBudget, Open
  <2>3. SentIsOnRecord' /\ WithinBudget'
    BY <1>19 DEF TooManyRedirects, MayFollow, Hops, Fail, SentIsOnRecord, WithinBudget, Open
  <2>4. QED
    BY <2>1, <2>2, <2>3 DEF CallContract
<1>20. ASSUME NEW refused \in BOOLEAN, Answered(refused) PROVE CallInv'
  <2>1. outcome' \in CallOutcome /\ SoundOutcome(outcome')
    BY <1>20, AnsweredCallIsSound DEF Answered, SoundOutcome, Intermediated
  <2>2. TypeOK'
    BY <1>20, <2>1 DEF Answered, TypeOK
  <2>3. SentIsOnRecord' /\ WithinBudget'
    BY <1>20 DEF Answered, SentIsOnRecord, WithinBudget, Open
  <2>4. QED
    BY <2>1, <2>2, <2>3 DEF CallContract
<1>21. CASE NoLocation
  <2>1. outcome' \in CallOutcome /\ SoundOutcome(outcome')
    BY <1>21, AnsweredCallIsSound DEF NoLocation, SoundOutcome, Intermediated
  <2>2. TypeOK'
    BY <1>21, <2>1 DEF NoLocation, TypeOK
  <2>3. SentIsOnRecord' /\ WithinBudget'
    BY <1>21 DEF NoLocation, SentIsOnRecord, WithinBudget, Open
  <2>4. QED
    BY <2>1, <2>2, <2>3 DEF CallContract
<1>22. CASE UNCHANGED vars
  BY <1>22 DEF vars, TypeOK, SentIsOnRecord, WithinBudget, Open, CallContract
<1>23. QED
  BY <1>1, <1>2, <1>3, <1>4, <1>5, <1>6, <1>7, <1>8, <1>9, <1>10, <1>11, <1>12, <1>13, <1>14, <1>15, <1>16, <1>17, <1>18, <1>19, <1>20, <1>21, <1>22
     DEF Next, TransportStep, ClientStep

\* The invariant always holds.
THEOREM CallInvariant == Spec => []CallInv
  BY CallInvInit, CallInvStep, PTL DEF Spec

\* A failure that authorises a replay is reported only for a call that put no
\* request byte on a connection (Failure.ReplaySafe, issue #60), whatever
\* hops, pooled connections, early answers and late hooks the call met.
THEOREM ContractHolds == Spec => []CallContract
  BY CallInvariant, PTL DEF CallInv

-----------------------------------------------------------------------------
\* What the hooks write into a hop's trace leaves its other fields alone.
LEMMA HopFields ==
    ASSUME NEW h \in HopTrace, NEW b \in BOOLEAN, NEW p
    PROVE  /\ [h EXCEPT !.phase = p].dialed = h.dialed
           /\ [h EXCEPT !.phase = p].wrote = h.wrote
           /\ [h EXCEPT !.dialOK = b].dialed = h.dialed
           /\ [h EXCEPT !.dialOK = b].wrote = h.wrote
           /\ [h EXCEPT !.wrote = TRUE].dialed = h.dialed
           /\ [h EXCEPT !.wrote = TRUE].wrote
           /\ [h EXCEPT !.dialed = TRUE, !.phase = p].dialed
           /\ [h EXCEPT !.dialed = TRUE, !.phase = p].wrote = h.wrote
BY DEF HopTrace

\* The same for the call's record.
LEMMA CallFields ==
    ASSUME NEW c \in CallTrace
    PROVE  /\ [c EXCEPT !.transmitted = TRUE].responded = c.responded
           /\ [c EXCEPT !.responded = TRUE].transmitted = c.transmitted
BY DEF CallTrace

\* A call that has not returned has nothing to report.
LEMMA NothingToReport ==
    ASSUME FailedDialIsKnown, Open, UNCHANGED outcome
    PROVE  /\ UnsentDialFailureMoves'
           /\ (outcome # <<>> => pc = "returned")'
BY DEF FailedDialIsKnown, Open, UnsentDialFailureMoves

\* Every step keeps what the record and the outcome say of an unsent request.
LEMMA DialInvStep == CallInv /\ DialInv /\ [Next]_vars => DialInv'
<1> SUFFICES ASSUME TypeOK, RecordIsOfSent, FailedDialIsKnown, UnsentDialFailureMoves, [Next]_vars
             PROVE  DialInv'
  BY DEF CallInv, DialInv
<1>0. hop \in HopTrace /\ call \in CallTrace
  BY DEF TypeOK
<1>1. ASSUME Reuse PROVE DialInv'
  <2>1. Open /\ UNCHANGED outcome
    BY <1>1 DEF Reuse, Open
  <2>2. RecordIsOfSent'
    BY <1>0, <1>1, HopFields, CallFields DEF Reuse, RecordIsOfSent
  <2>3. FailedDialIsKnown'
    BY <1>0, <1>1, <2>1, HopFields, NothingToReport DEF Reuse, FailedDialIsKnown
  <2>4. QED
    BY <2>1, <2>2, <2>3, NothingToReport DEF DialInv
<1>2. ASSUME BeginDial PROVE DialInv'
  <2>1. Open /\ UNCHANGED outcome
    BY <1>2 DEF BeginDial, Open
  <2>2. RecordIsOfSent'
    BY <1>0, <1>2, HopFields, CallFields DEF BeginDial, RecordIsOfSent
  <2>3. FailedDialIsKnown'
    BY <1>0, <1>2, <2>1, HopFields, NothingToReport DEF BeginDial, FailedDialIsKnown
  <2>4. QED
    BY <2>1, <2>2, <2>3, NothingToReport DEF DialInv
<1>3. ASSUME DialSucceeds PROVE DialInv'
  <2>1. Open /\ UNCHANGED outcome
    BY <1>3 DEF DialSucceeds, Open
  <2>2. RecordIsOfSent'
    BY <1>0, <1>3, HopFields, CallFields DEF DialSucceeds, RecordIsOfSent
  <2>3. FailedDialIsKnown'
    BY <1>0, <1>3, <2>1, HopFields, NothingToReport DEF DialSucceeds, FailedDialIsKnown
  <2>4. QED
    BY <2>1, <2>2, <2>3, NothingToReport DEF DialInv
<1>4. ASSUME Wrote PROVE DialInv'
  <2>1. Open /\ UNCHANGED outcome
    BY <1>4 DEF Wrote, Open
  <2>2. RecordIsOfSent'
    BY <1>0, <1>4, HopFields, CallFields DEF Wrote, RecordIsOfSent
  <2>3. FailedDialIsKnown'
    BY <1>0, <1>4, <2>1, HopFields, NothingToReport DEF Wrote, FailedDialIsKnown
  <2>4. QED
    BY <2>1, <2>2, <2>3, NothingToReport DEF DialInv
<1>5. ASSUME LateWrote PROVE DialInv'
  <2>1. Open /\ UNCHANGED outcome
    BY <1>5 DEF LateWrote, Open
  <2>2. RecordIsOfSent'
    BY <1>0, <1>5, HopFields, CallFields DEF LateWrote, RecordIsOfSent
  <2>3. FailedDialIsKnown'
    BY <1>0, <1>5, <2>1, HopFields, NothingToReport DEF LateWrote, FailedDialIsKnown
  <2>4. QED
    BY <2>1, <2>2, <2>3, NothingToReport DEF DialInv
<1>6. ASSUME ConnDies PROVE DialInv'
  <2>1. Open /\ UNCHANGED outcome
    BY <1>6 DEF ConnDies, Open
  <2>2. RecordIsOfSent'
    BY <1>0, <1>6, HopFields, CallFields DEF ConnDies, RecordIsOfSent
  <2>3. FailedDialIsKnown'
    BY <1>0, <1>6, <2>1, HopFields, NothingToReport DEF ConnDies, FailedDialIsKnown
  <2>4. QED
    BY <2>1, <2>2, <2>3, NothingToReport DEF DialInv
<1>7. ASSUME Resend PROVE DialInv'
  <2>1. Open /\ UNCHANGED outcome
    BY <1>7 DEF Resend, Open, Resendable
  <2>2. RecordIsOfSent'
    BY <1>0, <1>7, HopFields, CallFields DEF Resend, RecordIsOfSent, Resendable
  <2>3. FailedDialIsKnown'
    BY <1>0, <1>7, <2>1, HopFields, NothingToReport DEF Resend, FailedDialIsKnown, Resendable
  <2>4. QED
    BY <2>1, <2>2, <2>3, NothingToReport DEF DialInv
<1>8. ASSUME GiveUp PROVE DialInv'
  <2>1. Open /\ UNCHANGED outcome
    BY <1>8 DEF GiveUp, Open
  <2>2. RecordIsOfSent'
    BY <1>0, <1>8, HopFields, CallFields DEF GiveUp, RecordIsOfSent
  <2>3. FailedDialIsKnown'
    BY <1>0, <1>8, <2>1, HopFields, NothingToReport DEF GiveUp, FailedDialIsKnown
  <2>4. QED
    BY <2>1, <2>2, <2>3, NothingToReport DEF DialInv
<1>9. ASSUME Cancel PROVE DialInv'
  <2>1. Open /\ UNCHANGED outcome
    BY <1>9 DEF Cancel, Open
  <2>2. RecordIsOfSent'
    BY <1>0, <1>9, HopFields, CallFields DEF Cancel, RecordIsOfSent
  <2>3. FailedDialIsKnown'
    BY <1>0, <1>9, <2>1, HopFields, NothingToReport DEF Cancel, FailedDialIsKnown
  <2>4. QED
    BY <2>1, <2>2, <2>3, NothingToReport DEF DialInv
<1>10. ASSUME Redirected PROVE DialInv'
  <2>1. Open /\ UNCHANGED outcome
    BY <1>10 DEF Redirected, Open
  <2>2. RecordIsOfSent'
    BY <1>0, <1>10, HopFields, CallFields DEF Redirected, RecordIsOfSent
  <2>3. FailedDialIsKnown'
    BY <1>0, <1>10, <2>1, HopFields, NothingToReport DEF Redirected, FailedDialIsKnown
  <2>4. QED
    BY <2>1, <2>2, <2>3, NothingToReport DEF DialInv
<1>11. ASSUME NEW q \in Phases, EnterPhase(q) PROVE DialInv'
  <2>1. Open /\ UNCHANGED outcome
    BY <1>11 DEF EnterPhase, Open
  <2>2. RecordIsOfSent'
    BY <1>0, <1>11, HopFields, CallFields DEF EnterPhase, RecordIsOfSent
  <2>3. FailedDialIsKnown'
    BY <1>0, <1>11, <2>1, HopFields, NothingToReport DEF EnterPhase, FailedDialIsKnown
  <2>4. QED
    BY <2>1, <2>2, <2>3, NothingToReport DEF DialInv
<1>12. ASSUME NEW q \in Phases, LateDialEnters(q) PROVE DialInv'
  <2>1. Open /\ UNCHANGED outcome
    BY <1>12 DEF LateDialEnters, Open
  <2>2. RecordIsOfSent'
    BY <1>0, <1>12, HopFields, CallFields DEF LateDialEnters, RecordIsOfSent
  <2>3. FailedDialIsKnown'
    BY <1>0, <1>12, <2>1, HopFields, NothingToReport DEF LateDialEnters, FailedDialIsKnown
  <2>4. QED
    BY <2>1, <2>2, <2>3, NothingToReport DEF DialInv
<1>13. ASSUME NEW refused \in BOOLEAN, DialFails(refused) PROVE DialInv'
  <2>1. Open /\ UNCHANGED outcome
    BY <1>13 DEF DialFails, Open
  <2>2. RecordIsOfSent'
    BY <1>0, <1>13, HopFields, CallFields DEF DialFails, RecordIsOfSent
  <2>3. FailedDialIsKnown'
    BY <1>0, <1>13, <2>1, HopFields, NothingToReport DEF DialFails, FailedDialIsKnown
  <2>4. QED
    BY <2>1, <2>2, <2>3, NothingToReport DEF DialInv
<1>14. ASSUME NEW ok \in BOOLEAN, LateDialEnds(ok) PROVE DialInv'
  <2>1. Open /\ UNCHANGED outcome
    BY <1>14 DEF LateDialEnds, Open
  <2>2. RecordIsOfSent'
    BY <1>0, <1>14, HopFields, CallFields DEF LateDialEnds, RecordIsOfSent
  <2>3. FailedDialIsKnown'
    BY <1>0, <1>14, <2>1, HopFields, NothingToReport DEF LateDialEnds, FailedDialIsKnown
  <2>4. QED
    BY <2>1, <2>2, <2>3, NothingToReport DEF DialInv
<1>15. ASSUME NEW some \in BOOLEAN, Write(some) PROVE DialInv'
  <2>1. Open /\ UNCHANGED outcome
    BY <1>15 DEF Write, Open
  <2>2. RecordIsOfSent'
    BY <1>0, <1>15, HopFields, CallFields DEF Write, RecordIsOfSent
  <2>3. FailedDialIsKnown'
    BY <1>0, <1>15, <2>1, HopFields, NothingToReport DEF Write, FailedDialIsKnown
  <2>4. QED
    BY <2>1, <2>2, <2>3, NothingToReport DEF DialInv
<1>16. ASSUME NEW s \in Schemes, NEW m \in {"POST", "GET"}, NextHop(s, m) PROVE DialInv'
  <2>1. Open /\ UNCHANGED outcome
    BY <1>16 DEF NextHop, Open
  <2>2. RecordIsOfSent'
    BY <1>0, <1>16, HopFields, CallFields DEF NextHop, RecordIsOfSent
  <2>3. FailedDialIsKnown'
    BY <1>0, <1>16, <2>1, HopFields, NothingToReport DEF NextHop, FailedDialIsKnown
  <2>4. QED
    BY <2>1, <2>2, <2>3, NothingToReport DEF DialInv
<1>17. ASSUME NEW post \in PostPhases, HopFails(post) PROVE DialInv'
  <2>1. /\ pc = "error" /\ pc' = "returned" /\ cause' = cause
        /\ outcome' = [ok |-> FALSE, failure |-> TransportFailure(post), sent |-> sent]
        /\ UNCHANGED <<hop, call, bytes, lateWrite, sent>>
    BY <1>17 DEF HopFails, Fail
  <2>2. RecordIsOfSent'
    BY <2>1 DEF RecordIsOfSent
  <2>3. FailedDialIsKnown'
    BY <2>1 DEF FailedDialIsKnown
  <2>4. ASSUME cause = "dial", ~sent, ~hop.wrote
        PROVE  TransportFailure(post) = CanceledFailure \/ ReplaySafe(TransportFailure(post))
    <3>1. ~InheritCall
      BY <2>4 DEF InheritCall, RecordIsOfSent
    <3>2. HopState = "not_sent"
      BY <2>4, <3>1 DEF HopState, FailedDialIsKnown
    <3>3. QED
      BY <3>2 DEF TransportFailure, ReplaySafe
  <2>5. UnsentDialFailureMoves'
    BY <2>1, <2>4 DEF UnsentDialFailureMoves
  <2>6. QED
    BY <2>2, <2>3, <2>5 DEF DialInv
<1>18. ASSUME NEW refused \in BOOLEAN, Answered(refused) PROVE DialInv'
  <2>1. /\ pc' = "returned" /\ cause' # "dial"
        /\ UNCHANGED <<hop, call, bytes, lateWrite, sent>>
    BY <1>18 DEF Answered
  <2>2. RecordIsOfSent'
    BY <2>1 DEF RecordIsOfSent
  <2>3. QED
    BY <2>1, <2>2 DEF DialInv, FailedDialIsKnown, UnsentDialFailureMoves
<1>19. ASSUME NoLocation PROVE DialInv'
  <2>1. /\ pc' = "returned" /\ cause' # "dial"
        /\ UNCHANGED <<hop, call, bytes, lateWrite, sent>>
    BY <1>19 DEF NoLocation
  <2>2. RecordIsOfSent'
    BY <2>1 DEF RecordIsOfSent
  <2>3. QED
    BY <2>1, <2>2 DEF DialInv, FailedDialIsKnown, UnsentDialFailureMoves
<1>20. ASSUME BadLocation PROVE DialInv'
  <2>1. /\ pc' = "returned" /\ cause' # "dial"
        /\ UNCHANGED <<hop, call, bytes, lateWrite, sent>>
    BY <1>20 DEF BadLocation, Fail
  <2>2. RecordIsOfSent'
    BY <2>1 DEF RecordIsOfSent
  <2>3. QED
    BY <2>1, <2>2 DEF DialInv, FailedDialIsKnown, UnsentDialFailureMoves
<1>21. ASSUME TooManyRedirects PROVE DialInv'
  <2>1. /\ pc' = "returned" /\ cause' # "dial"
        /\ UNCHANGED <<hop, call, bytes, lateWrite, sent>>
    BY <1>21 DEF TooManyRedirects, Fail
  <2>2. RecordIsOfSent'
    BY <2>1 DEF RecordIsOfSent
  <2>3. QED
    BY <2>1, <2>2 DEF DialInv, FailedDialIsKnown, UnsentDialFailureMoves
<1>22. ASSUME UNCHANGED vars PROVE DialInv'
  BY <1>22 DEF vars, DialInv, RecordIsOfSent, FailedDialIsKnown, UnsentDialFailureMoves
<1>23. QED
  BY <1>1, <1>2, <1>3, <1>4, <1>5, <1>6, <1>7, <1>8, <1>9, <1>10, <1>11, <1>12, <1>13,
     <1>14, <1>15, <1>16, <1>17, <1>18, <1>19, <1>20, <1>21, <1>22
  DEF Next, TransportStep, ClientStep

\* A dial that failed before anything was written always lets the request move
\* to the next egress (provenance.go, dialTrace.provenance): no redirect, late
\* dial or late write turns it into a failure that forbids the replay.
THEOREM UnsentMoves == Spec => []UnsentDialFailureMoves
<1>1. Init => DialInv
  BY DEF Init, DialInv, RecordIsOfSent, FailedDialIsKnown, UnsentDialFailureMoves
<1>2. DialInv => UnsentDialFailureMoves
  BY DEF DialInv
<1>3. QED
  BY <1>1, <1>2, DialInvStep, CallInvariant, PTL DEF Spec

=============================================================================
