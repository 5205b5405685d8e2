--------------------------- MODULE ExecutorProofs ---------------------------
(***************************************************************************)
(* The executor, for any number of requests and egresses and any policies: *)
(* its types, that a request is transmitted at most once, that it          *)
(* implements Delivery, how far a walk goes, what its evidence rows say,   *)
(* and that slots are given back exactly once.                             *)
(***************************************************************************)
EXTENDS Executor, TLAPS, SequenceTheorems, FiniteSetTheorems

-----------------------------------------------------------------------------
(***************************************************************************)
(* The inductive invariant.                                                *)
(***************************************************************************)

\* From the moment an egress is selected until the request is answered, sel is
\* a real egress: the caps, the health key and the evidence rows read it.
InHand ==
    \A r \in Requests :
        pc[r] \in {"resolve", "acquire", "dial", "call", "settle", "stream",
                   "closing", "closed"} => sel[r] \in Egresses

\* A request whose bytes may be out never selects or dials again: it is being
\* settled with a verdict that forbids the replay, or it is answered.
SentIsFinal ==
    \A r \in Requests :
        sentOn[r] # {} =>
            /\ pc[r] \in {"settle", "stream", "closing", "closed", "done"}
            /\ pc[r] = "settle" => ~ReplaySafe(verdict[r])

ExecInv == ExecTypeOK /\ InHand /\ SentIsFinal /\ AtMostOneTransmission

\* The cursor only moves forward over a plan without repetition: what was
\* dialed lies behind it, and the egress in hand is the last entry it passed.
BehindTheCursor(r) ==
    /\ \A i, j \in 1..Len(plan[r]) : plan[r][i] = plan[r][j] => i = j
    /\ \A e \in dialed[r] : \E i \in 1..Len(plan[r]) : i < pos[r] /\ plan[r][i] = e
    /\ pc[r] \in {"resolve", "acquire", "dial"} => sel[r] \notin dialed[r]
    /\ pc[r] \in {"resolve", "acquire", "dial"} =>
          \E i \in 1..Len(plan[r]) : pos[r] = i + 1 /\ sel[r] = plan[r][i]

\* Each attempt is one more egress, and while the walk looks for the next one
\* the budget still has room for it.
DialsAreCounted(r) ==
    /\ Cardinality(dialed[r]) = IF pc[r] = "dial" THEN attempts[r] - 1 ELSE attempts[r]
    /\ attempts[r] <= Budget(policy[r])
    /\ pc[r] \in {"select", "resolve", "acquire"} => attempts[r] < Budget(policy[r])

\* Why a walk without a response ended; a response is never replayed.
EndsForAReason(r) ==
    /\ pc[r] = "tail" => pos[r] > Len(plan[r]) \/ ~policy[r].fallback
    /\ pc[r] \in {"stream", "closing", "closed"} => ~ReplaySafe(verdict[r])
    /\ pc[r] = "done" /\ ReplaySafe(verdict[r]) =>
          \/ attempts[r] >= Budget(policy[r])
          \/ pos[r] > Len(plan[r])
          \/ ~policy[r].fallback

WalkInv ==
    \A r \in Requests : BehindTheCursor(r) /\ DialsAreCounted(r) /\ EndsForAReason(r)

\* What a row says while the request is still walking.  Only the row of the
\* attempt in hand may be undecided, and only the row terminalRow names may
\* announce a fallback that has not been dialed yet.
RowIsTrue(r, i) ==
    /\ rows[r][i].attempt <= attempts[r]
    /\ pc[r] \in {"dial", "call", "stream", "closing", "closed"} =>
          rows[r][i].attempt < attempts[r]
    /\ pc[r] = "settle" /\ i # Len(rows[r]) => rows[r][i].attempt < attempts[r]
    /\ rows[r][i].kind = "dial" /\ rows[r][i].fallback = "none" =>
          pc[r] = "settle" /\ rows[r][i].attempt = attempts[r]
    /\ rows[r][i].fallback = "stop" => pc[r] = "done" /\ rows[r][i].attempt = attempts[r]
    /\ rows[r][i].fallback = "fallback" /\ rows[r][i].attempt = attempts[r] =>
          /\ pc[r] \in {"select", "resolve", "acquire", "tail"}
          /\ i = terminalRow[r]
          /\ attempts[r] > 0

\* terminalRow names a row of the last attempt for as long as the walk may
\* still end without another one.
RowsAreTrue(r) ==
    /\ \A i \in 1..Len(rows[r]) : RowIsTrue(r, i)
    /\ pc[r] \in {"dial", "call", "settle"} => attempts[r] > 0
    /\ pc[r] \in {"select", "resolve", "acquire", "tail"} /\ terminalRow[r] > 0 =>
          /\ terminalRow[r] <= Len(rows[r])
          /\ rows[r][terminalRow[r]].attempt = attempts[r]

RowsInv == \A r \in Requests : RowsAreTrue(r)

\* A slot that rides a response is given back by the first close: not before,
\* and never again.
FreedByClose ==
    \A r \in Requests :
        /\ pc[r] \in {"select", "resolve", "acquire", "dial", "call", "settle", "stream"} =>
              ~freed[r]
        /\ pc[r] = "closed" => freed[r]

\* Every generation caps an egress, or none does.
CappedAlike ==
    \A e \in Egresses : \/ \A p \in Policies : p.cap[e] > 0
                        \/ \A p \in Policies : p.cap[e] = 0

-----------------------------------------------------------------------------
(***************************************************************************)
(* The operators the actions are built from.                               *)
(***************************************************************************)

\* A plan is a sequence of egresses.
LEMMA PlanType == Plans \subseteq Seq(Egresses)
<1>1. Cardinality(Egresses) \in Nat
  BY FS_CardinalityType, ExecutorAssumption
<1>2. SUFFICES ASSUME NEW s \in Plans PROVE s \in Seq(Egresses)
  OBVIOUS
<1>3. PICK n \in 0..Cardinality(Egresses) : s \in [1..n -> Egresses]
  BY DEF Plans
<1>4. n \in Nat
  BY <1>1
<1>5. QED
  BY <1>3, <1>4

\* A policy's parts have the types the executor reads them at.
LEMMA PolicyType ==
    ASSUME NEW p \in Policies
    PROVE  /\ p \in AttemptPolicy
           /\ p.health \in HealthPolicy
           /\ p.cap \in [Egresses -> Nat]
           /\ p.key \in [Egresses -> Keys]
BY ExecutorAssumption DEF AttemptPolicy

\* Observing and ageing a health state keep its type.
LEMMA HealthType ==
    ASSUME NEW s \in HealthState
    PROVE  /\ \A ok \in BOOLEAN, p \in HealthPolicy : Observed(s, ok, p) \in HealthState
           /\ Elapsed(s) \in HealthState
<1>1. ASSUME NEW ok \in BOOLEAN, NEW p \in HealthPolicy
      PROVE  Observed(s, ok, p) \in HealthState
  BY DEF Observed, HealthState, HealthPolicy, Cooling
<1>2. Elapsed(s) \in HealthState
  BY DEF Elapsed, HealthState, Cooling
<1>3. QED
  BY <1>1, <1>2

\* Every limiter operation keeps the table's type.
LEMMA LimiterType ==
    ASSUME NEW t \in [Egresses -> Nat], NEW e \in Egresses, NEW max
    PROVE  Acquired(t, e, max) \in [Egresses -> Nat] /\ Released(t, e) \in [Egresses -> Nat]
BY DEF Acquired, Released

\* Appending to, and stamping, the evidence rows keep them rows.
LEMMA RecordedType ==
    ASSUME NEW rs \in Seq(Row), NEW row \in Row
    PROVE  Recorded(rs, row) \in Seq(Row)
BY DEF Recorded

\* Stamping a decision on a row, or on none.
LEMMA StampedType ==
    ASSUME rows \in [Requests -> Seq(Row)], NEW r \in Requests, NEW i \in Nat,
           NEW d \in {"fallback", "stop"}
    PROVE  Stamp(r, i, d) \in [Requests -> Seq(Row)]
<1> DEFINE s == rows[r]
           t == [s EXCEPT ![i].fallback = d]
<1>1. CASE i = 0
  BY <1>1 DEF Stamp
<1>2. CASE i # 0
  <2>1. s \in [1..Len(s) -> Row] /\ Len(s) \in Nat
    BY LenProperties
  <2>2. t \in [1..Len(s) -> Row]
    <3>1. ASSUME NEW j \in 1..Len(s) PROVE [s[j] EXCEPT !.fallback = d] \in Row
      BY <2>1 DEF Row
    <3>2. QED
      BY <2>1, <3>1
  <2>3. t \in Seq(Row)
    BY <2>1, <2>2
  <2>4. QED
    BY <1>2, <2>3 DEF Stamp
<1>3. QED
  BY <1>1, <1>2

-----------------------------------------------------------------------------
(***************************************************************************)
(* Type correctness.                                                       *)
(***************************************************************************)

\* The initial state is well typed.
LEMMA TypeInit == ExecInit => ExecTypeOK /\ InHand
<1> SUFFICES ASSUME ExecInit PROVE ExecTypeOK /\ InHand
  OBVIOUS
<1> USE DEF ExecInit
<1>1. NoDialFailure \in Failure
  BY DEF NoDialFailure, Failure, Origins, Phases, RequestStates
<1>2. Unknown \in HealthState
  BY DEF Unknown, HealthState
<1>3. /\ [r \in Requests |-> <<>>] \in [Requests -> Seq(Egresses)]
      /\ [r \in Requests |-> <<>>] \in [Requests -> Seq(Row)]
  BY EmptySeq
<1>4. ExecTypeOK
  BY <1>1, <1>2, <1>3 DEF ExecTypeOK, PCs
<1>5. InHand
  BY DEF InHand
<1>6. QED
  BY <1>4, <1>5

\* A skipped entry leaves a well-typed row.
LEMMA SkipStep ==
    ASSUME ExecTypeOK, InHand, NEW r \in Requests, Skip(r), pc[r] \in {"resolve", "acquire"}
    PROVE  ExecTypeOK' /\ InHand'
<1>1. SkipRow(r) \in Row
  BY DEF SkipRow, Row, InHand
<1>2. Recorded(rows[r], SkipRow(r)) \in Seq(Row)
  BY <1>1, RecordedType DEF ExecTypeOK
<1>3. rows' \in [Requests -> Seq(Row)]
  BY <1>2 DEF Skip, ExecTypeOK
<1>4. ExecTypeOK'
  BY <1>3 DEF Skip, ExecTypeOK, PCs
<1>5. InHand'
  BY DEF Skip, ExecTypeOK, InHand
<1>6. QED
  BY <1>4, <1>5

\* A call that returned leaves its verdict, and what it sent is an attempt.
LEMMA OutcomeType ==
    ASSUME ExecTypeOK, NEW r \in Requests, NEW o \in Outcomes
    PROVE  o.failure \in Failure /\ Sent(r, o) \in SUBSET Nat
BY ExecutorAssumption DEF SoundOutcome, CallOutcome, Sent, ExecTypeOK

\* Every action keeps the types, and an egress in hand.
LEMMA TypeStep ==
    ASSUME ExecTypeOK, InHand, [ExecNext]_execVars
    PROVE  ExecTypeOK' /\ InHand'
<1> USE DEF PCs
<1>1. ASSUME NEW r \in Requests, NEW pl \in Plans, NEW pol \in Policies, Start(r, pl, pol)
      PROVE  ExecTypeOK' /\ InHand'
  <2>1. NoDialFailure \in Failure
    BY DEF NoDialFailure, Failure, Origins, Phases, RequestStates
  <2>2. pl \in Seq(Egresses) /\ <<>> \in Seq(Row)
    BY PlanType
  <2>3. ExecTypeOK'
    BY <1>1, <2>1, <2>2 DEF Start, ExecTypeOK
  <2>4. InHand'
    BY <1>1 DEF Start, ExecTypeOK, InHand
  <2>5. QED
    BY <2>3, <2>4
<1>2. ASSUME NEW r \in Requests, Select(r)
      PROVE  ExecTypeOK' /\ InHand'
  <2>1. Len(plan[r]) \in Nat /\ \A i \in 1..Len(plan[r]) : plan[r][i] \in Egresses
    BY ElementOfSeq, LenProperties DEF ExecTypeOK
  <2>2. CASE \E i \in pos[r]..Len(plan[r]) :
                /\ Offers(r, i)
                /\ sel' = [sel EXCEPT ![r] = plan[r][i]]
                /\ pos' = [pos EXCEPT ![r] = i + 1]
                /\ pc' = [pc EXCEPT ![r] = "resolve"]
    <3>1. PICK i \in pos[r]..Len(plan[r]) :
                /\ sel' = [sel EXCEPT ![r] = plan[r][i]]
                /\ pos' = [pos EXCEPT ![r] = i + 1]
                /\ pc' = [pc EXCEPT ![r] = "resolve"]
      BY <2>2
    <3>2. i \in Nat /\ plan[r][i] \in Egresses
      BY <2>1 DEF ExecTypeOK
    <3>3. UNCHANGED <<plan, policy, prev, attempts, verdict, rows, terminalRow,
                      occupancy, closes, freed, cur, states, dialed, sentOn>>
      BY <1>2 DEF Select
    <3>4. ExecTypeOK'
      <4>1. /\ sel' \in [Requests -> Egresses \cup {NoEgress}]
            /\ pos' \in [Requests -> Nat \ {0}]
            /\ pc' \in [Requests -> PCs]
        BY <3>1, <3>2 DEF ExecTypeOK
      <4>2. QED
        BY <3>3, <4>1 DEF ExecTypeOK
    <3>5. InHand'
      BY <3>1, <3>2, <3>3 DEF ExecTypeOK, InHand
    <3>6. QED
      BY <3>4, <3>5
  <2>3. CASE ~ \E i \in pos[r]..Len(plan[r]) :
                /\ Offers(r, i)
                /\ sel' = [sel EXCEPT ![r] = plan[r][i]]
                /\ pos' = [pos EXCEPT ![r] = i + 1]
                /\ pc' = [pc EXCEPT ![r] = "resolve"]
    <3>1. /\ pos' = [pos EXCEPT ![r] = IF pos[r] > Len(plan[r]) THEN pos[r] ELSE Len(plan[r]) + 1]
          /\ pc' = [pc EXCEPT ![r] = "tail"]
          /\ UNCHANGED <<plan, policy, prev, sel, attempts, verdict, rows, terminalRow,
                         occupancy, closes, freed, cur, states, dialed, sentOn>>
      BY <1>2, <2>3 DEF Select
    <3>2. pos' \in [Requests -> Nat \ {0}]
      BY <2>1, <3>1 DEF ExecTypeOK
    <3>3. ExecTypeOK'
      BY <3>1, <3>2 DEF ExecTypeOK
    <3>4. InHand'
      BY <3>1 DEF ExecTypeOK, InHand
    <3>5. QED
      BY <3>3, <3>4
  <2>4. QED
    BY <2>2, <2>3
<1>3. ASSUME NEW r \in Requests, ResolveFails(r)
      PROVE  ExecTypeOK' /\ InHand'
  BY <1>3, SkipStep DEF ResolveFails
<1>4. ASSUME NEW r \in Requests, Resolve(r)
      PROVE  ExecTypeOK' /\ InHand'
  BY <1>4 DEF Resolve, ExecTypeOK, InHand
<1>5. ASSUME NEW r \in Requests, AcquireFails(r)
      PROVE  ExecTypeOK' /\ InHand'
  BY <1>5, SkipStep DEF AcquireFails
<1>6. ASSUME NEW r \in Requests, Acquire(r)
      PROVE  ExecTypeOK' /\ InHand'
  <2>1. cur' \in [Egresses -> Nat]
    BY <1>6, LimiterType DEF Acquire, ExecTypeOK, InHand
  <2>2. QED
    BY <1>6, <2>1 DEF Acquire, ExecTypeOK, InHand
<1>7. ASSUME NEW r \in Requests, Dial(r)
      PROVE  ExecTypeOK' /\ InHand'
  <2>1. sel[r] \in Egresses /\ cur[sel[r]] \in Nat
    BY <1>7 DEF Dial, ExecTypeOK, InHand
  <2>2. (IF policy[r].cap[sel[r]] > 0 THEN InFlight(cur, sel[r]) ELSE 0) \in Nat
    BY <2>1 DEF InFlight
  <2>3. QED
    BY <1>7, <2>1, <2>2 DEF Dial, ExecTypeOK, InHand
<1>8. ASSUME NEW r \in Requests, NEW o \in Outcomes, CallFails(r, o)
      PROVE  ExecTypeOK' /\ InHand'
  <2>1. o.failure \in Failure /\ Sent(r, o) \in SUBSET Nat
    BY OutcomeType
  <2>2. sel[r] \in Egresses
    BY <1>8 DEF CallFails, InHand
  <2>3. DialRow(r) \in Row
    BY <2>2 DEF DialRow, Row, ExecTypeOK
  <2>4. Recorded(rows[r], DialRow(r)) \in Seq(Row)
    BY <2>3, RecordedType DEF ExecTypeOK
  <2>5. cur' \in [Egresses -> Nat]
    BY <1>8, <2>2, LimiterType DEF CallFails, ExecTypeOK
  <2>6. ExecTypeOK'
    BY <1>8, <2>1, <2>4, <2>5 DEF CallFails, ExecTypeOK
  <2>7. InHand'
    BY <1>8, <2>2 DEF CallFails, ExecTypeOK, InHand
  <2>8. QED
    BY <2>6, <2>7
<1>9. ASSUME NEW r \in Requests, NEW o \in Outcomes, CallSucceeds(r, o)
      PROVE  ExecTypeOK' /\ InHand'
  <2>1. o.failure \in Failure /\ Sent(r, o) \in SUBSET Nat
    BY OutcomeType
  <2>2. states' \in [Keys -> HealthState]
    BY <1>9, HealthType, PolicyType DEF CallSucceeds, ExecTypeOK
  <2>3. ExecTypeOK'
    BY <1>9, <2>1, <2>2 DEF CallSucceeds, ExecTypeOK
  <2>4. InHand'
    BY <1>9 DEF CallSucceeds, ExecTypeOK, InHand
  <2>5. QED
    BY <2>3, <2>4
<1>10. ASSUME NEW r \in Requests, Settle(r)
       PROVE  ExecTypeOK' /\ InHand'
  <2>1. states' \in [Keys -> HealthState]
    BY <1>10, HealthType, PolicyType DEF Settle, ExecTypeOK
  <2>2. StampedRow(r) \in Nat
    BY LenProperties DEF StampedRow, ExecTypeOK
  <2>3. rows' \in [Requests -> Seq(Row)]
    BY <1>10, <2>2, StampedType DEF Settle, ExecTypeOK
  <2>4. sel[r] \in Egresses
    BY <1>10 DEF Settle, InHand
  <2>5. /\ terminalRow' = [terminalRow EXCEPT ![r] = IF Moves(r) THEN StampedRow(r) ELSE @]
        /\ prev' = [prev EXCEPT ![r] = IF Moves(r) THEN sel[r] ELSE @]
        /\ pc' = [pc EXCEPT ![r] = IF Moves(r) THEN "select" ELSE "done"]
        /\ UNCHANGED <<plan, policy, pos, sel, attempts, verdict, occupancy, closes,
                       freed, cur, dialed, sentOn>>
    BY <1>10 DEF Settle
  <2>6. ExecTypeOK'
    BY <2>1, <2>2, <2>3, <2>4, <2>5 DEF ExecTypeOK
  <2>7. InHand'
    BY <2>5 DEF ExecTypeOK, InHand
  <2>8. QED
    BY <2>6, <2>7
<1>11. ASSUME NEW r \in Requests, PlanExhausted(r)
       PROVE  ExecTypeOK' /\ InHand'
  <2>1. rows' \in [Requests -> Seq(Row)]
    BY <1>11, StampedType DEF PlanExhausted, ExecTypeOK
  <2>2. QED
    BY <1>11, <2>1 DEF PlanExhausted, ExecTypeOK, InHand
<1>12. ASSUME NEW r \in Requests, CloseBody(r)
       PROVE  ExecTypeOK' /\ InHand'
  <2>1. closes[r] + 1 \in 0..2
    <3>1. closes[r] \in 0..2
      BY DEF ExecTypeOK
    <3>2. closes[r] < 2
      BY <1>12 DEF CloseBody
    <3>3. QED
      BY <3>1, <3>2
  <2>2. closes' = [closes EXCEPT ![r] = closes[r] + 1]
    BY <1>12 DEF CloseBody
  <2>3. closes' \in [Requests -> 0..2]
    BY <2>1, <2>2 DEF ExecTypeOK
  <2>4. ExecTypeOK'
    BY <1>12, <2>3 DEF CloseBody, ExecTypeOK
  <2>5. InHand'
    BY <1>12 DEF CloseBody, ExecTypeOK, InHand
  <2>6. QED
    BY <2>4, <2>5
<1>13. ASSUME NEW r \in Requests, FreeSlot(r)
       PROVE  ExecTypeOK' /\ InHand'
  <2>1. cur' \in [Egresses -> Nat]
    BY <1>13, LimiterType DEF FreeSlot, ExecTypeOK, InHand
  <2>2. QED
    BY <1>13, <2>1 DEF FreeSlot, ExecTypeOK, InHand
<1>14. ASSUME NEW r \in Requests, Return(r)
       PROVE  ExecTypeOK' /\ InHand'
  BY <1>14 DEF Return, ExecTypeOK, InHand
<1>15. ASSUME Tick
       PROVE  ExecTypeOK' /\ InHand'
  <2>1. states' \in [Keys -> HealthState]
    <3>1. ASSUME NEW k \in Keys PROVE Elapsed(states[k]) \in HealthState
      BY HealthType DEF ExecTypeOK
    <3>2. QED
      BY <1>15, <3>1 DEF Tick
  <2>2. QED
    BY <1>15, <2>1 DEF Tick, localVars, ExecTypeOK, InHand
<1>16. ASSUME UNCHANGED execVars
       PROVE  ExecTypeOK' /\ InHand'
  BY <1>16 DEF execVars, localVars, ExecTypeOK, InHand
<1>17. QED
  BY <1>1, <1>2, <1>3, <1>4, <1>5, <1>6, <1>7, <1>8, <1>9, <1>10, <1>11, <1>12,
     <1>13, <1>14, <1>15, <1>16 DEF ExecNext, Walk, CallReturns

\* Every variable of the executor keeps its type, whatever the requests, the
\* egresses, the policies and the outcomes of their calls.
THEOREM TypeCorrect == ExecSpec => []ExecTypeOK
<1>1. ExecInit => ExecTypeOK /\ InHand
  BY TypeInit
<1>2. ExecTypeOK /\ InHand /\ [ExecNext]_execVars => ExecTypeOK' /\ InHand'
  BY TypeStep
<1>3. QED
  BY <1>1, <1>2, PTL DEF ExecSpec

-----------------------------------------------------------------------------
(***************************************************************************)
(* At most one transmission.                                               *)
(***************************************************************************)

\* What a call leaves behind: nothing new on the wire, or this attempt and a
\* verdict that forbids the replay.
LEMMA CallStep ==
    ASSUME ExecInv, NEW r \in Requests, NEW o \in Outcomes, pc[r] = "call",
           verdict' = [verdict EXCEPT ![r] = o.failure],
           sentOn' = [sentOn EXCEPT ![r] = Sent(r, o)],
           NEW p \in {"settle", "stream"}, pc' = [pc EXCEPT ![r] = p]
    PROVE  SentIsFinal' /\ AtMostOneTransmission'
<1>1. sentOn[r] = {}
  BY DEF ExecInv, SentIsFinal
<1>2. Sent(r, o) = IF o.sent THEN {attempts[r]} ELSE {}
  BY <1>1 DEF Sent
<1>3. o.sent => ~ReplaySafe(o.failure)
  BY ExecutorAssumption DEF SoundOutcome
<1>4. SentIsFinal'
  BY <1>2, <1>3 DEF ExecInv, ExecTypeOK, SentIsFinal
<1>5. AtMostOneTransmission'
  BY <1>2 DEF ExecInv, ExecTypeOK, AtMostOneTransmission
<1>6. QED
  BY <1>4, <1>5

\* A step that keeps verdicts and transmissions, and moves one request to a
\* place it may be at, keeps the invariant.
LEMMA QuietStep ==
    ASSUME ExecInv, UNCHANGED <<verdict, sentOn>>,
           NEW r \in Requests, NEW p, pc' = [pc EXCEPT ![r] = p],
           \/ pc[r] \notin {"settle", "stream", "closing", "closed", "done"}
           \/ pc[r] # "idle" /\ p \in {"stream", "closing", "closed", "done"}
    PROVE  SentIsFinal' /\ AtMostOneTransmission'
<1>1. SentIsFinal'
  BY DEF ExecInv, ExecTypeOK, SentIsFinal
<1>2. AtMostOneTransmission'
  BY DEF ExecInv, AtMostOneTransmission
<1>3. QED
  BY <1>1, <1>2

\* Every action keeps a transmitted request from being dialed again.
LEMMA SentStep ==
    ASSUME ExecInv, [ExecNext]_execVars
    PROVE  SentIsFinal' /\ AtMostOneTransmission'
<1>1. ASSUME NEW r \in Requests, NEW pl \in Plans, NEW pol \in Policies, Start(r, pl, pol)
      PROVE  SentIsFinal' /\ AtMostOneTransmission'
  BY <1>1 DEF Start, ExecInv, ExecTypeOK, SentIsFinal, AtMostOneTransmission
<1>2. ASSUME NEW r \in Requests, Walk(r), pc[r] # "settle"
      PROVE  SentIsFinal' /\ AtMostOneTransmission'
  <2>1. /\ UNCHANGED <<verdict, sentOn>>
        /\ pc[r] \in {"select", "resolve", "acquire", "dial", "tail"}
        /\ \E p \in PCs : pc' = [pc EXCEPT ![r] = p]
    BY <1>2 DEF Walk, Select, ResolveFails, Resolve, AcquireFails, Acquire, Dial, Settle,
                PlanExhausted, Skip, PCs
  <2>2. QED
    BY <2>1, QuietStep
<1>3. ASSUME NEW r \in Requests, Settle(r)
      PROVE  SentIsFinal' /\ AtMostOneTransmission'
  <2>1. sentOn[r] # {} => pc' = [pc EXCEPT ![r] = "done"]
    BY <1>3 DEF Settle, Moves, ExecInv, SentIsFinal
  <2>2. /\ UNCHANGED <<verdict, sentOn>>
        /\ \E p : pc' = [pc EXCEPT ![r] = p]
    BY <1>3 DEF Settle
  <2>3. SentIsFinal'
    BY <2>1, <2>2 DEF ExecInv, ExecTypeOK, SentIsFinal
  <2>4. AtMostOneTransmission'
    BY <2>2 DEF ExecInv, AtMostOneTransmission
  <2>5. QED
    BY <2>3, <2>4
<1>4. ASSUME NEW r \in Requests, NEW o \in Outcomes, CallFails(r, o) \/ CallSucceeds(r, o)
      PROVE  SentIsFinal' /\ AtMostOneTransmission'
  BY <1>4, CallStep DEF CallFails, CallSucceeds
<1>5. ASSUME NEW r \in Requests, CloseBody(r) \/ FreeSlot(r) \/ Return(r)
      PROVE  SentIsFinal' /\ AtMostOneTransmission'
  BY <1>5, QuietStep DEF CloseBody, FreeSlot, Return
<1>6. ASSUME Tick \/ UNCHANGED execVars
      PROVE  SentIsFinal' /\ AtMostOneTransmission'
  BY <1>6 DEF Tick, execVars, localVars, ExecInv, SentIsFinal, AtMostOneTransmission
<1>7. ASSUME NEW r \in Requests, Walk(r)
      PROVE  SentIsFinal' /\ AtMostOneTransmission'
  <2>1. CASE pc[r] # "settle"
    BY <1>2, <1>7, <2>1
  <2>2. CASE pc[r] = "settle"
    <3>1. Settle(r)
      BY <1>7, <2>2 DEF Walk, Select, ResolveFails, Resolve, AcquireFails, Acquire, Dial,
                        PlanExhausted
    <3>2. QED
      BY <1>3, <3>1
  <2>3. QED
    BY <2>1, <2>2
<1>8. QED
  BY <1>1, <1>4, <1>5, <1>6, <1>7 DEF ExecNext, CallReturns

\* The inductive invariant holds initially...
LEMMA ExecInvInit == ExecInit => ExecInv
<1>1. ExecInit => SentIsFinal /\ AtMostOneTransmission
  BY DEF ExecInit, SentIsFinal, AtMostOneTransmission
<1>2. QED
  BY <1>1, TypeInit DEF ExecInv

\* ...and is kept by every step...
LEMMA ExecInvStep == ExecInv /\ [ExecNext]_execVars => ExecInv'
  BY TypeStep, SentStep DEF ExecInv

\* ...so it always holds.
THEOREM ExecInvariant == ExecSpec => []ExecInv
  BY ExecInvInit, ExecInvStep, PTL DEF ExecSpec

\* No request is put on the wire by two attempts (the invariant list of
\* fallback.go): a byte may leave only in an attempt whose verdict, by the
\* call contract, is not replay-safe, and such a verdict ends the walk.
THEOREM TransmittedAtMostOnce == ExecSpec => []AtMostOneTransmission
  BY ExecInvariant, PTL DEF ExecInv

-----------------------------------------------------------------------------
(***************************************************************************)
(* The executor implements Delivery.                                       *)
(***************************************************************************)

\* The client sees the same of a request the step does not move, or moves
\* between places that look alike to it.
LEMMA ViewFrame ==
    ASSUME ExecInv, NEW r \in Requests, NEW p, pc' = [pc EXCEPT ![r] = p], NEW v,
           ClientView(r)' = v
    PROVE  [q \in Requests |-> ClientView(q)'] =
               [[q \in Requests |-> ClientView(q)] EXCEPT ![r] = v]
<1>1. ASSUME NEW q \in Requests, q # r
      PROVE  ClientView(q)' = ClientView(q)
  <2>1. pc'[q] = pc[q]
    BY <1>1 DEF ExecInv, ExecTypeOK
  <2>2. QED
    BY <2>1 DEF ClientView
<1>2. QED
  BY <1>1

\* A step between places that look alike to the client changes nothing it
\* was promised.
LEMMA StutterStep ==
    ASSUME ExecInv, NEW r \in Requests, NEW p, pc' = [pc EXCEPT ![r] = p],
           UNCHANGED sentOn, ClientView(r)' = ClientView(r)
    PROVE  UNCHANGED Abstract!vars
<1>1. [q \in Requests |-> ClientView(q)'] = [q \in Requests |-> ClientView(q)]
  BY ViewFrame
<1>2. QED
  BY <1>1 DEF Abstract!vars

\* Every step of the executor is a step of Delivery or leaves the client's
\* view alone.
LEMMA DeliveryStep ==
    ASSUME ExecInv, [ExecNext]_execVars
    PROVE  [Abstract!Next]_(Abstract!vars)
<1> DEFINE V == [q \in Requests |-> ClientView(q)]
<1>1. ASSUME NEW r \in Requests, NEW pl \in Plans, NEW pol \in Policies, Start(r, pl, pol)
      PROVE  Abstract!Open(r)
  <2>1. ClientView(r) \in {"idle", "answered"} /\ ClientView(r)' = "open"
    BY <1>1 DEF Start, ClientView, ExecInv, ExecTypeOK
  <2>2. V' = [V EXCEPT ![r] = "open"]
    BY <1>1, <2>1, ViewFrame DEF Start
  <2>3. QED
    BY <1>1, <2>1, <2>2 DEF Start, Abstract!Open
<1>2. ASSUME NEW r \in Requests, Walk(r)
      PROVE  Abstract!Answer(r) \/ UNCHANGED Abstract!vars
  <2>1. /\ UNCHANGED sentOn
        /\ pc[r] \in {"select", "resolve", "acquire", "dial", "settle", "tail"}
        /\ \E p \in {"select", "resolve", "acquire", "dial", "call", "tail", "done"} :
              pc' = [pc EXCEPT ![r] = p]
    BY <1>2 DEF Walk, Select, ResolveFails, Resolve, AcquireFails, Acquire, Dial, Settle,
                PlanExhausted, Skip
  <2>2. ClientView(r) = "open"
    BY <2>1 DEF ClientView
  <2>3. PICK p \in {"select", "resolve", "acquire", "dial", "call", "tail", "done"} :
            pc' = [pc EXCEPT ![r] = p]
    BY <2>1
  <2>4. pc'[r] = p
    BY <2>3 DEF ExecInv, ExecTypeOK
  <2>5. CASE p = "done"
    <3>1. ClientView(r)' = "answered"
      BY <2>4, <2>5 DEF ClientView
    <3>2. V' = [V EXCEPT ![r] = "answered"]
      BY <2>3, <3>1, ViewFrame
    <3>3. QED
      BY <2>1, <2>2, <3>2 DEF Abstract!Answer
  <2>6. CASE p # "done"
    <3>1. ClientView(r)' = "open"
      BY <2>4, <2>6 DEF ClientView
    <3>2. QED
      BY <2>1, <2>2, <2>3, <3>1, StutterStep
  <2>7. QED
    BY <2>5, <2>6
<1>3. ASSUME NEW r \in Requests, NEW o \in Outcomes, CallFails(r, o) \/ CallSucceeds(r, o)
      PROVE  Abstract!Deliver(r) \/ Abstract!Answer(r) \/ UNCHANGED Abstract!vars
  <2>1. /\ pc[r] = "call"
        /\ sentOn' = [sentOn EXCEPT ![r] = Sent(r, o)]
        /\ \E p \in {"settle", "stream"} : pc' = [pc EXCEPT ![r] = p]
    BY <1>3 DEF CallFails, CallSucceeds
  <2>2. sentOn[r] = {}
    BY <2>1 DEF ExecInv, SentIsFinal
  <2>3. ClientView(r) = "open"
    BY <2>1 DEF ClientView
  <2>4. PICK p \in {"settle", "stream"} : pc' = [pc EXCEPT ![r] = p]
    BY <2>1
  <2>5. ClientView(r)' = IF p = "stream" THEN "answered" ELSE "open"
    <3>1. pc'[r] = p
      BY <2>4 DEF ExecInv, ExecTypeOK
    <3>2. QED
      BY <3>1 DEF ClientView
  <2>6. UNCHANGED V \/ V' = [V EXCEPT ![r] = "answered"]
    BY <2>3, <2>4, <2>5, ViewFrame
  <2>7. CASE o.sent
    <3>1. sentOn' = [sentOn EXCEPT ![r] = {attempts[r]}]
      BY <2>1, <2>2, <2>7 DEF Sent
    <3>2. attempts[r] \in sentOn'[r]
      BY <3>1 DEF ExecInv, ExecTypeOK
    <3>3. QED
      BY <2>2, <2>3, <2>6, <3>1, <3>2 DEF Abstract!Deliver
  <2>8. CASE ~o.sent
    <3>1. sentOn' = sentOn
      BY <2>1, <2>8 DEF Sent, ExecInv, ExecTypeOK
    <3>2. QED
      BY <2>3, <2>6, <3>1 DEF Abstract!Answer, Abstract!vars
  <2>9. QED
    BY <2>7, <2>8
<1>4. ASSUME NEW r \in Requests, CloseBody(r) \/ FreeSlot(r) \/ Return(r)
      PROVE  UNCHANGED Abstract!vars
  <2>1. /\ UNCHANGED sentOn
        /\ pc[r] \in {"stream", "closing", "closed"}
        /\ \E p \in {"closing", "closed", "done"} : pc' = [pc EXCEPT ![r] = p]
    BY <1>4 DEF CloseBody, FreeSlot, Return
  <2>2. pc'[r] \in {"closing", "closed", "done"}
    BY <2>1 DEF ExecInv, ExecTypeOK
  <2>3. ClientView(r)' = ClientView(r)
    BY <2>1, <2>2 DEF ClientView
  <2>4. QED
    BY <2>1, <2>3, StutterStep
<1>5. ASSUME Tick \/ UNCHANGED execVars
      PROVE  UNCHANGED Abstract!vars
  <2>1. UNCHANGED <<pc, sentOn>>
    BY <1>5 DEF Tick, execVars, localVars
  <2>2. QED
    BY <2>1 DEF Abstract!vars, ClientView
<1>6. QED
  BY <1>1, <1>2, <1>3, <1>4, <1>5 DEF ExecNext, CallReturns, Abstract!Next

\* What Delivery promises the client holds of the executor: a request is
\* delivered at most once, and never after its answer.
THEOREM ImplementsDelivery == ExecSpec => DeliversAtMostOnce
<1>1. ExecInit => Abstract!Init
  BY DEF ExecInit, Abstract!Init, ClientView
<1>2. ExecInv /\ [ExecNext]_execVars => [Abstract!Next]_(Abstract!vars)
  BY DeliveryStep
<1>3. QED
  BY <1>1, <1>2, ExecInvariant, PTL DEF ExecSpec, DeliversAtMostOnce, Abstract!Spec

-----------------------------------------------------------------------------
(***************************************************************************)
(* How far the walk goes.                                                  *)
(***************************************************************************)

\* Nothing the walk keeps of request q changes.
Untouched(q) ==
    /\ pc'[q] = pc[q] /\ plan'[q] = plan[q] /\ policy'[q] = policy[q] /\ pos'[q] = pos[q]
    /\ sel'[q] = sel[q] /\ attempts'[q] = attempts[q] /\ verdict'[q] = verdict[q]
    /\ rows'[q] = rows[q] /\ terminalRow'[q] = terminalRow[q] /\ dialed'[q] = dialed[q]
    /\ freed'[q] = freed[q]

\* What request r does, by itself or on the return of its call.
Moved(r) ==
    \/ \E pl \in Plans, pol \in Policies : Start(r, pl, pol)
    \/ Walk(r)
    \/ CallReturns(r)
    \/ CloseBody(r)
    \/ FreeSlot(r)
    \/ Return(r)

\* A step of one request leaves every other one alone.
LEMMA OneMoves ==
    ASSUME ExecTypeOK, NEW r \in Requests, Moved(r), NEW q \in Requests, q # r
    PROVE  Untouched(q)
<1> USE DEF Untouched, ExecTypeOK
<1>1. ASSUME NEW i, NEW d PROVE Stamp(r, i, d)[q] = rows[q]
  BY DEF Stamp
<1>2. ASSUME NEW pl \in Plans, NEW pol \in Policies, Start(r, pl, pol)
      PROVE  Untouched(q)
  BY <1>2 DEF Start
<1>3. ASSUME Select(r) PROVE Untouched(q)
  BY <1>3 DEF Select
<1>4. ASSUME Skip(r) PROVE Untouched(q)
  BY <1>4 DEF Skip
<1>5. ASSUME Resolve(r) \/ Acquire(r) \/ Dial(r) PROVE Untouched(q)
  BY <1>5 DEF Resolve, Acquire, Dial
<1>6. ASSUME Settle(r) PROVE Untouched(q)
  <2>1. rows'[q] = rows[q]
    BY <1>1, <1>6 DEF Settle
  <2>2. QED
    BY <1>6, <2>1 DEF Settle
<1>7. ASSUME PlanExhausted(r) PROVE Untouched(q)
  <2>1. rows'[q] = rows[q]
    BY <1>1, <1>7 DEF PlanExhausted
  <2>2. QED
    BY <1>7, <2>1 DEF PlanExhausted
<1>8. ASSUME NEW o \in Outcomes, CallFails(r, o) \/ CallSucceeds(r, o) PROVE Untouched(q)
  BY <1>8 DEF CallFails, CallSucceeds
<1>9. ASSUME CloseBody(r) \/ FreeSlot(r) \/ Return(r) PROVE Untouched(q)
  BY <1>9 DEF CloseBody, FreeSlot, Return
<1>10. QED
  BY <1>2, <1>3, <1>4, <1>5, <1>6, <1>7, <1>8, <1>9
  DEF Moved, Walk, CallReturns, ResolveFails, AcquireFails

\* The clock, and a step of something else, leave every request alone.
LEMMA NoneMoves ==
    ASSUME Tick \/ UNCHANGED execVars, NEW q \in Requests
    PROVE  Untouched(q)
BY DEF Tick, execVars, localVars, Untouched

\* What is known of a request depends on its own state only.
LEMMA UntouchedWalk ==
    ASSUME NEW q \in Requests, Untouched(q)
    PROVE  /\ BehindTheCursor(q) => BehindTheCursor(q)'
           /\ DialsAreCounted(q) => DialsAreCounted(q)'
           /\ EndsForAReason(q) => EndsForAReason(q)'
           /\ RowsAreTrue(q) => RowsAreTrue(q)'
BY DEF Untouched, BehindTheCursor, DialsAreCounted, EndsForAReason, RowsAreTrue, RowIsTrue

\* The budget is a positive number of attempts.
LEMMA BudgetType ==
    ASSUME NEW p \in Policies
    PROVE  Budget(p) \in Nat /\ Budget(p) > 0
BY ExecutorAssumption DEF AttemptPolicy, Budget

\* A plan names no egress twice.
LEMMA PlanIsInjective ==
    ASSUME NEW pl \in Plans
    PROVE  \A i, j \in 1..Len(pl) : pl[i] = pl[j] => i = j
<1>1. DOMAIN pl = 1..Len(pl)
  BY PlanType, LenProperties
<1>2. QED
  BY <1>1 DEF Plans

\* The request's own step keeps the cursor ahead of what was dialed.
LEMMA CursorStep ==
    ASSUME ExecTypeOK, InHand, NEW r \in Requests, BehindTheCursor(r), Moved(r)
    PROVE  BehindTheCursor(r)'
<1>1. ASSUME NEW pl \in Plans, NEW pol \in Policies, Start(r, pl, pol)
      PROVE  BehindTheCursor(r)'
  <2>1. plan'[r] = pl /\ dialed'[r] = {} /\ pc'[r] = "select"
    BY <1>1 DEF Start, ExecTypeOK
  <2>2. QED
    BY <2>1, PlanIsInjective DEF BehindTheCursor
<1>2. ASSUME Select(r) PROVE BehindTheCursor(r)'
  <2>1. Len(plan[r]) \in Nat /\ pos[r] \in Nat \ {0}
    BY LenProperties DEF ExecTypeOK
  <2>2. plan' = plan /\ dialed' = dialed
    BY <1>2 DEF Select
  <2>3. ASSUME NEW i \in pos[r]..Len(plan[r]),
               sel' = [sel EXCEPT ![r] = plan[r][i]],
               pos' = [pos EXCEPT ![r] = i + 1]
        PROVE  BehindTheCursor(r)'
    <3>1. sel'[r] = plan[r][i] /\ pos'[r] = i + 1 /\ i \in 1..Len(plan[r])
      BY <2>1, <2>3 DEF ExecTypeOK
    <3>2. sel'[r] \notin dialed[r]
      BY <2>1, <3>1 DEF BehindTheCursor
    <3>3. \A e \in dialed[r] : \E j \in 1..Len(plan[r]) : j < pos'[r] /\ plan[r][j] = e
      BY <2>1, <3>1 DEF BehindTheCursor
    <3>4. QED
      BY <2>2, <3>1, <3>2, <3>3 DEF BehindTheCursor
  <2>4. ASSUME pos' = [pos EXCEPT ![r] =
                          IF pos[r] > Len(plan[r]) THEN pos[r] ELSE Len(plan[r]) + 1],
               pc' = [pc EXCEPT ![r] = "tail"]
        PROVE  BehindTheCursor(r)'
    <3>1. pos'[r] >= pos[r] /\ pos'[r] \in Nat /\ pc'[r] = "tail"
      BY <2>1, <2>4 DEF ExecTypeOK
    <3>2. \A e \in dialed[r] : \E j \in 1..Len(plan[r]) : j < pos'[r] /\ plan[r][j] = e
      BY <2>1, <3>1 DEF BehindTheCursor
    <3>3. QED
      BY <2>2, <3>1, <3>2 DEF BehindTheCursor
  <2>5. QED
    BY <1>2, <2>3, <2>4 DEF Select
<1>3. ASSUME Dial(r) PROVE BehindTheCursor(r)'
  <2>1. /\ plan' = plan /\ pos' = pos /\ dialed'[r] = dialed[r] \cup {sel[r]} /\ pc'[r] = "call"
        /\ pc[r] = "dial"
    BY <1>3 DEF Dial, ExecTypeOK
  <2>2. PICK i \in 1..Len(plan[r]) : pos[r] = i + 1 /\ sel[r] = plan[r][i]
    BY <2>1 DEF BehindTheCursor
  <2>3. i \in Nat /\ i < pos[r]
    BY <2>2
  <2>4. QED
    BY <2>1, <2>2, <2>3 DEF BehindTheCursor
<1>4. ASSUME UNCHANGED <<plan, pos, sel, dialed>>,
             \/ pc'[r] \notin {"resolve", "acquire", "dial"}
             \/ pc[r] \in {"resolve", "acquire", "dial"}
      PROVE  BehindTheCursor(r)'
  BY <1>4 DEF BehindTheCursor
<1>5. ASSUME ResolveFails(r) \/ AcquireFails(r) \/ Resolve(r) \/ Acquire(r)
      PROVE  BehindTheCursor(r)'
  BY <1>4, <1>5 DEF ResolveFails, AcquireFails, Resolve, Acquire, Skip
<1>6. ASSUME Settle(r) \/ PlanExhausted(r) PROVE BehindTheCursor(r)'
  <2>1. pc'[r] \in {"select", "done"}
    BY <1>6 DEF Settle, PlanExhausted, ExecTypeOK
  <2>2. QED
    BY <1>4, <1>6, <2>1 DEF Settle, PlanExhausted
<1>7. ASSUME NEW o \in Outcomes, CallFails(r, o) \/ CallSucceeds(r, o)
      PROVE  BehindTheCursor(r)'
  <2>1. pc'[r] \in {"settle", "stream"}
    BY <1>7 DEF CallFails, CallSucceeds, ExecTypeOK
  <2>2. QED
    BY <1>4, <1>7, <2>1 DEF CallFails, CallSucceeds
<1>8. ASSUME CloseBody(r) \/ FreeSlot(r) \/ Return(r) PROVE BehindTheCursor(r)'
  <2>1. pc'[r] \in {"closing", "closed", "done"}
    BY <1>8 DEF CloseBody, FreeSlot, Return, ExecTypeOK
  <2>2. QED
    BY <1>4, <1>8, <2>1 DEF CloseBody, FreeSlot, Return
<1>9. QED
  BY <1>1, <1>2, <1>3, <1>5, <1>6, <1>7, <1>8 DEF Moved, Walk, CallReturns

\* The request's own step counts a dial once and stays within the budget.
LEMMA CountStep ==
    ASSUME ExecTypeOK, InHand, NEW r \in Requests, BehindTheCursor(r), DialsAreCounted(r),
           Moved(r)
    PROVE  DialsAreCounted(r)'
<1>0. attempts[r] \in Nat /\ Budget(policy[r]) \in Nat
  BY BudgetType DEF ExecTypeOK
<1>1. ASSUME NEW pl \in Plans, NEW pol \in Policies, Start(r, pl, pol)
      PROVE  DialsAreCounted(r)'
  <2>1. policy'[r] = pol /\ attempts'[r] = 0 /\ dialed'[r] = {} /\ pc'[r] = "select"
    BY <1>1 DEF Start, ExecTypeOK
  <2>2. Cardinality(dialed'[r]) = 0
    BY <2>1, FS_EmptySet
  <2>3. QED
    BY <2>1, <2>2, BudgetType DEF DialsAreCounted
<1>2. ASSUME Dial(r) PROVE DialsAreCounted(r)'
  <2>1. /\ policy' = policy /\ attempts' = attempts /\ pc'[r] = "call" /\ pc[r] = "dial"
        /\ dialed'[r] = dialed[r] \cup {sel[r]}
    BY <1>2 DEF Dial, ExecTypeOK
  <2>2. IsFiniteSet(dialed[r])
    BY FS_Subset, ExecutorAssumption DEF ExecTypeOK
  <2>3. Cardinality(dialed[r] \cup {sel[r]}) = Cardinality(dialed[r]) + 1
    BY <2>1, <2>2, FS_AddElement DEF BehindTheCursor
  <2>4. Cardinality(dialed[r]) = attempts[r] - 1
    BY <2>1 DEF DialsAreCounted
  <2>5. Cardinality(dialed'[r]) = attempts[r]
    BY <1>0, <2>1, <2>3, <2>4
  <2>6. QED
    BY <2>1, <2>5 DEF DialsAreCounted
<1>3. ASSUME Acquire(r) PROVE DialsAreCounted(r)'
  <2>1. /\ policy' = policy /\ attempts'[r] = attempts[r] + 1 /\ pc'[r] = "dial"
        /\ pc[r] = "acquire" /\ dialed' = dialed
    BY <1>3 DEF Acquire, ExecTypeOK
  <2>2. QED
    BY <1>0, <2>1 DEF DialsAreCounted
<1>4. ASSUME UNCHANGED <<policy, attempts, dialed>>, pc[r] # "dial", pc'[r] # "dial",
             pc'[r] \in {"select", "resolve", "acquire"} => attempts[r] < Budget(policy[r])
      PROVE  DialsAreCounted(r)'
  BY <1>4 DEF DialsAreCounted
<1>5. ASSUME Select(r) \/ ResolveFails(r) \/ AcquireFails(r) \/ Resolve(r)
      PROVE  DialsAreCounted(r)'
  <2>1. /\ pc[r] \in {"select", "resolve", "acquire"}
        /\ pc'[r] \in {"select", "resolve", "acquire", "tail"}
        /\ UNCHANGED <<policy, attempts, dialed>>
    BY <1>5 DEF Select, ResolveFails, AcquireFails, Resolve, Skip, ExecTypeOK
  <2>2. QED
    BY <1>4, <2>1 DEF DialsAreCounted
<1>6. ASSUME Settle(r) PROVE DialsAreCounted(r)'
  <2>1. /\ pc[r] = "settle" /\ UNCHANGED <<policy, attempts, dialed>>
        /\ pc'[r] = IF Moves(r) THEN "select" ELSE "done"
    BY <1>6 DEF Settle, ExecTypeOK
  <2>2. QED
    BY <1>4, <2>1 DEF Moves
<1>7. ASSUME PlanExhausted(r) PROVE DialsAreCounted(r)'
  <2>1. pc[r] = "tail" /\ pc'[r] = "done" /\ UNCHANGED <<policy, attempts, dialed>>
    BY <1>7 DEF PlanExhausted, ExecTypeOK
  <2>2. QED
    BY <1>4, <2>1
<1>8. ASSUME NEW o \in Outcomes, CallFails(r, o) \/ CallSucceeds(r, o)
      PROVE  DialsAreCounted(r)'
  <2>1. pc[r] = "call" /\ pc'[r] \in {"settle", "stream"} /\ UNCHANGED <<policy, attempts, dialed>>
    BY <1>8 DEF CallFails, CallSucceeds, ExecTypeOK
  <2>2. QED
    BY <1>4, <2>1
<1>9. ASSUME CloseBody(r) \/ FreeSlot(r) \/ Return(r) PROVE DialsAreCounted(r)'
  <2>1. /\ pc[r] \in {"stream", "closing", "closed"} /\ pc'[r] \in {"closing", "closed", "done"}
        /\ UNCHANGED <<policy, attempts, dialed>>
    BY <1>9 DEF CloseBody, FreeSlot, Return, ExecTypeOK
  <2>2. QED
    BY <1>4, <2>1
<1>10. QED
  BY <1>1, <1>2, <1>3, <1>5, <1>6, <1>7, <1>8, <1>9 DEF Moved, Walk, CallReturns

\* The request's own step ends the walk only for a reason.
LEMMA ReasonStep ==
    ASSUME ExecTypeOK, InHand, NEW r \in Requests, EndsForAReason(r), Moved(r)
    PROVE  EndsForAReason(r)'
<1>0. attempts[r] \in Nat /\ Budget(policy[r]) \in Nat
  BY BudgetType DEF ExecTypeOK
<1>1. ASSUME pc'[r] \notin {"tail", "stream", "closing", "closed", "done"}
      PROVE  EndsForAReason(r)'
  BY <1>1 DEF EndsForAReason
<1>2. ASSUME NEW pl \in Plans, NEW pol \in Policies, Start(r, pl, pol)
      PROVE  EndsForAReason(r)'
  <2>1. pc'[r] = "select"
    BY <1>2 DEF Start, ExecTypeOK
  <2>2. QED
    BY <1>1, <2>1
<1>3. ASSUME Select(r) PROVE EndsForAReason(r)'
  <2>1. Len(plan[r]) \in Nat /\ pos[r] \in Nat
    BY LenProperties DEF ExecTypeOK
  <2>2. CASE pc' = [pc EXCEPT ![r] = "resolve"]
    BY <1>1, <2>2 DEF ExecTypeOK
  <2>3. CASE /\ pos' = [pos EXCEPT ![r] =
                           IF pos[r] > Len(plan[r]) THEN pos[r] ELSE Len(plan[r]) + 1]
             /\ pc' = [pc EXCEPT ![r] = "tail"]
    <3>1. pos'[r] > Len(plan[r]) /\ pc'[r] = "tail" /\ plan' = plan
      BY <1>3, <2>1, <2>3 DEF ExecTypeOK, Select
    <3>2. QED
      BY <3>1 DEF EndsForAReason
  <2>4. QED
    BY <1>3, <2>2, <2>3 DEF Select
<1>4. ASSUME Skip(r) PROVE EndsForAReason(r)'
  <2>1. policy' = policy /\ pc'[r] = IF policy[r].fallback THEN "select" ELSE "tail"
    BY <1>4 DEF Skip, ExecTypeOK
  <2>2. QED
    BY <2>1 DEF EndsForAReason
<1>5. ASSUME Resolve(r) \/ Acquire(r) \/ Dial(r) PROVE EndsForAReason(r)'
  <2>1. pc'[r] \in {"acquire", "dial", "call"}
    BY <1>5 DEF Resolve, Acquire, Dial, ExecTypeOK
  <2>2. QED
    BY <1>1, <2>1
<1>6. ASSUME Settle(r) PROVE EndsForAReason(r)'
  <2>1. /\ UNCHANGED <<verdict, attempts, policy>>
        /\ pc'[r] = IF Moves(r) THEN "select" ELSE "done"
    BY <1>6 DEF Settle, ExecTypeOK
  <2>2. CASE Moves(r)
    BY <1>1, <2>1, <2>2
  <2>3. CASE ~Moves(r)
    <3>1. ReplaySafe(verdict[r]) => attempts[r] >= Budget(policy[r])
      BY <1>0, <2>3 DEF Moves
    <3>2. QED
      BY <2>1, <2>3, <3>1 DEF EndsForAReason
  <2>4. QED
    BY <2>2, <2>3
<1>7. ASSUME PlanExhausted(r) PROVE EndsForAReason(r)'
  <2>1. pc[r] = "tail" /\ pc'[r] = "done" /\ UNCHANGED <<pos, plan, policy>>
    BY <1>7 DEF PlanExhausted, ExecTypeOK
  <2>2. QED
    BY <2>1 DEF EndsForAReason
<1>8. ASSUME NEW o \in Outcomes, CallFails(r, o) PROVE EndsForAReason(r)'
  <2>1. pc'[r] = "settle"
    BY <1>8 DEF CallFails, ExecTypeOK
  <2>2. QED
    BY <1>1, <2>1
<1>9. ASSUME NEW o \in Outcomes, CallSucceeds(r, o) PROVE EndsForAReason(r)'
  <2>1. pc'[r] = "stream" /\ verdict'[r] = o.failure /\ o.ok
    BY <1>9 DEF CallSucceeds, ExecTypeOK
  <2>2. ~ReplaySafe(o.failure)
    BY <2>1, ExecutorAssumption DEF SoundOutcome
  <2>3. QED
    BY <2>1, <2>2 DEF EndsForAReason
<1>10. ASSUME CloseBody(r) \/ FreeSlot(r) \/ Return(r) PROVE EndsForAReason(r)'
  <2>1. /\ pc[r] \in {"stream", "closing", "closed"} /\ pc'[r] \in {"closing", "closed", "done"}
        /\ UNCHANGED verdict
    BY <1>10 DEF CloseBody, FreeSlot, Return, ExecTypeOK
  <2>2. QED
    BY <2>1 DEF EndsForAReason
<1>11. QED
  BY <1>2, <1>3, <1>4, <1>5, <1>6, <1>7, <1>8, <1>9, <1>10
  DEF Moved, Walk, CallReturns, ResolveFails, AcquireFails

\* A step is one request's, or touches none.
LEMMA WhoMoves ==
    [ExecNext]_execVars => (\E r \in Requests : Moved(r)) \/ Tick \/ UNCHANGED execVars
BY DEF ExecNext, Moved

\* Every step keeps every request's walk in order.
LEMMA WalkInvStep == ExecInv /\ WalkInv /\ [ExecNext]_execVars => WalkInv'
<1> SUFFICES ASSUME ExecInv, WalkInv, [ExecNext]_execVars, NEW q \in Requests
             PROVE  (BehindTheCursor(q) /\ DialsAreCounted(q) /\ EndsForAReason(q))'
  BY DEF WalkInv
<1>1. ExecTypeOK /\ InHand /\ BehindTheCursor(q) /\ DialsAreCounted(q) /\ EndsForAReason(q)
  BY DEF ExecInv, WalkInv
<1>2. CASE Moved(q)
  BY <1>1, <1>2, CursorStep, CountStep, ReasonStep
<1>3. CASE ~Moved(q)
  <2>1. Untouched(q)
    BY <1>1, <1>3, WhoMoves, OneMoves, NoneMoves
  <2>2. QED
    BY <1>1, <2>1, UntouchedWalk
<1>4. QED
  BY <1>2, <1>3

\* It holds before the first request.
LEMMA WalkInvInit == ExecInit => WalkInv
<1> SUFFICES ASSUME ExecInit, NEW r \in Requests
             PROVE  BehindTheCursor(r) /\ DialsAreCounted(r) /\ EndsForAReason(r)
  BY DEF WalkInv
<1>1. /\ plan[r] = <<>> /\ dialed[r] = {} /\ pc[r] = "idle" /\ attempts[r] = 0
      /\ policy[r] \in Policies
  BY DEF ExecInit
<1>2. Cardinality(dialed[r]) = 0
  BY <1>1, FS_EmptySet
<1>3. BehindTheCursor(r)
  BY <1>1 DEF BehindTheCursor
<1>4. DialsAreCounted(r)
  BY <1>1, <1>2, BudgetType DEF DialsAreCounted
<1>5. EndsForAReason(r)
  BY <1>1 DEF EndsForAReason
<1>6. QED
  BY <1>3, <1>4, <1>5

\* A survivable failure is survived exactly as far as the plan, the budget and
\* the policy reach (fallback.go, ExecuteObserved): no egress is dialed twice,
\* the budget is never overrun, and the walk never stops short of it.
THEOREM WalksAsFarAsItMay == ExecSpec => []TriesAllItMay
<1>1. WalkInv => TriesAllItMay
  <2>1. WalkInv => DistinctEgressesWithinBudget
    BY DEF WalkInv, DialsAreCounted, DistinctEgressesWithinBudget
  <2>2. WalkInv => StopsOnlyWhenItMust
    BY DEF WalkInv, EndsForAReason, StopsOnlyWhenItMust
  <2>3. QED
    BY <2>1, <2>2 DEF TriesAllItMay
<1>2. QED
  BY <1>1, WalkInvInit, WalkInvStep, ExecInvariant, PTL DEF ExecSpec

-----------------------------------------------------------------------------
(***************************************************************************)
(* What the evidence rows say.                                             *)
(***************************************************************************)

\* Recording drops the row or puts it last.
LEMMA RecordedRows ==
    ASSUME NEW rs \in Seq(Row), NEW row \in Row
    PROVE  \/ Recorded(rs, row) = rs
           \/ /\ Len(Recorded(rs, row)) = Len(rs) + 1
              /\ Recorded(rs, row)[Len(rs) + 1] = row
              /\ \A i \in 1..Len(rs) : Recorded(rs, row)[i] = rs[i]
BY AppendProperties DEF Recorded

\* Stamping a row changes its decision and nothing else.
LEMMA StampedRows ==
    ASSUME rows \in [Requests -> Seq(Row)], NEW r \in Requests, NEW i \in 1..Len(rows[r]),
           NEW d \in {"fallback", "stop"}
    PROVE  /\ Len(Stamp(r, i, d)[r]) = Len(rows[r])
           /\ \A j \in 1..Len(rows[r]) : j # i => Stamp(r, i, d)[r][j] = rows[r][j]
           /\ Stamp(r, i, d)[r][i].fallback = d
           /\ Stamp(r, i, d)[r][i].attempt = rows[r][i].attempt
           /\ Stamp(r, i, d)[r][i].kind = rows[r][i].kind
<1> DEFINE s == rows[r]
           t == [s EXCEPT ![i].fallback = d]
<1>1. s \in [1..Len(s) -> Row] /\ Len(s) \in Nat
  BY LenProperties
<1>2. Stamp(r, i, d)[r] = t
  BY <1>1 DEF Stamp
<1>3. t \in [1..Len(s) -> Row]
  BY <1>1 DEF Row
<1>4. Len(t) = Len(s)
  <2>1. t \in Seq(Row) /\ DOMAIN t = 1..Len(s)
    BY <1>1, <1>3
  <2>2. QED
    BY <1>1, <2>1, LenProperties
<1>5. \A j \in 1..Len(s) : j # i => t[j] = s[j]
  BY <1>1
<1>6. s[i] \in Row /\ t[i] = [s[i] EXCEPT !.fallback = d]
  BY <1>1
<1>7. t[i].fallback = d /\ t[i].attempt = s[i].attempt /\ t[i].kind = s[i].kind
  BY <1>6 DEF Row
<1>8. QED
  BY <1>2, <1>4, <1>5, <1>7

\* A row, and the number of rows, have their types.
LEMMA RowTypes ==
    ASSUME ExecTypeOK, NEW r \in Requests
    PROVE  /\ Len(rows[r]) \in Nat
           /\ \A i \in 1..Len(rows[r]) : rows[r][i] \in Row /\ rows[r][i].attempt \in Nat
<1>1. rows[r] \in Seq(Row)
  BY DEF ExecTypeOK
<1>2. Len(rows[r]) \in Nat /\ \A i \in 1..Len(rows[r]) : rows[r][i] \in Row
  BY <1>1, LenProperties, ElementOfSeq
<1>3. QED
  BY <1>2 DEF Row

\* The request's own step keeps its rows true.
LEMMA RowsStep ==
    ASSUME ExecTypeOK, InHand, NEW r \in Requests, RowsAreTrue(r), Moved(r)
    PROVE  RowsAreTrue(r)'
<1>0. attempts[r] \in Nat /\ terminalRow[r] \in Nat /\ Len(rows[r]) \in Nat
  BY RowTypes DEF ExecTypeOK
<1>1. ASSUME NEW pl \in Plans, NEW pol \in Policies, Start(r, pl, pol)
      PROVE  RowsAreTrue(r)'
  <2>1. rows'[r] = <<>> /\ pc'[r] = "select" /\ terminalRow'[r] = 0
    BY <1>1 DEF Start, ExecTypeOK
  <2>2. Len(rows'[r]) = 0
    BY <2>1
  <2>3. QED
    BY <2>1, <2>2 DEF RowsAreTrue
<1>2. ASSUME UNCHANGED <<rows, attempts, terminalRow>>,
             \/ /\ pc[r] \in {"select", "resolve", "acquire", "tail"}
                /\ pc'[r] \in {"select", "resolve", "acquire", "tail"}
             \/ /\ pc[r] \in {"dial", "call"}
                /\ pc'[r] \in {"call", "stream"}
             \/ /\ pc[r] \in {"stream", "closing", "closed"}
                /\ pc'[r] \in {"closing", "closed", "done"}
      PROVE  RowsAreTrue(r)'
  <2>1. ASSUME NEW i \in 1..Len(rows[r]), RowIsTrue(r, i) PROVE RowIsTrue(r, i)'
    <3>1. rows[r][i].attempt \in Nat
      BY RowTypes
    <3>2. QED
      BY <1>0, <1>2, <2>1, <3>1 DEF RowIsTrue
  <2>2. QED
    BY <1>2, <2>1 DEF RowsAreTrue
<1>3. ASSUME Select(r) \/ Resolve(r) \/ Dial(r) PROVE RowsAreTrue(r)'
  <2>1. /\ UNCHANGED <<rows, attempts, terminalRow>>
        /\ \/ pc[r] \in {"select", "resolve"} /\ pc'[r] \in {"resolve", "acquire", "tail"}
           \/ pc[r] = "dial" /\ pc'[r] = "call"
    BY <1>3 DEF Select, Resolve, Dial, ExecTypeOK
  <2>2. QED
    BY <1>2, <2>1
<1>4. ASSUME NEW o \in Outcomes, CallSucceeds(r, o) PROVE RowsAreTrue(r)'
  <2>1. UNCHANGED <<rows, attempts, terminalRow>> /\ pc[r] = "call" /\ pc'[r] = "stream"
    BY <1>4 DEF CallSucceeds, ExecTypeOK
  <2>2. QED
    BY <1>2, <2>1
<1>5. ASSUME CloseBody(r) \/ FreeSlot(r) \/ Return(r) PROVE RowsAreTrue(r)'
  <2>1. /\ UNCHANGED <<rows, attempts, terminalRow>>
        /\ pc[r] \in {"stream", "closing", "closed"} /\ pc'[r] \in {"closing", "closed", "done"}
    BY <1>5 DEF CloseBody, FreeSlot, Return, ExecTypeOK
  <2>2. QED
    BY <1>2, <2>1
<1>6. ASSUME Acquire(r) PROVE RowsAreTrue(r)'
  <2>1. /\ UNCHANGED <<rows, terminalRow>> /\ attempts'[r] = attempts[r] + 1
        /\ pc[r] = "acquire" /\ pc'[r] = "dial"
    BY <1>6 DEF Acquire, ExecTypeOK
  <2>2. ASSUME NEW i \in 1..Len(rows[r]), RowIsTrue(r, i) PROVE RowIsTrue(r, i)'
    <3>1. rows[r][i].attempt \in Nat
      BY RowTypes
    <3>2. QED
      BY <1>0, <2>1, <2>2, <3>1 DEF RowIsTrue
  <2>3. QED
    BY <1>0, <2>1, <2>2 DEF RowsAreTrue
<1>7. ASSUME Skip(r), pc[r] \in {"resolve", "acquire"} PROVE RowsAreTrue(r)'
  <2>1. /\ UNCHANGED <<attempts, terminalRow>> /\ pc'[r] \in {"select", "tail"}
        /\ rows'[r] = Recorded(rows[r], SkipRow(r))
    BY <1>7 DEF Skip, ExecTypeOK
  <2>2. /\ SkipRow(r) \in Row
        /\ SkipRow(r).attempt = 0 /\ SkipRow(r).kind = "skip" /\ SkipRow(r).fallback = "none"
    BY <1>7 DEF SkipRow, Row, InHand
  <2>3. ASSUME NEW i \in 1..Len(rows[r]), RowIsTrue(r, i), rows'[r][i] = rows[r][i]
        PROVE RowIsTrue(r, i)'
    <3>1. rows[r][i].attempt \in Nat
      BY RowTypes
    <3>2. QED
      BY <1>0, <1>7, <2>1, <2>3, <3>1 DEF RowIsTrue
  <2>4. CASE rows'[r] = rows[r]
    BY <1>7, <2>1, <2>3, <2>4 DEF RowsAreTrue
  <2>5. CASE /\ Len(rows'[r]) = Len(rows[r]) + 1
             /\ rows'[r][Len(rows[r]) + 1] = SkipRow(r)
             /\ \A i \in 1..Len(rows[r]) : rows'[r][i] = rows[r][i]
    <3>1. ASSUME NEW i \in Nat, i = Len(rows[r]) + 1 PROVE RowIsTrue(r, i)'
      BY <1>0, <2>1, <2>2, <2>5, <3>1 DEF RowIsTrue
    <3>2. ASSUME NEW i \in 1..Len(rows'[r]) PROVE RowIsTrue(r, i)'
      <4>1. CASE i = Len(rows[r]) + 1
        BY <1>0, <3>1, <4>1
      <4>2. CASE i # Len(rows[r]) + 1
        <5>1. i \in 1..Len(rows[r])
          BY <1>0, <2>5, <4>2
        <5>2. QED
          BY <2>3, <2>5, <5>1 DEF RowsAreTrue
      <4>3. QED
        BY <4>1, <4>2
    <3>3. terminalRow[r] > 0 => /\ terminalRow[r] <= Len(rows'[r])
                                /\ rows'[r][terminalRow[r]].attempt = attempts[r]
      BY <1>0, <1>7, <2>5 DEF RowsAreTrue
    <3>4. QED
      BY <2>1, <3>2, <3>3 DEF RowsAreTrue
  <2>6. QED
    BY <2>1, <2>2, <2>4, <2>5, RecordedRows DEF ExecTypeOK
<1>8. ASSUME NEW o \in Outcomes, CallFails(r, o) PROVE RowsAreTrue(r)'
  <2>1. /\ UNCHANGED <<attempts, terminalRow>> /\ pc[r] = "call" /\ pc'[r] = "settle"
        /\ rows'[r] = Recorded(rows[r], DialRow(r))
    BY <1>8 DEF CallFails, ExecTypeOK
  <2>2. /\ DialRow(r) \in Row
        /\ DialRow(r).attempt = attempts[r] /\ DialRow(r).kind = "dial"
        /\ DialRow(r).fallback = "none"
    BY <2>1 DEF DialRow, Row, InHand, ExecTypeOK
  <2>3. ASSUME NEW i \in 1..Len(rows[r]), RowIsTrue(r, i), rows'[r][i] = rows[r][i]
        PROVE RowIsTrue(r, i)'
    <3>1. rows[r][i].attempt \in Nat
      BY RowTypes
    <3>2. QED
      BY <1>0, <2>1, <2>3, <3>1 DEF RowIsTrue
  <2>4. CASE rows'[r] = rows[r]
    BY <2>1, <2>3, <2>4 DEF RowsAreTrue
  <2>5. CASE /\ Len(rows'[r]) = Len(rows[r]) + 1
             /\ rows'[r][Len(rows[r]) + 1] = DialRow(r)
             /\ \A i \in 1..Len(rows[r]) : rows'[r][i] = rows[r][i]
    <3>1. ASSUME NEW i \in Nat, i = Len(rows[r]) + 1 PROVE RowIsTrue(r, i)'
      BY <1>0, <2>1, <2>2, <2>5, <3>1 DEF RowIsTrue
    <3>2. ASSUME NEW i \in 1..Len(rows'[r]) PROVE RowIsTrue(r, i)'
      <4>1. CASE i = Len(rows[r]) + 1
        BY <1>0, <3>1, <4>1
      <4>2. CASE i # Len(rows[r]) + 1
        <5>1. i \in 1..Len(rows[r])
          BY <1>0, <2>5, <4>2
        <5>2. QED
          BY <2>3, <2>5, <5>1 DEF RowsAreTrue
      <4>3. QED
        BY <4>1, <4>2
    <3>3. QED
      BY <2>1, <3>2 DEF RowsAreTrue
  <2>6. QED
    BY <2>1, <2>2, <2>4, <2>5, RecordedRows DEF ExecTypeOK
<1>9. ASSUME Settle(r) PROVE RowsAreTrue(r)'
  <2> DEFINE k == StampedRow(r)
             d == IF Moves(r) THEN "fallback" ELSE "stop"
  <2>1. /\ UNCHANGED attempts /\ pc[r] = "settle"
        /\ pc'[r] = IF Moves(r) THEN "select" ELSE "done"
        /\ terminalRow'[r] = IF Moves(r) THEN k ELSE terminalRow[r]
        /\ rows' = Stamp(r, k, d)
        /\ attempts[r] > 0
    BY <1>9 DEF Settle, ExecTypeOK, RowsAreTrue
  <2>2. d \in {"fallback", "stop"} /\ d = IF pc'[r] = "select" THEN "fallback" ELSE "stop"
    BY <2>1
  <2>3. \/ k = 0 /\ (Len(rows[r]) > 0 => rows[r][Len(rows[r])].attempt # attempts[r])
        \/ k = Len(rows[r]) /\ k > 0 /\ rows[r][k].attempt = attempts[r]
    BY <1>0, EmptySeq, LenProperties DEF StampedRow, ExecTypeOK
  <2> HIDE DEF k, d
  <2>4. CASE k = 0 /\ (Len(rows[r]) > 0 => rows[r][Len(rows[r])].attempt # attempts[r])
    <3>1. rows' = rows
      BY <2>1, <2>4 DEF Stamp
    <3>2. ASSUME NEW i \in 1..Len(rows[r]) PROVE RowIsTrue(r, i)'
      <4>1. RowIsTrue(r, i) /\ rows[r][i].attempt \in Nat
        BY RowTypes DEF RowsAreTrue
      <4>2. rows[r][i].attempt < attempts[r]
        BY <1>0, <2>1, <2>4, <4>1 DEF RowIsTrue
      <4>3. QED
        BY <1>0, <2>1, <3>1, <4>1, <4>2 DEF RowIsTrue
    <3>3. QED
      BY <2>1, <2>4, <3>1, <3>2 DEF RowsAreTrue
  <2>5. CASE k = Len(rows[r]) /\ k > 0 /\ rows[r][k].attempt = attempts[r]
    <3>1. k \in 1..Len(rows[r])
      BY <1>0, <2>5
    <3>2. /\ Len(rows'[r]) = Len(rows[r])
          /\ \A j \in 1..Len(rows[r]) : j # k => rows'[r][j] = rows[r][j]
          /\ rows'[r][k].fallback = d
          /\ rows'[r][k].attempt = rows[r][k].attempt
      <4>1. rows \in [Requests -> Seq(Row)] /\ d \in {"fallback", "stop"}
        BY <2>2 DEF ExecTypeOK
      <4>2. QED
        BY <2>1, <3>1, <4>1, StampedRows
    <3>3. ASSUME NEW i \in 1..Len(rows[r]) PROVE RowIsTrue(r, i)'
      <4>1. RowIsTrue(r, i) /\ rows[r][i].attempt \in Nat
        BY RowTypes DEF RowsAreTrue
      <4>2. CASE i = k
        <5>1. pc'[r] = "select" => terminalRow'[r] = k
          BY <2>1
        <5>2. QED
          BY <1>0, <2>1, <2>2, <2>5, <3>2, <4>1, <4>2, <5>1 DEF RowIsTrue
      <4>3. CASE i # k
        <5>1. rows[r][i].attempt < attempts[r]
          BY <1>0, <2>1, <2>5, <4>1, <4>3 DEF RowIsTrue
        <5>2. QED
          BY <1>0, <2>1, <3>2, <4>1, <4>3, <5>1 DEF RowIsTrue
      <4>4. QED
        BY <4>2, <4>3
    <3>4. QED
      BY <1>0, <2>1, <2>5, <3>2, <3>3 DEF RowsAreTrue
  <2>6. QED
    BY <2>3, <2>4, <2>5
<1>10. ASSUME PlanExhausted(r) PROVE RowsAreTrue(r)'
  <2> DEFINE k == terminalRow[r]
  <2>1. /\ UNCHANGED <<attempts, terminalRow>> /\ pc[r] = "tail" /\ pc'[r] = "done"
        /\ rows' = IF attempts[r] > 0 /\ k > 0 THEN Stamp(r, k, "stop") ELSE rows
    BY <1>10 DEF PlanExhausted, ExecTypeOK
  <2>2. CASE attempts[r] > 0 /\ k > 0
    <3>1. k \in 1..Len(rows[r]) /\ rows[r][k].attempt = attempts[r]
      BY <1>0, <2>1, <2>2 DEF RowsAreTrue
    <3>2. /\ Len(rows'[r]) = Len(rows[r])
          /\ \A j \in 1..Len(rows[r]) : j # k => rows'[r][j] = rows[r][j]
          /\ rows'[r][k].fallback = "stop"
          /\ rows'[r][k].attempt = rows[r][k].attempt
      BY <2>1, <2>2, <3>1, StampedRows DEF ExecTypeOK
    <3>3. ASSUME NEW i \in 1..Len(rows[r]) PROVE RowIsTrue(r, i)'
      <4>1. RowIsTrue(r, i) /\ rows[r][i].attempt \in Nat
        BY RowTypes DEF RowsAreTrue
      <4>2. CASE i = k
        BY <1>0, <2>1, <3>1, <3>2, <4>1, <4>2 DEF RowIsTrue
      <4>3. CASE i # k
        BY <1>0, <2>1, <3>2, <4>1, <4>3 DEF RowIsTrue
      <4>4. QED
        BY <4>2, <4>3
    <3>4. QED
      BY <2>1, <3>2, <3>3 DEF RowsAreTrue
  <2>3. CASE ~(attempts[r] > 0 /\ k > 0)
    <3>1. rows' = rows
      BY <2>1, <2>3
    <3>2. ASSUME NEW i \in 1..Len(rows[r]) PROVE RowIsTrue(r, i)'
      <4>1. RowIsTrue(r, i) /\ rows[r][i].attempt \in Nat
        BY RowTypes DEF RowsAreTrue
      <4>2. QED
        BY <1>0, <2>1, <2>3, <3>1, <4>1 DEF RowIsTrue
    <3>3. QED
      BY <2>1, <3>1, <3>2 DEF RowsAreTrue
  <2>4. QED
    BY <2>2, <2>3
<1>11. QED
  BY <1>1, <1>3, <1>4, <1>5, <1>6, <1>7, <1>8, <1>9, <1>10
  DEF Moved, Walk, CallReturns, ResolveFails, AcquireFails

\* Every step keeps every request's rows true.
LEMMA RowsInvStep == ExecInv /\ RowsInv /\ [ExecNext]_execVars => RowsInv'
<1> SUFFICES ASSUME ExecInv, RowsInv, [ExecNext]_execVars, NEW q \in Requests
             PROVE  RowsAreTrue(q)'
  BY DEF RowsInv
<1>1. ExecTypeOK /\ InHand /\ RowsAreTrue(q)
  BY DEF ExecInv, RowsInv
<1>2. CASE Moved(q)
  BY <1>1, <1>2, RowsStep
<1>3. CASE ~Moved(q)
  <2>1. Untouched(q)
    BY <1>1, <1>3, WhoMoves, OneMoves, NoneMoves
  <2>2. QED
    BY <1>1, <2>1, UntouchedWalk
<1>4. QED
  BY <1>2, <1>3

\* The evidence of a finished request tells what it did (fallback.go,
\* terminalRow): a row that says `fallback` was followed by another dial, one
\* that says `stop` was the last, and no dial is left undecided, for any row cap.
THEOREM EvidenceIsTrue == ExecSpec => []EvidenceTellsWhatHappened
<1>1. ExecInit => RowsInv
  <2>1. ASSUME ExecInit, NEW r \in Requests PROVE RowsAreTrue(r)
    <3>1. Len(rows[r]) = 0 /\ pc[r] = "idle"
      BY <2>1 DEF ExecInit
    <3>2. QED
      BY <3>1 DEF RowsAreTrue
  <2>2. QED
    BY <2>1 DEF RowsInv
<1>2. ExecTypeOK /\ RowsInv => EvidenceTellsWhatHappened
  <2> SUFFICES ASSUME ExecTypeOK, RowsInv, NEW r \in Requests, pc[r] = "done",
                      NEW i \in DOMAIN rows[r]
               PROVE  /\ rows[r][i].fallback = "fallback" => rows[r][i].attempt < attempts[r]
                      /\ rows[r][i].fallback = "stop" => rows[r][i].attempt = attempts[r]
                      /\ rows[r][i].kind = "dial" => rows[r][i].fallback # "none"
    BY DEF EvidenceTellsWhatHappened
  <2>1. i \in 1..Len(rows[r])
    BY LenProperties DEF ExecTypeOK
  <2>2. RowIsTrue(r, i) /\ rows[r][i].attempt \in Nat /\ attempts[r] \in Nat
    BY <2>1, RowTypes DEF RowsInv, RowsAreTrue, ExecTypeOK
  <2>3. QED
    BY <2>2 DEF RowIsTrue
<1>3. QED
  BY <1>1, <1>2, RowsInvStep, ExecInvariant, TypeCorrect, PTL DEF ExecSpec

-----------------------------------------------------------------------------
(***************************************************************************)
(* Slots.                                                                  *)
(***************************************************************************)

\* Every step gives a slot back at the first close only.
LEMMA FreedStep == ExecInv /\ FreedByClose /\ [ExecNext]_execVars => FreedByClose'
<1> SUFFICES ASSUME ExecInv, FreedByClose, [ExecNext]_execVars, NEW q \in Requests
             PROVE  /\ pc'[q] \in {"select", "resolve", "acquire", "dial", "call", "settle",
                                  "stream"} => ~freed'[q]
                    /\ pc'[q] = "closed" => freed'[q]
  BY DEF FreedByClose
<1>1. ExecTypeOK
  BY DEF ExecInv
<1>2. /\ pc[q] \in {"select", "resolve", "acquire", "dial", "call", "settle", "stream"} =>
            ~freed[q]
      /\ pc[q] = "closed" => freed[q]
  BY DEF FreedByClose
<1>3. ASSUME NEW pl \in Plans, NEW pol \in Policies, Start(q, pl, pol)
      PROVE  pc'[q] = "select" /\ ~freed'[q]
  BY <1>1, <1>3 DEF Start, ExecTypeOK
<1>4. ASSUME Walk(q)
      PROVE  /\ freed'[q] = freed[q]
             /\ pc[q] \in {"select", "resolve", "acquire", "dial", "settle", "tail"}
             /\ pc[q] = "tail" => pc'[q] = "done"
             /\ pc'[q] # "closed"
  BY <1>1, <1>4 DEF Walk, Select, ResolveFails, AcquireFails, Skip, Resolve, Acquire, Dial,
                    Settle, PlanExhausted, ExecTypeOK
<1>5. ASSUME CallReturns(q)
      PROVE  freed'[q] = freed[q] /\ pc[q] = "call" /\ pc'[q] \in {"settle", "stream"}
  BY <1>1, <1>5 DEF CallReturns, CallFails, CallSucceeds, ExecTypeOK
<1>6. ASSUME CloseBody(q) \/ FreeSlot(q) \/ Return(q)
      PROVE  pc'[q] \in {"closing", "closed", "done"} /\ (pc'[q] = "closed" => freed'[q])
  BY <1>1, <1>6 DEF CloseBody, FreeSlot, Return, ExecTypeOK
<1>7. CASE Moved(q)
  BY <1>2, <1>3, <1>4, <1>5, <1>6, <1>7 DEF Moved
<1>8. CASE ~Moved(q)
  <2>1. Untouched(q)
    BY <1>1, <1>8, WhoMoves, OneMoves, NoneMoves
  <2>2. QED
    BY <1>2, <2>1 DEF Untouched
<1>9. QED
  BY <1>7, <1>8

\* The requests other than the one that moves own what they owned.
LEMMA OtherHolders ==
    ASSUME ExecTypeOK, NEW r \in Requests, Moved(r), NEW e \in Egresses
    PROVE  Holders(e)' \ {r} = Holders(e) \ {r}
<1>1. ASSUME NEW q \in Requests, q # r
      PROVE  q \in Holders(e)' <=> q \in Holders(e)
  <2>1. Untouched(q)
    BY <1>1, OneMoves
  <2>2. QED
    BY <2>1 DEF Untouched, Holders, HoldsSlot
<1>2. Holders(e)' \subseteq Requests /\ Holders(e) \subseteq Requests
  BY DEF Holders
<1>3. QED
  BY <1>1, <1>2

\* The owners of an egress are finitely many.
LEMMA HoldersFinite ==
    ASSUME NEW e \in Egresses
    PROVE  IsFiniteSet(Holders(e)) /\ Cardinality(Holders(e)) \in Nat
<1>1. Holders(e) \subseteq Requests
  BY DEF Holders
<1>2. QED
  BY <1>1, FS_Subset, FS_CardinalityType, ExecutorAssumption

\* A request that did not own a slot of e and now does is one more owner.
LEMMA HolderAdded ==
    ASSUME ExecTypeOK, NEW r \in Requests, Moved(r), NEW e \in Egresses,
           r \notin Holders(e), r \in Holders(e)'
    PROVE  Cardinality(Holders(e)') = Cardinality(Holders(e)) + 1
<1>1. Holders(e)' = Holders(e) \cup {r}
  BY OtherHolders
<1>2. QED
  BY <1>1, HoldersFinite, FS_AddElement

\* A request that owned a slot of e and no longer does is one owner less.
LEMMA HolderRemoved ==
    ASSUME ExecTypeOK, NEW r \in Requests, Moved(r), NEW e \in Egresses,
           r \in Holders(e), r \notin Holders(e)'
    PROVE  Cardinality(Holders(e)') = Cardinality(Holders(e)) - 1
<1>1. Holders(e)' = Holders(e) \ {r}
  BY OtherHolders
<1>2. QED
  BY <1>1, HoldersFinite, FS_RemoveElement

\* A request that owns what it owned leaves the owners as they were.
LEMMA HolderKept ==
    ASSUME ExecTypeOK, NEW r \in Requests, Moved(r), NEW e \in Egresses,
           r \in Holders(e) <=> r \in Holders(e)'
    PROVE  Holders(e)' = Holders(e)
BY OtherHolders

\* A step that moves a request between places where it owns nothing, or the
\* same slot, keeps the balance.
LEMMA SlotKept ==
    ASSUME ExecTypeOK, SlotsBalanced, NEW r \in Requests, Moved(r), UNCHANGED cur,
           \/ ~HoldsSlot(r) /\ ~HoldsSlot(r)'
           \/ HoldsSlot(r) /\ HoldsSlot(r)' /\ UNCHANGED <<sel, policy>>
    PROVE  SlotsBalanced' /\ \A e \in Egresses : r \in Holders(e)' => r \in Holders(e)
<1>1. ASSUME NEW e \in Egresses PROVE r \in Holders(e) <=> r \in Holders(e)'
  BY DEF Holders
<1>2. ASSUME NEW e \in Egresses PROVE Holders(e)' = Holders(e)
  BY <1>1, HolderKept
<1>3. QED
  BY <1>1, <1>2 DEF SlotsBalanced

\* Giving a slot back, or nothing when the egress is uncapped, keeps the balance.
LEMMA SlotReleased ==
    ASSUME CappedAlike, ExecTypeOK, SlotsBalanced, NEW r \in Requests, Moved(r),
           sel[r] \in Egresses, HoldsSlot(r), ~HoldsSlot(r)', cur' = Released(cur, sel[r])
    PROVE  SlotsBalanced' /\ \A e \in Egresses : r \notin Holders(e)'
<1>1. ASSUME NEW e \in Egresses PROVE r \notin Holders(e)'
  BY DEF Holders
<1>2. policy[r] \in Policies /\ policy[r].cap[sel[r]] \in Nat /\ cur[sel[r]] \in Nat
  BY PolicyType DEF ExecTypeOK
<1>3. ASSUME NEW e \in Egresses PROVE cur'[e] = Cardinality(Holders(e)')
  <2>0. cur[e] = Cardinality(Holders(e)) /\ Cardinality(Holders(e)) \in Nat
    BY HoldersFinite DEF SlotsBalanced
  <2>1. CASE e # sel[r]
    <3>1. r \notin Holders(e)
      BY <2>1 DEF Holders
    <3>2. Holders(e)' = Holders(e)
      BY <1>1, <3>1, HolderKept
    <3>3. cur'[e] = cur[e]
      BY <2>1 DEF Released, ExecTypeOK
    <3>4. QED
      BY <2>0, <3>2, <3>3
  <2>2. CASE e = sel[r] /\ policy[r].cap[e] > 0
    <3>1. r \in Holders(e)
      BY <2>2 DEF Holders
    <3>2. Cardinality(Holders(e)') = Cardinality(Holders(e)) - 1
      BY <1>1, <3>1, HolderRemoved
    <3>3. Cardinality(Holders(e)) # 0
      BY <3>1, HoldersFinite, FS_EmptySet
    <3>4. cur'[e] = cur[e] - 1
      BY <2>0, <2>2, <3>3 DEF Released, ExecTypeOK
    <3>5. QED
      BY <2>0, <3>2, <3>4
  <2>3. CASE e = sel[r] /\ ~(policy[r].cap[e] > 0)
    <3>1. \A p \in Policies : p.cap[e] = 0
      BY <1>2, <2>3 DEF CappedAlike
    <3>2. Holders(e) = {}
      BY <3>1 DEF Holders, ExecTypeOK
    <3>3. Holders(e)' = Holders(e)
      BY <1>1, <3>2, HolderKept
    <3>4. cur[e] = 0
      BY <2>0, <3>2, FS_EmptySet
    <3>5. cur' = cur
      BY <2>3, <3>4 DEF Released
    <3>6. QED
      BY <2>0, <3>3, <3>5
  <2>4. QED
    BY <2>1, <2>2, <2>3
<1>4. QED
  BY <1>1, <1>3 DEF SlotsBalanced

\* Acquiring makes one more owner, within the cap of the one admitted.
LEMMA SlotAcquired ==
    ASSUME ExecTypeOK, InHand, SlotsBalanced, NEW r \in Requests, Acquire(r)
    PROVE  /\ SlotsBalanced'
           /\ \A e \in Egresses : r \in Holders(e)' => Cardinality(Holders(e)') <= policy[r].cap[e]
<1>1. /\ pc[r] = "acquire" /\ pc'[r] = "dial" /\ UNCHANGED <<sel, policy>> /\ sel[r] \in Egresses
      /\ AcquireOK(cur, sel[r], policy[r].cap[sel[r]])
      /\ cur' = Acquired(cur, sel[r], policy[r].cap[sel[r]])
  BY DEF Acquire, InHand, ExecTypeOK
<1>2. Moved(r)
  BY DEF Moved, Walk
<1>3. policy[r].cap[sel[r]] \in Nat /\ cur \in [Egresses -> Nat]
  BY <1>1, PolicyType DEF ExecTypeOK
<1>4. ASSUME NEW e \in Egresses
      PROVE  /\ cur'[e] = Cardinality(Holders(e)')
             /\ r \in Holders(e)' => Cardinality(Holders(e)') <= policy[r].cap[e]
  <2>0. cur[e] = Cardinality(Holders(e)) /\ Cardinality(Holders(e)) \in Nat
    BY HoldersFinite DEF SlotsBalanced
  <2>1. r \notin Holders(e)
    BY <1>1 DEF Holders, HoldsSlot
  <2>2. r \in Holders(e)' <=> sel[r] = e /\ policy[r].cap[e] > 0
    BY <1>1 DEF Holders, HoldsSlot
  <2>3. CASE sel[r] = e /\ policy[r].cap[e] > 0
    <3>1. Cardinality(Holders(e)') = Cardinality(Holders(e)) + 1
      BY <1>2, <2>1, <2>2, <2>3, HolderAdded
    <3>2. cur'[e] = cur[e] + 1 /\ cur[e] < policy[r].cap[e]
      BY <1>1, <1>3, <2>3 DEF Acquired, AcquireOK
    <3>3. QED
      BY <1>3, <2>0, <2>3, <3>1, <3>2
  <2>4. CASE ~(sel[r] = e /\ policy[r].cap[e] > 0)
    <3>1. Holders(e)' = Holders(e)
      BY <1>2, <2>1, <2>2, <2>4, HolderKept
    <3>2. cur'[e] = cur[e]
      BY <1>1, <1>3, <2>4 DEF Acquired
    <3>3. QED
      BY <2>0, <2>2, <2>4, <3>1, <3>2
  <2>5. QED
    BY <2>3, <2>4
<1>5. QED
  BY <1>4 DEF SlotsBalanced

\* Whatever a request does, the balance is kept, and it owns a new slot only
\* within its cap.
LEMMA SlotsStep ==
    ASSUME CappedAlike, ExecInv, FreedByClose, SlotsBalanced, NEW r \in Requests, Moved(r)
    PROVE  /\ SlotsBalanced'
           /\ \A e \in Egresses : r \notin Holders(e) /\ r \in Holders(e)' =>
                 Cardinality(Holders(e)') <= policy[r].cap[e]
<1>0. ExecTypeOK /\ InHand
  BY DEF ExecInv
<1> DEFINE Goal == /\ SlotsBalanced'
                   /\ \A e \in Egresses : r \notin Holders(e) /\ r \in Holders(e)' =>
                         Cardinality(Holders(e)') <= policy[r].cap[e]
<1>1. ASSUME NEW pl \in Plans, NEW pol \in Policies, Start(r, pl, pol) PROVE Goal
  <2>1. ~HoldsSlot(r) /\ ~HoldsSlot(r)' /\ UNCHANGED cur
    BY <1>0, <1>1 DEF Start, HoldsSlot, ExecTypeOK
  <2>2. QED
    BY <1>0, <2>1, SlotKept
<1>2. ASSUME Walk(r), ~Acquire(r), ~Dial(r) PROVE Goal
  <2>1. /\ pc[r] \in {"select", "resolve", "acquire", "settle", "tail"}
        /\ pc'[r] \in {"select", "resolve", "acquire", "tail", "done"}
        /\ UNCHANGED cur
    BY <1>0, <1>2 DEF Walk, Select, ResolveFails, AcquireFails, Skip, Resolve, Settle,
                      PlanExhausted, ExecTypeOK
  <2>2. ~HoldsSlot(r) /\ ~HoldsSlot(r)'
    BY <2>1 DEF HoldsSlot
  <2>3. QED
    BY <1>0, <2>1, <2>2, SlotKept
<1>3. ASSUME Acquire(r) PROVE Goal
  BY <1>0, <1>3, SlotAcquired
<1>4. ASSUME Dial(r) PROVE Goal
  <2>1. HoldsSlot(r) /\ HoldsSlot(r)' /\ UNCHANGED <<cur, sel, policy>>
    BY <1>0, <1>4 DEF Dial, HoldsSlot, ExecTypeOK
  <2>2. QED
    BY <1>0, <2>1, SlotKept
<1>5. ASSUME NEW o \in Outcomes, CallFails(r, o) PROVE Goal
  <2>1. /\ HoldsSlot(r) /\ ~HoldsSlot(r)' /\ cur' = Released(cur, sel[r])
        /\ sel[r] \in Egresses
    BY <1>0, <1>5 DEF CallFails, HoldsSlot, ExecTypeOK, InHand
  <2>2. QED
    BY <1>0, <2>1, SlotReleased
<1>6. ASSUME NEW o \in Outcomes, CallSucceeds(r, o) PROVE Goal
  <2>1. HoldsSlot(r) /\ HoldsSlot(r)' /\ UNCHANGED <<cur, sel, policy>>
    BY <1>0, <1>6 DEF CallSucceeds, HoldsSlot, ExecTypeOK
  <2>2. QED
    BY <1>0, <2>1, SlotKept
<1>7. ASSUME CloseBody(r) PROVE Goal
  <2>1. /\ pc[r] \in {"stream", "closed"} /\ pc'[r] = "closing"
        /\ UNCHANGED <<cur, sel, policy, freed>>
    BY <1>0, <1>7 DEF CloseBody, ExecTypeOK
  <2>2. \/ ~HoldsSlot(r) /\ ~HoldsSlot(r)'
        \/ HoldsSlot(r) /\ HoldsSlot(r)'
    BY <2>1 DEF HoldsSlot, FreedByClose
  <2>3. QED
    BY <1>0, <2>1, <2>2, SlotKept
<1>8. ASSUME FreeSlot(r) PROVE Goal
  <2>1. /\ pc[r] = "closing" /\ pc'[r] = "closed" /\ sel[r] \in Egresses
        /\ cur' = IF freed[r] THEN cur ELSE Released(cur, sel[r])
    BY <1>0, <1>8 DEF FreeSlot, ExecTypeOK, InHand
  <2>2. ~HoldsSlot(r)' /\ (HoldsSlot(r) <=> ~freed[r])
    BY <2>1 DEF HoldsSlot
  <2>3. CASE freed[r]
    BY <1>0, <2>1, <2>2, <2>3, SlotKept
  <2>4. CASE ~freed[r]
    BY <1>0, <2>1, <2>2, <2>4, SlotReleased
  <2>5. QED
    BY <2>3, <2>4
<1>9. ASSUME Return(r) PROVE Goal
  <2>1. ~HoldsSlot(r) /\ ~HoldsSlot(r)' /\ UNCHANGED cur
    BY <1>0, <1>9 DEF Return, HoldsSlot, ExecTypeOK
  <2>2. QED
    BY <1>0, <2>1, SlotKept
<1>10. QED
  BY <1>1, <1>2, <1>3, <1>4, <1>5, <1>6, <1>7, <1>8, <1>9 DEF Moved, CallReturns

SlotsInv == ExecInv /\ FreedByClose /\ SlotsBalanced

\* No step of the executor loses or invents a slot.
LEMMA SlotsInvStep ==
    ASSUME CappedAlike
    PROVE  SlotsInv /\ [ExecNext]_execVars => SlotsInv'
<1> SUFFICES ASSUME SlotsInv, [ExecNext]_execVars PROVE SlotsInv'
  OBVIOUS
<1>1. ExecInv' /\ FreedByClose'
  BY ExecInvStep, FreedStep DEF SlotsInv
<1>2. ASSUME Tick \/ UNCHANGED execVars PROVE SlotsBalanced'
  <2>1. UNCHANGED <<pc, sel, policy, freed, cur>>
    BY <1>2 DEF Tick, execVars, localVars
  <2>2. ASSUME NEW e \in Egresses PROVE Holders(e)' = Holders(e)
    BY <2>1 DEF Holders, HoldsSlot
  <2>3. QED
    BY <2>1, <2>2 DEF SlotsInv, SlotsBalanced
<1>3. SlotsBalanced'
  BY <1>2, WhoMoves, SlotsStep DEF SlotsInv
<1>4. QED
  BY <1>1, <1>3 DEF SlotsInv

\* No slot is owned before the first request.
LEMMA SlotsInvInit == ExecInit => SlotsInv
<1> SUFFICES ASSUME ExecInit PROVE SlotsInv
  OBVIOUS
<1>1. \A e \in Egresses : Holders(e) = {} /\ cur[e] = 0
  BY DEF ExecInit, Holders, HoldsSlot
<1>2. SlotsBalanced
  BY <1>1, FS_EmptySet DEF SlotsBalanced
<1>3. FreedByClose
  BY DEF ExecInit, FreedByClose
<1>4. QED
  BY <1>2, <1>3, ExecInvInit DEF SlotsInv

\* "A slot acquired for an attempt is released exactly once" (fallback.go): as
\* long as every generation caps an egress or none does, the limiter's counter
\* is the number of requests that own a slot.
THEOREM SlotsReturn ==
    ASSUME CappedAlike
    PROVE  ExecSpec => []SlotsBalanced
<1>1. SlotsInv => SlotsBalanced
  BY DEF SlotsInv
<1>2. SlotsInv /\ [ExecNext]_execVars => SlotsInv'
  BY SlotsInvStep
<1>3. QED
  BY <1>1, <1>2, SlotsInvInit, PTL DEF ExecSpec

\* A request is admitted only while fewer requests than its own cap own a slot
\* (limits.go, Acquire), as long as every generation caps an egress or none does.
THEOREM AdmissionIsCapped ==
    ASSUME CappedAlike
    PROVE  ExecSpec => AdmissionRespectsCap
<1> DEFINE Admits == \A r \in Requests, e \in Egresses :
                        r \notin Holders(e) /\ r \in Holders(e)' =>
                            Cardinality(Holders(e)') <= policy[r].cap[e]
<1>1. SlotsInv /\ [ExecNext]_execVars => [Admits]_execVars
  <2> SUFFICES ASSUME SlotsInv, ExecNext, ~UNCHANGED execVars,
                      NEW r \in Requests, NEW e \in Egresses,
                      r \notin Holders(e), r \in Holders(e)'
               PROVE  Cardinality(Holders(e)') <= policy[r].cap[e]
    OBVIOUS
  <2>1. ASSUME Untouched(r) PROVE FALSE
    BY <2>1 DEF Untouched, Holders, HoldsSlot
  <2>2. Moved(r)
    BY <2>1, WhoMoves, OneMoves, NoneMoves DEF SlotsInv, ExecInv
  <2>3. QED
    BY <2>2, SlotsStep DEF SlotsInv
<1>2. SlotsInv /\ [ExecNext]_execVars => SlotsInv'
  BY SlotsInvStep
<1>3. QED
  BY <1>1, <1>2, SlotsInvInit, PTL DEF ExecSpec, AdmissionRespectsCap

\* No more requests own a slot than the largest cap in use.
OwnersWithinCap ==
    \A e \in Egresses : \E p \in Policies : Cardinality(Holders(e)) <= p.cap[e]

\* Only an admission adds an owner, and it is within a cap.
LEMMA OwnersStep ==
    ASSUME CappedAlike
    PROVE  SlotsInv /\ OwnersWithinCap /\ [ExecNext]_execVars => OwnersWithinCap'
<1> SUFFICES ASSUME SlotsInv, OwnersWithinCap, [ExecNext]_execVars, NEW e \in Egresses
             PROVE  \E p \in Policies : Cardinality(Holders(e)') <= p.cap[e]
  BY DEF OwnersWithinCap
<1>0. ExecTypeOK
  BY DEF SlotsInv, ExecInv
<1>1. PICK p \in Policies : Cardinality(Holders(e)) <= p.cap[e]
  BY DEF OwnersWithinCap
<1>2. ASSUME Holders(e)' \subseteq Holders(e)
      PROVE  \E pol \in Policies : Cardinality(Holders(e)') <= pol.cap[e]
  <2>1. /\ Cardinality(Holders(e)') <= Cardinality(Holders(e))
        /\ Cardinality(Holders(e)') \in Nat /\ Cardinality(Holders(e)) \in Nat
    BY <1>2, HoldersFinite, FS_Subset, FS_CardinalityType
  <2>2. p.cap[e] \in Nat
    BY PolicyType
  <2>3. QED
    BY <1>1, <2>1, <2>2
<1>3. ASSUME NEW r \in Requests, Moved(r)
      PROVE  \E pol \in Policies : Cardinality(Holders(e)') <= pol.cap[e]
  <2>1. CASE r \notin Holders(e) /\ r \in Holders(e)'
    <3>1. Cardinality(Holders(e)') <= policy[r].cap[e]
      BY <1>3, <2>1, SlotsStep DEF SlotsInv
    <3>2. QED
      BY <1>0, <3>1 DEF ExecTypeOK
  <2>2. CASE ~(r \notin Holders(e) /\ r \in Holders(e)')
    BY <1>0, <1>2, <1>3, <2>2, OtherHolders
  <2>3. QED
    BY <2>1, <2>2
<1>4. ASSUME Tick \/ UNCHANGED execVars PROVE Holders(e)' = Holders(e)
  BY <1>4 DEF Tick, execVars, localVars, Holders, HoldsSlot
<1>5. QED
  BY <1>2, <1>3, <1>4, WhoMoves

\* "Keeps the cap a true upper bound on held connections" (fallback.go): true
\* as long as every generation caps an egress or none does.  The hypothesis is
\* needed: the run of MCExecutor_mixed.cfg breaks the bound without it.
THEOREM CapBoundsConnections ==
    ASSUME CappedAlike
    PROVE  ExecSpec => []CapIsUpperBound
<1>1. ExecInit => OwnersWithinCap
  <2> SUFFICES ASSUME ExecInit, NEW e \in Egresses
               PROVE  \E p \in Policies : Cardinality(Holders(e)) <= p.cap[e]
    BY DEF OwnersWithinCap
  <2>1. PICK p \in Policies : policy = [r \in Requests |-> p]
    BY DEF ExecInit
  <2>2. Cardinality(Holders(e)) = 0
    BY FS_EmptySet DEF ExecInit, Holders, HoldsSlot
  <2>3. QED
    BY <2>2, PolicyType
<1>2. SlotsInv /\ OwnersWithinCap => CapIsUpperBound
  <2> SUFFICES ASSUME OwnersWithinCap, NEW e \in Egresses
               PROVE  \E p \in Policies : Cardinality(Connections(e)) <= p.cap[e]
    BY DEF CapIsUpperBound
  <2>1. PICK p \in Policies : Cardinality(Holders(e)) <= p.cap[e]
    BY DEF OwnersWithinCap
  <2>2. Connections(e) \subseteq Holders(e)
    BY DEF Connections, Holders, HoldsSlot
  <2>3. /\ Cardinality(Connections(e)) <= Cardinality(Holders(e))
        /\ Cardinality(Connections(e)) \in Nat /\ Cardinality(Holders(e)) \in Nat
    BY <2>2, HoldersFinite, FS_Subset, FS_CardinalityType
  <2>4. p.cap[e] \in Nat
    BY PolicyType
  <2>5. QED
    BY <2>1, <2>3, <2>4
<1>3. SlotsInv /\ [ExecNext]_execVars => SlotsInv'
  BY SlotsInvStep
<1>4. SlotsInv /\ OwnersWithinCap /\ [ExecNext]_execVars => OwnersWithinCap'
  BY OwnersStep
<1>5. QED
  BY <1>1, <1>2, <1>3, <1>4, SlotsInvInit, PTL DEF ExecSpec

=============================================================================
