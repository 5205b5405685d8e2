------------------------------ MODULE Executor ------------------------------
(***************************************************************************)
(* upstream.Executor (internal/upstream/fallback.go): every request walks  *)
(* its own pinned plan of egresses, dialing the next one only after a      *)
(* failure that is provably replay-safe, while all requests share the      *)
(* concurrency limiter and the health registry.                            *)
(*                                                                         *)
(* One step is what ExecuteObserved does between two accesses to shared    *)
(* state: the selector, the recorder and the attempt counters are local to *)
(* the request, so they move with the shared access they precede.  The     *)
(* logical upstream call itself is a choice over Outcomes, the results     *)
(* Client.DoClassifiedObserved can report (module UpstreamCall).           *)
(***************************************************************************)
EXTENDS Naturals, Sequences, FiniteSets, Provenance, Limiter, Health

CONSTANTS
    Requests,     \* goroutines serving a request; one is reused when it is done
    Egresses,     \* egress ids
    Keys,         \* health identities (id + transport signature)
    Policies,     \* the AttemptPolicy of every config generation in use
    Outcomes,     \* results of a logical upstream call
    MaxRows,      \* config.EvidenceMaxRows
    NoEgress      \* the zero routing.Selection

\* AttemptPolicy.Budget
Budget(p) == IF ~p.fallback \/ p.maxAttempts < 1 THEN 1 ELSE p.maxAttempts

\* AttemptPolicy, with the snapshot's cap and health identity of each egress.
AttemptPolicy ==
    [fallback : BOOLEAN, maxAttempts : Nat, health : HealthPolicy,
     cap : [Egresses -> Nat], key : [Egresses -> Keys]]

\* A route lists an egress once (File.Validate) and the scheduler permutes it.
Plans == {s \in UNION {[1..n -> Egresses] : n \in 0..Cardinality(Egresses)} :
            \A i, j \in DOMAIN s : s[i] = s[j] => i = j}

ASSUME ExecutorAssumption ==
    /\ IsFiniteSet(Egresses) /\ IsFiniteSet(Requests)
    /\ NoEgress \notin Egresses
    /\ Policies \subseteq AttemptPolicy
    /\ \A o \in Outcomes : SoundOutcome(o)
    /\ MaxRows \in Nat

VARIABLES
    pc,           \* where the request stands
    plan, policy, \* its RoutePlan and AttemptPolicy
    pos,          \* PlanSelector.next, 1-based
    prev,         \* the selection that just failed
    sel,          \* the egress in hand (lastID after the loop)
    attempts,     \* dials made
    verdict,      \* lastFailure / the returned failure
    rows,         \* Recorder.rows
    terminalRow,  \* index of the row stamped `fallback` last, 0 for -1
    occupancy,    \* inFlight read after the acquire
    closes,       \* how often the response body was closed
    freed,        \* slotReleaseBody.once has fired
    cur,          \* Limiter.cur
    states,       \* Registry.states
    \* Not in the program, for the properties only:
    dialed,       \* egresses this request was dialed through
    sentOn        \* attempts that may have put a request byte on the wire

localVars == <<pc, plan, policy, pos, prev, sel, attempts, verdict, rows,
               terminalRow, occupancy, closes, freed, dialed, sentOn>>
execVars == <<localVars, cur, states>>

PCs == {"idle", "select", "resolve", "acquire", "dial", "call", "settle",
        "tail", "stream", "closing", "closed", "done"}
Row == [kind : {"skip", "dial"}, egress : Egresses, attempt : Nat, inFlight : Nat,
        fallback : {"none", "fallback", "stop"}]

\* Every variable stays within its type.
ExecTypeOK ==
    /\ pc \in [Requests -> PCs]
    /\ plan \in [Requests -> Seq(Egresses)]
    /\ policy \in [Requests -> Policies]
    /\ pos \in [Requests -> Nat \ {0}]
    /\ prev \in [Requests -> Egresses \cup {NoEgress}]
    /\ sel \in [Requests -> Egresses \cup {NoEgress}]
    /\ attempts \in [Requests -> Nat]
    /\ verdict \in [Requests -> Failure]
    /\ rows \in [Requests -> Seq(Row)]
    /\ terminalRow \in [Requests -> Nat]
    /\ occupancy \in [Requests -> Nat]
    /\ closes \in [Requests -> 0..2]
    /\ freed \in [Requests -> BOOLEAN]
    /\ cur \in [Egresses -> Nat]
    /\ states \in [Keys -> HealthState]
    /\ dialed \in [Requests -> SUBSET Egresses]
    /\ sentOn \in [Requests -> SUBSET Nat]

ExecInit ==
    /\ pc = [r \in Requests |-> "idle"]
    /\ plan = [r \in Requests |-> <<>>]
    /\ \E p \in Policies : policy = [r \in Requests |-> p]
    /\ pos = [r \in Requests |-> 1]
    /\ prev = [r \in Requests |-> NoEgress]
    /\ sel = [r \in Requests |-> NoEgress]
    /\ attempts = [r \in Requests |-> 0]
    /\ verdict = [r \in Requests |-> NoDialFailure]
    /\ rows = [r \in Requests |-> <<>>]
    /\ terminalRow = [r \in Requests |-> 0]
    /\ occupancy = [r \in Requests |-> 0]
    /\ closes = [r \in Requests |-> 0]
    /\ freed = [r \in Requests |-> FALSE]
    /\ cur = [e \in Egresses |-> 0]
    /\ states = [k \in Keys |-> Unknown]
    /\ dialed = [r \in Requests |-> {}]
    /\ sentOn = [r \in Requests |-> {}]

-----------------------------------------------------------------------------
\* Recorder.Append: rows past the cap are dropped.
Recorded(rs, row) == IF Len(rs) >= MaxRows THEN rs ELSE Append(rs, row)

\* A skipped plan entry consumes no attempt; without fallback it ends the plan.
SkipRow(r) == [kind |-> "skip", egress |-> sel[r], attempt |-> 0, inFlight |-> 0,
               fallback |-> "none"]
Skip(r) ==
    /\ rows' = [rows EXCEPT ![r] = Recorded(@, SkipRow(r))]
    /\ pc' = [pc EXCEPT ![r] = IF policy[r].fallback THEN "select" ELSE "tail"]
    /\ UNCHANGED <<plan, policy, pos, prev, sel, attempts, verdict, terminalRow,
                   occupancy, closes, freed, cur, states, dialed, sentOn>>

\* ExecuteObserved is entered with a plan and a policy.
Start(r, pl, pol) ==
    /\ pc[r] \in {"idle", "done"}
    /\ pc' = [pc EXCEPT ![r] = "select"]
    /\ plan' = [plan EXCEPT ![r] = pl]
    /\ policy' = [policy EXCEPT ![r] = pol]
    /\ pos' = [pos EXCEPT ![r] = 1]
    /\ prev' = [prev EXCEPT ![r] = NoEgress]
    /\ sel' = [sel EXCEPT ![r] = NoEgress]
    /\ attempts' = [attempts EXCEPT ![r] = 0]
    /\ verdict' = [verdict EXCEPT ![r] = NoDialFailure]
    /\ rows' = [rows EXCEPT ![r] = <<>>]
    /\ terminalRow' = [terminalRow EXCEPT ![r] = 0]
    /\ occupancy' = [occupancy EXCEPT ![r] = 0]
    /\ closes' = [closes EXCEPT ![r] = 0]
    /\ freed' = [freed EXCEPT ![r] = FALSE]
    /\ dialed' = [dialed EXCEPT ![r] = {}]
    /\ sentOn' = [sentOn EXCEPT ![r] = {}]
    /\ UNCHANGED <<cur, states>>

\* PlanSelector.Next: the first entry from pos on that is not the one excluded.
Offers(r, i) ==
    /\ i \in pos[r]..Len(plan[r])
    /\ plan[r][i] # prev[r]
    /\ \A j \in pos[r]..(i - 1) : plan[r][j] = prev[r]

\* Mutant of Select: the cursor stays on the entry it offered.
SelectAgain(r) ==
    /\ pc[r] = "select"
    /\ \E i \in pos[r]..Len(plan[r]) :
          /\ Offers(r, i)
          /\ sel' = [sel EXCEPT ![r] = plan[r][i]]
    /\ pc' = [pc EXCEPT ![r] = "resolve"]
    /\ UNCHANGED <<plan, policy, pos, prev, attempts, verdict, rows, terminalRow,
                   occupancy, closes, freed, cur, states, dialed, sentOn>>

Select(r) ==
    /\ pc[r] = "select"
    /\ \/ \E i \in pos[r]..Len(plan[r]) :
             /\ Offers(r, i)
             /\ sel' = [sel EXCEPT ![r] = plan[r][i]]
             /\ pos' = [pos EXCEPT ![r] = i + 1]
             /\ pc' = [pc EXCEPT ![r] = "resolve"]
       \/ /\ \A i \in pos[r]..Len(plan[r]) : ~Offers(r, i)
          /\ pos' = [pos EXCEPT ![r] = IF pos[r] > Len(plan[r]) THEN pos[r] ELSE Len(plan[r]) + 1]
          /\ pc' = [pc EXCEPT ![r] = "tail"]
          /\ UNCHANGED sel
    /\ UNCHANGED <<plan, policy, prev, attempts, verdict, rows, terminalRow,
                   occupancy, closes, freed, cur, states, dialed, sentOn>>

\* clientFor cannot build the transport (or the snapshot lost the egress).
ResolveFails(r) == pc[r] = "resolve" /\ Skip(r)

Resolve(r) ==
    /\ pc[r] = "resolve"
    /\ pc' = [pc EXCEPT ![r] = "acquire"]
    /\ UNCHANGED <<plan, policy, pos, prev, sel, attempts, verdict, rows, terminalRow,
                   occupancy, closes, freed, cur, states, dialed, sentOn>>

\* slots.Acquire fails: the slot filled up since the plan was made.
AcquireFails(r) ==
    /\ pc[r] = "acquire"
    /\ ~AcquireOK(cur, sel[r], policy[r].cap[sel[r]])
    /\ Skip(r)

Acquire(r) ==
    /\ pc[r] = "acquire"
    /\ AcquireOK(cur, sel[r], policy[r].cap[sel[r]])
    /\ cur' = Acquired(cur, sel[r], policy[r].cap[sel[r]])
    /\ attempts' = [attempts EXCEPT ![r] = @ + 1]
    /\ pc' = [pc EXCEPT ![r] = "dial"]
    /\ UNCHANGED <<plan, policy, pos, prev, sel, verdict, rows, terminalRow,
                   occupancy, closes, freed, states, dialed, sentOn>>

\* InFlight is read under its own lock, after the acquire; then the call opens
\* its connection.
Dial(r) ==
    /\ pc[r] = "dial"
    /\ occupancy' = [occupancy EXCEPT ![r] =
                        IF policy[r].cap[sel[r]] > 0 THEN InFlight(cur, sel[r]) ELSE 0]
    /\ dialed' = [dialed EXCEPT ![r] = @ \cup {sel[r]}]
    /\ pc' = [pc EXCEPT ![r] = "call"]
    /\ UNCHANGED <<plan, policy, pos, prev, sel, attempts, verdict, rows, terminalRow,
                   closes, freed, cur, states, sentOn>>

\* What the call may have put on the wire, whatever it reports.
Sent(r, o) == IF o.sent THEN sentOn[r] \cup {attempts[r]} ELSE sentOn[r]

DialRow(r) == [kind |-> "dial", egress |-> sel[r], attempt |-> attempts[r],
               inFlight |-> occupancy[r], fallback |-> "none"]

\* DoClassifiedObserved reports a failure: its row is appended and annotated,
\* and the slot is released at once.
CallFails(r, o) ==
    /\ pc[r] = "call"
    /\ ~o.ok
    /\ verdict' = [verdict EXCEPT ![r] = o.failure]
    /\ sentOn' = [sentOn EXCEPT ![r] = Sent(r, o)]
    /\ rows' = [rows EXCEPT ![r] = Recorded(@, DialRow(r))]
    /\ cur' = Released(cur, sel[r])
    /\ pc' = [pc EXCEPT ![r] = "settle"]
    /\ UNCHANGED <<plan, policy, pos, prev, sel, attempts, terminalRow, occupancy,
                   closes, freed, states, dialed>>

\* annotateDecision: the last row, if this attempt's row was not dropped.
StampedRow(r) ==
    IF rows[r] # <<>> /\ rows[r][Len(rows[r])].attempt = attempts[r] THEN Len(rows[r]) ELSE 0
Stamp(r, i, decision) ==
    IF i = 0 THEN rows ELSE [rows EXCEPT ![r][i].fallback = decision]

\* Mutants of Moves: any transport failure moves on; only a failure of the
\* egress itself moves on.
MovesUnproved(r) == verdict[r].origin = "transport" /\ attempts[r] < Budget(policy[r])
MovesOnFault(r) == /\ ReplaySafe(verdict[r]) /\ MarksEgressHealth(verdict[r])
                   /\ attempts[r] < Budget(policy[r])

\* The failover decision on a failed attempt.
Moves(r) == ReplaySafe(verdict[r]) /\ attempts[r] < Budget(policy[r])

\* The health mark and what follows from the decision.
Settle(r) ==
    LET k == policy[r].key[sel[r]] IN
    /\ pc[r] = "settle"
    /\ states' = IF MarksEgressHealth(verdict[r])
                 THEN [states EXCEPT ![k] = Observed(@, FALSE, policy[r].health)]
                 ELSE states
    /\ rows' = Stamp(r, StampedRow(r), IF Moves(r) THEN "fallback" ELSE "stop")
    /\ terminalRow' = [terminalRow EXCEPT ![r] = IF Moves(r) THEN StampedRow(r) ELSE @]
    /\ prev' = [prev EXCEPT ![r] = IF Moves(r) THEN sel[r] ELSE @]
    /\ pc' = [pc EXCEPT ![r] = IF Moves(r) THEN "select" ELSE "done"]
    /\ UNCHANGED <<plan, policy, pos, sel, attempts, verdict, occupancy, closes,
                   freed, cur, dialed, sentOn>>

\* DoClassifiedObserved returns a live response: the egress is observed
\* healthy and the slot rides the response body.
CallSucceeds(r, o) ==
    LET k == policy[r].key[sel[r]] IN
    /\ pc[r] = "call"
    /\ o.ok
    /\ verdict' = [verdict EXCEPT ![r] = o.failure]
    /\ sentOn' = [sentOn EXCEPT ![r] = Sent(r, o)]
    /\ states' = [states EXCEPT ![k] = Observed(@, TRUE, policy[r].health)]
    /\ pc' = [pc EXCEPT ![r] = "stream"]
    /\ UNCHANGED <<plan, policy, pos, prev, sel, attempts, rows, terminalRow,
                   occupancy, closes, freed, cur, dialed>>

\* Mutant of PlanExhausted: the row that announced a fallback stays.
PlanExhaustedUncorrected(r) ==
    /\ pc[r] = "tail"
    /\ pc' = [pc EXCEPT ![r] = "done"]
    /\ UNCHANGED <<plan, policy, pos, prev, sel, attempts, verdict, rows, terminalRow,
                   occupancy, closes, freed, cur, states, dialed, sentOn>>

\* The loop ran out of entries: the last real verdict is returned and the row
\* that announced a fallback is corrected.
PlanExhausted(r) ==
    /\ pc[r] = "tail"
    /\ rows' = IF attempts[r] > 0 /\ terminalRow[r] > 0
               THEN Stamp(r, terminalRow[r], "stop")
               ELSE rows
    /\ pc' = [pc EXCEPT ![r] = "done"]
    /\ UNCHANGED <<plan, policy, pos, prev, sel, attempts, verdict, terminalRow,
                   occupancy, closes, freed, cur, states, dialed, sentOn>>

\* slotReleaseBody.Close, first half: the connection is given up.  The
\* streaming relay closes the body explicitly and again when it returns.
CloseBody(r) ==
    /\ pc[r] \in {"stream", "closed"}
    /\ closes[r] < 2
    /\ closes' = [closes EXCEPT ![r] = @ + 1]
    /\ pc' = [pc EXCEPT ![r] = "closing"]
    /\ UNCHANGED <<plan, policy, pos, prev, sel, attempts, verdict, rows, terminalRow,
                   occupancy, freed, cur, states, dialed, sentOn>>

\* Mutant of FreeSlot: every close frees.
FreeSlotEachClose(r) ==
    /\ pc[r] = "closing"
    /\ cur' = Released(cur, sel[r])
    /\ freed' = [freed EXCEPT ![r] = TRUE]
    /\ pc' = [pc EXCEPT ![r] = "closed"]
    /\ UNCHANGED <<plan, policy, pos, prev, sel, attempts, verdict, rows, terminalRow,
                   occupancy, closes, states, dialed, sentOn>>

\* slotReleaseBody.Close, second half: once.Do(free).
FreeSlot(r) ==
    /\ pc[r] = "closing"
    /\ cur' = IF freed[r] THEN cur ELSE Released(cur, sel[r])
    /\ freed' = [freed EXCEPT ![r] = TRUE]
    /\ pc' = [pc EXCEPT ![r] = "closed"]
    /\ UNCHANGED <<plan, policy, pos, prev, sel, attempts, verdict, rows, terminalRow,
                   occupancy, closes, states, dialed, sentOn>>

Return(r) ==
    /\ pc[r] = "closed"
    /\ pc' = [pc EXCEPT ![r] = "done"]
    /\ UNCHANGED <<plan, policy, pos, prev, sel, attempts, verdict, rows, terminalRow,
                   occupancy, closes, freed, cur, states, dialed, sentOn>>

\* The clock the cooldowns run on.
Tick ==
    /\ \E k \in Keys : Cooling(states[k])
    /\ states' = [k \in Keys |-> Elapsed(states[k])]
    /\ UNCHANGED <<localVars, cur>>

\* What the request's goroutine does by itself once the call has returned.
Walk(r) == \/ Select(r) \/ ResolveFails(r) \/ Resolve(r)
           \/ AcquireFails(r) \/ Acquire(r) \/ Dial(r)
           \/ Settle(r) \/ PlanExhausted(r)
CallReturns(r) == \E o \in Outcomes : CallFails(r, o) \/ CallSucceeds(r, o)

ExecNext ==
    \/ \E r \in Requests :
          \/ \E pl \in Plans, pol \in Policies : Start(r, pl, pol)
          \/ Walk(r)
          \/ CallReturns(r)
          \/ CloseBody(r)
          \/ FreeSlot(r)
          \/ Return(r)
    \/ Tick

\* The goroutine keeps running and the call returns: every phase of it is
\* under a deadline (DialTimeout, TLSHandshakeTimeout, ConnectTimeout,
\* SecondaryReadTimeout).  Nothing bounds a stream that keeps delivering.
ExecFairness ==
    \A r \in Requests : /\ WF_execVars(Walk(r))
                        /\ WF_execVars(CallReturns(r))
                        /\ WF_execVars(FreeSlot(r))

ExecSpec == ExecInit /\ [][ExecNext]_execVars
FairExecSpec == ExecSpec /\ ExecFairness

-----------------------------------------------------------------------------
(***************************************************************************)
(* Properties.                                                             *)
(***************************************************************************)

\* At most one attempt of a request can have put a byte of it on the wire: no
\* sequence of failures, skips and fallbacks makes the provider do the work
\* twice (the invariant list of fallback.go, issues #3 and #53).
AtMostOneTransmission ==
    \A r \in Requests : \A m, n \in sentOn[r] : m = n

\* "max_attempts bounds the number of DISTINCT egresses" (config/file.go): no
\* egress is dialed twice for one request, and never more than the budget.
DistinctEgressesWithinBudget ==
    \A r \in Requests :
        pc[r] # "dial" => /\ Cardinality(dialed[r]) = attempts[r]
                          /\ attempts[r] <= Budget(policy[r])

\* A request gives up on a failure it could have survived only when the budget
\* or the plan is spent, or fallback is off.
StopsOnlyWhenItMust ==
    \A r \in Requests :
        pc[r] = "done" /\ ReplaySafe(verdict[r]) =>
            \/ attempts[r] >= Budget(policy[r])
            \/ pos[r] > Len(plan[r])
            \/ ~policy[r].fallback

\* A failure that can be survived is survived exactly as far as the plan, the
\* budget and the policy reach, whatever egresses are skipped on the way: never
\* twice through one egress, never past the budget, never short of it.
TriesAllItMay == DistinctEgressesWithinBudget /\ StopsOnlyWhenItMust

\* The request owns a slot of a capped egress.
HoldsSlot(r) == \/ pc[r] \in {"dial", "call", "stream"}
                \/ pc[r] = "closing" /\ ~freed[r]
Holders(e) == {r \in Requests : sel[r] = e /\ policy[r].cap[e] > 0 /\ HoldsSlot(r)}

\* "A slot acquired for an attempt is released exactly once" (fallback.go),
\* although the relay closes the body twice: the limiter's counter is the
\* number of requests that own a slot, so it returns to zero.
SlotsBalanced == \A e \in Egresses : cur[e] = Cardinality(Holders(e))

\* A request is admitted to an egress only while fewer requests than its own
\* cap own a slot there, whatever caps the generations of the others set, as
\* long as all of them cap that egress or none does; CapIsUpperBound is about
\* the rest.
AdmissionRespectsCap ==
    [][\A r \in Requests, e \in Egresses :
          r \notin Holders(e) /\ r \in Holders(e)' =>
              Cardinality(Holders(e)') <= policy[r].cap[e]]_execVars

\* The connections held open through an egress by requests that cap it never
\* outnumber the largest cap in use: freeing the slot after the close "keeps
\* the cap a true upper bound on held connections" (fallback.go).
Connections(e) == {r \in Requests : sel[r] = e /\ policy[r].cap[e] > 0
                                    /\ pc[r] \in {"call", "stream"}}
CapIsUpperBound ==
    \A e \in Egresses :
        \E p \in Policies : Cardinality(Connections(e)) <= p.cap[e]

\* The rows of a finished request tell what it did: a row that says `fallback`
\* was followed by another dial, and one that says `stop` was the last; the
\* post-loop correction and the row cap included (fallback.go, terminalRow).
EvidenceTellsWhatHappened ==
    \A r \in Requests : pc[r] = "done" =>
        \A i \in DOMAIN rows[r] :
            /\ rows[r][i].fallback = "fallback" => rows[r][i].attempt < attempts[r]
            /\ rows[r][i].fallback = "stop" => rows[r][i].attempt = attempts[r]
            /\ rows[r][i].kind = "dial" => rows[r][i].fallback # "none"

\* Every request gets a response or a verdict: the walk over the plan ends.
EveryRequestAnswered ==
    \A r \in Requests : pc[r] = "select" ~> pc[r] \in {"stream", "done"}

\* What a client is promised (module Delivery): its request is delivered at
\* most once, before it is answered.
ClientView(r) == CASE pc[r] = "idle" -> "idle"
                   [] pc[r] \in {"stream", "closing", "closed", "done"} -> "answered"
                   [] OTHER -> "open"
Abstract == INSTANCE Delivery WITH
    view <- [r \in Requests |-> ClientView(r)],
    carriers <- sentOn
DeliversAtMostOnce == Abstract!Spec

=============================================================================
