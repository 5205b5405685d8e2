# TLA+ models of opencode-free-proxy

The proxy accepts chat-completions and responses requests, picks an egress (a
direct connection or a proxy) for each one, relays it to one provider, and
streams the answer back. This directory holds models of the parts in which
concurrency, failure and ordering decide whether that is correct: TLA+ modules,
the TLC configurations that check them on small instances, and TLAPS proofs for
every instance. `PROJECT.json` lists components, runs, the map from definitions
to source lines, the hazards, the findings and the theorems.

Run a configuration with `tlc -config MCExecutor_walk.cfg MCExecutor`; check
the proofs of a module with `tlapm ExecutorProofs.tla`, and likewise for the
other seven modules whose name ends in `Proofs`.

## The system and its parts

| Part | State it keeps | Operations | What makes it hard |
|---|---|---|---|
| Executor (`upstream/fallback.go`) | none shared; per request: plan cursor, attempts, verdict, evidence rows | `ExecuteObserved`, `slotReleaseBody.Close` | a retry is safe only if no byte left; slots ride a body that is closed twice |
| Limiter (`upstream/limits.go`) | in-flight count per egress id, one mutex | `Acquire`, `Release`, `InFlight`, `Peek` | policies of several generations count on one counter |
| Health registry (`health/health.go`) | per identity: failures, end of cooldown, pins | `Observe`, `Healthy`, `Pin`, `Reclaim` | reclaimed by one request while pinned by another; late failures |
| Upstream call and provenance (`upstream/client.go`, `provenance.go`, the dialers) | traces of one call and of its hops, written by several goroutines | `DoClassifiedObserved`, `attempt`, dial steps, write hooks | dials and write hooks that outlive the hop that started them |
| Scheduler (`routing/routing.go`) | per route: shape, generation, cursor, current weights | `Plan`, `stateFor`, `PruneRoutes` | requests of older generations plan after newer ones |
| Request pipeline (`router/handler.go`, `server.go`) | transports by signature, last serviced generation, drain flag | `relay`, `onGeneration`, `routeHeads`, `clientForEgress` | snapshot taken once, maintenance by whoever comes first |
| Line scanner (`client.go` `ScanLines`, `router/stream.go`) | four channels, a timer | reader goroutine, consumer `select` | which channel is seen first; stall, cancel and error race |
| Config store (`config/store.go`) | current snapshot, last hash, generation | poll tick, `Get`, `Stop` | the file changes between any two steps |
| Shutdown (`cmd/server/main.go`, `readiness.go`) | drain flag, connection tracker, result channel | signal, head start, `Shutdown`, forced close | a channel with one value and two receivers |
| User agent cache (`identity/useragent.go`) | two cached forms, in-flight flag | `Warm`, `StartSync`, `Get` | a round of four fetches that is not atomic |
| Session resolver (`identity/sessionresolver.go`) | two capped stores of ids | `getOrCreate`, janitor | eviction at the cap and by age; the clock is read before the lock is taken |
| Config file (`config/file.go`) | none | `interpolate`, `Validate`, `Resolve`, `MatchRoute` | later parts rely on what it refused |
| Request rewriting (`translate/modality.go`, `prenorm.go`, `req_resp2chat.go`, `cloak/cloak.go`) | none; a body passes through a chain of stages | `relay` up to the executor | a stage undoes or misses what another repaired |
| Stream relays (`relay/passthrough.go`, `translate.go`) | per stream: usage, finish sent, terminal and sentinel seen | `ProcessLine`, `ProcessTail`, `Flush` | bodies that end early, twice or in the middle of a line |
| Stream translators (`translate/stream_*.go`) | per stream: open items, calls, thinking, completed | `Convert`, `Flush` of each | long event sequences, interleaved calls |
| Aggregation and forced streaming (`relay/nonstream.go`, `router/forced.go`) | a reader goroutine, a channel of one, a timer | `readBoundedSSE`, the four conversions | stall, cap, end and cancellation race; a second interpretation of the same body |
| Usage (`usage/usage.go`) | none | merge, estimate, buffer | a report that comes after its estimate |
| Capabilities, JSON and log helpers, small endpoints | none | pure functions | data, not control |

A request takes one snapshot from the config store, passes the drain gate,
matches a route, pins the health identities of that route, services its
generation if it is the first of it, judges which egresses are eligible, asks
the scheduler for a plan, and hands plan and policy to the executor. The
executor acquires a slot, makes one upstream call per attempt, and moves to the
next egress only on a replay-safe failure. On the way there the body is
rewritten for the upstream's format, and the session id and the user agent are
added. A live response goes to `stream()`, which scans it line by line and hands
each line to the relay of the client's and the upstream's formats, or, for a
client that wants JSON, to `forcedSSEToJson`, which reads it to the end and
aggregates it; closing the body frees the slot. On a signal, main
drops readiness, stops the pollers, waits the head start, and shuts down.

## Modules

Operators without state of their own, used by the modules below:

* `Provenance`: the vocabulary of failures, `ReplaySafe`, `MarksEgressHealth`,
  and `SoundOutcome`, the contract between one upstream call and the executor: a
  failure is reported replay-safe only if nothing was sent.
* `Limiter`, `Health`: the operations of the two registries. A cooldown is the
  time left, counted down by a clock action.
* `Scheduler`: `Plan`, `stateFor`, `PruneRoutes`.
* `ConfigFile`: documents, interpolation, `Validate`, `Resolve`, the built-in
  snapshot, `MatchRoute`. `path.Match` is external: the models a pattern matches.
* `Usage`: a usage block is its counts and the marker of an estimate; merge,
  estimate, buffer, synthesized reasoning.
* `Wire`: chunks, events and SSE lines. A text is a sequence of pieces, a piece
  the number of the upstream line that brought it, so that loss, repetition and
  disorder show; the few texts the code looks into (think tags, the wrapping of
  custom tool input) are marker pieces.
* `ChatToResp`, `RespToChat`: the two stream translators, each a record of the
  translator's fields and one operator per method.
* `Aggregate`: the conversions of a whole body to one JSON answer.
* `UpstreamBody` (external): the lines a provider may send, usual and unusual,
  and which bodies keep the protocol of their format. Properties about what an
  answer says are claimed of bodies that do; properties about how it ends, of
  all.

State machines:

* `Executor`: one action per step between two accesses to shared state. A
  request is reused when it is done, under any policy, so that generations mix.
  The call itself is a choice from the constant `Outcomes`; the assumption is
  that each of them satisfies `SoundOutcome`.
* `Delivery`: what a client is promised: its request is open, is delivered at
  most once while open, and is answered. `Executor` implements it.
* `UpstreamCall`: one call through one egress of each kind (direct, SOCKS5, http
  and https proxy) and its redirects. It shows that `SoundOutcome` holds, and so
  discharges the assumption `Executor` makes. `net/http` is external: a hop may
  be served by an idle connection while its own dial goes on, a response may
  overtake the hook that reports the write, and a request may be sent again
  after a reused connection failed. Wire formats of CONNECT and SOCKS5 are left
  out; their steps and the order in which they are entered are kept.
* `Rotation`: requests of several generations using `Scheduler`. Eligibility is
  any non-empty subset of the route's egresses.
* `Gateway`: the pipeline around the executor: snapshot, drain gate, pins,
  `onGeneration`, eligibility, transports, release. Attempts are reduced to
  their effect on health and transports; `Executor` has the rest.
* `ScanLines`: reader and consumer, `streamAbortReason`, and how `stream()`
  ends. A read is any number of lines up to two, with or without an
  unterminated rest. The relay callback is a step that may last and may fail.
* `ConfigStore`, `Shutdown`, `UserAgentCache`, `Sessions`: the components of
  these names. `Shutdown` keeps of the store only that its poller exits when
  told, which `StopIsFinal` of `ConfigStore` shows.
* `ServedConfig`: `ConfigStore` over the documents of `ConfigFile`; the
  assumption `ServedAssumption` makes "valid" mean that the document loads.
* `RequestBody`: the client writes a conversation item by item, then `relay`
  puts it through the handler's stages in their order.
* `Outgoing`: `RequestBody`, `Sessions` and `UserAgentCache`, the three sources
  of an outgoing request. They share no state, so each behaviour follows one.
* `Relays`: the choice of the relay, `ProcessLine`, `ProcessTail` and `Flush`
  for the four pairs of formats, the usage seam, and what `stream()` writes when
  the scan fails. What `ScanLines` calls a callback is an action here.
* `Forced`: `readBoundedSSE` with its goroutine, channel, timer, cap and
  context, then the aggregation. A behaviour is either a stream of `Relays` or a
  forced request; both start from the same choice of formats.

Variables marked "not in the program" are history the properties speak about;
no guard reads them. Definitions marked "Mutant of X" are plausible mistakes in
X: replacing X by its mutant must break the property `PROJECT.json` pairs it
with, which shows that the property can fail. The type invariants (`TypeOK`)
document the state and are what the proofs start from; the runs check only
properties that say more.

Left out of the modelled parts: `GenerateSessionID` and its clock
(`ResolveSessionID` never returns the empty string, so `ResolveSession` never
gets there); the time-to-live branch of `Warm` (every caller outside the tests
forces the sync); wording and free-text columns of evidence rows.

## Runs

| Run | Shows |
|---|---|
| `walk` | The executor, two requests and two egresses, one capped at 1 or 2 and one uncapped. One request after the other walks every plan; another one takes a slot of the capped egress for as long as it likes (`ContendsForA`, an action constraint on how that request starts). At most one attempt transmits; a request dials distinct egresses within its budget and gives up on a survivable failure only when it must (`TriesAllItMay`); the evidence rows tell what happened although the row cap drops some; slots balance; admission respects the request's own cap; every request is answered; `Delivery` is implemented. |
| `mixed` | Finding: `CapIsUpperBound` fails when one generation caps an egress and another does not. |
| `call` | Provenance of one call: `CallContract` (never "not sent" when something may have left), `UnsentDialFailureMoves` (and not over-cautious either), and the call returns. |
| `reload` | Plans are permutations of the eligible heads, weight 0 never leads and the smooth weights stay fair (`PlansAreFair`: they cancel out, and among up to three egresses none is a whole turn off); a late request neither replaces nor resets newer rotation state. |
| `swap` | Pins equal the requests in flight, an egress in cooldown is not planned, also after a reload that dropped and re-added it, maintenance never evicts a newer generation's transports, and late failures never lengthen a cooldown. |
| `drain` | `OrderlyExit`: readiness drops a whole window before the listener closes and nothing active is left at the exit; the exit comes whatever clients do. |
| `listener` | Finding: the same without the proviso that the listener lives until `Shutdown`. |
| `stream` | `CleanEndIsWhole`: lines arrive once and in order, a clean end is the whole body while the client stays, the tail comes last and only after a clean end. A stall means silence unless the client was slow, the client's leaving is never put on the upstream's account, a silent upstream cannot hold a request, and the reader goroutine ends. |
| `poll` | A generation names one content; every snapshot a request can hold is one the scheduler and the executor can work with, and `MatchRoute` over its sorted routes picks what a reader of the document would; nothing changes after `Stop` returned and every `Stop` returns; a settled file is served. |
| `request` | Conversations of both client formats to models of both upstream formats: a tool turn that goes on is answered, an output stays the answer to its call, no turn of the user is lost. A conversation keeps its session id within the time to live of its last request, unless as many others as the store holds came after that request, by the lock or by the clock (`IdIsStable`); requests read the clock and reach the lock in any order. A user agent never mixes releases, and no form of it regresses. |
| `relay` | Streams: a Responses client always learns how the response ended, whatever the body, exactly once if the body kept the protocol, and gets the sentinel once where the format has it (`ResponsesEndOnce`); items are opened, filled and closed once and hold what the chunks said; arguments reach their call; usage is reported and never as an estimate after a report; and a stream says what the JSON answer to the same body says (`StreamAgreesWithJson`). Forced answers: 200 only for a whole body within the cap, the recorded reason is what happened, and client and goroutine are released whatever the body does. |
| `abort` | Finding: a Responses stream that breaks off after its terminal event gets a second one. |

### Bounds

The recorder keeps sixteen rows in the code and one here, so that the cap is
hit by the second attempt of a two-egress plan. Two egresses and budgets 1 and 3
are the budget below and above the plan; three requests are needed only where a
cap is exceeded by a stray release (`mixed`). Two redirects stand for twenty:
the second hop inherits from the first, the third meets the limit. One idle
connection is the one that can overtake a dial. Three generations let a request
be two behind. Four turns are a full period of the weights 2:1:1. The
channel of 64 lines holds two, and bodies have four lines, so the reader blocks.
The store runs over eleven documents (three that load, of one route, of tiers
of equal and unequal priority, and of conditions that leave requests without a
route; and one for each way a document that parses is refused), with three
generations, two stoppers and two readers. The user agent meets three releases.
A store of two ids meets three conversations, of which two requests are on their
way at once: one that waits with an old clock reading, and one that is served
meanwhile with a newer one. Three clock readings and a time to live of one tell
an entry that is fresh, one at the limit and one past it apart, and four ids let
a conversation be evicted and come back.

Conversations have up to four items: a tool turn, its answer, and what comes
before and after; ids are well formed, malformed, nothing but malformed, missing
and too long. Conformant bodies have up to six lines, enough to announce two
calls, interleave their arguments and finish with usage; the second call is of a
custom tool. Bodies that break the protocol have up to three lines
(`MaxOdd`, and one less before an unterminated tail), each of them
any line the relays tell apart. The forced path caps bodies at two lines, so
that a third exceeds the cap in the read that may also be the last. Counters
that grow without bound in the code (generations, turns, releases, the session
clock, the ids drawn) are bounded by the guard of the action that advances them; the bounds
are the constants named `Max...`. Deadlock checking is off only where the system
may stop (the process exited, the call returned, the stream ended) or where
such a bound is reached.

Symmetry is used in `swap`, and in `request` for the conversations and requests
of the session stores; neither run has a liveness property.

### Fairness

Goroutines that can run do run: weak fairness of the steps of a request
(`Executor`), of a call, of reader and consumer, of the forced path's reader and
handler, of the poller, of `main`; and a stall window passes if nothing happens
in it. A call
returns because every phase has a deadline. Go's `select` picks among ready
branches at random, so the poller's stop branch, which competes with the ticker
on every turn, is strongly fair. Nothing is assumed of clients, of upstreams, of
the operator or of the network: a body may stay silent, a client may never hang
up, a release may never be published. The `request` run has no liveness property
and no fairness.

## Proofs

Eight modules hold theorems; each EXTENDS the component it is about and holds
for every value of the constants that satisfies the `ASSUME` of that component.
The invariants the runs check are seldom inductive; each module opens with the
strengthening it needs, which TLC was given as an invariant of the matching run
before it was proved. The steps follow the actions of the model, one each.

**`ExecutorProofs`** (any finite sets of requests and egresses, any policies,
any sound outcomes, any row cap).
* `TypeCorrect`; `TransmittedAtMostOnce`; `ImplementsDelivery`, the refinement of
  `Delivery`. `ExecInv` adds `InHand` (a request in the middle of an attempt has
  an egress in hand) and `SentIsFinal`: a request whose attempt may have
  transmitted is being settled with a verdict that forbids the replay, or is
  past the point where another attempt starts. That is where `SoundOutcome` is
  used.
* `WalksAsFarAsItMay` (`TriesAllItMay`). `WalkInv`: the plan has no repetition,
  what was dialed lies behind the cursor and the egress in hand is the entry
  just passed, so each dial adds one egress (`BehindTheCursor`,
  `DialsAreCounted`); while the walk looks for an egress the budget has room;
  the tail is reached only with the plan spent or fallback off
  (`EndsForAReason`).
* `EvidenceIsTrue` (`EvidenceTellsWhatHappened`). `RowsInv` says what each row
  means in every place of the walk: only the row `terminalRow` names may
  announce a fallback not dialed yet, and that row is of the last attempt for as
  long as the walk can still end without another one. It holds for every
  `MaxRows`, so also where the row of an attempt was dropped.
* `SlotsReturn`, `AdmissionIsCapped`, `CapBoundsConnections` (`SlotsBalanced`,
  `AdmissionRespectsCap`, `CapIsUpperBound`), under the hypothesis `CappedAlike`:
  all generations in use cap an egress, or none does. The hypothesis belongs to
  the theorem and not to the model because the code does not establish it: the
  run `mixed` drops it and breaks the bound (see Findings). So the finding is
  the only way the limiter goes wrong. `FreedByClose` adds that the slot riding
  a response is given back by the first close and not again.

**`UpstreamCallProofs`** (any kinds of egress, schemes, redirect limit and idle
connections).
* `ContractHolds` (`CallContract`): every outcome of a call satisfies
  `SoundOutcome`, which is what `ExecutorProofs` assumes. The contract says
  nothing until the call returns; `CallInv` adds `SentIsOnRecord` (once a byte
  may have left, the record shows it, or the write is still in progress and no
  error can be returned before its hook) and `WithinBudget`.
* `UnsentMoves` (`UnsentDialFailureMoves`), the other direction: `RecordIsOfSent`
  says the record claims nothing that was not sent, through redirects and late
  writes, and `FailedDialIsKnown` that the hop's trace knows the dial that
  failed it.

Together: whatever the schedule, a client's request reaches the provider at most
once, and is tried on every egress it may be tried on, given what is assumed of
`net/http` in `UpstreamCall`.

**`GatewayProofs`** (any finite set of requests, any configurations).
`PinsBalance` (`PinsMatchRequests`), `CoolingIsSkipped`
(`CoolingEgressNotPlanned`), `TransportsMoveForward`
(`NeverEvictsNewerTransport`), `CooldownRunsDown` (`CooldownOnlyRunsDown`). That
a cooling egress is not planned rests on the pins: the health state a request
saw survives the maintenance of other requests because its own pin is counted
(`CoolingIsPinned`), and because a cooldown is armed only on a known entry
(`ArmedIsKnown`).

**`ScanLinesProofs`** (bodies of any length, channels of any capacity).
`CleanEndDeliversAll`, `StallMeansSilence`, `LeavingIsNotBlamed`. The invariant
accounts for every line: with the callback, in the channel, or in the reader's
hand, consecutively numbered (`Numbered`); what the reader's place says of the
end of the body; and which signal is on its way while the timer may fire.

**`ForcedProofs`** (bodies of any length in any cut, any cap).
* `ForcedAnswerIsHonest` (`WholeOrBadGateway`): `NothingLost` says where the
  bytes are, `BytesResetTimer` that bytes read since the last reset are on their
  way to cause the next, `ResultMeans` and `AnswerMeans` what the return value
  and the answer stand for.
* `ResponsesEnd` (`ResponsesEndOnce`). The property speaks of a stream that has
  closed; `StreamInv` says what holds before. For a translated stream
  (`Translating`): `completed` is true exactly when a terminal event went out,
  and of a conformant body that was the last line and a `finish_reason` was
  read. For one passed through (`Passing`): `terminalSeen` and `doneSent` say
  what went out (`PassTold`), and of a conformant body the terminal event is the
  last event and the sentinel the last line (`PassStrict`), so that the
  protocol, which allows nothing after them, leaves nothing to add. Under it
  every operator of `ChatToResp` is shown to write no terminal event (`Quiet`)
  but `sendCompleted`, which writes one as its last when `completed` was false
  (`Ending`). The translator's loops are folds: `FoldsExist` and `FoldsQuiet`
  take a fact about one turn through `FoldLeft` by induction on the places
  taken.

**`OutgoingProofs`** (any releases, conversations and clock).
`NoMixedTriple` and `UserAgentMovesForward` (`TripleNeverMixed`,
`NeverRegresses`) rest on the single flight of rounds and on a round holding one
release no older than the cache (`RoundIsOneRelease`). `SessionIdsStay`
(`IdIsStable`): an entry is its key's last use (`EntryIsLastUse`), and of two
entries the one with the reading no older is on record as having come after the
other (`UsesAreOrdered`), whatever the order in which the lock was taken. So
every other entry came after the oldest, which a full store evicts, and with the
key it makes room for these are as many as the store holds.

**`ProcessProofs`** (any documents, edits, requests and callers of `Stop`; any
connections).
* `StampsMatchContents` (`GenerationNamesContent`): a tick works on one read
  (`TickIsOneRead`) and requests hold what was served once (`HeldWasServed`).
  `StoppedIsFinal`: nothing is swapped in after `Stop` returned, the safety half
  of `StopIsFinal`.
* `ServedConfigsAreUsable` (`ServedConfigIsUsable`): what a request holds is
  valid, so it was made of a document that loads. `LoadedIsUsable` takes each
  thing the scheduler and the executor rely on back to the check of `Validate`
  that refused the rest. `LoadedIsRouted` needs no check at all: ranks are a
  strict total order (`RankingIsTotal`), so every place of the sorted routes is
  taken by one route (`EveryPlaceIsTaken`), and the first match in that order is
  the best one in the document. `IsDocument`, the assumption on documents, is
  what unmarshalling into Go's types gives.
* `ExitIsOrderly` (`OrderlyExit`): only a listener that is gone has reported its
  outcome, so the window of one that lives is not cut short, and the tracker
  knows every active connection until the drain is over.

**`RotationProofs`** (any routes and weights that `Validate` accepts, any
reloads, any requests). `PlansFair` (`PlansAreFair`) and
`LateRequestsKeepRotation` (`LateRequestKeepsRotation`). The invariant says of
every state in the table that it fits the shape it was built for and is fair
(`GoodState`), and of every plan that it fits the heads and the route it was made
for (`PlanFits`). One turn of the smooth algorithm is `TurnIsFair`: the leader
pays what the pool gained, so the sum stays zero whatever the pool is. The
bound is another matter. With a fixed pool nobody is a whole turn off, but pools
change with health and slots, and the proof goes through for routes of at most
three egresses only. With four it is false: a search over pools drives the
weights 7, 1, 1, 5 to a whole turn. So the property claims the bound for up to
three, and the zero sum for all.

Inductions over data are made with sets: the library's rules take a predicate,
which the provers cannot instantiate, but a least counterexample of a set of
naturals exists by `WFMin` and `NatLessThanWellFounded`. `NatSetInduction` and
`FiniteSetInduction` are the rules so obtained; sums (`SumUnfolds` and the lemmas
after it) and leaders (`LeaderExists`) rest on them.

Only model-checked, and why:

* Liveness under fairness (`EveryRequestAnswered`, `CallReturns`,
  `ExitsWithLiveListener`, `StreamEndsOrFlows`, `ReaderExits`, the second half of
  `StopIsFinal`, `SettledFileIsServed`, `ForcedEnds`): beyond the prover.
* `ToolTurnsAnswered`, `AnswersKeepTheirCall` and `UserTurnsSurvive` (rewriting
  passes over a conversation): they are about sequences filtered by `SelectSeq`,
  which the prover treats as unknown.
* `ItemsAreWhole`, `ArgumentsReachTheirCall`, `StreamAgreesWithJson` and
  `UsageIsReported`: each relates the text of every item to all the chunks so
  far, and would need an induction of its own over the body; `ResponsesEndOnce`
  needs only flags of the last one.

## Findings

Kept as runs: `mixed`, `listener`, `abort` (see `PROJECT.json`). Further
disagreements between a comment and the code met while modelling, without a run
of their own:

* `upstream/fallback.go:93` says an egress is marked "exactly when the failing
  step was performed against the egress endpoint itself". A hop served by an
  idle connection while its own dial still runs, whose connection then dies,
  takes the phase from the dial's trace: a failure that was not the dial's marks
  the egress (`UpstreamCall`: `BeginDial`, `Reuse`, `ConnDies`, `HopFails`).
* `routing/routing.go:333` says that a removed route's state "must not
  survive". A late request of a generation that still has the route builds the
  state up again after `PruneRoutes`, and a later generation that re-adds the
  route uses it (`Rotation`: `OnGeneration`, then `Plan` of the late request).
* `upstream/client.go:768` says coalesced pings "can never under-reset the
  timer". If the callback is blocked on a slow client for longer than the
  window, the timer has fired when the consumer returns to its `select`, which may
  take it although a line and a ping are ready (`ScanLines`: the `slow` case of
  `StallOnlyWhenSilent`).
* `identity/useragent.go:260` says "V2 is populated iff V1 is". Each form is
  stored when its own lookup succeeded; the comment at line 238 says so.

* `upstream/client.go:751` says "an ERRORED stream never flushes". A stream that
  is cut by cancellation closes the lines channel without an error
  (`client.go:805`), and the consumer may take that for the end.
* `relay/translate.go:198` says that `Flush` "synthesizes response.failed +
  [DONE] for responses clients when the upstream never reached a terminal
  event". It writes the translator's closing items, which end in
  `response.completed`, and no sentinel.

Behaviour no comment contradicts, worth knowing when reading the properties
(which exclude it where they say so):

* A line the body left unterminated is written as it is, and what `stream()`
  adds after it ends up on the same line.
* Bodies that break the protocol: a delta for an item that was closed is still
  forwarded; `</think>` without `<think>` gives a delta for an item without an
  id; a call with an id and no name is closed without having been opened; deltas
  after the finish chunk follow `response.completed`; content inside a thinking
  block makes `Convert` skip the calls and the finish reason of that chunk.
* A Responses body: `response.failed` without an error becomes "stop",
  `response.incomplete` is no terminal event, and usage is never estimated for
  a chat client behind it.
* The forced path and the stream differ: `BuildChatFromResponses` leaves out
  custom calls and reasoning, names of calls are concatenated, think tags stay
  in the text, a Responses body without a terminal event is answered with 200
  and `in_progress`, a call without arguments has "" in one and "{}" in the
  other, and a dead context is looked at after stall and size. The aggregation of
  a Responses body reads one event per block between blank lines, and only from
  blocks with an `event:` line (`relay/nonstream.go:231`, `:287`): of bare `data:`
  lines it takes nothing, and of a body with CRLF line ends, which is a single
  block, the first event. The model leaves this out: its bodies are framed.
* `getOrCreate` reads the clock before it takes the lock
  (`identity/sessionresolver.go:63`): a request that is late at the lock stores
  an old `lastUsed`, even over a newer one, and a full store may then evict the
  conversation that was served last. `IdIsStable` therefore counts as coming
  after a request what did so by the lock or by the clock.
* Requests: `FixMissingToolResponses` acts only where the next message answers
  none of the calls, and never for a Responses client; a call whose id is
  missing or has no acceptable character gets a new id its answer does not
  share; nameless calls are dropped and their outputs stay; `tool_use` blocks
  are dropped after the answers inserted for them; two ids may become the same
  once repaired or cut; a document of a Responses client is dropped for a Chat
  model that reads documents; a second system message is dropped on the way to a
  Responses upstream; `NormalizeResponsesTools` may delete a `tool_choice` set
  before it.

## Plan

Done: survey; executor and call first, because a request executed twice is the
failure the design is built to exclude; then the state shared between
generations; then the lifecycles; then what goes out (documents, conversations)
and what comes back (relays, translators, aggregation, the forced path); then
the proofs, executor and call first, then the other state machines, then what
the scheduler and the config file compute.

## Not modelled

Tool declarations (their normalisation, deduplication and the fingerprint
tools), `tool_choice`, thinking knobs, capability tables, JSON helpers, SSE
framing, logging, the small endpoints, environment variables and constants are
pure functions over data without state, and no modelled step depends on their
result; a model of them would repeat the code. `FinalUsage` and `FinalContent`
of the relays are read only by tests.
