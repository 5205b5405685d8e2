--------------------------- MODULE UserAgentCache ---------------------------
(***************************************************************************)
(* identity.UserAgentCache (internal/identity/useragent.go): one forced    *)
(* Warm at startup races the sync loop; each round fetches the two wire    *)
(* forms one after the other and stores whatever succeeded.  The v1 form   *)
(* is a triple fetched in three requests; the v2 form is one value.        *)
(*                                                                         *)
(* Releases are numbered; the source of truth (external) only moves        *)
(* forward.  A segment is the release it was read at.                      *)
(***************************************************************************)
EXTENDS Naturals

CONSTANT MaxRelease   \* bound on the releases upstream publishes

ASSUME CacheAssumption == MaxRelease \in Nat \ {0}

\* No value yet: the compiled-in fallback, older than every release.
NoRelease == 0

Warmers == {"startup", "loop"}

VARIABLES
    latest,     \* the newest release upstream (external)
    online,     \* whether a fetch can succeed (external)
    enabled,    \* the live sync interval is positive
    stopped,    \* uaStop has closed done
    loop,       \* StartSync's goroutine: "wait", "warm", "exited"
    pc,         \* each caller of Warm; "new" before main's startup goroutine runs
    triple,     \* fetchTriple's local segments
    v2got,      \* fetchV2Version's local result
    inflight,   \* UserAgentCache.inflight
    v1, v2      \* UserAgentCache.dual

cacheVars == <<latest, online, enabled, stopped, loop, pc, triple, v2got, inflight, v1, v2>>

NoTriple == [opencode |-> NoRelease, bun |-> NoRelease, providerUtils |-> NoRelease]

CacheInit ==
    /\ latest = 1
    /\ online \in BOOLEAN
    /\ enabled \in BOOLEAN
    /\ stopped = FALSE
    /\ loop = "wait"
    /\ pc = [w \in Warmers |-> IF w = "startup" THEN "new" ELSE "idle"]
    /\ triple = [w \in Warmers |-> NoTriple]
    /\ v2got = [w \in Warmers |-> NoRelease]
    /\ inflight = FALSE
    /\ v1 = NoTriple
    /\ v2 = NoRelease

-----------------------------------------------------------------------------
Release ==
    /\ latest < MaxRelease
    /\ latest' = latest + 1
    /\ UNCHANGED <<online, enabled, stopped, loop, pc, triple, v2got, inflight, v1, v2>>

NetworkChanges ==
    /\ online' = ~online
    /\ UNCHANGED <<latest, enabled, stopped, loop, pc, triple, v2got, inflight, v1, v2>>

\* A reload changes user_agent.sync_interval.
IntervalChanges ==
    /\ enabled' = ~enabled
    /\ UNCHANGED <<latest, online, stopped, loop, pc, triple, v2got, inflight, v1, v2>>

\* uaStop: once.Do(close(done)); it does not wait for the loop.
StopSync ==
    /\ ~stopped
    /\ stopped' = TRUE
    /\ UNCHANGED <<latest, online, enabled, loop, pc, triple, v2got, inflight, v1, v2>>

-----------------------------------------------------------------------------
\* Mutant of Enter: a round in flight is not looked at.
EnterAlways(w) ==
    /\ inflight' = TRUE
    /\ pc' = [pc EXCEPT ![w] = "version"]

\* The head of Warm(force): single-flight.  A caller that finds a round in
\* flight returns the cached value.
Enter(w) ==
    /\ inflight' = TRUE
    /\ pc' = [pc EXCEPT ![w] = IF inflight THEN "idle" ELSE "version"]

\* main's startup goroutine.
WarmAtStartup ==
    /\ pc["startup"] = "new"
    /\ Enter("startup")
    /\ UNCHANGED <<latest, online, enabled, stopped, loop, triple, v2got, v1, v2>>

\* The loop's timer fires while the interval is positive; otherwise it idles
\* on its one-second re-check.
LoopWarms ==
    /\ loop = "wait"
    /\ enabled
    /\ loop' = "warm"
    /\ Enter("loop")
    /\ UNCHANGED <<latest, online, enabled, stopped, triple, v2got, v1, v2>>

\* Warm returned to the loop.
LoopResumes ==
    /\ loop = "warm"
    /\ pc["loop"] = "idle"
    /\ loop' = "wait"
    /\ UNCHANGED <<latest, online, enabled, stopped, pc, triple, v2got, inflight, v1, v2>>

\* <-done, in either select.
LoopStops ==
    /\ loop = "wait"
    /\ stopped
    /\ loop' = "exited"
    /\ UNCHANGED <<latest, online, enabled, stopped, pc, triple, v2got, inflight, v1, v2>>

\* Mutant of Tag: the newest release, whatever the triple began with.
TagLatest(w) == latest

\* The release the later fetches of the triple read their file at.
Tag(w) == triple[w].opencode

\* fetchLatestRelease, fetchBunVersion, fetchProviderUtilsVersion: a failure
\* drops the whole triple; fetchV2Version follows in any case.
FetchSegment(w, at, field, value, then) ==
    /\ pc[w] = at
    /\ \/ online /\ triple' = [triple EXCEPT ![w][field] = value]
                 /\ pc' = [pc EXCEPT ![w] = then]
       \/ triple' = [triple EXCEPT ![w] = NoTriple] /\ pc' = [pc EXCEPT ![w] = "v2"]
    /\ UNCHANGED <<latest, online, enabled, stopped, loop, v2got, inflight, v1, v2>>
FetchVersion(w) == FetchSegment(w, "version", "opencode", latest, "bun")
FetchBun(w) == FetchSegment(w, "bun", "bun", Tag(w), "utils")
FetchUtils(w) == FetchSegment(w, "utils", "providerUtils", Tag(w), "v2")
FetchV2(w) ==
    /\ pc[w] = "v2"
    /\ \/ online /\ v2got' = [v2got EXCEPT ![w] = latest]
       \/ v2got' = [v2got EXCEPT ![w] = NoRelease]
    /\ pc' = [pc EXCEPT ![w] = "store"]
    /\ UNCHANGED <<latest, online, enabled, stopped, loop, triple, inflight, v1, v2>>

\* The tail of Warm: each form that succeeded replaces its previous value.
StoreDual(w) ==
    /\ pc[w] = "store"
    /\ inflight' = FALSE
    /\ v1' = IF triple[w] = NoTriple THEN v1 ELSE triple[w]
    /\ v2' = IF v2got[w] = NoRelease THEN v2 ELSE v2got[w]
    /\ triple' = [triple EXCEPT ![w] = NoTriple]
    /\ v2got' = [v2got EXCEPT ![w] = NoRelease]
    /\ pc' = [pc EXCEPT ![w] = "idle"]
    /\ UNCHANGED <<latest, online, enabled, stopped, loop>>

Round(w) == \/ FetchVersion(w) \/ FetchBun(w) \/ FetchUtils(w) \/ FetchV2(w)
            \/ StoreDual(w)
Sync == LoopWarms \/ LoopResumes

CacheNext ==
    \/ Release \/ NetworkChanges \/ IntervalChanges \/ StopSync
    \/ WarmAtStartup \/ Sync \/ LoopStops
    \/ \E w \in Warmers : Round(w)

-----------------------------------------------------------------------------
\* "The cache never holds a triple mixed across releases", although its three
\* segments are fetched one by one while releases are published.
TripleNeverMixed == v1.opencode = v1.bun /\ v1.bun = v1.providerUtils

\* "A form never regresses to an older successful value", nor to the
\* fallback, whatever rounds fail and however startup and the loop overlap.
NeverRegresses == [][v1'.opencode >= v1.opencode /\ v2' >= v2]_cacheVars

=============================================================================
