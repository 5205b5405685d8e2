---------------------------- MODULE ConfigStore ----------------------------
(***************************************************************************)
(* config.Store (internal/config/store.go): a poller reads the config file *)
(* once per tick, compares its hash, parses and validates those bytes and  *)
(* swaps the snapshot; requests read the snapshot once; Stop waits for the *)
(* poller from any number of goroutines.                                   *)
(*                                                                         *)
(* A content stands for its bytes and, SHA-256 being collision-free, for   *)
(* its hash.  Valid are the contents LoadBytes accepts.                    *)
(***************************************************************************)
EXTENDS Naturals

CONSTANTS
    Contents,       \* what a read of the file may return
    Valid,          \* the ones LoadBytes resolves into a Runtime
    Unreadable,     \* the file is missing or cannot be read
    Requests,       \* goroutines that hold a snapshot
    Stoppers,       \* goroutines that call Stop
    MaxGeneration   \* bound on Store.gen

ASSUME StoreAssumption ==
    /\ Valid \subseteq Contents
    /\ Valid # {}
    /\ Unreadable \notin Contents
    /\ MaxGeneration \in Nat \ {0}

VARIABLES
    file,       \* what the path holds now (external: the operator)
    poller,     \* "select", "load", "swap", "level", "exited"
    raw,        \* the bytes of this tick's only read
    lastHash,   \* poll's lastHash
    gen,        \* Store.gen
    cur,        \* Store.cur: a content and its generation
    level,      \* zerolog's global level: the content it was taken from
    stopped,    \* stopCh is closed
    stopper,    \* each caller of Stop: "idle", "waiting", "returned"
    held        \* the Runtime each request holds

vars == <<file, poller, raw, lastHash, gen, cur, level, stopped, stopper, held>>

Runtime == [content : Valid, generation : 1..MaxGeneration]

\* NewStore: one read for the snapshot and the compare seed; main installs
\* the level before it serves.
Init ==
    \E c \in Valid :
        /\ file = c
        /\ poller = "select"
        /\ raw = c
        /\ lastHash = c
        /\ gen = 1
        /\ cur = [content |-> c, generation |-> 1]
        /\ level = c
        /\ stopped = FALSE
        /\ stopper = [s \in Stoppers |-> "idle"]
        /\ held = [r \in Requests |-> cur]

-----------------------------------------------------------------------------
\* The operator writes the file at any instant, in place or in pieces: what a
\* read sees may be any content, or nothing.
Edit(c) ==
    /\ file # c
    /\ file' = c
    /\ UNCHANGED <<poller, raw, lastHash, gen, cur, level, stopped, stopper, held>>

\* Store.Get at the start of a request.
Get(r) ==
    /\ held' = [held EXCEPT ![r] = cur]
    /\ UNCHANGED <<file, poller, raw, lastHash, gen, cur, level, stopped, stopper>>

-----------------------------------------------------------------------------
\* poll takes the ticker's branch, and tick reads the file: an unreadable or
\* unchanged file ends the tick.
ReadStamped ==
    /\ poller = "select"
    /\ gen < MaxGeneration
    /\ raw' = file
    /\ poller' = IF file = Unreadable \/ file = lastHash THEN "select" ELSE "load"
    /\ UNCHANGED <<file, lastHash, gen, cur, level, stopped, stopper, held>>

\* Mutant of Load: a rejected document ends the poller.
LoadOrExit ==
    /\ poller = "load"
    /\ IF raw \in Valid
       THEN lastHash' = raw /\ gen' = gen + 1 /\ poller' = "swap"
       ELSE poller' = "exited" /\ UNCHANGED <<lastHash, gen>>
    /\ UNCHANGED <<file, raw, cur, level, stopped, stopper, held>>

\* LoadBytes parses and validates a document; gen.Add(1).
Accepts(c) == c \in Valid
NextGen == gen + 1

\* tick on the bytes that were read; a rejected document changes nothing.
Load ==
    /\ poller = "load"
    /\ IF Accepts(raw)
       THEN /\ lastHash' = raw
            /\ gen' = NextGen
            /\ poller' = "swap"
       ELSE /\ poller' = "select"
            /\ UNCHANGED <<lastHash, gen>>
    /\ UNCHANGED <<file, raw, cur, level, stopped, stopper, held>>

\* Mutant of Swap: the file is read again for the snapshot.
SwapRereads ==
    /\ poller = "swap"
    /\ cur' = [content |-> file, generation |-> gen]
    /\ poller' = "level"
    /\ UNCHANGED <<file, raw, lastHash, gen, level, stopped, stopper, held>>

\* cur.Store(rt)
Swap ==
    /\ poller = "swap"
    /\ cur' = [content |-> raw, generation |-> gen]
    /\ poller' = "level"
    /\ UNCHANGED <<file, raw, lastHash, gen, level, stopped, stopper, held>>

\* zerolog.SetGlobalLevel, the end of tick.
SetGlobalLevel ==
    /\ poller = "level"
    /\ level' = raw
    /\ poller' = "select"
    /\ UNCHANGED <<file, raw, lastHash, gen, cur, stopped, stopper, held>>

\* poll takes the stopCh branch and closes done.
PollStops ==
    /\ poller = "select"
    /\ stopped
    /\ poller' = "exited"
    /\ UNCHANGED <<file, raw, lastHash, gen, cur, level, stopped, stopper, held>>

\* Stop: the first caller closes stopCh inside stopOnce.
Stop(s) ==
    /\ stopper[s] = "idle"
    /\ stopper' = [stopper EXCEPT ![s] = "waiting"]
    /\ stopped' = TRUE
    /\ UNCHANGED <<file, poller, raw, lastHash, gen, cur, level, held>>

\* Mutant of StopReturns: Stop does not wait for the poller.
StopReturnsAtOnce(s) ==
    /\ stopper[s] = "waiting"
    /\ stopper' = [stopper EXCEPT ![s] = "returned"]
    /\ UNCHANGED <<file, poller, raw, lastHash, gen, cur, level, stopped, held>>

\* <-done for the first caller, once.Do's lock for the others.
StopReturns(s) ==
    /\ stopper[s] = "waiting"
    /\ poller = "exited"
    /\ stopper' = [stopper EXCEPT ![s] = "returned"]
    /\ UNCHANGED <<file, poller, raw, lastHash, gen, cur, level, stopped, held>>

Poller == ReadStamped \/ Load \/ Swap \/ SetGlobalLevel

Next ==
    \/ \E c \in Contents \cup {Unreadable} : Edit(c)
    \/ \E r \in Requests : Get(r)
    \/ Poller
    \/ PollStops
    \/ \E s \in Stoppers : Stop(s) \/ StopReturns(s)

Spec == Init /\ [][Next]_vars

\* The ticker keeps ticking.  Of two ready branches Go's select takes each
\* with equal chance, so the stop branch cannot be missed for ever.
Fairness ==
    /\ WF_vars(Poller)
    /\ SF_vars(PollStops)
    /\ \A s \in Stoppers : WF_vars(StopReturns(s))
FairSpec == Spec /\ Fairness

-----------------------------------------------------------------------------
\* Every variable stays within its type.
TypeOK ==
    /\ file \in Contents \cup {Unreadable}
    /\ poller \in {"select", "load", "swap", "level", "exited"}
    /\ raw \in Contents \cup {Unreadable}
    /\ lastHash \in Valid
    /\ gen \in 1..MaxGeneration
    /\ cur \in Runtime
    /\ level \in Valid
    /\ stopped \in BOOLEAN
    /\ stopper \in [Stoppers -> {"idle", "waiting", "returned"}]
    /\ held \in [Requests -> Runtime]

\* "A swap can never pair one generation's content with another's stamp":
\* between two ticks the snapshot served, the hash that gates "unchanged", the
\* generation counter and the log level all come from the same document,
\* whatever was written to the file meanwhile; and no two requests, whenever
\* they read the store, hold different contents under one generation.
GenerationNamesContent ==
    /\ poller \in {"select", "exited"} =>
          cur.content = lastHash /\ cur.generation = gen /\ level = cur.content
    /\ \A r \in Requests :
          /\ held[r].generation <= cur.generation
          /\ held[r].generation = cur.generation => held[r] = cur
          /\ \A q \in Requests :
                held[r].generation = held[q].generation => held[r] = held[q]

\* After any Stop has returned the snapshot is final: no late tick swaps it.
FinalAfterStop ==
    [][(\E s \in Stoppers : stopper[s] = "returned") => UNCHANGED <<cur, level>>]_vars

\* Every Stop returns, called alone or by several goroutines at once.
StopAlwaysReturns ==
    \A s \in Stoppers : stopper[s] = "waiting" ~> stopper[s] = "returned"

\* Stop, by however many callers and in whatever tick, ends the polling for
\* good and lets each of them go on.
StopIsFinal == StopAlwaysReturns /\ FinalAfterStop

\* A valid document the operator leaves in place is picked up and stays in
\* service, whatever bad edits came before it, unless the poller is stopped (or the model's bound on
\* generations is reached).
SettledFileIsServed ==
    \A c \in Valid :
        <>[](file = c) => <>[](cur.content = c \/ stopped \/ gen = MaxGeneration)

=============================================================================
