------------------------------ MODULE Sessions ------------------------------
(***************************************************************************)
(* The conversation-stable session ids: upstream.ResolveSession's chain    *)
(* (internal/upstream/executor.go) over the two runtime stores of          *)
(* internal/identity/sessionresolver.go, which many requests share with    *)
(* the TTL janitor.                                                        *)
(*                                                                         *)
(* A request carries a session of its own (native or translated: a pure    *)
(* function of the request, left out), or enough assistant text to key the *)
(* assistant store, or nothing: those share one key of the connection      *)
(* store.  Ids are drawn at random; the model numbers them.                *)
(*                                                                         *)
(* getOrCreate reads the clock before it takes the lock, so accesses may   *)
(* happen in another order than their clock readings.                      *)
(***************************************************************************)
EXTENDS Naturals, FiniteSets

CONSTANTS
    Requests,   \* calls of ResolveSession that may be in progress at once
    Texts,      \* hashes of the accumulated assistant text
    MaxTexts,   \* capacity of the assistant store (maxAssistantSessions)
    TTL,        \* SessionTTL, in clock units
    MaxClock,   \* bound on the clock
    MaxIds      \* bound on the ids drawn

ASSUME SessionsAssumption ==
    /\ MaxTexts \in Nat \ {0}
    /\ TTL \in Nat
    /\ MaxClock \in Nat
    /\ MaxIds \in Nat

Anonymous == "opencode:"
Keys == [assistant |-> Texts, connection |-> {Anonymous}]
\* The connection store only ever holds its one key, far below its own cap.
Cap == [assistant |-> MaxTexts, connection |-> 1]
Stores == {"assistant", "connection"}

VARIABLES
    now,        \* the clock
    access,     \* of each request: the access it waits to make, and its clock reading
    entries,    \* store.entries: a partial function to id and lastUsed
    drawn,      \* ids generated so far
    sweep,      \* the janitor: the stores it has still to visit
    cutoff,     \* and the cutoff it computed when it woke up
    \* Not in the program, for the property only:
    used        \* the last answer for each key, and the other keys used since,
                \* be it by the lock or by the clock

sessionVars == <<now, access, entries, drawn, sweep, cutoff, used>>

NoAccess == [store |-> "none", key |-> Anonymous, at |-> 0]
NoKeys == [k \in {} |-> [id |-> 0, lastUsed |-> 0]]

SessionsInit ==
    /\ now = 0
    /\ access = [r \in Requests |-> NoAccess]
    /\ entries = [s \in Stores |-> NoKeys]
    /\ drawn = 0
    /\ sweep = {}
    /\ cutoff = 0
    /\ used = [s \in Stores |-> [k \in Keys[s] |-> [id |-> 0, at |-> 0, others |-> {}]]]

-----------------------------------------------------------------------------
Without(es, k) == [j \in DOMAIN es \ {k} |-> es[j]]
With(es, k, e) == [j \in DOMAIN es \cup {k} |-> IF j = k THEN e ELSE es[j]]

\* The entries with the least lastUsed.
Oldest(es) == {k \in DOMAIN es : \A j \in DOMAIN es : es[k].lastUsed <= es[j].lastUsed}

\* A full store makes room before it takes a new key.  Of several oldest
\* entries the first one met goes, and the order of a Go map is random.
MakeRoom(s) ==
    IF Cardinality(DOMAIN entries[s]) >= Cap[s]
    THEN {Without(entries[s], k) : k \in Oldest(entries[s])}
    ELSE {entries[s]}

\* Mutant of Touched: a hit is not a use.
TouchedNot(e, at) == e

\* A hit keeps its id and counts as a use at the time that was read, even if
\* the entry has seen a later one.
Touched(e, at) == [id |-> e.id, lastUsed |-> at]

\* An access of k comes after every other one so far.  By the clock, the keys
\* that stay in the store with readings no older come after k as well.
NotOlder(es, k, at) == {j \in DOMAIN es \ {k} : es[j].lastUsed >= at}
Use(s, k, id, at) ==
    used' = [used EXCEPT ![s] = [j \in Keys[s] |->
                IF j = k
                THEN [id |-> id, at |-> at, others |-> NotOlder(entries'[s], k, at)]
                ELSE [used[s][j] EXCEPT !.others = @ \cup {k}]]]

\* store.getOrCreate up to the lock: the clock is read...
GetOrCreate(r, s, k) ==
    /\ access[r] = NoAccess
    /\ access' = [access EXCEPT ![r] = [store |-> s, key |-> k, at |-> now]]
    /\ UNCHANGED <<now, entries, drawn, sweep, cutoff, used>>

\* ...and the rest of it under the lock, any time later.
Hit(s, k, at) ==
    /\ k \in DOMAIN entries[s]
    /\ entries' = [entries EXCEPT ![s][k] = Touched(@, at)]
    /\ Use(s, k, entries[s][k].id, at)
    /\ UNCHANGED drawn

Create(s, k, at) ==
    /\ k \notin DOMAIN entries[s]
    /\ drawn < MaxIds
    /\ drawn' = drawn + 1
    /\ \E es \in MakeRoom(s) :
          entries' = [entries EXCEPT ![s] = With(es, k, [id |-> drawn', lastUsed |-> at])]
    /\ Use(s, k, drawn', at)

GetOrCreateLocked(r) ==
    /\ access[r] # NoAccess
    /\ \/ Hit(access[r].store, access[r].key, access[r].at)
       \/ Create(access[r].store, access[r].key, access[r].at)
    /\ access' = [access EXCEPT ![r] = NoAccess]
    /\ UNCHANGED <<now, sweep, cutoff>>

\* ResolveSession for a request with enough assistant text, and for one with
\* nothing to go by.
ResolveByText(r, t) == GetOrCreate(r, "assistant", t)
ResolveAnonymous(r) == GetOrCreate(r, "connection", Anonymous)

\* The janitor's ticker fires: evictExpired gets its cutoff once...
JanitorWakes ==
    /\ sweep = {}
    /\ now >= TTL
    /\ cutoff' = now - TTL
    /\ sweep' = Stores
    /\ UNCHANGED <<now, access, entries, drawn, used>>

Expired(e) == e.lastUsed < cutoff

\* ...and takes one store's lock after the other's.
EvictExpired(s) ==
    /\ s \in sweep
    /\ s = "assistant" => "connection" \notin sweep
    /\ sweep' = sweep \ {s}
    /\ entries' = [entries EXCEPT ![s] =
                      [k \in {j \in DOMAIN @ : ~Expired(@[j])} |-> @[k]]]
    /\ UNCHANGED <<now, access, drawn, cutoff, used>>

TimePasses ==
    /\ now < MaxClock
    /\ now' = now + 1
    /\ UNCHANGED <<access, entries, drawn, sweep, cutoff, used>>

SessionsNext ==
    \/ \E r \in Requests :
          \/ \E t \in Texts : ResolveByText(r, t)
          \/ ResolveAnonymous(r)
          \/ GetOrCreateLocked(r)
    \/ JanitorWakes
    \/ \E s \in Stores : EvictExpired(s)
    \/ TimePasses

-----------------------------------------------------------------------------
\* A conversation keeps its id while it is in use: until the TTL has passed
\* since the clock reading of the last request, or as many other conversations
\* as the store holds came after that request, by the lock or by the clock, the
\* store has the id that request got.  The janitor, a full store and requests
\* that reach the lock late never cut it short.
IdIsStable ==
    \A s \in Stores : \A k \in Keys[s] :
        LET u == used[s][k] IN
        u.id # 0 /\ now <= u.at + TTL /\ Cardinality(u.others) < Cap[s]
            => k \in DOMAIN entries[s] /\ entries[s][k].id = u.id

=============================================================================
