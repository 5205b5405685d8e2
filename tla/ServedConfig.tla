---------------------------- MODULE ServedConfig ----------------------------
(***************************************************************************)
(* The config store over real documents: ConfigStore's contents name the   *)
(* documents of ConfigFile, and valid are those that load.                 *)
(***************************************************************************)
EXTENDS ConfigStore, ConfigFile

CONSTANTS
    Documents,      \* the document each content is
    Profiles        \* the requests that are routed: streaming, bytes, model

\* What unmarshalling leaves of any document, good or bad: lists where it has
\* lists, and numbers for the priorities.
IsDocument(f) ==
    /\ f.egress \in Seq(ToSet(f.egress))
    /\ f.routes \in Seq(ToSet(f.routes))
    /\ \A r \in ToSet(f.routes) : r.egress \in Seq(ToSet(r.egress)) /\ r.priority \in Int

ASSUME ServedAssumption ==
    /\ Valid = {c \in Contents : Loads(Documents[c])}
    /\ \A c \in Contents : IsDocument(Documents[c])

\* What the scheduler and the executor take for granted of a snapshot: the
\* egresses of a route are known and distinct (a plan never dials one twice),
\* a weighted route has weight to hand out, no weight or cap is negative and
\* there is at least one attempt.
Usable(rt) ==
    /\ rt.maxAttempts > 0
    /\ \A e \in ToSet(rt.egress) : weight(e) >= 0 /\ e.maxConcurrency >= 0
    /\ \A r \in ToSet(rt.routes) :
          /\ r.egress # <<>>
          /\ Cardinality(ToSet(r.egress)) = Len(r.egress)
          /\ \A id \in ToSet(r.egress) : Cardinality({e \in ToSet(rt.egress) : e.id = id}) = 1
          /\ r.strategy = WeightedRR =>
                \E e \in ToSet(rt.egress) : e.id \in ToSet(r.egress) /\ weight(e) > 0

UsableContents == {c \in Valid : Usable(Resolve(Documents[c]))}

\* Of the routes whose conditions all hold, the one with the highest
\* priority, the earliest in the file among equals.
AsWritten(f, p) ==
    LET matches == {i \in DOMAIN f.routes : matchHolds(f.routes[i].match, p)}
        best == {i \in matches : \A j \in matches :
                    /\ f.routes[j].priority <= f.routes[i].priority
                    /\ f.routes[j].priority = f.routes[i].priority => i <= j}
    IN ToSet(MatchRoute(Resolve(f), p)) = {f.routes[i] : i \in best}

RoutedContents == {c \in Valid : \A p \in Profiles : AsWritten(Documents[c], p)}

\* Every snapshot a request can hold, after whatever edits, torn writes and
\* bad documents, is one the rest of the proxy can work with, and MatchRoute
\* over its sorted routes picks what a reader of the document would; the
\* built-in snapshot is usable too.
ServedConfigIsUsable ==
    /\ Usable(DefaultRuntime)
    /\ \A r \in Requests : held[r].content \in UsableContents \cap RoutedContents

=============================================================================
