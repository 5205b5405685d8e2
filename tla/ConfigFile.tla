----------------------------- MODULE ConfigFile -----------------------------
(***************************************************************************)
(* The config document (internal/config/file.go): what Validate accepts,   *)
(* the snapshot Resolve makes of it, and the route MatchRoute picks for a  *)
(* request.                                                                *)
(*                                                                         *)
(* An optional field is a sequence: empty, or its value.  Credentials,     *)
(* error texts and the copies that keep a snapshot from sharing memory     *)
(* with its document are left out: values are never shared in TLA+.        *)
(***************************************************************************)
EXTENDS Integers, SequencesExt

CONSTANTS
    BadIds,     \* ids that are blank or hold a control character
    Globs       \* path.Match (external): the models each good pattern matches

Or(optional, default) == IF optional = <<>> THEN default ELSE Head(optional)

defaultWeight == 1
defaultMaxAttempts == 3
defaultHealthThreshold == 3
RoundRobin == "round_robin"
WeightedRR == "weighted_round_robin"
Strategies == {"", RoundRobin, WeightedRR}

\* The defaults of a document's parts; a document names what it changes.
AnyRequest == [streaming |-> <<>>, min |-> 0, max |-> 0, models |-> <<>>]
Egress(id) ==
    [id |-> id, proxy |-> <<>>, enabled |-> <<>>, weight |-> <<>>, maxConcurrency |-> 0,
     models |-> <<>>, streaming |-> <<>>, maxBody |-> 0]
Route(id, egress) ==
    [id |-> id, priority |-> 0, match |-> AnyRequest, egress |-> egress, strategy |-> ""]
Document(egress, routes) ==
    [egress |-> egress, routes |-> routes, fallback |-> <<>>, maxAttempts |-> 0,
     healthEnabled |-> <<>>, threshold |-> <<>>, cooldown |-> <<>>, references |-> "set",
     base |-> "", level |-> "", syncInterval |-> <<>>, style |-> ""]

weight(e) == Or(e.weight, defaultWeight)
AllDistinct(seq) == \A i, j \in DOMAIN seq : seq[i] = seq[j] => i = j
Ids(parts) == [i \in DOMAIN parts |-> parts[i].id]
GoodIds(parts) == AllDistinct(Ids(parts)) /\ \A p \in ToSet(parts) : p.id \notin BadIds
GoodPatterns(models) == ToSet(models) \subseteq DOMAIN Globs

-----------------------------------------------------------------------------
(***************************************************************************)
(* LoadBytes: Interpolate, parse, Validate.                                *)
(***************************************************************************)

\* Interpolate: every ${VAR} is closed, named and set.
Interpolates(f) == f.references = "set"

\* socks5 has two url schemes; the scheme opts in to remote resolution.
validateProxy(p) ==
    /\ p.type \in {"http", "https", "socks5"}
    /\ p.scheme = p.type \/ (p.type = "socks5" /\ p.scheme = "socks5h")
    /\ p.host # ""

validEgress(e) ==
    /\ weight(e) >= 0
    /\ e.maxConcurrency >= 0
    /\ e.maxBody >= 0
    /\ GoodPatterns(e.models)
    /\ \A p \in ToSet(e.proxy) : validateProxy(p)

validMatch(m) ==
    /\ m.min >= 0 /\ m.max >= 0
    /\ m.min > 0 /\ m.max > 0 => m.min <= m.max
    /\ GoodPatterns(m.models)

validRefs(f, r) ==
    /\ r.egress # <<>>
    /\ ToSet(r.egress) \subseteq ToSet(Ids(f.egress))
    /\ AllDistinct(r.egress)

\* indexByID
ById(egresses, id) == egresses[SelectInSeq(egresses, LAMBDA e : e.id = id)]

validRoute(f, r) ==
    /\ r.strategy \in Strategies
    /\ validMatch(r.match)
    /\ validRefs(f, r)
    /\ r.strategy = WeightedRR =>
          \E id \in ToSet(r.egress) : weight(ById(f.egress, id)) > 0

validService(f) ==
    /\ f.maxAttempts >= 0
    /\ Or(f.threshold, 0) >= 0
    /\ Or(f.cooldown, 0) >= 0
    /\ f.base \in {"", "http", "https"}     \* anything else is no plain http(s) url
    /\ f.level \in {"", "debug", "info", "warn", "error"}
    /\ Or(f.syncInterval, 0) >= 0
    /\ f.style \in {"", "v1", "v2"}

Validate(f) ==
    /\ f.egress # <<>> /\ f.routes # <<>>
    /\ GoodIds(f.egress) /\ GoodIds(f.routes)
    /\ \A e \in ToSet(f.egress) : validEgress(e)
    /\ \A r \in ToSet(f.routes) : validRoute(f, r)
    /\ validService(f)

Loads(f) == Interpolates(f) /\ Validate(f)

-----------------------------------------------------------------------------
(***************************************************************************)
(* Resolve and what a request reads of the snapshot.                       *)
(***************************************************************************)

\* Mutant of RanksBefore: routes of one priority are not kept in file order.
RanksBeforeLater(routes, i, j) ==
    routes[i].priority > routes[j].priority
    \/ (routes[i].priority = routes[j].priority /\ i > j)

RanksBefore(routes, i, j) ==
    routes[i].priority > routes[j].priority
    \/ (routes[i].priority = routes[j].priority /\ i < j)

\* sort.SliceStable by priority, highest first: the k-th is the route that
\* k - 1 rank before.
Place(routes, i) == 1 + Cardinality({j \in DOMAIN routes : RanksBefore(routes, j, i)})
byPriority(routes) ==
    [k \in DOMAIN routes |-> routes[CHOOSE i \in DOMAIN routes : Place(routes, i) = k]]

Resolve(f) ==
    [egress |-> f.egress, routes |-> byPriority(f.routes),
     fallback |-> Or(f.fallback, TRUE),
     maxAttempts |-> IF f.maxAttempts > 0 THEN f.maxAttempts ELSE defaultMaxAttempts,
     healthEnabled |-> Or(f.healthEnabled, TRUE),
     threshold |-> Or(f.threshold, defaultHealthThreshold),
     style |-> IF f.style = "" THEN "v1" ELSE f.style]

\* One direct egress, one route for everything, one attempt, no health gate.
DefaultRuntime ==
    [egress |-> <<Egress("direct")>>,
     routes |-> <<[Route("default", <<"direct">>) EXCEPT !.strategy = RoundRobin]>>,
     fallback |-> TRUE, maxAttempts |-> 1, healthEnabled |-> FALSE,
     threshold |-> defaultHealthThreshold, style |-> "v1"]

globMatch(pattern, model) == pattern = model \/ (pattern \in DOMAIN Globs /\ model \in Globs[pattern])

\* Every condition that is set holds, and every pattern.
matchHolds(m, p) ==
    /\ Or(m.streaming, p.streaming) = p.streaming
    /\ m.min > 0 => p.bytes >= m.min
    /\ m.max > 0 => p.bytes <= m.max
    /\ \A pat \in ToSet(m.models) : globMatch(pat, p.model)

\* The first route that matches, if any.
MatchRoute(rt, p) ==
    LET hit == SelectInSeq(rt.routes, LAMBDA r : matchHolds(r.match, p))
    IN IF hit = 0 THEN <<>> ELSE <<rt.routes[hit]>>

=============================================================================
