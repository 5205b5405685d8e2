------------------------- MODULE ProcessProofs -------------------------
(***************************************************************************)
(* What the config store promises its readers, for any contents of the     *)
(* file, any edits between any two steps of the poller and any number of   *)
(* requests and callers of Stop: a generation names one content, and that  *)
(* content is a document the proxy can route by.  And how the process      *)
(* ends, for any number of connections.                                    *)
(***************************************************************************)
EXTENDS ServedConfig, Shutdown, SequenceTheorems, FiniteSetTheorems, WellFoundedInduction, TLAPS

-----------------------------------------------------------------------------
(***************************************************************************)
(* The inductive invariant.                                                *)
(***************************************************************************)

\* A tick works on one read: what it stamps, numbers and swaps in are those
\* bytes, and until the swap readers are served the generation before.
TickIsOneRead ==
    /\ poller = "load" => raw \in Contents /\ gen < MaxGeneration
    /\ poller \in {"select", "load", "exited"} =>
          cur.content = lastHash /\ cur.generation = gen /\ level = cur.content
    /\ poller = "swap" => raw = lastHash /\ cur.generation < gen
    /\ poller = "level" => raw = lastHash /\ cur = [content |-> raw, generation |-> gen]

\* Requests hold what was served once: an older generation or the present one.
HeldWasServed ==
    \A r \in Requests :
        /\ held[r].generation <= cur.generation
        /\ held[r].generation = cur.generation => held[r] = cur
        /\ \A q \in Requests :
              held[r].generation = held[q].generation => held[r] = held[q]

\* A caller of Stop is let go only when the poller is gone.
StopWaits == \A s \in Stoppers : stopper[s] = "returned" => poller = "exited"

StoreInv == TypeOK /\ TickIsOneRead /\ HeldWasServed /\ StopWaits

-----------------------------------------------------------------------------
\* NewStore establishes the invariant.
LEMMA StoreInit == Init => StoreInv
<1> SUFFICES ASSUME NEW c \in Valid, file = c, poller = "select", raw = c, lastHash = c,
                    gen = 1, cur = [content |-> c, generation |-> 1], level = c,
                    stopped = FALSE, stopper = [s \in Stoppers |-> "idle"],
                    held = [r \in Requests |-> cur]
             PROVE  StoreInv
  BY DEF Init
<1>1. c \in Contents /\ 1 \in 1..MaxGeneration
  BY StoreAssumption
<1>2. cur \in Runtime
  BY <1>1 DEF Runtime
<1>3. TypeOK
  BY <1>1, <1>2 DEF TypeOK
<1>4. TickIsOneRead /\ HeldWasServed /\ StopWaits
  BY <1>1 DEF TickIsOneRead, HeldWasServed, StopWaits
<1>5. QED
  BY <1>3, <1>4 DEF StoreInv

\* Every edit, every step of the poller, every Get and every Stop keeps it.
LEMMA StoreStep == StoreInv /\ [Next]_vars => StoreInv'
<1> SUFFICES ASSUME StoreInv, [Next]_vars PROVE StoreInv'
  OBVIOUS
<1> USE StoreAssumption DEF StoreInv, TypeOK, Runtime
<1>1. ASSUME NEW c \in Contents \cup {Unreadable}, Edit(c) PROVE StoreInv'
  BY <1>1 DEF Edit, TickIsOneRead, HeldWasServed, StopWaits
<1>2. ASSUME NEW r \in Requests, Get(r) PROVE StoreInv'
  BY <1>2 DEF Get, TickIsOneRead, HeldWasServed, StopWaits
<1>3. CASE ReadStamped
  BY <1>3 DEF ReadStamped, TickIsOneRead, HeldWasServed, StopWaits
<1>4. CASE Load
  BY <1>4 DEF Load, Accepts, NextGen, TickIsOneRead, HeldWasServed, StopWaits
<1>5. CASE Swap
  BY <1>5 DEF Swap, TickIsOneRead, HeldWasServed, StopWaits
<1>6. CASE SetGlobalLevel
  BY <1>6 DEF SetGlobalLevel, TickIsOneRead, HeldWasServed, StopWaits
<1>7. CASE PollStops
  BY <1>7 DEF PollStops, TickIsOneRead, HeldWasServed, StopWaits
<1>8. ASSUME NEW s \in Stoppers, Stop(s) PROVE StoreInv'
  BY <1>8 DEF Stop, TickIsOneRead, HeldWasServed, StopWaits
<1>9. ASSUME NEW s \in Stoppers, StopReturns(s) PROVE StoreInv'
  BY <1>9 DEF StopReturns, TickIsOneRead, HeldWasServed, StopWaits
<1>10. CASE UNCHANGED vars
  BY <1>10 DEF vars, TickIsOneRead, HeldWasServed, StopWaits
<1>11. QED
  BY <1>1, <1>2, <1>3, <1>4, <1>5, <1>6, <1>7, <1>8, <1>9, <1>10 DEF Next, Poller

\* The store's invariant holds for any file contents, edits and readers.
THEOREM StoreInvariant == Spec => []StoreInv
BY StoreInit, StoreStep, PTL DEF Spec

\* "A swap can never pair one generation's content with another's stamp"
\* (store.go): in every state, whatever the operator writes between the one
\* read of a tick and its swap.
THEOREM StampsMatchContents == Spec => []GenerationNamesContent
<1>1. StoreInv => GenerationNamesContent
  BY DEF StoreInv, TickIsOneRead, HeldWasServed, GenerationNamesContent
<1>2. QED
  BY <1>1, StoreInvariant, PTL

\* After any Stop has returned no late tick swaps the snapshot or moves the log
\* level.
THEOREM StoppedIsFinal == Spec => FinalAfterStop
<1>1. ASSUME StoreInv, [Next]_vars, NEW s \in Stoppers, stopper[s] = "returned"
      PROVE  UNCHANGED <<cur, level>>
  <2>1. poller = "exited"
    BY <1>1 DEF StoreInv, StopWaits
  <2>2. QED
    BY <1>1, <2>1 DEF Next, Poller, Edit, Get, ReadStamped, Load, Swap, SetGlobalLevel,
          PollStops, Stop, StopReturns, vars
<1>2. StoreInv /\ [Next]_vars =>
         [(\E s \in Stoppers : stopper[s] = "returned") => UNCHANGED <<cur, level>>]_vars
  BY <1>1
<1>3. QED
  BY <1>2, StoreInvariant, PTL DEF Spec, FinalAfterStop

-----------------------------------------------------------------------------
(***************************************************************************)
(* The snapshot of a document that loads.                                  *)
(***************************************************************************)

\* The least of some naturals.
LEMMA MinOfNaturals ==
    ASSUME NEW T, T \subseteq Nat, T # {}
    PROVE  Min(T) \in T /\ \A y \in T : Min(T) <= y
<1>1. PICK x \in T : \A y \in T : ~ (<<y, x>> \in OpToRel(<, Nat))
  BY NatLessThanWellFounded, WFMin
<1>2. x \in Nat /\ \A y \in T : y \in Nat
  OBVIOUS
<1>3. \A y \in T : ~(y < x)
  BY <1>1, <1>2 DEF OpToRel
<1>4. \A y \in T : x <= y
  BY <1>2, <1>3
<1>5. QED
  BY <1>4, Zenon DEF Min

\* Ranking is a strict and total order: no two routes share a rank.
LEMMA RankingIsTotal ==
    ASSUME NEW n \in Nat, NEW routes, \A i \in 1..n : routes[i].priority \in Int,
           NEW i \in 1..n, NEW j \in 1..n
    PROVE  /\ i # j => RanksBefore(routes, i, j) \/ RanksBefore(routes, j, i)
           /\ ~(RanksBefore(routes, i, j) /\ RanksBefore(routes, j, i))
           /\ \A k \in 1..n : RanksBefore(routes, k, i) /\ RanksBefore(routes, i, j)
                                 => RanksBefore(routes, k, j)
BY DEF RanksBefore

\* A route that ranks before another has the smaller place.
LEMMA PlaceFollowsRank ==
    ASSUME NEW n \in Nat, NEW routes, DOMAIN routes = 1..n,
           \A i \in 1..n : routes[i].priority \in Int,
           NEW i \in 1..n, NEW j \in 1..n
    PROVE  /\ Place(routes, i) \in 1..n
           /\ RanksBefore(routes, i, j) => Place(routes, i) < Place(routes, j)
<1> DEFINE Before(k) == {l \in 1..n : RanksBefore(routes, l, k)}
<1>1. IsFiniteSet(1..n) /\ Cardinality(1..n) = n
  BY FS_Interval
<1>2. ASSUME NEW k \in 1..n
      PROVE  /\ IsFiniteSet(Before(k)) /\ Cardinality(Before(k)) \in Nat /\ k \notin Before(k)
             /\ Before(k) \subseteq 1..n
             /\ Cardinality(Before(k)) < n
             /\ Place(routes, k) = 1 + Cardinality(Before(k))
  <2>1. k \notin Before(k) /\ Before(k) \subseteq 1..n
    BY RankingIsTotal
  <2>2. IsFiniteSet(Before(k)) /\ Cardinality(Before(k)) \in Nat
    BY <1>1, <2>1, FS_Subset, FS_CardinalityType
  <2> HIDE DEF Before
  <2>3. Cardinality(Before(k)) <= n /\ Cardinality(Before(k)) # n
    BY <1>1, <2>1, <2>2, FS_Subset
  <2>4. Place(routes, k) = 1 + Cardinality(Before(k))
    BY Zenon DEF Place, Before
  <2>5. QED
    BY <2>1, <2>2, <2>3, <2>4
<1>3. ASSUME RanksBefore(routes, i, j)
      PROVE  Cardinality(Before(i)) < Cardinality(Before(j))
  <2>1. Before(i) \subseteq Before(j) /\ i \in Before(j)
    BY <1>3, RankingIsTotal
  <2> HIDE DEF Before
  <2>2. Before(i) # Before(j) /\ IsFiniteSet(Before(j))
    BY <1>2, <2>1
  <2>3. /\ Cardinality(Before(i)) <= Cardinality(Before(j))
        /\ Cardinality(Before(j)) = Cardinality(Before(i)) => Before(j) = Before(i)
    BY <2>1, <2>2, FS_Subset
  <2>4. Cardinality(Before(i)) \in Nat /\ Cardinality(Before(j)) \in Nat
    BY <1>2
  <2>5. QED
    BY <2>2, <2>3, <2>4
<1> HIDE DEF Before
<1>4. QED
  BY <1>2, <1>3

At(routes, k) == CHOOSE i \in DOMAIN routes : Place(routes, i) = k

\* Every place is taken, by one route; the places are the order of the ranks.
LEMMA EveryPlaceIsTaken ==
    ASSUME NEW n \in Nat, NEW routes, DOMAIN routes = 1..n,
           \A i \in 1..n : routes[i].priority \in Int
    PROVE  /\ \A k \in 1..n : At(routes, k) \in 1..n /\ Place(routes, At(routes, k)) = k
           /\ \A i \in 1..n : Place(routes, i) \in 1..n /\ At(routes, Place(routes, i)) = i
           /\ \A k, l \in 1..n : k < l => RanksBefore(routes, At(routes, k), At(routes, l))
<1> DEFINE place == [i \in 1..n |-> Place(routes, i)]
<1>1. \A i \in 1..n : Place(routes, i) \in 1..n
  BY PlaceFollowsRank
<1>2. ASSUME NEW i \in 1..n, NEW j \in 1..n, Place(routes, i) = Place(routes, j) PROVE i = j
  <2>1. ~(Place(routes, i) < Place(routes, j)) /\ ~(Place(routes, j) < Place(routes, i))
    BY <1>1, <1>2
  <2>2. QED
    BY <2>1, PlaceFollowsRank, RankingIsTotal
<1>3. place \in Injection(1..n, 1..n)
  <2>1. place \in [1..n -> 1..n]
    BY <1>1
  <2>2. IsInjective(place)
    BY <1>2 DEF IsInjective
  <2>3. QED
    BY <2>1, <2>2 DEF Injection
<1>4. place \in Surjection(1..n, 1..n)
  <2>1. IsFiniteSet(1..n)
    BY FS_Interval
  <2> HIDE DEF place
  <2>2. QED
    BY <1>3, <2>1, FS_Injection
<1>5. ASSUME NEW k \in 1..n PROVE \E i \in 1..n : Place(routes, i) = k
  BY <1>4 DEF Surjection
<1>6. \A k \in 1..n : At(routes, k) \in 1..n /\ Place(routes, At(routes, k)) = k
  BY <1>5, Zenon DEF At
<1>7. \A i \in 1..n : At(routes, Place(routes, i)) = i
  BY <1>1, <1>2, <1>6
<1>8. ASSUME NEW k \in 1..n, NEW l \in 1..n, k < l
      PROVE  RanksBefore(routes, At(routes, k), At(routes, l))
  <2>1. /\ At(routes, k) \in 1..n /\ Place(routes, At(routes, k)) = k
        /\ At(routes, l) \in 1..n /\ Place(routes, At(routes, l)) = l
    BY <1>6
  <2>2. At(routes, k) # At(routes, l) /\ ~(l < k)
    BY <1>8, <2>1
  <2>3. ~ RanksBefore(routes, At(routes, l), At(routes, k))
    BY <2>1, <2>2, PlaceFollowsRank
  <2>4. QED
    BY <2>1, <2>2, <2>3, RankingIsTotal
<1>9. QED
  BY <1>1, <1>6, <1>7, <1>8

\* The snapshot's routes are the document's, sorted.
LEMMA ResolvedRoutes ==
    ASSUME NEW f, IsDocument(f)
    PROVE  LET n == Len(f.routes)
               sorted == Resolve(f).routes
           IN  /\ n \in Nat /\ DOMAIN f.routes = 1..n
               /\ \A i \in 1..n : f.routes[i] \in ToSet(f.routes) /\ f.routes[i].priority \in Int
               /\ sorted \in Seq(ToSet(f.routes)) /\ Len(sorted) = n
               /\ \A k \in 1..n : sorted[k] = f.routes[At(f.routes, k)]
<1> DEFINE n == Len(f.routes)
           sorted == [k \in 1..n |-> f.routes[At(f.routes, k)]]
<1>1. f.routes \in Seq(ToSet(f.routes))
  BY DEF IsDocument
<1>2. n \in Nat /\ DOMAIN f.routes = 1..n /\ \A i \in 1..n : f.routes[i] \in ToSet(f.routes)
  BY <1>1, LenProperties, ElementOfSeq
<1>3. \A i \in 1..n : f.routes[i].priority \in Int
  BY <1>2 DEF IsDocument
<1>4. Resolve(f).routes = sorted
  <2>1. Resolve(f).routes = byPriority(f.routes)
    BY Zenon DEF Resolve
  <2>2. byPriority(f.routes) = sorted
    BY <1>2, Zenon DEF byPriority, At
  <2>3. QED
    BY <2>1, <2>2
<1>5. sorted \in Seq(ToSet(f.routes)) /\ Len(sorted) = n
  <2>1. \A k \in 1..n : At(f.routes, k) \in 1..n
    BY <1>2, <1>3, EveryPlaceIsTaken
  <2>2. sorted \in [1..n -> ToSet(f.routes)]
    BY <1>2, <2>1
  <2> HIDE DEF sorted
  <2>3. QED
    BY <1>2, <2>2, SeqDef, LenProperties
<1> HIDE DEF n
<1>6. \A k \in 1..n : sorted[k] = f.routes[At(f.routes, k)]
  OBVIOUS
<1> HIDE DEF sorted
<1>7. QED
  BY <1>2, <1>3, <1>4, <1>5, <1>6, Zenon DEF n

\* What Validate asks of a route makes it usable in the snapshot.
LEMMA LoadedIsUsable ==
    ASSUME NEW f, IsDocument(f), Loads(f)
    PROVE  Usable(Resolve(f))
<1> DEFINE rt == Resolve(f)
           es == f.egress
           E == ToSet(es)
<1>1. /\ rt.egress = es
      /\ rt.maxAttempts = IF f.maxAttempts > 0 THEN f.maxAttempts ELSE defaultMaxAttempts
  BY Zenon DEF Resolve
<1>2. rt.maxAttempts > 0
  <2> HIDE DEF rt
  <2>1. QED
    BY <1>1 DEF defaultMaxAttempts
<1>3. /\ GoodIds(es)
      /\ \A e \in E : validEgress(e)
      /\ \A r \in ToSet(f.routes) : validRoute(f, r)
  BY Zenon DEF Loads, Validate
<1>4. \A e \in E : weight(e) >= 0 /\ e.maxConcurrency >= 0
  BY <1>3, Zenon DEF validEgress
<1>5. es \in Seq(E) /\ Len(es) \in Nat /\ DOMAIN es = 1..Len(es)
      /\ \A i \in 1..Len(es) : es[i] \in E
  <2>1. es \in Seq(E)
    BY DEF IsDocument
  <2>2. QED
    BY <2>1, LenProperties, ElementOfSeq
<1>6. \A i, j \in 1..Len(es) : es[i].id = es[j].id => i = j
  BY <1>3, <1>5 DEF GoodIds, AllDistinct, Ids
<1>7. ASSUME NEW r \in ToSet(f.routes)
      PROVE  /\ r.egress # <<>>
             /\ Cardinality(ToSet(r.egress)) = Len(r.egress)
             /\ \A id \in ToSet(r.egress) : Cardinality({e \in E : e.id = id}) = 1
             /\ r.strategy = WeightedRR =>
                   \E e \in E : e.id \in ToSet(r.egress) /\ weight(e) > 0
  <2>1. /\ r.egress # <<>>
        /\ ToSet(r.egress) \subseteq ToSet(Ids(es))
        /\ AllDistinct(r.egress)
        /\ r.strategy = WeightedRR =>
              \E id \in ToSet(r.egress) : weight(ById(es, id)) > 0
    BY <1>3, Zenon DEF validRoute, validRefs
  <2>2. Cardinality(ToSet(r.egress)) = Len(r.egress)
    <3> DEFINE s == r.egress
    <3>1. s \in Seq(ToSet(s))
      BY DEF IsDocument
    <3>2. Len(s) \in Nat /\ DOMAIN s = 1..Len(s) /\ s \in [1..Len(s) -> ToSet(s)]
      BY <3>1, LenProperties
    <3>3. IsFiniteSet(1..Len(s)) /\ Cardinality(1..Len(s)) = Len(s)
      BY <3>2, FS_Interval
    <3>4. s \in Injection(1..Len(s), ToSet(s))
      BY <2>1, <3>2 DEF AllDistinct, Injection, IsInjective
    <3>5. s \in Surjection(1..Len(s), ToSet(s))
      BY <3>2 DEF Surjection, ToSet
    <3>6. QED
      BY <3>3, <3>4, <3>5, FS_Surjection
  <2>3. ASSUME NEW id \in ToSet(r.egress)
        PROVE  \E i \in 1..Len(es) : es[i].id = id
    BY <1>5, <2>1 DEF ToSet, Ids
  <2>4. ASSUME NEW id \in ToSet(r.egress)
        PROVE  Cardinality({e \in E : e.id = id}) = 1
    <3>1. PICK i \in 1..Len(es) : es[i].id = id
      BY <2>3
    <3>2. {e \in E : e.id = id} = {es[i]}
      BY <1>5, <1>6, <3>1 DEF ToSet
    <3>3. QED
      BY <3>2, FS_Singleton
  <2>5. ASSUME NEW id \in ToSet(r.egress)
        PROVE  ById(es, id) \in E /\ ById(es, id).id = id
    <3> DEFINE T == {i \in 1..Len(es) : es[i].id = id}
    <3>1. T # {} /\ T \subseteq Nat
      BY <2>3
    <3>2. ById(es, id) = es[Min(T)]
      BY <3>1, Zenon DEF ById, SelectInSeq
    <3>3. Min(T) \in T
      <4> HIDE DEF T
      <4>1. QED
        BY <3>1, MinOfNaturals
    <3>4. Min(T) \in 1..Len(es) /\ es[Min(T)].id = id
      BY <3>3
    <3>5. QED
      BY <1>5, <3>2, <3>4
  <2>6. ASSUME r.strategy = WeightedRR
        PROVE  \E e \in E : e.id \in ToSet(r.egress) /\ weight(e) > 0
    BY <2>1, <2>5, <2>6, Zenon
  <2>7. QED
    BY <2>1, <2>2, <2>4, <2>6
<1>8. ToSet(rt.routes) \subseteq ToSet(f.routes)
  <2> DEFINE sorted == rt.routes
  <2>1. sorted \in Seq(ToSet(f.routes))
    BY ResolvedRoutes
  <2> HIDE DEF sorted
  <2>2. ToSet(sorted) \subseteq ToSet(f.routes)
    BY <2>1, LenProperties, ElementOfSeq DEF ToSet
  <2>3. QED
    BY <2>2 DEF sorted
<1> HIDE DEF rt
<1>9. Usable(rt)
  BY <1>1, <1>2, <1>4, <1>7, <1>8, Zenon DEF Usable
<1>10. QED
  BY <1>9 DEF rt

\* MatchRoute over the sorted routes gives what the document says: of the
\* routes that match, the one of the highest priority, the first of those.
LEMMA LoadedIsRouted ==
    ASSUME NEW f, IsDocument(f), NEW p
    PROVE  AsWritten(f, p)
<1> DEFINE n == Len(f.routes)
           rt == Resolve(f)
           sorted == rt.routes
           Hit(i) == matchHolds(f.routes[i].match, p)
           T == {k \in 1..Len(sorted) : matchHolds(sorted[k].match, p)}
           matches == {i \in DOMAIN f.routes : Hit(i)}
           best == {i \in matches : \A j \in matches :
                       /\ f.routes[j].priority <= f.routes[i].priority
                       /\ f.routes[j].priority = f.routes[i].priority => i <= j}
           at(k) == At(f.routes, k)
           picked == MatchRoute(rt, p)
<1>1. /\ n \in Nat /\ DOMAIN f.routes = 1..n /\ Len(sorted) = n
      /\ \A i \in 1..n : f.routes[i].priority \in Int
      /\ \A k \in 1..n : sorted[k] = f.routes[at(k)]
  BY ResolvedRoutes
<1>2. /\ \A k \in 1..n : at(k) \in 1..n
      /\ \A i \in 1..n : \E k \in 1..n : at(k) = i
      /\ \A k, l \in 1..n : k < l => RanksBefore(f.routes, at(k), at(l))
  BY <1>1, EveryPlaceIsTaken
<1>3. picked = IF (IF T # {} THEN Min(T) ELSE 0) = 0 THEN <<>>
               ELSE <<sorted[IF T # {} THEN Min(T) ELSE 0]>>
  BY Zenon DEF MatchRoute, SelectInSeq
<1>4. AsWritten(f, p) <=> ToSet(picked) = {f.routes[i] : i \in best}
  BY Zenon DEF AsWritten
<1> HIDE DEF Hit, at, n
<1>5. T = {k \in 1..n : Hit(at(k))}
  BY <1>1, Zenon DEF Hit
<1> HIDE DEF T, sorted, rt, picked
<1>6. CASE T = {}
  <2>1. picked = <<>>
    BY <1>3, <1>6, Zenon
  <2>2. matches = {}
    BY <1>1, <1>2, <1>5, <1>6
  <2>3. ToSet(picked) = {} /\ {f.routes[i] : i \in best} = {}
    BY <2>1, <2>2 DEF ToSet
  <2>4. QED
    BY <1>4, <2>3, Zenon
<1>7. CASE T # {}
  <2> DEFINE m == Min(T)
             b == at(m)
  <2>1. m \in T /\ \A k \in T : m <= k
    BY <1>1, <1>5, <1>7, MinOfNaturals
  <2> HIDE DEF m
  <2>2. m \in 1..n /\ Hit(b) /\ m # 0
    BY <1>1, <1>5, <2>1
  <2>3. picked = <<sorted[m]>>
    BY <1>3, <1>7, <2>2, Zenon DEF m
  <2>4. sorted[m] = f.routes[b]
    BY <1>1, <2>2
  <2>5. b \in matches
    BY <1>1, <1>2, <2>2
  <2> HIDE DEF b
  <2>6. ASSUME NEW j \in matches, j # b PROVE RanksBefore(f.routes, b, j)
    <3>1. j \in 1..n /\ Hit(j)
      BY <1>1
    <3>2. PICK k \in 1..n : at(k) = j
      BY <1>2, <3>1
    <3>3. k \in T
      BY <1>5, <3>1, <3>2
    <3>4. k # m /\ m <= k
      BY <2>1, <2>6, <3>2, <3>3 DEF b
    <3>5. m < k
      BY <1>1, <2>2, <3>4
    <3>6. QED
      BY <1>2, <2>2, <3>2, <3>5 DEF b
  <2>7. best = {b}
    <3>1. b \in 1..n /\ matches \subseteq 1..n
      BY <1>1, <2>5
    <3>2. b \in best
      BY <1>1, <2>5, <2>6, <3>1 DEF RanksBefore
    <3>3. ASSUME NEW i \in best PROVE i = b
      <4>1. i \in matches /\ i \in 1..n
        BY <3>1
      <4>2. f.routes[b].priority <= f.routes[i].priority
            /\ (f.routes[b].priority = f.routes[i].priority => i <= b)
        BY <2>5
      <4>3. f.routes[b].priority \in Int /\ f.routes[i].priority \in Int
        BY <1>1, <3>1, <4>1
      <4> HIDE DEF best, matches
      <4>4. ~ RanksBefore(f.routes, b, i)
        BY <3>1, <4>1, <4>2, <4>3 DEF RanksBefore
      <4>5. QED
        BY <2>6, <4>1, <4>4
    <3>4. QED
      BY <3>2, <3>3
  <2>8. {f.routes[i] : i \in best} = {f.routes[b]}
    BY <2>7
  <2>9. ToSet(picked) = {f.routes[b]}
    BY <2>3, <2>4 DEF ToSet
  <2>10. QED
    BY <1>4, <2>8, <2>9, Zenon
<1>8. QED
  BY <1>6, <1>7

\* A list of one.
LEMMA ListOfOne == ASSUME NEW x PROVE ToSet(<<x>>) = {x} /\ Len(<<x>>) = 1
BY DEF ToSet

\* The snapshot of a process without a config file.
LEMMA DefaultIsUsable == Usable(DefaultRuntime)
<1> DEFINE e == Egress("direct")
           r == [Route("default", <<"direct">>) EXCEPT !.strategy = RoundRobin]
<1>1. DefaultRuntime.egress = <<e>> /\ DefaultRuntime.routes = <<r>> /\ DefaultRuntime.maxAttempts = 1
  BY Zenon DEF DefaultRuntime
<1>2. e.id = "direct" /\ e.weight = <<>> /\ e.maxConcurrency = 0
  BY Zenon DEF Egress
<1>3. r.egress = <<"direct">> /\ r.strategy = RoundRobin
  BY Zenon DEF Route
<1> HIDE DEF e, r
<1>4. weight(e) = 1
  BY <1>2, Zenon DEF weight, Or, defaultWeight
<1>5. ToSet(<<e>>) = {e} /\ ToSet(<<r>>) = {r} /\ ToSet(r.egress) = {"direct"} /\ Len(r.egress) = 1
  BY <1>3, ListOfOne, Zenon
<1>6. r.egress # <<>>
  BY <1>3
<1>7. Cardinality({"direct"}) = 1 /\ \A x \in {"direct"} : Cardinality({d \in {e} : d.id = x}) = 1
  <2>1. {d \in {e} : d.id = "direct"} = {e}
    BY <1>2
  <2>2. Cardinality({"direct"}) = 1 /\ Cardinality({e}) = 1
    BY FS_Singleton, Zenon
  <2>3. QED
    BY <2>1, <2>2, Zenon
<1>8. RoundRobin # WeightedRR
  BY DEF RoundRobin, WeightedRR
<1>9. weight(e) >= 0 /\ e.maxConcurrency >= 0 /\ 1 > 0
  BY <1>2, <1>4
<1>10. QED
  BY <1>1, <1>3, <1>5, <1>6, <1>7, <1>8, <1>9, Zenon DEF Usable

\* Every snapshot any request can hold is one the scheduler and the executor
\* can work with, and routes every request as its document is written:
\* ServedConfig.ServedConfigIsUsable, for any documents and any requests.
THEOREM ServedConfigsAreUsable == Spec => []ServedConfigIsUsable
<1>1. ASSUME NEW c \in Valid PROVE c \in UsableContents \cap RoutedContents
  <2>1. IsDocument(Documents[c]) /\ Loads(Documents[c])
    BY ServedAssumption
  <2>2. Usable(Resolve(Documents[c])) /\ \A p \in Profiles : AsWritten(Documents[c], p)
    BY <2>1, LoadedIsUsable, LoadedIsRouted
  <2>3. QED
    BY <2>2, Zenon DEF UsableContents, RoutedContents
<1>2. StoreInv => ServedConfigIsUsable
  <2>1. ASSUME StoreInv, NEW r \in Requests PROVE held[r].content \in Valid
    BY <2>1 DEF StoreInv, TypeOK, Runtime
  <2>2. QED
    BY <1>1, <2>1, DefaultIsUsable DEF ServedConfigIsUsable
<1>3. QED
  BY <1>2, StoreInvariant, PTL

-----------------------------------------------------------------------------
(***************************************************************************)
(* The end of the process.  Shutdown shares no variable with the store:    *)
(* its polling is the poller seen from main, which only waits for it.      *)
(***************************************************************************)

ShutdownTypeOK ==
    /\ main \in {"serving", "stopping", "headstart", "shutdown", "draining",
                 "collect", "exited"}
    /\ draining \in BOOLEAN
    /\ listener \in {"open", "failed", "closed"}
    /\ serveDone \in Nat
    /\ conn \in [Conns -> {"fresh", "new", "active", "idle", "closed"}]
    /\ tracked \subseteq Conns
    /\ refused \subseteq Conns

\* The drain flag is up from the signal on.
DrainFollowsSignal == main # "serving" => draining

\* Only a listener that is gone has put its outcome into serveDone, so the
\* head start of a listener that lives is not cut short.
OutcomeMeansGone == serveDone > 0 => listener # "open"

\* A listener still open when Shutdown comes to it saw the whole window, and
\* none is closed before.
WindowBeforeClose ==
    /\ main = "shutdown" /\ listener = "open" => unready = "window"
    /\ main \in {"serving", "stopping", "headstart", "shutdown"} => listener # "closed"

\* connTracker knows every connection with a request on it, until the tracker
\* has been emptied for good.
ActiveIsTracked ==
    main \notin {"collect", "exited"} =>
        \A c \in Conns : conn[c] = "active" => c \in tracked

ShutdownInv ==
    /\ ShutdownTypeOK
    /\ DrainFollowsSignal
    /\ OutcomeMeansGone
    /\ WindowBeforeClose
    /\ ActiveIsTracked
    /\ OrderlyExit

-----------------------------------------------------------------------------
\* The invariant holds when the process starts to serve.
LEMMA ShutdownInit == ProcessInit => ShutdownInv
<1> SUFFICES ASSUME ProcessInit PROVE ShutdownInv
  OBVIOUS
<1>1. ShutdownTypeOK
  BY DEF ProcessInit, ShutdownTypeOK
<1>2. DrainFollowsSignal /\ OutcomeMeansGone /\ WindowBeforeClose
  BY DEF ProcessInit, DrainFollowsSignal, OutcomeMeansGone, WindowBeforeClose
<1>3. ActiveIsTracked
  BY DEF ProcessInit, ActiveIsTracked
<1>4. OrderlyExit
  BY DEF ProcessInit, OrderlyExit, ReadinessDropsFirst, NothingActiveAtExit
<1>5. QED
  BY <1>1, <1>2, <1>3, <1>4 DEF ShutdownInv

\* Every step of main, the listener, the poller and the clients keeps it.
LEMMA ShutdownStep == ShutdownInv /\ [ProcessNext]_processVars => ShutdownInv'
<1> SUFFICES ASSUME ShutdownInv, [ProcessNext]_processVars PROVE ShutdownInv'
  OBVIOUS
<1> USE DEF ShutdownInv, ShutdownTypeOK, DrainFollowsSignal, OutcomeMeansGone,
            WindowBeforeClose, ActiveIsTracked, OrderlyExit, ReadinessDropsFirst,
            NothingActiveAtExit
<1>1. ASSUME NEW c \in Conns, Accept(c) PROVE ShutdownInv'
  BY <1>1 DEF Accept, Track
<1>2. ASSUME NEW c \in Conns, Request(c) PROVE ShutdownInv'
  BY <1>2 DEF Request, Track
<1>3. ASSUME NEW c \in Conns, Finish(c) PROVE ShutdownInv'
  BY <1>3 DEF Finish
<1>4. ASSUME NEW c \in Conns, Close(c) PROVE ShutdownInv'
  BY <1>4 DEF Close, Alive
<1>5. CASE ListenerFails
  BY <1>5 DEF ListenerFails
<1>6. CASE PollerExits
  BY <1>6 DEF PollerExits
<1>7. CASE Signal
  BY <1>7 DEF Signal
<1>8. CASE StopPollers
  BY <1>8 DEF StopPollers
<1>9. CASE HeadStartPasses
  BY <1>9 DEF HeadStartPasses
<1>10. CASE HeadStartCut
  BY <1>10 DEF HeadStartCut
<1>11. CASE ShutdownBegins
  BY <1>11 DEF ShutdownBegins
<1>12. CASE Drained
  BY <1>12 DEF Drained, Alive
<1>13. CASE ForceClose
  BY <1>13 DEF ForceClose
<1>14. CASE Collect
  BY <1>14 DEF Collect
<1>15. CASE UNCHANGED processVars
  BY <1>15 DEF processVars
<1>16. QED
  BY <1>1, <1>2, <1>3, <1>4, <1>5, <1>6, <1>7, <1>8, <1>9, <1>10, <1>11, <1>12,
     <1>13, <1>14, <1>15 DEF ProcessNext, Main

\* Whatever connections come, idle and hang, and whether or not the listener
\* fails by itself: /readyz said 503 for the whole head start before main.go
\* closed the listener, and when main exits every request is over, refused by
\* the drain gate or closed by force.
THEOREM ExitIsOrderly == ProcessSpec => []OrderlyExit
<1>1. ProcessInit /\ [][ProcessNext]_processVars => []ShutdownInv
  BY ShutdownInit, ShutdownStep, PTL
<1>2. ShutdownInv => OrderlyExit
  BY DEF ShutdownInv
<1>3. QED
  BY <1>1, <1>2, PTL DEF ProcessSpec

=============================================================================
