--------------------------- MODULE OutgoingProofs ---------------------------
(***************************************************************************)
(* The user agent cache and the session stores of Outgoing, for any number *)
(* of releases, requests, conversations and clock units.                   *)
(***************************************************************************)
EXTENDS Outgoing, FiniteSetTheorems, TLAPS

-----------------------------------------------------------------------------
(***************************************************************************)
(* The user agent cache: the inductive invariant.                          *)
(***************************************************************************)

Triples == [opencode : Nat, bun : Nat, providerUtils : Nat]

CacheTypeOK ==
    /\ latest \in Nat \ {0}
    /\ inflight \in BOOLEAN
    /\ pc \in [Warmers -> {"new", "idle", "version", "bun", "utils", "v2", "store"}]
    /\ triple \in [Warmers -> Triples]
    /\ v2got \in [Warmers -> Nat]
    /\ v1 \in Triples
    /\ v2 \in Nat

InRound(w) == pc[w] \in {"version", "bun", "utils", "v2", "store"}

\* inflight is the flag of a round, and there is one round at a time.
SingleFlight ==
    /\ \A w \in Warmers : InRound(w) => inflight
    /\ \A w, x \in Warmers : InRound(w) /\ InRound(x) => w = x

\* While the loop waits for its timer it is not inside Warm.
LoopIsBack == loop # "warm" => pc["loop"] = "idle"

\* What a round fetched so far is of one release, no older than what the cache
\* holds; outside a round nothing is left over.
Whole(t) == t.opencode = t.bun /\ t.bun = t.providerUtils /\ t.opencode >= v1.opencode
RoundIsOneRelease ==
    \A w \in Warmers :
        /\ ~InRound(w) \/ pc[w] = "version" => triple[w] = NoTriple
        /\ pc[w] \in {"bun", "utils"} =>
              triple[w].opencode >= v1.opencode /\ triple[w].opencode <= latest
        /\ pc[w] = "utils" => triple[w].bun = triple[w].opencode
        /\ pc[w] \in {"v2", "store"} =>
              triple[w] = NoTriple \/ (Whole(triple[w]) /\ triple[w].opencode <= latest)
        /\ pc[w] # "store" => v2got[w] = NoRelease
        /\ v2got[w] = NoRelease \/ (v2got[w] >= v2 /\ v2got[w] <= latest)

CacheInv ==
    /\ CacheTypeOK
    /\ SingleFlight
    /\ LoopIsBack
    /\ RoundIsOneRelease
    /\ v1.opencode <= latest /\ v2 <= latest
    /\ TripleNeverMixed

-----------------------------------------------------------------------------
(***************************************************************************)
(* The session stores: the inductive invariant.                            *)
(***************************************************************************)

LastUse(s) == [id : Nat, at : Nat, others : SUBSET Keys[s]]

\* An access that waits for the lock of its store.
Waits(a) == a.store \in Stores /\ a.key \in Keys[a.store] /\ a.at \in Nat

SessionsTypeOK ==
    /\ now \in Nat /\ drawn \in Nat /\ cutoff \in Nat
    /\ DOMAIN access = Requests
    /\ \A r \in Requests : access[r] # NoAccess => Waits(access[r])
    /\ sweep \subseteq Stores
    /\ DOMAIN entries = Stores
    /\ DOMAIN used = Stores
    /\ \A s \in Stores : used[s] \in [Keys[s] -> LastUse(s)]

\* An entry is the last answer its key got.
EntryIsLastUse(s) ==
    /\ DOMAIN entries[s] \subseteq Keys[s]
    /\ \A k \in DOMAIN entries[s] :
          /\ used[s][k].id # 0
          /\ entries[s][k].id = used[s][k].id
          /\ entries[s][k].lastUsed = used[s][k].at

\* The entries with a lastUsed no older than that of k, which a full store
\* drops after k, are on record as others of k.
UsesAreOrdered(s) ==
    \A k \in DOMAIN entries[s] : \A j \in DOMAIN entries[s] \ {k} :
        entries[s][j].lastUsed >= entries[s][k].lastUsed => j \in used[s][k].others

AllFinite(s) ==
    /\ IsFiniteSet(DOMAIN entries[s])
    /\ \A k \in Keys[s] : IsFiniteSet(used[s][k].others)

\* IdIsStable for one store.
Stable(s) ==
    \A k \in Keys[s] :
        used[s][k].id # 0 /\ now <= used[s][k].at + TTL
            /\ Cardinality(used[s][k].others) < Cap[s]
        => k \in DOMAIN entries[s]

\* The janitor may be late, never early.
CutoffIsPast == sweep # {} => cutoff + TTL <= now

StoreInv(s) == EntryIsLastUse(s) /\ UsesAreOrdered(s) /\ AllFinite(s) /\ Stable(s)
SessionsInv == SessionsTypeOK /\ CutoffIsPast /\ \A s \in Stores : StoreInv(s)

OutgoingInv == CacheInv /\ SessionsInv

-----------------------------------------------------------------------------
\* The keys of the two stores, and that each holds something.
LEMMA KeysFacts ==
    /\ \A t \in Texts : t \in Keys["assistant"]
    /\ Anonymous \in Keys["connection"]
    /\ \A s \in Stores : Cap[s] \in Nat \ {0}
BY SessionsAssumption DEF Keys, Cap, Stores

-----------------------------------------------------------------------------
(***************************************************************************)
(* The user agent cache.                                                   *)
(***************************************************************************)

\* The cache starts with its fallback and no round.
LEMMA CacheInitInv == CacheInit => CacheInv
<1> SUFFICES ASSUME CacheInit PROVE CacheInv
  OBVIOUS
<1>1. NoTriple \in Triples /\ NoRelease = 0
  BY DEF NoTriple, Triples, NoRelease
<1>2. CacheTypeOK
  <2>1. pc \in [Warmers -> {"new", "idle", "version", "bun", "utils", "v2", "store"}]
    BY DEF CacheInit
  <2>2. triple \in [Warmers -> Triples] /\ v2got \in [Warmers -> Nat]
    BY <1>1 DEF CacheInit
  <2>3. latest = 1 /\ v1 = NoTriple /\ v2 = 0
    BY <1>1 DEF CacheInit
  <2>4. inflight \in BOOLEAN
    BY Zenon DEF CacheInit
  <2>5. latest \in Nat \ {0} /\ v1 \in Triples /\ v2 \in Nat
    BY <1>1, <2>3
  <2>6. QED
    BY <2>1, <2>2, <2>4, <2>5, Zenon DEF CacheTypeOK
<1>3. \A w \in Warmers : pc[w] \in {"new", "idle"} /\ triple[w] = NoTriple
                         /\ v2got[w] = NoRelease
  BY DEF CacheInit
<1>4. SingleFlight /\ RoundIsOneRelease /\ LoopIsBack
  <2>1. pc["loop"] = "idle"
    BY DEF CacheInit, Warmers
  <2>2. QED
    BY <1>3, <2>1 DEF SingleFlight, RoundIsOneRelease, LoopIsBack, InRound
<1>5. v1.opencode = 0 /\ v1.bun = 0 /\ v1.providerUtils = 0 /\ v2 = 0 /\ latest = 1
  BY DEF CacheInit, NoTriple, NoRelease
<1>6. QED
  BY <1>2, <1>4, <1>5 DEF CacheInv, TripleNeverMixed

\* Releases, the network, the interval and the loop's own moves touch neither
\* a round nor the cache; the newest release only moves forward.
LEMMA CacheAround ==
    ASSUME CacheInv, UNCHANGED <<pc, triple, v2got, inflight, v1, v2>>,
           latest' \in Nat, latest' >= latest, loop' # "warm" => pc["loop"] = "idle"
    PROVE  CacheInv'
<1>1. CacheTypeOK'
  BY DEF CacheInv, CacheTypeOK
<1>2. SingleFlight' /\ TripleNeverMixed' /\ LoopIsBack'
  BY DEF CacheInv, SingleFlight, InRound, TripleNeverMixed, LoopIsBack
<1>3. v1'.opencode <= latest' /\ v2' <= latest'
  BY DEF CacheInv, CacheTypeOK, Triples
<1>4. RoundIsOneRelease'
  BY DEF CacheInv, CacheTypeOK, Triples, RoundIsOneRelease, InRound, Whole
<1>5. QED
  BY <1>1, <1>2, <1>3, <1>4 DEF CacheInv

\* A caller that finds a round in flight goes away; one that does not starts
\* the only round.
LEMMA CacheEnter ==
    ASSUME CacheInv, NEW w \in Warmers, pc[w] \in {"new", "idle"}, Enter(w),
           UNCHANGED <<latest, triple, v2got, v1, v2>>,
           loop' = "warm" \/ (w # "loop" /\ loop' = loop)
    PROVE  CacheInv'
<1>1. pc'[w] = (IF inflight THEN "idle" ELSE "version")
      /\ \A x \in Warmers \ {w} : pc'[x] = pc[x]
  BY DEF Enter, CacheInv, CacheTypeOK
<1>2. CacheTypeOK'
  BY DEF Enter, CacheInv, CacheTypeOK
<1>3. SingleFlight' /\ LoopIsBack'
  BY <1>1 DEF Enter, CacheInv, CacheTypeOK, SingleFlight, InRound, LoopIsBack, Warmers
<1>4. RoundIsOneRelease'
  BY <1>1 DEF CacheInv, RoundIsOneRelease, InRound, Whole
<1>5. QED
  BY <1>2, <1>3, <1>4 DEF CacheInv, TripleNeverMixed

\* One step of a round, up to its store.
LEMMA CacheFetch ==
    ASSUME CacheInv, NEW w \in Warmers, InRound(w), pc[w] # "store",
           NEW at \in {"bun", "utils", "v2", "store"}, NEW t \in Triples, NEW v \in Nat,
           pc' = [pc EXCEPT ![w] = at], triple' = [triple EXCEPT ![w] = t],
           v2got' = [v2got EXCEPT ![w] = v],
           UNCHANGED <<latest, inflight, loop, v1, v2>>,
           at \in {"bun", "utils"} => t.opencode >= v1.opencode /\ t.opencode <= latest,
           at = "utils" => t.bun = t.opencode,
           at \in {"v2", "store"} => t = NoTriple \/ (Whole(t) /\ t.opencode <= latest),
           at # "store" => v = NoRelease,
           v = NoRelease \/ (v >= v2 /\ v <= latest)
    PROVE  CacheInv'
<1>1. /\ pc'[w] = at /\ triple'[w] = t /\ v2got'[w] = v
      /\ \A x \in Warmers \ {w} : pc'[x] = pc[x] /\ triple'[x] = triple[x]
                                  /\ v2got'[x] = v2got[x]
  BY DEF CacheInv, CacheTypeOK
<1>2. CacheTypeOK'
  BY DEF CacheInv, CacheTypeOK
<1>3. SingleFlight' /\ LoopIsBack'
  BY <1>1 DEF CacheInv, SingleFlight, InRound, LoopIsBack, Warmers
<1>4. RoundIsOneRelease'
  <2> SUFFICES ASSUME NEW x \in Warmers
               PROVE /\ ~InRound(x)' \/ pc'[x] = "version" => triple'[x] = NoTriple
                     /\ pc'[x] \in {"bun", "utils"} =>
                          triple'[x].opencode >= v1'.opencode /\ triple'[x].opencode <= latest'
                     /\ pc'[x] = "utils" => triple'[x].bun = triple'[x].opencode
                     /\ pc'[x] \in {"v2", "store"} =>
                          triple'[x] = NoTriple
                          \/ (Whole(triple[x])' /\ triple'[x].opencode <= latest')
                     /\ pc'[x] # "store" => v2got'[x] = NoRelease
                     /\ v2got'[x] = NoRelease \/ (v2got'[x] >= v2' /\ v2got'[x] <= latest')
    BY DEF RoundIsOneRelease
  <2>1. CASE x = w
    BY <1>1, <2>1 DEF InRound, Whole
  <2>2. CASE x # w
    BY <1>1, <2>2 DEF CacheInv, RoundIsOneRelease, InRound, Whole
  <2>3. QED
    BY <2>1, <2>2
<1>5. QED
  BY <1>2, <1>3, <1>4 DEF CacheInv, TripleNeverMixed

\* Each fetch of a round keeps it within one release.
LEMMA CacheRound ==
    ASSUME CacheInv, NEW w \in Warmers, FetchVersion(w) \/ FetchBun(w) \/ FetchUtils(w) \/ FetchV2(w)
    PROVE  CacheInv'
<1> USE DEF InRound
<1>0. NoTriple \in Triples /\ NoRelease = 0 /\ NoRelease \in Nat
  BY DEF NoTriple, Triples, NoRelease
<1>1. /\ triple[w] \in Triples /\ v2got[w] \in Nat /\ v1 \in Triples /\ latest \in Nat
      /\ triple[w].opencode \in Nat /\ v1.opencode \in Nat
      /\ v1.opencode <= latest /\ v2 <= latest
      /\ triple = [triple EXCEPT ![w] = triple[w]] /\ v2got = [v2got EXCEPT ![w] = v2got[w]]
  BY DEF CacheInv, CacheTypeOK, Triples
<1>2. CASE FetchVersion(w)
  <2>0. UNCHANGED <<latest, inflight, loop, v1, v2, v2got>>
    BY <1>2 DEF FetchVersion, FetchSegment
  <2>1. pc[w] = "version" /\ v2got[w] = NoRelease /\ triple[w] = NoTriple
    BY <1>2 DEF FetchVersion, FetchSegment, CacheInv, RoundIsOneRelease
  <2>2. CASE triple' = [triple EXCEPT ![w]["opencode"] = latest] /\ pc' = [pc EXCEPT ![w] = "bun"]
    <3> DEFINE t == [triple[w] EXCEPT !["opencode"] = latest]
    <3>1. t \in Triples /\ t.opencode >= v1.opencode /\ t.opencode <= latest
      BY <1>1 DEF Triples
    <3>2. triple' = [triple EXCEPT ![w] = t]
      BY <2>2
    <3> HIDE DEF t
    <3>3. QED
      BY <1>0, <1>1, <2>0, <2>1, <2>2, <3>1, <3>2, CacheFetch
  <2>3. CASE triple' = [triple EXCEPT ![w] = NoTriple] /\ pc' = [pc EXCEPT ![w] = "v2"]
    BY <1>0, <1>1, <1>2, <2>1, <2>3, CacheFetch DEF FetchVersion, FetchSegment
  <2>4. QED
    BY <1>2, <2>2, <2>3 DEF FetchVersion, FetchSegment
<1>3. CASE FetchBun(w)
  <2>0. UNCHANGED <<latest, inflight, loop, v1, v2, v2got>>
    BY <1>3 DEF FetchBun, FetchSegment
  <2>1. pc[w] = "bun" /\ v2got[w] = NoRelease
        /\ triple[w].opencode >= v1.opencode /\ triple[w].opencode <= latest
    BY <1>3 DEF FetchBun, FetchSegment, CacheInv, RoundIsOneRelease
  <2>2. CASE triple' = [triple EXCEPT ![w]["bun"] = triple[w].opencode]
             /\ pc' = [pc EXCEPT ![w] = "utils"]
    <3> DEFINE t == [triple[w] EXCEPT !["bun"] = triple[w].opencode]
    <3>1. t \in Triples /\ t.opencode >= v1.opencode /\ t.opencode <= latest
          /\ t.bun = t.opencode
      BY <1>1, <2>1 DEF Triples
    <3>2. triple' = [triple EXCEPT ![w] = t]
      BY <2>2
    <3> HIDE DEF t
    <3>3. QED
      BY <1>0, <1>1, <2>0, <2>1, <2>2, <3>1, <3>2, CacheFetch
  <2>3. CASE triple' = [triple EXCEPT ![w] = NoTriple] /\ pc' = [pc EXCEPT ![w] = "v2"]
    BY <1>0, <1>1, <1>3, <2>1, <2>3, CacheFetch DEF FetchBun, FetchSegment
  <2>4. QED
    BY <1>3, <2>2, <2>3 DEF FetchBun, FetchSegment, Tag
<1>4. CASE FetchUtils(w)
  <2>0. UNCHANGED <<latest, inflight, loop, v1, v2, v2got>>
    BY <1>4 DEF FetchUtils, FetchSegment
  <2>1. pc[w] = "utils" /\ v2got[w] = NoRelease /\ triple[w].bun = triple[w].opencode
        /\ triple[w].opencode >= v1.opencode /\ triple[w].opencode <= latest
    BY <1>4 DEF FetchUtils, FetchSegment, CacheInv, RoundIsOneRelease
  <2>2. CASE triple' = [triple EXCEPT ![w]["providerUtils"] = triple[w].opencode]
             /\ pc' = [pc EXCEPT ![w] = "v2"]
    <3> DEFINE t == [triple[w] EXCEPT !["providerUtils"] = triple[w].opencode]
    <3>1. t \in Triples /\ Whole(t) /\ t.opencode <= latest
      BY <1>1, <2>1 DEF Triples, Whole
    <3>2. triple' = [triple EXCEPT ![w] = t]
      BY <2>2
    <3> HIDE DEF t
    <3>3. QED
      BY <1>0, <1>1, <2>0, <2>1, <2>2, <3>1, <3>2, CacheFetch
  <2>3. CASE triple' = [triple EXCEPT ![w] = NoTriple] /\ pc' = [pc EXCEPT ![w] = "v2"]
    BY <1>0, <1>1, <1>4, <2>1, <2>3, CacheFetch DEF FetchUtils, FetchSegment
  <2>4. QED
    BY <1>4, <2>2, <2>3 DEF FetchUtils, FetchSegment, Tag
<1>5. CASE FetchV2(w)
  <2>1. pc[w] = "v2" /\ (triple[w] = NoTriple \/ (Whole(triple[w]) /\ triple[w].opencode <= latest))
    BY <1>5 DEF FetchV2, CacheInv, RoundIsOneRelease
  <2>2. PICK v \in {latest, NoRelease} : v2got' = [v2got EXCEPT ![w] = v]
    BY <1>5 DEF FetchV2
  <2>3. v \in Nat /\ (v = NoRelease \/ (v >= v2 /\ v <= latest))
    BY <1>0, <1>1, <2>2 DEF CacheInv, CacheTypeOK
  <2>4. QED
    BY <1>0, <1>1, <1>5, <2>1, <2>2, <2>3, CacheFetch DEF FetchV2
<1>6. QED
  BY <1>2, <1>3, <1>4, <1>5

\* The store of a round replaces each form by a newer one or not at all.
LEMMA CacheStore ==
    ASSUME CacheInv, NEW w \in Warmers, StoreDual(w)
    PROVE  /\ CacheInv'
           /\ v1'.opencode >= v1.opencode /\ v2' >= v2
<1>0. NoTriple \in Triples /\ NoRelease = 0 /\ pc[w] = "store"
  BY DEF NoTriple, Triples, NoRelease, StoreDual
<1>1. /\ triple[w] = NoTriple \/ (Whole(triple[w]) /\ triple[w].opencode <= latest)
      /\ v2got[w] = NoRelease \/ (v2got[w] >= v2 /\ v2got[w] <= latest)
  BY <1>0 DEF CacheInv, RoundIsOneRelease
<1>2. /\ pc'[w] = "idle" /\ triple'[w] = NoTriple /\ v2got'[w] = NoRelease
      /\ \A x \in Warmers \ {w} : pc'[x] = pc[x] /\ triple'[x] = triple[x]
                                  /\ v2got'[x] = v2got[x]
  BY DEF StoreDual, CacheInv, CacheTypeOK
<1>3. \A x \in Warmers \ {w} : ~InRound(x)
  BY <1>0 DEF CacheInv, SingleFlight, InRound
<1>4. CacheTypeOK'
  BY <1>0 DEF StoreDual, CacheInv, CacheTypeOK
<1>5. SingleFlight' /\ LoopIsBack'
  BY <1>2, <1>3 DEF SingleFlight, InRound, StoreDual, CacheInv, LoopIsBack, Warmers
<1>6. RoundIsOneRelease'
  BY <1>2, <1>3 DEF CacheInv, RoundIsOneRelease, InRound
<1>7. /\ v1'.opencode >= v1.opencode /\ v1'.opencode <= latest
      /\ v1'.opencode = v1'.bun /\ v1'.bun = v1'.providerUtils
  BY <1>1 DEF StoreDual, Whole, CacheInv, CacheTypeOK, Triples, TripleNeverMixed
<1>8. v2' >= v2 /\ v2' <= latest
  BY <1>1 DEF StoreDual, CacheInv, CacheTypeOK
<1>9. latest' = latest
  BY DEF StoreDual
<1>10. QED
  BY <1>4, <1>5, <1>6, <1>7, <1>8, <1>9 DEF CacheInv, TripleNeverMixed

\* Every step of the cache keeps its invariant and moves the forms forward only.
LEMMA CacheStep ==
    ASSUME CacheInv, [CacheNext]_cacheVars
    PROVE  /\ CacheInv'
           /\ v1'.opencode >= v1.opencode /\ v2' >= v2
<1>0. v1.opencode \in Nat /\ v2 \in Nat /\ latest \in Nat
  BY DEF CacheInv, CacheTypeOK, Triples
<1> DEFINE Goal == CacheInv' /\ v1'.opencode >= v1.opencode /\ v2' >= v2
<1>1. CASE Release \/ NetworkChanges \/ IntervalChanges \/ StopSync \/ LoopResumes \/ LoopStops
           \/ UNCHANGED cacheVars
  <2>1. /\ UNCHANGED <<pc, triple, v2got, inflight, v1, v2>>
        /\ latest' \in {latest, latest + 1}
        /\ loop' # "warm" => pc["loop"] = "idle"
    BY <1>1 DEF Release, NetworkChanges, IntervalChanges, StopSync, LoopResumes, LoopStops,
                cacheVars, CacheInv, LoopIsBack
  <2>2. QED
    BY <1>0, <2>1, CacheAround
<1>2. CASE WarmAtStartup
  BY <1>0, <1>2, CacheEnter DEF WarmAtStartup, Warmers
<1>3. CASE LoopWarms
  <2>1. pc["loop"] \in {"new", "idle"}
    BY <1>3 DEF LoopWarms, CacheInv, LoopIsBack
  <2>2. QED
    BY <1>0, <1>3, <2>1, CacheEnter DEF LoopWarms, Warmers
<1>4. ASSUME NEW w \in Warmers, Round(w) PROVE Goal
  <2>1. CASE StoreDual(w)
    BY <2>1, CacheStore
  <2>2. CASE FetchVersion(w) \/ FetchBun(w) \/ FetchUtils(w) \/ FetchV2(w)
    <3>1. v1' = v1 /\ v2' = v2
      BY <2>2 DEF FetchVersion, FetchBun, FetchUtils, FetchV2, FetchSegment
    <3>2. QED
      BY <1>0, <2>2, <3>1, CacheRound
  <2>3. QED
    BY <1>4, <2>1, <2>2 DEF Round
<1>5. QED
  BY <1>1, <1>2, <1>3, <1>4 DEF CacheNext, Sync

-----------------------------------------------------------------------------
(***************************************************************************)
(* The session stores.                                                     *)
(***************************************************************************)

\* The stores start empty.
LEMMA SessionsInitInv == SessionsInit => SessionsInv
<1> SUFFICES ASSUME SessionsInit PROVE SessionsInv
  OBVIOUS
<1>1. /\ DOMAIN entries = Stores /\ DOMAIN used = Stores
      /\ \A s \in Stores : DOMAIN entries[s] = {}
  BY DEF SessionsInit, NoKeys
<1>2. /\ now = 0 /\ drawn = 0 /\ cutoff = 0 /\ sweep = {}
      /\ DOMAIN access = Requests /\ \A r \in Requests : access[r] = NoAccess
  BY DEF SessionsInit
<1>3. ASSUME NEW s \in Stores
      PROVE  /\ used[s] \in [Keys[s] -> LastUse(s)]
             /\ \A k \in Keys[s] : used[s][k].id = 0 /\ used[s][k].others = {}
  BY DEF SessionsInit, LastUse
<1>4. SessionsTypeOK
  BY <1>1, <1>2, <1>3 DEF SessionsTypeOK
<1>5. ASSUME NEW s \in Stores PROVE StoreInv(s)
  BY <1>1, <1>3, FS_EmptySet
     DEF StoreInv, EntryIsLastUse, UsesAreOrdered, AllFinite, Stable
<1>6. CutoffIsPast
  BY <1>2 DEF CutoffIsPast
<1>7. QED
  BY <1>4, <1>5, <1>6 DEF SessionsInv

\* A store nobody touches: the clock only makes its keys older.
LEMMA StoreFrame ==
    ASSUME SessionsTypeOK, NEW s \in Stores, StoreInv(s),
           entries'[s] = entries[s], used'[s] = used[s], now' \in Nat, now' >= now
    PROVE  StoreInv(s)'
<1>0. \A k \in Keys[s] : used[s][k].at \in Nat
  BY DEF SessionsTypeOK, LastUse
<1>1. EntryIsLastUse(s)' /\ AllFinite(s)' /\ UsesAreOrdered(s)'
  BY DEF StoreInv, EntryIsLastUse, AllFinite, UsesAreOrdered
<1>2. Stable(s)'
  BY <1>0, SessionsAssumption DEF StoreInv, Stable, SessionsTypeOK
<1>3. QED
  BY <1>1, <1>2 DEF StoreInv

\* What Use records, key by key.
LEMMA UseFacts ==
    ASSUME SessionsTypeOK, NEW s \in Stores, NEW k \in Keys[s], NEW id \in Nat, NEW at \in Nat,
           DOMAIN entries'[s] \subseteq Keys[s], Use(s, k, id, at)
    PROVE  /\ DOMAIN used' = Stores
           /\ \A r \in Stores \ {s} : used'[r] = used[r]
           /\ used'[s] \in [Keys[s] -> LastUse(s)]
           /\ used'[s][k].id = id /\ used'[s][k].at = at
           /\ used'[s][k].others = NotOlder(entries'[s], k, at)
           /\ \A j \in Keys[s] \ {k} :
                 /\ used'[s][j].id = used[s][j].id /\ used'[s][j].at = used[s][j].at
                 /\ used'[s][j].others = used[s][j].others \cup {k}
<1> DEFINE others == NotOlder(entries'[s], k, at)
<1>0. others \subseteq Keys[s]
  BY DEF NotOlder
<1>1. used[s] \in [Keys[s] -> LastUse(s)] /\ DOMAIN used = Stores
  BY DEF SessionsTypeOK
<1>2. used'[s] = [j \in Keys[s] |->
                     IF j = k THEN [id |-> id, at |-> at, others |-> others]
                     ELSE [used[s][j] EXCEPT !.others = @ \cup {k}]]
  BY <1>1 DEF Use
<1>3. DOMAIN used' = Stores /\ \A r \in Stores \ {s} : used'[r] = used[r]
  BY <1>1 DEF Use
<1> HIDE DEF others
<1>4. [id |-> id, at |-> at, others |-> others] \in LastUse(s)
  BY <1>0 DEF LastUse
<1>5. ASSUME NEW j \in Keys[s]
      PROVE  /\ [used[s][j] EXCEPT !.others = @ \cup {k}] \in LastUse(s)
             /\ [used[s][j] EXCEPT !.others = @ \cup {k}].id = used[s][j].id
             /\ [used[s][j] EXCEPT !.others = @ \cup {k}].at = used[s][j].at
             /\ [used[s][j] EXCEPT !.others = @ \cup {k}].others = used[s][j].others \cup {k}
  BY <1>1 DEF LastUse
<1>6. used'[s] \in [Keys[s] -> LastUse(s)]
  BY <1>2, <1>4, <1>5
<1>7. used'[s][k].id = id /\ used'[s][k].at = at /\ used'[s][k].others = others
  BY <1>2
<1>8. ASSUME NEW j \in Keys[s] \ {k}
      PROVE  /\ used'[s][j].id = used[s][j].id /\ used'[s][j].at = used[s][j].at
             /\ used'[s][j].others = used[s][j].others \cup {k}
  BY <1>2, <1>5
<1>9. QED
  BY <1>3, <1>6, <1>7, <1>8 DEF others

\* A use of k, at whatever reading of the clock, leaves the store in order,
\* provided that whatever it drops had as many others since as the store holds.
LEMMA StoreUsed ==
    ASSUME SessionsTypeOK, NEW s \in Stores, StoreInv(s), NEW k \in Keys[s],
           NEW id \in Nat \ {0}, NEW at \in Nat, Use(s, k, id, at), now' = now,
           k \in DOMAIN entries'[s],
           DOMAIN entries'[s] \subseteq DOMAIN entries[s] \cup {k},
           entries'[s][k].id = id, entries'[s][k].lastUsed = at,
           \A j \in DOMAIN entries'[s] \ {k} : entries'[s][j] = entries[s][j],
           \A j \in DOMAIN entries[s] \ DOMAIN entries'[s] :
               j \in Keys[s] \ {k} /\ Cardinality(used[s][j].others \cup {k}) >= Cap[s]
    PROVE  StoreInv(s)'
<1>k. DOMAIN entries'[s] \subseteq Keys[s]
  BY DEF StoreInv, EntryIsLastUse
<1>0. /\ used'[s][k].id = id /\ used'[s][k].at = at
      /\ used'[s][k].others = NotOlder(entries'[s], k, at)
      /\ \A j \in Keys[s] \ {k} :
            /\ used'[s][j].id = used[s][j].id /\ used'[s][j].at = used[s][j].at
            /\ used'[s][j].others = used[s][j].others \cup {k}
  BY <1>k, UseFacts
<1>1. /\ now \in Nat /\ Cap[s] \in Nat /\ TTL \in Nat
      /\ \A j \in Keys[s] : used[s][j].at \in Nat /\ used[s][j].id \in Nat
  BY KeysFacts, SessionsAssumption DEF SessionsTypeOK, LastUse
<1>2. EntryIsLastUse(s)'
  BY <1>0, <1>k DEF StoreInv, EntryIsLastUse
<1>3. AllFinite(s)'
  <2>1. IsFiniteSet(DOMAIN entries[s] \cup {k})
    BY FS_AddElement DEF StoreInv, AllFinite
  <2>2. IsFiniteSet(DOMAIN entries'[s])
    BY <2>1, FS_Subset
  <2>3. IsFiniteSet(used'[s][k].others)
    <3>1. NotOlder(entries'[s], k, at) \subseteq DOMAIN entries'[s]
      BY DEF NotOlder
    <3>2. QED
      BY <1>0, <2>2, <3>1, FS_Subset
  <2>4. ASSUME NEW j \in Keys[s] \ {k} PROVE IsFiniteSet(used'[s][j].others)
    <3>1. IsFiniteSet(used[s][j].others \cup {k})
      BY FS_AddElement DEF StoreInv, AllFinite
    <3>2. QED
      BY <1>0, <3>1
  <2>5. QED
    BY <2>2, <2>3, <2>4 DEF AllFinite
<1>4. UsesAreOrdered(s)'
  <2> SUFFICES ASSUME NEW i \in DOMAIN entries'[s], NEW j \in DOMAIN entries'[s] \ {i},
                      entries'[s][j].lastUsed >= entries'[s][i].lastUsed
               PROVE  j \in used'[s][i].others
    BY DEF UsesAreOrdered
  <2>1. CASE i = k
    BY <1>0, <2>1 DEF NotOlder
  <2>2. CASE i # k /\ j = k
    BY <1>0, <1>k, <2>2
  <2>3. CASE i # k /\ j # k
    <3>1. /\ i \in DOMAIN entries[s] /\ j \in DOMAIN entries[s]
          /\ entries'[s][i] = entries[s][i] /\ entries'[s][j] = entries[s][j]
      BY <2>3
    <3>2. j \in used[s][i].others
      BY <3>1 DEF StoreInv, UsesAreOrdered
    <3>3. QED
      BY <1>0, <1>k, <2>3, <3>2
  <2>4. QED
    BY <2>1, <2>2, <2>3
<1>5. Stable(s)'
  <2> SUFFICES ASSUME NEW j \in Keys[s], used'[s][j].id # 0, now' <= used'[s][j].at + TTL,
                      Cardinality(used'[s][j].others) < Cap[s]
               PROVE  j \in DOMAIN entries'[s]
    BY DEF Stable
  <2>1. CASE j = k
    BY <2>1
  <2>2. CASE j # k
    <3>1. /\ IsFiniteSet(used'[s][j].others)
          /\ used[s][j].others \subseteq used'[s][j].others
      BY <1>0, <1>3, <2>2 DEF AllFinite
    <3>2. /\ Cardinality(used[s][j].others) <= Cardinality(used'[s][j].others)
          /\ Cardinality(used[s][j].others) \in Nat /\ Cardinality(used'[s][j].others) \in Nat
      BY <3>1, FS_Subset, FS_CardinalityType
    <3>3. Cardinality(used[s][j].others) < Cap[s]
      BY <1>1, <3>2
    <3>4. now <= used[s][j].at + TTL /\ used[s][j].id # 0
      BY <1>0, <1>1, <2>2
    <3>5. j \in DOMAIN entries[s]
      BY <3>3, <3>4 DEF StoreInv, Stable
    <3>6. used'[s][j].others = used[s][j].others \cup {k}
      BY <1>0, <2>2
    <3>7. ~(Cardinality(used[s][j].others \cup {k}) >= Cap[s])
      <4>1. ~(Cardinality(used'[s][j].others) >= Cap[s])
        BY <1>1, <3>2
      <4>2. QED
        BY <3>6, <4>1
    <3>8. QED
      BY <3>5, <3>7
  <2>3. QED
    BY <2>1, <2>2
<1>6. QED
  BY <1>2, <1>3, <1>4, <1>5 DEF StoreInv

\* A full store drops an entry that every other one came after, by the lock or
\* by the clock; with the key that takes its place these fill the store.
LEMMA OldestFacts ==
    ASSUME SessionsTypeOK, NEW s \in Stores, StoreInv(s), NEW o \in Oldest(entries[s]),
           NEW k \in Keys[s], k \notin DOMAIN entries[s],
           Cardinality(DOMAIN entries[s]) >= Cap[s]
    PROVE  /\ o \in DOMAIN entries[s] /\ o \in Keys[s] \ {k}
           /\ Cardinality(used[s][o].others \cup {k}) >= Cap[s]
<1> DEFINE D == DOMAIN entries[s]
           others == used[s][o].others \cup {k}
<1>1. o \in D /\ \A j \in D : entries[s][o].lastUsed <= entries[s][j].lastUsed
  BY DEF Oldest
<1>2. \A j \in D : j \in Keys[s] /\ entries[s][j].lastUsed \in Nat
  BY DEF StoreInv, EntryIsLastUse, SessionsTypeOK, LastUse
<1>3. D \ {o} \subseteq used[s][o].others
  BY <1>1, <1>2 DEF StoreInv, UsesAreOrdered
<1>4. IsFiniteSet(D) /\ IsFiniteSet(others)
  BY <1>1, <1>2, FS_AddElement DEF StoreInv, AllFinite
<1>5. /\ IsFiniteSet((D \ {o}) \cup {k})
      /\ Cardinality((D \ {o}) \cup {k}) = Cardinality(D)
  <2>1. IsFiniteSet(D \ {o}) /\ Cardinality(D \ {o}) = Cardinality(D) - 1
    BY <1>1, <1>4, FS_RemoveElement
  <2>2. /\ IsFiniteSet((D \ {o}) \cup {k})
        /\ Cardinality((D \ {o}) \cup {k}) = Cardinality(D \ {o}) + 1
    BY <2>1, FS_AddElement
  <2>3. Cardinality(D) \in Nat
    BY <1>4, FS_CardinalityType
  <2>4. QED
    BY <2>1, <2>2, <2>3
<1>6. Cardinality((D \ {o}) \cup {k}) <= Cardinality(others)
  BY <1>3, <1>4, FS_Subset
<1>7. Cardinality(D) \in Nat /\ Cardinality(others) \in Nat /\ Cap[s] \in Nat
  BY <1>4, FS_CardinalityType, KeysFacts
<1>8. Cardinality(others) >= Cap[s]
  BY <1>5, <1>6, <1>7
<1>9. QED
  BY <1>1, <1>2, <1>8

\* A hit moves lastUsed to the reading of its request, forwards or backwards.
LEMMA HitKeeps ==
    ASSUME SessionsTypeOK, NEW s \in Stores, StoreInv(s), NEW k \in Keys[s], NEW at \in Nat,
           now' = now, Hit(s, k, at)
    PROVE  /\ StoreInv(s)' /\ drawn' \in Nat
           /\ DOMAIN entries' = Stores /\ DOMAIN used' = Stores
           /\ \A r \in Stores \ {s} : entries'[r] = entries[r] /\ used'[r] = used[r]
           /\ used'[s] \in [Keys[s] -> LastUse(s)]
<1> DEFINE id == entries[s][k].id
<1>1. /\ k \in DOMAIN entries[s] /\ Use(s, k, id, at) /\ drawn' = drawn
      /\ entries' = [entries EXCEPT ![s] = [entries[s] EXCEPT ![k] = Touched(entries[s][k], at)]]
  BY DEF Hit
<1>2. DOMAIN entries = Stores /\ drawn \in Nat
  BY DEF SessionsTypeOK
<1>3. /\ DOMAIN entries' = Stores /\ \A r \in Stores \ {s} : entries'[r] = entries[r]
      /\ entries'[s] = [entries[s] EXCEPT ![k] = Touched(entries[s][k], at)]
  BY <1>1, <1>2
<1>4. /\ DOMAIN entries'[s] = DOMAIN entries[s]
      /\ entries'[s][k] = Touched(entries[s][k], at)
      /\ \A j \in DOMAIN entries'[s] \ {k} : entries'[s][j] = entries[s][j]
  BY <1>1, <1>3
<1>5. entries'[s][k].id = id /\ entries'[s][k].lastUsed = at
  BY <1>4 DEF Touched
<1>6. id \in Nat \ {0} /\ DOMAIN entries[s] \subseteq Keys[s]
  BY <1>1 DEF StoreInv, EntryIsLastUse, SessionsTypeOK, LastUse
<1> HIDE DEF id
<1>7. StoreInv(s)'
  BY <1>1, <1>4, <1>5, <1>6, StoreUsed
<1>8. /\ DOMAIN used' = Stores /\ \A r \in Stores \ {s} : used'[r] = used[r]
      /\ used'[s] \in [Keys[s] -> LastUse(s)]
  BY <1>1, <1>4, <1>6, UseFacts
<1>9. QED
  BY <1>1, <1>2, <1>3, <1>7, <1>8

\* A new key, in a store that may have to make room for it.
LEMMA CreateKeeps ==
    ASSUME SessionsTypeOK, NEW s \in Stores, StoreInv(s), NEW k \in Keys[s], NEW at \in Nat,
           now' = now, Create(s, k, at)
    PROVE  /\ StoreInv(s)' /\ drawn' \in Nat
           /\ DOMAIN entries' = Stores /\ DOMAIN used' = Stores
           /\ \A r \in Stores \ {s} : entries'[r] = entries[r] /\ used'[r] = used[r]
           /\ used'[s] \in [Keys[s] -> LastUse(s)]
<1> DEFINE e == [id |-> drawn', lastUsed |-> at]
           D == DOMAIN entries[s]
<1>0. DOMAIN entries = Stores /\ drawn \in Nat /\ D \subseteq Keys[s]
  BY DEF SessionsTypeOK, StoreInv, EntryIsLastUse
<1>1. k \notin D /\ drawn' \in Nat \ {0} /\ Use(s, k, drawn', at)
  BY <1>0 DEF Create
<1>2. PICK es \in MakeRoom(s) : entries' = [entries EXCEPT ![s] = With(es, k, e)]
  BY DEF Create
<1>3. /\ DOMAIN entries' = Stores /\ \A r \in Stores \ {s} : entries'[r] = entries[r]
      /\ entries'[s] = With(es, k, e)
  BY <1>0, <1>2
<1>4. /\ DOMAIN entries'[s] = DOMAIN es \cup {k}
      /\ entries'[s][k] = e
      /\ \A j \in DOMAIN entries'[s] \ {k} : entries'[s][j] = es[j]
  BY <1>3 DEF With
<1>5. entries'[s][k].id = drawn' /\ entries'[s][k].lastUsed = at
  BY <1>4
<1>6. /\ DOMAIN es \subseteq D /\ \A j \in DOMAIN es : es[j] = entries[s][j]
      /\ \A j \in D \ DOMAIN es :
            j \in Keys[s] \ {k} /\ Cardinality(used[s][j].others \cup {k}) >= Cap[s]
  <2>1. CASE Cardinality(D) >= Cap[s]
    <3>1. PICK o \in Oldest(entries[s]) : es = Without(entries[s], o)
      BY <1>2, <2>1 DEF MakeRoom
    <3>2. /\ o \in D /\ o \in Keys[s] \ {k}
          /\ Cardinality(used[s][o].others \cup {k}) >= Cap[s]
      BY <1>1, <2>1, OldestFacts
    <3>3. DOMAIN es = D \ {o} /\ \A j \in D \ {o} : es[j] = entries[s][j]
      BY <3>1 DEF Without
    <3>4. QED
      BY <3>2, <3>3
  <2>2. CASE ~(Cardinality(D) >= Cap[s])
    BY <1>2, <2>2 DEF MakeRoom
  <2>3. QED
    BY <2>1, <2>2
<1>7. /\ k \in DOMAIN entries'[s] /\ DOMAIN entries'[s] \subseteq D \cup {k}
      /\ \A j \in DOMAIN entries'[s] \ {k} : entries'[s][j] = entries[s][j]
      /\ \A j \in D \ DOMAIN entries'[s] :
            j \in Keys[s] \ {k} /\ Cardinality(used[s][j].others \cup {k}) >= Cap[s]
  BY <1>4, <1>6
<1>8. StoreInv(s)'
  BY <1>1, <1>5, <1>7, StoreUsed
<1>9. /\ DOMAIN used' = Stores /\ \A r \in Stores \ {s} : used'[r] = used[r]
      /\ used'[s] \in [Keys[s] -> LastUse(s)]
  BY <1>0, <1>1, <1>7, UseFacts
<1>10. QED
  BY <1>1, <1>3, <1>8, <1>9

\* store.getOrCreate of a request that has reached the lock.
LEMMA LockedStep ==
    ASSUME SessionsInv, NEW r \in Requests, GetOrCreateLocked(r)
    PROVE  SessionsInv'
<1>0. PICK s, k, at : s = access[r].store /\ k = access[r].key /\ at = access[r].at
  OBVIOUS
<1>1. /\ SessionsTypeOK /\ s \in Stores /\ k \in Keys[s] /\ at \in Nat
      /\ now' = now /\ sweep' = sweep /\ cutoff' = cutoff
      /\ access' = [access EXCEPT ![r] = NoAccess]
      /\ Hit(s, k, at) \/ Create(s, k, at)
  BY <1>0 DEF SessionsInv, SessionsTypeOK, Waits, GetOrCreateLocked
<1>2. /\ StoreInv(s)' /\ drawn' \in Nat
      /\ DOMAIN entries' = Stores /\ DOMAIN used' = Stores
      /\ \A q \in Stores \ {s} : entries'[q] = entries[q] /\ used'[q] = used[q]
      /\ used'[s] \in [Keys[s] -> LastUse(s)]
  <2>1. StoreInv(s)
    BY <1>1 DEF SessionsInv
  <2>2. CASE Hit(s, k, at)
    BY <1>1, <2>1, <2>2, HitKeeps
  <2>3. CASE Create(s, k, at)
    BY <1>1, <2>1, <2>3, CreateKeeps
  <2>4. QED
    BY <1>1, <2>2, <2>3
<1>3. SessionsTypeOK' /\ CutoffIsPast'
  <2>1. \A q \in Stores : used'[q] \in [Keys[q] -> LastUse(q)]
    BY <1>1, <1>2 DEF SessionsTypeOK
  <2>2. DOMAIN access' = Requests /\ \A q \in Requests : access'[q] # NoAccess => Waits(access'[q])
    BY <1>1 DEF SessionsTypeOK
  <2>3. QED
    BY <1>1, <1>2, <2>1, <2>2 DEF SessionsInv, SessionsTypeOK, LastUse, CutoffIsPast
<1>4. ASSUME NEW q \in Stores \ {s} PROVE StoreInv(q)'
  BY <1>1, <1>2, <1>4, StoreFrame DEF SessionsInv, SessionsTypeOK
<1>5. QED
  BY <1>2, <1>3, <1>4 DEF SessionsInv

\* The janitor drops what was idle longer than the TTL, even if it is late.
LEMMA EvictStep ==
    ASSUME SessionsInv, NEW s \in Stores, EvictExpired(s)
    PROVE  SessionsInv'
<1>0. /\ SessionsTypeOK /\ StoreInv(s) /\ DOMAIN entries = Stores
      /\ UNCHANGED <<now, access, drawn, cutoff, used>>
      /\ sweep # {} /\ sweep' \subseteq sweep
  BY DEF SessionsInv, SessionsTypeOK, EvictExpired
<1>1. entries'[s] = [k \in {j \in DOMAIN entries[s] : ~Expired(entries[s][j])} |-> entries[s][k]]
  BY <1>0 DEF EvictExpired
<1>2. DOMAIN entries' = Stores /\ \A r \in Stores \ {s} : entries'[r] = entries[r]
  BY <1>0 DEF EvictExpired
<1>3. SessionsTypeOK' /\ CutoffIsPast'
  BY <1>0, <1>2 DEF SessionsInv, SessionsTypeOK, CutoffIsPast, LastUse
<1>4. ASSUME NEW r \in Stores \ {s} PROVE StoreInv(r)'
  BY <1>0, <1>2, <1>4, StoreFrame DEF SessionsInv, SessionsTypeOK
<1>5. /\ DOMAIN entries'[s] \subseteq DOMAIN entries[s]
      /\ \A k \in DOMAIN entries'[s] : entries'[s][k] = entries[s][k]
      /\ \A k \in DOMAIN entries[s] \ DOMAIN entries'[s] : entries[s][k].lastUsed < cutoff
  BY <1>1 DEF Expired
<1>6. EntryIsLastUse(s)'
  BY <1>0, <1>5 DEF StoreInv, EntryIsLastUse
<1>7. UsesAreOrdered(s)'
  BY <1>0, <1>5 DEF StoreInv, UsesAreOrdered
<1>8. AllFinite(s)'
  BY <1>0, <1>5, FS_Subset DEF StoreInv, AllFinite
<1>9. Stable(s)'
  <2> SUFFICES ASSUME NEW k \in Keys[s], used[s][k].id # 0, now <= used[s][k].at + TTL,
                      Cardinality(used[s][k].others) < Cap[s]
               PROVE  k \in DOMAIN entries'[s]
    BY <1>0 DEF Stable
  <2>1. k \in DOMAIN entries[s] /\ entries[s][k].lastUsed = used[s][k].at
    BY <1>0 DEF StoreInv, Stable, EntryIsLastUse
  <2>2. cutoff + TTL <= now /\ cutoff \in Nat /\ now \in Nat /\ used[s][k].at \in Nat
    BY <1>0 DEF SessionsInv, CutoffIsPast, SessionsTypeOK, LastUse
  <2>3. ~(used[s][k].at < cutoff)
    BY <2>2, SessionsAssumption
  <2>4. QED
    BY <1>5, <2>1, <2>3
<1>10. QED
  BY <1>3, <1>4, <1>6, <1>7, <1>8, <1>9 DEF SessionsInv, StoreInv

\* Every step of the stores keeps their invariant.
LEMMA SessionsStep ==
    ASSUME SessionsInv, [SessionsNext]_sessionVars
    PROVE  SessionsInv'
<1>1. ASSUME NEW r \in Requests, NEW q \in Stores, NEW k \in Keys[q], GetOrCreate(r, q, k)
      PROVE  SessionsInv'
  <2>1. /\ UNCHANGED <<now, entries, drawn, sweep, cutoff, used>> /\ now \in Nat
        /\ access' = [access EXCEPT ![r] = [store |-> q, key |-> k, at |-> now]]
    BY <1>1 DEF GetOrCreate, SessionsInv, SessionsTypeOK
  <2>2. Waits([store |-> q, key |-> k, at |-> now])
    BY <2>1 DEF Waits
  <2>3. DOMAIN access' = Requests /\ \A p \in Requests : access'[p] # NoAccess => Waits(access'[p])
    BY <2>1, <2>2 DEF SessionsInv, SessionsTypeOK
  <2>4. SessionsTypeOK' /\ CutoffIsPast'
    BY <2>1, <2>3 DEF SessionsInv, SessionsTypeOK, LastUse, CutoffIsPast
  <2>5. ASSUME NEW s \in Stores PROVE StoreInv(s)'
    BY <2>1, StoreFrame DEF SessionsInv
  <2>6. QED
    BY <2>4, <2>5 DEF SessionsInv
<1>2. ASSUME NEW r \in Requests,
             ResolveAnonymous(r) \/ \E t \in Texts : ResolveByText(r, t)
      PROVE  SessionsInv'
  BY <1>1, <1>2, KeysFacts DEF ResolveAnonymous, ResolveByText, Stores
<1>3. CASE JanitorWakes \/ TimePasses \/ UNCHANGED sessionVars
  <2>1. /\ UNCHANGED <<access, entries, drawn, used>> /\ now' \in {now, now + 1} /\ now \in Nat
        /\ sweep' \in {sweep, Stores}
    BY <1>3 DEF JanitorWakes, TimePasses, sessionVars, SessionsInv, SessionsTypeOK
  <2>2. cutoff' \in Nat /\ CutoffIsPast'
    BY <1>3, SessionsAssumption DEF JanitorWakes, TimePasses, sessionVars, SessionsInv,
                                    SessionsTypeOK, CutoffIsPast
  <2>3. SessionsTypeOK'
    BY <2>1, <2>2 DEF SessionsInv, SessionsTypeOK, LastUse
  <2>4. ASSUME NEW s \in Stores PROVE StoreInv(s)'
    BY <2>1, StoreFrame DEF SessionsInv
  <2>5. QED
    BY <2>2, <2>3, <2>4 DEF SessionsInv
<1>4. ASSUME NEW s \in Stores, EvictExpired(s) PROVE SessionsInv'
  BY <1>4, EvictStep
<1>5. ASSUME NEW r \in Requests, GetOrCreateLocked(r) PROVE SessionsInv'
  BY <1>5, LockedStep
<1>6. QED
  BY <1>2, <1>3, <1>4, <1>5 DEF SessionsNext

-----------------------------------------------------------------------------
(***************************************************************************)
(* The theorems.                                                           *)
(***************************************************************************)

\* Every step of the composition is a step of a part and a stutter of the rest.
LEMMA PartSteps ==
    ASSUME [Next]_vars
    PROVE  [CacheNext]_cacheVars /\ [SessionsNext]_sessionVars
BY DEF Next, vars, OfBody, OfSession, OfAgent

\* The invariants of both parts hold in every state of the composition.
THEOREM OutgoingInvariant == Spec => []OutgoingInv
<1>1. Init => OutgoingInv
  BY CacheInitInv, SessionsInitInv DEF Init, OutgoingInv
<1>2. OutgoingInv /\ [Next]_vars => OutgoingInv'
  BY PartSteps, CacheStep, SessionsStep DEF OutgoingInv
<1>3. QED
  BY <1>1, <1>2, PTL DEF Spec

\* The v1 user agent is never put together from two releases, for any number
\* of releases published between the three fetches (fetchTriple).
THEOREM NoMixedTriple == Spec => []TripleNeverMixed
<1>1. OutgoingInv => TripleNeverMixed
  BY DEF OutgoingInv, CacheInv
<1>2. QED
  BY <1>1, OutgoingInvariant, PTL

\* Neither form of the cached user agent goes back to an older release: the
\* single flight of Warm keeps a slow round from overwriting a newer one.
THEOREM UserAgentMovesForward == Spec => NeverRegresses
<1>1. OutgoingInv /\ [Next]_vars => [v1'.opencode >= v1.opencode /\ v2' >= v2]_cacheVars
  BY PartSteps, CacheStep DEF OutgoingInv
<1>2. QED
  BY <1>1, OutgoingInvariant, PTL DEF Spec, NeverRegresses

\* A conversation keeps its session id until the TTL has passed since the clock
\* reading of its last request, or as many others as the store holds came after
\* that request by the lock or by the clock: for any requests that wait for the
\* lock with a reading they took before it (getOrCreate), any number of
\* conversations, any capacity and any TTL.
THEOREM SessionIdsStay == Spec => []IdIsStable
<1>1. OutgoingInv => IdIsStable
  BY DEF OutgoingInv, SessionsInv, StoreInv, Stable, EntryIsLastUse, IdIsStable
<1>2. QED
  BY <1>1, OutgoingInvariant, PTL

=============================================================================
