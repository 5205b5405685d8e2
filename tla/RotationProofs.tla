--------------------------- MODULE RotationProofs ---------------------------
(***************************************************************************)
(* The scheduler's plans and its weights, for any routes, weights, reloads *)
(* and requests of any generation: every plan is its eligible heads, each  *)
(* once, and what the smooth algorithm hands out and takes back cancels.   *)
(***************************************************************************)
EXTENDS Rotation, SequenceTheorems, FiniteSetTheorems, WellFoundedInduction, TLAPS

-----------------------------------------------------------------------------
(***************************************************************************)
(* Induction, over sets instead of predicates.                             *)
(***************************************************************************)

\* A set that holds zero and every successor holds every natural.
LEMMA NatSetInduction ==
    ASSUME NEW G, 0 \in G, \A n \in Nat : n \in G => n + 1 \in G
    PROVE  Nat \subseteq G
<1> DEFINE Bad == Nat \ G
<1>1. SUFFICES ASSUME Bad # {} PROVE FALSE
  OBVIOUS
<1>2. PICK x \in Bad : \A y \in Bad : ~ (<<y, x>> \in OpToRel(<, Nat))
  BY <1>1, NatLessThanWellFounded, WFMin
<1>3. \A y \in Bad : ~(y < x)
  BY <1>2 DEF OpToRel
<1>4. x # 0 /\ x - 1 \in Nat /\ x - 1 \notin Bad
  BY <1>3
<1>5. QED
  BY <1>4

\* A family that holds the empty set and, with each subset of S, the subset
\* with one element more holds S, if S is finite.
LEMMA FiniteSetInduction ==
    ASSUME NEW S, IsFiniteSet(S), NEW G, {} \in G,
           \A T \in SUBSET S : \A x \in S \ T : T \in G => T \cup {x} \in G
    PROVE  S \in G
<1> DEFINE Good == {n \in Nat : \A T \in SUBSET S : Cardinality(T) = n => T \in G}
<1>1. 0 \in Good
  BY FS_Subset, FS_EmptySet
<1>2. ASSUME NEW n \in Nat, n \in Good PROVE n + 1 \in Good
  <2>1. SUFFICES ASSUME NEW T \in SUBSET S, Cardinality(T) = n + 1 PROVE T \in G
    OBVIOUS
  <2>2. IsFiniteSet(T) /\ T # {}
    BY <2>1, FS_Subset, FS_EmptySet
  <2>3. PICK x \in T : TRUE
    BY <2>2
  <2>4. Cardinality(T \ {x}) = n
    <3>1. Cardinality(T \ {x}) = Cardinality(T) - 1
      BY <2>2, <2>3, FS_RemoveElement
    <3>2. QED
      BY <2>1, <3>1
  <2>5. T \ {x} \in G
    BY <1>2, <2>4
  <2>6. T = (T \ {x}) \cup {x} /\ x \in S \ (T \ {x}) /\ T \ {x} \in SUBSET S
    BY <2>3
  <2>7. QED
    BY <2>5, <2>6
<1>3. Nat \subseteq Good
  <2> HIDE DEF Good
  <2>1. QED
    BY <1>1, <1>2, NatSetInduction
<1>4. Cardinality(S) \in Nat
  BY FS_CardinalityType
<1>5. QED
  BY <1>3, <1>4

-----------------------------------------------------------------------------
(***************************************************************************)
(* Sums over finite sets.                                                  *)
(***************************************************************************)

Some(s) == CHOOSE x \in s : TRUE

\* g gives the sum of f over every subset of S.
SumsOver(g, f, S) ==
    g = [s \in SUBSET S |-> IF s = {} THEN 0 ELSE f[Some(s)] + g[s \ {Some(s)}]]

\* There is such a g.
LEMMA SumsExist ==
    ASSUME NEW f, NEW S, IsFiniteSet(S)
    PROVE  \E g : SumsOver(g, f, S)
<1> DEFINE Upto(n) == {s \in SUBSET S : Cardinality(s) <= n}
           Def(g, s) == IF s = {} THEN 0 ELSE f[Some(s)] + g[s \ {Some(s)}]
           Good == {n \in Nat : \E g : g = [s \in Upto(n) |-> Def(g, s)]}
<1>0. \A s \in SUBSET S : /\ IsFiniteSet(s) /\ Cardinality(s) \in Nat
                          /\ s # {} => /\ Some(s) \in s
                                       /\ Cardinality(s \ {Some(s)}) = Cardinality(s) - 1
                                       /\ Cardinality(s) # 0
  BY FS_Subset, FS_CardinalityType, FS_RemoveElement, FS_EmptySet DEF Some
<1>1. 0 \in Good
  <2> DEFINE g == [s \in Upto(0) |-> 0]
  <2>1. ASSUME NEW s \in Upto(0) PROVE s = {}
    <3>1. s \in SUBSET S /\ Cardinality(s) <= 0
      OBVIOUS
    <3>2. IsFiniteSet(s) /\ Cardinality(s) \in Nat
      BY <1>0, <3>1
    <3>3. Cardinality(s) = 0
      BY <3>1, <3>2
    <3>4. QED
      BY <3>2, <3>3, FS_EmptySet
  <2>2. g = [s \in Upto(0) |-> Def(g, s)]
    BY <2>1
  <2>3. QED
    BY <2>2
<1>2. ASSUME NEW n \in Nat, n \in Good PROVE n + 1 \in Good
  <2>1. PICK g : g = [s \in Upto(n) |-> Def(g, s)]
    BY <1>2
  <2> DEFINE h == [s \in Upto(n + 1) |-> Def(g, s)]
  <2>2. ASSUME NEW s \in Upto(n + 1) PROVE h[s] = Def(h, s)
    <3>1. CASE s = {}
      BY <3>1
    <3>2. CASE s # {}
      <4>1. s \ {Some(s)} \in Upto(n) /\ s \ {Some(s)} \in Upto(n + 1)
        BY <1>0, <3>2
      <4>2. h[s \ {Some(s)}] = Def(g, s \ {Some(s)})
        BY <4>1
      <4>3. g[s \ {Some(s)}] = Def(g, s \ {Some(s)})
        BY <2>1, <4>1
      <4>4. QED
        BY <3>2, <4>2, <4>3
    <3>3. QED
      BY <3>1, <3>2
  <2>3. h = [s \in Upto(n + 1) |-> Def(h, s)]
    BY <2>2
  <2>4. \E k : k = [s \in Upto(n + 1) |-> Def(k, s)]
    BY <2>3, Zenon
  <2>5. n + 1 \in Nat
    OBVIOUS
  <2>6. QED
    BY <2>4, <2>5, Zenon
<1>3. Nat \subseteq Good
  <2> HIDE DEF Good
  <2>1. QED
    BY <1>1, <1>2, NatSetInduction
<1>4. Cardinality(S) \in Nat /\ Upto(Cardinality(S)) = SUBSET S
  BY FS_CardinalityType, FS_Subset
<1>5. PICK g : g = [s \in SUBSET S |-> Def(g, s)]
  BY <1>3, <1>4
<1>6. QED
  BY <1>5 DEF SumsOver

\* SumFunctionOnSet is the value of such a g.
LEMMA SumIsChosen ==
    ASSUME NEW f, NEW S, IsFiniteSet(S)
    PROVE  \E g : SumsOver(g, f, S) /\ SumFunctionOnSet(f, S) = g[S]
<1> DEFINE g == CHOOSE g : SumsOver(g, f, S)
<1>1. SumsOver(g, f, S)
  BY SumsExist, Zenon
<1>2. SumFunctionOnSet(f, S) = g[S]
  BY DEF SumFunctionOnSet, FoldFunctionOnSet, MapThenFoldSet, SumsOver, Some
<1>3. QED
  BY <1>1, <1>2

\* Two functions that agree on a set have the same sums on it, however much
\* more their sums range over.
LEMMA SumsAgree ==
    ASSUME NEW S, IsFiniteSet(S), NEW T, NEW f, NEW h, NEW g, NEW k,
           SumsOver(g, f, S), SumsOver(k, h, T), S \subseteq T,
           \A x \in S : f[x] = h[x]
    PROVE  g[S] = k[S]
<1> DEFINE Good == {n \in Nat : \A U \in SUBSET S : Cardinality(U) = n => g[U] = k[U]}
<1>0. \A U \in SUBSET S : IsFiniteSet(U) /\ (U # {} => Some(U) \in U)
  BY FS_Subset DEF Some
<1>1. ASSUME NEW U \in SUBSET S
      PROVE  /\ U = {} => g[U] = 0 /\ k[U] = 0
             /\ U # {} => /\ g[U] = f[Some(U)] + g[U \ {Some(U)}]
                          /\ k[U] = h[Some(U)] + k[U \ {Some(U)}]
  <2>1. U \in SUBSET T
    OBVIOUS
  <2>2. g[U] = IF U = {} THEN 0 ELSE f[Some(U)] + g[U \ {Some(U)}]
    BY DEF SumsOver
  <2>3. k[U] = IF U = {} THEN 0 ELSE h[Some(U)] + k[U \ {Some(U)}]
    BY <2>1 DEF SumsOver
  <2>4. QED
    BY <2>2, <2>3
<1>2. 0 \in Good
  BY <1>0, <1>1, FS_EmptySet
<1>3. ASSUME NEW n \in Nat, n \in Good PROVE n + 1 \in Good
  <2>1. SUFFICES ASSUME NEW U \in SUBSET S, Cardinality(U) = n + 1 PROVE g[U] = k[U]
    OBVIOUS
  <2>2. U # {} /\ Some(U) \in U /\ IsFiniteSet(U)
    BY <1>0, <2>1, FS_EmptySet
  <2>3. Cardinality(U \ {Some(U)}) = Cardinality(U) - 1
    BY <2>2, FS_RemoveElement
  <2>4. Cardinality(U \ {Some(U)}) = n
    BY <2>1, <2>3
  <2>5. g[U \ {Some(U)}] = k[U \ {Some(U)}]
    BY <1>3, <2>4
  <2>6. QED
    BY <1>1, <2>2, <2>5
<1>4. Nat \subseteq Good
  <2> HIDE DEF Good
  <2>1. QED
    BY <1>2, <1>3, NatSetInduction
<1>5. Cardinality(S) \in Nat
  BY FS_CardinalityType
<1>6. QED
  BY <1>4, <1>5

\* A sum depends on the values summed and on nothing else.
LEMMA SumSame ==
    ASSUME NEW S, IsFiniteSet(S), NEW f, NEW h, \A x \in S : f[x] = h[x]
    PROVE  SumFunctionOnSet(f, S) = SumFunctionOnSet(h, S)
<1>1. PICK g : SumsOver(g, f, S) /\ SumFunctionOnSet(f, S) = g[S]
  BY SumIsChosen
<1>2. PICK k : SumsOver(k, h, S) /\ SumFunctionOnSet(h, S) = k[S]
  BY SumIsChosen
<1>3. g[S] = k[S]
  BY <1>1, <1>2, SumsAgree
<1>4. QED
  BY <1>1, <1>2, <1>3

\* The sum over nothing is zero, any other begins with some element.
LEMMA SumUnfolds ==
    ASSUME NEW S, IsFiniteSet(S), NEW f
    PROVE  /\ S = {} => SumFunctionOnSet(f, S) = 0
           /\ S # {} => /\ Some(S) \in S
                        /\ SumFunctionOnSet(f, S)
                             = f[Some(S)] + SumFunctionOnSet(f, S \ {Some(S)})
<1>1. PICK g : SumsOver(g, f, S) /\ SumFunctionOnSet(f, S) = g[S]
  BY SumIsChosen
<1>2. g[S] = IF S = {} THEN 0 ELSE f[Some(S)] + g[S \ {Some(S)}]
  BY <1>1 DEF SumsOver
<1>3. ASSUME S # {} PROVE g[S \ {Some(S)}] = SumFunctionOnSet(f, S \ {Some(S)})
  <2>1. IsFiniteSet(S \ {Some(S)})
    BY FS_Subset
  <2>2. PICK k : SumsOver(k, f, S \ {Some(S)}) /\ SumFunctionOnSet(f, S \ {Some(S)}) = k[S \ {Some(S)}]
    BY <2>1, SumIsChosen
  <2>3. k[S \ {Some(S)}] = g[S \ {Some(S)}]
    BY <1>1, <2>1, <2>2, SumsAgree
  <2>4. QED
    BY <2>2, <2>3
<1>4. S # {} => Some(S) \in S
  BY DEF Some
<1>5. QED
  BY <1>1, <1>2, <1>3, <1>4

\* A sum of integers is an integer.
LEMMA SumType ==
    ASSUME NEW S, IsFiniteSet(S), NEW f, \A x \in S : f[x] \in Int
    PROVE  SumFunctionOnSet(f, S) \in Int
<1> DEFINE Good == {n \in Nat : \A T \in SUBSET S :
                        Cardinality(T) = n => SumFunctionOnSet(f, T) \in Int}
<1>0. \A T \in SUBSET S : IsFiniteSet(T)
  BY FS_Subset
<1>1. 0 \in Good
  BY <1>0, FS_EmptySet, SumUnfolds
<1>2. ASSUME NEW n \in Nat, n \in Good PROVE n + 1 \in Good
  <2>1. SUFFICES ASSUME NEW T \in SUBSET S, Cardinality(T) = n + 1
                 PROVE  SumFunctionOnSet(f, T) \in Int
    OBVIOUS
  <2>2. IsFiniteSet(T) /\ T # {}
    BY <1>0, <2>1, FS_EmptySet
  <2>3. /\ Some(T) \in T
        /\ SumFunctionOnSet(f, T) = f[Some(T)] + SumFunctionOnSet(f, T \ {Some(T)})
    BY <2>2, SumUnfolds
  <2>4. Cardinality(T \ {Some(T)}) = Cardinality(T) - 1
    BY <2>2, <2>3, FS_RemoveElement
  <2>5. Cardinality(T \ {Some(T)}) = n
    BY <2>1, <2>4
  <2>6. SumFunctionOnSet(f, T \ {Some(T)}) \in Int
    BY <1>2, <2>5
  <2>7. QED
    BY <2>3, <2>6
<1>3. Nat \subseteq Good
  <2> HIDE DEF Good
  <2>1. QED
    BY <1>1, <1>2, NatSetInduction
<1>4. Cardinality(S) \in Nat
  BY FS_CardinalityType
<1>5. QED
  BY <1>3, <1>4

\* Any element may be taken out first.
LEMMA SumTakes ==
    ASSUME NEW S, IsFiniteSet(S), NEW f, \A x \in S : f[x] \in Int, NEW x \in S
    PROVE  SumFunctionOnSet(f, S) = f[x] + SumFunctionOnSet(f, S \ {x})
<1> DEFINE Good == {n \in Nat : \A T \in SUBSET S : Cardinality(T) = n =>
                        \A y \in T : SumFunctionOnSet(f, T) = f[y] + SumFunctionOnSet(f, T \ {y})}
<1>0. \A T \in SUBSET S : IsFiniteSet(T) /\ SumFunctionOnSet(f, T) \in Int
  <2>1. ASSUME NEW T \in SUBSET S PROVE IsFiniteSet(T) /\ SumFunctionOnSet(f, T) \in Int
    BY FS_Subset, SumType
  <2>2. QED
    BY <2>1
<1>1. 0 \in Good
  BY <1>0, FS_EmptySet
<1>2. ASSUME NEW n \in Nat, n \in Good PROVE n + 1 \in Good
  <2>1. SUFFICES ASSUME NEW T \in SUBSET S, Cardinality(T) = n + 1, NEW y \in T
                 PROVE  SumFunctionOnSet(f, T) = f[y] + SumFunctionOnSet(f, T \ {y})
    OBVIOUS
  <2> DEFINE c == Some(T)
  <2>2. IsFiniteSet(T) /\ T # {}
    BY <1>0
  <2>3. c \in T /\ SumFunctionOnSet(f, T) = f[c] + SumFunctionOnSet(f, T \ {c})
    BY <2>2, SumUnfolds
  <2> HIDE DEF c
  <2>4. CASE y = c
    BY <2>3, <2>4
  <2>5. CASE y # c
    <3>1. Cardinality(T \ {c}) = Cardinality(T) - 1 /\ Cardinality(T \ {y}) = Cardinality(T) - 1
      BY <2>2, <2>3, FS_RemoveElement
    <3>2. Cardinality(T \ {c}) = n /\ Cardinality(T \ {y}) = n
      BY <2>1, <3>1
    <3>3. SumFunctionOnSet(f, T \ {c}) = f[y] + SumFunctionOnSet(f, (T \ {c}) \ {y})
      BY <1>2, <2>5, <3>2
    <3>4. SumFunctionOnSet(f, T \ {y}) = f[c] + SumFunctionOnSet(f, (T \ {y}) \ {c})
      BY <1>2, <2>3, <2>5, <3>2
    <3>5. (T \ {y}) \ {c} = (T \ {c}) \ {y}
      OBVIOUS
    <3>6. /\ f[c] \in Int /\ f[y] \in Int
          /\ SumFunctionOnSet(f, (T \ {c}) \ {y}) \in Int
      BY <1>0, <2>3
    <3> DEFINE rest == SumFunctionOnSet(f, (T \ {c}) \ {y})
    <3>7. SumFunctionOnSet(f, T \ {y}) = f[c] + rest
      BY <3>4, <3>5, Zenon
    <3>8. SumFunctionOnSet(f, T) = f[c] + (f[y] + rest)
      BY <2>3, <3>3, Zenon
    <3> HIDE DEF rest
    <3>9. f[c] + (f[y] + rest) = f[y] + (f[c] + rest)
      BY <3>6 DEF rest
    <3>10. QED
      BY <3>7, <3>8, <3>9, Zenon
  <2>6. QED
    BY <2>4, <2>5
<1>3. Nat \subseteq Good
  <2> HIDE DEF Good
  <2>1. QED
    BY <1>1, <1>2, NatSetInduction
<1>4. Cardinality(S) \in Nat
  BY FS_CardinalityType
<1>5. QED
  BY <1>3, <1>4

\* The sum over the empty set and over one element.
LEMMA SumSmall ==
    ASSUME NEW f
    PROVE  /\ SumFunctionOnSet(f, {}) = 0
           /\ \A x : f[x] \in Int => SumFunctionOnSet(f, {x}) = f[x]
<1>1. SumFunctionOnSet(f, {}) = 0
  BY FS_EmptySet, SumUnfolds
<1>2. ASSUME NEW x, f[x] \in Int PROVE SumFunctionOnSet(f, {x}) = f[x]
  <2>1. IsFiniteSet({x}) /\ \A y \in {x} : f[y] \in Int
    BY <1>2, FS_Singleton
  <2>2. SumFunctionOnSet(f, {x}) = f[x] + SumFunctionOnSet(f, {x} \ {x})
    BY <2>1, SumTakes
  <2>3. {x} \ {x} = {}
    OBVIOUS
  <2>4. SumFunctionOnSet(f, {x}) = f[x] + 0
    BY <1>1, <2>2, <2>3, Zenon
  <2>5. QED
    BY <1>2, <2>4
<1>3. QED
  BY <1>1, <1>2

\* One changed value changes the sum by as much.
LEMMA SumUpdates ==
    ASSUME NEW S, IsFiniteSet(S), NEW f \in [S -> Int], NEW h \in [S -> Int], NEW b \in S,
           \A x \in S \ {b} : h[x] = f[x]
    PROVE  SumFunctionOnSet(h, S) = SumFunctionOnSet(f, S) - f[b] + h[b]
<1>2. IsFiniteSet(S \ {b})
  BY FS_Subset
<1>3. SumFunctionOnSet(h, S) = h[b] + SumFunctionOnSet(h, S \ {b})
  BY SumTakes
<1>4. SumFunctionOnSet(f, S) = f[b] + SumFunctionOnSet(f, S \ {b})
  BY SumTakes
<1>5. SumFunctionOnSet(h, S \ {b}) = SumFunctionOnSet(f, S \ {b})
  BY <1>2, SumSame
<1>6. SumFunctionOnSet(f, S \ {b}) \in Int
  BY <1>2, SumType
<1> DEFINE rest == SumFunctionOnSet(f, S \ {b})
<1>7. SumFunctionOnSet(h, S) = h[b] + rest /\ SumFunctionOnSet(f, S) = f[b] + rest
  BY <1>3, <1>4, <1>5, Zenon
<1> HIDE DEF rest
<1>8. QED
  BY <1>6, <1>7 DEF rest

\* What is added to some of the values is added to the sum.
LEMMA SumRaises ==
    ASSUME NEW D, IsFiniteSet(D), NEW P \in SUBSET D, NEW c \in [D -> Int], NEW w,
           \A e \in P : w[e] \in Int
    PROVE  SumFunctionOnSet([e \in D |-> IF e \in P THEN c[e] + w[e] ELSE c[e]], D)
             = SumFunctionOnSet(c, D) + SumFunctionOnSet(w, P)
<1> DEFINE r == [e \in D |-> IF e \in P THEN c[e] + w[e] ELSE c[e]]
           Good == {T \in SUBSET D : SumFunctionOnSet(r, T)
                        = SumFunctionOnSet(c, T) + SumFunctionOnSet(w, T \cap P)}
<1>0. /\ r \in [D -> Int]
      /\ \A e \in D : r[e] = IF e \in P THEN c[e] + w[e] ELSE c[e]
  OBVIOUS
<1> HIDE DEF r
<1>1. {} \in Good
  <2>1. {} \cap P = {}
    OBVIOUS
  <2>2. /\ SumFunctionOnSet(r, {}) = 0 /\ SumFunctionOnSet(c, {}) = 0
        /\ SumFunctionOnSet(w, {} \cap P) = 0
    BY <2>1, SumSmall, Zenon
  <2>3. QED
    BY <2>2
<1>2. ASSUME NEW T \in SUBSET D, NEW x \in D \ T, T \in Good PROVE T \cup {x} \in Good
  <2> DEFINE U == T \cup {x}
  <2>1. /\ IsFiniteSet(T) /\ IsFiniteSet(U) /\ IsFiniteSet(T \cap P) /\ IsFiniteSet(U \cap P)
        /\ x \in U /\ U \ {x} = T /\ U \in SUBSET D
    BY FS_Subset
  <2> HIDE DEF U
  <2>2. SumFunctionOnSet(r, U) = r[x] + SumFunctionOnSet(r, T)
    BY <1>0, <2>1, SumTakes
  <2>3. SumFunctionOnSet(c, U) = c[x] + SumFunctionOnSet(c, T)
    BY <2>1, SumTakes
  <2>4. /\ SumFunctionOnSet(r, T) = SumFunctionOnSet(c, T) + SumFunctionOnSet(w, T \cap P)
        /\ SumFunctionOnSet(c, T) \in Int /\ SumFunctionOnSet(w, T \cap P) \in Int
    BY <1>2, <2>1, SumType
  <2>5. CASE x \in P
    <3>1. (U \cap P) \ {x} = T \cap P
      BY <2>1
    <3>2. SumFunctionOnSet(w, U \cap P) = w[x] + SumFunctionOnSet(w, T \cap P)
      <4>1. SumFunctionOnSet(w, U \cap P) = w[x] + SumFunctionOnSet(w, (U \cap P) \ {x})
        BY <2>1, <2>5, SumTakes
      <4>2. QED
        BY <3>1, <4>1, Zenon
    <3>3. r[x] = c[x] + w[x] /\ c[x] \in Int /\ w[x] \in Int
      BY <1>0, <2>5
    <3> DEFINE sc == SumFunctionOnSet(c, T)
               sw == SumFunctionOnSet(w, T \cap P)
    <3>4. /\ SumFunctionOnSet(r, U) = r[x] + (sc + sw)
          /\ SumFunctionOnSet(c, U) = c[x] + sc
          /\ SumFunctionOnSet(w, U \cap P) = w[x] + sw
      BY <2>2, <2>3, <2>4, <3>2, Zenon
    <3>5. sc \in Int /\ sw \in Int
      BY <2>4
    <3> HIDE DEF sc, sw
    <3>6. SumFunctionOnSet(r, U) = SumFunctionOnSet(c, U) + SumFunctionOnSet(w, U \cap P)
      BY <3>3, <3>4, <3>5
    <3>7. QED
      BY <2>1, <3>6 DEF U
  <2>6. CASE x \notin P
    <3>1. U \cap P = T \cap P
      BY <2>1, <2>6
    <3>2. SumFunctionOnSet(w, U \cap P) = SumFunctionOnSet(w, T \cap P)
      BY <3>1, Zenon
    <3>3. r[x] = c[x] /\ c[x] \in Int
      BY <1>0, <2>6
    <3> DEFINE sc == SumFunctionOnSet(c, T)
               sw == SumFunctionOnSet(w, T \cap P)
    <3>4. /\ SumFunctionOnSet(r, U) = r[x] + (sc + sw)
          /\ SumFunctionOnSet(c, U) = c[x] + sc
          /\ SumFunctionOnSet(w, U \cap P) = sw
      BY <2>2, <2>3, <2>4, <3>2, Zenon
    <3>5. sc \in Int /\ sw \in Int
      BY <2>4
    <3> HIDE DEF sc, sw
    <3>6. SumFunctionOnSet(r, U) = SumFunctionOnSet(c, U) + SumFunctionOnSet(w, U \cap P)
      BY <3>3, <3>4, <3>5
    <3>7. QED
      BY <2>1, <3>6 DEF U
  <2>7. QED
    BY <2>5, <2>6
<1>3. D \in Good
  <2> HIDE DEF Good
  <2>1. QED
    BY <1>1, <1>2, FiniteSetInduction
<1>4. D \cap P = P
  OBVIOUS
<1>5. SumFunctionOnSet(r, D) = SumFunctionOnSet(c, D) + SumFunctionOnSet(w, D \cap P)
  BY <1>3
<1>6. QED
  BY <1>4, <1>5, Zenon DEF r

\* Fewer weights that are not negative have no greater sum.
LEMMA SumGrows ==
    ASSUME NEW D, IsFiniteSet(D), NEW w, \A e \in D : w[e] \in Nat, NEW P \in SUBSET D
    PROVE  /\ SumFunctionOnSet(w, P) \in Int /\ SumFunctionOnSet(w, D) \in Int
           /\ 0 <= SumFunctionOnSet(w, P) /\ SumFunctionOnSet(w, P) <= SumFunctionOnSet(w, D)
<1> DEFINE Good == {T \in SUBSET D : SumFunctionOnSet(w, T \cap P) \in Nat
                        /\ SumFunctionOnSet(w, T) - SumFunctionOnSet(w, T \cap P) \in Nat}
<1>1. {} \in Good
  <2>1. {} \cap P = {}
    OBVIOUS
  <2>2. SumFunctionOnSet(w, {}) = 0 /\ SumFunctionOnSet(w, {} \cap P) = 0
    BY <2>1, SumSmall, Zenon
  <2>3. QED
    BY <2>2
<1>2. ASSUME NEW T \in SUBSET D, NEW x \in D \ T, T \in Good PROVE T \cup {x} \in Good
  <2> DEFINE U == T \cup {x}
             st == SumFunctionOnSet(w, T)
             sp == SumFunctionOnSet(w, T \cap P)
  <2>1. /\ IsFiniteSet(T) /\ IsFiniteSet(U) /\ IsFiniteSet(U \cap P)
        /\ x \in U /\ U \ {x} = T /\ U \in SUBSET D /\ w[x] \in Nat
        /\ \A e \in U : w[e] \in Int
    BY FS_Subset
  <2> HIDE DEF U
  <2>2. SumFunctionOnSet(w, U) = w[x] + st
    BY <2>1, SumTakes
  <2>3. st \in Int /\ sp \in Nat /\ st - sp \in Nat
    BY <1>2, <2>1, SumType
  <2>4. CASE x \in P
    <3>1. (U \cap P) \ {x} = T \cap P
      BY <2>1
    <3>2. SumFunctionOnSet(w, U \cap P) = w[x] + SumFunctionOnSet(w, (U \cap P) \ {x})
      BY <2>1, <2>4, SumTakes
    <3>3. SumFunctionOnSet(w, U \cap P) = w[x] + sp
      BY <3>1, <3>2, Zenon
    <3> HIDE DEF st, sp
    <3>4. /\ SumFunctionOnSet(w, U \cap P) \in Nat
          /\ SumFunctionOnSet(w, U) - SumFunctionOnSet(w, U \cap P) \in Nat
      BY <2>1, <2>2, <2>3, <3>3
    <3>5. QED
      BY <2>1, <3>4 DEF U
  <2>5. CASE x \notin P
    <3>1. U \cap P = T \cap P
      BY <2>1, <2>5
    <3>2. SumFunctionOnSet(w, U \cap P) = sp
      BY <3>1, Zenon
    <3> HIDE DEF st, sp
    <3>3. /\ SumFunctionOnSet(w, U \cap P) \in Nat
          /\ SumFunctionOnSet(w, U) - SumFunctionOnSet(w, U \cap P) \in Nat
      BY <2>1, <2>2, <2>3, <3>2
    <3>4. QED
      BY <2>1, <3>3 DEF U
  <2>6. QED
    BY <2>4, <2>5
<1>3. D \in Good
  <2> HIDE DEF Good
  <2>1. QED
    BY <1>1, <1>2, FiniteSetInduction
<1>4. D \cap P = P
  OBVIOUS
<1>5. /\ SumFunctionOnSet(w, P) \in Nat
      /\ SumFunctionOnSet(w, D) - SumFunctionOnSet(w, P) \in Nat
  BY <1>3, <1>4, Zenon
<1>6. SumFunctionOnSet(w, D) \in Int
  BY SumType
<1>7. QED
  BY <1>5, <1>6

-----------------------------------------------------------------------------
(***************************************************************************)
(* One weighted turn.                                                      *)
(***************************************************************************)

\* What is owed and what is overdrawn cancel out; among up to three, none is a
\* whole turn off.
Fair(cw, weight, D) ==
    /\ SumFunctionOnSet(cw, D) = 0
    /\ Cardinality(D) <= 3 =>
          \A e \in D : cw[e] = 0 \/ (/\ -SumFunctionOnSet(weight, D) < cw[e]
                                     /\ cw[e] < SumFunctionOnSet(weight, D))

\* The turn of the leader b of the pool P: the others keep what they gained, b
\* pays for all.
Turned(c, w, P, b) ==
    [[e \in DOMAIN c |-> IF e \in P THEN c[e] + w[e] ELSE c[e]]
        EXCEPT ![b] = c[b] + w[b] - SumFunctionOnSet(w, P)]

\* A set of at most one element.
LEMMA AtMostOne ==
    ASSUME NEW S, IsFiniteSet(S), Cardinality(S) <= 1
    PROVE  S = {} \/ \E d : S = {d}
BY FS_EmptySet, FS_Singleton, FS_CardinalityType

\* The turn of a leader keeps the weights fair: among three, whoever is passed
\* over was no higher than the leader, and the third is less than a turn off.
LEMMA TurnIsFair ==
    ASSUME NEW D, IsFiniteSet(D), NEW c \in [D -> Int], NEW w, \A e \in D : w[e] \in Nat,
           NEW P \in SUBSET D, \A e \in P : w[e] > 0, NEW b \in P,
           \A e \in P : c[e] + w[e] <= c[b] + w[b],
           Fair(c, w, D)
    PROVE  Turned(c, w, P, b) \in [D -> Int] /\ Fair(Turned(c, w, P, b), w, D)
<1> DEFINE r == [e \in D |-> IF e \in P THEN c[e] + w[e] ELSE c[e]]
           total == SumFunctionOnSet(w, P)
           turn == SumFunctionOnSet(w, D)
           pay == c[b] + w[b] - total
           t == [r EXCEPT ![b] = pay]
<1>1. b \in D /\ \A e \in D : w[e] \in Int
  OBVIOUS
<1>2. r \in [D -> Int] /\ \A e \in D : r[e] = IF e \in P THEN c[e] + w[e] ELSE c[e]
  OBVIOUS
<1>3. /\ total \in Int /\ turn \in Int /\ total <= turn /\ w[b] <= total
  <2>1. /\ total \in Int /\ turn \in Int /\ total <= turn
    BY SumGrows
  <2>2. IsFiniteSet(P) /\ {b} \in SUBSET P
    BY FS_Subset
  <2>3. SumFunctionOnSet(w, {b}) <= total
    BY <2>2, SumGrows
  <2>4. SumFunctionOnSet(w, {b}) = w[b]
    BY <1>1, SumSmall
  <2>5. QED
    BY <2>1, <2>3, <2>4
<1>4. Turned(c, w, P, b) = t
  BY DEF Turned
<1>5. SumFunctionOnSet(r, D) = total
  <2>1. SumFunctionOnSet(r, D) = SumFunctionOnSet(c, D) + total
    BY SumRaises
  <2>2. QED
    BY <1>3, <2>1 DEF Fair
<1> HIDE DEF r, total, turn
<1>6. t \in [D -> Int] /\ t[b] = pay /\ \A e \in D \ {b} : t[e] = r[e]
  BY <1>1, <1>2, <1>3
<1>7. SumFunctionOnSet(t, D) = 0
  <2>1. SumFunctionOnSet(t, D) = SumFunctionOnSet(r, D) - r[b] + pay
    <3> HIDE DEF t, pay
    <3>1. QED
      BY <1>1, <1>2, <1>6, SumUpdates
  <2>2. r[b] = c[b] + w[b]
    BY <1>1, <1>2
  <2>3. QED
    BY <1>1, <1>2, <1>3, <1>5, <2>1, <2>2
<1> HIDE DEF t
<1>8. ASSUME Cardinality(D) <= 3, NEW e \in D
      PROVE  -turn < t[e] /\ t[e] < turn
  <2>1. 0 < turn /\ 0 < w[b]
    BY <1>1, <1>3
  <2>2. \A d \in D : -turn < c[d] /\ c[d] < turn
    <3>1. \A d \in D : c[d] = 0 \/ (-turn < c[d] /\ c[d] < turn)
      BY <1>8, Zenon DEF Fair, turn
    <3>2. QED
      BY <1>3, <2>1, <3>1
  <2>3. \A d \in D : c[d] <= r[d] /\ r[b] = c[b] + w[b]
    BY <1>1, <1>2
  <2>4. ASSUME NEW a \in P, a # b
        PROVE  /\ r[a] <= r[b]
               /\ \/ r[b] + r[a] = total
                  \/ \E d \in D \ {a, b} : r[b] + r[a] + r[d] = total
    <3>1. r[a] <= r[b] /\ a \in D
      BY <1>2, <2>3, <2>4
    <3> DEFINE R == (D \ {b}) \ {a}
    <3>2. /\ IsFiniteSet(D \ {b}) /\ IsFiniteSet(R)
          /\ Cardinality(D \ {b}) = Cardinality(D) - 1
          /\ Cardinality(R) = Cardinality(D \ {b}) - 1
      BY <1>1, <2>4, <3>1, FS_RemoveElement
    <3>3. Cardinality(R) <= 1
      BY <1>8, <3>2, FS_CardinalityType
    <3>4. SumFunctionOnSet(r, D) = r[b] + SumFunctionOnSet(r, D \ {b})
      BY <1>1, <1>2, SumTakes
    <3>5. SumFunctionOnSet(r, D \ {b}) = r[a] + SumFunctionOnSet(r, R)
      BY <1>2, <2>4, <3>1, <3>2, SumTakes
    <3>6. CASE R = {}
      <4>1. SumFunctionOnSet(r, R) = 0
        BY <3>6, SumSmall, Zenon
      <4>2. QED
        BY <1>1, <1>2, <1>5, <3>1, <3>4, <3>5, <4>1
    <3>7. ASSUME NEW d, R = {d} PROVE d \in D \ {a, b} /\ r[b] + r[a] + r[d] = total
      <4>1. d \in D \ {a, b}
        BY <3>7
      <4>2. r[d] \in Int
        BY <1>2, <4>1
      <4>3. SumFunctionOnSet(r, {d}) = r[d]
        BY <4>2, SumSmall
      <4>4. SumFunctionOnSet(r, R) = r[d]
        BY <3>7, <4>3, Zenon
      <4>5. QED
        BY <1>1, <1>2, <1>5, <3>1, <3>4, <3>5, <4>1, <4>2, <4>4
    <3>8. QED
      BY <3>1, <3>2, <3>3, <3>6, <3>7, AtMostOne
  <2>5. CASE e = b
    <3>1. pay < turn
      BY <1>1, <1>3, <2>2
    <3>2. CASE P = {b}
      <4>1. total = w[b]
        BY <1>1, <3>2, SumSmall DEF total
      <4>2. QED
        BY <1>1, <1>6, <2>2, <2>5, <3>1, <4>1
    <3>3. ASSUME NEW a \in P, a # b PROVE -turn < pay
      <4>1. pay = r[b] - total /\ r[a] <= r[b] /\ r[a] \in Int /\ r[b] \in Int
        BY <1>2, <2>3, <2>4, <3>3
      <4>2. CASE r[b] + r[a] = total
        BY <1>3, <2>1, <4>1, <4>2
      <4>3. ASSUME NEW d \in D \ {a, b}, r[b] + r[a] + r[d] = total PROVE -turn < pay
        <5>1. r[d] \in Int /\ c[d] < turn /\ c[d] \in Int
          BY <1>2, <2>2
        <5>2. CASE d \in P
          <6>1. r[d] <= r[b]
            BY <2>4, <4>3, <5>2
          <6>2. QED
            BY <1>3, <2>1, <4>1, <4>3, <5>1, <6>1
        <5>3. CASE d \notin P
          <6>1. r[d] = c[d]
            BY <1>2, <5>3
          <6>2. QED
            BY <1>3, <2>1, <4>1, <4>3, <5>1, <6>1
        <5>4. QED
          BY <5>2, <5>3
      <4>4. QED
        BY <2>4, <3>3, <4>2, <4>3
    <3>4. QED
      BY <1>6, <2>5, <3>1, <3>2, <3>3
  <2>6. CASE e # b /\ e \in P
    <3>1. t[e] = r[e] /\ r[e] \in Int /\ r[b] \in Int /\ r[e] <= r[b] /\ c[e] \in Int
      BY <1>1, <1>2, <1>6, <2>4, <2>6
    <3>2. -turn < t[e]
      BY <1>3, <2>2, <2>3, <3>1
    <3>3. CASE r[b] + r[e] = total
      BY <1>3, <2>1, <3>1, <3>2, <3>3
    <3>4. ASSUME NEW d \in D \ {e, b}, r[b] + r[e] + r[d] = total PROVE t[e] < turn
      <4>1. r[d] \in Int /\ c[d] \in Int /\ -turn < c[d] /\ c[d] <= r[d]
        BY <1>2, <2>2, <2>3
      <4>2. QED
        BY <1>3, <3>1, <3>4, <4>1
    <3>5. QED
      BY <2>4, <2>6, <3>2, <3>3, <3>4
  <2>7. CASE e # b /\ e \notin P
    BY <1>2, <1>6, <2>2, <2>7
  <2>8. QED
    BY <2>5, <2>6, <2>7
<1>9. QED
  BY <1>4, <1>6, <1>7, <1>8 DEF Fair, turn

\* Somebody leads a pool that is not empty.
LEMMA LeaderExists ==
    ASSUME NEW E, NEW hs \in Seq(E), NEW pool, pool \subseteq ToSet(hs), pool # {},
           NEW cw, \A e \in pool : cw[e] \in Int
    PROVE  /\ Best(cw, hs, pool) \in DOMAIN hs
           /\ Leads(cw, hs, pool, Best(cw, hs, pool))
<1> DEFINE In(j) == hs[j] \in pool
           First(n, i) == /\ i \in 1..n /\ In(i)
                          /\ \A j \in 1..n : In(j) =>
                                \/ cw[hs[j]] < cw[hs[i]]
                                \/ cw[hs[j]] = cw[hs[i]] /\ i <= j
           Good == {n \in Nat : (\E j \in 1..n : In(j)) => \E i \in 1..n : First(n, i)}
<1>1. 0 \in Good
  OBVIOUS
<1>2. ASSUME NEW n \in Nat, n \in Good PROVE n + 1 \in Good
  <2>0. \A j \in Nat : In(j) => cw[hs[j]] \in Int
    OBVIOUS
  <2> HIDE DEF In
  <2>1. CASE ~ In(n + 1)
    <3>1. \A j \in 1..(n + 1) : In(j) => j \in 1..n
      BY <2>1
    <3>2. \A i \in 1..n : First(n, i) => i \in 1..(n + 1) /\ First(n + 1, i)
      BY <3>1
    <3>3. QED
      BY <1>2, <3>1, <3>2
  <2>2. CASE In(n + 1) /\ ~ \E j \in 1..n : In(j)
    <3>1. \A j \in 1..(n + 1) : In(j) => j = n + 1
      BY <2>2
    <3>2. First(n + 1, n + 1) /\ n + 1 \in 1..(n + 1)
      BY <2>2, <3>1
    <3>3. QED
      BY <3>2
  <2>3. CASE In(n + 1) /\ \E j \in 1..n : In(j)
    <3>1. PICK i \in 1..n : First(n, i)
      BY <1>2, <2>3
    <3>2. cw[hs[i]] \in Int /\ cw[hs[n + 1]] \in Int
      BY <2>0, <2>3, <3>1
    <3>3. CASE cw[hs[n + 1]] <= cw[hs[i]]
      <4>1. First(n + 1, i)
        BY <2>3, <3>1, <3>2, <3>3
      <4>2. i \in 1..(n + 1)
        OBVIOUS
      <4>3. QED
        BY <4>1, <4>2
    <3>4. CASE cw[hs[i]] < cw[hs[n + 1]]
      <4>1. First(n + 1, n + 1)
        BY <2>0, <2>3, <3>1, <3>2, <3>4
      <4>2. n + 1 \in 1..(n + 1)
        OBVIOUS
      <4>3. QED
        BY <4>1, <4>2
    <3>5. QED
      BY <3>2, <3>3, <3>4
  <2>4. QED
    BY <2>1, <2>2, <2>3
<1>3. Nat \subseteq Good
  <2> HIDE DEF Good
  <2>1. QED
    BY <1>1, <1>2, NatSetInduction
<1>4. Len(hs) \in Nat /\ DOMAIN hs = 1..Len(hs) /\ \E j \in 1..Len(hs) : In(j)
  BY DEF ToSet
<1>5. \E i \in 1..Len(hs) : First(Len(hs), i)
  BY <1>3, <1>4
<1>6. \E i \in DOMAIN hs : Leads(cw, hs, pool, i)
  BY <1>4, <1>5 DEF Leads
<1>7. QED
  BY <1>6, Zenon DEF Best

-----------------------------------------------------------------------------
(***************************************************************************)
(* Plans.                                                                  *)
(***************************************************************************)

\* a lists what hs lists, and as often.
Relists(a, hs) == ToSet(a) = ToSet(hs) /\ Len(a) = Len(hs)

\* Round robin: the heads rotated list every head.
LEMMA RotationRelists ==
    ASSUME NEW E, NEW hs \in Seq(E), NEW i \in Nat, i < Len(hs)
    PROVE  Relists(SubSeq(hs, i + 1, Len(hs)) \o SubSeq(hs, 1, i), hs)
<1> DEFINE n == Len(hs)
           p == SubSeq(hs, i + 1, n)
           q == SubSeq(hs, 1, i)
           a == p \o q
<1>1. n \in Nat /\ DOMAIN hs = 1..n /\ i < n
  OBVIOUS
<1>p. p \in Seq(E) /\ Len(p) = n - i /\ \A k \in 1..(n - i) : p[k] = hs[k + i]
  <2>1. \A k \in (i + 1)..n : hs[k] \in E
    BY <1>1
  <2>2. /\ p \in Seq(E) /\ Len(p) = IF i + 1 <= n THEN n - (i + 1) + 1 ELSE 0
        /\ \A k \in 1..(n - (i + 1) + 1) : p[k] = hs[(i + 1) + k - 1]
    BY <1>1, <2>1, SubSeqProperties
  <2> HIDE DEF p, n
  <2>3. QED
    BY <1>1, <2>2
<1>q. q \in Seq(E) /\ Len(q) = i /\ \A k \in 1..i : q[k] = hs[k]
  BY <1>1
<1> HIDE DEF p, q, n
<1>a. /\ a \in Seq(E) /\ Len(a) = Len(p) + Len(q)
      /\ \A k \in 1..(Len(p) + Len(q)) : a[k] = IF k <= Len(p) THEN p[k] ELSE q[k - Len(p)]
  BY <1>p, <1>q, ConcatProperties
<1> HIDE DEF a
<1>2. Len(a) = n /\ DOMAIN a = 1..n
  BY <1>1, <1>p, <1>q, <1>a
<1>3. \A k \in 1..n : a[k] = IF k <= n - i THEN hs[k + i] ELSE hs[k - (n - i)]
  <2>1. ASSUME NEW k \in 1..n, k <= n - i PROVE a[k] = hs[k + i]
    <3>1. k \in 1..(n - i) /\ a[k] = p[k]
      BY <1>1, <1>p, <1>q, <1>a, <2>1
    <3>2. QED
      BY <1>p, <3>1
  <2>2. ASSUME NEW k \in 1..n, ~(k <= n - i) PROVE a[k] = hs[k - (n - i)]
    <3>1. k - (n - i) \in 1..i /\ a[k] = q[k - (n - i)]
      BY <1>1, <1>p, <1>q, <1>a, <2>2
    <3>2. QED
      BY <1>q, <3>1
  <2>3. QED
    BY <2>1, <2>2
<1>4. ASSUME NEW k \in 1..n PROVE a[k] \in ToSet(hs)
  <2>1. CASE k <= n - i
    <3>1. a[k] = hs[k + i] /\ k + i \in 1..n
      BY <1>1, <1>3, <2>1
    <3>2. QED
      BY <1>1, <3>1 DEF ToSet
  <2>2. CASE ~(k <= n - i)
    <3>1. a[k] = hs[k - (n - i)] /\ k - (n - i) \in 1..n
      BY <1>1, <1>3, <2>2
    <3>2. QED
      BY <1>1, <3>1 DEF ToSet
  <2>3. QED
    BY <2>1, <2>2
<1>5. ASSUME NEW k \in 1..n PROVE hs[k] \in ToSet(a)
  <2>1. CASE k <= i
    <3>1. k + (n - i) \in 1..n /\ a[k + (n - i)] = hs[k]
      BY <1>1, <1>3, <2>1
    <3>2. QED
      BY <1>2, <3>1 DEF ToSet
  <2>2. CASE ~(k <= i)
    <3>1. k - i \in 1..n /\ a[k - i] = hs[k]
      BY <1>1, <1>3, <2>2
    <3>2. QED
      BY <1>2, <3>1 DEF ToSet
  <2>3. QED
    BY <2>1, <2>2
<1>6. ToSet(a) = ToSet(hs)
  BY <1>1, <1>2, <1>4, <1>5 DEF ToSet
<1>7. QED
  BY <1>2, <1>6 DEF Relists, a, p, q, n

\* Weighted: the leader and the heads without it list every head.
LEMMA LeaderRelists ==
    ASSUME NEW E, NEW hs \in Seq(E), NEW k \in DOMAIN hs
    PROVE  /\ Relists(<<hs[k]>> \o RemoveAt(hs, k), hs)
           /\ (<<hs[k]>> \o RemoveAt(hs, k))[1] = hs[k]
<1> DEFINE n == Len(hs)
           p == SubSeq(hs, 1, k - 1)
           q == SubSeq(hs, k + 1, n)
           rest == p \o q
           a == <<hs[k]>> \o rest
<1>0. <<hs[k]>> \o RemoveAt(hs, k) = a
  BY DEF RemoveAt
<1>1. n \in Nat /\ DOMAIN hs = 1..n /\ k \in 1..n /\ hs[k] \in E
  OBVIOUS
<1>p. p \in Seq(E) /\ Len(p) = k - 1 /\ \A j \in 1..(k - 1) : p[j] = hs[j]
  BY <1>1
<1>q. q \in Seq(E) /\ Len(q) = n - k /\ \A j \in 1..(n - k) : q[j] = hs[j + k]
  BY <1>1
<1> HIDE DEF p, q, n
<1>r. rest \in Seq(E) /\ Len(rest) = n - 1 /\
      \A j \in 1..(n - 1) : rest[j] = IF j <= k - 1 THEN hs[j] ELSE hs[j + 1]
  <2>1. /\ rest \in Seq(E) /\ Len(rest) = Len(p) + Len(q)
        /\ \A j \in 1..(Len(p) + Len(q)) :
              rest[j] = IF j <= Len(p) THEN p[j] ELSE q[j - Len(p)]
    BY <1>p, <1>q, ConcatProperties
  <2> HIDE DEF rest
  <2>2. ASSUME NEW j \in 1..(n - 1), j <= k - 1 PROVE rest[j] = hs[j]
    BY <1>1, <1>p, <1>q, <2>1, <2>2
  <2>3. ASSUME NEW j \in 1..(n - 1), ~(j <= k - 1) PROVE rest[j] = hs[j + 1]
    <3>1. j - (k - 1) \in 1..(n - k) /\ rest[j] = q[j - (k - 1)]
      BY <1>1, <1>p, <1>q, <2>1, <2>3
    <3>2. q[j - (k - 1)] = hs[(j - (k - 1)) + k]
      BY <1>q, <3>1
    <3>3. (j - (k - 1)) + k = j + 1
      BY <1>1
    <3>4. QED
      BY <3>1, <3>2, <3>3
  <2>4. QED
    BY <1>1, <1>p, <1>q, <2>1, <2>2, <2>3
<1> HIDE DEF rest
<1>2. Len(a) = n /\ DOMAIN a = 1..n
  BY <1>1, <1>r
<1>3. /\ a[1] = hs[k]
      /\ \A j \in 2..n : a[j] = IF j - 1 <= k - 1 THEN hs[j - 1] ELSE hs[j]
  BY <1>1, <1>r
<1> HIDE DEF a
<1>4. ASSUME NEW j \in 1..n PROVE a[j] \in ToSet(hs)
  <2>1. CASE j = 1
    BY <1>1, <1>3, <2>1 DEF ToSet
  <2>2. CASE j # 1
    <3>1. j \in 2..n /\ j - 1 \in 1..n
      BY <1>1, <2>2
    <3>2. a[j] = hs[j - 1] \/ a[j] = hs[j]
      BY <1>3, <3>1
    <3>3. QED
      BY <1>1, <3>1, <3>2 DEF ToSet
  <2>3. QED
    BY <2>1, <2>2
<1>5. ASSUME NEW j \in 1..n PROVE hs[j] \in ToSet(a)
  <2>1. CASE j = k
    BY <1>1, <1>2, <1>3, <2>1 DEF ToSet
  <2>2. CASE j < k
    <3>1. j + 1 \in 2..n /\ j + 1 \in 1..n /\ a[j + 1] = hs[j]
      BY <1>1, <1>3, <2>2
    <3>2. QED
      BY <1>2, <3>1 DEF ToSet
  <2>3. CASE j > k
    <3>1. j \in 2..n /\ a[j] = hs[j]
      BY <1>1, <1>3, <2>3
    <3>2. QED
      BY <1>2, <3>1 DEF ToSet
  <2>4. QED
    BY <1>1, <2>1, <2>2, <2>3
<1>6. ToSet(a) = ToSet(hs)
  BY <1>1, <1>2, <1>4, <1>5 DEF ToSet
<1>7. QED
  BY <1>0, <1>2, <1>3, <1>6 DEF Relists, n

-----------------------------------------------------------------------------
(***************************************************************************)
(* The rotation state of a route.                                          *)
(***************************************************************************)

Weighted(route) == route.strategy = "weighted_round_robin"

\* A stored state fits the shape it was built for, and its weights are fair.
GoodState(st) ==
    LET members == ToSet(st.fingerprint.egress)
    IN  /\ st = [fingerprint |-> st.fingerprint, generation |-> st.generation,
                 cursor |-> st.cursor, cw |-> st.cw]
        /\ st.generation \in Nat \ {0}
        /\ st.cursor \in Nat
        /\ IsFiniteSet(members)
        /\ st.cw \in [members -> Int]
        /\ ~ Weighted(st.fingerprint) => \A e \in members : st.cw[e] = 0
        /\ Weighted(st.fingerprint) => /\ \A e \in members : st.fingerprint.weight[e] \in Nat
                                       /\ Fair(st.cw, st.fingerprint.weight, members)

\* Zeros sum up to zero: adding them to themselves changes nothing.
LEMMA SumOfZeros ==
    ASSUME NEW D, IsFiniteSet(D), NEW f \in [D -> Int], \A e \in D : f[e] = 0
    PROVE  SumFunctionOnSet(f, D) = 0
<1> DEFINE r == [e \in D |-> IF e \in D THEN f[e] + f[e] ELSE f[e]]
<1>1. SumFunctionOnSet(r, D) = SumFunctionOnSet(f, D) + SumFunctionOnSet(f, D)
  BY SumRaises
<1>2. r = f
  OBVIOUS
<1> DEFINE x == SumFunctionOnSet(f, D)
<1>3. x \in Int
  BY SumType
<1> HIDE DEF r
<1>4. x = x + x
  BY <1>1, <1>2, Zenon
<1>5. x = 0
  <2> HIDE DEF x
  <2>1. QED
    BY <1>3, <1>4
<1>6. QED
  BY <1>5

\* The egresses of a route are finitely many.
LEMMA MembersFinite ==
    ASSUME NEW route, IsRoute(route)
    PROVE  IsFiniteSet(ToSet(route.egress))
<1> DEFINE s == route.egress
           T == ToSet(s)
<1>1. s \in Seq(T)
  BY DEF IsRoute
<1>2. Len(s) \in Nat /\ DOMAIN s = 1..Len(s) /\ s \in [1..Len(s) -> T]
  BY <1>1, LenProperties
<1>3. s \in Surjection(1..Len(s), T)
  BY <1>2 DEF Surjection, ToSet
<1>4. IsFiniteSet(1..Len(s))
  BY <1>2, FS_Interval
<1>5. QED
  BY <1>3, <1>4, FS_Surjection

\* What the fingerprint keeps of a route.
LEMMA FingerprintFacts ==
    ASSUME NEW route, IsRoute(route)
    PROVE  /\ Fingerprint(route).egress = route.egress
           /\ Fingerprint(route).strategy = route.strategy
           /\ Weighted(route) => \A e \in ToSet(route.egress) :
                 Fingerprint(route).weight[e] = route.weight[e] /\ route.weight[e] \in Nat
<1>1. route = [strategy |-> route.strategy, egress |-> route.egress, weight |-> route.weight]
  BY Zenon DEF IsRoute
<1>2. /\ Fingerprint(route).egress = route.egress
      /\ Fingerprint(route).strategy = route.strategy
  BY <1>1 DEF Fingerprint
<1>3. Weighted(route) =>
         Fingerprint(route).weight = [e \in ToSet(route.egress) |-> route.weight[e]]
  BY <1>1 DEF Fingerprint, Weighted
<1>4. \A e \in ToSet(route.egress) : route.weight[e] \in Nat
  BY DEF IsRoute
<1>5. QED
  BY <1>2, <1>3, <1>4

\* A fresh state is a good one.
LEMMA FreshIsGood ==
    ASSUME NEW route, IsRoute(route), NEW g \in Nat \ {0}
    PROVE  /\ GoodState(FreshState(route, g))
           /\ FreshState(route, g).fingerprint = Fingerprint(route)
           /\ FreshState(route, g).generation = g
<1> DEFINE D == ToSet(route.egress)
           zero == [e \in D |-> 0]
           fp == Fingerprint(route)
           st == FreshState(route, g)
<1>1. st = [fingerprint |-> fp, generation |-> g, cursor |-> 0, cw |-> zero]
  BY DEF FreshState
<1>2. st.fingerprint = fp /\ st.generation = g /\ st.cursor = 0 /\ st.cw = zero
  BY <1>1
<1>3. ToSet(fp.egress) = D /\ (Weighted(fp) <=> Weighted(route))
  BY FingerprintFacts DEF Weighted
<1>4. zero \in [D -> Int] /\ \A e \in D : zero[e] = 0
  OBVIOUS
<1>5. IsFiniteSet(D)
  BY MembersFinite
<1> HIDE DEF zero
<1>6. SumFunctionOnSet(zero, D) = 0
  BY <1>4, <1>5, SumOfZeros
<1>7. Weighted(fp) => \A e \in D : fp.weight[e] \in Nat
  BY <1>3, FingerprintFacts
<1>8. Fair(zero, fp.weight, D)
  BY <1>4, <1>6 DEF Fair
<1> HIDE DEF fp, D, st
<1>9. GoodState(st)
  BY <1>1, <1>2, <1>3, <1>4, <1>5, <1>7, <1>8 DEF GoodState
<1>10. QED
  BY <1>2, <1>9 DEF st, fp

\* stateFor gives a good state of the route's shape: the stored one, or fresh.
LEMMA StateForIsGood ==
    ASSUME NEW route, IsRoute(route), NEW g \in Nat \ {0},
           NEW st, st = NoState \/ GoodState(st)
    PROVE  /\ GoodState(StateFor(st, route, g))
           /\ StateFor(st, route, g).fingerprint = Fingerprint(route)
           /\ StateFor(st, route, g) = st \/ StateFor(st, route, g).generation = g
<1>1. CASE ShapeMatches(st, route)
  BY <1>1, Zenon DEF StateFor, ShapeMatches
<1>2. CASE ~ ShapeMatches(st, route)
  BY <1>2, FreshIsGood, Zenon DEF StateFor
<1>3. QED
  BY <1>1, <1>2

\* Eligible heads are a sequence of the route's egresses, and not empty.
LEMMA EligibleFacts ==
    ASSUME NEW route, IsRoute(route), NEW hs \in Eligible(route)
    PROVE  hs \in Seq(ToSet(route.egress)) /\ hs # <<>>
<1>1. PICK s \in SUBSET ToSet(route.egress) : hs \in [1..Cardinality(s) -> s]
  BY DEF Eligible, SetToAllKPermutations, SetToSeqs
<1>2. IsFiniteSet(s)
  BY MembersFinite, FS_Subset
<1>3. Cardinality(s) \in Nat
  BY <1>2, FS_CardinalityType
<1>4. hs \in Seq(s)
  BY <1>1, <1>3, SeqDef
<1>5. hs # <<>>
  BY DEF Eligible
<1>6. QED
  BY <1>4, <1>5, SeqMonotonic

\* One turn on a good state of the route's shape: the plan relists the heads,
\* with a positive weight in front where weights count, and the state stays
\* good, of its shape and its generation.
LEMMA TurnFacts ==
    ASSUME NEW route, IsRoute(route), NEW hs \in Eligible(route), ~ Unplannable(route, hs),
           NEW st, GoodState(st), st.fingerprint = Fingerprint(route)
    PROVE  LET turn == Turn(st, route, hs)
           IN  /\ Relists(turn.attempts, hs)
               /\ Weighted(route) => route.weight[turn.attempts[1]] > 0
               /\ GoodState(turn.state)
               /\ turn.state.generation = st.generation
               /\ turn.state.cursor >= st.cursor
<1> DEFINE D == ToSet(route.egress)
           fp == st.fingerprint
<1>1. hs \in Seq(D) /\ hs # <<>>
  BY EligibleFacts
<1>2. /\ fp.egress = route.egress /\ fp.strategy = route.strategy
      /\ Weighted(route) => \A e \in D : fp.weight[e] = route.weight[e] /\ route.weight[e] \in Nat
  BY FingerprintFacts
<1>3. /\ st = [fingerprint |-> fp, generation |-> st.generation,
               cursor |-> st.cursor, cw |-> st.cw]
      /\ st.generation \in Nat \ {0} /\ st.cursor \in Nat
      /\ IsFiniteSet(D) /\ st.cw \in [D -> Int]
      /\ ~ Weighted(route) => \A e \in D : st.cw[e] = 0
      /\ Weighted(route) => Fair(st.cw, fp.weight, D)
  BY <1>2 DEF GoodState, Weighted
<1> HIDE DEF D
<1>4. CASE ~ Weighted(route)
  <2> DEFINE i == st.cursor % Len(hs)
             next == [st EXCEPT !.cursor = @ + 1]
             a == SubSeq(hs, i + 1, Len(hs)) \o SubSeq(hs, 1, i)
  <2>1. Turn(st, route, hs) = [attempts |-> a, state |-> next]
    BY <1>4 DEF Turn, RotatedTurn, Weighted
  <2>2. Len(hs) \in Nat \ {0}
    BY <1>1, EmptySeq
  <2>3. i \in Nat /\ i < Len(hs)
    BY <1>3, <2>2
  <2>4. Relists(a, hs)
    <3> HIDE DEF i
    <3>1. QED
      BY <1>1, <2>3, RotationRelists
  <2>5. /\ next = [fingerprint |-> fp, generation |-> st.generation,
                   cursor |-> st.cursor + 1, cw |-> st.cw]
    BY <1>3
  <2> HIDE DEF next, a
  <2>6. /\ next.fingerprint = fp /\ next.generation = st.generation
        /\ next.cursor = st.cursor + 1 /\ next.cw = st.cw
    BY <2>5
  <2>7. ~ Weighted(fp) /\ ToSet(fp.egress) = D
    BY <1>2, <1>4 DEF Weighted, D
  <2>8. GoodState(next)
    <3>1. next.generation \in Nat \ {0} /\ next.cursor \in Nat /\ next.cw \in [D -> Int]
          /\ \A e \in D : next.cw[e] = 0
      BY <1>3, <1>4, <2>6
    <3>2. next = [fingerprint |-> next.fingerprint, generation |-> next.generation,
                  cursor |-> next.cursor, cw |-> next.cw]
      BY <2>5, <2>6, Zenon
    <3>3. QED
      BY <1>3, <2>6, <2>7, <3>1, <3>2 DEF GoodState
  <2>9. next.cursor >= st.cursor
    BY <1>3, <2>6
  <2>10. QED
    BY <1>4, <2>1, <2>4, <2>6, <2>8, <2>9
<1>5. CASE Weighted(route)
  <2> DEFINE pool == Pool(route, hs)
             raised == Raised(st.cw, route, pool)
             k == Best(raised, hs, pool)
             b == hs[k]
             t == Turned(st.cw, route.weight, pool, b)
             next == [st EXCEPT !.cw = t]
             a == <<b>> \o RemoveAt(hs, k)
  <2>1. /\ pool \subseteq ToSet(hs) /\ pool \subseteq D /\ pool # {}
        /\ \A e \in pool : route.weight[e] > 0
    <3>1. DOMAIN hs = 1..Len(hs) /\ ToSet(hs) \subseteq D
      BY <1>1, ElementOfSeq, LenProperties DEF ToSet
    <3>2. QED
      BY <1>5, <3>1 DEF Pool, Unplannable, Weighted
  <2>2. /\ \A e \in D : st.cw[e] \in Int /\ route.weight[e] \in Nat
        /\ DOMAIN st.cw = D
    BY <1>2, <1>3, <1>5
  <2> HIDE DEF pool
  <2>3. raised = [e \in D |-> IF e \in pool THEN st.cw[e] + route.weight[e] ELSE st.cw[e]]
    BY <2>2 DEF Raised
  <2>4. \A e \in pool : raised[e] = st.cw[e] + route.weight[e] /\ raised[e] \in Int
    BY <2>1, <2>2, <2>3
  <2> HIDE DEF raised
  <2>5. k \in DOMAIN hs /\ Leads(raised, hs, pool, k)
    BY <1>1, <2>1, <2>4, LeaderExists
  <2> HIDE DEF k
  <2>6. b \in pool /\ \A e \in pool : raised[e] <= raised[b]
    <3>1. b \in pool
      BY <2>5 DEF Leads
    <3>2. ASSUME NEW e \in pool PROVE raised[e] <= raised[b]
      <4>1. PICK j \in DOMAIN hs : hs[j] = e
        BY <2>1 DEF ToSet
      <4>2. raised[hs[j]] < raised[b] \/ raised[hs[j]] = raised[b]
        BY <2>5, <4>1 DEF Leads
      <4>3. QED
        BY <2>4, <3>1, <4>1, <4>2
    <3>3. QED
      BY <3>1, <3>2
  <2> HIDE DEF b
  <2>7. SumFunctionOnSet(fp.weight, D) = SumFunctionOnSet(route.weight, D)
    BY <1>2, <1>3, <1>5, SumSame
  <2>8. Fair(st.cw, route.weight, D)
    BY <1>3, <1>5, <2>7, Zenon DEF Fair
  <2>9. t \in [D -> Int] /\ Fair(t, route.weight, D)
    <3>1. \A e \in pool : st.cw[e] + route.weight[e] <= st.cw[b] + route.weight[b]
      BY <2>4, <2>6
    <3>2. QED
      BY <1>3, <2>1, <2>2, <2>6, <2>8, <3>1, TurnIsFair
  <2>10. Fair(t, fp.weight, D)
    BY <2>7, <2>9, Zenon DEF Fair
  <2>11. [raised EXCEPT ![b] = @ - Total(route, pool)] = t
    <3>1. raised[b] = st.cw[b] + route.weight[b] /\ b \in D
      BY <2>1, <2>4, <2>6
    <3>2. t = [raised EXCEPT ![b] = st.cw[b] + route.weight[b] - SumFunctionOnSet(route.weight, pool)]
      BY <2>2, <2>3, Zenon DEF Turned
    <3>3. raised[b] - Total(route, pool)
            = st.cw[b] + route.weight[b] - SumFunctionOnSet(route.weight, pool)
      <4>1. Total(route, pool) = SumFunctionOnSet(route.weight, pool)
        BY Zenon DEF Total
      <4>2. IsFiniteSet(pool)
        BY <1>3, <2>1, FS_Subset
      <4>3. SumFunctionOnSet(route.weight, pool) \in Int
        BY <2>1, <2>2, <4>2, SumType
      <4>4. st.cw[b] \in Int /\ route.weight[b] \in Int
        BY <2>2, <3>1
      <4>5. QED
        BY <3>1, <4>1, <4>3, <4>4
    <3>4. QED
      BY <3>2, <3>3, Zenon
  <2>12. Turn(st, route, hs) = [attempts |-> a, state |-> next]
    BY <1>5, <2>11, Zenon DEF Turn, WeightedTurn, Weighted, pool, raised, k, b
  <2>13. Relists(a, hs) /\ a[1] = b
    BY <1>1, <2>5, LeaderRelists DEF b
  <2> HIDE DEF t
  <2>14. next = [fingerprint |-> fp, generation |-> st.generation,
                 cursor |-> st.cursor, cw |-> t]
    BY <1>3
  <2> HIDE DEF next, a
  <2>15. /\ next.fingerprint = fp /\ next.generation = st.generation
         /\ next.cursor = st.cursor /\ next.cw = t
    BY <2>14
  <2>16. GoodState(next)
    <3>1. next.generation \in Nat \ {0} /\ next.cursor \in Nat /\ next.cw \in [D -> Int]
      BY <1>3, <2>9, <2>15
    <3>2. next = [fingerprint |-> next.fingerprint, generation |-> next.generation,
                  cursor |-> next.cursor, cw |-> next.cw]
      BY <2>14, <2>15, Zenon
    <3>3. Weighted(fp) /\ ToSet(fp.egress) = D /\ \A e \in D : fp.weight[e] \in Nat
      BY <1>2, <1>5 DEF Weighted, D
    <3>4. Fair(next.cw, fp.weight, D)
      BY <2>10, <2>15, Zenon
    <3>5. QED
      BY <1>3, <2>15, <3>1, <3>2, <3>3, <3>4, Zenon DEF GoodState
  <2>17. next.cursor >= st.cursor
    BY <1>3, <2>15
  <2>18. route.weight[a[1]] > 0
    BY <2>1, <2>6, <2>13
  <2>19. QED
    BY <2>12, <2>13, <2>15, <2>16, <2>17, <2>18
<1>6. QED
  BY <1>4, <1>5

\* The plan a is right for the heads hs of the route.
PlanFits(route, hs, a) ==
    \/ Relists(a, hs) /\ (Weighted(route) => route.weight[a[1]] > 0)
    \/ /\ a = <<>> /\ Weighted(route)
       /\ \A i \in DOMAIN hs : route.weight[hs[i]] = 0

\* A turn is a plan and the state it leaves.
LEMMA TurnFields ==
    ASSUME NEW a, NEW st
    PROVE  /\ [attempts |-> a, state |-> st].attempts = a
           /\ [attempts |-> a, state |-> st].state = st
OBVIOUS

\* Scheduler.Plan: the plan fits, the state it leaves is the one it found or a
\* good one, and one newer than the snapshot is at most moved on.
LEMMA PlannedFacts ==
    ASSUME NEW route, IsRoute(route), NEW hs \in Eligible(route), NEW g \in Nat \ {0},
           NEW st, st = NoState \/ GoodState(st)
    PROVE  LET made == Planned(st, route, g, hs)
           IN  /\ PlanFits(route, hs, made.attempts)
               /\ made.state = st \/ GoodState(made.state)
               /\ made.state.generation \in {st.generation, g}
               /\ st # NoState /\ g < st.generation =>
                     /\ made.state.generation = st.generation
                     /\ made.state.cursor >= st.cursor
<1> DEFINE made == Planned(st, route, g, hs)
           found == StateFor(st, route, g)
           turn == Turn(found, route, hs)
<1>0. hs \in Seq(ToSet(route.egress)) /\ hs # <<>>
  BY EligibleFacts
<1>1. st # NoState => st.cursor \in Nat /\ st.generation \in Nat
  BY Zenon DEF GoodState
<1>2. CASE Unplannable(route, hs)
  <2>1. made = [attempts |-> <<>>, state |-> st]
    BY <1>2, Zenon DEF Planned
  <2>2. made.attempts = <<>> /\ made.state = st
    BY <2>1, TurnFields, Zenon
  <2>3. Weighted(route) /\ Pool(route, hs) = {}
    BY <1>0, <1>2, Zenon DEF Unplannable, Weighted
  <2>4. ASSUME NEW i \in DOMAIN hs PROVE route.weight[hs[i]] = 0
    <3>1. hs[i] \in ToSet(hs) /\ hs[i] \in ToSet(route.egress)
      BY <1>0, ElementOfSeq, LenProperties DEF ToSet
    <3>2. route.weight[hs[i]] \in Nat
      BY <3>1 DEF IsRoute
    <3>3. ~(route.weight[hs[i]] > 0)
      BY <2>3, <3>1 DEF Pool
    <3>4. QED
      BY <3>2, <3>3
  <2>5. PlanFits(route, hs, made.attempts)
    BY <2>2, <2>3, <2>4, Zenon DEF PlanFits
  <2>6. st # NoState => made.state.cursor >= st.cursor
    <3> HIDE DEF made
    <3>1. QED
      BY <1>1, <2>2
  <2>7. made.state.generation = st.generation
    BY <2>2, Zenon
  <2> HIDE DEF made
  <2>8. QED
    BY <2>2, <2>5, <2>6, <2>7, Zenon DEF made
<1>3. CASE ~ Unplannable(route, hs)
  <2>1. /\ GoodState(found) /\ found.fingerprint = Fingerprint(route)
        /\ found = st \/ found.generation = g
    BY StateForIsGood
  <2>2. /\ Relists(turn.attempts, hs)
        /\ Weighted(route) => route.weight[turn.attempts[1]] > 0
        /\ GoodState(turn.state)
        /\ turn.state.generation = found.generation
        /\ turn.state.cursor >= found.cursor
    BY <1>3, <2>1, TurnFacts
  <2>3. PlanFits(route, hs, turn.attempts)
    BY <2>2, Zenon DEF PlanFits
  <2>4. turn = [attempts |-> turn.attempts, state |-> turn.state]
    BY DEF Turn, WeightedTurn, RotatedTurn
  <2>5. CASE Superseded(st, route, g)
    <3>1. made = [turn EXCEPT !.state = st]
      BY <1>3, <2>5, Zenon DEF Planned
    <3> HIDE DEF made, turn
    <3>2. made.attempts = turn.attempts /\ made.state = st
      BY <2>4, <3>1
    <3>3. st # NoState => made.state.cursor >= st.cursor
      BY <1>1, <3>2
    <3>4. PlanFits(route, hs, made.attempts) /\ made.state.generation = st.generation
      BY <2>3, <3>2, Zenon
    <3>5. QED
      BY <3>2, <3>3, <3>4, Zenon DEF made
  <2>6. CASE ~ Superseded(st, route, g)
    <3>1. made = turn
      BY <1>3, <2>6, Zenon DEF Planned
    <3>2. found.generation \in {st.generation, g}
      BY <2>1, Zenon
    <3>3. ASSUME st # NoState, g < st.generation PROVE found = st
      BY <2>6, <3>3, Zenon DEF Superseded, StateFor, ShapeMatches
    <3> HIDE DEF made, turn, found
    <3>4. PlanFits(route, hs, made.attempts) /\ GoodState(made.state)
          /\ made.state.generation \in {st.generation, g}
      BY <2>2, <2>3, <3>1, <3>2, Zenon
    <3>5. ASSUME st # NoState, g < st.generation
          PROVE  made.state.generation = st.generation /\ made.state.cursor >= st.cursor
      BY <2>2, <3>1, <3>3, <3>5
    <3>6. QED
      BY <3>4, <3>5, Zenon DEF made
  <2>7. QED
    BY <2>5, <2>6
<1>4. QED
  BY <1>2, <1>3

-----------------------------------------------------------------------------
(***************************************************************************)
(* The inductive invariant.                                                *)
(***************************************************************************)

\* Every state in the table is good; the plan of every request that has one
\* fits the heads and the route it was made for.
StatesAreGood ==
    /\ DOMAIN sched = RouteIds
    /\ \A id \in RouteIds : sched[id] = NoState \/ GoodState(sched[id])

PlansFit ==
    /\ DOMAIN heads = Requests /\ DOMAIN plan = Requests
    /\ \A r \in Requests : pc[r] = "done" => PlanFits(RouteOf(r), heads[r], plan[r])

RotationInv == TypeOK /\ StatesAreGood /\ PlansFit

\* Every route of the history is one that Validate passed.
LEMMA RoutesAreRoutes ==
    ASSUME TypeOK, NEW r \in Requests
    PROVE  IsRoute(RouteOf(r)) /\ history[snap[r]] \in Configs
<1>1. snap[r] \in 1..Len(history) /\ match[r] \in RouteIds
  BY DEF TypeOK, Live
<1>2. history[snap[r]] \in Configs
  BY <1>1, ElementOfSeq DEF TypeOK
<1>3. QED
  BY <1>1, <1>2, RotationAssumption DEF RouteOf

\* What NoState holds.
LEMMA NoStateFacts == NoState.generation = 0 /\ NoState.cursor = 0
BY Zenon DEF NoState

\* The table starts empty and no request has a plan.
LEMMA RotationInit == Init => RotationInv
<1> SUFFICES ASSUME Init PROVE RotationInv
  OBVIOUS
<1>1. PICK c \in Configs : history = <<c>>
  BY DEF Init
<1>2. history \in Seq(Configs) /\ Live = 1
  BY <1>1 DEF Live
<1>3. sched = [id \in RouteIds |-> NoState] /\ \A r \in Requests : pc[r] = "idle"
  BY Zenon DEF Init
<1>4. TypeOK
  <2>1. \A id \in RouteIds : sched[id].generation = 0
    BY <1>3, NoStateFacts, Zenon
  <2>2. /\ prunedGen = 0 /\ turns = 0 /\ pc \in [Requests -> {"idle", "maintain", "plan", "done"}]
        /\ snap = [r \in Requests |-> 1] /\ match \in [Requests -> RouteIds]
    BY DEF Init
  <2>3. QED
    BY <1>2, <2>1, <2>2, RotationAssumption DEF TypeOK
<1>5. StatesAreGood
  BY <1>3, Zenon DEF StatesAreGood
<1>6. PlansFit
  <2>1. heads = [r \in Requests |-> <<>>] /\ plan = [r \in Requests |-> <<>>]
    BY Zenon DEF Init
  <2>2. DOMAIN heads = Requests /\ DOMAIN plan = Requests
    BY <2>1, Zenon
  <2>3. QED
    BY <1>3, <2>2 DEF PlansFit
<1>7. QED
  BY <1>4, <1>5, <1>6 DEF RotationInv

\* A reload touches no table: the routes of the requests under way stay theirs.
LEMMA ReloadKeeps ==
    ASSUME RotationInv, NEW c \in Configs, Reload(c)
    PROVE  RotationInv'
<1>1. /\ history \in Seq(Configs) /\ history' = Append(history, c)
      /\ prunedGen' = prunedGen /\ sched' = sched /\ pc' = pc /\ snap' = snap
      /\ match' = match /\ turns' = turns /\ heads' = heads /\ plan' = plan
  BY Zenon DEF RotationInv, TypeOK, Reload
<1>2. /\ history' \in Seq(Configs) /\ Len(history') = Len(history) + 1
      /\ Len(history) \in Nat
      /\ \A i \in 1..Len(history) : history'[i] = history[i]
  BY <1>1, AppendProperties, LenProperties
<1>3. TypeOK'
  BY <1>1, <1>2 DEF RotationInv, TypeOK, Live
<1>4. StatesAreGood'
  BY <1>1, Zenon DEF RotationInv, StatesAreGood
<1>5. \A r \in Requests : RouteOf(r)' = RouteOf(r)
  BY <1>1, <1>2 DEF RotationInv, TypeOK, RouteOf, Live
<1>6. PlansFit'
  BY <1>1, <1>5, Zenon DEF RotationInv, PlansFit
<1>7. QED
  BY <1>3, <1>4, <1>6 DEF RotationInv

\* A request arrives with the live snapshot and without a plan.
LEMMA ArriveKeeps ==
    ASSUME RotationInv, NEW r \in Requests, NEW id \in RouteIds, Arrive(r, id)
    PROVE  RotationInv'
<1>1. /\ pc' = [pc EXCEPT ![r] = "maintain"] /\ snap' = [snap EXCEPT ![r] = Len(history)]
      /\ match' = [match EXCEPT ![r] = id] /\ turns' = turns + 1 /\ turns < MaxTurns
      /\ heads' = [heads EXCEPT ![r] = <<>>] /\ plan' = [plan EXCEPT ![r] = <<>>]
      /\ history' = history /\ prunedGen' = prunedGen /\ sched' = sched
  BY Zenon DEF Arrive, Live
<1>2. TypeOK
  BY DEF RotationInv
<1>3. Len(history) \in Nat /\ Len(history) >= 1
  BY <1>2, LenProperties DEF TypeOK, Live
<1>4. TypeOK'
  <2>1. snap' \in [Requests -> 1..Len(history)]
    BY <1>1, <1>2, <1>3 DEF TypeOK, Live
  <2>2. turns' \in 0..MaxTurns
    BY <1>1, <1>2, RotationAssumption DEF TypeOK
  <2>3. pc' \in [Requests -> {"idle", "maintain", "plan", "done"}] /\ match' \in [Requests -> RouteIds]
    BY <1>1, <1>2 DEF TypeOK
  <2>4. history' = history /\ prunedGen' = prunedGen /\ sched' = sched
    BY <1>1
  <2>5. QED
    BY <1>2, <2>1, <2>2, <2>3, <2>4 DEF TypeOK, Live
<1>5. StatesAreGood'
  BY <1>1, Zenon DEF RotationInv, StatesAreGood
<1>6. PlansFit'
  <2>1. DOMAIN heads' = Requests /\ DOMAIN plan' = Requests
    BY <1>1, Zenon DEF RotationInv, PlansFit
  <2>2. ASSUME NEW q \in Requests, pc'[q] = "done"
        PROVE  PlanFits(RouteOf(q), heads[q], plan[q])'
    <3>1. q # r /\ pc[q] = "done"
      BY <1>1, <1>2, <2>2 DEF TypeOK
    <3>2. heads'[q] = heads[q] /\ plan'[q] = plan[q]
      BY <1>1, <3>1, Zenon DEF RotationInv, PlansFit
    <3>3. snap'[q] = snap[q] /\ match'[q] = match[q]
      BY <1>1, <1>2, <3>1 DEF TypeOK
    <3>4. RouteOf(q)' = RouteOf(q)
      BY <1>1, <3>3, Zenon DEF RouteOf
    <3>5. PlanFits(RouteOf(q), heads[q], plan[q])
      BY <3>1 DEF RotationInv, PlansFit
    <3>6. QED
      BY <3>2, <3>4, <3>5, Zenon
  <2>3. QED
    BY <2>1, <2>2 DEF PlansFit
<1>7. QED
  BY <1>4, <1>5, <1>6 DEF RotationInv

\* Pruning keeps a state or drops it.
LEMMA OnGenerationKeeps ==
    ASSUME RotationInv, NEW r \in Requests, OnGeneration(r)
    PROVE  RotationInv'
<1>1. /\ pc' = [pc EXCEPT ![r] = "plan"] /\ prunedGen' \in {prunedGen, snap[r]}
      /\ history' = history /\ snap' = snap /\ match' = match /\ turns' = turns
      /\ heads' = heads /\ plan' = plan
  BY Zenon DEF OnGeneration
<1>2. TypeOK /\ StatesAreGood
  BY DEF RotationInv
<1>3. /\ DOMAIN sched' = RouteIds
      /\ \A id \in RouteIds : sched'[id] = sched[id] \/ sched'[id] = NoState
  BY <1>2, Zenon DEF OnGeneration, PrunedRoutes, StatesAreGood
<1>4. TypeOK'
  <2>1. prunedGen' \in 0..Len(history)
    BY <1>1, <1>2 DEF TypeOK, Live
  <2>2. Len(history) \in Nat
    BY <1>2, LenProperties DEF TypeOK
  <2>3. \A id \in RouteIds : sched'[id].generation \in 0..Len(history)
    <3>1. ASSUME NEW id \in RouteIds PROVE sched'[id].generation \in 0..Len(history)
      <4>1. sched'[id].generation = sched[id].generation \/ sched'[id].generation = 0
        BY <1>3, NoStateFacts, Zenon
      <4>2. QED
        BY <1>2, <2>2, <4>1 DEF TypeOK, Live
    <3>2. QED
      BY <3>1
  <2>4. pc' \in [Requests -> {"idle", "maintain", "plan", "done"}]
    BY <1>1, <1>2 DEF TypeOK
  <2>5. QED
    BY <1>1, <1>2, <2>1, <2>3, <2>4 DEF TypeOK, Live
<1>5. StatesAreGood'
  BY <1>2, <1>3, Zenon DEF StatesAreGood
<1>6. PlansFit'
  <2>1. ASSUME NEW q \in Requests, pc'[q] = "done" PROVE pc[q] = "done"
    BY <1>1, <1>2, <2>1 DEF TypeOK
  <2>2. \A q \in Requests : RouteOf(q)' = RouteOf(q)
    BY <1>1, Zenon DEF RouteOf
  <2>3. QED
    BY <1>1, <2>1, <2>2, Zenon DEF RotationInv, PlansFit
<1>7. QED
  BY <1>4, <1>5, <1>6 DEF RotationInv

\* What a plan made by a request leaves of its route's state.
LEMMA PlanLeaves ==
    ASSUME RotationInv, NEW r \in Requests, Plan(r)
    PROVE  \E hs, st, a :
              /\ sched' = [sched EXCEPT ![match[r]] = st]
              /\ heads' = [heads EXCEPT ![r] = hs] /\ plan' = [plan EXCEPT ![r] = a]
              /\ PlanFits(RouteOf(r), hs, a)
              /\ st = sched[match[r]] \/ GoodState(st)
              /\ st.generation \in {sched[match[r]].generation, snap[r]}
              /\ snap[r] < sched[match[r]].generation =>
                    /\ st.generation = sched[match[r]].generation
                    /\ st.cursor >= sched[match[r]].cursor
<1> DEFINE old == sched[match[r]]
           made(hs) == Planned(old, RouteOf(r), snap[r], hs)
<1>1. PICK hs \in Eligible(RouteOf(r)) :
          /\ sched' = [sched EXCEPT ![match[r]] = made(hs).state]
          /\ heads' = [heads EXCEPT ![r] = hs]
          /\ plan' = [plan EXCEPT ![r] = made(hs).attempts]
  BY Zenon DEF Plan
<1>2. IsRoute(RouteOf(r))
  BY RoutesAreRoutes DEF RotationInv
<1>3. snap[r] \in Nat \ {0} /\ match[r] \in RouteIds
  BY LenProperties DEF RotationInv, TypeOK, Live
<1>4. old = NoState \/ GoodState(old)
  BY <1>3, Zenon DEF RotationInv, StatesAreGood
<1>5. /\ PlanFits(RouteOf(r), hs, made(hs).attempts)
      /\ made(hs).state = old \/ GoodState(made(hs).state)
      /\ made(hs).state.generation \in {old.generation, snap[r]}
      /\ old # NoState /\ snap[r] < old.generation =>
            /\ made(hs).state.generation = old.generation
            /\ made(hs).state.cursor >= old.cursor
  BY <1>2, <1>3, <1>4, PlannedFacts
<1>6. snap[r] < old.generation => old # NoState
  <2>1. ASSUME old = NoState PROVE ~(snap[r] < old.generation)
    <3>1. old.generation = 0
      BY <2>1, NoStateFacts, Zenon
    <3>2. QED
      BY <1>3, <3>1
  <2>2. QED
    BY <2>1
<1> HIDE DEF made, old
<1>7. /\ snap[r] < old.generation =>
            /\ made(hs).state.generation = old.generation
            /\ made(hs).state.cursor >= old.cursor
  BY <1>5, <1>6, Zenon
<1>8. QED
  BY <1>1, <1>5, <1>7, Zenon DEF old

\* A plan leaves good states and fits its heads.
LEMMA PlanKeeps ==
    ASSUME RotationInv, NEW r \in Requests, Plan(r)
    PROVE  RotationInv'
<1>1. PICK hs, st, a :
          /\ sched' = [sched EXCEPT ![match[r]] = st]
          /\ heads' = [heads EXCEPT ![r] = hs] /\ plan' = [plan EXCEPT ![r] = a]
          /\ PlanFits(RouteOf(r), hs, a)
          /\ st = sched[match[r]] \/ GoodState(st)
          /\ st.generation \in {sched[match[r]].generation, snap[r]}
  BY PlanLeaves
<1>2. /\ pc' = [pc EXCEPT ![r] = "done"] /\ history' = history /\ prunedGen' = prunedGen
      /\ snap' = snap /\ match' = match /\ turns' = turns
  BY Zenon DEF Plan
<1>3. TypeOK /\ StatesAreGood /\ PlansFit
  BY DEF RotationInv
<1>4. match[r] \in RouteIds /\ snap[r] \in 1..Len(history)
  BY <1>3 DEF TypeOK, Live
<1>5. /\ DOMAIN sched' = RouteIds /\ sched'[match[r]] = st
      /\ \A id \in RouteIds : id # match[r] => sched'[id] = sched[id]
  BY <1>1, <1>3, <1>4, Zenon DEF StatesAreGood
<1>6. TypeOK'
  <2>1. Len(history) \in Nat
    BY <1>3, LenProperties DEF TypeOK
  <2>2. st.generation \in 0..Len(history)
    BY <1>1, <1>3, <1>4, <2>1 DEF TypeOK, Live
  <2>3. \A id \in RouteIds : sched'[id].generation \in 0..Len(history)
    <3>1. \A id \in RouteIds : sched[id].generation \in 0..Len(history)
      BY <1>3 DEF TypeOK, Live
    <3>2. QED
      BY <1>5, <2>2, <3>1, Zenon
  <2>4. pc' \in [Requests -> {"idle", "maintain", "plan", "done"}]
    BY <1>2, <1>3 DEF TypeOK
  <2>5. QED
    BY <1>2, <1>3, <2>3, <2>4 DEF TypeOK, Live
<1>7. StatesAreGood'
  <2>1. st = NoState \/ GoodState(st)
    BY <1>1, <1>3, <1>4, Zenon DEF StatesAreGood
  <2>2. QED
    BY <1>3, <1>5, <2>1, Zenon DEF StatesAreGood
<1>8. PlansFit'
  <2>1. DOMAIN heads' = Requests /\ DOMAIN plan' = Requests
    BY <1>1, <1>3, Zenon DEF PlansFit
  <2>2. \A q \in Requests : RouteOf(q)' = RouteOf(q)
    BY <1>2, Zenon DEF RouteOf
  <2>3. ASSUME NEW q \in Requests, pc'[q] = "done"
        PROVE  PlanFits(RouteOf(q), heads[q], plan[q])'
    <3>1. CASE q = r
      <4>1. heads'[q] = hs /\ plan'[q] = a
        BY <1>1, <1>3, <3>1, Zenon DEF PlansFit
      <4>2. QED
        BY <1>1, <2>2, <3>1, <4>1, Zenon
    <3>2. CASE q # r
      <4>1. pc[q] = "done"
        BY <1>2, <1>3, <2>3, <3>2 DEF TypeOK
      <4>2. heads'[q] = heads[q] /\ plan'[q] = plan[q]
        BY <1>1, <1>3, <3>2, Zenon DEF PlansFit
      <4>3. PlanFits(RouteOf(q), heads[q], plan[q])
        BY <1>3, <4>1 DEF PlansFit
      <4>4. QED
        BY <2>2, <4>2, <4>3, Zenon
    <3>3. QED
      BY <3>1, <3>2
  <2>4. QED
    BY <2>1, <2>3 DEF PlansFit
<1>9. QED
  BY <1>6, <1>7, <1>8 DEF RotationInv

\* Every step keeps the invariant.
LEMMA RotationStep == RotationInv /\ [Next]_vars => RotationInv'
<1> SUFFICES ASSUME RotationInv, [Next]_vars PROVE RotationInv'
  OBVIOUS
<1>1. CASE \E c \in Configs : Reload(c)
  BY <1>1, ReloadKeeps
<1>2. CASE \E r \in Requests : \E id \in RouteIds : Arrive(r, id)
  BY <1>2, ArriveKeeps
<1>3. CASE \E r \in Requests : OnGeneration(r)
  BY <1>3, OnGenerationKeeps
<1>4. CASE \E r \in Requests : Plan(r)
  BY <1>4, PlanKeeps
<1>5. CASE UNCHANGED vars
  <2>1. /\ history' = history /\ prunedGen' = prunedGen /\ sched' = sched /\ pc' = pc
        /\ snap' = snap /\ match' = match /\ turns' = turns /\ heads' = heads /\ plan' = plan
    BY <1>5 DEF vars
  <2>2. TypeOK'
    BY <2>1 DEF RotationInv, TypeOK, Live
  <2>3. StatesAreGood'
    BY <2>1, Zenon DEF RotationInv, StatesAreGood
  <2>4. PlansFit'
    BY <2>1, Zenon DEF RotationInv, PlansFit, RouteOf
  <2>5. QED
    BY <2>2, <2>3, <2>4 DEF RotationInv
<1>6. QED
  BY <1>1, <1>2, <1>3, <1>4, <1>5 DEF Next

\* The table of the scheduler holds good states only, however reloads, late
\* requests and changes of eligibility interleave.
THEOREM RotationInvariant == Spec => []RotationInv
<1>1. QED
  BY RotationInit, RotationStep, PTL DEF Spec

\* The sum of a state's current weights is zero and, on a route of at most three
\* egresses, none of them is a whole turn off.
LEMMA GoodStateIsFair ==
    ASSUME NEW st, GoodState(st)
    PROVE  /\ SumFunction(st.cw) = 0
           /\ Cardinality(DOMAIN st.cw) <= 3 =>
                 \A e \in DOMAIN st.cw :
                    \/ st.cw[e] = 0
                    \/ /\ -SumFunctionOnSet(st.fingerprint.weight, ToSet(st.fingerprint.egress)) < st.cw[e]
                       /\ st.cw[e] < SumFunctionOnSet(st.fingerprint.weight, ToSet(st.fingerprint.egress))
<1> DEFINE D == ToSet(st.fingerprint.egress)
           cw == st.cw
           total == SumFunctionOnSet(st.fingerprint.weight, D)
<1>1. /\ IsFiniteSet(D) /\ cw \in [D -> Int]
      /\ ~ Weighted(st.fingerprint) => \A e \in D : cw[e] = 0
      /\ Weighted(st.fingerprint) => Fair(cw, st.fingerprint.weight, D)
  BY Zenon DEF GoodState
<1> HIDE DEF D, cw
<1>2. DOMAIN cw = D
  BY <1>1
<1>3. SumFunctionOnSet(cw, D) = 0
  <2>1. CASE Weighted(st.fingerprint)
    BY <1>1, <2>1, Zenon DEF Fair
  <2>2. CASE ~ Weighted(st.fingerprint)
    BY <1>1, <2>2, SumOfZeros
  <2>3. QED
    BY <2>1, <2>2
<1>4. SumFunction(cw) = 0
  BY <1>2, <1>3, Zenon DEF SumFunction
<1>5. Cardinality(D) <= 3 => \A e \in D : cw[e] = 0 \/ (-total < cw[e] /\ cw[e] < total)
  BY <1>1, Zenon DEF Fair
<1>6. QED
  BY <1>2, <1>4, <1>5, Zenon DEF D, cw

\* The plan of every request is its eligible heads, each once, a schedulable
\* one first; and what the table holds is fair.  Rotation.PlansAreFair, for
\* every set of routes, weights, requests and reloads.
THEOREM PlansFair == Spec => []PlansAreFair
<1>1. RotationInv => WeightsStayFair
  <2> SUFFICES ASSUME RotationInv PROVE WeightsStayFair
    OBVIOUS
  <2>1. ASSUME NEW id \in RouteIds, sched[id] # NoState PROVE GoodState(sched[id])
    BY <2>1, Zenon DEF RotationInv, StatesAreGood
  <2>2. QED
    BY <2>1, GoodStateIsFair, Zenon DEF WeightsStayFair
<1>2. RotationInv => PlanIsPermutationOfHeads
  <2> SUFFICES ASSUME RotationInv, NEW r \in Requests, pc[r] = "done",
                      PlanFits(RouteOf(r), heads[r], plan[r])
               PROVE  LET weighted == RouteOf(r).strategy = "weighted_round_robin"
                          weight   == RouteOf(r).weight
                      IN  \/ /\ ToSet(plan[r]) = ToSet(heads[r])
                             /\ Len(plan[r]) = Len(heads[r])
                             /\ weighted => weight[plan[r][1]] > 0
                          \/ /\ plan[r] = <<>> /\ weighted
                             /\ \A i \in DOMAIN heads[r] : weight[heads[r][i]] = 0
    BY Zenon DEF RotationInv, PlansFit, PlanIsPermutationOfHeads
  <2>1. QED
    BY Zenon DEF PlanFits, Relists, Weighted
<1>3. RotationInv => PlansAreFair
  BY <1>1, <1>2 DEF PlansAreFair
<1>4. QED
  BY <1>3, RotationInvariant, PTL

\* What a late request leaves of a state newer than its own snapshot is that
\* state, or that state moved on: Rotation.LateRequestKeepsRotation.
THEOREM LateRequestsKeepRotation == Spec => LateRequestKeepsRotation
<1> DEFINE Kept == \A r \in Requests :
              pc[r] = "plan" /\ pc'[r] = "done" /\ snap[r] < sched[match[r]].generation =>
                  /\ sched'[match[r]].generation = sched[match[r]].generation
                  /\ sched'[match[r]].cursor >= sched[match[r]].cursor
<1>1. RotationInv /\ [Next]_vars => [Kept]_vars
  <2> SUFFICES ASSUME RotationInv, Next, NEW r \in Requests, pc[r] = "plan", pc'[r] = "done",
                      snap[r] < sched[match[r]].generation
               PROVE  /\ sched'[match[r]].generation = sched[match[r]].generation
                      /\ sched'[match[r]].cursor >= sched[match[r]].cursor
    BY Zenon
  <2>1. pc \in [Requests -> {"idle", "maintain", "plan", "done"}] /\ match[r] \in RouteIds
    BY DEF RotationInv, TypeOK
  <2>2. Plan(r)
    <3>1. ASSUME NEW c \in Configs, Reload(c) PROVE FALSE
      BY <3>1 DEF Reload
    <3>2. ASSUME NEW q \in Requests, NEW id \in RouteIds, Arrive(q, id) PROVE FALSE
      <4>1. pc' = [pc EXCEPT ![q] = "maintain"]
        BY <3>2 DEF Arrive
      <4>2. QED
        BY <2>1, <4>1
    <3>3. ASSUME NEW q \in Requests, OnGeneration(q) PROVE FALSE
      <4>1. pc' = [pc EXCEPT ![q] = "plan"]
        BY <3>3 DEF OnGeneration
      <4>2. QED
        BY <2>1, <4>1
    <3>4. ASSUME NEW q \in Requests, Plan(q) PROVE q = r
      <4>1. pc' = [pc EXCEPT ![q] = "done"]
        BY <3>4 DEF Plan
      <4>2. QED
        BY <2>1, <4>1
    <3>5. QED
      BY <3>1, <3>2, <3>3, <3>4 DEF Next
  <2>3. PICK st : /\ sched' = [sched EXCEPT ![match[r]] = st]
                  /\ st.generation = sched[match[r]].generation
                  /\ st.cursor >= sched[match[r]].cursor
    BY <2>2, PlanLeaves
  <2>4. sched'[match[r]] = st
    BY <2>1, <2>3, Zenon DEF RotationInv, StatesAreGood
  <2>5. QED
    BY <2>3, <2>4, Zenon
<1>2. QED
  BY <1>1, RotationInvariant, PTL DEF Spec, LateRequestKeepsRotation

=============================================================================
