------------------------- MODULE EventRepliesProofs --------------------------
(* Proofs about the replies to a note, for any thread, relays, page size and *)
(* hop limit: the search for circles finds what it should, and pages leave   *)
(* no gap.                                                                   *)
EXTENDS EventReplies, FiniteSetTheorems, TLAPS

-----------------------------------------------------------------------------
(* What the library's theorems say without operators as parameters: a set of *)
(* numbers has a least one, a set of subsets of a finite set a smallest one. *)
(* Either makes an induction, over the least counterexample.                 *)

\* A set of numbers has a least one.
LEMMA Least ==
  ASSUME NEW B \in SUBSET Nat, B # {}
  PROVE  \E m \in B : \A k \in B : m <= k
<1> DEFINE R == OpToRel(<, Nat)
<1>1. IsWellFoundedOn(R, Nat)
  BY NatLessThanWellFounded
<1>2. \A k, m \in Nat : <<k, m>> \notin R => m <= k
  BY DEF OpToRel
<1> HIDE DEF R
<1>3. \E m \in B : \A k \in B : <<k, m>> \notin R
  BY <1>1, WFMin
<1> QED BY <1>2, <1>3

\* A set of subsets of a finite set has one that holds no other.
LEMMA Smallest ==
  ASSUME NEW S, IsFiniteSet(S), NEW B \in SUBSET (SUBSET S), B # {}
  PROVE  \E m \in B : \A k \in B : k \subseteq m => k = m
<1> DEFINE R == StrictSubsetOrdering(S)
<1>1. IsWellFoundedOn(R, SUBSET S)
  BY FS_StrictSubsetOrderingWellFounded, FS_FiniteSubsetsOfFinite
<1>2. \A k, m \in SUBSET S : <<k, m>> \notin R /\ k \subseteq m => k = m
  BY DEF StrictSubsetOrdering
<1> HIDE DEF R
<1>3. \E m \in B : \A k \in B : <<k, m>> \notin R
  BY <1>1, WFMin
<1>4. PICK m \in B : \A k \in B : <<k, m>> \notin R
  BY <1>3
<1>5. ASSUME NEW k \in B, k \subseteq m PROVE k = m
  <2>1. k \in SUBSET S /\ m \in SUBSET S /\ <<k, m>> \notin R
    BY <1>4
  <2> QED BY <1>2, <1>5, <2>1
<1> QED BY <1>5

\* A finite set that a relation < orders strictly has a last element.
LEMMA LastOf ==
  ASSUME NEW T, IsFiniteSet(T), T # {}, NEW after \in [T -> SUBSET T],
         \A x \in T : x \notin after[x],
         \A x \in T : \A y \in after[x] : after[y] \subseteq after[x]
  PROVE  \E x \in T : after[x] = {}
<1> DEFINE B == {after[x] : x \in T}
<1>1. B \in SUBSET (SUBSET T) /\ B # {}
  OBVIOUS
<1>2. PICK m \in B : \A k \in B : k \subseteq m => k = m
  <2> HIDE DEF B
  <2> QED BY <1>1, Smallest
<1>3. PICK x \in T : after[x] = m
  BY <1>2
<1>4. SUFFICES ASSUME NEW y \in after[x] PROVE FALSE
  BY <1>3
<1>5. y \in T /\ after[y] \subseteq after[x]
  OBVIOUS
<1>6. after[y] \in B
  BY <1>5
<1>7. after[y] = after[x]
  BY <1>2, <1>3, <1>5, <1>6
<1> QED BY <1>4, <1>5, <1>7

\* A step applied again and again defines a function.
Iterates(g, n, V, base, G) ==
  g \in [0..n -> V] /\ g[0] = base /\ \A i \in 1..n : g[i] = G[g[i - 1]]

\* There is such a function.
LEMMA Iterated ==
  ASSUME NEW n \in Nat, NEW V, NEW base \in V, NEW G \in [V -> V]
  PROVE  \E g : Iterates(g, n, V, base, G)
<1> USE DEF Iterates
<1> DEFINE Good(k) == \E g : Iterates(g, k, V, base, G)
           B == {k \in Nat : ~Good(k)}
<1>1. SUFFICES ASSUME B # {} PROVE FALSE
  OBVIOUS
<1>2. PICK m \in B : \A k \in B : m <= k
  BY <1>1, Least
<1>3. Good(0)
  <2>1. PICK g : g = [i \in 0..0 |-> base]
    OBVIOUS
  <2>2. g \in [0..0 -> V] /\ g[0] = base /\ \A i \in 1..0 : g[i] = G[g[i - 1]]
    BY <2>1
  <2> QED BY <2>2
<1>4. m \in Nat /\ m # 0
  <2>1. m \in Nat /\ ~Good(m)
    BY <1>2
  <2> HIDE DEF Good
  <2> QED BY <1>3, <2>1
<1>5. m - 1 \in Nat /\ m - 1 \notin B
  <2>1. m - 1 \in Nat /\ ~(m <= m - 1)
    BY <1>4
  <2> HIDE DEF B
  <2> QED BY <1>2, <2>1
<1>6. PICK g \in [0..(m - 1) -> V] : g[0] = base /\ \A i \in 1..(m - 1) : g[i] = G[g[i - 1]]
  BY <1>5
<1>7. PICK h : h = [i \in 0..m |-> IF i = m THEN G[g[m - 1]] ELSE g[i]]
  OBVIOUS
<1>8. m - 1 \in 0..(m - 1) /\ G[g[m - 1]] \in V
  BY <1>4, <1>6
<1>9. h \in [0..m -> V] /\ h[0] = base
  BY <1>4, <1>6, <1>7, <1>8
<1>10. ASSUME NEW i \in 1..m PROVE h[i] = G[h[i - 1]]
  <2>1. CASE i = m
    BY <1>4, <1>7, <2>1
  <2>2. CASE i # m
    <3>1. i \in 1..(m - 1) /\ i - 1 \in 0..(m - 1) /\ i \in 0..m /\ i - 1 \in 0..m /\ i - 1 # m
      BY <1>4, <2>2
    <3> QED BY <1>6, <1>7, <2>2, <3>1
  <2> QED BY <2>1, <2>2
<1>11. Good(m)
  BY <1>9, <1>10
<1> QED BY <1>2, <1>11

\* So does a step that adds one element at a time to what a set gives without it.
Adds(g, S, V, base, G, c) ==
  /\ g \in [SUBSET S -> V] /\ g[{}] = base
  /\ \A T \in SUBSET S : T # {} => g[T] = G[<<g[T \ {c[T]}], c[T]>>]

\* There is such a function, whichever element each set adds last.
LEMMA BySubsets ==
  ASSUME NEW S, IsFiniteSet(S), NEW V, NEW base \in V, NEW G \in [V \X S -> V],
         NEW c, \A T \in SUBSET S : T # {} => c[T] \in T
  PROVE  \E g : Adds(g, S, V, base, G, c)
<1> USE DEF Adds
<1> DEFINE Sol(h, T) == Adds(h, T, V, base, G, c)
<1>1. ASSUME NEW T1 \in SUBSET S, NEW T2 \in SUBSET T1, NEW h, NEW k, Sol(h, T1), Sol(k, T2)
      PROVE  h[T2] = k[T2]
  <2> DEFINE B == {U \in SUBSET T2 : h[U] # k[U]}
  <2>1. SUFFICES ASSUME B # {} PROVE FALSE
    OBVIOUS
  <2>2. B \in SUBSET (SUBSET S)
    OBVIOUS
  <2>3. PICK U \in B : \A W \in B : W \subseteq U => W = U
    <3> HIDE DEF B, Sol
    <3> QED BY <2>1, <2>2, Smallest
  <2>4. U \in SUBSET T2 /\ U \in SUBSET T1 /\ h[U] # k[U] /\ U # {}
    BY <1>1
  <2>5. c[U] \in U
    BY <2>4
  <2>6. h[U \ {c[U]}] = k[U \ {c[U]}]
    BY <2>3, <2>4, <2>5
  <2>7. h[U] = G[<<h[U \ {c[U]}], c[U]>>] /\ k[U] = G[<<k[U \ {c[U]}], c[U]>>]
    BY <1>1, <2>4
  <2> QED BY <2>4, <2>6, <2>7
<1> DEFINE Bad == {T \in SUBSET S : ~\E h : Sol(h, T)}
<1>2. SUFFICES ASSUME Bad # {} PROVE FALSE
  <2>1. S \notin Bad
    BY <1>2
  <2>2. \E h : Sol(h, S)
    BY <2>1
  <2> QED BY <2>2
<1>3. PICK m \in Bad : \A W \in Bad : W \subseteq m => W = m
  <2>1. Bad \in SUBSET (SUBSET S)
    OBVIOUS
  <2> HIDE DEF Bad
  <2> QED BY <1>2, <2>1, Smallest
<1>4. m \in SUBSET S /\ ~\E h : Sol(h, m)
  OBVIOUS
<1> DEFINE sol(U) == CHOOSE h : Sol(h, U)
<1>5. ASSUME NEW U \in SUBSET m, U # m PROVE Sol(sol(U), U)
  <2>1. U \notin Bad
    BY <1>3, <1>5
  <2>2. \E h : Sol(h, U)
    BY <1>4, <2>1
  <2> HIDE DEF Sol
  <2> QED BY <2>2
<1> HIDE DEF sol
<1> DEFINE less(U) == U \ {c[U]}
<1>6. ASSUME NEW U \in SUBSET m, U # {}
      PROVE  less(U) \in SUBSET U /\ less(U) \in SUBSET m /\ less(U) # m /\ c[U] \in S
  BY <1>4, <1>6
<1>7. PICK g : g = [U \in SUBSET m |-> IF U = {} THEN base ELSE G[<<sol(less(U))[less(U)], c[U]>>]]
  OBVIOUS
<1>8. ASSUME NEW U \in SUBSET m, U # {} PROVE sol(less(U))[less(U)] \in V
  <2>1. less(U) \in SUBSET m /\ less(U) # m
    BY <1>6, <1>8
  <2> HIDE DEF less
  <2>2. Sol(sol(less(U)), less(U))
    BY <1>5, <2>1
  <2> QED BY <2>2
<1>9. g \in [SUBSET m -> V] /\ g[{}] = base
  <2>1. ASSUME NEW U \in SUBSET m PROVE g[U] \in V
    <3>1. CASE U = {}
      BY <1>7, <3>1
    <3>2. CASE U # {}
      <4>1. <<sol(less(U))[less(U)], c[U]>> \in V \X S
        BY <1>6, <1>8, <3>2
      <4>2. g[U] = G[<<sol(less(U))[less(U)], c[U]>>]
        BY <1>7, <3>2
      <4> HIDE DEF less
      <4> QED BY <4>1, <4>2
    <3> QED BY <3>1, <3>2
  <2> QED BY <1>7, <2>1
<1>10. ASSUME NEW W \in SUBSET m, W # m PROVE g[W] = sol(W)[W]
  <2>1. Sol(sol(W), W)
    BY <1>5, <1>10
  <2>2. CASE W = {}
    BY <1>9, <2>1, <2>2
  <2>3. CASE W # {}
    <3>1. less(W) \in SUBSET W /\ less(W) \in SUBSET m /\ less(W) # m /\ W \in SUBSET S
      BY <1>4, <1>6, <2>3
    <3>2. Sol(sol(less(W)), less(W))
      BY <1>5, <3>1
    <3>3. sol(W)[less(W)] = sol(less(W))[less(W)]
      <4> HIDE DEF Sol, less
      <4> QED BY <1>1, <2>1, <3>1, <3>2
    <3>4. sol(W)[W] = G[<<sol(W)[less(W)], c[W]>>]
      BY <2>1, <2>3
    <3>5. g[W] = G[<<sol(less(W))[less(W)], c[W]>>]
      BY <1>7, <2>3
    <3> HIDE DEF less
    <3> QED BY <3>3, <3>4, <3>5
  <2> QED BY <2>2, <2>3
<1>11. ASSUME NEW U \in SUBSET m, U # {} PROVE g[U] = G[<<g[less(U)], c[U]>>]
  <2>1. g[less(U)] = sol(less(U))[less(U)]
    <3>1. less(U) \in SUBSET m /\ less(U) # m
      BY <1>6, <1>11
    <3> HIDE DEF less
    <3> QED BY <1>10, <3>1
  <2>2. g[U] = G[<<sol(less(U))[less(U)], c[U]>>]
    BY <1>7, <1>11
  <2> HIDE DEF less
  <2> QED BY <2>1, <2>2
<1>12. Sol(g, m)
  BY <1>9, <1>11
<1> QED BY <1>4, <1>12

-----------------------------------------------------------------------------
(* One walk.                                                                 *)

\* The replies and what each answers.
ParentsOK == EventConstants /\ parent \in [Replies -> Replies \cup {None}]

\* What a walk from s has come to: it has walked each reply once, along what they
\* answer, and has stopped for a reason or goes on.
Walks(S, done, s) ==
  {w \in [at : Replies \cup {None}, path : Seq(Answering(S)), loop : SUBSET Answering(S),
          over : BOOLEAN] :
     /\ \A i \in 1..Len(w.path) : w.path[i] \notin done
     /\ \A i, j \in 1..Len(w.path) : w.path[i] = w.path[j] => i = j
     /\ \A i \in 1..Len(w.path) :
          parent[w.path[i]] = IF i = Len(w.path) THEN w.at ELSE w.path[i + 1]
     /\ IF Len(w.path) = 0 THEN w.at = s ELSE w.path[1] = s
     /\ w.over => \/ w.at \notin Answering(S) \ done /\ w.loop = {}
                  \/ w.at \in Range(w.path) /\ w.loop = LoopAt(w.path, w.at)
     /\ ~w.over => w.loop = {}}

\* One hop of a walk is a walk.
LEMMA HopWalks ==
  ASSUME ParentsOK, NEW S \in SUBSET Replies, NEW done, NEW s, NEW w \in Walks(S, done, s)
  PROVE  Hop(S, done, w) \in Walks(S, done, s)
<1> DEFINE A == Answering(S)
<1>1. /\ w \in [at : Replies \cup {None}, path : Seq(A), loop : SUBSET A, over : BOOLEAN]
      /\ \A i \in 1..Len(w.path) : w.path[i] \notin done
      /\ \A i, j \in 1..Len(w.path) : w.path[i] = w.path[j] => i = j
      /\ \A i \in 1..Len(w.path) :
           parent[w.path[i]] = IF i = Len(w.path) THEN w.at ELSE w.path[i + 1]
      /\ IF Len(w.path) = 0 THEN w.at = s ELSE w.path[1] = s
      /\ w.over => \/ w.at \notin A \ done /\ w.loop = {}
                   \/ w.at \in Range(w.path) /\ w.loop = LoopAt(w.path, w.at)
      /\ ~w.over => w.loop = {}
  BY DEF Walks
<1>2. A \subseteq Replies /\ \A q \in A : parent[q] \in Replies \cup {None}
  BY DEF Answering, ParentsOK
<1>3. PICK v : v = Hop(S, done, w)
  OBVIOUS
<1>4. Len(w.path) \in Nat /\ DOMAIN w.path = 1..Len(w.path)
      /\ \A i \in 1..Len(w.path) : w.path[i] \in A
  BY <1>1
<1>5. CASE w.over
  <2>1. v = [w EXCEPT !.over = TRUE]
    BY <1>3, <1>5 DEF Hop
  <2>2. v = w
    BY <1>1, <1>5, <2>1
  <2> QED BY <1>3, <2>2
<1>6. CASE ~w.over /\ w.at \notin A \ done
  <2>1. v = [w EXCEPT !.over = TRUE]
    BY <1>3, <1>6 DEF Hop
  <2>2. /\ v \in [at : Replies \cup {None}, path : Seq(A), loop : SUBSET A, over : BOOLEAN]
        /\ v.at = w.at /\ v.path = w.path /\ v.loop = w.loop /\ v.over
    BY <1>1, <2>1
  <2> HIDE DEF A
  <2>3. v \in Walks(S, done, s)
    BY <1>1, <1>6, <2>2 DEF Walks, A
  <2> QED BY <1>3, <2>3
<1>7. CASE ~w.over /\ w.at \in A \ done /\ w.at \in Range(w.path)
  <2>1. v = [w EXCEPT !.over = TRUE, !.loop = LoopAt(w.path, w.at)]
    BY <1>3, <1>7 DEF Hop
  <2>2. LoopAt(w.path, w.at) \in SUBSET A
    BY <1>4 DEF LoopAt
  <2>3. /\ v \in [at : Replies \cup {None}, path : Seq(A), loop : SUBSET A, over : BOOLEAN]
        /\ v.at = w.at /\ v.path = w.path /\ v.loop = LoopAt(w.path, w.at) /\ v.over
    BY <1>1, <2>1, <2>2
  <2> HIDE DEF A
  <2>4. v \in Walks(S, done, s)
    BY <1>1, <1>7, <2>3 DEF Walks, A
  <2> QED BY <1>3, <2>4
<1>8. CASE ~w.over /\ w.at \in A \ done /\ w.at \notin Range(w.path)
  <2>1. v = [w EXCEPT !.path = Append(@, w.at), !.at = parent[w.at]]
    BY <1>3, <1>8 DEF Hop
  <2> DEFINE n == Len(w.path)
  <2>2. PICK p : p = Append(w.path, w.at)
    OBVIOUS
  <2> HIDE DEF A
  <2>3. /\ p \in Seq(A) /\ Len(p) = n + 1 /\ p[n + 1] = w.at
        /\ \A i \in 1..n : p[i] = w.path[i]
    BY <1>1, <1>8, <2>2
  <2>4. parent[w.at] \in Replies \cup {None}
    BY <1>2, <1>8
  <2>5. /\ v \in [at : Replies \cup {None}, path : Seq(A), loop : SUBSET A, over : BOOLEAN]
        /\ v.at = parent[w.at] /\ v.path = p /\ v.loop = w.loop /\ v.over = w.over
    BY <1>1, <2>1, <2>2, <2>3, <2>4
  <2>6. \A i \in 1..n : w.path[i] # w.at
    BY <1>4, <1>8 DEF Range
  <2>7. \A i \in 1..(n + 1) : p[i] \notin done
    BY <1>1, <1>4, <1>8, <2>3
  <2>8. \A i, j \in 1..(n + 1) : p[i] = p[j] => i = j
    BY <1>1, <1>4, <2>3, <2>6
  <2>9. \A i \in 1..(n + 1) : parent[p[i]] = IF i = n + 1 THEN v.at ELSE p[i + 1]
    <3> TAKE i \in 1..(n + 1)
    <3>1. CASE i = n + 1
      BY <2>3, <2>5, <3>1
    <3>2. CASE i = n
      BY <1>1, <1>4, <2>3, <3>2
    <3>3. CASE i # n /\ i # n + 1
      <4>1. i \in 1..n /\ i + 1 \in 1..n
        BY <1>4, <3>3
      <4> QED BY <1>1, <2>3, <3>3, <4>1
    <3> QED BY <3>1, <3>2, <3>3
  <2>10. p[1] = s
    BY <1>1, <1>4, <2>3
  <2>11. v \in Walks(S, done, s)
    BY <1>1, <1>4, <1>8, <2>3, <2>5, <2>7, <2>8, <2>9, <2>10 DEF Walks, A
  <2> QED BY <1>3, <2>11
<1> QED BY <1>1, <1>5, <1>6, <1>7, <1>8

\* At first a walk has gone nowhere.
LEMMA StartWalks ==
  ASSUME ParentsOK, NEW S \in SUBSET Replies, NEW done, NEW s \in Answering(S)
  PROVE  AtStart(s) \in Walks(S, done, s) /\ Len(AtStart(s).path) = 0
<1>1. s \in Replies
  BY DEF Answering
<1>2. <<>> \in Seq(Answering(S)) /\ Len(<<>>) = 0
  OBVIOUS
<1> QED BY <1>1, <1>2 DEF AtStart, Walks

\* A walk that has not stopped has gone a hop further.
LEMMA HopCounts ==
  ASSUME ParentsOK, NEW S \in SUBSET Replies, NEW done, NEW s, NEW w \in Walks(S, done, s)
  PROVE  Hop(S, done, w).over \/ (~w.over /\ Len(Hop(S, done, w).path) = Len(w.path) + 1)
<1>1. w \in [at : Replies \cup {None}, path : Seq(Answering(S)), loop : SUBSET Answering(S),
             over : BOOLEAN]
  BY DEF Walks
<1>2. CASE w.over \/ w.at \notin Answering(S) \ done
  BY <1>1, <1>2 DEF Hop
<1>3. CASE ~w.over /\ w.at \in Answering(S) \ done /\ w.at \in Range(w.path)
  BY <1>1, <1>3 DEF Hop
<1>4. CASE ~w.over /\ w.at \in Answering(S) \ done /\ w.at \notin Range(w.path)
  <2>1. Hop(S, done, w) = [w EXCEPT !.path = Append(@, w.at), !.at = parent[w.at]]
    BY <1>4 DEF Hop
  <2>2. Hop(S, done, w).path = Append(w.path, w.at)
    BY <1>1, <2>1
  <2>3. Len(Append(w.path, w.at)) = Len(w.path) + 1
    BY <1>1, <1>4
  <2> QED BY <1>4, <2>2, <2>3
<1> QED BY <1>2, <1>3, <1>4

\* A path of a walk is no longer than there are replies.
LEMMA PathShort ==
  ASSUME ParentsOK, NEW S \in SUBSET Replies, NEW done, NEW s, NEW w \in Walks(S, done, s)
  PROVE  Len(w.path) \in Nat /\ Len(w.path) <= Cardinality(S)
<1>1. w.path \in Seq(Answering(S)) /\ \A i, j \in 1..Len(w.path) : w.path[i] = w.path[j] => i = j
  BY DEF Walks
<1>2. Len(w.path) \in Nat
  BY <1>1
<1>3. \A i \in 1..Len(w.path) : w.path[i] \in S
  BY <1>1 DEF Answering
<1>4. PICK f : f = [i \in 1..Len(w.path) |-> w.path[i]]
  OBVIOUS
<1>5. f \in Injection(1..Len(w.path), S)
  BY <1>1, <1>3, <1>4 DEF Injection, IsInjective
<1>6. IsFiniteSet(S)
  BY FS_Subset DEF ParentsOK, EventConstants
<1>7. Cardinality(1..Len(w.path)) <= Cardinality(S)
  BY <1>5, <1>6, FS_Injection
<1>8. Cardinality(1..Len(w.path)) = Len(w.path)
  BY <1>2, FS_Interval
<1> QED BY <1>2, <1>7, <1>8

\* What WalkFrom returns is a walk, which stopped if the hops were enough.
LEMMA WalkStops ==
  ASSUME ParentsOK, NEW S \in SUBSET Replies, NEW done, NEW s \in Answering(S)
  PROVE  /\ WalkFrom(S, done, s) \in Walks(S, done, s)
         /\ Cardinality(S) < MaxHops => WalkFrom(S, done, s).over
<1> DEFINE walk[i \in 0..MaxHops] == IF i = 0 THEN AtStart(s) ELSE Hop(S, done, walk[i - 1])
           V == Walks(S, done, s)
<1>1. MaxHops \in Nat
  BY DEF ParentsOK, EventConstants
<1>2. WalkFrom(S, done, s) = walk[MaxHops]
  BY DEF WalkFrom
<1>3. \E f : f = [i \in 0..MaxHops |-> IF i = 0 THEN AtStart(s) ELSE Hop(S, done, f[i - 1])]
  <2>1. AtStart(s) \in V
    BY StartWalks
  <2>2. PICK G : G = [w \in V |-> Hop(S, done, w)]
    OBVIOUS
  <2>3. G \in [V -> V]
    BY <2>2, HopWalks
  <2> HIDE DEF V
  <2>4. PICK g : Iterates(g, MaxHops, V, AtStart(s), G)
    BY <1>1, <2>1, <2>3, Iterated
  <2>5. ASSUME NEW i \in 0..MaxHops, i # 0 PROVE g[i] = Hop(S, done, g[i - 1])
    <3>1. i \in 1..MaxHops /\ i - 1 \in 0..MaxHops
      BY <1>1, <2>5
    <3> QED BY <2>2, <2>4, <3>1 DEF Iterates
  <2>6. g = [i \in 0..MaxHops |-> IF i = 0 THEN AtStart(s) ELSE Hop(S, done, g[i - 1])]
    BY <2>4, <2>5 DEF Iterates
  <2> QED BY <2>6
<1>4. walk = [i \in 0..MaxHops |-> IF i = 0 THEN AtStart(s) ELSE Hop(S, done, walk[i - 1])]
  BY <1>3
<1> HIDE DEF walk
<1> DEFINE Good(i) == walk[i] \in V /\ (walk[i].over \/ Len(walk[i].path) = i)
           B == {i \in 0..MaxHops : ~Good(i)}
<1>5. B = {}
  <2>1. SUFFICES ASSUME B # {} PROVE FALSE
    OBVIOUS
  <2>2. B \in SUBSET Nat
    BY <1>1
  <2>3. PICK m \in B : \A k \in B : m <= k
    <3> HIDE DEF B
    <3> QED BY <2>1, <2>2, Least
  <2>4. m \in 0..MaxHops /\ ~Good(m)
    OBVIOUS
  <2>5. Good(0)
    BY <1>1, <1>4, StartWalks
  <2>6. m # 0 /\ m \in Nat /\ m - 1 \in 0..MaxHops /\ ~(m <= m - 1)
    BY <1>1, <2>4, <2>5
  <2>7. Good(m - 1)
    BY <2>3, <2>6
  <2>8. walk[m] = Hop(S, done, walk[m - 1])
    BY <1>4, <2>4, <2>6
  <2> QED BY <2>4, <2>6, <2>7, <2>8, HopWalks, HopCounts
<1>6. Good(MaxHops)
  BY <1>1, <1>5
<1>7. Cardinality(S) < MaxHops => walk[MaxHops].over
  <2>1. Len(walk[MaxHops].path) \in Nat /\ Len(walk[MaxHops].path) <= Cardinality(S)
    BY <1>6, PathShort
  <2>2. Cardinality(S) \in Nat
    BY FS_Subset, FS_CardinalityType DEF ParentsOK, EventConstants
  <2> QED BY <1>1, <1>6, <2>1, <2>2
<1> QED BY <1>2, <1>6, <1>7

-----------------------------------------------------------------------------
(* The search.                                                               *)

\* Sets of replies that answer exactly each other; InLoops is their union.
LoopSets(S) == {C \in SUBSET Answering(S) : {parent[q] : q \in C} = C}

\* The part of a path from the reply where it comes back to itself is such a set.
LEMMA LoopCloses ==
  ASSUME ParentsOK, NEW S \in SUBSET Replies, NEW done, NEW s, NEW w \in Walks(S, done, s),
         w.at \in Range(w.path)
  PROVE  LoopAt(w.path, w.at) \in LoopSets(S)
<1> DEFINE n == Len(w.path)
           C == LoopAt(w.path, w.at)
<1>1. /\ w.path \in Seq(Answering(S)) /\ n \in Nat /\ DOMAIN w.path = 1..n
      /\ \A i, j \in 1..n : w.path[i] = w.path[j] => i = j
      /\ \A i \in 1..n : parent[w.path[i]] = IF i = n THEN w.at ELSE w.path[i + 1]
  BY DEF Walks
<1>2. PICK k \in 1..n : w.path[k] = w.at
  BY <1>1 DEF Range
<1>3. \A j \in 1..n : (\E l \in 1..j : w.path[l] = w.at) <=> k <= j
  <2>1. ASSUME NEW j \in 1..n, NEW l \in 1..j, w.path[l] = w.at PROVE k <= j
    <3>1. l \in 1..n /\ l <= j
      BY <1>1
    <3>2. l = k
      BY <1>1, <1>2, <2>1, <3>1
    <3> QED BY <3>1, <3>2
  <2>2. ASSUME NEW j \in 1..n, k <= j PROVE k \in 1..j
    BY <1>1, <1>2, <2>2
  <2> QED BY <1>2, <2>1, <2>2
<1>4. C = {w.path[i] : i \in {j \in 1..n : k <= j}}
  <2>1. {j \in DOMAIN w.path : \E l \in 1..j : w.path[l] = w.at} = {j \in 1..n : k <= j}
    BY <1>1, <1>3
  <2> QED BY <2>1 DEF LoopAt
<1>5. C \in SUBSET Answering(S)
  BY <1>1, <1>4
<1>6. ASSUME NEW i \in 1..n, k <= i PROVE parent[w.path[i]] \in C
  <2>1. CASE i = n
    BY <1>1, <1>2, <1>4, <1>6, <2>1
  <2>2. CASE i # n
    <3>1. i + 1 \in 1..n /\ k <= i + 1
      BY <1>1, <1>6, <2>2
    <3> QED BY <1>1, <1>4, <2>2, <3>1
  <2> QED BY <2>1, <2>2
<1>7. ASSUME NEW i \in 1..n, k <= i PROVE \E j \in 1..n : k <= j /\ parent[w.path[j]] = w.path[i]
  <2>1. CASE i = k
    <3>1. n \in 1..n /\ k <= n
      BY <1>1
    <3> QED BY <1>1, <1>2, <2>1, <3>1
  <2>2. CASE i # k
    <3>1. i - 1 \in 1..n /\ k <= i - 1 /\ i - 1 # n /\ (i - 1) + 1 = i
      BY <1>1, <1>7, <2>2
    <3>2. parent[w.path[i - 1]] = w.path[(i - 1) + 1]
      BY <1>1, <3>1
    <3> QED BY <3>1, <3>2
  <2> QED BY <2>1, <2>2
<1> HIDE DEF C
<1>8. \A q \in C : parent[q] \in C
  BY <1>4, <1>6
<1>9. ASSUME NEW q \in C PROVE \E p \in C : parent[p] = q
  <2>1. PICK i \in 1..n : k <= i /\ q = w.path[i]
    BY <1>4
  <2>2. PICK j \in 1..n : k <= j /\ parent[w.path[j]] = q
    BY <1>7, <2>1
  <2>3. w.path[j] \in C
    BY <1>4, <2>2
  <2> QED BY <2>2, <2>3
<1> QED BY <1>5, <1>8, <1>9 DEF LoopSets, C

\* All circles together are such a set, and so are two together.
LEMMA LoopsJoin ==
  ASSUME NEW S
  PROVE  /\ InLoops(S) \in LoopSets(S)
         /\ \A C \in LoopSets(S) : C \subseteq InLoops(S)
         /\ \A C, D \in LoopSets(S) : C \cup D \in LoopSets(S)
<1>1. InLoops(S) = UNION LoopSets(S)
  BY DEF InLoops, LoopSets
<1>2. \A C \in LoopSets(S) :
        C \subseteq Answering(S) /\ (\A q \in C : parent[q] \in C) /\ \A q \in C : \E p \in C : parent[p] = q
  BY DEF LoopSets
<1>3. \A C \in SUBSET Answering(S) :
        (\A q \in C : parent[q] \in C) /\ (\A q \in C : \E p \in C : parent[p] = q) => C \in LoopSets(S)
  BY DEF LoopSets
<1> QED BY <1>1, <1>2, <1>3

\* In such a set no two replies answer the same one.
LEMMA LoopsInjective ==
  ASSUME ParentsOK, NEW S \in SUBSET Replies, NEW C \in LoopSets(S),
         NEW p \in C, NEW q \in C, parent[p] = parent[q]
  PROVE  p = q
<1>1. IsFiniteSet(C)
  <2>1. C \in SUBSET Replies
    BY DEF LoopSets, Answering
  <2> QED BY <2>1, FS_Subset DEF ParentsOK, EventConstants
<1>2. PICK f : f = [r \in C |-> parent[r]]
  OBVIOUS
<1>3. f \in Surjection(C, C)
  BY <1>2 DEF LoopSets, Surjection
<1>4. f \in Injection(C, C)
  BY <1>1, <1>3, FS_SurjSameCardinalityImpliesInj
<1>5. f[p] = f[q]
  BY <1>2
<1> QED BY <1>4, <1>5 DEF Injection, IsInjective

\* What the visits so far have found: whole circles of visited replies, and if the hops
\* are enough every one that a visited reply is part of.
Founds(S) ==
  {f \in [done : SUBSET Answering(S), loops : SUBSET Answering(S)] :
     /\ f.loops \in LoopSets(S)
     /\ f.loops \subseteq f.done
     /\ Cardinality(S) < MaxHops => f.done \cap InLoops(S) \subseteq f.loops}

\* A walk among replies not visited before that comes to one in a circle has gone round it.
LEMMA WalkGoesRound ==
  ASSUME ParentsOK, NEW S \in SUBSET Replies, NEW f \in Founds(S), NEW s,
         NEW w \in Walks(S, f.done, s), w.over, Cardinality(S) < MaxHops,
         NEW q \in Range(w.path) \cap InLoops(S)
  PROVE  q \in w.loop
<1> DEFINE n == Len(w.path)
           I == InLoops(S)
<1>1. /\ n \in Nat /\ DOMAIN w.path = 1..n
      /\ \A i \in 1..n : w.path[i] \notin f.done
      /\ \A i, j \in 1..n : w.path[i] = w.path[j] => i = j
      /\ \A i \in 1..n : parent[w.path[i]] = IF i = n THEN w.at ELSE w.path[i + 1]
      /\ \/ w.at \notin Answering(S) \ f.done /\ w.loop = {}
         \/ w.at \in Range(w.path) /\ w.loop = LoopAt(w.path, w.at)
  BY DEF Walks
<1>2. /\ I \in LoopSets(S) /\ f.loops \in LoopSets(S) /\ f.loops \subseteq I
      /\ f.loops \subseteq f.done /\ f.done \cap I \subseteq f.loops
  BY LoopsJoin DEF Founds
<1> HIDE DEF I
<1>3. (\A p \in I : parent[p] \in I) /\ I \subseteq Answering(S)
      /\ \A p \in f.loops : \E r \in f.loops : parent[r] = p
  BY <1>2 DEF LoopSets
<1>4. \A p, r \in I : parent[p] = parent[r] => p = r
  BY <1>2, LoopsInjective
<1>5. PICK i \in 1..n : w.path[i] = q
  BY <1>1 DEF Range
<1>6. \A j \in i..n : w.path[j] \in I
  <2> DEFINE B == {j \in i..n : w.path[j] \notin I}
  <2>1. SUFFICES ASSUME B # {} PROVE FALSE
    OBVIOUS
  <2>2. PICK m \in B : \A k \in B : m <= k
    <3>1. B \in SUBSET Nat
      BY <1>1, <1>5
    <3> HIDE DEF B
    <3> QED BY <2>1, <3>1, Least
  <2>3. m \in i..n /\ w.path[m] \notin I /\ m # i
    BY <1>5 DEF I
  <2>4. m - 1 \in i..n /\ m - 1 \in 1..n /\ m - 1 # n /\ (m - 1) + 1 = m /\ ~(m <= m - 1)
    BY <1>1, <1>5, <2>3
  <2>5. w.path[m - 1] \in I
    BY <2>2, <2>4
  <2>6. parent[w.path[m - 1]] = w.path[(m - 1) + 1]
    BY <1>1, <2>4
  <2> QED BY <1>3, <2>3, <2>4, <2>5, <2>6
<1>7. n \in 1..n /\ w.path[n] \in I /\ parent[w.path[n]] = w.at
  BY <1>1, <1>5, <1>6
<1>8. w.at \in I /\ w.at \in Answering(S)
  BY <1>3, <1>7
<1>9. w.at \notin f.done
  <2>1. SUFFICES ASSUME w.at \in f.loops PROVE FALSE
    BY <1>2, <1>8
  <2>2. PICK r \in f.loops : parent[r] = w.at
    BY <1>3, <2>1
  <2>3. r = w.path[n]
    BY <1>2, <1>4, <1>7, <2>2
  <2> QED BY <1>1, <1>2, <1>7, <2>2, <2>3
<1>10. w.at \in Range(w.path) /\ w.loop = LoopAt(w.path, w.at)
  BY <1>1, <1>8, <1>9
<1>11. PICK k \in 1..n : w.path[k] = w.at
  BY <1>1, <1>10 DEF Range
<1>12. k <= i
  <2>1. SUFFICES ASSUME ~(k <= i) PROVE FALSE
    OBVIOUS
  <2>2. k - 1 \in i..n /\ k - 1 \in 1..n /\ k - 1 # n /\ (k - 1) + 1 = k
    BY <1>1, <1>5, <1>11, <2>1
  <2>3. w.path[k - 1] \in I /\ parent[w.path[k - 1]] = w.path[(k - 1) + 1]
    BY <1>1, <1>6, <2>2
  <2>4. w.path[k - 1] = w.path[n]
    BY <1>4, <1>7, <1>11, <2>2, <2>3
  <2> QED BY <1>1, <1>7, <2>2, <2>4
<1>13. k \in 1..i
  BY <1>1, <1>5, <1>11, <1>12
<1>14. i \in DOMAIN w.path /\ \E l \in 1..i : w.path[l] = w.at
  BY <1>1, <1>5, <1>11, <1>13
<1>15. w.path[i] \in LoopAt(w.path, w.at)
  BY <1>14 DEF LoopAt
<1> QED BY <1>5, <1>10, <1>15

\* One more visit finds as much, and does not forget what was visited.
LEMMA VisitFounds ==
  ASSUME ParentsOK, NEW S \in SUBSET Replies, NEW f \in Founds(S), NEW s \in Answering(S)
  PROVE  /\ Visit(S, f, s) \in Founds(S)
         /\ f.done \subseteq Visit(S, f, s).done
         /\ Cardinality(S) < MaxHops => s \in Visit(S, f, s).done
<1> DEFINE v == Visit(S, f, s)
<1>1. CASE s \in f.done
  BY <1>1 DEF Visit
<1>2. CASE s \notin f.done
  <2>1. PICK w : w = WalkFrom(S, f.done, s)
    OBVIOUS
  <2>2. w \in Walks(S, f.done, s) /\ (Cardinality(S) < MaxHops => w.over)
    BY <2>1, WalkStops
  <2>3. v = [done |-> f.done \cup Range(w.path), loops |-> f.loops \cup w.loop]
    BY <1>2, <2>1 DEF Visit
  <2>4. /\ w.path \in Seq(Answering(S)) /\ Len(w.path) \in Nat
        /\ w.loop = {} \/ (w.at \in Range(w.path) /\ w.loop = LoopAt(w.path, w.at))
        /\ Len(w.path) = 0 => w.at = s
        /\ Len(w.path) # 0 => w.path[1] = s
        /\ w.over => w.at \notin Answering(S) \ f.done \/ w.at \in Range(w.path)
    BY <2>2 DEF Walks
  <2>5. Range(w.path) \subseteq Answering(S) /\ \A i \in 1..Len(w.path) : w.path[i] \in Range(w.path)
    BY <2>4 DEF Range
  <2>6. w.loop \subseteq Range(w.path)
    BY <2>4 DEF LoopAt, Range
  <2>7. /\ f \in [done : SUBSET Answering(S), loops : SUBSET Answering(S)]
        /\ f.loops \in LoopSets(S) /\ f.loops \subseteq f.done
        /\ Cardinality(S) < MaxHops => f.done \cap InLoops(S) \subseteq f.loops
    BY DEF Founds
  <2>8. f.loops \cup w.loop \in LoopSets(S)
    <3>1. CASE w.loop = {}
      <4>1. f.loops \cup w.loop = f.loops
        BY <3>1
      <4> QED BY <2>7, <4>1
    <3>2. CASE w.at \in Range(w.path) /\ w.loop = LoopAt(w.path, w.at)
      <4>1. w.loop \in LoopSets(S)
        BY <2>2, <3>2, LoopCloses
      <4> QED BY <2>7, <4>1, LoopsJoin
    <3> QED BY <2>4, <3>1, <3>2
  <2>9. ASSUME Cardinality(S) < MaxHops, NEW q \in Range(w.path) \cap InLoops(S) PROVE q \in w.loop
    BY <2>2, <2>9, WalkGoesRound
  <2>10. ASSUME Cardinality(S) < MaxHops PROVE s \in Range(w.path)
    <3>1. CASE Len(w.path) = 0
      <4>1. Range(w.path) = {}
        BY <2>4, <3>1 DEF Range
      <4> QED BY <1>2, <2>2, <2>4, <2>10, <3>1, <4>1
    <3>2. CASE Len(w.path) # 0
      <4>1. 1 \in 1..Len(w.path)
        BY <2>4, <3>2
      <4> QED BY <2>4, <2>5, <3>2, <4>1
    <3> QED BY <3>1, <3>2
  <2>11. v \in [done : SUBSET Answering(S), loops : SUBSET Answering(S)]
    BY <2>3, <2>5, <2>6, <2>7
  <2>12. v.done = f.done \cup Range(w.path) /\ v.loops = f.loops \cup w.loop
    BY <2>3
  <2> HIDE DEF v
  <2>13. v \in Founds(S)
    BY <2>6, <2>7, <2>8, <2>9, <2>11, <2>12 DEF Founds
  <2>14. f.done \subseteq v.done /\ (Cardinality(S) < MaxHops => s \in v.done)
    BY <2>10, <2>12
  <2> QED BY <2>13, <2>14 DEF v
<1> QED BY <1>1, <1>2

\* The largest reply of some.
LEMMA MaxOf ==
  ASSUME EventConstants, NEW T \in SUBSET Replies, T # {}
  PROVE  Max(T) \in T
<1>1. IsFiniteSet(T) /\ T \subseteq Nat
  BY FS_Subset DEF EventConstants
<1>2. PICK after : after = [x \in T |-> {y \in T : x < y}]
  OBVIOUS
<1>3. /\ after \in [T -> SUBSET T]
      /\ \A x \in T : x \notin after[x]
      /\ \A x \in T : \A y \in after[x] : after[y] \subseteq after[x]
  <2>1. after \in [T -> SUBSET T] /\ \A x \in T : x \notin after[x]
    BY <1>1, <1>2
  <2>2. ASSUME NEW x \in T, NEW y \in after[x], NEW z \in after[y] PROVE z \in after[x]
    <3>1. y \in T /\ z \in T /\ x < y /\ y < z /\ {x, y, z} \subseteq Nat
      BY <1>1, <1>2, <2>1, <2>2
    <3>2. x < z
      BY <3>1
    <3> QED BY <1>2, <3>1, <3>2
  <2> QED BY <2>1, <2>2
<1>4. PICK x \in T : after[x] = {}
  BY <1>1, <1>3, LastOf
<1>5. \A y \in T : x >= y
  BY <1>1, <1>2, <1>4
<1> QED BY <1>4, <1>5 DEF Max

\* The search for circles, among any replies, finds circles only, and if there are more
\* hops than replies it finds them all, wherever its walks begin and end.
LEMMA SearchFinds ==
  ASSUME ParentsOK, NEW S \in SUBSET Replies
  PROVE  /\ FindReplyCycles(S) \subseteq InLoops(S)
         /\ Cardinality(S) < MaxHops => FindReplyCycles(S) = InLoops(S)
<1> DEFINE A == Answering(S)
           None0 == [done |-> {}, loops |-> {}]
           found[T \in SUBSET A] ==
             IF T = {} THEN None0 ELSE LET s == Max(T) IN Visit(S, found[T \ {s}], s)
           F == Founds(S)
<1>1. A \in SUBSET Replies /\ IsFiniteSet(A)
  BY FS_Subset DEF Answering, ParentsOK, EventConstants
<1>2. FindReplyCycles(S) = found[A].loops
  BY DEF FindReplyCycles
<1>3. ASSUME NEW T \in SUBSET A, T # {} PROVE Max(T) \in T /\ Max(T) \in A /\ T \ {Max(T)} \in SUBSET A
  BY <1>1, <1>3, MaxOf DEF ParentsOK
<1>4. None0 \in F
  BY DEF Founds, LoopSets
<1>5. \E g : g = [T \in SUBSET A |->
                    IF T = {} THEN None0 ELSE LET s == Max(T) IN Visit(S, g[T \ {s}], s)]
  <2>1. PICK c : c = [T \in SUBSET A |-> Max(T)]
    OBVIOUS
  <2>2. \A T \in SUBSET A : T # {} => c[T] \in T
    BY <1>3, <2>1
  <2>3. PICK G : G = [p \in F \X A |-> Visit(S, p[1], p[2])]
    OBVIOUS
  <2>4. G \in [F \X A -> F]
    BY <2>3, VisitFounds
  <2> HIDE DEF A, F, None0
  <2>5. PICK g : Adds(g, A, F, None0, G, c)
    BY <1>1, <1>4, <2>2, <2>4, BySubsets
  <2>6. ASSUME NEW T \in SUBSET A, T # {} PROVE g[T] = Visit(S, g[T \ {Max(T)}], Max(T))
    <3>1. g[T] = G[<<g[T \ {Max(T)}], Max(T)>>]
      BY <2>1, <2>5, <2>6 DEF Adds
    <3>2. <<g[T \ {Max(T)}], Max(T)>> \in F \X A
      BY <1>3, <2>5, <2>6 DEF Adds
    <3> QED BY <2>3, <3>1, <3>2
  <2>7. g = [T \in SUBSET A |->
               IF T = {} THEN None0 ELSE LET s == Max(T) IN Visit(S, g[T \ {s}], s)]
    BY <2>5, <2>6 DEF Adds
  <2> QED BY <2>7
<1>6. found = [T \in SUBSET A |->
                 IF T = {} THEN None0 ELSE LET s == Max(T) IN Visit(S, found[T \ {s}], s)]
  <2> HIDE DEF A, None0
  <2> QED BY <1>5
<1> HIDE DEF found
<1> DEFINE Good(T) == found[T] \in F /\ (Cardinality(S) < MaxHops => T \subseteq found[T].done)
           B == {T \in SUBSET A : ~Good(T)}
<1>7. B = {}
  <2>1. SUFFICES ASSUME B # {} PROVE FALSE
    OBVIOUS
  <2>2. B \in SUBSET (SUBSET A)
    OBVIOUS
  <2>3. PICK T \in B : \A U \in B : U \subseteq T => U = T
    <3> HIDE DEF B
    <3> QED BY <1>1, <2>1, <2>2, Smallest
  <2>4. T \in SUBSET A /\ ~Good(T)
    OBVIOUS
  <2>5. T # {}
    <3> HIDE DEF A, F, None0
    <3>1. found[{}] = None0
      BY <1>6
    <3> QED BY <1>4, <2>4, <3>1
  <2> DEFINE s == Max(T)
             U == T \ {s}
  <2>6. s \in T /\ s \in A /\ U \in SUBSET A
    BY <1>3, <2>4, <2>5
  <2>7. U \notin B
    BY <2>3, <2>6
  <2>8. Good(U)
    BY <2>6, <2>7
  <2>9. found[T] = Visit(S, found[U], s)
    <3> HIDE DEF A, None0
    <3> QED BY <1>6, <2>4, <2>5
  <2> HIDE DEF s, U
  <2>10. /\ found[T] \in F /\ found[U].done \subseteq found[T].done
         /\ Cardinality(S) < MaxHops => s \in found[T].done
    BY <2>6, <2>8, <2>9, VisitFounds
  <2>11. T = U \cup {s}
    BY <2>6 DEF U
  <2> QED BY <2>4, <2>8, <2>10, <2>11
<1>8. Good(A)
  BY <1>7
<1>9. /\ found[A].loops \in LoopSets(S) /\ found[A].done \subseteq A
      /\ Cardinality(S) < MaxHops => A \cap InLoops(S) \subseteq found[A].loops
  <2>1. found[A] \in Founds(S)
    BY <1>8
  <2>2. /\ found[A].loops \in LoopSets(S) /\ found[A].done \subseteq A
        /\ Cardinality(S) < MaxHops => found[A].done \cap InLoops(S) \subseteq found[A].loops
    BY <2>1 DEF Founds
  <2> QED BY <1>8, <2>2
<1>10. found[A].loops \subseteq InLoops(S)
  BY <1>9, LoopsJoin
<1>11. InLoops(S) \subseteq A
  BY LoopsJoin DEF LoopSets
<1> QED BY <1>2, <1>9, <1>10, <1>11

-----------------------------------------------------------------------------
(* One page.                                                                 *)

\* The replies and their dates.
DatesOK == EventConstants /\ time \in [Replies -> 1..MaxTime]

\* Replies are in one order, by second and then by id.
LEMMA Ordered ==
  ASSUME DatesOK
  PROVE  /\ \A q \in Replies : ~Before(q, q)
         /\ \A q, r, s \in Replies : Before(q, r) /\ Before(r, s) => Before(q, s)
         /\ \A q, r \in Replies : q # r => Before(q, r) \/ Before(r, q)
<1>1. \A q \in Replies : q \in Nat /\ time[q] \in Nat
  BY DEF DatesOK, EventConstants
<1> QED BY <1>1 DEF Before

\* Some replies have an earliest one, and a latest.
LEMMA Ends ==
  ASSUME DatesOK, NEW T \in SUBSET Replies, T # {}
  PROVE  /\ \E r \in T : \A q \in T \ {r} : Before(r, q)
         /\ \E r \in T : \A q \in T \ {r} : Before(q, r)
<1>1. IsFiniteSet(T)
  BY FS_Subset DEF DatesOK, EventConstants
<1>2. PICK before : before = [x \in T |-> {y \in T : Before(y, x)}]
  OBVIOUS
<1>3. PICK after : after = [x \in T |-> {y \in T : Before(x, y)}]
  OBVIOUS
<1>4. PICK x \in T : before[x] = {}
  <2>1. /\ before \in [T -> SUBSET T]
        /\ \A z \in T : z \notin before[z]
        /\ \A z \in T : \A y \in before[z] : before[y] \subseteq before[z]
    BY <1>2, Ordered
  <2> QED BY <1>1, <2>1, LastOf
<1>5. PICK w \in T : after[w] = {}
  <2>1. /\ after \in [T -> SUBSET T]
        /\ \A z \in T : z \notin after[z]
        /\ \A z \in T : \A y \in after[z] : after[y] \subseteq after[z]
    BY <1>3, Ordered
  <2> QED BY <1>1, <2>1, LastOf
<1>6. \E r \in T : \A q \in T \ {r} : Before(r, q)
  BY <1>2, <1>4, Ordered
<1>7. \E r \in T : \A q \in T \ {r} : Before(q, r)
  BY <1>3, <1>5, Ordered
<1> QED BY <1>6, <1>7

\* The latest n of some are none only if there are none.
LEMMA LatestSome ==
  ASSUME DatesOK, NEW T \in SUBSET Replies, T # {}, NEW n \in Nat \ {0}
  PROVE  Latest(T, n) # {} /\ Latest(T, n) \subseteq T
<1>1. PICK r \in T : \A q \in T \ {r} : Before(q, r)
  BY Ends
<1>2. {q \in T : Before(r, q)} = {}
  BY <1>1, Ordered
<1>3. Cardinality({q \in T : Before(r, q)}) < n
  BY <1>2, FS_EmptySet
<1>4. r \in Latest(T, n)
  BY <1>3 DEF Latest
<1> QED BY <1>4 DEF Latest

\* The replies that a page is made of.
Found(R, c) == UNION {Newest(holds[x] \cap Until(c), Limit + 1) : x \in R}
Whole(R, c) == {r \in Found(R, c) : parent[r] # r}
Kept(R, c) == {r \in Whole(R, c) \ FindReplyCycles(Whole(R, c)) : c = None \/ Before(r, c)}

\* A page holds some of them, and its cursor, if there is more, is the earliest.
LEMMA PageMade ==
  ASSUME EventConstants, TypeOK, NEW R \in SUBSET Relays, NEW c,
         NEW P, P = Page(R, c)
  PROVE  /\ P.items = Latest(Kept(R, c), Limit)
         /\ P.items \subseteq Kept(R, c)
         /\ Kept(R, c) \subseteq published /\ Kept(R, c) \in SUBSET Replies
         /\ P.hasMore = (Cardinality(Kept(R, c)) > Limit) /\ P.hasMore \in BOOLEAN
         /\ P.nextCursor \in Replies \cup {None}
         /\ P.nextCursor # None =>
              /\ P.hasMore /\ P.nextCursor \in P.items
              /\ \A q \in P.items \ {P.nextCursor} : Before(P.nextCursor, q)
<1> DEFINE K == Kept(R, c)
           n == Cardinality(K) > Limit
           G == Latest(K, Limit)
           N == IF n THEN CHOOSE r \in G : \A q \in G \ {r} : Before(r, q) ELSE None
<1>1. P = [items |-> G, hasMore |-> n, nextCursor |-> N]
  BY DEF Page, Kept, Whole, Found
<1>2. K \subseteq published /\ published \in SUBSET Replies
  <2>1. Found(R, c) \subseteq published
    BY DEF Found, Newest, Until
  <2> QED BY <2>1 DEF Kept, Whole, TypeOK
<1>3. G \subseteq K
  BY DEF Latest
<1>4. n => G # {}
  <2>1. SUFFICES ASSUME n PROVE G # {}
    OBVIOUS
  <2>2. K # {}
    <3>1. CASE K = {}
      BY <2>1, <3>1, FS_EmptySet DEF EventConstants
    <3> QED BY <3>1
  <2>3. K \in SUBSET Replies /\ Limit \in Nat \ {0} /\ DatesOK
    BY <1>2 DEF EventConstants, DatesOK, TypeOK
  <2> HIDE DEF K
  <2> QED BY <2>2, <2>3, LatestSome
<1>5. n => \E r \in G : \A q \in G \ {r} : Before(r, q)
  <2>1. SUFFICES ASSUME n PROVE \E r \in G : \A q \in G \ {r} : Before(r, q)
    OBVIOUS
  <2>2. DatesOK /\ G \in SUBSET Replies /\ G # {}
    BY <1>2, <1>3, <1>4, <2>1 DEF DatesOK, TypeOK
  <2> HIDE DEF G
  <2> QED BY <2>2, Ends
<1>6. None \notin Replies
  BY DEF EventConstants
<1>7. P.items = G /\ P.hasMore = n /\ P.nextCursor = N
  BY <1>1
<1>8. n \in BOOLEAN
  OBVIOUS
<1> HIDE DEF K, G, n
<1>9. n => N \in G /\ \A q \in G \ {N} : Before(N, q)
  BY <1>5
<1>10. ~n => N = None
  OBVIOUS
<1> HIDE DEF N
<1> QED BY <1>2, <1>3, <1>6, <1>7, <1>8, <1>9, <1>10 DEF K, G, n

-----------------------------------------------------------------------------
(* Types, and the search on the thread.                                      *)

\* The replies that the page may show, and its steps.
ShownReplies ==
  [status : {"idle", "loading", "ready", "error"}, items : SUBSET Replies,
   hasMore : BOOLEAN, nextCursor : Replies \cup {None},
   isLoadingMore : BOOLEAN, source : {"api", "relay", None}]

Steps == {"unused", "cache", "nostrdb", "api", "relays", "replies", "reply relays", "over"}

\* What is made of the replies of the API, of the relays and of none is shown.
LEMMA ShownTyped ==
  ASSUME EventConstants, TypeOK, NEW R \in SUBSET Relays
  PROVE  /\ Loading \in ShownReplies /\ Broken \in ShownReplies
         /\ FromRelays(R) \in ShownReplies
         /\ \A c \in Replies \cup {None} :
              /\ Page(R, c).items \in SUBSET Replies
              /\ FromApi(Page(R, c)) \in ShownReplies
<1>1. Loading \in ShownReplies /\ Broken \in ShownReplies
  BY DEF Loading, Broken, Shown, ShownReplies
<1>2. FromRelays(R) \in ShownReplies
  <2>1. UNION {Newest(holds[x] \cap published, Limit) : x \in R} \in SUBSET Replies
    <3>1. published \subseteq Replies
      BY DEF TypeOK
    <3>2. \A x \in R : Newest(holds[x] \cap published, Limit) \subseteq published
      BY DEF Newest
    <3> QED BY <3>1, <3>2
  <2>2. PICK items \in SUBSET Replies :
             items = UNION {Newest(holds[x] \cap published, Limit) : x \in R}
    BY <2>1
  <2>3. Shown("ready", items, FALSE, None, "relay") \in ShownReplies
    BY DEF Shown, ShownReplies
  <2>4. FromRelays(R) = Shown("ready", items, FALSE, None, "relay")
    BY <2>2 DEF FromRelays
  <2> QED BY <2>3, <2>4
<1>3. ASSUME NEW c \in Replies \cup {None}
      PROVE  Page(R, c).items \in SUBSET Replies /\ FromApi(Page(R, c)) \in ShownReplies
  <2>1. PICK P : P = Page(R, c)
    OBVIOUS
  <2>2. P.items \in SUBSET Replies /\ P.hasMore \in BOOLEAN /\ P.nextCursor \in Replies \cup {None}
    BY <2>1, PageMade
  <2>3. FromApi(P) \in ShownReplies
    BY <2>2 DEF FromApi, Shown, ShownReplies
  <2> QED BY <2>1, <2>2, <2>3
<1> QED BY <1>1, <1>2, <1>3

\* What the page may have in each of its variables.
PageTyped ==
  /\ step \in [Loads -> Steps]
  /\ current \in 0..MaxLoads
  /\ status \in {"idle", "loading", "ready", "error"}
  /\ replies \in ShownReplies
  /\ more \subseteq Replies
  /\ configured \in BOOLEAN /\ partial \in BOOLEAN /\ crossed \in BOOLEAN

\* The types are those of the page and of the thread.
LEMMA TypeParts ==
  TypeOK <=> /\ PageTyped
             /\ time \in [Replies -> 1..MaxTime]
             /\ parent \in [Replies -> Replies \cup {None}]
             /\ holds \in [Relays -> SUBSET Replies]
             /\ published \subseteq Replies
<1>1. {configured, partial, crossed} \subseteq BOOLEAN
        <=> configured \in BOOLEAN /\ partial \in BOOLEAN /\ crossed \in BOOLEAN
  OBVIOUS
<1> QED BY <1>1 DEF TypeOK, PageTyped, ShownReplies, Steps

\* At first every variable has its type.
LEMMA InitTyped == EventConstants /\ Init => TypeOK
<1> SUFFICES ASSUME EventConstants, Init PROVE TypeOK
  OBVIOUS
<1>1. Shown("idle", {}, FALSE, None, None) \in ShownReplies
  BY DEF Shown, ShownReplies
<1>2. step \in [Loads -> Steps]
  BY DEF Init, Steps
<1>3. 0 \in 0..MaxLoads
  BY DEF EventConstants
<1> QED BY <1>1, <1>2, <1>3, TypeParts DEF Init, PageTyped

\* A step keeps the types.
LEMMA NextTyped ==
  ASSUME EventConstants, TypeOK, [Next]_vars
  PROVE  TypeOK'
<1> USE DEF vars, thread
<1>1. /\ PageTyped
      /\ time \in [Replies -> 1..MaxTime]
      /\ parent \in [Replies -> Replies \cup {None}]
      /\ holds \in [Relays -> SUBSET Replies]
      /\ published \subseteq Replies
  BY TypeParts
<1>2. SUFFICES /\ PageTyped'
               /\ UNCHANGED thread
               /\ published' \subseteq Replies
  BY <1>1, TypeParts DEF TypeOK, PageTyped, ShownReplies, Steps
<1>3. \A l, s : Go(l, s) /\ s \in Steps => step' \in [Loads -> Steps]
  BY <1>1 DEF Go, PageTyped
<1>4. /\ Loading \in ShownReplies /\ Broken \in ShownReplies
      /\ \A R \in SUBSET Relays : FromRelays(R) \in ShownReplies
      /\ \A R \in SUBSET Relays : \A c \in Replies \cup {None} :
           Page(R, c).items \in SUBSET Replies /\ FromApi(Page(R, c)) \in ShownReplies
  BY ShownTyped
<1> USE <1>1
<1>5. ASSUME NEW r \in Replies, Publish(r) PROVE PageTyped' /\ UNCHANGED thread /\ published' \subseteq Replies
  BY <1>5 DEF Publish, PageTyped
<1>6. ASSUME Load PROVE PageTyped' /\ UNCHANGED thread /\ published' \subseteq Replies
  <2>1. step' \in [Loads -> Steps]
    BY <1>3, <1>6 DEF Load, Steps
  <2>2. current' \in 0..MaxLoads
    BY <1>6 DEF Load, PageTyped, EventConstants
  <2>3. crossed' \in BOOLEAN
    BY <1>6 DEF Load
  <2>4. replies' \in ShownReplies /\ status' \in {"idle", "loading", "ready", "error"}
    BY <1>4, <1>6 DEF Load
  <2> QED BY <1>6, <2>1, <2>2, <2>3, <2>4 DEF Load, PageTyped
<1>7. ASSUME NEW l \in Loads, Answers(l) PROVE PageTyped' /\ UNCHANGED thread /\ published' \subseteq Replies
  <2>1. AskNetwork(l) => step' \in [Loads -> Steps]
    <3>1. SUFFICES ASSUME AskNetwork(l) PROVE step' \in [Loads -> Steps]
      OBVIOUS
    <3>2. Go(l, "api") \/ Go(l, "over") \/ Go(l, "relays")
      BY <3>1 DEF AskNetwork
    <3> QED BY <1>3, <3>2 DEF Steps
  <2>2. CASE StoredNote(l)
    <3>1. crossed' \in BOOLEAN
      BY <2>2 DEF StoredNote
    <3>2. replies' \in ShownReplies /\ status' = "ready" /\ step' \in [Loads -> Steps]
      BY <1>4, <2>1, <2>2 DEF StoredNote
    <3> QED BY <2>2, <3>1, <3>2 DEF StoredNote, PageTyped
  <2>3. CASE NotStored(l)
    <3>1. step' \in [Loads -> Steps]
      BY <1>3, <2>1, <2>3 DEF NotStored, Steps
    <3> QED BY <2>3, <3>1 DEF NotStored, PageTyped
  <2>4. CASE Drop(l)
    <3>1. step' \in [Loads -> Steps]
      BY <1>3, <2>4 DEF Drop, Steps
    <3> QED BY <2>4, <3>1 DEF Drop, PageTyped
  <2>5. CASE ApiNote(l)
    <3>1. step' \in [Loads -> Steps]
      BY <1>3, <2>5 DEF ApiNote, Steps
    <3> QED BY <1>4, <2>5, <3>1 DEF ApiNote, PageTyped
  <2>6. CASE ApiFails(l)
    <3>1. step' \in [Loads -> Steps]
      BY <1>3, <2>6 DEF ApiFails, Steps
    <3> QED BY <2>6, <3>1 DEF ApiFails, PageTyped
  <2>7. CASE NoNote(l)
    <3>1. step' \in [Loads -> Steps]
      BY <1>3, <2>7 DEF NoNote, Steps
    <3> QED BY <1>4, <2>7, <3>1 DEF NoNote, PageTyped
  <2>8. CASE RepliesFail(l)
    <3>1. step' \in [Loads -> Steps]
      BY <1>3, <2>8 DEF RepliesFail, Steps
    <3> QED BY <2>8, <3>1 DEF RepliesFail, PageTyped
  <2>9. ASSUME NEW R \in SUBSET Relays, RelayNote(l, R)
        PROVE  PageTyped' /\ UNCHANGED thread /\ published' \subseteq Replies
    <3>1. step' \in [Loads -> Steps]
      BY <1>3, <2>9 DEF RelayNote, Steps
    <3>2. partial' \in BOOLEAN
      BY <2>9 DEF RelayNote
    <3>3. replies' \in ShownReplies
      BY <1>4, <2>9 DEF RelayNote
    <3> QED BY <2>9, <3>1, <3>2, <3>3 DEF RelayNote, PageTyped
  <2>10. ASSUME NEW R \in SUBSET Relays, FirstPage(l, R)
         PROVE  PageTyped' /\ UNCHANGED thread /\ published' \subseteq Replies
    <3>1. step' \in [Loads -> Steps]
      BY <1>3, <2>10 DEF FirstPage, Steps
    <3>2. partial' \in BOOLEAN
      BY <2>10 DEF FirstPage
    <3>3. \/ replies' = replies \/ replies' = FromRelays(R) \/ replies' = FromApi(Page(R, None))
      BY <2>10 DEF FirstPage
    <3>4. replies' \in ShownReplies
      BY <1>4, <3>3 DEF PageTyped
    <3> QED BY <2>10, <3>1, <3>2, <3>4 DEF FirstPage, PageTyped
  <2> QED BY <1>7, <2>2, <2>3, <2>4, <2>5, <2>6, <2>7, <2>8, <2>9, <2>10 DEF Answers
<1>8. ASSUME LoadMore PROVE PageTyped' /\ UNCHANGED thread /\ published' \subseteq Replies
  <2>1. replies' \in ShownReplies /\ more' \subseteq Replies
    BY <1>8 DEF LoadMore, PageTyped, ShownReplies
  <2> QED BY <1>8, <2>1 DEF LoadMore, PageTyped
<1>9. ASSUME NEW c \in more, MoreFails(c) PROVE PageTyped' /\ UNCHANGED thread /\ published' \subseteq Replies
  <2>1. replies' \in ShownReplies /\ more' \subseteq Replies
    BY <1>9 DEF MoreFails, PageTyped, ShownReplies
  <2> QED BY <1>9, <2>1 DEF MoreFails, PageTyped
<1>10. ASSUME NEW c \in more, NEW R \in SUBSET Relays, MoreReplies(c, R)
       PROVE  PageTyped' /\ UNCHANGED thread /\ published' \subseteq Replies
  <2>1. PICK f : f = FromApi(Page(R, c))
    OBVIOUS
  <2>2. f \in ShownReplies
    BY <1>4, <2>1 DEF PageTyped
  <2>3. replies' = [f EXCEPT !.items = replies.items \cup @]
    BY <1>10, <2>1 DEF MoreReplies
  <2>4. replies' \in ShownReplies
    BY <2>2, <2>3 DEF PageTyped, ShownReplies
  <2>5. partial' \in BOOLEAN
    BY <1>10 DEF MoreReplies
  <2>6. more' \subseteq Replies
    BY <1>10 DEF MoreReplies, PageTyped
  <2> QED BY <1>10, <2>4, <2>5, <2>6 DEF MoreReplies, PageTyped
<1>11. CASE UNCHANGED vars
  BY <1>11 DEF PageTyped
<1> QED BY <1>5, <1>6, <1>7, <1>8, <1>9, <1>10, <1>11 DEF Next

\* Whatever the replies are, where each load is and what is in flight, every variable has
\* its type: every cursor, for one, is a reply or none.
THEOREM TypesCorrect ==
  ASSUME EventConstants
  PROVE  Spec => []TypeOK
<1>1. Init => TypeOK
  BY InitTyped
<1>2. TypeOK /\ [Next]_vars => TypeOK'
  BY NextTyped
<1> QED BY <1>1, <1>2, PTL DEF Spec

\* findReplyCycles, on any replies of any thread, drops replies that answer each other in a
\* circle and no other, and all of these when the hops suffice.
THEOREM CirclesFound ==
  ASSUME EventConstants
  PROVE  Spec => []LoopsAreFound
<1>1. TypeOK => LoopsAreFound
  <2>1. TypeOK => ParentsOK
    BY DEF TypeOK, ParentsOK
  <2> QED BY <2>1, SearchFinds DEF LoopsAreFound
<1>2. Spec => []TypeOK
  BY TypesCorrect
<1> QED BY <1>1, <1>2, PTL

-----------------------------------------------------------------------------
(* Pages that fit together.  While nothing crosses, the replies are ready    *)
(* only when the load is over, a request for more is the only one and starts *)
(* from the cursor that is shown, and the cursor is the earliest reply shown.*)

\* The replies of the API are shown only when the load of the page is over.
ReadyIsOver ==
  ~crossed /\ replies.status = "ready" => current \in Loads /\ step[current] = "over"

\* Only pages of the API have a cursor.
CursorIsApi == replies.nextCursor # None => replies.source = "api"

\* More replies are asked for from the cursor that is shown, once.
MoreOfShown ==
  ~crossed /\ more # {} =>
    /\ replies.status = "ready" /\ replies.source = "api"
    /\ replies.isLoadingMore /\ replies.nextCursor # None
    /\ more = {replies.nextCursor}

\* A cursor is the earliest of some replies.
Earliest(c, items) == c \in items /\ \A q \in items \ {c} : Before(c, q)

\* No reply of the thread is missing between two.
Gapless(items) ==
  \A q, s \in items, r \in Thread : Before(q, r) /\ Before(r, s) => r \in items

\* The replies shown have no gap, and their cursor is the earliest.
PagesInv ==
  Plain /\ Settled =>
    /\ replies.items \subseteq Thread
    /\ Gapless(replies.items)
    /\ replies.nextCursor # None => Earliest(replies.nextCursor, replies.items)

PagingInv == TypeOK /\ ReadyIsOver /\ CursorIsApi /\ MoreOfShown /\ PagesInv

\* Any replies are finitely many, as many as some of them or more.
LEMMA Counts ==
  ASSUME EventConstants, NEW S \in SUBSET Replies, NEW T \in SUBSET S
  PROVE  /\ IsFiniteSet(S) /\ Cardinality(S) \in Nat /\ Cardinality(T) \in Nat
         /\ Cardinality(T) <= Cardinality(S)
         /\ \A x : Cardinality(T) - 1 <= Cardinality(T \ {x}) /\ Cardinality(T \ {x}) \in Nat
<1>1. IsFiniteSet(S) /\ IsFiniteSet(T) /\ Cardinality(T) <= Cardinality(S)
  BY FS_Subset DEF EventConstants
<1>2. Cardinality(S) \in Nat /\ Cardinality(T) \in Nat
  BY <1>1, FS_CardinalityType
<1>3. ASSUME NEW x PROVE Cardinality(T) - 1 <= Cardinality(T \ {x}) /\ Cardinality(T \ {x}) \in Nat
  <2>1. Cardinality(T \ {x}) = IF x \in T THEN Cardinality(T) - 1 ELSE Cardinality(T)
    BY <1>1, FS_RemoveElement
  <2>2. IsFiniteSet(T \ {x})
    BY <1>1, FS_RemoveElement
  <2>3. Cardinality(T \ {x}) \in Nat
    BY <2>2, FS_CardinalityType
  <2> QED BY <1>2, <2>1, <2>3
<1> QED BY <1>1, <1>2, <1>3

\* Among replies of distinct seconds, a relay leaves out of the newest n one that has n
\* of these after it, and no others.
LEMMA LeftOut ==
  ASSUME DatesOK, NEW A \in SUBSET Replies, \A q, r \in A : q # r => time[q] # time[r],
         NEW n \in Nat, NEW r \in A \ Newest(A, n)
  PROVE  ~(Cardinality({a \in Newest(A, n) : Before(r, a)}) < n)
<1> DEFINE After(t) == {a \in A : Before(t, a)}
           N == Newest(A, n)
<1>1. \A t \in A : t \in N <=> Cardinality(After(t)) < n
  <2> TAKE t \in A
  <2>1. {q \in A : time[q] > time[t] \/ (time[q] = time[t] /\ q < t)} = After(t)
    <3>1. \A q \in A : q \in Nat /\ t \in Nat /\ time[q] \in Nat /\ time[t] \in Nat
      BY DEF DatesOK, EventConstants
    <3>2. \A q \in A : (time[q] > time[t] \/ (time[q] = time[t] /\ q < t)) <=> Before(t, q)
      BY <3>1 DEF Before
    <3> QED BY <3>2
  <2> QED BY <2>1 DEF Newest
<1>2. CASE After(r) \subseteq N
  <2>1. {a \in N : Before(r, a)} = After(r)
    BY <1>2 DEF Newest
  <2> QED BY <1>1, <2>1
<1>3. CASE ~(After(r) \subseteq N)
  <2>1. After(r) \ N \in SUBSET Replies /\ After(r) \ N # {}
    BY <1>3
  <2> HIDE DEF N
  <2>2. PICK t \in After(r) \ N : \A q \in (After(r) \ N) \ {t} : Before(q, t)
    <3> HIDE DEF After
    <3> QED BY <2>1, Ends
  <2>3. After(t) \subseteq {a \in N : Before(r, a)}
    <3> SUFFICES ASSUME NEW a \in After(t) PROVE a \in N /\ Before(r, a)
      OBVIOUS
    <3>1. a \in Replies /\ t \in Replies /\ r \in Replies
      OBVIOUS
    <3>2. a \in After(r)
      BY <3>1, Ordered
    <3>3. ~Before(a, t) /\ a # t
      BY <3>1, Ordered
    <3>4. a \in N
      BY <2>2, <3>2, <3>3
    <3> QED BY <3>2, <3>4
  <2>4. ~(Cardinality(After(t)) < n) /\ Cardinality(After(t)) \in Nat
    <3>1. After(t) \in SUBSET Replies /\ t \in A /\ t \notin N
      OBVIOUS
    <3> HIDE DEF After
    <3> QED BY <1>1, <3>1, Counts DEF DatesOK
  <2>5. {a \in N : Before(r, a)} \in SUBSET Replies
    BY DEF N, Newest
  <2> HIDE DEF After
  <2>6. Cardinality(After(t)) <= Cardinality({a \in N : Before(r, a)})
        /\ Cardinality({a \in N : Before(r, a)}) \in Nat
    BY <2>3, <2>5, Counts DEF DatesOK
  <2> QED BY <2>4, <2>6 DEF N
<1> QED BY <1>2, <1>3

\* In a plain thread the page at a cursor holds the replies before it, down to the
\* earliest of the page, and nothing else.
LEMMA PageContiguous ==
  ASSUME EventConstants, TypeOK, Plain, NEW c \in Thread \cup {None},
         NEW P, P = Page(Relays, c)
  PROVE  /\ \A q \in P.items : q \in Thread /\ (c = None \/ Before(q, c))
         /\ \A q \in P.items, r \in Thread :
              Before(q, r) /\ (c = None \/ Before(r, c)) => r \in P.items
         /\ P.nextCursor # None => Earliest(P.nextCursor, P.items)
<1> DEFINE K == Kept(Relays, c)
           W == Whole(Relays, c)
           Asked(x) == holds[x] \cap Until(c)
<1>1. /\ P.items = Latest(K, Limit) /\ P.items \subseteq K /\ K \in SUBSET Replies
      /\ P.nextCursor # None => Earliest(P.nextCursor, P.items)
  BY PageMade DEF Earliest
<1>2. Thread \in SUBSET Replies /\ DatesOK /\ ParentsOK /\ Limit \in Nat
  BY DEF Thread, TypeOK, DatesOK, ParentsOK, EventConstants
<1>3. /\ \A x \in Relays : Asked(x) \subseteq Thread /\ Newest(Asked(x), Limit + 1) \subseteq Thread
      /\ W \subseteq Thread /\ Found(Relays, c) \subseteq Thread
      /\ \A x \in Relays : Newest(Asked(x), Limit + 1) \subseteq Found(Relays, c)
  <2>1. ASSUME NEW x \in Relays PROVE Asked(x) \subseteq Thread
    BY DEF Thread, Until
  <2>2. ASSUME NEW x \in Relays PROVE Newest(Asked(x), Limit + 1) \subseteq Asked(x)
    BY DEF Newest
  <2> HIDE DEF Asked
  <2>3. Found(Relays, c) = UNION {Newest(Asked(x), Limit + 1) : x \in Relays}
    BY DEF Found, Asked
  <2>4. Found(Relays, c) \subseteq Thread
    BY <2>1, <2>2, <2>3
  <2>5. W \subseteq Found(Relays, c)
    BY DEF Whole
  <2> QED BY <2>1, <2>2, <2>3, <2>4, <2>5
<1>4. FindReplyCycles(W) = {}
  <2>1. FindReplyCycles(W) \subseteq InLoops(W)
    BY <1>2, <1>3, SearchFinds
  <2>2. InLoops(W) \subseteq InLoops(Thread)
    BY <1>3 DEF InLoops, Answering
  <2> QED BY <2>1, <2>2 DEF Plain
<1>5. W = Found(Relays, c)
  BY <1>3 DEF Whole, Plain
<1>6. K = {r \in Found(Relays, c) : c = None \/ Before(r, c)}
  BY <1>4, <1>5 DEF Kept
<1>7. \A q \in P.items : q \in Thread /\ (c = None \/ Before(q, c))
  BY <1>1, <1>3, <1>5, <1>6
<1>8. ASSUME NEW q \in P.items, NEW r \in Thread, Before(q, r), c = None \/ Before(r, c)
      PROVE  r \in P.items
  <2>1. \A u \in Thread : u \in Until(c) /\ u # c => c = None \/ Before(u, c)
    <3>1. ASSUME NEW u \in Thread, u \in Until(c), u # c, c # None PROVE Before(u, c)
      <4>1. time[u] <= time[c] /\ time[u] \in Nat /\ time[c] \in Nat /\ c \in Thread
        BY <1>2, <3>1 DEF Until, DatesOK
      <4>2. time[u] # time[c]
        BY <3>1, <4>1 DEF Plain
      <4> QED BY <4>1, <4>2 DEF Before
    <3> QED BY <3>1
  <2>2. r \in Until(c)
    <3>1. r \in published
      BY DEF Thread
    <3>2. c # None => time[r] <= time[c]
      <4>1. SUFFICES ASSUME c # None PROVE time[r] <= time[c]
        OBVIOUS
      <4>2. time[r] \in Nat /\ time[c] \in Nat
        BY <1>2, <4>1 DEF DatesOK
      <4> QED BY <1>8, <4>1, <4>2 DEF Before
    <3> QED BY <3>1, <3>2 DEF Until
  <2>3. q \in Replies /\ r \in Replies /\ {k \in K : Before(q, k)} \in SUBSET Replies
    BY <1>1, <1>2
  <2>4. Cardinality({k \in K : Before(q, k)}) < Limit
    BY <1>1 DEF Latest
  <2>5. r \in Found(Relays, c)
    <3>1. PICK x \in Relays : r \in Asked(x)
      BY <2>2 DEF Thread
    <3> DEFINE N == Newest(Asked(x), Limit + 1)
               U == {a \in N : Before(r, a)}
    <3>2. N \subseteq Found(Relays, c) /\ N \subseteq Thread /\ N \subseteq Until(c)
      BY <1>3 DEF Newest
    <3>3. SUFFICES ASSUME r \notin N PROVE FALSE
      BY <3>2
    <3>4. ~(Cardinality(U) < Limit + 1)
      <4>1. Asked(x) \in SUBSET Replies /\ \A s, t \in Asked(x) : s # t => time[s] # time[t]
        BY <1>2, <1>3 DEF Plain
      <4>2. Limit + 1 \in Nat /\ r \in Asked(x) \ N
        BY <1>2, <3>1, <3>3
      <4> HIDE DEF Asked
      <4> QED BY <1>2, <4>1, <4>2, LeftOut
    <3> HIDE DEF N
    <3>5. U \ {c} \subseteq {k \in K : Before(q, k)}
      <4> SUFFICES ASSUME NEW u \in U, u # c PROVE u \in K /\ Before(q, u)
        OBVIOUS
      <4>1. u \in Found(Relays, c) /\ u \in Thread /\ u \in Until(c) /\ Before(r, u)
        BY <3>2
      <4>2. u \in K
        BY <1>6, <2>1, <4>1
      <4>3. Before(q, u)
        BY <1>2, <1>8, <2>3, <4>1, Ordered
      <4> QED BY <4>2, <4>3
    <3>6. U \in SUBSET Replies
      BY <1>2, <3>2
    <3> HIDE DEF U
    <3>7. /\ Cardinality(U) \in Nat /\ Cardinality(U) - 1 <= Cardinality(U \ {c})
          /\ Cardinality(U \ {c}) \in Nat
      BY <3>6, Counts
    <3> HIDE DEF K
    <3>8. /\ Cardinality(U \ {c}) <= Cardinality({k \in K : Before(q, k)})
          /\ Cardinality({k \in K : Before(q, k)}) \in Nat
      BY <2>3, <3>5, Counts
    <3> QED BY <1>2, <2>4, <3>4, <3>7, <3>8
  <2>6. r \in K
    BY <1>6, <1>8, <2>5
  <2>7. {k \in K : Before(r, k)} \subseteq {k \in K : Before(q, k)}
    <3> SUFFICES ASSUME NEW k \in K, Before(r, k) PROVE Before(q, k)
      OBVIOUS
    <3>1. k \in Replies
      BY <1>1
    <3> QED BY <1>2, <1>8, <2>3, <3>1, Ordered
  <2> HIDE DEF K
  <2>8. Cardinality({k \in K : Before(r, k)}) <= Cardinality({k \in K : Before(q, k)})
        /\ Cardinality({k \in K : Before(r, k)}) \in Nat /\ Cardinality({k \in K : Before(q, k)}) \in Nat
    BY <2>3, <2>7, Counts
  <2>9. Cardinality({k \in K : Before(r, k)}) < Limit
    BY <1>2, <2>4, <2>8
  <2> QED BY <1>1, <2>6, <2>9 DEF Latest
<1> QED BY <1>1, <1>7, <1>8

\* What a step of one load does to the steps of the others.
LEMMA GoesOne ==
  ASSUME TypeOK, NEW l \in Loads, NEW s, Go(l, s)
  PROVE  step'[l] = s /\ \A k \in Loads \ {l} : step'[k] = step[k]
BY DEF Go, TypeOK

\* So it is when the load turns to the network.
LEMMA AsksOne ==
  ASSUME TypeOK, NEW l \in Loads, AskNetwork(l)
  PROVE  \A k \in Loads \ {l} : step'[k] = step[k]
<1>1. Go(l, "api") \/ Go(l, "over") \/ Go(l, "relays")
  BY DEF AskNetwork
<1> QED BY <1>1, GoesOne

\* How loads, cursors and requests for more stay in step.
InStep == ReadyIsOver /\ CursorIsApi /\ MoreOfShown

\* Every step keeps them so.
LEMMA StaysInStep ==
  ASSUME EventConstants, TypeOK, InStep, [Next]_vars
  PROVE  InStep'
<1> USE DEF InStep, ReadyIsOver, CursorIsApi, MoreOfShown, Cancelled
<1>1. \* A load that has more to do has nothing ready and nothing in flight.
      ASSUME NEW l \in Loads, step[l] # "over", ~Cancelled(l), ~crossed
      PROVE  replies.status # "ready" /\ more = {}
  BY <1>1
<1>2. /\ Loading.status # "ready" /\ Loading.nextCursor = None
      /\ Broken.status # "ready" /\ Broken.nextCursor = None
      /\ \A R : FromRelays(R).nextCursor = None
      /\ \A P : FromApi(P).source = "api" /\ FromApi(P).status = "ready"
  BY DEF Loading, Broken, FromRelays, FromApi, Shown
<1>3. replies \in ShownReplies
  BY DEF TypeOK, ShownReplies
<1>4. crossed \in BOOLEAN
  BY DEF TypeOK
<1>5. ASSUME NEW r \in Replies, Publish(r) PROVE InStep'
  BY <1>5 DEF Publish
<1>6. ASSUME Load PROVE InStep'
  BY <1>2, <1>6 DEF Load
<1>7. ASSUME NEW l \in Loads, StoredNote(l) PROVE InStep'
  <2>1. ~crossed' => ~crossed /\ ~Cancelled(l)
    BY <1>7 DEF StoredNote
  <2>2. replies' = Loading /\ more' = more /\ step[l] # "over"
    BY <1>7 DEF StoredNote
  <2> QED BY <1>1, <1>2, <2>1, <2>2
<1>8. ASSUME NEW l \in Loads, NotStored(l) PROVE InStep'
  <2>1. \A k \in Loads \ {l} : step'[k] = step[k]
    BY <1>8, GoesOne, AsksOne DEF NotStored
  <2>2. step[l] # "over" /\ UNCHANGED <<replies, more, crossed, current>>
    BY <1>8 DEF NotStored
  <2> QED BY <1>1, <2>1, <2>2
<1>9. ASSUME NEW l \in Loads, Drop(l) PROVE InStep'
  <2>1. \A k \in Loads \ {l} : step'[k] = step[k]
    BY <1>9, GoesOne DEF Drop
  <2>2. l # current /\ UNCHANGED <<replies, more, crossed, current>>
    BY <1>9 DEF Drop
  <2> QED BY <2>1, <2>2
<1>10. ASSUME NEW l \in Loads, ApiNote(l) PROVE InStep'
  BY <1>1, <1>2, <1>10 DEF ApiNote
<1>11. ASSUME NEW l \in Loads, ApiFails(l) \/ RepliesFail(l) PROVE InStep'
  <2>1. step[l] # "over" /\ ~Cancelled(l) /\ UNCHANGED <<replies, more, crossed, current>>
    BY <1>11 DEF ApiFails, RepliesFail
  <2> QED BY <1>1, <2>1
<1>12. ASSUME NEW l \in Loads, NoNote(l) PROVE InStep'
  BY <1>1, <1>2, <1>12 DEF NoNote
<1>13. ASSUME NEW l \in Loads, NEW R \in SUBSET Relays, RelayNote(l, R) PROVE InStep'
  <2>1. step'[l] = "over" /\ current' = l /\ more' = more /\ crossed' = crossed
        /\ replies' = FromRelays(R) /\ step[l] # "over" /\ ~Cancelled(l)
    BY <1>13, GoesOne DEF RelayNote
  <2> QED BY <1>1, <1>2, <2>1
<1>14. ASSUME NEW l \in Loads, NEW R \in SUBSET Relays, FirstPage(l, R) PROVE InStep'
  <2>1. step'[l] = "over" /\ current' = l /\ more' = more /\ crossed' = crossed
        /\ step[l] # "over" /\ ~Cancelled(l)
    BY <1>14, GoesOne DEF FirstPage
  <2>2. \/ replies' = replies \/ replies' = FromRelays(R) \/ replies' = FromApi(Page(R, None))
    BY <1>14 DEF FirstPage
  <2> QED BY <1>1, <1>2, <2>1, <2>2
<1>15. ASSUME LoadMore PROVE InStep'
  <2>1. /\ replies.status = "ready" /\ ~replies.isLoadingMore /\ replies.nextCursor # None
        /\ more' = more \cup {replies.nextCursor}
        /\ UNCHANGED <<step, crossed, current>>
    BY <1>15 DEF LoadMore
  <2>2. /\ replies'.status = replies.status /\ replies'.nextCursor = replies.nextCursor
        /\ replies'.source = replies.source /\ replies'.isLoadingMore
    BY <1>3, <1>15 DEF LoadMore, ShownReplies
  <2> QED BY <2>1, <2>2
<1>16. ASSUME NEW c \in more, MoreFails(c) PROVE InStep'
  <2>1. /\ replies'.status = replies.status /\ replies'.nextCursor = replies.nextCursor
        /\ replies'.source = replies.source
    BY <1>3, <1>16 DEF MoreFails, ShownReplies
  <2>2. more' = more \ {c} /\ UNCHANGED <<step, crossed, current>>
    BY <1>16 DEF MoreFails
  <2> QED BY <2>1, <2>2
<1>17. ASSUME NEW c \in more, NEW R \in SUBSET Relays, MoreReplies(c, R) PROVE InStep'
  <2>1. PICK f : f = FromApi(Page(R, c))
    OBVIOUS
  <2>2. f \in ShownReplies
    BY <2>1, ShownTyped DEF TypeOK
  <2>3. replies' = [f EXCEPT !.items = replies.items \cup @]
    BY <1>17, <2>1 DEF MoreReplies
  <2>4. replies'.source = "api"
    BY <1>2, <2>1, <2>2, <2>3 DEF ShownReplies
  <2>5. more' = more \ {c} /\ UNCHANGED <<step, crossed, current>>
    BY <1>17 DEF MoreReplies
  <2> QED BY <2>4, <2>5
<1>18. CASE UNCHANGED vars
  BY <1>18 DEF vars, thread
<1> QED BY <1>5, <1>6, <1>7, <1>8, <1>9, <1>10, <1>11, <1>12, <1>13, <1>14, <1>15, <1>16, <1>17,
           <1>18 DEF Next, Answers

\* A thread that grew and is plain was plain before.
LEMMA PlainBefore ==
  ASSUME UNCHANGED thread, published \subseteq published'
  PROVE  (Plain' => Plain) /\ Thread \subseteq Thread'
<1>1. Thread \subseteq Thread'
  BY DEF thread, Thread
<1>2. InLoops(Thread) \subseteq InLoops(Thread)'
  BY <1>1 DEF thread, InLoops, Answering
<1> QED BY <1>1, <1>2 DEF Plain, thread

\* A page that comes after the replies shown leaves no gap between.
LEMMA PagesJoin ==
  ASSUME EventConstants, TypeOK, Plain, NEW I \in SUBSET Thread, Gapless(I),
         NEW c, Earliest(c, I), NEW P, P = Page(Relays, c)
  PROVE  /\ I \cup P.items \subseteq Thread
         /\ Gapless(I \cup P.items)
         /\ P.nextCursor # None => Earliest(P.nextCursor, I \cup P.items)
<1>1. c \in I /\ c \in Thread /\ \A q \in I \ {c} : Before(c, q)
  BY DEF Earliest
<1>2. c # None /\ DatesOK /\ Thread \in SUBSET Replies
  BY <1>1 DEF Thread, TypeOK, EventConstants, DatesOK
<1>3. /\ \A q \in P.items : q \in Thread /\ Before(q, c)
      /\ \A q \in P.items, r \in Thread : Before(q, r) /\ Before(r, c) => r \in P.items
      /\ P.nextCursor # None => Earliest(P.nextCursor, P.items)
  BY <1>1, <1>2, PageContiguous
<1>4. ASSUME NEW q \in I \cup P.items, NEW s \in I \cup P.items, NEW r \in Thread,
             Before(q, r), Before(r, s)
      PROVE  r \in I \cup P.items
  <2>1. {q, r, s, c} \subseteq Replies /\ {q, r, s, c} \subseteq Thread
    BY <1>1, <1>2, <1>3
  <2>2. CASE r = c
    BY <1>1, <2>2
  <2>3. CASE Before(r, c)
    <3>1. q \notin I
      BY <1>1, <1>2, <1>4, <2>1, <2>3, Ordered
    <3> QED BY <1>3, <1>4, <2>3, <3>1
  <2>4. CASE Before(c, r)
    <3>1. s \notin P.items
      BY <1>2, <1>3, <1>4, <2>1, <2>4, Ordered
    <3> QED BY <1>1, <1>4, <2>4, <3>1 DEF Gapless
  <2> QED BY <1>2, <2>1, <2>2, <2>3, <2>4, Ordered
<1>5. ASSUME P.nextCursor # None, NEW q \in (I \cup P.items) \ {P.nextCursor}
      PROVE  P.nextCursor \in P.items /\ Before(P.nextCursor, q)
  <2>1. P.nextCursor \in P.items /\ \A p \in P.items \ {P.nextCursor} : Before(P.nextCursor, p)
    BY <1>3, <1>5 DEF Earliest
  <2>2. CASE q \in P.items
    BY <1>5, <2>1, <2>2
  <2>3. CASE q \in I
    <3>1. q = c \/ Before(c, q)
      BY <1>1, <2>3
    <3>2. Before(P.nextCursor, c) /\ {P.nextCursor, q, c} \subseteq Replies
      BY <1>1, <1>2, <1>3, <2>1, <2>3
    <3> QED BY <1>2, <2>1, <3>1, <3>2, Ordered
  <2> QED BY <1>5, <2>2, <2>3
<1>6. P.nextCursor # None => P.nextCursor \in P.items
  BY <1>3 DEF Earliest
<1> QED BY <1>1, <1>3, <1>4, <1>5, <1>6 DEF Gapless, Earliest

\* A step that leaves the replies shown alone, or shows none of the API's, keeps the pages.
LEMMA PagesAlone ==
  ASSUME PagesInv, UNCHANGED <<thread, published>>,
         \/ replies'.status # "ready" \/ replies'.source # "api"
         \/ partial'
         \/ /\ replies'.status = replies.status /\ replies'.source = replies.source
            /\ replies'.items = replies.items /\ replies'.nextCursor = replies.nextCursor
            /\ partial' = partial /\ (crossed => crossed')
  PROVE  PagesInv'
<1>1. (Plain' => Plain) /\ Thread' = Thread /\ \A q, r \in Thread : Before(q, r)' = Before(q, r)
  <2>1. Plain' => Plain
    BY PlainBefore
  <2> QED BY <2>1 DEF thread, Thread, Before
<1>2. SUFFICES ASSUME (Plain /\ Settled)'
               PROVE  /\ replies'.items \subseteq Thread'
                      /\ Gapless(replies.items)'
                      /\ replies'.nextCursor # None => Earliest(replies.nextCursor, replies.items)'
  BY DEF PagesInv
<1>3. /\ replies'.status = replies.status /\ replies'.source = replies.source
      /\ replies'.items = replies.items /\ replies'.nextCursor = replies.nextCursor
      /\ partial' = partial /\ (crossed => crossed')
  BY <1>2 DEF Settled
<1>4. Plain /\ Settled
  BY <1>1, <1>2, <1>3 DEF Settled
<1>5. /\ replies.items \subseteq Thread /\ Gapless(replies.items)
      /\ replies.nextCursor # None => Earliest(replies.nextCursor, replies.items)
  BY <1>4 DEF PagesInv
<1> QED BY <1>3, <1>5 DEF Gapless, Earliest, thread, Thread, Before

\* Every step keeps the pages that are shown without a gap.
LEMMA PagesStay ==
  ASSUME EventConstants, PagingInv, [Next]_vars
  PROVE  PagesInv'
<1> USE DEF PagingInv
<1>1. InStep
  BY DEF InStep
<1>2. /\ Loading.status # "ready" /\ Broken.status # "ready"
      /\ \A R : FromRelays(R).source # "api"
      /\ \A P : /\ FromApi(P).items = P.items /\ FromApi(P).nextCursor = P.nextCursor
                /\ FromApi(P).source = "api" /\ FromApi(P).status = "ready"
  BY DEF Loading, Broken, FromRelays, FromApi, Shown
<1>3. replies \in ShownReplies
  BY DEF TypeOK, ShownReplies
<1>4. ASSUME NEW r \in Replies, Publish(r) PROVE PagesInv'
  <2>1. SUFFICES ASSUME (Plain /\ Settled)'
                 PROVE  /\ replies'.items \subseteq Thread'
                        /\ Gapless(replies.items)'
                        /\ replies'.nextCursor # None => Earliest(replies.nextCursor, replies.items)'
    BY DEF PagesInv
  <2>2. /\ UNCHANGED <<thread, replies, partial, crossed>>
        /\ published' = published \cup {r} /\ \A q \in published : time[q] < time[r]
    BY <1>4 DEF Publish
  <2>3. Plain /\ Settled /\ Thread \subseteq Thread'
    BY <2>1, <2>2, PlainBefore DEF Settled
  <2>4. /\ replies.items \subseteq Thread /\ Gapless(replies.items)
        /\ replies.nextCursor # None => Earliest(replies.nextCursor, replies.items)
    BY <2>3 DEF PagesInv
  <2>5. ASSUME NEW q \in replies.items, NEW s \in replies.items, NEW t \in Thread',
               Before(q, t), Before(t, s)
        PROVE  t \in replies.items
    <3>1. CASE t \in Thread
      BY <2>4, <2>5, <3>1 DEF Gapless
    <3>2. CASE t \notin Thread
      <4>1. t = r
        BY <2>2, <2>5, <3>2 DEF Thread, thread
      <4>2. s \in published
        BY <2>4 DEF Thread
      <4>3. time[s] \in Nat /\ time[r] \in Nat
        <5>1. time \in [Replies -> 1..MaxTime] /\ s \in Replies
          BY <4>2 DEF TypeOK
        <5> QED BY <5>1
      <4>4. time[s] < time[r]
        BY <2>2, <4>2
      <4> QED BY <2>5, <4>1, <4>3, <4>4 DEF Before
    <3> QED BY <3>1, <3>2
  <2>6. \A q, s : Before(q, s)' = Before(q, s)
    BY <2>2 DEF Before, thread
  <2>7. replies'.items \subseteq Thread' /\ replies' = replies
    BY <2>2, <2>3, <2>4
  <2>8. Gapless(replies.items)'
    BY <2>2, <2>5, <2>6 DEF Gapless, Before, thread
  <2>9. replies'.nextCursor # None => Earliest(replies.nextCursor, replies.items)'
    BY <2>2, <2>4, <2>6 DEF Earliest, Before, thread
  <2> QED BY <2>7, <2>8, <2>9
<1>5. CASE Load
  BY <1>2, <1>5, PagesAlone DEF Load, thread
<1>6. ASSUME NEW l \in Loads, StoredNote(l) \/ ApiNote(l) \/ NoNote(l) PROVE PagesInv'
  <2>1. replies'.status # "ready" /\ UNCHANGED <<thread, published>>
    BY <1>2, <1>6 DEF StoredNote, ApiNote, NoNote, thread
  <2> QED BY <2>1, PagesAlone
<1>7. ASSUME NEW l \in Loads, NotStored(l) \/ Drop(l) \/ ApiFails(l) \/ RepliesFail(l) PROVE PagesInv'
  <2>1. UNCHANGED <<thread, published, replies, partial, crossed>>
    BY <1>7 DEF NotStored, Drop, ApiFails, RepliesFail
  <2> QED BY <2>1, PagesAlone
<1>8. ASSUME NEW l \in Loads, NEW R \in SUBSET Relays, RelayNote(l, R) PROVE PagesInv'
  <2>1. replies'.source # "api" /\ UNCHANGED <<thread, published>>
    BY <1>2, <1>8 DEF RelayNote, thread
  <2> QED BY <2>1, PagesAlone
<1>9. ASSUME NEW l \in Loads, NEW R \in SUBSET Relays, FirstPage(l, R) PROVE PagesInv'
  <2>1. /\ UNCHANGED <<thread, published, crossed>> /\ step[l] # "over" /\ l = current
        /\ partial' = (R # Relays)
        /\ \/ replies' = replies \/ replies' = FromRelays(R) \/ replies' = FromApi(Page(R, None))
    BY <1>9 DEF FirstPage, Cancelled
  <2>2. CASE replies' = FromRelays(R)
    BY <1>2, <2>1, <2>2, PagesAlone
  <2>3. CASE R # Relays
    BY <2>1, <2>3, PagesAlone
  <2>4. CASE replies' = replies
    <3>1. CASE crossed
      BY <2>1, <3>1 DEF PagesInv, Settled
    <3>2. CASE ~crossed
      <4>1. replies'.status # "ready"
        BY <1>1, <2>1, <2>4, <3>2 DEF InStep, ReadyIsOver
      <4> QED BY <2>1, <4>1, PagesAlone
    <3> QED BY <3>1, <3>2
  <2>5. CASE R = Relays /\ replies' = FromApi(Page(R, None))
    <3>1. PICK P : P = Page(Relays, None)
      OBVIOUS
    <3>2. replies'.items = P.items /\ replies'.nextCursor = P.nextCursor
      BY <1>2, <2>5, <3>1
    <3>3. Plain' => Plain
      BY <2>1, PlainBefore
    <3>4. ASSUME Plain
          PROVE  /\ \A q \in P.items : q \in Thread
                 /\ \A q \in P.items, r \in Thread : Before(q, r) => r \in P.items
                 /\ P.nextCursor # None => Earliest(P.nextCursor, P.items)
      BY <3>1, <3>4, PageContiguous
    <3>5. ASSUME Plain
          PROVE  /\ P.items \subseteq Thread /\ Gapless(P.items)
                 /\ P.nextCursor # None => Earliest(P.nextCursor, P.items)
      BY <3>4, <3>5 DEF Gapless
    <3>6. /\ Thread' = Thread /\ (Gapless(P.items) => Gapless(replies.items)')
          /\ P.nextCursor # None /\ Earliest(P.nextCursor, P.items)
               => Earliest(replies.nextCursor, replies.items)'
      BY <2>1, <3>2 DEF Gapless, Earliest, Thread, thread, Before
    <3> QED BY <3>2, <3>3, <3>5, <3>6 DEF PagesInv
  <2> QED BY <2>1, <2>2, <2>3, <2>4, <2>5
<1>10. ASSUME LoadMore PROVE PagesInv'
  <2>1. /\ replies'.status = replies.status /\ replies'.nextCursor = replies.nextCursor
        /\ replies'.source = replies.source /\ replies'.items = replies.items
    BY <1>3, <1>10 DEF LoadMore, ShownReplies
  <2>2. UNCHANGED <<thread, published, partial, crossed>>
    BY <1>10 DEF LoadMore
  <2> QED BY <2>1, <2>2, PagesAlone
<1>11. ASSUME NEW c \in more, MoreFails(c) PROVE PagesInv'
  <2>1. /\ replies'.status = replies.status /\ replies'.nextCursor = replies.nextCursor
        /\ replies'.source = replies.source /\ replies'.items = replies.items
    BY <1>3, <1>11 DEF MoreFails, ShownReplies
  <2>2. UNCHANGED <<thread, published, partial, crossed>>
    BY <1>11 DEF MoreFails
  <2> QED BY <2>1, <2>2, PagesAlone
<1>12. ASSUME NEW c \in more, NEW R \in SUBSET Relays, MoreReplies(c, R) PROVE PagesInv'
  <2>1. SUFFICES ASSUME (Plain /\ Settled)'
                 PROVE  /\ replies'.items \subseteq Thread'
                        /\ Gapless(replies.items)'
                        /\ replies'.nextCursor # None => Earliest(replies.nextCursor, replies.items)'
    BY DEF PagesInv
  <2>2. UNCHANGED <<thread, published, crossed>> /\ partial' = (partial \/ R # Relays)
    BY <1>12 DEF MoreReplies
  <2>3. ~partial /\ R = Relays /\ ~crossed
    BY <2>1, <2>2 DEF Settled
  <2>4. Plain
    BY <2>1, <2>2, PlainBefore
  <2>5. Settled /\ c = replies.nextCursor /\ c # None
    BY <1>1, <1>12, <2>3 DEF InStep, MoreOfShown, Settled
  <2>6. /\ replies.items \subseteq Thread /\ Gapless(replies.items)
        /\ Earliest(c, replies.items)
    BY <2>4, <2>5 DEF PagesInv
  <2>7. PICK P : P = Page(Relays, c)
    OBVIOUS
  <2>8. PICK f : f = FromApi(P)
    OBVIOUS
  <2>9. f \in ShownReplies
    BY <2>7, <2>8, ShownTyped DEF TypeOK
  <2>10. replies' = [f EXCEPT !.items = replies.items \cup @]
    BY <1>12, <2>3, <2>7, <2>8 DEF MoreReplies
  <2>11. replies'.items = replies.items \cup P.items /\ replies'.nextCursor = P.nextCursor
    BY <1>2, <2>8, <2>9, <2>10 DEF ShownReplies
  <2>12. /\ replies.items \cup P.items \subseteq Thread
         /\ Gapless(replies.items \cup P.items)
         /\ P.nextCursor # None => Earliest(P.nextCursor, replies.items \cup P.items)
    BY <2>4, <2>6, <2>7, PagesJoin
  <2> QED BY <2>2, <2>11, <2>12 DEF Gapless, Earliest, Thread, thread, Before
<1>13. CASE UNCHANGED vars
  BY <1>13, PagesAlone DEF vars
<1> QED BY <1>4, <1>5, <1>6, <1>7, <1>8, <1>9, <1>10, <1>11, <1>12, <1>13 DEF Next, Answers

\* At first nothing is shown.
LEMMA InitPaging == ASSUME EventConstants, Init PROVE PagingInv
<1>1. TypeOK
  BY InitTyped
<1>2. replies.status # "ready" /\ replies.nextCursor = None /\ more = {}
  BY DEF Init, Shown
<1> QED BY <1>1, <1>2 DEF PagingInv, ReadyIsOver, CursorIsApi, MoreOfShown, PagesInv, Settled

\* Every step keeps the strengthened invariant.
LEMMA NextPaging == ASSUME EventConstants, PagingInv, [Next]_vars PROVE PagingInv'
<1>1. TypeOK'
  BY NextTyped DEF PagingInv
<1>2. InStep'
  BY StaysInStep DEF PagingInv, InStep
<1>3. PagesInv'
  BY PagesStay
<1> QED BY <1>1, <1>2, <1>3 DEF PagingInv, InStep

\* Pages of the API fit together: as the reader loads one after another, while the thread
\* grows and however the relays hold it, no reply is missing between two that are shown.
THEOREM PagesFit ==
  ASSUME EventConstants
  PROVE  Spec => []NoGap
<1>1. Init => PagingInv
  BY InitPaging
<1>2. PagingInv /\ [Next]_vars => PagingInv'
  BY NextPaging
<1>3. PagingInv => NoGap
  BY DEF PagingInv, PagesInv, Gapless, NoGap
<1> QED BY <1>1, <1>2, <1>3, PTL DEF Spec

=============================================================================
