--------------------------- MODULE RegistryLemmas ---------------------------
(***************************************************************************)
(* What the operators of Registry return, for lists of every length: the   *)
(* facts that the proofs about DeviceRegistry and AppState rest on.        *)
(*                                                                         *)
(* An operator leaves a list in one of three shapes: some entries of the   *)
(* old list in their order (Selects), the same devices entry by entry with *)
(* other settings (SameIds), or one entry more at the end.                 *)
(***************************************************************************)
EXTENDS Registry, FiniteSetTheorems, SequenceTheorems, TLAPS

(* ------------------------------- numbers ------------------------------- *)

\* A set of numbers that is not empty has a least one.  (The induction is that
\* of the proper subsets of an interval, which are well-founded.)
LEMMA LeastNumber ==
    ASSUME NEW T, T \subseteq Nat, T # {}
    PROVE  \E x \in T : \A y \in T : x <= y
<1>1. PICK m \in T : TRUE
  OBVIOUS
<1> DEFINE B == 0 .. m
           I == {0 .. t : t \in {u \in T : u <= m}}
           R == StrictSubsetOrdering(B)
<1>2. IsWellFoundedOn(R, SUBSET B)
  <2>1. IsFiniteSet(B)
    BY FS_Interval
  <2>2. IsWellFoundedOn(R, FiniteSubsetsOf(B))
    BY FS_StrictSubsetOrderingWellFounded
  <2>3. FiniteSubsetsOf(B) = SUBSET B
    BY <2>1, FS_FiniteSubsetsOfFinite
  <2> QED
    BY <2>2, <2>3
<1>3. I \subseteq SUBSET B /\ I # {}
  BY <1>1
<1>4. PICK x \in I : \A y \in I : <<y, x>> \notin R
  <2> HIDE DEF I, R, B
  <2> QED
    BY <1>2, <1>3, WFMin
<1>5. PICK t \in T : t <= m /\ x = 0 .. t
  BY <1>4
<1>6. ASSUME NEW u \in T, u < t
      PROVE  FALSE
  <2>1. 0 .. u \in I /\ 0 .. u \subseteq 0 .. t /\ 0 .. u # 0 .. t
    BY <1>5, <1>6
  <2>2. <<0 .. u, 0 .. t>> \in R
    BY <1>3, <1>5, <2>1 DEF StrictSubsetOrdering
  <2> QED
    BY <1>4, <1>5, <2>1, <2>2
<1> QED
  BY <1>5, <1>6

\* Induction up to a bound, with the property as the set T of the numbers that
\* have it.
LEMMA Reaches ==
    ASSUME NEW n \in Nat, NEW T, 0 \in T,
           \A i \in 0 .. n - 1 : i \in T => i + 1 \in T
    PROVE  0 .. n \subseteq T
<1> DEFINE U == (0 .. n) \ T
<1> SUFFICES ASSUME U # {} PROVE FALSE
  OBVIOUS
<1>1. PICK x \in U : \A y \in U : x <= y
  <2>1. U \subseteq Nat
    OBVIOUS
  <2> HIDE DEF U
  <2> QED
    BY <2>1, LeastNumber
<1>2. x # 0 /\ x - 1 \in 0 .. n - 1
  BY <1>1
<1>3. x - 1 \in T
  BY <1>1, <1>2
<1> QED
  BY <1>1, <1>2, <1>3

\* The greatest number of a set with a bound.
LEMMA GreatestNumber ==
    ASSUME NEW n \in Nat, NEW T, T \subseteq 1 .. n, T # {}
    PROVE  Max(T) \in T /\ \A y \in T : Max(T) >= y
<1> DEFINE U == {n - t : t \in T}
<1>1. PICK x \in U : \A y \in U : x <= y
  <2>1. \A t \in T : n - t \in Nat
    OBVIOUS
  <2>2. U \subseteq Nat /\ U # {}
    BY <2>1
  <2> HIDE DEF U
  <2> QED
    BY <2>2, LeastNumber
<1>2. PICK t \in T : x = n - t
  BY <1>1
<1>3. ASSUME NEW y \in T
      PROVE  t >= y
  <2>1. n - y \in U
    OBVIOUS
  <2>2. n - t <= n - y
    BY <1>1, <1>2, <2>1
  <2>3. t \in 1 .. n /\ y \in 1 .. n
    BY <1>2
  <2> HIDE DEF U
  <2> QED
    BY <2>2, <2>3
<1> QED
  BY <1>2, <1>3 DEF Max

\* A number in a uint8_t.
LEMMA PlaceFacts ==
    ASSUME NEW n \in Nat
    PROVE  n % Places \in 0 .. Places - 1 /\ (n < Places => n % Places = n)
BY DEF Places

(* ---------------------------- remove_if() ------------------------------ *)

\* What one step of the recursion in Kept does.
Grows(f, n, list, keep) ==
    f[n] = IF n \in keep THEN Append(f[n - 1], list[n]) ELSE f[n - 1]

\* Kept is the last value of a function that satisfies its recursion.
LEMMA KeptUnfolded ==
    ASSUME NEW S, NEW list \in Seq(S), NEW keep
    PROVE  \E f \in [0 .. Len(list) -> Seq(S)] :
              /\ Kept(list, keep) = f[Len(list)]
              /\ f[0] = << >>
              /\ \A n \in 1 .. Len(list) : Grows(f, n, list, keep)
<1> DEFINE N == Len(list)
           Body(f) == [n \in 0 .. N |->
                          IF n = 0 THEN << >>
                          ELSE IF n \in keep THEN Append(f[n - 1], list[n])
                          ELSE f[n - 1]]
           Prefix(g, n) == /\ g \in [0 .. n -> Seq(S)]
                           /\ g[0] = << >>
                           /\ \A k \in 1 .. n : Grows(g, k, list, keep)
           T == {n \in 0 .. N : \E g : Prefix(g, n)}
<1>1. N \in Nat /\ \A k \in 1 .. N : list[k] \in S
  BY LenProperties, ElementOfSeq
<1> HIDE DEF N
<1>2. 0 \in T
  <2>1. Prefix([k \in 0 .. 0 |-> << >>], 0)
    BY EmptySeq
  <2>2. \E g : Prefix(g, 0)
    <3> HIDE DEF Prefix
    <3> QED
      BY <2>1
  <2> QED
    BY <1>1, <2>2
<1>3. ASSUME NEW i \in 0 .. N - 1, i \in T
      PROVE  i + 1 \in T
  <2>1. PICK g : Prefix(g, i)
    BY <1>3
  <2> DEFINE e == IF i + 1 \in keep THEN Append(g[i], list[i + 1]) ELSE g[i]
             h == [k \in 0 .. i + 1 |-> IF k = i + 1 THEN e ELSE g[k]]
  <2>2. e \in Seq(S)
    <3>1. g[i] \in Seq(S) /\ list[i + 1] \in S
      BY <1>1, <1>3, <2>1
    <3> QED
      BY <3>1, AppendProperties
  <2>3. h \in [0 .. i + 1 -> Seq(S)] /\ h[0] = << >>
    <3> HIDE DEF e
    <3> QED
      BY <1>1, <2>1, <2>2
  <2>4. \A k \in 1 .. i + 1 : Grows(h, k, list, keep)
    <3> SUFFICES ASSUME NEW k \in 1 .. i + 1 PROVE Grows(h, k, list, keep)
      OBVIOUS
    <3>1. h[k - 1] = g[k - 1]
      BY <1>1
    <3>2. CASE k = i + 1
      BY <1>1, <3>1, <3>2 DEF Grows
    <3>3. CASE k # i + 1
      <4>1. h[k] = g[k] /\ k \in 1 .. i
        BY <1>1, <3>3
      <4> QED
        BY <2>1, <3>1, <4>1 DEF Grows
    <3> QED
      BY <3>2, <3>3
  <2> HIDE DEF h
  <2> QED
    BY <1>1, <2>3, <2>4
<1>4. N \in T
  <2> HIDE DEF T
  <2>1. 0 .. N \subseteq T
    BY <1>1, <1>2, <1>3, Reaches
  <2> QED
    BY <1>1, <2>1
<1>5. PICK g : Prefix(g, N)
  BY <1>4
<1>6. g = Body(g)
  <2>1. ASSUME NEW n \in 0 .. N
        PROVE  g[n] = Body(g)[n]
    <3>1. CASE n = 0
      BY <1>5, <3>1
    <3>2. CASE n \in 1 .. N
      BY <1>5, <3>2 DEF Grows
    <3> QED
      BY <1>1, <3>1, <3>2
  <2> QED
    BY <1>5, <2>1
<1> DEFINE f == CHOOSE f : f = Body(f)
<1>7. f = Body(f)
  <2> HIDE DEF Body
  <2> QED
    BY <1>6
<1>8. Kept(list, keep) = f[N]
  BY DEF Kept, N
<1>9. f[0] = << >> /\ \A n \in 1 .. N : Grows(f, n, list, keep)
  <2>1. \A n \in 0 .. N : f[n] = Body(f)[n]
    <3> HIDE DEF Body, f
    <3> QED
      BY <1>7
  <2> HIDE DEF f
  <2> QED
    BY <1>1, <2>1 DEF Grows
<1>10. \A n \in 0 .. N : f[n] = g[n]
  <2> DEFINE U == {n \in 0 .. N : f[n] = g[n]}
  <2> HIDE DEF f
  <2>1. 0 \in U
    BY <1>1, <1>5, <1>9
  <2>2. ASSUME NEW i \in 0 .. N - 1, i \in U
        PROVE  i + 1 \in U
    <3>1. i + 1 \in 1 .. N /\ (i + 1) - 1 = i
      BY <1>1
    <3>2. Grows(f, i + 1, list, keep) /\ Grows(g, i + 1, list, keep)
      BY <1>5, <1>9, <3>1
    <3> QED
      BY <2>2, <3>1, <3>2 DEF Grows
  <2> HIDE DEF U
  <2>3. 0 .. N \subseteq U
    BY <1>1, <2>1, <2>2, Reaches
  <2> QED
    BY <2>3 DEF U
<1>11. Kept(list, keep) = g[N]
  BY <1>1, <1>8, <1>10
<1> QED
  BY <1>5, <1>11 DEF N

\* The entries of r are those of `list' at the positions of keep up to n, in
\* their order; g says where each comes from.
Traces(g, r, list, keep, n) ==
    /\ g \in [1 .. Len(r) -> keep \cap (1 .. n)]
    /\ \A i \in 1 .. Len(r) : r[i] = list[g[i]]
    /\ \A i, j \in 1 .. Len(r) : i < j => g[i] < g[j]
    /\ \A k \in keep \cap (1 .. n) : \E i \in 1 .. Len(r) : g[i] = k

\* One step of the recursion keeps that true.
LEMMA TracesGrow ==
    ASSUME NEW S, NEW list \in Seq(S), NEW keep, NEW n \in 1 .. Len(list),
           NEW q \in Seq(S), NEW g, Traces(g, q, list, keep, n - 1), Len(q) <= n - 1
    PROVE  LET r == IF n \in keep THEN Append(q, list[n]) ELSE q
           IN  Len(r) <= n /\ \E h : Traces(h, r, list, keep, n)
<1>1. /\ Len(list) \in Nat /\ list[n] \in S
      /\ Len(q) \in Nat
  BY LenProperties, ElementOfSeq
<1>2. CASE n \notin keep
  <2>1. keep \cap (1 .. n) = keep \cap (1 .. n - 1)
    BY <1>1, <1>2
  <2>2. Traces(g, q, list, keep, n)
    BY <2>1 DEF Traces
  <2> QED
    BY <1>1, <1>2, <2>2
<1>3. CASE n \in keep
  <2> DEFINE r == Append(q, list[n])
             h == [i \in 1 .. Len(q) + 1 |-> IF i = Len(q) + 1 THEN n ELSE g[i]]
  <2>1. /\ Len(r) = Len(q) + 1 /\ r[Len(q) + 1] = list[n]
        /\ \A i \in 1 .. Len(q) : r[i] = q[i]
    BY <1>1, AppendProperties
  <2>2. /\ \A i \in 1 .. Len(q) : g[i] \in keep \cap (1 .. n - 1) /\ h[i] = g[i]
        /\ h[Len(q) + 1] = n
    BY <1>1 DEF Traces
  <2> HIDE DEF r
  <2>3. h \in [1 .. Len(r) -> keep \cap (1 .. n)]
    <3>1. \A i \in 1 .. Len(q) + 1 : h[i] \in keep \cap (1 .. n)
      <4>1. \A i \in 1 .. Len(q) : h[i] \in keep \cap (1 .. n)
        <5> HIDE DEF h
        <5> QED
          BY <1>1, <2>2
      <4>2. h[Len(q) + 1] \in keep \cap (1 .. n)
        BY <1>1, <1>3, <2>2
      <4>3. \A i \in 1 .. Len(q) + 1 : i \in 1 .. Len(q) \/ i = Len(q) + 1
        BY <1>1
      <4> HIDE DEF h
      <4> QED
        BY <4>1, <4>2, <4>3
    <3> QED
      BY <2>1, <3>1
  <2> HIDE DEF h
  <2>4. \A i \in 1 .. Len(r) : r[i] = list[h[i]]
    <3>1. \A i \in 1 .. Len(q) : r[i] = list[h[i]]
      BY <2>1, <2>2 DEF Traces
    <3>2. \A i \in 1 .. Len(r) : i \in 1 .. Len(q) \/ i = Len(q) + 1
      BY <1>1, <2>1
    <3> QED
      BY <2>1, <2>2, <3>1, <3>2
  <2>5. \A i, j \in 1 .. Len(r) : i < j => h[i] < h[j]
    <3> SUFFICES ASSUME NEW i \in 1 .. Len(r), NEW j \in 1 .. Len(r), i < j
                 PROVE  h[i] < h[j]
      OBVIOUS
    <3>1. i \in 1 .. Len(q)
      BY <1>1, <2>1
    <3>2. CASE j \in 1 .. Len(q)
      BY <2>2, <3>1, <3>2 DEF Traces
    <3>3. CASE j = Len(q) + 1
      <4>1. h[i] \in 1 .. n - 1 /\ h[j] = n
        BY <2>2, <3>1, <3>3
      <4> QED
        BY <1>1, <4>1
    <3> QED
      BY <1>1, <2>1, <3>2, <3>3
  <2>6. \A k \in keep \cap (1 .. n) : \E i \in 1 .. Len(r) : h[i] = k
    <3> SUFFICES ASSUME NEW k \in keep \cap (1 .. n)
                 PROVE  \E i \in 1 .. Len(r) : h[i] = k
      OBVIOUS
    <3>1. CASE k = n
      <4>1. Len(q) + 1 \in 1 .. Len(r)
        BY <1>1, <2>1
      <4> QED
        BY <2>2, <3>1, <4>1
    <3>2. CASE k \in 1 .. n - 1
      <4>1. PICK i \in 1 .. Len(q) : g[i] = k
        BY <3>2 DEF Traces
      <4>2. i \in 1 .. Len(r)
        BY <1>1, <2>1
      <4> QED
        BY <2>2, <4>1, <4>2
    <3> QED
      BY <1>1, <3>1, <3>2
  <2>7. Traces(h, r, list, keep, n) /\ Len(r) <= n
    BY <1>1, <2>1, <2>3, <2>4, <2>5, <2>6 DEF Traces
  <2> QED
    BY <1>3, <2>7 DEF r
<1> QED
  BY <1>2, <1>3

\* Kept returns the entries at the positions it is given, in their order.
LEMMA KeptFacts ==
    ASSUME NEW S, NEW list \in Seq(S), NEW keep
    PROVE  /\ Kept(list, keep) \in Seq(S)
           /\ Len(Kept(list, keep)) <= Len(list)
           /\ \E g : Traces(g, Kept(list, keep), list, keep, Len(list))
<1> DEFINE N == Len(list)
<1>1. N \in Nat
  BY LenProperties
<1>2. PICK f \in [0 .. N -> Seq(S)] :
         /\ Kept(list, keep) = f[N] /\ f[0] = << >>
         /\ \A n \in 1 .. N : Grows(f, n, list, keep)
  BY KeptUnfolded
<1> DEFINE T == {n \in 0 .. N : /\ Len(f[n]) <= n
                                /\ \E g : Traces(g, f[n], list, keep, n)}
<1>3. 0 \in T
  <2>1. Len(f[0]) = 0
    BY <1>2
  <2>2. Traces([i \in {} |-> 0], f[0], list, keep, 0)
    BY <2>1 DEF Traces
  <2> QED
    BY <1>1, <2>1, <2>2
<1>4. ASSUME NEW i \in 0 .. N - 1, i \in T
      PROVE  i + 1 \in T
  <2>1. PICK g : Traces(g, f[i], list, keep, i)
    BY <1>4
  <2>2. /\ i + 1 \in 1 .. N /\ (i + 1) - 1 = i
        /\ f[i] \in Seq(S) /\ Len(f[i]) <= i
    BY <1>1, <1>2, <1>4
  <2>3. f[i + 1] = IF i + 1 \in keep THEN Append(f[i], list[i + 1]) ELSE f[i]
    BY <1>2, <2>2 DEF Grows
  <2>4. Len(f[i + 1]) <= i + 1 /\ \E h : Traces(h, f[i + 1], list, keep, i + 1)
    <3>1. /\ i + 1 \in 1 .. Len(list) /\ Traces(g, f[i], list, keep, (i + 1) - 1)
          /\ Len(f[i]) <= (i + 1) - 1
      BY <2>1, <2>2
    <3> HIDE DEF N, T
    <3> QED
      BY <2>2, <2>3, <3>1, TracesGrow
  <2> QED
    BY <1>1, <2>2, <2>4
<1> HIDE DEF T
<1>5. 0 .. N \subseteq T
  BY <1>1, <1>3, <1>4, Reaches
<1>6. N \in T
  BY <1>1, <1>5
<1> QED
  BY <1>1, <1>2, <1>6 DEF T

(* ------------------------------- find_if() ----------------------------- *)

\* Position returns the first entry with the id, and 0 when there is none.
LEMMA PositionFacts ==
    ASSUME NEW S, NEW list \in Seq(S), NEW id
    PROVE  /\ Has(list, id) => /\ Position(list, id) \in DOMAIN list
                               /\ list[Position(list, id)].id = id
                               /\ \A j \in DOMAIN list :
                                     list[j].id = id => Position(list, id) <= j
           /\ ~Has(list, id) => Position(list, id) = 0
<1> DEFINE I == {i \in 1 .. Len(list) : list[i].id = id}
<1>1. /\ DOMAIN list = 1 .. Len(list) /\ Len(list) \in Nat
  BY LenProperties
<1>2. Position(list, id) = IF I # {} THEN Min(I) ELSE 0
  BY DEF Position, SelectInSeq
<1>3. Has(list, id) <=> I # {}
  BY <1>1 DEF Has
<1>4. ASSUME I # {}
      PROVE  Min(I) \in I /\ \A j \in I : Min(I) <= j
  <2>1. \E x \in I : \A y \in I : x <= y
    <3>1. I \subseteq Nat
      BY <1>1
    <3> HIDE DEF I
    <3> QED
      BY <1>4, <3>1, LeastNumber
  <2> HIDE DEF I
  <2> QED
    BY <2>1 DEF Min
<1> QED
  BY <1>1, <1>2, <1>3, <1>4

(* --------------------------- shapes of a list -------------------------- *)

\* r has entries of `list' only, in their order.
Selects(r, list) ==
    \E g \in [DOMAIN r -> DOMAIN list] :
        /\ \A i \in DOMAIN r : r[i] = list[g[i]]
        /\ \A i, j \in DOMAIN r : i < j => g[i] < g[j]

\* r has the devices of `list', entry by entry.
SameIds(r, list) ==
    /\ DOMAIN r = DOMAIN list
    /\ \A i \in DOMAIN list : r[i].id = list[i].id

\* remove_if() and erase(): the entries with the id are gone, no other is.
LEMMA WithoutFacts ==
    ASSUME NEW S, NEW list \in Seq(S), NEW id
    PROVE  /\ Without(list, id) \in Seq(S)
           /\ Len(Without(list, id)) <= Len(list)
           /\ Selects(Without(list, id), list)
           /\ ~Has(Without(list, id), id)
           /\ \A other : other # id =>
                 (Has(Without(list, id), other) <=> Has(list, other))
<1> DEFINE keep == {i \in DOMAIN list : list[i].id # id}
           r == Without(list, id)
<1>1. r = Kept(list, keep)
  BY DEF Without
<1>2. /\ r \in Seq(S) /\ Len(r) <= Len(list)
      /\ \E g : Traces(g, r, list, keep, Len(list))
  <2> HIDE DEF keep, r
  <2> QED
    BY <1>1, KeptFacts
<1>3. PICK g : Traces(g, r, list, keep, Len(list))
  BY <1>2
<1>4. /\ DOMAIN list = 1 .. Len(list) /\ Len(list) \in Nat
      /\ DOMAIN r = 1 .. Len(r)
  <2> HIDE DEF r
  <2> QED
    BY <1>2, LenProperties
<1> HIDE DEF r
<1>5. \A i \in DOMAIN r : /\ g[i] \in DOMAIN list /\ r[i] = list[g[i]]
                          /\ list[g[i]].id # id
  BY <1>3, <1>4 DEF Traces
<1>6. ASSUME NEW k \in DOMAIN list, list[k].id # id
      PROVE  \E i \in DOMAIN r : r[i] = list[k]
  <2>1. k \in keep \cap (1 .. Len(list))
    BY <1>4, <1>6
  <2>2. PICK i \in 1 .. Len(r) : g[i] = k
    BY <1>3, <2>1 DEF Traces
  <2> QED
    BY <1>4, <1>5, <2>2
<1>7. Selects(r, list)
  <2>1. g \in [DOMAIN r -> DOMAIN list]
    BY <1>3, <1>4 DEF Traces
  <2>2. \A i, j \in DOMAIN r : i < j => g[i] < g[j]
    BY <1>3, <1>4 DEF Traces
  <2> QED
    BY <1>5, <2>1, <2>2 DEF Selects
<1>8. ~Has(r, id)
  BY <1>5 DEF Has
<1>9. \A other : other # id => (Has(r, other) <=> Has(list, other))
  BY <1>5, <1>6 DEF Has
<1> QED
  BY <1>2, <1>7, <1>8, <1>9 DEF r

\* push_back().
LEMMA AppendFacts ==
    ASSUME NEW S, NEW list \in Seq(S), NEW d \in S
    PROVE  /\ Append(list, d) \in Seq(S)
           /\ Len(Append(list, d)) = Len(list) + 1
           /\ DOMAIN Append(list, d) = DOMAIN list \cup {Len(list) + 1}
           /\ Len(list) + 1 \notin DOMAIN list
           /\ \A i \in DOMAIN list : Append(list, d)[i] = list[i]
           /\ Append(list, d)[Len(list) + 1] = d
<1>1. /\ DOMAIN list = 1 .. Len(list) /\ Len(list) \in Nat
      /\ DOMAIN Append(list, d) = 1 .. Len(Append(list, d))
  BY LenProperties, AppendProperties
<1> QED
  BY <1>1, AppendProperties

\* erase() of the entry at a position.
LEMMA RemoveAtFacts ==
    ASSUME NEW S, NEW list \in Seq(S), NEW i \in DOMAIN list
    PROVE  /\ RemoveAt(list, i) \in Seq(S)
           /\ Len(RemoveAt(list, i)) = Len(list) - 1
           /\ Selects(RemoveAt(list, i), list)
           /\ \A k \in DOMAIN list : k # i =>
                 \E j \in DOMAIN RemoveAt(list, i) : RemoveAt(list, i)[j] = list[k]
           /\ \A j \in DOMAIN RemoveAt(list, i) :
                 \E k \in DOMAIN list : k # i /\ RemoveAt(list, i)[j] = list[k]
<1> DEFINE r == RemoveAt(list, i)
           N == Len(list)
           a == SubSeq(list, 1, i - 1)
           b == SubSeq(list, i + 1, N)
           g == [k \in 1 .. N - 1 |-> IF k < i THEN k ELSE k + 1]
<1>1. N \in Nat /\ DOMAIN list = 1 .. N /\ i \in 1 .. N
  BY LenProperties
<1>2. /\ a \in Seq(S) /\ Len(a) = i - 1
      /\ \A k \in 1 .. i - 1 : a[k] = list[k]
  <2>1. /\ i - 1 \in 0 .. Len(list) /\ 1 \in Nat /\ i - 1 \in Int
        /\ \A k \in 1 .. i - 1 : k \in 1 .. Len(list) /\ list[k] \in S
    BY <1>1, ElementOfSeq
  <2> QED
    BY <1>1, <2>1, SubSeqProperties
<1>3. /\ b \in Seq(S) /\ Len(b) = N - i
      /\ \A k \in 1 .. N - i : b[k] = list[k + i]
  <2>1. \A k \in i + 1 .. N : list[k] \in S
    BY <1>1, ElementOfSeq
  <2> QED
    BY <1>1, <2>1, SubSeqProperties
<1>4. r = a \o b
  BY DEF RemoveAt
<1> HIDE DEF a, b, N
<1>5. /\ r \in Seq(S) /\ Len(r) = N - 1
      /\ \A k \in 1 .. N - 1 : r[k] = list[g[k]]
  <2>1. /\ a \o b \in Seq(S) /\ Len(a \o b) = Len(a) + Len(b)
        /\ \A k \in 1 .. Len(a) + Len(b) :
              (a \o b)[k] = IF k <= Len(a) THEN a[k] ELSE b[k - Len(a)]
    BY <1>2, <1>3, ConcatProperties
  <2>2. ASSUME NEW k \in 1 .. N - 1
        PROVE  (a \o b)[k] = list[g[k]]
    <3>0. k \in 1 .. Len(a) + Len(b)
      BY <1>1, <1>2, <1>3
    <3> DEFINE c == a \o b
    <3> HIDE DEF c
    <3>1. CASE k < i
      <4>1. c[k] = a[k] /\ k \in 1 .. i - 1
        BY <1>1, <1>2, <2>1, <3>0, <3>1 DEF c
      <4> QED
        BY <1>1, <1>2, <3>1, <4>1 DEF c
    <3>2. CASE k >= i
      <4>1. k - (i - 1) \in 1 .. N - i /\ (k - (i - 1)) + i = k + 1
        BY <1>1, <3>2
      <4>2. c[k] = b[k - (i - 1)]
        BY <1>1, <1>2, <2>1, <3>0, <3>2 DEF c
      <4>3. b[k - (i - 1)] = list[k + 1]
        BY <1>3, <4>1
      <4> QED
        BY <1>1, <3>2, <4>2, <4>3 DEF c
    <3>3. k < i \/ k >= i
      <4>1. k \in Int /\ i \in Int
        BY <1>1
      <4> QED
        BY <4>1
    <3> QED
      BY <3>1, <3>2, <3>3
  <2>3. Len(a) + Len(b) = N - 1
    BY <1>1, <1>2, <1>3
  <2> QED
    BY <1>4, <2>1, <2>2, <2>3
<1> HIDE DEF r
<1>6. DOMAIN r = 1 .. N - 1
  BY <1>5, LenProperties
<1>7. \A k \in 1 .. N - 1 : g[k] \in 1 .. N /\ g[k] # i
  BY <1>1
<1>8. Selects(r, list)
  <2>1. g \in [DOMAIN r -> DOMAIN list]
    BY <1>1, <1>6, <1>7
  <2>2. \A j, k \in DOMAIN r : j < k => g[j] < g[k]
    BY <1>1, <1>6
  <2> HIDE DEF g
  <2> QED
    BY <1>5, <1>6, <2>1, <2>2 DEF Selects
<1>9. ASSUME NEW k \in DOMAIN list, k # i
      PROVE  \E j \in DOMAIN r : r[j] = list[k]
  <2>1. CASE k < i
    <3>1. k \in 1 .. N - 1 /\ g[k] = k
      BY <1>1, <2>1
    <3> QED
      BY <1>5, <1>6, <3>1
  <2>2. CASE k > i
    <3>1. k - 1 \in 1 .. N - 1 /\ g[k - 1] = k
      BY <1>1, <2>2
    <3> QED
      BY <1>5, <1>6, <3>1
  <2> QED
    BY <1>1, <1>9, <2>1, <2>2
<1>10. \A j \in DOMAIN r : \E k \in DOMAIN list : k # i /\ r[j] = list[k]
  <2> HIDE DEF g
  <2> QED
    BY <1>1, <1>5, <1>6, <1>7
<1> QED
  BY <1>5, <1>8, <1>9, <1>10 DEF r, N

\* An entry is replaced.
LEMMA ReplacedFacts ==
    ASSUME NEW S, NEW list \in Seq(S), NEW i \in DOMAIN list, NEW d \in S
    PROVE  /\ [list EXCEPT ![i] = d] \in Seq(S)
           /\ Len([list EXCEPT ![i] = d]) = Len(list)
           /\ DOMAIN [list EXCEPT ![i] = d] = DOMAIN list
           /\ [list EXCEPT ![i] = d][i] = d
           /\ \A j \in DOMAIN list : j # i => [list EXCEPT ![i] = d][j] = list[j]
<1>1. DOMAIN list = 1 .. Len(list)
  BY LenProperties
<1> QED
  BY <1>1, ExceptSeq

\* What loadConfigs() takes of a longer list.
LEMMA PrefixFacts ==
    ASSUME NEW S, NEW list \in Seq(S), NEW n \in 0 .. Len(list)
    PROVE  /\ SubSeq(list, 1, n) \in Seq(S)
           /\ Len(SubSeq(list, 1, n)) = n
           /\ Selects(SubSeq(list, 1, n), list)
<1> DEFINE r == SubSeq(list, 1, n)
<1>1. Len(list) \in Nat /\ DOMAIN list = 1 .. Len(list) /\ n \in Nat
  BY LenProperties
<1>2. /\ r \in Seq(S) /\ Len(r) = n
      /\ \A k \in 1 .. n : r[k] = list[k]
  <2>1. \A k \in 1 .. n : list[k] \in S
    BY <1>1, ElementOfSeq
  <2> QED
    BY <1>1, <2>1, SubSeqProperties
<1> HIDE DEF r
<1>3. DOMAIN r = 1 .. n
  BY <1>2, LenProperties
<1>4. Selects(r, list)
  <2> DEFINE g == [k \in 1 .. n |-> k]
  <2>1. g \in [DOMAIN r -> DOMAIN list]
    BY <1>1, <1>3
  <2> QED
    BY <1>2, <1>3, <2>1 DEF Selects
<1> QED
  BY <1>2, <1>4 DEF r

\* Neither of the first two shapes brings a device in.
LEMMA ShapesHave ==
    ASSUME NEW r, NEW list, NEW id
    PROVE  /\ Selects(r, list) => (Has(r, id) => Has(list, id))
           /\ SameIds(r, list) => (Has(r, id) <=> Has(list, id))
<1>1. Selects(r, list) => (Has(r, id) => Has(list, id))
  BY DEF Selects, Has
<1>2. SameIds(r, list) => (Has(r, id) <=> Has(list, id))
  BY DEF SameIds, Has
<1> QED
  BY <1>1, <1>2

(* -------------------------- the registry's types ----------------------- *)

Registries(ids) ==
    [devices : ListsOf(ids), pending : ListsOf(ids), ok : BOOLEAN]

\* What a list of devices that fits is.
LEMMA ListsOfFacts ==
    ASSUME NEW ids, NEW list \in ListsOf(ids)
    PROVE  /\ list \in Seq(ConfigsOf(ids))
           /\ Len(list) \in Nat /\ Len(list) <= MaxDevices
           /\ DOMAIN list = 1 .. Len(list)
           /\ \A i \in DOMAIN list : list[i] \in ConfigsOf(ids)
<1>1. list \in Seq(ConfigsOf(ids)) /\ Len(list) <= MaxDevices
  BY DEF ListsOf
<1> QED
  BY <1>1, LenProperties, ElementOfSeq

\* Nothing is known of the empty list but that it fits.
LEMMA EmptyFits ==
    ASSUME NEW ids
    PROVE  << >> \in ListsOf(ids) /\ DOMAIN << >> = {}
<1>1. << >> \in Seq(ConfigsOf(ids)) /\ Len(<< >>) = 0 /\ DOMAIN << >> = {}
  BY EmptySeq
<1> QED
  BY <1>1, CapacityAssumption DEF ListsOf

\* Replacing the entry at a position by one for the same device.
LEMMA ReplacedFits ==
    ASSUME NEW ids, NEW list \in ListsOf(ids), NEW i \in DOMAIN list,
           NEW d \in ConfigsOf(ids), d.id = list[i].id
    PROVE  /\ [list EXCEPT ![i] = d] \in ListsOf(ids)
           /\ SameIds([list EXCEPT ![i] = d], list)
           /\ [list EXCEPT ![i] = d][i] = d
           /\ \A j \in DOMAIN list : j # i => [list EXCEPT ![i] = d][j] = list[j]
<1> DEFINE r == [list EXCEPT ![i] = d]
<1>1. list \in Seq(ConfigsOf(ids)) /\ Len(list) <= MaxDevices
  BY ListsOfFacts
<1>2. /\ r \in Seq(ConfigsOf(ids)) /\ Len(r) = Len(list)
      /\ DOMAIN r = DOMAIN list /\ r[i] = d
      /\ \A j \in DOMAIN list : j # i => r[j] = list[j]
  BY <1>1, ReplacedFacts
<1> HIDE DEF r
<1>3. SameIds(r, list)
  BY <1>2 DEF SameIds
<1> QED
  BY <1>1, <1>2, <1>3 DEF r, ListsOf

\* mergeInto(), from discovery: the entry stays that of its device, with its
\* source and with an address the user typed.
LEMMA MergeDiscovered ==
    ASSUME NEW ids, NEW current \in ConfigsOf(ids), NEW incoming \in ConfigsOf(ids)
    PROVE  LET m == MergeInto(current, incoming, TRUE)
           IN  /\ m \in ConfigsOf(ids) /\ m.id = current.id
               /\ m.token \in {current.token, incoming.token}
               /\ m.source = current.source
               /\ current.source = "manual" /\ current.baseUrl # NoText
                     => m.baseUrl = current.baseUrl
BY DEF ConfigsOf, MergeInto

\* mergeInto(), from the user: an address he typed replaces the one there was.
LEMMA MergeTyped ==
    ASSUME NEW ids, NEW current \in ConfigsOf(ids), NEW incoming \in ConfigsOf(ids)
    PROVE  LET m == MergeInto(current, incoming, FALSE)
           IN  /\ m \in ConfigsOf(ids) /\ m.id = current.id
               /\ m.token \in {current.token, incoming.token}
               /\ incoming.baseUrl # NoText => m.baseUrl = incoming.baseUrl
BY DEF ConfigsOf, MergeInto

\* addNew(): the next number, nothing else.
LEMMA AddedFacts ==
    ASSUME NEW ids, NEW reg \in Registries(ids), NEW d \in ConfigsOf(ids), ~Full(reg)
    PROVE  /\ Added(reg, d) \in Registries(ids)
           /\ Added(reg, d).pending = reg.pending
           /\ Added(reg, d).ok = TRUE
           /\ \E new \in ConfigsOf(ids) :
                 /\ Added(reg, d).devices = Append(reg.devices, new)
                 /\ new.id = d.id /\ new.source = d.source
                 /\ new.baseUrl = d.baseUrl /\ new.token = d.token
<1> DEFINE new == [d EXCEPT !.order = Len(reg.devices)]
           r == Append(reg.devices, new)
<1>1. /\ reg.devices \in ListsOf(ids) /\ reg.pending \in ListsOf(ids)
      /\ reg.devices \in Seq(ConfigsOf(ids)) /\ Len(reg.devices) \in Nat
  BY ListsOfFacts DEF Registries
<1>2. /\ new \in ConfigsOf(ids) /\ new.id = d.id
      /\ new.source = d.source /\ new.baseUrl = d.baseUrl /\ new.token = d.token
  BY <1>1 DEF ConfigsOf
<1> HIDE DEF new
<1>3. r \in ListsOf(ids)
  <2>1. r \in Seq(ConfigsOf(ids)) /\ Len(r) = Len(reg.devices) + 1
    BY <1>1, <1>2, AppendFacts
  <2> QED
    BY <1>1, <2>1, CapacityAssumption DEF ListsOf, Full
<1>4. Added(reg, d) = [reg EXCEPT !.devices = r, !.ok = TRUE]
  BY <1>1 DEF Added, new, Registries
<1> HIDE DEF r
<1>5. /\ Added(reg, d) \in Registries(ids) /\ Added(reg, d).ok = TRUE
      /\ Added(reg, d).devices = r /\ Added(reg, d).pending = reg.pending
  BY <1>1, <1>3, <1>4 DEF Registries
<1> QED
  BY <1>2, <1>5 DEF r, new

\* One entry of the active devices is rewritten, and the caller is told when
\* anything but the source changed.
Rewritten(reg, i, new) ==
    LET old == reg.devices[i]
    IN  [reg EXCEPT !.devices[i] = new,
                    !.ok = [new EXCEPT !.source = old.source] # old]

\* It changes no other entry and leaves the pending ones alone.
LEMMA RewrittenFacts ==
    ASSUME NEW ids, NEW reg \in Registries(ids), NEW i \in DOMAIN reg.devices,
           NEW new \in ConfigsOf(ids), new.id = reg.devices[i].id
    PROVE  LET r == Rewritten(reg, i, new)
           IN  /\ r \in Registries(ids)
               /\ r.pending = reg.pending
               /\ SameIds(r.devices, reg.devices)
               /\ r.devices[i] = new
               /\ \A j \in DOMAIN reg.devices : j # i => r.devices[j] = reg.devices[j]
<1> DEFINE old == reg.devices[i]
           list == [reg.devices EXCEPT ![i] = new]
           told == [new EXCEPT !.source = old.source] # old
           r == Rewritten(reg, i, new)
<1>1. reg.devices \in ListsOf(ids) /\ reg.pending \in ListsOf(ids)
  BY DEF Registries
<1>2. r = [reg EXCEPT !.devices = list, !.ok = told] /\ told \in BOOLEAN
  BY DEF Registries, Rewritten
<1>3. /\ list \in ListsOf(ids) /\ SameIds(list, reg.devices) /\ list[i] = new
      /\ \A j \in DOMAIN reg.devices : j # i => list[j] = reg.devices[j]
  BY <1>1, ReplacedFits
<1> HIDE DEF list, told, r
<1>4. r \in Registries(ids) /\ r.devices = list /\ r.pending = reg.pending
  BY <1>1, <1>2, <1>3 DEF Registries
<1> QED
  BY <1>3, <1>4 DEF list, told, r

\* The branch of upsertDiscovered() that finds the device.
LEMMA MergedFromDiscovery ==
    ASSUME NEW ids, NEW reg \in Registries(ids), NEW incoming \in ConfigsOf(ids),
           Has(reg.devices, incoming.id)
    PROVE  LET i == Position(reg.devices, incoming.id)
               old == reg.devices[i]
               new == MergeInto(old, incoming, TRUE)
               r == Merged(reg, incoming, TRUE)
           IN  /\ r \in Registries(ids)
               /\ r.pending = reg.pending
               /\ SameIds(r.devices, reg.devices)
               /\ r.devices[i] = new
               /\ \A j \in DOMAIN reg.devices : j # i => r.devices[j] = reg.devices[j]
<1> DEFINE i == Position(reg.devices, incoming.id)
           old == reg.devices[i]
           new == MergeInto(old, incoming, TRUE)
           r == Merged(reg, incoming, TRUE)
<1>1. reg.devices \in ListsOf(ids)
  BY DEF Registries
<1>2. i \in DOMAIN reg.devices /\ old \in ConfigsOf(ids) /\ old.id = incoming.id
  BY <1>1, ListsOfFacts, PositionFacts
<1>3. new \in ConfigsOf(ids) /\ new.id = old.id
  <2> HIDE DEF old
  <2> QED
    BY <1>2, MergeDiscovered
<1>4. r = Rewritten(reg, i, new)
  BY DEF Merged, Rewritten
<1> HIDE DEF i, new, r
<1>5. /\ r \in Registries(ids)
      /\ r.pending = reg.pending
      /\ SameIds(r.devices, reg.devices)
      /\ r.devices[i] = new
      /\ \A j \in DOMAIN reg.devices : j # i => r.devices[j] = reg.devices[j]
  BY <1>2, <1>3, <1>4, RewrittenFacts
<1> QED
  BY <1>2, <1>5 DEF i, new, r

\* The branch of upsertManual() that finds the device.
LEMMA MergedFromUser ==
    ASSUME NEW ids, NEW reg \in Registries(ids), NEW incoming \in ConfigsOf(ids),
           Has(reg.devices, incoming.id)
    PROVE  LET i == Position(reg.devices, incoming.id)
               old == reg.devices[i]
               new == MergeInto(old, incoming, FALSE)
               r == Merged(reg, incoming, FALSE)
           IN  /\ r \in Registries(ids)
               /\ r.pending = reg.pending
               /\ SameIds(r.devices, reg.devices)
               /\ r.devices[i] = new
               /\ \A j \in DOMAIN reg.devices : j # i => r.devices[j] = reg.devices[j]
<1> DEFINE i == Position(reg.devices, incoming.id)
           old == reg.devices[i]
           new == MergeInto(old, incoming, FALSE)
           r == Merged(reg, incoming, FALSE)
<1>1. reg.devices \in ListsOf(ids)
  BY DEF Registries
<1>2. i \in DOMAIN reg.devices /\ old \in ConfigsOf(ids) /\ old.id = incoming.id
  BY <1>1, ListsOfFacts, PositionFacts
<1>3. new \in ConfigsOf(ids) /\ new.id = old.id
  <2> HIDE DEF old
  <2> QED
    BY <1>2, MergeTyped
<1>4. r = Rewritten(reg, i, new)
  BY DEF Merged, Rewritten
<1> HIDE DEF i, new, r
<1>5. /\ r \in Registries(ids)
      /\ r.pending = reg.pending
      /\ SameIds(r.devices, reg.devices)
      /\ r.devices[i] = new
      /\ \A j \in DOMAIN reg.devices : j # i => r.devices[j] = reg.devices[j]
  BY <1>2, <1>3, <1>4, RewrittenFacts
<1> QED
  BY <1>2, <1>5 DEF i, new, r

\* A merge that is not reported has changed the source at most.
LEMMA MergedQuietly ==
    ASSUME NEW ids, NEW reg \in Registries(ids), NEW incoming,
           ~Merged(reg, incoming, FALSE).ok
    PROVE  LET old == reg.devices[Position(reg.devices, incoming.id)]
               new == MergeInto(old, incoming, FALSE)
           IN  [new EXCEPT !.source = old.source] = old
BY DEF Merged, Registries

\* A refusal changes neither list.
LEMMA RefusedFacts ==
    ASSUME NEW ids, NEW reg \in Registries(ids)
    PROVE  /\ Refused(reg) \in Registries(ids)
           /\ Refused(reg).devices = reg.devices
           /\ Refused(reg).pending = reg.pending
           /\ Refused(reg).ok = FALSE
BY DEF Registries, Refused

\* The pending half of upsertDiscovered(): the entry of the device is replaced,
\* or there is one more, or the list was full.
LEMMA QueuedFacts ==
    ASSUME NEW ids, NEW reg \in Registries(ids), NEW d \in ConfigsOf(ids)
    PROVE  LET r == Queued(reg, d)
               i == Position(reg.pending, d.id)
           IN  /\ r \in Registries(ids)
               /\ r.devices = reg.devices
               /\ \/ /\ Has(reg.pending, d.id) /\ i \in DOMAIN reg.pending
                     /\ SameIds(r.pending, reg.pending)
                     /\ r.pending[i] = d
                     /\ \A j \in DOMAIN reg.pending :
                           j # i => r.pending[j] = reg.pending[j]
                  \/ /\ ~Has(reg.pending, d.id)
                     /\ r.pending = Append(reg.pending, d)
                  \/ /\ ~Has(reg.pending, d.id)
                     /\ r.pending = reg.pending
<1> DEFINE r == Queued(reg, d)
           i == Position(reg.pending, d.id)
<1>1. /\ reg.devices \in ListsOf(ids) /\ reg.pending \in ListsOf(ids)
      /\ reg.pending \in Seq(ConfigsOf(ids)) /\ Len(reg.pending) \in Nat
      /\ DOMAIN reg.pending = 1 .. Len(reg.pending)
  BY ListsOfFacts DEF Registries
<1>2. CASE Has(reg.pending, d.id)
  <2>1. i \in DOMAIN reg.pending /\ reg.pending[i].id = d.id /\ i # 0
    BY <1>1, <1>2, PositionFacts
  <2> DEFINE list == [reg.pending EXCEPT ![i] = d]
             told == \/ reg.pending[i].baseUrl # d.baseUrl
                     \/ reg.pending[i].name # d.name
  <2>2. r = [reg EXCEPT !.pending = list, !.ok = told]
    BY <2>1 DEF Queued, Registries
  <2> HIDE DEF r, i, told
  <2>3. /\ list \in ListsOf(ids) /\ SameIds(list, reg.pending) /\ list[i] = d
        /\ \A j \in DOMAIN reg.pending : j # i => list[j] = reg.pending[j]
    BY <1>1, <2>1, ReplacedFits
  <2>4. told \in BOOLEAN
    BY DEF told
  <2> HIDE DEF list
  <2>5. r \in Registries(ids) /\ r.devices = reg.devices /\ r.pending = list
    BY <1>1, <2>2, <2>3, <2>4 DEF Registries
  <2> QED
    BY <1>2, <2>1, <2>3, <2>5 DEF r, i
<1>3. CASE ~Has(reg.pending, d.id)
  <2>1. i = 0
    BY <1>1, <1>3, PositionFacts
  <2>2. CASE Len(reg.pending) >= MaxDevices
    <3>1. r = Refused(reg)
      BY <2>1, <2>2 DEF Queued
    <3> QED
      BY <1>3, <3>1, RefusedFacts
  <2>3. CASE ~(Len(reg.pending) >= MaxDevices)
    <3> DEFINE list == Append(reg.pending, d)
    <3>1. r = [reg EXCEPT !.pending = list, !.ok = TRUE]
      BY <2>1, <2>3 DEF Queued, Registries
    <3>2. list \in ListsOf(ids)
      <4>1. list \in Seq(ConfigsOf(ids)) /\ Len(list) = Len(reg.pending) + 1
        BY <1>1, AppendFacts
      <4> QED
        BY <1>1, <2>3, <4>1, CapacityAssumption DEF ListsOf
    <3> HIDE DEF list, r
    <3>3. r \in Registries(ids) /\ r.devices = reg.devices /\ r.pending = list
      BY <1>1, <3>1, <3>2 DEF Registries
    <3> QED
      BY <1>3, <3>3 DEF list, r
  <2> QED
    BY <2>2, <2>3
<1> QED
  BY <1>2, <1>3

\* upsertDiscovered() leaves a registry.
LEMMA UpsertDiscoveredType ==
    ASSUME NEW ids, NEW reg \in Registries(ids), NEW d \in ConfigsOf(ids),
           NEW auto \in BOOLEAN
    PROVE  UpsertDiscovered(reg, d, auto) \in Registries(ids)
<1>1. CASE Has(reg.devices, d.id)
  BY <1>1, MergedFromDiscovery DEF UpsertDiscovered
<1>2. CASE ~Has(reg.devices, d.id) /\ ~auto
  BY <1>2, QueuedFacts DEF UpsertDiscovered
<1>3. CASE ~Has(reg.devices, d.id) /\ auto
  BY <1>3, RefusedFacts, AddedFacts DEF UpsertDiscovered
<1> QED
  BY <1>1, <1>2, <1>3

\* remove_if() of a list that fits.
LEMMA WithoutFits ==
    ASSUME NEW ids, NEW list \in ListsOf(ids), NEW id
    PROVE  /\ Without(list, id) \in ListsOf(ids)
           /\ Selects(Without(list, id), list)
           /\ ~Has(Without(list, id), id)
           /\ \A other : other # id =>
                 (Has(Without(list, id), other) <=> Has(list, other))
<1> DEFINE rest == Without(list, id)
<1>1. list \in Seq(ConfigsOf(ids)) /\ Len(list) <= MaxDevices
  BY ListsOfFacts
<1>2. /\ rest \in Seq(ConfigsOf(ids)) /\ Len(rest) <= Len(list)
      /\ Len(rest) \in Nat /\ Len(list) \in Nat
      /\ Selects(rest, list) /\ ~Has(rest, id)
      /\ \A other : other # id => (Has(rest, other) <=> Has(list, other))
  BY <1>1, WithoutFacts, LenProperties
<1> HIDE DEF rest
<1>3. rest \in ListsOf(ids)
  BY <1>1, <1>2, CapacityAssumption DEF ListsOf
<1> QED
  BY <1>2, <1>3 DEF rest

\* What the user adds becomes a manual entry, and is not pending any more.
LEMMA UpsertManualFacts ==
    ASSUME NEW ids, NEW reg \in Registries(ids), NEW d \in ConfigsOf(ids)
    PROVE  LET r == UpsertManual(reg, d)
           IN  /\ r \in Registries(ids)
               /\ \/ Has(reg.devices, d.id) /\ r = Merged(reg, d, FALSE)
                  \/ ~Has(reg.devices, d.id) /\ r = Refused(reg)
                  \/ /\ ~Has(reg.devices, d.id)
                     /\ \E new \in ConfigsOf(ids) :
                           /\ r.devices = Append(reg.devices, new)
                           /\ new.id = d.id /\ new.source = "manual"
                           /\ new.baseUrl = d.baseUrl /\ new.token = d.token
                     /\ r.pending = Without(reg.pending, d.id)
                     /\ r.ok = TRUE
<1> DEFINE r == UpsertManual(reg, d)
<1>1. CASE Has(reg.devices, d.id)
  BY <1>1, MergedFromUser DEF UpsertManual
<1>2. CASE ~Has(reg.devices, d.id) /\ Full(reg)
  BY <1>2, RefusedFacts DEF UpsertManual
<1>3. CASE ~Has(reg.devices, d.id) /\ ~Full(reg)
  <2> DEFINE typed == [d EXCEPT !.source = "manual"]
             added == Added(reg, typed)
             rest == Without(reg.pending, d.id)
  <2>1. /\ typed \in ConfigsOf(ids) /\ typed.id = d.id /\ typed.source = "manual"
        /\ typed.baseUrl = d.baseUrl /\ typed.token = d.token
    BY DEF ConfigsOf
  <2> HIDE DEF typed
  <2>2. /\ added \in Registries(ids) /\ added.pending = reg.pending
        /\ added.ok = TRUE
        /\ \E new \in ConfigsOf(ids) :
              /\ added.devices = Append(reg.devices, new)
              /\ new.id = typed.id /\ new.source = typed.source
              /\ new.baseUrl = typed.baseUrl /\ new.token = typed.token
    BY <1>3, <2>1, AddedFacts
  <2>3. r = [added EXCEPT !.pending = rest]
    BY <1>3, <2>2 DEF UpsertManual, typed
  <2>4. rest \in ListsOf(ids)
    <3>1. reg.pending \in ListsOf(ids)
      BY DEF Registries
    <3> QED
      BY <3>1, WithoutFits
  <2> HIDE DEF added, rest, r
  <2>5. /\ r \in Registries(ids) /\ r.devices = added.devices
        /\ r.pending = rest /\ r.ok = TRUE
    BY <2>2, <2>3, <2>4 DEF Registries
  <2> QED
    BY <1>3, <2>1, <2>2, <2>5 DEF r, rest
<1> QED
  BY <1>1, <1>2, <1>3

\* remove() and reject() leave a registry.
LEMMA RemovedType ==
    ASSUME NEW ids, NEW reg \in Registries(ids), NEW id
    PROVE  /\ Removed(reg, id) \in Registries(ids)
           /\ Removed(reg, id).devices = Without(reg.devices, id)
           /\ Removed(reg, id).pending = reg.pending
           /\ Removed(reg, id).ok = Has(reg.devices, id)
           /\ Rejected(reg, id) \in Registries(ids)
           /\ Rejected(reg, id).devices = reg.devices
           /\ Rejected(reg, id).pending = Without(reg.pending, id)
<1>1. reg.devices \in ListsOf(ids) /\ reg.pending \in ListsOf(ids)
  BY DEF Registries
<1>2. Without(reg.devices, id) \in ListsOf(ids) /\ Without(reg.pending, id) \in ListsOf(ids)
  BY <1>1, WithoutFits
<1>3. Has(reg.devices, id) \in BOOLEAN /\ Has(reg.pending, id) \in BOOLEAN
  BY DEF Has
<1> QED
  BY <1>1, <1>2, <1>3 DEF Registries, Removed, Rejected

\* approve(): the entry moves to the end of the active devices.
LEMMA ApprovedFacts ==
    ASSUME NEW ids, NEW reg \in Registries(ids), NEW id
    PROVE  LET r == Approved(reg, id)
               i == Position(reg.pending, id)
           IN  /\ r \in Registries(ids)
               /\ \/ r = Refused(reg)
                  \/ /\ Has(reg.pending, id)
                     /\ i \in DOMAIN reg.pending /\ reg.pending[i].id = id
                     /\ r.pending = RemoveAt(reg.pending, i)
                     /\ \E new \in ConfigsOf(ids) :
                           /\ r.devices = Append(reg.devices, new)
                           /\ new.id = id
                           /\ new.source = reg.pending[i].source
                           /\ new.token = reg.pending[i].token
<1> DEFINE r == Approved(reg, id)
           i == Position(reg.pending, id)
<1>1. /\ reg.pending \in ListsOf(ids) /\ reg.pending \in Seq(ConfigsOf(ids))
      /\ Len(reg.pending) \in Nat /\ Len(reg.pending) <= MaxDevices
      /\ \A k \in DOMAIN reg.pending : reg.pending[k] \in ConfigsOf(ids)
  BY ListsOfFacts DEF Registries
<1>2. CASE i = 0 \/ Full(reg)
  BY <1>2, RefusedFacts DEF Approved
<1>3. CASE i # 0 /\ ~Full(reg)
  <2>1. Has(reg.pending, id) /\ i \in DOMAIN reg.pending /\ reg.pending[i].id = id
    BY <1>1, <1>3, PositionFacts
  <2> DEFINE d == reg.pending[i]
             added == Added(reg, d)
             rest == RemoveAt(reg.pending, i)
  <2>2. r = [added EXCEPT !.pending = RemoveAt(@, i)]
    BY <1>3 DEF Approved
  <2>3. d \in ConfigsOf(ids) /\ ~Full(reg) /\ d.id = id
    BY <1>1, <1>3, <2>1
  <2> HIDE DEF i, r, d
  <2>4. /\ added \in Registries(ids) /\ added.pending = reg.pending
        /\ \E new \in ConfigsOf(ids) :
              /\ added.devices = Append(reg.devices, new)
              /\ new.id = d.id /\ new.source = d.source /\ new.token = d.token
    BY <2>3, AddedFacts
  <2>5. rest \in ListsOf(ids)
    <3>1. rest \in Seq(ConfigsOf(ids)) /\ Len(rest) = Len(reg.pending) - 1
      BY <1>1, <2>1, RemoveAtFacts
    <3> QED
      BY <1>1, <3>1, CapacityAssumption DEF ListsOf
  <2> HIDE DEF added, rest
  <2>6. r \in Registries(ids) /\ r.devices = added.devices /\ r.pending = rest
    BY <2>2, <2>4, <2>5 DEF Registries, rest
  <2> QED
    BY <2>1, <2>3, <2>4, <2>6 DEF r, i, d, rest
<1> QED
  BY <1>2, <1>3

\* reorder(): the places of the devices change, nothing else.
LEMMA ReorderedFacts ==
    ASSUME NEW ids, NEW reg \in Registries(ids), NEW order \in Seq(ids)
    PROVE  LET r == Reordered(reg, order)
           IN  /\ r \in Registries(ids)
               /\ r.pending = reg.pending /\ r.ok = reg.ok
               /\ DOMAIN r.devices = DOMAIN reg.devices
               /\ \A i \in DOMAIN reg.devices :
                     \E n \in Nat : r.devices[i] = [reg.devices[i] EXCEPT !.order = n]
<1> DEFINE devices == reg.devices
           known == Known(devices, order)
           NewOrder(i) ==
              IF ~Contains(order, devices[i].id) THEN UnlistedOrder(devices, order, i)
              ELSE IF Position(devices, devices[i].id) = i
              THEN (SelectLastInSeq(known, LAMBDA id : id = devices[i].id) - 1) % Places
              ELSE devices[i].order
           list == [i \in DOMAIN devices |-> [devices[i] EXCEPT !.order = NewOrder(i)]]
           r == Reordered(reg, order)
<1>1. /\ devices \in ListsOf(ids) /\ reg.pending \in ListsOf(ids)
      /\ devices \in Seq(ConfigsOf(ids))
      /\ Len(devices) \in Nat /\ Len(devices) <= MaxDevices
      /\ DOMAIN devices = 1 .. Len(devices)
      /\ \A k \in DOMAIN devices : devices[k] \in ConfigsOf(ids)
  BY ListsOfFacts DEF Registries
<1>2. r = [reg EXCEPT !.devices = list]
  BY DEF Reordered
<1> DEFINE keep == {k \in DOMAIN order : Has(devices, order[k])}
<1>3. /\ known \in Seq(ids) /\ Len(known) \in Nat /\ DOMAIN known = 1 .. Len(known)
      /\ \E g : Traces(g, known, order, keep, Len(order))
  <2>1. known = Kept(order, keep)
    BY DEF Known
  <2>2. /\ known \in Seq(ids)
        /\ \E g : Traces(g, known, order, keep, Len(order))
    <3> HIDE DEF known, keep
    <3> QED
      BY <2>1, KeptFacts
  <2> HIDE DEF known
  <2> QED
    BY <2>2, LenProperties
<1>4. \A i \in DOMAIN devices : UnlistedOrder(devices, order, i) \in Nat
  <2> SUFFICES ASSUME NEW i \in DOMAIN devices
               PROVE  UnlistedOrder(devices, order, i) \in Nat
    OBVIOUS
  <2> DEFINE J == {j \in 1 .. i - 1 : ~Contains(order, devices[j].id)}
  <2>1. IsFiniteSet(1 .. i - 1)
    BY <1>1, FS_Interval
  <2>2. J \subseteq 1 .. i - 1
    OBVIOUS
  <2>3. Cardinality(J) \in Nat
    <3> HIDE DEF J
    <3> QED
      BY <2>1, <2>2, FS_Subset, FS_CardinalityType
  <2> DEFINE next == (Len(known) % Places) + Cardinality(J)
  <2>4. UnlistedOrder(devices, order, i) = IF next < Places THEN next ELSE Places - 1
    BY DEF UnlistedOrder
  <2> HIDE DEF J, known
  <2>5. next \in Nat
    <3>1. Len(known) % Places \in 0 .. Places - 1
      BY <1>3, PlaceFacts
    <3> QED
      BY <2>3, <3>1 DEF Places
  <2> QED
    BY <2>4, <2>5 DEF Places
<1>5. ASSUME NEW i \in DOMAIN devices, Contains(order, devices[i].id)
      PROVE  (SelectLastInSeq(known, LAMBDA id : id = devices[i].id) - 1) % Places \in Nat
  <2>1. PICK k \in 1 .. Len(order) : order[k] = devices[i].id
    BY <1>5 DEF Contains
  <2>2. k \in DOMAIN order /\ DOMAIN order = 1 .. Len(order)
    BY <2>1, LenProperties
  <2>3. k \in keep \cap (1 .. Len(order))
    BY <1>5, <2>1, <2>2 DEF Has
  <2>4. \E m \in DOMAIN known : known[m] = devices[i].id
    <3>1. PICK g : Traces(g, known, order, keep, Len(order))
      BY <1>3
    <3> HIDE DEF known, keep
    <3>2. PICK m \in 1 .. Len(known) : g[m] = k
      BY <2>3, <3>1 DEF Traces
    <3> QED
      BY <1>3, <2>1, <3>1, <3>2 DEF Traces
  <2> DEFINE I == {m \in 1 .. Len(known) : known[m] = devices[i].id}
  <2>5. SelectLastInSeq(known, LAMBDA id : id = devices[i].id) = Max(I)
    <3>1. I # {}
      BY <1>3, <2>4
    <3> QED
      BY <3>1 DEF SelectLastInSeq
  <2>6. Max(I) \in 1 .. Len(known)
    <3>1. I # {} /\ I \subseteq 1 .. Len(known)
      BY <1>3, <2>4
    <3> HIDE DEF I, known
    <3>2. Max(I) \in I
      BY <1>3, <3>1, GreatestNumber
    <3> QED
      BY <3>1, <3>2
  <2> HIDE DEF known, I
  <2>7. (Max(I) - 1) % Places \in Nat
    <3>1. Max(I) - 1 \in Nat
      BY <1>3, <2>6
    <3> QED
      BY <3>1, PlaceFacts
  <2> QED
    BY <2>5, <2>7
<1>6. \A i \in DOMAIN devices : NewOrder(i) \in Nat
  BY <1>1, <1>4, <1>5 DEF ConfigsOf
<1> HIDE DEF NewOrder, r
<1>7. \A i \in DOMAIN devices :
         /\ list[i] = [devices[i] EXCEPT !.order = NewOrder(i)]
         /\ list[i] \in ConfigsOf(ids)
  BY <1>1, <1>6 DEF ConfigsOf
<1>8. list \in ListsOf(ids)
  <2>1. list \in [1 .. Len(devices) -> ConfigsOf(ids)]
    BY <1>1, <1>7
  <2> HIDE DEF list
  <2>2. list \in Seq(ConfigsOf(ids)) /\ Len(list) = Len(devices)
    BY <1>1, <2>1, IsASeq, LenProperties
  <2> QED
    BY <1>1, <2>2 DEF ListsOf
<1>9. DOMAIN list = DOMAIN devices
  OBVIOUS
<1> HIDE DEF list, devices
<1>10. /\ r \in Registries(ids) /\ r.devices = list
       /\ r.pending = reg.pending /\ r.ok = reg.ok
  BY <1>1, <1>2, <1>8 DEF Registries
<1> QED
  BY <1>6, <1>7, <1>9, <1>10 DEF r, devices

\* loadConfigs(): the beginning of a list of any length.
LEMMA LoadedFacts ==
    ASSUME NEW ids, NEW reg \in Registries(ids), NEW configs \in Seq(ConfigsOf(ids))
    PROVE  /\ Loaded(reg, configs) \in Registries(ids)
           /\ Loaded(reg, configs).pending = reg.pending
           /\ Selects(Loaded(reg, configs).devices, configs)
<1> DEFINE n == IF Len(configs) < MaxDevices THEN Len(configs) ELSE MaxDevices
           list == SubSeq(configs, 1, n)
<1>1. Len(configs) \in Nat /\ n \in 0 .. Len(configs) /\ n <= MaxDevices
  BY LenProperties, CapacityAssumption
<1>2. Loaded(reg, configs) = [reg EXCEPT !.devices = list]
  BY DEF Loaded
<1> HIDE DEF n
<1>3. list \in Seq(ConfigsOf(ids)) /\ Len(list) = n /\ Selects(list, configs)
  BY <1>1, PrefixFacts
<1> HIDE DEF list
<1>4. list \in ListsOf(ids)
  BY <1>1, <1>3 DEF ListsOf
<1> QED
  BY <1>2, <1>3, <1>4 DEF Registries

\* applySample(): nothing but names.
LEMMA SampledFacts ==
    ASSUME NEW ids, NEW reg \in Registries(ids), NEW id, NEW agentName \in Nat
    PROVE  LET r == Sampled(reg, id, agentName)
           IN  /\ r \in Registries(ids)
               /\ r.pending = reg.pending
               /\ SameIds(r.devices, reg.devices)
               /\ \A k \in DOMAIN reg.devices :
                     \E n \in Nat : r.devices[k] = [reg.devices[k] EXCEPT !.name = n]
<1> DEFINE r == Sampled(reg, id, agentName)
           i == Position(reg.devices, id)
<1>1. /\ reg.devices \in ListsOf(ids) /\ reg.pending \in ListsOf(ids)
      /\ reg.devices \in Seq(ConfigsOf(ids))
      /\ \A k \in DOMAIN reg.devices : reg.devices[k] \in ConfigsOf(ids)
  BY ListsOfFacts DEF Registries
<1>2. \A k \in DOMAIN reg.devices :
         /\ reg.devices[k].name \in Nat
         /\ reg.devices[k] = [reg.devices[k] EXCEPT !.name = reg.devices[k].name]
  BY <1>1 DEF ConfigsOf
<1>3. CASE r = reg
  BY <1>2, <1>3 DEF SameIds
<1>4. CASE i # 0 /\ r = [reg EXCEPT !.devices[i].name = agentName]
  <2> DEFINE new == [reg.devices[i] EXCEPT !.name = agentName]
             list == [reg.devices EXCEPT ![i] = new]
  <2>1. i \in DOMAIN reg.devices
    BY <1>1, <1>4, PositionFacts
  <2>2. new \in ConfigsOf(ids) /\ new.id = reg.devices[i].id
    BY <1>1, <2>1 DEF ConfigsOf
  <2>3. r = [reg EXCEPT !.devices = list]
    BY <1>4 DEF Registries
  <2> HIDE DEF i, r, new
  <2>4. /\ list \in ListsOf(ids) /\ SameIds(list, reg.devices) /\ list[i] = new
        /\ \A j \in DOMAIN reg.devices : j # i => list[j] = reg.devices[j]
    BY <1>1, <2>1, <2>2, ReplacedFits
  <2> HIDE DEF list
  <2>5. r \in Registries(ids) /\ r.pending = reg.pending /\ r.devices = list
    BY <1>1, <2>3, <2>4 DEF Registries
  <2>6. ASSUME NEW k \in DOMAIN reg.devices
        PROVE  \E n \in Nat : list[k] = [reg.devices[k] EXCEPT !.name = n]
    <3>1. CASE k = i
      BY <2>4, <3>1 DEF new
    <3>2. CASE k # i
      BY <1>2, <2>4, <3>2
    <3> QED
      BY <3>1, <3>2
  <2> QED
    BY <2>4, <2>5, <2>6 DEF r
<1> QED
  BY <1>3, <1>4 DEF Sampled

\* A PUT of one field: the id and the source stay, an address and a token are
\* what the request says.
LEMMA EditedFacts ==
    ASSUME NEW ids, NEW reg \in Registries(ids), NEW id, Has(reg.devices, id),
           NEW field, NEW value,
           \/ /\ field \in {"name", "alias", "baseUrl", "auth", "token", "order"}
              /\ value \in Nat
           \/ field = "shown" /\ value \in BOOLEAN
    PROVE  LET r == Edited(reg, id, field, value)
               i == Position(reg.devices, id)
               old == reg.devices[i]
               new == r.devices[i]
           IN  /\ r \in Registries(ids)
               /\ r.pending = reg.pending
               /\ SameIds(r.devices, reg.devices)
               /\ \A j \in DOMAIN reg.devices : j # i => r.devices[j] = reg.devices[j]
               /\ new.source = old.source
               /\ new.baseUrl = IF field = "baseUrl" THEN value ELSE old.baseUrl
               /\ new.token = IF field = "token" THEN value ELSE old.token
<1> DEFINE r == Edited(reg, id, field, value)
           i == Position(reg.devices, id)
           old == reg.devices[i]
           new == [old EXCEPT ![field] = value]
           list == [reg.devices EXCEPT ![i] = new]
<1>1. /\ reg.devices \in ListsOf(ids) /\ reg.pending \in ListsOf(ids)
      /\ reg.devices \in Seq(ConfigsOf(ids))
      /\ \A k \in DOMAIN reg.devices : reg.devices[k] \in ConfigsOf(ids)
  BY ListsOfFacts DEF Registries
<1>2. i \in DOMAIN reg.devices /\ i # 0
  <2>1. reg.devices \in Seq(ConfigsOf(ids)) /\ DOMAIN reg.devices = 1 .. Len(reg.devices)
    BY <1>1, LenProperties
  <2> QED
    BY <2>1, PositionFacts
<1>3. /\ new \in ConfigsOf(ids) /\ new.id = old.id /\ new.source = old.source
      /\ new.baseUrl = IF field = "baseUrl" THEN value ELSE old.baseUrl
      /\ new.token = IF field = "token" THEN value ELSE old.token
  <2>1. old \in ConfigsOf(ids)
    BY <1>1, <1>2
  <2> HIDE DEF old
  <2>2. CASE field = "name"
    BY <2>1, <2>2 DEF ConfigsOf
  <2>3. CASE field = "alias"
    BY <2>1, <2>3 DEF ConfigsOf
  <2>4. CASE field = "baseUrl"
    BY <2>1, <2>4 DEF ConfigsOf
  <2>5. CASE field = "auth"
    BY <2>1, <2>5 DEF ConfigsOf
  <2>6. CASE field = "token"
    BY <2>1, <2>6 DEF ConfigsOf
  <2>7. CASE field = "order"
    BY <2>1, <2>7 DEF ConfigsOf
  <2>8. CASE field = "shown"
    BY <2>1, <2>8 DEF ConfigsOf
  <2> QED
    BY <2>2, <2>3, <2>4, <2>5, <2>6, <2>7, <2>8
<1>4. r = [reg EXCEPT !.devices = list, !.ok = TRUE]
  BY <1>2 DEF Edited, Registries
<1> HIDE DEF new, r, i
<1>5. /\ list \in ListsOf(ids) /\ SameIds(list, reg.devices) /\ list[i] = new
      /\ \A j \in DOMAIN reg.devices : j # i => list[j] = reg.devices[j]
  BY <1>1, <1>2, <1>3, ReplacedFits
<1> HIDE DEF list
<1>6. r \in Registries(ids) /\ r.pending = reg.pending /\ r.devices = list
  BY <1>1, <1>4, <1>5 DEF Registries
<1> QED
  BY <1>3, <1>5, <1>6 DEF r, i, old

\* visibleOrder() lists each shown device once, and what it lists earlier comes
\* before what it lists later.  (The rank of a device counts those before it;
\* it is smaller the earlier the device comes, so no rank is left out.)
LEMMA VisibleOrderFacts ==
    ASSUME NEW ids, NEW devices \in Seq(ConfigsOf(ids))
    PROVE  LET v == VisibleOrder(devices)
           IN  /\ \A k \in DOMAIN v : v[k] \in Shown(devices)
               /\ \A j, k \in DOMAIN v : j < k => Before(devices, v[j], v[k])
<1> DEFINE S == Shown(devices)
           n == Cardinality(S)
           P(i) == {j \in S : Before(devices, j, i)}
           v == VisibleOrder(devices)
<1>1. /\ Len(devices) \in Nat /\ DOMAIN devices = 1 .. Len(devices)
      /\ \A i \in DOMAIN devices : devices[i] \in ConfigsOf(ids)
  BY LenProperties, ElementOfSeq
<1>2. /\ S \subseteq Nat
      /\ \A i \in S : /\ devices[i].order \in Nat
                      /\ Label(devices[i]) \in Nat
  <2>1. \A i \in S : i \in DOMAIN devices
    BY DEF Shown
  <2> HIDE DEF S
  <2> QED
    <3>1. S \subseteq Nat
      BY <1>1, <2>1
    <3>2. ASSUME NEW i \in S
          PROVE  devices[i].order \in Nat /\ Label(devices[i]) \in Nat
      <4>1. devices[i] \in ConfigsOf(ids)
        BY <1>1, <2>1
      <4> QED
        BY <4>1 DEF ConfigsOf, Label
    <3> QED
      BY <3>1, <3>2
<1>3. IsFiniteSet(S) /\ n \in Nat
  <2>1. IsFiniteSet(1 .. Len(devices))
    BY <1>1, FS_Interval
  <2>2. S \in SUBSET (1 .. Len(devices))
    BY <1>1 DEF Shown
  <2> HIDE DEF S
  <2> QED
    BY <2>1, <2>2, FS_Subset, FS_CardinalityType
<1> HIDE DEF S
<1>4. \A i \in S : ~Before(devices, i, i)
  BY <1>2 DEF Before
<1>5. \A i, j \in S : i = j \/ Before(devices, i, j) \/ Before(devices, j, i)
  BY <1>2 DEF Before
<1>6. \A h, i, j \in S :
         Before(devices, h, i) /\ Before(devices, i, j) => Before(devices, h, j)
  BY <1>2 DEF Before
<1>7. \A i \in S : Rank(devices, i) = Cardinality(P(i))
  BY DEF Rank, S
<1>8. ASSUME NEW i \in S
      PROVE  IsFiniteSet(P(i)) /\ Cardinality(P(i)) \in 0 .. n - 1
  <2>1. P(i) \in SUBSET (S \ {i})
    BY <1>4
  <2>2. IsFiniteSet(S \ {i}) /\ Cardinality(S \ {i}) = n - 1
    BY <1>3, FS_RemoveElement
  <2> HIDE DEF P, n
  <2>3. IsFiniteSet(P(i)) /\ Cardinality(P(i)) <= n - 1
    BY <2>1, <2>2, FS_Subset
  <2>4. Cardinality(P(i)) \in Nat
    BY <2>3, FS_CardinalityType
  <2> QED
    BY <1>3, <2>3, <2>4
<1>9. ASSUME NEW i \in S, NEW j \in S, Before(devices, i, j)
      PROVE  Cardinality(P(i)) < Cardinality(P(j))
  <2>1. P(i) \in SUBSET P(j)
    BY <1>6, <1>9
  <2>2. i \in P(j) /\ i \notin P(i)
    BY <1>4, <1>9
  <2>3. P(j) # P(i)
    BY <2>2
  <2> HIDE DEF P, n
  <2>4. /\ Cardinality(P(i)) <= Cardinality(P(j))
        /\ Cardinality(P(j)) # Cardinality(P(i))
    BY <1>8, <2>1, <2>3, FS_Subset
  <2> QED
    BY <1>3, <1>8, <2>4
<1> DEFINE rank == [i \in S |-> Cardinality(P(i))]
<1>10. rank \in Injection(S, 0 .. n - 1)
  <2>1. rank \in [S -> 0 .. n - 1]
    BY <1>8
  <2>2. ASSUME NEW i \in S, NEW j \in S, rank[i] = rank[j]
        PROVE  i = j
    <3>1. Cardinality(P(i)) = Cardinality(P(j))
      BY <2>2
    <3> HIDE DEF P, n
    <3>2. Cardinality(P(i)) \in Int /\ Cardinality(P(j)) \in Int
      <4>1. Cardinality(P(i)) \in 0 .. n - 1 /\ Cardinality(P(j)) \in 0 .. n - 1
        BY <1>8
      <4> QED
        BY <1>3, <4>1
    <3> QED
      BY <1>5, <1>9, <3>1, <3>2
  <2> HIDE DEF rank
  <2> QED
    BY <2>1, <2>2 DEF Injection, IsInjective
<1>11. rank \in Surjection(S, 0 .. n - 1)
  <2>1. IsFiniteSet(0 .. n - 1) /\ Cardinality(0 .. n - 1) = n
    <3> HIDE DEF n
    <3>1. /\ 0 \in Int /\ n - 1 \in Int
      BY <1>3
    <3>2. /\ IsFiniteSet(0 .. n - 1)
          /\ Cardinality(0 .. n - 1) = IF 0 > n - 1 THEN 0 ELSE (n - 1) - 0 + 1
      BY <3>1, FS_Interval
    <3> QED
      BY <1>3, <3>2
  <2> HIDE DEF rank
  <2> QED
    BY <1>10, <2>1, FS_Injection
<1>12. \A k \in 1 .. n : \E i \in S : Cardinality(P(i)) = k - 1
  <2> SUFFICES ASSUME NEW k \in 1 .. n
               PROVE  \E i \in S : Cardinality(P(i)) = k - 1
    OBVIOUS
  <2>1. k - 1 \in 0 .. n - 1
    BY <1>3
  <2>2. \E i \in S : rank[i] = k - 1
    <3> HIDE DEF rank
    <3> QED
      BY <1>11, <2>1 DEF Surjection
  <2> HIDE DEF P
  <2> QED
    BY <2>2
<1>13. /\ DOMAIN v = 1 .. n
       /\ \A k \in 1 .. n : v[k] = CHOOSE i \in S : Rank(devices, i) = k - 1
  BY DEF VisibleOrder, S
<1> HIDE DEF P, v, n
<1>14. \A k \in 1 .. n : v[k] \in S /\ Cardinality(P(v[k])) = k - 1
  BY <1>7, <1>12, <1>13
<1>15. ASSUME NEW j \in 1 .. n, NEW k \in 1 .. n, j < k
       PROVE  Before(devices, v[j], v[k])
  <2>1. /\ v[j] \in S /\ v[k] \in S
        /\ Cardinality(P(v[j])) = j - 1 /\ Cardinality(P(v[k])) = k - 1
    BY <1>14
  <2>2. /\ ~(Cardinality(P(v[k])) < Cardinality(P(v[j])))
        /\ v[j] # v[k]
    BY <1>3, <1>15, <2>1
  <2> QED
    BY <1>5, <1>9, <2>1, <2>2
<1> QED
  BY <1>13, <1>14, <1>15 DEF v, S

\* Where x is named.
Mentions(list, x) == {m \in 1 .. Len(list) : list[m] = x}

\* What names x at all has a last place that does.
LEMMA LastFacts ==
    ASSUME NEW S, NEW list \in Seq(S), NEW x, Contains(list, x)
    PROVE  /\ SelectLastInSeq(list, LAMBDA e : e = x) = Max(Mentions(list, x))
           /\ Max(Mentions(list, x)) \in 1 .. Len(list)
           /\ list[Max(Mentions(list, x))] = x
           /\ \A m \in 1 .. Len(list) : list[m] = x => m <= Max(Mentions(list, x))
<1>1. Len(list) \in Nat
  BY LenProperties
<1>2. Mentions(list, x) # {}
  BY DEF Contains, Mentions
<1>3. /\ Max(Mentions(list, x)) \in Mentions(list, x)
      /\ \A m \in Mentions(list, x) : Max(Mentions(list, x)) >= m
  <2>1. Mentions(list, x) \subseteq 1 .. Len(list)
    BY DEF Mentions
  <2> QED
    BY <1>1, <1>2, <2>1, GreatestNumber
<1>4. SelectLastInSeq(list, LAMBDA e : e = x) = Max(Mentions(list, x))
  <2> DEFINE I == {i \in 1 .. Len(list) : list[i] = x}
  <2>1. I # {}
    BY <1>2 DEF Mentions
  <2>2. SelectLastInSeq(list, LAMBDA e : e = x) = Max(I)
    BY <2>1 DEF SelectLastInSeq
  <2> QED
    BY <2>2 DEF Mentions
<1>5. /\ Max(Mentions(list, x)) \in 1 .. Len(list)
      /\ list[Max(Mentions(list, x))] = x
  BY <1>3 DEF Mentions
<1>6. ASSUME NEW m \in 1 .. Len(list), list[m] = x
      PROVE  m <= Max(Mentions(list, x))
  <2>1. m \in Mentions(list, x)
    BY <1>6 DEF Mentions
  <2>2. Max(Mentions(list, x)) >= m
    BY <1>3, <2>1
  <2> QED
    BY <1>1, <1>5, <2>2
<1> QED
  BY <1>4, <1>5, <1>6

\* The device of entry i is named by the request.
Listed(devices, order, i) == Contains(order, devices[i].id)

\* reorder() gives the listed devices the first places, in the order they are
\* mentioned last; a request that mentions more devices than a uint8_t counts
\* starts the numbers again.
LEMMA ReorderedNumbers ==
    ASSUME NEW ids, NEW reg \in Registries(ids), NEW order \in Seq(ids),
           Len(order) < Places,
           \A i, j \in DOMAIN reg.devices : reg.devices[i].id = reg.devices[j].id => i = j,
           NEW i \in DOMAIN reg.devices, NEW j \in DOMAIN reg.devices, i # j,
           Listed(reg.devices, order, j),
           Reordered(reg, order).devices[i].order <= Reordered(reg, order).devices[j].order
    PROVE  /\ Listed(reg.devices, order, i)
           /\ Max(Mentions(order, reg.devices[i].id)) < Max(Mentions(order, reg.devices[j].id))
<1> DEFINE devices == reg.devices
           known == Known(devices, order)
           keep == {k \in DOMAIN order : Has(devices, order[k])}
           last(k) == Max(Mentions(known, devices[k].id))
           place(k) == Reordered(reg, order).devices[k].order
<1>1. /\ devices \in Seq(ConfigsOf(ids))
      /\ Len(devices) \in Nat /\ DOMAIN devices = 1 .. Len(devices)
      /\ \A k \in DOMAIN devices : devices[k] \in ConfigsOf(ids)
  BY ListsOfFacts DEF Registries
<1>2. Len(order) \in Nat /\ DOMAIN order = 1 .. Len(order)
  BY LenProperties
<1>3. /\ known \in Seq(ids) /\ Len(known) <= Len(order)
      /\ \E g : Traces(g, known, order, keep, Len(order))
  <2>1. known = Kept(order, keep)
    BY DEF Known
  <2> HIDE DEF known, keep
  <2> QED
    BY <2>1, KeptFacts
<1>4. Len(known) \in Nat /\ Len(known) < Places
  <2> HIDE DEF known
  <2>1. Len(known) \in Nat
    BY <1>3, LenProperties
  <2> QED
    BY <1>2, <1>3, <2>1 DEF Places
<1>5. ASSUME NEW k \in DOMAIN devices
      PROVE  place(k) = IF ~Listed(devices, order, k) THEN UnlistedOrder(devices, order, k)
                        ELSE IF Position(devices, devices[k].id) = k
                        THEN (SelectLastInSeq(known, LAMBDA e : e = devices[k].id) - 1) % Places
                        ELSE devices[k].order
  <2> DEFINE new(m) ==
          IF ~Contains(order, devices[m].id) THEN UnlistedOrder(devices, order, m)
          ELSE IF Position(devices, devices[m].id) = m
          THEN (SelectLastInSeq(known, LAMBDA e : e = devices[m].id) - 1) % Places
          ELSE devices[m].order
      list == [m \in DOMAIN devices |-> [devices[m] EXCEPT !.order = new(m)]]
  <2>1. Reordered(reg, order) = [reg EXCEPT !.devices = list]
    BY DEF Reordered
  <2> HIDE DEF new
  <2>2. Reordered(reg, order).devices = list
    <3> HIDE DEF list
    <3> QED
      BY <2>1 DEF Registries
  <2>3. list[k].order = new(k)
    BY <1>1, <1>5 DEF ConfigsOf
  <2>4. place(k) = new(k)
    BY <2>2, <2>3
  <2> QED
    BY <2>4 DEF new, Listed
<1> HIDE DEF place
<1>6. ASSUME NEW k \in DOMAIN devices, ~Listed(devices, order, k)
      PROVE  place(k) \in Nat /\ place(k) >= Len(known)
  <2> DEFINE J == {m \in 1 .. k - 1 : ~Contains(order, devices[m].id)}
             next == (Len(known) % Places) + Cardinality(J)
  <2>1. IsFiniteSet(1 .. k - 1) /\ J \in SUBSET (1 .. k - 1)
    <3>1. k - 1 \in Int
      BY <1>1
    <3> QED
      BY <3>1, FS_Interval
  <2>2. Cardinality(J) \in Nat
    <3> HIDE DEF J
    <3> QED
      BY <2>1, FS_Subset, FS_CardinalityType
  <2>3. place(k) = IF next < Places THEN next ELSE Places - 1
    <3>1. place(k) = UnlistedOrder(devices, order, k)
      BY <1>5, <1>6
    <3> QED
      BY <3>1 DEF UnlistedOrder
  <2> HIDE DEF J, known
  <2>4. Len(known) % Places = Len(known)
    BY <1>4, PlaceFacts
  <2> QED
    BY <1>4, <2>2, <2>3, <2>4 DEF Places
<1>7. ASSUME NEW k \in DOMAIN devices, Listed(devices, order, k)
      PROVE  Contains(known, devices[k].id)
  <2>1. PICK g : Traces(g, known, order, keep, Len(order))
    BY <1>3
  <2>2. PICK q \in 1 .. Len(order) : order[q] = devices[k].id
    BY <1>7 DEF Listed, Contains
  <2>3. q \in keep \cap (1 .. Len(order))
    BY <1>2, <1>7, <2>2 DEF Has
  <2> HIDE DEF known, keep
  <2>4. PICK m \in 1 .. Len(known) : g[m] = q
    BY <2>1, <2>3 DEF Traces
  <2>5. known[m] = devices[k].id
    BY <2>1, <2>2, <2>4 DEF Traces
  <2> QED
    BY <2>5 DEF Contains
<1>8. ASSUME NEW k \in DOMAIN devices, Listed(devices, order, k)
      PROVE  /\ last(k) \in 1 .. Len(known) /\ known[last(k)] = devices[k].id
             /\ \A m \in 1 .. Len(known) : known[m] = devices[k].id => m <= last(k)
             /\ place(k) = last(k) - 1
  <2>1. Contains(known, devices[k].id)
    BY <1>7, <1>8
  <2> HIDE DEF known
  <2>2. /\ SelectLastInSeq(known, LAMBDA e : e = devices[k].id) = last(k)
        /\ last(k) \in 1 .. Len(known) /\ known[last(k)] = devices[k].id
        /\ \A m \in 1 .. Len(known) : known[m] = devices[k].id => m <= last(k)
    BY <1>3, <2>1, LastFacts
  <2>3. Position(devices, devices[k].id) = k
    <3>1. Has(devices, devices[k].id)
      BY <1>8 DEF Has
    <3> QED
      BY <1>1, <3>1, PositionFacts
  <2>4. place(k) = (last(k) - 1) % Places
    BY <1>5, <1>8, <2>2, <2>3
  <2> HIDE DEF last
  <2>5. last(k) - 1 \in Nat /\ last(k) - 1 < Places
    BY <1>4, <2>2 DEF Places
  <2>6. (last(k) - 1) % Places = last(k) - 1
    BY <2>5, PlaceFacts
  <2> QED
    BY <2>2, <2>4, <2>6
<1>9. PICK g : Traces(g, known, order, keep, Len(order))
  BY <1>3
<1>10. ASSUME NEW k \in DOMAIN devices, Listed(devices, order, k)
       PROVE  Max(Mentions(order, devices[k].id)) = g[last(k)]
  <2> DEFINE x == devices[k].id
             M == Max(Mentions(order, x))
  <2>1. Contains(order, x)
    BY <1>10 DEF Listed
  <2>2. /\ M \in 1 .. Len(order) /\ order[M] = x
        /\ \A q \in 1 .. Len(order) : order[q] = x => q <= M
    <3> HIDE DEF x
    <3> QED
      BY <2>1, LastFacts
  <2>3. M \in keep \cap (1 .. Len(order))
    <3>1. Has(devices, order[M])
      BY <1>10, <2>2 DEF Has
    <3> HIDE DEF M
    <3> QED
      BY <1>2, <2>2, <3>1
  <2> HIDE DEF M, known, keep, last
  <2>4. PICK m \in 1 .. Len(known) : g[m] = M
    BY <1>9, <2>3 DEF Traces
  <2>5. known[m] = x
    BY <1>9, <2>2, <2>4 DEF Traces
  <2>6. m <= last(k) /\ last(k) \in 1 .. Len(known)
    BY <1>8, <1>10, <2>5
  <2>7. g[last(k)] \in 1 .. Len(order) /\ order[g[last(k)]] = x
    BY <1>8, <1>9, <1>10 DEF Traces
  <2>8. g[last(k)] <= M
    BY <2>2, <2>7
  <2>9. m < last(k) => g[m] < g[last(k)]
    BY <1>9, <2>4, <2>6 DEF Traces
  <2>10. m = last(k) \/ m < last(k)
    BY <1>4, <2>4, <2>6
  <2> QED
    BY <1>2, <2>2, <2>4, <2>7, <2>8, <2>9, <2>10 DEF M
<1>11. place(i) <= place(j)
  BY DEF place
<1>12. Listed(devices, order, i)
  <2>1. ASSUME ~Listed(devices, order, i)
        PROVE  FALSE
    <3>1. place(i) \in Nat /\ place(i) >= Len(known)
      BY <1>6, <2>1
    <3>2. place(j) = last(j) - 1 /\ last(j) \in 1 .. Len(known)
      BY <1>8
    <3> HIDE DEF known, last
    <3> QED
      BY <1>4, <1>11, <3>1, <3>2
  <2> QED
    BY <2>1
<1>13. last(i) < last(j)
  <2>1. /\ place(i) = last(i) - 1 /\ place(j) = last(j) - 1
        /\ last(i) \in 1 .. Len(known) /\ last(j) \in 1 .. Len(known)
        /\ known[last(i)] = devices[i].id /\ known[last(j)] = devices[j].id
    BY <1>8, <1>12
  <2>2. last(i) # last(j)
    BY <2>1
  <2> HIDE DEF known, last
  <2> QED
    BY <1>4, <1>11, <2>1, <2>2
<1>14. g[last(i)] < g[last(j)]
  <2>1. last(i) \in 1 .. Len(known) /\ last(j) \in 1 .. Len(known)
    BY <1>8, <1>12
  <2> HIDE DEF known, last, keep
  <2> QED
    BY <1>9, <1>13, <2>1 DEF Traces
<1> QED
  BY <1>10, <1>12, <1>14
=============================================================================
