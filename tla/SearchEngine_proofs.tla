------------------------ MODULE SearchEngine_proofs ------------------------
(***************************************************************************)
(* Proofs about SearchEngine, for any applications, folders and commands,  *)
(* any queries, any number of searches at once and any limit on the page.  *)
(*                                                                         *)
(* The operators come first: sorting gives each row a place of its own and *)
(* keeps the order of equal rows, and Merge, a fold, keeps the page that   *)
(* is there and leaves a row out only for a reason.  Then the invariants:  *)
(* TypeInv (what a call holds in each state), RankInv (what each call      *)
(* knows of the usage) and PageInv (the page is the merge so far).         *)
(* Last comes the calculator: both its parser and its reference are        *)
(* functions that recurse over shrinking work, which exist by induction;   *)
(* what the parser returns is a meaning by induction over its calls, and   *)
(* each meaning is returned by induction over the width of parts.          *)
(***************************************************************************)
EXTENDS SearchEngine, TLAPS, WellFoundedInduction, FiniteSetTheorems

\* Induction over the numbers, for a set: WFMin takes no operator.
LEMMA SetInduction ==
  ASSUME NEW T, 0 \in T, \A n \in Nat : n \in T => n + 1 \in T
  PROVE  \A n \in Nat : n \in T
<1> DEFINE R == {ss \in Nat \X Nat : ss[1] < ss[2]}
           D == Nat \ T
<1>1. IsWellFoundedOn(R, Nat)
  BY NatLessThanWellFounded DEF OpToRel
<1> SUFFICES ASSUME D # {} PROVE FALSE
  OBVIOUS
<1>2. PICK x \in D : \A y \in D : <<y, x>> \notin R
  <2>1. D \subseteq Nat
    OBVIOUS
  <2> HIDE DEF D, R
  <2> QED
    BY <1>1, <2>1, WFMin
<1>3. x - 1 \in Nat /\ x - 1 + 1 = x /\ <<x - 1, x>> \in R
  BY <1>2
<1> QED
  BY <1>2, <1>3

InRank(rows) == Sorted(rows, Above)

Keep(acc, r) ==
  IF Len(acc) = Limit \/ \E i \in DOMAIN acc : acc[i].id = r.id
  THEN acc ELSE Append(acc, r)

\* The greatest of some numbers up to n, when n is one of them.
LEMMA GreatestOf ==
  ASSUME NEW n \in Nat, NEW S, S \subseteq 1..n, n \in S
  PROVE  Max(S) = n
<1>1. \A y \in S : n >= y
  OBVIOUS
<1>2. \A x \in S : (\A y \in S : x >= y) => x = n
  OBVIOUS
<1> QED
  BY <1>1, <1>2 DEF Max

\* f[n] is what Merge has made of out once it has looked at n rows.
MergedBy(out, rows, L, f) ==
  /\ f[0] = out
  /\ \A n \in 1..L : f[n] = Keep(f[n - 1], InRank(rows)[n])
  /\ Merge(out, rows) = f[L]

\* Such an f exists, for the rows in order.
LEMMA MergeFold ==
  ASSUME NEW out, NEW rows, NEW L \in Nat, DOMAIN InRank(rows) = 1..L
  PROVE  \E f : MergedBy(out, rows, L, f)
<1> DEFINE new == InRank(rows)
           iter[s \in SUBSET DOMAIN new] ==
             IF s = {} THEN out ELSE Keep(iter[s \ {Max(s)}], new[Max(s)])
<1>1. Merge(out, rows) = iter[DOMAIN new]
  BY Zenon DEF Merge, FoldLeft, MapThenFoldSet, Keep, InRank
<1> DEFINE Body(n, g) == [s \in SUBSET (1..n) |->
                           IF s = {} THEN out ELSE Keep(g[s \ {Max(s)}], new[Max(s)])]
           T == {n \in Nat : \E g : g = Body(n, g)}
<1>2. 0 \in T
  <2> DEFINE g == [s \in SUBSET (1..0) |-> out]
  <2>1. SUBSET (1..0) = {{}}
    OBVIOUS
  <2>2. g = Body(0, g)
    BY <2>1
  <2> QED
    BY <2>2
<1>3. \A n \in Nat : n \in T => n + 1 \in T
  <2> SUFFICES ASSUME NEW n \in Nat, n \in T PROVE n + 1 \in T
    OBVIOUS
  <2>1. PICK g : g = Body(n, g)
    OBVIOUS
  <2> DEFINE Extended(s) == IF n + 1 \in s THEN Keep(g[s \ {n + 1}], new[n + 1]) ELSE g[s]
             h == [s \in SUBSET (1..(n + 1)) |-> Extended(s)]
  <2>2. \A s \in SUBSET (1..(n + 1)) : h[s] = Extended(s)
    OBVIOUS
  <2>3. ASSUME NEW s \in SUBSET (1..(n + 1)), n + 1 \in s
        PROVE  h[s] = Keep(h[s \ {Max(s)}], new[Max(s)])
    <3>1. Max(s) = n + 1
      <4>1. n + 1 \in Nat /\ s \subseteq 1..(n + 1)
        OBVIOUS
      <4> HIDE DEF Extended, h, new, T, Body
      <4> QED
        BY <2>3, <4>1, GreatestOf
    <3>2. s \ {n + 1} \in SUBSET (1..(n + 1)) /\ n + 1 \notin s \ {n + 1}
      OBVIOUS
    <3>3. h[s \ {n + 1}] = g[s \ {n + 1}]
      BY <2>2, <3>2
    <3> QED
      BY <2>2, <2>3, <3>1, <3>3
  <2>4. ASSUME NEW s \in SUBSET (1..(n + 1)), n + 1 \notin s, s # {}
        PROVE  h[s] = Keep(h[s \ {Max(s)}], new[Max(s)])
    <3>1. s \in SUBSET (1..n)
      BY <2>4
    <3>2. g[s] = Keep(g[s \ {Max(s)}], new[Max(s)])
      <4> HIDE DEF Extended, h, new, T
      <4> QED
      BY <2>1, <2>4, <3>1
    <3>3. s \ {Max(s)} \in SUBSET (1..(n + 1)) /\ n + 1 \notin s \ {Max(s)}
      BY <2>4
    <3>4. h[s \ {Max(s)}] = g[s \ {Max(s)}] /\ h[s] = g[s]
      BY <2>2, <2>4, <3>3
    <3> QED
      BY <3>2, <3>4
  <2>5. h[{}] = out
    <3>1. g[{}] = out
      <4> HIDE DEF Extended, h, new, T
      <4> QED
      BY <2>1
    <3> QED
      BY <2>2, <3>1
  <2>6. h = Body(n + 1, h)
    <3> HIDE DEF h
    <3>1. h = [s \in SUBSET (1..(n + 1)) |-> h[s]]
      BY DEF h
    <3>2. \A s \in SUBSET (1..(n + 1)) :
            h[s] = IF s = {} THEN out ELSE Keep(h[s \ {Max(s)}], new[Max(s)])
      BY <2>3, <2>4, <2>5
    <3> QED
      BY <3>1, <3>2
  <2> HIDE DEF h, Extended, Body
  <2> QED
    BY <2>6
<1>4. \E g : g = Body(L, g)
  <2> HIDE DEF T
  <2>1. L \in T
    BY <1>2, <1>3, SetInduction
  <2> QED
    BY <2>1 DEF T
<1>5. iter = Body(L, iter)
  <2>1. DOMAIN new = 1..L
    OBVIOUS
  <2>2. \E g : g = [s \in SUBSET DOMAIN new |->
                      IF s = {} THEN out ELSE Keep(g[s \ {Max(s)}], new[Max(s)])]
    BY <1>4, <2>1
  <2>3. iter = [s \in SUBSET DOMAIN new |->
                  IF s = {} THEN out ELSE Keep(iter[s \ {Max(s)}], new[Max(s)])]
    <3> HIDE DEF new
    <3> QED
      BY <2>2, Zenon
  <2> HIDE DEF iter, new
  <2> QED
    BY <2>1, <2>3
<1> DEFINE f == [n \in 0..L |-> iter[1..n]]
<1> HIDE DEF new, iter
<1>6. f[0] = out
  <2>1. 1..0 = {} /\ {} \in SUBSET (1..L)
    OBVIOUS
  <2>2. iter[{}] = out
    BY <1>5, <2>1
  <2> QED
    BY <2>1, <2>2
<1>7. ASSUME NEW n \in 1..L PROVE f[n] = Keep(f[n - 1], new[n])
  <2>1. 1..n \in SUBSET (1..L) /\ 1..n # {} /\ n \in 1..n
    OBVIOUS
  <2>2. Max(1..n) = n
    BY <2>1, GreatestOf
  <2>3. (1..n) \ {n} = 1..(n - 1) /\ n - 1 \in 0..L /\ n \in 0..L
    OBVIOUS
  <2>4. iter[1..n] = Keep(iter[(1..n) \ {Max(1..n)}], new[Max(1..n)])
    BY <1>5, <2>1
  <2> QED
    BY <2>2, <2>3, <2>4
<1>8. Merge(out, rows) = f[L]
  BY <1>1 DEF new
<1> QED
  BY <1>6, <1>7, <1>8 DEF new, MergedBy

\* The positions before or at i when D is sorted by R, equal ones as they stand.
Placed(D, R, i) == {j \in D : i \in R[j] \/ (j <= i /\ j \notin R[i])}

\* R puts one position strictly before another, so that being beside each other
\* carries over.
StrictOrder(D, R) ==
  /\ \A i, j \in D : j \in R[i] => i \notin R[j]
  /\ \A i, j, k \in D : j \notin R[i] /\ k \notin R[j] => k \notin R[i]

\* The positions placed before or at one another are a total order.
LEMMA PlacedIsOrder ==
  ASSUME NEW D, D \subseteq Int, NEW R, StrictOrder(D, R)
  PROVE  /\ \A i \in D : i \in Placed(D, R, i) /\ Placed(D, R, i) \subseteq D
         /\ \A i, j \in D : i \in Placed(D, R, j) \/ j \in Placed(D, R, i)
         /\ \A i, j \in D : i \in Placed(D, R, j) /\ j \in Placed(D, R, i) => i = j
         /\ \A i, j \in D : i \in Placed(D, R, j) => Placed(D, R, i) \subseteq Placed(D, R, j)
<1>1. ASSUME NEW i \in D PROVE i \in Placed(D, R, i) /\ Placed(D, R, i) \subseteq D
  <2>1. i \in Int /\ i <= i
    OBVIOUS
  <2> QED
    BY <2>1 DEF Placed
<1>2. ASSUME NEW i \in D, NEW j \in D, i \notin Placed(D, R, j)
      PROVE  j \in Placed(D, R, i)
  <2>1. i \in Int /\ j \in Int
    OBVIOUS
  <2>2. j \notin R[i] /\ (i \in R[j] \/ ~(i <= j))
    BY <1>2 DEF Placed
  <2> QED
    BY <2>1, <2>2 DEF Placed
<1>3. \A i, j \in D : i \in Placed(D, R, j) /\ j \in Placed(D, R, i) => i = j
  BY DEF Placed, StrictOrder
<1>4. ASSUME NEW i \in D, NEW j \in D, i \in Placed(D, R, j), NEW k \in Placed(D, R, i)
      PROVE  k \in Placed(D, R, j)
  <2>1. k \in D /\ k \in Int /\ i \in Int /\ j \in Int
    BY DEF Placed
  <2>2. CASE i \in R[k] /\ j \in R[i]
    BY <2>1, <2>2 DEF Placed, StrictOrder
  <2>3. CASE i \in R[k] /\ i <= j /\ i \notin R[j]
    BY <2>1, <2>3 DEF Placed, StrictOrder
  <2>4. CASE k <= i /\ k \notin R[i] /\ j \in R[i]
    BY <2>1, <2>4 DEF Placed, StrictOrder
  <2>5. CASE k <= i /\ k \notin R[i] /\ i <= j /\ i \notin R[j]
    BY <2>1, <2>5 DEF Placed, StrictOrder
  <2> QED
    BY <1>4, <2>2, <2>3, <2>4, <2>5 DEF Placed
<1> QED
  BY <1>1, <1>2, <1>3, <1>4

\* Sorting gives each position a place of its own, and fills the places.
LEMMA PlacesFilled ==
  ASSUME NEW D, D \subseteq Int, IsFiniteSet(D), NEW R, StrictOrder(D, R)
  PROVE  LET Place(i) == Cardinality(Placed(D, R, i))
             N == Cardinality(D)
         IN /\ N \in Nat
            /\ \A i \in D : Place(i) \in 1..N
            /\ \A p \in 1..N : \E i \in D : Place(i) = p
            /\ \A i, j \in D : Place(i) = Place(j) => i = j
            /\ \A i, j \in D : Place(i) < Place(j) => i \notin R[j]
<1> DEFINE Place(i) == Cardinality(Placed(D, R, i))
           N == Cardinality(D)
<1>1. N \in Nat
  BY FS_CardinalityType
<1>2. ASSUME NEW i \in D PROVE IsFiniteSet(Placed(D, R, i)) /\ Place(i) \in 1..N
  <2>1. i \in Placed(D, R, i) /\ Placed(D, R, i) \in SUBSET D
    BY PlacedIsOrder
  <2>2. IsFiniteSet(Placed(D, R, i)) /\ Place(i) <= N
    BY <2>1, FS_Subset
  <2>3. Place(i) \in Nat /\ Place(i) # 0
    BY <2>1, <2>2, FS_CardinalityType, FS_EmptySet
  <2> QED
    BY <1>1, <2>2, <2>3
<1>3. ASSUME NEW i \in D, NEW j \in D, i # j, i \in Placed(D, R, j)
      PROVE  Place(i) < Place(j)
  <2>1. /\ Placed(D, R, i) \in SUBSET Placed(D, R, j)
        /\ j \in Placed(D, R, j) /\ j \notin Placed(D, R, i)
    BY <1>3, PlacedIsOrder
  <2>2. Place(i) <= Place(j) /\ Place(i) # Place(j)
    BY <1>2, <2>1, FS_Subset
  <2> QED
    BY <1>2, <2>2
<1>4. \A i, j \in D : Place(i) = Place(j) => i = j
  <2> SUFFICES ASSUME NEW i \in D, NEW j \in D, i # j PROVE Place(i) # Place(j)
    OBVIOUS
  <2>1. i \in Placed(D, R, j) \/ j \in Placed(D, R, i)
    BY PlacedIsOrder
  <2> HIDE DEF Place
  <2> QED
    BY <1>2, <1>3, <2>1
<1>5. \A i, j \in D : Place(i) < Place(j) => i \notin R[j]
  <2> SUFFICES ASSUME NEW i \in D, NEW j \in D, i \in R[j] PROVE ~(Place(i) < Place(j))
    OBVIOUS
  <2>1. j \in Placed(D, R, i) /\ j # i
    BY DEF Placed, StrictOrder
  <2> HIDE DEF Place
  <2>2. Place(j) < Place(i)
    BY <1>3, <2>1
  <2>3. Place(i) \in 1..N /\ Place(j) \in 1..N
    BY <1>2
  <2> QED
    BY <1>1, <2>2, <2>3
<1>6. ASSUME NEW p \in 1..N PROVE \E i \in D : Place(i) = p
  <2> DEFINE place == [i \in D |-> Place(i)]
  <2>1. place \in Injection(D, 1..N)
    BY <1>2, <1>4 DEF Injection, IsInjective
  <2>2. IsFiniteSet(1..N) /\ Cardinality(1..N) = N
    BY <1>1, FS_Interval
  <2>3. place \in Surjection(D, 1..N)
    <3> HIDE DEF place
    <3> QED
      BY <2>1, <2>2, FS_Injection
  <2> QED
    BY <2>3 DEF Surjection
<1> QED
  BY <1>1, <1>2, <1>4, <1>5, <1>6

Precedes(rows) == [i \in DOMAIN rows |-> {j \in DOMAIN rows : Above(rows[i], rows[j])}]

IsRanked(rows) ==
  /\ DOMAIN rows \subseteq Int /\ IsFiniteSet(DOMAIN rows)
  /\ \A i \in DOMAIN rows :
       rows[i].title \in Int /\ rows[i].score \in Int /\ rows[i].used \in 0..MaxRecords

\* The rows that Sorted returns are those it is given, in order.
LEMMA SortedPermutes ==
  ASSUME NEW rows, IsRanked(rows)
  PROVE  LET new == InRank(rows)
             N == Cardinality(DOMAIN rows)
         IN /\ N \in Nat /\ DOMAIN new = 1..N
            /\ \A p \in 1..N : \E i \in DOMAIN rows : new[p] = rows[i]
            /\ \A i \in DOMAIN rows : \E p \in 1..N : new[p] = rows[i]
            /\ \A p, q \in 1..N : p < q => ~Above(new[q], new[p])
<1> DEFINE D == DOMAIN rows
           R == Precedes(rows)
           N == Cardinality(D)
           new == InRank(rows)
           Place(i) == Cardinality(Placed(D, R, i))
<1>1. \A i \in D : Score(rows[i]) \in Int /\ rows[i].title \in Int
  BY SearchEngineAssumption DEF IsRanked, Score
<1>2. \A i, j \in D : j \in R[i] <=> Above(rows[i], rows[j])
  BY Zenon DEF Precedes
<1>3. StrictOrder(D, R)
  <2> HIDE DEF D, R
  <2>1. \A i, j \in D : Above(rows[i], rows[j]) => ~Above(rows[j], rows[i])
    BY <1>1 DEF Above
  <2>2. \A i, j, k \in D : ~Above(rows[i], rows[j]) /\ ~Above(rows[j], rows[k])
                             => ~Above(rows[i], rows[k])
    BY <1>1 DEF Above
  <2> QED
    BY <1>2, <2>1, <2>2 DEF StrictOrder
<1>4. /\ N \in Nat
      /\ \A i \in D : Place(i) \in 1..N
      /\ \A p \in 1..N : \E i \in D : Place(i) = p
      /\ \A i, j \in D : Place(i) = Place(j) => i = j
      /\ \A i, j \in D : Place(i) < Place(j) => i \notin R[j]
  <2>1. D \subseteq Int /\ IsFiniteSet(D)
    BY DEF IsRanked
  <2> HIDE DEF D, R
  <2> QED
    BY <1>3, <2>1, PlacesFilled
<1> DEFINE Spot(i) == Cardinality({j \in D : \/ Above(rows[j], rows[i])
                                             \/ j <= i /\ ~Above(rows[i], rows[j])})
           at(p) == CHOOSE i \in D : Spot(i) = p
<1>5. new = [p \in 1..N |-> rows[at(p)]]
  BY Zenon DEF Sorted, InRank
<1>6. ASSUME NEW i \in D PROVE Spot(i) = Place(i)
  <2> DEFINE S == {j \in D : Above(rows[j], rows[i]) \/ (j <= i /\ ~Above(rows[i], rows[j]))}
  <2>1. ASSUME NEW j \in D PROVE j \in S <=> j \in Placed(D, R, i)
    <3>1. /\ Above(rows[j], rows[i]) <=> i \in R[j]
          /\ Above(rows[i], rows[j]) <=> j \in R[i]
      BY <1>2
    <3> HIDE DEF D, R
    <3> QED
      BY <3>1, Zenon DEF Placed
  <2>2. S \subseteq D /\ Placed(D, R, i) \subseteq D
    BY DEF Placed
  <2>3. S = Placed(D, R, i)
    <3>1. \A j : j \in S <=> j \in Placed(D, R, i)
      BY <2>1, <2>2
    <3> HIDE DEF S
    <3> QED
      BY <3>1
  <2> QED
    BY <2>3, Zenon
<1>7. \A p \in 1..N : at(p) \in D /\ Place(at(p)) = p
  <2> HIDE DEF Place, Spot, D, N
  <2> QED
    BY <1>4, <1>6
<1>8. \A i \in D : at(Place(i)) = i
  <2> HIDE DEF at, Place, Spot, D, N
  <2> QED
    BY <1>4, <1>7
<1> HIDE DEF at, Place, D, N, R, new
<1>9. DOMAIN new = 1..N /\ \A p \in 1..N : new[p] = rows[at(p)]
  BY <1>5
<1>10. \A i \in D : \E p \in 1..N : new[p] = rows[i]
  BY <1>4, <1>8, <1>9
<1>11. \A p, q \in 1..N : p < q => ~Above(new[q], new[p])
  <2> SUFFICES ASSUME NEW p \in 1..N, NEW q \in 1..N, p < q PROVE ~Above(new[q], new[p])
    OBVIOUS
  <2>1. Place(at(p)) < Place(at(q)) /\ at(p) \in D /\ at(q) \in D
    BY <1>7
  <2>2. at(p) \notin R[at(q)]
    BY <1>4, <2>1
  <2> QED
    BY <1>2, <1>9, <2>1, <2>2
<1> QED
  BY <1>4, <1>7, <1>9, <1>10, <1>11 DEF D, N, new

\* More activations never lower the boost.
LEMMA BoostGrows ==
  ASSUME NEW m \in 0..MaxRecords, NEW n \in 0..MaxRecords, m <= n
  PROVE  Boost[m] <= Boost[n]
<1> DEFINE T == {k \in Nat : m + k <= MaxRecords => Boost[m] <= Boost[m + k]}
<1>1. 0 \in T
  BY SearchEngineAssumption
<1>2. ASSUME NEW k \in Nat, k \in T PROVE k + 1 \in T
  <2>1. CASE m + k + 1 <= MaxRecords
    <3>1. m + k + 1 \in 1..MaxRecords /\ m + k \in 0..MaxRecords /\ m + k + 1 - 1 = m + k
      BY <2>1, SearchEngineAssumption
    <3>2. Boost[m] <= Boost[m + k] /\ Boost[m + k] <= Boost[m + k + 1]
      BY <1>2, <3>1, SearchEngineAssumption
    <3>3. Boost[m] \in Nat /\ Boost[m + k] \in Nat /\ Boost[m + k + 1] \in Nat
      BY <3>1, SearchEngineAssumption
    <3> QED
      BY <3>2, <3>3
  <2>2. CASE ~(m + k + 1 <= MaxRecords)
    BY <2>2
  <2> QED
    BY <2>1, <2>2
<1>3. n - m \in T
  <2> HIDE DEF T
  <2>1. n - m \in Nat
    BY SearchEngineAssumption
  <2> QED
    BY <1>1, <1>2, <2>1, SetInduction
<1>4. m + (n - m) = n /\ n <= MaxRecords
  BY SearchEngineAssumption
<1> QED
  BY <1>3, <1>4

\* A row is accounted for on a page whose first rows are of other providers:
\* the page has the result, from one of them or with a score as good, or it is
\* full of such rows.
Accounted(first, page, r) ==
  \/ \E i \in 1..Len(page) : /\ page[i].id = r.id
                             /\ i <= first \/ Score(page[i]) >= Score(r)
  \/ /\ Len(page) = Limit
     /\ \A i \in (first + 1)..Len(page) : Score(page[i]) >= Score(r)

\* The page begins with out and goes on with rows of new.
Extends(out, new, n, page) ==
  /\ page \in Seq(ToSet(out) \cup ToSet(new))
  /\ Len(out) <= Len(page) /\ Len(page) <= Limit
  /\ \A i \in 1..Len(out) : page[i] = out[i]
  /\ \A i \in (Len(out) + 1)..Len(page) : \E p \in 1..n : page[i] = new[p]

NoneTwice(first, page) ==
  \A i \in 1..Len(page), j \in (first + 1)..Len(page) : i < j => page[i].id # page[j].id

InOrder(first, page) ==
  \A i, j \in (first + 1)..Len(page) : i < j => ~Above(page[j], page[i])

\* What Merge has made of out once it has looked at the first n of the sorted
\* rows.
Merged(out, new, n, page) ==
  /\ Extends(out, new, n, page)
  /\ NoneTwice(Len(out), page) /\ InOrder(Len(out), page)
  /\ \A p \in 1..n : Accounted(Len(out), page, new[p])

\* One step of the fold: what has been said of n rows holds of n + 1.
LEMMA KeepMerges ==
  ASSUME NEW T, NEW out \in Seq(T), NEW L \in Nat, NEW new \in Seq(T), Len(new) = L,
         \A p \in 1..L : Score(new[p]) \in Int /\ new[p].title \in Int,
         \A p, q \in 1..L : p < q => ~Above(new[q], new[p]),
         NEW n \in Nat, n + 1 <= L, NEW acc, Merged(out, new, n, acc)
  PROVE  Merged(out, new, n + 1, Keep(acc, new[n + 1]))
<1> DEFINE E == ToSet(out) \cup ToSet(new)
           r == new[n + 1]
           first == Len(out)
           size == Len(acc)
<1>1. /\ n + 1 \in 1..L /\ Limit \in Nat /\ first \in Nat
      /\ \A p \in 1..n : p \in 1..L /\ p < n + 1
  BY SearchEngineAssumption
<1>2. r \in E
  BY <1>1 DEF ToSet
<1>3. /\ acc \in Seq(E) /\ size \in Nat /\ DOMAIN acc = 1..size
      /\ first <= size /\ size <= Limit
      /\ \A i \in 1..first : acc[i] = out[i]
      /\ \A i \in (first + 1)..size : \E p \in 1..n : acc[i] = new[p]
  BY DEF Merged, Extends
<1>4. \A p \in 1..n : /\ ~Above(r, new[p]) /\ Score(new[p]) >= Score(r)
                      /\ Score(new[p]) \in Int /\ Score(r) \in Int
  <2> SUFFICES ASSUME NEW p \in 1..n
               PROVE  /\ ~Above(r, new[p]) /\ Score(new[p]) >= Score(r)
                      /\ Score(new[p]) \in Int /\ Score(r) \in Int
    OBVIOUS
  <2>1. ~Above(r, new[p]) /\ Score(new[p]) \in Int /\ Score(r) \in Int
    BY <1>1
  <2> QED
    BY <2>1 DEF Above
<1>5. \A i \in (first + 1)..size : /\ ~Above(r, acc[i]) /\ Score(acc[i]) >= Score(r)
                                   /\ \E p \in 1..(n + 1) : acc[i] = new[p]
  <2> SUFFICES ASSUME NEW i \in (first + 1)..size
               PROVE  /\ ~Above(r, acc[i]) /\ Score(acc[i]) >= Score(r)
                      /\ \E p \in 1..(n + 1) : acc[i] = new[p]
    OBVIOUS
  <2>1. PICK p \in 1..n : acc[i] = new[p]
    BY <1>3
  <2>2. p \in 1..(n + 1)
    OBVIOUS
  <2> QED
    BY <1>4, <2>1, <2>2
<1>6. /\ NoneTwice(first, acc) /\ InOrder(first, acc)
      /\ \A p \in 1..n : Accounted(first, acc, new[p])
  BY DEF Merged
<1>7. \A p \in 1..(n + 1) : p \in 1..n \/ p = n + 1
  OBVIOUS
<1> HIDE DEF r, first, size, E
<1>8. CASE size = Limit \/ \E i \in DOMAIN acc : acc[i].id = r.id
  <2>1. Keep(acc, r) = acc
    BY <1>8 DEF Keep, size
  <2>2. Accounted(first, acc, r)
    <3>1. CASE size = Limit
      BY <1>5, <3>1 DEF Accounted, size
    <3>2. ASSUME NEW i \in DOMAIN acc, acc[i].id = r.id PROVE Accounted(first, acc, r)
      <4>1. i \in 1..size /\ (i <= first \/ i \in (first + 1)..size)
        BY <1>1, <1>3
      <4>2. i <= first \/ Score(acc[i]) >= Score(r)
        BY <1>5, <4>1
      <4> QED
        BY <3>2, <4>1, <4>2 DEF Accounted, size
    <3> QED
      BY <1>8, <3>1, <3>2
  <2>3. \A p \in 1..(n + 1) : Accounted(first, acc, new[p])
    BY <1>6, <1>7, <2>2 DEF r
  <2>4. Extends(out, new, n + 1, acc)
    BY <1>3, <1>5 DEF Extends, first, size, E
  <2>5. Merged(out, new, n + 1, acc)
    BY <1>6, <2>3, <2>4 DEF Merged, first
  <2> QED
    BY <2>1, <2>5 DEF r
<1>9. CASE size # Limit /\ \A i \in DOMAIN acc : acc[i].id # r.id
  <2> DEFINE page == Append(acc, r)
  <2>1. Keep(acc, r) = page
    BY <1>9 DEF Keep, size
  <2>2. /\ page \in Seq(E) /\ Len(page) = size + 1 /\ page[size + 1] = r
        /\ \A i \in 1..size : page[i] = acc[i]
    BY <1>2, <1>3 DEF size
  <2> HIDE DEF page
  <2>3. \A i \in 1..Len(page) : (i \in 1..size /\ page[i] = acc[i]) \/ (i = size + 1 /\ page[i] = r)
    BY <1>3, <2>2
  <2>4. \A i \in (first + 1)..Len(page) :
          (i \in (first + 1)..size /\ page[i] = acc[i]) \/ (i = size + 1 /\ page[i] = r)
    BY <1>1, <1>3, <2>2
  <2>5. Extends(out, new, n + 1, page)
    <3>1. \A i \in 1..first : page[i] = out[i]
      BY <1>1, <1>3, <2>2
    <3>2. \A i \in (first + 1)..Len(page) : \E p \in 1..(n + 1) : page[i] = new[p]
      <4> SUFFICES ASSUME NEW i \in (first + 1)..Len(page)
                   PROVE  \E p \in 1..(n + 1) : page[i] = new[p]
        OBVIOUS
      <4>1. n + 1 \in 1..(n + 1)
        OBVIOUS
      <4> QED
        BY <1>5, <2>4, <4>1 DEF r
    <3>3. first <= Len(page) /\ Len(page) <= Limit
      BY <1>1, <1>3, <1>9, <2>2
    <3> QED
      BY <2>2, <3>1, <3>2, <3>3 DEF Extends, first, E
  <2>6. NoneTwice(first, page)
    <3> SUFFICES ASSUME NEW i \in 1..Len(page), NEW j \in (first + 1)..Len(page), i < j
                 PROVE  page[i].id # page[j].id
      BY DEF NoneTwice
    <3>1. i \in 1..size /\ page[i] = acc[i]
      BY <1>1, <1>3, <2>3, <2>4
    <3>2. CASE j \in (first + 1)..size /\ page[j] = acc[j]
      BY <1>6, <3>1, <3>2 DEF NoneTwice, size
    <3>3. CASE page[j] = r
      BY <1>3, <1>9, <3>1, <3>3
    <3> QED
      BY <2>4, <3>2, <3>3
  <2>7. InOrder(first, page)
    <3> SUFFICES ASSUME NEW i \in (first + 1)..Len(page), NEW j \in (first + 1)..Len(page), i < j
                 PROVE  ~Above(page[j], page[i])
      BY DEF InOrder
    <3>1. i \in (first + 1)..size /\ page[i] = acc[i]
      BY <1>1, <1>3, <2>2, <2>4
    <3> QED
      BY <1>5, <1>6, <2>4, <3>1 DEF InOrder, size
  <2>8. ASSUME NEW p \in 1..(n + 1) PROVE Accounted(first, page, new[p])
    <3>1. CASE p = n + 1
      <4>1. size + 1 \in 1..Len(page) /\ Score(r) >= Score(r)
        BY <1>1, <1>3, <2>2, <3>1 DEF r
      <4> QED
        BY <2>2, <3>1, <4>1 DEF Accounted, r
    <3>2. CASE p \in 1..n
      <4>1. PICK i \in 1..size : /\ acc[i].id = new[p].id
                                 /\ i <= first \/ Score(acc[i]) >= Score(new[p])
        BY <1>6, <1>9, <3>2 DEF Accounted, size
      <4>2. i \in 1..Len(page) /\ page[i] = acc[i]
        BY <1>3, <2>2
      <4> QED
        BY <4>1, <4>2 DEF Accounted
    <3> QED
      BY <1>7, <3>1, <3>2
  <2>9. Merged(out, new, n + 1, page)
    BY <2>5, <2>6, <2>7, <2>8 DEF Merged, first
  <2> QED
    BY <2>1, <2>9 DEF r
<1> QED
  BY <1>8, <1>9

\* Merge keeps the page and goes on with the rows it is given, best first, none
\* twice and each accounted for.
LEMMA MergeAccounts ==
  ASSUME NEW T, NEW out \in Seq(T), Len(out) <= Limit,
         NEW rows, IsRanked(rows), \A i \in DOMAIN rows : rows[i] \in T
  PROVE  LET page == Merge(out, rows)
             Mine == (Len(out) + 1)..Len(page)
         IN /\ page \in Seq(T) /\ Len(out) <= Len(page) /\ Len(page) <= Limit
            /\ \A i \in 1..Len(out) : page[i] = out[i]
            /\ \A i \in Mine : \E m \in DOMAIN rows : page[i] = rows[m]
            /\ NoneTwice(Len(out), page) /\ InOrder(Len(out), page)
            /\ \A m \in DOMAIN rows : Accounted(Len(out), page, rows[m])
<1> DEFINE new == InRank(rows)
           N == Cardinality(DOMAIN rows)
           page == Merge(out, rows)
<1>1. /\ N \in Nat /\ DOMAIN new = 1..N
      /\ \A p \in 1..N : \E i \in DOMAIN rows : new[p] = rows[i]
      /\ \A i \in DOMAIN rows : \E p \in 1..N : new[p] = rows[i]
      /\ \A p, q \in 1..N : p < q => ~Above(new[q], new[p])
  BY SortedPermutes, Zenon
<1>2. new = [p \in 1..N |-> new[p]]
  BY <1>1, Zenon DEF Sorted, InRank
<1>3. PICK f : /\ f[0] = out
               /\ \A n \in 1..N : f[n] = Keep(f[n - 1], new[n])
               /\ page = f[N]
  <2>1. N \in Nat /\ DOMAIN InRank(rows) = 1..N
    BY <1>1
  <2>2. \E f : MergedBy(out, rows, N, f)
    <3> HIDE DEF N
    <3> QED
      BY <2>1, MergeFold
  <2> QED
    BY <2>2, Zenon DEF MergedBy
<1> HIDE DEF new, N, page
<1>4. new \in Seq(T) /\ Len(new) = N
  <2>1. \A p \in 1..N : new[p] \in T
    BY <1>1
  <2> QED
    BY <1>1, <1>2, <2>1
<1>5. \A p \in 1..N : Score(new[p]) \in Int /\ new[p].title \in Int
  <2> SUFFICES ASSUME NEW p \in 1..N PROVE Score(new[p]) \in Int /\ new[p].title \in Int
    OBVIOUS
  <2>1. PICK i \in DOMAIN rows : new[p] = rows[i]
    BY <1>1
  <2>2. Score(rows[i]) \in Int /\ rows[i].title \in Int
    BY SearchEngineAssumption DEF IsRanked, Score
  <2> QED
    BY <2>1, <2>2
<1> DEFINE Done == {n \in Nat : n <= N => Merged(out, new, n, f[n])}
<1>6. 0 \in Done
  <2>1. out \in Seq(ToSet(out) \cup ToSet(new))
    <3>1. \A i \in 1..Len(out) : out[i] \in ToSet(out)
      BY DEF ToSet
    <3>2. out = [i \in 1..Len(out) |-> out[i]] /\ Len(out) \in Nat
      OBVIOUS
    <3> QED
      BY <3>1, <3>2
  <2>2. (Len(out) + 1)..Len(out) = {} /\ 1..0 = {}
    OBVIOUS
  <2>3. Extends(out, new, 0, out)
    BY <2>1, <2>2 DEF Extends
  <2>4. NoneTwice(Len(out), out) /\ InOrder(Len(out), out)
    BY <2>2 DEF NoneTwice, InOrder
  <2>5. Merged(out, new, 0, out)
    BY <2>2, <2>3, <2>4 DEF Merged
  <2> QED
    BY <1>3, <2>5
<1>7. \A n \in Nat : n \in Done => n + 1 \in Done
  <2> SUFFICES ASSUME NEW n \in Nat, n \in Done, n + 1 <= N
               PROVE  Merged(out, new, n + 1, f[n + 1])
    OBVIOUS
  <2>1. n + 1 \in 1..N /\ n + 1 - 1 = n
    BY <1>1
  <2>2. f[n + 1] = Keep(f[n], new[n + 1])
    BY <1>3, <2>1
  <2>3. Merged(out, new, n, f[n])
    BY <1>1
  <2>4. N \in Nat /\ \A p, q \in 1..N : p < q => ~Above(new[q], new[p])
    BY <1>1
  <2>5. Merged(out, new, n + 1, Keep(f[n], new[n + 1]))
    <3> HIDE DEF Done
    <3> QED
      BY <1>4, <1>5, <2>3, <2>4, KeepMerges
  <2> QED
    BY <2>2, <2>5
<1>8. Merged(out, new, N, page)
  <2> HIDE DEF Done
  <2>1. N \in Done
    BY <1>1, <1>6, <1>7, SetInduction
  <2> QED
    BY <1>1, <1>3, <2>1 DEF Done
<1>9. page \in Seq(T)
  <2>1. ToSet(out) \subseteq T /\ ToSet(new) \subseteq T
    BY <1>4 DEF ToSet
  <2>2. page \in Seq(ToSet(out) \cup ToSet(new))
    BY <1>8 DEF Merged, Extends
  <2>3. Len(page) \in Nat /\ page = [i \in 1..Len(page) |-> page[i]]
    BY <2>2
  <2>4. \A i \in 1..Len(page) : page[i] \in T
    BY <2>1, <2>2
  <2> QED
    BY <2>3, <2>4
<1>10. \A i \in (Len(out) + 1)..Len(page) : \E m \in DOMAIN rows : page[i] = rows[m]
  <2> SUFFICES ASSUME NEW i \in (Len(out) + 1)..Len(page)
               PROVE  \E m \in DOMAIN rows : page[i] = rows[m]
    OBVIOUS
  <2>1. PICK p \in 1..N : page[i] = new[p]
    BY <1>8 DEF Merged, Extends
  <2> QED
    BY <1>1, <2>1
<1>11. \A m \in DOMAIN rows : Accounted(Len(out), page, rows[m])
  <2> SUFFICES ASSUME NEW m \in DOMAIN rows PROVE Accounted(Len(out), page, rows[m])
    OBVIOUS
  <2>1. PICK p \in 1..N : new[p] = rows[m]
    BY <1>1
  <2> QED
    BY <1>8, <2>1 DEF Merged
<1> QED
  BY <1>8, <1>9, <1>10, <1>11 DEF Merged, Extends, page

\* A finite set of numbers that is not empty has a greatest element: of the
\* sets {k \in S : k > i} one is minimal by inclusion.
LEMMA HasGreatest ==
  ASSUME NEW S, S \subseteq Int, S # {}, IsFiniteSet(S)
  PROVE  \E i \in S : \A j \in S : j <= i
<1> DEFINE Beyond(i) == {k \in S : k > i}
           Order == StrictSubsetOrdering(S)
           T == {Beyond(i) : i \in S}
<1>1. \A i \in S : Beyond(i) \in FiniteSubsetsOf(S)
  <2> SUFFICES ASSUME NEW i \in S PROVE Beyond(i) \in FiniteSubsetsOf(S)
    OBVIOUS
  <2>1. Beyond(i) \subseteq S
    OBVIOUS
  <2> HIDE DEF Beyond
  <2>2. IsFiniteSet(Beyond(i))
    BY <2>1, FS_Subset
  <2> QED
    BY <2>1, <2>2 DEF FiniteSubsetsOf
<1>2. IsWellFoundedOn(Order, FiniteSubsetsOf(S))
  BY FS_StrictSubsetOrderingWellFounded
<1>3. T \subseteq FiniteSubsetsOf(S) /\ T # {}
  BY <1>1
<1>4. PICK D \in T : \A E \in T : <<E, D>> \notin Order
  <2> HIDE DEF Order, T
  <2> QED
    BY <1>2, <1>3, WFMin
<1>5. PICK i \in S : D = Beyond(i)
  BY <1>4
<1>6. ASSUME NEW j \in S, j > i PROVE FALSE
  <2>1. Beyond(j) \subseteq Beyond(i) /\ j \in Beyond(i) /\ j \notin Beyond(j)
    <3>1. i \in Int /\ j \in Int /\ \A k \in S : k \in Int
      OBVIOUS
    <3>2. \A k \in Beyond(j) : k \in Beyond(i)
      BY <3>1, <1>6
    <3>3. j \in Beyond(i) /\ j \notin Beyond(j)
      BY <3>1, <1>6
    <3> QED
      BY <3>2, <3>3
  <2>2. <<Beyond(j), Beyond(i)>> \in Order
    <3>1. Beyond(j) \in SUBSET S /\ Beyond(i) \in SUBSET S
      OBVIOUS
    <3> HIDE DEF Beyond
    <3> QED
      BY <3>1, <2>1 DEF StrictSubsetOrdering
  <2> QED
    BY <2>2, <1>4, <1>5
<1> QED
  BY <1>6


ByScore(rows) == Sorted(rows, LAMBDA r, q : r.score > q.score)

\* Sorting by the scores alone returns rows that it is given.
LEMMA ByScoreFrom ==
  ASSUME NEW rows, DOMAIN rows \subseteq Int, IsFiniteSet(DOMAIN rows),
         \A i \in DOMAIN rows : rows[i].score \in Int
  PROVE  LET N == Cardinality(DOMAIN rows)
         IN /\ N \in Nat /\ ByScore(rows) = [p \in 1..N |-> ByScore(rows)[p]]
            /\ \A p \in 1..N : \E i \in DOMAIN rows : ByScore(rows)[p] = rows[i]
<1> DEFINE D == DOMAIN rows
           R == [i \in D |-> {j \in D : rows[i].score > rows[j].score}]
           N == Cardinality(D)
           Place(i) == Cardinality(Placed(D, R, i))
<1>1. \A i, j \in D : j \in R[i] <=> rows[i].score > rows[j].score
  OBVIOUS
<1>2. StrictOrder(D, R)
  <2> HIDE DEF D, R
  <2> QED
    BY <1>1 DEF StrictOrder, D
<1>3. /\ N \in Nat
      /\ \A i \in D : Place(i) \in 1..N
      /\ \A p \in 1..N : \E i \in D : Place(i) = p
      /\ \A i, j \in D : Place(i) = Place(j) => i = j
      /\ \A i, j \in D : Place(i) < Place(j) => i \notin R[j]
  <2> HIDE DEF D, R
  <2>1. D \subseteq Int /\ IsFiniteSet(D)
    BY DEF D
  <2> QED
    BY <1>2, <2>1, PlacesFilled
<1> DEFINE Spot(i) == Cardinality({j \in D : \/ rows[j].score > rows[i].score
                                             \/ j <= i /\ ~(rows[i].score > rows[j].score)})
           at(p) == CHOOSE i \in D : Spot(i) = p
<1>4. ByScore(rows) = [p \in 1..N |-> rows[at(p)]]
  BY Zenon DEF Sorted, ByScore
<1>5. ASSUME NEW i \in D PROVE Spot(i) = Place(i)
  <2> DEFINE S == {j \in D : \/ rows[j].score > rows[i].score
                             \/ j <= i /\ ~(rows[i].score > rows[j].score)}
  <2>1. ASSUME NEW j \in D PROVE j \in S <=> j \in Placed(D, R, i)
    <3>1. /\ rows[j].score > rows[i].score <=> i \in R[j]
          /\ rows[i].score > rows[j].score <=> j \in R[i]
      BY <1>1
    <3> HIDE DEF D, R
    <3> QED
      BY <3>1, Zenon DEF Placed
  <2>2. S \subseteq D /\ Placed(D, R, i) \subseteq D
    BY DEF Placed
  <2>3. S = Placed(D, R, i)
    <3>1. \A j : j \in S <=> j \in Placed(D, R, i)
      BY <2>1, <2>2
    <3> HIDE DEF S
    <3> QED
      BY <3>1
  <2> QED
    BY <2>3, Zenon
<1>6. \A p \in 1..N : at(p) \in D
  <2> HIDE DEF Place, Spot, D, N
  <2> QED
    BY <1>3, <1>5
<1> HIDE DEF at, D, N, Place
<1>7. \A p \in 1..N : ByScore(rows)[p] = rows[at(p)]
  BY <1>4
<1>8. ByScore(rows) = [p \in 1..N |-> ByScore(rows)[p]]
  <2> DEFINE sorted == ByScore(rows)
  <2>1. sorted = [p \in 1..N |-> rows[at(p)]]
    BY <1>4
  <2> HIDE DEF sorted
  <2>2. sorted = [p \in 1..N |-> sorted[p]]
    BY <2>1
  <2> QED
    BY <2>2 DEF sorted
<1> QED
  BY <1>3, <1>6, <1>7, <1>8 DEF D, N

\* What a provider may answer with: a sequence of rows whose titles and scores
\* can be compared.
IsAnswer(rows) ==
  /\ rows \in Seq(ToSet(rows))
  /\ \A i \in DOMAIN rows : rows[i].title \in Int /\ rows[i].score \in Int

\* Rows that are made one by one of a sequence of items are an answer.
LEMMA ListIsAnswer ==
  ASSUME NEW n \in Nat, NEW rows, rows = [p \in 1..n |-> rows[p]],
         \A p \in 1..n : rows[p].title \in Int /\ rows[p].score \in Int
  PROVE  IsAnswer(rows)
<1>1. DOMAIN rows = 1..n /\ \A p \in 1..n : rows[p] \in ToSet(rows)
  BY DEF ToSet
<1>2. rows \in Seq(ToSet(rows))
  BY <1>1
<1> QED
  BY <1>1, <1>2 DEF IsAnswer

\* So are the rows of the calculator and of the web search.
LEMMA ShortIsAnswer ==
  ASSUME NEW r, r.title \in Int, r.score \in Int
  PROVE  IsAnswer(<<>>) /\ IsAnswer(<<r>>)
<1>1. IsAnswer(<<>>)
  BY DEF IsAnswer
<1>2. /\ <<r>> = [p \in 1..1 |-> <<r>>[p]]
      /\ \A p \in 1..1 : <<r>>[p].title \in Int /\ <<r>>[p].score \in Int
  OBVIOUS
<1>3. IsAnswer(<<r>>)
  <2> DEFINE rows == <<r>>
  <2>1. /\ rows = [p \in 1..1 |-> rows[p]]
        /\ \A p \in 1..1 : rows[p].title \in Int /\ rows[p].score \in Int
    BY <1>2
  <2> HIDE DEF rows
  <2>2. IsAnswer(rows)
    BY <2>1, ListIsAnswer
  <2> QED
    BY <2>2 DEF rows
<1> QED
  BY <1>1, <1>3

\* Find answers with rows of items, each with a whole score.
LEMMA FindIsAnswer ==
  ASSUME NEW items, items \in Seq(ToSet(items)),
         \A item \in ToSet(items) : item.title \in Int,
         NEW query
  PROVE  IsAnswer(Find(items, query))
<1> DEFINE Grades(item) == {Fuzzy[h] : h \in {h \in DOMAIN Fuzzy :
                                                h[1] \in item.keys /\ h[2] = query}}
           Best(item) == Max({-1} \cup Grades(item))
           hits == {i \in DOMAIN items : Best(items[i]) >= 0}
           rows == [i \in hits |-> [id |-> items[i].id, title |-> items[i].title,
                                    score |-> Best(items[i])]]
<1>1. ASSUME NEW item PROVE Best(item) \in Int
  <2> DEFINE S == {-1} \cup Grades(item)
             H == {h \in DOMAIN Fuzzy : h[1] \in item.keys /\ h[2] = query}
             value == [h \in H |-> Fuzzy[h]]
  <2>1. IsFiniteSet(H)
    <3>1. H \in SUBSET DOMAIN Fuzzy
      OBVIOUS
    <3> HIDE DEF H
    <3> QED
      BY <3>1, ProvidersAssumption, FS_Subset
  <2>2. value \in Surjection(H, Grades(item))
    BY DEF Surjection
  <2>3. IsFiniteSet(Grades(item))
    <3> HIDE DEF H, Grades, value
    <3> QED
      BY <2>1, <2>2, FS_Surjection
  <2>4. Grades(item) \subseteq Int
    BY ProvidersAssumption
  <2> HIDE DEF H, Grades, value
  <2>5. IsFiniteSet({-1} \cup Grades(item))
    BY <2>3, FS_AddElement
  <2>6. S \subseteq Int /\ S # {} /\ IsFiniteSet(S)
    BY <2>4, <2>5
  <2>7. Best(item) \in S
    <3>1. \E x \in S : \A y \in S : y <= x
      <4> HIDE DEF S
      <4> QED
        BY <2>6, HasGreatest
    <3>2. \E x \in S : \A y \in S : x >= y
      BY <2>6, <3>1
    <3> HIDE DEF S
    <3>3. Max(S) \in S
      BY <3>2 DEF Max
    <3> QED
      BY <3>3 DEF S
  <2> QED
    BY <2>6, <2>7
<1>2. Find(items, query) = ByScore(rows)
  BY Zenon DEF Find, ByScore
<1> HIDE DEF Best
<1>3. /\ DOMAIN rows = hits /\ hits \subseteq DOMAIN items /\ hits \subseteq Int
      /\ \A i \in hits : rows[i].score \in Int /\ rows[i].title \in Int
  BY <1>1 DEF ToSet
<1>4. IsFiniteSet(hits)
  <2>1. hits \in SUBSET (1..Len(items)) /\ Len(items) \in Int
    OBVIOUS
  <2> HIDE DEF hits
  <2>2. IsFiniteSet(1..Len(items))
    BY <2>1, FS_Interval
  <2> QED
    BY <2>1, <2>2, FS_Subset
<1> HIDE DEF hits, rows
<1>5. /\ Cardinality(hits) \in Nat
      /\ ByScore(rows) = [p \in 1..Cardinality(hits) |-> ByScore(rows)[p]]
      /\ \A p \in 1..Cardinality(hits) : \E i \in hits : ByScore(rows)[p] = rows[i]
  BY <1>3, <1>4, ByScoreFrom
<1>6. \A p \in 1..Cardinality(hits) :
        ByScore(rows)[p].title \in Int /\ ByScore(rows)[p].score \in Int
  BY <1>3, <1>5
<1> QED
  BY <1>2, <1>5, <1>6, ListIsAnswer

\* So a provider of items answers with rows, whatever the query.
LEMMA ListedIsAnswer ==
  ASSUME NEW items \in {Apps, Folders}, NEW query
  PROVE  IsAnswer(Listed(items, query))
<1>1. items \in Seq(ToSet(items)) /\ \A item \in ToSet(items) : item.title \in Int
  BY ProvidersAssumption
<1>2. CASE query = <<>>
  <2> DEFINE rows == [i \in DOMAIN items |-> [id |-> items[i].id, title |-> items[i].title,
                                              score |-> 0]]
  <2>1. Listed(items, query) = rows
    BY <1>2, Zenon DEF Listed
  <2>2. /\ DOMAIN items = 1..Len(items) /\ Len(items) \in Nat
        /\ \A i \in DOMAIN items : items[i] \in ToSet(items)
    BY <1>1 DEF ToSet
  <2>3. \A i \in DOMAIN items : rows[i].title \in Int /\ rows[i].score \in Int
    BY <1>1, <2>2
  <2>4. rows = [i \in 1..Len(items) |-> rows[i]]
    BY <2>2
  <2> HIDE DEF rows
  <2> QED
    BY <2>1, <2>2, <2>3, <2>4, ListIsAnswer
<1>3. CASE query # <<>>
  <2>1. Listed(items, query) = Find(items, query)
    BY <1>3, Zenon DEF Listed
  <2> QED
    BY <1>1, <2>1, FindIsAnswer
<1> QED
  BY <1>2, <1>3

\* And so does a plugin, or with none.
LEMMA PluginIsAnswer ==
  ASSUME NEW query, query \in Seq(ToSet(query)), NEW rows \in PluginAnswers(query)
  PROVE  IsAnswer(rows) /\ (rows # <<>> => rows = Commands[Match(query)])
<1> DEFINE lengths == {l \in DOMAIN query : SubSeq(query, 1, l) \in DOMAIN Commands
                                            /\ (l = Len(query) \/ query[l + 1] = " ")}
<1>1. CASE rows = <<>>
  BY <1>1 DEF IsAnswer
<1>2. CASE rows # <<>>
  <2>1. Match(query) # <<>> /\ rows = Commands[Match(query)]
    BY <1>2, Zenon DEF PluginAnswers
  <2>2. lengths # {} /\ Match(query) = SubSeq(query, 1, Max(lengths))
    BY <2>1, Zenon DEF Match
  <2>3. lengths \in SUBSET (1..Len(query)) /\ Len(query) \in Int /\ lengths \subseteq Int
    <3>1. lengths \subseteq DOMAIN query
      OBVIOUS
    <3> HIDE DEF lengths
    <3> QED
      BY <3>1
  <2>4. \A l \in lengths : SubSeq(query, 1, l) \in DOMAIN Commands
    OBVIOUS
  <2> HIDE DEF lengths
  <2>5. IsFiniteSet(lengths)
    <3>1. IsFiniteSet(1..Len(query))
      BY <2>3, FS_Interval
    <3> QED
      BY <2>3, <3>1, FS_Subset
  <2>6. \E x \in lengths : \A y \in lengths : y <= x
    BY <2>2, <2>3, <2>5, HasGreatest
  <2>7. \E x \in lengths : \A y \in lengths : x >= y
    BY <2>3, <2>6
  <2>8. Max(lengths) \in lengths
    BY <2>7 DEF Max
  <2>9. Match(query) \in DOMAIN Commands
    BY <2>2, <2>4, <2>8
  <2>10. /\ rows \in Seq(ToSet(rows))
         /\ \A r \in ToSet(rows) : r.title \in Int /\ r.score \in Int
    BY <2>1, <2>9, ProvidersAssumption
  <2> QED
    BY <2>1, <2>10 DEF IsAnswer, ToSet
<1> QED
  BY <1>1, <1>2

\* A provider answers with rows that can be ranked, always the same ones when
\* it has any.
LEMMA AnswersAreRows ==
  ASSUME NEW query, query \in Seq(ToSet(query)), NEW k \in 1..5,
         NEW rows \in Answers(query)[k]
  PROVE  /\ IsAnswer(rows)
         /\ \A other \in Answers(query)[k] : other # <<>> /\ rows # <<>> => other = rows
<1>1. k \in {1, 2, 3, 4, 5}
  OBVIOUS
<1>2. /\ Answers(query)[1] = {CalcRows(query)} /\ Answers(query)[2] = {Listed(Apps, query)}
      /\ Answers(query)[3] = {Listed(Folders, query)}
      /\ Answers(query)[4] = PluginAnswers(query) /\ Answers(query)[5] = {WebRows(query)}
  BY DEF Answers
<1>3. CASE k = 1
  <2>1. IsAnswer(CalcRows(query))
    <3> DEFINE r == [id |-> <<"calc", Normalise(query)>>, title |-> 0, score |-> 0]
    <3>1. r.title \in Int /\ r.score \in Int
      OBVIOUS
    <3>2. CalcRows(query) \in {<<>>, <<r>>}
      BY Zenon DEF CalcRows
    <3> HIDE DEF r
    <3> QED
      BY <3>1, <3>2, ShortIsAnswer
  <2> QED
    BY <1>2, <1>3, <2>1
<1>4. CASE k \in {2, 3}
  BY <1>2, <1>4, ListedIsAnswer
<1>5. CASE k = 4
  BY <1>2, <1>5, PluginIsAnswer
<1>6. CASE k = 5
  <2>1. IsAnswer(WebRows(query))
    <3> DEFINE r == [id |-> <<"web", query>>, title |-> 0, score |-> 0]
    <3>1. r.title \in Int /\ r.score \in Int
      OBVIOUS
    <3>2. WebRows(query) \in {<<>>, <<r>>}
      BY Zenon DEF WebRows
    <3> HIDE DEF r
    <3> QED
      BY <3>1, <3>2, ShortIsAnswer
  <2> QED
    BY <1>2, <1>6, <2>1
<1> QED
  BY <1>1, <1>3, <1>4, <1>5, <1>6

----------------------------------------------------------------------------
(* Types.                                                                  *)

Pcs == {"idle", "begun", "got", "ask", "score", "done"}
Fields == {"pc", "query", "got", "k", "rows", "scored", "out", "since", "floor"}

\* Rows that have their boost.
IsScored(rows) ==
  /\ rows \in Seq(ToSet(rows))
  /\ \A i \in DOMAIN rows :
       /\ rows[i].title \in Int /\ rows[i].score \in Int
       /\ rows[i].used \in 0..MaxRecords /\ rows[i].from \in 1..5

IsCall(c) ==
  /\ DOMAIN c = Fields /\ c.pc \in Pcs /\ c.k \in 0..5
  /\ {c.got, c.since, c.floor} \subseteq Usages
  /\ IsAnswer(c.rows) /\ IsScored(c.scored) /\ IsScored(c.out) /\ Len(c.out) <= Limit
  /\ c.pc # "score" => c.rows = <<>> /\ c.scored = <<>>
  /\ c.pc \in {"idle", "begun", "got"} => c.k = 0 /\ c.out = <<>>
  /\ c.pc = "done" => c.k = 5

\* The rows of the provider whose turn it is, and which of them are scored.
Scoring(c) ==
  c.pc = "score" =>
    /\ c.k \in 1..5 /\ c.rows \in Answers(c.query)[c.k] /\ Len(c.scored) < Len(c.rows)
    /\ \A i \in DOMAIN c.scored :
         /\ c.scored[i].id = c.rows[i].id /\ c.scored[i].title = c.rows[i].title
         /\ c.scored[i].score = c.rows[i].score /\ c.scored[i].from = c.k

TypeInv ==
  /\ {usage, snapshot} \subseteq Usages /\ typed \in Typed /\ faults \in 0..MaxFaults
  /\ search = [s \in Searches |-> search[s]]
  /\ \A s \in Searches : /\ IsCall(search[s]) /\ Scoring(search[s])
                         /\ search[s].pc # "idle" => search[s].query \in typed

\* One record of the usage knows nothing that another does not.
AtMost(u, w) == \A id : Count(u, id) <= Count(w, id)

\* What is known of a record that grows: a search began with no more than it
\* read, which is no more than the store holds; and once it goes by the snapshot
\* that is there, the snapshot knows what it has to know of.
Knows(c, snap, use) ==
  /\ AtMost(c.since, use) /\ AtMost(c.floor, use)
  /\ c.pc = "got" => AtMost(c.since, c.got) /\ AtMost(c.got, use)
  /\ c.pc \in {"ask", "score"} => AtMost(c.floor, snap)

\* The snapshot that d is about to put there will do for c, which is under way.
Serves(d, c) == d.pc = "got" /\ c.pc \notin {"idle", "done"} => AtMost(c.floor, d.got)

UsageInv ==
  /\ AtMost(snapshot, usage)
  /\ \A s \in Searches : Knows(search[s], snapshot, usage)
  /\ \A s, t \in Searches : Serves(search[t], search[s])

\* Each row that has its boost has the boost of what it must know of.
RowsKnow(c) ==
  /\ \A i \in DOMAIN c.scored : c.scored[i].used >= Count(c.floor, c.scored[i].id)
  /\ \A i \in DOMAIN c.out : c.out[i].used >= Count(c.floor, c.out[i].id)

RankInv == UsageInv /\ \A s \in Searches : RowsKnow(search[s])

\* How far a search has got with its providers.
Merges(c) == IF c.pc = "score" THEN c.k - 1 ELSE c.k

\* The rows of a page are in the order of their providers and their scores,
\* and no result comes twice.
PageOrder(out) ==
  \A i, j \in DOMAIN out : i < j =>
    /\ out[i].id # out[j].id
    /\ out[i].from < out[j].from \/ (out[i].from = out[j].from /\ ~Above(out[j], out[i]))

\* A provider has answered, as far as the page tells.
Answered(c, k) ==
  <<>> \notin Answers(c.query)[k] \/ \E i \in DOMAIN c.out : c.out[i].from = k

\* At least as good as r, on the page of c: of an earlier provider than k or of
\* this one and ranked no lower than r had to be.
Beats(c, i, k, r) ==
  \/ c.out[i].from < k
  \/ c.out[i].from = k /\ Score(c.out[i]) >= r.score + Boost[Count(c.floor, r.id)]

RowKept(c, k, r) ==
  \/ \E i \in DOMAIN c.out : c.out[i].id = r.id /\ Beats(c, i, k, r)
  \/ Len(c.out) = Limit /\ \A i \in DOMAIN c.out : Beats(c, i, k, r)

PageOf(c) ==
  /\ \A i \in DOMAIN c.out : c.out[i].from <= Merges(c)
  /\ PageOrder(c.out)
  /\ \A k \in 1..Merges(c) : \A rows \in Answers(c.query)[k] :
       Answered(c, k) => \A r \in ToSet(rows) : RowKept(c, k, r)

PageInv == \A s \in Searches : PageOf(search[s])

----------------------------------------------------------------------------
(* The usage records.                                                      *)

\* A record of the usage counts some ids, each up to the bound.
LEMMA UsageFields ==
  ASSUME NEW u
  PROVE  u \in Usages <=> DOMAIN u \subseteq Activated /\ u \in [DOMAIN u -> 0..MaxRecords]
BY DEF Usages

\* What is not counted counts for nothing.
LEMMA CountTypes ==
  ASSUME NEW u \in Usages, NEW id
  PROVE  Count(u, id) \in 0..MaxRecords /\ Count(u, id) \in Nat
BY UsageFields, SearchEngineAssumption DEF Count

\* The empty record knows the least of all.
LEMMA EmptyUsage ==
  /\ <<>> \in Usages
  /\ \A u \in Usages : AtMost(<<>>, u)
<1>1. DOMAIN <<>> = {} /\ <<>> \in [{} -> 0..MaxRecords]
  OBVIOUS
<1>2. <<>> \in Usages
  BY <1>1, UsageFields
<1>3. \A id : Count(<<>>, id) = 0
  BY <1>1 DEF Count
<1>4. ASSUME NEW u \in Usages, NEW id PROVE Count(<<>>, id) <= Count(u, id)
  BY <1>3, CountTypes
<1> QED
  BY <1>2, <1>4 DEF AtMost

\* Knowing no more than another is reflexive and transitive.
LEMMA AtMostOrder ==
  ASSUME NEW u \in Usages, NEW v \in Usages, NEW w \in Usages
  PROVE  /\ AtMost(u, u)
         /\ AtMost(u, v) /\ AtMost(v, w) => AtMost(u, w)
<1>1. \A id : /\ Count(u, id) \in Nat /\ Count(v, id) \in Nat /\ Count(w, id) \in Nat
  BY CountTypes
<1> QED
  BY <1>1 DEF AtMost

\* A set of numbers that is not empty has a least element.
LEMMA HasLeast ==
  ASSUME NEW S, S \subseteq Nat, S # {}
  PROVE  Min(S) \in S /\ \A y \in S : Min(S) <= y
<1> DEFINE R == {ss \in Nat \X Nat : ss[1] < ss[2]}
<1>1. IsWellFoundedOn(R, Nat)
  BY NatLessThanWellFounded DEF OpToRel
<1>2. PICK x \in S : \A y \in S : <<y, x>> \notin R
  <2> HIDE DEF R
  <2> QED
    BY <1>1, WFMin
<1>3. \A y \in S : x <= y
  <2> SUFFICES ASSUME NEW y \in S, ~(x <= y) PROVE FALSE
    OBVIOUS
  <2>1. <<y, x>> \in R
    OBVIOUS
  <2> QED
    BY <1>2, <2>1
<1> QED
  BY <1>3 DEF Min

\* The least that several records know is no more than any of them knows.
LEMMA OldestIsLeast ==
  ASSUME NEW us, us \subseteq Usages, us # {}
  PROVE  Oldest(us) \in Usages /\ \A u \in us : AtMost(Oldest(us), u)
<1> DEFINE D == UNION {DOMAIN u : u \in us}
           Counts(id) == {Count(u, id) : u \in us}
           o == [id \in D |-> Min(Counts(id))]
<1>1. Oldest(us) = o
  BY Zenon DEF Oldest
<1>2. ASSUME NEW id
      PROVE  /\ Min(Counts(id)) \in 0..MaxRecords
             /\ \A u \in us : Min(Counts(id)) <= Count(u, id)
  <2>1. Counts(id) \subseteq 0..MaxRecords /\ Counts(id) # {}
    BY CountTypes
  <2>2. Counts(id) \subseteq Nat
    BY <2>1
  <2>3. \A u \in us : Count(u, id) \in Counts(id)
    OBVIOUS
  <2> HIDE DEF Counts
  <2> QED
    BY <2>1, <2>2, <2>3, HasLeast
<1>3. D \subseteq Activated
  BY UsageFields
<1>4. DOMAIN o = D /\ o \in [D -> 0..MaxRecords] /\ \A id \in D : o[id] = Min(Counts(id))
  BY <1>2
<1> HIDE DEF o, D, Counts
<1>5. o \in Usages
  BY <1>3, <1>4, UsageFields
<1>6. ASSUME NEW u \in us, NEW id PROVE Count(o, id) <= Count(u, id)
  <2>1. Count(u, id) \in Nat
    BY CountTypes
  <2> QED
    BY <1>2, <1>4, <2>1 DEF Count
<1> QED
  BY <1>1, <1>5, <1>6 DEF AtMost

\* An activation adds to the records.
LEMMA RecordGrows ==
  ASSUME usage \in Usages, NEW id \in Activated, Record(id)
  PROVE  usage' \in Usages /\ AtMost(usage, usage')
<1> DEFINE new == [n \in DOMAIN usage \cup {id} |-> Count(usage, n) + IF n = id THEN 1 ELSE 0]
<1>1. usage' = new /\ Count(usage, id) < MaxRecords
  BY DEF Record
<1>2. \A n : Count(usage, n) \in 0..MaxRecords
  BY CountTypes
<1>3. DOMAIN usage \subseteq Activated
  BY UsageFields
<1>4. /\ DOMAIN new = DOMAIN usage \cup {id}
      /\ \A n \in DOMAIN usage \cup {id} : /\ new[n] \in 0..MaxRecords
                                          /\ new[n] >= Count(usage, n)
  BY <1>1, <1>2, SearchEngineAssumption
<1>5. new = [n \in DOMAIN new |-> new[n]]
  OBVIOUS
<1> HIDE DEF new
<1>6. new \in Usages
  BY <1>1, <1>3, <1>4, <1>5, UsageFields
<1>7. ASSUME NEW n PROVE Count(usage, n) <= Count(new, n)
  BY <1>2, <1>4 DEF Count
<1> QED
  BY <1>1, <1>6, <1>7 DEF AtMost

----------------------------------------------------------------------------
(* The steps of a search.                                                  *)

\* No rows are an answer, scored or not.
LEMMA NoRows == IsAnswer(<<>>) /\ IsScored(<<>>) /\ Len(<<>>) = 0 /\ DOMAIN <<>> = {}
BY DEF IsAnswer, IsScored, ToSet

\* What TypeInv says of one call.
LEMMA CallFields ==
  ASSUME TypeInv, NEW s \in Searches
  PROVE  /\ IsCall(search[s]) /\ Scoring(search[s])
         /\ search[s].pc # "idle" => /\ search[s].query \in typed
                                     /\ search[s].query \in Seq(ToSet(search[s].query))
BY ProvidersAssumption DEF TypeInv

\* What a step does to the call that takes it decides whether all stays typed.
OneMoves(s, c) ==
  /\ search' = [search EXCEPT ![s] = c]
  /\ search'[s] = c /\ \A t \in Searches \ {s} : search'[t] = search[t]

\* A step that moves one call to a well-formed one keeps TypeInv.
LEMMA MoveTypes ==
  ASSUME TypeInv, NEW s \in Searches, NEW c, search' = [search EXCEPT ![s] = c],
         IsCall(c), Scoring(c), c.pc # "idle" => c.query \in typed,
         usage' = usage, snapshot' \in Usages, typed' = typed, faults' \in 0..MaxFaults
  PROVE  TypeInv' /\ OneMoves(s, c)
<1>1. OneMoves(s, c)
  BY DEF TypeInv, OneMoves
<1>2. search' = [t \in Searches |-> search'[t]]
  BY DEF TypeInv
<1>3. ASSUME NEW t \in Searches
      PROVE  /\ IsCall(search'[t]) /\ Scoring(search'[t])
             /\ search'[t].pc # "idle" => search'[t].query \in typed'
  <2>1. CASE t = s
    BY <1>1, <2>1 DEF OneMoves
  <2>2. CASE t # s
    BY <1>1, <2>2 DEF OneMoves, TypeInv
  <2> QED
    BY <2>1, <2>2
<1> QED
  BY <1>1, <1>2, <1>3 DEF TypeInv

\* What each step does, from here to RecordStep: the call c it leaves, whose fields
\* the invariants need, and TypeInv.
LEMMA BeginStep ==
  ASSUME TypeInv, NEW s \in Searches, NEW query \in typed, Begin(s, query)
  PROVE  \E c : /\ TypeInv' /\ OneMoves(s, c)
                /\ c.pc = "begun" /\ c.query = query /\ c.k = 0
                /\ c.out = <<>> /\ c.scored = <<>> /\ c.since = usage
                /\ c.floor = Oldest({usage} \cup {search[t].since : t \in Running})
                /\ c.floor \in Usages /\ UNCHANGED <<usage, snapshot>>
                /\ \A t \in Running : AtMost(c.floor, search[t].since)
                /\ AtMost(c.floor, usage)
<1> DEFINE us == {usage} \cup {search[t].since : t \in Running}
           o == Oldest(us)
           c == [NotCalled EXCEPT !.pc = "begun", !.query = query, !.since = usage, !.floor = o]
<1>1. search' = [search EXCEPT ![s] = c] /\ UNCHANGED <<usage, snapshot, typed, faults>>
  BY DEF Begin
<1>2. us \subseteq Usages /\ us # {}
  BY CallFields DEF TypeInv, IsCall, Running
<1> HIDE DEF us
<1>3. o \in Usages /\ \A u \in us : AtMost(o, u)
  BY <1>2, OldestIsLeast
<1> HIDE DEF o
<1>4. /\ DOMAIN c = Fields /\ c.pc = "begun" /\ c.query = query /\ c.got = <<>> /\ c.k = 0
      /\ c.rows = <<>> /\ c.scored = <<>> /\ c.out = <<>> /\ c.since = usage /\ c.floor = o
  BY DEF NotCalled, Fields
<1> HIDE DEF c
<1>5. IsCall(c) /\ Scoring(c)
  BY <1>3, <1>4, NoRows, EmptyUsage, SearchEngineAssumption
  DEF IsCall, Scoring, Pcs, TypeInv
<1>6. TypeInv' /\ OneMoves(s, c)
  BY <1>1, <1>4, <1>5, MoveTypes DEF TypeInv
<1>7. usage \in us /\ \A t \in Running : search[t].since \in us
  BY DEF us
<1> QED
  BY <1>1, <1>3, <1>4, <1>6, <1>7 DEF o, us

LEMMA ReadStep ==
  ASSUME TypeInv, NEW s \in Searches, ReadsUsage(s)
  PROVE  \E c : /\ TypeInv' /\ OneMoves(s, c) /\ UNCHANGED <<usage, snapshot>>
                /\ c.query = search[s].query /\ c.k = search[s].k
                /\ c.out = <<>> /\ c.scored = <<>> /\ c.since = search[s].since
                /\ Stands(s, "begun")
                /\ \/ c.pc = "got" /\ c.got = usage /\ c.floor = search[s].floor
                   \/ c.pc = "ask" /\ c.floor = <<>>
<1>1. IsCall(search[s]) /\ search[s].query \in typed /\ search[s].pc = "begun"
  BY CallFields DEF ReadsUsage, Stands
<1>2. CASE search' = [search EXCEPT ![s].pc = "got", ![s].got = usage] /\ UNCHANGED faults
  <2> DEFINE c == [search[s] EXCEPT !.pc = "got", !.got = usage]
  <2>1. search' = [search EXCEPT ![s] = c]
    BY <1>2
  <2>2. /\ DOMAIN c = Fields /\ c.pc = "got" /\ c.got = usage
        /\ c.query = search[s].query /\ c.k = search[s].k /\ c.rows = search[s].rows
        /\ c.scored = search[s].scored /\ c.out = search[s].out
        /\ c.since = search[s].since /\ c.floor = search[s].floor
    BY <1>1 DEF IsCall, Fields
  <2> HIDE DEF c
  <2>3. IsCall(c) /\ Scoring(c) /\ c.out = <<>> /\ c.scored = <<>>
    BY <1>1, <2>2 DEF IsCall, Scoring, Pcs, TypeInv
  <2>4. TypeInv' /\ OneMoves(s, c)
    BY <1>1, <1>2, <2>1, <2>2, <2>3, MoveTypes DEF TypeInv, ReadsUsage
  <2> QED
    BY <1>1, <2>2, <2>3, <2>4 DEF ReadsUsage
<1>3. CASE /\ faults < MaxFaults /\ faults' = faults + 1
           /\ search' = [search EXCEPT ![s].pc = "ask", ![s].floor = <<>>]
  <2> DEFINE c == [search[s] EXCEPT !.pc = "ask", !.floor = <<>>]
  <2>1. search' = [search EXCEPT ![s] = c]
    BY <1>3
  <2>2. /\ DOMAIN c = Fields /\ c.pc = "ask" /\ c.got = search[s].got
        /\ c.query = search[s].query /\ c.k = search[s].k /\ c.rows = search[s].rows
        /\ c.scored = search[s].scored /\ c.out = search[s].out
        /\ c.since = search[s].since /\ c.floor = <<>>
    BY <1>1 DEF IsCall, Fields
  <2> HIDE DEF c
  <2>3. IsCall(c) /\ Scoring(c) /\ c.out = <<>> /\ c.scored = <<>>
    BY <1>1, <2>2, EmptyUsage DEF IsCall, Scoring, Pcs, TypeInv
  <2>4. faults' \in 0..MaxFaults
    BY <1>3, SearchEngineAssumption DEF TypeInv
  <2>5. TypeInv' /\ OneMoves(s, c)
    BY <1>1, <2>1, <2>2, <2>3, <2>4, MoveTypes DEF TypeInv, ReadsUsage
  <2> QED
    BY <1>1, <2>2, <2>3, <2>5 DEF ReadsUsage
<1> QED
  BY <1>2, <1>3 DEF ReadsUsage

LEMMA RefreshStep ==
  ASSUME TypeInv, NEW s \in Searches, Refreshes(s)
  PROVE  \E c : /\ TypeInv' /\ OneMoves(s, c) /\ UNCHANGED usage /\ snapshot' = search[s].got
                /\ c.pc = "ask" /\ c.query = search[s].query /\ c.k = search[s].k
                /\ c.out = <<>> /\ c.scored = <<>>
                /\ c.since = search[s].since /\ c.floor = search[s].floor /\ Stands(s, "got")
<1> DEFINE c == [search[s] EXCEPT !.pc = "ask", !.got = <<>>]
<1>1. IsCall(search[s]) /\ search[s].query \in typed /\ search[s].pc = "got"
  BY CallFields DEF Refreshes, Stands
<1>2. search' = [search EXCEPT ![s] = c]
  BY DEF Refreshes
<1>3. /\ DOMAIN c = Fields /\ c.pc = "ask" /\ c.got = <<>>
      /\ c.query = search[s].query /\ c.k = search[s].k /\ c.rows = search[s].rows
      /\ c.scored = search[s].scored /\ c.out = search[s].out
      /\ c.since = search[s].since /\ c.floor = search[s].floor
  BY <1>1 DEF IsCall, Fields
<1> HIDE DEF c
<1>4. IsCall(c) /\ Scoring(c) /\ c.out = <<>> /\ c.scored = <<>>
  BY <1>1, <1>3, EmptyUsage DEF IsCall, Scoring, Pcs, TypeInv
<1>5. snapshot' \in Usages
  BY <1>1 DEF Refreshes, IsCall
<1>6. TypeInv' /\ OneMoves(s, c)
  BY <1>1, <1>2, <1>3, <1>4, <1>5, MoveTypes DEF TypeInv, Refreshes
<1> QED
  BY <1>1, <1>3, <1>4, <1>6 DEF Refreshes

\* No provider of ks has to answer.
Quiet(query, ks) == \A k \in ks : <<>> \in Answers(query)[k]

LEMMA AskStep ==
  ASSUME TypeInv, NEW s \in Searches, Asks(s)
  PROVE  \E c : /\ TypeInv' /\ OneMoves(s, c) /\ UNCHANGED <<usage, snapshot>>
                /\ c.query = search[s].query /\ c.out = search[s].out /\ c.scored = <<>>
                /\ c.since = search[s].since /\ c.floor = search[s].floor /\ Stands(s, "ask")
                /\ \/ /\ c.pc = "score" /\ c.k \in (search[s].k + 1)..5
                      /\ Quiet(c.query, (search[s].k + 1)..(c.k - 1))
                   \/ /\ c.pc = "done" /\ c.k = 5
                      /\ Len(c.out) = Limit \/ Quiet(c.query, (search[s].k + 1)..5)
<1>1. /\ IsCall(search[s]) /\ search[s].query \in typed /\ search[s].pc = "ask"
      /\ search[s].query \in Seq(ToSet(search[s].query))
  BY CallFields DEF Asks, Stands
<1>2. ASSUME NEW k \in (search[s].k + 1)..5, Quiet(search[s].query, (search[s].k + 1)..(k - 1)),
             NEW rows \in Answers(search[s].query)[k] \ {<<>>},
             search' = [search EXCEPT ![s].pc = "score", ![s].k = k, ![s].rows = rows,
                                      ![s].scored = <<>>]
      PROVE  \E c : /\ TypeInv' /\ OneMoves(s, c)
                    /\ c.query = search[s].query /\ c.out = search[s].out /\ c.scored = <<>>
                    /\ c.since = search[s].since /\ c.floor = search[s].floor
                    /\ c.pc = "score" /\ c.k \in (search[s].k + 1)..5
                    /\ Quiet(c.query, (search[s].k + 1)..(c.k - 1))
  <2> DEFINE c == [search[s] EXCEPT !.pc = "score", !.k = k, !.rows = rows, !.scored = <<>>]
  <2>1. search' = [search EXCEPT ![s] = c]
    BY <1>2
  <2>2. /\ DOMAIN c = Fields /\ c.pc = "score" /\ c.got = search[s].got
        /\ c.query = search[s].query /\ c.k = k /\ c.rows = rows
        /\ c.scored = <<>> /\ c.out = search[s].out
        /\ c.since = search[s].since /\ c.floor = search[s].floor
    BY <1>1 DEF IsCall, Fields
  <2> HIDE DEF c
  <2>3. k \in 1..5 /\ k \in 0..5
    BY <1>1 DEF IsCall
  <2>4. IsAnswer(rows) /\ Len(rows) > 0
    <3>1. IsAnswer(rows)
      BY <1>1, <2>3, AnswersAreRows
    <3> QED
      BY <3>1 DEF IsAnswer
  <2>5. IsCall(c) /\ Scoring(c)
    BY <1>1, <2>2, <2>3, <2>4, NoRows DEF IsCall, Scoring, Pcs
  <2>6. TypeInv' /\ OneMoves(s, c)
    BY <1>1, <2>1, <2>2, <2>5, MoveTypes DEF TypeInv, Asks
  <2> QED
    BY <1>1, <1>2, <2>2, <2>6
<1>3. CASE /\ Len(search[s].out) = Limit \/ Quiet(search[s].query, (search[s].k + 1)..5)
           /\ search' = [search EXCEPT ![s].pc = "done", ![s].k = 5]
  <2> DEFINE c == [search[s] EXCEPT !.pc = "done", !.k = 5]
  <2>1. search' = [search EXCEPT ![s] = c]
    BY <1>3
  <2>2. /\ DOMAIN c = Fields /\ c.pc = "done" /\ c.got = search[s].got
        /\ c.query = search[s].query /\ c.k = 5 /\ c.rows = search[s].rows
        /\ c.scored = search[s].scored /\ c.out = search[s].out
        /\ c.since = search[s].since /\ c.floor = search[s].floor
    BY <1>1 DEF IsCall, Fields
  <2> HIDE DEF c
  <2>3. IsCall(c) /\ Scoring(c) /\ c.scored = <<>>
    BY <1>1, <2>2 DEF IsCall, Scoring, Pcs
  <2>4. TypeInv' /\ OneMoves(s, c)
    BY <1>1, <2>1, <2>2, <2>3, MoveTypes DEF TypeInv, Asks
  <2> QED
    BY <1>1, <1>3, <2>2, <2>3, <2>4 DEF Asks, Stands
<1> QED
  BY <1>1, <1>2, <1>3 DEF Asks, Quiet

\* MergeAccounts for the rows of a call.
LEMMA MergeOf ==
  ASSUME NEW out, IsScored(out), Len(out) <= Limit, NEW list, IsScored(list)
  PROVE  LET page == Merge(out, list)
             first == Len(out)
         IN /\ IsScored(page) /\ Len(page) <= Limit
            /\ first \in Nat /\ Len(page) \in Nat /\ DOMAIN page = 1..Len(page)
            /\ DOMAIN out = 1..first /\ first <= Len(page)
            /\ \A i \in 1..first : page[i] = out[i]
            /\ \A i \in (first + 1)..Len(page) : \E m \in DOMAIN list : page[i] = list[m]
            /\ NoneTwice(first, page) /\ InOrder(first, page)
            /\ \A m \in DOMAIN list : Accounted(first, page, list[m])
<1> DEFINE page == Merge(out, list)
           first == Len(out)
           T == ToSet(out) \cup ToSet(list)
<1>1. /\ DOMAIN out = 1..first /\ first \in Nat /\ \A i \in 1..first : out[i] \in T
      /\ out = [i \in 1..first |-> out[i]]
  BY DEF IsScored, ToSet
<1>2. DOMAIN list = 1..Len(list) /\ Len(list) \in Nat /\ \A m \in DOMAIN list : list[m] \in T
  BY DEF IsScored, ToSet
<1>3. IsRanked(list)
  <2>1. DOMAIN list \subseteq Int /\ IsFiniteSet(DOMAIN list)
    BY <1>2, FS_Interval
  <2> QED
    BY <2>1 DEF IsRanked, IsScored
<1> HIDE DEF T
<1>4. out \in Seq(T)
  BY <1>1
<1>5. /\ page \in Seq(T) /\ first <= Len(page) /\ Len(page) <= Limit
      /\ \A i \in 1..first : page[i] = out[i]
      /\ \A i \in (first + 1)..Len(page) : \E m \in DOMAIN list : page[i] = list[m]
      /\ NoneTwice(first, page) /\ InOrder(first, page)
      /\ \A m \in DOMAIN list : Accounted(first, page, list[m])
  BY <1>2, <1>3, <1>4, MergeAccounts
<1> HIDE DEF page
<1>6. /\ Len(page) \in Nat /\ DOMAIN page = 1..Len(page)
      /\ page = [i \in 1..Len(page) |-> page[i]]
  BY <1>5
<1>7. page \in Seq(ToSet(page))
  <2>1. \A i \in 1..Len(page) : page[i] \in ToSet(page)
    BY <1>6 DEF ToSet
  <2> QED
    BY <1>6, <2>1
<1>8. ASSUME NEW i \in DOMAIN page
      PROVE  /\ page[i].title \in Int /\ page[i].score \in Int
             /\ page[i].used \in 0..MaxRecords /\ page[i].from \in 1..5
  <2>1. i \in 1..first \/ i \in (first + 1)..Len(page)
    BY <1>1, <1>6
  <2>2. CASE i \in 1..first
    BY <1>1, <1>5, <2>2 DEF IsScored
  <2>3. CASE i \in (first + 1)..Len(page)
    <3>1. PICK m \in DOMAIN list : page[i] = list[m]
      BY <1>5, <2>3
    <3> QED
      BY <3>1 DEF IsScored
  <2> QED
    BY <2>1, <2>2, <2>3
<1>9. IsScored(page)
  BY <1>7, <1>8 DEF IsScored
<1> QED
  BY <1>1, <1>5, <1>6, <1>9 DEF page

\* The next row has its boost: by the snapshot that is there.
NextScored(c, list) ==
  /\ IsScored(list) /\ Len(list) = Len(c.scored) + 1
  /\ \A i \in DOMAIN list :
       /\ list[i].id = c.rows[i].id /\ list[i].title = c.rows[i].title
       /\ list[i].score = c.rows[i].score /\ list[i].from = c.k
       /\ \/ i \in DOMAIN c.scored /\ list[i] = c.scored[i]
          \/ list[i].used = Count(snapshot, list[i].id)

\* The next row gets its boost from the snapshot and stays in its place.
LEMMA ScoredGrows ==
  ASSUME TypeInv, NEW s \in Searches, Stands(s, "score")
  PROVE  LET me == search[s]
             row == me.rows[Len(me.scored) + 1]
         IN NextScored(me, Append(me.scored, [id |-> row.id, title |-> row.title,
              score |-> row.score, used |-> Count(snapshot, row.id), from |-> me.k]))
<1> DEFINE me == search[s]
           n == Len(me.scored)
           row == me.rows[n + 1]
           r == [id |-> row.id, title |-> row.title, score |-> row.score,
                 used |-> Count(snapshot, row.id), from |-> me.k]
           list == Append(me.scored, r)
<1>1. IsCall(me) /\ Scoring(me) /\ me.pc = "score"
  BY CallFields DEF Stands
<1> HIDE DEF me
<1>2. /\ n \in Nat /\ DOMAIN me.scored = 1..n /\ me.scored \in Seq(ToSet(me.scored))
      /\ DOMAIN me.rows = 1..Len(me.rows) /\ n + 1 \in DOMAIN me.rows /\ me.k \in 1..5
  BY <1>1 DEF IsCall, IsScored, IsAnswer, Scoring
<1>3. row.title \in Int /\ row.score \in Int
  BY <1>1, <1>2 DEF IsCall, IsAnswer
<1>4. /\ r.id = row.id /\ r.title = row.title /\ r.score = row.score
      /\ r.used = Count(snapshot, r.id) /\ r.from = me.k /\ r.used \in 0..MaxRecords
  BY CountTypes DEF TypeInv
<1> HIDE DEF r
<1>5. /\ Len(list) = n + 1 /\ DOMAIN list = 1..(n + 1) /\ list[n + 1] = r
      /\ \A i \in 1..n : list[i] = me.scored[i]
      /\ list = [i \in 1..(n + 1) |-> list[i]]
  <2>1. list \in Seq(ToSet(me.scored) \cup {r})
    <3>1. me.scored \in Seq(ToSet(me.scored) \cup {r})
      <4>1. \A i \in 1..n : me.scored[i] \in ToSet(me.scored) \cup {r}
        BY <1>2 DEF ToSet
      <4>2. me.scored = [i \in 1..n |-> me.scored[i]]
        BY <1>2
      <4> QED
        BY <1>2, <4>1, <4>2
    <3> QED
      BY <3>1
  <2> QED
    BY <1>2, <2>1
<1> HIDE DEF list
<1>6. ASSUME NEW i \in 1..(n + 1)
      PROVE  \/ i \in 1..n /\ list[i] = me.scored[i]
             \/ i = n + 1 /\ list[i] = r
  <2>1. i \in 1..n \/ i = n + 1
    <3> HIDE DEF n
    <3> QED
      BY <1>2
  <2> QED
    BY <1>5, <2>1, Zenon
<1>7. IsScored(list)
  <2>1. \A i \in 1..(n + 1) : list[i] \in ToSet(list)
    BY <1>5 DEF ToSet
  <2>2. list \in Seq(ToSet(list))
    <3>1. list = [i \in 1..(n + 1) |-> list[i]] /\ n + 1 \in Nat
      BY <1>2, <1>5
    <3> HIDE DEF n
    <3> QED
      BY <2>1, <3>1
  <2>3. \A i \in DOMAIN list : /\ list[i].title \in Int /\ list[i].score \in Int
                               /\ list[i].used \in 0..MaxRecords /\ list[i].from \in 1..5
    BY <1>1, <1>2, <1>3, <1>4, <1>5, <1>6 DEF IsCall, IsScored
  <2> QED
    BY <2>2, <2>3 DEF IsScored
<1>8. ASSUME NEW i \in DOMAIN list
      PROVE  /\ list[i].id = me.rows[i].id /\ list[i].title = me.rows[i].title
             /\ list[i].score = me.rows[i].score /\ list[i].from = me.k
             /\ \/ i \in DOMAIN me.scored /\ list[i] = me.scored[i]
                \/ list[i].used = Count(snapshot, list[i].id)
  BY <1>1, <1>2, <1>4, <1>5, <1>6 DEF Scoring
<1>9. NextScored(me, list)
  BY <1>5, <1>7, <1>8 DEF NextScored
<1> QED
  BY <1>9 DEF me, list, r

LEMMA ScoreStep ==
  ASSUME TypeInv, NEW s \in Searches, Scores(s)
  PROVE  \E c, list :
           /\ TypeInv' /\ OneMoves(s, c) /\ UNCHANGED <<usage, snapshot>>
           /\ c.query = search[s].query /\ c.k = search[s].k /\ c.since = search[s].since
           /\ c.floor = search[s].floor /\ Stands(s, "score") /\ NextScored(search[s], list)
           /\ \/ c.pc = "score" /\ c.scored = list /\ c.out = search[s].out
              \/ /\ c.pc = "ask" /\ c.scored = <<>> /\ c.out = Merge(search[s].out, list)
                 /\ Len(list) = Len(search[s].rows)
<1> DEFINE me == search[s]
           row == me.rows[Len(me.scored) + 1]
           list == Append(me.scored, [id |-> row.id, title |-> row.title, score |-> row.score,
                                      used |-> Count(snapshot, row.id), from |-> me.k])
<1>1. /\ IsCall(me) /\ Scoring(me) /\ me.query \in typed /\ me.pc = "score"
  BY CallFields DEF Scores, Stands
<1>2. NextScored(me, list)
  BY ScoredGrows DEF Scores
<1>3. UNCHANGED <<usage, snapshot, typed, faults>>
  BY DEF Scores
<1>4. \/ Len(list) < Len(me.rows) /\ search' = [search EXCEPT ![s].scored = list]
      \/ /\ ~(Len(list) < Len(me.rows))
         /\ search' = [search EXCEPT ![s].pc = "ask", ![s].rows = <<>>, ![s].scored = <<>>,
                                     ![s].out = Merge(me.out, list)]
  BY DEF Scores
<1> HIDE DEF list
<1>5. CASE Len(list) < Len(me.rows) /\ search' = [search EXCEPT ![s].scored = list]
  <2> DEFINE c == [me EXCEPT !.scored = list]
  <2>1. search' = [search EXCEPT ![s] = c]
    BY <1>5
  <2>2. /\ DOMAIN c = Fields /\ c.pc = "score" /\ c.got = me.got
        /\ c.query = me.query /\ c.k = me.k /\ c.rows = me.rows
        /\ c.scored = list /\ c.out = me.out
        /\ c.since = me.since /\ c.floor = me.floor
    BY <1>1 DEF IsCall, Fields
  <2> HIDE DEF c
  <2>3. IsCall(c)
    BY <1>1, <1>2, <2>2 DEF IsCall, NextScored
  <2>4. Scoring(c)
    BY <1>1, <1>2, <1>5, <2>2 DEF Scoring, NextScored
  <2>5. TypeInv' /\ OneMoves(s, c)
    BY <1>1, <1>3, <2>1, <2>2, <2>3, <2>4, MoveTypes DEF TypeInv
  <2> QED
    BY <1>1, <1>2, <1>3, <2>2, <2>5 DEF Stands
<1>6. CASE /\ ~(Len(list) < Len(me.rows))
           /\ search' = [search EXCEPT ![s].pc = "ask", ![s].rows = <<>>, ![s].scored = <<>>,
                                       ![s].out = Merge(me.out, list)]
  <2> DEFINE c == [me EXCEPT !.pc = "ask", !.rows = <<>>, !.scored = <<>>,
                             !.out = Merge(me.out, list)]
  <2>1. search' = [search EXCEPT ![s] = c]
    BY <1>6
  <2>2. /\ DOMAIN c = Fields /\ c.pc = "ask" /\ c.got = me.got
        /\ c.query = me.query /\ c.k = me.k /\ c.rows = <<>>
        /\ c.scored = <<>> /\ c.out = Merge(me.out, list)
        /\ c.since = me.since /\ c.floor = me.floor
    BY <1>1 DEF IsCall, Fields
  <2> HIDE DEF c
  <2>3. IsScored(Merge(me.out, list)) /\ Len(Merge(me.out, list)) <= Limit
    BY <1>1, <1>2, MergeOf DEF IsCall, NextScored
  <2>4. IsCall(c) /\ Scoring(c)
    BY <1>1, <2>2, <2>3, NoRows DEF IsCall, Scoring, Pcs
  <2>5. TypeInv' /\ OneMoves(s, c)
    BY <1>1, <1>3, <2>1, <2>2, <2>4, MoveTypes DEF TypeInv
  <2>6. Len(list) = Len(me.rows)
    BY <1>1, <1>2, <1>6 DEF NextScored, Scoring, IsCall, IsAnswer, IsScored
  <2> QED
    BY <1>1, <1>2, <1>3, <2>2, <2>5, <2>6 DEF Stands
<1> QED
  BY <1>4, <1>5, <1>6

LEMMA RecordStep ==
  ASSUME TypeInv, NEW id \in Activated, Record(id)
  PROVE  TypeInv' /\ AtMost(usage, usage') /\ UNCHANGED <<snapshot, search>>
<1>1. usage' \in Usages /\ AtMost(usage, usage')
  BY RecordGrows DEF TypeInv
<1>2. UNCHANGED <<snapshot, search, typed, faults>>
  BY DEF Record
<1> QED
  BY <1>1, <1>2 DEF TypeInv

\* TypeInv is inductive.
LEMMA TypesKept ==
  ASSUME TypeInv, [Next]_vars
  PROVE  TypeInv'
<1>1. ASSUME NEW s \in Searches, NEW query \in typed, Begin(s, query) PROVE TypeInv'
  BY <1>1, BeginStep
<1>2. ASSUME NEW s \in Searches, ReadsUsage(s) PROVE TypeInv'
  BY <1>2, ReadStep
<1>3. ASSUME NEW s \in Searches, Refreshes(s) PROVE TypeInv'
  BY <1>3, RefreshStep
<1>4. ASSUME NEW s \in Searches, Asks(s) PROVE TypeInv'
  BY <1>4, AskStep
<1>5. ASSUME NEW s \in Searches, Scores(s) PROVE TypeInv'
  BY <1>5, ScoreStep
<1>6. ASSUME NEW id \in Activated, Record(id) PROVE TypeInv'
  BY <1>6, RecordStep
<1>7. ASSUME UNCHANGED vars PROVE TypeInv'
  BY <1>7 DEF vars, TypeInv
<1> QED
  BY <1>1, <1>2, <1>3, <1>4, <1>5, <1>6, <1>7 DEF Next

LEMMA TypesBegin ==
  ASSUME Init
  PROVE  TypeInv
<1>1. IsCall(NotCalled) /\ Scoring(NotCalled)
  <2>1. /\ DOMAIN NotCalled = Fields /\ NotCalled.pc = "idle" /\ NotCalled.got = <<>>
        /\ NotCalled.k = 0 /\ NotCalled.rows = <<>> /\ NotCalled.scored = <<>>
        /\ NotCalled.out = <<>> /\ NotCalled.since = <<>> /\ NotCalled.floor = <<>>
    BY DEF NotCalled, Fields
  <2> QED
    BY <2>1, NoRows, EmptyUsage, SearchEngineAssumption DEF IsCall, Scoring, Pcs
<1>2. NotCalled.pc = "idle"
  BY DEF NotCalled
<1>3. \A s \in Searches : search[s] = NotCalled
  BY DEF Init
<1>4. search = [s \in Searches |-> search[s]]
  BY DEF Init
<1>5. {usage, snapshot} \subseteq Usages /\ typed \in Typed /\ faults \in 0..MaxFaults
  BY EmptyUsage, SearchEngineAssumption DEF Init
<1> QED
  BY <1>1, <1>2, <1>3, <1>4, <1>5 DEF TypeInv

LEMMA TypeInvCorrect == Spec => []TypeInv
<1>1. Init => TypeInv
  BY TypesBegin
<1>2. TypeInv /\ [Next]_vars => TypeInv'
  BY TypesKept
<1> QED
  BY <1>1, <1>2, PTL DEF Spec

----------------------------------------------------------------------------
(* What the searches know of the usage.                                    *)

\* The records of a search are records of the usage.
LEMMA CallUsages ==
  ASSUME TypeInv, NEW s \in Searches
  PROVE  /\ search[s].got \in Usages /\ search[s].since \in Usages
         /\ search[s].floor \in Usages /\ usage \in Usages /\ snapshot \in Usages
BY CallFields DEF IsCall, TypeInv

\* A step of one search on which the others' records do not depend.
LEMMA KnowsAfter ==
  ASSUME UsageInv, NEW s \in Searches, NEW c, OneMoves(s, c), UNCHANGED <<usage, snapshot>>,
         Knows(c, snapshot, usage), Serves(c, c),
         \A t \in Searches : t # s => Serves(search[t], c) /\ Serves(c, search[t])
  PROVE  UsageInv'
<1>1. \A t \in Searches : Knows(search'[t], snapshot', usage')
  BY DEF UsageInv, OneMoves
<1>2. ASSUME NEW t \in Searches, NEW u \in Searches PROVE Serves(search'[u], search'[t])
  <2>1. CASE t = s /\ u = s
    BY <2>1 DEF OneMoves
  <2>2. CASE t = s /\ u # s
    BY <2>2 DEF OneMoves
  <2>3. CASE t # s /\ u = s
    BY <2>3 DEF OneMoves
  <2>4. CASE t # s /\ u # s
    BY <2>4 DEF OneMoves, UsageInv
  <2> QED
    BY <2>1, <2>2, <2>3, <2>4
<1> QED
  BY <1>1, <1>2 DEF UsageInv

\* UsageInv is inductive: what a search must know of never overtakes the snapshot
\* nor what a search that may still replace the snapshot has read.
LEMMA UsageKept ==
  ASSUME TypeInv, UsageInv, [Next]_vars
  PROVE  UsageInv'
<1>1. ASSUME NEW s \in Searches, NEW query \in typed, Begin(s, query) PROVE UsageInv'
  <2>1. PICK c : /\ OneMoves(s, c) /\ c.pc = "begun" /\ c.since = usage /\ c.floor \in Usages
                 /\ UNCHANGED <<usage, snapshot>>
                 /\ \A t \in Running : AtMost(c.floor, search[t].since)
                 /\ AtMost(c.floor, usage)
    BY <1>1, BeginStep
  <2>2. Knows(c, snapshot, usage) /\ Serves(c, c)
    BY <2>1, CallUsages, AtMostOrder DEF Knows, Serves
  <2>3. ASSUME NEW t \in Searches PROVE Serves(search[t], c) /\ Serves(c, search[t])
    <3>1. Serves(c, search[t])
      BY <2>1 DEF Serves
    <3>2. ASSUME search[t].pc = "got" PROVE AtMost(c.floor, search[t].got)
      <4>1. AtMost(c.floor, search[t].since) /\ AtMost(search[t].since, search[t].got)
        BY <2>1, <3>2 DEF Running, UsageInv, Knows
      <4> QED
        BY <2>1, <4>1, CallUsages, AtMostOrder
    <3> QED
      BY <3>1, <3>2 DEF Serves
  <2> QED
    BY <2>1, <2>2, <2>3, KnowsAfter
<1>2. ASSUME NEW s \in Searches, ReadsUsage(s) PROVE UsageInv'
  <2>1. PICK c : /\ OneMoves(s, c) /\ UNCHANGED <<usage, snapshot>> /\ Stands(s, "begun")
                 /\ c.since = search[s].since
                 /\ \/ c.pc = "got" /\ c.got = usage /\ c.floor = search[s].floor
                    \/ c.pc = "ask" /\ c.floor = <<>>
    BY <1>2, ReadStep
  <2>2. Knows(search[s], snapshot, usage) /\ search[s].pc = "begun"
    BY <2>1 DEF UsageInv, Stands
  <2>3. CASE c.pc = "got" /\ c.got = usage /\ c.floor = search[s].floor
    <3>1. Knows(c, snapshot, usage) /\ Serves(c, c)
      BY <2>1, <2>2, <2>3, CallUsages, AtMostOrder DEF Knows, Serves
    <3>2. ASSUME NEW t \in Searches PROVE Serves(search[t], c) /\ Serves(c, search[t])
      BY <2>1, <2>2, <2>3 DEF UsageInv, Knows, Serves
    <3> QED
      BY <2>1, <3>1, <3>2, KnowsAfter
  <2>4. CASE c.pc = "ask" /\ c.floor = <<>>
    <3>1. Knows(c, snapshot, usage) /\ Serves(c, c)
      BY <2>1, <2>2, <2>4, CallUsages, EmptyUsage DEF Knows, Serves
    <3>2. ASSUME NEW t \in Searches PROVE Serves(search[t], c) /\ Serves(c, search[t])
      BY <2>4, CallUsages, EmptyUsage DEF Serves
    <3> QED
      BY <2>1, <3>1, <3>2, KnowsAfter
  <2> QED
    BY <2>1, <2>3, <2>4
<1>3. ASSUME NEW s \in Searches, Refreshes(s) PROVE UsageInv'
  <2>1. PICK c : /\ OneMoves(s, c) /\ UNCHANGED usage /\ snapshot' = search[s].got
                 /\ c.pc = "ask" /\ c.since = search[s].since /\ c.floor = search[s].floor
                 /\ Stands(s, "got")
    BY <1>3, RefreshStep
  <2>2. search[s].pc = "got"
    BY <2>1 DEF Stands
  <2>3. AtMost(snapshot', usage')
    BY <2>1, <2>2 DEF UsageInv, Knows
  <2>4. ASSUME NEW t \in Searches PROVE Knows(search'[t], snapshot', usage')
    <3>1. CASE t = s
      BY <2>1, <2>2, <3>1 DEF OneMoves, UsageInv, Knows, Serves
    <3>2. CASE t # s
      BY <2>1, <2>2, <3>2 DEF OneMoves, UsageInv, Knows, Serves
    <3> QED
      BY <3>1, <3>2
  <2>5. ASSUME NEW t \in Searches, NEW u \in Searches PROVE Serves(search'[u], search'[t])
    <3>1. Serves(search[u], search[t])
      BY DEF UsageInv
    <3>2. \A v \in Searches : /\ search'[v].floor = search[v].floor
                              /\ search'[v].pc = "got" => search'[v] = search[v]
                              /\ search[v].pc \in {"idle", "done"} => search'[v].pc = search[v].pc
      BY <2>1, <2>2 DEF OneMoves
    <3> QED
      BY <3>1, <3>2 DEF Serves
  <2> QED
    BY <2>3, <2>4, <2>5 DEF UsageInv
<1>4. ASSUME NEW s \in Searches, NEW c, OneMoves(s, c), UNCHANGED <<usage, snapshot>>,
             c.since = search[s].since, c.floor = search[s].floor,
             c.pc \in {"ask", "score", "done"}, search[s].pc \in {"ask", "score"}
      PROVE  UsageInv'
  <2>1. Knows(c, snapshot, usage) /\ Serves(c, c)
    BY <1>4 DEF UsageInv, Knows, Serves
  <2>2. ASSUME NEW t \in Searches PROVE Serves(search[t], c) /\ Serves(c, search[t])
    BY <1>4 DEF UsageInv, Serves
  <2> QED
    BY <1>4, <2>1, <2>2, KnowsAfter
<1>5. ASSUME NEW s \in Searches, Asks(s) PROVE UsageInv'
  <2>1. PICK c : /\ OneMoves(s, c) /\ UNCHANGED <<usage, snapshot>>
                 /\ c.since = search[s].since /\ c.floor = search[s].floor
                 /\ c.pc \in {"score", "done"} /\ Stands(s, "ask")
    BY <1>5, AskStep
  <2> QED
    BY <1>4, <2>1 DEF Stands
<1>6. ASSUME NEW s \in Searches, Scores(s) PROVE UsageInv'
  <2>1. PICK c : /\ OneMoves(s, c) /\ UNCHANGED <<usage, snapshot>>
                 /\ c.since = search[s].since /\ c.floor = search[s].floor
                 /\ c.pc \in {"score", "ask"} /\ Stands(s, "score")
    BY <1>6, ScoreStep
  <2> QED
    BY <1>4, <2>1 DEF Stands
<1>7. ASSUME NEW id \in Activated, Record(id) PROVE UsageInv'
  <2>1. AtMost(usage, usage') /\ UNCHANGED <<snapshot, search>> /\ usage' \in Usages
    BY <1>7, RecordStep DEF TypeInv
  <2>2. ASSUME NEW u \in Usages, AtMost(u, usage) PROVE AtMost(u, usage')
    BY <2>1, <2>2, AtMostOrder DEF TypeInv
  <2>3. AtMost(snapshot', usage')
    BY <2>1, <2>2 DEF UsageInv, TypeInv
  <2>4. ASSUME NEW t \in Searches PROVE Knows(search'[t], snapshot', usage')
    BY <2>1, <2>2, CallUsages DEF UsageInv, Knows
  <2> QED
    BY <2>1, <2>3, <2>4 DEF UsageInv
<1>8. ASSUME UNCHANGED vars PROVE UsageInv'
  BY <1>8 DEF vars, UsageInv
<1> QED
  BY <1>1, <1>2, <1>3, <1>5, <1>6, <1>7, <1>8 DEF Next

\* The next row has its boost by a snapshot that knows what the search has to
\* know of.
LEMMA ListKnows ==
  ASSUME TypeInv, RankInv, NEW s \in Searches, Stands(s, "score"),
         NEW list, NextScored(search[s], list), NEW i \in DOMAIN list
  PROVE  list[i].used >= Count(search[s].floor, list[i].id)
<1>1. RowsKnow(search[s]) /\ AtMost(search[s].floor, snapshot)
  BY DEF RankInv, UsageInv, Knows, Stands
<1>2. CASE i \in DOMAIN search[s].scored /\ list[i] = search[s].scored[i]
  BY <1>1, <1>2 DEF RowsKnow
<1>3. CASE list[i].used = Count(snapshot, list[i].id)
  <2>1. Count(snapshot, list[i].id) \in Nat /\ Count(search[s].floor, list[i].id) \in Nat
    BY CallUsages, CountTypes
  <2>2. Count(search[s].floor, list[i].id) <= Count(snapshot, list[i].id)
    BY <1>1 DEF AtMost
  <2> QED
    BY <1>3, <2>1, <2>2
<1> QED
  BY <1>2, <1>3 DEF NextScored

\* The rows of a page know what their search has to know of.
LEMMA RowsKept ==
  ASSUME TypeInv, RankInv, [Next]_vars, NEW t \in Searches
  PROVE  RowsKnow(search'[t])
<1>1. RowsKnow(search[t])
  BY DEF RankInv
<1>2. ASSUME NEW s \in Searches, NEW c, OneMoves(s, c), RowsKnow(c) PROVE RowsKnow(search'[t])
  BY <1>1, <1>2 DEF OneMoves
<1>3. ASSUME NEW c, c.out = <<>>, c.scored = <<>> PROVE RowsKnow(c)
  BY <1>3, NoRows DEF RowsKnow
<1>4. ASSUME NEW s \in Searches, NEW query \in typed, Begin(s, query) PROVE RowsKnow(search'[t])
  BY <1>2, <1>3, <1>4, BeginStep
<1>5. ASSUME NEW s \in Searches, ReadsUsage(s) PROVE RowsKnow(search'[t])
  BY <1>2, <1>3, <1>5, ReadStep
<1>6. ASSUME NEW s \in Searches, Refreshes(s) PROVE RowsKnow(search'[t])
  BY <1>2, <1>3, <1>6, RefreshStep
<1>7. ASSUME NEW s \in Searches, Asks(s) PROVE RowsKnow(search'[t])
  <2>1. PICK c : /\ OneMoves(s, c) /\ c.out = search[s].out /\ c.scored = <<>>
                 /\ c.floor = search[s].floor
    BY <1>7, AskStep
  <2>2. RowsKnow(c)
    BY <2>1, NoRows DEF RankInv, RowsKnow
  <2> QED
    BY <1>2, <2>1, <2>2
<1>8. ASSUME NEW s \in Searches, Scores(s) PROVE RowsKnow(search'[t])
  <2>1. PICK c, list :
          /\ OneMoves(s, c) /\ c.floor = search[s].floor /\ Stands(s, "score")
          /\ NextScored(search[s], list)
          /\ \/ c.pc = "score" /\ c.scored = list /\ c.out = search[s].out
             \/ c.pc = "ask" /\ c.scored = <<>> /\ c.out = Merge(search[s].out, list)
    BY <1>8, ScoreStep
  <2>2. RowsKnow(search[s]) /\ AtMost(search[s].floor, snapshot) /\ IsCall(search[s])
    BY <2>1, CallFields DEF RankInv, UsageInv, Knows, Stands
  <2>3. ASSUME NEW i \in DOMAIN list PROVE list[i].used >= Count(search[s].floor, list[i].id)
    BY <2>1, ListKnows
  <2>4. CASE c.pc = "score" /\ c.scored = list /\ c.out = search[s].out
    <3>1. RowsKnow(c)
      BY <2>1, <2>2, <2>3, <2>4 DEF RowsKnow
    <3> QED
      BY <1>2, <2>1, <3>1
  <2>5. CASE c.pc = "ask" /\ c.scored = <<>> /\ c.out = Merge(search[s].out, list)
    <3> DEFINE out == search[s].out
               page == Merge(out, list)
               first == Len(out)
    <3>1. /\ DOMAIN page = 1..Len(page) /\ first \in Nat /\ DOMAIN out = 1..first
          /\ Len(page) \in Nat
          /\ \A i \in 1..first : page[i] = out[i]
          /\ \A i \in (first + 1)..Len(page) : \E m \in DOMAIN list : page[i] = list[m]
      BY <2>1, <2>2, MergeOf DEF IsCall, NextScored
    <3>2. \A i \in DOMAIN out : out[i].used >= Count(search[s].floor, out[i].id)
      BY <2>2 DEF RowsKnow
    <3> HIDE DEF page, out
    <3>3. ASSUME NEW i \in DOMAIN page PROVE page[i].used >= Count(search[s].floor, page[i].id)
      <4>1. i \in 1..first \/ i \in (first + 1)..Len(page)
        BY <3>1
      <4>2. CASE i \in 1..first
        BY <3>1, <3>2, <4>2
      <4>3. CASE i \in (first + 1)..Len(page)
        BY <2>3, <3>1, <4>3
      <4> QED
        BY <4>1, <4>2, <4>3
    <3>4. RowsKnow(c)
      BY <2>1, <2>5, <3>3, NoRows DEF RowsKnow, page, out
    <3> QED
      BY <1>2, <2>1, <3>4
  <2> QED
    BY <2>1, <2>4, <2>5
<1>9. ASSUME UNCHANGED search PROVE RowsKnow(search'[t])
  BY <1>1, <1>9
<1>10. ASSUME NEW id \in Activated, Record(id) PROVE RowsKnow(search'[t])
  BY <1>9, <1>10, RecordStep
<1> QED
  BY <1>4, <1>5, <1>6, <1>7, <1>8, <1>9, <1>10 DEF Next, vars

LEMMA RankInvCorrect == Spec => []RankInv
<1>1. Init => RankInv
  <2> SUFFICES ASSUME Init PROVE RankInv
    OBVIOUS
  <2>1. \A s \in Searches : search[s] = NotCalled
    BY DEF Init
  <2>2. /\ NotCalled.pc = "idle" /\ NotCalled.since = <<>> /\ NotCalled.floor = <<>>
        /\ NotCalled.out = <<>> /\ NotCalled.scored = <<>>
    BY DEF NotCalled
  <2>3. AtMost(<<>>, <<>>)
    BY EmptyUsage
  <2>4. UsageInv
    BY <2>1, <2>2, <2>3 DEF Init, UsageInv, Knows, Serves
  <2>5. RowsKnow(NotCalled)
    BY <2>2, NoRows DEF RowsKnow
  <2> QED
    BY <2>1, <2>4, <2>5 DEF RankInv
<1>2. TypeInv /\ RankInv /\ [Next]_vars => RankInv'
  <2> SUFFICES ASSUME TypeInv, RankInv, [Next]_vars PROVE RankInv'
    OBVIOUS
  <2>1. UsageInv'
    BY UsageKept DEF RankInv
  <2>2. \A t \in Searches : RowsKnow(search'[t])
    BY RowsKept
  <2> QED
    BY <2>1, <2>2 DEF RankInv
<1> QED
  BY <1>1, <1>2, TypeInvCorrect, PTL DEF Spec

\* Every reachable state of the search engine is well typed; in particular a
\* page never has more rows than the limit.
THEOREM TypeCorrect == Spec => []TypeOK
<1>1. TypeInv /\ RankInv => TypeOK
  <2> SUFFICES ASSUME TypeInv, RankInv PROVE TypeOK
    OBVIOUS
  <2>1. ASSUME NEW s \in Searches
        PROVE  /\ search[s].pc \in Pcs /\ search[s].k \in 0..5
               /\ Len(search[s].scored) <= Len(search[s].rows) /\ Len(search[s].out) <= Limit
    <3>1. IsCall(search[s]) /\ Scoring(search[s])
      BY CallFields
    <3>2. CASE search[s].pc = "score"
      BY <3>1, <3>2 DEF IsCall, Scoring, IsScored, IsAnswer
    <3>3. CASE search[s].pc # "score"
      BY <3>1, <3>3, NoRows DEF IsCall
    <3> QED
      BY <3>2, <3>3
  <2>2. \A id \in DOMAIN snapshot : snapshot[id] <= Count(usage, id)
    BY DEF RankInv, UsageInv, AtMost, Count
  <2>3. {usage, snapshot} \subseteq Usages /\ DOMAIN search = Searches /\ faults \in 0..MaxFaults
    BY DEF TypeInv
  <2> QED
    BY <2>1, <2>2, <2>3 DEF TypeOK, Pcs
<1> QED
  BY <1>1, TypeInvCorrect, RankInvCorrect, PTL

\* Engine.Search: every row of a page is ranked by a usage record that knows
\* each activation recorded before the search began and before any search then
\* under way began, whichever of them replaces the shared snapshot in between.
THEOREM RankAlwaysSeesUsage == Spec => []RankSeesUsage
<1>1. RankInv => RankSeesUsage
  BY DEF RankInv, RowsKnow, RankSeesUsage, Shown
<1> QED
  BY <1>1, RankInvCorrect, PTL

----------------------------------------------------------------------------
(* The page.                                                               *)

\* A search that has not asked any provider yet.
LEMMA BlankPage ==
  ASSUME NEW c, c.pc # "score", c.k = 0, c.out = <<>>
  PROVE  PageOf(c)
<1>1. Merges(c) = 0 /\ 1..0 = {}
  BY DEF Merges
<1> QED
  BY <1>1, NoRows DEF PageOf, PageOrder

\* What a page has kept, it keeps when the search goes on.
LEMMA SamePage ==
  ASSUME NEW c, NEW d, d.query = c.query, d.out = c.out, d.floor = c.floor, NEW k
  PROVE  /\ Answered(d, k) <=> Answered(c, k)
         /\ \A r : RowKept(d, k, r) <=> RowKept(c, k, r)
         /\ \A i, r : Beats(d, i, k, r) <=> Beats(c, i, k, r)
BY DEF Answered, RowKept, Beats

\* Providers from which nothing need come have nothing on the page.
LEMMA PassesOver ==
  ASSUME NEW c, NEW d, d.query = c.query, d.out = c.out, d.floor = c.floor,
         PageOf(c), IsCall(c), IsCall(d), c.pc = "ask",
         \/ d.pc = "score" /\ d.k \in (c.k + 1)..5 /\ Quiet(d.query, (c.k + 1)..(d.k - 1))
         \/ /\ d.pc = "done" /\ d.k = 5
            /\ Len(d.out) = Limit \/ Quiet(d.query, (c.k + 1)..5)
  PROVE  PageOf(d)
<1>1. /\ Merges(c) = c.k /\ c.k \in 0..5 /\ Merges(d) \in c.k..5
      /\ Len(d.out) = Limit \/ Quiet(d.query, (c.k + 1)..Merges(d))
  BY DEF Merges, IsCall
<1>2. \A i \in DOMAIN d.out : d.out[i].from \in 1..5 /\ d.out[i].from <= c.k
  BY <1>1 DEF PageOf, IsCall, IsScored
<1>3. \A i \in DOMAIN d.out : d.out[i].from <= Merges(d)
  <2> HIDE DEF Merges
  <2> QED
    BY <1>1, <1>2
<1>4. PageOrder(d.out)
  BY DEF PageOf
<1>5. ASSUME NEW k \in 1..Merges(d), NEW rows \in Answers(d.query)[k], Answered(d, k),
             NEW r \in ToSet(rows)
      PROVE  RowKept(d, k, r)
  <2>1. CASE k \in 1..c.k
    BY <1>1, <1>5, <2>1, SamePage DEF PageOf
  <2>2. CASE k \notin 1..c.k
    <3>1. k \in (c.k + 1)..Merges(d) /\ k > c.k
      BY <1>1, <2>2
    <3>2. CASE Len(d.out) = Limit
      <4>1. \A i \in DOMAIN d.out : d.out[i].from < k
        BY <1>1, <1>2, <3>1
      <4> QED
        BY <3>2, <4>1 DEF RowKept, Beats
    <3>3. CASE Quiet(d.query, (c.k + 1)..Merges(d))
      <4>1. <<>> \in Answers(d.query)[k]
        BY <3>1, <3>3 DEF Quiet
      <4>2. \A i \in DOMAIN d.out : d.out[i].from # k
        BY <1>1, <1>2, <3>1
      <4> QED
        BY <1>5, <4>1, <4>2 DEF Answered
    <3> QED
      BY <1>1, <3>2, <3>3
  <2> QED
    BY <2>1, <2>2
<1> QED
  BY <1>3, <1>4, <1>5 DEF PageOf

\* The last row has its boost and the page takes the rows of its provider.
LEMMA MergesProvider ==
  ASSUME NEW c, NEW d, d.query = c.query, d.floor = c.floor, d.k = c.k,
         c.pc = "score", d.pc = "ask", PageOf(c), IsCall(c), Scoring(c),
         c.query \in Seq(ToSet(c.query)), c.floor \in Usages,
         NEW list, NextScored(c, list), Len(list) = Len(c.rows), d.out = Merge(c.out, list),
         \A i \in DOMAIN list : list[i].used >= Count(c.floor, list[i].id)
  PROVE  PageOf(d)
<1> DEFINE out == c.out
           page == Merge(out, list)
           first == Len(out)
<1>1. /\ first \in Nat /\ Len(page) \in Nat /\ DOMAIN page = 1..Len(page)
      /\ DOMAIN out = 1..first /\ first <= Len(page) /\ Len(page) <= Limit
      /\ \A i \in 1..first : page[i] = out[i]
      /\ \A i \in (first + 1)..Len(page) : \E m \in DOMAIN list : page[i] = list[m]
      /\ NoneTwice(first, page) /\ InOrder(first, page)
      /\ \A m \in DOMAIN list : Accounted(first, page, list[m])
  BY MergeOf DEF IsCall, NextScored
<1>2. c.k \in 1..5 /\ Merges(c) = c.k - 1 /\ Merges(d) = c.k
  BY DEF Scoring, Merges
<1>3. d.out = page
  OBVIOUS
<1>4. \A i \in 1..first : out[i].from \in 1..5 /\ out[i].from < c.k
  <2>1. \A i \in 1..first : out[i].from \in 1..5
    BY <1>1 DEF IsCall, IsScored
  <2>2. \A i \in 1..first : out[i].from <= Merges(c)
    BY <1>1 DEF PageOf
  <2> HIDE DEF out
  <2> QED
    BY <1>2, <2>1, <2>2
<1>5. /\ \A m \in DOMAIN list : list[m].from = c.k
      /\ DOMAIN list = 1..Len(list) /\ Len(list) \in Nat
  BY DEF NextScored, IsScored
<1>6. PageOrder(out)
  BY DEF PageOf
<1>7. Limit \in Nat
  BY SearchEngineAssumption
<1> HIDE DEF page, out, first
<1>8. ASSUME NEW i \in DOMAIN page
      PROVE  \/ i \in 1..first /\ page[i] = out[i] /\ page[i].from < c.k
             \/ /\ i \in (first + 1)..Len(page) /\ page[i].from = c.k
                /\ ~(i <= first)
  <2>1. i \in 1..first \/ (i \in (first + 1)..Len(page) /\ ~(i <= first))
    BY <1>1
  <2> QED
    BY <1>1, <1>4, <1>5, <2>1
<1>9. \A i \in DOMAIN page : page[i].from <= c.k
  BY <1>2, <1>4, <1>8
<1>10. PageOrder(page)
  <2> SUFFICES ASSUME NEW i \in DOMAIN page, NEW j \in DOMAIN page, i < j
               PROVE  /\ page[i].id # page[j].id
                      /\ \/ page[i].from < page[j].from
                         \/ page[i].from = page[j].from /\ ~Above(page[j], page[i])
    BY DEF PageOrder
  <2>1. CASE j \in 1..first
    <3>1. i \in 1..first /\ page[i] = out[i] /\ page[j] = out[j]
      BY <1>1, <2>1
    <3>2. i \in DOMAIN out /\ j \in DOMAIN out
      BY <1>1, <2>1, <3>1
    <3>3. /\ out[i].id # out[j].id
          /\ \/ out[i].from < out[j].from
             \/ out[i].from = out[j].from /\ ~Above(out[j], out[i])
      BY <1>6, <3>2 DEF PageOrder
    <3> QED
      BY <3>1, <3>3
  <2>2. CASE j \in (first + 1)..Len(page)
    <3>1. page[i].id # page[j].id
      BY <1>1, <2>2 DEF NoneTwice
    <3>2. page[j].from = c.k
      BY <1>1, <1>8, <2>2
    <3>3. CASE page[i].from < c.k
      BY <3>1, <3>2, <3>3
    <3>4. CASE i \in (first + 1)..Len(page) /\ page[i].from = c.k
      BY <1>1, <2>2, <3>1, <3>2, <3>4 DEF InOrder
    <3> QED
      BY <1>8, <3>3, <3>4
  <2> QED
    BY <1>8, <2>1, <2>2
<1>11. ASSUME NEW k \in 1..(c.k - 1), NEW rows \in Answers(d.query)[k], Answered(d, k),
              NEW r \in ToSet(rows)
       PROVE  RowKept(d, k, r)
  <2>1. k # c.k /\ ~(c.k < k)
    BY <1>2
  <2>2. Answered(c, k)
    <3>1. CASE <<>> \notin Answers(d.query)[k]
      BY <3>1 DEF Answered
    <3>2. ASSUME NEW i \in DOMAIN page, page[i].from = k PROVE Answered(c, k)
      <4>1. i \in DOMAIN out /\ page[i] = out[i]
        BY <1>1, <1>8, <2>1, <3>2
      <4> QED
        BY <3>2, <4>1 DEF Answered, out
    <3> QED
      BY <1>3, <1>11, <3>1, <3>2 DEF Answered
  <2>3. RowKept(c, k, r)
    BY <1>2, <2>2 DEF PageOf
  <2>4. \A i \in DOMAIN out : /\ i \in DOMAIN page /\ page[i] = out[i]
                              /\ Beats(c, i, k, r) => Beats(d, i, k, r)
    <3>1. \A i \in DOMAIN out : i \in DOMAIN page /\ page[i] = out[i]
      BY <1>1
    <3> QED
      BY <1>3, <3>1 DEF Beats, out
  <2>5. CASE \E i \in DOMAIN out : out[i].id = r.id /\ Beats(c, i, k, r)
    <3>1. PICK i \in DOMAIN out : out[i].id = r.id /\ Beats(c, i, k, r)
      BY <2>5
    <3>2. i \in DOMAIN d.out /\ d.out[i].id = r.id /\ Beats(d, i, k, r)
      BY <1>3, <2>4, <3>1
    <3> QED
      BY <3>2, Zenon DEF RowKept
  <2>6. CASE first = Limit /\ \A i \in DOMAIN out : Beats(c, i, k, r)
    <3>1. Len(page) = first
      <4>1. first = Limit
        BY <2>6
      <4>2. {first, Len(page)} \subseteq Nat /\ first <= Len(page) /\ Len(page) <= Limit
        BY <1>1
      <4> QED
        BY <1>7, <4>1, <4>2
    <3>2. DOMAIN page = DOMAIN out
      BY <1>1, <3>1
    <3>3. \A i \in DOMAIN page : Beats(d, i, k, r)
      BY <2>4, <2>6, <3>2
    <3> QED
      BY <1>3, <2>6, <3>1, <3>3 DEF RowKept
  <2> QED
    BY <2>3, <2>5, <2>6 DEF RowKept, out, first
<1>12. ASSUME NEW rows \in Answers(d.query)[c.k], NEW r \in ToSet(rows)
       PROVE  RowKept(d, c.k, r)
  <2>1. rows = c.rows
    <3>1. rows # <<>> /\ c.rows # <<>> /\ c.rows \in Answers(c.query)[c.k]
      <4>1. rows # <<>>
        BY NoRows DEF ToSet
      <4>2. c.rows # <<>>
        BY NoRows DEF Scoring, IsCall, IsScored
      <4> QED
        BY <4>1, <4>2 DEF Scoring
    <3> QED
      BY <1>2, <3>1, AnswersAreRows
  <2>2. PICK m \in DOMAIN list : list[m].id = r.id /\ list[m].score = r.score
    <3>1. PICK m \in DOMAIN c.rows : r = c.rows[m]
      BY <2>1 DEF ToSet
    <3>2. m \in DOMAIN list
      BY <1>5 DEF IsCall, IsAnswer
    <3> QED
      BY <3>1, <3>2 DEF NextScored
  <2> DEFINE least == r.score + Boost[Count(c.floor, r.id)]
  <2>3. Score(list[m]) >= least /\ Score(list[m]) \in Int /\ least \in Int
    <3>1. /\ list[m].used \in 0..MaxRecords /\ Count(c.floor, r.id) \in 0..MaxRecords
          /\ Count(c.floor, r.id) <= list[m].used /\ list[m].score \in Int
      BY <2>2, CountTypes DEF NextScored, IsScored
    <3>2. Boost[Count(c.floor, r.id)] <= Boost[list[m].used]
      BY <3>1, BoostGrows
    <3>3. Boost[Count(c.floor, r.id)] \in Nat /\ Boost[list[m].used] \in Nat
      BY <3>1, SearchEngineAssumption
    <3> QED
      BY <2>2, <3>1, <3>2, <3>3 DEF Score
  <2> HIDE DEF least
  <2>4. ASSUME NEW i \in DOMAIN page, i <= first \/ Score(page[i]) >= Score(list[m])
        PROVE  Beats(d, i, c.k, r)
    <3>1. CASE i <= first
      BY <1>3, <1>8, <3>1 DEF Beats
    <3>2. CASE ~(i <= first)
      <4>1. page[i].from = c.k
        BY <1>1, <1>8, <3>2
      <4>2. Score(page[i]) \in Int
        <5>1. PICK n \in DOMAIN list : page[i] = list[n]
          BY <1>1, <1>8, <3>2
        <5> QED
          BY <5>1, SearchEngineAssumption DEF NextScored, IsScored, Score
      <4>3. Score(page[i]) >= least
        BY <2>3, <2>4, <3>2, <4>2
      <4> QED
        BY <1>3, <4>1, <4>3 DEF Beats, least
    <3> QED
      BY <3>1, <3>2
  <2>5. Accounted(first, page, list[m])
    BY <1>1
  <2>6. CASE \E i \in 1..Len(page) : /\ page[i].id = list[m].id
                                     /\ i <= first \/ Score(page[i]) >= Score(list[m])
    BY <1>1, <1>3, <2>2, <2>4, <2>6 DEF RowKept
  <2>7. CASE /\ Len(page) = Limit
             /\ \A i \in (first + 1)..Len(page) : Score(page[i]) >= Score(list[m])
    <3>1. \A i \in DOMAIN page : Beats(d, i, c.k, r)
      BY <1>1, <1>8, <2>4, <2>7
    <3> QED
      BY <1>3, <2>7, <3>1 DEF RowKept
  <2> QED
    BY <2>5, <2>6, <2>7 DEF Accounted
<1>13. ASSUME NEW k \in 1..c.k, NEW rows \in Answers(d.query)[k], Answered(d, k),
              NEW r \in ToSet(rows)
       PROVE  RowKept(d, k, r)
  <2>1. k \in 1..(c.k - 1) \/ k = c.k
    BY <1>2
  <2> QED
    BY <1>11, <1>12, <1>13, <2>1
<1> QED
  BY <1>2, <1>3, <1>9, <1>10, <1>13 DEF PageOf

\* No step spoils the page of a search.
LEMMA PageKept ==
  ASSUME TypeInv, RankInv, PageInv, [Next]_vars, NEW t \in Searches
  PROVE  PageOf(search'[t])
<1>1. PageOf(search[t]) /\ \A s \in Searches : PageOf(search[s])
  BY DEF PageInv
<1>2. ASSUME NEW s \in Searches, NEW c, OneMoves(s, c), PageOf(c) PROVE PageOf(search'[t])
  BY <1>1, <1>2 DEF OneMoves
<1>3. ASSUME NEW s \in Searches, NEW query \in typed, Begin(s, query) PROVE PageOf(search'[t])
  <2>1. PICK c : OneMoves(s, c) /\ c.pc = "begun" /\ c.k = 0 /\ c.out = <<>>
    BY <1>3, BeginStep
  <2> QED
    BY <1>2, <2>1, BlankPage
<1>4. ASSUME NEW s \in Searches, ReadsUsage(s) PROVE PageOf(search'[t])
  <2>1. PICK c : /\ OneMoves(s, c) /\ c.pc \in {"got", "ask"} /\ c.k = search[s].k
                 /\ c.out = <<>> /\ Stands(s, "begun")
    BY <1>4, ReadStep
  <2>2. c.k = 0
    BY <2>1, CallFields DEF IsCall, Stands
  <2> QED
    BY <1>2, <2>1, <2>2, BlankPage
<1>5. ASSUME NEW s \in Searches, Refreshes(s) PROVE PageOf(search'[t])
  <2>1. PICK c : /\ OneMoves(s, c) /\ c.pc = "ask" /\ c.k = search[s].k
                 /\ c.out = <<>> /\ Stands(s, "got")
    BY <1>5, RefreshStep
  <2>2. c.k = 0
    BY <2>1, CallFields DEF IsCall, Stands
  <2> QED
    BY <1>2, <2>1, <2>2, BlankPage
<1>6. ASSUME NEW s \in Searches, Asks(s) PROVE PageOf(search'[t])
  <2>1. PICK c : /\ TypeInv' /\ OneMoves(s, c) /\ Stands(s, "ask")
                 /\ c.query = search[s].query /\ c.out = search[s].out
                 /\ c.floor = search[s].floor
                 /\ \/ /\ c.pc = "score" /\ c.k \in (search[s].k + 1)..5
                       /\ Quiet(c.query, (search[s].k + 1)..(c.k - 1))
                    \/ /\ c.pc = "done" /\ c.k = 5
                       /\ Len(c.out) = Limit \/ Quiet(c.query, (search[s].k + 1)..5)
    BY <1>6, AskStep
  <2>2. IsCall(search[s]) /\ IsCall(c) /\ search[s].pc = "ask"
    BY <2>1 DEF TypeInv, OneMoves, Stands
  <2>3. PageOf(c)
    BY <1>1, <2>1, <2>2, PassesOver
  <2> QED
    BY <1>2, <2>1, <2>3
<1>7. ASSUME NEW s \in Searches, Scores(s) PROVE PageOf(search'[t])
  <2>1. PICK c, list :
          /\ OneMoves(s, c) /\ c.query = search[s].query /\ c.k = search[s].k
          /\ c.floor = search[s].floor /\ Stands(s, "score") /\ NextScored(search[s], list)
          /\ \/ c.pc = "score" /\ c.out = search[s].out
             \/ /\ c.pc = "ask" /\ c.out = Merge(search[s].out, list)
                /\ Len(list) = Len(search[s].rows)
    BY <1>7, ScoreStep
  <2>2. /\ IsCall(search[s]) /\ Scoring(search[s]) /\ search[s].pc = "score"
        /\ search[s].query \in Seq(ToSet(search[s].query)) /\ search[s].floor \in Usages
    BY <2>1, CallFields, CallUsages DEF Stands
  <2>3. CASE c.pc = "score" /\ c.out = search[s].out
    <3>1. Merges(c) = Merges(search[s])
      BY <2>1, <2>2, <2>3 DEF Merges
    <3>2. PageOf(c)
      BY <1>1, <2>1, <2>3, <3>1, SamePage DEF PageOf
    <3> QED
      BY <1>2, <2>1, <3>2
  <2>4. CASE /\ c.pc = "ask" /\ c.out = Merge(search[s].out, list)
             /\ Len(list) = Len(search[s].rows)
    <3>1. \A i \in DOMAIN list : list[i].used >= Count(search[s].floor, list[i].id)
      BY <2>1, ListKnows
    <3>2. PageOf(c)
      BY <1>1, <2>1, <2>2, <2>4, <3>1, MergesProvider
    <3> QED
      BY <1>2, <2>1, <3>2
  <2> QED
    BY <2>1, <2>3, <2>4
<1>8. ASSUME NEW id \in Activated, Record(id) PROVE PageOf(search'[t])
  BY <1>1, <1>8, RecordStep
<1>9. ASSUME UNCHANGED vars PROVE PageOf(search'[t])
  BY <1>1, <1>9 DEF vars
<1> QED
  BY <1>3, <1>4, <1>5, <1>6, <1>7, <1>8, <1>9 DEF Next

LEMMA PageInvCorrect == Spec => []PageInv
<1>1. Init => PageInv
  <2> SUFFICES ASSUME Init, NEW s \in Searches PROVE PageOf(search[s])
    BY DEF PageInv
  <2>1. search[s].pc = "idle" /\ search[s].k = 0 /\ search[s].out = <<>>
    BY DEF Init, NotCalled
  <2> QED
    BY <2>1, BlankPage
<1>2. TypeInv /\ RankInv /\ PageInv /\ [Next]_vars => PageInv'
  BY PageKept DEF PageInv
<1> QED
  BY <1>1, <1>2, TypeInvCorrect, RankInvCorrect, PTL DEF Spec

\* Engine.Search: a page is the merge of what its providers answered, with no
\* result twice, in the order of the providers and then of the scores, and a
\* row is left out only for an earlier provider's copy, a copy as good or a page
\* full of rows that an up-to-date ranking could put above it.
THEOREM PageIsMerge == Spec => []OutIsMerge
<1>1. TypeInv /\ PageInv => OutIsMerge
  <2> SUFFICES ASSUME TypeInv, PageInv, NEW s \in Searches, search[s].pc = "done"
               PROVE  /\ PageOrder(search[s].out)
                      /\ \A k \in 1..5 : \A rows \in Answers(search[s].query)[k] :
                           Answered(search[s], k) =>
                             \A r \in ToSet(rows) : RowKept(search[s], k, r)
    BY DEF OutIsMerge, PageOrder, Answered, RowKept, Beats, Shown, Rank, AtLeast
  <2>1. PageOf(search[s])
    BY DEF PageInv
  <2>2. Merges(search[s]) = 5
    BY CallFields DEF Merges, IsCall
  <2> QED
    BY <2>1, <2>2 DEF PageOf
<1> QED
  BY <1>1, TypeInvCorrect, PageInvCorrect, PTL

----------------------------------------------------------------------------
(* Values.                                                                 *)

\* An operator has at most one result, a value.
LEMMA ResultsTypes ==
  ASSUME NEW op \in Operators, NEW v \in Value, NEW w \in Value
  PROVE  /\ Results(op, v, w) \subseteq Value
         /\ \A r, q \in Results(op, v, w) : r = q
<1>1. Apply[<<op, v, w>>] \in Value
  <2>1. <<op, v, w>> \in Operators \X Value \X Value
    OBVIOUS
  <2> QED
    BY <2>1, ArithmeticAssumption
<1>2. Results(op, v, w) \subseteq {Apply[<<op, v, w>>]}
  BY Zenon DEF Results
<1> QED
  BY <1>1, <1>2

LEMMA NegatedTypes ==
  ASSUME NEW v \in Value
  PROVE  Negated[v] \in Value
BY ArithmeticAssumption

\* The reference's reading of an operator between two parts, in terms of what the
\* parser makes of two values.
LEMMA AppliedIs ==
  ASSUME NEW m, NEW s, NEW i, NEW k, NEW j
  PROVE  Applied(m, s, i, k, j) =
           UNION {UNION {Results(s[k], l, r) : r \in m[<<k + 1, j>>]} : l \in m[<<i, k>>]}
<1> DEFINE L == m[<<i, k>>]
           R == m[<<k + 1, j>>]
           op == s[k]
           May == {r \in R : op \in {"/", "%"} => r \notin Zeros}
           Row(l) == UNION {Results(op, l, r) : r \in R}
<1>1. \A v : v \in Applied(m, s, i, k, j) <=> \E l \in L, r \in May : v = Apply[<<op, l, r>>]
  BY DEF Applied
<1>2. \A l, r : Results(op, l, r) = IF op \in {"/", "%"} /\ r \in Zeros
                                   THEN {} ELSE {Apply[<<op, l, r>>]}
  BY Zenon DEF Results
<1> HIDE DEF L, R, op
<1>3. ASSUME NEW l \in L, NEW r \in May PROVE Apply[<<op, l, r>>] \in UNION {Row(p) : p \in L}
  <2>1. Apply[<<op, l, r>>] \in Results(op, l, r)
    BY <1>2
  <2>2. Apply[<<op, l, r>>] \in Row(l)
    BY <2>1
  <2> HIDE DEF Row
  <2> QED
    BY <2>2
<1>4. ASSUME NEW l \in L, NEW x \in Row(l)
      PROVE  \E p \in L, r \in May : x = Apply[<<op, p, r>>]
  <2>1. PICK r \in R : x \in Results(op, l, r)
    OBVIOUS
  <2>2. r \in May /\ x = Apply[<<op, l, r>>]
    BY <1>2, <2>1
  <2> QED
    BY <2>2, Zenon
<1> HIDE DEF May
<1>5. \A x : x \in Applied(m, s, i, k, j) <=> x \in UNION {Row(l) : l \in L}
  <2> HIDE DEF Row
  <2>1. ASSUME NEW x \in UNION {Row(l) : l \in L} PROVE x \in Applied(m, s, i, k, j)
    <3>1. PICK l \in L : x \in Row(l)
      OBVIOUS
    <3> QED
      BY <1>1, <1>4, <3>1, Zenon
  <2>2. ASSUME NEW x \in Applied(m, s, i, k, j) PROVE x \in UNION {Row(l) : l \in L}
    <3>1. PICK l \in L, r \in May : x = Apply[<<op, l, r>>]
      BY <1>1, Zenon
    <3>2. Apply[<<op, l, r>>] \in UNION {Row(p) : p \in L}
      BY <1>3, Zenon
    <3> QED
      BY <3>1, <3>2, Zenon
  <2> QED
    BY <2>1, <2>2, Zenon
<1>6. Applied(m, s, i, k, j) = UNION {Row(l) : l \in L}
  <2> HIDE DEF Row
  <2> QED
    BY <1>5
<1> QED
  BY <1>6, Zenon DEF L, R, op

----------------------------------------------------------------------------
(* The parser's recursion: every call is settled by calls further on, or   *)
(* at its place by those of the rules below.                               *)

RuleRank == [primary |-> 1, unary |-> 2, factor |-> 3, term |-> 4, expr |-> 5]
Stage(s, call) == 5 * (Len(s) + 1 - call[2]) + RuleRank[call[1]]

Chained == {"expr", "term"}

\* What a call may return: a value and a later place; the loops, from where
\* they are, also that place.
Outcomes(s, call) ==
  {t \in [v : Value, i : call[2]..(Len(s) + 1)] :
     t.i > call[2] \/ (call[1] \in Chained /\ call[3] # {})}

\* Two functions that agree on the calls before a stage.
Agree(f, g, s, q) ==
  \A call \in Calls(s) :
    Stage(s, call) < q => f[call] = g[call] /\ f[call] \subseteq Outcomes(s, call)

LEMMA CallStage ==
  ASSUME NEW s, Len(s) \in Nat, NEW rule \in Rules, NEW i \in 1..(Len(s) + 1),
         NEW acc \in SUBSET Value
  PROVE  /\ <<rule, i, acc>> \in Calls(s)
         /\ Stage(s, <<rule, i, acc>>) = 5 * (Len(s) + 1 - i) + RuleRank[rule]
         /\ RuleRank[rule] \in 1..5
         /\ Stage(s, <<rule, i, acc>>) \in 1..(5 * (Len(s) + 2))
<1>1. RuleRank[rule] \in 1..5
  BY DEF Rules, RuleRank
<1>2. <<rule, i, acc>> \in Calls(s)
  BY DEF Calls
<1>3. Stage(s, <<rule, i, acc>>) = 5 * (Len(s) + 1 - i) + RuleRank[rule]
  BY DEF Stage
<1> QED
  BY <1>1, <1>2, <1>3

LEMMA EarlierCall ==
  ASSUME NEW s, Len(s) \in Nat, NEW f, NEW g,
         NEW rule \in Rules, NEW i \in 1..(Len(s) + 1), NEW acc \in SUBSET Value,
         Agree(f, g, s, Stage(s, <<rule, i, acc>>)),
         NEW other \in Rules, NEW j \in 1..(Len(s) + 1), NEW a \in SUBSET Value,
         j > i \/ (j = i /\ RuleRank[other] < RuleRank[rule])
  PROVE  /\ f[<<other, j, a>>] = g[<<other, j, a>>]
         /\ f[<<other, j, a>>] \subseteq Outcomes(s, <<other, j, a>>)
<1>1. /\ <<other, j, a>> \in Calls(s)
      /\ Stage(s, <<other, j, a>>) = 5 * (Len(s) + 1 - j) + RuleRank[other]
      /\ RuleRank[other] \in 1..5
  BY CallStage
<1>2. /\ Stage(s, <<rule, i, acc>>) = 5 * (Len(s) + 1 - i) + RuleRank[rule]
      /\ RuleRank[rule] \in 1..5
  BY CallStage
<1>3. 5 * (Len(s) + 1 - j) + RuleRank[other] < 5 * (Len(s) + 1 - i) + RuleRank[rule]
  <2> DEFINE n == Len(s) + 1
             p == RuleRank[rule]
             q == RuleRank[other]
  <2>1. /\ n \in Nat /\ i \in 1..n /\ j \in 1..n /\ p \in 1..5 /\ q \in 1..5
        /\ j > i \/ (j = i /\ q < p)
    BY <1>1, <1>2
  <2> HIDE DEF n, p, q
  <2>2. 5 * (n - j) + q < 5 * (n - i) + p
    BY <2>1
  <2> QED
    BY <2>2 DEF n, p, q
<1>4. /\ f[<<other, j, a>>] = g[<<other, j, a>>]
      /\ f[<<other, j, a>>] \subseteq Outcomes(s, <<other, j, a>>)
  BY <1>1, <1>2, <1>3 DEF Agree
<1> QED
  BY <1>4

LEMMA OutcomeFields ==
  ASSUME NEW s, Len(s) \in Nat, NEW rule \in Rules, NEW i \in 1..(Len(s) + 1), NEW acc,
         NEW t \in Outcomes(s, <<rule, i, acc>>)
  PROVE  /\ t.v \in Value /\ t.i \in Nat /\ i <= t.i /\ t.i <= Len(s) + 1
         /\ t.i \in 1..(Len(s) + 1)
         /\ t.i > i \/ (rule \in Chained /\ acc # {})
BY DEF Outcomes

\* An outcome further on is one of an earlier place.
LEMMA OutcomeEarlier ==
  ASSUME NEW s, Len(s) \in Nat, NEW rule \in Rules, NEW i \in 1..(Len(s) + 1), NEW acc,
         NEW other \in Rules, NEW j \in 1..(Len(s) + 1), NEW a, i <= j,
         j > i \/ (rule \in Chained /\ acc # {})
               \/ ~(other \in Chained /\ a # {})
  PROVE  Outcomes(s, <<other, j, a>>) \subseteq Outcomes(s, <<rule, i, acc>>)
BY DEF Outcomes

LEMMA MakeOutcome ==
  ASSUME NEW s, Len(s) \in Nat, NEW rule \in Rules, NEW i \in 1..(Len(s) + 1), NEW acc,
         NEW v \in Value, NEW j \in 1..(Len(s) + 1), i <= j,
         j > i \/ (rule \in Chained /\ acc # {})
  PROVE  [v |-> v, i |-> j] \in Outcomes(s, <<rule, i, acc>>)
BY DEF Outcomes

LEMMA AtWithin ==
  ASSUME NEW s, Len(s) \in Nat, NEW i \in 1..(Len(s) + 1),
         At(s, i) \in Operators \cup Numbers \cup {"(", ")"}
  PROVE  i \in 1..Len(s) /\ i + 1 \in 1..(Len(s) + 1) /\ At(s, i) = s[i]
<1>1. "end" \notin Operators \cup Numbers \cup {"(", ")"}
  <2>1. "end" \notin Operators \cup {"(", ")"}
    BY DEF Operators
  <2>2. "end" \notin Numbers
    BY LiteralAssumption
  <2> QED
    BY <2>1, <2>2
<1>2. At(s, i) # "end"
  BY <1>1
<1>3. i <= Len(s) /\ At(s, i) = s[i]
  BY <1>2 DEF At
<1> QED
  BY <1>3

LEMMA FactorDepends ==
  ASSUME NEW s, Len(s) \in Nat, NEW f, NEW g,
         NEW i \in 1..(Len(s) + 1), NEW acc \in SUBSET Value,
         Agree(f, g, s, Stage(s, <<"factor", i, acc>>))
  PROVE  /\ Factor(f, s, i) = Factor(g, s, i)
         /\ Factor(f, s, i) \subseteq Outcomes(s, <<"factor", i, acc>>)
<1> DEFINE U == f[<<"unary", i, {}>>]
           Powers(h, u) == UNION {{[v |-> r, i |-> t.i] : r \in Results("^", u.v, t.v)}
                                  : t \in h[<<"factor", u.i + 1, {}>>]}
           P(h, u) == IF At(s, u.i) # "^" THEN {u} ELSE Powers(h, u)
           O == Outcomes(s, <<"factor", i, acc>>)
<1>0. /\ {} \in SUBSET Value /\ "factor" \in Rules /\ "unary" \in Rules
      /\ RuleRank["unary"] < RuleRank["factor"]
      /\ "^" \in Operators
  BY DEF Rules, RuleRank, Operators
<1>1. U = g[<<"unary", i, {}>>] /\ U \subseteq Outcomes(s, <<"unary", i, {}>>)
  BY <1>0, EarlierCall, Zenon
<1>2. Factor(f, s, i) = UNION {P(f, u) : u \in U} /\ Factor(g, s, i) = UNION {P(g, u) : u \in U}
  BY <1>1, Zenon DEF Factor
<1> HIDE DEF U, P
<1>3. ASSUME NEW u \in U
      PROVE  P(f, u) = P(g, u) /\ P(f, u) \subseteq O
  <2>0. u.v \in Value /\ u.i \in 1..(Len(s) + 1) /\ u.i > i
    BY <1>0, <1>1, OutcomeFields
  <2>1. CASE At(s, u.i) # "^"
    <3>1. u \in O
      <4>1. i <= i /\ {} \subseteq Value /\ ~({} # {})
        OBVIOUS
      <4>2. Outcomes(s, <<"unary", i, {}>>) \subseteq O
        BY <1>0, <4>1, OutcomeEarlier, Zenon
      <4> QED
        BY <1>1, <4>2
    <3> QED
      BY <2>1, <3>1 DEF P
  <2>2. CASE At(s, u.i) = "^"
    <3> DEFINE F == f[<<"factor", u.i + 1, {}>>]
    <3>1. u.i + 1 \in 1..(Len(s) + 1) /\ u.i + 1 > i
      BY <1>0, <2>0, <2>2, AtWithin
    <3>2. /\ F = g[<<"factor", u.i + 1, {}>>]
          /\ F \subseteq Outcomes(s, <<"factor", u.i + 1, {}>>)
      BY <1>0, <3>1, EarlierCall, Zenon
    <3> HIDE DEF F
    <3>3. P(f, u) = P(g, u)
      BY <3>2, Zenon DEF F, P
    <3>4. ASSUME NEW t \in F, NEW r \in Results("^", u.v, t.v)
          PROVE  [v |-> r, i |-> t.i] \in O
      <4>1. t.v \in Value /\ t.i \in 1..(Len(s) + 1) /\ u.i + 1 <= t.i
        BY <1>0, <3>1, <3>2, OutcomeFields
      <4>2. r \in Value
        BY <1>0, <2>0, <4>1, ResultsTypes
      <4>3. i <= t.i /\ t.i > i
        BY <2>0, <4>1
      <4> QED
        BY <1>0, <4>1, <4>2, <4>3, MakeOutcome
    <3>5. P(f, u) = UNION {{[v |-> r, i |-> t.i] : r \in Results("^", u.v, t.v)} : t \in F}
      BY <2>2, Zenon DEF F, P
    <3> HIDE DEF O
    <3> QED
      BY <3>3, <3>4, <3>5
  <2> QED
    BY <2>1, <2>2
<1> HIDE DEF O
<1>4. UNION {P(f, u) : u \in U} = UNION {P(g, u) : u \in U}
  BY <1>3
<1>5. UNION {P(f, u) : u \in U} \subseteq O
  BY <1>3
<1> QED
  BY <1>2, <1>4, <1>5 DEF O

LEMMA UnaryDepends ==
  ASSUME NEW s, Len(s) \in Nat, NEW f, NEW g,
         NEW i \in 1..(Len(s) + 1), NEW acc \in SUBSET Value,
         Agree(f, g, s, Stage(s, <<"unary", i, acc>>))
  PROVE  /\ Unary(f, s, i) = Unary(g, s, i)
         /\ Unary(f, s, i) \subseteq Outcomes(s, <<"unary", i, acc>>)
<1> DEFINE O == Outcomes(s, <<"unary", i, acc>>)
           U == f[<<"unary", i + 1, {}>>]
           P == f[<<"primary", i, {}>>]
<1>0. /\ {} \in SUBSET Value /\ "unary" \in Rules /\ "primary" \in Rules
      /\ RuleRank["primary"] < RuleRank["unary"]
      /\ "-" \in Operators /\ "+" \in Operators /\ "-" # "+"
      /\ i <= i /\ ~({} # {})
  BY DEF Rules, RuleRank, Operators
<1>1. ASSUME i + 1 \in 1..(Len(s) + 1)
      PROVE  /\ U = g[<<"unary", i + 1, {}>>]
             /\ U \subseteq Outcomes(s, <<"unary", i + 1, {}>>)
             /\ U \subseteq O
  <2>1. i + 1 > i /\ i <= i + 1
    OBVIOUS
  <2>2. /\ U = g[<<"unary", i + 1, {}>>]
        /\ U \subseteq Outcomes(s, <<"unary", i + 1, {}>>)
    BY <1>0, <1>1, <2>1, EarlierCall, Zenon
  <2>3. Outcomes(s, <<"unary", i + 1, {}>>) \subseteq O
    BY <1>0, <1>1, <2>1, OutcomeEarlier, Zenon
  <2> QED
    BY <2>2, <2>3
<1>2. CASE At(s, i) = "-"
  <2>1. i + 1 \in 1..(Len(s) + 1)
    BY <1>0, <1>2, AtWithin
  <2>2. ASSUME NEW u \in U PROVE [u EXCEPT !.v = Negated[@]] \in O
    <3>1. u \in [v : Value, i : i..(Len(s) + 1)] /\ u.v \in Value /\ u.i \in 1..(Len(s) + 1)
          /\ u.i > i
      <4>1. u \in [v : Value, i : (i + 1)..(Len(s) + 1)] /\ u.i > i + 1
        BY <1>0, <1>1, <2>1 DEF Outcomes
      <4> QED
        BY <4>1
    <3>2. Negated[u.v] \in Value
      BY <3>1, NegatedTypes
    <3>3. [u EXCEPT !.v = Negated[@]] = [v |-> Negated[u.v], i |-> u.i]
      BY <3>1
    <3>4. i <= u.i
      BY <3>1
    <3> QED
      BY <1>0, <3>1, <3>2, <3>3, <3>4, MakeOutcome
  <2>3. /\ Unary(f, s, i) = {[u EXCEPT !.v = Negated[@]] : u \in U}
        /\ Unary(g, s, i) = {[u EXCEPT !.v = Negated[@]] : u \in U}
    BY <1>0, <1>1, <1>2, <2>1, Zenon DEF Unary
  <2> HIDE DEF U, O
  <2>4. {[u EXCEPT !.v = Negated[@]] : u \in U} \subseteq O
    BY <2>2
  <2> QED
    BY <2>3, <2>4, Zenon DEF O
<1>3. CASE At(s, i) = "+"
  <2>1. i + 1 \in 1..(Len(s) + 1)
    BY <1>0, <1>3, AtWithin
  <2>2. Unary(f, s, i) = U /\ Unary(g, s, i) = U
    BY <1>0, <1>1, <1>3, <2>1, Zenon DEF Unary
  <2> QED
    BY <1>1, <2>1, <2>2, Zenon
<1>4. CASE ~(At(s, i) = "-") /\ ~(At(s, i) = "+")
  <2>1. /\ P = g[<<"primary", i, {}>>]
        /\ P \subseteq Outcomes(s, <<"primary", i, {}>>)
    BY <1>0, EarlierCall, Zenon
  <2>2. Outcomes(s, <<"primary", i, {}>>) \subseteq O
    BY <1>0, OutcomeEarlier, Zenon
  <2>3. Unary(f, s, i) = P /\ Unary(g, s, i) = P
    BY <1>4, <2>1, Zenon DEF Unary
  <2> QED
    BY <2>1, <2>2, <2>3
<1> QED
  BY <1>2, <1>3, <1>4

LEMMA PrimaryDepends ==
  ASSUME NEW s, Len(s) \in Nat, NEW f, NEW g,
         NEW i \in 1..(Len(s) + 1), NEW acc \in SUBSET Value,
         Agree(f, g, s, Stage(s, <<"primary", i, acc>>))
  PROVE  /\ Primary(f, s, i) = Primary(g, s, i)
         /\ Primary(f, s, i) \subseteq Outcomes(s, <<"primary", i, acc>>)
<1> DEFINE O == Outcomes(s, <<"primary", i, acc>>)
           E == f[<<"expr", i + 1, {}>>]
           Closed == {t \in E : At(s, t.i) = ")"}
<1>0. {} \in SUBSET Value /\ "primary" \in Rules /\ "expr" \in Rules
  BY DEF Rules
<1>1. CASE At(s, i) = "("
  <2>1. i + 1 \in 1..(Len(s) + 1) /\ i + 1 > i
    BY <1>1, AtWithin
  <2>2. /\ E = g[<<"expr", i + 1, {}>>]
        /\ E \subseteq Outcomes(s, <<"expr", i + 1, {}>>)
    BY <1>0, <2>1, EarlierCall, Zenon
  <2>3. ASSUME NEW t \in Closed PROVE [t EXCEPT !.i = @ + 1] \in O
    <3>1. t.v \in Value /\ t.i \in 1..(Len(s) + 1) /\ i + 1 <= t.i
      BY <1>0, <2>1, <2>2, OutcomeFields
    <3>2. t.i + 1 \in 1..(Len(s) + 1)
      BY <3>1, AtWithin
    <3>3. [t EXCEPT !.i = @ + 1] = [v |-> t.v, i |-> t.i + 1]
      <4>1. t \in [v : Value, i : (i + 1)..(Len(s) + 1)]
        BY <2>2 DEF Outcomes
      <4> QED
        BY <4>1
    <3>4. i <= t.i + 1 /\ t.i + 1 > i
      BY <3>1
    <3> QED
      BY <1>0, <3>1, <3>2, <3>3, <3>4, MakeOutcome
  <2>4. /\ Primary(f, s, i) = {[t EXCEPT !.i = @ + 1] : t \in Closed}
        /\ Primary(g, s, i) = {[t EXCEPT !.i = @ + 1] : t \in Closed}
    <3>1. At(s, i) \notin Numbers
      BY <1>1, LiteralAssumption
    <3> QED
      BY <1>1, <2>2, <3>1, Zenon DEF Primary
  <2> HIDE DEF Closed, O
  <2>5. {[t EXCEPT !.i = @ + 1] : t \in Closed} \subseteq O
    BY <2>3
  <2> QED
    BY <2>4, <2>5, Zenon DEF O
<1>2. CASE At(s, i) # "(" /\ At(s, i) \in Numbers
  <2> DEFINE w == [v |-> Literal[s[i]], i |-> i + 1]
  <2>1. i + 1 \in 1..(Len(s) + 1) /\ At(s, i) = s[i]
    BY <1>2, AtWithin
  <2>2. Literal[s[i]] \in Value
    <3>1. s[i] \in Numbers
      BY <1>2, <2>1
    <3> QED
      BY <3>1, LiteralAssumption
  <2>3. w \in O
    <3>1. i <= i + 1 /\ i + 1 > i
      OBVIOUS
    <3> QED
      BY <1>0, <2>1, <2>2, <3>1, MakeOutcome, Zenon
  <2>4. Primary(f, s, i) = {w} /\ Primary(g, s, i) = {w}
    BY <1>2, Zenon DEF Primary
  <2> QED
    BY <2>3, <2>4, Zenon
<1>3. CASE At(s, i) # "(" /\ At(s, i) \notin Numbers
  <2>1. Primary(f, s, i) = {} /\ Primary(g, s, i) = {}
    BY <1>3, Zenon DEF Primary
  <2> QED
    BY <2>1, Zenon
<1> QED
  BY <1>1, <1>2, <1>3

LEMMA FoldsDepend ==
  ASSUME NEW s, Len(s) \in Nat, NEW f, NEW g, NEW rule \in Chained,
         NEW i \in 1..(Len(s) + 1), NEW acc \in SUBSET Value,
         acc # {}, At(s, i) \in Loop[rule],
         Agree(f, g, s, Stage(s, <<rule, i, acc>>))
  PROVE  /\ Folds(f, s, rule, i, acc) = Folds(g, s, rule, i, acc)
         /\ Folds(f, s, rule, i, acc) \subseteq Outcomes(s, <<rule, i, acc>>)
<1> DEFINE O == Outcomes(s, <<rule, i, acc>>)
           T == f[<<Below[rule], i + 1, {}>>]
           R(t) == UNION {Results(s[i], v, t.v) : v \in acc}
           P(h, t) == UNION {h[<<rule, t.i, {r}>>] : r \in R(t)}
<1>0. /\ {} \in SUBSET Value /\ rule \in Rules /\ Below[rule] \in Rules
      /\ At(s, i) \in Operators
  BY DEF Rules, Below, Loop, Operators, Chained
<1>1. i + 1 \in 1..(Len(s) + 1) /\ i + 1 > i /\ s[i] \in Operators
  BY <1>0, AtWithin
<1>2. T = g[<<Below[rule], i + 1, {}>>] /\ T \subseteq Outcomes(s, <<Below[rule], i + 1, {}>>)
  BY <1>0, <1>1, EarlierCall, Zenon
<1>3. /\ Folds(f, s, rule, i, acc) = UNION {P(f, t) : t \in T}
      /\ Folds(g, s, rule, i, acc) = UNION {P(g, t) : t \in T}
  BY <1>2, Zenon DEF Folds
<1> HIDE DEF T, P
<1>4. ASSUME NEW t \in T
      PROVE  P(f, t) = P(g, t) /\ P(f, t) \subseteq O
  <2>1. /\ t.v \in Value /\ t.i \in 1..(Len(s) + 1) /\ i + 1 <= t.i
        /\ t.i > i /\ i <= t.i
    <3>1. t.v \in Value /\ t.i \in 1..(Len(s) + 1) /\ i + 1 <= t.i
      BY <1>0, <1>1, <1>2, OutcomeFields
    <3> QED
      BY <3>1
  <2>2. ASSUME NEW r \in R(t)
        PROVE  f[<<rule, t.i, {r}>>] = g[<<rule, t.i, {r}>>] /\ f[<<rule, t.i, {r}>>] \subseteq O
    <3>1. r \in Value
      BY <1>1, <2>1, ResultsTypes
    <3>2. {r} \in SUBSET Value
      BY <3>1
    <3>3. /\ f[<<rule, t.i, {r}>>] = g[<<rule, t.i, {r}>>]
          /\ f[<<rule, t.i, {r}>>] \subseteq Outcomes(s, <<rule, t.i, {r}>>)
      BY <1>0, <2>1, <3>2, EarlierCall, Zenon
    <3>4. Outcomes(s, <<rule, t.i, {r}>>) \subseteq O
      BY <1>0, <2>1, OutcomeEarlier, Zenon
    <3> QED
      BY <3>3, <3>4
  <2> HIDE DEF R, O
  <2>3. P(f, t) = P(g, t)
    BY <2>2, Zenon DEF P
  <2>4. P(f, t) \subseteq O
    <3>1. P(f, t) = UNION {f[<<rule, t.i, {r}>>] : r \in R(t)}
      BY Zenon DEF P
    <3> QED
      BY <2>2, <3>1
  <2> QED
    BY <2>3, <2>4
<1> HIDE DEF O
<1>5. UNION {P(f, t) : t \in T} = UNION {P(g, t) : t \in T}
  BY <1>4
<1>6. UNION {P(f, t) : t \in T} \subseteq O
  BY <1>4
<1> QED
  BY <1>3, <1>5, <1>6 DEF O

LEMMA ChainDepends ==
  ASSUME NEW s, Len(s) \in Nat, NEW f, NEW g, NEW rule \in Chained,
         NEW i \in 1..(Len(s) + 1), NEW acc \in SUBSET Value,
         Agree(f, g, s, Stage(s, <<rule, i, acc>>))
  PROVE  /\ Chain(f, s, rule, i, acc) = Chain(g, s, rule, i, acc)
         /\ Chain(f, s, rule, i, acc) \subseteq Outcomes(s, <<rule, i, acc>>)
<1> DEFINE O == Outcomes(s, <<rule, i, acc>>)
           T == f[<<Below[rule], i, {}>>]
<1>0. /\ {} \in SUBSET Value /\ rule \in Rules /\ Below[rule] \in Rules
      /\ RuleRank[Below[rule]] < RuleRank[rule] /\ i <= i /\ i = i
      /\ ~(Below[rule] = "expr")
  BY DEF Rules, Below, RuleRank, Chained
<1>1. CASE acc = {}
  <2>1. T = g[<<Below[rule], i, {}>>] /\ T \subseteq Outcomes(s, <<Below[rule], i, {}>>)
    BY <1>0, EarlierCall, Zenon
  <2>2. /\ Chain(f, s, rule, i, acc) = UNION {f[<<rule, t.i, {t.v}>>] : t \in T}
        /\ Chain(g, s, rule, i, acc) = UNION {g[<<rule, t.i, {t.v}>>] : t \in T}
    BY <1>1, <2>1, Zenon DEF Chain
  <2> HIDE DEF T
  <2>3. ASSUME NEW t \in T
        PROVE  /\ f[<<rule, t.i, {t.v}>>] = g[<<rule, t.i, {t.v}>>]
               /\ f[<<rule, t.i, {t.v}>>] \subseteq O
    <3>1. t.v \in Value /\ t.i \in 1..(Len(s) + 1) /\ t.i > i /\ i <= t.i
      BY <1>0, <2>1, OutcomeFields
    <3>2. {t.v} \in SUBSET Value
      BY <3>1
    <3>3. /\ f[<<rule, t.i, {t.v}>>] = g[<<rule, t.i, {t.v}>>]
          /\ f[<<rule, t.i, {t.v}>>] \subseteq Outcomes(s, <<rule, t.i, {t.v}>>)
      BY <1>0, <3>1, <3>2, EarlierCall, Zenon
    <3>4. Outcomes(s, <<rule, t.i, {t.v}>>) \subseteq O
      BY <1>0, <3>1, OutcomeEarlier, Zenon
    <3> QED
      BY <3>3, <3>4
  <2> HIDE DEF O
  <2>4. Chain(f, s, rule, i, acc) = Chain(g, s, rule, i, acc)
    BY <2>2, <2>3, Zenon
  <2>5. Chain(f, s, rule, i, acc) \subseteq O
    BY <2>2, <2>3
  <2> QED
    BY <2>4, <2>5 DEF O
<1>2. CASE acc # {} /\ At(s, i) \in Loop[rule]
  <2>1. /\ Chain(f, s, rule, i, acc) = Folds(f, s, rule, i, acc)
        /\ Chain(g, s, rule, i, acc) = Folds(g, s, rule, i, acc)
    BY <1>2, Zenon DEF Chain
  <2> QED
    BY <1>2, <2>1, FoldsDepend
<1>3. CASE acc # {} /\ At(s, i) \notin Loop[rule]
  <2> DEFINE X == {[v |-> v, i |-> i] : v \in acc}
  <2>1. Chain(f, s, rule, i, acc) = X /\ Chain(g, s, rule, i, acc) = X
    BY <1>3, Zenon DEF Chain
  <2>2. ASSUME NEW v \in acc PROVE [v |-> v, i |-> i] \in O
    BY <1>0, <1>3, MakeOutcome
  <2> HIDE DEF O
  <2>3. X \subseteq O
    BY <2>2
  <2> HIDE DEF X
  <2> QED
    BY <2>1, <2>3, Zenon DEF O
<1> QED
  BY <1>1, <1>2, <1>3

\* What a call returns, from what earlier calls return.
LEMMA ReturnsDepend ==
  ASSUME NEW s, Len(s) \in Nat, NEW f, NEW g, NEW rule \in Rules,
         NEW i \in 1..(Len(s) + 1), NEW acc \in SUBSET Value,
         Agree(f, g, s, Stage(s, <<rule, i, acc>>))
  PROVE  /\ Returns(f, s, rule, i, acc) = Returns(g, s, rule, i, acc)
         /\ Returns(f, s, rule, i, acc) \subseteq Outcomes(s, <<rule, i, acc>>)
<1>1. CASE rule = "factor"
  <2>1. /\ Returns(f, s, rule, i, acc) = Factor(f, s, i)
        /\ Returns(g, s, rule, i, acc) = Factor(g, s, i)
    BY <1>1 DEF Returns
  <2> QED
    BY <1>1, <2>1, FactorDepends
<1>2. CASE rule = "unary"
  <2>1. Returns(f, s, rule, i, acc) = Unary(f, s, i) /\ Returns(g, s, rule, i, acc) = Unary(g, s, i)
    BY <1>2 DEF Returns
  <2> QED
    BY <1>2, <2>1, UnaryDepends
<1>3. CASE rule = "primary"
  <2>1. /\ Returns(f, s, rule, i, acc) = Primary(f, s, i)
        /\ Returns(g, s, rule, i, acc) = Primary(g, s, i)
    BY <1>3 DEF Returns
  <2> QED
    BY <1>3, <2>1, PrimaryDepends
<1>4. CASE rule \in Chained
  <2>1. /\ Returns(f, s, rule, i, acc) = Chain(f, s, rule, i, acc)
        /\ Returns(g, s, rule, i, acc) = Chain(g, s, rule, i, acc)
    BY <1>4 DEF Returns, Chained
  <2> QED
    BY <1>4, <2>1, ChainDepends
<1> QED
  BY <1>1, <1>2, <1>3, <1>4 DEF Rules, Chained

\* A function that settles every call up to a stage.
Settles(f, s, q) ==
  /\ f = [call \in Calls(s) |-> f[call]]
  /\ \A call \in Calls(s) :
       Stage(s, call) <= q => /\ f[call] = Returns(f, s, call[1], call[2], call[3])
                              /\ f[call] \subseteq Outcomes(s, call)

LEMMA CallParts ==
  ASSUME NEW s, Len(s) \in Nat, NEW call \in Calls(s)
  PROVE  /\ call = <<call[1], call[2], call[3]>>
         /\ call[1] \in Rules /\ call[2] \in 1..(Len(s) + 1) /\ call[3] \in SUBSET Value
         /\ Stage(s, call) \in 1..(5 * (Len(s) + 2)) /\ Stage(s, call) \in Nat
<1>1. /\ call = <<call[1], call[2], call[3]>>
      /\ call[1] \in Rules /\ call[2] \in 1..(Len(s) + 1) /\ call[3] \in SUBSET Value
  BY DEF Calls
<1>2. Stage(s, <<call[1], call[2], call[3]>>) \in 1..(5 * (Len(s) + 2))
  BY <1>1, CallStage
<1>3. Stage(s, call) \in 1..(5 * (Len(s) + 2))
  BY <1>1, <1>2
<1>4. Stage(s, call) \in Nat
  BY <1>3
<1> QED
  BY <1>1, <1>3, <1>4

LEMMA CallDepends ==
  ASSUME NEW s, Len(s) \in Nat, NEW f, NEW g, NEW call \in Calls(s),
         Agree(f, g, s, Stage(s, call))
  PROVE  /\ Returns(f, s, call[1], call[2], call[3]) = Returns(g, s, call[1], call[2], call[3])
         /\ Returns(f, s, call[1], call[2], call[3]) \subseteq Outcomes(s, call)
<1>1. /\ call = <<call[1], call[2], call[3]>>
      /\ call[1] \in Rules /\ call[2] \in 1..(Len(s) + 1) /\ call[3] \in SUBSET Value
  BY CallParts
<1> DEFINE rule == call[1]
           i == call[2]
           acc == call[3]
<1>2. Agree(f, g, s, Stage(s, <<rule, i, acc>>))
  BY <1>1
<1> HIDE DEF rule, i, acc
<1>3. rule \in Rules /\ i \in 1..(Len(s) + 1) /\ acc \in SUBSET Value
  BY <1>1 DEF rule, i, acc
<1>4. /\ Returns(f, s, rule, i, acc) = Returns(g, s, rule, i, acc)
      /\ Returns(f, s, rule, i, acc) \subseteq Outcomes(s, <<rule, i, acc>>)
  BY <1>2, <1>3, ReturnsDepend
<1> QED
  BY <1>1, <1>4 DEF rule, i, acc

LEMMA NextStage ==
  ASSUME NEW s, Len(s) \in Nat, NEW q \in Nat, NEW f, Settles(f, s, q)
  PROVE  \E g : Settles(g, s, q + 1)
<1> DEFINE Ret(h, call) == Returns(h, s, call[1], call[2], call[3])
           g == [call \in Calls(s) |-> IF Stage(s, call) = q + 1 THEN Ret(f, call) ELSE f[call]]
<1>1. ASSUME NEW call \in Calls(s), Stage(s, call) <= q + 1
      PROVE  Agree(f, g, s, Stage(s, call))
  <2> SUFFICES ASSUME NEW d \in Calls(s), Stage(s, d) < Stage(s, call)
               PROVE  f[d] = g[d] /\ f[d] \subseteq Outcomes(s, d)
    BY DEF Agree
  <2>1. Stage(s, d) \in Nat /\ Stage(s, call) \in Nat
    BY CallParts
  <2>2. Stage(s, d) <= q /\ Stage(s, d) # q + 1
    BY <1>1, <2>1
  <2> QED
    BY <2>2 DEF Settles
<1>2. ASSUME NEW call \in Calls(s), Stage(s, call) <= q + 1
      PROVE  g[call] = Ret(g, call) /\ g[call] \subseteq Outcomes(s, call)
  <2>1. Ret(f, call) = Ret(g, call) /\ Ret(f, call) \subseteq Outcomes(s, call)
    BY <1>1, <1>2, CallDepends
  <2>2. CASE Stage(s, call) = q + 1
    BY <2>1, <2>2, Zenon
  <2>3. CASE Stage(s, call) # q + 1
    <3>1. Stage(s, call) <= q
      <4>1. Stage(s, call) \in Nat
        BY CallParts
      <4> QED
        BY <1>2, <2>3, <4>1
    <3>2. f[call] = Ret(f, call)
      BY <3>1, Zenon DEF Settles
    <3> QED
      BY <2>1, <2>3, <3>2, Zenon
  <2> QED
    BY <2>2, <2>3
<1>3. g = [call \in Calls(s) |-> g[call]]
  BY Zenon
<1> HIDE DEF g
<1>4. Settles(g, s, q + 1)
  BY <1>2, <1>3 DEF Settles
<1> QED
  BY <1>4

LEMMA ParserExists ==
  ASSUME NEW s, Len(s) \in Nat
  PROVE  \E f : f = [call \in Calls(s) |-> Returns(f, s, call[1], call[2], call[3])]
<1> DEFINE T == {q \in Nat : \E f : Settles(f, s, q)}
<1>1. 0 \in T
  <2> DEFINE f == [call \in Calls(s) |-> {}]
  <2>1. f = [call \in Calls(s) |-> f[call]]
    BY Zenon
  <2>2. \A call \in Calls(s) : ~(Stage(s, call) <= 0)
    <3> SUFFICES ASSUME NEW call \in Calls(s) PROVE ~(Stage(s, call) <= 0)
      OBVIOUS
    <3>1. Stage(s, call) \in 1..(5 * (Len(s) + 2))
      BY CallParts
    <3> QED
      BY <3>1
  <2> HIDE DEF f
  <2>3. Settles(f, s, 0)
    BY <2>1, <2>2, Zenon DEF Settles
  <2> QED
    BY <2>3
<1>2. ASSUME NEW q \in Nat, q \in T PROVE q + 1 \in T
  BY <1>2, NextStage
<1> HIDE DEF T
<1>3. \A q \in Nat : q \in T
  BY <1>1, <1>2, SetInduction
<1>4. PICK f : Settles(f, s, 5 * (Len(s) + 2))
  <2>1. 5 * (Len(s) + 2) \in Nat
    OBVIOUS
  <2> QED
    BY <1>3, <2>1 DEF T
<1>5. \A call \in Calls(s) : f[call] = Returns(f, s, call[1], call[2], call[3])
  <2> SUFFICES ASSUME NEW call \in Calls(s)
               PROVE  f[call] = Returns(f, s, call[1], call[2], call[3])
    BY Zenon
  <2>1. Stage(s, call) \in 1..(5 * (Len(s) + 2))
    BY CallParts
  <2>2. Stage(s, call) <= 5 * (Len(s) + 2)
    BY <2>1
  <2> QED
    BY <1>4, <2>2, Zenon DEF Settles
<1>6. f = [call \in Calls(s) |-> f[call]]
  BY <1>4, Zenon DEF Settles
<1>7. f = [call \in Calls(s) |-> Returns(f, s, call[1], call[2], call[3])]
  BY <1>5, <1>6, Zenon
<1> QED
  BY <1>7, Zenon

\* A parser: each call returns what its rule says of the others' results.
IsParser(f, s) ==
  /\ \A rule \in Rules, i \in 1..(Len(s) + 1), acc \in SUBSET Value :
       f[<<rule, i, acc>>] = Returns(f, s, rule, i, acc)
  /\ \A call \in Calls(s) : f[call] \subseteq Outcomes(s, call)

\* The parser's function settles every call.
LEMMA ParserSettles ==
  ASSUME NEW s, Len(s) \in Nat, NEW f,
         f = [call \in Calls(s) |-> Returns(f, s, call[1], call[2], call[3])]
  PROVE  IsParser(f, s)
<1>1. ASSUME NEW rule \in Rules, NEW i \in 1..(Len(s) + 1), NEW acc \in SUBSET Value
      PROVE  f[<<rule, i, acc>>] = Returns(f, s, rule, i, acc)
  <2>1. <<rule, i, acc>> \in Calls(s)
    BY CallStage
  <2> DEFINE call == <<rule, i, acc>>
  <2>2. f[call] = Returns(f, s, call[1], call[2], call[3])
    BY <2>1, Zenon
  <2> QED
    BY <2>2
<1>2. ASSUME NEW call \in Calls(s) PROVE f[call] = Returns(f, s, call[1], call[2], call[3])
  BY Zenon
<1> DEFINE T == {q \in Nat : \A call \in Calls(s) :
                   Stage(s, call) <= q => f[call] \subseteq Outcomes(s, call)}
<1>3. 0 \in T
  <2> SUFFICES ASSUME NEW call \in Calls(s) PROVE ~(Stage(s, call) <= 0)
    OBVIOUS
  <2>1. Stage(s, call) \in 1..(5 * (Len(s) + 2))
    BY CallParts
  <2> QED
    BY <2>1
<1>4. ASSUME NEW q \in Nat, q \in T PROVE q + 1 \in T
  <2> SUFFICES ASSUME NEW call \in Calls(s), Stage(s, call) <= q + 1
               PROVE  f[call] \subseteq Outcomes(s, call)
    OBVIOUS
  <2>1. Agree(f, f, s, Stage(s, call))
    <3> SUFFICES ASSUME NEW d \in Calls(s), Stage(s, d) < Stage(s, call)
                 PROVE  f[d] \subseteq Outcomes(s, d)
      BY Zenon DEF Agree
    <3>1. Stage(s, d) \in Nat /\ Stage(s, call) \in Nat
      BY CallParts
    <3>2. Stage(s, d) <= q
      BY <3>1
    <3> QED
      BY <1>4, <3>2
  <2>2. Returns(f, s, call[1], call[2], call[3]) \subseteq Outcomes(s, call)
    BY <2>1, CallDepends
  <2> QED
    BY <1>2, <2>2, Zenon
<1> HIDE DEF T
<1>5. \A q \in Nat : q \in T
  BY <1>3, <1>4, SetInduction
<1>6. ASSUME NEW call \in Calls(s) PROVE f[call] \subseteq Outcomes(s, call)
  <2>1. Stage(s, call) \in Nat /\ Stage(s, call) <= Stage(s, call)
    BY CallParts
  <2> QED
    BY <1>5, <2>1 DEF T
<1> QED
  BY <1>1, <1>6, Zenon DEF IsParser

LEMMA ParseIsParser ==
  ASSUME NEW s, Len(s) \in Nat
  PROVE  \E f : IsParser(f, s) /\ Parse(s) = f[<<"expr", 1, {}>>]
<1> DEFINE iter[call \in Calls(s)] == Returns(iter, s, call[1], call[2], call[3])
<1>1. iter = [call \in Calls(s) |-> Returns(iter, s, call[1], call[2], call[3])]
  BY ParserExists, Zenon
<1>2. Parse(s) = iter[<<"expr", 1, {}>>]
  BY Zenon DEF Parse
<1> HIDE DEF iter
<1> QED
  BY <1>1, <1>2, ParserSettles

----------------------------------------------------------------------------
(* The reference's recursion: a part's meaning is settled by the meanings  *)
(* of narrower parts.                                                      *)

Single(S) == S \subseteq Value /\ \A x, y \in S : x = y

LEMMA GreatestIn ==
  ASSUME NEW a \in Nat, NEW b \in Nat, NEW S, S \subseteq a..b, S # {}
  PROVE  Max(S) \in S /\ \A x \in S : x <= Max(S)
<1>1. IsFiniteSet(S)
  <2>1. IsFiniteSet(a..b)
    BY FS_Interval
  <2> QED
    BY <2>1, FS_Subset
<1>2. S \subseteq Int
  OBVIOUS
<1>3. PICK g \in S : \A x \in S : x <= g
  BY <1>1, <1>2, HasGreatest
<1>4. \A x \in S : g >= x
  BY <1>2, <1>3
<1>5. \E x \in S : \A y \in S : x >= y
  BY <1>4
<1>6. Max(S) \in S /\ \A y \in S : Max(S) >= y
  <2> DEFINE G(x) == \A y \in S : x >= y
  <2>1. (CHOOSE x \in S : G(x)) \in S /\ G(CHOOSE x \in S : G(x))
    <3>1. \E x \in S : G(x)
      BY <1>5
    <3> HIDE DEF G
    <3> QED
      BY <3>1, Zenon
  <2> QED
    BY <2>1, Zenon DEF Max
<1> HIDE DEF Max
<1> QED
  BY <1>2, <1>6

LEMMA BinaryWithin ==
  ASSUME NEW s, NEW ops, NEW i \in Nat, NEW j \in Nat
  PROVE  /\ Binary(s, ops, i, j) \subseteq (i + 1)..(j - 1)
         /\ \A k \in Binary(s, ops, i, j) : s[k] \in ops
BY DEF Binary

LEMMA AppliedSingle ==
  ASSUME NEW s, NEW m, NEW i, NEW k, NEW j, s[k] \in Operators,
         Single(m[<<i, k>>]), Single(m[<<k + 1, j>>])
  PROVE  Single(Applied(m, s, i, k, j))
<1> DEFINE L == m[<<i, k>>]
           R == m[<<k + 1, j>>]
           op == s[k]
<1>1. Applied(m, s, i, k, j) = UNION {UNION {Results(op, l, r) : r \in R} : l \in L}
  BY AppliedIs, Zenon
<1>2. Single(L) /\ Single(R) /\ op \in Operators
  OBVIOUS
<1> HIDE DEF L, R, op
<1>3. ASSUME NEW l \in L, NEW r \in R
      PROVE  /\ Results(op, l, r) \subseteq Value
             /\ \A x, y \in Results(op, l, r) : x = y
  BY <1>2, ResultsTypes DEF Single
<1>4. UNION {UNION {Results(op, l, r) : r \in R} : l \in L} \subseteq Value
  BY <1>3
<1>5. ASSUME NEW x \in Applied(m, s, i, k, j), NEW y \in Applied(m, s, i, k, j) PROVE x = y
  <2>1. PICK l \in L, r \in R : x \in Results(op, l, r)
    BY <1>1
  <2>2. PICK p \in L, q \in R : y \in Results(op, p, q)
    BY <1>1
  <2>3. l = p /\ r = q
    BY <1>2 DEF Single
  <2> QED
    BY <1>3, <2>1, <2>2, <2>3
<1> QED
  BY <1>1, <1>4, <1>5 DEF Single

\* Two functions that agree on the parts narrower than q.
Narrower(f, g, s, q) ==
  \A part \in Parts(s) : part[2] - part[1] < q => f[part] = g[part] /\ Single(f[part])

LEMMA AppliedDepends ==
  ASSUME NEW s, Len(s) \in Nat, NEW f, NEW g,
         NEW i \in 1..(Len(s) + 1), NEW j \in 1..(Len(s) + 1), Narrower(f, g, s, j - i),
         NEW k \in (i + 1)..(j - 1), s[k] \in Operators
  PROVE  Applied(f, s, i, k, j) = Applied(g, s, i, k, j) /\ Single(Applied(f, s, i, k, j))
<1>1. <<i, k>> \in Parts(s) /\ <<k + 1, j>> \in Parts(s) /\ k - i < j - i /\ j - (k + 1) < j - i
  BY DEF Parts
<1>2. /\ f[<<i, k>>] = g[<<i, k>>] /\ Single(f[<<i, k>>])
      /\ f[<<k + 1, j>>] = g[<<k + 1, j>>] /\ Single(f[<<k + 1, j>>])
  BY <1>1 DEF Narrower
<1>3. Single(Applied(f, s, i, k, j))
  BY <1>2, AppliedSingle, Zenon
<1> DEFINE A(L, R) == UNION {UNION {Results(s[k], l, r) : r \in R} : l \in L}
<1>4. /\ Applied(f, s, i, k, j) = A(f[<<i, k>>], f[<<k + 1, j>>])
      /\ Applied(g, s, i, k, j) = A(g[<<i, k>>], g[<<k + 1, j>>])
  BY AppliedIs, Zenon
<1> HIDE DEF A
<1> QED
  BY <1>2, <1>3, <1>4, Zenon

LEMMA OperandDepends ==
  ASSUME NEW s, Len(s) \in Nat, NEW f, NEW g,
         NEW i \in 1..(Len(s) + 1), NEW j \in 1..(Len(s) + 1), i < j, Narrower(f, g, s, j - i)
  PROVE  Operand(f, s, i, j) = Operand(g, s, i, j) /\ Single(Operand(f, s, i, j))
<1>0. /\ s[i] \in Numbers => s[i] \notin {"-", "+", "("}
      /\ "-" # "+" /\ "-" # "(" /\ "+" # "("
  BY LiteralAssumption DEF Operators
<1>1. i + 1 \in 1..(Len(s) + 1) /\ <<i + 1, j>> \in Parts(s) /\ j - (i + 1) < j - i
  BY DEF Parts
<1>2. f[<<i + 1, j>>] = g[<<i + 1, j>>] /\ Single(f[<<i + 1, j>>])
  BY <1>1 DEF Narrower
<1>3. CASE s[i] = "-"
  <2> DEFINE V == f[<<i + 1, j>>]
  <2>1. /\ Operand(f, s, i, j) = {Negated[v] : v \in V}
        /\ Operand(g, s, i, j) = {Negated[v] : v \in V}
    BY <1>0, <1>2, <1>3, Zenon DEF Operand
  <2>2. Single(V)
    BY <1>2
  <2> HIDE DEF V
  <2>3. \A v \in V : Negated[v] \in Value
    BY <2>2, NegatedTypes DEF Single
  <2>4. Single({Negated[v] : v \in V})
    BY <2>2, <2>3, Zenon DEF Single
  <2> QED
    BY <2>1, <2>4, Zenon
<1>4. CASE s[i] = "+"
  <2>1. /\ Operand(f, s, i, j) = f[<<i + 1, j>>] /\ Operand(g, s, i, j) = g[<<i + 1, j>>]
    BY <1>0, <1>4, Zenon DEF Operand
  <2> QED
    BY <1>2, <2>1, Zenon
<1>5. CASE s[i] = "(" /\ s[j - 1] = ")"
  <2>1. /\ Operand(f, s, i, j) = f[<<i + 1, j - 1>>] /\ Operand(g, s, i, j) = g[<<i + 1, j - 1>>]
    BY <1>0, <1>5, Zenon DEF Operand
  <2>2. <<i + 1, j - 1>> \in Parts(s) /\ (j - 1) - (i + 1) < j - i
    <3>1. j - 1 # i
      BY <1>5
    <3> QED
      BY <3>1 DEF Parts
  <2>3. f[<<i + 1, j - 1>>] = g[<<i + 1, j - 1>>] /\ Single(f[<<i + 1, j - 1>>])
    BY <2>2 DEF Narrower
  <2> QED
    BY <2>1, <2>3, Zenon
<1>6. CASE s[i] \notin {"-", "+"} /\ ~(s[i] = "(" /\ s[j - 1] = ")")
  <2>1. Operand(f, s, i, j) = Operand(g, s, i, j)
    BY <1>6, Zenon DEF Operand
  <2>2. CASE i + 1 = j /\ s[i] \in Numbers
    <3>1. Operand(f, s, i, j) = {Literal[s[i]]}
      BY <1>6, <2>2, Zenon DEF Operand
    <3>2. Literal[s[i]] \in Value
      BY <2>2, LiteralAssumption
    <3> QED
      BY <2>1, <3>1, <3>2, Zenon DEF Single
  <2>3. CASE ~(i + 1 = j /\ s[i] \in Numbers)
    <3>1. Operand(f, s, i, j) = {}
      BY <1>6, <2>3, Zenon DEF Operand
    <3> QED
      BY <2>1, <3>1, Zenon DEF Single
  <2> QED
    BY <2>2, <2>3
<1> QED
  BY <1>3, <1>4, <1>5, <1>6

Sums(s, i, j) == Binary(s, {"+", "-"}, i, j)
Products(s, i, j) == Binary(s, {"*", "/", "%"}, i, j)
Powers(s, i, j) == Binary(s, {"^"}, i, j)

\* The clauses of Reading.
Clauses(m, s, i, j) ==
  /\ i >= j => Reading(m, s, i, j) = {}
  /\ i < j /\ Sums(s, i, j) # {} =>
       Reading(m, s, i, j) = Applied(m, s, i, Max(Sums(s, i, j)), j)
  /\ i < j /\ Sums(s, i, j) = {} /\ Products(s, i, j) # {} =>
       Reading(m, s, i, j) = Applied(m, s, i, Max(Products(s, i, j)), j)
  /\ (i < j /\ Sums(s, i, j) \cup Products(s, i, j) = {} /\ Powers(s, i, j) # {}) =>
       Reading(m, s, i, j) = Applied(m, s, i, Min(Powers(s, i, j)), j)
  /\ i < j /\ Sums(s, i, j) \cup Products(s, i, j) \cup Powers(s, i, j) = {} =>
       Reading(m, s, i, j) = Operand(m, s, i, j)

LEMMA ReadingClauses ==
  ASSUME NEW s, NEW m, NEW i \in Nat, NEW j \in Nat
  PROVE  Clauses(m, s, i, j)
<1>0. (i >= j) = ~(i < j)
  OBVIOUS
<1> DEFINE S == Sums(s, i, j)
           P == Products(s, i, j)
           W == Powers(s, i, j)
           R == Reading(m, s, i, j)
           ge == i >= j
           lt == i < j
<1>1. R = CASE ge -> {}
            [] lt /\ S # {} -> Applied(m, s, i, Max(S), j)
            [] lt /\ S = {} /\ P # {} -> Applied(m, s, i, Max(P), j)
            [] lt /\ S \cup P = {} /\ W # {} -> Applied(m, s, i, Min(W), j)
            [] lt /\ S \cup P \cup W = {} -> Operand(m, s, i, j)
  BY Zenon DEF Reading, Sums, Products, Powers
<1>2. ge = ~lt /\ lt \in BOOLEAN
  BY <1>0
<1>3. S \cup P = {} <=> S = {} /\ P = {}
  OBVIOUS
<1>4. S \cup P \cup W = {} <=> S = {} /\ P = {} /\ W = {}
  OBVIOUS
<1> HIDE DEF S, P, W, R, ge, lt
<1>5. /\ ge => R = {}
      /\ lt /\ S # {} => R = Applied(m, s, i, Max(S), j)
      /\ lt /\ S = {} /\ P # {} => R = Applied(m, s, i, Max(P), j)
      /\ (lt /\ S \cup P = {} /\ W # {}) => R = Applied(m, s, i, Min(W), j)
      /\ lt /\ S \cup P \cup W = {} => R = Operand(m, s, i, j)
  <2>1. CASE ~lt
    <3>1. ge /\ R = {}
      BY <1>1, <1>2, <2>1, Zenon
    <3> QED
      BY <2>1, <3>1, Zenon
  <2>2. CASE lt /\ S # {}
    <3>1. S \cup P # {} /\ S \cup P \cup W # {} /\ ~ge
      BY <1>2, <1>3, <1>4, <2>2, Zenon
    <3>2. R = Applied(m, s, i, Max(S), j)
      BY <1>1, <2>2, <3>1, Zenon
    <3> QED
      BY <2>2, <3>1, <3>2, Zenon
  <2>3. CASE lt /\ S = {} /\ P # {}
    <3>1. S \cup P # {} /\ S \cup P \cup W # {} /\ ~ge
      BY <1>2, <1>3, <1>4, <2>3, Zenon
    <3>2. R = Applied(m, s, i, Max(P), j)
      BY <1>1, <2>3, <3>1, Zenon
    <3> QED
      BY <2>3, <3>1, <3>2, Zenon
  <2>4. CASE lt /\ S = {} /\ P = {} /\ W # {}
    <3>1. S \cup P = {} /\ S \cup P \cup W # {} /\ ~ge
      BY <1>2, <1>3, <1>4, <2>4, Zenon
    <3>2. R = Applied(m, s, i, Min(W), j)
      BY <1>1, <2>4, <3>1, Zenon
    <3> QED
      BY <2>4, <3>1, <3>2, Zenon
  <2>5. CASE lt /\ S = {} /\ P = {} /\ W = {}
    <3>1. S \cup P = {} /\ S \cup P \cup W = {} /\ ~ge
      BY <1>2, <1>3, <1>4, <2>5, Zenon
    <3>2. R = Operand(m, s, i, j)
      BY <1>1, <2>5, <3>1, Zenon
    <3> QED
      BY <2>5, <3>1, <3>2, Zenon
  <2> QED
    BY <2>1, <2>2, <2>3, <2>4, <2>5, Zenon
<1> QED
  BY <1>5, Zenon DEF Clauses, S, P, W, R, ge, lt

LEMMA ReadingDepends ==
  ASSUME NEW s, Len(s) \in Nat, NEW f, NEW g,
         NEW i \in 1..(Len(s) + 1), NEW j \in 1..(Len(s) + 1), i < j => Narrower(f, g, s, j - i)
  PROVE  Reading(f, s, i, j) = Reading(g, s, i, j) /\ Single(Reading(f, s, i, j))
<1> DEFINE S == Sums(s, i, j)
           P == Products(s, i, j)
           W == Powers(s, i, j)
<1>0. i \in Nat /\ j \in Nat /\ i + 1 \in Nat /\ (i < j => j - 1 \in Nat)
  OBVIOUS
<1>1. /\ S \subseteq (i + 1)..(j - 1) /\ P \subseteq (i + 1)..(j - 1)
      /\ W \subseteq (i + 1)..(j - 1)
      /\ \A k \in S \cup P \cup W : s[k] \in Operators
  <2>1. /\ {"+", "-"} \subseteq Operators /\ {"*", "/", "%"} \subseteq Operators
        /\ {"^"} \subseteq Operators
    BY DEF Operators
  <2> QED
    BY <1>0, <2>1, BinaryWithin DEF Sums, Products, Powers
<1>9. \A m : Clauses(m, s, i, j)
  BY <1>0, ReadingClauses, Zenon
<1> HIDE DEF S, P, W
<1>2. CASE i >= j
  <2>1. Reading(f, s, i, j) = {} /\ Reading(g, s, i, j) = {}
    BY <1>2, <1>9, Zenon DEF Clauses, S, P, W
  <2> QED
    BY <2>1, Zenon DEF Single
<1>3. ASSUME i < j, NEW k \in S \cup P \cup W
      PROVE  Applied(f, s, i, k, j) = Applied(g, s, i, k, j) /\ Single(Applied(f, s, i, k, j))
  <2>1. k \in (i + 1)..(j - 1) /\ s[k] \in Operators
    BY <1>1, <1>3
  <2> QED
    BY <1>3, <2>1, AppliedDepends
<1>4. CASE i < j /\ S # {}
  <2>1. Max(S) \in S
    BY <1>0, <1>1, <1>4, GreatestIn
  <2>2. /\ Reading(f, s, i, j) = Applied(f, s, i, Max(S), j)
        /\ Reading(g, s, i, j) = Applied(g, s, i, Max(S), j)
    BY <1>4, <1>9, Zenon DEF Clauses, S, P, W
  <2>3. Max(S) \in S \cup P \cup W
    BY <2>1
  <2> QED
    BY <1>3, <1>4, <2>2, <2>3, Zenon
<1>5. CASE i < j /\ S = {} /\ P # {}
  <2>1. Max(P) \in P
    BY <1>0, <1>1, <1>5, GreatestIn
  <2>2. /\ Reading(f, s, i, j) = Applied(f, s, i, Max(P), j)
        /\ Reading(g, s, i, j) = Applied(g, s, i, Max(P), j)
    BY <1>5, <1>9, Zenon DEF Clauses, S, P, W
  <2>3. Max(P) \in S \cup P \cup W
    BY <2>1
  <2> QED
    BY <1>3, <1>5, <2>2, <2>3, Zenon
<1>6. CASE i < j /\ S \cup P = {} /\ W # {}
  <2>0. W \subseteq Nat
    BY <1>0, <1>1
  <2>1. Min(W) \in W
    BY <1>6, <2>0, HasLeast
  <2>2. /\ Reading(f, s, i, j) = Applied(f, s, i, Min(W), j)
        /\ Reading(g, s, i, j) = Applied(g, s, i, Min(W), j)
    BY <1>6, <1>9, Zenon DEF Clauses, S, P, W
  <2>3. Min(W) \in S \cup P \cup W
    BY <2>1
  <2> QED
    BY <1>3, <1>6, <2>2, <2>3, Zenon
<1>7. CASE i < j /\ S \cup P \cup W = {}
  <2>1. /\ Reading(f, s, i, j) = Operand(f, s, i, j)
        /\ Reading(g, s, i, j) = Operand(g, s, i, j)
    BY <1>7, <1>9, Zenon DEF Clauses, S, P, W
  <2> QED
    BY <1>7, <2>1, OperandDepends
<1>8. i >= j \/ i < j
  BY <1>0
<1> QED
  BY <1>2, <1>4, <1>5, <1>6, <1>7, <1>8

\* A function that settles every part up to a width.
Reads(m, s, q) ==
  /\ m = [part \in Parts(s) |-> m[part]]
  /\ \A part \in Parts(s) :
       part[2] - part[1] <= q => m[part] = Reading(m, s, part[1], part[2]) /\ Single(m[part])

LEMMA PartDepends ==
  ASSUME NEW s, Len(s) \in Nat, NEW f, NEW g, NEW part \in Parts(s),
         part[1] < part[2] => Narrower(f, g, s, part[2] - part[1])
  PROVE  /\ Reading(f, s, part[1], part[2]) = Reading(g, s, part[1], part[2])
         /\ Single(Reading(f, s, part[1], part[2]))
<1>1. part[1] \in 1..(Len(s) + 1) /\ part[2] \in 1..(Len(s) + 1)
  BY DEF Parts
<1> QED
  BY <1>1, ReadingDepends, Zenon

LEMMA PartWidth ==
  ASSUME NEW s, Len(s) \in Nat, NEW part \in Parts(s)
  PROVE  /\ part[2] - part[1] \in Int /\ part[2] - part[1] <= Len(s)
         /\ part[1] < part[2] <=> part[2] - part[1] > 0
BY DEF Parts

LEMMA NextWidth ==
  ASSUME NEW s, Len(s) \in Nat, NEW q \in Nat, NEW f, Reads(f, s, q)
  PROVE  \E g : Reads(g, s, q + 1)
<1> DEFINE Read(h, part) == Reading(h, s, part[1], part[2])
           g == [part \in Parts(s) |-> IF part[2] - part[1] = q + 1 THEN Read(f, part) ELSE f[part]]
<1>1. ASSUME NEW part \in Parts(s), part[2] - part[1] <= q + 1
      PROVE  Narrower(f, g, s, part[2] - part[1])
  <2> SUFFICES ASSUME NEW d \in Parts(s), d[2] - d[1] < part[2] - part[1]
               PROVE  f[d] = g[d] /\ Single(f[d])
    BY DEF Narrower
  <2>1. d[2] - d[1] \in Int /\ part[2] - part[1] \in Int
    BY PartWidth
  <2>2. d[2] - d[1] <= q /\ d[2] - d[1] # q + 1
    BY <1>1, <2>1
  <2> QED
    BY <2>2 DEF Reads
<1>2. ASSUME NEW part \in Parts(s), part[2] - part[1] <= q + 1
      PROVE  g[part] = Read(g, part) /\ Single(g[part])
  <2>1. Read(f, part) = Read(g, part) /\ Single(Read(f, part))
    BY <1>1, <1>2, PartDepends
  <2>2. CASE part[2] - part[1] = q + 1
    BY <2>1, <2>2, Zenon
  <2>3. CASE part[2] - part[1] # q + 1
    <3>1. part[2] - part[1] <= q
      <4>1. part[2] - part[1] \in Int
        BY PartWidth
      <4> QED
        BY <1>2, <2>3, <4>1
    <3>2. f[part] = Read(f, part)
      BY <3>1, Zenon DEF Reads
    <3> QED
      BY <2>1, <2>3, <3>2, Zenon
  <2> QED
    BY <2>2, <2>3
<1>3. g = [part \in Parts(s) |-> g[part]]
  BY Zenon
<1> HIDE DEF g
<1>4. Reads(g, s, q + 1)
  BY <1>2, <1>3 DEF Reads
<1> QED
  BY <1>4

LEMMA MeaningExists ==
  ASSUME NEW s, Len(s) \in Nat
  PROVE  \E m : m = [part \in Parts(s) |-> Reading(m, s, part[1], part[2])]
<1> DEFINE T == {q \in Nat : \E m : Reads(m, s, q)}
<1>1. 0 \in T
  <2> DEFINE m == [part \in Parts(s) |-> {}]
  <2>1. m = [part \in Parts(s) |-> m[part]]
    BY Zenon
  <2>2. ASSUME NEW part \in Parts(s), part[2] - part[1] <= 0
        PROVE  m[part] = Reading(m, s, part[1], part[2]) /\ Single(m[part])
    <3>1. part[1] \in Nat /\ part[2] \in Nat /\ part[1] >= part[2]
      BY <2>2 DEF Parts
    <3>2. Reading(m, s, part[1], part[2]) = {}
      BY <3>1, ReadingClauses, Zenon DEF Clauses
    <3> QED
      BY <3>2, Zenon DEF Single
  <2> HIDE DEF m
  <2>3. Reads(m, s, 0)
    BY <2>1, <2>2, Zenon DEF Reads
  <2> QED
    BY <2>3
<1>2. ASSUME NEW q \in Nat, q \in T PROVE q + 1 \in T
  BY <1>2, NextWidth
<1> HIDE DEF T
<1>3. \A q \in Nat : q \in T
  BY <1>1, <1>2, SetInduction
<1>4. PICK m : Reads(m, s, Len(s))
  BY <1>3 DEF T
<1>5. \A part \in Parts(s) : m[part] = Reading(m, s, part[1], part[2])
  BY <1>4, PartWidth, Zenon DEF Reads
<1>6. m = [part \in Parts(s) |-> m[part]]
  BY <1>4, Zenon DEF Reads
<1>7. m = [part \in Parts(s) |-> Reading(m, s, part[1], part[2])]
  BY <1>5, <1>6, Zenon
<1> QED
  BY <1>7, Zenon

\* The meanings of all parts of s.
IsMeaning(m, s) ==
  \A i, j \in 1..(Len(s) + 1) : m[<<i, j>>] = Reading(m, s, i, j) /\ Single(m[<<i, j>>])

LEMMA MeaningSettles ==
  ASSUME NEW s, Len(s) \in Nat, NEW m,
         m = [part \in Parts(s) |-> Reading(m, s, part[1], part[2])]
  PROVE  IsMeaning(m, s)
<1>1. \A part \in Parts(s) : m[part] = Reading(m, s, part[1], part[2])
  BY Zenon
<1> DEFINE T == {q \in Nat : \A part \in Parts(s) : part[2] - part[1] <= q => Single(m[part])}
<1>2. ASSUME NEW part \in Parts(s),
             \A d \in Parts(s) : d[2] - d[1] < part[2] - part[1] => Single(m[d])
      PROVE  Single(m[part])
  <2>1. Narrower(m, m, s, part[2] - part[1])
    BY <1>2, Zenon DEF Narrower
  <2>2. Single(Reading(m, s, part[1], part[2]))
    BY <2>1, PartDepends
  <2> QED
    BY <1>1, <2>2, Zenon
<1>3. 0 \in T
  <2> SUFFICES ASSUME NEW part \in Parts(s), part[2] - part[1] <= 0 PROVE Single(m[part])
    OBVIOUS
  <2>1. ~(part[1] < part[2])
    <3>1. part[2] - part[1] \in Int
      BY PartWidth
    <3>2. ~(part[2] - part[1] > 0)
      BY <3>1
    <3> QED
      BY <3>2, PartWidth
  <2>2. Single(Reading(m, s, part[1], part[2]))
    BY <2>1, PartDepends
  <2> QED
    BY <1>1, <2>2, Zenon
<1>4. ASSUME NEW q \in Nat, q \in T PROVE q + 1 \in T
  <2> SUFFICES ASSUME NEW part \in Parts(s), part[2] - part[1] <= q + 1 PROVE Single(m[part])
    OBVIOUS
  <2>1. ASSUME NEW d \in Parts(s), d[2] - d[1] < part[2] - part[1] PROVE Single(m[d])
    <3>1. d[2] - d[1] \in Int /\ part[2] - part[1] \in Int
      BY PartWidth
    <3>2. d[2] - d[1] <= q
      BY <2>1, <3>1
    <3> QED
      BY <1>4, <3>2
  <2> QED
    BY <1>2, <2>1, Zenon
<1> HIDE DEF T
<1>5. \A q \in Nat : q \in T
  BY <1>3, <1>4, SetInduction
<1>6. \A part \in Parts(s) : Single(m[part])
  BY <1>5, PartWidth DEF T
<1>7. ASSUME NEW i \in 1..(Len(s) + 1), NEW j \in 1..(Len(s) + 1)
      PROVE  m[<<i, j>>] = Reading(m, s, i, j) /\ Single(m[<<i, j>>])
  <2> DEFINE part == <<i, j>>
  <2>1. part \in Parts(s) /\ part[1] = i /\ part[2] = j
    BY DEF Parts
  <2> HIDE DEF part
  <2>2. m[part] = Reading(m, s, part[1], part[2]) /\ Single(m[part])
    BY <1>1, <1>6, <2>1, Zenon
  <2> QED
    BY <2>1, <2>2, Zenon DEF part
<1> QED
  BY <1>7, Zenon DEF IsMeaning

LEMMA MeaningIsMeaning ==
  ASSUME NEW s, Len(s) \in Nat
  PROVE  \E m : IsMeaning(m, s) /\ Meaning(s) = m[<<1, Len(s) + 1>>]
<1> DEFINE iter[part \in Parts(s)] == Reading(iter, s, part[1], part[2])
<1>1. iter = [part \in Parts(s) |-> Reading(iter, s, part[1], part[2])]
  BY MeaningExists, Zenon
<1>2. Meaning(s) = iter[<<1, Len(s) + 1>>]
  BY Zenon DEF Meaning
<1> HIDE DEF iter
<1> QED
  BY <1>1, <1>2, MeaningSettles

----------------------------------------------------------------------------
(* Depth and the binary operators of parts.                                *)

Parens(s, c, k) == Cardinality({j \in 1..(k - 1) : s[j] = c})

LEMMA ParensStep ==
  ASSUME NEW s, NEW c, NEW k \in Nat, k > 0
  PROVE  /\ Parens(s, c, k) \in Nat
         /\ Parens(s, c, k + 1) = Parens(s, c, k) + (IF s[k] = c THEN 1 ELSE 0)
<1> DEFINE B(n) == {j \in 1..(n - 1) : s[j] = c}
<1>1. IsFiniteSet(B(k))
  <2>1. IsFiniteSet(1..(k - 1))
    BY FS_Interval
  <2> QED
    BY <2>1, FS_Subset
<1>2. k \notin B(k) /\ B(k + 1) = IF s[k] = c THEN B(k) \cup {k} ELSE B(k)
  OBVIOUS
<1> HIDE DEF B
<1>3. Cardinality(B(k)) \in Nat
  BY <1>1, FS_CardinalityType
<1>4. Cardinality(B(k) \cup {k}) = Cardinality(B(k)) + 1
  BY <1>1, <1>2, FS_AddElement
<1>5. Cardinality(B(k + 1)) = Cardinality(B(k)) + (IF s[k] = c THEN 1 ELSE 0)
  BY <1>2, <1>3, <1>4
<1> QED
  BY <1>3, <1>5 DEF B, Parens

LEMMA DepthStep ==
  ASSUME NEW s, NEW k \in Nat, k > 0
  PROVE  /\ Depth(s, k) \in Int /\ Depth(s, k + 1) \in Int
         /\ s[k] = "(" => Depth(s, k + 1) = Depth(s, k) + 1
         /\ s[k] = ")" => Depth(s, k + 1) = Depth(s, k) - 1
         /\ s[k] \in Operators \cup Numbers => Depth(s, k + 1) = Depth(s, k)
<1>1. /\ Parens(s, "(", k) \in Nat
      /\ Parens(s, "(", k + 1) = Parens(s, "(", k) + (IF s[k] = "(" THEN 1 ELSE 0)
  BY ParensStep
<1>2. /\ Parens(s, ")", k) \in Nat
      /\ Parens(s, ")", k + 1) = Parens(s, ")", k) + (IF s[k] = ")" THEN 1 ELSE 0)
  BY ParensStep
<1>3. /\ Depth(s, k) = Parens(s, "(", k) - Parens(s, ")", k)
      /\ Depth(s, k + 1) = Parens(s, "(", k + 1) - Parens(s, ")", k + 1)
  BY Zenon DEF Depth, Parens
<1>4. s[k] \in Operators \cup Numbers => s[k] # "(" /\ s[k] # ")"
  <2>1. "(" \notin Numbers /\ ")" \notin Numbers
    BY LiteralAssumption
  <2> QED
    BY <2>1 DEF Operators
<1> QED
  BY <1>1, <1>2, <1>3, <1>4

\* A part that can be an operand: its parentheses match, and it ends as an
\* operand does.
Closed(s, i, j) ==
  /\ i < j /\ Depth(s, j) = Depth(s, i)
  /\ \A k \in i..j : Depth(s, k) >= Depth(s, i)
  /\ s[j - 1] \in Numbers \cup {")"}

LEMMA DepthTypes ==
  ASSUME NEW s, NEW k \in Nat, k > 0
  PROVE  Depth(s, k) \in Int
BY DepthStep

\* The operators of s[i .. j-1] between two parts that it splits into.
LEMMA JoinBinary ==
  ASSUME NEW s, NEW ops, NEW i \in Nat, NEW k \in Nat, NEW j \in Nat,
         i > 0, Closed(s, i, k), Closed(s, k + 1, j), s[k] \in Operators
  PROVE  Binary(s, ops, i, j)
           = Binary(s, ops, i, k) \cup Binary(s, ops, k + 1, j)
               \cup (IF s[k] \in ops THEN {k} ELSE {})
<1>1. /\ i < k /\ k + 1 < j /\ Depth(s, k) = Depth(s, i)
      /\ s[k - 1] \in Numbers \cup {")"}
  BY DEF Closed
<1>2. Depth(s, k + 1) = Depth(s, i)
  <2>1. k > 0
    BY <1>1
  <2> QED
    BY <1>1, <2>1, DepthStep
<1>3. s[k] \notin Numbers \cup {")"}
  BY LiteralAssumption DEF Operators
<1>4. ASSUME NEW x \in (i + 1)..(j - 1)
      PROVE  x \in Binary(s, ops, i, j) <=>
               \/ x \in Binary(s, ops, i, k) \/ x \in Binary(s, ops, k + 1, j)
               \/ x = k /\ s[k] \in ops
  <2>1. CASE x \in (i + 1)..(k - 1)
    BY <1>1, <2>1 DEF Binary
  <2>2. CASE x = k
    BY <1>1, <2>2 DEF Binary
  <2>3. CASE x = k + 1
    <3>1. x - 1 = k
      BY <1>1, <2>3
    <3>2. x \notin Binary(s, ops, i, j)
      BY <1>3, <3>1 DEF Binary
    <3> QED
      BY <1>1, <2>3, <3>2 DEF Binary
  <2>4. CASE x \in (k + 2)..(j - 1)
    BY <1>1, <1>2, <2>4 DEF Binary
  <2> QED
    BY <1>1, <2>1, <2>2, <2>3, <2>4
<1>5. /\ Binary(s, ops, i, j) \subseteq (i + 1)..(j - 1)
      /\ Binary(s, ops, i, k) \subseteq (i + 1)..(j - 1)
      /\ Binary(s, ops, k + 1, j) \subseteq (i + 1)..(j - 1)
      /\ k \in (i + 1)..(j - 1)
  BY <1>1 DEF Binary
<1> QED
  BY <1>4, <1>5

LEMMA JoinClosed ==
  ASSUME NEW s, NEW i \in Nat, NEW k \in Nat, NEW j \in Nat,
         i > 0, Closed(s, i, k), Closed(s, k + 1, j), s[k] \in Operators
  PROVE  Closed(s, i, j)
<1>1. /\ i < k /\ k + 1 < j /\ Depth(s, k) = Depth(s, i) /\ k > 0
      /\ Depth(s, j) = Depth(s, k + 1) /\ s[j - 1] \in Numbers \cup {")"}
  BY DEF Closed
<1>2. Depth(s, k + 1) = Depth(s, i)
  BY <1>1, DepthStep
<1>3. ASSUME NEW x \in i..j PROVE Depth(s, x) >= Depth(s, i)
  <2>1. CASE x \in i..k
    BY <2>1 DEF Closed
  <2>2. CASE x \in (k + 1)..j
    BY <1>2, <2>2 DEF Closed
  <2> QED
    BY <1>1, <2>1, <2>2
<1>4. i < j /\ Depth(s, j) = Depth(s, i)
  BY <1>1, <1>2
<1> QED
  BY <1>1, <1>3, <1>4 DEF Closed

LEMMA SignBinary ==
  ASSUME NEW s, NEW ops, NEW i \in Nat, NEW j \in Nat, i > 0, s[i] \in Operators
  PROVE  Binary(s, ops, i + 1, j) = Binary(s, ops, i, j)
<1>1. Depth(s, i + 1) = Depth(s, i)
  BY DepthStep
<1>2. s[i] \notin Numbers \cup {")"}
  BY LiteralAssumption DEF Operators
<1>3. ASSUME NEW x \in (i + 1)..(j - 1)
      PROVE  x \in Binary(s, ops, i, j) <=> x \in Binary(s, ops, i + 1, j)
  <2>1. CASE x = i + 1
    <3>1. x - 1 = i /\ ~(x \in (i + 1 + 1)..(j - 1))
      BY <2>1
    <3> QED
      BY <1>2, <3>1 DEF Binary
  <2>2. CASE x # i + 1
    <3>1. x \in (i + 1 + 1)..(j - 1)
      BY <2>2
    <3> QED
      BY <1>1, <3>1 DEF Binary
  <2> QED
    BY <2>1, <2>2
<1>4. /\ Binary(s, ops, i, j) \subseteq (i + 1)..(j - 1)
      /\ Binary(s, ops, i + 1, j) \subseteq (i + 1)..(j - 1)
  BY DEF Binary
<1> QED
  BY <1>3, <1>4

LEMMA SignClosed ==
  ASSUME NEW s, NEW i \in Nat, NEW j \in Nat, i > 0, s[i] \in Operators, Closed(s, i + 1, j)
  PROVE  Closed(s, i, j)
<1>1. Depth(s, i + 1) = Depth(s, i) /\ Depth(s, i) \in Int
  BY DepthStep
<1>2. ASSUME NEW x \in i..j PROVE Depth(s, x) >= Depth(s, i)
  <2>1. CASE x = i
    BY <1>1, <2>1
  <2>2. CASE x \in (i + 1)..j
    BY <1>1, <2>2 DEF Closed
  <2> QED
    BY <2>1, <2>2
<1> QED
  BY <1>1, <1>2 DEF Closed

\* An expression in parentheses.
LEMMA ParenClosed ==
  ASSUME NEW s, NEW ops, NEW i \in Nat, NEW j \in Nat, i > 0,
         s[i] = "(", s[j] = ")", Closed(s, i + 1, j)
  PROVE  Closed(s, i, j + 1) /\ Binary(s, ops, i, j + 1) = {}
<1>1. /\ Depth(s, i + 1) = Depth(s, i) + 1 /\ Depth(s, i) \in Int
  BY DepthStep
<1>2. i + 1 < j /\ Depth(s, j) = Depth(s, i + 1) /\ j > 0
  BY DEF Closed
<1>3. Depth(s, j + 1) = Depth(s, j) - 1 /\ Depth(s, j) \in Int
  BY <1>2, DepthStep
<1>4. Depth(s, j + 1) = Depth(s, i)
  BY <1>1, <1>2, <1>3
<1>5. ASSUME NEW x \in (i + 1)..j PROVE Depth(s, x) > Depth(s, i)
  <2>1. Depth(s, x) >= Depth(s, i + 1)
    BY DEF Closed
  <2>2. x \in Nat /\ x > 0
    OBVIOUS
  <2>3. Depth(s, x) \in Int
    BY <2>2, DepthStep
  <2> QED
    BY <1>1, <2>1, <2>3
<1>6. ASSUME NEW x \in i..(j + 1) PROVE Depth(s, x) >= Depth(s, i)
  <2>1. CASE x = i
    BY <1>1, <2>1
  <2>2. CASE x \in (i + 1)..j
    <3>1. Depth(s, x) > Depth(s, i) /\ x \in Nat /\ x > 0
      BY <1>5, <2>2
    <3>2. Depth(s, x) \in Int
      BY <3>1, DepthStep
    <3> QED
      BY <1>1, <3>1, <3>2
  <2>3. CASE x = j + 1
    BY <1>1, <1>4, <2>3
  <2> QED
    BY <1>2, <2>1, <2>2, <2>3
<1>7. Closed(s, i, j + 1)
  <2>1. (j + 1) - 1 = j /\ i < j + 1
    BY <1>2
  <2>2. s[(j + 1) - 1] \in Numbers \cup {")"}
    BY <2>1
  <2> QED
    BY <1>4, <1>6, <2>1, <2>2 DEF Closed
<1>8. ASSUME NEW x \in Binary(s, ops, i, j + 1) PROVE FALSE
  <2>1. x \in (i + 1)..j /\ Depth(s, x) = Depth(s, i)
    BY <1>8 DEF Binary
  <2> QED
    BY <1>1, <1>5, <2>1
<1> QED
  BY <1>7, <1>8

LEMMA NumberClosed ==
  ASSUME NEW s, NEW ops, NEW i \in Nat, i > 0, s[i] \in Numbers
  PROVE  Closed(s, i, i + 1) /\ Binary(s, ops, i, i + 1) = {}
<1>1. Depth(s, i + 1) = Depth(s, i) /\ Depth(s, i) \in Int
  BY DepthStep
<1>2. ASSUME NEW x \in i..(i + 1) PROVE Depth(s, x) >= Depth(s, i)
  <2>1. x = i \/ x = i + 1
    OBVIOUS
  <2> QED
    BY <1>1, <2>1
<1>3. (i + 1) - 1 = i /\ i < i + 1 /\ (i + 1)..((i + 1) - 1) = {}
  OBVIOUS
<1>4. s[(i + 1) - 1] \in Numbers \cup {")"}
  BY <1>3
<1>5. Closed(s, i, i + 1)
  BY <1>1, <1>2, <1>3, <1>4 DEF Closed
<1>6. Binary(s, ops, i, i + 1) = {}
  BY <1>3 DEF Binary
<1> QED
  BY <1>5, <1>6

\* The parts beside an operator have the binary operators on its sides.
Splits(s, i, k, j) ==
  \A ops : /\ Binary(s, ops, i, k) = {x \in Binary(s, ops, i, j) : x < k}
            /\ Binary(s, ops, k + 1, j) = {x \in Binary(s, ops, i, j) : x > k}

LEMMA SplitBinary ==
  ASSUME NEW s, NEW others, NEW i \in Nat, NEW j \in Nat, i > 0,
         NEW k, k \in Binary(s, others, i, j), s[k] \in Operators
  PROVE  Splits(s, i, k, j)
<1> SUFFICES ASSUME NEW ops
             PROVE  /\ Binary(s, ops, i, k) = {x \in Binary(s, ops, i, j) : x < k}
                    /\ Binary(s, ops, k + 1, j) = {x \in Binary(s, ops, i, j) : x > k}
  BY Zenon DEF Splits
<1>1. k \in (i + 1)..(j - 1) /\ Depth(s, k) = Depth(s, i)
  BY DEF Binary
<1>2. k \in Nat /\ i < k /\ k < j
  BY <1>1
<1>3. Depth(s, k + 1) = Depth(s, i)
  BY <1>1, <1>2, DepthStep
<1>4. s[k] \notin Numbers \cup {")"}
  BY LiteralAssumption DEF Operators
<1>5. Binary(s, ops, i, k) = {x \in Binary(s, ops, i, j) : x < k}
  BY <1>2 DEF Binary
<1>6. ASSUME NEW x \in (i + 1)..(j - 1)
      PROVE  x \in Binary(s, ops, k + 1, j) <=> x \in Binary(s, ops, i, j) /\ x > k
  <2>1. CASE x = k + 1
    <3>1. x - 1 = k /\ ~(x \in (k + 1 + 1)..(j - 1))
      BY <1>2, <2>1
    <3> QED
      BY <1>4, <3>1 DEF Binary
  <2>2. CASE x > k + 1
    <3>1. x \in (k + 1 + 1)..(j - 1) /\ x > k
      BY <1>2, <2>2
    <3> QED
      BY <1>3, <3>1 DEF Binary
  <2>3. CASE x <= k
    <3>1. ~(x \in (k + 1 + 1)..(j - 1)) /\ ~(x > k)
      BY <1>2, <2>3
    <3> QED
      BY <3>1 DEF Binary
  <2> QED
    BY <1>2, <2>1, <2>2, <2>3
<1>7. /\ Binary(s, ops, k + 1, j) \subseteq (i + 1)..(j - 1)
      /\ Binary(s, ops, i, j) \subseteq (i + 1)..(j - 1)
  BY <1>2 DEF Binary
<1>8. Binary(s, ops, k + 1, j) = {x \in Binary(s, ops, i, j) : x > k}
  BY <1>6, <1>7
<1> QED
  BY <1>5, <1>8, Zenon

----------------------------------------------------------------------------
(* What the parser returns, the reference reads as well.                   *)

\* The binary operators that the result of a rule has only in parentheses.
Weaker == [primary |-> Operators, unary |-> Operators, factor |-> {"+", "-", "*", "/", "%"},
           term |-> {"+", "-"}, expr |-> {}]

\* s[i .. j-1] is what the rule is about, and v its meaning.
ReadsAs(m, s, rule, i, v, j) ==
  /\ i \in 1..(Len(s) + 1) /\ j \in 1..(Len(s) + 1)
  /\ Closed(s, i, j) /\ Binary(s, Weaker[rule], i, j) = {}
  /\ v \in m[<<i, j>>]

LEMMA BinaryFewer ==
  ASSUME NEW s, NEW ops, NEW more, ops \subseteq more, NEW i, NEW j, Binary(s, more, i, j) = {}
  PROVE  Binary(s, ops, i, j) = {}
BY DEF Binary

LEMMA ReadsAbove ==
  ASSUME NEW m, NEW s, NEW i, NEW j, NEW v, NEW rule \in Rules, NEW below \in Rules,
         RuleRank[below] < RuleRank[rule], ReadsAs(m, s, below, i, v, j)
  PROVE  ReadsAs(m, s, rule, i, v, j)
<1>1. Weaker[rule] \subseteq Weaker[below]
  BY DEF Rules, RuleRank, Weaker, Operators
<1>2. Binary(s, Weaker[rule], i, j) = {}
  BY <1>1, BinaryFewer DEF ReadsAs
<1> QED
  BY <1>2, Zenon DEF ReadsAs

\* The clauses of Reading, of the meanings themselves.
LEMMA MeaningClauses ==
  ASSUME NEW s, Len(s) \in Nat, NEW m, IsMeaning(m, s),
         NEW i \in 1..(Len(s) + 1), NEW j \in 1..(Len(s) + 1), i < j
  PROVE  /\ Sums(s, i, j) # {} => m[<<i, j>>] = Applied(m, s, i, Max(Sums(s, i, j)), j)
         /\ Sums(s, i, j) = {} /\ Products(s, i, j) # {} =>
              m[<<i, j>>] = Applied(m, s, i, Max(Products(s, i, j)), j)
         /\ (Sums(s, i, j) = {} /\ Products(s, i, j) = {} /\ Powers(s, i, j) # {}) =>
              m[<<i, j>>] = Applied(m, s, i, Min(Powers(s, i, j)), j)
         /\ (Sums(s, i, j) = {} /\ Products(s, i, j) = {} /\ Powers(s, i, j) = {}) =>
              m[<<i, j>>] = Operand(m, s, i, j)
<1>1. m[<<i, j>>] = Reading(m, s, i, j)
  BY Zenon DEF IsMeaning
<1>2. i \in Nat /\ j \in Nat
  OBVIOUS
<1>3. Clauses(m, s, i, j)
  BY <1>2, ReadingClauses, Zenon
<1> DEFINE S == Sums(s, i, j)
           P == Products(s, i, j)
           W == Powers(s, i, j)
<1> HIDE DEF S, P, W
<1>4. /\ S \cup P = {} <=> S = {} /\ P = {}
      /\ S \cup P \cup W = {} <=> S = {} /\ P = {} /\ W = {}
  OBVIOUS
<1> QED
  BY <1>1, <1>3, <1>4, Zenon DEF Clauses, S, P, W

LEMMA IsApplied ==
  ASSUME NEW m, NEW s, NEW i, NEW k, NEW j, NEW l \in m[<<i, k>>], NEW r \in m[<<k + 1, j>>],
         NEW v \in Results(s[k], l, r)
  PROVE  v \in Applied(m, s, i, k, j)
<1> DEFINE L == m[<<i, k>>]
           R == m[<<k + 1, j>>]
           op == s[k]
           Row(p) == UNION {Results(op, p, q) : q \in R}
<1>1. Applied(m, s, i, k, j) = UNION {Row(p) : p \in L}
  BY AppliedIs, Zenon
<1>2. l \in L /\ r \in R /\ v \in Results(op, l, r)
  OBVIOUS
<1> HIDE DEF L, R, op
<1>3. v \in Row(l)
  BY <1>2
<1> HIDE DEF Row
<1> QED
  BY <1>1, <1>2, <1>3

LEMMA ReadsJoin ==
  ASSUME NEW s, Len(s) \in Nat, NEW m, NEW left, NEW right, NEW i, NEW a, NEW k, NEW b, NEW j,
         ReadsAs(m, s, left, i, a, k), ReadsAs(m, s, right, k + 1, b, j), s[k] \in Operators
  PROVE  /\ i \in Nat /\ k \in Nat /\ j \in Nat /\ i > 0 /\ i < k /\ k + 1 < j /\ i < j
         /\ Closed(s, i, j)
         /\ \A ops : Binary(s, ops, i, j) = Binary(s, ops, i, k) \cup Binary(s, ops, k + 1, j)
                                               \cup (IF s[k] \in ops THEN {k} ELSE {})
<1>1. /\ i \in 1..(Len(s) + 1) /\ k \in 1..(Len(s) + 1) /\ j \in 1..(Len(s) + 1)
      /\ Closed(s, i, k) /\ Closed(s, k + 1, j)
  BY DEF ReadsAs
<1>2. i \in Nat /\ k \in Nat /\ j \in Nat /\ i > 0 /\ i < k /\ k + 1 < j /\ i < j
  BY <1>1 DEF Closed
<1>3. Closed(s, i, j)
  BY <1>1, <1>2, JoinClosed
<1>4. \A ops : Binary(s, ops, i, j) = Binary(s, ops, i, k) \cup Binary(s, ops, k + 1, j)
                                        \cup (IF s[k] \in ops THEN {k} ELSE {})
  BY <1>1, <1>2, JoinBinary
<1> QED
  BY <1>2, <1>3, <1>4

\* An operator of a loop, its operands on both sides.
LEMMA LoopReads ==
  ASSUME NEW s, Len(s) \in Nat, NEW m, IsMeaning(m, s), NEW rule \in Chained,
         NEW o, NEW a, NEW k, ReadsAs(m, s, rule, o, a, k), s[k] \in Loop[rule],
         NEW b, NEW j, ReadsAs(m, s, Below[rule], k + 1, b, j),
         NEW v \in Results(s[k], a, b)
  PROVE  ReadsAs(m, s, rule, o, v, j)
<1>1. /\ o \in 1..(Len(s) + 1) /\ k \in 1..(Len(s) + 1) /\ j \in 1..(Len(s) + 1)
      /\ Closed(s, o, k) /\ Closed(s, k + 1, j)
      /\ a \in m[<<o, k>>] /\ b \in m[<<k + 1, j>>]
      /\ Binary(s, Weaker[rule], o, k) = {} /\ Binary(s, Weaker[Below[rule]], k + 1, j) = {}
  BY DEF ReadsAs
<1>2. s[k] \in Operators
  BY DEF Chained, Loop, Operators
<1>3. /\ o \in Nat /\ k \in Nat /\ j \in Nat /\ o > 0 /\ o < k /\ k + 1 < j /\ o < j
      /\ Closed(s, o, j)
  BY <1>2, ReadsJoin
<1>4. k \in 1..j /\ k > 0 /\ k \in 1..k
  BY <1>3
<1>5. \A ops : Binary(s, ops, o, j) = Binary(s, ops, o, k) \cup Binary(s, ops, k + 1, j)
                                        \cup (IF s[k] \in ops THEN {k} ELSE {})
  BY <1>2, ReadsJoin
<1>6. v \in Applied(m, s, o, k, j)
  BY <1>1, IsApplied
<1>7. \A ops : Binary(s, ops, o, k) \subseteq 1..k
  BY <1>3 DEF Binary
<1>8. CASE rule = "expr"
  <2>1. /\ Binary(s, {"+", "-"}, k + 1, j) = {} /\ s[k] \in {"+", "-"}
        /\ Weaker[rule] = {}
    BY <1>1, <1>8 DEF Weaker, Below, Loop
  <2>2. Sums(s, o, j) \subseteq 1..k /\ k \in Sums(s, o, j)
    BY <1>3, <1>4, <1>5, <1>7, <2>1 DEF Sums
  <2>3. Max(Sums(s, o, j)) = k
    BY <1>3, <2>2, GreatestOf
  <2>4. m[<<o, j>>] = Applied(m, s, o, k, j)
    <3>1. Sums(s, o, j) # {}
      BY <2>2
    <3> QED
      BY <1>1, <1>3, <2>3, <3>1, MeaningClauses
  <2>5. Binary(s, Weaker[rule], o, j) = {}
    BY <2>1 DEF Binary
  <2> QED
    BY <1>1, <1>3, <1>6, <2>4, <2>5 DEF ReadsAs
<1>9. CASE rule = "term"
  <2>1. /\ Binary(s, {"+", "-"}, o, k) = {}
        /\ Binary(s, {"+", "-", "*", "/", "%"}, k + 1, j) = {} /\ s[k] \in {"*", "/", "%"}
        /\ Weaker[rule] = {"+", "-"}
    BY <1>1, <1>9 DEF Weaker, Below, Loop
  <2>2. Binary(s, {"+", "-"}, k + 1, j) = {} /\ Binary(s, {"*", "/", "%"}, k + 1, j) = {}
    BY <2>1, BinaryFewer
  <2>3. s[k] \notin {"+", "-"}
    BY <2>1
  <2>4. Sums(s, o, j) = {}
    BY <1>5, <2>1, <2>2, <2>3 DEF Sums
  <2>5. Products(s, o, j) \subseteq 1..k /\ k \in Products(s, o, j)
    BY <1>3, <1>4, <1>5, <1>7, <2>1, <2>2 DEF Products
  <2>6. Max(Products(s, o, j)) = k
    BY <1>3, <2>5, GreatestOf
  <2>7. m[<<o, j>>] = Applied(m, s, o, k, j)
    <3>1. Products(s, o, j) # {}
      BY <2>5
    <3> QED
      BY <1>1, <1>3, <2>4, <2>6, <3>1, MeaningClauses
  <2>8. Binary(s, Weaker[rule], o, j) = {}
    BY <2>1, <2>4 DEF Sums
  <2> QED
    BY <1>1, <1>3, <1>6, <2>7, <2>8 DEF ReadsAs
<1> QED
  BY <1>8, <1>9 DEF Chained

LEMMA LeastOf ==
  ASSUME NEW S, S \subseteq Nat, NEW n \in S, \A x \in S : n <= x
  PROVE  Min(S) = n
<1>1. Min(S) \in S /\ \A y \in S : Min(S) <= y
  BY HasLeast
<1>2. n <= Min(S) /\ Min(S) <= n
  BY <1>1
<1>3. Min(S) \in Nat /\ n \in Nat
  BY <1>1
<1> QED
  BY <1>2, <1>3

\* A power, its base an operand and its exponent a factor.
LEMMA PowerReads ==
  ASSUME NEW s, Len(s) \in Nat, NEW m, IsMeaning(m, s),
         NEW i, NEW a, NEW k, ReadsAs(m, s, "unary", i, a, k), s[k] = "^",
         NEW b, NEW j, ReadsAs(m, s, "factor", k + 1, b, j),
         NEW v \in Results("^", a, b)
  PROVE  ReadsAs(m, s, "factor", i, v, j)
<1>1. /\ i \in 1..(Len(s) + 1) /\ k \in 1..(Len(s) + 1) /\ j \in 1..(Len(s) + 1)
      /\ Closed(s, i, k) /\ Closed(s, k + 1, j)
      /\ a \in m[<<i, k>>] /\ b \in m[<<k + 1, j>>]
      /\ Binary(s, Operators, i, k) = {} /\ Binary(s, {"+", "-", "*", "/", "%"}, k + 1, j) = {}
  BY DEF ReadsAs, Weaker
<1>2. /\ s[k] \in Operators /\ s[k] \notin {"+", "-", "*", "/", "%"}
      /\ {"+", "-", "*", "/", "%"} \subseteq Operators /\ {"^"} \subseteq Operators
  BY DEF Operators
<1>3. /\ i \in Nat /\ k \in Nat /\ j \in Nat /\ i > 0 /\ i < k /\ k + 1 < j /\ i < j
      /\ Closed(s, i, j)
  BY <1>2, ReadsJoin
<1>5. \A ops : Binary(s, ops, i, j) = Binary(s, ops, i, k) \cup Binary(s, ops, k + 1, j)
                                        \cup (IF s[k] \in ops THEN {k} ELSE {})
  BY <1>2, ReadsJoin
<1>6. v \in Applied(m, s, i, k, j)
  BY <1>1, IsApplied
<1>7. /\ Binary(s, {"+", "-", "*", "/", "%"}, i, k) = {} /\ Binary(s, {"^"}, i, k) = {}
  BY <1>1, <1>2, BinaryFewer
<1>8. Binary(s, {"+", "-", "*", "/", "%"}, i, j) = {}
  BY <1>1, <1>2, <1>5, <1>7
<1>9. Sums(s, i, j) = {} /\ Products(s, i, j) = {}
  BY <1>8, BinaryFewer DEF Sums, Products
<1>10. Powers(s, i, j) = Binary(s, {"^"}, k + 1, j) \cup {k}
  BY <1>5, <1>7 DEF Powers
<1>11. Min(Powers(s, i, j)) = k /\ Powers(s, i, j) # {}
  <2>1. Binary(s, {"^"}, k + 1, j) \subseteq {x \in Nat : x > k}
    BY <1>3 DEF Binary
  <2>2. Powers(s, i, j) \subseteq Nat /\ k \in Powers(s, i, j) /\ \A x \in Powers(s, i, j) : k <= x
    BY <1>3, <1>10, <2>1
  <2>3. Min(Powers(s, i, j)) = k
    BY <2>2, LeastOf
  <2> QED
    BY <2>2, <2>3
<1>12. m[<<i, j>>] = Applied(m, s, i, k, j)
  BY <1>1, <1>3, <1>9, <1>11, MeaningClauses
<1> QED
  BY <1>1, <1>3, <1>6, <1>8, <1>12 DEF ReadsAs, Weaker

LEMMA OperandReads ==
  ASSUME NEW s, Len(s) \in Nat, NEW m, IsMeaning(m, s),
         NEW i \in 1..(Len(s) + 1), NEW j \in 1..(Len(s) + 1), i < j,
         Binary(s, Operators, i, j) = {}
  PROVE  m[<<i, j>>] = Operand(m, s, i, j)
<1>1. /\ {"+", "-"} \subseteq Operators /\ {"*", "/", "%"} \subseteq Operators
      /\ {"^"} \subseteq Operators
  BY DEF Operators
<1>2. Sums(s, i, j) = {} /\ Products(s, i, j) = {} /\ Powers(s, i, j) = {}
  BY <1>1, BinaryFewer DEF Sums, Products, Powers
<1> QED
  BY <1>2, MeaningClauses

LEMMA SignReads ==
  ASSUME NEW s, Len(s) \in Nat, NEW m, IsMeaning(m, s),
         NEW i \in 1..(Len(s) + 1), s[i] \in {"+", "-"},
         NEW a, NEW j, ReadsAs(m, s, "unary", i + 1, a, j)
  PROVE  ReadsAs(m, s, "unary", i, IF s[i] = "-" THEN Negated[a] ELSE a, j)
<1>1. /\ j \in 1..(Len(s) + 1) /\ Closed(s, i + 1, j) /\ Binary(s, Operators, i + 1, j) = {}
      /\ a \in m[<<i + 1, j>>]
  BY DEF ReadsAs, Weaker
<1>2. s[i] \in Operators /\ "+" # "-" /\ s[i] \notin Numbers /\ s[i] # "("
  BY LiteralAssumption DEF Operators
<1>3. i \in Nat /\ j \in Nat /\ i > 0 /\ i < j
  BY <1>1 DEF Closed
<1>4. Closed(s, i, j) /\ Binary(s, Operators, i, j) = {}
  BY <1>1, <1>2, <1>3, SignClosed, SignBinary
<1>5. m[<<i, j>>] = Operand(m, s, i, j)
  BY <1>1, <1>3, <1>4, OperandReads
<1>6. CASE s[i] = "-"
  <2>1. Operand(m, s, i, j) = {Negated[v] : v \in m[<<i + 1, j>>]}
    BY <1>2, <1>6, Zenon DEF Operand
  <2>2. Negated[a] \in m[<<i, j>>]
    BY <1>1, <1>5, <2>1, Zenon
  <2> QED
    BY <1>1, <1>4, <1>6, <2>2 DEF ReadsAs, Weaker
<1>7. CASE s[i] = "+"
  <2>1. Operand(m, s, i, j) = m[<<i + 1, j>>]
    BY <1>2, <1>7, Zenon DEF Operand
  <2>2. a \in m[<<i, j>>]
    BY <1>1, <1>5, <2>1, Zenon
  <2> QED
    BY <1>1, <1>2, <1>4, <1>7, <2>2 DEF ReadsAs, Weaker
<1> QED
  BY <1>6, <1>7

LEMMA ParenReads ==
  ASSUME NEW s, Len(s) \in Nat, NEW m, IsMeaning(m, s),
         NEW i \in 1..(Len(s) + 1), s[i] = "(",
         NEW a, NEW j, ReadsAs(m, s, "expr", i + 1, a, j), s[j] = ")", j + 1 \in 1..(Len(s) + 1)
  PROVE  ReadsAs(m, s, "primary", i, a, j + 1)
<1>1. j \in 1..(Len(s) + 1) /\ Closed(s, i + 1, j) /\ a \in m[<<i + 1, j>>]
  BY DEF ReadsAs
<1>2. i \in Nat /\ j \in Nat /\ i > 0 /\ i < j + 1 /\ (j + 1) - 1 = j
  BY <1>1 DEF Closed
<1>3. Closed(s, i, j + 1) /\ Binary(s, Operators, i, j + 1) = {}
  BY <1>1, <1>2, ParenClosed
<1>4. m[<<i, j + 1>>] = Operand(m, s, i, j + 1)
  BY <1>2, <1>3, OperandReads
<1>5. s[i] \notin Numbers /\ s[i] # "-" /\ s[i] # "+"
  BY LiteralAssumption
<1>6. Operand(m, s, i, j + 1) = m[<<i + 1, j>>]
  <2>1. Operand(m, s, i, j + 1) = m[<<i + 1, (j + 1) - 1>>]
    <3>1. s[(j + 1) - 1] = ")"
      BY <1>2
    <3> QED
      BY <1>5, <3>1, Zenon DEF Operand
  <2> QED
    BY <1>2, <2>1
<1>7. a \in m[<<i, j + 1>>]
  BY <1>1, <1>4, <1>6, Zenon
<1> QED
  BY <1>3, <1>7 DEF ReadsAs, Weaker

LEMMA NumberReads ==
  ASSUME NEW s, Len(s) \in Nat, NEW m, IsMeaning(m, s),
         NEW i \in 1..(Len(s) + 1), s[i] \in Numbers, i + 1 \in 1..(Len(s) + 1)
  PROVE  ReadsAs(m, s, "primary", i, Literal[s[i]], i + 1)
<1>1. i \in Nat /\ i > 0 /\ i < i + 1
  OBVIOUS
<1>2. Closed(s, i, i + 1) /\ Binary(s, Operators, i, i + 1) = {}
  BY <1>1, NumberClosed
<1>3. m[<<i, i + 1>>] = Operand(m, s, i, i + 1)
  BY <1>1, <1>2, OperandReads
<1>4. s[i] # "-" /\ s[i] # "+" /\ s[i] # "("
  BY LiteralAssumption DEF Operators
<1>5. Operand(m, s, i, i + 1) = {Literal[s[i]]}
  BY <1>4, Zenon DEF Operand
<1>6. Literal[s[i]] \in m[<<i, i + 1>>]
  BY <1>3, <1>5, Zenon
<1> QED
  BY <1>2, <1>6 DEF ReadsAs, Weaker

\* What the calls before a stage return, the reference reads as their rules
\* say; the loops return what they have reached, and what they add to it.
Level(s, rule, i) == 5 * (Len(s) + 1 - i) + RuleRank[rule]

Sound(f, m, s, q) ==
  /\ \A rule \in Rules, i \in 1..(Len(s) + 1) :
       Level(s, rule, i) < q => \A t \in f[<<rule, i, {}>>] : ReadsAs(m, s, rule, i, t.v, t.i)
  /\ \A rule \in Chained, o, i \in 1..(Len(s) + 1), v \in Value :
       Level(s, rule, i) < q /\ ReadsAs(m, s, rule, o, v, i)
         => \A t \in f[<<rule, i, {v}>>] : ReadsAs(m, s, rule, o, t.v, t.i)

LEMMA Levels ==
  ASSUME NEW s, Len(s) \in Nat, NEW rule \in Rules, NEW i \in 1..(Len(s) + 1),
         NEW other \in Rules, NEW j \in 1..(Len(s) + 1)
  PROVE  /\ Level(s, rule, i) \in 1..(5 * (Len(s) + 2))
         /\ j > i \/ (j = i /\ RuleRank[other] < RuleRank[rule])
              => Level(s, other, j) < Level(s, rule, i)
<1> DEFINE a == RuleRank[rule]
           b == RuleRank[other]
<1>1. a \in 1..5 /\ b \in 1..5
  BY DEF Rules, RuleRank
<1>2. Level(s, rule, i) = 5 * (Len(s) + 1 - i) + a /\ Level(s, other, j) = 5 * (Len(s) + 1 - j) + b
  BY DEF Level
<1> HIDE DEF a, b
<1>3. Level(s, rule, i) \in 1..(5 * (Len(s) + 2))
  BY <1>1, <1>2
<1>4. j > i => Level(s, other, j) < Level(s, rule, i)
  BY <1>1, <1>2
<1>5. j = i /\ b < a => Level(s, other, j) < Level(s, rule, i)
  BY <1>1, <1>2
<1> QED
  BY <1>3, <1>4, <1>5 DEF a, b

\* What the parser's calls return.
LEMMA ParserOutcomes ==
  ASSUME NEW s, Len(s) \in Nat, NEW f, IsParser(f, s), NEW rule \in Rules,
         NEW i \in 1..(Len(s) + 1), NEW acc \in SUBSET Value, NEW t \in f[<<rule, i, acc>>]
  PROVE  /\ t \in Outcomes(s, <<rule, i, acc>>) /\ t \in Returns(f, s, rule, i, acc)
         /\ t.v \in Value /\ t.i \in 1..(Len(s) + 1) /\ i <= t.i
         /\ t.i > i \/ (rule \in Chained /\ acc # {})
<1>1. <<rule, i, acc>> \in Calls(s)
  BY CallStage
<1>2. t \in Outcomes(s, <<rule, i, acc>>) /\ t \in Returns(f, s, rule, i, acc)
  BY <1>1 DEF IsParser
<1> QED
  BY <1>2, OutcomeFields

LEMMA ReturnsCases ==
  ASSUME NEW f, NEW s, NEW i, NEW acc
  PROVE  /\ Returns(f, s, "factor", i, acc) = Factor(f, s, i)
         /\ Returns(f, s, "unary", i, acc) = Unary(f, s, i)
         /\ Returns(f, s, "primary", i, acc) = Primary(f, s, i)
         /\ \A rule \in Chained : Returns(f, s, rule, i, acc) = Chain(f, s, rule, i, acc)
BY DEF Returns, Chained

LEMMA PrimarySound ==
  ASSUME NEW s, Len(s) \in Nat, NEW f, IsParser(f, s), NEW m, IsMeaning(m, s),
         NEW i \in 1..(Len(s) + 1), Sound(f, m, s, Level(s, "primary", i)),
         NEW t \in f[<<"primary", i, {}>>]
  PROVE  ReadsAs(m, s, "primary", i, t.v, t.i)
<1>0. {} \in SUBSET Value /\ "primary" \in Rules /\ "expr" \in Rules
  BY DEF Rules
<1>1. t \in Primary(f, s, i)
  BY <1>0, ParserOutcomes, ReturnsCases
<1>2. CASE At(s, i) = "("
  <2>1. i + 1 \in 1..(Len(s) + 1) /\ i + 1 > i /\ s[i] = "("
    BY <1>2, AtWithin
  <2>2. At(s, i) \notin Numbers
    BY <1>2, LiteralAssumption
  <2>3. PICK e \in f[<<"expr", i + 1, {}>>] : At(s, e.i) = ")" /\ t = [e EXCEPT !.i = @ + 1]
    BY <1>1, <1>2, <2>2, Zenon DEF Primary
  <2>4. e \in Outcomes(s, <<"expr", i + 1, {}>>) /\ e.i \in 1..(Len(s) + 1)
    BY <1>0, <2>1, ParserOutcomes
  <2>5. t.v = e.v /\ t.i = e.i + 1
    <3>1. e \in [v : Value, i : (i + 1)..(Len(s) + 1)]
      BY <2>4 DEF Outcomes
    <3> QED
      BY <2>3, <3>1
  <2>6. e.i + 1 \in 1..(Len(s) + 1) /\ s[e.i] = ")"
    BY <2>3, <2>4, AtWithin
  <2>7. ReadsAs(m, s, "expr", i + 1, e.v, e.i)
    <3>1. Level(s, "expr", i + 1) < Level(s, "primary", i)
      BY <1>0, <2>1, Levels
    <3> QED
      BY <1>0, <2>1, <3>1, Zenon DEF Sound
  <2>8. ReadsAs(m, s, "primary", i, e.v, e.i + 1)
    BY <2>1, <2>6, <2>7, ParenReads
  <2> QED
    BY <2>5, <2>8
<1>3. CASE At(s, i) # "(" /\ At(s, i) \in Numbers
  <2>1. i + 1 \in 1..(Len(s) + 1) /\ At(s, i) = s[i]
    BY <1>3, AtWithin
  <2>2. t = [v |-> Literal[s[i]], i |-> i + 1]
    BY <1>1, <1>3, Zenon DEF Primary
  <2>3. t.v = Literal[s[i]] /\ t.i = i + 1
    BY <2>2
  <2>4. ReadsAs(m, s, "primary", i, Literal[s[i]], i + 1)
    BY <1>3, <2>1, NumberReads
  <2> QED
    BY <2>3, <2>4
<1>4. CASE At(s, i) # "(" /\ At(s, i) \notin Numbers
  BY <1>1, <1>4, Zenon DEF Primary
<1> QED
  BY <1>2, <1>3, <1>4

LEMMA UnarySound ==
  ASSUME NEW s, Len(s) \in Nat, NEW f, IsParser(f, s), NEW m, IsMeaning(m, s),
         NEW i \in 1..(Len(s) + 1), Sound(f, m, s, Level(s, "unary", i)),
         NEW t \in f[<<"unary", i, {}>>]
  PROVE  ReadsAs(m, s, "unary", i, t.v, t.i)
<1>0. /\ {} \in SUBSET Value /\ "primary" \in Rules /\ "unary" \in Rules
      /\ RuleRank["primary"] < RuleRank["unary"]
  BY DEF Rules, RuleRank
<1>1. t \in Unary(f, s, i)
  BY <1>0, ParserOutcomes, ReturnsCases
<1>2. ASSUME At(s, i) \in {"+", "-"}
      PROVE  /\ i + 1 \in 1..(Len(s) + 1) /\ At(s, i) = s[i]
             /\ \A u \in f[<<"unary", i + 1, {}>>] : ReadsAs(m, s, "unary", i + 1, u.v, u.i)
  <2>1. i + 1 \in 1..(Len(s) + 1) /\ i + 1 > i /\ At(s, i) = s[i]
    BY <1>2, AtWithin DEF Operators
  <2>2. Level(s, "unary", i + 1) < Level(s, "unary", i)
    BY <1>0, <2>1, Levels
  <2> QED
    BY <1>0, <2>1, <2>2, Zenon DEF Sound
<1>3. CASE At(s, i) = "-"
  <2>1. PICK u \in f[<<"unary", i + 1, {}>>] : t = [u EXCEPT !.v = Negated[@]]
    BY <1>1, <1>3, Zenon DEF Unary
  <2>2. i + 1 \in 1..(Len(s) + 1) /\ s[i] = "-" /\ ReadsAs(m, s, "unary", i + 1, u.v, u.i)
    BY <1>2, <1>3, <2>1
  <2>3. t.v = Negated[u.v] /\ t.i = u.i
    <3>1. u \in Outcomes(s, <<"unary", i + 1, {}>>)
      BY <1>0, <2>1, <2>2, ParserOutcomes
    <3>2. u \in [v : Value, i : (i + 1)..(Len(s) + 1)]
      BY <3>1 DEF Outcomes
    <3> QED
      BY <2>1, <3>2
  <2>4. ReadsAs(m, s, "unary", i, IF s[i] = "-" THEN Negated[u.v] ELSE u.v, u.i)
    BY <2>2, SignReads
  <2> QED
    BY <2>2, <2>3, <2>4
<1>4. CASE At(s, i) = "+"
  <2>1. t \in f[<<"unary", i + 1, {}>>]
    BY <1>1, <1>4, Zenon DEF Unary
  <2>2. i + 1 \in 1..(Len(s) + 1) /\ s[i] = "+" /\ ReadsAs(m, s, "unary", i + 1, t.v, t.i)
    BY <1>2, <1>4, <2>1
  <2>3. ReadsAs(m, s, "unary", i, IF s[i] = "-" THEN Negated[t.v] ELSE t.v, t.i)
    BY <2>2, SignReads
  <2> QED
    BY <2>2, <2>3
<1>5. CASE ~(At(s, i) = "-") /\ ~(At(s, i) = "+")
  <2>1. t \in f[<<"primary", i, {}>>]
    BY <1>1, <1>5, Zenon DEF Unary
  <2>2. Level(s, "primary", i) < Level(s, "unary", i)
    BY <1>0, Levels
  <2>3. ReadsAs(m, s, "primary", i, t.v, t.i)
    BY <1>0, <2>1, <2>2, Zenon DEF Sound
  <2> QED
    BY <1>0, <2>3, ReadsAbove
<1> QED
  BY <1>3, <1>4, <1>5

LEMMA FactorSound ==
  ASSUME NEW s, Len(s) \in Nat, NEW f, IsParser(f, s), NEW m, IsMeaning(m, s),
         NEW i \in 1..(Len(s) + 1), Sound(f, m, s, Level(s, "factor", i)),
         NEW t \in f[<<"factor", i, {}>>]
  PROVE  ReadsAs(m, s, "factor", i, t.v, t.i)
<1> DEFINE U == f[<<"unary", i, {}>>]
           P(u) == IF At(s, u.i) # "^" THEN {u}
                   ELSE UNION {{[v |-> r, i |-> e.i] : r \in Results("^", u.v, e.v)}
                               : e \in f[<<"factor", u.i + 1, {}>>]}
<1>0. /\ {} \in SUBSET Value /\ "factor" \in Rules /\ "unary" \in Rules
      /\ RuleRank["unary"] < RuleRank["factor"] /\ "^" \in Operators
  BY DEF Rules, RuleRank, Operators
<1>1. t \in UNION {P(u) : u \in U}
  <2>1. t \in Factor(f, s, i)
    BY <1>0, ParserOutcomes, ReturnsCases
  <2> QED
    BY <2>1, Zenon DEF Factor
<1>2. \A u \in U : ReadsAs(m, s, "unary", i, u.v, u.i)
  <2>1. Level(s, "unary", i) < Level(s, "factor", i)
    BY <1>0, Levels
  <2> QED
    BY <1>0, <2>1, Zenon DEF Sound
<1>3. \A u \in U : u.v \in Value /\ u.i \in 1..(Len(s) + 1) /\ u.i > i
  BY <1>0, ParserOutcomes
<1> HIDE DEF P, U
<1>4. PICK u \in U : t \in P(u)
  BY <1>1
<1>5. CASE At(s, u.i) # "^"
  <2>1. t = u
    BY <1>4, <1>5, Zenon DEF P
  <2>2. ReadsAs(m, s, "unary", i, t.v, t.i)
    BY <1>2, <2>1
  <2> QED
    BY <1>0, <2>2, ReadsAbove
<1>6. CASE At(s, u.i) = "^"
  <2>1. PICK e \in f[<<"factor", u.i + 1, {}>>] : \E r \in Results("^", u.v, e.v) :
          t = [v |-> r, i |-> e.i]
    BY <1>4, <1>6, Zenon DEF P
  <2>2. PICK r \in Results("^", u.v, e.v) : t = [v |-> r, i |-> e.i]
    BY <2>1
  <2>3. u.i + 1 \in 1..(Len(s) + 1) /\ s[u.i] = "^"
    BY <1>0, <1>3, <1>6, AtWithin
  <2>4. u.i + 1 > i
    BY <1>3
  <2>5. ReadsAs(m, s, "factor", u.i + 1, e.v, e.i)
    <3>1. Level(s, "factor", u.i + 1) < Level(s, "factor", i)
      BY <1>0, <2>3, <2>4, Levels
    <3> QED
      BY <1>0, <2>3, <3>1, Zenon DEF Sound
  <2>6. ReadsAs(m, s, "factor", i, r, e.i)
    BY <1>2, <2>3, <2>5, PowerReads
  <2> QED
    BY <2>2, <2>6
<1> QED
  BY <1>5, <1>6

LEMMA ChainSound ==
  ASSUME NEW s, Len(s) \in Nat, NEW f, IsParser(f, s), NEW m, IsMeaning(m, s),
         NEW rule \in Chained, NEW i \in 1..(Len(s) + 1), Sound(f, m, s, Level(s, rule, i))
  PROVE  /\ \A t \in f[<<rule, i, {}>>] : ReadsAs(m, s, rule, i, t.v, t.i)
         /\ \A o \in 1..(Len(s) + 1), v \in Value :
              ReadsAs(m, s, rule, o, v, i)
                => \A t \in f[<<rule, i, {v}>>] : ReadsAs(m, s, rule, o, t.v, t.i)
<1>0. /\ {} \in SUBSET Value /\ rule \in Rules /\ Below[rule] \in Rules
      /\ RuleRank[Below[rule]] < RuleRank[rule] /\ Loop[rule] \subseteq Operators
  BY DEF Chained, Rules, Below, RuleRank, Loop, Operators
<1>1. ASSUME NEW t \in f[<<rule, i, {}>>] PROVE ReadsAs(m, s, rule, i, t.v, t.i)
  <2>1. t \in Chain(f, s, rule, i, {})
    <3>1. t \in Returns(f, s, rule, i, {})
      BY <1>0, <1>1, ParserOutcomes
    <3>2. Returns(f, s, rule, i, {}) = Chain(f, s, rule, i, {})
      BY ReturnsCases
    <3> QED
      BY <3>1, <3>2
  <2>2. Chain(f, s, rule, i, {}) = UNION {f[<<rule, u.i, {u.v}>>] : u \in f[<<Below[rule], i, {}>>]}
    BY Zenon DEF Chain
  <2>3. PICK u \in f[<<Below[rule], i, {}>>] : t \in f[<<rule, u.i, {u.v}>>]
    BY <2>1, <2>2, Zenon
  <2>4. u.v \in Value /\ u.i \in 1..(Len(s) + 1) /\ i <= u.i /\ u.i > i
    <3>1. /\ u.v \in Value /\ u.i \in 1..(Len(s) + 1) /\ i <= u.i
          /\ u.i > i \/ (Below[rule] \in Chained /\ {} # {})
      BY <1>0, <2>3, ParserOutcomes, Zenon
    <3> QED
      BY <3>1
  <2>5. ReadsAs(m, s, Below[rule], i, u.v, u.i)
    <3>1. Level(s, Below[rule], i) < Level(s, rule, i)
      BY <1>0, Levels
    <3> QED
      BY <1>0, <2>3, <3>1, Zenon DEF Sound
  <2>6. ReadsAs(m, s, rule, i, u.v, u.i)
    BY <1>0, <2>5, ReadsAbove
  <2>7. Level(s, rule, u.i) < Level(s, rule, i)
    BY <1>0, <2>4, Levels
  <2> QED
    BY <2>3, <2>4, <2>6, <2>7, Zenon DEF Sound
<1>2. ASSUME NEW o \in 1..(Len(s) + 1), NEW v \in Value, ReadsAs(m, s, rule, o, v, i),
             NEW t \in f[<<rule, i, {v}>>]
      PROVE  ReadsAs(m, s, rule, o, t.v, t.i)
  <2>0. {v} \in SUBSET Value /\ {v} # {}
    OBVIOUS
  <2>1. t \in Chain(f, s, rule, i, {v})
    <3>1. t \in Returns(f, s, rule, i, {v})
      BY <1>0, <1>2, <2>0, ParserOutcomes
    <3>2. Returns(f, s, rule, i, {v}) = Chain(f, s, rule, i, {v})
      BY ReturnsCases
    <3> QED
      BY <3>1, <3>2
  <2>2. CASE At(s, i) \in Loop[rule]
    <3>1. t \in Folds(f, s, rule, i, {v})
      BY <2>0, <2>1, <2>2, Zenon DEF Chain
    <3> DEFINE R(u) == UNION {Results(s[i], w, u.v) : w \in {v}}
    <3>2. PICK u \in f[<<Below[rule], i + 1, {}>>] : \E r \in R(u) : t \in f[<<rule, u.i, {r}>>]
      <4> DEFINE Row(u) == UNION {f[<<rule, u.i, {r}>>] : r \in R(u)}
      <4>1. Folds(f, s, rule, i, {v}) = UNION {Row(u) : u \in f[<<Below[rule], i + 1, {}>>]}
        BY Zenon DEF Folds
      <4>2. PICK u \in f[<<Below[rule], i + 1, {}>>] : t \in Row(u)
        BY <3>1, <4>1, Zenon
      <4> HIDE DEF R
      <4>3. \E r \in R(u) : t \in f[<<rule, u.i, {r}>>]
        BY <4>2, Zenon
      <4> QED
        BY <4>3, Zenon
    <3>3. PICK r \in R(u) : t \in f[<<rule, u.i, {r}>>]
      BY <3>2
    <3>4. r \in Results(s[i], v, u.v)
      BY <3>3
    <3>5. i + 1 \in 1..(Len(s) + 1) /\ s[i] \in Loop[rule] /\ i + 1 > i /\ s[i] \in Operators
      BY <1>0, <2>2, AtWithin
    <3>6. u.v \in Value /\ u.i \in 1..(Len(s) + 1) /\ i + 1 <= u.i
      BY <1>0, <3>2, <3>5, ParserOutcomes, Zenon
    <3>7. ReadsAs(m, s, Below[rule], i + 1, u.v, u.i)
      <4>1. Level(s, Below[rule], i + 1) < Level(s, rule, i)
        BY <1>0, <3>5, Levels
      <4> QED
        BY <1>0, <3>2, <3>5, <4>1, Zenon DEF Sound
    <3>8. ReadsAs(m, s, rule, o, r, u.i)
      BY <1>2, <3>4, <3>5, <3>7, LoopReads
    <3>9. r \in Value
      BY <3>4, <3>5, <3>6, ResultsTypes
    <3>10. Level(s, rule, u.i) < Level(s, rule, i)
      <4>1. u.i > i
        BY <3>6
      <4> QED
        BY <1>0, <3>6, <4>1, Levels
    <3> QED
      BY <1>2, <3>3, <3>6, <3>8, <3>9, <3>10, Zenon DEF Sound
  <2>3. CASE At(s, i) \notin Loop[rule]
    <3>1. t \in {[v |-> w, i |-> i] : w \in {v}}
      BY <2>0, <2>1, <2>3, Zenon DEF Chain
    <3>2. t.v = v /\ t.i = i
      BY <3>1
    <3> QED
      BY <1>2, <3>2
  <2> QED
    BY <2>2, <2>3
<1> QED
  BY <1>1, <1>2, Zenon

LEMMA ParserSound ==
  ASSUME NEW s, Len(s) \in Nat, NEW f, IsParser(f, s), NEW m, IsMeaning(m, s)
  PROVE  \A rule \in Rules, i \in 1..(Len(s) + 1) :
           \A t \in f[<<rule, i, {}>>] : ReadsAs(m, s, rule, i, t.v, t.i)
<1> DEFINE T == {q \in Nat : Sound(f, m, s, q)}
<1>0. Chained \subseteq Rules
  BY DEF Chained, Rules
<1>1. 0 \in T
  <2>1. ASSUME NEW rule \in Rules, NEW i \in 1..(Len(s) + 1) PROVE ~(Level(s, rule, i) < 0)
    <3>1. Level(s, rule, i) \in 1..(5 * (Len(s) + 2))
      BY Levels
    <3> QED
      BY <3>1
  <2>2. Sound(f, m, s, 0)
    BY <1>0, <2>1, Zenon DEF Sound
  <2> QED
    BY <2>2
<1>2. ASSUME NEW q \in Nat, q \in T PROVE q + 1 \in T
  <2>0. Sound(f, m, s, q)
    BY <1>2
  <2>1. ASSUME NEW rule \in Rules, NEW i \in 1..(Len(s) + 1), Level(s, rule, i) < q + 1
        PROVE  Sound(f, m, s, Level(s, rule, i))
    <3>1. Level(s, rule, i) \in Nat
      <4>1. Level(s, rule, i) \in 1..(5 * (Len(s) + 2))
        BY Levels
      <4> QED
        BY <4>1
    <3>2. ASSUME NEW other \in Rules, NEW j \in 1..(Len(s) + 1),
                 Level(s, other, j) < Level(s, rule, i)
          PROVE  Level(s, other, j) < q
      <4>1. Level(s, other, j) \in 1..(5 * (Len(s) + 2))
        BY Levels
      <4>2. Level(s, other, j) \in Nat
        BY <4>1
      <4> QED
        BY <2>1, <3>1, <3>2, <4>2
    <3> QED
      BY <1>0, <2>0, <3>2, Zenon DEF Sound
  <2>2. ASSUME NEW rule \in Rules, NEW i \in 1..(Len(s) + 1), Level(s, rule, i) < q + 1,
               NEW t \in f[<<rule, i, {}>>]
        PROVE  ReadsAs(m, s, rule, i, t.v, t.i)
    <3>1. Sound(f, m, s, Level(s, rule, i))
      BY <2>1, <2>2
    <3>2. rule \in Chained \/ rule = "factor" \/ rule = "unary" \/ rule = "primary"
      BY DEF Rules, Chained
    <3>3. CASE rule \in Chained
      BY <2>2, <3>1, <3>3, ChainSound
    <3>4. CASE rule = "factor"
      BY <2>2, <3>1, <3>4, FactorSound
    <3>5. CASE rule = "unary"
      BY <2>2, <3>1, <3>5, UnarySound
    <3>6. CASE rule = "primary"
      BY <2>2, <3>1, <3>6, PrimarySound
    <3> QED
      BY <3>2, <3>3, <3>4, <3>5, <3>6
  <2>3. ASSUME NEW rule \in Chained, NEW o \in 1..(Len(s) + 1), NEW i \in 1..(Len(s) + 1),
               NEW v \in Value, Level(s, rule, i) < q + 1, ReadsAs(m, s, rule, o, v, i),
               NEW t \in f[<<rule, i, {v}>>]
        PROVE  ReadsAs(m, s, rule, o, t.v, t.i)
    <3>1. Sound(f, m, s, Level(s, rule, i))
      BY <1>0, <2>1, <2>3
    <3> QED
      BY <2>3, <3>1, ChainSound
  <2>4. Sound(f, m, s, q + 1)
    BY <2>2, <2>3, Zenon DEF Sound
  <2> QED
    BY <2>4
<1> HIDE DEF T
<1>3. \A q \in Nat : q \in T
  BY <1>1, <1>2, SetInduction
<1>4. Sound(f, m, s, 5 * (Len(s) + 2) + 1)
  <2>1. 5 * (Len(s) + 2) + 1 \in Nat
    OBVIOUS
  <2> QED
    BY <1>3, <2>1 DEF T
<1>5. \A rule \in Rules, i \in 1..(Len(s) + 1) : Level(s, rule, i) < 5 * (Len(s) + 2) + 1
  <2> SUFFICES ASSUME NEW rule \in Rules, NEW i \in 1..(Len(s) + 1)
               PROVE  Level(s, rule, i) < 5 * (Len(s) + 2) + 1
    OBVIOUS
  <2>1. Level(s, rule, i) \in 1..(5 * (Len(s) + 2))
    BY Levels
  <2> QED
    BY <2>1
<1> QED
  BY <1>4, <1>5, Zenon DEF Sound

----------------------------------------------------------------------------
(* What the reference reads, the parser returns.                           *)

\* The parser finds each meaning v of s[i .. j-1] at i, as its rules ask: in
\* front of what would not take it for its own operand.
Covers(f, m, s, i, j) ==
  \A v \in m[<<i, j>>] :
    /\ At(s, j) \notin {"*", "/", "%", "^"} => f[<<"expr", j, {v}>>] \subseteq f[<<"expr", i, {}>>]
    /\ Sums(s, i, j) = {} /\ At(s, j) # "^"
         => f[<<"term", j, {v}>>] \subseteq f[<<"term", i, {}>>]
    /\ Sums(s, i, j) = {} /\ Products(s, i, j) = {} /\ At(s, j) # "^"
         => [v |-> v, i |-> j] \in f[<<"factor", i, {}>>]
    /\ Sums(s, i, j) = {} /\ Products(s, i, j) = {} /\ Powers(s, i, j) = {}
         => [v |-> v, i |-> j] \in f[<<"unary", i, {}>>]

CoversBelow(f, m, s, q) ==
  \A i, j \in 1..(Len(s) + 1) : i < j /\ j - i < q => Covers(f, m, s, i, j)

LEMMA MeaningOf ==
  ASSUME NEW s, Len(s) \in Nat, NEW m, IsMeaning(m, s),
         NEW i \in 1..(Len(s) + 1), NEW j \in 1..(Len(s) + 1), NEW v \in m[<<i, j>>]
  PROVE  i < j /\ v \in Value
<1>1. m[<<i, j>>] = Reading(m, s, i, j) /\ Single(m[<<i, j>>])
  BY Zenon DEF IsMeaning
<1>2. i \in Nat /\ j \in Nat
  OBVIOUS
<1>3. i >= j => m[<<i, j>>] = {}
  BY <1>1, <1>2, ReadingClauses, Zenon DEF Clauses
<1>4. ~(i >= j)
  BY <1>3
<1> QED
  BY <1>1, <1>2, <1>4 DEF Single

LEMMA ParserCalls ==
  ASSUME NEW s, Len(s) \in Nat, NEW f, IsParser(f, s), NEW i \in 1..(Len(s) + 1)
  PROVE  /\ f[<<"factor", i, {}>>] = Factor(f, s, i)
         /\ f[<<"unary", i, {}>>] = Unary(f, s, i)
         /\ f[<<"primary", i, {}>>] = Primary(f, s, i)
         /\ \A rule \in Chained, acc \in SUBSET Value :
              f[<<rule, i, acc>>] = Chain(f, s, rule, i, acc)
<1>1. /\ {} \in SUBSET Value /\ "factor" \in Rules /\ "unary" \in Rules /\ "primary" \in Rules
      /\ Chained \subseteq Rules
  BY DEF Rules, Chained
<1>2. /\ f[<<"factor", i, {}>>] = Returns(f, s, "factor", i, {})
      /\ f[<<"unary", i, {}>>] = Returns(f, s, "unary", i, {})
      /\ f[<<"primary", i, {}>>] = Returns(f, s, "primary", i, {})
  BY <1>1, Zenon DEF IsParser
<1>3. ASSUME NEW rule \in Chained, NEW acc \in SUBSET Value
      PROVE  f[<<rule, i, acc>>] = Chain(f, s, rule, i, acc)
  <2>1. f[<<rule, i, acc>>] = Returns(f, s, rule, i, acc)
    BY <1>1, Zenon DEF IsParser
  <2> QED
    BY <2>1, ReturnsCases, Zenon
<1> QED
  BY <1>2, <1>3, ReturnsCases, Zenon

\* A loop ends where none of its operators follows.
LEMMA LoopEnds ==
  ASSUME NEW s, Len(s) \in Nat, NEW f, IsParser(f, s), NEW rule \in Chained,
         NEW i \in 1..(Len(s) + 1), NEW v \in Value, At(s, i) \notin Loop[rule]
  PROVE  f[<<rule, i, {v}>>] = {[v |-> v, i |-> i]}
<1> DEFINE acc == {v}
<1>1. acc \in SUBSET Value /\ acc # {}
  OBVIOUS
<1> HIDE DEF acc
<1>2. f[<<rule, i, acc>>] = Chain(f, s, rule, i, acc)
  <2>1. rule \in Rules
    BY DEF Chained, Rules
  <2>2. f[<<rule, i, acc>>] = Returns(f, s, rule, i, acc)
    BY <1>1, <2>1, Zenon DEF IsParser
  <2>3. Returns(f, s, rule, i, acc) = Chain(f, s, rule, i, acc)
    BY DEF Returns, Chained
  <2> QED
    BY <2>2, <2>3, Zenon
<1>3. Chain(f, s, rule, i, acc) = {[v |-> w, i |-> i] : w \in acc}
  BY <1>1, Zenon DEF Chain
<1> QED
  BY <1>2, <1>3 DEF acc

LEMMA UnaryCovers ==
  ASSUME NEW s, Len(s) \in Nat, NEW f, IsParser(f, s), NEW m, IsMeaning(m, s),
         NEW i \in 1..(Len(s) + 1), NEW j \in 1..(Len(s) + 1), CoversBelow(f, m, s, j - i),
         NEW v \in m[<<i, j>>],
         Sums(s, i, j) = {}, Products(s, i, j) = {}, Powers(s, i, j) = {}
  PROVE  [v |-> v, i |-> j] \in f[<<"unary", i, {}>>]
<1>0. {} \in SUBSET Value /\ "expr" \in Chained
  BY DEF Chained
<1>1. i < j
  BY MeaningOf, Zenon
<1>2. v \in Operand(m, s, i, j)
  BY <1>1, MeaningClauses
<1>3. /\ i + 1 \in 1..(Len(s) + 1) /\ At(s, i) = s[i] /\ i \in Nat /\ i > 0 /\ j \in Nat
      /\ j - (i + 1) < j - i
  BY <1>1 DEF At
<1>4. /\ f[<<"unary", i, {}>>] = Unary(f, s, i) /\ f[<<"primary", i, {}>>] = Primary(f, s, i)
  BY ParserCalls
<1>5. /\ "-" \in Operators /\ "+" \in Operators /\ "-" # "+" /\ "(" # "-" /\ "(" # "+"
      /\ "-" \notin Numbers /\ "+" \notin Numbers /\ "(" \notin Numbers
  BY LiteralAssumption DEF Operators
<1>6. ASSUME s[i] \in {"+", "-"}, NEW w \in m[<<i + 1, j>>]
      PROVE  [v |-> w, i |-> j] \in f[<<"unary", i + 1, {}>>]
  <2>1. i + 1 < j
    BY <1>3, <1>6, MeaningOf
  <2>2. \A ops : Binary(s, ops, i + 1, j) = Binary(s, ops, i, j)
    BY <1>3, <1>5, <1>6, SignBinary
  <2>3. Sums(s, i + 1, j) = {} /\ Products(s, i + 1, j) = {} /\ Powers(s, i + 1, j) = {}
    BY <2>2, Zenon DEF Sums, Products, Powers
  <2>4. Covers(f, m, s, i + 1, j)
    BY <1>3, <2>1, Zenon DEF CoversBelow
  <2> QED
    BY <1>6, <2>3, <2>4, Zenon DEF Covers
<1>7. CASE s[i] = "-"
  <2>1. Operand(m, s, i, j) = {Negated[w] : w \in m[<<i + 1, j>>]}
    BY <1>5, <1>7, Zenon DEF Operand
  <2>2. PICK w \in m[<<i + 1, j>>] : v = Negated[w]
    BY <1>2, <2>1, Zenon
  <2> DEFINE t == [v |-> w, i |-> j]
  <2>3. t \in f[<<"unary", i + 1, {}>>]
    BY <1>6, <1>7
  <2>4. [t EXCEPT !.v = Negated[@]] = [v |-> v, i |-> j]
    BY <2>2
  <2> HIDE DEF t
  <2>5. [t EXCEPT !.v = Negated[@]] \in Unary(f, s, i)
    BY <1>3, <1>7, <2>3, <1>5, Zenon DEF Unary
  <2> QED
    BY <1>4, <2>4, <2>5, Zenon
<1>8. CASE s[i] = "+"
  <2>1. Operand(m, s, i, j) = m[<<i + 1, j>>]
    BY <1>5, <1>8, Zenon DEF Operand
  <2>2. [v |-> v, i |-> j] \in f[<<"unary", i + 1, {}>>]
    BY <1>2, <1>6, <1>8, <2>1
  <2>3. Unary(f, s, i) = f[<<"unary", i + 1, {}>>]
    BY <1>3, <1>5, <1>8, Zenon DEF Unary
  <2> QED
    BY <1>4, <2>2, <2>3, Zenon
<1>9. ASSUME s[i] # "-", s[i] # "+" PROVE f[<<"unary", i, {}>>] = f[<<"primary", i, {}>>]
  BY <1>3, <1>4, <1>9, Zenon DEF Unary
<1>10. CASE s[i] = "(" /\ s[j - 1] = ")"
  <2>1. Operand(m, s, i, j) = m[<<i + 1, j - 1>>]
    BY <1>5, <1>10, Zenon DEF Operand
  <2>2. v \in m[<<i + 1, j - 1>>]
    BY <1>2, <2>1, Zenon
  <2>3. j - 1 \in 1..(Len(s) + 1) /\ (j - 1) - (i + 1) < j - i /\ At(s, j - 1) = ")"
    <3>1. j - 1 \in 1..Len(s) /\ (j - 1) - (i + 1) < j - i
      BY <1>1, <1>3
    <3> QED
      BY <1>10, <3>1 DEF At
  <2>4. i + 1 < j - 1 /\ v \in Value
    BY <1>3, <2>2, <2>3, MeaningOf
  <2>5. Covers(f, m, s, i + 1, j - 1)
    BY <1>3, <2>3, <2>4, Zenon DEF CoversBelow
  <2> DEFINE t == [v |-> v, i |-> j - 1]
  <2>6. f[<<"expr", j - 1, {v}>>] \subseteq f[<<"expr", i + 1, {}>>]
    <3>1. At(s, j - 1) \notin {"*", "/", "%", "^"}
      BY <2>3
    <3> QED
      BY <2>2, <2>5, <3>1, Zenon DEF Covers
  <2>7. t \in f[<<"expr", j - 1, {v}>>]
    <3>1. At(s, j - 1) \notin Loop["expr"]
      BY <2>3 DEF Loop
    <3>2. f[<<"expr", j - 1, {v}>>] = {t}
      BY <1>0, <2>3, <2>4, <3>1, LoopEnds
    <3> QED
      BY <3>2
  <2>8. t \in f[<<"expr", i + 1, {}>>] /\ t.i = j - 1
    BY <2>6, <2>7
  <2>9. [t EXCEPT !.i = @ + 1] = [v |-> v, i |-> j]
    BY <1>3
  <2> HIDE DEF t
  <2>10. [t EXCEPT !.i = @ + 1] \in Primary(f, s, i)
    <3>1. At(s, t.i) = ")"
      BY <2>3, <2>8
    <3>2. Primary(f, s, i) = {[u EXCEPT !.i = @ + 1] :
                                u \in {u \in f[<<"expr", i + 1, {}>>] : At(s, u.i) = ")"}}
      BY <1>3, <1>5, <1>10, Zenon DEF Primary
    <3> QED
      BY <2>8, <3>1, <3>2, Zenon
  <2>11. [v |-> v, i |-> j] \in f[<<"primary", i, {}>>]
    BY <1>4, <2>9, <2>10, Zenon
  <2>12. s[i] # "-" /\ s[i] # "+"
    BY <1>5, <1>10
  <2> QED
    BY <1>9, <2>11, <2>12, Zenon
<1>11. CASE s[i] # "-" /\ s[i] # "+" /\ ~(s[i] = "(" /\ s[j - 1] = ")")
  <2>1. i + 1 = j /\ s[i] \in Numbers
    BY <1>2, <1>11, Zenon DEF Operand
  <2>2. v = Literal[s[i]]
    BY <1>2, <1>11, <2>1, Zenon DEF Operand
  <2>3. Primary(f, s, i) = {[v |-> Literal[s[i]], i |-> i + 1]}
    <3>1. At(s, i) # "("
      BY <1>3, <1>5, <2>1
    <3> QED
      BY <1>3, <2>1, <3>1, Zenon DEF Primary
  <2>4. [v |-> v, i |-> j] \in f[<<"primary", i, {}>>]
    BY <1>4, <2>1, <2>2, <2>3
  <2> QED
    BY <1>9, <1>11, <2>4, Zenon
<1> QED
  BY <1>7, <1>8, <1>10, <1>11

LEMMA SplitMeaning ==
  ASSUME NEW s, Len(s) \in Nat, NEW m, IsMeaning(m, s),
         NEW i \in 1..(Len(s) + 1), NEW j \in 1..(Len(s) + 1),
         NEW others, NEW k \in Binary(s, others, i, j), s[k] \in Operators,
         NEW v \in Applied(m, s, i, k, j)
  PROVE  /\ k \in 1..Len(s) /\ k + 1 \in 1..(Len(s) + 1) /\ k \in 1..(Len(s) + 1)
         /\ At(s, k) = s[k] /\ k - i < j - i /\ j - (k + 1) < j - i
         /\ \E l \in m[<<i, k>>], r \in m[<<k + 1, j>>] :
              /\ l \in Value /\ r \in Value /\ i < k /\ k + 1 < j
              /\ v \in Results(s[k], l, r)
<1>1. k \in (i + 1)..(j - 1)
  BY DEF Binary
<1>2. /\ k \in 1..Len(s) /\ k + 1 \in 1..(Len(s) + 1) /\ k \in 1..(Len(s) + 1)
      /\ At(s, k) = s[k] /\ k - i < j - i /\ j - (k + 1) < j - i
  BY <1>1 DEF At
<1> DEFINE L == m[<<i, k>>]
           R == m[<<k + 1, j>>]
           op == s[k]
           Row(p) == UNION {Results(op, p, q) : q \in R}
<1>3. Applied(m, s, i, k, j) = UNION {Row(p) : p \in L}
  BY AppliedIs, Zenon
<1>4. PICK l \in L : v \in Row(l)
  BY <1>3, Zenon
<1>5. PICK r \in R : v \in Results(op, l, r)
  BY <1>4, Zenon
<1>6. l \in Value /\ i < k
  BY <1>2, MeaningOf
<1>7. r \in Value /\ k + 1 < j
  BY <1>2, MeaningOf
<1> QED
  BY <1>2, <1>5, <1>6, <1>7, Zenon

\* An operator between two operands, and the parts beside it.
Beside(s, i, k, j) ==
  /\ k \in 1..(Len(s) + 1) /\ k + 1 \in 1..(Len(s) + 1) /\ At(s, k) = s[k]
  /\ k - i < j - i /\ j - (k + 1) < j - i
  /\ Splits(s, i, k, j)

LEMMA BinaryBeside ==
  ASSUME NEW s, Len(s) \in Nat, NEW i \in 1..(Len(s) + 1), NEW j \in 1..(Len(s) + 1),
         NEW others, NEW k, k \in Binary(s, others, i, j), s[k] \in Operators
  PROVE  Beside(s, i, k, j)
<1>1. i \in Nat /\ j \in Nat /\ i > 0 /\ k \in (i + 1)..(j - 1)
  BY DEF Binary
<1>2. /\ k \in 1..(Len(s) + 1) /\ k + 1 \in 1..(Len(s) + 1) /\ At(s, k) = s[k]
      /\ k - i < j - i /\ j - (k + 1) < j - i
  BY <1>1 DEF At
<1>3. Splits(s, i, k, j)
  BY <1>1, SplitBinary
<1> QED
  BY <1>2, <1>3, Zenon DEF Beside

LEMMA FactorCovers ==
  ASSUME NEW s, Len(s) \in Nat, NEW f, IsParser(f, s), NEW m, IsMeaning(m, s),
         NEW i \in 1..(Len(s) + 1), NEW j \in 1..(Len(s) + 1), CoversBelow(f, m, s, j - i),
         NEW v \in m[<<i, j>>],
         Sums(s, i, j) = {}, Products(s, i, j) = {}, At(s, j) # "^"
  PROVE  [v |-> v, i |-> j] \in f[<<"factor", i, {}>>]
<1> DEFINE U == f[<<"unary", i, {}>>]
           Pows(u) == UNION {{[v |-> r, i |-> t.i] : r \in Results("^", u.v, t.v)}
                             : t \in f[<<"factor", u.i + 1, {}>>]}
           P(u) == IF At(s, u.i) # "^" THEN {u} ELSE Pows(u)
           w == [v |-> v, i |-> j]
<1>1. f[<<"factor", i, {}>>] = UNION {P(u) : u \in U}
  <2>1. f[<<"factor", i, {}>>] = Factor(f, s, i)
    BY ParserCalls
  <2> QED
    BY <2>1, Zenon DEF Factor
<1>2. SUFFICES \E u \in U : w \in P(u)
  <2> HIDE DEF P, U
  <2> QED
    BY <1>1, Zenon
<1>3. CASE Powers(s, i, j) = {}
  <2>1. w \in U
    BY <1>3, UnaryCovers
  <2>2. At(s, w.i) # "^"
    OBVIOUS
  <2> HIDE DEF U, w
  <2>3. w \in P(w)
    BY <2>2, Zenon
  <2> HIDE DEF P
  <2> QED
    BY <2>1, <2>3, Zenon
<1>4. CASE Powers(s, i, j) # {}
  <2> DEFINE k == Min(Powers(s, i, j))
  <2>0. i < j /\ v \in Value /\ i \in Nat /\ j \in Nat /\ i > 0
    <3>1. i < j /\ v \in Value
      BY MeaningOf, Zenon
    <3> QED
      BY <3>1
  <2>1. v \in Applied(m, s, i, k, j)
    BY <1>4, <2>0, MeaningClauses
  <2>2. k \in Powers(s, i, j) /\ \A x \in Powers(s, i, j) : k <= x
    <3>1. Powers(s, i, j) \subseteq Nat
      BY <2>0 DEF Powers, Binary
    <3> QED
      BY <1>4, <3>1, HasLeast
  <2> HIDE DEF k
  <2>3. s[k] = "^" /\ k \in Binary(s, {"^"}, i, j) /\ "^" \in Operators /\ s[k] \in Operators
    BY <2>2 DEF Powers, Binary, Operators
  <2>4. Beside(s, i, k, j)
    BY <2>3, BinaryBeside, Zenon
  <2>5. /\ k \in 1..(Len(s) + 1) /\ k + 1 \in 1..(Len(s) + 1) /\ At(s, k) = s[k]
        /\ k - i < j - i /\ j - (k + 1) < j - i
    BY <2>4, Zenon DEF Beside
  <2>6. PICK l \in m[<<i, k>>], r \in m[<<k + 1, j>>] :
          /\ l \in Value /\ r \in Value /\ i < k /\ k + 1 < j
          /\ v \in Results(s[k], l, r)
    BY <2>1, <2>3, SplitMeaning
  <2>7. \A ops : /\ Binary(s, ops, i, k) = {x \in Binary(s, ops, i, j) : x < k}
                 /\ Binary(s, ops, k + 1, j) = {x \in Binary(s, ops, i, j) : x > k}
    BY <2>4, Zenon DEF Beside, Splits
  <2>8. Sums(s, i, k) = {} /\ Products(s, i, k) = {} /\ Powers(s, i, k) = {}
    <3>1. Binary(s, {"+", "-"}, i, j) = {} /\ Binary(s, {"*", "/", "%"}, i, j) = {}
      BY DEF Sums, Products
    <3>2. Binary(s, {"+", "-"}, i, k) = {} /\ Binary(s, {"*", "/", "%"}, i, k) = {}
      BY <2>7, <3>1
    <3>3. \A x \in Binary(s, {"^"}, i, j) : x \in Nat /\ k <= x
      BY <2>0, <2>2 DEF Powers, Binary
    <3>4. Binary(s, {"^"}, i, k) = {}
      BY <2>5, <2>7, <3>3
    <3> QED
      BY <3>2, <3>4 DEF Sums, Products, Powers
  <2>9. Sums(s, k + 1, j) = {} /\ Products(s, k + 1, j) = {}
    BY <2>7 DEF Sums, Products
  <2> DEFINE u == [v |-> l, i |-> k]
             t == [v |-> r, i |-> j]
  <2>10. u \in U
    <3>1. Covers(f, m, s, i, k)
      BY <2>5, <2>6, Zenon DEF CoversBelow
    <3> QED
      BY <2>8, <3>1, Zenon DEF Covers
  <2>11. t \in f[<<"factor", k + 1, {}>>]
    <3>1. Covers(f, m, s, k + 1, j)
      BY <2>5, <2>6, Zenon DEF CoversBelow
    <3> QED
      BY <2>9, <3>1, Zenon DEF Covers
  <2>12. /\ u.i = k /\ u.v = l /\ t.v = r /\ t.i = j
    OBVIOUS
  <2> HIDE DEF u, t, U
  <2>13. w \in Pows(u)
    <3>1. w = [v |-> v, i |-> t.i]
      BY <2>12, Zenon
    <3> HIDE DEF w
    <3>2. t \in f[<<"factor", u.i + 1, {}>>] /\ v \in Results("^", u.v, t.v)
      BY <2>3, <2>6, <2>11, <2>12, Zenon
    <3>3. w \in {[v |-> q, i |-> t.i] : q \in Results("^", u.v, t.v)}
      BY <3>1, <3>2, Zenon
    <3> QED
      BY <3>2, <3>3, Zenon
  <2>14. w \in P(u)
    BY <2>3, <2>5, <2>12, <2>13, Zenon
  <2> HIDE DEF P
  <2> QED
    BY <2>10, <2>14, Zenon
<1> QED
  BY <1>3, <1>4

\* The loops, in a part that splits at one of their operators and in one that
\* does not.
LEMMA LoopCovers ==
  ASSUME NEW s, Len(s) \in Nat, NEW f, IsParser(f, s), NEW rule \in Chained,
         NEW i \in 1..(Len(s) + 1), NEW k \in 1..(Len(s) + 1), NEW j,
         k + 1 \in 1..(Len(s) + 1), At(s, k) = s[k], s[k] \in Loop[rule],
         NEW l \in Value, NEW r, NEW v \in Results(s[k], l, r),
         f[<<rule, k, {l}>>] \subseteq f[<<rule, i, {}>>],
         [v |-> r, i |-> j] \in f[<<Below[rule], k + 1, {}>>]
  PROVE  f[<<rule, j, {v}>>] \subseteq f[<<rule, i, {}>>]
<1> DEFINE acc == {l}
           t == [v |-> r, i |-> j]
           R(q) == UNION {Results(s[k], p, q.v) : p \in acc}
           Row(q) == UNION {f[<<rule, q.i, {x}>>] : x \in R(q)}
<1>1. acc \in SUBSET Value /\ acc # {} /\ l \in acc
  OBVIOUS
<1>2. t.v = r /\ t.i = j /\ t \in f[<<Below[rule], k + 1, {}>>]
  OBVIOUS
<1> HIDE DEF acc, t
<1>3. f[<<rule, k, acc>>] = UNION {Row(q) : q \in f[<<Below[rule], k + 1, {}>>]}
  <2>1. f[<<rule, k, acc>>] = Chain(f, s, rule, k, acc)
    BY <1>1, ParserCalls, Zenon
  <2>2. Chain(f, s, rule, k, acc) = Folds(f, s, rule, k, acc)
    BY <1>1, Zenon DEF Chain
  <2> QED
    BY <2>1, <2>2, Zenon DEF Folds
<1>4. v \in R(t)
  BY <1>1, <1>2, Zenon
<1> HIDE DEF R
<1>5. f[<<rule, j, {v}>>] \subseteq Row(t)
  BY <1>2, <1>4, Zenon
<1> HIDE DEF Row
<1>6. Row(t) \subseteq f[<<rule, k, acc>>]
  BY <1>2, <1>3, Zenon
<1> QED
  BY <1>5, <1>6 DEF acc

LEMMA FirstCovers ==
  ASSUME NEW s, Len(s) \in Nat, NEW f, IsParser(f, s), NEW rule \in Chained,
         NEW i \in 1..(Len(s) + 1), NEW v, NEW j,
         [v |-> v, i |-> j] \in f[<<Below[rule], i, {}>>]
  PROVE  f[<<rule, j, {v}>>] \subseteq f[<<rule, i, {}>>]
<1> DEFINE t == [v |-> v, i |-> j]
<1>1. t.v = v /\ t.i = j /\ t \in f[<<Below[rule], i, {}>>]
  OBVIOUS
<1> HIDE DEF t
<1>2. f[<<rule, i, {}>>] = UNION {f[<<rule, q.i, {q.v}>>] : q \in f[<<Below[rule], i, {}>>]}
  <2>1. f[<<rule, i, {}>>] = Chain(f, s, rule, i, {})
    BY ParserCalls
  <2> QED
    BY <2>1, Zenon DEF Chain
<1> QED
  BY <1>1, <1>2, Zenon

LEMMA TermCovers ==
  ASSUME NEW s, Len(s) \in Nat, NEW f, IsParser(f, s), NEW m, IsMeaning(m, s),
         NEW i \in 1..(Len(s) + 1), NEW j \in 1..(Len(s) + 1), CoversBelow(f, m, s, j - i),
         NEW v \in m[<<i, j>>], Sums(s, i, j) = {}, At(s, j) # "^"
  PROVE  f[<<"term", j, {v}>>] \subseteq f[<<"term", i, {}>>]
<1>0. "term" \in Chained /\ Below["term"] = "factor" /\ Loop["term"] = {"*", "/", "%"}
  BY DEF Chained, Below, Loop
<1>1. CASE Products(s, i, j) = {}
  <2>1. [v |-> v, i |-> j] \in f[<<"factor", i, {}>>]
    BY <1>1, FactorCovers
  <2> QED
    BY <1>0, <2>1, FirstCovers
<1>2. CASE Products(s, i, j) # {}
  <2> DEFINE k == Max(Products(s, i, j))
  <2>0. i < j /\ v \in Value /\ i \in Nat /\ j \in Nat /\ i > 0 /\ i + 1 \in Nat /\ j - 1 \in Nat
    <3>1. i < j /\ v \in Value
      BY MeaningOf, Zenon
    <3> QED
      BY <3>1
  <2>1. v \in Applied(m, s, i, k, j)
    BY <1>2, <2>0, MeaningClauses
  <2>2. k \in Products(s, i, j) /\ \A x \in Products(s, i, j) : x <= k
    <3>1. Products(s, i, j) \subseteq (i + 1)..(j - 1)
      BY <2>0 DEF Products, Binary
    <3> QED
      BY <1>2, <2>0, <3>1, GreatestIn
  <2> HIDE DEF k
  <2>3. /\ s[k] \in {"*", "/", "%"} /\ k \in Binary(s, {"*", "/", "%"}, i, j)
        /\ s[k] \in Operators /\ s[k] # "^"
    BY <2>2 DEF Products, Binary, Operators
  <2>4. Beside(s, i, k, j)
    BY <2>3, BinaryBeside, Zenon
  <2>5. /\ k \in 1..(Len(s) + 1) /\ k + 1 \in 1..(Len(s) + 1) /\ At(s, k) = s[k]
        /\ k - i < j - i /\ j - (k + 1) < j - i
    BY <2>4, Zenon DEF Beside
  <2>6. PICK l \in m[<<i, k>>], r \in m[<<k + 1, j>>] :
          /\ l \in Value /\ r \in Value /\ i < k /\ k + 1 < j
          /\ v \in Results(s[k], l, r)
    BY <2>1, <2>3, SplitMeaning
  <2>7. \A ops : /\ Binary(s, ops, i, k) = {x \in Binary(s, ops, i, j) : x < k}
                 /\ Binary(s, ops, k + 1, j) = {x \in Binary(s, ops, i, j) : x > k}
    BY <2>4, Zenon DEF Beside, Splits
  <2>8. Sums(s, i, k) = {} /\ Sums(s, k + 1, j) = {}
    BY <2>7 DEF Sums
  <2>9. Products(s, k + 1, j) = {}
    <3>1. \A x \in Binary(s, {"*", "/", "%"}, i, j) : ~(x > k)
      BY <2>0, <2>2 DEF Products, Binary
    <3>2. Binary(s, {"*", "/", "%"}, k + 1, j) = {}
      BY <2>7, <3>1, Zenon
    <3> QED
      BY <3>2 DEF Products
  <2>10. f[<<"term", k, {l}>>] \subseteq f[<<"term", i, {}>>]
    <3>1. Covers(f, m, s, i, k)
      BY <2>5, <2>6, Zenon DEF CoversBelow
    <3>2. At(s, k) # "^"
      BY <2>3, <2>5
    <3> QED
      BY <2>8, <3>1, <3>2, Zenon DEF Covers
  <2>11. [v |-> r, i |-> j] \in f[<<"factor", k + 1, {}>>]
    <3>1. Covers(f, m, s, k + 1, j)
      BY <2>5, <2>6, Zenon DEF CoversBelow
    <3> QED
      BY <2>8, <2>9, <3>1, Zenon DEF Covers
  <2> QED
    BY <1>0, <2>3, <2>5, <2>6, <2>10, <2>11, LoopCovers
<1> QED
  BY <1>1, <1>2

LEMMA ExprCovers ==
  ASSUME NEW s, Len(s) \in Nat, NEW f, IsParser(f, s), NEW m, IsMeaning(m, s),
         NEW i \in 1..(Len(s) + 1), NEW j \in 1..(Len(s) + 1), CoversBelow(f, m, s, j - i),
         NEW v \in m[<<i, j>>], At(s, j) \notin {"*", "/", "%", "^"}
  PROVE  f[<<"expr", j, {v}>>] \subseteq f[<<"expr", i, {}>>]
<1>0. "expr" \in Chained /\ Below["expr"] = "term" /\ Loop["expr"] = {"+", "-"}
      /\ "term" \in Chained /\ Loop["term"] = {"*", "/", "%"}
  BY DEF Chained, Below, Loop
<1>1. \* The end of a term.
      ASSUME NEW w \in Value, NEW o \in 1..(Len(s) + 1),
             f[<<"term", j, {w}>>] \subseteq f[<<"term", o, {}>>]
      PROVE  [v |-> w, i |-> j] \in f[<<"term", o, {}>>]
  <2>1. At(s, j) \notin Loop["term"]
    BY <1>0
  <2>2. f[<<"term", j, {w}>>] = {[v |-> w, i |-> j]}
    BY <1>0, <1>1, <2>1, LoopEnds
  <2> QED
    BY <1>1, <2>2
<1>2. v \in Value /\ i < j
  BY MeaningOf, Zenon
<1>3. CASE Sums(s, i, j) = {}
  <2>1. f[<<"term", j, {v}>>] \subseteq f[<<"term", i, {}>>]
    BY <1>3, TermCovers, Zenon
  <2>2. [v |-> v, i |-> j] \in f[<<"term", i, {}>>]
    BY <1>1, <1>2, <2>1, Zenon
  <2> QED
    BY <1>0, <2>2, FirstCovers
<1>4. CASE Sums(s, i, j) # {}
  <2> DEFINE k == Max(Sums(s, i, j))
  <2>0. i \in Nat /\ j \in Nat /\ i > 0 /\ i + 1 \in Nat /\ j - 1 \in Nat
    <3>1. j > 1
      BY <1>2
    <3> QED
      BY <3>1
  <2>1. v \in Applied(m, s, i, k, j)
    <3>1. m[<<i, j>>] = Applied(m, s, i, k, j)
      BY <1>2, <1>4, MeaningClauses, ZenonT(40)
    <3> QED
      BY <3>1
  <2>2. k \in Sums(s, i, j) /\ \A x \in Sums(s, i, j) : x <= k
    <3>1. Sums(s, i, j) \subseteq (i + 1)..(j - 1)
      BY <2>0 DEF Sums, Binary
    <3> QED
      BY <1>4, <2>0, <3>1, GreatestIn
  <2> HIDE DEF k
  <2>3. /\ s[k] \in {"+", "-"} /\ k \in Binary(s, {"+", "-"}, i, j) /\ s[k] \in Operators
        /\ s[k] \notin {"*", "/", "%", "^"}
    BY <2>2 DEF Sums, Binary, Operators
  <2>4. Beside(s, i, k, j)
    BY <2>3, BinaryBeside, Zenon
  <2>5. /\ k \in 1..(Len(s) + 1) /\ k + 1 \in 1..(Len(s) + 1) /\ At(s, k) = s[k]
        /\ k - i < j - i /\ j - (k + 1) < j - i
    BY <2>4, Zenon DEF Beside
  <2>6. PICK l \in m[<<i, k>>], r \in m[<<k + 1, j>>] :
          /\ l \in Value /\ r \in Value /\ i < k /\ k + 1 < j
          /\ v \in Results(s[k], l, r)
    BY <2>1, <2>3, SplitMeaning
  <2>7. Sums(s, k + 1, j) = {}
    <3>1. Binary(s, {"+", "-"}, k + 1, j) = {x \in Binary(s, {"+", "-"}, i, j) : x > k}
      BY <2>4, Zenon DEF Beside, Splits
    <3>2. \A x \in Binary(s, {"+", "-"}, i, j) : ~(x > k)
      BY <2>0, <2>2 DEF Sums, Binary
    <3>3. Binary(s, {"+", "-"}, k + 1, j) = {}
      BY <3>1, <3>2, Zenon
    <3> QED
      BY <3>3 DEF Sums
  <2>8. f[<<"expr", k, {l}>>] \subseteq f[<<"expr", i, {}>>]
    <3>1. Covers(f, m, s, i, k)
      BY <2>5, <2>6, Zenon DEF CoversBelow
    <3>2. At(s, k) \notin {"*", "/", "%", "^"}
      BY <2>3, <2>5
    <3> QED
      BY <3>1, <3>2, Zenon DEF Covers
  <2>9. [v |-> r, i |-> j] \in f[<<"term", k + 1, {}>>]
    <3>1. Covers(f, m, s, k + 1, j)
      BY <2>5, <2>6, Zenon DEF CoversBelow
    <3>2. At(s, j) # "^"
      OBVIOUS
    <3>3. f[<<"term", j, {r}>>] \subseteq f[<<"term", k + 1, {}>>]
      BY <2>7, <3>1, <3>2, Zenon DEF Covers
    <3> QED
      BY <1>1, <2>5, <2>6, <3>3
  <2> QED
    BY <1>0, <2>3, <2>5, <2>6, <2>8, <2>9, LoopCovers
<1> QED
  BY <1>3, <1>4

LEMMA ParserCovers ==
  ASSUME NEW s, Len(s) \in Nat, NEW f, IsParser(f, s), NEW m, IsMeaning(m, s)
  PROVE  \A i, j \in 1..(Len(s) + 1) : i < j => Covers(f, m, s, i, j)
<1> DEFINE T == {q \in Nat : CoversBelow(f, m, s, q)}
<1>1. 0 \in T
  <2>1. \A i, j \in 1..(Len(s) + 1) : ~(i < j /\ j - i < 0)
    OBVIOUS
  <2>2. CoversBelow(f, m, s, 0)
    BY <2>1, Zenon DEF CoversBelow
  <2> QED
    BY <2>2
<1>2. ASSUME NEW q \in Nat, q \in T PROVE q + 1 \in T
  <2>1. ASSUME NEW i \in 1..(Len(s) + 1), NEW j \in 1..(Len(s) + 1), i < j /\ j - i < q + 1
        PROVE  Covers(f, m, s, i, j)
    <3>1. CoversBelow(f, m, s, j - i)
      <4>1. \A k, l \in 1..(Len(s) + 1) : l - k < j - i => l - k < q
        BY <2>1
      <4>2. CoversBelow(f, m, s, q)
        BY <1>2
      <4> QED
        BY <4>1, <4>2, Zenon DEF CoversBelow
    <3> SUFFICES ASSUME NEW v \in m[<<i, j>>]
        PROVE  /\ At(s, j) \notin {"*", "/", "%", "^"} =>
                    f[<<"expr", j, {v}>>] \subseteq f[<<"expr", i, {}>>]
               /\ Sums(s, i, j) = {} /\ At(s, j) # "^"
                    => f[<<"term", j, {v}>>] \subseteq f[<<"term", i, {}>>]
               /\ Sums(s, i, j) = {} /\ Products(s, i, j) = {} /\ At(s, j) # "^"
                    => [v |-> v, i |-> j] \in f[<<"factor", i, {}>>]
               /\ Sums(s, i, j) = {} /\ Products(s, i, j) = {} /\ Powers(s, i, j) = {}
                    => [v |-> v, i |-> j] \in f[<<"unary", i, {}>>]
      BY Zenon DEF Covers
    <3>2. At(s, j) \notin {"*", "/", "%", "^"} =>
            f[<<"expr", j, {v}>>] \subseteq f[<<"expr", i, {}>>]
      BY <3>1, ExprCovers
    <3>3. Sums(s, i, j) = {} /\ At(s, j) # "^"
            => f[<<"term", j, {v}>>] \subseteq f[<<"term", i, {}>>]
      BY <3>1, TermCovers
    <3>4. Sums(s, i, j) = {} /\ Products(s, i, j) = {} /\ At(s, j) # "^"
            => [v |-> v, i |-> j] \in f[<<"factor", i, {}>>]
      BY <3>1, FactorCovers
    <3>5. Sums(s, i, j) = {} /\ Products(s, i, j) = {} /\ Powers(s, i, j) = {}
            => [v |-> v, i |-> j] \in f[<<"unary", i, {}>>]
      BY <3>1, UnaryCovers
    <3> QED
      BY <3>2, <3>3, <3>4, <3>5, Zenon
  <2>2. CoversBelow(f, m, s, q + 1)
    BY <2>1, Zenon DEF CoversBelow
  <2> QED
    BY <2>2
<1> HIDE DEF T
<1>3. \A q \in Nat : q \in T
  BY <1>1, <1>2, SetInduction
<1>4. CoversBelow(f, m, s, Len(s) + 1)
  BY <1>3 DEF T
<1>5. \A i, j \in 1..(Len(s) + 1) : i < j => j - i < Len(s) + 1
  OBVIOUS
<1> QED
  BY <1>4, <1>5, Zenon DEF CoversBelow

----------------------------------------------------------------------------
(* The calculator reads what there is to read, and as it is to be read.    *)

\* Whatever the tokens, the values that the parser returns at their end are
\* those of the reference's reading, of which there is one at most.
THEOREM ParseIsMeaning ==
  ASSUME NEW s, Len(s) \in Nat
  PROVE  /\ \A v : v \in Meaning(s) <=> [v |-> v, i |-> Len(s) + 1] \in Parse(s)
         /\ \A t \in Parse(s) : t = [v |-> t.v, i |-> t.i]
         /\ Single(Meaning(s))
<1> DEFINE e == Len(s) + 1
<1>0. 1 \in 1..(Len(s) + 1) /\ e \in 1..(Len(s) + 1) /\ "expr" \in Rules /\ "expr" \in Chained
      /\ {} \in SUBSET Value
  BY DEF Rules, Chained
<1>1. PICK f : IsParser(f, s) /\ Parse(s) = f[<<"expr", 1, {}>>]
  BY ParseIsParser
<1>2. PICK m : IsMeaning(m, s) /\ Meaning(s) = m[<<1, Len(s) + 1>>]
  BY MeaningIsMeaning
<1>3. \A t \in Parse(s) : ReadsAs(m, s, "expr", 1, t.v, t.i)
  BY <1>0, <1>1, <1>2, ParserSound
<1>4. \A t \in Parse(s) : t = [v |-> t.v, i |-> t.i]
  <2> SUFFICES ASSUME NEW t \in Parse(s) PROVE t = [v |-> t.v, i |-> t.i]
    OBVIOUS
  <2>1. t \in Outcomes(s, <<"expr", 1, {}>>)
    BY <1>0, <1>1, ParserOutcomes
  <2> QED
    BY <2>1 DEF Outcomes
<1>5. ASSUME NEW v, [v |-> v, i |-> e] \in Parse(s) PROVE v \in Meaning(s)
  <2>1. ReadsAs(m, s, "expr", 1, [v |-> v, i |-> e].v, [v |-> v, i |-> e].i)
    BY <1>3, <1>5, Zenon
  <2>2. [v |-> v, i |-> e].v = v /\ [v |-> v, i |-> e].i = e
    OBVIOUS
  <2>3. ReadsAs(m, s, "expr", 1, v, e)
    BY <2>1, <2>2, Zenon
  <2> QED
    BY <1>2, <2>3 DEF ReadsAs
<1>6. ASSUME NEW v \in Meaning(s) PROVE [v |-> v, i |-> e] \in Parse(s)
  <2>1. v \in m[<<1, e>>]
    BY <1>2
  <2>2. v \in Value /\ 1 < e
    BY <1>0, <1>2, <2>1, MeaningOf
  <2>3. Covers(f, m, s, 1, e)
    BY <1>0, <1>1, <1>2, <2>2, ParserCovers
  <2>4. At(s, e) = "end"
    BY DEF At
  <2>5. f[<<"expr", e, {v}>>] \subseteq f[<<"expr", 1, {}>>]
    <3>1. At(s, e) \notin {"*", "/", "%", "^"}
      BY <2>4
    <3> QED
      BY <2>1, <2>3, <3>1, Zenon DEF Covers
  <2>6. [v |-> v, i |-> e] \in f[<<"expr", e, {v}>>]
    <3>1. At(s, e) \notin Loop["expr"]
      BY <2>4 DEF Loop
    <3>2. f[<<"expr", e, {v}>>] = {[v |-> v, i |-> e]}
      BY <1>0, <1>1, <2>2, <3>1, LoopEnds
    <3> QED
      BY <3>2
  <2> QED
    BY <1>1, <2>5, <2>6
<1>7. Single(Meaning(s))
  BY <1>0, <1>2, Zenon DEF IsMeaning
<1> QED
  BY <1>4, <1>5, <1>6, <1>7

\* What is kept of the first elements of a sequence.
IsKept(kept, s, dropped, k) ==
  kept = [n \in 0..k |-> IF n = 0 THEN <<>>
                         ELSE IF s[n] \in dropped THEN kept[n - 1] ELSE Append(kept[n - 1], s[n])]

LEMMA KeptExists ==
  ASSUME NEW s, NEW dropped, NEW k \in Nat
  PROVE  \E kept : IsKept(kept, s, dropped, k)
<1> DEFINE T == {q \in Nat : \E kept : IsKept(kept, s, dropped, q)}
<1>1. 0 \in T
  <2> DEFINE p == [n \in 0..0 |-> <<>>]
  <2>1. IsKept(p, s, dropped, 0)
    BY DEF IsKept
  <2> QED
    BY <2>1
<1>2. ASSUME NEW q \in Nat, q \in T PROVE q + 1 \in T
  <2>1. PICK p : IsKept(p, s, dropped, q)
    BY <1>2
  <2> DEFINE Next1(e, n) == IF s[n] \in dropped THEN e ELSE Append(e, s[n])
             r == [n \in 0..(q + 1) |-> IF n = q + 1 THEN Next1(p[q], n) ELSE p[n]]
  <2>2. \A e, n : Next1(e, n) = IF s[n] \in dropped THEN e ELSE Append(e, s[n])
    OBVIOUS
  <2>3. p = [n \in 0..q |-> IF n = 0 THEN <<>> ELSE Next1(p[n - 1], n)]
    BY <2>1, Zenon DEF IsKept
  <2> HIDE DEF Next1
  <2>4. ASSUME NEW n \in 0..(q + 1) PROVE r[n] = IF n = 0 THEN <<>> ELSE Next1(r[n - 1], n)
    <3>1. CASE n = q + 1
      BY <3>1
    <3>2. CASE n \in 0..q
      BY <2>3, <3>2
    <3> QED
      BY <3>1, <3>2
  <2>5. r = [n \in 0..(q + 1) |-> IF n = 0 THEN <<>> ELSE Next1(r[n - 1], n)]
    BY <2>4
  <2> HIDE DEF r
  <2>6. IsKept(r, s, dropped, q + 1)
    BY <2>5, Zenon DEF IsKept, Next1
  <2> QED
    BY <2>6
<1> HIDE DEF T
<1>3. \A q \in Nat : q \in T
  BY <1>1, <1>2, SetInduction
<1> QED
  BY <1>3 DEF T

LEMMA WithoutIsKept ==
  ASSUME NEW s, NEW dropped, Len(s) \in Nat
  PROVE  \E kept : IsKept(kept, s, dropped, Len(s)) /\ Without(s, dropped) = kept[Len(s)]
<1> DEFINE kept[n \in 0..Len(s)] ==
             IF n = 0 THEN <<>>
             ELSE IF s[n] \in dropped THEN kept[n - 1] ELSE Append(kept[n - 1], s[n])
<1>1. \E p : p = [n \in 0..Len(s) |->
                    IF n = 0 THEN <<>>
                    ELSE IF s[n] \in dropped THEN p[n - 1] ELSE Append(p[n - 1], s[n])]
  <2>1. \E p : IsKept(p, s, dropped, Len(s))
    BY KeptExists
  <2> QED
    BY <2>1, Zenon DEF IsKept
<1>2. kept = [n \in 0..Len(s) |->
                IF n = 0 THEN <<>>
                ELSE IF s[n] \in dropped THEN kept[n - 1] ELSE Append(kept[n - 1], s[n])]
  BY <1>1, Zenon
<1>3. Without(s, dropped) = kept[Len(s)]
  BY Zenon DEF Without
<1> HIDE DEF kept
<1>4. IsKept(kept, s, dropped, Len(s))
  BY <1>2, Zenon DEF IsKept
<1> QED
  BY <1>3, <1>4, Zenon

\* Without what is dropped, a sequence is a sequence still.
LEMMA WithoutIsSequence ==
  ASSUME NEW s, NEW dropped, Len(s) \in Nat
  PROVE  Without(s, dropped) \in Seq({s[i] : i \in 1..Len(s)})
<1>1. PICK kept : IsKept(kept, s, dropped, Len(s)) /\ Without(s, dropped) = kept[Len(s)]
  BY WithoutIsKept
<1> DEFINE S == {s[i] : i \in 1..Len(s)}
           T == {q \in Nat : q <= Len(s) => kept[q] \in Seq(S)}
<1>2. 0 \in T
  BY <1>1 DEF IsKept
<1>3. ASSUME NEW q \in Nat, q \in T PROVE q + 1 \in T
  <2>1. CASE q + 1 <= Len(s)
    <3>1. kept[q] \in Seq(S) /\ s[q + 1] \in S
      BY <1>3, <2>1
    <3>2. kept[q + 1] = IF s[q + 1] \in dropped THEN kept[q] ELSE Append(kept[q], s[q + 1])
      <4> DEFINE F(n) == IF n = 0 THEN <<>>
                         ELSE IF s[n] \in dropped THEN kept[n - 1]
                              ELSE Append(kept[n - 1], s[n])
      <4>1. q + 1 \in 0..Len(s) /\ q + 1 # 0 /\ q + 1 - 1 = q
        BY <2>1
      <4>2. kept = [n \in 0..Len(s) |-> F(n)]
        BY <1>1, Zenon DEF IsKept
      <4>3. F(q + 1) = IF s[q + 1] \in dropped THEN kept[q] ELSE Append(kept[q], s[q + 1])
        <5>1. F(q + 1) = IF q + 1 = 0 THEN <<>>
                         ELSE IF s[q + 1] \in dropped THEN kept[q + 1 - 1]
                              ELSE Append(kept[q + 1 - 1], s[q + 1])
          OBVIOUS
        <5>2. kept[q + 1 - 1] = kept[q]
          BY <4>1
        <5> HIDE DEF F
        <5> QED
          BY <4>1, <5>1, <5>2
      <4> HIDE DEF F
      <4>4. kept[q + 1] = F(q + 1)
        BY <4>1, <4>2
      <4> QED
        BY <4>3, <4>4
    <3> HIDE DEF S
    <3>3. kept[q + 1] \in Seq(S)
      BY <3>1, <3>2
    <3> QED
      BY <3>3
  <2> QED
    BY <2>1
<1> HIDE DEF S, T
<1>4. \A q \in Nat : q \in T
  BY <1>2, <1>3, SetInduction
<1> QED
  BY <1>1, <1>4 DEF S, T

\* The tokens of a query are a sequence.
LEMMA TokensLength ==
  ASSUME NEW query, Len(query) \in Nat, DOMAIN query = 1..Len(query)
  PROVE  Len(Tokens(Normalise(query))) \in Nat
<1> DEFINE F(i) == Ascii(query[i])
           read == [i \in DOMAIN query |-> F(i)]
           expr == Normalise(query)
           G(i) == Token(expr, i)
           taken == [i \in DOMAIN expr |-> G(i)]
<1>1. expr = Without(read, {" ", ","}) /\ Tokens(expr) = Without(taken, {"within"})
  BY Zenon DEF Normalise, Tokens
<1> HIDE DEF F, G, expr
<1>2. Len(read) \in Nat
  <2>1. read = [i \in 1..Len(query) |-> F(i)]
    OBVIOUS
  <2> QED
    BY <2>1
<1>3. expr \in Seq({read[i] : i \in 1..Len(read)})
  BY <1>1, <1>2, WithoutIsSequence
<1>4. Len(taken) \in Nat
  <2>1. Len(expr) \in Nat /\ DOMAIN expr = 1..Len(expr)
    BY <1>3
  <2>2. taken = [i \in 1..Len(expr) |-> G(i)]
    BY <2>1
  <2> QED
    BY <2>1, <2>2
<1>5. Tokens(expr) \in Seq({taken[i] : i \in 1..Len(taken)})
  BY <1>1, <1>4, WithoutIsSequence
<1> QED
  BY <1>5 DEF expr

\* What Evaluate answers is what the reference reads.
LEMMA EvaluateReads ==
  ASSUME NEW query, Len(query) \in Nat, DOMAIN query = 1..Len(query)
  PROVE  LET expr == Normalise(query)
         IN Evaluate(query) =
              IF LooksArithmetic(expr) THEN Meaning(Tokens(expr)) \cap Finites ELSE {}
<1> DEFINE expr == Normalise(query)
           s == Tokens(expr)
           ends == {t \in Parse(s) : t.i = Len(s) + 1 /\ t.v \in Finites}
<1>1. Len(s) \in Nat
  BY TokensLength
<1>2. /\ \A v : v \in Meaning(s) <=> [v |-> v, i |-> Len(s) + 1] \in Parse(s)
      /\ \A t \in Parse(s) : t = [v |-> t.v, i |-> t.i]
  BY <1>1, ParseIsMeaning
<1>3. Evaluate(query) = IF LooksArithmetic(expr) THEN {t.v : t \in ends} ELSE {}
  BY Zenon DEF Evaluate
<1> HIDE DEF s
<1>4. ASSUME NEW t \in ends PROVE t.v \in Meaning(s) /\ t.v \in Finites
  <2>1. t \in Parse(s) /\ t.i = Len(s) + 1 /\ t.v \in Finites
    OBVIOUS
  <2>2. [v |-> t.v, i |-> Len(s) + 1] \in Parse(s)
    BY <1>2, <2>1
  <2> QED
    BY <1>2, <2>1, <2>2
<1>5. ASSUME NEW v \in Meaning(s), v \in Finites PROVE v \in {t.v : t \in ends}
  <2> DEFINE t == [v |-> v, i |-> Len(s) + 1]
  <2>1. t \in Parse(s) /\ t.v = v /\ t.i = Len(s) + 1
    BY <1>2
  <2> HIDE DEF t
  <2>2. t \in ends
    BY <1>5, <2>1, Zenon
  <2> QED
    BY <2>1, <2>2, Zenon
<1> HIDE DEF ends
<1>6. {t.v : t \in ends} = Meaning(s) \cap Finites
  BY <1>4, <1>5
<1> QED
  BY <1>3, <1>6, Zenon DEF expr, s

\* At every query begun, the calculator shows a row exactly when the query, read
\* without blanks and separators, has an operator after its first character and
\* a finite value, and the row has that value.
THEOREM CalculatorReads == Spec => []CalcReads
<1>1. TypeInv => CalcReads
  <2> SUFFICES ASSUME TypeInv, NEW s \in Searches, search[s].pc = "begun"
               PROVE  LET expr == Normalise(search[s].query)
                      IN Evaluate(search[s].query) =
                           IF LooksArithmetic(expr) THEN Meaning(Tokens(expr)) \cap Finites
                           ELSE {}
    BY Zenon DEF CalcReads
  <2>1. search[s].query \in Seq(ToSet(search[s].query))
    BY CallFields
  <2>2. Len(search[s].query) \in Nat /\ DOMAIN search[s].query = 1..Len(search[s].query)
    BY <2>1
  <2> QED
    BY <2>2, EvaluateReads
<1> QED
  BY <1>1, TypeInvCorrect, PTL
=============================================================================
