---------------------------- MODULE SumTheorems -----------------------------
(***************************************************************************)
(* The sum of a function over a finite set (SumFunctionOnSet), which the   *)
(* community modules define by a fold: its recursion, and what it does     *)
(* when one term changes; and the order of a set (InOrder), which lists    *)
(* each element once.                                                      *)
(*                                                                         *)
(* Each induction over the subsets of a finite set takes a set that fails  *)
(* although no set one element short of it does (SmallestSet).             *)
(***************************************************************************)
EXTENDS Ordering, Sequences, Functions, FiniteSetTheorems, TLAPS, WellFoundedInduction

\* The element a fold takes next.
AnyOf(s) == CHOOSE x \in s : TRUE

\* g is the sum of f over each set of D.
Adds(g, f, D) ==
  g = [s \in D |-> IF s = {} THEN 0 ELSE f[AnyOf(s)] + g[s \ {AnyOf(s)}]]

\* A set of natural numbers has a least one.
LEMMA LeastSize ==
  ASSUME NEW F \in SUBSET Nat, F # {}
  PROVE  \E n \in F : \A m \in F : n <= m
<1>1. PICK x \in F : \A y \in F : ~ (<<y, x>> \in OpToRel(<, Nat))
  BY WFMin, NatLessThanWellFounded
<1>2. \A y \in F : ~ (y < x)
  BY <1>1 DEF OpToRel
<1>3. QED
  BY <1>2

\* What holds at the start and is kept by every turn holds to the end.
LEMMA Upward ==
  ASSUME NEW turns \in Nat, NEW G, 0 \in G, \A n \in 1..turns : n - 1 \in G => n \in G
  PROVE  \A n \in 0..turns : n \in G
<1> DEFINE F == {n \in 0..turns : n \notin G}
<1> SUFFICES ASSUME F # {} PROVE FALSE
  OBVIOUS
<1>1. F \in SUBSET Nat
  OBVIOUS
<1> HIDE DEF F
<1>2. PICK n \in F : \A m \in F : n <= m
  BY <1>1, LeastSize
<1>3. n \in 1..turns /\ n - 1 \in 0..turns /\ n - 1 \notin F
  BY <1>1, <1>2 DEF F
<1>4. QED
  BY <1>2, <1>3 DEF F

\* A function with distinct values has as many as it has arguments.
LEMMA ImageCount ==
  ASSUME NEW S, IsFiniteSet(S), NEW f, \A x, y \in S : f[x] = f[y] => x = y
  PROVE  /\ IsFiniteSet({f[x] : x \in S})
         /\ Cardinality({f[x] : x \in S}) = Cardinality(S)
<1> DEFINE T == {f[x] : x \in S}
           g == [x \in S |-> f[x]]
<1>1. g \in Bijection(S, T)
  BY DEF Bijection, Injection, Surjection, IsInjective
<1>2. QED
  BY <1>1, FS_Bijection DEF ExistsBijection

\* A set that is listed without repetitions has as many as the list is long.
LEMMA ListCount ==
  ASSUME NEW n \in Nat, NEW q, \A i, j \in 1..n : q[i] = q[j] => i = j,
         NEW T, \A i \in 1..n : q[i] \in T, \A x \in T : \E i \in 1..n : q[i] = x
  PROVE  IsFiniteSet(T) /\ Cardinality(T) = n
<1> DEFINE N == 1..n
<1>1. IsFiniteSet(N) /\ Cardinality(N) = n
  BY FS_Interval
<1>2. \A i, j \in N : q[i] = q[j] => i = j
  OBVIOUS
<1>3. T = {q[i] : i \in N}
  OBVIOUS
<1> HIDE DEF N
<1>4. IsFiniteSet({q[i] : i \in N}) /\ Cardinality({q[i] : i \in N}) = Cardinality(N)
  BY <1>1, <1>2, ImageCount
<1>5. QED
  BY <1>1, <1>3, <1>4

\* The sequence has each element of the set in one place.
Lists(q, S) ==
  /\ Len(q) = Cardinality(S) /\ Cardinality(S) \in Nat
  /\ DOMAIN q = 1..Cardinality(S) /\ q \in [1..Cardinality(S) -> S]
  /\ \A i \in 1..Cardinality(S) : q[i] \in S
  /\ \A i, j \in 1..Cardinality(S) : q[i] = q[j] => i = j
  /\ \A x \in S : \E i \in 1..Cardinality(S) : q[i] = x

\* An element's place is the number of those up to it.
Ascends(q, S, key) ==
  \A i \in 1..Cardinality(S) : Cardinality({y \in S : key[y] <= key[q[i]]}) = i

\* In order of distinct keys, every element has the place that its key gives it.
LEMMA InOrderLists ==
  ASSUME NEW S, IsFiniteSet(S), NEW key, \A x \in S : key[x] \in Int,
         \A x, y \in S : key[x] = key[y] => x = y
  PROVE  Lists(InOrder(S, key), S) /\ Ascends(InOrder(S, key), S, key)
<1> DEFINE n == Cardinality(S)
           UpTo(x) == {y \in S : key[y] <= key[x]}
           place == [x \in S |-> Cardinality(UpTo(x))]
           q == InOrder(S, key)
<1>1. n \in Nat
  BY FS_CardinalityType
<1>2. \A x \in S : IsFiniteSet(UpTo(x)) /\ Cardinality(UpTo(x)) \in 1..n
  <2> TAKE x \in S
  <2>1. IsFiniteSet(UpTo(x)) /\ Cardinality(UpTo(x)) <= n
    BY FS_Subset
  <2>2. x \in UpTo(x)
    OBVIOUS
  <2>3. Cardinality(UpTo(x)) \in Nat /\ Cardinality(UpTo(x)) # 0
    BY <2>1, <2>2, FS_CardinalityType, FS_EmptySet
  <2>4. QED
    BY <1>1, <2>1, <2>3
<1>3. \A x, y \in S : key[x] < key[y] => place[x] < place[y]
  <2> SUFFICES ASSUME NEW x \in S, NEW y \in S, key[x] < key[y]
               PROVE  place[x] < place[y]
    OBVIOUS
  <2>1. UpTo(x) \subseteq UpTo(y) /\ y \in UpTo(y) /\ y \notin UpTo(x)
    OBVIOUS
  <2> HIDE DEF UpTo
  <2>2. Cardinality(UpTo(x)) <= Cardinality(UpTo(y)) /\ Cardinality(UpTo(x)) # Cardinality(UpTo(y))
    BY <1>2, <2>1, FS_Subset
  <2>3. QED
    BY <1>2, <2>2
<1> HIDE DEF UpTo
<1>4. place \in [S -> 1..n]
  BY <1>2
<1>5. \A x, y \in S : place[x] = place[y] => x = y
  <2> SUFFICES ASSUME NEW x \in S, NEW y \in S, x # y
               PROVE  place[x] # place[y]
    OBVIOUS
  <2>1. key[x] < key[y] \/ key[y] < key[x]
    OBVIOUS
  <2>2. place[x] \in Nat /\ place[y] \in Nat
    BY <1>4
  <2> HIDE DEF place
  <2>3. QED
    BY <1>3, <2>1, <2>2
<1> HIDE DEF place
<1>6. \A i \in 1..n : \E x \in S : place[x] = i
  <2> DEFINE image == {place[x] : x \in S}
  <2>1. place \in Bijection(S, image)
    BY <1>4, <1>5 DEF Bijection, Injection, Surjection, IsInjective
  <2>2. Cardinality(image) = n
    BY <2>1, FS_Bijection DEF ExistsBijection
  <2>3. image \subseteq 1..n
    BY <1>4
  <2>4. IsFiniteSet(1..n) /\ Cardinality(1..n) = n
    BY <1>1, FS_Interval
  <2> HIDE DEF image
  <2>5. image = 1..n
    BY <2>2, <2>3, <2>4, FS_Subset
  <2>6. QED
    BY <2>5 DEF image
<1>7. q = [i \in 1..n |-> CHOOSE x \in S : place[x] = i]
  BY DEF InOrder, place, UpTo
<1> HIDE DEF q, n
<1>8. \A i \in 1..n : q[i] \in S /\ place[q[i]] = i
  <2> TAKE i \in 1..n
  <2>1. \E x \in S : place[x] = i
    BY <1>6
  <2>2. q[i] = CHOOSE x \in S : place[x] = i
    BY <1>7
  <2>3. QED
    BY <2>1, <2>2
<1>9. Len(q) = n /\ DOMAIN q = 1..n /\ q \in [1..n -> S]
  <2> DEFINE E(i) == CHOOSE x \in S : place[x] = i
  <2>1. q = [i \in 1..n |-> E(i)]
    BY <1>7
  <2> HIDE DEF E
  <2>2. DOMAIN q = 1..n /\ Len(q) = n
    BY <1>1, <2>1
  <2>3. \A i \in 1..n : E(i) \in S
    BY <1>8, <2>1
  <2>4. q \in [1..n -> S]
    BY <2>1, <2>3
  <2>5. QED
    BY <2>2, <2>4
<1>10. \A x \in S : place[x] \in 1..n /\ q[place[x]] = x
  BY <1>4, <1>5, <1>8
<1>11. \A i, j \in 1..n : q[i] = q[j] => i = j
  BY <1>8
<1>12. Lists(q, S)
  <2>1. \A x \in S : \E i \in 1..n : q[i] = x
    BY <1>10
  <2>2. QED
    BY <1>1, <1>8, <1>9, <1>11, <2>1 DEF Lists, n
<1>13. Ascends(q, S, key)
  <2>1. \A x \in S : place[x] = Cardinality({y \in S : key[y] <= key[x]})
    BY DEF place, UpTo
  <2>2. \A i \in 1..n : Cardinality({y \in S : key[y] <= key[q[i]]}) = i
    BY <1>8, <2>1
  <2>3. QED
    BY <2>2 DEF Ascends, n
<1>14. QED
  BY <1>12, <1>13 DEF q

\* In that order the keys rise.
LEMMA InOrderRises ==
  ASSUME NEW S, IsFiniteSet(S), NEW key, \A x \in S : key[x] \in Int,
         \A x, y \in S : key[x] = key[y] => x = y,
         NEW i \in 1..Cardinality(S), NEW j \in 1..Cardinality(S), i < j
  PROVE  key[InOrder(S, key)[i]] < key[InOrder(S, key)[j]]
<1> DEFINE q == InOrder(S, key)
           UpTo(x) == {y \in S : key[y] <= key[x]}
<1>1. Lists(q, S) /\ Ascends(q, S, key)
  BY InOrderLists
<1>2. q[i] \in S /\ q[j] \in S /\ Cardinality(UpTo(q[i])) = i /\ Cardinality(UpTo(q[j])) = j
  BY <1>1 DEF Lists, Ascends
<1> SUFFICES ASSUME ~(key[q[i]] < key[q[j]]) PROVE FALSE
  OBVIOUS
<1> HIDE DEF q
<1>3. UpTo(q[j]) \subseteq UpTo(q[i]) /\ IsFiniteSet(UpTo(q[i]))
  BY <1>2, FS_Subset
<1> HIDE DEF UpTo
<1>4. Cardinality(UpTo(q[j])) <= Cardinality(UpTo(q[i]))
  BY <1>3, FS_Subset
<1>5. QED
  BY <1>2, <1>4

\* A list of the set with its keys rising.
Sorts(q, n, S, key) ==
  /\ q \in [1..n -> S]
  /\ \A x \in S : \E i \in 1..n : q[i] = x
  /\ \A i, j \in 1..n : i < j => key[q[i]] < key[q[j]]

\* There is no other.
LEMMA InOrderIs ==
  ASSUME NEW S, IsFiniteSet(S), NEW key, \A x \in S : key[x] \in Int,
         \A x, y \in S : key[x] = key[y] => x = y,
         NEW n \in Nat, NEW q, Sorts(q, n, S, key)
  PROVE  Cardinality(S) = n /\ InOrder(S, key) = q
<1> USE DEF Sorts
<1> DEFINE p == InOrder(S, key)
           UpTo(x) == {y \in S : key[y] <= key[x]}
<1>1. Lists(p, S) /\ Ascends(p, S, key)
  BY InOrderLists
<1>2. \A i \in 1..n : q[i] \in S /\ key[q[i]] \in Int
  OBVIOUS
<1>3. \A i, j \in 1..n : q[i] = q[j] => i = j
  <2> SUFFICES ASSUME NEW i \in 1..n, NEW j \in 1..n, i # j
               PROVE  key[q[i]] # key[q[j]]
    OBVIOUS
  <2>1. i < j \/ j < i
    OBVIOUS
  <2>2. QED
    BY <1>2, <2>1
<1>4. \A i \in 1..n : Cardinality(UpTo(q[i])) = i
  <2> TAKE i \in 1..n
  <2>1. \A j \in 1..n : key[q[j]] <= key[q[i]] <=> j <= i
    <3> TAKE j \in 1..n
    <3>1. i < j \/ j < i \/ i = j
      OBVIOUS
    <3>2. QED
      BY <1>2, <3>1
  <2>2. \A j \in 1..i : q[j] \in UpTo(q[i])
    BY <2>1
  <2>3. \A x \in UpTo(q[i]) : \E j \in 1..i : q[j] = x
    BY <2>1
  <2>4. \A j, k \in 1..i : q[j] = q[k] => j = k
    BY <1>3
  <2> HIDE DEF UpTo
  <2>5. QED
    BY <2>2, <2>3, <2>4, ListCount
<1>5. Cardinality(S) = n
  BY <1>3, ListCount
<1> HIDE DEF p
<1>6. \A i \in 1..n : p[i] = q[i]
  <2> TAKE i \in 1..n
  <2>1. p[i] \in S /\ Cardinality(UpTo(p[i])) = i
    BY <1>1, <1>5 DEF Lists, Ascends
  <2>2. PICK j \in 1..n : p[i] = q[j]
    BY <2>1
  <2>3. i = j
    BY <1>4, <2>1, <2>2
  <2>4. QED
    BY <2>2, <2>3
<1>7. p = [i \in 1..n |-> p[i]]
  BY <1>1, <1>5 DEF Lists
<1>8. [i \in 1..n |-> p[i]] = q
  BY <1>6
<1>9. QED
  BY <1>5, <1>7, <1>8 DEF p

\* The sum as the function its recursion defines.
LEMMA SumUnfolds ==
  ASSUME NEW f, NEW S
  PROVE  SumFunctionOnSet(f, S) = (CHOOSE g : Adds(g, f, SUBSET S))[S]
BY DEF SumFunctionOnSet, FoldFunctionOnSet, MapThenFoldSet, Adds, AnyOf

\* A nonempty finite set without one of its elements.
LEMMA Smaller ==
  ASSUME NEW S, IsFiniteSet(S), NEW x \in S
  PROVE  /\ IsFiniteSet(S \ {x})
         /\ Cardinality(S) \in Nat /\ Cardinality(S \ {x}) = Cardinality(S) - 1
         /\ Cardinality(S \ {x}) \in Nat
BY FS_RemoveElement, FS_CardinalityType

\* A set of subsets of a finite set has a member that no other is one element
\* short of: what holds of a set whenever it holds without one of the
\* elements holds of every finite set.
LEMMA SmallestSet ==
  ASSUME NEW S, IsFiniteSet(S), NEW Bad \in SUBSET SUBSET S, Bad # {}
  PROVE  \E s \in Bad : \A y \in s : s \ {y} \notin Bad
<1> DEFINE F == {Cardinality(s) : s \in Bad}
<1>1. \A s \in Bad : IsFiniteSet(s) /\ Cardinality(s) \in Nat
  BY FS_Subset, FS_CardinalityType
<1>2. F \in SUBSET Nat /\ F # {}
  BY <1>1
<1>3. PICK n \in F : \A m \in F : n <= m
  BY <1>2, LeastSize
<1>4. PICK s \in Bad : n = Cardinality(s)
  BY <1>3
<1>5. ASSUME NEW y \in s, s \ {y} \in Bad
      PROVE  FALSE
  <2>1. Cardinality(s) \in Nat /\ Cardinality(s \ {y}) = Cardinality(s) - 1
    BY <1>1, Smaller
  <2>2. Cardinality(s \ {y}) \in F
    BY <1>5
  <2> HIDE DEF F
  <2>3. n <= Cardinality(s \ {y})
    BY <1>3, <2>2
  <2>4. QED
    BY <1>4, <2>1, <2>3
<1>6. QED
  BY <1>4, <1>5

\* Of a nonempty set there is an element to take.
LEMMA AnyIn ==
  ASSUME NEW S, S # {}
  PROVE  AnyOf(S) \in S
BY DEF AnyOf

\* There is such a function on the subsets of a finite set: one for the sets
\* of a size gives one for those of the next.
LEMMA AddsExists ==
  ASSUME NEW f, NEW S, IsFiniteSet(S)
  PROVE  \E g : Adds(g, f, SUBSET S)
<1> DEFINE W(n) == {s \in SUBSET S : Cardinality(s) <= n}
           F == {n \in Nat : ~ \E g : Adds(g, f, W(n))}
<1>1. \A s \in SUBSET S : IsFiniteSet(s) /\ Cardinality(s) \in Nat
  BY FS_Subset, FS_CardinalityType
<1>2. \E g : Adds(g, f, W(0))
  <2>1. \A s \in W(0) : s = {}
    BY <1>1, FS_EmptySet
  <2>2. Adds([s \in W(0) |-> 0], f, W(0))
    BY <2>1 DEF Adds
  <2>3. QED
    BY <2>2
<1>3. ASSUME NEW n \in Nat, NEW g, Adds(g, f, W(n))
      PROVE  \E h : Adds(h, f, W(n + 1))
  <2> DEFINE h == [s \in W(n + 1) |-> IF s = {} THEN 0 ELSE f[AnyOf(s)] + g[s \ {AnyOf(s)}]]
  <2>1. ASSUME NEW s \in W(n + 1), s # {}
        PROVE  h[s \ {AnyOf(s)}] = g[s \ {AnyOf(s)}]
    <3> DEFINE t == s \ {AnyOf(s)}
    <3>1. t \in W(n)
      BY <1>1, <2>1, AnyIn, Smaller
    <3>2. t \in W(n + 1)
      BY <1>1, <3>1
    <3> HIDE DEF t
    <3>3. h[t] = IF t = {} THEN 0 ELSE f[AnyOf(t)] + g[t \ {AnyOf(t)}]
      BY <3>2
    <3> HIDE DEF h, W
    <3>4. g[t] = IF t = {} THEN 0 ELSE f[AnyOf(t)] + g[t \ {AnyOf(t)}]
      BY <1>3, <3>1 DEF Adds
    <3>5. QED
      BY <3>3, <3>4 DEF t
  <2>2. h = [s \in W(n + 1) |-> IF s = {} THEN 0 ELSE f[AnyOf(s)] + h[s \ {AnyOf(s)}]]
    <3> DEFINE a == [s \in W(n + 1) |-> IF s = {} THEN 0 ELSE f[AnyOf(s)] + g[s \ {AnyOf(s)}]]
    <3> DEFINE b == [s \in W(n + 1) |-> IF s = {} THEN 0 ELSE f[AnyOf(s)] + h[s \ {AnyOf(s)}]]
    <3> HIDE DEF h
    <3>1. \A s \in W(n + 1) : a[s] = b[s]
      BY <2>1
    <3>2. a = b
      BY <3>1
    <3>3. QED
      BY <3>2 DEF h
  <2>3. QED
    BY <2>2 DEF Adds
<1>4. F = {}
  <2> SUFFICES ASSUME F # {} PROVE FALSE
    OBVIOUS
  <2>1. PICK n \in F : \A m \in F : n <= m
    BY LeastSize
  <2>2. n # 0
    BY <1>2, <2>1
  <2>3. n - 1 \in Nat /\ n - 1 \notin F /\ (n - 1) + 1 = n
    <3>1. F \in SUBSET Nat
      OBVIOUS
    <3> HIDE DEF F
    <3>2. QED
      BY <2>1, <2>2, <3>1
  <2>4. \E g : Adds(g, f, W(n - 1))
    BY <2>3
  <2>5. \E g : Adds(g, f, W(n))
    BY <1>3, <2>3, <2>4
  <2>6. QED
    BY <2>1, <2>5
<1>5. Cardinality(S) \in Nat /\ W(Cardinality(S)) = SUBSET S
  BY <1>1, FS_Subset
<1>6. \E g : Adds(g, f, W(Cardinality(S)))
  BY <1>4, <1>5
<1>7. QED
  BY <1>5, <1>6

\* Two such functions agree where both are defined.
LEMMA AddsAgree ==
  ASSUME NEW f, NEW S, IsFiniteSet(S), NEW T \in SUBSET S, NEW g, NEW h,
         Adds(g, f, SUBSET S), Adds(h, f, SUBSET T)
  PROVE  g[T] = h[T]
<1> DEFINE Bad == {s \in SUBSET T : g[s] # h[s]}
<1> SUFFICES ASSUME Bad # {} PROVE FALSE
  OBVIOUS
<1>1. PICK s \in Bad : \A y \in s : s \ {y} \notin Bad
  <2>1. IsFiniteSet(T) /\ Bad \in SUBSET SUBSET T
    BY FS_Subset
  <2> HIDE DEF Bad
  <2>2. QED
    BY <2>1, SmallestSet
<1>2. /\ g[s] = IF s = {} THEN 0 ELSE f[AnyOf(s)] + g[s \ {AnyOf(s)}]
      /\ h[s] = IF s = {} THEN 0 ELSE f[AnyOf(s)] + h[s \ {AnyOf(s)}]
  BY DEF Adds
<1>3. s # {} /\ g[s \ {AnyOf(s)}] # h[s \ {AnyOf(s)}]
  BY <1>2
<1>4. AnyOf(s) \in s /\ s \ {AnyOf(s)} \in SUBSET T
  BY <1>3, AnyIn
<1>5. QED
  BY <1>1, <1>3, <1>4

\* The recursion of the sum.
LEMMA SumRecursion ==
  ASSUME NEW f, NEW S, IsFiniteSet(S)
  PROVE  SumFunctionOnSet(f, S) =
           IF S = {} THEN 0 ELSE f[AnyOf(S)] + SumFunctionOnSet(f, S \ {AnyOf(S)})
<1> DEFINE G(T) == CHOOSE g : Adds(g, f, SUBSET T)
<1>1. \A T \in SUBSET S : IsFiniteSet(T)
  BY FS_Subset
<1>2. \A T \in SUBSET S : Adds(G(T), f, SUBSET T)
  BY <1>1, AddsExists
<1>3. \A T \in SUBSET S : SumFunctionOnSet(f, T) = G(T)[T]
  BY SumUnfolds
<1> HIDE DEF G
<1>4. ASSUME NEW T \in SUBSET S
      PROVE  G(S)[T] = G(T)[T]
  <2>1. Adds(G(S), f, SUBSET S) /\ Adds(G(T), f, SUBSET T)
    BY <1>2
  <2>2. QED
    BY <2>1, AddsAgree
<1>5. G(S)[S] = IF S = {} THEN 0 ELSE f[AnyOf(S)] + G(S)[S \ {AnyOf(S)}]
  BY <1>2 DEF Adds
<1>6. S \ {AnyOf(S)} \in SUBSET S
  OBVIOUS
<1>7. QED
  BY <1>3, <1>4, <1>5, <1>6

\* The sum over a set of a function to the natural numbers.
LEMMA SumNat ==
  ASSUME NEW S, IsFiniteSet(S), NEW f, \A x \in S : f[x] \in Nat
  PROVE  SumFunctionOnSet(f, S) \in Nat
<1> DEFINE Sum(s) == SumFunctionOnSet(f, s)
           Bad == {s \in SUBSET S : Sum(s) \notin Nat}
<1> SUFFICES ASSUME Bad # {} PROVE FALSE
  OBVIOUS
<1>1. \A s \in SUBSET S : IsFiniteSet(s)
  BY FS_Subset
<1>2. PICK s \in Bad : \A y \in s : s \ {y} \notin Bad
  <2>1. Bad \in SUBSET SUBSET S
    OBVIOUS
  <2> HIDE DEF Bad
  <2>2. QED
    BY <2>1, SmallestSet
<1>3. Sum(s) = IF s = {} THEN 0 ELSE f[AnyOf(s)] + Sum(s \ {AnyOf(s)})
  BY <1>1, SumRecursion
<1> HIDE DEF Sum
<1>4. s # {}
  BY <1>3
<1>5. AnyOf(s) \in s /\ f[AnyOf(s)] \in Nat /\ s \ {AnyOf(s)} \in SUBSET S
  BY <1>4, AnyIn
<1>6. Sum(s \ {AnyOf(s)}) \in Nat
  BY <1>2, <1>5
<1>7. QED
  BY <1>3, <1>4, <1>5, <1>6

\* Any element can be taken out of a sum.
LEMMA SumRemove ==
  ASSUME NEW S, IsFiniteSet(S), NEW f, \A x \in S : f[x] \in Nat, NEW x \in S
  PROVE  SumFunctionOnSet(f, S) = f[x] + SumFunctionOnSet(f, S \ {x})
<1> DEFINE Sum(s) == SumFunctionOnSet(f, s)
           Out(s) == \A y \in s : Sum(s) = f[y] + Sum(s \ {y})
           Bad == {s \in SUBSET S : ~Out(s)}
<1> SUFFICES ASSUME Bad # {} PROVE FALSE
  OBVIOUS
<1>1. \A s \in SUBSET S : IsFiniteSet(s)
  BY FS_Subset
<1>2. PICK s \in Bad : \A y \in s : s \ {y} \notin Bad
  <2>1. Bad \in SUBSET SUBSET S
    OBVIOUS
  <2> HIDE DEF Bad
  <2>2. QED
    BY <2>1, SmallestSet
<1>3. PICK y \in s : Sum(s) # f[y] + Sum(s \ {y})
  OBVIOUS
<1> DEFINE a == AnyOf(s)
<1>4. a \in s /\ Sum(s) = f[a] + Sum(s \ {a})
  BY <1>1, <1>3, SumRecursion, AnyIn
<1>5. a # y
  BY <1>3, <1>4
<1>6. \A r \in SUBSET S : Sum(r) \in Nat
  BY <1>1, SumNat
<1>7. Out(s \ {a}) /\ Out(s \ {y})
  BY <1>2, <1>4
<1> HIDE DEF Sum, Bad, a
<1>8. Sum(s \ {a}) = f[y] + Sum((s \ {a}) \ {y})
  BY <1>5, <1>7
<1>9. Sum(s \ {y}) = f[a] + Sum((s \ {y}) \ {a})
  BY <1>4, <1>5, <1>7
<1>10. (s \ {a}) \ {y} = (s \ {y}) \ {a} /\ (s \ {a}) \ {y} \in SUBSET S
  BY DEF Bad
<1>11. f[a] \in Nat /\ f[y] \in Nat /\ Sum((s \ {a}) \ {y}) \in Nat
  BY <1>4, <1>6, <1>10 DEF Bad
<1>12. QED
  BY <1>3, <1>4, <1>8, <1>9, <1>10, <1>11

\* Functions that agree on a set have the same sum over it.
LEMMA SumSame ==
  ASSUME NEW S, IsFiniteSet(S), NEW f, NEW g, \A x \in S : f[x] = g[x]
  PROVE  SumFunctionOnSet(f, S) = SumFunctionOnSet(g, S)
<1> DEFINE A(s) == SumFunctionOnSet(f, s)
           B(s) == SumFunctionOnSet(g, s)
           Bad == {s \in SUBSET S : A(s) # B(s)}
<1> SUFFICES ASSUME Bad # {} PROVE FALSE
  OBVIOUS
<1>1. \A s \in SUBSET S : IsFiniteSet(s)
  BY FS_Subset
<1>2. PICK s \in Bad : \A y \in s : s \ {y} \notin Bad
  <2>1. Bad \in SUBSET SUBSET S
    OBVIOUS
  <2> HIDE DEF Bad
  <2>2. QED
    BY <2>1, SmallestSet
<1>3. /\ A(s) = IF s = {} THEN 0 ELSE f[AnyOf(s)] + A(s \ {AnyOf(s)})
      /\ B(s) = IF s = {} THEN 0 ELSE g[AnyOf(s)] + B(s \ {AnyOf(s)})
  BY <1>1, SumRecursion
<1> HIDE DEF A, B
<1>4. s # {} /\ A(s) # B(s)
  BY <1>3
<1>5. AnyOf(s) \in s /\ f[AnyOf(s)] = g[AnyOf(s)] /\ s \ {AnyOf(s)} \in SUBSET S
  BY <1>4, AnyIn
<1>6. A(s \ {AnyOf(s)}) = B(s \ {AnyOf(s)})
  BY <1>2, <1>5
<1>7. QED
  BY <1>3, <1>4, <1>5, <1>6

\* A sum in which one term changed.
LEMMA SumChange ==
  ASSUME NEW S, IsFiniteSet(S), NEW x, NEW f, NEW g,
         \A y \in S : f[y] \in Nat /\ g[y] \in Nat,
         \A y \in S : y # x => g[y] = f[y]
  PROVE  /\ x \in S => SumFunctionOnSet(g, S) + f[x] = SumFunctionOnSet(f, S) + g[x]
         /\ x \notin S => SumFunctionOnSet(g, S) = SumFunctionOnSet(f, S)
<1>1. IsFiniteSet(S \ {x})
  BY FS_Subset
<1>2. CASE x \in S
  <2>1. SumFunctionOnSet(f, S) = f[x] + SumFunctionOnSet(f, S \ {x})
    BY <1>2, SumRemove
  <2>2. SumFunctionOnSet(g, S) = g[x] + SumFunctionOnSet(g, S \ {x})
    BY <1>2, SumRemove
  <2>3. SumFunctionOnSet(f, S \ {x}) = SumFunctionOnSet(g, S \ {x})
    BY <1>1, SumSame
  <2>4. SumFunctionOnSet(f, S \ {x}) \in Nat
    BY <1>1, SumNat
  <2>5. QED
    BY <1>2, <2>1, <2>2, <2>3, <2>4
<1>3. CASE x \notin S
  <2>1. SumFunctionOnSet(f, S) = SumFunctionOnSet(g, S)
    BY <1>3, SumSame
  <2>2. QED
    BY <1>3, <2>1
<1>4. QED
  BY <1>2, <1>3

\* A sum of zeros.
LEMMA SumZero ==
  ASSUME NEW S, IsFiniteSet(S), NEW f, \A x \in S : f[x] = 0
  PROVE  SumFunctionOnSet(f, S) = 0
<1> DEFINE Sum(s) == SumFunctionOnSet(f, s)
           Bad == {s \in SUBSET S : Sum(s) # 0}
<1> SUFFICES ASSUME Bad # {} PROVE FALSE
  OBVIOUS
<1>1. \A s \in SUBSET S : IsFiniteSet(s)
  BY FS_Subset
<1>2. PICK s \in Bad : \A y \in s : s \ {y} \notin Bad
  <2>1. Bad \in SUBSET SUBSET S
    OBVIOUS
  <2> HIDE DEF Bad
  <2>2. QED
    BY <2>1, SmallestSet
<1>3. Sum(s) = IF s = {} THEN 0 ELSE f[AnyOf(s)] + Sum(s \ {AnyOf(s)})
  BY <1>1, SumRecursion
<1> HIDE DEF Sum
<1>4. s # {} /\ Sum(s) # 0
  BY <1>3
<1>5. AnyOf(s) \in s /\ f[AnyOf(s)] = 0 /\ s \ {AnyOf(s)} \in SUBSET S
  BY <1>4, AnyIn
<1>6. Sum(s \ {AnyOf(s)}) = 0
  BY <1>2, <1>5
<1>7. QED
  BY <1>3, <1>4, <1>5, <1>6

\* A term of a sum is at most the sum.
LEMMA SumTerm ==
  ASSUME NEW S, IsFiniteSet(S), NEW f, \A x \in S : f[x] \in Nat, NEW x \in S
  PROVE  f[x] <= SumFunctionOnSet(f, S)
<1>1. SumFunctionOnSet(f, S) = f[x] + SumFunctionOnSet(f, S \ {x})
  BY SumRemove
<1>2. SumFunctionOnSet(f, S \ {x}) \in Nat
  BY FS_Subset, SumNat
<1>3. QED
  BY <1>1, <1>2

\* Disjoint sets have as many elements together as the sum of their sizes.
LEMMA UnionCount ==
  ASSUME NEW K, IsFiniteSet(K), NEW part, NEW size,
         \A k \in K : IsFiniteSet(part[k]) /\ Cardinality(part[k]) = size[k],
         \A j, k \in K : j # k => part[j] \cap part[k] = {}
  PROVE  /\ IsFiniteSet(UNION {part[k] : k \in K})
         /\ Cardinality(UNION {part[k] : k \in K}) = SumFunctionOnSet(size, K)
<1> DEFINE All(s) == UNION {part[k] : k \in s}
           Counts(s) == IsFiniteSet(All(s)) /\ Cardinality(All(s)) = SumFunctionOnSet(size, s)
           Bad == {s \in SUBSET K : ~Counts(s)}
<1> SUFFICES ASSUME Bad # {} PROVE FALSE
  OBVIOUS
<1>1. PICK s \in Bad : \A y \in s : s \ {y} \notin Bad
  <2>1. Bad \in SUBSET SUBSET K
    OBVIOUS
  <2> HIDE DEF Bad
  <2>2. QED
    BY <2>1, SmallestSet
<1>2. IsFiniteSet(s) /\ s \in SUBSET K /\ ~Counts(s)
  BY <1>1, FS_Subset
<1>3. SumFunctionOnSet(size, s)
        = IF s = {} THEN 0 ELSE size[AnyOf(s)] + SumFunctionOnSet(size, s \ {AnyOf(s)})
  BY <1>2, SumRecursion
<1>4. s # {}
  <2> SUFFICES ASSUME s = {} PROVE FALSE
    OBVIOUS
  <2>1. All(s) = {}
    OBVIOUS
  <2>2. SumFunctionOnSet(size, s) = 0
    BY <1>3
  <2> HIDE DEF All
  <2>3. IsFiniteSet(All(s)) /\ Cardinality(All(s)) = 0
    BY <2>1, FS_EmptySet
  <2>4. QED
    BY <1>2, <2>2, <2>3
<1> DEFINE a == AnyOf(s)
           rest == s \ {a}
<1>5. a \in s /\ a \in K /\ rest \in SUBSET K
  BY <1>2, <1>4, AnyIn
<1>6. Counts(rest)
  BY <1>1, <1>5
<1>7. All(s) = part[a] \cup All(rest)
  BY <1>5
<1>8. part[a] \cap All(rest) = {}
  BY <1>2, <1>5
<1>9. IsFiniteSet(part[a]) /\ Cardinality(part[a]) = size[a]
  BY <1>5
<1> HIDE DEF a, rest, All
<1>10. /\ IsFiniteSet(All(s))
       /\ Cardinality(All(s)) = Cardinality(part[a]) + Cardinality(All(rest)) - Cardinality({})
  <2> DEFINE X == part[a]
             Y == All(rest)
  <2>1. IsFiniteSet(X) /\ IsFiniteSet(Y) /\ X \cap Y = {} /\ All(s) = X \cup Y
    BY <1>6, <1>7, <1>8, <1>9
  <2> HIDE DEF X, Y
  <2>2. /\ IsFiniteSet(X \cup Y)
        /\ Cardinality(X \cup Y) = Cardinality(X) + Cardinality(Y) - Cardinality({})
    <3>1. Cardinality(X \cap Y) = Cardinality({})
      BY <2>1
    <3>2. QED
      BY <2>1, <3>1, FS_Union
  <2>3. QED
    BY <2>1, <2>2 DEF X, Y
<1>11. Cardinality({}) = 0 /\ Cardinality(part[a]) \in Nat /\ Cardinality(All(rest)) \in Nat
  BY <1>6, <1>9, FS_EmptySet, FS_CardinalityType
<1>12. Cardinality(All(s)) = size[a] + SumFunctionOnSet(size, rest)
  BY <1>6, <1>9, <1>10, <1>11
<1>13. QED
  BY <1>2, <1>3, <1>4, <1>10, <1>12 DEF a, rest
===========================================================================
