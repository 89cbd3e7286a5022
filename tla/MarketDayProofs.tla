-------------------------- MODULE MarketDayProofs ---------------------------
(***************************************************************************)
(* What an evaluation makes of the clock and of the bars, for any windows  *)
(* of days, moments, prices, derivation profile and published schedule.    *)
(***************************************************************************)
EXTENDS MarketDay, SumTheorems, SequenceTheorems

-----------------------------------------------------------------------------
(***************************************************************************)
(* Dates in order.                                                         *)
(***************************************************************************)
Dates(D) == InOrder(D, [d \in D |-> d])

Before(D, b) == {d \in D : d < b}

Since(D, a) == {d \in D : a <= d}

\* A set of dates in order: each once, rising, at the place that is the
\* number of dates up to it.
LEMMA DatesRise ==
  ASSUME NEW D, IsFiniteSet(D), D \subseteq Int
  PROVE  /\ Cardinality(D) \in Nat
         /\ Dates(D) \in [1..Cardinality(D) -> D] /\ DOMAIN Dates(D) = 1..Cardinality(D)
         /\ \A i \in 1..Cardinality(D) : Dates(D)[i] \in D /\ Dates(D)[i] \in Int
         /\ \A x \in D : \E i \in 1..Cardinality(D) : Dates(D)[i] = x
         /\ \A i \in 1..Cardinality(D) : Cardinality({e \in D : e <= Dates(D)[i]}) = i
         /\ \A i, j \in 1..Cardinality(D) : i < j => Dates(D)[i] < Dates(D)[j]
<1> DEFINE key == [d \in D |-> d]
           q == InOrder(D, key)
           n == Cardinality(D)
<1>1. /\ \A x \in D : key[x] = x /\ key[x] \in Int
      /\ \A x, y \in D : key[x] = key[y] => x = y
  OBVIOUS
<1> HIDE DEF key
<1>2. Lists(q, D) /\ Ascends(q, D, key)
  BY <1>1, InOrderLists
<1>3. \A i, j \in 1..n : i < j => key[q[i]] < key[q[j]]
  BY <1>1, InOrderRises
<1> HIDE DEF q
<1>4. /\ n \in Nat /\ q \in [1..n -> D] /\ DOMAIN q = 1..n
      /\ \A i \in 1..n : q[i] \in D
      /\ \A x \in D : \E i \in 1..n : q[i] = x
  BY <1>2 DEF Lists
<1>5. \A i \in 1..n : q[i] \in Int
  BY <1>4
<1>6. \A i \in 1..n : Cardinality({e \in D : e <= q[i]}) = i
  <2> TAKE i \in 1..n
  <2>1. {e \in D : e <= q[i]} = {e \in D : key[e] <= key[q[i]]}
    BY <1>1, <1>4
  <2>2. QED
    BY <1>2, <2>1 DEF Ascends
<1>7. \A i, j \in 1..n : i < j => q[i] < q[j]
  BY <1>1, <1>3, <1>4
<1>8. QED
  BY <1>4, <1>5, <1>6, <1>7 DEF Dates, q, key

\* Whatever lists the dates rising is that order.
LEMMA DatesAre ==
  ASSUME NEW D, IsFiniteSet(D), D \subseteq Int, NEW n \in Nat, NEW q \in [1..n -> D],
         \A x \in D : \E i \in 1..n : q[i] = x,
         \A i, j \in 1..n : i < j => q[i] < q[j]
  PROVE  Cardinality(D) = n /\ Dates(D) = q
<1> DEFINE key == [d \in D |-> d]
<1>1. /\ \A x \in D : key[x] = x /\ key[x] \in Int
      /\ \A x, y \in D : key[x] = key[y] => x = y
  OBVIOUS
<1> HIDE DEF key
<1>2. Sorts(q, n, D, key)
  BY <1>1 DEF Sorts
<1>3. Cardinality(D) = n /\ InOrder(D, key) = q
  BY <1>1, <1>2, InOrderIs
<1>4. QED
  BY <1>3 DEF Dates, key

\* The dates before a date come first.
LEMMA Threshold ==
  ASSUME NEW D, IsFiniteSet(D), D \subseteq Int, NEW b \in Int
  PROVE  /\ Cardinality(Before(D, b)) \in 0..Cardinality(D)
         /\ \A i \in 1..Cardinality(D) : Dates(D)[i] < b <=> i <= Cardinality(Before(D, b))
<1> DEFINE B == Before(D, b)
           q == Dates(D)
           n == Cardinality(D)
           UpTo(i) == {e \in D : e <= q[i]}
<1>1. /\ B = {d \in D : d < b}
      /\ IsFiniteSet(B) /\ Cardinality(B) <= n /\ Cardinality(B) \in Nat /\ n \in Nat
  BY FS_Subset, FS_CardinalityType DEF Before
<1>2. \A i \in 1..n : q[i] \in D /\ q[i] \in Int
  BY DatesRise
<1>8. \A i \in 1..n : Cardinality(UpTo(i)) = i
  BY DatesRise
<1>3. \A i \in 1..n : IsFiniteSet(UpTo(i))
  BY FS_Subset
<1> HIDE DEF q, n, B
<1>4. ASSUME NEW i \in 1..n, q[i] < b
      PROVE  i <= Cardinality(B)
  <2>1. UpTo(i) \subseteq B
    <3>1. \A e \in D : e \in Int /\ (e <= q[i] => e < b)
      BY <1>2, <1>4
    <3>2. QED
      BY <1>1, <3>1
  <2> HIDE DEF UpTo
  <2>2. Cardinality(UpTo(i)) <= Cardinality(B)
    BY <1>1, <2>1, FS_Subset
  <2>3. QED
    BY <1>8, <2>2
<1>5. ASSUME NEW i \in 1..n, ~(q[i] < b)
      PROVE  Cardinality(B) < i
  <2>1. B \subseteq UpTo(i) /\ q[i] \in UpTo(i) /\ q[i] \notin B
    <3>1. \A e \in D : e \in Int /\ (e < b => e <= q[i])
      BY <1>2, <1>5
    <3>2. B \subseteq UpTo(i)
      BY <1>1, <3>1
    <3>3. q[i] \in UpTo(i)
      BY <1>2
    <3>4. q[i] \notin B
      BY <1>1, <1>5
    <3>5. QED
      BY <3>2, <3>3, <3>4
  <2>2. IsFiniteSet(UpTo(i)) /\ B # UpTo(i)
    BY <1>3, <2>1
  <2> HIDE DEF UpTo
  <2>3. Cardinality(B) <= Cardinality(UpTo(i)) /\ Cardinality(B) # Cardinality(UpTo(i))
    BY <2>1, <2>2, FS_Subset
  <2>4. QED
    BY <1>1, <1>8, <2>3
<1>6. \A i \in 1..n : q[i] < b <=> i <= Cardinality(B)
  BY <1>1, <1>4, <1>5
<1>7. QED
  BY <1>1, <1>6 DEF q, n, B

\* The dates before a date, in order, are those that come first.
LEMMA DatesBefore ==
  ASSUME NEW D, IsFiniteSet(D), D \subseteq Int, NEW b \in Int
  PROVE  /\ Cardinality(Before(D, b)) \in 0..Cardinality(D)
         /\ Dates(Before(D, b)) = [i \in 1..Cardinality(Before(D, b)) |-> Dates(D)[i]]
<1> DEFINE B == Before(D, b)
           q == Dates(D)
           n == Cardinality(D)
           m == Cardinality(B)
           r == [i \in 1..m |-> q[i]]
<1>1. m \in 0..n /\ n \in Nat /\ \A i \in 1..n : q[i] < b <=> i <= m
  BY Threshold, DatesRise
<1>2. /\ \A i \in 1..n : q[i] \in D /\ q[i] \in Int
      /\ \A x \in D : \E i \in 1..n : q[i] = x
      /\ \A i, j \in 1..n : i < j => q[i] < q[j]
  BY DatesRise
<1>3. IsFiniteSet(B) /\ B \subseteq Int /\ B = {d \in D : d < b}
  BY FS_Subset DEF Before
<1> HIDE DEF q, n, m, B
<1>4. r \in [1..m -> B]
  <2>1. \A i \in 1..m : q[i] \in B
    BY <1>1, <1>2, <1>3
  <2>2. QED
    BY <2>1
<1>5. \A x \in B : \E i \in 1..m : r[i] = x
  BY <1>1, <1>2, <1>3
<1>6. \A i, j \in 1..m : i < j => r[i] < r[j]
  BY <1>1, <1>2
<1> HIDE DEF r
<1>7. Cardinality(B) = m /\ Dates(B) = r
  BY <1>1, <1>3, <1>4, <1>5, <1>6, DatesAre
<1>8. QED
  BY <1>1, <1>7 DEF B, r, q, n, m

\* The dates since a date, in order, are those that come last.
LEMMA DatesSince ==
  ASSUME NEW D, IsFiniteSet(D), D \subseteq Int, NEW a \in Int
  PROVE  /\ Cardinality(Before(D, a)) \in Nat /\ Cardinality(Since(D, a)) \in Nat
         /\ Cardinality(D) = Cardinality(Before(D, a)) + Cardinality(Since(D, a))
         /\ \A i \in 1..Cardinality(Since(D, a)) :
              Dates(Since(D, a))[i] = Dates(D)[Cardinality(Before(D, a)) + i]
<1> DEFINE L == Since(D, a)
           c == Cardinality(Before(D, a))
           q == Dates(D)
           n == Cardinality(D)
           m == n - c
           r == [i \in 1..m |-> q[c + i]]
<1>1. c \in 0..n /\ n \in Nat /\ \A i \in 1..n : q[i] < a <=> i <= c
  BY Threshold, DatesRise
<1>2. /\ \A i \in 1..n : q[i] \in D /\ q[i] \in Int
      /\ \A x \in D : \E i \in 1..n : q[i] = x
      /\ \A i, j \in 1..n : i < j => q[i] < q[j]
  BY DatesRise
<1>3. IsFiniteSet(L) /\ L \subseteq Int /\ L = {d \in D : a <= d}
  BY FS_Subset DEF Since
<1> HIDE DEF q, n, c, L
<1>4. m \in Nat /\ \A i \in 1..m : c + i \in 1..n /\ ~(c + i <= c)
  BY <1>1
<1>5. r \in [1..m -> L]
  <2>1. \A i \in 1..m : q[c + i] \in L
    BY <1>1, <1>2, <1>3, <1>4
  <2> HIDE DEF m
  <2>2. QED
    BY <2>1
<1>6. \A x \in L : \E i \in 1..m : r[i] = x
  <2> TAKE x \in L
  <2>1. PICK j \in 1..n : q[j] = x
    BY <1>2, <1>3
  <2>2. ~(j <= c)
    BY <1>1, <1>2, <1>3, <2>1
  <2>3. j - c \in 1..m /\ c + (j - c) = j
    BY <1>1, <2>2
  <2>4. r[j - c] = x
    BY <2>1, <2>3
  <2>5. QED
    BY <2>3, <2>4
<1>7. \A i, j \in 1..m : i < j => r[i] < r[j]
  <2> SUFFICES ASSUME NEW i \in 1..m, NEW j \in 1..m, i < j
               PROVE  q[c + i] < q[c + j]
    OBVIOUS
  <2>1. c + i \in 1..n /\ c + j \in 1..n /\ c + i < c + j
    BY <1>1, <1>4
  <2>2. QED
    BY <1>2, <2>1
<1>8. Cardinality(L) = m /\ Dates(L) = r
  <2> HIDE DEF m, r
  <2>1. QED
    BY <1>3, <1>4, <1>5, <1>6, <1>7, DatesAre
<1>9. \A i \in 1..m : Dates(L)[i] = q[c + i]
  BY <1>8
<1>10. QED
  BY <1>1, <1>4, <1>8, <1>9 DEF L, q, n, c

-----------------------------------------------------------------------------
(***************************************************************************)
(* Bars that count.                                                        *)
(***************************************************************************)
\* A multiple of a later date is no smaller.
LEMMA Multiple ==
  ASSUME NEW a \in Int, NEW b \in Int, a <= b, NEW c \in Nat
  PROVE  c * a \in Int /\ c * b \in Int /\ c * a <= c * b
<1>1. c * b = c * a + c * (b - a) /\ b - a \in Nat
  OBVIOUS
<1>2. c * (b - a) \in Nat /\ c * a \in Int /\ c * b \in Int
  BY <1>1
<1>3. QED
  BY <1>1, <1>2

\* Bars of these dates, in order.
BarsOf(bars, D) ==
  /\ DOMAIN bars = 1..Cardinality(D) /\ Len(bars) = Cardinality(D)
  /\ \A i \in 1..Cardinality(D) : bars[i].day = Dates(D)[i] /\ ~bars[i].interpolated

FirstOf(bars, m) == [i \in 1..m |-> bars[i]]

\* Of bars listed by rising dates, those that count are the ones before the
\* date, as they are listed.
LEMMA CompletedAre ==
  ASSUME NEW D, IsFiniteSet(D), D \subseteq Int, NEW p \in Int, NEW bars, BarsOf(bars, D)
  PROVE  /\ Cardinality(Before(D, p)) \in 0..Cardinality(D)
         /\ CompletedBars(bars, p) = FirstOf(bars, Cardinality(Before(D, p)))
<1> USE DEF BarsOf, FirstOf
<1> DEFINE m == Cardinality(Before(D, p))
           n == Cardinality(D)
           q == Dates(D)
           T == {i \in DOMAIN bars : ~bars[i].interpolated /\ bars[i].day < p}
           key == [i \in T |-> (Len(bars) + 1) * bars[i].day + i]
           same == [i \in 1..m |-> i]
<1>1. m \in 0..n /\ \A i \in 1..n : q[i] < p <=> i <= m
  BY Threshold
<1>2. n \in Nat /\ \A i, j \in 1..n : i < j => q[i] < q[j]
  BY DatesRise
<1>3. \A i \in 1..n : bars[i].day = q[i] /\ q[i] \in Int
  BY DatesRise
<1> HIDE DEF m, q
<1>4. T = 1..m
  BY <1>1, <1>2, <1>3
<1>5. \A i \in 1..m : key[i] = (n + 1) * q[i] + i
  BY <1>1, <1>3, <1>4
<1> HIDE DEF n, T, key
<1>6. \A i \in 1..m : key[i] \in Int
  BY <1>1, <1>2, <1>3, <1>5
<1>7. \A i, j \in 1..m : i < j => key[i] < key[j]
  <2> SUFFICES ASSUME NEW i \in 1..m, NEW j \in 1..m, i < j
               PROVE  key[i] < key[j]
    OBVIOUS
  <2>1. i \in 1..n /\ j \in 1..n
    BY <1>1, <1>2
  <2>2. q[i] \in Int /\ q[j] \in Int /\ q[i] <= q[j]
    BY <1>2, <1>3, <2>1
  <2>3. /\ (n + 1) * q[i] \in Int /\ (n + 1) * q[j] \in Int
        /\ (n + 1) * q[i] <= (n + 1) * q[j]
    BY <1>2, <2>2, Multiple
  <2>4. key[i] = (n + 1) * q[i] + i /\ key[j] = (n + 1) * q[j] + j
    BY <1>5
  <2>5. QED
    BY <2>3, <2>4
<1>8. Sorts(same, m, T, key)
  <2>1. same \in [1..m -> T]
    BY <1>4
  <2>2. \A x \in T : \E i \in 1..m : same[i] = x
    BY <1>4
  <2>3. \A i, j \in 1..m : i < j => key[same[i]] < key[same[j]]
    BY <1>7
  <2>4. QED
    BY <2>1, <2>2, <2>3 DEF Sorts
<1>9. InOrder(T, key) = same
  <2>1. IsFiniteSet(T)
    <3>1. m \in Int /\ 1 \in Int
      BY <1>1, <1>2
    <3>2. IsFiniteSet(1..m)
      BY <3>1, FS_Interval
    <3>3. QED
      BY <1>4, <3>2
  <2>2. \A x, y \in T : key[x] = key[y] => x = y
    <3> SUFFICES ASSUME NEW x \in 1..m, NEW y \in 1..m, x # y
                 PROVE  key[x] # key[y]
      BY <1>4
    <3>1. x < y \/ y < x
      BY <1>1, <1>2
    <3>2. QED
      BY <1>6, <1>7, <3>1
  <2>3. m \in Nat /\ \A x \in T : key[x] \in Int
    BY <1>1, <1>2, <1>4, <1>6
  <2> HIDE DEF same
  <2>4. QED
    BY <1>8, <2>1, <2>2, <2>3, InOrderIs
<1>10. CompletedBars(bars, p) = [i \in DOMAIN same |-> bars[same[i]]]
  BY <1>9 DEF CompletedBars, T, key
<1>11. [i \in DOMAIN same |-> bars[same[i]]] = [i \in 1..m |-> bars[i]]
  OBVIOUS
<1>12. QED
  BY <1>1, <1>10, <1>11 DEF m, n

-----------------------------------------------------------------------------
(***************************************************************************)
(* The windows of two histories.                                           *)
(***************************************************************************)
\* The finished sessions of so many days before a date, and their bars.
Sessions(h, date) == {d \in (date - h)..(date - 1) : IsTradingDay(d)}

History(h, date) ==
  [i \in 1..Cardinality(Sessions(h, date)) |-> BarOf(Dates(Sessions(h, date))[i], FALSE)]

\* The days are dates, and there are finitely many.
LEMMA SessionsFinite ==
  ASSUME NEW date \in Int, NEW h \in Nat
  PROVE  IsFiniteSet(Sessions(h, date)) /\ Sessions(h, date) \subseteq Int
<1>1. date - h \in Int /\ date - 1 \in Int
  OBVIOUS
<1>2. IsFiniteSet((date - h)..(date - 1))
  BY <1>1, FS_Interval
<1>3. Sessions(h, date) \subseteq (date - h)..(date - 1)
  BY DEF Sessions
<1>4. IsFiniteSet(Sessions(h, date))
  BY <1>2, <1>3, FS_Subset
<1>5. QED
  BY <1>1, <1>3, <1>4

\* A history lists its sessions by day.
LEMMA HistoryLists ==
  ASSUME NEW date \in Int, NEW h \in Nat
  PROVE  LET n == Cardinality(Sessions(h, date))
         IN /\ n \in Nat /\ DOMAIN History(h, date) = 1..n /\ Len(History(h, date)) = n
            /\ History(h, date) = <<>> <=> n = 0
            /\ \A i \in 1..n : /\ History(h, date)[i] = BarOf(Dates(Sessions(h, date))[i], FALSE)
                               /\ History(h, date)[i].day = Dates(Sessions(h, date))[i]
                               /\ ~History(h, date)[i].interpolated
<1> DEFINE n == Cardinality(Sessions(h, date))
           E == History(h, date)
<1>1. n \in Nat
  BY SessionsFinite, FS_CardinalityType
<1>2. E = [i \in 1..n |-> BarOf(Dates(Sessions(h, date))[i], FALSE)]
  BY DEF History
<1> HIDE DEF E
<1>3. \A d : BarOf(d, FALSE).day = d /\ ~BarOf(d, FALSE).interpolated
  BY DEF BarOf
<1> HIDE DEF n
<1>4. DOMAIN E = 1..n /\ Len(E) = n /\ \A i \in 1..n : E[i] = BarOf(Dates(Sessions(h, date))[i], FALSE)
  BY <1>1, <1>2
<1>5. E = <<>> <=> n = 0
  <2> DEFINE S == {E[i] : i \in 1..n}
  <2>1. E \in [1..n -> S]
    BY <1>1, <1>2
  <2> HIDE DEF S
  <2>2. E \in Seq(S)
    BY <1>1, <2>1
  <2>3. QED
    BY <1>4, <2>2, EmptySeq
<1>6. QED
  BY <1>1, <1>3, <1>4, <1>5 DEF E, n

\* The bars before a window's start are the first ones.
LEMMA FirstOfWindow ==
  ASSUME NEW date \in Int, NEW h \in Nat, NEW b \in Int
  PROVE  Cardinality({i \in DOMAIN History(h, date) : History(h, date)[i].day < b})
           = Cardinality(Before(Sessions(h, date), b))
<1> DEFINE D == Sessions(h, date)
           E == History(h, date)
           n == Cardinality(D)
           e == Cardinality(Before(D, b))
<1>1. IsFiniteSet(D) /\ D \subseteq Int
  BY SessionsFinite
<1> HIDE DEF D
<1>2. e \in 0..n /\ n \in Nat /\ \A i \in 1..n : Dates(D)[i] < b <=> i <= e
  BY <1>1, Threshold, DatesRise
<1>3. DOMAIN E = 1..n /\ \A i \in 1..n : E[i].day = Dates(D)[i]
  BY HistoryLists DEF D
<1> HIDE DEF E, n, e
<1>4. {i \in DOMAIN E : E[i].day < b} = 1..e
  BY <1>2, <1>3
<1>5. Cardinality(1..e) = e
  <2>1. e \in Nat
    BY <1>2
  <2>2. QED
    BY <2>1, FS_Interval
<1>6. QED
  BY <1>4, <1>5 DEF D, E, e

\* A longer history has the window of a shorter one, unless the shorter one
\* does not reach that far.
LEMMA SameWindow ==
  ASSUME NEW p \in Int, NEW h \in Nat, NEW k \in Nat, h <= k,
         NEW spec, spec.lookback \in Nat, spec.warmup \in Nat
  PROVE  \/ Window(spec, History(h, p), p) = <<>>
         \/ Window(spec, History(h, p), p) = Window(spec, History(k, p), p)
<1> SUFFICES ASSUME Window(spec, History(h, p), p) # <<>>
             PROVE  Window(spec, History(h, p), p) = Window(spec, History(k, p), p)
  OBVIOUS
<1> DEFINE D == Sessions(k, p)
           L == Sessions(h, p)
           E == History(h, p)
           F == History(k, p)
           n == Cardinality(D)
           m == Cardinality(L)
           c == Cardinality(Before(D, p - h))
           b == p - spec.lookback
           w == spec.warmup
           e == Cardinality(Before(L, b))
           f == Cardinality(Before(D, b))
           q == Dates(D)
<1>1. b \in Int /\ w \in Nat /\ p - h \in Int
  OBVIOUS
<1>2. IsFiniteSet(D) /\ D \subseteq Int /\ IsFiniteSet(L) /\ L \subseteq Int
  BY SessionsFinite
<1>3. L = Since(D, p - h)
  <2>1. \A d \in Int : d \in (p - h)..(p - 1) <=> d \in (p - k)..(p - 1) /\ p - h <= d
    OBVIOUS
  <2>2. QED
    BY <1>2, <2>1 DEF Since, Sessions
<1>4. /\ c \in Nat /\ m \in Nat /\ n \in Nat /\ n = c + m
      /\ \A i \in 1..m : Dates(L)[i] = q[c + i]
  <2> DEFINE a == p - h
  <2> HIDE DEF L, D, a
  <2>1. L = Since(D, a) /\ a \in Int
    BY <1>1, <1>3 DEF a
  <2>2. /\ Cardinality(Before(D, a)) \in Nat /\ Cardinality(L) \in Nat
        /\ Cardinality(D) = Cardinality(Before(D, a)) + Cardinality(L)
        /\ \A i \in 1..Cardinality(L) : Dates(L)[i] = Dates(D)[Cardinality(Before(D, a)) + i]
    BY <1>2, <2>1, DatesSince
  <2>3. QED
    BY <2>2, DatesRise, <1>2 DEF a
<1>5. /\ e \in 0..m /\ \A i \in 1..m : Dates(L)[i] < b <=> i <= e
      /\ f \in 0..n /\ \A i \in 1..n : q[i] < b <=> i <= f
  <2> HIDE DEF L, D, b
  <2>1. QED
    BY <1>1, <1>2, Threshold
<1>6. \A i, j \in 1..n : i < j => q[i] < q[j]
  BY <1>2, DatesRise
<1>7. \A i \in 1..n : q[i] \in Int
  BY <1>2, DatesRise
<1>8. /\ Len(E) = m /\ (E = <<>> <=> m = 0)
      /\ \A i \in 1..m : E[i] = BarOf(Dates(L)[i], FALSE) /\ E[i].day = Dates(L)[i]
  BY HistoryLists
<1>9. /\ Len(F) = n /\ (F = <<>> <=> n = 0)
      /\ \A i \in 1..n : F[i] = BarOf(q[i], FALSE) /\ F[i].day = q[i]
  BY HistoryLists
<1>10. /\ Cardinality({i \in DOMAIN E : E[i].day < p - spec.lookback}) = e
       /\ Cardinality({i \in DOMAIN F : F[i].day < p - spec.lookback}) = f
  BY <1>1, FirstOfWindow
<1> HIDE DEF D, L, E, F, n, m, c, e, f, q
<1>11. Window(spec, E, p) = IF E = <<>> THEN <<>>
                            ELSE IF E[1].day > b \/ (e + 1) - w < 1 THEN <<>>
                            ELSE SubSeq(E, (e + 1) - w, m)
  BY <1>8, <1>10 DEF Window
<1>12. Window(spec, F, p) = IF F = <<>> THEN <<>>
                            ELSE IF F[1].day > b \/ (f + 1) - w < 1 THEN <<>>
                            ELSE SubSeq(F, (f + 1) - w, n)
  BY <1>9, <1>10 DEF Window
<1> HIDE DEF b, w
<1>13. m # 0 /\ ~(E[1].day > b) /\ ~((e + 1) - w < 1)
  BY <1>8, <1>11 DEF E
<1>14. q[c + 1] \in Int /\ q[c + 1] <= b
  <2>1. 1 \in 1..m /\ c + 1 \in 1..n
    BY <1>4, <1>13
  <2>2. E[1].day = q[c + 1] /\ q[c + 1] \in Int
    BY <1>4, <1>7, <1>8, <2>1
  <2>3. QED
    BY <1>1, <1>13, <2>2
<1>15. f = c + e
  <2>1. \A i \in 1..m : c + i \in 1..n /\ (c + i <= f <=> i <= e)
    <3> TAKE i \in 1..m
    <3>1. c + i \in 1..n /\ Dates(L)[i] = q[c + i]
      BY <1>4
    <3>2. (q[c + i] < b <=> c + i <= f) /\ (Dates(L)[i] < b <=> i <= e)
      BY <1>5, <3>1
    <3>3. QED
      BY <3>1, <3>2
  <2>2. f <= c + e
    <3>1. CASE e = m
      BY <1>4, <1>5, <3>1
    <3>2. CASE e # m
      <4>1. e + 1 \in 1..m
        BY <1>4, <1>5, <3>2
      <4>2. ~(c + (e + 1) <= f)
        BY <1>5, <2>1, <4>1
      <4>3. QED
        BY <1>4, <1>5, <4>2
    <3>3. QED
      BY <3>1, <3>2
  <2>3. c + e <= f
    <3>1. CASE e # 0
      BY <1>4, <1>5, <2>1, <3>1
    <3>2. CASE e = 0
      <4>1. CASE c = 0
        BY <1>4, <1>5, <3>2, <4>1
      <4>2. CASE c # 0
        <5>1. c \in 1..n /\ c + 1 \in 1..n /\ c < c + 1
          BY <1>4, <1>13, <4>2
        <5>2. q[c] < q[c + 1] /\ q[c] \in Int
          BY <1>6, <1>7, <5>1
        <5>3. q[c] < b
          BY <1>1, <1>14, <5>2
        <5>4. c <= f
          BY <1>5, <5>1, <5>3
        <5>5. QED
          BY <1>4, <3>2, <5>4
      <4>3. QED
        BY <4>1, <4>2
    <3>3. QED
      BY <3>1, <3>2
  <2>4. QED
    BY <1>4, <1>5, <2>2, <2>3
<1>16. n # 0 /\ ~(F[1].day > b) /\ ~((f + 1) - w < 1)
  <2>1. 1 \in 1..n /\ c + 1 \in 1..n /\ (1 = c + 1 \/ 1 < c + 1)
    BY <1>4, <1>13
  <2>2. F[1].day = q[1] /\ q[1] \in Int /\ q[1] <= q[c + 1]
    <3>1. F[1].day = q[1] /\ q[1] \in Int
      BY <1>7, <1>9, <2>1
    <3>2. 1 < c + 1 => q[1] < q[c + 1]
      BY <1>6, <2>1
    <3>3. QED
      BY <1>14, <2>1, <3>1, <3>2
  <2>3. q[1] <= b
    BY <1>1, <1>14, <2>2
  <2>4. ~((f + 1) - w < 1)
    BY <1>1, <1>4, <1>5, <1>13, <1>15
  <2>5. QED
    BY <1>1, <2>1, <2>2, <2>3, <2>4
<1>17. SubSeq(E, (e + 1) - w, m) = SubSeq(F, (f + 1) - w, n)
  <2> DEFINE r == (e + 1) - w
             s == (f + 1) - w
             x == (m - r) + 1
  <2>1. r \in Int /\ s = c + r /\ (n - s) + 1 = x /\ 1 <= r /\ x \in Int /\ r <= m + 1
    BY <1>1, <1>4, <1>5, <1>13, <1>15
  <2> HIDE DEF r, s
  <2>2. \A i \in 1..x : (i + r) - 1 \in 1..m /\ (i + s) - 1 = c + ((i + r) - 1)
    BY <1>4, <2>1
  <2>3. \A i \in 1..x : E[(i + r) - 1] = F[(i + s) - 1]
    <3> TAKE i \in 1..x
    <3> DEFINE j == (i + r) - 1
    <3>1. j \in 1..m /\ c + j \in 1..n /\ (i + s) - 1 = c + j
      BY <1>4, <2>2
    <3> HIDE DEF j
    <3>2. E[j] = BarOf(q[c + j], FALSE) /\ F[c + j] = BarOf(q[c + j], FALSE)
      BY <1>4, <1>8, <1>9, <3>1
    <3>3. QED
      BY <3>1, <3>2 DEF j
  <2> DEFINE S == {F[i] : i \in 1..n}
  <2>4. /\ \A i \in s..n : F[i] \in S
        /\ \A i \in r..m : E[i] \in S
    <3>1. s \in Int /\ 1 <= s
      BY <1>4, <2>1
    <3>2. \A i \in s..n : i \in 1..n
      BY <1>4, <3>1
    <3>3. ASSUME NEW i \in r..m
          PROVE  E[i] \in S
      <4>1. i \in 1..m /\ c + i \in 1..n
        BY <1>4, <2>1
      <4>2. E[i] = F[c + i]
        BY <1>4, <1>8, <1>9, <4>1
      <4>3. QED
        BY <4>1, <4>2
    <3>4. QED
      BY <3>2, <3>3
  <2> DEFINE A == SubSeq(E, r, m)
             B == SubSeq(F, s, n)
  <2> HIDE DEF S
  <2>5. /\ A \in Seq(S) /\ Len(A) = IF r <= m THEN (m - r) + 1 ELSE 0
        /\ \A i \in 1..((m - r) + 1) : A[i] = E[(r + i) - 1]
    <3>1. r \in Int /\ m \in Int /\ \A i \in r..m : E[i] \in S
      BY <1>4, <2>1, <2>4
    <3>2. QED
      BY <3>1, SubSeqProperties
  <2>6. /\ B \in Seq(S) /\ Len(B) = IF s <= n THEN (n - s) + 1 ELSE 0
        /\ \A i \in 1..((n - s) + 1) : B[i] = F[(s + i) - 1]
    BY <1>4, <2>1, <2>4, SubSeqProperties
  <2> HIDE DEF A, B
  <2>7. Len(A) = Len(B) /\ Len(A) \in {0, x}
    <3>1. s <= n <=> r <= m
      BY <1>4, <2>1
    <3>2. (n - s) + 1 = (m - r) + 1
      BY <2>1
    <3>3. QED
      BY <2>5, <2>6, <3>1, <3>2
  <2>8. \A i \in 1..Len(A) : A[i] = B[i]
    <3> TAKE i \in 1..Len(A)
    <3>1. i \in 1..x
      BY <2>1, <2>7
    <3>2. A[i] = E[(r + i) - 1]
      BY <2>5, <3>1
    <3>3. B[i] = F[(s + i) - 1]
      BY <2>1, <2>6, <3>1
    <3>4. r + i = i + r /\ s + i = i + s
      BY <1>4, <2>1
    <3>5. QED
      BY <2>3, <3>1, <3>2, <3>3, <3>4
  <2>9. A = B
    BY <2>5, <2>6, <2>7, <2>8, SeqEqual
  <2>10. QED
    BY <2>9 DEF A, B, r, s
<1>18. QED
  <2>1. E # <<>> /\ F # <<>>
    BY <1>8, <1>9, <1>13, <1>16
  <2>2. Window(spec, E, p) = SubSeq(E, (e + 1) - w, m) /\ Window(spec, F, p) = SubSeq(F, (f + 1) - w, n)
    BY <1>11, <1>12, <1>13, <1>16, <2>1
  <2>3. QED
    BY <1>17, <2>2 DEF E, F

\* A function without arguments is the empty sequence.
LEMMA NoArguments ==
  ASSUME NEW q, q = [i \in DOMAIN q |-> q[i]], DOMAIN q = {}
  PROVE  q = <<>>
<1>1. q = [i \in {} |-> q[i]]
  OBVIOUS
<1>2. q = [i \in 1..0 |-> q[i]]
  BY <1>1
<1>3. QED
  BY <1>2

\* No average of nothing.
LEMMA NothingSmoothed ==
  ASSUME NEW period \in Nat \ {0}, NEW new, NEW old
  PROVE  Smoothed(<<>>, period, new, old) = <<>>
<1>1. Len(<<>>) < period
  OBVIOUS
<1>2. QED
  BY <1>1 DEF Smoothed

\* No indicator has a value of an empty window.
LEMMA EmptyWindow ==
  ASSUME NEW k \in Keys
  PROVE  Value(Specs[k], <<>>) = Missing
<1> DEFINE spec == Specs[k]
<1>1. Closes(<<>>) = <<>>
  <2>1. DOMAIN Closes(<<>>) = {} /\ Closes(<<>>) = [i \in DOMAIN Closes(<<>>) |-> Closes(<<>>)[i]]
    BY DEF Closes
  <2>2. QED
    BY <2>1, NoArguments
<1>2. LastTwo(<<>>) = Missing
  BY DEF LastTwo
<1>3. CASE k \in Averages
  <2>1. spec.kind = "sma" /\ spec.period \in Nat \ {0}
    BY <1>3, SpecsAssumption DEF Averages, Keys
  <2>2. Sma(<<>>, spec.period) = Missing
    BY <2>1 DEF Sma
  <2>3. Value(spec, <<>>) = Sma(Closes(<<>>), spec.period)
    BY <2>1 DEF Value
  <2>4. QED
    BY <1>1, <2>2, <2>3
<1>4. CASE k = "rsi"
  <2>1. spec.kind = "rsi"
    BY <1>4, SpecsAssumption DEF Averages, Keys
  <2>2. RsiSeries(<<>>, spec.period) = <<>>
    BY DEF RsiSeries
  <2>3. Value(spec, <<>>) = LastTwo(RsiSeries(Closes(<<>>), spec.period))
    BY <2>1 DEF Value
  <2>4. QED
    BY <1>1, <1>2, <2>2, <2>3
<1>5. CASE k = "atr"
  <2>1. spec.kind = "atr"
    BY <1>5, SpecsAssumption DEF Averages, Keys
  <2>2. AtrSeries(<<>>, spec.period) = <<>>
    BY DEF AtrSeries
  <2>3. QED
    BY <2>1, <2>2 DEF Value
<1>6. CASE k = "macd"
  <2>1. /\ spec.kind = "macd"
        /\ spec.fast \in Nat \ {0} /\ spec.slow \in Nat \ {0} /\ spec.signal \in Nat \ {0}
    BY <1>6, SpecsAssumption DEF Averages, Keys
  <2> DEFINE quick == EmaSeries(<<>>, spec.fast)
             late == EmaSeries(<<>>, spec.slow)
             line == [i \in DOMAIN late |-> quick[i + Len(quick) - Len(late)] - late[i]]
             smooth == EmaSeries(line, spec.signal)
             all == [i \in DOMAIN smooth |-> line[i + Len(line) - Len(smooth)] - smooth[i]]
  <2>2. late = <<>>
    BY <2>1, NothingSmoothed DEF EmaSeries
  <2>3. line = <<>>
    <3>1. DOMAIN line = {} /\ line = [i \in DOMAIN line |-> line[i]]
      BY <2>2
    <3> HIDE DEF line
    <3>2. QED
      BY <3>1, NoArguments
  <2>4. smooth = <<>>
    <3> HIDE DEF line
    <3>1. QED
      BY <2>1, <2>3, NothingSmoothed DEF EmaSeries
  <2>5. all = <<>>
    <3> HIDE DEF line, smooth
    <3>1. DOMAIN all = {} /\ all = [i \in DOMAIN all |-> all[i]]
      BY <2>4
    <3> HIDE DEF all
    <3>2. QED
      BY <3>1, NoArguments
  <2>6. MacdSeries(<<>>, spec.fast, spec.slow, spec.signal) = all
    BY DEF MacdSeries
  <2>7. Value(spec, <<>>) = LastTwo(MacdSeries(Closes(<<>>), spec.fast, spec.slow, spec.signal))
    BY <2>1 DEF Value
  <2> HIDE DEF all
  <2>8. QED
    BY <1>1, <1>2, <2>5, <2>6, <2>7
<1>7. QED
  BY <1>3, <1>4, <1>5, <1>6 DEF Keys, Averages

\* What derive_indicators makes of the bars that count.
Derived(eligible, date) ==
  IF eligible = <<>> \/ Duplicated(eligible) THEN Underived
  ELSE [asOf |-> Last(eligible).day,
        value |-> [k \in Keys |-> Value(Specs[k], Window(Specs[k], eligible, date))]]

\* They depend on the bars that count and on the date.
LEMMA DerivedFrom ==
  ASSUME NEW bars, NEW date
  PROVE  DeriveIndicators(bars, date) = Derived(CompletedBars(bars, date), date)
<1> DEFINE eligible == CompletedBars(bars, date)
           Of(k) == Value(Specs[k], Window(Specs[k], eligible, date))
           v == [rsi |-> Of("rsi"), macd |-> Of("macd"), sma_20 |-> Of("sma_20"),
                 sma_50 |-> Of("sma_50"), sma_200 |-> Of("sma_200"), atr |-> Of("atr")]
<1>1. v = [k \in Keys |-> Of(k)]
  <2> HIDE DEF Of
  <2>1. QED
    BY DEF Keys
<1>2. QED
  BY <1>1 DEF DeriveIndicators, Derived

\* Under one date, two histories give an indicator the same value, or one of
\* them gives it none.
LEMMA SameValues ==
  ASSUME NEW p \in Int, NEW h \in Nat, NEW j \in Nat, NEW k \in Keys
  PROVE  LET a == Derived(History(h, p), p).value[k]
             b == Derived(History(j, p), p).value[k]
         IN Missing \in {a, b} \/ a = b
<1> DEFINE W(g) == Window(Specs[k], History(g, p), p)
           V(g) == Derived(History(g, p), p).value[k]
<1>1. \A g : V(g) = Missing \/ V(g) = Value(Specs[k], W(g))
  BY DEF Derived, Underived
<1>2. Value(Specs[k], <<>>) = Missing
  BY EmptyWindow
<1>3. Specs[k].lookback \in Nat /\ Specs[k].warmup \in Nat
  BY SpecsAssumption
<1>4. \A f, g \in Nat : f <= g => W(f) = <<>> \/ W(f) = W(g)
  BY <1>3, SameWindow
<1> HIDE DEF V, W
<1>5. h <= j \/ j <= h
  OBVIOUS
<1>6. Missing \in {V(h), V(j)} \/ V(h) = V(j)
  BY <1>1, <1>2, <1>4, <1>5
<1>7. QED
  BY <1>6 DEF V

-----------------------------------------------------------------------------
(***************************************************************************)
(* The clock, and the bars fetched under a date.                           *)
(***************************************************************************)
\* New York is at most five hours behind.
LEMMA Clock ==
  ASSUME NEW t \in Int
  PROVE  /\ UtcDate(t) \in Int /\ 48 * UtcDate(t) <= t /\ t < 48 * UtcDate(t) + 48
         /\ ToEastern(t) \in Int /\ t - 10 <= ToEastern(t) /\ ToEastern(t) <= t - 8
         /\ MarketDate(t) \in Int /\ 48 * MarketDate(t) <= ToEastern(t)
         /\ ToEastern(t) < 48 * MarketDate(t) + 48
         /\ UtcDate(t) - 1 <= MarketDate(t) /\ MarketDate(t) <= UtcDate(t)
<1>1. UtcDate(t) \in Int /\ 48 * UtcDate(t) <= t /\ t < 48 * UtcDate(t) + 48
  BY DEF UtcDate, HalfHours
<1>2. ToEastern(t) \in {t - 8, t - 10}
  BY DEF ToEastern, EST, EDT
<1>3. ToEastern(t) \in Int /\ t - 10 <= ToEastern(t) /\ ToEastern(t) <= t - 8
  BY <1>2
<1>4. /\ MarketDate(t) \in Int /\ 48 * MarketDate(t) <= ToEastern(t)
      /\ ToEastern(t) < 48 * MarketDate(t) + 48
  BY <1>3 DEF MarketDate, HalfHours
<1>5. UtcDate(t) - 1 <= MarketDate(t) /\ MarketDate(t) <= UtcDate(t)
  BY <1>1, <1>3, <1>4
<1>6. QED
  BY <1>1, <1>3, <1>4, <1>5

\* Before the UTC day begins, every earlier session has ended.
LEMMA EarlierEnded ==
  ASSUME now \in Int, NEW d \in Int, d < UtcDate(now)
  PROVE  Ended(d)
<1>1. SessionClose(d) \in Int /\ SessionClose(d) <= 32
  BY DEF SessionClose, EARLY_CLOSE, REGULAR_CLOSE
<1>2. /\ ToEastern(now) \in Int /\ now - 10 <= ToEastern(now)
      /\ UtcDate(now) \in Int /\ 48 * UtcDate(now) <= now
  BY Clock
<1>3. 48 * d + 48 <= 48 * UtcDate(now)
  BY <1>2
<1>4. 48 * d + SessionClose(d) <= ToEastern(now)
  BY <1>1, <1>2, <1>3
<1>5. QED
  BY <1>1, <1>2, <1>4 DEF Ended, HalfHours

\* The days whose bars a fetch returns.
Listed(from, running) ==
  {d \in from..MarketDate(now) : IsTradingDay(d) /\ (Ended(d) \/ (running /\ Begun(d)))}

\* The bars of a fetch are those of its days, in order.
LEMMA FetchLists ==
  ASSUME now \in Int, NEW from \in Int, NEW running \in BOOLEAN
  PROVE  LET D == Listed(from, running)
             bars == BarsSince(from, running)
             n == Cardinality(D)
         IN /\ IsFiniteSet(D) /\ D \subseteq Int /\ n \in Nat
            /\ DOMAIN bars = 1..n /\ Len(bars) = n
            /\ bars = [i \in 1..n |-> BarOf(Dates(D)[i], ~Ended(Dates(D)[i]))]
<1> DEFINE D == Listed(from, running)
           bars == BarsSince(from, running)
           n == Cardinality(D)
<1>1. IsFiniteSet(D) /\ D \subseteq Int
  <2>1. MarketDate(now) \in Int
    BY Clock
  <2>2. IsFiniteSet(from..MarketDate(now)) /\ from..MarketDate(now) \subseteq Int
    BY <2>1, FS_Interval
  <2>3. D \subseteq from..MarketDate(now)
    BY DEF Listed
  <2>4. QED
    BY <2>2, <2>3, FS_Subset
<1>2. n \in Nat /\ DOMAIN Dates(D) = 1..n
  BY <1>1, DatesRise
<1>3. bars = [i \in DOMAIN Dates(D) |-> BarOf(Dates(D)[i], ~Ended(Dates(D)[i]))]
  BY DEF BarsSince, Listed, Dates
<1> HIDE DEF D, bars, n
<1>4. bars = [i \in 1..n |-> BarOf(Dates(D)[i], ~Ended(Dates(D)[i]))]
  BY <1>2, <1>3
<1>5. DOMAIN bars = 1..n /\ Len(bars) = n
  BY <1>2, <1>4
<1>6. QED
  BY <1>1, <1>2, <1>4, <1>5 DEF D, bars, n

\* Whenever and however bars are fetched under a date, those that count are
\* the history of that date.
LEMMA FetchedHistory ==
  ASSUME now \in Int, NEW p \in Int, p <= UtcDate(now), NEW h \in Nat, NEW running \in BOOLEAN
  PROVE  CompletedBars(BarsSince(p - h, running), p) = History(h, p)
<1> DEFINE D == Listed(p - h, running)
           bars == BarsSince(p - h, running)
           n == Cardinality(D)
           B == Before(D, p)
           m == Cardinality(B)
<1>1. p - h \in Int
  OBVIOUS
<1>2. /\ IsFiniteSet(D) /\ D \subseteq Int /\ n \in Nat
      /\ DOMAIN bars = 1..n /\ Len(bars) = n
      /\ bars = [i \in 1..n |-> BarOf(Dates(D)[i], ~Ended(Dates(D)[i]))]
  BY <1>1, FetchLists
<1>3. \A d \in Int : d < p => Ended(d)
  <2> TAKE d \in Int
  <2>1. UtcDate(now) \in Int
    BY Clock
  <2>2. d < p => d < UtcDate(now)
    BY <2>1
  <2>3. QED
    BY <2>2, EarlierEnded
<1>4. B = Sessions(h, p)
  <2>1. MarketDate(now) \in Int /\ p - 1 <= MarketDate(now)
    BY Clock
  <2>2. \A d \in Int : d \in (p - h)..MarketDate(now) /\ d < p <=> d \in (p - h)..(p - 1)
    BY <2>1
  <2>3. \A d : d \in (p - h)..MarketDate(now) \/ d \in (p - h)..(p - 1) => d \in Int
    BY <2>1
  <2>4. B = {d \in (p - h)..MarketDate(now) : (IsTradingDay(d) /\ (Ended(d) \/ (running /\ Begun(d)))) /\ d < p}
    BY DEF Before, Listed
  <2>5. QED
    BY <1>3, <2>2, <2>3, <2>4 DEF Sessions
<1> HIDE DEF D, bars
<1>5. m \in 0..n /\ Dates(B) = [i \in 1..m |-> Dates(D)[i]]
  BY <1>2, DatesBefore
<1>6. \A i \in 1..n : /\ Dates(D)[i] \in Int
                      /\ bars[i] = BarOf(Dates(D)[i], ~Ended(Dates(D)[i]))
                      /\ Dates(D)[i] < p <=> i <= m
  BY <1>2, DatesRise, Threshold
<1>7. CompletedBars(bars, p) = FirstOf(bars, m)
  <2>1. \A d, r : BarOf(d, r).day = d /\ ~BarOf(d, r).interpolated
    BY DEF BarOf
  <2>2. \A i \in 1..n : bars[i].day = Dates(D)[i] /\ ~bars[i].interpolated
    BY <1>6, <2>1
  <2>3. BarsOf(bars, D)
    BY <1>2, <2>2 DEF BarsOf
  <2>4. QED
    BY <1>2, <2>3, CompletedAre
<1>8. \A i \in 1..m : bars[i] = BarOf(Dates(B)[i], FALSE)
  <2> TAKE i \in 1..m
  <2>1. i \in 1..n /\ i <= m /\ Dates(B)[i] = Dates(D)[i]
    BY <1>2, <1>5
  <2>2. Ended(Dates(D)[i])
    BY <1>3, <1>6, <2>1
  <2>3. (~Ended(Dates(D)[i])) = FALSE
    BY <2>2
  <2>4. QED
    BY <1>6, <2>1, <2>3
<1> HIDE DEF B, m
<1>9. [i \in 1..m |-> bars[i]] = [i \in 1..m |-> BarOf(Dates(B)[i], FALSE)]
  BY <1>8
<1>10. QED
  BY <1>4, <1>7, <1>9 DEF History, FirstOf, bars, m

\* The bars of a payload.
Bars == [day : Int, close : Prices, high : Prices, low : Prices, interpolated : {FALSE}]

\* The price of every session within reach is one of its path.
LEMMA BarPriced ==
  ASSUME window \in Windows, NEW d \in SessionsOf(window), NEW running \in BOOLEAN
  PROVE  BarOf(d, running) \in Bars
<1> DEFINE prices == Paths[window.path]
           S == SessionsOf(window)
           rank == RankOf[window][d]
           place == ((rank + window.shift) % Len(prices)) + 1
           bar == prices[place]
           T == [close : Prices, high : Prices, low : Prices]
<1>1. /\ window.first \in Int /\ window.last \in Int /\ window.path \in DOMAIN Paths
      /\ window.shift \in Nat /\ HistoryDays \in Nat
  BY MarketDayAssumption
<1>2. prices # <<>> /\ prices \in Seq(T)
  <2>1. \A p \in DOMAIN Paths : Paths[p] # <<>> /\ Paths[p] \in Seq(T)
    BY MarketDayAssumption
  <2>2. QED
    BY <1>1, <2>1
<1>3. Len(prices) \in Nat \ {0}
  <2> HIDE DEF prices, T
  <2>1. QED
    BY <1>2, EmptySeq
<1>4. d \in Int
  BY <1>1 DEF SessionsOf
<1>5. IsFiniteSet(S)
  <2>1. window.first - 2 * HistoryDays \in Int
    BY <1>1
  <2>2. IsFiniteSet((window.first - 2 * HistoryDays)..window.last)
    BY <1>1, <2>1, FS_Interval
  <2>3. S \subseteq (window.first - 2 * HistoryDays)..window.last
    BY DEF SessionsOf
  <2>4. QED
    BY <2>2, <2>3, FS_Subset
<1>6. rank \in Nat
  <2>1. rank = Cardinality({e \in S : e <= d})
    BY DEF RankOf
  <2>2. IsFiniteSet({e \in S : e <= d})
    BY <1>5, FS_Subset
  <2> HIDE DEF rank, S
  <2>3. QED
    BY <2>1, <2>2, FS_CardinalityType
<1> HIDE DEF prices, rank
<1>7. place \in 1..Len(prices)
  BY <1>1, <1>3, <1>6
<1> HIDE DEF place, T
<1>8. bar \in T
  BY <1>2, <1>7, ElementOfSeq
<1>9. BarOf(d, running) = [day |-> d, close |-> IF running THEN bar.low ELSE bar.close,
                           high |-> bar.high, low |-> bar.low, interpolated |-> FALSE]
  BY DEF BarOf, prices, rank, place
<1> HIDE DEF bar
<1>10. bar.close \in Prices /\ bar.high \in Prices /\ bar.low \in Prices
  BY <1>8 DEF T
<1>11. QED
  BY <1>4, <1>9, <1>10 DEF Bars

\* Everything a fetch returns is within reach.
LEMMA FetchPriced ==
  ASSUME window \in Windows, now \in Int, UtcDate(now) <= window.last,
         NEW from \in Int, window.first - 2 * HistoryDays <= from, NEW running \in BOOLEAN
  PROVE  BarsSince(from, running) \in Seq(Bars)
<1> DEFINE D == Listed(from, running)
           bars == BarsSince(from, running)
           n == Cardinality(D)
<1>1. /\ IsFiniteSet(D) /\ D \subseteq Int /\ n \in Nat
      /\ bars = [i \in 1..n |-> BarOf(Dates(D)[i], ~Ended(Dates(D)[i]))]
  BY FetchLists
<1>2. D \subseteq SessionsOf(window)
  <2>1. window.first \in Int /\ window.last \in Int /\ HistoryDays \in Nat
    BY MarketDayAssumption
  <2>2. MarketDate(now) \in Int /\ MarketDate(now) <= window.last
    <3>1. MarketDate(now) \in Int /\ UtcDate(now) \in Int /\ MarketDate(now) <= UtcDate(now)
      BY Clock
    <3>2. QED
      BY <2>1, <3>1
  <2>3. from..MarketDate(now) \subseteq (window.first - 2 * HistoryDays)..window.last
    BY <2>1, <2>2
  <2>4. QED
    BY <2>3 DEF Listed, SessionsOf
<1>3. \A i \in 1..n : Dates(D)[i] \in D
  BY <1>1, DatesRise
<1> HIDE DEF D, bars, n
<1>4. \A i \in 1..n : BarOf(Dates(D)[i], ~Ended(Dates(D)[i])) \in Bars
  BY <1>2, <1>3, BarPriced
<1>5. bars \in [1..n -> Bars]
  BY <1>1, <1>4
<1>6. bars \in Seq(Bars)
  BY <1>1, <1>5
<1>7. QED
  BY <1>6 DEF bars

-----------------------------------------------------------------------------
(***************************************************************************)
(* The invariant: how the date, the bars, the indicators and the verdict   *)
(* at hand came about.                                                     *)
(***************************************************************************)
ClockKnown ==
  /\ window \in Windows
  /\ now \in Int
  /\ window.first <= UtcDate(now) /\ UtcDate(now) <= window.last

PlanKnown ==
  plan # NoDay => plan \in Int /\ window.first - 1 <= plan /\ plan <= UtcDate(now)

PayloadKnown ==
  payload # NoPayload =>
    /\ plan # NoDay
    /\ payload.bars \in Seq(Bars)
    /\ \E h \in window.histories : CompletedBars(payload.bars, plan) = History(h, plan)

EarlierKnown ==
  earlier # NoDerivation =>
    /\ earlier.date \in Int
    /\ \E h \in window.histories : earlier.ind = Derived(History(h, earlier.date), earlier.date)

VerdictKnown ==
  verdict # NoVerdict =>
    /\ payload # NoPayload
    /\ verdict.snapshot = BuildSnapshot
    /\ verdict.order => OrderBuilt(verdict.snapshot, verdict.signal, verdict.mode)
    /\ verdict.signal.strength = "enter" => verdict.signal = EvaluateEntry(verdict.snapshot)

DayInv == ClockKnown /\ PlanKnown /\ PayloadKnown /\ EarlierKnown /\ VerdictKnown

\* Histories are what the window makes them.
LEMMA HistoryFixed ==
  ASSUME window' = window
  PROVE  \A h, date : History(h, date)' = History(h, date)
BY DEF History, BarOf

\* What an action that neither fetches nor evaluates leaves as it was.
LEMMA RestKept ==
  ASSUME window' = window
  PROVE  /\ PayloadKnown /\ UNCHANGED <<plan, payload>> => PayloadKnown'
         /\ EarlierKnown /\ UNCHANGED earlier => EarlierKnown'
<1>1. \A h, date : History(h, date)' = History(h, date)
  BY HistoryFixed
<1>2. ASSUME PayloadKnown, UNCHANGED <<plan, payload>>
      PROVE  PayloadKnown'
  BY <1>1, <1>2 DEF PayloadKnown
<1>3. ASSUME EarlierKnown, UNCHANGED earlier
      PROVE  EarlierKnown'
  BY <1>1, <1>3 DEF EarlierKnown, NoDerivation, Underived
<1>4. QED
  BY <1>2, <1>3

\* It holds at first, and after every action.
LEMMA InitKnown == Init => DayInv
<1> SUFFICES ASSUME Init PROVE DayInv
  OBVIOUS
<1>1. window \in Windows /\ window.first \in Int /\ window.last \in Int /\ window.first <= window.last
  BY MarketDayAssumption DEF Init
<1>2. now \in Int /\ UtcDate(now) = window.first
  BY <1>1 DEF Init, HalfHours, UtcDate
<1>3. QED
  BY <1>1, <1>2 DEF Init, DayInv, ClockKnown, PlanKnown, PayloadKnown, EarlierKnown, VerdictKnown

\* The clock moves on by at most a day.
LEMMA TickKnown ==
  ASSUME DayInv, Tick
  PROVE  DayInv'
<1> USE DEF DayInv
<1>1. PICK m \in Moments, d \in {0, 1} : now' = HalfHours * (UtcDate(now) + d) + m
  BY DEF Tick
<1>2. m \in 0..47 /\ now \in Int /\ UtcDate(now) \in Int
  <2>1. now \in Int
    BY DEF ClockKnown
  <2>2. m \in 0..47
    BY MarketDayAssumption DEF HalfHours
  <2>3. QED
    BY <2>1, <2>2, Clock
<1>3. now' \in Int /\ UtcDate(now') = UtcDate(now) + d
  BY <1>1, <1>2 DEF UtcDate, HalfHours
<1>4. ClockKnown'
  <2>1. window' = window /\ UtcDate(now') <= window.last
    BY DEF Tick
  <2>2. window.first \in Int
    BY MarketDayAssumption DEF ClockKnown
  <2>3. QED
    BY <1>2, <1>3, <2>1, <2>2 DEF ClockKnown
<1>5. PlanKnown'
  <2>1. UtcDate(now) <= UtcDate(now')
    BY <1>2, <1>3
  <2>2. QED
    BY <1>2, <1>3, <2>1 DEF PlanKnown, Tick
<1>6. PayloadKnown' /\ EarlierKnown'
  BY RestKept DEF Tick
<1>7. VerdictKnown'
  BY DEF VerdictKnown, NoVerdict, Tick
<1>8. QED
  BY <1>4, <1>5, <1>6, <1>7

\* The new date is today's or, in the first hours of UTC, yesterday's.
LEMMA PlanStepKnown ==
  ASSUME DayInv, NEW date \in {MarketDate(now), UtcDate(now)}, Plan(date)
  PROVE  DayInv'
<1> USE DEF DayInv
<1>1. ClockKnown'
  BY DEF ClockKnown, Plan
<1>2. PlanKnown'
  <2>1. /\ date \in Int /\ UtcDate(now) - 1 <= date /\ date <= UtcDate(now)
        /\ UtcDate(now) \in Int
    <3>1. now \in Int
      BY DEF ClockKnown
    <3>2. /\ UtcDate(now) \in Int /\ MarketDate(now) \in Int
          /\ UtcDate(now) - 1 <= MarketDate(now) /\ MarketDate(now) <= UtcDate(now)
      BY <3>1, Clock
    <3>3. date = MarketDate(now) \/ date = UtcDate(now)
      OBVIOUS
    <3>4. QED
      BY <3>2, <3>3
  <2>2. window.first \in Int /\ window.first <= UtcDate(now)
    BY MarketDayAssumption DEF ClockKnown
  <2>3. window.first - 1 <= date
    BY <2>1, <2>2
  <2>4. QED
    BY <2>1, <2>3 DEF PlanKnown, Plan
<1>3. PayloadKnown' /\ VerdictKnown'
  BY DEF PayloadKnown, VerdictKnown, NoVerdict, Plan
<1>4. EarlierKnown'
  BY RestKept DEF Plan
<1>5. QED
  BY <1>1, <1>2, <1>3, <1>4

\* What is fetched contains the history of the date.
LEMMA FetchKnown ==
  ASSUME DayInv, NEW h \in window.histories, NEW running \in BOOLEAN, NEW kind \in window.quotes,
         Fetch(h, running, kind)
  PROVE  DayInv'
<1> USE DEF DayInv
<1> DEFINE bars == BarsSince(plan - h, running)
<1>1. /\ window' = window /\ now' = now /\ plan' = plan /\ earlier' = earlier
      /\ plan # NoDay /\ payload'.bars = bars /\ verdict' = NoVerdict
  BY DEF Fetch
<1>2. /\ plan \in Int /\ window.first - 1 <= plan /\ plan <= UtcDate(now)
      /\ window \in Windows /\ now \in Int /\ UtcDate(now) <= window.last
  BY <1>1 DEF ClockKnown, PlanKnown
<1>3. /\ h \in 0..HistoryDays /\ HistoryDays \in Nat /\ HistoryDays >= 4
      /\ window.first \in Int
  BY <1>2, MarketDayAssumption
<1>4. plan - h \in Int /\ window.first - 2 * HistoryDays <= plan - h /\ h \in Nat
  BY <1>2, <1>3
<1>5. bars \in Seq(Bars)
  BY <1>2, <1>4, FetchPriced
<1>6. CompletedBars(bars, plan) = History(h, plan)
  BY <1>2, <1>4, FetchedHistory
<1> HIDE DEF bars
<1>7. CompletedBars(payload'.bars, plan') = History(h, plan)'
  <2>1. History(h, plan)' = History(h, plan)
    BY <1>1 DEF History, BarOf
  <2>2. QED
    BY <1>1, <1>6, <2>1
<1>8. PayloadKnown'
  BY <1>1, <1>5, <1>7 DEF PayloadKnown
<1>9. ClockKnown' /\ PlanKnown' /\ VerdictKnown'
  BY <1>1 DEF ClockKnown, PlanKnown, VerdictKnown, NoVerdict
<1>10. EarlierKnown'
  BY <1>1, RestKept
<1>11. QED
  BY <1>8, <1>9, <1>10

\* Its verdict is on the payload, and the indicators it may keep are those of
\* the history.
LEMMA EvaluateKnown ==
  ASSUME DayInv, EvaluateBundle
  PROVE  DayInv'
<1> USE DEF DayInv
<1> DEFINE s == BuildSnapshot
<1>1. /\ payload # NoPayload /\ UNCHANGED <<window, now, plan, payload>>
      /\ \E mode \in {"shadow", "live"}, readable \in BOOLEAN : Decide(s, mode, readable)
      /\ earlier' = earlier \/ earlier' = [date |-> plan, ind |-> s.ind]
  BY DEF EvaluateBundle
<1>2. PICK h \in window.histories : CompletedBars(payload.bars, plan) = History(h, plan)
  BY <1>1 DEF PayloadKnown
<1>3. plan # NoDay /\ plan \in Int
  BY <1>1 DEF PayloadKnown, PlanKnown
<1>4. s.ind = Derived(History(h, plan), plan)
  BY <1>2, DerivedFrom DEF BuildSnapshot
<1>5. ClockKnown' /\ PlanKnown'
  BY <1>1 DEF ClockKnown, PlanKnown
<1>6. PayloadKnown'
  BY <1>1, RestKept
<1>7. EarlierKnown'
  <2>1. CASE earlier' = earlier
    BY <1>1, <2>1, RestKept
  <2>2. CASE earlier' = [date |-> plan, ind |-> s.ind]
    <3>1. earlier'.date = plan /\ earlier'.ind = Derived(History(h, plan), plan)
      BY <1>4, <2>2
    <3>2. \A g, date : History(g, date)' = History(g, date)
      BY <1>1, HistoryFixed
    <3>3. window'.histories = window.histories
      BY <1>1
    <3>4. History(h, earlier.date)' = History(h, plan)
      BY <3>1, <3>2
    <3>5. (earlier.ind = Derived(History(h, earlier.date), earlier.date))'
      BY <3>1, <3>4
    <3>6. QED
      BY <1>3, <3>1, <3>3, <3>5 DEF EarlierKnown
  <2>3. QED
    BY <1>1, <2>1, <2>2
<1>8. VerdictKnown'
  <2>1. PICK mode \in {"shadow", "live"}, readable \in BOOLEAN : Decide(s, mode, readable)
    BY <1>1
  <2>2. BuildSnapshot' = s
    BY <1>1 DEF BuildSnapshot
  <2> HIDE DEF s
  <2> DEFINE signal == Evaluate(s, position.held, IF readable THEN position.stop ELSE Missing)
  <2>3. verdict' = [mode |-> mode, snapshot |-> s, signal |-> signal,
                    order |-> OrderBuilt(s, signal, mode)]
    BY <2>1 DEF Decide
  <2>4. signal.strength = "enter" => signal = EvaluateEntry(s)
    BY DEF Evaluate, EvaluateExit, NoSignal
  <2> HIDE DEF signal
  <2>5. \A x, y, m : OrderBuilt(x, y, m)' <=> OrderBuilt(x, y, m)
    BY <1>1 DEF OrderBuilt, DataAdmitted
  <2>6. /\ verdict'.snapshot = s /\ verdict'.signal = signal
        /\ verdict'.order <=> OrderBuilt(s, signal, mode)
        /\ verdict'.mode = mode
    BY <2>3
  <2>7. verdict'.order => OrderBuilt(verdict.snapshot, verdict.signal, verdict.mode)'
    BY <2>5, <2>6
  <2>8. (verdict.signal.strength = "enter" => verdict.signal = EvaluateEntry(verdict.snapshot))'
    BY <2>4, <2>6
  <2>9. QED
    BY <1>1, <2>2, <2>6, <2>7, <2>8 DEF VerdictKnown
<1>9. QED
  BY <1>5, <1>6, <1>7, <1>8

\* The invariant of the whole behaviour.
LEMMA DayHolds == Spec => []DayInv
<1>1. Init => DayInv
  BY InitKnown
<1>2. DayInv /\ [Next]_vars => DayInv'
  <2> SUFFICES ASSUME DayInv, [Next]_vars
               PROVE  DayInv'
    OBVIOUS
  <2>1. CASE Tick
    BY <2>1, TickKnown
  <2>2. ASSUME NEW date \in {MarketDate(now), UtcDate(now)}, Plan(date)
        PROVE  DayInv'
    BY <2>2, PlanStepKnown
  <2>3. ASSUME NEW h \in window.histories, NEW running \in BOOLEAN, NEW kind \in window.quotes,
               Fetch(h, running, kind)
        PROVE  DayInv'
    BY <2>3, FetchKnown
  <2>4. CASE EvaluateBundle
    BY <2>4, EvaluateKnown
  <2>5. CASE UNCHANGED vars
    <3>1. UNCHANGED <<window, now, plan, payload, verdict, earlier>>
      BY <2>5 DEF vars
    <3>2. PayloadKnown' /\ EarlierKnown'
      BY <3>1, RestKept DEF DayInv
    <3>3. BuildSnapshot' = BuildSnapshot
      BY <3>1 DEF BuildSnapshot
    <3>4. \A s, signal, mode : OrderBuilt(s, signal, mode)' <=> OrderBuilt(s, signal, mode)
      BY <3>1 DEF OrderBuilt, DataAdmitted
    <3>5. ClockKnown' /\ PlanKnown' /\ VerdictKnown'
      BY <3>1, <3>3, <3>4 DEF DayInv, ClockKnown, PlanKnown, VerdictKnown
    <3>6. QED
      BY <3>2, <3>5 DEF DayInv
  <2>6. QED
    BY <2>1, <2>2, <2>3, <2>4, <2>5 DEF Next
<1>3. QED
  BY <1>1, <1>2, PTL DEF Spec

-----------------------------------------------------------------------------
(***************************************************************************)
(* What the indicators of an evaluation are.                               *)
(***************************************************************************)
\* Those of the history of the date, the last day of which has ended.
LEMMA IndicatorsKnown ==
  ASSUME DayInv, verdict # NoVerdict
  PROVE  /\ plan \in Int
         /\ \E h \in window.histories :
              h \in Nat /\ verdict.snapshot.ind = Derived(History(h, plan), plan)
         /\ verdict.snapshot.ind.asOf = Missing \/ Ended(verdict.snapshot.ind.asOf)
<1> USE DEF DayInv
<1>1. payload # NoPayload /\ plan \in Int /\ plan <= UtcDate(now) /\ now \in Int
  BY DEF VerdictKnown, PayloadKnown, PlanKnown, ClockKnown
<1>2. PICK h \in window.histories : CompletedBars(payload.bars, plan) = History(h, plan)
  BY <1>1 DEF PayloadKnown
<1>3. h \in Nat
  BY MarketDayAssumption DEF ClockKnown
<1>4. verdict.snapshot.ind = Derived(History(h, plan), plan)
  BY <1>2, DerivedFrom DEF VerdictKnown, BuildSnapshot
<1>5. History(h, plan) # <<>> => Ended(Last(History(h, plan)).day)
  <2> DEFINE days == Sessions(h, plan)
             n == Cardinality(days)
             d == Last(History(h, plan)).day
  <2> SUFFICES ASSUME History(h, plan) # <<>>
               PROVE  Ended(d)
    OBVIOUS
  <2>1. n \in Nat /\ Len(History(h, plan)) = n /\ n # 0 /\ d \in days
    <3>1. IsFiniteSet(days) /\ days \subseteq Int
      BY <1>1, <1>3, SessionsFinite
    <3>2. n \in Nat
      BY <3>1, FS_CardinalityType
    <3>3. History(h, plan) = [i \in 1..n |-> BarOf(Dates(days)[i], FALSE)]
      BY DEF History
    <3> HIDE DEF n
    <3>4. DOMAIN History(h, plan) = 1..n /\ Len(History(h, plan)) = n
      BY <3>2, <3>3
    <3>5. n # 0
      <4>1. ASSUME n = 0 PROVE History(h, plan) = <<>>
        BY <4>1, <3>3, NoArguments
      <4>2. QED
        BY <4>1
    <3>6. n \in 1..n
      BY <3>2, <3>5
    <3>7. History(h, plan)[n].day = Dates(days)[n]
      <4>1. History(h, plan)[n] = BarOf(Dates(days)[n], FALSE)
        BY <3>3, <3>6
      <4>2. \A e : BarOf(e, FALSE).day = e
        BY DEF BarOf
      <4>3. QED
        BY <4>1, <4>2
    <3>8. Dates(days)[n] \in days
      BY <3>1, <3>6, DatesRise DEF n
    <3>9. QED
      BY <3>2, <3>4, <3>5, <3>7, <3>8 DEF Last, n
  <2>2. d \in Int /\ d < UtcDate(now)
    <3>1. d \in (plan - h)..(plan - 1)
      BY <2>1 DEF Sessions
    <3>2. UtcDate(now) \in Int
      BY <1>1, Clock
    <3>3. QED
      BY <1>1, <1>3, <3>1, <3>2
  <2>3. QED
    BY <1>1, <2>2, EarlierEnded
<1>6. QED
  BY <1>1, <1>2, <1>3, <1>4, <1>5 DEF Derived, Underived

\* Two evaluations under one trading date see the same indicators, or one
\* lacks them, and no indicator is computed through a session that was still
\* running (indicator_derivation.py).
THEOREM SameDateSameValues == Spec => []SameDateSameIndicators
<1>1. DayInv => SameDateSameIndicators
  <2> SUFFICES ASSUME DayInv, verdict # NoVerdict, plan = earlier.date, NEW k \in Keys
               PROVE  LET ind == verdict.snapshot.ind
                      IN \/ Missing \in {ind.value[k], earlier.ind.value[k]}
                         \/ ind.value[k] = earlier.ind.value[k]
    BY IndicatorsKnown DEF SameDateSameIndicators
  <2>1. PICK h \in window.histories :
          h \in Nat /\ verdict.snapshot.ind = Derived(History(h, plan), plan)
    BY IndicatorsKnown
  <2>2. plan \in Int
    BY IndicatorsKnown
  <2>3. earlier # NoDerivation
    BY <2>2, MarketDayAssumption DEF NoDerivation
  <2>4. PICK j \in window.histories : earlier.ind = Derived(History(j, plan), plan)
    BY <2>3 DEF DayInv, EarlierKnown
  <2>5. j \in Nat
    BY MarketDayAssumption DEF DayInv, ClockKnown
  <2>6. QED
    BY <2>1, <2>2, <2>4, <2>5, SameValues
<1>2. QED
  BY <1>1, DayHolds, PTL

-----------------------------------------------------------------------------
(***************************************************************************)
(* The session and the published schedule.                                 *)
(***************************************************************************)
\* The years of the window.
LEMMA YearTable ==
  /\ NewYear[2024] = 8766 /\ NewYear[2025] = 9132 /\ NewYear[2026] = 9497 /\ NewYear[2027] = 9862
  /\ NewYear[2028] = 10227 /\ NewYear[2029] = 10593 /\ NewYear[2030] = 10958
  /\ IsLeap(2024) /\ ~IsLeap(2025) /\ ~IsLeap(2026) /\ ~IsLeap(2027)
  /\ IsLeap(2028) /\ ~IsLeap(2029) /\ ~IsLeap(2030)
<1>1. \A y \in Years : NewYear[y] = LET p == y - 1
                                  IN 365 * (y - 2000) + p \div 4 - p \div 100 + p \div 400 - 484
  BY DEF NewYear
<1>2. \A n \in 2024..2030 : n \in Years
  BY DEF Years
<1>3. QED
  BY <1>1, <1>2 DEF IsLeap

\* A day lies in the year that begins before it and whose successor begins
\* after it.
LEMMA YearOfDay ==
  ASSUME NEW d \in Int, NEW y \in 2024..2029, NewYear[y] <= d, d < NewYear[y + 1]
  PROVE  YearOf(d) = y
<1> DEFINE Within(z) == NewYear[z] <= d /\ d < NewYear[z] + 365 + (IF IsLeap(z) THEN 1 ELSE 0)
<1>1. Years = 2024..2030
  BY DEF Years
<1>2. Within(y)
  BY YearTable
<1>3. \A z \in 2024..2030 : Within(z) => z = y
  BY YearTable
<1>4. QED
  BY <1>1, <1>2, <1>3 DEF YearOf

\* And every day before 2030 lies in one.
LEMMA EveryDayHasYear ==
  ASSUME NEW d \in Int, NewYear[2024] <= d, d < NewYear[2030]
  PROVE  /\ YearOf(d) \in 2024..2029
         /\ NewYear[YearOf(d)] <= d /\ d < NewYear[YearOf(d) + 1]
<1>1. \E y \in 2024..2029 : NewYear[y] <= d /\ d < NewYear[y + 1]
  BY YearTable
<1>2. QED
  BY <1>1, YearOfDay

\* Summer time begins and ends well within its year.
LEMMA SummerWithinYear ==
  ASSUME NEW y \in 2024..2029
  PROVE  /\ DstStart[y] \in Int /\ DstEnd[y] \in Int
         /\ 48 * NewYear[y] + 48 <= DstStart[y] /\ DstEnd[y] < 48 * NewYear[y + 1] - 48
<1>1. y \in Years
  BY DEF Years
<1>2. NewYear[y] \in Int /\ NewYear[y] + 365 <= NewYear[y + 1]
  BY YearTable
<1>3. ASSUME NEW m \in {3, 11}
      PROVE  /\ Date(y, m, 1) \in Int
             /\ NewYear[y] + 59 <= Date(y, m, 1) /\ Date(y, m, 1) <= NewYear[y] + 305
  <2>1. DaysBeforeMonth[3] = 59 /\ DaysBeforeMonth[11] = 304
    BY DEF DaysBeforeMonth
  <2>2. QED
    BY <1>2, <1>3, <2>1 DEF Date
<1>4. ASSUME NEW m \in {3, 11}, NEW n \in {1, 2}
      PROVE  /\ NthWeekday(y, m, 6, n) \in Int
             /\ NewYear[y] + 59 <= NthWeekday(y, m, 6, n)
             /\ NthWeekday(y, m, 6, n) <= NewYear[y] + 318
  <2> DEFINE first == Date(y, m, 1)
             shift == (6 - Weekday(first)) % 7
  <2>1. first \in Int /\ NewYear[y] + 59 <= first /\ first <= NewYear[y] + 305
    BY <1>3
  <2>2. shift \in 0..6
    <3> HIDE DEF first
    <3>1. Weekday(first) \in Int
      BY <2>1 DEF Weekday
    <3>2. QED
      BY <3>1
  <2>3. NthWeekday(y, m, 6, n) = first + shift + 7 * (n - 1)
    BY DEF NthWeekday
  <2> HIDE DEF first, shift
  <2>4. QED
    BY <1>2, <2>1, <2>2, <2>3
<1>5. /\ DstStart[y] = 48 * NthWeekday(y, 3, 6, 2) + 14
      /\ DstEnd[y] = 48 * NthWeekday(y, 11, 6, 1) + 12
  BY <1>1, <1>4 DEF DstStart, DstEnd, HalfHours, EST, EDT
<1>6. /\ NthWeekday(y, 3, 6, 2) \in Int /\ NewYear[y] + 59 <= NthWeekday(y, 3, 6, 2)
      /\ NthWeekday(y, 11, 6, 1) \in Int /\ NthWeekday(y, 11, 6, 1) <= NewYear[y] + 318
  BY <1>4
<1>7. NewYear[y + 1] \in Int
  BY YearTable
<1>8. QED
  BY <1>2, <1>5, <1>6, <1>7

\* The wall clock is set by the published days of the change whenever it
\* shows a day of the pinned years.
LEMMA ClockPublished ==
  ASSUME NEW t \in Int, NewYear[2024] + 1 <= UtcDate(t), UtcDate(t) < NewYear[2030],
         YearOf(MarketDate(t)) \in PINNED_SESSION_YEARS
  PROVE  ToEastern(t) = t + (IF \E s \in SummerTime : s[1] <= t /\ t < s[2] THEN EDT ELSE EST)
<1> DEFINE y == YearOf(UtcDate(t))
           Summer(z) == DstStart[z] <= t /\ t < DstEnd[z]
<1>1. /\ UtcDate(t) \in Int /\ 48 * UtcDate(t) <= t /\ t < 48 * UtcDate(t) + 48
      /\ ToEastern(t) \in Int /\ t - 10 <= ToEastern(t) /\ ToEastern(t) <= t - 8
      /\ MarketDate(t) \in Int /\ 48 * MarketDate(t) <= ToEastern(t)
      /\ ToEastern(t) < 48 * MarketDate(t) + 48
      /\ UtcDate(t) - 1 <= MarketDate(t) /\ MarketDate(t) <= UtcDate(t)
  BY Clock
<1>2. y \in 2024..2029 /\ NewYear[y] <= UtcDate(t) /\ UtcDate(t) < NewYear[y + 1]
  BY <1>1, YearTable, EveryDayHasYear
<1>3. ToEastern(t) = t + (IF Summer(y) THEN EDT ELSE EST)
  BY DEF ToEastern
<1>4. ASSUME NEW z \in 2024..2029, Summer(z)
      PROVE  z = y /\ z = YearOf(MarketDate(t))
  <2>1. /\ DstStart[z] \in Int /\ DstEnd[z] \in Int
        /\ 48 * NewYear[z] + 48 <= DstStart[z] /\ DstEnd[z] < 48 * NewYear[z + 1] - 48
    BY SummerWithinYear
  <2>2. NewYear[z] \in Int /\ NewYear[z + 1] \in Int
    BY YearTable
  <2>3. NewYear[z] <= UtcDate(t) /\ UtcDate(t) < NewYear[z + 1]
    BY <1>1, <1>4, <2>1, <2>2
  <2>4. NewYear[z] <= MarketDate(t) /\ MarketDate(t) < NewYear[z + 1]
    BY <1>1, <1>4, <2>1, <2>2
  <2>5. QED
    BY <1>1, <2>3, <2>4, YearOfDay
<1>5. PINNED_SESSION_YEARS \subseteq 2024..2029
  BY DEF PINNED_SESSION_YEARS
<1>6. Summer(y) <=> \E z \in PINNED_SESSION_YEARS : Summer(z)
  BY <1>2, <1>4, <1>5
<1>7. Summer(y) <=> \E s \in SummerTime : s[1] <= t /\ t < s[2]
  <2>1. SummerTime = {<<DstStart[z], DstEnd[z]>> : z \in PINNED_SESSION_YEARS}
    BY ScheduleAssumption
  <2> HIDE DEF y
  <2>2. ASSUME NEW z \in PINNED_SESSION_YEARS, Summer(z)
        PROVE  \E s \in SummerTime : s[1] <= t /\ t < s[2]
    <3> DEFINE s == <<DstStart[z], DstEnd[z]>>
    <3>1. s \in SummerTime
      BY <2>1
    <3>2. s[1] = DstStart[z] /\ s[2] = DstEnd[z]
      OBVIOUS
    <3> HIDE DEF s
    <3>3. s[1] <= t /\ t < s[2]
      BY <2>2, <3>2
    <3>4. QED
      BY <3>1, <3>3
  <2>3. ASSUME NEW s \in SummerTime, s[1] <= t, t < s[2]
        PROVE  \E z \in PINNED_SESSION_YEARS : Summer(z)
    <3>1. PICK z \in PINNED_SESSION_YEARS : s = <<DstStart[z], DstEnd[z]>>
      BY <2>1
    <3>2. s[1] = DstStart[z] /\ s[2] = DstEnd[z]
      BY <3>1
    <3>3. QED
      BY <2>3, <3>2
  <2>4. QED
    BY <1>6, <2>2, <2>3
<1>8. QED
  BY <1>3, <1>7

\* The session that the code calls open is open by the published schedule.
LEMMA OpenAsPublished ==
  ASSUME NEW t \in Int, NewYear[2024] + 1 <= UtcDate(t), UtcDate(t) < NewYear[2030],
         SessionStatus(t) = "open"
  PROVE  PublishedOpen(t)
<1> DEFINE day == MarketDate(t)
           time == ToEastern(t) % HalfHours
           y == YearOf(day)
<1>1. /\ y \in PINNED_SESSION_YEARS /\ ~(Weekday(day) >= 5) /\ day \notin MarketHolidays[y]
      /\ ~(time < REGULAR_OPEN) /\ ~(time >= SessionClose(day))
  BY DEF SessionStatus
<1>2. day \in Int /\ time \in Int /\ Weekday(day) \in Int
  <2>1. day \in Int /\ ToEastern(t) \in Int
    BY Clock
  <2> HIDE DEF day
  <2>2. QED
    BY <2>1 DEF HalfHours, Weekday
<1>3. NewYear[y] <= day /\ day < NewYear[y + 1]
  <2>1. day \in Int /\ UtcDate(t) - 1 <= day /\ day <= UtcDate(t) /\ UtcDate(t) \in Int
    BY Clock
  <2>2. NewYear[2024] \in Int /\ NewYear[2030] \in Int
    BY YearTable
  <2>3. QED
    BY <2>1, <2>2, EveryDayHasYear
<1>4. (day \in Closures <=> day \in MarketHolidays[y]) /\ (day \in EarlyDays <=> day \in EarlyCloses[y])
  <2>1. Weekday(day) < 5
    BY <1>1, <1>2
  <2>2. NewYear[y] \in Int /\ NewYear[y + 1] \in Int
    BY <1>1, YearTable DEF PINNED_SESSION_YEARS
  <2>3. day \in NewYear[y]..(NewYear[y + 1] - 1)
    BY <1>2, <1>3, <2>2
  <2> HIDE DEF day, y
  <2>4. QED
    BY <1>1, <2>1, <2>3, ScheduleAssumption
<1>5. SessionClose(day) = IF day \in EarlyCloses[y] THEN 26 ELSE 32
  BY DEF SessionClose, EARLY_CLOSE, REGULAR_CLOSE
<1>6. ToEastern(t) = t + (IF \E s \in SummerTime : s[1] <= t /\ t < s[2] THEN EDT ELSE EST)
  BY <1>1, ClockPublished
<1>7. /\ Weekday(day) < 5 /\ day \notin Closures /\ 19 <= time
      /\ time < IF day \in EarlyDays THEN 26 ELSE 32
  <2> HIDE DEF day, y, time
  <2>1. QED
    BY <1>1, <1>2, <1>4, <1>5 DEF REGULAR_OPEN
<1>8. QED
  BY <1>6, <1>7 DEF PublishedOpen, MarketDate

\* A live order is built only while the exchange is open by its published
\* schedule, whenever its bundle was planned and fetched, and at a price
\* printed then (market_session.py, preflight).
THEOREM SessionWatched == Spec => []LiveOnlyInSession
<1>1. DayInv => LiveOnlyInSession
  <2> SUFFICES ASSUME DayInv, verdict.mode = "live", verdict.order
               PROVE  PublishedOpen(now) /\ verdict.snapshot.quoteAsOf = now
    BY DEF LiveOnlyInSession
  <2>1. verdict # NoVerdict
    BY DEF NoVerdict
  <2>2. OrderBuilt(verdict.snapshot, verdict.signal, verdict.mode)
    BY <2>1 DEF DayInv, VerdictKnown
  <2>3. SessionStatus(now) = "open" /\ verdict.snapshot.quoteAsOf = now
    BY <2>2 DEF OrderBuilt, DataAdmitted
  <2>4. /\ now \in Int /\ window \in Windows
        /\ window.first <= UtcDate(now) /\ UtcDate(now) <= window.last
    BY DEF DayInv, ClockKnown
  <2>5. NewYear[2024] + 1 <= UtcDate(now) /\ UtcDate(now) < NewYear[2030]
    <3>1. /\ window.first \in Int /\ window.last \in Int /\ HistoryDays \in Nat
          /\ NewYear[2024] + 2 * HistoryDays < window.first /\ window.last < NewYear[2030]
      BY <2>4, MarketDayAssumption
    <3>2. UtcDate(now) \in Int
      BY <2>4, Clock
    <3>3. NewYear[2024] \in Int /\ NewYear[2030] \in Int
      BY YearTable
    <3>4. QED
      BY <2>4, <3>1, <3>2, <3>3
  <2>6. QED
    BY <2>3, <2>4, <2>5, OpenAsPublished
<1>2. QED
  BY <1>1, DayHolds, PTL

-----------------------------------------------------------------------------
(***************************************************************************)
(* The values an indicator can have.                                       *)
(***************************************************************************)
\* Prices have a natural number as their mean.
LEMMA MeanNat ==
  ASSUME NEW values \in Seq(Nat), NEW from \in 1..Len(values), NEW to \in from..Len(values)
  PROVE  MeanOver(values, from, to) \in Nat
<1> DEFINE sum == SumFunctionOnSet(values, from..to)
<1>1. from \in Nat /\ to \in Nat /\ Len(values) \in Nat
  OBVIOUS
<1>2. sum \in Nat
  <2>1. IsFiniteSet(from..to)
    BY <1>1, FS_Interval
  <2>2. \A i \in from..to : values[i] \in Nat
    OBVIOUS
  <2>3. QED
    BY <2>1, <2>2, SumNat
<1> HIDE DEF sum
<1>3. to - from + 1 \in Nat \ {0}
  BY <1>1
<1>4. \A n \in Nat, d \in Nat \ {0} : n \div d \in Nat
  OBVIOUS
<1>5. QED
  BY <1>2, <1>3, <1>4 DEF MeanOver, sum

\* The recursion of Smoothed.
SmoothedOnce(values, before, i, new, old) ==
  Append(before, (new * values[i] + old * Last(before)) \div (new + old))

Smooths(series, values, period, new, old, last) ==
  series = [i \in period..last |->
              IF i = period THEN <<MeanOver(values, 1, period)>>
              ELSE SmoothedOnce(values, series[i - 1], i, new, old)]

\* An average that is as long as its values has its states: those of one
\* value less and one more.
LEMMA SmoothingExists ==
  ASSUME NEW values, NEW period \in Nat, NEW turns \in Nat, NEW new, NEW old
  PROVE  \E series : Smooths(series, values, period, new, old, period + turns)
<1> DEFINE start == <<MeanOver(values, 1, period)>>
           T(g, i) == SmoothedOnce(values, g[i - 1], i, new, old)
           L(g, n) == g = [i \in period..(period + n) |-> IF i = period THEN start ELSE T(g, i)]
           G == {n \in 0..turns : \E g : L(g, n)}
<1> HIDE DEF T, start
<1>1. \E g : L(g, 0)
  <2> DEFINE g == [i \in period..(period + 0) |-> start]
  <2>1. L(g, 0)
    OBVIOUS
  <2>2. QED
    BY <2>1
<1>2. ASSUME NEW n \in Nat, NEW g, L(g, n)
      PROVE  \E h : L(h, n + 1)
  <2> DEFINE to == period + (n + 1)
             h == [i \in period..to |-> IF i = period THEN start ELSE T(g, i)]
  <2>1. \A i \in period..(period + n) : h[i] = g[i]
    <3> TAKE i \in period..(period + n)
    <3>1. g[i] = IF i = period THEN start ELSE T(g, i)
      BY <1>2
    <3>2. QED
      BY <3>1
  <2>2. \A i \in period..to : i # period => T(h, i) = T(g, i)
    <3> TAKE i \in period..to
    <3> HAVE i # period
    <3>1. i - 1 \in period..(period + n)
      OBVIOUS
    <3> HIDE DEF h
    <3>2. h[i - 1] = g[i - 1]
      BY <2>1, <3>1
    <3>3. QED
      BY <3>2 DEF T
  <2>3. h = [i \in period..to |-> IF i = period THEN start ELSE T(h, i)]
    <3> DEFINE a == [i \in period..to |-> IF i = period THEN start ELSE T(g, i)]
               b == [i \in period..to |-> IF i = period THEN start ELSE T(h, i)]
    <3> HIDE DEF h
    <3>1. \A i \in period..to : a[i] = b[i]
      BY <2>2
    <3>2. a = b
      BY <3>1
    <3>3. QED
      BY <3>2 DEF h
  <2>4. QED
    BY <2>3
<1>3. \A n \in 0..turns : n \in G
  <2>1. 0 \in G
    BY <1>1
  <2>2. \A n \in 1..turns : n - 1 \in G => n \in G
    <3> SUFFICES ASSUME NEW n \in 1..turns, n - 1 \in G
                 PROVE  \E g : L(g, n)
      OBVIOUS
    <3>1. n - 1 \in Nat /\ (n - 1) + 1 = n
      OBVIOUS
    <3>2. \E g : L(g, n - 1)
      OBVIOUS
    <3> HIDE DEF L
    <3>3. QED
      BY <1>2, <3>1, <3>2
  <2> HIDE DEF G
  <2>3. QED
    BY <2>1, <2>2, Upward
<1>4. PICK g : L(g, turns)
  BY <1>3
<1>5. Smooths(g, values, period, new, old, period + turns)
  BY <1>4 DEF Smooths, T, start
<1>6. QED
  BY <1>5

\* An average of natural numbers consists of natural numbers.
LEMMA SmoothedNat ==
  ASSUME NEW values \in Seq(Nat), NEW period \in Nat \ {0}, NEW new \in Nat, NEW old \in Nat,
         new + old # 0
  PROVE  Smoothed(values, period, new, old) \in Seq(Nat)
<1> DEFINE last == Len(values)
           turns == last - period
<1>1. CASE last < period
  BY <1>1 DEF Smoothed
<1>2. CASE ~(last < period)
  <2>1. last \in Nat /\ turns \in Nat /\ last = period + turns
    BY <1>2
  <2>2. \E series : Smooths(series, values, period, new, old, last)
    BY <2>1, SmoothingExists
  <2> DEFINE series == CHOOSE g : Smooths(g, values, period, new, old, last)
  <2>3. Smooths(series, values, period, new, old, last)
    BY <2>2
  <2>4. Smoothed(values, period, new, old) = series[last]
    BY <1>2 DEF Smoothed, Smooths, SmoothedOnce
  <2> HIDE DEF series, last, turns
  <2> DEFINE Good(n) == series[period + n] \in Seq(Nat) /\ series[period + n] # <<>>
             G == {n \in 0..turns : Good(n)}
  <2>5. \A i \in period..last :
          series[i] = IF i = period THEN <<MeanOver(values, 1, period)>>
                      ELSE SmoothedOnce(values, series[i - 1], i, new, old)
    BY <2>3 DEF Smooths
  <2>6. Good(0)
    <3>1. MeanOver(values, 1, period) \in Nat
      BY <2>1, MeanNat DEF last
    <3>2. series[period] = <<MeanOver(values, 1, period)>>
      BY <2>1, <2>5
    <3>3. period + 0 = period
      OBVIOUS
    <3>4. \A m \in Nat : <<m>> \in Seq(Nat) /\ <<m>> # <<>>
      OBVIOUS
    <3>5. series[period] \in Seq(Nat) /\ series[period] # <<>>
      BY <3>1, <3>2, <3>4
    <3>6. QED
      BY <3>3, <3>5
  <2>7. ASSUME NEW n \in 1..turns, Good(n - 1)
        PROVE  Good(n)
    <3> DEFINE i == period + n
               before == series[i - 1]
    <3>1. i \in period..last /\ i # period /\ i - 1 = period + (n - 1)
      BY <2>1
    <3>2. before \in Seq(Nat) /\ before # <<>>
      BY <2>7, <3>1
    <3>3. series[i] = SmoothedOnce(values, before, i, new, old)
      BY <2>5, <3>1
    <3> HIDE DEF before
    <3>4. Last(before) \in Nat
      BY <3>2 DEF Last
    <3>5. values[i] \in Nat
      BY <2>1, <3>1 DEF last
    <3>6. new * values[i] \in Nat /\ old * Last(before) \in Nat
      <4>1. \A m, j \in Nat : m * j \in Nat
        OBVIOUS
      <4>2. QED
        BY <3>4, <3>5, <4>1
    <3>7. (new * values[i] + old * Last(before)) \div (new + old) \in Nat
      <4>1. \A m \in Nat, d \in Nat \ {0} : m \div d \in Nat
        OBVIOUS
      <4>2. new * values[i] + old * Last(before) \in Nat /\ new + old \in Nat \ {0}
        BY <3>6
      <4>3. QED
        BY <4>1, <4>2
    <3>8. \A s \in Seq(Nat), m \in Nat : Append(s, m) \in Seq(Nat) /\ Append(s, m) # <<>>
      <4> TAKE s \in Seq(Nat), m \in Nat
      <4>1. Append(s, m) \in Seq(Nat) /\ Len(Append(s, m)) = Len(s) + 1 /\ Len(s) \in Nat
        OBVIOUS
      <4>2. QED
        BY <4>1
    <3>9. series[i] \in Seq(Nat) /\ series[i] # <<>>
      BY <3>2, <3>3, <3>7, <3>8 DEF SmoothedOnce
    <3>10. QED
      BY <3>9
  <2>8. \A n \in 0..turns : n \in G
    <3>1. 0 \in G
      BY <2>1, <2>6
    <3>2. \A n \in 1..turns : n - 1 \in G => n \in G
      <4> TAKE n \in 1..turns
      <4> HAVE n - 1 \in G
      <4> HIDE DEF Good
      <4>1. Good(n) /\ n \in 0..turns
        BY <2>1, <2>7
      <4>2. QED
        BY <4>1
    <3> HIDE DEF G
    <3>3. QED
      BY <2>1, <3>1, <3>2, Upward
  <2>9. turns \in G
    BY <2>1, <2>8
  <2>10. QED
    BY <2>1, <2>4, <2>9
<1>3. QED
  BY <1>1, <1>2

\* The window of an indicator is of the bars it is taken from.
LEMMA WindowBars ==
  ASSUME NEW eligible \in Seq(Bars), NEW k \in Keys, NEW date
  PROVE  Window(Specs[k], eligible, date) \in Seq(Bars)
<1> DEFINE boundary == date - Specs[k].lookback
           warmup == Specs[k].warmup
           old == {i \in DOMAIN eligible : eligible[i].day < boundary}
           count == Cardinality(old)
<1>1. Len(eligible) \in Nat /\ DOMAIN eligible = 1..Len(eligible)
  OBVIOUS
<1>2. warmup \in Nat
  BY SpecsAssumption
<1>3. count \in Nat
  <2>1. IsFiniteSet(1..Len(eligible))
    BY <1>1, FS_Interval
  <2>2. IsFiniteSet(old)
    BY <1>1, <2>1, FS_Subset
  <2> HIDE DEF old
  <2>3. QED
    BY <2>2, FS_CardinalityType
<1>4. Cardinality({i \in DOMAIN eligible : eligible[i].day < date - Specs[k].lookback}) = count
  OBVIOUS
<1> HIDE DEF count
<1>5. Window(Specs[k], eligible, date) =
        IF eligible = <<>> THEN <<>>
        ELSE IF eligible[1].day > boundary \/ (count + 1) - warmup < 1 THEN <<>>
        ELSE SubSeq(eligible, (count + 1) - warmup, Len(eligible))
  BY <1>4 DEF Window
<1> DEFINE start == (count + 1) - warmup
<1>6. start \in Int
  BY <1>2, <1>3
<1>7. ASSUME start >= 1
      PROVE  SubSeq(eligible, start, Len(eligible)) \in Seq(Bars)
  <2> HIDE DEF start
  <2>1. \A i \in start..Len(eligible) : eligible[i] \in Bars
    BY <1>1, <1>6, <1>7
  <2>2. QED
    BY <1>1, <1>6, <2>1, SubSeqProperties
<1>8. <<>> \in Seq(Bars)
  BY EmptySeq
<1> HIDE DEF boundary, warmup
<1>9. \/ Window(Specs[k], eligible, date) = <<>>
      \/ start >= 1 /\ Window(Specs[k], eligible, date) = SubSeq(eligible, start, Len(eligible))
  BY <1>5, <1>6
<1>10. QED
  BY <1>7, <1>8, <1>9

\* The bars of a history have prices.
LEMMA HistoryPriced ==
  ASSUME window \in Windows, NEW p \in Int, NEW h \in Nat,
         window.first - 2 * HistoryDays <= p - h, p - 1 <= window.last
  PROVE  History(h, p) \in Seq(Bars)
<1> DEFINE D == Sessions(h, p)
           n == Cardinality(D)
<1>1. IsFiniteSet(D) /\ D \subseteq Int
  BY SessionsFinite
<1>2. D \subseteq SessionsOf(window)
  <2>1. window.first \in Int /\ window.last \in Int /\ HistoryDays \in Nat
    BY MarketDayAssumption
  <2>2. (p - h)..(p - 1) \subseteq (window.first - 2 * HistoryDays)..window.last
    BY <2>1
  <2>3. QED
    BY <2>2 DEF Sessions, SessionsOf
<1> HIDE DEF D
<1>3. n \in Nat /\ \A i \in 1..n : Dates(D)[i] \in D
  BY <1>1, DatesRise
<1>4. History(h, p) = [i \in 1..n |-> BarOf(Dates(D)[i], FALSE)]
  BY DEF History, D
<1> HIDE DEF n
<1>5. \A i \in 1..n : BarOf(Dates(D)[i], FALSE) \in Bars
  BY <1>2, <1>3, BarPriced
<1>6. History(h, p) \in [1..n -> Bars]
  BY <1>4, <1>5
<1>7. QED
  BY <1>3, <1>6

\* A moving average is a natural number.
LEMMA SmaNat ==
  ASSUME NEW k \in Averages, NEW bars \in Seq(Bars)
  PROVE  Value(Specs[k], bars) \in Nat \cup {Missing}
<1> DEFINE period == Specs[k].period
           closes == Closes(bars)
<1>1. k \in Keys \ {"macd"}
  BY DEF Averages, Keys
<1>2. Specs[k].kind = "sma" /\ period \in Nat \ {0}
  BY <1>1, SpecsAssumption
<1>3. closes \in Seq(Nat)
  <2>1. Len(bars) \in Nat /\ DOMAIN bars = 1..Len(bars)
    OBVIOUS
  <2>2. \A i \in 1..Len(bars) : bars[i].close \in Nat
    <3> TAKE i \in 1..Len(bars)
    <3>1. bars[i] \in Bars
      OBVIOUS
    <3>2. QED
      BY <3>1 DEF Bars, Prices
  <2>3. closes \in [1..Len(bars) -> Nat]
    BY <2>1, <2>2 DEF Closes
  <2>4. QED
    BY <2>1, <2>3
<1> HIDE DEF period, closes
<1>4. Sma(closes, period) \in Nat \cup {Missing}
  <2>1. CASE Len(closes) < period
    BY <2>1 DEF Sma
  <2>2. CASE ~(Len(closes) < period)
    <3>1. Len(closes) - period + 1 \in 1..Len(closes)
      BY <1>2, <1>3, <2>2
    <3>2. Len(closes) \in (Len(closes) - period + 1)..Len(closes)
      BY <1>2, <1>3
    <3>3. MeanOver(closes, Len(closes) - period + 1, Len(closes)) \in Nat
      BY <1>3, <3>1, <3>2, MeanNat
    <3>4. QED
      BY <2>2, <3>3 DEF Sma
  <2>3. QED
    BY <2>1, <2>2
<1>5. Value(Specs[k], bars) = Sma(closes, period)
  BY <1>2 DEF Value, closes, period
<1>6. QED
  BY <1>4, <1>5

\* And so is the average range.
LEMMA AtrNat ==
  ASSUME NEW bars \in Seq(Bars)
  PROVE  Value(Specs["atr"], bars) \in Nat \cup {Missing}
<1> DEFINE period == Specs["atr"].period
           TrueRange(bar, before) ==
             Larger(bar.high - bar.low,
                    Larger(Abs(bar.high - before.close), Abs(bar.low - before.close)))
           n == Len(bars) - 1
           ranges == [i \in 1..n |-> TrueRange(bars[i + 1], bars[i])]
           series == AtrSeries(bars, period)
<1>1. Specs["atr"].kind = "atr" /\ period \in Nat \ {0}
  BY SpecsAssumption DEF Keys, Averages
<1>2. \A bar \in Bars, before \in Bars : TrueRange(bar, before) \in Nat
  <2> TAKE bar \in Bars, before \in Bars
  <2>1. /\ bar.high \in Nat /\ bar.low \in Nat /\ before.close \in Nat
    BY DEF Bars, Prices
  <2>2. \A x \in Int : Abs(x) \in Nat
    BY DEF Abs, Larger
  <2>3. \A x \in Int, y \in Nat : Larger(x, y) \in Nat
    BY DEF Larger
  <2>4. /\ bar.high - before.close \in Int /\ bar.low - before.close \in Int
        /\ bar.high - bar.low \in Int
    BY <2>1
  <2>5. Abs(bar.high - before.close) \in Nat
    BY <2>2, <2>4
  <2>6. Abs(bar.low - before.close) \in Nat
    BY <2>2, <2>4
  <2>7. Larger(Abs(bar.high - before.close), Abs(bar.low - before.close)) \in Nat
    BY <2>3, <2>5, <2>6
  <2>8. QED
    BY <2>3, <2>4, <2>7
<1>3. CASE bars = <<>>
  BY <1>1, <1>3 DEF Value, AtrSeries
<1>4. CASE bars # <<>>
  <2>1. Len(bars) \in Nat /\ n \in Nat /\ DOMAIN bars = 1..Len(bars)
    BY <1>4, EmptySeq
  <2>2. ranges \in Seq(Nat)
    <3>1. \A i \in 1..n : bars[i + 1] \in Bars /\ bars[i] \in Bars
      BY <2>1
    <3> HIDE DEF TrueRange, n
    <3>2. \A i \in 1..n : TrueRange(bars[i + 1], bars[i]) \in Nat
      BY <1>2, <3>1
    <3>3. ranges \in [1..n -> Nat]
      BY <3>2
    <3>4. QED
      BY <2>1, <3>3
  <2>3. series = Smoothed(ranges, period, 1, period - 1)
    BY <1>4 DEF AtrSeries, WilderSeries
  <2> HIDE DEF ranges, period, series
  <2>4. series \in Seq(Nat)
    <3>1. period - 1 \in Nat /\ 1 + (period - 1) # 0
      BY <1>1
    <3>2. QED
      BY <1>1, <2>2, <2>3, <3>1, SmoothedNat
  <2>5. Value(Specs["atr"], bars) = IF series = <<>> THEN Missing ELSE Last(series)
    BY <1>1 DEF Value, series, period
  <2>6. series # <<>> => Last(series) \in Nat
    BY <2>4 DEF Last
  <2>7. QED
    BY <2>5, <2>6
<1>5. QED
  BY <1>3, <1>4

-----------------------------------------------------------------------------
(***************************************************************************)
(* The stop of an entry.                                                   *)
(***************************************************************************)
\* It lies below the price and above zero, and one within the ceiling does
\* not hide more volatility than the ceiling.
LEMMA StopWithin ==
  ASSUME NEW price \in Prices, NEW v, v["sma_50"] \in Int, v["atr"] \in Int \cup {Missing},
         ~BuildStop(price, v).tooVolatile
  PROVE  LET stop == BuildStop(price, v).price IN
         /\ stop \in Int /\ 0 < stop /\ stop < price
         /\ 100 * (price - stop) <= MaxStop * price =>
              100 * RawDistance(price, v) <= MaxStop * price
<1> DEFINE raw == RawDistance(price, v)
           low == Percent(MinStop, price)
           high == Percent(MaxStop, price)
           bounded == IF raw < low THEN low ELSE IF raw > high THEN high ELSE raw
           structure == IF Known(v, {"sma_50"}) /\ v["sma_50"] < price
                        THEN Percent(StructureShare, v["sma_50"]) ELSE 0
           widened == 0 < structure /\ structure < price - bounded
           stop == IF widened THEN structure ELSE price - bounded
<1>1. price \in Nat /\ price >= 50
  BY DEF Prices
<1>2. /\ low \in Int /\ 0 < low /\ low <= high /\ high \in Int
      /\ 100 * high <= 12 * price /\ 12 * price < 100 * high + 100 /\ high < price
  BY <1>1 DEF Percent, MinStop, MaxStop
<1>3. raw \in Int
  BY <1>1 DEF RawDistance, Percent, FlatStop, AtrMultiple, Known
<1>4. structure \in Int
  BY DEF Percent, StructureShare
<1>5. /\ BuildStop(price, v).price = stop
      /\ BuildStop(price, v).tooVolatile = (raw > high /\ ~widened)
  BY DEF BuildStop
<1> HIDE DEF raw, low, high, structure
<1>6. bounded \in Int /\ 0 < bounded /\ bounded < price
  BY <1>1, <1>2, <1>3
<1>7. stop \in Int /\ 0 < stop /\ stop < price
  BY <1>1, <1>4, <1>6
<1>8. ASSUME 100 * (price - stop) <= 12 * price
      PROVE  100 * raw <= 12 * price
  <2>1. ~(raw > high /\ ~widened)
    BY <1>5
  <2>2. CASE widened
    BY <1>1, <1>2, <1>3, <1>4, <1>8, <2>2
  <2>3. CASE ~widened
    BY <1>1, <1>2, <1>3, <2>1, <2>3
  <2>4. QED
    BY <2>2, <2>3
<1>9. QED
  BY <1>5, <1>7, <1>8 DEF MaxStop, raw

-----------------------------------------------------------------------------
(***************************************************************************)
(* The conditions of an entry.                                             *)
(***************************************************************************)
\* When all of the strategy's conditions hold, the averages are known, so do
\* the flags of validation, and the regime allows an entry.
LEMMA ConditionsAgree ==
  ASSUME NEW price \in Prices, NEW v,
         \A k \in DOMAIN Conditions(price, v) : Conditions(price, v)[k] = "yes"
  PROVE  /\ Known(v, {"sma_20", "sma_50", "sma_200"})
         /\ ~BuildStop(price, v).tooVolatile
         /\ \A k \in DOMAIN DecisionFlags(price, v) : DecisionFlags(price, v)[k] = "yes"
         /\ AllowsLongEntry(SymbolRegime(price, v))
<1> DEFINE met == Conditions(price, v)
           flags == DecisionFlags(price, v)
           names == {"trend", "stack", "pullback", "rsi", "momentum", "depth", "volatility"}
<1>1. DOMAIN met = names /\ DOMAIN flags = names
  BY DEF Conditions, DecisionFlags
<1>2. /\ met.trend = AboveLongTermTrend(price, v) /\ met.stack = TrendStackBullish(v)
      /\ met.pullback = InPullback(price, v) /\ met.rsi = RsiInBand(v)
      /\ met.momentum = MomentumStabilizing(v) /\ met.depth = WithinDepth(price, v)
      /\ met.volatility = Judge(TRUE, ~BuildStop(price, v).tooVolatile)
  BY DEF Conditions
<1> HIDE DEF met, flags
<1>3. \A k \in names : met[k] = "yes"
  BY <1>1 DEF met
<1>4. \A holds \in BOOLEAN : Judge(TRUE, holds) = "yes" <=> holds
  BY DEF Judge
<1>5. v["sma_200"] # Missing /\ price > v["sma_200"]
  <2>1. AboveLongTermTrend(price, v) = "yes"
    BY <1>2, <1>3
  <2>2. QED
    BY <2>1 DEF AboveLongTermTrend, Known, Judge
<1>6. v["sma_50"] # Missing /\ v["sma_50"] > v["sma_200"]
  <2>1. TrendStackBullish(v) = "yes"
    BY <1>2, <1>3
  <2>2. QED
    BY <2>1 DEF TrendStackBullish, Known, Judge
<1>7. v["sma_20"] # Missing /\ price < v["sma_20"]
  <2>1. InPullback(price, v) = "yes"
    BY <1>2, <1>3
  <2>2. QED
    BY <2>1 DEF InPullback, Known, Judge
<1>8. /\ v["rsi"] # Missing
      /\ RsiAtLeast(v["rsi"][1], RsiFloor) /\ RsiAtMost(v["rsi"][1], RsiCeiling)
  <2>1. RsiInBand(v) = "yes"
    BY <1>2, <1>3
  <2>2. QED
    BY <2>1 DEF RsiInBand, Known, Judge
<1>9. v["macd"] # Missing /\ v["macd"][1] > v["macd"][2]
  <2>1. MomentumStabilizing(v) = "yes"
    BY <1>2, <1>3
  <2>2. QED
    BY <2>1 DEF MomentumStabilizing, Known, Judge
<1>10. v["sma_20"] # 0 /\ 100 * Abs(price - v["sma_20"]) <= MaxPullback * v["sma_20"]
  <2>1. WithinDepth(price, v) = "yes"
    BY <1>2, <1>3
  <2>2. QED
    BY <2>1 DEF WithinDepth, Known, Judge
<1>11. ~BuildStop(price, v).tooVolatile
  <2>1. Judge(TRUE, ~BuildStop(price, v).tooVolatile) = "yes"
    BY <1>2, <1>3
  <2>2. QED
    BY <2>1 DEF Judge
<1>12. Known(v, {"sma_20", "sma_50", "sma_200"})
  BY <1>5, <1>6, <1>7 DEF Known
<1>13. \A k \in names : flags[k] = "yes"
  <2>1. flags.trend = "yes"
    BY <1>5 DEF flags, DecisionFlags, Judge
  <2>2. flags.stack = "yes"
    BY <1>5, <1>6 DEF flags, DecisionFlags, Judge
  <2>3. flags.pullback = "yes"
    BY <1>7 DEF flags, DecisionFlags, Judge
  <2>4. flags.depth = "yes"
    BY <1>7, <1>10 DEF flags, DecisionFlags, Judge
  <2>5. flags.rsi = "yes"
    BY <1>8 DEF flags, DecisionFlags, Judge
  <2>6. flags.momentum = "yes"
    BY <1>9 DEF flags, DecisionFlags, Judge
  <2>7. flags.volatility = "yes"
    <3>1. ~(price <= 0)
      BY DEF Prices
    <3>2. QED
      BY <1>11, <3>1 DEF flags, DecisionFlags, Judge
  <2>8. QED
    BY <2>1, <2>2, <2>3, <2>4, <2>5, <2>6, <2>7
<1>14. AllowsLongEntry(SymbolRegime(price, v))
  <2>1. AboveLongTermTrend(price, v) = "yes" /\ TrendStackBullish(v) = "yes"
    BY <1>2, <1>3
  <2>2. SymbolRegime(price, v) = IF price < v["sma_20"] THEN "pullback_in_uptrend" ELSE "uptrend"
    BY <1>12, <2>1 DEF SymbolRegime
  <2>3. QED
    BY <2>2 DEF AllowsLongEntry
<1>15. QED
  BY <1>1, <1>11, <1>12, <1>13, <1>14 DEF flags

\* An entry has them all, and the stop that goes with them.
LEMMA EntryMeets ==
  ASSUME NEW s, EvaluateEntry(s).strength = "enter"
  PROVE  LET met == Conditions(ReferencePrice(s), s.ind.value) IN
         /\ \A k \in DOMAIN met : met[k] = "yes"
         /\ EvaluateEntry(s).stop = BuildStop(ReferencePrice(s), s.ind.value).price
<1> DEFINE met == Conditions(ReferencePrice(s), s.ind.value)
           passed == {k \in DOMAIN met : met[k] = "yes"}
           stop == BuildStop(ReferencePrice(s), s.ind.value).price
<1> HIDE DEF met, stop
<1>1. EvaluateEntry(s) =
        CASE passed = DOMAIN met -> [strength |-> "enter", stop |-> stop, reasons |-> passed]
          [] {"trend", "stack", "pullback"} \subseteq passed /\ passed # DOMAIN met ->
               [strength |-> "watch", stop |-> 0, reasons |-> passed]
          [] OTHER -> NoSignal
  BY DEF EvaluateEntry, met, stop
<1> HIDE DEF passed
<1>2. passed = DOMAIN met
  BY <1>1 DEF NoSignal
<1>3. EvaluateEntry(s).stop = stop
  BY <1>1, <1>2
<1>4. QED
  BY <1>2, <1>3 DEF met, passed, stop

\* The values an entry is made of: a price, and averages of prices.
LEMMA ValuesKnown ==
  ASSUME DayInv, verdict # NoVerdict, Known(verdict.snapshot.ind.value, {"sma_50"})
  PROVE  /\ ReferencePrice(verdict.snapshot) \in Prices
         /\ verdict.snapshot.ind.value["sma_50"] \in Int
         /\ verdict.snapshot.ind.value["atr"] \in Int \cup {Missing}
<1> USE DEF DayInv
<1> DEFINE v == verdict.snapshot.ind.value
<1>1. /\ payload # NoPayload /\ verdict.snapshot = BuildSnapshot /\ payload.bars \in Seq(Bars)
      /\ plan \in Int /\ window.first - 1 <= plan /\ plan <= UtcDate(now)
      /\ window \in Windows /\ now \in Int /\ UtcDate(now) <= window.last
  BY DEF VerdictKnown, PayloadKnown, PlanKnown, ClockKnown
<1>2. PICK h \in window.histories : CompletedBars(payload.bars, plan) = History(h, plan)
  BY <1>1 DEF PayloadKnown
<1>3. /\ h \in 0..HistoryDays /\ HistoryDays \in Nat /\ HistoryDays >= 4
      /\ window.first \in Int /\ window.last \in Int
  BY <1>1, MarketDayAssumption
<1>4. verdict.snapshot.ind = Derived(History(h, plan), plan)
  BY <1>1, <1>2, DerivedFrom DEF BuildSnapshot
<1> HIDE DEF DayInv
<1> DEFINE W(k) == Window(Specs[k], History(h, plan), plan)
<1>5. \A k \in Keys : v[k] = Missing \/ v[k] = Value(Specs[k], W(k))
  <2> HIDE DEF W
  <2>1. QED
    BY <1>4 DEF Derived, Underived, W
<1>6. \A k \in Keys : W(k) \in Seq(Bars)
  <2>1. UtcDate(now) \in Int
    BY <1>1, Clock
  <2>2. window.first - 2 * HistoryDays <= plan - h /\ plan - 1 <= window.last /\ h \in Nat
    BY <1>1, <1>3, <2>1
  <2>3. History(h, plan) \in Seq(Bars)
    BY <1>1, <2>2, HistoryPriced
  <2>4. QED
    BY <2>3, WindowBars
<1>7. v["sma_50"] \in Int
  <2>1. "sma_50" \in Keys /\ "sma_50" \in Averages
    BY DEF Keys, Averages
  <2>2. v["sma_50"] # Missing
    BY DEF Known
  <2> HIDE DEF v, W
  <2>3. Value(Specs["sma_50"], W("sma_50")) \in Nat \cup {Missing}
    BY <1>6, <2>1, SmaNat
  <2>4. QED
    BY <1>5, <2>1, <2>2, <2>3
<1>8. v["atr"] \in Int \cup {Missing}
  <2>1. "atr" \in Keys
    BY DEF Keys
  <2> HIDE DEF v, W
  <2>2. Value(Specs["atr"], W("atr")) \in Nat \cup {Missing}
    BY <1>6, <2>1, AtrNat
  <2>3. QED
    BY <1>5, <2>1, <2>2
<1>9. payload.bars # <<>>
  <2> SUFFICES ASSUME payload.bars = <<>> PROVE FALSE
    OBVIOUS
  <2>1. CompletedBars(<<>>, plan) = <<>>
    <3> DEFINE none == CompletedBars(<<>>, plan)
    <3>1. DOMAIN none = {} /\ none = [i \in DOMAIN none |-> none[i]]
      <4> DEFINE eligible == {i \in DOMAIN <<>> : ~(<<>>)[i].interpolated /\ (<<>>)[i].day < plan}
                 key == [i \in eligible |-> (Len(<<>>) + 1) * (<<>>)[i].day + i]
                 places == InOrder(eligible, key)
      <4>1. none = [n \in DOMAIN places |-> (<<>>)[places[n]]]
        BY DEF CompletedBars
      <4>2. eligible = {}
        OBVIOUS
      <4> HIDE DEF eligible, key
      <4>3. DOMAIN places = 1..Cardinality(eligible)
        BY DEF InOrder
      <4>4. Cardinality(eligible) = 0
        BY <4>2, FS_EmptySet
      <4> HIDE DEF places
      <4>5. DOMAIN places = {}
        BY <4>3, <4>4
      <4> HIDE DEF none
      <4>6. QED
        BY <4>1, <4>5
    <3> HIDE DEF none
    <3>2. QED
      BY <3>1, NoArguments DEF none
  <2>2. verdict.snapshot.ind = Underived
    BY <1>2, <1>4, <2>1 DEF Derived
  <2>3. QED
    BY <2>2 DEF Underived, Known, Keys
<1>10. ReferencePrice(verdict.snapshot) \in Prices
  <2>1. verdict.snapshot.bars = payload.bars
    BY <1>1 DEF BuildSnapshot
  <2>2. Last(payload.bars) \in Bars
    BY <1>1, <1>9 DEF Last
  <2>3. QED
    BY <1>9, <2>1, <2>2 DEF ReferencePrice, Bars
<1>11. QED
  BY <1>7, <1>8, <1>10

\* An entry rests on all of its conditions, judged once more from the same
\* values, and its stop stays below the price; one that the risk gate lets
\* through never hides more volatility than the ceiling (trend_pullback.py,
\* stops.py, indicator_comparison.py).
THEOREM EntriesJustified == Spec => []EntryJustified
<1>1. DayInv => EntryJustified
  <2> SUFFICES ASSUME DayInv, verdict.signal.strength = "enter"
               PROVE  EntryJustified
    BY DEF EntryJustified
  <2> DEFINE s == verdict.snapshot
             price == ReferencePrice(s)
             v == s.ind.value
             flags == DecisionFlags(price, v)
  <2>1. verdict # NoVerdict
    BY DEF NoVerdict, NoSignal
  <2>2. verdict.signal = EvaluateEntry(s)
    BY <2>1 DEF DayInv, VerdictKnown
  <2>3. /\ \A k \in DOMAIN Conditions(price, v) : Conditions(price, v)[k] = "yes"
        /\ verdict.signal.stop = BuildStop(price, v).price
    BY <2>2, EntryMeets
  <2>4. Known(v, {"sma_50"})
    <3>1. /\ "stack" \in DOMAIN Conditions(price, v)
          /\ Conditions(price, v)["stack"] = TrendStackBullish(v)
      BY DEF Conditions
    <3>2. TrendStackBullish(v) = "yes"
      BY <2>3, <3>1
    <3>3. QED
      BY <3>2 DEF TrendStackBullish, Known
  <2>5. price \in Prices /\ v["sma_50"] \in Int /\ v["atr"] \in Int \cup {Missing}
    BY <2>1, <2>4, ValuesKnown
  <2> HIDE DEF price, v
  <2>6. /\ ~BuildStop(price, v).tooVolatile
        /\ \A k \in DOMAIN flags : flags[k] = "yes"
        /\ AllowsLongEntry(SymbolRegime(price, v))
    BY <2>3, <2>5, ConditionsAgree
  <2>7. /\ 0 < verdict.signal.stop /\ verdict.signal.stop < price
        /\ 100 * (price - verdict.signal.stop) <= MaxStop * price =>
             100 * RawDistance(price, v) <= MaxStop * price
    BY <2>3, <2>5, <2>6, StopWithin
  <2>8. StopAdmitted(s, verdict.signal) => 100 * (price - verdict.signal.stop) <= MaxStop * price
    BY DEF StopAdmitted, price
  <2> HIDE DEF flags
  <2>9. QED
    BY <2>6, <2>7, <2>8 DEF EntryJustified, price, v, flags
<1>2. QED
  BY <1>1, DayHolds, PTL

=============================================================================
