-------------------------- MODULE DiscoveryProofs ---------------------------
(***************************************************************************)
(* What a discovery run discovers and what becomes of it, for any symbols, *)
(* scans, filters, row cap, hand-over of runs, budgets, caps and order of  *)
(* rotation.                                                               *)
(*                                                                         *)
(* The first half is about the two selections.  RoundRobin is followed     *)
(* turn by turn: a loop of as many sweeps as there is budget spends it or  *)
(* leaves no bucket anything to give, and one that starts from a level     *)
(* keeps every bucket that can give at the level of the sweep, so that     *)
(* none is more than one behind.                                           *)
(*                                                                         *)
(* The second half is about the run.  The checks on drift, completeness    *)
(* and truncation together leave one possibility for what passed them;     *)
(* from there on every candidate is accounted for, and the budgets are     *)
(* shared out.                                                             *)
(***************************************************************************)
EXTENDS Discovery, SumTheorems


-----------------------------------------------------------------------------
(***************************************************************************)
(* The loops, turn by turn.                                                *)
(***************************************************************************)
Turn(n, order) == order[((n - 1) % Len(order)) + 1]

\* The recursion of RoundRobin.
Loop(after, turns, buckets, order, budget, cap, start) ==
  after = [n \in 0..turns |->
             IF n = 0 THEN start ELSE Take(buckets, budget, cap, after[n - 1], Turn(n, order))]

\* A loop of any number of turns has its states: those of one turn less and
\* one more.
LEMMA LoopExists ==
  ASSUME NEW turns \in Nat, NEW buckets, NEW order, NEW budget, NEW cap, NEW start
  PROVE  \E after : Loop(after, turns, buckets, order, budget, cap, start)
<1> DEFINE T(g, n) == Take(buckets, budget, cap, g[n - 1], Turn(n, order))
           L(g, n) == g = [m \in 0..n |-> IF m = 0 THEN start ELSE T(g, m)]
           G == {n \in 0..turns : \E g : L(g, n)}
<1> HIDE DEF T
<1>1. \E g : L(g, 0)
  <2>1. [m \in 0..0 |-> start] = [m \in 0..0 |-> IF m = 0 THEN start ELSE T([k \in 0..0 |-> start], m)]
    OBVIOUS
  <2>2. QED
    BY <2>1
<1>2. ASSUME NEW n \in Nat, NEW g, L(g, n)
      PROVE  \E h : L(h, n + 1)
  <2> DEFINE h == [m \in 0..(n + 1) |-> IF m = 0 THEN start ELSE T(g, m)]
  <2>1. \A m \in 0..n : h[m] = g[m]
    <3> TAKE m \in 0..n
    <3>1. g[m] = IF m = 0 THEN start ELSE T(g, m)
      BY <1>2
    <3>2. QED
      BY <3>1
  <2>2. \A m \in 1..(n + 1) : T(h, m) = T(g, m)
    <3> TAKE m \in 1..(n + 1)
    <3>1. m - 1 \in 0..n
      OBVIOUS
    <3> HIDE DEF h
    <3>2. h[m - 1] = g[m - 1]
      BY <2>1, <3>1
    <3>3. QED
      BY <3>2 DEF T
  <2>3. h = [m \in 0..(n + 1) |-> IF m = 0 THEN start ELSE T(h, m)]
    <3> DEFINE a == [m \in 0..(n + 1) |-> IF m = 0 THEN start ELSE T(g, m)]
               b == [m \in 0..(n + 1) |-> IF m = 0 THEN start ELSE T(h, m)]
    <3> HIDE DEF h
    <3>1. \A m \in 0..(n + 1) : a[m] = b[m]
      BY <2>2
    <3>2. a = b
      BY <3>1
    <3>3. QED
      BY <3>2 DEF h
  <2>4. QED
    BY <2>3
<1>3. \A n \in 0..turns : n \in G
  <2>1. 0 \in G
    BY <1>1
  <2>2. \A n \in 1..turns : n - 1 \in G => n \in G
    <3> SUFFICES ASSUME NEW n \in 1..turns, n - 1 \in G
                 PROVE  \E g : L(g, n)
      OBVIOUS
    <3>1. n - 1 \in Nat /\ (n - 1) + 1 = n
      OBVIOUS
    <3>2. \E g : L(g, n - 1)
      OBVIOUS
    <3> HIDE DEF L
    <3>3. QED
      BY <1>2, <3>1, <3>2
  <2> HIDE DEF G
  <2>3. QED
    BY <2>1, <2>2, Upward
<1>4. PICK g : L(g, turns)
  BY <1>3
<1>5. Loop(g, turns, buckets, order, budget, cap, start)
  BY <1>4 DEF Loop, T
<1>6. QED
  BY <1>5

\* What a bucket may still give while there is budget.
Free(buckets, cap, cursor, k) == cursor[k] < cap /\ cursor[k] < Len(buckets[k])

\* A turn takes one of its bucket, or nothing.
LEMMA OneTurn ==
  ASSUME NEW K, IsFiniteSet(K), NEW cursor \in [K -> Nat], NEW k \in K,
         NEW buckets, NEW budget, NEW cap
  PROVE  LET next == Take(buckets, budget, cap, cursor, k) IN
         /\ next \in [K -> Nat]
         /\ Taken(cursor) \in Nat /\ Taken(next) \in Nat
         /\ \A j \in K \ {k} : next[j] = cursor[j]
         /\ \/ /\ Taken(cursor) < budget /\ Free(buckets, cap, cursor, k)
               /\ next[k] = cursor[k] + 1 /\ Taken(next) = Taken(cursor) + 1
            \/ /\ ~(Taken(cursor) < budget /\ Free(buckets, cap, cursor, k))
               /\ next = cursor
<1> DEFINE next == Take(buckets, budget, cap, cursor, k)
<1>1. DOMAIN cursor = K /\ \A j \in K : cursor[j] \in Nat
  OBVIOUS
<1>2. Taken(cursor) \in Nat
  BY <1>1, SumNat DEF Taken
<1>3. CASE Taken(cursor) < budget /\ Free(buckets, cap, cursor, k)
  <2>1. next = [cursor EXCEPT ![k] = @ + 1]
    BY <1>3 DEF Take, Free
  <2>2. /\ next \in [K -> Nat] /\ next[k] = cursor[k] + 1
        /\ \A j \in K \ {k} : next[j] = cursor[j]
    BY <2>1
  <2> HIDE DEF next
  <2>3. Taken(next) \in Nat /\ Taken(next) + cursor[k] = Taken(cursor) + next[k]
    <3>1. DOMAIN next = K /\ \A j \in K : next[j] \in Nat
      BY <2>2
    <3>2. \A j \in K : j # k => next[j] = cursor[j]
      BY <2>2
    <3>3. SumFunctionOnSet(next, K) + cursor[k] = SumFunctionOnSet(cursor, K) + next[k]
      BY <1>1, <3>1, <3>2, SumChange
    <3>4. SumFunctionOnSet(next, K) \in Nat
      BY <3>1, SumNat
    <3>5. QED
      BY <1>1, <3>1, <3>3, <3>4 DEF Taken
  <2>4. Taken(next) = Taken(cursor) + 1
    BY <1>1, <1>2, <2>2, <2>3
  <2>5. QED
    BY <1>2, <1>3, <2>2, <2>3, <2>4 DEF next
<1>4. CASE ~(Taken(cursor) < budget /\ Free(buckets, cap, cursor, k))
  <2>1. next = cursor
    BY <1>4 DEF Take, Free
  <2>2. QED
    BY <1>2, <1>4, <2>1
<1>5. QED
  BY <1>3, <1>4

\* Buckets a loop can run over.
Runnable(K, buckets, order, budget, start) ==
  /\ IsFiniteSet(K) /\ budget \in Nat
  /\ Len(order) \in Nat /\ \A i \in 1..Len(order) : order[i] \in K
  /\ \A i, j \in 1..Len(order) : order[i] = order[j] => i = j
  /\ \A k \in K : Len(buckets[k]) \in Nat
  /\ start \in [K -> Nat] /\ Taken(start) <= budget

\* The cursors of a whole loop.
Ran(after, K, turns, buckets, order, budget, cap) ==
  /\ \A n \in 0..turns : after[n] \in [K -> Nat] /\ Taken(after[n]) \in 0..budget
  /\ \A n \in 1..turns :
       /\ Turn(n, order) \in K
       /\ \A j \in K \ {Turn(n, order)} : after[n][j] = after[n - 1][j]
       /\ \/ /\ Taken(after[n - 1]) < budget
             /\ Free(buckets, cap, after[n - 1], Turn(n, order))
             /\ after[n][Turn(n, order)] = after[n - 1][Turn(n, order)] + 1
             /\ Taken(after[n]) = Taken(after[n - 1]) + 1
          \/ /\ ~ (/\ Taken(after[n - 1]) < budget
                   /\ Free(buckets, cap, after[n - 1], Turn(n, order)))
             /\ after[n] = after[n - 1]

\* The states of a run are cursors within the budget.
LEMMA RanTyped ==
  ASSUME NEW after, NEW K, NEW turns, NEW buckets, NEW order, NEW budget, NEW cap,
         Ran(after, K, turns, buckets, order, budget, cap)
  PROVE  \A n \in 0..turns : after[n] \in [K -> Nat] /\ Taken(after[n]) \in 0..budget
BY DEF Ran

\* Whose turn it is.
LEMMA TurnIn ==
  ASSUME NEW order, Len(order) \in Nat \ {0}, NEW K, \A i \in 1..Len(order) : order[i] \in K,
         NEW n \in Nat \ {0}
  PROVE  Turn(n, order) \in K
<1> DEFINE l == Len(order)
           m == n - 1
<1>1. l \in Nat \ {0} /\ m \in Nat
  OBVIOUS
<1> HIDE DEF l, m
<1>2. m % l \in 0..(l - 1)
  BY <1>1
<1>3. (m % l) + 1 \in 1..l
  BY <1>1, <1>2
<1>4. QED
  BY <1>3 DEF Turn, l, m

\* RoundRobin is the last state of a loop that runs from the start.
LEMMA RoundRobinRuns ==
  ASSUME NEW K, NEW buckets, NEW order, NEW budget, NEW cap, NEW start,
         Runnable(K, buckets, order, budget, start)
  PROVE  LET turns == budget * Len(order) IN
         /\ turns \in Nat
         /\ \E after :
              /\ after[0] = start /\ after[turns] = RoundRobin(buckets, order, budget, cap, start)
              /\ Ran(after, K, turns, buckets, order, budget, cap)
<1> DEFINE turns == budget * Len(order)
<1>1. turns \in Nat /\ (turns # 0 => Len(order) # 0)
  BY DEF Runnable
<1>2. \E after : Loop(after, turns, buckets, order, budget, cap, start)
  BY <1>1, LoopExists
<1> DEFINE after == CHOOSE g : Loop(g, turns, buckets, order, budget, cap, start)
<1>3. Loop(after, turns, buckets, order, budget, cap, start)
  BY <1>2
<1>4. after[turns] = RoundRobin(buckets, order, budget, cap, start)
  BY DEF RoundRobin, Loop, Turn
<1> HIDE DEF after, turns
<1>5. after[0] = start
  BY <1>1, <1>3 DEF Loop
<1>6. \A n \in 1..turns : after[n] = Take(buckets, budget, cap, after[n - 1], Turn(n, order))
  BY <1>1, <1>3 DEF Loop
<1>7. \A n \in 1..turns : Turn(n, order) \in K
  BY <1>1, TurnIn DEF Runnable
<1> DEFINE Good(n) == after[n] \in [K -> Nat] /\ Taken(after[n]) \in 0..budget
           G == {n \in 0..turns : Good(n)}
<1>8. Good(0)
  <2>1. Taken(start) \in Nat
    BY SumNat DEF Runnable, Taken
  <2>2. QED
    BY <1>5, <2>1 DEF Runnable
<1>9. \A n \in 1..turns : Good(n - 1) => Good(n)
  <2> SUFFICES ASSUME NEW n \in 1..turns, Good(n - 1)
               PROVE  Good(n)
    OBVIOUS
  <2> DEFINE old == after[n - 1]
             new == after[n]
             k == Turn(n, order)
  <2>1. new = Take(buckets, budget, cap, old, k) /\ k \in K
    BY <1>6, <1>7
  <2>2. old \in [K -> Nat] /\ Taken(old) \in 0..budget /\ budget \in Nat /\ IsFiniteSet(K)
    BY DEF Runnable
  <2> HIDE DEF old, new, k
  <2>3. new \in [K -> Nat] /\ Taken(new) \in Nat /\ Taken(new) <= budget
    BY <2>1, <2>2, OneTurn
  <2>4. QED
    BY <2>2, <2>3 DEF new
<1>10. \A n \in 0..turns : n \in G
  <2>1. 0 \in G /\ \A n \in 1..turns : n - 1 \in G => n \in G
    BY <1>1, <1>8, <1>9
  <2> HIDE DEF G
  <2>2. QED
    BY <1>1, <2>1, Upward
<1>11. \A n \in 0..turns : Good(n)
  BY <1>10
<1>12. Ran(after, K, turns, buckets, order, budget, cap)
  <2>1. ASSUME NEW n \in 1..turns
        PROVE  /\ Turn(n, order) \in K
               /\ \A j \in K \ {Turn(n, order)} : after[n][j] = after[n - 1][j]
               /\ \/ /\ Taken(after[n - 1]) < budget
                     /\ Free(buckets, cap, after[n - 1], Turn(n, order))
                     /\ after[n][Turn(n, order)] = after[n - 1][Turn(n, order)] + 1
                     /\ Taken(after[n]) = Taken(after[n - 1]) + 1
                  \/ /\ ~ (/\ Taken(after[n - 1]) < budget
                           /\ Free(buckets, cap, after[n - 1], Turn(n, order)))
                     /\ after[n] = after[n - 1]
    <3> DEFINE old == after[n - 1]
               new == after[n]
               k == Turn(n, order)
    <3>1. new = Take(buckets, budget, cap, old, k) /\ k \in K
      BY <1>6, <1>7
    <3>2. n - 1 \in 0..turns
      BY <1>1
    <3>3. old \in [K -> Nat] /\ IsFiniteSet(K)
      BY <1>11, <3>2 DEF Runnable
    <3> HIDE DEF old, new, k
    <3>4. /\ \A j \in K \ {k} : new[j] = old[j]
          /\ \/ /\ Taken(old) < budget /\ Free(buckets, cap, old, k)
                /\ new[k] = old[k] + 1 /\ Taken(new) = Taken(old) + 1
             \/ /\ ~(Taken(old) < budget /\ Free(buckets, cap, old, k))
                /\ new = old
      BY <3>1, <3>3, OneTurn
    <3>5. QED
      BY <3>1, <3>4 DEF old, new, k
  <2>2. QED
    BY <1>11, <2>1 DEF Ran
<1>13. QED
  BY <1>1, <1>4, <1>5, <1>12 DEF turns

\* No cursor goes back, and no more is left afterwards.
LEMMA RanGrows ==
  ASSUME NEW after, NEW K, NEW turns \in Nat, NEW buckets, NEW order, NEW budget \in Nat, NEW cap,
         Ran(after, K, turns, buckets, order, budget, cap),
         NEW m \in 0..turns, NEW n \in 0..turns, m <= n
  PROVE  /\ \A k \in K : after[m][k] <= after[n][k]
         /\ Taken(after[m]) <= Taken(after[n])
<1> DEFINE Above(h) == /\ \A k \in K : after[m][k] <= after[h][k]
                       /\ Taken(after[m]) <= Taken(after[h])
           G == {h \in 0..turns : m <= h => Above(h)}
<1>1. \A h \in 0..turns : /\ \A k \in K : after[h][k] \in Nat
                          /\ Taken(after[h]) \in Nat
  BY DEF Ran
<1>2. 0 \in G
  BY <1>1
<1>3. ASSUME NEW h \in 1..turns, h - 1 \in G
      PROVE  h \in G
  <2>1. CASE m = h
    BY <1>1, <2>1
  <2>2. CASE m < h
    <3>1. Above(h - 1) /\ h - 1 \in 0..turns
      BY <1>3, <2>2
    <3>2. \A k \in K : after[h - 1][k] <= after[h][k]
      BY <1>1, <3>1 DEF Ran
    <3>3. Taken(after[h - 1]) <= Taken(after[h])
      BY <1>1, <3>1 DEF Ran
    <3>4. Above(h)
      BY <1>1, <3>1, <3>2, <3>3
    <3>5. QED
      BY <3>4
  <2>3. QED
    BY <2>1, <2>2
<1> HIDE DEF G
<1>4. n \in G
  BY <1>2, <1>3, Upward
<1>5. QED
  BY <1>4 DEF G

\* A cursor that moved, moved at some turn, within the cap and the bucket.
Within(after, turns, buckets, order, cap, k, n) ==
  \/ after[n][k] = after[0][k]
  \/ /\ after[n][k] <= cap /\ after[n][k] <= Len(buckets[k])
     /\ \E h \in 1..turns : k = Turn(h, order)

\* What a loop moves, it moves within the cap and the bucket.
LEMMA RanBounded ==
  ASSUME NEW after, NEW K, NEW turns \in Nat, NEW buckets, NEW order, NEW budget \in Nat, NEW cap \in Nat,
         NEW k \in K, Len(buckets[k]) \in Nat,
         Ran(after, K, turns, buckets, order, budget, cap)
  PROVE  Within(after, turns, buckets, order, cap, k, turns)
<1> DEFINE G == {h \in 0..turns : Within(after, turns, buckets, order, cap, k, h)}
<1>1. 0 \in G
  BY DEF Within
<1>2. ASSUME NEW h \in 1..turns, h - 1 \in G
      PROVE  h \in G
  <2>1. h - 1 \in 0..turns /\ Within(after, turns, buckets, order, cap, k, h - 1)
    BY <1>2
  <2>2. after[h - 1][k] \in Nat /\ after[h][k] \in Nat
    <3>1. after[h - 1] \in [K -> Nat] /\ after[h] \in [K -> Nat]
      <4>1. h \in 0..turns
        OBVIOUS
      <4>2. QED
        BY <2>1, <4>1, RanTyped
    <3>2. QED
      BY <3>1
  <2>3. CASE after[h][k] = after[h - 1][k]
    BY <2>1, <2>3 DEF Within
  <2>4. CASE after[h][k] # after[h - 1][k]
    <3>1. k = Turn(h, order) /\ Free(buckets, cap, after[h - 1], k)
          /\ after[h][k] = after[h - 1][k] + 1
      BY <2>4 DEF Ran
    <3>2. after[h][k] <= cap /\ after[h][k] <= Len(buckets[k])
      BY <2>2, <3>1 DEF Free
    <3>3. QED
      BY <3>1, <3>2 DEF Within
  <2>5. QED
    BY <2>3, <2>4
<1> HIDE DEF G
<1>3. turns \in G
  <2>1. turns \in 0..turns
    OBVIOUS
  <2>2. QED
    BY <1>1, <1>2, <2>1, Upward
<1>4. QED
  BY <1>3 DEF G

\* Products of what a sweep counts.
LEMMA Sweeps ==
  ASSUME NEW l \in Nat \ {0}, NEW c \in Nat, NEW i \in 0..(l - 1)
  PROVE  /\ c * l \in Nat /\ (c + 1) * l = c * l + l
         /\ (c * l + i) % l = i
         /\ \A d \in Nat : c <= d => c * l <= d * l
OBVIOUS

\* The turns of one sweep are those of the buckets in their order.
LEMMA TurnAt ==
  ASSUME NEW order, Len(order) \in Nat \ {0}, NEW c \in Nat, NEW i \in 1..Len(order)
  PROVE  Turn(c * Len(order) + i, order) = order[i]
<1> DEFINE l == Len(order)
           n == c * l + i
<1>1. l \in Nat \ {0} /\ i - 1 \in 0..(l - 1) /\ i \in 1..l
  OBVIOUS
<1> HIDE DEF l
<1>2. c * l \in Nat /\ (c * l + (i - 1)) % l = i - 1
  BY <1>1, Sweeps
<1>3. n - 1 = c * l + (i - 1)
  BY <1>1, <1>2
<1> HIDE DEF n
<1>4. ((n - 1) % l) + 1 = i
  BY <1>1, <1>2, <1>3
<1>5. QED
  BY <1>4 DEF Turn, l, n

\* As many sweeps as there is budget spend it or leave no bucket anything to
\* give: a sweep that leaves one something has taken something.
LEMMA RoundRobinSpends ==
  ASSUME NEW after, NEW K, NEW buckets, NEW order, NEW budget \in Nat, NEW cap \in Nat,
         Len(order) \in Nat, \A i \in 1..Len(order) : order[i] \in K,
         \A k \in K : Len(buckets[k]) \in Nat,
         Ran(after, K, budget * Len(order), buckets, order, budget, cap)
  PROVE  LET end == after[budget * Len(order)] IN
         Taken(end) = budget \/ \A i \in 1..Len(order) : ~Free(buckets, cap, end, order[i])
<1> DEFINE l == Len(order)
           turns == budget * l
           Open(n) == Taken(after[n]) < budget /\ \E i \in 1..l : Free(buckets, cap, after[n], order[i])
           G == {c \in 0..budget : Open(c * l) => Taken(after[c * l]) >= c}
<1> SUFFICES ASSUME l # 0
             PROVE  Taken(after[turns]) = budget
                      \/ \A i \in 1..l : ~Free(buckets, cap, after[turns], order[i])
  OBVIOUS
<1>1. l \in Nat \ {0} /\ turns \in Nat
  OBVIOUS
<1>2. \A c \in 0..budget : c * l \in 0..turns
  <2> TAKE c \in 0..budget
  <2> HIDE DEF l
  <2>1. c * l \in Nat /\ c * l <= budget * l
    BY <1>1, Sweeps
  <2>2. QED
    BY <1>1, <2>1
<1>3. \A n \in 0..turns : Taken(after[n]) \in 0..budget /\ after[n] \in [K -> Nat]
  BY DEF Ran
<1>4. 0 \in G
  <2>1. 0 * l = 0 /\ 0 \in 0..turns
    BY <1>1
  <2>2. QED
    BY <1>3, <2>1
<1>5. ASSUME NEW c \in 1..budget, c - 1 \in G
      PROVE  c \in G
  <2> SUFFICES ASSUME Open(c * l)
               PROVE  Taken(after[c * l]) >= c
    OBVIOUS
  <2>1. PICK i \in 1..l : Free(buckets, cap, after[c * l], order[i])
    OBVIOUS
  <2> DEFINE b == (c - 1) * l
             n == b + i
             k == order[i]
  <2>2. c - 1 \in 0..budget /\ c - 1 \in Nat /\ c \in 0..budget
    OBVIOUS
  <2>3. b \in 0..turns /\ c * l \in 0..turns /\ c * l = b + l
    <3>1. ((c - 1) + 1) * l = b + l
      <4>1. 0 \in 0..(l - 1)
        BY <1>1
      <4> HIDE DEF l
      <4>2. QED
        BY <1>1, <2>2, <4>1, Sweeps
    <3>2. (c - 1) + 1 = c
      OBVIOUS
    <3> HIDE DEF l, turns
    <3>3. QED
      BY <1>2, <2>2, <3>1, <3>2
  <2>4. k = Turn(n, order) /\ k \in K
    BY <1>1, <2>2, TurnAt
  <2>5. Taken(after[c * l]) < budget /\ (Open(b) => Taken(after[b]) >= c - 1)
    BY <1>5
  <2> HIDE DEF l, turns, b, k
  <2>6. /\ n \in 1..turns /\ n \in 0..turns /\ n - 1 \in 0..turns
        /\ b <= n - 1 /\ n <= c * l /\ n - 1 <= c * l /\ b <= c * l
    <3> DEFINE e == c * l
    <3>1. e \in 0..turns /\ e = b + l /\ b \in Nat /\ i \in 1..l /\ l \in Nat /\ turns \in Nat
      BY <1>1, <2>3
    <3> HIDE DEF e
    <3>2. n \in Nat /\ b + 1 <= n /\ n <= e
      BY <3>1
    <3> HIDE DEF n
    <3>3. /\ n \in 1..turns /\ n \in 0..turns /\ n - 1 \in 0..turns
          /\ b <= n - 1 /\ n <= e /\ n - 1 <= e /\ b <= e
      BY <3>1, <3>2
    <3>4. QED
      BY <3>3 DEF e
  <2> HIDE DEF n
  <2>7. /\ after[n - 1][k] <= after[c * l][k] /\ Taken(after[n - 1]) <= Taken(after[c * l])
        /\ after[b][k] <= after[c * l][k] /\ Taken(after[b]) <= Taken(after[c * l])
        /\ Taken(after[b]) <= Taken(after[n - 1]) /\ Taken(after[n]) <= Taken(after[c * l])
    <3>1. Ran(after, K, turns, buckets, order, budget, cap)
      BY DEF turns, l
    <3>2. QED
      BY <1>1, <2>3, <2>4, <2>6, <3>1, RanGrows
  <2>8. /\ after[n - 1][k] \in Nat /\ after[c * l][k] \in Nat /\ after[b][k] \in Nat
        /\ Taken(after[n - 1]) \in Nat /\ Taken(after[c * l]) \in Nat /\ Taken(after[b]) \in Nat
        /\ Taken(after[n]) \in Nat
    <3>1. \A h \in 0..turns : after[h][k] \in Nat /\ Taken(after[h]) \in Nat
      BY <1>3, <2>4
    <3>2. QED
      BY <2>3, <2>6, <3>1
  <2>9. Free(buckets, cap, after[n - 1], k) /\ Free(buckets, cap, after[b], k)
    <3>1. Len(buckets[k]) \in Nat /\ Free(buckets, cap, after[c * l], k)
      BY <2>1, <2>4 DEF k
    <3> DEFINE len == Len(buckets[k])
               x == after[n - 1][k]
               y == after[b][k]
               z == after[c * l][k]
    <3>2. len \in Nat /\ cap \in Nat /\ x \in Nat /\ y \in Nat /\ z \in Nat
      BY <2>8, <3>1
    <3>3. z < cap /\ z < len /\ x <= z /\ y <= z
      <4>1. z < cap /\ z < len
        BY <3>1 DEF Free
      <4>2. x <= z /\ y <= z
        BY <2>7
      <4>3. QED
        BY <4>1, <4>2
    <3> HIDE DEF len, x, y, z
    <3>4. x < cap /\ x < len /\ y < cap /\ y < len
      BY <3>2, <3>3
    <3>5. QED
      BY <3>4 DEF Free, len, x, y
  <2>10. Taken(after[n - 1]) < budget /\ Open(b)
    <3>1. Taken(after[n - 1]) < budget /\ Taken(after[b]) < budget
      <4> DEFINE x == Taken(after[n - 1])
                 y == Taken(after[b])
                 z == Taken(after[c * l])
      <4>1. x \in Nat /\ y \in Nat /\ z \in Nat /\ x <= z /\ y <= z /\ z < budget
        BY <2>5, <2>7, <2>8
      <4> HIDE DEF x, y, z
      <4>2. x < budget /\ y < budget
        BY <4>1
      <4>3. QED
        BY <4>2 DEF x, y
    <3>2. QED
      BY <2>9, <3>1 DEF k
  <2>11. Taken(after[n]) = Taken(after[n - 1]) + 1
    <3>1. Ran(after, K, turns, buckets, order, budget, cap)
      BY DEF turns, l
    <3>2. QED
      BY <2>4, <2>6, <2>9, <2>10, <3>1 DEF Ran
  <2> HIDE DEF Open
  <2>12. QED
    BY <2>5, <2>7, <2>8, <2>10, <2>11
<1>6. budget \in G
  <2> HIDE DEF G, l, turns, Open
  <2>1. \A c \in 0..budget : c \in G
    BY <1>4, <1>5, Upward
  <2>2. QED
    BY <2>1
<1>7. Open(turns) => Taken(after[turns]) >= budget
  BY <1>6
<1> HIDE DEF G, l, turns
<1>8. Taken(after[turns]) \in 0..budget
  BY <1>1, <1>3
<1>9. QED
  BY <1>7, <1>8

\* How far a bucket is after c sweeps and i more turns that began at a level.
Level(base, c, i, j) == base + c + (IF j <= i THEN 1 ELSE 0)

\* No bucket is past its level, and those that can give are at it.
AtLevel(buckets, order, cap, cursor, base, c, i) ==
  \A j \in 1..Len(order) :
    /\ cursor[order[j]] <= Level(base, c, i, j)
    /\ Free(buckets, cap, cursor, order[j]) => cursor[order[j]] = Level(base, c, i, j)

\* A bucket that can give is at most one behind the others.
Even(buckets, order, cap, cursor) ==
  \A j, k \in 1..Len(order) :
    Free(buckets, cap, cursor, order[k]) => cursor[order[j]] <= cursor[order[k]] + 1

\* Levels of one moment are within one.
LEMMA LevelIsEven ==
  ASSUME NEW buckets, NEW order, NEW cap, NEW cursor, NEW base \in Nat, NEW c \in Nat, NEW i \in Nat,
         Len(order) \in Nat, \A j \in 1..Len(order) : cursor[order[j]] \in Nat,
         AtLevel(buckets, order, cap, cursor, base, c, i)
  PROVE  Even(buckets, order, cap, cursor)
<1> SUFFICES ASSUME NEW j \in 1..Len(order), NEW k \in 1..Len(order),
                    Free(buckets, cap, cursor, order[k])
             PROVE  cursor[order[j]] <= cursor[order[k]] + 1
  BY DEF Even
<1>1. cursor[order[j]] <= Level(base, c, i, j) /\ cursor[order[k]] = Level(base, c, i, k)
  BY DEF AtLevel
<1>2. Level(base, c, i, j) <= base + c + 1 /\ Level(base, c, i, k) >= base + c
  BY DEF Level
<1>3. base + c \in Nat /\ cursor[order[j]] \in Nat /\ cursor[order[k]] \in Nat
      /\ Level(base, c, i, j) \in Nat
  BY DEF Level
<1>4. QED
  BY <1>1, <1>2, <1>3

\* A turn while there is budget keeps the levels.
LEMMA TurnKeepsLevel ==
  ASSUME NEW buckets, NEW order, NEW cap \in Nat, NEW old, NEW new, NEW base \in Nat, NEW c \in Nat,
         NEW i \in Nat, Len(order) \in Nat, i + 1 \in 1..Len(order),
         \A j \in 1..Len(order) : /\ old[order[j]] \in Nat /\ new[order[j]] \in Nat
                                  /\ Len(buckets[order[j]]) \in Nat,
         \A j \in 1..Len(order) : j # i + 1 => new[order[j]] = old[order[j]],
         IF Free(buckets, cap, old, order[i + 1]) THEN new[order[i + 1]] = old[order[i + 1]] + 1
         ELSE new[order[i + 1]] = old[order[i + 1]],
         AtLevel(buckets, order, cap, old, base, c, i)
  PROVE  AtLevel(buckets, order, cap, new, base, c, i + 1)
<1> SUFFICES ASSUME NEW j \in 1..Len(order)
             PROVE  /\ new[order[j]] <= Level(base, c, i + 1, j)
                    /\ Free(buckets, cap, new, order[j]) =>
                         new[order[j]] = Level(base, c, i + 1, j)
  BY DEF AtLevel
<1> DEFINE k == order[j]
<1>1. /\ old[k] <= Level(base, c, i, j)
      /\ Free(buckets, cap, old, k) => old[k] = Level(base, c, i, j)
  BY DEF AtLevel
<1>2. CASE j = i + 1
  <2>1. Level(base, c, i, j) = base + c /\ Level(base, c, i + 1, j) = base + c + 1
    BY <1>2 DEF Level
  <2>2. old[k] \in Nat /\ new[k] \in Nat /\ base + c \in Nat
    OBVIOUS
  <2>3. CASE Free(buckets, cap, old, k)
    <3>1. new[k] = old[k] + 1 /\ old[k] = base + c
      BY <1>1, <1>2, <2>1, <2>3
    <3>2. QED
      BY <2>1, <2>2, <3>1
  <2>4. CASE ~Free(buckets, cap, old, k)
    <3>1. new[k] = old[k]
      BY <1>2, <2>4
    <3>2. ~Free(buckets, cap, new, k)
      BY <2>4, <3>1 DEF Free
    <3> HIDE DEF k
    <3>3. old[k] <= base + c + 1
      BY <1>1, <2>1, <2>2
    <3>4. QED
      BY <2>1, <3>1, <3>2, <3>3 DEF k
  <2>5. QED
    BY <2>3, <2>4
<1>3. CASE j # i + 1
  <2>1. new[k] = old[k] /\ (Free(buckets, cap, new, k) <=> Free(buckets, cap, old, k))
    BY <1>3 DEF Free
  <2>2. Level(base, c, i + 1, j) = Level(base, c, i, j)
    BY <1>3 DEF Level
  <2>3. QED
    BY <1>1, <2>1, <2>2
<1>4. QED
  BY <1>2, <1>3

\* The end of a sweep is the start of the next.
LEMMA SweepEnds ==
  ASSUME NEW buckets, NEW order, NEW cap, NEW cursor, NEW base \in Nat, NEW c \in Nat,
         Len(order) \in Nat,
         AtLevel(buckets, order, cap, cursor, base, c, Len(order))
  PROVE  AtLevel(buckets, order, cap, cursor, base, c + 1, 0)
<1>1. \A j \in 1..Len(order) : Level(base, c, Len(order), j) = Level(base, c + 1, 0, j)
  BY DEF Level
<1>2. QED
  BY <1>1 DEF AtLevel

\* A loop that began at a level ends even.
LEMMA RoundRobinIsEven ==
  ASSUME NEW after, NEW K, NEW buckets, NEW order, NEW budget \in Nat, NEW cap \in Nat, NEW base \in Nat,
         Len(order) \in Nat \ {0}, \A i \in 1..Len(order) : order[i] \in K,
         \A i, j \in 1..Len(order) : order[i] = order[j] => i = j,
         \A k \in K : Len(buckets[k]) \in Nat,
         NEW turns \in Nat, Ran(after, K, turns, buckets, order, budget, cap),
         AtLevel(buckets, order, cap, after[0], base, 0, 0)
  PROVE  Even(buckets, order, cap, after[turns])
<1> DEFINE l == Len(order)
           Levelled(n) ==
             \E c \in Nat, i \in 0..(l - 1) :
               n = c * l + i /\ AtLevel(buckets, order, cap, after[n], base, c, i)
           Done(n) == Taken(after[n]) = budget /\ Even(buckets, order, cap, after[n])
           G == {n \in 0..turns : Levelled(n) \/ Done(n)}
<1>1. l \in Nat \ {0}
  OBVIOUS
<1>2. \A n \in 0..turns : /\ Taken(after[n]) \in 0..budget
                          /\ \A j \in 1..l : after[n][order[j]] \in Nat
  BY DEF Ran
<1>3. 0 \in G
  <2>1. 0 = 0 * l + 0 /\ 0 \in 0..(l - 1) /\ 0 \in Nat
    BY <1>1
  <2>2. Levelled(0)
    BY <2>1
  <2>3. QED
    BY <2>2
<1>4. \A n \in 0..turns : Levelled(n) => Even(buckets, order, cap, after[n])
  <2> SUFFICES ASSUME NEW n \in 0..turns, Levelled(n)
               PROVE  Even(buckets, order, cap, after[n])
    OBVIOUS
  <2>1. PICK c \in Nat, i \in 0..(l - 1) : AtLevel(buckets, order, cap, after[n], base, c, i)
    OBVIOUS
  <2> DEFINE cursor == after[n]
  <2>2. i \in Nat /\ \A j \in 1..Len(order) : cursor[order[j]] \in Nat
    BY <1>1, <1>2
  <2>3. AtLevel(buckets, order, cap, cursor, base, c, i)
    BY <2>1
  <2> HIDE DEF cursor
  <2>4. Even(buckets, order, cap, cursor)
    BY <2>2, <2>3, LevelIsEven
  <2>5. QED
    BY <2>4 DEF cursor
<1>5. ASSUME NEW n \in 1..turns, n - 1 \in G
      PROVE  n \in G
  <2>1. n - 1 \in 0..turns /\ n \in 0..turns /\ (Levelled(n - 1) \/ Done(n - 1))
    BY <1>5
  <2> HIDE DEF Levelled, Done
  <2>2. CASE Taken(after[n - 1]) = budget
    <3>1. Even(buckets, order, cap, after[n - 1])
      BY <1>4, <2>1 DEF Done
    <3>2. after[n] = after[n - 1]
      BY <2>2 DEF Ran
    <3>3. Done(n)
      BY <2>2, <3>1, <3>2 DEF Done
    <3>4. QED
      BY <2>1, <3>3
  <2>3. CASE Taken(after[n - 1]) # budget
    <3>1. Taken(after[n - 1]) < budget
      BY <1>2, <2>1, <2>3
    <3>2. PICK c \in Nat, i \in 0..(l - 1) :
            n - 1 = c * l + i /\ AtLevel(buckets, order, cap, after[n - 1], base, c, i)
      BY <2>1, <2>3 DEF Levelled, Done
    <3>3. c * l \in Nat /\ (c + 1) * l = c * l + l
      <4> HIDE DEF l
      <4>1. QED
        BY <1>1, Sweeps
    <3>4. n = c * l + (i + 1) /\ i + 1 \in 1..l /\ i \in Nat
      <4> HIDE DEF l
      <4>1. QED
        BY <1>1, <3>2, <3>3
    <3>5. Turn(n, order) = order[i + 1]
      BY <3>4, TurnAt
    <3>6. AtLevel(buckets, order, cap, after[n], base, c, i + 1)
      <4> DEFINE old == after[n - 1]
                 new == after[n]
      <4>1. \A j \in 1..l : /\ old[order[j]] \in Nat /\ new[order[j]] \in Nat
                            /\ Len(buckets[order[j]]) \in Nat
        BY <1>2, <2>1
      <4>2. \A j \in 1..l : j # i + 1 => new[order[j]] = old[order[j]]
        BY <3>4, <3>5 DEF Ran
      <4>3. IF Free(buckets, cap, old, order[i + 1]) THEN new[order[i + 1]] = old[order[i + 1]] + 1
            ELSE new[order[i + 1]] = old[order[i + 1]]
        <5>1. IF Free(buckets, cap, old, Turn(n, order))
              THEN new[Turn(n, order)] = old[Turn(n, order)] + 1
              ELSE new[Turn(n, order)] = old[Turn(n, order)]
          BY <3>1 DEF Ran
        <5> HIDE DEF old, new
        <5>2. QED
          BY <3>5, <5>1
      <4> HIDE DEF old, new
      <4>4. AtLevel(buckets, order, cap, new, base, c, i + 1)
        <5>1. AtLevel(buckets, order, cap, old, base, c, i)
          BY <3>2 DEF old
        <5>2. QED
          BY <3>4, <4>1, <4>2, <4>3, <5>1, TurnKeepsLevel
      <4>5. QED
        BY <4>4 DEF new
    <3>7. Levelled(n)
      <4>1. CASE i + 1 = l
        <5>1. AtLevel(buckets, order, cap, after[n], base, c + 1, 0)
          BY <3>6, <4>1, SweepEnds
        <5>2. c + 1 \in Nat /\ 0 \in 0..(l - 1)
          BY <1>1
        <5>3. n = (c + 1) * l + 0
          <6> HIDE DEF l
          <6>1. QED
            BY <3>3, <3>4, <4>1
        <5>4. QED
          BY <5>1, <5>2, <5>3 DEF Levelled
      <4>2. CASE i + 1 # l
        <5>1. i + 1 \in 0..(l - 1)
          BY <1>1, <3>4, <4>2
        <5>2. QED
          BY <3>4, <3>6, <5>1 DEF Levelled
      <4>3. QED
        BY <4>1, <4>2
    <3>8. QED
      BY <2>1, <3>7
  <2>4. QED
    BY <2>2, <2>3
<1> HIDE DEF G
<1>6. turns \in G
  <2>1. \A n \in 0..turns : n \in G
    BY <1>3, <1>5, Upward
  <2>2. QED
    BY <2>1
<1>7. Levelled(turns) \/ Done(turns)
  BY <1>6 DEF G
<1>8. QED
  BY <1>4, <1>7

\* What a loop reaches: a bucket of its order that moved stays within the cap
\* and its length; the budget is spent or no bucket can give.
Reached(K, buckets, order, budget, cap, start, end) ==
  /\ end \in [K -> Nat] /\ Taken(end) \in 0..budget
  /\ \A k \in K :
       /\ start[k] <= end[k]
       /\ \/ end[k] = start[k]
          \/ /\ end[k] <= cap /\ end[k] <= Len(buckets[k])
             /\ \E i \in 1..Len(order) : k = order[i]
  /\ \/ Taken(end) = budget
     \/ \A i \in 1..Len(order) : ~Free(buckets, cap, end, order[i])
  /\ Taken(start) = budget => end = start

\* So a whole loop does.
LEMMA RoundRobinReaches ==
  ASSUME NEW K, NEW buckets, NEW order, NEW budget, NEW cap \in Nat, NEW start,
         Runnable(K, buckets, order, budget, start)
  PROVE  Reached(K, buckets, order, budget, cap, start, RoundRobin(buckets, order, budget, cap, start))
<1> DEFINE turns == budget * Len(order)
           end == RoundRobin(buckets, order, budget, cap, start)
<1>1. /\ turns \in Nat
      /\ \E after : after[0] = start /\ after[turns] = end /\ Ran(after, K, turns, buckets, order, budget, cap)
  BY RoundRobinRuns
<1>2. PICK after :
        after[0] = start /\ after[turns] = end /\ Ran(after, K, turns, buckets, order, budget, cap)
  BY <1>1
<1>3. /\ budget \in Nat /\ Len(order) \in Nat /\ \A i \in 1..Len(order) : order[i] \in K
      /\ \A i, j \in 1..Len(order) : order[i] = order[j] => i = j
      /\ \A k \in K : Len(buckets[k]) \in Nat
  BY DEF Runnable
<1>4. \/ Taken(after[turns]) = budget
      \/ \A i \in 1..Len(order) : ~Free(buckets, cap, after[turns], order[i])
  BY <1>2, <1>3, RoundRobinSpends
<1> HIDE DEF end
<1>5. turns # 0 => Len(order) \in Nat \ {0}
  BY <1>1, <1>3
<1>6. \A n \in 1..turns : \E i \in 1..Len(order) : Turn(n, order) = order[i]
  <2> TAKE n \in 1..turns
  <2> DEFINE l == Len(order)
             m == n - 1
  <2>2. l \in Nat \ {0} /\ m \in Nat
    BY <1>1, <1>5
  <2> HIDE DEF l, m
  <2>3. m % l \in 0..(l - 1)
    BY <2>2
  <2>4. (m % l) + 1 \in 1..l
    BY <2>2, <2>3
  <2>5. QED
    BY <2>4 DEF Turn, l, m
<1> HIDE DEF turns
<1>7. end \in [K -> Nat] /\ Taken(end) \in 0..budget
  BY <1>1, <1>2 DEF Ran
<1>8. ASSUME NEW k \in K
      PROVE  /\ start[k] <= end[k]
             /\ \/ end[k] = start[k]
                \/ /\ end[k] <= cap /\ end[k] <= Len(buckets[k])
                   /\ \E i \in 1..Len(order) : k = order[i]
  <2>1. 0 \in 0..turns /\ turns \in 0..turns /\ 0 <= turns
    BY <1>1
  <2>2. after[0][k] <= after[turns][k]
    BY <1>1, <1>2, <1>3, <2>1, RanGrows
  <2>3. Within(after, turns, buckets, order, cap, k, turns)
    <3>1. Len(buckets[k]) \in Nat
      BY <1>3
    <3>2. QED
      BY <1>1, <1>2, <1>3, <3>1, RanBounded
  <2>4. QED
    BY <1>2, <1>6, <2>2, <2>3 DEF Within
<1>9. ASSUME Taken(start) = budget
      PROVE  end = start
  <2> DEFINE G == {n \in 0..turns : after[n] = start}
  <2>1. 0 \in G
    BY <1>1, <1>2
  <2>2. \A n \in 1..turns : n - 1 \in G => n \in G
    BY <1>2, <1>9 DEF Ran
  <2> HIDE DEF G
  <2>3. turns \in 0..turns
    BY <1>1
  <2>4. turns \in G
    BY <1>1, <2>1, <2>2, <2>3, Upward
  <2>5. QED
    BY <1>2, <2>4 DEF G
<1>10. QED
  BY <1>2, <1>4, <1>7, <1>8, <1>9 DEF Reached, end

\* From a level, a loop ends even.
LEMMA RoundRobinEven ==
  ASSUME NEW K, NEW buckets, NEW order, NEW budget, NEW cap \in Nat, NEW start, NEW base \in Nat,
         Runnable(K, buckets, order, budget, start),
         AtLevel(buckets, order, cap, start, base, 0, 0)
  PROVE  Even(buckets, order, cap, RoundRobin(buckets, order, budget, cap, start))
<1> DEFINE turns == budget * Len(order)
           end == RoundRobin(buckets, order, budget, cap, start)
<1>1. /\ turns \in Nat
      /\ \E after : after[0] = start /\ after[turns] = end /\ Ran(after, K, turns, buckets, order, budget, cap)
  BY RoundRobinRuns
<1>2. PICK after :
        after[0] = start /\ after[turns] = end /\ Ran(after, K, turns, buckets, order, budget, cap)
  BY <1>1
<1> HIDE DEF turns, end
<1>3. CASE Len(order) = 0
  BY <1>3 DEF Even, end
<1>4. CASE Len(order) # 0
  <2>1. Even(buckets, order, cap, after[turns])
    BY <1>1, <1>2, <1>4, RoundRobinIsEven DEF Runnable
  <2>2. QED
    BY <1>2, <2>1 DEF end
<1>5. QED
  BY <1>3, <1>4

-----------------------------------------------------------------------------
(***************************************************************************)
(* Counting what was taken.                                                *)
(***************************************************************************)

\* Buckets that hold the elements of C by kind, each once and in some order.
Sorted(C, K, buckets, kind) ==
  /\ IsFiniteSet(C) /\ IsFiniteSet(K) /\ DOMAIN buckets = K
  /\ \A x \in C : kind[x] \in K
  /\ \A k \in K :
       /\ Len(buckets[k]) \in Nat
       /\ \A i \in 1..Len(buckets[k]) : buckets[k][i] \in C /\ kind[buckets[k][i]] = k
       /\ \A i, j \in 1..Len(buckets[k]) : buckets[k][i] = buckets[k][j] => i = j
       /\ \A x \in C : kind[x] = k => \E i \in 1..Len(buckets[k]) : buckets[k][i] = x

Fits(K, buckets, cursor) ==
  cursor \in [K -> Nat] /\ \A k \in K : cursor[k] <= Len(buckets[k])

OfKind(S, kind, k) == {x \in S : kind[x] = k}

\* What the cursors passed: of each bucket as many as its cursor says, and
\* all of a bucket only if it is at its end.
LEMMA ChosenCount ==
  ASSUME NEW C, NEW K, NEW buckets, NEW kind, Sorted(C, K, buckets, kind),
         NEW cursor, Fits(K, buckets, cursor)
  PROVE  LET P == Chosen(buckets, cursor) IN
         /\ P \subseteq C /\ IsFiniteSet(P)
         /\ Cardinality(P) = Taken(cursor)
         /\ \A k \in K : Cardinality(OfKind(P, kind, k)) = cursor[k]
         /\ \A x \in C : x \notin P => cursor[kind[x]] < Len(buckets[kind[x]])
<1> DEFINE P == Chosen(buckets, cursor)
           part == [k \in K |-> {buckets[k][i] : i \in 1..cursor[k]}]
<1>1. DOMAIN cursor = K /\ \A k \in K : cursor[k] \in Nat /\ cursor[k] <= Len(buckets[k])
  BY DEF Fits
<1>2. \A k \in K : \A i \in 1..cursor[k] : i \in 1..Len(buckets[k])
  BY <1>1 DEF Sorted
<1>3. \A k \in K : \A x \in part[k] : x \in C /\ kind[x] = k
  BY <1>2 DEF Sorted
<1>4. ASSUME NEW k \in K
      PROVE  IsFiniteSet(part[k]) /\ Cardinality(part[k]) = cursor[k]
  <2> DEFINE I == 1..cursor[k]
             f == buckets[k]
  <2>1. IsFiniteSet(I) /\ Cardinality(I) = cursor[k]
    BY <1>1, FS_Interval
  <2>2. \A i, j \in I : f[i] = f[j] => i = j
    BY <1>2 DEF Sorted
  <2>3. part[k] = {f[i] : i \in I}
    OBVIOUS
  <2> HIDE DEF I, f, part
  <2>4. QED
    BY <2>1, <2>2, <2>3, ImageCount
<1>5. \A j, k \in K : j # k => part[j] \cap part[k] = {}
  BY <1>3
<1>6. P = UNION {part[k] : k \in K}
  BY <1>1 DEF Chosen
<1> HIDE DEF part, P
<1>7. IsFiniteSet(P) /\ Cardinality(P) = SumFunctionOnSet(cursor, K)
  <2>1. IsFiniteSet(K)
    BY DEF Sorted
  <2>2. \A k \in K : IsFiniteSet(part[k]) /\ Cardinality(part[k]) = cursor[k]
    BY <1>4
  <2>3. /\ IsFiniteSet(UNION {part[k] : k \in K})
        /\ Cardinality(UNION {part[k] : k \in K}) = SumFunctionOnSet(cursor, K)
    BY <1>5, <2>1, <2>2, UnionCount
  <2>4. QED
    BY <1>6, <2>3
<1>8. Cardinality(P) = Taken(cursor)
  BY <1>1, <1>7 DEF Taken
<1>9. P \subseteq C
  BY <1>3, <1>6
<1>10. \A k \in K : OfKind(P, kind, k) = part[k]
  BY <1>3, <1>6 DEF OfKind
<1>11. ASSUME NEW x \in C, x \notin P
       PROVE  cursor[kind[x]] < Len(buckets[kind[x]])
  <2> DEFINE k == kind[x]
  <2>1. k \in K
    BY DEF Sorted
  <2>2. PICK i \in 1..Len(buckets[k]) : buckets[k][i] = x
    BY <2>1 DEF Sorted
  <2>3. Len(buckets[k]) \in Nat /\ cursor[k] \in Nat
    BY <1>1, <2>1 DEF Sorted
  <2>4. i \notin 1..cursor[k]
    <3>1. x \notin part[k]
      BY <1>6, <1>11, <2>1
    <3>2. QED
      BY <2>1, <2>2, <3>1 DEF part
  <2> HIDE DEF k
  <2>5. cursor[k] < Len(buckets[k])
    BY <2>2, <2>3, <2>4
  <2>6. QED
    BY <2>5 DEF k
<1>12. QED
  BY <1>4, <1>7, <1>8, <1>9, <1>10, <1>11 DEF P

\* Candidates of one symbol each.
Batch(C) == /\ IsFiniteSet(C) /\ C \subseteq Candidates
            /\ \A c, d \in C : c.symbol = d.symbol => c = d

BucketsOf(C, field) == [k \in {c[field] : c \in C} |-> BucketOf(C, field, k)]

KindBy(C, field) == [c \in C |-> c[field]]

\* The buckets of a batch.
LEMMA BucketsSorted ==
  ASSUME NEW C, Batch(C), NEW field
  PROVE  Sorted(C, {c[field] : c \in C}, BucketsOf(C, field), KindBy(C, field))
<1> DEFINE K == {c[field] : c \in C}
           kind == KindBy(C, field)
           buckets == BucketsOf(C, field)
<1>1. IsFiniteSet(C) /\ IsFiniteSet(K)
  <2>1. IsFiniteSet(C)
    BY DEF Batch
  <2> DEFINE f == [c \in C |-> c[field]]
  <2>2. f \in Surjection(C, K)
    BY DEF Surjection
  <2> HIDE DEF f, K
  <2>3. QED
    BY <2>1, <2>2, FS_Surjection
<1>2. \A c \in C : kind[c] = c[field] /\ kind[c] \in K
  BY DEF KindBy
<1>3. \A c \in C : c.symbol \in Symbols
  BY DEF Batch, Candidates
<1>4. ASSUME NEW k \in K
      PROVE  /\ Len(buckets[k]) \in Nat
             /\ \A i \in 1..Len(buckets[k]) : buckets[k][i] \in C /\ kind[buckets[k][i]] = k
             /\ \A i, j \in 1..Len(buckets[k]) : buckets[k][i] = buckets[k][j] => i = j
             /\ \A x \in C : kind[x] = k => \E i \in 1..Len(buckets[k]) : buckets[k][i] = x
  <2> DEFINE S == {c \in C : c[field] = k}
             key == [c \in S |-> Rank(c.symbol)]
             q == InOrder(S, key)
  <2>1. IsFiniteSet(S)
    BY <1>1, FS_Subset
  <2>2. \A x \in S : key[x] \in Int
    BY <1>3, SelectionAssumption
  <2>3. \A x, y \in S : key[x] = key[y] => x = y
    BY <1>3, SelectionAssumption DEF Batch
  <2>4. buckets[k] = q
    BY DEF BucketsOf, BucketOf
  <2>5. \A x : x \in S <=> x \in C /\ kind[x] = k
    BY <1>2
  <2> HIDE DEF S, key
  <2>6. /\ Len(q) = Cardinality(S) /\ Cardinality(S) \in Nat
        /\ \A i \in 1..Cardinality(S) : q[i] \in S
        /\ \A i, j \in 1..Cardinality(S) : q[i] = q[j] => i = j
        /\ \A x \in S : \E i \in 1..Cardinality(S) : q[i] = x
    <3>1. Lists(q, S)
      BY <2>1, <2>2, <2>3, InOrderLists
    <3> HIDE DEF q
    <3>2. QED
      BY <3>1 DEF Lists
  <2> HIDE DEF q, kind
  <2>7. QED
    BY <2>4, <2>5, <2>6
<1>5. DOMAIN buckets = K
  BY DEF BucketsOf
<1> HIDE DEF kind, buckets, K
<1>6. Sorted(C, K, buckets, kind)
  BY <1>1, <1>2, <1>4, <1>5 DEF Sorted
<1>7. QED
  BY <1>6 DEF kind, buckets, K

\* A rotation has each of its members in one place.
Rotation(order, S) ==
  /\ order \in Seq(S) /\ Len(order) \in Nat
  /\ \A i \in 1..Len(order) : order[i] \in S
  /\ \A i, j \in 1..Len(order) : order[i] = order[j] => i = j
  /\ \A x \in S : \E i \in 1..Len(order) : order[i] = x

\* Scans and sectors rotate.
LEMMA RotationOf ==
  ASSUME NEW S, IsFiniteSet(S), S \subseteq Shards \/ S \subseteq Sectors
  PROVE  Rotation(InRotation(S), S)
<1> DEFINE key == [x \in S |-> Rank(x)]
           q == InOrder(S, key)
<1>1. \A x \in S : key[x] \in Int
  BY SelectionAssumption
<1>2. \A x, y \in S : key[x] = key[y] => x = y
  BY SelectionAssumption
<1>3. InRotation(S) = q
  BY DEF InRotation
<1> HIDE DEF key
<1>4. /\ Len(q) = Cardinality(S) /\ Cardinality(S) \in Nat
      /\ q \in [1..Cardinality(S) -> S]
      /\ \A i \in 1..Cardinality(S) : q[i] \in S
      /\ \A i, j \in 1..Cardinality(S) : q[i] = q[j] => i = j
      /\ \A x \in S : \E i \in 1..Cardinality(S) : q[i] = x
  <2>1. Lists(q, S)
    BY <1>1, <1>2, InOrderLists
  <2> HIDE DEF q
  <2>2. QED
    BY <2>1 DEF Lists
<1> HIDE DEF q
<1>5. q \in Seq(S)
  BY <1>4
<1>6. QED
  BY <1>3, <1>4, <1>5 DEF Rotation

\* Two rotations, one after the other.
LEMMA RotationAfter ==
  ASSUME NEW p, NEW q, NEW S, NEW T, S \cap T = {}, Rotation(p, S), Rotation(q, T)
  PROVE  Rotation(p \o q, S \cup T)
<1> DEFINE m == Len(p)
           n == Len(q)
           r == p \o q
<1>1. /\ m \in Nat /\ n \in Nat /\ Len(r) = m + n
      /\ \A i \in 1..m : r[i] = p[i]
      /\ \A i \in 1..(m + n) : i > m => r[i] = q[i - m]
  BY DEF Rotation
<1>2. /\ \A i \in 1..m : p[i] \in S
      /\ \A i, j \in 1..m : p[i] = p[j] => i = j
      /\ \A x \in S : \E i \in 1..m : p[i] = x
  BY DEF Rotation
<1>3. /\ \A i \in 1..n : q[i] \in T
      /\ \A i, j \in 1..n : q[i] = q[j] => i = j
      /\ \A x \in T : \E i \in 1..n : q[i] = x
  BY DEF Rotation
<1> HIDE DEF m, n, r
<1>4. ASSUME NEW i \in 1..(m + n)
      PROVE  \/ i \in 1..m /\ r[i] \in S /\ r[i] = p[i]
             \/ i - m \in 1..n /\ r[i] \in T /\ r[i] = q[i - m]
  <2>1. CASE i \in 1..m
    BY <1>1, <1>2, <2>1
  <2>2. CASE i \notin 1..m
    <3>1. i > m /\ i - m \in 1..n
      BY <1>1, <2>2
    <3>2. QED
      BY <1>1, <1>3, <3>1
  <2>3. QED
    BY <2>1, <2>2
<1>5. ASSUME NEW i \in 1..(m + n), NEW j \in 1..(m + n), r[i] = r[j]
      PROVE  i = j
  <2>1. CASE i \in 1..m /\ r[i] = p[i] /\ r[i] \in S
    <3>1. j \in 1..m /\ r[j] = p[j]
      BY <1>4, <1>5, <2>1
    <3>2. QED
      BY <1>2, <1>5, <2>1, <3>1
  <2>2. CASE i - m \in 1..n /\ r[i] = q[i - m] /\ r[i] \in T
    <3>1. j - m \in 1..n /\ r[j] = q[j - m]
      BY <1>4, <1>5, <2>2
    <3>2. i - m = j - m
      BY <1>3, <1>5, <2>2, <3>1
    <3>3. QED
      BY <1>1, <3>2
  <2>3. QED
    BY <1>4, <2>1, <2>2
<1>6. ASSUME NEW x \in T
      PROVE  \E i \in 1..(m + n) : r[i] = x
  <2>1. PICK i \in 1..n : q[i] = x
    BY <1>3
  <2>2. i + m \in 1..(m + n) /\ i + m > m /\ (i + m) - m = i
    BY <1>1
  <2>3. QED
    BY <1>1, <2>1, <2>2
<1>7. ASSUME NEW x \in S
      PROVE  \E i \in 1..(m + n) : r[i] = x
  <2>1. PICK i \in 1..m : p[i] = x
    BY <1>2
  <2>2. i \in 1..(m + n)
    BY <1>1
  <2>3. QED
    BY <1>1, <2>1, <2>2
<1>8. Rotation(r, S \cup T)
  <2>1. Len(r) \in Nat /\ Len(r) = m + n
    BY <1>1
  <2>2. \A i \in 1..Len(r) : r[i] \in S \cup T
    BY <1>4, <2>1
  <2>3. \A i, j \in 1..Len(r) : r[i] = r[j] => i = j
    BY <1>5, <2>1
  <2>4. \A x \in S \cup T : \E i \in 1..Len(r) : r[i] = x
    BY <1>6, <1>7, <2>1
  <2>5. r \in Seq(S \cup T)
    BY DEF Rotation, r
  <2>6. QED
    BY <2>1, <2>2, <2>3, <2>4, <2>5 DEF Rotation
<1>9. QED
  BY <1>8 DEF r

-----------------------------------------------------------------------------
(***************************************************************************)
(* The two selections.                                                     *)
(***************************************************************************)

\* What a pass under a cap leaves: it spent the budget or no bucket can give,
\* and who can give is at most one behind anyone.
Shared(K, buckets, budget, cap, end) ==
  /\ Fits(K, buckets, end) /\ Taken(end) \in 0..budget
  /\ \A k \in K : end[k] <= cap
  /\ Taken(end) = budget \/ \A k \in K : ~Free(buckets, cap, end, k)
  /\ \A j, k \in K : Free(buckets, cap, end, k) => end[j] <= end[k] + 1

\* A first pass starts with nothing taken of any bucket.
LEMMA FirstPass ==
  ASSUME NEW C, NEW K, NEW buckets, NEW kind, Sorted(C, K, buckets, kind),
         NEW order, Rotation(order, K), NEW budget \in Nat, NEW cap \in Nat
  PROVE  Shared(K, buckets, budget, cap, RoundRobin(buckets, order, budget, cap, [k \in K |-> 0]))
<1> DEFINE start == [k \in K |-> 0]
           end == RoundRobin(buckets, order, budget, cap, start)
<1>1. DOMAIN start = K /\ start \in [K -> Nat] /\ \A k \in K : start[k] = 0
  OBVIOUS
<1> HIDE DEF start
<1>2. Taken(start) = 0
  BY <1>1, SumZero DEF Taken, Sorted
<1>3. Runnable(K, buckets, order, budget, start)
  <2>1. IsFiniteSet(K) /\ \A k \in K : Len(buckets[k]) \in Nat
    BY DEF Sorted
  <2>2. /\ Len(order) \in Nat /\ \A i \in 1..Len(order) : order[i] \in K
        /\ \A i, j \in 1..Len(order) : order[i] = order[j] => i = j
    BY DEF Rotation
  <2>3. Taken(start) <= budget
    BY <1>2
  <2>4. QED
    BY <1>1, <2>1, <2>2, <2>3 DEF Runnable
<1>4. AtLevel(buckets, order, cap, start, 0, 0, 0)
  BY <1>1 DEF AtLevel, Level, Rotation
<1>5. 0 \in Nat
  OBVIOUS
<1>6. Reached(K, buckets, order, budget, cap, start, end) /\ Even(buckets, order, cap, end)
  BY <1>3, <1>4, <1>5, RoundRobinReaches, RoundRobinEven
<1> HIDE DEF end
<1>7. \A k \in K : \E i \in 1..Len(order) : order[i] = k
  BY DEF Rotation
<1>8. \A k \in K : Len(buckets[k]) \in Nat
  BY DEF Sorted
<1>9. \A k \in K : end[k] <= cap /\ end[k] <= Len(buckets[k])
  BY <1>1, <1>6, <1>8 DEF Reached
<1>10. \A j, k \in K : Free(buckets, cap, end, k) => end[j] <= end[k] + 1
  BY <1>6, <1>7 DEF Reached, Even
<1>11. Taken(end) = budget \/ \A k \in K : ~Free(buckets, cap, end, k)
  BY <1>6, <1>7 DEF Reached
<1>12. QED
  BY <1>6, <1>9, <1>10, <1>11 DEF Shared, Reached, Fits, end, start

\* Of a batch, a budget picks as many as it has, or everyone.
LEMMA FundamentalsPicked ==
  ASSUME NEW C, Batch(C), NEW budget \in Nat
  PROVE  \E P \in SUBSET C :
           /\ SelectForFundamentals(C, budget)
                = [selected |-> {Advanced(c, "fundamentals_selected") : c \in P},
                   deferred |-> {Deferred(c, "fundamentals_budget") : c \in C \ P}]
           /\ Cardinality(P) \in 0..budget
           /\ P # C => Cardinality(P) = budget
<1> DEFINE K == {c["shard"] : c \in C}
           buckets == BucketsOf(C, "shard")
           kind == KindBy(C, "shard")
           order == InRotation(K)
           end == RoundRobin(buckets, order, budget, budget, [k \in K |-> 0])
           picked == IF budget <= 0 THEN {} ELSE Chosen(buckets, end)
<1>1. SelectForFundamentals(C, budget)
        = [selected |-> {Advanced(c, "fundamentals_selected") : c \in picked},
           deferred |-> {Deferred(c, "fundamentals_budget") : c \in C \ picked}]
  BY DEF SelectForFundamentals, BucketsOf
<1>2. Sorted(C, K, buckets, kind)
  BY BucketsSorted
<1>3. K \subseteq Shards
  BY DEF Batch, Candidates
<1>4. Rotation(order, K)
  <2>1. IsFiniteSet(K)
    BY <1>2 DEF Sorted
  <2> HIDE DEF K
  <2>2. QED
    BY <1>3, <2>1, RotationOf
<1> HIDE DEF K, buckets, kind, order
<1>5. /\ Fits(K, buckets, end) /\ Taken(end) \in 0..budget
      /\ Taken(end) = budget \/ \A k \in K : ~Free(buckets, budget, end, k)
  BY <1>2, <1>4, FirstPass DEF Shared
<1> HIDE DEF end
<1>6. LET P == Chosen(buckets, end) IN
      /\ P \subseteq C /\ Cardinality(P) = Taken(end)
      /\ \A x \in C : x \notin P => end[kind[x]] < Len(buckets[kind[x]])
  BY <1>2, <1>5, ChosenCount
<1>7. ASSUME NEW k \in K, Taken(end) # budget
      PROVE  end[k] >= Len(buckets[k])
  <2>1. end[k] \in Nat /\ Len(buckets[k]) \in Nat
    BY <1>2, <1>5 DEF Fits, Sorted
  <2>2. end[k] <= Taken(end)
    <3>1. DOMAIN end = K /\ \A j \in K : end[j] \in Nat
      BY <1>5 DEF Fits
    <3>2. IsFiniteSet(K)
      BY <1>2 DEF Sorted
    <3>3. QED
      BY <3>1, <3>2, SumTerm DEF Taken
  <2>3. end[k] < budget
    BY <1>5, <1>7, <2>1, <2>2
  <2>4. QED
    BY <1>5, <1>7, <2>1, <2>3 DEF Free
<1>8. CASE budget = 0
  <2>1. picked = {} /\ Cardinality(picked) = 0
    BY <1>8, FS_EmptySet
  <2> HIDE DEF picked
  <2>2. picked \in SUBSET C /\ Cardinality(picked) = budget /\ budget \in 0..budget
    BY <1>8, <2>1
  <2>3. QED
    BY <1>1, <2>2
<1>9. CASE budget # 0
  <2>1. picked = Chosen(buckets, end)
    BY <1>9
  <2> HIDE DEF picked
  <2>2. picked \subseteq C /\ Cardinality(picked) \in 0..budget
    BY <1>5, <1>6, <2>1
  <2>3. picked # C => Cardinality(picked) = budget
    <3> SUFFICES ASSUME picked # C, Taken(end) # budget PROVE FALSE
      BY <1>6, <2>1
    <3>1. PICK x \in C : x \notin picked
      BY <2>2
    <3>2. kind[x] \in K
      BY <1>2 DEF Sorted
    <3>3. end[kind[x]] \in Nat /\ Len(buckets[kind[x]]) \in Nat
      BY <1>2, <1>5, <3>2 DEF Fits, Sorted
    <3>4. QED
      BY <1>6, <1>7, <2>1, <3>1, <3>2, <3>3
  <2>4. QED
    BY <1>1, <2>2, <2>3
<1>10. QED
  BY <1>8, <1>9

\* A cursor is at most what was taken.
LEMMA CursorTaken ==
  ASSUME NEW K, IsFiniteSet(K), NEW cursor \in [K -> Nat], NEW k \in K
  PROVE  cursor[k] \in Nat /\ Taken(cursor) \in Nat /\ cursor[k] <= Taken(cursor)
<1>1. DOMAIN cursor = K /\ \A j \in K : cursor[j] \in Nat
  OBVIOUS
<1>2. QED
  BY <1>1, SumTerm, SumNat DEF Taken

\* What a pass over the buckets of S leaves after one under a cap: the others
\* stay within the cap, and a bucket of S waits only when the budget is spent
\* and it is at most one behind.
Topped(K, S, buckets, budget, cap, end) ==
  /\ Fits(K, buckets, end) /\ Taken(end) \in 0..budget
  /\ \A k \in K \ S : end[k] <= cap
  /\ \A k \in S : end[k] < Len(buckets[k]) =>
       Taken(end) = budget /\ \A j \in K : end[j] <= end[k] + 1

\* So the second pass does.
LEMMA SecondPass ==
  ASSUME NEW C, NEW K, NEW buckets, NEW kind, Sorted(C, K, buckets, kind),
         NEW S \in SUBSET K, NEW order, Rotation(order, S), NEW budget \in Nat, NEW cap \in Nat,
         NEW first, Shared(K, buckets, budget, cap, first)
  PROVE  Topped(K, S, buckets, budget, cap, RoundRobin(buckets, order, budget, budget, first))
<1> DEFINE end == RoundRobin(buckets, order, budget, budget, first)
<1>1. /\ IsFiniteSet(K) /\ first \in [K -> Nat] /\ Taken(first) \in 0..budget
      /\ \A k \in K : /\ Len(buckets[k]) \in Nat /\ first[k] \in Nat
                      /\ first[k] <= cap /\ first[k] <= Len(buckets[k])
  BY DEF Sorted, Shared, Fits
<1>2. /\ Len(order) \in Nat /\ \A i \in 1..Len(order) : order[i] \in S
      /\ \A i, j \in 1..Len(order) : order[i] = order[j] => i = j
      /\ \A k \in S : \E i \in 1..Len(order) : order[i] = k
  BY DEF Rotation
<1>3. Runnable(K, buckets, order, budget, first)
  BY <1>1, <1>2 DEF Runnable
<1>4. Reached(K, buckets, order, budget, budget, first, end)
  BY <1>3, RoundRobinReaches
<1>5. Taken(first) < budget => Even(buckets, order, budget, end)
  <2> SUFFICES ASSUME Taken(first) < budget
               PROVE  Even(buckets, order, budget, end)
    OBVIOUS
  <2>1. \A k \in K : ~Free(buckets, cap, first, k)
    BY <1>1 DEF Shared
  <2>2. \A k \in K : first[k] = cap \/ first[k] = Len(buckets[k])
    BY <1>1, <2>1 DEF Free
  <2>3. AtLevel(buckets, order, budget, first, cap, 0, 0)
    BY <1>1, <1>2, <2>2 DEF AtLevel, Level, Free
  <2>4. QED
    BY <1>3, <2>3, RoundRobinEven
<1> HIDE DEF end
<1>6. /\ end \in [K -> Nat] /\ Taken(end) \in 0..budget
      /\ \A k \in K : end[k] \in Nat /\ first[k] <= end[k] /\ end[k] <= Taken(end)
  BY <1>1, <1>4, CursorTaken DEF Reached
<1>7. \A k \in K : end[k] <= Len(buckets[k])
  BY <1>1, <1>4 DEF Reached
<1>8. \A k \in K \ S : end[k] = first[k] /\ end[k] <= cap
  BY <1>1, <1>2, <1>4 DEF Reached
<1>9. ASSUME NEW k \in S, end[k] < Len(buckets[k])
      PROVE  Taken(end) = budget /\ \A j \in K : end[j] <= end[k] + 1
  <2>1. k \in K /\ first[k] < Len(buckets[k])
    BY <1>1, <1>6, <1>9
  <2>2. CASE Taken(first) = budget
    <3>1. end = first
      BY <1>4, <2>2 DEF Reached
    <3>2. \A j \in K : first[j] <= first[k] + 1
      <4>1. CASE first[k] < cap
        BY <2>1, <4>1 DEF Shared, Free
      <4>2. CASE ~(first[k] < cap)
        BY <1>1, <2>1, <4>2
      <4>3. QED
        BY <4>1, <4>2
    <3>3. QED
      BY <2>2, <3>1, <3>2
  <2>3. CASE Taken(first) < budget
    <3>1. ~Free(buckets, cap, first, k)
      BY <1>1, <2>1, <2>3 DEF Shared
    <3>2. cap <= end[k]
      BY <1>1, <1>6, <2>1, <3>1 DEF Free
    <3>3. CASE end[k] < budget
      <4>1. Free(buckets, budget, end, k)
        BY <1>9, <3>3 DEF Free
      <4>2. Taken(end) = budget
        BY <1>2, <1>4, <4>1 DEF Reached
      <4>3. \A j \in S : end[j] <= end[k] + 1
        BY <1>2, <1>5, <2>3, <4>1 DEF Even
      <4>4. \A j \in K \ S : end[j] <= end[k] + 1
        BY <1>6, <1>8, <2>1, <3>2
      <4>5. QED
        BY <4>2, <4>3, <4>4
    <3>4. CASE ~(end[k] < budget)
      <4>1. Taken(end) = budget
        BY <1>6, <2>1, <3>4
      <4>2. \A j \in K : end[j] <= end[k] + 1
        BY <1>6, <2>1, <3>4
      <4>3. QED
        BY <4>1, <4>2
    <3>5. QED
      BY <3>3, <3>4
  <2>4. QED
    BY <1>1, <2>2, <2>3
<1>10. QED
  BY <1>6, <1>7, <1>8, <1>9 DEF Topped, Fits, end

InSector(S, k) == {c \in S : c.sector = k}

\* The cap of a budget is a number.
LEMMA CapNat ==
  ASSUME NEW budget \in Nat, NEW m \in Nat
  PROVE  CapOf(budget, m) \in Nat
BY DEF CapOf

\* Who the enrichment budget picks: no more than it, the unknown sector within
\* the cap; a known candidate is left only by a spent budget, from a sector at
\* most one behind.
LEMMA EnrichmentPicked ==
  ASSUME NEW C, Batch(C), NEW budget \in Nat, NEW m \in Nat
  PROVE  \E P \in SUBSET C :
           /\ SelectForEnrichment(C, budget, m)
                = [selected |-> {Advanced(c, "selected") : c \in P},
                   deferred |-> {Deferred(c, IF Cardinality(P) >= budget THEN "enrichment_budget"
                                             ELSE "unknown_sector_limit") : c \in C \ P}]
           /\ Cardinality(P) \in 0..budget
           /\ Cardinality(InSector(P, UnknownSector)) <= CapOf(budget, m)
           /\ \A c \in C \ P : c.sector # UnknownSector =>
                /\ Cardinality(P) = budget
                /\ \A k \in {d.sector : d \in C} :
                     Cardinality(InSector(P, k)) <= Cardinality(InSector(P, c.sector)) + 1
<1> DEFINE K == {c["sector"] : c \in C}
           buckets == BucketsOf(C, "sector")
           kind == KindBy(C, "sector")
           known == InRotation(K \ {UnknownSector})
           order == known \o InRotation(K \cap {UnknownSector})
           cap == CapOf(budget, m)
           first == RoundRobin(buckets, order, budget, cap, [k \in K |-> 0])
           end == RoundRobin(buckets, known, budget, budget, first)
           picked == IF budget <= 0 THEN {} ELSE Chosen(buckets, end)
           reason(P) == IF Cardinality(P) >= budget THEN "enrichment_budget" ELSE "unknown_sector_limit"
<1>1. SelectForEnrichment(C, budget, m)
        = [selected |-> {Advanced(c, "selected") : c \in picked},
           deferred |-> {Deferred(c, reason(picked)) : c \in C \ picked}]
  BY DEF SelectForEnrichment, BucketsOf
<1>2. Sorted(C, K, buckets, kind)
  BY BucketsSorted
<1>3. K \subseteq Sectors
  BY DEF Batch, Candidates
<1>4. \A c \in C : kind[c] = c.sector /\ c.sector \in K
  BY DEF KindBy
<1>5. K = {d.sector : d \in C}
  OBVIOUS
<1> HIDE DEF K, kind, buckets
<1>6. Rotation(known, K \ {UnknownSector}) /\ Rotation(order, K)
  <2> DEFINE S == K \ {UnknownSector}
             T == K \cap {UnknownSector}
             p == InRotation(S)
             q == InRotation(T)
  <2>1. /\ IsFiniteSet(S) /\ IsFiniteSet(T) /\ S \cap T = {} /\ S \cup T = K
        /\ S \subseteq Sectors /\ T \subseteq Sectors
    BY <1>2, <1>3, FS_Subset DEF Sorted
  <2>2. known = p /\ order = p \o q
    OBVIOUS
  <2> HIDE DEF S, T, known, order
  <2>3. Rotation(p, S) /\ Rotation(q, T)
    BY <2>1, RotationOf
  <2> HIDE DEF p, q
  <2>4. Rotation(p \o q, S \cup T)
    BY <2>1, <2>3, RotationAfter
  <2>5. QED
    BY <2>1, <2>2, <2>3, <2>4 DEF S
<1> HIDE DEF order, known
<1>7. cap \in Nat
  BY CapNat
<1> HIDE DEF cap
<1>8. Shared(K, buckets, budget, cap, first)
  BY <1>2, <1>6, <1>7, FirstPass
<1> HIDE DEF first
<1>9. /\ Fits(K, buckets, end) /\ Taken(end) \in 0..budget
      /\ \A k \in K \ (K \ {UnknownSector}) : end[k] <= cap
      /\ \A k \in K \ {UnknownSector} : end[k] < Len(buckets[k]) =>
           Taken(end) = budget /\ \A j \in K : end[j] <= end[k] + 1
  <2>1. K \ {UnknownSector} \in SUBSET K
    OBVIOUS
  <2>2. Topped(K, K \ {UnknownSector}, buckets, budget, cap, end)
    BY <1>2, <1>6, <1>7, <1>8, <2>1, SecondPass
  <2>3. QED
    BY <2>2 DEF Topped
<1> HIDE DEF end
<1>10. CASE budget = 0
  <2>1. picked = {} /\ Cardinality(picked) = 0
    BY <1>10, FS_EmptySet
  <2> HIDE DEF picked
  <2>2. \A k : InSector(picked, k) = {} /\ Cardinality(InSector(picked, k)) = 0
    <3>1. \A k : InSector(picked, k) = {}
      BY <2>1 DEF InSector
    <3>2. QED
      BY <2>1, <3>1
  <2>3. picked \in SUBSET C /\ Cardinality(picked) = budget /\ budget \in 0..budget
    BY <1>10, <2>1
  <2>4. Cardinality(InSector(picked, UnknownSector)) <= cap
    BY <1>7, <2>2
  <2>5. \A j, k : Cardinality(InSector(picked, j)) <= Cardinality(InSector(picked, k)) + 1
    BY <2>2
  <2>6. QED
    BY <1>1, <2>3, <2>4, <2>5 DEF cap
<1>11. CASE budget # 0
  <2>1. picked = Chosen(buckets, end)
    BY <1>11
  <2> HIDE DEF picked
  <2>2. /\ picked \subseteq C /\ Cardinality(picked) = Taken(end)
        /\ \A k \in K : Cardinality(OfKind(picked, kind, k)) = end[k]
        /\ \A x \in C : x \notin picked => end[kind[x]] < Len(buckets[kind[x]])
    BY <1>2, <1>9, <2>1, ChosenCount
  <2>3. \A k : InSector(picked, k) = OfKind(picked, kind, k)
    BY <1>4, <2>2 DEF InSector, OfKind
  <2>4. \A k \in K : Cardinality(InSector(picked, k)) = end[k]
    BY <2>2, <2>3
  <2>5. Cardinality(InSector(picked, UnknownSector)) <= cap
    <3>1. CASE UnknownSector \in K
      BY <1>9, <2>4, <3>1
    <3>2. CASE UnknownSector \notin K
      <4>1. InSector(picked, UnknownSector) = {}
        BY <1>4, <2>2, <3>2 DEF InSector
      <4>2. QED
        BY <1>7, <4>1, FS_EmptySet
    <3>3. QED
      BY <3>1, <3>2
  <2>6. ASSUME NEW c \in C \ picked, c.sector # UnknownSector
        PROVE  /\ Cardinality(picked) = budget
               /\ \A k \in K : Cardinality(InSector(picked, k))
                                 <= Cardinality(InSector(picked, c.sector)) + 1
    <3>1. c.sector \in K /\ end[c.sector] < Len(buckets[c.sector])
      BY <1>4, <2>2
    <3>2. Taken(end) = budget /\ \A j \in K : end[j] <= end[c.sector] + 1
      BY <1>9, <2>6, <3>1
    <3>3. QED
      BY <2>2, <2>4, <3>1, <3>2
  <2>7. Cardinality(picked) \in 0..budget
    BY <1>9, <2>2
  <2>8. QED
    BY <1>1, <1>5, <2>2, <2>5, <2>6, <2>7 DEF cap
<1>12. QED
  BY <1>10, <1>11

-----------------------------------------------------------------------------
(***************************************************************************)
(* Candidates, marked and put together.                                    *)
(***************************************************************************)
SymbolsOf(S) == {c.symbol : c \in S}

Stages == {"discovered", "fundamentals_selected", "eligible", "selected"}

Exits == {Kept, "drift", "incomplete", "fundamentals_budget", "fundamentals_missing",
          "enrichment_budget", "unknown_sector_limit"}

\* What is made of a batch, one for one under the same symbols, is one.
LEMMA BatchImage ==
  ASSUME NEW S, Batch(S), NEW f, \A c \in S : f[c] \in Candidates /\ f[c].symbol = c.symbol
  PROVE  LET T == {f[c] : c \in S} IN
         Batch(T) /\ SymbolsOf(T) = SymbolsOf(S) /\ Cardinality(T) = Cardinality(S)
<1> DEFINE T == {f[c] : c \in S}
<1>1. \A c, d \in S : f[c].symbol = f[d].symbol => c = d
  BY DEF Batch
<1>2. \A c, d \in S : f[c] = f[d] => c = d
  BY <1>1
<1>3. IsFiniteSet(T) /\ Cardinality(T) = Cardinality(S)
  BY <1>2, ImageCount DEF Batch
<1>4. Batch(T)
  BY <1>1, <1>3 DEF Batch
<1>5. SymbolsOf(T) = SymbolsOf(S)
  BY DEF SymbolsOf
<1>6. QED
  BY <1>3, <1>4, <1>5

\* Of a batch, any part is one.
LEMMA BatchPart ==
  ASSUME NEW S, Batch(S), NEW T \in SUBSET S
  PROVE  Batch(T)
BY FS_Subset DEF Batch

\* A batch has as many candidates as symbols.
LEMMA BatchCount ==
  ASSUME NEW S, Batch(S)
  PROVE  Cardinality(SymbolsOf(S)) = Cardinality(S)
<1> DEFINE f == [c \in S |-> c.symbol]
<1>1. IsFiniteSet(S) /\ \A c, d \in S : f[c] = f[d] => c = d
  BY DEF Batch
<1>2. SymbolsOf(S) = {f[c] : c \in S}
  BY DEF SymbolsOf
<1> HIDE DEF f
<1>3. QED
  BY <1>1, <1>2, ImageCount

\* Batches of other symbols make one together.
LEMMA BatchUnion ==
  ASSUME NEW S, NEW T, Batch(S), Batch(T), SymbolsOf(S) \cap SymbolsOf(T) = {}
  PROVE  Batch(S \cup T) /\ SymbolsOf(S \cup T) = SymbolsOf(S) \cup SymbolsOf(T)
<1>1. IsFiniteSet(S \cup T)
  BY FS_Union DEF Batch
<1>2. \A c \in S, d \in T : c.symbol # d.symbol
  BY DEF SymbolsOf
<1>3. QED
  BY <1>1, <1>2 DEF Batch, SymbolsOf

\* A candidate that advances or is deferred is the same otherwise.
LEMMA Marks ==
  ASSUME NEW c \in Candidates, NEW stage \in Stages, NEW exit \in Exits
  PROVE  /\ Advanced(c, stage) \in Candidates /\ Deferred(c, exit) \in Candidates
         /\ Advanced(c, stage).symbol = c.symbol /\ Advanced(c, stage).sector = c.sector
         /\ Advanced(c, stage).exit = c.exit
         /\ Deferred(c, exit).symbol = c.symbol /\ Deferred(c, exit).sector = c.sector
         /\ Deferred(c, exit).exit = exit
BY DEF Candidates, Advanced, Deferred, Stages, Exits

\* A batch that advances.
LEMMA BatchAdvanced ==
  ASSUME NEW S, Batch(S), NEW stage \in Stages
  PROVE  LET T == {Advanced(c, stage) : c \in S} IN
         /\ Batch(T) /\ SymbolsOf(T) = SymbolsOf(S) /\ Cardinality(T) = Cardinality(S)
         /\ (\A c \in S : c.exit = Kept) => \A c \in T : c.exit = Kept
<1> DEFINE f == [c \in S |-> Advanced(c, stage)]
<1>1. Kept \in Exits /\ S \subseteq Candidates
  BY DEF Exits, Batch
<1>2. \A c \in S : f[c] \in Candidates /\ f[c].symbol = c.symbol /\ f[c].exit = c.exit
  BY <1>1, Marks
<1>3. {Advanced(c, stage) : c \in S} = {f[c] : c \in S}
  OBVIOUS
<1> HIDE DEF f
<1>4. LET T == {f[c] : c \in S} IN
      Batch(T) /\ SymbolsOf(T) = SymbolsOf(S) /\ Cardinality(T) = Cardinality(S)
  BY <1>2, BatchImage
<1>5. QED
  BY <1>2, <1>3, <1>4

\* A batch that is deferred.
LEMMA BatchDeferred ==
  ASSUME NEW S, Batch(S), NEW exit \in Exits
  PROVE  LET T == {Deferred(c, exit) : c \in S} IN
         /\ Batch(T) /\ SymbolsOf(T) = SymbolsOf(S) /\ Cardinality(T) = Cardinality(S)
         /\ \A c \in T : c.exit = exit
<1> DEFINE f == [c \in S |-> Deferred(c, exit)]
<1>1. "selected" \in Stages /\ S \subseteq Candidates
  BY DEF Stages, Batch
<1>2. \A c \in S : f[c] \in Candidates /\ f[c].symbol = c.symbol /\ f[c].exit = exit
  BY <1>1, Marks
<1>3. {Deferred(c, exit) : c \in S} = {f[c] : c \in S}
  OBVIOUS
<1> HIDE DEF f
<1>4. LET T == {f[c] : c \in S} IN
      Batch(T) /\ SymbolsOf(T) = SymbolsOf(S) /\ Cardinality(T) = Cardinality(S)
  BY <1>2, BatchImage
<1>5. QED
  BY <1>2, <1>3, <1>4

\* A batch in two parts of other symbols.
LEMMA BatchSplit ==
  ASSUME NEW S, Batch(S), NEW T \in SUBSET S
  PROVE  /\ Batch(T) /\ Batch(S \ T)
         /\ SymbolsOf(T) \cap SymbolsOf(S \ T) = {}
         /\ SymbolsOf(T) \cup SymbolsOf(S \ T) = SymbolsOf(S)
<1>1. Batch(T) /\ Batch(S \ T)
  BY BatchPart
<1>2. \A c \in T, d \in S \ T : c.symbol # d.symbol
  BY DEF Batch
<1>3. QED
  BY <1>1, <1>2 DEF SymbolsOf

Fresh(S) == \A c \in S : c.exit = Kept

\* S in two parts, by symbol.
SplitInto(S, T, U) ==
  /\ Batch(T) /\ Batch(U)
  /\ SymbolsOf(T) \cap SymbolsOf(U) = {} /\ SymbolsOf(T) \cup SymbolsOf(U) = SymbolsOf(S)

\* The plan of a batch: everyone is in it once, and who is deferred is so by a
\* spent budget.
Planned(S, budget, plan) ==
  /\ SplitInto(S, plan.selected, plan.deferred) /\ Fresh(plan.selected)
  /\ \A c \in plan.deferred :
       c.exit = "fundamentals_budget" /\ Cardinality(plan.selected) = budget

\* So select_for_fundamentals plans a batch.
LEMMA PlanOf ==
  ASSUME NEW S, Batch(S), Fresh(S), NEW budget \in Nat
  PROVE  Planned(S, budget, SelectForFundamentals(S, budget))
<1>1. PICK P \in SUBSET S :
        /\ SelectForFundamentals(S, budget)
             = [selected |-> {Advanced(c, "fundamentals_selected") : c \in P},
                deferred |-> {Deferred(c, "fundamentals_budget") : c \in S \ P}]
        /\ P # S => Cardinality(P) = budget
  BY FundamentalsPicked
<1> DEFINE chosen == {Advanced(c, "fundamentals_selected") : c \in P}
           waiting == {Deferred(c, "fundamentals_budget") : c \in S \ P}
<1>2. /\ Batch(P) /\ Batch(S \ P) /\ SymbolsOf(P) \cap SymbolsOf(S \ P) = {}
      /\ SymbolsOf(P) \cup SymbolsOf(S \ P) = SymbolsOf(S)
  BY BatchSplit
<1>3. "fundamentals_selected" \in Stages /\ "fundamentals_budget" \in Exits
  BY DEF Stages, Exits
<1>4. /\ Batch(chosen) /\ SymbolsOf(chosen) = SymbolsOf(P) /\ Cardinality(chosen) = Cardinality(P)
      /\ (\A c \in P : c.exit = Kept) => \A c \in chosen : c.exit = Kept
  BY <1>2, <1>3, BatchAdvanced
<1>5. /\ Batch(waiting) /\ SymbolsOf(waiting) = SymbolsOf(S \ P)
      /\ \A c \in waiting : c.exit = "fundamentals_budget"
  BY <1>2, <1>3, BatchDeferred
<1>6. waiting # {} => P # S
  OBVIOUS
<1> HIDE DEF chosen, waiting
<1>7. /\ SelectForFundamentals(S, budget).selected = chosen
      /\ SelectForFundamentals(S, budget).deferred = waiting
  BY <1>1 DEF chosen, waiting
<1>8. SplitInto(S, chosen, waiting) /\ Fresh(chosen)
  BY <1>2, <1>4, <1>5 DEF SplitInto, Fresh
<1>9. \A c \in waiting : c.exit = "fundamentals_budget" /\ Cardinality(chosen) = budget
  BY <1>1, <1>4, <1>5, <1>6
<1>10. QED
  BY <1>7, <1>8, <1>9 DEF Planned

\* The selection of the eligible: everyone is in it once, with a true reason,
\* and the sectors share the budget.
SharedOut(S, budget, m, s) ==
  /\ SplitInto(S, s.selected, s.deferred) /\ Fresh(s.selected)
  /\ Cardinality(s.selected) \in 0..budget
  /\ Cardinality(InSector(s.selected, UnknownSector)) <= CapOf(budget, m)
  /\ \A c \in s.deferred :
       /\ \/ c.exit = "enrichment_budget" /\ Cardinality(s.selected) >= budget
          \/ /\ c.exit = "unknown_sector_limit" /\ c.sector = UnknownSector
             /\ ~(Cardinality(s.selected) >= budget)
       /\ c.sector # UnknownSector =>
            /\ Cardinality(s.selected) = budget
            /\ \A k \in {d.sector : d \in s.selected \cup s.deferred} :
                 Cardinality(InSector(s.selected, k)) <= Cardinality(InSector(s.selected, c.sector)) + 1

\* So select_for_enrichment selects among the eligible.
LEMMA SelectionOf ==
  ASSUME NEW S, Batch(S), Fresh(S), NEW budget \in Nat, NEW m \in Nat
  PROVE  SharedOut(S, budget, m, SelectForEnrichment(S, budget, m))
<1> DEFINE reason(n) == IF n >= budget THEN "enrichment_budget" ELSE "unknown_sector_limit"
<1>1. PICK P \in SUBSET S :
        /\ SelectForEnrichment(S, budget, m)
             = [selected |-> {Advanced(c, "selected") : c \in P},
                deferred |-> {Deferred(c, reason(Cardinality(P))) : c \in S \ P}]
        /\ Cardinality(P) \in 0..budget
        /\ Cardinality(InSector(P, UnknownSector)) <= CapOf(budget, m)
        /\ \A c \in S \ P : c.sector # UnknownSector =>
             /\ Cardinality(P) = budget
             /\ \A k \in {d.sector : d \in S} :
                  Cardinality(InSector(P, k)) <= Cardinality(InSector(P, c.sector)) + 1
  BY EnrichmentPicked
<1> DEFINE chosen == {Advanced(c, "selected") : c \in P}
           why == reason(Cardinality(P))
           waiting == {Deferred(c, why) : c \in S \ P}
<1>2. /\ Batch(P) /\ Batch(S \ P) /\ SymbolsOf(P) \cap SymbolsOf(S \ P) = {}
      /\ SymbolsOf(P) \cup SymbolsOf(S \ P) = SymbolsOf(S)
  BY BatchSplit
<1>3. "selected" \in Stages /\ why \in Exits /\ S \subseteq Candidates
  BY DEF Stages, Exits, Batch
<1>4. why = reason(Cardinality(P))
  OBVIOUS
<1>5. /\ SelectForEnrichment(S, budget, m).selected = chosen
      /\ SelectForEnrichment(S, budget, m).deferred = waiting
  BY <1>1
<1> HIDE DEF why
<1>6. /\ \A c \in P : Advanced(c, "selected").sector = c.sector
      /\ \A c \in S \ P : Deferred(c, why).sector = c.sector
  BY <1>3, Marks
<1>7. /\ Batch(chosen) /\ SymbolsOf(chosen) = SymbolsOf(P) /\ Cardinality(chosen) = Cardinality(P)
      /\ (\A c \in P : c.exit = Kept) => \A c \in chosen : c.exit = Kept
  BY <1>2, <1>3, BatchAdvanced
<1>8. /\ Batch(waiting) /\ SymbolsOf(waiting) = SymbolsOf(S \ P)
      /\ \A c \in waiting : c.exit = why
  BY <1>2, <1>3, BatchDeferred
<1>9. ASSUME NEW k
      PROVE  Cardinality(InSector(chosen, k)) = Cardinality(InSector(P, k))
  <2> DEFINE part == InSector(P, k)
  <2>1. part \in SUBSET P
    BY DEF InSector
  <2>2. InSector(chosen, k) = {Advanced(c, "selected") : c \in part}
    BY <1>6 DEF InSector
  <2> HIDE DEF part
  <2>3. Batch(part)
    BY <1>2, <2>1, BatchPart
  <2>4. Cardinality({Advanced(c, "selected") : c \in part}) = Cardinality(part)
    BY <1>3, <2>3, BatchAdvanced
  <2>5. QED
    BY <2>2, <2>4 DEF part
<1>10. {d.sector : d \in chosen \cup waiting} \subseteq {d.sector : d \in S}
  BY <1>6
<1>11. \A c \in waiting : \E d \in S \ P : c.sector = d.sector
  BY <1>6
<1> HIDE DEF chosen, waiting
<1>12. SplitInto(S, chosen, waiting) /\ Fresh(chosen)
  BY <1>2, <1>7, <1>8 DEF SplitInto, Fresh
<1>13. ASSUME NEW c \in waiting, c.sector # UnknownSector
       PROVE  /\ Cardinality(chosen) = budget
              /\ \A k \in {d.sector : d \in chosen \cup waiting} :
                   Cardinality(InSector(chosen, k)) <= Cardinality(InSector(chosen, c.sector)) + 1
  <2>1. PICK d \in S \ P : c.sector = d.sector
    BY <1>11
  <2>2. Cardinality(P) = budget
        /\ \A k \in {e.sector : e \in S} :
             Cardinality(InSector(P, k)) <= Cardinality(InSector(P, d.sector)) + 1
    BY <1>1, <1>13, <2>1
  <2>3. QED
    BY <1>7, <1>9, <1>10, <2>1, <2>2
<1>14. ASSUME NEW c \in waiting
       PROVE  \/ c.exit = "enrichment_budget" /\ Cardinality(chosen) >= budget
              \/ /\ c.exit = "unknown_sector_limit" /\ c.sector = UnknownSector
                 /\ ~(Cardinality(chosen) >= budget)
  <2>1. c.exit = reason(Cardinality(chosen))
    BY <1>4, <1>7, <1>8
  <2>2. Cardinality(chosen) = budget => Cardinality(chosen) >= budget
    OBVIOUS
  <2>3. QED
    BY <1>13, <2>1, <2>2
<1>15. Cardinality(chosen) \in 0..budget
       /\ Cardinality(InSector(chosen, UnknownSector)) <= CapOf(budget, m)
  BY <1>1, <1>7, <1>9
<1>16. QED
  BY <1>5, <1>12, <1>13, <1>14, <1>15 DEF SharedOut

-----------------------------------------------------------------------------
(***************************************************************************)
(* One run.                                                                *)
(***************************************************************************)

Symbol(rows) == {r.symbol : r \in rows}

Rows(found, id) == [symbol: found, id: {id}]

\* What run_scan returns is a broken run, or rows of one form of identity over
\* the matching symbols, cut at the cap, or such rows with one unreadable.
LEMMA AnswerForms ==
  ASSUME NEW s, NEW answer \in Answers(s)
  PROVE  /\ answer.shard = s
         /\ \/ answer.form = "broken"
            \/ /\ answer.form = "ok"
               /\ \E found \in SUBSET matching[s], id \in Ids :
                    /\ Cardinality(matching[s]) <= MaxRows => found = matching[s]
                    /\ ~(Cardinality(matching[s]) <= MaxRows) => Cardinality(found) = MaxRows
                    /\ \/ answer.rows = Rows(found, id)
                       \/ NoSymbol \in Symbol(answer.rows)
<1> DEFINE returned == IF Cardinality(matching[s]) <= MaxRows THEN {matching[s]}
                       ELSE kSubset(MaxRows, matching[s])
           Spoil(found, s1) ==
             {IF r.symbol = s1 THEN [r EXCEPT !.symbol = NoSymbol] ELSE r : r \in Rows(found, "own")}
<1>1. \/ answer \in [form: {"broken"}, shard: {s}, rows: {{}}]
      \/ answer \in [form: {"ok"}, shard: {s},
                     rows: {Rows(found, id) : found \in returned, id \in Ids}
                             \cup {Spoil(found, s1) : s1 \in Symbols, found \in returned}]
  BY DEF Answers, Rows
<1>2. CASE answer \in [form: {"broken"}, shard: {s}, rows: {{}}]
  BY <1>2
<1>3. \A found \in returned :
        /\ found \in SUBSET matching[s]
        /\ Cardinality(matching[s]) <= MaxRows => found = matching[s]
        /\ ~(Cardinality(matching[s]) <= MaxRows) => Cardinality(found) = MaxRows
  BY DEF kSubset
<1>4. ASSUME NEW found \in returned, NEW s1
      PROVE  \/ Spoil(found, s1) = Rows(found, "own")
             \/ NoSymbol \in Symbol(Spoil(found, s1))
  <2>1. CASE s1 \in found
    <3> DEFINE r == [symbol |-> s1, id |-> "own"]
    <3>1. r \in Rows(found, "own") /\ r.symbol = s1
      BY <2>1 DEF Rows
    <3>2. [r EXCEPT !.symbol = NoSymbol] \in Spoil(found, s1)
      BY <3>1
    <3>3. [r EXCEPT !.symbol = NoSymbol].symbol = NoSymbol
      OBVIOUS
    <3>4. QED
      BY <3>2, <3>3 DEF Symbol
  <2>2. CASE s1 \notin found
    <3>1. \A r \in Rows(found, "own") : r.symbol # s1
      BY <2>2 DEF Rows
    <3>2. QED
      BY <3>1
  <2>3. QED
    BY <2>1, <2>2
<1> HIDE DEF Spoil, returned
<1>5. CASE answer \in [form: {"ok"}, shard: {s},
                       rows: {Rows(found, id) : found \in returned, id \in Ids}
                               \cup {Spoil(found, s1) : s1 \in Symbols, found \in returned}]
  <2>1. answer.form = "ok" /\ answer.shard = s
    BY <1>5
  <2>2. CASE answer.rows \in {Rows(found, id) : found \in returned, id \in Ids}
    <3>1. PICK found \in returned, id \in Ids : answer.rows = Rows(found, id)
      BY <2>2
    <3>2. QED
      BY <1>3, <2>1, <3>1
  <2>3. CASE answer.rows \in {Spoil(found, s1) : s1 \in Symbols, found \in returned}
    <3>1. PICK s1 \in Symbols, found \in returned : answer.rows = Spoil(found, s1)
      BY <2>3
    <3>2. answer.rows = Rows(found, "own") \/ NoSymbol \in Symbol(answer.rows)
      BY <1>4, <3>1
    <3>3. "own" \in Ids
      BY DEF Ids
    <3>4. QED
      BY <1>3, <2>1, <3>2, <3>3
  <2>4. QED
    BY <1>5, <2>2, <2>3
<1>6. QED
  BY <1>1, <1>2, <1>5

\* Rows of one identity are as many as their symbols.
LEMMA RowsCount ==
  ASSUME NEW found, IsFiniteSet(found), NEW id
  PROVE  Cardinality(Rows(found, id)) = Cardinality(found)
<1> USE DEF Rows
<1> DEFINE rows == Rows(found, id)
           f == [x \in found |-> [symbol |-> x, id |-> id]]
<1>1. f \in [found -> rows]
  OBVIOUS
<1>2. \A x, y \in found : f[x] = f[y] => x = y
  <2> SUFFICES ASSUME NEW x \in found, NEW y \in found, f[x] = f[y]
               PROVE  x = y
    OBVIOUS
  <2>1. f[x].symbol = x /\ f[y].symbol = y
    OBVIOUS
  <2>2. QED
    BY <2>1
<1>3. \A r \in rows : \E x \in found : f[x] = r
  <2> SUFFICES ASSUME NEW r \in rows
               PROVE  f[r.symbol] = r /\ r.symbol \in found
    OBVIOUS
  <2>1. QED
    OBVIOUS
<1>4. f \in Bijection(found, rows)
  BY <1>1, <1>2, <1>3 DEF Bijection, Injection, Surjection, IsInjective
<1>5. QED
  BY <1>4, FS_Bijection DEF ExistsBijection

\* A run that counts as complete has a row for every symbol that its scan
\* matches and for no other: below the cap nothing was cut.
LEMMA CompleteRun ==
  ASSUME NEW s, matching[s] \subseteq Symbols, NEW answer \in Answers(s),
         answer.form = "ok", ShardCoverage(answer) = "complete"
  PROVE  Symbol(answer.rows) = matching[s]
<1>1. NoSymbol \notin Symbol(answer.rows) /\ Cardinality(answer.rows) < MaxRows
  BY DEF ShardCoverage, CoverageFor, Symbol
<1>2. PICK found \in SUBSET matching[s], id \in Ids :
        /\ Cardinality(matching[s]) <= MaxRows => found = matching[s]
        /\ ~(Cardinality(matching[s]) <= MaxRows) => Cardinality(found) = MaxRows
        /\ answer.rows = Rows(found, id)
  BY <1>1, AnswerForms
<1>3. IsFiniteSet(found)
  BY DiscoveryAssumption, FS_Subset
<1>4. Cardinality(answer.rows) = Cardinality(found)
  BY <1>2, <1>3, RowsCount
<1>5. found = matching[s]
  BY <1>1, <1>2, <1>4, DiscoveryAssumption
<1>6. Symbol(answer.rows) = found
  <2>1. \A x \in found : \E r \in answer.rows : r.symbol = x
    <3> SUFFICES ASSUME NEW x \in found
                 PROVE  \E r \in answer.rows : r.symbol = x
      OBVIOUS
    <3> DEFINE r == [symbol |-> x, id |-> id]
    <3>1. r \in answer.rows /\ r.symbol = x
      BY <1>2 DEF Rows
    <3>2. QED
      BY <3>1
  <2>2. \A x \in found : x \in Symbol(answer.rows)
    BY <2>1 DEF Symbol
  <2>3. \A r \in answer.rows : r.symbol \in found
    BY <1>2 DEF Rows
  <2>4. QED
    BY <2>2, <2>3 DEF Symbol
<1>7. QED
  BY <1>5, <1>6

-----------------------------------------------------------------------------
(***************************************************************************)
(* The runs together.                                                      *)
(***************************************************************************)

\* What is discovered is what some readable run has a row of.
LEMMA DiscoveredSymbols ==
  ASSUME NEW answers
  PROVE  {c.symbol : c \in Discovered(answers)}
           = {x \in Symbols : \E i \in Readable(answers) : x \in Symbol(answers[i].rows)}
<1> DEFINE found == {x \in Symbols : Copies(answers, x) # {}}
           C(x) == [symbol |-> x, shard |-> answers[Preferred(answers, x)].shard,
                    sector |-> UnknownSector, stage |-> "discovered", exit |-> Kept]
<1>1. Discovered(answers) = {C(x) : x \in found}
  BY DEF Discovered
<1>2. \A x : C(x).symbol = x
  OBVIOUS
<1> HIDE DEF C
<1>3. {c.symbol : c \in Discovered(answers)} = found
  BY <1>1, <1>2
<1>4. \A x, i : IdsIn(answers[i], x) # {} <=> x \in Symbol(answers[i].rows)
  BY DEF IdsIn, Symbol
<1>5. \A x : Copies(answers, x) # {}
               <=> \E i \in Readable(answers) : x \in Symbol(answers[i].rows)
  BY <1>4 DEF Copies
<1>6. QED
  BY <1>3, <1>5

\* Coverage is complete only when every run can be read, every scan has one
\* and each of them is complete.
LEMMA CompleteCoverage ==
  ASSUME NEW answers, Coverage(answers) = "complete"
  PROVE  /\ Readable(answers) = DOMAIN answers
         /\ {answers[i].shard : i \in DOMAIN answers} = Shards
         /\ \A i \in DOMAIN answers :
              answers[i].form = "ok" /\ ShardCoverage(answers[i]) = "complete"
<1> DEFINE judged == {ShardCoverage(answers[i]) : i \in Readable(answers)}
<1>1. /\ Readable(answers) = DOMAIN answers
      /\ {answers[i].shard : i \in Readable(answers)} = Shards
      /\ "incomplete" \notin judged /\ "unknown_truncated" \notin judged
  BY DEF Coverage
<1>2. \A answer : ShardCoverage(answer) \in {"incomplete", "complete", "unknown_truncated"}
  BY DEF ShardCoverage, CoverageFor
<1>3. \A i \in DOMAIN answers : ShardCoverage(answers[i]) \in judged
  BY <1>1
<1> HIDE DEF judged
<1>4. \A i \in DOMAIN answers : answers[i].form = "ok"
  BY <1>1 DEF Readable
<1>5. QED
  BY <1>1, <1>2, <1>3, <1>4

\* Runs of what the scans match, complete together, discover what they match.
LEMMA CompleteDiscovers ==
  ASSUME matching \in [Shards -> SUBSET Symbols], NEW answers,
         \A i \in DOMAIN answers : answers[i] \in Answers(answers[i].shard),
         Coverage(answers) = "complete"
  PROVE  {c.symbol : c \in Discovered(answers)} = UNION {matching[s] : s \in Shards}
<1>1. /\ Readable(answers) = DOMAIN answers
      /\ {answers[i].shard : i \in DOMAIN answers} = Shards
  BY CompleteCoverage
<1>2. \A i \in DOMAIN answers : answers[i].shard \in Shards
  BY <1>1
<1>3. \A i \in DOMAIN answers : Symbol(answers[i].rows) = matching[answers[i].shard]
  BY <1>2, CompleteCoverage, CompleteRun
<1>4. \A s \in Shards : \E i \in DOMAIN answers : answers[i].shard = s
  BY <1>1
<1>5. \A s \in Shards : matching[s] \subseteq Symbols
  OBVIOUS
<1>6. ASSUME NEW x
      PROVE  (x \in Symbols /\ \E i \in DOMAIN answers : x \in Symbol(answers[i].rows))
               <=> \E s \in Shards : x \in matching[s]
  BY <1>2, <1>3, <1>4, <1>5
<1>7. {x \in Symbols : \E i \in DOMAIN answers : x \in Symbol(answers[i].rows)}
        = UNION {matching[s] : s \in Shards}
  BY <1>6
<1>8. QED
  BY <1>1, <1>7, DiscoveredSymbols

-----------------------------------------------------------------------------
(***************************************************************************)
(* The command.                                                            *)
(***************************************************************************)

Passed == {"planned", "selected"}

\* A run that passes saw every scan with the filters declared, and, where it
\* must, complete coverage; it holds what the runs discover.
LEMMA PassedChecks ==
  ASSUME NEW answer, NEW answers, NEW secondPhase, NEW covered, NEW a,
         RunDiscovery(answer, answers, secondPhase, covered, a).outcome \in Passed
  PROVE  /\ \A s \in Shards : answer[s] \notin {"refiltered", "gone"}
         /\ RequireComplete => Coverage(answers) = "complete"
         /\ RunDiscovery(answer, answers, secondPhase, covered, a).batch = Discovered(answers)
<1> DEFINE r == RunDiscovery(answer, answers, secondPhase, covered, a)
           status == DriftStatus(answer)
           anyCapped == \E i \in Readable(answers) : Cardinality(answers[i].rows) >= MaxRows
           plan == SelectForFundamentals(Discovered(answers), FundamentalsBudget)
           fetched == Fetched(plan, covered)
           found == [NoResult EXCEPT !.coverage = Coverage(answers), !.batch = Discovered(answers)]
           planned == [found EXCEPT !.outcome = "planned", !.plan = plan]
           selected == [found EXCEPT !.outcome = "selected", !.plan = plan,
                          !.unfetched = fetched.unfetched, !.args = a,
                          !.selection = SelectForEnrichment(fetched.eligible, a.budget, a.cap)]
           drift == [NoResult EXCEPT !.outcome = "drift"]
           failed == [NoResult EXCEPT !.outcome = "failed"]
           capped == [found EXCEPT !.outcome = "drift"]
           incomplete == [found EXCEPT !.outcome = "incomplete"]
<1>1. r = IF Blocks(status, FALSE) THEN drift
          ELSE IF Conflict(answers) THEN failed
          ELSE IF Blocks(status, anyCapped) THEN capped
          ELSE IF RequireComplete /\ Coverage(answers) # "complete" THEN incomplete
          ELSE IF ~secondPhase THEN planned ELSE selected
  BY DEF RunDiscovery
<1>2. /\ drift.outcome = "drift" /\ failed.outcome = "failed"
      /\ capped.outcome = "drift" /\ incomplete.outcome = "incomplete"
      /\ planned.batch = Discovered(answers) /\ selected.batch = Discovered(answers)
  BY DEF NoResult
<1> HIDE DEF drift, failed, capped, incomplete, planned, selected, status, anyCapped
<1>3. r.outcome \in {"planned", "selected"}
  BY DEF Passed
<1> HIDE DEF r
<1>4. ~Blocks(status, FALSE) /\ (RequireComplete => Coverage(answers) = "complete")
      /\ r \in {planned, selected}
  BY <1>1, <1>2, <1>3
<1>5. status # "drifted"
  BY <1>4 DEF Blocks
<1>6. {answer[s] : s \in Shards} \cap {"refiltered", "gone"} = {}
  BY <1>5 DEF status, DriftStatus
<1>7. \A s \in Shards : answer[s] \notin {"refiltered", "gone"}
  BY <1>6
<1>8. QED
  BY <1>2, <1>4, <1>7 DEF r

-----------------------------------------------------------------------------
(***************************************************************************)
(* A run, by its outcome.                                                  *)
(***************************************************************************)
RunsTyped(answers) ==
  DOMAIN answers \subseteq Nat /\ \A i \in DOMAIN answers : answers[i].shard \in Shards

\* What the runs discover is one candidate for each symbol.
LEMMA DiscoveredBatch ==
  ASSUME NEW answers, RunsTyped(answers)
  PROVE  Batch(Discovered(answers)) /\ Fresh(Discovered(answers))
<1> DEFINE found == {x \in Symbols : Copies(answers, x) # {}}
           C(x) == [symbol |-> x, shard |-> answers[Preferred(answers, x)].shard,
                    sector |-> UnknownSector, stage |-> "discovered", exit |-> Kept]
           f == [x \in found |-> C(x)]
<1>1. Discovered(answers) = {C(x) : x \in found}
  BY DEF Discovered
<1>2. ASSUME NEW x \in found
      PROVE  answers[Preferred(answers, x)].shard \in Shards
  <2> DEFINE I == IF Identified(answers, x) = {} THEN Copies(answers, x) ELSE Identified(answers, x)
  <2>1. I \subseteq DOMAIN answers /\ I # {}
    BY DEF Identified, Copies, Readable
  <2>2. I \in SUBSET Nat
    BY <2>1 DEF RunsTyped
  <2>3. Preferred(answers, x) = Min(I)
    BY DEF Preferred
  <2> HIDE DEF I
  <2>4. \E i \in I : \A j \in I : i <= j
    BY <2>1, <2>2, LeastSize
  <2>5. Min(I) \in I
    BY <2>4 DEF Min
  <2>6. QED
    BY <2>1, <2>3, <2>5 DEF RunsTyped
<1>3. \A x \in found : C(x) \in Candidates
  BY <1>2 DEF Candidates, Sectors
<1>4. \A x : C(x).symbol = x /\ C(x).exit = Kept
  OBVIOUS
<1> HIDE DEF C
<1>5. IsFiniteSet({f[x] : x \in found})
  <2>1. IsFiniteSet(found)
    BY DiscoveryAssumption, FS_Subset
  <2>2. \A x, y \in found : f[x] = f[y] => x = y
    <3>1. \A x \in found : f[x] = C(x)
      OBVIOUS
    <3>2. QED
      BY <1>4, <3>1
  <2> HIDE DEF found, f
  <2>3. QED
    BY <2>1, <2>2, ImageCount
<1>6. Discovered(answers) = {f[x] : x \in found}
  BY <1>1
<1>7. IsFiniteSet(Discovered(answers))
  BY <1>5, <1>6
<1> HIDE DEF f, found
<1>8. Batch(Discovered(answers))
  BY <1>1, <1>3, <1>4, <1>7 DEF Batch
<1>9. Fresh(Discovered(answers))
  BY <1>1, <1>4 DEF Fresh
<1>10. QED
  BY <1>8, <1>9

\* The fundamentals answers split a plan: who is covered is eligible under its
\* sector, who is not is deferred.
LEMMA FetchedSplit ==
  ASSUME NEW plan, Batch(plan.selected), Fresh(plan.selected), NEW covered \in SUBSET Symbols
  PROVE  LET fetched == Fetched(plan, covered) IN
         /\ Batch(fetched.eligible) /\ Fresh(fetched.eligible) /\ Batch(fetched.unfetched)
         /\ SymbolsOf(fetched.eligible) = SymbolsOf(plan.selected) \cap covered
         /\ SymbolsOf(fetched.unfetched) = SymbolsOf(plan.selected) \ covered
         /\ \A c \in fetched.unfetched : c.exit = "fundamentals_missing"
<1> DEFINE S == {x \in plan.selected : x.symbol \in covered}
           T == {x \in plan.selected : x.symbol \notin covered}
           E(c) == [c EXCEPT !.stage = "eligible", !.sector = SectorOf[c.symbol]]
           f == [c \in S |-> E(c)]
           U == {Deferred(c, "fundamentals_missing") : c \in T}
<1>1. Batch(S) /\ Batch(T)
  BY BatchPart
<1>2. /\ Fetched(plan, covered).eligible = {E(c) : c \in S}
      /\ Fetched(plan, covered).unfetched = U
  BY DEF Fetched
<1>3. ASSUME NEW c \in S
      PROVE  E(c) \in Candidates /\ E(c).symbol = c.symbol /\ E(c).exit = Kept
  <2>1. c \in Candidates /\ c.exit = Kept
    BY DEF Batch, Fresh
  <2>2. SectorOf[c.symbol] \in Sectors
    BY <2>1 DEF Sectors, Candidates
  <2>3. QED
    BY <2>1, <2>2 DEF Candidates
<1>4. /\ SymbolsOf(S) = SymbolsOf(plan.selected) \cap covered
      /\ SymbolsOf(T) = SymbolsOf(plan.selected) \ covered
  BY DEF SymbolsOf
<1>5. {E(c) : c \in S} = {f[c] : c \in S} /\ \A c \in S : f[c] = E(c)
  OBVIOUS
<1> HIDE DEF f, E, S
<1>6. Batch({f[c] : c \in S}) /\ SymbolsOf({f[c] : c \in S}) = SymbolsOf(S)
  BY <1>1, <1>3, <1>5, BatchImage
<1>7. Fresh({E(c) : c \in S})
  BY <1>3 DEF Fresh
<1>8. "fundamentals_missing" \in Exits
  BY DEF Exits
<1> HIDE DEF T
<1>9. Batch(U) /\ SymbolsOf(U) = SymbolsOf(T) /\ \A c \in U : c.exit = "fundamentals_missing"
  BY <1>1, <1>8, BatchDeferred
<1> HIDE DEF U
<1>10. QED
  BY <1>2, <1>4, <1>5, <1>6, <1>7, <1>9

\* The forms a result has: stopped before anything is kept, stopped after the
\* batch, planned, selected.
Stopped(r, outcomes, batch) ==
  /\ r.outcome \in outcomes /\ r.batch = batch
  /\ r.plan = Nothing /\ r.selection = Nothing /\ r.unfetched = {}

\* Every result has one of these forms.
LEMMA RunForms ==
  ASSUME NEW answer, NEW answers, NEW secondPhase \in BOOLEAN, NEW covered, NEW a
  PROVE  LET r == RunDiscovery(answer, answers, secondPhase, covered, a)
             batch == Discovered(answers)
             plan == SelectForFundamentals(batch, FundamentalsBudget)
             fetched == Fetched(plan, covered)
         IN \/ Stopped(r, {"drift", "failed"}, {})
            \/ Stopped(r, {"drift", "incomplete"}, batch)
            \/ /\ ~secondPhase /\ r.outcome = "planned" /\ r.batch = batch /\ r.plan = plan
               /\ r.selection = Nothing /\ r.unfetched = {}
            \/ /\ secondPhase /\ r.outcome = "selected" /\ r.batch = batch /\ r.plan = plan
               /\ r.unfetched = fetched.unfetched /\ r.args = a
               /\ r.selection = SelectForEnrichment(fetched.eligible, a.budget, a.cap)
<1> DEFINE r == RunDiscovery(answer, answers, secondPhase, covered, a)
           status == DriftStatus(answer)
           anyCapped == \E i \in Readable(answers) : Cardinality(answers[i].rows) >= MaxRows
           batch == Discovered(answers)
           plan == SelectForFundamentals(batch, FundamentalsBudget)
           fetched == Fetched(plan, covered)
           selection == SelectForEnrichment(fetched.eligible, a.budget, a.cap)
           found == [NoResult EXCEPT !.coverage = Coverage(answers), !.batch = batch]
           planned == [found EXCEPT !.outcome = "planned", !.plan = plan]
           selected == [found EXCEPT !.outcome = "selected", !.plan = plan,
                          !.unfetched = fetched.unfetched, !.args = a, !.selection = selection]
           drift == [NoResult EXCEPT !.outcome = "drift"]
           failed == [NoResult EXCEPT !.outcome = "failed"]
           capped == [found EXCEPT !.outcome = "drift"]
           incomplete == [found EXCEPT !.outcome = "incomplete"]
<1>1. r = IF Blocks(status, FALSE) THEN drift
          ELSE IF Conflict(answers) THEN failed
          ELSE IF Blocks(status, anyCapped) THEN capped
          ELSE IF RequireComplete /\ Coverage(answers) # "complete" THEN incomplete
          ELSE IF ~secondPhase THEN planned ELSE selected
  BY DEF RunDiscovery
<1>2. DOMAIN NoResult = {"outcome", "coverage", "batch", "plan", "selection", "unfetched", "args"}
      /\ NoResult.batch = {} /\ NoResult.plan = Nothing /\ NoResult.selection = Nothing
      /\ NoResult.unfetched = {}
  BY DEF NoResult
<1> HIDE DEF batch, plan, fetched, selection
<1>3. Stopped(drift, {"drift", "failed"}, {}) /\ Stopped(failed, {"drift", "failed"}, {})
  BY <1>2 DEF Stopped
<1>4. Stopped(capped, {"drift", "incomplete"}, batch) /\ Stopped(incomplete, {"drift", "incomplete"}, batch)
  BY <1>2 DEF Stopped
<1>5. /\ planned.outcome = "planned" /\ planned.batch = batch /\ planned.plan = plan
      /\ planned.selection = Nothing /\ planned.unfetched = {}
  BY <1>2
<1>6. /\ selected.outcome = "selected" /\ selected.batch = batch /\ selected.plan = plan
      /\ selected.unfetched = fetched.unfetched /\ selected.args = a /\ selected.selection = selection
  BY <1>2
<1> HIDE DEF drift, failed, capped, incomplete, planned, selected, status, anyCapped, r
<1>7. \/ r = drift \/ r = failed \/ r = capped \/ r = incomplete
      \/ ~secondPhase /\ r = planned
      \/ secondPhase /\ r = selected
  BY <1>1
<1>8. QED
  BY <1>3, <1>4, <1>5, <1>6, <1>7 DEF r, batch, plan, fetched, selection

\* The properties, of any result and the fundamentals it was given.
Accounted(r, covered) ==
  r.outcome \in {"planned", "selected"} =>
    LET all == AllCandidates(r)
        Spent == Cardinality(r.selection.selected) >= r.args.budget
    IN /\ {c.symbol : c \in all} = {c.symbol : c \in r.batch}
       /\ Cardinality(all) = Cardinality(r.batch)
       /\ \A c \in all :
            /\ c.exit = "fundamentals_budget" => Cardinality(r.plan.selected) = FundamentalsBudget
            /\ r.outcome = "selected" =>
                 /\ c.exit = "fundamentals_missing" <=>
                      c.symbol \notin covered /\ c.exit # "fundamentals_budget"
                 /\ c.exit = "enrichment_budget" => Spent
                 /\ c.exit = "unknown_sector_limit" => c.sector = UnknownSector /\ ~Spent

Fair(r) ==
  r.outcome = "selected" =>
    LET chosen == r.selection.selected
        waiting == r.selection.deferred
        Of(S, k) == Cardinality({c \in S : c.sector = k})
        sectors == {c.sector : c \in chosen \cup waiting}
    IN /\ Cardinality(chosen) <= r.args.budget
       /\ Of(chosen, UnknownSector) <= CapOf(r.args.budget, r.args.cap)
       /\ \A k \in sectors \ {UnknownSector} : Of(waiting, k) > 0 =>
            /\ Cardinality(chosen) = r.args.budget
            /\ \A j \in sectors : Of(chosen, j) <= Of(chosen, k) + 1

TypedResult(r) ==
  /\ r.outcome \in Outcomes
  /\ AllCandidates(r) \subseteq Candidates
  /\ Cardinality({c.symbol : c \in r.batch}) = Cardinality(r.batch)

\* A shared-out selection is fair.
LEMMA SharedOutIsFair ==
  ASSUME NEW S, NEW r, r.args.budget \in Nat,
         r.outcome = "selected" => SharedOut(S, r.args.budget, r.args.cap, r.selection)
  PROVE  Fair(r)
<1> DEFINE chosen == r.selection.selected
           waiting == r.selection.deferred
           budget == r.args.budget
           sectors == {c.sector : c \in chosen \cup waiting}
<1> SUFFICES ASSUME SharedOut(S, budget, r.args.cap, r.selection)
             PROVE  /\ Cardinality(chosen) <= budget
                    /\ Cardinality(InSector(chosen, UnknownSector)) <= CapOf(budget, r.args.cap)
                    /\ \A k \in sectors \ {UnknownSector} : Cardinality(InSector(waiting, k)) > 0 =>
                         /\ Cardinality(chosen) = budget
                         /\ \A j \in sectors :
                              Cardinality(InSector(chosen, j)) <= Cardinality(InSector(chosen, k)) + 1
  BY DEF Fair, InSector
<1>1. /\ Cardinality(chosen) \in 0..budget
      /\ Cardinality(InSector(chosen, UnknownSector)) <= CapOf(budget, r.args.cap)
      /\ \A c \in waiting : c.sector # UnknownSector =>
           /\ Cardinality(chosen) = budget
           /\ \A k \in sectors :
                Cardinality(InSector(chosen, k)) <= Cardinality(InSector(chosen, c.sector)) + 1
  BY DEF SharedOut
<1> HIDE DEF chosen, waiting, budget, sectors
<1>2. ASSUME NEW k \in sectors \ {UnknownSector}, Cardinality(InSector(waiting, k)) > 0
      PROVE  \E c \in waiting : c.sector = k /\ c.sector # UnknownSector
  <2>1. InSector(waiting, k) # {}
    BY <1>2, FS_EmptySet
  <2>2. QED
    BY <2>1 DEF InSector
<1>3. Cardinality(chosen) <= budget
  BY <1>1 DEF budget
<1>4. QED
  BY <1>1, <1>2, <1>3

\* A plan keeps everyone.
LEMMA PlannedAccounted ==
  ASSUME NEW r, NEW covered, r.outcome = "planned",
         Batch(r.batch), Planned(r.batch, FundamentalsBudget, r.plan)
  PROVE  Accounted(r, covered) /\ AllCandidates(r) \subseteq Candidates
<1> DEFINE chosen == r.plan.selected
           waiting == r.plan.deferred
<1>1. AllCandidates(r) = chosen \cup waiting
  BY DEF AllCandidates
<1>2. /\ Batch(chosen) /\ Batch(waiting)
      /\ SymbolsOf(chosen) \cap SymbolsOf(waiting) = {}
      /\ SymbolsOf(chosen) \cup SymbolsOf(waiting) = SymbolsOf(r.batch)
      /\ \A c \in chosen : c.exit = Kept
      /\ \A c \in waiting : Cardinality(chosen) = FundamentalsBudget
  BY DEF Planned, SplitInto, Fresh
<1>3. Batch(chosen \cup waiting) /\ SymbolsOf(chosen \cup waiting) = SymbolsOf(r.batch)
  BY <1>2, BatchUnion
<1>4. Cardinality(chosen \cup waiting) = Cardinality(r.batch)
  BY <1>3, BatchCount
<1>5. \A c \in chosen \cup waiting :
        c.exit = "fundamentals_budget" => Cardinality(chosen) = FundamentalsBudget
  BY <1>2 DEF Kept
<1>6. {c.symbol : c \in AllCandidates(r)} = {c.symbol : c \in r.batch}
  BY <1>1, <1>3 DEF SymbolsOf
<1>7. Accounted(r, covered)
  BY <1>1, <1>4, <1>5, <1>6 DEF Accounted
<1>8. QED
  BY <1>1, <1>3, <1>7 DEF Batch

\* A selection keeps everyone, with a true reason.
LEMMA SelectedAccounted ==
  ASSUME NEW r, NEW covered \in SUBSET Symbols, r.outcome = "selected", r.args.budget \in Nat,
         Batch(r.batch), Planned(r.batch, FundamentalsBudget, r.plan),
         r.unfetched = Fetched(r.plan, covered).unfetched,
         SharedOut(Fetched(r.plan, covered).eligible, r.args.budget, r.args.cap, r.selection)
  PROVE  Accounted(r, covered) /\ AllCandidates(r) \subseteq Candidates
<1> DEFINE planned == r.plan.selected
           unplanned == r.plan.deferred
           eligible == Fetched(r.plan, covered).eligible
           missing == r.unfetched
           chosen == r.selection.selected
           waiting == r.selection.deferred
           through == chosen \cup waiting
           all == (through \cup missing) \cup unplanned
           budget == r.args.budget
<1>1. AllCandidates(r) = all
  BY DEF AllCandidates
<1>2. /\ Batch(planned) /\ Batch(unplanned) /\ Fresh(planned)
      /\ SymbolsOf(planned) \cap SymbolsOf(unplanned) = {}
      /\ SymbolsOf(planned) \cup SymbolsOf(unplanned) = SymbolsOf(r.batch)
      /\ \A c \in unplanned :
           c.exit = "fundamentals_budget" /\ Cardinality(planned) = FundamentalsBudget
  BY DEF Planned, SplitInto
<1>3. /\ Batch(missing) /\ SymbolsOf(eligible) = SymbolsOf(planned) \cap covered
      /\ SymbolsOf(missing) = SymbolsOf(planned) \ covered
      /\ \A c \in missing : c.exit = "fundamentals_missing"
  BY <1>2, FetchedSplit
<1>4. /\ Batch(chosen) /\ Batch(waiting)
      /\ SymbolsOf(chosen) \cap SymbolsOf(waiting) = {}
      /\ SymbolsOf(chosen) \cup SymbolsOf(waiting) = SymbolsOf(eligible)
      /\ \A c \in chosen : c.exit = Kept
      /\ \A c \in waiting :
           \/ c.exit = "enrichment_budget" /\ Cardinality(chosen) >= budget
           \/ /\ c.exit = "unknown_sector_limit" /\ c.sector = UnknownSector
              /\ ~(Cardinality(chosen) >= budget)
  BY DEF SharedOut, SplitInto, Fresh
<1> HIDE DEF planned, unplanned, eligible, missing, chosen, waiting, budget
<1>5. Batch(chosen \cup waiting) /\ SymbolsOf(chosen \cup waiting) = SymbolsOf(planned) \cap covered
  BY <1>3, <1>4, BatchUnion
<1>6. Batch(through \cup missing) /\ SymbolsOf(through \cup missing) = SymbolsOf(planned)
  <2>1. Batch(through) /\ SymbolsOf(through) = SymbolsOf(planned) \cap covered
    BY <1>5
  <2> HIDE DEF through
  <2>2. SymbolsOf(through) \cap SymbolsOf(missing) = {}
    BY <1>3, <2>1
  <2>3. /\ Batch(through \cup missing)
        /\ SymbolsOf(through \cup missing) = SymbolsOf(through) \cup SymbolsOf(missing)
    BY <1>3, <2>1, <2>2, BatchUnion
  <2>4. QED
    BY <1>3, <2>1, <2>3
<1>7. Batch(all) /\ SymbolsOf(all) = SymbolsOf(r.batch)
  <2> DEFINE T == through \cup missing
  <2>1. Batch(T) /\ SymbolsOf(T) = SymbolsOf(planned) /\ all = T \cup unplanned
    BY <1>6
  <2> HIDE DEF T, all
  <2>2. Batch(T \cup unplanned) /\ SymbolsOf(T \cup unplanned) = SymbolsOf(T) \cup SymbolsOf(unplanned)
    BY <1>2, <2>1, BatchUnion
  <2>3. QED
    BY <1>2, <2>1, <2>2
<1>8. \A c \in chosen \cup waiting : c.symbol \in covered
  BY <1>5 DEF SymbolsOf
<1>9. \A c \in missing : c.symbol \notin covered
  BY <1>3 DEF SymbolsOf
<1>10. Cardinality(all) = Cardinality(r.batch)
  BY <1>7, BatchCount
<1>11. ASSUME NEW c \in all
       PROVE  /\ c.exit = "fundamentals_budget" => Cardinality(planned) = FundamentalsBudget
              /\ c.exit = "fundamentals_missing" <=>
                   c.symbol \notin covered /\ c.exit # "fundamentals_budget"
              /\ c.exit = "enrichment_budget" => Cardinality(chosen) >= budget
              /\ c.exit = "unknown_sector_limit" =>
                   c.sector = UnknownSector /\ ~(Cardinality(chosen) >= budget)
  <2>1. CASE c \in unplanned
    BY <1>2, <2>1
  <2>2. CASE c \in missing
    BY <1>3, <1>9, <2>2
  <2>3. CASE c \in chosen
    BY <1>4, <1>8, <2>3 DEF Kept
  <2>4. CASE c \in waiting
    BY <1>4, <1>8, <2>4
  <2>5. QED
    BY <2>1, <2>2, <2>3, <2>4
<1>12. {c.symbol : c \in all} = {c.symbol : c \in r.batch}
  BY <1>7 DEF SymbolsOf
<1> HIDE DEF all
<1>13. Accounted(r, covered)
  BY <1>1, <1>10, <1>11, <1>12 DEF Accounted, planned, chosen, budget
<1>14. QED
  BY <1>1, <1>7, <1>13 DEF Batch

\* The result of a run keeps the properties.
LEMMA RunKept ==
  ASSUME NEW answer, NEW answers, RunsTyped(answers), NEW secondPhase \in BOOLEAN,
         NEW covered \in SUBSET Symbols, NEW a \in Arguments
  PROVE  LET r == RunDiscovery(answer, answers, secondPhase, covered, a) IN
         TypedResult(r) /\ Accounted(r, covered) /\ Fair(r) /\ r.outcome # "none"
<1> DEFINE r == RunDiscovery(answer, answers, secondPhase, covered, a)
           batch == Discovered(answers)
           plan == SelectForFundamentals(batch, FundamentalsBudget)
           fetched == Fetched(plan, covered)
<1> SUFFICES TypedResult(r) /\ Accounted(r, covered) /\ Fair(r) /\ r.outcome # "none"
  OBVIOUS
<1>1. Batch(batch) /\ Fresh(batch)
  BY DiscoveredBatch
<1>2. /\ FundamentalsBudget \in Nat /\ a.budget \in Nat /\ a.cap \in Nat
  BY SelectionAssumption DEF Arguments
<1>3. Planned(batch, FundamentalsBudget, plan)
  BY <1>1, <1>2, PlanOf
<1>4. \/ Stopped(r, {"drift", "failed"}, {})
      \/ Stopped(r, {"drift", "incomplete"}, batch)
      \/ /\ ~secondPhase /\ r.outcome = "planned" /\ r.batch = batch /\ r.plan = plan
         /\ r.selection = Nothing /\ r.unfetched = {}
      \/ /\ secondPhase /\ r.outcome = "selected" /\ r.batch = batch /\ r.plan = plan
         /\ r.unfetched = fetched.unfetched /\ r.args = a
         /\ r.selection = SelectForEnrichment(fetched.eligible, a.budget, a.cap)
  BY RunForms
<1>5. Batch({})
  BY FS_EmptySet DEF Batch
<1> HIDE DEF r, batch, plan, fetched
<1>6. ASSUME Batch(r.batch)
      PROVE  Cardinality({c.symbol : c \in r.batch}) = Cardinality(r.batch)
  BY <1>6, BatchCount DEF SymbolsOf
<1>7. ASSUME NEW B, Batch(B), NEW outcomes, Stopped(r, outcomes, B),
             outcomes \in {{"drift", "failed"}, {"drift", "incomplete"}},
             "failed" \in outcomes => B = {}
      PROVE  TypedResult(r) /\ Accounted(r, covered) /\ Fair(r) /\ r.outcome # "none"
  <2>1. r.outcome \in {"drift", "failed", "incomplete"} /\ r.batch = B
    BY <1>7 DEF Stopped
  <2>2. Accounted(r, covered) /\ Fair(r)
    BY <2>1 DEF Accounted, Fair
  <2>3. AllCandidates(r) \subseteq Candidates
    <3>1. CASE r.outcome \in {"drift", "incomplete"}
      <4>1. AllCandidates(r) = {Deferred(c, r.outcome) : c \in B}
        BY <2>1, <3>1 DEF AllCandidates
      <4>2. r.outcome \in Exits
        BY <3>1 DEF Exits
      <4>3. Batch({Deferred(c, r.outcome) : c \in B})
        BY <1>7, <4>2, BatchDeferred
      <4>4. QED
        BY <4>1, <4>3 DEF Batch
    <3>2. CASE r.outcome = "failed"
      BY <1>7, <3>2 DEF AllCandidates, Stopped, Nothing
    <3>3. QED
      BY <2>1, <3>1, <3>2
  <2>4. QED
    BY <1>6, <1>7, <2>1, <2>2, <2>3 DEF TypedResult, Outcomes
<1>8. CASE Stopped(r, {"drift", "failed"}, {}) \/ Stopped(r, {"drift", "incomplete"}, batch)
  BY <1>1, <1>5, <1>7, <1>8
<1>9. CASE r.outcome = "planned" /\ r.batch = batch /\ r.plan = plan
  <2>1. Accounted(r, covered) /\ AllCandidates(r) \subseteq Candidates
    BY <1>1, <1>3, <1>9, PlannedAccounted
  <2>2. QED
    BY <1>1, <1>6, <1>9, <2>1 DEF TypedResult, Outcomes, Fair
<1>10. CASE /\ r.outcome = "selected" /\ r.batch = batch /\ r.plan = plan
            /\ r.unfetched = fetched.unfetched /\ r.args = a
            /\ r.selection = SelectForEnrichment(fetched.eligible, a.budget, a.cap)
  <2>1. Batch(plan.selected) /\ Fresh(plan.selected)
    BY <1>3 DEF Planned, SplitInto
  <2>2. Batch(fetched.eligible) /\ Fresh(fetched.eligible)
    BY <2>1, FetchedSplit DEF fetched
  <2>3. SharedOut(fetched.eligible, a.budget, a.cap, r.selection)
    BY <1>2, <1>10, <2>2, SelectionOf
  <2>4. Fair(r)
    BY <1>2, <1>10, <2>3, SharedOutIsFair
  <2>5. Accounted(r, covered) /\ AllCandidates(r) \subseteq Candidates
    BY <1>1, <1>2, <1>3, <1>10, <2>3, SelectedAccounted DEF fetched
  <2>6. QED
    BY <1>1, <1>6, <1>10, <2>4, <2>5 DEF TypedResult, Outcomes
<1>11. QED
  BY <1>4, <1>8, <1>9, <1>10


-----------------------------------------------------------------------------
(***************************************************************************)
(* The inductive invariant: how far what the agent holds can be trusted.   *)
(***************************************************************************)

\* The scans as they are: only other filters match other symbols.
ScansTyped ==
  /\ declared \in [Shards -> SUBSET Symbols]
  /\ matching \in [Shards -> SUBSET Symbols]
  /\ DOMAIN live = Shards

FiltersDecide ==
  \A s \in Shards : live[s] \notin {"refiltered", "gone"} => matching[s] = declared[s]

\* The answer of get_scans is that of the scans as they are, while none was
\* edited; the answers of run_scan stay those of the scans as they are.
ScansHeld == steady /\ step # "scans" => scans = live

RunsHeld ==
  step \notin {"scans", "runs"} =>
    \A i \in DOMAIN runs : runs[i] \in Answers(runs[i].shard)

ResultLater == step \in {"scans", "runs"} => result = NoResult

IInv ==
  ScansTyped /\ FiltersDecide /\ ScansHeld /\ RunsHeld /\ ResultLater /\ UniverseCovered

\* A session starts with the scans as they were declared.
LEMMA InvariantInitially == Init => IInv
<1> SUFFICES ASSUME Init PROVE IInv
  OBVIOUS
<1>1. ScansTyped
  BY DiscoveryAssumption DEF Init, ScansTyped
<1>2. NoResult.outcome = "none"
  BY DEF NoResult
<1>3. UniverseCovered
  BY <1>2 DEF Init, UniverseCovered
<1>4. QED
  BY <1>1, <1>3 DEF Init, IInv, FiltersDecide, ScansHeld, RunsHeld, ResultLater

\* A person edits a scan while the agent holds no runs.
LEMMA EditStep ==
  ASSUME IInv, NEW s \in Shards, NEW state \in ScanStates, EditScan(s, state)
  PROVE  IInv'
<1>1. PICK found \in Found(s, state) : matching' = [matching EXCEPT ![s] = found]
  BY DEF EditScan
<1>2. /\ step \in {"scans", "runs"} /\ step' = step /\ declared' = declared
      /\ live' = [live EXCEPT ![s] = state] /\ steady' = (step = "scans")
      /\ result' = result
  BY DEF EditScan
<1>3. /\ found \subseteq Symbols
      /\ state \notin {"refiltered", "gone"} => found = declared[s]
  <2>1. CASE state = "gone"
    BY <1>1, <2>1 DEF Found
  <2>2. CASE state = "refiltered"
    <3>1. found \in {{}} \cup {w[s] : w \in Worlds}
      BY <1>1, <2>2 DEF Found
    <3>2. QED
      BY <2>2, <3>1, DiscoveryAssumption
  <2>3. CASE state \notin {"refiltered", "gone"}
    <3>1. found = declared[s]
      BY <1>1, <2>3 DEF Found
    <3>2. QED
      BY <3>1 DEF IInv, ScansTyped
  <2>4. QED
    BY <2>1, <2>2, <2>3
<1>4. ScansTyped'
  BY <1>1, <1>2, <1>3 DEF IInv, ScansTyped
<1>5. FiltersDecide'
  BY <1>1, <1>2, <1>3 DEF IInv, ScansTyped, FiltersDecide
<1>6. ScansHeld' /\ RunsHeld' /\ ResultLater'
  BY <1>2 DEF IInv, ScansHeld, RunsHeld, ResultLater
<1>7. UniverseCovered'
  <2>1. result' = NoResult /\ NoResult.outcome = "none"
    BY <1>2 DEF IInv, ResultLater, NoResult
  <2>2. QED
    BY <2>1 DEF UniverseCovered
<1>8. QED
  BY <1>4, <1>5, <1>6, <1>7 DEF IInv

\* The agent asks for the scans, for their runs and for fundamentals.
LEMMA FetchStep ==
  ASSUME IInv, FetchScans \/ (\E order \in FetchOrders : FetchRuns(order))
                \/ (\E covered \in SUBSET Symbols : FetchFundamentals(covered))
  PROVE  IInv'
<1>1. UNCHANGED <<declared, live, matching, result, steady>>
  BY DEF FetchScans, FetchRuns, FetchFundamentals
<1>2. ScansTyped' /\ FiltersDecide' /\ UniverseCovered'
  BY <1>1 DEF IInv, ScansTyped, FiltersDecide, UniverseCovered
<1>3. \A s : Answers(s)' = Answers(s)
  BY <1>1 DEF Answers
<1>4. CASE FetchScans
  BY <1>2, <1>4 DEF FetchScans, IInv, ScansHeld, RunsHeld, ResultLater
<1>5. ASSUME NEW order \in FetchOrders, FetchRuns(order)
      PROVE  IInv'
  <2>1. \A i \in DOMAIN runs' : runs'[i] \in Answers(order[i])
    BY <1>5 DEF FetchRuns
  <2>2. \A i \in DOMAIN runs' : runs'[i] \in Answers(runs'[i].shard)
    BY <2>1, AnswerForms
  <2>3. RunsHeld'
    BY <1>3, <2>2 DEF RunsHeld
  <2>4. QED
    BY <1>2, <1>5, <2>3 DEF FetchRuns, IInv, ScansHeld, ResultLater
<1>6. ASSUME NEW covered \in SUBSET Symbols, FetchFundamentals(covered)
      PROVE  IInv'
  <2>1. runs' = runs /\ scans' = scans /\ step = "fundamentals" /\ step' = "second"
    BY <1>6 DEF FetchFundamentals
  <2>2. RunsHeld'
    BY <1>3, <2>1 DEF IInv, RunsHeld
  <2>3. QED
    BY <1>1, <1>2, <2>1, <2>2 DEF IInv, ScansHeld, ResultLater
<1>7. QED
  BY <1>4, <1>5, <1>6

\* The command: a result that passed is of the scans as they were declared.
LEMMA DiscoverStep ==
  ASSUME IInv, NEW secondPhase \in BOOLEAN, NEW a \in Arguments, Discover(secondPhase, a)
  PROVE  IInv'
<1>1. /\ UNCHANGED <<declared, live, matching, scans, runs, steady>>
      /\ step \in {"first", "second"} /\ step' \in {"fundamentals", "end"}
      /\ result' = RunDiscovery(scans, runs, secondPhase, fundamentals, a)
  BY DEF Discover
<1>2. \A s : Answers(s)' = Answers(s)
  BY <1>1 DEF Answers
<1>3. ScansTyped' /\ FiltersDecide' /\ ScansHeld' /\ ResultLater'
  BY <1>1 DEF IInv, ScansTyped, FiltersDecide, ScansHeld, ResultLater
<1>4. RunsHeld'
  BY <1>1, <1>2 DEF IInv, RunsHeld
<1>5. UniverseCovered'
  <2> SUFFICES ASSUME result'.outcome \in Passed, RequireComplete, steady
               PROVE  {c.symbol : c \in result'.batch} = UNION {declared[s] : s \in Shards}
    BY <1>1 DEF UniverseCovered, Passed
  <2>1. /\ \A s \in Shards : scans[s] \notin {"refiltered", "gone"}
        /\ Coverage(runs) = "complete"
        /\ result'.batch = Discovered(runs)
    BY <1>1, PassedChecks
  <2>2. {c.symbol : c \in Discovered(runs)} = UNION {matching[s] : s \in Shards}
    BY <1>1, <2>1, CompleteDiscovers DEF IInv, ScansTyped, RunsHeld
  <2>3. \A s \in Shards : matching[s] = declared[s]
    BY <1>1, <2>1 DEF IInv, ScansHeld, FiltersDecide
  <2>4. UNION {matching[s] : s \in Shards} = UNION {declared[s] : s \in Shards}
    BY <2>3
  <2>5. QED
    BY <2>1, <2>2, <2>4
<1>6. QED
  BY <1>3, <1>4, <1>5 DEF IInv

\* Every step of a session keeps the invariant.
LEMMA InvariantKept == IInv /\ [Next]_vars => IInv'
<1> SUFFICES ASSUME IInv, [Next]_vars PROVE IInv'
  OBVIOUS
<1>1. CASE UNCHANGED vars
  BY <1>1 DEF vars, IInv, ScansTyped, FiltersDecide, ScansHeld, RunsHeld, Answers,
              ResultLater, UniverseCovered
<1>2. QED
  BY <1>1, EditStep, FetchStep, DiscoverStep DEF Next

-----------------------------------------------------------------------------
(***************************************************************************)
(* The invariant of what is kept.                                          *)
(***************************************************************************)

\* The agent asks for fundamentals only on a plan, so the answers it holds
\* when it has a selection are those the selection was made with.
KeptInv ==
  /\ TypeOK /\ RunsTyped(runs)
  /\ step = "fundamentals" => result.outcome = "planned"
  /\ EveryCandidateAccounted /\ SelectionFair

\* The properties speak of the result alone, but for what a selection was
\* made with.
LEMMA PropertiesOf ==
  /\ EveryCandidateAccounted <=> Accounted(result, fundamentals)
  /\ SelectionFair <=> Fair(result)
  /\ result.outcome = "planned" =>
       \A x, y : Accounted(result, x) => Accounted(result, y)
<1>1. EveryCandidateAccounted <=> Accounted(result, fundamentals)
  BY DEF EveryCandidateAccounted, Accounted
<1>2. SelectionFair <=> Fair(result)
  BY DEF SelectionFair, Fair
<1>3. result.outcome = "planned" =>
        \A x, y : Accounted(result, x) => Accounted(result, y)
  BY DEF Accounted
<1>4. QED
  BY <1>1, <1>2, <1>3

\* A session starts with nothing.
LEMMA KeptInitially == Init => KeptInv
<1> SUFFICES ASSUME Init PROVE KeptInv
  OBVIOUS
<1>1. result = NoResult /\ NoResult.outcome = "none" /\ NoResult.batch = {}
      /\ NoResult.plan = Nothing /\ NoResult.selection = Nothing /\ NoResult.unfetched = {}
  BY DEF Init, NoResult
<1>2. AllCandidates(result) = {}
  BY <1>1 DEF AllCandidates, Nothing
<1>3. {c.symbol : c \in result.batch} = {} /\ result.batch = {}
  BY <1>1
<1>4. matching \in [Shards -> SUBSET Symbols] /\ edits \in 0..MaxEdits
      /\ live \in [Shards -> ScanStates]
  BY DiscoveryAssumption DEF Init, ScanStates
<1>5. TypeOK
  BY <1>1, <1>2, <1>3, <1>4 DEF Init, TypeOK, Outcomes
<1>6. RunsTyped(runs)
  BY DEF Init, RunsTyped
<1>7. EveryCandidateAccounted /\ SelectionFair
  BY <1>1 DEF EveryCandidateAccounted, SelectionFair
<1>8. QED
  BY <1>5, <1>6, <1>7 DEF KeptInv, Init

\* A result that stays keeps what holds of it.
LEMMA SameResult ==
  ASSUME KeptInv, UNCHANGED <<result, journalled>>,
         \/ UNCHANGED fundamentals
         \/ fundamentals' \subseteq Symbols /\ result.outcome = "planned",
         declared' \in Worlds, live' \in [Shards -> ScanStates],
         matching' \in [Shards -> SUBSET Symbols], steady' \in BOOLEAN, edits' \in 0..MaxEdits,
         step' \in {"scans", "runs", "first", "fundamentals", "second", "end"}
  PROVE  TypeOK' /\ EveryCandidateAccounted' /\ SelectionFair'
<1>1. TypeOK'
  BY DEF KeptInv, TypeOK, AllCandidates
<1>2. SelectionFair'
  BY DEF KeptInv, SelectionFair
<1>3. EveryCandidateAccounted'
  <2>1. Accounted(result, fundamentals)
    BY PropertiesOf DEF KeptInv
  <2>2. Accounted(result, fundamentals')
    BY <2>1, PropertiesOf
  <2>3. QED
    BY <2>2 DEF Accounted, EveryCandidateAccounted, AllCandidates
<1>4. QED
  BY <1>1, <1>2, <1>3

\* Every step of a session keeps it.
LEMMA KeptKept == KeptInv /\ [Next]_vars => KeptInv'
<1> SUFFICES ASSUME KeptInv, [Next]_vars PROVE KeptInv'
  OBVIOUS
<1>1. /\ declared \in Worlds /\ live \in [Shards -> ScanStates]
      /\ matching \in [Shards -> SUBSET Symbols] /\ steady \in BOOLEAN /\ edits \in 0..MaxEdits
      /\ step \in {"scans", "runs", "first", "fundamentals", "second", "end"}
      /\ fundamentals \in SUBSET Symbols
  BY DEF KeptInv, TypeOK
<1>2. ASSUME NEW s \in Shards, NEW state \in ScanStates, EditScan(s, state)
      PROVE  KeptInv'
  <2>1. PICK found \in Found(s, state) : matching' = [matching EXCEPT ![s] = found]
    BY <1>2 DEF EditScan
  <2>2. declared \in [Shards -> SUBSET Symbols]
    BY <1>1, DiscoveryAssumption
  <2>3. found \in SUBSET Symbols
    BY <2>1, <2>2, DiscoveryAssumption DEF Found
  <2>4. matching' \in [Shards -> SUBSET Symbols] /\ live' \in [Shards -> ScanStates]
    BY <1>1, <1>2, <2>1, <2>3 DEF EditScan
  <2>5. steady' \in BOOLEAN /\ edits' \in 0..MaxEdits
    BY <1>1, <1>2, DiscoveryAssumption DEF EditScan
  <2>6. UNCHANGED <<declared, step, runs, fundamentals, result, journalled>>
    BY <1>2 DEF EditScan
  <2>7. TypeOK' /\ EveryCandidateAccounted' /\ SelectionFair'
    BY <1>1, <2>4, <2>5, <2>6, SameResult
  <2>8. QED
    BY <2>6, <2>7 DEF KeptInv, RunsTyped
<1>3. CASE FetchScans
  <2>1. /\ UNCHANGED <<declared, live, matching, runs, fundamentals, result, journalled, steady, edits>>
        /\ step' = "runs"
    BY <1>3 DEF FetchScans
  <2>2. TypeOK' /\ EveryCandidateAccounted' /\ SelectionFair'
    BY <1>1, <2>1, SameResult
  <2>3. QED
    BY <2>1, <2>2 DEF KeptInv, RunsTyped
<1>4. ASSUME NEW order \in FetchOrders, FetchRuns(order)
      PROVE  KeptInv'
  <2>1. /\ UNCHANGED <<declared, live, matching, fundamentals, result, journalled, steady, edits>>
        /\ step' = "first" /\ DOMAIN runs' = DOMAIN order
        /\ \A i \in DOMAIN order : runs'[i] \in Answers(order[i])
    BY <1>4 DEF FetchRuns
  <2>2. TypeOK' /\ EveryCandidateAccounted' /\ SelectionFair'
    BY <1>1, <2>1, SameResult
  <2>3. order \in Seq(Shards)
    BY SelectionAssumption
  <2>4. DOMAIN order \subseteq Nat /\ \A i \in DOMAIN order : order[i] \in Shards
    BY <2>3
  <2>5. \A i \in DOMAIN order : runs'[i].shard = order[i]
    BY <2>1, AnswerForms
  <2>6. RunsTyped(runs)'
    BY <2>1, <2>4, <2>5 DEF RunsTyped
  <2>7. QED
    BY <2>1, <2>2, <2>6 DEF KeptInv
<1>5. ASSUME NEW covered \in SUBSET Symbols, FetchFundamentals(covered)
      PROVE  KeptInv'
  <2>1. /\ UNCHANGED <<declared, live, matching, runs, result, journalled, steady, edits>>
        /\ fundamentals' = covered /\ step = "fundamentals" /\ step' = "second"
    BY <1>5 DEF FetchFundamentals
  <2>2. result.outcome = "planned"
    BY <2>1 DEF KeptInv
  <2>3. TypeOK' /\ EveryCandidateAccounted' /\ SelectionFair'
    BY <1>1, <2>1, <2>2, SameResult
  <2>4. QED
    BY <2>1, <2>3 DEF KeptInv, RunsTyped
<1>6. ASSUME NEW secondPhase \in BOOLEAN, NEW a \in Arguments, Discover(secondPhase, a)
      PROVE  KeptInv'
  <2> DEFINE r == RunDiscovery(scans, runs, secondPhase, fundamentals, a)
  <2>1. /\ UNCHANGED <<declared, live, matching, runs, fundamentals, steady, edits>>
        /\ result' = r
        /\ journalled' = IF r.outcome = "failed" THEN journalled
                         ELSE journalled \cup {[outcome |-> r.outcome, kept |-> AllCandidates(r)]}
        /\ step' = IF r.outcome = "planned" THEN "fundamentals" ELSE "end"
    BY <1>6 DEF Discover
  <2>2. RunsTyped(runs)
    BY DEF KeptInv
  <2>3. TypedResult(r) /\ Accounted(r, fundamentals) /\ Fair(r) /\ r.outcome # "none"
    BY <1>1, <2>2, RunKept
  <2> HIDE DEF r
  <2>4. TypedResult(result') /\ Accounted(result', fundamentals') /\ Fair(result')
    BY <2>1, <2>3
  <2>5. EveryCandidateAccounted' /\ SelectionFair'
    <3>1. EveryCandidateAccounted'
      BY <2>4 DEF Accounted, EveryCandidateAccounted, AllCandidates
    <3>2. SelectionFair'
      BY <2>4 DEF Fair, SelectionFair
    <3>3. QED
      BY <3>1, <3>2
  <2>6. \A row \in journalled' : row.outcome \in Outcomes \ {"none", "failed"}
    <3>1. \A row \in journalled : row.outcome \in Outcomes \ {"none", "failed"}
      BY DEF KeptInv, TypeOK
    <3>2. r.outcome \in Outcomes
      BY <2>3 DEF TypedResult
    <3>3. QED
      BY <2>1, <2>3, <3>1, <3>2
  <2>7. TypeOK'
    BY <1>1, <2>1, <2>4, <2>6 DEF TypeOK, TypedResult
  <2>8. QED
    BY <2>1, <2>2, <2>5, <2>7 DEF KeptInv, RunsTyped
<1>7. CASE UNCHANGED vars
  <2>1. UNCHANGED <<declared, live, matching, step, runs, fundamentals, result, journalled, steady, edits>>
    BY <1>7 DEF vars
  <2>2. TypeOK' /\ EveryCandidateAccounted' /\ SelectionFair'
    BY <1>1, <2>1, SameResult
  <2>3. QED
    BY <2>1, <2>2 DEF KeptInv, RunsTyped
<1>8. QED
  BY <1>2, <1>3, <1>4, <1>5, <1>6, <1>7 DEF Next

-----------------------------------------------------------------------------
(***************************************************************************)
(* The theorems.                                                           *)
(***************************************************************************)

\* A run that must be complete and passed drift and coverage discovered every
\* symbol that the declared scans match and no other, whatever was edited
\* before get_scans, cut at the cap, unreadable, missing or handed over twice.
THEOREM DiscoversTheDeclaredUniverse == Spec => []UniverseCovered
<1>1. Spec => []IInv
  BY InvariantInitially, InvariantKept, PTL DEF Spec
<1>2. IInv => UniverseCovered
  BY DEF IInv
<1>3. QED
  BY <1>1, <1>2, PTL

\* What a session holds, produces and journals is of its type, and every batch
\* has one candidate for a symbol, whatever the scans and their order.
THEOREM TypeCorrect == Spec => []TypeOK
<1>1. Spec => []KeptInv
  BY KeptInitially, KeptKept, PTL DEF Spec
<1>2. KeptInv => TypeOK
  BY DEF KeptInv
<1>3. QED
  BY <1>1, <1>2, PTL

\* Every discovered symbol is kept once, at the stage it reached and with a
\* true reason, through both selections, whatever the budgets, the cap, the
\* rotation and the fundamentals answers that came.
THEOREM EveryoneIsAccountedFor == Spec => []EveryCandidateAccounted
<1>1. Spec => []KeptInv
  BY KeptInitially, KeptKept, PTL DEF Spec
<1>2. KeptInv => EveryCandidateAccounted
  BY DEF KeptInv
<1>3. QED
  BY <1>1, <1>2, PTL

\* The enrichment budget is kept and shared among any sectors: the unknown one
\* within the cap, the known ones within one of each other.
THEOREM SharesTheBudget == Spec => []SelectionFair
<1>1. Spec => []KeptInv
  BY KeptInitially, KeptKept, PTL DEF Spec
<1>2. KeptInv => SelectionFair
  BY DEF KeptInv
<1>3. QED
  BY <1>1, <1>2, PTL
=============================================================================
