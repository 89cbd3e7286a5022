------------------------- MODULE OrderSizingProofs --------------------------
(***************************************************************************)
(* The arithmetic of an order for every account, price, stop, conviction   *)
(* and penalty, and for any percentages and limits of RiskConfig: TLC      *)
(* tries some hundreds of deals, the theorems are about all of them.       *)
(*                                                                         *)
(* The proofs rest on what a division rounds away, stated once: Division,  *)
(* Remainder, Rounded and RoundedDown.  Everything else is comparison.     *)
(***************************************************************************)
EXTENDS OrderSizing, TLAPS, WellFoundedInduction

-----------------------------------------------------------------------------
(***************************************************************************)
(* Division and rounding.                                                  *)
(***************************************************************************)

\* A quotient loses less than one divisor.
LEMMA Division ==
  ASSUME NEW n \in Nat, NEW d \in Nat \ {0}
  PROVE  /\ n \div d \in Nat
         /\ d * (n \div d) <= n
         /\ n < d * (n \div d) + d
OBVIOUS

\* What it loses is the remainder.
LEMMA Remainder ==
  ASSUME NEW n \in Nat, NEW d \in Nat \ {0}
  PROVE  /\ n % d \in Nat /\ n % d < d
         /\ n = d * (n \div d) + (n % d)
<1>1. n % d \in Nat
  OBVIOUS
<1>2. n % d < d
  OBVIOUS
<1>3. n = d * (n \div d) + (n % d)
  OBVIOUS
<1>4. QED
  BY <1>1, <1>2, <1>3

\* A larger number has no smaller quotient.
LEMMA DivisionGrows ==
  ASSUME NEW m \in Nat, NEW n \in Nat, NEW d \in Nat \ {0}, m <= n
  PROVE  m \div d <= n \div d
OBVIOUS

\* A quotient that is reached bounds what it is the quotient of.
LEMMA UnderQuotient ==
  ASSUME NEW n \in Nat, NEW m \in Nat, NEW d \in Nat \ {0}, n <= m \div d
  PROVE  d * n <= m
OBVIOUS

\* A product grows with its factors, and so do the factors with it.
LEMMA ProductGrows ==
  ASSUME NEW a \in Nat, NEW b \in Nat, NEW c \in Nat
  PROVE  /\ a * c \in Nat
         /\ a <= b => a * c <= b * c
         /\ a * c < b * c => a < b
<1>1. a * c \in Nat /\ (a <= b => a * c <= b * c)
  OBVIOUS
<1>2. a * c < b * c => a < b
  BY b <= a => b * c <= a * c
<1>3. QED
  BY <1>1, <1>2

\* Rounding moves a quotient by at most half a unit.
LEMMA Rounded ==
  ASSUME NEW n \in Nat, NEW d \in Nat \ {0}
  PROVE  /\ RoundHalfEven(n, d) \in Nat
         /\ 2 * (d * RoundHalfEven(n, d)) <= 2 * n + d
         /\ 2 * n <= 2 * (d * RoundHalfEven(n, d)) + d
<1> DEFINE f == n \div d
           r == n % d
<1>1. f \in Nat /\ r \in Nat /\ r < d /\ n = d * f + r
  BY Division, Remainder
<1>2. RoundHalfEven(n, d) = IF 2 * r < d \/ (2 * r = d /\ f % 2 = 0) THEN f ELSE f + 1
  BY DEF RoundHalfEven
<1>3. d * (f + 1) = d * f + d
  BY <1>1
<1> HIDE DEF f, r
<1>4. CASE RoundHalfEven(n, d) = f /\ 2 * r <= d
  BY <1>1, <1>4
<1>5. CASE RoundHalfEven(n, d) = f + 1 /\ 2 * r >= d
  BY <1>1, <1>3, <1>5
<1>6. QED
  BY <1>1, <1>2, <1>4, <1>5

\* A whole quotient is not rounded.
LEMMA RoundedWhole ==
  ASSUME NEW m \in Nat, NEW d \in Nat \ {0}
  PROVE  RoundHalfEven(m * d, d) = m
<1>1. (m * d) \div d = m /\ (m * d) % d = 0
  OBVIOUS
<1>2. QED
  BY <1>1 DEF RoundHalfEven

\* Rounding does not pass a whole number that the quotient does not pass.
LEMMA RoundedDown ==
  ASSUME NEW n \in Nat, NEW d \in Nat \ {0}, NEW m \in Nat, n <= m * d
  PROVE  RoundHalfEven(n, d) <= m
<1> DEFINE f == n \div d
           r == n % d
<1>1. f \in Nat /\ r \in Nat /\ r < d /\ n = f * d + r
  BY Division, Remainder
<1>2. RoundHalfEven(n, d) = IF 2 * r < d \/ (2 * r = d /\ f % 2 = 0) THEN f ELSE f + 1
  BY DEF RoundHalfEven
<1> HIDE DEF f, r
<1>3. f <= m
  BY <1>1, (m + 1) * d = m * d + d, ProductGrows
<1>4. CASE r > 0
  <2>1. f * d < m * d
    BY <1>1, <1>4
  <2>2. f < m
    BY <1>1, <2>1, ProductGrows
  <2>3. QED
    BY <1>1, <1>2, <2>2
<1>5. CASE r = 0
  BY <1>1, <1>2, <1>3, <1>5
<1>6. QED
  BY <1>1, <1>4, <1>5

-----------------------------------------------------------------------------
(***************************************************************************)
(* Least and greatest.                                                     *)
(***************************************************************************)

\* A set of natural numbers has a least one, and Min finds it.
LEMMA LeastOfNat ==
  ASSUME NEW S \in SUBSET Nat, S # {}
  PROVE  Min(S) \in S /\ \A n \in S : Min(S) <= n
<1>1. PICK x \in S : \A y \in S : ~ (<<y, x>> \in OpToRel(<, Nat))
  BY WFMin, NatLessThanWellFounded
<1>2. \A y \in S : ~ (y < x)
  BY <1>1 DEF OpToRel
<1>3. \A y \in S : x <= y
  BY <1>2
<1>4. QED
  BY <1>3 DEF Min

\* The greater, and the smaller, of two integers.
LEMMA OfTwo ==
  ASSUME NEW x \in Int, NEW y \in Int
  PROVE  /\ Max({x, y}) \in {x, y} /\ Max({x, y}) >= x /\ Max({x, y}) >= y
         /\ Min({x, y}) \in {x, y} /\ Min({x, y}) <= x /\ Min({x, y}) <= y
<1>1. \E m \in {x, y} : \A z \in {x, y} : m >= z
  <2>1. CASE x >= y
    BY <2>1
  <2>2. CASE y >= x
    BY <2>2
  <2>3. QED
    BY <2>1, <2>2
<1>2. \E m \in {x, y} : \A z \in {x, y} : m <= z
  <2>1. CASE x >= y
    BY <2>1
  <2>2. CASE y >= x
    BY <2>2
  <2>3. QED
    BY <2>1, <2>2
<1>3. QED
  BY <1>1, <1>2 DEF Max, Min

-----------------------------------------------------------------------------
(***************************************************************************)
(* Sizing.                                                                 *)
(***************************************************************************)

\* What an admitted deal is made of.
LEMMA DealFacts ==
  ASSUME NEW d \in Deals
  PROVE  /\ d.total \in Nat /\ d.power \in Nat /\ d.sectorHeld \in Nat /\ d.lots \in Nat
         /\ d.ref \in Nat \ {0}
         /\ d.confidence \in 0..100
         /\ d.side \in {"buy", "sell"}
         /\ d.side = "buy" =>
              /\ d.stop \in Nat /\ d.ref - d.stop \in Nat \ {0}
              /\ d.sectorKnown => 100 * d.sectorHeld < d.total * MaxSectorPct
<1>1. Admitted(d)
  BY SizingAssumption
<1>2. QED
  BY <1>1 DEF Admitted

\* The limits are natural numbers.
LEMMA LimitFacts ==
  /\ RiskPct \in Nat /\ MaxPositionPct \in Nat /\ MaxSectorPct \in Nat
  /\ MinOrder \in Nat \ {0} /\ MaxOrder \in Nat /\ ShareLots \in Nat \ {0}
BY SizingAssumption

\* The budget is within half a cent of the risk percentage of the account.
LEMMA BudgetFacts ==
  ASSUME NEW d \in Deals
  PROVE  /\ RiskBudget(d) \in Nat
         /\ 100 * RiskBudget(d) <= d.total * RiskPct + 50
<1>1. d.total * RiskPct \in Nat
  BY DealFacts, LimitFacts, ProductGrows
<1>2. /\ RiskBudget(d) \in Nat
      /\ 2 * (100 * RiskBudget(d)) <= 2 * (d.total * RiskPct) + 100
  BY <1>1, Rounded DEF RiskBudget
<1>3. QED
  BY <1>1, <1>2

\* The exposure, multiplied out; and it grows with the conviction.
LEMMA ExposureFacts ==
  ASSUME NEW d \in Deals, d.side = "buy", NEW scale \in 0..100
  PROVE  /\ Exposure(d, scale) \in Nat
         /\ ((d.ref - d.stop) * 100) * Exposure(d, scale) <= RiskBudget(d) * d.ref * scale
         /\ \A more \in scale..100 : Exposure(d, scale) <= Exposure(d, more)
<1> DEFINE x == RiskBudget(d) * d.ref
           w == (d.ref - d.stop) * 100
<1>1. x \in Nat /\ w \in Nat \ {0}
  BY DealFacts, BudgetFacts, ProductGrows
<1>2. \A c \in 0..100 : Exposure(d, c) = (x * c) \div w
  BY DEF Exposure
<1> HIDE DEF x, w
<1>3. \A c \in 0..100 : x * c \in Nat
  BY <1>1
<1>4. Exposure(d, scale) \in Nat /\ w * Exposure(d, scale) <= x * scale
  BY <1>1, <1>2, <1>3, Division
<1>5. \A more \in scale..100 : x * scale <= x * more
  BY <1>1
<1>6. ASSUME NEW more \in scale..100
      PROVE  Exposure(d, scale) <= Exposure(d, more)
  <2>1. /\ x * scale \in Nat /\ x * more \in Nat /\ x * scale <= x * more
        /\ more \in 0..100
    BY <1>3, <1>5
  <2>2. (x * scale) \div w <= (x * more) \div w
    BY <1>1, <2>1, DivisionGrows
  <2>3. QED
    BY <1>2, <2>1, <2>2
<1>7. QED
  BY <1>4, <1>6 DEF x, w

\* Every cap is a number of cents, and keeps its limit.
LEMMA CapFacts ==
  ASSUME NEW d \in Deals, d.side = "buy"
  PROVE  /\ Caps(d) \subseteq Nat
         /\ {PositionCap(d), MaxOrder, d.power} \subseteq Caps(d)
         /\ d.sectorKnown => SectorRoom(d) \in Caps(d)
         /\ \A n \in Nat : n <= PositionCap(d) => 100 * n <= d.total * MaxPositionPct
         /\ d.sectorKnown => \A n \in Nat : n <= SectorRoom(d) =>
              100 * (n + d.sectorHeld) <= d.total * MaxSectorPct
<1> DEFINE position == d.total * MaxPositionPct
           sector == d.total * MaxSectorPct
           rest == sector - 100 * d.sectorHeld
           room == Max({rest, 0})
<1>1. position \in Nat /\ sector \in Nat /\ d.sectorHeld \in Nat
  BY DealFacts, LimitFacts, ProductGrows
<1>2. PositionCap(d) = position \div 100 /\ SectorRoom(d) = room \div 100
  BY DEF PositionCap, SectorRoom
<1>3. d.sectorKnown => 100 * d.sectorHeld < sector
  BY DealFacts
<1> HIDE DEF position, sector
<1>4. room \in Nat /\ (d.sectorKnown => room = sector - 100 * d.sectorHeld)
  <2>1. rest \in Int /\ (d.sectorKnown => rest > 0)
    BY <1>1, <1>3
  <2> HIDE DEF rest
  <2>2. room \in {rest, 0} /\ room >= rest /\ room >= 0
    BY <2>1, OfTwo
  <2> HIDE DEF room
  <2>3. QED
    BY <2>1, <2>2 DEF rest
<1> HIDE DEF room
<1>5. PositionCap(d) \in Nat /\ SectorRoom(d) \in Nat
  BY <1>1, <1>2, <1>4, Division
<1>6. \A n \in Nat : n <= PositionCap(d) => 100 * n <= position
  BY <1>1, <1>2, UnderQuotient
<1>7. d.sectorKnown => \A n \in Nat : n <= SectorRoom(d) =>
        100 * (n + d.sectorHeld) <= sector
  <2> SUFFICES ASSUME d.sectorKnown, NEW n \in Nat, n <= SectorRoom(d)
               PROVE  100 * (n + d.sectorHeld) <= sector
    OBVIOUS
  <2>1. 100 * n <= room
    BY <1>2, <1>4, UnderQuotient
  <2>2. QED
    BY <1>1, <1>4, <2>1
<1>8. Caps(d) \subseteq Nat
  BY <1>5, LimitFacts, DealFacts DEF Caps
<1>9. QED
  BY <1>6, <1>7, <1>8 DEF Caps, position, sector

\* A size is a number of cents within the exposure and every cap.
LEMMA SizedFacts ==
  ASSUME NEW d \in Deals, d.side = "buy", NEW c \in 0..100
  PROVE  /\ Scale(c) \in 0..100
         /\ Sized(d, c) \in {Exposure(d, Scale(c))} \cup Caps(d)
         /\ Sized(d, c) \in Nat
         /\ Sized(d, c) <= Exposure(d, Scale(c))
         /\ \A cap \in Caps(d) : Sized(d, c) <= cap
<1>1. Scale(c) \in 0..100
  BY DEF Scale
<1>2. {Exposure(d, Scale(c))} \cup Caps(d) \in SUBSET Nat
  BY <1>1, ExposureFacts, CapFacts
<1>3. QED
  BY <1>1, <1>2, LeastOfNat DEF Sized

\* A lower conviction above zero never sizes more.
LEMMA SizedShrinks ==
  ASSUME NEW d \in Deals, d.side = "buy", NEW c \in 1..100, NEW more \in c..100
  PROVE  Sized(d, c) <= Sized(d, more)
<1>1. Scale(c) = c /\ Scale(more) = more /\ c \in 0..100 /\ more \in 0..100
  BY DEF Scale
<1>2. Exposure(d, c) <= Exposure(d, more)
  BY <1>1, ExposureFacts
<1>3. /\ Sized(d, c) \in Nat /\ Sized(d, c) <= Exposure(d, c)
      /\ \A cap \in Caps(d) : Sized(d, c) <= cap
      /\ Exposure(d, c) \in Nat /\ Exposure(d, more) \in Nat
  BY <1>1, SizedFacts, ExposureFacts
<1>4. Sized(d, more) = Exposure(d, more) \/ Sized(d, more) \in Caps(d)
  BY <1>1, SizedFacts
<1>5. QED
  BY <1>2, <1>3, <1>4

-----------------------------------------------------------------------------
(***************************************************************************)
(* The critic.                                                             *)
(***************************************************************************)

\* What does not block an order does not block a smaller one.
LEMMA SmallerIsNotBlocked ==
  ASSUME NEW d \in Deals, NEW m \in Nat, NEW n \in Nat, m <= n, ~Blocks(d, n)
  PROVE  ~Blocks(d, m)
<1>1. ~Unaffordable(d, m) /\ ~Concentrated(d, m)
  <2>1. d.total * MaxPositionPct \in Nat /\ d.power \in Nat
    BY DealFacts, LimitFacts, ProductGrows
  <2>2. QED
    BY <2>1 DEF Blocks, Unaffordable, Concentrated
<1>2. ~RisksTooMuch(d, m)
  <2> SUFFICES ASSUME d.side = "buy"
               PROVE  ~RisksTooMuch(d, m)
    BY DEF RisksTooMuch
  <2> DEFINE g == d.ref - d.stop
             most == d.total * RiskPct * 105 * d.ref
  <2>1. g \in Nat /\ most \in Nat
    BY DealFacts, LimitFacts, ProductGrows
  <2>2. ~(n * g * 10000 > most)
    BY DEF Blocks, RisksTooMuch
  <2> HIDE DEF g, most
  <2>3. m * g <= n * g /\ m * g \in Nat /\ n * g \in Nat
    BY <2>1, ProductGrows
  <2>4. ~(m * g * 10000 > most)
    BY <2>1, <2>2, <2>3
  <2>5. QED
    BY <2>4 DEF RisksTooMuch, g, most
<1>3. QED
  BY <1>1, <1>2 DEF Blocks

\* With a budget of ten cents or more, rounding it to a cent stays within the
\* tolerance of the critic: no size of the engine is blocked.
LEMMA SizedIsNotBlocked ==
  ASSUME NEW d \in Deals, d.side = "buy", NEW c \in 0..100,
         d.total * RiskPct >= 1000
  PROVE  ~Blocks(d, Sized(d, c))
<1> DEFINE n == Sized(d, c)
           g == d.ref - d.stop
           e == Exposure(d, Scale(c))
           b == RiskBudget(d)
           t == d.total * RiskPct
           r == d.ref
<1>1. ~Unaffordable(d, n) /\ ~Concentrated(d, n)
  <2>1. n \in Nat /\ n <= d.power /\ n <= PositionCap(d)
    BY SizedFacts, CapFacts
  <2>2. 100 * n <= d.total * MaxPositionPct
    BY <2>1, CapFacts
  <2>3. d.total * MaxPositionPct \in Nat /\ d.power \in Nat
    BY DealFacts, LimitFacts, ProductGrows
  <2> HIDE DEF n
  <2>4. QED
    BY <2>1, <2>2, <2>3 DEF Unaffordable, Concentrated
<1>2. /\ n \in Nat /\ n <= e /\ e \in Nat /\ g \in Nat /\ b \in Nat /\ t \in Nat /\ r \in Nat
      /\ Scale(c) \in 0..100 /\ (g * 100) * e <= b * r * Scale(c)
      /\ 100 * b <= t + 50 /\ t >= 1000
  <2>1. Scale(c) \in 0..100 /\ n \in Nat /\ n <= e
    BY SizedFacts
  <2>2. e \in Nat /\ (g * 100) * e <= b * r * Scale(c)
    BY <2>1, ExposureFacts
  <2>3. b \in Nat /\ 100 * b <= t + 50
    BY BudgetFacts
  <2>4. g \in Nat /\ r \in Nat /\ d.total \in Nat
    BY DealFacts
  <2>5. t \in Nat
    BY <2>4, LimitFacts, ProductGrows
  <2> HIDE DEF n, g, e, b, r
  <2>6. QED
    BY <2>1, <2>2, <2>3, <2>4, <2>5
<1>3. RisksTooMuch(d, n) => n * g * 10000 > t * 105 * r
  BY DEF RisksTooMuch
<1> HIDE DEF n, g, e, b, t, r
<1>4. n * g <= b * r
  <2>1. n * g <= e * g /\ n * g \in Nat /\ e * g \in Nat /\ b * r \in Nat
    BY <1>2, ProductGrows
  <2>2. (b * r) * Scale(c) <= (b * r) * 100
    BY <1>2, <2>1
  <2>3. (g * 100) * e = 100 * (e * g)
    BY <1>2
  <2>4. QED
    BY <1>2, <2>1, <2>2, <2>3
<1>5. 100 * (b * r) <= t * r + 50 * r
  <2>1. (100 * b) * r <= (t + 50) * r
    BY <1>2, ProductGrows
  <2>2. (100 * b) * r = 100 * (b * r) /\ (t + 50) * r = t * r + 50 * r
    BY <1>2
  <2>3. QED
    BY <2>1, <2>2
<1>6. 1000 * r <= t * r
  BY <1>2, ProductGrows
<1>7. t * 105 * r = 105 * (t * r)
  BY <1>2
<1>8. n * g \in Nat /\ b * r \in Nat /\ t * r \in Nat
  BY <1>2, ProductGrows
<1>9. n * g * 10000 <= t * 105 * r
  BY <1>2, <1>4, <1>5, <1>6, <1>7, <1>8
<1>10. ~RisksTooMuch(d, n)
  BY <1>2, <1>3, <1>7, <1>8, <1>9
<1>11. QED
  BY <1>1, <1>10 DEF Blocks, n

\* The critic lowers a confidence or leaves it, and not below zero.
LEMMA AdjustedLowers ==
  ASSUME NEW c \in 0..100, NEW penalty \in Nat
  PROVE  Adjusted(c, penalty) \in 0..c
<1> DEFINE low == Min({c, c - penalty})
<1>1. low \in {c, c - penalty} /\ low <= c
  BY OfTwo
<1> HIDE DEF low
<1>2. Max({0, low}) \in {0, low} /\ Max({0, low}) >= 0
  BY <1>1, OfTwo
<1>3. QED
  BY <1>1, <1>2 DEF Adjusted, low

-----------------------------------------------------------------------------
(***************************************************************************)
(* The inductive invariant: where the size in force came from, and what    *)
(* the critic has said of it.                                              *)
(***************************************************************************)
Sizes ==
  /\ stage \in {"decided", "penalised"} => notional = Sized(deal, deal.confidence)
  /\ stage \in {"decided", "penalised", "reviewed", "planned"} =>
       notional >= MinOrder /\ \E c \in 0..100 : notional = Sized(deal, c)

Exits ==
  stage \in {"decided", "penalised", "reviewed", "planned"} =>
    notional = ExitNotional(deal)

Payload ==
  /\ deal.side = "buy" =>
       /\ deal.mode = "live" => Coverable(deal, notional)
       /\ submit.amount = notional
  /\ deal.side = "sell" => submit.amount = SharesOf(notional, deal.ref)

IInv ==
  /\ TypeOK
  /\ confidence <= deal.confidence
  /\ stage \in {"signal", "decided"} => confidence = deal.confidence
  /\ deal.side = "buy" => Sizes
  /\ deal.side = "sell" => Exits
  /\ stage \in {"penalised", "reviewed", "planned"} => ~Blocks(deal, notional)
  /\ stage = "planned" => Payload
  /\ stage = "raised" => confidence = 0

\* A cycle starts without a size.
LEMMA InvariantInitially == Init => IInv
<1> SUFFICES ASSUME Init PROVE IInv
  OBVIOUS
<1>1. deal \in Deals /\ deal.confidence \in 0..100
  BY DealFacts DEF Init
<1>2. TypeOK
  BY <1>1 DEF Init, TypeOK, Stages, NoPayload
<1>3. QED
  BY <1>1, <1>2 DEF Init, IInv, Sizes, Exits

\* A step that ends the cycle without a payload keeps the invariant.
LEMMA Ending ==
  ASSUME IInv, NEW s \in {"rejected", "blocked", "refused", "raised"}, End(s),
         s = "raised" => confidence = 0
  PROVE  IInv'
BY DEF IInv, TypeOK, Stages, End, Sizes, Exits

\* build_decision: the first size.
LEMMA DecideStep ==
  ASSUME IInv, BuildEntry \/ BuildExit
  PROVE  IInv'
<1>1. /\ deal \in Deals /\ deal.confidence \in 0..100 /\ confidence \in 0..100
      /\ stage = "signal" /\ notional \in Nat
  BY DealFacts DEF IInv, TypeOK, BuildEntry, BuildExit
<1>2. CASE BuildEntry
  <2>1. CASE End("rejected")
    BY <2>1, Ending
  <2>2. CASE /\ stage' = "decided" /\ notional' = Sized(deal, deal.confidence)
             /\ UNCHANGED <<deal, confidence, submit>>
             /\ ~(Sized(deal, deal.confidence) < MinOrder)
    <3>1. notional' \in Nat /\ notional' >= MinOrder
      BY <1>1, <1>2, <2>2, SizedFacts, LimitFacts DEF BuildEntry
    <3>2. TypeOK'
      BY <2>2, <3>1 DEF IInv, TypeOK, Stages
    <3>3. confidence = deal.confidence
      BY <1>1 DEF IInv
    <3>4. QED
      BY <1>1, <1>2, <2>2, <3>1, <3>2, <3>3 DEF BuildEntry, IInv, Sizes
  <2>3. QED
    BY <1>2, <2>1, <2>2 DEF BuildEntry, Decide
<1>3. CASE BuildExit
  <2>1. CASE End("rejected")
    BY <2>1, Ending
  <2>2. CASE /\ stage' = "decided" /\ notional' = ExitNotional(deal)
             /\ UNCHANGED <<deal, confidence, submit>>
    <3>1. notional' \in Nat
      BY <1>1, <2>2, DealFacts, LimitFacts, ProductGrows, Division DEF ExitNotional
    <3>2. TypeOK'
      BY <2>2, <3>1 DEF IInv, TypeOK, Stages
    <3>3. QED
      BY <1>1, <1>3, <2>2, <3>2 DEF BuildExit, IInv, Exits
  <2>3. QED
    BY <1>3, <2>1, <2>2 DEF BuildExit, Decide
<1>4. QED
  BY <1>2, <1>3

\* The critic's review: it never raises the confidence.
LEMMA CritiqueStep ==
  ASSUME IInv, NEW penalty \in Penalties, Critique(penalty)
  PROVE  IInv'
<1>1. CASE Blocks(deal, notional)
  BY <1>1, Ending DEF Critique
<1>2. CASE ~Blocks(deal, notional)
  <2> DEFINE p == penalty + IF NearCeiling(deal, notional) THEN 5 ELSE 0
             c == Adjusted(confidence, p)
  <2>1. /\ confidence' = c
        /\ stage' = IF c < confidence THEN "penalised" ELSE "reviewed"
        /\ UNCHANGED <<deal, notional, submit>>
        /\ stage = "decided"
    BY <1>2 DEF Critique
  <2>2. p \in Nat /\ confidence \in 0..100
    BY SizingAssumption DEF IInv, TypeOK
  <2> HIDE DEF p
  <2>3. c \in 0..confidence
    BY <2>2, AdjustedLowers
  <2> HIDE DEF c
  <2>4. TypeOK' /\ confidence' <= deal'.confidence
    BY <2>1, <2>2, <2>3, DealFacts DEF IInv, TypeOK, Stages
  <2>5. QED
    BY <1>2, <2>1, <2>4 DEF IInv, Sizes, Exits
<1>3. QED
  BY <1>1, <1>2

\* The re-size: at a lower conviction above zero the order does not grow.
LEMMA ResizeStep ==
  ASSUME IInv, Resize
  PROVE  IInv'
<1>1. /\ deal \in Deals /\ deal.confidence \in 0..100 /\ confidence \in 0..100
      /\ confidence <= deal.confidence /\ notional \in Nat
      /\ stage = "penalised" /\ ~Blocks(deal, notional)
      /\ deal.side = "buy" => notional = Sized(deal, deal.confidence)
      /\ deal.side = "sell" => notional = ExitNotional(deal)
      /\ deal.side \in {"buy", "sell"}
  BY DealFacts DEF IInv, TypeOK, Sizes, Exits, Resize
<1>2. CASE End("rejected")
  BY <1>2, Ending
<1>3. CASE Resized > notional /\ End("raised")
  <2>1. deal.side = "buy"
    BY <1>1, <1>3 DEF Resized
  <2>2. CASE confidence > 0
    <3>1. confidence \in 1..100 /\ deal.confidence \in confidence..100
      BY <1>1, <2>2
    <3>2. Sized(deal, confidence) <= notional
      BY <1>1, <2>1, <3>1, SizedShrinks
    <3>3. Sized(deal, confidence) \in Nat /\ Sized(deal, confidence) > notional
      BY <1>1, <1>3, <2>1, SizedFacts DEF Resized
    <3>4. QED
      BY <1>1, <3>2, <3>3
  <2>3. QED
    BY <1>1, <1>3, <2>2, Ending
<1>4. CASE /\ ~(deal.side = "buy" /\ Resized < MinOrder) /\ ~(Resized > notional)
           /\ stage' = "reviewed" /\ notional' = Resized
           /\ UNCHANGED <<deal, confidence, submit>>
  <2>1. Resized \in Nat /\ Resized <= notional
    BY <1>1, <1>4, SizedFacts DEF Resized
  <2>2. TypeOK' /\ ~Blocks(deal, notional')
    BY <1>1, <1>4, <2>1, SmallerIsNotBlocked DEF IInv, TypeOK, Stages
  <2>3. CASE deal.side = "buy"
    <3>1. Resized = Sized(deal, confidence) /\ Resized >= MinOrder
      BY <1>4, <2>1, <2>3, LimitFacts DEF Resized
    <3>2. Sizes'
      BY <1>1, <1>4, <3>1 DEF Sizes
    <3>3. QED
      BY <1>1, <1>4, <2>2, <2>3, <3>2 DEF IInv, Blocks, RisksTooMuch, Unaffordable,
                                          Concentrated
  <2>4. CASE deal.side = "sell"
    <3>1. Exits'
      BY <1>1, <1>4, <2>4 DEF Resized, Exits
    <3>2. QED
      BY <1>1, <1>4, <2>2, <2>4, <3>1 DEF IInv, Blocks, RisksTooMuch, Unaffordable,
                                          Concentrated
  <2>5. QED
    BY <1>1, <2>3, <2>4
<1>5. QED
  BY <1>2, <1>3, <1>4 DEF Resize

\* build_order_payload: what it asks for is the size in force.
LEMMA PayloadStep ==
  ASSUME IInv, BuildPayload
  PROVE  IInv'
<1>1. CASE End("refused")
  BY <1>1, Ending
<1>2. CASE /\ ~(deal.side = "buy" /\ deal.mode = "live" /\ ~Coverable(deal, notional))
           /\ stage' = "planned"
           /\ submit' = IF deal.side = "buy"
                          THEN [form |-> "dollars", amount |-> notional]
                        ELSE [form |-> "shares", amount |-> SharesOf(notional, deal.ref)]
           /\ UNCHANGED <<deal, notional, confidence>>
  <2>1. /\ notional \in Nat /\ deal.ref \in Nat \ {0} /\ ShareLots \in Nat
        /\ deal.side \in {"buy", "sell"} /\ stage = "reviewed"
    BY DealFacts, LimitFacts DEF IInv, TypeOK, BuildPayload
  <2>2. SharesOf(notional, deal.ref) \in Nat
    BY <2>1, ProductGrows, Rounded DEF SharesOf
  <2>3. TypeOK'
    BY <1>2, <2>1, <2>2 DEF IInv, TypeOK, Stages
  <2>4. Payload'
    BY <1>2, <2>1 DEF Payload, Coverable
  <2>5. QED
    BY <1>2, <2>1, <2>3, <2>4
    DEF IInv, Sizes, Exits, Blocks, RisksTooMuch, Unaffordable, Concentrated
<1>3. QED
  BY <1>1, <1>2 DEF BuildPayload

\* Every step of a cycle keeps the invariant.
LEMMA InvariantKept == IInv /\ [Next]_vars => IInv'
<1> SUFFICES ASSUME IInv, [Next]_vars PROVE IInv'
  OBVIOUS
<1>1. CASE UNCHANGED vars
  BY <1>1 DEF vars, IInv, TypeOK, Sizes, Exits, Payload, Blocks, RisksTooMuch,
              Unaffordable, Concentrated, Coverable
<1>2. QED
  BY <1>1, DecideStep, CritiqueStep, ResizeStep, PayloadStep DEF Next, Done

\* The invariant of the size in force, in every reachable state.
LEMMA InvariantHolds == Spec => []IInv
BY InvariantInitially, InvariantKept, PTL DEF Spec

-----------------------------------------------------------------------------
(***************************************************************************)
(* The theorems.                                                           *)
(***************************************************************************)

\* Sizes and amounts stay natural numbers and the confidence a percentage,
\* through every rounding, floor and penalty of the cycle.
THEOREM TypeCorrect == Spec => []TypeOK
<1>1. IInv => TypeOK
  BY DEF IInv
<1>2. QED
  BY <1>1, InvariantHolds, PTL

\* What the engine sized for some conviction keeps the minimum, the maximum
\* and the sector cap: a re-size is not exempt (size_position).
LEMMA PlannedBuyIsWithin == IInv => BuyWithinLimits
<1> SUFFICES ASSUME IInv, stage = "planned", deal.side = "buy"
             PROVE  /\ notional >= MinOrder /\ notional <= MaxOrder
                    /\ deal.sectorKnown =>
                         100 * (notional + deal.sectorHeld) <= deal.total * MaxSectorPct
                    /\ ~Blocks(deal, notional)
  BY DEF BuyWithinLimits
<1>1. /\ deal \in Deals /\ notional >= MinOrder /\ ~Blocks(deal, notional)
      /\ \E c \in 0..100 : notional = Sized(deal, c)
  BY DEF IInv, TypeOK, Sizes
<1>2. notional \in Nat /\ \A cap \in Caps(deal) : notional <= cap
  BY <1>1, SizedFacts
<1>3. notional <= MaxOrder
  BY <1>1, <1>2, CapFacts
<1>4. ASSUME deal.sectorKnown
      PROVE  100 * (notional + deal.sectorHeld) <= deal.total * MaxSectorPct
  <2>1. notional <= SectorRoom(deal)
    BY <1>1, <1>2, <1>4, CapFacts
  <2>2. QED
    BY <1>1, <1>2, <1>4, <2>1, CapFacts
<1>5. QED
  BY <1>1, <1>3, <1>4

\* A planned buy is within every limit of RiskConfig and of the account, for
\* any account, price, stop, conviction and critique.
THEOREM PlannedBuysWithinLimits == Spec => []BuyWithinLimits
BY InvariantHolds, PlannedBuyIsWithin, PTL

\* enforce_no_increase raises only where a conviction of zero is sized as none
\* given: everywhere else the one re-size is monotone in the confidence.
THEOREM RaisesOnlyOnZero == Spec => []RaisesOnlyAtZero
<1>1. IInv => RaisesOnlyAtZero
  BY DEF IInv, RaisesOnlyAtZero
<1>2. QED
  BY <1>1, InvariantHolds, PTL

\* Flooring the proceeds to a cent and rounding the quantity back to a lot
\* does not oversell, and leaves less than a cent's worth and half a lot.
LEMMA PlannedExitIsHeld == IInv => ExitSellsWhatIsHeld
<1> SUFFICES ASSUME IInv, stage = "planned", deal.side = "sell"
             PROVE  /\ submit.amount <= deal.lots
                    /\ 2 * (deal.lots - submit.amount) * deal.ref < 2 * ShareLots + deal.ref
  BY DEF ExitSellsWhatIsHeld
<1> DEFINE a == submit.amount
           n == notional
           l == deal.lots
           r == deal.ref
           s == ShareLots
<1>1. l \in Nat /\ r \in Nat \ {0} /\ s \in Nat \ {0}
  BY DealFacts, LimitFacts DEF IInv, TypeOK
<1>2. n = (l * r) \div s /\ a = RoundHalfEven(n * s, r)
  BY DEF IInv, Exits, Payload, ExitNotional, SharesOf
<1> HIDE DEF a, n, l, r, s
<1>3. l * r \in Nat
  BY <1>1, ProductGrows
<1>4. n \in Nat /\ s * n <= l * r /\ l * r < s * n + s
  BY <1>1, <1>2, <1>3, Division
<1>5. n * s \in Nat /\ n * s = s * n
  BY <1>1, <1>4
<1>6. a <= l
  BY <1>1, <1>2, <1>4, <1>5, RoundedDown
<1>7. a \in Nat /\ 2 * (n * s) <= 2 * (r * a) + r
  BY <1>1, <1>2, <1>5, Rounded
<1>8. 2 * (l - a) * r = 2 * (l * r) - 2 * (r * a)
  BY <1>1, <1>7
<1>9. r * a \in Nat
  BY <1>1, <1>7
<1>10. 2 * (l - a) * r < 2 * s + r
  BY <1>1, <1>3, <1>4, <1>5, <1>7, <1>8, <1>9
<1>11. QED
  BY <1>6, <1>10 DEF a, l, r, s

\* An exit asks for no more shares than are held and for all but a rounding of
\* them, whatever the position, the price and the fineness of a share.
THEOREM ExitsSellWhatIsHeld == Spec => []ExitSellsWhatIsHeld
BY InvariantHolds, PlannedExitIsHeld, PTL

\* A live entry buys whole shares (stop_feasibility), so a share costs no more
\* than the order, which no cap and no conviction puts above the reach.
LEMMA PlannedLiveBuyIsInReach == IInv => LiveBuyWithinReach
<1> SUFFICES ASSUME IInv, stage = "planned", deal.side = "buy", deal.mode = "live"
             PROVE  /\ deal.ref <= WholeShareReach(deal)
                    /\ SharesOf(submit.amount, deal.ref) % ShareLots = 0
  BY DEF LiveBuyWithinReach
<1>1. PICK c \in 0..100 : notional = Sized(deal, c)
  BY DEF IInv, Sizes
<1>2. /\ deal \in Deals /\ deal.ref \in Nat \ {0}
      /\ notional \in Nat /\ notional >= MinOrder /\ MinOrder \in Nat \ {0}
      /\ notional % deal.ref = 0 /\ submit.amount = notional
      /\ ShareLots \in Nat \ {0}
  BY DealFacts, LimitFacts DEF IInv, TypeOK, Sizes, Payload, Coverable
<1> DEFINE k == notional \div deal.ref
<1>3. k \in Nat /\ notional = deal.ref * k
  BY <1>2, Division, Remainder
<1> HIDE DEF k
<1>4. k \in Nat \ {0}
  <2>1. k = 0 => deal.ref * k = 0
    BY <1>2
  <2>2. QED
    BY <1>2, <1>3, <2>1
<1>5. deal.ref <= notional
  <2>1. 1 * deal.ref <= k * deal.ref
    BY <1>2, <1>4, ProductGrows
  <2>2. QED
    BY <1>2, <1>3, <1>4, <2>1
<1>6. notional <= WholeShareReach(deal)
  <2> DEFINE S == {Exposure(deal, 100), PositionCap(deal), MaxOrder, deal.power}
  <2>1. /\ notional <= Exposure(deal, Scale(c)) /\ Scale(c) \in 0..100
        /\ \A cap \in Caps(deal) : notional <= cap
    BY <1>1, <1>2, SizedFacts
  <2>2. /\ Exposure(deal, Scale(c)) \in Nat /\ Exposure(deal, 100) \in Nat
        /\ Exposure(deal, Scale(c)) <= Exposure(deal, 100)
    <3>1. deal \in Deals /\ deal.side = "buy" /\ Scale(c) \in 0..100
      BY <1>2, <2>1
    <3>2. 100 \in 0..100 /\ 100 \in Scale(c)..100
      BY <3>1
    <3>3. /\ Exposure(deal, Scale(c)) \in Nat
          /\ \A more \in Scale(c)..100 : Exposure(deal, Scale(c)) <= Exposure(deal, more)
      BY <3>1, ExposureFacts
    <3>4. Exposure(deal, 100) \in Nat
      BY <3>1, <3>2, ExposureFacts
    <3>5. QED
      BY <3>2, <3>3, <3>4
  <2>3. notional <= Exposure(deal, 100)
    BY <1>2, <2>1, <2>2
  <2>4. S \subseteq Nat /\ S # {} /\ \A n \in S : notional <= n
    BY <1>2, <2>1, <2>2, <2>3, CapFacts
  <2>5. Min(S) \in S
    BY <2>4, LeastOfNat
  <2>6. QED
    BY <2>4, <2>5 DEF WholeShareReach
<1>7. SharesOf(submit.amount, deal.ref) % ShareLots = 0
  <2>1. k * ShareLots \in Nat /\ notional * ShareLots = (k * ShareLots) * deal.ref
    BY <1>2, <1>3
  <2>2. SharesOf(submit.amount, deal.ref) = k * ShareLots
    BY <1>2, <2>1, RoundedWhole DEF SharesOf
  <2>3. (k * ShareLots) % ShareLots = 0
    BY <1>2, <1>3
  <2>4. QED
    BY <2>2, <2>3
<1>8. WholeShareReach(deal) \in Nat
  <2>1. {Exposure(deal, 100), PositionCap(deal), MaxOrder, deal.power} \in SUBSET Nat
    <3>1. 100 \in 0..100 /\ deal \in Deals /\ deal.side = "buy"
      BY <1>2
    <3>2. Exposure(deal, 100) \in Nat
      BY <3>1, ExposureFacts
    <3>3. {PositionCap(deal), MaxOrder, deal.power} \subseteq Nat
      BY <1>2, CapFacts
    <3>4. QED
      BY <3>2, <3>3
  <2>2. QED
    BY <2>1, LeastOfNat DEF WholeShareReach
<1>9. QED
  BY <1>2, <1>5, <1>6, <1>7, <1>8

\* What max_whole_share_price reports bounds what is traded live: a planned
\* live buy is of whole shares priced at or under it.
THEOREM LiveBuysWithinReach == Spec => []LiveBuyWithinReach
BY InvariantHolds, PlannedLiveBuyIsInReach, PTL

-----------------------------------------------------------------------------
(***************************************************************************)
(* The critic and the engine.  The critic tolerates five percent over the  *)
(* exact budget and the engine rounds the budget to a cent, so the two     *)
(* agree from a budget of ten cents on.                                    *)
(***************************************************************************)
Funded == \A d \in Deals : d.total * RiskPct >= 1000

\* A review in agreement: only an exit is blocked.
LEMMA CriticAgreesKept ==
  ASSUME Funded, IInv, CriticAgrees, [Next]_vars
  PROVE  CriticAgrees'
<1>1. CASE UNCHANGED vars
  BY <1>1 DEF vars, CriticAgrees
<1>2. ASSUME NEW penalty \in Penalties, Critique(penalty)
      PROVE  CriticAgrees'
  <2>1. /\ stage = "decided" /\ deal' = deal /\ deal \in Deals
        /\ deal.side \in {"buy", "sell"} /\ deal.confidence \in 0..100
    BY <1>2, DealFacts DEF IInv, TypeOK, Critique, End
  <2>2. CASE deal.side = "buy"
    <3>1. ~Blocks(deal, notional)
      BY <2>1, <2>2, SizedIsNotBlocked DEF Funded, IInv, Sizes
    <3>2. stage' # "blocked"
      BY <1>2, <3>1 DEF Critique
    <3>3. QED
      BY <3>2 DEF CriticAgrees
  <2>3. CASE deal.side = "sell"
    BY <2>1, <2>3 DEF CriticAgrees
  <2>4. QED
    BY <2>1, <2>2, <2>3
<1>3. CASE BuildEntry \/ BuildExit \/ Resize \/ BuildPayload
  BY <1>3 DEF CriticAgrees, BuildEntry, BuildExit, Resize, BuildPayload, Decide, End
<1>4. QED
  BY <1>1, <1>2, <1>3 DEF Next, Done

\* The critic's recomputation never blocks a buy that the engine sized, on any
\* account whose budget is ten cents or more.
THEOREM CriticAgreesWithEngine ==
  ASSUME Funded
  PROVE  Spec => []CriticAgrees
<1>1. Init => CriticAgrees
  BY DEF Init, CriticAgrees
<1>2. IInv /\ CriticAgrees /\ [Next]_vars => CriticAgrees'
  BY CriticAgreesKept
<1>3. QED
  BY <1>1, <1>2, InvariantHolds, PTL DEF Spec
=============================================================================
