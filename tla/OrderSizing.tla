---------------------------- MODULE OrderSizing ----------------------------
(***************************************************************************)
(* The arithmetic of one cycle of run_cycle, from a signal that passed the *)
(* risk gates to the order payload: sizing (risk/sizing.py), the critic's  *)
(* independent recomputation and its penalties (agents/critic.py), the one *)
(* re-size (risk/engine.py, agents/orchestrator.py) and the payload        *)
(* (execution/executor.py).                                                *)
(*                                                                         *)
(* Money is in cents, percentages and confidences in hundredths, shares in *)
(* lots of which ShareLots make a share (the broker takes six decimal      *)
(* places).  Decimal arithmetic is exact up to the roundings that the code *)
(* makes, so each operator divides once, where the code rounds.            *)
(***************************************************************************)
EXTENDS Integers, FiniteSets, FiniteSetsExt

CONSTANTS
  RiskPct, MaxPositionPct, MaxSectorPct, MaxStopPct,   \* RiskConfig, in percent
  MinOrder, MaxOrder,                                  \* and in cents
  ShareLots,        \* lots of a share
  Deals,            \* the signals and accounts a cycle may start from
  Penalties,        \* sums of the critic's penalties that are not arithmetic
  NoStop            \* the stop of an exit

\* A signal and an account that check_limits lets through, as far as the
\* arithmetic goes: a stop that is neither absent nor too far away, a sector
\* below its cap, buying power; or a position to exit.
Admitted(d) ==
  /\ {d.total, d.power, d.sectorHeld, d.lots} \subseteq Nat
  /\ d.ref \in Nat \ {0}
  /\ d.confidence \in 0..100
  /\ \/ /\ d.side = "buy"
        /\ d.stop \in 1..(d.ref - 1)
        /\ 100 * (d.ref - d.stop) <= MaxStopPct * d.ref
        /\ d.sectorKnown => 100 * d.sectorHeld < d.total * MaxSectorPct
        /\ d.power > 0
     \/ d.side = "sell" /\ d.stop = NoStop /\ d.lots > 0

ASSUME SizingAssumption ==
  /\ {RiskPct, MaxPositionPct, MaxSectorPct, MaxStopPct} \subseteq 1..100
  /\ MaxPositionPct <= MaxSectorPct
  /\ MinOrder \in Nat \ {0} /\ MaxOrder \in Nat
  /\ ShareLots \in Nat \ {0}
  /\ Penalties \subseteq Nat
  /\ \A d \in Deals : Admitted(d)

VARIABLES
  deal,          \* signal and account of the cycle
  stage,         \* how far the cycle has come
  notional,      \* cents of the decision in force, 0 before there is one
  confidence,    \* confidence in force
  submit         \* what the payload asks for

vars == <<deal, stage, notional, confidence, submit>>

Stages ==
  {"signal",     \* the gates have passed
   "decided",    \* the risk engine has approved a size
   "penalised",  \* the critic approved at a lower confidence
   "reviewed",   \* the decision stands
   "planned",    \* a payload was built
   "rejected",   \* sizing rejected the order
   "blocked",    \* the critic blocked it
   "refused",    \* a live entry that no stop can cover
   "raised"}     \* run_cycle raised

NoPayload == [form |-> "none", amount |-> 0]

TypeOK ==
  /\ deal \in Deals
  /\ stage \in Stages
  /\ notional \in Nat
  /\ confidence \in 0..100
  /\ submit \in [form: {"none", "dollars", "shares"}, amount: Nat]

Init ==
  /\ deal \in Deals
  /\ stage = "signal"
  /\ notional = 0
  /\ confidence = deal.confidence
  /\ submit = NoPayload

(***************************************************************************)
(* Sizing.                                                                 *)
(***************************************************************************)
RoundHalfEven(n, d) ==
  LET floor == n \div d
  IN  IF 2 * (n % d) < d \/ (2 * (n % d) = d /\ floor % 2 = 0) THEN floor
      ELSE floor + 1

RiskBudget(d) == RoundHalfEven(d.total * RiskPct, 100)

\* Exposure that loses the budget between entry and stop, scaled by a percentage.
Exposure(d, scale) == (RiskBudget(d) * d.ref * scale) \div ((d.ref - d.stop) * 100)

\* A conviction of zero is taken for none given.
Scale(c) == IF c > 0 THEN c ELSE 100

SectorRoom(d) == Max({d.total * MaxSectorPct - 100 * d.sectorHeld, 0}) \div 100

PositionCap(d) == (d.total * MaxPositionPct) \div 100

\* Mutants: the sector or the buying power is forgotten.
Caps_NoSector(d) == {PositionCap(d), MaxOrder, d.power}
Caps_NoPower(d) ==
  {PositionCap(d), MaxOrder} \cup (IF d.sectorKnown THEN {SectorRoom(d)} ELSE {})

Caps(d) ==
  {PositionCap(d), MaxOrder, d.power}
    \cup (IF d.sectorKnown THEN {SectorRoom(d)} ELSE {})

\* size_position; flooring the minimum is taking the minimum of the floors.
Sized(d, c) == Min({Exposure(d, Scale(c))} \cup Caps(d))

\* Mutant: the proceeds are rounded up.
ExitNotional_Up(d) == (d.lots * d.ref + ShareLots - 1) \div ShareLots

ExitNotional(d) == (d.lots * d.ref) \div ShareLots

\* max_whole_share_price: the price above which no whole share is in reach.
WholeShareReach(d) ==
  Min({Exposure(d, 100), PositionCap(d), MaxOrder, d.power})

(***************************************************************************)
(* The risk engine.                                                        *)
(***************************************************************************)
End(s) == stage' = s /\ UNCHANGED <<deal, notional, confidence, submit>>

Decide(n, least) ==
  IF n < least THEN End("rejected")
  ELSE /\ stage' = "decided"
       /\ notional' = n
       /\ UNCHANGED <<deal, confidence, submit>>

BuildEntry ==
  /\ stage = "signal" /\ deal.side = "buy"
  /\ Decide(Sized(deal, deal.confidence), MinOrder)

BuildExit ==
  /\ stage = "signal" /\ deal.side = "sell"
  /\ Decide(ExitNotional(deal), 1)

(***************************************************************************)
(* The critic.                                                             *)
(***************************************************************************)
RisksTooMuch(d, n) ==
  /\ d.side = "buy"
  /\ n * (d.ref - d.stop) * 10000 > d.total * RiskPct * 105 * d.ref

\* Whichever side the order is on.
Unaffordable(d, n) == n > d.power
Concentrated(d, n) == 100 * n > d.total * MaxPositionPct

NearCeiling(d, n) ==
  ~Concentrated(d, n) /\ 1000 * n > 9 * d.total * MaxPositionPct

Blocks(d, n) == RisksTooMuch(d, n) \/ Unaffordable(d, n) \/ Concentrated(d, n)

\* Mutant: the adjustment is clamped from above only.
Adjusted_Negative(c, penalty) == Min({c, c - penalty})

Adjusted(c, penalty) == Max({0, Min({c, c - penalty})})

Critique(penalty) ==
  /\ stage = "decided"
  /\ IF Blocks(deal, notional) THEN End("blocked")
     ELSE LET c == Adjusted(confidence,
                            penalty + IF NearCeiling(deal, notional) THEN 5 ELSE 0)
          IN  /\ confidence' = c
              /\ stage' = IF c < confidence THEN "penalised" ELSE "reviewed"
              /\ UNCHANGED <<deal, notional, submit>>

(***************************************************************************)
(* The one re-size.  An exit keeps its size.                               *)
(***************************************************************************)
\* Mutant: the re-size is not told the sector.
Resized_NoSector ==
  IF deal.side = "buy"
    THEN Min({Exposure(deal, Scale(confidence))} \cup Caps_NoSector(deal))
  ELSE notional

Resized == IF deal.side = "buy" THEN Sized(deal, confidence) ELSE notional

Resize ==
  /\ stage = "penalised"
  /\ IF deal.side = "buy" /\ Resized < MinOrder THEN End("rejected")
     ELSE IF Resized > notional THEN End("raised")
     ELSE /\ stage' = "reviewed"
          /\ notional' = Resized
          /\ UNCHANGED <<deal, confidence, submit>>

(***************************************************************************)
(* The payload.                                                            *)
(***************************************************************************)

\* Mutant: at least one share passes for whole shares.
Coverable_OneShare(d, n) == d.lifecycle /\ n >= d.ref

\* A stop can cover the estimated quantity, and the caller will place it.
Coverable(d, n) == d.lifecycle /\ n % d.ref = 0

SharesOf(n, ref) == RoundHalfEven(n * ShareLots, ref)

BuildPayload ==
  /\ stage = "reviewed"
  /\ IF deal.side = "buy" /\ deal.mode = "live" /\ ~Coverable(deal, notional)
       THEN End("refused")
     ELSE /\ stage' = "planned"
          /\ submit' = IF deal.side = "buy"
                         THEN [form |-> "dollars", amount |-> notional]
                       ELSE [form |-> "shares", amount |-> SharesOf(notional, deal.ref)]
          /\ UNCHANGED <<deal, notional, confidence>>

Ended == stage \in {"planned", "rejected", "blocked", "refused", "raised"}

Done == Ended /\ UNCHANGED vars

Next ==
  \/ BuildEntry \/ BuildExit
  \/ \E penalty \in Penalties : Critique(penalty)
  \/ Resize \/ BuildPayload \/ Done

Spec == Init /\ [][Next]_vars

(***************************************************************************)
(* Properties.                                                             *)
(***************************************************************************)

\* Whatever was re-sized, a planned buy is within every limit of RiskConfig
\* and of the account, and risks no more than the budget and its tolerance.
BuyWithinLimits ==
  stage = "planned" /\ deal.side = "buy" =>
    /\ notional >= MinOrder /\ notional <= MaxOrder
    /\ deal.sectorKnown =>
         100 * (notional + deal.sectorHeld) <= deal.total * MaxSectorPct
    /\ ~Blocks(deal, notional)

\* The critic's arithmetic agrees with the sizing: it never blocks a buy the
\* engine sized.
CriticAgrees == stage = "blocked" => deal.side = "sell"

\* The re-size outgrows the reviewed order only for a conviction of zero.
RaisesOnlyAtZero == stage = "raised" => confidence = 0

\* An exit asks for no more shares than are held, and leaves less than a
\* cent's worth and half a lot.
ExitSellsWhatIsHeld ==
  stage = "planned" /\ deal.side = "sell" =>
    /\ submit.amount <= deal.lots
    /\ 2 * (deal.lots - submit.amount) * deal.ref < 2 * ShareLots + deal.ref

\* What max_whole_share_price reports is an upper bound of what is traded
\* live: a planned live buy is of whole shares priced at or under it.
LiveBuyWithinReach ==
  stage = "planned" /\ deal.side = "buy" /\ deal.mode = "live" =>
    /\ deal.ref <= WholeShareReach(deal)
    /\ SharesOf(submit.amount, deal.ref) % ShareLots = 0

(***************************************************************************)
(* What comments say and the code does not do.                             *)
(***************************************************************************)

\* A control never blocks closing a position (check_limits).
ExitStaysReachable == deal.side = "sell" => stage # "blocked"
=============================================================================
