--------------------------- MODULE TrendPullback ---------------------------
(***************************************************************************)
(* The strategy (strategies/trend_pullback.py) with the predicates, the    *)
(* regime and the stop it is made of (market/signals.py,                   *)
(* market/symbol_regime.py, strategies/stops.py), and the second           *)
(* derivation of its conditions that validation uses                       *)
(* (market/indicator_comparison.py).                                       *)
(*                                                                         *)
(* A judgement is "yes", "no", or "unknown" when a value is missing.       *)
(* Confidence and texts are left out: the score starts at its floor and is *)
(* only added to, so the floor never turns an entry away.                  *)
(***************************************************************************)
EXTENDS Indicators

\* DEFAULTS, in percent.
RsiFloor == 30
RsiCeiling == 45
MaxPullback == 12
AtrMultiple == 2
MinStop == 2
MaxStop == 12
FlatStop == 5
ExitRsi == 72
StructureShare == 99

\* reference_price: the close of the newest bar, else the quote.
ReferencePrice(s) == IF s.bars = <<>> THEN s.last ELSE Last(s.bars).close

(***************************************************************************)
(* signals.py.                                                             *)
(***************************************************************************)
Judge(known, holds) == IF ~known THEN "unknown" ELSE IF holds THEN "yes" ELSE "no"

Known(v, keys) == \A k \in keys : v[k] # Missing

AboveLongTermTrend(price, v) ==
  IF Known(v, {"sma_200"}) THEN Judge(TRUE, price > v["sma_200"]) ELSE "unknown"

TrendStackBullish(v) ==
  IF Known(v, {"sma_50", "sma_200"}) THEN Judge(TRUE, v["sma_50"] > v["sma_200"]) ELSE "unknown"

InPullback(price, v) ==
  IF Known(v, {"sma_20"}) THEN Judge(TRUE, price < v["sma_20"]) ELSE "unknown"

RsiInBand(v) ==
  IF Known(v, {"rsi"})
  THEN Judge(TRUE, RsiAtLeast(v["rsi"][1], RsiFloor) /\ RsiAtMost(v["rsi"][1], RsiCeiling))
  ELSE "unknown"

MomentumStabilizing(v) ==
  IF Known(v, {"macd"}) THEN Judge(TRUE, v["macd"][1] > v["macd"][2]) ELSE "unknown"

WithinDepth(price, v) ==
  IF Known(v, {"sma_20"}) /\ v["sma_20"] # 0
  THEN Judge(TRUE, 100 * Abs(price - v["sma_20"]) <= MaxPullback * v["sma_20"])
  ELSE "unknown"

\* classify_symbol_regime.
SymbolRegime(price, v) ==
  LET long == AboveLongTermTrend(price, v)
      stack == TrendStackBullish(v)
  IN CASE ~Known(v, {"sma_20", "sma_50", "sma_200"}) -> "unknown"
       [] long = "yes" /\ stack = "yes" ->
            IF price < v["sma_20"] THEN "pullback_in_uptrend" ELSE "uptrend"
       [] long = "no" /\ stack = "no" -> "downtrend"
       [] OTHER -> "range"

AllowsLongEntry(regime) == regime \in {"uptrend", "pullback_in_uptrend"}

(***************************************************************************)
(* stops.py.                                                               *)
(***************************************************************************)
Percent(x, price) == (x * price) \div 100

\* The distance volatility asks for, before any bound.
RawDistance(price, v) ==
  IF Known(v, {"atr"}) /\ v["atr"] > 0 THEN AtrMultiple * v["atr"] ELSE Percent(FlatStop, price)

\* build_stop, with the 50-day as the structure: volatility within its
\* bounds, and a structure below it widens the stop past them.
BuildStop(price, v) ==
  LET raw == RawDistance(price, v)
      bounded == IF raw < Percent(MinStop, price) THEN Percent(MinStop, price)
                 ELSE IF raw > Percent(MaxStop, price) THEN Percent(MaxStop, price) ELSE raw
      structure == IF Known(v, {"sma_50"}) /\ v["sma_50"] < price
                   THEN Percent(StructureShare, v["sma_50"]) ELSE 0
      widened == 0 < structure /\ structure < price - bounded
  IN [price |-> IF widened THEN structure ELSE price - bounded,
      tooVolatile |-> raw > Percent(MaxStop, price) /\ ~widened]

(***************************************************************************)
(* evaluate.                                                               *)
(***************************************************************************)
Conditions(price, v) ==
  [trend |-> AboveLongTermTrend(price, v),
   stack |-> TrendStackBullish(v),
   pullback |-> InPullback(price, v),
   rsi |-> RsiInBand(v),
   momentum |-> MomentumStabilizing(v),
   depth |-> WithinDepth(price, v),
   volatility |-> Judge(TRUE, ~BuildStop(price, v).tooVolatile)]

NoSignal == [strength |-> "none", stop |-> 0, reasons |-> {}]

\* Mutant: what cannot be judged does not stand in the way.
EvaluateEntry_UnknownPasses(s) ==
  LET price == ReferencePrice(s)
      met == Conditions(price, s.ind.value)
  IN IF \A k \in DOMAIN met : met[k] # "no"
     THEN [strength |-> "enter", stop |-> BuildStop(price, s.ind.value).price, reasons |-> DOMAIN met]
     ELSE NoSignal

EvaluateEntry(s) ==
  LET price == ReferencePrice(s)
      met == Conditions(price, s.ind.value)
      passed == {k \in DOMAIN met : met[k] = "yes"}
  IN CASE passed = DOMAIN met ->
            [strength |-> "enter", stop |-> BuildStop(price, s.ind.value).price, reasons |-> passed]
       [] {"trend", "stack", "pullback"} \subseteq passed /\ passed # DOMAIN met ->
            [strength |-> "watch", stop |-> 0, reasons |-> passed]
       [] OTHER -> NoSignal

\* The stop, when the journal has one, against the live price and then the
\* low of the newest bar; the lost 50-day and the exhausted RSI against the
\* reference.
ExitReasons(s, stop) ==
  LET price == ReferencePrice(s)
      v == s.ind.value
  IN (IF stop = Missing THEN {}
      ELSE IF s.last <= stop THEN {"stop"}
      ELSE IF s.bars # <<>> /\ Last(s.bars).low <= stop THEN {"intrabar"} ELSE {})
       \cup (IF Known(v, {"sma_50"}) /\ price < v["sma_50"] THEN {"premise"} ELSE {})
       \cup (IF Known(v, {"rsi"}) /\ RsiAtLeast(v["rsi"][1], ExitRsi) THEN {"exhausted"} ELSE {})

EvaluateExit(s, stop) ==
  LET reasons == ExitReasons(s, stop)
  IN IF reasons = {} THEN NoSignal ELSE [strength |-> "exit", stop |-> stop, reasons |-> reasons]

Evaluate(s, holds, stop) ==
  CASE ~s.tradable -> NoSignal
    [] s.tradable /\ holds -> EvaluateExit(s, stop)
    [] OTHER -> EvaluateEntry(s)

(***************************************************************************)
(* decision_flags of indicator_comparison.py: the conditions once more,    *)
(* from the values of one side.                                            *)
(***************************************************************************)
DecisionFlags(price, v) ==
  [trend |-> IF v["sma_200"] = Missing THEN "unknown" ELSE Judge(TRUE, price > v["sma_200"]),
   stack |-> IF Missing \in {v["sma_50"], v["sma_200"]} THEN "unknown"
             ELSE Judge(TRUE, v["sma_50"] > v["sma_200"]),
   pullback |-> IF v["sma_20"] = Missing THEN "unknown" ELSE Judge(TRUE, price < v["sma_20"]),
   depth |-> IF v["sma_20"] \in {Missing, 0} THEN "unknown"
             ELSE Judge(TRUE, 100 * Abs(price - v["sma_20"]) <= MaxPullback * v["sma_20"]),
   rsi |-> IF v["rsi"] = Missing THEN "unknown"
           ELSE Judge(TRUE, RsiAtLeast(v["rsi"][1], RsiFloor) /\ RsiAtMost(v["rsi"][1], RsiCeiling)),
   momentum |-> IF v["macd"] = Missing THEN "unknown" ELSE Judge(TRUE, v["macd"][1] > v["macd"][2]),
   volatility |-> IF price <= 0 THEN "unknown" ELSE Judge(TRUE, ~BuildStop(price, v).tooVolatile)]
=============================================================================
