----------------------------- MODULE Indicators -----------------------------
(***************************************************************************)
(* From the bars of one payload to the strategy's indicators: the formulas *)
(* (market/local_indicators.py), the bars that count and the window of     *)
(* each indicator (market/indicator_derivation.py), and how far back the   *)
(* payload is asked for (market/acquisition.py).                           *)
(*                                                                         *)
(* Prices and averages are integers in a unit far below a cent, and        *)
(* divisions round down to it; an RSI is the pair of its average gain and  *)
(* loss.                                                                   *)
(***************************************************************************)
EXTENDS Ordering, SequencesExt

CONSTANTS
  Specs,       \* the derivation profile: a specification for each indicator
  Missing      \* no value

Keys == {"rsi", "macd", "sma_20", "sma_50", "sma_200", "atr"}

Averages == {"sma_20", "sma_50", "sma_200"}

ASSUME SpecsAssumption ==
  /\ \A k \in Keys : Specs[k].lookback \in Nat /\ Specs[k].warmup \in Nat
  /\ \A k \in Keys : Specs[k].kind = IF k \in Averages THEN "sma" ELSE k
  /\ \A k \in Keys \ {"macd"} : Specs[k].period \in Nat \ {0}
  /\ {Specs["macd"].fast, Specs["macd"].slow, Specs["macd"].signal} \subseteq Nat \ {0}

MeanOver(values, from, to) == SumFunctionOnSet(values, from..to) \div (to - from + 1)

Larger(x, y) == IF x > y THEN x ELSE y

Abs(x) == Larger(x, -x)

(***************************************************************************)
(* Formulas.  A series starts where its average is first defined.          *)
(***************************************************************************)
Sma(values, period) ==
  IF Len(values) < period THEN Missing
  ELSE MeanOver(values, Len(values) - period + 1, Len(values))

\* An average seeded with a mean that then weighs new and old as asked.
Smoothed(values, period, new, old) ==
  IF Len(values) < period THEN <<>>
  ELSE LET series[i \in period..Len(values)] ==
             IF i = period THEN <<MeanOver(values, 1, period)>>
             ELSE LET before == series[i - 1]
                  IN Append(before, (new * values[i] + old * Last(before)) \div (new + old))
       IN series[Len(values)]

EmaSeries(values, period) == Smoothed(values, period, 2, period - 1)

WilderSeries(values, period) == Smoothed(values, period, 1, period - 1)

RsiSeries(closes, period) ==
  LET deltas == [i \in 1..(Len(closes) - 1) |-> closes[i + 1] - closes[i]]
      gains == WilderSeries([i \in DOMAIN deltas |-> Larger(deltas[i], 0)], period)
      losses == WilderSeries([i \in DOMAIN deltas |-> Larger(-deltas[i], 0)], period)
  IN IF closes = <<>> THEN <<>> ELSE [i \in DOMAIN gains |-> <<gains[i], losses[i]>>]

AtrSeries(bars, period) ==
  LET TrueRange(bar, before) ==
        Larger(bar.high - bar.low,
               Larger(Abs(bar.high - before.close), Abs(bar.low - before.close)))
  IN IF bars = <<>> THEN <<>>
     ELSE WilderSeries([i \in 1..(Len(bars) - 1) |-> TrueRange(bars[i + 1], bars[i])], period)

\* The histograms; the series are aligned at their ends.
MacdSeries(closes, fast, slow, signal) ==
  LET quick == EmaSeries(closes, fast)
      late == EmaSeries(closes, slow)
      line == [i \in DOMAIN late |-> quick[i + Len(quick) - Len(late)] - late[i]]
      smooth == EmaSeries(line, signal)
  IN [i \in DOMAIN smooth |-> line[i + Len(line) - Len(smooth)] - smooth[i]]

\* RSI >= x: no losses are 100, no gains 0, neither 50.
RsiAtLeast(rsi, x) ==
  IF rsi = <<0, 0>> THEN 50 >= x ELSE 100 * rsi[1] >= x * (rsi[1] + rsi[2])

RsiAtMost(rsi, x) ==
  IF rsi = <<0, 0>> THEN 50 <= x ELSE 100 * rsi[1] <= x * (rsi[1] + rsi[2])

(***************************************************************************)
(* Bars that count.                                                        *)
(***************************************************************************)
\* Mutant: the bar of the trading date counts as well.
CompletedBars_Today(bars, date) ==
  LET eligible == {i \in DOMAIN bars : ~bars[i].interpolated /\ bars[i].day <= date}
      places == InOrder(eligible, [i \in eligible |-> (Len(bars) + 1) * bars[i].day + i])
  IN [n \in DOMAIN places |-> bars[places[n]]]

\* By day and, as the sort is stable, by place.
CompletedBars(bars, date) ==
  LET eligible == {i \in DOMAIN bars : ~bars[i].interpolated /\ bars[i].day < date}
      places == InOrder(eligible, [i \in eligible |-> (Len(bars) + 1) * bars[i].day + i])
  IN [n \in DOMAIN places |-> bars[places[n]]]

Duplicated(bars) == Cardinality({bars[i].day : i \in DOMAIN bars}) < Len(bars)

\* The bars since the window's start and the warm-up before it; nothing if
\* the payload does not reach that far.
Window(spec, eligible, date) ==
  LET boundary == date - spec.lookback
      first == Cardinality({i \in DOMAIN eligible : eligible[i].day < boundary}) + 1
      start == first - spec.warmup
  IN IF eligible = <<>> THEN <<>>
     ELSE IF eligible[1].day > boundary \/ start < 1 THEN <<>>
     ELSE SubSeq(eligible, start, Len(eligible))

Closes(bars) == [i \in DOMAIN bars |-> bars[i].close]

\* The newest two points; a series of one counts as none.
LastTwo(series) ==
  IF Len(series) < 2 THEN Missing ELSE <<series[Len(series)], series[Len(series) - 1]>>

Value(spec, bars) ==
  CASE spec.kind = "sma" -> Sma(Closes(bars), spec.period)
    [] spec.kind = "rsi" -> LastTwo(RsiSeries(Closes(bars), spec.period))
    [] spec.kind = "atr" ->
         LET series == AtrSeries(bars, spec.period)
         IN IF series = <<>> THEN Missing ELSE Last(series)
    [] spec.kind = "macd" -> LastTwo(MacdSeries(Closes(bars), spec.fast, spec.slow, spec.signal))

(***************************************************************************)
(* derive_indicators.                                                      *)
(***************************************************************************)
Underived == [asOf |-> Missing, value |-> [k \in Keys |-> Missing]]

DeriveIndicators(bars, date) ==
  LET eligible == CompletedBars(bars, date)
  IN IF eligible = <<>> \/ Duplicated(eligible) THEN Underived
     ELSE LET Of(k) == Value(Specs[k], Window(Specs[k], eligible, date))
          IN [asOf |-> Last(eligible).day,
              value |-> [rsi |-> Of("rsi"), macd |-> Of("macd"), sma_20 |-> Of("sma_20"),
                         sma_50 |-> Of("sma_50"), sma_200 |-> Of("sma_200"), atr |-> Of("atr")]]

(***************************************************************************)
(* The contract with the provider.                                         *)
(***************************************************************************)
CeilingOf(a, b) == (a + b - 1) \div b

RequiredCalendarDays(minBars) == CeilingOf(365 * minBars, 252) + 10

PinnedLookback(minBars) == 30 * CeilingOf(Larger(RequiredCalendarDays(minBars), 90), 30)

\* CURRENT_ACQUISITION asks for the bars of this many days.
HistoricalsLookback == PinnedLookback(277)

\* CURRENT_DERIVATION, with the bars each formula needs.
CurrentSpecs ==
  {[key |-> "rsi", lookback |-> 180, warmup |-> 15, bars |-> 16],
   [key |-> "macd", lookback |-> 210, warmup |-> 34, bars |-> 35],
   [key |-> "sma_20", lookback |-> 90, warmup |-> 0, bars |-> 20],
   [key |-> "sma_50", lookback |-> 90, warmup |-> 0, bars |-> 50],
   [key |-> "sma_200", lookback |-> 330, warmup |-> 0, bars |-> 200],
   [key |-> "atr", lookback |-> 180, warmup |-> 14, bars |-> 15]}

\* The request brings every indicator a full window on that date.
EnvelopeSuffices(tradingDays, date) ==
  LET history == SelectSeq([i \in 1..HistoricalsLookback |-> [day |-> date - HistoricalsLookback + i - 1]],
                           LAMBDA b : b.day \in tradingDays)
  IN \A spec \in CurrentSpecs : Len(Window(spec, history, date)) >= spec.bars
=============================================================================
