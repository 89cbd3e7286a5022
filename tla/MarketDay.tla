----------------------------- MODULE MarketDay -----------------------------
(***************************************************************************)
(* Market data through the day: the exchange's clock, the agent that       *)
(* stamps a trading date (acquisition-spec), fetches bars and a quote      *)
(* under it and has them evaluated at any later time, and what the         *)
(* evaluation makes of them: indicators, the strategy's opinion, and the   *)
(* part of critic and preflight that looks at the clock and at the data    *)
(* (cli.py cmd_evaluate, market/snapshot.py build_snapshot,                *)
(* agents/critic.py, execution/executor.py build_order_payload).           *)
(*                                                                         *)
(* The clock stops at the Moments of each day of a Window of days.  The    *)
(* provider may not have the whole history, and may or may not list the    *)
(* running session's bar; it lists every finished one.                     *)
(***************************************************************************)
EXTENDS MarketSession, TrendPullback, Snapshot

CONSTANTS
  Windows,          \* first and last days to walk through, the prices of
                    \* the sessions and which of them is the first, the
                    \* kinds of quotes and the calendar days of history
  Moments,          \* half hours of a UTC day at which the clock stops
  Paths,            \* the prices of successive sessions
  OldStops,         \* stops of positions opened before the window
  HistoryDays,      \* calendar days of bars the agent asks for; a recently
                    \* listed symbol has fewer
  Closures, EarlyDays, SummerTime,     \* the exchange's published schedule
  NoDay, NoPayload

\* The smallest price: two percent of it are a unit.
Prices == {n \in Nat : n >= 50}

ASSUME MarketDayAssumption ==
  /\ \A w \in Windows :
       /\ w.first \in Int /\ w.last \in Int /\ w.first <= w.last
       /\ NewYear[2024] + 2 * HistoryDays < w.first /\ w.last < NewYear[2030]
       /\ w.histories \subseteq 0..HistoryDays
       /\ w.path \in DOMAIN Paths /\ w.shift \in Nat
  /\ \A p \in DOMAIN Paths :
       /\ Paths[p] # <<>>
       /\ Paths[p] \in Seq([close : Prices, high : Prices, low : Prices])
  /\ Moments \subseteq 0..(HalfHours - 1)
  /\ HistoryDays \in Nat /\ HistoryDays >= 4
  /\ NoDay \notin Int

\* The calendar by rule is the published one, on every day of the pinned years.
ASSUME ScheduleAssumption ==
  /\ SummerTime = {<<DstStart[y], DstEnd[y]>> : y \in PINNED_SESSION_YEARS}
  /\ \A y \in PINNED_SESSION_YEARS : \A d \in NewYear[y]..(NewYear[y + 1] - 1) :
       Weekday(d) < 5 => /\ d \in Closures <=> d \in MarketHolidays[y]
                         /\ d \in EarlyDays <=> d \in EarlyCloses[y]

VARIABLES
  window,
  now,            \* the instant
  plan,           \* the trading date the agent was given, or NoDay
  payload,        \* what it fetched under it, or NoPayload
  position,       \* the open position, if any
  verdict,        \* what the evaluation of this instant came to
  earlier         \* the date and indicators of one earlier evaluation

vars == <<window, now, plan, payload, position, verdict, earlier>>

(***************************************************************************)
(* The provider (external).                                                *)
(***************************************************************************)
SessionsOf(w) == {d \in (w.first - 2 * HistoryDays)..w.last : IsTradingDay(d)}

RankOf == [w \in Windows |-> [d \in SessionsOf(w) |-> Cardinality({e \in SessionsOf(w) : e <= d})]]

\* The bar of a session; while it runs its low is the last price.
BarOf(d, running) ==
  LET prices == Paths[window.path]
      bar == prices[((RankOf[window][d] + window.shift) % Len(prices)) + 1]
  IN [day |-> d, close |-> IF running THEN bar.low ELSE bar.close,
      high |-> bar.high, low |-> bar.low, interpolated |-> FALSE]

Begun(d) == ToEastern(now) >= HalfHours * d + REGULAR_OPEN

Ended(d) == ToEastern(now) >= HalfHours * d + SessionClose(d)

LatestSession ==
  LET today == MarketDate(now)
  IN CHOOSE d \in (today - 7)..today :
       IsTradingDay(d) /\ Begun(d) /\ \A e \in (d + 1)..today : ~(IsTradingDay(e) /\ Begun(e))

\* The bars since that day, with the running session's or without.
BarsSince(from, running) ==
  LET days == {d \in from..MarketDate(now) : IsTradingDay(d) /\ (Ended(d) \/ (running /\ Begun(d)))}
      order == InOrder(days, [d \in days |-> d])
  IN [i \in DOMAIN order |-> BarOf(order[i], ~Ended(order[i]))]

\* The regular print of the latest session; it may come with a later print
\* of the extended hours or without a time, or for a halted symbol.
RegularPrint ==
  LET d == LatestSession
  IN [price |-> BarOf(d, ~Ended(d)).close,
      time |-> IF Ended(d) THEN now - (ToEastern(now) - HalfHours * d - SessionClose(d)) ELSE now]

ExtendedPrint == [price |-> BarOf(LatestSession, TRUE).close, time |-> now]

QuoteKinds == {"plain", "extended", "untimed", "halted"}

Quote(kind) ==
  [regular |-> IF kind = "untimed" THEN [RegularPrint EXCEPT !.time = NoDate] ELSE RegularPrint,
   extended |-> IF kind = "extended" THEN ExtendedPrint ELSE NoPrint,
   active |-> kind # "halted"]

(***************************************************************************)
(* build_snapshot, and what follows from it at this instant.               *)
(***************************************************************************)
BuildSnapshot ==
  LET print == SelectLastPrice(payload.quote)
  IN [bars |-> payload.bars, tradable |-> payload.quote.active,
      last |-> IF print = NoPrint THEN Last(payload.bars).close ELSE print.price,
      quoteAsOf |-> print.time,
      ind |-> DeriveIndicators(payload.bars, plan)]

\* A live entry is one of a caller that promises post-fill protection and
\* has no uncovered position; sizes, caps and keys are left to other modules.

\* The signal carries no more risk than max_stop_pct (limits.py).
StopAdmitted(s, signal) ==
  0 < signal.stop /\ 100 * (ReferencePrice(s) - signal.stop) <= MaxStop * ReferencePrice(s)

\* critique's checks of age and completeness and preflight's of age and
\* drift, of a clock whose steps are longer than any tolerance.
DataAdmitted(s, signal) ==
  /\ s.quoteAsOf = now
  /\ 1000 * Abs(s.last - ReferencePrice(s)) <= 5 * ReferencePrice(s)
  /\ Known(s.ind.value, {"rsi", "macd", "sma_20", "sma_50", "sma_200"})
  /\ signal.strength = "enter" => AllowsLongEntry(SymbolRegime(ReferencePrice(s), s.ind.value))

OrderBuilt(s, signal, mode) ==
  /\ signal.strength \in {"enter", "exit"}
  /\ signal.strength = "enter" => StopAdmitted(s, signal)
  /\ DataAdmitted(s, signal)
  /\ mode = "live" => SessionStatus(now) = "open"

(***************************************************************************)
(* Behaviour.                                                              *)
(***************************************************************************)
NoVerdict == [mode |-> "none", snapshot |-> NoPayload, signal |-> NoSignal, order |-> FALSE]

NoDerivation == [date |-> NoDay, ind |-> Underived]

Flat == [held |-> FALSE, stop |-> Missing]

Held(stop) == [held |-> TRUE, stop |-> stop]

Init ==
  /\ window \in Windows
  /\ now = HalfHours * window.first
  /\ plan = NoDay
  /\ payload = NoPayload
  /\ position \in {Flat} \cup {Held(stop) : stop \in OldStops}
  /\ verdict = NoVerdict
  /\ earlier = NoDerivation

Tick ==
  /\ \E m \in Moments, d \in {0, 1} :
       /\ now' = HalfHours * (UtcDate(now) + d) + m
       /\ now' > now
       /\ \A n \in (now + 1)..(now' - 1) : n % HalfHours \notin Moments
  /\ UtcDate(now') <= window.last
  /\ verdict' = NoVerdict
  /\ UNCHANGED <<window, plan, payload, position, earlier>>

\* Nothing ties the trading date to a clock: the agent takes the exchange's
\* date or that of UTC, and any evaluation may use an older one.
Plan(date) ==
  /\ date \in {MarketDate(now), UtcDate(now)}
  /\ plan' = date
  /\ payload' = NoPayload
  /\ verdict' = NoVerdict
  /\ UNCHANGED <<window, now, position, earlier>>

Fetch(history, running, kind) ==
  /\ plan # NoDay
  /\ payload = NoPayload
  /\ payload' = [bars |-> BarsSince(plan - history, running), quote |-> Quote(kind)]
  /\ verdict' = NoVerdict
  /\ UNCHANGED <<window, now, plan, position, earlier>>

\* One run of evaluate.  A live order is taken as placed and filled; a
\* shadow run is one with --dry-run, which leaves nothing behind.  The stop
\* comes from the journal, when it can be read.
Decide(s, mode, journalReadable) ==
  LET signal == Evaluate(s, position.held, IF journalReadable THEN position.stop ELSE Missing)
      order == OrderBuilt(s, signal, mode)
  IN /\ verdict' = [mode |-> mode, snapshot |-> s, signal |-> signal, order |-> order]
     /\ position' = IF mode = "shadow" \/ ~order THEN position
                    ELSE IF signal.strength = "enter" THEN Held(signal.stop) ELSE Flat

EvaluateBundle ==
  /\ payload # NoPayload
  /\ verdict = NoVerdict
  /\ LET s == BuildSnapshot
     IN /\ \E mode \in {"shadow", "live"}, readable \in BOOLEAN : Decide(s, mode, readable)
        /\ earlier' \in IF earlier = NoDerivation
                       THEN {earlier, [date |-> plan, ind |-> s.ind]} ELSE {earlier}
  /\ UNCHANGED <<window, now, plan, payload>>

Next ==
  \/ Tick
  \/ \E date \in {MarketDate(now), UtcDate(now)} : Plan(date)
  \/ \E history \in window.histories, running \in BOOLEAN, kind \in window.quotes :
       Fetch(history, running, kind)
  \/ EvaluateBundle

Spec == Init /\ [][Next]_vars

(***************************************************************************)
(* Properties.                                                             *)
(***************************************************************************)
PublishedOpen(instant) ==
  LET offset == IF \E s \in SummerTime : s[1] <= instant /\ instant < s[2] THEN EDT ELSE EST
      day == (instant + offset) \div HalfHours
      time == (instant + offset) % HalfHours
  IN /\ Weekday(day) < 5
     /\ day \notin Closures
     /\ 19 <= time
     /\ time < IF day \in EarlyDays THEN 26 ELSE 32

\* A live order is built only while the exchange is open by its published
\* schedule, whenever its bundle was planned and fetched, and at a price
\* printed then (market_session.py, preflight).
LiveOnlyInSession ==
  verdict.mode = "live" /\ verdict.order =>
    PublishedOpen(now) /\ verdict.snapshot.quoteAsOf = now

\* Two evaluations under one trading date see the same indicators, or one
\* lacks them: neither the length of the history nor the bars of that date
\* and after it move a value.  And no indicator is computed through a session
\* that was still running, be the date New York's or that of UTC
\* (indicator_derivation.py).
SameDateSameIndicators ==
  verdict # NoVerdict =>
    LET ind == verdict.snapshot.ind
    IN /\ ind.asOf = Missing \/ Ended(ind.asOf)
       /\ plan = earlier.date =>
            \A k \in Keys : Missing \in {ind.value[k], earlier.ind.value[k]} \/ ind.value[k] = earlier.ind.value[k]

\* An entry rests on all of its conditions, judged once more from the same
\* values, and its stop stays below the price; one that the risk gate lets
\* through never hides more volatility than the ceiling (trend_pullback.py,
\* stops.py, indicator_comparison.py).
EntryJustified ==
  verdict.signal.strength = "enter" =>
    LET s == verdict.snapshot
        price == ReferencePrice(s)
        flags == DecisionFlags(price, s.ind.value)
    IN /\ \A k \in DOMAIN flags : flags[k] = "yes"
       /\ AllowsLongEntry(SymbolRegime(price, s.ind.value))
       /\ 0 < verdict.signal.stop /\ verdict.signal.stop < price
       /\ StopAdmitted(s, verdict.signal) => 100 * RawDistance(price, s.ind.value) <= MaxStop * price

\* The premise an entry rests on holds when it is made: "A close below the
\* 50-day breaks the uptrend premise this trade rests on" (README.md,
\* trend_pullback.py), and the exit rule says the same.
EntryPremiseHolds ==
  verdict.signal.strength = "enter" =>
    "premise" \notin ExitReasons(verdict.snapshot, verdict.signal.stop)
=============================================================================
