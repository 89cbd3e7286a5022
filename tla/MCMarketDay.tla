---------------------------- MODULE MCMarketDay ----------------------------
EXTENDS MarketDay

Bar(close, low) == [close |-> close, high |-> close + 100, low |-> low]

\* A calm decline and recovery whose first session dips and recovers, and a
\* slide too wild for any stop.
MCPaths ==
  <<<<Bar(100000, 97500), Bar(99600, 99500), Bar(99200, 99100), Bar(98600, 98500),
      Bar(99000, 98900), Bar(99600, 99500), Bar(99200, 99100), Bar(99800, 99700),
      Bar(100700, 100600), Bar(100100, 100000)>>,
    <<Bar(100000, 99900), Bar(106000, 105900), Bar(97000, 91000), Bar(94000, 91000),
      Bar(88000, 85000), Bar(82000, 79000), Bar(82000, 81900), Bar(79000, 76000),
      Bar(70000, 69900), Bar(67000, 64000)>>>>

MCSpecs ==
  [rsi |-> [kind |-> "rsi", lookback |-> 7, warmup |-> 3, period |-> 2],
   macd |-> [kind |-> "macd", lookback |-> 7, warmup |-> 5, fast |-> 1, slow |-> 3, signal |-> 3],
   sma_20 |-> [kind |-> "sma", lookback |-> 4, warmup |-> 0, period |-> 2],
   sma_50 |-> [kind |-> "sma", lookback |-> 7, warmup |-> 0, period |-> 3],
   sma_200 |-> [kind |-> "sma", lookback |-> 9, warmup |-> 0, period |-> 5],
   atr |-> [kind |-> "atr", lookback |-> 7, warmup |-> 4, period |-> 4]]

\* Days around a change of clocks, a holiday or an early close, with one
\* kind of data.
MCWindows ==
  {[first |-> Date(d[1], d[2], d[3]), last |-> Date(d[1], d[2], d[3]) + 1, path |-> 1, shift |-> d[4],
    quotes |-> {"extended"}, histories |-> {21}] :
     d \in {<<2026, 3, 9, 0>>, <<2026, 7, 2, 1>>, <<2026, 7, 3, 1>>, <<2026, 11, 26, 0>>,
            <<2027, 12, 31, 0>>, <<2028, 7, 3, 0>>}}
    \cup
  {[first |-> Date(2026, 7, 7), last |-> Date(2026, 7, 8), path |-> 1, shift |-> s,
    quotes |-> {"extended"}, histories |-> {8, 14, 21}] : s \in {0, 1}}
    \cup
  {[first |-> Date(2026, 7, 7), last |-> Date(2026, 7, 7), path |-> 1, shift |-> 0,
    quotes |-> QuoteKinds, histories |-> {21}],
   [first |-> Date(2026, 7, 7), last |-> Date(2026, 7, 7), path |-> 2, shift |-> 5,
    quotes |-> {"extended"}, histories |-> {21}]}

MCMoments == {1, 27, 29, 35, 39, 40}

Days(y, closures) == {Date(y, c[1], c[2]) : c \in closures}

\* The exchange's published holidays.
MCClosures ==
  Days(2026, {<<1, 1>>, <<1, 19>>, <<2, 16>>, <<4, 3>>, <<5, 25>>, <<6, 19>>, <<7, 3>>, <<9, 7>>,
              <<11, 26>>, <<12, 25>>})
    \cup Days(2027, {<<1, 1>>, <<1, 18>>, <<2, 15>>, <<3, 26>>, <<5, 31>>, <<6, 18>>, <<7, 5>>,
                     <<9, 6>>, <<11, 25>>, <<12, 24>>})
    \cup Days(2028, {<<1, 17>>, <<2, 21>>, <<4, 14>>, <<5, 29>>, <<6, 19>>, <<7, 4>>, <<9, 4>>,
                     <<11, 23>>, <<12, 25>>})

MCEarlyDays ==
  Days(2026, {<<11, 27>>, <<12, 24>>}) \cup Days(2027, {<<11, 26>>})
    \cup Days(2028, {<<7, 3>>, <<11, 24>>})

\* From two o'clock standard time to two o'clock daylight time.
MCSummerTime ==
  {<<HalfHours * Date(2026, 3, 8) + 14, HalfHours * Date(2026, 11, 1) + 12>>,
   <<HalfHours * Date(2027, 3, 14) + 14, HalfHours * Date(2027, 11, 7) + 12>>,
   <<HalfHours * Date(2028, 3, 12) + 14, HalfHours * Date(2028, 11, 5) + 12>>}

\* On every trading day the calendar is pinned for, the request of the
\* current contract brings the current indicators their windows.
ASSUME EnvelopeAssumption ==
  /\ HistoricalsLookback = 420
  /\ LET tradingDays == {d \in Date(2024, 10, 1)..Date(2028, 12, 31) : IsTradingDay(d)}
     IN \A d \in tradingDays : d >= Date(2026, 1, 1) => EnvelopeSuffices(tradingDays, d)

MCOldStops == {99000}
=============================================================================
