---------------------------- MODULE MCEntryGates ----------------------------
(***************************************************************************)
(* Three symbols, two of one sector: one reports on the first day and then *)
(* outside the blackout, one moves into its blackout on the last day, one  *)
(* is clear throughout.                                                    *)
(***************************************************************************)
EXTENDS EntryGates, TLC

CONSTANTS a, b, c, tech, retail

SomeSectors == a :> tech @@ b :> tech @@ c :> retail
SomeReports == a :> {0, 3} @@ b :> {2} @@ c :> {3}

Buy == [side |-> "buy", stop |-> "sane", reward |-> "enough", volume |-> "enough", tradable |-> TRUE, funds |-> TRUE, sector |-> TRUE]
Sell == [side |-> "sell", stop |-> "none", reward |-> "none", volume |-> "unknown", tradable |-> TRUE, funds |-> FALSE, sector |-> TRUE]

\* One thing wrong at a time.
SomeSignals ==
  {Buy, [Buy EXCEPT !.stop = "none"], [Buy EXCEPT !.reward = "poor"], [Buy EXCEPT !.funds = FALSE], [Buy EXCEPT !.sector = FALSE],
   Sell, [Sell EXCEPT !.tradable = FALSE]}

=============================================================================
