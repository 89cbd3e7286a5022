--------------------------- MODULE MCOrderSizing ---------------------------
(***************************************************************************)
(* Accounts of about $100 and $17, as risk.yaml is tuned for, and prices   *)
(* that keep the arithmetic of the checks within TLC's integers.           *)
(***************************************************************************)
EXTENDS OrderSizing, TLC

Buys ==
  [side: {"buy"}, mode: {"live", "shadow"}, lifecycle: BOOLEAN,
   total: {10000, 10050, 1750}, power: {300, 2100, 10000}, sectorKnown: BOOLEAN, sectorHeld: {0, 1300},
   ref: {500, 1000, 1600}, stop: {450, 475, 960, 1440}, confidence: {50, 55, 80, 100}, lots: {0}]

Sells ==
  [side: {"sell"}, mode: {"live"}, lifecycle: {FALSE},
   total: {10000, 1750}, power: {300, 10000}, sectorKnown: {TRUE}, sectorHeld: {0},
   ref: {333, 500, 1001}, stop: {NoStop}, confidence: {100},
   lots: {1, 333, 1000, 1999, 2500}]

SomeDeals == {d \in Buys \cup Sells : Admitted(d)}

\* Sums of the penalties of the critic: none, one, or several concerns.
SomePenalties == {0, 10, 15, 35, 55}
=============================================================================
