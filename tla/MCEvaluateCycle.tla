-------------------------- MODULE MCEvaluateCycle --------------------------
(***************************************************************************)
(* Two processes on one symbol.  The strict limits trip the switch at the  *)
(* first unit of loss, the loose ones at the second.                       *)
(***************************************************************************)
EXTENDS EvaluateCycle, TLC

CONSTANTS strict, loose, aapl

KillOf(limits) == IF limits = strict THEN 1 ELSE 2

Entry ==
  [sound |-> TRUE, symbol |-> aapl, mode |-> "shadow", dry |-> FALSE, signal |-> "buy",
   loss |-> 0, holding |-> "none", clear |-> TRUE, critic |-> TRUE, quote |-> TRUE]

Exit == [Entry EXCEPT !.signal = "sell", !.holding = "shares", !.mode = "live"]

SomeBundles ==
  {Entry, [Exit EXCEPT !.loss = 1], [Exit EXCEPT !.loss = 1, !.mode = "shadow"],
   [Exit EXCEPT !.loss = 2, !.dry = TRUE], [Entry EXCEPT !.sound = FALSE]}

Alike == Permutations(Cycles)
=============================================================================
