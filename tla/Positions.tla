----------------------------- MODULE Positions -----------------------------
(***************************************************************************)
(* The values the journal and the broker share.  An entry stands for the   *)
(* `client_key` of one intended entry: the key derived from account,       *)
(* symbol, side, strategy and session date (risk/engine.py).  A quantity   *)
(* is a number of share units, of which some are a whole number of shares. *)
(***************************************************************************)
EXTENDS Integers

CONSTANTS
  Entries,          \* client keys of intended entries
  Quantities,       \* the share quantities that occur
  WholeQuantities   \* those that are a whole number of shares

ASSUME QuantitiesAssumption ==
  /\ Quantities \subseteq Nat \ {0}
  /\ WholeQuantities \subseteq Quantities

\* The stop level of a trade never changes once written, so the ref_id of a
\* protective order, derived from entry key, stop price and quantity, is the
\* pair of the entry and the quantity.
StopKeys == Entries \X Quantities
=============================================================================
