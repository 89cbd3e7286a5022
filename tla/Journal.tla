------------------------------ MODULE Journal ------------------------------
(***************************************************************************)
(* The two tables of the SQLite journal that the protective-stop lifecycle *)
(* reads and writes: `trades` and `protective_orders` of                   *)
(* journal/repository.py.  Every repository method opens a connection of   *)
(* its own and commits at its end, so each operator below is one           *)
(* transaction; a method that raises commits nothing, which is the         *)
(* operator's guard being false.                                           *)
(*                                                                         *)
(* Prices are reduced to where the stop lies relative to the fill.         *)
(***************************************************************************)
EXTENDS Positions

VARIABLES
  trades,           \* the trades table, one row per entry key
  stops             \* the protective_orders table, one row per stop key

journalVars == <<trades, stops>>

(***************************************************************************)
(* Rows.  An absent row is kept as a value so that a table is a total      *)
(* function of its unique key.                                             *)
(***************************************************************************)
TradeStatus == {"absent", "open", "closed"}
Modes == {"none", "shadow", "live"}

\* Where the recorded stop lies: no stop, below the fill, at or above it.
StopLevels == {"none", "below", "atOrAbove"}

TradeProtection ==
  {"NOT_REQUIRED", "UNAVAILABLE", "PENDING", "COMMITTED", "PROTECTED"}

TradeRow == [status: TradeStatus, mode: Modes, stop: StopLevels,
             quantity: Quantities \cup {0}, protection: TradeProtection]

NoTrade == [status |-> "absent", mode |-> "none", stop |-> "none",
            quantity |-> 0, protection |-> "NOT_REQUIRED"]

StopStates == {"absent", "SUBMITTED", "PROTECTED", "FAILED"}

JournalTypeOK ==
  /\ trades \in [Entries -> TradeRow]
  /\ stops \in [StopKeys -> StopStates]

JournalInit ==
  /\ trades = [e \in Entries |-> NoTrade]
  /\ stops = [k \in StopKeys |-> "absent"]

(***************************************************************************)
(* Queries.                                                                *)
(***************************************************************************)
KnownClientKeys == {e \in Entries : trades[e].status # "absent"}

OpenTrade(e) == trades[e].status = "open"

\* Mutant: any row of the entry counts.
HasProtectedStop_AnyRow(e) == \E q \in Quantities : stops[<<e, q>>] # "absent"

HasProtectedStop(e) == \E q \in Quantities : stops[<<e, q>>] = "PROTECTED"

\* Open live trades without a PROTECTED row: the list that blocks entries.
UnprotectedLivePositions ==
  {e \in Entries : /\ OpenTrade(e)
                   /\ trades[e].mode = "live"
                   /\ ~HasProtectedStop(e)}

\* Stops that were submitted and never resolved.
UnconfirmedProtection == {k \in StopKeys : stops[k] = "SUBMITTED"}

(***************************************************************************)
(* Transactions.                                                           *)
(***************************************************************************)
RecordTrade(e, mode, stop, quantity, protection) ==
  /\ e \notin KnownClientKeys
  /\ trades' = [trades EXCEPT ![e] =
       [status |-> "open", mode |-> mode, stop |-> stop,
        quantity |-> quantity, protection |-> protection]]
  /\ UNCHANGED stops

CloseTrade(e) ==
  /\ OpenTrade(e)
  /\ trades' = [trades EXCEPT ![e].status = "closed"]
  /\ UNCHANGED stops

\* Mutant: the row is left to be written once the reply is known.
RecordProtectionSubmitted_Later(k) ==
  stops[k] = "absent" /\ UNCHANGED journalVars

RecordProtectionSubmitted(k) ==
  /\ stops[k] = "absent"
  /\ stops' = [stops EXCEPT ![k] = "SUBMITTED"]
  /\ UNCHANGED trades

\* `withId` says whether the caller passes a non-empty broker order id.
Promotable(k, withId) == withId /\ k \in UnconfirmedProtection

\* Mutant: the broker's word for the order's state is stored.
RecordProtectionAccepted_BrokerState(k, withId) ==
  /\ Promotable(k, withId)
  /\ stops' = [stops EXCEPT ![k] = "working"]
  /\ UNCHANGED trades

RecordProtectionAccepted(k, withId) ==
  /\ Promotable(k, withId)
  /\ stops' = [stops EXCEPT ![k] = "PROTECTED"]
  /\ UNCHANGED trades

\* Mutant: any row may be marked failed.
RecordProtectionFailed_AnyRow(k) ==
  /\ stops[k] # "absent"
  /\ stops' = [stops EXCEPT ![k] = "FAILED"]
  /\ UNCHANGED trades

RecordProtectionFailed(k) ==
  /\ k \in UnconfirmedProtection
  /\ stops' = [stops EXCEPT ![k] = "FAILED"]
  /\ UNCHANGED trades

UpdateTradeProtection(e, state) ==
  /\ e \in KnownClientKeys
  /\ trades' = [trades EXCEPT ![e].protection = state]
  /\ UNCHANGED stops
=============================================================================
