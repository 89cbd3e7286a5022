------------------------------ MODULE Snapshot ------------------------------
(***************************************************************************)
(* What market/snapshot.py makes of the answers of the market-data tools:  *)
(* the row of a symbol, the live price, the book, and the normalised       *)
(* earnings answer of models/market_snapshot.py.                           *)
(*                                                                         *)
(* Dates are day numbers.  Text, numbers and JSON nesting are reduced to   *)
(* whether the code can read them.                                         *)
(***************************************************************************)
EXTENDS Integers, Sequences

CONSTANTS
  NoDate,                  \* the date of an answer that carries no event
  AbsenceAuthoritative     \* whether a source without a future report says
                           \* that none is coming (EarningsCapabilities)

ASSUME SnapshotAssumption ==
  /\ NoDate \notin Nat
  /\ AbsenceAuthoritative \in BOOLEAN

(***************************************************************************)
(* Rows of an answer about several symbols.                                *)
(***************************************************************************)
First(S) == CHOOSE i \in S : \A j \in S : i <= j

\* The row that names the symbol, else the first row whatever it names.
FirstResult(rows, symbol) ==
  LET own == {i \in DOMAIN rows : rows[i].symbol = symbol}
  IN rows[IF own = {} THEN 1 ELSE First(own)]

(***************************************************************************)
(* The price.  A quote has a regular and an extended-hours print, each     *)
(* with a price and the venue's time, either of which may be absent.       *)
(***************************************************************************)
NoPrint == [price |-> NoDate, time |-> NoDate]

\* _select_last_price: the latest of the prints with a price and a time,
\* the regular one on a tie; without times the regular price of no known age.
SelectLastPrice(quote) ==
  LET priced == SelectSeq(<<quote.regular, quote.extended>>, LAMBDA p : p.price # NoDate)
      timed == SelectSeq(priced, LAMBDA p : p.time # NoDate)
  IN CASE priced = <<>> -> NoPrint
       [] priced # <<>> /\ timed = <<>> -> [priced[1] EXCEPT !.time = NoDate]
       [] OTHER -> IF Len(timed) = 2 /\ timed[2].time > timed[1].time THEN timed[2] ELSE timed[1]

(***************************************************************************)
(* Earnings.  A row is readable ("fine"), or its entry, report, date or    *)
(* details are not.                                                        *)
(***************************************************************************)
RowForms == {"fine", "notObject", "badReport", "badDate", "badDetail"}
Answers == {"missing", "notFound", "noList", "list"}

Statuses == {"upcoming", "none_scheduled", "unknown"}

Assessment(symbol, status, asOf, date) ==
  [symbol |-> symbol, status |-> status, asOf |-> asOf, date |-> date]

RowsOf(response, symbol) ==
  {r \in response.rows : r.form # "notObject" /\ r.symbol = symbol}

\* A row that leaves the whole answer unknown.  The details of a row are
\* read only when its report lies ahead.
Spoils(r, symbol, asOf) ==
  \/ r.form = "notObject"
  \/ /\ r.symbol = symbol
     /\ \/ r.form \in {"badReport", "badDate"}
        \/ r.form = "badDetail" /\ r.date >= asOf

DatesAhead(response, symbol, asOf) ==
  {r.date : r \in {x \in RowsOf(response, symbol) : x.date >= asOf}}

AssessEarnings(response, symbol, asOf) ==
  LET ahead == DatesAhead(response, symbol, asOf)
      ignorant ==
        \/ response.answer # "list"
        \/ \E r \in response.rows : Spoils(r, symbol, asOf)
        \/ RowsOf(response, symbol) = {}
        \/ ahead = {} /\ ~AbsenceAuthoritative
  IN IF ignorant THEN Assessment(symbol, "unknown", asOf, NoDate)
     ELSE IF ahead = {} THEN Assessment(symbol, "none_scheduled", asOf, NoDate)
     ELSE Assessment(symbol, "upcoming", asOf, First(ahead))
=============================================================================
