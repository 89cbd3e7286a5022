----------------------------- MODULE EntryGates -----------------------------
(***************************************************************************)
(* The gates of risk/limits.py over several days: cycles that look at the  *)
(* account and at the earnings source, pass the gates, and have an order   *)
(* placed, while orders fill, positions are closed, losses grow and days   *)
(* go by between those steps.                                              *)
(*                                                                         *)
(* Values and exposures are in units of the account, so that a percentage  *)
(* of total_value is a constant.  The stop, the reward, the volume and the *)
(* buying power are reduced to what a gate sees.  The kill switch, whose   *)
(* threshold lies beyond the daily limit, is in EvaluateCycle.  Every      *)
(* cycle has a journal it can read.                                        *)
(***************************************************************************)
EXTENDS Snapshot, FiniteSets, FiniteSetsExt

CONSTANTS
  Symbols, Cycles, NoSymbol,
  SectorOf,                  \* the sector of a symbol
  Reports,                   \* the days a symbol reports on
  MaxOpenPositions, MaxExposure, MaxSector, MaxPosition,    \* RiskConfig
  BlackoutDays, CooldownDays,
  NeverDay,                  \* the day of a losing exit that never was
  Signals,                   \* what strategy, snapshot and cash may say
  LastDay, MaxExits          \* bounds

ASSUME GatesAssumption ==
  /\ IsFiniteSet(Symbols) /\ NoSymbol \notin Symbols
  /\ Reports \in [Symbols -> SUBSET Nat]
  /\ {MaxOpenPositions, MaxExposure, MaxSector, MaxPosition} \subseteq Nat \ {0}
  /\ MaxPosition <= MaxSector
  /\ {BlackoutDays, CooldownDays, LastDay, MaxExits} \subseteq Nat
  /\ NeverDay \notin Nat
  /\ \A signal \in Signals :
       /\ signal.side \in {"buy", "sell"}
       /\ {signal.tradable, signal.funds, signal.sector} \subseteq BOOLEAN

VARIABLES
  day,          \* the UTC date of the cycles
  held,         \* the account's positions: exposure by symbol
  orders,       \* its open orders: exposure asked for by symbol
  loss,         \* whether the day's realised loss has reached its limit
  exits,        \* the journal's closed trades
  cycle,        \* what each cycle has seen and decided
  blind         \* an approval did not see an order on its way, or the sector

vars == <<day, held, orders, loss, exits, cycle, blind>>

(***************************************************************************)
(* The account as a cycle sees it: AccountState.                           *)
(***************************************************************************)
Losses == {"small", "limit"}

Account == [held |-> held, orders |-> {s \in Symbols : orders[s] > 0}, loss |-> loss]

OpenPositions(a) == {s \in Symbols : a.held[s] > 0}

Exposure(a) == SumFunctionOnSet(a.held, Symbols)

SectorExposure(a, sector) == SumFunctionOnSet(a.held, {s \in Symbols : SectorOf[s] = sector})

LastLosingExit(s) ==
  LET lost == {x.day : x \in {y \in exits : y.symbol = s /\ y.lost}}
  IN IF lost = {} THEN NeverDay ELSE CHOOSE d \in lost : \A e \in lost : e <= d

(***************************************************************************)
(* The gates.  A signal says which side, how the stop and the reward are   *)
(* to the limits, what the snapshot says of volume and trading, whether it *)
(* carries the sector, and whether there is buying power.                  *)
(***************************************************************************)
\* Mutant: the report of the last day of the window passes.
EarningsClear_OffByOne(a, s, today) ==
  /\ a.symbol = s /\ a.asOf = today
  /\ a.status = "upcoming" /\ a.date - today >= 0
  /\ ~ (a.date - today \in 0..(BlackoutDays - 1))

\* The paths of the blackout gate that do not breach.
EarningsClear(a, s, today) ==
  /\ a.symbol = s
  /\ a.asOf = today
  /\ \/ a.status = "none_scheduled" /\ AbsenceAuthoritative
     \/ /\ a.status = "upcoming"
        /\ a.date - today >= 0
        /\ ~ (a.date - today \in 0..BlackoutDays)

\* Mutant: the last day of the cooldown is free.
Cooled_OffByOne(lastLoss, today) ==
  lastLoss # NeverDay /\ CooldownDays > 0 => today - lastLoss >= CooldownDays - 1

Cooled(lastLoss, today) ==
  lastLoss # NeverDay /\ CooldownDays > 0 => today - lastLoss >= CooldownDays

SectorRoom(signal, a, s) ==
  signal.sector => SectorExposure(a, SectorOf[s]) < MaxSector

\* Mutant: one position too many.
PortfolioRoom_OffByOne(a) ==
  /\ a.loss = "small"
  /\ Cardinality(OpenPositions(a)) <= MaxOpenPositions
  /\ Exposure(a) < MaxExposure

PortfolioRoom(a) ==
  /\ a.loss = "small"
  /\ Cardinality(OpenPositions(a)) < MaxOpenPositions
  /\ Exposure(a) < MaxExposure

SetupSane(signal) ==
  signal.stop = "sane" /\ signal.reward = "enough" /\ signal.volume # "thin" /\ signal.funds

ExitAllowed(a, s) == a.held[s] > 0

CheckLimits(signal, s, a, evidence, halted, lastLoss, today) ==
  /\ ~halted
  /\ signal.tradable
  /\ IF signal.side = "sell" THEN ExitAllowed(a, s)
     ELSE /\ PortfolioRoom(a)
          /\ SectorRoom(signal, a, s)
          /\ a.held[s] = 0
          /\ s \notin a.orders
          /\ Cooled(lastLoss, today)
          /\ EarningsClear(evidence, s, today)
          /\ SetupSane(signal)

\* Mutant: the ceiling of a position is forgotten.
Sizes_SectorOnly(signal, a, s) ==
  {n \in 1..MaxSector : signal.sector => SectorExposure(a, SectorOf[s]) + n <= MaxSector}

\* What size_position may ask for: every cap it applies is one of these.
Sizes(signal, a, s) ==
  {n \in 1..MaxPosition : signal.sector => SectorExposure(a, SectorOf[s]) + n <= MaxSector}

(***************************************************************************)
(* What get_earnings_results may answer on a day for a symbol: its reports *)
(* (with other companies' rows or without), the past ones only, rows that  *)
(* cannot be read, or nothing of use; never a later report without the     *)
(* nearest one.                                                            *)
(***************************************************************************)
Row(s, d, form) == [symbol |-> s, date |-> d, form |-> form]

FullRows(s) == {Row(s, d, "fine") : d \in Reports[s]}

OtherRows(s) ==
  {Row(t, d, "fine") : t \in Symbols \ {s}, d \in UNION {Reports[t] : t \in Symbols}}

\* The rows with one of them unreadable.
SpoiltRows(s, x, f) == {IF r = x THEN [r EXCEPT !.form = f] ELSE r : r \in FullRows(s)}

Responses(s, today) ==
  [answer: {"list"},
   rows: {FullRows(s), FullRows(s) \cup OtherRows(s), OtherRows(s),
          {r \in FullRows(s) : r.date < today}}
         \cup {SpoiltRows(s, x, f) : x \in FullRows(s), f \in RowForms}]
    \cup [answer: {"missing", "notFound", "noList"}, rows: {{}}]

(***************************************************************************)
(* Cycles.                                                                 *)
(***************************************************************************)
NoAccount == [held |-> [s \in Symbols |-> 0], orders |-> {}, loss |-> "small"]

NoEvidence == Assessment(NoSymbol, "unknown", 0, NoDate)

\* A cycle that has nothing to do, or is left with an approved order.
Resting(step, s, n) ==
  [step |-> step, symbol |-> s, account |-> NoAccount, evidence |-> NoEvidence, size |-> n]

Idle == Resting("idle", NoSymbol, 0)

CycleRecord ==
  [step: {"idle", "seen", "buy", "sell"}, symbol: Symbols \cup {NoSymbol},
   account: [held: [Symbols -> Nat], orders: SUBSET Symbols, loss: Losses],
   evidence: [symbol: Symbols \cup {NoSymbol}, status: Statuses,
              asOf: 0..LastDay, date: Nat \cup {NoDate}],
   size: 0..MaxPosition]

TypeOK ==
  /\ day \in 0..LastDay
  /\ held \in [Symbols -> Nat]
  /\ orders \in [Symbols -> 0..MaxPosition]
  /\ loss \in Losses
  /\ exits \subseteq [symbol: Symbols, day: 0..LastDay, lost: BOOLEAN]
  /\ cycle \in [Cycles -> CycleRecord]
  /\ blind \in BOOLEAN

Init ==
  /\ day = 0
  /\ held = [s \in Symbols |-> 0]
  /\ orders = [s \in Symbols |-> 0]
  /\ loss = "small"
  /\ exits = {}
  /\ cycle = [c \in Cycles |-> Idle]
  /\ blind = FALSE

\* The agent fetches account and payloads, and build_snapshot normalises
\* the earnings answer as of that moment's date.
See(c, s, response) ==
  /\ cycle[c].step = "idle"
  /\ cycle' = [cycle EXCEPT ![c] =
       [step |-> "seen", symbol |-> s, account |-> Account,
        evidence |-> AssessEarnings(response, s, day), size |-> 0]]
  /\ UNCHANGED <<day, held, orders, loss, exits, blind>>

\* An order the approval of c does not see, or sees as no position yet.
OrderOnItsWay(c) ==
  \/ \E s \in Symbols : orders[s] > 0
  \/ \E b \in Cycles \ {c} : cycle[b].step = "buy"
  \/ held # cycle[c].account.held

Passes(c, signal, halted) ==
  CheckLimits(signal, cycle[c].symbol, cycle[c].account, cycle[c].evidence,
              halted, LastLosingExit(cycle[c].symbol), day)

ApproveEntry(c, signal, halted) ==
  /\ cycle[c].step = "seen"
  /\ signal.side = "buy"
  /\ Passes(c, signal, halted)
  /\ \E n \in Sizes(signal, cycle[c].account, cycle[c].symbol) :
       cycle' = [cycle EXCEPT ![c] = Resting("buy", cycle[c].symbol, n)]
  /\ blind' = (blind \/ OrderOnItsWay(c) \/ ~signal.sector)
  /\ UNCHANGED <<day, held, orders, loss, exits>>

ApproveExit(c, signal, halted) ==
  /\ cycle[c].step = "seen"
  /\ signal.side = "sell"
  /\ Cardinality(exits) < MaxExits
  /\ Passes(c, signal, halted)
  /\ cycle' = [cycle EXCEPT ![c] = Resting("sell", cycle[c].symbol, 0)]
  /\ UNCHANGED <<day, held, orders, loss, exits, blind>>

Refuse(c, signal, halted) ==
  /\ cycle[c].step = "seen"
  /\ ~Passes(c, signal, halted)
  /\ cycle' = [cycle EXCEPT ![c] = Idle]
  /\ UNCHANGED <<day, held, orders, loss, exits, blind>>

(***************************************************************************)
(* The agent, the broker and the market.  A run submits what it approved   *)
(* the same day; an order for a symbol is placed once.                     *)
(***************************************************************************)
PlaceEntry(c) ==
  LET s == cycle[c].symbol IN
  /\ cycle[c].step = "buy"
  /\ orders' = IF orders[s] = 0 THEN [orders EXCEPT ![s] = cycle[c].size] ELSE orders
  /\ cycle' = [cycle EXCEPT ![c] = Idle]
  /\ UNCHANGED <<day, held, loss, exits, blind>>

Fill(s) ==
  /\ orders[s] > 0
  /\ held' = [held EXCEPT ![s] = @ + orders[s]]
  /\ orders' = [orders EXCEPT ![s] = 0]
  /\ UNCHANGED <<day, loss, exits, cycle, blind>>

\* The position is sold and record-exit closes its trade.
Close(c, lost) ==
  LET s == cycle[c].symbol IN
  /\ cycle[c].step = "sell"
  /\ held[s] > 0
  /\ held' = [held EXCEPT ![s] = 0]
  /\ exits' = exits \cup {[symbol |-> s, day |-> day, lost |-> lost]}
  /\ cycle' = [cycle EXCEPT ![c] = Idle]
  /\ UNCHANGED <<day, orders, loss, blind>>

\* The position was sold meanwhile.
CloseNothing(c) ==
  /\ cycle[c].step = "sell"
  /\ held[cycle[c].symbol] = 0
  /\ cycle' = [cycle EXCEPT ![c] = Idle]
  /\ UNCHANGED <<day, held, orders, loss, exits, blind>>

\* A resting stop or a human sells it, at a loss, and record-exit says so.
SoldElsewhere(s) ==
  /\ held[s] > 0
  /\ Cardinality(exits) < MaxExits
  /\ held' = [held EXCEPT ![s] = 0]
  /\ exits' = exits \cup {[symbol |-> s, day |-> day, lost |-> TRUE]}
  /\ UNCHANGED <<day, orders, loss, cycle, blind>>

Lose ==
  /\ loss = "small"
  /\ loss' = "limit"
  /\ UNCHANGED <<day, held, orders, exits, cycle, blind>>

NextDay ==
  /\ day < LastDay
  /\ \A c \in Cycles : cycle[c].step \in {"idle", "seen"}
  /\ day' = day + 1
  /\ loss' = "small"
  /\ UNCHANGED <<held, orders, exits, cycle, blind>>

Next ==
  \/ \E c \in Cycles, s \in Symbols : \E response \in Responses(s, day) : See(c, s, response)
  \/ \E c \in Cycles, signal \in Signals, halted \in BOOLEAN :
       \/ ApproveEntry(c, signal, halted)
       \/ ApproveExit(c, signal, halted)
       \/ Refuse(c, signal, halted)
  \/ \E c \in Cycles : PlaceEntry(c) \/ CloseNothing(c) \/ \E lost \in BOOLEAN : Close(c, lost)
  \/ \E s \in Symbols : Fill(s) \/ SoldElsewhere(s)
  \/ Lose
  \/ NextDay

Spec == Init /\ [][Next]_vars

(***************************************************************************)
(* Properties.                                                             *)
(***************************************************************************)

\* No approved entry has a report of its symbol on the day or within the
\* blackout after it, whatever the earnings source answered: rows of other
\* companies, past rows only, unreadable rows, an answer normalised before
\* midnight (_check_earnings_blackout over assess_earnings).
NoEntryIntoReport ==
  \A c \in Cycles : cycle[c].step = "buy" =>
    \A d \in Reports[cycle[c].symbol] : d - day \notin 0..BlackoutDays

\* No entry of a cycle that has its journal is approved within the cooldown
\* of any losing exit of its symbol, also when a winning exit came after it
\* (last_losing_exit).
CooldownHonoured ==
  [][\A c \in Cycles : cycle[c].step # "buy" /\ cycle'[c].step = "buy" =>
       \A x \in exits : x.symbol = cycle[c].symbol /\ x.lost => day - x.day >= CooldownDays]_vars

\* The caps hold of the account itself, not only of what a cycle saw, as
\* long as no approval came between another order and its fill - the gates
\* count positions, not orders - and none lacked the sector of its symbol
\* (check_limits, size_position).
CapsHoldWhenSettled ==
  ~blind =>
    /\ Cardinality({s \in Symbols : held[s] + orders[s] > 0}) <= MaxOpenPositions
    /\ SumFunctionOnSet(held, Symbols) + SumFunctionOnSet(orders, Symbols) < MaxExposure + MaxPosition
    /\ \A sector \in {SectorOf[s] : s \in Symbols} :
         LET S == {s \in Symbols : SectorOf[s] = sector}
         IN SumFunctionOnSet(held, S) + SumFunctionOnSet(orders, S) <= MaxSector
=============================================================================
