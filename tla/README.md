# A TLA+ verification of agentic-trader

agentic-trader is an agent-driven equity trader. An agent (a session of a language model) fetches
market data and places orders; a deterministic Python program decides, keeps the journal and builds
every order payload. The program never reaches the broker: between any two of its commands the agent
may die, a reply may be lost, the broker may act, or another session may run a command. This
directory models that boundary and the arithmetic on the program's side of it, checks it with TLC
and proves its core with TLAPS.

Paths below are relative to `src/src/agentic_trader/`.

## Inventory

| component | state it keeps | operations | interacts with | hard behaviour | what makes it correct |
|---|---|---|---|---|---|
| Journal (`journal/repository.py`) | SQLite tables `trades`, `protective_orders`, `audit`, `scan_*` | record/close trade; submit/accept/fail a stop; the uncovered and the unconfirmed lists; audit; scan runs | every command | one connection per method, so a command is several transactions; crash between them; two sessions | a stop is written before it is placed; PROTECTED only on the broker's evidence; a resolved row is final; uncovered positions are listed |
| Protective commands (`cli.py` record-fill, protect, protect-resolve, record-exit, protection-status) | none; the agent carries keys from one command to the next | one command per step of a position's life | journal, payload builders, agent | crash and lost reply between commands, two sessions in one row, retries | every fill is journalled, every exposure ends, nothing is sold twice |
| Payloads (`execution/executor.py`, `capabilities.py`) | none | preflight, assess_protection, order, stop and flatten payloads | risk decision, journal lists | list of uncovered positions read earlier by the caller | no live entry that cannot be covered or while one is uncovered |
| Client keys (`risk/engine.py`) | none | entry, stop and flatten keys | journal's unique keys, broker's ref_id | same key for different things, different key for the same thing | a retry is deduplicated, a different order is not |
| Sizing, gates, engine (`risk/`) | none | check_limits, size_position, exit_notional, resize | critic, orchestrator, config | roundings, zero confidence, gates not re-run | a buy is within every limit; an exit is never blocked and sells what is held |
| Critic (`agents/critic.py`) | report of one cycle | recompute the arithmetic, penalise, block | decision, snapshot | must agree with sizing; applies to exits | blocks what sizing got wrong and nothing else |
| Orchestrator (`agents/orchestrator.py`) | result of one cycle | strategy, risk, critic, re-size, payload, shadow fill, audit | all of the above | every early return must leave an audit entry | an order only when every stage agreed; the re-size only shrinks |
| Evaluate command, HALT (`cli.py`, `config/loader.py`) | HALT file | read journal, run_cycle, write HALT, write audit and trade | journal, config, account of the caller | stale account, unreadable journal, partial writes | a killing loss stops new entries until a human clears it |
| Risk configuration (`config/loader.py`) | `risk.yaml`, `risk.lock` | load, verify, lock-risk | evaluate, discover | edits between loads, missing lock | limits change only by edit and lock |
| Discovery (`agents/discovery.py`, `universe/`) | scan run | drift, coverage, dedupe, two budgets, two phases | agent, journal | capped shards, missing or malformed payloads, order of arrival, replay | incomplete coverage never reads as complete; phase two selects from phase one's plan |
| Shadow executor (`execution/shadow_executor.py`) | none | simulated fill | orchestrator | shares the journal's keys with live trades | never carries a state shadow did not earn |
| Market session (`execution/market_session.py`) | none | is the session open | payload builder | holidays, early closes, clock changes | open exactly in regular hours |
| Snapshots, indicators, acquisition (`market/`) | none | parse payloads, derive indicators | evaluate | unit and ordering of payloads | values stand for what their name says |
| Regimes, comparisons (`market/`) | none | classify, compare | audit | none | gate nothing |
| Strategies (`strategies/`) | none | signal from a snapshot | orchestrator | thresholds | a signal carries a stop below and a target above |
| Broker and agent (external) | orders, positions; the agent's memory | place, fill, reject, trigger, cancel; read orders and account | payloads, `next` fields | late processing, lost replies, crash | deduplicates a ref_id |

The hazards, each at its line, are in `PROJECT.json`. The properties are aimed at them.

## Modules

| module | models | proofs |
|---|---|---|
| `Positions` | entry keys, quantities, stop keys | |
| `Journal` | `trades` and `protective_orders`, one operator per transaction | |
| `Broker` | the external broker: orders by ref_id, orders in flight, shares held | |
| `EntryLedger` | abstract specification of what the journal promises of a live position | |
| `ProtectionLifecycle` | the protective commands, the agent's session, crashes; composes `Journal` and `Broker` | `ProtectionLifecycleProofs`, `OneSessionProofs` |
| `OrderSizing` | arithmetic of one cycle: sizing, critic, re-size, payload | `OrderSizingProofs` |
| `RiskLock` | `risk.yaml`, `risk.lock`, `lock-risk` | |
| `EvaluateCycle` | the evaluate command in several processes, HALT, audit and trades; extends `RiskLock` | `EvaluateCycleProofs` |
| `Snapshot` | rows, live price and the earnings answer of a bundle | |
| `EntryGates` | the gates over several days, with orders, fills and exits in between; extends `Snapshot` | `EntryGatesProofs` |
| `Ordering` | a finite set in the order of a key | |
| `Selection` | the two budgets of discovery; extends `Ordering` | `DiscoveryProofs` |
| `Discovery` | drift, coverage, deduplication, the two phases, the scan journal; extends `Selection` | `DiscoveryProofs` |
| `MarketSession` | the exchange's calendar and clock | |
| `Indicators` | completed bars, windows, formulas, the reach of the request; extends `Ordering` | |
| `TrendPullback` | the strategy, its stop and its regime, and the second derivation of its conditions; extends `Indicators` | |
| `MarketDay` | bars, quotes and evaluations through days; composes `MarketSession`, `TrendPullback` and `Snapshot` | `MarketDayProofs` |
| | sums and counts over finite sets, and the order of one | `SumTheorems` |
| `MCProtectionLifecycle`, `MCOrderSizing`, `MCEntryGates`, `MCEvaluateCycle`, `MCDiscovery`, `MCMarketDay` | constants for TLC | |

A definition named `X_Y` after a comment that begins with "Mutant:" is a broken form of `X`. No
specification uses it; putting it in the place of `X` shows that a property notices.

### Protection lifecycle

`trades` and `stops` are the two tables as functions of their unique keys; an absent row is a value.
`record_trade`, `close_trade`, `record_protection_submitted`, `..._accepted`, `..._failed` and
`update_trade_protection` are one operator each, with the condition under which the method raises as
a guard. The key of a protective order is derived from entry key, stop price and quantity; a trade's
stop price never changes, so a stop key is a pair of entry and quantity. Prices are reduced to where
the stop lies relative to the fill, quantities to whether they are whole.

A session's memory (`task`) is the step it is at and the entry and quantity it works on: the
arguments it will pass to its next command, and everything a crash loses. `cmd_protect` is one
action, because its reads and its one write are guarded by the unique key; `protect-resolve` on
acceptance is two (`ResolveAccepted`, `UpdateTrade`), since it commits twice. `ReadJournal` and
`BuildLiveEntry` are apart because `run_cycle` is handed lists that its caller read before. A placed
order travels on `wire` and is processed at any later time. A reply is heard, arrives without an
order id (`blank`), or is lost; a lost reply is recovered by `Reconcile`, which reads the
unconfirmed list and then the broker's open orders, as the docstrings tell it to
(`journal/repository.py:579`, `cli.py:841`). A stop that has triggered is not among them (`Rests`).

`protect` refuses nothing but a trade that is not open or has no stop level: it looks at neither the
mode nor the cover, and takes any `--filled-quantity`. So does `Protect`, and `lifecycle_crash` has
an agent that uses all of it (`Careful` is FALSE): a shadow record gets a stop, a covered position a
second one.

Assumed of the agent, because commands, `next` fields and docstrings say so: it places the payload it
was handed; it passes the id it heard, and the refusal it heard; it resolves an unconfirmed stop from
the broker's open orders, and only once the order is no longer in flight; it exits a position after
cancelling its resting stops; it records an exit when the account shows the shares gone. Where
`Careful` is TRUE (`one_session` and the runs of a finding) it moreover looks at protection-status
and the account before it runs `protect` (`Checked`): the position is listed as uncovered, no
submission of it is unconfirmed, and the quantity is what the account holds. No command checks this.
Assumed of the broker: it deduplicates a ref_id; it does not check a sell against the position; a
stop is accepted or refused as a whole.

Note that `cmd_evaluate` passes neither `unprotected_live_positions` nor `post_fill_protection` to
`run_cycle`, so on the command line a live buy is always refused. The entry path modelled here is the
one `run_cycle` and `build_order_payload` offer their callers and the tests exercise.

### Order sizing

One behaviour is one cycle, from a signal the gates let through to the payload: `BuildEntry` or
`BuildExit`, `Critique`, `Resize`, `BuildPayload`. Money is in cents, percentages and confidences in
hundredths, shares in lots. Decimal arithmetic is exact but for the roundings the code makes, and
each operator divides once, where the code rounds (half even for the budget and for shares, down for
the notional). The critic's penalties that are not arithmetic are a sum chosen from a set.

### Evaluate command, HALT and the risk lock

`RiskLock` holds the two files. A set of limits is one value, as `risk_fingerprint` sees it. Whoever
edits `risk.yaml` may make it invalid; `lock-risk --confirm` loads and later writes (`LoadToLock`,
`WriteLock`), and may die while it writes (`TearLock`), which leaves a lock that cannot be read and
therefore verifies nothing. `approved` is history: what a confirmed `lock-risk` has loaded.

A process of `EvaluateCycle` is one run of `cmd_evaluate`. Its actions lie where something else can
happen between them: `Begin` reads the bundle and `risk.yaml`, `Verify` reads the lock, `ReadJournal`
the known keys (or fails to, which leaves the process without a journal), `Decide` runs the cycle and
reads HALT in it, `WriteHalt`, `RecordAudit` and `RecordTrade` are the three writes, in the order of
the code and each with a failure of its own; `Break` is an exception that leaves `run_cycle`, and
`Crash` may come anywhere. `RunCycle` is `run_cycle` as a function of what the process has read: every
early return is a branch of it. A bundle is what the command branches on; the verdicts of gates,
sizing, critic and quote are Booleans of it, because other modules are about them. People edit, lock,
halt and resume.

### Entry gates

`EntryGates` follows an account over days. `See` takes the account and the earnings answer as the
agent fetched them; `ApproveEntry`, `ApproveExit` and `Refuse` apply `CheckLimits` to them at any
later time, also the next day; the approved order is placed, fills, is closed or is sold elsewhere at
any time after that. Values are in units of the account, so a percentage cap is a number. Which sizes
an approval may have is `Sizes`: every cap of `size_position` that the exposure depends on, and any
amount under it. `Responses` are the earnings answers a source may give: all reports, those of other
companies with them or alone, only the past ones, one row unreadable in each of four ways, no answer.
`AssessEarnings` is translated field by field from `models/market_snapshot.py`, as it decides whether
silence counts. `blind` is history: an approval did not see an order that was on its way, or its
signal carried no sector. The code counts positions, not orders, so the caps are claimed of the
account itself only while `blind` is false.

### Discovery

One run of the agent through both phases: `FetchScans`, `FetchRuns`, `Discover` (phase one),
`FetchFundamentals`, `Discover` (phase two, with budget and sector cap from its command line). The
saved scans are the broker's and a person may change one of them at any time. A scan's filters are
reduced to what drift detection tells apart; its rows to symbol, identity and whether they can be
read. The agent may hand over the runs in any order, leave one out, hand one over twice or none.
`RunDiscovery` is `run_discovery` with its early exits in their order. `declared` is what the filters
written in `universe/` match, `matching` what the broker's saved scans match now; the two differ once
a person has edited a scan, and `UniverseCovered` is about the former.

A state of the loops in `universe/selection.py` is how many candidates of each bucket have been taken
(a cursor per bucket), in the order of the rotation key, here any injective rank. `RoundRobin` gives
the buckets their turns one after the other, for as many sweeps as there is budget: the code stops at
the first sweep that takes nothing, and such a sweep changes nothing, so the turns after it are idle.

### Market day

`MarketSession` is the calendar of `execution/market_session.py` on day numbers and half hours; every
boundary of the code falls on one, so a half hour has one verdict. `Indicators` computes in integers
of a unit far below a cent, where the code rounds decimals; an RSI is the pair of average gain and
loss, compared by cross-multiplication. `TrendPullback` has the seven conditions of an entry, the
exit reasons, `build_stop` and `classify_symbol_regime`, and `DecisionFlags`, the independent
derivation of the same conditions in `market/indicator_comparison.py`.

`MarketDay` moves a clock through the moments of a window of days. The agent stamps a trading date
(that of New York or that of UTC), fetches bars and a quote under it, and has them
evaluated at any later moment, any number of times. The provider may not have the whole history, may
or may not list the running session's bar, and gives a quote with an extended print, without a time,
or of a halted symbol. A live entry is one of a caller that promises post-fill protection; a shadow
run is one that leaves nothing behind. `verdict` keeps the snapshot, the signal and whether an order was
built until the next action, and `earlier` the indicators of one earlier evaluation.

## Runs

| run | module, bounds | shows |
|---|---|---|
| `lifecycle_crash` | 1 entry, 2 sessions, 2 quantities (one whole), any stop level, live and shadow, any use of `protect`, strategy exits, 1 crash | `WriteAhead`, `ProtectedOnEvidence`, `TradeNotAheadOfStop`, `MemoryHolds`, `GuardReleases`, `ResolutionIsFinal`, and the refinement `ImplementsLedger` |
| `one_session` | 1 entry, 1 careful session, 4 quantities (two whole), stops below the fill or not, strategy exits, 1 crash, fairness | `FailedDoesNotRest`, `OneRestingStop`, `FillReachesJournal`, `ExposureEnds` |
| `sizing` | accounts of $17.50 to $100.50, several prices, stops, confidences and penalties | `BuyWithinLimits`, `CriticAgrees`, `RaisesOnlyAtZero`, `ExitSellsWhatIsHeld`, `LiveBuyWithinReach` |
| `entry_gates` | 3 symbols in 2 sectors, 1 cycle, 2 days, 2 exits | `NoEntryIntoReport`, `CooldownHonoured`, `CapsHoldWhenSettled` |
| `evaluate` | 2 processes, 2 sets of limits, 1 symbol, 5 bundles, 3 acts of people | `LimitsWereApproved`, `AuditAndTradeAgree`, `KillLeavesHalt`, `HaltStopsPlans` |
| `discovery` | 5 symbols, 2 scans, cap of 3 rows, 1 edit, budgets 0 to 3, two sector caps | `UniverseCovered`, `EveryCandidateAccounted`, `SelectionFair` |
| `market_day` | two-day windows around a clock change, holidays and early closes of 2026 to 2028, 6 moments a day | `LiveOnlyInSession`, `SameDateSameIndicators`, `EntryJustified` |

Why the bounds are enough.

*Lifecycle.* Rows of different entries do not interact except through the entry guard, which reads
all of them, so one entry suffices for the properties of a position. Two sessions give every
interleaving of two commands on one row. Two quantities give a whole and a fractional one, and let
`protect` be asked for less than was filled; four give two whole ones, hence two different stop keys
of one entry, and partial fills of a flatten. `MaxCrashes` bounds the crashes of a behaviour: after a
crash a session starts over from the journal, so a second crash repeats the situation of the first.
The proofs are for any number.

*Sizing.* The limits of `config/risk.yaml` at the account sizes it is tuned for; the prices are chosen
so that each cap binds in some deal, the stop is near and far, and exits have remainders.

*Gates.* One symbol reports today and again after the window, one comes into its window overnight, one
is clear; two share a sector whose cap one of them fills. Two days with a blackout and a cooldown of
one day reach both ends of both windows. A single cycle at a time is no loss for what the run shows:
another cycle would appear to it as an order on its way or as an account older than its decision, both
of which happen here. `MaxExits` bounds the closed trades.

*Evaluate.* Two processes on one symbol meet in every file and in one client key; the day is not
modelled because a key contains it. Three acts of people (`MaxActs`) are enough to lock, edit and lock
again, and to halt, resume and halt again. The bundles pair a killing loss with live, shadow and dry
exits, and an entry with one that never gets past its configuration. The processes are interchangeable,
so the run uses symmetry.

*Discovery.* A scan at its cap needs a match more than the cap holds; two overlapping scans give copies
with and without an identity in both orders. Five symbols in two sectors and the unknown one let each
budget and each cap bind. `MaxEdits` bounds the edits of a run: one edit can come before `get_scans`,
where drift detection sees it, or between the two fetches, where it does not.

*Market day.* Each window has a day on which a rule of the calendar matters, and the moments of a day
are the open by either clock, one within the session that is before or after an early close by the
clock in force, the last half hour and the close of summer, and one in New York's evening, when the
UTC date is already the next. The indicators of the run have short periods, so that ten sessions of prices reach every branch;
that the real request reaches far enough for the real windows is the assumption
`EnvelopeAssumption`, which TLC evaluates for every trading day of the three pinned years. So does it
`ScheduleAssumption`: the calendar by rule is the published one, day by day through those years.

The processes of `evaluate`, the run of `discovery` and the window of `market_day` come to an end, so
deadlock is not an error there (`CHECK_DEADLOCK FALSE`); everywhere else it is checked.

Fairness (`one_session`). The broker processes what was placed, in some order (weak). A session
finishes the command chain it started (`Continue`, weak): the agent's protocol tells it the next
step, and each step is a call that returns. It gets round to each item the account and
protection-status list (`RecordFill`, `Protect` of what is `Checked`, `RecordExit` for each entry,
and `Reconcile`, strong): such an action is enabled only while the session is idle, hence again and
again, and a session that keeps working through its lists does not skip one for ever. Nothing is
assumed of entries, exits, crashes, lost replies, triggers or cancellations. `ExposureEnds` is claimed
through a crash, with the exception it names: one that took a flatten with it (`FlattenLost`), which
is the note below on `cli.py:740`. The run has only fills with a stop level and no shadow trades, for
what the notes and `key_taken` say of the others. Liveness is claimed only here: an evaluation is one
process that nothing waits for.

### Where the code and its documentation disagree

Each of these runs checks one statement of a docstring, comment or document, and TLC finds a behaviour
of the code that violates it. The quotes are in `PROJECT.json`.

| run | statement | what the code does |
|---|---|---|
| `cancelled_stop` | a cancelled stop means unprotected | nothing takes a row out of PROTECTED |
| `sold_twice` | a stop that did not rest leaves a position that is open and uncovered, and open orders tell whether it rests | a stop that triggered before it was resolved is not among the open orders; it is resolved as failed and its flatten sells shares that are gone |
| `key_taken` | a fill refused as already recorded is one the journal has, and the guard arms the moment the position exists | a shadow cycle takes the client key of a live fill of the same symbol, strategy and day (`risk/engine.py:64`); `record-fill` refuses the fill and the guard never sees the position |
| `exit_blocked` | no control blocks closing a position | the critic's buying-power and ceiling blocks apply to sells |
| `entry_premise` | a close below the 50-day breaks the premise an entry rests on | no condition of an entry compares the price with the 50-day, so the next evaluation may exit what was just bought |

Behaviours met while modelling that have no run of their own. Of the lifecycle and the cycle:

- `protect-resolve --failed` looks neither at the trade nor at what is held (`cli.py:754`, `:765`), so
  a position closed meanwhile, by a strategy exit too, is flattened again. `sold_twice` shows the
  shortest way there; nothing is claimed of the number of shares sold.
- `protect` checks no mode (`cli.py:658`): a shadow record gets a real stop, which sells shares that
  were never bought. Guard and ledger speak of live trades only.
- `protect` with another `--filled-quantity` (`cli.py:668`) derives another key, so a covered or
  partly filled position can get a second stop, which the docstring of `build_protective_client_key`
  calls a naked short. `lifecycle_crash` reaches it; `OneRestingStop` holds of a careful agent.
- A crash after the FAILED row is written loses the flatten for good: the retry of `protect-resolve`
  is refused, and `protect` refuses the quantity again (`cli.py:740`, `execution/executor.py:239`).
  `ExposureEnds` names the case.
- A crash between the two transactions of an acceptance leaves the trade row at COMMITTED for good,
  since the retry is refused (`cli.py:786`, `journal/repository.py:593`). The guard reads the
  protective orders and is not affected, and `TradeNotAheadOfStop` claims no more than that the trade
  row is not ahead.
- A confidence of 0 switches scaling off (`risk/sizing.py:151`), so the re-size grows the order, the
  assertion fires (`agents/orchestrator.py:281`) and the cycle leaves no audit entry.
  `RaisesOnlyAtZero` shows that nothing else makes it fire.
- A fill recorded without a stop level gets NOT_REQUIRED ("Nothing to protect", and record-fill says
  `none: this position carries no stop`), yet it is listed as uncovered and blocks live entries, and
  `protect` refuses it; only its exit lifts the block.
- The entry guard ("An uncovered live position stops the system taking new ones",
  `execution/executor.py:413`) looks at a list its caller read earlier, and another
  session may record a fill between that read and the payload: with two sessions the sentence is not
  true of the journal at the time of the payload. `cmd_evaluate` passes neither the list nor a post-fill protection, so
  it refuses every live buy.
- An exit ("to close a known share count exactly", `execution/executor.py:375`) asks for the value of
  the position floored to cents divided by the price, so it may leave a remainder.
  `ExitSellsWhatIsHeld` bounds it by a cent's worth and half a lot.
- The critic's tolerance of 5 % "absorbs rounding to cents" only while a cent is less than 5 % of the
  budget: at 1 % risk an account of a few dollars can be blocked by its own rounding, so the instances
  start at $17.50.
- The stop of a payload is rounded up to cents after it was compared with the fill, so a stop less
  than a cent under the fill can rest at it.

Of the gates, HALT and the journal:

- The kill switch is looked at only for an actionable signal, and an exit worth less than a cent is
  rejected without the flag (`risk/engine.py:283` to `:297`): such a cycle writes no HALT, where
  `src/README.md` says that the switch is sticky and "writes HALT".
- HALT stops the next cycle, not one that has decided already, and the protective commands do not
  look at it.
- Shadow trades never appear in the account, so the caps of a shadow run never see them, but their
  stops do count as the active stop of a position (`cli.py:317`).
- A journal that cannot be read resets the known keys; when the reading fails halfway the last loss
  and the stop that were read stay.

Of market data and discovery:

- `build_snapshot` stamps an earnings answer as of the day it runs, so an answer saved earlier is
  taken for one of today. Its report dates are still true, so `NoEntryIntoReport` is not affected.
- `_first_result` falls back to the first row, whichever symbol it names.
- `reference_price` is the close of the newest bar, which may be of the running session, while the
  indicators stop at the last finished one; a stop counts as hit when that bar's low reaches it, also
  when the low came before the entry.
- Nothing compares the bundle's trading date with a clock. `SameDateSameIndicators` says what is true
  all the same. A bar of a finished session that the provider lists late would move the indicators of
  one date; the model's provider lists every finished session.
- The client key has the UTC date, so a shadow cycle of the evening in New York has the key of the
  next day.
- The critic's checks for missing indicators and for the age of the quote apply to exits as well.
- `run_scan` comes after `get_scans`: a scan edited between them is judged by its old definition.
  `UniverseCovered` therefore supposes that none was (`steady`).
- An instrument id that is the empty string counts as none, so two copies of which one has it are not
  a conflict.

## Proofs

Eight modules hold proofs; each theorem is for every value of the constants that satisfies the named
assumptions, and TLC evaluates those assumptions on the instances. Every invariant and action property
that a passing run checks is a theorem.

**`ProtectionLifecycleProofs`**, for every set of sessions, entries and quantities, every bound on
crashes and an agent that may run `protect` on any trade and for any quantity, from `QuantitiesAssumption` and `LifecycleAssumption`:

- `TypeCorrect`, `StopsAreWrittenAhead`, `ProtectionRestsOnEvidence`, `TradeFollows`,
  `MemoryStaysTrue`: the invariants of `lifecycle_crash`;
- `ResolvedOnce` and `GuardIsReleasedByEvidence`: its action properties;
- `JournalIsALedger`: the refinement of `EntryLedger`.

None of the invariants is inductive by itself. That a promotion rests on evidence depends on the
session that promotes having heard an acceptance (`MemoryHolds`), in a memory whose entry and
quantity make a key (`MemoryShaped`); that the memory stays true while others act depends on stops
never being forgotten and evidence never withdrawn; that a trade row is not ahead of its stop needs
new rows to be empty (`NewRows`); and that a fill is recorded into the ledger as exposed needs that no
stop is journalled before its trade (`StopsOfTrades`), so that recording finds no old PROTECTED row.
`IInv` is the conjunction. The proof of its induction is by component: a step says what it does to the journal,
the broker and the memory in four relations between the two states, and one lemma puts the three
together. The action properties and the refinement rest on one more lemma, that every step moves the
journal in one of five ways (`JournalSteps`) or the broker by one order (`OneOrderMoves`).

**`OneSessionProofs`**, for every set of entries and quantities and every bound on crashes, when there
is one session at a time (`OneSession`):

- `FailedStopIsGone`: `FailedDoesNotRest` of `one_session`, whether the agent is careful or not;
- `StopRestsAlone`: `OneRestingStop`, of a careful agent (`Careful`).

The hypotheses are needed. With two sessions one may declare failed a stop the other is about to
place; without care `protect` builds a second stop of another quantity. `SoloInv` is what a lone session
gains over `IInv`: the row it works on is the row it remembers (`MemoryCurrent`), an order that the
broker has decided is not in flight, and a stop declared failed is neither resting nor on its way
(`Gone`). That a stop rests alone follows from the journal: what rests has a row that is SUBMITTED or
PROTECTED (`WriteAhead`, `FailedIsGone`), and there is at most one such row of an entry (`OneMayRest`),
since only `protect` adds one (`OnlyProtectAdds`) and a careful agent runs it where there is none.
Both rest on the agent asking for a stop only when it is no longer in flight (`Answerable`).

**`EvaluateCycleProofs`**, for every set of processes, limits, symbols and bundles and every bound on
acts, from `RiskLockAssumption` and `EvaluateAssumption`:

- `EvaluateTyped`, `LimitsApproved`, `JournalAgrees`, `KillHalts`: the four invariants of `evaluate`;
- `HaltStops`: its action property `HaltStopsPlans`, that a decision made while HALT stands, or after a
  cycle has tripped the switch, plans nothing, also when its command began before.

`LimitsWereApproved` is not inductive: it needs that the lock and whatever a `lock-risk` under way is
about to write were confirmed (`LockKnown`), and that a process that began under a lock still finds
one when it verifies. `AuditAndTradeAgree` needs that a process's audit row is there, and says what it
decided, before it touches the trades table; the two about HALT need the flag of the decision tied to
the loss it was made on, and the file tied to the flag from the write onwards. `IInv` is `TypeOK`,
`LockKnown`, `TradesKnown` and, of each process, `Known`. A step of one process disturbs another only
through the shared files; `OthersKeep` says once what every step leaves true of those that do not move.

**`EntryGatesProofs`**, for every set of symbols, sectors and cycles, any calendar of reports and any
windows, from `GatesAssumption` and `SnapshotAssumption`, with any number of cycles at once:

- `GatesTyped`, `EntriesClearOfReports`, `EntriesCooled`, `CapsHold`: `TypeOK`, `NoEntryIntoReport`,
  `CooldownHonoured` and `CapsHoldWhenSettled` of `entry_gates`.

`EntriesClearOfReports` alone supposes `NoAuthority`, that the silence of the earnings source proves
nothing: that is what `EarningsCapabilities` says of the source in use, and under one whose silence
counts, an answer of past rows alone would let an entry through. An assessment is made on one day and
used on a later one, so the invariant says of a cycle what the announced date still means (`Nearest`:
no report lies between the day of the assessment and it) and of an approved entry that its symbol is
clear; exits are never in the future, so the latest losing one bounds them all.

`CapsInv` is about the account and whatever is on its way to it. While `blind` is false at most one
entry is approved and then no order is on its way (`OneAtATime`), an approved entry still has room
under every cap it was sized for (`RoomForEach`), and the caps hold of what is held and ordered
together (`CapsKept`). The values of an account and of a sector are sums over sets of symbols; what
a step does to such a sum is one term that changes (`SumChange`, `SumTerm`).

**`OrderSizingProofs`**, for every account, price, stop, confidence and penalty and any limits that
`RiskConfig` accepts, from the assumptions of `OrderSizing`:

- `TypeCorrect`, `PlannedBuysWithinLimits`, `RaisesOnlyOnZero`, `ExitsSellWhatIsHeld`,
  `LiveBuysWithinReach`: `TypeOK`, `BuyWithinLimits`, `RaisesOnlyAtZero`, `ExitSellsWhatIsHeld` and
  `LiveBuyWithinReach` of `sizing`;
- `CriticAgreesWithEngine`: `CriticAgrees`, of accounts whose risk budget is ten cents or more
  (`Funded`).

`Funded` is where the note on the critic's tolerance comes from: below it half a cent of rounding can
be more than 5 % of the budget, and the critic blocks what the engine sized. The proofs rest on what a
division rounds away (`Division`, `Rounded`, `RoundedDown`), on each cap bounding the size
(`SizedFacts`), and on the re-size shrinking it as long as the confidence is not 0 (`SizedShrinks`).
The invariant says at each step what the order on the table was sized from.

**`DiscoveryProofs`**, for any symbols, scans, filters, row cap, edits, order of hand-over, budgets and
caps, and any order of rotation that is a rank without ties (`SelectionAssumption`):

- `TypeCorrect`, `DiscoversTheDeclaredUniverse`, `EveryoneIsAccountedFor`, `SharesTheBudget`: `TypeOK`,
  `UniverseCovered`, `EveryCandidateAccounted` and `SelectionFair` of `discovery`.

Its first half is about the two selections. The loop is followed turn by turn: a loop of as many
sweeps as there is budget spends it or leaves no bucket anything to give (`RoundRobinSpends`), and one
that starts from a level keeps every bucket that can still give at the level of the sweep, so that
none falls more than one behind (`RoundRobinEven`). `FundamentalsPicked` and `EnrichmentPicked` say
what this makes of the two selections, `PlanOf` and `SelectionOf` of the two phases.

The second half is about the run. That a run which passed its checks has the declared universe
depends on what the scans matched when they were run: in a steady world equal filters match equal
symbols (`FiltersDecide`), the scans the agent fetched are the live ones (`ScansHeld`) and each run
it hands over is an answer to one of them (`RunsHeld`). The three checks then leave one possibility:
no drift, so the filters are the declared ones; no shard missing; none at its cap, so none was cut.
The rest (`KeptInv`) follows the batch through deduplication and the two selections: no step loses a
candidate or counts one twice.

**`SumTheorems`** says of the community modules' sum over a finite set, which they define by a fold,
how it recurs (`SumRecursion`) and what it does when a term changes, and of `InOrder` that it lists each
element once, by ascending key (`InOrderLists`), and is the only list that does (`InOrderIs`). The fold's recursion is a function
on the subsets of a finite set, so its induction is over data that can be well-founded without an
operator as parameter: of the sets where a claim fails, take one such that it holds of every set an
element short of it (`SmallestSet`).

**`MarketDayProofs`**, for any windows of days of 2024 to 2029, moments, paths of prices, histories,
quotes and derivation profiles, from `SpecsAssumption`, `MarketDayAssumption` and `ScheduleAssumption`:

- `SessionWatched`, `SameDateSameValues`, `EntriesJustified`: `LiveOnlyInSession`,
  `SameDateSameIndicators` and `EntryJustified` of `market_day`.

`DayInv` says how what is at hand came about: the trading date lies in the window and not after the
UTC date; the bars of the payload that count are the history of that date (`History`, the bars of the
trading days before it), whenever they were fetched and whether or not the running session was
listed; so are those behind the indicators that were kept; and the verdict is one on the payload.

- *Indicators.* New York is behind UTC, so every session before a date that has begun in UTC has ended
  (`EarlierEnded`), and the filter and sort of whatever was fetched give the same bars
  (`FetchedHistory`, from `CompletedAre`). A longer history has the window of a shorter one at its end
  or the shorter one has no window (`SameWindow`), and no formula gives a value to an empty window.
- *Session.* Summer time lies well within its year (`SummerWithinYear`), so the year of the UTC date
  and that of the wall clock agree whenever it matters, and the clock set by rule is the one set by
  the published days (`ClockPublished`). That holidays and early closes are the published ones is
  `ScheduleAssumption`: facts about three calendars, which TLC evaluates day by day.
- *Entries.* The formulas stay among natural numbers (`SmaNat`, `AtrNat`); the recursion of an average
  exists because each of its lengths extends the one before (`SmoothingExists`), and its type follows
  value by value. What remains is the arithmetic of the stop (`StopWithin`). It needs prices of at least
  50 units (`Prices`): two percent of a smaller one round to nothing and the stop would be the price.

Only model-checked: liveness (`FillReachesJournal` and `ExposureEnds` of `one_session`), which is out of the prover's reach with its fairness and
`ENABLED`.

Established by TLC's evaluation of assumptions, not by proof: `ScheduleAssumption` and
`EnvelopeAssumption`, which are about particular years and particular numbers.

## Not modelled, and why

- Parsing of JSON, numbers and text (`market/snapshot.py`, `universe/`, the loaders) is reduced to
  whether the code can read what it is given. Fingerprints of bars and bundles are hashes.
- The comparison of local with broker indicators (`market/indicator_comparison.py` but for
  `decision_flags`), its statistics and the market regime are recorded for analysis and gate nothing.
- The confidence of a signal is a score that starts above its floor; the floor never turns an entry
  away, so the score matters only to sizing, where it is any value.
- The spread, volume, trading state and reward of a snapshot are reduced to the verdict of their gate;
  the slippage of a shadow fill is arithmetic on recorded prices.
- `momentum` is a stub. `accounts.yaml` and `strategies.yaml` hold no state of a control.
- Reports, `recent_audit`, `performance_summary`, `config-check` and the schema migration change
  nothing of what is modelled.
- The broker order id is reduced to whether one was given; a mistyped key on a command line is not an
  input of the model.
- HALT is one file. Its path is the project root with `halt_file` of the limits loaded
  (`config/loader.py:250`), so limits that name another file look for another HALT: the model's limits
  agree on it. Nobody deletes `risk.lock`.
- `EntryGates` reads the journal and applies the gates in one step, and its cycles have a journal they
  can read: without one (`cli.py:302`, `--no-journal`) the cooldown is disarmed, by design, and
  `CooldownHonoured` says nothing.
- An earnings source may leave out all reports or keep past ones only; one that leaves out the nearest
  and lists a later one is not among `Responses`, and an entry before the missing report would pass.
- The trading date of a bundle is that of New York or of UTC. The code takes any date it is given, so a
  clock east of UTC or a typed date is outside `SameDateSameIndicators`.
- A live quote passes preflight up to 120 seconds old; `DataAdmitted` takes one of the very instant, the
  model's clock having no moments between, so a print just before the open is not distinguished.

## Plan

1. A partial acceptance of a stop in `Broker`, and distinct order ids in `Journal`.
2. A fill without a stop level and a shadow record that `protect` was run on, as runs of their own, once
   the code says what is meant to become of them.
