----------------------------- MODULE Discovery -----------------------------
(***************************************************************************)
(* Discovery in two phases (agents/discovery.py run_discovery, cli.py      *)
(* cmd_discover, universe): the agent fetches the saved scans and their    *)
(* rows, the command checks them against the declared definition and asks  *)
(* for fundamentals, the agent fetches those and runs the command again,   *)
(* which selects the symbols worth enriching.                              *)
(*                                                                         *)
(* The saved scans are the broker's: a person can change their filters or  *)
(* their sorting at any time, and a run returns at most MaxRows of what    *)
(* matches.                                                                *)
(***************************************************************************)
EXTENDS Selection

CONSTANTS
  Symbols, NoSymbol,
  Shards,                \* the scans of the definition
  SectorOf,              \* what fundamentals say of a symbol
  MaxRows,               \* the scanner's cap
  RequireComplete,       \* require_complete_coverage
  FundamentalsBudget, Budgets, SectorCaps,    \* command-line arguments
  Worlds,                \* the symbols each scan may match
  FetchOrders,           \* the scans whose runs the agent may hand over
  MaxEdits               \* bound

ASSUME DiscoveryAssumption ==
  /\ IsFiniteSet(Symbols) /\ NoSymbol \notin Symbols
  /\ DOMAIN SectorOf = Symbols
  /\ Worlds \subseteq [Shards -> SUBSET Symbols]
  /\ MaxRows \in Nat \ {0}
  /\ RequireComplete \in BOOLEAN
  /\ MaxEdits \in Nat

Sectors == {SectorOf[s] : s \in Symbols} \cup {UnknownSector}

\* A rotation key has one symbol, one scan and one sector; a budget or a cap
\* below zero is one of zero; the runs are of declared scans.
ASSUME SelectionAssumption ==
  /\ FetchOrders \subseteq Seq(Shards)
  /\ \A S \in {Symbols, Shards, Sectors} :
       \A x, y \in S : Rank(x) \in Int /\ (Rank(x) = Rank(y) => x = y)
  /\ FundamentalsBudget \in Nat /\ Budgets \subseteq Nat /\ SectorCaps \subseteq Nat
  /\ Budgets # {} /\ SectorCaps # {}

VARIABLES
  declared,       \* the symbols that the filters of each declared scan match
  live,           \* the state of each saved scan
  matching,       \* the symbols that its filters match as they are now
  step,           \* what the agent does next
  scans,          \* the answer of get_scans it holds
  runs,           \* the answers of run_scan it holds
  fundamentals,   \* the symbols its fundamentals answers cover
  result,         \* what the last command produced
  journalled,     \* the scan_runs rows
  steady,         \* no scan changed since get_scans
  edits

vars == <<declared, live, matching, step, scans, runs, fundamentals, result, journalled, steady, edits>>

ScanStates == {"matches", "renamed", "resorted", "refiltered", "gone"}
Ids == {"own", "none", "other"}

(***************************************************************************)
(* Drift: check_definition_drift over the states of the live scans.        *)
(***************************************************************************)
DriftStatus(answer) ==
  LET seen == {answer[s] : s \in Shards}
  IN IF seen \cap {"refiltered", "gone"} # {} THEN "drifted"
     ELSE IF "resorted" \in seen THEN "sort_changed"
     ELSE IF "renamed" \in seen THEN "display_only" ELSE "matches"

Blocks(status, anyCapped) == status = "drifted" \/ (status = "sort_changed" /\ anyCapped)

(***************************************************************************)
(* Shards.  A run names its scan and has rows of a symbol and an id; a row *)
(* without a symbol cannot be identified, a broken run cannot be read.     *)
(***************************************************************************)
\* Mutant: a run exactly at the cap is complete.
CoverageFor_AtCap(count) == IF count <= MaxRows THEN "complete" ELSE "unknown_truncated"

CoverageFor(count) == IF count < MaxRows THEN "complete" ELSE "unknown_truncated"

ShardCoverage(run) ==
  IF NoSymbol \in {r.symbol : r \in run.rows} THEN "incomplete"
  ELSE CoverageFor(Cardinality(run.rows))

Readable(answers) == {i \in DOMAIN answers : answers[i].form = "ok"}

\* resolve_coverage.
Coverage(answers) ==
  LET read == Readable(answers)
      judged == {ShardCoverage(answers[i]) : i \in read}
  IN IF \/ read # DOMAIN answers
        \/ {answers[i].shard : i \in read} # Shards
        \/ Cardinality(read) # Cardinality(Shards)
        \/ "incomplete" \in judged
     THEN "incomplete"
     ELSE IF "unknown_truncated" \in judged THEN "unknown_truncated" ELSE "complete"

\* The ids under which a run reports a symbol, and the runs that report it.
IdsIn(answer, s) == {r.id : r \in {x \in answer.rows : x.symbol = s}}

Copies(answers, s) == {i \in Readable(answers) : IdsIn(answers[i], s) # {}}

\* Mutant: identity is the id, so copies with and without one both stay.
Discovered_KeyedOnId(answers) ==
  UNION {{[symbol |-> r.symbol, shard |-> answers[i].shard, sector |-> UnknownSector,
           stage |-> "discovered", exit |-> Kept] : r \in {x \in answers[i].rows : x.symbol # NoSymbol}} :
           i \in {k \in DOMAIN answers : answers[k].form = "ok"}}

\* _dedupe: the first copy that carries an id, else the first, in the order
\* the runs were handed over; two ids of one symbol raise IdentityConflict.
Identified(answers, s) == {i \in Copies(answers, s) : IdsIn(answers[i], s) # {"none"}}

Conflict(answers) ==
  \E s \in Symbols :
    Cardinality(UNION {IdsIn(answers[i], s) : i \in Copies(answers, s)} \ {"none"}) > 1

Preferred(answers, s) ==
  Min(IF Identified(answers, s) = {} THEN Copies(answers, s) ELSE Identified(answers, s))

Discovered(answers) ==
  {[symbol |-> s, shard |-> answers[Preferred(answers, s)].shard, sector |-> UnknownSector,
    stage |-> "discovered", exit |-> Kept] :
     s \in {x \in Symbols : Copies(answers, x) # {}}}

(***************************************************************************)
(* run_discovery.                                                          *)
(***************************************************************************)
Nothing == [selected |-> {}, deferred |-> {}]

Arguments == [budget: Budgets, cap: SectorCaps]

AnArgument == CHOOSE a \in Arguments : TRUE

NoResult == [outcome |-> "none", coverage |-> "incomplete", batch |-> {},
             plan |-> Nothing, selection |-> Nothing, unfetched |-> {}, args |-> AnArgument]

Outcomes == {"none", "failed", "drift", "incomplete", "planned", "selected"}

\* Mutant: what fundamentals did not answer counts as a company without a
\* sector.
Fetched_Assumed(plan, covered) ==
  [eligible |-> {[c EXCEPT !.stage = "eligible",
                           !.sector = IF c.symbol \in covered THEN SectorOf[c.symbol] ELSE UnknownSector] :
                   c \in plan.selected},
   unfetched |-> {}]

\* Phase two splits the plan by what parse_sectors found.
Fetched(plan, covered) ==
  [eligible |-> {[c EXCEPT !.stage = "eligible", !.sector = SectorOf[c.symbol]] :
                   c \in {x \in plan.selected : x.symbol \in covered}},
   unfetched |-> {Deferred(c, "fundamentals_missing") :
                   c \in {x \in plan.selected : x.symbol \notin covered}}]

RunDiscovery(answer, answers, secondPhase, covered, a) ==
  LET status == DriftStatus(answer)
      coverage == Coverage(answers)
      anyCapped == \E i \in Readable(answers) : Cardinality(answers[i].rows) >= MaxRows
      batch == Discovered(answers)
      plan == SelectForFundamentals(batch, FundamentalsBudget)
      fetched == Fetched(plan, covered)
      found == [NoResult EXCEPT !.coverage = coverage, !.batch = batch]
  IN IF Blocks(status, FALSE) THEN [NoResult EXCEPT !.outcome = "drift"]
     ELSE IF Conflict(answers) THEN [NoResult EXCEPT !.outcome = "failed"]
     ELSE IF Blocks(status, anyCapped) THEN [found EXCEPT !.outcome = "drift"]
     ELSE IF RequireComplete /\ coverage # "complete" THEN [found EXCEPT !.outcome = "incomplete"]
     ELSE IF ~secondPhase THEN [found EXCEPT !.outcome = "planned", !.plan = plan]
     ELSE [found EXCEPT !.outcome = "selected", !.plan = plan, !.unfetched = fetched.unfetched, !.args = a,
             !.selection = SelectForEnrichment(fetched.eligible, a.budget, a.cap)]

\* all_candidates and abort_candidates: what the journal keeps.
AllCandidates(r) ==
  IF r.outcome \in {"drift", "incomplete"} THEN {Deferred(c, r.outcome) : c \in r.batch}
  ELSE IF r.outcome = "planned" THEN r.plan.selected \cup r.plan.deferred
  ELSE r.selection.selected \cup r.selection.deferred \cup r.unfetched \cup r.plan.deferred

(***************************************************************************)
(* The agent, the broker and the person who edits the scans.               *)
(***************************************************************************)
Candidates ==
  [symbol: Symbols, shard: Shards, sector: Sectors,
   stage: {"discovered", "fundamentals_selected", "eligible", "selected"},
   exit: {Kept, "drift", "incomplete", "fundamentals_budget", "fundamentals_missing",
          "enrichment_budget", "unknown_sector_limit"}]

TypeOK ==
  /\ declared \in Worlds
  /\ live \in [Shards -> ScanStates]
  /\ matching \in [Shards -> SUBSET Symbols]
  /\ step \in {"scans", "runs", "first", "fundamentals", "second", "end"}
  /\ fundamentals \subseteq Symbols
  /\ steady \in BOOLEAN
  /\ edits \in 0..MaxEdits
  /\ result.outcome \in Outcomes
  /\ AllCandidates(result) \subseteq Candidates
  /\ \A row \in journalled : row.outcome \in Outcomes \ {"none", "failed"}
  \* One candidate for a symbol, whatever the scans and their order.
  /\ Cardinality({c.symbol : c \in result.batch}) = Cardinality(result.batch)

NoScans == [s \in Shards |-> "gone"]

Init ==
  /\ declared \in Worlds
  /\ live = [s \in Shards |-> "matches"]
  /\ matching = declared
  /\ step = "scans"
  /\ scans = NoScans
  /\ runs = <<>>
  /\ fundamentals = {}
  /\ result = NoResult
  /\ journalled = {}
  /\ steady = TRUE
  /\ edits = 0

\* Other filters may match other symbols, and so may none of them.
Found(s, state) ==
  CASE state = "gone" -> {{}}
    [] state = "refiltered" -> {{}} \cup {w[s] : w \in Worlds}
    [] OTHER -> {declared[s]}

EditScan(s, state) ==
  /\ edits < MaxEdits
  /\ step \in {"scans", "runs"}
  /\ state # live[s]
  /\ live' = [live EXCEPT ![s] = state]
  /\ \E found \in Found(s, state) : matching' = [matching EXCEPT ![s] = found]
  /\ steady' = (step = "scans")
  /\ edits' = edits + 1
  /\ UNCHANGED <<declared, step, scans, runs, fundamentals, result, journalled>>

FetchScans ==
  /\ step = "scans"
  /\ scans' = live
  /\ step' = "runs"
  /\ UNCHANGED <<declared, live, matching, runs, fundamentals, result, journalled, steady, edits>>

\* What run_scan may return for a scan: as many matching rows as the cap
\* admits, in one of three forms of identity, one row perhaps unreadable;
\* or nothing that can be read.
Answers(s) ==
  LET returned == IF Cardinality(matching[s]) <= MaxRows THEN {matching[s]}
                  ELSE kSubset(MaxRows, matching[s])
      Rows(found, id) == [symbol: found, id: {id}]
      whole == {Rows(found, id) : found \in returned, id \in Ids}
      spoiled == {{IF r.symbol = s1 THEN [r EXCEPT !.symbol = NoSymbol] ELSE r : r \in Rows(found, "own")} :
                     s1 \in Symbols, found \in returned}
  IN [form: {"ok"}, shard: {s}, rows: whole \cup spoiled]
       \cup [form: {"broken"}, shard: {s}, rows: {{}}]

FetchRuns(order) ==
  /\ step = "runs"
  /\ \E answers \in [DOMAIN order -> UNION {Answers(s) : s \in Shards}] :
       /\ \A i \in DOMAIN order : answers[i] \in Answers(order[i])
       /\ runs' = answers
  /\ step' = "first"
  /\ UNCHANGED <<declared, live, matching, scans, fundamentals, result, journalled, steady, edits>>

\* The command runs and its result is journalled; an exception leaves no
\* row.  (A journal that cannot be written costs the row and nothing else.)
Discover(secondPhase, a) ==
  LET r == RunDiscovery(scans, runs, secondPhase, fundamentals, a) IN
  /\ step = IF secondPhase THEN "second" ELSE "first"
  /\ result' = r
  /\ journalled' = IF r.outcome = "failed" THEN journalled
                   ELSE journalled \cup {[outcome |-> r.outcome, kept |-> AllCandidates(r)]}
  /\ step' = IF r.outcome = "planned" THEN "fundamentals" ELSE "end"
  /\ UNCHANGED <<declared, live, matching, scans, runs, fundamentals, steady, edits>>

\* The agent asks for what the plan names; the provider may omit any of it.
FetchFundamentals(covered) ==
  /\ step = "fundamentals"
  /\ covered \subseteq {c.symbol : c \in result.plan.selected}
  /\ fundamentals' = covered
  /\ step' = "second"
  /\ UNCHANGED <<declared, live, matching, scans, runs, result, journalled, steady, edits>>

Next ==
  \/ \E s \in Shards, state \in ScanStates : EditScan(s, state)
  \/ FetchScans
  \/ \E order \in FetchOrders : FetchRuns(order)
  \/ \E secondPhase \in BOOLEAN, a \in Arguments : Discover(secondPhase, a)
  \/ \E covered \in SUBSET Symbols : FetchFundamentals(covered)

Spec == Init /\ [][Next]_vars

(***************************************************************************)
(* Properties.                                                             *)
(***************************************************************************)

\* A run that got past drift and coverage discovered every symbol that the
\* declared scans match and no other, whatever a person had edited before
\* get_scans, the scanner truncated, the agent left out or handed over twice,
\* as long as no scan was edited between get_scans and run_scan ("every match
\* is returned").
UniverseCovered ==
  result.outcome \in {"planned", "selected"} /\ RequireComplete /\ steady =>
    {c.symbol : c \in result.batch} = UNION {declared[s] : s \in Shards}

\* Every discovered symbol is kept once, at the stage it reached, with a
\* reason that is true: a budget only where that budget was spent, a missing
\* answer only where one was missing, the unknown-sector limit only for an
\* unknown sector with budget to spare (all_candidates, select_for_*).
EveryCandidateAccounted ==
  result.outcome \in {"planned", "selected"} =>
    LET all == AllCandidates(result)
        Spent == Cardinality(result.selection.selected) >= result.args.budget
    IN /\ {c.symbol : c \in all} = {c.symbol : c \in result.batch}
       /\ Cardinality(all) = Cardinality(result.batch)
       /\ \A c \in all :
            /\ c.exit = "fundamentals_budget" => Cardinality(result.plan.selected) = FundamentalsBudget
            /\ result.outcome = "selected" =>
                 /\ c.exit = "fundamentals_missing" <=>
                      c.symbol \notin fundamentals /\ c.exit # "fundamentals_budget"
                 /\ c.exit = "enrichment_budget" => Spent
                 /\ c.exit = "unknown_sector_limit" => c.sector = UnknownSector /\ ~Spent

\* The enrichment budget is kept and shared: the unknown bucket stays within
\* the cap, a known candidate waits only when the budget is spent, and a
\* sector that has candidates waiting is at most one behind any other.
SelectionFair ==
  result.outcome = "selected" =>
    LET chosen == result.selection.selected
        waiting == result.selection.deferred
        Of(S, k) == Cardinality({c \in S : c.sector = k})
        sectors == {c.sector : c \in chosen \cup waiting}
    IN /\ Cardinality(chosen) <= result.args.budget
       /\ Of(chosen, UnknownSector) <= CapOf(result.args.budget, result.args.cap)
       /\ \A k \in sectors \ {UnknownSector} : Of(waiting, k) > 0 =>
            /\ Cardinality(chosen) = result.args.budget
            /\ \A j \in sectors : Of(chosen, j) <= Of(chosen, k) + 1
=============================================================================
