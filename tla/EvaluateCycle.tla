--------------------------- MODULE EvaluateCycle ---------------------------
(***************************************************************************)
(* The evaluate command (cli.py cmd_evaluate over agents/orchestrator.py   *)
(* run_cycle): several processes, each evaluating one bundle once, with    *)
(* the files they share - the risk limits and their lock, HALT, and the    *)
(* audit and trades tables of the journal.                                 *)
(*                                                                         *)
(* A bundle is reduced to what the command branches on: whether its        *)
(* contract, account and payloads are in order ("sound"), the symbol, the  *)
(* mode, --dry-run, the signal the strategy reads off it, the day's loss,  *)
(* the position, and three verdicts modelled in EntryGates and OrderSizing:*)
(* the entry gates and sizing ("clear"), the critic, and the quote with    *)
(* its session at submission.                                              *)
(***************************************************************************)
EXTENDS RiskLock, FiniteSets

CONSTANTS
  Cycles,           \* evaluate processes
  Symbols,
  Bundles,          \* what the agent may hand over
  KillAt(_),        \* the daily loss that trips the switch under limits
  MaxActs           \* bound: what people do to the limits, the lock and HALT

Sides == {"buy", "sell"}
Outcomes == {"none", "NO_SIGNAL", "WATCH", "ERROR", "REJECTED_BY_RISK",
             "REJECTED_BY_CRITIC", "SHADOW_FILLED", "LIVE_FILLED"}

BundleType ==
  [sound: BOOLEAN, symbol: Symbols, mode: {"shadow", "live"}, dry: BOOLEAN,
   signal: {"none", "watch", "raises", "buy", "sell"}, loss: Nat,
   holding: {"none", "dust", "shares"}, clear: BOOLEAN, critic: BOOLEAN, quote: BOOLEAN]

ASSUME EvaluateAssumption ==
  /\ Bundles \subseteq BundleType
  /\ Bundles # {}
  /\ \A limits \in Limits : KillAt(limits) \in Nat
  /\ MaxActs \in Nat

VARIABLES
  halt,      \* whether the HALT file exists
  audit,     \* the audit table: cycle and outcome
  trades,    \* the trades table: client key and the cycle that wrote it
  proc,      \* the evaluate processes
  acts       \* how often a person edited, locked, halted or resumed

vars == <<yaml, lock, locker, approved, halt, audit, trades, proc, acts>>
journal == <<audit, trades>>

\* build_client_key over one account, one strategy and one UTC day: the
\* keys of another day are others.
Keys == Symbols \X Sides

(***************************************************************************)
(* One cycle: run_cycle as a function of what the process has read.        *)
(***************************************************************************)
Result(outcome, trip) == [outcome |-> outcome, trip |-> trip]

NoResult == Result("none", FALSE)

KeyOf(b) == <<b.symbol, b.signal>>

Killed(b, limits) == b.loss >= KillAt(limits)

\* Mutant: the exits let through forget the switch.
TripOf_EntriesOnly(b, limits) == b.signal = "buy" /\ Killed(b, limits)

\* What the decision of the engine says of the switch.  _build_exit drops
\* it when it rejects an exit that is worth less than a cent.
TripOf(b, limits) ==
  Killed(b, limits) /\ ~(b.signal = "sell" /\ b.holding = "dust")

\* check_limits, size_position, exit_notional.
RiskApproves(b, limits) ==
  IF b.signal = "sell" THEN b.holding = "shares"
  ELSE ~Killed(b, limits) /\ b.clear

\* preflight and build_order_payload.  The command declares no post-fill
\* protection, so no live entry is covered.
PayloadBuilds(b, keys) ==
  /\ KeyOf(b) \notin keys
  /\ b.quote
  /\ b.mode = "live" => b.signal = "sell"

RunCycle(b, limits, keys, halted) ==
  IF b.signal = "raises" THEN Result("ERROR", FALSE)
  ELSE IF b.signal = "none" THEN Result("NO_SIGNAL", FALSE)
  ELSE IF b.signal = "watch" THEN Result("WATCH", FALSE)
  ELSE IF halted THEN Result("REJECTED_BY_RISK", FALSE)
  ELSE Result(
    IF ~RiskApproves(b, limits) THEN "REJECTED_BY_RISK"
    ELSE IF ~b.critic THEN "REJECTED_BY_CRITIC"
    ELSE IF ~PayloadBuilds(b, keys) THEN "REJECTED_BY_RISK"
    ELSE IF b.mode = "shadow" THEN "SHADOW_FILLED" ELSE "LIVE_FILLED",
    TripOf(b, limits))

(***************************************************************************)
(* Processes.  "cleared" is history: a human deleted HALT since the        *)
(* process began.  "lost" records a journal or HALT write that failed.     *)
(***************************************************************************)
Steps == {"idle", "read", "loaded", "ready", "decided", "journal", "audited",
          "done", "refused", "crashed"}

Decided == {"decided", "journal", "audited", "done"}
PastConfig == {"loaded", "ready"} \cup Decided

ABundle == CHOOSE b \in Bundles : TRUE

Idle ==
  [step |-> "idle", bundle |-> ABundle, limits |-> NoLimits, locked |-> FALSE,
   halted |-> FALSE, cleared |-> FALSE, repo |-> FALSE, keys |-> {},
   key |-> <<>>, result |-> NoResult, lost |-> {}]

Process ==
  [step: Steps, bundle: Bundles, limits: Limits \cup {NoLimits}, locked: BOOLEAN,
   halted: BOOLEAN, cleared: BOOLEAN, repo: BOOLEAN, keys: SUBSET Keys,
   key: Keys \cup {<<>>}, result: [outcome: Outcomes, trip: BOOLEAN],
   lost: SUBSET {"halt", "audit", "trade"}]

TypeOK ==
  /\ LockTypeOK
  /\ acts \in 0..MaxActs
  /\ halt \in BOOLEAN
  /\ audit \subseteq [cycle: Cycles, outcome: Outcomes]
  /\ trades \subseteq [key: Keys, cycle: Cycles]
  /\ proc \in [Cycles -> Process]
  \* Past its configuration a command has limits that validate.
  /\ \A c \in Cycles : proc[c].step \in PastConfig => proc[c].limits \in Limits

Init ==
  /\ LockInit
  /\ halt = FALSE
  /\ audit = {}
  /\ trades = {}
  /\ proc = [c \in Cycles |-> Idle]
  /\ acts = 0

\* The process reads its bundle and risk.yaml.  "locked" and "halted" are
\* history: a lock, HALT existed when it began.
Begin(c, b) ==
  /\ proc[c].step = "idle"
  /\ proc' = [proc EXCEPT ![c] =
       [Idle EXCEPT !.step = "read", !.bundle = b, !.limits = yaml,
                    !.locked = (lock # NoLock), !.halted = halt]]
  /\ UNCHANGED <<lockVars, halt, journal, acts>>

\* Mutant: without a lock a file that does not validate is admitted.
Admitted_Unvalidated(c) == Verified(proc[c].limits) /\ proc[c].bundle.sound

\* load_config verifies the lock, then the bundle is checked and the
\* snapshot built.
Admitted(c) ==
  /\ proc[c].limits \in Limits
  /\ Verified(proc[c].limits)
  /\ proc[c].bundle.sound

Verify(c) ==
  /\ proc[c].step = "read"
  /\ proc' = [proc EXCEPT ![c] =
       IF Admitted(c) THEN [@ EXCEPT !.step = "loaded"] ELSE [Idle EXCEPT !.step = "refused"]]
  /\ UNCHANGED <<lockVars, halt, journal, acts>>

\* The journal is read, or it cannot be read (or --no-journal says not to).
ReadJournal(c, readable) ==
  /\ proc[c].step = "loaded"
  /\ proc' = [proc EXCEPT ![c] =
       [@ EXCEPT !.step = "ready",
                 !.repo = readable,
                 !.keys = IF readable THEN {t.key : t \in trades} ELSE {}]]
  /\ UNCHANGED <<lockVars, halt, journal, acts>>

\* Mutant: HALT as it was when the command began.
Decide_HaltAtStart(c) ==
  /\ proc[c].step = "ready"
  /\ LET p == proc[c] IN
     proc' = [proc EXCEPT ![c] =
       [@ EXCEPT !.step = "decided",
                 !.key = IF p.bundle.signal \in Sides THEN KeyOf(p.bundle) ELSE <<>>,
                 !.result = RunCycle(p.bundle, p.limits, p.keys, p.halted),
                 !.keys = {}]]
  /\ UNCHANGED <<lockVars, halt, journal, acts>>

\* run_cycle: the strategy and the engine, which reads HALT, the critic and
\* the payload, and in shadow mode the simulated fill.
Decide(c) ==
  /\ proc[c].step = "ready"
  /\ LET p == proc[c] IN
     proc' = [proc EXCEPT ![c] =
       [@ EXCEPT !.step = "decided",
                 !.key = IF p.bundle.signal \in Sides THEN KeyOf(p.bundle) ELSE <<>>,
                 !.result = RunCycle(p.bundle, p.limits, p.keys, halt),
                 !.keys = {}]]
  /\ UNCHANGED <<lockVars, halt, journal, acts>>

\* An exception leaves run_cycle: no HALT, no journal.
Break(c) ==
  /\ proc[c].step = "ready"
  /\ proc' = [proc EXCEPT ![c] = [Idle EXCEPT !.step = "refused"]]
  /\ UNCHANGED <<lockVars, halt, journal, acts>>

\* _write_halt, before the journal.
WriteHalt(c, written) ==
  LET due == proc[c].result.trip /\ ~proc[c].bundle.dry IN
  /\ proc[c].step = "decided"
  /\ ~due => written
  /\ halt' = (halt \/ (due /\ written))
  /\ proc' = [proc EXCEPT ![c] =
       [@ EXCEPT !.step = "journal",
                 !.lost = IF written THEN proc[c].lost ELSE proc[c].lost \cup {"halt"}]]
  /\ UNCHANGED <<lockVars, journal, acts>>

Records(c) == proc[c].repo /\ ~proc[c].bundle.dry

\* Mutant: the trade is recorded first.
RecordAudit_TradeFirst(c, written) ==
  LET p == proc[c] IN
  /\ p.step = "journal"
  /\ ~Records(c) => written
  /\ trades' = IF Records(c) /\ p.result.outcome = "SHADOW_FILLED" /\ written
                  /\ p.key \notin {t.key : t \in trades}
               THEN trades \cup {[key |-> p.key, cycle |-> c]} ELSE trades
  /\ proc' = [proc EXCEPT ![c].step = IF Records(c) THEN "audited" ELSE "done"]
  /\ UNCHANGED <<lockVars, halt, audit, acts>>

\* record_audit, a transaction of its own; when it fails the trade is not
\* tried.
RecordAudit(c, written) ==
  LET p == proc[c] IN
  /\ p.step = "journal"
  /\ ~Records(c) => written
  /\ audit' = IF Records(c) /\ written
              THEN audit \cup {[cycle |-> c, outcome |-> p.result.outcome]} ELSE audit
  /\ proc' = [proc EXCEPT ![c] =
       [@ EXCEPT !.step = IF Records(c) /\ written THEN "audited" ELSE "done",
                 !.lost = IF written THEN proc[c].lost ELSE proc[c].lost \cup {"audit"}]]
  /\ UNCHANGED <<lockVars, halt, trades, acts>>

\* record_trade: a key that is taken raises ValueError, which is reported.
RecordTrade(c, written) ==
  LET p == proc[c]
      due == p.result.outcome = "SHADOW_FILLED" /\ p.key \notin {t.key : t \in trades}
  IN
  /\ p.step = "audited"
  /\ ~due => written
  /\ trades' = IF due /\ written THEN trades \cup {[key |-> p.key, cycle |-> c]} ELSE trades
  /\ proc' = [proc EXCEPT ![c] =
       [@ EXCEPT !.step = "done",
                 !.lost = IF written THEN proc[c].lost ELSE proc[c].lost \cup {"trade"}]]
  /\ UNCHANGED <<lockVars, halt, audit, acts>>

Crash(c) ==
  /\ proc[c].step \notin {"idle", "done", "refused", "crashed"}
  /\ proc' = [proc EXCEPT ![c] = [Idle EXCEPT !.step = "crashed"]]
  /\ UNCHANGED <<lockVars, halt, journal, acts>>

(***************************************************************************)
(* People.                                                                 *)
(***************************************************************************)
Act ==
  /\ acts < MaxActs
  /\ acts' = acts + 1

ChangeLimits ==
  /\ Act
  /\ LoadToLock \/ \E values \in Limits \cup {NoLimits} : EditYaml(values)
  /\ UNCHANGED <<halt, journal, proc>>

FinishLock ==
  /\ WriteLock \/ TearLock
  /\ UNCHANGED <<halt, journal, proc, acts>>

TouchHalt ==
  /\ Act
  /\ ~halt
  /\ halt' = TRUE
  /\ UNCHANGED <<lockVars, journal, proc>>

ClearHalt ==
  /\ Act
  /\ halt
  /\ halt' = FALSE
  /\ proc' = [c \in Cycles |-> [proc[c] EXCEPT !.cleared = (proc[c].step # "idle")]]
  /\ UNCHANGED <<lockVars, journal>>

Next ==
  \/ ChangeLimits
  \/ FinishLock
  \/ \E c \in Cycles :
       \/ \E b \in Bundles : Begin(c, b)
       \/ Verify(c)
       \/ \E readable \in BOOLEAN : ReadJournal(c, readable)
       \/ Decide(c)
       \/ Break(c)
       \/ \E written \in BOOLEAN :
            WriteHalt(c, written) \/ RecordAudit(c, written) \/ RecordTrade(c, written)
       \/ Crash(c)
  \/ TouchHalt
  \/ ClearHalt

Spec == Init /\ [][Next]_vars

(***************************************************************************)
(* Properties.                                                             *)
(***************************************************************************)
HasPlan(p) == p.result.outcome \in {"SHADOW_FILLED", "LIVE_FILLED"}

\* Once a baseline exists, every command that begins and gets past its
\* configuration decides under limits that a human confirmed, also when
\* risk.yaml or the lock is rewritten between its two reads, and when a
\* lock-risk dies while it writes (load_risk_config, verify_risk_lock).
LimitsWereApproved ==
  \A c \in Cycles :
    proc[c].locked /\ proc[c].step \in PastConfig => proc[c].limits \in approved

\* A recorded trade has its SHADOW_FILLED audit row, no key has two trades,
\* and a command that finished with an audited fill left a trade of its key
\* (its own, or the one that took the key) unless its own write failed.
AuditAndTradeAgree ==
  /\ \A t \in trades : [cycle |-> t.cycle, outcome |-> "SHADOW_FILLED"] \in audit
  /\ \A t, u \in trades : t.key = u.key => t = u
  /\ \A c \in Cycles :
       /\ proc[c].step = "done"
       /\ [cycle |-> c, outcome |-> "SHADOW_FILLED"] \in audit
       /\ "trade" \notin proc[c].lost
       => \E t \in trades : t.key = proc[c].key

\* A cycle that is past writing HALT for a loss that trips the switch.
Tripped(p) ==
  /\ p.step \in {"journal", "audited", "done"}
  /\ p.result.trip
  /\ ~p.bundle.dry /\ ~p.cleared /\ "halt" \notin p.lost

\* While HALT stands, or once a cycle has tripped the switch and nobody has
\* deleted its HALT, no other cycle comes to hold a plan, entry or exit, not
\* even one that began before ("HALT still stops the next cycle outright").
HaltStopsPlans ==
  [][\A c \in Cycles :
       /\ halt \/ \E d \in Cycles : Tripped(proc[d])
       /\ HasPlan(proc'[c])
       => HasPlan(proc[c])]_vars

\* A cycle that saw the day's loss beyond the kill switch and let an exit
\* through leaves HALT behind before it touches the journal, whatever else
\* fails, unless it was a dry run, the file could not be written, or a
\* human deleted it (check_limits, _write_halt).
KillLeavesHalt ==
  \A c \in Cycles : LET p == proc[c] IN
    /\ p.step \in {"journal", "audited", "done"}
    /\ HasPlan(p)
    /\ Killed(p.bundle, p.limits)
    /\ ~p.bundle.dry /\ ~p.cleared /\ "halt" \notin p.lost
    => halt
=============================================================================
