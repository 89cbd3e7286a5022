------------------------ MODULE EvaluateCycleProofs ------------------------
(***************************************************************************)
(* The safety of EvaluateCycle for every number of processes and bundles,  *)
(* and any set of limits.                                                  *)
(*                                                                         *)
(* The inductive invariant says of the lock that it only ever holds what a *)
(* human confirmed, and of each process what it may rely on at its step.   *)
(* A step of one process leaves the others in peace: what it does to the   *)
(* shared files is the relation Calm, under which what is known of an      *)
(* unmoved process stays true.                                             *)
(***************************************************************************)
EXTENDS EvaluateCycle, TLAPS

LockKnown ==
  /\ lock \in approved \cup {NoLock, Torn}
  /\ locker \in approved \cup {NoLimits}

\* What holds of a process at its step: its limits, the switch, its journal rows.
LimitsKnown(c) ==
  /\ proc[c].locked /\ proc[c].step = "read" => lock # NoLock
  /\ proc[c].locked /\ proc[c].step \in PastConfig => proc[c].limits \in approved

TripKnown(c) ==
  /\ /\ proc[c].step \in Decided
     /\ HasPlan(proc[c])
     /\ Killed(proc[c].bundle, proc[c].limits)
     => proc[c].result.trip
  /\ /\ proc[c].step \in {"journal", "audited", "done"}
     /\ proc[c].result.trip
     /\ ~proc[c].bundle.dry /\ ~proc[c].cleared /\ "halt" \notin proc[c].lost
     => halt

RowsKnown(c) ==
  /\ proc[c].step \in Decided /\ HasPlan(proc[c]) => proc[c].key \in Keys
  /\ \A r \in audit : r.cycle = c =>
       \/ proc[c].step \in {"audited", "done"} /\ r.outcome = proc[c].result.outcome
       \/ proc[c].step = "crashed"
  /\ proc[c].step = "audited" => [cycle |-> c, outcome |-> proc[c].result.outcome] \in audit
  /\ /\ proc[c].step = "done"
     /\ [cycle |-> c, outcome |-> "SHADOW_FILLED"] \in audit
     /\ "trade" \notin proc[c].lost
     => \E t \in trades : t.key = proc[c].key

Known(c) == LimitsKnown(c) /\ TripKnown(c) /\ RowsKnown(c)

TradesKnown ==
  /\ \A t \in trades : [cycle |-> t.cycle, outcome |-> "SHADOW_FILLED"] \in audit
  /\ \A t, u \in trades : t.key = u.key => t = u

IInv ==
  /\ TypeOK
  /\ LockKnown
  /\ TradesKnown
  /\ \A c \in Cycles : Known(c)

\* What no step but the deletion of HALT ever undoes.
Calm ==
  /\ halt => halt'
  /\ lock # NoLock => lock' # NoLock
  /\ approved \subseteq approved'
  /\ audit \subseteq audit'
  /\ trades \subseteq trades'

\* One process moves to p, and writes no rows but its own.
Moves(c, p) ==
  /\ proc' = [proc EXCEPT ![c] = p]
  /\ \A r \in audit' \ audit : r.cycle = c

-----------------------------------------------------------------------------
(***************************************************************************)
(* run_cycle as a function.                                                *)
(***************************************************************************)

\* An idle process is a process.
LEMMA IdleType == Idle \in Process /\ ABundle \in Bundles
<1>1. ABundle \in Bundles
  BY EvaluateAssumption DEF ABundle
<1>2. QED
  BY <1>1 DEF Idle, Process, Steps, NoResult, Result, Outcomes

\* A cycle that finds HALT builds no plan, and one that builds a plan in
\* spite of the day's loss trips the switch.
LEMMA RunCycleFacts ==
  ASSUME NEW b \in Bundles, NEW limits \in Limits, NEW keys \in SUBSET Keys,
         NEW halted \in BOOLEAN
  PROVE  LET r == RunCycle(b, limits, keys, halted) IN
         /\ r \in [outcome: Outcomes, trip: BOOLEAN]
         /\ halted => r.outcome \notin {"SHADOW_FILLED", "LIVE_FILLED"}
         /\ r.outcome \in {"SHADOW_FILLED", "LIVE_FILLED"} => b.signal \in Sides
         /\ r.outcome \in {"SHADOW_FILLED", "LIVE_FILLED"} /\ Killed(b, limits) => r.trip
<1> DEFINE r == RunCycle(b, limits, keys, halted)
<1>1. b \in BundleType
  BY EvaluateAssumption
<1>2. TripOf(b, limits) \in BOOLEAN
  BY DEF TripOf
<1>3. CASE b.signal \in {"raises", "none", "watch"} \/ halted
  <2>1. PICK o \in {"ERROR", "NO_SIGNAL", "WATCH", "REJECTED_BY_RISK"} : r = Result(o, FALSE)
    BY <1>3 DEF RunCycle
  <2>2. r.outcome = o
    BY <2>1 DEF Result
  <2>3. r \in [outcome: Outcomes, trip: BOOLEAN]
    BY <2>1 DEF Result, Outcomes
  <2>4. QED
    BY <2>2, <2>3
<1>4. CASE b.signal \notin {"raises", "none", "watch"} /\ ~halted
  <2>1. b.signal \in {"buy", "sell"}
    BY <1>1, <1>4 DEF BundleType
  <2>2. PICK o \in {"REJECTED_BY_RISK", "REJECTED_BY_CRITIC", "SHADOW_FILLED", "LIVE_FILLED"} :
          /\ r = Result(o, TripOf(b, limits))
          /\ o \in {"SHADOW_FILLED", "LIVE_FILLED"} => RiskApproves(b, limits)
    BY <1>4 DEF RunCycle
  <2>3. r.outcome = o /\ r.trip = TripOf(b, limits)
    BY <2>2 DEF Result
  <2>4. RiskApproves(b, limits) /\ Killed(b, limits) => TripOf(b, limits)
    BY <2>1 DEF RiskApproves, TripOf
  <2>5. r \in [outcome: Outcomes, trip: BOOLEAN]
    BY <1>2, <2>2 DEF Result, Outcomes
  <2>6. QED
    BY <1>4, <2>2, <2>1, <2>3, <2>4, <2>5 DEF r, Sides
<1>5. QED
  BY <1>3, <1>4

-----------------------------------------------------------------------------
(***************************************************************************)
(* One process moves.                                                      *)
(***************************************************************************)

\* The table of processes after one of them moved.
LEMMA Moved ==
  ASSUME TypeOK, NEW c \in Cycles, NEW p \in Process, Moves(c, p)
  PROVE  /\ proc' \in [Cycles -> Process]
         /\ proc'[c] = p
         /\ \A d \in Cycles \ {c} : proc'[d] = proc[d]
BY DEF TypeOK, Moves

\* What is known of a process that did not move stays true.
LEMMA OthersKeep ==
  ASSUME IInv, Calm, NEW d \in Cycles, proc'[d] = proc[d],
         \A r \in audit' \ audit : r.cycle # d
  PROVE  Known(d)'
<1>1. Known(d)
  BY DEF IInv
<1>2. LimitsKnown(d)'
  BY <1>1 DEF Known, LimitsKnown, Calm
<1>4. TripKnown(d)'
  BY <1>1 DEF Known, TripKnown, Calm, HasPlan, Killed
<1>5. RowsKnown(d)'
  BY <1>1 DEF Known, RowsKnown, Calm, HasPlan
<1>6. QED
  BY <1>2, <1>4, <1>5 DEF Known

\* A move keeps the invariant when the mover is well informed after it.
LEMMA MoveKeeps ==
  ASSUME IInv, Calm, NEW c \in Cycles, NEW p \in Process, Moves(c, p),
         LockTypeOK', LockKnown', TradesKnown', Known(c)',
         acts' = acts, halt' \in BOOLEAN,
         audit' \subseteq [cycle: Cycles, outcome: Outcomes],
         trades' \subseteq [key: Keys, cycle: Cycles],
         p.step \in PastConfig => p.limits \in Limits
  PROVE  IInv'
<1>1. TypeOK
  BY DEF IInv
<1>2. /\ proc' \in [Cycles -> Process]
      /\ proc'[c] = p
      /\ \A d \in Cycles \ {c} : proc'[d] = proc[d]
  BY <1>1, Moved
<1>3. TypeOK'
  BY <1>1, <1>2 DEF TypeOK
<1>4. ASSUME NEW d \in Cycles PROVE Known(d)'
  <2>1. CASE d = c
    BY <2>1
  <2>2. CASE d # c
    <3>1. proc'[d] = proc[d] /\ \A r \in audit' \ audit : r.cycle # d
      BY <1>2, <2>2 DEF Moves
    <3>2. QED
      BY <3>1, OthersKeep
  <2>3. QED
    BY <2>1, <2>2
<1>5. QED
  BY <1>3, <1>4 DEF IInv

\* The mover changed no file.
LEMMA QuietMove ==
  ASSUME IInv, NEW c \in Cycles, NEW p \in Process,
         proc' = [proc EXCEPT ![c] = p], UNCHANGED <<lockVars, halt, journal, acts>>,
         p.step \in PastConfig => p.limits \in Limits,
         Known(c)'
  PROVE  IInv'
<1>1. UNCHANGED <<yaml, lock, locker, approved, halt, audit, trades, acts>>
  BY DEF lockVars, journal
<1>2. Calm /\ Moves(c, p)
  BY <1>1 DEF Calm, Moves
<1>3. LockTypeOK' /\ LockKnown' /\ TradesKnown'
  BY <1>1 DEF IInv, TypeOK, LockTypeOK, LockKnown, TradesKnown
<1>4. /\ halt' \in BOOLEAN
      /\ audit' \subseteq [cycle: Cycles, outcome: Outcomes]
      /\ trades' \subseteq [key: Keys, cycle: Cycles]
  BY <1>1 DEF IInv, TypeOK
<1>5. QED
  BY <1>1, <1>2, <1>3, <1>4, MoveKeeps

-----------------------------------------------------------------------------
(***************************************************************************)
(* The steps of a process.                                                 *)
(***************************************************************************)

\* A process that begins has read risk.yaml and nothing else.
LEMMA BeginKeeps ==
  ASSUME IInv, NEW c \in Cycles, NEW b \in Bundles, Begin(c, b)
  PROVE  IInv'
<1> DEFINE p == [Idle EXCEPT !.step = "read", !.bundle = b, !.limits = yaml,
                             !.locked = (lock # NoLock), !.halted = halt]
<1>1. TypeOK
  BY DEF IInv
<1>2. p \in Process
  <2>1. /\ "read" \in Steps /\ b \in Bundles /\ yaml \in Limits \cup {NoLimits}
        /\ (lock # NoLock) \in BOOLEAN /\ halt \in BOOLEAN
    BY <1>1 DEF TypeOK, LockTypeOK, Steps
  <2>2. Idle \in Process
    BY IdleType
  <2>3. QED
    BY <2>1, <2>2 DEF Process
<1>3. /\ p.step = "read" /\ p.halted = halt /\ p.cleared = FALSE
      /\ p.locked = (lock # NoLock)
  BY DEF Idle
<1>4. proc' = [proc EXCEPT ![c] = p] /\ UNCHANGED <<lockVars, halt, journal, acts>>
  BY DEF Begin
<1>5. UNCHANGED <<lock, halt, audit>> /\ proc'[c] = p
  BY <1>1, <1>4 DEF lockVars, journal, TypeOK
<1>6. LimitsKnown(c)' /\ TripKnown(c)'
  BY <1>3, <1>5 DEF LimitsKnown, TripKnown, PastConfig, Decided
<1>7. RowsKnown(c)'
  <2>1. RowsKnown(c) /\ proc[c].step = "idle"
    BY DEF IInv, Known, Begin
  <2>2. QED
    BY <2>1, <1>3, <1>5 DEF RowsKnown, Decided
<1>8. p.step \notin PastConfig
  BY <1>3 DEF PastConfig, Decided
<1>9. QED
  BY <1>2, <1>4, <1>6, <1>7, <1>8, QuietMove DEF Known

\* A process that gives up, before it wrote any rows.
LEMMA LeavingKeeps ==
  ASSUME IInv, NEW c \in Cycles, NEW step \in {"refused", "crashed"},
         proc[c].step \in {"audited", "done", "crashed"} => step = "crashed",
         proc' = [proc EXCEPT ![c] = [Idle EXCEPT !.step = step]],
         UNCHANGED <<lockVars, halt, journal, acts>>
  PROVE  IInv'
<1> DEFINE p == [Idle EXCEPT !.step = step]
<1>1. TypeOK
  BY DEF IInv
<1>2. p \in Process
  BY IdleType DEF Process, Steps
<1>3. p.step = step /\ p.halted = FALSE
  BY DEF Idle
<1>4. UNCHANGED <<halt, audit>> /\ proc'[c] = p
  BY <1>1 DEF journal, TypeOK
<1>5. LimitsKnown(c)' /\ TripKnown(c)'
  BY <1>3, <1>4 DEF LimitsKnown, TripKnown, PastConfig, Decided
<1>6. RowsKnown(c)'
  <2>1. RowsKnown(c)
    BY DEF IInv, Known
  <2>2. QED
    BY <2>1, <1>3, <1>4 DEF RowsKnown, Decided
<1>7. p.step \notin PastConfig
  BY <1>3 DEF PastConfig, Decided
<1>8. QED
  BY <1>2, <1>5, <1>6, <1>7, QuietMove DEF Known

\* The lock a process verifies against held confirmed limits.
LEMMA VerifyKeeps ==
  ASSUME IInv, NEW c \in Cycles, Verify(c)
  PROVE  IInv'
<1>1. CASE ~Admitted(c)
  <2>1. proc' = [proc EXCEPT ![c] = [Idle EXCEPT !.step = "refused"]]
    BY <1>1 DEF Verify
  <2>2. QED
    BY <2>1, LeavingKeeps DEF Verify
<1>2. CASE Admitted(c)
  <2> DEFINE p == [proc[c] EXCEPT !.step = "loaded"]
  <2>1. TypeOK /\ LockKnown /\ Known(c)
    BY DEF IInv
  <2>2. proc[c] \in Process
    BY <2>1 DEF TypeOK
  <2>3. p \in Process
    BY <2>2 DEF Process, Steps
  <2>4. p.step = "loaded" /\ p.limits = proc[c].limits /\ p.locked = proc[c].locked
        /\ p.halted = proc[c].halted /\ p.cleared = proc[c].cleared
    BY <2>2 DEF Process
  <2>5. proc' = [proc EXCEPT ![c] = p] /\ UNCHANGED <<lockVars, halt, journal, acts>>
    BY <1>2 DEF Verify
  <2>6. UNCHANGED <<lock, approved, halt, audit>> /\ proc'[c] = p
    BY <2>1, <2>5 DEF lockVars, journal, TypeOK
  <2>7. proc[c].step = "read"
    BY DEF Verify
  <2>8. LimitsKnown(c)'
    <3>1. p.locked => p.limits \in approved
      BY <1>2, <2>1, <2>4, <2>7, RiskLockAssumption
      DEF Admitted, Verified, Known, LimitsKnown, LockKnown
    <3>2. QED
      BY <3>1, <2>4, <2>6 DEF LimitsKnown
  <2>9. TripKnown(c)'
    BY <2>1, <2>4, <2>6 DEF Known, TripKnown, Decided
  <2>10. RowsKnown(c)'
    BY <2>1, <2>4, <2>6, <2>7 DEF Known, RowsKnown, Decided
  <2>11. p.limits \in Limits
    BY <1>2, <2>4 DEF Admitted
  <2>12. QED
    BY <2>3, <2>5, <2>8, <2>9, <2>10, <2>11, QuietMove DEF Known
<1>3. QED
  BY <1>1, <1>2

\* What the journal gave the duplicate guard is among its keys.
LEMMA ReadJournalKeeps ==
  ASSUME IInv, NEW c \in Cycles, NEW readable \in BOOLEAN, ReadJournal(c, readable)
  PROVE  IInv'
<1> DEFINE keys == IF readable THEN {t.key : t \in trades} ELSE {}
           p == [proc[c] EXCEPT !.step = "ready", !.repo = readable, !.keys = keys]
<1>1. TypeOK /\ Known(c)
  BY DEF IInv
<1>2. proc[c] \in Process /\ trades \subseteq [key: Keys, cycle: Cycles]
  BY <1>1 DEF TypeOK
<1>3. p \in Process
  <2>1. keys \in SUBSET Keys
    BY <1>2
  <2> HIDE DEF keys
  <2>2. QED
    BY <1>2, <2>1 DEF Process, Steps
<1>4. p.step = "ready" /\ p.limits = proc[c].limits /\ p.locked = proc[c].locked
      /\ p.halted = proc[c].halted /\ p.cleared = proc[c].cleared
  BY <1>2 DEF Process
<1>5. proc' = [proc EXCEPT ![c] = p] /\ UNCHANGED <<lockVars, halt, journal, acts>>
  BY DEF ReadJournal
<1>6. UNCHANGED <<lock, approved, halt, audit>> /\ proc'[c] = p
  BY <1>1, <1>5 DEF lockVars, journal, TypeOK
<1>7. proc[c].step = "loaded" /\ proc[c].step \in PastConfig
  BY DEF ReadJournal, PastConfig
<1> HIDE DEF p
<1>8. LimitsKnown(c)' /\ TripKnown(c)'
  <2>1. LimitsKnown(c)'
    BY <1>1, <1>4, <1>6, <1>7 DEF Known, LimitsKnown
  <2>2. TripKnown(c)'
    BY <1>1, <1>4, <1>6, <1>7 DEF Known, TripKnown, Decided
  <2>3. QED
    BY <2>1, <2>2
<1>9. RowsKnown(c)'
  BY <1>1, <1>4, <1>6, <1>7 DEF Known, RowsKnown, Decided
<1>10. p.limits \in Limits
  BY <1>1, <1>4, <1>7 DEF TypeOK
<1>11. QED
  BY <1>3, <1>5, <1>8, <1>9, <1>10, QuietMove DEF Known

\* The cycle itself, under RunCycleFacts.
LEMMA DecideKeeps ==
  ASSUME IInv, NEW c \in Cycles, Decide(c)
  PROVE  IInv'
<1> DEFINE q == proc[c]
           r == RunCycle(q.bundle, q.limits, q.keys, halt)
           k == IF q.bundle.signal \in Sides THEN KeyOf(q.bundle) ELSE <<>>
           p == [q EXCEPT !.step = "decided", !.key = k, !.result = r, !.keys = {}]
<1>1. TypeOK /\ Known(c)
  BY DEF IInv
<1>2. q \in Process /\ halt \in BOOLEAN
  BY <1>1 DEF TypeOK
<1>3. q.step = "ready" /\ q.step \in PastConfig /\ q.limits \in Limits
  BY <1>1 DEF Decide, PastConfig, TypeOK
<1>4. q.bundle \in Bundles /\ q.keys \in SUBSET Keys
  BY <1>2 DEF Process
<1>5. /\ r \in [outcome: Outcomes, trip: BOOLEAN]
      /\ halt => r.outcome \notin {"SHADOW_FILLED", "LIVE_FILLED"}
      /\ r.outcome \in {"SHADOW_FILLED", "LIVE_FILLED"} => q.bundle.signal \in Sides
      /\ r.outcome \in {"SHADOW_FILLED", "LIVE_FILLED"} /\ Killed(q.bundle, q.limits) => r.trip
  BY <1>2, <1>3, <1>4, RunCycleFacts
<1>6. k \in Keys \cup {<<>>} /\ (q.bundle.signal \in Sides => k \in Keys)
  <2>1. q.bundle.symbol \in Symbols
    BY <1>4, EvaluateAssumption DEF BundleType
  <2>2. QED
    BY <2>1 DEF KeyOf, Keys
<1> HIDE DEF r, k
<1>7. p \in Process
  BY <1>2, <1>5, <1>6 DEF Process, Steps
<1>8. /\ p.step = "decided" /\ p.limits = q.limits /\ p.locked = q.locked
      /\ p.halted = q.halted /\ p.cleared = q.cleared /\ p.bundle = q.bundle /\ p.result = r
      /\ p.key = k
  BY <1>2 DEF Process
<1>9. proc' = [proc EXCEPT ![c] = p] /\ UNCHANGED <<lockVars, halt, journal, acts>>
  BY DEF Decide, r, k
<1>10. UNCHANGED <<lock, approved, halt, audit>> /\ proc'[c] = p
  BY <1>1, <1>9 DEF lockVars, journal, TypeOK
<1> HIDE DEF p
<1>11. LimitsKnown(c)'
  BY <1>1, <1>3, <1>8, <1>10 DEF Known, LimitsKnown
<1>13. TripKnown(c)'
  BY <1>5, <1>8, <1>10 DEF TripKnown, HasPlan, Killed
<1>14. RowsKnown(c)'
  BY <1>1, <1>3, <1>5, <1>6, <1>8, <1>10 DEF Known, RowsKnown, HasPlan
<1>15. QED
  BY <1>3, <1>7, <1>8, <1>9, <1>11, <1>13, <1>14, QuietMove DEF Known

\* HALT stands once a process that tripped the switch is past it.
LEMMA WriteHaltKeeps ==
  ASSUME IInv, NEW c \in Cycles, NEW written \in BOOLEAN, WriteHalt(c, written)
  PROVE  IInv'
<1> DEFINE q == proc[c]
           due == q.result.trip /\ ~q.bundle.dry
           lost == IF written THEN q.lost ELSE q.lost \cup {"halt"}
           p == [q EXCEPT !.step = "journal", !.lost = lost]
<1>1. TypeOK /\ Known(c)
  BY DEF IInv
<1>2. q \in Process /\ halt \in BOOLEAN
  BY <1>1 DEF TypeOK
<1>3. lost \in SUBSET {"halt", "audit", "trade"} /\ (~written => "halt" \in lost)
  BY <1>2 DEF Process
<1> HIDE DEF lost
<1>4. p \in Process
  BY <1>2, <1>3 DEF Process, Steps
<1>5. /\ p.step = "journal" /\ p.limits = q.limits /\ p.locked = q.locked /\ p.lost = lost
      /\ p.halted = q.halted /\ p.cleared = q.cleared /\ p.bundle = q.bundle
      /\ p.result = q.result /\ p.key = q.key
  BY <1>2 DEF Process
<1>6. /\ proc' = [proc EXCEPT ![c] = p]
      /\ halt' = (halt \/ (due /\ written))
      /\ UNCHANGED <<yaml, lock, locker, approved, audit, trades, acts>>
  BY DEF WriteHalt, lockVars, journal, lost
<1>7. proc'[c] = p
  BY <1>1, <1>6 DEF TypeOK
<1>8. q.step = "decided" /\ (~due => written)
  BY DEF WriteHalt
<1> HIDE DEF p
<1>9. LimitsKnown(c)'
  <2>1. LimitsKnown(c)'
    BY <1>1, <1>5, <1>6, <1>7, <1>8 DEF Known, LimitsKnown, PastConfig, Decided
  <2>2. QED
    BY <2>1
<1>10. TripKnown(c)'
  <2>1. /\ p.result.trip /\ ~p.bundle.dry /\ "halt" \notin p.lost => halt'
    BY <1>3, <1>5, <1>6, <1>8
  <2>2. p.step \in Decided /\ HasPlan(p) /\ Killed(p.bundle, p.limits) => p.result.trip
    BY <1>1, <1>5, <1>8 DEF Known, TripKnown, Decided, HasPlan, Killed
  <2>3. QED
    BY <1>7, <2>1, <2>2 DEF TripKnown, HasPlan, Killed
<1>11. RowsKnown(c)'
  BY <1>1, <1>5, <1>6, <1>7, <1>8 DEF Known, RowsKnown, Decided, HasPlan
<1>12. Calm /\ Moves(c, p) /\ halt' \in BOOLEAN
  BY <1>2, <1>6 DEF Calm, Moves
<1>13. LockTypeOK' /\ LockKnown' /\ TradesKnown'
  BY <1>6 DEF IInv, TypeOK, LockTypeOK, LockKnown, TradesKnown
<1>14. /\ audit' \subseteq [cycle: Cycles, outcome: Outcomes]
       /\ trades' \subseteq [key: Keys, cycle: Cycles]
       /\ p.limits \in Limits
  BY <1>1, <1>5, <1>6, <1>8 DEF TypeOK, PastConfig, Decided
<1>15. QED
  BY <1>4, <1>6, <1>9, <1>10, <1>11, <1>12, <1>13, <1>14, MoveKeeps DEF Known

\* The audit row comes first, and no trade is touched.
LEMMA RecordAuditKeeps ==
  ASSUME IInv, NEW c \in Cycles, NEW written \in BOOLEAN, RecordAudit(c, written)
  PROVE  IInv'
<1> DEFINE q == proc[c]
           row == [cycle |-> c, outcome |-> q.result.outcome]
           lost == IF written THEN q.lost ELSE q.lost \cup {"audit"}
           step == IF Records(c) /\ written THEN "audited" ELSE "done"
           p == [q EXCEPT !.step = step, !.lost = lost]
<1>1. TypeOK /\ Known(c)
  BY DEF IInv
<1>2. q \in Process /\ halt \in BOOLEAN
  BY <1>1 DEF TypeOK
<1>3. /\ lost \in SUBSET {"halt", "audit", "trade"}
      /\ "halt" \in q.lost => "halt" \in lost
  BY <1>2 DEF Process
<1>4. step \in {"audited", "done"}
  OBVIOUS
<1>5. row \in [cycle: Cycles, outcome: Outcomes]
  BY <1>2 DEF Process
<1>6. /\ proc' = [proc EXCEPT ![c] = p]
      /\ UNCHANGED <<yaml, lock, locker, approved, halt, trades, acts>>
      /\ audit' = IF step = "audited" THEN audit \cup {row} ELSE audit
  BY DEF RecordAudit, lockVars
<1> HIDE DEF lost, step, row
<1>7. p \in Process
  BY <1>2, <1>3, <1>4 DEF Process, Steps
<1>8. /\ p.step = step /\ p.limits = q.limits /\ p.locked = q.locked /\ p.lost = lost
      /\ p.halted = q.halted /\ p.cleared = q.cleared /\ p.bundle = q.bundle
      /\ p.result = q.result /\ p.key = q.key
  BY <1>2 DEF Process
<1>9. proc'[c] = p
  BY <1>1, <1>6 DEF TypeOK
<1>10. q.step = "journal"
  BY DEF RecordAudit
<1> HIDE DEF p
<1>11. LimitsKnown(c)'
  BY <1>1, <1>4, <1>6, <1>8, <1>9, <1>10
  DEF Known, LimitsKnown, HasPlan, PastConfig, Decided
<1>12. TripKnown(c)'
  BY <1>1, <1>3, <1>4, <1>6, <1>8, <1>9, <1>10 DEF Known, TripKnown, HasPlan, Killed, Decided
<1>13. RowsKnown(c)'
  <2>1. \A r \in audit : r.cycle # c
    BY <1>1, <1>10 DEF Known, RowsKnown
  <2>2. row.cycle = c /\ row.outcome = q.result.outcome
    BY DEF row
  <2>3. \A r \in audit' : r.cycle = c => step = "audited" /\ r = row
    BY <1>6, <2>1
  <2>4. step = "audited" => row \in audit'
    BY <1>6
  <2>5. row = [cycle |-> c, outcome |-> q.result.outcome]
    BY DEF row
  <2>6. ~ (step = "done" /\ [cycle |-> c, outcome |-> "SHADOW_FILLED"] \in audit')
    BY <2>3
  <2>7. HasPlan(p) => p.key \in Keys
    BY <1>1, <1>8, <1>10 DEF Known, RowsKnown, Decided, HasPlan
  <2>8. QED
    BY <1>8, <1>9, <2>2, <2>3, <2>4, <2>5, <2>6, <2>7 DEF RowsKnown, HasPlan
<1>14. Calm /\ Moves(c, p)
  BY <1>6 DEF Calm, Moves, row
<1>15. LockTypeOK' /\ LockKnown' /\ TradesKnown'
  BY <1>6 DEF IInv, TypeOK, LockTypeOK, LockKnown, TradesKnown
<1>16. /\ audit' \subseteq [cycle: Cycles, outcome: Outcomes]
       /\ trades' \subseteq [key: Keys, cycle: Cycles]
       /\ p.limits \in Limits
  BY <1>1, <1>5, <1>6, <1>8, <1>10 DEF TypeOK, PastConfig, Decided
<1>17. QED
  BY <1>2, <1>6, <1>7, <1>11, <1>12, <1>13, <1>14, <1>15, <1>16, MoveKeeps DEF Known

\* A trade is written after its audit row, and no key gets two.
LEMMA RecordTradeKeeps ==
  ASSUME IInv, NEW c \in Cycles, NEW written \in BOOLEAN, RecordTrade(c, written)
  PROVE  IInv'
<1> DEFINE q == proc[c]
           due == q.result.outcome = "SHADOW_FILLED" /\ q.key \notin {t.key : t \in trades}
           row == [key |-> q.key, cycle |-> c]
           lost == IF written THEN q.lost ELSE q.lost \cup {"trade"}
           p == [q EXCEPT !.step = "done", !.lost = lost]
<1>1. TypeOK /\ Known(c) /\ TradesKnown
  BY DEF IInv
<1>2. q \in Process /\ halt \in BOOLEAN
  BY <1>1 DEF TypeOK
<1>3. /\ lost \in SUBSET {"halt", "audit", "trade"}
      /\ "halt" \in q.lost => "halt" \in lost
      /\ ~written => "trade" \in lost
  BY <1>2 DEF Process
<1>4. /\ proc' = [proc EXCEPT ![c] = p]
      /\ UNCHANGED <<yaml, lock, locker, approved, halt, audit, acts>>
      /\ trades' = IF due /\ written THEN trades \cup {row} ELSE trades
      /\ ~due => written
  BY DEF RecordTrade, lockVars
<1>5. q.step = "audited"
  BY DEF RecordTrade
<1> HIDE DEF lost
<1>6. p \in Process
  BY <1>2, <1>3 DEF Process, Steps
<1>7. /\ p.step = "done" /\ p.limits = q.limits /\ p.locked = q.locked /\ p.lost = lost
      /\ p.halted = q.halted /\ p.cleared = q.cleared /\ p.bundle = q.bundle
      /\ p.result = q.result /\ p.key = q.key
  BY <1>2 DEF Process
<1>8. proc'[c] = p
  BY <1>1, <1>4 DEF TypeOK
<1> HIDE DEF p
<1>9. LimitsKnown(c)'
  BY <1>1, <1>4, <1>5, <1>7, <1>8 DEF Known, LimitsKnown, HasPlan, PastConfig, Decided
<1>10. TripKnown(c)'
  BY <1>1, <1>3, <1>4, <1>5, <1>7, <1>8 DEF Known, TripKnown, HasPlan, Killed, Decided
<1>11. /\ [cycle |-> c, outcome |-> q.result.outcome] \in audit
       /\ \A r \in audit : r.cycle = c => r.outcome = q.result.outcome
       /\ HasPlan(q) => q.key \in Keys
  BY <1>1, <1>5 DEF Known, RowsKnown, Decided
<1>12. row \in [key: Keys, cycle: Cycles] \/ ~due
  BY <1>11 DEF HasPlan
<1>13. row.key = q.key /\ row.cycle = c
  OBVIOUS
<1>14. TradesKnown'
  <2>1. \A t \in trades' : t \in trades \/ (t = row /\ due)
    BY <1>4
  <2>2. \A t \in trades' : [cycle |-> t.cycle, outcome |-> "SHADOW_FILLED"] \in audit
    BY <1>1, <1>11, <1>13, <2>1 DEF TradesKnown
  <2>3. ASSUME NEW t \in trades', NEW u \in trades', t.key = u.key
        PROVE  t = u
    <3>1. due => \A x \in trades : x.key # q.key
      OBVIOUS
    <3>2. QED
      BY <1>1, <1>13, <2>1, <2>3, <3>1 DEF TradesKnown
  <2>4. QED
    BY <1>4, <2>2, <2>3 DEF TradesKnown
<1>15. RowsKnown(c)'
  <2>1. ASSUME [cycle |-> c, outcome |-> "SHADOW_FILLED"] \in audit, "trade" \notin lost
        PROVE  \E t \in trades' : t.key = q.key
    <3>1. q.result.outcome = "SHADOW_FILLED" /\ written
      BY <1>3, <1>11, <2>1
    <3>2. CASE due
      BY <1>4, <1>13, <3>1, <3>2
    <3>3. CASE ~due
      BY <1>4, <3>1, <3>3
    <3>4. QED
      BY <3>2, <3>3
  <2>2. \A r \in audit' : r.cycle = c => r.outcome = p.result.outcome
    BY <1>4, <1>7, <1>11
  <2>3. HasPlan(p) => p.key \in Keys
    BY <1>7, <1>11 DEF HasPlan
  <2>4. QED
    BY <1>4, <1>7, <1>8, <2>1, <2>2, <2>3 DEF RowsKnown, HasPlan
<1>16. Calm /\ Moves(c, p)
  BY <1>4 DEF Calm, Moves
<1>17. LockTypeOK' /\ LockKnown'
  BY <1>4 DEF IInv, TypeOK, LockTypeOK, LockKnown
<1>18. /\ audit' \subseteq [cycle: Cycles, outcome: Outcomes]
       /\ trades' \subseteq [key: Keys, cycle: Cycles]
       /\ p.limits \in Limits
  BY <1>1, <1>4, <1>5, <1>7, <1>12 DEF TypeOK, PastConfig, Decided
<1>19. QED
  BY <1>2, <1>4, <1>6, <1>9, <1>10, <1>14, <1>15, <1>16, <1>17, <1>18, MoveKeeps DEF Known

\* The steps of one process, together.
LEMMA CycleStepKeeps ==
  ASSUME IInv, NEW c \in Cycles,
         \/ \E b \in Bundles : Begin(c, b)
         \/ Verify(c)
         \/ \E readable \in BOOLEAN : ReadJournal(c, readable)
         \/ Decide(c)
         \/ Break(c)
         \/ \E written \in BOOLEAN :
              WriteHalt(c, written) \/ RecordAudit(c, written) \/ RecordTrade(c, written)
         \/ Crash(c)
  PROVE  IInv'
<1>1. CASE Break(c)
  <2>1. proc[c].step = "ready" /\ "refused" \in {"refused", "crashed"}
    BY <1>1 DEF Break
  <2>2. QED
    BY <1>1, <2>1, LeavingKeeps DEF Break
<1>2. CASE Crash(c)
  BY <1>2, LeavingKeeps DEF Crash
<1>3. QED
  BY <1>1, <1>2, BeginKeeps, VerifyKeeps, ReadJournalKeeps, DecideKeeps, WriteHaltKeeps,
     RecordAuditKeeps, RecordTradeKeeps

-----------------------------------------------------------------------------
(***************************************************************************)
(* The steps of people.                                                    *)
(***************************************************************************)

\* No process moves, and what is known of all of them stays true.
LEMMA PeopleKeep ==
  ASSUME IInv, Calm, LockTypeOK', LockKnown', UNCHANGED <<audit, trades, proc>>,
         halt' \in BOOLEAN, acts' \in 0..MaxActs
  PROVE  IInv'
<1>1. \A c \in Cycles : Known(c)'
  BY OthersKeep
<1>2. TypeOK' /\ TradesKnown'
  BY DEF IInv, TypeOK, TradesKnown
<1>3. QED
  BY <1>1, <1>2 DEF IInv

\* People act a bounded number of times.
LEMMA ActCounts ==
  ASSUME TypeOK, Act
  PROVE  acts' \in 0..MaxActs
BY EvaluateAssumption DEF TypeOK, Act

\* Editing risk.yaml, or loading it to lock it, approves no less.
LEMMA ChangeLimitsKeeps ==
  ASSUME IInv, ChangeLimits
  PROVE  IInv'
<1>1. TypeOK /\ LockTypeOK /\ LockKnown
  BY DEF IInv, TypeOK
<1>2. /\ UNCHANGED <<lock, halt, audit, trades, proc>>
      /\ acts' \in 0..MaxActs
      /\ \/ LoadToLock
         \/ \E values \in Limits \cup {NoLimits} : EditYaml(values)
  BY <1>1, ActCounts DEF ChangeLimits, LoadToLock, EditYaml, journal
<1>3. LockTypeOK' /\ LockKnown' /\ approved \subseteq approved'
  <2>1. CASE LoadToLock
    BY <1>1, <2>1 DEF LoadToLock, LockTypeOK, LockKnown
  <2>2. CASE \E values \in Limits \cup {NoLimits} : EditYaml(values)
    BY <1>1, <2>2 DEF EditYaml, LockTypeOK, LockKnown
  <2>3. QED
    BY <1>2, <2>1, <2>2
<1>4. Calm /\ halt' \in BOOLEAN
  BY <1>1, <1>2, <1>3 DEF Calm, TypeOK
<1>5. QED
  BY <1>2, <1>3, <1>4, PeopleKeep

\* The lock says what a confirmed lock-risk loaded, or nothing.
LEMMA FinishLockKeeps ==
  ASSUME IInv, FinishLock
  PROVE  IInv'
<1>1. TypeOK /\ LockTypeOK /\ LockKnown
  BY DEF IInv, TypeOK
<1>2. UNCHANGED <<yaml, approved, halt, audit, trades, proc, acts>>
  BY DEF FinishLock, WriteLock, TearLock, journal
<1>3. locker \in approved /\ locker \in Limits
  BY <1>1 DEF FinishLock, WriteLock, TearLock, LockTypeOK, LockKnown
<1>4. locker' = NoLimits /\ lock' \in {locker, Torn}
  BY DEF FinishLock, WriteLock, TearLock
<1>5. LockTypeOK' /\ LockKnown' /\ lock' # NoLock
  BY <1>1, <1>2, <1>3, <1>4, RiskLockAssumption DEF LockTypeOK, LockKnown
<1>6. Calm /\ halt' \in BOOLEAN /\ acts' \in 0..MaxActs
  BY <1>1, <1>2, <1>5 DEF Calm, TypeOK
<1>7. QED
  BY <1>2, <1>5, <1>6, PeopleKeep

\* A person who halts stops no process that was not to be stopped.
LEMMA TouchHaltKeeps ==
  ASSUME IInv, TouchHalt
  PROVE  IInv'
<1>1. TypeOK /\ LockTypeOK /\ LockKnown
  BY DEF IInv, TypeOK
<1>2. UNCHANGED <<yaml, lock, locker, approved, audit, trades, proc>> /\ halt' = TRUE
  BY DEF TouchHalt, lockVars, journal
<1>3. acts' \in 0..MaxActs
  BY <1>1, ActCounts DEF TouchHalt
<1>4. Calm /\ LockTypeOK' /\ LockKnown'
  BY <1>1, <1>2 DEF Calm, LockTypeOK, LockKnown
<1>5. QED
  BY <1>2, <1>3, <1>4, PeopleKeep

\* The deletion of HALT is remembered by every process that has begun.
LEMMA ClearHaltKeeps ==
  ASSUME IInv, ClearHalt
  PROVE  IInv'
<1>1. TypeOK
  BY DEF IInv
<1>2. /\ UNCHANGED <<yaml, lock, locker, approved, audit, trades>>
      /\ halt' = FALSE
      /\ proc' = [c \in Cycles |-> [proc[c] EXCEPT !.cleared = (proc[c].step # "idle")]]
  BY DEF ClearHalt, lockVars, journal
<1>3. acts' \in 0..MaxActs
  BY <1>1, ActCounts DEF ClearHalt
<1>4. ASSUME NEW c \in Cycles
      PROVE  proc'[c] \in Process /\ Known(c)'
             /\ (proc'[c].step \in PastConfig => proc'[c].limits \in Limits)
  <2> DEFINE q == proc[c]
             p == [q EXCEPT !.cleared = (q.step # "idle")]
  <2>1. q \in Process /\ Known(c)
    BY <1>1 DEF IInv, TypeOK
  <2>2. proc'[c] = p
    BY <1>2
  <2>3. p \in Process
    BY <2>1 DEF Process
  <2>4. /\ p.step = q.step /\ p.limits = q.limits /\ p.locked = q.locked /\ p.lost = q.lost
        /\ p.halted = q.halted /\ p.bundle = q.bundle /\ p.result = q.result /\ p.key = q.key
        /\ p.cleared = (q.step # "idle")
    BY <2>1 DEF Process
  <2> HIDE DEF p
  <2>5. LimitsKnown(c)' /\ RowsKnown(c)'
    BY <1>2, <2>1, <2>2, <2>4 DEF Known, LimitsKnown, RowsKnown, HasPlan
  <2>7. TripKnown(c)'
    BY <2>1, <2>2, <2>4 DEF Known, TripKnown, HasPlan, Killed, Decided
  <2>8. QED
    BY <1>1, <2>2, <2>3, <2>4, <2>5, <2>7 DEF Known, TypeOK
<1>5. TypeOK' /\ LockKnown' /\ TradesKnown'
  BY <1>2, <1>3, <1>4 DEF IInv, TypeOK, LockTypeOK, LockKnown, TradesKnown
<1>6. QED
  BY <1>4, <1>5 DEF IInv

-----------------------------------------------------------------------------
(***************************************************************************)
(* Theorems.                                                               *)
(***************************************************************************)
\* No process has begun and nothing is written.
LEMMA InitHolds == Init => IInv
<1> SUFFICES ASSUME Init PROVE IInv
  OBVIOUS
<1>1. proc \in [Cycles -> Process] /\ \A c \in Cycles : proc[c] = Idle
  BY IdleType DEF Init
<1>2. Idle.step = "idle" /\ Idle.halted = FALSE /\ Idle.locked = FALSE
  BY DEF Idle
<1>3. TypeOK /\ LockKnown /\ TradesKnown
  <2>1. LockTypeOK /\ LockKnown
    BY DEF Init, LockInit, LockTypeOK, LockKnown
  <2>2. \A c \in Cycles : proc[c].step \notin PastConfig
    BY <1>1, <1>2 DEF PastConfig, Decided
  <2>3. acts \in 0..MaxActs
    BY EvaluateAssumption DEF Init
  <2>4. TypeOK
    BY <1>1, <2>1, <2>2, <2>3 DEF Init, TypeOK
  <2>5. TradesKnown
    BY DEF Init, TradesKnown
  <2>6. QED
    BY <2>1, <2>4, <2>5
<1>4. ASSUME NEW c \in Cycles PROVE Known(c)
  BY <1>1, <1>2 DEF Init, Known, LimitsKnown, TripKnown, RowsKnown, PastConfig, Decided
<1>5. QED
  BY <1>3, <1>4 DEF IInv

\* Every step keeps the invariant.
LEMMA NextHolds == IInv /\ [Next]_vars => IInv'
<1> SUFFICES ASSUME IInv, [Next]_vars PROVE IInv'
  OBVIOUS
<1>1. CASE ChangeLimits \/ FinishLock \/ TouchHalt \/ ClearHalt
  BY <1>1, ChangeLimitsKeeps, FinishLockKeeps, TouchHaltKeeps, ClearHaltKeeps
<1>2. ASSUME NEW c \in Cycles,
             \/ \E b \in Bundles : Begin(c, b)
             \/ Verify(c)
             \/ \E readable \in BOOLEAN : ReadJournal(c, readable)
             \/ Decide(c)
             \/ Break(c)
             \/ \E written \in BOOLEAN :
                  WriteHalt(c, written) \/ RecordAudit(c, written) \/ RecordTrade(c, written)
             \/ Crash(c)
      PROVE  IInv'
  BY <1>2, CycleStepKeeps
<1>3. CASE UNCHANGED vars
  <2>1. UNCHANGED <<yaml, lock, locker, approved, halt, audit, trades, proc, acts>>
    BY <1>3 DEF vars
  <2>2. Calm /\ LockTypeOK' /\ LockKnown' /\ halt' \in BOOLEAN /\ acts' \in 0..MaxActs
    BY <2>1 DEF IInv, TypeOK, Calm, LockTypeOK, LockKnown
  <2>3. QED
    BY <2>1, <2>2, PeopleKeep
<1>4. QED
  BY <1>1, <1>2, <1>3 DEF Next

\* The invariant holds throughout.
LEMMA Inductive == Spec => []IInv
BY InitHolds, NextHolds, PTL DEF Spec

\* Types, and the limits of a command past its configuration.
THEOREM EvaluateTyped == Spec => []TypeOK
<1>1. IInv => TypeOK
  BY DEF IInv
<1>2. QED
  BY <1>1, Inductive, PTL

\* Every command that begins under a lock decides under limits a human
\* confirmed, whoever rewrites the file or the lock meanwhile.
THEOREM LimitsApproved == Spec => []LimitsWereApproved
<1>1. IInv => LimitsWereApproved
  BY DEF IInv, Known, LimitsKnown, LimitsWereApproved
<1>2. QED
  BY <1>1, Inductive, PTL

\* Audit and trades agree, whatever dies or fails between their two
\* transactions and however many commands run at once.
THEOREM JournalAgrees == Spec => []AuditAndTradeAgree
<1>1. IInv => AuditAndTradeAgree
  BY DEF IInv, Known, RowsKnown, TradesKnown, AuditAndTradeAgree
<1>2. QED
  BY <1>1, Inductive, PTL

\* A command comes to hold a plan in its decision only, and HALT is not
\* there when it does.
LEMMA PlansAreDecided ==
  ASSUME IInv, [Next]_vars, NEW c \in Cycles, HasPlan(proc'[c]), ~HasPlan(proc[c])
  PROVE  ~halt
<1>1. proc[c] \in Process /\ halt \in BOOLEAN
  BY DEF IInv, TypeOK
<1>2. ASSUME NEW p, proc' = [proc EXCEPT ![c] = p]
      PROVE  HasPlan(p)
  BY <1>2 DEF IInv, TypeOK
<1>3. ASSUME NEW d \in Cycles, NEW p, proc' = [proc EXCEPT ![d] = p]
      PROVE  d = c /\ HasPlan(p)
  BY <1>3 DEF IInv, TypeOK
<1>4. ~HasPlan(Idle) /\ \A step : ~HasPlan([Idle EXCEPT !.step = step])
  BY DEF HasPlan, Idle, NoResult, Result
<1>5. CASE ChangeLimits \/ FinishLock \/ TouchHalt \/ UNCHANGED vars
  BY <1>5 DEF ChangeLimits, FinishLock, TouchHalt, vars
<1>6. CASE ClearHalt
  <2> DEFINE p == [proc[c] EXCEPT !.cleared = (proc[c].step # "idle")]
  <2>1. proc'[c] = p
    BY <1>6 DEF ClearHalt
  <2>2. p.result = proc[c].result
    BY <1>1 DEF Process
  <2>3. QED
    BY <2>1, <2>2 DEF HasPlan
<1>7. ASSUME NEW d \in Cycles, NEW b \in Bundles, Begin(d, b)
      PROVE  FALSE
  <2> DEFINE p == [Idle EXCEPT !.step = "read", !.bundle = b, !.limits = yaml,
                               !.locked = (lock # NoLock), !.halted = halt]
  <2>1. ~HasPlan(p)
    BY DEF HasPlan, Idle, NoResult, Result
  <2>2. proc' = [proc EXCEPT ![d] = p]
    BY <1>7 DEF Begin
  <2> HIDE DEF p
  <2>3. QED
    BY <1>3, <2>1, <2>2
<1>8. ASSUME NEW d \in Cycles, Break(d) \/ Crash(d)
      PROVE  FALSE
  BY <1>3, <1>4, <1>8 DEF Break, Crash
<1>9. ASSUME NEW d \in Cycles, Decide(d)
      PROVE  ~halt
  <2> DEFINE q == proc[d]
             r == RunCycle(q.bundle, q.limits, q.keys, halt)
             k == IF q.bundle.signal \in Sides THEN KeyOf(q.bundle) ELSE <<>>
             p == [q EXCEPT !.step = "decided", !.key = k, !.result = r, !.keys = {}]
  <2>1. proc' = [proc EXCEPT ![d] = p] /\ q.step = "ready"
    BY <1>9 DEF Decide
  <2>2. q \in Process /\ q.limits \in Limits
    BY <2>1 DEF IInv, TypeOK, PastConfig
  <2>3. q.bundle \in Bundles /\ q.keys \in SUBSET Keys
    BY <2>2 DEF Process
  <2>4. halt => r.outcome \notin {"SHADOW_FILLED", "LIVE_FILLED"}
    BY <1>1, <2>2, <2>3, RunCycleFacts
  <2> HIDE DEF r, k
  <2>5. p.result = r
    BY <2>2 DEF Process
  <2> HIDE DEF p
  <2>6. HasPlan(p)
    BY <1>3, <2>1
  <2>7. QED
    BY <2>4, <2>5, <2>6 DEF HasPlan
<1>10. ASSUME NEW d \in Cycles,
             \/ Verify(d)
             \/ \E readable \in BOOLEAN : ReadJournal(d, readable)
             \/ \E written \in BOOLEAN :
                  WriteHalt(d, written) \/ RecordAudit(d, written) \/ RecordTrade(d, written)
      PROVE  FALSE
  <2>1. proc[d] \in Process
    BY DEF IInv, TypeOK
  <2>2. ASSUME NEW p, proc' = [proc EXCEPT ![d] = p], p.result = proc[d].result
        PROVE  FALSE
    BY <1>3, <2>2 DEF HasPlan
  <2>3. CASE Verify(d)
    <3>1. [proc[d] EXCEPT !.step = "loaded"].result = proc[d].result
      BY <2>1 DEF Process
    <3>2. QED
      BY <1>3, <1>4, <2>2, <2>3, <3>1 DEF Verify
  <2>4. ASSUME NEW readable \in BOOLEAN, ReadJournal(d, readable)
        PROVE  FALSE
    <3> DEFINE p == [proc[d] EXCEPT !.step = "ready", !.repo = readable,
                      !.keys = IF readable THEN {t.key : t \in trades} ELSE {}]
    <3>1. proc' = [proc EXCEPT ![d] = p]
      BY <2>4 DEF ReadJournal
    <3>2. p.result = proc[d].result
      BY <2>1 DEF Process
    <3> HIDE DEF p
    <3>3. QED
      BY <2>2, <3>1, <3>2
  <2>5. ASSUME NEW written \in BOOLEAN, WriteHalt(d, written)
        PROVE  FALSE
    <3> DEFINE p == [proc[d] EXCEPT !.step = "journal",
                      !.lost = IF written THEN @ ELSE @ \cup {"halt"}]
    <3>1. proc' = [proc EXCEPT ![d] = p]
      BY <2>5 DEF WriteHalt
    <3>2. p.result = proc[d].result
      BY <2>1 DEF Process
    <3> HIDE DEF p
    <3>3. QED
      BY <2>2, <3>1, <3>2
  <2>6. ASSUME NEW written \in BOOLEAN, RecordAudit(d, written)
        PROVE  FALSE
    <3> DEFINE p == [proc[d] EXCEPT
                      !.step = IF Records(d) /\ written THEN "audited" ELSE "done",
                      !.lost = IF written THEN @ ELSE @ \cup {"audit"}]
    <3>1. proc' = [proc EXCEPT ![d] = p]
      BY <2>6 DEF RecordAudit
    <3>2. p.result = proc[d].result
      BY <2>1 DEF Process
    <3> HIDE DEF p
    <3>3. QED
      BY <2>2, <3>1, <3>2
  <2>7. ASSUME NEW written \in BOOLEAN, RecordTrade(d, written)
        PROVE  FALSE
    <3> DEFINE p == [proc[d] EXCEPT !.step = "done",
                      !.lost = IF written THEN @ ELSE @ \cup {"trade"}]
    <3>1. proc' = [proc EXCEPT ![d] = p]
      BY <2>7 DEF RecordTrade
    <3>2. p.result = proc[d].result
      BY <2>1 DEF Process
    <3> HIDE DEF p
    <3>3. QED
      BY <2>2, <3>1, <3>2
  <2>8. QED
    BY <1>10, <2>3, <2>4, <2>5, <2>6, <2>7
<1>11. QED
  BY <1>5, <1>6, <1>7, <1>8, <1>9, <1>10 DEF Next

\* HALT, written by a person or by a cycle that tripped the switch, stops
\* every decision made after it, of whichever command and whenever it began.
THEOREM HaltStops == Spec => HaltStopsPlans
<1>1. IInv => \A d \in Cycles : Tripped(proc[d]) => halt
  BY DEF IInv, Known, TripKnown, Tripped
<1>2. IInv /\ [Next]_vars =>
        \A c \in Cycles :
          /\ halt \/ \E d \in Cycles : Tripped(proc[d])
          /\ HasPlan(proc'[c])
          => HasPlan(proc[c])
  BY <1>1, PlansAreDecided
<1>3. QED
  BY <1>2, Inductive, PTL DEF Spec, HaltStopsPlans

\* A cycle that let an exit through beyond the kill switch leaves HALT.
THEOREM KillHalts == Spec => []KillLeavesHalt
<1>1. IInv => KillLeavesHalt
  <2> SUFFICES ASSUME IInv, NEW c \in Cycles,
                      proc[c].step \in {"journal", "audited", "done"}, HasPlan(proc[c]),
                      Killed(proc[c].bundle, proc[c].limits),
                      ~proc[c].bundle.dry, ~proc[c].cleared, "halt" \notin proc[c].lost
               PROVE  halt
    BY DEF KillLeavesHalt
  <2>1. proc[c].step \in Decided
    BY DEF Decided
  <2>2. QED
    BY <2>1 DEF IInv, Known, TripKnown
<1>2. QED
  BY <1>1, Inductive, PTL
=============================================================================
