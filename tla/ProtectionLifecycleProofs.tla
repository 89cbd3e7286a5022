--------------------- MODULE ProtectionLifecycleProofs ---------------------
(***************************************************************************)
(* The safety of ProtectionLifecycle for every number of sessions, entries *)
(* and crashes.  The inductive invariant IInv adds to the invariants of    *)
(* the specification what a session knows while it works on a stop (the    *)
(* shape and the truth of its memory), that a trades row not yet written   *)
(* is empty, and that no stop is journalled before its trade.              *)
(*                                                                         *)
(* A step of the system touches the journal, the broker and a session's    *)
(* memory.  What each of the three may do is stated once, as the relations *)
(* StopsKept, EvidenceKept, SentJournalled and PromotedOnEvidence between  *)
(* two states, and a lemma puts the three parts together.                  *)
(***************************************************************************)
EXTENDS ProtectionLifecycle, TLAPS

(***************************************************************************)
(* The inductive invariant.                                                *)
(***************************************************************************)
Shaped(t) ==
  /\ t.step \in StopSteps \cup {"entry", "flatten", "exit"} => t.entry \in Entries
  /\ t.step \in StopSteps \cup {"flatten", "exit"} => t.qty \in Quantities

MemoryShaped == \A s \in Sessions : Shaped(task[s])

NewRows == \A e \in Entries : trades[e].status = "absent" => trades[e] = NoTrade

\* No stop is journalled before the trade it is for.
StopsOfTrades ==
  \A k \in StopKeys : stops[k] # "absent" => trades[k[1]].status # "absent"

JournalPart == JournalTypeOK /\ NewRows /\ TradeNotAheadOfStop /\ StopsOfTrades

MemoryPart == task \in [Sessions -> Task] /\ MemoryShaped /\ MemoryHolds

IInv ==
  /\ JournalPart
  /\ BrokerTypeOK
  /\ MemoryPart
  /\ crashes \in 0..MaxCrashes
  /\ WriteAhead
  /\ ProtectedOnEvidence

(***************************************************************************)
(* What a step may do to the stops, and to the broker's evidence of them.  *)
(***************************************************************************)
StopsKept ==
  \A k \in StopKeys :
    /\ stops[k] # "absent" => stops'[k] # "absent"
    /\ stops[k] = "PROTECTED" => stops'[k] = "PROTECTED"

EvidenceKept == \A k \in StopKeys : Accepted(StopRef(k)) => Accepted(StopRef(k))'

SentJournalled ==
  \A k \in StopKeys :
    book'[StopRef(k)] # "unknown" \/ OnWire(StopRef(k))' => stops[k] # "absent"

PromotedOnEvidence ==
  \A k \in StopKeys :
    stops'[k] = "PROTECTED" => stops[k] = "PROTECTED" \/ Accepted(StopRef(k))

-----------------------------------------------------------------------------
\* The ref_id of a stop is a ref_id, names its key, and is no other order's.
LEMMA StopRefs ==
  /\ \A k \in StopKeys : StopRef(k) \in Refs /\ StopRef(k).kind = "stop"
  /\ \A k \in StopKeys : FlattenRef(k) \in Refs /\ FlattenRef(k).kind = "flatten"
  /\ \A k, l \in StopKeys : StopRef(k) = StopRef(l) => k = l
  /\ \A e \in Entries : EntryRef(e) \in Refs /\ EntryRef(e).kind = "entry"
  /\ \A e \in Entries : ExitRef(e) \in Refs /\ ExitRef(e).kind = "exit"
  /\ \A e \in Entries, q \in Quantities : <<e, q>> \in StopKeys
BY DEF StopKeys, StopRef, FlattenRef, EntryRef, ExitRef, Refs

\* The task a session moves to is a task.
LEMMA AtIsTask ==
  /\ \A step \in Steps, e \in Entries \cup {NoEntry}, q \in Quantities \cup {0} :
       At(step, e, q) \in Task
  /\ Idle \in Task
BY DEF At, Idle, Task, Steps

\* A session that moves on with a well shaped, true memory keeps the memory
\* of all sessions so, when no row and no evidence it rests on is lost.
LEMMA MemoryMoves ==
  ASSUME MemoryPart, StopsKept, EvidenceKept,
         NEW s \in Sessions, NEW t \in Task, Goto(s, t),
         Shaped(t), Remembered(t)'
  PROVE  MemoryPart'
<1>1. task' = [task EXCEPT ![s] = t]
  BY DEF Goto
<1>2. task' \in [Sessions -> Task]
  BY <1>1 DEF MemoryPart
<1>3. ASSUME NEW r \in Sessions
      PROVE  Shaped(task'[r]) /\ Remembered(task[r])'
  <2>1. CASE r = s
    BY <2>1, <1>1 DEF MemoryPart, Remembered, Accepted
  <2>2. CASE r # s
    <3>1. task'[r] = task[r]
      BY <2>2, <1>1 DEF MemoryPart
    <3>2. Shaped(task[r]) /\ Remembered(task[r])
      BY DEF MemoryPart, MemoryShaped, MemoryHolds
    <3>3. task[r].step \in StopSteps => <<task[r].entry, task[r].qty>> \in StopKeys
      BY <3>2, StopRefs DEF Shaped
    <3>4. Remembered(task[r])'
      BY <3>1, <3>2, <3>3
      DEF Remembered, StopsKept, EvidenceKept, StopSteps, Accepted
    <3>5. QED
      BY <3>1, <3>2, <3>4
  <2>3. QED
    BY <2>1, <2>2
<1>4. QED
  BY <1>2, <1>3 DEF MemoryPart, MemoryShaped, MemoryHolds

\* The three parts put together.
LEMMA PartsMakeInvariant ==
  ASSUME IInv, JournalPart', BrokerTypeOK', MemoryPart', crashes' \in 0..MaxCrashes,
         StopsKept, EvidenceKept, SentJournalled, PromotedOnEvidence
  PROVE  IInv'
<1>1. WriteAhead'
  BY DEF WriteAhead, SentJournalled, StopsKept, OnWire
<1>2. ProtectedOnEvidence'
  <2> SUFFICES ASSUME NEW k \in StopKeys, stops'[k] = "PROTECTED"
               PROVE  Accepted(StopRef(k))'
    BY DEF ProtectedOnEvidence
  <2>1. Accepted(StopRef(k))
    BY DEF IInv, ProtectedOnEvidence, PromotedOnEvidence
  <2>2. QED
    BY <2>1 DEF EvidenceKept
<1>3. QED
  BY <1>1, <1>2 DEF IInv

-----------------------------------------------------------------------------
(***************************************************************************)
(* The broker's part.                                                      *)
(***************************************************************************)

\* A broker that does nothing.
LEMMA BrokerIdle ==
  ASSUME IInv, UNCHANGED brokerVars
  PROVE  BrokerTypeOK' /\ EvidenceKept /\ SentJournalled
BY DEF IInv, BrokerTypeOK, brokerVars, EvidenceKept, SentJournalled, Accepted,
       OnWire, WriteAhead

\* An order is placed: if it is a stop, its row must be there.
LEMMA OrderPlaced ==
  ASSUME IInv, NEW r \in Refs, NEW q \in Quantities \cup {0}, Place(r, q),
         \A k \in StopKeys : r = StopRef(k) => stops[k] # "absent"
  PROVE  BrokerTypeOK' /\ EvidenceKept /\ SentJournalled
<1>1. [ref |-> r, qty |-> q] \in Orders
  BY DEF Orders
<1>2. BrokerTypeOK' /\ EvidenceKept
  BY <1>1 DEF IInv, BrokerTypeOK, Place, EvidenceKept, Accepted
<1>3. SentJournalled
  BY DEF IInv, WriteAhead, Place, SentJournalled, OnWire
<1>4. QED
  BY <1>2, <1>3

\* The broker moves the order r that it knows or that was on the wire.
LEMMA OrderMoves ==
  ASSUME IInv, NEW r \in Refs, NEW state \in OrderStates,
         book[r] # "unknown" \/ OnWire(r),
         Accepted(r) => state \in {"filled", "cancelled"},
         book' = [book EXCEPT ![r] = state], wire' \subseteq wire,
         held' \in [Entries -> Int]
  PROVE  BrokerTypeOK' /\ EvidenceKept /\ SentJournalled
<1>1. BrokerTypeOK'
  BY DEF IInv, BrokerTypeOK
<1>2. EvidenceKept
  BY StopRefs DEF IInv, BrokerTypeOK, EvidenceKept, Accepted
<1>3. SentJournalled
  BY StopRefs DEF IInv, BrokerTypeOK, WriteAhead, SentJournalled, OnWire
<1>4. QED
  BY <1>1, <1>2, <1>3

\* An order taken off the wire.
LEMMA ProcessingOrders ==
  ASSUME IInv, NEW r \in Refs, ProcessOrder(r)
  PROVE  BrokerTypeOK' /\ EvidenceKept /\ SentJournalled
<1>1. PICK o \in wire :
        /\ o.ref = r
        /\ \/ Dedupe(o)
           \/ \E q \in Quantities : FillEntry(o, q) \/ FillSell(o, q)
           \/ \E verdict \in {"working", "rejected"} : DecideStop(o, verdict)
  BY DEF ProcessOrder
<1>2. o \in Orders /\ OnWire(r)
  BY <1>1 DEF IInv, BrokerTypeOK, OnWire
<1>3. CASE Dedupe(o)
  BY <1>3 DEF Dedupe, IInv, BrokerTypeOK, EvidenceKept, SentJournalled, Accepted,
              OnWire, WriteAhead
<1>4. ASSUME NEW q \in Quantities, FillEntry(o, q) \/ FillSell(o, q)
      PROVE  BrokerTypeOK' /\ EvidenceKept /\ SentJournalled
  <2>1. /\ book[r] = "unknown"
        /\ book' = [book EXCEPT ![r] = "filled"]
        /\ wire' = wire \ {o}
        /\ \/ held' = [held EXCEPT ![r.entry] = @ + q]
           \/ held' = [held EXCEPT ![r.entry] = @ - q]
    BY <1>1, <1>4 DEF FillEntry, FillSell
  <2>2. r.entry \in Entries /\ q \in Int
    BY QuantitiesAssumption DEF Refs
  <2>3. held' \in [Entries -> Int]
    BY <2>1, <2>2 DEF IInv, BrokerTypeOK
  <2>4. QED
    BY <1>2, <2>1, <2>3, OrderMoves DEF OrderStates, Accepted
<1>5. ASSUME NEW verdict \in {"working", "rejected"}, DecideStop(o, verdict)
      PROVE  BrokerTypeOK' /\ EvidenceKept /\ SentJournalled
  <2>1. /\ book[r] = "unknown"
        /\ book' = [book EXCEPT ![r] = verdict]
        /\ wire' = wire \ {o}
        /\ held' = held
    BY <1>1, <1>5 DEF DecideStop
  <2>2. held' \in [Entries -> Int]
    BY <2>1 DEF IInv, BrokerTypeOK
  <2>3. QED
    BY <1>2, <2>1, <2>2, OrderMoves DEF OrderStates, Accepted
<1>6. QED
  BY <1>1, <1>3, <1>4, <1>5

\* A resting stop that fills or is cancelled.
LEMMA LeavingStops ==
  ASSUME IInv, NEW k \in StopKeys, TriggerStop(k) \/ CancelStop(k)
  PROVE  BrokerTypeOK' /\ EvidenceKept /\ SentJournalled
<1>1. StopRef(k) \in Refs /\ k[1] \in Entries /\ k[2] \in Int
  <2>1. k[1] \in Entries /\ k[2] \in Quantities
    BY DEF StopKeys
  <2>2. QED
    BY <2>1, StopRefs, QuantitiesAssumption
<1>2. /\ book[StopRef(k)] = "working"
      /\ wire' = wire
      /\ \E state \in {"filled", "cancelled"} :
           book' = [book EXCEPT ![StopRef(k)] = state]
  BY DEF TriggerStop, CancelStop
<1>3. held' \in [Entries -> Int]
  BY <1>1 DEF TriggerStop, CancelStop, IInv, BrokerTypeOK
<1>4. QED
  BY <1>1, <1>2, <1>3, OrderMoves DEF OrderStates

-----------------------------------------------------------------------------
(***************************************************************************)
(* The journal's part.                                                     *)
(***************************************************************************)

\* What every journal step keeps, whichever it is.
JournalGoal == JournalPart' /\ StopsKept

\* A step that leaves the two tables alone keeps the journal's part.
LEMMA JournalIdle ==
  ASSUME IInv, UNCHANGED journalVars
  PROVE  JournalGoal /\ PromotedOnEvidence
BY DEF IInv, JournalPart, JournalTypeOK, NewRows, TradeNotAheadOfStop,
       StopsOfTrades, HasProtectedStop, StopsKept, PromotedOnEvidence,
       journalVars, JournalGoal

\* A new trades row claims no confirmed stop, and no stop was journalled
\* before it.
LEMMA TradeRecorded ==
  ASSUME IInv, NEW e \in Entries, NEW mode \in Modes, NEW stop \in StopLevels,
         NEW quantity \in Quantities,
         NEW protection \in TradeProtection \ {"PROTECTED"},
         RecordTrade(e, mode, stop, quantity, protection)
  PROVE  JournalGoal /\ PromotedOnEvidence
<1> DEFINE row == [status |-> "open", mode |-> mode, stop |-> stop,
                   quantity |-> quantity, protection |-> protection]
<1>1. /\ trades[e].status = "absent"
      /\ trades' = [trades EXCEPT ![e] = row]
      /\ stops' = stops
      /\ row \in TradeRow
  BY DEF RecordTrade, KnownClientKeys, TradeRow, TradeStatus
<1>3. /\ JournalTypeOK'
      /\ \A f \in Entries : trades'[f] = IF f = e THEN row ELSE trades[f]
  BY <1>1 DEF IInv, JournalPart, JournalTypeOK
<1>4. NewRows'
  BY <1>3 DEF IInv, JournalPart, NewRows
<1>5. TradeNotAheadOfStop'
  BY <1>1, <1>3 DEF IInv, JournalPart, TradeNotAheadOfStop, HasProtectedStop
<1>6. StopsOfTrades'
  <2> SUFFICES ASSUME NEW k \in StopKeys, stops'[k] # "absent"
               PROVE  trades'[k[1]].status # "absent"
    BY DEF StopsOfTrades
  <2>1. k[1] \in Entries /\ trades[k[1]].status # "absent"
    BY <1>1 DEF IInv, JournalPart, StopsOfTrades, StopKeys
  <2>2. QED
    BY <2>1, <1>1, <1>3
<1>7. QED
  BY <1>1, <1>3, <1>4, <1>5, <1>6
  DEF JournalGoal, JournalPart, StopsKept, PromotedOnEvidence

\* close_trade keeps the journal's part: it touches one status only.
LEMMA TradeClosed ==
  ASSUME IInv, NEW e \in Entries, CloseTrade(e)
  PROVE  JournalGoal /\ PromotedOnEvidence
<1>1. /\ trades' = [trades EXCEPT ![e] = [trades[e] EXCEPT !.status = "closed"]]
      /\ stops' = stops
  BY DEF CloseTrade
<1>2. /\ JournalTypeOK'
      /\ \A f \in Entries : /\ trades'[f].mode = trades[f].mode
                            /\ trades'[f].protection = trades[f].protection
                            /\ trades'[f].status = "absent" => trades'[f] = trades[f]
  BY <1>1 DEF IInv, JournalPart, JournalTypeOK, TradeRow, TradeStatus
<1>3. NewRows'
  BY <1>2 DEF IInv, JournalPart, NewRows
<1>4. TradeNotAheadOfStop' /\ StopsOfTrades'
  BY <1>1, <1>2 DEF IInv, JournalPart, TradeNotAheadOfStop, HasProtectedStop,
                    StopsOfTrades, StopKeys
<1>5. QED
  BY <1>1, <1>2, <1>3, <1>4 DEF JournalGoal, JournalPart, StopsKept, PromotedOnEvidence

\* A row is added to protective_orders, for a recorded trade.
LEMMA StopSubmitted ==
  ASSUME IInv, NEW k \in StopKeys, RecordProtectionSubmitted(k),
         trades[k[1]].status # "absent"
  PROVE  JournalGoal /\ PromotedOnEvidence
<1>1. /\ stops[k] = "absent"
      /\ stops' = [stops EXCEPT ![k] = "SUBMITTED"]
      /\ trades' = trades
  BY DEF RecordProtectionSubmitted
<1>2. /\ JournalTypeOK'
      /\ \A l \in StopKeys : stops'[l] = IF l = k THEN "SUBMITTED" ELSE stops[l]
  BY <1>1 DEF IInv, JournalPart, JournalTypeOK, StopStates
<1>3. StopsKept /\ PromotedOnEvidence
  BY <1>1, <1>2 DEF StopsKept, PromotedOnEvidence
<1>4. StopsOfTrades' /\ NewRows'
  BY <1>1, <1>2 DEF IInv, JournalPart, StopsOfTrades, NewRows
<1>5. TradeNotAheadOfStop'
  BY <1>1, <1>3, StopRefs
  DEF IInv, JournalPart, TradeNotAheadOfStop, HasProtectedStop, StopsKept
<1>6. QED
  BY <1>2, <1>3, <1>4, <1>5 DEF JournalGoal, JournalPart

\* A submitted row is resolved; it is promoted only on evidence.
LEMMA StopResolved ==
  ASSUME IInv, NEW k \in StopKeys,
         RecordProtectionFailed(k)
           \/ (RecordProtectionAccepted(k, TRUE) /\ Accepted(StopRef(k)))
  PROVE  JournalGoal /\ PromotedOnEvidence
<1>1. /\ stops[k] = "SUBMITTED"
      /\ trades' = trades
      /\ \/ stops' = [stops EXCEPT ![k] = "FAILED"]
         \/ Accepted(StopRef(k)) /\ stops' = [stops EXCEPT ![k] = "PROTECTED"]
  BY DEF RecordProtectionFailed, RecordProtectionAccepted, Promotable,
         UnconfirmedProtection
<1>2. JournalTypeOK' /\ StopsKept /\ PromotedOnEvidence
  BY <1>1 DEF IInv, JournalPart, JournalTypeOK, StopStates, StopsKept,
              PromotedOnEvidence
<1>3. StopsOfTrades' /\ NewRows'
  BY <1>1 DEF IInv, JournalPart, JournalTypeOK, StopsOfTrades, NewRows
<1>4. TradeNotAheadOfStop'
  BY <1>1, <1>2, StopRefs
  DEF IInv, JournalPart, TradeNotAheadOfStop, HasProtectedStop, StopsKept
<1>5. QED
  BY <1>2, <1>3, <1>4 DEF JournalGoal, JournalPart

\* The trades row is brought up to a stop that is there.
LEMMA TradeUpdated ==
  ASSUME IInv, NEW e \in Entries, HasProtectedStop(e),
         UpdateTradeProtection(e, "PROTECTED")
  PROVE  JournalGoal /\ PromotedOnEvidence
<1>1. /\ trades' = [trades EXCEPT ![e] = [trades[e] EXCEPT !.protection = "PROTECTED"]]
      /\ trades[e].status # "absent"
      /\ stops' = stops
  BY DEF UpdateTradeProtection, KnownClientKeys
<1>2. /\ JournalTypeOK'
      /\ \A f \in Entries : /\ trades'[f].mode = trades[f].mode
                            /\ trades'[f].status = trades[f].status
                            /\ f # e => trades'[f] = trades[f]
  BY <1>1 DEF IInv, JournalPart, JournalTypeOK, TradeRow, TradeProtection
<1>3. NewRows' /\ StopsOfTrades'
  BY <1>1, <1>2 DEF IInv, JournalPart, NewRows, StopsOfTrades, StopKeys
<1>4. TradeNotAheadOfStop'
  BY <1>1, <1>2 DEF IInv, JournalPart, TradeNotAheadOfStop, HasProtectedStop
<1>5. QED
  BY <1>1, <1>2, <1>3, <1>4 DEF JournalGoal, JournalPart, StopsKept, PromotedOnEvidence

-----------------------------------------------------------------------------
(***************************************************************************)
(* The memory's part.                                                      *)
(***************************************************************************)

\* A step that leaves the sessions alone keeps what they remember true, since
\* stops are never forgotten and evidence never withdrawn.
LEMMA MemoryIdle ==
  ASSUME MemoryPart, StopsKept, EvidenceKept, UNCHANGED task
  PROVE  MemoryPart'
<1>1. \A s \in Sessions : Remembered(task[s])'
  <2> SUFFICES ASSUME NEW s \in Sessions
               PROVE  Remembered(task[s])'
    OBVIOUS
  <2>1. Remembered(task[s]) /\ Shaped(task[s])
    BY DEF MemoryPart, MemoryHolds, MemoryShaped
  <2>2. task[s].step \in StopSteps => <<task[s].entry, task[s].qty>> \in StopKeys
    BY <2>1, StopRefs DEF Shaped
  <2>3. QED
    BY <2>1, <2>2 DEF Remembered, StopsKept, EvidenceKept, StopSteps, Accepted
<1>2. QED
  BY <1>1 DEF MemoryPart, MemoryShaped, MemoryHolds, Shaped

\* A move to a step at which nothing of a stop is remembered.
LEMMA QuietMove ==
  ASSUME IInv, StopsKept, EvidenceKept, NEW s \in Sessions, NEW t \in Task,
         Goto(s, t), Shaped(t), t.step \notin StopSteps
  PROVE  MemoryPart'
BY MemoryMoves DEF IInv, Remembered, StopSteps

\* A session that gives up, or crashes, remembers nothing and so nothing false.
LEMMA GivingUp ==
  ASSUME IInv, StopsKept, EvidenceKept, NEW s \in Sessions, GiveUp(s)
  PROVE  MemoryPart'
<1>1. /\ Idle \in Task /\ Shaped(Idle) /\ Idle.step \notin StopSteps
      /\ Goto(s, Idle)
  BY AtIsTask DEF Idle, At, Shaped, StopSteps, GiveUp
<1>2. QED
  BY <1>1, QuietMove

\* A move of a session that works on a stop to a later step of that work.
LEMMA StopMove ==
  ASSUME IInv, StopsKept, EvidenceKept, NEW s \in Sessions, NEW step \in StopSteps,
         NEW k \in StopKeys, Goto(s, At(step, k[1], k[2])), stops'[k] # "absent",
         step \in {"accepted", "blank"} => Accepted(StopRef(k)),
         step = "promoted" => stops'[k] = "PROTECTED"
  PROVE  MemoryPart'
<1> DEFINE t == At(step, k[1], k[2])
<1>1. k[1] \in Entries /\ k[2] \in Quantities /\ k = <<k[1], k[2]>>
  BY DEF StopKeys
<1>2. t \in Task /\ Shaped(t)
  BY <1>1, AtIsTask DEF StopSteps, Steps, Shaped, At
<1>3. t.step = step /\ <<t.entry, t.qty>> = k
  BY <1>1 DEF At
<1>4. Remembered(t)'
  <2>1. step \in {"accepted", "blank"} => Accepted(StopRef(k))'
    BY DEF EvidenceKept
  <2>2. QED
    BY <2>1, <1>3 DEF Remembered, Accepted
<1>5. QED
  BY <1>2, <1>4, MemoryMoves DEF IInv

\* A session that works on a stop holds a key of the table.
LEMMA KeyHeld ==
  ASSUME IInv, NEW s \in Sessions
  PROVE  /\ task[s].step \in StopSteps \cup {"flatten", "exit"} =>
              /\ task[s].entry \in Entries /\ task[s].qty \in Quantities
              /\ Key(s) \in StopKeys
              /\ Key(s)[1] = task[s].entry /\ Key(s)[2] = task[s].qty
         /\ task[s].step \in StopSteps => stops[Key(s)] # "absent"
         /\ task[s].step \in {"accepted", "blank"} => Accepted(StopRef(Key(s)))
         /\ task[s].step = "promoted" => stops[Key(s)] = "PROTECTED"
         /\ task[s].step = "entry" => task[s].entry \in Entries
BY StopRefs DEF IInv, MemoryPart, MemoryShaped, MemoryHolds, Shaped, Remembered,
                Key, StopSteps

-----------------------------------------------------------------------------
(***************************************************************************)
(* Every step of a session preserves the invariant.                        *)
(***************************************************************************)

\* Steps that touch only the session's memory.
LEMMA MemoryOnly ==
  ASSUME IInv, NEW s \in Sessions, UNCHANGED <<journalVars, brokerVars, crashes>>,
         NEW t \in Task, Goto(s, t), Shaped(t), t.step \notin StopSteps
  PROVE  IInv'
<1>1. JournalGoal /\ PromotedOnEvidence
  BY JournalIdle
<1>2. BrokerTypeOK' /\ EvidenceKept /\ SentJournalled
  BY BrokerIdle
<1>3. MemoryPart'
  BY <1>1, <1>2, QuietMove DEF JournalGoal
<1>4. crashes' \in 0..MaxCrashes
  BY DEF IInv
<1>5. QED
  BY <1>1, <1>2, <1>3, <1>4, PartsMakeInvariant DEF JournalGoal

\* The empty memory is a well-shaped one.
LEMMA IdleFits == Idle \in Task /\ Shaped(Idle) /\ Idle.step \notin StopSteps
BY AtIsTask DEF Idle, At, Shaped, StopSteps

\* Reading the journal before a cycle keeps the invariant.
LEMMA ReadJournalStep ==
  ASSUME IInv, NEW s \in Sessions, ReadJournal(s)
  PROVE  IInv'
<1> DEFINE t == [At("read", NoEntry, 0) EXCEPT
                   !.known = KnownClientKeys,
                   !.uncovered = UnprotectedLivePositions]
<1>1. t \in Task
  BY DEF At, Task, Steps, KnownClientKeys, UnprotectedLivePositions
<1>2. Shaped(t) /\ t.step \notin StopSteps
  BY DEF At, Shaped, StopSteps
<1>3. QED
  BY <1>1, <1>2, MemoryOnly DEF ReadJournal

\* A live cycle, whether its entry is admitted or refused, keeps the invariant.
LEMMA BuildLiveEntryStep ==
  ASSUME IInv, NEW s \in Sessions, NEW e \in Entries, NEW q \in Quantities,
         NEW post \in BOOLEAN, BuildLiveEntry(s, e, q, post)
  PROVE  IInv'
<1>1. /\ At("entry", e, 0) \in Task
      /\ Shaped(At("entry", e, 0)) /\ At("entry", e, 0).step \notin StopSteps
  BY AtIsTask DEF Steps, At, Shaped, StopSteps
<1>2. QED
  BY <1>1, IdleFits, MemoryOnly DEF BuildLiveEntry, GiveUp

\* A shadow cycle, which may add a shadow trade, keeps the invariant.
LEMMA EvaluateShadowStep ==
  ASSUME IInv, NEW s \in Sessions, NEW e \in Entries, NEW q \in Quantities,
         EvaluateShadow(s, e, q)
  PROVE  IInv'
<1>1. JournalGoal /\ PromotedOnEvidence
  <2>1. /\ AssessProtection(q, FALSE) \in TradeProtection \ {"PROTECTED"}
        /\ "shadow" \in Modes /\ "below" \in StopLevels
    BY DEF AssessProtection, TradeProtection, Modes, StopLevels
  <2>2. QED
    BY <2>1, JournalIdle, TradeRecorded DEF EvaluateShadow
<1>2. BrokerTypeOK' /\ EvidenceKept /\ SentJournalled
  BY BrokerIdle DEF EvaluateShadow
<1>3. MemoryPart'
  BY <1>1, <1>2, GivingUp DEF EvaluateShadow, JournalGoal
<1>4. crashes' \in 0..MaxCrashes
  BY DEF IInv, EvaluateShadow
<1>5. QED
  BY <1>1, <1>2, <1>3, <1>4, PartsMakeInvariant DEF JournalGoal

\* The four payloads a session places.
LEMMA PlaceSteps ==
  ASSUME IInv, NEW s \in Sessions,
         PlaceEntry(s) \/ PlaceStop(s) \/ PlaceFlatten(s) \/ PlaceExit(s)
  PROVE  IInv'
<1>1. JournalGoal /\ PromotedOnEvidence
  BY JournalIdle DEF PlaceEntry, PlaceStop, PlaceFlatten, PlaceExit
<1>2. BrokerTypeOK' /\ EvidenceKept /\ SentJournalled
  <2>1. CASE PlaceEntry(s)
    BY <2>1, KeyHeld, StopRefs, OrderPlaced DEF PlaceEntry
  <2>2. CASE PlaceStop(s)
    <3>1. Key(s) \in StopKeys /\ task[s].qty \in Quantities /\ stops[Key(s)] # "absent"
      BY <2>2, KeyHeld DEF PlaceStop, StopSteps
    <3>2. QED
      BY <2>2, <3>1, StopRefs, OrderPlaced DEF PlaceStop
  <2>3. CASE PlaceFlatten(s)
    BY <2>3, KeyHeld, StopRefs, OrderPlaced DEF PlaceFlatten
  <2>4. CASE PlaceExit(s)
    BY <2>4, KeyHeld, StopRefs, OrderPlaced DEF PlaceExit
  <2>5. QED
    BY <2>1, <2>2, <2>3, <2>4
<1>3. MemoryPart'
  <2>1. CASE PlaceStop(s)
    <3>1. /\ Key(s) \in StopKeys /\ stops'[Key(s)] # "absent"
          /\ Goto(s, At("sent", Key(s)[1], Key(s)[2]))
      BY <2>1, <1>1, KeyHeld DEF PlaceStop, StopSteps, JournalGoal, StopsKept
    <3>2. QED
      BY <3>1, <1>1, <1>2, StopMove DEF StopSteps, JournalGoal
  <2>2. CASE ~PlaceStop(s)
    BY <2>2, <1>1, <1>2, GivingUp DEF PlaceEntry, PlaceFlatten, PlaceExit, JournalGoal
  <2>3. QED
    BY <2>1, <2>2
<1>4. crashes' \in 0..MaxCrashes
  BY DEF IInv, PlaceEntry, PlaceStop, PlaceFlatten, PlaceExit
<1>5. QED
  BY <1>1, <1>2, <1>3, <1>4, PartsMakeInvariant DEF JournalGoal

\* record-fill and record-exit.
LEMMA RecordSteps ==
  ASSUME IInv, NEW s \in Sessions, NEW e \in Entries,
         (\E stop \in FillStops : RecordFill(s, e, stop)) \/ RecordExit(s, e)
  PROVE  IInv'
<1>1. JournalGoal /\ PromotedOnEvidence
  <2>1. ASSUME NEW stop \in FillStops, RecordFill(s, e, stop)
        PROVE  JournalGoal /\ PromotedOnEvidence
    <3>1. /\ stop \in StopLevels /\ "live" \in Modes /\ held[e] \in Quantities
          /\ ProtectionOfFill(stop) \in TradeProtection \ {"PROTECTED"}
      BY <2>1, LifecycleAssumption
      DEF RecordFill, FillRecordable, StopLevels, Modes, ProtectionOfFill, TradeProtection
    <3>2. QED
      BY <2>1, <3>1, TradeRecorded DEF RecordFill
  <2>2. CASE RecordExit(s, e)
    BY <2>2, TradeClosed DEF RecordExit
  <2>3. QED
    BY <2>1, <2>2
<1>2. UNCHANGED <<brokerVars, task, crashes>>
  BY DEF RecordFill, RecordExit
<1>3. BrokerTypeOK' /\ EvidenceKept /\ SentJournalled
  BY <1>2, BrokerIdle
<1>4. MemoryPart'
  BY <1>1, <1>2, <1>3, MemoryIdle DEF IInv, JournalGoal
<1>5. QED
  BY <1>1, <1>2, <1>3, <1>4, PartsMakeInvariant DEF JournalGoal, IInv

\* protect keeps the invariant: its row is written before the payload leaves,
\* and only for a trade that is open, whatever its mode and its other stops.
LEMMA ProtectStep ==
  ASSUME IInv, NEW s \in Sessions, NEW e \in Entries, NEW q \in Quantities,
         Protect(s, e, q)
  PROVE  IInv'
<1>1. BrokerTypeOK' /\ EvidenceKept /\ SentJournalled
  BY BrokerIdle DEF Protect
<1>2. crashes' \in 0..MaxCrashes
  BY DEF IInv, Protect
<1>3. CASE RecordProtectionSubmitted(<<e, q>>) /\ Goto(s, At("stop", e, q))
  <2>1. <<e, q>> \in StopKeys /\ trades[e].status # "absent"
    BY StopRefs DEF Protect, OpenTrade
  <2>2. JournalGoal /\ PromotedOnEvidence
    BY <1>3, <2>1, StopSubmitted
  <2>3. stops'[<<e, q>>] # "absent"
    BY <1>3, <2>1 DEF RecordProtectionSubmitted, IInv, JournalPart, JournalTypeOK
  <2>4. MemoryPart'
    <3> DEFINE k == <<e, q>>
    <3>1. k \in StopKeys /\ k[1] = e /\ k[2] = q
      BY <2>1
    <3>2. Goto(s, At("stop", k[1], k[2])) /\ stops'[k] # "absent"
      BY <1>3, <2>3, <3>1
    <3> HIDE DEF k
    <3>3. QED
      BY <1>1, <2>2, <3>1, <3>2, StopMove DEF StopSteps, JournalGoal
  <2>5. QED
    BY <1>1, <1>2, <2>2, <2>4, PartsMakeInvariant DEF JournalGoal
<1>4. CASE Goto(s, At("flatten", e, q)) /\ UNCHANGED journalVars
  <2>1. /\ At("flatten", e, q) \in Task
        /\ Shaped(At("flatten", e, q)) /\ At("flatten", e, q).step \notin StopSteps
    BY AtIsTask DEF Steps, At, Shaped, StopSteps
  <2>2. QED
    BY <1>4, <2>1, MemoryOnly DEF Protect
<1>5. QED
  BY <1>3, <1>4 DEF Protect

\* A session hears or looks up what became of a stop.
LEMMA AnswerSteps ==
  ASSUME IInv, NEW s \in Sessions, HearReply(s) \/ \E k \in StopKeys : Reconcile(s, k)
  PROVE  IInv'
<1>1. /\ UNCHANGED <<journalVars, brokerVars, crashes>>
      /\ JournalGoal /\ PromotedOnEvidence
      /\ BrokerTypeOK' /\ EvidenceKept /\ SentJournalled
  BY JournalIdle, BrokerIdle DEF HearReply, Reconcile
<1>2. PICK k \in StopKeys, step \in {"accepted", "blank", "refused"} :
        /\ Goto(s, At(step, k[1], k[2]))
        /\ stops[k] # "absent"
        /\ step \in {"accepted", "blank"} => Accepted(StopRef(k))
  <2>1. CASE HearReply(s)
    <3>1. /\ Key(s) \in StopKeys /\ stops[Key(s)] # "absent"
          /\ Key(s)[1] = task[s].entry /\ Key(s)[2] = task[s].qty
      BY <2>1, KeyHeld DEF HearReply, StopSteps
    <3>2. PICK reply \in Replies(Key(s)) :
            Goto(s, At(reply, task[s].entry, task[s].qty))
      BY <2>1 DEF HearReply
    <3>3. /\ reply \in {"accepted", "blank", "refused"}
          /\ reply \in {"accepted", "blank"} => Accepted(StopRef(Key(s)))
      BY <3>2 DEF Replies
    <3>4. QED
      BY <3>1, <3>2, <3>3
  <2>2. ASSUME NEW k \in StopKeys, Reconcile(s, k)
        PROVE  \E step \in {"accepted", "blank", "refused"} :
                 /\ Goto(s, At(step, k[1], k[2]))
                 /\ stops[k] # "absent"
                 /\ step \in {"accepted", "blank"} => Accepted(StopRef(k))
    <3>1. stops[k] # "absent" /\ (Rests(k) => Accepted(StopRef(k)))
      BY <2>2 DEF Reconcile, UnconfirmedProtection, Rests, Accepted
    <3>2. Goto(s, At(IF Rests(k) THEN "accepted" ELSE "refused", k[1], k[2]))
      BY <2>2 DEF Reconcile
    <3>3. CASE Rests(k)
      BY <3>1, <3>2, <3>3
    <3>4. CASE ~Rests(k)
      BY <3>1, <3>2, <3>4
    <3>5. QED
      BY <3>3, <3>4
  <2>3. QED
    BY <2>1, <2>2
<1>3. stops'[k] # "absent"
  BY <1>1, <1>2 DEF journalVars
<1>4. MemoryPart'
  BY <1>1, <1>2, <1>3, StopMove DEF StopSteps, JournalGoal
<1>5. QED
  BY <1>1, <1>4, PartsMakeInvariant DEF JournalGoal, IInv

\* protect-resolve, both ways, and its second transaction.
LEMMA ResolveSteps ==
  ASSUME IInv, NEW s \in Sessions,
         ResolveAccepted(s) \/ UpdateTrade(s) \/ ResolveFailed(s)
  PROVE  IInv'
<1>1. /\ UNCHANGED <<brokerVars, crashes>>
      /\ BrokerTypeOK' /\ EvidenceKept /\ SentJournalled
  BY BrokerIdle DEF ResolveAccepted, UpdateTrade, ResolveFailed
<1>2. /\ Key(s) \in StopKeys /\ task[s].entry \in Entries /\ task[s].qty \in Quantities
      /\ Key(s)[1] = task[s].entry /\ Key(s)[2] = task[s].qty
  BY KeyHeld DEF ResolveAccepted, UpdateTrade, ResolveFailed, StopSteps
<1>3. CASE GiveUp(s) /\ UNCHANGED journalVars
  BY <1>1, <1>3, IdleFits, MemoryOnly DEF GiveUp
<1>4. CASE /\ ResolveAccepted(s)
           /\ RecordProtectionAccepted(Key(s), TRUE)
           /\ Goto(s, At("promoted", task[s].entry, task[s].qty))
  <2>1. JournalGoal /\ PromotedOnEvidence
    <3>1. Accepted(StopRef(Key(s)))
      BY <1>4, KeyHeld DEF ResolveAccepted
    <3>2. QED
      BY <1>2, <1>4, <3>1, StopResolved
  <2>2. stops'[Key(s)] = "PROTECTED"
    BY <1>2, <1>4 DEF RecordProtectionAccepted, IInv, JournalPart, JournalTypeOK
  <2>3. MemoryPart'
    BY <1>1, <1>2, <1>4, <2>1, <2>2, StopMove DEF StopSteps, JournalGoal
  <2>4. QED
    BY <1>1, <2>1, <2>3, PartsMakeInvariant DEF JournalGoal, IInv
<1>5. CASE UpdateTrade(s)
  <2>1. JournalGoal /\ PromotedOnEvidence
    <3>1. HasProtectedStop(task[s].entry)
      BY <1>2, <1>5, KeyHeld DEF UpdateTrade, HasProtectedStop, Key
    <3>2. QED
      BY <1>2, <1>5, <3>1, TradeUpdated DEF UpdateTrade
  <2>2. MemoryPart'
    BY <1>1, <1>5, <2>1, GivingUp DEF UpdateTrade, JournalGoal
  <2>3. QED
    BY <1>1, <2>1, <2>2, PartsMakeInvariant DEF JournalGoal, IInv
<1>6. CASE RecordProtectionFailed(Key(s)) /\ HandFlatten(s)
  <2>1. JournalGoal /\ PromotedOnEvidence
    BY <1>2, <1>6, StopResolved
  <2>2. /\ At("flatten", task[s].entry, task[s].qty) \in Task
        /\ Shaped(At("flatten", task[s].entry, task[s].qty))
        /\ At("flatten", task[s].entry, task[s].qty).step \notin StopSteps
    BY <1>2, AtIsTask DEF Steps, At, Shaped, StopSteps
  <2>3. MemoryPart'
    BY <1>1, <1>6, <2>1, <2>2, QuietMove DEF HandFlatten, JournalGoal
  <2>4. QED
    BY <1>1, <2>1, <2>3, PartsMakeInvariant DEF JournalGoal, IInv
<1>7. QED
  BY <1>3, <1>4, <1>5, <1>6
  DEF ResolveAccepted, ResolveFailed, RecordProtectionAccepted, Promotable

\* Steps that only give something up, and the start of an exit.
LEMMA OtherSessionSteps ==
  ASSUME IInv, NEW s \in Sessions,
         \/ LoseReply(s)
         \/ \E e \in Entries, q \in Quantities : BuildLiveExit(s, e, q)
  PROVE  IInv'
<1>1. CASE LoseReply(s)
  BY <1>1, IdleFits, MemoryOnly DEF LoseReply, GiveUp
<1>2. ASSUME NEW e \in Entries, NEW q \in Quantities, BuildLiveExit(s, e, q)
      PROVE  IInv'
  <2>1. /\ At("exit", e, q) \in Task
        /\ Shaped(At("exit", e, q)) /\ At("exit", e, q).step \notin StopSteps
    BY AtIsTask DEF Steps, At, Shaped, StopSteps
  <2>2. QED
    BY <1>2, <2>1, MemoryOnly DEF BuildLiveExit
<1>3. QED
  BY <1>1, <1>2

\* A crash keeps the invariant: only memory is lost.
LEMMA CrashStep ==
  ASSUME IInv, NEW s \in Sessions, Crash(s)
  PROVE  IInv'
<1>1. /\ JournalGoal /\ PromotedOnEvidence
      /\ BrokerTypeOK' /\ EvidenceKept /\ SentJournalled
  BY JournalIdle, BrokerIdle DEF Crash
<1>2. MemoryPart'
  BY <1>1, GivingUp DEF Crash, JournalGoal
<1>3. crashes' \in 0..MaxCrashes
  BY LifecycleAssumption DEF Crash, IInv
<1>4. QED
  BY <1>1, <1>2, <1>3, PartsMakeInvariant DEF JournalGoal

\* The broker's own steps, and a stop cancelled before an exit.
LEMMA BrokerSteps ==
  ASSUME IInv,
         \/ \E r \in Refs : ProcessOrder(r)
         \/ \E k \in StopKeys : StopLeavesBook(k)
         \/ \E s \in Sessions, k \in StopKeys : CancelBeforeExit(s, k)
  PROVE  IInv'
<1>1. UNCHANGED <<journalVars, task, crashes>>
  BY DEF ProcessOrder, StopLeavesBook, CancelBeforeExit
<1>2. JournalGoal /\ PromotedOnEvidence
  BY <1>1, JournalIdle
<1>3. BrokerTypeOK' /\ EvidenceKept /\ SentJournalled
  BY ProcessingOrders, LeavingStops DEF StopLeavesBook, CancelBeforeExit
<1>4. MemoryPart'
  BY <1>1, <1>2, <1>3, MemoryIdle DEF IInv, JournalGoal
<1>5. QED
  BY <1>1, <1>2, <1>3, <1>4, PartsMakeInvariant DEF JournalGoal, IInv

-----------------------------------------------------------------------------
(***************************************************************************)
(* The invariant.                                                          *)
(***************************************************************************)
\* Empty tables, an empty book and idle sessions satisfy the invariant.
LEMMA InvariantInitially == Init => IInv
<1> SUFFICES ASSUME Init PROVE IInv
  OBVIOUS
<1>1. JournalPart
  BY DEF Init, JournalInit, JournalPart, JournalTypeOK, TradeRow, TradeStatus, Modes,
         StopLevels, TradeProtection, StopStates, NoTrade, NewRows,
         TradeNotAheadOfStop, StopsOfTrades
<1>2. BrokerTypeOK
  BY DEF Init, BrokerInit, BrokerTypeOK, OrderStates
<1>3. MemoryPart
  BY IdleFits DEF Init, MemoryPart, MemoryShaped, MemoryHolds, Remembered, StopSteps
<1>4. crashes \in 0..MaxCrashes
  BY LifecycleAssumption DEF Init
<1>5. WriteAhead
  BY StopRefs DEF Init, BrokerInit, WriteAhead, OnWire
<1>6. ProtectedOnEvidence
  BY DEF Init, JournalInit, ProtectedOnEvidence
<1>7. QED
  BY <1>1, <1>2, <1>3, <1>4, <1>5, <1>6 DEF IInv

\* Every step, of a session, of the broker, or a crash, keeps the invariant.
LEMMA InvariantKept == IInv /\ [Next]_vars => IInv'
<1> SUFFICES ASSUME IInv, [Next]_vars PROVE IInv'
  OBVIOUS
<1>1. ASSUME NEW s \in Sessions, SessionStep(s)
      PROVE  IInv'
  BY <1>1, ReadJournalStep, BuildLiveEntryStep, EvaluateShadowStep, PlaceSteps,
     RecordSteps, ProtectStep, AnswerSteps, ResolveSteps, OtherSessionSteps, BrokerSteps
  DEF SessionStep
<1>2. ASSUME NEW s \in Sessions, Crash(s)
      PROVE  IInv'
  BY <1>2, CrashStep
<1>3. CASE \/ \E r \in Refs : ProcessOrder(r)
           \/ \E k \in StopKeys : StopLeavesBook(k)
  BY <1>3, BrokerSteps
<1>4. CASE UNCHANGED vars
  <2>1. /\ JournalGoal /\ PromotedOnEvidence
        /\ BrokerTypeOK' /\ EvidenceKept /\ SentJournalled
    BY <1>4, JournalIdle, BrokerIdle DEF vars, journalVars, brokerVars
  <2>2. MemoryPart'
    BY <1>4, <2>1, MemoryIdle DEF vars, IInv, JournalGoal
  <2>3. QED
    BY <1>4, <2>1, <2>2, PartsMakeInvariant DEF vars, JournalGoal, IInv
<1>5. QED
  BY <1>1, <1>2, <1>3, <1>4 DEF Next

\* The strengthened invariant of journal, broker and session memory holds in
\* every state any sequence of commands, crashes and replies can reach.
THEOREM InvariantHolds == Spec => []IInv
<1>1. QED
  BY InvariantInitially, InvariantKept, PTL DEF Spec

-----------------------------------------------------------------------------
(***************************************************************************)
(* What the invariant says, property by property.                          *)
(***************************************************************************)

\* The types of the journal (journal/repository.py, SCHEMA), of the broker's
\* book and of the sessions' memory, for every set of sessions and entries.
THEOREM TypeCorrect == Spec => []TypeOK
<1>1. IInv => TypeOK
  BY DEF IInv, JournalPart, MemoryPart, TypeOK
<1>2. QED
  BY <1>1, InvariantHolds, PTL

\* A stop the broker may hold has a row in protective_orders: cmd_protect
\* writes it before it hands out the payload.
THEOREM StopsAreWrittenAhead == Spec => []WriteAhead
<1>1. IInv => WriteAhead
  BY DEF IInv
<1>2. QED
  BY <1>1, InvariantHolds, PTL

\* A PROTECTED row describes a stop the broker accepted: no path through
\* protect-resolve, however delayed or repeated, promotes another.
THEOREM ProtectionRestsOnEvidence == Spec => []ProtectedOnEvidence
<1>1. IInv => ProtectedOnEvidence
  BY DEF IInv
<1>2. QED
  BY <1>1, InvariantHolds, PTL

\* The trades row says PROTECTED only beside a PROTECTED stop: the two
\* transactions of protect-resolve run in the safe order.
THEOREM TradeFollows == Spec => []TradeNotAheadOfStop
<1>1. IInv => TradeNotAheadOfStop
  BY DEF IInv, JournalPart
<1>2. QED
  BY <1>1, InvariantHolds, PTL

\* What a session heard stays true until it acts on it.
THEOREM MemoryStaysTrue == Spec => []MemoryHolds
<1>1. IInv => MemoryHolds
  BY DEF IInv, MemoryPart
<1>2. QED
  BY <1>1, InvariantHolds, PTL

-----------------------------------------------------------------------------
(***************************************************************************)
(* How the journal moves: the five transactions, and nothing else.         *)
(***************************************************************************)
TradeOpens(e) ==
  /\ trades[e].status = "absent" /\ trades'[e].status = "open"
  /\ \A f \in Entries \ {e} : trades'[f] = trades[f]
  /\ UNCHANGED stops

TradeCloses(e) ==
  /\ OpenTrade(e) /\ held[e] <= 0
  /\ trades'[e].status = "closed" /\ trades'[e].mode = trades[e].mode
  /\ \A f \in Entries \ {e} : trades'[f] = trades[f]
  /\ UNCHANGED stops

TradeAnnotated ==
  /\ \A e \in Entries : /\ trades'[e].status = trades[e].status
                        /\ trades'[e].mode = trades[e].mode
  /\ UNCHANGED stops

StopMoves(k) ==
  /\ \/ stops[k] = "absent" /\ stops'[k] = "SUBMITTED"
     \/ stops[k] = "SUBMITTED" /\ stops'[k] = "FAILED"
     \/ /\ stops[k] = "SUBMITTED" /\ stops'[k] = "PROTECTED"
        /\ Accepted(StopRef(k))
  /\ OpenTrade(k[1]) \/ stops[k] # "absent"
  /\ \A l \in StopKeys \ {k} : stops'[l] = stops[l]
  /\ UNCHANGED trades

JournalMoves ==
  /\ UNCHANGED brokerVars
  /\ \/ \E e \in Entries : TradeOpens(e) \/ TradeCloses(e)
     \/ TradeAnnotated
     \/ \E k \in StopKeys : StopMoves(k)

\* record_trade adds a row where there was none.
LEMMA OpeningMoves ==
  ASSUME IInv, NEW e \in Entries, NEW mode, NEW stop, NEW quantity, NEW protection,
         RecordTrade(e, mode, stop, quantity, protection)
  PROVE  TradeOpens(e)
BY DEF IInv, JournalPart, JournalTypeOK, RecordTrade, KnownClientKeys, TradeOpens

\* record-exit closes an open trade with no shares left.
LEMMA ClosingMoves ==
  ASSUME IInv, NEW s \in Sessions, NEW e \in Entries, RecordExit(s, e)
  PROVE  TradeCloses(e)
<1>1. /\ trades' = [trades EXCEPT ![e] = [trades[e] EXCEPT !.status = "closed"]]
      /\ stops' = stops /\ OpenTrade(e) /\ held[e] <= 0
  BY DEF RecordExit, CloseTrade
<1>2. QED
  BY <1>1 DEF IInv, JournalPart, JournalTypeOK, TradeRow, TradeCloses

\* update_trade_protection changes no status and no mode.
LEMMA AnnotatingMoves ==
  ASSUME IInv, NEW e \in Entries, NEW state, UpdateTradeProtection(e, state)
  PROVE  TradeAnnotated
<1>1. /\ trades' = [trades EXCEPT ![e] = [trades[e] EXCEPT !.protection = state]]
      /\ stops' = stops
  BY DEF UpdateTradeProtection
<1>2. QED
  BY <1>1 DEF IInv, JournalPart, JournalTypeOK, TradeRow, TradeAnnotated

\* A submission for an open trade moves one stop from absent to SUBMITTED.
LEMMA SubmittingMoves ==
  ASSUME IInv, NEW k \in StopKeys, RecordProtectionSubmitted(k), OpenTrade(k[1])
  PROVE  StopMoves(k)
BY DEF IInv, JournalPart, JournalTypeOK, RecordProtectionSubmitted, StopMoves

\* A resolution moves one SUBMITTED stop, to PROTECTED only on evidence.
LEMMA ResolvingMoves ==
  ASSUME IInv, NEW k \in StopKeys,
         RecordProtectionFailed(k)
           \/ (RecordProtectionAccepted(k, TRUE) /\ Accepted(StopRef(k)))
  PROVE  StopMoves(k)
BY DEF IInv, JournalPart, JournalTypeOK, RecordProtectionFailed,
       RecordProtectionAccepted, Promotable, UnconfirmedProtection, StopMoves

\* A session either leaves the journal alone or moves it in one of these ways.
LEMMA SessionMoves ==
  ASSUME IInv, NEW s \in Sessions, SessionStep(s)
  PROVE  JournalMoves \/ UNCHANGED journalVars
<1>1. CASE \E e \in Entries, q \in Quantities : EvaluateShadow(s, e, q)
  BY <1>1, OpeningMoves DEF EvaluateShadow, JournalMoves
<1>2. CASE \E e \in Entries, stop \in FillStops : RecordFill(s, e, stop)
  BY <1>2, OpeningMoves DEF RecordFill, JournalMoves
<1>3. CASE \E e \in Entries : RecordExit(s, e)
  BY <1>3, ClosingMoves DEF RecordExit, JournalMoves
<1>4. ASSUME NEW e \in Entries, NEW q \in Quantities, Protect(s, e, q)
      PROVE  JournalMoves \/ UNCHANGED journalVars
  <2> DEFINE k == <<e, q>>
  <2>1. k \in StopKeys /\ k[1] = e
    BY StopRefs
  <2>2. OpenTrade(e) /\ UNCHANGED brokerVars
    BY <1>4 DEF Protect
  <2>3. RecordProtectionSubmitted(k) \/ UNCHANGED journalVars
    BY <1>4 DEF Protect
  <2> HIDE DEF k
  <2>4. QED
    BY <2>1, <2>2, <2>3, SubmittingMoves DEF JournalMoves
<1>5. CASE ResolveAccepted(s) \/ ResolveFailed(s)
  <2>1. /\ Key(s) \in StopKeys /\ UNCHANGED brokerVars
        /\ ResolveAccepted(s) => Accepted(StopRef(Key(s)))
    BY <1>5, KeyHeld DEF ResolveAccepted, ResolveFailed, StopSteps
  <2>2. \/ RecordProtectionFailed(Key(s))
        \/ RecordProtectionAccepted(Key(s), TRUE) /\ Accepted(StopRef(Key(s)))
        \/ UNCHANGED journalVars
    BY <1>5, <2>1
    DEF ResolveAccepted, ResolveFailed, RecordProtectionAccepted, Promotable
  <2>3. QED
    BY <2>1, <2>2, ResolvingMoves DEF JournalMoves
<1>6. CASE UpdateTrade(s)
  <2>1. task[s].entry \in Entries
    BY <1>6, KeyHeld DEF UpdateTrade, StopSteps
  <2>2. QED
    BY <1>6, <2>1, AnnotatingMoves DEF UpdateTrade, JournalMoves
<1>7. CASE \/ ReadJournal(s) \/ PlaceEntry(s) \/ PlaceStop(s) \/ HearReply(s)
           \/ LoseReply(s) \/ PlaceFlatten(s) \/ PlaceExit(s)
           \/ \E e \in Entries, q \in Quantities, post \in BOOLEAN :
                BuildLiveEntry(s, e, q, post)
           \/ \E e \in Entries, q \in Quantities : BuildLiveExit(s, e, q)
           \/ \E k \in StopKeys : Reconcile(s, k) \/ CancelBeforeExit(s, k)
  BY <1>7 DEF ReadJournal, PlaceEntry, PlaceStop, HearReply, LoseReply, PlaceFlatten,
              PlaceExit, BuildLiveEntry, BuildLiveExit, Reconcile, CancelBeforeExit
<1>8. QED
  BY <1>1, <1>2, <1>3, <1>4, <1>5, <1>6, <1>7 DEF SessionStep

\* So does every step of the system.
LEMMA JournalSteps ==
  IInv /\ [Next]_vars => JournalMoves \/ UNCHANGED journalVars
<1> SUFFICES ASSUME IInv, [Next]_vars
             PROVE  JournalMoves \/ UNCHANGED journalVars
  OBVIOUS
<1>1. CASE \E s \in Sessions : SessionStep(s)
  BY <1>1, SessionMoves
<1>2. CASE ~\E s \in Sessions : SessionStep(s)
  BY <1>2 DEF Next, Crash, ProcessOrder, StopLeavesBook, vars, journalVars
<1>3. QED
  BY <1>1, <1>2

-----------------------------------------------------------------------------
\* A row of protective_orders that was resolved is never resolved again, by
\* whichever session and in whatever order the answers arrive.
THEOREM ResolvedOnce == Spec => ResolutionIsFinal
<1>1. ASSUME IInv, [Next]_vars
      PROVE  \A k \in StopKeys : stops[k] \in {"PROTECTED", "FAILED"} =>
               stops'[k] = stops[k]
  <2>1. JournalMoves \/ UNCHANGED journalVars
    BY <1>1, JournalSteps
  <2>2. QED
    BY <2>1 DEF JournalMoves, TradeOpens, TradeCloses, TradeAnnotated, StopMoves,
                journalVars
<1>2. QED
  BY <1>1, InvariantHolds, PTL DEF Spec, ResolutionIsFinal

\* A position leaves the list that blocks entries only by a confirmed stop of
\* its own or by being closed with no share left.
THEOREM GuardIsReleasedByEvidence == Spec => GuardReleases
<1>1. ASSUME IInv, [Next]_vars,
             NEW e \in UnprotectedLivePositions \ UnprotectedLivePositions'
      PROVE  \/ \E q \in Quantities : /\ stops[<<e, q>>] = "SUBMITTED"
                                      /\ stops'[<<e, q>>] = "PROTECTED"
                                      /\ Accepted(StopRef(<<e, q>>))
             \/ trades'[e].status = "closed" /\ held[e] <= 0
  <2>1. /\ e \in Entries /\ OpenTrade(e) /\ trades[e].mode = "live"
        /\ ~HasProtectedStop(e)
        /\ ~(OpenTrade(e)' /\ trades'[e].mode = "live" /\ ~HasProtectedStop(e)')
    BY DEF UnprotectedLivePositions
  <2>2. JournalMoves
    BY <1>1, <2>1, JournalSteps DEF journalVars, OpenTrade, HasProtectedStop
  <2>3. CASE \E f \in Entries : TradeOpens(f)
    BY <2>1, <2>3 DEF TradeOpens, OpenTrade, HasProtectedStop
  <2>4. CASE \E f \in Entries : TradeCloses(f)
    BY <2>1, <2>4 DEF TradeCloses, OpenTrade, HasProtectedStop
  <2>5. CASE TradeAnnotated
    BY <2>1, <2>5 DEF TradeAnnotated, OpenTrade, HasProtectedStop
  <2>6. ASSUME NEW k \in StopKeys, StopMoves(k)
        PROVE  \E q \in Quantities : /\ stops[<<e, q>>] = "SUBMITTED"
                                     /\ stops'[<<e, q>>] = "PROTECTED"
                                     /\ Accepted(StopRef(<<e, q>>))
    <3>1. trades' = trades
      BY <2>6 DEF StopMoves
    <3>2. PICK q \in Quantities : stops'[<<e, q>>] = "PROTECTED"
      BY <2>1, <3>1 DEF OpenTrade, HasProtectedStop
    <3>3. stops[<<e, q>>] # "PROTECTED" /\ <<e, q>> \in StopKeys
      BY <2>1, <3>2, StopRefs DEF HasProtectedStop
    <3>4. k = <<e, q>>
      BY <2>6, <3>2, <3>3 DEF StopMoves
    <3>5. QED
      BY <2>6, <3>2, <3>4 DEF StopMoves
  <2>7. QED
    BY <2>2, <2>3, <2>4, <2>5, <2>6 DEF JournalMoves
<1>2. IInv /\ [Next]_vars =>
        \A e \in UnprotectedLivePositions \ UnprotectedLivePositions' :
          \/ \E q \in Quantities : /\ stops[<<e, q>>] = "SUBMITTED"
                                   /\ stops'[<<e, q>>] = "PROTECTED"
                                   /\ Accepted(StopRef(<<e, q>>))
          \/ trades'[e].status = "closed" /\ held[e] <= 0
  BY <1>1
<1>3. QED
  BY <1>2, InvariantHolds, PTL DEF Spec, GuardReleases

-----------------------------------------------------------------------------
(***************************************************************************)
(* The journal implements EntryLedger.  A step of the journal moves one    *)
(* phase, a step of the broker confirms at most one entry, and no step     *)
(* does both.                                                              *)
(***************************************************************************)

\* A step changes the state of at most one order, and takes no evidence away.
LEMMA OneOrderMoves ==
  ASSUME IInv, [Next]_vars
  PROVE  \/ /\ \E r \in Refs : \A q \in Refs \ {r} : book'[q] = book[q]
            /\ EvidenceKept /\ SentJournalled
         \/ UNCHANGED book
<1>1. ASSUME NEW k \in StopKeys, TriggerStop(k) \/ CancelStop(k)
      PROVE  /\ \E r \in Refs : \A q \in Refs \ {r} : book'[q] = book[q]
             /\ EvidenceKept /\ SentJournalled
  <2>1. StopRef(k) \in Refs
    BY StopRefs
  <2>2. \A q \in Refs \ {StopRef(k)} : book'[q] = book[q]
    BY <1>1 DEF TriggerStop, CancelStop, IInv, BrokerTypeOK
  <2>3. QED
    BY <1>1, <2>1, <2>2, LeavingStops
<1>2. ASSUME NEW r \in Refs, ProcessOrder(r)
      PROVE  /\ \A q \in Refs \ {r} : book'[q] = book[q]
             /\ EvidenceKept /\ SentJournalled
  BY <1>2, ProcessingOrders
  DEF ProcessOrder, Dedupe, FillEntry, FillSell, DecideStop, IInv, BrokerTypeOK
<1>3. ASSUME NEW s \in Sessions, SessionStep(s), NEW k \in StopKeys, CancelBeforeExit(s, k)
      PROVE  CancelStop(k)
  BY <1>3 DEF CancelBeforeExit
<1>4. ASSUME NEW s \in Sessions, SessionStep(s) \/ Crash(s),
             ~\E k \in StopKeys : CancelBeforeExit(s, k)
      PROVE  UNCHANGED book
  BY <1>4 DEF SessionStep, Crash, ReadJournal, BuildLiveEntry, EvaluateShadow,
              PlaceEntry, RecordFill, Protect, PlaceStop, HearReply, LoseReply,
              Reconcile, ResolveAccepted, UpdateTrade, ResolveFailed, PlaceFlatten,
              BuildLiveExit, PlaceExit, RecordExit, Place, brokerVars
<1>5. CASE UNCHANGED vars
  BY <1>5 DEF vars
<1>6. QED
  BY <1>1, <1>2, <1>3, <1>4, <1>5 DEF Next, StopLeavesBook, CancelBeforeExit

\* A step of the broker leaves the ledger alone or confirms a known entry.
LEMMA LedgerConfirms ==
  ASSUME IInv, [Next]_vars, UNCHANGED journalVars
  PROVE  Ledger!Next \/ UNCHANGED Ledger!ledgerVars
<1>1. [e \in Entries |-> Phase(e)]' = [e \in Entries |-> Phase(e)]
  BY DEF journalVars, Phase, HasProtectedStop
<1>2. CASE UNCHANGED book
  <2>1. Confirmed' = Confirmed
    BY <1>2 DEF Confirmed, Accepted, journalVars
  <2>2. QED
    BY <1>1, <2>1 DEF Ledger!ledgerVars
<1>3. ASSUME NEW r \in Refs, \A q \in Refs \ {r} : book'[q] = book[q],
             EvidenceKept, SentJournalled
      PROVE  Ledger!Next \/ UNCHANGED Ledger!ledgerVars
  <2>1. Confirmed \subseteq Confirmed'
    BY <1>3, StopRefs DEF Confirmed, EvidenceKept, journalVars
  <2>2. \A e \in Entries \ {r.entry}, q \in Quantities :
          Accepted(StopRef(<<e, q>>))' => Accepted(StopRef(<<e, q>>))
    <3> SUFFICES ASSUME NEW e \in Entries \ {r.entry}, NEW q \in Quantities
                 PROVE  book'[StopRef(<<e, q>>)] = book[StopRef(<<e, q>>)]
      BY DEF Accepted
    <3>1. StopRef(<<e, q>>) \in Refs /\ StopRef(<<e, q>>).entry = e
      BY StopRefs DEF StopRef
    <3>2. QED
      BY <1>3, <3>1
  <2>3. Confirmed' \subseteq Confirmed \cup {r.entry}
    BY <2>2 DEF Confirmed, journalVars
  <2>4. CASE Confirmed' = Confirmed
    BY <1>1, <2>4 DEF Ledger!ledgerVars
  <2>5. CASE Confirmed' # Confirmed
    <3> DEFINE e == r.entry
    <3>1. e \in Entries /\ e \in Confirmed' /\ Confirmed' = Confirmed \cup {e}
      BY <2>1, <2>3, <2>5 DEF Refs
    <3>2. trades[e].mode = "live"
      BY <3>1 DEF Confirmed, journalVars
    <3>3. [f \in Entries |-> Phase(f)][e] # "unknown"
      BY <3>1, <3>2 DEF Phase
    <3>4. Ledger!Confirm(e)
      BY <1>1, <3>1, <3>3 DEF Ledger!Confirm
    <3>5. QED
      BY <3>1, <3>4 DEF Ledger!Next
  <2>6. QED
    BY <2>4, <2>5
<1>4. QED
  BY <1>2, <1>3, OneOrderMoves

\* A step of the journal confirms nobody: a trade that opens has no stop yet
\* that the broker could have accepted.
LEMMA ConfirmedKept ==
  ASSUME IInv, JournalMoves
  PROVE  Confirmed' = Confirmed
<1> SUFFICES ASSUME NEW e \in Entries
             PROVE  (e \in Confirmed)' <=> e \in Confirmed
  BY DEF Confirmed
<1>1. \A q \in Quantities : Accepted(StopRef(<<e, q>>))' <=> Accepted(StopRef(<<e, q>>))
  BY DEF JournalMoves, brokerVars, Accepted
<1>2. CASE trades'[e].mode = trades[e].mode
  BY <1>1, <1>2 DEF Confirmed
<1>3. CASE trades'[e].mode # trades[e].mode
  <2>1. trades[e].status = "absent"
    BY <1>3 DEF JournalMoves, TradeOpens, TradeCloses, TradeAnnotated, StopMoves
  <2>2. \A q \in Quantities : ~Accepted(StopRef(<<e, q>>))
    <3> SUFFICES ASSUME NEW q \in Quantities
                 PROVE  book[StopRef(<<e, q>>)] = "unknown"
      BY DEF Accepted
    <3>1. <<e, q>> \in StopKeys /\ stops[<<e, q>>] = "absent"
      BY <2>1, StopRefs DEF IInv, JournalPart, StopsOfTrades
    <3>2. QED
      BY <3>1 DEF IInv, WriteAhead
  <2>3. QED
    BY <1>1, <2>2 DEF Confirmed
<1>4. QED
  BY <1>2, <1>3

\* A phase that one entry takes on in a step of the journal.
LEMMA LedgerMoves ==
  ASSUME IInv, JournalMoves
  PROVE  Ledger!Next \/ UNCHANGED Ledger!ledgerVars
<1> DEFINE phases == [e \in Entries |-> Phase(e)]
<1>1. Confirmed' = Confirmed
  BY ConfirmedKept
<1>2. ASSUME \A f \in Entries : Phase(f)' = Phase(f)
      PROVE  UNCHANGED Ledger!ledgerVars
  BY <1>1, <1>2 DEF Ledger!ledgerVars
<1>3. ASSUME NEW e \in Entries, NEW to, NEW from, Phase(e)' = to, Phase(e) \in from,
             \A f \in Entries \ {e} : Phase(f)' = Phase(f)
      PROVE  Ledger!Move(e, from, to)
  <2>1. phases' = [phases EXCEPT ![e] = to]
    BY <1>3
  <2>2. QED
    BY <1>1, <1>3, <2>1 DEF Ledger!Move
<1>4. ASSUME NEW e \in Entries, TradeOpens(e)
      PROVE  Ledger!Next \/ UNCHANGED Ledger!ledgerVars
  <2>1. \A f \in Entries \ {e} : Phase(f)' = Phase(f)
    BY <1>4 DEF TradeOpens, Phase, HasProtectedStop
  <2>2. trades[e].mode = "none"
    BY <1>4 DEF TradeOpens, IInv, JournalPart, NewRows, NoTrade
  <2>3. Phase(e) = "unknown" /\ ~HasProtectedStop(e)'
    BY <1>4, <2>2, StopRefs
    DEF Phase, TradeOpens, HasProtectedStop, IInv, JournalPart, StopsOfTrades
  <2>4. Phase(e)' = "unknown" \/ Phase(e)' = "exposed"
    BY <1>4, <2>3 DEF Phase, TradeOpens
  <2>5. CASE Phase(e)' = "unknown"
    BY <1>2, <2>1, <2>3, <2>5
  <2>6. CASE Phase(e)' = "exposed"
    BY <1>3, <2>1, <2>3, <2>6 DEF Ledger!Next, Ledger!Expose
  <2>7. QED
    BY <2>4, <2>5, <2>6
<1>5. ASSUME NEW e \in Entries, TradeCloses(e)
      PROVE  Ledger!Next \/ UNCHANGED Ledger!ledgerVars
  <2>1. \A f \in Entries \ {e} : Phase(f)' = Phase(f)
    BY <1>5 DEF TradeCloses, Phase, HasProtectedStop
  <2>2. CASE trades[e].mode = "live"
    <3>1. Phase(e) \in {"exposed", "covered"} /\ Phase(e)' = "closed"
      BY <1>5, <2>2 DEF TradeCloses, OpenTrade, Phase
    <3>2. QED
      BY <1>3, <2>1, <3>1 DEF Ledger!Next, Ledger!Close
  <2>3. CASE trades[e].mode # "live"
    <3>1. Phase(e)' = Phase(e)
      BY <1>5, <2>3 DEF TradeCloses, Phase
    <3>2. QED
      BY <1>2, <2>1, <3>1
  <2>4. QED
    BY <2>2, <2>3
<1>6. CASE TradeAnnotated
  BY <1>2, <1>6 DEF TradeAnnotated, Phase, HasProtectedStop
<1>7. ASSUME NEW k \in StopKeys, StopMoves(k)
      PROVE  Ledger!Next \/ UNCHANGED Ledger!ledgerVars
  <2> DEFINE e == k[1]
  <2>1. e \in Entries /\ k[2] \in Quantities /\ k = <<e, k[2]>>
    BY DEF StopKeys
  <2>2. \A f \in Entries \ {e} : Phase(f)' = Phase(f)
    <3>1. \A f \in Entries \ {e}, q \in Quantities : stops'[<<f, q>>] = stops[<<f, q>>]
      <4> SUFFICES ASSUME NEW f \in Entries \ {e}, NEW q \in Quantities
                   PROVE  stops'[<<f, q>>] = stops[<<f, q>>]
        OBVIOUS
      <4>1. <<f, q>> \in StopKeys /\ <<f, q>> # k
        BY <2>1, StopRefs
      <4> HIDE DEF e
      <4>2. QED
        BY <1>7, <4>1 DEF StopMoves
    <3>2. QED
      BY <1>7, <3>1 DEF StopMoves, Phase, HasProtectedStop
  <2>3. CASE stops'[k] # "PROTECTED"
    <3>1. \A q \in Quantities : (stops'[<<e, q>>] = "PROTECTED") <=> (stops[<<e, q>>] = "PROTECTED")
      BY <1>7, <2>1, <2>3, StopRefs DEF StopMoves
    <3>2. Phase(e)' = Phase(e)
      BY <1>7, <3>1 DEF StopMoves, Phase, HasProtectedStop
    <3>3. QED
      BY <1>2, <2>2, <3>2
  <2>4. CASE stops'[k] = "PROTECTED"
    <3>1. /\ Accepted(StopRef(k)) /\ stops[k] = "SUBMITTED"
          /\ trades' = trades
      BY <1>7, <2>4 DEF StopMoves
    <3>2. HasProtectedStop(e)'
      BY <2>1, <2>4 DEF HasProtectedStop
    <3>3. CASE trades[e].mode # "live" \/ trades[e].status = "closed" \/ HasProtectedStop(e)
      <4>1. Phase(e)' = Phase(e)
        BY <3>1, <3>2, <3>3 DEF Phase
      <4>2. QED
        BY <1>2, <2>2, <4>1
    <3>4. CASE /\ trades[e].mode = "live" /\ trades[e].status # "closed"
               /\ ~HasProtectedStop(e)
      <4>1. Phase(e) = "exposed" /\ Phase(e)' = "covered"
        BY <3>1, <3>2, <3>4 DEF Phase
      <4>2. e \in Confirmed
        BY <2>1, <3>1, <3>4 DEF Confirmed
      <4>3. QED
        BY <1>3, <2>1, <2>2, <4>1, <4>2 DEF Ledger!Next, Ledger!Cover
    <3>5. QED
      BY <3>3, <3>4
  <2>5. QED
    BY <2>3, <2>4
<1>8. QED
  BY <1>4, <1>5, <1>6, <1>7 DEF JournalMoves

\* Whatever sessions, crashes and replies do, the journal behaves like the
\* ledger of EntryLedger: exposed until covered by a confirmed stop or
\* closed, never back.
THEOREM JournalIsALedger == Spec => ImplementsLedger
<1>1. Init => Ledger!Init
  <2> SUFFICES ASSUME Init PROVE Ledger!Init
    OBVIOUS
  <2>1. \A e \in Entries : Phase(e) = "unknown"
    BY DEF Init, JournalInit, NoTrade, Phase
  <2>2. Confirmed = {}
    BY StopRefs DEF Init, BrokerInit, Confirmed, Accepted
  <2>3. QED
    BY <2>1, <2>2 DEF Ledger!Init
<1>2. IInv /\ [Next]_vars => [Ledger!Next]_Ledger!ledgerVars
  BY JournalSteps, LedgerMoves, LedgerConfirms
<1>3. QED
  BY <1>1, <1>2, InvariantHolds, PTL DEF Spec, ImplementsLedger, Ledger!Spec

=============================================================================
