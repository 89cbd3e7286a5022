-------------------------- MODULE OneSessionProofs --------------------------
(***************************************************************************)
(* What holds of ProtectionLifecycle when one agent session runs at a      *)
(* time, which is how the repository means the program to be used: for     *)
(* every set of entries and quantities and any number of crashes of that   *)
(* session.  With two sessions each of these properties has a counter-     *)
(* example, so OneSession is a hypothesis of the theorems and not of the   *)
(* module.                                                                 *)
(*                                                                         *)
(* SoloInv is what the session knows: with nobody else at work, what it    *)
(* heard of a stop stays current until it acts.  That at most one stop     *)
(* rests needs, beside it, an agent that looks before it has a stop built: *)
(* protect itself would have a second one built for another quantity.      *)
(***************************************************************************)
EXTENDS ProtectionLifecycleProofs

OneSession == \A s, t \in Sessions : s = t

(***************************************************************************)
(* What the one session knows.                                             *)
(***************************************************************************)
Untouched(k) == book[StopRef(k)] = "unknown" /\ ~OnWire(StopRef(k))

\* The stop does not rest and cannot come to rest.
Gone(k) == book[StopRef(k)] # "working" /\ ~OnWire(StopRef(k))

Unresolved == {"stop", "sent", "accepted", "blank", "refused"}

Knows(t) ==
  LET k == <<t.entry, t.qty>>
  IN  /\ t.step \in Unresolved => stops[k] = "SUBMITTED"
      /\ t.step = "stop" => Untouched(k)
      /\ t.step = "refused" => Gone(k)

MemoryCurrent == \A s \in Sessions : Knows(task[s])

FailedIsGone == \A k \in StopKeys : stops[k] = "FAILED" => Gone(k)

\* A stop or a flatten asks for the quantity in its ref_id.
SentWhole ==
  \A o \in wire : o.ref.kind \in {"stop", "flatten"} => o.qty = o.ref.qty

DecidedIsOffWire ==
  \A k \in StopKeys : OnWire(StopRef(k)) => book[StopRef(k)] = "unknown"

SoloInv == MemoryCurrent /\ FailedIsGone /\ SentWhole /\ DecidedIsOffWire

-----------------------------------------------------------------------------
(***************************************************************************)
(* SoloInv: the session's moves.                                           *)
(***************************************************************************)

\* The memory of the only session is the memory it moved to.
LEMMA SoloMove ==
  ASSUME OneSession, IInv, NEW s \in Sessions, NEW t, Goto(s, t), Knows(t)'
  PROVE  MemoryCurrent'
<1>1. \A r \in Sessions : r = s /\ task'[r] = t
  BY DEF OneSession, Goto, IInv, MemoryPart
<1>2. ASSUME NEW r \in Sessions
      PROVE  Knows(task[r])'
  BY <1>1 DEF Knows, Gone, Untouched, OnWire
<1>3. QED
  BY <1>2 DEF MemoryCurrent

\* At the other steps nothing is known that could get out of date.
LEMMA QuietSolo ==
  ASSUME OneSession, IInv, NEW s \in Sessions, NEW t, Goto(s, t),
         t.step \notin Unresolved
  PROVE  MemoryCurrent'
<1>1. Knows(t)'
  BY DEF Knows, Unresolved
<1>2. QED
  BY <1>1, SoloMove

\* A session that gives up knows nothing.
LEMMA GivenUpSolo ==
  ASSUME OneSession, IInv, NEW s \in Sessions, GiveUp(s)
  PROVE  MemoryCurrent'
<1>1. Goto(s, Idle) /\ Idle.step \notin Unresolved
  BY DEF GiveUp, Idle, At, Unresolved
<1>2. QED
  BY <1>1, QuietSolo

\* A move to a step of the work on a stop whose row is SUBMITTED.
LEMMA StopSolo ==
  ASSUME OneSession, IInv, NEW s \in Sessions, NEW step \in Unresolved,
         NEW e \in Entries, NEW q \in Quantities, Goto(s, At(step, e, q)),
         stops'[<<e, q>>] = "SUBMITTED",
         step = "stop" => Untouched(<<e, q>>)', step = "refused" => Gone(<<e, q>>)'
  PROVE  MemoryCurrent'
<1>1. Knows(At(step, e, q))'
  BY DEF Knows, At, Unresolved, Untouched, Gone, OnWire
<1>2. QED
  BY <1>1, SoloMove

\* What the invariant says of the orders.
OrdersPart == FailedIsGone /\ SentWhole /\ DecidedIsOffWire

\* A step that leaves the broker alone keeps it, if it marks no stop failed
\* but one that is gone.
LEMMA OrdersIdle ==
  ASSUME SoloInv, UNCHANGED brokerVars,
         \A k \in StopKeys : stops'[k] = "FAILED" => stops[k] = "FAILED" \/ Gone(k)
  PROVE  OrdersPart'
BY DEF SoloInv, OrdersPart, FailedIsGone, SentWhole, DecidedIsOffWire, brokerVars,
       Gone, OnWire

-----------------------------------------------------------------------------
(***************************************************************************)
(* SoloInv: each step.                                                     *)
(***************************************************************************)

\* Cycles and records: nothing here concerns a stop.
LEMMA EntrySolo ==
  ASSUME OneSession, IInv, SoloInv, NEW s \in Sessions,
         \/ ReadJournal(s)
         \/ \E e \in Entries, q \in Quantities, post \in BOOLEAN :
              BuildLiveEntry(s, e, q, post)
         \/ \E e \in Entries, q \in Quantities :
              EvaluateShadow(s, e, q) \/ BuildLiveExit(s, e, q)
         \/ \E e \in Entries, stop \in FillStops : RecordFill(s, e, stop)
         \/ \E e \in Entries : RecordExit(s, e)
  PROVE  SoloInv'
<1>1. UNCHANGED <<brokerVars, stops>>
  BY DEF ReadJournal, BuildLiveEntry, EvaluateShadow, BuildLiveExit, RecordFill,
         RecordExit, RecordTrade, CloseTrade, journalVars
<1>2. OrdersPart'
  BY <1>1, OrdersIdle
<1>3. MemoryCurrent'
  <2>1. CASE ReadJournal(s)
    <3>1. PICK t : Goto(s, t) /\ t.step = "read"
      <4> DEFINE r == [At("read", NoEntry, 0) EXCEPT
                         !.known = KnownClientKeys,
                         !.uncovered = UnprotectedLivePositions]
      <4>1. Goto(s, r) /\ r.step = "read"
        BY <2>1 DEF ReadJournal, At
      <4> HIDE DEF r
      <4>2. QED
        BY <4>1
    <3>2. QED
      BY <3>1, QuietSolo DEF Unresolved
  <2>2. ASSUME NEW e \in Entries, NEW q \in Quantities, NEW post \in BOOLEAN,
               BuildLiveEntry(s, e, q, post)
        PROVE  MemoryCurrent'
    <3>1. At("entry", e, 0).step \notin Unresolved
      BY DEF At, Unresolved
    <3>2. QED
      BY <2>2, <3>1, QuietSolo, GivenUpSolo DEF BuildLiveEntry
  <2>3. ASSUME NEW e \in Entries, NEW q \in Quantities,
               EvaluateShadow(s, e, q) \/ BuildLiveExit(s, e, q)
        PROVE  MemoryCurrent'
    <3>1. At("exit", e, q).step \notin Unresolved
      BY DEF At, Unresolved
    <3>2. QED
      BY <2>3, <3>1, QuietSolo, GivenUpSolo DEF EvaluateShadow, BuildLiveExit
  <2>4. CASE \/ \E e \in Entries, stop \in FillStops : RecordFill(s, e, stop)
             \/ \E e \in Entries : RecordExit(s, e)
    <3>1. task[s] = Idle /\ task' = task
      BY <2>4 DEF RecordFill, RecordExit
    <3>2. Goto(s, Idle)
      BY <3>1 DEF Goto, IInv, MemoryPart
    <3>3. QED
      BY <3>2, GivenUpSolo DEF GiveUp
  <2>5. QED
    BY <2>1, <2>2, <2>3, <2>4
<1>4. QED
  BY <1>2, <1>3 DEF OrdersPart, SoloInv

\* protect journals a stop that was not there, so the broker has not seen it.
LEMMA ProtectSolo ==
  ASSUME OneSession, IInv, SoloInv, NEW s \in Sessions, NEW e \in Entries,
         NEW q \in Quantities, Protect(s, e, q)
  PROVE  SoloInv'
<1>1. UNCHANGED brokerVars
  BY DEF Protect
<1>2. CASE RecordProtectionSubmitted(<<e, q>>) /\ Goto(s, At("stop", e, q))
  <2>1. /\ stops[<<e, q>>] = "absent" /\ <<e, q>> \in StopKeys
        /\ stops' = [stops EXCEPT ![<<e, q>>] = "SUBMITTED"]
    BY <1>2, StopRefs DEF RecordProtectionSubmitted
  <2>2. stops'[<<e, q>>] = "SUBMITTED"
    BY <2>1 DEF IInv, JournalPart, JournalTypeOK
  <2>3. Untouched(<<e, q>>)'
    BY <1>1, <2>1 DEF IInv, WriteAhead, Untouched, brokerVars, OnWire
  <2>4. MemoryCurrent'
    BY <1>2, <2>2, <2>3, StopSolo DEF Unresolved
  <2>5. OrdersPart'
    BY <1>1, <2>1, OrdersIdle DEF IInv, JournalPart, JournalTypeOK
  <2>6. QED
    BY <2>4, <2>5 DEF OrdersPart, SoloInv
<1>3. CASE Goto(s, At("flatten", e, q)) /\ UNCHANGED journalVars
  <2>1. At("flatten", e, q).step \notin Unresolved
    BY DEF At, Unresolved
  <2>2. MemoryCurrent'
    BY <1>3, <2>1, QuietSolo
  <2>3. OrdersPart'
    BY <1>1, <1>3, OrdersIdle DEF journalVars
  <2>4. QED
    BY <2>2, <2>3 DEF OrdersPart, SoloInv
<1>4. QED
  BY <1>2, <1>3 DEF Protect

\* What a session on its way with a stop holds.
LEMMA SoloKnows ==
  ASSUME IInv, SoloInv, NEW s \in Sessions, task[s].step \in Unresolved
  PROVE  /\ task[s].entry \in Entries /\ task[s].qty \in Quantities
         /\ Key(s) = <<task[s].entry, task[s].qty>> /\ Key(s) \in StopKeys
         /\ stops[Key(s)] = "SUBMITTED"
         /\ task[s].step = "stop" => Untouched(Key(s))
         /\ task[s].step = "refused" => Gone(Key(s))
<1>1. /\ task[s].entry \in Entries /\ task[s].qty \in Quantities
      /\ Key(s) \in StopKeys
  BY KeyHeld DEF Unresolved, StopSteps
<1>2. Knows(task[s])
  BY DEF SoloInv, MemoryCurrent
<1>3. QED
  BY <1>1, <1>2 DEF Knows, Key

\* An order placed on the wire: a stop is placed only while its row says
\* SUBMITTED and the broker has not seen it, so none that failed comes back.
LEMMA PlaceSolo ==
  ASSUME OneSession, IInv, SoloInv, NEW s \in Sessions,
         PlaceEntry(s) \/ PlaceStop(s) \/ PlaceFlatten(s) \/ PlaceExit(s)
  PROVE  SoloInv'
<1>1. CASE PlaceStop(s)
  <2> DEFINE e == task[s].entry
             q == task[s].qty
             o == [ref |-> StopRef(Key(s)), qty |-> q]
  <2>1. /\ e \in Entries /\ q \in Quantities
        /\ Key(s) = <<e, q>> /\ Key(s) \in StopKeys
        /\ stops[Key(s)] = "SUBMITTED" /\ Untouched(Key(s))
    BY <1>1, SoloKnows DEF PlaceStop, Unresolved
  <2>2. wire' = wire \cup {o} /\ book' = book /\ stops' = stops
    BY <1>1 DEF PlaceStop, Place, journalVars
  <2>3. MemoryCurrent'
    BY <1>1, <2>1, <2>2, StopSolo DEF PlaceStop, Unresolved
  <2>4. StopRef(Key(s)).qty = q
    BY <2>1 DEF StopRef
  <2> HIDE DEF e, q
  <2>5. FailedIsGone'
    BY <2>1, <2>2, StopRefs DEF SoloInv, FailedIsGone, Gone, OnWire
  <2>6. SentWhole' /\ DecidedIsOffWire'
    BY <2>1, <2>2, <2>4, StopRefs
    DEF SoloInv, SentWhole, DecidedIsOffWire, Untouched, OnWire
  <2>7. QED
    BY <2>3, <2>5, <2>6 DEF SoloInv
<1>2. CASE PlaceEntry(s) \/ PlaceFlatten(s) \/ PlaceExit(s)
  <2>1. MemoryCurrent'
    BY <1>2, GivenUpSolo DEF PlaceEntry, PlaceFlatten, PlaceExit
  <2>2. PICK r, q : /\ Place(r, q) /\ stops' = stops
                    /\ r.kind # "stop"
                    /\ r.kind = "flatten" => q = r.qty
    <3>1. CASE PlaceEntry(s)
      <4>1. EntryRef(task[s].entry).kind = "entry"
        BY DEF EntryRef
      <4>2. QED
        BY <3>1, <4>1 DEF PlaceEntry, journalVars
    <3>2. CASE PlaceExit(s)
      <4>1. ExitRef(task[s].entry).kind = "exit"
        BY DEF ExitRef
      <4>2. QED
        BY <3>2, <4>1 DEF PlaceExit, journalVars
    <3>3. CASE PlaceFlatten(s)
      <4>1. FlattenRef(Key(s)).kind = "flatten" /\ FlattenRef(Key(s)).qty = task[s].qty
        BY <3>3, KeyHeld DEF PlaceFlatten, FlattenRef
      <4>2. QED
        BY <3>3, <4>1 DEF PlaceFlatten, journalVars
    <3>4. QED
      BY <1>2, <3>1, <3>2, <3>3
  <2>3. \A k \in StopKeys : OnWire(StopRef(k))' <=> OnWire(StopRef(k))
    BY <2>2, StopRefs DEF Place, OnWire
  <2>4. FailedIsGone' /\ DecidedIsOffWire'
    BY <2>2, <2>3 DEF Place, SoloInv, FailedIsGone, DecidedIsOffWire, Gone
  <2>5. SentWhole'
    BY <2>2 DEF Place, SoloInv, SentWhole
  <2>6. QED
    BY <2>1, <2>4, <2>5 DEF SoloInv
<1>3. QED
  BY <1>1, <1>2

\* The session hears, or looks up, what became of its stop: the broker has
\* decided it, so a refusal heard is the end of it.
LEMMA AnswerSolo ==
  ASSUME OneSession, IInv, SoloInv, NEW s \in Sessions,
         HearReply(s) \/ \E k \in StopKeys : Reconcile(s, k)
  PROVE  SoloInv'
<1>1. UNCHANGED <<journalVars, brokerVars>>
  BY DEF HearReply, Reconcile
<1>2. OrdersPart'
  BY <1>1, OrdersIdle DEF journalVars
<1>3. PICK k \in StopKeys, step \in {"accepted", "blank", "refused"} :
        /\ Goto(s, At(step, k[1], k[2]))
        /\ stops[k] = "SUBMITTED"
        /\ step = "refused" => Gone(k)
  <2>1. CASE HearReply(s)
    <3>1. /\ Key(s) \in StopKeys /\ stops[Key(s)] = "SUBMITTED"
          /\ Key(s)[1] = task[s].entry /\ Key(s)[2] = task[s].qty
      BY <2>1, SoloKnows DEF HearReply, Unresolved
    <3>2. PICK reply \in Replies(Key(s)) : Goto(s, At(reply, task[s].entry, task[s].qty))
      BY <2>1 DEF HearReply
    <3>3. /\ reply \in {"accepted", "blank", "refused"}
          /\ reply = "refused" => book[StopRef(Key(s))] = "rejected"
      BY <3>2 DEF Replies
    <3>4. reply = "refused" => Gone(Key(s))
      BY <3>1, <3>3 DEF SoloInv, DecidedIsOffWire, Gone
    <3>5. QED
      BY <3>1, <3>2, <3>3, <3>4
  <2>2. ASSUME NEW k \in StopKeys, Reconcile(s, k)
        PROVE  \E step \in {"accepted", "blank", "refused"} :
                 /\ Goto(s, At(step, k[1], k[2]))
                 /\ stops[k] = "SUBMITTED"
                 /\ step = "refused" => Gone(k)
    <3>1. /\ stops[k] = "SUBMITTED" /\ ~OnWire(StopRef(k))
          /\ Goto(s, At(IF Rests(k) THEN "accepted" ELSE "refused", k[1], k[2]))
      BY <2>2 DEF Reconcile, UnconfirmedProtection, Answerable
    <3>2. ~Rests(k) => Gone(k)
      BY <3>1 DEF Rests, Gone
    <3>3. CASE Rests(k)
      BY <3>1, <3>3
    <3>4. CASE ~Rests(k)
      BY <3>1, <3>2, <3>4
    <3>5. QED
      BY <3>3, <3>4
  <2>3. QED
    BY <2>1, <2>2
<1>4. k[1] \in Entries /\ k[2] \in Quantities /\ k = <<k[1], k[2]>>
  BY DEF StopKeys
<1>5. stops'[k] = "SUBMITTED" /\ (step = "refused" => Gone(k)')
  BY <1>1, <1>3 DEF journalVars, brokerVars, Gone, OnWire
<1>6. MemoryCurrent'
  BY <1>3, <1>4, <1>5, StopSolo DEF Unresolved
<1>7. QED
  BY <1>2, <1>6 DEF OrdersPart, SoloInv

\* protect-resolve, and the commands that end or die: a stop is marked failed
\* only by a session that knows it is gone.
LEMMA ResolveSolo ==
  ASSUME OneSession, IInv, SoloInv, NEW s \in Sessions,
         \/ ResolveAccepted(s) \/ UpdateTrade(s) \/ ResolveFailed(s)
         \/ LoseReply(s) \/ Crash(s)
  PROVE  SoloInv'
<1>1. UNCHANGED brokerVars
  BY DEF ResolveAccepted, UpdateTrade, ResolveFailed, LoseReply, Crash
<1>2. \/ GiveUp(s)
      \/ Goto(s, At("promoted", task[s].entry, task[s].qty))
      \/ Goto(s, At("flatten", task[s].entry, task[s].qty))
  BY DEF ResolveAccepted, UpdateTrade, ResolveFailed, LoseReply, Crash, HandFlatten
<1>3. MemoryCurrent'
  <2>1. /\ At("promoted", task[s].entry, task[s].qty).step \notin Unresolved
        /\ At("flatten", task[s].entry, task[s].qty).step \notin Unresolved
    BY DEF At, Unresolved
  <2>2. PICK t : Goto(s, t) /\ (t = Idle \/ t.step \notin Unresolved)
    BY <1>2, <2>1 DEF GiveUp
  <2>3. QED
    BY <2>2, QuietSolo, GivenUpSolo DEF GiveUp
<1>4. \A k \in StopKeys : stops'[k] = "FAILED" => stops[k] = "FAILED" \/ Gone(k)
  <2>1. CASE ResolveFailed(s) /\ RecordProtectionFailed(Key(s))
    <3>1. Key(s) \in StopKeys /\ Gone(Key(s))
      BY <2>1, SoloKnows DEF ResolveFailed, Unresolved
    <3>2. stops' = [stops EXCEPT ![Key(s)] = "FAILED"]
      BY <2>1 DEF RecordProtectionFailed
    <3>3. QED
      BY <3>1, <3>2 DEF IInv, JournalPart, JournalTypeOK
  <2>2. CASE ResolveAccepted(s) /\ RecordProtectionAccepted(Key(s), TRUE)
    <3>1. Key(s) \in StopKeys /\ stops' = [stops EXCEPT ![Key(s)] = "PROTECTED"]
      BY <2>2, KeyHeld DEF ResolveAccepted, RecordProtectionAccepted, StopSteps
    <3>2. QED
      BY <3>1 DEF IInv, JournalPart, JournalTypeOK
  <2>3. CASE UNCHANGED stops
    BY <2>3
  <2>4. QED
    BY <2>1, <2>2, <2>3
    DEF ResolveAccepted, UpdateTrade, ResolveFailed, LoseReply, Crash, journalVars,
        RecordProtectionAccepted, Promotable, UpdateTradeProtection
<1>5. OrdersPart'
  BY <1>1, <1>4, OrdersIdle
<1>6. QED
  BY <1>3, <1>5 DEF OrdersPart, SoloInv

\* What the broker's own steps may do to the orders on their way to it.
OrdersSettle ==
  /\ wire' \subseteq wire
  /\ \A k \in StopKeys : OnWire(StopRef(k))' => book'[StopRef(k)] = "unknown"
  /\ \A k \in StopKeys : Untouched(k) => Untouched(k)'
  /\ \A k \in StopKeys : Gone(k) => Gone(k)'

\* A stop the broker has not seen and one that is gone stay so, and an order
\* leaves the wire when the broker decides it.
LEMMA BrokerSolo ==
  ASSUME OneSession, IInv, SoloInv,
         \/ \E r \in Refs : ProcessOrder(r)
         \/ \E k \in StopKeys : StopLeavesBook(k)
         \/ \E s \in Sessions, k \in StopKeys : CancelBeforeExit(s, k)
  PROVE  SoloInv'
<1>1. UNCHANGED <<journalVars, task>>
  BY DEF ProcessOrder, StopLeavesBook, CancelBeforeExit
<1>2. OrdersSettle
  <2>1. ASSUME NEW k \in StopKeys, TriggerStop(k) \/ CancelStop(k)
        PROVE  OrdersSettle
    <3>1. /\ StopRef(k) \in Refs /\ book[StopRef(k)] = "working" /\ wire' = wire
          /\ \A r \in Refs \ {StopRef(k)} : book'[r] = book[r]
      BY <2>1, StopRefs DEF TriggerStop, CancelStop, IInv, BrokerTypeOK
    <3>2. QED
      BY <3>1, StopRefs
      DEF SoloInv, DecidedIsOffWire, Untouched, Gone, OnWire, OrdersSettle
  <2>2. ASSUME NEW r \in Refs, ProcessOrder(r)
        PROVE  OrdersSettle
    <3>1. PICK o \in wire :
            /\ o.ref = r
            /\ \/ Dedupe(o)
               \/ \E q \in Quantities : FillEntry(o, q) \/ FillSell(o, q)
               \/ \E verdict \in {"working", "rejected"} : DecideStop(o, verdict)
      BY <2>2 DEF ProcessOrder
    <3>2. /\ wire' = wire \ {o} /\ OnWire(r)
          /\ \A p \in Refs \ {r} : book'[p] = book[p]
      BY <3>1 DEF Dedupe, FillEntry, FillSell, DecideStop, OnWire, IInv, BrokerTypeOK
    <3>3. \A k \in StopKeys : r = StopRef(k) => \A p \in wire \ {o} : p.ref # r
      <4> SUFFICES ASSUME NEW k \in StopKeys, r = StopRef(k),
                          NEW p \in wire, p.ref = r
                   PROVE  p = o
        OBVIOUS
      <4>1. p \in Orders /\ o \in Orders
        BY DEF IInv, BrokerTypeOK
      <4>2. p.qty = r.qty /\ o.qty = r.qty
        BY <3>1, StopRefs DEF SoloInv, SentWhole
      <4>3. QED
        BY <3>1, <4>1, <4>2 DEF Orders
    <3>4. \A k \in StopKeys : OnWire(StopRef(k))' => OnWire(StopRef(k)) /\ StopRef(k) # r
      BY <3>2, <3>3 DEF OnWire
    <3>5. QED
      BY <3>2, <3>4, StopRefs
      DEF SoloInv, DecidedIsOffWire, Untouched, Gone, OrdersSettle
  <2>3. QED
    BY <2>1, <2>2 DEF StopLeavesBook, CancelBeforeExit
<1>3. FailedIsGone' /\ SentWhole' /\ DecidedIsOffWire'
  BY <1>1, <1>2
  DEF SoloInv, FailedIsGone, SentWhole, DecidedIsOffWire, journalVars, OrdersSettle
<1>4. MemoryCurrent'
  <2> SUFFICES ASSUME NEW s \in Sessions
               PROVE  Knows(task[s])'
    BY DEF MemoryCurrent
  <2>1. Knows(task[s])
    BY DEF SoloInv, MemoryCurrent
  <2>2. task[s].step \in Unresolved => <<task[s].entry, task[s].qty>> \in StopKeys
    BY KeyHeld DEF Unresolved, StopSteps, Key
  <2>3. QED
    BY <1>1, <1>2, <2>1, <2>2
    DEF Knows, Unresolved, journalVars, OrdersSettle
<1>5. QED
  BY <1>3, <1>4 DEF SoloInv

-----------------------------------------------------------------------------
\* An empty journal, an empty wire and an idle session.
LEMMA SoloInitially == Init => SoloInv
<1> SUFFICES ASSUME Init PROVE SoloInv
  OBVIOUS
<1>1. MemoryCurrent
  BY DEF Init, MemoryCurrent, Knows, Idle, At, Unresolved
<1>2. FailedIsGone /\ SentWhole /\ DecidedIsOffWire
  BY DEF Init, JournalInit, BrokerInit, FailedIsGone, SentWhole, DecidedIsOffWire, OnWire
<1>3. QED
  BY <1>1, <1>2 DEF SoloInv

\* Every step keeps what the only session knows.
LEMMA SoloKept == OneSession /\ IInv /\ SoloInv /\ [Next]_vars => SoloInv'
<1> SUFFICES ASSUME OneSession, IInv, SoloInv, [Next]_vars PROVE SoloInv'
  OBVIOUS
<1>1. ASSUME NEW s \in Sessions, SessionStep(s)
      PROVE  SoloInv'
  BY <1>1, EntrySolo, ProtectSolo, PlaceSolo, AnswerSolo, ResolveSolo, BrokerSolo
  DEF SessionStep
<1>2. ASSUME NEW s \in Sessions, Crash(s)
      PROVE  SoloInv'
  BY <1>2, ResolveSolo
<1>3. CASE \/ \E r \in Refs : ProcessOrder(r)
           \/ \E k \in StopKeys : StopLeavesBook(k)
  BY <1>3, BrokerSolo
<1>4. CASE UNCHANGED vars
  <2>1. OrdersPart'
    BY <1>4, OrdersIdle DEF vars, brokerVars
  <2>2. ASSUME NEW s \in Sessions
        PROVE  Knows(task[s])'
    BY <1>4 DEF vars, SoloInv, MemoryCurrent, Knows, Untouched, Gone, OnWire
  <2>3. QED
    BY <2>1, <2>2 DEF OrdersPart, SoloInv, MemoryCurrent
<1>5. QED
  BY <1>1, <1>2, <1>3, <1>4 DEF Next

\* With one session, what it knows of the journal and of its stops is true in
\* every reachable state.
LEMMA SoloHolds == ASSUME OneSession PROVE Spec => [](IInv /\ SoloInv)
<1>1. IInv /\ SoloInv /\ [Next]_vars => SoloInv'
  BY SoloKept
<1>2. QED
  BY <1>1, SoloInitially, InvariantInitially, InvariantKept, PTL DEF Spec

-----------------------------------------------------------------------------
\* A row that protect-resolve --failed marked describes an order that neither
\* rests nor can come to rest: the refusal was heard, or the order looked up,
\* after the broker had decided it (cmd_protect_resolve).
THEOREM FailedStopIsGone == ASSUME OneSession PROVE Spec => []FailedDoesNotRest
<1>1. IInv /\ SoloInv => FailedDoesNotRest
  BY DEF SoloInv, FailedIsGone, Gone, FailedDoesNotRest
<1>2. QED
  BY <1>1, SoloHolds, PTL

-----------------------------------------------------------------------------
(***************************************************************************)
(* At most one stop rests on a position, for an agent that looks first.    *)
(* What rests is journalled (WriteAhead) and has not failed                *)
(* (FailedDoesNotRest), so it is enough that the journal never has two     *)
(* rows of an entry that are SUBMITTED or PROTECTED.                       *)
(***************************************************************************)
MayRest(k) == stops[k] \in {"SUBMITTED", "PROTECTED"}

OneMayRest ==
  \A e \in Entries : \A p, q \in Quantities :
    MayRest(<<e, p>>) /\ MayRest(<<e, q>>) => p = q

\* A careful agent has a stop built only where no row may rest.
LEMMA BuiltWhereNoneRests ==
  ASSUME Careful, IInv, NEW s \in Sessions, NEW e \in Entries, NEW q \in Quantities,
         Protect(s, e, q), NEW p \in Quantities
  PROVE  ~MayRest(<<e, p>>)
<1>1. Checked(e, q) /\ <<e, p>> \in StopKeys /\ <<e, p>>[1] = e
  BY StopRefs DEF Protect
<1>2. stops[<<e, p>>] # "PROTECTED"
  BY <1>1 DEF Checked, UnprotectedLivePositions, HasProtectedStop
<1>3. stops[<<e, p>>] # "SUBMITTED"
  BY <1>1 DEF Checked, UnconfirmedProtection
<1>4. QED
  BY <1>2, <1>3 DEF MayRest

\* Nothing but protect lets a row rest that could not before.
LEMMA OnlyProtectAdds ==
  ASSUME IInv, [Next]_vars,
         ~\E s \in Sessions, e \in Entries, q \in Quantities : Protect(s, e, q),
         NEW k \in StopKeys, MayRest(k)'
  PROVE  MayRest(k)
<1>1. stops[k] # "absent"
  <2>1. ASSUME NEW s \in Sessions, ResolveAccepted(s) \/ ResolveFailed(s)
        PROVE  stops[k] # "absent"
    <3>1. \/ Key(s) \in UnconfirmedProtection
             /\ \E state : stops' = [stops EXCEPT ![Key(s)] = state]
          \/ UNCHANGED stops
      BY <2>1 DEF ResolveAccepted, ResolveFailed, RecordProtectionAccepted, Promotable,
                  RecordProtectionFailed, journalVars
    <3>2. QED
      BY <3>1 DEF UnconfirmedProtection, MayRest, IInv, JournalPart, JournalTypeOK
  <2>2. ASSUME NEW s \in Sessions, SessionStep(s) \/ Crash(s),
               ~(ResolveAccepted(s) \/ ResolveFailed(s))
        PROVE  UNCHANGED stops
    BY <2>2
    DEF SessionStep, Crash, ReadJournal, BuildLiveEntry, EvaluateShadow, PlaceEntry,
        RecordFill, PlaceStop, HearReply, LoseReply, Reconcile, UpdateTrade,
        PlaceFlatten, BuildLiveExit, CancelBeforeExit, PlaceExit, RecordExit,
        RecordTrade, CloseTrade, UpdateTradeProtection, journalVars
  <2>3. CASE ~\E s \in Sessions : SessionStep(s) \/ Crash(s)
    BY <2>3 DEF Next, ProcessOrder, StopLeavesBook, vars, journalVars, MayRest
  <2>4. QED
    BY <2>1, <2>2, <2>3 DEF MayRest
<1>2. JournalMoves \/ UNCHANGED journalVars
  BY JournalSteps
<1>3. QED
  BY <1>1, <1>2 DEF JournalMoves, TradeOpens, TradeCloses, TradeAnnotated, StopMoves,
                    MayRest, journalVars

\* So the journal never comes to have two.
LEMMA OneMayRestKept ==
  ASSUME Careful
  PROVE  IInv /\ OneMayRest /\ [Next]_vars => OneMayRest'
<1> SUFFICES ASSUME IInv, OneMayRest, [Next]_vars,
                    NEW f \in Entries, NEW a \in Quantities, NEW b \in Quantities,
                    MayRest(<<f, a>>)', MayRest(<<f, b>>)'
             PROVE  a = b
  BY DEF OneMayRest
<1>1. <<f, a>> \in StopKeys /\ <<f, b>> \in StopKeys
  BY StopRefs
<1>2. ASSUME NEW s \in Sessions, NEW e \in Entries, NEW q \in Quantities,
             Protect(s, e, q)
      PROVE  a = b
  <2>1. \A p \in Quantities : ~MayRest(<<e, p>>)
    BY <1>2, BuiltWhereNoneRests
  <2>2. \A k \in StopKeys : k # <<e, q>> => stops'[k] = stops[k]
    BY <1>2 DEF Protect, RecordProtectionSubmitted, journalVars, IInv, JournalPart,
                JournalTypeOK
  <2>3. CASE f = e
    BY <1>1, <2>1, <2>2, <2>3 DEF MayRest
  <2>4. CASE f # e
    <3>1. MayRest(<<f, a>>) /\ MayRest(<<f, b>>)
      BY <1>1, <2>2, <2>4 DEF MayRest
    <3>2. QED
      BY <3>1 DEF OneMayRest
  <2>5. QED
    BY <2>3, <2>4
<1>3. CASE ~\E s \in Sessions, e \in Entries, q \in Quantities : Protect(s, e, q)
  <2>1. MayRest(<<f, a>>) /\ MayRest(<<f, b>>)
    BY <1>1, <1>3, OnlyProtectAdds
  <2>2. QED
    BY <2>1 DEF OneMayRest
<1>4. QED
  BY <1>2, <1>3

\* At most one protective stop rests on a position, whatever was refused,
\* lost, triggered, cancelled, flattened or crashed in between, when one
\* session runs and has stops built only for what protection-status lists.
THEOREM StopRestsAlone ==
  ASSUME OneSession, Careful
  PROVE  Spec => []OneRestingStop
<1>1. Init => OneMayRest
  BY StopRefs DEF Init, JournalInit, OneMayRest, MayRest
<1>2. IInv /\ OneMayRest /\ [Next]_vars => OneMayRest'
  BY OneMayRestKept
<1>3. IInv /\ SoloInv /\ OneMayRest => OneRestingStop
  <2> SUFFICES ASSUME IInv, SoloInv, OneMayRest, NEW e \in Entries,
                      NEW p \in RestingStops(e), NEW q \in RestingStops(e)
               PROVE  p = q
    BY DEF OneRestingStop
  <2>1. \A x \in RestingStops(e) : x \in Quantities /\ MayRest(<<e, x>>)
    <3> SUFFICES ASSUME NEW x \in RestingStops(e)
                 PROVE  x \in Quantities /\ MayRest(<<e, x>>)
      OBVIOUS
    <3>1. /\ x \in Quantities /\ <<e, x>> \in StopKeys
          /\ book[StopRef(<<e, x>>)] = "working"
      BY StopRefs DEF RestingStops
    <3>2. stops[<<e, x>>] \notin {"absent", "FAILED"}
      BY <3>1 DEF IInv, WriteAhead, SoloInv, FailedIsGone, Gone
    <3>3. QED
      BY <3>1, <3>2 DEF IInv, JournalPart, JournalTypeOK, StopStates, MayRest
  <2>2. QED
    BY <2>1 DEF OneMayRest
<1>4. QED
  BY <1>1, <1>2, <1>3, SoloHolds, PTL DEF Spec
=============================================================================
