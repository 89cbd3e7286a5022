------------------------ MODULE ProtectionLifecycle ------------------------
(***************************************************************************)
(* The life of a live position: entry payload, fill, resting protective    *)
(* stop, exit.  Sessions (one agent process each) run the commands of      *)
(* cli.py against the shared journal and place the payloads those commands *)
(* emit at the broker.  The program never talks to the broker itself, so   *)
(* between any two steps of a session there may be a crash, a lost reply,  *)
(* a step of the broker, or a step of another session.                     *)
(*                                                                         *)
(* A session does what the "next" field of each command tells it to: it    *)
(* places the payload it was handed, resolves a stop with the id or the    *)
(* refusal it heard, and records an exit once the shares are gone.         *)
(***************************************************************************)
EXTENDS Journal, Broker

CONSTANTS
  Sessions,        \* agent sessions, each running one command at a time
  NoEntry,         \* the entry of a session that is working on none
  FillStops,       \* stop levels a recorded fill may carry
  TradeModes,      \* execution modes in use
  StrategyExits,   \* whether the strategy may close a position
  Careful,         \* whether the agent checks before it has a stop built
  MaxCrashes       \* bound on the crashes of sessions in a behaviour

ASSUME LifecycleAssumption ==
  /\ NoEntry \notin Entries
  /\ FillStops \subseteq {"none", "below", "atOrAbove"}
  /\ TradeModes \subseteq {"shadow", "live"}
  /\ StrategyExits \in BOOLEAN
  /\ Careful \in BOOLEAN
  /\ MaxCrashes \in Nat

VARIABLES
  task,      \* what each session is doing: its memory
  crashes    \* crashes so far

vars == <<trades, stops, book, wire, held, task, crashes>>

(***************************************************************************)
(* Session memory.  `uncovered` and `known` are what the session last read *)
(* from the journal; they are only kept until the cycle they were read for *)
(* ends.  Everything here is lost in a crash.                              *)
(***************************************************************************)
Steps ==
  {"idle",
   "read",       \* holds the journal's known keys and uncovered positions
   "entry",      \* holds an entry payload
   "stop",       \* holds a stop payload, its row is SUBMITTED
   "sent",       \* placed the stop, waits for the reply
   "accepted",   \* heard that the stop rests, and its broker order id
   "blank",      \* heard a reply without an order id
   "refused",    \* heard that the stop does not rest
   "promoted",   \* row is PROTECTED, the trade row is still to be updated
   "flatten",    \* holds a flatten payload
   "exit"}       \* holds an exit payload of the strategy

Task == [step: Steps, entry: Entries \cup {NoEntry},
         qty: Quantities \cup {0},
         known: SUBSET Entries, uncovered: SUBSET Entries]

At(step, e, q) == [step |-> step, entry |-> e, qty |-> q,
                   known |-> {}, uncovered |-> {}]

Idle == At("idle", NoEntry, 0)

Key(s) == <<task[s].entry, task[s].qty>>

Goto(s, t) == task' = [task EXCEPT ![s] = t]

\* A command of the program that fails, or refuses, without an effect.
GiveUp(s) == Goto(s, Idle)

TypeOK ==
  /\ JournalTypeOK
  /\ BrokerTypeOK
  /\ task \in [Sessions -> Task]
  /\ crashes \in 0..MaxCrashes

Init ==
  /\ JournalInit
  /\ BrokerInit
  /\ task = [s \in Sessions |-> Idle]
  /\ crashes = 0

(***************************************************************************)
(* Entries.                                                                *)
(***************************************************************************)
LivePermittedProtection == {"NOT_REQUIRED", "COMMITTED", "PROTECTED"}

\* assess_protection for a buy that carries a stop, as every buy that
\* passes the risk gates does.
AssessProtection(estimate, postFillProtection) ==
  IF estimate \notin WholeQuantities THEN "UNAVAILABLE"
  ELSE IF postFillProtection THEN "COMMITTED"
  ELSE "PENDING"

ReadJournal(s) ==
  /\ task[s] = Idle
  /\ Goto(s, [At("read", NoEntry, 0) EXCEPT
                !.known = KnownClientKeys,
                !.uncovered = UnprotectedLivePositions])
  /\ UNCHANGED <<journalVars, brokerVars, crashes>>

\* The refusals of build_order_payload that the model tells apart.
EntryAdmitted(s, e, estimate, postFillProtection) ==
  /\ e \notin task[s].known
  /\ task[s].uncovered = {}
  /\ AssessProtection(estimate, postFillProtection) \in LivePermittedProtection

BuildLiveEntry(s, e, estimate, postFillProtection) ==
  /\ "live" \in TradeModes
  /\ task[s].step = "read"
  /\ IF EntryAdmitted(s, e, estimate, postFillProtection)
       THEN Goto(s, At("entry", e, 0))
       ELSE GiveUp(s)
  /\ UNCHANGED <<journalVars, brokerVars, crashes>>

\* A shadow cycle journals its simulated fill under the same client key.
EvaluateShadow(s, e, quantity) ==
  /\ "shadow" \in TradeModes
  /\ task[s].step = "read"
  /\ \/ /\ e \notin task[s].known
        /\ RecordTrade(e, "shadow", "below", quantity,
                       AssessProtection(quantity, FALSE))
     \/ /\ e \in task[s].known \cup KnownClientKeys
        /\ UNCHANGED journalVars
  /\ GiveUp(s)
  /\ UNCHANGED <<brokerVars, crashes>>

PlaceEntry(s) ==
  /\ task[s].step = "entry"
  /\ Place(EntryRef(task[s].entry), 0)
  /\ GiveUp(s)
  /\ UNCHANGED <<journalVars, crashes>>

\* Mutant: the fill is recorded as covered.
ProtectionOfFill_Optimist(stop) ==
  IF stop = "none" THEN "NOT_REQUIRED" ELSE "PROTECTED"

ProtectionOfFill(stop) == IF stop = "none" THEN "NOT_REQUIRED" ELSE "COMMITTED"

\* Mutant: only a whole-share fill is taken.
FillRecordable_WholeOnly(e) ==
  book[EntryRef(e)] = "filled" /\ held[e] \in WholeQuantities

\* The quantity of a fill is positive.
FillRecordable(e) == book[EntryRef(e)] = "filled" /\ held[e] \in Quantities

\* record-fill: the session has seen the fill in the account.
RecordFill(s, e, stop) ==
  /\ task[s] = Idle
  /\ FillRecordable(e)
  /\ RecordTrade(e, "live", stop, held[e], ProtectionOfFill(stop))
  /\ UNCHANGED <<brokerVars, task, crashes>>

(***************************************************************************)
(* The stop.                                                               *)
(***************************************************************************)
Placeable(e, q) == trades[e].stop = "below" /\ q \in WholeQuantities

\* What protection-status tells the agent to look at before it has a stop
\* built, and no command checks: the position is listed as uncovered, no
\* submission of it is unresolved, and the quantity is what the account
\* shows.
Checked(e, q) ==
  /\ e \in UnprotectedLivePositions
  /\ \A k \in UnconfirmedProtection : k[1] # e
  /\ q = held[e]

\* protect: of any open trade with a stop level, shadow or live, covered or
\* not, and for any --filled-quantity.
Protect(s, e, q) ==
  /\ task[s] = Idle
  /\ Careful => Checked(e, q)
  /\ OpenTrade(e)
  /\ trades[e].stop # "none"
  /\ \/ /\ Placeable(e, q)
        /\ RecordProtectionSubmitted(<<e, q>>)
        /\ Goto(s, At("stop", e, q))
     \/ /\ ~Placeable(e, q)
        /\ Goto(s, At("flatten", e, q))
        /\ UNCHANGED journalVars
  /\ UNCHANGED <<brokerVars, crashes>>

PlaceStop(s) ==
  /\ task[s].step = "stop"
  /\ Place(StopRef(Key(s)), task[s].qty)
  /\ Goto(s, At("sent", task[s].entry, task[s].qty))
  /\ UNCHANGED <<journalVars, crashes>>

\* Mutant: every reply is taken for an acceptance.
Replies_AnyIsYes(k) ==
  IF book[StopRef(k)] = "unknown" THEN {} ELSE {"accepted"}

\* Mutant: an acceptance without an order id is taken for a refusal.
Replies_BlankRefuses(k) ==
  IF Accepted(StopRef(k)) THEN {"accepted", "refused"}
  ELSE IF book[StopRef(k)] = "rejected" THEN {"refused"} ELSE {}

\* What a session may hear of a stop it placed.
Replies(k) ==
  CASE Accepted(StopRef(k))           -> {"accepted", "blank"}
    [] book[StopRef(k)] = "rejected"  -> {"refused"}
    [] OTHER                          -> {}

HearReply(s) ==
  /\ task[s].step = "sent"
  /\ \E reply \in Replies(Key(s)) : Goto(s, At(reply, task[s].entry, task[s].qty))
  /\ UNCHANGED <<journalVars, brokerVars, crashes>>

\* The reply was lost; the row stays SUBMITTED.
LoseReply(s) ==
  /\ task[s].step = "sent"
  /\ GiveUp(s)
  /\ UNCHANGED <<journalVars, brokerVars, crashes>>

\* Mutant: the broker is asked before it has processed the order.
Answerable_TooEarly(k) == TRUE

\* The broker's orders tell what became of the stop.
Answerable(k) == ~OnWire(StopRef(k))

\* Mutant: an order that is not found passes for one that rests.
Rests_NotRejected(k) == book[StopRef(k)] # "rejected"

\* The stop is among the broker's open orders, which is where the repository
\* sends the reader of the unconfirmed list.
Rests(k) == book[StopRef(k)] = "working"

\* Recovery: protection-status lists the row, the open orders are read.
Reconcile(s, k) ==
  /\ task[s] = Idle
  /\ k \in UnconfirmedProtection
  /\ Answerable(k)
  /\ Goto(s, At(IF Rests(k) THEN "accepted" ELSE "refused", k[1], k[2]))
  /\ UNCHANGED <<journalVars, brokerVars, crashes>>

\* protect-resolve --accepted-order-id: its first transaction, ...
ResolveAccepted(s) ==
  /\ task[s].step \in {"accepted", "blank"}
  /\ LET withId == task[s].step = "accepted"
     IN  \/ /\ RecordProtectionAccepted(Key(s), withId)
            /\ Goto(s, At("promoted", task[s].entry, task[s].qty))
         \/ /\ ~Promotable(Key(s), withId)
            /\ GiveUp(s)
            /\ UNCHANGED journalVars
  /\ UNCHANGED <<brokerVars, crashes>>

\* ... and its second, in a connection of its own.
UpdateTrade(s) ==
  /\ task[s].step = "promoted"
  /\ UpdateTradeProtection(task[s].entry, "PROTECTED")
  /\ GiveUp(s)
  /\ UNCHANGED <<brokerVars, crashes>>

\* Mutant: the refusal is journalled and nothing handed out.
HandFlatten_Nothing(s) == GiveUp(s)

HandFlatten(s) == Goto(s, At("flatten", task[s].entry, task[s].qty))

\* protect-resolve --failed: it hands out the flatten of the requested
\* quantity.
ResolveFailed(s) ==
  /\ task[s].step = "refused"
  /\ \/ RecordProtectionFailed(Key(s)) /\ HandFlatten(s)
     \/ /\ Key(s) \notin UnconfirmedProtection
        /\ GiveUp(s)
        /\ UNCHANGED journalVars
  /\ UNCHANGED <<brokerVars, crashes>>

PlaceFlatten(s) ==
  /\ task[s].step = "flatten"
  /\ Place(FlattenRef(Key(s)), task[s].qty)
  /\ GiveUp(s)
  /\ UNCHANGED <<journalVars, crashes>>

(***************************************************************************)
(* Exits.                                                                  *)
(***************************************************************************)

\* A live cycle whose strategy says sell.  The exit is sized in dollars and
\* converted back to shares, so it may ask for less than is held.
BuildLiveExit(s, e, q) ==
  /\ StrategyExits
  /\ task[s] = Idle
  /\ OpenTrade(e) /\ trades[e].mode = "live"
  /\ Settled(e)
  /\ q <= held[e]
  /\ Goto(s, At("exit", e, q))
  /\ UNCHANGED <<journalVars, brokerVars, crashes>>

\* The agent cancels the stops of a position before it sells it; the journal
\* has no operation for that.
CancelBeforeExit(s, k) ==
  /\ task[s].step = "exit"
  /\ k[1] = task[s].entry
  /\ CancelStop(k)
  /\ UNCHANGED <<journalVars, task, crashes>>

PlaceExit(s) ==
  /\ task[s].step = "exit"
  /\ RestingStops(task[s].entry) = {}
  /\ Place(ExitRef(task[s].entry), task[s].qty)
  /\ GiveUp(s)
  /\ UNCHANGED <<journalVars, crashes>>

\* record-exit, once the account shows the shares gone.
RecordExit(s, e) ==
  /\ task[s] = Idle
  /\ Settled(e)
  /\ held[e] <= 0
  /\ CloseTrade(e)
  /\ UNCHANGED <<brokerVars, task, crashes>>

(***************************************************************************)
(* Crashes, and the broker's own steps.                                    *)
(***************************************************************************)
Crash(s) ==
  /\ crashes < MaxCrashes
  /\ task[s] # Idle
  /\ GiveUp(s)
  /\ crashes' = crashes + 1
  /\ UNCHANGED <<journalVars, brokerVars>>

ProcessOrder(r) ==
  \E o \in wire :
    /\ o.ref = r
    /\ \/ Dedupe(o)
       \/ \E q \in Quantities : FillEntry(o, q) \/ FillSell(o, q)
       \/ \E verdict \in {"working", "rejected"} : DecideStop(o, verdict)
    /\ UNCHANGED <<journalVars, task, crashes>>

\* The market reaches a stop, or the broker or a person cancels it.
StopLeavesBook(k) ==
  /\ TriggerStop(k) \/ CancelStop(k)
  /\ UNCHANGED <<journalVars, task, crashes>>

(***************************************************************************)
(* The specification.                                                      *)
(***************************************************************************)
SessionStep(s) ==
  \/ ReadJournal(s)
  \/ \E e \in Entries, q \in Quantities, postFillProtection \in BOOLEAN :
       BuildLiveEntry(s, e, q, postFillProtection)
  \/ \E e \in Entries, q \in Quantities : EvaluateShadow(s, e, q)
  \/ PlaceEntry(s)
  \/ \E e \in Entries, stop \in FillStops : RecordFill(s, e, stop)
  \/ \E e \in Entries, q \in Quantities : Protect(s, e, q)
  \/ PlaceStop(s)
  \/ HearReply(s)
  \/ LoseReply(s)
  \/ \E k \in StopKeys : Reconcile(s, k)
  \/ ResolveAccepted(s)
  \/ UpdateTrade(s)
  \/ ResolveFailed(s)
  \/ PlaceFlatten(s)
  \/ \E e \in Entries, q \in Quantities : BuildLiveExit(s, e, q)
  \/ \E k \in StopKeys : CancelBeforeExit(s, k)
  \/ PlaceExit(s)
  \/ \E e \in Entries : RecordExit(s, e)

Next ==
  \/ \E s \in Sessions : SessionStep(s) \/ Crash(s)
  \/ \E r \in Refs : ProcessOrder(r)
  \/ \E k \in StopKeys : StopLeavesBook(k)

Spec == Init /\ [][Next]_vars

(***************************************************************************)
(* Fairness.  The broker processes what was placed.  A session that has    *)
(* started a command finishes it, and one that keeps running gets round to *)
(* whatever protection-status and the account list: a fill to record, a    *)
(* position to protect, a submission to reconcile, an exit to record.      *)
(* Nothing obliges anyone to open or exit a position, to lose a reply, to  *)
(* crash, or a stop to trigger.                                            *)
(***************************************************************************)
Continue(s) ==
  \/ \E e \in Entries, q \in Quantities, postFillProtection \in BOOLEAN :
       BuildLiveEntry(s, e, q, postFillProtection)
  \/ \E e \in Entries, q \in Quantities : EvaluateShadow(s, e, q)
  \/ PlaceEntry(s) \/ PlaceStop(s) \/ PlaceFlatten(s) \/ PlaceExit(s)
  \/ HearReply(s) \/ LoseReply(s)
  \/ ResolveAccepted(s) \/ UpdateTrade(s) \/ ResolveFailed(s)
  \/ \E k \in StopKeys : CancelBeforeExit(s, k)

Fairness ==
  /\ WF_vars(\E r \in Refs : ProcessOrder(r))
  /\ \A s \in Sessions :
       /\ WF_vars(Continue(s))
       /\ \A e \in Entries :
            /\ SF_vars(\E stop \in FillStops : RecordFill(s, e, stop))
            /\ SF_vars(\E q \in Quantities : Checked(e, q) /\ Protect(s, e, q))
            /\ SF_vars(RecordExit(s, e))
       /\ SF_vars(\E k \in StopKeys : Reconcile(s, k))

FairSpec == Spec /\ Fairness

(***************************************************************************)
(* Safety.                                                                 *)
(***************************************************************************)

\* A stop is journalled before it can reach the broker: whatever crashed or
\* got lost, an order the broker may hold has a row recovery can find.
WriteAhead ==
  \A k \in StopKeys :
    book[StopRef(k)] # "unknown" \/ OnWire(StopRef(k)) => stops[k] # "absent"

\* PROTECTED rests on the broker's evidence: no row says so of a stop the
\* broker refused or never saw.
ProtectedOnEvidence ==
  \A k \in StopKeys : stops[k] = "PROTECTED" => Accepted(StopRef(k))

\* The trade row is never ahead of the protective order it speaks of.
TradeNotAheadOfStop ==
  \A e \in Entries : trades[e].protection = "PROTECTED" => HasProtectedStop(e)

StopSteps == {"stop", "sent", "accepted", "blank", "refused", "promoted"}

\* What a session remembers of a stop: it is journalled; an acceptance heard
\* is the broker's; a promotion made is in the journal.
Remembered(t) ==
  /\ t.step \in StopSteps => stops[<<t.entry, t.qty>>] # "absent"
  /\ t.step \in {"accepted", "blank"} => Accepted(StopRef(<<t.entry, t.qty>>))
  /\ t.step = "promoted" => stops[<<t.entry, t.qty>>] = "PROTECTED"

\* What a session heard or wrote before it lost sight of the journal and the
\* broker is still so when it acts on it, whatever the others did meanwhile.
MemoryHolds == \A s \in Sessions : Remembered(task[s])

\* One session, which asks for a stop only once it is no longer in flight: a
\* row that failed describes an order that does not rest.
FailedDoesNotRest ==
  \A k \in StopKeys : stops[k] = "FAILED" =>
    book[StopRef(k)] # "working" /\ ~OnWire(StopRef(k))

\* One session that is careful: at most one stop rests on a position,
\* whatever was refused, lost, triggered, cancelled or flattened before
\* ("Two resting stops on a position that can only be sold once means the
\* second becomes a naked short", build_protective_client_key).
OneRestingStop ==
  \A e \in Entries : \A p, q \in RestingStops(e) : p = q

(***************************************************************************)
(* Steps.                                                                  *)
(***************************************************************************)

\* A position leaves the entry guard in two ways only: a submitted stop of
\* its own is promoted while the broker has accepted it, or its trade is
\* closed with no shares left.
GuardReleases ==
  [][\A e \in UnprotectedLivePositions \ UnprotectedLivePositions' :
       \/ \E q \in Quantities : /\ stops[<<e, q>>] = "SUBMITTED"
                                /\ stops'[<<e, q>>] = "PROTECTED"
                                /\ Accepted(StopRef(<<e, q>>))
       \/ trades'[e].status = "closed" /\ held[e] <= 0]_vars

\* A resolved protective order is never resolved again, by anyone.
ResolutionIsFinal ==
  [][\A k \in StopKeys : stops[k] \in {"PROTECTED", "FAILED"} =>
       stops'[k] = stops[k]]_vars

(***************************************************************************)
(* Progress.                                                               *)
(***************************************************************************)

\* Every filled live entry reaches the journal, where the guard sees it.
FillReachesJournal ==
  \A e \in Entries :
    book[EntryRef(e)] = "filled" ~> trades[e].mode = "live"

\* A crash lost the flatten of a refused stop: protect-resolve refuses the
\* row that failed, and protect the quantity that has a row.
FlattenLost(e) ==
  /\ crashes > 0
  /\ held[e] \in Quantities
  /\ LET k == <<e, held[e]>>
     IN  /\ stops[k] = "FAILED"
         /\ book[FlattenRef(k)] = "unknown" /\ ~OnWire(FlattenRef(k))
         /\ \A s \in Sessions : task[s].step # "flatten"

\* A recorded position that carries a stop does not stay uncovered: its stop
\* is confirmed, or it is flattened and closed.  Crashes do not change that,
\* save one that takes a flatten with it.
ExposureEnds ==
  \A e \in Entries :
    e \in UnprotectedLivePositions ~>
      e \notin UnprotectedLivePositions \/ FlattenLost(e)

(***************************************************************************)
(* What documentation and comments say and the code does not do.           *)
(***************************************************************************)

\* A stop that was cancelled and never replaced means unprotected
\* (unprotected_live_positions, docstring).
CancelledStopIsListed ==
  \A e \in Entries :
    /\ OpenTrade(e) /\ trades[e].mode = "live"
    /\ held[e] > 0
    /\ RestingStops(e) = {}
    => e \in UnprotectedLivePositions

\* A fill that record-fill refuses was recorded before ("already recorded -
\* the cycle re-fired", record_trade).
RefusedFillIsKnown ==
  \A e \in Entries :
    FillRecordable(e) /\ e \in KnownClientKeys => trades[e].mode = "live"

\* A stop that did not rest leaves an open position, which its flatten sells
\* ("place flatten_payload - the position is open and uncovered",
\* cmd_protect_resolve).
FlattensWhatIsOpen ==
  [][\A s \in Sessions :
       task[s].step = "refused" /\ task'[s].step = "flatten"
         => held[task[s].entry] > 0]_vars

(***************************************************************************)
(* The journal implements EntryLedger.                                     *)
(***************************************************************************)
Phase(e) ==
  IF trades[e].mode # "live" THEN "unknown"
  ELSE IF trades[e].status = "closed" THEN "closed"
  ELSE IF HasProtectedStop(e) THEN "covered"
  ELSE "exposed"

\* Of a shadow record the ledger says nothing, although protect would have a
\* stop placed for it.
Confirmed ==
  {e \in Entries : /\ trades[e].mode = "live"
                   /\ \E q \in Quantities : Accepted(StopRef(<<e, q>>))}

Ledger == INSTANCE EntryLedger WITH
            phase <- [e \in Entries |-> Phase(e)], confirmed <- Confirmed

ImplementsLedger == Ledger!Spec
=============================================================================
