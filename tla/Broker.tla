------------------------------- MODULE Broker -------------------------------
(***************************************************************************)
(* The broker as the repository uses it (external: no code of it is in the *)
(* repository).  It is reached only by the agent, which places the         *)
(* payloads the program emits.  What the code relies on:                   *)
(*   - an order carries a `ref_id`, and a second order with the same       *)
(*     ref_id is the same order (risk/engine.py, build_client_key and      *)
(*     build_protective_client_key);                                       *)
(*   - a placed order is processed some time later and its reply may be    *)
(*     lost (journal/repository.py, record_protection_submitted);          *)
(*   - a stop may be refused, may fill, and may be cancelled;              *)
(*   - a sell is not checked against the position: an account that holds   *)
(*     nothing of the symbol had a short sale accepted                     *)
(*     (execution/capabilities.py, module docstring).                      *)
(***************************************************************************)
EXTENDS Positions

VARIABLES
  book,   \* state of the order with each ref_id
  wire,   \* orders placed and not yet processed
  held    \* shares held of each entry's symbol; negative is a short position

brokerVars == <<book, wire, held>>

(***************************************************************************)
(* A ref_id names the order: the entry, its exit (one per session, without *)
(* a quantity in the key), or a stop or a flatten of a quantity.           *)
(***************************************************************************)
EntryRef(e) == [kind |-> "entry", entry |-> e, qty |-> 0]
ExitRef(e) == [kind |-> "exit", entry |-> e, qty |-> 0]
StopRef(k) == [kind |-> "stop", entry |-> k[1], qty |-> k[2]]
FlattenRef(k) == [kind |-> "flatten", entry |-> k[1], qty |-> k[2]]

Refs == [kind: {"entry", "exit"}, entry: Entries, qty: {0}]
        \cup [kind: {"stop", "flatten"}, entry: Entries, qty: Quantities]

OrderStates == {"unknown", "working", "filled", "rejected", "cancelled"}

\* An order in flight: its ref_id and the quantity it asks for.
Orders == [ref: Refs, qty: Quantities \cup {0}]

BrokerTypeOK ==
  /\ book \in [Refs -> OrderStates]
  /\ wire \subseteq Orders
  /\ held \in [Entries -> Int]

BrokerInit ==
  /\ book = [r \in Refs |-> "unknown"]
  /\ wire = {}
  /\ held = [e \in Entries |-> 0]

OnWire(r) == \E o \in wire : o.ref = r

\* Nothing placed for the entry is still in flight.
Settled(e) == \A o \in wire : o.ref.entry # e

Accepted(r) == book[r] \in {"working", "filled", "cancelled"}

RestingStops(e) == {q \in Quantities : book[StopRef(<<e, q>>)] = "working"}

Place(r, q) ==
  /\ wire' = wire \cup {[ref |-> r, qty |-> q]}
  /\ UNCHANGED <<book, held>>

(***************************************************************************)
(* Processing.  An order whose ref_id the broker has seen is not a new one.*)
(***************************************************************************)
Dedupe(o) ==
  /\ o \in wire
  /\ book[o.ref] # "unknown"
  /\ wire' = wire \ {o}
  /\ UNCHANGED <<book, held>>

\* A dollar-denominated market buy: the quantity is what the dollars buy.
FillEntry(o, q) ==
  /\ o \in wire
  /\ o.ref.kind = "entry"
  /\ book[o.ref] = "unknown"
  /\ book' = [book EXCEPT ![o.ref] = "filled"]
  /\ held' = [held EXCEPT ![o.ref.entry] = @ + q]
  /\ wire' = wire \ {o}

\* A market sell, which may fill in part before the session's end.
FillSell(o, q) ==
  /\ o \in wire
  /\ o.ref.kind \in {"exit", "flatten"}
  /\ book[o.ref] = "unknown"
  /\ q <= o.qty
  /\ book' = [book EXCEPT ![o.ref] = "filled"]
  /\ held' = [held EXCEPT ![o.ref.entry] = @ - q]
  /\ wire' = wire \ {o}

\* A stop comes to rest, or is refused.
DecideStop(o, verdict) ==
  /\ o \in wire
  /\ o.ref.kind = "stop"
  /\ book[o.ref] = "unknown"
  /\ verdict \in {"working", "rejected"}
  /\ book' = [book EXCEPT ![o.ref] = verdict]
  /\ wire' = wire \ {o}
  /\ UNCHANGED held

TriggerStop(k) ==
  /\ book[StopRef(k)] = "working"
  /\ book' = [book EXCEPT ![StopRef(k)] = "filled"]
  /\ held' = [held EXCEPT ![k[1]] = @ - k[2]]
  /\ UNCHANGED wire

CancelStop(k) ==
  /\ book[StopRef(k)] = "working"
  /\ book' = [book EXCEPT ![StopRef(k)] = "cancelled"]
  /\ UNCHANGED <<wire, held>>
=============================================================================
