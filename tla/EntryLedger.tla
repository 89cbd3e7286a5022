---------------------------- MODULE EntryLedger ----------------------------
(***************************************************************************)
(* What the journal promises of a live position, whatever sessions,        *)
(* crashes and replies do: a recorded fill is exposed until a stop the     *)
(* broker confirmed covers it or its trade is closed, coverage is never    *)
(* taken back, and a closed trade stays closed.  The entry guard blocks    *)
(* while a position is exposed.                                            *)
(***************************************************************************)
CONSTANT Entries

VARIABLES
  phase,      \* of each entry: unknown, exposed, covered or closed
  confirmed   \* entries for which the broker has accepted a stop

ledgerVars == <<phase, confirmed>>

Init ==
  /\ phase = [e \in Entries |-> "unknown"]
  /\ confirmed = {}

Move(e, from, to) ==
  /\ phase[e] \in from
  /\ phase' = [phase EXCEPT ![e] = to]
  /\ UNCHANGED confirmed

Expose(e) == Move(e, {"unknown"}, "exposed")

Cover(e) == e \in confirmed /\ Move(e, {"exposed"}, "covered")

Close(e) == Move(e, {"exposed", "covered"}, "closed")

\* The broker takes a stop only for a position the journal knows.
Confirm(e) ==
  /\ phase[e] # "unknown"
  /\ confirmed' = confirmed \cup {e}
  /\ UNCHANGED phase

Next == \E e \in Entries : Expose(e) \/ Cover(e) \/ Close(e) \/ Confirm(e)

Spec == Init /\ [][Next]_ledgerVars
=============================================================================
