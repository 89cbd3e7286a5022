---------------------------- MODULE MCDiscovery ----------------------------
(***************************************************************************)
(* Two scans that may overlap; two symbols of one sector, one of another,  *)
(* two without.  A run of three rows is at the cap.                        *)
(***************************************************************************)
EXTENDS Discovery, TLC

CONSTANTS low, high, a, b, c, d, e, tech, energy, unknown

SomeSectors ==
  [s \in Symbols |-> CASE s \in {a, b} -> tech [] s = e -> energy [] s \in {c, d} -> unknown]

RankOf(x) ==
  CASE x \in {a, energy, low} -> 1 [] x \in {e, tech, high} -> 2 [] x \in {d, unknown} -> 3
    [] x = b -> 4 [] x = c -> 5

SomeOrders == {<<low, high>>, <<high, low>>, <<low>>, <<low, high, high>>, <<>>}

\* Disjoint scans; scans that share a symbol; one that matches more than the
\* cap.
SomeWorlds ==
  {low :> {a, b} @@ high :> {c, e}, low :> {a, d} @@ high :> {c, d},
   low :> {} @@ high :> {a, b, c, d}}
=============================================================================
