----------------------- MODULE MCProtectionLifecycle -----------------------
(***************************************************************************)
(* Small instances of ProtectionLifecycle for TLC.  A share is two units,  *)
(* so odd quantities are fractional.                                       *)
(***************************************************************************)
EXTENDS ProtectionLifecycle, TLC

Quantities2 == 1..2
Whole2 == {2}
Quantities4 == 1..4
Whole4 == {2, 4}
=============================================================================
