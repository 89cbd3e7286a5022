------------------------------ MODULE RiskLock ------------------------------
(***************************************************************************)
(* The risk limits and their approved baseline (config/loader.py, cli.py   *)
(* lock-risk): config/risk.yaml, which anyone can edit, and                *)
(* config/risk.lock, which a human writes with lock-risk --confirm.        *)
(*                                                                         *)
(* A set of limits is one value: risk_fingerprint hashes the validated     *)
(* values, so two files agree exactly when their values do.                *)
(***************************************************************************)
EXTENDS Integers

CONSTANTS
  Limits,          \* the limits that validate as a RiskConfig
  NoLimits,        \* a file that does not validate; no limits loaded
  NoLock, Torn     \* no lock file; a lock file that cannot be read

ASSUME RiskLockAssumption ==
  /\ NoLimits \notin Limits
  /\ {NoLock, Torn} \cap (Limits \cup {NoLimits}) = {}
  /\ NoLock # Torn

VARIABLES
  yaml,       \* the values of risk.yaml
  lock,       \* the values of risk.lock
  locker,     \* what a lock-risk --confirm under way has loaded
  approved    \* every limits a confirmed lock-risk has loaded

lockVars == <<yaml, lock, locker, approved>>

LockTypeOK ==
  /\ yaml \in Limits \cup {NoLimits}
  /\ lock \in Limits \cup {NoLock, Torn}
  /\ locker \in Limits \cup {NoLimits}
  /\ approved \subseteq Limits

LockInit ==
  /\ yaml \in Limits
  /\ lock = NoLock
  /\ locker = NoLimits
  /\ approved = {}

\* Mutant: a lock that cannot be read passes like one that is missing.
Verified_TornPasses(limits) == lock \in {NoLock, Torn} \/ limits = lock

\* verify_risk_lock.
Verified(limits) == lock = NoLock \/ limits = lock

EditYaml(values) ==
  /\ values # yaml
  /\ yaml' = values
  /\ UNCHANGED <<lock, locker, approved>>

\* lock-risk --confirm loads the file without verifying it ...
LoadToLock ==
  /\ locker = NoLimits
  /\ yaml \in Limits
  /\ locker' = yaml
  /\ approved' = approved \cup {yaml}
  /\ UNCHANGED <<yaml, lock>>

\* ... and writes what it loaded, or finds the lock says so already.
WriteLock ==
  /\ locker # NoLimits
  /\ lock' = locker
  /\ locker' = NoLimits
  /\ UNCHANGED <<yaml, approved>>

\* The command dies while it writes.
TearLock ==
  /\ locker # NoLimits
  /\ lock # locker
  /\ lock' = Torn
  /\ locker' = NoLimits
  /\ UNCHANGED <<yaml, approved>>
=============================================================================
