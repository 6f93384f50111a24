-------------------------- MODULE MCModulationBank --------------------------
(***************************************************************************)
(* Bounds ModulationBank for TLC.  Adds through wrong charges let a count  *)
(* and, through a stale link, a modulation value grow without limit.       *)
(***************************************************************************)
EXTENDS ModulationBank, TLC

CONSTANTS
  CountBound,  \* no registered count grows beyond it
  ValueBound   \* no modulation value leaves -ValueBound .. ValueBound

CountsBounded == \A k \in LiveInfos : paramInfos[k].numLinks <= CountBound
ValuesBounded ==
  \A p \in Params : modulationValue[p] \in -ValueBound .. ValueBound

MCNext == Next /\ CountsBounded' /\ ValuesBounded'

MCSpec == Init /\ [][MCNext]_vars

Symmetry == Permutations(Modulators) \cup Permutations(Params)
=============================================================================
