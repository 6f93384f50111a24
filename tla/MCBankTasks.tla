---------------------------- MODULE MCBankTasks -----------------------------
(***************************************************************************)
(* Bounds BankTasks for TLC, as MCModulationBank does ModulationBank.  The *)
(* run ends where a registered slot is freed: its properties say nothing   *)
(* of what follows.                                                        *)
(***************************************************************************)
EXTENDS BankTasks, TLC

CONSTANTS
  CountBound,  \* no registered count grows beyond it
  ValueBound   \* no modulation value leaves -ValueBound .. ValueBound

MCTasksNext ==
  /\ TasksNext
  /\ ~ freed
  /\ \A k \in 0 .. numParamInfos' - 1 : paramInfos'[k].numLinks <= CountBound
  /\ \A p \in Params : modulationValue'[p] \in -ValueBound .. ValueBound

MCTasksSpec == TasksInit /\ [][MCTasksNext]_taskVars

Symmetry == Permutations(Modulators) \cup Permutations(Params)
=============================================================================
