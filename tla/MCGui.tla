------------------------------- MODULE MCGui --------------------------------
(***************************************************************************)
(* Bounds Gui for TLC.                                                     *)
(***************************************************************************)
EXTENDS Gui, TLC

CONSTANTS
  CountBound,   \* no registered count grows beyond it
  PressBound    \* keys pressed in one scan

\* One step of an encoder either way.
OneStep == {-1, 1}

MCGuiNext ==
  /\ GuiNext
  /\ presses' <= PressBound
  /\ \A k \in LiveInfos' : paramInfos'[k].numLinks <= CountBound

MCGuiSpec == GuiInit /\ [][MCGuiNext]_allGuiVars

Symmetry == Permutations(Params)
=============================================================================
