------------------------------- MODULE Panel --------------------------------
(***************************************************************************)
(* The front panel: keys, a knob and the display, whose interrupts, timer  *)
(* and transfers run by themselves, and BspTask, which serves all three.   *)
(*                                                                         *)
(* touched bounds an instance: only these of "keys", "knob" and "pages"    *)
(* are moved from outside.  The parts have nothing in common but BspTask,  *)
(* which an untouched part still passes through.                           *)
(***************************************************************************)
EXTENDS ControlScan, Encoder, Oled

CONSTANT Touched   \* the instances: what is moved in each

VARIABLE touched

vars == <<task, scanVars, knobVars, frameVars, touched>>

-----------------------------------------------------------------------------
Outside ==
  \/ /\ "keys" \in touched /\ Press
     /\ UNCHANGED <<knobVars, frameVars, touched>>
  \/ /\ "knob" \in touched /\ (Turn \/ Bounce)
     /\ UNCHANGED <<scanVars, frameVars, touched>>
  \/ /\ "pages" \in touched /\ Change
     /\ UNCHANGED <<scanVars, knobVars, touched>>

Scanner == ScanNext /\ UNCHANGED <<knobVars, frameVars, touched>>
Knob == KnobNext /\ UNCHANGED <<scanVars, frameVars, touched>>
Display == FrameNext /\ UNCHANGED <<scanVars, knobVars, touched>>

-----------------------------------------------------------------------------
\* AppMain has called ControlIO::Init; BspTask begins with Oled::Init.
Init ==
  /\ pc = "power" /\ halted = FALSE
  /\ ScanInit /\ KnobInit /\ FrameInit
  /\ touched \in Touched
  /\ "keys" \notin touched => down = {}

\* Where the device has halted nothing is left to say.
Next == ~ halted /\ (Outside \/ Scanner \/ Knob \/ Display)

\* BspTask goes on by itself; that the display answers is not its doing.
BspStep ==
  /\ Scanner \/ Knob \/ Display
  /\ pc' # pc \/ HandleEvent \/ Refused
  /\ ~ Answered

\* The timer, the interrupts and a transfer that meets no error go on by
\* themselves, and BspTask is scheduled.  Every round of its loop takes time, so
\* a frame is due again and again.
Fairness ==
  /\ WF_vars(BspStep)
  /\ WF_vars(OS_SpiTimerCallback /\ Scanner)
  /\ WF_vars((ReceiveByte \/ HAL_SpiHandler) /\ Scanner)
  /\ WF_vars(Interrupt /\ Knob)
  /\ WF_vars((SendPart \/ Complete) /\ Display)
  /\ SF_vars(Update /\ Display)

Spec == Init /\ [][Next]_vars /\ Fairness
=============================================================================
