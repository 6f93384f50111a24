------------------------------ MODULE BspTask -------------------------------
(***************************************************************************)
(* The thread of control the key scanner, the knobs and the display share: *)
(* BspTask goes round its loop, from one part to the next.                 *)
(***************************************************************************)

VARIABLES
  pc,      \* what BspTask does next
  halted   \* DEVICE_ERROR in the timer task or in an interrupt: no task goes on

task == <<pc, halted>>

Goes(from, to) == pc = from /\ pc' = to /\ UNCHANGED halted

\* DEVICE_ERROR in BspTask itself flashes the light from there for ever.
Stopped == halted \/ pc = "stopped"
=============================================================================
