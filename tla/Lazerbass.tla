----------------------------- MODULE Lazerbass ------------------------------
(***************************************************************************)
(* The synthesizer as its two callers see it: AudioTask has it process a   *)
(* block, UsbTask brings it the keys.  The audio lock lets keys in between *)
(* two blocks only; a block ticks where its countdown runs out, and it is  *)
(* the Tick that takes the keys over into the sound.                       *)
(***************************************************************************)
EXTENDS NoteStack, SampleClock

VARIABLE
  late  \* history: samples generated with a pitch the keys have left

engineVars == <<noteVars, clockVars, late>>

-----------------------------------------------------------------------------
Key ==
  /\ pc = "outside"
  /\ \E n \in Notes : NoteOn(n) \/ NoteOff(n)
  /\ UNCHANGED <<clockVars, late>>

ProcessTick == TickDue /\ Tick /\ late' = 0

Generate ==
  /\ AudioGen
  /\ late' = IF pitch = noteNumber THEN 0 ELSE late + numSamples
  /\ UNCHANGED noteVars

ProcessStep ==
  /\ Call \/ NoTickDue \/ Return
  /\ UNCHANGED <<noteVars, late>>

-----------------------------------------------------------------------------
EngineInit == NoteInit /\ ClockInit /\ late = 0

EngineNext == Key \/ ProcessTick \/ Generate \/ ProcessStep

EngineSpec == EngineInit /\ [][EngineNext]_engineVars

-----------------------------------------------------------------------------
\* A key is heard within one control period, wherever in a block the ticks
\* fall: fewer than tickPeriod_ samples carry the pitch it replaced.
KeyHeardInTime == late < tickPeriod
=============================================================================
