---------------------------- MODULE SampleClock -----------------------------
(***************************************************************************)
(* dsp::Lazerbass::Process: a block of samples is generated in pieces cut  *)
(* where the modulation tick is due.  The countdown tickPos_ lives on from *)
(* one block to the next.                                                  *)
(***************************************************************************)
EXTENDS Integers

CONSTANTS
  BlockSize,   \* samples in a block
  SampleRate,  \* samples per second
  UpdateRate   \* ticks per second

\* Init divides the rates.  With more ticks than samples the period would be 0
\* and Process would not end.
ASSUME RatesAssumption ==
  /\ BlockSize \in Nat \ {0}
  /\ SampleRate \in Nat /\ UpdateRate \in Nat \ {0}
  /\ SampleRate >= UpdateRate

VARIABLES
  tickPos,     \* tickPos_
  samplePos,   \* samples of this block already generated
  pc,          \* outside of Process, at its loop, or past the test for a tick
  sinceTick,   \* history: samples generated since the last tick, -1 before one
  lastPeriod   \* history: samples between the last two ticks, -1 before them

clockVars == <<tickPos, samplePos, pc, sinceTick, lastPeriod>>

tickPeriod == SampleRate \div UpdateRate

-----------------------------------------------------------------------------
\* Faulty variant: every block counts its ticks from its own beginning.
CallRestarts ==
  /\ pc = "outside" /\ pc' = "loop"
  /\ samplePos' = 0
  /\ tickPos' = tickPeriod
  /\ UNCHANGED <<sinceTick, lastPeriod>>

\* AudioTask calls Process with a block.
Call ==
  /\ pc = "outside" /\ pc' = "loop"
  /\ samplePos' = 0
  /\ UNCHANGED <<tickPos, sinceTick, lastPeriod>>

\* Faulty variant: every block begins with a tick.
DueWithBlock == tickPos <= 0 \/ samplePos = 0

More == samplePos < BlockSize
Due == tickPos <= 0

TickDue ==
  /\ pc = "loop" /\ pc' = "generate"
  /\ More
  /\ Due
  /\ tickPos' = tickPeriod
  /\ lastPeriod' = sinceTick
  /\ sinceTick' = 0
  /\ UNCHANGED samplePos

NoTickDue ==
  /\ pc = "loop" /\ pc' = "generate"
  /\ More
  /\ ~ Due
  /\ UNCHANGED <<tickPos, samplePos, sinceTick, lastPeriod>>

Smaller(m, n) == IF m <= n THEN m ELSE n

numSamples == Smaller(tickPos, BlockSize - samplePos)

\* AudioGen fills numSamples samples from samplePos on.
AudioGen ==
  /\ pc = "generate" /\ pc' = "loop"
  /\ tickPos' = tickPos - numSamples
  /\ samplePos' = samplePos + numSamples
  /\ sinceTick' = IF sinceTick < 0 THEN sinceTick ELSE sinceTick + numSamples
  /\ UNCHANGED lastPeriod

Return ==
  /\ pc = "loop" /\ pc' = "outside"
  /\ ~ More
  /\ UNCHANGED <<tickPos, samplePos, sinceTick, lastPeriod>>

-----------------------------------------------------------------------------
ClockInit ==
  /\ tickPos = 0
  /\ samplePos = 0
  /\ pc = "outside"
  /\ sinceTick = -1
  /\ lastPeriod = -1

ClockNext == Call \/ TickDue \/ NoTickDue \/ AudioGen \/ Return

ClockSpec == ClockInit /\ [][ClockNext]_clockVars

-----------------------------------------------------------------------------
(***************************************************************************)
(* Properties.                                                             *)
(***************************************************************************)
ClockTypeOK ==
  /\ tickPos \in 0 .. tickPeriod
  /\ samplePos \in 0 .. BlockSize
  /\ pc \in {"outside", "loop", "generate"}
  /\ sinceTick \in -1 .. tickPeriod
  /\ lastPeriod \in Int

\* The modulators run at an even rate: wherever the ends of the blocks fall,
\* tickPeriod_ samples pass between two ticks.
EvenTicks == lastPeriod \in {-1, tickPeriod}

\* A piece is never empty, so the loop goes on, and never leaves the block; the
\* block Process returns is filled to its last sample.
PieceInBlock ==
  pc = "generate" => numSamples > 0 /\ samplePos + numSamples <= BlockSize

BlockFilled == [][Return => samplePos = BlockSize]_clockVars
=============================================================================
