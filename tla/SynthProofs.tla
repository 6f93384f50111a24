----------------------------- MODULE SynthProofs ----------------------------
(***************************************************************************)
(* What the note stack is part of: the engine it plays and the ring its    *)
(* keys come through.                                                      *)
(*                                                                         *)
(* The engine, for every block size, all rates that fit, any set of keys   *)
(* and any number of partials and envelopes: Process ticks evenly, what is *)
(* proved of the parts holds of the whole, a key is heard within a control *)
(* period, the partials the last Tick has counted are in tune, and         *)
(* envelopes move in small steps.                                          *)
(*                                                                         *)
(* The ring, for any size of it and of the packets and any notes: no       *)
(* wakeup is lost, the audio lock keeps keys out of a block, and the keys  *)
(* are handled as the stack alone handles them, so what is proved of the   *)
(* stack holds of them here.  Until the host laps the ring, every key is   *)
(* handled once, in the order of the packets.                              *)
(***************************************************************************)
EXTENDS Envelope, MidiIn, NoteStackProofs, CommonLemmas

(***************************************************************************)
(* The clock.  Its properties are not inductive.  What makes them so is    *)
(* that the countdown and the samples since the last tick add up to the    *)
(* period, and that the countdown has not run out when a piece is to be    *)
(* generated.                                                              *)
(***************************************************************************)
CountsDown ==
  \/ sinceTick = -1 /\ tickPos = 0 /\ pc # "generate"
  \/ sinceTick + tickPos = tickPeriod

Running == pc = "generate" => tickPos > 0 /\ samplePos < BlockSize

IInv == ClockTypeOK /\ CountsDown /\ Running /\ EvenTicks

\* The period Init computes is a number of samples, and not 0.
LEMMA PeriodPositive == tickPeriod \in Nat \ {0}
  BY RatesAssumption DEF RatesAssumption, tickPeriod

\* A piece is as long as the countdown or as the rest of the block.
LEMMA PieceFits ==
  ASSUME ClockTypeOK
  PROVE  /\ numSamples \in Nat
         /\ numSamples <= tickPos
         /\ numSamples <= BlockSize - samplePos
         /\ numSamples = tickPos \/ numSamples = BlockSize - samplePos
<1>1. BlockSize \in Nat
  BY RatesAssumption DEF RatesAssumption
<1> QED
  BY <1>1, PeriodPositive DEF ClockTypeOK, numSamples, Smaller

\* Every step keeps the invariant: a tick resets both counts, a piece moves as
\* many samples from the one to the other.
LEMMA StepInv == IInv /\ [ClockNext]_clockVars => IInv'
<1> SUFFICES ASSUME IInv, [ClockNext]_clockVars PROVE IInv'
  OBVIOUS
<1>1. BlockSize \in Nat \ {0} /\ tickPeriod \in Nat \ {0}
  BY RatesAssumption, PeriodPositive DEF RatesAssumption
<1>2. tickPeriod' = tickPeriod
  BY DEF tickPeriod
<1> HIDE DEF tickPeriod
<1> USE <1>1, <1>2 DEF IInv, ClockTypeOK, CountsDown, Running, EvenTicks
<1>3. CASE Call
  BY <1>3 DEF Call
<1>4. CASE TickDue
  BY <1>4 DEF TickDue, Due, More
<1>5. CASE NoTickDue
  BY <1>5 DEF NoTickDue, Due, More
<1>6. CASE AudioGen
  <2>1. numSamples \in Nat /\ numSamples <= tickPos
          /\ numSamples <= BlockSize - samplePos
    BY PieceFits
  <2> HIDE DEF numSamples
  <2> QED
    BY <1>6, <2>1 DEF AudioGen
<1>7. CASE Return
  BY <1>7 DEF Return
<1>8. CASE UNCHANGED clockVars
  BY <1>8 DEF clockVars
<1> QED
  BY <1>3, <1>4, <1>5, <1>6, <1>7, <1>8 DEF ClockNext

\* The invariant holds in every state Process can reach.
THEOREM Invariance == ClockSpec => []IInv
<1>1. ClockInit => IInv
  <2>1. BlockSize \in Nat \ {0} /\ tickPeriod \in Nat \ {0}
    BY RatesAssumption, PeriodPositive DEF RatesAssumption
  <2> QED
    BY <2>1 DEF ClockInit, IInv, ClockTypeOK, CountsDown, Running, EvenTicks
<1> QED
  BY <1>1, StepInv, PTL DEF ClockSpec

\* Variables keep their types: neither unsigned counter drops below 0.
THEOREM TypeCorrect == ClockSpec => []ClockTypeOK
<1>1. IInv => ClockTypeOK
  BY DEF IInv
<1> QED
  BY <1>1, Invariance, PTL

\* tickPeriod_ samples pass between two ticks, wherever the blocks end.
THEOREM EvenTicksHolds == ClockSpec => []EvenTicks
<1>1. IInv => EvenTicks
  BY DEF IInv
<1> QED
  BY <1>1, Invariance, PTL

\* The loop of Process always advances and stays within the block.
THEOREM PieceInBlockHolds == ClockSpec => []PieceInBlock
<1>1. IInv => PieceInBlock
  <2> SUFFICES ASSUME IInv, pc = "generate"
               PROVE  numSamples > 0 /\ samplePos + numSamples <= BlockSize
    BY DEF PieceInBlock
  <2>1. tickPos > 0 /\ samplePos < BlockSize /\ ClockTypeOK
    BY DEF IInv, Running
  <2>2. BlockSize \in Nat /\ tickPos \in Nat /\ samplePos \in Nat
    BY <2>1, RatesAssumption, PeriodPositive DEF RatesAssumption, ClockTypeOK
  <2> HIDE DEF numSamples
  <2> QED
    BY <2>1, <2>2, PieceFits
<1> QED
  BY <1>1, Invariance, PTL

\* Process returns with the whole block filled.
THEOREM BlockFilledHolds == ClockSpec => BlockFilled
<1>1. IInv => (Return => samplePos = BlockSize)
  BY RatesAssumption DEF RatesAssumption, IInv, ClockTypeOK, Return, More
<1>2. []IInv => [][Return => samplePos = BlockSize]_clockVars
  BY <1>1, PTL
<1> QED
  BY <1>2, Invariance, PTL DEF BlockFilled

-----------------------------------------------------------------------------
(***************************************************************************)
(* The keys.  The proof adds to the invariant of the clock that the        *)
(* samples already late and those left until the next tick are fewer than  *)
(* a period.  Only between a tick and the piece behind it does a whole     *)
(* period lie ahead, and there no key can come: the pitch is the one of    *)
(* the keys.                                                               *)
(***************************************************************************)
Ahead == late + tickPos < tickPeriod

LateInv ==
  /\ late \in Nat
  /\ pc # "generate" => Ahead
  /\ Ahead \/ (late = 0 /\ pitch = noteNumber)

\* Seen through the variables of the clock, a step of the engine is a step of
\* the clock or none.
LEMMA EngineStepsClock ==
  [EngineNext]_engineVars => [ClockNext]_clockVars
  BY DEF EngineNext, engineVars, clockVars, Key, ProcessTick, Generate,
         ProcessStep, ClockNext

\* The engine ticks and fills its blocks as the clock alone does: the keys do
\* not disturb Process, and what is proved of the clock holds of the engine.
THEOREM EngineRefinesClock == EngineSpec => ClockSpec
<1>1. EngineInit => ClockInit
  BY DEF EngineInit
<1> QED
  BY <1>1, EngineStepsClock, PTL DEF EngineSpec, ClockSpec

\* Every step keeps the samples late and ahead below a period.
LEMMA LateStep == IInv /\ LateInv /\ [EngineNext]_engineVars => LateInv'
<1> SUFFICES ASSUME IInv, LateInv, [EngineNext]_engineVars PROVE LateInv'
  OBVIOUS
<1>1. tickPeriod \in Nat \ {0} /\ BlockSize \in Nat \ {0}
  BY RatesAssumption, PeriodPositive DEF RatesAssumption
<1>2. tickPeriod' = tickPeriod
  BY DEF tickPeriod
<1>3. ClockTypeOK /\ Running
  BY DEF IInv
<1>4. late \in Nat /\ tickPos \in 0 .. tickPeriod /\ samplePos \in 0 .. BlockSize
  BY <1>3 DEF ClockTypeOK, LateInv
<1> HIDE DEF tickPeriod
<1>5. CASE Key
  <2>1. pc = "outside" /\ UNCHANGED <<pc, tickPos, late>>
    BY <1>5 DEF Key, clockVars
  <2> QED
    BY <2>1, <1>2, <1>4 DEF LateInv, Ahead
<1>6. CASE ProcessTick
  <2>1. pitch' = noteNumber /\ noteNumber' = noteNumber
    BY <1>6 DEF ProcessTick, Tick
  <2>2. late' = 0 /\ pc' = "generate"
    BY <1>6 DEF ProcessTick, TickDue
  <2> QED
    BY <2>1, <2>2 DEF LateInv
<1>7. CASE Generate
  <2>1. /\ pc = "generate" /\ pc' = "loop"
        /\ tickPos' = tickPos - numSamples
        /\ late' = IF pitch = noteNumber THEN 0 ELSE late + numSamples
    BY <1>7 DEF Generate, AudioGen
  <2>2. numSamples \in Nat /\ numSamples <= tickPos /\ numSamples > 0
    BY <1>3, <1>4, <2>1, PieceFits, <1>1 DEF Running
  <2> HIDE DEF numSamples
  <2>3. CASE pitch = noteNumber
    BY <2>1, <2>2, <2>3, <1>1, <1>2, <1>4 DEF LateInv, Ahead
  <2>4. CASE pitch # noteNumber
    BY <2>1, <2>2, <2>4, <1>1, <1>2, <1>4 DEF LateInv, Ahead
  <2> QED
    BY <2>3, <2>4
<1>8. CASE ProcessStep
  <2>1. /\ UNCHANGED <<tickPos, late, pitch, noteNumber>>
        /\ pc # "generate"
    BY <1>8 DEF ProcessStep, noteVars, Call, NoTickDue, Return
  <2> QED
    BY <2>1, <1>2 DEF LateInv, Ahead
<1>9. CASE UNCHANGED engineVars
  BY <1>9, <1>2 DEF engineVars, noteVars, clockVars, LateInv, Ahead
<1> QED
  BY <1>5, <1>6, <1>7, <1>8, <1>9 DEF EngineNext

\* Fewer than tickPeriod_ samples carry a pitch the keys have left.
THEOREM KeyHeardInTimeHolds == EngineSpec => []KeyHeardInTime
<1>1. EngineInit => LateInv
  BY PeriodPositive DEF EngineInit, NoteInit, ClockInit, LateInv, Ahead
<1>2. IInv /\ LateInv => KeyHeardInTime
  <2> SUFFICES ASSUME IInv, LateInv PROVE late < tickPeriod
    BY DEF KeyHeardInTime
  <2>1. late \in Nat /\ tickPos \in Nat /\ tickPeriod \in Nat \ {0}
    BY PeriodPositive DEF IInv, ClockTypeOK, LateInv
  <2> HIDE DEF tickPeriod
  <2> QED
    BY <2>1 DEF LateInv, Ahead
<1> QED
  BY <1>1, <1>2, LateStep, EngineRefinesClock, Invariance, PTL DEF EngineSpec

-----------------------------------------------------------------------------
(***************************************************************************)
(* The parts within the whole.                                             *)
(***************************************************************************)
\* Seen through the variables of the keys, a step of the engine is a key, a
\* Tick or nothing.
LEMMA EngineStepsKeys ==
  [EngineNext]_engineVars => [NoteNext]_noteVars
  BY DEF EngineNext, engineVars, noteVars, Key, ProcessTick, Generate,
         ProcessStep, NoteNext

\* The engine handles keys as the stack alone does: ticks come with the blocks,
\* and what is proved of the stack holds of the engine.
THEOREM EngineRefinesKeys == EngineSpec => NoteSpec
<1>1. EngineInit => NoteInit
  BY DEF EngineInit
<1> QED
  BY <1>1, EngineStepsKeys, PTL DEF EngineSpec, NoteSpec

LEMMA OscStepsEngine ==
  [OscNext]_oscVars => [EngineNext]_engineVars
  BY DEF OscNext, oscVars, SetPartials, BankTick, BankGenerate, BankElse, EngineNext

\* The partials, and the page that sets their number at any moment, leave the
\* engine as it was.
THEOREM OscRefinesEngine == OscSpec => EngineSpec
<1>1. OscInit => EngineInit
  BY DEF OscInit
<1> QED
  BY <1>1, OscStepsEngine, PTL DEF OscSpec, EngineSpec

-----------------------------------------------------------------------------
(***************************************************************************)
(* The partials.  The pitch changes in a Tick only, which computes every   *)
(* pair it counts.                                                         *)
(***************************************************************************)
TuneInv ==
  /\ numPairs \in Pairs
  /\ counted \subseteq Pairs
  /\ \A i \in counted : freqs[i] = pitch

LEMMA UsedArePairs ==
  ASSUME numPairs \in Pairs
  PROVE  Used \subseteq Pairs
  BY PairsAssumption DEF PairsAssumption, Pairs, Used

LEMMA TuneStep == TuneInv /\ [OscNext]_oscVars => TuneInv'
<1> SUFFICES ASSUME TuneInv, [OscNext]_oscVars PROVE TuneInv'
  OBVIOUS
<1>1. CASE SetPartials
  BY <1>1 DEF SetPartials, TuneInv, engineVars, noteVars, Pairs
<1>2. CASE BankTick
  <2>1. pitch' = noteNumber /\ counted' = Used /\ numPairs' = numPairs
    BY <1>2 DEF BankTick, ProcessTick, Tick
  <2>2. Used \subseteq Pairs
    BY UsedArePairs DEF TuneInv
  <2>3. \A i \in Used : freqs'[i] = noteNumber
    BY <1>2, <2>2 DEF BankTick, TickFreqs
  <2> QED
    BY <2>1, <2>2, <2>3 DEF TuneInv, Pairs
<1>3. CASE BankGenerate
  BY <1>3 DEF BankGenerate, Generate, noteVars, TuneInv, Pairs
<1>4. CASE BankElse
  <2>1. pitch' = pitch
    BY <1>4 DEF BankElse, Key, ProcessStep, noteVars, NoteOn, NoteOff
  <2> QED
    BY <1>4, <2>1 DEF BankElse, bankVars, TuneInv, Pairs
<1>5. CASE UNCHANGED oscVars
  BY <1>5 DEF oscVars, engineVars, noteVars, bankVars, TuneInv, Pairs
<1> QED
  BY <1>1, <1>2, <1>3, <1>4, <1>5 DEF OscNext

\* Whenever the number of partials changes, those the last Tick has counted
\* sound at its pitch in every piece that follows.
THEOREM CountedInTuneHolds == OscSpec => CountedInTune
<1>1. OscInit => TuneInv
  BY PairsAssumption DEF OscInit, TuneInv, PairsAssumption, Pairs
<1>2. TuneInv /\ [OscNext]_oscVars =>
        [BankGenerate /\ output => \A i \in Used \cap counted : oldFreqs'[i] = pitch]_oscVars
  <2> SUFFICES ASSUME TuneInv, BankGenerate, output, NEW i \in Used \cap counted
               PROVE  oldFreqs'[i] = pitch
    OBVIOUS
  <2>1. i \in Pairs /\ freqs[i] = pitch
    BY DEF TuneInv
  <2> QED
    BY <2>1 DEF BankGenerate
<1> QED
  BY <1>1, <1>2, TuneStep, PTL DEF OscSpec, CountedInTune
-----------------------------------------------------------------------------
(***************************************************************************)
(* The envelopes.  The output is the one its state and phase stand for,    *)
(* unless a key has set them since, and between two such outputs one step  *)
(* of the phase lies.                                                      *)
(***************************************************************************)
LevelOf(s, p) == IF s = "kAttack" THEN p ELSE IF s = "kRelease" THEN One - p ELSE 0

LevelInv ==
  /\ EnvelopeTypeOK
  /\ ~ struck => \A v \in Envelopes : level[v] = LevelOf(state[v], phase[v])

\* A tick of an envelope leads where NoteStack lets it go, to an output that
\* belongs to the new stage and is within an increment of the old one.  Two
\* increments meet where the attack ends: the output has less than one left to
\* the peak and is one below it afterwards.
LEMMA StageSmooth ==
  ASSUME NEW s \in EnvelopeState, NEW p \in 0 .. One,
         NEW a \in Nat, NEW r \in Nat
  PROVE  LET next == Stage(s, p, a, r)
         IN /\ next.state \in Advance(s)
            /\ next.phase \in 0 .. One
            /\ next.level \in 0 .. One
            /\ next.level = LevelOf(next.state, next.phase)
            /\ \E inc \in {a, r} :
                 next.level \in LevelOf(s, p) - inc .. LevelOf(s, p) + inc
<1> USE PhaseAssumption DEF PhaseAssumption
<1>1. CASE s = "kInit"
  BY <1>1 DEF Stage, Advance, LevelOf
<1>2. CASE s = "kRelease"
  BY <1>2 DEF Stage, Release, Advance, LevelOf
<1>3. CASE s = "kAttack"
  <2>1. CASE p + a <= One
    BY <1>3, <2>1 DEF Stage, Attack, Advance, LevelOf, EnvelopeState
  <2>2. CASE p + a > One
    <3>1. Stage(s, p, a, r) = Release(0, r)
      BY <1>3, <2>2 DEF Stage, Attack
    <3>2. CASE r > One
      <4>1. Release(0, r) = [state |-> "kInit", phase |-> One, level |-> 0]
        BY <3>2 DEF Release
      <4>2. 0 \in p - r .. p + r
        BY <3>2
      <4> QED
        BY <1>3, <3>1, <4>1, <4>2 DEF Advance, EnvelopeState, LevelOf
    <3>3. CASE r <= One
      <4>1. Release(0, r) = [state |-> "kRelease", phase |-> r, level |-> One - r]
        BY <3>3 DEF Release
      <4>2. One - r \in p - r .. p + r \/ One - r \in p - a .. p + a
        BY <2>2, <3>3
      <4> QED
        BY <1>3, <3>1, <3>3, <4>1, <4>2 DEF Advance, EnvelopeState, LevelOf
    <3> QED
      BY <3>2, <3>3
  <2> QED
    BY <2>1, <2>2
<1> QED
  BY <1>1, <1>2, <1>3 DEF EnvelopeState

\* Where the phases of the envelopes lead in a tick is where NoteStack lets
\* them go: its choice of states leaves out nothing they do.
THEOREM StagesAdvance ==
  \A s \in EnvelopeState, p \in 0 .. One, a, r \in Increments :
    Stage(s, p, a, r).state \in Advance(s)
<1> SUFFICES ASSUME NEW s \in EnvelopeState, NEW p \in 0 .. One,
                    NEW a \in Increments, NEW r \in Increments
             PROVE  Stage(s, p, a, r).state \in Advance(s)
  OBVIOUS
<1>1. a \in Nat /\ r \in Nat
  BY PhaseAssumption DEF PhaseAssumption
<1> QED
  BY <1>1, StageSmooth

LEMMA EnvelopeStepsOsc ==
  [EnvelopeNext]_envVars => [OscNext]_oscVars
  BY DEF EnvelopeNext, envVars, EnvelopeTick, EnvelopeKey, EnvelopeElse, OscNext

\* The phases decide what the engine leaves open and change nothing else: the
\* theorems about the engine and its partials hold with the envelopes in it.
THEOREM EnvelopeRefinesOsc == EnvelopeSpec => OscSpec
<1>1. EnvelopeInit => OscInit
  BY DEF EnvelopeInit
<1> QED
  BY <1>1, EnvelopeStepsOsc, PTL DEF EnvelopeSpec, OscSpec

\* A key that leaves a key held leaves the states of the envelopes alone.
LEMMA KeyKeepsStates ==
  ASSUME NoteInv, Key, noteStack' # <<>>
  PROVE  state' = state
<1>1. PICK n \in Notes : NoteOn(n) \/ NoteOff(n)
  BY DEF Key
<1>2. CASE NoteOn(n)
  BY <1>2 DEF NoteOn
<1>3. CASE NoteOff(n)
  <2>1. NoteDequeue(n) # kInvalidNoteNumber
    BY <1>3, DequeuedTop DEF NoteOff, NoteInv
  <2> QED
    BY <1>3, <2>1 DEF NoteOff, FallBackTo
<1> QED
  BY <1>1, <1>2, <1>3

\* What a tick makes of each envelope.
LEMMA TickedSmooth ==
  ASSUME NoteInv, EnvelopeTypeOK, NEW v \in Envelopes,
         NEW a \in [Envelopes -> Increments], NEW r \in [Envelopes -> Increments]
  PROVE  LET next == Stage(state[v], phase[v], a[v], r[v])
         IN /\ next.phase \in 0 .. One
            /\ next.level \in 0 .. One
            /\ next.level = LevelOf(next.state, next.phase)
            /\ \E inc \in {a[v], r[v]} :
                 next.level \in LevelOf(state[v], phase[v]) - inc
                                .. LevelOf(state[v], phase[v]) + inc
<1>1. state[v] \in EnvelopeState /\ phase[v] \in 0 .. One
  BY DEF NoteInv, NoteTypeOK, EnvelopeTypeOK
<1>2. a[v] \in Nat /\ r[v] \in Nat
  BY PhaseAssumption DEF PhaseAssumption
<1> QED
  BY <1>1, <1>2, StageSmooth

LEMMA LevelStep == NoteInv /\ LevelInv /\ [EnvelopeNext]_envVars => LevelInv'
<1> SUFFICES ASSUME NoteInv, LevelInv, [EnvelopeNext]_envVars PROVE LevelInv'
  OBVIOUS
<1>0. 0 \in 0 .. One /\ EnvelopeTypeOK
  BY PhaseAssumption DEF PhaseAssumption, LevelInv
<1>1. ASSUME NEW a \in [Envelopes -> Increments], NEW r \in [Envelopes -> Increments],
             EnvelopeTick(a, r)
      PROVE  LevelInv'
  <2> DEFINE next(v) == Stage(state[v], phase[v], a[v], r[v])
  <2>1. \A v \in Envelopes : /\ next(v).phase \in 0 .. One
                             /\ next(v).level \in 0 .. One
                             /\ next(v).level = LevelOf(next(v).state, next(v).phase)
    BY <1>0, TickedSmooth
  <2>2. /\ hasNoteOn \/ state' = [v \in Envelopes |-> next(v).state]
        /\ phase' = [v \in Envelopes |-> IF hasNoteOn THEN 0 ELSE next(v).phase]
        /\ level' = [v \in Envelopes |-> next(v).level]
        /\ struck' = hasNoteOn
    BY <1>1 DEF EnvelopeTick
  <2>3. hasNoteOn \in BOOLEAN
    BY DEF NoteInv, NoteTypeOK
  <2> HIDE DEF next
  <2>4. EnvelopeTypeOK'
    BY <1>0, <2>1, <2>2, <2>3 DEF EnvelopeTypeOK
  <2>5. ~ struck' => \A v \in Envelopes : level'[v] = LevelOf(state'[v], phase'[v])
    BY <2>1, <2>2
  <2> QED
    BY <2>4, <2>5 DEF LevelInv, LevelOf
<1>2. CASE EnvelopeKey
  <2>1. CASE noteStack' = <<>>
    BY <1>0, <1>2, <2>1 DEF EnvelopeKey, LevelInv, EnvelopeTypeOK
  <2>2. CASE noteStack' # <<>>
    <3>1. state' = state
      BY <1>2, <2>2, KeyKeepsStates DEF EnvelopeKey
    <3> QED
      BY <1>2, <2>2, <3>1 DEF EnvelopeKey, LevelInv, EnvelopeTypeOK, LevelOf
  <2> QED
    BY <2>1, <2>2
<1>3. CASE EnvelopeElse
  <2>1. state' = state
    BY <1>3 DEF EnvelopeElse, SetPartials, BankGenerate, Generate, ProcessStep,
                engineVars, noteVars
  <2> QED
    BY <1>3, <2>1 DEF EnvelopeElse, phaseVars, LevelInv, EnvelopeTypeOK, LevelOf
<1>4. CASE UNCHANGED envVars
  BY <1>4 DEF envVars, oscVars, engineVars, noteVars, phaseVars, LevelInv,
              EnvelopeTypeOK, LevelOf
<1> QED
  BY <1>1, <1>2, <1>3, <1>4 DEF EnvelopeNext

LEMMA EnvelopeInvariance == EnvelopeSpec => [](NoteInv /\ LevelInv)
<1>1. EnvelopeInit => LevelInv
  <2> SUFFICES ASSUME EnvelopeInit PROVE LevelInv
    OBVIOUS
  <2>1. 0 \in 0 .. One
    BY PhaseAssumption DEF PhaseAssumption
  <2>2. /\ phase = [v \in Envelopes |-> 0]
        /\ level = [v \in Envelopes |-> 0]
        /\ state = [v \in Envelopes |-> "kInit"]
        /\ struck = FALSE
    BY DEF EnvelopeInit, OscInit, EngineInit, NoteInit
  <2>3. EnvelopeTypeOK
    BY <2>1, <2>2 DEF EnvelopeTypeOK
  <2>4. \A v \in Envelopes : level[v] = LevelOf(state[v], phase[v])
    BY <2>2 DEF LevelOf
  <2> QED
    BY <2>3, <2>4 DEF LevelInv
<1> QED
  BY <1>1, LevelStep, EnvelopeRefinesOsc, OscRefinesEngine, EngineRefinesKeys,
     NoteInvariance, PTL DEF EnvelopeSpec

\* Where no key has set a stage since the tick before, a tick moves the output
\* of an envelope by one increment at most, for any times and any increments.
THEOREM NoJumpHolds == EnvelopeSpec => NoJump
<1>1. NoteInv /\ LevelInv /\ [EnvelopeNext]_envVars =>
        [\A a, r \in [Envelopes -> Increments] :
           ~ struck /\ EnvelopeTick(a, r) =>
             \A v \in Envelopes : \E inc \in {a[v], r[v]} :
               level'[v] \in level[v] - inc .. level[v] + inc]_envVars
  <2> SUFFICES ASSUME NoteInv, LevelInv, ~ struck,
                      NEW a \in [Envelopes -> Increments],
                      NEW r \in [Envelopes -> Increments],
                      EnvelopeTick(a, r), NEW v \in Envelopes
               PROVE  \E inc \in {a[v], r[v]} :
                        level'[v] \in level[v] - inc .. level[v] + inc
    OBVIOUS
  <2>1. level[v] = LevelOf(state[v], phase[v])
    BY DEF LevelInv
  <2>2. level'[v] = Stage(state[v], phase[v], a[v], r[v]).level
    BY DEF EnvelopeTick
  <2> QED
    BY <2>1, <2>2, TickedSmooth DEF LevelInv
<1> QED
  BY <1>1, EnvelopeInvariance, PTL DEF EnvelopeSpec, NoJump

-----------------------------------------------------------------------------
(***************************************************************************)
(* The ring between the interrupt and UsbTask.                             *)
(***************************************************************************)
\* UsbTask holds the lock from here on.
Serving == {"next", "ifOn", "ifOff", "on", "off", "print", "unlock"}

\* The lock is with the task that has passed it and not yet given it back.
LockInv ==
  /\ usbPc \in Serving => lock = "usb"
  /\ audioPc = "process" => lock = "audio"

RingInv == /\ NoLostWakeup
           /\ LockInv

\* A call to the interrupt or a step of a task other than UsbTask.
Others == \/ \E packet \in Packet : DataIn(packet)
          \/ AudioWake \/ AudioLock \/ AudioTick \/ AudioUnlock
          \/ TestWrite \/ SerialDone

LEMMA OthersStep == RingInv /\ Others => RingInv'
<1> SUFFICES ASSUME RingInv, Others PROVE RingInv'
  OBVIOUS
<1> USE DEF RingInv, NoLostWakeup, LockInv, Serving
<1>1. CASE \E packet \in Packet : DataIn(packet)
  BY <1>1 DEF DataIn
<1>2. CASE AudioWake \/ AudioLock \/ AudioTick \/ AudioUnlock
  BY <1>2 DEF AudioWake, AudioLock, AudioTick, AudioUnlock, TakeLock, GiveLock, ringVars
<1>3. CASE TestWrite \/ SerialDone
  BY <1>3 DEF TestWrite, SerialDone, ringVars
<1> QED
  BY <1>1, <1>2, <1>3 DEF Others

\* The ring is seen empty before the lock is given back, and every packet since
\* has given the semaphore.
LEMMA UsbStep == RingInv /\ UsbTask => RingInv'
<1> SUFFICES ASSUME RingInv, UsbTask PROVE RingInv'
  OBVIOUS
<1> USE DEF RingInv, NoLostWakeup, LockInv, Serving, UsbGoes, AfterEvent
<1>1. CASE UsbWait \/ UsbLock
  BY <1>1 DEF UsbWait, UsbLock, TakeLock, ringVars
<1>2. CASE UsbFetch \/ UsbDrained
  BY <1>2 DEF UsbFetch, UsbDrained, ringVars
<1>3. CASE UsbTest
  BY <1>3 DEF UsbTest, ringVars
<1>4. CASE UsbPlay \/ UsbPrint
  BY <1>4 DEF UsbPlay, UsbPrint, ringVars
<1>5. CASE UsbUnlock
  BY <1>5 DEF UsbUnlock, GiveLock, ringVars
<1> QED
  BY <1>1, <1>2, <1>3, <1>4, <1>5 DEF UsbTask

THEOREM RingInvariance == MidiSpec => []RingInv
<1>1. MidiInit => RingInv
  BY DEF MidiInit, RingInv, NoLostWakeup, LockInv, Serving
<1>2. RingInv /\ UNCHANGED midiVars => RingInv'
  BY DEF midiVars, ringVars, RingInv, NoLostWakeup, LockInv, Serving
<1>3. RingInv /\ [MidiNext]_midiVars => RingInv'
  BY <1>2, OthersStep, UsbStep DEF MidiNext, Others
<1> QED
  BY <1>1, <1>3, PTL DEF MidiSpec

\* UsbTask never sleeps on unread events.
THEOREM NoLostWakeupHolds == MidiSpec => []NoLostWakeup
<1>1. RingInv => NoLostWakeup
  BY DEF RingInv
<1> QED
  BY <1>1, RingInvariance, PTL

\* No key is played while AudioTask processes a block.
THEOREM KeysBetweenBlocks == MidiSpec => [](audioPc = "process" => usbPc \notin Serving)
<1>1. RingInv => (audioPc = "process" => usbPc \notin Serving)
  BY DEF RingInv, LockInv
<1> QED
  BY <1>1, RingInvariance, PTL

-----------------------------------------------------------------------------
(***************************************************************************)
(* The slots.  The interrupt may write over the event UsbTask holds, and   *)
(* UsbTask reads the slot once for its kind and again for its note; but    *)
(* what the interrupt writes is always an event, never the padding of a    *)
(* packet, so the note read is one.                                        *)
(***************************************************************************)
\* What the handler stores of a packet ends before the padding.
LEMMA AcceptedAreEvents ==
  ASSUME NEW packet \in Packet
  PROVE  /\ Accepted(packet) \in Seq(Event)
         /\ Len(Accepted(packet)) \in Nat
         /\ DOMAIN Accepted(packet) = 1 .. Len(Accepted(packet))
         /\ \A j \in DOMAIN Accepted(packet) : Accepted(packet)[j] \in Event
<1> DEFINE S == {j \in 1 .. PacketSize : packet[j] = Padding} \cup {PacketSize + 1}
           k == Min(S) - 1
<1>1. PacketSize \in Nat
  BY PacketAssumption DEF PacketAssumption
<1>2. Min(S) \in S /\ \A y \in S : Min(S) <= y
  <2>1. S \in SUBSET Nat /\ S # {}
    BY <1>1
  <2> HIDE DEF S
  <2> QED
    BY <2>1, LeastExists
<1>3. k \in 0 .. PacketSize
  BY <1>1, <1>2
<1>4. \A j \in 1 .. k : packet[j] # Padding
  BY <1>1, <1>2
<1>5. Accepted(packet) = SubSeq(packet, 1, k)
  BY DEF Accepted
<1> HIDE DEF S, k
<1>6. packet \in Seq(Event \cup {Padding}) /\ Len(packet) = PacketSize
  BY <1>1 DEF Packet
<1>7. \A j \in 1 .. k : packet[j] \in Event
  BY <1>1, <1>3, <1>4 DEF Packet
<1>8. /\ SubSeq(packet, 1, k) \in Seq(Event)
      /\ Len(SubSeq(packet, 1, k)) = k
  BY <1>1, <1>3, <1>6, <1>7, SubSeqProperties
<1> QED
  BY <1>3, <1>5, <1>8

SlotsInv ==
  /\ slots \in [Positions -> Event \cup {Padding}]
  /\ rpos \in Positions /\ e \in Positions
  /\ usbPc \in {"on", "off"} => slots[e] \in Event

LEMMA DataInStoresEvents ==
  ASSUME SlotsInv, NEW packet \in Packet, DataIn(packet)
  PROVE  SlotsInv'
<1>1. ASSUME NEW k \in Positions
      PROVE  slots'[k] = slots[k] \/ slots'[k] \in Event
  <2> DEFINE a == Accepted(packet)
             js == {j \in DOMAIN a : (wpos + j - 1) % RingSize = k}
  <2>1. slots'[k] = IF js = {} THEN slots[k] ELSE a[Max(js)]
    BY DEF DataIn, Stored
  <2>2. ASSUME js # {}
        PROVE  a[Max(js)] \in Event
    <3>1. Len(a) \in Nat /\ DOMAIN a = 1 .. Len(a) /\ \A j \in DOMAIN a : a[j] \in Event
      BY AcceptedAreEvents
    <3>2. js \in SUBSET (1 .. Len(a))
      BY <3>1
    <3> HIDE DEF js, a
    <3>3. Max(js) \in js
      BY <2>2, <3>1, <3>2, GreatestExists
    <3> QED
      BY <3>1, <3>2, <3>3
  <2> QED
    BY <2>1, <2>2
<1>2. /\ slots' = [k \in Positions |-> slots'[k]]
      /\ UNCHANGED <<rpos, usbPc, e>>
  BY DEF DataIn, Stored
<1>3. slots' \in [Positions -> Event \cup {Padding}]
  BY <1>1, <1>2 DEF SlotsInv
<1> QED
  BY <1>1, <1>2, <1>3 DEF SlotsInv

LEMMA SlotsStep == SlotsInv /\ [MidiNext]_midiVars => SlotsInv'
<1> SUFFICES ASSUME SlotsInv, [MidiNext]_midiVars PROVE SlotsInv'
  OBVIOUS
<1>1. CASE \E packet \in Packet : DataIn(packet)
  BY <1>1, DataInStoresEvents
<1>2. CASE UsbFetch
  <2>1. /\ usbPc' = "ifOn" /\ slots' = slots
        /\ e' = rpos /\ rpos' = (rpos + 1) % RingSize
    BY <1>2 DEF UsbFetch, UsbGoes, FirstSlot, NextPos
  <2>2. rpos' \in Positions
    BY <2>1, RingAssumption DEF RingAssumption, SlotsInv, Positions
  <2> QED
    BY <2>1, <2>2 DEF SlotsInv, Positions
<1>3. CASE UsbTest
  <2>1. slots[e] \in Event \cup {Padding} /\ Padding.kind = "padding"
    BY DEF SlotsInv, Padding
  <2>2. slots[e].kind \in {"on", "off"} => slots[e] \in Event
    BY <2>1
  <2>3. /\ UNCHANGED <<slots, rpos, e>>
        /\ usbPc' = "on" => slots[e].kind = "on"
        /\ usbPc' = "off" => slots[e].kind = "off"
    BY <1>3 DEF UsbTest, UsbGoes, AfterEvent, ringVars
  <2> QED
    BY <2>2, <2>3 DEF SlotsInv, Positions
<1>4. CASE UsbWait \/ UsbLock \/ UsbDrained \/ UsbPlay \/ UsbPrint \/ UsbUnlock
  <2>1. UNCHANGED <<slots, rpos, e>> /\ usbPc' \notin {"on", "off"}
    BY <1>4 DEF UsbWait, UsbLock, UsbDrained, UsbPlay, UsbPrint, UsbUnlock, UsbGoes,
                AfterEvent, ringVars
  <2> QED
    BY <2>1 DEF SlotsInv, Positions
<1>5. CASE UNCHANGED <<slots, rpos, e, usbPc>>
  BY <1>5 DEF SlotsInv, Positions
<1>6. AudioWake \/ AudioLock \/ AudioTick \/ AudioUnlock \/ TestWrite \/ SerialDone
        => UNCHANGED <<slots, rpos, e, usbPc>>
  BY DEF AudioWake, AudioLock, AudioTick, AudioUnlock, TestWrite, SerialDone, ringVars
<1>7. UNCHANGED midiVars => UNCHANGED <<slots, rpos, e, usbPc>>
  BY DEF midiVars, ringVars
<1> QED
  BY <1>1, <1>2, <1>3, <1>4, <1>5, <1>6, <1>7 DEF MidiNext, UsbTask

\* Interrupts, the ring and the serial line leave the keys alone: whatever the
\* host sends, even into unread events, a step is a key, a Tick or nothing.
THEOREM MidiRefinesKeys == MidiSpec => NoteSpec
<1>1. MidiInit => NoteInit /\ SlotsInv
  BY RingAssumption
  DEF RingAssumption, MidiInit, SlotsInv, Positions
<1>2. SlotsInv /\ [MidiNext]_midiVars => [NoteNext]_noteVars
  <2> SUFFICES ASSUME SlotsInv, [MidiNext]_midiVars PROVE [NoteNext]_noteVars
    OBVIOUS
  <2>1. CASE UsbPlay
    <3>1. usbPc \in {"on", "off"} /\ (NoteOn(slots[e].note) \/ NoteOff(slots[e].note))
      BY <2>1 DEF UsbPlay, UsbGoes
    <3>2. slots[e].note \in Notes
      BY <3>1 DEF SlotsInv, Event
    <3> QED
      BY <3>1, <3>2 DEF NoteNext
  <2>2. CASE AudioTick
    BY <2>2 DEF AudioTick, NoteNext
  <2>3. CASE UNCHANGED noteVars
    BY <2>3
  <2>4. UsbTask => UsbPlay \/ UNCHANGED noteVars
    BY DEF UsbTask, UsbWait, UsbLock, UsbFetch, UsbDrained, UsbTest, UsbPrint, UsbUnlock,
           noteVars
  <2>5. (\E packet \in Packet : DataIn(packet)) => UNCHANGED noteVars
    BY DEF DataIn, noteVars
  <2>6. AudioWake \/ AudioLock \/ AudioUnlock \/ TestWrite \/ SerialDone => UNCHANGED noteVars
    BY DEF AudioWake, AudioLock, AudioUnlock, TestWrite, SerialDone, noteVars
  <2> QED
    BY <2>1, <2>2, <2>3, <2>4, <2>5, <2>6 DEF MidiNext, midiVars
<1>3. SlotsInv /\ [MidiNext]_midiVars => SlotsInv'
  BY SlotsStep
<1> QED
  BY <1>1, <1>2, <1>3, PTL DEF MidiSpec, NoteSpec

-----------------------------------------------------------------------------
(***************************************************************************)
(* FollowsHost: the stack keeps up with the keys of the host.              *)
(*                                                                         *)
(* FoldLeft is defined by a recursive function on sets of indices.  Here it *)
(* is shown to be the end of a run of single PlayKeys, hence to play a     *)
(* concatenation one part after the other.                                 *)
(***************************************************************************)
\* The stack after a sequence of events.
Played(b, s) == FoldLeft(PlayKey, b, s)

\* r goes through the stacks between them.
Run(r, b, s) == r[0] = b /\ \A k \in 1 .. Len(s) : r[k] = PlayKey(r[k - 1], s[k])

\* The function by which the fold over s is defined, on the indices up to n.
Iter(g, b, s, n) ==
  /\ g = [t \in SUBSET (1 .. n) |-> g[t]]
  /\ \A t \in SUBSET (1 .. n) :
       g[t] = IF t = {} THEN b ELSE PlayKey(g[t \ {Max(t)}], s[Max(t)])

LEMMA IterExists ==
  ASSUME NEW b, NEW s, NEW n \in Nat
  PROVE  \E g : Iter(g, b, s, n)
<1> DEFINE S == {m \in Nat : \E g : Iter(g, b, s, m)}
<1>1. 0 \in S
  <2>1. \A t \in SUBSET (1 .. 0) : t = {}
    OBVIOUS
  <2>2. Iter([t \in SUBSET (1 .. 0) |-> b], b, s, 0)
    BY <2>1, Zenon DEF Iter
  <2> QED
    BY <2>2
<1>2. ASSUME NEW m \in Nat, m \in S
      PROVE  m + 1 \in S
  <2>1. PICK g : Iter(g, b, s, m)
    BY <1>2
  <2> DEFINE h == [t \in SUBSET (1 .. m + 1) |->
                     IF m + 1 \in t THEN PlayKey(g[t \ {m + 1}], s[m + 1]) ELSE g[t]]
  <2>2. ASSUME NEW t \in SUBSET (1 .. m + 1)
        PROVE  h[t] = IF t = {} THEN b ELSE PlayKey(h[t \ {Max(t)}], s[Max(t)])
    <3>1. CASE m + 1 \in t
      <4>1. Max(t) = m + 1
        <5>1. \A y \in t : m + 1 >= y /\ y \in Nat
          OBVIOUS
        <5>2. \A x \in t : (\A y \in t : x >= y) => x = m + 1
          BY <3>1, <5>1
        <5> QED
          BY <3>1, <5>1, <5>2 DEF Max
      <4>2. t \ {m + 1} \in SUBSET (1 .. m + 1) /\ m + 1 \notin t \ {m + 1}
        OBVIOUS
      <4>3. h[t \ {m + 1}] = g[t \ {m + 1}]
        BY <4>2
      <4>4. h[t] = PlayKey(g[t \ {m + 1}], s[m + 1])
        BY <3>1, Zenon
      <4> HIDE DEF h
      <4> QED
        BY <3>1, <4>1, <4>3, <4>4, Zenon
    <3>2. CASE m + 1 \notin t
      <4>1. t \in SUBSET (1 .. m)
        BY <3>2
      <4>2. h[t] = g[t]
        BY <3>2
      <4>3. t \ {Max(t)} \in SUBSET (1 .. m + 1) /\ m + 1 \notin t \ {Max(t)}
        BY <3>2
      <4>4. h[t \ {Max(t)}] = g[t \ {Max(t)}]
        BY <4>3
      <4> HIDE DEF h
      <4>5. g[t] = IF t = {} THEN b ELSE PlayKey(g[t \ {Max(t)}], s[Max(t)])
        BY <2>1, <4>1, Zenon DEF Iter
      <4> QED
        BY <4>2, <4>4, <4>5, Zenon
    <3> QED
      BY <3>1, <3>2
  <2>3. h = [t \in SUBSET (1 .. m + 1) |-> h[t]]
    OBVIOUS
  <2> HIDE DEF h
  <2>4. Iter(h, b, s, m + 1)
    BY <2>2, <2>3, Zenon DEF Iter
  <2> QED
    BY <2>4
<1> HIDE DEF S
<1>3. n \in S
  BY <1>1, <1>2, Induction
<1> QED
  BY <1>3 DEF S

LEMMA FoldRun ==
  ASSUME NEW b, NEW X, NEW s \in Seq(X)
  PROVE  \E r : Run(r, b, s) /\ Played(b, s) = r[Len(s)]
<1> DEFINE n == Len(s)
           F(g) == [t \in SUBSET (1 .. n) |->
                      IF t = {} THEN b ELSE PlayKey(g[t \ {Max(t)}], s[Max(t)])]
           f == CHOOSE g : g = F(g)
           r == [k \in 0 .. n |-> f[1 .. k]]
<1>1. n \in Nat /\ DOMAIN s = 1 .. n
  OBVIOUS
<1>2. Played(b, s) = (CHOOSE g : g = [t \in SUBSET (DOMAIN s) |->
                      IF t = {} THEN b ELSE PlayKey(g[t \ {Max(t)}], s[Max(t)])])[DOMAIN s]
  BY Zenon DEF Played, FoldLeft, MapThenFoldSet
<1>3. Played(b, s) = f[1 .. n]
  BY <1>1, <1>2, Zenon
<1> HIDE DEF n
<1>4. \E g : g = F(g)
  <2>1. PICK g : Iter(g, b, s, n)
    BY <1>1, IterExists
  <2>2. g = F(g)
    BY <2>1, Zenon DEF Iter
  <2> QED
    BY <2>2, Zenon
<1>5. f = F(f)
  <2> HIDE DEF F
  <2> QED
    BY <1>4
<1> HIDE DEF f
<1>6. \A t \in SUBSET (1 .. n) :
        f[t] = IF t = {} THEN b ELSE PlayKey(f[t \ {Max(t)}], s[Max(t)])
  <2> SUFFICES ASSUME NEW t \in SUBSET (1 .. n)
      PROVE f[t] = IF t = {} THEN b ELSE PlayKey(f[t \ {Max(t)}], s[Max(t)])
    OBVIOUS
  <2>1. f[t] = F(f)[t]
    BY <1>5, Zenon
  <2> QED
    BY <2>1, Zenon
<1>7. r[0] = b
  <2>1. 1 .. 0 = {} /\ 0 \in 0 .. n
    BY <1>1
  <2>2. r[0] = f[{}]
    BY <2>1
  <2> QED
    BY <1>6, <2>2
<1>8. ASSUME NEW k \in 1 .. n
      PROVE  r[k] = PlayKey(r[k - 1], s[k])
  <2>1. k \in 0 .. n /\ k - 1 \in 0 .. n /\ 1 .. k \in SUBSET (1 .. n) /\ 1 .. k # {}
    BY <1>1
  <2>2. Max(1 .. k) = k
    <3>1. k \in 1 .. k /\ \A x \in 1 .. k : k >= x
      BY <1>1
    <3>2. \A x \in 1 .. k : (\A y \in 1 .. k : x >= y) => x = k
      BY <1>1
    <3> QED
      BY <3>1, <3>2 DEF Max
  <2>3. (1 .. k) \ {k} = 1 .. k - 1
    BY <1>1
  <2>4. f[1 .. k] = PlayKey(f[(1 .. k) \ {k}], s[k])
    BY <1>6, <2>1, <2>2, Zenon
  <2>5. r[k] = f[1 .. k] /\ r[k - 1] = f[1 .. k - 1]
    BY <2>1
  <2> HIDE DEF r
  <2> QED
    BY <2>3, <2>4, <2>5, Zenon
<1>9. r[n] = f[1 .. n]
  BY <1>1
<1> HIDE DEF r
<1> QED
  BY <1>3, <1>7, <1>8, <1>9, Zenon DEF n, Run

\* Any such run ends in the stack the fold computes.
LEMMA RunEnds ==
  ASSUME NEW b, NEW X, NEW s \in Seq(X), NEW r, Run(r, b, s)
  PROVE  Played(b, s) = r[Len(s)]
<1>1. PICK q : Run(q, b, s) /\ Played(b, s) = q[Len(s)]
  BY FoldRun
<1> DEFINE S == {k \in Nat : k <= Len(s) => q[k] = r[k]}
<1>2. 0 \in S
  BY <1>1 DEF Run
<1>3. ASSUME NEW k \in Nat, k \in S
      PROVE  k + 1 \in S
  <2> SUFFICES ASSUME k + 1 <= Len(s) PROVE q[k + 1] = r[k + 1]
    OBVIOUS
  <2>1. k + 1 \in 1 .. Len(s) /\ (k + 1) - 1 = k /\ q[k] = r[k]
    BY <1>3
  <2>2. /\ q[k + 1] = PlayKey(q[(k + 1) - 1], s[k + 1])
        /\ r[k + 1] = PlayKey(r[(k + 1) - 1], s[k + 1])
    BY <1>1, <2>1, Zenon DEF Run
  <2> QED
    BY <2>1, <2>2, Zenon
<1> HIDE DEF S
<1>4. Len(s) \in S
  BY <1>2, <1>3, Induction
<1> QED
  BY <1>1, <1>4 DEF S

LEMMA PlayedNothing ==
  ASSUME NEW b
  PROVE  Played(b, <<>>) = b
<1>1. Run([k \in {0} |-> b], b, <<>>)
  BY DEF Run
<1> QED
  BY <1>1, RunEnds

LEMMA PlayedOne ==
  ASSUME NEW b, NEW ev
  PROVE  Played(b, <<ev>>) = PlayKey(b, ev)
<1> DEFINE r == [k \in {0, 1} |-> IF k = 0 THEN b ELSE PlayKey(b, ev)]
<1>1. r[0] = b /\ r[1] = PlayKey(b, ev)
  OBVIOUS
<1> HIDE DEF r
<1>2. <<ev>> \in Seq({ev}) /\ Len(<<ev>>) = 1 /\ <<ev>>[1] = ev
  OBVIOUS
<1>3. Run(r, b, <<ev>>)
  <2> SUFFICES ASSUME NEW k \in 1 .. 1 PROVE r[k] = PlayKey(r[k - 1], <<ev>>[k])
    BY <1>1, <1>2, Zenon DEF Run
  <2>1. k = 1 /\ k - 1 = 0
    OBVIOUS
  <2> QED
    BY <1>1, <1>2, <2>1, Zenon
<1> QED
  BY <1>1, <1>2, <1>3, RunEnds, Zenon

LEMMA PlayedConcat ==
  ASSUME NEW b, NEW X, NEW s \in Seq(X), NEW u \in Seq(X)
  PROVE  Played(b, s \o u) = Played(Played(b, s), u)
<1>1. PICK p : Run(p, b, s) /\ Played(b, s) = p[Len(s)]
  BY FoldRun
<1>2. PICK q : Run(q, Played(b, s), u) /\ Played(Played(b, s), u) = q[Len(u)]
  BY FoldRun
<1> DEFINE m == Len(s)
           n == Len(u)
           r == [k \in 0 .. m + n |-> IF k <= m THEN p[k] ELSE q[k - m]]
<1>3. /\ m \in Nat /\ n \in Nat
      /\ s \o u \in Seq(X) /\ Len(s \o u) = m + n
      /\ \A k \in 1 .. m + n : (s \o u)[k] = IF k <= m THEN s[k] ELSE u[k - m]
  OBVIOUS
<1>4. r[0] = b
  BY <1>1, <1>3 DEF Run
<1>5. ASSUME NEW k \in 1 .. m + n
      PROVE  r[k] = PlayKey(r[k - 1], (s \o u)[k])
  <2>1. k \in 0 .. m + n /\ k - 1 \in 0 .. m + n
    BY <1>3
  <2>2. CASE k <= m
    <3>1. k \in 1 .. m /\ k - 1 <= m
      BY <1>3, <2>2
    <3>2. r[k] = p[k] /\ r[k - 1] = p[k - 1] /\ (s \o u)[k] = s[k]
      BY <1>3, <2>1, <2>2, <3>1
    <3>3. p[k] = PlayKey(p[k - 1], s[k])
      BY <1>1, <3>1 DEF Run
    <3> HIDE DEF r
    <3> QED
      BY <3>2, <3>3, Zenon
  <2>3. CASE k > m
    <3>1. k - m \in 1 .. n /\ ~ (k <= m) /\ (k - m) - 1 = (k - 1) - m
      BY <1>3, <2>3
    <3>2. r[k] = q[k - m] /\ (s \o u)[k] = u[k - m]
      BY <1>3, <2>1, <3>1
    <3>3. q[k - m] = PlayKey(q[(k - m) - 1], u[k - m])
      BY <1>2, <3>1, Zenon DEF Run
    <3>4. r[k - 1] = q[(k - 1) - m]
      <4>1. CASE k - 1 = m
        <5>1. r[k - 1] = p[m] /\ (k - 1) - m = 0
          BY <1>3, <2>1, <4>1
        <5>2. q[0] = p[m]
          BY <1>1, <1>2 DEF Run
        <5> QED
          BY <5>1, <5>2
      <4>2. CASE k - 1 # m
        <5>1. ~ (k - 1 <= m)
          BY <1>3, <2>3, <4>2
        <5> QED
          BY <2>1, <5>1
      <4> QED
        BY <4>1, <4>2
    <3> HIDE DEF r
    <3> QED
      BY <3>1, <3>2, <3>3, <3>4, Zenon
  <2> QED
    BY <1>3, <2>2, <2>3
<1>6. r[m + n] = q[n]
  <2>1. CASE n = 0
    <3>1. r[m + n] = p[m]
      BY <1>3, <2>1
    <3>2. q[0] = p[m]
      BY <1>1, <1>2 DEF Run
    <3> QED
      BY <2>1, <3>1, <3>2
  <2>2. CASE n # 0
    BY <1>3, <2>2
  <2> QED
    BY <2>1, <2>2
<1> HIDE DEF r, m, n
<1>7. Run(r, b, s \o u)
  BY <1>3, <1>4, <1>5, Zenon DEF Run
<1>8. Played(b, s \o u) = r[m + n]
  BY <1>3, <1>7, RunEnds, Zenon
<1> QED
  BY <1>2, <1>6, <1>8, Zenon DEF n

-----------------------------------------------------------------------------
(***************************************************************************)
(* The invariant: the unread events are events, the one in hand is still in *)
(* the slot behind rpos_, and UsbTask has tested it so far.                *)
(***************************************************************************)
\* What UsbTask has taken out of the ring and not handled yet.
InHand == usbPc \in {"ifOn", "ifOff", "on", "off"}

\* The events in the ring, the first one UsbTask will read in front.
Unread == [j \in 1 .. Backlog |-> slots[(rpos + j - 1) % RingSize]]

\* The slot in hand is the one behind rpos_, and tested as far as UsbTask is.
HandInv ==
  InHand => /\ e = (rpos - 1) % RingSize
            /\ slots[e] \in Event
            /\ usbPc = "ifOff" => slots[e].kind # "on"
            /\ usbPc \in {"on", "off"} => slots[e].kind = usbPc

HostInv ==
  /\ wpos \in Positions
  /\ lapped \in BOOLEAN
  /\ ~ lapped => /\ Unread \in Seq(Event)
                 /\ HandInv
                 /\ FollowsHost

\* Erasing a note is what PlayKey does with it.
LEMMA ErasedFirst ==
  ASSUME NEW n, NoteTypeOK
  PROVE  Erased(n) = RemoveFirst(noteStack, n)
<1>1. DOMAIN noteStack = 1 .. Len(noteStack)
  BY DEF NoteTypeOK
<1>2. Found(n) = {i \in 1 .. Len(noteStack) : noteStack[i] = n}
  BY <1>1, Zenon DEF Found
<1>3. (Found(n) = {}) <=> ~ \E i \in 1 .. Len(noteStack) : noteStack[i] = n
  BY <1>2, Zenon
<1>4. CASE Found(n) = {}
  BY <1>3, <1>4, Zenon DEF Erased, RemoveFirst
<1>5. CASE Found(n) # {}
  <2>1. SelectInSeq(noteStack, LAMBDA v : v = n) = Min(Found(n))
    BY <1>2, <1>5, Zenon DEF SelectInSeq
  <2> QED
    BY <1>3, <1>5, <2>1, Zenon DEF Erased, RemoveFirst
<1> QED
  BY <1>4, <1>5

LEMMA BacklogBounds ==
  ASSUME rpos \in Positions, wpos \in Positions
  PROVE  /\ Backlog \in 0 .. RingSize - 1
         /\ Backlog = IF wpos < rpos THEN wpos - rpos + RingSize ELSE wpos - rpos
<1>1. RingSize \in Nat /\ RingSize > 0
  BY RingAssumption DEF RingAssumption
<1> QED
  BY <1>1, Wraps DEF Backlog, Positions

\* Handling the event in hand leaves the unread ones to be played.
LEMMA HandPlayed ==
  ASSUME InHand, FollowsHost, ~ lapped, Unread \in Seq(Event), slots[e] \in Event
  PROVE  hostStack = Played(PlayKey(noteStack, slots[e]), Unread)
<1>1. Unplayed = <<slots[e]>> \o Unread
  BY DEF Unplayed, InHand, Unread
<1>2. <<slots[e]>> \in Seq(Event)
  OBVIOUS
<1>3. hostStack = Played(noteStack, <<slots[e]>> \o Unread)
  BY <1>1 DEF FollowsHost, Played
<1>4. \A s, u \in Seq(Event) : Played(noteStack, s \o u) = Played(Played(noteStack, s), u)
  BY PlayedConcat
<1>5. hostStack = Played(Played(noteStack, <<slots[e]>>), Unread)
  BY <1>2, <1>3, <1>4
<1> QED
  BY <1>5, PlayedOne

LEMMA NoneInHand ==
  ASSUME ~ InHand, Unread \in Seq(Event)
  PROVE  Unplayed = Unread
<1>1. Unplayed = <<>> \o Unread
  BY DEF Unplayed, InHand, Unread
<1> QED
  BY <1>1

\* A step that touches neither the ring, the hand nor the keys.
LEMMA HostIdle ==
  ASSUME HostInv,
         UNCHANGED <<slots, rpos, wpos, e, lapped, hostStack, noteStack>>,
         usbPc' = usbPc \/ (~ InHand /\ ~ InHand')
  PROVE  HostInv'
<1>1. Unread' = Unread /\ Backlog' = Backlog /\ Positions' = Positions
  BY DEF Unread, Backlog, Positions
<1>2. Unplayed' = Unplayed
  BY <1>1 DEF Unplayed, InHand, Unread
<1>3. FollowsHost' <=> FollowsHost
  BY <1>2 DEF FollowsHost
<1>4. HandInv => HandInv'
  BY DEF HandInv, InHand
<1> QED
  BY <1>1, <1>3, <1>4 DEF HostInv

\* An event handled: the next one is still in the ring.
LEMMA HostHandled ==
  ASSUME HostInv, InHand, ~ InHand',
         noteStack' = PlayKey(noteStack, slots[e]),
         UNCHANGED <<slots, rpos, wpos, lapped, hostStack>>
  PROVE  HostInv'
<1>1. Unread' = Unread /\ Positions' = Positions
  BY DEF Unread, Backlog, Positions
<1>2. ASSUME ~ lapped
      PROVE  Unread' \in Seq(Event) /\ HandInv' /\ FollowsHost'
  <2>1. Unread \in Seq(Event) /\ HandInv /\ FollowsHost /\ slots[e] \in Event
    BY <1>2 DEF HostInv, HandInv
  <2>2. Unplayed' = Unread
    <3>1. Unplayed' = <<>> \o Unread'
      BY DEF Unplayed, InHand, Unread
    <3> QED
      BY <1>1, <2>1, <3>1
  <2>3. hostStack = Played(noteStack', Unread)
    BY <1>2, <2>1, HandPlayed
  <2>4. FollowsHost'
    BY <2>2, <2>3 DEF FollowsHost, Played
  <2> QED
    BY <1>1, <2>1, <2>4 DEF HandInv
<1> QED
  BY <1>1, <1>2 DEF HostInv

LEMMA HostTest ==
  ASSUME HostInv, UsbTest
  PROVE  HostInv'
<1>1. UNCHANGED <<slots, rpos, wpos, e, lapped, hostStack, noteStack>>
  BY DEF UsbTest, ringVars, hostVars, noteVars
<1>2. InHand
  BY DEF UsbTest, UsbGoes, InHand
<1>3. CASE UsbGoes("ifOff", AfterEvent) /\ slots[e].kind # "off"
  <2>1. ~ InHand'
    BY <1>3 DEF UsbGoes, AfterEvent, InHand
  <2>2. CASE lapped
    BY <1>1, <2>2 DEF HostInv, Positions
  <2>3. CASE ~ lapped
    <3>1. slots[e].kind # "on"
      BY <1>2, <1>3, <2>3 DEF HostInv, HandInv, UsbGoes
    <3>2. noteStack' = PlayKey(noteStack, slots[e])
      BY <1>1, <1>3, <3>1 DEF PlayKey
    <3> QED
      BY <1>1, <1>2, <2>1, <3>2, HostHandled
  <2> QED
    BY <2>2, <2>3, HostInv DEF HostInv
<1>4. CASE \/ UsbGoes("ifOn", "on") /\ slots[e].kind = "on"
           \/ UsbGoes("ifOn", "ifOff") /\ slots[e].kind # "on"
           \/ UsbGoes("ifOff", "off") /\ slots[e].kind = "off"
  <2>1. InHand' /\ usbPc' \in {"on", "off", "ifOff"}
    BY <1>4 DEF UsbGoes, InHand
  <2>2. Unread' = Unread /\ Positions' = Positions
    BY <1>1 DEF Unread, Backlog, Positions
  <2>3. Unplayed' = Unplayed
    BY <1>1, <1>2, <2>1, <2>2 DEF Unplayed, InHand, Unread
  <2>4. FollowsHost' <=> FollowsHost
    BY <1>1, <2>3 DEF FollowsHost
  <2>5. HandInv => HandInv'
    <3>1. /\ usbPc' = "ifOff" => slots[e].kind # "on"
          /\ usbPc' \in {"on", "off"} => slots[e].kind = usbPc'
      BY <1>4 DEF UsbGoes
    <3> QED
      BY <1>1, <1>2, <3>1 DEF HandInv
  <2> QED
    BY <1>1, <2>2, <2>4, <2>5 DEF HostInv
<1> QED
  BY <1>3, <1>4 DEF UsbTest

LEMMA HostPlay ==
  ASSUME HostInv, NoteTypeOK, UsbPlay
  PROVE  HostInv'
<1>1. UNCHANGED <<slots, rpos, wpos, e, lapped, hostStack>>
  BY DEF UsbPlay, ringVars, hostVars
<1>2. InHand /\ ~ InHand'
  BY DEF UsbPlay, UsbGoes, InHand
<1>3. CASE lapped
  BY <1>1, <1>3 DEF HostInv, Positions
<1>4. CASE ~ lapped
  <2>1. slots[e].kind = usbPc
    BY <1>2, <1>4 DEF HostInv, HandInv, UsbPlay, UsbGoes
  <2>2. Erased(slots[e].note) = RemoveFirst(noteStack, slots[e].note)
    BY ErasedFirst
  <2>3. noteStack' = PlayKey(noteStack, slots[e])
    BY <2>1, <2>2 DEF UsbPlay, UsbGoes, NoteOn, NoteOff, NoteEnqueue, PlayKey
  <2> QED
    BY <1>1, <1>2, <2>3, HostHandled
<1> QED
  BY <1>3, <1>4 DEF HostInv

\* The first unread event goes into the hand.
LEMMA HostFetch ==
  ASSUME HostInv, SlotsInv, UsbFetch
  PROVE  HostInv'
<1>1. /\ UNCHANGED <<slots, wpos, lapped, hostStack, noteStack>>
      /\ usbPc = "next" /\ usbPc' = "ifOn" /\ rpos # wpos
      /\ e' = rpos /\ rpos' = (rpos + 1) % RingSize
  BY DEF UsbFetch, UsbGoes, FirstSlot, NextPos, hostVars, noteVars
<1>2. RingSize \in Nat /\ RingSize > 1 /\ rpos \in 0 .. RingSize - 1 /\ wpos \in 0 .. RingSize - 1
  BY RingAssumption DEF RingAssumption, SlotsInv, HostInv, Positions
<1>3. rpos' = IF rpos + 1 < RingSize THEN rpos + 1 ELSE rpos + 1 - RingSize
  BY <1>1, <1>2, Wraps
<1>4. rpos' \in Positions /\ wpos' \in Positions
  BY <1>1, <1>2, <1>3 DEF Positions
<1>5. Backlog \in 1 .. RingSize - 1 /\ Backlog' = Backlog - 1
  <2>1. Backlog = IF wpos < rpos THEN wpos - rpos + RingSize ELSE wpos - rpos
    BY <1>2, BacklogBounds DEF Positions
  <2>2. Backlog' = (wpos - rpos') % RingSize
    BY <1>1 DEF Backlog
  <2>3. Backlog' = IF wpos < rpos' THEN wpos - rpos' + RingSize ELSE wpos - rpos'
    BY <1>2, <1>3, <2>2, Wraps
  <2> QED
    BY <1>1, <1>2, <1>3, <2>1, <2>3
<1>6. e' = (rpos' - 1) % RingSize
  BY <1>1, <1>2, <1>3, Wraps
<1>7. ASSUME NEW j \in 1 .. Backlog - 1
      PROVE  (rpos' + j - 1) % RingSize = (rpos + (j + 1) - 1) % RingSize
  <2>1. /\ rpos' + j - 1 >= - RingSize /\ rpos' + j - 1 < 2 * RingSize
        /\ rpos + j >= - RingSize /\ rpos + j < 2 * RingSize
        /\ rpos' + j - 1 \in Int /\ rpos + j \in Int
    BY <1>2, <1>3, <1>5
  <2>2. (rpos' + j - 1) % RingSize = (rpos + j) % RingSize
    BY <1>2, <1>3, <1>5, <2>1, Wraps
  <2> QED
    BY <1>2, <2>2
<1>8. ASSUME ~ lapped
      PROVE  Unread' \in Seq(Event) /\ HandInv' /\ FollowsHost'
  <2>1. Unread \in Seq(Event) /\ Len(Unread) = Backlog /\ FollowsHost
    BY <1>5, <1>8 DEF HostInv, Unread
  <2>2. Unread[1] = slots[rpos]
    <3>1. (rpos + 1 - 1) % RingSize = rpos
      BY <1>2, Wraps
    <3> QED
      BY <1>5, <3>1 DEF Unread
  <2>3. slots[rpos] \in Event
    BY <1>5, <2>1, <2>2
  <2>4. Unread' = [j \in 1 .. Backlog - 1 |-> Unread[j + 1]]
    <3>1. Unread' = [j \in 1 .. Backlog - 1 |-> slots[(rpos' + j - 1) % RingSize]]
      BY <1>1, <1>5, Zenon DEF Unread
    <3>2. \A j \in 1 .. Backlog - 1 : Unread[j + 1] = slots[(rpos + (j + 1) - 1) % RingSize]
      BY <1>5 DEF Unread
    <3> QED
      BY <1>7, <3>1, <3>2
  <2>5. /\ Unread' \in Seq(Event)
        /\ Unread = <<slots[rpos]>> \o Unread'
    <3>1. Backlog - 1 \in Nat /\ \A j \in 1 .. Backlog - 1 : Unread[j + 1] \in Event
      BY <1>5, <2>1
    <3>2. Unread' \in Seq(Event) /\ Len(Unread') = Backlog - 1
      BY <2>4, <3>1
    <3>3. /\ <<slots[rpos]>> \o Unread' \in Seq(Event)
          /\ Len(<<slots[rpos]>> \o Unread') = Backlog
      BY <1>5, <2>3, <3>2
    <3>4. ASSUME NEW j \in 1 .. Backlog
          PROVE  Unread[j] = (<<slots[rpos]>> \o Unread')[j]
      BY <1>5, <2>1, <2>2, <2>3, <2>4, <3>2
    <3> QED
      BY <2>1, <3>2, <3>3, <3>4, SeqEqual
  <2>6. Unplayed = Unread
    BY <1>1, <2>1, NoneInHand DEF InHand
  <2>7. Unplayed' = <<slots[rpos]>> \o Unread'
    BY <1>1 DEF Unplayed, Unread
  <2>8. FollowsHost'
    BY <1>1, <2>1, <2>5, <2>6, <2>7 DEF FollowsHost
  <2>9. HandInv'
    BY <1>1, <1>6, <2>3 DEF HandInv
  <2> QED
    BY <2>5, <2>8, <2>9
<1> QED
  BY <1>1, <1>4, <1>8 DEF HostInv

\* Where the handler stores the events of a packet that fits: behind the unread
\* ones, which stay, and so does the slot before them.
LEMMA StoredWhere ==
  ASSUME rpos \in Positions, wpos \in Positions, NEW a \in Seq(Event),
         Backlog + Len(a) < RingSize, NEW i \in -1 .. Backlog + Len(a) - 1
  PROVE  Stored(a)[(rpos + i) % RingSize] =
           IF i < Backlog THEN slots[(rpos + i) % RingSize] ELSE a[i - Backlog + 1]
<1> DEFINE n == Len(a)
           k == (rpos + i) % RingSize
           js == {j \in DOMAIN a : (wpos + j - 1) % RingSize = k}
<1>1. /\ RingSize \in Nat /\ RingSize > 1 /\ n \in Nat /\ DOMAIN a = 1 .. n
      /\ rpos \in 0 .. RingSize - 1 /\ wpos \in 0 .. RingSize - 1
  BY RingAssumption DEF RingAssumption, Positions
<1>2. /\ Backlog \in 0 .. RingSize - 1
      /\ Backlog = IF wpos < rpos THEN wpos - rpos + RingSize ELSE wpos - rpos
  BY BacklogBounds
<1> HIDE DEF n
<1>3. k = IF rpos + i < 0 THEN rpos + i + RingSize
          ELSE IF rpos + i < RingSize THEN rpos + i ELSE rpos + i - RingSize
  <2>1. rpos + i \in Int /\ - RingSize <= rpos + i /\ rpos + i < 2 * RingSize
    BY <1>1, <1>2 DEF n
  <2> QED
    BY <1>1, <2>1, Wraps
<1>4. k \in Positions
  BY <1>1, <1>2, <1>3 DEF Positions, n
<1>5. Stored(a)[k] = IF js = {} THEN slots[k] ELSE a[Max(js)]
  BY <1>4 DEF Stored
<1> HIDE DEF k
<1>6. ASSUME NEW j \in 1 .. n
      PROVE  (wpos + j - 1) % RingSize = k <=> j = i - Backlog + 1
  <2> DEFINE w == wpos + j - 1
  <2>1. w \in Int /\ - RingSize <= w /\ w < 2 * RingSize /\ w >= 0
    BY <1>1, <1>2 DEF n
  <2>2. w % RingSize = IF w < RingSize THEN w ELSE w - RingSize
    BY <1>1, <2>1, Wraps
  <2> QED
    BY <1>1, <1>2, <1>3, <2>2 DEF n
<1>7. CASE i < Backlog
  <2>1. js = {}
    BY <1>1, <1>2, <1>6, <1>7
  <2> QED
    BY <1>5, <1>7, <2>1 DEF k
<1>8. CASE ~ (i < Backlog)
  <2>1. i - Backlog + 1 \in 1 .. n
    BY <1>1, <1>2, <1>8 DEF n
  <2>2. js = {i - Backlog + 1}
    BY <1>1, <1>6, <2>1
  <2>3. Max(js) \in js
    BY <1>1, <2>1, <2>2, GreatestExists
  <2> QED
    BY <1>5, <1>8, <2>2, <2>3 DEF k
<1> QED
  BY <1>7, <1>8

\* A packet joins the unread events on both sides, unless it runs into them.
LEMMA HostDataIn ==
  ASSUME HostInv, SlotsInv, NEW packet \in Packet, DataIn(packet)
  PROVE  HostInv'
<1> DEFINE a == Accepted(packet)
<1>1. a \in Seq(Event) /\ Len(a) \in Nat
  BY AcceptedAreEvents
<1>2. /\ slots' = Stored(a)
      /\ wpos' = (wpos + Len(a)) % RingSize
      /\ hostStack' = Played(hostStack, a)
      /\ lapped' = (lapped \/ Backlog + Len(a) >= RingSize)
      /\ UNCHANGED <<rpos, e, usbPc, noteStack>>
  BY DEF DataIn, Played, noteVars
<1> HIDE DEF a
<1>3. RingSize \in Nat /\ RingSize > 1 /\ rpos \in 0 .. RingSize - 1 /\ wpos \in 0 .. RingSize - 1
  BY RingAssumption DEF RingAssumption, SlotsInv, HostInv, Positions
<1>4. wpos' \in Positions
  BY <1>1, <1>2, <1>3 DEF Positions
<1>5. lapped' \in BOOLEAN
  BY <1>2
<1>6. ASSUME ~ lapped'
      PROVE  Unread' \in Seq(Event) /\ HandInv' /\ FollowsHost'
  <2>1. ~ lapped /\ Unread \in Seq(Event) /\ HandInv /\ FollowsHost
    BY <1>2, <1>6 DEF HostInv
  <2>2. /\ Backlog \in 0 .. RingSize - 1
        /\ Backlog = IF wpos < rpos THEN wpos - rpos + RingSize ELSE wpos - rpos
    BY <1>3, BacklogBounds DEF Positions
  <2>3. Backlog + Len(a) < RingSize
    <3>1. ~ (Backlog + Len(a) >= RingSize)
      BY <1>2, <1>6, Zenon
    <3> QED
      BY <1>1, <1>3, <2>2, <3>1
  <2>4. Backlog' = Backlog + Len(a)
    <3>1. wpos + Len(a) \in Int /\ 0 <= wpos + Len(a) /\ wpos + Len(a) < 2 * RingSize
      BY <1>1, <1>3, <2>2, <2>3
    <3>2. wpos' = IF wpos + Len(a) < RingSize THEN wpos + Len(a) ELSE wpos + Len(a) - RingSize
      BY <1>2, <1>3, <3>1, Wraps
    <3>3. Backlog' = (wpos' - rpos) % RingSize
      BY <1>2 DEF Backlog
    <3>4. Backlog' = IF wpos' < rpos THEN wpos' - rpos + RingSize ELSE wpos' - rpos
      BY <1>3, <1>4, <3>3, Wraps DEF Positions
    <3> QED
      BY <1>1, <1>3, <2>2, <2>3, <3>2, <3>4
  <2>5. ASSUME NEW i \in -1 .. Backlog + Len(a) - 1
        PROVE  slots'[(rpos + i) % RingSize] =
                 IF i < Backlog THEN slots[(rpos + i) % RingSize] ELSE a[i - Backlog + 1]
    BY <1>1, <1>2, <1>3, <2>3, StoredWhere DEF Positions
  <2>6. Unread' = Unread \o a
    <3>1. Unread' = [j \in 1 .. Backlog + Len(a) |-> slots'[(rpos + j - 1) % RingSize]]
      BY <1>2, <2>4, Zenon DEF Unread
    <3>2. Len(Unread) = Backlog
      BY <2>2 DEF Unread
    <3>3. ASSUME NEW j \in 1 .. Backlog + Len(a)
          PROVE  slots'[(rpos + j - 1) % RingSize] = (Unread \o a)[j]
      <4>1. j - 1 \in -1 .. Backlog + Len(a) - 1 /\ rpos + (j - 1) = rpos + j - 1
        BY <1>1, <1>3, <2>2
      <4>2. slots'[(rpos + j - 1) % RingSize] =
              IF j - 1 < Backlog THEN slots[(rpos + j - 1) % RingSize]
              ELSE a[(j - 1) - Backlog + 1]
        BY <2>5, <4>1
      <4>3. (Unread \o a)[j] = IF j <= Backlog THEN Unread[j] ELSE a[j - Backlog]
        BY <1>1, <2>1, <2>2, <3>2
      <4>4. j <= Backlog => Unread[j] = slots[(rpos + j - 1) % RingSize]
        BY <2>2 DEF Unread
      <4>5. (j - 1) - Backlog + 1 = j - Backlog /\ (j - 1 < Backlog <=> j <= Backlog)
        BY <2>2
      <4> QED
        BY <4>2, <4>3, <4>4, <4>5
    <3>4. /\ Unread \o a \in Seq(Event) /\ Len(Unread \o a) = Backlog + Len(a)
      BY <1>1, <2>1, <3>2
    <3>5. \A j \in 1 .. Backlog + Len(a) : (Unread \o a)[j] \in Event
      BY <3>4
    <3>6. Backlog + Len(a) \in Nat
      BY <1>1, <2>2
    <3>7. Unread' \in Seq(Event) /\ Len(Unread') = Backlog + Len(a)
      <4>1. \A j \in 1 .. Backlog + Len(a) : slots'[(rpos + j - 1) % RingSize] \in Event
        BY <3>3, <3>5
      <4> QED
        BY <3>1, <3>6, <4>1
    <3>8. \A j \in 1 .. Len(Unread') : Unread'[j] = (Unread \o a)[j]
      BY <3>1, <3>3, <3>6, <3>7
    <3> QED
      BY <3>4, <3>7, <3>8, SeqEqual
  <2>7. InHand => slots'[e] = slots[e]
    <3>1. -1 \in -1 .. Backlog + Len(a) - 1 /\ -1 < Backlog /\ rpos + (-1) = rpos - 1
      BY <1>1, <1>3, <2>2
    <3>2. slots'[(rpos - 1) % RingSize] = slots[(rpos - 1) % RingSize]
      BY <2>5, <3>1
    <3> QED
      BY <2>1, <3>2 DEF HandInv
  <2> DEFINE hand == IF InHand THEN <<slots[e]>> ELSE <<>>
  <2>8. hand \in Seq(Event)
    BY <2>1 DEF HandInv
  <2>9. Unplayed = hand \o Unread /\ Unplayed' = hand \o Unread'
    BY <1>2, <2>7 DEF Unplayed, InHand, Unread
  <2> HIDE DEF hand
  <2>10. Unplayed' = Unplayed \o a /\ Unplayed \in Seq(Event)
    BY <1>1, <2>1, <2>6, <2>8, <2>9
  <2>11. FollowsHost'
    <3>1. \A s, u \in Seq(Event) : Played(noteStack, s \o u) = Played(Played(noteStack, s), u)
      BY PlayedConcat
    <3>2. Played(noteStack, Unplayed') = Played(Played(noteStack, Unplayed), a)
      BY <1>1, <2>10, <3>1
    <3>3. Played(noteStack, Unplayed) = hostStack
      BY <2>1 DEF FollowsHost, Played
    <3>4. FoldLeft(PlayKey, noteStack', Unplayed') = hostStack'
      BY <1>2, <3>2, <3>3 DEF Played
    <3> QED
      BY <3>4 DEF FollowsHost
  <2>12. HandInv'
    BY <1>2, <2>1, <2>7 DEF HandInv, InHand
  <2> QED
    BY <1>1, <2>1, <2>6, <2>11, <2>12
<1> QED
  BY <1>4, <1>5, <1>6 DEF HostInv, Positions

LEMMA HostStep == HostInv /\ SlotsInv /\ NoteTypeOK /\ [MidiNext]_midiVars => HostInv'
<1> SUFFICES ASSUME HostInv, SlotsInv, NoteTypeOK, [MidiNext]_midiVars PROVE HostInv'
  OBVIOUS
<1>1. CASE \E packet \in Packet : DataIn(packet)
  BY <1>1, HostDataIn
<1>2. CASE UsbFetch
  BY <1>2, HostFetch
<1>3. CASE UsbTest
  BY <1>3, HostTest
<1>4. CASE UsbPlay
  BY <1>4, HostPlay
<1>5. CASE UsbWait \/ UsbLock \/ UsbDrained \/ UsbPrint \/ UsbUnlock
  <2>1. /\ UNCHANGED <<slots, rpos, wpos, e, lapped, hostStack, noteStack>>
        /\ ~ InHand /\ ~ InHand'
    BY <1>5 DEF UsbWait, UsbLock, UsbDrained, UsbPrint, UsbUnlock, UsbGoes, AfterEvent,
                InHand, ringVars, hostVars, noteVars
  <2> QED
    BY <2>1, HostIdle
<1>6. CASE UNCHANGED <<slots, rpos, wpos, e, lapped, hostStack, noteStack, usbPc>>
  <2>1. UNCHANGED <<slots, rpos, wpos, e, lapped, hostStack, noteStack>> /\ usbPc' = usbPc
    BY <1>6
  <2> QED
    BY <2>1, HostIdle
<1>7. AudioWake \/ AudioLock \/ AudioTick \/ AudioUnlock \/ TestWrite \/ SerialDone
        => UNCHANGED <<slots, rpos, wpos, e, lapped, hostStack, noteStack, usbPc>>
  BY DEF AudioWake, AudioLock, AudioTick, AudioUnlock, TestWrite, SerialDone, Tick,
         ringVars, hostVars, noteVars
<1>8. UNCHANGED midiVars
        => UNCHANGED <<slots, rpos, wpos, e, lapped, hostStack, noteStack, usbPc>>
  BY DEF midiVars, ringVars, hostVars, noteVars
<1> QED
  BY <1>1, <1>2, <1>3, <1>4, <1>5, <1>6, <1>7, <1>8 DEF MidiNext, UsbTask

\* Until the host laps the ring, the note stack holds what playing the packets
\* in the order they were sent gives, once the events still in the ring and
\* the one UsbTask has in hand are played on it: none is lost, none is played
\* twice, none changes places.
THEOREM FollowsHostHolds == MidiSpec => []FollowsHost
<1>1. MidiInit => HostInv /\ SlotsInv
  <2> SUFFICES ASSUME MidiInit PROVE HostInv /\ SlotsInv
    OBVIOUS
  <2>1. RingSize \in Nat /\ RingSize > 1
    BY RingAssumption DEF RingAssumption
  <2>2. rpos = 0 /\ wpos = 0 /\ 0 \in Positions /\ ~ InHand /\ lapped = FALSE
    BY <2>1 DEF MidiInit, Positions, InHand
  <2>3. Backlog = 0
    BY <2>2, BacklogBounds
  <2>4. Unread \in Seq(Event) /\ Unread = <<>>
    BY <2>3 DEF Unread
  <2>5. Unplayed = <<>>
    BY <2>2, <2>4, NoneInHand
  <2>6. noteStack = <<>> /\ hostStack = <<>>
    BY DEF MidiInit, NoteInit
  <2>7. FollowsHost
    BY <2>5, <2>6, PlayedNothing DEF FollowsHost, Played
  <2>8. HostInv
    BY <2>2, <2>4, <2>7 DEF HostInv, HandInv
  <2>9. SlotsInv
    BY <2>2 DEF MidiInit, SlotsInv, Positions
  <2> QED
    BY <2>8, <2>9
<1>2. SlotsInv /\ [MidiNext]_midiVars => SlotsInv'
  BY SlotsStep
<1>3. NoteInv => NoteTypeOK
  BY DEF NoteInv
<1>4. HostInv => FollowsHost
  <2>1. HostInv => (~ lapped => FollowsHost) /\ lapped \in BOOLEAN
    BY DEF HostInv
  <2>2. lapped => FollowsHost
    BY DEF FollowsHost
  <2> QED
    BY <2>1, <2>2
<1> QED
  BY <1>1, <1>2, <1>3, <1>4, HostStep, MidiRefinesKeys, NoteInvariance, PTL DEF MidiSpec
=============================================================================
