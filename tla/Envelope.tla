------------------------------ MODULE Envelope ------------------------------
(***************************************************************************)
(* dsp::Envelope inside the synthesizer: the stages NoteStack leaves open, *)
(* decided by the phase.  Tick advances it once per control period, the    *)
(* handlers of the keys set it back at any time between two blocks.        *)
(*                                                                         *)
(* A phase of 1.0 is One.  The times are parameters the panel may move     *)
(* between any two ticks, so each tick takes its increments anew; a time   *)
(* of at most kMinTime is an increment above One, which ends the stage.    *)
(* The peak, which scales the output, is 1 and the output not inverted.    *)
(***************************************************************************)
EXTENDS Oscillators

CONSTANTS
  One,
  Increments   \* 1 / time * invUpdateRate_, in the same unit as One

ASSUME PhaseAssumption == One \in Nat \ {0} /\ Increments \subseteq Nat

VARIABLES
  phase,   \* phase_ of every envelope
  level,   \* output_ of every envelope, which the modulation bank reads
  struck   \* history: a stage was set from outside after the last level

phaseVars == <<phase, level, struck>>
envVars == <<oscVars, phaseVars>>

-----------------------------------------------------------------------------
\* case kRelease.  Nothing reads the phase of an envelope at rest.
Release(p, inc) ==
  IF p + inc > One THEN [state |-> "kInit", phase |-> One, level |-> 0]
  ELSE [state |-> "kRelease", phase |-> p + inc, level |-> One - (p + inc)]

\* Faulty variant: the release goes on with the phase of the attack.
CarriedAttack(p, inc, releaseInc) ==
  IF p + inc > One THEN Release(p, releaseInc)
  ELSE [state |-> "kAttack", phase |-> p + inc, level |-> p + inc]

\* case kAttack, which falls through into the release when it ends.
Attack(p, inc, releaseInc) ==
  IF p + inc > One THEN Release(0, releaseInc)
  ELSE [state |-> "kAttack", phase |-> p + inc, level |-> p + inc]

Stage(s, p, attackInc, releaseInc) ==
  CASE s = "kInit"    -> [state |-> s, phase |-> p, level |-> 0]
    [] s = "kAttack"  -> Attack(p, attackInc, releaseInc)
    [] s = "kRelease" -> Release(p, releaseInc)

\* UpdateModulators ticks the envelopes first.  When a key is pending,
\* ResetModulators sends them to the attack afterwards, level as computed.
EnvelopeTick(attackInc, releaseInc) ==
  LET ticked == [e \in Envelopes |->
                   Stage(state[e], phase[e], attackInc[e], releaseInc[e])]
  IN /\ BankTick
     /\ hasNoteOn \/ state' = [e \in Envelopes |-> ticked[e].state]
     /\ phase' = [e \in Envelopes |-> IF hasNoteOn THEN 0 ELSE ticked[e].phase]
     /\ level' = [e \in Envelopes |-> ticked[e].level]
     /\ struck' = hasNoteOn

\* NoteOff of the last key, or without any, is the one that leaves no key: it
\* sends every envelope to its release with GotoReleaseState.
EnvelopeKey ==
  /\ BankElse
  /\ Key
  /\ IF noteStack' = <<>>
     THEN phase' = [e \in Envelopes |-> 0] /\ struck' = TRUE
     ELSE UNCHANGED <<phase, struck>>
  /\ UNCHANGED level

EnvelopeElse ==
  /\ SetPartials \/ BankGenerate \/ (BankElse /\ ProcessStep)
  /\ UNCHANGED phaseVars

-----------------------------------------------------------------------------
EnvelopeInit ==
  /\ OscInit
  /\ phase = [e \in Envelopes |-> 0]
  /\ level = [e \in Envelopes |-> 0]
  /\ struck = FALSE

EnvelopeNext ==
  \/ \E a, r \in [Envelopes -> Increments] : EnvelopeTick(a, r)
  \/ EnvelopeKey
  \/ EnvelopeElse

EnvelopeSpec == EnvelopeInit /\ [][EnvelopeNext]_envVars

-----------------------------------------------------------------------------
EnvelopeTypeOK ==
  /\ phase \in [Envelopes -> 0 .. One]
  /\ level \in [Envelopes -> 0 .. One]
  /\ struck \in BOOLEAN

\* Left alone, an envelope is smooth: where no key has set a stage since the
\* tick before, a tick moves the output by no more than one increment, also
\* when it ends the attack and begins the release, and whatever the panel has
\* made of the times.  At a constant peak only a key makes it jump.
NoJump ==
  [][\A a, r \in [Envelopes -> Increments] :
       ~ struck /\ EnvelopeTick(a, r) =>
         \A v \in Envelopes : \E inc \in {a[v], r[v]} :
           level'[v] \in level[v] - inc .. level[v] + inc]_envVars
=============================================================================
