----------------------------- MODULE NoteStack ------------------------------
(***************************************************************************)
(* dsp::Lazerbass, the handling of keys: NoteOn and NoteOff keep a stack   *)
(* of the held notes, and Tick takes pitch and trigger over into the sound *)
(* once per control period.  Velocities do not influence the sound.        *)
(***************************************************************************)
EXTENDS Integers, Sequences, SequencesExt, FiniteSetsExt

CONSTANTS
  Notes,      \* the note numbers considered
  Envelopes   \* ampEnv_, env1_ and env2_

ASSUME NotesAssumption == Notes \subseteq 0 .. 255

VARIABLES
  noteStack,   \* noteStack_
  noteNumber,  \* noteNumber_
  hasNoteOn,   \* hasNoteOn_
  output,      \* output_: AudioGen leaves the block silent while it is false
  pitch,       \* pitch_, without the fundamental computed from it
  state,       \* Envelope::state_ of every envelope
  tapped       \* history: the last key held came up before Tick saw its press

noteVars == <<noteStack, noteNumber, hasNoteOn, output, pitch, state, tapped>>

EnvelopeState == {"kInit", "kAttack", "kRelease"}

-----------------------------------------------------------------------------
\* std::ranges::find returns the first of these positions.
Found(n) == {i \in DOMAIN noteStack : noteStack[i] = n}

\* Faulty variant: the last entry is erased.
PoppedStack(n) == IF noteStack = <<>> THEN noteStack ELSE Front(noteStack)

Erased(n) == IF Found(n) = {} THEN noteStack
             ELSE RemoveAt(noteStack, Min(Found(n)))

\* NoteEnqueue: a note already held moves to the top.
NoteEnqueue(n) == Append(Erased(n), n)

NoteOn(n) ==
  /\ noteStack' = NoteEnqueue(n)
  /\ noteNumber' = n
  /\ hasNoteOn' = TRUE
  /\ output' = TRUE
  /\ tapped' = FALSE
  /\ UNCHANGED <<pitch, state>>

\* NoteDequeue(n) returns the note on top after n is gone.
kInvalidNoteNumber == 1024
NoteDequeue(n) == IF Erased(n) = <<>> THEN kInvalidNoteNumber
                  ELSE Last(Erased(n))

\* Faulty variant: the envelopes are not released.
AllUpUnreleased ==
  /\ output' = FALSE
  /\ tapped' = (tapped \/ hasNoteOn)
  /\ UNCHANGED <<noteNumber, hasNoteOn, state>>

\* GotoReleaseState of every envelope, also when no key was held before.
AllUp ==
  /\ output' = FALSE
  /\ state' = [e \in Envelopes |-> "kRelease"]
  /\ tapped' = (tapped \/ hasNoteOn)
  /\ UNCHANGED <<noteNumber, hasNoteOn>>

\* Faulty variant: the trigger is forgotten.
FallBackUntriggered(n) ==
  /\ noteNumber' = n
  /\ UNCHANGED <<hasNoteOn, output, state, tapped>>

FallBackTo(n) ==
  /\ noteNumber' = n
  /\ hasNoteOn' = (hasNoteOn \/ n # noteNumber)
  /\ UNCHANGED <<output, state, tapped>>

NoteOff(n) ==
  /\ noteStack' = Erased(n)
  /\ IF NoteDequeue(n) = kInvalidNoteNumber THEN AllUp
     ELSE FallBackTo(NoteDequeue(n))
  /\ UNCHANGED pitch

-----------------------------------------------------------------------------
\* Where Envelope::Tick may take an envelope: its times are parameters, and
\* an attack may end and its release, too, within one call.  Module Envelope
\* decides it by the phase.
Advance(s) == CASE s = "kInit"    -> {"kInit"}
                [] s = "kRelease" -> {"kRelease", "kInit"}
                [] s = "kAttack"  -> EnvelopeState

\* UpdateModulators runs first; ResetModulators restarts the envelopes last.
Tick ==
  /\ pitch' = noteNumber
  /\ hasNoteOn' = FALSE
  /\ state' \in IF hasNoteOn THEN {[e \in Envelopes |-> "kAttack"]}
                ELSE {s \in [Envelopes -> EnvelopeState] :
                        \A e \in Envelopes : s[e] \in Advance(state[e])}
  /\ UNCHANGED <<noteStack, noteNumber, output, tapped>>

-----------------------------------------------------------------------------
NoteInit ==
  /\ noteStack = <<>>
  /\ noteNumber = 0
  /\ hasNoteOn = FALSE
  /\ output = FALSE
  /\ pitch = 0
  /\ state = [e \in Envelopes |-> "kInit"]
  /\ tapped = FALSE

NoteNext == \/ \E n \in Notes : NoteOn(n) \/ NoteOff(n)
            \/ Tick

NoteSpec == NoteInit /\ [][NoteNext]_noteVars

-----------------------------------------------------------------------------
(***************************************************************************)
(* Properties.                                                             *)
(***************************************************************************)
NoteTypeOK ==
  /\ noteStack \in Seq(Notes)
  /\ noteNumber \in Notes \cup {0}
  /\ hasNoteOn \in BOOLEAN
  /\ output \in BOOLEAN
  /\ pitch \in Notes \cup {0}
  /\ state \in [Envelopes -> EnvelopeState]
  /\ tapped \in BOOLEAN

\* A note is in the stack at most once, so that one NoteOff takes it out for
\* good: no key stays on after it came up, however often it was pressed.
StackDistinct ==
  \A i, j \in DOMAIN noteStack : noteStack[i] = noteStack[j] => i = j

\* The synthesizer sounds exactly while a key is held, and plays the top.
SoundsTop ==
  /\ output <=> noteStack # <<>>
  /\ output => noteNumber = Last(noteStack)

\* A new pitch is never taken over without a restart of the partials and of
\* the envelopes: while the pitch lags behind, the trigger is pending.
PitchChangeTriggers == pitch # noteNumber => hasNoteOn

\* An envelope attacks while no key is held only when the last key came up
\* before Tick saw it go down: the release is then overtaken by the attack.
StrayAttackNeedsTap ==
  /\ ~ output /\ hasNoteOn => tapped
  /\ \A e \in Envelopes : ~ output /\ state[e] = "kAttack" => tapped

\* The stack implements last-note priority.
Keyboard == INSTANCE LastNote WITH
              held  <- ToSet(noteStack),
              newer <- {<<noteStack[p[1]], noteStack[p[2]]>> :
                          p \in {q \in (DOMAIN noteStack) \X (DOMAIN noteStack) :
                                   q[1] > q[2]}},
              gate  <- output,
              note  <- noteNumber

RefinesLastNote == Keyboard!LastNoteSpec
=============================================================================
