---------------------------- MODULE Oscillators -----------------------------
(***************************************************************************)
(* The oscillator bank of the synthesizer.  Tick computes a frequency for  *)
(* each partial in use, AudioGen takes it over and generates, ResetPhase   *)
(* restarts them.  Each reads the number of partials anew, and the page    *)
(* that sets it does not take the audio lock: BspTask may change it at any *)
(* step of Process.                                                        *)
(*                                                                         *)
(* The number is always even and partials come in pairs: they are counted  *)
(* in pairs.  Frequencies are named by the note they belong to.            *)
(***************************************************************************)
EXTENDS Lazerbass

CONSTANT MaxPairs   \* kMaxNumPartials / 2 (128)

ASSUME PairsAssumption == MaxPairs \in Nat \ {0}

VARIABLES
  numPairs,   \* params_.oscillor.numPartials / 2
  freqs,      \* freqs_: the note each pair was last computed for
  oldFreqs,   \* oldFreqs_: the note each pair is generated with
  counted     \* history: the pairs the last Tick has computed

bankVars == <<numPairs, freqs, oldFreqs, counted>>
oscVars == <<engineVars, bankVars>>

Pairs == 1 .. MaxPairs
Unset == -1

Used == 1 .. numPairs

-----------------------------------------------------------------------------
\* Encoder 2 of the oscillator's page moves the number by one pair or, with the
\* alt key, by eight, within its range; its reset key sets the largest.
SetPartials ==
  /\ numPairs' \in Pairs
  /\ UNCHANGED <<engineVars, freqs, oldFreqs, counted>>

\* Faulty variant: they are computed when a key went down only.
TriggeredFreqs == IF hasNoteOn THEN [i \in Pairs |-> IF i \in Used THEN noteNumber ELSE freqs[i]]
                  ELSE freqs

TickFreqs == [i \in Pairs |-> IF i \in Used THEN noteNumber ELSE freqs[i]]

BankTick ==
  /\ ProcessTick
  /\ freqs' = TickFreqs
  /\ counted' = Used
  /\ UNCHANGED <<numPairs, oldFreqs>>

\* A pair whose frequency has changed gets its coefficient in the first sample.
\* Without output nothing is generated.
BankGenerate ==
  /\ Generate
  /\ oldFreqs' = IF output
                 THEN [i \in Pairs |-> IF i \in Used THEN freqs[i] ELSE oldFreqs[i]]
                 ELSE oldFreqs
  /\ UNCHANGED <<numPairs, freqs, counted>>

BankElse == (Key \/ ProcessStep) /\ UNCHANGED bankVars

-----------------------------------------------------------------------------
OscInit ==
  /\ EngineInit
  /\ numPairs = MaxPairs
  /\ freqs = [i \in Pairs |-> Unset]
  /\ oldFreqs = [i \in Pairs |-> Unset]
  /\ counted = {}

OscNext == SetPartials \/ BankTick \/ BankGenerate \/ BankElse

OscSpec == OscInit /\ [][OscNext]_oscVars

-----------------------------------------------------------------------------
\* Whenever BspTask changes the number of partials, those the last Tick has
\* counted sound at its pitch in every piece that follows: a stray pitch comes
\* from partials added after that Tick only, and the next one ends it.
CountedInTune ==
  [][BankGenerate /\ output =>
       \A i \in Used \cap counted : oldFreqs'[i] = pitch]_oscVars
=============================================================================
