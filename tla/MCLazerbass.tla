---------------------------- MODULE MCLazerbass -----------------------------
(***************************************************************************)
(* The synthesizer with its oscillators and envelopes for TLC.  Nothing    *)
(* needs a bound: the stack holds distinct notes, and each tick starts the *)
(* counts again.  The bounds only end faulty variants in which they grow.  *)
(***************************************************************************)
EXTENDS Envelope

CONSTANTS StackBound, LateBound

MCEngineNext == /\ EnvelopeNext
                /\ Len(noteStack') <= StackBound
                /\ late' <= LateBound

MCEngineSpec == EnvelopeInit /\ [][MCEngineNext]_envVars
=============================================================================
