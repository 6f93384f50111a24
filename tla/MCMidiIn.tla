------------------------------ MODULE MCMidiIn ------------------------------
(***************************************************************************)
(* Bounds MidiIn for TLC: the host sends a bounded number of packets.       *)
(***************************************************************************)
EXTENDS MidiIn

CONSTANT MaxPackets

MCMidiNext == MidiNext /\ packets' <= MaxPackets

MCMidiSpec == MidiInit /\ [][MCMidiNext]_midiVars /\ Fairness
=============================================================================
