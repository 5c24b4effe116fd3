-------------------------- MODULE MCSbdTransmitter --------------------------
(* Instances of SbdTransmitter for TLC. *)
EXTENDS SbdTransmitter
=============================================================================
