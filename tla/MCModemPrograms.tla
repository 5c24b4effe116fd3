--------------------------- MODULE MCModemPrograms ---------------------------
(* A program of each kind. *)
EXTENDS ModemPrograms

MCPrograms == {"sender", "receiver", "stat"}
MCKind == [p \in MCPrograms |-> p]
=============================================================================
