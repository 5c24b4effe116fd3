------------------------------ MODULE MCModem ------------------------------
(* Instances of Modem for TLC. *)
EXTENDS Modem
=============================================================================
