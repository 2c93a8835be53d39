------------------------------ MODULE MCIfRx65n -------------------------------
(* Small instances of IfRx65n for TLC. *)
EXTENDS IfRx65n
===============================================================================
