------------------------------ MODULE MCXioEspAt ------------------------------
(* Small instances of XioEspAt for TLC. *)
EXTENDS XioEspAt
===============================================================================
