----------------------------- MODULE MCIotHubClient -----------------------------
(* Two slots, so that the third message finds the first still waiting; a     *)
(* message every second turn; bounds in the cfg.                             *)
EXTENDS IotHubClient
===============================================================================
