---------------------------- MODULE MCEspAtSocket -----------------------------
EXTENDS EspAtSocket
===============================================================================
