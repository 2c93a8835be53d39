------------------------------ MODULE MCAtRxRing ------------------------------
EXTENDS AtRxRing
===============================================================================
