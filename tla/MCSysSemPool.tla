----------------------------- MODULE MCSysSemPool -----------------------------
EXTENDS SysSemPool
CONSTANTS u1, u2
===============================================================================
