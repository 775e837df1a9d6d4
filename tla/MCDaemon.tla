------------------------------ MODULE MCDaemon ------------------------------
EXTENDS Daemon

CONSTANTS d1, d2, c1
=============================================================================
