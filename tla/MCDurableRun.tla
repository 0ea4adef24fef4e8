---------------------------- MODULE MCDurableRun ----------------------------
EXTENDS DurableRun
=============================================================================
