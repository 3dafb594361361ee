---------------------------- MODULE MCEventBlock ----------------------------
EXTENDS EventBlock
=============================================================================
