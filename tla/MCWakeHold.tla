----------------------------- MODULE MCWakeHold -----------------------------
EXTENDS WakeHold

\* Room for both halves of a suspend.
MCBusCap == [b \in Bus |-> 2]
=============================================================================
