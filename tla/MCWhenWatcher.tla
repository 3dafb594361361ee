--------------------------- MODULE MCWhenWatcher ---------------------------
EXTENDS WhenWatcher

\* Two signals fit on the system bus, so that a suspend finds both its halves
\* waiting; one on the session bus, which has no pairs.
MCBusCap == [b \in Bus |-> IF b = "system" THEN 2 ELSE 1]
=============================================================================
