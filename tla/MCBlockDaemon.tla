--------------------------- MODULE MCBlockDaemon ---------------------------
\* Small instances of BlockDaemon and of the claims about it for TLC; the cfg
\* files give the constants.
EXTENDS BlockClaims
=============================================================================
