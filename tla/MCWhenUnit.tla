----------------------------- MODULE MCWhenUnit -----------------------------
EXTENDS WhenUnit
=============================================================================
