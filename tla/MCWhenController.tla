-------------------------- MODULE MCWhenController --------------------------
EXTENDS WhenController
=============================================================================
