---------------------------- MODULE MCValueCopy ----------------------------
EXTENDS ValueCopy
=============================================================================
