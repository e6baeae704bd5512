-------------------------- MODULE MCValueCopySteps --------------------------
EXTENDS ValueCopySteps
=============================================================================
