----------------------------- MODULE MCAstCopy -----------------------------
EXTENDS AstCopy
=============================================================================
