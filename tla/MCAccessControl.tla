-------------------------- MODULE MCAccessControl --------------------------
EXTENDS AccessControl
=============================================================================
