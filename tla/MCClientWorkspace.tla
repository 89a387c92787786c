-------------------------- MODULE MCClientWorkspace --------------------------
EXTENDS ClientWorkspace, TLC
=============================================================================
