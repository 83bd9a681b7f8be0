------------------------------ MODULE MCClock -------------------------------
EXTENDS Clock
=============================================================================
