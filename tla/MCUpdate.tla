------------------------------- MODULE MCUpdate -------------------------------
\* A machine with the supervisor's copy of mafold and another.
EXTENDS Update

CONSTANTS home, other
==============================================================================
