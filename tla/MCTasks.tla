-------------------------------- MODULE MCTasks -------------------------------
\* Tasks of one surface, and the turns that start them.
EXTENDS Tasks

CONSTANTS t1, t2
==============================================================================
