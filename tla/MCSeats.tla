-------------------------------- MODULE MCSeats -------------------------------
\* Two daemons of one machine, with two logins.
EXTENDS Seats, TLC

CONSTANTS d1, d2

\* Turns that start where the daemon is bound, pinned to a model or not.
OneOfEach == {<<1, "none">>, <<2, "model">>}

\* The daemons are alike.
Symmetry == Permutations(Daemon)
==============================================================================
