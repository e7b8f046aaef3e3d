------------------------------ MODULE MCIntake ------------------------------
\* A small account: four events, two of them messages, a replay buffer of two.
EXTENDS Intake
=============================================================================
