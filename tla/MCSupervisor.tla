----------------------------- MODULE MCSupervisor -----------------------------
\* One bot, or two, kept by one supervisor.
EXTENDS Supervisor

CONSTANTS b1, b2
==============================================================================
