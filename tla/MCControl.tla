------------------------------ MODULE MCControl ------------------------------
\* A restart of a bot, and one of the supervisor itself, asked of one supervisor
\* or of two in turn.
EXTENDS Control

CONSTANTS bot, move, s1, s2
=============================================================================
