-------------------------------- MODULE MCVault -------------------------------
\* Two devices of an account, calls on its connection that either may claim, and a
\* wish to link it anew.
EXTENDS Vault

CONSTANTS d1, d2, c1, c2, l1
==============================================================================
