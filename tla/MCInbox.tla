-------------------------------- MODULE MCInbox -------------------------------
\* Two chats of the account: in one people call on it, in the other an agent talks
\* and its principal has a say (/stop, to a running turn).
EXTENDS Inbox

CONSTANTS dm, room

BothPost == [t \in Timeline |-> IF t = dm THEN {"call"} ELSE {"stop", "chat"}]

\* One chat, where the principal calls on it and stops it.
OnePost == [t \in Timeline |-> {"call", "stop"}]
==============================================================================
