----------------------------- MODULE MCSteering -----------------------------
\* A few messages to one agent: from its owner's circle (o, q), from one who pays
\* (p), and from a guest (g), on a timeline and in a thread.
EXTENDS Steering

CONSTANTS o, q, p, g, timeline, thread

\* A message opens the first reply, or it is taken back up; next another message, or
\* a task's update; then one from the circle, a payer or a guest, from a thread, or
\* a wake-up.
Mixed == [n \in 1..Last |->
    IF n = 1 THEN {"message", "resumed"} \X {o} \X {timeline}
    ELSE IF n = 2 THEN {"message", "update"} \X {o} \X {timeline}
    ELSE {<<"message", p, timeline>>, <<"message", g, timeline>>, <<"reply", o, thread>>} \cup
         {"relay", "hollow", "wake"} \X {o} \X {timeline}]
=============================================================================
