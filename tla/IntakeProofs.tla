--------------------------- MODULE IntakeProofs ---------------------------
(***************************************************************************)
(* What holds of Intake for every account, buffer and number of crashes:   *)
(* no message is silently lost, and none is answered twice.                *)
(***************************************************************************)
EXTENDS Intake, WellFoundedInduction, TLAPS

\* Between connections the loop holds nothing; a dead process knows nothing.
Idle ==
    /\ link \in {"down", "offline"} => again = {} /\ queue = {} /\ hand = 0 /\ sock = {} /\ hello = 0
    /\ link = "down" => seen = {} /\ \A m \in Message : task[m] = "none"

\* Nothing the daemon holds is newer than the api's head, and until the hello
\* is read the loop has taken nothing from this connection but its orphans.
Behind ==
    /\ hello <= head /\ cursor <= head /\ lastSeq <= head /\ cursorAt <= head
    /\ low <= head + 1
    /\ \A s \in sock \cup queue \cup again : s <= head
    /\ \A s \in queue : s <= covered
    /\ link \in {"online", "cut"} => cursor <= lastSeq
    /\ hello # 0 => /\ lastSeq <= hello /\ cursor <= hello /\ cursorAt <= hello
                    /\ covered = 0 /\ queue = {}
                    /\ \A m \in again : m <= cursorAt

\* A turn's outbox entry follows its task, step by step, while its process lives.
EntryFollowsTask ==
    \A m \in Message :
        /\ task[m] = "recorded" => entry[m] = "none" /\ m \in seen
        /\ task[m] = "drafted" => entry[m] = "tracked" /\ m \in seen
        /\ task[m] = "journaled" => entry[m] = "journaled" /\ m \in seen
        /\ task[m] = "prompted" => entry[m] = "prompted" /\ m \in seen
        /\ task[m] = "running" => entry[m] = "prompted" /\ m \in seen
        /\ task[m] = "resumed" => entry[m] = "prompted"
        /\ task[m] = "settling" => entry[m] = "none" /\ pend[m] = "old"
        /\ entry[m] # "none" /\ task[m] = "none" => link = "down"

\* A draft that would be thrown away has its message in the trigger journal.
ThrownAwayIsJournaled ==
    \A m \in Message :
        /\ entry[m] = "journaled" => pend[m] # "none"
        /\ task[m] = "recorded" => pend[m] # "none"
        /\ task[m] = "drafted" => pend[m] # "none"

\* Where a message the loop let go of may be.
Settled(m) ==
    \/ pend[m] # "none" \/ entry[m] # "none"
    \/ bubbles[m] > 0 \/ m \in handled
    \/ m \in reported \/ m \in crashed \/ m \in owed

\* What the process has judged is settled; what its journal would replay to it
\* a second time is owed a notice.
SeenIsSettled ==
    \A m \in seen :
        /\ Settled(m)
        /\ pend[m] = "fresh" /\ task[m] = "none" => m \in owed

\* Every bound the loop keeps - the cursors, what a catch-up vouched for, the
\* frames it replays - has only accounted messages behind it.
Vouched ==
    \A m \in Message : anchor < m =>
        /\ m <= lastSeq \/ m <= cursor \/ m <= cursorAt => Accounted(m)
        /\ m <= covered => m \in queue \/ Accounted(m)
        /\ (\E a \in again : m <= a) => Accounted(m)

\* A message the cursors are past: no catch-up returns it again.
Passed(m) == m <= cursorAt /\ (m <= cursor \/ m < low)

\* The journals, or a reply, know of the message.
Taken(m) == answers[m] > 0 \/ entry[m] # "none" \/ pend[m] # "none"

\* The loop will not come to the message (again).
OutOfLoop(m) ==
    /\ m # hand /\ m \notin again
    /\ m \in queue \cup sock => m <= lastSeq
    /\ link \in {"online", "cut"} => m <= lastSeq \/ m < low

\* What was judged or taken is passed, and what an earlier process took is out
\* of this one's loop, where the duplicate guard does not know it.
TakenOnce ==
    \A m \in Message :
        /\ m \in seen \/ m = hand \/ Taken(m) => Passed(m)
        /\ m \in again => m <= cursor \/ m < low
        /\ Taken(m) /\ m \notin seen => OutOfLoop(m)

\* A message that was answered is in no journal and no turn is at work on it.
AnsweredIsDone ==
    \A m \in Message :
        answers[m] > 0 =>
            /\ answers[m] = 1
            /\ pend[m] = "none" /\ entry[m] = "none" /\ task[m] = "none"

\* The inductive invariant.
IInv ==
    /\ TypeOK /\ Idle /\ Behind
    /\ EntryFollowsTask /\ ThrownAwayIsJournaled
    /\ SeenIsSettled /\ Vouched
    /\ TakenOnce /\ AnsweredIsDone

-----------------------------------------------------------------------------
\* The next frame of a queue is the oldest in it.
LEMMA LeastIsLeast ==
    ASSUME NEW S, S \subseteq Nat, S # {}
    PROVE  Least(S) \in S /\ \A t \in S : Least(S) <= t
<1>1. PICK s \in S : \A t \in S : ~ (<<t, s>> \in OpToRel(<, Nat))
  BY NatLessThanWellFounded, WFMin
<1>2. ASSUME NEW t \in S PROVE s <= t
  <2>1. ~ (<<t, s>> \in {ss \in Nat \X Nat : ss[1] < ss[2]})
    BY <1>1 DEF OpToRel
  <2>2. <<t, s>> \in Nat \X Nat /\ t \in Nat /\ s \in Nat
    OBVIOUS
  <2>3. ~ (<<t, s>>[1] < <<t, s>>[2])
    BY <2>1, <2>2
  <2> QED
    BY <2>2, <2>3
<1> QED
  BY <1>1, <1>2 DEF Least

\* The greater of two bounds is above both.
LEMMA GreaterIsGreater ==
    ASSUME NEW a \in Int, NEW b \in Int
    PROVE  /\ Greater(a, b) \in {a, b}
           /\ Greater(a, b) >= a /\ Greater(a, b) >= b
  BY DEF Greater

\* Messages are numbers of the bounded sequence.
LEMMA MessagesAreSeqs ==
    Message \subseteq 1..MaxSeq /\ MaxSeq \in Nat \ {0} /\ Message \subseteq Nat /\ 0 \notin Message
             /\ Backlog \in Nat \ {0} /\ MaxCrashes \in Nat
  BY IntakeAssumption

\* The frame a queue gives up is one of its own.
LEMMA OldestFrame ==
    ASSUME NEW S, S \subseteq 1..MaxSeq, S # {}
    PROVE  Least(S) \in S /\ Least(S) \in 1..MaxSeq /\ \A t \in S : Least(S) <= t
<1>1. S \subseteq Nat
  BY MessagesAreSeqs
<1> QED
  BY <1>1, LeastIsLeast

\* The cursor step stays in range.
LEMMA StepType ==
    ASSUME TypeOK, NEW s \in 1..MaxSeq, Step(s)
    PROVE  lastSeq' \in Seqs /\ cursor' \in Seqs /\ cursorAt' \in Seqs /\ hand' \in Message \cup {0}
  BY MessagesAreSeqs DEF TypeOK, Step, Greater, Seqs

-----------------------------------------------------------------------------
\* The types of the variables, for every account, buffer and number of crashes.
LEMMA TypeStep ==
    ASSUME TypeOK, [Next]_vars PROVE TypeOK'
<1> USE IntakeAssumption, MessagesAreSeqs DEF TypeOK, Seqs
<1>1. CASE Publish
  BY <1>1, GreaterIsGreater DEF Publish, Greater, loop, disk, history, results, marks
<1>2. CASE ApiRestart
  BY <1>2 DEF ApiRestart, loop, disk, history, results, marks
<1>3. CASE Connect
  BY <1>3 DEF Connect, server, history, results, marks, Tasks
<1>4. CASE Disconnect
  BY <1>4 DEF Disconnect, server, loop, disk, history, results, marks
<1>5. CASE Anchor
  BY <1>5 DEF Anchor, server, results
<1>6. CASE CatchUp
  <2>1. covered' \in Seqs /\ queue' \subseteq 1..MaxSeq
    <3>1. covered' \in Seqs
      BY <1>6 DEF CatchUp, Greater
    <3>2. queue' \subseteq 1..MaxSeq
      BY <1>6 DEF CatchUp, Buffered
    <3> QED
      BY <3>1, <3>2
  <2>2. again' \subseteq Message /\ reported' \subseteq Message
    BY <1>6 DEF CatchUp, Answer, Stored, AgedOut
  <2> QED
    BY <1>6, <2>1, <2>2 DEF CatchUp, server, disk, results
<1>7. CASE ReadFrame
  <2> DEFINE s == Least(sock)
  <2>1. s \in 1..MaxSeq
    BY <1>7, OldestFrame DEF ReadFrame
  <2>2. CASE s <= lastSeq /\ UNCHANGED <<lastSeq, cursor, cursorAt, hand, reported>>
    BY <1>7, <2>2 DEF ReadFrame, server, results
  <2>3. CASE Step(s) /\ UNCHANGED reported
    BY <1>7, <2>1, <2>3, StepType DEF ReadFrame, server, results
  <2>4. CASE Step(s) /\ reported' = reported \cup {m \in Message : lastSeq < m /\ m < s}
    BY <1>7, <2>1, <2>4, StepType DEF ReadFrame, server, results
  <2> QED
    BY <1>7, <2>2, <2>3, <2>4 DEF ReadFrame
<1>8. CASE FillGap
  <2> DEFINE s == Least(sock)
  <2>1. s \in 1..MaxSeq
    BY <1>8, OldestFrame DEF FillGap
  <2>2. covered' \in Seqs /\ queue' \subseteq 1..MaxSeq
    <3>1. covered' \in Seqs
      BY <1>8, <2>1 DEF FillGap, Greater
    <3>2. queue' \subseteq 1..MaxSeq
      BY <1>8, <2>1 DEF FillGap, Buffered
    <3> QED
      BY <3>1, <3>2
  <2>3. again' \subseteq Message /\ reported' \subseteq Message
    BY <1>8 DEF FillGap, Answer, Stored, AgedOut
  <2> QED
    BY <1>8, <2>2, <2>3 DEF FillGap, server, disk, results
<1>9. CASE ReplayAgain
  <2>1. Least(again) \in Message
    BY <1>9, LeastIsLeast DEF ReplayAgain
  <2>2. cursorAt' \in Seqs
    BY <1>9, <2>1 DEF ReplayAgain, Greater
  <2> QED
    BY <1>9, <2>1, <2>2 DEF ReplayAgain, server, socket, history, results, marks
<1>10. CASE ReplayNumbered
  <2> DEFINE s == Least(queue)
  <2>1. s \in 1..MaxSeq
    BY <1>10, OldestFrame DEF ReplayNumbered
  <2>2. CASE UNCHANGED <<lastSeq, cursor, cursorAt, hand>>
    BY <1>10, <2>2 DEF ReplayNumbered, server, socket, history, results, marks
  <2>3. CASE Step(s)
    BY <1>10, <2>1, <2>3, StepType DEF ReplayNumbered, server, socket, history, results, marks
  <2> QED
    BY <1>10, <2>2, <2>3 DEF ReplayNumbered
<1>11. CASE Duplicate
  BY <1>11 DEF Duplicate, server, socket, disk, history, results, marks
<1>12. CASE Judge
  BY <1>12 DEF Judge, server, socket, marks, Tasks
<1>13. ASSUME NEW m \in Message, Task(m) PROVE TypeOK'
  <2> USE DEF server, socket, loop, disk, history, results, marks, Drop, Tasks, Entries
  <2>1. CASE EndWithoutTurn(m)  BY <2>1 DEF EndWithoutTurn
  <2>2. CASE KeepOwed(m)  BY <2>2 DEF KeepOwed
  <2>3. CASE OpenDraft(m)  BY <2>3 DEF OpenDraft, TurnStep
  <2>4. CASE Journal(m)  BY <2>4 DEF Journal, TurnStep
  <2>5. CASE Prompt(m)  BY <2>5 DEF Prompt, TurnStep
  <2>6. CASE Clear(m)  BY <2>6 DEF Clear, TurnStep
  <2>7. CASE Finish(m)  BY <2>7 DEF Finish
  <2>8. CASE Settle(m)  BY <2>8 DEF Settle
  <2>9. CASE Age(m)
    <3>1. pend' \in [Message -> {"none", "fresh", "old"}]
      BY <2>9 DEF Age
    <3> QED
      BY <2>9, <3>1 DEF Age
  <2>10. CASE GiveUp(m)
    <3>1. \/ bubbles' = [bubbles EXCEPT ![m] = @ + 1] /\ UNCHANGED handled
          \/ handled' = handled \cup {m} /\ UNCHANGED bubbles
      BY <2>10 DEF GiveUp
    <3>2. bubbles' \in [Message -> Nat] /\ handled' \subseteq Message
      <4>1. CASE bubbles' = [bubbles EXCEPT ![m] = @ + 1] /\ UNCHANGED handled
        BY <4>1
      <4>2. CASE handled' = handled \cup {m} /\ UNCHANGED bubbles
        BY <4>2
      <4> QED
        BY <3>1, <4>1, <4>2
    <3>3. task' \in [Message -> Tasks] /\ pend' \in [Message -> {"none", "fresh", "old"}]
          /\ entry' \in [Message -> Entries]
      BY <2>10 DEF GiveUp
    <3> QED
      BY <2>10, <3>2, <3>3 DEF GiveUp
  <2> QED
    BY <1>13, <2>1, <2>2, <2>3, <2>4, <2>5, <2>6, <2>7, <2>8, <2>9, <2>10 DEF Task
<1>14. CASE Crash
  <2>1. crashed' \subseteq Message
    BY <1>14 DEF Crash
  <2> QED
    BY <1>14, <2>1 DEF Crash, server, disk, results, Tasks
<1>15. CASE Start
  BY <1>15 DEF Start, server, loop, marks, Tasks, Entries
<1>16. CASE UNCHANGED vars
  BY <1>16 DEF vars, server, socket, loop, disk, history, results, marks
<1> QED
  BY <1>1, <1>2, <1>3, <1>4, <1>5, <1>6, <1>7, <1>8, <1>9, <1>10, <1>11, <1>12,
     <1>13, <1>14, <1>15, <1>16 DEF Next, Api, Loop, Process

\* A connection that is closed leaves nothing in the loop, a death nothing in memory.
LEMMA IdleStep ==
    ASSUME IInv, [Next]_vars
    PROVE  Idle'
<1> USE MessagesAreSeqs
        DEF IInv, Idle, TypeOK, server, socket, loop, disk, history, results,
            marks
<1>1. CASE Publish
  BY <1>1 DEF Publish
<1>2. CASE ApiRestart
  BY <1>2 DEF ApiRestart
<1>3. CASE Connect
  BY <1>3 DEF Connect
<1>4. CASE Disconnect
  BY <1>4 DEF Disconnect, AtSocket
<1>5. CASE Anchor
  BY <1>5 DEF Anchor, AtSocket
<1>6. CASE CatchUp
  BY <1>6 DEF CatchUp, Answer, AtSocket
<1>7. CASE ReadFrame
  BY <1>7, OldestFrame DEF ReadFrame, Step, AtSocket
<1>8. CASE FillGap
  BY <1>8 DEF FillGap, Answer, AtSocket
<1>9. CASE ReplayAgain
  BY <1>9 DEF ReplayAgain
<1>10. CASE ReplayNumbered
  BY <1>10, OldestFrame DEF ReplayNumbered, Step
<1>11. CASE Duplicate
  BY <1>11 DEF Duplicate
<1>12. CASE Judge
  BY <1>12 DEF Judge
<1>13. ASSUME NEW m \in Message, Task(m) PROVE Idle'
  <2> USE DEF Drop
  <2>1. CASE EndWithoutTurn(m)
    BY <2>1 DEF EndWithoutTurn
  <2>2. CASE KeepOwed(m)
    BY <2>2 DEF KeepOwed
  <2>3. CASE OpenDraft(m)
    BY <2>3 DEF OpenDraft, TurnStep
  <2>4. CASE Journal(m)
    BY <2>4 DEF Journal, TurnStep
  <2>5. CASE Prompt(m)
    BY <2>5 DEF Prompt, TurnStep
  <2>6. CASE Clear(m)
    BY <2>6 DEF Clear, TurnStep
  <2>7. CASE Finish(m)
    BY <2>7 DEF Finish
  <2>8. CASE Settle(m)
    BY <2>8 DEF Settle
  <2>9. CASE Age(m)
    BY <2>9 DEF Age
  <2>10. CASE GiveUp(m)
    BY <2>10 DEF GiveUp
  <2> QED
    BY <1>13, <2>1, <2>2, <2>3, <2>4, <2>5, <2>6, <2>7, <2>8, <2>9, <2>10 DEF Task
<1>14. CASE Crash
  BY <1>14 DEF Crash
<1>15. CASE Start
  BY <1>15 DEF Start
<1>16. CASE UNCHANGED vars
  BY <1>16 DEF vars
<1> QED
  BY <1>1, <1>2, <1>3, <1>4, <1>5, <1>6, <1>7, <1>8,
     <1>9, <1>10, <1>11, <1>12, <1>13, <1>14, <1>15, <1>16 DEF Next, Api, Loop, Process

\* What the loop holds was numbered before.
LEMMA BehindStep ==
    ASSUME IInv, [Next]_vars
    PROVE  Behind'
<1> USE MessagesAreSeqs
        DEF IInv, Behind, TypeOK, Idle, Greater, server, socket, loop, disk,
            history, results, marks
<1>1. CASE Publish
  <2>1. head' = head + 1 /\ sock' \subseteq sock \cup {head + 1} /\ low' <= head' + 1
    BY <1>1 DEF Publish
  <2>2. UNCHANGED <<link, hello, cursor, lastSeq, cursorAt, covered, queue, again>>
    BY <1>1 DEF Publish
  <2>3. \A t \in sock' \cup queue' \cup again' : t <= head'
    BY <2>1, <2>2
  <2>4. hello' # 0 => /\ lastSeq' <= hello' /\ cursor' <= hello' /\ cursorAt' <= hello'
                      /\ covered' = 0 /\ queue' = {}
                      /\ \A m \in again' : m <= cursorAt'
    BY <2>2
  <2>5. hello' <= head' /\ cursor' <= head' /\ lastSeq' <= head' /\ cursorAt' <= head'
    <3>1. /\ hello <= head /\ cursor <= head /\ lastSeq <= head /\ cursorAt <= head
          /\ head \in Int /\ hello \in Int /\ cursor \in Int /\ lastSeq \in Int /\ cursorAt \in Int
      BY DEF Seqs
    <3> HIDE DEF IInv
    <3> QED
      BY <3>1, <2>1, <2>2
  <2> QED
    BY <2>1, <2>2, <2>3, <2>4, <2>5
<1>2. CASE ApiRestart
  BY <1>2 DEF ApiRestart
<1>3. CASE Connect
  <2>1. /\ UNCHANGED <<head, low, cursor, cursorAt>>
        /\ hello' = head /\ sock' = {} /\ lastSeq' = cursor /\ covered' = 0 /\ queue' = {}
    BY <1>3 DEF Connect
  <2>2. again' \subseteq Message /\ \A m \in again' : pend[m] # "none"
    BY <1>3 DEF Connect
  <2>3. \A m \in again' : m <= cursorAt
    BY <2>2 DEF TakenOnce, Taken, Passed
  <2>4. \A t \in sock' \cup queue' \cup again' : t <= head'
    <3>1. cursorAt <= head /\ cursorAt \in Int /\ head \in Int
      BY DEF Seqs
    <3>2. \A t \in again' : t \in Int /\ t <= cursorAt
      BY <2>2, <2>3
    <3> HIDE DEF IInv, Idle
    <3> QED
      BY <3>1, <3>2, <2>1
  <2> QED
    BY <2>1, <2>3, <2>4 DEF Seqs
<1>4. CASE Disconnect
  BY <1>4 DEF Disconnect, AtSocket
<1>5. CASE Anchor
  <2>1. /\ UNCHANGED <<head, low, link, sock, again, queue, covered, cursorAt>>
        /\ hello' = 0 /\ lastSeq' = hello /\ cursor' = hello /\ hello <= head
    BY <1>5 DEF Anchor
  <2> QED
    BY <2>1 DEF Seqs
<1>6. CASE CatchUp
  <2>1. UNCHANGED <<head, low, link, lastSeq, cursor, cursorAt, sock>> /\ hello' = 0
    BY <1>6 DEF CatchUp
  <2>2. CASE UNCHANGED <<again, queue, covered>>
    BY <2>1, <2>2
  <2>3. CASE Answer(head + 1) /\ queue' = Buffered /\ covered' = Greater(covered, head)
    <3>1. covered' >= head /\ covered' \in Int
      BY <2>3 DEF Seqs
    <3>2. \A t \in queue' : t \in Int /\ t <= head /\ t <= covered'
      BY <2>3, <3>1 DEF Buffered
    <3>3. \A t \in again' : t \in Int /\ t <= head
      <4>1. CASE again' = {}
        BY <4>1
      <4>2. CASE again' = Stored
        BY <4>2 DEF Stored
      <4> QED
        BY <2>3, <4>1, <4>2 DEF Answer
    <3> QED
      BY <2>1, <3>2, <3>3
  <2> QED
    BY <1>6, <2>2, <2>3 DEF CatchUp
<1>7. CASE ReadFrame
  <2> DEFINE s == Least(sock)
  <2>1. s \in sock /\ s \in 1..MaxSeq /\ s <= head
    BY <1>7, OldestFrame DEF ReadFrame
  <2>2. UNCHANGED <<head, low, link, hello, covered, again, queue>> /\ sock' \subseteq sock /\ hello = 0
    BY <1>7 DEF ReadFrame
  <2>3. lastSeq' \in {lastSeq, s} /\ cursor' \in {cursor, s} /\ cursorAt' \in {cursorAt, s}
    BY <1>7 DEF ReadFrame, Step
  <2>4. link' \in {"online", "cut"} => cursor' <= lastSeq'
    BY <1>7, <2>1 DEF ReadFrame, Step
  <2> QED
    BY <2>1, <2>2, <2>3, <2>4
<1>8. CASE FillGap
  <2> DEFINE s == Least(sock)
  <2>1. s \in sock /\ s \in 1..MaxSeq /\ s <= head
    BY <1>8, OldestFrame DEF FillGap
  <2>2. UNCHANGED <<head, low, link, hello, lastSeq, cursor, cursorAt>> /\ sock' \subseteq sock /\ hello = 0
    BY <1>8 DEF FillGap
  <2>3. \A t \in queue' : t <= head
    BY <1>8, <2>1 DEF FillGap, Buffered
  <2>4. again' \subseteq Message /\ \A t \in again' : t <= head
    <3>1. CASE again' = {}
      BY <3>1
    <3>2. CASE again' = Stored
      BY <3>2 DEF Stored
    <3> QED
      BY <1>8, <3>1, <3>2 DEF FillGap, Answer
  <2>5. \A t \in queue' : t <= covered'
    BY <1>8, <2>1 DEF FillGap, Buffered
  <2> QED
    BY <2>1, <2>2, <2>3, <2>4, <2>5
<1>9. CASE ReplayAgain
  BY <1>9, LeastIsLeast DEF ReplayAgain
<1>10. CASE ReplayNumbered
  <2> DEFINE s == Least(queue)
  <2>1. s \in queue /\ s \in 1..MaxSeq /\ s <= head
    BY <1>10, OldestFrame DEF ReplayNumbered
  <2>2. UNCHANGED <<head, low, link, hello, covered, again, sock>> /\ queue' \subseteq queue /\ hello = 0
    BY <1>10 DEF ReplayNumbered
  <2>3. lastSeq' \in {lastSeq, s} /\ cursor' \in {cursor, s} /\ cursorAt' \in {cursorAt, s}
    BY <1>10, <2>1 DEF ReplayNumbered, Step
  <2>4. link' \in {"online", "cut"} => cursor' <= lastSeq'
    <3>1. CASE UNCHANGED <<lastSeq, cursor>>
      BY <2>2, <3>1
    <3>2. CASE s > lastSeq /\ Step(s)
      <4>1. lastSeq' = s /\ cursor' \in {s, cursor}
        BY <3>2 DEF Step
      <4> QED
        BY <2>1, <2>2, <3>2, <4>1 DEF Seqs
    <3> QED
      BY <1>10, <2>1, <3>1, <3>2 DEF ReplayNumbered, Seqs
  <2> QED
    BY <2>1, <2>2, <2>3, <2>4
<1>11. CASE Duplicate
  BY <1>11 DEF Duplicate
<1>12. CASE Judge
  BY <1>12 DEF Judge
<1>13. ASSUME NEW m \in Message, Task(m) PROVE Behind'
  <2> USE DEF Drop
  <2>1. CASE EndWithoutTurn(m)
    BY <2>1 DEF EndWithoutTurn
  <2>2. CASE KeepOwed(m)
    BY <2>2 DEF KeepOwed
  <2>3. CASE OpenDraft(m)
    BY <2>3 DEF OpenDraft, TurnStep
  <2>4. CASE Journal(m)
    BY <2>4 DEF Journal, TurnStep
  <2>5. CASE Prompt(m)
    BY <2>5 DEF Prompt, TurnStep
  <2>6. CASE Clear(m)
    BY <2>6 DEF Clear, TurnStep
  <2>7. CASE Finish(m)
    BY <2>7 DEF Finish
  <2>8. CASE Settle(m)
    BY <2>8 DEF Settle
  <2>9. CASE Age(m)
    BY <2>9 DEF Age
  <2>10. CASE GiveUp(m)
    BY <2>10 DEF GiveUp
  <2> QED
    BY <1>13, <2>1, <2>2, <2>3, <2>4, <2>5, <2>6, <2>7, <2>8, <2>9, <2>10 DEF Task
<1>14. CASE Crash
  BY <1>14 DEF Crash
<1>15. CASE Start
  BY <1>15 DEF Start
<1>16. CASE UNCHANGED vars
  BY <1>16 DEF vars
<1> QED
  BY <1>1, <1>2, <1>3, <1>4, <1>5, <1>6, <1>7, <1>8,
     <1>9, <1>10, <1>11, <1>12, <1>13, <1>14, <1>15, <1>16 DEF Next, Api, Loop, Process

\* The outbox entry and its task move together.
LEMMA EntryStep ==
    ASSUME IInv, [Next]_vars
    PROVE  EntryFollowsTask'
<1> USE MessagesAreSeqs
        DEF IInv, EntryFollowsTask, TypeOK, Idle, server, socket, loop, disk,
            history, results, marks
<1>1. CASE Publish
  BY <1>1 DEF Publish
<1>2. CASE ApiRestart
  BY <1>2 DEF ApiRestart
<1>3. CASE Connect
  BY <1>3 DEF Connect, Live
<1>4. CASE Disconnect
  BY <1>4 DEF Disconnect, AtSocket
<1>5. CASE Anchor
  BY <1>5 DEF Anchor
<1>6. CASE CatchUp
  BY <1>6 DEF CatchUp, Answer
<1>7. CASE ReadFrame
  BY <1>7 DEF ReadFrame, Step
<1>8. CASE FillGap
  BY <1>8 DEF FillGap, Answer
<1>9. CASE ReplayAgain
  BY <1>9 DEF ReplayAgain
<1>10. CASE ReplayNumbered
  BY <1>10 DEF ReplayNumbered, Step
<1>11. CASE Duplicate
  BY <1>11 DEF Duplicate
<1>12. CASE Judge
  <2>1. hand \in Message /\ hand \notin seen /\ seen' = seen \cup {hand} /\ UNCHANGED <<entry, link>>
    BY <1>12 DEF Judge
  <2>2. ~ Taken(hand) /\ link # "down"
    BY <2>1 DEF TakenOnce, OutOfLoop
  <2>3. CASE UNCHANGED <<pend, task>>
    BY <2>1, <2>3
  <2>4. CASE task' = [task EXCEPT ![hand] = "recorded"] /\ pend' = [pend EXCEPT ![hand] = "fresh"]
    BY <2>1, <2>2, <2>4 DEF Taken
  <2> QED
    BY <1>12, <2>3, <2>4 DEF Judge
<1>13. ASSUME NEW m \in Message, Task(m) PROVE EntryFollowsTask'
  <2> USE DEF Drop
  <2>1. CASE EndWithoutTurn(m)
    BY <2>1 DEF EndWithoutTurn
  <2>2. CASE KeepOwed(m)
    BY <2>2 DEF KeepOwed
  <2>3. CASE OpenDraft(m)
    BY <2>3 DEF OpenDraft, TurnStep
  <2>4. CASE Journal(m)
    BY <2>4 DEF Journal, TurnStep
  <2>5. CASE Prompt(m)
    BY <2>5 DEF Prompt, TurnStep
  <2>6. CASE Clear(m)
    BY <2>6 DEF Clear, TurnStep
  <2>7. CASE Finish(m)
    BY <2>7 DEF Finish
  <2>8. CASE Settle(m)
    BY <2>8 DEF Settle
  <2>9. CASE Age(m)
    BY <2>9 DEF Age
  <2>10. CASE GiveUp(m)
    BY <2>10 DEF GiveUp
  <2> QED
    BY <1>13, <2>1, <2>2, <2>3, <2>4, <2>5, <2>6, <2>7, <2>8, <2>9, <2>10 DEF Task
<1>14. CASE Crash
  BY <1>14 DEF Crash
<1>15. CASE Start
  BY <1>15 DEF Start
<1>16. CASE UNCHANGED vars
  BY <1>16 DEF vars
<1> QED
  BY <1>1, <1>2, <1>3, <1>4, <1>5, <1>6, <1>7, <1>8,
     <1>9, <1>10, <1>11, <1>12, <1>13, <1>14, <1>15, <1>16 DEF Next, Api, Loop, Process

\* The trigger's entry outlives a draft that cannot be resumed.
LEMMA JournalStep ==
    ASSUME IInv, [Next]_vars
    PROVE  ThrownAwayIsJournaled'
<1> USE MessagesAreSeqs
        DEF IInv, ThrownAwayIsJournaled, EntryFollowsTask, TypeOK, Idle, server,
            socket, loop, disk, history, results, marks
<1>1. CASE Publish
  BY <1>1 DEF Publish
<1>2. CASE ApiRestart
  BY <1>2 DEF ApiRestart
<1>3. CASE Connect
  BY <1>3 DEF Connect, Live
<1>4. CASE Disconnect
  BY <1>4 DEF Disconnect
<1>5. CASE Anchor
  BY <1>5 DEF Anchor
<1>6. CASE CatchUp
  BY <1>6 DEF CatchUp, Answer
<1>7. CASE ReadFrame
  BY <1>7 DEF ReadFrame, Step
<1>8. CASE FillGap
  BY <1>8 DEF FillGap, Answer
<1>9. CASE ReplayAgain
  BY <1>9 DEF ReplayAgain
<1>10. CASE ReplayNumbered
  BY <1>10 DEF ReplayNumbered, Step
<1>11. CASE Duplicate
  BY <1>11 DEF Duplicate
<1>12. CASE Judge
  BY <1>12 DEF Judge
<1>13. ASSUME NEW m \in Message, Task(m) PROVE ThrownAwayIsJournaled'
  <2> USE DEF Drop
  <2>1. CASE EndWithoutTurn(m)
    BY <2>1 DEF EndWithoutTurn
  <2>2. CASE KeepOwed(m)
    BY <2>2 DEF KeepOwed
  <2>3. CASE OpenDraft(m)
    BY <2>3 DEF OpenDraft, TurnStep
  <2>4. CASE Journal(m)
    BY <2>4 DEF Journal, TurnStep
  <2>5. CASE Prompt(m)
    BY <2>5 DEF Prompt, TurnStep
  <2>6. CASE Clear(m)
    BY <2>6 DEF Clear, TurnStep
  <2>7. CASE Finish(m)
    BY <2>7 DEF Finish
  <2>8. CASE Settle(m)
    BY <2>8 DEF Settle
  <2>9. CASE Age(m)
    BY <2>9 DEF Age
  <2>10. CASE GiveUp(m)
    BY <2>10 DEF GiveUp
  <2> QED
    BY <1>13, <2>1, <2>2, <2>3, <2>4, <2>5, <2>6, <2>7, <2>8, <2>9, <2>10 DEF Task
<1>14. CASE Crash
  BY <1>14 DEF Crash
<1>15. CASE Start
  BY <1>15 DEF Start
<1>16. CASE UNCHANGED vars
  BY <1>16 DEF vars
<1> QED
  BY <1>1, <1>2, <1>3, <1>4, <1>5, <1>6, <1>7, <1>8,
     <1>9, <1>10, <1>11, <1>12, <1>13, <1>14, <1>15, <1>16 DEF Next, Api, Loop, Process

\* Judging settles.
LEMMA SeenStep ==
    ASSUME IInv, [Next]_vars
    PROVE  SeenIsSettled'
<1> USE MessagesAreSeqs
        DEF IInv, SeenIsSettled, EntryFollowsTask, ThrownAwayIsJournaled,
            TypeOK, Idle, Settled, server, socket, loop, disk, history, results,
            marks
<1>1. CASE Publish
  BY <1>1 DEF Publish
<1>2. CASE ApiRestart
  BY <1>2 DEF ApiRestart
<1>3. CASE Connect
  BY <1>3 DEF Connect, Live
<1>4. CASE Disconnect
  BY <1>4 DEF Disconnect
<1>5. CASE Anchor
  BY <1>5 DEF Anchor
<1>6. CASE CatchUp
  BY <1>6 DEF CatchUp, Answer
<1>7. CASE ReadFrame
  BY <1>7 DEF ReadFrame, Step
<1>8. CASE FillGap
  BY <1>8 DEF FillGap, Answer
<1>9. CASE ReplayAgain
  BY <1>9 DEF ReplayAgain
<1>10. CASE ReplayNumbered
  BY <1>10 DEF ReplayNumbered, Step
<1>11. CASE Duplicate
  BY <1>11 DEF Duplicate
<1>12. CASE Judge
  <2>1. hand \in Message /\ hand \notin seen /\ seen' = seen \cup {hand}
        /\ UNCHANGED <<entry, bubbles, reported, crashed, owed>>
    BY <1>12 DEF Judge
  <2>2. ~ Taken(hand)
    BY <2>1 DEF TakenOnce, OutOfLoop
  <2>3. CASE UNCHANGED <<pend, task>> /\ handled' = handled \cup {hand}
    BY <2>1, <2>2, <2>3 DEF Taken
  <2>4. CASE /\ task' = [task EXCEPT ![hand] = "recorded"] /\ pend' = [pend EXCEPT ![hand] = "fresh"]
             /\ UNCHANGED handled
    BY <2>1, <2>4
  <2> QED
    BY <1>12, <2>3, <2>4 DEF Judge
<1>13. ASSUME NEW m \in Message, Task(m) PROVE SeenIsSettled'
  <2> USE DEF Drop
  <2>1. CASE EndWithoutTurn(m)
    BY <2>1 DEF EndWithoutTurn
  <2>2. CASE KeepOwed(m)
    BY <2>2 DEF KeepOwed
  <2>3. CASE OpenDraft(m)
    BY <2>3 DEF OpenDraft, TurnStep
  <2>4. CASE Journal(m)
    BY <2>4 DEF Journal, TurnStep
  <2>5. CASE Prompt(m)
    BY <2>5 DEF Prompt, TurnStep
  <2>6. CASE Clear(m)
    BY <2>6 DEF Clear, TurnStep
  <2>7. CASE Finish(m)
    BY <2>7 DEF Finish
  <2>8. CASE Settle(m)
    <3>1. /\ task[m] = "settling" /\ pend[m] = "old"
          /\ UNCHANGED <<seen, entry, bubbles, reported, crashed, owed>>
      BY <2>8 DEF Settle
    <3>2. CASE Drop(m) /\ handled' = handled \cup {m}
      BY <3>1, <3>2
    <3>3. CASE task' = [task EXCEPT ![m] = "none"] /\ UNCHANGED <<pend, handled>>
      BY <3>1, <3>3
    <3> QED
      BY <2>8, <3>2, <3>3 DEF Settle
  <2>9. CASE Age(m)
    BY <2>9 DEF Age
  <2>10. CASE GiveUp(m)
    BY <2>10 DEF GiveUp
  <2> QED
    BY <1>13, <2>1, <2>2, <2>3, <2>4, <2>5, <2>6, <2>7, <2>8, <2>9, <2>10 DEF Task
<1>14. CASE Crash
  BY <1>14 DEF Crash
<1>15. CASE Start
  BY <1>15 DEF Start
<1>16. CASE UNCHANGED vars
  BY <1>16 DEF vars
<1> QED
  BY <1>1, <1>2, <1>3, <1>4, <1>5, <1>6, <1>7, <1>8,
     <1>9, <1>10, <1>11, <1>12, <1>13, <1>14, <1>15, <1>16 DEF Next, Api, Loop, Process

\* An answer ends what the journals hold.
LEMMA AnsweredStep ==
    ASSUME IInv, [Next]_vars
    PROVE  AnsweredIsDone'
<1> USE MessagesAreSeqs
        DEF IInv, AnsweredIsDone, EntryFollowsTask, ThrownAwayIsJournaled,
            TypeOK, Idle, TakenOnce, OutOfLoop, Taken, server, socket, loop,
            disk, history, results, marks
<1>1. CASE Publish
  BY <1>1 DEF Publish
<1>2. CASE ApiRestart
  BY <1>2 DEF ApiRestart
<1>3. CASE Connect
  BY <1>3 DEF Connect, Live
<1>4. CASE Disconnect
  BY <1>4 DEF Disconnect
<1>5. CASE Anchor
  BY <1>5 DEF Anchor
<1>6. CASE CatchUp
  BY <1>6 DEF CatchUp, Answer
<1>7. CASE ReadFrame
  BY <1>7 DEF ReadFrame, Step
<1>8. CASE FillGap
  BY <1>8 DEF FillGap, Answer
<1>9. CASE ReplayAgain
  BY <1>9 DEF ReplayAgain
<1>10. CASE ReplayNumbered
  BY <1>10 DEF ReplayNumbered, Step
<1>11. CASE Duplicate
  BY <1>11 DEF Duplicate
<1>12. CASE Judge
  BY <1>12 DEF Judge
<1>13. ASSUME NEW m \in Message, Task(m) PROVE AnsweredIsDone'
  <2> USE DEF Drop
  <2>1. CASE EndWithoutTurn(m)
    BY <2>1 DEF EndWithoutTurn
  <2>2. CASE KeepOwed(m)
    BY <2>2 DEF KeepOwed
  <2>3. CASE OpenDraft(m)
    BY <2>3 DEF OpenDraft, TurnStep
  <2>4. CASE Journal(m)
    BY <2>4 DEF Journal, TurnStep
  <2>5. CASE Prompt(m)
    BY <2>5 DEF Prompt, TurnStep
  <2>6. CASE Clear(m)
    BY <2>6 DEF Clear, TurnStep
  <2>7. CASE Finish(m)
    BY <2>7 DEF Finish
  <2>8. CASE Settle(m)
    BY <2>8 DEF Settle
  <2>9. CASE Age(m)
    BY <2>9 DEF Age
  <2>10. CASE GiveUp(m)
    BY <2>10 DEF GiveUp
  <2> QED
    BY <1>13, <2>1, <2>2, <2>3, <2>4, <2>5, <2>6, <2>7, <2>8, <2>9, <2>10 DEF Task
<1>14. CASE Crash
  BY <1>14 DEF Crash
<1>15. CASE Start
  BY <1>15 DEF Start
<1>16. CASE UNCHANGED vars
  BY <1>16 DEF vars
<1> QED
  BY <1>1, <1>2, <1>3, <1>4, <1>5, <1>6, <1>7, <1>8,
     <1>9, <1>10, <1>11, <1>12, <1>13, <1>14, <1>15, <1>16 DEF Next, Api, Loop, Process

\* An answer of getUpdates accounts for everything the buffer lost before it.
LEMMA AnswerAccounts ==
    ASSUME IInv, AtSocket, NEW bound \in Int, Answer(bound), NEW m \in Message, anchor < m,
           UNCHANGED <<hand, pend, entry, bubbles, handled, crashed, owed>>
    PROVE  /\ Accounted(m) => Accounted(m)'
           /\ m <= lastSeq \/ m <= cursor \/ m <= cursorAt \/ m <= covered => Accounted(m)'
           /\ m < low /\ m < bound => Accounted(m)'
           /\ (\E a \in again' : m <= a) => Accounted(m)'
<1> USE MessagesAreSeqs DEF IInv, TypeOK, Seqs
<1>1. again = {} /\ queue = {} /\ hand = 0
  BY DEF AtSocket
<1>2. Accounted(m) => Accounted(m)'
  BY <1>1 DEF Accounted, Answer
<1>3. m <= lastSeq \/ m <= cursor \/ m <= cursorAt \/ m <= covered => Accounted(m)'
  BY <1>1, <1>2 DEF Vouched
<1>4. m < low /\ m < bound => Accounted(m)'
  <2>1. CASE again' = Stored
    BY <2>1, <1>3 DEF Stored, Accounted
  <2>2. CASE reported' = reported \cup AgedOut(bound)
    BY <2>2, <1>3 DEF AgedOut, Accounted
  <2> QED
    BY <2>1, <2>2 DEF Answer
<1>5. (\E a \in again' : m <= a) => Accounted(m)'
  <2> SUFFICES ASSUME NEW a \in again', m <= a PROVE Accounted(m)'
    OBVIOUS
  <2>1. again' = Stored
    BY DEF Answer
  <2>2. m < low
    BY <2>1 DEF Stored
  <2> QED
    BY <1>3, <2>1, <2>2 DEF Stored, Accounted
<1> QED
  BY <1>2, <1>3, <1>4, <1>5

\* The cursor step onto s keeps everything behind it accounted for, when
\* everything between the cursor and s is.
LEMMA StepAccounts ==
    ASSUME IInv, NEW s \in 1..MaxSeq, Step(s), lastSeq < s, hand = 0, again = {}, again' = {},
           NEW m \in Message, anchor < m,
           Accounted(m) => Accounted(m)',
           lastSeq < m /\ m < s => Accounted(m)'
    PROVE  m <= lastSeq' \/ m <= cursor' \/ m <= cursorAt' => Accounted(m)'
<1> USE MessagesAreSeqs DEF IInv, TypeOK, Seqs
<1>1. m <= lastSeq \/ m <= cursor \/ m <= cursorAt => Accounted(m)'
  BY DEF Vouched
<1>2. m = s => Accounted(m)'
  BY DEF Step, Accounted
<1>3. m <= s => Accounted(m)'
  BY <1>1, <1>2
<1>4. lastSeq' = s /\ cursor' \in {s, cursor} /\ cursorAt' \in {s, cursorAt}
  BY DEF Step, Greater
<1> QED
  BY <1>1, <1>3, <1>4

\* Whatever the cursor, a catch-up or a replayed frame is past stays accounted for.
LEMMA VouchedStep ==
    ASSUME IInv, [Next]_vars
    PROVE  Vouched'
<1> USE MessagesAreSeqs
        DEF IInv, Vouched, Accounted, Behind, EntryFollowsTask,
            ThrownAwayIsJournaled, TypeOK, Seqs, Idle, server, socket, loop,
            disk, history, results, marks
<1>1. CASE Publish
  BY <1>1 DEF Publish
<1>2. CASE ApiRestart
  BY <1>2 DEF ApiRestart
<1>3. CASE Connect
  BY <1>3 DEF Connect, Live, TakenOnce, Passed, Taken
<1>4. CASE Disconnect
  BY <1>4 DEF Disconnect, AtSocket
<1>5. CASE Anchor
  BY <1>5 DEF Anchor, AtSocket
<1>6. CASE CatchUp
  <2>1. /\ AtSocket /\ hello # 0 /\ covered = 0
        /\ UNCHANGED <<anchor, lastSeq, cursor, cursorAt, hand, pend, entry, bubbles, handled, crashed, owed>>
    BY <1>6 DEF CatchUp
  <2>2. CASE UNCHANGED <<again, queue, covered, reported>>
    BY <2>1, <2>2
  <2>3. CASE Answer(head + 1) /\ queue' = Buffered /\ covered' = Greater(covered, head)
    <3> SUFFICES ASSUME NEW m \in Message, anchor < m
                 PROVE  /\ m <= lastSeq' \/ m <= cursor' \/ m <= cursorAt' => Accounted(m)'
                        /\ m <= covered' => m \in queue' \/ Accounted(m)'
                        /\ (\E a \in again' : m <= a) => Accounted(m)'
      BY <2>1
    <3>1. covered' = head
      BY <2>1, <2>3 DEF Greater
    <3>2. m <= head /\ m \notin Buffered => m <= lastSeq \/ m < low
      BY DEF Buffered
    <3> HIDE DEF Accounted
    <3> QED
      BY <2>1, <2>3, <3>1, <3>2, AnswerAccounts
  <2> QED
    BY <1>6, <2>2, <2>3 DEF CatchUp
<1>7. CASE ReadFrame
  <2> DEFINE s == Least(sock)
  <2>1. /\ s \in 1..MaxSeq /\ again = {} /\ queue = {} /\ hand = 0
        /\ UNCHANGED <<anchor, covered, again, queue, pend, entry, bubbles, handled, crashed, owed>>
    BY <1>7, OldestFrame DEF ReadFrame, AtSocket
  <2>2. CASE UNCHANGED <<lastSeq, cursor, cursorAt, hand, reported>>
    BY <2>1, <2>2
  <2>3. ASSUME s > lastSeq, Step(s), reported \subseteq reported',
               \A m \in Message : anchor < m /\ lastSeq < m /\ m < s => Accounted(m) \/ m \in reported'
        PROVE  Vouched'
    <3> SUFFICES ASSUME NEW m \in Message, anchor < m
                 PROVE  /\ m <= lastSeq' \/ m <= cursor' \/ m <= cursorAt' => Accounted(m)'
                        /\ m <= covered' => m \in queue' \/ Accounted(m)'
                        /\ (\E a \in again' : m <= a) => Accounted(m)'
      BY <2>1
    <3>1. Accounted(m) \/ m \in reported' => Accounted(m)'
      BY <2>1, <2>3
    <3> HIDE DEF Accounted
    <3> QED
      BY <2>1, <2>3, <3>1, StepAccounts
  <2>4. CASE s > lastSeq /\ ~Skipped(s) /\ Step(s) /\ UNCHANGED reported
    <3>1. \A m \in Message : anchor < m /\ lastSeq < m /\ m < s => m <= covered
      BY <2>1, <2>4 DEF Skipped, Greater
    <3> QED
      BY <2>1, <2>3, <2>4, <3>1
  <2>5. CASE /\ s > lastSeq /\ Step(s)
             /\ reported' = reported \cup {m \in Message : lastSeq < m /\ m < s}
    BY <2>3, <2>5
  <2> QED
    BY <1>7, <2>2, <2>4, <2>5 DEF ReadFrame
<1>8. CASE FillGap
  <2> DEFINE s == Least(sock)
  <2>1. /\ s \in 1..MaxSeq /\ AtSocket /\ Answer(s) /\ covered' = Greater(covered, s)
        /\ queue' = {m \in Buffered : m < s} \cup {s} /\ s <= head
        /\ UNCHANGED <<anchor, lastSeq, cursor, cursorAt, hand, pend, entry, bubbles, handled, crashed, owed>>
    BY <1>8, OldestFrame DEF FillGap
  <2> SUFFICES ASSUME NEW m \in Message, anchor < m
               PROVE  /\ m <= lastSeq' \/ m <= cursor' \/ m <= cursorAt' => Accounted(m)'
                      /\ m <= covered' => m \in queue' \/ Accounted(m)'
                      /\ (\E a \in again' : m <= a) => Accounted(m)'
    BY <2>1
  <2>2. m <= covered' => m <= covered \/ m <= s
    BY <2>1 DEF Greater
  <2>3. m <= s /\ m \notin queue' => m <= lastSeq \/ (m < low /\ m < s)
    BY <2>1 DEF Buffered
  <2> HIDE DEF Accounted
  <2> QED
    BY <2>1, <2>2, <2>3, AnswerAccounts
<1>9. CASE ReplayAgain
  <2> DEFINE a == Least(again)
  <2>1. /\ a \in again /\ hand = 0 /\ hand' = a /\ again' = again \ {a} /\ cursorAt' \in {cursorAt, a}
        /\ UNCHANGED <<anchor, lastSeq, cursor, covered, queue, pend, entry, bubbles, handled, reported, crashed, owed>>
    BY <1>9, LeastIsLeast DEF ReplayAgain, Greater
  <2> SUFFICES ASSUME NEW m \in Message, anchor < m
               PROVE  /\ m <= lastSeq' \/ m <= cursor' \/ m <= cursorAt' => Accounted(m)'
                      /\ m <= covered' => m \in queue' \/ Accounted(m)'
                      /\ (\E t \in again' : m <= t) => Accounted(m)'
    BY <2>1
  <2>2. Accounted(m) => Accounted(m)'
    BY <2>1
  <2> HIDE DEF Accounted
  <2> QED
    BY <2>1, <2>2
<1>10. CASE ReplayNumbered
  <2> DEFINE s == Least(queue)
  <2>1. /\ s \in queue /\ s \in 1..MaxSeq /\ (\A t \in queue : s <= t)
        /\ hand = 0 /\ again = {} /\ queue' = queue \ {s}
        /\ UNCHANGED <<anchor, covered, again, pend, entry, bubbles, handled, reported, crashed, owed>>
    BY <1>10, OldestFrame DEF ReplayNumbered
  <2> SUFFICES ASSUME NEW m \in Message, anchor < m
               PROVE  /\ m <= lastSeq' \/ m <= cursor' \/ m <= cursorAt' => Accounted(m)'
                      /\ m <= covered' => m \in queue' \/ Accounted(m)'
                      /\ (\E a \in again' : m <= a) => Accounted(m)'
    BY <2>1
  <2>2. Accounted(m) => Accounted(m)'
    BY <2>1
  <2>3. CASE s <= lastSeq /\ UNCHANGED <<lastSeq, cursor, cursorAt, hand>>
    <3> HIDE DEF Accounted
    <3> QED
      BY <2>1, <2>2, <2>3
  <2>4. CASE s > lastSeq /\ Step(s)
    <3>1. lastSeq < m /\ m < s => m \notin queue
      BY <2>1
    <3>3. s <= covered
      BY <2>1, <2>4
    <3>4. lastSeq < m /\ m < s => Accounted(m)'
      BY <2>1, <2>2, <3>1, <3>3
    <3>5. m = s => Accounted(m)'
      BY <2>1, <2>4 DEF Step
    <3> HIDE DEF Accounted
    <3>6. m <= lastSeq' \/ m <= cursor' \/ m <= cursorAt' => Accounted(m)'
      BY <2>1, <2>2, <2>4, <3>4, StepAccounts
    <3> QED
      BY <2>1, <2>2, <3>5, <3>6
  <2> QED
    BY <1>10, <2>1, <2>3, <2>4 DEF ReplayNumbered
<1>11. CASE Duplicate
  BY <1>11 DEF Duplicate, SeenIsSettled, Settled
<1>12. CASE Judge
  BY <1>12 DEF Judge
<1>13. ASSUME NEW m \in Message, Task(m) PROVE Vouched'
  <2> USE DEF Drop
  <2>1. CASE EndWithoutTurn(m)
    BY <2>1 DEF EndWithoutTurn
  <2>2. CASE KeepOwed(m)
    BY <2>2 DEF KeepOwed
  <2>3. CASE OpenDraft(m)
    BY <2>3 DEF OpenDraft, TurnStep
  <2>4. CASE Journal(m)
    BY <2>4 DEF Journal, TurnStep
  <2>5. CASE Prompt(m)
    BY <2>5 DEF Prompt, TurnStep
  <2>6. CASE Clear(m)
    BY <2>6 DEF Clear, TurnStep
  <2>7. CASE Finish(m)
    BY <2>7 DEF Finish
  <2>8. CASE Settle(m)
    BY <2>8 DEF Settle
  <2>9. CASE Age(m)
    BY <2>9 DEF Age
  <2>10. CASE GiveUp(m)
    BY <2>10 DEF GiveUp
  <2> QED
    BY <1>13, <2>1, <2>2, <2>3, <2>4, <2>5, <2>6, <2>7, <2>8, <2>9, <2>10 DEF Task
<1>14. CASE Crash
  BY <1>14 DEF Crash
<1>15. CASE Start
  <2>1. UNCHANGED <<anchor, lastSeq, covered, cursor, cursorAt, hand, again, queue, handled, reported, crashed, owed>>
    BY <1>15 DEF Start
  <2>2. ASSUME NEW m \in Message, Settled(m) PROVE Settled(m)'
    <3>1. PICK resumed \in SUBSET {x \in Message : entry[x] = "prompted"} :
            /\ pend'[m] = IF m \in resumed THEN "none" ELSE pend[m]
            /\ entry'[m] = IF m \in resumed THEN entry[m] ELSE "none"
            /\ bubbles'[m] = IF entry[m] \in {"tracked", "prompted"} /\ m \notin resumed
                             THEN bubbles[m] + 1 ELSE bubbles[m]
      BY <1>15 DEF Start
    <3>2. CASE m \in resumed
      BY <3>1, <3>2 DEF Settled
    <3>3. CASE m \notin resumed /\ entry[m] \in {"tracked", "prompted"}
      BY <3>1, <3>3 DEF Settled
    <3>4. CASE m \notin resumed /\ entry[m] \notin {"tracked", "prompted"}
      <4>1. entry[m] = "journaled" => pend[m] # "none"
        OBVIOUS
      <4>2. entry[m] \in {"none", "journaled"}
        BY <3>4 DEF Entries
      <4>3. pend'[m] = pend[m] /\ bubbles'[m] = bubbles[m]
        BY <3>1, <3>4
      <4> QED
        BY <2>1, <2>2, <4>1, <4>2, <4>3 DEF Settled
    <3> QED
      BY <3>2, <3>3, <3>4
  <2>3. \A m \in Message : Accounted(m) => Accounted(m)'
    BY <2>1, <2>2 DEF Settled
  <2> HIDE DEF Accounted
  <2> QED
    BY <2>1, <2>3
<1>16. CASE UNCHANGED vars
  BY <1>16 DEF vars
<1> QED
  BY <1>1, <1>2, <1>3, <1>4, <1>5, <1>6, <1>7, <1>8,
     <1>9, <1>10, <1>11, <1>12, <1>13, <1>14, <1>15, <1>16 DEF Next, Api, Loop, Process

\* A frame past the cursor is in nobody's journal unless this process saw it.
LEMMA StepKeepsTaken ==
    ASSUME IInv, NEW s \in queue \cup sock, Step(s), lastSeq < s,
           queue' \subseteq queue, sock' \subseteq sock,
           UNCHANGED <<low, link, again, seen, answers, entry, pend>>
    PROVE  TakenOnce'
<1> USE MessagesAreSeqs DEF IInv, TypeOK, Seqs
<1>1. /\ s \in 1..MaxSeq /\ lastSeq' = s /\ cursor' \in {s, cursor} 
      /\ cursorAt' \in {s, cursorAt} /\ cursorAt' >= cursorAt
      /\ s \in Message => hand' = s /\ cursor' = s /\ cursorAt' >= s
      /\ s \notin Message => hand' = 0
  BY DEF Step, Greater
<1>2. cursor' >= cursor
  BY <1>1 DEF Idle, Behind
<1>3. ASSUME NEW m \in Message, m \in seen \/ m = hand' \/ Taken(m) PROVE Passed(m)'
  <2>1. CASE m = hand'
    BY <1>1, <2>1 DEF Passed
  <2>2. CASE m \in seen \/ Taken(m)
    <3>1. Passed(m)
      BY <2>2 DEF TakenOnce
    <3> QED
      BY <1>1, <1>2, <3>1 DEF Passed
  <2> QED
    BY <1>3, <2>1, <2>2
<1> QED
  BY <1>1, <1>2, <1>3 DEF TakenOnce, Taken, OutOfLoop

\* A message one process took is not in another's hands.
LEMMA TakenStep ==
    ASSUME IInv, [Next]_vars
    PROVE  TakenOnce'
<1> USE MessagesAreSeqs
        DEF IInv, TakenOnce, Taken, Passed, OutOfLoop, Behind, EntryFollowsTask,
            ThrownAwayIsJournaled, AnsweredIsDone, TypeOK, Seqs, Idle, server,
            socket, loop, disk, history, results, marks
<1>1. CASE Publish
  BY <1>1 DEF Publish, Greater
<1>2. CASE ApiRestart
  BY <1>2 DEF ApiRestart
<1>3. CASE Connect
  BY <1>3 DEF Connect, Live
<1>4. CASE Disconnect
  BY <1>4 DEF Disconnect, AtSocket
<1>5. CASE Anchor
  BY <1>5 DEF Anchor, AtSocket
<1>6. CASE CatchUp
  BY <1>6 DEF CatchUp, Answer, AtSocket, Buffered, Stored
<1>7. CASE ReadFrame
  <2> DEFINE s == Least(sock)
  <2>1. /\ s \in sock /\ s \in 1..MaxSeq /\ sock' = sock \ {s} /\ hand = 0
        /\ UNCHANGED <<low, link, again, queue, seen, answers, entry, pend>>
    BY <1>7, OldestFrame DEF ReadFrame, AtSocket
  <2>2. CASE UNCHANGED <<lastSeq, cursor, cursorAt, hand>>
    BY <2>1, <2>2
  <2>3. CASE s > lastSeq /\ Step(s)
    BY <2>1, <2>3, StepKeepsTaken
  <2> QED
    BY <1>7, <2>2, <2>3 DEF ReadFrame
<1>8. CASE FillGap
  <2> DEFINE s == Least(sock)
  <2>1. /\ s \in sock /\ s \in 1..MaxSeq /\ s > lastSeq /\ sock' = sock \ {s} /\ hand = 0
        /\ queue' = {m \in Buffered : m < s} \cup {s} /\ link \in {"online", "cut"}
        /\ UNCHANGED <<low, link, hand, lastSeq, cursor, cursorAt, seen, answers, entry, pend>>
    BY <1>8, OldestFrame DEF FillGap, AtSocket
  <2>2. \A m \in again' : cursorAt < m /\ m < low
    BY <1>8 DEF FillGap, Answer, Stored
  <2>3. ASSUME NEW m \in Message, Taken(m), m \notin seen PROVE OutOfLoop(m)'
    <3>1. m \in queue' => m <= lastSeq
      BY <2>1, <2>3 DEF Buffered
    <3> QED
      BY <2>1, <2>2, <2>3, <3>1
  <2> QED
    BY <2>1, <2>2, <2>3
<1>9. CASE ReplayAgain
  <2> DEFINE a == Least(again)
  <2>1. /\ a \in again /\ hand' = a /\ again' = again \ {a}
        /\ cursorAt' \in {cursorAt, a} /\ cursorAt' >= cursorAt /\ cursorAt' >= a
        /\ UNCHANGED <<low, link, queue, sock, lastSeq, cursor, seen, answers, entry, pend>>
    <3>1. a \in again /\ a \in Message
      BY <1>9, LeastIsLeast DEF ReplayAgain
    <3>2. cursorAt' = Greater(cursorAt, a) /\ hand' = a /\ again' = again \ {a}
      BY <1>9 DEF ReplayAgain
    <3>3. UNCHANGED <<low, link, queue, sock, lastSeq, cursor, seen, answers, entry, pend>>
      BY <1>9 DEF ReplayAgain
    <3> QED
      BY <3>1, <3>2, <3>3 DEF Greater
  <2>2. ASSUME NEW m \in Message, m \in seen \/ m = hand' \/ Taken(m)' PROVE Passed(m)'
    BY <2>1, <2>2
  <2>3. ASSUME NEW m \in Message, Taken(m)', m \notin seen' PROVE OutOfLoop(m)'
    BY <2>1, <2>3
  <2> QED
    BY <2>1, <2>2, <2>3
<1>10. CASE ReplayNumbered
  <2> DEFINE s == Least(queue)
  <2>1. /\ s \in queue /\ s \in 1..MaxSeq /\ queue' = queue \ {s} /\ hand = 0
        /\ UNCHANGED <<low, link, again, sock, seen, answers, entry, pend>>
    BY <1>10, OldestFrame DEF ReplayNumbered
  <2>2. CASE UNCHANGED <<lastSeq, cursor, cursorAt, hand>>
    BY <2>1, <2>2
  <2>3. CASE s > lastSeq /\ Step(s)
    BY <2>1, <2>3, StepKeepsTaken
  <2> QED
    BY <1>10, <2>1, <2>2, <2>3 DEF ReplayNumbered
<1>11. CASE Duplicate
  BY <1>11 DEF Duplicate
<1>12. CASE Judge
  BY <1>12 DEF Judge
<1>13. ASSUME NEW m \in Message, Task(m) PROVE TakenOnce'
  <2> USE DEF Drop
  <2>1. CASE EndWithoutTurn(m)
    BY <2>1 DEF EndWithoutTurn
  <2>2. CASE KeepOwed(m)
    BY <2>2 DEF KeepOwed
  <2>3. CASE OpenDraft(m)
    BY <2>3 DEF OpenDraft, TurnStep
  <2>4. CASE Journal(m)
    BY <2>4 DEF Journal, TurnStep
  <2>5. CASE Prompt(m)
    BY <2>5 DEF Prompt, TurnStep
  <2>6. CASE Clear(m)
    BY <2>6 DEF Clear, TurnStep
  <2>7. CASE Finish(m)
    BY <2>7 DEF Finish
  <2>8. CASE Settle(m)
    BY <2>8 DEF Settle
  <2>9. CASE Age(m)
    BY <2>9 DEF Age
  <2>10. CASE GiveUp(m)
    BY <2>10 DEF GiveUp
  <2> QED
    BY <1>13, <2>1, <2>2, <2>3, <2>4, <2>5, <2>6, <2>7, <2>8, <2>9, <2>10 DEF Task
<1>14. CASE Crash
  BY <1>14 DEF Crash
<1>15. CASE Start
  BY <1>15 DEF Start
<1>16. CASE UNCHANGED vars
  BY <1>16 DEF vars
<1> QED
  BY <1>1, <1>2, <1>3, <1>4, <1>5, <1>6, <1>7, <1>8,
     <1>9, <1>10, <1>11, <1>12, <1>13, <1>14, <1>15, <1>16 DEF Next, Api, Loop, Process

-----------------------------------------------------------------------------
\* IInv holds when the first process starts, and every step keeps it.
LEMMA InitIInv == Init => IInv
<1> USE MessagesAreSeqs DEF Init
<1>1. Init => TypeOK
  BY DEF TypeOK, Seqs, Tasks, Entries
<1>2. Init => Idle /\ Behind
  BY DEF Idle, Behind
<1>3. Init => EntryFollowsTask /\ ThrownAwayIsJournaled /\ SeenIsSettled
  BY DEF EntryFollowsTask, ThrownAwayIsJournaled, SeenIsSettled
<1>4. Init => Vouched
  BY DEF Vouched
<1>5. Init => TakenOnce /\ AnsweredIsDone
  BY DEF TakenOnce, AnsweredIsDone, Taken, Passed, OutOfLoop
<1> QED
  BY <1>1, <1>2, <1>3, <1>4, <1>5 DEF IInv

\* Every step of the api, the loop, a task or a process keeps it.
LEMMA NextIInv == IInv /\ [Next]_vars => IInv'
<1> SUFFICES ASSUME IInv, [Next]_vars PROVE IInv'
  OBVIOUS
<1>1. TypeOK'
  BY TypeStep DEF IInv
<1>2. Idle' /\ Behind'
  BY IdleStep, BehindStep
<1>3. EntryFollowsTask' /\ ThrownAwayIsJournaled' /\ SeenIsSettled'
  BY EntryStep, JournalStep, SeenStep
<1>4. Vouched' /\ TakenOnce' /\ AnsweredIsDone'
  BY VouchedStep, TakenStep, AnsweredStep
<1> QED
  BY <1>1, <1>2, <1>3, <1>4 DEF IInv

\* The invariant holds in every state: whatever is skipped, truncated, replayed or
\* cut off by a crash, the journals and cursors agree on where a message is.
THEOREM Inductive == Spec => []IInv
  BY InitIInv, NextIInv, PTL DEF Spec

\* Every variable keeps its type, for every account, buffer and number of crashes.
THEOREM TypeCorrect == Spec => []TypeOK
<1>1. IInv => TypeOK
  BY DEF IInv
<1> QED
  BY <1>1, Inductive, PTL

\* No message behind the cursor is forgotten without a word: skipped by the
\* socket, aged out of the api's buffer, read by a process that died, or judged
\* and never answered, it is on its way or one of the known losses.
THEOREM NothingLost == Spec => []NoSilentLoss
<1>1. IInv => NoSilentLoss
  BY DEF IInv, Vouched, NoSilentLoss
<1> QED
  BY <1>1, Inductive, PTL

\* At most one turn is completed for a message, whatever is delivered again and
\* however often the process dies.
THEOREM AnsweredOnce == Spec => []OneAnswer
<1>1. IInv => OneAnswer
  BY MessagesAreSeqs DEF IInv, AnsweredIsDone, OneAnswer, TypeOK
<1> QED
  BY <1>1, Inductive, PTL

\* No step starts a turn for a message a turn is at work on, or that was
\* answered: the duplicate guard in a process, the pinned cursor across them.
THEOREM StartedOnce == Spec => NoSecondTurn
<1>1. IInv /\ [Next]_vars =>
        [\A m \in Message : task[m] # "recorded" /\ task'[m] = "recorded"
                            => task[m] = "none" /\ answers[m] = 0]_vars
  <2> SUFFICES ASSUME IInv, [Next]_vars, NEW m \in Message,
                      task[m] # "recorded", task'[m] = "recorded"
               PROVE  task[m] = "none" /\ answers[m] = 0
    OBVIOUS
  <2> USE DEF IInv, TypeOK, server, socket, loop, disk, history, results, marks
  <2>1. CASE Judge
    <3>1. hand = m /\ hand \notin seen
      BY <2>1 DEF Judge
    <3>2. ~ Taken(m)
      BY <3>1 DEF TakenOnce, OutOfLoop
    <3> QED
      BY <3>1, <3>2 DEF Taken, EntryFollowsTask, Tasks
  <2>2. ASSUME NEW x \in Message, Task(x) PROVE FALSE
    BY <2>2 DEF Task, EndWithoutTurn, KeepOwed, OpenDraft, Journal, Prompt, Clear, Finish,
                Settle, Age, GiveUp, TurnStep, Drop
  <2>3. ~ (Crash \/ Start \/ Connect)
    BY DEF Crash, Start, Connect
  <2>4. ~ (Api \/ Disconnect \/ Anchor \/ CatchUp \/ ReadFrame \/ FillGap
           \/ ReplayAgain \/ ReplayNumbered \/ Duplicate \/ UNCHANGED vars)
    BY DEF Api, Publish, ApiRestart, Disconnect, Anchor, CatchUp, ReadFrame, FillGap,
           ReplayAgain, ReplayNumbered, Duplicate, vars
  <2> QED
    BY <2>1, <2>2, <2>3, <2>4 DEF Next, Loop, Process
<1> QED
  BY <1>1, Inductive, PTL DEF NoSecondTurn, Spec

=============================================================================
