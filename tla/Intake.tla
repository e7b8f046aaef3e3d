------------------------------- MODULE Intake -------------------------------
(***************************************************************************)
(* How one bot's daemon takes the account's events in, and what it still   *)
(* remembers of a message when its process dies: the event cursor and its  *)
(* catch-up (src/agent.rs, connect_and_run), the journal of triggers that  *)
(* have no reply yet (src/pending.rs) and the journal of running turns     *)
(* (src/drafts.rs, resume_turns).                                          *)
(*                                                                         *)
(* An event is its sequence number.  The api numbers one account's events  *)
(* 1, 2, ...: `prev` of event s is s - 1 (the real counter is shared by    *)
(* all accounts, so it jumps; only comparisons with it are made).  The     *)
(* server time of an event is its number too.                              *)
(***************************************************************************)
EXTENDS Integers, FiniteSets

CONSTANTS
    MaxSeq,      \* bound: how many events the api numbers
    Message,     \* the durable events (is_durable_event) that may start a turn
    Backlog,     \* how many events the api's replay buffer holds
    MaxCrashes   \* bound: how often the daemon's process dies

ASSUME IntakeAssumption ==
    /\ MaxSeq \in Nat \ {0}
    /\ Message \subseteq 2..MaxSeq
    /\ Backlog \in Nat \ {0}
    /\ MaxCrashes \in Nat

Seqs == 0..MaxSeq

VARIABLES
    \* the api, for this account
    head,        \* the newest event numbered
    low,         \* the oldest event its replay buffer still has
    \* the connection
    link,        \* "down": no process | "offline" | "online" | "cut": closed by the api
    hello,       \* the head the unread hello frame on the socket names (0: none)
    sock,        \* the event frames on the socket, read in order
    \* connect_and_run
    lastSeq,     \* last_seq
    covered,     \* the highest number a catch-up has vouched for
    again,       \* unnumbered frames in `replay`, in the order they were said
    queue,       \* numbered frames in `replay`, behind those, in order
    hand,        \* the message the cursor was moved past, not judged yet (0: none)
    seen,        \* RecentSet, by message id
    task,        \* what this process is doing for each message
    \* on disk
    cursor,      \* cursors/<bot>.json
    cursorAt,    \* cursors/<bot>.at, always what last_at holds (0: none)
    pend,        \* pending-turns/<bot>/<id>.json
    entry,       \* the drafts outbox's entry of the message's reply
    \* what came of it (history)
    anchor,      \* where the first connection started to listen
    answers,     \* turns that ended with a reply to the message
    bubbles,     \* replies delivered for it, those cut off included
    handled,     \* messages that needed no reply, or got the lost-turn notice
    reported,    \* messages a log line says are gone
    owed,        \* messages whose notice could not be sent when it was due
    crashed,     \* messages read but not on disk when the process died
    crashes

server  == <<head, low>>
socket  == <<link, hello, sock>>
loop    == <<lastSeq, covered, again, queue, hand, seen>>
disk    == <<cursor, cursorAt, pend, entry>>
results == <<answers, bubbles, handled>>
marks   == <<anchor, reported, owed, crashed, crashes>>
history == <<results, marks>>
vars    == <<server, socket, loop, task, disk, history>>

\* In LIVE (pending.rs): a task of this process owns the journal entry.
Live == {m \in Message : task[m] # "none"}

\* The loop is at its socket read: nothing left to replay, nothing in hand.
AtSocket == link \in {"online", "cut"} /\ again = {} /\ queue = {} /\ hand = 0

Least(S)   == CHOOSE s \in S : \A t \in S : s <= t
Greater(a, b) == IF a >= b THEN a ELSE b

Init ==
    /\ head = 1 /\ low = 1
    /\ link = "offline" /\ hello = 0 /\ sock = {}
    /\ lastSeq = 0 /\ covered = 0 /\ again = {} /\ queue = {} /\ hand = 0 /\ seen = {}
    /\ task = [m \in Message |-> "none"]
    /\ cursor = 0 /\ cursorAt = 0
    /\ pend = [m \in Message |-> "none"]
    /\ entry = [m \in Message |-> "none"]
    /\ anchor = MaxSeq
    /\ answers = [m \in Message |-> 0]
    /\ bubbles = [m \in Message |-> 0]
    /\ handled = {} /\ reported = {} /\ owed = {} /\ crashed = {}
    /\ crashes = 0

-----------------------------------------------------------------------------
\* The api (external).

\* An event is numbered for this account.  It reaches an open socket, unless
\* the api skips it there (RecvError::Lagged); its buffer drops the oldest.
Publish ==
    /\ head < MaxSeq
    /\ head' = head + 1
    /\ low' = Greater(low, head + 2 - Backlog)
    /\ sock' \in {sock, IF link = "online" THEN sock \cup {head + 1} ELSE sock}
    /\ UNCHANGED <<link, hello, loop, task, disk, history>>

\* An api restart: the buffer is empty, the socket closes behind what it sent.
ApiRestart ==
    /\ low' = head + 1
    /\ link' = IF link = "online" THEN "cut" ELSE link
    /\ UNCHANGED <<head, hello, sock, loop, task, disk, history>>

\* What getUpdates answers to (lastSeq, cursorAt): the messages still in its
\* buffer and, when that is too short, those rebuilt from the store (they have
\* no number) - or, from an api that cannot rebuild, `truncated`: the ones
\* before `bound` are gone, and a log line says so.
Buffered == {m \in Message : lastSeq < m /\ low <= m /\ m <= head}
Stored   == {m \in Message : cursorAt < m /\ m < low}
AgedOut(bound) == {m \in Message : lastSeq < m /\ m < low /\ m < bound}
Answer(bound) ==
    \/ /\ low > lastSeq + 1 /\ cursorAt > 0
       /\ again' = Stored
       /\ UNCHANGED reported
    \/ /\ again' = {}
       /\ reported' = reported \cup AgedOut(bound)

-----------------------------------------------------------------------------
\* A connection opens: the cursor is read back, and the journaled triggers no
\* task of this process owns are replayed ahead of everything (their files
\* removed) or, past LINK_WAIT, handed to a task that sends the notice.
Connect ==
    LET orphans == {m \in Message : pend[m] # "none" /\ m \notin Live}
        fresh   == {m \in orphans : pend[m] = "fresh"}
    IN  /\ link = "offline"
        /\ link' = "online" /\ hello' = head /\ sock' = {}
        /\ lastSeq' = cursor /\ covered' = 0 /\ queue' = {}
        /\ again' = fresh
        /\ pend' = [m \in Message |-> IF m \in fresh THEN "none" ELSE pend[m]]
        /\ task' = [m \in Message |-> IF m \in orphans \ fresh THEN "settling" ELSE task[m]]
        /\ UNCHANGED <<server, hand, seen, cursor, cursorAt, entry, history>>

\* The read fails or times out (90 s): back to the reconnect loop.
Disconnect ==
    /\ AtSocket
    /\ link' = "offline" /\ hello' = 0 /\ sock' = {}
    /\ UNCHANGED <<server, loop, task, disk, history>>

\* hello on a first connection (or one whose cursor is ahead): start from here.
Anchor ==
    /\ AtSocket /\ hello # 0
    /\ lastSeq = 0 \/ lastSeq > hello
    /\ hello' = 0
    /\ lastSeq' = hello /\ cursor' = hello
    /\ anchor' = hello
    /\ UNCHANGED <<server, link, sock, covered, again, queue, hand, seen, task,
                   cursorAt, pend, entry, results, reported, owed, crashed, crashes>>

\* hello: fetch the gap and queue it ahead of the socket - or give up after
\* five attempts and leave it to the next frame's gap check.
CatchUp ==
    /\ AtSocket /\ hello # 0
    /\ lastSeq # 0 /\ lastSeq <= hello
    /\ hello' = 0
    /\ \/ /\ lastSeq < hello
          /\ Answer(head + 1)
          /\ queue' = Buffered
          /\ covered' = Greater(covered, head)
       \/ UNCHANGED <<again, queue, covered, reported>>
    /\ UNCHANGED <<server, link, sock, lastSeq, hand, seen, task, disk, anchor,
                   results, owed, crashed, crashes>>

-----------------------------------------------------------------------------
\* Mutant of Step: the cursor holds the next event instead of the last.
StepNext(s) ==
    /\ lastSeq' = s + 1
    /\ cursor' \in IF s \in Message THEN {s + 1} ELSE {s + 1, cursor}
    /\ cursorAt' = IF s \in Message THEN Greater(cursorAt, s) ELSE cursorAt
    /\ hand' = IF s \in Message THEN s ELSE 0

\* Mutant of Step: a message, too, leaves the cursor's file to the two seconds.
StepUnpinned(s) ==
    /\ lastSeq' = s
    /\ cursor' \in {s, cursor}
    /\ cursorAt' = IF s \in Message THEN Greater(cursorAt, s) ELSE cursorAt
    /\ hand' = IF s \in Message THEN s ELSE 0

\* The cursor step for event s.  A message pins the cursor to disk now, other
\* events at most every two seconds.
Step(s) ==
    /\ lastSeq' = s
    /\ cursor' \in IF s \in Message THEN {s} ELSE {s, cursor}
    /\ cursorAt' = IF s \in Message THEN Greater(cursorAt, s) ELSE cursorAt
    /\ hand' = IF s \in Message THEN s ELSE 0

\* Mutant of Skipped: off by one.
SkippedMore(s) == s - 1 > Greater(lastSeq, covered) + 1

Skipped(s) == s - 1 > Greater(lastSeq, covered)

\* A live frame, none missed before it - or missed and not to be had.
ReadFrame ==
    /\ AtSocket /\ hello = 0 /\ sock # {}
    /\ LET s == Least(sock)
       IN  /\ sock' = sock \ {s}
           /\ \/ /\ s <= lastSeq
                 /\ UNCHANGED <<lastSeq, cursor, cursorAt, hand, reported>>
              \/ /\ s > lastSeq /\ ~Skipped(s)
                 /\ Step(s)
                 /\ UNCHANGED reported
              \/ /\ s > lastSeq /\ Skipped(s)
                 /\ Step(s)
                 /\ reported' = reported \cup {m \in Message : lastSeq < m /\ m < s}
    /\ UNCHANGED <<server, link, hello, covered, again, queue, seen, task, pend, entry,
                   anchor, results, owed, crashed, crashes>>

\* A live frame that shows the socket skipped something: what came before it
\* is fetched and queued, and the frame goes back behind that.
FillGap ==
    /\ AtSocket /\ hello = 0 /\ sock # {}
    /\ LET s == Least(sock)
       IN  /\ s > lastSeq /\ Skipped(s)
           /\ sock' = sock \ {s}
           /\ Answer(s)
           /\ queue' = {m \in Buffered : m < s} \cup {s}
           /\ covered' = Greater(covered, s)
    /\ UNCHANGED <<server, link, hello, lastSeq, hand, seen, task, disk, anchor,
                   results, owed, crashed, crashes>>

\* The next unnumbered frame of `replay`: no cursor step, only its time.
ReplayAgain ==
    /\ hand = 0 /\ again # {}
    /\ hand' = Least(again)
    /\ again' = again \ {Least(again)}
    /\ cursorAt' = Greater(cursorAt, Least(again))
    /\ UNCHANGED <<server, socket, lastSeq, covered, queue, seen, task, cursor, pend,
                   entry, history>>

\* The next numbered frame of `replay`.
ReplayNumbered ==
    /\ hand = 0 /\ again = {} /\ queue # {}
    /\ LET s == Least(queue)
       IN  /\ queue' = queue \ {s}
           /\ IF s <= lastSeq
              THEN UNCHANGED <<lastSeq, cursor, cursorAt, hand>>
              ELSE Step(s)
    /\ UNCHANGED <<server, socket, covered, again, seen, task, pend, entry, history>>

-----------------------------------------------------------------------------
\* The message in hand reaches the duplicate guard.  Fresh, it is judged: it
\* needs no turn (a gate, a control command), or it is journaled and a task is
\* started for it.
Duplicate ==
    /\ hand # 0 /\ hand \in seen
    /\ hand' = 0
    /\ UNCHANGED <<server, socket, lastSeq, covered, again, queue, seen, task, disk, history>>

Judge ==
    /\ hand # 0 /\ hand \notin seen
    /\ hand' = 0
    /\ seen' = seen \cup {hand}
    /\ \/ /\ handled' = handled \cup {hand}
          /\ UNCHANGED <<pend, task>>
       \/ /\ pend' = [pend EXCEPT ![hand] = "fresh"]
          /\ task' = [task EXCEPT ![hand] = "recorded"]
          /\ UNCHANGED handled
    /\ UNCHANGED <<server, socket, lastSeq, covered, again, queue, cursor, cursorAt, entry,
                   answers, bubbles, marks>>

\* A task ends: its guard takes the journal entry with it.
Drop(m) ==
    /\ task' = [task EXCEPT ![m] = "none"]
    /\ pend' = [pend EXCEPT ![m] = "none"]

\* The task returns without a turn (steered, refused by the server, a silent
\* floor seat), or its draft cannot be opened and the sender is told.
EndWithoutTurn(m) ==
    /\ task[m] = "recorded"
    /\ Drop(m)
    /\ handled' = handled \cup {m}
    /\ UNCHANGED <<server, socket, loop, cursor, cursorAt, entry, answers, bubbles, marks>>

\* Neither the draft nor the notice got through: the entry is kept.
KeepOwed(m) ==
    /\ task[m] = "recorded"
    /\ task' = [task EXCEPT ![m] = "none"]
    /\ owed' = owed \cup {m}
    /\ UNCHANGED <<server, socket, loop, disk, results, anchor, reported, crashed, crashes>>

\* The four durable steps of a turn's setup: its draft is open and tracked; its
\* journal is attached; the journal holds the prompt; the trigger is cleared.
TurnStep(m, from, to, disks) ==
    /\ task[m] = from
    /\ task' = [task EXCEPT ![m] = to]
    /\ disks
    /\ UNCHANGED <<server, socket, loop, cursor, cursorAt, history>>

OpenDraft(m) == TurnStep(m, "recorded", "drafted",
                    entry' = [entry EXCEPT ![m] = "tracked"] /\ UNCHANGED pend)
Journal(m)   == TurnStep(m, "drafted", "journaled",
                    entry' = [entry EXCEPT ![m] = "journaled"] /\ UNCHANGED pend)
Prompt(m)    == TurnStep(m, "journaled", "prompted",
                    entry' = [entry EXCEPT ![m] = "prompted"] /\ UNCHANGED pend)
Clear(m)     == TurnStep(m, "prompted", "running",
                    pend' = [pend EXCEPT ![m] = "none"] /\ UNCHANGED entry)

\* Mutant of Finish: the turn's journal outlives its reply.
FinishJournaled(m) ==
    /\ task[m] \in {"running", "resumed"}
    /\ Drop(m)
    /\ answers' = [answers EXCEPT ![m] = @ + 1]
    /\ bubbles' = [bubbles EXCEPT ![m] = @ + 1]
    /\ UNCHANGED <<server, socket, loop, cursor, cursorAt, entry, handled, marks>>

\* The reply is finished and handed to the outbox, which delivers it.
Finish(m) ==
    /\ task[m] \in {"running", "resumed"}
    /\ Drop(m)
    /\ entry' = [entry EXCEPT ![m] = "none"]
    /\ answers' = [answers EXCEPT ![m] = @ + 1]
    /\ bubbles' = [bubbles EXCEPT ![m] = @ + 1]
    /\ UNCHANGED <<server, socket, loop, cursor, cursorAt, handled, marks>>

\* A notice task's send, through or not (then the next connection tries again).
Settle(m) ==
    /\ task[m] = "settling"
    /\ \/ /\ Drop(m)
          /\ handled' = handled \cup {m}
       \/ /\ task' = [task EXCEPT ![m] = "none"]
          /\ UNCHANGED <<pend, handled>>
    /\ UNCHANGED <<server, socket, loop, cursor, cursorAt, entry, answers, bubbles, marks>>

\* LINK_WAIT passes for a journaled trigger.
Age(m) ==
    /\ pend[m] = "fresh"
    /\ pend' = [pend EXCEPT ![m] = "old"]
    /\ UNCHANGED <<server, socket, loop, task, cursor, cursorAt, entry, history>>

-----------------------------------------------------------------------------
\* The process dies.  What it had read and not written is gone with it.
Crash ==
    /\ link # "down" /\ crashes < MaxCrashes
    /\ crashes' = crashes + 1
    /\ link' = "down" /\ hello' = 0 /\ sock' = {}
    /\ lastSeq' = 0 /\ covered' = 0 /\ again' = {} /\ queue' = {} /\ hand' = 0 /\ seen' = {}
    /\ task' = [m \in Message |-> "none"]
    /\ crashed' = crashed \cup ({hand} \cap Message)
                        \cup {m \in again : m <= cursor \/ m <= cursorAt}
    /\ UNCHANGED <<server, disk, results, anchor, reported, owed>>

\* The next process starts (Outbox::load, resume_turns): a journaled turn with
\* no prompt is thrown away; one with a prompt is run again, or (too old,
\* resumed too often, not continuable) finalized as it stands, like a draft
\* with no journal.  A resumed turn's trigger is struck off the journal.
Start ==
    /\ link = "down"
    /\ link' = "offline"
    /\ \E resumed \in SUBSET {m \in Message : entry[m] = "prompted"} :
          /\ task' = [m \in Message |-> IF m \in resumed THEN "resumed" ELSE "none"]
          /\ pend' = [m \in Message |-> IF m \in resumed THEN "none" ELSE pend[m]]
          /\ entry' = [m \in Message |-> IF m \in resumed THEN entry[m] ELSE "none"]
          /\ bubbles' = [m \in Message |->
                IF entry[m] \in {"tracked", "prompted"} /\ m \notin resumed
                THEN bubbles[m] + 1 ELSE bubbles[m]]
    /\ UNCHANGED <<server, hello, sock, loop, cursor, cursorAt, answers, handled, marks>>

\* A turn taken back up cannot be: finalized as it stands (its process still
\* runs, its draft cannot be read, another harness) - or its draft was ended or
\* deleted meanwhile, and there is nothing left to do.
GiveUp(m) ==
    /\ task[m] = "resumed"
    /\ Drop(m)
    /\ entry' = [entry EXCEPT ![m] = "none"]
    /\ \/ /\ bubbles' = [bubbles EXCEPT ![m] = @ + 1]
          /\ UNCHANGED handled
       \/ /\ handled' = handled \cup {m}
          /\ UNCHANGED bubbles
    /\ UNCHANGED <<server, socket, loop, cursor, cursorAt, answers, marks>>

-----------------------------------------------------------------------------
Api  == Publish \/ ApiRestart
Loop == \/ Connect \/ Disconnect \/ Anchor \/ CatchUp \/ ReadFrame \/ FillGap
        \/ ReplayAgain \/ ReplayNumbered \/ Duplicate \/ Judge
Task(m) == \/ EndWithoutTurn(m) \/ KeepOwed(m) \/ OpenDraft(m) \/ Journal(m) \/ Prompt(m)
           \/ Clear(m) \/ Finish(m) \/ Settle(m) \/ Age(m) \/ GiveUp(m)
Process == Crash \/ Start

Next == Api \/ Loop \/ (\E m \in Message : Task(m)) \/ Process
Spec == Init /\ [][Next]_vars

-----------------------------------------------------------------------------
\* Properties.

Tasks   == {"none", "recorded", "drafted", "journaled", "prompted", "running",
            "resumed", "settling"}
Entries == {"none", "tracked", "journaled", "prompted"}

\* The types of the variables.
TypeOK ==
    /\ head \in 1..MaxSeq /\ low \in 1..MaxSeq + 1
    /\ link \in {"down", "offline", "online", "cut"}
    /\ hello \in Seqs /\ sock \subseteq 1..MaxSeq
    /\ lastSeq \in Seqs /\ covered \in Seqs
    /\ again \subseteq Message /\ queue \subseteq 1..MaxSeq
    /\ hand \in Message \cup {0} /\ seen \subseteq Message
    /\ task \in [Message -> Tasks]
    /\ cursor \in Seqs /\ cursorAt \in Seqs
    /\ pend \in [Message -> {"none", "fresh", "old"}]
    /\ entry \in [Message -> Entries]
    /\ anchor \in Seqs
    /\ answers \in [Message -> Nat] /\ bubbles \in [Message -> Nat]
    /\ handled \subseteq Message /\ reported \subseteq Message
    /\ owed \subseteq Message /\ crashed \subseteq Message
    /\ crashes \in Nat

\* Where a message the cursor has passed may be.  The last three are the ways
\* the code is known to let one go: a log line said so, the process died with
\* it read but not written (the cursor is pinned first, on purpose), or its
\* notice was once owed: kept for the next connection, which drops it as seen.
Accounted(m) ==
    \/ m = hand \/ m \in again
    \/ pend[m] # "none" \/ entry[m] # "none"
    \/ bubbles[m] > 0 \/ m \in handled
    \/ m \in reported \/ m \in crashed \/ m \in owed

\* The cursor never moves past a message that is then forgotten: whatever the
\* socket skipped, the catch-up missed or a restart cut off, a message behind
\* the cursor is on its way to a reply, or had one, or its loss was said.
NoSilentLoss ==
    \A m \in Message : anchor < m /\ (m <= lastSeq \/ m <= cursor) => Accounted(m)

\* However often the process dies and events are delivered again, at most one
\* turn runs to its end for a message.
OneAnswer == \A m \in Message : answers[m] <= 1

\* A turn is never started for a message a turn of this process is at work on,
\* or that was answered.
NoSecondTurn ==
    [][\A m \in Message :
         task[m] # "recorded" /\ task'[m] = "recorded"
         => task[m] = "none" /\ answers[m] = 0]_vars

=============================================================================
