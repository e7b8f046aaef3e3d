-------------------------------- MODULE Inbox ---------------------------------
(***************************************************************************)
(* The inbox loop (src/inbox.rs, `mafold agent --inbox`): an account that   *)
(* reads its chats the way a person does. A glance finds what is unread, a  *)
(* look reads it and runs one turn over it, what comes in meanwhile is      *)
(* steered into that turn, and only then the server's read markers move.    *)
(*                                                                         *)
(* A message is its place in the order of the server (`created_at`). A      *)
(* reply still being written has its place already, and moves past "read"   *)
(* with the marker: what finishes behind it the server counts once more,    *)
(* and the loop knows it only by having watched it.                         *)
(***************************************************************************)
EXTENDS Integers, Sequences, FiniteSets

CONSTANTS
    Timeline,     \* chats and channels
    Posted,       \* what is posted in each: "call", "word", "stop" (people), "chat" (an AI)
    Brake,        \* AI_STREAK_BRAKE
    ContextLines, \* CONTEXT_LINES: read lines a page has above the new ones
    MaxSends,     \* bound: sends on their way at once
    MaxMsg,       \* bound: messages; so few that a page has them all
    MaxTrouble    \* bound: reads, writes, marks and turns that fail, crashes

Kind == {"call", "word", "stop", "chat"}

ASSUME InboxAssumption ==
    /\ Posted \in [Timeline -> SUBSET Kind]
    /\ Brake \in Nat \ {0} /\ MaxTrouble \in Nat /\ MaxSends \in Nat
    /\ ContextLines \in Nat /\ MaxMsg \in 1 .. ContextLines

VARIABLES
    \* the server
    msgs,         \* what was posted: where, which kind, whether finished
    marker,       \* of each timeline: the newest message marked read (0: none)
    risen,        \* replies that finished behind it, counted once more
    \* State, and what the file has of it
    watching,     \* replies the marker passed unfinished
    markedAt,     \* marked_at: the newest this loop marked
    streak,       \* ai_streak: exchanges with AI alone
    saved,
    \* the look
    phase,        \* "idle" | "look" | "turn" | "mark" | "save"
    count,        \* the badge of each timeline it opens, as the glance had it
    keys, humans, \* turn_keys; timelines where a person is among the new
    markers,      \* Markers: messages to mark
    drafts,       \* Book::watch: replies seen unfinished
    delivered,    \* Book::delivered: watched ones now handed over
    steered,      \* messages steered into the turn
    mailbox,      \* lines in it, not yet taken: <<message, in full>>
    toMark,       \* timelines still to be marked
    \* the ledger of the send guard
    started,      \* the newest message when the look began
    floor,        \* Seen::timelines: the newest shown of each (0: none)
    queued,       \* Seen::queued: lines put in the mailbox
    typing,       \* sends the guard let through: where, and the newest message it looked at
    spoke,        \* timelines of the look the turn sent to
    \* what came of it (history)
    shown, told,  \* by this turn: in full; in any way
    heard,        \* in full, by a turn that ended well
    aside, lost,  \* not handed over, for the brake; by an oversight
    shelved, slipped,     \* such messages, once the marker has passed them
    trouble

server  == <<msgs, marker, risen>>
state   == <<watching, markedAt, streak>>
book    == <<markers, drafts, delivered>>
look    == <<count, keys, humans, steered, mailbox, toMark>>
ledger  == <<started, floor, queued, typing, spoke>>
turnSaw == <<shown, told, aside, lost>>
history == <<heard, shelved, slipped>>
vars == <<server, state, saved, phase, look, book, ledger, turnSaw, history, trouble>>

Spend == trouble < MaxTrouble /\ trouble' = trouble + 1

Biggest(S)   == CHOOSE i \in S \cup {0} : \A j \in S : j <= i
Newest(n, S) == {i \in S : Cardinality({j \in S : j > i}) < n}
Less(a, b)   == IF a > b THEN a - b ELSE 0

Msgs     == DOMAIN msgs
Of(t)    == {i \in Msgs : msgs[i].tl = t}
Done     == {i \in Msgs : msgs[i].done}
Human    == {i \in Msgs : msgs[i].kind # "chat"}
Stops    == {i \in Msgs : msgs[i].kind = "stop"}
Wakes    == {i \in Done : msgs[i].kind \in {"call", "stop"}}     \* wakes_now
Passed   == {i \in Msgs : i <= marker[msgs[i].tl]}
Counted  == (Msgs \ Passed) \cup risen
Badge(t) == Cardinality(Counted \cap Of(t))
Braked(t) == streak[t] >= Brake

State == [watching |-> watching, markedAt |-> markedAt, streak |-> streak]
None  == [t \in Timeline |-> 0]

Forgotten ==      \* the locals of a look
    /\ count' = None /\ keys' = {} /\ humans' = {} /\ steered' = {} /\ mailbox' = {}
    /\ toMark' = {} /\ markers' = {} /\ drafts' = {} /\ delivered' = {}
    /\ started' = 0 /\ floor' = None /\ queued' = {} /\ typing' = {} /\ spoke' = {}
    /\ shown' = {} /\ told' = {} /\ aside' = {} /\ lost' = {}

Init ==
    /\ msgs = <<>> /\ marker = None /\ risen = {}
    /\ watching = {} /\ markedAt = None /\ streak = None /\ saved = State
    /\ phase = "idle"
    /\ count = None /\ keys = {} /\ humans = {} /\ steered = {} /\ mailbox = {}
    /\ toMark = {} /\ markers = {} /\ drafts = {} /\ delivered = {}
    /\ started = 0 /\ floor = None /\ queued = {} /\ typing = {} /\ spoke = {}
    /\ shown = {} /\ told = {} /\ aside = {} /\ lost = {}
    /\ heard = {} /\ shelved = {} /\ slipped = {} /\ trouble = 0

-----------------------------------------------------------------------------
\* Everybody else.

Post(t, kind) ==
    /\ Len(msgs) < MaxMsg /\ kind \in Posted[t]
    /\ msgs' = Append(msgs, [tl |-> t, kind |-> kind, done |-> TRUE])
    /\ UNCHANGED <<marker, risen, state, saved, phase, look, book, ledger, turnSaw, history, trouble>>

\* An agent starts a reply (one that is there at once is one begun and finished).
Begin(t) ==
    /\ Len(msgs) < MaxMsg /\ "chat" \in Posted[t]
    /\ msgs' = Append(msgs, [tl |-> t, kind |-> "chat", done |-> FALSE])
    /\ UNCHANGED <<marker, risen, state, saved, phase, look, book, ledger, turnSaw, history, trouble>>

\* It is finished: behind the marker, the server counts it once more.
Finish(i) ==
    /\ i \in Msgs \ Done
    /\ msgs' = [msgs EXCEPT ![i].done = TRUE]
    /\ risen' = IF i \in Passed THEN risen \cup {i} ELSE risen
    /\ UNCHANGED <<marker, state, saved, phase, look, book, ledger, turnSaw, history, trouble>>

-----------------------------------------------------------------------------
\* Reading a timeline.

Working(t)  == Of(t) \ Done
Finished(t) == watching \cap Of(t) \cap Done                     \* check_watched
Risen(t)    == {i \in Finished(t) : i <= markedAt[t]}

\* Mutant of New: a reply still being written is handed over as a message.
NewDrafts(t, badge) == Newest(Less(badge, Cardinality(Risen(t))), Of(t)) \cup Risen(t)

\* arrange, split_new: which of the page are new, by the badge.
New(t, badge) ==
    LET ahead      == {i \in Working(t) : i > markedAt[t]}
        positional == Less(badge, Cardinality(Risen(t)) + Cardinality(ahead))
    IN Newest(positional, Of(t) \cap Done) \cup Risen(t)

\* Those whose page holds something a phone would buzz for.
Buzzing == {t \in Timeline : Newest(Badge(t), Of(t)) \cap Wakes # {}}

\* A glance, and the timelines it opens: all of them (a heartbeat), or those that
\* buzz (a page that did not come does not).
Opens(open) ==
    /\ phase = "idle" /\ open # {}
    /\ phase' = "look"
    /\ count' = [t \in Timeline |-> IF t \in open THEN Badge(t) ELSE 0]
    /\ started' = Len(msgs)
    /\ UNCHANGED <<server, state, saved, keys, humans, steered, mailbox, toMark, book, floor, queued, typing, spoke, turnSaw, history>>

\* Mutant of Heartbeat: it opens only what buzzes.
HeartbeatBuzz == Opens(Buzzing) /\ UNCHANGED trouble

Heartbeat == Opens({t \in Timeline : Badge(t) > 0}) /\ UNCHANGED trouble

Buzz == \E open \in SUBSET Buzzing : Opens(open) /\ IF open = Buzzing THEN UNCHANGED trouble ELSE Spend

\* look: read what is opened (a page may not come); what is braked is only to be
\* marked, and with nothing else there is no turn.
Look ==
    LET new(t)   == New(t, count[t])
        opened   == {t \in Timeline : count[t] > 0}
        ofPeople == {t \in opened : new(t) \cap Human # {}}
        braked   == {t \in opened : new(t) # {} /\ t \notin ofPeople /\ Braked(t)}
    IN
    /\ phase = "look"
    /\ \E read \in SUBSET opened :
        LET all   == UNION {new(t) : t \in read}
            batch == {t \in read \ braked : new(t) # {}}
            full  == UNION {Of(t) \cap Done : t \in batch}
        IN
        /\ IF read = opened THEN UNCHANGED trouble ELSE Spend
        /\ markers' = all
        /\ drafts' = UNION {Working(t) : t \in read}
        /\ delivered' = all \cap watching
        /\ humans' = ofPeople \cap read
        /\ keys' = batch
        /\ shown' = full
        /\ told' = UNION {Of(t) : t \in batch}
        /\ aside' = UNION {Of(t) \cap Done : t \in braked \cap read}
        /\ floor' = [t \in Timeline |-> IF t \in batch THEN Biggest(Of(t)) ELSE 0]
        /\ phase' = IF batch = {} THEN "mark" ELSE "turn"
        /\ toMark' = IF batch = {} THEN {msgs[i].tl : i \in all} ELSE {}
    /\ UNCHANGED <<server, state, saved, count, steered, mailbox, started, queued, typing, spoke, lost, history>>

-----------------------------------------------------------------------------
\* The turn.

\* steer_check: what came in meanwhile goes into the turn's mailbox.
Aside(t)   == {i \in New(t, Badge(t)) \ (markers \cup Stops) : Braked(t) /\ i \notin Human}
Passing(t) == {i \in New(t, Badge(t)) \ (markers \cup Stops \cup Aside(t)) : t \in keys \/ i \in Wakes}
Status(t)  == IF t \in keys THEN Working(t) \ (watching \cup drafts) ELSE {}

\* What a marker at a line of T leaves behind, neither shown nor to be watched.
Leapt(S, T) == {i \in S \ (shown \cup drafts) : \E j \in T : j > i /\ msgs[j].tl = msgs[i].tl}

Steer ==
    LET unread  == {t \in Timeline : Badge(t) > 0}
        passing == UNION {Passing(t) : t \in unread}
        status  == UNION {Status(t) : t \in unread}
        stops   == ((UNION {New(t, Badge(t)) : t \in unread}) \cap Stops) \ markers
        working == UNION {Working(t) : t \in unread}
        left    == Leapt(Done \ (heard \cup markers \cup passing \cup stops), passing \cup stops \cup status)
        undone  == status \cup (passing \cap watching) \cup Leapt(passing, stops)
        braked  == UNION {Aside(t) : t \in unread}
    IN
    /\ phase = "turn"
    /\ passing \cup stops \cup (working \ drafts) # {}
    /\ drafts' = drafts \cup working
    /\ delivered' = delivered \cup (passing \cap watching)
    /\ aside' = aside \cup (left \cap braked)
    /\ \E written \in BOOLEAN :
        /\ IF written THEN UNCHANGED trouble ELSE Spend /\ passing \cup status # {}
        /\ lost' = lost \cup (left \ braked) \cup (IF written THEN {} ELSE undone)
        /\ markers' = markers \cup stops \cup (IF written THEN passing ELSE {})
        /\ steered' = IF written THEN steered \cup passing ELSE steered
        /\ queued' = IF written THEN queued \cup passing \cup status ELSE queued
        /\ mailbox' = IF written THEN mailbox \cup (passing \X {TRUE}) \cup (status \X {FALSE}) ELSE mailbox
    /\ UNCHANGED <<server, state, saved, phase, count, keys, humans, toMark, started, floor, typing, spoke, shown, told, history>>

\* What lies in the mailbox; and what lies there to be read, no mere status.
InMailbox == {l[1] : l \in mailbox}
InFull    == {l[1] : l \in {x \in mailbox : x[2]}}

\* steer_hook: the model is handed what the mailbox holds.
Take ==
    /\ phase = "turn" /\ mailbox # {}
    /\ mailbox' = {}
    /\ shown' = shown \cup InFull
    /\ told' = told \cup InMailbox
    /\ UNCHANGED <<server, state, saved, phase, count, keys, humans, steered, toMark, book, ledger, aside, lost, history, trouble>>

\* send_guard: what the agent has seen of a timeline when it speaks there.
\* Mutant of Floor: what lies in the mailbox counts as seen.
FloorQueued(t) == Biggest({IF floor[t] = 0 THEN started ELSE floor[t]} \cup (queued \cap Of(t)))

Floor(t) == Biggest({IF floor[t] = 0 THEN started ELSE floor[t]} \cup ((queued \cap Of(t)) \ InMailbox))

Fresh(t) == {i \in Of(t) : i > Floor(t)}

\* `mafold send` asks the guard: the message is let through, or held back and what is
\* new is shown instead.
Check(t) ==
    /\ phase = "turn" /\ Cardinality(typing) < MaxSends
    /\ IF Fresh(t) = {}
       THEN typing' = typing \cup {<<t, Len(msgs)>>} /\ UNCHANGED <<floor, told>>
       ELSE /\ floor' = [floor EXCEPT ![t] = Biggest(Fresh(t))] /\ told' = told \cup Fresh(t)
            /\ UNCHANGED typing
    /\ UNCHANGED <<server, state, saved, phase, look, book, started, queued, spoke, shown, aside, lost, history, trouble>>

\* pace_typing, and then the request: it goes out, whatever was said meanwhile, or fails.
Speak(s) ==
    /\ phase = "turn" /\ s \in typing
    /\ typing' = typing \ {s}
    /\ spoke' \in {spoke, spoke \cup (keys \cap {s[1]})}
    /\ UNCHANGED <<server, state, saved, phase, look, book, started, floor, queued, turnSaw, history, trouble>>

\* A message no guard looked for: with `--anyway`, into a thread, or its page did not come.
Blurt(t) ==
    /\ phase = "turn"
    /\ spoke' = spoke \cup (keys \cap {t})
    /\ UNCHANGED <<server, state, saved, phase, look, book, started, floor, queued, typing, turnSaw, history, trouble>>

\* The turn ends, well (or stopped): what is left in the mailbox stays unread, and what
\* it was still typing is not followed any further.
Over ==
    LET left == steered \cap InFull IN
    /\ phase = "turn"
    /\ phase' = "mark"
    /\ markers' = markers \ left
    /\ toMark' = {msgs[i].tl : i \in markers \ left}
    /\ heard' = heard \cup shown
    /\ lost' = (lost \cup (left \cap delivered) \cup Leapt(left, markers \ left)) \ shown
    /\ mailbox' = {} /\ typing' = {}
    /\ UNCHANGED <<server, state, saved, count, keys, humans, steered, drafts, delivered, started, floor, queued, spoke, shown, told, aside, shelved, slipped, trouble>>

\* Or it fails, and nothing is marked.
Fails ==
    /\ phase = "turn" /\ Spend
    /\ phase' = "idle" /\ Forgotten
    /\ UNCHANGED <<server, state, saved, history>>

-----------------------------------------------------------------------------
\* Marking read.

\* Markers::mark: one timeline after another, each may fail.
Mark(t) ==
    LET to     == Biggest(markers \cap Of(t))
        passes == {i \in Of(t) : i <= to}
    IN
    /\ phase = "mark" /\ t \in toMark
    /\ toMark' = toMark \ {t}
    /\ \/ /\ marker' = [marker EXCEPT ![t] = Biggest({@, to})]
          /\ risen' = risen \ Of(t)
          /\ shelved' = shelved \cup (aside \cap passes)
          /\ slipped' = slipped \cup (lost \cap (passes \cup Passed))
          /\ UNCHANGED trouble
       \/ /\ Spend
          /\ slipped' = slipped \cup ((aside \cup lost) \cap Of(t) \cap Passed)
          /\ UNCHANGED <<marker, risen, shelved>>
    /\ UNCHANGED <<msgs, state, saved, phase, count, keys, humans, steered, mailbox, book, ledger, turnSaw, heard>>

\* Mutant of Settle: what the marker passed by the time of the last look is watched.
SettleEarly ==
    /\ phase = "mark" /\ toMark = {}
    /\ phase' = "save"
    /\ markedAt' = [t \in Timeline |-> Biggest({markedAt[t]} \cup (markers \cap Of(t)))]
    /\ watching' = (watching \ delivered) \cup {d \in drafts : d < markedAt[msgs[d].tl]}
    /\ slipped' = slipped \cup (lost \cap Passed)
    /\ UNCHANGED <<server, streak, saved, look, book, ledger, turnSaw, heard, shelved, trouble>>

\* Book::settle, update_streaks.
Settle ==
    LET upTo(t) == Biggest({markedAt[t]} \cup (markers \cap Of(t)))
        passed  == {d \in drafts : d < upTo(msgs[d].tl)}
    IN
    /\ phase = "mark" /\ toMark = {}
    /\ phase' = "save"
    /\ markedAt' = [t \in Timeline |-> upTo(t)]
    /\ watching' = (watching \ delivered) \cup passed
    /\ streak' = [t \in Timeline |->
                    IF keys = {} THEN streak[t]
                    ELSE IF t \in humans THEN 0
                    ELSE IF t \in spoke /\ streak[t] < Brake THEN streak[t] + 1
                    ELSE streak[t]]
    /\ slipped' = slipped \cup (lost \cap Passed)
    /\ UNCHANGED <<server, saved, look, book, ledger, turnSaw, heard, shelved, trouble>>

\* save_state, and the look is over.
Save ==
    /\ phase = "save"
    /\ phase' = "idle" /\ saved' = State /\ Forgotten
    /\ UNCHANGED <<server, state, history, trouble>>

\* The process dies and is started again.
Crash ==
    /\ Spend
    /\ phase' = "idle" /\ Forgotten
    /\ watching' = saved.watching /\ markedAt' = saved.markedAt /\ streak' = saved.streak
    /\ slipped' = slipped \cup (((watching \cup drafts) \cap Passed) \ saved.watching)
    /\ UNCHANGED <<server, saved, heard, shelved>>

-----------------------------------------------------------------------------
Others == \/ \E t \in Timeline : Begin(t) \/ \E kind \in Kind \ {"chat"} : Post(t, kind)
          \/ \E i \in 1 .. MaxMsg : Finish(i)

\* What a look goes through, one after another.
Proceed == Heartbeat \/ Look \/ Over \/ Settle \/ Save \/ \E t \in Timeline : Mark(t)

Sends == (\E t \in Timeline : Check(t) \/ Blurt(t)) \/ \E s \in typing : Speak(s)

Loop == Proceed \/ Buzz \/ Steer \/ Take \/ Fails \/ Sends

Next == Others \/ Loop \/ Crash
Spec == Init /\ [][Next]_vars

\* Time passes: a heartbeat comes, a turn ends, what the loop began it completes.
\* And agents finish the replies they began.
LoopSpec == Spec /\ WF_vars(Proceed)
FairSpec == LoopSpec /\ WF_vars(\E i \in 1 .. MaxMsg : Finish(i))

-----------------------------------------------------------------------------
Ids == 1 .. MaxMsg

\* The shape of the state; and a look's books only name what it has read: nothing
\* is marked or held to be delivered outside a look (src/inbox.rs: look).
TypeOK ==
    /\ msgs \in Seq([tl : Timeline, kind : Kind, done : BOOLEAN]) /\ Len(msgs) <= MaxMsg
    /\ marker \in [Timeline -> 0 .. MaxMsg] /\ risen \subseteq Ids
    /\ watching \subseteq Ids /\ markedAt \in [Timeline -> 0 .. MaxMsg] /\ streak \in [Timeline -> 0 .. Brake]
    /\ phase \in {"idle", "look", "turn", "mark", "save"}
    /\ count \in [Timeline -> 0 .. MaxMsg] /\ keys \subseteq Timeline /\ humans \subseteq Timeline
    /\ markers \subseteq Done /\ drafts \subseteq Ids /\ delivered \subseteq Ids /\ steered \subseteq Ids
    /\ mailbox \subseteq Ids \X BOOLEAN /\ toMark \subseteq Timeline
    /\ started \in 0 .. MaxMsg /\ floor \in [Timeline -> 0 .. MaxMsg] /\ queued \subseteq Ids
    /\ typing \subseteq Timeline \X (0 .. MaxMsg) /\ spoke \subseteq Timeline
    /\ shown \subseteq told /\ told \subseteq Ids /\ heard \cup shelved \cup slipped \cup aside \cup lost \subseteq Ids
    /\ trouble \in 0 .. MaxTrouble
    /\ phase \in {"idle", "look"} => markers \cup drafts \cup delivered \cup steered = {}

\* What the marker has passed was heard by the agent, is shelved under the brake,
\* or is a reply the loop watches for: nothing is marked read and then forgotten,
\* but what an aside or a /stop leapt over, or a crash took from the books (`slipped`).
Kept ==
    \A i \in Passed \ Stops :
        \/ i \in heard \cup shelved \cup slipped \cup watching
        \/ phase = "mark" /\ i \in drafts

\* The agent was shown of a timeline where it is about to speak all that was there when
\* the send guard looked (src/inbox.rs: send_guard): where the look reads, all but what
\* the brake holds back and a /stop that is obeyed; elsewhere, whatever came since the
\* look began and after all it was told of. What it speaks over unseen came while the
\* message was being typed and sent, or it went without the guard.
Unseen(t) ==
    {i \in Of(t) \ (told \cup heard \cup aside \cup lost \cup shelved \cup slipped \cup (Stops \cap markers)) :
        t \in keys \/ \A j \in {started} \cup (told \cap Of(t)) : j < i}
NotOverNews == \A s \in typing : Unseen(s[1]) \cap (1 .. s[2]) = {}

\* The loop catches up: once nobody says more, what the server counts as unread is
\* handed over or marked, all of it (src/inbox.rs: run, look, arrange).
Reached == []<>(Counted \cap Done = {})

\* Violated: a look marks a timeline up to the newest it handed over or obeyed, but
\* a line left in the mailbox, or older than one steered in, was never read
\* (src/inbox.rs: "What never reached the model stays unread for the next look").
NothingLeapt == slipped = {}

==============================================================================
