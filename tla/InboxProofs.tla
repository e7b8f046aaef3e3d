------------------------------ MODULE InboxProofs ------------------------------
(***************************************************************************)
(* For any number of timelines, whatever is posted in them and whatever    *)
(* fails: what a marker passes was handed over or is watched, and nothing  *)
(* the send guard looked at is spoken over unseen.                         *)
(***************************************************************************)
EXTENDS Inbox, FiniteSetTheorems, WellFoundedInduction, TLAPS

\* In a turn: what stands in the mailbox and is to be marked once it is read.
Held == steered \cap InFull

\* Between looks there is nothing in hand; the mailbox is that of the turn.
Emptied ==
    /\ phase \in {"idle", "look"} => keys \cup queued \cup lost = {}
    /\ phase # "turn" => mailbox = {}

\* The books and the file name only what was posted.
Existing ==
    /\ watching \cup saved.watching \cup drafts \cup delivered \cup queued \cup InMailbox \subseteq Msgs
    /\ started <= Len(msgs)
    /\ \A t \in Timeline : marker[t] <= Len(msgs) /\ floor[t] <= Len(msgs)
    /\ saved \in [watching : SUBSET Ids, markedAt : [Timeline -> 0 .. MaxMsg], streak : [Timeline -> 0 .. Brake]]

\* What is to be marked was shown, or put in the mailbox; or it is left to the
\* brake, or is a /stop, that is obeyed.
MarkedRead ==
    /\ phase = "turn" => markers \subseteq shown \cup aside \cup Stops \cup Held
    /\ phase = "mark" => markers \subseteq heard \cup aside \cup Stops

\* So is what lies behind it, but for replies unfinished and oversights.
Behind(S) == \A m \in markers : \A i \in Of(msgs[m].tl) \ Stops : i <= m => i \in S
BehindRead ==
    /\ phase = "turn" => Behind(heard \cup shown \cup aside \cup lost \cup drafts \cup Held)
    /\ phase = "mark" => Behind(heard \cup aside \cup lost \cup drafts)

\* A watched reply taken for delivered was handed over, or is left to the brake
\* in a timeline that is still to be marked.
HandedOver ==
    /\ phase = "turn" => delivered \subseteq heard \cup shown \cup lost \cup Held \cup (aside \cap markers)
    /\ phase = "mark" =>
         \A i \in delivered :
            \/ i \in heard \cup lost \cup shelved \cup slipped
            \/ msgs[i].tl \in toMark /\ i \in aside \cap markers
            \/ msgs[i].tl \notin toMark /\ i \notin Passed

\* Kept, and while a look marks, which drafts Settle is going to watch.
KeptSo ==
    \A i \in Passed \ Stops :
        \/ i \in heard \cup shelved \cup slipped \cup watching
        \/ phase = "mark" /\ i \in drafts /\ \E m \in markers : i < m /\ msgs[m].tl = msgs[i].tl

\* What the agent knows of, in a turn.
Known == told \cup heard \cup aside \cup lost \cup shelved \cup slipped \cup (Stops \cap markers)

\* The ledger: the floor of a timeline is a line the agent was told of, and it
\* knows of all that is before it in the timelines its turn is about ...
FloorKnown ==
    phase = "turn" =>
        /\ \A t \in Timeline : floor[t] # 0 => floor[t] \in told \cap Of(t)
        /\ \A t \in keys : floor[t] # 0 /\ \A i \in Of(t) : i <= floor[t] => i \in Known

\* ... and so it is with the lines of the mailbox, once they are out of it.
QueuedKnown ==
    phase = "turn" =>
        /\ queued \subseteq told \cup InMailbox
        /\ \A t \in keys : \A q \in queued \cap Of(t) : \A i \in Of(t) :
             i <= q => i \in Known \/ (i \in InMailbox /\ q \in InMailbox)

\* It was told of every reply seen unfinished there, or will be.
DraftsKnown ==
    phase = "turn" =>
        \A t \in keys : drafts \cap Of(t) \subseteq told \cup InMailbox \cup lost /\ watching \cap Of(t) \subseteq told

\* The inductive invariant.
IInv ==
    /\ TypeOK /\ Emptied /\ Existing
    /\ MarkedRead /\ BehindRead /\ HandedOver /\ KeptSo
    /\ FloorKnown /\ QueuedKnown /\ DraftsKnown

--------------------------------------------------------------------------------
\* Numbers, and the newest of them.

\* A set of numbers that has a bound has a greatest member.
LEMMA Greatest ==
    ASSUME NEW n \in Nat, NEW S \in SUBSET (0 .. n)
    PROVE  \E i \in S \cup {0} : \A j \in S : j <= i
<1> DEFINE T == {k \in Nat : \E i \in S \cup {0} : k = n - i}
<1>1. T # {} /\ T \subseteq Nat
  <2>1. n \in T
    OBVIOUS
  <2> QED
    BY <2>1
<1> HIDE DEF T
<1>2. PICK k \in T : \A l \in T : ~ (<<l, k>> \in OpToRel(<, Nat))
  BY <1>1, NatLessThanWellFounded, WFMin
<1>3. ASSUME NEW l \in T PROVE k <= l
  <2>1. ~ (<<l, k>> \in {ss \in Nat \X Nat : ss[1] < ss[2]})
    BY <1>2 DEF OpToRel
  <2>2. <<l, k>> \in Nat \X Nat /\ l \in Nat /\ k \in Nat
    BY <1>1
  <2>3. ~ (<<l, k>>[1] < <<l, k>>[2])
    BY <2>1, <2>2
  <2> QED
    BY <2>2, <2>3
<1>4. PICK i \in S \cup {0} : k = n - i
  BY DEF T
<1>5. ASSUME NEW j \in S PROVE j <= i
  <2>1. n - j \in T
    BY DEF T
  <2> QED
    BY <1>3, <1>4, <2>1
<1> QED
  BY <1>4, <1>5

\* It is what Biggest picks.
LEMMA BiggestIs ==
    ASSUME NEW n \in Nat, NEW S \in SUBSET (0 .. n)
    PROVE  /\ Biggest(S) \in S \cup {0}
           /\ Biggest(S) \in 0 .. n
           /\ \A j \in S : j <= Biggest(S)
<1>1. Biggest(S) \in S \cup {0} /\ \A j \in S : j <= Biggest(S)
  BY Greatest DEF Biggest
<1>2. S \cup {0} \subseteq 0 .. n
  OBVIOUS
<1> QED
  BY <1>1, <1>2

\* The messages are numbered in the order they came, and each is in its timeline.
LEMMA Numbered ==
    ASSUME TypeOK
    PROVE  /\ MaxMsg \in Nat /\ Len(msgs) \in 0 .. MaxMsg
           /\ Msgs = 1 .. Len(msgs) /\ Msgs \subseteq Ids /\ Ids \subseteq Nat
           /\ \A i \in Msgs : msgs[i].tl \in Timeline /\ i \in Of(msgs[i].tl)
           /\ \A t \in Timeline : Of(t) \subseteq Msgs /\ Of(t) \in SUBSET (0 .. MaxMsg)
           /\ \A t \in Timeline : \A i \in Of(t) : msgs[i].tl = t
           /\ Done \subseteq Msgs /\ Stops \subseteq Msgs
<1> DEFINE Message == [tl : Timeline, kind : Kind, done : BOOLEAN]
<1>1. msgs \in Seq(Message) /\ Len(msgs) <= MaxMsg
  BY DEF TypeOK
<1> HIDE DEF Message
<1>2. MaxMsg \in Nat /\ Len(msgs) \in 0 .. MaxMsg /\ Msgs = 1 .. Len(msgs)
  BY <1>1, InboxAssumption DEF Msgs
<1>3. ASSUME NEW i \in Msgs PROVE msgs[i].tl \in Timeline
  <2>0. i \in 1 .. Len(msgs)
    BY <1>2
  <2>1. msgs[i] \in Message
    BY <1>1, <2>0
  <2> QED
    BY <2>1 DEF Message
<1> QED
  BY <1>2, <1>3 DEF Of, Ids, Done, Stops

\* What a look takes for new is finished, and of the timeline it reads.
LEMMA NewOf ==
    ASSUME NEW t, NEW n
    PROVE  New(t, n) \subseteq Of(t) \cap Done
  BY DEF New, Newest, Risen, Finished

\* A badge counts messages.
LEMMA BadgeSize ==
    ASSUME TypeOK, NEW t \in Timeline
    PROVE  Badge(t) \in 0 .. MaxMsg
<1>1. Counted \cap Of(t) \subseteq 1 .. MaxMsg /\ MaxMsg \in Nat
  BY Numbered DEF Ids
<1>2. IsFiniteSet(1 .. MaxMsg) /\ Cardinality(1 .. MaxMsg) = MaxMsg
  BY <1>1, FS_Interval
<1>3. Cardinality(Counted \cap Of(t)) \in Nat /\ Cardinality(Counted \cap Of(t)) <= MaxMsg
  BY <1>1, <1>2, FS_Subset, FS_CardinalityType
<1> QED
  BY <1>1, <1>3 DEF Badge

\* Nothing is said of a message by the steps that leave the messages alone.
LEMMA SameMsgs ==
    ASSUME UNCHANGED msgs
    PROVE  /\ Msgs' = Msgs /\ Done' = Done /\ Stops' = Stops
           /\ \A t : Of(t)' = Of(t)
           /\ marker' = marker => Passed' = Passed
  BY DEF Msgs, Done, Stops, Of, Passed

--------------------------------------------------------------------------------
\* Everybody else.

Rest == <<marker, state, saved, phase, look, book, ledger, turnSaw, history, trouble>>

\* What others do to the messages: there are more of them, and more are finished.
MoreIsSaid ==
    /\ msgs' \in Seq([tl : Timeline, kind : Kind, done : BOOLEAN])
    /\ Len(msgs') \in Len(msgs) .. MaxMsg
    /\ Msgs \subseteq Msgs' /\ \A i \in Msgs : msgs'[i].tl = msgs[i].tl
    /\ \A i \in Msgs' \ Msgs : i > Len(msgs)
    /\ Done \subseteq Done' /\ Stops' \cap Msgs = Stops
    /\ \A t \in Timeline : Of(t)' \cap Msgs = Of(t)

\* A message more ...
LEMMA Appended ==
    ASSUME TypeOK, Len(msgs) < MaxMsg,
           NEW m \in [tl : Timeline, kind : Kind, done : BOOLEAN], msgs' = Append(msgs, m)
    PROVE  MoreIsSaid
<1> DEFINE Message == [tl : Timeline, kind : Kind, done : BOOLEAN]
<1>0. msgs \in Seq(Message)
  BY DEF TypeOK
<1>1. msgs \in Seq(Message) /\ m \in Message /\ MaxMsg \in Nat /\ Len(msgs) \in Nat /\ Msgs = 1 .. Len(msgs)
  BY <1>0, Numbered
<1> HIDE DEF Message
<1>2. /\ msgs' \in Seq(Message) /\ Len(msgs') = Len(msgs) + 1
      /\ \A i \in 1 .. Len(msgs) : msgs'[i] = msgs[i]
  BY <1>1
<1>3. Msgs' = 1 .. (Len(msgs) + 1)
  BY <1>2 DEF Msgs
<1>4. Len(msgs') \in Len(msgs) .. MaxMsg
  BY <1>1, <1>2
<1>5. /\ Msgs \subseteq Msgs' /\ \A i \in Msgs : msgs'[i] = msgs[i]
      /\ \A i \in Msgs' \ Msgs : i > Len(msgs)
  BY <1>1, <1>2, <1>3
<1> HIDE DEF Msgs
<1>6. Done \subseteq Done' /\ Stops' \cap Msgs = Stops
  BY <1>5 DEF Done, Stops
<1>7. \A t \in Timeline : Of(t)' \cap Msgs = Of(t)
  BY <1>5 DEF Of
<1> QED
  BY <1>2, <1>4, <1>5, <1>6, <1>7 DEF MoreIsSaid, Message

\* ... or one that is finished.
LEMMA Completed ==
    ASSUME TypeOK, NEW i \in Msgs \ Done, msgs' = [msgs EXCEPT ![i].done = TRUE]
    PROVE  MoreIsSaid
<1> DEFINE Message == [tl : Timeline, kind : Kind, done : BOOLEAN]
<1>0. msgs \in Seq(Message)
  BY DEF TypeOK
<1>1. msgs \in Seq(Message) /\ MaxMsg \in Nat /\ Len(msgs) \in 0 .. MaxMsg /\ Msgs = 1 .. Len(msgs)
  BY <1>0, Numbered
<1>2. i \in 1 .. Len(msgs)
  BY <1>1
<1> HIDE DEF Message
<1>3. msgs[i] \in Message
  BY <1>1, <1>2
<1>4. [msgs[i] EXCEPT !.done = TRUE] \in Message /\ msgs' = [msgs EXCEPT ![i] = [msgs[i] EXCEPT !.done = TRUE]]
  BY <1>3 DEF Message
<1> DEFINE m == [msgs[i] EXCEPT !.done = TRUE]
<1>5. m.tl = msgs[i].tl /\ m.kind = msgs[i].kind /\ m.done
  BY <1>3 DEF Message
<1> HIDE DEF m
<1>6. /\ msgs' \in Seq(Message) /\ Len(msgs') = Len(msgs)
      /\ \A j \in 1 .. Len(msgs) : msgs'[j] = IF j = i THEN m ELSE msgs[j]
  BY <1>1, <1>2, <1>4 DEF m
<1>7. Msgs' = Msgs /\ Len(msgs') \in Len(msgs) .. MaxMsg
  BY <1>1, <1>6 DEF Msgs
<1>8. \A j \in Msgs : msgs'[j].tl = msgs[j].tl /\ msgs'[j].kind = msgs[j].kind /\ (msgs[j].done => msgs'[j].done)
  BY <1>1, <1>5, <1>6
<1>9. Done \subseteq Done' /\ Stops' = Stops /\ \A t \in Timeline : Of(t)' = Of(t)
  BY <1>7, <1>8 DEF Done, Stops, Of
<1> QED
  BY <1>1, <1>6, <1>7, <1>8, <1>9 DEF MoreIsSaid, Message, Stops, Of

\* So do others, and nothing else but to what the server counts.
LEMMA OthersSay ==
    ASSUME TypeOK, Others
    PROVE  MoreIsSaid /\ UNCHANGED Rest /\ risen' \subseteq Ids
<1> USE DEF Rest, server, state, look, book, ledger, turnSaw, history
<1>1. ASSUME NEW t \in Timeline, Begin(t) PROVE MoreIsSaid /\ UNCHANGED Rest /\ risen' \subseteq Ids
  <2>1. [tl |-> t, kind |-> "chat", done |-> FALSE] \in [tl : Timeline, kind : Kind, done : BOOLEAN]
    BY DEF Kind
  <2> QED
    BY <1>1, <2>1, Appended DEF Begin, TypeOK
<1>2. ASSUME NEW t \in Timeline, NEW kind \in Kind, Post(t, kind)
      PROVE MoreIsSaid /\ UNCHANGED Rest /\ risen' \subseteq Ids
  <2>1. [tl |-> t, kind |-> kind, done |-> TRUE] \in [tl : Timeline, kind : Kind, done : BOOLEAN]
    OBVIOUS
  <2> QED
    BY <1>2, <2>1, Appended DEF Post, TypeOK
<1>3. ASSUME NEW i \in 1 .. MaxMsg, Finish(i) PROVE MoreIsSaid /\ UNCHANGED Rest /\ risen' \subseteq Ids
  BY <1>3, Completed DEF Finish, TypeOK, Ids
<1> QED
  BY <1>1, <1>2, <1>3 DEF Others

--------------------------------------------------------------------------------
\* What a look reads: of each line to be marked, its timeline is shown, or left to
\* the brake, as a whole; and its unfinished replies are noted.
LookedAt ==
    /\ markers' \subseteq Done /\ drafts' \subseteq Msgs \ Done /\ delivered' \subseteq markers'
    /\ \A i \in markers' :
         LET t == msgs[i].tl IN
         /\ Of(t) \cap Done \subseteq shown' \/ Of(t) \cap Done \subseteq aside'
         /\ Working(t) \subseteq drafts'
    /\ keys' \subseteq Timeline /\ humans' \subseteq Timeline
    /\ \A t \in keys' : Of(t) \subseteq told' /\ Of(t) # {}
    /\ floor' = [t \in Timeline |-> IF t \in keys' THEN Biggest(Of(t)) ELSE 0]
    /\ shown' \subseteq told' /\ told' \subseteq Msgs /\ aside' \subseteq Msgs
    /\ \/ phase' = "turn" /\ toMark' = {}
       \/ phase' = "mark" /\ toMark' = {msgs[i].tl : i \in markers'} /\ shown' = {}

\* A look does so.
LEMMA LookIs ==
    ASSUME TypeOK, Look
    PROVE  LookedAt /\ trouble' \in 0 .. MaxTrouble
<1> DEFINE new(t)   == New(t, count[t])
           opened   == {t \in Timeline : count[t] > 0}
           ofPeople == {t \in opened : new(t) \cap Human # {}}
           braked   == {t \in opened : new(t) # {} /\ t \notin ofPeople /\ Braked(t)}
<1>1. PICK read \in SUBSET opened :
        LET all   == UNION {new(t) : t \in read}
            batch == {t \in read \ braked : new(t) # {}}
            full  == UNION {Of(t) \cap Done : t \in batch}
        IN
        /\ IF read = opened THEN UNCHANGED trouble ELSE Spend
        /\ markers' = all
        /\ drafts' = UNION {Working(t) : t \in read}
        /\ delivered' = all \cap watching
        /\ humans' = ofPeople \cap read
        /\ keys' = batch
        /\ shown' = full
        /\ told' = UNION {Of(t) : t \in batch}
        /\ aside' = UNION {Of(t) \cap Done : t \in braked \cap read}
        /\ floor' = [t \in Timeline |-> IF t \in batch THEN Biggest(Of(t)) ELSE 0]
        /\ phase' = IF batch = {} THEN "mark" ELSE "turn"
        /\ toMark' = IF batch = {} THEN {msgs[i].tl : i \in all} ELSE {}
  BY DEF Look
<1> DEFINE batch == {t \in read \ braked : new(t) # {}}
<1>2. \A t : new(t) \subseteq Of(t) \cap Done
  BY NewOf
<1>3. /\ read \subseteq Timeline /\ read \subseteq opened /\ batch \subseteq read /\ braked \subseteq opened
      /\ \A t \in read : new(t) # {} => t \in batch \/ t \in braked
      /\ \A t \in batch : new(t) # {}
  OBVIOUS
<1> HIDE DEF new, braked, batch
<1>4. /\ markers' = UNION {new(t) : t \in read} /\ drafts' = UNION {Working(t) : t \in read}
      /\ delivered' = markers' \cap watching /\ humans' = ofPeople \cap read
      /\ keys' = batch /\ shown' = UNION {Of(t) \cap Done : t \in batch}
      /\ told' = UNION {Of(t) : t \in batch}
      /\ aside' = UNION {Of(t) \cap Done : t \in braked \cap read}
      /\ floor' = [t \in Timeline |-> IF t \in batch THEN Biggest(Of(t)) ELSE 0]
      /\ phase' = IF batch = {} THEN "mark" ELSE "turn"
      /\ toMark' = IF batch = {} THEN {msgs[i].tl : i \in markers'} ELSE {}
  BY <1>1 DEF batch, braked, new
<1>5. \A t \in Timeline : Of(t) \subseteq Msgs /\ \A i \in Of(t) : msgs[i].tl = t
  BY Numbered
<1>6. ASSUME NEW i \in markers'
      PROVE  /\ i \in Done
             /\ \/ Of(msgs[i].tl) \cap Done \subseteq shown'
                \/ Of(msgs[i].tl) \cap Done \subseteq aside'
             /\ Working(msgs[i].tl) \subseteq drafts'
  <2>1. PICK t \in read : i \in new(t)
    BY <1>4
  <2>2. msgs[i].tl = t /\ new(t) # {} /\ i \in Done
    BY <1>2, <1>3, <1>5, <2>1
  <2>3. t \in batch \/ t \in braked \cap read
    BY <1>3, <2>1, <2>2
  <2> QED
    BY <1>4, <2>1, <2>2, <2>3
<1>7. drafts' \subseteq Msgs \ Done
  BY <1>3, <1>4, <1>5 DEF Working
<1>8. ASSUME NEW t \in keys' PROVE Of(t) \subseteq told' /\ Of(t) # {}
  <2>1. t \in batch
    BY <1>4
  <2>2. new(t) # {} /\ new(t) \subseteq Of(t)
    BY <1>2, <1>3, <2>1
  <2> QED
    BY <1>4, <2>1, <2>2
<1>9. shown' \subseteq told' /\ told' \subseteq Msgs /\ aside' \subseteq Msgs
  BY <1>3, <1>4, <1>5
<1>10. keys' = {} => shown' = {}
  BY <1>4
<1>11. trouble' \in 0 .. MaxTrouble
  BY <1>1, InboxAssumption DEF Spend, TypeOK
<1> QED
  BY <1>3, <1>4, <1>6, <1>7, <1>8, <1>9, <1>10, <1>11 DEF LookedAt

\* What is steered into a turn, what of it is only a status, and what goes by:
\* a /stop, and what is behind the rest and neither shown nor noted.
SteersIn(passing, stops, status, working) ==
    /\ passing \subseteq Done \ (markers \cup Stops) /\ stops \subseteq (Done \cap Stops) \ markers
    /\ status \subseteq working /\ working \subseteq Msgs \ Done
    /\ \A j \in passing \cup stops \cup status : Working(msgs[j].tl) \subseteq working
    /\ \A j \in working : msgs[j].tl \in keys => j \in status \cup watching \cup drafts
    /\ drafts' = drafts \cup working /\ delivered' = delivered \cup (passing \cap watching)
    /\ aside \subseteq aside' /\ lost \subseteq lost' /\ aside' \cup lost' \subseteq aside \cup lost \cup Msgs
    /\ Leapt(Done \ (heard \cup markers \cup passing \cup stops), passing \cup stops \cup status)
         \subseteq aside' \cup lost'

\* The mailbox takes it ...
Written(passing, stops, status) ==
    /\ markers' = markers \cup stops \cup passing
    /\ steered' = steered \cup passing /\ queued' = queued \cup passing \cup status
    /\ mailbox' = mailbox \cup (passing \X {TRUE}) \cup (status \X {FALSE})
    /\ InMailbox' = InMailbox \cup passing \cup status /\ InFull' = InFull \cup passing
    /\ UNCHANGED trouble

\* ... or not.
Unwritten(passing, stops, status) ==
    /\ markers' = markers \cup stops
    /\ UNCHANGED <<steered, queued, mailbox, InMailbox, InFull>>
    /\ status \cup (passing \cap watching) \cup Leapt(passing, stops) \subseteq lost'
    /\ Spend

\* What a line more in the mailbox is there.
LEMMA IntoMailbox ==
    ASSUME NEW P, NEW S, mailbox' = mailbox \cup (P \X {TRUE}) \cup (S \X {FALSE})
    PROVE  InMailbox' = InMailbox \cup P \cup S /\ InFull' = InFull \cup P
<1>1. ASSUME NEW i \in P PROVE <<i, TRUE>> \in mailbox' /\ <<i, TRUE>>[1] = i /\ <<i, TRUE>>[2]
  OBVIOUS
<1>2. ASSUME NEW i \in S PROVE <<i, FALSE>> \in mailbox' /\ <<i, FALSE>>[1] = i
  OBVIOUS
<1>3. ASSUME NEW l \in mailbox' PROVE l \in mailbox \/ (l[1] \in P /\ l[2]) \/ (l[1] \in S /\ ~l[2])
  OBVIOUS
<1>4. mailbox \subseteq mailbox'
  OBVIOUS
<1>5. InMailbox' = InMailbox \cup P \cup S
  <2>1. ASSUME NEW i \in InMailbox' PROVE i \in InMailbox \cup P \cup S
    BY <1>3 DEF InMailbox
  <2>2. InMailbox \subseteq InMailbox'
    BY <1>4 DEF InMailbox
  <2>3. ASSUME NEW i \in P PROVE i \in InMailbox'
    BY <1>1 DEF InMailbox
  <2>4. ASSUME NEW i \in S PROVE i \in InMailbox'
    BY <1>2 DEF InMailbox
  <2> QED
    BY <2>1, <2>2, <2>3, <2>4
<1>6. InFull' = InFull \cup P
  <2>1. ASSUME NEW i \in InFull' PROVE i \in InFull \cup P
    BY <1>3 DEF InFull
  <2>2. InFull \subseteq InFull'
    BY <1>4 DEF InFull
  <2>3. ASSUME NEW i \in P PROVE i \in InFull'
    BY <1>1 DEF InFull
  <2> QED
    BY <2>1, <2>2, <2>3
<1> QED
  BY <1>5, <1>6

\* A steer does either.
LEMMA SteerIs ==
    ASSUME TypeOK, Steer
    PROVE  \E passing, stops, status, working :
             /\ SteersIn(passing, stops, status, working)
             /\ Written(passing, stops, status) \/ Unwritten(passing, stops, status)
<1> DEFINE unread  == {t \in Timeline : Badge(t) > 0}
           passing == UNION {Passing(t) : t \in unread}
           status  == UNION {Status(t) : t \in unread}
           stops   == ((UNION {New(t, Badge(t)) : t \in unread}) \cap Stops) \ markers
           working == UNION {Working(t) : t \in unread}
           left    == Leapt(Done \ (heard \cup markers \cup passing \cup stops), passing \cup stops \cup status)
           undone  == status \cup (passing \cap watching) \cup Leapt(passing, stops)
           braked  == UNION {Aside(t) : t \in unread}
<1>1. /\ drafts' = drafts \cup working
      /\ delivered' = delivered \cup (passing \cap watching)
      /\ aside' = aside \cup (left \cap braked)
  BY DEF Steer
<1>2. PICK written \in BOOLEAN :
        /\ IF written THEN UNCHANGED trouble ELSE Spend /\ passing \cup status # {}
        /\ lost' = lost \cup (left \ braked) \cup (IF written THEN {} ELSE undone)
        /\ markers' = markers \cup stops \cup (IF written THEN passing ELSE {})
        /\ steered' = IF written THEN steered \cup passing ELSE steered
        /\ queued' = IF written THEN queued \cup passing \cup status ELSE queued
        /\ mailbox' = IF written THEN mailbox \cup (passing \X {TRUE}) \cup (status \X {FALSE}) ELSE mailbox
  BY DEF Steer
<1>3. \A t : New(t, Badge(t)) \subseteq Of(t) \cap Done
  BY NewOf
<1>4. \A t \in Timeline : Of(t) \subseteq Msgs /\ \A i \in Of(t) : msgs[i].tl = t
  BY Numbered
<1>5. \A t \in unread : /\ t \in Timeline
                        /\ Passing(t) \subseteq New(t, Badge(t)) \ (markers \cup Stops)
                        /\ Status(t) \subseteq Working(t) /\ Working(t) \subseteq Of(t) \ Done
  BY DEF Passing, Status, Working
<1>6. passing \subseteq Done \ (markers \cup Stops) /\ stops \subseteq (Done \cap Stops) \ markers
  <2>1. ASSUME NEW i \in passing PROVE i \in Done \ (markers \cup Stops)
    <3>1. PICK t \in unread : i \in Passing(t)
      OBVIOUS
    <3>2. i \in New(t, Badge(t)) \ (markers \cup Stops)
      BY <1>5, <3>1
    <3> QED
      BY <1>3, <3>2
  <2>2. ASSUME NEW i \in stops PROVE i \in (Done \cap Stops) \ markers
    <3>1. PICK t \in unread : i \in New(t, Badge(t))
      OBVIOUS
    <3> QED
      BY <1>3, <3>1
  <2> QED
    BY <2>1, <2>2
<1>7. status \subseteq working /\ working \subseteq Msgs \ Done
  BY <1>4, <1>5
<1>8. ASSUME NEW j \in passing \cup stops \cup status PROVE Working(msgs[j].tl) \subseteq working
  <2>1. PICK t \in unread : j \in Of(t)
    BY <1>3, <1>5
  <2> QED
    BY <1>4, <1>5, <2>1
<1>9. ASSUME NEW j \in working, msgs[j].tl \in keys PROVE j \in status \cup watching \cup drafts
  <2>1. PICK t \in unread : j \in Working(t)
    OBVIOUS
  <2>2. msgs[j].tl = t
    BY <1>4, <1>5, <2>1
  <2>3. j \in Status(t) \cup watching \cup drafts
    BY <1>9, <2>1, <2>2 DEF Status
  <2> QED
    BY <2>1, <2>3
<1> HIDE DEF passing, status, stops, working, braked
<1>10. left \subseteq Msgs /\ left \subseteq aside' \cup lost' /\ aside \subseteq aside' /\ lost \subseteq lost'
  BY <1>1, <1>2, Numbered DEF Leapt
<1>11. passing \subseteq Msgs /\ status \subseteq Msgs
  BY <1>6, <1>7, Numbered
<1>12. undone \subseteq Msgs
  BY <1>11 DEF Leapt
<1>13. aside' \cup lost' \subseteq aside \cup lost \cup Msgs
  BY <1>1, <1>2, <1>10, <1>12
<1>14. SteersIn(passing, stops, status, working)
  BY <1>1, <1>6, <1>7, <1>8, <1>9, <1>10, <1>13 DEF SteersIn
<1>15. CASE written
  <2>1. Written(passing, stops, status)
    BY <1>2, <1>15, IntoMailbox DEF Written
  <2> QED
    BY <1>14, <2>1
<1>16. CASE ~written
  <2>1. mailbox' = mailbox
    BY <1>2, <1>16
  <2>2. InMailbox' = InMailbox /\ InFull' = InFull
    BY <2>1 DEF InMailbox, InFull
  <2>3. Unwritten(passing, stops, status)
    BY <1>2, <1>16, <2>1, <2>2 DEF Unwritten
  <2> QED
    BY <1>14, <2>3
<1> QED
  BY <1>15, <1>16

--------------------------------------------------------------------------------
\* The types.

\* It starts in the invariant.
LEMMA Initially ==
    Init => IInv
<1> SUFFICES ASSUME Init PROVE IInv
  OBVIOUS
<1> USE DEF Init, None, State
<1>1. MaxMsg \in Nat /\ Brake \in Nat /\ MaxTrouble \in Nat
  BY InboxAssumption
<1>2. msgs = <<>> /\ Msgs = {} /\ Done = {} /\ Len(msgs) = 0
  BY DEF Msgs, Done
<1>3. <<>> \in Seq([tl : Timeline, kind : Kind, done : BOOLEAN])
  OBVIOUS
<1>4. TypeOK
  BY <1>1, <1>2, <1>3 DEF TypeOK, Ids
<1>5. Passed = {} /\ InMailbox = {}
  BY <1>2 DEF Passed, InMailbox
<1> QED
  BY <1>1, <1>2, <1>4, <1>5
     DEF IInv, Emptied, Existing, MarkedRead, BehindRead, HandedOver, KeptSo, FloorKnown, QueuedKnown,
         DraftsKnown, Ids

\* Others keep the types, and all that is said of messages that were there.
LEMMA OthersTypes ==
    ASSUME TypeOK, Others
    PROVE  TypeOK'
<1>1. MoreIsSaid /\ UNCHANGED Rest /\ risen' \subseteq Ids
  BY OthersSay
<1>2. /\ UNCHANGED <<marker, watching, markedAt, streak, phase, count, keys, humans, markers, drafts, delivered>>
      /\ UNCHANGED <<steered, mailbox, toMark, started, floor, queued, typing, spoke, shown, told, aside, lost>>
      /\ UNCHANGED <<heard, shelved, slipped, trouble>>
  BY <1>1 DEF Rest, state, look, book, ledger, turnSaw, history
<1>3. Len(msgs') <= MaxMsg /\ markers \subseteq Done'
  BY <1>1, InboxAssumption, Numbered DEF TypeOK, MoreIsSaid
<1> DEFINE Message == [tl : Timeline, kind : Kind, done : BOOLEAN]
<1>4. msgs' \in Seq(Message)
  BY <1>1 DEF MoreIsSaid
<1> HIDE DEF Message
<1> QED
  BY <1>1, <1>2, <1>3, <1>4 DEF TypeOK, Message

\* A look is over, and its locals are gone.
LEMMA ForgottenTypes ==
    ASSUME TypeOK, Forgotten, UNCHANGED <<msgs, marker, risen, heard, shelved>>,
           watching' \subseteq Ids, markedAt' \in [Timeline -> 0 .. MaxMsg], streak' \in [Timeline -> 0 .. Brake],
           slipped' \subseteq Ids, phase' = "idle", trouble' \in 0 .. MaxTrouble
    PROVE  TypeOK'
<1>1. MaxMsg \in Nat /\ None \in [Timeline -> 0 .. MaxMsg]
  BY InboxAssumption DEF None
<1>2. /\ keys' = {} /\ humans' = {} /\ markers' = {} /\ drafts' = {} /\ delivered' = {} /\ steered' = {}
      /\ mailbox' = {} /\ toMark' = {} /\ queued' = {} /\ typing' = {} /\ spoke' = {}
      /\ shown' = {} /\ told' = {} /\ aside' = {} /\ lost' = {}
      /\ count' \in [Timeline -> 0 .. MaxMsg] /\ floor' \in [Timeline -> 0 .. MaxMsg] /\ started' \in 0 .. MaxMsg
  BY <1>1 DEF Forgotten
<1>3. /\ msgs' = msgs /\ marker' = marker /\ risen' = risen /\ heard' = heard /\ shelved' = shelved
  OBVIOUS
<1> QED
  BY <1>2, <1>3 DEF TypeOK

\* A step spends a trouble at most.
LEMMA Spending ==
    ASSUME TypeOK, Spend \/ UNCHANGED trouble
    PROVE  trouble' \in 0 .. MaxTrouble
  BY InboxAssumption DEF TypeOK, Spend

\* A glance keeps the types.
LEMMA OpensTypes ==
    ASSUME TypeOK, NEW open, Opens(open), trouble' \in 0 .. MaxTrouble
    PROVE  TypeOK'
<1>1. count' \in [Timeline -> 0 .. MaxMsg]
  BY BadgeSize, Numbered DEF Opens
<1>2. started' \in 0 .. MaxMsg
  BY Numbered DEF Opens
<1> QED
  BY <1>1, <1>2, SameMsgs
     DEF Opens, TypeOK, server, state, look, book, ledger, turnSaw, history

\* So does a look,
LEMMA LookTypes ==
    ASSUME TypeOK, Look
    PROVE  TypeOK'
<1>1. LookedAt /\ trouble' \in 0 .. MaxTrouble
  BY LookIs
<1>2. Msgs \subseteq Ids /\ Done \subseteq Msgs /\ \A i \in Done : msgs[i].tl \in Timeline
  BY Numbered
<1>3. floor' \in [Timeline -> 0 .. MaxMsg]
  BY <1>1, Numbered, BiggestIs DEF LookedAt
<1>4. toMark' \subseteq Timeline
  BY <1>1, <1>2 DEF LookedAt
<1>5. /\ markers' \subseteq Done /\ drafts' \subseteq Ids /\ delivered' \subseteq Ids
      /\ shown' \subseteq told' /\ told' \subseteq Ids /\ aside' \subseteq Ids
      /\ keys' \subseteq Timeline /\ humans' \subseteq Timeline /\ phase' \in {"turn", "mark"}
  BY <1>1, <1>2 DEF LookedAt
<1>6. UNCHANGED <<server, state, saved, count, steered, mailbox, started, queued, typing, spoke, lost, history>>
  BY DEF Look
<1> QED
  BY <1>1, <1>3, <1>4, <1>5, <1>6, SameMsgs DEF TypeOK, server, state, history

\* a steer,
LEMMA SteerTypes ==
    ASSUME TypeOK, Steer
    PROVE  TypeOK'
<1>1. PICK passing, stops, status, working :
             /\ SteersIn(passing, stops, status, working)
             /\ Written(passing, stops, status) \/ Unwritten(passing, stops, status)
  BY SteerIs
<1>2. Msgs \subseteq Ids /\ Done \subseteq Msgs
  BY Numbered
<1>3. passing \subseteq Done /\ stops \subseteq Done /\ status \subseteq Ids /\ passing \subseteq Ids /\ working \subseteq Ids
  BY <1>1, <1>2 DEF SteersIn
<1>4. drafts' \subseteq Ids /\ delivered' \subseteq Ids /\ aside' \cup lost' \subseteq Ids
  BY <1>1, <1>2, <1>3 DEF SteersIn, TypeOK
<1>5. /\ markers' \subseteq Done /\ steered' \subseteq Ids /\ queued' \subseteq Ids
      /\ mailbox' \subseteq Ids \X BOOLEAN /\ trouble' \in 0 .. MaxTrouble
  BY <1>1, <1>3, Spending DEF Written, Unwritten, TypeOK
<1>6. /\ phase = "turn"
      /\ UNCHANGED <<server, state, saved, phase, count, keys, humans, toMark, started, floor, typing, spoke, shown, told, history>>
  BY DEF Steer
<1> QED
  BY <1>4, <1>5, <1>6, SameMsgs DEF TypeOK, server, state, history

\* a read of the mailbox,
LEMMA TakeTypes ==
    ASSUME TypeOK, Existing, Take
    PROVE  TypeOK'
<1>1. InMailbox \subseteq Ids /\ InFull \subseteq InMailbox
  BY Numbered DEF Existing, InFull, InMailbox
<1> QED
  BY <1>1, SameMsgs DEF TypeOK, Take, server, state, book, ledger, history

\* Where a timeline is at, as the send guard has it.
LEMMA FloorIs ==
    ASSUME TypeOK, NEW t \in Timeline
    PROVE  /\ Floor(t) \in 0 .. MaxMsg
           /\ Floor(t) >= started \/ floor[t] # 0
           /\ Floor(t) >= floor[t]
           /\ \A q \in (queued \cap Of(t)) \ InMailbox : q <= Floor(t)
           /\ \/ Floor(t) = IF floor[t] = 0 THEN started ELSE floor[t]
              \/ Floor(t) \in (queued \cap Of(t)) \ InMailbox
<1> DEFINE base == IF floor[t] = 0 THEN started ELSE floor[t]
           S    == {base} \cup ((queued \cap Of(t)) \ InMailbox)
<1>1. base \in 0 .. MaxMsg /\ S \in SUBSET (0 .. MaxMsg) /\ MaxMsg \in Nat
  <2>1. MaxMsg \in Nat /\ Of(t) \subseteq 0 .. MaxMsg
    BY Numbered
  <2>2. base \in 0 .. MaxMsg
    BY DEF TypeOK
  <2> QED
    BY <2>1, <2>2
<1>2. Floor(t) = Biggest(S)
  BY DEF Floor
<1>3. Biggest(S) \in S \cup {0} /\ Biggest(S) \in 0 .. MaxMsg /\ \A j \in S : j <= Biggest(S)
  BY <1>1, BiggestIs
<1>4. base <= Floor(t) /\ \A q \in (queued \cap Of(t)) \ InMailbox : q <= Floor(t)
  BY <1>2, <1>3
<1>5. Floor(t) \in S
  BY <1>1, <1>2, <1>3, <1>4
<1> QED
  BY <1>1, <1>2, <1>3, <1>4, <1>5

\* What is beyond, and the newest of it.
LEMMA FreshIs ==
    ASSUME TypeOK, NEW t \in Timeline, Fresh(t) # {}
    PROVE  /\ Fresh(t) \subseteq Of(t)
           /\ Biggest(Fresh(t)) \in Fresh(t) /\ Biggest(Fresh(t)) \in 1 .. MaxMsg
           /\ \A i \in Fresh(t) : i <= Biggest(Fresh(t))
<1>1. Fresh(t) \in SUBSET (0 .. MaxMsg) /\ Fresh(t) \in SUBSET (1 .. MaxMsg) /\ MaxMsg \in Nat
  BY Numbered DEF Fresh, Ids
<1>2. /\ Biggest(Fresh(t)) \in Fresh(t) \cup {0} /\ Biggest(Fresh(t)) \in 0 .. MaxMsg
      /\ \A i \in Fresh(t) : i <= Biggest(Fresh(t))
  BY <1>1, BiggestIs
<1>3. Biggest(Fresh(t)) # 0
  BY <1>1, <1>2
<1> QED
  BY <1>1, <1>2, <1>3 DEF Fresh

\* What the guard answers keeps the types,
LEMMA CheckTypes ==
    ASSUME TypeOK, NEW t \in Timeline, Check(t)
    PROVE  TypeOK'
<1>1. typing' \subseteq Timeline \X (0 .. MaxMsg)
  BY Numbered DEF Check, TypeOK
<1>2. floor' \in [Timeline -> 0 .. MaxMsg] /\ told \subseteq told' /\ told' \subseteq Ids
  <2>1. CASE Fresh(t) = {}
    BY <2>1 DEF TypeOK, Check
  <2>2. CASE Fresh(t) # {}
    <3>1. floor' = [floor EXCEPT ![t] = Biggest(Fresh(t))] /\ told' = told \cup Fresh(t)
      BY <2>2 DEF Check
    <3> QED
      BY <2>2, <3>1, FreshIs, Numbered DEF TypeOK
  <2> QED
    BY <2>1, <2>2
<1>3. UNCHANGED <<server, state, saved, phase, look, book, started, queued, spoke, shown, aside, lost, history, trouble>>
  BY DEF Check
<1> QED
  BY <1>1, <1>2, <1>3, SameMsgs DEF TypeOK, server, state, look, book, history

\* and so does a message that goes out,
LEMMA SpeakTypes ==
    ASSUME TypeOK, (\E s \in typing : Speak(s)) \/ (\E t \in Timeline : Blurt(t))
    PROVE  TypeOK'
<1>1. typing' \subseteq typing /\ spoke' \subseteq Timeline
  BY DEF Speak, Blurt, TypeOK
<1>2. UNCHANGED <<server, state, saved, phase, look, book, started, floor, queued, turnSaw, history, trouble>>
  BY DEF Speak, Blurt
<1> QED
  BY <1>1, <1>2, SameMsgs DEF TypeOK, server, state, look, book, turnSaw, history

\* the end of the turn,
LEMMA OverTypes ==
    ASSUME TypeOK, Over
    PROVE  TypeOK'
<1>1. markers' \subseteq markers /\ phase' = "mark" /\ mailbox' = {} /\ heard' = heard \cup shown
  BY DEF Over
<1>2. toMark' \subseteq Timeline
  <2>1. \A i \in markers : msgs[i].tl \in Timeline
    BY Numbered DEF TypeOK
  <2> QED
    BY <2>1 DEF Over
<1>3. lost' \subseteq lost \cup steered
  BY DEF Over, Leapt
<1>4. /\ UNCHANGED <<server, state, saved, count, keys, humans, steered, drafts, delivered>>
      /\ typing' = {} /\ UNCHANGED <<started, floor, queued, spoke, shown, told, aside, shelved, slipped, trouble>>
  BY DEF Over
<1> QED
  BY <1>1, <1>2, <1>3, <1>4, SameMsgs DEF TypeOK, server, state

\* a timeline marked,
LEMMA MarkTypes ==
    ASSUME TypeOK, NEW t \in Timeline, Mark(t)
    PROVE  TypeOK'
<1>1. markers \cap Of(t) \in SUBSET (0 .. MaxMsg) /\ MaxMsg \in Nat
  BY Numbered
<1>2. Biggest(markers \cap Of(t)) \in 0 .. MaxMsg
  BY <1>1, BiggestIs
<1>3. {marker[t], Biggest(markers \cap Of(t))} \in SUBSET (0 .. MaxMsg)
  BY <1>2 DEF TypeOK
<1>4. Biggest({marker[t], Biggest(markers \cap Of(t))}) \in 0 .. MaxMsg
  BY <1>1, <1>3, BiggestIs
<1>5. marker' \in [Timeline -> 0 .. MaxMsg]
  BY <1>4 DEF Mark, TypeOK
<1>6. /\ risen' \subseteq Ids /\ toMark' \subseteq Timeline /\ trouble' \in 0 .. MaxTrouble
      /\ shelved' \cup slipped' \subseteq Ids
  BY Spending DEF Mark, TypeOK
<1>7. UNCHANGED <<msgs, state, saved, phase, count, keys, humans, steered, mailbox, book, ledger, turnSaw, heard>>
  BY DEF Mark
<1> QED
  BY <1>5, <1>6, <1>7, SameMsgs DEF TypeOK, Mark, state, book, ledger, turnSaw

\* How far a timeline has been marked.
LEMMA UpTo ==
    ASSUME TypeOK, NEW t \in Timeline
    PROVE  /\ Biggest({markedAt[t]} \cup (markers \cap Of(t))) \in 0 .. MaxMsg
           /\ \A m \in markers \cap Of(t) : m <= Biggest({markedAt[t]} \cup (markers \cap Of(t)))
<1>1. {markedAt[t]} \cup (markers \cap Of(t)) \in SUBSET (0 .. MaxMsg) /\ MaxMsg \in Nat
  <2>1. Of(t) \subseteq 0 .. MaxMsg /\ MaxMsg \in Nat
    BY Numbered
  <2>2. markedAt[t] \in 0 .. MaxMsg
    BY DEF TypeOK
  <2> QED
    BY <2>1, <2>2
<1> QED
  BY <1>1, BiggestIs

\* and the books closed.
LEMMA SettleTypes ==
    ASSUME TypeOK, Settle
    PROVE  TypeOK'
<1>1. markedAt' \in [Timeline -> 0 .. MaxMsg]
  BY UpTo DEF Settle
<1>2. streak' \in [Timeline -> 0 .. Brake]
  <2>1. Brake \in Nat /\ \A t \in Timeline : streak[t] \in 0 .. Brake
    BY InboxAssumption DEF TypeOK
  <2>2. \A t \in Timeline : 0 \in 0 .. Brake /\ (streak[t] < Brake => streak[t] + 1 \in 0 .. Brake)
    BY <2>1
  <2> QED
    BY <2>1, <2>2 DEF Settle
<1>3. watching' \subseteq Ids /\ slipped' \subseteq Ids /\ phase' = "save"
  BY DEF Settle, TypeOK
<1>4. UNCHANGED <<server, saved, look, book, ledger, turnSaw, heard, shelved, trouble>>
  BY DEF Settle
<1> QED
  BY <1>1, <1>2, <1>3, <1>4, SameMsgs DEF TypeOK, server, look, book, ledger, turnSaw

\* Every step keeps the types.
LEMMA TypeStep ==
    ASSUME TypeOK, Existing, [Next]_vars
    PROVE  TypeOK'
<1> USE DEF server, state, history
<1>1. CASE Heartbeat
  BY <1>1, OpensTypes, Spending DEF Heartbeat
<1>2. CASE Buzz
  BY <1>2, OpensTypes, Spending DEF Buzz
<1>3. CASE Fails
  BY <1>3, ForgottenTypes, Spending DEF Fails, TypeOK
<1>4. CASE Save
  BY <1>4, ForgottenTypes, Spending DEF Save, TypeOK
<1>5. CASE Crash
  <2>1. watching' \subseteq Ids /\ markedAt' \in [Timeline -> 0 .. MaxMsg] /\ streak' \in [Timeline -> 0 .. Brake]
    BY <1>5 DEF Crash, Existing
  <2>2. slipped' \subseteq Ids /\ trouble' \in 0 .. MaxTrouble
    BY <1>5, Spending DEF Crash, TypeOK
  <2> QED
    BY <1>5, <2>1, <2>2, ForgottenTypes DEF Crash
<1>6. CASE UNCHANGED vars
  BY <1>6, SameMsgs DEF TypeOK, vars, look, book, ledger, turnSaw
<1>7. CASE Others
  BY <1>7, OthersTypes
<1>8. CASE Look \/ Over \/ Settle \/ Steer \/ Take
  BY <1>8, LookTypes, OverTypes, SettleTypes, SteerTypes, TakeTypes
<1>9. CASE \E t \in Timeline : Mark(t) \/ Check(t)
  BY <1>9, MarkTypes, CheckTypes
<1>10. CASE (\E s \in typing : Speak(s)) \/ (\E t \in Timeline : Blurt(t))
  BY <1>10, SpeakTypes
<1> QED
  BY <1>1, <1>2, <1>3, <1>4, <1>5, <1>6, <1>7, <1>8, <1>9, <1>10 DEF Next, Loop, Proceed, Sends

--------------------------------------------------------------------------------
\* What the invariant says of a look and of a turn.

\* Elsewhere it says nothing of the books and of the ledger.
LEMMA Elsewhere ==
    /\ phase' \in {"idle", "look", "save"} => MarkedRead' /\ BehindRead' /\ HandedOver'
    /\ phase' # "turn" => FloorKnown' /\ QueuedKnown' /\ DraftsKnown'
  BY DEF MarkedRead, BehindRead, HandedOver, FloorKnown, QueuedKnown, DraftsKnown

\* A step that leaves alone what the invariant speaks of keeps it.
LEMMA SamePlaces ==
    ASSUME IInv, UNCHANGED <<msgs, marker, watching, saved, phase, keys, markers, drafts, delivered, steered, mailbox, toMark>>,
           UNCHANGED <<started, floor, queued, shown, told, aside, lost, heard, shelved, slipped>>
    PROVE  /\ Emptied' /\ Existing' /\ MarkedRead' /\ BehindRead' /\ HandedOver' /\ KeptSo'
           /\ FloorKnown' /\ QueuedKnown' /\ DraftsKnown'
<1>1. Msgs' = Msgs /\ Stops' = Stops /\ Passed' = Passed /\ \A t : Of(t)' = Of(t)
  BY SameMsgs
<1>2. InMailbox' = InMailbox /\ Held' = Held
  BY DEF InMailbox, Held, InFull
<1>3. Emptied' /\ Existing' /\ MarkedRead' /\ HandedOver' /\ KeptSo'
  BY <1>1, <1>2 DEF IInv, Emptied, Existing, MarkedRead, HandedOver, KeptSo
<1>4. BehindRead'
  <2>1. \A m \in markers : Of(msgs[m].tl)' = Of(msgs[m].tl)
    BY DEF Of, Msgs
  <2> QED
    BY <1>1, <1>2, <2>1 DEF IInv, BehindRead, Behind
<1>5. Known' = Known
  BY <1>1 DEF Known
<1>6. FloorKnown' /\ QueuedKnown' /\ DraftsKnown'
  BY <1>1, <1>2, <1>5 DEF IInv, FloorKnown, QueuedKnown, DraftsKnown
<1> QED
  BY <1>3, <1>4, <1>6

\* What others say is after all that the books, the markers and the ledger name.
LEMMA OthersKeep ==
    ASSUME IInv, Others
    PROVE  /\ Emptied' /\ Existing' /\ MarkedRead' /\ BehindRead' /\ HandedOver' /\ KeptSo'
           /\ FloorKnown' /\ QueuedKnown' /\ DraftsKnown'
<1>1. TypeOK /\ Existing /\ MoreIsSaid /\ UNCHANGED Rest
  BY OthersSay DEF IInv
<1>2. /\ UNCHANGED <<marker, watching, markedAt, streak, saved, phase, count, keys, humans, markers, drafts, delivered>>
      /\ UNCHANGED <<steered, mailbox, toMark, started, floor, queued, typing, spoke, shown, told, aside, lost>>
      /\ UNCHANGED <<heard, shelved, slipped, trouble>>
  BY <1>1 DEF Rest, state, look, book, ledger, turnSaw, history
<1>3. InMailbox' = InMailbox /\ Held' = Held
  BY <1>2 DEF InMailbox, Held, InFull
<1>4. Emptied' /\ Existing'
  <2>1. Emptied'
    BY <1>2 DEF IInv, Emptied
  <2>2. Msgs \subseteq Msgs' /\ Len(msgs) <= Len(msgs') /\ Len(msgs) \in Nat /\ Len(msgs') \in Nat
    BY <1>1, Numbered DEF MoreIsSaid
  <2>3. started \in Nat /\ \A t \in Timeline : marker[t] \in Nat /\ floor[t] \in Nat
    BY <1>1 DEF TypeOK
  <2>4. started' <= Len(msgs') /\ \A t \in Timeline : marker'[t] <= Len(msgs') /\ floor'[t] <= Len(msgs')
    BY <1>1, <1>2, <2>2, <2>3 DEF Existing
  <2>5. watching' \cup saved.watching' \cup drafts' \cup delivered' \cup queued' \cup InMailbox' \subseteq Msgs'
    BY <1>1, <1>2, <1>3, <2>2 DEF Existing
  <2> QED
    BY <1>1, <1>2, <2>1, <2>4, <2>5 DEF Existing
<1>5. /\ \A i \in Msgs' : msgs'[i].tl \in Timeline
      /\ \A i \in Msgs : msgs'[i].tl = msgs[i].tl
      /\ \A i \in Msgs' \ Msgs : i > Len(msgs)
      /\ Msgs \subseteq Msgs' /\ Stops' \cap Msgs = Stops
      /\ \A t \in Timeline : Of(t)' \cap Msgs = Of(t) /\ Of(t)' \subseteq Msgs'
  <2> DEFINE Message == [tl : Timeline, kind : Kind, done : BOOLEAN]
  <2>1. msgs' \in Seq(Message)
    BY <1>1 DEF MoreIsSaid
  <2> HIDE DEF Message
  <2>2. \A i \in Msgs' : msgs'[i] \in Message
    BY <2>1 DEF Msgs
  <2>3. \A i \in Msgs' : msgs'[i].tl \in Timeline
    BY <2>2 DEF Message
  <2> QED
    BY <1>1, <2>3 DEF MoreIsSaid, Of
<1>6. Msgs' \subseteq Nat /\ Msgs = 1 .. Len(msgs) /\ Len(msgs) \in Nat
  <2>1. Msgs' = 1 .. Len(msgs')
    BY <1>1 DEF MoreIsSaid, Msgs
  <2> QED
    BY <1>1, <2>1, Numbered
<1>60. \A i \in Msgs' : i <= Len(msgs) => i \in Msgs
  <2> TAKE i \in Msgs'
  <2>1. i \in Nat /\ Len(msgs) \in Nat
    BY <1>6
  <2>2. i \notin Msgs => i > Len(msgs)
    BY <1>5
  <2> QED
    BY <2>1, <2>2
<1>7. Passed' = Passed
  <2>1. ASSUME NEW i \in Passed' PROVE i \in Passed
    <3>1. i \in Msgs' /\ msgs'[i].tl \in Timeline /\ i <= marker[msgs'[i].tl]
      BY <1>2, <1>5 DEF Passed
    <3>2. marker[msgs'[i].tl] <= Len(msgs) /\ marker[msgs'[i].tl] \in Nat
      BY <1>1, <3>1 DEF Existing, TypeOK
    <3>3. i \in Msgs
      BY <1>6, <1>60, <3>1, <3>2
    <3> QED
      BY <1>5, <3>1, <3>3 DEF Passed
  <2>2. ASSUME NEW i \in Passed PROVE i \in Passed'
    BY <1>2, <1>5 DEF Passed
  <2> QED
    BY <2>1, <2>2
<1>8. Passed \subseteq Msgs /\ Passed' \ Stops' = Passed \ Stops
  BY <1>5, <1>7 DEF Passed
<1>9. markers \subseteq Msgs /\ Stops \subseteq Stops'
  BY <1>1, <1>5, Numbered DEF TypeOK
<1>10. KeptSo'
  BY <1>2, <1>5, <1>8, <1>9 DEF IInv, KeptSo
<1>11. MarkedRead'
  BY <1>2, <1>3, <1>9 DEF IInv, MarkedRead
<1>12. BehindRead'
  <2>1. ASSUME NEW m \in markers', NEW i \in Msgs' \ Stops', msgs'[i].tl = msgs'[m].tl, i <= m
        PROVE  m \in markers /\ i \in Of(msgs[m].tl) \ Stops
    <3>1. m \in markers /\ m \in Msgs /\ m <= Len(msgs)
      BY <1>1, <1>2, <1>6, <1>9
    <3>2. i \in Msgs
      BY <1>6, <1>60, <2>1, <3>1
    <3> QED
      BY <1>5, <2>1, <3>1, <3>2 DEF Of
  <2>2. ASSUME NEW S, Behind(S), NEW m \in markers', NEW i \in Msgs' \ Stops', msgs'[i].tl = msgs'[m].tl, i <= m
        PROVE  i \in S
    BY <2>1, <2>2 DEF Behind
  <2>3. ASSUME phase' = "turn"
        PROVE  \A m \in markers' : \A i \in Msgs' \ Stops' : msgs'[i].tl = msgs'[m].tl /\ i <= m
                 => i \in heard \cup shown \cup aside \cup lost \cup drafts \cup Held
    BY <1>2, <2>2, <2>3 DEF IInv, BehindRead
  <2>4. ASSUME phase' = "mark"
        PROVE  \A m \in markers' : \A i \in Msgs' \ Stops' : msgs'[i].tl = msgs'[m].tl /\ i <= m
                 => i \in heard \cup aside \cup lost \cup drafts
    BY <1>2, <2>2, <2>4 DEF IInv, BehindRead
  <2> QED
    BY <1>2, <1>3, <2>3, <2>4 DEF BehindRead, Behind, Of
<1>13. HandedOver'
  BY <1>1, <1>2, <1>3, <1>5, <1>7 DEF IInv, HandedOver, Existing
<1>14. Known \subseteq Known'
  BY <1>2, <1>9 DEF Known
<1>15. ASSUME NEW t \in Timeline, NEW i \in Of(t)', NEW n \in 0 .. Len(msgs), i <= n PROVE i \in Of(t)
  <2>1. i \in Msgs' /\ i \in Nat
    BY <1>5, <1>6
  <2>2. i <= Len(msgs)
    BY <1>6, <1>15, <2>1
  <2>3. i \in Msgs
    BY <1>60, <2>1, <2>2
  <2> QED
    BY <1>5, <2>3
<1>16. FloorKnown'
  <2> SUFFICES ASSUME phase' = "turn" PROVE FloorKnown'
    BY DEF FloorKnown
  <2>1. \A t \in Timeline : floor[t] \in 0 .. Len(msgs)
    BY <1>1, Numbered DEF Existing, TypeOK
  <2>2. \A t \in Timeline : floor'[t] # 0 => floor'[t] \in told' \cap Of(t)'
    BY <1>2, <1>5 DEF IInv, FloorKnown
  <2>3. ASSUME NEW t \in keys', NEW i \in Of(t)', i <= floor'[t] PROVE i \in Known'
    <3>1. t \in Timeline /\ t \in keys /\ i \in Of(t)
      BY <1>1, <1>2, <1>15, <2>1, <2>3 DEF TypeOK
    <3>2. i \in Known
      BY <1>2, <2>3, <3>1 DEF IInv, FloorKnown
    <3> QED
      BY <1>14, <3>2
  <2> QED
    BY <1>2, <2>2, <2>3 DEF IInv, FloorKnown
<1>17. QueuedKnown'
  <2> SUFFICES ASSUME phase' = "turn" PROVE QueuedKnown'
    BY DEF QueuedKnown
  <2>1. ASSUME NEW t \in keys', NEW q \in queued' \cap Of(t)', NEW i \in Of(t)', i <= q
        PROVE  i \in Known' \/ (i \in InMailbox' /\ q \in InMailbox')
    <3>1. t \in Timeline /\ t \in keys /\ q \in Msgs
      BY <1>1, <1>2 DEF Existing, TypeOK
    <3>2. q \in Of(t) /\ i \in Of(t)
      BY <1>5, <1>6, <1>15, <2>1, <3>1
    <3> QED
      BY <1>2, <1>3, <1>14, <2>1, <3>1, <3>2 DEF IInv, QueuedKnown
  <2> QED
    BY <1>2, <1>3, <2>1 DEF IInv, QueuedKnown
<1>18. DraftsKnown'
  <2> SUFFICES ASSUME phase' = "turn" PROVE DraftsKnown'
    BY DEF DraftsKnown
  <2>1. ASSUME NEW t \in keys' PROVE t \in keys /\ drafts \cap Of(t)' = drafts \cap Of(t) /\ watching \cap Of(t)' = watching \cap Of(t)
    BY <1>1, <1>2, <1>5, <2>1 DEF Existing, TypeOK
  <2> QED
    BY <1>2, <1>3, <2>1 DEF IInv, DraftsKnown
<1> QED
  BY <1>4, <1>10, <1>11, <1>12, <1>13, <1>16, <1>17, <1>18

\* A look that is over leaves nothing in hand.
LEMMA ForgottenKeeps ==
    ASSUME TypeOK, Existing, Forgotten, phase' = "idle", UNCHANGED <<msgs, marker>>,
           watching' \cup saved.watching' \subseteq Msgs,
           saved' \in [watching : SUBSET Ids, markedAt : [Timeline -> 0 .. MaxMsg], streak : [Timeline -> 0 .. Brake]]
    PROVE  Emptied' /\ Existing'
<1>1. /\ keys' = {} /\ queued' = {} /\ lost' = {} /\ mailbox' = {} /\ drafts' = {} /\ delivered' = {}
      /\ started' = 0 /\ floor' = None
  BY DEF Forgotten
<1>2. Msgs' = Msgs /\ Len(msgs') = Len(msgs) /\ Len(msgs) \in Nat
  BY SameMsgs, Numbered
<1>3. InMailbox' = {}
  BY <1>1 DEF InMailbox
<1>4. started' <= Len(msgs') /\ \A t \in Timeline : marker'[t] <= Len(msgs') /\ floor'[t] <= Len(msgs')
  BY <1>1, <1>2 DEF None, Existing
<1> QED
  BY <1>1, <1>2, <1>3, <1>4 DEF Emptied, Existing

\* It may fail,
LEMMA FailsKeeps ==
    ASSUME IInv, Fails
    PROVE  Emptied' /\ Existing' /\ KeptSo'
<1>1. TypeOK /\ Existing /\ KeptSo
  BY DEF IInv
<1>2. phase = "turn" /\ phase' = "idle" /\ Forgotten /\ UNCHANGED <<msgs, marker, watching, saved, heard, shelved, slipped>>
  BY DEF Fails, server, state, history
<1>3. Emptied' /\ Existing'
  BY <1>1, <1>2, ForgottenKeeps DEF Existing
<1>4. KeptSo'
  BY <1>1, <1>2, SameMsgs DEF KeptSo
<1> QED
  BY <1>3, <1>4

\* it may come to the end, and its books are in the file,
LEMMA SaveKeeps ==
    ASSUME IInv, Save
    PROVE  Emptied' /\ Existing' /\ KeptSo'
<1>1. TypeOK /\ Existing /\ KeptSo
  BY DEF IInv
<1>2. phase = "save" /\ phase' = "idle" /\ Forgotten /\ saved' = State /\ UNCHANGED <<msgs, marker, watching, heard, shelved, slipped>>
  BY DEF Save, server, state, history
<1>3. /\ saved' \in [watching : SUBSET Ids, markedAt : [Timeline -> 0 .. MaxMsg], streak : [Timeline -> 0 .. Brake]]
      /\ saved'.watching = watching
  BY <1>1, <1>2 DEF State, TypeOK
<1>4. Emptied' /\ Existing'
  BY <1>1, <1>2, <1>3, ForgottenKeeps DEF Existing
<1>5. KeptSo'
  BY <1>1, <1>2, SameMsgs DEF KeptSo
<1> QED
  BY <1>4, <1>5

\* and in a crash only what the file has is still watched.
LEMMA CrashKeeps ==
    ASSUME IInv, Crash
    PROVE  Emptied' /\ Existing' /\ KeptSo'
<1>1. TypeOK /\ Existing /\ KeptSo
  BY DEF IInv
<1>2. /\ phase' = "idle" /\ Forgotten /\ UNCHANGED <<msgs, marker, saved, heard, shelved>>
      /\ watching' = saved.watching
      /\ slipped' = slipped \cup (((watching \cup drafts) \cap Passed) \ saved.watching)
  BY DEF Crash, server
<1>3. Emptied' /\ Existing'
  BY <1>1, <1>2, ForgottenKeeps DEF Existing
<1>4. KeptSo'
  <2> SUFFICES ASSUME NEW i \in Passed \ Stops
               PROVE  i \in heard \cup shelved \cup slipped' \cup watching'
    BY <1>2, SameMsgs DEF KeptSo
  <2>1. i \in heard \cup shelved \cup slipped \cup watching \/ i \in drafts
    BY <1>1 DEF KeptSo
  <2> QED
    BY <1>2, <2>1
<1> QED
  BY <1>3, <1>4

\* A glance finds nothing in hand, and takes nothing in hand.
LEMMA OpensKeeps ==
    ASSUME IInv, NEW open, Opens(open)
    PROVE  Emptied' /\ Existing' /\ KeptSo'
<1>1. TypeOK /\ Emptied /\ Existing /\ KeptSo
  BY DEF IInv
<1>2. /\ phase = "idle" /\ phase' = "look" /\ started' = Len(msgs)
      /\ UNCHANGED <<msgs, marker, watching, saved, keys, mailbox, drafts, delivered, floor, queued, lost, heard, shelved, slipped>>
  BY DEF Opens, server, state, book, turnSaw, history
<1>3. InMailbox' = InMailbox /\ Msgs' = Msgs /\ Len(msgs) \in Nat
  BY <1>1, <1>2, SameMsgs, Numbered DEF InMailbox
<1>4. Emptied' /\ Existing'
  BY <1>1, <1>2, <1>3 DEF Emptied, Existing
<1>5. KeptSo'
  BY <1>1, <1>2, SameMsgs DEF KeptSo
<1> QED
  BY <1>4, <1>5

\* A look hands a timeline over as a whole, or leaves it to the brake as a whole.
LEMMA LookKeeps ==
    ASSUME IInv, Look
    PROVE  /\ Emptied' /\ Existing' /\ MarkedRead' /\ BehindRead' /\ HandedOver' /\ KeptSo'
           /\ FloorKnown' /\ QueuedKnown' /\ DraftsKnown'
<1>1. TypeOK /\ Emptied /\ Existing /\ KeptSo /\ LookedAt
  BY LookIs DEF IInv
<1>2. /\ phase = "look"
      /\ UNCHANGED <<msgs, marker, watching, saved, mailbox, steered, started, queued, lost, heard, shelved, slipped>>
  BY DEF Look, server, state, history
<1>3. /\ InMailbox' = InMailbox /\ InMailbox = {} /\ queued' = {} /\ lost = {}
  BY <1>1, <1>2 DEF InMailbox, Emptied
<1>4. /\ Msgs' = Msgs /\ Done' = Done /\ Stops' = Stops /\ Passed' = Passed /\ \A t : Of(t)' = Of(t)
      /\ Len(msgs) \in 0 .. MaxMsg /\ Msgs = 1 .. Len(msgs) /\ MaxMsg \in Nat
      /\ \A t \in Timeline : Of(t) \subseteq Msgs /\ \A i \in Of(t) : msgs[i].tl = t
      /\ \A i \in Msgs : msgs[i].tl \in Timeline /\ i \in Of(msgs[i].tl)
      /\ Done \subseteq Msgs
  BY <1>1, <1>2, SameMsgs, Numbered
<1>5. ASSUME NEW t \in keys'
      PROVE  /\ t \in Timeline /\ floor'[t] \in Of(t) /\ floor'[t] \in Nat /\ floor'[t] # 0
             /\ Of(t) \subseteq told' /\ \A i \in Of(t) : i <= floor'[t]
  <2>1. t \in Timeline /\ Of(t) \subseteq told' /\ Of(t) # {} /\ floor'[t] = Biggest(Of(t))
    BY <1>1 DEF LookedAt
  <2>2. Of(t) \in SUBSET (0 .. MaxMsg) /\ MaxMsg \in Nat /\ 0 \notin Of(t)
    BY <1>4, <2>1
  <2>3. /\ Biggest(Of(t)) \in Of(t) \cup {0} /\ Biggest(Of(t)) \in 0 .. MaxMsg
        /\ \A j \in Of(t) : j <= Biggest(Of(t))
    BY <2>2, BiggestIs
  <2>4. Biggest(Of(t)) # 0
    BY <2>1, <2>2, <2>3
  <2> QED
    BY <2>1, <2>2, <2>3, <2>4
<1>6. \A t \in Timeline \ keys' : floor'[t] = 0
  BY <1>1 DEF LookedAt
<1>7. Emptied'
  BY <1>1, <1>2 DEF Emptied, LookedAt
<1>8. Existing'
  <2>1. \A t \in Timeline : floor'[t] <= Len(msgs)
    BY <1>4, <1>5, <1>6
  <2>2. drafts' \cup delivered' \subseteq Msgs
    BY <1>1, <1>4 DEF LookedAt
  <2> QED
    BY <1>1, <1>2, <1>3, <1>4, <2>1, <2>2 DEF Existing
<1>9. KeptSo'
  BY <1>1, <1>2, <1>4 DEF KeptSo
<1>10. \A i \in markers' : i \in shown' \cup aside' /\ (shown' = {} => i \in aside')
  BY <1>1, <1>4 DEF LookedAt
<1>11. MarkedRead'
  BY <1>1, <1>10 DEF MarkedRead, LookedAt
<1>12. ASSUME NEW m \in markers', NEW i \in Of(msgs[m].tl)
       PROVE  i \in shown' \cup aside' \cup drafts' /\ (shown' = {} => i \in aside' \cup drafts')
  BY <1>1 DEF LookedAt, Working
<1>13. BehindRead'
  <2>1. \A m \in markers' : Of(msgs[m].tl)' = Of(msgs[m].tl)
    BY <1>2 DEF Of, Msgs
  <2> QED
    BY <1>1, <1>2, <1>4, <1>12, <2>1 DEF BehindRead, Behind, LookedAt
<1>14. HandedOver'
  <2>1. delivered' \subseteq markers'
    BY <1>1 DEF LookedAt
  <2>2. phase' = "mark" => \A i \in delivered' : msgs'[i].tl \in toMark' /\ i \in aside' \cap markers'
    BY <1>1, <1>2, <1>10, <2>1 DEF LookedAt
  <2> QED
    BY <1>10, <2>1, <2>2 DEF HandedOver
<1>15. FloorKnown'
  BY <1>4, <1>5, <1>6 DEF FloorKnown, Known
<1>16. QueuedKnown'
  BY <1>3 DEF QueuedKnown
<1>17. DraftsKnown'
  BY <1>4, <1>5 DEF DraftsKnown
<1> QED
  BY <1>7, <1>8, <1>9, <1>11, <1>13, <1>14, <1>15, <1>16, <1>17

\* A steer: what its lines leap over is accounted for, and what the mailbox holds
\* of a timeline it holds all that is before it.
LEMMA SteerKeeps ==
    ASSUME IInv, Steer
    PROVE  /\ Emptied' /\ Existing' /\ MarkedRead' /\ BehindRead' /\ HandedOver' /\ KeptSo'
           /\ FloorKnown' /\ QueuedKnown' /\ DraftsKnown'
<1>1. PICK passing, stops, status, working :
             /\ SteersIn(passing, stops, status, working)
             /\ Written(passing, stops, status) \/ Unwritten(passing, stops, status)
  BY SteerIs DEF IInv
<1>2. /\ phase = "turn" /\ phase' = "turn"
      /\ UNCHANGED <<msgs, marker, watching, saved, keys, started, floor, shown, told, heard, shelved, slipped>>
  BY DEF Steer, server, state, history
<1>3. /\ Msgs' = Msgs /\ Done' = Done /\ Stops' = Stops /\ Passed' = Passed /\ \A t : Of(t)' = Of(t)
      /\ Msgs \subseteq Nat /\ Done \subseteq Msgs /\ Stops \subseteq Msgs
      /\ \A t \in Timeline : Of(t) \subseteq Msgs /\ \A i \in Of(t) : msgs[i].tl = t
      /\ \A i \in Msgs : msgs[i].tl \in Timeline /\ i \in Of(msgs[i].tl)
  BY <1>2, SameMsgs, Numbered DEF IInv, Ids
<1>4. /\ passing \subseteq Done \ (markers \cup Stops) /\ stops \subseteq (Done \cap Stops) \ markers
      /\ status \subseteq working /\ working \subseteq Msgs \ Done
      /\ \A j \in passing \cup stops \cup status : Working(msgs[j].tl) \subseteq working
      /\ \A j \in working : msgs[j].tl \in keys => j \in status \cup watching \cup drafts
      /\ drafts' = drafts \cup working /\ delivered' = delivered \cup (passing \cap watching)
      /\ aside \subseteq aside' /\ lost \subseteq lost'
  BY <1>1 DEF SteersIn
<1>5. ASSUME NEW i \in Done \ (heard \cup markers \cup passing \cup stops), NEW q \in passing \cup stops \cup status,
             msgs[q].tl = msgs[i].tl, i < q
      PROVE  i \in shown \cup drafts \cup aside' \cup lost'
  BY <1>1, <1>5 DEF SteersIn, Leapt
<1>6. /\ markers \cup stops \subseteq markers' /\ markers' \subseteq markers \cup stops \cup passing
      /\ InMailbox \subseteq InMailbox' /\ Held \subseteq Held'
      /\ queued' \subseteq queued \cup passing \cup status
      /\ InMailbox' \subseteq InMailbox \cup passing \cup status
  <2>1. CASE Written(passing, stops, status)
    BY <2>1 DEF Written, Held
  <2>2. CASE Unwritten(passing, stops, status)
    BY <2>2 DEF Unwritten, Held
  <2> QED
    BY <1>1, <2>1, <2>2
<1>7. \/ /\ passing \cup status \subseteq InMailbox' /\ passing \subseteq Held'
      \/ /\ markers' = markers \cup stops /\ queued' = queued
         /\ status \cup (passing \cap watching) \cup Leapt(passing, stops) \subseteq lost'
  <2>1. CASE Written(passing, stops, status)
    BY <2>1 DEF Written, Held
  <2>2. CASE Unwritten(passing, stops, status)
    BY <2>2 DEF Unwritten
  <2> QED
    BY <1>1, <2>1, <2>2
<1>8. markers \subseteq shown \cup aside \cup Stops \cup Held /\ Held \subseteq InMailbox /\ shown \subseteq told
  BY <1>2 DEF IInv, TypeOK, MarkedRead, Held, InFull, InMailbox
<1>9. Emptied'
  BY <1>2 DEF Emptied
<1>10. Existing'
  <2>1. drafts' \cup delivered' \cup queued' \cup InMailbox' \subseteq Msgs
    BY <1>3, <1>4, <1>6 DEF IInv, Existing
  <2> QED
    BY <1>2, <1>3, <2>1 DEF IInv, Existing
<1>11. MarkedRead'
  <2>1. \A i \in passing : i \in markers' \ (markers \cup stops) => i \in Held'
    BY <1>7
  <2> QED
    BY <1>2, <1>3, <1>4, <1>6, <1>8, <2>1 DEF MarkedRead
<1>12. ASSUME NEW m \in markers', NEW i \in Of(msgs[m].tl) \ Stops, i <= m
       PROVE  i \in heard \cup shown \cup aside' \cup lost' \cup drafts' \cup Held'
  <2>1. m \in Msgs /\ msgs[m].tl \in Timeline /\ i \in Msgs /\ msgs[i].tl = msgs[m].tl /\ i \in Nat /\ m \in Nat
    BY <1>3, <1>4, <1>6 DEF IInv, TypeOK
  <2>2. CASE m \in markers
    BY <1>2, <1>4, <1>6, <1>12, <2>2 DEF IInv, BehindRead, Behind
  <2>3. CASE m \notin markers
    <3>1. m \in passing \cup stops /\ (m \in passing => passing \subseteq Held')
      BY <1>4, <1>6, <1>7, <2>3
    <3>2. CASE i \notin Done
      <4>1. i \in Working(msgs[m].tl)
        BY <1>12, <3>2 DEF Working
      <4> QED
        BY <1>4, <3>1, <4>1
    <3>3. CASE i \in markers
      BY <1>4, <1>6, <1>8, <1>12, <3>3
    <3>4. CASE i \in passing
      <4>1. CASE m \in passing
        BY <3>1, <3>4, <4>1
      <4>2. CASE m \in stops
        <5>1. i # m /\ i < m
          BY <1>4, <1>12, <2>1, <3>4, <4>2
        <5>2. i \in Leapt(passing, stops) \/ i \in shown \cup drafts
          BY <2>1, <3>4, <4>2, <5>1 DEF Leapt
        <5> QED
          BY <1>4, <1>7, <3>4, <5>2
      <4> QED
        BY <3>1, <4>1, <4>2
    <3>5. CASE i \in Done \ (markers \cup passing)
      <4>1. i \notin stops /\ i # m /\ i < m
        BY <1>4, <1>12, <2>1, <3>1, <3>5
      <4> QED
        BY <1>4, <1>5, <2>1, <3>1, <3>5, <4>1
    <3> QED
      BY <3>2, <3>3, <3>4, <3>5
  <2> QED
    BY <2>2, <2>3
<1>13. BehindRead'
  <2>1. \A m \in markers' : Of(msgs[m].tl)' = Of(msgs[m].tl)
    BY <1>2 DEF Of, Msgs
  <2> QED
    BY <1>2, <1>3, <1>12, <2>1 DEF BehindRead, Behind
<1>14. HandedOver'
  <2>1. delivered \subseteq heard \cup shown \cup lost \cup Held \cup (aside \cap markers)
    BY <1>2 DEF IInv, HandedOver
  <2>2. passing \cap watching \subseteq Held' \cup lost'
    BY <1>7
  <2> QED
    BY <1>2, <1>4, <1>6, <2>1, <2>2 DEF HandedOver
<1>15. KeptSo'
  BY <1>2, <1>3 DEF IInv, KeptSo
<1>16. Known \subseteq Known'
  BY <1>2, <1>3, <1>4, <1>6 DEF Known
<1>17. FloorKnown'
  BY <1>2, <1>3, <1>16 DEF IInv, FloorKnown
<1>18. ASSUME NEW t \in keys
       PROVE  /\ t \in Timeline /\ drafts \cap Of(t) \subseteq told \cup InMailbox \cup lost
              /\ watching \cap Of(t) \subseteq told
  BY <1>2 DEF IInv, TypeOK, DraftsKnown
<1>19. QueuedKnown'
  <2>1. queued' \subseteq told \cup InMailbox'
    BY <1>2, <1>6, <1>7 DEF IInv, QueuedKnown
  <2>2. ASSUME NEW t \in keys, NEW q \in queued' \cap Of(t), NEW i \in Of(t), i <= q
        PROVE  i \in Known' \/ (i \in InMailbox' /\ q \in InMailbox')
    <3>1. i \in Msgs /\ q \in Msgs /\ msgs[i].tl = t /\ msgs[q].tl = t /\ i \in Nat /\ q \in Nat
      BY <1>3, <1>18
    <3>2. CASE q \in queued
      BY <1>2, <1>6, <1>16, <2>2, <3>2 DEF IInv, QueuedKnown
    <3>3. CASE q \notin queued
      <4>1. q \in passing \cup status /\ q \in InMailbox' /\ passing \cup status \subseteq InMailbox'
        BY <1>6, <1>7, <3>3
      <4>2. told \cup heard \cup aside' \cup lost' \cup (Stops \cap markers') \subseteq Known'
        BY <1>2, <1>3 DEF Known
      <4>3. i \in drafts => i \in told \cup InMailbox \cup lost
        BY <1>18
      <4>4. CASE i \notin Done
        <5>1. i \in Working(msgs[q].tl)
          BY <3>1, <4>4 DEF Working
        <5>2. i \in status \cup watching \cup drafts
          BY <1>4, <3>1, <4>1, <5>1
        <5>3. i \in watching => i \in told
          BY <1>18
        <5> QED
          BY <1>4, <1>6, <4>1, <4>2, <4>3, <5>2, <5>3
      <4>5. CASE i \in markers
        BY <1>4, <1>6, <1>8, <4>1, <4>2, <4>5
      <4>6. CASE i \in passing
        BY <4>1, <4>6
      <4>7. CASE i \in stops
        BY <1>4, <1>6, <4>2, <4>7
      <4>8. CASE i \in Done \ (markers \cup passing \cup stops)
        <5>1. i # q /\ i < q
          BY <1>4, <2>2, <3>1, <4>1, <4>8
        <5>2. i \in heard \cup shown \cup drafts \cup aside' \cup lost'
          BY <1>5, <3>1, <4>1, <4>8, <5>1
        <5> QED
          BY <1>4, <1>6, <1>8, <4>1, <4>2, <4>3, <5>2
      <4> QED
        BY <4>4, <4>5, <4>6, <4>7, <4>8
    <3> QED
      BY <3>2, <3>3
  <2> QED
    BY <1>2, <1>3, <2>1, <2>2 DEF QueuedKnown
<1>20. DraftsKnown'
  <2>1. ASSUME NEW t \in keys, NEW i \in drafts' \cap Of(t) PROVE i \in told \cup InMailbox' \cup lost'
    <3>1. msgs[i].tl = t
      BY <1>3, <1>18
    <3>2. i \in status \cup watching \cup drafts
      BY <1>4, <2>1, <3>1
    <3>3. status \subseteq InMailbox' \cup lost'
      BY <1>7
    <3> QED
      BY <1>4, <1>6, <1>18, <2>1, <3>2, <3>3
  <2> QED
    BY <1>2, <1>3, <1>18, <2>1 DEF DraftsKnown
<1> QED
  BY <1>9, <1>10, <1>11, <1>13, <1>14, <1>15, <1>17, <1>19, <1>20

\* What the mailbox held is told, and all of it but a status is shown.
LEMMA TakeKeeps ==
    ASSUME IInv, Take
    PROVE  /\ Emptied' /\ Existing' /\ MarkedRead' /\ BehindRead' /\ HandedOver' /\ KeptSo'
           /\ FloorKnown' /\ QueuedKnown' /\ DraftsKnown'
<1>1. /\ phase = "turn" /\ phase' = "turn" /\ shown' = shown \cup InFull /\ told' = told \cup InMailbox
      /\ UNCHANGED <<msgs, marker, watching, saved, keys, steered, started, floor, queued, heard, shelved, slipped>>
      /\ UNCHANGED <<markers, drafts, delivered, aside, lost>>
  BY DEF Take, server, state, book, ledger, history
<1>2. InMailbox' = {} /\ Held' = {} /\ Held \subseteq InFull /\ mailbox' = {}
  BY DEF Take, InMailbox, InFull, Held
<1>3. Msgs' = Msgs /\ Stops' = Stops /\ Passed' = Passed /\ \A t : Of(t)' = Of(t)
  BY <1>1, SameMsgs
<1>4. Emptied' /\ Existing'
  BY <1>1, <1>2, <1>3 DEF IInv, Emptied, Existing
<1>5. MarkedRead' /\ HandedOver'
  BY <1>1, <1>2, <1>3 DEF IInv, MarkedRead, HandedOver
<1>6. BehindRead'
  <2>1. \A m \in markers : Of(msgs[m].tl)' = Of(msgs[m].tl)
    BY <1>1 DEF Of, Msgs
  <2> QED
    BY <1>1, <1>2, <1>3, <2>1 DEF IInv, BehindRead, Behind
<1>7. KeptSo'
  BY <1>1, <1>3 DEF IInv, KeptSo
<1>8. Known \subseteq Known' /\ InMailbox \subseteq Known' /\ told \cup InMailbox \subseteq told'
  BY <1>1, <1>3 DEF Known
<1>9. FloorKnown'
  BY <1>1, <1>3, <1>8 DEF IInv, FloorKnown
<1>10. QueuedKnown'
  BY <1>1, <1>3, <1>8 DEF IInv, QueuedKnown
<1>11. DraftsKnown'
  BY <1>1, <1>3, <1>8 DEF IInv, DraftsKnown
<1> QED
  BY <1>4, <1>5, <1>6, <1>7, <1>9, <1>10, <1>11

\* In a timeline of its own the agent knows of all that the guard takes for seen.
LEMMA UpToFloor ==
    ASSUME IInv, phase = "turn", NEW t \in keys, NEW i \in Of(t), i <= Floor(t)
    PROVE  i \in Known
<1>1. t \in Timeline /\ floor[t] # 0
  BY DEF IInv, TypeOK, FloorKnown
<1>2. Floor(t) = floor[t] \/ Floor(t) \in (queued \cap Of(t)) \ InMailbox
  BY <1>1, FloorIs DEF IInv
<1>3. CASE Floor(t) = floor[t]
  BY <1>3 DEF IInv, FloorKnown
<1>4. CASE Floor(t) \in (queued \cap Of(t)) \ InMailbox
  BY <1>4 DEF IInv, QueuedKnown
<1> QED
  BY <1>2, <1>3, <1>4

\* A message that is held back shows all that is beyond that, and the guard moves there.
LEMMA CheckKeeps ==
    ASSUME IInv, NEW u \in Timeline, Check(u)
    PROVE  /\ Emptied' /\ Existing' /\ MarkedRead' /\ BehindRead' /\ HandedOver' /\ KeptSo'
           /\ FloorKnown' /\ QueuedKnown' /\ DraftsKnown'
<1>1. /\ phase = "turn" /\ phase' = "turn"
      /\ UNCHANGED <<msgs, marker, watching, saved, keys, steered, mailbox, started, queued, heard, shelved, slipped>>
      /\ UNCHANGED <<markers, drafts, delivered, shown, aside, lost>>
  BY DEF Check, server, state, look, book, history
<1>2. InMailbox' = InMailbox /\ Held' = Held
  BY <1>1 DEF InMailbox, Held, InFull
<1>3. /\ Msgs' = Msgs /\ Stops' = Stops /\ Passed' = Passed /\ \A t : Of(t)' = Of(t)
      /\ Msgs = 1 .. Len(msgs) /\ Len(msgs) \in Nat /\ Of(u) \subseteq Msgs
  BY <1>1, SameMsgs, Numbered DEF IInv
<1>4. \/ UNCHANGED <<floor, told>>
      \/ /\ Fresh(u) # {}
         /\ floor' = [floor EXCEPT ![u] = Biggest(Fresh(u))] /\ told' = told \cup Fresh(u)
  BY DEF Check
<1>5. told \subseteq told'
  BY <1>4
<1>6. \A t \in Timeline \ {u} : floor'[t] = floor[t]
  BY <1>4 DEF IInv, TypeOK
<1>7. \/ floor'[u] = floor[u]
      \/ /\ floor'[u] \in Fresh(u) /\ Fresh(u) \subseteq Of(u) \cap told' /\ floor'[u] # 0
  <2>1. TypeOK /\ floor \in [Timeline -> 0 .. MaxMsg]
    BY DEF IInv, TypeOK
  <2>2. CASE /\ Fresh(u) # {}
             /\ floor' = [floor EXCEPT ![u] = Biggest(Fresh(u))] /\ told' = told \cup Fresh(u)
    <3>1. Fresh(u) \subseteq Of(u) /\ Biggest(Fresh(u)) \in Fresh(u) /\ Biggest(Fresh(u)) # 0
      BY <2>1, <2>2, FreshIs
    <3>2. floor'[u] = Biggest(Fresh(u))
      BY <2>1, <2>2
    <3> QED
      BY <2>2, <3>1, <3>2
  <2> QED
    BY <1>4, <2>2
<1>8. Emptied'
  BY <1>1 DEF Emptied
<1>9. Existing'
  <2>1. floor'[u] <= Len(msgs)
    BY <1>3, <1>7 DEF IInv, Existing
  <2>2. \A t \in Timeline : floor'[t] <= Len(msgs)
    BY <1>6, <2>1 DEF IInv, Existing
  <2> QED
    BY <1>1, <1>2, <1>3, <2>2 DEF IInv, Existing
<1>10. MarkedRead' /\ HandedOver'
  BY <1>1, <1>2, <1>3 DEF IInv, MarkedRead, HandedOver
<1>11. BehindRead'
  <2>1. \A m \in markers : Of(msgs[m].tl)' = Of(msgs[m].tl)
    BY <1>1 DEF Of, Msgs
  <2> QED
    BY <1>1, <1>2, <1>3, <2>1 DEF IInv, BehindRead, Behind
<1>12. KeptSo'
  BY <1>1, <1>3 DEF IInv, KeptSo
<1>13. Known \subseteq Known' /\ told' \subseteq Known'
  BY <1>1, <1>3, <1>5 DEF Known
<1>14. FloorKnown'
  <2>1. ASSUME NEW t \in Timeline, floor'[t] # 0 PROVE floor'[t] \in told' \cap Of(t)
    <3>1. CASE floor'[t] = floor[t]
      BY <1>1, <1>5, <2>1, <3>1 DEF IInv, FloorKnown
    <3>2. CASE floor'[t] # floor[t]
      BY <1>6, <1>7, <3>2
    <3> QED
      BY <3>1, <3>2
  <2>2. ASSUME NEW t \in keys, NEW i \in Of(t), i <= floor'[t] PROVE i \in Known'
    <3>1. t \in Timeline
      BY DEF IInv, TypeOK
    <3>2. CASE floor'[t] = floor[t]
      BY <1>1, <1>13, <2>2, <3>2 DEF IInv, FloorKnown
    <3>3. CASE floor'[t] # floor[t]
      <4>1. t = u /\ Fresh(u) \subseteq told'
        BY <1>6, <1>7, <3>1, <3>3
      <4>2. i \in Nat /\ Floor(t) \in Nat
        BY <1>3, <3>1, <4>1, FloorIs DEF IInv
      <4>3. i \in Fresh(t) \/ i <= Floor(t)
        BY <4>2 DEF Fresh
      <4> QED
        BY <1>1, <1>13, <4>1, <4>3, UpToFloor
    <3> QED
      BY <3>2, <3>3
  <2>3. ASSUME NEW t \in keys PROVE floor'[t] # 0
    <3>1. t \in Timeline /\ floor[t] # 0
      BY <1>1 DEF IInv, TypeOK, FloorKnown
    <3> QED
      BY <1>6, <1>7, <3>1
  <2> QED
    BY <1>1, <1>3, <2>1, <2>2, <2>3 DEF FloorKnown
<1>15. QueuedKnown'
  BY <1>1, <1>2, <1>3, <1>5, <1>13 DEF IInv, QueuedKnown
<1>16. DraftsKnown'
  BY <1>1, <1>2, <1>3, <1>5 DEF IInv, DraftsKnown
<1> QED
  BY <1>8, <1>9, <1>10, <1>11, <1>12, <1>14, <1>15, <1>16

\* What goes out is nothing the invariant speaks of.
LEMMA SpeakKeeps ==
    ASSUME IInv, (\E s \in typing : Speak(s)) \/ (\E t \in Timeline : Blurt(t))
    PROVE  /\ Emptied' /\ Existing' /\ MarkedRead' /\ BehindRead' /\ HandedOver' /\ KeptSo'
           /\ FloorKnown' /\ QueuedKnown' /\ DraftsKnown'
<1>1. /\ UNCHANGED <<msgs, marker, watching, saved, phase, keys, markers, drafts, delivered, steered, mailbox, toMark>>
      /\ UNCHANGED <<started, floor, queued, shown, told, aside, lost, heard, shelved, slipped>>
  BY DEF Speak, Blurt, server, state, look, book, turnSaw, history
<1> QED
  BY <1>1, SamePlaces

\* The turn is over: what is left in the mailbox is not marked, and what a marker
\* leaves behind of it is lost.
LEMMA OverKeeps ==
    ASSUME IInv, Over
    PROVE  Emptied' /\ Existing' /\ MarkedRead' /\ BehindRead' /\ HandedOver' /\ KeptSo'
<1>1. /\ phase = "turn" /\ phase' = "mark" /\ markers' = markers \ Held /\ mailbox' = {}
      /\ toMark' = {msgs[i].tl : i \in markers'} /\ heard' = heard \cup shown
      /\ lost' = (lost \cup (Held \cap delivered) \cup Leapt(Held, markers')) \ shown
      /\ UNCHANGED <<msgs, marker, watching, saved, started, floor, queued, drafts, delivered, aside, shelved, slipped>>
  BY DEF Over, Held, server, state
<1>2. /\ Msgs' = Msgs /\ Stops' = Stops /\ Passed' = Passed /\ \A t : Of(t)' = Of(t)
      /\ Msgs \subseteq Nat /\ Done \subseteq Msgs
      /\ \A t \in Timeline : Of(t) \subseteq Msgs /\ \A i \in Of(t) : msgs[i].tl = t
      /\ \A i \in Msgs : msgs[i].tl \in Timeline
  BY <1>1, SameMsgs, Numbered DEF IInv, Ids
<1>3. InMailbox' = {}
  BY <1>1 DEF InMailbox
<1>4. Emptied' /\ Existing'
  BY <1>1, <1>2, <1>3 DEF IInv, Emptied, Existing
<1>5. MarkedRead'
  BY <1>1, <1>2 DEF IInv, MarkedRead
<1>6. ASSUME NEW m \in markers', NEW i \in Of(msgs[m].tl) \ Stops, i <= m
      PROVE  i \in heard' \cup aside \cup lost' \cup drafts
  <2>1. m \in markers /\ m \in Msgs /\ m \notin Held
    BY <1>1, <1>2 DEF IInv, TypeOK
  <2>2. msgs[i].tl = msgs[m].tl /\ i \in Nat /\ m \in Nat
    BY <1>2, <2>1
  <2>3. i \in heard \cup shown \cup aside \cup lost \cup drafts \cup Held
    BY <1>1, <1>6, <2>1 DEF IInv, BehindRead, Behind
  <2>4. CASE i \in Held
    <3>1. i < m
      BY <1>6, <2>1, <2>2, <2>4
    <3>2. i \in Leapt(Held, markers') \/ i \in shown \cup drafts
      BY <2>2, <2>4, <3>1 DEF Leapt
    <3> QED
      BY <1>1, <3>2
  <2> QED
    BY <1>1, <2>3, <2>4
<1>7. BehindRead'
  <2>1. \A m \in markers' : Of(msgs[m].tl)' = Of(msgs[m].tl)
    BY <1>1 DEF Of, Msgs
  <2> QED
    BY <1>1, <1>2, <1>6, <2>1 DEF BehindRead, Behind
<1>8. HandedOver'
  <2>1. ASSUME NEW i \in delivered PROVE i \in heard' \cup lost' \/ (msgs[i].tl \in toMark' /\ i \in aside \cap markers')
    <3>1. i \in heard \cup shown \cup lost \cup Held \cup (aside \cap markers)
      BY <1>1 DEF IInv, HandedOver
    <3>2. i \in Held => i \in heard' \cup lost'
      BY <1>1
    <3> QED
      BY <1>1, <3>1, <3>2
  <2> QED
    BY <1>1, <2>1 DEF HandedOver
<1>9. KeptSo'
  BY <1>1, <1>2 DEF IInv, KeptSo
<1> QED
  BY <1>4, <1>5, <1>7, <1>8, <1>9

\* A timeline is marked, or the call fails: what the marker passes is accounted for.
LEMMA MarkKeeps ==
    ASSUME IInv, NEW t \in Timeline, Mark(t)
    PROVE  Emptied' /\ Existing' /\ MarkedRead' /\ BehindRead' /\ HandedOver' /\ KeptSo'
<1> DEFINE to     == Biggest(markers \cap Of(t))
           passes == {i \in Of(t) : i <= to}
<1>1. /\ phase = "mark" /\ phase' = "mark" /\ t \in toMark /\ toMark' = toMark \ {t}
      /\ UNCHANGED <<msgs, watching, saved, mailbox, started, floor, queued, markers, drafts, delivered, aside, lost, heard>>
      /\ \/ /\ marker' = [marker EXCEPT ![t] = Biggest({@, to})]
            /\ shelved' = shelved \cup (aside \cap passes)
            /\ slipped' = slipped \cup (lost \cap (passes \cup Passed))
         \/ /\ marker' = marker /\ shelved' = shelved
            /\ slipped' = slipped \cup ((aside \cup lost) \cap Of(t) \cap Passed)
  BY DEF Mark, state, book, ledger, turnSaw
<1>2. /\ Msgs' = Msgs /\ Stops' = Stops /\ \A u : Of(u)' = Of(u)
      /\ Msgs = 1 .. Len(msgs) /\ Len(msgs) \in 0 .. MaxMsg /\ MaxMsg \in Nat
      /\ \A u \in Timeline : Of(u) \subseteq Msgs /\ \A i \in Of(u) : msgs[i].tl = u
      /\ \A i \in Msgs : msgs[i].tl \in Timeline /\ i \in Of(msgs[i].tl)
  BY <1>1, SameMsgs, Numbered DEF IInv
<1>3. /\ to \in (markers \cap Of(t)) \cup {0} /\ to \in 0 .. Len(msgs) /\ \A i \in markers \cap Of(t) : i <= to
  <2>1. markers \cap Of(t) \in SUBSET (0 .. Len(msgs)) /\ Len(msgs) \in Nat
    BY <1>2
  <2> QED
    BY <2>1, BiggestIs
<1>4. marker[t] \in 0 .. Len(msgs)
  BY <1>2 DEF IInv, Existing, TypeOK
<1>5. /\ Biggest({marker[t], to}) \in 0 .. Len(msgs) /\ Biggest({marker[t], to}) \in {marker[t], to, 0}
  <2>1. {marker[t], to} \in SUBSET (0 .. Len(msgs)) /\ Len(msgs) \in Nat
    BY <1>2, <1>3, <1>4
  <2> QED
    BY <2>1, BiggestIs
<1> HIDE DEF to
<1>6. /\ \A u \in Timeline \ {t} : marker'[u] = marker[u]
      /\ marker'[t] \in 0 .. Len(msgs)
      /\ marker'[t] = marker[t] \/ (marker'[t] \in {to, 0} /\ marker'[t] # marker[t])
      /\ marker'[t] # marker[t] => /\ shelved' = shelved \cup (aside \cap passes)
                                   /\ slipped' = slipped \cup (lost \cap (passes \cup Passed))
  BY <1>1, <1>4, <1>5 DEF IInv, TypeOK
<1>7. shelved \subseteq shelved' /\ slipped \subseteq slipped'
  BY <1>1
<1>8. Emptied' /\ Existing'
  <2>1. InMailbox' = InMailbox
    BY <1>1 DEF InMailbox
  <2>2. ASSUME NEW u \in Timeline PROVE marker'[u] <= Len(msgs)
    <3>1. CASE u = t
      BY <1>2, <1>6, <3>1
    <3>2. CASE u # t
      BY <1>6, <3>2 DEF IInv, Existing
    <3> QED
      BY <3>1, <3>2
  <2> QED
    BY <1>1, <1>2, <2>1, <2>2 DEF IInv, Emptied, Existing
<1>9. MarkedRead'
  BY <1>1, <1>2 DEF IInv, MarkedRead
<1>10. BehindRead'
  <2>1. \A m \in markers : Of(msgs[m].tl)' = Of(msgs[m].tl)
    BY <1>1 DEF Of, Msgs
  <2> QED
    BY <1>1, <1>2, <2>1 DEF IInv, BehindRead, Behind
<1>11. HandedOver'
  <2>1. ASSUME NEW i \in delivered
        PROVE  \/ i \in heard \cup lost \cup shelved' \cup slipped'
               \/ msgs[i].tl \in toMark' /\ i \in aside \cap markers
               \/ msgs[i].tl \notin toMark' /\ i \notin Passed'
    <3>1. i \in Msgs /\ msgs[i].tl \in Timeline
      BY <1>2 DEF IInv, Existing
    <3>2. CASE i \in heard \cup lost \cup shelved \cup slipped
      BY <1>7, <3>2
    <3>3. CASE msgs[i].tl \in toMark /\ i \in aside \cap markers
      <4>1. CASE msgs[i].tl # t
        BY <1>1, <3>3, <4>1
      <4>2. CASE msgs[i].tl = t
        <5>1. i \in Of(t) /\ i \in passes
          BY <1>2, <1>3, <3>1, <3>3, <4>2
        <5>2. CASE shelved' = shelved \cup (aside \cap passes)
          BY <3>3, <5>1, <5>2
        <5>3. CASE marker' = marker /\ slipped' = slipped \cup ((aside \cup lost) \cap Of(t) \cap Passed)
          <6>1. Passed' = Passed
            BY <1>1, <5>3, SameMsgs
          <6> QED
            BY <1>1, <3>3, <4>2, <5>1, <5>3, <6>1
        <5> QED
          BY <1>1, <5>2, <5>3
      <4> QED
        BY <4>1, <4>2
    <3>4. CASE msgs[i].tl \notin toMark /\ i \notin Passed
      <4>1. msgs[i].tl # t
        BY <1>1, <3>4
      <4>2. i \notin Passed'
        BY <1>1, <1>2, <1>6, <3>1, <3>4, <4>1 DEF Passed
      <4> QED
        BY <1>1, <3>4, <4>2
    <3> QED
      BY <1>1, <3>2, <3>3, <3>4 DEF IInv, HandedOver
  <2> QED
    BY <1>1, <2>1 DEF HandedOver
<1>12. KeptSo'
  <2> SUFFICES ASSUME NEW i \in Passed' \ Stops
               PROVE  \/ i \in heard \cup shelved' \cup slipped' \cup watching
                      \/ i \in drafts /\ \E m \in markers : i < m /\ msgs[m].tl = msgs[i].tl
    BY <1>1, <1>2 DEF KeptSo
  <2>1. i \in Msgs /\ msgs[i].tl \in Timeline /\ i <= marker'[msgs[i].tl]
    BY <1>1, <1>2 DEF Passed
  <2>2. CASE i \in Passed
    BY <1>1, <1>7, <2>2 DEF IInv, KeptSo
  <2>3. CASE i \notin Passed
    <3>1. msgs[i].tl = t /\ marker'[t] # marker[t]
      BY <1>6, <2>1, <2>3 DEF Passed
    <3>2. i <= to /\ to # 0 /\ i \in 1 .. Len(msgs)
      BY <1>2, <1>6, <2>1, <3>1
    <3>3. to \in markers /\ msgs[to].tl = t /\ i \in passes
      BY <1>2, <1>3, <2>1, <3>1, <3>2
    <3>4. i \in heard \cup aside \cup lost \cup drafts
      BY <1>1, <1>2, <2>1, <3>1, <3>2, <3>3 DEF IInv, BehindRead, Behind
    <3>5. i \in aside \cup lost => i \in shelved' \cup slipped'
      BY <1>6, <3>1, <3>3
    <3>6. CASE i = to
      BY <1>1, <3>3, <3>5, <3>6 DEF IInv, MarkedRead
    <3>7. CASE i # to
      <4>1. i < to
        BY <1>3, <3>2, <3>7
      <4> QED
        BY <3>1, <3>3, <3>4, <3>5, <4>1
    <3> QED
      BY <3>6, <3>7
  <2> QED
    BY <2>2, <2>3
<1> QED
  BY <1>8, <1>9, <1>10, <1>11, <1>12

\* The books are closed: what the markers passed is delivered, or from now on watched.
LEMMA SettleKeeps ==
    ASSUME IInv, Settle
    PROVE  Emptied' /\ Existing' /\ KeptSo'
<1> DEFINE passed == {d \in drafts : d < Biggest({markedAt[msgs[d].tl]} \cup (markers \cap Of(msgs[d].tl)))}
<1>1. /\ phase = "mark" /\ toMark = {} /\ phase' = "save"
      /\ watching' = (watching \ delivered) \cup passed /\ slipped' = slipped \cup (lost \cap Passed)
      /\ UNCHANGED <<msgs, marker, saved, mailbox, started, floor, queued, drafts, delivered, heard, shelved>>
  BY DEF Settle, server, look, book, ledger
<1>2. /\ Msgs' = Msgs /\ Stops' = Stops /\ Passed' = Passed /\ InMailbox' = InMailbox /\ Msgs \subseteq Nat
      /\ \A i \in Msgs : msgs[i].tl \in Timeline /\ i \in Of(msgs[i].tl)
      /\ markers \subseteq Msgs /\ drafts \subseteq Msgs /\ MaxMsg \in Nat
  BY <1>1, SameMsgs, Numbered DEF InMailbox, IInv, TypeOK, Existing, Ids
<1>3. Emptied' /\ Existing'
  BY <1>1, <1>2 DEF IInv, Emptied, Existing
<1>4. ASSUME NEW d \in drafts, NEW m \in markers, d < m, msgs[m].tl = msgs[d].tl PROVE d \in passed
  <2>1. m \in markers \cap Of(msgs[d].tl) /\ msgs[d].tl \in Timeline
    BY <1>2, <1>4
  <2>2. /\ m <= Biggest({markedAt[msgs[d].tl]} \cup (markers \cap Of(msgs[d].tl)))
        /\ Biggest({markedAt[msgs[d].tl]} \cup (markers \cap Of(msgs[d].tl))) \in 0 .. MaxMsg
    BY <2>1, UpTo DEF IInv
  <2>3. d \in Nat /\ m \in Nat
    BY <1>2
  <2> QED
    BY <1>2, <1>4, <2>2, <2>3
<1> HIDE DEF passed
<1>5. KeptSo'
  <2> SUFFICES ASSUME NEW i \in Passed \ Stops PROVE i \in heard \cup shelved \cup slipped' \cup watching'
    BY <1>1, <1>2 DEF KeptSo
  <2>1. \/ i \in heard \cup shelved \cup slipped \cup watching
        \/ i \in drafts /\ \E m \in markers : i < m /\ msgs[m].tl = msgs[i].tl
    BY DEF IInv, KeptSo
  <2>2. i \in delivered => i \in heard \cup lost \cup shelved \cup slipped
    BY <1>1 DEF IInv, HandedOver
  <2> QED
    BY <1>1, <1>4, <2>1, <2>2
<1> QED
  BY <1>3, <1>5

--------------------------------------------------------------------------------
\* The invariant, and what follows from it.

\* Nothing but what the loop has in variables is in it.
LEMMA StuttersKeeps ==
    ASSUME IInv, UNCHANGED vars
    PROVE  IInv'
<1>1. /\ UNCHANGED <<msgs, marker, watching, saved, phase, keys, markers, drafts, delivered, steered, mailbox, toMark>>
      /\ UNCHANGED <<started, floor, queued, shown, told, aside, lost, heard, shelved, slipped>>
  BY DEF vars, server, state, look, book, ledger, turnSaw, history
<1>2. TypeOK'
  BY TypeStep DEF IInv
<1> QED
  BY <1>1, <1>2, SamePlaces DEF IInv

\* Every step keeps the invariant.
LEMMA Inductive ==
    IInv /\ [Next]_vars => IInv'
<1> SUFFICES ASSUME IInv, [Next]_vars PROVE IInv'
  OBVIOUS
<1>1. TypeOK'
  BY TypeStep DEF IInv
<1>2. CASE UNCHANGED vars
  BY <1>2, StuttersKeeps
<1>3. CASE Others
  BY <1>1, <1>3, OthersKeep DEF IInv
<1>4. CASE Look
  BY <1>1, <1>4, LookKeeps DEF IInv
<1>5. CASE Steer
  BY <1>1, <1>5, SteerKeeps DEF IInv
<1>6. CASE Take
  BY <1>1, <1>6, TakeKeeps DEF IInv
<1>7. ASSUME NEW t \in Timeline, Check(t) PROVE IInv'
  BY <1>1, <1>7, CheckKeeps DEF IInv
<1>8. CASE Over
  BY <1>1, <1>8, OverKeeps, Elsewhere DEF IInv, Over
<1>9. ASSUME NEW t \in Timeline, Mark(t) PROVE IInv'
  <2>1. phase' = "mark"
    BY <1>9 DEF Mark
  <2> QED
    BY <1>1, <1>9, <2>1, MarkKeeps, Elsewhere DEF IInv
<1>10. CASE Settle
  BY <1>1, <1>10, SettleKeeps, Elsewhere DEF IInv, Settle
<1>11. CASE Save
  BY <1>1, <1>11, SaveKeeps, Elsewhere DEF IInv, Save
<1>12. CASE Crash
  BY <1>1, <1>12, CrashKeeps, Elsewhere DEF IInv, Crash
<1>13. CASE Fails
  BY <1>1, <1>13, FailsKeeps, Elsewhere DEF IInv, Fails
<1>14. ASSUME NEW open, Opens(open) PROVE IInv'
  BY <1>1, <1>14, OpensKeeps, Elsewhere DEF IInv, Opens
<1>15. CASE Heartbeat \/ Buzz
  BY <1>14, <1>15 DEF Heartbeat, Buzz
<1>16. CASE (\E s \in typing : Speak(s)) \/ (\E t \in Timeline : Blurt(t))
  BY <1>1, <1>16, SpeakKeeps DEF IInv
<1> QED
  BY <1>2, <1>3, <1>4, <1>5, <1>6, <1>7, <1>8, <1>9, <1>10, <1>11, <1>12, <1>13, <1>15, <1>16
     DEF Next, Loop, Proceed, Sends

\* The invariant holds of every state: whatever is behind a line that is to be
\* marked was handed over, or somebody is to blame, and whatever is before a place
\* the send guard takes for seen the agent knows of.
THEOREM Invariant == Spec => []IInv
BY Initially, Inductive, PTL DEF Spec

\* The books of a look only name what it has read, and between looks there are none.
THEOREM TypeCorrect == Spec => []TypeOK
<1>1. IInv => TypeOK
  BY DEF IInv
<1> QED
  BY <1>1, Invariant, PTL

\* Nothing is marked read and forgotten: whatever people and agents post, in
\* whichever order it is read, steered in, spoken over, marked and saved, and
\* whatever of that fails, what a marker has passed was heard by the agent, is
\* shelved under the brake or watched; or it slipped, as the code lets it.
THEOREM NothingForgotten == Spec => []Kept
<1>1. IInv => Kept
  BY DEF IInv, KeptSo, Kept
<1> QED
  BY <1>1, Invariant, PTL

\* What the guard lets through is said over nothing unseen.
LEMMA SentOverSeen ==
    ASSUME IInv, phase = "turn", NEW t \in Timeline, Fresh(t) = {}
    PROVE  Unseen(t) = {}
<1> SUFFICES ASSUME NEW i \in Unseen(t) PROVE FALSE
  OBVIOUS
<1>1. /\ i \in Of(t) /\ i \notin Known
      /\ t \in keys \/ \A j \in {started} \cup (told \cap Of(t)) : j < i
  BY DEF Unseen, Known
<1>2. /\ i \in Nat /\ Floor(t) \in Nat /\ started \in Nat
      /\ Floor(t) \in (queued \cap Of(t)) \ InMailbox \/ Floor(t) = IF floor[t] = 0 THEN started ELSE floor[t]
  <2>1. TypeOK /\ started \in 0 .. MaxMsg
    BY DEF IInv, TypeOK
  <2>2. MaxMsg \in Nat /\ i \in Nat
    BY <1>1, <2>1, Numbered
  <2>3. /\ Floor(t) \in 0 .. MaxMsg
        /\ Floor(t) \in (queued \cap Of(t)) \ InMailbox \/ Floor(t) = IF floor[t] = 0 THEN started ELSE floor[t]
    BY <2>1, FloorIs
  <2> QED
    BY <2>1, <2>2, <2>3
<1>3. i <= Floor(t)
  BY <1>1, <1>2 DEF Fresh
<1>4. CASE t \in keys
  BY <1>1, <1>3, <1>4, UpToFloor
<1>5. CASE t \notin keys
  <2>1. Floor(t) \in {started} \cup (told \cap Of(t))
    <3>1. floor[t] # 0 => floor[t] \in told \cap Of(t)
      BY DEF IInv, FloorKnown
    <3>2. queued \subseteq told \cup InMailbox
      BY DEF IInv, QueuedKnown
    <3> QED
      BY <1>2, <3>1, <3>2
  <2>2. Floor(t) < i
    BY <1>1, <1>5, <2>1
  <2> QED
    BY <1>2, <1>3, <2>2
<1> QED
  BY <1>4, <1>5

\* Of what is on its way: it is typed in a turn, and what the guard looked at before it
\* let it through was posted, and seen.
TypingSeen ==
    /\ phase # "turn" => typing = {}
    /\ \A s \in typing : s[2] <= Len(msgs) /\ Unseen(s[1]) \cap (1 .. s[2]) = {}

\* What comes later the guard did not look at, and what was seen stays seen.
LEMMA StillSeen ==
    ASSUME IInv, TypingSeen, NEW s \in typing, UNCHANGED <<keys, started>>,
           told \subseteq told', Known \subseteq Known',
           Of(s[1]) \subseteq Of(s[1])', \A i \in Of(s[1])' : i <= Len(msgs) => i \in Of(s[1])
    PROVE  Unseen(s[1])' \cap (1 .. s[2]) = {}
<1> SUFFICES ASSUME NEW i \in Unseen(s[1])', i \in 1 .. s[2] PROVE FALSE
  OBVIOUS
<1>1. s[1] \in Timeline /\ s[2] \in Nat /\ Len(msgs) \in Nat /\ s[2] <= Len(msgs)
  <2>1. MaxMsg \in Nat /\ Len(msgs) \in Nat
    BY Numbered DEF IInv
  <2>2. s \in Timeline \X (0 .. MaxMsg)
    BY DEF IInv, TypeOK
  <2> QED
    BY <2>1, <2>2 DEF TypingSeen
<1>2. /\ i \in Of(s[1])' /\ i \notin Known'
      /\ s[1] \in keys' \/ \A j \in {started'} \cup (told' \cap Of(s[1])') : j < i
  BY DEF Unseen, Known
<1>3. i <= Len(msgs)
  BY <1>1
<1>4. i \in Of(s[1]) /\ i \notin Known
  BY <1>2, <1>3
<1>5. s[1] \in keys \/ \A j \in {started} \cup (told \cap Of(s[1])) : j < i
  BY <1>2
<1>6. i \in Unseen(s[1])
  BY <1>4, <1>5 DEF Unseen, Known
<1> QED
  BY <1>6 DEF TypingSeen

\* Every step of a turn that goes on leaves it so, and no other leaves a message on its way.
LEMMA TypingStep ==
    ASSUME IInv, TypingSeen, [Next]_vars
    PROVE  TypingSeen'
<1>1. TypeOK /\ Len(msgs) \in Nat
  BY Numbered DEF IInv
<1>2. ASSUME UNCHANGED <<msgs, keys, started>>, told \subseteq told', Known \subseteq Known', NEW s \in typing
      PROVE  s[2] <= Len(msgs') /\ Unseen(s[1])' \cap (1 .. s[2]) = {}
  BY <1>2, StillSeen, SameMsgs DEF TypingSeen
<1>3. CASE Others
  <2>1. MoreIsSaid /\ UNCHANGED <<phase, keys, started, told, typing, heard, aside, lost, shelved, slipped, markers>>
    BY <1>1, <1>3, OthersSay DEF Rest, state, look, book, ledger, turnSaw, history
  <2>2. Known \subseteq Known'
    <3>1. Stops \cap Msgs \subseteq Stops' /\ Stops \subseteq Msgs
      BY <2>1 DEF MoreIsSaid, Stops
    <3> QED
      BY <2>1, <3>1 DEF Known
  <2>3. ASSUME NEW s \in typing PROVE s[2] <= Len(msgs') /\ Unseen(s[1])' \cap (1 .. s[2]) = {}
    <3>1. s[1] \in Timeline /\ s[2] \in Nat /\ s[2] <= Len(msgs)
      BY <1>1, Numbered DEF TypingSeen, TypeOK
    <3>2. Len(msgs) <= Len(msgs') /\ Len(msgs') \in Nat
      BY <1>1, <2>1, Numbered DEF MoreIsSaid
    <3>3. Of(s[1]) \subseteq Of(s[1])'
      BY <2>1, <3>1 DEF MoreIsSaid
    <3>4. ASSUME NEW i \in Of(s[1])', i <= Len(msgs) PROVE i \in Of(s[1])
      <4>1. i \in Msgs' /\ (i \notin Msgs => i > Len(msgs))
        BY <2>1 DEF MoreIsSaid, Of
      <4>2. i \in Nat
        BY <4>1, <2>1 DEF MoreIsSaid, Msgs
      <4>3. i \in Msgs
        BY <1>1, <3>4, <4>1, <4>2
      <4> QED
        BY <2>1, <3>1, <4>3 DEF MoreIsSaid
    <3>5. Unseen(s[1])' \cap (1 .. s[2]) = {}
      BY <2>1, <2>2, <3>3, <3>4, StillSeen
    <3> QED
      BY <1>1, <3>1, <3>2, <3>5
  <2> QED
    BY <2>1, <2>3 DEF TypingSeen
<1>4. CASE Steer
  <2>1. PICK passing, stops, status, working :
             /\ SteersIn(passing, stops, status, working)
             /\ Written(passing, stops, status) \/ Unwritten(passing, stops, status)
    BY <1>1, <1>4, SteerIs
  <2>2. /\ phase' = "turn" /\ UNCHANGED <<msgs, keys, started, told, typing, heard, shelved, slipped>>
        /\ aside \subseteq aside' /\ lost \subseteq lost' /\ markers \subseteq markers'
    BY <1>4, <2>1 DEF Steer, server, state, history, SteersIn, Written, Unwritten
  <2>3. Known \subseteq Known'
    BY <2>2, SameMsgs DEF Known
  <2> QED
    BY <1>2, <2>2, <2>3 DEF TypingSeen
<1>5. CASE Take
  <2>1. /\ phase' = "turn" /\ told \subseteq told'
        /\ UNCHANGED <<msgs, keys, started, typing, heard, aside, lost, shelved, slipped, markers>>
    BY <1>5 DEF Take, server, state, book, ledger, history
  <2>2. Known \subseteq Known'
    BY <2>1, SameMsgs DEF Known
  <2> QED
    BY <1>2, <2>1, <2>2 DEF TypingSeen
<1>6. ASSUME NEW t \in Timeline, Check(t) PROVE TypingSeen'
  <2>1. /\ phase = "turn" /\ phase' = "turn" /\ told \subseteq told'
        /\ UNCHANGED <<msgs, keys, started, heard, aside, lost, shelved, slipped, markers>>
    BY <1>6 DEF Check, server, state, look, book, history
  <2>2. Known \subseteq Known' /\ Len(msgs') = Len(msgs)
    BY <2>1, SameMsgs DEF Known
  <2>3. CASE Fresh(t) # {}
    <3>1. typing' = typing
      BY <1>6, <2>3 DEF Check
    <3> QED
      BY <1>2, <2>1, <2>2, <3>1 DEF TypingSeen
  <2>4. CASE Fresh(t) = {}
    <3>1. typing' = typing \cup {<<t, Len(msgs)>>} /\ UNCHANGED told
      BY <1>6, <2>4 DEF Check
    <3>2. Unseen(t)' = Unseen(t)
      BY <2>1, <3>1, SameMsgs DEF Unseen
    <3>3. Unseen(t) = {}
      BY <2>1, <2>4, SentOverSeen
    <3>4. \A s \in typing : s[2] <= Len(msgs') /\ Unseen(s[1])' \cap (1 .. s[2]) = {}
      BY <1>2, <2>1, <2>2
    <3>5. <<t, Len(msgs)>>[1] = t /\ <<t, Len(msgs)>>[2] = Len(msgs) /\ Len(msgs) <= Len(msgs')
      BY <1>1, <2>2
    <3> QED
      BY <2>1, <3>1, <3>2, <3>3, <3>4, <3>5 DEF TypingSeen
  <2> QED
    BY <2>3, <2>4
<1>7. CASE (\E s \in typing : Speak(s)) \/ (\E t \in Timeline : Blurt(t))
  <2>1. /\ phase' = "turn" /\ typing' \subseteq typing
        /\ UNCHANGED <<msgs, keys, started, told, heard, aside, lost, shelved, slipped, markers>>
    BY <1>7 DEF Speak, Blurt, server, state, look, book, turnSaw, history
  <2>2. Known \subseteq Known'
    BY <2>1, SameMsgs DEF Known
  <2> QED
    BY <1>2, <2>1, <2>2 DEF TypingSeen
<1>8. CASE Over \/ Fails \/ Save \/ Crash
  <2>1. typing' = {}
    BY <1>8 DEF Over, Fails, Save, Crash, Forgotten
  <2> QED
    BY <2>1 DEF TypingSeen
<1>9. ASSUME phase # "turn", typing' = typing PROVE TypingSeen'
  BY <1>9 DEF TypingSeen
<1>10. ASSUME NEW open, Opens(open) PROVE TypingSeen'
  BY <1>9, <1>10 DEF Opens
<1>11. CASE Heartbeat \/ Buzz
  BY <1>10, <1>11 DEF Heartbeat, Buzz
<1>12. CASE Look \/ Settle \/ \E t \in Timeline : Mark(t)
  BY <1>9, <1>12 DEF Look, Settle, Mark, ledger
<1>13. CASE UNCHANGED vars
  <2>1. UNCHANGED <<msgs, phase, keys, started, told, typing, heard, aside, lost, shelved, slipped, markers>>
    BY <1>13 DEF vars, server, look, book, ledger, turnSaw, history
  <2>2. Known \subseteq Known'
    BY <2>1, SameMsgs DEF Known
  <2> QED
    BY <1>2, <2>1, <2>2 DEF TypingSeen
<1> QED
  BY <1>3, <1>4, <1>5, <1>6, <1>7, <1>8, <1>11, <1>12, <1>13 DEF Next, Loop, Proceed, Sends

\* Of a timeline where the agent has a message on its way, it was told of all that the
\* send guard looked at, however often it was held back there, whatever was put in the
\* mailbox, taken from it or never got there, and whatever others say meanwhile.
THEOREM NothingSaidOverNews == Spec => []NotOverNews
<1>1. Init => TypingSeen
  BY DEF Init, TypingSeen
<1>2. IInv /\ TypingSeen /\ [Next]_vars => TypingSeen'
  BY TypingStep
<1>3. TypingSeen => NotOverNews
  BY DEF TypingSeen, NotOverNews
<1> QED
  BY <1>1, <1>2, <1>3, Invariant, PTL DEF Spec
==============================================================================
