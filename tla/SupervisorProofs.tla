--------------------------- MODULE SupervisorProofs ---------------------------
(***************************************************************************)
(* For any number of bots, daemons and commands, and of whatever goes      *)
(* wrong: no second daemon of a bot is started, and no death is noted      *)
(* twice.                                                                  *)
(***************************************************************************)
EXTENDS Supervisor, TLAPS

\* Where the loop, and a restart, stand with SPAWNING held.
LoopHolds ==
    \/ loop.at \in {"born", "written", "exec"}
    \/ loop.at \in {"stop", "unlink"} /\ loop.next = "exec"
ControlHolds == ctl.at \in {"note", "signal", "wait", "start", "born", "written"}

\* Nobody goes on with SPAWNING but who holds it.
Locked == (LoopHolds => lock = "loop") /\ (ControlHolds => lock = "control")

\* A running daemon is some bot's.
Owned == \A p \in Pid : state[p] = "running" => of[p] \in Bot

\* What each place of the loop, of a restart and of a command has picked.
LoopPicked ==
    /\ loop.at \in {"unlink", "saw", "want", "born", "written", "save"} => loop.bot \in Bot
    /\ loop.at \in {"born", "written"} =>
         loop.new \in Pid /\ of[loop.new] = loop.bot /\ state[loop.new] # "unborn"
    /\ loop.at = "unlink" =>
         loop.victim \in Pid /\ state[loop.victim] \notin {"unborn", "running"}
    /\ loop.at = "drain" => loop.back # "none"
    /\ loop.at \in {"stop", "unlink"} <=> loop.next # "none"
    /\ loop.next = "exec" \/ loop.at = "exec" => loop.back # "none"

ControlPicked ==
    /\ ctl.at # "idle" => ctl.bot \in Bot
    /\ ctl.at \in {"born", "written"} =>
         ctl.new \in Pid /\ of[ctl.new] = ctl.bot /\ state[ctl.new] # "unborn"

CommandPicked ==
    /\ cmd.at # "idle" => cmd.bot \in Bot
    /\ cmd.at \in {"note", "signal"} => cmd.pid \in Pid /\ state[cmd.pid] # "unborn"
    /\ cmd.at \in {"wait", "unlink"} =>
         cmd.pid \in Pid /\ state[cmd.pid] \notin {"unborn", "running"}

\* A pid file names a daemon that was started.
Started == \A b \in Bot : pidFile[b] # 0 => state[pidFile[b]] # "unborn"

Picked == Owned /\ LoopPicked /\ ControlPicked /\ CommandPicked /\ Started

\* The daemon whose pid is not written yet.
Fresh(p) == (loop.at = "born" /\ loop.new = p) \/ (ctl.at = "born" /\ ctl.new = p)

\* A running daemon's pid is in its bot's file, or about to be.
Tracked ==
    \A p \in Pid :
        state[p] = "running" => of[p] \in lost \/ pidFile[of[p]] = p \/ Fresh(p)

\* Who writes a pid is the bot's only daemon.
Alone ==
    /\ loop.at = "born" /\ loop.bot \notin lost =>
         \A q \in Daemons(loop.bot) : q = loop.new
    /\ ctl.at = "born" /\ ctl.bot \notin lost =>
         \A q \in Daemons(ctl.bot) : q = ctl.new

\* The types of the rest.
RestType ==
    /\ lock \in {"free", "loop", "control"} /\ seen \in [Bot -> 0 .. MaxPid]
    /\ valid \in [Bot -> 0 .. MaxToken]
    /\ notice \in [Bot -> {"none", "provision", "rotation"}]
    /\ counted \in [Pid -> Nat] /\ taken \subseteq Pid
    /\ lost \subseteq Bot
    /\ trouble \in 0 .. MaxTrouble

\* A daemon is started once, for one bot, and one that was asked to stop, or is
\* gone, does not run again.
Aging ==
    \A p \in Pid : state[p] # "unborn" =>
        /\ state'[p] # "unborn" /\ of'[p] = of[p]
        /\ state'[p] = "running" => state[p] = "running"

\* No daemon is started ...
NoneBorn ==
    /\ \A p \in Pid : state'[p] = "running" => state[p] = "running" /\ of'[p] = of[p]
    /\ (loop.at = "born" \/ loop'.at = "born") => loop' = loop
    /\ (ctl.at = "born" \/ ctl'.at = "born") => ctl' = ctl

\* ... and no pid written or removed.
Quiet == NoneBorn /\ pidFile' = pidFile /\ lost' = lost

QuietUnless ==
    \/ Quiet
    \/ SupervisorEnds \/ StopUnlink \/ StartOne \/ WritePid
    \/ Confirm \/ Restart \/ RestartPid \/ CommandUnlink

\* The inductive invariant.
IInv == TypeOK /\ Picked /\ Locked /\ Tracked /\ Alone

\* A daemon that ended.
Dead(p) == state[p] \in {"zombie", "gone"}

\* A daemon of b that was started.
Its(p, b) == state[p] # "unborn" /\ of[p] = b

\* The loop holds the pid it found in a file, and goes on to start another; so does
\* a restart that found its bot down, or any restart.
LoopKnows     == loop.at \in {"saw", "want", "born", "written"} /\ loop.had # 0
LoopStarts    == loop.at \in {"want", "born", "written"} /\ loop.had # 0
ControlStarts == ctl.at \in {"start", "born", "written"} /\ ctl.old = 0 /\ ctl.had # 0
LoopWrites    == loop.at \in {"born", "written"}
ControlWrites == ctl.at \in {"born", "written"}

\* A restart stops some daemon.
Stopping == ctl.at \in {"note", "signal", "wait"} => ctl.old # 0

\* A pid that is in a file, in SEEN or in hand is a daemon's of that bot.
Whose ==
    /\ \A b \in Bot : pidFile[b] # 0 => Its(pidFile[b], b)
    /\ \A b \in Bot : seen[b] # 0 => Its(seen[b], b)
    /\ LoopKnows => Its(loop.had, loop.bot)
    /\ ControlStarts => Its(ctl.had, ctl.bot)

\* What is replaced, or was counted, or went with its supervisor, has ended.
Deaths ==
    /\ LoopStarts => Dead(loop.had)
    /\ ControlStarts => Dead(ctl.had)
    /\ \A p \in Pid : counted[p] # 0 => Dead(p)
    /\ \A p \in taken : state[p] = "gone"

\* What this supervisor saw, or started, did not go with an earlier one.
Here ==
    /\ \A b \in Bot : seen[b] \notin taken
    /\ loop.at = "saw" => loop.had \notin taken
    /\ LoopWrites => loop.new \notin taken
    /\ ControlWrites => ctl.new \notin taken

\* Who has written a new daemon's pid has it over that of the one before.
Replaced ==
    /\ LoopStarts /\ loop.at # "want" => loop.had # loop.new
    /\ LoopStarts /\ loop.at = "written" => pidFile[loop.bot] # loop.had
    /\ ControlStarts /\ ControlWrites => ctl.had # ctl.new
    /\ ControlStarts /\ ctl.at = "written" => pidFile[ctl.bot] # ctl.had

\* A death that was counted is in no pid file, and nobody comes upon it again: if the
\* loop still holds it, SEEN is about another daemon.
Counted ==
    \A p \in Pid : counted[p] # 0 =>
        /\ \A b \in Bot : pidFile[b] # p
        /\ ControlStarts => ctl.had # p
        /\ ControlWrites => ctl.new # p
        /\ LoopWrites => loop.new # p
        /\ LoopStarts /\ loop.had = p => seen[loop.bot] # p

\* What a step does that spawns nothing, writes no pid and notes no death: pid files and
\* SEEN only lose what they name, and nobody gets to hold a pid.
Still ==
    /\ UNCHANGED <<counted, taken>>
    /\ \A b \in Bot : pidFile'[b] \in {pidFile[b], 0} /\ seen'[b] \in {seen[b], 0}
    /\ loop' = loop \/ loop'.at \notin {"saw", "want", "born", "written"}
    /\ \/ ctl' = ctl
       \/ /\ ~ControlWrites'
          /\ ctl'.at \in {"note", "signal", "wait", "start"} => ctl'.old # 0

StillUnless ==
    \/ Still
    \/ SupervisorEnds \/ Saw \/ StartOne \/ WritePid \/ Settle \/ \E b \in Bot : Look(b)
    \/ Hold \/ Restart \/ RestartPid \/ Restarted

\* What keeps a death from being counted twice.
News == Stopping /\ Whose /\ Deaths /\ Here /\ Replaced /\ Counted /\ DeathsAreNews
-------------------------------------------------------------------------------
\* What the fields of the loop, a restart and a command may be.
LEMMA Fields ==
    ASSUME TypeOK
    PROVE  /\ loop.cfg \in Registry /\ loop.left \subseteq Bot /\ loop.bot \in Bot \cup {None}
           /\ loop.had \in 0 .. MaxPid /\ loop.new \in 0 .. MaxPid /\ loop.stops \subseteq Bot
           /\ loop.victim \in 0 .. MaxPid /\ loop.next \in {"none", "load", "exec", "poll"}
           /\ loop.back \in {"none", "bots", "poll"}
           /\ ctl.bot \in Bot \cup {None} /\ ctl.token \in 0 .. MaxToken
           /\ ctl.had \in 0 .. MaxPid /\ ctl.old \in 0 .. MaxPid /\ ctl.new \in 0 .. MaxPid
           /\ cmd.bot \in Bot \cup {None} /\ cmd.cfg \in Registry /\ cmd.pid \in 0 .. MaxPid
<1>1. loop \in LoopType => /\ loop.cfg \in Registry /\ loop.left \subseteq Bot
        /\ loop.bot \in Bot \cup {None} /\ loop.had \in 0 .. MaxPid /\ loop.new \in 0 .. MaxPid
        /\ loop.stops \subseteq Bot /\ loop.victim \in 0 .. MaxPid
        /\ loop.next \in {"none", "load", "exec", "poll"} /\ loop.back \in {"none", "bots", "poll"}
  BY DEF LoopType
<1>2. ctl \in CtlType => /\ ctl.bot \in Bot \cup {None} /\ ctl.token \in 0 .. MaxToken
        /\ ctl.had \in 0 .. MaxPid /\ ctl.old \in 0 .. MaxPid /\ ctl.new \in 0 .. MaxPid
  BY DEF CtlType
<1>3. cmd \in CmdType =>
        cmd.bot \in Bot \cup {None} /\ cmd.cfg \in Registry /\ cmd.pid \in 0 .. MaxPid
  BY DEF CmdType
<1> QED
  BY <1>1, <1>2, <1>3 DEF TypeOK

\* Nothing at hand is of the type.
LEMMA Nothing == NoLoop \in LoopType /\ Idle \in CtlType /\ NoCmd \in CmdType
<1>1. 0 \in 0 .. MaxPid /\ 0 \in 0 .. MaxToken
  BY SupervisorAssumption
<1>2. [b \in Bot |-> 0] \in Registry
  BY <1>1 DEF Registry
<1>3. NoLoop \in LoopType
  BY <1>1, <1>2 DEF NoLoop, LoopType
<1>4. Idle \in CtlType
  BY <1>1 DEF Idle, CtlType
<1>5. NoCmd \in CmdType
  BY <1>1, <1>2 DEF NoCmd, CmdType
<1> QED
  BY <1>3, <1>4, <1>5

\* The loop keeps its type.
LEMMA LoopTyped ==
    ASSUME TypeOK, Picked, [Next]_vars
    PROVE  (loop \in LoopType)'
<1>0. /\ loop \in LoopType /\ pidFile \in [Bot -> 0 .. MaxPid]
      /\ loop.at \in {"drain", "exec"} => loop.back # "none"
      /\ loop.at = "stop" => loop.next # "none"
      /\ registry \in Registry
      /\ registry \in [Bot -> 0 .. MaxToken] /\ valid \in [Bot -> 0 .. MaxToken]
      /\ tombs \subseteq Bot /\ 0 \in 0 .. MaxPid
  BY SupervisorAssumption DEF TypeOK, FilesType, Picked, LoopPicked, Registry
<1>1. ASSUME NEW p \in Pid, Die(p) \/ End(p) \/ Refused(p)
      PROVE  (loop \in LoopType)'
  BY <1>1, <1>0 DEF Die, End, Refused
<1>2. ASSUME NEW b \in Bot, Revoke(b) \/ Delete(b) \/ Ask(b)
      PROVE  (loop \in LoopType)'
  BY <1>2, <1>0 DEF Revoke, Delete, Ask
<1>3. ASSUME NEW b \in Bot, NEW kind \in {"rm", "down", "add"}, Command(kind, b)
      PROVE  (loop \in LoopType)'
  BY <1>3, <1>0 DEF Command
<1>4. ASSUME Begin \/ SupervisorEnds
      PROVE  (loop \in LoopType)'
  <2>1. CASE Begin
    BY <2>1, <1>0, Nothing DEF Begin, LoopType
  <2>2. CASE SupervisorEnds
    BY <2>2, <1>0, Nothing DEF SupervisorEnds, LoopType
  <2> QED
    BY <1>4, <2>1, <2>2
<1>5. ASSUME NEW b \in Bot, StopSignal(b) \/ Look(b) \/ Claim(b)
      PROVE  (loop \in LoopType)'
  <2>1. CASE StopSignal(b)
    <3>1. \/ loop' = [loop EXCEPT !.stops = loop.stops \ {b}]
          \/ /\ pidFile[b] \in 0 .. MaxPid
             /\ loop' = [loop EXCEPT !.at = "unlink", !.bot = b, !.victim = pidFile[b]]
      BY <2>1, <1>0 DEF StopSignal
    <3>2. CASE loop' = [loop EXCEPT !.stops = loop.stops \ {b}]
      BY <1>0, <3>2 DEF LoopType
    <3>3. CASE /\ pidFile[b] \in 0 .. MaxPid
               /\ loop' = [loop EXCEPT !.at = "unlink", !.bot = b, !.victim = pidFile[b]]
      BY <1>0, <3>3 DEF LoopType
    <3> QED
      BY <3>1, <3>2, <3>3
  <2>2. CASE Look(b)
    BY <2>2, <1>0, Nothing DEF Look, LoopType
  <2>3. CASE Claim(b)
    BY <2>3, <1>0, Nothing DEF Claim, LoopType, Registry
  <2> QED
    BY <1>5, <2>1, <2>2, <2>3
<1>6. ASSUME Top \/ SweepStore \/ StopUnlink \/ Stopped \/ Load \/ Checked \/ MoveOn \/ Exec
          \/ Saw \/ StartOne \/ WritePid \/ Settle \/ PassDone \/ Save \/ Polled
      PROVE  (loop \in LoopType)'
  <2>1. CASE Top
    <3> DEFINE dropped == {b \in tombs : registry[b] # 0}
    <3>1. [b \in Bot |-> IF b \in dropped THEN 0 ELSE registry[b]] \in Registry
      BY <1>0, SupervisorAssumption DEF Registry
    <3>2. dropped \subseteq Bot
      BY <1>0
    <3>3. \/ loop' = [loop EXCEPT !.at = "load"]
          \/ loop' = [loop EXCEPT !.at = "sweep", !.stops = dropped,
                       !.cfg = [b \in Bot |-> IF b \in dropped THEN 0 ELSE registry[b]]]
      BY <2>1 DEF Top
    <3> DEFINE left == [b \in Bot |-> IF b \in dropped THEN 0 ELSE registry[b]]
    <3> HIDE DEF dropped, left
    <3>4. CASE loop' = [loop EXCEPT !.at = "load"]
      BY <1>0, <3>4 DEF LoopType
    <3>5. CASE loop' = [loop EXCEPT !.at = "sweep", !.stops = dropped, !.cfg = left]
      <4>1. left \in Registry
        BY <3>1 DEF left
      <4> QED
        BY <1>0, <3>2, <3>5, <4>1 DEF LoopType
    <3> QED
      BY <3>3, <3>4, <3>5 DEF left
  <2>2. CASE SweepStore
    BY <2>2, <1>0, Nothing DEF SweepStore, LoopType
  <2>3. CASE StopUnlink
    BY <2>3, <1>0, Nothing DEF StopUnlink, LoopType
  <2>4. CASE Stopped
    BY <2>4, <1>0, Nothing DEF Stopped, LoopType
  <2>5. CASE Load
    <3> DEFINE l == {b \in Bot : registry[b] # 0}
    <3>1. l \subseteq Bot
      OBVIOUS
    <3>2. \/ loop' = [loop EXCEPT !.at = "bots", !.cfg = registry, !.left = l]
          \/ loop' = [loop EXCEPT !.at = "drain", !.cfg = registry, !.back = "bots", !.left = l]
      BY <2>5 DEF Load
    <3> HIDE DEF l
    <3>3. CASE loop' = [loop EXCEPT !.at = "bots", !.cfg = registry, !.left = l]
      BY <1>0, <3>1, <3>3 DEF LoopType
    <3>4. CASE loop' = [loop EXCEPT !.at = "drain", !.cfg = registry, !.back = "bots", !.left = l]
      BY <1>0, <3>1, <3>4 DEF LoopType
    <3> QED
      BY <3>2, <3>3, <3>4
  <2>6. CASE Checked
    BY <2>6, <1>0, Nothing DEF Checked, LoopType
  <2>7. CASE MoveOn
    BY <2>7, <1>0, Nothing DEF MoveOn, LoopType
  <2>8. CASE Exec
    <3>1. \/ loop' = [NoLoop EXCEPT !.at = "top"]
          \/ /\ loop.back \in {"bots", "poll"}
             /\ loop' = [loop EXCEPT !.at = loop.back, !.back = "none"]
      BY <2>8, <1>0 DEF Exec, LoopType
    <3>2. CASE loop' = [NoLoop EXCEPT !.at = "top"]
      BY <3>2, Nothing DEF LoopType
    <3>3. CASE /\ loop.back \in {"bots", "poll"}
               /\ loop' = [loop EXCEPT !.at = loop.back, !.back = "none"]
      BY <1>0, <3>3 DEF LoopType
    <3> QED
      BY <3>1, <3>2, <3>3
  <2>9. CASE Saw
    BY <2>9, <1>0, Nothing DEF Saw, LoopType, NextBot
  <2>10. CASE StartOne
    <3>1. \/ NextBot
          \/ \E p \in Pid : loop' = [loop EXCEPT !.at = "born", !.new = p]
      BY <2>10 DEF StartOne
    <3>2. CASE NextBot
      BY <1>0, <3>2 DEF NextBot, LoopType
    <3>3. ASSUME NEW p \in Pid, loop' = [loop EXCEPT !.at = "born", !.new = p]
          PROVE  loop' \in LoopType
      <4>1. p \in 0 .. MaxPid
        BY SupervisorAssumption DEF Pid
      <4> QED
        BY <1>0, <3>3, <4>1 DEF LoopType
    <3> QED
      BY <3>1, <3>2, <3>3
  <2>11. CASE WritePid
    BY <2>11, <1>0, Nothing DEF WritePid, LoopType
  <2>12. CASE Settle
    BY <2>12, <1>0, Nothing DEF Settle, LoopType, NextBot
  <2>13. CASE PassDone
    BY <2>13, <1>0, Nothing DEF PassDone, LoopType
  <2>14. CASE Save
    BY <2>14, <1>0, Nothing DEF Save, LoopType
  <2>15. CASE Polled
    BY <2>15, <1>0, Nothing DEF Polled, LoopType
  <2> QED
    BY <1>6, <2>1, <2>2, <2>3, <2>4, <2>5, <2>6, <2>7, <2>8, <2>9,
       <2>10, <2>11, <2>12, <2>13, <2>14, <2>15
<1>7. ASSUME ControlNext
      PROVE  (loop \in LoopType)'
  BY <1>7, <1>0 DEF ControlNext, Hold, Note, Signal, Confirm, Restart, RestartPid, Restarted
<1>8. ASSUME CommandNext
      PROVE  (loop \in LoopType)'
  BY <1>8, <1>0 DEF CommandNext, CommandStore, CommandRead, CommandNote, CommandSignal,
     CommandWait, CommandUnlink
<1>9. CASE UNCHANGED vars
  BY <1>9, <1>0 DEF vars
<1> QED
  BY <1>1, <1>2, <1>3, <1>4, <1>5, <1>6, <1>7, <1>8, <1>9 DEF Next, LoopNext

\* A restart keeps its type.
LEMMA CtlTyped ==
    ASSUME TypeOK, Picked, [Next]_vars
    PROVE  (ctl \in CtlType)'
<1>0. /\ ctl \in CtlType /\ registry \in [Bot -> 0 .. MaxToken]
      /\ pidFile \in [Bot -> 0 .. MaxPid] /\ 0 \in 0 .. MaxPid
      /\ ctl.at # "idle" => ctl.bot \in Bot
  BY SupervisorAssumption DEF TypeOK, FilesType, Picked, ControlPicked, Registry
<1>1. ASSUME NEW p \in Pid, Die(p) \/ End(p) \/ Refused(p)
      PROVE  (ctl \in CtlType)'
  BY <1>1, <1>0 DEF Die, End, Refused
<1>2. ASSUME NEW b \in Bot, Revoke(b) \/ Delete(b) \/ Ask(b)
      PROVE  (ctl \in CtlType)'
  <2>1. CASE Ask(b)
    BY <2>1, <1>0, Nothing DEF Ask, CtlType, Idle
  <2>2. CASE Revoke(b) \/ Delete(b)
    BY <2>2, <1>0 DEF Revoke, Delete
  <2> QED
    BY <1>2, <2>1, <2>2
<1>3. ASSUME NEW b \in Bot, NEW kind \in {"rm", "down", "add"}, Command(kind, b)
      PROVE  (ctl \in CtlType)'
  BY <1>3, <1>0 DEF Command
<1>4. ASSUME Begin \/ SupervisorEnds
      PROVE  (ctl \in CtlType)'
  <2>1. CASE SupervisorEnds
    BY <2>1, <1>0, Nothing DEF SupervisorEnds, CtlType
  <2>2. CASE Begin
    BY <2>2, <1>0 DEF Begin
  <2> QED
    BY <1>4, <2>1, <2>2
<1>5. ASSUME NEW b \in Bot, StopSignal(b) \/ Look(b) \/ Claim(b)
      PROVE  (ctl \in CtlType)'
  BY <1>5, <1>0 DEF StopSignal, Look, Claim
<1>6. ASSUME Top \/ SweepStore \/ StopUnlink \/ Stopped \/ Load \/ Checked \/ MoveOn \/ Exec
          \/ Saw \/ StartOne \/ WritePid \/ Settle \/ PassDone \/ Save \/ Polled
      PROVE  (ctl \in CtlType)'
  <2>1. CASE Exec
    BY <2>1, <1>0, Nothing DEF Exec, CtlType
  <2>2. CASE Top \/ SweepStore \/ StopUnlink \/ Stopped \/ Load \/
           Checked \/ MoveOn \/ Saw \/ StartOne \/ WritePid \/
           Settle \/ PassDone \/ Save \/ Polled
    BY <2>2, <1>0 DEF Top, SweepStore, StopUnlink, Stopped, Load, Checked, MoveOn,
       Saw, StartOne, WritePid, Settle, PassDone, Save, Polled
  <2> QED
    BY <1>6, <2>1, <2>2
<1>7. ASSUME ControlNext
      PROVE  (ctl \in CtlType)'
  <2>1. CASE Hold
    BY <2>1, <1>0, Nothing DEF Hold, CtlType
  <2>2. CASE Note
    BY <2>2, <1>0, Nothing DEF Note, CtlType
  <2>3. CASE Signal
    BY <2>3, <1>0, Nothing DEF Signal, CtlType
  <2>4. CASE Confirm
    BY <2>4, <1>0, Nothing DEF Confirm, CtlType
  <2>5. CASE Restart
    <3>1. \/ ctl' = Idle
          \/ \E p \in Pid : ctl' = [ctl EXCEPT !.at = "born", !.new = p]
      BY <2>5 DEF Restart
    <3>2. ASSUME NEW p \in Pid, ctl' = [ctl EXCEPT !.at = "born", !.new = p]
          PROVE  ctl' \in CtlType
      <4>1. p \in 0 .. MaxPid
        BY SupervisorAssumption DEF Pid
      <4> QED
        BY <1>0, <3>2, <4>1 DEF CtlType
    <3> QED
      BY <3>1, <3>2, Nothing
  <2>6. CASE RestartPid
    BY <2>6, <1>0, Nothing DEF RestartPid, CtlType
  <2>7. CASE Restarted
    BY <2>7, <1>0, Nothing DEF Restarted, CtlType
  <2> QED
    BY <1>7, <2>1, <2>2, <2>3, <2>4, <2>5, <2>6, <2>7 DEF ControlNext
<1>8. ASSUME CommandNext
      PROVE  (ctl \in CtlType)'
  BY <1>8, <1>0 DEF CommandNext, CommandStore, CommandRead, CommandNote, CommandSignal,
     CommandWait, CommandUnlink
<1>9. CASE UNCHANGED vars
  BY <1>9, <1>0 DEF vars
<1> QED
  BY <1>1, <1>2, <1>3, <1>4, <1>5, <1>6, <1>7, <1>8, <1>9 DEF Next, LoopNext

\* A command keeps its type.
LEMMA CmdTyped ==
    ASSUME TypeOK, Picked, [Next]_vars
    PROVE  (cmd \in CmdType)'
<1>0. /\ cmd \in CmdType /\ registry \in [Bot -> 0 .. MaxToken] /\ valid \in [Bot -> 0 .. MaxToken]
      /\ pidFile \in [Bot -> 0 .. MaxPid] /\ 0 \in 0 .. MaxPid /\ 0 \in 0 .. MaxToken
      /\ cmd.at # "idle" => cmd.bot \in Bot
  BY SupervisorAssumption DEF TypeOK, FilesType, Picked, CommandPicked, Registry
<1>1. ASSUME NEW p \in Pid, Die(p) \/ End(p) \/ Refused(p)
      PROVE  (cmd \in CmdType)'
  BY <1>1, <1>0 DEF Die, End, Refused
<1>2. ASSUME NEW b \in Bot, Revoke(b) \/ Delete(b) \/ Ask(b)
      PROVE  (cmd \in CmdType)'
  BY <1>2, <1>0 DEF Revoke, Delete, Ask
<1>3. ASSUME NEW b \in Bot, NEW kind \in {"rm", "down", "add"}, Command(kind, b)
      PROVE  (cmd \in CmdType)'
  <2>1. [registry EXCEPT ![b] = 0] \in Registry /\ [registry EXCEPT ![b] = valid[b]] \in Registry
    BY <1>0 DEF Registry
  <2>2. NoCmd.cfg \in Registry
    BY Nothing DEF CmdType
  <2>3. PICK c \in Registry : cmd' = [at |-> IF kind = "down" THEN "read" ELSE "store",
                                   kind |-> kind, bot |-> b, pid |-> 0, cfg |-> c]
    BY <1>3, <2>1, <2>2 DEF Command
  <2> QED
    BY <1>0, <2>3 DEF CmdType
<1>4. ASSUME Begin \/ SupervisorEnds
      PROVE  (cmd \in CmdType)'
  BY <1>4, <1>0 DEF Begin, SupervisorEnds
<1>5. ASSUME NEW b \in Bot, StopSignal(b) \/ Look(b) \/ Claim(b)
      PROVE  (cmd \in CmdType)'
  BY <1>5, <1>0 DEF StopSignal, Look, Claim
<1>6. ASSUME Top \/ SweepStore \/ StopUnlink \/ Stopped \/ Load \/ Checked \/ MoveOn \/ Exec
          \/ Saw \/ StartOne \/ WritePid \/ Settle \/ PassDone \/ Save \/ Polled
      PROVE  (cmd \in CmdType)'
  BY <1>6, <1>0 DEF Top, SweepStore, StopUnlink, Stopped, Load, Checked, MoveOn,
     Exec, Saw, StartOne, WritePid, Settle, PassDone, Save,
     Polled
<1>7. ASSUME ControlNext
      PROVE  (cmd \in CmdType)'
  BY <1>7, <1>0 DEF ControlNext, Hold, Note, Signal, Confirm, Restart, RestartPid, Restarted
<1>8. ASSUME CommandNext
      PROVE  (cmd \in CmdType)'
  <2>1. CASE CommandStore
    BY <2>1, <1>0, Nothing DEF CommandStore, CmdType
  <2>2. CASE CommandRead
    BY <2>2, <1>0, Nothing DEF CommandRead, CmdType, Reported
  <2>3. CASE CommandNote
    BY <2>3, <1>0, Nothing DEF CommandNote, CmdType
  <2>4. CASE CommandSignal
    BY <2>4, <1>0, Nothing DEF CommandSignal, CmdType
  <2>5. CASE CommandWait
    BY <2>5, <1>0, Nothing DEF CommandWait, CmdType, Reported
  <2>6. CASE CommandUnlink
    BY <2>6, <1>0, Nothing DEF CommandUnlink, CmdType, Reported
  <2> QED
    BY <1>8, <2>1, <2>2, <2>3, <2>4, <2>5, <2>6 DEF CommandNext
<1>9. CASE UNCHANGED vars
  BY <1>9, <1>0 DEF vars
<1> QED
  BY <1>1, <1>2, <1>3, <1>4, <1>5, <1>6, <1>7, <1>8, <1>9 DEF Next, LoopNext

\* The files keep their types.
LEMMA FilesTyped ==
    ASSUME TypeOK, Picked, [Next]_vars
    PROVE  FilesType'
<1> USE SupervisorAssumption DEF FilesType, Registry, Pid
<1>0. FilesType /\ Owned /\ LoopPicked /\ ControlPicked /\ CommandPicked
  BY DEF TypeOK, Picked
<1>1. ASSUME NEW p \in Pid, Die(p) \/ End(p) \/ Refused(p)
      PROVE  FilesType'
  <2>1. CASE Refused(p)
    BY <2>1, <1>0, Fields DEF Refused, Ended, Owned
  <2>2. CASE Die(p) \/ End(p)
    BY <2>2, <1>0 DEF Die, End, files
  <2> QED
    BY <1>1, <2>1, <2>2
<1>2. ASSUME NEW b \in Bot, Revoke(b) \/ Delete(b) \/ Ask(b)
      PROVE  FilesType'
  BY <1>2, <1>0 DEF Revoke, Delete, Ask, files
<1>3. ASSUME NEW b \in Bot, NEW kind \in {"rm", "down", "add"}, Command(kind, b)
      PROVE  FilesType'
  BY <1>3, <1>0 DEF Command, files
<1>4. ASSUME Begin \/ SupervisorEnds
      PROVE  FilesType'
  BY <1>4, <1>0 DEF Begin, SupervisorEnds, files
<1>5. ASSUME NEW b \in Bot, StopSignal(b) \/ Look(b) \/ Claim(b)
      PROVE  FilesType'
  BY <1>5, <1>0 DEF StopSignal, Look, Claim, files
<1>6. ASSUME Top \/ SweepStore \/ StopUnlink \/ Stopped \/ Load \/ Checked \/ MoveOn \/ Exec
          \/ Saw \/ StartOne \/ WritePid \/ Settle \/ PassDone \/ Save \/ Polled
      PROVE  FilesType'
  <2>1. CASE Top
    BY <2>1, <1>0, Fields DEF Top, Reaped, LoopPicked
  <2>2. CASE SweepStore
    BY <2>2, <1>0, Fields DEF SweepStore, LoopPicked
  <2>3. CASE StopUnlink
    <3>1. /\ pidFile' = [pidFile EXCEPT ![loop.bot] = 0]
          /\ UNCHANGED <<registry, stopping, tombs>>
      BY <2>3 DEF StopUnlink, Removed
    <3>2. 0 \in 0 .. MaxPid
      OBVIOUS
    <3>3. pidFile' \in [Bot -> 0 .. MaxPid]
      BY <1>0, <3>1, <3>2
    <3> QED
      BY <1>0, <3>1, <3>3
  <2>4. CASE WritePid
    BY <2>4, <1>0, Fields DEF WritePid, LoopPicked
  <2>5. CASE Settle
    <3>1. /\ stopping' = [stopping EXCEPT ![loop.bot] = 0] \/ stopping' = stopping
          /\ UNCHANGED <<registry, pidFile, tombs>>
      BY <2>5 DEF Settle, TakeNote
    <3> QED
      BY <1>0, <3>1
  <2>6. CASE Save
    BY <2>6, <1>0, Fields DEF Save, LoopPicked
  <2>7. CASE Stopped \/ Load \/ Checked \/ MoveOn \/ Exec \/ Saw \/
           StartOne \/ PassDone \/ Polled
    BY <2>7, <1>0 DEF Stopped, Load, Checked, MoveOn, Exec, Saw, StartOne,
       PassDone, Polled, files
  <2> QED
    BY <1>6, <2>1, <2>2, <2>3, <2>4, <2>5, <2>6, <2>7
<1>7. ASSUME ControlNext
      PROVE  FilesType'
  <2>1. CASE Note
    BY <2>1, <1>0, Fields DEF Note, ControlPicked
  <2>2. CASE Confirm
    BY <2>2, <1>0, Fields DEF Confirm, ControlPicked
  <2>3. CASE RestartPid
    BY <2>3, <1>0, Fields DEF RestartPid, ControlPicked
  <2>4. CASE Restarted
    <3>1. /\ stopping' = [stopping EXCEPT ![ctl.bot] = 0] \/ stopping' = stopping
          /\ UNCHANGED <<registry, pidFile, tombs>>
      BY <2>4 DEF Restarted, TakeNote
    <3> QED
      BY <1>0, <3>1
  <2>5. CASE Hold \/ Signal \/ Restart
    BY <2>5, <1>0 DEF Hold, Signal, Restart, files
  <2> QED
    BY <1>7, <2>1, <2>2, <2>3, <2>4, <2>5 DEF ControlNext
<1>8. ASSUME CommandNext
      PROVE  FilesType'
  <2>1. CASE CommandStore
    BY <2>1, <1>0, Fields DEF CommandStore, CommandPicked
  <2>2. CASE CommandNote
    BY <2>2, <1>0, Fields DEF CommandNote, CommandPicked
  <2>3. CASE CommandUnlink
    <3>1. /\ pidFile' = [pidFile EXCEPT ![cmd.bot] = 0]
          /\ UNCHANGED <<registry, stopping, tombs>>
      BY <2>3 DEF CommandUnlink, Removed
    <3>2. 0 \in 0 .. MaxPid
      OBVIOUS
    <3>3. pidFile' \in [Bot -> 0 .. MaxPid]
      BY <1>0, <3>1, <3>2
    <3> QED
      BY <1>0, <3>1, <3>3
  <2>4. CASE CommandRead \/ CommandSignal \/ CommandWait
    BY <2>4, <1>0 DEF CommandRead, CommandSignal, CommandWait, files
  <2> QED
    BY <1>8, <2>1, <2>2, <2>3, <2>4 DEF CommandNext
<1>9. CASE UNCHANGED vars
  BY <1>9, <1>0 DEF vars, files
<1> QED
  BY <1>1, <1>2, <1>3, <1>4, <1>5, <1>6, <1>7, <1>8, <1>9 DEF Next, LoopNext

\* The daemons keep their types.
LEMMA DaemonsTyped ==
    ASSUME TypeOK, Picked, [Next]_vars
    PROVE  DaemonsType'
<1> USE SupervisorAssumption DEF DaemonsType, Registry, Pid
<1>0. DaemonsType /\ LoopPicked /\ ControlPicked
  BY DEF TypeOK, Picked
<1>1. ASSUME NEW p \in Pid, Die(p) \/ End(p) \/ Refused(p)
      PROVE  DaemonsType'
  <2>1. CASE Die(p)
    BY <2>1, <1>0, Fields DEF Die, Ended, Owned
  <2>2. CASE End(p)
    BY <2>2, <1>0, Fields DEF End, Ended, Owned
  <2>3. CASE Refused(p)
    BY <2>3, <1>0, Fields DEF Refused, Ended, Owned
  <2> QED
    BY <1>1, <2>1, <2>2, <2>3
<1>2. ASSUME NEW b \in Bot, Revoke(b) \/ Delete(b) \/ Ask(b)
      PROVE  DaemonsType'
  BY <1>2, <1>0 DEF Revoke, Delete, Ask, procs
<1>3. ASSUME NEW b \in Bot, NEW kind \in {"rm", "down", "add"}, Command(kind, b)
      PROVE  DaemonsType'
  BY <1>3, <1>0 DEF Command, procs
<1>4. ASSUME Begin \/ SupervisorEnds
      PROVE  DaemonsType'
  <2>1. CASE SupervisorEnds
    BY <2>1, <1>0, Fields DEF SupervisorEnds, Owned
  <2>2. CASE Begin
    BY <2>2, <1>0 DEF Begin, procs
  <2> QED
    BY <1>4, <2>1, <2>2
<1>5. ASSUME NEW b \in Bot, StopSignal(b) \/ Look(b) \/ Claim(b)
      PROVE  DaemonsType'
  <2>1. CASE StopSignal(b)
    <3>1. \/ UNCHANGED state
          \/ state' = [state EXCEPT ![pidFile[b]] =
                         IF state[pidFile[b]] = "running" THEN "ending" ELSE state[pidFile[b]]]
      BY <2>1 DEF StopSignal, Signalled
    <3>2. UNCHANGED <<of, token, child>>
      BY <2>1 DEF StopSignal
    <3> QED
      BY <1>0, <3>1, <3>2
  <2>2. CASE Look(b) \/ Claim(b)
    BY <2>2, <1>0 DEF Look, Claim, procs
  <2> QED
    BY <1>5, <2>1, <2>2
<1>6. ASSUME Top \/ SweepStore \/ StopUnlink \/ Stopped \/ Load \/ Checked \/ MoveOn \/ Exec
          \/ Saw \/ StartOne \/ WritePid \/ Settle \/ PassDone \/ Save \/ Polled
      PROVE  DaemonsType'
  <2>1. CASE Top
    BY <2>1, <1>0, Fields DEF Top, Reaped, LoopPicked
  <2>2. CASE StartOne
    <3>1. loop.bot \in Bot /\ loop.cfg[loop.bot] \in 0 .. MaxToken
      BY <2>2, <1>0, Fields DEF StartOne, LoopPicked
    <3>2. \/ UNCHANGED procs
          \/ \E p \in Pid : Spawned(p, loop.bot, loop.cfg[loop.bot])
      BY <2>2 DEF StartOne, procs
    <3> QED
      BY <1>0, <3>1, <3>2 DEF Spawned, procs
  <2>3. CASE SweepStore \/ StopUnlink \/ Stopped \/ Load \/ Checked \/
           MoveOn \/ Exec \/ Saw \/ WritePid \/ Settle \/ PassDone \/
           Save \/ Polled
    BY <2>3, <1>0 DEF SweepStore, StopUnlink, Stopped, Load, Checked, MoveOn, Exec,
       Saw, WritePid, Settle, PassDone, Save, Polled, procs
  <2> QED
    BY <1>6, <2>1, <2>2, <2>3
<1>7. ASSUME ControlNext
      PROVE  DaemonsType'
  <2>1. CASE Hold
    BY <2>1, <1>0, Fields DEF Hold, Reaped, ControlPicked
  <2>2. CASE Signal
    BY <2>2, <1>0, Fields DEF Signal, Signalled, ControlPicked
  <2>3. CASE Restart
    <3>1. ctl.bot \in Bot /\ ctl.token \in 0 .. MaxToken
      BY <2>3, <1>0, Fields DEF Restart, ControlPicked
    <3>2. \/ UNCHANGED procs
          \/ \E p \in Pid : Spawned(p, ctl.bot, ctl.token)
      BY <2>3 DEF Restart, procs
    <3> QED
      BY <1>0, <3>1, <3>2 DEF Spawned, procs
  <2>4. CASE Note \/ Confirm \/ RestartPid \/ Restarted
    BY <2>4, <1>0 DEF Note, Confirm, RestartPid, Restarted, procs
  <2> QED
    BY <1>7, <2>1, <2>2, <2>3, <2>4 DEF ControlNext
<1>8. ASSUME CommandNext
      PROVE  DaemonsType'
  <2>1. CASE CommandSignal
    BY <2>1, <1>0, Fields DEF CommandSignal, Signalled, CommandPicked
  <2>2. CASE CommandStore \/ CommandRead \/ CommandNote \/
           CommandWait \/ CommandUnlink
    BY <2>2, <1>0 DEF CommandStore, CommandRead, CommandNote, CommandWait,
       CommandUnlink, procs
  <2> QED
    BY <1>8, <2>1, <2>2 DEF CommandNext
<1>9. CASE UNCHANGED vars
  BY <1>9, <1>0 DEF vars, procs
<1> QED
  BY <1>1, <1>2, <1>3, <1>4, <1>5, <1>6, <1>7, <1>8, <1>9 DEF Next, LoopNext

\* Counting one more keeps the type.
LEMMA CountUp ==
    ASSUME NEW S, NEW f \in [S -> Nat], NEW x
    PROVE  [f EXCEPT ![x] = f[x] + 1] \in [S -> Nat]
<1>1. CASE x \in S
  BY <1>1
<1>2. CASE x \notin S
  <2>1. [f EXCEPT ![x] = f[x] + 1] = f
    BY <1>2
  <2> QED
    BY <2>1
<1> QED
  BY <1>1, <1>2

\* What is spent stays within its bound.
LEMMA Spent ==
    ASSUME trouble \in 0 .. MaxTrouble, Spend
    PROVE  trouble' \in 0 .. MaxTrouble
BY SupervisorAssumption DEF Spend

\* The rest keeps its types.
LEMMA RestTyped ==
    ASSUME TypeOK, Picked, [Next]_vars
    PROVE  RestType'
<1> USE SupervisorAssumption DEF RestType, Pid, api, history
<1>0. RestType /\ LoopPicked /\ ControlPicked /\ CommandPicked
  BY DEF TypeOK, Picked, RestType
<1>1. ASSUME NEW p \in Pid, Die(p) \/ End(p) \/ Refused(p)
      PROVE  RestType'
  <2>1. CASE Die(p)
    BY <2>1, <1>0, Fields, Spent DEF Die, Owned
  <2>2. CASE End(p) \/ Refused(p)
    BY <2>2, <1>0 DEF End, Refused
  <2> QED
    BY <1>1, <2>1, <2>2
<1>2. ASSUME NEW b \in Bot, Revoke(b) \/ Delete(b) \/ Ask(b)
      PROVE  RestType'
  <2>1. CASE Revoke(b)
    <3>1. valid[b] + 1 \in 0 .. MaxToken
      BY <2>1, <1>0 DEF Revoke
    <3>2. valid' \in [Bot -> 0 .. MaxToken] /\ trouble' \in 0 .. MaxTrouble
      BY <2>1, <1>0, <3>1, Spent DEF Revoke
    <3>3. notice' \in [Bot -> {"none", "provision", "rotation"}]
      BY <2>1, <1>0 DEF Revoke
    <3> QED
      BY <2>1, <1>0, <3>2, <3>3 DEF Revoke
  <2>2. CASE Delete(b)
    <3>1. 0 \in 0 .. MaxToken
      OBVIOUS
    <3>2. valid' \in [Bot -> 0 .. MaxToken] /\ trouble' \in 0 .. MaxTrouble
      BY <2>2, <1>0, <3>1, Spent DEF Delete
    <3>3. notice' \in [Bot -> {"none", "provision", "rotation"}]
      BY <2>2, <1>0 DEF Delete
    <3> QED
      BY <2>2, <1>0, <3>2, <3>3 DEF Delete
  <2>3. CASE Ask(b)
    BY <2>3, <1>0, Fields, Spent DEF Ask, Owned
  <2> QED
    BY <1>2, <2>1, <2>2, <2>3
<1>3. ASSUME NEW b \in Bot, NEW kind \in {"rm", "down", "add"}, Command(kind, b)
      PROVE  RestType'
  BY <1>3, <1>0, Fields, Spent DEF Command, CommandPicked
<1>4. ASSUME Begin \/ SupervisorEnds
      PROVE  RestType'
  <2>1. CASE SupervisorEnds
    <3>1. taken' \subseteq Pid /\ Unwritten \subseteq Bot
      BY <2>1, <1>0 DEF SupervisorEnds, Unwritten
    <3> QED
      BY <2>1, <1>0, <3>1, Spent DEF SupervisorEnds
  <2>2. CASE Begin
    BY <2>2, <1>0 DEF Begin
  <2> QED
    BY <1>4, <2>1, <2>2
<1>5. ASSUME NEW b \in Bot, StopSignal(b) \/ Look(b) \/ Claim(b)
      PROVE  RestType'
  <2>1. CASE Claim(b)
    BY <2>1, <1>0, Fields, Spent DEF Claim, LoopPicked
  <2>2. CASE StopSignal(b) \/ Look(b)
    BY <2>2, <1>0 DEF StopSignal, Look
  <2> QED
    BY <1>5, <2>1, <2>2
<1>6. ASSUME Top \/ SweepStore \/ StopUnlink \/ Stopped \/ Load \/ Checked \/ MoveOn \/ Exec
          \/ Saw \/ StartOne \/ WritePid \/ Settle \/ PassDone \/ Save \/ Polled
      PROVE  RestType'
  <2>1. CASE StopUnlink
    <3>1. lost' \in {lost, lost \cup {loop.bot}} /\ loop.bot \in Bot
      BY <2>1, <1>0 DEF StopUnlink, Removed, LoopPicked
    <3> QED
      BY <2>1, <1>0, <3>1 DEF StopUnlink
  <2>2. CASE Load
    <3>1. trouble' \in 0 .. MaxTrouble
      BY <2>2, <1>0, Spent DEF Load
    <3> QED
      BY <2>2, <1>0, <3>1 DEF Load
  <2>3. CASE Checked
    BY <2>3, <1>0, Fields, Spent DEF Checked, LoopPicked
  <2>4. CASE MoveOn
    BY <2>4, <1>0, Fields, Spent DEF MoveOn, LoopPicked
  <2>5. CASE Exec
    <3>1. \/ seen' = [b \in Bot |-> 0] /\ trouble' = trouble
          \/ seen' = seen /\ Spend
      BY <2>5 DEF Exec
    <3>2. seen' \in [Bot -> 0 .. MaxPid] /\ trouble' \in 0 .. MaxTrouble
      BY <1>0, <3>1, Spent
    <3> QED
      BY <2>5, <1>0, <3>2 DEF Exec
  <2>6. CASE Saw
    BY <2>6, <1>0, Fields, Spent DEF Saw, LoopPicked
  <2>7. CASE StartOne
    <3>1. trouble' \in 0 .. MaxTrouble /\ lock' \in {lock, "loop"}
      BY <2>7, <1>0, Spent DEF StartOne
    <3> QED
      BY <2>7, <1>0, <3>1 DEF StartOne
  <2>8. CASE Settle
    <3>1. \/ counted' = counted
          \/ counted' = [counted EXCEPT ![loop.had] = counted[loop.had] + 1]
      BY <2>8 DEF Settle
    <3>2. counted' \in [Pid -> Nat]
      BY <1>0, <3>1, CountUp
    <3> QED
      BY <2>8, <1>0, <3>2, Fields DEF Settle
  <2>9. CASE Save
    BY <2>9, <1>0, Fields, Spent DEF Save, LoopPicked
  <2>10. CASE Top \/ SweepStore \/ Stopped \/ WritePid \/ PassDone \/
           Polled
    BY <2>10, <1>0 DEF Top, SweepStore, Stopped, WritePid, PassDone, Polled
  <2> QED
    BY <1>6, <2>1, <2>2, <2>3, <2>4, <2>5, <2>6, <2>7, <2>8, <2>9,
       <2>10
<1>7. ASSUME ControlNext
      PROVE  RestType'
  <2>1. CASE Hold
    BY <2>1, <1>0, Fields, Spent DEF Hold, ControlPicked
  <2>2. CASE Confirm
    BY <2>2, <1>0, Fields, Spent DEF Confirm, ControlPicked
  <2>3. CASE Restart
    <3>1. trouble' \in 0 .. MaxTrouble /\ lock' \in {lock, "free"}
      BY <2>3, <1>0, Spent DEF Restart
    <3> QED
      BY <2>3, <1>0, <3>1 DEF Restart
  <2>4. CASE Restarted
    <3>1. \/ counted' = counted
          \/ counted' = [counted EXCEPT ![ctl.had] = counted[ctl.had] + 1]
      BY <2>4 DEF Restarted
    <3>2. counted' \in [Pid -> Nat]
      BY <1>0, <3>1, CountUp
    <3> QED
      BY <2>4, <1>0, <3>2, Fields DEF Restarted
  <2>5. CASE Note \/ Signal \/ RestartPid
    BY <2>5, <1>0 DEF Note, Signal, RestartPid
  <2> QED
    BY <1>7, <2>1, <2>2, <2>3, <2>4, <2>5 DEF ControlNext
<1>8. ASSUME CommandNext
      PROVE  RestType'
  <2>1. CASE CommandStore
    BY <2>1, <1>0, Fields, Spent DEF CommandStore, CommandPicked
  <2>2. CASE CommandRead
    BY <2>2, <1>0, Fields, Spent DEF CommandRead, CommandPicked, Reported
  <2>3. CASE CommandWait
    BY <2>3, <1>0, Fields, Spent DEF CommandWait, CommandPicked, Reported
  <2>4. CASE CommandUnlink
    <3>1. lost' \in {lost, lost \cup {cmd.bot}} /\ cmd.bot \in Bot
      BY <2>4, <1>0 DEF CommandUnlink, Removed, CommandPicked
    <3> QED
      BY <2>4, <1>0, <3>1 DEF CommandUnlink, Reported
  <2>5. CASE CommandNote \/ CommandSignal
    BY <2>5, <1>0 DEF CommandNote, CommandSignal
  <2> QED
    BY <1>8, <2>1, <2>2, <2>3, <2>4, <2>5 DEF CommandNext
<1>9. CASE UNCHANGED vars
  BY <1>9, <1>0 DEF vars
<1> QED
  BY <1>1, <1>2, <1>3, <1>4, <1>5, <1>6, <1>7, <1>8, <1>9 DEF Next, LoopNext

\* Every step keeps the variables' types.
LEMMA TypeStep ==
    ASSUME TypeOK, Picked, [Next]_vars
    PROVE  TypeOK'
BY FilesTyped, DaemonsTyped, LoopTyped, CtlTyped, CmdTyped, RestTyped DEF TypeOK, RestType

\* Every step lets the daemons age.
LEMMA Ages ==
    ASSUME TypeOK, [Next]_vars
    PROVE  Aging
<1> USE DEF Aging, DaemonsType, procs
<1>0. DaemonsType
  BY DEF TypeOK
<1>1. ASSUME NEW p \in Pid, Die(p) \/ End(p) \/ Refused(p)
      PROVE  Aging
  <2>1. CASE Die(p)
    BY <2>1, <1>0 DEF Die, Ended
  <2>2. CASE End(p)
    BY <2>2, <1>0 DEF End, Ended
  <2>3. CASE Refused(p)
    BY <2>3, <1>0 DEF Refused, Ended
  <2> QED
    BY <1>1, <2>1, <2>2, <2>3
<1>2. ASSUME NEW b \in Bot, Revoke(b) \/ Delete(b) \/ Ask(b)
      PROVE  Aging
  BY <1>2, <1>0 DEF Revoke, Delete, Ask
<1>3. ASSUME NEW b \in Bot, NEW kind \in {"rm", "down", "add"}, Command(kind, b)
      PROVE  Aging
  BY <1>3, <1>0 DEF Command
<1>4. ASSUME Begin \/ SupervisorEnds
      PROVE  Aging
  <2>1. CASE SupervisorEnds
    BY <2>1, <1>0 DEF SupervisorEnds
  <2>2. CASE Begin
    BY <2>2, <1>0 DEF Begin
  <2> QED
    BY <1>4, <2>1, <2>2
<1>5. ASSUME NEW b \in Bot, StopSignal(b) \/ Look(b) \/ Claim(b)
      PROVE  Aging
  <2>1. CASE StopSignal(b)
    BY <2>1, <1>0 DEF StopSignal, Signalled
  <2>2. CASE Look(b) \/ Claim(b)
    BY <2>2, <1>0 DEF Look, Claim
  <2> QED
    BY <1>5, <2>1, <2>2
<1>6. ASSUME Top \/ SweepStore \/ StopUnlink \/ Stopped \/ Load \/ Checked \/ MoveOn \/ Exec
          \/ Saw \/ StartOne \/ WritePid \/ Settle \/ PassDone \/ Save \/ Polled
      PROVE  Aging
  <2>1. CASE Top
    BY <2>1, <1>0 DEF Top, Reaped
  <2>2. CASE StartOne
    BY <2>2, <1>0 DEF StartOne, Spawned, Unborn
  <2>3. CASE SweepStore \/ StopUnlink \/ Stopped \/ Load \/ Checked \/
           MoveOn \/ Exec \/ Saw \/ WritePid \/ Settle \/ PassDone \/
           Save \/ Polled
    BY <2>3, <1>0 DEF SweepStore, StopUnlink, Stopped, Load, Checked, MoveOn, Exec,
       Saw, WritePid, Settle, PassDone, Save, Polled
  <2> QED
    BY <1>6, <2>1, <2>2, <2>3
<1>7. ASSUME ControlNext
      PROVE  Aging
  <2>1. CASE Hold
    BY <2>1, <1>0 DEF Hold, Reaped
  <2>2. CASE Signal
    BY <2>2, <1>0 DEF Signal, Signalled
  <2>3. CASE Restart
    BY <2>3, <1>0 DEF Restart, Spawned, Unborn
  <2>4. CASE Note \/ Confirm \/ RestartPid \/ Restarted
    BY <2>4, <1>0 DEF Note, Confirm, RestartPid, Restarted
  <2> QED
    BY <1>7, <2>1, <2>2, <2>3, <2>4 DEF ControlNext
<1>8. ASSUME CommandNext
      PROVE  Aging
  <2>1. CASE CommandSignal
    BY <2>1, <1>0 DEF CommandSignal, Signalled
  <2>2. CASE CommandStore \/ CommandRead \/ CommandNote \/
           CommandWait \/ CommandUnlink
    BY <2>2, <1>0 DEF CommandStore, CommandRead, CommandNote, CommandWait,
       CommandUnlink
  <2> QED
    BY <1>8, <2>1, <2>2 DEF CommandNext
<1>9. CASE UNCHANGED vars
  BY <1>9, <1>0 DEF vars
<1> QED
  BY <1>1, <1>2, <1>3, <1>4, <1>5, <1>6, <1>7, <1>8, <1>9 DEF Next, LoopNext

\* A running daemon stays some bot's.
LEMMA OwnedStep ==
    ASSUME IInv, [Next]_vars
    PROVE  Owned'
<1> USE DEF Owned, DaemonsType, procs
<1>0. DaemonsType /\ Owned /\ LoopPicked /\ ControlPicked
  BY DEF IInv, TypeOK, Picked
<1>1. ASSUME NEW p \in Pid, Die(p) \/ End(p) \/ Refused(p)
      PROVE  Owned'
  <2>1. CASE Die(p)
    BY <2>1, <1>0 DEF Die, Ended
  <2>2. CASE End(p)
    BY <2>2, <1>0 DEF End, Ended
  <2>3. CASE Refused(p)
    BY <2>3, <1>0 DEF Refused, Ended
  <2> QED
    BY <1>1, <2>1, <2>2, <2>3
<1>2. ASSUME NEW b \in Bot, Revoke(b) \/ Delete(b) \/ Ask(b)
      PROVE  Owned'
  BY <1>2, <1>0 DEF Revoke, Delete, Ask
<1>3. ASSUME NEW b \in Bot, NEW kind \in {"rm", "down", "add"}, Command(kind, b)
      PROVE  Owned'
  BY <1>3, <1>0 DEF Command
<1>4. ASSUME Begin \/ SupervisorEnds
      PROVE  Owned'
  <2>1. CASE SupervisorEnds
    BY <2>1, <1>0 DEF SupervisorEnds
  <2>2. CASE Begin
    BY <2>2, <1>0 DEF Begin
  <2> QED
    BY <1>4, <2>1, <2>2
<1>5. ASSUME NEW b \in Bot, StopSignal(b) \/ Look(b) \/ Claim(b)
      PROVE  Owned'
  <2>1. CASE StopSignal(b)
    BY <2>1, <1>0 DEF StopSignal, Signalled
  <2>2. CASE Look(b) \/ Claim(b)
    BY <2>2, <1>0 DEF Look, Claim
  <2> QED
    BY <1>5, <2>1, <2>2
<1>6. ASSUME Top \/ SweepStore \/ StopUnlink \/ Stopped \/ Load \/ Checked \/ MoveOn \/ Exec
          \/ Saw \/ StartOne \/ WritePid \/ Settle \/ PassDone \/ Save \/ Polled
      PROVE  Owned'
  <2>1. CASE Top
    BY <2>1, <1>0 DEF Top, Reaped
  <2>2. CASE StartOne
    <3>1. loop.bot \in Bot
      BY <2>2, <1>0 DEF StartOne, LoopPicked
    <3>2. \/ UNCHANGED <<state, of>>
          \/ \E p \in Pid : /\ state' = [state EXCEPT ![p] = "running"]
                           /\ of' = [of EXCEPT ![p] = loop.bot]
      BY <2>2 DEF StartOne, Spawned
    <3> QED
      BY <1>0, <3>1, <3>2
  <2>3. CASE SweepStore \/ StopUnlink \/ Stopped \/ Load \/ Checked \/
           MoveOn \/ Exec \/ Saw \/ WritePid \/ Settle \/ PassDone \/
           Save \/ Polled
    BY <2>3, <1>0 DEF SweepStore, StopUnlink, Stopped, Load, Checked, MoveOn, Exec,
       Saw, WritePid, Settle, PassDone, Save, Polled
  <2> QED
    BY <1>6, <2>1, <2>2, <2>3
<1>7. ASSUME ControlNext
      PROVE  Owned'
  <2>1. CASE Hold
    BY <2>1, <1>0 DEF Hold, Reaped
  <2>2. CASE Signal
    BY <2>2, <1>0 DEF Signal, Signalled
  <2>3. CASE Restart
    <3>1. ctl.bot \in Bot
      BY <2>3, <1>0 DEF Restart, ControlPicked
    <3>2. \/ UNCHANGED <<state, of>>
          \/ \E p \in Pid : /\ state' = [state EXCEPT ![p] = "running"]
                           /\ of' = [of EXCEPT ![p] = ctl.bot]
      BY <2>3 DEF Restart, Spawned
    <3> QED
      BY <1>0, <3>1, <3>2
  <2>4. CASE Note \/ Confirm \/ RestartPid \/ Restarted
    BY <2>4, <1>0 DEF Note, Confirm, RestartPid, Restarted
  <2> QED
    BY <1>7, <2>1, <2>2, <2>3, <2>4 DEF ControlNext
<1>8. ASSUME CommandNext
      PROVE  Owned'
  <2>1. CASE CommandSignal
    BY <2>1, <1>0 DEF CommandSignal, Signalled
  <2>2. CASE CommandStore \/ CommandRead \/ CommandNote \/
           CommandWait \/ CommandUnlink
    BY <2>2, <1>0 DEF CommandStore, CommandRead, CommandNote, CommandWait,
       CommandUnlink
  <2> QED
    BY <1>8, <2>1, <2>2 DEF CommandNext
<1>9. CASE UNCHANGED vars
  BY <1>9, <1>0 DEF vars
<1> QED
  BY <1>1, <1>2, <1>3, <1>4, <1>5, <1>6, <1>7, <1>8, <1>9 DEF Next, LoopNext

\* The loop keeps what it has picked.
LEMMA LoopPickedStep ==
    ASSUME IInv, [Next]_vars
    PROVE  LoopPicked'
<1> USE DEF LoopPicked, LoopType
<1>0. LoopPicked /\ loop \in LoopType /\ Aging /\ DaemonsType /\ FilesType /\ Started
  BY Ages DEF IInv, TypeOK, Picked
<1> USE DEF Aging
<1>1. ASSUME NEW p \in Pid, Die(p) \/ End(p) \/ Refused(p)
      PROVE  LoopPicked'
  <2>1. UNCHANGED loop
    BY <1>1 DEF Die, End, Refused
  <2> QED
    BY <1>0, <2>1
<1>2. ASSUME NEW b \in Bot, Revoke(b) \/ Delete(b) \/ Ask(b)
      PROVE  LoopPicked'
  <2>1. UNCHANGED loop
    BY <1>2 DEF Revoke, Delete, Ask
  <2> QED
    BY <1>0, <2>1
<1>3. ASSUME NEW b \in Bot, NEW kind \in {"rm", "down", "add"}, Command(kind, b)
      PROVE  LoopPicked'
  <2>1. UNCHANGED loop
    BY <1>3 DEF Command
  <2> QED
    BY <1>0, <2>1
<1>4. ASSUME Begin \/ SupervisorEnds
      PROVE  LoopPicked'
  <2>1. CASE Begin
    BY <2>1, <1>0 DEF Begin, NoLoop
  <2>2. CASE SupervisorEnds
    BY <2>2, <1>0 DEF SupervisorEnds, NoLoop, Idle
  <2> QED
    BY <1>4, <2>1, <2>2
<1>5. ASSUME NEW b \in Bot, StopSignal(b) \/ Look(b) \/ Claim(b)
      PROVE  LoopPicked'
  <2>1. CASE StopSignal(b)
    <3>1. CASE pidFile[b] = 0
      BY <2>1, <1>0, <3>1 DEF StopSignal
    <3>2. CASE pidFile[b] # 0
      <4>1. pidFile[b] \in Pid /\ state[pidFile[b]] # "unborn"
        BY <2>1, <1>0, <3>2 DEF FilesType, Started, Pid
      <4>2. state'[pidFile[b]] \notin {"unborn", "running"}
        BY <2>1, <1>0, <3>2, <4>1 DEF StopSignal, Signalled, DaemonsType
      <4>3. loop' = [loop EXCEPT !.at = "unlink", !.bot = b, !.victim = pidFile[b]]
        BY <2>1, <3>2 DEF StopSignal
      <4> QED
        BY <2>1, <1>0, <4>1, <4>2, <4>3 DEF StopSignal
    <3> QED
      BY <3>1, <3>2
  <2>2. CASE Look(b)
    BY <2>2, <1>0 DEF Look
  <2>3. CASE Claim(b)
    BY <2>3, <1>0 DEF Claim
  <2> QED
    BY <1>5, <2>1, <2>2, <2>3
<1>6. ASSUME Top \/ SweepStore \/ StopUnlink \/ Stopped \/ Load \/ Checked \/ MoveOn \/ Exec
          \/ Saw \/ StartOne \/ WritePid \/ Settle \/ PassDone \/ Save \/ Polled
      PROVE  LoopPicked'
  <2>1. CASE Top
    BY <2>1, <1>0 DEF Top
  <2>2. CASE SweepStore
    BY <2>2, <1>0 DEF SweepStore
  <2>3. CASE StopUnlink
    BY <2>3, <1>0 DEF StopUnlink
  <2>4. CASE Stopped
    BY <2>4, <1>0 DEF Stopped
  <2>5. CASE Load
    <3> DEFINE l == {b \in Bot : registry[b] # 0}
    <3>1. \/ loop' = [loop EXCEPT !.at = "bots", !.cfg = registry, !.left = l]
          \/ loop' = [loop EXCEPT !.at = "drain", !.cfg = registry, !.back = "bots", !.left = l]
      BY <2>5 DEF Load
    <3> HIDE DEF l
    <3>2. loop'.at \in {"bots", "drain"} /\ (loop'.at = "drain" => loop'.back = "bots")
      BY <1>0, <3>1
    <3>4. loop.at = "load" /\ loop.next = "none"
      BY <2>5, <1>0 DEF Load
    <3>3. loop'.next = loop.next /\ (loop'.back = loop.back \/ loop'.back = "bots")
      BY <1>0, <3>1
    <3> QED
      BY <1>0, <3>2, <3>3, <3>4
  <2>6. CASE Checked
    <3>1. loop.at = "check" /\ loop.next = "none"
      BY <2>6, <1>0 DEF Checked
    <3>2. \/ loop' = [NoLoop EXCEPT !.at = "poll"]
          \/ loop' = [loop EXCEPT !.at = "drain", !.back = "poll"]
      BY <2>6 DEF Checked
    <3>3. CASE loop' = [NoLoop EXCEPT !.at = "poll"]
      BY <3>3 DEF NoLoop
    <3>4. CASE loop' = [loop EXCEPT !.at = "drain", !.back = "poll"]
      BY <1>0, <3>1, <3>4
    <3> QED
      BY <3>2, <3>3, <3>4
  <2>7. CASE MoveOn
    BY <2>7, <1>0 DEF MoveOn
  <2>8. CASE Exec
    <3>1. \/ loop' = [NoLoop EXCEPT !.at = "top"]
          \/ loop' = [loop EXCEPT !.at = loop.back, !.back = "none"]
      BY <2>8 DEF Exec
    <3>2. CASE loop' = [NoLoop EXCEPT !.at = "top"]
      BY <3>2 DEF NoLoop
    <3>3. CASE loop' = [loop EXCEPT !.at = loop.back, !.back = "none"]
      <4>1. loop.back \in {"bots", "poll"}
        BY <2>8, <1>0 DEF Exec
      <4> QED
        BY <2>8, <1>0, <3>3, <4>1 DEF Exec
    <3> QED
      BY <3>1, <3>2, <3>3
  <2>9. CASE Saw
    BY <2>9, <1>0 DEF Saw, NextBot
  <2>10. CASE StartOne
    <3>0. loop.at = "want" /\ loop.next = "none" /\ loop.bot \in Bot
      BY <2>10, <1>0 DEF StartOne
    <3>1. CASE NextBot
      BY <1>0, <3>0, <3>1 DEF NextBot
    <3>2. CASE ~NextBot
      <4>1. PICK p \in Pid : /\ loop' = [loop EXCEPT !.at = "born", !.new = p]
                            /\ state' = [state EXCEPT ![p] = "running"]
                            /\ of' = [of EXCEPT ![p] = loop.bot]
        BY <2>10, <3>2 DEF StartOne, Spawned
      <4>2. state'[p] = "running" /\ of'[p] = loop.bot
        BY <1>0, <4>1 DEF DaemonsType
      <4> QED
        BY <1>0, <3>0, <4>1, <4>2
    <3> QED
      BY <3>1, <3>2
  <2>11. CASE WritePid
    BY <2>11, <1>0 DEF WritePid
  <2>12. CASE Settle
    BY <2>12, <1>0 DEF Settle, NextBot
  <2>13. CASE PassDone
    BY <2>13, <1>0 DEF PassDone
  <2>14. CASE Save
    BY <2>14, <1>0 DEF Save, NoLoop
  <2>15. CASE Polled
    BY <2>15, <1>0 DEF Polled, NoLoop
  <2> QED
    BY <1>6, <2>1, <2>2, <2>3, <2>4, <2>5, <2>6, <2>7, <2>8, <2>9,
       <2>10, <2>11, <2>12, <2>13, <2>14, <2>15
<1>7. ASSUME ControlNext
      PROVE  LoopPicked'
  <2>1. UNCHANGED loop
    BY <1>7 DEF ControlNext, Hold, Note, Signal, Confirm, Restart, RestartPid, Restarted
  <2> QED
    BY <1>0, <2>1
<1>8. ASSUME CommandNext
      PROVE  LoopPicked'
  <2>1. UNCHANGED loop
    BY <1>8 DEF CommandNext, CommandStore, CommandRead, CommandNote, CommandSignal,
       CommandWait, CommandUnlink
  <2> QED
    BY <1>0, <2>1
<1>9. CASE UNCHANGED vars
  BY <1>9, <1>0 DEF vars
<1> QED
  BY <1>1, <1>2, <1>3, <1>4, <1>5, <1>6, <1>7, <1>8, <1>9 DEF Next, LoopNext

\* A restart keeps what it has picked.
LEMMA ControlPickedStep ==
    ASSUME IInv, [Next]_vars
    PROVE  ControlPicked'
<1> USE DEF ControlPicked, CtlType
<1>0. ControlPicked /\ ctl \in CtlType /\ Aging /\ DaemonsType
  BY Ages DEF IInv, TypeOK, Picked
<1> USE DEF Aging
<1>1. ASSUME NEW p \in Pid, Die(p) \/ End(p) \/ Refused(p)
      PROVE  ControlPicked'
  <2>1. UNCHANGED ctl
    BY <1>1 DEF Die, End, Refused
  <2> QED
    BY <1>0, <2>1
<1>2. ASSUME NEW b \in Bot, Revoke(b) \/ Delete(b) \/ Ask(b)
      PROVE  ControlPicked'
  <2>1. CASE Ask(b)
    BY <2>1, <1>0 DEF Ask, Idle
  <2>2. CASE Revoke(b) \/ Delete(b)
    <3>1. UNCHANGED ctl
      BY <2>2 DEF Revoke, Delete
    <3> QED
      BY <1>0, <3>1
  <2> QED
    BY <1>2, <2>1, <2>2
<1>3. ASSUME NEW b \in Bot, NEW kind \in {"rm", "down", "add"}, Command(kind, b)
      PROVE  ControlPicked'
  <2>1. UNCHANGED ctl
    BY <1>3 DEF Command
  <2> QED
    BY <1>0, <2>1
<1>4. ASSUME Begin \/ SupervisorEnds
      PROVE  ControlPicked'
  <2>1. CASE SupervisorEnds
    BY <2>1, <1>0 DEF SupervisorEnds, Idle
  <2>2. CASE Begin
    <3>1. UNCHANGED ctl
      BY <2>2 DEF Begin
    <3> QED
      BY <1>0, <3>1
  <2> QED
    BY <1>4, <2>1, <2>2
<1>5. ASSUME NEW b \in Bot, StopSignal(b) \/ Look(b) \/ Claim(b)
      PROVE  ControlPicked'
  <2>1. UNCHANGED ctl
    BY <1>5 DEF StopSignal, Look, Claim
  <2> QED
    BY <1>0, <2>1
<1>6. ASSUME Top \/ SweepStore \/ StopUnlink \/ Stopped \/ Load \/ Checked \/ MoveOn \/ Exec
          \/ Saw \/ StartOne \/ WritePid \/ Settle \/ PassDone \/ Save \/ Polled
      PROVE  ControlPicked'
  <2>1. CASE Exec
    BY <2>1, <1>0 DEF Exec, Idle
  <2>2. CASE Top \/ SweepStore \/ StopUnlink \/ Stopped \/ Load \/
           Checked \/ MoveOn \/ Saw \/ StartOne \/ WritePid \/
           Settle \/ PassDone \/ Save \/ Polled
    <3>1. UNCHANGED ctl
      BY <2>2 DEF Top, SweepStore, StopUnlink, Stopped, Load, Checked, MoveOn,
         Saw, StartOne, WritePid, Settle, PassDone, Save, Polled
    <3> QED
      BY <1>0, <3>1
  <2> QED
    BY <1>6, <2>1, <2>2
<1>7. ASSUME ControlNext
      PROVE  ControlPicked'
  <2>1. CASE Hold
    BY <2>1, <1>0 DEF Hold
  <2>2. CASE Note
    BY <2>2, <1>0 DEF Note
  <2>3. CASE Signal
    BY <2>3, <1>0 DEF Signal
  <2>4. CASE Confirm
    BY <2>4, <1>0 DEF Confirm, Idle
  <2>5. CASE Restart
    <3>1. CASE ctl' = Idle
      BY <3>1 DEF Idle
    <3>2. CASE ctl' # Idle
      <4>1. PICK p \in Pid : /\ ctl' = [ctl EXCEPT !.at = "born", !.new = p]
                            /\ state' = [state EXCEPT ![p] = "running"]
                            /\ of' = [of EXCEPT ![p] = ctl.bot]
        BY <2>5, <3>2 DEF Restart, Spawned
      <4>2. state'[p] = "running" /\ of'[p] = ctl.bot
        BY <1>0, <4>1 DEF DaemonsType
      <4>3. ctl.bot \in Bot
        BY <2>5, <1>0 DEF Restart
      <4> QED
        BY <1>0, <4>1, <4>2, <4>3
    <3> QED
      BY <3>1, <3>2
  <2>6. CASE RestartPid
    BY <2>6, <1>0 DEF RestartPid
  <2>7. CASE Restarted
    BY <2>7, <1>0 DEF Restarted, Idle
  <2> QED
    BY <1>7, <2>1, <2>2, <2>3, <2>4, <2>5, <2>6, <2>7 DEF ControlNext
<1>8. ASSUME CommandNext
      PROVE  ControlPicked'
  <2>1. UNCHANGED ctl
    BY <1>8 DEF CommandNext, CommandStore, CommandRead, CommandNote, CommandSignal,
       CommandWait, CommandUnlink
  <2> QED
    BY <1>0, <2>1
<1>9. CASE UNCHANGED vars
  BY <1>9, <1>0 DEF vars
<1> QED
  BY <1>1, <1>2, <1>3, <1>4, <1>5, <1>6, <1>7, <1>8, <1>9 DEF Next, LoopNext

\* A command keeps what it has picked.
LEMMA CommandPickedStep ==
    ASSUME IInv, [Next]_vars
    PROVE  CommandPicked'
<1> USE DEF CommandPicked, CmdType
<1>0. /\ CommandPicked /\ cmd \in CmdType /\ Aging /\ DaemonsType
      /\ FilesType /\ Started
  BY Ages DEF IInv, TypeOK, Picked
<1> USE DEF Aging
<1>1. ASSUME NEW p \in Pid, Die(p) \/ End(p) \/ Refused(p)
      PROVE  CommandPicked'
  <2>1. UNCHANGED cmd
    BY <1>1 DEF Die, End, Refused
  <2> QED
    BY <1>0, <2>1
<1>2. ASSUME NEW b \in Bot, Revoke(b) \/ Delete(b) \/ Ask(b)
      PROVE  CommandPicked'
  <2>1. UNCHANGED cmd
    BY <1>2 DEF Revoke, Delete, Ask
  <2> QED
    BY <1>0, <2>1
<1>3. ASSUME NEW b \in Bot, NEW kind \in {"rm", "down", "add"}, Command(kind, b)
      PROVE  CommandPicked'
  <2>1. cmd'.at \in {"read", "store"} /\ cmd'.bot = b
    BY <1>3 DEF Command
  <2> QED
    BY <2>1
<1>4. ASSUME Begin \/ SupervisorEnds
      PROVE  CommandPicked'
  <2>1. UNCHANGED cmd
    BY <1>4 DEF Begin, SupervisorEnds
  <2> QED
    BY <1>0, <2>1
<1>5. ASSUME NEW b \in Bot, StopSignal(b) \/ Look(b) \/ Claim(b)
      PROVE  CommandPicked'
  <2>1. UNCHANGED cmd
    BY <1>5 DEF StopSignal, Look, Claim
  <2> QED
    BY <1>0, <2>1
<1>6. ASSUME Top \/ SweepStore \/ StopUnlink \/ Stopped \/ Load \/ Checked \/ MoveOn \/ Exec
          \/ Saw \/ StartOne \/ WritePid \/ Settle \/ PassDone \/ Save \/ Polled
      PROVE  CommandPicked'
  <2>1. UNCHANGED cmd
    BY <1>6 DEF Top, SweepStore, StopUnlink, Stopped, Load, Checked, MoveOn,
       Exec, Saw, StartOne, WritePid, Settle, PassDone, Save,
       Polled
  <2> QED
    BY <1>0, <2>1
<1>7. ASSUME ControlNext
      PROVE  CommandPicked'
  <2>1. UNCHANGED cmd
    BY <1>7 DEF ControlNext, Hold, Note, Signal, Confirm, Restart, RestartPid, Restarted
  <2> QED
    BY <1>0, <2>1
<1>8. ASSUME CommandNext
      PROVE  CommandPicked'
  <2>1. CASE CommandStore
    BY <2>1, <1>0 DEF CommandStore, NoCmd
  <2>2. CASE CommandRead
    <3>1. CASE cmd' = NoCmd
      BY <3>1 DEF NoCmd
    <3>2. CASE cmd' # NoCmd
      <4>1. /\ pidFile[cmd.bot] # 0 /\ cmd.bot \in Bot
            /\ cmd' = [cmd EXCEPT !.at = "note", !.pid = pidFile[cmd.bot]]
        BY <2>2, <1>0, <3>2 DEF CommandRead, Reported, Running
      <4>2. pidFile[cmd.bot] \in Pid /\ state[pidFile[cmd.bot]] # "unborn"
        BY <1>0, <4>1 DEF FilesType, Started, Pid
      <4> QED
        BY <1>0, <4>1, <4>2
    <3> QED
      BY <3>1, <3>2
  <2>3. CASE CommandNote
    BY <2>3, <1>0 DEF CommandNote
  <2>4. CASE CommandSignal
    <3>1. state'[cmd.pid] \notin {"unborn", "running"}
      BY <2>4, <1>0 DEF CommandSignal, Signalled, DaemonsType
    <3>2. cmd' = [cmd EXCEPT !.at = "wait"]
      BY <2>4 DEF CommandSignal
    <3> QED
      BY <2>4, <1>0, <3>1, <3>2 DEF CommandSignal
  <2>5. CASE CommandWait
    BY <2>5, <1>0 DEF CommandWait, NoCmd, Reported, Running
  <2>6. CASE CommandUnlink
    BY <2>6, <1>0 DEF CommandUnlink, NoCmd, Reported, Running
  <2> QED
    BY <1>8, <2>1, <2>2, <2>3, <2>4, <2>5, <2>6 DEF CommandNext
<1>9. CASE UNCHANGED vars
  BY <1>9, <1>0 DEF vars
<1> QED
  BY <1>1, <1>2, <1>3, <1>4, <1>5, <1>6, <1>7, <1>8, <1>9 DEF Next, LoopNext

\* A pid file keeps naming a daemon that was started.
LEMMA StartedStep ==
    ASSUME IInv, [Next]_vars
    PROVE  Started'
<1> USE DEF Started, FilesType, Pid
<1>0. Started /\ Aging /\ FilesType /\ LoopPicked /\ ControlPicked
  BY Ages DEF IInv, TypeOK, Picked
<1> USE SupervisorAssumption DEF Aging
<1>1. ASSUME NEW p \in Pid, Die(p) \/ End(p) \/ Refused(p)
      PROVE  Started'
  <2>1. UNCHANGED pidFile
    BY <1>1 DEF Die, End, Refused, files
  <2> QED
    BY <1>0, <2>1
<1>2. ASSUME NEW b \in Bot, Revoke(b) \/ Delete(b) \/ Ask(b)
      PROVE  Started'
  <2>1. UNCHANGED pidFile
    BY <1>2 DEF Revoke, Delete, Ask, files
  <2> QED
    BY <1>0, <2>1
<1>3. ASSUME NEW b \in Bot, NEW kind \in {"rm", "down", "add"}, Command(kind, b)
      PROVE  Started'
  <2>1. UNCHANGED pidFile
    BY <1>3 DEF Command, files
  <2> QED
    BY <1>0, <2>1
<1>4. ASSUME Begin \/ SupervisorEnds
      PROVE  Started'
  <2>1. UNCHANGED pidFile
    BY <1>4 DEF Begin, SupervisorEnds, files
  <2> QED
    BY <1>0, <2>1
<1>5. ASSUME NEW b \in Bot, StopSignal(b) \/ Look(b) \/ Claim(b)
      PROVE  Started'
  <2>1. UNCHANGED pidFile
    BY <1>5 DEF StopSignal, Look, Claim, files
  <2> QED
    BY <1>0, <2>1
<1>6. ASSUME Top \/ SweepStore \/ StopUnlink \/ Stopped \/ Load \/ Checked \/ MoveOn \/ Exec
          \/ Saw \/ StartOne \/ WritePid \/ Settle \/ PassDone \/ Save \/ Polled
      PROVE  Started'
  <2>1. CASE StopUnlink
    <3>1. pidFile' = pidFile \/ pidFile' = [pidFile EXCEPT ![loop.bot] = 0]
      BY <2>1 DEF StopUnlink, Removed
    <3> QED
      BY <1>0, <3>1
  <2>2. CASE WritePid
    <3>1. loop.new \in Pid /\ state'[loop.new] # "unborn"
      BY <2>2, <1>0 DEF WritePid, LoopPicked
    <3>2. pidFile' = [pidFile EXCEPT ![loop.bot] = loop.new]
      BY <2>2 DEF WritePid
    <3> QED
      BY <1>0, <3>1, <3>2
  <2>3. CASE Top \/ SweepStore \/ Stopped \/ Load \/ Checked \/
           MoveOn \/ Exec \/ Saw \/ StartOne \/ Settle \/ PassDone \/
           Save \/ Polled
    <3>1. UNCHANGED pidFile
      BY <2>3 DEF Top, SweepStore, Stopped, Load, Checked, MoveOn, Exec, Saw,
         StartOne, Settle, PassDone, Save, Polled, files
    <3> QED
      BY <1>0, <3>1
  <2> QED
    BY <1>6, <2>1, <2>2, <2>3
<1>7. ASSUME ControlNext
      PROVE  Started'
  <2>1. CASE Confirm
    <3>1. pidFile' = pidFile \/ pidFile' = [pidFile EXCEPT ![ctl.bot] = 0]
      BY <2>1 DEF Confirm
    <3> QED
      BY <1>0, <3>1
  <2>2. CASE RestartPid
    <3>1. ctl.new \in Pid /\ state'[ctl.new] # "unborn"
      BY <2>2, <1>0 DEF RestartPid, ControlPicked
    <3>2. pidFile' = [pidFile EXCEPT ![ctl.bot] = ctl.new]
      BY <2>2 DEF RestartPid
    <3> QED
      BY <1>0, <3>1, <3>2
  <2>3. CASE Hold \/ Note \/ Signal \/ Restart \/ Restarted
    <3>1. UNCHANGED pidFile
      BY <2>3 DEF Hold, Note, Signal, Restart, Restarted, files
    <3> QED
      BY <1>0, <3>1
  <2> QED
    BY <1>7, <2>1, <2>2, <2>3 DEF ControlNext
<1>8. ASSUME CommandNext
      PROVE  Started'
  <2>1. CASE CommandUnlink
    <3>1. pidFile' = pidFile \/ pidFile' = [pidFile EXCEPT ![cmd.bot] = 0]
      BY <2>1 DEF CommandUnlink, Removed
    <3> QED
      BY <1>0, <3>1
  <2>2. CASE CommandStore \/ CommandRead \/ CommandNote \/
           CommandSignal \/ CommandWait
    <3>1. UNCHANGED pidFile
      BY <2>2 DEF CommandStore, CommandRead, CommandNote, CommandSignal,
         CommandWait, files
    <3> QED
      BY <1>0, <3>1
  <2> QED
    BY <1>8, <2>1, <2>2 DEF CommandNext
<1>9. CASE UNCHANGED vars
  BY <1>9, <1>0 DEF vars, files
<1> QED
  BY <1>1, <1>2, <1>3, <1>4, <1>5, <1>6, <1>7, <1>8, <1>9 DEF Next, LoopNext

\* SPAWNING stays with who goes on with it.
LEMMA LockedStep ==
    ASSUME IInv, [Next]_vars
    PROVE  Locked'
<1> USE DEF Locked, LoopHolds, ControlHolds, LoopType, CtlType
<1>0. Locked /\ LoopPicked /\ loop \in LoopType /\ ctl \in CtlType
  BY DEF IInv, TypeOK, Picked
<1>1. ASSUME NEW p \in Pid, Die(p) \/ End(p) \/ Refused(p)
      PROVE  Locked'
  <2>1. UNCHANGED <<lock, loop, ctl>>
    BY <1>1 DEF Die, End, Refused
  <2> QED
    BY <1>0, <2>1
<1>2. ASSUME NEW b \in Bot, Revoke(b) \/ Delete(b) \/ Ask(b)
      PROVE  Locked'
  <2>1. CASE Ask(b)
    BY <2>1, <1>0 DEF Ask, Idle, LoopPicked, Idle, NoLoop
  <2>2. CASE Revoke(b) \/ Delete(b)
    <3>1. UNCHANGED <<lock, loop, ctl>>
      BY <2>2 DEF Revoke, Delete
    <3> QED
      BY <1>0, <3>1
  <2> QED
    BY <1>2, <2>1, <2>2
<1>3. ASSUME NEW b \in Bot, NEW kind \in {"rm", "down", "add"}, Command(kind, b)
      PROVE  Locked'
  <2>1. UNCHANGED <<lock, loop, ctl>>
    BY <1>3 DEF Command
  <2> QED
    BY <1>0, <2>1
<1>4. ASSUME Begin \/ SupervisorEnds
      PROVE  Locked'
  <2>1. CASE Begin
    BY <2>1, <1>0 DEF Begin, NoLoop
  <2>2. CASE SupervisorEnds
    BY <2>2, <1>0 DEF SupervisorEnds, NoLoop, Idle
  <2> QED
    BY <1>4, <2>1, <2>2
<1>5. ASSUME NEW b \in Bot, StopSignal(b) \/ Look(b) \/ Claim(b)
      PROVE  Locked'
  <2>1. CASE StopSignal(b)
    BY <2>1, <1>0 DEF StopSignal, Signalled, LoopPicked, Idle, NoLoop
  <2>2. CASE Look(b)
    BY <2>2, <1>0 DEF Look, LoopPicked, Idle, NoLoop
  <2>3. CASE Claim(b)
    BY <2>3, <1>0 DEF Claim, LoopPicked, Idle, NoLoop
  <2> QED
    BY <1>5, <2>1, <2>2, <2>3
<1>6. ASSUME Top \/ SweepStore \/ StopUnlink \/ Stopped \/ Load \/ Checked \/ MoveOn \/ Exec
          \/ Saw \/ StartOne \/ WritePid \/ Settle \/ PassDone \/ Save \/ Polled
      PROVE  Locked'
  <2>1. CASE Top
    BY <2>1, <1>0 DEF Top, LoopPicked, Idle, NoLoop
  <2>2. CASE SweepStore
    BY <2>2, <1>0 DEF SweepStore, LoopPicked, Idle, NoLoop
  <2>3. CASE StopUnlink
    BY <2>3, <1>0 DEF StopUnlink, LoopPicked, Idle, NoLoop
  <2>4. CASE Stopped
    BY <2>4, <1>0 DEF Stopped, LoopPicked, Idle, NoLoop
  <2>5. CASE Load
    <3>1. loop.at = "load" /\ loop.next = "none"
      BY <2>5, <1>0 DEF Load, LoopPicked
    <3>2. loop'.at \in {"bots", "drain"} /\ loop'.next = loop.next
      BY <2>5, <1>0 DEF Load
    <3>3. UNCHANGED <<lock, ctl>>
      BY <2>5 DEF Load
    <3> QED
      BY <1>0, <3>1, <3>2, <3>3
  <2>6. CASE Checked
    BY <2>6, <1>0 DEF Checked, NoLoop, LoopPicked, Idle, NoLoop
  <2>7. CASE MoveOn
    BY <2>7, <1>0 DEF MoveOn, LoopPicked, Idle, NoLoop
  <2>8. CASE Exec
    <3>1. lock = "loop" /\ ~ControlHolds /\ loop.back \in {"bots", "poll"}
      BY <2>8, <1>0 DEF Exec, LoopPicked
    <3>2. loop'.at \in {"top", "bots", "poll"}
      BY <2>8, <1>0, <3>1 DEF Exec, NoLoop
    <3>3. ctl'.at \in {"idle", ctl.at}
      BY <2>8 DEF Exec, Idle
    <3> QED
      BY <1>0, <3>1, <3>2, <3>3
  <2>9. CASE Saw
    BY <2>9, <1>0 DEF Saw, NextBot, LoopPicked, Idle, NoLoop
  <2>10. CASE StartOne
    <3>1. loop.at = "want" /\ lock = "free"
      BY <2>10 DEF StartOne
    <3>2. CASE NextBot /\ lock' = lock
      BY <2>10, <1>0, <3>1, <3>2 DEF StartOne, NextBot
    <3>3. CASE lock' = "loop"
      BY <2>10, <1>0, <3>1, <3>3 DEF StartOne
    <3> QED
      BY <2>10, <3>2, <3>3 DEF StartOne
  <2>11. CASE WritePid
    BY <2>11, <1>0 DEF WritePid, LoopPicked, Idle, NoLoop
  <2>12. CASE Settle
    BY <2>12, <1>0 DEF Settle, NextBot, LoopPicked, Idle, NoLoop
  <2>13. CASE PassDone
    BY <2>13, <1>0 DEF PassDone, LoopPicked, Idle, NoLoop
  <2>14. CASE Save
    BY <2>14, <1>0 DEF Save, NoLoop, LoopPicked, Idle, NoLoop
  <2>15. CASE Polled
    BY <2>15, <1>0 DEF Polled, NoLoop, LoopPicked, Idle, NoLoop
  <2> QED
    BY <1>6, <2>1, <2>2, <2>3, <2>4, <2>5, <2>6, <2>7, <2>8, <2>9,
       <2>10, <2>11, <2>12, <2>13, <2>14, <2>15
<1>7. ASSUME ControlNext
      PROVE  Locked'
  <2>1. CASE Hold
    BY <2>1, <1>0 DEF Hold, LoopPicked, Idle, NoLoop
  <2>2. CASE Note
    BY <2>2, <1>0 DEF Note, LoopPicked, Idle, NoLoop
  <2>3. CASE Signal
    BY <2>3, <1>0 DEF Signal, Signalled, LoopPicked, Idle, NoLoop
  <2>4. CASE Confirm
    BY <2>4, <1>0 DEF Confirm, Idle, LoopPicked, Idle, NoLoop
  <2>5. CASE Restart
    <3>1. lock = "control" /\ ~LoopHolds /\ loop' = loop
      BY <2>5, <1>0 DEF Restart
    <3>2. CASE ctl' = Idle
      BY <1>0, <3>1, <3>2 DEF Idle
    <3>3. CASE lock' = lock
      BY <1>0, <3>1, <3>3
    <3> QED
      BY <2>5, <3>2, <3>3 DEF Restart
  <2>6. CASE RestartPid
    BY <2>6, <1>0 DEF RestartPid, LoopPicked, Idle, NoLoop
  <2>7. CASE Restarted
    BY <2>7, <1>0 DEF Restarted, Idle, LoopPicked, Idle, NoLoop
  <2> QED
    BY <1>7, <2>1, <2>2, <2>3, <2>4, <2>5, <2>6, <2>7 DEF ControlNext
<1>8. ASSUME CommandNext
      PROVE  Locked'
  <2>1. UNCHANGED <<lock, loop, ctl>>
    BY <1>8 DEF CommandNext, CommandStore, CommandRead, CommandNote, CommandSignal,
       CommandWait, CommandUnlink
  <2> QED
    BY <1>0, <2>1
<1>9. CASE UNCHANGED vars
  BY <1>9, <1>0 DEF vars
<1> QED
  BY <1>1, <1>2, <1>3, <1>4, <1>5, <1>6, <1>7, <1>8, <1>9 DEF Next, LoopNext

\* Nearly every step starts no daemon, and leaves the pid files and who is about to
\* write one alone.
LEMMA QuietSteps ==
    ASSUME IInv, [Next]_vars
    PROVE  QuietUnless
<1> USE DEF QuietUnless, Quiet, NoneBorn
<1>0. Locked /\ DaemonsType /\ loop \in LoopType /\ ctl \in CtlType
  BY DEF IInv, TypeOK
<1>1. ASSUME NEW p \in Pid, Die(p) \/ End(p) \/ Refused(p)
      PROVE  QuietUnless
  <2>1. CASE Die(p)
    BY <2>1, <1>0 DEF Die, Ended, files, procs, history, DaemonsType
  <2>2. CASE End(p)
    BY <2>2, <1>0 DEF End, Ended, files, procs, history, DaemonsType
  <2>3. CASE Refused(p)
    BY <2>3, <1>0 DEF Refused, Ended, files, procs, history, DaemonsType
  <2> QED
    BY <1>1, <2>1, <2>2, <2>3
<1>2. ASSUME NEW b \in Bot, Revoke(b) \/ Delete(b) \/ Ask(b)
      PROVE  QuietUnless
  <2>1. CASE Ask(b)
    BY <2>1, <1>0 DEF Ask, Idle, files, procs, history
  <2>2. CASE Revoke(b) \/ Delete(b)
    BY <2>2, <1>0 DEF Revoke, Delete, files, history, procs
  <2> QED
    BY <1>2, <2>1, <2>2
<1>3. ASSUME NEW b \in Bot, NEW kind \in {"rm", "down", "add"}, Command(kind, b)
      PROVE  QuietUnless
  BY <1>3, <1>0 DEF Command, files, history, procs
<1>4. ASSUME Begin \/ SupervisorEnds
      PROVE  QuietUnless
  <2>1. CASE Begin
    BY <2>1, <1>0 DEF Begin, NoLoop, files, procs, history
  <2>2. CASE SupervisorEnds
    BY <2>2
  <2> QED
    BY <1>4, <2>1, <2>2
<1>5. ASSUME NEW b \in Bot, StopSignal(b) \/ Look(b) \/ Claim(b)
      PROVE  QuietUnless
  <2>1. CASE StopSignal(b)
    <3>1. \A p \in Pid : state'[p] = "running" => state[p] = "running" /\ of'[p] = of[p]
      BY <2>1, <1>0 DEF StopSignal, Signalled, DaemonsType
    <3>2. pidFile' = pidFile /\ lost' = lost /\ ctl' = ctl
      BY <2>1 DEF StopSignal, files, history
    <3>3. loop.at # "born" /\ loop'.at # "born"
      BY <2>1, <1>0 DEF StopSignal, LoopType, CtlType
    <3> QED
      BY <3>1, <3>2, <3>3
  <2>2. CASE Look(b)
    BY <2>2, <1>0 DEF Look, files, procs, history
  <2>3. CASE Claim(b)
    BY <2>3, <1>0 DEF Claim, files, procs, history
  <2> QED
    BY <1>5, <2>1, <2>2, <2>3
<1>6. ASSUME Top \/ SweepStore \/ StopUnlink \/ Stopped \/ Load \/ Checked \/ MoveOn \/ Exec
          \/ Saw \/ StartOne \/ WritePid \/ Settle \/ PassDone \/ Save \/ Polled
      PROVE  QuietUnless
  <2>1. CASE Top
    <3>1. \A p \in Pid : state'[p] = "running" => state[p] = "running" /\ of'[p] = of[p]
      BY <2>1, <1>0 DEF Top, Reaped, DaemonsType
    <3>2. pidFile' = pidFile /\ lost' = lost /\ ctl' = ctl
      BY <2>1 DEF Top, files, history
    <3>3. loop.at # "born" /\ loop'.at # "born"
      BY <2>1, <1>0 DEF Top, LoopType, CtlType
    <3> QED
      BY <3>1, <3>2, <3>3
  <2>2. CASE SweepStore
    BY <2>2, <1>0 DEF SweepStore, files, procs, history
  <2>3. CASE StopUnlink
    BY <2>3
  <2>4. CASE Stopped
    <3>1. /\ pidFile' = pidFile /\ lost' = lost
          /\ \A p \in Pid : state'[p] = "running" => state[p] = "running" /\ of'[p] = of[p]
      BY <2>4 DEF Stopped, procs, files, history
    <3>2. loop.at # "born" /\ loop'.at # "born"
      BY <2>4, <1>0 DEF Stopped, LoopType, NoLoop
    <3>3. ctl' = ctl \/ (ctl.at # "born" /\ ctl'.at # "born")
      BY <2>4, <1>0 DEF Stopped, Locked, LoopHolds, ControlHolds, Idle
    <3> QED
      BY <3>1, <3>2, <3>3
  <2>5. CASE Load
    <3>1. /\ pidFile' = pidFile /\ lost' = lost
          /\ \A p \in Pid : state'[p] = "running" => state[p] = "running" /\ of'[p] = of[p]
      BY <2>5 DEF Load, procs, files, history
    <3>2. loop.at # "born" /\ loop'.at # "born"
      BY <2>5, <1>0 DEF Load, LoopType, NoLoop
    <3>3. ctl' = ctl \/ (ctl.at # "born" /\ ctl'.at # "born")
      BY <2>5, <1>0 DEF Load, Locked, LoopHolds, ControlHolds, Idle
    <3> QED
      BY <3>1, <3>2, <3>3
  <2>6. CASE Checked
    <3>1. /\ pidFile' = pidFile /\ lost' = lost
          /\ \A p \in Pid : state'[p] = "running" => state[p] = "running" /\ of'[p] = of[p]
      BY <2>6 DEF Checked, procs, files, history
    <3>2. loop.at # "born" /\ loop'.at # "born"
      BY <2>6, <1>0 DEF Checked, LoopType, NoLoop
    <3>3. ctl' = ctl \/ (ctl.at # "born" /\ ctl'.at # "born")
      BY <2>6, <1>0 DEF Checked, Locked, LoopHolds, ControlHolds, Idle
    <3> QED
      BY <3>1, <3>2, <3>3
  <2>7. CASE MoveOn
    BY <2>7, <1>0 DEF MoveOn, files, procs, history
  <2>8. CASE Exec
    <3>1. /\ pidFile' = pidFile /\ lost' = lost
          /\ \A p \in Pid : state'[p] = "running" => state[p] = "running" /\ of'[p] = of[p]
      BY <2>8 DEF Exec, procs, files, history
    <3>2. loop.at # "born" /\ loop'.at # "born"
      BY <2>8, <1>0 DEF Exec, LoopType, NoLoop
    <3>3. ctl' = ctl \/ (ctl.at # "born" /\ ctl'.at # "born")
      BY <2>8, <1>0 DEF Exec, Locked, LoopHolds, ControlHolds, Idle
    <3> QED
      BY <3>1, <3>2, <3>3
  <2>9. CASE Saw
    BY <2>9, <1>0 DEF Saw, NextBot, files, procs, history
  <2>10. CASE StartOne
    BY <2>10
  <2>11. CASE WritePid
    BY <2>11
  <2>12. CASE Settle
    BY <2>12, <1>0 DEF Settle, NextBot, files, procs, history
  <2>13. CASE PassDone
    BY <2>13, <1>0 DEF PassDone, files, procs, history
  <2>14. CASE Save
    BY <2>14, <1>0 DEF Save, NoLoop, files, procs, history
  <2>15. CASE Polled
    BY <2>15, <1>0 DEF Polled, NoLoop, files, procs, history
  <2> QED
    BY <1>6, <2>1, <2>2, <2>3, <2>4, <2>5, <2>6, <2>7, <2>8, <2>9,
       <2>10, <2>11, <2>12, <2>13, <2>14, <2>15
<1>7. ASSUME ControlNext
      PROVE  QuietUnless
  <2>1. CASE Hold
    <3>1. \A p \in Pid : state'[p] = "running" => state[p] = "running" /\ of'[p] = of[p]
      BY <2>1, <1>0 DEF Hold, Reaped, DaemonsType
    <3>2. pidFile' = pidFile /\ lost' = lost /\ loop' = loop
      BY <2>1 DEF Hold, files, history
    <3>3. ctl.at # "born" /\ ctl'.at # "born"
      BY <2>1, <1>0 DEF Hold, LoopType, CtlType
    <3> QED
      BY <3>1, <3>2, <3>3
  <2>2. CASE Note
    BY <2>2, <1>0 DEF Note, files, procs, history
  <2>3. CASE Signal
    BY <2>3, <1>0 DEF Signal, Signalled, files, procs, history, DaemonsType
  <2>4. CASE Confirm
    BY <2>4
  <2>5. CASE Restart
    BY <2>5
  <2>6. CASE RestartPid
    BY <2>6
  <2>7. CASE Restarted
    BY <2>7, <1>0 DEF Restarted, Idle, files, procs, history
  <2> QED
    BY <1>7, <2>1, <2>2, <2>3, <2>4, <2>5, <2>6, <2>7 DEF ControlNext
<1>8. ASSUME CommandNext
      PROVE  QuietUnless
  <2>1. CASE CommandStore
    BY <2>1, <1>0 DEF CommandStore, NoCmd, files, procs, history
  <2>2. CASE CommandRead
    BY <2>2, <1>0 DEF CommandRead, Reported, NoCmd, files, procs, history
  <2>3. CASE CommandNote
    BY <2>3, <1>0 DEF CommandNote, files, procs, history
  <2>4. CASE CommandSignal
    BY <2>4, <1>0 DEF CommandSignal, Signalled, files, procs, history, DaemonsType
  <2>5. CASE CommandWait
    BY <2>5, <1>0 DEF CommandWait, Reported, NoCmd, files, procs, history
  <2>6. CASE CommandUnlink
    BY <2>6
  <2> QED
    BY <1>8, <2>1, <2>2, <2>3, <2>4, <2>5, <2>6 DEF CommandNext
<1>9. CASE UNCHANGED vars
  BY <1>9, <1>0 DEF vars, files, history, procs
<1> QED
  BY <1>1, <1>2, <1>3, <1>4, <1>5, <1>6, <1>7, <1>8, <1>9 DEF Next, LoopNext

\* What the next lemmas use of the invariant.
LEMMA Facts ==
    ASSUME IInv
    PROVE  /\ Owned /\ LoopPicked /\ ControlPicked /\ CommandPicked /\ Locked /\ Tracked /\ Alone
           /\ FilesType /\ DaemonsType /\ loop \in LoopType /\ ctl \in CtlType /\ lost \subseteq Bot
BY DEF IInv, Picked, TypeOK

\* If no daemon is started and a pid file is removed only from no running daemon, or
\* from one that is lost, the others stay in their files.
LEMMA Unnamed ==
    ASSUME IInv, NoneBorn, lost \subseteq lost', NEW b \in Bot,
           pidFile' = pidFile \/ pidFile' = [pidFile EXCEPT ![b] = 0],
           pidFile' = pidFile \/ \A q \in Daemons(b) : pidFile[b] = q => b \in lost'
    PROVE  Tracked' /\ Alone'
<1>1. Owned /\ FilesType /\ Tracked /\ Alone
  BY Facts
<1>2. Tracked'
  <2> SUFFICES ASSUME NEW p \in Pid, state'[p] = "running"
               PROVE  of'[p] \in lost' \/ pidFile'[of'[p]] = p \/ Fresh(p)'
    BY DEF Tracked
  <2>1. state[p] = "running" /\ of'[p] = of[p] /\ of[p] \in Bot
    BY <1>1 DEF NoneBorn, Owned
  <2>2. CASE of[p] \in lost
    BY <2>1, <2>2
  <2>3. CASE Fresh(p)
    BY <2>3 DEF Fresh, NoneBorn
  <2>4. CASE pidFile[of[p]] = p
    <3>1. CASE of[p] = b
      <4>1. p \in Daemons(b)
        BY <2>1, <3>1 DEF Daemons
      <4> QED
        BY <2>1, <2>4, <3>1, <4>1
    <3>2. CASE of[p] # b
      BY <1>1, <2>1, <2>4, <3>2 DEF FilesType
    <3> QED
      BY <3>1, <3>2
  <2> QED
    BY <1>1, <2>1, <2>2, <2>3, <2>4 DEF Tracked
<1>3. Alone'
  <2>1. \A x : Daemons(x)' \subseteq Daemons(x)
    BY DEF Daemons, NoneBorn
  <2>2. CASE loop'.at = "born"
    BY <1>1, <2>1, <2>2 DEF Alone, NoneBorn
  <2>3. CASE loop'.at # "born"
    BY <1>1, <2>1, <2>3 DEF Alone, NoneBorn
  <2> QED
    BY <2>2, <2>3
<1> QED
  BY <1>2, <1>3

\* A quiet step.
LEMMA QuietKeeps ==
    ASSUME IInv, Quiet, NEW b \in Bot
    PROVE  Tracked' /\ Alone'
BY Unnamed DEF Quiet

\* With no bots there is nothing to keep.
LEMMA NoBots ==
    ASSUME IInv, [Next]_vars, Bot = {}
    PROVE  Tracked' /\ Alone'
<1>1. Owned' /\ LoopPicked' /\ ControlPicked'
  BY OwnedStep, LoopPickedStep, ControlPickedStep
<1>2. Tracked'
  BY <1>1 DEF Tracked, Owned
<1>3. Alone'
  BY <1>1 DEF Alone, LoopPicked, ControlPicked
<1> QED
  BY <1>2, <1>3

\* A pid file is removed by one who has seen the process it named stopped.
LEMMA RemovedKeeps ==
    ASSUME IInv, NoneBorn, NEW b \in Bot, NEW v \in Pid, state[v] # "running", Removed(b, v)
    PROVE  Tracked' /\ Alone'
<1>1. lost \subseteq lost'
  BY DEF Removed
<1>2. pidFile' = [pidFile EXCEPT ![b] = 0]
  BY DEF Removed
<1>3. ASSUME NEW q \in Daemons(b), pidFile[b] = q
      PROVE  b \in lost'
  <2>1. q # v /\ q # 0 /\ state[q] = "running"
    BY <1>3 DEF Daemons, Pid
  <2> QED
    BY <1>3, <2>1 DEF Removed, Running
<1> QED
  BY <1>1, <1>2, <1>3, Unnamed

\* A running daemon stays in its bot's pid file, and whoever is about to write one is
\* about to write the only one.
LEMMA TrackedStep ==
    ASSUME IInv, [Next]_vars
    PROVE  Tracked' /\ Alone'
<1>0. CASE Bot = {}
  BY <1>0, NoBots
<1>1. CASE Bot # {}
  <2>1. PICK b \in Bot : TRUE
    BY <1>1
  <2>2. CASE Quiet
    BY <2>1, <2>2, QuietKeeps
  <2>3. CASE SupervisorEnds
    <3>1. loop'.at # "born" /\ ctl'.at # "born" /\ UNCHANGED <<of, pidFile>>
      BY <2>3 DEF SupervisorEnds, NoLoop, Idle, files
    <3>2. Alone'
      BY <3>1 DEF Alone
    <3>3. \A p \in Pid : state'[p] = "running" => state[p] = "running"
      BY <2>3 DEF SupervisorEnds
    <3>4. \A p \in Pid : Fresh(p) => of[p] \in Unwritten
      BY Facts DEF Fresh, Unwritten, LoopPicked, ControlPicked
    <3>5. lost' = lost \cup Unwritten
      BY <2>3 DEF SupervisorEnds
    <3>6. Tracked'
      BY <3>1, <3>3, <3>4, <3>5, Facts DEF Tracked
    <3> QED
      BY <3>2, <3>6
  <2>4. CASE StopUnlink
    <3>1. /\ loop.bot \in Bot /\ loop.victim \in Pid /\ state[loop.victim] # "running"
          /\ Removed(loop.bot, loop.victim)
      BY <2>4, Facts DEF StopUnlink, LoopPicked
    <3>2. NoneBorn
      BY <2>4 DEF StopUnlink, NoneBorn, procs
    <3> QED
      BY <3>1, <3>2, RemovedKeeps
  <2>5. CASE StartOne
    <3>1. /\ UNCHANGED <<pidFile, lost>> /\ loop.bot \in Bot /\ ctl' = ctl
          /\ ctl.at # "born" /\ loop.at # "born"
      BY <2>5, Facts DEF StartOne, Locked, LoopHolds, ControlHolds, LoopPicked, files, history
    <3>2. CASE UNCHANGED procs
      <4>1. loop'.at # "born"
        <5>1. \A p \in Pid : ~Spawned(p, loop.bot, loop.cfg[loop.bot])
          BY <3>2, Facts DEF Spawned, procs, DaemonsType, Unborn
        <5>2. NextBot
          BY <2>5, <5>1 DEF StartOne
        <5> QED
          BY <3>1, <5>2, Facts DEF NextBot, LoopType
      <4>2. Quiet
        BY <3>1, <3>2, <4>1 DEF Quiet, NoneBorn, procs
      <4> QED
        BY <3>1, <4>2, QuietKeeps
    <3>3. CASE ~UNCHANGED procs
      <4>1. PICK p \in Pid : /\ Spawned(p, loop.bot, loop.cfg[loop.bot])
                            /\ ~Alive(pidFile[loop.bot])
                            /\ loop' = [loop EXCEPT !.at = "born", !.new = p]
        BY <2>5, <3>3 DEF StartOne
      <4>2. loop'.at = "born" /\ loop'.new = p /\ loop'.bot = loop.bot
        BY <4>1, Facts DEF LoopType, CtlType
      <4>3. ASSUME NEW q \in Pid, state'[q] = "running", q # p
            PROVE  /\ state[q] = "running" /\ of'[q] = of[q] /\ ~Fresh(q)
                   /\ of[q] \in lost \/ pidFile[of[q]] = q
        <5>1. state[q] = "running" /\ of'[q] = of[q]
          BY <4>1, <4>3, Facts DEF Spawned, DaemonsType
        <5>2. ~Fresh(q)
          BY <3>1 DEF Fresh
        <5> QED
          BY <5>1, <5>2, Facts DEF Tracked
      <4>4. Tracked'
        BY <3>1, <4>2, <4>3 DEF Tracked, Fresh
      <4>5. ASSUME loop.bot \notin lost, NEW q \in Pid, state'[q] = "running", of'[q] = loop.bot
            PROVE  q = p
        <5>1. SUFFICES ASSUME q # p PROVE FALSE
          OBVIOUS
        <5>2. pidFile[loop.bot] = q /\ state[q] = "running"
          BY <4>3, <4>5, <5>1
        <5> QED
          BY <4>1, <5>2 DEF Alive, Pid
      <4>6. Alone'
        BY <3>1, <4>2, <4>5 DEF Alone, Daemons
      <4> QED
        BY <4>4, <4>6
    <3> QED
      BY <3>2, <3>3
  <2>6. CASE WritePid
    <3>1. /\ loop.at = "born" /\ loop'.at = "written" /\ ctl' = ctl /\ ctl.at # "born"
          /\ UNCHANGED <<state, of, lost>> /\ pidFile' = [pidFile EXCEPT ![loop.bot] = loop.new]
      BY <2>6, Facts
      DEF WritePid, Locked, LoopHolds, ControlHolds, procs, history, LoopType, CtlType
    <3>2. loop.bot \in Bot /\ of[loop.new] = loop.bot
      BY <3>1, Facts DEF LoopPicked
    <3>3. Alone'
      BY <3>1 DEF Alone
    <3>4. ASSUME NEW p \in Pid, state[p] = "running", of[p] \notin lost
          PROVE  pidFile'[of[p]] = p
      <4>1. of[p] \in Bot
        BY <3>4, Facts DEF Owned
      <4>2. CASE of[p] = loop.bot
        <5>1. p = loop.new
          BY <3>1, <3>4, <4>2, Facts DEF Alone, Daemons
        <5> QED
          BY <3>1, <3>2, <4>2, <5>1, Facts DEF FilesType
      <4>3. CASE of[p] # loop.bot
        <5>1. ~Fresh(p)
          BY <3>1, <3>2, <4>3 DEF Fresh
        <5> QED
          BY <3>1, <3>4, <4>1, <4>3, <5>1, Facts DEF Tracked, FilesType
      <4> QED
        BY <4>2, <4>3
    <3> QED
      BY <3>1, <3>3, <3>4 DEF Tracked
  <2>7. CASE Confirm
    <3>1. /\ ctl.at = "wait" /\ ctl.bot \in Bot /\ UNCHANGED <<state, of, lost, loop>>
          /\ ctl'.at # "born" /\ ctl.at # "born"
      BY <2>7, Facts DEF Confirm, ControlPicked, procs, history, Idle, CtlType
    <3>2. NoneBorn
      BY <3>1 DEF NoneBorn
    <3>3. \/ pidFile' = pidFile
          \/ /\ pidFile' = [pidFile EXCEPT ![ctl.bot] = 0]
             /\ ~Running(pidFile[ctl.bot])
      BY <2>7 DEF Confirm
    <3>4. \/ pidFile' = pidFile
          \/ \A q \in Daemons(ctl.bot) : pidFile[ctl.bot] = q => ctl.bot \in lost'
      BY <3>3 DEF Daemons, Running, Pid
    <3> QED
      BY <3>1, <3>2, <3>3, <3>4, Unnamed
  <2>8. CASE Restart
    <3>1. /\ UNCHANGED <<pidFile, lost>> /\ ctl.bot \in Bot /\ loop' = loop
          /\ loop.at # "born" /\ ctl.at # "born"
      BY <2>8, Facts DEF Restart, Locked, LoopHolds, ControlHolds, ControlPicked, files, history
    <3>2. CASE UNCHANGED procs
      <4>1. ctl'.at # "born"
        <5>1. \A p \in Pid : ~Spawned(p, ctl.bot, ctl.token)
          BY <3>2, Facts DEF Spawned, procs, DaemonsType, Unborn
        <5>2. ctl' = Idle
          BY <2>8, <5>1 DEF Restart
        <5> QED
          BY <3>1, <5>2 DEF Idle
      <4>2. Quiet
        BY <3>1, <3>2, <4>1 DEF Quiet, NoneBorn, procs
      <4> QED
        BY <3>1, <4>2, QuietKeeps
    <3>3. CASE ~UNCHANGED procs
      <4>1. PICK p \in Pid : /\ Spawned(p, ctl.bot, ctl.token)
                            /\ ~Alive(pidFile[ctl.bot])
                            /\ ctl' = [ctl EXCEPT !.at = "born", !.new = p]
        BY <2>8, <3>3 DEF Restart
      <4>2. ctl'.at = "born" /\ ctl'.new = p /\ ctl'.bot = ctl.bot
        BY <4>1, Facts DEF LoopType, CtlType
      <4>3. ASSUME NEW q \in Pid, state'[q] = "running", q # p
            PROVE  /\ state[q] = "running" /\ of'[q] = of[q] /\ ~Fresh(q)
                   /\ of[q] \in lost \/ pidFile[of[q]] = q
        <5>1. state[q] = "running" /\ of'[q] = of[q]
          BY <4>1, <4>3, Facts DEF Spawned, DaemonsType
        <5>2. ~Fresh(q)
          BY <3>1 DEF Fresh
        <5> QED
          BY <5>1, <5>2, Facts DEF Tracked
      <4>4. Tracked'
        BY <3>1, <4>2, <4>3 DEF Tracked, Fresh
      <4>5. ASSUME ctl.bot \notin lost, NEW q \in Pid, state'[q] = "running", of'[q] = ctl.bot
            PROVE  q = p
        <5>1. SUFFICES ASSUME q # p PROVE FALSE
          OBVIOUS
        <5>2. pidFile[ctl.bot] = q /\ state[q] = "running"
          BY <4>3, <4>5, <5>1
        <5> QED
          BY <4>1, <5>2 DEF Alive, Pid
      <4>6. Alone'
        BY <3>1, <4>2, <4>5 DEF Alone, Daemons
      <4> QED
        BY <4>4, <4>6
    <3> QED
      BY <3>2, <3>3
  <2>9. CASE RestartPid
    <3>1. /\ ctl.at = "born" /\ ctl'.at = "written" /\ loop' = loop /\ loop.at # "born"
          /\ UNCHANGED <<state, of, lost>> /\ pidFile' = [pidFile EXCEPT ![ctl.bot] = ctl.new]
      BY <2>9, Facts
      DEF RestartPid, Locked, LoopHolds, ControlHolds, procs, history, LoopType, CtlType
    <3>2. ctl.bot \in Bot /\ of[ctl.new] = ctl.bot
      BY <3>1, Facts DEF ControlPicked
    <3>3. Alone'
      BY <3>1 DEF Alone
    <3>4. ASSUME NEW p \in Pid, state[p] = "running", of[p] \notin lost
          PROVE  pidFile'[of[p]] = p
      <4>1. of[p] \in Bot
        BY <3>4, Facts DEF Owned
      <4>2. CASE of[p] = ctl.bot
        <5>1. p = ctl.new
          BY <3>1, <3>4, <4>2, Facts DEF Alone, Daemons
        <5> QED
          BY <3>1, <3>2, <4>2, <5>1, Facts DEF FilesType
      <4>3. CASE of[p] # ctl.bot
        <5>1. ~Fresh(p)
          BY <3>1, <3>2, <4>3 DEF Fresh
        <5> QED
          BY <3>1, <3>4, <4>1, <4>3, <5>1, Facts DEF Tracked, FilesType
      <4> QED
        BY <4>2, <4>3
    <3> QED
      BY <3>1, <3>3, <3>4 DEF Tracked
  <2>10. CASE CommandUnlink
    <3>1. /\ cmd.bot \in Bot /\ cmd.pid \in Pid /\ state[cmd.pid] # "running"
          /\ Removed(cmd.bot, cmd.pid)
      BY <2>10, Facts DEF CommandUnlink, CommandPicked
    <3>2. NoneBorn
      BY <2>10 DEF CommandUnlink, NoneBorn, procs
    <3> QED
      BY <3>1, <3>2, RemovedKeeps
  <2> QED
    BY <2>2, <2>3, <2>4, <2>5, <2>6, <2>7, <2>8, <2>9, <2>10, QuietSteps DEF QuietUnless
<1> QED
  BY <1>0, <1>1

\* It holds at first ...
LEMMA InitHolds ==
    ASSUME Init
    PROVE  IInv
<1>1. TypeOK
  BY SupervisorAssumption DEF Init, TypeOK, FilesType, DaemonsType, LoopType, CtlType, CmdType,
     Registry, Pid, NoLoop, Idle, NoCmd
<1>2. Picked
  BY DEF Init, Picked, Owned, LoopPicked, ControlPicked, CommandPicked, Started, NoLoop, Idle,
     NoCmd
<1>3. Locked /\ Tracked /\ Alone
  BY DEF Init, Locked, LoopHolds, ControlHolds, Tracked, Alone, NoLoop, Idle
<1> QED
  BY <1>1, <1>2, <1>3 DEF IInv

\* ... and every step keeps it.
LEMMA StepHolds ==
    ASSUME IInv, [Next]_vars
    PROVE  IInv'
<1>1. TypeOK'
  BY TypeStep DEF IInv
<1>2. Picked'
  BY OwnedStep, LoopPickedStep, ControlPickedStep, CommandPickedStep, StartedStep DEF Picked
<1> QED
  BY <1>1, <1>2, LockedStep, TrackedStep DEF IInv

\* The invariant: what everyone goes on with they have picked, with SPAWNING held, and
\* every running daemon is in its bot's pid file, about to be, or lost.
THEOREM Inductive == Spec => []IInv
BY InitHolds, StepHolds, PTL DEF Spec

\* Every variable keeps its type (TypeOK).
THEOREM TypeCorrect == Spec => []TypeOK
<1>1. IInv => TypeOK
  BY DEF IInv
<1> QED
  BY Inductive, <1>1, PTL

\* No second daemon of a bot is started beside one nobody asked to stop (OneDaemon;
\* SPAWNING, start_one, restart_bot).
THEOREM OneDaemonHolds == Spec => []OneDaemon
<1>1. ASSUME IInv
      PROVE  OneDaemon
  <2> SUFFICES ASSUME NEW b \in Bot \ lost, NEW p \in Daemons(b), NEW q \in Daemons(b)
               PROVE  p = q
    BY DEF OneDaemon
  <2>1. \A r \in Daemons(b) : Fresh(r) => \A s \in Daemons(b) : s = r
    BY <1>1, Facts DEF Fresh, Alone, Daemons, LoopPicked, ControlPicked
  <2>2. \A r \in Daemons(b) : Fresh(r) \/ pidFile[b] = r
    BY <1>1, Facts DEF Tracked, Daemons
  <2> QED
    BY <2>1, <2>2
<1> QED
  BY Inductive, <1>1, PTL

\* A daemon that ended does not come back, and one that is gone is gone.
LEMMA Decays ==
    ASSUME TypeOK, [Next]_vars, NEW p \in Pid
    PROVE  (Dead(p) => Dead(p)') /\ (state[p] = "gone" => state'[p] = "gone")
<1> USE DEF Dead, DaemonsType, procs
<1> DEFINE Goal == (Dead(p) => Dead(p)') /\ (state[p] = "gone" => state'[p] = "gone")
<1>0. DaemonsType
  BY DEF TypeOK
<1>1. ASSUME NEW q \in Pid, Die(q) \/ End(q) \/ Refused(q)
      PROVE  Goal
  <2>1. CASE Die(q)
    BY <2>1, <1>0 DEF Die
  <2>2. CASE End(q)
    BY <2>2, <1>0 DEF End
  <2>3. CASE Refused(q)
    BY <2>3, <1>0 DEF Refused
  <2> QED
    BY <1>1, <2>1, <2>2, <2>3
<1>2. ASSUME NEW b \in Bot, Revoke(b) \/ Delete(b) \/ Ask(b) \/ Look(b) \/ Claim(b)
      PROVE  Goal
  BY <1>2, <1>0 DEF Revoke, Delete, Ask, Look, Claim
<1>3. ASSUME NEW b \in Bot, NEW kind \in {"rm", "down", "add"}, Command(kind, b)
      PROVE  Goal
  BY <1>3, <1>0 DEF Command
<1>4. CASE SupervisorEnds
  BY <1>4, <1>0 DEF SupervisorEnds
<1>5. ASSUME NEW b \in Bot, StopSignal(b)
      PROVE  Goal
  BY <1>5, <1>0 DEF StopSignal, Signalled
<1>6. CASE Top \/ Hold
  BY <1>6, <1>0 DEF Top, Hold, Reaped
<1>7. CASE StartOne \/ Restart
  <2>1. UNCHANGED procs \/ \E q \in Pid : \E b, t : Spawned(q, b, t)
    <3>1. CASE StartOne
      BY <3>1 DEF StartOne
    <3>2. CASE Restart
      BY <3>2 DEF Restart
    <3> QED
      BY <1>7, <3>1, <3>2
  <2> QED
    BY <2>1, <1>0 DEF Spawned, Unborn
<1>8. CASE Signal \/ CommandSignal
  BY <1>8, <1>0 DEF Signal, CommandSignal, Signalled
<1>9. CASE \/ Begin \/ SweepStore \/ StopUnlink \/ Stopped \/ Load \/ Checked \/ MoveOn \/ Exec
           \/ Saw \/ WritePid \/ Settle \/ PassDone \/ Save \/ Polled
  BY <1>9, <1>0 DEF Begin, SweepStore, StopUnlink, Stopped, Load, Checked, MoveOn, Exec, Saw,
     WritePid, Settle, PassDone, Save, Polled
<1>10. CASE \/ Note \/ Confirm \/ RestartPid \/ Restarted
            \/ CommandStore \/ CommandRead \/ CommandNote \/ CommandWait \/ CommandUnlink
  BY <1>10, <1>0 DEF Note, Confirm, RestartPid, Restarted, CommandStore, CommandRead,
     CommandNote, CommandWait, CommandUnlink
<1>11. CASE UNCHANGED vars
  BY <1>11 DEF vars
<1> QED
  BY <1>1, <1>2, <1>3, <1>4, <1>5, <1>6, <1>7, <1>8, <1>9, <1>10, <1>11
  DEF Next, LoopNext, ControlNext, CommandNext

\* Nearly every step is still.
LEMMA StillSteps ==
    ASSUME IInv, Stopping, [Next]_vars
    PROVE  StillUnless
<1> USE DEF StillUnless, Still, ControlWrites
<1>0. /\ loop \in LoopType /\ ctl \in CtlType /\ LoopPicked /\ ControlPicked
      /\ pidFile \in [Bot -> 0 .. MaxPid] /\ seen \in [Bot -> 0 .. MaxPid]
      /\ loop.next \in {"none", "load", "exec", "poll"} /\ loop.back \in {"none", "bots", "poll"}
  BY Fields DEF IInv, TypeOK, Picked, FilesType
<1>1. ASSUME NEW p \in Pid, Die(p) \/ End(p) \/ Refused(p)
      PROVE  StillUnless
  BY <1>1 DEF Die, End, Refused, files, history
<1>2. ASSUME NEW b \in Bot, Revoke(b) \/ Delete(b) \/ Ask(b)
      PROVE  StillUnless
  <2>1. CASE Ask(b)
    BY <2>1, <1>0 DEF Ask, Idle, files, history
  <2>2. CASE Revoke(b) \/ Delete(b)
    BY <2>2 DEF Revoke, Delete, files, history
  <2> QED
    BY <1>2, <2>1, <2>2
<1>3. ASSUME NEW b \in Bot, NEW kind \in {"rm", "down", "add"}, Command(kind, b)
      PROVE  StillUnless
  BY <1>3 DEF Command, files, history
<1>4. ASSUME NEW b \in Bot, StopSignal(b) \/ Look(b) \/ Claim(b)
      PROVE  StillUnless
  <2>1. CASE StopSignal(b)
    BY <2>1, <1>0 DEF StopSignal, files, history, LoopType
  <2>2. CASE Claim(b)
    BY <2>2, <1>0 DEF Claim, files, history, LoopType
  <2> QED
    BY <1>4, <2>1, <2>2
<1>5. CASE Begin \/ Top \/ SweepStore \/ Save \/ Polled \/ PassDone \/ MoveOn
  <2>1. CASE Begin \/ Save \/ Polled
    BY <2>1 DEF Begin, Save, Polled, NoLoop, files, history
  <2>2. CASE Top
    BY <2>2, <1>0 DEF Top, history, LoopType
  <2>3. CASE SweepStore \/ PassDone \/ MoveOn
    BY <2>3, <1>0 DEF SweepStore, PassDone, MoveOn, files, history, LoopType
  <2> QED
    BY <1>5, <2>1, <2>2, <2>3
<1>6. CASE Stopped \/ Load \/ Checked
  <2>1. CASE Stopped
    BY <2>1, <1>0 DEF Stopped, files, history, LoopType
  <2>2. CASE Load
    BY <2>2, <1>0 DEF Load, files, history, LoopType
  <2>3. CASE Checked
    BY <2>3, <1>0 DEF Checked, files, history, LoopType, NoLoop
  <2> QED
    BY <1>6, <2>1, <2>2, <2>3
<1>7. CASE StopUnlink \/ CommandUnlink
  <2>1. /\ UNCHANGED <<ctl, seen, counted, taken>>
        /\ \E b \in Bot : pidFile' = [pidFile EXCEPT ![b] = 0]
    BY <1>7, <1>0 DEF StopUnlink, CommandUnlink, Removed, LoopPicked, IInv, Picked, CommandPicked
  <2>2. loop' = loop \/ loop'.at = "stop"
    BY <1>7, <1>0 DEF StopUnlink, CommandUnlink, LoopType
  <2> QED
    BY <2>1, <2>2, <1>0
<1>8. CASE Exec
  <2>1. UNCHANGED <<pidFile, counted, taken>> /\ loop'.at \in {"top", "none", "bots", "poll"}
    BY <1>8, <1>0 DEF Exec, files, history, LoopType, NoLoop
  <2>2. (seen' = seen /\ ctl' = ctl) \/ (seen' = [b \in Bot |-> 0] /\ ctl' = Idle)
    BY <1>8 DEF Exec
  <2> QED
    BY <2>1, <2>2 DEF Idle
<1>9. CASE Note \/ Signal \/ Confirm
  <2>1. /\ UNCHANGED <<seen, counted, taken, loop>> /\ Stopping
        /\ \A b \in Bot : pidFile'[b] \in {pidFile[b], 0}
    BY <1>9, <1>0 DEF Note, Signal, Confirm, files, history
  <2>2. CASE Note \/ Signal
    BY <2>1, <2>2, <1>0 DEF Note, Signal, CtlType, Stopping
  <2>3. CASE Confirm
    BY <2>1, <2>3, <1>0 DEF Confirm, CtlType, Idle, Stopping
  <2> QED
    BY <1>9, <2>2, <2>3
<1>10. CASE CommandStore \/ CommandRead \/ CommandNote \/ CommandSignal \/ CommandWait
  BY <1>10 DEF CommandStore, CommandRead, CommandNote, CommandSignal, CommandWait, files, history
<1>11. CASE UNCHANGED vars
  BY <1>11 DEF vars, files, history
<1> QED
  BY <1>1, <1>2, <1>3, <1>4, <1>5, <1>6, <1>7, <1>8, <1>9, <1>10, <1>11
  DEF Next, LoopNext, ControlNext, CommandNext

\* What a daemon was, and that it ended, lasts.
LEMMA Lasts ==
    ASSUME TypeOK, [Next]_vars, NEW p \in 0 .. MaxPid, p # 0
    PROVE  /\ p \in Pid
           /\ \A b : Its(p, b) => Its(p, b)'
           /\ Dead(p) => Dead(p)'
           /\ state[p] = "gone" => state'[p] = "gone"
<1>1. p \in Pid
  BY SupervisorAssumption DEF Pid
<1>2. \A b : Its(p, b) => Its(p, b)'
  BY <1>1, Ages DEF Aging, Its
<1> QED
  BY <1>1, <1>2, Decays

\* The pids at hand.
LEMMA Pids ==
    ASSUME TypeOK
    PROVE  /\ pidFile \in [Bot -> 0 .. MaxPid] /\ seen \in [Bot -> 0 .. MaxPid]
           /\ loop.had \in 0 .. MaxPid /\ loop.new \in 0 .. MaxPid
           /\ ctl.had \in 0 .. MaxPid /\ ctl.old \in 0 .. MaxPid /\ ctl.new \in 0 .. MaxPid
           /\ Pid \subseteq 0 .. MaxPid /\ 0 \notin Pid /\ taken \subseteq Pid
           /\ counted \in [Pid -> Nat] /\ loop \in LoopType /\ ctl \in CtlType
<1>1. Pid \subseteq 0 .. MaxPid /\ 0 \notin Pid
  BY SupervisorAssumption DEF Pid
<1> QED
  BY <1>1, Fields DEF TypeOK, FilesType

\* A still step brings no news.
LEMMA StillKeeps ==
    ASSUME IInv, News, [Next]_vars, Still
    PROVE  News'
<1>0. TypeOK
  BY DEF IInv
<1>1. Stopping'
  BY DEF News, Still, Stopping
<1>2. Whose'
  <2>1. \A b \in Bot : pidFile'[b] # 0 => Its(pidFile[b], b)' /\ pidFile'[b] = pidFile[b]
    BY <1>0, Pids, Lasts DEF Still, News, Whose
  <2>2. \A b \in Bot : seen'[b] # 0 => Its(seen[b], b)' /\ seen'[b] = seen[b]
    BY <1>0, Pids, Lasts DEF Still, News, Whose
  <2>3. LoopKnows' => loop' = loop /\ LoopKnows
    BY DEF Still, LoopKnows
  <2>4. ControlStarts' => ctl' = ctl /\ ControlStarts
    BY DEF Still, ControlStarts, ControlWrites
  <2>5. LoopKnows' => Its(loop.had, loop.bot)'
    BY <1>0, <2>3, Pids, Lasts DEF News, Whose, LoopKnows, Its
  <2>6. ControlStarts' => Its(ctl.had, ctl.bot)'
    BY <1>0, <2>4, Pids, Lasts DEF News, Whose, ControlStarts, Its
  <2> QED
    BY <2>1, <2>2, <2>5, <2>6 DEF Whose, Its
<1>3. Deaths'
  <2>1. LoopStarts' => Dead(loop.had)'
    BY <1>0, Pids, Lasts DEF News, Deaths, LoopStarts, Still, Dead
  <2>2. ControlStarts' => Dead(ctl.had)'
    BY <1>0, Pids, Lasts DEF News, Deaths, ControlStarts, ControlWrites, Still, Dead
  <2>3. \A p \in Pid : counted'[p] # 0 => Dead(p)'
    BY <1>0, Decays DEF News, Deaths, Still
  <2>4. \A p \in taken' : state'[p] = "gone"
    BY <1>0, Pids, Decays DEF News, Deaths, Still
  <2> QED
    BY <2>1, <2>2, <2>3, <2>4 DEF Deaths
<1>4. Here'
  <2>1. 0 \notin taken
    BY <1>0, Pids
  <2> QED
    BY <2>1 DEF News, Here, Still, ControlWrites, LoopWrites
<1>5. Replaced'
  <2>1. LoopStarts' => loop' = loop /\ LoopStarts /\ loop.had # 0
    BY DEF Still, LoopStarts
  <2>2. ControlStarts' => ctl' = ctl /\ ControlStarts /\ ctl.had # 0
    BY DEF Still, ControlStarts, ControlWrites
  <2>3. loop.at = "written" => loop.bot \in Bot
    BY DEF IInv, Picked, LoopPicked
  <2>4. ctl.at = "written" => ctl.bot \in Bot
    BY DEF IInv, Picked, ControlPicked
  <2> QED
    BY <2>1, <2>2, <2>3, <2>4 DEF News, Replaced, Still, ControlWrites
<1>6. Counted'
  <2> SUFFICES ASSUME NEW p \in Pid, counted'[p] # 0
               PROVE  /\ \A b \in Bot : pidFile'[b] # p
                      /\ ControlStarts' => ctl'.had # p
                      /\ ControlWrites' => ctl'.new # p
                      /\ LoopWrites' => loop'.new # p
                      /\ LoopStarts' /\ loop'.had = p => seen'[loop'.bot] # p
    BY DEF Counted
  <2>1. counted[p] # 0 /\ p # 0
    BY <1>0, Pids DEF Still
  <2>2. LoopStarts' => loop' = loop /\ LoopStarts /\ loop.bot \in Bot
    BY DEF Still, LoopStarts, IInv, Picked, LoopPicked
  <2>3. ControlStarts' => ctl' = ctl /\ ControlStarts
    BY DEF Still, ControlStarts, ControlWrites
  <2>4. ControlWrites' => ctl' = ctl /\ ControlWrites
    BY DEF Still, ControlWrites
  <2>5. LoopWrites' => loop' = loop /\ LoopWrites
    BY DEF Still, LoopWrites
  <2> QED
    BY <2>1, <2>2, <2>3, <2>4, <2>5 DEF News, Counted, Still
<1>7. DeathsAreNews'
  BY DEF News, DeathsAreNews, Still
<1> QED
  BY <1>1, <1>2, <1>3, <1>4, <1>5, <1>6, <1>7 DEF News

\* With the supervisor go the daemons it ran: none of them was counted.
LEMMA EndsKeeps ==
    ASSUME IInv, News, [Next]_vars, SupervisorEnds
    PROVE  News'
<1>0. TypeOK
  BY DEF IInv
<1>1. PICK with \in SUBSET {p \in Pid : child[p] /\ Running(p)} :
        /\ taken' = taken \cup with
        /\ state' = [p \in Pid |-> IF p \in with \/ (child[p] /\ state[p] = "zombie")
                                     THEN "gone" ELSE state[p]]
  BY DEF SupervisorEnds
<1>2. /\ UNCHANGED <<pidFile, counted>> /\ seen' = [b \in Bot |-> 0]
      /\ loop'.at = "down" /\ ctl'.at = "idle"
  BY DEF SupervisorEnds, NoLoop, Idle, files
<1>3. taken' \subseteq Pid /\ 0 \notin Pid
  BY <1>0, <1>1, Pids
<1>4. Stopping' /\ Replaced'
  BY <1>2 DEF Stopping, Replaced, LoopStarts, ControlStarts
<1>5. Whose'
  <2>1. \A b \in Bot : pidFile'[b] # 0 => Its(pidFile[b], b)' /\ pidFile'[b] = pidFile[b]
    BY <1>0, <1>2, Pids, Lasts DEF News, Whose
  <2> QED
    BY <1>2, <2>1 DEF Whose, LoopKnows, ControlStarts, Its
<1>6. Deaths'
  <2>1. \A p \in Pid : counted'[p] # 0 => Dead(p)'
    BY <1>0, <1>2, Decays DEF News, Deaths
  <2>2. \A p \in taken' : state'[p] = "gone"
    BY <1>0, <1>1, Pids, Decays DEF News, Deaths
  <2> QED
    BY <1>2, <2>1, <2>2 DEF Deaths, LoopStarts, ControlStarts
<1>7. Here'
  BY <1>2, <1>3 DEF Here, LoopWrites, ControlWrites
<1>8. Counted'
  BY <1>2 DEF News, Counted, LoopStarts, ControlStarts, LoopWrites, ControlWrites
<1>9. DeathsAreNews'
  <2>1. \A p \in with : counted[p] = 0
    BY <1>1 DEF News, Deaths, Dead, Running
  <2> QED
    BY <1>1, <1>2, <2>1 DEF News, DeathsAreNews
<1> QED
  BY <1>4, <1>5, <1>6, <1>7, <1>8, <1>9 DEF News

\* What the loop reads from a pid file was not counted; if it is there, it did not go
\* with an earlier supervisor, and if not, it ended.
LEMMA LookKeeps ==
    ASSUME IInv, News, [Next]_vars, NEW b \in Bot, Look(b)
    PROVE  News'
<1>0. TypeOK
  BY DEF IInv
<1>1. /\ loop'.at = IF Alive(pidFile[b]) THEN "saw" ELSE "want"
      /\ loop'.bot = b /\ loop'.had = pidFile[b]
  BY <1>0, Pids DEF Look, LoopType
<1>2. UNCHANGED <<pidFile, counted, taken, seen, ctl, state, of>>
  BY DEF Look, files, procs, history
<1>3. pidFile[b] # 0 => Its(pidFile[b], b) /\ pidFile[b] \in Pid
  BY <1>0, Pids, Lasts DEF News, Whose
<1>4. Stopping' /\ Replaced'
  BY <1>1, <1>2 DEF News, Stopping, Replaced, LoopStarts, ControlStarts, ControlWrites
<1>5. Whose'
  BY <1>1, <1>2, <1>3 DEF News, Whose, LoopKnows, ControlStarts, Its
<1>6. Deaths'
  <2>1. pidFile[b] # 0 /\ ~Alive(pidFile[b]) => Dead(pidFile[b])
    BY <1>0, <1>3 DEF Alive, Dead, Its, TypeOK, DaemonsType
  <2> QED
    BY <1>1, <1>2, <2>1 DEF News, Deaths, LoopStarts, ControlStarts, Dead
<1>7. Here'
  <2>1. Alive(pidFile[b]) => pidFile[b] \notin taken
    BY DEF Alive, News, Deaths
  <2> QED
    BY <1>1, <1>2, <2>1 DEF News, Here, LoopWrites, ControlWrites
<1>8. Counted'
  BY <1>1, <1>2 DEF News, Counted, LoopStarts, ControlStarts, LoopWrites, ControlWrites
<1>9. DeathsAreNews'
  BY <1>2 DEF News, DeathsAreNews
<1> QED
  BY <1>4, <1>5, <1>6, <1>7, <1>8, <1>9 DEF News

\* What it saw it has seen.
LEMMA SawKeeps ==
    ASSUME IInv, News, [Next]_vars, Saw
    PROVE  News'
<1>0. TypeOK
  BY DEF IInv
<1>1. /\ loop.at = "saw" /\ loop'.at = "bots" /\ loop.bot \in Bot
      /\ seen' = [seen EXCEPT ![loop.bot] = loop.had]
  BY <1>0, Pids DEF Saw, NextBot, LoopType, IInv, Picked, LoopPicked
<1>2. UNCHANGED <<pidFile, counted, taken, ctl, state, of>>
  BY DEF Saw, files, procs, history
<1>3. \A b \in Bot : seen'[b] = IF b = loop.bot THEN loop.had ELSE seen[b]
  BY <1>0, <1>1, Pids
<1>4. Stopping' /\ Replaced'
  BY <1>1, <1>2 DEF News, Stopping, Replaced, LoopStarts, ControlStarts, ControlWrites
<1>5. Whose'
  BY <1>1, <1>2, <1>3 DEF News, Whose, LoopKnows, ControlStarts, Its
<1>6. Deaths'
  BY <1>1, <1>2 DEF News, Deaths, LoopStarts, ControlStarts, Dead
<1>7. Here'
  BY <1>1, <1>2, <1>3 DEF News, Here, LoopWrites, ControlWrites
<1>8. Counted'
  BY <1>1, <1>2 DEF News, Counted, LoopStarts, ControlStarts, LoopWrites, ControlWrites
<1>9. DeathsAreNews'
  BY <1>2 DEF News, DeathsAreNews
<1> QED
  BY <1>4, <1>5, <1>6, <1>7, <1>8, <1>9 DEF News

\* A daemon just spawned was never counted, and is not the one before.
LEMMA Newborn ==
    ASSUME TypeOK, News, NEW p \in Pid, NEW b, NEW t, Spawned(p, b, t)
    PROVE  /\ p \notin taken /\ counted[p] = 0 /\ p # 0
           /\ \A q, c : Its(q, c) => q # p
<1>1. state[p] = "unborn" /\ 0 \notin Pid
  BY Pids DEF Spawned, Unborn
<1> QED
  BY <1>1 DEF News, Deaths, Dead, Its

\* The loop starts a daemon over one that ended, or goes on.
LEMMA StartKeeps ==
    ASSUME IInv, News, [Next]_vars, StartOne
    PROVE  News'
<1>0. TypeOK
  BY DEF IInv
<1>1. UNCHANGED <<pidFile, counted, taken, seen, ctl>> /\ loop.at = "want"
  BY DEF StartOne, files, history
<1>2. CASE NextBot
  <2>1. loop'.at = "bots"
    BY <1>0, <1>2, Pids DEF NextBot, LoopType
  <2>2. Still
    BY <1>1, <2>1 DEF Still
  <2> QED
    BY <2>2, StillKeeps
<1>3. CASE ~NextBot
  <2>1. PICK p \in Pid : /\ Spawned(p, loop.bot, loop.cfg[loop.bot])
                         /\ loop' = [loop EXCEPT !.at = "born", !.new = p]
    BY <1>3 DEF StartOne
  <2>2. loop'.at = "born" /\ loop'.new = p /\ loop'.bot = loop.bot /\ loop'.had = loop.had
    BY <1>0, <2>1, Pids DEF LoopType
  <2>3. p \notin taken /\ counted[p] = 0 /\ p # 0 /\ \A q, c : Its(q, c) => q # p
    BY <1>0, <2>1, Newborn
  <2>4. ~ControlStarts /\ ~ControlWrites /\ ctl.at \notin {"note", "signal", "wait"}
    BY DEF StartOne, IInv, Locked, ControlHolds, ControlStarts, ControlWrites
  <2>5. Stopping'
    BY <1>1, <2>4 DEF Stopping
  <2>6. Whose'
    <3>1. \A b \in Bot : pidFile'[b] # 0 => Its(pidFile[b], b)' /\ pidFile'[b] = pidFile[b]
      BY <1>0, <1>1, Pids, Lasts DEF News, Whose
    <3>2. \A b \in Bot : seen'[b] # 0 => Its(seen[b], b)' /\ seen'[b] = seen[b]
      BY <1>0, <1>1, Pids, Lasts DEF News, Whose
    <3>3. LoopKnows' => Its(loop.had, loop.bot)'
      BY <1>0, <1>1, <2>2, Pids, Lasts DEF News, Whose, LoopKnows, Its
    <3> QED
      BY <1>1, <2>4, <3>1, <3>2, <3>3 DEF Whose, Its, ControlStarts
  <2>7. Deaths'
    <3>1. LoopStarts' => Dead(loop.had)'
      BY <1>0, <1>1, <2>2, Pids, Lasts DEF News, Deaths, LoopStarts, Dead
    <3>2. \A q \in Pid : counted'[q] # 0 => Dead(q)'
      BY <1>0, <1>1, Decays DEF News, Deaths
    <3>3. \A q \in taken' : state'[q] = "gone"
      BY <1>0, <1>1, Pids, Decays DEF News, Deaths
    <3> QED
      BY <1>1, <2>4, <3>1, <3>2, <3>3 DEF Deaths, ControlStarts
  <2>8. Here'
    BY <1>1, <2>2, <2>3, <2>4 DEF News, Here, LoopWrites, ControlWrites
  <2>9. Replaced'
    <3>1. loop.had # 0 => Its(loop.had, loop.bot)
      BY <1>1 DEF News, Whose, LoopKnows
    <3> QED
      BY <1>1, <2>2, <2>3, <2>4, <3>1 DEF Replaced, LoopStarts, ControlStarts, ControlWrites
  <2>10. Counted'
    BY <1>1, <2>2, <2>3, <2>4
    DEF News, Counted, LoopStarts, ControlStarts, LoopWrites, ControlWrites
  <2>11. DeathsAreNews'
    BY <1>1 DEF News, DeathsAreNews
  <2> QED
    BY <2>5, <2>6, <2>7, <2>8, <2>9, <2>10, <2>11 DEF News
<1> QED
  BY <1>2, <1>3

\* The new daemon's pid is written over that of the one before.
LEMMA WriteKeeps ==
    ASSUME IInv, News, [Next]_vars, WritePid
    PROVE  News'
<1>0. TypeOK
  BY DEF IInv
<1>1. /\ loop.at = "born" /\ loop'.at = "written" /\ loop'.new = loop.new
      /\ loop'.bot = loop.bot /\ loop'.had = loop.had
  BY <1>0, Pids DEF WritePid, LoopType
<1>2. UNCHANGED <<counted, taken, seen, ctl, state, of>>
  BY DEF WritePid, procs, history
<1>3. loop.bot \in Bot /\ Its(loop.new, loop.bot) /\ loop.new # 0
  BY <1>0, <1>1, Pids DEF IInv, Picked, LoopPicked, Its
<1>4. \A b \in Bot : pidFile'[b] = IF b = loop.bot THEN loop.new ELSE pidFile[b]
  BY <1>0, Pids DEF WritePid
<1>5. ~ControlStarts /\ ~ControlWrites /\ ctl.at \notin {"note", "signal", "wait"}
  BY <1>1 DEF IInv, Locked, LoopHolds, ControlHolds, ControlStarts, ControlWrites
<1>6. Stopping'
  BY <1>2, <1>5 DEF Stopping
<1>7. Whose'
  BY <1>1, <1>2, <1>3, <1>4, <1>5 DEF News, Whose, LoopKnows, ControlStarts, Its
<1>8. Deaths'
  BY <1>1, <1>2, <1>5 DEF News, Deaths, LoopStarts, ControlStarts, Dead
<1>9. Here'
  BY <1>1, <1>2, <1>5 DEF News, Here, LoopWrites, ControlWrites
<1>10. Replaced'
  BY <1>1, <1>2, <1>3, <1>4, <1>5 DEF News, Replaced, LoopStarts, ControlStarts
<1>11. Counted'
  BY <1>1, <1>2, <1>4, <1>5
  DEF News, Counted, LoopStarts, ControlStarts, LoopWrites, ControlWrites
<1>12. DeathsAreNews'
  BY <1>2 DEF News, DeathsAreNews
<1> QED
  BY <1>6, <1>7, <1>8, <1>9, <1>10, <1>11, <1>12 DEF News

\* What noting the death of p, if it is noted, does to the counters.
LEMMA OneMore ==
    ASSUME TypeOK, NEW p \in Pid, counted' = [counted EXCEPT ![p] = @ + 1]
    PROVE  /\ \A q \in Pid : q # p => counted'[q] = counted[q]
           /\ counted[p] = 0 => counted'[p] = 1
BY Pids

\* A death the loop notes was never noted, and will not be met again: its pid was
\* written over, and SEEN names the new daemon.
LEMMA SettleKeeps ==
    ASSUME IInv, News, [Next]_vars, Settle
    PROVE  News'
<1>0. TypeOK
  BY DEF IInv
<1>1. loop.at = "written" /\ loop'.at = "bots" /\ loop.bot \in Bot
  BY <1>0, Pids DEF Settle, NextBot, LoopType, IInv, Picked, LoopPicked
<1>2. UNCHANGED <<pidFile, taken, ctl, state, of>>
  BY DEF Settle, procs
<1>3. \A b \in Bot : seen'[b] = IF b = loop.bot THEN loop.new ELSE seen[b]
  BY <1>0, Pids DEF Settle
<1>4. Its(loop.new, loop.bot) /\ loop.new \notin taken
  BY <1>1 DEF News, Here, LoopWrites, IInv, Picked, LoopPicked, Its
<1>5. ~ControlStarts /\ ~ControlWrites /\ ctl.at \notin {"note", "signal", "wait"}
  BY <1>1 DEF IInv, Locked, LoopHolds, ControlHolds, ControlStarts, ControlWrites
<1>6. Stopping' /\ Replaced'
  BY <1>1, <1>2, <1>5 DEF Stopping, Replaced, LoopStarts, ControlStarts
<1>7. Whose'
  BY <1>1, <1>2, <1>3, <1>4, <1>5 DEF News, Whose, LoopKnows, ControlStarts, Its
<1>8. Here'
  BY <1>1, <1>2, <1>3, <1>4, <1>5 DEF News, Here, LoopWrites, ControlWrites
<1>9. CASE ~DiedByItself(loop.bot, loop.had)
  <2>1. counted' = counted
    BY <1>9 DEF Settle
  <2> QED
    BY <1>1, <1>2, <1>5, <1>6, <1>7, <1>8, <2>1
    DEF News, Deaths, Dead, Counted, DeathsAreNews, LoopStarts, ControlStarts, LoopWrites,
        ControlWrites
<1>10. CASE DiedByItself(loop.bot, loop.had)
  <2>1. loop.had \in Pid /\ loop.had # 0 /\ seen[loop.bot] = loop.had
    BY <1>0, <1>10, Pids, Lasts DEF DiedByItself
  <2>2. LoopStarts /\ LoopKnows
    BY <1>1, <2>1 DEF LoopStarts, LoopKnows
  <2>3. counted[loop.had] = 0 /\ loop.had \notin taken /\ Dead(loop.had)
    BY <1>1, <2>1, <2>2 DEF News, Counted, Here, Deaths
  <2>4. /\ \A q \in Pid : q # loop.had => counted'[q] = counted[q]
        /\ counted'[loop.had] = 1
    BY <1>0, <1>10, <2>1, <2>3, OneMore DEF Settle
  <2>5. \A b \in Bot : pidFile[b] # loop.had
    <3>1. pidFile[loop.bot] # loop.had
      BY <1>1, <2>2 DEF News, Replaced
    <3>2. \A b \in Bot : pidFile[b] = loop.had => b = loop.bot
      BY <2>1, <2>2 DEF News, Whose, Its
    <3> QED
      BY <3>1, <3>2
  <2>6. Deaths'
    BY <1>1, <1>2, <1>5, <2>3, <2>4 DEF News, Deaths, Dead, LoopStarts, ControlStarts
  <2>7. Counted'
    BY <1>1, <1>2, <1>5, <2>4, <2>5
    DEF News, Counted, LoopStarts, ControlStarts, LoopWrites, ControlWrites
  <2>8. DeathsAreNews'
    BY <1>2, <2>3, <2>4 DEF News, DeathsAreNews
  <2> QED
    BY <1>6, <1>7, <1>8, <2>6, <2>7, <2>8 DEF News
<1> QED
  BY <1>9, <1>10

\* A restart has SPAWNING, and finds its bot's daemon running or ended.
LEMMA HoldKeeps ==
    ASSUME IInv, News, [Next]_vars, Hold
    PROVE  News'
<1>0. TypeOK
  BY DEF IInv
<1>1. UNCHANGED <<pidFile, counted, taken, seen, loop, of>> /\ ctl.bot \in Bot
  BY DEF Hold, files, history, IInv, Picked, ControlPicked
<1>2. /\ ctl'.had = pidFile[ctl.bot] /\ ctl'.bot = ctl.bot
      /\ Running(pidFile[ctl.bot]) => ctl'.at = "note" /\ ctl'.old = pidFile[ctl.bot]
      /\ ~Running(pidFile[ctl.bot]) => ctl'.at = "start" /\ ctl'.old = 0
  BY <1>0, Pids DEF Hold, CtlType
<1>3. \A b \in Bot : pidFile[b] # 0 => Its(pidFile[b], b)' /\ pidFile[b] \in Pid
  BY <1>0, <1>1, Pids, Lasts DEF News, Whose
<1>4. Stopping' /\ Replaced'
  BY <1>1, <1>2 DEF News, Stopping, Replaced, LoopStarts, ControlStarts, ControlWrites, Running
<1>5. Whose'
  <2>1. \A b \in Bot : seen'[b] # 0 => Its(seen[b], b)' /\ seen'[b] = seen[b]
    BY <1>0, <1>1, Pids, Lasts DEF News, Whose
  <2>2. LoopKnows' => Its(loop.had, loop.bot)'
    BY <1>0, <1>1, Pids, Lasts DEF News, Whose, LoopKnows, Its
  <2>3. ControlStarts' => Its(ctl.had, ctl.bot)'
    BY <1>1, <1>2, <1>3 DEF ControlStarts, Its
  <2> QED
    BY <1>1, <1>3, <2>1, <2>2, <2>3 DEF Whose, Its
<1>6. Deaths'
  <2>1. LoopStarts' => Dead(loop.had)'
    BY <1>0, <1>1, Pids, Lasts DEF News, Deaths, LoopStarts, Dead
  <2>2. pidFile[ctl.bot] # 0 /\ ~Running(pidFile[ctl.bot]) => Dead(pidFile[ctl.bot])
    BY <1>0, <1>1, <1>3 DEF Running, Dead, News, Whose, Its, TypeOK, DaemonsType
  <2>3. pidFile[ctl.bot] # 0 /\ Dead(pidFile[ctl.bot]) => state'[pidFile[ctl.bot]] \in {"zombie", "gone"}
    BY <1>0, <1>1, <1>3, Decays DEF Dead
  <2>4. ControlStarts' => Dead(ctl.had)'
    BY <1>2, <2>2, <2>3 DEF ControlStarts, Dead
  <2>5. \A q \in Pid : counted'[q] # 0 => Dead(q)'
    BY <1>0, <1>1, Decays DEF News, Deaths
  <2>6. \A q \in taken' : state'[q] = "gone"
    BY <1>0, <1>1, Pids, Decays DEF News, Deaths
  <2> QED
    BY <2>1, <2>4, <2>5, <2>6 DEF Deaths
<1>7. Here'
  BY <1>1, <1>2 DEF News, Here, LoopWrites, ControlWrites
<1>8. Counted'
  BY <1>1, <1>2 DEF News, Counted, LoopStarts, ControlStarts, LoopWrites, ControlWrites
<1>9. DeathsAreNews'
  BY <1>1 DEF News, DeathsAreNews
<1> QED
  BY <1>4, <1>5, <1>6, <1>7, <1>8, <1>9 DEF News

\* A restart starts its daemon, or is over.
LEMMA RestartKeeps ==
    ASSUME IInv, News, [Next]_vars, Restart
    PROVE  News'
<1>0. TypeOK
  BY DEF IInv
<1>1. UNCHANGED <<pidFile, counted, taken, seen, loop>> /\ ctl.at = "start"
  BY DEF Restart, files, history
<1>2. CASE ctl' = Idle
  <2>1. Still
    BY <1>1, <1>2 DEF Still, Idle, ControlWrites
  <2> QED
    BY <2>1, StillKeeps
<1>3. CASE ctl' # Idle
  <2>1. PICK p \in Pid : /\ Spawned(p, ctl.bot, ctl.token)
                         /\ ctl' = [ctl EXCEPT !.at = "born", !.new = p]
    BY <1>3 DEF Restart
  <2>2. /\ ctl'.at = "born" /\ ctl'.new = p /\ ctl'.bot = ctl.bot
        /\ ctl'.had = ctl.had /\ ctl'.old = ctl.old
    BY <1>0, <2>1, Pids DEF CtlType
  <2>3. p \notin taken /\ counted[p] = 0 /\ p # 0 /\ \A q, c : Its(q, c) => q # p
    BY <1>0, <2>1, Newborn
  <2>4. ~LoopWrites
    BY <1>1 DEF IInv, Locked, LoopHolds, ControlHolds, LoopWrites
  <2>5. Stopping'
    BY <2>2 DEF Stopping
  <2>6. Whose'
    <3>1. \A b \in Bot : pidFile'[b] # 0 => Its(pidFile[b], b)' /\ pidFile'[b] = pidFile[b]
      BY <1>0, <1>1, Pids, Lasts DEF News, Whose
    <3>2. \A b \in Bot : seen'[b] # 0 => Its(seen[b], b)' /\ seen'[b] = seen[b]
      BY <1>0, <1>1, Pids, Lasts DEF News, Whose
    <3>3. LoopKnows' => Its(loop.had, loop.bot)'
      BY <1>0, <1>1, Pids, Lasts DEF News, Whose, LoopKnows, Its
    <3>4. ControlStarts' => Its(ctl.had, ctl.bot)'
      BY <1>0, <1>1, <2>2, Pids, Lasts DEF News, Whose, ControlStarts, Its
    <3> QED
      BY <3>1, <3>2, <3>3, <3>4 DEF Whose, Its
  <2>7. Deaths'
    <3>1. LoopStarts' => Dead(loop.had)'
      BY <1>0, <1>1, Pids, Lasts DEF News, Deaths, LoopStarts, Dead
    <3>2. ControlStarts' => Dead(ctl.had)'
      BY <1>0, <1>1, <2>2, Pids, Lasts DEF News, Deaths, ControlStarts, Dead
    <3>3. \A q \in Pid : counted'[q] # 0 => Dead(q)'
      BY <1>0, <1>1, Decays DEF News, Deaths
    <3>4. \A q \in taken' : state'[q] = "gone"
      BY <1>0, <1>1, Pids, Decays DEF News, Deaths
    <3> QED
      BY <3>1, <3>2, <3>3, <3>4 DEF Deaths
  <2>8. Here'
    BY <1>1, <2>2, <2>3 DEF News, Here, LoopWrites, ControlWrites
  <2>9. Replaced'
    <3>1. ControlStarts' => Its(ctl.had, ctl.bot)
      BY <1>1, <2>2 DEF News, Whose, ControlStarts
    <3> QED
      BY <1>1, <2>2, <2>3, <2>4, <3>1
      DEF Replaced, LoopStarts, LoopWrites, ControlStarts, ControlWrites, News
  <2>10. Counted'
    BY <1>1, <2>2, <2>3, <2>4
    DEF News, Counted, LoopStarts, ControlStarts, LoopWrites, ControlWrites
  <2>11. DeathsAreNews'
    BY <1>1 DEF News, DeathsAreNews
  <2> QED
    BY <2>5, <2>6, <2>7, <2>8, <2>9, <2>10, <2>11 DEF News
<1> QED
  BY <1>2, <1>3

\* Its pid is written over that of the one before.
LEMMA RestartPidKeeps ==
    ASSUME IInv, News, [Next]_vars, RestartPid
    PROVE  News'
<1>0. TypeOK
  BY DEF IInv
<1>1. /\ ctl.at = "born" /\ ctl'.at = "written" /\ ctl'.new = ctl.new
      /\ ctl'.bot = ctl.bot /\ ctl'.had = ctl.had /\ ctl'.old = ctl.old
  BY <1>0, Pids DEF RestartPid, CtlType
<1>2. UNCHANGED <<counted, taken, seen, loop, state, of>>
  BY DEF RestartPid, procs, history
<1>3. ctl.bot \in Bot /\ Its(ctl.new, ctl.bot) /\ ctl.new # 0
  BY <1>0, <1>1, Pids DEF IInv, Picked, ControlPicked, Its
<1>4. \A b \in Bot : pidFile'[b] = IF b = ctl.bot THEN ctl.new ELSE pidFile[b]
  BY <1>0, Pids DEF RestartPid
<1>5. ~LoopWrites
  BY <1>1 DEF IInv, Locked, LoopHolds, ControlHolds, LoopWrites
<1>6. Stopping'
  BY <1>1 DEF Stopping
<1>7. Whose'
  BY <1>1, <1>2, <1>3, <1>4 DEF News, Whose, LoopKnows, ControlStarts, Its
<1>8. Deaths'
  BY <1>1, <1>2 DEF News, Deaths, LoopStarts, ControlStarts, Dead
<1>9. Here'
  BY <1>1, <1>2 DEF News, Here, LoopWrites, ControlWrites
<1>10. Replaced'
  BY <1>1, <1>2, <1>3, <1>4, <1>5
  DEF News, Replaced, LoopStarts, LoopWrites, ControlStarts, ControlWrites
<1>11. Counted'
  BY <1>1, <1>2, <1>4 DEF News, Counted, LoopStarts, ControlStarts, LoopWrites, ControlWrites
<1>12. DeathsAreNews'
  BY <1>2 DEF News, DeathsAreNews
<1> QED
  BY <1>6, <1>7, <1>8, <1>9, <1>10, <1>11, <1>12 DEF News

\* A death the restart notes was never noted; the loop may still hold it, but SEEN names
\* the new daemon by then.
LEMMA RestartedKeeps ==
    ASSUME IInv, News, [Next]_vars, Restarted
    PROVE  News'
<1>0. TypeOK
  BY DEF IInv
<1>1. ctl.at = "written" /\ ctl'.at = "idle" /\ ctl.bot \in Bot
  BY DEF Restarted, Idle, IInv, Picked, ControlPicked
<1>2. UNCHANGED <<pidFile, taken, loop, state, of>>
  BY DEF Restarted, procs
<1>3. \A b \in Bot : seen'[b] = IF b = ctl.bot THEN ctl.new ELSE seen[b]
  BY <1>0, Pids DEF Restarted
<1>4. Its(ctl.new, ctl.bot) /\ ctl.new \notin taken
  BY <1>1 DEF News, Here, ControlWrites, IInv, Picked, ControlPicked, Its
<1>5. ~LoopWrites
  BY <1>1 DEF IInv, Locked, LoopHolds, ControlHolds, LoopWrites
<1>6. ~ControlStarts' /\ ~ControlWrites' /\ ~LoopWrites'
  BY <1>1, <1>2, <1>5 DEF ControlStarts, ControlWrites, LoopWrites
<1>7. Stopping' /\ Replaced'
  BY <1>1, <1>2, <1>5, <1>6 DEF Stopping, Replaced, LoopStarts, LoopWrites
<1>8. Whose'
  BY <1>2, <1>3, <1>4, <1>6 DEF News, Whose, LoopKnows, Its
<1>9. Here'
  BY <1>2, <1>3, <1>4, <1>6 DEF News, Here
<1>10. CASE ~(ctl.old = 0 /\ DiedByItself(ctl.bot, ctl.had))
  <2>1. counted' = counted
    BY <1>10 DEF Restarted
  <2>2. Deaths'
    BY <1>2, <1>6, <2>1 DEF News, Deaths, Dead, LoopStarts
  <2>3. Counted'
    <3>1. \A p \in Pid : counted[p] # 0 => ctl.new # p
      BY <1>1 DEF News, Counted, ControlWrites
    <3>2. LoopStarts => loop.bot \in Bot
      BY DEF LoopStarts, IInv, Picked, LoopPicked
    <3> QED
      BY <1>2, <1>3, <1>6, <2>1, <3>1, <3>2 DEF News, Counted, LoopStarts
  <2>4. DeathsAreNews'
    BY <1>2, <2>1 DEF News, DeathsAreNews
  <2> QED
    BY <1>7, <1>8, <1>9, <2>2, <2>3, <2>4 DEF News
<1>11. CASE ctl.old = 0 /\ DiedByItself(ctl.bot, ctl.had)
  <2>1. ctl.had \in Pid /\ ctl.had # 0 /\ seen[ctl.bot] = ctl.had
    BY <1>0, <1>11, Pids, Lasts DEF DiedByItself
  <2>2. ControlStarts
    BY <1>1, <1>11, <2>1 DEF ControlStarts
  <2>3. counted[ctl.had] = 0 /\ ctl.had \notin taken /\ Dead(ctl.had)
    BY <1>1, <2>1, <2>2 DEF News, Counted, Here, Deaths
  <2>4. /\ \A q \in Pid : q # ctl.had => counted'[q] = counted[q]
        /\ counted'[ctl.had] = 1
    BY <1>0, <1>11, <2>1, <2>3, OneMore DEF Restarted
  <2>5. \A b \in Bot : pidFile[b] # ctl.had
    <3>1. pidFile[ctl.bot] # ctl.had
      BY <1>1, <2>2 DEF News, Replaced
    <3>2. \A b \in Bot : pidFile[b] = ctl.had => b = ctl.bot
      BY <2>1, <2>2 DEF News, Whose, Its
    <3> QED
      BY <3>1, <3>2
  <2>6. Deaths'
    BY <1>2, <1>6, <2>3, <2>4 DEF News, Deaths, Dead, LoopStarts
  <2>7. Counted'
    <3>1. \A p \in Pid : counted[p] # 0 => ctl.new # p
      BY <1>1 DEF News, Counted, ControlWrites
    <3>2. ctl.new # ctl.had
      BY <1>1, <2>2 DEF News, Replaced, ControlWrites
    <3>3. LoopStarts => loop.bot \in Bot
      BY DEF LoopStarts, IInv, Picked, LoopPicked
    <3>4. LoopStarts /\ loop.had = ctl.had => loop.bot = ctl.bot
      BY <2>2 DEF News, Whose, LoopKnows, LoopStarts, Its
    <3>5. ASSUME NEW p \in Pid, counted'[p] # 0
          PROVE  LoopStarts' /\ loop'.had = p => seen'[loop'.bot] # p
      BY <1>2, <1>3, <2>4, <3>1, <3>2, <3>3, <3>4, <3>5 DEF News, Counted, LoopStarts
    <3>6. ASSUME NEW p \in Pid, counted'[p] # 0
          PROVE  \A b \in Bot : pidFile'[b] # p
      BY <1>2, <2>4, <2>5, <3>6 DEF News, Counted
    <3> QED
      BY <1>6, <3>5, <3>6 DEF Counted
  <2>8. DeathsAreNews'
    BY <1>2, <2>3, <2>4 DEF News, DeathsAreNews
  <2> QED
    BY <1>7, <1>8, <1>9, <2>6, <2>7, <2>8 DEF News
<1> QED
  BY <1>10, <1>11

\* Every step keeps a counted death from being news.
LEMMA NewsStep ==
    ASSUME IInv, News, [Next]_vars
    PROVE  News'
<1>1. StillUnless
  BY StillSteps DEF News
<1> QED
  BY <1>1, StillKeeps, EndsKeeps, SawKeeps, StartKeeps, WriteKeeps, SettleKeeps, LookKeeps,
     HoldKeeps, RestartKeeps, RestartPidKeeps, RestartedKeeps DEF StillUnless

\* A death is noted once, and never that of a daemon that went with its supervisor
\* (DeathsAreNews; died_by_itself, SEEN).
THEOREM DeathsAreNoted == Spec => []DeathsAreNews
<1>1. Init => News
  BY DEF Init, News, Stopping, Whose, Deaths, Here, Replaced, Counted, DeathsAreNews, LoopKnows,
     LoopStarts, LoopWrites, ControlStarts, ControlWrites, NoLoop, Idle, Dead, Its
<1>2. IInv /\ News /\ [Next]_vars => News'
  BY NewsStep
<1>3. Spec => []News
  BY <1>1, <1>2, Inductive, PTL DEF Spec
<1>4. News => DeathsAreNews
  BY DEF News
<1> QED
  BY <1>3, <1>4, PTL
===============================================================================
