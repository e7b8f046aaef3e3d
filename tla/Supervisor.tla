------------------------------ MODULE Supervisor ------------------------------
(***************************************************************************)
(* The supervisor (src/supervisor.rs): its loop, its control thread, the   *)
(* commands beside it and the daemons, between daemons.json, the pid       *)
(* files, the stop notes and the tombstones.  Only SPAWNING is a lock; the *)
(* files are read and written by whoever comes.                            *)
(*                                                                         *)
(* Unix: a daemon that ended is a zombie until its supervisor reaps it.    *)
(* Process ids are not used again.  A token is its number; 0 is no token,  *)
(* no process, no entry.                                                   *)
(***************************************************************************)
EXTENDS Integers, FiniteSets

CONSTANTS
    Bot,
    None,         \* no bot
    MaxPid,       \* bound: daemons ever started
    MaxToken,     \* bound: tokens of a bot
    MaxTrouble    \* bound: commands, crashes, revocations, failed starts

ASSUME SupervisorAssumption ==
    /\ None \notin Bot
    /\ MaxPid \in Nat \ {0} /\ MaxToken \in Nat \ {0} /\ MaxTrouble \in Nat

Pid      == 1 .. MaxPid
Token    == 1 .. MaxToken
Registry == [Bot -> 0 .. MaxToken]

VARIABLES
    \* files
    registry,     \* daemons.json: the token of each bot (0: not in it)
    pidFile,      \* the process each pid file names (0: none)
    stopping,     \* the process each stop note names (0: none)
    tombs,        \* the bots with a tombstone
    \* the daemons
    state,        \* "unborn" | "running" | "ending" (asked to) | "zombie" | "gone"
    of, token,    \* whose daemon it is, and on which token
    child,        \* the supervisor's child
    \* the api
    valid,        \* the token each bot's daemon may use (0: bot deleted)
    notice,       \* "none" | "provision" | "rotation": left for this machine
    \* the supervisor's process
    lock,         \* SPAWNING: "free" | "loop" | "control"
    seen,         \* SEEN (0: none)
    loop,         \* the loop: where it stands, and what it holds
    ctl,          \* a restart on the control thread
    \* a command
    cmd,
    \* what came of it (history)
    counted,      \* how often the death of a process was noted
    taken,        \* processes that ended with their supervisor
    lost,         \* bots of which a running daemon's pid file went, or never came
    trouble       \* how much of MaxTrouble is spent

files   == <<registry, pidFile, stopping, tombs>>
procs   == <<state, of, token, child>>
api     == <<valid, notice>>
history == <<counted, taken, lost>>
vars    == <<files, procs, api, lock, seen, loop, ctl, cmd, history, trouble>>

\* kill(pid, 0) answers for a zombie; pid_running looks closer.
Alive(p)   == p # 0 /\ state[p] \in {"running", "ending", "zombie"}
Running(p) == p # 0 /\ state[p] \in {"running", "ending"}
Unborn     == {p \in Pid : state[p] = "unborn"}
Daemons(b) == {p \in Pid : state[p] = "running" /\ of[p] = b}

Idle    == [at |-> "idle", bot |-> None, token |-> 0, had |-> 0, old |-> 0, new |-> 0]
NoCmd   == [at |-> "idle", kind |-> "none", bot |-> None, cfg |-> [b \in Bot |-> 0], pid |-> 0]
NoLoop  == [at |-> "down", cfg |-> [b \in Bot |-> 0], left |-> {}, bot |-> None,
            had |-> 0, new |-> 0, stops |-> {}, victim |-> 0, next |-> "none", back |-> "none"]

Spend == trouble < MaxTrouble /\ trouble' = trouble + 1

Init ==
    /\ \E known \in SUBSET Bot :
        /\ registry = [b \in Bot |-> IF b \in known THEN 1 ELSE 0]
        /\ notice = [b \in Bot |-> IF b \in known THEN "none" ELSE "provision"]
    /\ valid = [b \in Bot |-> 1]
    /\ pidFile = [b \in Bot |-> 0] /\ stopping = [b \in Bot |-> 0] /\ tombs = {}
    /\ state = [p \in Pid |-> "unborn"] /\ of = [p \in Pid |-> None]
    /\ token = [p \in Pid |-> 0] /\ child = [p \in Pid |-> FALSE]
    /\ lock = "free" /\ seen = [b \in Bot |-> 0]
    /\ loop = NoLoop /\ ctl = Idle /\ cmd = NoCmd
    /\ counted = [p \in Pid |-> 0] /\ taken = {} /\ lost = {}
    /\ trouble = 0

-----------------------------------------------------------------------------
\* The daemons, and the api.

Ended(p) == IF child[p] THEN "zombie" ELSE "gone"

\* A daemon crashes.
Die(p) ==
    /\ state[p] = "running" /\ Spend
    /\ state' = [state EXCEPT ![p] = Ended(p)]
    /\ UNCHANGED <<files, of, token, child, api, lock, seen, loop, ctl, cmd, history>>

\* One asked to stop is done stopping.
End(p) ==
    /\ state[p] = "ending"
    /\ state' = [state EXCEPT ![p] = Ended(p)]
    /\ UNCHANGED <<files, of, token, child, api, lock, seen, loop, ctl, cmd, history, trouble>>

\* Its token was refused too often, or the bot is deleted (deprovision_and_exit):
\* it leaves a tombstone if the entry carries its own token.
Refused(p) ==
    /\ state[p] = "running" /\ token[p] # valid[of[p]]
    /\ tombs' = IF registry[of[p]] = token[p] THEN tombs \cup {of[p]} ELSE tombs
    /\ state' = [state EXCEPT ![p] = Ended(p)]
    /\ UNCHANGED <<registry, pidFile, stopping, of, token, child, api, lock, seen, loop,
                   ctl, cmd, history, trouble>>

\* The owner changes a bot's token ...
Revoke(b) ==
    /\ valid[b] \in 1 .. MaxToken - 1 /\ Spend
    /\ valid' = [valid EXCEPT ![b] = @ + 1]
    /\ notice' = [notice EXCEPT ![b] = IF @ = "none" THEN "rotation" ELSE @]
    /\ UNCHANGED <<files, procs, lock, seen, loop, ctl, cmd, history>>

\* ... or deletes it.
Delete(b) ==
    /\ valid[b] # 0 /\ Spend
    /\ valid' = [valid EXCEPT ![b] = 0]
    /\ notice' = [notice EXCEPT ![b] = "none"]
    /\ UNCHANGED <<files, procs, lock, seen, loop, ctl, cmd, history>>

-----------------------------------------------------------------------------
\* The supervisor's process.

Begin ==
    /\ loop.at = "down"
    /\ loop' = [NoLoop EXCEPT !.at = "top"]
    /\ UNCHANGED <<files, procs, api, lock, seen, ctl, cmd, history, trouble>>

\* A daemon spawned whose pid is not written yet.
Unwritten == {b \in Bot : \/ loop.at = "born" /\ loop.bot = b
                          \/ ctl.at = "born" /\ ctl.bot = b}

\* It ends, and with it (systemd) every daemon it started or (launchd) none.
SupervisorEnds ==
    /\ loop.at # "down" /\ Spend
    /\ \E with \in {{}, {p \in Pid : child[p] /\ Running(p)}} :
        /\ state' = [p \in Pid |->
                        IF p \in with \/ (child[p] /\ state[p] = "zombie")
                          THEN "gone" ELSE state[p]]
        /\ taken' = taken \cup with
    /\ child' = [p \in Pid |-> FALSE]
    /\ lost' = lost \cup Unwritten
    /\ lock' = "free" /\ seen' = [b \in Bot |-> 0] /\ loop' = NoLoop /\ ctl' = Idle
    /\ UNCHANGED <<files, of, token, api, cmd, counted>>

\* reap: the supervisor's zombies are gone.
Reaped == [p \in Pid |-> IF child[p] /\ state[p] = "zombie" THEN "gone" ELSE state[p]]

\* cmd.spawn() for bot b on token t.
Spawned(p, b, t) ==
    /\ p \in Unborn /\ \A q \in Unborn : p <= q
    /\ state' = [state EXCEPT ![p] = "running"]
    /\ of' = [of EXCEPT ![p] = b]
    /\ token' = [token EXCEPT ![p] = t]
    /\ child' = [child EXCEPT ![p] = TRUE]

\* end_daemon: SIGTERM.
Signalled(p) == [state EXCEPT ![p] = IF @ = "running" THEN "ending" ELSE @]

\* Removing b's pid file, by one who believes that it names p.
Removed(b, p) ==
    /\ pidFile' = [pidFile EXCEPT ![b] = 0]
    /\ lost' = IF pidFile[b] # p /\ Running(pidFile[b]) THEN lost \cup {b} ELSE lost

\* Mutant of DiedByItself: a pid file is enough.
DiedUnseen(b, had) == had # 0 /\ stopping[b] # had

\* died_by_itself: seen running by this supervisor, and no command stopped it ...
DiedByItself(b, had) == had # 0 /\ seen[b] = had /\ stopping[b] # had

\* ... and the note, once looked at, is taken.
TakeNote(b, had) == IF had # 0 /\ seen[b] = had THEN [stopping EXCEPT ![b] = 0] ELSE stopping

-----------------------------------------------------------------------------
\* The loop.

NextBot == loop' = [loop EXCEPT !.at = "bots", !.bot = None, !.had = 0, !.new = 0]

\* Mutant of Top: nothing is reaped.
TopUnreaped ==
    /\ loop.at = "top"
    /\ loop' = [loop EXCEPT !.at = "load"]
    /\ UNCHANGED <<files, procs, api, lock, seen, ctl, cmd, history, trouble>>

\* A pass begins: reap, and the sweep reads daemons.json and takes the tombstones.
Top ==
    /\ loop.at = "top"
    /\ state' = Reaped
    /\ LET dropped == {b \in tombs : registry[b] # 0} IN
        /\ tombs' = tombs \ dropped
        /\ loop' = IF dropped = {} THEN [loop EXCEPT !.at = "load"]
                   ELSE [loop EXCEPT !.at = "sweep", !.stops = dropped,
                           !.cfg = [b \in Bot |-> IF b \in dropped THEN 0 ELSE registry[b]]]
    /\ UNCHANGED <<registry, pidFile, stopping, of, token, child, api, lock, seen, ctl, cmd,
                   history, trouble>>

\* The sweep stores what it read less the dropped ones, and stops them.
SweepStore ==
    /\ loop.at = "sweep"
    /\ registry' = loop.cfg
    /\ loop' = [loop EXCEPT !.at = "stop", !.next = "load"]
    /\ UNCHANGED <<pidFile, stopping, tombs, procs, api, lock, seen, ctl, cmd, history, trouble>>

\* stop_one: the process the pid file names is signalled ...
StopSignal(b) ==
    /\ loop.at = "stop" /\ b \in loop.stops
    /\ IF pidFile[b] = 0
         THEN loop' = [loop EXCEPT !.stops = @ \ {b}] /\ UNCHANGED state
         ELSE /\ state' = Signalled(pidFile[b])
              /\ loop' = [loop EXCEPT !.at = "unlink", !.bot = b, !.victim = pidFile[b]]
    /\ UNCHANGED <<files, of, token, child, api, lock, seen, ctl, cmd, history, trouble>>

\* ... and the file removed, whatever it names by then.
StopUnlink ==
    /\ loop.at = "unlink"
    /\ Removed(loop.bot, loop.victim)
    /\ loop' = [loop EXCEPT !.at = "stop", !.stops = @ \ {loop.bot}, !.bot = None, !.victim = 0]
    /\ UNCHANGED <<registry, stopping, tombs, procs, api, lock, seen, ctl, cmd, counted, taken,
                   trouble>>

\* Mutant of Stopped: it goes on where a move began.
StoppedBack ==
    /\ loop.at = "stop" /\ loop.stops = {}
    /\ loop' = [loop EXCEPT !.at = loop.back, !.next = "none"]
    /\ UNCHANGED <<files, procs, api, lock, seen, ctl, cmd, history, trouble>>

Stopped ==
    /\ loop.at = "stop" /\ loop.stops = {}
    /\ loop' = [loop EXCEPT !.at = loop.next, !.next = "none"]
    /\ UNCHANGED <<files, procs, api, lock, seen, ctl, cmd, history, trouble>>

\* The list of this pass; a command may have asked to move on (MOVING).
Load ==
    /\ loop.at = "load"
    /\ \/ /\ loop' = [loop EXCEPT !.at = "bots", !.cfg = registry,
                        !.left = {b \in Bot : registry[b] # 0}]
          /\ UNCHANGED trouble
       \/ /\ Spend
          /\ loop' = [loop EXCEPT !.at = "drain", !.cfg = registry, !.back = "bots",
                        !.left = {b \in Bot : registry[b] # 0}]
    /\ UNCHANGED <<files, procs, api, lock, seen, ctl, cmd, history>>

\* An update it installed itself moves it on too, after the bots.
Checked ==
    /\ loop.at = "check"
    /\ \/ loop' = [NoLoop EXCEPT !.at = "poll"] /\ UNCHANGED trouble
       \/ loop' = [loop EXCEPT !.at = "drain", !.back = "poll"] /\ Spend
    /\ UNCHANGED <<files, procs, api, lock, seen, ctl, cmd, history>>

\* move_on, the replies written or five minutes over: every daemon of the list
\* the pass began with is stopped ...
MoveOn ==
    /\ loop.at = "drain" /\ lock = "free"
    /\ lock' = "loop"
    /\ loop' = [loop EXCEPT !.at = "stop", !.next = "exec",
                  !.stops = {b \in Bot : loop.cfg[b] # 0}]
    /\ UNCHANGED <<files, procs, api, seen, ctl, cmd, history, trouble>>

\* ... and it is executed anew, in the same process, or carries on.
Exec ==
    /\ loop.at = "exec"
    /\ lock' = "free"
    /\ \/ /\ loop' = [NoLoop EXCEPT !.at = "top"]
          /\ seen' = [b \in Bot |-> 0] /\ ctl' = Idle
          /\ UNCHANGED trouble
       \/ /\ Spend /\ loop' = [loop EXCEPT !.at = loop.back, !.back = "none"]
          /\ UNCHANGED <<seen, ctl>>
    /\ UNCHANGED <<files, procs, api, cmd, history>>

\* A bot of the list: its daemon is there ...
Look(b) ==
    /\ loop.at = "bots" /\ b \in loop.left
    /\ loop' = [loop EXCEPT !.at = IF Alive(pidFile[b]) THEN "saw" ELSE "want",
                  !.left = @ \ {b}, !.bot = b, !.had = pidFile[b]]
    /\ UNCHANGED <<files, procs, api, lock, seen, ctl, cmd, history, trouble>>

Saw ==
    /\ loop.at = "saw"
    /\ seen' = [seen EXCEPT ![loop.bot] = loop.had]
    /\ NextBot
    /\ UNCHANGED <<files, procs, api, lock, ctl, cmd, history, trouble>>

\* ... or is started, on the token of the list, with SPAWNING held and unless
\* it is there by now (start_one).
StartOne ==
    /\ loop.at = "want" /\ lock = "free"
    /\ \/ /\ Alive(pidFile[loop.bot])
          /\ NextBot
          /\ UNCHANGED <<procs, lock, trouble>>
       \/ /\ ~Alive(pidFile[loop.bot]) /\ Spend
          /\ NextBot
          /\ UNCHANGED <<procs, lock>>
       \/ /\ ~Alive(pidFile[loop.bot])
          /\ \E p \in Pid : /\ Spawned(p, loop.bot, loop.cfg[loop.bot])
                            /\ loop' = [loop EXCEPT !.at = "born", !.new = p]
          /\ lock' = "loop"
          /\ UNCHANGED trouble
    /\ UNCHANGED <<files, api, seen, ctl, cmd, history>>

WritePid ==
    /\ loop.at = "born"
    /\ pidFile' = [pidFile EXCEPT ![loop.bot] = loop.new]
    /\ loop' = [loop EXCEPT !.at = "written"]
    /\ UNCHANGED <<registry, stopping, tombs, procs, api, lock, seen, ctl, cmd, history, trouble>>

\* Did the one before die by itself?
Settle ==
    /\ loop.at = "written"
    /\ counted' = IF DiedByItself(loop.bot, loop.had)
                    THEN [counted EXCEPT ![loop.had] = @ + 1] ELSE counted
    /\ stopping' = TakeNote(loop.bot, loop.had)
    /\ seen' = [seen EXCEPT ![loop.bot] = loop.new]
    /\ lock' = "free"
    /\ NextBot
    /\ UNCHANGED <<registry, pidFile, tombs, procs, api, ctl, cmd, taken, lost, trouble>>

PassDone ==
    /\ loop.at = "bots" /\ loop.left = {}
    /\ loop' = [loop EXCEPT !.at = "check"]
    /\ UNCHANGED <<files, procs, api, lock, seen, ctl, cmd, history, trouble>>

\* poll_provisions: a bot is provisioned here (wire), or its token was changed
\* (take_rotation: nothing, if this machine does not run it).
Claim(b) ==
    /\ loop.at = "poll" /\ notice[b] # "none"
    /\ notice' = [notice EXCEPT ![b] = "none"]
    /\ loop' = IF notice[b] = "rotation" /\ registry[b] = 0 THEN loop
               ELSE [loop EXCEPT !.at = "save", !.bot = b,
                       !.stops = IF notice[b] = "rotation" THEN {b} ELSE {},
                       !.cfg = [registry EXCEPT ![b] = valid[b]]]
    /\ UNCHANGED <<files, procs, valid, lock, seen, ctl, cmd, history, trouble>>

Save ==
    /\ loop.at = "save"
    /\ registry' = loop.cfg
    /\ loop' = [NoLoop EXCEPT !.at = "stop", !.next = "poll", !.stops = loop.stops]
    /\ UNCHANGED <<pidFile, stopping, tombs, procs, api, lock, seen, ctl, cmd, counted, taken,
                   lost, trouble>>

\* The poll is over (or failed), and ten seconds pass.
Polled ==
    /\ loop.at = "poll"
    /\ loop' = [NoLoop EXCEPT !.at = "top"]
    /\ UNCHANGED <<files, procs, api, lock, seen, ctl, cmd, history, trouble>>

-----------------------------------------------------------------------------
\* The control thread: restart_bot.

\* daemons.json is read before SPAWNING is had.
Ask(b) ==
    /\ loop.at \notin {"down", "exec"} /\ ctl.at = "idle" /\ registry[b] # 0 /\ Spend
    /\ ctl' = [Idle EXCEPT !.at = "asked", !.bot = b, !.token = registry[b]]
    /\ UNCHANGED <<files, procs, api, lock, seen, loop, cmd, history>>

\* Mutant of Hold: SPAWNING is not taken.
HoldUnlocked ==
    /\ ctl.at = "asked"
    /\ state' = Reaped
    /\ LET had == pidFile[ctl.bot]
           up  == had # 0 /\ state[had] \in {"running", "ending"} IN
        ctl' = [ctl EXCEPT !.at = IF up THEN "note" ELSE "start", !.had = had,
                           !.old = IF up THEN had ELSE 0]
    /\ UNCHANGED <<files, of, token, child, api, lock, seen, loop, cmd, history, trouble>>

Hold ==
    /\ ctl.at = "asked" /\ lock = "free"
    /\ lock' = "control"
    /\ state' = Reaped
    /\ LET had == pidFile[ctl.bot] IN
        ctl' = [ctl EXCEPT !.at = IF Running(had) THEN "note" ELSE "start", !.had = had,
                           !.old = IF Running(had) THEN had ELSE 0]
    /\ UNCHANGED <<files, of, token, child, api, seen, loop, cmd, history, trouble>>

\* stop_all_confirmed_at: the stop is noted, then asked for ...
Note ==
    /\ ctl.at = "note"
    /\ stopping' = [stopping EXCEPT ![ctl.bot] = ctl.old]
    /\ ctl' = [ctl EXCEPT !.at = "signal"]
    /\ UNCHANGED <<registry, pidFile, tombs, procs, api, lock, seen, loop, cmd, history, trouble>>

Signal ==
    /\ ctl.at = "signal"
    /\ state' = Signalled(ctl.old)
    /\ ctl' = [ctl EXCEPT !.at = "wait"]
    /\ UNCHANGED <<files, of, token, child, api, lock, seen, loop, cmd, history, trouble>>

\* ... it is gone, its file removed and the note taken, or it takes too long.
Confirm ==
    /\ ctl.at = "wait"
    /\ \/ /\ ~Running(ctl.old)
          /\ pidFile' = IF pidFile[ctl.bot] = ctl.old THEN [pidFile EXCEPT ![ctl.bot] = 0]
                        ELSE pidFile
          /\ stopping' = [stopping EXCEPT ![ctl.bot] = 0]
          /\ ctl' = [ctl EXCEPT !.at = "start"]
          /\ UNCHANGED lock
       \/ /\ Running(ctl.old)
          /\ ctl' = Idle /\ lock' = "free"
          /\ UNCHANGED <<pidFile, stopping>>
    /\ UNCHANGED <<registry, tombs, procs, api, seen, loop, cmd, history, trouble>>

\* Started again, on the token read at first, or not (nothing else starts it
\* meanwhile: what answers there is a zombie).
Restart ==
    /\ ctl.at = "start"
    /\ \/ /\ Alive(pidFile[ctl.bot])
          /\ ctl' = Idle /\ lock' = "free"
          /\ UNCHANGED <<procs, trouble>>
       \/ /\ ~Alive(pidFile[ctl.bot]) /\ Spend
          /\ ctl' = Idle /\ lock' = "free"
          /\ UNCHANGED procs
       \/ /\ ~Alive(pidFile[ctl.bot])
          /\ \E p \in Pid : /\ Spawned(p, ctl.bot, ctl.token)
                            /\ ctl' = [ctl EXCEPT !.at = "born", !.new = p]
          /\ UNCHANGED <<lock, trouble>>
    /\ UNCHANGED <<files, api, seen, loop, cmd, history>>

RestartPid ==
    /\ ctl.at = "born"
    /\ pidFile' = [pidFile EXCEPT ![ctl.bot] = ctl.new]
    /\ ctl' = [ctl EXCEPT !.at = "written"]
    /\ UNCHANGED <<registry, stopping, tombs, procs, api, lock, seen, loop, cmd, history, trouble>>

\* One that was down before anyone asked died all the same.
Restarted ==
    /\ ctl.at = "written"
    /\ LET looks == ctl.old = 0 IN
        /\ counted' = IF looks /\ DiedByItself(ctl.bot, ctl.had)
                        THEN [counted EXCEPT ![ctl.had] = @ + 1] ELSE counted
        /\ stopping' = IF looks THEN TakeNote(ctl.bot, ctl.had) ELSE stopping
    /\ seen' = [seen EXCEPT ![ctl.bot] = ctl.new]
    /\ lock' = "free" /\ ctl' = Idle
    /\ UNCHANGED <<registry, pidFile, tombs, procs, api, loop, cmd, taken, lost, trouble>>

-----------------------------------------------------------------------------
\* The commands, one at a time: `rm`, `down` of a bot, `add`.

Command(kind, b) ==
    /\ cmd.at = "idle" /\ Spend
    /\ kind # "add" => registry[b] # 0
    /\ kind = "add" => valid[b] # 0
    /\ cmd' = [at   |-> IF kind = "down" THEN "read" ELSE "store",
               kind |-> kind, bot |-> b, pid |-> 0,
               cfg  |-> CASE kind = "rm"  -> [registry EXCEPT ![b] = 0]
                          [] kind = "add" -> [registry EXCEPT ![b] = valid[b]]
                          [] OTHER        -> NoCmd.cfg]
    /\ UNCHANGED <<files, procs, api, lock, seen, loop, ctl, history>>

CommandStore ==
    /\ cmd.at = "store"
    /\ registry' = cmd.cfg
    /\ cmd' = IF cmd.kind = "add" THEN NoCmd ELSE [cmd EXCEPT !.at = "read"]
    /\ UNCHANGED <<pidFile, stopping, tombs, procs, api, lock, seen, loop, ctl, counted, taken,
                   lost, trouble>>

\* The command is over, and reports success.
Reported == cmd' = NoCmd

\* stop_confirmed: not running; or noted ...
CommandRead ==
    /\ cmd.at = "read"
    /\ \/ ~Running(pidFile[cmd.bot]) /\ Reported
       \/ /\ Running(pidFile[cmd.bot])
          /\ cmd' = [cmd EXCEPT !.at = "note", !.pid = pidFile[cmd.bot]]
    /\ UNCHANGED <<files, procs, api, lock, seen, loop, ctl, counted, taken, lost, trouble>>

CommandNote ==
    /\ cmd.at = "note"
    /\ stopping' = [stopping EXCEPT ![cmd.bot] = cmd.pid]
    /\ cmd' = [cmd EXCEPT !.at = "signal"]
    /\ UNCHANGED <<registry, pidFile, tombs, procs, api, lock, seen, loop, ctl, history, trouble>>

\* ... asked to stop ...
CommandSignal ==
    /\ cmd.at = "signal"
    /\ state' = Signalled(cmd.pid)
    /\ cmd' = [cmd EXCEPT !.at = "wait"]
    /\ UNCHANGED <<files, of, token, child, api, lock, seen, loop, ctl, history, trouble>>

\* ... gone, or not in time; its pid file is removed if it still names it.
CommandWait ==
    /\ cmd.at = "wait"
    /\ \/ /\ Running(cmd.pid)
          /\ cmd' = NoCmd
       \/ ~Running(cmd.pid) /\ pidFile[cmd.bot] # cmd.pid /\ Reported
       \/ /\ ~Running(cmd.pid) /\ pidFile[cmd.bot] = cmd.pid
          /\ cmd' = [cmd EXCEPT !.at = "unlink"]
    /\ UNCHANGED <<files, procs, api, lock, seen, loop, ctl, counted, taken, lost, trouble>>

CommandUnlink ==
    /\ cmd.at = "unlink"
    /\ Removed(cmd.bot, cmd.pid)
    /\ Reported
    /\ UNCHANGED <<registry, stopping, tombs, procs, api, lock, seen, loop, ctl, counted, taken,
                   trouble>>

-----------------------------------------------------------------------------
LoopNext ==
    \/ Top \/ SweepStore \/ StopUnlink \/ Stopped \/ Load \/ Checked \/ MoveOn \/ Exec
    \/ Saw \/ StartOne \/ WritePid \/ Settle \/ PassDone \/ Save \/ Polled
    \/ \E b \in Bot : StopSignal(b) \/ Look(b) \/ Claim(b)

ControlNext == Hold \/ Note \/ Signal \/ Confirm \/ Restart \/ RestartPid \/ Restarted

CommandNext ==
    CommandStore \/ CommandRead \/ CommandNote \/ CommandSignal \/ CommandWait \/ CommandUnlink

Next ==
    \/ Begin \/ SupervisorEnds \/ LoopNext \/ ControlNext \/ CommandNext
    \/ \E p \in Pid : Die(p) \/ End(p) \/ Refused(p)
    \/ \E b \in Bot : \/ Revoke(b) \/ Delete(b) \/ Ask(b)
                      \/ \E kind \in {"rm", "down", "add"} : Command(kind, b)

Spec == Init /\ [][Next]_vars

\* The service manager starts the supervisor; its threads run; a daemon asked to
\* stop stops, and one whose token is refused leaves.
FairSpec ==
    /\ Spec
    /\ WF_vars(Begin) /\ WF_vars(LoopNext) /\ WF_vars(ControlNext)
    /\ \A p \in Pid : WF_vars(End(p)) /\ WF_vars(Refused(p))

-----------------------------------------------------------------------------
LoopType ==
    [at : {"down", "top", "sweep", "stop", "unlink", "load", "drain", "exec", "bots", "saw",
           "want", "born", "written", "check", "poll", "save"},
     cfg : Registry, left : SUBSET Bot, bot : Bot \cup {None}, had : 0 .. MaxPid,
     new : 0 .. MaxPid, stops : SUBSET Bot, victim : 0 .. MaxPid,
     next : {"none", "load", "exec", "poll"}, back : {"none", "bots", "poll"}]

CtlType ==
    [at : {"idle", "asked", "note", "signal", "wait", "start", "born", "written"},
     bot : Bot \cup {None}, token : 0 .. MaxToken, had : 0 .. MaxPid, old : 0 .. MaxPid,
     new : 0 .. MaxPid]

CmdType ==
    [at : {"idle", "store", "read", "note", "signal", "wait", "unlink"},
     kind : {"none", "rm", "down", "add"}, bot : Bot \cup {None}, cfg : Registry,
     pid : 0 .. MaxPid]

FilesType ==
    /\ registry \in Registry /\ tombs \subseteq Bot
    /\ pidFile \in [Bot -> 0 .. MaxPid] /\ stopping \in [Bot -> 0 .. MaxPid]

DaemonsType ==
    /\ state \in [Pid -> {"unborn", "running", "ending", "zombie", "gone"}]
    /\ of \in [Pid -> Bot \cup {None}] /\ token \in [Pid -> 0 .. MaxToken]
    /\ child \in [Pid -> BOOLEAN]

\* Every variable keeps its type.
TypeOK ==
    /\ FilesType /\ DaemonsType
    /\ loop \in LoopType /\ ctl \in CtlType /\ cmd \in CmdType
    /\ lock \in {"free", "loop", "control"} /\ seen \in [Bot -> 0 .. MaxPid]
    /\ valid \in [Bot -> 0 .. MaxToken]
    /\ notice \in [Bot -> {"none", "provision", "rotation"}]
    /\ counted \in [Pid -> Nat] /\ taken \subseteq Pid
    /\ lost \subseteq Bot
    /\ trouble \in 0 .. MaxTrouble

\* No second daemon of a bot is started beside one nobody asked to stop, by the
\* loop, a restart and commands at once ("so none starts one another has just
\* stopped, or a second of one just started", SPAWNING) - as long as no running
\* daemon's pid file was removed by one who took it for another's, and no
\* supervisor died before it wrote one.
OneDaemon ==
    \A b \in Bot \ lost : \A p, q \in Daemons(b) : p = q

\* A death is noted once, by the loop or by the restart that came upon it, and
\* never that of a daemon that went with its supervisor (died_by_itself, SEEN).
DeathsAreNews ==
    \A p \in Pid : counted[p] <= 1 /\ (p \in taken => counted[p] = 0)

\* A bot in daemons.json gets a daemon, on the token written there or the one the
\* api accepts, whatever dies and whoever restarts it, or leaves daemons.json.
Kept ==
    \A b \in Bot :
        registry[b] # 0 ~>
            \/ registry[b] = 0
            \/ \E p \in Daemons(b) : token[p] \in {registry[b], valid[b]}

==============================================================================
