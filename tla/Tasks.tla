-------------------------------- MODULE Tasks ---------------------------------
(***************************************************************************)
(* Background tasks (src/bgtasks.rs, bash_hook.rs, the watcher of agent.rs): *)
(* one surface of one bot, its turns one after another, the tasks they      *)
(* detach, the registry those are filed in, and the watcher that brings     *)
(* their ends to the agent: into the mailbox of a running turn, or in an    *)
(* update turn of its own.                                                  *)
(*                                                                         *)
(* A turn's number names its mailbox file, which outlives the process.     *)
(***************************************************************************)
EXTENDS Integers, FiniteSets

CONSTANTS
    Task,
    MaxTurn,      \* bound: turns
    MaxRound,     \* rounds of a turn: follow-ups of what came too late
    MaxTries,     \* Retry::TRIES
    MaxTrouble    \* bound: turns failed or stopped, words said, crashes

ASSUME TasksAssumption ==
    MaxTurn \in Nat \ {0} /\ MaxRound \in Nat \ {0} /\ MaxTries \in Nat \ {0} /\ MaxTrouble \in Nat

Turn == 1 .. MaxTurn

VARIABLES
    life,         \* of each task: "none" | "running" | "ended"
    reg,          \* its registration: "none" | "filed" | "retired"
    handed,       \* Ledger::handed: the turn whose mailbox has it (0: none)
    box, words,   \* mailboxes: the tasks an update in it tells of; someone's words
    turn,         \* the turn of this surface
    turns,        \* how many there were
    up,           \* the daemon's process is there
    watching,     \* there is a watcher for this surface
    fresh,        \* a turn has ended here since it looked
    w,            \* the watcher: where it stands, the tasks it holds
    tries,        \* updates of it that went nowhere (the watcher's memory)
    resting,      \* those not to be tried again yet
    \* what came of it (history)
    told,         \* how often the agent was told of its end
    excused,      \* how often that was lost on it, or may have been
    slipped,      \* tasks whose update was lost with a mailbox
    unheld,       \* tasks told of and given back all the same
    trouble       \* how much of MaxTrouble is spent

registry == <<life, reg, handed>>
mail     == <<box, words>>
watcher  == <<watching, fresh, w, tries, resting>>
history  == <<told, excused, slipped, unheld>>
vars     == <<registry, mail, turn, turns, up, watcher, history, trouble>>

Spend == trouble < MaxTrouble /\ trouble' = trouble + 1

\* Where the turn stands: "none", "opening", "running", "dropped" (its handle is
\* gone, its mailbox open), "drained"; what it is told first; whether the watcher
\* waits for it; how it ended, and what it leaves to a follow-up.
NoTurn == [at |-> "none", id |-> 0, brings |-> {}, update |-> FALSE, round |-> 0,
           clean |-> FALSE, landed |-> FALSE, left |-> {}, more |-> FALSE]

\* Where the watcher stands, the tasks it holds, the registry's `handed` as it
\* was read, and the mailbox it put them in.
NoHands == [t \in Task |-> 0]
Watch(at, tasks) == [at |-> at, tasks |-> tasks, read |-> NoHands, mailbox |-> 0, wait |-> FALSE]
NoWatch == Watch("none", {})

Filed      == {t \in Task : reg[t] = "filed"}
Open(i)    == turn.at # "none" /\ turn.id = i
More(f, S) == [t \in Task |-> IF t \in S THEN f[t] + 1 ELSE f[t]]
Set(f, S, x) == [t \in Task |-> IF t \in S THEN x ELSE f[t]]

Init ==
    /\ life = [t \in Task |-> "none"] /\ reg = [t \in Task |-> "none"]
    /\ handed = [t \in Task |-> 0]
    /\ box = [i \in Turn |-> {}] /\ words = [i \in Turn |-> FALSE]
    /\ turn = NoTurn /\ turns = 0 /\ up = TRUE
    /\ watching = FALSE /\ fresh = FALSE /\ w = NoWatch
    /\ tries = [t \in Task |-> 0] /\ resting = {}
    /\ told = [t \in Task |-> 0] /\ excused = [t \in Task |-> 0] /\ slipped = {} /\ unheld = {}
    /\ trouble = 0

-----------------------------------------------------------------------------
\* The tasks.

\* bash_hook: a turn's background Bash is detached and filed.
Detach(t) ==
    /\ turn.at = "running" /\ life[t] = "none"
    /\ life' = [life EXCEPT ![t] = "running"]
    /\ reg' = [reg EXCEPT ![t] = "filed"]
    /\ UNCHANGED <<handed, mail, turn, turns, up, watcher, history, trouble>>

\* It ends, with a receipt or (killed outright) without.
End(t) ==
    /\ life[t] = "running"
    /\ life' = [life EXCEPT ![t] = "ended"]
    /\ UNCHANGED <<reg, handed, mail, turn, turns, up, watcher, history, trouble>>

-----------------------------------------------------------------------------
\* The turns of the surface.

Opened(brings, update, round, landed) ==
    /\ turns < MaxTurn
    /\ turns' = turns + 1
    /\ turn' = [NoTurn EXCEPT !.at = "opening", !.id = turns + 1, !.brings = brings,
                              !.update = update, !.round = round, !.landed = landed]

\* A message starts one.
Message ==
    /\ up /\ turn.at = "none" /\ Spend
    /\ Opened({}, FALSE, 1, FALSE)
    /\ UNCHANGED <<registry, mail, up, watcher, history>>

\* Its agent has the prompt, with the update it brings, if any.
Prompt ==
    /\ turn.at = "opening"
    /\ turn' = [turn EXCEPT !.at = "running"]
    /\ told' = More(told, turn.brings)
    /\ UNCHANGED <<registry, mail, turns, up, watcher, excused, slipped, unheld, trouble>>

\* Someone speaks into it.
Say ==
    /\ turn.at = "running" /\ ~words[turn.id] /\ Spend
    /\ words' = [words EXCEPT ![turn.id] = TRUE]
    /\ UNCHANGED <<registry, box, turn, turns, up, watcher, history>>

\* steer_hook: the mailbox is taken, and its words put before the agent.
Hook ==
    /\ turn.at = "running" /\ (box[turn.id] # {} \/ words[turn.id])
    /\ told' = More(told, box[turn.id])
    /\ box' = [box EXCEPT ![turn.id] = {}]
    /\ words' = [words EXCEPT ![turn.id] = FALSE]
    /\ UNCHANGED <<registry, turn, turns, up, watcher, excused, slipped, unheld, trouble>>

\* It ends (drop_turn): cleanly, though perhaps with nothing to show, or it fails
\* or is stopped, perhaps before its prompt.  Stopped, its update counts as heard;
\* what a follow-up should have brought is lost if it had no prompt.
Drop ==
    /\ \E how \in {"clean", "empty", "failed", "stopped"} :
        /\ turn.at = "running" \/ (turn.at = "opening" /\ how \in {"failed", "stopped"})
        /\ IF how = "clean" THEN UNCHANGED trouble ELSE Spend
        /\ turn' = [turn EXCEPT !.at = "dropped", !.clean = how \in {"clean", "empty"},
                       !.landed = @ \/ (turn.round = 1 /\ how \in {"clean", "stopped"})]
        /\ excused' = IF turn.at = "running" /\ how \in {"empty", "failed"}
                        THEN More(excused, turn.brings) ELSE excused
        /\ slipped' = IF turn.at = "opening" /\ (turn.round > 1 \/ how = "stopped")
                        THEN slipped \cup turn.brings ELSE slipped
    /\ UNCHANGED <<registry, mail, turns, up, watcher, told, unheld>>

\* Mutant of Drain: updates nobody read are not given back.
DrainKept ==
    /\ turn.at = "dropped"
    /\ LET i == turn.id IN
        /\ turn' = [turn EXCEPT !.at = "drained", !.more = words[i] /\ turn.round < MaxRound,
                      !.left = IF words[i] /\ turn.round < MaxRound THEN box[i] ELSE {}]
        /\ box' = [box EXCEPT ![i] = {}] /\ words' = [words EXCEPT ![i] = FALSE]
        /\ UNCHANGED <<handed, slipped, unheld>>
    /\ UNCHANGED <<life, reg, turns, up, watcher, told, excused, trouble>>

\* The last drain: with someone's words in it, all of it becomes a follow-up
\* (none after the last round); updates alone are given back, with whatever else
\* this mailbox was handed (unhand).
Drain ==
    /\ turn.at = "dropped"
    /\ LET i == turn.id
           more == words[i] /\ turn.round < MaxRound
           back == IF words[i] \/ box[i] = {} THEN {} ELSE {t \in Filed : handed[t] = i} IN
        /\ turn' = [turn EXCEPT !.at = "drained", !.more = more,
                                !.left = IF more THEN box[i] ELSE {}]
        /\ handed' = Set(handed, back, 0)
        /\ unheld' = unheld \cup (back \ box[i])
        /\ slipped' = slipped \cup {t \in box[i] : IF words[i] THEN ~more ELSE handed[t] # i}
        /\ box' = [box EXCEPT ![i] = {}] /\ words' = [words EXCEPT ![i] = FALSE]
    /\ UNCHANGED <<life, reg, turns, up, watcher, told, excused, trouble>>

\* A watcher is armed, or the one there rides on (arm_task_watch).
Armed ==
    IF watching
      THEN fresh' = TRUE /\ UNCHANGED <<watching, w, tries, resting>>
      ELSE /\ watching' = TRUE /\ fresh' = FALSE /\ w' = Watch("sleep", {})
           /\ tries' = [t \in Task |-> 0] /\ resting' = {}

\* The turn is over: clean, with tasks filed, it arms a watcher.  What it left
\* opens the next round; the watcher hears of an update turn when all are over.
Over ==
    /\ turn.at = "drained"
    /\ LET next == turn.more /\ turns < MaxTurn IN
        /\ IF next THEN Opened(turn.left, turn.update, turn.round + 1, turn.landed)
           ELSE turn' = NoTurn /\ UNCHANGED turns
        /\ slipped' = IF turn.more /\ ~next THEN slipped \cup turn.left ELSE slipped
        /\ IF turn.update
             THEN /\ fresh' = (fresh \/ (turn.clean /\ Filed # {}))
                  /\ w' = IF next THEN w
                          ELSE [w EXCEPT !.at = IF turn.landed THEN "landed" ELSE "nowhere"]
                  /\ UNCHANGED <<watching, tries, resting>>
             ELSE IF turn.clean /\ Filed # {} THEN Armed ELSE UNCHANGED watcher
    /\ UNCHANGED <<registry, mail, up, told, excused, unheld, trouble>>

-----------------------------------------------------------------------------
\* The watcher.

To(at, S) == w' = Watch(at, S)

\* Mutant of GivenUp: one try too many.
GivenUpLate(t) == tries[t] > MaxTries

GivenUp(t) == tries[t] >= MaxTries

\* A tick: updates given up on get another try, if a turn has ended here since.
Tick ==
    /\ w.at = "sleep"
    /\ fresh' = FALSE
    /\ tries' = IF fresh THEN [t \in Task |-> IF GivenUp(t) THEN 0 ELSE tries[t]]
                ELSE tries
    /\ resting' = IF fresh THEN {t \in resting : ~GivenUp(t)} ELSE resting
    /\ w' = [Watch("claims", {t \in Filed : handed[t] # 0}) EXCEPT !.read = handed]
    /\ UNCHANGED <<registry, mail, turn, turns, up, watching, history, trouble>>

\* Mutant of Claim: a turn's mailbox is looked into before its drain.
ClaimEarly(t) ==
    /\ w.at = "claims" /\ t \in w.tasks
    /\ LET i == w.read[t] IN
        /\ reg' = IF t \notin box[i] THEN [reg EXCEPT ![t] = "retired"] ELSE reg
        /\ handed' = IF t \in box[i] THEN [handed EXCEPT ![t] = 0] ELSE handed
    /\ w' = [w EXCEPT !.tasks = @ \ {t}]
    /\ UNCHANGED <<life, mail, turn, turns, up, watching, fresh, tries, resting, history, trouble>>

\* What was handed to a turn is the turn's until it has drained its mailbox; then
\* it was taken, or is handed on again.  (Given back since it was read, it is
\* taken for taken.)
Claim(t) ==
    /\ w.at = "claims" /\ t \in w.tasks
    /\ LET i == w.read[t]
           taken == ~Open(i) /\ t \notin box[i] IN
        /\ reg' = IF taken THEN [reg EXCEPT ![t] = "retired"] ELSE reg
        /\ handed' = IF ~Open(i) /\ t \in box[i] THEN [handed EXCEPT ![t] = 0] ELSE handed
        /\ slipped' = IF taken /\ handed[t] # i THEN slipped \cup {t} ELSE slipped
    /\ w' = [w EXCEPT !.tasks = @ \ {t}]
    /\ UNCHANGED <<life, mail, turn, turns, up, watching, fresh, tries, resting, told, excused,
                   unheld, trouble>>

Due(S)     == {t \in S : ~GivenUp(t) /\ t \notin resting}
Waiting(t) == life[t] = "running" \/ handed[t] # 0 \/ (tries[t] > 0 /\ ~GivenUp(t))
Untold(t)  == life[t] = "ended" /\ handed[t] = 0

\* The registry is read, and the cards brought up to date, which takes a while.
Look ==
    /\ w.at = "claims" /\ w.tasks = {}
    /\ w' = [Watch("cards", {t \in Filed : Untold(t)}) EXCEPT
                !.wait = \E t \in Filed : Waiting(t)]
    /\ UNCHANGED <<registry, mail, turn, turns, up, watching, fresh, tries, resting, history,
                   trouble>>

\* There is something to tell, or something to wait for, or it steps down ...
Judge ==
    /\ w.at = "cards"
    /\ \/ Due(w.tasks) # {} /\ To("deliver", Due(w.tasks)) /\ UNCHANGED watching
       \/ Due(w.tasks) = {} /\ w.wait /\ To("sleep", {}) /\ UNCHANGED watching
       \/ Due(w.tasks) = {} /\ ~w.wait /\ To("leaving", {}) /\ watching' = FALSE
    /\ UNCHANGED <<registry, mail, turn, turns, up, fresh, tries, resting, history, trouble>>

\* Mutant of Leave: it does not look again.
LeaveBlind ==
    /\ w.at = "leaving"
    /\ w' = NoWatch
    /\ UNCHANGED <<registry, mail, turn, turns, up, watching, fresh, tries, resting, history,
                   trouble>>

\* ... and looks once more: a task may have been filed by a turn that found it
\* still there.  (A watcher armed meanwhile takes over: it is `w` by then.)
Leave ==
    /\ w.at = "leaving"
    /\ IF \E t \in Filed : Waiting(t) \/ (tries[t] = 0 /\ Untold(t))
         THEN watching' = TRUE /\ To("sleep", {})
         ELSE UNCHANGED watching /\ w' = NoWatch
    /\ UNCHANGED <<registry, mail, turn, turns, up, fresh, tries, resting, history, trouble>>

\* deliver_update: into the mailbox of the turn that runs here (and may be
\* ridden) ...
Put ==
    /\ w.at = "deliver" /\ turn.at \in {"opening", "running"}
    /\ box' = [box EXCEPT ![turn.id] = @ \cup w.tasks]
    /\ w' = [Watch("note", w.tasks) EXCEPT !.mailbox = turn.id]
    /\ UNCHANGED <<registry, words, turn, turns, up, watching, fresh, tries, resting, history,
                   trouble>>

\* ... which is then written down ...
Note ==
    /\ w.at = "note"
    /\ handed' = Set(handed, w.tasks, w.mailbox)
    /\ To("sleep", {})
    /\ UNCHANGED <<life, reg, mail, turn, turns, up, watching, fresh, tries, resting, history,
                   trouble>>

\* ... or the surface is not free ...
NotNow ==
    /\ w.at = "deliver" /\ turn.at # "none"
    /\ To("sleep", {})
    /\ UNCHANGED <<registry, mail, turn, turns, up, watching, fresh, tries, resting, history,
                   trouble>>

\* ... or an update turn is opened ...
UpdateTurn ==
    /\ w.at = "deliver" /\ turn.at = "none"
    /\ Opened(w.tasks, TRUE, 1, FALSE)
    /\ To("turn", w.tasks)
    /\ UNCHANGED <<registry, mail, up, watching, fresh, tries, resting, history, trouble>>

\* ... and it landed, or went nowhere: tried again in a while, three times.
UpdateOver ==
    /\ \/ /\ w.at = "landed"
          /\ reg' = Set(reg, w.tasks, "retired") /\ tries' = Set(tries, w.tasks, 0)
          /\ UNCHANGED resting
       \/ /\ w.at = "nowhere"
          /\ tries' = More(tries, w.tasks) /\ resting' = resting \cup w.tasks
          /\ UNCHANGED reg
    /\ To("sleep", {})
    /\ UNCHANGED <<life, handed, mail, turn, turns, up, watching, fresh, history, trouble>>

Rested ==
    /\ resting # {}
    /\ resting' = {}
    /\ UNCHANGED <<registry, mail, turn, turns, up, watching, fresh, w, tries, history, trouble>>

-----------------------------------------------------------------------------
\* The daemon ends: the turn and the watcher with it.  A restart of the machine
\* empties the directory of mailboxes too.
Crash ==
    /\ up /\ Spend
    /\ up' = FALSE
    /\ turn' = NoTurn /\ watching' = FALSE /\ fresh' = FALSE /\ w' = NoWatch
    /\ tries' = [t \in Task |-> 0] /\ resting' = {}
    /\ excused' = More(excused, {t \in Filed : told[t] > excused[t]})
    /\ \/ UNCHANGED mail /\ slipped' = slipped \cup turn.left \cup turn.brings
       \/ /\ box' = [i \in Turn |-> {}] /\ words' = [i \in Turn |-> FALSE]
          /\ slipped' = slipped \cup turn.left \cup turn.brings
                                \cup UNION {box[i] : i \in Turn}
    /\ UNCHANGED <<registry, turns, told, unheld>>

\* Started again, it arms a watcher for what is filed.
Start ==
    /\ ~up
    /\ up' = TRUE
    /\ IF Filed # {} THEN Armed ELSE UNCHANGED watcher
    /\ UNCHANGED <<registry, mail, turn, turns, history, trouble>>

WatcherNext ==
    \/ Tick \/ Look \/ Judge \/ Leave \/ Put \/ Note \/ NotNow \/ UpdateTurn \/ UpdateOver
    \/ \E t \in Task : Claim(t)

TurnNext == Prompt \/ Hook \/ Drop \/ Drain \/ Over

Next ==
    \/ Message \/ Say \/ TurnNext \/ WatcherNext \/ Rested \/ Crash \/ Start
    \/ \E t \in Task : Detach(t) \/ End(t)

Spec == Init /\ [][Next]_vars

\* The daemon is restarted, its watcher and its turns go on, tasks end, and the
\* wait after an update that went nowhere is a time.
FairSpec ==
    /\ Spec
    /\ WF_vars(Start) /\ WF_vars(WatcherNext) /\ WF_vars(Rested)
    /\ WF_vars(Prompt \/ Drop \/ Drain \/ Over)
    /\ \A t \in Task : WF_vars(End(t))

-----------------------------------------------------------------------------
TurnType ==
    [at : {"none", "opening", "running", "dropped", "drained"}, id : 0 .. MaxTurn,
     brings : SUBSET Task, update : BOOLEAN, round : 0 .. MaxRound, clean : BOOLEAN,
     landed : BOOLEAN, left : SUBSET Task, more : BOOLEAN]

WatchType ==
    [at : {"none", "sleep", "claims", "cards", "leaving", "deliver", "note", "turn", "landed",
           "nowhere"},
     tasks : SUBSET Task, read : [Task -> 0 .. MaxTurn], mailbox : 0 .. MaxTurn, wait : BOOLEAN]

\* Every variable keeps its type.
TypeOK ==
    /\ life \in [Task -> {"none", "running", "ended"}]
    /\ reg \in [Task -> {"none", "filed", "retired"}] /\ handed \in [Task -> 0 .. MaxTurn]
    /\ box \in [Turn -> SUBSET Task] /\ words \in [Turn -> BOOLEAN]
    /\ turn \in TurnType /\ turns \in 0 .. MaxTurn /\ up \in BOOLEAN
    /\ watching \in BOOLEAN /\ fresh \in BOOLEAN /\ w \in WatchType
    /\ tries \in [Task -> 0 .. MaxTries] /\ resting \subseteq Task
    /\ told \in [Task -> Nat] /\ excused \in [Task -> Nat] /\ slipped \subseteq Task
    /\ unheld \subseteq Task
    /\ trouble \in 0 .. MaxTrouble

\* A task whose registration is gone is one whose end the agent was told, or is
\* about to be in the follow-up that brings it ("an exit nobody hears about is the
\* silence this whole watcher exists to end") - unless its update was lost with a
\* mailbox: drained before the hand-over was written down, read as taken when it
\* had just been given back, left after the last round, stopped with its turn before
\* the prompt, or gone with the machine.
EndsHeard ==
    \A t \in Task \ slipped :
        reg[t] = "retired" => told[t] > 0 \/ t \in turn.left \cup turn.brings

\* Neither the watcher that follows nor the restarted daemon tells an end twice
\* (Ledger), unless the turn that was told it failed or showed nothing, the daemon ended before it
\* was done with it, or its mailbox was given back with another task's update.
ToldOnce == \A t \in Task \ unheld : told[t] <= 1 + excused[t]

\* A task that ended is told of, once a watcher is there to see it: whatever
\* fails, restarts or is filed meanwhile, or it is given up on after three tries.
Brought ==
    \A t \in Task :
        watching /\ reg[t] = "filed" /\ life[t] = "ended" ~>
            told[t] > 0 \/ t \in slipped \/ tries[t] = MaxTries \/ turns = MaxTurn

=============================================================================
