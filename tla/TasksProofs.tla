------------------------------ MODULE TasksProofs ------------------------------
(***************************************************************************)
(* For any number of tasks, turns, rounds and failures: a task whose       *)
(* registration is gone was told of, and none is told of twice, but for the *)
(* losses the properties name.                                             *)
(***************************************************************************)
EXTENDS Tasks, TLAPS

\* The tasks a turn has in its hands.
InTurn == turn.left \cup turn.brings

\* Where a task may still be told of, it was told no more often than was lost on it.
Calm(t) == told[t] <= excused[t]

\* A task is told of only after it was filed.
Births ==
    \A t \in Task :
        /\ life[t] = "none" => reg[t] = "none"
        /\ reg[t] = "none" => told[t] = 0 /\ handed[t] = 0

\* The turn there is, is the last of them; what it leaves is there between its
\* drain and its end, and only where a round is left to bring it.
Turns ==
    /\ turn.at # "none" => turn.id \in 1 .. turns /\ turn.round >= 1
    /\ turn.at = "none" => turn.brings = {}
    /\ turn.more => turn.round < MaxRound /\ turn.at = "drained"
    /\ ~turn.more => turn.left = {}
    /\ turn.round = 1 /\ ~turn.update => turn.brings = {}
    /\ \A j \in Turn : j > turns => box[j] = {}

\* The watcher at work is the one there is; it reads the registry before it acts,
\* and nobody else hands on the tasks it holds.
Holding == {"cards", "deliver", "note", "turn", "landed", "nowhere"}

Hands ==
    /\ w.at \notin {"none", "leaving"} => watching
    /\ w.at = "claims" =>
          \A t \in w.tasks : w.read[t] # 0 /\ handed[t] \in {0, w.read[t]} /\ reg[t] = "filed"
    /\ w.at \in Holding =>
          \A t \in w.tasks : reg[t] = "filed" /\ handed[t] = 0
    /\ w.at \in Holding \ {"cards"} => \A t \in w.tasks : tries[t] < MaxTries
    /\ w.at = "note" => w.mailbox \in 1 .. turns

\* An update turn is the watcher's: its first round brings what the watcher holds, and
\* when it has landed the agent was told.
Updates ==
    /\ w.at = "turn" <=> turn.at # "none" /\ turn.update
    /\ w.at = "turn" /\ turn.round = 1 => turn.brings = w.tasks
    /\ (w.at = "turn" /\ turn.landed) \/ w.at = "landed" =>
          \A t \in w.tasks \ slipped : told[t] > 0

\* What is in the open mailbox is filed, and written down as handed over or about to be.
Mailed ==
    turn.at \in {"opening", "running", "dropped"} =>
        \A t \in box[turn.id] :
            /\ reg[t] = "filed"
            /\ \/ handed[t] = turn.id
               \/ w.at = "note" /\ t \in w.tasks /\ w.mailbox = turn.id

\* What a turn brings, or leaves to the next, is nobody else's to hand on.
Apart(t) ==
    \/ reg[t] = "retired"
    \/ handed[t] # 0 /\ t \notin box[handed[t]]
    \/ w.at = "note" /\ t \in w.tasks /\ t \notin box[w.mailbox]

Carried ==
    \A t \in Task :
        /\ t \in turn.left => Apart(t)
        /\ turn.at = "opening" /\ t \in turn.brings => Apart(t) \/ (turn.update /\ turn.round = 1)

\* What a turn brought, its agent was told; if not, it is lost, or an update that
\* went nowhere.
Prompted ==
    /\ turn.at = "running" => \A t \in turn.brings : told[t] > 0
    /\ turn.at \in {"dropped", "drained"} =>
          \A t \in turn.brings \ slipped : told[t] > 0 \/ (turn.update /\ turn.round = 1)

\* What was handed over is in the mailbox, or was told, or is in a turn's hands.
Heard(t) == told[t] > 0 \/ t \in InTurn

Handed ==
    \A t \in Task \ slipped :
        /\ reg[t] = "filed" /\ handed[t] # 0 => t \in box[handed[t]] \/ Heard(t)
        /\ w.at = "note" /\ t \in w.tasks => t \in box[w.mailbox] \/ Heard(t)

\* A task in the mailbox it was handed to is filed.
Boxed == \A t \in Task : handed[t] # 0 /\ t \in box[handed[t]] => reg[t] = "filed"

\* What the next prompt tells.
Brings(t) == t \in turn.left \/ (turn.at = "opening" /\ t \in turn.brings)

\* And wherever the end of a task may still be told from, it was not told yet.
Once(t) ==
    /\ told[t] <= 1 + excused[t]
    /\ reg[t] = "filed" /\ handed[t] = 0 /\ ~(w.at \in {"note", "turn", "landed"} /\ t \in w.tasks) =>
          Calm(t)
    /\ handed[t] # 0 /\ t \in box[handed[t]] => Calm(t)
    /\ w.at = "note" /\ t \in w.tasks /\ t \in box[w.mailbox] => Calm(t)
    /\ Brings(t) => Calm(t)
    /\ w.at = "turn" /\ t \in w.tasks /\ ~turn.landed /\ ~(turn.at = "running" /\ turn.round = 1) =>
          Calm(t)

Onces == \A t \in Task \ unheld : Once(t)

\* The inductive invariant.
IInv ==
    /\ TypeOK /\ Births /\ Turns /\ Hands /\ Updates /\ Mailed /\ Carried /\ Boxed /\ Prompted
    /\ Handed /\ EndsHeard /\ Onces

--------------------------------------------------------------------------------
\* The mailbox of the turn there is.
LEMMA OpenBox ==
    ASSUME TypeOK, Turns, turn.at # "none"
    PROVE  /\ turn.id \in Turn /\ turn.id \in 1 .. turns /\ turn.round >= 1
           /\ box[turn.id] \subseteq Task /\ words[turn.id] \in BOOLEAN
<1>1. turn.id \in 1 .. turns /\ turns \in 0 .. MaxTurn /\ MaxTurn \in Nat /\ turn.round >= 1
  BY TasksAssumption DEF Turns, TypeOK
<1>2. turn.id \in Turn
  BY <1>1 DEF Turn
<1> QED
  BY <1>1, <1>2 DEF TypeOK

\* What the fields of a turn and of the watcher may be.
LEMMA Shapes ==
    ASSUME TypeOK
    PROVE  /\ turn.at \in {"none", "opening", "running", "dropped", "drained"}
           /\ turn.id \in 0 .. MaxTurn /\ turn.brings \subseteq Task /\ turn.update \in BOOLEAN
           /\ turn.round \in 0 .. MaxRound /\ turn.clean \in BOOLEAN /\ turn.landed \in BOOLEAN
           /\ turn.left \subseteq Task /\ turn.more \in BOOLEAN
           /\ w.at \in {"none", "sleep", "claims", "cards", "leaving", "deliver", "note", "turn",
                        "landed", "nowhere"}
           /\ w.tasks \subseteq Task /\ w.read \in [Task -> 0 .. MaxTurn]
           /\ w.mailbox \in 0 .. MaxTurn /\ w.wait \in BOOLEAN
  BY DEF TypeOK, TurnType, WatchType

\* The numbers the bounds are, and the turn and the watcher that are not there.
LEMMA Numbers ==
    /\ MaxTurn \in Nat /\ MaxTurn >= 1 /\ MaxRound \in Nat /\ MaxRound >= 1 /\ MaxTries \in Nat
    /\ MaxTrouble \in Nat
    /\ NoTurn \in TurnType /\ NoTurn.at = "none" /\ NoTurn.brings = {} /\ NoTurn.left = {}
    /\ NoTurn.more = FALSE
    /\ \A at \in {"none", "sleep", "claims", "cards", "leaving", "deliver", "note", "turn",
                  "landed", "nowhere"}, S \in SUBSET Task :
          Watch(at, S) \in WatchType /\ Watch(at, S).at = at /\ Watch(at, S).tasks = S
    /\ NoWatch \in WatchType /\ NoWatch.at = "none" /\ NoWatch.tasks = {}
    /\ \A t \in Filed : t \in Task /\ reg[t] = "filed"
  BY TasksAssumption DEF NoTurn, TurnType, Watch, WatchType, NoHands, NoWatch, Filed

\* A mailbox something was handed to, is one.
LEMMA Indices ==
    ASSUME TypeOK
    PROVE  \A t \in Task : handed[t] # 0 => handed[t] \in Turn
  BY TasksAssumption DEF TypeOK, Turn

\* A turn that opens is typed, and what was asked of it.
LEMMA Opens ==
    ASSUME TypeOK, NEW brings \in SUBSET Task, NEW update \in BOOLEAN, NEW round \in 0 .. MaxRound,
           NEW landed \in BOOLEAN, Opened(brings, update, round, landed)
    PROVE  /\ turn' \in TurnType /\ turns' \in 0 .. MaxTurn /\ turns' = turns + 1
           /\ turn'.at = "opening" /\ turn'.id = turns' /\ turn'.id \in Turn /\ turn'.brings = brings
           /\ turn'.update = update /\ turn'.round = round /\ turn'.landed = landed
           /\ turn'.left = {} /\ turn'.more = FALSE
<1>1. turns \in 0 .. MaxTurn /\ turns < MaxTurn /\ turns' = turns + 1 /\ MaxTurn \in Nat
  BY Numbers DEF TypeOK, Opened
<1>2. turns' \in 0 .. MaxTurn /\ turns' \in Turn
  BY <1>1 DEF Turn
<1>3. turn' = [NoTurn EXCEPT !.at = "opening", !.id = turns', !.brings = brings,
                             !.update = update, !.round = round, !.landed = landed]
  BY <1>1 DEF Opened
<1> QED
  BY <1>1, <1>2, <1>3 DEF TurnType, NoTurn

\* Where nothing is filed in, and the turn, the watcher and the tasks are of their
\* types, everything is.
Registers ==
    /\ life \in [Task -> {"none", "running", "ended"}]
    /\ reg \in [Task -> {"none", "filed", "retired"}] /\ handed \in [Task -> 0 .. MaxTurn]
Mails == box \in [Turn -> SUBSET Task] /\ words \in [Turn -> BOOLEAN]
Acting ==
    /\ turn \in TurnType /\ turns \in 0 .. MaxTurn /\ up \in BOOLEAN
    /\ trouble \in 0 .. MaxTrouble
Watches ==
    /\ watching \in BOOLEAN /\ fresh \in BOOLEAN /\ w \in WatchType
    /\ tries \in [Task -> 0 .. MaxTries] /\ resting \subseteq Task
Histories ==
    /\ told \in [Task -> Nat] /\ excused \in [Task -> Nat] /\ slipped \subseteq Task
    /\ unheld \subseteq Task

\* The types, in parts.
LEMMA Parts == TypeOK <=> Registers /\ Mails /\ Acting /\ Watches /\ Histories
  BY DEF TypeOK, Registers, Mails, Acting, Watches, Histories

\* The invariant holds at the start.
LEMMA Initially == Init => IInv
<1> SUFFICES ASSUME Init PROVE IInv
  OBVIOUS
<1>1. Registers /\ Mails /\ Acting /\ Watches /\ Histories
  <2>1. Registers /\ Mails /\ Acting
    BY Numbers DEF Init, Registers, Mails, Acting
  <2>2. Watches
    <3>1. 0 \in 0 .. MaxTries /\ NoWatch \in WatchType
      BY Numbers
    <3> QED
      BY <3>1 DEF Init, Watches
  <2>3. Histories
    BY DEF Init, Histories
  <2> QED
    BY <2>1, <2>2, <2>3
<1>2. turn.at = "none" /\ w.at = "none" /\ turn.brings = {} /\ turn.left = {} /\ turn.more = FALSE
  BY Numbers DEF Init
<1>3. Births /\ Turns /\ Hands /\ Updates /\ Mailed /\ Carried /\ Prompted
  BY <1>2 DEF Init, Births, Turns, Hands, Updates, Mailed, Carried, Brings, Prompted, Holding
<1>4. Handed /\ EndsHeard /\ Onces /\ Boxed
  BY <1>2 DEF Init, Handed, EndsHeard, Onces, Once, Brings, Calm, Boxed
<1> QED
  BY <1>1, <1>3, <1>4, Parts DEF IInv

--------------------------------------------------------------------------------
\* Types.

\* What is set, or counted up, for several tasks keeps its type.
LEMMA Lists ==
    ASSUME TypeOK, NEW S \in SUBSET Task
    PROVE  /\ \A f \in [Task -> Nat] : More(f, S) \in [Task -> Nat]
           /\ \A f \in [Task -> 0 .. MaxTurn], x \in 0 .. MaxTurn : Set(f, S, x) \in [Task -> 0 .. MaxTurn]
           /\ Set(tries, S, 0) \in [Task -> 0 .. MaxTries]
           /\ Set(reg, S, "retired") \in [Task -> {"none", "filed", "retired"}]
           /\ Filed \in SUBSET Task
           /\ [t \in Task |-> 0] \in [Task -> 0 .. MaxTries]
  BY Numbers DEF More, Set, TypeOK, Filed

\* Tasks are filed and ended, handed on and retired: the registry keeps its types.
LEMMA RegistersStep ==
    ASSUME IInv, [Next]_vars
    PROVE  Registers'
<1>0. TypeOK /\ Registers /\ w.tasks \subseteq Task /\ w.mailbox \in 0 .. MaxTurn /\ 0 \in 0 .. MaxTurn
      /\ w \in WatchType
  BY Parts, Shapes, Numbers DEF IInv, TypeOK
<1>1. ASSUME NEW t \in Task, Detach(t) \/ End(t)
      PROVE  Registers'
  BY <1>0, <1>1 DEF Detach, End, Registers
<1>2. CASE Drain
  <2>1. PICK S \in SUBSET Task : handed' = Set(handed, S, 0)
    BY <1>2, <1>0, Lists DEF Drain
  <2>2. handed' \in [Task -> 0 .. MaxTurn]
    BY <1>0, <2>1, Lists DEF TypeOK
  <2> QED
    BY <1>0, <1>2, <2>2 DEF Drain, Registers
<1>3. ASSUME NEW t \in Task, Claim(t)
      PROVE  Registers'
  BY <1>0, <1>3 DEF Claim, Registers
<1>4. CASE Note \/ UpdateOver
  <2>1. CASE Note
    BY <1>0, <2>1, Lists DEF Note, Registers
  <2>2. CASE UpdateOver
    BY <1>0, <2>2, Lists DEF UpdateOver, Registers
  <2> QED
    BY <1>4, <2>1, <2>2
<1>5. CASE Message \/ Say \/ Prompt \/ Hook \/ Drop \/ Over \/ Rested \/ Crash \/ Start
  <2>1. UNCHANGED registry
    BY <1>5 DEF Message, Say, Prompt, Hook, Drop, Over, Rested, Crash, Start
  <2> QED
    BY <1>0, <2>1 DEF registry, Registers
<1>6. CASE Tick \/ Look \/ Judge \/ Leave \/ Put \/ NotNow \/ UpdateTurn \/ UNCHANGED vars
  <2>1. UNCHANGED registry
    BY <1>6 DEF Tick, Look, Judge, Leave, Put, NotNow, UpdateTurn, vars
  <2> QED
    BY <1>0, <2>1 DEF registry, Registers
<1> QED
  BY <1>1, <1>2, <1>3, <1>4, <1>5, <1>6 DEF Next, TurnNext, WatcherNext

\* So do the mailboxes ...
LEMMA MailsStep ==
    ASSUME IInv, [Next]_vars
    PROVE  Mails'
<1>0. TypeOK /\ Mails /\ w.tasks \subseteq Task
  BY Parts, Shapes DEF IInv
<1>1. CASE Say \/ Hook \/ Put \/ Drain
  BY <1>0, <1>1 DEF Say, Hook, Put, Drain, Mails
<1>2. CASE Crash
  BY <1>0, <1>2 DEF Crash, mail, Mails
<1>3. CASE Message \/ Prompt \/ Drop \/ Over \/ Rested \/ Start \/ (\E t \in Task : Detach(t) \/ End(t))
  BY <1>0, <1>3 DEF Message, Prompt, Drop, Over, Rested, Start, Detach, End, mail, Mails
<1>4. CASE Tick \/ Look \/ Judge \/ Leave \/ Note \/ NotNow \/ UpdateTurn \/ UpdateOver
           \/ (\E t \in Task : Claim(t)) \/ UNCHANGED vars
  BY <1>0, <1>4 DEF Tick, Look, Judge, Leave, Note, NotNow, UpdateTurn, UpdateOver, Claim, vars,
                    mail, Mails
<1> QED
  BY <1>1, <1>2, <1>3, <1>4 DEF Next, TurnNext, WatcherNext

\* ... the turn ...
LEMMA ActingStep ==
    ASSUME IInv, [Next]_vars
    PROVE  Acting'
<1>0. /\ TypeOK /\ Acting /\ turn \in TurnType /\ w.tasks \subseteq Task /\ turn.left \subseteq Task
      /\ turn.update \in BOOLEAN /\ turn.landed \in BOOLEAN /\ turn.round \in 0 .. MaxRound
      /\ NoTurn \in TurnType /\ 1 \in 0 .. MaxRound /\ MaxTrouble \in Nat /\ MaxRound \in Nat
  BY Parts, Shapes, Numbers DEF IInv, TypeOK
<1>1. CASE Message
  <2>1. turn' \in TurnType /\ turns' \in 0 .. MaxTurn
    BY <1>0, <1>1, Opens DEF Message
  <2> QED
    BY <1>0, <1>1, <2>1 DEF Message, Spend, Acting
<1>2. CASE UpdateTurn
  <2>1. turn' \in TurnType /\ turns' \in 0 .. MaxTurn
    BY <1>0, <1>2, Opens DEF UpdateTurn
  <2> QED
    BY <1>0, <1>2, <2>1 DEF UpdateTurn, Acting
<1>3. CASE Over
  <2>1. turn.more => turn.round + 1 \in 0 .. MaxRound
    BY <1>0 DEF IInv, Turns
  <2>2. turn' \in TurnType /\ turns' \in 0 .. MaxTurn
    <3>1. CASE turn.more /\ turns < MaxTurn
      <4>1. Opened(turn.left, turn.update, turn.round + 1, turn.landed)
        BY <1>3, <3>1 DEF Over
      <4>2. turn.round + 1 \in 0 .. MaxRound
        BY <2>1, <3>1
      <4> QED
        BY <1>0, <4>1, <4>2, Opens
    <3>2. CASE ~(turn.more /\ turns < MaxTurn)
      BY <1>0, <1>3, <3>2 DEF Over, Acting
    <3> QED
      BY <3>1, <3>2
  <2> QED
    BY <1>0, <1>3, <2>2 DEF Over, Acting
<1>4. CASE Prompt
  BY <1>0, <1>4 DEF Prompt, Acting, TurnType
<1>5. CASE Drop
  <2>1. PICK clean \in BOOLEAN, landed \in BOOLEAN :
            turn' = [turn EXCEPT !.at = "dropped", !.clean = clean, !.landed = landed]
    <3>1. ASSUME NEW how
          PROVE  /\ (how \in {"clean", "empty"}) \in BOOLEAN
                 /\ (turn.landed \/ (turn.round = 1 /\ how \in {"clean", "stopped"})) \in BOOLEAN
      OBVIOUS
    <3> QED
      BY <1>5, <3>1 DEF Drop
  <2>2. turn' \in TurnType
    BY <1>0, <2>1 DEF TurnType
  <2> QED
    BY <1>0, <1>5, <2>2 DEF Drop, Spend, Acting
<1>6. CASE Drain
  <2>1. box[turn.id] \subseteq Task /\ words[turn.id] \in BOOLEAN
    BY <1>0, <1>6, OpenBox DEF Drain, IInv
  <2>2. turn' \in TurnType
    BY <1>0, <1>6, <2>1 DEF Drain, TurnType
  <2> QED
    BY <1>0, <1>6, <2>2 DEF Drain, Acting
<1>7. CASE Say \/ Crash \/ Start
  <2>1. turn' \in TurnType /\ turns' = turns /\ up' \in BOOLEAN
    BY <1>0, <1>7 DEF Say, Crash, Start, Acting
  <2>2. trouble' \in 0 .. MaxTrouble
    BY <1>0, <1>7 DEF Say, Crash, Start, Spend, Acting
  <2> QED
    BY <1>0, <2>1, <2>2 DEF Acting
<1>8. CASE Hook \/ Rested \/ (\E t \in Task : Detach(t) \/ End(t) \/ Claim(t))
  BY <1>0, <1>8 DEF Hook, Rested, Detach, End, Claim, Acting
<1>9. CASE Tick \/ Look \/ Judge \/ Leave \/ Put \/ Note \/ NotNow \/ UpdateOver \/ UNCHANGED vars
  BY <1>0, <1>9 DEF Tick, Look, Judge, Leave, Put, Note, NotNow, UpdateOver, vars, Acting
<1> QED
  BY <1>1, <1>2, <1>3, <1>4, <1>5, <1>6, <1>7, <1>8, <1>9 DEF Next, TurnNext, WatcherNext

\* ... the watcher ...
LEMMA WatchesStep ==
    ASSUME IInv, [Next]_vars
    PROVE  Watches'
<1>0. /\ TypeOK /\ Watches /\ w \in WatchType /\ w.tasks \subseteq Task
      /\ handed \in [Task -> 0 .. MaxTurn] /\ Filed \subseteq Task
      /\ tries \in [Task -> 0 .. MaxTries] /\ MaxTries \in Nat
      /\ NoWatch \in WatchType /\ [t \in Task |-> 0] \in [Task -> 0 .. MaxTries]
      /\ Watch("sleep", {}) \in WatchType
  BY Parts, Shapes, Numbers, Lists DEF IInv, TypeOK
<1>1. Armed => Watches'
  BY <1>0 DEF Armed, Watches
<1>2. CASE UNCHANGED watcher
  BY <1>0, <1>2 DEF watcher, Watches
<1>3. CASE Over
  <2>1. CASE turn.update
    <3>1. [w EXCEPT !.at = IF turn.landed THEN "landed" ELSE "nowhere"] \in WatchType
      BY <1>0 DEF WatchType
    <3>2. w' \in WatchType
      BY <1>0, <1>3, <2>1, <3>1 DEF Over
    <3> QED
      BY <1>0, <1>3, <2>1, <3>2 DEF Over, Watches
  <2>2. CASE ~turn.update
    BY <1>1, <1>2, <1>3, <2>2 DEF Over
  <2> QED
    BY <2>1, <2>2
<1>4. CASE Start
  BY <1>1, <1>2, <1>4 DEF Start
<1>5. CASE Tick
  <2>1. [Watch("claims", {t \in Filed : handed[t] # 0}) EXCEPT !.read = handed] \in WatchType
    BY <1>0 DEF Watch, WatchType, NoHands
  <2>2. tries' \in [Task -> 0 .. MaxTries]
    BY <1>0, <1>5 DEF Tick
  <2> QED
    BY <1>0, <1>5, <2>1, <2>2 DEF Tick, Watches
<1>6. ASSUME NEW t \in Task, Claim(t)
      PROVE  Watches'
  <2>1. w' \in WatchType
    BY <1>0, <1>6 DEF Claim, WatchType
  <2> QED
    BY <1>0, <1>6, <2>1 DEF Claim, Watches
<1>7. CASE Look
  <2>1. (\E t \in Filed : Waiting(t)) \in BOOLEAN
    OBVIOUS
  <2>2. PICK wait \in BOOLEAN : w' = [Watch("cards", {t \in Filed : Untold(t)}) EXCEPT !.wait = wait]
    BY <1>7, <2>1 DEF Look
  <2>3. w' \in WatchType
    BY <1>0, <2>2, Numbers DEF Watch, WatchType, NoHands
  <2> QED
    BY <1>0, <1>7, <2>3 DEF Look, Watches
<1>8. CASE Judge \/ Leave \/ NotNow \/ UpdateTurn
  <2>1. Due(w.tasks) \subseteq Task
    BY <1>0 DEF Due
  <2>2. w' \in WatchType
    <3>1. /\ Watch("deliver", Due(w.tasks)) \in WatchType /\ Watch("sleep", {}) \in WatchType
          /\ Watch("leaving", {}) \in WatchType /\ Watch("turn", w.tasks) \in WatchType
      BY <1>0, <2>1, Numbers
    <3> QED
      BY <1>0, <1>8, <3>1 DEF Judge, Leave, NotNow, UpdateTurn, To
  <2> QED
    BY <1>0, <1>8, <2>2 DEF Judge, Leave, NotNow, UpdateTurn, Watches
<1>9. CASE Put
  <2>1. turn.id \in 0 .. MaxTurn
    BY <1>0, Shapes
  <2>2. w' \in WatchType
    BY <1>0, <1>9, <2>1, Numbers DEF Put, Watch, WatchType, NoHands
  <2> QED
    BY <1>0, <1>9, <2>2 DEF Put, Watches
<1>10. CASE Note
  BY <1>0, <1>10 DEF Note, To, Watches
<1>11. CASE UpdateOver
  <2>1. w.at = "nowhere" => More(tries, w.tasks) \in [Task -> 0 .. MaxTries]
    BY <1>0 DEF IInv, Hands, Holding, More
  <2>2. Set(tries, w.tasks, 0) \in [Task -> 0 .. MaxTries]
    BY <1>0, Lists
  <2> QED
    BY <1>0, <1>11, <2>1, <2>2 DEF UpdateOver, To, Watches
<1>12. CASE Rested \/ Crash
  BY <1>0, <1>12 DEF Rested, Crash, Watches
<1>13. CASE Message \/ Say \/ Prompt \/ Hook \/ Drop \/ Drain \/ UNCHANGED vars
            \/ (\E t \in Task : Detach(t) \/ End(t))
  <2>1. UNCHANGED watcher
    BY <1>13 DEF Message, Say, Prompt, Hook, Drop, Drain, Detach, End, vars
  <2> QED
    BY <1>2, <2>1
<1> QED
  BY <1>3, <1>4, <1>5, <1>6, <1>7, <1>8, <1>9, <1>10, <1>11, <1>12, <1>13
     DEF Next, TurnNext, WatcherNext

\* ... and what is remembered.
LEMMA HistoriesStep ==
    ASSUME IInv, [Next]_vars
    PROVE  Histories'
<1>0. /\ TypeOK /\ Histories /\ Filed \subseteq Task /\ turn.brings \subseteq Task
      /\ turn.left \subseteq Task /\ told \in [Task -> Nat] /\ excused \in [Task -> Nat]
  BY Parts, Shapes, Numbers DEF IInv, TypeOK
<1>1. CASE Prompt
  BY <1>0, <1>1, Lists DEF Prompt, Histories
<1>2. CASE Hook
  <2>1. box[turn.id] \subseteq Task
    BY <1>0, <1>2, OpenBox DEF Hook, IInv
  <2> QED
    BY <1>0, <1>2, <2>1, Lists DEF Hook, Histories
<1>3. CASE Drop
  <2>1. More(excused, turn.brings) \in [Task -> Nat]
    BY <1>0, Lists
  <2>2. excused' \in [Task -> Nat] /\ slipped' \subseteq Task
    BY <1>0, <1>3, <2>1 DEF Drop, Histories
  <2> QED
    BY <1>0, <1>3, <2>2 DEF Drop, Histories
<1>4. CASE Drain
  <2>1. box[turn.id] \subseteq Task
    BY <1>0, <1>4, OpenBox DEF Drain, IInv
  <2> QED
    BY <1>0, <1>4, <2>1 DEF Drain, Histories
<1>5. CASE Over
  BY <1>0, <1>5 DEF Over, Histories
<1>6. ASSUME NEW t \in Task, Claim(t)
      PROVE  Histories'
  BY <1>0, <1>6 DEF Claim, Histories
<1>7. CASE Crash
  <2>1. {t \in Filed : told[t] > excused[t]} \subseteq Task /\ UNION {box[i] : i \in Turn} \subseteq Task
    BY <1>0 DEF TypeOK
  <2>2. excused' \in [Task -> Nat]
    BY <1>0, <1>7, <2>1, Lists DEF Crash
  <2> QED
    BY <1>0, <1>7, <2>1, <2>2 DEF Crash, Histories
<1>8. CASE UNCHANGED history
  BY <1>0, <1>8 DEF history, Histories
<1>9. CASE Message \/ Say \/ Rested \/ Start \/ UNCHANGED vars \/ (\E t \in Task : Detach(t) \/ End(t))
  <2>1. UNCHANGED history
    BY <1>9 DEF Message, Say, Rested, Start, Detach, End, vars
  <2> QED
    BY <1>8, <2>1
<1>10. CASE Tick \/ Look \/ Judge \/ Leave \/ Put \/ Note \/ NotNow \/ UpdateTurn \/ UpdateOver
  <2>1. UNCHANGED history
    BY <1>10 DEF Tick, Look, Judge, Leave, Put, Note, NotNow, UpdateTurn, UpdateOver
  <2> QED
    BY <1>8, <2>1
<1> QED
  BY <1>1, <1>2, <1>3, <1>4, <1>5, <1>6, <1>7, <1>9, <1>10 DEF Next, TurnNext, WatcherNext

\* Every variable keeps its type.
LEMMA TypeStep ==
    ASSUME IInv, [Next]_vars
    PROVE  TypeOK'
<1>1. Registers' /\ Mails' /\ Acting' /\ Watches' /\ Histories'
  BY RegistersStep, MailsStep, ActingStep, WatchesStep, HistoriesStep
<1> QED
  BY <1>1 DEF TypeOK, Registers, Mails, Acting, Watches, Histories

--------------------------------------------------------------------------------
\* What is told was filed.

\* A task that a turn brings, or finds in its mailbox, was filed.
LEMMA WasFiled ==
    ASSUME IInv
    PROVE  /\ \A t \in Task : Brings(t) => reg[t] # "none"
           /\ turn.at \in {"opening", "running", "dropped"} =>
                 \A t \in box[turn.id] : reg[t] = "filed"
           /\ w.at \in Holding => \A t \in w.tasks : reg[t] = "filed" /\ handed[t] = 0
<1>1. w.at \in Holding => \A t \in w.tasks : reg[t] = "filed" /\ handed[t] = 0
  BY DEF IInv, Hands
<1>2. \A t \in Task : Brings(t) => reg[t] # "none"
  BY <1>1 DEF IInv, Carried, Apart, Brings, Births, Holding, Updates
<1> QED
  BY <1>1, <1>2 DEF IInv, Mailed

\* The watcher's tasks, and what it read of them, where they were looked at.
LEMMA BirthsStep ==
    ASSUME IInv, [Next]_vars
    PROVE  Births'
<1>0. /\ TypeOK /\ Births /\ turn.brings \subseteq Task /\ w.tasks \subseteq Task
      /\ reg \in [Task -> {"none", "filed", "retired"}] /\ handed \in [Task -> 0 .. MaxTurn]
      /\ life \in [Task -> {"none", "running", "ended"}] /\ told \in [Task -> Nat]
  BY Shapes DEF IInv, TypeOK
<1>1. CASE UNCHANGED <<registry, told>>
  BY <1>0, <1>1 DEF registry, Births
<1>2. ASSUME NEW t \in Task, Detach(t) \/ End(t)
      PROVE  Births'
  BY <1>0, <1>2 DEF Detach, End, history, Births
<1>3. CASE Prompt
  <2>1. \A t \in turn.brings : reg[t] # "none"
    BY <1>0, <1>3, WasFiled DEF Prompt, Brings
  <2> QED
    BY <1>0, <1>3, <2>1 DEF Prompt, More, registry, Births
<1>4. CASE Hook
  <2>1. \A t \in box[turn.id] : reg[t] = "filed"
    BY <1>0, <1>4, WasFiled DEF Hook
  <2> QED
    BY <1>0, <1>4, <2>1 DEF Hook, More, registry, Births
<1>5. CASE Drain
  BY <1>0, <1>5 DEF Drain, Set, Births
<1>6. ASSUME NEW t \in Task, Claim(t)
      PROVE  Births'
  <2>1. reg[t] = "filed"
    BY <1>6 DEF Claim, IInv, Hands
  <2> QED
    BY <1>0, <1>6, <2>1 DEF Claim, Births
<1>7. CASE Note \/ UpdateOver
  <2>1. \A t \in w.tasks : reg[t] = "filed"
    BY <1>7, WasFiled DEF Note, UpdateOver, Holding
  <2>2. CASE Note
    BY <1>0, <2>1, <2>2 DEF Note, Set, history, Births
  <2>3. CASE UpdateOver
    BY <1>0, <2>1, <2>3 DEF UpdateOver, Set, history, Births
  <2> QED
    BY <1>7, <2>2, <2>3
<1>8. CASE Message \/ Say \/ Drop \/ Over \/ Rested \/ Crash \/ Start \/ UNCHANGED vars
  <2>1. UNCHANGED <<registry, told>>
    BY <1>8 DEF Message, Say, Drop, Over, Rested, Crash, Start, vars, history
  <2> QED
    BY <1>1, <2>1
<1>9. CASE Tick \/ Look \/ Judge \/ Leave \/ Put \/ NotNow \/ UpdateTurn
  <2>1. UNCHANGED <<registry, told>>
    BY <1>9 DEF Tick, Look, Judge, Leave, Put, NotNow, UpdateTurn, history
  <2> QED
    BY <1>1, <2>1
<1> QED
  BY <1>2, <1>3, <1>4, <1>5, <1>6, <1>7, <1>8, <1>9 DEF Next, TurnNext, WatcherNext

--------------------------------------------------------------------------------
\* The turn.

\* A turn that opens finds its mailbox empty.
LEMMA OpensWell ==
    ASSUME IInv, NEW brings \in SUBSET Task, NEW update \in BOOLEAN, NEW round \in 1 .. MaxRound,
           NEW landed \in BOOLEAN, Opened(brings, update, round, landed), UNCHANGED box,
           round = 1 /\ ~update => brings = {}
    PROVE  Turns' /\ box'[turn'.id] = {}
<1>1. /\ turn'.at = "opening" /\ turn'.id = turns' /\ turns' = turns + 1 /\ turn'.id \in Turn
      /\ turn'.left = {} /\ turn'.more = FALSE /\ turn'.brings = brings /\ turn'.round = round
      /\ turn'.update = update
  <2>1. round \in 0 .. MaxRound
    BY Numbers
  <2> QED
    BY <2>1, Opens DEF IInv
<1>2. turns \in Nat /\ turns' \in 1 .. turns' /\ \A j \in Turn : j > turns' => j > turns
  BY <1>1, Numbers DEF IInv, TypeOK, Turn
<1>3. \A j \in Turn : j > turns => box'[j] = {}
  BY DEF IInv, Turns
<1>4. turns' > turns
  BY <1>1, <1>2
<1> QED
  BY <1>1, <1>2, <1>3, <1>4 DEF Turns

\* What the turn there is, is.
LEMMA TurnsStep ==
    ASSUME IInv, [Next]_vars
    PROVE  Turns'
<1>0. /\ TypeOK /\ Turns /\ turn \in TurnType /\ w.tasks \subseteq Task /\ turn.left \subseteq Task
      /\ turn.update \in BOOLEAN /\ turn.landed \in BOOLEAN /\ turn.round \in 0 .. MaxRound
      /\ MaxRound \in Nat /\ 1 \in 1 .. MaxRound /\ turns \in Nat /\ box \in [Turn -> SUBSET Task]
      /\ turn.at \in {"none", "opening", "running", "dropped", "drained"} /\ turn.more \in BOOLEAN
  BY Shapes, Numbers DEF IInv, TypeOK
<1>1. CASE UNCHANGED <<turn, turns, box>>
  BY <1>0, <1>1 DEF Turns
<1>2. CASE Message
  BY <1>0, <1>2, OpensWell DEF Message, mail
<1>3. CASE UpdateTurn
  BY <1>0, <1>3, OpensWell DEF UpdateTurn, mail
<1>4. CASE Over
  <2>1. CASE turn.more /\ turns < MaxTurn
    <3>1. turn.round + 1 \in 1 .. MaxRound /\ turn.round + 1 # 1
      BY <1>0, <1>4, <2>1 DEF Turns, Over
    <3> QED
      BY <1>0, <1>4, <2>1, <3>1, OpensWell DEF Over, mail
  <2>2. CASE ~(turn.more /\ turns < MaxTurn)
    <3>1. turn' = NoTurn /\ UNCHANGED <<turns, box>>
      BY <1>4, <2>2 DEF Over, mail
    <3> QED
      BY <1>0, <3>1 DEF Turns, NoTurn
  <2> QED
    BY <2>1, <2>2
<1>5. CASE Prompt
  BY <1>0, <1>5 DEF Prompt, mail, Turns, TurnType
<1>6. CASE Drop
  <2>1. /\ turn'.at = "dropped" /\ turn.at \in {"opening", "running"} /\ turn'.id = turn.id
        /\ turn'.brings = turn.brings /\ turn'.left = turn.left /\ turn'.more = turn.more
        /\ turn'.round = turn.round /\ turn'.update = turn.update
    BY <1>0, <1>6 DEF Drop, TurnType
  <2> QED
    BY <1>0, <1>6, <2>1 DEF Drop, mail, Turns
<1>7. CASE Drain
  <2>1. /\ turn'.at = "drained" /\ turn.at = "dropped" /\ turn'.id = turn.id
        /\ turn'.brings = turn.brings /\ (~turn'.more => turn'.left = {})
        /\ turn'.round = turn.round /\ turn'.update = turn.update
        /\ (turn'.more => turn.round < MaxRound)
    BY <1>0, <1>7 DEF Drain, TurnType
  <2> QED
    BY <1>0, <1>7, <2>1 DEF Drain, Turns
<1>8. CASE Hook
  BY <1>0, <1>8 DEF Hook, Turns
<1>9. CASE Put
  <2>1. turn.id \in 1 .. turns
    BY <1>0, <1>9 DEF Put, Turns
  <2>2. \A j \in Turn : j > turns => j # turn.id
    BY <1>0, <2>1
  <2> QED
    BY <1>0, <1>9, <2>2 DEF Put, Turns
<1>10. CASE Crash
  <2>1. turn' = NoTurn /\ turns' = turns /\ \A j \in Turn : box'[j] = box[j] \/ box'[j] = {}
    BY <1>10 DEF Crash, mail
  <2> QED
    BY <1>0, <2>1 DEF Turns, NoTurn
<1>11. CASE Say \/ Rested \/ Start \/ UNCHANGED vars \/ (\E t \in Task : Detach(t) \/ End(t) \/ Claim(t))
  <2>1. UNCHANGED <<turn, turns, box>>
    BY <1>11 DEF Say, Rested, Start, Detach, End, Claim, vars, mail
  <2> QED
    BY <1>1, <2>1
<1>12. CASE Tick \/ Look \/ Judge \/ Leave \/ Note \/ NotNow \/ UpdateOver
  <2>1. UNCHANGED <<turn, turns, box>>
    BY <1>12 DEF Tick, Look, Judge, Leave, Note, NotNow, UpdateOver, mail
  <2> QED
    BY <1>1, <2>1
<1> QED
  BY <1>2, <1>3, <1>4, <1>5, <1>6, <1>7, <1>8, <1>9, <1>10, <1>11, <1>12
     DEF Next, TurnNext, WatcherNext

--------------------------------------------------------------------------------
\* The watcher.

\* A turn's step that neither arms nor ends a watcher leaves its hands as they were,
\* if it leaves what it holds alone.
LEMMA HandsRest ==
    ASSUME IInv, TypeOK', UNCHANGED <<watching, w, tries>>, turns <= turns',
           \A t \in Task : reg'[t] = reg[t] /\ (handed'[t] = handed[t] \/ handed'[t] = 0)
    PROVE  Hands'
<1>1. /\ TypeOK /\ Hands /\ w.tasks \subseteq Task /\ turns \in Nat /\ turns' \in Nat
      /\ w.mailbox \in Nat
  BY Shapes, Numbers DEF IInv, TypeOK
<1>2. w.at = "note" => w.mailbox \in 1 .. turns'
  BY <1>1 DEF Hands
<1> QED
  BY <1>1, <1>2 DEF Hands, Holding

\* A watcher at its beginning, or at its end, has nothing in its hands.
LEMMA HandsEmpty ==
    ASSUME w'.at \in {"none", "sleep", "leaving"}, w'.at = "sleep" => watching'
    PROVE  Hands'
  BY DEF Hands, Holding

\* What the watcher holds stays the watcher's.
LEMMA HandsStep ==
    ASSUME IInv, [Next]_vars
    PROVE  Hands'
<1>0. /\ TypeOK /\ TypeOK' /\ Hands /\ w \in WatchType /\ w.tasks \subseteq Task
      /\ w.read \in [Task -> 0 .. MaxTurn] /\ MaxTries \in Nat /\ turns \in Nat
      /\ reg \in [Task -> {"none", "filed", "retired"}] /\ handed \in [Task -> 0 .. MaxTurn]
      /\ tries \in [Task -> 0 .. MaxTries]
  BY Shapes, Numbers, TypeStep DEF IInv, TypeOK
<1>1. Armed /\ UNCHANGED registry /\ turns <= turns' => Hands'
  <2>1. Watch("sleep", {}).at = "sleep"
    BY Numbers
  <2>2. CASE watching
    BY <1>0, <2>2, HandsRest DEF Armed, registry
  <2>3. CASE ~watching
    BY <2>1, <2>3, HandsEmpty DEF Armed
  <2> QED
    BY <2>2, <2>3
<1>2. CASE Message \/ Say \/ Prompt \/ Hook \/ Drop \/ Rested \/ UNCHANGED vars
           \/ (\E t \in Task : End(t))
  <2>1. UNCHANGED <<watching, w, tries, reg, handed>>
    BY <1>2 DEF Message, Say, Prompt, Hook, Drop, Rested, End, vars, watcher, registry
  <2>2. turns' = turns \/ turns' = turns + 1
    BY <1>2 DEF Message, Say, Prompt, Hook, Drop, Rested, End, vars, Opened
  <2> QED
    BY <1>0, <2>1, <2>2, HandsRest
<1>3. ASSUME NEW t \in Task, Detach(t)
      PROVE  Hands'
  <2>1. life[t] = "none" /\ reg[t] = "none"
    BY <1>3 DEF Detach, IInv, Births
  <2>2. UNCHANGED <<watching, w, tries, handed, turns>> /\ reg' = [reg EXCEPT ![t] = "filed"]
    BY <1>3 DEF Detach, watcher
  <2> QED
    BY <1>0, <2>1, <2>2 DEF Hands, Holding
<1>4. CASE Drain
  BY <1>0, <1>4, HandsRest DEF Drain, Set, watcher
<1>5. CASE Over
  <2>0. turns <= turns' /\ UNCHANGED registry
    BY <1>0, <1>5 DEF Over, Opened
  <2>1. CASE ~turn.update
    <3>1. CASE Armed
      BY <1>1, <2>0, <3>1
    <3>2. CASE UNCHANGED watcher
      BY <1>0, <2>0, <3>2, HandsRest DEF watcher, registry
    <3> QED
      BY <1>5, <2>1, <3>1, <3>2 DEF Over
  <2>2. CASE turn.update /\ w' = w
    BY <1>0, <1>5, <2>0, <2>2, HandsRest DEF Over, registry
  <2>3. CASE /\ turn.update
             /\ w' = [w EXCEPT !.at = IF turn.landed THEN "landed" ELSE "nowhere"]
    <3>1. w.at = "turn"
      BY <1>5 , <2>3 DEF Over, IInv, Updates
    <3>2. w'.at \in {"landed", "nowhere"} /\ w'.tasks = w.tasks
      BY <1>0, <2>3 DEF WatchType
    <3>3. UNCHANGED <<watching, tries, reg, handed>>
      BY <1>5, <2>3 DEF Over, registry
    <3> QED
      BY <1>0, <3>1, <3>2, <3>3 DEF Hands, Holding
  <2> QED
    BY <1>5, <2>1, <2>2, <2>3 DEF Over
<1>6. CASE Start
  <2>1. UNCHANGED registry /\ turns <= turns'
    BY <1>0, <1>6 DEF Start
  <2> QED
    BY <1>0, <1>1, <1>6, <2>1, HandsRest DEF Start, watcher, registry
<1>7. CASE Crash
  BY <1>7, Numbers, HandsEmpty DEF Crash
<1>8. CASE Tick
  <2>1. /\ w'.at = "claims" /\ w'.tasks = {t \in Filed : handed[t] # 0} /\ w'.read = handed
        /\ UNCHANGED <<watching, reg, handed>> /\ w.at = "sleep"
    BY <1>8 DEF Tick, Watch, registry
  <2> QED
    BY <1>0, <2>1, Numbers DEF Hands, Holding
<1>9. ASSUME NEW t \in Task, Claim(t)
      PROVE  Hands'
  <2>1. /\ w'.at = "claims" /\ w'.tasks = w.tasks \ {t} /\ w'.read = w.read /\ w.at = "claims"
        /\ watching' = watching
    BY <1>0, <1>9 DEF Claim, WatchType
  <2>2. \A u \in Task \ {t} : reg'[u] = reg[u] /\ handed'[u] = handed[u]
    BY <1>0, <1>9 DEF Claim
  <2> QED
    BY <1>0, <2>1, <2>2 DEF Hands, Holding
<1>10. CASE Look
  <2>1. /\ w'.at = "cards" /\ w'.tasks = {t \in Filed : Untold(t)} /\ w.at = "claims"
        /\ UNCHANGED <<watching, reg, handed>>
    BY <1>10 DEF Look, Watch, registry
  <2> QED
    BY <1>0, <2>1, Numbers DEF Hands, Holding, Untold
<1>11. CASE Judge
  <2>1. CASE w' = Watch("deliver", Due(w.tasks)) /\ UNCHANGED watching
    <3>1. w'.at = "deliver" /\ w'.tasks = Due(w.tasks) /\ Due(w.tasks) \subseteq w.tasks
      BY <1>0, <2>1, Numbers DEF Due
    <3>2. \A t \in Due(w.tasks) : tries[t] < MaxTries
      BY <1>0 DEF Due, GivenUp
    <3> QED
      BY <1>0, <1>11, <2>1, <3>1, <3>2 DEF Judge, Hands, Holding, registry
  <2>2. CASE w' = Watch("sleep", {}) /\ UNCHANGED watching
    BY <1>0, <1>11, <2>2, Numbers, HandsEmpty DEF Judge, Hands
  <2>3. CASE w' = Watch("leaving", {})
    BY <2>3, Numbers, HandsEmpty
  <2> QED
    BY <1>11, <2>1, <2>2, <2>3 DEF Judge, To
<1>12. CASE Leave
  BY <1>12, Numbers, HandsEmpty DEF Leave, To
<1>13. CASE NotNow \/ Note \/ UpdateOver
  <2>1. w'.at = "sleep" /\ watching' = watching /\ w.at \notin {"none", "leaving"}
    BY <1>13, Numbers DEF NotNow, Note, UpdateOver, To
  <2> QED
    BY <1>0, <2>1, HandsEmpty DEF Hands
<1>14. CASE Put
  <2>1. /\ w'.at = "note" /\ w'.tasks = w.tasks /\ w'.mailbox = turn.id /\ w.at = "deliver"
        /\ UNCHANGED <<watching, reg, handed, tries, turns>>
    BY <1>14 DEF Put, Watch, registry
  <2>2. turn.id \in 1 .. turns
    BY <1>0, <1>14, OpenBox DEF Put, IInv
  <2> QED
    BY <1>0, <2>1, <2>2 DEF Hands, Holding
<1>15. CASE UpdateTurn
  <2>1. /\ w'.at = "turn" /\ w'.tasks = w.tasks /\ w.at = "deliver"
        /\ UNCHANGED <<watching, reg, handed, tries>>
    BY <1>0, <1>15, Numbers DEF UpdateTurn, To, registry
  <2> QED
    BY <1>0, <2>1 DEF Hands, Holding
<1> QED
  BY <1>2, <1>3, <1>4, <1>5, <1>6, <1>7, <1>8, <1>9, <1>10, <1>11, <1>12, <1>13, <1>14, <1>15
     DEF Next, TurnNext, WatcherNext

--------------------------------------------------------------------------------
\* What the agent was told, and what was lost.

\* Nothing of it is taken back.
LEMMA Remembered ==
    ASSUME IInv, [Next]_vars
    PROVE  /\ \A t \in Task : /\ told[t] \in Nat /\ told'[t] \in Nat /\ told[t] <= told'[t]
                              /\ excused[t] \in Nat /\ excused'[t] \in Nat /\ excused[t] <= excused'[t]
           /\ slipped \subseteq slipped' /\ unheld \subseteq unheld'
<1>0. told \in [Task -> Nat] /\ excused \in [Task -> Nat]
  BY DEF IInv, TypeOK
<1>1. CASE UNCHANGED history
  BY <1>0, <1>1 DEF history
<1>2. CASE Prompt \/ Hook
  BY <1>0, <1>2 DEF Prompt, Hook, More
<1>3. CASE Drop
  BY <1>0, <1>3 DEF Drop, More
<1>4. CASE Drain \/ Over \/ (\E t \in Task : Claim(t))
  BY <1>0, <1>4 DEF Drain, Over, Claim
<1>5. CASE Crash
  BY <1>0, <1>5 DEF Crash, More
<1>6. CASE Message \/ Say \/ Rested \/ Start \/ UNCHANGED vars \/ (\E t \in Task : Detach(t) \/ End(t))
  BY <1>1, <1>6 DEF Message, Say, Rested, Start, Detach, End, vars
<1>7. CASE Tick \/ Look \/ Judge \/ Leave \/ Put \/ Note \/ NotNow \/ UpdateTurn \/ UpdateOver
  BY <1>1, <1>7 DEF Tick, Look, Judge, Leave, Put, Note, NotNow, UpdateTurn, UpdateOver
<1> QED
  BY <1>2, <1>3, <1>4, <1>5, <1>6, <1>7 DEF Next, TurnNext, WatcherNext

\* A watcher is armed only where none has anything in its hands.
LEMMA Arms ==
    ASSUME IInv, Armed
    PROVE  \/ UNCHANGED <<watching, w, tries, resting>>
           \/ /\ w.at \in {"none", "leaving"} /\ w'.at = "sleep" /\ w'.tasks = {} /\ watching'
  BY Numbers DEF IInv, Hands, Armed

\* An update turn is the watcher's, from its first round to its end.
LEMMA UpdatesStep ==
    ASSUME IInv, [Next]_vars
    PROVE  Updates'
<1>0. /\ TypeOK /\ Updates /\ turn \in TurnType /\ w \in WatchType /\ w.tasks \subseteq Task
      /\ turn.update \in BOOLEAN /\ turn.landed \in BOOLEAN
      /\ NoTurn.at = "none" /\ NoWatch.at = "none"
  BY Shapes, Numbers DEF IInv, TypeOK
<1>T. \A t \in Task \ slipped' : t \in Task \ slipped /\ (told[t] > 0 => told'[t] > 0)
  BY Remembered
<1>1. ASSUME UNCHANGED <<turn, w>>
      PROVE  Updates'
  BY <1>0, <1>1, <1>T DEF Updates
<1>2. CASE Message
  <2>1. turn'.at = "opening" /\ turn'.update = FALSE /\ w' = w /\ turn.at = "none"
    <3>1. Opened({}, FALSE, 1, FALSE) /\ 1 \in 0 .. MaxRound
      <4>1. 1 \in 0 .. MaxRound
        BY Numbers
      <4> QED
        BY <1>2, <4>1, Zenon DEF Message
    <3>2. turn'.at = "opening" /\ turn'.update = FALSE
      BY <1>0, <3>1, Opens
    <3> QED
      BY <1>2, <3>2 DEF Message, watcher
  <2> QED
    BY <1>0, <1>T, <2>1 DEF Updates
<1>3. CASE Prompt \/ Drain
  <2>1. /\ turn.at # "none" /\ turn'.at # "none" /\ turn'.update = turn.update
        /\ turn'.round = turn.round /\ turn'.brings = turn.brings /\ turn'.landed = turn.landed
        /\ w' = w
    BY <1>0, <1>3 DEF Prompt, Drain, TurnType, watcher
  <2> QED
    BY <1>0, <1>T, <2>1 DEF Updates
<1>4. CASE Drop
  <2>1. PICK how \in {"clean", "empty", "failed", "stopped"} :
          /\ turn.at = "running" \/ (turn.at = "opening" /\ how \in {"failed", "stopped"})
          /\ turn' = [turn EXCEPT !.at = "dropped", !.clean = how \in {"clean", "empty"},
                         !.landed = @ \/ (turn.round = 1 /\ how \in {"clean", "stopped"})]
          /\ slipped' = IF turn.at = "opening" /\ (turn.round > 1 \/ how = "stopped")
                          THEN slipped \cup turn.brings ELSE slipped
    BY <1>4 DEF Drop
  <2>2. /\ turn'.at = "dropped" /\ turn'.update = turn.update /\ turn'.round = turn.round
        /\ turn'.brings = turn.brings
        /\ turn'.landed => turn.landed \/ (turn.round = 1 /\ how \in {"clean", "stopped"})
    BY <1>0, <2>1 DEF TurnType
  <2>3. w' = w /\ told' = told
    BY <1>4 DEF Drop, watcher
  <2>4. ASSUME turn.round = 1, how \in {"clean", "stopped"}, NEW t \in turn.brings \ slipped'
        PROVE  told[t] > 0
    <3>1. CASE turn.at = "running"
      BY <2>4, <3>1 DEF IInv, Prompted
    <3>2. CASE turn.at = "opening"
      BY <2>1, <2>4, <3>2
    <3> QED
      BY <2>1, <3>1, <3>2
  <2> QED
    BY <1>0, <1>T, <2>1, <2>2, <2>3, <2>4 DEF Updates
<1>5. CASE Over
  <2>1. CASE turn.more /\ turns < MaxTurn
    <3>1. turn.round + 1 \in 0 .. MaxRound /\ turn.round + 1 # 1 /\ turn.left \subseteq Task
      BY <1>0, <1>5, <2>1, Shapes, Numbers, OpenBox DEF Over, IInv, Turns
    <3>2. /\ turn'.at = "opening" /\ turn'.update = turn.update /\ turn'.landed = turn.landed
          /\ turn'.round # 1
      <4>1. Opened(turn.left, turn.update, turn.round + 1, turn.landed)
        BY <1>5, <2>1 DEF Over
      <4>2. /\ turn'.at = "opening" /\ turn'.update = turn.update /\ turn'.landed = turn.landed
            /\ turn'.round = turn.round + 1
        BY <4>1 DEF Opened, NoTurn
      <4> QED
        BY <3>1, <4>2
    <3>3. CASE turn.update
      BY <1>0, <1>T, <1>5, <2>1, <3>2, <3>3 DEF Over, Updates
    <3>4. CASE ~turn.update /\ Armed
      BY <1>0, <1>T, <1>5, <3>2, <3>4, Arms DEF Over, Updates
    <3>5. CASE ~turn.update /\ UNCHANGED watcher
      BY <1>0, <1>T, <1>5, <3>2, <3>5 DEF Over, Updates, watcher
    <3> QED
      BY <1>5, <3>3, <3>4, <3>5 DEF Over
  <2>2. CASE ~(turn.more /\ turns < MaxTurn)
    <3>1. turn' = NoTurn /\ turn'.at = "none" /\ turn.at = "drained"
      BY <1>0, <1>5, <2>2 DEF Over
    <3>2. CASE turn.update
      <4>1. w' = [w EXCEPT !.at = IF turn.landed THEN "landed" ELSE "nowhere"]
        BY <1>5, <2>2, <3>2 DEF Over
      <4>2. /\ w'.tasks = w.tasks /\ w'.at # "turn" /\ (w'.at = "landed" => turn.landed)
        BY <1>0, <4>1 DEF WatchType
      <4> QED
        BY <1>0, <1>T, <3>1, <3>2, <4>2 DEF Updates
    <3>3. CASE ~turn.update /\ Armed
      BY <1>0, <1>T, <3>1, <3>3, Arms DEF Updates
    <3>4. CASE ~turn.update /\ UNCHANGED watcher
      BY <1>0, <1>T, <3>1, <3>4 DEF Updates, watcher
    <3> QED
      BY <1>5, <3>2, <3>3, <3>4 DEF Over
  <2> QED
    BY <2>1, <2>2
<1>6. CASE UpdateTurn
  <2>1. w' = Watch("turn", w.tasks) /\ w'.at = "turn" /\ w'.tasks = w.tasks
    BY <1>0, <1>6, Numbers DEF UpdateTurn, To
  <2>2. /\ turn'.at = "opening" /\ turn'.update = TRUE /\ turn'.landed = FALSE
        /\ turn'.brings = w.tasks
    <3>1. Opened(w.tasks, TRUE, 1, FALSE) /\ 1 \in 0 .. MaxRound
      <4>1. 1 \in 0 .. MaxRound
        BY Numbers
      <4> QED
        BY <1>6, <4>1, Zenon DEF UpdateTurn
    <3> QED
      BY <1>0, <3>1, Opens
  <2> QED
    BY <2>1, <2>2 DEF Updates
<1>7. CASE Start
  <2>1. turn' = turn
    BY <1>7 DEF Start
  <2>2. CASE Armed
    BY <1>0, <1>T, <2>1, <2>2, Arms DEF Updates
  <2>3. CASE UNCHANGED watcher
    BY <1>1, <2>1, <2>3 DEF watcher
  <2> QED
    BY <1>7, <2>2, <2>3 DEF Start
<1>8. CASE Crash
  BY <1>0, <1>8 DEF Crash, Updates
<1>9. CASE Tick \/ Look \/ Judge \/ Leave \/ Put \/ Note \/ NotNow \/ UpdateOver
           \/ (\E t \in Task : Claim(t))
  <2>1. turn' = turn /\ w.at # "turn"
    BY <1>9 DEF Tick, Look, Judge, Leave, Put, Note, NotNow, UpdateOver, Claim
  <2>2. w'.at \notin {"turn", "landed"}
    <3>1. CASE Tick \/ Look \/ Put \/ (\E t \in Task : Claim(t))
      BY <1>0, <3>1 DEF Tick, Look, Put, Claim, Watch, WatchType
    <3>2. CASE Judge \/ Leave \/ Note \/ NotNow \/ UpdateOver
      BY <1>0, <3>2 DEF Judge, Leave, Note, NotNow, UpdateOver, To, Watch, NoWatch
    <3> QED
      BY <1>9, <3>1, <3>2
  <2> QED
    BY <1>0, <2>1, <2>2 DEF Updates
<1>10. CASE Say \/ Hook \/ Rested \/ UNCHANGED vars \/ (\E t \in Task : Detach(t) \/ End(t))
  <2>1. UNCHANGED <<turn, w>>
    BY <1>10 DEF Say, Hook, Rested, Detach, End, vars, watcher
  <2> QED
    BY <1>1, <2>1
<1> QED
  BY <1>2, <1>3, <1>4, <1>5, <1>6, <1>7, <1>8, <1>9, <1>10 DEF Next, TurnNext, WatcherNext

--------------------------------------------------------------------------------
\* The mailbox, and what a turn brings.

\* The three ways a turn opens.
LEMMA NewTurn ==
    ASSUME IInv, Message \/ UpdateTurn \/ (Over /\ turn.more /\ turns < MaxTurn)
    PROVE  /\ turn'.at = "opening" /\ turn'.id \in Turn /\ box' = box /\ box'[turn'.id] = {}
           /\ turn'.left = {} /\ registry' = registry /\ told' = told /\ excused' = excused
           /\ unheld' = unheld
<1>1. turns < MaxTurn /\ box' = box /\ registry' = registry /\ told' = told /\ excused' = excused
      /\ unheld' = unheld
  BY DEF Message, UpdateTurn, Over, Opened, mail, history
<1>2. turn'.at = "opening" /\ turn'.id = turns + 1 /\ turn'.left = {}
  BY DEF Message, UpdateTurn, Over, Opened, NoTurn
<1>3. turns \in Nat /\ MaxTurn \in Nat /\ turns + 1 \in Turn /\ turns + 1 > turns
  BY <1>1, Numbers DEF IInv, TypeOK, Turn
<1> QED
  BY <1>1, <1>2, <1>3 DEF IInv, Turns

\* What the watcher's own steps leave alone.
LEMMA WatcherSteps ==
    ASSUME Tick \/ Look \/ Judge \/ Leave \/ NotNow
    PROVE  UNCHANGED <<registry, mail, turn, turns, history>>
  BY DEF Tick, Look, Judge, Leave, NotNow

\* ... and that none of them is about to write down what it put in a mailbox, or opens
\* or ends an update turn.
LEMMA WatcherStands ==
    ASSUME IInv, Tick \/ Look \/ Judge \/ Leave \/ NotNow
    PROVE  /\ w.at \notin {"note", "turn", "landed", "nowhere"}
           /\ w'.at \notin {"note", "turn", "landed", "nowhere"}
<1>1. CASE Tick \/ Look
  BY <1>1 DEF Tick, Look, Watch
<1>2. CASE Judge \/ Leave \/ NotNow
  BY <1>2 DEF Judge, Leave, NotNow, To, Watch, NoWatch
<1> QED
  BY <1>1, <1>2

\* What is in the open mailbox is the turn's.
LEMMA MailedStep ==
    ASSUME IInv, [Next]_vars
    PROVE  Mailed'
<1>0. /\ TypeOK /\ Mailed /\ turn \in TurnType /\ w \in WatchType /\ w.tasks \subseteq Task
      /\ reg \in [Task -> {"none", "filed", "retired"}] /\ handed \in [Task -> 0 .. MaxTurn]
      /\ box \in [Turn -> SUBSET Task]
      /\ turn.at # "none" => turn.id \in Turn /\ turn.id # 0 /\ box[turn.id] \subseteq Task
  <2>1. turn.at # "none" => turn.id \in Turn /\ turn.id # 0 /\ box[turn.id] \subseteq Task
    BY OpenBox DEF IInv, Turn
  <2> QED
    BY <2>1, Shapes DEF IInv, TypeOK
<1>1. ASSUME UNCHANGED <<turn, box, registry>>, w' = w \/ w.at # "note"
      PROVE  Mailed'
  BY <1>0, <1>1 DEF Mailed, registry
<1>2. CASE Message \/ UpdateTurn \/ Over
  <2>1. CASE Over /\ ~(turn.more /\ turns < MaxTurn)
    BY <2>1 DEF Over, NoTurn, Mailed
  <2> QED
    BY <1>2, <2>1, NewTurn DEF Mailed
<1>3. CASE Prompt \/ Drop
  <2>1. /\ turn.at \in {"opening", "running"} /\ turn'.id = turn.id
        /\ UNCHANGED <<box, registry, w>>
    BY <1>0, <1>3 DEF Prompt, Drop, TurnType, mail, watcher
  <2> QED
    BY <1>0, <2>1 DEF Mailed, registry
<1>4. CASE Hook
  BY <1>0, <1>4 DEF Hook, Mailed
<1>5. CASE Drain
  BY <1>0, <1>5 DEF Drain, TurnType, Mailed
<1>6. CASE Crash
  BY <1>6 DEF Crash, NoTurn, Mailed
<1>7. ASSUME NEW t \in Task, Detach(t)
      PROVE  Mailed'
  <2>1. UNCHANGED <<turn, box, handed, w>> /\ \A u \in Task : reg[u] = "filed" => reg'[u] = "filed"
    BY <1>0, <1>7 DEF Detach, mail, watcher
  <2> QED
    BY <1>0, <2>1 DEF Mailed
<1>8. ASSUME NEW t \in Task, End(t)
      PROVE  Mailed'
  BY <1>0, <1>8 DEF End, Mailed, mail, watcher
<1>9. CASE Say \/ Rested \/ UNCHANGED vars
  <2>1. UNCHANGED <<turn, box, registry, w>>
    BY <1>9 DEF Say, Rested, vars, mail, watcher
  <2> QED
    BY <1>1, <2>1
<1>10. CASE Start
  <2>1. UNCHANGED <<turn, box, registry>>
    BY <1>10 DEF Start, mail
  <2>2. w' = w \/ w.at # "note"
    BY <1>10, Arms DEF Start, watcher
  <2> QED
    BY <1>1, <2>1, <2>2
<1>11. CASE Tick \/ Look \/ Judge \/ Leave \/ NotNow
  BY <1>1, <1>11, WatcherSteps, WatcherStands DEF mail
<1>12. ASSUME NEW t \in Task, Claim(t)
      PROVE  Mailed'
  <2>1. /\ w.at = "claims" /\ UNCHANGED <<turn, box>> /\ w.read[t] # 0
        /\ handed[t] \in {0, w.read[t]}
    BY <1>12 DEF Claim, IInv, Hands, mail
  <2>2. \A u \in Task \ {t} : reg'[u] = reg[u] /\ handed'[u] = handed[u]
    BY <1>0, <1>12 DEF Claim
  <2>3. turn.at # "none" /\ handed[t] = turn.id => reg'[t] = reg[t] /\ handed'[t] = handed[t]
    BY <1>0, <1>12, <2>1 DEF Claim, Open
  <2> QED
    BY <1>0, <2>1, <2>2, <2>3 DEF Mailed
<1>13. CASE UpdateOver
  <2>1. /\ w.at \in {"landed", "nowhere"} /\ UNCHANGED <<turn, box, handed>>
        /\ \A t \in Task \ w.tasks : reg'[t] = reg[t]
    BY <1>13 DEF UpdateOver, Set, mail
  <2>2. \A t \in w.tasks : handed[t] = 0
    BY <2>1, WasFiled DEF Holding
  <2> QED
    BY <1>0, <2>1, <2>2 DEF Mailed
<1>14. CASE Put
  <2>1. /\ w.at = "deliver" /\ w'.at = "note" /\ w'.tasks = w.tasks /\ w'.mailbox = turn.id
        /\ turn.at \in {"opening", "running"} /\ UNCHANGED <<turn, registry>>
        /\ box'[turn.id] = box[turn.id] \cup w.tasks
    BY <1>0, <1>14 DEF Put, Watch
  <2>2. \A t \in w.tasks : reg[t] = "filed"
    BY <2>1, WasFiled DEF Holding
  <2> QED
    BY <1>0, <2>1, <2>2 DEF Mailed, registry
<1>15. CASE Note
  <2>1. w.at = "note" /\ UNCHANGED <<turn, box, reg>> /\ handed' = Set(handed, w.tasks, w.mailbox)
    BY <1>15 DEF Note, mail
  <2>2. \A t \in w.tasks : handed[t] = 0
    BY <2>1, WasFiled DEF Holding
  <2>3. \A t \in Task : handed'[t] = IF t \in w.tasks THEN w.mailbox ELSE handed[t]
    BY <2>1 DEF Set
  <2> QED
    BY <1>0, <2>1, <2>2, <2>3 DEF Mailed
<1> QED
  BY <1>2, <1>3, <1>4, <1>5, <1>6, <1>7, <1>8, <1>9, <1>10, <1>11, <1>12, <1>13, <1>14, <1>15
     DEF Next, TurnNext, WatcherNext

\* What a turn has in its hands stays there, until its agent was told; or it is the
\* watcher's again.
LEMMA InTurnStep ==
    ASSUME IInv, [Next]_vars, NEW t \in Task, t \notin slipped', t \in InTurn
    PROVE  t \in InTurn' \/ told'[t] > 0 \/ (w.at = "turn" /\ t \in w.tasks)
<1>0. /\ TypeOK /\ turn \in TurnType /\ t \notin slipped
      /\ turn.at = "none" => turn.brings = {} /\ turn.left = {}
      /\ ~turn.more => turn.left = {}
      /\ turn.more => turn.at = "drained"
  BY Remembered DEF IInv, TypeOK, Turns
<1>1. CASE UNCHANGED turn
  BY <1>1 DEF InTurn
<1>2. CASE Message \/ UpdateTurn
  BY <1>0, <1>2 DEF Message, UpdateTurn, InTurn
<1>3. CASE Over
  <2>1. CASE t \in turn.left
    <3>1. CASE turn.more /\ turns < MaxTurn
      <4>1. turn'.brings = turn.left
        BY <1>3, <3>1 DEF Over, Opened, NoTurn
      <4> QED
        BY <2>1, <4>1 DEF InTurn
    <3>2. CASE ~(turn.more /\ turns < MaxTurn)
      BY <1>0, <1>3, <2>1, <3>2 DEF Over
    <3> QED
      BY <3>1, <3>2
  <2>2. CASE t \in turn.brings
    <3>1. told[t] > 0 \/ (turn.update /\ turn.round = 1)
      BY <1>0, <1>3, <2>2 DEF Over, IInv, Prompted
    <3>2. turn.update /\ turn.round = 1 => w.at = "turn" /\ t \in w.tasks
      BY <1>3, <2>2 DEF Over, IInv, Updates
    <3>3. told' = told
      BY <1>3 DEF Over
    <3> QED
      BY <3>1, <3>2, <3>3
  <2> QED
    BY <2>1, <2>2 DEF InTurn
<1>4. CASE Prompt \/ Drop
  BY <1>0, <1>4 DEF Prompt, Drop, TurnType, InTurn
<1>5. CASE Drain
  BY <1>0, <1>5 DEF Drain, TurnType, InTurn
<1>6. CASE Crash
  BY <1>0, <1>6 DEF Crash, InTurn
<1>7. CASE Say \/ Hook \/ Rested \/ Start \/ UNCHANGED vars
           \/ (\E u \in Task : Detach(u) \/ End(u) \/ Claim(u))
  BY <1>1, <1>7 DEF Say, Hook, Rested, Start, Detach, End, Claim, vars
<1>8. CASE Put \/ Note \/ UpdateOver
  BY <1>1, <1>8 DEF Put, Note, UpdateOver
<1>9. CASE Tick \/ Look \/ Judge \/ Leave \/ NotNow
  BY <1>1, <1>9, WatcherSteps
<1> QED
  BY <1>2, <1>3, <1>4, <1>5, <1>6, <1>7, <1>8, <1>9 DEF Next, TurnNext, WatcherNext

\* What a turn brought was told, unless its turn failed before its prompt.
LEMMA PromptedStep ==
    ASSUME IInv, [Next]_vars
    PROVE  Prompted'
<1>0. /\ TypeOK /\ Prompted /\ turn \in TurnType /\ turn.brings \subseteq Task /\ slipped \subseteq slipped'
      /\ told \in [Task -> Nat] /\ turn.round \in Nat
      /\ \A t \in Task : told[t] > 0 => told'[t] > 0
  BY Remembered, Shapes, Numbers DEF IInv, TypeOK
<1>1. CASE UNCHANGED turn
  BY <1>0, <1>1 DEF Prompted
<1>2. CASE Message \/ UpdateTurn \/ Over
  <2>1. turn'.at \in {"none", "opening"}
    BY <1>2, NewTurn DEF Over, NoTurn
  <2> QED
    BY <2>1 DEF Prompted
<1>3. CASE Prompt
  <2>1. turn'.at = "running" /\ turn'.brings = turn.brings
    BY <1>0, <1>3 DEF Prompt, TurnType
  <2>2. \A t \in turn.brings : told'[t] > 0
    BY <1>0, <1>3 DEF Prompt, More
  <2> QED
    BY <2>1, <2>2 DEF Prompted
<1>4. CASE Drop
  <2>1. /\ turn'.at = "dropped" /\ turn'.brings = turn.brings /\ turn'.update = turn.update
        /\ turn'.round = turn.round
    BY <1>0, <1>4 DEF Drop, TurnType
  <2>2. CASE turn.at = "running"
    BY <1>0, <2>1, <2>2 DEF Prompted
  <2>3. CASE turn.at = "opening"
    <3>1. turn.round >= 1 /\ (turn.round = 1 /\ ~turn.update => turn.brings = {})
      BY <2>3 DEF IInv, Turns
    <3>2. turn.round > 1 => slipped' = slipped \cup turn.brings
      BY <1>4, <2>3 DEF Drop
    <3> QED
      BY <1>0, <2>1, <3>1, <3>2 DEF Prompted
  <2> QED
    BY <1>4, <2>2, <2>3 DEF Drop
<1>5. CASE Drain
  <2>1. /\ turn'.at = "drained" /\ turn.at = "dropped" /\ turn'.brings = turn.brings
        /\ turn'.update = turn.update /\ turn'.round = turn.round
    BY <1>0, <1>5 DEF Drain, TurnType
  <2> QED
    BY <1>0, <2>1 DEF Prompted
<1>6. CASE Crash
  BY <1>6 DEF Crash, NoTurn, Prompted
<1>7. CASE Say \/ Hook \/ Rested \/ Start \/ UNCHANGED vars
           \/ (\E u \in Task : Detach(u) \/ End(u) \/ Claim(u))
  BY <1>1, <1>7 DEF Say, Hook, Rested, Start, Detach, End, Claim, vars
<1>8. CASE Put \/ Note \/ UpdateOver
  BY <1>1, <1>8 DEF Put, Note, UpdateOver
<1>9. CASE Tick \/ Look \/ Judge \/ Leave \/ NotNow
  BY <1>1, <1>9, WatcherSteps
<1> QED
  BY <1>2, <1>3, <1>4, <1>5, <1>6, <1>7, <1>8, <1>9 DEF Next, TurnNext, WatcherNext

\* What a turn brings stays apart from what can be handed on.
LEMMA CarriedStep ==
    ASSUME IInv, [Next]_vars
    PROVE  Carried'
<1>0. /\ TypeOK /\ Carried /\ turn \in TurnType /\ w \in WatchType /\ w.tasks \subseteq Task
      /\ reg \in [Task -> {"none", "filed", "retired"}] /\ handed \in [Task -> 0 .. MaxTurn]
      /\ box \in [Turn -> SUBSET Task]
      /\ turn.at # "drained" => turn.left = {}
      /\ \A t \in Task : handed[t] # 0 => handed[t] \in Turn
  BY Shapes, Indices DEF IInv, TypeOK, Turns
<1>1. ASSUME UNCHANGED <<turn, box, handed>>, w' = w \/ w.at # "note",
             \A t \in Task : reg[t] = "retired" => reg'[t] = "retired"
      PROVE  Carried'
  BY <1>0, <1>1 DEF Carried, Apart
<1>2. CASE Message
  BY <1>2, NewTurn DEF Message, Opened, NoTurn, Carried
<1>3. CASE UpdateTurn
  BY <1>3, NewTurn DEF UpdateTurn, Opened, NoTurn, Carried
<1>4. CASE Over
  <2>1. CASE turn.more /\ turns < MaxTurn
    <3>1. turn'.brings = turn.left /\ turn'.left = {} /\ UNCHANGED <<box, reg, handed>>
      BY <1>4, <2>1 DEF Over, Opened, NoTurn, mail, registry
    <3>2. w' = w \/ w.at # "note"
      BY <1>4, <2>1, Arms DEF Over, watcher
    <3> QED
      BY <1>0, <3>1, <3>2 DEF Carried, Apart
  <2>2. CASE ~(turn.more /\ turns < MaxTurn)
    BY <1>4, <2>2 DEF Over, NoTurn, Carried
  <2> QED
    BY <2>1, <2>2
<1>5. CASE Prompt \/ Drop
  BY <1>0, <1>5 DEF Prompt, Drop, TurnType, Carried
<1>6. CASE Drain
  <2>1. /\ turn.at = "dropped" /\ turn'.at = "drained" /\ turn.id \in Turn /\ turn.id # 0
        /\ box' = [box EXCEPT ![turn.id] = {}] /\ reg' = reg /\ w' = w
    BY <1>0, <1>6, OpenBox DEF Drain, TurnType, watcher, IInv, Turn
  <2>2. CASE words[turn.id] /\ turn'.left = box[turn.id]
    <3>1. handed' = [t \in Task |-> handed[t]]
      BY <1>6, <2>2 DEF Drain, Set
    <3> QED
      BY <1>0, <2>1, <2>2, <3>1 DEF IInv, Mailed, Carried, Apart
  <2>3. CASE turn'.left = {}
    BY <2>1, <2>3 DEF Carried
  <2> QED
    BY <1>0, <1>6, <2>2, <2>3 DEF Drain, TurnType
<1>7. CASE Crash
  BY <1>7 DEF Crash, NoTurn, Carried
<1>8. CASE Hook
  BY <1>0, <1>8 DEF Hook, Carried
<1>9. CASE Say \/ Rested \/ Start \/ UNCHANGED vars \/ (\E t \in Task : Detach(t) \/ End(t))
  <2>1. UNCHANGED <<turn, box, handed>> /\ \A t \in Task : reg[t] = "retired" => reg'[t] = "retired"
    BY <1>0, <1>9 DEF Say, Rested, Start, Detach, End, vars, mail, registry, IInv, Births
  <2>2. w' = w \/ w.at # "note"
    BY <1>9, Arms DEF Say, Rested, Start, Detach, End, vars, watcher
  <2> QED
    BY <1>1, <2>1, <2>2
<1>10. CASE Tick \/ Look \/ Judge \/ Leave \/ NotNow
  BY <1>1, <1>10, WatcherSteps, WatcherStands DEF mail, registry
<1>11. ASSUME NEW t \in Task, Claim(t)
      PROVE  Carried'
  <2>1. /\ w.at = "claims" /\ UNCHANGED <<turn, box>> /\ w.read[t] # 0
        /\ handed[t] \in {0, w.read[t]}
    BY <1>11 DEF Claim, IInv, Hands, mail
  <2>2. \A u \in Task \ {t} : reg'[u] = reg[u] /\ handed'[u] = handed[u]
    BY <1>0, <1>11 DEF Claim
  <2>3. Apart(t) => Apart(t)'
    BY <1>0, <1>11, <2>1 DEF Claim, Apart
  <2> QED
    BY <1>0, <2>1, <2>2, <2>3 DEF Carried, Apart
<1>12. CASE UpdateOver
  <2>1. /\ UNCHANGED <<turn, box, handed>> /\ w.at # "note"
        /\ \A t \in Task : reg[t] = "retired" => reg'[t] = "retired"
    BY <1>0, <1>12 DEF UpdateOver, Set, mail
  <2> QED
    BY <1>1, <2>1
<1>13. CASE Put
  <2>1. /\ w.at = "deliver" /\ turn.at \in {"opening", "running"} /\ UNCHANGED <<turn, reg, handed>>
        /\ \A i \in Turn : box'[i] \subseteq box[i] \cup w.tasks
    BY <1>0, <1>13 DEF Put, registry
  <2>2. \A t \in w.tasks : handed[t] = 0
    BY <2>1, WasFiled DEF Holding
  <2> QED
    BY <1>0, <2>1, <2>2 DEF Carried, Apart
<1>14. CASE Note
  <2>1. w.at = "note" /\ UNCHANGED <<turn, box, reg>> /\ handed' = Set(handed, w.tasks, w.mailbox)
    BY <1>14 DEF Note, mail
  <2>2. \A t \in w.tasks : handed[t] = 0
    BY <2>1, WasFiled DEF Holding
  <2>3. \A t \in Task : handed'[t] = IF t \in w.tasks THEN w.mailbox ELSE handed[t]
    BY <2>1 DEF Set
  <2>4. w.mailbox # 0
    BY <2>1 DEF IInv, Hands
  <2> QED
    BY <1>0, <2>1, <2>2, <2>3, <2>4 DEF Carried, Apart
<1> QED
  BY <1>2, <1>3, <1>4, <1>5, <1>6, <1>7, <1>8, <1>9, <1>10, <1>11, <1>12, <1>13, <1>14
     DEF Next, TurnNext, WatcherNext

\* What was handed over is still in its mailbox, or was told, or is in a turn's hands.
LEMMA HandedStep ==
    ASSUME IInv, [Next]_vars
    PROVE  Handed'
<1>0. /\ TypeOK /\ Handed /\ turn \in TurnType /\ w \in WatchType /\ w.tasks \subseteq Task
      /\ reg \in [Task -> {"none", "filed", "retired"}] /\ handed \in [Task -> 0 .. MaxTurn]
      /\ box \in [Turn -> SUBSET Task] /\ slipped \subseteq slipped' /\ told \in [Task -> Nat]
      /\ \A t \in Task : handed[t] # 0 => handed[t] \in Turn
      /\ \A t \in Task : reg[t] = "none" => handed[t] = 0
      /\ w.at \in Holding => \A t \in w.tasks : reg[t] = "filed" /\ handed[t] = 0
      /\ w.at = "note" => w.mailbox \in Turn
  <2>1. w.at = "note" => w.mailbox \in Turn
    BY Shapes, Numbers DEF IInv, Hands, Turn
  <2>2. \A t \in Task : handed[t] # 0 => handed[t] \in Turn
    BY Indices DEF IInv
  <2> QED
    BY <2>1, <2>2, Shapes, Remembered, WasFiled DEF IInv, TypeOK, Births
<1>H. \A t \in Task \ slipped' : Heard(t) => Heard(t)' \/ (w.at = "turn" /\ t \in w.tasks)
  BY InTurnStep, Remembered DEF Heard
<1>1. ASSUME \A i \in Turn : box[i] \subseteq box'[i],
             \A t \in Task : reg'[t] = "filed" /\ handed'[t] # 0 =>
                                reg[t] = "filed" /\ handed'[t] = handed[t],
             w' = w \/ w'.at # "note"
      PROVE  Handed'
  <2>1. ASSUME NEW t \in Task \ slipped', reg'[t] = "filed", handed'[t] # 0
        PROVE  t \in box'[handed'[t]] \/ Heard(t)'
    BY <1>0, <1>1, <1>H, <2>1 DEF Handed, Holding
  <2>2. ASSUME NEW t \in Task \ slipped', w'.at = "note", t \in w'.tasks
        PROVE  t \in box'[w'.mailbox] \/ Heard(t)'
    BY <1>0, <1>1, <1>H, <2>2 DEF Handed
  <2> QED
    BY <2>1, <2>2 DEF Handed
<1>2. CASE Message \/ UpdateTurn \/ Over \/ Prompt \/ Drop
  <2>1. UNCHANGED <<box, reg, handed>>
    BY <1>2 DEF Message, UpdateTurn, Over, Prompt, Drop, mail, registry
  <2>2. w' = w \/ w'.at # "note"
    <3>1. CASE Message \/ Prompt \/ Drop
      BY <3>1 DEF Message, Prompt, Drop, watcher
    <3>2. CASE UpdateTurn
      BY <3>2 DEF UpdateTurn, To, Watch
    <3>3. CASE Over
      BY <1>0, <3>3, Arms DEF Over, WatchType, watcher
    <3> QED
      BY <1>2, <3>1, <3>2, <3>3
  <2> QED
    BY <1>1, <2>1, <2>2
<1>3. CASE Hook
  <2>1. /\ turn.id \in Turn /\ box' = [box EXCEPT ![turn.id] = {}] /\ turn' = turn
        /\ UNCHANGED <<reg, handed, w>>
    BY <1>3, OpenBox DEF Hook, IInv, registry, watcher
  <2>2. \A t \in box[turn.id] : told'[t] > 0
    BY <1>0, <1>3, <2>1 DEF Hook, More
  <2> QED
    BY <1>0, <1>H, <2>1, <2>2 DEF Handed, Heard, Holding
<1>4. CASE Drain
  <2>1. /\ turn.at = "dropped" /\ turn.id \in Turn /\ turn.id # 0 /\ turn'.brings = turn.brings
        /\ box' = [box EXCEPT ![turn.id] = {}] /\ reg' = reg /\ w' = w
    BY <1>0, <1>4, OpenBox DEF Drain, TurnType, watcher, IInv, Turn
  <2>2. ASSUME NEW t \in box[turn.id], t \notin slipped'
        PROVE  t \in turn'.left \/ (handed[t] = turn.id /\ handed'[t] = 0)
    <3>1. CASE words[turn.id]
      BY <1>0, <1>4, <2>1, <2>2, <3>1 DEF Drain, TurnType
    <3>2. CASE ~words[turn.id]
      <4>1. handed[t] = turn.id /\ t \in Task /\ reg[t] = "filed"
        BY <1>0, <1>4, <2>1, <2>2, <3>2 DEF Drain, IInv, Mailed
      <4> QED
        BY <1>4, <2>2, <3>2, <4>1 DEF Drain, Set, Filed
    <3> QED
      BY <3>1, <3>2
  <2>3. \A t \in Task : handed'[t] \in {handed[t], 0}
    BY <1>4 DEF Drain, Set
  <2>4. \A t \in w.tasks : w.at = "note" => handed[t] = 0
    BY <1>0 DEF Holding
  <2>5. ASSUME NEW t \in Task \ slipped', reg'[t] = "filed", handed'[t] # 0
        PROVE  t \in box'[handed'[t]] \/ Heard(t)'
    BY <1>0, <1>H, <2>1, <2>2, <2>3, <2>5 DEF Handed, Holding, Heard, InTurn
  <2>6. ASSUME NEW t \in Task \ slipped', w'.at = "note", t \in w'.tasks
        PROVE  t \in box'[w'.mailbox] \/ Heard(t)'
    BY <1>0, <1>H, <2>1, <2>2, <2>4, <2>6 DEF Handed, Heard, InTurn
  <2> QED
    BY <2>5, <2>6 DEF Handed
<1>5. CASE Crash
  <2>1. /\ NoWatch.at = "none" /\ w' = NoWatch /\ UNCHANGED <<reg, handed, told>>
        /\ turn.left \cup turn.brings \subseteq slipped'
        /\ box' = box \/ \A i \in Turn : box[i] \subseteq slipped'
    BY <1>5, Numbers DEF Crash, mail, registry
  <2> QED
    BY <1>0, <2>1 DEF Handed, Heard, InTurn
<1>6. CASE Say \/ Rested \/ Start \/ UNCHANGED vars \/ (\E t \in Task : Detach(t) \/ End(t))
  <2>1. /\ box' = box /\ handed' = handed
        /\ \A t \in Task : handed[t] # 0 /\ reg'[t] = "filed" => reg[t] = "filed"
    BY <1>0, <1>6 DEF Say, Rested, Start, Detach, End, vars, mail, registry, IInv, Births
  <2>2. w' = w \/ w'.at # "note"
    BY <1>6, Arms DEF Say, Rested, Start, Detach, End, vars, watcher
  <2> QED
    BY <1>1, <2>1, <2>2
<1>7. CASE Tick \/ Look \/ Judge \/ Leave \/ NotNow
  BY <1>1, <1>7, WatcherSteps, WatcherStands DEF mail, registry
<1>8. ASSUME NEW t \in Task, Claim(t)
      PROVE  Handed'
  <2>1. box' = box /\ w'.at # "note"
    BY <1>0, <1>8 DEF Claim, WatchType, mail
  <2>2. \A u \in Task : reg'[u] = "filed" /\ handed'[u] # 0 => reg[u] = "filed" /\ handed'[u] = handed[u]
    BY <1>0, <1>8 DEF Claim
  <2> QED
    BY <1>1, <2>1, <2>2
<1>9. CASE UpdateOver
  <2>1. /\ box' = box /\ handed' = handed /\ w'.at # "note"
        /\ \A t \in Task : reg'[t] = "filed" => reg[t] = "filed"
    BY <1>0, <1>9 DEF UpdateOver, Set, mail, To, Watch
  <2> QED
    BY <1>1, <2>1
<1>10. CASE Put
  <2>1. /\ turn.id \in Turn /\ UNCHANGED <<reg, handed>> /\ w'.tasks = w.tasks
        /\ w'.mailbox = turn.id /\ w.at = "deliver"
        /\ box' = [box EXCEPT ![turn.id] = @ \cup w.tasks]
    BY <1>10, OpenBox DEF Put, Watch, IInv, registry
  <2> QED
    BY <1>0, <1>H, <2>1 DEF Handed, Holding
<1>11. CASE Note
  <2>1. /\ w.at = "note" /\ UNCHANGED <<turn, box, reg, told>> /\ w'.at = "sleep"
        /\ handed' = Set(handed, w.tasks, w.mailbox) /\ slipped' = slipped
    BY <1>11, Numbers DEF Note, mail, history, To
  <2>2. \A t \in Task : handed'[t] = IF t \in w.tasks THEN w.mailbox ELSE handed[t]
    BY <2>1 DEF Set
  <2> QED
    BY <1>0, <2>1, <2>2 DEF Handed, Heard, InTurn
<1> QED
  BY <1>2, <1>3, <1>4, <1>5, <1>6, <1>7, <1>8, <1>9, <1>10, <1>11 DEF Next, TurnNext, WatcherNext

\* A registration goes only when the end of its task was told, or is being told, or was
\* lost with a mailbox.
LEMMA EndsHeardStep ==
    ASSUME IInv, [Next]_vars
    PROVE  EndsHeard'
<1>0. /\ TypeOK /\ EndsHeard /\ w.tasks \subseteq Task /\ slipped \subseteq slipped'
      /\ reg \in [Task -> {"none", "filed", "retired"}]
      /\ w.at \in Holding => \A t \in w.tasks : reg[t] = "filed"
  BY Shapes, Remembered, WasFiled DEF IInv, TypeOK
<1>H. \A t \in Task \ slipped' : Heard(t) => Heard(t)' \/ (w.at = "turn" /\ t \in w.tasks)
  BY InTurnStep, Remembered DEF Heard
<1>1. ASSUME \A t \in Task : reg'[t] = "retired" => reg[t] = "retired"
      PROVE  EndsHeard'
  BY <1>0, <1>1, <1>H DEF EndsHeard, Heard, InTurn, Holding
<1>2. ASSUME NEW t \in Task, Claim(t)
      PROVE  EndsHeard'
  <2>1. \A u \in Task \ {t} : reg'[u] = reg[u]
    BY <1>0, <1>2 DEF Claim
  <2>2. ASSUME reg'[t] = "retired", t \notin slipped'
        PROVE  Heard(t)
    <3>1. /\ reg[t] = "filed" /\ w.at = "claims" /\ w.read[t] # 0
          /\ w.read[t] = handed[t] /\ t \notin box[handed[t]]
      BY <1>0, <1>2, <2>2 DEF Claim, IInv, Hands
    <3> QED
      BY <1>0, <2>2, <3>1 DEF IInv, Handed
  <2>3. w.at = "claims"
    BY <1>2 DEF Claim
  <2> QED
    BY <1>0, <1>H, <2>1, <2>2, <2>3 DEF EndsHeard, Heard, InTurn
<1>3. CASE UpdateOver
  <2>1. CASE w.at = "landed"
    <3>1. /\ UNCHANGED <<told, slipped, turn>>
          /\ \A t \in Task : reg'[t] = IF t \in w.tasks THEN "retired" ELSE reg[t]
      BY <1>3, <2>1 DEF UpdateOver, Set, history
    <3>2. \A t \in w.tasks \ slipped : told[t] > 0
      BY <2>1 DEF IInv, Updates
    <3> QED
      BY <1>0, <3>1, <3>2 DEF EndsHeard
  <2>2. CASE w.at = "nowhere"
    BY <1>1, <1>3, <2>2 DEF UpdateOver
  <2> QED
    BY <1>3, <2>1, <2>2 DEF UpdateOver
<1>4. CASE Message \/ Say \/ TurnNext \/ Rested \/ Crash \/ Start \/ UNCHANGED vars
  BY <1>1, <1>4 DEF Message, Say, TurnNext, Prompt, Hook, Drop, Drain, Over, Rested, Crash, Start,
                    vars, registry
<1>5. ASSUME NEW t \in Task, Detach(t) \/ End(t)
      PROVE  EndsHeard'
  BY <1>0, <1>1, <1>5 DEF Detach, End
<1>6. CASE Tick \/ Look \/ Judge \/ Leave \/ NotNow \/ Put \/ Note \/ UpdateTurn
  BY <1>1, <1>6 DEF Tick, Look, Judge, Leave, NotNow, Put, Note, UpdateTurn, registry
<1> QED
  BY <1>2, <1>3, <1>4, <1>5, <1>6 DEF Next, WatcherNext

\* Nor does a retired one come to be in a mailbox.
LEMMA BoxedStep ==
    ASSUME IInv, [Next]_vars
    PROVE  Boxed'
<1>0. /\ TypeOK /\ Boxed /\ w.tasks \subseteq Task
      /\ reg \in [Task -> {"none", "filed", "retired"}] /\ handed \in [Task -> 0 .. MaxTurn]
      /\ box \in [Turn -> SUBSET Task]
      /\ \A t \in Task : handed[t] # 0 => handed[t] \in Turn
      /\ w.at \in Holding => \A t \in w.tasks : reg[t] = "filed" /\ handed[t] = 0
  BY Shapes, Indices, WasFiled DEF IInv, TypeOK
<1>1. ASSUME \A i \in Turn : box'[i] \subseteq box[i],
             \A t \in Task : /\ handed'[t] \in {handed[t], 0}
                             /\ handed'[t] # 0 /\ reg[t] = "filed" /\ t \in box[handed[t]] =>
                                    reg'[t] = "filed"
      PROVE  Boxed'
  BY <1>0, <1>1 DEF Boxed
<1>2. CASE Message \/ UpdateTurn \/ Over \/ Prompt \/ Drop \/ Say \/ Rested \/ Start \/ UNCHANGED vars
  BY <1>1, <1>2 DEF Message, UpdateTurn, Over, Prompt, Drop, Say, Rested, Start, vars, mail, registry
<1>3. CASE Hook
  BY <1>0, <1>1, <1>3, OpenBox DEF Hook, registry, IInv
<1>4. CASE Drain
  BY <1>0, <1>1, <1>4, OpenBox DEF Drain, Set, IInv
<1>5. CASE Crash
  BY <1>0, <1>1, <1>5 DEF Crash, registry, mail
<1>6. ASSUME NEW t \in Task, Detach(t) \/ End(t)
      PROVE  Boxed'
  BY <1>0, <1>1, <1>6 DEF Detach, End, mail
<1>7. CASE Tick \/ Look \/ Judge \/ Leave \/ NotNow
  BY <1>1, <1>7, WatcherSteps DEF mail, registry
<1>8. ASSUME NEW t \in Task, Claim(t)
      PROVE  Boxed'
  <2>1. handed[t] \in {0, w.read[t]} /\ w.read[t] # 0 /\ box' = box
    BY <1>8 DEF Claim, IInv, Hands, mail
  <2>2. \A u \in Task \ {t} : reg'[u] = reg[u] /\ handed'[u] = handed[u]
    BY <1>0, <1>8 DEF Claim
  <2>3. handed'[t] # 0 /\ t \in box[handed[t]] => reg'[t] = reg[t]
    BY <1>0, <1>8, <2>1 DEF Claim
  <2>4. handed'[t] \in {handed[t], 0}
    BY <1>0, <1>8 DEF Claim
  <2> QED
    BY <1>1, <2>1, <2>2, <2>3, <2>4
<1>9. CASE UpdateOver
  BY <1>0, <1>1, <1>9 DEF UpdateOver, Set, mail, Holding
<1>10. CASE Put
  <2>1. /\ turn.id \in Turn /\ UNCHANGED <<reg, handed>> /\ w.at = "deliver"
        /\ box' = [box EXCEPT ![turn.id] = @ \cup w.tasks]
    BY <1>10, OpenBox DEF Put, IInv, registry
  <2> QED
    BY <1>0, <2>1 DEF Boxed, Holding
<1>11. CASE Note
  <2>1. w.at = "note" /\ UNCHANGED <<box, reg>> /\ handed' = Set(handed, w.tasks, w.mailbox)
    BY <1>11 DEF Note, mail
  <2>2. \A t \in Task : handed'[t] = IF t \in w.tasks THEN w.mailbox ELSE handed[t]
    BY <2>1 DEF Set
  <2> QED
    BY <1>0, <2>1, <2>2 DEF Boxed, Holding
<1> QED
  BY <1>2, <1>3, <1>4, <1>5, <1>6, <1>7, <1>8, <1>9, <1>10, <1>11 DEF Next, TurnNext, WatcherNext

\* A task that is not told of now, and comes no nearer to it.
LEMMA OnceRests ==
    ASSUME IInv, [Next]_vars, NEW t \in Task, t \notin unheld',
           told'[t] = told[t],
           reg'[t] = "filed" => reg[t] = "filed",
           handed'[t] = handed[t],
           handed[t] # 0 /\ t \in box'[handed[t]] => t \in box[handed[t]],
           w' = w \/ {w.at, w'.at} \cap {"note", "turn", "landed"} = {},
           t \in w.tasks /\ w.at = "note" /\ t \in box'[w.mailbox] => t \in box[w.mailbox],
           Brings(t)' => Brings(t) \/ Calm(t)',
           w.at = "turn" /\ t \in w.tasks /\ ~turn'.landed /\ ~(turn'.at = "running" /\ turn'.round = 1)
              => Calm(t)' \/ (~turn.landed /\ ~(turn.at = "running" /\ turn.round = 1))
    PROVE  Once(t)'
<1>1. Once(t) /\ told[t] \in Nat /\ excused[t] \in Nat /\ excused'[t] \in Nat /\ excused[t] <= excused'[t]
  BY Remembered DEF IInv, Onces
<1>2. Calm(t) => Calm(t)'
  BY <1>1 DEF Calm
<1>3. told'[t] <= 1 + excused'[t]
  BY <1>1 DEF Once
<1>4. CASE w' = w
  BY <1>1, <1>2, <1>3, <1>4 DEF Once
<1>5. CASE {w.at, w'.at} \cap {"note", "turn", "landed"} = {}
  BY <1>1, <1>2, <1>3, <1>5 DEF Once
<1> QED
  BY <1>4, <1>5

\* The end of a task is told at most once more than it was lost.
LEMMA OncesStep ==
    ASSUME IInv, [Next]_vars
    PROVE  Onces'
<1>0. /\ TypeOK /\ Onces /\ turn \in TurnType /\ w \in WatchType /\ w.tasks \subseteq Task
      /\ reg \in [Task -> {"none", "filed", "retired"}] /\ handed \in [Task -> 0 .. MaxTurn]
      /\ box \in [Turn -> SUBSET Task] /\ unheld \subseteq unheld'
      /\ turn.at # "drained" => turn.left = {}
      /\ \A t \in Task : handed[t] # 0 => handed[t] \in Turn
      /\ w.at \in Holding => \A t \in w.tasks : reg[t] = "filed" /\ handed[t] = 0
      /\ w.at = "note" => w.mailbox \in Turn
  <2>1. w.at = "note" => w.mailbox \in Turn
    BY Shapes, Numbers DEF IInv, Hands, Turn
  <2>2. \A t \in Task : handed[t] # 0 => handed[t] \in Turn
    BY Indices DEF IInv
  <2> QED
    BY <2>1, <2>2, Shapes, Remembered, WasFiled DEF IInv, TypeOK, Turns
<1>N. \A t \in Task : told[t] \in Nat /\ excused[t] \in Nat /\ excused'[t] \in Nat /\ excused[t] <= excused'[t]
  BY Remembered
<1> SUFFICES ASSUME NEW t \in Task, t \notin unheld'
             PROVE  Once(t)'
  BY DEF Onces
<1>M. Once(t)
  BY <1>0 DEF Onces
<1>1. CASE UNCHANGED <<turn, reg, handed, box, told>> /\ (w' = w \/ {w.at, w'.at} \cap {"note", "turn", "landed"} = {})
  BY <1>1, OnceRests DEF Brings
<1>2. CASE Message
  <2>1. turn'.brings = {} /\ turn'.left = {} /\ turn.at = "none" /\ w' = w
    BY <1>2 DEF Message, Opened, NoTurn, watcher
  <2>2. w.at # "turn"
    BY <2>1 DEF IInv, Updates
  <2> QED
    BY <1>2, <2>1, <2>2, NewTurn, OnceRests DEF Brings, registry
<1>3. CASE UpdateTurn
  <2>1. /\ turn'.brings = w.tasks /\ turn'.left = {} /\ w.at = "deliver" /\ w'.at = "turn"
        /\ w'.tasks = w.tasks
    BY <1>3, Numbers DEF UpdateTurn, Opened, NoTurn, To, Watch
  <2>2. UNCHANGED <<reg, handed, box, told, excused>>
    BY <1>3, NewTurn DEF registry
  <2>3. t \in w.tasks => Calm(t)
    BY <1>0, <1>M, <2>1 DEF Once, Holding
  <2> QED
    BY <1>M, <2>1, <2>2, <2>3 DEF Once, Calm, Brings
<1>4. CASE Over
  <2>0. UNCHANGED <<reg, handed, box, told, excused>> /\ turn.at = "drained"
    BY <1>4 DEF Over, mail, registry
  <2>1. Brings(t)' => Brings(t)
    <3>1. CASE turn.more /\ turns < MaxTurn
      <4>1. turn'.brings = turn.left /\ turn'.left = {}
        BY <1>4, <3>1 DEF Over, Opened, NoTurn
      <4> QED
        BY <4>1 DEF Brings
    <3>2. CASE ~(turn.more /\ turns < MaxTurn)
      <4>1. turn'.at = "none" /\ turn'.left = {}
        BY <1>4, <3>2, Numbers DEF Over
      <4> QED
        BY <4>1 DEF Brings
    <3> QED
      BY <3>1, <3>2
  <2>2. CASE turn.more /\ turns < MaxTurn
    <3>1. turn'.landed = turn.landed
      BY <1>4, <2>2 DEF Over, Opened, NoTurn
    <3>2. w' = w \/ {w.at, w'.at} \cap {"note", "turn", "landed"} = {}
      BY <1>4, <2>2, Arms DEF Over, watcher
    <3> QED
      BY <2>0, <2>1, <3>1, <3>2, OnceRests
  <2>3. CASE ~(turn.more /\ turns < MaxTurn) /\ turn.update
    <3>1. /\ w.at = "turn" /\ w'.tasks = w.tasks /\ turn'.at = "none"
          /\ w'.at = IF turn.landed THEN "landed" ELSE "nowhere"
      <4>1. w.at = "turn"
        BY <2>0, <2>3 DEF IInv, Updates
      <4>2. turn' = NoTurn /\ w' = [w EXCEPT !.at = IF turn.landed THEN "landed" ELSE "nowhere"]
        BY <1>4, <2>3 DEF Over
      <4> QED
        BY <1>0, <4>1, <4>2, Numbers DEF WatchType
    <3>2. t \in w.tasks /\ ~turn.landed => Calm(t)
      BY <1>M, <2>0, <3>1 DEF Once
    <3> QED
      BY <1>M, <2>0, <2>1, <3>1, <3>2 DEF Once, Calm
  <2>4. CASE ~(turn.more /\ turns < MaxTurn) /\ ~turn.update
    <3>1. w' = w \/ {w.at, w'.at} \cap {"note", "turn", "landed"} = {}
      BY <1>4, <2>4, Arms DEF Over, watcher
    <3>2. w.at # "turn"
      BY <2>4 DEF IInv, Updates
    <3> QED
      BY <2>0, <2>1, <3>1, <3>2, OnceRests
  <2> QED
    BY <2>2, <2>3, <2>4
<1>5. CASE Prompt
  <2>1. /\ turn.at = "opening" /\ turn'.at = "running" /\ turn'.round = turn.round /\ turn'.left = {}
        /\ turn'.landed = turn.landed /\ UNCHANGED <<reg, handed, box, w, excused>>
        /\ told' = More(told, turn.brings)
    BY <1>0, <1>5 DEF Prompt, TurnType, registry, mail, watcher
  <2>2. CASE t \notin turn.brings
    <3>1. told'[t] = told[t]
      BY <2>1, <2>2 DEF More
    <3> QED
      BY <2>1, <3>1, OnceRests DEF Brings
  <2>3. CASE t \in turn.brings
    <3>1. told'[t] = told[t] + 1 /\ told[t] <= excused[t]
      BY <1>M, <2>1, <2>3 DEF More, Once, Brings, Calm
    <3>2. Apart(t) \/ (turn.update /\ turn.round = 1)
      BY <2>1, <2>3 DEF IInv, Carried
    <3>3. CASE Apart(t)
      <4>1. ~(reg[t] = "filed" /\ handed[t] = 0 /\ ~(w.at = "note" /\ t \in w.tasks))
        BY <3>3 DEF Apart
      <4>2. ~(handed[t] # 0 /\ t \in box[handed[t]])
        BY <1>0, <3>3 DEF Apart, IInv, Boxed, Holding
      <4>3. ~(w.at = "note" /\ t \in w.tasks /\ t \in box[w.mailbox])
        BY <1>0, <3>3 DEF Apart, Holding
      <4>4. ~(w.at = "turn" /\ t \in w.tasks)
        BY <1>0, <3>3 DEF Apart, Holding
      <4> QED
        BY <1>N, <2>1, <3>1, <4>1, <4>2, <4>3, <4>4 DEF Once, Brings
    <3>4. CASE turn.update /\ turn.round = 1
      <4>1. w.at = "turn" /\ t \in w.tasks /\ handed[t] = 0
        BY <1>0, <2>1, <2>3, <3>4 DEF IInv, Updates, Holding
      <4> QED
        BY <1>N, <2>1, <3>1, <3>4, <4>1 DEF Once, Brings
    <3> QED
      BY <3>2, <3>3, <3>4
  <2> QED
    BY <2>2, <2>3
<1>6. CASE Drop
  <2>1. PICK how \in {"clean", "empty", "failed", "stopped"} :
          /\ turn.at = "running" \/ (turn.at = "opening" /\ how \in {"failed", "stopped"})
          /\ turn' = [turn EXCEPT !.at = "dropped", !.clean = how \in {"clean", "empty"},
                         !.landed = @ \/ (turn.round = 1 /\ how \in {"clean", "stopped"})]
          /\ excused' = IF turn.at = "running" /\ how \in {"empty", "failed"}
                          THEN More(excused, turn.brings) ELSE excused
    BY <1>6 DEF Drop
  <2>2. /\ turn'.at = "dropped" /\ turn'.left = {} /\ UNCHANGED <<reg, handed, box, w, told>>
        /\ turn.landed => turn'.landed
        /\ turn.round = 1 /\ how \in {"clean", "stopped"} => turn'.landed
    BY <1>0, <1>6, <2>1 DEF Drop, TurnType, registry, mail, watcher
  <2>3. ASSUME w.at = "turn", t \in w.tasks, ~turn'.landed, turn.at = "running", turn.round = 1
        PROVE  Calm(t)'
    <3>1. how \in {"empty", "failed"} /\ t \in turn.brings
      BY <2>2, <2>3 DEF IInv, Updates
    <3>2. excused'[t] = excused[t] + 1
      BY <2>1, <2>3, <3>1 DEF More
    <3> QED
      BY <1>N, <1>M, <2>2, <3>2 DEF Once, Calm
  <2> QED
    BY <2>1, <2>2, <2>3, OnceRests DEF Brings
<1>7. CASE Drain
  <2>1. /\ turn.at = "dropped" /\ turn'.at = "drained" /\ turn.id \in Turn /\ turn.id # 0
        /\ turn'.landed = turn.landed /\ (turn'.left = {} \/ turn'.left = box[turn.id])
        /\ box' = [box EXCEPT ![turn.id] = {}] /\ UNCHANGED <<reg, w, told, excused>>
    BY <1>0, <1>7, OpenBox DEF Drain, TurnType, watcher, IInv, Turn
  <2>2. t \in box[turn.id] => Calm(t)
    BY <1>M, <2>1 DEF IInv, Mailed, Once
  <2>3. Brings(t)' => Calm(t)'
    BY <2>1, <2>2 DEF Brings, Calm
  <2>4. CASE handed'[t] = handed[t]
    BY <1>0, <2>1, <2>3, <2>4, OnceRests
  <2>5. CASE handed'[t] # handed[t]
    <3>1. handed'[t] = 0 /\ t \in box[turn.id]
      BY <1>0, <1>7, <2>5 DEF Drain, Set
    <3> QED
      BY <1>M, <2>1, <2>2, <3>1 DEF Once, Calm
  <2> QED
    BY <2>4, <2>5
<1>8. CASE Hook
  <2>1. /\ turn.at = "running" /\ turn.id \in Turn /\ turn.id # 0 /\ turn' = turn
        /\ box' = [box EXCEPT ![turn.id] = {}] /\ UNCHANGED <<reg, handed, w, excused>>
        /\ told' = More(told, box[turn.id])
    BY <1>8, OpenBox DEF Hook, watcher, registry, IInv, Turn
  <2>2. CASE t \notin box[turn.id]
    <3>1. told'[t] = told[t]
      BY <2>1, <2>2 DEF More
    <3> QED
      BY <1>0, <2>1, <3>1, OnceRests DEF Brings
  <2>3. CASE t \in box[turn.id]
    <3>1. \/ handed[t] = turn.id
          \/ w.at = "note" /\ t \in w.tasks /\ w.mailbox = turn.id
      BY <2>1, <2>3 DEF IInv, Mailed
    <3>2. told'[t] = told[t] + 1 /\ told[t] <= excused[t]
      BY <1>M, <2>1, <2>3, <3>1 DEF More, Once, Calm
    <3>3. ~Brings(t)'
      BY <1>0, <2>1 DEF Brings
    <3> QED
      BY <1>0, <1>N, <2>1, <3>1, <3>2, <3>3 DEF Once, Holding
  <2> QED
    BY <2>2, <2>3
<1>9. CASE Crash
  <2>1. /\ w'.at = "none" /\ turn'.at = "none" /\ turn'.left = {} /\ UNCHANGED <<reg, handed, told>>
        /\ excused' = More(excused, {u \in Filed : told[u] > excused[u]})
    BY <1>9, Numbers DEF Crash, registry
  <2>2. \A i \in Turn : box'[i] \subseteq box[i]
    BY <1>9 DEF Crash, mail
  <2>3. reg[t] = "filed" => Calm(t)'
    <3>1. ASSUME reg[t] = "filed", told[t] > excused[t]
          PROVE  excused'[t] = excused[t] + 1
      BY <2>1, <3>1 DEF More, Filed
    <3> QED
      BY <1>N, <1>M, <2>1, <3>1 DEF Once, Calm
  <2>4. Calm(t) => Calm(t)'
    BY <1>N, <2>1 DEF Calm
  <2>5. told'[t] <= 1 + excused'[t]
    BY <1>N, <1>M, <2>1 DEF Once
  <2> QED
    BY <1>0, <1>M, <2>1, <2>2, <2>3, <2>4, <2>5 DEF Once, Brings
<1>10. ASSUME NEW u \in Task, Detach(u)
       PROVE  Once(t)'
  <2>1. /\ UNCHANGED <<turn, handed, box, told, excused, w>> /\ reg[u] = "none" /\ told[u] = 0
        /\ reg' = [reg EXCEPT ![u] = "filed"]
    BY <1>10 DEF Detach, mail, history, watcher, IInv, Births
  <2>2. CASE t = u
    <3>1. Calm(t)'
      BY <1>N, <2>1, <2>2 DEF Calm
    <3> QED
      BY <1>N, <2>1, <2>2, <3>1 DEF Once, Calm
  <2>3. CASE t # u
    <3>1. reg'[t] = reg[t]
      BY <1>0, <2>1, <2>3
    <3> QED
      BY <2>1, <3>1, OnceRests DEF Brings
  <2> QED
    BY <2>2, <2>3
<1>11. CASE Say \/ Rested \/ UNCHANGED vars \/ (\E u \in Task : End(u))
  BY <1>1, <1>11 DEF Say, Rested, End, vars, mail, registry, history, watcher
<1>12. CASE Start
  BY <1>1, <1>12, Arms DEF Start, mail, registry, history, watcher
<1>13. CASE Tick \/ Look \/ Judge \/ Leave \/ NotNow
  BY <1>1, <1>13, WatcherSteps, WatcherStands DEF mail, registry, history
<1>14. ASSUME NEW u \in Task, Claim(u)
       PROVE  Once(t)'
  <2>1. /\ w.at = "claims" /\ w'.at = "claims" /\ UNCHANGED <<turn, box, told, excused>>
        /\ handed[u] \in {0, w.read[u]} /\ w.read[u] # 0 /\ reg[u] = "filed"
    BY <1>0, <1>14 DEF Claim, IInv, Hands, mail, WatchType
  <2>2. \A v \in Task \ {u} : reg'[v] = reg[v] /\ handed'[v] = handed[v]
    BY <1>0, <1>14 DEF Claim
  <2>3. CASE handed'[t] = handed[t] /\ (reg'[t] = "filed" => reg[t] = "filed")
    BY <2>1, <2>3, OnceRests DEF Brings
  <2>4. CASE t = u /\ handed'[t] # handed[t]
    <3>1. handed'[t] = 0 /\ t \in box[w.read[t]]
      BY <1>0, <1>14, <2>4 DEF Claim
    <3>2. Calm(t)
      BY <1>M, <2>1, <2>4, <3>1 DEF Once
    <3> QED
      BY <1>M, <2>1, <3>1, <3>2 DEF Once, Calm, Brings
  <2>5. t = u => (reg'[t] = "filed" => reg[t] = "filed")
    BY <2>1
  <2> QED
    BY <2>2, <2>3, <2>4, <2>5
<1>15. CASE UpdateOver
  <2>1. /\ UNCHANGED <<turn, handed, box, told, excused>> /\ w'.at = "sleep"
        /\ w.at \in {"landed", "nowhere"}
        /\ reg'[t] = IF w.at = "landed" /\ t \in w.tasks THEN "retired" ELSE reg[t]
    BY <1>15, Numbers DEF UpdateOver, Set, mail, history, To
  <2> QED
    BY <1>M, <2>1 DEF Once, Calm, Brings
<1>16. CASE Put
  <2>1. /\ w.at = "deliver" /\ w'.at = "note" /\ w'.tasks = w.tasks /\ w'.mailbox = turn.id
        /\ turn.id \in Turn /\ UNCHANGED <<turn, reg, handed, told, excused>>
        /\ box' = [box EXCEPT ![turn.id] = @ \cup w.tasks]
    BY <1>16, OpenBox DEF Put, Watch, IInv, registry, history
  <2>2. t \in w.tasks => Calm(t) /\ handed[t] = 0
    BY <1>0, <1>M, <2>1 DEF Once, Holding
  <2> QED
    BY <1>0, <1>M, <2>1, <2>2 DEF Once, Calm, Brings
<1>17. CASE Note
  <2>1. /\ w.at = "note" /\ w'.at = "sleep" /\ UNCHANGED <<turn, reg, box, told, excused>>
        /\ handed' = Set(handed, w.tasks, w.mailbox)
    BY <1>17, Numbers DEF Note, mail, history, To
  <2>2. handed'[t] = IF t \in w.tasks THEN w.mailbox ELSE handed[t]
    BY <2>1 DEF Set
  <2>3. w.mailbox # 0
    BY <2>1 DEF IInv, Hands
  <2> QED
    BY <1>M, <2>1, <2>2, <2>3 DEF Once, Calm, Brings
<1> QED
  BY <1>2, <1>3, <1>4, <1>5, <1>6, <1>7, <1>8, <1>9, <1>10, <1>11, <1>12, <1>13, <1>14, <1>15,
     <1>16, <1>17 DEF Next, TurnNext, WatcherNext

--------------------------------------------------------------------------------
\* The invariant is one.
LEMMA Inductive == IInv /\ [Next]_vars => IInv'
<1> SUFFICES ASSUME IInv, [Next]_vars PROVE IInv'
  OBVIOUS
<1>1. TypeOK' /\ Births' /\ Turns' /\ Hands' /\ Updates' /\ Mailed'
  BY TypeStep, BirthsStep, TurnsStep, HandsStep, UpdatesStep, MailedStep
<1>2. Carried' /\ Boxed' /\ Prompted' /\ Handed' /\ EndsHeard' /\ Onces'
  BY CarriedStep, BoxedStep, PromptedStep, HandedStep, EndsHeardStep, OncesStep
<1> QED
  BY <1>1, <1>2 DEF IInv

\* The invariant holds of every state.
THEOREM Invariant == Spec => []IInv
BY Initially, Inductive, PTL DEF Spec

\* Every variable keeps its type.
THEOREM Typed == Spec => []TypeOK
<1>1. IInv => TypeOK
  BY DEF IInv
<1> QED
  BY <1>1, Invariant, PTL

\* A registration is retired only when the agent was told of its task's end, or the
\* turn that is to tell it has it, or it was lost with a mailbox.
THEOREM EndsAreHeard == Spec => []EndsHeard
<1>1. IInv => EndsHeard
  BY DEF IInv
<1> QED
  BY <1>1, Invariant, PTL

\* No end is told more often than once and once for each time it was lost on the agent.
THEOREM EndsAreToldOnce == Spec => []ToldOnce
<1>1. IInv => ToldOnce
  BY DEF IInv, Onces, Once, ToldOnce
<1> QED
  BY <1>1, Invariant, PTL
================================================================================
