------------------------------ MODULE Steering ------------------------------
(***************************************************************************)
(* What one agent does with words that reach it while it is at work        *)
(* (src/agent.rs): a message goes into a reply running on its surface      *)
(* (inject_into_live_turn), or waits in line for a reply of its own        *)
(* (steer_in_order); what a reply did not get to when it ends is the       *)
(* prompt of the next round.                                               *)
(*                                                                         *)
(* One conversation.  A message, and the task the daemon spawns for it, is *)
(* its dispatch order; a reply is the task that runs it, and which of its  *)
(* rounds.  Replies nobody's message opened are numbered like messages.    *)
(***************************************************************************)
EXTENDS Integers, FiniteSets

CONSTANTS
    Last,     \* bound: how many messages there are
    Rounds,   \* how many rounds a task runs at most (3)
    Person,
    Payer,    \* the people whose first round is billed to them
    Guest,    \* the people outside the owner's circle
    Surface,  \* the channel's timeline, and its threads
    Comes,    \* what each message may be: what kind, from whom, on which surface
    None

Message == 1..Last
Said  == {"message",  \* said to the agent
          "reply",    \* ... in reply to a message of one of its running replies
          "relay",    \* words that go into no running reply (may_join)
          "hollow"}   \* attachments alone, that turn into nothing
Kinds == Said \cup
         {"update",   \* a background task's update (deliver_update)
          "wake",     \* the first-boot report, or the older watcher's wrap-up
          "resumed"}  \* a reply taken back up after a restart (resume_turns)

ASSUME SteeringAssumption ==
    /\ Last \in Nat /\ Rounds \in Nat \ {0}
    /\ Payer \subseteq Person /\ Guest \subseteq Person
    /\ Comes \in [Message -> SUBSET (Kinds \X Person \X Surface)]
    /\ None \notin Message /\ None \notin Person /\ None \notin Surface /\ None \notin Kinds

VARIABLES
    \* each message
    kind, from, on,
    \* its Arrival: "none" | "deciding" | "late": past ARRIVAL_WAIT | "waiting"
    \* | "settled"; alive for as long as its task
    stage,
    tried,     \* the replies it had tried when it went to wait
    \* its task
    pc,        \* "unsaid" | "look" | "pick" | "fetch" | "line" | "open" | "run":
               \* registered in `turns` | "drain" | "again" | "done"
    here,      \* the replies running when it last looked
    target,    \* the reply its words are being fetched for
    round,     \* the rounds it opened
    prompt,    \* the words it holds: the next round's prompt
    box,       \* the words in the running round's mailbox (steer_file)
    \* the conversation
    gate,      \* who holds steer_gate
    \* what came of it (history)
    heard,     \* how often the words were handed to the model
    turned,    \* words that opened no reply: a command, a refusal, a notice
    dropped,   \* words thrown away with a mailbox
    redone,    \* tasks that ran a round again
    late       \* messages that were past ARRIVAL_WAIT once

message == <<kind, from, on>>
arrival == <<stage, tried>>
task    == <<pc, here, target, round, prompt, box>>
history == <<heard, turned, dropped, redone, late>>
vars    == <<message, arrival, task, gate, history>>

Init ==
    /\ kind = [n \in Message |-> None]
    /\ from = [n \in Message |-> None]
    /\ on = [n \in Message |-> None]
    /\ stage = [n \in Message |-> "none"]
    /\ tried = [n \in Message |-> {}]
    /\ pc = [n \in Message |-> "unsaid"]
    /\ here = [n \in Message |-> {}]
    /\ target = [n \in Message |-> None]
    /\ round = [n \in Message |-> 0]
    /\ prompt = [n \in Message |-> {}]
    /\ box = [n \in Message |-> {}]
    /\ gate = None
    /\ heard = [n \in Message |-> 0]
    /\ turned = {} /\ dropped = {} /\ redone = {} /\ late = {}

-----------------------------------------------------------------------------
\* What a task sees of the others.

\* The replies running on a surface, by identity (surface_turns).
Turn(k)    == <<k, round[k]>>
Running(s) == {k \in Message : pc[k] = "run" /\ on[k] = s}
Turns(s)   == {Turn(k) : k \in Running(s)}

\* Mutant of Ahead: any other arrival counts, not the earlier ones only.
AheadAny(k, n) ==
    k # n /\ on[k] = on[n] /\ stage[k] # "none" /\ pc[k] # "done"

\* An earlier arrival on the same surface, its task not over.
Ahead(k, n) ==
    k < n /\ on[k] = on[n] /\ stage[k] # "none" /\ pc[k] # "done"

\* It is still finding its reply, or has one here it has not tried.
Blocks(k, n) ==
    /\ Ahead(k, n)
    /\ stage[k] = "deciding" \/ (stage[k] = "waiting" /\ tried[k] # Turns(on[n]))

\* Mutant of HoldsLine: a task is thought to have let go once its turn opened.
HoldsLineOpening(k, n) == Ahead(k, n) /\ stage[k] \in {"deciding", "waiting"}

HoldsLine(k, n) == Ahead(k, n) /\ stage[k] \in {"deciding", "waiting", "settled"}

\* The surface is someone else's first (line_ahead).
LineAhead(n) == Running(on[n]) # {} \/ \E k \in Message : HoldsLine(k, n)

\* The replies the words may be handed to (steer.rs, pick).
Mine(n)   == {k \in Message : pc[k] = "run" /\ from[k] = from[n]}
Pays(k)   == from[k] \in Payer /\ round[k] <= 1 /\ kind[k] \notin {"update", "wake"}
Shared(n) == {k \in Running(on[n]) : from[n] \notin Payer /\ ~Pays(k)}
Pick(n)   == IF kind[n] = "reply" /\ Mine(n) # {} THEN Mine(n)
             ELSE IF Mine(n) \cap Running(on[n]) # {} THEN Mine(n) \cap Running(on[n])
             ELSE Shared(n)

\* A guest's words go into no reply but their own.
Mixes(n, k) == from[n] \in Guest /\ from[k] # from[n]

-----------------------------------------------------------------------------
\* A message comes in, or a reply nobody's message opened.

Begin(n, kinds, as, at) ==
    /\ pc[n] = "unsaid" /\ \A m \in Message : m < n => pc[m] # "unsaid"
    /\ \E m \in Comes[n] :
        /\ m[1] \in kinds
        /\ kind' = [kind EXCEPT ![n] = m[1]]
        /\ from' = [from EXCEPT ![n] = m[2]]
        /\ on' = [on EXCEPT ![n] = m[3]]
    /\ stage' = [stage EXCEPT ![n] = as]
    /\ pc' = [pc EXCEPT ![n] = at]
    /\ prompt' = [prompt EXCEPT ![n] = {n}]
    /\ UNCHANGED <<tried, here, target, round, box, gate, history>>

\* The dispatch loop marks the message and spawns its task (arrive).
Arrive(n) == Begin(n, Said, "deciding", "look")

\* A background task's update takes a surface that is nobody's (reserve_surface).
Reserve(n) ==
    /\ Begin(n, {"update"}, "settled", "open")
    /\ LET s == on'[n]
       IN  /\ Running(s) = {}
           /\ \A k \in Message : on[k] = s /\ pc[k] # "done" => stage[k] \in {"none", "late"}

\* A report or a wrap-up of the older kind opens its reply as it comes.
Wake(n) == Begin(n, {"wake"}, "none", "open")

\* So does a reply of the process before, whenever it has been read back.
Resume(n) ==
    /\ Begin(n, {"resumed"}, "none", "open")
    /\ \A m \in Message : m < n => kind[m] = "resumed"

\* Deciding for longer than ARRIVAL_WAIT: a lookup that hangs.
BeLate(n) ==
    /\ stage[n] = "deciding" /\ pc[n] # "done"
    /\ stage' = [stage EXCEPT ![n] = "late"]
    /\ late' = late \cup {n}
    /\ UNCHANGED <<message, tried, task, gate, heard, turned, dropped, redone>>

-----------------------------------------------------------------------------
\* Before a message has a reply (the spawned task, steer_in_order).

To(n, next) == pc' = [pc EXCEPT ![n] = next]

\* It is done looking: what it looked at goes.
Forget(n) ==
    /\ tried' = [tried EXCEPT ![n] = {}]
    /\ here' = [here EXCEPT ![n] = {}]
    /\ target' = [target EXCEPT ![n] = None]

\* It needs none: a command, a seat of the floor somebody took.
Leave(n) ==
    /\ pc[n] = "look" /\ stage[n] # "waiting"
    /\ To(n, "done")
    /\ prompt' = [prompt EXCEPT ![n] = {}]
    /\ turned' = turned \cup prompt[n]
    /\ UNCHANGED <<message, arrival, here, target, round, box, gate, heard, dropped, redone, late>>

\* Its turn to look: no earlier one is to look before it.
Look(n) ==
    /\ pc[n] = "look"
    /\ \A k \in Message : ~Blocks(k, n)
    /\ here' = [here EXCEPT ![n] = Turns(on[n])]
    /\ To(n, IF kind[n] = "relay" THEN "line" ELSE "pick")
    /\ UNCHANGED <<message, arrival, target, round, prompt, box, gate, history>>

\* One delivery at a time: under the gate, a running reply is picked ...
Choose(n) ==
    /\ pc[n] = "pick" /\ gate = None
    /\ \E k \in Pick(n) :
        /\ ~Mixes(n, k)
        /\ target' = [target EXCEPT ![n] = Turn(k)]
    /\ gate' = n
    /\ To(n, "fetch")
    /\ UNCHANGED <<message, arrival, here, round, prompt, box, history>>

\* ... or none may take the words.
ChooseNone(n) ==
    /\ pc[n] = "pick" /\ gate = None
    /\ Pick(n) = {} \/ \E k \in Pick(n) : Mixes(n, k)
    /\ To(n, "line")
    /\ UNCHANGED <<message, arrival, here, target, round, prompt, box, gate, history>>

\* Mutant of Put: the reply is not looked up again after the fetch.
PutBlind(n) ==
    /\ pc[n] = "fetch" /\ kind[n] # "hollow"
    /\ box' = [box EXCEPT ![target[n][1]] = @ \cup prompt[n]]
    /\ prompt' = [prompt EXCEPT ![n] = {}]
    /\ gate' = None
    /\ To(n, "done") /\ Forget(n)
    /\ UNCHANGED <<message, stage, round, heard, turned, dropped, redone, late>>

\* What it carries is fetched; the reply still runs, and has it in its mailbox.
Put(n) ==
    /\ pc[n] = "fetch" /\ kind[n] # "hollow"
    /\ \E k \in Message :
        /\ pc[k] = "run" /\ Turn(k) = target[n]
        /\ box' = [box EXCEPT ![k] = @ \cup prompt[n]]
    /\ prompt' = [prompt EXCEPT ![n] = {}]
    /\ gate' = None
    /\ To(n, "done") /\ Forget(n)
    /\ UNCHANGED <<message, stage, round, heard, turned, dropped, redone, late>>

\* The reply ended meanwhile, or nothing came of what was sent.
GiveBack(n) ==
    /\ pc[n] = "fetch"
    /\ kind[n] = "hollow" \/ \A k \in Message : ~(pc[k] = "run" /\ Turn(k) = target[n])
    /\ gate' = None
    /\ target' = [target EXCEPT ![n] = None]
    /\ To(n, "line")
    /\ UNCHANGED <<message, arrival, here, round, prompt, box, history>>

\* The surface is someone else's first: it waits in line, and looks again.
Wait(n) ==
    /\ pc[n] = "line" /\ LineAhead(n)
    /\ stage' = [stage EXCEPT ![n] = "waiting"]
    /\ tried' = [tried EXCEPT ![n] = here[n]]
    /\ here' = [here EXCEPT ![n] = {}]
    /\ To(n, "look")
    /\ UNCHANGED <<message, target, round, prompt, box, gate, history>>

\* The surface is its own.
TakeLine(n) ==
    /\ pc[n] = "line" /\ ~LineAhead(n)
    /\ stage' = [stage EXCEPT ![n] = "deciding"]
    /\ To(n, "open") /\ Forget(n)
    /\ UNCHANGED <<message, round, prompt, box, gate, history>>

-----------------------------------------------------------------------------
\* Its reply (handle, and the rounds around it).

Hear(words) == heard' = [m \in Message |-> IF m \in words THEN heard[m] + 1 ELSE heard[m]]

\* The draft is open: the turn is registered and the arrival settled, under one
\* lock, and the model gets its prompt.
Register(n) ==
    /\ pc[n] \in {"open", "again"}
    /\ To(n, "run")
    /\ round' = [round EXCEPT ![n] = @ + 1]
    /\ stage' = [stage EXCEPT ![n] = IF @ = "none" THEN "none" ELSE "settled"]
    /\ Hear(prompt[n])
    /\ prompt' = [prompt EXCEPT ![n] = {}]
    /\ UNCHANGED <<message, tried, here, target, box, gate, turned, dropped, redone, late>>

\* The draft is refused, or cannot be opened (a notice says so).
FailOpen(n) ==
    /\ pc[n] \in {"open", "again"}
    /\ To(n, "done")
    /\ turned' = turned \cup prompt[n]
    /\ prompt' = [prompt EXCEPT ![n] = {}]
    /\ UNCHANGED <<message, arrival, here, target, round, box, gate, heard, dropped, redone, late>>

\* The model makes a tool call: the hook claims the mailbox (steer_hook.rs).
Hook(n) ==
    /\ pc[n] = "run" /\ box[n] # {}
    /\ Hear(box[n])
    /\ box' = [box EXCEPT ![n] = {}]
    /\ UNCHANGED <<message, arrival, pc, here, target, round, prompt, gate,
                   turned, dropped, redone, late>>

\* The run is over: first its handle goes (drop_turn).
EndRun(n) ==
    /\ pc[n] = "run"
    /\ To(n, "drain")
    /\ UNCHANGED <<message, arrival, here, target, round, prompt, box, gate, history>>

\* The same turn runs again: on another account, or after a network cut.
Redo(n) ==
    /\ pc[n] = "drain" /\ n \notin redone
    /\ To(n, "run")
    /\ redone' = redone \cup {n}
    /\ UNCHANGED <<message, arrival, here, target, round, prompt, box, gate, heard, turned, dropped, late>>

\* How many rounds it may open: a wake's leftover is not looked at.
MaxRounds(n) == IF kind[n] = "wake" THEN 1 ELSE Rounds

\* Mutant of Drain: one round more than there are.
DrainMore(n) ==
    /\ pc[n] = "drain"
    /\ box' = [box EXCEPT ![n] = {}]
    /\ IF box[n] # {} /\ round[n] <= MaxRounds(n)
       THEN /\ To(n, "again")
            /\ prompt' = [prompt EXCEPT ![n] = box[n]]
            /\ UNCHANGED dropped
       ELSE /\ To(n, "done")
            /\ dropped' = dropped \cup box[n]
            /\ UNCHANGED prompt
    /\ UNCHANGED <<message, arrival, here, target, round, gate, heard, turned, redone, late>>

\* Then what is left in the mailbox is claimed, for another round if there is one.
Drain(n) ==
    /\ pc[n] = "drain"
    /\ box' = [box EXCEPT ![n] = {}]
    /\ IF box[n] # {} /\ round[n] < MaxRounds(n)
       THEN /\ To(n, "again")
            /\ prompt' = [prompt EXCEPT ![n] = box[n]]
            /\ UNCHANGED dropped
       ELSE /\ To(n, "done")
            /\ dropped' = dropped \cup box[n]
            /\ UNCHANGED prompt
    /\ UNCHANGED <<message, arrival, here, target, round, gate, heard, turned, redone, late>>

-----------------------------------------------------------------------------
Enter(n) == Arrive(n) \/ Reserve(n) \/ Wake(n) \/ Resume(n) \/ BeLate(n)
Steer(n) == \/ Look(n) \/ Choose(n) \/ ChooseNone(n) \/ Put(n) \/ GiveBack(n)
            \/ Wait(n) \/ TakeLine(n)
Reply(n) == Register(n) \/ EndRun(n)
Chance(n) == Leave(n) \/ FailOpen(n) \/ Hook(n) \/ Redo(n)

Next == \E n \in Message : Enter(n) \/ Steer(n) \/ Reply(n) \/ Drain(n) \/ Chance(n)
Spec == Init /\ [][Next]_vars

\* A task is run; the gate is a fair mutex; a fetch, a draft and a run come to
\* an end, and a turn is run again a bounded number of times.
Fairness ==
    \A n \in Message :
        WF_vars(Steer(n) \/ Reply(n) \/ Drain(n))
FairSpec == Spec /\ Fairness

-----------------------------------------------------------------------------
\* Properties.

Places == {"unsaid", "look", "pick", "fetch", "line", "open", "run", "drain", "again", "done"}

\* The types of the variables.
TypeOK ==
    /\ kind \in [Message -> Kinds \cup {None}]
    /\ from \in [Message -> Person \cup {None}]
    /\ on \in [Message -> Surface \cup {None}]
    /\ stage \in [Message -> {"none", "deciding", "late", "waiting", "settled"}]
    /\ tried \in [Message -> SUBSET (Message \X (1..Rounds))]
    /\ pc \in [Message -> Places]
    /\ here \in [Message -> SUBSET (Message \X (1..Rounds))]
    /\ target \in [Message -> (Message \X (1..Rounds)) \cup {None}]
    /\ round \in [Message -> 0..Rounds] /\ \A n \in Message : round[n] <= MaxRounds(n)
    /\ prompt \in [Message -> SUBSET Message]
    /\ box \in [Message -> SUBSET Message]
    /\ gate \in Message \cup {None}
    /\ heard \in [Message -> Nat]
    /\ turned \subseteq Message /\ dropped \subseteq Message
    /\ redone \subseteq Message /\ late \subseteq Message

\* From the moment a task takes the surface to its end, follow-up rounds
\* included, no other task opens a reply beside it - but for those that take no
\* place in line (a wake, a resumed reply), and one that hung before its turn.
Claims(n)  == pc[n] \in {"open", "run", "drain", "again"}
Outside(n) == kind[n] \in {"wake", "resumed"}
OneReply ==
    \A j, k \in Message :
        j < k /\ Claims(j) /\ Claims(k) /\ on[j] = on[k]
        => Outside(j) \/ Outside(k) \/ j \in late

\* Words are in one place at a time - with one task, or in one mailbox somebody
\* is still to claim - until the model heard them, once, or they came to an end:
\* a turn that ends while words are on their way into it leaves none behind.
Held(m, k) == m \in prompt[k] \/ m \in box[k]
Over(m)    == heard[m] = 1 \/ m \in turned \/ m \in dropped
WordsKept ==
    \A m \in Message :
        /\ heard[m] <= 1
        /\ pc[m] # "unsaid" =>
             \/ Over(m) /\ \A k \in Message : ~Held(m, k)
             \/ ~Over(m) /\ \E k \in Message :
                  /\ pc[k] # "done"
                  /\ \A j \in Message : Held(m, j) <=> j = k

\* No line, gate or wait for one another keeps a message from its end.
Served == []<>(\A n \in Message : pc[n] \in {"unsaid", "done"})

=============================================================================
