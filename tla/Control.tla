------------------------------- MODULE Control -------------------------------
(***************************************************************************)
(* Requests to the supervisor through ~/.mafold/control (src/control.rs),  *)
(* between the commands that ask, the supervisor that serves, the one that *)
(* takes its place, and the files between them.  A request is its id; one  *)
(* command asks each.  Requests in Moves ask the supervisor to restart     *)
(* itself, the others to restart a bot.                                    *)
(*                                                                         *)
(* A directory walk, and each file operation on a request, is a step of    *)
(* its own; the old answers go in one.  The order a pass serves what it    *)
(* took in is left open.                                                   *)
(***************************************************************************)
EXTENDS Integers, FiniteSets

CONSTANTS
    Request,      \* request ids
    Moves,        \* those that ask the supervisor to restart itself
    Supervisor,   \* the supervisor processes that may run, one life each
    None,         \* no request
    Expires,      \* EXPIRES, in ticks
    TakenFor,     \* TAKEN_FOR
    AnswerKept,   \* ANSWER_KEPT
    LastAsk,      \* bound: no request is written after this time
    MaxTime       \* bound: the time the clock stops at

ASSUME ControlAssumption ==
    /\ Moves \subseteq Request /\ None \notin Request
    /\ Expires \in Nat /\ TakenFor \in Nat /\ AnswerKept \in Nat
    /\ Expires < TakenFor /\ TakenFor < AnswerKept
    /\ LastAsk \in Nat /\ MaxTime \in Nat /\ LastAsk + TakenFor < MaxTime

\* Code, as far as an asker tells them apart.
Performed == {"restarted", "accepted", "failed"}
Refused   == {"expired", "unknown"}
Codes     == Performed \cup Refused \cup {"interrupted"}

VARIABLES
    clock,
    \* each command (ask_in)
    asker,      \* where it stands
    at,         \* when it wrote its request
    heard,      \* the answer it read ("none")
    \* the directory
    file,       \* "absent" | "request": <id>.json | "taken": <id>.taken
    answer,     \* <id>.answer.json: its code ("none": no file)
    answerAt,   \* and its time
    \* each supervisor
    phase,      \* "off" | "recover" | "idle" | "woken" | "pass" | "sweep" | "dead"
    serving,    \* SERVING
    now,        \* the time its pass, or recovery, was given (0 between them)
    walk,       \* the names the directory walk under way has still to come to
    queue,      \* what the pass took and has not come to
    cur,        \* the request it is at (None)
    verdict,    \* "none" | "due": to be carried out | a code to be written | "said"
    \* what came of it (history)
    done,       \* how often the request was acted on
    said        \* the codes ever written for it

commands  == <<asker, at, heard>>
directory == <<file, answer, answerAt>>
pass      == <<now, walk, queue, cur, verdict>>
history   == <<done, said>>
vars      == <<clock, commands, directory, phase, serving, pass, history>>

Alive(s)  == phase[s] \notin {"off", "dead"}
Waiting   == {r \in Request : file[r] = "request"}
Taken     == {r \in Request : file[r] = "taken"}

Init ==
    /\ clock = 0
    /\ asker = [r \in Request |-> "idle"]
    /\ at = [r \in Request |-> 0]
    /\ heard = [r \in Request |-> "none"]
    /\ file = [r \in Request |-> "absent"]
    /\ answer = [r \in Request |-> "none"]
    /\ answerAt = [r \in Request |-> 0]
    /\ phase = [s \in Supervisor |-> "off"]
    /\ serving = [s \in Supervisor |-> FALSE]
    /\ now = [s \in Supervisor |-> 0]
    /\ walk = [s \in Supervisor |-> {}]
    /\ queue = [s \in Supervisor |-> {}]
    /\ cur = [s \in Supervisor |-> None]
    /\ verdict = [s \in Supervisor |-> "none"]
    /\ done = [r \in Request |-> 0]
    /\ said = [r \in Request |-> {}]

Tick ==
    /\ clock < MaxTime
    /\ clock' = clock + 1
    /\ UNCHANGED <<commands, directory, phase, serving, pass, history>>

-----------------------------------------------------------------------------
\* A command (ask_in).

\* submit_in: the request is written aside, with its time ...
Write(r) ==
    /\ asker[r] = "idle" /\ clock <= LastAsk
    /\ asker' = [asker EXCEPT ![r] = "placing"]
    /\ at' = [at EXCEPT ![r] = clock]
    /\ UNCHANGED <<clock, heard, directory, phase, serving, pass, history>>

\* ... and renamed in.
Place(r) ==
    /\ asker[r] = "placing"
    /\ asker' = [asker EXCEPT ![r] = "waiting"]
    /\ file' = [file EXCEPT ![r] = "request"]
    /\ UNCHANGED <<clock, at, heard, answer, answerAt, phase, serving, pass, history>>

\* The request is gone: it was taken - seen in time, or on withdrawing it.
SeeTaken(r) ==
    /\ asker[r] = "waiting" /\ file[r] # "request"
    /\ asker' = [asker EXCEPT ![r] = "awaiting"]
    /\ UNCHANGED <<clock, at, heard, directory, phase, serving, pass, history>>

\* Mutant of Withdraw: the file is taken to be there still.
WithdrawUnchecked(r) ==
    /\ asker[r] = "waiting"
    /\ asker' = [asker EXCEPT ![r] = "untaken"]
    /\ file' = [file EXCEPT ![r] = "absent"]
    /\ UNCHANGED <<clock, at, heard, answer, answerAt, phase, serving, pass, history>>

\* Nobody took it in time, and its file could still be removed.
Withdraw(r) ==
    /\ asker[r] = "waiting" /\ file[r] = "request"
    /\ asker' = [asker EXCEPT ![r] = "untaken"]
    /\ file' = [file EXCEPT ![r] = "absent"]
    /\ UNCHANGED <<clock, at, heard, answer, answerAt, phase, serving, pass, history>>

\* The answer is read ...
Hear(r) ==
    /\ asker[r] = "awaiting" /\ answer[r] # "none"
    /\ asker' = [asker EXCEPT ![r] = "hearing"]
    /\ heard' = [heard EXCEPT ![r] = answer[r]]
    /\ UNCHANGED <<clock, at, directory, phase, serving, pass, history>>

\* ... and its file removed, whatever it says by then.
Collect(r) ==
    /\ asker[r] = "hearing"
    /\ asker' = [asker EXCEPT ![r] = "answered"]
    /\ answer' = [answer EXCEPT ![r] = "none"]
    /\ UNCHANGED <<clock, at, heard, file, answerAt, phase, serving, pass, history>>

\* No answer in time, or the command is interrupted.
StopWaiting(r) ==
    /\ asker[r] \in {"placing", "waiting", "awaiting", "hearing"}
    /\ asker' = [asker EXCEPT ![r] = IF asker[r] = "awaiting" THEN "unanswered" ELSE "gone"]
    /\ UNCHANGED <<clock, at, heard, directory, phase, serving, pass, history>>

-----------------------------------------------------------------------------
\* A supervisor's life.

\* The next supervisor starts, the one before gone or (Windows) on its way
\* out, and recovers: it walks what was taken and never answered.
Start(s) ==
    /\ phase[s] = "off"
    /\ \A t \in Supervisor : Alive(t) => phase[t] # "recover" /\ ~serving[t]
    /\ phase' = [phase EXCEPT ![s] = "recover"]
    /\ walk' = [walk EXCEPT ![s] = Taken]
    /\ now' = [now EXCEPT ![s] = clock]
    /\ UNCHANGED <<clock, commands, directory, serving, queue, cur, verdict, history>>

\* move_on, its replies drained and its daemons stopped: no further pass
\* starts, and no bot is restarted (it holds the spawning lock).
MoveOn(s) ==
    /\ serving[s]
    /\ serving' = [serving EXCEPT ![s] = FALSE]
    /\ UNCHANGED <<clock, commands, directory, phase, pass, history>>

\* The re-exec failed: it carries on.
StayOn(s) ==
    /\ Alive(s) /\ phase[s] # "recover" /\ ~serving[s]
    /\ \A t \in Supervisor \ {s} : ~Alive(t)
    /\ serving' = [serving EXCEPT ![s] = TRUE]
    /\ UNCHANGED <<clock, commands, directory, phase, pass, history>>

\* Its process ends: replaced by the re-exec, killed, or crashed.  Another one
\* runs, or the service manager starts one.
End(s) ==
    /\ Alive(s)
    /\ \E t \in Supervisor \ {s} : phase[t] # "dead"
    /\ phase' = [phase EXCEPT ![s] = "dead"]
    /\ serving' = [serving EXCEPT ![s] = FALSE]
    /\ now' = [now EXCEPT ![s] = 0]
    /\ walk' = [walk EXCEPT ![s] = {}]
    /\ queue' = [queue EXCEPT ![s] = {}]
    /\ cur' = [cur EXCEPT ![s] = None]
    /\ verdict' = [verdict EXCEPT ![s] = "none"]
    /\ UNCHANGED <<clock, commands, directory, history>>

-----------------------------------------------------------------------------
\* serve_once.

\* Mutant of BeginPass: the pass is given the end of what it takes for its time.
BeginPassDeadline(s) ==
    /\ phase[s] = "woken"
    /\ phase' = [phase EXCEPT ![s] = "pass"]
    /\ now' = [now EXCEPT ![s] = clock + TakenFor]
    /\ walk' = [walk EXCEPT ![s] = Waiting]
    /\ UNCHANGED <<clock, commands, directory, serving, queue, cur, verdict, history>>

\* The control thread may serve ...
Wake(s) ==
    /\ phase[s] = "idle" /\ serving[s]
    /\ phase' = [phase EXCEPT ![s] = "woken"]
    /\ UNCHANGED <<clock, commands, directory, serving, pass, history>>

\* ... and starts a pass, with the time it will judge every request by.
BeginPass(s) ==
    /\ phase[s] = "woken"
    /\ phase' = [phase EXCEPT ![s] = "pass"]
    /\ now' = [now EXCEPT ![s] = clock]
    /\ walk' = [walk EXCEPT ![s] = Waiting]
    /\ UNCHANGED <<clock, commands, directory, serving, queue, cur, verdict, history>>

\* Mutant of Take: the request is read where it lies, and not renamed.
TakeInPlace(s, r) ==
    /\ phase[s] = "pass" /\ cur[s] = None /\ r \in walk[s]
    /\ walk' = [walk EXCEPT ![s] = @ \ {r}]
    /\ queue' = IF file[r] = "request" THEN [queue EXCEPT ![s] = @ \cup {r}] ELSE queue
    /\ UNCHANGED <<clock, commands, directory, phase, serving, now, cur, verdict, history>>

\* The next name of the walk: taken, unless it was withdrawn or taken already.
Take(s, r) ==
    /\ phase[s] = "pass" /\ cur[s] = None /\ r \in walk[s]
    /\ walk' = [walk EXCEPT ![s] = @ \ {r}]
    /\ IF file[r] = "request"
       THEN /\ file' = [file EXCEPT ![r] = "taken"]
            /\ queue' = [queue EXCEPT ![s] = @ \cup {r}]
       ELSE UNCHANGED <<file, queue>>
    /\ UNCHANGED <<clock, commands, answer, answerAt, phase, serving, now, cur, verdict, history>>

\* The next request of the pass is read: gone with its file, too old - by the
\* pass's time - or due.
Read(s, r) ==
    /\ phase[s] = "pass" /\ cur[s] = None /\ walk[s] = {} /\ r \in queue[s]
    /\ queue' = [queue EXCEPT ![s] = @ \ {r}]
    /\ cur' = [cur EXCEPT ![s] = r]
    /\ \/ /\ file[r] # "taken"
          /\ verdict' = [verdict EXCEPT ![s] = "unknown"]
       \/ /\ file[r] = "taken" /\ now[s] - at[r] > Expires
          /\ verdict' = [verdict EXCEPT ![s] = "expired"]
       \/ /\ file[r] = "taken" /\ now[s] - at[r] <= Expires
          /\ verdict' = [verdict EXCEPT ![s] = "due"]
    /\ UNCHANGED <<clock, commands, directory, phase, serving, now, walk, history>>

\* The handler acts on it (carry_out): a bot's restart, done or not - still
\* running, not started - under the spawning lock, or the bot unknown; its own
\* restart is put down for the loop.
CarryOut(s) ==
    /\ verdict[s] = "due"
    /\ done' = [done EXCEPT ![cur[s]] = @ + 1]
    /\ \E c \in IF cur[s] \in Moves THEN {"accepted"} ELSE {"restarted", "failed"} :
          /\ c = "restarted" => serving[s]
          /\ verdict' = [verdict EXCEPT ![s] = c]
    /\ UNCHANGED <<clock, commands, directory, phase, serving, now, walk, queue, cur, said>>

\* The handler panics, having acted or not: the pass is over, what it took is
\* left as it lies.
Panic(s) ==
    /\ verdict[s] = "due"
    /\ cur[s] \notin Moves /\ serving[s]
    /\ done' \in {done, [done EXCEPT ![cur[s]] = @ + 1]}
    /\ phase' = [phase EXCEPT ![s] = "idle"]
    /\ now' = [now EXCEPT ![s] = 0]
    /\ queue' = [queue EXCEPT ![s] = {}]
    /\ cur' = [cur EXCEPT ![s] = None]
    /\ verdict' = [verdict EXCEPT ![s] = "none"]
    /\ UNCHANGED <<clock, commands, directory, serving, walk, said>>

\* write_answer.
Answer(s) ==
    /\ Alive(s) /\ verdict[s] \in Codes
    /\ answer' = [answer EXCEPT ![cur[s]] = verdict[s]]
    /\ answerAt' = [answerAt EXCEPT ![cur[s]] = now[s]]
    /\ said' = [said EXCEPT ![cur[s]] = @ \cup {verdict[s]}]
    /\ verdict' = [verdict EXCEPT ![s] = "said"]
    /\ UNCHANGED <<clock, commands, file, phase, serving, now, walk, queue, cur, done>>

\* Mutant of Forget: a recovery gives the request back, to be served.
ForgetBack(s) ==
    /\ Alive(s) /\ verdict[s] = "said"
    /\ file' = [file EXCEPT ![cur[s]] = IF phase[s] = "recover" THEN "request" ELSE "absent"]
    /\ walk' = IF phase[s] = "pass" THEN [walk EXCEPT ![s] = Waiting] ELSE walk
    /\ cur' = [cur EXCEPT ![s] = None]
    /\ verdict' = [verdict EXCEPT ![s] = "none"]
    /\ UNCHANGED <<clock, commands, answer, answerAt, phase, serving, now, queue, history>>

\* The taken file is removed; a pass then looks for what was asked meanwhile.
Forget(s) ==
    /\ Alive(s) /\ verdict[s] = "said"
    /\ file' = [file EXCEPT ![cur[s]] = "absent"]
    /\ walk' = IF phase[s] = "pass" THEN [walk EXCEPT ![s] = Waiting] ELSE walk
    /\ cur' = [cur EXCEPT ![s] = None]
    /\ verdict' = [verdict EXCEPT ![s] = "none"]
    /\ UNCHANGED <<clock, commands, answer, answerAt, phase, serving, now, queue, history>>

\* Nothing is left to take or carry out: the sweep.
EndPass(s) ==
    /\ phase[s] = "pass" /\ cur[s] = None /\ walk[s] = {} /\ queue[s] = {}
    /\ phase' = [phase EXCEPT ![s] = "sweep"]
    /\ walk' = [walk EXCEPT ![s] = Taken]
    /\ UNCHANGED <<clock, commands, directory, serving, now, queue, cur, verdict, history>>

-----------------------------------------------------------------------------
\* abandon: at the start every request found taken, later those taken long ago.

\* Mutant of Left: the sweep leaves what was taken to the next recovery.
LeftToRecovery(s, r) == phase[s] = "recover"

Left(s, r) == phase[s] = "recover" \/ clock - at[r] > TakenFor

\* Mutant of Abandon: the taken file goes without an answer.
AbandonSilently(s, r) ==
    /\ phase[s] \in {"recover", "sweep"} /\ cur[s] = None /\ r \in walk[s]
    /\ walk' = [walk EXCEPT ![s] = @ \ {r}]
    /\ IF Left(s, r) /\ (phase[s] = "recover" \/ file[r] = "taken")
       THEN /\ cur' = [cur EXCEPT ![s] = r]
            /\ verdict' = [verdict EXCEPT ![s] = "said"]
       ELSE UNCHANGED <<cur, verdict>>
    /\ UNCHANGED <<clock, commands, directory, phase, serving, now, queue, history>>

\* The next name of the walk: given up, to be answered unless it was answered.
Abandon(s, r) ==
    /\ phase[s] \in {"recover", "sweep"} /\ cur[s] = None /\ r \in walk[s]
    /\ walk' = [walk EXCEPT ![s] = @ \ {r}]
    /\ IF Left(s, r) /\ (phase[s] = "recover" \/ file[r] = "taken")
       THEN /\ cur' = [cur EXCEPT ![s] = r]
            /\ verdict' = [verdict EXCEPT ![s] =
                              IF answer[r] = "none" THEN "interrupted" ELSE "said"]
       ELSE UNCHANGED <<cur, verdict>>
    /\ UNCHANGED <<clock, commands, directory, phase, serving, now, queue, history>>

Recovered(s) ==
    /\ phase[s] = "recover" /\ cur[s] = None /\ walk[s] = {}
    /\ phase' = [phase EXCEPT ![s] = "idle"]
    /\ serving' = [serving EXCEPT ![s] = TRUE]
    /\ now' = [now EXCEPT ![s] = 0]
    /\ UNCHANGED <<clock, commands, directory, walk, queue, cur, verdict, history>>

\* The sweep ends with the answers nobody came for.
EndSweep(s) ==
    /\ phase[s] = "sweep" /\ cur[s] = None /\ walk[s] = {}
    /\ phase' = [phase EXCEPT ![s] = "idle"]
    /\ answer' = [r \in Request |-> IF now[s] - answerAt[r] > AnswerKept THEN "none" ELSE answer[r]]
    /\ now' = [now EXCEPT ![s] = 0]
    /\ UNCHANGED <<clock, commands, file, answerAt, serving, walk, queue, cur, verdict, history>>

-----------------------------------------------------------------------------
Ask(r)  == \/ Write(r) \/ Place(r) \/ SeeTaken(r) \/ Withdraw(r)
           \/ Hear(r) \/ Collect(r) \/ StopWaiting(r)
Serve(s) == \/ Wake(s) \/ BeginPass(s) \/ CarryOut(s) \/ Answer(s) \/ Forget(s) \/ EndPass(s)
            \/ Recovered(s) \/ EndSweep(s)
            \/ \E r \in Request : Take(s, r) \/ Read(s, r) \/ Abandon(s, r)
Life(s) == Start(s) \/ MoveOn(s) \/ StayOn(s) \/ End(s) \/ Panic(s)

Next == Tick \/ (\E r \in Request : Ask(r)) \/ (\E s \in Supervisor : Serve(s) \/ Life(s))
Spec == Init /\ [][Next]_vars

\* The clock runs; a supervisor that is not there is started (the service
\* manager's restart); one that moves on ends, or finds it did not.  Between two
\* tries the control thread, which looks every POLL, gets to serve and has the
\* spawning lock: tries are at least ten seconds apart.
Fairness ==
    /\ WF_vars(Tick)
    /\ \A s \in Supervisor :
        /\ SF_vars(Serve(s))
        /\ WF_vars(Start(s))
        /\ WF_vars(~serving[s] /\ phase[s] # "recover" /\ (StayOn(s) \/ End(s)))
FairSpec == Spec /\ Fairness

-----------------------------------------------------------------------------
\* Properties.

\* The types of the variables.
TypeOK ==
    /\ clock \in 0..MaxTime
    /\ asker \in [Request -> {"idle", "placing", "waiting", "awaiting", "hearing",
                              "untaken", "answered", "unanswered", "gone"}]
    /\ at \in [Request -> 0..MaxTime]
    /\ heard \in [Request -> Codes \cup {"none"}]
    /\ file \in [Request -> {"absent", "request", "taken"}]
    /\ answer \in [Request -> Codes \cup {"none"}]
    /\ answerAt \in [Request -> 0..MaxTime]
    /\ phase \in [Supervisor -> {"off", "recover", "idle", "woken", "pass", "sweep", "dead"}]
    /\ serving \in [Supervisor -> BOOLEAN]
    /\ now \in [Supervisor -> 0..MaxTime]
    /\ walk \in [Supervisor -> SUBSET Request]
    /\ queue \in [Supervisor -> SUBSET Request]
    /\ cur \in [Supervisor -> Request \cup {None}]
    /\ verdict \in [Supervisor -> Codes \cup {"none", "due", "said"}]
    /\ done \in [Request -> Nat]
    /\ said \in [Request -> SUBSET Codes]

\* The stage of the promise a request is at.
Stage(r) ==
    IF asker[r] = "untaken" THEN "withdrawn"
    ELSE IF done[r] > 0 THEN "carried"
    ELSE IF said[r] \cap Refused # {} THEN "refused"
    ELSE IF file[r] = "taken" \/ said[r] # {} THEN "taken"
    ELSE IF file[r] = "request" THEN "waiting"
    ELSE "unasked"

\* Files, passes, panics, crashes and two supervisors at once keep the promise
\* of ControlPromise: what was withdrawn is never acted on, and a refusal stands.
Promise == INSTANCE ControlPromise WITH
    Interrupted <- "interrupted",
    stage <- [r \in Request |-> Stage(r)]
KeepsPromise == Promise!Spec

\* A restart asked for once is never carried out twice: taking is a rename, and
\* neither a recovery nor a sweep gives a request back to be served again.
CarriedOutOnce == \A r \in Request : done[r] <= 1

\* Nobody waits on a request that was taken and dropped: whatever happens to the
\* supervisor that took it, an answer to it is written.
TakenIsAnswered == \A r \in Request : file[r] = "taken" ~> said[r] # {}

=============================================================================
