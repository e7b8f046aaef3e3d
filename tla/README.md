# mafold-cli, verified

TLA+ models of the parts of `mafold-cli` where correctness depends on the order
in which things happen: what a daemon remembers of a message when its process
dies, how words reach a reply that is already running, how background tasks are
told of, how a usable login is found, how an account's inbox is read, how
devices share connections, how the supervisor keeps its daemons, is asked to do
something, and replaces its own binary. TLC checks the models on small
instances; TLAPS proves the safety properties of every module for every value of
the constants.

## The system

`mafold` connects AI coding agents on a person's machine to the Mafold chat
service. A **supervisor** keeps one **daemon** per bot running. A daemon
(`src/agent.rs`) holds a websocket to the api, takes the account's events in,
decides which messages are for its bot, and runs a **turn** for each: it opens
a draft, starts a **harness** (Claude Code, Codex, ...), renders what it does
into the draft, and finishes it. Messages that come while a turn runs are
*steered* into it through a mailbox file a hook of the harness reads.

| component | source | state it keeps | operations | what is hard | what makes it correct | module |
|---|---|---|---|---|---|---|
| Event intake | `agent.rs` `connect_and_run` | cursor (memory, disk), replay queue, `covered`, `seen` | hello, catch-up, gap check, cursor step, duplicate guard | frames skipped or repeated, restarts of either side | no message is forgotten silently, none is run twice | `Intake` |
| Trigger journal | `pending.rs` | one file per message with no reply yet, `LIVE` | record, clear, orphans, settle, keep | a crash between any two steps, a connection opening beside a task | as above | `Intake` |
| Draft outbox | `drafts.rs` | one entry per draft, with the turn's journal | track, journal, note, complete, load, give up | a crash, an exec with the same pid | one answer, resumed or finalized | `Intake` |
| Steering | `agent.rs`, `steer_hook.rs`, `steer.rs` | `turns`, `arriving`, `steer_gate`, mailbox files | arrive, look, pick, put, wait, register, hook, leftover | a look and a pick apart, a turn that ends during a fetch | words in one place; one reply per surface; nobody waits forever | `Steering` |
| Control channel | `control.rs` | requests, taken requests, answers, as files | ask, withdraw, serve, recover, sweep | files raced by commands and two supervisors; crashes; clocks | at most once; always answered; refusals are final | `Control`, `ControlPromise` |
| Supervisor | `supervisor.rs`, `lifecycle.rs` | `daemons.json`, pid files, stop notes, tombstones, children, `SPAWNING`, `SEEN` | pass, sweep, restart, rm, down, add, rotation, move on | a registry without a lock, stale lists, zombies, crashes between spawn and pid file | one daemon per configured bot, deaths counted once | `Supervisor` |
| Self update | `update.rs`, `supervisor.rs` | binary and backup of each copy, stamp, skip, lock, cooldown | check, apply, rollback, move onto the disk | a machine with several copies, a rollback without the lock, a crash between two renames | the binary starts; success means the published build; the newest release arrives | `Update` |
| Account seats | `accounts.rs`, `runtime_login.rs` | registry of seats, refusals and walls, each daemon's cached looks | choose, probe, run, fail over, sign in, remove | several daemons save one file; logins change under a probe or a run | marks are true of the login they name; a turn skips and retries for a reason | `Seats` |
| Background tasks | `bgtasks.rs`, `bash_hook.rs`, `agent.rs` | pid files with a ledger, mailboxes, the watcher | detach, tell, hand over, give back, retry, step down | a turn that ends as it is told, a watcher that leaves as a task is filed | every end is told, once | `Tasks` |
| Inbox | `inbox.rs` | read markers, watched replies, streaks, books of a look | glance, look, steer, send, mark, settle | replies that finish behind the marker, lines that come during a turn | what is marked read was handed over; the send guard lets nothing through over news | `Inbox` |
| Connections and the vault | `connection.rs`, `vault.rs`, `mafold-core/connections.rs` | each device's key, sealed rows, rotating grants, claimed calls | enrol, hand on, claim, renew, store, revoke, rotate | two devices renew one token; a device re-keyed while it listens; a rotation that stops | a mark is true; every device catches up; a claimed call is answered | `Vault` |
| Ask and permission | `permission_mcp.rs`, `ask_hook.rs` | prompt and verdict files | ask, answer, time out | a late answer | an answer reaches the ask it was given to | planned |
| Harness drivers | `harness/*` | warm processes and their leases | lease, run, retire | a process lent twice | one turn per process | planned |
| Sessions | `session_life.rs`, `compact_hook.rs` | ages and sizes | end, compact | thresholds | (unit tests) | not modelled |
| Hosted kernel | `crates/mafold-harness` | one turn | step, tool | Stop and messages during a turn | | not modelled |
| Client core | `crates/mafold-core` | local store of the apps | push, merge | | | not modelled |
| Rendering, types | `crates/mafold-transcript`, `mafold-types` | none | text to cards and back | wording | (unit tests) | not modelled |
| Commands | `commands.rs`, `main.rs`, ... | none of their own | one call each | none | | not modelled |

The daemon's parts interact through shared state inside one process
(`ChatState` under one lock, the `steer_gate` mutex per conversation) and
through files that outlive it (cursor, trigger journal, outbox). The
supervisor, its commands and the daemons share files only. So do the daemons of
a machine among themselves (seats), the copies of mafold on it (updates), and a
turn with its hooks (mailboxes, pid files); devices share what the server keeps.

## Modules

    Intake          events, trigger journal, outbox, crashes         <- MCIntake
      IntakeProofs
    ControlPromise  what asking the supervisor promises
    Control         files, passes, crashes; implements it            <- MCControl
    Steering        arrivals, picks, mailboxes, rounds               <- MCSteering
      SteeringProofs
    Supervisor      loop, restarts, commands, daemons                <- MCSupervisor
      SupervisorProofs
    Update          check, apply, rollback, move                     <- MCUpdate
      ControlUpdateProofs  of both that move the supervisor: Control, Update
    Tasks           detached tasks, turns, the watcher               <- MCTasks
      TasksProofs
    Seats           registry, looks, runs, failover                  <- MCSeats
      SeatsProofs
    Vault           devices, keys, a row, calls, rotation            <- MCVault
      VaultProofs
    Inbox           looks, turns, markers                            <- MCInbox
      InboxProofs

A proof module EXTENDS the module it is about, and starts with the inductive
invariant. `ControlUpdateProofs` EXTENDS two, the supervisor's channel and its
update, which is why the specification of `Update` is `UpdateSpec`, its types
`UpdateTypeOK`.

### Intake

One bot's daemon and the api's event log for its account. An event is its
sequence number; `Message` are the durable ones that may start a turn.

- The **api** (`Publish`, `ApiRestart`, `Answer`) is external: it numbers
  events, may skip one on an open socket (a lagged receiver), keeps the last
  `Backlog` of them, loses that buffer on a restart, and answers `getUpdates`
  from the buffer, from its store (unnumbered), or with `truncated`.
- **connect_and_run** is `Connect`, `Disconnect`, `Anchor`, `CatchUp`,
  `ReadFrame`, `FillGap`, `ReplayAgain`, `ReplayNumbered`, `Duplicate`,
  `Judge`. The replay queue is `again` (unnumbered, in front) and `queue`. A
  frame is processed in two steps - cursor moved (`hand`), then judged -
  because a crash may fall between, and the code pins the cursor first on
  purpose.
- **The task of a message** passes the four durable steps of a turn's setup
  (`OpenDraft`, `Journal`, `Prompt`, `Clear`) and `Finish`, or ends without a
  turn, or keeps its entry (`KeepOwed`). `Live` is pending.rs's `LIVE`.
- **Crash** wipes what the process had in memory; **Start** is `Outbox::load`
  with its verdicts and `resume_turns`.

Abstractions: the real counter is shared by all accounts (the code only
compares, so `prev = s - 1`); an event's server time is its number; the api
starting its numbers over (`last_seq > head`) is not modelled, nor is
`chatCleared`, nor the 512-key cap of `RecentSet`; both cursor files are kept,
saved in the same step.

### Control and ControlPromise

The directory `~/.mafold/control`: a request is a file an asker renames in, the
supervisor renames to `.taken`, answers in `.answer.json`, and removes. Each
file operation is one action, so that asker, supervisor, and (on Windows) its
successor interleave between any two. `now` is taken once per pass, as in
`serve_once`. `EXPIRES`, `TAKEN_FOR` and `ANSWER_KEPT` (60, 120, 600 s) are
constants with the same order. `serving` stands for `SERVING` and for the
spawning lock a supervisor that moves on holds. `failed` covers UnknownBot,
StillRunning and Failed. The waits of an asker may end at any time. Left out:
the order within a pass (any is allowed), the hand-over of `MOVING` to the
loop, answers that cannot be parsed.

`ControlPromise` is what an asker may rely on: a withdrawn request is never
acted on, a taken one is carried out at most once, and an answer that nothing
was done is final. `Stage(r)` is the refinement mapping.

### Steering

One conversation. A message and the task spawned for it share a number, its
dispatch order. `stage` and `tried` are its `Arrival`; `pc` says where its task
stands in `steer_in_order` and `handle`; `Running` are the handles in `turns`;
`box` is the mailbox file of a reply, `prompt` the words a task holds. The
look (`here`), the pick under `steer_gate`, the fetch, and the put under the
lock are separate steps, as they are separate critical sections in the code.
`Reserve` is a background task's update, `Wake` the first-boot report and the
older watcher's wrap-up, `Resume` a reply taken back up after a restart.
Personas: a payer's first round is billed, a guest is outside the owner's
circle; both decide who may share a reply.

Left out: lines of background that go into a running reply, a task's update
going into one, the unsettled nudge, the wallet's refusal, ask answers, crashes
(in `Intake`). `/stop` is `EndRun` at any time: words count as handed over when
the turn starts.

### Supervisor

The processes around `daemons.json`: the supervisor's loop (`loop`), the control
thread's restart (`ctl`), one command at a time beside them (`cmd`), and the
daemons (`state`, `of`, `token`, `child`). Each read or write of a file, each
signal and each spawn is a step of its own, so that the three interleave
wherever the code lets them; only `SPAWNING` (`lock`) is held across steps.

- The **loop** is `Top` (reap, sweep), `SweepStore`, `Load`, `Look`, `Saw`,
  `StartOne`, `WritePid`, `Settle`, `PassDone`, `Checked`, `Claim`, `Save`,
  `Polled`; `StopSignal`, `StopUnlink`, `Stopped` are `stop_one` wherever the
  loop calls it (`loop.next` says where from); `MoveOn` and `Exec` are
  `move_on`, in the same process.
- **restart_bot** is `Ask` to `Restarted`; the **commands** are `Command` to
  `CommandUnlink`, with the list of daemons they read at the start.
- A **daemon** dies (`Die`), stops when asked (`End`), or leaves with a
  tombstone when its token is refused (`Refused`, the ten refusals in one). An
  ended child is a zombie, which `alive` takes for running and `pid_running`
  does not, until `Reaped`.
- The **api** is external: it changes a bot's token, or deletes the bot, and
  leaves a notice for the machine, which the poll takes.
- **SupervisorEnds** takes the daemons along (systemd) or not (launchd);
  `Begin` is the service manager's next one.

Ghosts: `counted` (deaths noted), `taken` (daemons that went with their
supervisor), and `lost`: bots of which a running
daemon's pid file was removed by one who took it for another's, or never
written. `OneDaemon` excepts `lost` bots, because there the code does start a
second daemon (`stop_one` removes the file whatever it names; a supervisor that
dies between the spawn and the file leaves a daemon nobody knows of).

Left out: `up`, `down` of everything, `adopt`, the Windows successor (its files
are in `Control`), pids used again by other processes, autostart, the drain of
replies (it only waits), a poll for more than one account.

### Update

The files of a machine with several copies of mafold. `disk[c]` and `old[c]` are
the binary and `mafold.old` beside it; `stamp`, `skip` and `lock` are the
machine's, as in the code (`~/.mafold`). A build is the version it reports and
whether its checksum is the release's (`published`); one that is half written
reports none.

- `Apply(p, me)` is `apply`, by the supervisor or a command: `Lock`, `LookStamp`
  (installed meanwhile by another?), `Fetch` (download, verify, smoke test: one
  step that may fail), `BackUp`/`BackedUp` (a copy, so it is half there in
  between), `Swap` (a rename), `Stamp`.
- The **supervisor** is `Check`, `Weigh`/`Unskip` (`should_attempt` reads the
  skip and removes one that is over), `Cool`, `Failed`, `Move`, `Exec`. Its death
  releases the lock (the system does) and forgets the cooldown.
- A **command** is an update (`StartUpdate`, `ClearSkip`) or a rollback
  (`WriteSkip`, `Restore`, `Unstamp`), then `AskMove`; it may be killed anywhere.

`raced` (history) names the copies a rollback and an install worked on at once:
`rollback` takes no lock, so it may copy the backup while the install writes it.
Left out: release channels, `update.json`, nudges, `--force`, backups from before
the skip existed, the move-aside of a running binary on Windows, the standalone
agent.

### Tasks

One surface of one bot. `life` is the process of a task, `reg` its pid file,
`handed` the ledger in it: the mailbox (by the number of its turn) its end was
handed to. `turn` is the turn that runs here with its rounds, `w` the watcher.

- `Detach`, `End`: the Bash hook and the receipt script.
- `Prompt`, `Hook`, `Drop`, `Drain`, `Over`: a turn gets its prompt, reads its
  mailbox, loses its handle, drains what is left, and opens a follow-up or ends,
  arming a watcher. Between `Drop` and `Drain` the mailbox is there and no hook.
- `Tick`, `Claim`, `Look`, `Judge`, `Leave`, `Put`, `Note`, `NotNow`,
  `UpdateTurn`, `UpdateOver`: the watcher reads what was handed over, lists the
  tasks, writes to the cards (which takes a while), and tells what is due, into
  the running turn or in one of its own, or steps down and looks once more.
- `Crash` takes the turn, the watcher and its retries along; a reboot takes the
  mailboxes too (they are in the temporary directory).

History: `told` counts what the agent was told; `excused` what it may not have
heard (the turn failed, showed nothing, or its daemon died); `slipped` are ends
lost with a mailbox, `unheld` ends given back though read. Left out: quiet and
long-running notices, the cards' content, what a task prints.

### Seats

The registry (`since`: when a seat was added; `ex`, `so`: the hold and the
refusal on record) shared by daemons, each with its `cache` and one turn. A login
is a number (`cred`), new at every sign-in; the real code compares fingerprints.
What Anthropic does (`Fill`, `Revoke`) is external: windows for all models or for
one are full until a time. `wall[c].model` is the window of the model a pinned
turn asks for.

- A **turn** is `Choose`, `Look`/`Answer` (`check_seat`, with `Settle` and
  `Reconcile`), `Save` (which merges what it observed into the registry as it is
  by then), `Launch`, `Start` (the login is read before the run, and again by
  it), `Refuse`, `Observe`, `Record` (`failover`).
- **Others** are `SignIn`, `SignedIn`, `Lift` (and `Abandon`: a login in a
  terminal lifts nothing), `Logout`, `Forget`.

`loose` (history): logins held for longer than their window, or for every model,
which the code does when an error names no reset or no model. `waived` (history):
logins whose refusal gave way to a sign-in, or to the refusal of another login - a
seat has room for one - though the login may come back into the seat. Left out: seats of
other runtimes, the texts, the shares a look reports.

### Inbox

`mafold agent --inbox`: an account whose chats an agent reads. A message is its
place in the server's order, and a timeline's marker one such place; a reply
being written has its place from the start, so the marker may pass it, and when
it finishes the server counts it once more (`risen`) though it lies behind.

- **Everybody else**: `Post`, `Begin`, `Finish`.
- **The loop**: `Heartbeat` or `Buzz` (which timelines are opened), `Look` (reads
  each, `New` splits it by the badge, what is braked is only marked), the turn
  with `Steer` (what comes in meanwhile), `Take` (the hook) and what it says,
  `Over` or `Fails`; then `Mark`, one timeline after another, `Settle`, `Save`.
- **A message it says** passes the guard (`Check`), which lets it through or holds it
  back, and goes out later (`Speak`): in between `mafold send` shows "typing" for 1.2 to
  8 seconds and makes a request. `typing` has what is on its way, and the newest message
  the guard looked at. `Blurt` is a message no guard looked for: `--anyway`, one into a
  thread, or one whose page did not come.

History: `heard` is what a turn that ended well was shown; `shelved` what the
marker passed for the brake, `slipped` by an oversight: a line leapt over (`Leapt`:
by a later one steered in, or by the marker of a /stop while the line was still in
the mailbox), a crash before the state was saved. A page has the unread lines and
`ContextLines` above them; with no more messages than that it has them all, so what
a page cuts off is not in the model (`MaxMsg <= ContextLines`, in the runs and in the
theorems). A reply's watch that expires (`WATCH_SECS`), messages that are gone, and what
a turn was still typing when it ended are not followed. The guard's reads of its ledger
and of the page are one step: the loop writes the ledger too, and a line of its lost that
way makes the guard hold back more, not less. Left out: the patrol and its card,
follow-ups, the session and the messages it knows, sparks.

`NotOverNews` is about the guard: what it looked at, the agent was shown. What comes
while the message is typed is spoken over, and so is what there is when no guard is
asked; inbox.rs (1498-1499) has the guard look "at the moment of sending". Both are in
the model and in the hazards, and no property forbids them.

### Vault

Devices of an account, the key the server keeps wrapped for each (`wrapped`),
the one in each device's cache, and the one its listener runs with (`rt`). The
one row is sealed with `row.key` and says so in `row.id`; `row.grant` is the
provider's grant, of which `live` holds those it honours: a refresh token is
taken once.

- **A listener's key**: `Connect`, `Register`, `Fetch`, `Hand` (on to devices
  that wait), `Hear` (a frame), `Recheck`, `Idle`, `NoKey`; `Drop` loses a socket with
  its frames, `Skip` one frame of a socket that stays.
- **A call**: `Claim`, `Read`, `Renew`, `Store`, `Settle` (the refusal), `Reread`,
  `Refused`, `Say`, each request of which may fail (`ClaimFails`, `RenewFails`,
  `StoreFails`, `SettleFails`, `SayFails`) and those to the provider never return
  (`Hangs`); a link is `Begin`, then `Linked` or `GiveUp` in a task of its
  own, with the key of its start.
- **Commands**: `First`/`Mint` (where no device has a key), `Revoke`, `List`,
  `Reseal`, `Rewrap`, `RotateFails`. `Reset` comes from another surface.

`keys` and `grants` number what is made. A provider that has handed out
`MaxGrant` goes on honouring the last.

Three things the code does are excepted from the liveness properties, by name. A device
whose approval was skipped on an open socket (`skipped`) goes on with its old key until
it registers again: an unlocked listener does not recheck. A device on a half-open
connection to a provider waits for ever (`"hung"`): `http_post` has no deadline, and the
listener awaits it inline. A call whose claim was recorded and whose reply was lost is
nobody's (`"lost"`). Without the first two exceptions TLC finds `CaughtUp` and
`Answered` violated.

Left out: `connection listen`, which unlocks once and serves with that key until it is
started again (`CaughtUp` is about the listener of `up`); a second revocation beside the
first, whose requests up to the list of rows are one step; rows handed over through a card,
paired machines, computers, MCP tools and native drivers (their calls end like
any other), the recovery passphrase, machine bindings, two devices minting a
first key at once, all cryptography (a key opens what is sealed with it).

## Runs

| run | what it asks | result |
|---|---|---|
| `intake` | 4 events, 2 messages, buffer of 2, 1 crash: `TypeOK`, `NoSilentLoss`, `OneAnswer`, `NoSecondTurn` | holds, 0.8 M states |
| `control_handover` | 1 request, 2 supervisors in turn: `TypeOK`, `CarriedOutOnce`, `KeepsPromise`, `TakenIsAnswered` | holds, 0.2 M states |
| `control_queue` | 2 requests, several passes, clock running: `KeepsPromise`, `TakenIsAnswered` | holds, 0.2 M states |
| `steering` | 3 messages (the circle, a payer, a guest), 2 surfaces, 2 rounds: `TypeOK`, `OneReply`, `WordsKept`, `Served` | holds, 0.5 M states |
| `supervisor` | 1 bot, 2 tokens, 3 troubles: `TypeOK`, `OneDaemon`, `DeathsAreNews`, `Kept` | holds, 0.8 M states |
| `update` | 2 copies, 2 releases, 3 troubles: `UpdateTypeOK`, `BinaryStarts`, `InstallIsReal`, `UpToDate` | holds, 0.3 M states |
| `tasks` | 2 tasks, 5 turns of 2 rounds, 2 tries, 4 troubles: `TypeOK`, `EndsHeard`, `ToldOnce`, `Brought` | holds, 0.3 M states |
| `seats` | 2 daemons (alike), 2 seats, 3 logins, 3 troubles: `TypeOK`, `MarkIsTrue`, `SkipIsTrue`, `RefusalStands`, `NotAgain`, `OnceEach` | holds, 0.6 M states |
| `inbox` | 2 timelines, 3 messages, 1 trouble: `TypeOK`, `Kept`, `NotOverNews`, `Reached` | holds, 0.3 M states |
| `inbox_leapt` | inbox.rs: what never reached the model stays unread (`NothingLeapt`) | violated |
| `vault` | 2 devices, 2 calls, a link, 2 keys, 3 grants, 3 troubles: `TypeOK`, `MarkIsTrue`, `CaughtUp`, `Answered` | holds, 0.6 M states |
| `vault_halfway` | connection.rs: a rotation that fails halfway leaves the vault un-rotated (`StillOpens`) | violated |

The violated ones are disagreements between the code and its own comments;
`findings` in PROJECT.json quotes both sides. Seven smaller ones of `Intake`, `Control`,
`Steering` and `Supervisor` have no run: PROJECT.json lists them among the hazards, with the lines
(a draft finalized beside a replayed message, an owed entry dropped as seen, a
request carried out after it expired or answered twice, words dropped with a
report's mailbox, two messages of a person in the other order, a daemon that
outlives its `rm`). The properties that hold name them as exceptions, each by a
history variable or a conjunct that says when it happened.

**Bounds.** `intake`: two messages are needed for one to overtake the other;
event 1 is there before the bot listens and event 4 reveals gaps; a buffer of 2
makes a gap of one refillable and of three not; one crash reaches each pair of
durable steps (the proofs cover any number). `control_handover`: two
supervisors give every hand-over, one request each interleaving of files;
`control_queue` the order of two within and across passes; the times are the
smallest with `EXPIRES < TAKEN_FOR < ANSWER_KEPT`. `steering`: three arrivals
are one running, one waiting, one that overtakes; two rounds of the code's
three are one leftover.
`supervisor`: everything in the code is per bot but the lock and the list, so one
bot shows the races over its files, and the proofs cover any number; the budget
`MaxTrouble` bounds what may go wrong or be asked (each command, restart, crash,
revocation, failed start or update is one), and three are a crash, a command and
a restart at once; seven pids are more daemons than three troubles can start.
`update`: two copies share one stamp, two releases are one to install and one to
roll back to, and three troubles are a rollback, a crash and a failed download.
`tasks`: two tasks share a mailbox; five turns of two rounds are the one that
detached them, its follow-up, an update that fails twice, and one more; the
code's three tries are two here. `seats`: two seats are one to refuse and one to
fail over to, the third login is one that comes into a seat meanwhile; turns ask
for the default seat unpinned or for the other one pinned to a model; the clock
has a before and an after of a wall. `inbox`: with three messages one can be
steered in, one leapt over or begun before the marker, and one read (of a
person's lines those that wake the agent, and a /stop); one message is on its way at a
time (`MaxSends`; the theorems cover any number); a streak of one brakes (the code's is
longer). `vault`: two devices renew one token, the
second key is the rotation's, the third grant comes after one that is lost.

Deadlock checking is off where the system rests: all events handled, every
request answered, every task over. What must not wait forever is stated as
`TakenIsAnswered` and `Served`.

**Fairness.** `Control`: the clock runs; the control thread, which looks every
300 ms, is served though another supervisor may hold the lock now and then
(strong fairness: tries are ten seconds apart); the service manager restarts a
supervisor that ended; one that stopped serving ends or finds that it did not.
`Steering`: each task's own steps, weakly: tokio runs every task, the gate is a
fair mutex, downloads and runs end. Nothing makes people speak, hooks fire,
drafts fail, or turns run again.
`Supervisor`: the service manager starts it (`Begin`; launchd, systemd and the
watchdog task do), its loop and its control thread run, a daemon asked to stop
stops, and one with a refused token leaves after its refusals. Commands need not
go on: they may be killed at any step.
`Update`: the service manager starts a binary that starts, the loop runs, a
cooldown ends, a command that is not killed goes on. `Tasks`: the daemon is
started again, its watcher ticks, its turns go on and end (hooks need not fire),
tasks end, the wait after a failed update is a time. `Inbox`: a heartbeat comes
and what a look began it completes; agents finish their replies (`Reached` would
not hold of one that is written for ever, nor should it). `Vault`: a listener
takes its next step, unless it hangs: requests to the Mafold server have a deadline
(`rpc_ex`), and one to a provider returns, fails, or takes `Hangs`, after which nothing
is asked of that listener; commands, consents and people need not. `Seats` has no
liveness: that a turn ends follows from `OnceEach` and the number of seats.

## Proofs

All from the constants' assumptions (`IntakeAssumption`, `ControlAssumption`,
`SteeringAssumption`, `SupervisorAssumption`, `SeatsAssumption`,
`UpdateAssumption`, `VaultAssumption`, `TasksAssumption`, `InboxAssumption`), which
TLC evaluates in every run. Each has the same shape: an invariant that holds at first and is kept
by every step, one lemma for each of its parts, and the properties from it. TLC
checked each invariant on the bounds of its run before the proof.

- **IntakeProofs** - `NoSilentLoss`, `OneAnswer`, `NoSecondTurn`, `TypeOK`, for
  any number of events, messages and crashes. The invariant ties each place of
  a task to what the two journals hold of its message, and what the cursor has
  passed to a place; `NoSilentLoss` alone says nothing of what is still ahead
  of the cursor on the socket or in the queue.
- **ControlUpdateProofs**, of `Control` - `CarriedOutOnce`, `TypeOK`, and that `Control` implements
  `ControlPromise`. Taking is a rename, so what two supervisors hold is
  disjoint (`OneHolder`); what a pass has yet to come to was not acted on
  (`InHand`).
- **SteeringProofs** - `WordsKept`, `OneReply`, `TypeOK`, for any number of
  messages, people, surfaces and rounds. `Shape` says what a task holds at each
  place, `FirstInLine` that who took the surface has nobody in line before
  them, which makes `OneReply` inductive.
- **SupervisorProofs** - `OneDaemon`, `DeathsAreNews`, `TypeOK`, for any number of
  bots, daemons, commands and failures. `Locked` says who goes on with SPAWNING
  held; `Tracked` that a running daemon is in its bot's pid file, or about to be
  written there, or lost; `Alone` that whoever is about to write a pid is about to
  write the only one; the rest (`Picked`) is what each place of the loop, a restart
  and a command holds - in the end, that a process about to lose its file does not
  run. Nearly every step is `Quiet` (starts none, writes no pid), so the argument
  is about the eight that are not. `DeathsAreNews` needs a second invariant
  (`News`): the loop reads a pid file without SPAWNING, so while it holds a dead
  pid, a restart may note that death and start another. Then SEEN names the new
  daemon, and the pid the loop holds no longer counts (`Counted`); a pid that was
  counted was written over first (`Replaced`), so nobody reads it again; and what
  SEEN names did not go with an earlier supervisor (`Here`), for that one took SEEN
  along.
- **SeatsProofs** - `MarkIsTrue`, `SkipIsTrue`, `RefusalStands`, `NotAgain`,
  `OnceEach`, `TypeOK`, for any number of daemons, seats and logins. Whatever is
  remembered of a seat names the login it is about, and is true of it wherever it
  is: on record (`Registry`), in a daemon's cache (`Looks`), read or found by a turn
  (`ReadTrue`, `HitTrue`). `Heeds` is what makes a save harmless: a turn that read
  a refusal which still stands is about to write the same one.
- **ControlUpdateProofs**, of `Update` - `BinaryStarts`, `InstallIsReal`,
  `UpdateTypeOK`, for any number of copies, releases and failures. What is about to be stamped is in place
  (`InPlace`) and what is about to be restored starts (`Restorable`), unless a
  rollback raced the install.
- **VaultProofs** - `MarkIsTrue`, `TypeOK`, for any number of devices, calls, keys
  and grants. A version of the row is written once, so what a device read is what
  is there if the version is still the same (`Fits`); that is all the compare
  before a store or a mark can tell, and it is enough: a refused grant is dead, and
  no grant comes back.
- **TasksProofs** - `EndsHeard`, `ToldOnce`, `TypeOK`, for any number of tasks,
  turns, rounds and retries. `Handed` and `Prompted` say where an end is that
  nobody was told of: in the mailbox it was handed to, or in a turn's hands.
  `Once` says the opposite for `ToldOnce`: wherever it may yet be told from, it
  was told no more often than it was lost; `Apart` that no two of these places
  hold the same end.
- **InboxProofs** - `Kept`, `NotOverNews`, `TypeOK`, for any number of timelines,
  whatever is posted in them, in whichever order it is read and marked, and any
  number of failures (and as many messages as a page holds). `Kept` says nothing
  before the marker moves, so the invariant follows a line from the look to the
  mark: what is to be marked was shown, is in the mailbox to be read, is left to the
  brake or is a /stop (`MarkedRead`); all that lies behind it likewise, or is a reply
  the books note, or an oversight (`BehindRead`); and a watched reply struck off as
  delivered was handed over (`HandedOver`), so that closing the books (`Settle`)
  drops nothing. `KeptSo` is `Kept` with the one message that will make the books
  watch a reply. For `NotOverNews` (`TypingSeen`: it stays true of a message on
  its way, whatever is posted, since that is newer than what the guard looked at),
  the place up to which the send guard takes a timeline for seen is a line the
  agent was told of (`FloorKnown`, `QueuedKnown`), and in the timelines of its
  turn it knows of all before it: a line that leaves the mailbox takes with it
  whatever older one was put there (`DraftsKnown` for the replies still being
  written). Most of the work is `Steer`, where a line may be written or not, and
  leap over others or not (`SteerKeeps`), and `Mark`.

What the attempts showed. Three properties of `Seats` held only within the bounds
of the run: with more logins or steps, a refusal gives way to that of another
login (a seat has room for one); a turn may then take the first login again, once
it is back; and a seat is passed over for the refusal of a login that is gone, with
none in it. The code means all three; the properties now say so (`waived`, and that
the seat has no login rather than that it was found missing), and the theorems
cover what the run could not reach. `Update`'s types said less of the lock than
they meant. `BehindRead` was not inductive at first, and rightly so: a line left in
the mailbox, or one whose write failed, is passed by the marker of a /stop that came
with it. The run had no /stop beside another line of the same timeline; now it has,
the model says so (`Leapt`), and `inbox_leapt` shows it.

Only model-checked: the liveness properties (`TakenIsAnswered`, `Served`, `Kept` of
the supervisor, `UpToDate`, `Brought`, `Reached`, `CaughtUp`, `Answered`), which are
beyond the prover: they rest on fairness, and so on ENABLED.

## Plan

1. Pages in `Inbox`: lines cut off where more than `ContextLines` come between a
   glance and the look.
2. A composition of `Intake` and `Steering`: crashes with words in a mailbox.
3. `Lease` (cc_conn) and `Prompts` (permission_mcp), `up`, `down` of everything
   and `adopt` of the supervisor.
4. The patrol and follow-ups of `Inbox`; handed-over rows and paired machines of
   `Vault`.

## Not modelled

Stream formats of the harnesses, cards and transcripts, prompts, the parsing of
mail and the table of providers are data: wrong or right for one input at a time,
which unit tests cover. Session ends and compaction are thresholds over measured
ages and sizes. The kernel of `mafold-harness` runs one turn in order over a host
and a model that are not in the repository; the store of `mafold-core` belongs to
the apps. Commands are single calls. The server, the providers, Anthropic, the
service manager, the operating system and people are external: modelled as far
as the code reads them, and free otherwise.
