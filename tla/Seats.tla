--------------------------------- MODULE Seats --------------------------------
(***************************************************************************)
(* The Claude logins of a machine (src/accounts.rs): the registry of seats  *)
(* its daemons share, what they remember of each, and a turn that chooses   *)
(* one, runs on it, and is handed to the next when that one refuses it.     *)
(*                                                                         *)
(* Upstream is modelled as it answers: a login is revoked or not, and its   *)
(* windows (for every model, for one model) are full until a given time.    *)
(***************************************************************************)
EXTENDS Integers, FiniteSets

CONSTANTS
    Daemon,
    Seats,        \* how many seats; the first is `default`
    Asks,         \* the turns there are: the seat asked for, the model pinned to
    MaxCred,      \* bound: logins ever made
    MaxNow,       \* bound: the clock
    MaxTrouble    \* bound: turns, sign-ins, refusals and other events

ASSUME SeatsAssumption ==
    /\ Seats \in Nat \ {0} /\ MaxCred \in Nat /\ MaxCred >= Seats
    /\ Asks \subseteq (1 .. Seats) \X {"none", "model"}
    /\ MaxNow \in Nat /\ MaxTrouble \in Nat

Seat    == 1 .. Seats
Default == 1
Cred    == 1 .. MaxCred
Time    == 0 .. MaxNow

VARIABLES
    now,
    cred,         \* of each seat: the login in its directory (0: none)
    revoked,      \* logins that Anthropic refuses
    wall,         \* of each login: until when its windows are full
    issued,       \* logins made
    since,        \* of each seat: Account::added_at (0: not registered)
    names,        \* how often a seat was added
    ex, so,       \* Registry::exhausted, Registry::signed_out
    cache,        \* of each daemon: its last look at each seat
    turn,         \* of each daemon: its turn
    login,        \* a sign-in under way
    loose,        \* logins held for longer, or for more models, than they are full (history)
    waived,       \* logins whose refusal gave way to a sign-in or to another's (history)
    trouble       \* how much of MaxTrouble is spent

upstream == <<revoked, wall>>
registry == <<since, names, ex, so>>
vars     == <<now, cred, issued, upstream, registry, cache, turn, login, loose, waived, trouble>>

Spend == trouble < MaxTrouble /\ trouble' = trouble + 1

NoWalls == [all |-> 0, model |-> 0]
NoHold  == [until |-> 0, scoped |-> FALSE, cred |-> 0]
Unseen  == [state |-> "unseen", walls |-> NoWalls, cred |-> 0]
NoLook  == [snap |-> Unseen, gen |-> 0, ex |-> NoHold, so |-> 0]

\* Daemons that have been up for a while (a look may always have got too old).
LookedFine(c) == [NoLook EXCEPT !.snap = [state |-> "ok", walls |-> NoWalls, cred |-> c],
                                !.gen = c]

\* A turn: where it stands, the model it is pinned to, the seat asked for, when
\* it began to choose; the seats it has yet to look at and those it ran on; the
\* one it is at or has taken, and why it passed over the last; the login it was
\* read to run on, the one it runs on; the registry as read, and as it would
\* have it; what it ran into.
NoTurn == [at |-> "idle", pin |-> "none", pref |-> 0, when |-> 0, rest |-> {}, tried |-> {},
           seat |-> 0, why |-> "unseen", attempted |-> 0, used |-> 0,
           since |-> [s \in Seat |-> 0],
           ex |-> [s \in Seat |-> NoHold], so |-> [s \in Seat |-> 0],
           myEx |-> [s \in Seat |-> NoHold], mySo |-> [s \in Seat |-> 0],
           gen |-> 0, hit |-> NoHold]

NoLogin == [at |-> "none", seat |-> 0, by |-> 0]

Init ==
    /\ now = 0
    /\ cred = [s \in Seat |-> s] /\ issued = Seats
    /\ revoked = {} /\ wall = [c \in Cred |-> NoWalls]
    /\ since = [s \in Seat |-> s] /\ names = Seats
    /\ ex = [s \in Seat |-> NoHold] /\ so = [s \in Seat |-> 0]
    /\ cache = [d \in Daemon |-> [s \in Seat |-> LookedFine(s)]]
    /\ turn = [d \in Daemon |-> NoTurn] /\ login = NoLogin
    /\ loose = {} /\ waived = {} /\ trouble = 0

-----------------------------------------------------------------------------
\* The world.

Tick ==
    /\ now < MaxNow
    /\ now' = now + 1
    /\ UNCHANGED <<cred, issued, upstream, registry, cache, turn, login, loose, waived, trouble>>

\* A window of a login is full, for all models or for one.
Fill(c, w, until) ==
    /\ c \in 1 .. issued /\ until > now /\ until > wall[c][w] /\ Spend
    /\ wall' = [wall EXCEPT ![c][w] = until]
    /\ UNCHANGED <<now, cred, issued, revoked, registry, cache, turn, login, loose, waived>>

Revoke(c) ==
    /\ c \in (1 .. issued) \ revoked /\ Spend
    /\ revoked' = revoked \cup {c}
    /\ UNCHANGED <<now, cred, issued, wall, registry, cache, turn, login, loose, waived>>

Forgotten(d, s) == cache' = [cache EXCEPT ![d][s] = NoLook]

\* sign_in: the seat is registered ...
SignIn(d, s) ==
    /\ login.at = "none" /\ issued < MaxCred /\ Spend
    /\ IF since[s] = 0 THEN since' = [since EXCEPT ![s] = names + 1] /\ names' = names + 1
                       ELSE UNCHANGED <<since, names>>
    /\ login' = [at |-> "flow", seat |-> s, by |-> d]
    /\ UNCHANGED <<now, cred, issued, upstream, ex, so, cache, turn, loose, waived>>

\* ... claude writes the login ...
SignedIn ==
    /\ login.at = "flow"
    /\ cred' = [cred EXCEPT ![login.seat] = issued + 1] /\ issued' = issued + 1
    /\ login' = [login EXCEPT !.at = "lift"]
    /\ UNCHANGED <<now, upstream, registry, cache, turn, loose, waived, trouble>>

\* ... and what was held against the seat is lifted.
Lift ==
    /\ login.at = "lift"
    /\ Forgotten(login.by, login.seat)
    /\ so' = [so EXCEPT ![login.seat] = 0] /\ ex' = [ex EXCEPT ![login.seat] = NoHold]
    /\ login' = NoLogin /\ waived' = waived \cup ({so[login.seat]} \ {0})
    /\ UNCHANGED <<now, cred, issued, upstream, since, names, turn, loose, trouble>>

\* It is given up; or it was a sign-in in a terminal, which lifts nothing.
Abandon ==
    /\ login.at \in {"flow", "lift"}
    /\ login' = NoLogin
    /\ UNCHANGED <<now, cred, issued, upstream, registry, cache, turn, loose, waived, trouble>>

\* `/logout`.
Logout(d, s) ==
    /\ cred[s] # 0 /\ Spend
    /\ cred' = [cred EXCEPT ![s] = 0]
    /\ Forgotten(d, s)
    /\ UNCHANGED <<now, issued, upstream, registry, turn, login, loose, waived>>

\* Mutant of Forget: `default` too.
ForgetAny(d, s) ==
    /\ since[s] # 0 /\ Spend
    /\ since' = [since EXCEPT ![s] = 0]
    /\ ex' = [ex EXCEPT ![s] = NoHold] /\ so' = [so EXCEPT ![s] = 0]
    /\ Forgotten(d, s)
    /\ UNCHANGED <<now, cred, issued, upstream, names, turn, login, loose, waived>>

\* `/account forget`: its login stays where it is.
Forget(d, s) ==
    /\ s # Default /\ since[s] # 0 /\ Spend
    /\ since' = [since EXCEPT ![s] = 0]
    /\ ex' = [ex EXCEPT ![s] = NoHold] /\ so' = [so EXCEPT ![s] = 0]
    /\ Forgotten(d, s)
    /\ UNCHANGED <<now, cred, issued, upstream, names, turn, login, loose, waived>>

-----------------------------------------------------------------------------
\* What a look at a seat comes to.

First(walls) ==
    IF walls.all # 0 THEN [until |-> walls.all, scoped |-> FALSE]
                     ELSE [until |-> walls.model, scoped |-> TRUE]

\* Mutant of Measured: whatever login is there now, it is what was measured.
MeasuredAny(c, s) ==
    LET left(w) == IF wall[c][w] > now THEN wall[c][w] ELSE 0
        walls == [all |-> left("all"), model |-> left("model")] IN
    IF 0 \in {c, cred[s]} THEN [Unseen EXCEPT !.state = "missing"]
    ELSE IF c \in revoked THEN [Unseen EXCEPT !.state = "refused"]
    ELSE [state |-> IF walls.all # 0 THEN "full" ELSE "ok", walls |-> walls, cred |-> cred[s]]

\* An answer about login c, which is of no use if the seat has another by now.
Measured(c, s) ==
    LET left(w) == IF wall[c][w] > now THEN wall[c][w] ELSE 0
        walls == [all |-> left("all"), model |-> left("model")] IN
    IF c # cred[s] THEN [Unseen EXCEPT !.state = "unknown"]
    ELSE IF c = 0 THEN [Unseen EXCEPT !.state = "missing"]
    ELSE IF c \in revoked THEN [Unseen EXCEPT !.state = "refused"]
    ELSE [state |-> IF walls.all # 0 THEN "full" ELSE "ok", walls |-> walls, cred |-> c]

\* reconcile_snapshot: of a hold and a refusal on record, an answer, and the
\* login fp there now: what is to be on record, the verdict, the walls.
Reconcile(hold, refusal, snap, when, fp) ==
    IF snap.state \in {"ok", "full"} THEN
        LET w == First(snap.walls) IN
        [ex |-> IF snap.walls = NoWalls THEN NoHold
                ELSE [until |-> w.until, scoped |-> w.scoped, cred |-> snap.cred],
         so |-> 0, state |-> snap.state, walls |-> snap.walls]
    ELSE IF snap.state = "unknown" THEN
        LET kept    == IF hold.cred # fp /\ fp # 0 THEN NoHold ELSE hold
            refused == refusal # 0 /\ (refusal = fp \/ fp = 0)
            active  == kept.until > when IN
        [ex |-> kept, so |-> IF refused THEN refusal ELSE 0,
         state |-> IF refused THEN "refused"
                   ELSE IF active /\ ~kept.scoped THEN "full" ELSE "unknown",
         walls |-> [all   |-> IF active /\ ~kept.scoped THEN kept.until ELSE 0,
                    model |-> IF active /\ kept.scoped THEN kept.until ELSE 0]]
    ELSE [ex |-> hold, so |-> refusal, state |-> snap.state, walls |-> snap.walls]

Blocks(walls, pin) == walls.all # 0 \/ (walls.model # 0 /\ pin = "model")

Passed(r, pin) == r.state \in {"missing", "refused", "barred"} \/ Blocks(r.walls, pin)

\* The next seat in line: the one asked for, then in the registry's order.
InLine(t, s) ==
    /\ s \in t.rest
    /\ t.pref \in t.rest => s = t.pref
    /\ t.pref \notin t.rest => \A r \in t.rest : t.since[s] <= t.since[r]

\* first_usable, at seat s, with what is known of it: taken, or passed over.
Settle(d, t, s, snap) ==
    LET r == Reconcile(t.myEx[s], t.mySo[s], snap, t.when, cred[s])
        passed == Passed(r, t.pin) IN
    turn' = [turn EXCEPT ![d] =
        [t EXCEPT !.myEx[s] = r.ex, !.mySo[s] = r.so, !.why = r.state, !.gen = 0,
                  !.rest = IF passed THEN @ \ {s} ELSE {},
                  !.seat = IF passed THEN 0 ELSE s,
                  !.at   = IF passed /\ t.rest # {s} THEN "seek" ELSE "save"]]

-----------------------------------------------------------------------------
\* A turn.

Registered == {s \in Seat : since[s] # 0}

\* It has the registry as it is now, and, of its own, without the holds that are
\* over.
Read(t, at, rest) ==
    [t EXCEPT !.at = at, !.rest = rest, !.since = since, !.ex = ex, !.so = so,
              !.myEx = ex, !.mySo = so, !.seat = 0]

\* choose.
Choose(d, pref, pin) ==
    /\ turn[d].at = "idle" /\ Spend
    /\ LET t == Read([NoTurn EXCEPT !.pin = pin, !.pref = pref, !.when = now],
                     "seek", Registered) IN
        turn' = [turn EXCEPT ![d] =
            [t EXCEPT !.myEx = [s \in Seat |-> IF ex[s].until > now THEN ex[s] ELSE NoHold]]]
    /\ UNCHANGED <<now, cred, issued, upstream, registry, cache, login, loose, waived>>

\* Mutant of Current: a look is good for a minute.
CurrentMinute(d, s) ==
    LET c == cache[d][s] IN
    /\ c.snap.state # "unseen" /\ c.gen = cred[s]
    /\ \A w \in {"all", "model"} : c.snap.walls[w] = 0 \/ c.snap.walls[w] > now

\* CachedSeat::fresh (it may always have got too old): of the same login, with
\* the same marks, and none of its walls over.
Current(d, s) ==
    LET c == cache[d][s] IN
    /\ c.snap.state # "unseen" /\ c.gen = cred[s] /\ c.ex = ex[s] /\ c.so = so[s]
    /\ \A w \in {"all", "model"} : c.snap.walls[w] = 0 \/ c.snap.walls[w] > now

\* check_seat: the last look will do, or another is begun ...
Look(d, s) ==
    LET t == turn[d] IN
    /\ t.at = "seek" /\ InLine(t, s)
    /\ \/ Current(d, s) /\ Settle(d, t, s, cache[d][s].snap)
       \/ turn' = [turn EXCEPT ![d] = [t EXCEPT !.at = "probe", !.seat = s, !.gen = cred[s],
                                                !.hit = ex[s], !.used = so[s]]]
    /\ UNCHANGED <<now, cred, issued, upstream, registry, cache, login, loose, waived, trouble>>

\* ... and answered: live, or not at all (no network, an access token that has
\* lapsed), or it cannot be asked (storage unreadable, a 403).
Answer(d) ==
    LET t == turn[d]
        s == t.seat IN
    /\ t.at = "probe"
    /\ \E snap \in {Measured(t.gen, s), [Unseen EXCEPT !.state = "unknown", !.cred = t.gen],
                    [Unseen EXCEPT !.state = "barred"]} :
        /\ cache' = [cache EXCEPT ![d][s] =
                        [snap |-> snap, gen |-> t.gen, ex |-> t.hit, so |-> t.used]]
        /\ Settle(d, [t EXCEPT !.hit = NoHold, !.used = 0], s, snap)
    /\ UNCHANGED <<now, cred, issued, upstream, registry, login, loose, waived, trouble>>

\* Mutant of Merged: the registry is saved as this turn has it.
MergedWhole(t, s, read, mine, current) == IF since[s] # 0 THEN mine ELSE current

\* merge_observations: a mark that this turn changed, if no one else has, and
\* the seat is the one it was.
Merged(t, s, read, mine, current) ==
    IF since[s] = t.since[s] /\ since[s] # 0 /\ read # mine /\ current = read
      THEN mine ELSE current

Save(d) ==
    LET t == turn[d] IN
    /\ t.at = "save"
    /\ ex' = [s \in Seat |-> Merged(t, s, t.ex[s], t.myEx[s], ex[s])]
    /\ so' = [s \in Seat |-> Merged(t, s, t.so[s], t.mySo[s], so[s])]
    /\ turn' = [turn EXCEPT ![d] =
                   IF t.seat = 0 THEN NoTurn
                   ELSE [NoTurn EXCEPT !.at = "launch", !.pin = t.pin, !.seat = t.seat,
                                       !.tried = t.tried \cup {t.seat}]]
    /\ UNCHANGED <<now, cred, issued, upstream, since, names, cache, login, loose, waived, trouble>>

\* Its login is read, and later the run reads it.
Launch(d) ==
    /\ turn[d].at = "launch"
    /\ turn' = [turn EXCEPT ![d].at = "start", ![d].attempted = cred[turn[d].seat]]
    /\ UNCHANGED <<now, cred, issued, upstream, registry, cache, login, loose, waived, trouble>>

Start(d) ==
    /\ turn[d].at = "start"
    /\ turn' = [turn EXCEPT ![d].at = "run", ![d].used = cred[turn[d].seat]]
    /\ UNCHANGED <<now, cred, issued, upstream, registry, cache, login, loose, waived, trouble>>

\* The run ends, or is stopped.
Finish(d) ==
    /\ turn[d].at = "run"
    /\ turn' = [turn EXCEPT ![d] = NoTurn]
    /\ UNCHANGED <<now, cred, issued, upstream, registry, cache, login, loose, waived, trouble>>

\* It hits a window (of the model it is pinned to, or of the harness's own), or
\* its sign-in is refused.  A window that gives no reset is held for an hour, one
\* that names no model, of a turn that is pinned to none, for all of them.
RunsInto(t, hit, isLoose) ==
    LET c == t.used IN
    \/ \E w \in {"all", "model"}, known, named \in BOOLEAN :
        /\ c # 0 /\ wall[c][w] > now
        /\ hit = [until  |-> IF known THEN wall[c][w] ELSE now + 1,
                  scoped |-> w = "model" /\ (named \/ t.pin # "none"), cred |-> 0]
        /\ isLoose = (hit.until > wall[c][w] \/ (w = "model" /\ ~hit.scoped))
    \/ (c = 0 \/ c \in revoked) /\ hit = NoHold /\ isLoose = FALSE

Refuse(d) ==
    /\ turn[d].at = "run"
    /\ \E until \in 0 .. MaxNow + 1, scoped, isLoose \in BOOLEAN :
        LET hit == [until |-> until, scoped |-> scoped, cred |-> 0] IN
        /\ RunsInto(turn[d], hit, isLoose)
        /\ turn' = [turn EXCEPT ![d].at = "observe", ![d].hit = hit]
        /\ loose' = IF isLoose THEN loose \cup {turn[d].used} ELSE loose
    /\ UNCHANGED <<now, cred, issued, upstream, registry, cache, login, waived, trouble>>

\* failover: the seat and its login are read ...
Observe(d) ==
    LET t == turn[d] IN
    /\ t.at = "observe"
    /\ turn' = [turn EXCEPT ![d] = [t EXCEPT !.at = "record", !.gen = cred[t.seat],
                                             !.since = since, !.when = now]]
    /\ UNCHANGED <<now, cred, issued, upstream, registry, cache, login, loose, waived, trouble>>

\* Mutant of Blamed: the login that is there now.
BlamedNow(t, s) == since[s] = t.since[s] /\ since[s] # 0 /\ t.gen # 0

\* The refusal is of the login that ran, if it is the one that is still there.
Blamed(t, s) ==
    /\ since[s] = t.since[s] /\ since[s] # 0
    /\ t.attempted # 0 /\ t.gen = t.attempted

\* Mutant of Untried: every seat.
UntriedAny(t) == Registered

Untried(t) == Registered \ t.tried

\* ... it is remembered, and the other seats are looked at (hand_over).
Record(d) ==
    LET t == turn[d]
        s == t.seat
        blamed == Blamed(t, s) IN
    /\ t.at = "record"
    /\ ex' = IF blamed /\ t.hit # NoHold THEN [ex EXCEPT ![s] = [t.hit EXCEPT !.cred = t.gen]] ELSE ex
    /\ so' = IF blamed /\ t.hit = NoHold THEN [so EXCEPT ![s] = t.gen] ELSE so
    /\ waived' = waived \cup ({so[s]} \ {0, so'[s]})
    /\ Forgotten(d, s)
    /\ turn' = [turn EXCEPT ![d] =
           IF Untried(t) = {} THEN NoTurn
           ELSE [NoTurn EXCEPT !.at = "seek", !.pin = t.pin, !.when = t.when,
                               !.rest = Untried(t), !.tried = t.tried, !.since = since,
                               !.ex = ex', !.so = so', !.myEx = ex', !.mySo = so']]
    /\ UNCHANGED <<now, cred, issued, upstream, since, names, login, loose, trouble>>

Crash(d) ==
    /\ turn[d].at # "idle" /\ Spend
    /\ turn' = [turn EXCEPT ![d] = NoTurn]
    /\ cache' = [cache EXCEPT ![d] = [s \in Seat |-> NoLook]]
    /\ UNCHANGED <<now, cred, issued, upstream, registry, login, loose, waived>>

TurnNext(d) ==
    \/ Answer(d) \/ Save(d) \/ Launch(d) \/ Start(d) \/ Finish(d) \/ Refuse(d)
    \/ Observe(d) \/ Record(d)
    \/ \E s \in Seat : Look(d, s)

Next ==
    \/ Tick \/ SignedIn \/ Lift \/ Abandon
    \/ \E c \in Cred : Revoke(c) \/ \E w \in {"all", "model"}, t \in Time : Fill(c, w, t)
    \/ \E d \in Daemon, s \in Seat : SignIn(d, s) \/ Logout(d, s) \/ Forget(d, s)
    \/ \E d \in Daemon, ask \in Asks : Choose(d, ask[1], ask[2])
    \/ \E d \in Daemon : TurnNext(d) \/ Crash(d)

Spec == Init /\ [][Next]_vars

-----------------------------------------------------------------------------
HoldType == [until : 0 .. MaxNow + 1, scoped : BOOLEAN, cred : 0 .. MaxCred]
WallType == [all : Time, model : Time]
SnapType == [state : {"unseen", "ok", "full", "missing", "refused", "barred", "unknown"},
             walls : WallType, cred : 0 .. MaxCred]

Marks == [Seat -> HoldType]
Creds == [Seat -> 0 .. MaxCred]

TurnType ==
    [at : {"idle", "seek", "probe", "save", "launch", "start", "run", "observe", "record"},
     pin : {"none", "model"}, pref : 0 .. Seats, when : Time,
     rest : SUBSET Seat, tried : SUBSET Seat, seat : 0 .. Seats,
     why : {"unseen", "ok", "full", "missing", "refused", "barred", "unknown"},
     attempted : 0 .. MaxCred, used : 0 .. MaxCred, since : [Seat -> Nat],
     ex : Marks, so : Creds, myEx : Marks, mySo : Creds, gen : 0 .. MaxCred, hit : HoldType]

\* Every variable keeps its type, and `default` is always registered.
TypeOK ==
    /\ now \in Time /\ cred \in Creds /\ issued \in 0 .. MaxCred
    /\ revoked \subseteq Cred /\ wall \in [Cred -> WallType]
    /\ since \in [Seat -> Nat] /\ since[Default] # 0 /\ names \in Nat
    /\ ex \in Marks /\ so \in Creds
    /\ cache \in [Daemon -> [Seat -> [snap : SnapType, gen : 0 .. MaxCred, ex : HoldType,
                                      so : 0 .. MaxCred]]]
    /\ turn \in [Daemon -> TurnType]
    /\ login \in {NoLogin} \cup [at : {"flow", "lift"}, seat : Seat, by : Daemon]
    /\ loose \subseteq Cred /\ waived \subseteq Cred /\ trouble \in 0 .. MaxTrouble

\* What is on record of a seat is true of the login it names, and never of one
\* that came into the seat while a run or a probe of it was under way.
MarkIsTrue ==
    \A s \in Seat :
        /\ so[s] # 0 => so[s] \in revoked
        /\ ex[s] # NoHold /\ ex[s].cred \notin loose =>
              ex[s].until <= wall[ex[s].cred][IF ex[s].scoped THEN "model" ELSE "all"]

\* A turn passes over a seat only for what is so of the login in it as it looks:
\* not for the refusal or the window of one that was there before, whoever
\* signed in again and wherever, nor for another model's window - or because it cannot
\* be asked (barred).
SkipIsTrue ==
    [][\A d \in Daemon, s \in Seat :
          LET t == turn[d]
              c == cred[s] IN
          t.at \in {"seek", "probe"} /\ (t.at = "probe" => t.seat = s) /\ s \in t.rest
            /\ s \notin turn'[d].rest /\ turn'[d].seat = 0 /\ turn'[d].at \in {"seek", "save"} =>
              \/ turn'[d].why = "barred" \/ c \in {0} \cup revoked \cup loose
              \/ wall[c].all > t.when \/ (t.pin = "model" /\ wall[c].model > t.when)]_vars

\* A remembered refusal stands until the seat has another login, or another seat its
\* name, or a sign-in or the refusal of another login takes its place, whatever a probe
\* or a turn of another daemon read before ("a newer refusal wins").
RefusalStands ==
    [][\A s \in Seat :
          so[s] # 0 /\ so'[s] # so[s] =>
              cred[s] # so[s] \/ since'[s] # since[s] \/ so[s] \in waived']_vars

\* A turn does not take a seat whose refusal, by the login that is still there,
\* was on record when it began ("so the next turn doesn't walk into it again"), unless
\* that refusal has given way since.
NotAgain ==
    [][\A d \in Daemon :
          LET t == turn[d]
              s == turn'[d].seat IN
          t.at \in {"seek", "probe"} /\ turn'[d].at = "save" /\ s # 0 /\ since[s] = t.since[s] =>
              t.so[s] = 0 \/ t.so[s] # cred[s] \/ t.so[s] \in waived]_vars

\* Each login is tried at most once by a turn, "so this always ends".
OnceEach ==
    [][\A d \in Daemon :
          turn[d].at = "save" /\ turn'[d].at = "launch" => turn[d].seat \notin turn[d].tried]_vars
=============================================================================
