------------------------------ MODULE SeatsProofs ------------------------------
(***************************************************************************)
(* For any number of daemons, seats and logins: what is on record of a     *)
(* seat is true, and a turn goes by it.                                    *)
(***************************************************************************)
EXTENDS Seats, TLAPS

\* A hold, and a refusal, that is true of the login it names.
HoldTrue(h) ==
    h # NoHold =>
        /\ h.cred \in Cred
        /\ h.cred \notin loose => h.until <= wall[h.cred][IF h.scoped THEN "model" ELSE "all"]
RefusalTrue(c) == c \in revoked \cup {0}

\* Logins and names are numbered as they come.
Issued ==
    /\ \A s \in Seat : cred[s] <= issued /\ since[s] <= names
    /\ revoked \subseteq 1 .. issued
    /\ login.at = "flow" => issued < MaxCred
    /\ \A d \in Daemon :
         /\ turn[d].attempted <= issued
         /\ \A s \in Seat : turn[d].since[s] <= names

\* What a turn has at each place: the seats it has yet to look at, registered
\* when it read the registry and none of them tried, and the one it is at.
Placed(t) ==
    /\ t.when <= now
    /\ t.at \in {"seek", "probe"} => t.rest \cap t.tried = {}
    /\ \A s \in t.rest : t.since[s] # 0
    /\ t.at = "probe" => t.seat \in t.rest /\ RefusalTrue(t.used)
    /\ t.at = "save" => t.seat \notin t.tried
    /\ t.at \in {"launch", "start", "run", "observe", "record"} => t.seat \in Seat /\ t.rest = {}

\* What it read, and would write, is true.
ReadTrue(t) ==
    \A s \in Seat : HoldTrue(t.myEx[s]) /\ RefusalTrue(t.mySo[s]) /\ RefusalTrue(t.so[s])

\* The login it was read to run on is the one it ran on, if it is there still.
RanOn(t) ==
    /\ t.at \in {"run", "observe"} /\ t.attempted # 0 /\ cred[t.seat] = t.attempted =>
         t.used = t.attempted
    /\ t.at = "record" /\ t.attempted # 0 /\ t.gen = t.attempted => t.used = t.attempted

\* What it ran into is true of the login it ran on.
HitTrue(t) ==
    t.at \in {"observe", "record"} =>
        IF t.hit = NoHold THEN RefusalTrue(t.used) ELSE HoldTrue([t.hit EXCEPT !.cred = t.used])

\* A refusal that it read of the login that is in the seat stands, and it leaves
\* it alone.
Heeds(t) ==
    t.at \in {"seek", "probe", "save"} =>
        \A s \in Seat :
            /\ t.so[s] # 0 /\ t.so[s] \notin waived /\ cred[s] = t.so[s]
            /\ since[s] # 0 /\ since[s] = t.since[s]
            => so[s] = t.so[s] /\ t.mySo[s] = t.so[s]

\* A look is true of the login it was at, and one that found it well was begun
\* when no refusal of it was on record.
LookTrue(c) ==
    /\ c.snap.state \in {"ok", "full"} =>
         /\ c.snap.cred = c.gen /\ c.gen \in Cred /\ c.gen # c.so
         /\ c.snap.walls.all <= wall[c.gen].all /\ c.snap.walls.model <= wall[c.gen].model
    /\ c.snap.state = "refused" => c.gen \in revoked
    /\ c.snap.state = "missing" => c.gen = 0

Registry == \A s \in Seat : HoldTrue(ex[s]) /\ RefusalTrue(so[s])
Looks    == \A d \in Daemon, s \in Seat : LookTrue(cache[d][s])
Sound(t) == Placed(t) /\ ReadTrue(t) /\ RanOn(t) /\ HitTrue(t) /\ Heeds(t)
Turns    == \A d \in Daemon : Sound(turn[d])

\* The inductive invariant.
IInv == TypeOK /\ Issued /\ Registry /\ Looks /\ Turns
--------------------------------------------------------------------------------
\* No login is 0, nor a seat.
LEMMA Numbers ==
    /\ Seats \in Nat /\ Seats # 0 /\ MaxCred \in Nat /\ MaxCred >= Seats
    /\ MaxNow \in Nat /\ MaxTrouble \in Nat
    /\ Default \in Seat /\ Seat \subseteq 1 .. MaxCred /\ 0 \in Time
    /\ Cred = 1 .. MaxCred /\ Time = 0 .. MaxNow /\ Seat = 1 .. Seats
  BY SeatsAssumption DEF Default, Seat, Cred, Time

LookType == [snap : SnapType, gen : 0 .. MaxCred, ex : HoldType, so : 0 .. MaxCred]

\* What there is to begin with is of its type.
LEMMA Nothing ==
    /\ NoHold \in HoldType /\ NoWalls \in WallType /\ Unseen \in SnapType
    /\ NoLook \in LookType /\ NoTurn \in TurnType
    /\ \A s \in Seat : LookedFine(s) \in LookType
<1>1. NoHold \in HoldType /\ NoWalls \in WallType
  BY Numbers DEF NoHold, HoldType, NoWalls, WallType
<1>2. Unseen \in SnapType
  BY <1>1, Numbers DEF Unseen, SnapType
<1>3. NoLook \in LookType
  BY <1>1, <1>2, Numbers DEF NoLook, LookType
<1>4. NoTurn \in TurnType
  BY <1>1, Numbers DEF NoTurn, TurnType, Marks, Creds
<1>5. ASSUME NEW s \in Seat
      PROVE  LookedFine(s) \in LookType
  <2>1. s \in 0 .. MaxCred
    BY Numbers
  <2>2. [state |-> "ok", walls |-> NoWalls, cred |-> s] \in SnapType
    BY <1>1, <2>1 DEF SnapType
  <2> QED
    BY <1>3, <2>1, <2>2 DEF LookedFine, LookType
<1> QED
  BY <1>1, <1>2, <1>3, <1>4, <1>5

\* A look forgotten leaves looks.
LEMMA Forgets ==
    ASSUME cache \in [Daemon -> [Seat -> LookType]], NEW d \in Daemon, NEW s \in Seat,
           Forgotten(d, s)
    PROVE  cache' \in [Daemon -> [Seat -> LookType]]
<1>1. NoLook \in LookType
  BY Nothing
<1>2. [cache[d] EXCEPT ![s] = NoLook] \in [Seat -> LookType]
  BY <1>1
<1> QED
  BY <1>2 DEF Forgotten

\* What the parts of the state may be.
LEMMA Types ==
    ASSUME TypeOK
    PROVE  /\ \A s \in Seat : /\ cred[s] \in 0 .. MaxCred /\ since[s] \in Nat
                              /\ ex[s] \in HoldType /\ so[s] \in 0 .. MaxCred
           /\ \A d \in Daemon, s \in Seat : cache[d][s] \in LookType
           /\ \A d \in Daemon : turn[d] \in TurnType
           /\ \A c \in Cred : wall[c] \in WallType /\ wall[c].all \in Int /\ wall[c].model \in Int
           /\ login.seat \in 0 .. Seats
           /\ login.at # "none" => login.seat \in Seat /\ login.by \in Daemon
<1>1. \A s \in Seat : /\ cred[s] \in 0 .. MaxCred /\ since[s] \in Nat
                      /\ ex[s] \in HoldType /\ so[s] \in 0 .. MaxCred
  BY DEF TypeOK, Marks, Creds
<1>2. \A d \in Daemon, s \in Seat : cache[d][s] \in LookType
  BY DEF TypeOK, LookType
<1>3. ASSUME NEW c \in Cred
      PROVE  wall[c] \in WallType /\ wall[c].all \in Int /\ wall[c].model \in Int
  <2>1. wall[c] \in WallType
    BY DEF TypeOK
  <2> QED
    BY <2>1, Numbers DEF WallType
<1>4. login.seat \in 0 .. Seats /\ (login.at # "none" => login.seat \in Seat /\ login.by \in Daemon)
  BY Numbers DEF TypeOK, NoLogin
<1> QED
  BY <1>1, <1>2, <1>3, <1>4 DEF TypeOK

\* A seat that can be taken is one the turn has yet to look at.
LEMMA Probed ==
    ASSUME TypeOK, NEW d \in Daemon
    PROVE  /\ turn[d].rest \subseteq Seat /\ turn[d].tried \subseteq Seat
           /\ turn[d].seat \in 0 .. Seats /\ turn[d].gen \in 0 .. MaxCred
           /\ turn[d].used \in 0 .. MaxCred /\ turn[d].attempted \in 0 .. MaxCred
           /\ turn[d].hit \in HoldType /\ turn[d].when \in Time /\ turn[d].pin \in {"none", "model"}
           /\ \A s \in Seat : /\ turn[d].ex[s] \in HoldType /\ turn[d].myEx[s] \in HoldType
                              /\ turn[d].so[s] \in 0 .. MaxCred /\ turn[d].mySo[s] \in 0 .. MaxCred
                              /\ turn[d].since[s] \in Nat
<1>1. turn[d] \in TurnType
  BY Types
<1> QED
  BY <1>1 DEF TurnType, Marks, Creds

States == {"unseen", "ok", "full", "missing", "refused", "barred", "unknown"}

\* What is put on record for a look is of its type, and is what was on record, or
\* nothing, or what the look found.
LEMMA Reconciled ==
    ASSUME NEW hold \in HoldType, NEW refusal \in 0 .. MaxCred, NEW snap \in SnapType,
           NEW when \in Time, NEW fp \in 0 .. MaxCred
    PROVE  LET r == Reconcile(hold, refusal, snap, when, fp) IN
           /\ r.ex \in HoldType /\ r.so \in {0, refusal} /\ r.state \in States
           /\ snap.state \notin {"ok", "full"} => r.ex \in {NoHold, hold}
           /\ snap.state \in {"ok", "full"} =>
                /\ r.so = 0 /\ r.state = snap.state /\ r.walls = snap.walls
                /\ \/ r.ex = NoHold
                   \/ r.ex.cred = snap.cred /\ r.ex.scoped /\ r.ex.until = snap.walls.model
                   \/ r.ex.cred = snap.cred /\ ~r.ex.scoped /\ r.ex.until = snap.walls.all
<1>0. /\ snap.state \in States /\ snap.walls \in WallType /\ snap.cred \in 0 .. MaxCred
      /\ snap.walls.all \in 0 .. MaxNow + 1 /\ snap.walls.model \in 0 .. MaxNow + 1
      /\ NoHold \in HoldType
  BY Nothing, Numbers DEF SnapType, States, WallType
<1> DEFINE w == First(snap.walls)
           r == Reconcile(hold, refusal, snap, when, fp)
<1>1. CASE snap.state \in {"ok", "full"}
  <2>1. \/ w.until = snap.walls.all /\ w.scoped = FALSE
        \/ w.until = snap.walls.model /\ w.scoped = TRUE
    BY DEF First
  <2>2. r = [ex |-> IF snap.walls = NoWalls THEN NoHold
                    ELSE [until |-> w.until, scoped |-> w.scoped, cred |-> snap.cred],
             so |-> 0, state |-> snap.state, walls |-> snap.walls]
    BY <1>1 DEF Reconcile
  <2> HIDE DEF w, r
  <2>3. [until |-> w.until, scoped |-> w.scoped, cred |-> snap.cred] \in HoldType
    BY <2>1, <1>0 DEF HoldType
  <2> QED
    BY <1>0, <1>1, <2>1, <2>2, <2>3 DEF r
<1>2. CASE snap.state = "unknown"
  BY <1>0, <1>2, SMTT(30) DEF Reconcile, States
<1>3. CASE snap.state \notin {"ok", "full", "unknown"}
  BY <1>0, <1>3 DEF Reconcile
<1> QED
  BY <1>1, <1>2, <1>3

\* A turn that has settled on what to do with a seat: what it is then, r being
\* what the look came to.
LEMMA Settled ==
    ASSUME turn \in [Daemon -> TurnType], NEW d \in Daemon, NEW t \in TurnType,
           NEW s \in Seat, NEW snap \in SnapType, cred[s] \in 0 .. MaxCred, Settle(d, t, s, snap)
    PROVE  LET r == Reconcile(t.myEx[s], t.mySo[s], snap, t.when, cred[s])
               u == turn'[d] IN
           /\ turn' \in [Daemon -> TurnType]
           /\ \A e \in Daemon \ {d} : turn'[e] = turn[e]
           /\ u.at \in {"seek", "save"} /\ u.rest \subseteq t.rest \ {s} /\ u.why = r.state
           /\ Passed(r, t.pin) => u.seat = 0 /\ u.rest = t.rest \ {s}
           /\ ~Passed(r, t.pin) => u.seat = s /\ u.rest = {} /\ u.at = "save"
           /\ u.tried = t.tried /\ u.when = t.when /\ u.since = t.since /\ u.so = t.so
           /\ u.attempted = t.attempted /\ u.used = t.used /\ u.hit = t.hit /\ u.pin = t.pin
           /\ u.ex = t.ex
           /\ u.myEx = [t.myEx EXCEPT ![s] = r.ex] /\ u.mySo = [t.mySo EXCEPT ![s] = r.so]
<1> DEFINE r == Reconcile(t.myEx[s], t.mySo[s], snap, t.when, cred[s])
           passed == Passed(r, t.pin)
           u == [t EXCEPT !.myEx[s] = r.ex, !.mySo[s] = r.so, !.why = r.state, !.gen = 0,
                  !.rest = IF passed THEN @ \ {s} ELSE {},
                  !.seat = IF passed THEN 0 ELSE s,
                  !.at   = IF passed /\ t.rest # {s} THEN "seek" ELSE "save"]
<1>1. turn' = [turn EXCEPT ![d] = u]
  BY DEF Settle
<1>2. /\ t.myEx \in Marks /\ t.mySo \in Creds /\ t.when \in Time
      /\ t.myEx[s] \in HoldType /\ t.mySo[s] \in 0 .. MaxCred
  BY DEF TurnType, Marks, Creds
<1>3. r.ex \in HoldType /\ r.so \in 0 .. MaxCred /\ r.state \in States
  <2>1. r.ex \in HoldType /\ r.so \in {0, t.mySo[s]} /\ r.state \in States
    BY <1>2, Reconciled
  <2> QED
    BY <1>2, <2>1, Numbers
<1> HIDE DEF r, passed
<1>4. [t.myEx EXCEPT ![s] = r.ex] \in Marks /\ [t.mySo EXCEPT ![s] = r.so] \in Creds
  BY <1>2, <1>3 DEF Marks, Creds
<1>5. /\ u.at \in {"seek", "save"} /\ u.why = r.state
      /\ passed => u.seat = 0 /\ u.rest = t.rest \ {s}
      /\ ~passed => u.seat = s /\ u.rest = {} /\ u.at = "save"
      /\ u.tried = t.tried /\ u.when = t.when /\ u.since = t.since /\ u.so = t.so
      /\ u.attempted = t.attempted /\ u.used = t.used /\ u.hit = t.hit /\ u.pin = t.pin
      /\ u.ex = t.ex
      /\ u.myEx = [t.myEx EXCEPT ![s] = r.ex] /\ u.mySo = [t.mySo EXCEPT ![s] = r.so]
  BY DEF TurnType
<1>6. u \in TurnType
  <2>1. 0 \in 0 .. MaxCred /\ 0 \in 0 .. Seats /\ s \in 0 .. Seats
    BY Numbers
  <2>2. /\ [t EXCEPT !.myEx = [t.myEx EXCEPT ![s] = r.ex], !.mySo = [t.mySo EXCEPT ![s] = r.so]]
             \in TurnType
    BY <1>4 DEF TurnType
  <2> DEFINE v == [t EXCEPT !.myEx[s] = r.ex, !.mySo[s] = r.so]
  <2>3. v \in TurnType
    BY <2>2
  <2>4. u = [v EXCEPT !.why = r.state, !.gen = 0, !.rest = IF passed THEN @ \ {s} ELSE {},
                      !.seat = IF passed THEN 0 ELSE s,
                      !.at = IF passed /\ t.rest # {s} THEN "seek" ELSE "save"]
    OBVIOUS
  <2> HIDE DEF v
  <2> QED
    BY <1>3, <2>1, <2>3, <2>4 DEF TurnType, States
<1> HIDE DEF u
<1>7. turn'[d] = u /\ turn' \in [Daemon -> TurnType] /\ \A e \in Daemon \ {d} : turn'[e] = turn[e]
  BY <1>1, <1>6
<1> QED
  BY <1>5, <1>7 DEF r, passed

\* It keeps its type.
LEMMA SettledType ==
    ASSUME turn \in [Daemon -> TurnType], NEW d \in Daemon, NEW t \in TurnType,
           NEW s \in Seat, NEW snap \in SnapType, cred[s] \in 0 .. MaxCred, Settle(d, t, s, snap)
    PROVE  turn' \in [Daemon -> TurnType]
  BY Settled

\* An answer about the login of a seat is true of it, if it is there still.
LEMMA MeasuredTrue ==
    ASSUME TypeOK, NEW c \in 0 .. MaxCred, NEW s \in Seat
    PROVE  LET m == Measured(c, s) IN
           /\ m \in SnapType /\ m.state # "unseen" /\ m.state # "barred"
           /\ m.state \in {"ok", "full"} =>
                /\ m.cred = c /\ c = cred[s] /\ c \in Cred /\ c \notin revoked
                /\ m.walls.all <= wall[c].all /\ m.walls.model <= wall[c].model
                /\ m.walls.all = 0 \/ m.walls.all > now
                /\ m.walls.model = 0 \/ m.walls.model > now
           /\ m.state = "refused" => c = cred[s] /\ c \in revoked
           /\ m.state = "missing" => c = cred[s] /\ c = 0
<1> DEFINE left(w) == IF wall[c][w] > now THEN wall[c][w] ELSE 0
           walls == [all |-> left("all"), model |-> left("model")]
           m == Measured(c, s)
<1>1. CASE c # cred[s] \/ c = 0 \/ c \in revoked
  BY <1>1, Nothing DEF Measured, Unseen, SnapType
<1>2. CASE c = cred[s] /\ c # 0 /\ c \notin revoked
  <2>0. c \in Cred /\ now \in Time
    BY <1>2, Numbers DEF TypeOK
  <2>1. c \in Cred /\ wall[c] \in WallType /\ now \in Time
    BY <2>0, Types
  <2>2. /\ wall[c].all \in 0 .. MaxNow /\ wall[c].model \in 0 .. MaxNow
        /\ now \in 0 .. MaxNow /\ MaxNow \in Nat
    BY <2>1, Numbers DEF WallType
  <2>3. walls \in WallType
    BY <2>2, Numbers DEF WallType
  <2>4. /\ walls.all <= wall[c].all /\ walls.model <= wall[c].model
        /\ walls.all = 0 \/ walls.all > now
        /\ walls.model = 0 \/ walls.model > now
    BY <2>2
  <2>5. m = [state |-> IF walls.all # 0 THEN "full" ELSE "ok", walls |-> walls, cred |-> c]
    BY <1>2 DEF Measured
  <2> HIDE DEF walls, m
  <2>6. m \in SnapType
    BY <2>3, <2>5 DEF SnapType
  <2> QED
    BY <1>2, <2>1, <2>4, <2>5, <2>6 DEF m
<1> QED
  BY <1>1, <1>2

\* What a step may do to the world and to the registry: time passes, windows
\* fill, logins are made and refused; a seat gets a new login or none, and is
\* named anew or forgotten.
LEMMA Aging ==
    ASSUME TypeOK, Issued, [Next]_vars
    PROVE  /\ now <= now' /\ issued <= issued' /\ names <= names'
           /\ revoked \subseteq revoked' /\ loose \subseteq loose' /\ waived \subseteq waived'
           /\ revoked' \subseteq revoked \cup 1 .. issued
           /\ \A c \in Cred : wall[c].all <= wall'[c].all /\ wall[c].model <= wall'[c].model
           /\ \A s \in Seat :
                /\ cred'[s] \in {cred[s], 0} \/ (cred'[s] = issued + 1 /\ issued' = issued + 1)
                /\ since'[s] \in {since[s], 0} \/ (since'[s] = names + 1 /\ names' = names + 1)
<1> DEFINE Older ==
             /\ now <= now' /\ issued <= issued' /\ names <= names'
             /\ revoked \subseteq revoked' /\ loose \subseteq loose' /\ waived \subseteq waived'
             /\ revoked' \subseteq revoked \cup 1 .. issued
             /\ \A c \in Cred : wall[c].all <= wall'[c].all /\ wall[c].model <= wall'[c].model
             /\ \A s \in Seat :
                  /\ cred'[s] \in {cred[s], 0} \/ (cred'[s] = issued + 1 /\ issued' = issued + 1)
                  /\ since'[s] \in {since[s], 0} \/ (since'[s] = names + 1 /\ names' = names + 1)
<1>0. /\ now \in Int /\ issued \in Int /\ names \in Int /\ wall \in [Cred -> WallType]
      /\ \A c \in Cred : wall[c].all \in Int /\ wall[c].model \in Int
      /\ cred \in Creds /\ since \in [Seat -> Nat]
  <2>1. now \in Time /\ issued \in 0 .. MaxCred /\ names \in Nat
    BY DEF TypeOK
  <2>2. \A c \in Cred : wall[c].all \in Int /\ wall[c].model \in Int
    BY Types
  <2>3. now \in Int /\ issued \in Int /\ names \in Int
    BY <2>1, Numbers
  <2> QED
    BY <2>2, <2>3 DEF TypeOK
<1>1. CASE Tick
  BY <1>1, <1>0 DEF Tick, upstream, registry
<1>2. ASSUME NEW c \in Cred, NEW w \in {"all", "model"}, NEW until \in Time, Fill(c, w, until)
      PROVE  Older
  <2>1. \A e \in Cred : wall[e].all <= wall'[e].all /\ wall[e].model <= wall'[e].model
    <3>1. /\ wall' = [wall EXCEPT ![c] = [@ EXCEPT ![w] = until]]
          /\ until \in Int /\ until > wall[c][w]
      BY <1>2, Numbers DEF Fill
    <3>2. \A e \in Cred \ {c} : wall'[e] = wall[e]
      BY <3>1, <1>0
    <3>3. wall[c] \in [all : Time, model : Time] /\ wall'[c] = [wall[c] EXCEPT ![w] = until]
      BY <3>1, <1>0 DEF WallType
    <3>4. CASE w = "all"
      BY <3>1, <3>2, <3>3, <3>4, <1>0
    <3>5. CASE w = "model"
      BY <3>1, <3>2, <3>3, <3>5, <1>0
    <3> QED
      BY <3>4, <3>5
  <2> QED
    BY <1>2, <1>0, <2>1 DEF Fill, registry
<1>3. ASSUME NEW c \in Cred, Revoke(c)
      PROVE  Older
  BY <1>3, <1>0 DEF Revoke, registry
<1>4. ASSUME NEW d \in Daemon, NEW s \in Seat, SignIn(d, s)
      PROVE  Older
  BY <1>4, <1>0 DEF SignIn, upstream
<1>5. CASE SignedIn
  BY <1>5, <1>0, Types DEF SignedIn, upstream, registry, Creds
<1>6. CASE Lift
  BY <1>6, <1>0 DEF Lift, upstream
<1>7. ASSUME NEW d \in Daemon, NEW s \in Seat, Logout(d, s) \/ Forget(d, s)
      PROVE  Older
  BY <1>7, <1>0 DEF Logout, Forget, upstream, registry, Creds
<1>8. ASSUME NEW d \in Daemon, Refuse(d)
      PROVE  Older
  BY <1>8, <1>0 DEF Refuse, upstream, registry
<1>9. ASSUME NEW d \in Daemon, Record(d) \/ Save(d)
      PROVE  Older
  BY <1>9, <1>0 DEF Record, Save, upstream
<1>10. ASSUME Abandon \/ (\E d \in Daemon, ask \in Asks : Choose(d, ask[1], ask[2]))
              \/ (\E d \in Daemon : \/ Answer(d) \/ Launch(d) \/ Start(d) \/ Finish(d)
                                    \/ Observe(d) \/ Crash(d) \/ \E s \in Seat : Look(d, s))
       PROVE  Older
  <2>1. UNCHANGED <<now, cred, issued, revoked, wall, since, names, loose, waived>>
    <3>1. CASE Abandon \/ \E d \in Daemon, ask \in Asks : Choose(d, ask[1], ask[2])
      BY <3>1 DEF Abandon, Choose, upstream, registry
    <3>2. ASSUME NEW d \in Daemon, Answer(d) \/ Launch(d) \/ Start(d) \/ Finish(d)
      PROVE UNCHANGED <<now, cred, issued, revoked, wall, since, names, loose, waived>>
      BY <3>2 DEF Answer, Launch, Start, Finish, upstream, registry
    <3>3. ASSUME NEW d \in Daemon, Observe(d) \/ Crash(d) \/ \E s \in Seat : Look(d, s)
      PROVE UNCHANGED <<now, cred, issued, revoked, wall, since, names, loose, waived>>
      BY <3>3 DEF Observe, Crash, Look, upstream, registry
    <3> QED
      BY <3>1, <3>2, <3>3, <1>10
  <2> QED
    BY <2>1, <1>0
<1>11. CASE UNCHANGED vars
  BY <1>11, <1>0 DEF vars, upstream, registry
<1> QED
  BY <1>1, <1>2, <1>3, <1>4, <1>5, <1>6, <1>7, <1>8, <1>9, <1>10, <1>11 DEF Next, TurnNext

\* Every step keeps the types.
LEMMA TypeStep ==
    ASSUME TypeOK, Issued, \A d \in Daemon : Placed(turn[d]), [Next]_vars
    PROVE  TypeOK'
<1>0. /\ now \in Time /\ cred \in Creds /\ issued \in 0 .. MaxCred
      /\ revoked \subseteq Cred /\ wall \in [Cred -> WallType]
      /\ since \in [Seat -> Nat] /\ since[Default] # 0 /\ names \in Nat
      /\ ex \in Marks /\ so \in Creds /\ cache \in [Daemon -> [Seat -> LookType]]
      /\ turn \in [Daemon -> TurnType]
      /\ login \in {NoLogin} \cup [at : {"flow", "lift"}, seat : Seat, by : Daemon]
      /\ loose \subseteq Cred /\ waived \subseteq Cred /\ trouble \in 0 .. MaxTrouble
  BY DEF TypeOK, LookType
<1>n. MaxTrouble \in Nat /\ (Spend => trouble' \in 0 .. MaxTrouble)
  BY <1>0, Numbers DEF Spend
<1>1. CASE Tick
  <2>1. now' \in Time
    BY <1>1, <1>0, Numbers DEF Tick
  <2> QED
    BY <1>1, <1>0, <2>1 DEF Tick, TypeOK, LookType, upstream, registry
<1>2. ASSUME NEW c \in Cred, NEW w \in {"all", "model"}, NEW until \in Time, Fill(c, w, until)
      PROVE  TypeOK'
  <2>1. wall' \in [Cred -> WallType]
    BY <1>2, <1>0 DEF Fill, WallType
  <2> QED
    BY <1>2, <1>0, <1>n, <2>1 DEF Fill, TypeOK, LookType, registry
<1>3. ASSUME NEW c \in Cred, Revoke(c)
      PROVE  TypeOK'
  BY <1>3, <1>0, <1>n DEF Revoke, TypeOK, LookType, registry
<1>4. ASSUME NEW d \in Daemon, NEW s \in Seat, SignIn(d, s)
      PROVE  TypeOK'
  <2>1. since' \in [Seat -> Nat] /\ since'[Default] # 0 /\ names' \in Nat
    <3>1. names + 1 \in Nat \ {0}
      BY <1>0
    <3>2. (since' = [since EXCEPT ![s] = names + 1] /\ names' = names + 1) \/ UNCHANGED <<since, names>>
      BY <1>4 DEF SignIn
    <3>3. Default \in Seat
      BY Numbers
    <3> QED
      BY <1>0, <3>1, <3>2, <3>3
  <2>2. login' \in [at : {"flow", "lift"}, seat : Seat, by : Daemon]
    BY <1>4 DEF SignIn
  <2> QED
    BY <1>4, <1>0, <1>n, <2>1, <2>2 DEF SignIn, TypeOK, LookType, upstream
<1>5. CASE SignedIn
  <2>1. issued + 1 \in 0 .. MaxCred
    BY <1>5, <1>0, Numbers DEF SignedIn, Issued
  <2>2. cred' \in Creds /\ issued' \in 0 .. MaxCred
    BY <1>5, <1>0, <2>1 DEF SignedIn, Creds
  <2>3. login' \in [at : {"flow", "lift"}, seat : Seat, by : Daemon]
    BY <1>5, <1>0 DEF SignedIn, NoLogin
  <2> QED
    BY <1>5, <1>0, <2>2, <2>3 DEF SignedIn, TypeOK, LookType, upstream, registry
<1>6. CASE Lift
  <2>1. login.by \in Daemon /\ login.seat \in Seat
    BY <1>6, <1>0 DEF Lift, NoLogin
  <2>2. cache' \in [Daemon -> [Seat -> LookType]]
    BY <1>6, <1>0, <2>1, Forgets DEF Lift
  <2>3. so' \in Creds /\ ex' \in Marks
    <3>1. 0 \in 0 .. MaxCred /\ NoHold \in HoldType
      BY Numbers, Nothing
    <3> QED
      BY <1>6, <1>0, <3>1 DEF Lift, Creds, Marks
  <2>4. waived' \subseteq Cred
    <3>1. {so[login.seat]} \ {0} \subseteq Cred
      BY <2>1, Types, Numbers
    <3> QED
      BY <1>6, <1>0, <3>1 DEF Lift
  <2> QED
    BY <1>6, <1>0, <2>2, <2>3, <2>4 DEF Lift, TypeOK, LookType, upstream
<1>7. CASE Abandon
  BY <1>7, <1>0 DEF Abandon, TypeOK, LookType, upstream, registry
<1>8. ASSUME NEW d \in Daemon, NEW s \in Seat, Logout(d, s)
      PROVE  TypeOK'
  <2>1. cred' \in Creds
    <3>1. 0 \in 0 .. MaxCred
      BY Numbers
    <3> QED
      BY <1>8, <1>0, <3>1 DEF Logout, Creds
  <2>2. cache' \in [Daemon -> [Seat -> LookType]]
    BY <1>8, <1>0, Forgets DEF Logout
  <2> QED
    BY <1>8, <1>0, <1>n, <2>1, <2>2 DEF Logout, TypeOK, LookType, upstream, registry
<1>9. ASSUME NEW d \in Daemon, NEW s \in Seat, Forget(d, s)
      PROVE  TypeOK'
  <2>1. since' \in [Seat -> Nat] /\ since'[Default] # 0
    BY <1>9, <1>0 DEF Forget
  <2>2. so' \in Creds /\ ex' \in Marks
    <3>1. 0 \in 0 .. MaxCred /\ NoHold \in HoldType
      BY Numbers, Nothing
    <3> QED
      BY <1>9, <1>0, <3>1 DEF Forget, Creds, Marks
  <2>3. cache' \in [Daemon -> [Seat -> LookType]]
    BY <1>9, <1>0, Forgets DEF Forget
  <2> QED
    BY <1>9, <1>0, <1>n, <2>1, <2>2, <2>3 DEF Forget, TypeOK, LookType, upstream
<1>10. ASSUME NEW d \in Daemon, NEW ask \in Asks, Choose(d, ask[1], ask[2])
       PROVE  TypeOK'
  <2>1. ask[1] \in 0 .. Seats /\ ask[2] \in {"none", "model"}
    BY SeatsAssumption
  <2> DEFINE t == Read([NoTurn EXCEPT !.pin = ask[2], !.pref = ask[1], !.when = now],
                       "seek", Registered)
             held == [s \in Seat |-> IF ex[s].until > now THEN ex[s] ELSE NoHold]
  <2>2. t \in TurnType
    <3>1. [NoTurn EXCEPT !.pin = ask[2], !.pref = ask[1], !.when = now] \in TurnType
      BY <1>0, <2>1, Nothing DEF TurnType
    <3>2. 0 \in 0 .. Seats /\ Registered \subseteq Seat
      BY Numbers DEF Registered
    <3> QED
      BY <1>0, <3>1, <3>2 DEF Read, TurnType
  <2>3. held \in Marks
    BY <1>0, Nothing DEF Marks
  <2>4. turn' = [turn EXCEPT ![d] = [t EXCEPT !.myEx = held]]
    BY <1>10 DEF Choose
  <2> HIDE DEF t, held
  <2>5. turn' \in [Daemon -> TurnType]
    BY <1>0, <2>2, <2>3, <2>4 DEF TurnType
  <2> QED
    BY <1>10, <1>0, <1>n, <2>5 DEF Choose, TypeOK, LookType, upstream, registry
<1>11. ASSUME NEW d \in Daemon, NEW s \in Seat, Look(d, s)
       PROVE  TypeOK'
  <2>1. turn[d] \in TurnType /\ cred[s] \in 0 .. MaxCred /\ cache[d][s] \in LookType
    BY Types
  <2>2. ASSUME Settle(d, turn[d], s, cache[d][s].snap)
        PROVE  turn' \in [Daemon -> TurnType]
    <3>1. cache[d][s].snap \in SnapType
      BY <2>1 DEF LookType
    <3> QED
      BY <1>0, <2>1, <2>2, <3>1, SettledType
  <2>3. ASSUME turn' = [turn EXCEPT ![d] = [turn[d] EXCEPT !.at = "probe", !.seat = s,
                             !.gen = cred[s], !.hit = ex[s], !.used = so[s]]]
        PROVE  turn' \in [Daemon -> TurnType]
    <3>1. ex[s] \in HoldType /\ so[s] \in 0 .. MaxCred /\ s \in 0 .. Seats
      BY Types, Numbers
    <3>2. [turn[d] EXCEPT !.at = "probe", !.seat = s, !.gen = cred[s], !.hit = ex[s], !.used = so[s]]
            \in TurnType
      BY <2>1, <3>1 DEF TurnType
    <3> QED
      BY <1>0, <2>3, <3>2
  <2>4. turn' \in [Daemon -> TurnType]
    BY <1>11, <2>2, <2>3 DEF Look
  <2> QED
    BY <1>11, <1>0, <2>4 DEF Look, TypeOK, LookType, upstream, registry
<1>12. ASSUME NEW d \in Daemon, Answer(d)
       PROVE  TypeOK'
  <2> DEFINE t == turn[d]
             s == t.seat
             u == [t EXCEPT !.hit = NoHold, !.used = 0]
  <2>1. PICK snap \in {Measured(t.gen, s), [Unseen EXCEPT !.state = "unknown", !.cred = t.gen],
                       [Unseen EXCEPT !.state = "barred"]} :
          /\ cache' = [cache EXCEPT ![d][s] =
                          [snap |-> snap, gen |-> t.gen, ex |-> t.hit, so |-> t.used]]
          /\ Settle(d, u, s, snap)
    BY <1>12 DEF Answer
  <2>2. s \in Seat /\ t.gen \in 0 .. MaxCred /\ t.hit \in HoldType /\ t.used \in 0 .. MaxCred
    BY <1>12, Probed DEF Answer, Placed
  <2>3. snap \in SnapType
    <3>1. Measured(t.gen, s) \in SnapType
      BY <2>2, MeasuredTrue
    <3>2. /\ [Unseen EXCEPT !.state = "unknown", !.cred = t.gen] \in SnapType
          /\ [Unseen EXCEPT !.state = "barred"] \in SnapType
      BY <2>2, Nothing DEF SnapType
    <3> QED
      BY <2>1, <3>1, <3>2
  <2>4. u \in TurnType
    <3>1. t \in TurnType /\ 0 \in 0 .. MaxCred /\ NoHold \in HoldType
      BY <1>0, Nothing, Numbers
    <3> QED
      BY <3>1 DEF TurnType
  <2>5. turn' \in [Daemon -> TurnType]
    <3>1. cred[s] \in 0 .. MaxCred
      BY <2>2, Types
    <3> QED
      BY <1>0, <2>1, <2>2, <2>3, <2>4, <3>1, SettledType
  <2>6. [snap |-> snap, gen |-> t.gen, ex |-> t.hit, so |-> t.used] \in LookType
    BY <2>2, <2>3 DEF LookType
  <2>7. cache' \in [Daemon -> [Seat -> LookType]]
    BY <1>0, <2>1, <2>2, <2>6
  <2> QED
    BY <1>12, <1>0, <2>5, <2>7 DEF Answer, TypeOK, LookType, upstream, registry
<1>13. ASSUME NEW d \in Daemon, Save(d)
       PROVE  TypeOK'
  <2>1. /\ \A s \in Seat : Merged(turn[d], s, turn[d].ex[s], turn[d].myEx[s], ex[s]) \in HoldType
        /\ \A s \in Seat : Merged(turn[d], s, turn[d].so[s], turn[d].mySo[s], so[s]) \in 0 .. MaxCred
    BY Types, Probed DEF Merged
  <2>2. ex' \in Marks /\ so' \in Creds
    BY <1>13, <2>1 DEF Save, Marks, Creds
  <2>3. turn[d].tried \cup {turn[d].seat} \subseteq Seat \/ turn[d].seat = 0
    BY Probed, Numbers
  <2>4. turn' \in [Daemon -> TurnType]
    <3>1. turn[d].pin \in {"none", "model"} /\ turn[d].seat \in 0 .. Seats
      BY Probed
    <3> QED
      BY <1>13, <1>0, <2>3, <3>1, Nothing DEF Save, TurnType
  <2> QED
    BY <1>13, <1>0, <2>2, <2>4 DEF Save, TypeOK, LookType, upstream
<1>14. ASSUME NEW d \in Daemon, Launch(d) \/ Start(d) \/ Finish(d) \/ Observe(d)
       PROVE  TypeOK'
  <2>1. /\ turn[d] \in TurnType
        /\ turn[d].at \in {"launch", "start", "observe"} => cred[turn[d].seat] \in 0 .. MaxCred
    BY <1>0, Types DEF Placed
  <2>2. turn' \in [Daemon -> TurnType]
    <3>1. CASE Launch(d)
      <4>1. [turn[d] EXCEPT !.at = "start", !.attempted = cred[turn[d].seat]] \in TurnType
        BY <2>1, <3>1 DEF Launch, TurnType
      <4> QED
        BY <1>0, <3>1, <4>1 DEF Launch
    <3>2. CASE Start(d)
      <4>1. [turn[d] EXCEPT !.at = "run", !.used = cred[turn[d].seat]] \in TurnType
        BY <2>1, <3>2 DEF Start, TurnType
      <4> QED
        BY <1>0, <3>2, <4>1 DEF Start
    <3>3. CASE Finish(d)
      BY <1>0, <3>3, Nothing DEF Finish
    <3>4. CASE Observe(d)
      <4>1. [turn[d] EXCEPT !.at = "record", !.gen = cred[turn[d].seat], !.since = since,
                            !.when = now] \in TurnType
        BY <1>0, <2>1, <3>4 DEF Observe, TurnType
      <4> QED
        BY <1>0, <3>4, <4>1 DEF Observe
    <3> QED
      BY <1>14, <3>1, <3>2, <3>3, <3>4
  <2> QED
    BY <1>14, <1>0, <2>2
    DEF Launch, Start, Finish, Observe, TypeOK, LookType, upstream, registry
<1>15. ASSUME NEW d \in Daemon, Refuse(d)
       PROVE  TypeOK'
  <2>1. PICK until \in 0 .. MaxNow + 1, scoped \in BOOLEAN, isLoose \in BOOLEAN :
          /\ RunsInto(turn[d], [until |-> until, scoped |-> scoped, cred |-> 0], isLoose)
          /\ turn' = [turn EXCEPT ![d].at = "observe",
                                  ![d].hit = [until |-> until, scoped |-> scoped, cred |-> 0]]
          /\ loose' = IF isLoose THEN loose \cup {turn[d].used} ELSE loose
    BY <1>15 DEF Refuse
  <2>2. [until |-> until, scoped |-> scoped, cred |-> 0] \in HoldType
    BY Numbers DEF HoldType
  <2>3. turn' \in [Daemon -> TurnType]
    <3> DEFINE hit == [until |-> until, scoped |-> scoped, cred |-> 0]
    <3>1. hit \in HoldType
      BY <2>2
    <3>2. turn' = [turn EXCEPT ![d] = [turn[d] EXCEPT !.at = "observe", !.hit = hit]]
      BY <2>1
    <3> HIDE DEF hit
    <3>3. [turn[d] EXCEPT !.at = "observe", !.hit = hit] \in TurnType
      <4>1. turn[d] \in TurnType
        BY Types
      <4> QED
        BY <3>1, <4>1 DEF TurnType
    <3> QED
      BY <1>0, <3>2, <3>3
  <2>4. loose' \subseteq Cred
    <3>1. isLoose => turn[d].used # 0
      BY <2>1 DEF RunsInto
    <3>2. turn[d].used \in 0 .. MaxCred
      BY Probed
    <3> QED
      BY <1>0, <2>1, <3>1, <3>2, Numbers
  <2> QED
    BY <1>15, <1>0, <2>3, <2>4 DEF Refuse, TypeOK, LookType, upstream, registry
<1>16. ASSUME NEW d \in Daemon, Record(d)
       PROVE  TypeOK'
  <2> DEFINE t == turn[d]
             s == t.seat
  <2>1. s \in Seat /\ t \in TurnType /\ t.gen \in 0 .. MaxCred /\ t.hit \in HoldType
    BY <1>16, <1>0, Probed DEF Record, Placed
  <2>2. [t.hit EXCEPT !.cred = t.gen] \in HoldType
    BY <2>1 DEF HoldType
  <2>3. ex' \in Marks /\ so' \in Creds
    BY <1>16, <1>0, <2>1, <2>2 DEF Record, Marks, Creds
  <2>4. cache' \in [Daemon -> [Seat -> LookType]]
    BY <1>16, <1>0, <2>1, Nothing DEF Record, Forgotten
  <2>5. waived' \subseteq Cred
    <3>1. {so[s]} \ {0} \subseteq Cred
      BY <2>1, Types, Numbers
    <3> QED
      BY <1>16, <1>0, <3>1 DEF Record
  <2>6. turn' \in [Daemon -> TurnType]
    <3>1. t.pin \in {"none", "model"} /\ t.when \in Time /\ t.tried \subseteq Seat
      BY Probed
    <3>2. Untried(t) \subseteq Seat
      BY DEF Untried, Registered
    <3> QED
      BY <1>16, <1>0, <2>3, <3>1, <3>2, Nothing DEF Record, TurnType
  <2> QED
    BY <1>16, <1>0, <2>3, <2>4, <2>5, <2>6 DEF Record, TypeOK, LookType, upstream
<1>17. ASSUME NEW d \in Daemon, Crash(d)
       PROVE  TypeOK'
  <2>1. turn' \in [Daemon -> TurnType] /\ cache' \in [Daemon -> [Seat -> LookType]]
    BY <1>17, <1>0, Nothing DEF Crash
  <2> QED
    BY <1>17, <1>0, <1>n, <2>1 DEF Crash, TypeOK, LookType, upstream, registry
<1>18. CASE UNCHANGED vars
  BY <1>18, <1>0 DEF vars, TypeOK, LookType, upstream, registry
<1> QED
  BY <1>1, <1>2, <1>3, <1>4, <1>5, <1>6, <1>7, <1>8, <1>9, <1>10, <1>11, <1>12, <1>13,
     <1>14, <1>15, <1>16, <1>17, <1>18 DEF Next, TurnNext

\* Only its own steps change a turn.
LEMMA OwnSteps ==
    ASSUME TypeOK, [Next]_vars, NEW d \in Daemon, turn'[d] # turn[d]
    PROVE  \/ \E ask \in Asks : Choose(d, ask[1], ask[2])
           \/ \E s \in Seat : Look(d, s)
           \/ Answer(d) \/ Save(d) \/ Launch(d) \/ Start(d) \/ Finish(d) \/ Refuse(d)
           \/ Observe(d) \/ Record(d) \/ Crash(d)
<1>0. turn \in [Daemon -> TurnType]
  BY DEF TypeOK
<1>1. /\ ~Tick /\ ~SignedIn /\ ~Lift /\ ~Abandon /\ ~UNCHANGED vars
      /\ \A c \in Cred : ~Revoke(c) /\ \A w \in {"all", "model"}, t \in Time : ~Fill(c, w, t)
      /\ \A e \in Daemon, s \in Seat : ~SignIn(e, s) /\ ~Logout(e, s) /\ ~Forget(e, s)
  BY DEF Tick, SignedIn, Lift, Abandon, Revoke, Fill, SignIn, Logout, Forget, vars
<1>2. ASSUME NEW e \in Daemon \ {d}
      PROVE  /\ \A ask \in Asks : ~Choose(e, ask[1], ask[2])
             /\ ~Launch(e) /\ ~Start(e) /\ ~Finish(e) /\ ~Observe(e) /\ ~Save(e) /\ ~Record(e)
             /\ ~Crash(e) /\ ~Refuse(e)
  BY <1>0, <1>2 DEF Choose, Launch, Start, Finish, Observe, Save, Record, Crash, Refuse
<1>3. ASSUME NEW e \in Daemon \ {d}
      PROVE  ~Answer(e) /\ \A s \in Seat : ~Look(e, s)
  BY <1>0, <1>3 DEF Answer, Look, Settle
<1> QED
  BY <1>1, <1>2, <1>3 DEF Next, TurnNext

\* What a turn learns of a seat: of the login that is in it, and not well if its
\* refusal is on record.
Seen(s, snap) ==
    /\ snap.state # "unseen"
    /\ snap.state \in {"ok", "full"} =>
         /\ snap.cred = cred[s] /\ cred[s] \in Cred /\ cred[s] # so[s]
         /\ snap.walls.all <= wall[cred[s]].all /\ snap.walls.model <= wall[cred[s]].model
         /\ snap.walls.all = 0 \/ snap.walls.all > now
         /\ snap.walls.model = 0 \/ snap.walls.model > now
    /\ snap.state = "refused" => cred[s] \in revoked
    /\ snap.state = "missing" => cred[s] = 0

\* The last look will do only if it is of what is there.
LEMMA CurrentSeen ==
    ASSUME IInv, NEW d \in Daemon, NEW s \in Seat, Current(d, s)
    PROVE  cache[d][s].snap \in SnapType /\ Seen(s, cache[d][s].snap)
<1>1. cache[d][s] \in LookType /\ LookTrue(cache[d][s])
  BY Types DEF IInv, Looks
<1>2. cache[d][s].snap \in SnapType
  BY <1>1 DEF LookType
<1>3. /\ cache[d][s].snap.state # "unseen" /\ cache[d][s].gen = cred[s] /\ cache[d][s].so = so[s]
      /\ cache[d][s].snap.walls.all = 0 \/ cache[d][s].snap.walls.all > now
      /\ cache[d][s].snap.walls.model = 0 \/ cache[d][s].snap.walls.model > now
  BY DEF Current
<1> QED
  BY <1>1, <1>2, <1>3 DEF Seen, LookTrue

\* So is an answer.
LEMMA AnswerSeen ==
    ASSUME IInv, NEW c \in 0 .. MaxCred, NEW s \in Seat,
           NEW snap \in {Measured(c, s), [Unseen EXCEPT !.state = "unknown", !.cred = c],
                         [Unseen EXCEPT !.state = "barred"]}
    PROVE  snap \in SnapType /\ Seen(s, snap)
<1>1. CASE snap = Measured(c, s)
  <2>1. TypeOK /\ so[s] \in revoked \cup {0} /\ 0 \notin Cred
    BY Numbers DEF IInv, Registry, RefusalTrue
  <2> DEFINE m == Measured(c, s)
  <2>2. /\ m \in SnapType /\ m.state # "unseen"
        /\ m.state \in {"ok", "full"} =>
             /\ m.cred = c /\ c = cred[s] /\ c \in Cred /\ c \notin revoked
             /\ m.walls.all <= wall[c].all /\ m.walls.model <= wall[c].model
             /\ m.walls.all = 0 \/ m.walls.all > now
             /\ m.walls.model = 0 \/ m.walls.model > now
        /\ m.state = "refused" => c = cred[s] /\ c \in revoked
        /\ m.state = "missing" => c = cred[s] /\ c = 0
    BY <2>1, MeasuredTrue
  <2> HIDE DEF m
  <2> QED
    BY <1>1, <2>1, <2>2 DEF Seen, m
<1>2. CASE snap # Measured(c, s)
  <2>1. snap \in SnapType
    BY <1>2, Nothing DEF SnapType
  <2>2. snap.state \in {"unknown", "barred"}
    BY <1>2 DEF Unseen
  <2> QED
    BY <2>1, <2>2 DEF Seen
<1> QED
  BY <1>1, <1>2

\* A turn that looks at a seat probes it, or settles on what to do with it.
Probes(d, s) ==
    LET t == turn[d]
        u == turn'[d] IN
    /\ u.at = "probe" /\ u.seat = s /\ u.rest = t.rest /\ u.used = so[s] /\ u.gen = cred[s]
    /\ u.myEx = t.myEx /\ u.mySo = t.mySo /\ u.why = t.why
Settles(d, s, snap) ==
    LET t == turn[d]
        u == turn'[d]
        r == Reconcile(t.myEx[s], t.mySo[s], snap, t.when, cred[s]) IN
    /\ u.at \in {"seek", "save"} /\ u.rest \subseteq t.rest \ {s} /\ u.why = r.state
    /\ Passed(r, t.pin) => u.seat = 0 /\ u.rest = t.rest \ {s}
    /\ ~Passed(r, t.pin) => u.seat = s /\ u.rest = {} /\ u.at = "save"
    /\ u.myEx = [t.myEx EXCEPT ![s] = r.ex] /\ u.mySo = [t.mySo EXCEPT ![s] = r.so]

\* Who looks at a seat settles what is known of it, or asks; the rest of its turn stays.
LEMMA Sought ==
    ASSUME IInv, NEW d \in Daemon, NEW s \in Seat,
           Look(d, s) \/ (Answer(d) /\ s = turn[d].seat)
    PROVE  LET t == turn[d]
               u == turn'[d] IN
           /\ t.at \in {"seek", "probe"} /\ s \in t.rest /\ (t.at = "probe" => s = t.seat)
           /\ u.tried = t.tried /\ u.when = t.when /\ u.since = t.since /\ u.so = t.so
           /\ u.attempted = t.attempted /\ u.pin = t.pin
           /\ Probes(d, s) \/ \E snap \in SnapType : Settles(d, s, snap) /\ Seen(s, snap)
<1> DEFINE t == turn[d]
<1>0. /\ TypeOK /\ turn \in [Daemon -> TurnType] /\ t \in TurnType /\ cred[s] \in 0 .. MaxCred
      /\ NoHold \in HoldType /\ 0 \in 0 .. MaxCred
  <2>1. TypeOK /\ turn \in [Daemon -> TurnType]
    BY DEF IInv, TypeOK
  <2> QED
    BY <2>1, Types, Nothing, Numbers
<1>1. CASE Look(d, s)
  <2>1. t.at = "seek" /\ s \in t.rest
    BY <1>1 DEF Look, InLine
  <2>2. CASE Current(d, s) /\ Settle(d, t, s, cache[d][s].snap)
    <3>1. cache[d][s].snap \in SnapType /\ Seen(s, cache[d][s].snap)
      BY <2>2, CurrentSeen
    <3> DEFINE snap == cache[d][s].snap
    <3> HIDE DEF snap
    <3>2. Settle(d, t, s, snap)
      BY <2>2 DEF snap
    <3>3. /\ Settles(d, s, snap)
          /\ turn'[d].tried = t.tried /\ turn'[d].when = t.when /\ turn'[d].since = t.since
          /\ turn'[d].so = t.so /\ turn'[d].attempted = t.attempted /\ turn'[d].pin = t.pin
      BY <1>0, <3>1, <3>2, Settled DEF snap, Settles
    <3> QED
      BY <2>1, <3>1, <3>3 DEF snap
  <2>3. CASE turn' = [turn EXCEPT ![d] = [t EXCEPT !.at = "probe", !.seat = s,
                             !.gen = cred[s], !.hit = ex[s], !.used = so[s]]]
    BY <1>0, <2>1, <2>3 DEF Probes, TurnType
  <2> QED
    BY <1>1, <2>2, <2>3 DEF Look
<1>2. CASE Answer(d) /\ s = t.seat
  <2> DEFINE v == [t EXCEPT !.hit = NoHold, !.used = 0]
  <2>1. t.at = "probe" /\ s \in t.rest /\ t.gen \in 0 .. MaxCred
    BY <1>2, <1>0, Probed DEF Answer, IInv, Turns, Sound, Placed
  <2>2. PICK snap \in {Measured(t.gen, s), [Unseen EXCEPT !.state = "unknown", !.cred = t.gen],
                       [Unseen EXCEPT !.state = "barred"]} :
          Settle(d, v, s, snap)
    BY <1>2 DEF Answer
  <2>3. snap \in SnapType /\ Seen(s, snap)
    BY <2>1, <2>2, AnswerSeen
  <2>4. /\ v \in TurnType
        /\ v.at = t.at /\ v.rest = t.rest /\ v.tried = t.tried /\ v.when = t.when /\ v.since = t.since
        /\ v.so = t.so /\ v.attempted = t.attempted /\ v.pin = t.pin /\ v.myEx = t.myEx
        /\ v.mySo = t.mySo
    BY <1>0 DEF TurnType
  <2> HIDE DEF v
  <2>5. /\ Settles(d, s, snap)
        /\ turn'[d].tried = t.tried /\ turn'[d].when = t.when /\ turn'[d].since = t.since
        /\ turn'[d].so = t.so /\ turn'[d].attempted = t.attempted /\ turn'[d].pin = t.pin
    BY <1>0, <2>2, <2>3, <2>4, Settled DEF Settles
  <2> QED
    BY <1>2, <2>1, <2>3, <2>5
<1> QED
  BY <1>1, <1>2

\* A turn that has nothing of the registry.
Blank(t) ==
    /\ t.attempted = 0 /\ t.used = 0 /\ t.gen = 0 /\ t.hit = NoHold /\ t.when = 0 /\ t.rest = {}
    /\ t.since = [s \in Seat |-> 0] /\ t.so = [s \in Seat |-> 0] /\ t.mySo = [s \in Seat |-> 0]
    /\ t.myEx = [s \in Seat |-> NoHold]

\* When it has chosen a seat, or ends, a turn keeps the seat and what it tried.
LEMMA Blanked ==
    ASSUME TypeOK, NEW d \in Daemon, Save(d) \/ Finish(d) \/ Crash(d)
    PROVE  /\ Blank(turn'[d])
           /\ \/ turn'[d].at = "idle"
              \/ turn'[d].at = "launch" /\ turn'[d].seat = turn[d].seat /\ turn[d].seat # 0
<1>0. turn \in [Daemon -> TurnType] /\ turn[d] \in TurnType
  BY DEF TypeOK
<1>1. Blank(NoTurn) /\ NoTurn.at = "idle"
  BY DEF Blank, NoTurn
<1>2. CASE turn'[d] = NoTurn
  BY <1>1, <1>2
<1>3. CASE Save(d) /\ turn[d].seat # 0
  <2> DEFINE u == [NoTurn EXCEPT !.at = "launch", !.pin = turn[d].pin, !.seat = turn[d].seat,
                                 !.tried = turn[d].tried \cup {turn[d].seat}]
  <2>1. turn'[d] = u
    BY <1>0, <1>3 DEF Save
  <2>2. /\ u.at = "launch" /\ u.seat = turn[d].seat
        /\ u.attempted = NoTurn.attempted /\ u.used = NoTurn.used /\ u.gen = NoTurn.gen
        /\ u.hit = NoTurn.hit /\ u.when = NoTurn.when /\ u.rest = NoTurn.rest
        /\ u.since = NoTurn.since /\ u.so = NoTurn.so /\ u.mySo = NoTurn.mySo /\ u.myEx = NoTurn.myEx
    BY Nothing DEF TurnType
  <2> HIDE DEF u
  <2> QED
    BY <1>1, <1>3, <2>1, <2>2 DEF Blank
<1> QED
  BY <1>0, <1>2, <1>3 DEF Save, Finish, Crash

\* What the steps of a run make of its turn.
LEMMA RunSteps ==
    ASSUME TypeOK, NEW d \in Daemon, Launch(d) \/ Start(d) \/ Refuse(d) \/ Observe(d)
    PROVE  LET t == turn[d]
               u == turn'[d] IN
           /\ t.at \in {"launch", "start", "run", "observe"}
           /\ u.at \in {"start", "run", "observe", "record"}
           /\ u.seat = t.seat /\ u.rest = t.rest /\ u.tried = t.tried
           /\ u.so = t.so /\ u.mySo = t.mySo /\ u.myEx = t.myEx
           /\ u.attempted = t.attempted \/ (t.at = "launch" /\ u.attempted = cred[t.seat])
           /\ (u.since = t.since /\ u.when = t.when) \/ (u.since = since /\ u.when = now)
           /\ u.at = "start" => t.at = "launch"
           /\ u.at = "run" => t.at = "start" /\ u.used = cred[t.seat] /\ u.attempted = t.attempted
           /\ u.at = "observe" => t.at = "run" /\ u.used = t.used /\ u.attempted = t.attempted
           /\ u.at = "record" =>
                /\ t.at = "observe" /\ u.used = t.used /\ u.attempted = t.attempted
                /\ u.gen = cred[t.seat] /\ u.hit = t.hit
<1>0. turn \in [Daemon -> TurnType] /\ turn[d] \in TurnType
  BY DEF TypeOK
<1>1. CASE Launch(d)
  <2>1. turn'[d] = [turn[d] EXCEPT !.at = "start", !.attempted = cred[turn[d].seat]]
    BY <1>0, <1>1 DEF Launch
  <2> QED
    BY <1>0, <1>1, <2>1 DEF Launch, TurnType
<1>2. CASE Start(d)
  <2>1. turn'[d] = [turn[d] EXCEPT !.at = "run", !.used = cred[turn[d].seat]]
    BY <1>0, <1>2 DEF Start
  <2> QED
    BY <1>0, <1>2, <2>1 DEF Start, TurnType
<1>3. CASE Refuse(d)
  <2>1. PICK hit : turn'[d] = [turn[d] EXCEPT !.at = "observe", !.hit = hit]
    BY <1>0, <1>3 DEF Refuse
  <2> QED
    BY <1>0, <1>3, <2>1 DEF Refuse, TurnType
<1>4. CASE Observe(d)
  <2>1. turn'[d] = [turn[d] EXCEPT !.at = "record", !.gen = cred[turn[d].seat],
                                   !.since = since, !.when = now]
    BY <1>0, <1>4 DEF Observe
  <2> QED
    BY <1>0, <1>4, <2>1 DEF Observe, TurnType
<1> QED
  BY <1>1, <1>2, <1>3, <1>4

\* Logins and names stay in their numbering.
LEMMA IssuedStep ==
    ASSUME IInv, [Next]_vars
    PROVE  Issued'
<1>0. /\ issued \in Int /\ issued' \in Int /\ names \in Int /\ names' \in Int /\ 0 <= issued
      /\ 0 <= names /\ issued <= issued' /\ names <= names'
  <2>1. TypeOK /\ TypeOK' /\ issued <= issued' /\ names <= names'
    BY TypeStep, Aging DEF IInv, Turns, Sound
  <2> QED
    BY <2>1, Numbers DEF TypeOK
<1>1. \A s \in Seat : cred'[s] <= issued' /\ since'[s] <= names'
  <2>1. \A s \in Seat : cred[s] \in Int /\ since[s] \in Int
    BY Types DEF IInv
  <2> QED
    BY <1>0, <2>1, Aging DEF Issued, IInv
<1>2. revoked' \subseteq 1 .. issued'
  <2>1. 1 .. issued \subseteq 1 .. issued'
    BY <1>0
  <2>2. revoked \subseteq 1 .. issued /\ revoked' \subseteq revoked \cup 1 .. issued
    BY Aging DEF Issued, IInv
  <2> QED
    BY <2>1, <2>2
<1>3. login'.at = "flow" => issued' < MaxCred
  <2>1. (login' = login /\ issued' = issued) \/ login'.at # "flow" \/ (issued < MaxCred /\ issued' = issued)
    <3>1. CASE Tick \/ Lift \/ Abandon \/ SignedIn
      BY <3>1 DEF Tick, Lift, Abandon, SignedIn, NoLogin, TypeOK, IInv
    <3>2. ASSUME NEW c \in Cred, Revoke(c) \/ \E w \in {"all", "model"}, t \in Time : Fill(c, w, t)
          PROVE  login' = login /\ issued' = issued
      BY <3>2 DEF Revoke, Fill
    <3>3. ASSUME NEW d \in Daemon, NEW s \in Seat, SignIn(d, s) \/ Logout(d, s) \/ Forget(d, s)
          PROVE  (login' = login /\ issued' = issued) \/ (issued < MaxCred /\ issued' = issued)
      BY <3>3 DEF SignIn, Logout, Forget
    <3>4. ASSUME NEW d \in Daemon,
                 \/ \E ask \in Asks : Choose(d, ask[1], ask[2])
                 \/ TurnNext(d) \/ Crash(d)
          PROVE  login' = login /\ issued' = issued
      BY <3>4 DEF Choose, TurnNext, Crash, Answer, Save, Launch, Start, Finish, Refuse, Observe,
                  Record, Look
    <3>5. CASE UNCHANGED vars
      BY <3>5 DEF vars
    <3> QED
      BY <3>1, <3>2, <3>3, <3>4, <3>5 DEF Next
  <2> QED
    BY <2>1 DEF Issued, IInv
<1>4. ASSUME NEW d \in Daemon
      PROVE  /\ turn'[d].attempted <= issued'
             /\ \A s \in Seat : turn'[d].since[s] <= names'
  <2>t. TypeOK
    BY DEF IInv
  <2>0. /\ turn \in [Daemon -> TurnType] /\ turn[d] \in TurnType
        /\ turn[d].attempted \in Int /\ \A s \in Seat : turn[d].since[s] \in Int
        /\ turn[d].attempted <= issued /\ \A s \in Seat : turn[d].since[s] <= names
        /\ \A s \in Seat : cred[s] <= issued /\ since[s] <= names /\ cred[s] \in Int /\ since[s] \in Int
    BY Probed, Types DEF TypeOK, Issued, IInv
  <2>1. CASE turn'[d] = turn[d]
    BY <1>0, <2>0, <2>1
  <2>2. CASE \E ask \in Asks : Choose(d, ask[1], ask[2])
    BY <1>0, <2>0, <2>2 DEF Choose, Read, NoTurn
  <2>3. CASE (\E s \in Seat : Look(d, s)) \/ Answer(d)
    <3>1. PICK s \in Seat : Look(d, s) \/ (Answer(d) /\ s = turn[d].seat)
      BY <2>3, Probed DEF IInv, Turns, Sound, Placed, Answer
    <3>2. turn'[d].attempted = turn[d].attempted /\ turn'[d].since = turn[d].since
      BY <3>1, Sought
    <3> QED
      BY <1>0, <2>0, <3>2
  <2>4. CASE Save(d) \/ Finish(d) \/ Crash(d)
    <3>1. turn'[d].attempted = 0 /\ turn'[d].since = [s \in Seat |-> 0]
      BY <2>t, <2>4, Blanked DEF Blank
    <3> QED
      BY <1>0, <3>1
  <2>5. CASE Launch(d) \/ Start(d) \/ Refuse(d) \/ Observe(d)
    <3>1. turn[d].at = "launch" => turn[d].seat \in Seat
      BY DEF IInv, Turns, Sound, Placed
    <3>2. /\ turn'[d].attempted = turn[d].attempted
             \/ (turn[d].at = "launch" /\ turn'[d].attempted = cred[turn[d].seat])
          /\ turn'[d].since \in {turn[d].since, since}
      BY <2>t, <2>5, RunSteps
    <3> QED
      BY <1>0, <2>0, <3>1, <3>2
  <2>6. CASE Record(d)
    BY <1>0, <2>0, <2>6 DEF Record, NoTurn
  <2> QED
    BY <2>1, <2>2, <2>3, <2>4, <2>5, <2>6, OwnSteps DEF IInv
<1> QED
  BY <1>1, <1>2, <1>3, <1>4 DEF Issued

\* The steps that change what is on record.
LEMMA Marking ==
    ASSUME [Next]_vars
    PROVE  \/ UNCHANGED <<ex, so>>
           \/ Lift
           \/ \E d \in Daemon, s \in Seat : Forget(d, s)
           \/ \E d \in Daemon : Save(d) \/ Record(d)
<1>1. CASE Tick \/ SignedIn \/ Abandon \/ UNCHANGED vars
  BY <1>1 DEF Tick, SignedIn, Abandon, vars, registry
<1>2. ASSUME NEW c \in Cred, Revoke(c) \/ \E w \in {"all", "model"}, t \in Time : Fill(c, w, t)
      PROVE  UNCHANGED <<ex, so>>
  BY <1>2 DEF Revoke, Fill, registry
<1>3. ASSUME NEW d \in Daemon, NEW s \in Seat, SignIn(d, s) \/ Logout(d, s)
      PROVE  UNCHANGED <<ex, so>>
  BY <1>3 DEF SignIn, Logout, registry
<1>4. ASSUME NEW d \in Daemon,
             \/ \E ask \in Asks : Choose(d, ask[1], ask[2])
             \/ \E s \in Seat : Look(d, s)
             \/ Answer(d) \/ Launch(d) \/ Start(d) \/ Finish(d) \/ Refuse(d) \/ Observe(d) \/ Crash(d)
      PROVE  UNCHANGED <<ex, so>>
  BY <1>4 DEF Choose, Look, Answer, Launch, Start, Finish, Refuse, Observe, Crash, registry
<1> QED
  BY <1>1, <1>2, <1>3, <1>4 DEF Next, TurnNext

\* What is true of a login stays so.
LEMMA TrueStays ==
    ASSUME TypeOK, TypeOK', Issued, [Next]_vars
    PROVE  /\ \A h \in HoldType : HoldTrue(h) => HoldTrue(h)'
           /\ \A c : RefusalTrue(c) => RefusalTrue(c)'
           /\ \A c \in LookType : LookTrue(c) => LookTrue(c)'
<1>0. /\ revoked \subseteq revoked' /\ loose \subseteq loose'
      /\ \A c \in Cred : wall[c].all <= wall'[c].all /\ wall[c].model <= wall'[c].model
  BY Aging
<1>1. \A c \in Cred : /\ wall[c].all \in Int /\ wall[c].model \in Int
                      /\ wall'[c].all \in Int /\ wall'[c].model \in Int
  <2>1. wall \in [Cred -> WallType] /\ wall' \in [Cred -> WallType]
    BY DEF TypeOK
  <2>2. \A v \in WallType : v.all \in Int /\ v.model \in Int
    BY Numbers DEF WallType
  <2> QED
    BY <2>1, <2>2
<1>2. ASSUME NEW h \in HoldType, HoldTrue(h)
      PROVE  HoldTrue(h)'
  <2>1. h.until \in Int /\ h.scoped \in BOOLEAN
    BY Numbers DEF HoldType
  <2> QED
    BY <1>0, <1>1, <1>2, <2>1 DEF HoldTrue
<1>3. \A c : RefusalTrue(c) => RefusalTrue(c)'
  BY <1>0 DEF RefusalTrue
<1>4. ASSUME NEW c \in LookType, LookTrue(c)
      PROVE  LookTrue(c)'
  <2>1. c.snap.walls.all \in Int /\ c.snap.walls.model \in Int
    <3>1. c.snap.walls \in WallType
      BY DEF LookType, SnapType
    <3> QED
      BY <3>1, Numbers DEF WallType
  <2> QED
    BY <1>0, <1>1, <1>4, <2>1 DEF LookTrue
<1> QED
  BY <1>2, <1>3, <1>4

\* What a look puts on record is true.
LEMMA ReconciledTrue ==
    ASSUME IInv, NEW hold \in HoldType, NEW refusal \in 0 .. MaxCred, NEW snap \in SnapType,
           NEW when \in Time, NEW s \in Seat, HoldTrue(hold), RefusalTrue(refusal), Seen(s, snap)
    PROVE  LET r == Reconcile(hold, refusal, snap, when, cred[s]) IN
           HoldTrue(r.ex) /\ RefusalTrue(r.so)
<1> DEFINE r == Reconcile(hold, refusal, snap, when, cred[s])
<1>0. cred[s] \in 0 .. MaxCred
  BY Types DEF IInv
<1>1. /\ r.ex \in HoldType /\ r.so \in {0, refusal}
      /\ snap.state \notin {"ok", "full"} => r.ex \in {NoHold, hold}
      /\ snap.state \in {"ok", "full"} =>
           \/ r.ex = NoHold
           \/ r.ex.cred = snap.cred /\ r.ex.scoped /\ r.ex.until = snap.walls.model
           \/ r.ex.cred = snap.cred /\ ~r.ex.scoped /\ r.ex.until = snap.walls.all
  BY <1>0, Reconciled
<1> HIDE DEF r
<1>2. HoldTrue(r.ex)
  BY <1>1 DEF HoldTrue, Seen
<1>3. RefusalTrue(r.so)
  BY <1>1 DEF RefusalTrue
<1> QED
  BY <1>2, <1>3 DEF r

\* A refusal is of the login that ran.
LEMMA BlamedTrue ==
    ASSUME IInv, NEW d \in Daemon, turn[d].at = "record", Blamed(turn[d], turn[d].seat)
    PROVE  /\ turn[d].hit = NoHold => RefusalTrue(turn[d].gen)
           /\ turn[d].hit # NoHold => HoldTrue([turn[d].hit EXCEPT !.cred = turn[d].gen])
<1>1. turn[d].gen = turn[d].used
  BY DEF IInv, Turns, Sound, RanOn, Blamed
<1> QED
  BY <1>1 DEF IInv, Turns, Sound, HitTrue

\* What is on record after a step is true, ...
LEMMA RegistryStep ==
    ASSUME IInv, TypeOK', [Next]_vars
    PROVE  Registry'
<1>0. /\ TypeOK /\ Issued /\ ex \in Marks /\ so \in Creds
      /\ \A s \in Seat : HoldTrue(ex[s]) /\ RefusalTrue(so[s])
      /\ HoldTrue(NoHold) /\ RefusalTrue(0)
  BY DEF IInv, Registry, TypeOK, HoldTrue, RefusalTrue
<1> DEFINE True(s) == HoldTrue(ex'[s]) /\ RefusalTrue(so'[s])
<1>1. ASSUME UNCHANGED <<ex, so>>
      PROVE  \A r \in Seat : True(r)
  BY <1>0, <1>1
<1>2. ASSUME Lift
      PROVE  \A r \in Seat : True(r)
  BY <1>0, <1>2 DEF Lift, Marks, Creds
<1>3. ASSUME NEW d \in Daemon, NEW s \in Seat, Forget(d, s)
      PROVE  \A r \in Seat : True(r)
  BY <1>0, <1>3 DEF Forget, Marks, Creds
<1>4. ASSUME NEW d \in Daemon, Save(d)
      PROVE  \A r \in Seat : True(r)
  BY <1>0, <1>4 DEF Save, Merged, IInv, Turns, Sound, ReadTrue
<1>5. ASSUME NEW d \in Daemon, Record(d)
      PROVE  \A r \in Seat : True(r)
  BY <1>0, <1>5, BlamedTrue DEF Record, Marks, Creds
<1>6. \A s \in Seat : True(s)
  <2>1. UNCHANGED <<ex, so>> \/ Lift \/ (\E d \in Daemon, s \in Seat : Forget(d, s))
          \/ \E d \in Daemon : Save(d) \/ Record(d)
    BY Marking
  <2> QED
    BY <1>1, <1>2, <1>3, <1>4, <1>5, <2>1
<1> QED
  BY <1>0, <1>6, TrueStays DEF Registry, TypeOK, Marks

\* ... and so is what is remembered of a look.
LEMMA LooksStep ==
    ASSUME IInv, TypeOK', [Next]_vars
    PROVE  Looks'
<1>0. /\ TypeOK /\ Issued /\ cache \in [Daemon -> [Seat -> LookType]]
      /\ \A d \in Daemon, s \in Seat : LookTrue(cache[d][s])
      /\ LookTrue(NoLook)
  BY DEF IInv, Looks, TypeOK, LookType, LookTrue, NoLook, Unseen
<1> DEFINE True == \A d \in Daemon, s \in Seat : LookTrue(cache'[d][s])
<1>1. ASSUME cache' = cache
      PROVE  True
  BY <1>0, <1>1
<1>2. ASSUME NEW d \in Daemon, NEW s \in Seat, Forgotten(d, s)
      PROVE  True
  BY <1>0, <1>2 DEF Forgotten
<1>3. ASSUME NEW d \in Daemon, Crash(d)
      PROVE  True
  BY <1>0, <1>3 DEF Crash
<1>4. ASSUME NEW d \in Daemon, Answer(d)
      PROVE  True
  <2> DEFINE t == turn[d]
             s == t.seat
  <2>1. PICK snap \in {Measured(t.gen, s), [Unseen EXCEPT !.state = "unknown", !.cred = t.gen],
                       [Unseen EXCEPT !.state = "barred"]} :
          cache' = [cache EXCEPT ![d][s] =
                      [snap |-> snap, gen |-> t.gen, ex |-> t.hit, so |-> t.used]]
    BY <1>4 DEF Answer
  <2>2. s \in Seat /\ t.gen \in 0 .. MaxCred /\ RefusalTrue(t.used) /\ 0 \notin Cred
    BY <1>0, <1>4, Probed, Numbers DEF Answer, IInv, Turns, Sound, Placed
  <2>3. CASE snap = Measured(t.gen, s)
    <3> DEFINE m == Measured(t.gen, s)
    <3>1. /\ m.state \in {"ok", "full"} =>
               /\ m.cred = t.gen /\ t.gen \in Cred /\ t.gen \notin revoked
               /\ m.walls.all <= wall[t.gen].all /\ m.walls.model <= wall[t.gen].model
          /\ m.state = "refused" => t.gen \in revoked
          /\ m.state = "missing" => t.gen = 0
      BY <1>0, <2>2, MeasuredTrue
    <3> HIDE DEF m
    <3>2. LookTrue([snap |-> m, gen |-> t.gen, ex |-> t.hit, so |-> t.used])
      BY <2>2, <3>1 DEF LookTrue, RefusalTrue
    <3> QED
      BY <1>0, <2>1, <2>2, <2>3, <3>2 DEF m
  <2>4. CASE snap.state \in {"unknown", "barred"}
    <3>1. LookTrue([snap |-> snap, gen |-> t.gen, ex |-> t.hit, so |-> t.used])
      BY <2>4 DEF LookTrue
    <3> QED
      BY <1>0, <2>1, <2>2, <3>1
  <2> QED
    BY <2>1, <2>3, <2>4 DEF Unseen
<1>5. True
  <2>1. CASE Tick \/ SignedIn \/ Abandon \/ UNCHANGED vars
    BY <1>1, <2>1 DEF Tick, SignedIn, Abandon, vars
  <2>2. CASE Lift
    BY <1>0, <1>2, <2>2, Types DEF Lift
  <2>3. CASE \E c \in Cred : Revoke(c) \/ \E w \in {"all", "model"}, t \in Time : Fill(c, w, t)
    BY <1>1, <2>3 DEF Revoke, Fill
  <2>4. CASE \E d \in Daemon, s \in Seat : SignIn(d, s) \/ Logout(d, s) \/ Forget(d, s)
    BY <1>1, <1>2, <2>4 DEF SignIn, Logout, Forget
  <2>5. ASSUME NEW d \in Daemon,
               (\E ask \in Asks : Choose(d, ask[1], ask[2])) \/ (\E s \in Seat : Look(d, s))
                 \/ Save(d) \/ Launch(d) \/ Start(d) \/ Finish(d) \/ Refuse(d) \/ Observe(d)
        PROVE  True
    <3>1. cache' = cache
      BY <2>5 DEF Choose, Look, Save, Launch, Start, Finish, Refuse, Observe
    <3> QED
      BY <1>1, <3>1
  <2>6. ASSUME NEW d \in Daemon, Record(d)
        PROVE  True
    <3>1. turn[d].seat \in Seat /\ Forgotten(d, turn[d].seat)
      BY <2>6 DEF Record, IInv, Turns, Sound, Placed
    <3> QED
      BY <1>2, <3>1
  <2> HIDE DEF True
  <2> QED
    BY <1>3, <1>4, <2>1, <2>2, <2>3, <2>4, <2>5, <2>6 DEF Next, TurnNext
<1>6. cache' \in [Daemon -> [Seat -> LookType]]
  BY DEF TypeOK, LookType
<1> QED
  BY <1>0, <1>5, <1>6, TrueStays DEF Looks

\* A refusal on record stands, until its seat has another login.
LEMMA RefusalKept ==
    ASSUME IInv, [Next]_vars, NEW s \in Seat, so[s] # 0, so'[s] # so[s]
    PROVE  cred[s] # so[s] \/ since'[s] # since[s] \/ so[s] \in waived'
<1>0. so \in Creds /\ ex \in Marks /\ since \in [Seat -> Nat] /\ TypeOK
  BY DEF IInv, TypeOK
<1>1. CASE UNCHANGED <<ex, so>>
  BY <1>1
<1>2. CASE Lift
  BY <1>0, <1>2 DEF Lift, Creds
<1>3. CASE \E d \in Daemon, r \in Seat : Forget(d, r)
  BY <1>0, <1>3 DEF Forget, Creds
<1>4. ASSUME NEW d \in Daemon, Save(d)
      PROVE  cred[s] # so[s] \/ since'[s] # since[s] \/ so[s] \in waived'
  <2>1. /\ since[s] = turn[d].since[s] /\ since[s] # 0 /\ so[s] = turn[d].so[s]
        /\ turn[d].mySo[s] # turn[d].so[s]
    BY <1>4 DEF Save, Merged
  <2>2. Heeds(turn[d]) /\ turn[d].at = "save" /\ waived' = waived
    BY <1>4 DEF IInv, Turns, Sound, Save
  <2> QED
    BY <2>1, <2>2 DEF Heeds
<1>5. CASE \E d \in Daemon : Record(d)
  BY <1>0, <1>5 DEF Record, Creds
<1> QED
  BY <1>1, <1>2, <1>3, <1>4, <1>5, Marking

\* What a turn has is sound after a step if it was before it.
LEMMA TurnStays ==
    ASSUME IInv, TypeOK', [Next]_vars, NEW d \in Daemon, Sound(turn'[d]),
           turn'[d].attempted <= issued, \A s \in Seat : turn'[d].since[s] <= names
    PROVE  Sound(turn[d])'
<1> DEFINE t == turn'[d]
<1>0. /\ TypeOK /\ Issued /\ t \in TurnType
      /\ t.when \in Int /\ now \in Int /\ now' \in Int /\ now <= now'
      /\ t.attempted \in Int /\ issued \in Int /\ names \in Int /\ t.seat \in 0 .. Seats
      /\ t.rest \subseteq Seat /\ t.hit \in HoldType /\ t.used \in 0 .. MaxCred
      /\ \A s \in Seat : /\ t.since[s] \in Int /\ t.myEx[s] \in HoldType
                         /\ cred[s] \in Int /\ since[s] \in Int
  <2>1. TypeOK /\ Issued /\ t \in TurnType
    BY DEF IInv, TypeOK
  <2>2. now <= now'
    BY <2>1, Aging
  <2>3. now \in Int /\ now' \in Int /\ issued \in Int /\ names \in Int
    BY Numbers DEF IInv, TypeOK
  <2>4. \A s \in Seat : cred[s] \in Int /\ since[s] \in Int
    BY <2>1, Types, Numbers
  <2>5. /\ t.when \in Int /\ t.attempted \in Int /\ t.seat \in 0 .. Seats
        /\ t.rest \subseteq Seat /\ t.hit \in HoldType /\ t.used \in 0 .. MaxCred
        /\ \A s \in Seat : t.since[s] \in Int /\ t.myEx[s] \in HoldType
    <3>1. /\ t.when \in Time /\ t.attempted \in 0 .. MaxCred /\ t.seat \in 0 .. Seats
          /\ t.rest \subseteq Seat /\ t.hit \in HoldType /\ t.used \in 0 .. MaxCred
          /\ \A s \in Seat : t.since[s] \in Nat /\ t.myEx[s] \in HoldType
      BY <2>1 DEF TurnType, Marks
    <3> QED
      BY <3>1, Numbers
  <2> QED
    BY <2>1, <2>2, <2>3, <2>4, <2>5
<1>1. Placed(turn[d])'
  BY <1>0, TrueStays DEF Sound, Placed
<1>2. ReadTrue(turn[d])'
  BY <1>0, TrueStays DEF Sound, ReadTrue
<1>3. \A s \in Seat :
        /\ cred'[s] = cred[s] \/ cred'[s] = 0 \/ cred'[s] > issued
        /\ since'[s] = since[s] \/ since'[s] = 0 \/ since'[s] > names
  BY <1>0, Aging
<1>4. RanOn(turn[d])'
  BY <1>0, <1>3 DEF Sound, Placed, RanOn
<1>5. HitTrue(turn[d])'
  <2>1. [t.hit EXCEPT !.cred = t.used] \in HoldType
    BY <1>0 DEF HoldType
  <2> QED
    BY <1>0, <2>1, TrueStays DEF Sound, HitTrue
<1>6. Heeds(turn[d])'
  <2>1. SUFFICES ASSUME t.at \in {"seek", "probe", "save"}, NEW s \in Seat,
                        t.so[s] # 0, t.so[s] \notin waived', cred'[s] = t.so[s],
                        since'[s] # 0, since'[s] = t.since[s]
                 PROVE  so'[s] = t.so[s] /\ t.mySo[s] = t.so[s]
    BY DEF Heeds
  <2>2. t.so[s] \in Int /\ t.so[s] <= issued
    <3>1. t.so[s] \in revoked
      BY <2>1 DEF Sound, ReadTrue, RefusalTrue
    <3>2. revoked \subseteq 1 .. issued /\ issued \in Int
      BY <1>0 DEF Issued
    <3>3. t.so[s] \in 1 .. issued
      BY <3>1, <3>2
    <3> QED
      BY <3>2, <3>3
  <2>3. cred[s] = t.so[s] /\ since'[s] = since[s]
    BY <1>0, <1>3, <2>1, <2>2
  <2>4. t.so[s] \notin waived
    BY <1>0, <2>1, Aging
  <2>5. so[s] = t.so[s] /\ t.mySo[s] = t.so[s]
    BY <2>1, <2>3, <2>4 DEF Sound, Heeds
  <2> QED
    BY <2>1, <2>3, <2>5, RefusalKept
<1> QED
  BY <1>1, <1>2, <1>4, <1>5, <1>6 DEF Sound

\* A turn that begins, or has nothing of the registry, is sound; ...
LEMMA BlankSound ==
    ASSUME TypeOK, NEW t, Blank(t), t.at \in {"idle", "launch"}, t.at = "launch" => t.seat \in Seat
    PROVE  Sound(t)
<1>1. now >= 0
  BY Numbers DEF TypeOK
<1> QED
  BY <1>1 DEF Blank, Sound, Placed, ReadTrue, RanOn, HitTrue, Heeds, HoldTrue, RefusalTrue

\* ... so is one that has just read it, ...
LEMMA ChosenSound ==
    ASSUME IInv, NEW d \in Daemon, NEW ask \in Asks, Choose(d, ask[1], ask[2])
    PROVE  Sound(turn'[d])
<1> DEFINE n == [NoTurn EXCEPT !.pin = ask[2], !.pref = ask[1], !.when = now]
           t == Read(n, "seek", Registered)
           held == [s \in Seat |-> IF ex[s].until > now THEN ex[s] ELSE NoHold]
           u == turn'[d]
<1>0. /\ now \in Int /\ turn \in [Daemon -> TurnType] /\ ask[1] \in 0 .. Seats
      /\ ask[2] \in {"none", "model"} /\ now \in Time /\ NoTurn \in TurnType
  <2>1. now \in Time
    BY DEF IInv, TypeOK
  <2> QED
    BY <2>1, Nothing, Numbers, SeatsAssumption DEF IInv, TypeOK
<1>1. n \in TurnType /\ n.when = now /\ n.tried = NoTurn.tried
  BY <1>0 DEF TurnType
<1>2. u = [t EXCEPT !.myEx = held]
  BY <1>0 DEF Choose
<1> HIDE DEF n, held
<1>3. /\ u.at = "seek" /\ u.rest = Registered /\ u.since = since /\ u.so = so /\ u.mySo = so
      /\ u.myEx = held /\ u.when = now /\ u.tried = n.tried
  BY <1>1, <1>2 DEF Read, TurnType
<1>4. u.tried = {}
  BY <1>1, <1>3 DEF NoTurn
<1>5. \A s \in Seat : HoldTrue(ex[s]) /\ HoldTrue(held[s]) /\ RefusalTrue(so[s])
  BY DEF IInv, Registry, HoldTrue, held
<1> QED
  BY <1>0, <1>3, <1>4, <1>5
  DEF Registered, Sound, Placed, ReadTrue, RanOn, HitTrue, Heeds, HoldTrue, RefusalTrue

\* ... one that looks at a seat, ...
LEMMA SoughtSound ==
    ASSUME IInv, NEW d \in Daemon, NEW s \in Seat,
           Look(d, s) \/ (Answer(d) /\ s = turn[d].seat)
    PROVE  Sound(turn'[d])
<1> DEFINE t == turn[d]
           u == turn'[d]
<1>0. /\ TypeOK /\ Sound(t) /\ t \in TurnType /\ cred[s] \in 0 .. MaxCred
      /\ t.myEx \in Marks /\ t.mySo \in Creds /\ t.when \in Time
      /\ t.myEx[s] \in HoldType /\ t.mySo[s] \in 0 .. MaxCred
  <2>1. TypeOK /\ Sound(t) /\ t \in TurnType
    BY DEF IInv, Turns, TypeOK
  <2> QED
    BY <2>1, Types DEF TurnType, Marks, Creds
<1>1. /\ t.at \in {"seek", "probe"} /\ s \in t.rest /\ (t.at = "probe" => s = t.seat)
      /\ u.tried = t.tried /\ u.when = t.when /\ u.since = t.since /\ u.so = t.so
      /\ u.attempted = t.attempted /\ u.pin = t.pin
      /\ Probes(d, s) \/ \E snap \in SnapType : Settles(d, s, snap) /\ Seen(s, snap)
  BY Sought
<1>2. CASE Probes(d, s)
  <2>1. RefusalTrue(so[s])
    BY DEF IInv, Registry
  <2> QED
    BY <1>0, <1>1, <1>2, <2>1 DEF Probes, Sound, Placed, ReadTrue, RanOn, HitTrue, Heeds
<1>3. ASSUME NEW snap \in SnapType, Settles(d, s, snap), Seen(s, snap)
      PROVE  Sound(u)
  <2> DEFINE r == Reconcile(t.myEx[s], t.mySo[s], snap, t.when, cred[s])
  <2>1. HoldTrue(r.ex) /\ RefusalTrue(r.so)
    BY <1>0, <1>3, ReconciledTrue DEF Sound, ReadTrue
  <2>2. /\ u.at \in {"seek", "save"} /\ u.rest \subseteq t.rest \ {s} /\ u.seat \in {0, s}
        /\ u.myEx = [t.myEx EXCEPT ![s] = r.ex] /\ u.mySo = [t.mySo EXCEPT ![s] = r.so]
    BY <1>3 DEF Settles
  <2>3. so[s] = cred[s] /\ t.mySo[s] = cred[s] /\ cred[s] # 0 => r.so = cred[s]
    BY <1>3 DEF Reconcile, Seen
  <2> HIDE DEF r
  <2>4. Placed(u)
    <3>1. 0 \notin Seat /\ t.tried \subseteq Seat
      BY <1>0, Numbers DEF TurnType
    <3> QED
      BY <1>0, <1>1, <2>2, <3>1 DEF Sound, Placed
  <2>5. ReadTrue(u)
    BY <1>0, <1>1, <2>1, <2>2 DEF Sound, ReadTrue, Marks, Creds
  <2>6. Heeds(u)
    BY <1>0, <1>1, <2>2, <2>3 DEF Sound, Heeds, Creds
  <2> QED
    BY <2>2, <2>4, <2>5, <2>6 DEF Sound, RanOn, HitTrue
<1> QED
  BY <1>1, <1>2, <1>3

\* ... and one that launches its run and observes what came of it.
LEMMA RunSound ==
    ASSUME IInv, NEW d \in Daemon, Launch(d) \/ Start(d) \/ Observe(d)
    PROVE  Sound(turn'[d])
<1> DEFINE t == turn[d]
           u == turn'[d]
<1>0. TypeOK /\ Sound(t) /\ t.seat \in Seat
  BY DEF IInv, Turns, Launch, Start, Observe, Sound, Placed
<1>1. /\ t.at \in {"launch", "start", "observe"}
      /\ u.at \in {"start", "run", "record"}
      /\ u.seat = t.seat /\ u.rest = t.rest /\ u.tried = t.tried
      /\ u.so = t.so /\ u.mySo = t.mySo /\ u.myEx = t.myEx
      /\ (u.since = t.since /\ u.when = t.when) \/ (u.since = since /\ u.when = now)
  BY <1>0, RunSteps DEF Launch, Start, Observe
<1>2. u.at = "run" => u.used = cred[t.seat]
  BY <1>0, <1>1, RunSteps
<1>3. u.at = "record" => /\ t.at = "observe" /\ u.used = t.used /\ u.attempted = t.attempted
                         /\ u.gen = cred[t.seat] /\ u.hit = t.hit
  BY <1>0, <1>1, RunSteps
<1>4. Placed(u)
  <2>1. t.when <= now /\ now \in Int /\ t.rest = {}
    <3>1. now \in Time
      BY <1>0 DEF TypeOK
    <3> QED
      BY <1>0, <1>1, <3>1, Numbers DEF Sound, Placed
  <2> QED
    BY <1>0, <1>1, <2>1 DEF Placed
<1>5. ReadTrue(u)
  BY <1>0, <1>1 DEF Sound, ReadTrue
<1>6. RanOn(u)
  BY <1>0, <1>1, <1>2, <1>3 DEF Sound, RanOn
<1>7. HitTrue(u)
  BY <1>0, <1>1, <1>3 DEF Sound, HitTrue
<1> QED
  BY <1>1, <1>4, <1>5, <1>6, <1>7 DEF Sound, Heeds

\* A run that is refused remembers what it ran into as it is, or as it is not.
LEMMA RefusedSound ==
    ASSUME IInv, TypeOK', [Next]_vars, NEW d \in Daemon, Refuse(d)
    PROVE  Sound(turn[d])'
<1> DEFINE t == turn[d]
           u == turn'[d]
<1>0. /\ TypeOK /\ TypeOK' /\ Issued /\ Sound(t) /\ t.seat \in Seat /\ t.rest = {} /\ t.at = "run"
      /\ t \in TurnType /\ t.used \in 0 .. MaxCred /\ turn \in [Daemon -> TurnType]
  <2>1. TypeOK /\ Sound(t) /\ t.at = "run" /\ Issued
    BY DEF IInv, Turns, Refuse
  <2>2. t \in TurnType /\ t.used \in 0 .. MaxCred /\ turn \in [Daemon -> TurnType]
    BY <2>1, Probed DEF TypeOK
  <2> QED
    BY <2>1, <2>2 DEF Sound, Placed
<1>1. PICK until \in 0 .. MaxNow + 1, scoped \in BOOLEAN, isLoose \in BOOLEAN :
        /\ RunsInto(t, [until |-> until, scoped |-> scoped, cred |-> 0], isLoose)
        /\ turn' = [turn EXCEPT ![d].at = "observe",
                                ![d].hit = [until |-> until, scoped |-> scoped, cred |-> 0]]
        /\ loose' = IF isLoose THEN loose \cup {t.used} ELSE loose
        /\ UNCHANGED <<wall, revoked, now, cred>>
  BY DEF Refuse, upstream
<1> DEFINE hit == [until |-> until, scoped |-> scoped, cred |-> 0]
<1>2. /\ u.at = "observe" /\ u.hit = hit /\ u.used = t.used /\ u.attempted = t.attempted
      /\ u.seat = t.seat /\ u.rest = t.rest /\ u.tried = t.tried /\ u.when = t.when
      /\ u.so = t.so /\ u.mySo = t.mySo /\ u.myEx = t.myEx
  BY <1>0, <1>1 DEF TurnType
<1>3. Placed(turn[d])'
  BY <1>0, <1>1, <1>2 DEF Sound, Placed
<1>4. ReadTrue(turn[d])'
  <2>1. \A s \in Seat : t.myEx[s] \in HoldType
    BY <1>0, Probed
  <2> QED
    BY <1>0, <1>2, <2>1, TrueStays DEF Sound, ReadTrue
<1>5. RanOn(turn[d])'
  BY <1>0, <1>1, <1>2 DEF Sound, RanOn
<1>6. HitTrue(turn[d])'
  <2>1. ASSUME hit = NoHold
        PROVE  RefusalTrue(t.used)'
    <3>1. hit.until = 0
      BY <2>1 DEF NoHold
    <3>2. now \in Int /\ now >= 0 /\ t.used \in 0 .. MaxCred
      BY <1>0, Numbers DEF TypeOK
    <3>3. ASSUME NEW w \in {"all", "model"}, NEW known \in BOOLEAN, wall[t.used][w] > now,
                 until = IF known THEN wall[t.used][w] ELSE now + 1
          PROVE  FALSE
      BY <3>1, <3>2, <3>3
    <3>4. t.used = 0 \/ t.used \in revoked
      BY <1>1, <3>3 DEF RunsInto
    <3> QED
      BY <1>1, <1>2, <3>4 DEF RefusalTrue
  <2>2. ASSUME hit # NoHold
        PROVE  HoldTrue([hit EXCEPT !.cred = t.used])'
    <3>1. PICK w \in {"all", "model"} :
            /\ t.used # 0 /\ (scoped => w = "model")
            /\ ~isLoose => ~(until > wall[t.used][w]) /\ ~(w = "model" /\ ~scoped)
      BY <1>1, <2>2 DEF RunsInto
    <3>2. t.used \in Cred
      BY <1>0, <3>1, Numbers
    <3>3. [hit EXCEPT !.cred = t.used] = [until |-> until, scoped |-> scoped, cred |-> t.used]
      OBVIOUS
    <3>4. wall[t.used].all \in Int /\ wall[t.used].model \in Int /\ until \in Int
      BY <1>0, <3>2, Types, Numbers
    <3>5. t.used \notin loose' =>
             /\ scoped => until <= wall[t.used].model
             /\ ~scoped => until <= wall[t.used].all
      <4>1. CASE isLoose
        BY <1>1, <4>1
      <4>2. CASE ~isLoose
        BY <3>1, <3>4, <4>2
      <4> QED
        BY <4>1, <4>2
    <3>6. t.used \notin loose' => until <= wall'[t.used][IF scoped THEN "model" ELSE "all"]
      BY <1>1, <3>5
    <3> QED
      BY <1>2, <3>2, <3>3, <3>6 DEF HoldTrue
  <2> QED
    BY <1>2, <2>1, <2>2 DEF HitTrue
<1> QED
  BY <1>2, <1>3, <1>4, <1>5, <1>6 DEF Sound, Heeds

\* A turn that is handed over reads the registry anew, ...
LEMMA RecordSound ==
    ASSUME IInv, TypeOK', Registry', [Next]_vars, NEW d \in Daemon, Record(d)
    PROVE  Sound(turn[d])'
<1> DEFINE t == turn[d]
           u == turn'[d]
<1>0. TypeOK /\ TypeOK' /\ turn \in [Daemon -> TurnType] /\ t.when <= now /\ now' = now
  BY DEF IInv, Turns, Sound, Placed, TypeOK, Record
<1>1. CASE Untried(t) = {}
  <2>1. u = NoTurn
    BY <1>0, <1>1 DEF Record
  <2>2. Blank(u) /\ u.at = "idle"
    BY <2>1 DEF Blank, NoTurn
  <2>3. now' >= 0
    BY <1>0, Numbers DEF TypeOK
  <2> QED
    BY <2>2, <2>3
    DEF Blank, Sound, Placed, ReadTrue, RanOn, HitTrue, Heeds, HoldTrue, RefusalTrue
<1>2. CASE Untried(t) # {}
  <2>1. u = [NoTurn EXCEPT !.at = "seek", !.pin = t.pin, !.when = t.when,
                           !.rest = Untried(t), !.tried = t.tried, !.since = since,
                           !.ex = ex', !.so = so', !.myEx = ex', !.mySo = so']
    BY <1>0, <1>2 DEF Record
  <2>2. /\ u.at = "seek" /\ u.when = t.when /\ u.rest = Untried(t) /\ u.tried = t.tried
        /\ u.since = since /\ u.so = so' /\ u.myEx = ex' /\ u.mySo = so'
    BY <2>1, Nothing DEF TurnType
  <2>3. Placed(turn[d])'
    BY <1>0, <2>2 DEF Placed, Untried, Registered
  <2>4. ReadTrue(turn[d])'
    BY <2>2 DEF ReadTrue, Registry
  <2> QED
    BY <2>2, <2>3, <2>4 DEF Sound, RanOn, HitTrue, Heeds
<1> QED
  BY <1>1, <1>2

\* Every turn stays sound.
LEMMA TurnsStep ==
    ASSUME IInv, TypeOK', Registry', [Next]_vars
    PROVE  Turns'
<1> SUFFICES ASSUME NEW d \in Daemon
             PROVE  Sound(turn[d])'
  BY DEF Turns
<1>0. /\ TypeOK /\ Sound(turn[d]) /\ turn \in [Daemon -> TurnType]
      /\ turn'[d] \in TurnType
  BY DEF IInv, Turns, TypeOK
<1>1. Issued' /\ turn'[d].attempted <= issued' /\ \A s \in Seat : turn'[d].since[s] <= names'
  BY IssuedStep DEF Issued
<1>2. ASSUME Sound(turn'[d]), issued' = issued, names' = names
      PROVE  Sound(turn[d])'
  BY <1>1, <1>2, TurnStays
<1>3. CASE turn'[d] = turn[d]
  BY <1>0, <1>3, TurnStays DEF IInv, Issued
<1>4. CASE \E ask \in Asks : Choose(d, ask[1], ask[2])
  BY <1>2, <1>4, ChosenSound DEF Choose, registry
<1>5. CASE (\E s \in Seat : Look(d, s)) \/ Answer(d)
  <2>1. PICK s \in Seat : Look(d, s) \/ (Answer(d) /\ s = turn[d].seat)
    BY <1>0, <1>5, Probed DEF Sound, Placed, Answer
  <2> QED
    BY <1>2, <2>1, SoughtSound DEF Look, Answer, registry
<1>6. CASE Save(d) \/ Finish(d) \/ Crash(d)
  <2>1. /\ Blank(turn'[d]) /\ turn'[d].at \in {"idle", "launch"}
        /\ turn'[d].at = "launch" => turn'[d].seat \in Seat
    <3>1. turn[d].seat # 0 => turn[d].seat \in Seat
      BY <1>0, Probed, Numbers
    <3> QED
      BY <1>0, <1>6, <3>1, Blanked
  <2>2. Sound(turn'[d])
    BY <1>0, <2>1, BlankSound
  <2> QED
    BY <1>2, <1>6, <2>2 DEF Save, Finish, Crash, registry
<1>7. CASE Launch(d) \/ Start(d) \/ Observe(d)
  BY <1>2, <1>7, RunSound DEF Launch, Start, Observe, registry
<1>8. CASE Refuse(d)
  BY <1>8, RefusedSound
<1>9. CASE Record(d)
  BY <1>9, RecordSound
<1> QED
  BY <1>0, <1>3, <1>4, <1>5, <1>6, <1>7, <1>8, <1>9, OwnSteps

\* The invariant holds at first ...
LEMMA Initially == Init => IInv
<1> SUFFICES ASSUME Init
             PROVE  IInv
  OBVIOUS
<1>1. TypeOK
  <2>1. /\ now \in Time /\ issued \in 0 .. MaxCred /\ names \in Nat /\ trouble \in 0 .. MaxTrouble
        /\ revoked \subseteq Cred /\ loose \subseteq Cred /\ waived \subseteq Cred
    BY Numbers DEF Init
  <2>2. cred \in Creds /\ so \in Creds /\ since \in [Seat -> Nat] /\ since[Default] # 0
    BY Numbers DEF Init, Creds
  <2>3. wall \in [Cred -> WallType] /\ ex \in Marks
    BY Nothing DEF Init, Marks
  <2>4. cache \in [Daemon -> [Seat -> LookType]] /\ turn \in [Daemon -> TurnType]
    BY Nothing DEF Init
  <2>5. login = NoLogin
    BY DEF Init
  <2> QED
    BY <2>1, <2>2, <2>3, <2>4, <2>5 DEF TypeOK, LookType
<1>2. Issued
  <2>1. \A d \in Daemon : turn[d].attempted = 0 /\ turn[d].since = [s \in Seat |-> 0]
    BY DEF Init, NoTurn
  <2> QED
    BY <2>1, Numbers DEF Init, Issued, NoLogin
<1>3. Registry
  BY DEF Init, Registry, HoldTrue, RefusalTrue
<1>4. Looks
  <2>1. SUFFICES ASSUME NEW d \in Daemon, NEW s \in Seat
                 PROVE  LookTrue(cache[d][s])
    BY DEF Looks
  <2>2. /\ cache[d][s].snap = [state |-> "ok", walls |-> NoWalls, cred |-> s]
        /\ cache[d][s].gen = s /\ cache[d][s].so = 0
    BY DEF Init, LookedFine, NoLook
  <2>3. s \in Cred /\ s # 0 /\ wall[s] = NoWalls
    BY Numbers DEF Init
  <2> QED
    BY <2>2, <2>3 DEF LookTrue, NoWalls
<1>5. Turns
  <2>1. Blank(NoTurn) /\ NoTurn.at = "idle"
    BY DEF Blank, NoTurn
  <2> QED
    BY <1>1, <2>1, BlankSound DEF Init, Turns
<1> QED
  BY <1>1, <1>2, <1>3, <1>4, <1>5 DEF IInv

\* ... and after every step.
LEMMA Inductive == IInv /\ [Next]_vars => IInv'
<1> SUFFICES ASSUME IInv, [Next]_vars
             PROVE  IInv'
  OBVIOUS
<1>1. TypeOK'
  BY TypeStep DEF IInv, Turns, Sound
<1>2. Registry'
  BY <1>1, RegistryStep
<1> QED
  BY <1>1, <1>2, IssuedStep, LooksStep, TurnsStep DEF IInv

\* The invariant holds of every state: what daemons and turns remember of a seat was
\* true of the login it names, and heeded.
THEOREM Invariant == Spec => []IInv
BY Initially, Inductive, PTL DEF Spec

\* Every variable keeps its type, and `default` is always registered.
THEOREM Typed == Spec => []TypeOK
<1>1. IInv => TypeOK
  BY DEF IInv
<1> QED
  BY <1>1, Invariant, PTL

\* What is on record of a seat is true of the login it names.
THEOREM MarksAreTrue == Spec => []MarkIsTrue
<1>1. IInv => MarkIsTrue
  BY DEF IInv, Registry, HoldTrue, RefusalTrue, MarkIsTrue
<1> QED
  BY <1>1, Invariant, PTL

\* A refusal on record stands until the seat has another login, or another seat
\* its name, or a sign-in or the refusal of another login takes its place: no
\* probe or turn of another daemon undoes it.
THEOREM RefusalsStand == Spec => RefusalStands
<1>1. IInv /\ [Next]_vars =>
        [\A s \in Seat :
            so[s] # 0 /\ so'[s] # so[s] =>
                cred[s] # so[s] \/ since'[s] # since[s] \/ so[s] \in waived']_vars
  BY RefusalKept
<1> QED
  BY <1>1, Invariant, PTL DEF Spec, RefusalStands

\* A turn that passes over a seat, or takes it, has looked at it.
LEMMA Looked ==
    ASSUME IInv, [Next]_vars, NEW d \in Daemon, turn[d].at \in {"seek", "probe"},
           turn'[d].at \in {"seek", "save"}, turn'[d] # turn[d]
    PROVE  \E s \in Seat, snap \in SnapType :
              s \in turn[d].rest /\ Settles(d, s, snap) /\ Seen(s, snap)
<1>0. TypeOK /\ Sound(turn[d])
  BY DEF IInv, Turns
<1>1. PICK s \in Seat : Look(d, s) \/ (Answer(d) /\ s = turn[d].seat)
  <2>1. ~Launch(d) /\ ~Start(d) /\ ~Finish(d) /\ ~Refuse(d) /\ ~Observe(d) /\ ~Record(d) /\ ~Save(d)
    BY DEF Launch, Start, Finish, Refuse, Observe, Record, Save
  <2>2. ~Crash(d) /\ \A ask \in Asks : ~Choose(d, ask[1], ask[2])
    BY <1>0, Blanked DEF Choose, Crash
  <2>3. Answer(d) => turn[d].seat \in Seat
    BY <1>0, Probed DEF Answer, Sound, Placed
  <2> QED
    BY <1>0, <2>1, <2>2, <2>3, OwnSteps
<1>2. /\ s \in turn[d].rest
      /\ Probes(d, s) \/ \E snap \in SnapType : Settles(d, s, snap) /\ Seen(s, snap)
  BY <1>1, Sought
<1> QED
  BY <1>2 DEF Probes

\* A turn does not take a seat whose refusal, by the login that is still there,
\* was on record when it began, unless that refusal has been set aside since.
THEOREM NeverAgain == Spec => NotAgain
<1>1. ASSUME IInv, [Next]_vars, NEW d \in Daemon, turn[d].at \in {"seek", "probe"},
             turn'[d].at = "save", turn'[d].seat # 0,
             since[turn'[d].seat] = turn[d].since[turn'[d].seat]
      PROVE  LET t == turn[d]
                 s == turn'[d].seat IN
             t.so[s] = 0 \/ t.so[s] # cred[s] \/ t.so[s] \in waived
  <2> DEFINE t == turn[d]
             s == turn'[d].seat
  <2>1. PICK r \in Seat, snap \in SnapType :
          r \in t.rest /\ Settles(d, r, snap) /\ Seen(r, snap)
    BY <1>1, Looked
  <2> DEFINE v == Reconcile(t.myEx[r], t.mySo[r], snap, t.when, cred[r])
  <2>2. s = r /\ ~Passed(v, t.pin)
    BY <1>1, <2>1 DEF Settles
  <2>3. v.state \notin {"missing", "refused", "barred"}
    BY <2>2 DEF Passed
  <2>4. SUFFICES ASSUME t.so[s] # 0, t.so[s] = cred[s], t.so[s] \notin waived
                 PROVE  FALSE
    OBVIOUS
  <2>5. so[s] = t.so[s] /\ t.mySo[s] = t.so[s]
    BY <1>1, <2>1, <2>2, <2>4 DEF IInv, Turns, Sound, Placed, Heeds
  <2>6. snap.state \notin {"ok", "full", "unseen"}
    BY <2>1, <2>2, <2>4, <2>5 DEF Seen
  <2>7. snap.state \in States
    BY DEF SnapType, States
  <2> QED
    BY <2>2, <2>3, <2>4, <2>5, <2>6, <2>7 DEF Reconcile, States
<1>2. IInv /\ [Next]_vars =>
        [\A d \in Daemon :
            LET t == turn[d]
                s == turn'[d].seat IN
            t.at \in {"seek", "probe"} /\ turn'[d].at = "save" /\ s # 0 /\ since[s] = t.since[s] =>
                t.so[s] = 0 \/ t.so[s] # cred[s] \/ t.so[s] \in waived]_vars
  BY <1>1
<1> QED
  BY <1>2, Invariant, PTL DEF Spec, NotAgain

\* A turn passes over a seat only for what is so of the login in it as it looks,
\* or because it cannot be asked.
THEOREM SkipsAreTrue == Spec => SkipIsTrue
<1>1. ASSUME IInv, [Next]_vars, NEW d \in Daemon, NEW s \in Seat,
             turn[d].at \in {"seek", "probe"}, s \in turn[d].rest, s \notin turn'[d].rest,
             turn'[d].seat = 0, turn'[d].at \in {"seek", "save"}
      PROVE  LET t == turn[d]
                 c == cred[s] IN
             \/ turn'[d].why = "barred" \/ c \in {0} \cup revoked \cup loose
             \/ wall[c].all > t.when \/ (t.pin = "model" /\ wall[c].model > t.when)
  <2> DEFINE t == turn[d]
             c == cred[s]
  <2>0. /\ TypeOK /\ Sound(t) /\ 0 \notin Seat /\ t.when \in Int /\ now \in Int /\ c \in 0 .. MaxCred
        /\ t.myEx[s] \in HoldType /\ HoldTrue(t.myEx[s]) /\ RefusalTrue(t.mySo[s])
    <3>0. TypeOK /\ Sound(t)
      BY <1>1 DEF IInv, Turns
    <3>1. TypeOK /\ Sound(t) /\ now \in Time
      BY <3>0 DEF TypeOK
    <3>2. c \in 0 .. MaxCred /\ t.myEx[s] \in HoldType /\ t.when \in Time
      BY <3>1, Types, Probed
    <3>3. 0 \notin Seat /\ t.when \in Int /\ now \in Int
      BY <3>1, <3>2, Numbers
    <3> QED
      BY <3>1, <3>2, <3>3 DEF Sound, ReadTrue
  <2>1. PICK r \in Seat, snap \in SnapType :
          r \in t.rest /\ Settles(d, r, snap) /\ Seen(r, snap)
    BY <1>1, Looked
  <2> DEFINE v == Reconcile(t.myEx[s], t.mySo[s], snap, t.when, c)
  <2>2. r = s /\ Passed(v, t.pin) /\ turn'[d].why = v.state
    BY <1>1, <2>0, <2>1 DEF Settles
  <2>3. Seen(s, snap) /\ t.when <= now
    BY <2>0, <2>1, <2>2 DEF Sound, Placed
  <2>4. SUFFICES ASSUME c \in Cred, c \notin revoked, c \notin loose, v.state # "barred"
                 PROVE  wall[c].all > t.when \/ (t.pin = "model" /\ wall[c].model > t.when)
    BY <2>0, <2>2, Numbers
  <2>5. wall[c].all \in Int /\ wall[c].model \in Int /\ 0 \notin Cred
    BY <2>0, <2>4, Types, Numbers
  <2>6. CASE snap.state \in {"ok", "full"}
    <3>1. v.state = snap.state /\ v.walls = snap.walls
      BY <2>6 DEF Reconcile
    <3>2. snap.walls.all \in Int /\ snap.walls.model \in Int
      BY Numbers DEF SnapType, WallType
    <3>3. Blocks(snap.walls, t.pin)
      BY <2>2, <2>6, <3>1 DEF Passed
    <3> QED
      BY <2>0, <2>3, <2>5, <2>6, <3>2, <3>3 DEF Blocks, Seen
  <2>7. CASE snap.state = "unknown"
    <3> DEFINE hold == t.myEx[s]
               kept == IF hold.cred # c THEN NoHold ELSE hold
    <3>1. t.mySo[s] # c
      BY <2>4, <2>5, <2>0 DEF RefusalTrue
    <3>2. /\ v.state \in {"full", "unknown"}
          /\ v.walls.all # 0 => kept.until > t.when /\ ~kept.scoped
          /\ v.walls.model # 0 => kept.until > t.when /\ kept.scoped
      BY <2>4, <2>5, <2>7, <3>1 DEF Reconcile
    <3>3. Blocks(v.walls, t.pin)
      BY <2>2, <3>2 DEF Passed
    <3>4. kept.until > t.when /\ (kept.scoped => t.pin = "model")
      BY <3>2, <3>3 DEF Blocks
    <3>5. t.when >= 0 /\ hold.until \in Int
      BY <2>0, Probed, Numbers DEF HoldType
    <3>6. kept # NoHold
      BY <2>0, <3>4, <3>5 DEF NoHold
    <3>7. hold # NoHold /\ hold.cred = c /\ hold.until > t.when /\ (hold.scoped => t.pin = "model")
      BY <3>4, <3>6
    <3>8. hold.until <= wall[c][IF hold.scoped THEN "model" ELSE "all"]
      BY <2>0, <2>4, <3>7 DEF HoldTrue
    <3> QED
      BY <2>0, <2>5, <3>5, <3>7, <3>8
  <2>8. CASE snap.state \in {"missing", "refused", "barred"}
    BY <2>3, <2>4, <2>5, <2>8 DEF Reconcile, Seen
  <2>9. snap.state \in States
    BY DEF SnapType, States
  <2> QED
    BY <2>3, <2>6, <2>7, <2>8, <2>9 DEF States, Seen
<1>2. IInv /\ [Next]_vars =>
        [\A d \in Daemon, s \in Seat :
            LET t == turn[d]
                c == cred[s] IN
            t.at \in {"seek", "probe"} /\ (t.at = "probe" => t.seat = s) /\ s \in t.rest
              /\ s \notin turn'[d].rest /\ turn'[d].seat = 0 /\ turn'[d].at \in {"seek", "save"} =>
                \/ turn'[d].why = "barred" \/ c \in {0} \cup revoked \cup loose
                \/ wall[c].all > t.when \/ (t.pin = "model" /\ wall[c].model > t.when)]_vars
  BY <1>1
<1> QED
  BY <1>2, Invariant, PTL DEF Spec, SkipIsTrue

\* A turn tries each seat at most once.
THEOREM TriedOnce == Spec => OnceEach
<1>1. IInv /\ [Next]_vars =>
        [\A d \in Daemon :
            turn[d].at = "save" /\ turn'[d].at = "launch" => turn[d].seat \notin turn[d].tried]_vars
  BY DEF IInv, Turns, Sound, Placed
<1> QED
  BY <1>1, Invariant, PTL DEF Spec, OnceEach
================================================================================
