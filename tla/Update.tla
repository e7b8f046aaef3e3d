-------------------------------- MODULE Update --------------------------------
(***************************************************************************)
(* Self update (src/update.rs): the supervisor's check, `mafold update` and *)
(* `mafold rollback` over the binary of a copy of mafold, its backup, the   *)
(* version stamp, the skip a rollback leaves, and the update lock.          *)
(*                                                                         *)
(* A machine may have several copies of mafold: the binary and its backup  *)
(* are the copy's, the lock, the stamp and the skip the machine's.  The    *)
(* supervisor runs from Home; a command runs from any copy.                *)
(* What every module has (Init, Next, Spec, TypeOK) bears its name here, so *)
(* that its proofs can stand beside those of Control.                      *)
(***************************************************************************)
EXTENDS Integers

CONSTANTS
    Copy,         \* the copies of mafold on this machine
    Home,         \* the supervisor's
    MaxVersion,   \* bound: releases
    MaxTrouble    \* bound: commands, crashes, settings, failed installs and execs

ASSUME UpdateAssumption ==
    /\ Home \in Copy
    /\ MaxVersion \in Nat \ {0} /\ MaxTrouble \in Nat

Version == 1 .. MaxVersion

\* What a binary is: the version it reports, and whether it is the build that
\* release published (its checksum).  One that is not whole reports none.
Build        == [v : Version, published : BOOLEAN]
Published(v) == [v |-> v, published |-> TRUE]
Torn         == [v |-> 0, published |-> FALSE]
Absent       == [v |-> 0, published |-> TRUE]

VARIABLES
    disk, old,    \* of each copy: the binary, mafold.old
    stamp,        \* installed-version (0: none)
    skip,         \* update-skip.json (0: none)
    auto,         \* the auto-update setting
    latest,       \* the newest release
    lock,         \* update.lock: "free" | "sup" | "cmd"
    sup,          \* the supervisor
    cooling,      \* the version under cooldown (LAST_FAILED; 0: none)
    asked,        \* a command asked it to move onto the disk
    cmd,          \* a command
    raced,        \* copies rolled back while an install was at them
    trouble       \* how much of MaxTrouble is spent

files      == <<disk, old, stamp, skip, auto>>
updateVars == <<files, latest, lock, sup, cooling, asked, cmd, raced, trouble>>

Spend == trouble < MaxTrouble /\ trouble' = trouble + 1

\* A process: where it stands, the version it runs, its copy, what it installs.
Proc(at, run, on) == [at |-> at, run |-> run, on |-> on, offer |-> 0]
NoCmd == Proc("none", 0, Home)

UpdateInit ==
    /\ disk \in [Copy -> {b \in Build : b.v = 1}]
    /\ old = [c \in Copy |-> Absent]
    /\ stamp \in {0, 1} /\ skip = 0 /\ auto = TRUE /\ latest = 1
    /\ lock = "free" /\ sup = Proc("down", 0, Home) /\ cooling = 0 /\ asked = FALSE
    /\ cmd = NoCmd /\ raced = {} /\ trouble = 0

\* A release.
Release ==
    /\ latest < MaxVersion
    /\ latest' = latest + 1
    /\ UNCHANGED <<files, lock, sup, cooling, asked, cmd, raced, trouble>>

\* `mafold update --auto-update on | off`.
SetAuto ==
    /\ Spend
    /\ auto' = ~auto
    /\ UNCHANGED <<disk, old, stamp, skip, latest, lock, sup, cooling, asked, cmd, raced>>

\* Mutant of Wants: only a newer version.
WantsNewer(run, c) == latest > run

\* wants_update: a newer version, or this very one of another build.
Wants(run, c) == latest > run \/ (latest = run /\ disk[c] # Published(latest))

-----------------------------------------------------------------------------
\* apply, by p standing in `me` of its copy; on what it came to: `me` at "done"
\* or "failed".
Becomes(p, me) == IF p = "sup" THEN sup' = me /\ UNCHANGED cmd ELSE cmd' = me /\ UNCHANGED sup
To(p, me, at)  == Becomes(p, [me EXCEPT !.at = at])

Lock(p, me) ==
    /\ me.at = "lock" /\ lock = "free"
    /\ lock' = p
    /\ To(p, me, "look")
    /\ UNCHANGED <<files, latest, cooling, asked, raced, trouble>>

\* Mutant of There: the stamp is believed.
ThereStamped(me) == stamp = me.offer

\* The stamp says so, the binary says so, and it is the published build.
There(me) == stamp = me.offer /\ disk[me.on] = Published(me.offer)

\* Installed by another while waiting for the lock ...
LookStamp(p, me) ==
    /\ me.at = "look"
    /\ IF There(me) THEN lock' = "free" /\ To(p, me, "done")
                    ELSE UNCHANGED lock /\ To(p, me, "fetch")
    /\ UNCHANGED <<files, latest, cooling, asked, raced, trouble>>

\* Mutant of Fetch: a failed download keeps the lock.
FetchHeld(p, me) ==
    /\ me.at = "fetch"
    /\ \/ UNCHANGED trouble /\ To(p, me, "backup")
       \/ Spend /\ To(p, me, "failed")
    /\ UNCHANGED <<files, latest, lock, cooling, asked, raced>>

\* ... or downloaded, verified and tried out, which may fail ...
Fetch(p, me) ==
    /\ me.at = "fetch"
    /\ \/ UNCHANGED <<lock, trouble>> /\ To(p, me, "backup")
       \/ Spend /\ lock' = "free" /\ To(p, me, "failed")
    /\ UNCHANGED <<files, latest, cooling, asked, raced>>

\* ... the binary copied over mafold.old ...
BackUp(p, me) ==
    /\ me.at = "backup"
    /\ old' = [old EXCEPT ![me.on] = Torn]
    /\ To(p, me, "copy")
    /\ raced' = IF cmd.at \in {"skip", "restore"} /\ cmd.on = me.on
                  THEN raced \cup {me.on} ELSE raced
    /\ UNCHANGED <<disk, stamp, skip, auto, latest, lock, cooling, asked, trouble>>

BackedUp(p, me) ==
    /\ me.at = "copy"
    /\ old' = [old EXCEPT ![me.on] = disk[me.on]]
    /\ To(p, me, "swap")
    /\ UNCHANGED <<disk, stamp, skip, auto, latest, lock, cooling, asked, raced, trouble>>

\* ... renamed over it, and stamped.
Swap(p, me) ==
    /\ me.at = "swap"
    /\ disk' = [disk EXCEPT ![me.on] = Published(me.offer)]
    /\ To(p, me, "stamp")
    /\ UNCHANGED <<old, stamp, skip, auto, latest, lock, cooling, asked, raced, trouble>>

Stamp(p, me) ==
    /\ me.at = "stamp"
    /\ stamp' = me.offer
    /\ lock' = "free"
    /\ To(p, me, "done")
    /\ UNCHANGED <<disk, old, skip, auto, latest, cooling, asked, raced, trouble>>

Apply(p, me) ==
    \/ Lock(p, me) \/ LookStamp(p, me) \/ Fetch(p, me) \/ BackUp(p, me) \/ BackedUp(p, me)
    \/ Swap(p, me) \/ Stamp(p, me)

Installing == {"look", "fetch", "backup", "copy", "swap", "stamp"}

-----------------------------------------------------------------------------
\* The supervisor.

\* The service manager starts the binary that is there, if it starts.
Begin ==
    /\ sup.at = "down" /\ disk[Home].v # 0
    /\ sup' = Proc("rest", disk[Home].v, Home)
    /\ UNCHANGED <<files, latest, lock, cooling, asked, cmd, raced, trouble>>

SupervisorEnds ==
    /\ sup.at # "down" /\ Spend
    /\ sup' = Proc("down", 0, Home)
    /\ lock' = IF lock = "sup" THEN "free" ELSE lock
    /\ cooling' = 0 /\ asked' = FALSE
    /\ UNCHANGED <<files, latest, cmd, raced>>

\* A check, every ten minutes or on a nudge: there is something to install.
Check ==
    /\ sup.at = "rest" /\ auto /\ Wants(sup.run, Home)
    /\ sup' = [sup EXCEPT !.at = "weigh", !.offer = latest]
    /\ UNCHANGED <<files, latest, lock, cooling, asked, cmd, raced, trouble>>

\* should_attempt: a rollback holds it back, or the skip is over (and removed, a
\* step later) ...
Weigh ==
    /\ sup.at = "weigh"
    /\ sup' = [sup EXCEPT !.at = IF skip = 0 THEN "cool"
                                 ELSE IF sup.offer > skip THEN "unskip" ELSE "rest"]
    /\ UNCHANGED <<files, latest, lock, cooling, asked, cmd, raced, trouble>>

Unskip ==
    /\ sup.at = "unskip"
    /\ skip' = 0
    /\ sup' = [sup EXCEPT !.at = "cool"]
    /\ UNCHANGED <<disk, old, stamp, auto, latest, lock, cooling, asked, cmd, raced, trouble>>

\* ... or it failed a short while ago.
Cool ==
    /\ sup.at = "cool"
    /\ sup' = [sup EXCEPT !.at = IF cooling = sup.offer THEN "rest" ELSE "lock"]
    /\ UNCHANGED <<files, latest, lock, cooling, asked, cmd, raced, trouble>>

Cooled ==
    /\ cooling # 0
    /\ cooling' = 0
    /\ UNCHANGED <<files, latest, lock, sup, asked, cmd, raced, trouble>>

Failed ==
    /\ sup.at = "failed"
    /\ cooling' = sup.offer
    /\ sup' = [sup EXCEPT !.at = "rest"]
    /\ UNCHANGED <<files, latest, lock, asked, cmd, raced, trouble>>

\* move_on, after an install of its own or as asked: executed anew, or not, and
\* it carries on.
Move ==
    /\ \/ sup.at = "done" /\ UNCHANGED asked
       \/ sup.at = "rest" /\ asked /\ asked' = FALSE
    /\ sup' = [sup EXCEPT !.at = "exec"]
    /\ UNCHANGED <<files, latest, lock, cooling, cmd, raced, trouble>>

Exec ==
    /\ sup.at = "exec"
    /\ \/ /\ disk[Home].v # 0
          /\ sup' = Proc("rest", disk[Home].v, Home)
          /\ cooling' = 0 /\ asked' = FALSE
          /\ UNCHANGED trouble
       \/ /\ sup' = Proc("rest", sup.run, Home)
          /\ UNCHANGED <<cooling, asked>>
          /\ IF disk[Home].v # 0 THEN Spend ELSE UNCHANGED trouble
    /\ UNCHANGED <<files, latest, lock, cmd, raced>>

-----------------------------------------------------------------------------
\* The commands, one at a time, of the binary that is there.

\* `mafold update`: not held back by a skip or a cooldown.
StartUpdate(c) ==
    /\ cmd.at = "none" /\ disk[c].v # 0 /\ Wants(disk[c].v, c) /\ Spend
    /\ cmd' = [Proc("lock", disk[c].v, c) EXCEPT !.offer = latest]
    /\ UNCHANGED <<files, latest, lock, sup, cooling, asked, raced>>

\* Mutant of CanRollBack: a backup that is there is enough.
CanRollBackThere(c) == old[c] # Absent

\* The backup says that it knows the skip.
CanRollBack(c) == old[c].v # 0

\* `mafold rollback`.
StartRollback(c) ==
    /\ cmd.at = "none" /\ disk[c].v # 0 /\ CanRollBack(c) /\ Spend
    /\ cmd' = Proc("skip", disk[c].v, c)
    /\ UNCHANGED <<files, latest, lock, sup, cooling, asked, raced>>

\* It is installed: the skip is over, and the supervisor asked to move.
ClearSkip ==
    /\ cmd.at = "done"
    /\ skip' = 0
    /\ cmd' = [cmd EXCEPT !.at = "ask"]
    /\ UNCHANGED <<disk, old, stamp, auto, latest, lock, sup, cooling, asked, raced, trouble>>

\* The skip first, of the version of this command's binary ...
WriteSkip ==
    /\ cmd.at = "skip"
    /\ skip' = cmd.run
    /\ cmd' = [cmd EXCEPT !.at = "restore"]
    /\ UNCHANGED <<disk, old, stamp, auto, latest, lock, sup, cooling, asked, raced, trouble>>

\* ... the backup over the binary, with no lock taken, or the skip is taken back ...
Restore ==
    /\ cmd.at = "restore"
    /\ \/ /\ disk' = [disk EXCEPT ![cmd.on] = old[cmd.on]]
          /\ raced' = IF sup.at \in Installing /\ cmd.on = Home
                        THEN raced \cup {Home} ELSE raced
          /\ cmd' = [cmd EXCEPT !.at = "unstamp"]
          /\ UNCHANGED <<skip, trouble>>
       \/ /\ Spend /\ skip' = 0 /\ cmd' = NoCmd
          /\ UNCHANGED <<disk, raced>>
    /\ UNCHANGED <<old, stamp, auto, latest, lock, sup, cooling, asked>>

\* ... and the stamp removed.
Unstamp ==
    /\ cmd.at = "unstamp"
    /\ stamp' = 0
    /\ cmd' = [cmd EXCEPT !.at = "ask"]
    /\ UNCHANGED <<disk, old, skip, auto, latest, lock, sup, cooling, asked, raced, trouble>>

\* move_onto_disk, to a supervisor that is there.
AskMove ==
    /\ cmd.at = "ask"
    /\ asked' = (sup.at # "down")
    /\ cmd' = NoCmd
    /\ UNCHANGED <<files, latest, lock, sup, cooling, raced, trouble>>

CommandFails ==
    /\ cmd.at = "failed"
    /\ cmd' = NoCmd
    /\ UNCHANGED <<files, latest, lock, sup, cooling, asked, raced, trouble>>

CommandKilled ==
    /\ cmd.at # "none" /\ Spend
    /\ cmd' = NoCmd
    /\ lock' = IF lock = "cmd" THEN "free" ELSE lock
    /\ UNCHANGED <<files, latest, sup, cooling, asked, raced>>

-----------------------------------------------------------------------------
SupNext == Check \/ Weigh \/ Unskip \/ Cool \/ Failed \/ Move \/ Exec \/ Apply("sup", sup)

CmdNext ==
    ClearSkip \/ WriteSkip \/ Restore \/ Unstamp \/ AskMove \/ CommandFails \/ Apply("cmd", cmd)

UpdateNext ==
    \/ Release \/ SetAuto \/ Begin \/ SupervisorEnds \/ SupNext \/ Cooled
    \/ CmdNext \/ CommandKilled
    \/ \E c \in Copy : StartUpdate(c) \/ StartRollback(c)

UpdateSpec == UpdateInit /\ [][UpdateNext]_updateVars

\* The service manager starts the supervisor, its loop runs, the wait after a
\* failure is a time, and a command that is not killed goes on.
UpdateFairSpec ==
    /\ UpdateSpec
    /\ WF_updateVars(Begin) /\ WF_updateVars(SupNext) /\ WF_updateVars(Cooled) /\ WF_updateVars(CmdNext)

-----------------------------------------------------------------------------
ProcType ==
    [at : {"none", "down", "rest", "weigh", "unskip", "cool", "lock", "done", "failed", "exec",
           "skip", "restore", "unstamp", "ask"} \cup Installing,
     run : 0 .. MaxVersion, on : Copy, offer : 0 .. MaxVersion]

\* Every variable keeps its type, and the lock is held by whoever is installing,
\* and by no one else.
UpdateTypeOK ==
    /\ disk \in [Copy -> Build \cup {Torn}] /\ old \in [Copy -> Build \cup {Torn, Absent}]
    /\ stamp \in 0 .. MaxVersion /\ skip \in 0 .. MaxVersion /\ auto \in BOOLEAN
    /\ latest \in Version /\ lock \in {"free", "sup", "cmd"}
    /\ sup \in ProcType /\ cmd \in ProcType
    /\ cooling \in 0 .. MaxVersion /\ asked \in BOOLEAN
    /\ raced \subseteq Copy
    /\ trouble \in 0 .. MaxTrouble
    /\ (lock = "sup" <=> sup.at \in Installing) /\ (lock = "cmd" <=> cmd.at \in Installing)

\* The binary always starts: no crash in an install, and no rollback after one,
\* leaves half a file there - unless the rollback ran while the supervisor was
\* writing the backup it copies (rollback takes no lock).
BinaryStarts == \A c \in Copy \ raced : disk[c].v # 0

\* An install that reports success put the published build of that version
\* there, whatever the machine's stamp said of other copies ("an eternal apply Ok
\* -> reexec the same old exe spin", binary_is).
InstallIsReal ==
    [][\A step \in {<<sup, sup'>>, <<cmd, cmd'>>} :
          step[1].at \in Installing /\ step[2].at = "done" =>
              disk'[step[1].on] = Published(step[1].offer) \/ step[1].on \in raced']_updateVars

\* With automatic updates on, a computer comes to run the newest release, the
\* build that was published, after whatever failed - unless a rollback skips it.
UpToDate ==
    \A v \in Version :
        auto /\ latest = v ~>
            \/ ~auto \/ latest # v \/ skip >= v \/ Home \in raced
            \/ sup.run = v /\ disk[Home] = Published(v)

=============================================================================
