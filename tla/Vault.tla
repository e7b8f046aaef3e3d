-------------------------------- MODULE Vault ---------------------------------
(***************************************************************************)
(* Connections and the vault (src/connection.rs, vault.rs, mafold-core's    *)
(* connections.rs): the devices of an account, each with the master key the *)
(* server keeps wrapped for it and a listener that answers the calls made   *)
(* on a connection; one connection, its sealed row and the grant in it; and *)
(* a revocation, which re-keys all of it.                                  *)
(*                                                                         *)
(* Keys and grants are numbered as they are made; 0 is none.  The server    *)
(* and the provider are external, and read only from how the code uses      *)
(* them: a provider takes a refresh token once and hands out the next.      *)
(***************************************************************************)
EXTENDS Integers, Sequences, FiniteSets

CONSTANTS
    Device,
    Home,         \* the device the vault was started on
    Calls,        \* calls made on the connection
    Links,        \* requests to link it anew
    MaxKey,       \* bound: master keys made
    MaxGrant,     \* bound: grants handed out
    MaxTrouble    \* bound: calls, links, revocations; failures, sockets and processes lost

ASSUME VaultAssumption ==
    Home \in Device /\ MaxKey \in Nat \ {0} /\ MaxGrant \in Nat \ {0} /\ MaxTrouble \in Nat

Ask == Calls \cup Links
Nobody == "nobody"

VARIABLES
    \* the server
    known,        \* devices registered in the vault
    wrapped,      \* the key it has wrapped for each
    row,          \* the connection
    writes,       \* how many there were: what `updated_at` tells apart
    ask,          \* of each request: "no" | "open" | the device that claimed it | "done" |
                  \* "lost" (claimed, and nobody is left who knows of it, or its answer failed)
    subscribed,   \* sockets the server sends events to
    frames,       \* what is on its way to each
    skipped,      \* devices that were not handed an approval since they last looked (history)
    \* the provider
    live,         \* the grants it honours
    grants,       \* how many it handed out
    \* a device
    cache,        \* ~/.mafold/vault_key
    at,           \* where its listener stands
    rt,           \* the key of the listener's runtime (0: locked)
    reg,          \* what registering said of this device
    to,           \* the devices it is handing its key to
    held,         \* the request in its hands
    saw,          \* the row as it read it
    got,          \* the grant it was given for the one in there
    retried,      \* this call was refused once: a renewal is not ahead of expiry
    consent,      \* a linking waiting for its consent: the key it seals with
    cmd,          \* a `revoke` under way
    keys,         \* how many master keys were made
    trouble       \* how much of MaxTrouble is spent

server   == <<known, wrapped, row, writes, ask, subscribed, frames, skipped>>
provider == <<live, grants>>
serving  == <<held, saw, got, retried>>
listener == <<at, rt, reg, to, serving>>
vars == <<server, provider, cache, listener, consent, cmd, keys, trouble>>

Spend == trouble < MaxTrouble /\ trouble' = trouble + 1

\* A row: the key it is sealed with, the key its `key_id` names, the grant in it,
\* whether it is marked as needing to be linked again, and its version.
Row(key, id, grant, ver) == [key |-> key, id |-> id, grant |-> grant, mark |-> FALSE, ver |-> ver]
NoRow == Row(0, 0, 0, 0)
Unseen == [id |-> 0, grant |-> 0, ver |-> 0]

\* putConnection: any write is a new version, with no mark.
Written(key, id, grant) ==
    /\ row' = Row(key, id, grant, writes + 1)
    /\ writes' = writes + 1

\* Events go to the sockets there are.
Sent(S, frame) ==
    frames' = [d \in Device |-> IF d \in S /\ subscribed[d] THEN Append(frames[d], frame)
                                ELSE frames[d]]

\* approveVaultDevice: the key the server has for a device is the last it was given.
Approved(d, key) ==
    /\ wrapped' = [wrapped EXCEPT ![d] = key]
    /\ Sent({d}, "approved")

Pending(d) == {e \in known \ {d} : wrapped[e] = 0}
NoCmd == [st |-> "none", by |-> Home, old |-> 0, new |-> 0, row |-> NoRow, left |-> {}]

\* Home is listening.
Init ==
    /\ known = {Home}
    /\ wrapped = [d \in Device |-> IF d = Home THEN 1 ELSE 0]
    /\ row = Row(1, 1, 1, 1) /\ writes = 1
    /\ ask = [q \in Ask |-> "no"]
    /\ subscribed = [d \in Device |-> d = Home] /\ frames = [d \in Device |-> <<>>]
    /\ skipped = {}
    /\ live = {1} /\ grants = 1
    /\ cache = [d \in Device |-> IF d = Home THEN 1 ELSE 0]
    /\ at = [d \in Device |-> IF d = Home THEN "loop" ELSE "down"]
    /\ rt = cache /\ reg = [d \in Device |-> 0]
    /\ to = [d \in Device |-> {}] /\ held = [d \in Device |-> Nobody]
    /\ saw = [d \in Device |-> Unseen] /\ got = [d \in Device |-> 0]
    /\ retried = [d \in Device |-> FALSE]
    /\ consent = [d \in Device |-> 0]
    /\ cmd = NoCmd /\ keys = 1 /\ trouble = 0

-----------------------------------------------------------------------------
\* A device's listener: its key.

Go(d, where) == at' = [at EXCEPT ![d] = where]

Keyed(d, key) == rt' = [rt EXCEPT ![d] = key]

\* Back to the socket: with the key, the frame that woke it is answered, and
\* without it dropped.
Locked(d) == Keyed(d, 0) /\ Go(d, "loop") /\ held' = [held EXCEPT ![d] = Nobody]

Answers(d) == Go(d, IF held[d] \in Ask THEN "claim" ELSE "loop")

\* The key is handed on to those that wait for it, first.
Unlocked(d, key) ==
    /\ Keyed(d, key) /\ UNCHANGED held
    /\ to' = [to EXCEPT ![d] = Pending(d)]
    /\ IF Pending(d) = {} THEN Answers(d) ELSE Go(d, "hand")

\* listener_session subscribes, then enrols.
Connect(d) ==
    /\ at[d] = "down"
    /\ subscribed' = [subscribed EXCEPT ![d] = TRUE] /\ frames' = [frames EXCEPT ![d] = <<>>]
    /\ Go(d, "enrol")
    /\ UNCHANGED <<known, wrapped, row, writes, ask, skipped, provider, cache, rt, reg, to,
                   serving, consent, cmd, keys, trouble>>

\* registerVaultDevice: a key that is cached and current serves, and is handed on.
Register(d) ==
    /\ at[d] = "enrol"
    /\ known' = known \cup {d} /\ skipped' = skipped \ {d}
    /\ \/ /\ wrapped[d] = 0
          /\ Locked(d) /\ UNCHANGED <<reg, to>>
       \/ /\ wrapped[d] # 0 /\ cache[d] = wrapped[d]
          /\ Unlocked(d, cache[d]) /\ UNCHANGED reg
       \/ /\ wrapped[d] # 0 /\ cache[d] # wrapped[d]
          /\ Go(d, "fetch") /\ reg' = [reg EXCEPT ![d] = wrapped[d]] /\ UNCHANGED <<rt, held, to>>
    /\ UNCHANGED <<wrapped, row, writes, ask, subscribed, frames, provider, cache, saw, got,
                   retried, consent, cmd, keys, trouble>>

\* quiet_key: what is wrapped now has to be what registering said.
Fetch(d) ==
    /\ at[d] = "fetch"
    /\ \/ /\ wrapped[d] = reg[d]
          /\ Unlocked(d, reg[d]) /\ cache' = [cache EXCEPT ![d] = reg[d]]
       \/ /\ wrapped[d] # reg[d]
          /\ Locked(d) /\ UNCHANGED <<cache, to>>
    /\ reg' = [reg EXCEPT ![d] = 0]
    /\ UNCHANGED <<server, provider, saw, got, retried, consent, cmd, keys, trouble>>

\* Registering or fetching fails: it stays locked, and tries again.
NoKey(d) ==
    /\ at[d] \in {"enrol", "fetch"} /\ Spend
    /\ Locked(d) /\ reg' = [reg EXCEPT ![d] = 0]
    /\ UNCHANGED <<server, provider, cache, to, saw, got, retried, consent, cmd, keys>>

\* auto_approve_pending, one device after another, as they were listed.
Hand(d) ==
    /\ at[d] = "hand"
    /\ \E e \in to[d] :
          /\ Approved(e, rt[d])
          /\ to' = [to EXCEPT ![d] = @ \ {e}]
          /\ IF to[d] = {e} THEN Answers(d) ELSE UNCHANGED at
    /\ UNCHANGED <<known, row, writes, ask, subscribed, skipped, provider, cache, rt, reg, serving,
                   consent, cmd, keys, trouble>>

\* Mutant of Refreshes: an unlocked device keeps its key when it is given another.
RefreshesLocked(frame, locked) ==
    \/ frame = "reset"
    \/ (frame = "approved" \/ frame \in Ask) /\ locked

\* key_refresh_event: the events at which an unlocked, or a locked, device looks
\* for its key again.
Refreshes(frame, locked) ==
    \/ frame \in {"reset", "approved"}
    \/ frame \in Ask /\ locked

\* The next frame.  One this device cannot take is dropped.
Hear(d) ==
    /\ at[d] = "loop" /\ frames[d] # <<>>
    /\ frames' = [frames EXCEPT ![d] = Tail(@)]
    /\ LET frame == Head(frames[d])
           key == IF frame = "reset" THEN 0 ELSE rt[d]
           looks == Refreshes(frame, key = 0)
       IN /\ Keyed(d, key)
          /\ \/ looks /\ Go(d, "enrol")
             \/ ~looks /\ frame \in Ask /\ key # 0 /\ Go(d, "claim")
             \/ ~looks /\ (frame \notin Ask \/ key = 0) /\ UNCHANGED at
          /\ held' = [held EXCEPT ![d] = IF frame \in Ask /\ (looks \/ key # 0) THEN frame
                                         ELSE Nobody]
    /\ UNCHANGED <<known, wrapped, row, writes, ask, subscribed, skipped, provider, cache, reg, to,
                   saw, got, retried, consent, cmd, keys, trouble>>

\* VAULT_RECHECK: locked, it looks again.
Recheck(d) ==
    /\ at[d] = "loop" /\ rt[d] = 0
    /\ Go(d, "enrol")
    /\ UNCHANGED <<server, provider, cache, rt, reg, to, serving, consent, cmd, keys, trouble>>

\* The server does not wait for a device that reads too slowly: the oldest frame on its
\* way is never handed to it, and the socket stays.
Skip(d) ==
    /\ frames[d] # <<>> /\ Spend
    /\ frames' = [frames EXCEPT ![d] = Tail(@)]
    /\ skipped' = IF Head(frames[d]) = "approved" THEN skipped \cup {d} ELSE skipped
    /\ UNCHANGED <<known, wrapped, row, writes, ask, subscribed, provider, cache, listener,
                   consent, cmd, keys>>

\* The socket dies, and nobody says so to the device ...
Drop(d) ==
    /\ subscribed[d] /\ Spend
    /\ subscribed' = [subscribed EXCEPT ![d] = FALSE]
    /\ frames' = [frames EXCEPT ![d] = <<>>]
    /\ UNCHANGED <<known, wrapped, row, writes, ask, skipped, provider, cache, listener, consent,
                   cmd, keys>>

\* ... LISTEN_IDLE: silent for that long, it is over.
Idle(d) ==
    /\ at[d] = "loop" /\ ~subscribed[d]
    /\ Go(d, "down") /\ Keyed(d, 0)
    /\ UNCHANGED <<server, provider, cache, reg, to, serving, consent, cmd, keys, trouble>>

-----------------------------------------------------------------------------
\* A call, on the device that claims it.

Claim(d) ==
    /\ at[d] = "claim"
    /\ IF ask[held[d]] = "open"
       THEN /\ ask' = [ask EXCEPT ![held[d]] = d]
            /\ Go(d, IF held[d] \in Calls THEN "read" ELSE "begin") /\ UNCHANGED held
       ELSE Go(d, "loop") /\ held' = [held EXCEPT ![d] = Nobody] /\ UNCHANGED ask
    /\ UNCHANGED <<known, wrapped, row, writes, subscribed, skipped, frames, provider, cache, rt,
                   reg, to, saw, got, retried, consent, cmd, keys, trouble>>

\* The request fails, or its reply is lost: the device takes it for not claimed, though
\* the server may have it down as the one that answers.
ClaimFails(d) ==
    /\ at[d] = "claim" /\ Spend
    /\ \/ UNCHANGED ask
       \/ ask[held[d]] = "open" /\ ask' = [ask EXCEPT ![held[d]] = "lost"]
    /\ Go(d, "loop") /\ held' = [held EXCEPT ![d] = Nobody]
    /\ UNCHANGED <<known, wrapped, row, writes, subscribed, skipped, frames, provider, cache, rt,
                   reg, to, saw, got, retried, consent, cmd, keys>>

\* What it read of the row, and what became of it.
Saw(d, seen) == saw' = [saw EXCEPT ![d] = [id |-> seen.id, grant |-> seen.grant, ver |-> seen.ver]]

\* There is nothing more to do but to say so.
Ends(d) ==
    /\ Go(d, "say") /\ saw' = [saw EXCEPT ![d] = Unseen] /\ retried' = [retried EXCEPT ![d] = FALSE]

Opens(d) == row # NoRow /\ row.key = rt[d]

\* Mutant of Read: a row it cannot open is nobody's business.
ReadSilent(d) ==
    /\ at[d] = "read"
    /\ \/ /\ Opens(d)
          /\ Saw(d, row) /\ UNCHANGED <<held, retried>>
          /\ \E where \in {"renew", "use"} : Go(d, where)
       \/ /\ ~Opens(d)
          /\ Go(d, "loop") /\ held' = [held EXCEPT ![d] = Nobody] /\ UNCHANGED <<saw, retried>>
    /\ UNCHANGED <<server, provider, cache, rt, reg, to, got, consent, cmd, keys, trouble>>

\* refreshed_payload: the row, opened; a token that is due is renewed first.
Read(d) ==
    /\ at[d] = "read"
    /\ \/ /\ Opens(d)
          /\ Saw(d, row) /\ UNCHANGED retried
          /\ \E where \in {"renew", "use"} : Go(d, where)
       \/ /\ ~Opens(d)
          /\ Ends(d)
    /\ UNCHANGED <<server, provider, cache, rt, reg, to, held, got, consent, cmd, keys, trouble>>

\* A renewal that merely failed: ahead of expiry the call goes on with what there
\* is, after a refusal (recover_refused) there is nothing to go on with.
Failed(d) ==
    \/ ~retried[d] /\ Go(d, "use") /\ UNCHANGED <<saw, retried>>
    \/ retried[d] /\ Ends(d)

\* The provider takes a refresh token: for the next, or (as it does once there were
\* MaxGrant) it stays good.
Spent(grant) ==
    /\ grant \in live
    /\ \/ /\ grants < MaxGrant
          /\ grants' = grants + 1 /\ live' = (live \ {grant}) \cup {grants + 1}
       \/ grants = MaxGrant /\ UNCHANGED provider

\* renew: the grant there is then, or `invalid_grant`.
Renew(d) ==
    /\ at[d] = "renew"
    /\ \/ /\ Spent(saw[d].grant)
          /\ got' = [got EXCEPT ![d] = IF grants' = grants THEN saw[d].grant ELSE grants']
          /\ Go(d, "store")
       \/ /\ saw[d].grant \notin live
          /\ Go(d, "refused") /\ UNCHANGED <<provider, got>>
    /\ UNCHANGED <<server, cache, rt, reg, to, held, saw, retried, consent, cmd, keys, trouble>>

\* The request fails, or its answer is lost on the way, the token spent.
RenewFails(d) ==
    /\ at[d] = "renew" /\ Spend
    /\ UNCHANGED provider \/ Spent(saw[d].grant)
    /\ Failed(d)
    /\ UNCHANGED <<server, cache, rt, reg, to, held, got, consent, cmd, keys>>

\* Mutant of Store: named by the key the server has for the device now.
StoreRelabelled(d) ==
    /\ at[d] = "store"
    /\ Written(rt[d], wrapped[d], got[d])
    /\ saw' = [saw EXCEPT ![d].grant = got[d]] /\ got' = [got EXCEPT ![d] = 0]
    /\ Go(d, "use")
    /\ UNCHANGED <<known, wrapped, ask, subscribed, skipped, frames, provider, cache, rt, reg, to,
                   held, retried, consent, cmd, keys, trouble>>

\* store: sealed with the runtime's key, under the `key_id` the row had.
Store(d) ==
    /\ at[d] = "store"
    /\ Written(rt[d], saw[d].id, got[d])
    /\ saw' = [saw EXCEPT ![d].grant = got[d]] /\ got' = [got EXCEPT ![d] = 0]
    /\ Go(d, "use")
    /\ UNCHANGED <<known, wrapped, ask, subscribed, skipped, frames, provider, cache, rt, reg, to,
                   held, retried, consent, cmd, keys, trouble>>

StoreFails(d) ==
    /\ at[d] = "store" /\ Spend
    /\ Failed(d) /\ got' = [got EXCEPT ![d] = 0]
    /\ UNCHANGED <<server, provider, cache, rt, reg, to, held, consent, cmd, keys>>

\* Mutant of Settle: whatever version of the row there is, is marked.
SettleAny(d) ==
    /\ at[d] = "refused"
    /\ \/ /\ row # NoRow
          /\ row' = [row EXCEPT !.mark = TRUE] /\ Ends(d)
       \/ /\ row = NoRow
          /\ Go(d, "reread") /\ UNCHANGED <<row, saw, retried>>
    /\ UNCHANGED <<known, wrapped, writes, ask, subscribed, skipped, frames, provider, cache, rt,
                   reg, to, held, got, consent, cmd, keys, trouble>>

\* settle_refusal: the row is marked if it is still the one that was opened ...
Settle(d) ==
    /\ at[d] = "refused"
    /\ \/ /\ row # NoRow /\ row.ver = saw[d].ver
          /\ row' = [row EXCEPT !.mark = TRUE] /\ Ends(d)
       \/ /\ row = NoRow \/ row.ver # saw[d].ver
          /\ Go(d, "reread") /\ UNCHANGED <<row, saw, retried>>
    /\ UNCHANGED <<known, wrapped, writes, ask, subscribed, skipped, frames, provider, cache, rt,
                   reg, to, held, got, consent, cmd, keys, trouble>>

\* ... or the request to mark it fails, and the person is told all the same ...
SettleFails(d) ==
    /\ at[d] = "refused" /\ Spend
    /\ Ends(d)
    /\ UNCHANGED <<server, provider, cache, rt, reg, to, held, got, consent, cmd, keys>>

\* ... else the newer one is used, if it opens: its credential, under the record (`conn`)
\* that was opened first.
Reread(d) ==
    /\ at[d] = "reread"
    /\ \/ /\ Opens(d) /\ Go(d, "use")
          /\ saw' = [saw EXCEPT ![d].grant = row.grant] /\ UNCHANGED retried
       \/ ~Opens(d) /\ Ends(d)
    /\ UNCHANGED <<server, provider, cache, rt, reg, to, held, got, consent, cmd, keys, trouble>>

\* The provider refuses the call itself: its credential is renewed, once.
Refused(d) ==
    /\ at[d] = "use" /\ ~retried[d]
    /\ Go(d, "renew") /\ retried' = [retried EXCEPT ![d] = TRUE]
    /\ UNCHANGED <<server, provider, cache, rt, reg, to, held, saw, got, consent, cmd, keys,
                   trouble>>

\* answerConnectionCall, whatever came of it; a request of its own that may fail.
Ended(d, end) ==
    /\ ask' = [ask EXCEPT ![held[d]] = end]
    /\ held' = [held EXCEPT ![d] = Nobody] /\ saw' = [saw EXCEPT ![d] = Unseen]
    /\ retried' = [retried EXCEPT ![d] = FALSE] /\ Go(d, "loop")
    /\ UNCHANGED <<known, wrapped, row, writes, subscribed, skipped, frames, provider, cache, rt,
                   reg, to, got, cmd, keys>>

Say(d)      == at[d] \in {"use", "say"} /\ Ended(d, "done") /\ UNCHANGED <<consent, trouble>>
SayFails(d) == at[d] \in {"use", "say"} /\ Spend /\ Ended(d, "lost") /\ UNCHANGED consent

\* Of the requests it waits for inline, those to the Mafold server end after a minute at
\* the latest (rpc_ex). One to a provider (http_post), and the handshake of the socket,
\* have no deadline: on a connection that has gone half-open the listener waits for ever.
Hangs(d) ==
    /\ at[d] \in {"down", "renew", "use"} /\ Spend
    /\ Go(d, "hung")
    /\ UNCHANGED provider \/ (at[d] = "renew" /\ Spent(saw[d].grant))
    /\ UNCHANGED <<server, cache, rt, reg, to, serving, consent, cmd, keys>>

-----------------------------------------------------------------------------
\* A link: answered with the consent screen's address, finished by a task of its
\* own, with the key of the time.

Begin(d) ==
    /\ at[d] = "begin"
    /\ Ended(d, "done")
    /\ consent' = [consent EXCEPT ![d] = rt[d]] /\ UNCHANGED trouble

\* finish_linking: someone consents ...
Linked(d) ==
    /\ consent[d] # 0 /\ grants < MaxGrant
    /\ grants' = grants + 1 /\ live' = live \cup {grants + 1}
    /\ Written(consent[d], consent[d], grants + 1)
    /\ consent' = [consent EXCEPT ![d] = 0]
    /\ UNCHANGED <<known, wrapped, ask, subscribed, skipped, frames, cache, listener, cmd, keys,
                   trouble>>

\* ... or nobody does in time.
GiveUp(d) ==
    /\ consent[d] # 0
    /\ consent' = [consent EXCEPT ![d] = 0]
    /\ UNCHANGED <<server, provider, cache, listener, cmd, keys, trouble>>

-----------------------------------------------------------------------------
\* `unlock` where no device has a key: the vault starts here.

First ==
    /\ cmd.st = "none" /\ keys < MaxKey /\ \A d \in Device : wrapped[d] = 0
    /\ \E d \in Device :
          /\ known' = known \cup {d}
          /\ cache' = [cache EXCEPT ![d] = 0]
          /\ cmd' = [NoCmd EXCEPT !.st = "mint", !.by = d]
    /\ UNCHANGED <<wrapped, row, writes, ask, subscribed, skipped, frames, provider, listener,
                   consent, keys, trouble>>

Mint ==
    /\ cmd.st = "mint"
    /\ keys' = keys + 1
    /\ Approved(cmd.by, keys + 1) /\ cache' = [cache EXCEPT ![cmd.by] = keys + 1]
    /\ cmd' = NoCmd
    /\ UNCHANGED <<known, row, writes, ask, subscribed, skipped, provider, listener, consent,
                   trouble>>

-----------------------------------------------------------------------------
\* `revoke`, and the rotation it ends with.

\* Out of the vault; then unlock and listConnections, in the same step: this device's
\* key, and the vault's rows. One revocation at a time.
Revoke(d, e) ==
    /\ cmd.st = "none" /\ Spend /\ d # e /\ e \in known /\ wrapped[d] # 0 /\ keys < MaxKey
    /\ known' = known \ {e}
    /\ wrapped' = [wrapped EXCEPT ![e] = 0]
    /\ cache' = [cache EXCEPT ![d] = wrapped[d]]
    /\ cmd' = [NoCmd EXCEPT !.st = "list", !.by = d, !.old = wrapped[d], !.row = row]
    /\ UNCHANGED <<row, writes, ask, subscribed, skipped, frames, provider, listener, consent,
                   keys>>

\* The devices to keep, and the new key.
List ==
    /\ cmd.st = "list"
    /\ cmd' = [cmd EXCEPT !.st = "reseal", !.new = keys + 1,
                          !.left = {d \in known : wrapped[d] # 0}]
    /\ keys' = keys + 1
    /\ UNCHANGED <<server, provider, cache, listener, consent, trouble>>

\* The row as it was listed, sealed anew.
Reseal ==
    /\ cmd.st = "reseal"
    /\ \/ /\ cmd.row = NoRow
          /\ cmd' = [cmd EXCEPT !.st = "rewrap"] /\ UNCHANGED <<row, writes>>
       \/ /\ cmd.row # NoRow /\ cmd.row.key = cmd.old
          /\ Written(cmd.new, cmd.new, cmd.row.grant)
          /\ cmd' = [cmd EXCEPT !.st = "rewrap"]
       \/ /\ cmd.row # NoRow /\ cmd.row.key # cmd.old
          /\ cmd' = [cmd EXCEPT !.st = "stopped"] /\ UNCHANGED <<row, writes>>
    /\ UNCHANGED <<known, wrapped, ask, subscribed, skipped, frames, provider, cache, listener,
                   consent, keys, trouble>>

Rewrap ==
    /\ cmd.st = "rewrap"
    /\ \/ \E d \in cmd.left :
             /\ Approved(d, cmd.new)
             /\ cmd' = [cmd EXCEPT !.left = @ \ {d}] /\ UNCHANGED cache
       \/ /\ cmd.left = {}
          /\ cache' = [cache EXCEPT ![cmd.by] = cmd.new]
          /\ cmd' = NoCmd /\ UNCHANGED <<wrapped, frames>>
    /\ UNCHANGED <<known, row, writes, ask, subscribed, skipped, provider, listener, consent, keys,
                   trouble>>

\* A request of it fails, and it ends there.
RotateFails ==
    /\ cmd.st \in {"list", "reseal", "rewrap"}
    /\ cmd.st = "rewrap" => cmd.left # {}
    /\ Spend
    /\ cmd' = [cmd EXCEPT !.st = "stopped"]
    /\ UNCHANGED <<server, provider, cache, listener, consent, keys>>

-----------------------------------------------------------------------------
\* Others.

\* A call on the connection, or a wish to link it, sent to every socket there is.
\* One call is like another.
Unasked(S) == CHOOSE q \in S : ask[q] = "no"

Post(S) ==
    /\ \E q \in S : ask[q] = "no"
    /\ Spend
    /\ ask' = [ask EXCEPT ![Unasked(S)] = "open"]
    /\ Sent(Device, Unasked(S))
    /\ UNCHANGED <<known, wrapped, row, writes, subscribed, skipped, provider, cache, listener,
                   consent, cmd, keys>>

\* Access is withdrawn at the provider.
Withdraw ==
    /\ live # {} /\ Spend
    /\ live' = {}
    /\ UNCHANGED <<server, grants, cache, listener, consent, cmd, keys>>

\* The vault is reset on another surface: no device has a key, and what was sealed
\* is gone.
Reset ==
    /\ \E d \in Device : wrapped[d] # 0
    /\ Spend
    /\ wrapped' = [d \in Device |-> 0] /\ row' = NoRow
    /\ Sent(Device, "reset")
    /\ UNCHANGED <<known, writes, ask, subscribed, skipped, provider, cache, listener, consent,
                   cmd, keys>>

\* A device's process ends; what it claimed waits for its caller's timeout.
Crash(d) ==
    /\ at[d] # "down" /\ Spend
    /\ ask' = [q \in Ask |-> IF ask[q] = d THEN "lost" ELSE ask[q]]
    /\ Go(d, "down") /\ Keyed(d, 0) /\ to' = [to EXCEPT ![d] = {}]
    /\ held' = [held EXCEPT ![d] = Nobody] /\ saw' = [saw EXCEPT ![d] = Unseen]
    /\ retried' = [retried EXCEPT ![d] = FALSE] /\ reg' = [reg EXCEPT ![d] = 0]
    /\ got' = [got EXCEPT ![d] = 0] /\ consent' = [consent EXCEPT ![d] = 0]
    /\ subscribed' = [subscribed EXCEPT ![d] = FALSE] /\ frames' = [frames EXCEPT ![d] = <<>>]
    /\ UNCHANGED <<known, wrapped, row, writes, skipped, provider, cache, cmd, keys>>

-----------------------------------------------------------------------------
Keying(d) ==
    Connect(d) \/ Register(d) \/ Fetch(d) \/ Hand(d) \/ Hear(d) \/ Recheck(d) \/ Idle(d)
Serving(d) ==
    Claim(d) \/ Read(d) \/ Renew(d) \/ Store(d) \/ Settle(d) \/ Reread(d) \/ Refused(d) \/ Say(d)
    \/ Begin(d)
Trouble(d) ==
    NoKey(d) \/ Skip(d) \/ Drop(d) \/ ClaimFails(d) \/ RenewFails(d) \/ StoreFails(d)
    \/ SettleFails(d) \/ SayFails(d) \/ Hangs(d) \/ Crash(d)

Next ==
    \/ \E d \in Device : Keying(d) \/ Serving(d) \/ Trouble(d) \/ Linked(d) \/ GiveUp(d)
    \/ \E d, e \in Device : Revoke(d, e)
    \/ List \/ Reseal \/ Rewrap \/ RotateFails
    \/ Post(Calls) \/ Post(Links)
    \/ First \/ Mint
    \/ Withdraw \/ Reset

Spec == Init /\ [][Next]_vars

\* A listener goes on, but where it hangs: each request it waits for there has a deadline,
\* or it returns, or the step taken is Hangs. The rest is people's.
FairSpec == Spec /\ \A d \in Device : WF_vars(Keying(d) \/ Serving(d))

-----------------------------------------------------------------------------
States == {"down", "enrol", "fetch", "hand", "loop", "claim", "read", "renew", "store", "refused",
           "reread", "use", "say", "begin", "hung"}

\* Of the right types; and a row's `key_id` names the key it is sealed with, which
\* is what tells a device that holds another one to unlock again, rather than that
\* its credential is damaged.
TypeOK ==
    /\ known \subseteq Device /\ skipped \subseteq Device
    /\ wrapped \in [Device -> 0 .. keys] /\ cache \in [Device -> 0 .. keys]
    /\ rt \in [Device -> 0 .. keys] /\ reg \in [Device -> 0 .. keys]
    /\ consent \in [Device -> 0 .. keys] /\ keys \in 1 .. MaxKey
    /\ row.ver \in 0 .. writes /\ row.grant \in 0 .. grants /\ row.mark \in BOOLEAN
    /\ live \subseteq 1 .. grants /\ grants \in 1 .. MaxGrant
    /\ ask \in [Ask -> {"no", "open", "done", "lost"} \cup Device]
    /\ at \in [Device -> States] /\ held \in [Device -> Ask \cup {Nobody}]
    /\ subscribed \in [Device -> BOOLEAN] /\ to \in [Device -> SUBSET Device]
    /\ cmd.st \in {"none", "mint", "list", "reseal", "rewrap", "stopped"}
    /\ trouble \in 0 .. MaxTrouble
    /\ row.key = row.id

\* A connection marked as needing to be linked again does: the grant in it is dead.
\* Of two devices that renew at once, the one refused does not mark what the other
\* has healed (settle_refusal).
MarkIsTrue == row.mark => row.grant \notin live

\* A device the server has a key for comes to answer with that key, whatever was lost
\* with a socket, and also after it was re-keyed while it listened. Two do not, and go on
\* with the old key: one that was not handed the approval on a socket that stayed open
\* (unlocked, it never rechecks), until it looks again, and one that hangs.
CaughtUp ==
    []<>(\A d \in Device \ skipped : wrapped[d] # 0 /\ at[d] # "hung" => rt[d] = wrapped[d])

\* A device that learns it has claimed a call answers it, or its process ends: nobody
\* else may. It does not as long as it hangs on a provider.
Answered == []<>(\A q \in Ask : ask[q] \in Device => at[ask[q]] = "hung")

\* Violated: a rotation that stops halfway leaves the row to a key somebody has
\* (rotate: "the old key still opens everything and the vault is merely un-rotated").
StillOpens == cmd.st = "stopped" => \E d \in Device : row.key \in {wrapped[d], cache[d]}
==============================================================================
