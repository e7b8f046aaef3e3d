------------------------------ MODULE VaultProofs ------------------------------
(***************************************************************************)
(* For any number of devices, calls, keys and grants: no connection is     *)
(* marked as dead that is not, and each row names the key that seals it.   *)
(***************************************************************************)
EXTENDS Vault, TLAPS

RowType == [key : Nat, id : Nat, grant : Nat, mark : BOOLEAN, ver : Nat]
SawType == [id : Nat, grant : Nat, ver : Nat]
CmdType == [st : {"none", "mint", "list", "reseal", "rewrap", "stopped"}, by : Device,
            old : Nat, new : Nat, row : RowType, left : SUBSET Device]

\* Every key is one that was made.
Keys ==
    /\ wrapped \in [Device -> 0 .. keys] /\ cache \in [Device -> 0 .. keys]
    /\ rt \in [Device -> 0 .. keys] /\ reg \in [Device -> 0 .. keys]
    /\ consent \in [Device -> 0 .. keys] /\ keys \in 1 .. MaxKey

\* The rest of what devices and requests are.
Listeners ==
    /\ known \subseteq Device /\ skipped \subseteq Device
    /\ ask \in [Ask -> {"no", "open", "done", "lost"} \cup Device]
    /\ at \in [Device -> States] /\ held \in [Device -> Ask \cup {Nobody}]
    /\ subscribed \in [Device -> BOOLEAN] /\ to \in [Device -> SUBSET Device]
    /\ trouble \in 0 .. MaxTrouble

\* A rotation: its new key is made, its row is a row there was, and what is going
\* to make a key still may.
Rotation ==
    /\ cmd \in CmdType
    /\ cmd.old <= keys /\ cmd.new <= keys /\ cmd.row.grant <= grants
    /\ cmd.st \in {"mint", "list"} => keys < MaxKey

\* Every grant is one that was handed out.
Grants == live \subseteq 1 .. grants /\ grants \in 1 .. MaxGrant

\* The row: a version of its own, named by the key it is sealed with.
Sealed ==
    /\ row \in RowType /\ writes \in Nat
    /\ row.key = row.id /\ row.grant <= grants /\ row.ver <= writes
    /\ row = NoRow \/ row.ver > 0

\* A call: what it read names the key of its runtime, and where the row is still of
\* the version it read, the grant there is the one it read.  What was refused is dead.
InHand == {"renew", "store", "refused", "reread", "use"}

Fits(d) ==
    /\ saw[d].grant <= grants /\ got[d] <= grants /\ saw[d].ver <= writes
    /\ at[d] \in InHand => saw[d].id = rt[d]
    /\ row # NoRow /\ saw[d].ver = row.ver => saw[d].grant = row.grant
    /\ at[d] = "refused" => saw[d].grant \notin live

Opened ==
    /\ saw \in [Device -> SawType] /\ got \in [Device -> Nat]
    /\ \A d \in Device : Fits(d)

\* The inductive invariant.
IInv == Keys /\ Listeners /\ Rotation /\ Grants /\ Sealed /\ Opened /\ MarkIsTrue

--------------------------------------------------------------------------------
\* The numbers the bounds are, and what a row and a device may be.
LEMMA Numbers ==
    /\ MaxKey \in Nat /\ MaxGrant \in Nat /\ MaxTrouble \in Nat /\ Home \in Device
    /\ 1 \in 1 .. MaxKey /\ 1 \in 1 .. MaxGrant
    /\ NoRow \in RowType /\ NoRow.key = 0 /\ NoRow.id = 0 /\ NoRow.grant = 0 /\ NoRow.ver = 0
    /\ NoRow.mark = FALSE
    /\ Unseen \in SawType /\ Unseen.grant = 0 /\ Unseen.ver = 0
    /\ NoCmd \in CmdType /\ NoCmd.old = 0 /\ NoCmd.new = 0 /\ NoCmd.row.grant = 0
    /\ NoCmd.st = "none"
  BY VaultAssumption DEF NoRow, Row, RowType, Unseen, SawType, NoCmd, CmdType

\* A written row is a row of a new version.
LEMMA Writes ==
    ASSUME Sealed, NEW key \in Nat, NEW grant \in Nat, Written(key, key, grant)
    PROVE  /\ row' \in RowType /\ writes' = writes + 1 /\ writes' \in Nat
           /\ row'.key = key /\ row'.id = key /\ row'.grant = grant /\ row'.ver = writes'
           /\ row'.mark = FALSE /\ row' # NoRow
  BY DEF Written, Row, RowType, Sealed, NoRow

\* The invariant holds at the start.
LEMMA Initially == Init => IInv
<1> SUFFICES ASSUME Init PROVE IInv
  OBVIOUS
<1>1. Keys
  BY Numbers DEF Init, Keys
<1>2. Listeners
  BY Numbers DEF Init, Listeners, States
<1>3. Rotation /\ Grants
  BY Numbers DEF Init, Rotation, Grants
<1>4. Sealed /\ MarkIsTrue
  BY DEF Init, Sealed, RowType, Row, MarkIsTrue
<1>5. Opened
  BY Numbers DEF Init, Opened, Fits, InHand, SawType, Unseen, Row
<1> QED
  BY <1>1, <1>2, <1>3, <1>4, <1>5 DEF IInv

--------------------------------------------------------------------------------
\* No step gives a device a key that was not made.
LEMMA KeysStep ==
    ASSUME IInv, [Next]_vars
    PROVE  Keys'
<1>0. Keys /\ keys \in 1 .. MaxKey /\ keys \in Nat /\ MaxKey \in Nat
  BY Numbers DEF IInv, Keys
<1>1. ASSUME NEW d \in Device, Keying(d)
      PROVE  Keys'
  <2>1. CASE Connect(d) \/ Recheck(d)
    BY <1>0, <2>1 DEF Connect, Recheck, Go, server, serving, provider, Keys
  <2>2. CASE Register(d)
    BY <1>0, <2>2 DEF Register, Locked, Unlocked, Keyed, Keys
  <2>3. CASE Fetch(d)
    BY <1>0, <2>3 DEF Fetch, Locked, Unlocked, Keyed, Keys, server
  <2>4. CASE Hand(d)
    BY <1>0, <2>4 DEF Hand, Approved, Keys, serving
  <2>5. CASE Hear(d)
    BY <1>0, <2>5 DEF Hear, Keyed, Keys
  <2>6. CASE Idle(d)
    BY <1>0, <2>6 DEF Idle, Keyed, Keys, server
  <2> QED
    BY <1>1, <2>1, <2>2, <2>3, <2>4, <2>5, <2>6 DEF Keying
<1>2. ASSUME NEW d \in Device, Serving(d)
      PROVE  Keys'
  <2>1. CASE Claim(d) \/ Read(d) \/ Renew(d) \/ Store(d) \/ Settle(d) \/ Reread(d) \/ Refused(d)
    BY <1>0, <2>1 DEF Claim, Read, Renew, Store, Settle, Reread, Refused, server, Keys
  <2>2. CASE Say(d)
    BY <1>0, <2>2 DEF Say, Ended, Keys
  <2>3. CASE Begin(d)
    BY <1>0, <2>3 DEF Begin, Ended, Keys
  <2> QED
    BY <1>2, <2>1, <2>2, <2>3 DEF Serving
<1>3. ASSUME NEW d \in Device, Trouble(d) \/ Linked(d) \/ GiveUp(d)
      PROVE  Keys'
  <2>1. CASE NoKey(d)
    BY <1>0, <2>1 DEF NoKey, Locked, Keyed, Keys, server
  <2>2. CASE Skip(d) \/ Drop(d) \/ ClaimFails(d) \/ RenewFails(d) \/ StoreFails(d) \/ SayFails(d)
    BY <1>0, <2>2 DEF Skip, Drop, ClaimFails, RenewFails, StoreFails, SayFails, Ended, server,
                      listener, serving, Keys
  <2>3. CASE Crash(d)
    BY <1>0, <2>3 DEF Crash, Keyed, Keys
  <2>4. CASE Linked(d) \/ GiveUp(d)
    BY <1>0, <2>4 DEF Linked, GiveUp, server, listener, Keys
  <2>5. CASE SettleFails(d) \/ Hangs(d)
    BY <1>0, <2>5 DEF SettleFails, Hangs, server, Keys
  <2> QED
    BY <1>3, <2>1, <2>2, <2>3, <2>4, <2>5 DEF Trouble
<1>4. ASSUME NEW d \in Device, NEW e \in Device, Revoke(d, e)
      PROVE  Keys'
  BY <1>0, <1>4 DEF Revoke, listener, Keys
<1>5. CASE First
  BY <1>0, <1>5 DEF First, listener, Keys
<1>6. CASE Mint \/ List
  <2>1. keys < MaxKey /\ cmd.by \in Device
    BY <1>6, <1>0 DEF Mint, List, IInv, Rotation, CmdType
  <2>2. keys' = keys + 1 /\ keys' \in 1 .. MaxKey /\ \A k \in 0 .. keys : k \in 0 .. keys'
    BY <1>0, <1>6, <2>1 DEF Mint, List
  <2>3. \A f : f \in [Device -> 0 .. keys] => f \in [Device -> 0 .. keys']
    BY <2>2
  <2>4. CASE Mint
    BY <1>0, <2>1, <2>2, <2>3, <2>4 DEF Mint, Approved, listener, Keys
  <2>5. CASE List
    BY <1>0, <2>2, <2>3, <2>5 DEF List, server, listener, Keys
  <2> QED
    BY <1>6, <2>4, <2>5
<1>7. CASE Rewrap
  <2>1. cmd.new \in 0 .. keys
    BY <1>0 DEF IInv, Rotation, CmdType
  <2> QED
    BY <1>0, <1>7, <2>1 DEF Rewrap, Approved, listener, Keys
<1>8. CASE Reseal \/ RotateFails
  BY <1>0, <1>8 DEF Reseal, RotateFails, server, listener, Keys
<1>9. CASE Post(Calls) \/ Post(Links) \/ Withdraw \/ Reset \/ UNCHANGED vars
  BY <1>0, <1>9 DEF Post, Withdraw, Reset, vars, server, listener, Keys
<1> QED
  BY <1>1, <1>2, <1>3, <1>4, <1>5, <1>6, <1>7, <1>8, <1>9 DEF Next

\* A device stands where its listener may, and claims what was asked.
LEMMA ListenersStep ==
    ASSUME IInv, [Next]_vars
    PROVE  Listeners'
<1>0. Listeners /\ MaxTrouble \in Nat
  BY Numbers DEF IInv
<1>1. ASSUME NEW d \in Device, Keying(d)
      PROVE  Listeners'
  <2>1. CASE Connect(d) \/ Recheck(d) \/ Idle(d)
    BY <1>0, <2>1 DEF Connect, Recheck, Idle, Go, server, serving, Listeners, States
  <2>2. CASE Register(d)
    BY <1>0, <2>2 DEF Register, Locked, Unlocked, Answers, Pending, Go, Listeners, States
  <2>3. CASE Fetch(d)
    BY <1>0, <2>3 DEF Fetch, Locked, Unlocked, Answers, Pending, Go, Listeners, States, server
  <2>4. CASE Hand(d)
    BY <1>0, <2>4 DEF Hand, Answers, Go, Listeners, States, serving
  <2>5. CASE Hear(d)
    BY <1>0, <2>5 DEF Hear, Go, Listeners, States
  <2> QED
    BY <1>1, <2>1, <2>2, <2>3, <2>4, <2>5 DEF Keying
<1>2. ASSUME NEW d \in Device, Serving(d)
      PROVE  Listeners'
  <2>1. CASE Claim(d)
    BY <1>0, <2>1 DEF Claim, Go, Listeners, States
  <2>2. CASE Read(d) \/ Reread(d) \/ Settle(d) \/ Refused(d)
    BY <1>0, <2>2 DEF Read, Reread, Settle, Refused, Ends, Go, server, Listeners, States
  <2>3. CASE Renew(d) \/ Store(d)
    BY <1>0, <2>3 DEF Renew, Store, Go, server, Listeners, States
  <2>4. CASE Say(d) \/ Begin(d)
    BY <1>0, <2>4 DEF Say, Begin, Ended, Go, Listeners, States
  <2> QED
    BY <1>2, <2>1, <2>2, <2>3, <2>4 DEF Serving
<1>3. ASSUME NEW d \in Device, Trouble(d) \/ Linked(d) \/ GiveUp(d)
      PROVE  Listeners'
  <2>1. CASE NoKey(d)
    BY <1>0, <2>1 DEF NoKey, Locked, Go, Spend, server, Listeners, States
  <2>2. CASE RenewFails(d) \/ StoreFails(d)
    BY <1>0, <2>2 DEF RenewFails, StoreFails, Failed, Ends, Go, Spend, server, Listeners, States
  <2>3. CASE Drop(d)
    BY <1>0, <2>3 DEF Drop, Spend, listener, serving, Listeners
  <2>4. CASE Crash(d)
    BY <1>0, <2>4 DEF Crash, Go, Spend, Listeners, States
  <2>5. CASE Linked(d) \/ GiveUp(d)
    BY <1>0, <2>5 DEF Linked, GiveUp, server, listener, serving, Listeners
  <2>6. CASE SayFails(d)
    <3>1. trouble' \in 0 .. MaxTrouble
      BY <1>0, <2>6 DEF SayFails, Spend, Listeners
    <3> QED
      BY <1>0, <2>6, <3>1 DEF SayFails, Ended, Go, Listeners, States
  <2>7. CASE ClaimFails(d)
    BY <1>0, <2>7 DEF ClaimFails, Go, Spend, Listeners, States
  <2>8. CASE SettleFails(d) \/ Hangs(d)
    BY <1>0, <2>8 DEF SettleFails, Hangs, Ends, Go, Spend, server, serving, Listeners, States
  <2>9. CASE Skip(d)
    <3>1. skipped' \subseteq Device
      BY <1>0, <2>9 DEF Skip, Listeners
    <3> QED
      BY <1>0, <2>9, <3>1 DEF Skip, Spend, listener, serving, Listeners
  <2> QED
    BY <1>3, <2>1, <2>2, <2>3, <2>4, <2>5, <2>6, <2>7, <2>8, <2>9 DEF Trouble
<1>4. ASSUME NEW d \in Device, NEW e \in Device, Revoke(d, e)
      PROVE  Listeners'
  BY <1>0, <1>4 DEF Revoke, Spend, listener, serving, Listeners
<1>5. CASE First \/ Mint \/ List
  BY <1>0, <1>5 DEF First, Mint, List, Approved, server, listener, serving, Listeners
<1>6. CASE Reseal \/ Rewrap \/ RotateFails
  BY <1>0, <1>6 DEF Reseal, Rewrap, RotateFails, Approved, Spend, server, listener, serving, Listeners
<1>7. CASE Post(Calls) \/ Post(Links)
  BY <1>0, <1>7 DEF Post, Spend, listener, serving, Listeners
<1>8. CASE Withdraw \/ Reset
  BY <1>0, <1>8 DEF Withdraw, Reset, Spend, server, listener, serving, Listeners
<1>9. CASE UNCHANGED vars
  BY <1>0, <1>9 DEF vars, server, listener, serving, Listeners
<1> QED
  BY <1>1, <1>2, <1>3, <1>4, <1>5, <1>6, <1>7, <1>8, <1>9 DEF Next

\* A grant the provider honours is one it handed out, and it hands out new ones.
LEMMA GrantsStep ==
    ASSUME IInv, [Next]_vars
    PROVE  /\ Grants' /\ grants <= grants'
           /\ \A g \in live' : g \in live \/ g > grants
<1>0. Grants /\ MaxGrant \in Nat /\ grants \in Nat
  BY Numbers DEF IInv, Grants
<1>1. ASSUME NEW g, Spent(g)
      PROVE  /\ Grants' /\ grants <= grants'
             /\ \A h \in live' : h \in live \/ h > grants
  <2>1. CASE UNCHANGED provider
    BY <1>0, <2>1 DEF provider, Grants
  <2>2. CASE /\ grants < MaxGrant /\ grants' = grants + 1
             /\ live' = (live \ {g}) \cup {grants + 1}
    <3>1. /\ grants' \in 1 .. MaxGrant /\ grants + 1 \in 1 .. grants' /\ grants <= grants'
          /\ grants + 1 > grants /\ \A h \in 1 .. grants : h \in 1 .. grants'
      BY <1>0, <2>2
    <3>2. live' \subseteq 1 .. grants'
      BY <1>0, <2>2, <3>1 DEF Grants
    <3>3. \A h \in live' : h \in live \/ h > grants
      BY <2>2, <3>1
    <3> QED
      BY <3>1, <3>2, <3>3 DEF Grants
  <2> QED
    BY <1>1, <2>1, <2>2 DEF Spent
<1>2. ASSUME NEW d \in Device, Linked(d)
      PROVE  /\ Grants' /\ grants <= grants'
             /\ \A h \in live' : h \in live \/ h > grants
  BY <1>0, <1>2 DEF Linked, Grants
<1>3. CASE Withdraw
  BY <1>0, <1>3 DEF Withdraw, Grants
<1>4. CASE UNCHANGED provider
  BY <1>0, <1>4 DEF provider, Grants
<1>5. ASSUME NEW d \in Device, Keying(d) \/ Serving(d) \/ Trouble(d) \/ Linked(d) \/ GiveUp(d)
      PROVE  UNCHANGED provider \/ Linked(d) \/ \E g : Spent(g)
  <2>1. CASE Keying(d)
    BY <2>1 DEF Keying, Connect, Register, Fetch, Hand, Hear, Recheck, Idle, provider
  <2>2. CASE Serving(d)
    BY <2>2 DEF Serving, Claim, Read, Renew, Store, Settle, Reread, Refused, Say, Begin, Ended,
                provider
  <2>3. CASE Trouble(d)
    BY <2>3 DEF Trouble, NoKey, Skip, Drop, ClaimFails, RenewFails, StoreFails, SettleFails,
                SayFails, Hangs, Crash, Ended, provider
  <2>4. CASE Linked(d) \/ GiveUp(d)
    BY <2>4 DEF GiveUp
  <2> QED
    BY <1>5, <2>1, <2>2, <2>3, <2>4
<1>6. ASSUME NEW d \in Device, NEW e \in Device, Revoke(d, e)
      PROVE  UNCHANGED provider
  BY <1>6 DEF Revoke
<1>7. CASE First \/ Mint \/ List \/ Reseal \/ Rewrap \/ RotateFails \/ Post(Calls) \/ Post(Links)
           \/ Reset \/ UNCHANGED vars
  <2>1. UNCHANGED provider
    BY <1>7 DEF First, Mint, List, Reseal, Rewrap, RotateFails, Post, Reset, vars, provider
  <2> QED
    BY <1>4, <2>1
<1> QED
  BY <1>1, <1>2, <1>3, <1>4, <1>5, <1>6, <1>7 DEF Next

\* A rotation has the key it made, and the row it listed.
LEMMA RotationStep ==
    ASSUME IInv, [Next]_vars
    PROVE  Rotation'
<1>0. /\ Rotation /\ cmd \in CmdType /\ grants \in Nat /\ grants' \in Nat /\ grants <= grants'
      /\ keys \in Nat /\ MaxKey \in Nat /\ row \in RowType /\ row.grant <= grants
      /\ NoCmd \in CmdType /\ NoCmd.old = 0 /\ NoCmd.new = 0 /\ NoCmd.row.grant = 0
      /\ NoCmd.st = "none" /\ known \subseteq Device
  <2>1. Grants /\ Grants'
    BY GrantsStep DEF IInv
  <2> QED
    BY <2>1, GrantsStep, Numbers DEF IInv, Rotation, Grants, Keys, Sealed, Listeners
<1>1. CASE UNCHANGED <<cmd, keys>>
  BY <1>0, <1>1 DEF Rotation, CmdType, RowType
<1>2. ASSUME NEW d \in Device, Keying(d) \/ Serving(d) \/ Trouble(d) \/ Linked(d) \/ GiveUp(d)
      PROVE  UNCHANGED <<cmd, keys>>
  <2>1. CASE Keying(d)
    BY <2>1 DEF Keying, Connect, Register, Fetch, Hand, Hear, Recheck, Idle
  <2>2. CASE Serving(d)
    BY <2>2 DEF Serving, Claim, Read, Renew, Store, Settle, Reread, Refused, Say, Begin, Ended
  <2>3. CASE Trouble(d)
    BY <2>3 DEF Trouble, NoKey, Skip, Drop, ClaimFails, RenewFails, StoreFails, SettleFails,
                SayFails, Hangs, Crash, Ended
  <2>4. CASE Linked(d) \/ GiveUp(d)
    BY <2>4 DEF Linked, GiveUp
  <2> QED
    BY <1>2, <2>1, <2>2, <2>3, <2>4
<1>3. ASSUME NEW d \in Device, NEW e \in Device, Revoke(d, e)
      PROVE  Rotation'
  <2>1. wrapped[d] \in Nat /\ wrapped[d] <= keys
    BY <1>0 DEF IInv, Keys
  <2>2. cmd' \in CmdType
    BY <1>0, <1>3, <2>1 DEF Revoke, CmdType
  <2>3. cmd'.old = wrapped[d] /\ cmd'.new = 0 /\ cmd'.row = row /\ keys' = keys /\ keys < MaxKey
    BY <1>0, <1>3 DEF Revoke, CmdType
  <2> QED
    BY <1>0, <2>1, <2>2, <2>3 DEF Rotation, RowType
<1>4. CASE First \/ Mint
  <2>1. cmd' \in CmdType /\ cmd'.old = 0 /\ cmd'.new = 0 /\ cmd'.row.grant = 0
    BY <1>0, <1>4 DEF First, Mint, CmdType
  <2>2. keys' \in Nat /\ (cmd'.st \in {"mint", "list"} => keys' < MaxKey)
    <3>1. CASE First
      BY <1>0, <3>1 DEF First
    <3>2. CASE Mint
      BY <1>0, <3>2 DEF Mint
    <3> QED
      BY <1>4, <3>1, <3>2
  <2> QED
    BY <1>0, <2>1, <2>2 DEF Rotation
<1>5. CASE List
  <2>1. /\ cmd' \in CmdType /\ cmd'.st = "reseal" /\ cmd'.new = keys + 1
        /\ cmd'.old = cmd.old /\ cmd'.row = cmd.row
    <3>1. {d \in known : wrapped[d] # 0} \in SUBSET Device /\ keys + 1 \in Nat
      BY <1>0
    <3> QED
      BY <1>0, <1>5, <3>1 DEF List, CmdType
  <2>2. keys' = keys + 1
    BY <1>5 DEF List
  <2> QED
    BY <1>0, <2>1, <2>2 DEF Rotation, CmdType, RowType
<1>6. CASE Reseal \/ RotateFails
  <2>1. /\ cmd' \in CmdType /\ cmd'.st \notin {"mint", "list"} /\ cmd'.new = cmd.new
        /\ cmd'.old = cmd.old /\ cmd'.row = cmd.row /\ keys' = keys
    BY <1>0, <1>6 DEF Reseal, RotateFails, CmdType
  <2> QED
    BY <1>0, <2>1 DEF Rotation, CmdType, RowType
<1>7. CASE Rewrap
  <2>1. cmd' = NoCmd \/ \E d \in cmd.left : cmd' = [cmd EXCEPT !.left = @ \ {d}]
    BY <1>7 DEF Rewrap
  <2>2. cmd' \in CmdType /\ keys' = keys
    BY <1>0, <1>7, <2>1 DEF Rewrap, CmdType
  <2> QED
    BY <1>0, <1>7, <2>1, <2>2 DEF Rewrap, Rotation, CmdType, RowType
<1>8. CASE Post(Calls) \/ Post(Links) \/ Withdraw \/ Reset \/ UNCHANGED vars
  <2>1. UNCHANGED <<cmd, keys>>
    BY <1>8 DEF Post, Withdraw, Reset, vars
  <2> QED
    BY <1>1, <2>1
<1> QED
  BY <1>1, <1>2, <1>3, <1>4, <1>5, <1>6, <1>7, <1>8 DEF Next

\* What is marked has a grant that is dead.
DeadIfMarked == row'.mark => row'.grant <= grants /\ row'.grant \notin live

\* The row is gone, or what it was, or a new version of it; it names its key, and is
\* marked only if its grant is dead.
LEMMA RowStep ==
    ASSUME IInv, [Next]_vars
    PROVE  /\ Sealed' /\ writes <= writes' /\ DeadIfMarked
           /\ \/ row' = NoRow
              \/ row # NoRow /\ row'.ver = row.ver /\ row'.grant = row.grant
              \/ row'.ver > writes
<1>0. /\ Sealed /\ row \in RowType /\ writes \in Nat /\ grants \in Nat /\ grants' \in Nat
      /\ grants <= grants' /\ NoRow \in RowType /\ NoRow.key = NoRow.id /\ NoRow.grant = 0
      /\ NoRow.ver = 0
  <2>1. Grants /\ Grants'
    BY GrantsStep DEF IInv
  <2> QED
    BY <2>1, GrantsStep, Numbers DEF IInv, Grants, Sealed
<1>1. ASSUME NEW key \in Nat, NEW grant \in Nat, grant <= grants', Written(key, key, grant)
      PROVE  Sealed' /\ writes <= writes' /\ row'.ver > writes /\ DeadIfMarked
  <2>1. /\ row' \in RowType /\ writes' = writes + 1 /\ writes' \in Nat
        /\ row'.key = key /\ row'.id = key /\ row'.grant = grant /\ row'.ver = writes'
        /\ row'.mark = FALSE
    BY <1>0, <1>1, Writes
  <2> QED
    BY <1>0, <1>1, <2>1 DEF Sealed, DeadIfMarked
<1>2. CASE UNCHANGED <<row, writes>>
  <2>1. MarkIsTrue
    BY DEF IInv
  <2> QED
    BY <1>0, <1>2, <2>1 DEF Sealed, RowType, MarkIsTrue, DeadIfMarked
<1>3. ASSUME NEW d \in Device, Keying(d) \/ Serving(d) \/ Trouble(d) \/ Linked(d) \/ GiveUp(d)
      PROVE  UNCHANGED <<row, writes>> \/ Store(d) \/ Settle(d) \/ Linked(d)
  <2>1. CASE Keying(d)
    BY <2>1 DEF Keying, Connect, Register, Fetch, Hand, Hear, Recheck, Idle, server
  <2>2. CASE Serving(d)
    BY <2>2 DEF Serving, Claim, Read, Renew, Reread, Refused, Say, Begin, Ended, server
  <2>3. CASE Trouble(d)
    BY <2>3 DEF Trouble, NoKey, Skip, Drop, ClaimFails, RenewFails, StoreFails, SettleFails,
                SayFails, Hangs, Crash, Ended, server
  <2>4. CASE Linked(d) \/ GiveUp(d)
    BY <2>4 DEF GiveUp, server
  <2> QED
    BY <1>3, <2>1, <2>2, <2>3, <2>4
<1>4. ASSUME NEW d \in Device, Store(d)
      PROVE  Sealed' /\ writes <= writes' /\ row'.ver > writes /\ DeadIfMarked
  <2>1. rt[d] \in Nat /\ got[d] \in Nat /\ got[d] <= grants /\ saw[d].id = rt[d]
    BY <1>4 DEF IInv, Keys, Opened, Fits, InHand, Store
  <2> QED
    BY <1>0, <1>1, <1>4, <2>1 DEF Store
<1>5. ASSUME NEW d \in Device, Settle(d)
      PROVE  /\ Sealed' /\ writes <= writes' /\ DeadIfMarked
             /\ UNCHANGED row \/ (row # NoRow /\ row'.ver = row.ver /\ row'.grant = row.grant)
  <2>1. CASE UNCHANGED row
    BY <1>0, <1>2, <1>5, <2>1 DEF Settle
  <2>2. CASE row # NoRow /\ row' = [row EXCEPT !.mark = TRUE]
    <3>1. /\ row' \in RowType /\ row'.key = row.key /\ row'.id = row.id
          /\ row'.grant = row.grant /\ row'.ver = row.ver /\ writes' = writes
      BY <1>0, <1>5, <2>2 DEF RowType, Settle
    <3>2. CASE row.ver = saw[d].ver
      <4>1. row.grant = saw[d].grant /\ saw[d].grant \notin live
        BY <1>5, <2>2, <3>2 DEF IInv, Opened, Fits, Settle
      <4> QED
        BY <1>0, <2>2, <3>1, <4>1 DEF Sealed, RowType, DeadIfMarked
    <3>3. CASE row.ver # saw[d].ver
      <4>1. UNCHANGED row
        BY <1>5, <3>3 DEF Settle
      <4> QED
        BY <1>0, <1>2, <1>5, <4>1 DEF Settle
    <3> QED
      BY <3>2, <3>3
  <2> QED
    BY <1>5, <2>1, <2>2 DEF Settle
<1>6. ASSUME NEW d \in Device, Linked(d)
      PROVE  Sealed' /\ writes <= writes' /\ row'.ver > writes /\ DeadIfMarked
  <2>1. consent[d] \in Nat
    BY DEF IInv, Keys
  <2> QED
    BY <1>0, <1>1, <1>6, <2>1 DEF Linked
<1>7. CASE Reseal
  <2>1. cmd.new \in Nat /\ cmd.row.grant \in Nat /\ cmd.row.grant <= grants
    BY DEF IInv, Rotation, CmdType, RowType
  <2> QED
    BY <1>0, <1>1, <1>2, <1>7, <2>1 DEF Reseal
<1>8. CASE Reset
  BY <1>0, <1>8, Numbers DEF Reset, Sealed, DeadIfMarked
<1>9. CASE (\E d, e \in Device : Revoke(d, e)) \/ First \/ Mint \/ List \/ Rewrap \/ RotateFails
           \/ Post(Calls) \/ Post(Links) \/ Withdraw \/ UNCHANGED vars
  <2>1. UNCHANGED <<row, writes>>
    BY <1>9 DEF Revoke, First, Mint, List, Rewrap, RotateFails, Post, Withdraw, vars, server
  <2> QED
    BY <1>2, <2>1
<1> QED
  BY <1>0, <1>2, <1>3, <1>4, <1>5, <1>6, <1>7, <1>8, <1>9 DEF Next

\* A device whose own part of a step leaves its call alone is served as before.
LEMMA OthersFit ==
    ASSUME IInv, [Next]_vars, NEW d \in Device,
           saw'[d] = saw[d] /\ got'[d] = got[d],
           (at'[d] = at[d] /\ rt'[d] = rt[d]) \/ at'[d] \notin InHand
    PROVE  Fits(d)'
<1>1. /\ saw[d].grant \in Nat /\ saw[d].ver \in Nat /\ got[d] \in Nat /\ Fits(d)
  BY DEF IInv, Opened, SawType
<1>2. /\ grants \in Nat /\ grants' \in Nat /\ grants <= grants'
      /\ \A g \in live' : g \in live \/ g > grants
  BY GrantsStep DEF IInv, Grants
<1>3. writes \in Nat /\ writes' \in Nat /\ writes <= writes' /\ row.ver \in Nat /\ row'.ver \in Nat
  BY RowStep DEF IInv, Sealed, RowType
<1>4. row' # NoRow /\ saw[d].ver = row'.ver => saw[d].grant = row'.grant
  BY <1>1, <1>3, RowStep DEF Fits
<1>5. at'[d] = "refused" => saw[d].grant \notin live'
  BY <1>1, <1>2 DEF Fits, InHand
<1>6. saw[d].grant <= grants' /\ got[d] <= grants' /\ saw[d].ver <= writes'
  BY <1>1, <1>2, <1>3 DEF Fits
<1>7. at'[d] \in InHand => saw[d].id = rt'[d]
  BY <1>1 DEF Fits
<1> QED
  BY <1>4, <1>5, <1>6, <1>7 DEF Fits

\* A device that puts its call down has nothing to fit.
LEMMA PutDown ==
    ASSUME IInv, [Next]_vars, NEW d \in Device,
           saw'[d] = Unseen, got'[d] <= grants', at'[d] \notin InHand
    PROVE  Fits(d)'
<1>1. /\ grants' \in Nat /\ writes' \in Nat /\ row'.ver \in Nat /\ (row' = NoRow \/ row'.ver > 0)
  BY GrantsStep, RowStep DEF Grants, Sealed, RowType
<1>2. Unseen.grant = 0 /\ Unseen.ver = 0
  BY Numbers
<1> QED
  BY <1>1, <1>2 DEF Fits, InHand

\* The steps that leave every call alone.
LEMMA CallsRest ==
    ASSUME IInv, [Next]_vars, UNCHANGED <<saw, got>>,
           \A e \in Device : (at'[e] = at[e] /\ rt'[e] = rt[e]) \/ at'[e] \notin InHand
    PROVE  Opened'
  BY OthersFit DEF IInv, Opened

\* A call in a device's hands fits the row after each step of the device.
LEMMA ServingFits ==
    ASSUME IInv, [Next]_vars, NEW d \in Device,
           Read(d) \/ Renew(d) \/ Store(d) \/ Settle(d) \/ Reread(d) \/ Refused(d) \/ RenewFails(d)
           \/ StoreFails(d) \/ SettleFails(d)
    PROVE  /\ saw'[d] \in SawType /\ got'[d] \in Nat /\ Fits(d)'
           /\ saw' \in [Device -> SawType] /\ got' \in [Device -> Nat]
           /\ rt' = rt /\ \A e \in Device \ {d} : /\ saw'[e] = saw[e] /\ got'[e] = got[e]
                                                  /\ at'[e] = at[e]
<1>1. /\ saw \in [Device -> SawType] /\ got \in [Device -> Nat] /\ at \in [Device -> States]
      /\ saw[d] \in SawType /\ got[d] \in Nat /\ Fits(d)
      /\ saw[d].grant \in Nat /\ saw[d].ver \in Nat /\ saw[d].id \in Nat
  BY DEF IInv, Opened, Listeners, SawType
<1>2. /\ grants \in Nat /\ grants' \in Nat /\ grants <= grants'
      /\ \A g \in live : g \in Nat
      /\ Unseen \in SawType /\ Unseen.grant = 0 /\ Unseen.ver = 0
  BY GrantsStep, Numbers DEF IInv, Grants
<1>3. /\ writes \in Nat /\ writes' \in Nat /\ writes <= writes' /\ row \in RowType
      /\ row.ver \in Nat /\ row.id \in Nat /\ row.grant \in Nat /\ row.key = row.id
      /\ row.grant <= grants /\ row.ver <= writes
  BY RowStep DEF IInv, Sealed, RowType
<1>4. rt \in [Device -> 0 .. keys]
  BY DEF IInv, Keys
<1>5. CASE Read(d) \/ Reread(d) \/ SettleFails(d)
  <2>1. CASE Read(d) /\ Opens(d) /\ Saw(d, row) /\ at'[d] \in {"renew", "use"}
    <3>1. saw'[d] = [id |-> row.id, grant |-> row.grant, ver |-> row.ver] /\ row.id = rt[d]
      BY <1>1, <1>3, <2>1 DEF Saw, Opens
    <3>2. UNCHANGED <<row, writes, grants, live, got, rt>>
      BY <2>1 DEF Read, server, provider
    <3>3. Fits(d)'
      BY <1>1, <1>2, <1>3, <2>1, <3>1, <3>2 DEF Fits, InHand
    <3> QED
      BY <1>1, <1>3, <2>1, <3>1, <3>2, <3>3 DEF Saw, SawType, Read, Go
  <2>2. CASE Ends(d)
    <3>1. saw'[d] = Unseen /\ got' = got /\ at'[d] = "say" /\ rt' = rt
      BY <1>1, <1>5, <2>2 DEF Ends, Go, Read, Reread, SettleFails
    <3>2. Fits(d)'
      BY <1>1, <1>2, <3>1, PutDown DEF Fits, InHand
    <3> QED
      BY <1>1, <1>2, <2>2, <3>1, <3>2 DEF Ends, Go
  <2>3. CASE Reread(d) /\ Opens(d) /\ at'[d] = "use" /\ saw' = [saw EXCEPT ![d].grant = row.grant]
    <3>1. /\ saw'[d].grant = row.grant /\ saw'[d].id = saw[d].id /\ saw'[d].ver = saw[d].ver
          /\ saw'[d] \in SawType /\ saw' \in [Device -> SawType]
      BY <1>1, <1>3, <2>3 DEF SawType
    <3>2. UNCHANGED <<row, writes, grants, live, got, rt>> /\ at[d] = "reread"
      BY <2>3 DEF Reread, server, provider
    <3>3. Fits(d)'
      BY <1>1, <1>2, <1>3, <2>3, <3>1, <3>2 DEF Fits, InHand
    <3> QED
      BY <1>1, <2>3, <3>1, <3>2, <3>3 DEF Reread, Go
  <2> QED
    BY <1>1, <1>5, <2>1, <2>2, <2>3 DEF Read, Reread, SettleFails, Go
<1>6. CASE Renew(d)
  <2>1. saw' = saw /\ rt' = rt /\ at[d] = "renew" /\ UNCHANGED <<row, writes>>
    BY <1>6 DEF Renew, server
  <2>2. CASE at'[d] = "store" /\ got' = [got EXCEPT ![d] = IF grants' = grants THEN saw[d].grant ELSE grants']
    <3>1. got'[d] \in Nat /\ got'[d] <= grants' /\ got' \in [Device -> Nat]
      BY <1>1, <1>2, <2>2 DEF Fits
    <3>2. Fits(d)'
      BY <1>1, <1>2, <2>1, <2>2, <3>1 DEF Fits, InHand
    <3> QED
      BY <1>1, <1>6, <2>1, <2>2, <3>1, <3>2 DEF Renew, Go
  <2>3. CASE at'[d] = "refused" /\ saw[d].grant \notin live /\ UNCHANGED <<live, grants, got>>
    <3>1. Fits(d)'
      BY <1>1, <2>1, <2>3 DEF Fits, InHand
    <3> QED
      BY <1>1, <1>6, <2>1, <2>3, <3>1 DEF Renew, Go
  <2> QED
    BY <1>1, <1>6, <2>2, <2>3 DEF Renew, Go, provider
<1>7. CASE Store(d)
  <2>1. /\ saw' = [saw EXCEPT ![d].grant = got[d]] /\ got' = [got EXCEPT ![d] = 0] /\ rt' = rt
        /\ at' = [at EXCEPT ![d] = "use"] /\ at[d] = "store" /\ UNCHANGED <<live, grants>>
        /\ row'.ver = writes + 1
    BY <1>7 DEF Store, Go, Written, Row, provider
  <2>2. /\ saw'[d].grant = got[d] /\ saw'[d].id = saw[d].id /\ saw'[d].ver = saw[d].ver
        /\ saw'[d] \in SawType /\ saw' \in [Device -> SawType]
    BY <1>1, <2>1 DEF SawType
  <2>3. got'[d] = 0 /\ got' \in [Device -> Nat] /\ at'[d] = "use"
    BY <1>1, <2>1
  <2>4. Fits(d)'
    BY <1>1, <1>2, <1>3, <2>1, <2>2, <2>3 DEF Fits, InHand
  <2> QED
    BY <1>1, <2>1, <2>2, <2>3, <2>4
<1>8. CASE Settle(d)
  <2>1. /\ got' = got /\ rt' = rt /\ at[d] = "refused"
        /\ \/ at'[d] = "reread" /\ UNCHANGED <<row, saw>>
           \/ at'[d] = "say" /\ saw'[d] = Unseen
    BY <1>1, <1>8 DEF Settle, Ends, Go
  <2>2. Fits(d)'
    <3>1. CASE at'[d] = "reread" /\ UNCHANGED <<row, saw>>
      BY <1>1, <1>2, <1>3, <2>1, <3>1 DEF Fits, InHand
    <3>2. CASE at'[d] = "say" /\ saw'[d] = Unseen
      BY <1>1, <1>2, <2>1, <3>2, PutDown DEF Fits, InHand
    <3> QED
      BY <2>1, <3>1, <3>2
  <2> QED
    BY <1>1, <1>2, <1>8, <2>1, <2>2 DEF Settle, Ends, Go
<1>9. CASE Refused(d)
  <2>1. /\ UNCHANGED <<saw, got, rt, row, writes, live, grants>> /\ at'[d] = "renew"
        /\ at[d] = "use"
    BY <1>1, <1>9 DEF Refused, Go, server, provider
  <2>2. Fits(d)'
    BY <1>1, <2>1 DEF Fits, InHand
  <2> QED
    BY <1>1, <1>9, <2>1, <2>2 DEF Refused, Go
<1>10. CASE RenewFails(d) \/ StoreFails(d)
  <2>1. /\ rt' = rt /\ got' \in [Device -> Nat] /\ got'[d] <= grants'
        /\ at[d] \in {"renew", "store"} /\ Failed(d) /\ UNCHANGED <<row, writes>>
        /\ \A e \in Device \ {d} : got'[e] = got[e]
    BY <1>1, <1>2, <1>10 DEF RenewFails, StoreFails, Fits, server
  <2>2. CASE at' = [at EXCEPT ![d] = "use"] /\ UNCHANGED saw
    <3>1. Fits(d)'
      BY <1>1, <1>2, <1>3, <2>1, <2>2 DEF Fits, InHand
    <3> QED
      BY <1>1, <2>1, <2>2, <3>1
  <2>3. CASE Ends(d)
    <3>1. saw'[d] = Unseen /\ at'[d] = "say"
      BY <1>1, <2>3 DEF Ends, Go
    <3>2. Fits(d)'
      BY <2>1, <3>1, PutDown DEF InHand
    <3> QED
      BY <1>1, <1>2, <2>1, <2>3, <3>1, <3>2 DEF Ends, Go
  <2> QED
    BY <2>1, <2>2, <2>3 DEF Failed, Go
<1> QED
  BY <1>5, <1>6, <1>7, <1>8, <1>9, <1>10

\* So every call fits the row it read, after each step.
LEMMA OpenedStep ==
    ASSUME IInv, [Next]_vars
    PROVE  Opened'
<1>0. /\ at \in [Device -> States] /\ rt \in [Device -> 0 .. keys]
      /\ saw \in [Device -> SawType] /\ got \in [Device -> Nat]
      /\ Unseen \in SawType /\ grants' \in Nat
  BY Numbers, GrantsStep DEF IInv, Listeners, Keys, Opened, Grants
<1>1. ASSUME NEW d \in Device,
             Read(d) \/ Renew(d) \/ Store(d) \/ Settle(d) \/ Reread(d) \/ Refused(d)
             \/ RenewFails(d) \/ StoreFails(d) \/ SettleFails(d)
      PROVE  Opened'
  <2>1. \A e \in Device \ {d} : Fits(e)'
    BY <1>1, ServingFits, OthersFit
  <2> QED
    BY <1>1, <2>1, ServingFits DEF Opened
<1>2. ASSUME NEW d \in Device, Say(d) \/ SayFails(d) \/ Begin(d) \/ Crash(d)
      PROVE  Opened'
  <2>1. /\ saw' = [saw EXCEPT ![d] = Unseen] /\ got' \in [Device -> Nat]
        /\ at'[d] \notin InHand /\ (got'[d] = got[d] \/ got'[d] = 0)
        /\ \A e \in Device \ {d} : got'[e] = got[e] /\ at'[e] = at[e] /\ rt'[e] = rt[e]
    <3>1. CASE Ended(d, "done") \/ Ended(d, "lost")
      BY <1>0, <3>1 DEF Ended, Go, InHand
    <3>2. CASE Crash(d)
      BY <1>0, <3>2 DEF Crash, Go, Keyed, InHand
    <3> QED
      BY <1>2, <3>1, <3>2 DEF Say, SayFails, Begin
  <2>2. got'[d] <= grants'
    BY <1>0, <2>1, GrantsStep DEF IInv, Opened, Fits, Grants
  <2>3. Fits(d)'
    BY <1>0, <2>1, <2>2, PutDown
  <2>4. \A e \in Device \ {d} : Fits(e)'
    BY <1>0, <2>1, OthersFit
  <2> QED
    BY <1>0, <2>1, <2>3, <2>4 DEF Opened
<1>3. ASSUME NEW d \in Device,
             Keying(d) \/ Claim(d) \/ NoKey(d) \/ ClaimFails(d) \/ Hangs(d)
      PROVE  Opened'
  <2>1. UNCHANGED <<saw, got>>
    BY <1>3 DEF Keying, Connect, Register, Fetch, Hand, Hear, Recheck, Idle, Claim, NoKey,
                ClaimFails, Hangs, serving
  <2>2. at'[d] \notin InHand /\ \A e \in Device \ {d} : at'[e] = at[e] /\ rt'[e] = rt[e]
    <3>1. CASE Connect(d) \/ Recheck(d) \/ Idle(d) \/ Claim(d) \/ ClaimFails(d) \/ Hangs(d)
      BY <1>0, <3>1 DEF Connect, Recheck, Idle, Claim, ClaimFails, Hangs, Go, Keyed, InHand
    <3>2. CASE Register(d)
      BY <1>0, <3>2 DEF Register, Locked, Unlocked, Answers, Go, Keyed, InHand
    <3>3. CASE Fetch(d) \/ NoKey(d)
      BY <1>0, <3>3 DEF Fetch, NoKey, Locked, Unlocked, Answers, Go, Keyed, InHand
    <3>4. CASE Hand(d)
      BY <1>0, <3>4 DEF Hand, Answers, Go, InHand
    <3>5. CASE Hear(d)
      BY <1>0, <3>5 DEF Hear, Go, Keyed, InHand
    <3> QED
      BY <1>3, <3>1, <3>2, <3>3, <3>4, <3>5 DEF Keying
  <2> QED
    BY <2>1, <2>2, CallsRest
<1>4. ASSUME NEW d \in Device, Skip(d) \/ Drop(d) \/ Linked(d) \/ GiveUp(d)
      PROVE  Opened'
  <2>1. UNCHANGED <<saw, got, at, rt>>
    BY <1>4 DEF Skip, Drop, Linked, GiveUp, listener, serving
  <2> QED
    BY <2>1, CallsRest
<1>5. CASE (\E d, e \in Device : Revoke(d, e)) \/ First \/ Mint \/ List \/ Reseal \/ Rewrap
           \/ RotateFails \/ Post(Calls) \/ Post(Links) \/ Withdraw \/ Reset \/ UNCHANGED vars
  <2>1. UNCHANGED <<saw, got, at, rt>>
    BY <1>5 DEF Revoke, First, Mint, List, Reseal, Rewrap, RotateFails, Post, Withdraw, Reset, vars,
                listener, serving
  <2> QED
    BY <2>1, CallsRest
<1> QED
  BY <1>1, <1>2, <1>3, <1>4, <1>5 DEF Next, Serving, Trouble

--------------------------------------------------------------------------------
\* The invariant is one.
LEMMA Inductive == IInv /\ [Next]_vars => IInv'
<1> SUFFICES ASSUME IInv, [Next]_vars PROVE IInv'
  OBVIOUS
<1>1. Sealed' /\ DeadIfMarked /\ Grants'
  BY RowStep, GrantsStep
<1>2. MarkIsTrue'
  <2>1. row'.grant \in Nat /\ grants \in Nat /\ \A g \in live' : g \in live \/ g > grants
    BY <1>1, GrantsStep DEF IInv, Grants, Sealed, RowType
  <2> QED
    BY <1>1, <2>1 DEF DeadIfMarked, MarkIsTrue
<1> QED
  BY <1>1, <1>2, KeysStep, ListenersStep, RotationStep, OpenedStep DEF IInv

\* The invariant holds of every state.
THEOREM Invariant == Spec => []IInv
BY Initially, Inductive, PTL DEF Spec

\* Every variable keeps its type, every key and grant is one there was, and the row's
\* `key_id` is the key that seals it.
THEOREM Typed == Spec => []TypeOK
<1>1. IInv => TypeOK
  <2> SUFFICES ASSUME IInv PROVE TypeOK
    OBVIOUS
  <2>1. /\ row.ver \in 0 .. writes /\ row.grant \in 0 .. grants /\ row.mark \in BOOLEAN
        /\ row.key = row.id
    BY DEF IInv, Sealed, Grants, RowType
  <2>2. cmd.st \in {"none", "mint", "list", "reseal", "rewrap", "stopped"}
    BY DEF IInv, Rotation, CmdType
  <2> QED
    BY <2>1, <2>2 DEF IInv, Keys, Listeners, Grants, TypeOK
<1> QED
  BY <1>1, Invariant, PTL

\* A connection is marked only when the grant in it is dead.
THEOREM MarksAreTrue == Spec => []MarkIsTrue
<1>1. IInv => MarkIsTrue
  BY DEF IInv
<1> QED
  BY <1>1, Invariant, PTL
================================================================================
