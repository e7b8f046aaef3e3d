------------------------ MODULE ControlUpdateProofs ------------------------
(***************************************************************************)
(* For any set of requests and any number of supervisors in turn, and any  *)
(* of them killed at any step: Control keeps the promise of ControlPromise *)
(* and carries a request out at most once.                                 *)
(***************************************************************************)
EXTENDS Control, Update, TLAPS

\* A request that was taken: its file says so, or an answer to it was written.
Known(r) == file[r] = "taken" \/ said[r] # {}

\* Nothing has happened to a request that is not there (yet), or still waits.
Untouched ==
    \A r \in Request :
        /\ asker[r] \in {"idle", "placing", "untaken"} =>
               file[r] = "absent" /\ done[r] = 0 /\ said[r] = {}
        /\ file[r] = "request" => done[r] = 0 /\ said[r] = {}
        /\ answer[r] # "none" => said[r] # {}

\* What a supervisor has in hand was taken; what its pass has still to come to
\* has not been acted on, and what it is about to say is true.
InHand ==
    \A s \in Supervisor :
        /\ phase[s] \notin {"pass", "recover", "sweep"} => cur[s] = None /\ queue[s] = {}
        /\ phase[s] \in {"recover", "sweep"} =>
               /\ queue[s] = {} /\ verdict[s] \in {"none", "interrupted", "said"}
               /\ \A r \in walk[s] : Known(r)
        /\ cur[s] = None <=> verdict[s] = "none"
        /\ verdict[s] = "interrupted" => phase[s] # "pass"
        /\ \A r \in queue[s] : Known(r) /\ done[r] = 0 /\ said[r] \cap Refused = {}
        /\ cur[s] # None =>
               /\ Known(cur[s])
               /\ verdict[s] = "due" => done[cur[s]] = 0 /\ said[cur[s]] \cap Refused = {}
               /\ verdict[s] \in Refused => done[cur[s]] = 0
               /\ verdict[s] \in Performed => done[cur[s]] = 1
               /\ verdict[s] = "said" => said[cur[s]] # {}

\* A pass has yet to act on the request, or to say what came of it.
Holds(s, r) ==
    \/ r \in queue[s]
    \/ cur[s] = r /\ verdict[s] \in {"due"} \cup Performed \cup Refused

\* Taking is a rename: no two supervisors hold the same request, and a pass
\* does not come to it twice.
OneHolder ==
    \A r \in Request : \A s \in Supervisor :
        /\ r \in queue[s] => cur[s] # r
        /\ \A t \in Supervisor : Holds(s, r) /\ Holds(t, r) => s = t

\* The inductive invariant.
IInv ==
    /\ TypeOK /\ CarriedOutOnce
    /\ Untouched /\ InHand /\ OneHolder

-----------------------------------------------------------------------------
\* Every step keeps the variables' types.
LEMMA TypeStep ==
    ASSUME IInv, [Next]_vars
    PROVE  TypeOK'
<1> USE ControlAssumption
        DEF IInv, TypeOK, Codes, Performed, Refused, commands, directory, pass,
            history
<1>1. CASE Tick
  BY <1>1 DEF Tick
<1>2. ASSUME NEW r \in Request, Ask(r) PROVE TypeOK'
  <2>1. CASE Write(r)
    BY <2>1 DEF Write
  <2>2. CASE Place(r)
    BY <2>2 DEF Place
  <2>3. CASE SeeTaken(r)
    BY <2>3 DEF SeeTaken
  <2>4. CASE Withdraw(r)
    BY <2>4 DEF Withdraw
  <2>5. CASE Hear(r)
    BY <2>5 DEF Hear
  <2>6. CASE Collect(r)
    BY <2>6 DEF Collect
  <2>7. CASE StopWaiting(r)
    BY <2>7 DEF StopWaiting
  <2> QED
    BY <1>2, <2>1, <2>2, <2>3, <2>4, <2>5, <2>6, <2>7 DEF Ask
<1>3. ASSUME NEW s \in Supervisor, Serve(s) \/ Life(s) PROVE TypeOK'
  <2>0. CASE Wake(s)
    BY <2>0 DEF Wake
  <2>1. CASE BeginPass(s)
    BY <2>1 DEF BeginPass, Taken, Waiting
  <2>2. CASE CarryOut(s)
    <3>1. verdict' \in [Supervisor -> Codes \cup {"none", "due", "said"}]
      BY <2>2 DEF CarryOut
    <3>2. cur[s] \in Request
      BY <2>2 DEF CarryOut, InHand
    <3>3. done' \in [Request -> Nat]
      BY <2>2, <3>2 DEF CarryOut
    <3> QED
      BY <2>2, <3>1, <3>3 DEF CarryOut
  <2>3. CASE Answer(s)
    BY <2>3 DEF Answer
  <2>4. CASE Forget(s)
    BY <2>4 DEF Forget, Taken, Waiting
  <2>5. CASE EndPass(s)
    BY <2>5 DEF EndPass, Taken, Waiting
  <2>6. CASE Recovered(s)
    BY <2>6 DEF Recovered
  <2>7. CASE EndSweep(s)
    BY <2>7 DEF EndSweep
  <2>8. CASE Start(s)
    BY <2>8 DEF Start, Taken, Waiting
  <2>9. CASE MoveOn(s)
    BY <2>9 DEF MoveOn
  <2>10. CASE StayOn(s)
    BY <2>10 DEF StayOn
  <2>11. CASE End(s)
    BY <2>11 DEF End
  <2>12. CASE Panic(s)
    BY <2>12 DEF Panic
  <2>13. ASSUME NEW r \in Request, Take(s, r) PROVE TypeOK'
    <3>1. walk' = [walk EXCEPT ![s] = @ \ {r}]
          /\ UNCHANGED <<clock, commands, answer, answerAt, phase, serving, now, cur, verdict,
                        history>>
      BY <2>13 DEF Take
    <3>2. walk' \in [Supervisor -> SUBSET Request]
      BY <3>1
    <3>3. CASE UNCHANGED <<file, queue>>
      BY <3>1, <3>2, <3>3
    <3>4. CASE /\ file' = [file EXCEPT ![r] = "taken"]
               /\ queue' = [queue EXCEPT ![s] = @ \cup {r}]
      <4>1. /\ file' \in [Request -> {"absent", "request", "taken"}]
            /\ queue' \in [Supervisor -> SUBSET Request]
        BY <3>4
      <4> QED
        BY <3>1, <3>2, <4>1
    <3> QED
      BY <2>13, <3>3, <3>4 DEF Take
  <2>14. ASSUME NEW r \in Request, Read(s, r) PROVE TypeOK'
    BY <2>14 DEF Read
  <2>15. ASSUME NEW r \in Request, Abandon(s, r) PROVE TypeOK'
    <3>1. walk' = [walk EXCEPT ![s] = @ \ {r}]
          /\ UNCHANGED <<clock, commands, directory, phase, serving, now, queue, history>>
      BY <2>15 DEF Abandon
    <3>2. PICK v \in {"interrupted", "said"} :
            \/ cur' = [cur EXCEPT ![s] = r] /\ verdict' = [verdict EXCEPT ![s] = v]
            \/ UNCHANGED <<cur, verdict>>
      BY <2>15 DEF Abandon
    <3> QED
      BY <3>1, <3>2
  <2> QED
    BY <1>3, <2>0, <2>1, <2>2, <2>3, <2>4, <2>5, <2>6, <2>7, <2>8,
       <2>9, <2>10, <2>11, <2>12, <2>13, <2>14, <2>15 DEF Serve, Life
<1>4. CASE UNCHANGED vars
  BY <1>4 DEF vars
<1> QED
  BY <1>1, <1>2, <1>3, <1>4 DEF Next

\* A withdrawn or unasked request stays as it is.
LEMMA UntouchedStep ==
    ASSUME IInv, [Next]_vars
    PROVE  Untouched'
<1> USE ControlAssumption
        DEF IInv, Untouched, InHand, Known, TypeOK, commands, directory, pass,
            history
<1>1. CASE Tick
  BY <1>1 DEF Tick
<1>2. ASSUME NEW r \in Request, Ask(r) PROVE Untouched'
  <2>1. CASE Write(r)
    BY <2>1 DEF Write
  <2>2. CASE Place(r)
    BY <2>2 DEF Place
  <2>3. CASE SeeTaken(r)
    BY <2>3 DEF SeeTaken
  <2>4. CASE Withdraw(r)
    BY <2>4 DEF Withdraw
  <2>5. CASE Hear(r)
    BY <2>5 DEF Hear
  <2>6. CASE Collect(r)
    BY <2>6 DEF Collect
  <2>7. CASE StopWaiting(r)
    BY <2>7 DEF StopWaiting
  <2> QED
    BY <1>2, <2>1, <2>2, <2>3, <2>4, <2>5, <2>6, <2>7 DEF Ask
<1>3. ASSUME NEW s \in Supervisor, Serve(s) \/ Life(s) PROVE Untouched'
  <2>0. CASE Wake(s)
    BY <2>0 DEF Wake
  <2>1. CASE BeginPass(s)
    BY <2>1 DEF BeginPass
  <2>2. CASE CarryOut(s)
    BY <2>2 DEF CarryOut
  <2>3. CASE Answer(s)
    <3>1. /\ cur[s] \in Request /\ Known(cur[s]) /\ verdict[s] \in Codes
          /\ UNCHANGED <<asker, file, done>>
          /\ answer' = [answer EXCEPT ![cur[s]] = verdict[s]]
          /\ said' = [said EXCEPT ![cur[s]] = @ \cup {verdict[s]}]
      BY <2>3 DEF Answer, Codes, Performed, Refused
    <3>2. /\ asker[cur[s]] \notin {"idle", "placing", "untaken"}
          /\ file[cur[s]] # "request"
      BY <3>1
    <3> SUFFICES ASSUME NEW r \in Request
                 PROVE  /\ asker[r] \in {"idle", "placing", "untaken"} =>
                               file[r] = "absent" /\ done[r] = 0 /\ said'[r] = {}
                        /\ file[r] = "request" => done[r] = 0 /\ said'[r] = {}
                        /\ answer'[r] # "none" => said'[r] # {}
      BY <3>1
    <3>3. CASE r = cur[s]
      BY <3>1, <3>2, <3>3
    <3>4. CASE r # cur[s]
      <4>1. said'[r] = said[r] /\ answer'[r] = answer[r]
        BY <3>1, <3>4
      <4> QED
        BY <4>1
    <3> QED
      BY <3>3, <3>4
  <2>4. CASE Forget(s)
    BY <2>4 DEF Forget
  <2>5. CASE EndPass(s)
    BY <2>5 DEF EndPass
  <2>6. CASE Recovered(s)
    BY <2>6 DEF Recovered
  <2>7. CASE EndSweep(s)
    BY <2>7 DEF EndSweep
  <2>8. CASE Start(s)
    BY <2>8 DEF Start
  <2>9. CASE MoveOn(s)
    BY <2>9 DEF MoveOn
  <2>10. CASE StayOn(s)
    BY <2>10 DEF StayOn
  <2>11. CASE End(s)
    BY <2>11 DEF End
  <2>12. CASE Panic(s)
    BY <2>12 DEF Panic
  <2>13. ASSUME NEW r \in Request, Take(s, r) PROVE Untouched'
    BY <2>13 DEF Take
  <2>14. ASSUME NEW r \in Request, Read(s, r) PROVE Untouched'
    BY <2>14 DEF Read
  <2>15. ASSUME NEW r \in Request, Abandon(s, r) PROVE Untouched'
    BY <2>15 DEF Abandon
  <2> QED
    BY <1>3, <2>0, <2>1, <2>2, <2>3, <2>4, <2>5, <2>6, <2>7, <2>8,
       <2>9, <2>10, <2>11, <2>12, <2>13, <2>14, <2>15 DEF Serve, Life
<1>4. CASE UNCHANGED vars
  BY <1>4 DEF vars
<1> QED
  BY <1>1, <1>2, <1>3, <1>4 DEF Next

\* What is in hand was taken, and is not acted on by another.
LEMMA InHandStep ==
    ASSUME IInv, [Next]_vars
    PROVE  InHand'
<1> USE ControlAssumption
        DEF IInv, Untouched, InHand, OneHolder, Holds, Known, CarriedOutOnce,
            TypeOK, Codes, Performed, Refused, commands, directory, pass,
            history
<1>1. CASE Tick
  BY <1>1 DEF Tick
<1>2. ASSUME NEW r \in Request, Ask(r) PROVE InHand'
  <2>1. CASE Write(r)
    BY <2>1 DEF Write
  <2>2. CASE Place(r)
    BY <2>2 DEF Place
  <2>3. CASE SeeTaken(r)
    BY <2>3 DEF SeeTaken
  <2>4. CASE Withdraw(r)
    BY <2>4 DEF Withdraw
  <2>5. CASE Hear(r)
    BY <2>5 DEF Hear
  <2>6. CASE Collect(r)
    BY <2>6 DEF Collect
  <2>7. CASE StopWaiting(r)
    BY <2>7 DEF StopWaiting
  <2> QED
    BY <1>2, <2>1, <2>2, <2>3, <2>4, <2>5, <2>6, <2>7 DEF Ask
<1>3. ASSUME NEW s \in Supervisor, Serve(s) \/ Life(s) PROVE InHand'
  <2>0. CASE Wake(s)
    BY <2>0 DEF Wake
  <2>1. CASE BeginPass(s)
    BY <2>1 DEF BeginPass, Taken, Waiting
  <2>2. CASE CarryOut(s)
    BY <2>2 DEF CarryOut
  <2>3. CASE Answer(s)
    <3> DEFINE c == cur[s]
    <3>1. /\ c \in Request /\ Known(c) /\ verdict[s] \in Codes
          /\ UNCHANGED <<file, phase, walk, queue, cur, done>>
          /\ verdict' = [verdict EXCEPT ![s] = "said"]
          /\ said' = [said EXCEPT ![c] = @ \cup {verdict[s]}]
      BY <2>3 DEF Answer
    <3>2. \A r \in Request : Known(r) => Known(r)'
      BY <3>1
    <3>3. \A t \in Supervisor : \A r \in queue[t] : said'[r] \cap Refused = {}
      BY <3>1
    <3>4. ASSUME NEW t \in Supervisor, verdict'[t] = "due"
          PROVE  t # s /\ verdict[t] = "due" /\ said'[cur[t]] \cap Refused = {}
      <4>1. t # s /\ verdict[t] = "due"
        BY <3>1, <3>4
      <4>2. cur[t] # None /\ cur[t] \in Request /\ said[cur[t]] \cap Refused = {}
        BY <4>1
      <4>3. CASE cur[t] = c
        <5>1. verdict[s] \notin Refused
          BY <4>1, <4>2, <4>3
        <5> QED
          BY <3>1, <4>1, <4>2, <4>3, <5>1
      <4>4. CASE cur[t] # c
        BY <3>1, <4>1, <4>2, <4>4
      <4> QED
        BY <4>3, <4>4
    <3>5. said'[c] # {}
      BY <3>1
    <3>6. \A t \in Supervisor : t # s => verdict'[t] = verdict[t]
      BY <3>1
    <3>7. verdict'[s] = "said" /\ c # None
      BY <3>1
    <3>8. \A r \in Request : said[r] # {} => said'[r] # {}
      BY <3>1
    <3>9. \A t \in Supervisor : /\ walk[t] \subseteq Request /\ queue[t] \subseteq Request
                               /\ cur[t] \in Request \cup {None}
      OBVIOUS
    <3>0. InHand
      OBVIOUS
    <3> HIDE DEF IInv, Known, Holds, OneHolder, CarriedOutOnce, Untouched, TypeOK, Codes, c
    <3> SUFFICES ASSUME NEW t \in Supervisor
                 PROVE  /\ phase[t] \notin {"pass", "recover", "sweep"} => cur[t] = None /\ queue[t] = {}
                        /\ phase[t] \in {"recover", "sweep"} =>
                               /\ queue[t] = {} /\ verdict'[t] \in {"none", "interrupted", "said"}
                               /\ \A r \in walk[t] : Known(r)'
                        /\ cur[t] = None <=> verdict'[t] = "none"
                        /\ verdict'[t] = "interrupted" => phase[t] # "pass"
                        /\ \A r \in queue[t] : Known(r)' /\ done[r] = 0 /\ said'[r] \cap Refused = {}
                        /\ cur[t] # None =>
                               /\ Known(cur[t])'
                               /\ verdict'[t] = "due" => done[cur[t]] = 0 /\ said'[cur[t]] \cap Refused = {}
                               /\ verdict'[t] \in Refused => done[cur[t]] = 0
                               /\ verdict'[t] \in Performed => done[cur[t]] = 1
                               /\ verdict'[t] = "said" => said'[cur[t]] # {}
      BY <3>1
    <3>10. \A r \in queue[t] : Known(r)' /\ done[r] = 0 /\ said'[r] \cap Refused = {}
      BY <3>0, <3>2, <3>3, <3>9
    <3>11. phase[t] \in {"recover", "sweep"} =>
              /\ queue[t] = {} /\ verdict[t] \in {"none", "interrupted", "said"}
              /\ \A r \in walk[t] : Known(r)'
      BY <3>0, <3>2, <3>9
    <3>12. cur[t] # None => Known(cur[t])'
      <4>1. cur'[t] = cur[t]
        BY <3>1
      <4>2. cur[t] # None => Known(cur[t])
        BY <3>0
      <4> QED
        BY <3>2, <3>9, <4>1, <4>2
    <3>13. CASE t = s
      BY <3>0, <3>5, <3>7, <3>10, <3>11, <3>12, <3>13 DEF c
    <3>14. CASE t # s
      <4>1. verdict'[t] = verdict[t]
        BY <3>6, <3>14
      <4>2. verdict[t] = "due" => said'[cur[t]] \cap Refused = {}
        BY <3>4, <4>1
      <4>3. cur[t] # None /\ verdict[t] = "said" => said'[cur[t]] # {}
        BY <3>0, <3>8, <3>9
      <4> QED
        BY <3>0, <3>10, <3>11, <3>12, <4>1, <4>2, <4>3
    <3> QED
      BY <3>13, <3>14
  <2>4. CASE Forget(s)
    BY <2>4 DEF Forget, Taken, Waiting
  <2>5. CASE EndPass(s)
    BY <2>5 DEF EndPass, Taken, Waiting
  <2>6. CASE Recovered(s)
    BY <2>6 DEF Recovered
  <2>7. CASE EndSweep(s)
    BY <2>7 DEF EndSweep
  <2>8. CASE Start(s)
    BY <2>8 DEF Start, Taken, Waiting
  <2>9. CASE MoveOn(s)
    BY <2>9 DEF MoveOn
  <2>10. CASE StayOn(s)
    BY <2>10 DEF StayOn
  <2>11. CASE End(s)
    BY <2>11 DEF End
  <2>12. CASE Panic(s)
    BY <2>12 DEF Panic
  <2>13. ASSUME NEW r \in Request, Take(s, r) PROVE InHand'
    <3>1. /\ phase[s] = "pass" /\ cur[s] = None /\ walk' = [walk EXCEPT ![s] = @ \ {r}]
          /\ UNCHANGED <<phase, cur, verdict, done, said>>
      BY <2>13 DEF Take
    <3>2. CASE UNCHANGED <<file, queue>>
      BY <3>1, <3>2
    <3>3. CASE /\ file[r] = "request"
               /\ file' = [file EXCEPT ![r] = "taken"]
               /\ queue' = [queue EXCEPT ![s] = @ \cup {r}]
      <4>1. \A x \in Request : Known(x) => Known(x)'
        BY <3>1, <3>3
      <4>2. Known(r)' /\ done[r] = 0 /\ said[r] = {}
        BY <3>1, <3>3
      <4> QED
        BY <3>1, <3>3, <4>1, <4>2
    <3> QED
      BY <2>13, <3>2, <3>3 DEF Take
  <2>14. ASSUME NEW r \in Request, Read(s, r) PROVE InHand'
    BY <2>14 DEF Read
  <2>15. ASSUME NEW r \in Request, Abandon(s, r) PROVE InHand'
    BY <2>15 DEF Abandon
  <2> QED
    BY <1>3, <2>0, <2>1, <2>2, <2>3, <2>4, <2>5, <2>6, <2>7, <2>8,
       <2>9, <2>10, <2>11, <2>12, <2>13, <2>14, <2>15 DEF Serve, Life
<1>4. CASE UNCHANGED vars
  BY <1>4 DEF vars
<1> QED
  BY <1>1, <1>2, <1>3, <1>4 DEF Next

\* A rename has one winner.
LEMMA OneHolderStep ==
    ASSUME IInv, [Next]_vars
    PROVE  OneHolder'
<1> USE ControlAssumption
        DEF IInv, Untouched, InHand, OneHolder, Holds, Known, TypeOK, Codes,
            Performed, Refused, commands, directory, pass, history
<1>1. CASE Tick
  BY <1>1 DEF Tick
<1>2. ASSUME NEW r \in Request, Ask(r) PROVE OneHolder'
  <2>1. CASE Write(r)
    BY <2>1 DEF Write
  <2>2. CASE Place(r)
    BY <2>2 DEF Place
  <2>3. CASE SeeTaken(r)
    BY <2>3 DEF SeeTaken
  <2>4. CASE Withdraw(r)
    BY <2>4 DEF Withdraw
  <2>5. CASE Hear(r)
    BY <2>5 DEF Hear
  <2>6. CASE Collect(r)
    BY <2>6 DEF Collect
  <2>7. CASE StopWaiting(r)
    BY <2>7 DEF StopWaiting
  <2> QED
    BY <1>2, <2>1, <2>2, <2>3, <2>4, <2>5, <2>6, <2>7 DEF Ask
<1>3. ASSUME NEW s \in Supervisor, Serve(s) \/ Life(s) PROVE OneHolder'
  <2>0. CASE Wake(s)
    BY <2>0 DEF Wake
  <2>1. CASE BeginPass(s)
    BY <2>1 DEF BeginPass
  <2>2. CASE CarryOut(s)
    BY <2>2 DEF CarryOut
  <2>3. CASE Answer(s)
    BY <2>3 DEF Answer
  <2>4. CASE Forget(s)
    BY <2>4 DEF Forget
  <2>5. CASE EndPass(s)
    BY <2>5 DEF EndPass
  <2>6. CASE Recovered(s)
    BY <2>6 DEF Recovered
  <2>7. CASE EndSweep(s)
    BY <2>7 DEF EndSweep
  <2>8. CASE Start(s)
    BY <2>8 DEF Start
  <2>9. CASE MoveOn(s)
    BY <2>9 DEF MoveOn
  <2>10. CASE StayOn(s)
    BY <2>10 DEF StayOn
  <2>11. CASE End(s)
    BY <2>11 DEF End
  <2>12. CASE Panic(s)
    BY <2>12 DEF Panic
  <2>13. ASSUME NEW r \in Request, Take(s, r) PROVE OneHolder'
    <3>1. /\ phase[s] = "pass" /\ cur[s] = None /\ UNCHANGED <<cur, verdict>>
      BY <2>13 DEF Take
    <3>2. CASE UNCHANGED queue
      BY <3>1, <3>2
    <3>3. CASE file[r] = "request" /\ queue' = [queue EXCEPT ![s] = @ \cup {r}]
      <4>1. \A t \in Supervisor : ~ Holds(t, r) /\ cur[t] # r
        <5>1. ~ Known(r)
          BY <3>3
        <5> HIDE DEF Known, Untouched, OneHolder, TypeOK
        <5> QED
          BY <5>1
      <4> QED
        BY <3>1, <3>3, <4>1
    <3> QED
      BY <2>13, <3>2, <3>3 DEF Take
  <2>14. ASSUME NEW r \in Request, Read(s, r) PROVE OneHolder'
    BY <2>14 DEF Read
  <2>15. ASSUME NEW r \in Request, Abandon(s, r) PROVE OneHolder'
    BY <2>15 DEF Abandon
  <2> QED
    BY <1>3, <2>0, <2>1, <2>2, <2>3, <2>4, <2>5, <2>6, <2>7, <2>8,
       <2>9, <2>10, <2>11, <2>12, <2>13, <2>14, <2>15 DEF Serve, Life
<1>4. CASE UNCHANGED vars
  BY <1>4 DEF vars
<1> QED
  BY <1>1, <1>2, <1>3, <1>4 DEF Next

\* Only what was never acted on is.
LEMMA OnceStep ==
    ASSUME IInv, [Next]_vars
    PROVE  CarriedOutOnce'
<1> USE ControlAssumption
        DEF IInv, CarriedOutOnce, InHand, TypeOK, commands, directory, pass,
            history
<1>1. CASE Tick
  BY <1>1 DEF Tick
<1>2. ASSUME NEW r \in Request, Ask(r) PROVE CarriedOutOnce'
  <2>1. CASE Write(r)
    BY <2>1 DEF Write
  <2>2. CASE Place(r)
    BY <2>2 DEF Place
  <2>3. CASE SeeTaken(r)
    BY <2>3 DEF SeeTaken
  <2>4. CASE Withdraw(r)
    BY <2>4 DEF Withdraw
  <2>5. CASE Hear(r)
    BY <2>5 DEF Hear
  <2>6. CASE Collect(r)
    BY <2>6 DEF Collect
  <2>7. CASE StopWaiting(r)
    BY <2>7 DEF StopWaiting
  <2> QED
    BY <1>2, <2>1, <2>2, <2>3, <2>4, <2>5, <2>6, <2>7 DEF Ask
<1>3. ASSUME NEW s \in Supervisor, Serve(s) \/ Life(s) PROVE CarriedOutOnce'
  <2>0. CASE Wake(s)
    BY <2>0 DEF Wake
  <2>1. CASE BeginPass(s)
    BY <2>1 DEF BeginPass
  <2>2. CASE CarryOut(s)
    BY <2>2 DEF CarryOut
  <2>3. CASE Answer(s)
    BY <2>3 DEF Answer
  <2>4. CASE Forget(s)
    BY <2>4 DEF Forget
  <2>5. CASE EndPass(s)
    BY <2>5 DEF EndPass
  <2>6. CASE Recovered(s)
    BY <2>6 DEF Recovered
  <2>7. CASE EndSweep(s)
    BY <2>7 DEF EndSweep
  <2>8. CASE Start(s)
    BY <2>8 DEF Start
  <2>9. CASE MoveOn(s)
    BY <2>9 DEF MoveOn
  <2>10. CASE StayOn(s)
    BY <2>10 DEF StayOn
  <2>11. CASE End(s)
    BY <2>11 DEF End
  <2>12. CASE Panic(s)
    BY <2>12 DEF Panic
  <2>13. ASSUME NEW r \in Request, Take(s, r) PROVE CarriedOutOnce'
    BY <2>13 DEF Take
  <2>14. ASSUME NEW r \in Request, Read(s, r) PROVE CarriedOutOnce'
    BY <2>14 DEF Read
  <2>15. ASSUME NEW r \in Request, Abandon(s, r) PROVE CarriedOutOnce'
    BY <2>15 DEF Abandon
  <2> QED
    BY <1>3, <2>0, <2>1, <2>2, <2>3, <2>4, <2>5, <2>6, <2>7, <2>8,
       <2>9, <2>10, <2>11, <2>12, <2>13, <2>14, <2>15 DEF Serve, Life
<1>4. CASE UNCHANGED vars
  BY <1>4 DEF vars
<1> QED
  BY <1>1, <1>2, <1>3, <1>4 DEF Next

-----------------------------------------------------------------------------
\* The invariant holds before the first request is written ...
LEMMA InitIInv == Init => IInv
BY ControlAssumption DEF Init, IInv, TypeOK, CarriedOutOnce, Untouched, InHand,
   OneHolder, Holds, Codes, Performed, Refused

\* ... and after every step.
LEMMA NextIInv == IInv /\ [Next]_vars => IInv'
BY TypeStep, UntouchedStep, InHandStep, OneHolderStep, OnceStep DEF IInv

\* The invariant holds in every state: whatever a supervisor has in hand was
\* taken by it alone, and nothing else has been done or said about it.
THEOREM Inductive == Spec => []IInv
<1> HIDE DEF Init, Next, IInv
<1> QED
  BY InitIInv, NextIInv, PTL DEF Spec

\* Every variable of the directory, the commands and the supervisors keeps its
\* type.
THEOREM TypeCorrect == Spec => []TypeOK
<1>1. IInv => TypeOK
  BY DEF IInv
<1> QED
  BY Inductive, <1>1, PTL

\* However many supervisors take over from one another, and wherever each is
\* killed: no request is acted on twice.
THEOREM CarriedOnce == Spec => []CarriedOutOnce
<1>1. IInv => CarriedOutOnce
  BY DEF IInv
<1> QED
  BY Inductive, <1>1, PTL

-----------------------------------------------------------------------------
\* What the stage of a request is made of.
LEMMA SameStage ==
    ASSUME NEW r \in Request, done[r] \in Nat,
           asker'[r] = "untaken" <=> asker[r] = "untaken",
           done'[r] = done[r], said'[r] = said[r],
           Known(r)' <=> Known(r),
           Known(r) \/ (file'[r] = "request" <=> file[r] = "request")
    PROVE  Stage(r)' = Stage(r)
BY DEF Stage, Known

\* A step that changes no request's stage and says nothing is a stutter.
LEMMA Stutter ==
    ASSUME \A r \in Request : Stage(r)' = Stage(r), UNCHANGED said
    PROVE  UNCHANGED Promise!vars
BY DEF Promise!vars

\* A step that moves one request.
LEMMA MoveOne ==
    ASSUME NEW r \in Request, NEW from, NEW to,
           Stage(r) = from, Stage(r)' = to,
           \A x \in Request \ {r} : Stage(x)' = Stage(x), UNCHANGED said
    PROVE  Promise!Move(r, from, to)
BY DEF Promise!Move

\* The commands, the directory and the supervisors start where the promise does.
LEMMA InitPromise == Init => Promise!Init
BY ControlAssumption DEF Init, Stage, Promise!Init, Refused

\* Every step of a command, a pass or a recovery is a step of the promise or none.
LEMMA StepPromise ==
    ASSUME IInv, [Next]_vars
    PROVE  [Promise!Next]_(Promise!vars)
<1> USE ControlAssumption
        DEF IInv, TypeOK, Known, commands, directory, pass, history
<1> HIDE DEF Stage
<1>1. CASE Tick
  BY <1>1, SameStage, Stutter DEF Tick
<1>2. ASSUME NEW r \in Request, Ask(r) PROVE [Promise!Next]_(Promise!vars)
  <2>1. CASE Write(r)
    BY <2>1, SameStage, Stutter DEF Write
  <2>2. CASE Place(r)
    <3>1. Stage(r) = "unasked" /\ Stage(r)' = "waiting"
      BY <2>2 DEF Place, Untouched, Stage
    <3>2. \A x \in Request \ {r} : Stage(x)' = Stage(x)
      BY <2>2, SameStage DEF Place
    <3> QED
      BY <2>2, <3>1, <3>2, MoveOne DEF Place, Promise!Ask, Promise!Next
  <2>3. CASE SeeTaken(r)
    BY <2>3, SameStage, Stutter DEF SeeTaken
  <2>4. CASE Withdraw(r)
    <3>1. Stage(r) = "waiting" /\ Stage(r)' = "withdrawn"
      BY <2>4 DEF Withdraw, Untouched, Stage
    <3>2. \A x \in Request \ {r} : Stage(x)' = Stage(x)
      BY <2>4, SameStage DEF Withdraw
    <3> QED
      BY <2>4, <3>1, <3>2, MoveOne DEF Withdraw, Promise!Withdraw, Promise!Next
  <2>5. CASE Hear(r)
    BY <2>5, SameStage, Stutter DEF Hear
  <2>6. CASE Collect(r)
    BY <2>6, SameStage, Stutter DEF Collect
  <2>7. CASE StopWaiting(r)
    BY <2>7, SameStage, Stutter DEF StopWaiting
  <2> QED
    BY <1>2, <2>1, <2>2, <2>3, <2>4, <2>5, <2>6, <2>7 DEF Ask
<1>3. ASSUME NEW s \in Supervisor, Serve(s) \/ Life(s)
      PROVE  [Promise!Next]_(Promise!vars)
  <2>0. CASE Wake(s)
    BY <2>0, SameStage, Stutter DEF Wake
  <2>1. CASE BeginPass(s)
    BY <2>1, SameStage, Stutter DEF BeginPass
  <2>2. ASSUME verdict[s] = "due", UNCHANGED <<asker, file, said>>,
               done' = [done EXCEPT ![cur[s]] = @ + 1]
        PROVE  [Promise!Next]_(Promise!vars)
    <3> PICK r \in Request : r = cur[s]
      BY <2>2 DEF InHand
    <3>1. Known(r) /\ done[r] = 0 /\ said[r] \cap Refused = {}
      BY <2>2 DEF InHand
    <3>2. done'[r] = 1 /\ \A x \in Request \ {r} : done'[x] = done[x]
      BY <2>2, <3>1
    <3>3. Stage(r) = "taken"
      BY <3>1 DEF Stage, Untouched
    <3>4. Stage(r)' = "carried"
      BY <2>2, <3>1, <3>2 DEF Untouched, Stage
    <3>5. \A x \in Request \ {r} : Stage(x)' = Stage(x)
      BY <2>2, <3>2, SameStage
    <3> QED
      BY <2>2, <3>1, <3>3, <3>4, <3>5, MoveOne DEF Promise!CarryOut, Promise!Next
  <2>3. CASE CarryOut(s)
    BY <2>2, <2>3 DEF CarryOut
  <2>4. CASE Answer(s)
    <3> PICK r \in Request : r = cur[s]
      BY <2>4 DEF Answer, InHand, Codes, Performed, Refused
    <3>1. PICK c \in Codes : c = verdict[s]
      BY <2>4 DEF Answer
    <3>2. /\ said' = [said EXCEPT ![r] = @ \cup {c}]
          /\ UNCHANGED <<asker, file, done>>
      BY <2>4, <3>1 DEF Answer
    <3>3. Known(r) /\ asker[r] # "untaken"
      BY <3>1 DEF InHand, Untouched, Codes, Performed, Refused
    <3>8. said'[r] = said[r] \cup {c} /\ UNCHANGED <<asker[r], file[r], done[r]>>
      BY <3>2
    <3>4. \A x \in Request \ {r} : Stage(x)' = Stage(x)
      BY <3>2, SameStage
    <3>5. CASE c \in Refused
      <4>1. done[r] = 0
        BY <3>1, <3>5 DEF InHand, Refused
      <4>2. Stage(r) \in {"taken", "refused"} /\ Stage(r)' = "refused"
        BY <3>3, <3>5, <3>8, <4>1 DEF Stage
      <4>3. [x \in Request |-> Stage(x)]' = [[x \in Request |-> Stage(x)] EXCEPT ![r] = "refused"]
        BY <3>4, <4>2
      <4>4. Promise!Refuse(r)
        BY <3>2, <3>5, <4>2, <4>3 DEF Promise!Refuse
      <4> QED
        BY <4>4 DEF Promise!Next
    <3>6. CASE c \in Performed
      <4>1. done[r] = 1
        BY <3>1, <3>6 DEF InHand, Performed
      <4>2. Stage(r) = "carried" /\ Stage(r)' = "carried"
        BY <3>3, <3>8, <4>1 DEF Stage
      <4>3. UNCHANGED [x \in Request |-> Stage(x)]
        BY <3>4, <4>2
      <4>4. Promise!Say(r)
        BY <3>2, <3>6, <4>2, <4>3 DEF Promise!Say
      <4> QED
        BY <4>4 DEF Promise!Next
    <3>7. CASE c = "interrupted"
      <4>1. Stage(r) \in {"taken", "carried", "refused"} /\ Stage(r)' = Stage(r)
        BY <3>3, <3>7, <3>8 DEF Stage, Refused
      <4>2. UNCHANGED [x \in Request |-> Stage(x)]
        BY <3>4, <4>1
      <4>3. Promise!Say(r)
        BY <3>2, <3>7, <4>1, <4>2 DEF Promise!Say
      <4> QED
        BY <4>3 DEF Promise!Next
    <3> QED
      BY <3>5, <3>6, <3>7 DEF Codes
  <2>5. CASE Forget(s)
    <3>1. cur[s] \in Request /\ said[cur[s]] # {} /\ file' = [file EXCEPT ![cur[s]] = "absent"]
          /\ UNCHANGED <<asker, done, said>>
      BY <2>5 DEF Forget, InHand
    <3>2. \A r \in Request : Stage(r)' = Stage(r)
      BY <3>1, SameStage
    <3> QED
      BY <3>1, <3>2, Stutter
  <2>6. CASE EndPass(s)
    BY <2>6, SameStage, Stutter DEF EndPass
  <2>7. CASE Recovered(s)
    BY <2>7, SameStage, Stutter DEF Recovered
  <2>8. CASE EndSweep(s)
    BY <2>8, SameStage, Stutter DEF EndSweep
  <2>9. CASE Start(s)
    BY <2>9, SameStage, Stutter DEF Start
  <2>10. CASE MoveOn(s)
    BY <2>10, SameStage, Stutter DEF MoveOn
  <2>11. CASE StayOn(s)
    BY <2>11, SameStage, Stutter DEF StayOn
  <2>12. CASE End(s)
    BY <2>12, SameStage, Stutter DEF End
  <2>13. CASE Panic(s)
    <3>1. CASE done' = done
      BY <2>13, <3>1, SameStage, Stutter DEF Panic
    <3>2. CASE done' = [done EXCEPT ![cur[s]] = @ + 1]
      BY <2>2, <2>13, <3>2 DEF Panic
    <3> QED
      BY <2>13, <3>1, <3>2 DEF Panic
  <2>14. ASSUME NEW r \in Request, Take(s, r) PROVE [Promise!Next]_(Promise!vars)
    <3>1. CASE UNCHANGED file
      BY <2>14, <3>1, SameStage, Stutter DEF Take
    <3>2. CASE file[r] = "request" /\ file' = [file EXCEPT ![r] = "taken"]
      <4>1. Stage(r) = "waiting" /\ Stage(r)' = "taken"
        BY <2>14, <3>2 DEF Take, Untouched, Stage
      <4>2. \A x \in Request \ {r} : Stage(x)' = Stage(x)
        BY <2>14, <3>2, SameStage DEF Take
      <4> QED
        BY <2>14, <4>1, <4>2, MoveOne DEF Take, Promise!Take, Promise!Next
    <3> QED
      BY <2>14, <3>1, <3>2 DEF Take
  <2>15. ASSUME NEW r \in Request, Read(s, r) PROVE [Promise!Next]_(Promise!vars)
    BY <2>15, SameStage, Stutter DEF Read
  <2>16. ASSUME NEW r \in Request, Abandon(s, r) PROVE [Promise!Next]_(Promise!vars)
    BY <2>16, SameStage, Stutter DEF Abandon
  <2> QED
    BY <1>3, <2>0, <2>1, <2>3, <2>4, <2>5, <2>6, <2>7, <2>8, <2>9,
       <2>10, <2>11, <2>12, <2>13, <2>14, <2>15, <2>16 DEF Serve, Life
<1>4. CASE UNCHANGED vars
  BY <1>4, SameStage, Stutter DEF vars
<1> QED
  BY <1>1, <1>2, <1>3, <1>4 DEF Next

\* Walks, renames, panics, crashes and a supervisor still on its way out while
\* the next one recovers, seen from a command: the promise of ControlPromise.
THEOREM KeptPromise == Spec => KeepsPromise
<1> HIDE DEF Init, Next, IInv, Promise!Init, Promise!Next
<1>1. Init => Promise!Init
  BY InitPromise
<1>2. IInv /\ [Next]_vars => [Promise!Next]_(Promise!vars)
  BY StepPromise
<1> QED
  BY Inductive, <1>1, <1>2, PTL DEF Spec, KeepsPromise, Promise!Spec

-----------------------------------------------------------------------------
(***************************************************************************)
(* Self update, for any number of copies, releases and failures: no binary *)
(* is left that does not start, and no install reports what it did not do. *)
(***************************************************************************)

\* Who is about to install, or installs, has a release to install, and the
\* supervisor is at Home.
Offered(me) == me.at \in Installing \cup {"lock", "weigh", "unskip", "cool"} => me.offer # 0
AtHome      == sup.on = Home

\* A rollback that has begun has a backup that starts, unless it is raced.
Restorable ==
    cmd.at \in {"skip", "restore"} =>
        /\ old[cmd.on] # Absent
        /\ cmd.on \in raced \/ old[cmd.on].v # 0

\* What is to be stamped is there.
InPlace(me) == me.at = "stamp" => disk[me.on] = Published(me.offer) \/ me.on \in raced

\* The inductive invariant.
UpdateInv ==
    /\ UpdateTypeOK /\ AtHome /\ Offered(sup) /\ Offered(cmd)
    /\ Restorable /\ InPlace(sup) /\ InPlace(cmd) /\ BinaryStarts

--------------------------------------------------------------------------------
\* Builds, and what is not one.
LEMMA Builds ==
    /\ \A v \in Version : Published(v) \in Build /\ Published(v).v = v
    /\ \A b \in Build : b.v \in Version /\ b.v # 0 /\ b # Torn /\ b # Absent
    /\ Torn.v = 0 /\ Absent.v = 0 /\ Torn # Absent
    /\ Version \subseteq 0 .. MaxVersion /\ 0 \in 0 .. MaxVersion /\ MaxTrouble \in Nat
    /\ 1 \in Version /\ 0 \notin Version /\ Home \in Copy
  BY UpdateAssumption DEF Version, Build, Published, Torn, Absent

Disk == [Copy -> Build \cup {Torn}]
Olds == [Copy -> Build \cup {Torn, Absent}]
Ats  == {"none", "down", "rest", "weigh", "unskip", "cool", "lock", "done", "failed", "exec",
         "skip", "restore", "unstamp", "ask"} \cup Installing

\* What the fields of a process may be.
LEMMA Procs ==
    ASSUME UpdateTypeOK
    PROVE  /\ sup \in [at : Ats, run : 0 .. MaxVersion, on : Copy, offer : 0 .. MaxVersion]
           /\ cmd \in [at : Ats, run : 0 .. MaxVersion, on : Copy, offer : 0 .. MaxVersion]
           /\ sup.on \in Copy /\ cmd.on \in Copy
           /\ \A c \in Copy : disk[c] \in Build \cup {Torn} /\ disk[c].v \in 0 .. MaxVersion
           /\ \A c \in Copy : old[c] \in Build \cup {Torn, Absent}
           /\ NoCmd \in ProcType
           /\ \A w \in Ats, run \in 0 .. MaxVersion, on \in Copy : Proc(w, run, on) \in ProcType
  BY Builds DEF UpdateTypeOK, ProcType, Ats, NoCmd, Proc

\* A step of an install by the supervisor keeps the types ...
LEMMA SupTypes ==
    ASSUME UpdateInv, Apply("sup", sup)
    PROVE  UpdateTypeOK'
<1>0. /\ UpdateTypeOK /\ sup \in ProcType /\ sup.on \in Copy /\ disk[sup.on] \in Build \cup {Torn}
      /\ disk \in Disk /\ old \in Olds /\ sup.offer \in 0 .. MaxVersion
  BY Procs DEF UpdateInv, UpdateTypeOK, Disk, Olds, ProcType
<1>1. CASE Lock("sup", sup)
  BY <1>0, <1>1 DEF Lock, To, Becomes, UpdateTypeOK, ProcType, Installing, files
<1>2. CASE LookStamp("sup", sup)
  BY <1>0, <1>2 DEF LookStamp, To, Becomes, UpdateTypeOK, ProcType, Installing, files
<1>3. CASE Fetch("sup", sup)
  BY <1>0, <1>3, Builds DEF Fetch, Spend, To, Becomes, UpdateTypeOK, ProcType, Installing, files
<1>4. CASE BackUp("sup", sup)
  BY <1>0, <1>4 DEF BackUp, To, Becomes, UpdateTypeOK, ProcType, Installing, files
<1>5. CASE BackedUp("sup", sup)
  BY <1>0, <1>5 DEF BackedUp, To, Becomes, UpdateTypeOK, ProcType, Installing, Disk
<1>6. CASE Swap("sup", sup)
  <2>1. Published(sup.offer) \in Build
    BY <1>0, <1>6, Builds DEF Swap, UpdateInv, Offered, Installing, Version
  <2> QED
    BY <1>0, <1>6, <2>1 DEF Swap, To, Becomes, UpdateTypeOK, ProcType, Installing
<1>7. CASE Stamp("sup", sup)
  BY <1>0, <1>7 DEF Stamp, To, Becomes, UpdateTypeOK, ProcType, Installing
<1> QED
  BY <1>1, <1>2, <1>3, <1>4, <1>5, <1>6, <1>7 DEF Apply

\* ... and so does one by a command.
LEMMA CmdTypes ==
    ASSUME UpdateInv, Apply("cmd", cmd)
    PROVE  UpdateTypeOK'
<1>0. /\ UpdateTypeOK /\ cmd \in ProcType /\ cmd.on \in Copy /\ disk[cmd.on] \in Build \cup {Torn}
      /\ disk \in Disk /\ old \in Olds /\ cmd.offer \in 0 .. MaxVersion
  BY Procs DEF UpdateInv, UpdateTypeOK, Disk, Olds, ProcType
<1>1. CASE Lock("cmd", cmd)
  BY <1>0, <1>1 DEF Lock, To, Becomes, UpdateTypeOK, ProcType, Installing, files
<1>2. CASE LookStamp("cmd", cmd)
  BY <1>0, <1>2 DEF LookStamp, To, Becomes, UpdateTypeOK, ProcType, Installing, files
<1>3. CASE Fetch("cmd", cmd)
  BY <1>0, <1>3, Builds DEF Fetch, Spend, To, Becomes, UpdateTypeOK, ProcType, Installing, files
<1>4. CASE BackUp("cmd", cmd)
  BY <1>0, <1>4 DEF BackUp, To, Becomes, UpdateTypeOK, ProcType, Installing, files
<1>5. CASE BackedUp("cmd", cmd)
  BY <1>0, <1>5 DEF BackedUp, To, Becomes, UpdateTypeOK, ProcType, Installing, Disk
<1>6. CASE Swap("cmd", cmd)
  <2>1. Published(cmd.offer) \in Build
    BY <1>0, <1>6, Builds DEF Swap, UpdateInv, Offered, Installing, Version
  <2> QED
    BY <1>0, <1>6, <2>1 DEF Swap, To, Becomes, UpdateTypeOK, ProcType, Installing
<1>7. CASE Stamp("cmd", cmd)
  BY <1>0, <1>7 DEF Stamp, To, Becomes, UpdateTypeOK, ProcType, Installing
<1> QED
  BY <1>1, <1>2, <1>3, <1>4, <1>5, <1>6, <1>7 DEF Apply

\* So does every other.
LEMMA UpdateTypeStep ==
    ASSUME UpdateInv, [UpdateNext]_updateVars
    PROVE  UpdateTypeOK'
<1>0. /\ UpdateTypeOK /\ sup \in ProcType /\ cmd \in ProcType
      /\ disk \in Disk /\ old \in Olds /\ 0 \in 0 .. MaxVersion /\ Home \in Copy
      /\ cmd.on \in Copy /\ cmd.run \in 0 .. MaxVersion /\ sup.offer \in 0 .. MaxVersion
      /\ sup.run \in 0 .. MaxVersion
      /\ \A c \in Copy : disk[c].v \in 0 .. MaxVersion
      /\ NoCmd \in ProcType /\ MaxTrouble \in Nat
      /\ \A w \in Ats, run \in 0 .. MaxVersion, on \in Copy : Proc(w, run, on) \in ProcType
      /\ latest \in Version /\ Version \subseteq 0 .. MaxVersion
  BY Procs, Builds DEF UpdateInv, UpdateTypeOK, Disk, Olds, ProcType
<1>1. CASE Release
  <2>1. latest' \in Version
    BY <1>0, <1>1, UpdateAssumption DEF Release, Version
  <2> QED
    BY <1>0, <1>1, <2>1 DEF Release, UpdateTypeOK, files
<1>2. CASE SetAuto
  BY <1>0, <1>2 DEF SetAuto, Spend, UpdateTypeOK
<1>3. CASE Begin
  BY <1>0, <1>3 DEF Begin, Proc, UpdateTypeOK, Ats, Installing, files
<1>4. CASE SupervisorEnds
  <2>1. sup' \in ProcType /\ sup'.at \notin Installing
    BY <1>0, <1>4 DEF SupervisorEnds, Proc, Ats, Installing
  <2>2. trouble' \in 0 .. MaxTrouble
    BY <1>0, <1>4 DEF SupervisorEnds, Spend, UpdateTypeOK
  <2>3. (lock' = "sup" <=> FALSE) /\ (lock' = "cmd" <=> cmd'.at \in Installing) /\ lock' \in {"free", "sup", "cmd"}
    BY <1>0, <1>4 DEF SupervisorEnds, UpdateTypeOK
  <2> QED
    BY <1>0, <1>4, <2>1, <2>2, <2>3 DEF SupervisorEnds, UpdateTypeOK, files
<1>5. CASE Check \/ Weigh \/ Unskip \/ Cool \/ Failed \/ Move
  <2>1. sup' \in ProcType /\ sup'.at \notin Installing /\ sup.at \notin Installing
    BY <1>0, <1>5 DEF Check, Weigh, Unskip, Cool, Failed, Move, ProcType, Installing
  <2>2. /\ skip' \in 0 .. MaxVersion /\ cooling' \in 0 .. MaxVersion /\ asked' \in BOOLEAN
        /\ UNCHANGED <<disk, old, stamp, auto, latest, lock, cmd, raced, trouble>>
    BY <1>0, <1>5 DEF Check, Weigh, Unskip, Cool, Failed, Move, UpdateTypeOK, files
  <2> QED
    BY <1>0, <2>1, <2>2 DEF UpdateTypeOK
<1>6. CASE Exec
  <2>1. sup' \in ProcType /\ sup'.at \notin Installing /\ sup.at \notin Installing
    BY <1>0, <1>6 DEF Exec, Proc, Ats, Installing
  <2>2. trouble' \in 0 .. MaxTrouble
    BY <1>0, <1>6 DEF Exec, Spend, UpdateTypeOK
  <2>3. /\ cooling' \in {0, cooling} /\ asked' \in {FALSE, asked}
        /\ UNCHANGED <<disk, old, stamp, skip, auto, latest, lock, cmd, raced>>
    BY <1>6 DEF Exec, files
  <2> QED
    BY <1>0, <2>1, <2>2, <2>3 DEF UpdateTypeOK
<1>7. CASE Cooled
  BY <1>0, <1>7 DEF Cooled, UpdateTypeOK, files
<1>8. ASSUME NEW c \in Copy, StartUpdate(c)
      PROVE  UpdateTypeOK'
  <2>1. Proc("lock", disk[c].v, c) \in ProcType
    BY <1>0 DEF Ats
  <2>2. cmd' \in ProcType /\ cmd'.at = "lock"
    BY <1>0, <1>8, <2>1 DEF StartUpdate, Proc, ProcType
  <2> QED
    BY <1>0, <1>8, <2>2 DEF StartUpdate, Spend, UpdateTypeOK, Installing, files
<1>9. ASSUME NEW c \in Copy, StartRollback(c)
      PROVE  UpdateTypeOK'
  BY <1>0, <1>9 DEF StartRollback, Spend, Proc, UpdateTypeOK, Ats, Installing, files
<1>10. CASE ClearSkip \/ WriteSkip \/ Unstamp
  BY <1>0, <1>10 DEF ClearSkip, WriteSkip, Unstamp, UpdateTypeOK, ProcType, Installing
<1>11. CASE AskMove \/ CommandFails
  <2>1. cmd' \in ProcType /\ cmd'.at \notin Installing /\ cmd.at \notin Installing
    BY <1>0, <1>11 DEF AskMove, CommandFails, NoCmd, Proc, Installing
  <2>2. /\ asked' \in BOOLEAN
        /\ UNCHANGED <<disk, old, stamp, skip, auto, latest, lock, sup, cooling, raced, trouble>>
    BY <1>0, <1>11 DEF AskMove, CommandFails, UpdateTypeOK, files
  <2> QED
    BY <1>0, <2>1, <2>2 DEF UpdateTypeOK
<1>12. CASE CommandKilled
  BY <1>0, <1>12 DEF CommandKilled, Spend, NoCmd, Proc, UpdateTypeOK, Installing, files
<1>13. CASE Restore
  <2>1. disk' \in Disk
    BY <1>0, <1>13, Procs DEF Restore, UpdateInv, Restorable, Disk
  <2>2. /\ cmd' \in ProcType /\ cmd'.at \notin Installing /\ cmd.at \notin Installing
        /\ skip' \in 0 .. MaxVersion /\ raced' \subseteq Copy /\ trouble' \in 0 .. MaxTrouble
    BY <1>0, <1>13 DEF Restore, Spend, NoCmd, Proc, UpdateTypeOK, ProcType, Installing
  <2> QED
    BY <1>0, <1>13, <2>1, <2>2 DEF Restore, UpdateTypeOK, Disk
<1>14. CASE UNCHANGED updateVars
  BY <1>0, <1>14 DEF updateVars, files, UpdateTypeOK
<1> QED
  BY <1>1, <1>2, <1>3, <1>4, <1>5, <1>6, <1>7, <1>8, <1>9, <1>10, <1>11, <1>12, <1>13, <1>14,
     SupTypes, CmdTypes DEF UpdateNext, SupNext, CmdNext

\* The supervisor stays at Home, and whoever installs has a release to install.
LEMMA OfferStep ==
    ASSUME UpdateInv, [UpdateNext]_updateVars
    PROVE  (AtHome /\ Offered(sup) /\ Offered(cmd))'
<1>0. /\ sup \in ProcType /\ cmd \in ProcType /\ AtHome /\ Offered(sup) /\ Offered(cmd)
      /\ latest # 0
  BY Builds DEF UpdateInv, UpdateTypeOK
<1>1. CASE Apply("sup", sup)
  BY <1>0, <1>1 DEF Apply, Lock, LookStamp, Fetch, BackUp, BackedUp, Swap, Stamp, To, Becomes,
                    AtHome, Offered, ProcType, Installing
<1>2. CASE Apply("cmd", cmd)
  BY <1>0, <1>2 DEF Apply, Lock, LookStamp, Fetch, BackUp, BackedUp, Swap, Stamp, To, Becomes,
                    AtHome, Offered, ProcType, Installing
<1>3. CASE Release \/ SetAuto \/ Cooled \/ UNCHANGED updateVars
  BY <1>0, <1>3 DEF Release, SetAuto, Cooled, updateVars, AtHome, Offered
<1>4. CASE Begin \/ SupervisorEnds \/ Exec
  BY <1>0, <1>4 DEF Begin, SupervisorEnds, Exec, Proc, AtHome, Offered, Installing
<1>5. CASE Check \/ Weigh \/ Unskip \/ Cool \/ Failed \/ Move
  BY <1>0, <1>5 DEF Check, Weigh, Unskip, Cool, Failed, Move, AtHome, Offered, ProcType, Installing
<1>6. ASSUME NEW c \in Copy, StartUpdate(c) \/ StartRollback(c)
      PROVE  (AtHome /\ Offered(sup) /\ Offered(cmd))'
  BY <1>0, <1>6 DEF StartUpdate, StartRollback, Proc, AtHome, Offered, Installing
<1>7. CASE ClearSkip \/ WriteSkip \/ Unstamp \/ Restore
  BY <1>0, <1>7 DEF ClearSkip, WriteSkip, Unstamp, Restore, NoCmd, Proc, AtHome, Offered, ProcType,
                    Installing
<1>8. CASE AskMove \/ CommandFails \/ CommandKilled
  BY <1>0, <1>8 DEF AskMove, CommandFails, CommandKilled, NoCmd, Proc, AtHome, Offered, Installing
<1> QED
  BY <1>1, <1>2, <1>3, <1>4, <1>5, <1>6, <1>7, <1>8 DEF UpdateNext, SupNext, CmdNext

\* A binary that starts is backed up, and restored.
LEMMA FilesStep ==
    ASSUME UpdateInv, UpdateTypeOK', [UpdateNext]_updateVars
    PROVE  (Restorable /\ BinaryStarts)'
<1>0. /\ UpdateTypeOK /\ Restorable /\ BinaryStarts /\ disk \in Disk /\ old \in Olds
      /\ sup \in ProcType /\ cmd \in ProcType /\ sup.on \in Copy /\ cmd.on \in Copy
      /\ \A c \in Copy : disk[c] # Absent
      /\ \A v \in Version : Published(v).v # 0
      /\ Torn # Absent
  <2>1. UpdateTypeOK /\ Restorable /\ BinaryStarts
    BY DEF UpdateInv
  <2>2. disk \in Disk /\ old \in Olds
    BY <2>1 DEF UpdateTypeOK, Disk, Olds
  <2> QED
    BY <2>1, <2>2, Procs, Builds DEF UpdateTypeOK
<1>1. CASE UNCHANGED <<disk, old, raced>> /\ (cmd'.at \in {"skip", "restore"} =>
                                                 cmd.at \in {"skip", "restore"} /\ cmd'.on = cmd.on)
  BY <1>0, <1>1 DEF Restorable, BinaryStarts
<1>2. CASE BackUp("sup", sup)
  BY <1>0, <1>2 DEF BackUp, To, Becomes, Restorable, BinaryStarts, Olds
<1>3. CASE BackUp("cmd", cmd)
  BY <1>0, <1>3 DEF BackUp, To, Becomes, Restorable, BinaryStarts, Olds, ProcType
<1>4. CASE BackedUp("sup", sup)
  BY <1>0, <1>4 DEF BackedUp, To, Becomes, Restorable, BinaryStarts, Olds
<1>5. CASE BackedUp("cmd", cmd)
  BY <1>0, <1>5 DEF BackedUp, To, Becomes, Restorable, BinaryStarts, Olds, ProcType
<1>6. CASE Swap("sup", sup)
  <2>1. sup.offer \in Version
    BY <1>0, <1>6 DEF Swap, UpdateInv, Offered, Installing, ProcType, Version
  <2> QED
    BY <1>0, <1>6, <2>1 DEF Swap, To, Becomes, Restorable, BinaryStarts, Disk
<1>7. CASE Swap("cmd", cmd)
  <2>1. cmd.offer \in Version
    BY <1>0, <1>7 DEF Swap, UpdateInv, Offered, Installing, ProcType, Version
  <2> QED
    BY <1>0, <1>7, <2>1 DEF Swap, To, Becomes, Restorable, BinaryStarts, Disk, ProcType
<1>8. CASE Restore
  BY <1>0, <1>8 DEF Restore, Restorable, BinaryStarts, Disk, ProcType, NoCmd, Proc
<1>9. ASSUME NEW c \in Copy, StartRollback(c)
      PROVE  (Restorable /\ BinaryStarts)'
  BY <1>0, <1>9, Builds DEF StartRollback, CanRollBack, Restorable, BinaryStarts, Proc, files
<1>10. CASE Release \/ SetAuto \/ Cooled \/ Begin \/ SupervisorEnds \/ Exec \/ UNCHANGED updateVars
  BY <1>1, <1>10 DEF Release, SetAuto, Cooled, Begin, SupervisorEnds, Exec, updateVars, files
<1>11. CASE Check \/ Weigh \/ Unskip \/ Cool \/ Failed \/ Move
  BY <1>1, <1>11 DEF Check, Weigh, Unskip, Cool, Failed, Move, files
<1>12. ASSUME NEW c \in Copy, StartUpdate(c)
       PROVE  (Restorable /\ BinaryStarts)'
  <2>1. cmd'.at = "lock" /\ UNCHANGED <<disk, old, raced>>
    BY <1>12 DEF StartUpdate, Proc, files
  <2> QED
    BY <1>1, <2>1
<1>13. CASE ClearSkip \/ WriteSkip \/ Unstamp \/ AskMove \/ CommandFails \/ CommandKilled
  <2>1. UNCHANGED <<disk, old, raced>>
    BY <1>13 DEF ClearSkip, WriteSkip, Unstamp, AskMove, CommandFails, CommandKilled, files
  <2>2. cmd'.at \in {"skip", "restore"} => cmd.at \in {"skip", "restore"} /\ cmd'.on = cmd.on
    BY <1>0, <1>13 DEF ClearSkip, WriteSkip, Unstamp, AskMove, CommandFails, CommandKilled, NoCmd,
                       Proc, ProcType
  <2> QED
    BY <1>1, <2>1, <2>2
<1>14. CASE \/ Lock("sup", sup) \/ LookStamp("sup", sup) \/ Fetch("sup", sup) \/ Stamp("sup", sup)
  BY <1>1, <1>14 DEF Lock, LookStamp, Fetch, Stamp, To, Becomes, files
<1>15. CASE \/ Lock("cmd", cmd) \/ LookStamp("cmd", cmd) \/ Fetch("cmd", cmd) \/ Stamp("cmd", cmd)
  <2>1. UNCHANGED <<disk, old, raced>>
    BY <1>15 DEF Lock, LookStamp, Fetch, Stamp, files
  <2>2. cmd'.at \notin {"skip", "restore"}
    BY <1>0, <1>15 DEF Lock, LookStamp, Fetch, Stamp, To, Becomes, ProcType
  <2> QED
    BY <1>1, <2>1, <2>2
<1> QED
  BY <1>2, <1>3, <1>4, <1>5, <1>6, <1>7, <1>8, <1>9, <1>10, <1>11, <1>12, <1>13, <1>14, <1>15
  DEF UpdateNext, SupNext, CmdNext, Apply

\* Two do not install at a time.
LEMMA OneInstalls ==
    ASSUME UpdateTypeOK
    PROVE  sup.at \notin Installing \/ cmd.at \notin Installing
  BY DEF UpdateTypeOK

\* What is to be stamped stays in place, but for a rollback.
LEMMA PlaceStep ==
    ASSUME UpdateInv, [UpdateNext]_updateVars
    PROVE  (InPlace(sup) /\ InPlace(cmd))'
<1>0. /\ UpdateTypeOK /\ AtHome /\ InPlace(sup) /\ InPlace(cmd) /\ disk \in Disk
      /\ sup \in ProcType /\ cmd \in ProcType /\ sup.on \in Copy /\ cmd.on \in Copy
      /\ sup.at \notin Installing \/ cmd.at \notin Installing
  <2>1. UpdateTypeOK /\ AtHome /\ InPlace(sup) /\ InPlace(cmd)
    BY DEF UpdateInv
  <2>2. disk \in Disk
    BY <2>1 DEF UpdateTypeOK, Disk
  <2> QED
    BY <2>1, <2>2, Procs, OneInstalls DEF UpdateTypeOK
<1>1. ASSUME UNCHANGED disk, raced \subseteq raced', sup' = sup \/ sup'.at # "stamp",
             cmd' = cmd \/ cmd'.at # "stamp"
      PROVE  (InPlace(sup) /\ InPlace(cmd))'
  BY <1>0, <1>1 DEF InPlace
<1>2. CASE Swap("sup", sup)
  BY <1>0, <1>2 DEF Swap, To, Becomes, InPlace, Disk, ProcType, Installing
<1>3. CASE Swap("cmd", cmd)
  BY <1>0, <1>3 DEF Swap, To, Becomes, InPlace, Disk, ProcType, Installing
<1>4. CASE Restore
  <2>1. CASE disk' = disk
    BY <1>0, <1>1, <1>4, <2>1 DEF Restore, NoCmd, Proc, ProcType
  <2>2. CASE /\ disk' = [disk EXCEPT ![cmd.on] = old[cmd.on]]
             /\ raced' = IF sup.at \in Installing /\ cmd.on = Home THEN raced \cup {Home} ELSE raced
             /\ cmd' = [cmd EXCEPT !.at = "unstamp"] /\ UNCHANGED sup
    BY <1>0, <2>2 DEF AtHome, InPlace, Disk, ProcType, Installing
  <2> QED
    BY <1>4, <2>1, <2>2 DEF Restore
<1>5. CASE \/ Lock("sup", sup) \/ LookStamp("sup", sup) \/ Fetch("sup", sup) \/ BackUp("sup", sup)
           \/ BackedUp("sup", sup) \/ Stamp("sup", sup)
  <2>1. UNCHANGED <<disk, cmd>> /\ raced \subseteq raced' /\ sup'.at # "stamp"
    BY <1>0, <1>5 DEF Lock, LookStamp, Fetch, BackUp, BackedUp, Stamp, To, Becomes, files, ProcType
  <2> QED
    BY <1>1, <2>1
<1>6. CASE \/ Lock("cmd", cmd) \/ LookStamp("cmd", cmd) \/ Fetch("cmd", cmd) \/ BackUp("cmd", cmd)
           \/ BackedUp("cmd", cmd) \/ Stamp("cmd", cmd)
  <2>1. UNCHANGED <<disk, sup>> /\ raced \subseteq raced' /\ cmd'.at # "stamp"
    BY <1>0, <1>6 DEF Lock, LookStamp, Fetch, BackUp, BackedUp, Stamp, To, Becomes, files, ProcType
  <2> QED
    BY <1>1, <2>1
<1>7. CASE Release \/ SetAuto \/ Cooled \/ UNCHANGED updateVars
  BY <1>1, <1>7 DEF Release, SetAuto, Cooled, updateVars, files
<1>8. CASE Begin \/ SupervisorEnds \/ Exec
  BY <1>1, <1>8 DEF Begin, SupervisorEnds, Exec, Proc, files
<1>9. CASE Check \/ Weigh \/ Unskip \/ Cool \/ Failed \/ Move
  <2>1. UNCHANGED <<disk, cmd, raced>> /\ sup'.at # "stamp"
    BY <1>0, <1>9 DEF Check, Weigh, Unskip, Cool, Failed, Move, files, ProcType
  <2> QED
    BY <1>1, <2>1
<1>10. ASSUME NEW c \in Copy, StartUpdate(c) \/ StartRollback(c)
       PROVE  (InPlace(sup) /\ InPlace(cmd))'
  <2>1. UNCHANGED <<disk, sup, raced>> /\ cmd'.at # "stamp"
    BY <1>10 DEF StartUpdate, StartRollback, Proc, files
  <2> QED
    BY <1>1, <2>1
<1>11. CASE ClearSkip \/ WriteSkip \/ Unstamp \/ AskMove \/ CommandFails \/ CommandKilled
  <2>1. UNCHANGED <<disk, sup, raced>> /\ cmd'.at # "stamp"
    BY <1>0, <1>11 DEF ClearSkip, WriteSkip, Unstamp, AskMove, CommandFails, CommandKilled, NoCmd,
                       Proc, files, ProcType
  <2> QED
    BY <1>1, <2>1
<1> QED
  BY <1>2, <1>3, <1>4, <1>5, <1>6, <1>7, <1>8, <1>9, <1>10, <1>11
  DEF UpdateNext, SupNext, CmdNext, Apply

\* The invariant holds at first ...
LEMMA UpdateInitially == UpdateInit => UpdateInv
<1> SUFFICES ASSUME UpdateInit
             PROVE  UpdateInv
  OBVIOUS
<1>1. /\ sup = Proc("down", 0, Home) /\ cmd = Proc("none", 0, Home)
      /\ sup.at = "down" /\ cmd.at = "none" /\ sup.on = Home
  BY DEF UpdateInit, NoCmd, Proc
<1>2. UpdateTypeOK
  <2>1. sup \in ProcType /\ cmd \in ProcType
    BY <1>1, Builds DEF Proc, ProcType
  <2>2. stamp \in 0 .. MaxVersion /\ skip \in 0 .. MaxVersion /\ latest \in Version
        /\ cooling \in 0 .. MaxVersion /\ trouble \in 0 .. MaxTrouble
    BY Builds, UpdateAssumption DEF UpdateInit
  <2>3. disk \in [Copy -> Build \cup {Torn}] /\ old \in [Copy -> Build \cup {Torn, Absent}]
    BY DEF UpdateInit
  <2> QED
    BY <1>1, <2>1, <2>2, <2>3 DEF UpdateInit, UpdateTypeOK, Installing
<1>3. BinaryStarts
  BY Builds DEF UpdateInit, BinaryStarts
<1> QED
  BY <1>1, <1>2, <1>3 DEF UpdateInv, AtHome, Offered, Restorable, InPlace, Installing

\* ... and after every step.
LEMMA UpdateInductive == UpdateInv /\ [UpdateNext]_updateVars => UpdateInv'
  BY UpdateTypeStep, OfferStep, FilesStep, PlaceStep DEF UpdateInv

\* The invariant holds of every state: who installs has a release in hand, and what is
\* about to be stamped, or restored, is there.
THEOREM UpdateInvariant == UpdateSpec => []UpdateInv
BY UpdateInitially, UpdateInductive, PTL DEF UpdateSpec

\* Every variable keeps its type, and the lock is held by whoever is installing.
THEOREM UpdateTyped == UpdateSpec => []UpdateTypeOK
<1>1. UpdateInv => UpdateTypeOK
  BY DEF UpdateInv
<1> QED
  BY <1>1, UpdateInvariant, PTL

\* The binary always starts, unless a rollback raced an install of its copy.
THEOREM AlwaysStarts == UpdateSpec => []BinaryStarts
<1>1. UpdateInv => BinaryStarts
  BY DEF UpdateInv
<1> QED
  BY <1>1, UpdateInvariant, PTL

\* An install that reports success has put the published build there.
THEOREM InstallsAreReal == UpdateSpec => InstallIsReal
<1>1. ASSUME UpdateInv, [UpdateNext]_updateVars
      PROVE  /\ sup.at \in Installing /\ sup'.at = "done" =>
                  disk'[sup.on] = Published(sup.offer) \/ sup.on \in raced'
             /\ cmd.at \in Installing /\ cmd'.at = "done" =>
                  disk'[cmd.on] = Published(cmd.offer) \/ cmd.on \in raced'
  <2>0. sup \in ProcType /\ cmd \in ProcType /\ InPlace(sup) /\ InPlace(cmd)
    BY <1>1 DEF UpdateInv, UpdateTypeOK
  <2>1. ASSUME sup.at \in Installing, sup'.at = "done"
        PROVE  disk'[sup.on] = Published(sup.offer) \/ sup.on \in raced'
    <3>1. sup' # sup
      BY <2>0, <2>1 DEF Installing
    <3>2. Apply("sup", sup)
      <4>1. ~Check /\ ~Weigh /\ ~Unskip /\ ~Cool /\ ~Failed /\ ~Move /\ ~Exec /\ ~Begin
        BY <2>1 DEF Check, Weigh, Unskip, Cool, Failed, Move, Exec, Begin, Installing
      <4>2. ~SupervisorEnds
        BY <2>1 DEF SupervisorEnds, Proc
      <4>3. /\ ~Release /\ ~SetAuto /\ ~Cooled /\ ~UNCHANGED updateVars
            /\ \A c \in Copy : ~StartUpdate(c) /\ ~StartRollback(c)
        BY <3>1 DEF Release, SetAuto, Cooled, updateVars, StartUpdate, StartRollback
      <4>4. /\ ~ClearSkip /\ ~WriteSkip /\ ~Restore /\ ~Unstamp /\ ~AskMove /\ ~CommandFails
            /\ ~CommandKilled /\ ~Apply("cmd", cmd)
        BY <3>1 DEF ClearSkip, WriteSkip, Restore, Unstamp, AskMove, CommandFails, CommandKilled,
                    Apply, Lock, LookStamp, Fetch, BackUp, BackedUp, Swap, Stamp, To, Becomes
      <4> QED
        BY <1>1, <4>1, <4>2, <4>3, <4>4 DEF UpdateNext, SupNext, CmdNext
    <3>3. LookStamp("sup", sup) \/ Stamp("sup", sup)
      BY <2>0, <2>1, <3>2 DEF Apply, Lock, Fetch, BackUp, BackedUp, Swap, To, Becomes, ProcType
    <3> QED
      BY <2>0, <2>1, <3>3 DEF LookStamp, There, Stamp, To, Becomes, files, InPlace, ProcType
  <2>2. ASSUME cmd.at \in Installing, cmd'.at = "done"
        PROVE  disk'[cmd.on] = Published(cmd.offer) \/ cmd.on \in raced'
    <3>1. cmd' # cmd
      BY <2>0, <2>2 DEF Installing
    <3>2. Apply("cmd", cmd)
      <4>1. ~Check /\ ~Weigh /\ ~Unskip /\ ~Cool /\ ~Failed /\ ~Move /\ ~Exec /\ ~Begin
            /\ ~SupervisorEnds /\ ~Apply("sup", sup)
        BY <3>1 DEF Check, Weigh, Unskip, Cool, Failed, Move, Exec, Begin, SupervisorEnds,
                    Apply, Lock, LookStamp, Fetch, BackUp, BackedUp, Swap, Stamp, To, Becomes
      <4>2. ~Release /\ ~SetAuto /\ ~Cooled /\ ~UNCHANGED updateVars
        BY <3>1 DEF Release, SetAuto, Cooled, updateVars
      <4>3. /\ ~ClearSkip /\ ~WriteSkip /\ ~Restore /\ ~Unstamp /\ ~AskMove /\ ~CommandFails
            /\ ~CommandKilled /\ \A c \in Copy : ~StartUpdate(c) /\ ~StartRollback(c)
        BY <2>2 DEF ClearSkip, WriteSkip, Restore, Unstamp, AskMove, CommandFails, CommandKilled,
                    StartUpdate, StartRollback, Installing, NoCmd, Proc
      <4> QED
        BY <1>1, <4>1, <4>2, <4>3 DEF UpdateNext, SupNext, CmdNext
    <3>3. LookStamp("cmd", cmd) \/ Stamp("cmd", cmd)
      BY <2>0, <2>2, <3>2 DEF Apply, Lock, Fetch, BackUp, BackedUp, Swap, To, Becomes, ProcType
    <3> QED
      BY <2>0, <2>2, <3>3 DEF LookStamp, There, Stamp, To, Becomes, files, InPlace, ProcType
  <2> QED
    BY <2>1, <2>2
<1>2. UpdateInv /\ [UpdateNext]_updateVars =>
        [\A step \in {<<sup, sup'>>, <<cmd, cmd'>>} :
            step[1].at \in Installing /\ step[2].at = "done" =>
                disk'[step[1].on] = Published(step[1].offer) \/ step[1].on \in raced']_updateVars
  BY <1>1
<1> QED
  BY <1>2, UpdateInvariant, PTL DEF UpdateSpec, InstallIsReal
=============================================================================
