-------------------------- MODULE SteeringProofs --------------------------
(***************************************************************************)
(* For any number of messages, people, surfaces and rounds, and whatever   *)
(* each message is: words are kept in one place at a time, and a surface   *)
(* has one reply at a time but for those that take no place in line.       *)
(***************************************************************************)
EXTENDS Steering, TLAPS

\* A task that has not opened a reply yet holds its own words.
Before == {"look", "pick", "fetch", "line", "open"}

\* What a task's place says of what it holds, and of its arrival.
Shape ==
    \A n \in Message :
        /\ pc[n] = "unsaid" =>
             /\ stage[n] = "none" /\ heard[n] = 0 /\ n \notin turned /\ n \notin dropped
             /\ \A k \in Message : ~Held(n, k) /\ (n < k => pc[k] = "unsaid")
        /\ pc[n] \in Before => prompt[n] = {n}
        /\ pc[n] \in {"unsaid", "run", "drain", "done"} => prompt[n] = {}
        /\ pc[n] \notin {"run", "drain"} => box[n] = {}
        /\ pc[n] # "unsaid" => (stage[n] = "none" <=> Outside(n))
        /\ pc[n] \in {"look", "pick", "fetch", "line"} => ~Outside(n)
        /\ stage[n] = "late" => n \in late

\* How many rounds a task has opened.
Counted ==
    \A n \in Message :
        /\ pc[n] \in Before \cup {"unsaid"} => round[n] = 0
        /\ pc[n] \in {"run", "drain", "again"} => round[n] >= 1
        /\ pc[n] = "again" => round[n] < MaxRounds(n)

\* Whoever took the surface from the line has nobody before them in it, but for
\* those that hung.
FirstInLine ==
    \A j, k \in Message :
        /\ j < k /\ on[j] = on[k]
        /\ Claims(k) /\ stage[k] # "none"
        /\ stage[j] # "none" /\ pc[j] # "done"
        => j \in late

\* The inductive invariant.
IInv == TypeOK /\ Shape /\ Counted /\ FirstInLine /\ WordsKept
-----------------------------------------------------------------------------
\* Every step keeps the variables' types.
LEMMA TypeStep ==
    ASSUME IInv, [Next]_vars
    PROVE  TypeOK'
<1> USE SteeringAssumption DEF IInv, TypeOK, message, arrival, task, history, To, Forget, Hear,
        Places, Kinds, MaxRounds
<1>1. ASSUME NEW n \in Message, Enter(n) \/ Steer(n) \/ Reply(n) \/ Drain(n) \/ Chance(n)
      PROVE  TypeOK'
  <2>1. CASE Arrive(n)
    BY <2>1 DEF Arrive, Begin, Said
  <2>2. CASE Reserve(n)
    BY <2>2 DEF Reserve, Begin
  <2>3. CASE Wake(n)
    <3>1. round[n] = 0
      BY <2>3 DEF Wake, Begin, Counted
    <3> QED
      BY <2>3, <3>1 DEF Wake, Begin
  <2>4. CASE Resume(n)
    BY <2>4 DEF Resume, Begin
  <2>5. CASE BeLate(n)
    BY <2>5 DEF BeLate
  <2>6. CASE Look(n)
    <3>1. Turns(on[n]) \subseteq Message \X (1..Rounds)
      BY DEF Turns, Turn, Running, Counted
    <3> QED
      BY <2>6, <3>1 DEF Look
  <2>7. CASE Choose(n)
    <3>1. PICK k \in Pick(n) : target' = [target EXCEPT ![n] = Turn(k)]
      BY <2>7 DEF Choose
    <3>2. k \in Message /\ pc[k] = "run"
      BY <3>1 DEF Pick, Mine, Shared, Running
    <3>3. Turn(k) \in Message \X (1..Rounds)
      BY <3>2 DEF Turn, Counted
    <3> QED
      BY <2>7, <3>1, <3>3 DEF Choose
  <2>8. CASE ChooseNone(n)
    BY <2>8 DEF ChooseNone
  <2>9. CASE Put(n)
    BY <2>9 DEF Put
  <2>10. CASE GiveBack(n)
    BY <2>10 DEF GiveBack
  <2>11. CASE Wait(n)
    BY <2>11 DEF Wait
  <2>12. CASE TakeLine(n)
    BY <2>12 DEF TakeLine
  <2>13. CASE Register(n)
    <3>1. round[n] + 1 \in 0..Rounds /\ round[n] + 1 <= MaxRounds(n)
      BY <2>13 DEF Register, Counted, Before
    <3>2. heard' \in [Message -> Nat]
      BY <2>13 DEF Register
    <3> QED
      BY <2>13, <3>1, <3>2 DEF Register
  <2>14. CASE EndRun(n)
    BY <2>14 DEF EndRun
  <2>15. CASE Drain(n)
    BY <2>15 DEF Drain
  <2>16. CASE Leave(n)
    BY <2>16 DEF Leave
  <2>17. CASE FailOpen(n)
    BY <2>17 DEF FailOpen
  <2>18. CASE Hook(n)
    BY <2>18 DEF Hook
  <2>19. CASE Redo(n)
    BY <2>19 DEF Redo
  <2> QED
    BY <1>1, <2>1, <2>2, <2>3, <2>4, <2>5, <2>6, <2>7, <2>8, <2>9,
       <2>10, <2>11, <2>12, <2>13, <2>14, <2>15, <2>16, <2>17,
       <2>18, <2>19
       DEF Enter, Steer, Reply, Chance
<1>2. CASE UNCHANGED vars
  BY <1>2 DEF vars
<1> QED
  BY <1>1, <1>2 DEF Next

\* Every step keeps what a place says of what a task holds.
LEMMA ShapeStep ==
    ASSUME IInv, [Next]_vars
    PROVE  Shape'
<1> USE SteeringAssumption DEF IInv, TypeOK, message, arrival, task, history, To,
        Forget, Hear, Shape, Before, Held, Outside
<1>1. ASSUME NEW n \in Message, Enter(n) \/ Steer(n) \/ Reply(n) \/ Drain(n) \/ Chance(n)
      PROVE  Shape'
  <2>1. CASE Arrive(n)
    BY <2>1 DEF Arrive, Begin, Said
  <2>2. CASE Reserve(n)
    BY <2>2 DEF Reserve, Begin
  <2>3. CASE Wake(n)
    BY <2>3 DEF Wake, Begin
  <2>4. CASE Resume(n)
    BY <2>4 DEF Resume, Begin
  <2>5. CASE BeLate(n)
    BY <2>5 DEF BeLate
  <2>6. CASE Look(n)
    BY <2>6 DEF Look
  <2>7. CASE Choose(n)
    BY <2>7 DEF Choose
  <2>8. CASE ChooseNone(n)
    BY <2>8 DEF ChooseNone
  <2>9. CASE Put(n)
    BY <2>9 DEF Put
  <2>10. CASE GiveBack(n)
    BY <2>10 DEF GiveBack
  <2>11. CASE Wait(n)
    BY <2>11 DEF Wait
  <2>12. CASE TakeLine(n)
    BY <2>12 DEF TakeLine
  <2>13. CASE Register(n)
    BY <2>13 DEF Register
  <2>14. CASE EndRun(n)
    BY <2>14 DEF EndRun
  <2>15. CASE Drain(n)
    BY <2>15 DEF Drain
  <2>16. CASE Leave(n)
    BY <2>16 DEF Leave
  <2>17. CASE FailOpen(n)
    BY <2>17 DEF FailOpen
  <2>18. CASE Hook(n)
    BY <2>18 DEF Hook
  <2>19. CASE Redo(n)
    BY <2>19 DEF Redo
  <2> QED
    BY <1>1, <2>1, <2>2, <2>3, <2>4, <2>5, <2>6, <2>7, <2>8, <2>9,
       <2>10, <2>11, <2>12, <2>13, <2>14, <2>15, <2>16, <2>17,
       <2>18, <2>19
       DEF Enter, Steer, Reply, Chance
<1>2. CASE UNCHANGED vars
  BY <1>2 DEF vars
<1> QED
  BY <1>1, <1>2 DEF Next

\* Every step keeps the count of the rounds opened.
LEMMA CountedStep ==
    ASSUME IInv, [Next]_vars
    PROVE  Counted'
<1> USE SteeringAssumption DEF IInv, TypeOK, message, arrival, task, history, To,
        Forget, Hear, Counted, Before, MaxRounds
<1>1. ASSUME NEW n \in Message, Enter(n) \/ Steer(n) \/ Reply(n) \/ Drain(n) \/ Chance(n)
      PROVE  Counted'
  <2>1. CASE Arrive(n)
    BY <2>1 DEF Arrive, Begin, Said
  <2>2. CASE Reserve(n)
    BY <2>2 DEF Reserve, Begin
  <2>3. CASE Wake(n)
    BY <2>3 DEF Wake, Begin
  <2>4. CASE Resume(n)
    BY <2>4 DEF Resume, Begin
  <2>5. CASE BeLate(n)
    BY <2>5 DEF BeLate
  <2>6. CASE Look(n)
    BY <2>6 DEF Look
  <2>7. CASE Choose(n)
    BY <2>7 DEF Choose
  <2>8. CASE ChooseNone(n)
    BY <2>8 DEF ChooseNone
  <2>9. CASE Put(n)
    BY <2>9 DEF Put
  <2>10. CASE GiveBack(n)
    BY <2>10 DEF GiveBack
  <2>11. CASE Wait(n)
    BY <2>11 DEF Wait
  <2>12. CASE TakeLine(n)
    BY <2>12 DEF TakeLine
  <2>13. CASE Register(n)
    BY <2>13 DEF Register
  <2>14. CASE EndRun(n)
    BY <2>14 DEF EndRun
  <2>15. CASE Drain(n)
    BY <2>15 DEF Drain
  <2>16. CASE Leave(n)
    BY <2>16 DEF Leave
  <2>17. CASE FailOpen(n)
    BY <2>17 DEF FailOpen
  <2>18. CASE Hook(n)
    BY <2>18 DEF Hook
  <2>19. CASE Redo(n)
    BY <2>19 DEF Redo
  <2> QED
    BY <1>1, <2>1, <2>2, <2>3, <2>4, <2>5, <2>6, <2>7, <2>8, <2>9,
       <2>10, <2>11, <2>12, <2>13, <2>14, <2>15, <2>16, <2>17,
       <2>18, <2>19
       DEF Enter, Steer, Reply, Chance
<1>2. CASE UNCHANGED vars
  BY <1>2 DEF vars
<1> QED
  BY <1>1, <1>2 DEF Next

\* Every step keeps whoever took the surface first in line.
LEMMA LineStep ==
    ASSUME IInv, [Next]_vars
    PROVE  FirstInLine'
<1> USE SteeringAssumption DEF IInv, TypeOK, message, arrival, task, history, To,
        Forget, Hear, FirstInLine, Shape, Claims, Before, Outside
<1>1. ASSUME NEW n \in Message, Enter(n) \/ Steer(n) \/ Reply(n) \/ Drain(n) \/ Chance(n)
      PROVE  FirstInLine'
  <2>1. CASE Arrive(n)
    BY <2>1 DEF Arrive, Begin, Said
  <2>2. CASE Reserve(n)
    BY <2>2 DEF Reserve, Begin
  <2>3. CASE Wake(n)
    BY <2>3 DEF Wake, Begin
  <2>4. CASE Resume(n)
    BY <2>4 DEF Resume, Begin
  <2>5. CASE BeLate(n)
    BY <2>5 DEF BeLate
  <2>6. CASE Look(n)
    BY <2>6 DEF Look
  <2>7. CASE Choose(n)
    BY <2>7 DEF Choose
  <2>8. CASE ChooseNone(n)
    BY <2>8 DEF ChooseNone
  <2>9. CASE Put(n)
    BY <2>9 DEF Put
  <2>10. CASE GiveBack(n)
    BY <2>10 DEF GiveBack
  <2>11. CASE Wait(n)
    BY <2>11 DEF Wait
  <2>12. CASE TakeLine(n)
    <3> SUFFICES ASSUME NEW j \in Message, NEW k \in Message,
                        j < k, on[j] = on[k], Claims(k)', stage'[k] # "none",
                        stage'[j] # "none", pc'[j] # "done"
                 PROVE  j \in late
      BY <2>12 DEF TakeLine
    <3>1. stage[j] # "none" /\ pc[j] # "done" /\ stage[k] # "none"
      BY <2>12 DEF TakeLine
    <3>2. CASE k = n
      <4>1. Ahead(j, n) /\ ~HoldsLine(j, n)
        BY <2>12, <3>1, <3>2 DEF TakeLine, LineAhead, Ahead
      <4> QED
        BY <4>1 DEF HoldsLine, Ahead
    <3>3. CASE k # n
      BY <2>12, <3>1, <3>3 DEF TakeLine
    <3> QED
      BY <3>2, <3>3
  <2>13. CASE Register(n)
    BY <2>13 DEF Register
  <2>14. CASE EndRun(n)
    BY <2>14 DEF EndRun
  <2>15. CASE Drain(n)
    BY <2>15 DEF Drain
  <2>16. CASE Leave(n)
    BY <2>16 DEF Leave
  <2>17. CASE FailOpen(n)
    BY <2>17 DEF FailOpen
  <2>18. CASE Hook(n)
    BY <2>18 DEF Hook
  <2>19. CASE Redo(n)
    BY <2>19 DEF Redo
  <2> QED
    BY <1>1, <2>1, <2>2, <2>3, <2>4, <2>5, <2>6, <2>7, <2>8, <2>9,
       <2>10, <2>11, <2>12, <2>13, <2>14, <2>15, <2>16, <2>17,
       <2>18, <2>19
       DEF Enter, Steer, Reply, Chance
<1>2. CASE UNCHANGED vars
  BY <1>2 DEF vars
<1> QED
  BY <1>1, <1>2 DEF Next

\* Every step keeps the words in one place.
LEMMA KeptStep ==
    ASSUME IInv, [Next]_vars
    PROVE  WordsKept'
<1> USE SteeringAssumption DEF IInv, TypeOK, message, arrival, task, history, To,
        Forget, Hear, WordsKept, Held, Over, Shape, Before
<1>1. ASSUME NEW n \in Message, Enter(n) \/ Steer(n) \/ Reply(n) \/ Drain(n) \/ Chance(n)
      PROVE  WordsKept'
  <2>1. CASE Arrive(n)
    BY <2>1 DEF Arrive, Begin, Said
  <2>2. CASE Reserve(n)
    BY <2>2 DEF Reserve, Begin
  <2>3. CASE Wake(n)
    BY <2>3 DEF Wake, Begin
  <2>4. CASE Resume(n)
    BY <2>4 DEF Resume, Begin
  <2>5. CASE BeLate(n)
    BY <2>5 DEF BeLate
  <2>6. CASE Look(n)
    BY <2>6 DEF Look
  <2>7. CASE Choose(n)
    BY <2>7 DEF Choose
  <2>8. CASE ChooseNone(n)
    BY <2>8 DEF ChooseNone
  <2>9. CASE Put(n)
    <3>1. PICK k \in Message :
            pc[k] = "run" /\ box' = [box EXCEPT ![k] = box[k] \cup prompt[n]]
      BY <2>9 DEF Put
    <3>2. prompt[n] = {n} /\ box[n] = {} /\ prompt' = [prompt EXCEPT ![n] = {}] /\ k # n
      BY <2>9, <3>1 DEF Put
    <3>3. \A m \in Message : Over(m)' = Over(m) /\ heard'[m] = heard[m]
      BY <2>9 DEF Put
    <3>4. \A m, j \in Message : m # n => Held(m, j)' = Held(m, j)
      BY <3>1, <3>2
    <3>5. ~Over(n) /\ \A j \in Message : Held(n, j) <=> j = n
      BY <2>9, <3>2 DEF Put
    <3>6. \A j \in Message : Held(n, j)' <=> j = k
      BY <3>1, <3>2, <3>5
    <3>7. \A m \in Message : Held(m, n) => m = n
      BY <2>9, <3>2 DEF Put
    <3>8. pc' = [pc EXCEPT ![n] = "done"]
      BY <2>9 DEF Put
    <3>9. ASSUME NEW m \in Message, m # n
          PROVE  /\ heard'[m] <= 1
                 /\ pc'[m] # "unsaid" =>
                      \/ Over(m)' /\ \A j \in Message : ~Held(m, j)'
                      \/ ~Over(m)' /\ \E i \in Message :
                           /\ pc'[i] # "done"
                           /\ \A j \in Message : Held(m, j)' <=> j = i
      BY <3>3, <3>4, <3>7, <3>8, <3>9
    <3>10. /\ heard'[n] <= 1
           /\ ~Over(n)' /\ pc'[k] # "done"
           /\ \A j \in Message : Held(n, j)' <=> j = k
      BY <3>1, <3>2, <3>3, <3>5, <3>6, <3>8
    <3> QED
      BY <3>9, <3>10
  <2>10. CASE GiveBack(n)
    BY <2>10 DEF GiveBack
  <2>11. CASE Wait(n)
    BY <2>11 DEF Wait
  <2>12. CASE TakeLine(n)
    BY <2>12 DEF TakeLine
  <2>13. CASE Register(n)
    BY <2>13 DEF Register
  <2>14. CASE EndRun(n)
    BY <2>14 DEF EndRun
  <2>15. CASE Drain(n)
    BY <2>15 DEF Drain
  <2>16. CASE Leave(n)
    BY <2>16 DEF Leave
  <2>17. CASE FailOpen(n)
    BY <2>17 DEF FailOpen
  <2>18. CASE Hook(n)
    BY <2>18 DEF Hook
  <2>19. CASE Redo(n)
    BY <2>19 DEF Redo
  <2> QED
    BY <1>1, <2>1, <2>2, <2>3, <2>4, <2>5, <2>6, <2>7, <2>8, <2>9,
       <2>10, <2>11, <2>12, <2>13, <2>14, <2>15, <2>16, <2>17,
       <2>18, <2>19
       DEF Enter, Steer, Reply, Chance
<1>2. CASE UNCHANGED vars
  BY <1>2 DEF vars
<1> QED
  BY <1>1, <1>2 DEF Next

\* The invariant holds at the start.
LEMMA InitIInv ==
    Init => IInv
<1> SUFFICES ASSUME Init PROVE IInv
  OBVIOUS
<1> USE SteeringAssumption DEF Init
<1>1. TypeOK
  BY DEF TypeOK, Places, MaxRounds
<1>2. Shape
  BY DEF Shape, Before, Held
<1>3. Counted /\ FirstInLine /\ WordsKept
  BY DEF Counted, FirstInLine, Claims, Before, WordsKept
<1> QED
  BY <1>1, <1>2, <1>3 DEF IInv

\* ... and every step keeps it.
THEOREM Inductive ==
    Spec => []IInv
<1>1. ASSUME IInv, [Next]_vars PROVE IInv'
  BY <1>1, TypeStep, ShapeStep, CountedStep, LineStep, KeptStep DEF IInv
<1> QED
  BY <1>1, InitIInv, PTL DEF Spec

\* The types of the variables; in particular no task opens more rounds than the
\* daemon gives it (handle and the rounds around it).
THEOREM TypeCorrect ==
    Spec => []TypeOK
<1>1. IInv => TypeOK
  BY DEF IInv
<1> QED
  BY <1>1, Inductive, PTL

\* One reply on a surface at a time, for those whose words took the line
\* (steer_in_order, reserve_surface) and did not hang before their turn.
THEOREM OneReplyAtATime ==
    Spec => []OneReply
<1>1. IInv => OneReply
  <2> SUFFICES ASSUME IInv, NEW j \in Message, NEW k \in Message,
                      j < k, Claims(j), Claims(k), on[j] = on[k],
                      ~Outside(j), ~Outside(k)
               PROVE  j \in late
    BY DEF OneReply
  <2>1. stage[j] # "none" /\ stage[k] # "none" /\ pc[j] # "done"
    BY DEF IInv, Shape, Claims
  <2> QED
    BY <2>1 DEF IInv, FirstInLine
<1> QED
  BY <1>1, Inductive, PTL

\* Words are held in one place until the model heard them, once, or they came
\* to an end (inject_into_live_turn, the mailbox, the rounds of a task).
THEOREM WordsAreKept ==
    Spec => []WordsKept
<1>1. IInv => WordsKept
  BY DEF IInv
<1> QED
  BY <1>1, Inductive, PTL

=============================================================================
