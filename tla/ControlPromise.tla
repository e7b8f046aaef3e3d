--------------------------- MODULE ControlPromise ---------------------------
(***************************************************************************)
(* What asking the supervisor promises a command, whatever it takes to     *)
(* carry the request out (src/control.rs): a request withdrawn before it   *)
(* was taken is never acted on, one that was taken is carried out at most  *)
(* once, and an answer that says nothing was done is final.                *)
(***************************************************************************)
CONSTANTS Request,
          Performed,   \* the answers of a request that was acted on
          Refused,     \* the answers of one that never will be
          Interrupted  \* the answer of one that may have been

VARIABLES stage,       \* how far each request came
          said         \* the answers given to it

vars == <<stage, said>>

Init ==
    /\ stage = [r \in Request |-> "unasked"]
    /\ said = [r \in Request |-> {}]

Move(r, from, to) ==
    /\ stage[r] = from
    /\ stage' = [stage EXCEPT ![r] = to]
    /\ UNCHANGED said

Ask(r)      == Move(r, "unasked", "waiting")
Withdraw(r) == Move(r, "waiting", "withdrawn")
Take(r)     == Move(r, "waiting", "taken")
CarryOut(r) == Move(r, "taken", "carried")

\* An answer is given: what was done, or that it may have been.
Say(r) ==
    /\ \/ /\ stage[r] = "carried"
          /\ \E c \in Performed : said' = [said EXCEPT ![r] = @ \cup {c}]
       \/ /\ stage[r] \in {"taken", "carried", "refused"}
          /\ said' = [said EXCEPT ![r] = @ \cup {Interrupted}]
    /\ UNCHANGED stage

\* An answer is given that nothing was done - and nothing will be.
Refuse(r) ==
    /\ stage[r] \in {"taken", "refused"}
    /\ stage' = [stage EXCEPT ![r] = "refused"]
    /\ \E c \in Refused : said' = [said EXCEPT ![r] = @ \cup {c}]

Next == \E r \in Request :
    Ask(r) \/ Withdraw(r) \/ Take(r) \/ CarryOut(r) \/ Say(r) \/ Refuse(r)

Spec == Init /\ [][Next]_vars
=============================================================================
