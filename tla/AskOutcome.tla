------------------------------ MODULE AskOutcome ------------------------------
(***************************************************************************)
(* What a human-in-the-loop question promises to everybody who looks at    *)
(* it: it is decided at most once, whoever decides it, and whatever anyone *)
(* is told about it is that decision.  AskHitl implements this module; the *)
(* refinement mapping is there.                                            *)
(***************************************************************************)
CONSTANTS Ask,      \* questions, named by their Discord message id
          Result,   \* the decisions: an adopted answer, or "timed out"
          None      \* no decision

VARIABLES stage,    \* how far a question is
          decision, \* its decision, while it is known
          told      \* [ask, result] pairs some observer has been told

vars == <<stage, decision, told>>

TypeOK == /\ stage \in [Ask -> {"unasked", "pending", "decided", "forgotten"}]
          /\ decision \in [Ask -> Result \cup {None}]
          /\ told \subseteq [ask : Ask, result : Result]

Init == /\ stage = [a \in Ask |-> "unasked"]
        /\ decision = [a \in Ask |-> None]
        /\ told = {}

\* The question becomes answerable.
Register(a) == /\ stage[a] = "unasked"
               /\ stage' = [stage EXCEPT ![a] = "pending"]
               /\ UNCHANGED <<decision, told>>

\* A human's answer decides one question, a sweep of deadlines several at once.
Decide(S, r) == /\ \A a \in S : stage[a] = "pending"
                /\ stage' = [a \in Ask |-> IF a \in S THEN "decided" ELSE stage[a]]
                /\ decision' = [a \in Ask |-> IF a \in S THEN r ELSE decision[a]]
                /\ UNCHANGED told

\* Only the decision is ever reported.
Tell(a) == /\ stage[a] = "decided"
           /\ told' = told \cup {[ask |-> a, result |-> decision[a]]}
           /\ UNCHANGED <<stage, decision>>

\* Retention may drop decisions, never an open question.
Forget(S) == /\ \A a \in S : stage[a] = "decided"
             /\ stage' = [a \in Ask |-> IF a \in S THEN "forgotten" ELSE stage[a]]
             /\ decision' = [a \in Ask |-> IF a \in S THEN None ELSE decision[a]]
             /\ UNCHANGED told

Next == \/ \E a \in Ask : Register(a) \/ Tell(a)
        \/ \E S \in SUBSET Ask : Forget(S) \/ \E r \in Result : Decide(S, r)

Spec == Init /\ [][Next]_vars
===============================================================================
