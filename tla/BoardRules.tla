------------------------------- MODULE BoardRules ------------------------------
(***************************************************************************)
(* What the kanban board promises to the agents and the people around it:  *)
(* items move one at a time along the lifecycle of docs/kanban-board.md,   *)
(* nobody comes to own an item but by claiming it, and the reply of a      *)
(* command names the very change it made.  Kanban implements this module.  *)
(***************************************************************************)
CONSTANTS Id, Project, Actor, None

VARIABLES board,  \* what is known of each item: state, project and owner
          reply   \* the change the command that just ended reported, or None

vars == <<board, reply>>

Card == [state : {"inbox", "unmatched", "backlog", "running", "done"},
         project : Project \cup {None}, owner : Actor \cup {None}]

Init == /\ board = [i \in Id |-> None]
        /\ reply = None

\* The card of item i becomes c, and p is told so.
Change(p, i, c) ==
    /\ reply' = [by |-> p, id |-> i, before |-> board[i], after |-> c]
    /\ board' = [board EXCEPT ![i] = c]

Arrive(p, i) == /\ board[i] = None
                /\ Change(p, i, [state |-> "inbox", project |-> None, owner |-> None])

\* A claim is exclusive: the item has no owner, and then the claimant.
Claim(p, i) == /\ board[i].state = "backlog" /\ board[i].owner = None
               /\ Change(p, i, [board[i] EXCEPT !.state = "running", !.owner = p])

Finish(p, i) == /\ board[i].state \in {"backlog", "running", "done"}
                /\ Change(p, i, [board[i] EXCEPT !.state = "done"])

\* Back to where nobody owns it: to the project's backlog or out of the project.
Drop(p, i) ==
    \/ /\ board[i].project # None
       /\ Change(p, i, [board[i] EXCEPT !.state = "backlog", !.owner = None])
    \/ \E s \in {"inbox", "unmatched"} :
          Change(p, i, [state |-> s, project |-> None, owner |-> None])

Assign(p, i) == /\ board[i].state \in {"inbox", "unmatched"}
                /\ \E q \in Project :
                      Change(p, i, [state |-> "backlog", project |-> q, owner |-> None])

\* A finished item goes back to whoever finished it; nobody else can be made its owner.
Reopen(p, i) == /\ board[i].state \in {"running", "done"} /\ board[i].owner # None
                /\ Change(p, i, [board[i] EXCEPT !.state = "running"])

\* A correction of something that is not on the card.
Touch(p, i) == Change(p, i, board[i])

Next == \/ reply' = None /\ UNCHANGED board
        \/ \E p \in Actor, i \in Id :
              \/ Arrive(p, i)
              \/ /\ board[i] # None
                 /\ \/ Claim(p, i) \/ Finish(p, i) \/ Drop(p, i) \/ Assign(p, i)
                    \/ Reopen(p, i) \/ Touch(p, i)

Spec == Init /\ [][Next]_vars
===============================================================================
