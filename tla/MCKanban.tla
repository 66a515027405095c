------------------------------- MODULE MCKanban --------------------------------
(***************************************************************************)
(* Kanban for TLC: the command lines each run lets its processes choose    *)
(* from.                                                                   *)
(***************************************************************************)
EXTENDS Kanban, TLC

CONSTANTS a1, a2, belt, k1, k2

Symmetry == Permutations(Actor)

Registry == [op : {"project_add", "project_rm"}, project : {belt}]
Claims == [op : {"next"}, project : {belt}] \cup [op : {"done", "release"}, id : {1}]
Assign(ids, priorities) == [op : {"assign"}, id : ids, project : {belt}, priority : priorities]
Moves == [op : {"move"}, id : {1}, state : State]

\* One item through every transition of its lifecycle, beside the intake of another.
BoardCommands == [op : {"add"}, key : {k1, k2}] \cup Registry \cup Claims \cup Moves
                   \cup Assign({1, 2}, {None}) \cup [op : {"priority"}, id : {1}, priority : {3}]

\* The same for one issue, pushed again and again.
LiveCommands == {c \in BoardCommands : (c.op = "add" => c.key = k1) /\ (c.op = "assign" => c.id = 1)}

\* A claim, and a person who moves the item on.
CreditCommands == [op : {"add"}, key : {k1}] \cup [op : {"project_add", "next"}, project : {belt}]
                    \cup Assign({1}, {None}) \cup [op : {"move"}, id : {1}, state : {"done"}]
===============================================================================
