-------------------------------- MODULE Kanban ---------------------------------
(***************************************************************************)
(* The kanban board (tools/kanban/src): commands of several agents and     *)
(* people, each a process of its own, on one SQLite database.  SQLite      *)
(* serialises writers, so what interleaves is what a command does before   *)
(* it holds the write lock, and, were it not for BEGIN IMMEDIATE, between  *)
(* its SELECT and its UPDATE.                                              *)
(***************************************************************************)
EXTENDS Naturals, FiniteSets

CONSTANTS MaxItems,  \* bound: ids that can be minted
          Project, Key, Actor, None,
          Priority,  \* P0..P3 as 0..3; the schema's default is P2
          Command,   \* the command lines a run exercises
          MaxTime    \* bound of the clock

Id == 1..MaxItems
State == {"inbox", "unmatched", "backlog", "running", "done"}

AnyCommand ==
    [op : {"add"}, key : Key]
      \cup [op : {"project_add", "project_rm", "next"}, project : Project]
      \cup [op : {"done", "release"}, id : Id]
      \cup [op : {"assign"}, id : Id, project : Project, priority : Priority \cup {None}]
      \cup [op : {"priority"}, id : Id, priority : Priority]
      \cup [op : {"move"}, id : Id, state : State]

ASSUME BoundsAssumption == MaxItems \in Nat /\ MaxTime \in Nat
ASSUME PriorityAssumption == Priority \subseteq 0..3 /\ 2 \in Priority
ASSUME CommandAssumption == Command \subseteq AnyCommand

VARIABLES projects, \* the projects table
          items,    \* the items table, None where no item has the id yet
          lock,     \* who holds SQLite's write lock
          clock,    \* seconds of the wall clock
          pc,       \* where each actor's process stands
          cmd,      \* the command line it runs
          stamp,    \* the timestamp it has read
          seen,     \* what the first SELECT of its transaction found
          reply     \* what the command that ended with this step answered

vars == <<projects, items, lock, clock, pc, cmd, stamp, seen, reply>>

Row == [key : Key, state : State, project : Project \cup {None}, priority : Priority,
        session : Actor \cup {None}, agent : Actor \cup {None},
        claimed_at : Nat \cup {None}, created_at : Nat, updated_at : Nat]

\* The composite CHECK of the items table.
Check(r) ==
    \/ r.state \in {"inbox", "unmatched"} /\ r.project = None /\ r.session = None
    \/ r.state = "backlog" /\ r.project # None /\ r.session = None
    \/ r.state = "running" /\ r.project # None /\ r.session # None
    \/ r.state = "done" /\ r.project # None

\* REFERENCES projects(name).
ForeignKey(r) == r.project \in projects \cup {None}

Outcome == {"ok", "empty", "not_found", "conflict", "constraint", "internal"}
Reply == [by : Actor, cmd : Command, outcome : Outcome, id : Id \cup {None},
          before : Row \cup {None}, after : Row \cup {None}]

\* What others see of an item.
Card == [state : State, project : Project \cup {None}, owner : Actor \cup {None}]

ASSUME NoneAssumption ==
    None \notin Project \cup Actor \cup Priority \cup Nat \cup Row \cup Reply \cup Card

Init == /\ projects = {}
        /\ items = [i \in Id |-> None]
        /\ lock = None
        /\ clock = 0
        /\ pc = [p \in Actor |-> "idle"]
        /\ cmd = [p \in Actor |-> None]
        /\ stamp = [p \in Actor |-> 0]
        /\ seen = [p \in Actor |-> None]
        /\ reply = None

TypeOK == /\ projects \subseteq Project
          /\ items \in [Id -> Row \cup {None}]
          /\ lock \in Actor \cup {None}
          /\ clock \in Nat
          /\ pc \in [Actor -> {"idle", "begun", "locked"}]
          /\ cmd \in [Actor -> Command \cup {None}]
          /\ stamp \in [Actor -> Nat]
          /\ seen \in [Actor -> Row \cup [id : Id] \cup {None}]
          /\ reply \in Reply \cup {None}

-------------------------------------------------------------------------------
(* Ends of a command.                                                      *)

Answer(p, outcome, i, before, after) ==
    reply' = [by |-> p, cmd |-> cmd[p], outcome |-> outcome, id |-> i,
              before |-> before, after |-> after]

Refuse(p, outcome) == Answer(p, outcome, None, None, None)

\* A bug to rule out: a refused command ends without rolling back.
ExitNoRollback(p) == /\ pc' = [pc EXCEPT ![p] = "idle"]
                     /\ cmd' = [cmd EXCEPT ![p] = None]
                     /\ stamp' = [stamp EXCEPT ![p] = 0]
                     /\ seen' = [seen EXCEPT ![p] = None]
                     /\ lock' = IF lock = p /\ reply'.outcome = "ok" THEN None ELSE lock

\* COMMIT or ROLLBACK, and exit.
Exit(p) == /\ pc' = [pc EXCEPT ![p] = "idle"]
           /\ cmd' = [cmd EXCEPT ![p] = None]
           /\ stamp' = [stamp EXCEPT ![p] = 0]
           /\ seen' = [seen EXCEPT ![p] = None]
           /\ lock' = IF lock = p THEN None ELSE lock

\* The process starts.  "add", "next" and "project add" read the clock right away,
\* before they queue for the lock.
Begin(p) ==
    /\ pc[p] = "idle"
    /\ pc' = [pc EXCEPT ![p] = "begun"]
    /\ \E c \in Command : cmd' = [cmd EXCEPT ![p] = c]
    /\ stamp' = [stamp EXCEPT ![p] = clock]
    /\ reply' = None
    /\ UNCHANGED <<projects, items, lock, clock, seen>>

\* Busy for longer than the timeout, or killed: the transaction rolls back.
Abandon(p) ==
    /\ pc[p] # "idle"
    /\ Refuse(p, "internal")
    /\ Exit(p)
    /\ UNCHANGED <<projects, items, clock>>

-------------------------------------------------------------------------------
(* Commands of one statement.                                              *)

AddProject(p) ==
    /\ pc[p] = "begun" /\ cmd[p].op = "project_add" /\ lock = None
    /\ projects' = projects \cup {cmd[p].project}
    /\ Refuse(p, IF cmd[p].project \in projects THEN "conflict" ELSE "ok")
    /\ Exit(p)
    /\ UNCHANGED <<items, clock>>

\* A bug to rule out: foreign keys left off on the connection.
ReferencedUnenforced(q) == FALSE

Referenced(q) == \E i \in Id : items[i] # None /\ items[i].project = q

RemoveProject(p) ==
    /\ pc[p] = "begun" /\ cmd[p].op = "project_rm" /\ lock = None
    /\ LET q == cmd[p].project
       IN \/ /\ q \notin projects
             /\ Refuse(p, "not_found")
             /\ UNCHANGED projects
          \/ /\ q \in projects /\ Referenced(q)
             /\ Refuse(p, "conflict")
             /\ UNCHANGED projects
          \/ /\ q \in projects /\ ~Referenced(q)
             /\ projects' = projects \ {q}
             /\ Refuse(p, "ok")
    /\ Exit(p)
    /\ UNCHANGED <<items, clock>>

\* A bug to rule out: the claim's SELECT does not look at the state.
BacklogAnyState(q) == {i \in Id : items[i] # None /\ items[i].project = q}

Backlog(q) == {i \in Id : items[i] # None /\ items[i].project = q /\ items[i].state = "backlog"}

\* ORDER BY priority, created_at.
Before(r, s) == \/ r.priority < s.priority
                \/ r.priority = s.priority /\ r.created_at < s.created_at

ClaimNext(p) ==
    /\ pc[p] = "begun" /\ cmd[p].op = "next" /\ lock = None
    /\ LET ready == Backlog(cmd[p].project)
       IN \/ /\ ready = {}
             /\ Refuse(p, "empty")
             /\ UNCHANGED items
          \/ \E i \in ready :
               LET r == [items[i] EXCEPT !.state = "running", !.session = p, !.agent = p,
                                         !.claimed_at = stamp[p], !.updated_at = stamp[p]]
               IN /\ \A j \in ready : ~Before(items[j], items[i])
                  /\ items' = [items EXCEPT ![i] = r]
                  /\ Answer(p, "ok", i, items[i], r)
    /\ Exit(p)
    /\ UNCHANGED <<projects, clock>>

-------------------------------------------------------------------------------
(* Intake: mint an id and insert, in one transaction.                      *)

Minted == Cardinality({i \in Id : items[i] # None}) + 1

\* A bug to rule out: the two statements run outside a transaction.
MintIdUnlocked(p) ==
    /\ pc[p] = "begun" /\ cmd[p].op = "add" /\ lock = None
    /\ Minted \in Id
    /\ seen' = [seen EXCEPT ![p] = [id |-> Minted]]
    /\ pc' = [pc EXCEPT ![p] = "locked"]
    /\ reply' = None
    /\ UNCHANGED <<projects, items, lock, clock, cmd, stamp>>

MintId(p) ==
    /\ pc[p] = "begun" /\ cmd[p].op = "add" /\ lock = None
    /\ Minted \in Id
    /\ lock' = p
    /\ seen' = [seen EXCEPT ![p] = [id |-> Minted]]
    /\ pc' = [pc EXCEPT ![p] = "locked"]
    /\ reply' = None
    /\ UNCHANGED <<projects, items, clock, cmd, stamp>>

InsertItem(p) ==
    /\ pc[p] = "locked" /\ cmd[p].op = "add" /\ lock \in {None, p}
    /\ LET i == seen[p].id
           k == cmd[p].key
           r == [key |-> k, state |-> "inbox", project |-> None, priority |-> 2,
                 session |-> None, agent |-> None, claimed_at |-> None,
                 created_at |-> stamp[p], updated_at |-> stamp[p]]
       IN \/ /\ items[i] = None
             /\ \A j \in Id : items[j] # None => items[j].key # k
             /\ items' = [items EXCEPT ![i] = r]
             /\ Answer(p, "ok", i, None, r)
          \/ /\ items[i] # None \/ \E j \in Id : items[j] # None /\ items[j].key = k
             /\ Refuse(p, "conflict")
             /\ UNCHANGED items
    /\ Exit(p)
    /\ UNCHANGED <<projects, clock>>

-------------------------------------------------------------------------------
(* Transitions: SELECT, plan and UPDATE in one BEGIN IMMEDIATE transaction. *)

Transition == {"done", "release", "assign", "priority", "move"}

\* Bugs to rule out: SELECT and UPDATE outside a transaction, and a timestamp taken
\* before the lock is.
SnapshotUnlocked(p) ==
    /\ pc[p] = "begun" /\ cmd[p].op \in Transition /\ lock = None
    /\ items[cmd[p].id] # None
    /\ seen' = [seen EXCEPT ![p] = items[cmd[p].id]]
    /\ pc' = [pc EXCEPT ![p] = "locked"]
    /\ reply' = None
    /\ UNCHANGED <<projects, items, lock, clock, cmd, stamp>>

SnapshotStamped(p) ==
    /\ pc[p] = "begun" /\ cmd[p].op \in Transition /\ lock = None
    /\ items[cmd[p].id] # None
    /\ lock' = p
    /\ seen' = [seen EXCEPT ![p] = items[cmd[p].id]]
    /\ pc' = [pc EXCEPT ![p] = "locked"]
    /\ reply' = None
    /\ UNCHANGED <<projects, items, clock, cmd, stamp>>

Snapshot(p) ==
    /\ pc[p] = "begun" /\ cmd[p].op \in Transition /\ lock = None
    /\ \/ /\ items[cmd[p].id] = None
          /\ Refuse(p, "not_found")
          /\ Exit(p)
       \/ /\ items[cmd[p].id] # None
          /\ lock' = p
          /\ seen' = [seen EXCEPT ![p] = items[cmd[p].id]]
          /\ stamp' = [stamp EXCEPT ![p] = clock]
          /\ pc' = [pc EXCEPT ![p] = "locked"]
          /\ reply' = None
          /\ UNCHANGED cmd
    /\ UNCHANGED <<projects, items, clock>>

\* What plan_move refuses: it can invent neither a project nor a claim.
CanMove(r, s) == \/ s \in {"inbox", "unmatched"}
                 \/ s \in {"backlog", "done"} /\ r.project # None
                 \/ s = "running" /\ r.project # None /\ r.session # None

ClearsProject(s) == s \in {"inbox", "unmatched"}

\* A bug to rule out: a move to backlog keeps the claim.
ClearsClaimLess(s) == s \in {"inbox", "unmatched"}

ClearsClaim(s) == s \in {"inbox", "unmatched", "backlog"}

Unclaimed(r) == [r EXCEPT !.session = None, !.agent = None, !.claimed_at = None]

\* The WHERE clause of c's UPDATE on row r; a move is also tied to the snapshot.
Matches(c, snapshot, r) ==
    \/ c.op \in {"done", "release"} /\ r.state = "running"
    \/ c.op = "assign" /\ r.state \in {"inbox", "unmatched"}
    \/ c.op = "priority"
    \/ /\ c.op = "move" /\ CanMove(snapshot, c.state)
       /\ r.state = snapshot.state /\ r.project = snapshot.project
       /\ r.session = snapshot.session

\* A bug to rule out: assign without a priority sets it to NULL.
UpdatedNoCoalesce(c, r, t) ==
    IF c.op = "assign"
    THEN [r EXCEPT !.state = "backlog", !.project = c.project, !.priority = c.priority,
                   !.updated_at = t]
    ELSE r

\* Its SET clause.
Updated(c, r, t) ==
    LET u == [r EXCEPT !.updated_at = t]
    IN CASE c.op = "done" -> [u EXCEPT !.state = "done"]
         [] c.op = "release" -> [Unclaimed(u) EXCEPT !.state = "backlog"]
         [] c.op = "assign" ->
              [u EXCEPT !.state = "backlog", !.project = c.project,
                        !.priority = IF c.priority = None THEN @ ELSE c.priority]
         [] c.op = "priority" -> [u EXCEPT !.priority = c.priority]
         [] c.op = "move" ->
              [(IF ClearsClaim(c.state) THEN Unclaimed(u) ELSE u) EXCEPT
                 !.state = c.state, !.project = IF ClearsProject(c.state) THEN None ELSE @]

Unregistered(c) == c.op = "assign" /\ c.project \notin projects
Lawful(r) == Check(r) /\ ForeignKey(r)

Write(p) ==
    /\ pc[p] = "locked" /\ cmd[p].op \in Transition /\ lock \in {None, p}
    /\ LET c == cmd[p]
           r == items[c.id]
           u == Updated(c, r, stamp[p])
           fits == ~Unregistered(c) /\ Matches(c, seen[p], r)
       IN \/ /\ fits /\ Lawful(u)
             /\ items' = [items EXCEPT ![c.id] = u]
             /\ Answer(p, "ok", c.id, seen[p], u)
          \/ /\ ~(fits /\ Lawful(u))
             /\ Refuse(p, IF Unregistered(c) THEN "not_found"
                          ELSE IF fits THEN "constraint" ELSE "conflict")
             /\ UNCHANGED items
    /\ Exit(p)
    /\ UNCHANGED <<projects, clock>>

-------------------------------------------------------------------------------
Tick == /\ clock < MaxTime
        /\ clock' = clock + 1
        /\ UNCHANGED <<projects, items, lock, pc, cmd, stamp, seen, reply>>

Run(p) == \/ AddProject(p) \/ RemoveProject(p) \/ ClaimNext(p)
          \/ MintId(p) \/ InsertItem(p) \/ Snapshot(p) \/ Write(p)

Next == \/ Tick
        \/ \E p \in Actor : Begin(p) \/ Abandon(p) \/ Run(p)

Spec == Init /\ [][Next]_vars

\* A process that can go on does; nobody has to time out or to start.
FairSpec == Spec /\ \A p \in Actor : WF_vars(Run(p))

-------------------------------------------------------------------------------
(* Properties.                                                             *)

OnBoard == {i \in Id : items[i] # None}

\* Whatever commands race, every row keeps the invariant of its state, names a
\* registered project, is the only one of its issue, and carries all of a claim or
\* none of it (of the claim the schema only ties session_id to the state).
BoardIsSound ==
    \A i \in OnBoard :
        /\ Lawful(items[i])
        /\ \A j \in OnBoard : items[j].key = items[i].key => i = j
        /\ items[i].agent = items[i].session
        /\ items[i].claimed_at = None <=> items[i].session = None

\* The transition a command reports is the one it made: "before" is the row that its
\* write replaced and "after" the row that it left (Store::apply, module doc 6-9).
HonestTransition ==
    [][reply' # reply /\ reply' # None /\ reply'.id # None =>
         items[reply'.id] = reply'.before /\ items'[reply'.id] = reply'.after]_vars

\* No caller meets a raw CHECK or FOREIGN KEY failure: what a transition would break
\* is refused by its plan or its preconditions first (plan_move, require_project).
NoOpaqueConflict == reply # None => reply.outcome # "constraint"

\* An issue is refused as a conflict only because it is on the board already, never
\* because another intake took the id it had minted (insert_item).
AddRefusedOnlyForDuplicates ==
    reply # None /\ reply.cmd.op = "add" /\ reply.outcome = "conflict" =>
        \E i \in OnBoard : items[i].key = reply.cmd.key

\* Except for a claim, which is stamped before it queues, no write of an existing row
\* takes updated_at back in time: apply reads the clock under the lock.
ApplyNeverBackdates ==
    [][\A i \in OnBoard : items'[i].updated_at < items[i].updated_at =>
                              reply'.cmd.op = "next"]_vars

\* The write lock is never kept: every transaction that begins ends, refused or not.
LockIsFreed == (lock # None) ~> (lock = None)

\* docs/kanban-board.md:121: session_id of a done item is the agent that completed it,
\* and NULL if a person completed it.
CreditGoesToCompleter ==
    [][\A i \in OnBoard : items[i].state # "done" /\ items'[i].state = "done" =>
                              items'[i].session \in {None, reply'.by}]_vars

\* The parts of the inductive invariant.  Inside a transaction a process holds the
\* write lock, so what its SELECT found is still there: the number that comes next for
\* an intake, the row it plans to change for a transition.
Holds(p) ==
    \/ /\ cmd[p].op = "add" /\ seen[p] \in [id : Id]
       /\ \A i \in Id : items[i] # None <=> i < seen[p].id
    \/ /\ cmd[p].op \in Transition /\ items[cmd[p].id] # None
       /\ seen[p] = items[cmd[p].id] /\ seen[p].updated_at <= stamp[p]

ProcessesHold == \A p \in Actor : /\ pc[p] # "idle" => cmd[p] \in Command
                                  /\ pc[p] = "locked" => lock = p /\ Holds(p)

\* Ids are given out in order, and no timestamp is of the future.
IdsAreDense == \E n \in 0..MaxItems : OnBoard = 1..n
NothingIsAhead == /\ \A p \in Actor : stamp[p] <= clock
                  /\ \A i \in OnBoard : items[i].updated_at <= clock

\* TypeOK, BoardIsSound and what they need to survive every step, however the
\* processes interleave: insert_item and apply are atomic under BEGIN IMMEDIATE.
IInv == TypeOK /\ BoardIsSound /\ ProcessesHold /\ IdsAreDense /\ NothingIsAhead

Face(r) == IF r = None THEN None
           ELSE [state |-> r.state, project |-> r.project, owner |-> r.session]

Board == [i \in Id |-> Face(items[i])]

Said == IF reply = None \/ reply.id = None THEN None
        ELSE [by |-> reply.by, id |-> reply.id,
              before |-> Face(reply.before), after |-> Face(reply.after)]

Rules == INSTANCE BoardRules WITH board <- Board, reply <- Said

\* The commands implement the lifecycle of docs/kanban-board.md section 4: exclusive
\* claims, no owner but by a claim, and replies that name the change that was made.
ImplementsBoardRules == Rules!Spec
===============================================================================
