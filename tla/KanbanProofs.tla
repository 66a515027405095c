------------------------------ MODULE KanbanProofs -----------------------------
(***************************************************************************)
(* Theorems about Kanban, for any number of processes, items and projects  *)
(* and any command lines.                                                  *)
(***************************************************************************)
EXTENDS Kanban, FiniteSetTheorems, TLAPS

-------------------------------------------------------------------------------
(* What a command line carries.                                            *)

LEMMA CommandFields ==
    ASSUME NEW c \in Command
    PROVE  /\ c.op = "add" => c.key \in Key
           /\ c.op \in {"project_add", "project_rm", "next"} => c.project \in Project
           /\ c.op \in Transition => c.id \in Id
           /\ c.op = "assign" => c.project \in Project /\ c.priority \in Priority \cup {None}
           /\ c.op = "priority" => c.priority \in Priority
           /\ c.op = "move" => c.state \in State
BY CommandAssumption DEF AnyCommand, Transition

\* A row whose claim is complete: all of its columns or none.
Claimed(r) == r.agent = r.session /\ (r.claimed_at = None <=> r.session = None)

\* p may make row r (None: no row) the row u: one step along the lifecycle of an item.
Advances(p, r, u) ==
    \/ r = None /\ u.state = "inbox"
    \/ /\ r # None
       /\ \/ r.state = "backlog" /\ u.state = "running" /\ u.project = r.project /\ u.session = p
          \/ /\ r.state \in {"backlog", "running", "done"} /\ u.state = "done"
             /\ u.project = r.project /\ u.session = r.session
          \/ r.project # None /\ u.state = "backlog" /\ u.project = r.project
          \/ u.state \in {"inbox", "unmatched"}
          \/ r.state \in {"inbox", "unmatched"} /\ u.state = "backlog"
          \/ /\ r.state \in {"running", "done"} /\ r.session # None
             /\ u.state = "running" /\ u.project = r.project /\ u.session = r.session
          \/ u.state = r.state /\ u.project = r.project /\ u.session = r.session

\* What a plan lets through is a lawful row again, of the same issue and with a whole
\* claim, stamped with the transaction's clock.
LEMMA UpdatedIsLawful ==
    ASSUME NEW c \in Command, c.op \in Transition, NEW r \in Row, NEW t \in Nat,
           Lawful(r), Claimed(r), ~Unregistered(c), Matches(c, r, r)
    PROVE  LET u == Updated(c, r, t)
           IN /\ u \in Row /\ Lawful(u) /\ Claimed(u)
              /\ u.key = r.key /\ u.updated_at = t
              /\ \A p : Advances(p, r, u)
<1>0. r # None
  BY NoneAssumption
<1> USE DEF Transition, Row, Lawful, Check, ForeignKey, Claimed, State, Advances
<1>1. CASE c.op = "done"
  <2>1. Updated(c, r, t) = [r EXCEPT !.updated_at = t, !.state = "done"]
    BY <1>1 DEF Updated
  <2>2. r.state = "running"
    BY <1>1 DEF Matches
  <2>3. QED  BY <1>0, <2>1, <2>2
<1>2. CASE c.op = "release"
  <2>1. Updated(c, r, t) = [r EXCEPT !.updated_at = t, !.session = None, !.agent = None,
                                     !.claimed_at = None, !.state = "backlog"]
    BY <1>2 DEF Updated, Unclaimed
  <2>2. r.state = "running"
    BY <1>2 DEF Matches
  <2>3. QED  BY <1>0, <2>1, <2>2
<1>3. CASE c.op = "assign"
  <2> DEFINE q == IF c.priority = None THEN r.priority ELSE c.priority
  <2>1. Updated(c, r, t) = [r EXCEPT !.updated_at = t, !.state = "backlog",
                                     !.project = c.project, !.priority = q]
    BY <1>3 DEF Updated
  <2>2. r.state \in {"inbox", "unmatched"}
    BY <1>3 DEF Matches
  <2>3. c.project \in Project /\ c.project \in projects /\ q \in Priority
    BY <1>3, CommandFields DEF Unregistered
  <2>4. c.project # None
    BY <2>3, NoneAssumption
  <2> HIDE DEF q
  <2>5. QED  BY <1>0, <2>1, <2>2, <2>3, <2>4
<1>4. CASE c.op = "priority"
  <2>1. Updated(c, r, t) = [r EXCEPT !.updated_at = t, !.priority = c.priority]
    BY <1>4 DEF Updated
  <2>2. QED  BY <1>0, <1>4, <2>1, CommandFields
<1>5. CASE c.op = "move"
  <2> DEFINE v == IF ClearsClaim(c.state)
                  THEN [r EXCEPT !.updated_at = t, !.session = None, !.agent = None,
                                 !.claimed_at = None]
                  ELSE [r EXCEPT !.updated_at = t]
             q == IF ClearsProject(c.state) THEN None ELSE r.project
  <2>1. Updated(c, r, t) = [v EXCEPT !.state = c.state, !.project = q]
    BY <1>5 DEF Updated, Unclaimed
  <2>2. CanMove(r, c.state) /\ c.state \in State
    BY <1>5, CommandFields DEF Matches
  <2>3. CASE ClearsClaim(c.state)
    <3>1. v = [r EXCEPT !.updated_at = t, !.session = None, !.agent = None, !.claimed_at = None]
      BY <2>3
    <3>2. Updated(c, r, t) =
            [key |-> r.key, state |-> c.state, project |-> q, priority |-> r.priority,
             session |-> None, agent |-> None, claimed_at |-> None,
             created_at |-> r.created_at, updated_at |-> t]
      BY <2>1, <3>1
    <3>3. CASE c.state = "backlog"
      <4>1. q = r.project /\ r.project # None
        BY <2>2, <3>3 DEF ClearsProject, CanMove
      <4>2. QED  BY <1>0, <3>2, <3>3, <4>1
    <3>4. CASE c.state \in {"inbox", "unmatched"}
      <4>1. q = None
        BY <3>4 DEF ClearsProject
      <4>2. QED  BY <1>0, <3>2, <3>4, <4>1
    <3>5. QED  BY <2>3, <3>3, <3>4 DEF ClearsClaim
  <2>4. CASE ~ClearsClaim(c.state)
    <3>1. v = [r EXCEPT !.updated_at = t] /\ q = r.project
      BY <2>4 DEF ClearsClaim, ClearsProject
    <3> HIDE DEF v, q
    <3>2. QED  BY <1>0, <2>1, <2>2, <2>4, <3>1 DEF CanMove, ClearsClaim
  <2>5. QED  BY <2>3, <2>4
<1>6. QED  BY <1>1, <1>2, <1>3, <1>4, <1>5

-------------------------------------------------------------------------------
(* What a command does to the board: nothing, or one row.                  *)

\* The command of p ends by changing nothing, and names no item.
Refuses(p) == items' = items /\ reply'.id = None /\ reply'.outcome # "constraint"

\* The command of p ends by writing row u for item i, and says so.
Writes(p, i, u) ==
    /\ items' = [items EXCEPT ![i] = u]
    /\ projects' = projects
    /\ reply' = [by |-> p, cmd |-> cmd[p], outcome |-> "ok", id |-> i,
                 before |-> items[i], after |-> u]
    /\ Lawful(u) /\ Claimed(u)
    /\ \A j \in OnBoard : items[j].key = u.key => j = i
    /\ u.updated_at <= clock
    /\ items[i] # None /\ u.updated_at < items[i].updated_at => cmd[p].op = "next"
    /\ Advances(p, items[i], u)

\* While p may go on, nobody else is inside a transaction.
LEMMA NobodyElse ==
    ASSUME ProcessesHold, NEW p \in Actor, lock \in {None, p}, NEW q \in Actor \ {p}
    PROVE  pc[q] # "locked"
BY NoneAssumption DEF ProcessesHold

\* A row of the board, and no row.
LEMMA BoardRow ==
    ASSUME TypeOK, NEW i \in Id
    PROVE  /\ i \in OnBoard => items[i] \in Row
           /\ i \notin OnBoard => items[i] = None
BY DEF TypeOK, OnBoard

\* next: the claimant gets an item of the backlog, whole.
LEMMA ClaimNextWrites ==
    ASSUME IInv, NEW p \in Actor, ClaimNext(p)
    PROVE  /\ Backlog(cmd[p].project) = {} => Refuses(p)
           /\ Backlog(cmd[p].project) # {} => \E i \in OnBoard, u \in Row : Writes(p, i, u)
<1>1. CASE Backlog(cmd[p].project) = {}
  BY <1>1 DEF ClaimNext, Refuse, Answer, Refuses
<1>2. CASE Backlog(cmd[p].project) # {}
  <2>1. PICK i \in Backlog(cmd[p].project) :
          LET r == [items[i] EXCEPT !.state = "running", !.session = p, !.agent = p,
                                    !.claimed_at = stamp[p], !.updated_at = stamp[p]]
          IN items' = [items EXCEPT ![i] = r] /\ Answer(p, "ok", i, items[i], r)
    BY <1>2 DEF ClaimNext
  <2>2. i \in Id /\ i \in OnBoard /\ items[i].state = "backlog"
    BY <2>1 DEF Backlog, OnBoard
  <2>3. items[i] \in Row /\ Lawful(items[i])
    BY <2>2, BoardRow DEF IInv, BoardIsSound
  <2>4. stamp[p] \in Nat /\ stamp[p] <= clock
    BY DEF IInv, TypeOK, NothingIsAhead
  <2> DEFINE r == items[i]
             u == [r EXCEPT !.state = "running", !.session = p, !.agent = p,
                            !.claimed_at = stamp[p], !.updated_at = stamp[p]]
  <2>5. /\ u.key = r.key /\ u.state = "running" /\ u.project = r.project
        /\ u.session = p /\ u.agent = p /\ u.claimed_at = stamp[p] /\ u.updated_at = stamp[p]
    BY <2>3 DEF Row
  <2>6. u \in Row
    BY <2>3, <2>4 DEF Row, State
  <2>7. Lawful(u) /\ Claimed(u)
    BY <2>2, <2>3, <2>4, <2>5, NoneAssumption DEF Lawful, Check, ForeignKey, Claimed
  <2>8. \A j \in OnBoard : items[j].key = u.key => j = i
    BY <2>2, <2>5 DEF IInv, BoardIsSound
  <2>9. items' = [items EXCEPT ![i] = u] /\ projects' = projects /\ cmd[p].op = "next"
        /\ reply' = [by |-> p, cmd |-> cmd[p], outcome |-> "ok", id |-> i,
                     before |-> items[i], after |-> u]
    BY <2>1 DEF ClaimNext, Answer
  <2>10. u.updated_at <= clock
    BY <2>4, <2>5
  <2>11. Advances(p, items[i], u)
    BY <2>2, <2>5 DEF Advances, OnBoard
  <2> HIDE DEF u
  <2>12. QED  BY <2>2, <2>6, <2>7, <2>8, <2>9, <2>10, <2>11 DEF Writes
<1>3. QED  BY <1>1, <1>2

\* add: the minted id is free, so only an issue that is there already is refused.
LEMMA InsertItemWrites ==
    ASSUME IInv, NEW p \in Actor, InsertItem(p)
    PROVE  /\ seen[p] \in [id : Id] /\ items[seen[p].id] = None
           /\ (\E j \in OnBoard : items[j].key = cmd[p].key) => Refuses(p)
           /\ (\A j \in OnBoard : items[j].key # cmd[p].key)
                 => \E u \in Row : Writes(p, seen[p].id, u)
<1>1. cmd[p] \in Command /\ cmd[p].op = "add" /\ pc[p] = "locked"
  BY DEF InsertItem, IInv, ProcessesHold
<1>2. seen[p] \in [id : Id] /\ \A i \in Id : items[i] # None <=> i < seen[p].id
  BY <1>1 DEF IInv, ProcessesHold, Holds, Transition
<1>3. seen[p].id \in Id /\ items[seen[p].id] = None
  BY <1>2 DEF Id
<1> DEFINE i == seen[p].id
           u == [key |-> cmd[p].key, state |-> "inbox", project |-> None, priority |-> 2,
                 session |-> None, agent |-> None, claimed_at |-> None,
                 created_at |-> stamp[p], updated_at |-> stamp[p]]
<1>4. CASE \E j \in Id : items[j] # None /\ items[j].key = cmd[p].key
  BY <1>2, <1>3, <1>4 DEF InsertItem, Refuse, Answer, Refuses, OnBoard
<1>5. CASE \A j \in Id : items[j] # None => items[j].key # cmd[p].key
  <2>1. items' = [items EXCEPT ![i] = u] /\ Answer(p, "ok", i, None, u)
    BY <1>3, <1>5 DEF InsertItem
  <2>2. stamp[p] \in Nat /\ stamp[p] <= clock
    BY DEF IInv, TypeOK, NothingIsAhead
  <2>3. cmd[p].key \in Key
    BY <1>1, CommandFields
  <2>4. u \in Row
    BY <2>2, <2>3, PriorityAssumption DEF Row, State
  <2>5. Lawful(u) /\ Claimed(u)
    BY DEF Lawful, Check, ForeignKey, Claimed
  <2>6. \A j \in OnBoard : items[j].key = u.key => j = i
    BY <1>5 DEF OnBoard
  <2>7. reply' = [by |-> p, cmd |-> cmd[p], outcome |-> "ok", id |-> i,
                  before |-> items[i], after |-> u]
    BY <1>3, <2>1 DEF Answer
  <2>8. projects' = projects /\ u.updated_at <= clock
    BY <2>2 DEF InsertItem
  <2>0. Advances(p, items[i], u)
    BY <1>3 DEF Advances
  <2> HIDE DEF u
  <2>9. Writes(p, i, u)
    BY <1>3, <2>0, <2>1, <2>5, <2>6, <2>7, <2>8 DEF Writes
  <2>10. QED  BY <1>2, <1>3, <1>5, <2>4, <2>9 DEF OnBoard
<1>6. QED  BY <1>4, <1>5

\* Store::apply: the row is still the one its plan was made for.
LEMMA WriteWrites ==
    ASSUME IInv, NEW p \in Actor, Write(p)
    PROVE  Refuses(p) \/ \E u \in Row : Writes(p, cmd[p].id, u)
<1> DEFINE c == cmd[p]
           r == items[c.id]
           u == Updated(c, r, stamp[p])
<1>1. c \in Command /\ c.op \in Transition /\ pc[p] = "locked"
  BY DEF Write, IInv, ProcessesHold
<1>2. r # None /\ seen[p] = r /\ r.updated_at <= stamp[p]
  BY <1>1 DEF IInv, ProcessesHold, Holds, Transition
<1>3. c.id \in Id /\ c.id \in OnBoard
  BY <1>1, <1>2, CommandFields DEF OnBoard
<1>4. r \in Row /\ Lawful(r) /\ Claimed(r)
  BY <1>3, BoardRow DEF IInv, BoardIsSound, Claimed
<1>5. stamp[p] \in Nat /\ stamp[p] <= clock /\ clock \in Nat /\ r.updated_at \in Nat
  BY <1>4 DEF IInv, TypeOK, NothingIsAhead, Row
<1>6. CASE ~Unregistered(c) /\ Matches(c, r, r)
  <2>1. u \in Row /\ Lawful(u) /\ Claimed(u) /\ u.key = r.key /\ u.updated_at = stamp[p]
        /\ Advances(p, r, u)
    BY <1>1, <1>4, <1>5, <1>6, UpdatedIsLawful
  <2>2. items' = [items EXCEPT ![c.id] = u] /\ Answer(p, "ok", c.id, seen[p], u)
    BY <1>2, <1>6, <2>1 DEF Write
  <2>3. \A j \in OnBoard : items[j].key = u.key => j = c.id
    BY <1>3, <2>1 DEF IInv, BoardIsSound
  <2>4. reply' = [by |-> p, cmd |-> c, outcome |-> "ok", id |-> c.id,
                  before |-> items[c.id], after |-> u]
    BY <1>2, <2>2 DEF Answer
  <2>5. projects' = projects
    BY DEF Write
  <2> HIDE DEF u
  <2>6. u.updated_at <= clock /\ ~(u.updated_at < items[c.id].updated_at)
    BY <1>2, <1>5, <2>1
  <2>7. QED  BY <2>1, <2>2, <2>3, <2>4, <2>5, <2>6 DEF Writes
<1>7. CASE Unregistered(c) \/ ~Matches(c, r, r)
  <2>1. items' = items /\ Refuse(p, IF Unregistered(c) THEN "not_found" ELSE "conflict")
    BY <1>2, <1>7 DEF Write
  <2>2. QED  BY <2>1 DEF Refuse, Answer, Refuses
<1>8. QED  BY <1>6, <1>7

-------------------------------------------------------------------------------
(* The inductive invariant.                                                *)

\* An answer has the type of one.
LEMMA RefuseTyping ==
    ASSUME NEW p \in Actor, cmd[p] \in Command, NEW outcome \in Outcome, Refuse(p, outcome)
    PROVE  reply' \in Reply /\ reply'.id = None /\ reply'.outcome = outcome
BY DEF Refuse, Answer, Reply

LEMMA WritesTyping ==
    ASSUME IInv, NEW p \in Actor, cmd[p] \in Command, NEW i \in Id, NEW u \in Row,
           Writes(p, i, u)
    PROVE  items' \in [Id -> Row \cup {None}] /\ reply' \in Reply
<1>1. items \in [Id -> Row \cup {None}]
  BY DEF IInv, TypeOK
<1>2. items' \in [Id -> Row \cup {None}]
  BY <1>1 DEF Writes
<1>3. items[i] \in Row \cup {None}
  BY <1>1
<1>4. reply' \in Reply
  BY <1>3 DEF Writes, Reply, Outcome
<1>5. QED  BY <1>2, <1>4

\* COMMIT, ROLLBACK and exit only touch the process and the lock it may hold.
LEMMA ExitEffect ==
    ASSUME TypeOK, NEW p \in Actor, Exit(p)
    PROVE  /\ lock' \in Actor \cup {None}
           /\ lock # p => lock' = lock
           /\ pc' \in [Actor -> {"idle", "begun", "locked"}] /\ pc'[p] = "idle"
           /\ cmd' \in [Actor -> Command \cup {None}]
           /\ stamp' \in [Actor -> Nat] /\ stamp'[p] = 0
           /\ seen' \in [Actor -> Row \cup [id : Id] \cup {None}]
           /\ \A q \in Actor \ {p} : /\ pc'[q] = pc[q] /\ cmd'[q] = cmd[q]
                                     /\ stamp'[q] = stamp[q] /\ seen'[q] = seen[q]
BY DEF TypeOK, Exit

\* The board stays sound under a write.
LEMMA WriteKeepsBoard ==
    ASSUME IInv, NEW p \in Actor, NEW i \in Id, NEW u \in Row, Writes(p, i, u)
    PROVE  /\ BoardIsSound'
           /\ OnBoard' = OnBoard \cup {i}
           /\ \A j \in OnBoard' : items'[j].updated_at <= clock
<1>1. items \in [Id -> Row \cup {None}] /\ u # None
  BY NoneAssumption DEF IInv, TypeOK
<1>2. items'[i] = u /\ \A j \in Id \ {i} : items'[j] = items[j]
  BY <1>1 DEF Writes
<1>3. OnBoard' = OnBoard \cup {i}
  BY <1>1, <1>2 DEF OnBoard
<1>4. \A j \in OnBoard' : items'[j].updated_at <= clock
  BY <1>2, <1>3 DEF Writes, IInv, NothingIsAhead, OnBoard
<1>5. ASSUME NEW j \in OnBoard'
      PROVE  /\ Check(items'[j]) /\ items'[j].project \in projects' \cup {None}
             /\ Claimed(items'[j])
             /\ \A k \in OnBoard' : items'[k].key = items'[j].key => j = k
  <2>1. projects' = projects
    BY DEF Writes
  <2>2. Lawful(u) /\ Claimed(u)
    BY DEF Writes
  <2>3. CASE j = i
    <3>1. \A k \in OnBoard : items[k].key = u.key => k = i
      BY DEF Writes
    <3>2. QED  BY <1>2, <1>3, <2>1, <2>2, <2>3, <3>1 DEF Lawful, ForeignKey, OnBoard
  <2>4. CASE j # i
    <3>1. j \in OnBoard /\ items'[j] = items[j]
      BY <1>2, <1>3, <2>4 DEF OnBoard
    <3>2. Lawful(items[j]) /\ Claimed(items[j])
      BY <3>1 DEF IInv, BoardIsSound, Claimed
    <3>3. \A k \in OnBoard : items[k].key = items[j].key => j = k
      BY <3>1 DEF IInv, BoardIsSound
    <3>4. u.key # items[j].key
      BY <2>4, <3>1 DEF Writes
    <3>5. QED  BY <1>2, <1>3, <2>1, <3>1, <3>2, <3>3, <3>4 DEF Lawful, ForeignKey, OnBoard
  <2>5. QED  BY <2>3, <2>4
<1>6. BoardIsSound'
  BY <1>5 DEF BoardIsSound, Lawful, ForeignKey, Claimed
<1>7. QED  BY <1>3, <1>4, <1>6

\* Who is inside a transaction is not disturbed by steps that leave the board alone.
LEMMA Undisturbed ==
    ASSUME IInv, NEW q \in Actor, items' = items, lock = q => lock' = q,
           pc'[q] = pc[q], cmd'[q] = cmd[q], stamp'[q] = stamp[q], seen'[q] = seen[q]
    PROVE  /\ pc'[q] # "idle" => cmd'[q] \in Command
           /\ pc'[q] = "locked" => lock' = q /\ Holds(q)'
BY DEF IInv, ProcessesHold, Holds

\* A command that ends leaves the invariant behind, if it leaves the board sound.
LEMMA EndKeepsInvariant ==
    ASSUME IInv, NEW p \in Actor, Exit(p), clock' = clock,
           lock \in {None, p} \/ items' = items,
           projects' \subseteq Project, items' \in [Id -> Row \cup {None}], reply' \in Reply,
           BoardIsSound', IdsAreDense', \A j \in OnBoard' : items'[j].updated_at <= clock
    PROVE  IInv'
<1>1. TypeOK
  BY DEF IInv
<1>2. TypeOK'
  BY <1>1, ExitEffect DEF TypeOK
<1>3. ASSUME NEW q \in Actor
      PROVE  /\ pc'[q] # "idle" => cmd'[q] \in Command
             /\ pc'[q] = "locked" => lock' = q /\ Holds(q)'
  <2>1. CASE q = p
    BY <1>1, <2>1, ExitEffect
  <2>2. CASE q # p /\ items' = items
    <3>1. /\ pc'[q] = pc[q] /\ cmd'[q] = cmd[q] /\ stamp'[q] = stamp[q]
          /\ seen'[q] = seen[q] /\ (lock = q => lock' = q)
      BY <1>1, <2>2, ExitEffect
    <3>2. QED  BY <2>2, <3>1, Undisturbed
  <2>3. CASE q # p /\ lock \in {None, p}
    <3>1. pc[q] # "locked" /\ pc'[q] = pc[q] /\ cmd'[q] = cmd[q]
      BY <1>1, <2>3, ExitEffect, NobodyElse DEF IInv
    <3>2. QED  BY <3>1 DEF IInv, ProcessesHold
  <2>4. QED  BY <2>1, <2>2, <2>3
<1>4. ProcessesHold'
  BY <1>3 DEF ProcessesHold
<1>5. \A q \in Actor : stamp'[q] <= clock
  BY <1>1, ExitEffect DEF IInv, TypeOK, NothingIsAhead
<1>6. NothingIsAhead'
  BY <1>5 DEF NothingIsAhead
<1>7. QED  BY <1>2, <1>4, <1>6 DEF IInv

\* The same for a command that changed nothing on the board.
LEMMA RefusalKeepsInvariant ==
    ASSUME IInv, NEW p \in Actor, Exit(p), UNCHANGED <<projects, items, clock>>, reply' \in Reply
    PROVE  IInv'
<1>1. BoardIsSound' /\ IdsAreDense'
  BY DEF IInv, BoardIsSound, IdsAreDense, OnBoard, Lawful, ForeignKey
<1>2. \A j \in OnBoard' : items'[j].updated_at <= clock
  BY DEF IInv, NothingIsAhead, OnBoard
<1>3. projects' \subseteq Project /\ items' \in [Id -> Row \cup {None}]
  BY DEF IInv, TypeOK
<1>4. QED  BY <1>1, <1>2, <1>3, EndKeepsInvariant

\* The same for a transition or a claim: it wrote a row that was there.
LEMMA ChangeKeepsInvariant ==
    ASSUME IInv, NEW p \in Actor, Exit(p), clock' = clock, lock \in {None, p},
           cmd[p] \in Command, NEW i \in OnBoard, NEW u \in Row, Writes(p, i, u)
    PROVE  IInv'
<1>1. i \in Id
  BY DEF OnBoard
<1>2. BoardIsSound' /\ OnBoard' = OnBoard /\ \A j \in OnBoard' : items'[j].updated_at <= clock
  BY <1>1, WriteKeepsBoard
<1>3. items' \in [Id -> Row \cup {None}] /\ reply' \in Reply
  BY <1>1, WritesTyping
<1>4. IdsAreDense' /\ projects' \subseteq Project
  BY <1>2 DEF IInv, TypeOK, IdsAreDense, Writes
<1>5. QED  BY <1>2, <1>3, <1>4, EndKeepsInvariant

\* The invariant survives every step of a process.
LEMMA ProcessKeepsInvariant ==
    ASSUME IInv, NEW p \in Actor, Begin(p) \/ Abandon(p) \/ Run(p)
    PROVE  IInv'
<1> USE DEF IInv
<1>0. pc[p] # "idle" => cmd[p] \in Command
  BY DEF ProcessesHold
<1>1. CASE Begin(p)
  <2>1. TypeOK'
    BY <1>1 DEF Begin, TypeOK
  <2>2. ASSUME NEW q \in Actor
        PROVE  /\ pc'[q] # "idle" => cmd'[q] \in Command
               /\ pc'[q] = "locked" => lock' = q /\ Holds(q)'
    <3>1. CASE q = p
      BY <1>1, <3>1 DEF Begin, TypeOK
    <3>2. CASE q # p
      <4>1. /\ items' = items /\ lock' = lock /\ pc'[q] = pc[q] /\ cmd'[q] = cmd[q]
            /\ stamp'[q] = stamp[q] /\ seen'[q] = seen[q]
        BY <1>1, <3>2 DEF Begin, TypeOK
      <4>2. QED  BY <4>1, Undisturbed
    <3>3. QED  BY <3>1, <3>2
  <2>3. ProcessesHold'
    BY <2>2 DEF ProcessesHold
  <2>4. BoardIsSound' /\ IdsAreDense'
    BY <1>1 DEF Begin, BoardIsSound, IdsAreDense, OnBoard, Lawful, ForeignKey
  <2>5. NothingIsAhead'
    BY <1>1 DEF Begin, NothingIsAhead, OnBoard, TypeOK
  <2>6. QED  BY <2>1, <2>3, <2>4, <2>5
<1>2. CASE Abandon(p)
  <2>1. reply' \in Reply
    BY <1>0, <1>2, RefuseTyping DEF Abandon, Outcome
  <2>2. QED  BY <1>2, <2>1, RefusalKeepsInvariant DEF Abandon
<1>3. CASE AddProject(p)
  <2>1. cmd[p] \in Command /\ cmd[p].op = "project_add"
    BY <1>0, <1>3 DEF AddProject
  <2>2. projects' = projects \cup {cmd[p].project} /\ cmd[p].project \in Project
    BY <1>3, <2>1, CommandFields DEF AddProject
  <2>3. reply' \in Reply
    BY <1>3, <2>1, RefuseTyping DEF AddProject, Outcome
  <2>4. items' = items /\ clock' = clock /\ Exit(p)
    BY <1>3 DEF AddProject
  <2>5. BoardIsSound' /\ IdsAreDense'
    BY <2>2, <2>4 DEF BoardIsSound, IdsAreDense, OnBoard, Lawful, ForeignKey
  <2>6. \A j \in OnBoard' : items'[j].updated_at <= clock
    BY <2>4 DEF NothingIsAhead, OnBoard
  <2>7. projects' \subseteq Project /\ items' \in [Id -> Row \cup {None}]
    BY <2>2, <2>4 DEF TypeOK
  <2>8. QED  BY <2>3, <2>4, <2>5, <2>6, <2>7, EndKeepsInvariant
<1>4. CASE RemoveProject(p)
  <2> DEFINE q == cmd[p].project
  <2>1. cmd[p] \in Command /\ items' = items /\ clock' = clock /\ Exit(p)
    BY <1>0, <1>4 DEF RemoveProject
  <2>2. reply' \in Reply
    BY <1>4, <2>1, RefuseTyping DEF RemoveProject, Outcome
  <2>3. CASE projects' = projects
    BY <2>1, <2>2, <2>3, RefusalKeepsInvariant
  <2>4. CASE projects' = projects \ {q} /\ ~Referenced(q)
    <3>1. \A j \in OnBoard : items[j].project # q
      BY <2>4 DEF Referenced, OnBoard
    <3>2. BoardIsSound' /\ IdsAreDense'
      BY <2>1, <2>4, <3>1 DEF BoardIsSound, IdsAreDense, OnBoard, Lawful, ForeignKey
    <3>3. \A j \in OnBoard' : items'[j].updated_at <= clock
      BY <2>1 DEF NothingIsAhead, OnBoard
    <3>4. projects' \subseteq Project /\ items' \in [Id -> Row \cup {None}]
      BY <2>1, <2>4 DEF TypeOK
    <3>5. QED  BY <2>1, <2>2, <3>2, <3>3, <3>4, EndKeepsInvariant
  <2>5. QED  BY <1>4, <2>3, <2>4 DEF RemoveProject
<1>5. CASE ClaimNext(p)
  <2>1. cmd[p] \in Command /\ Exit(p) /\ UNCHANGED <<projects, clock>> /\ lock \in {None, p}
    BY <1>0, <1>5 DEF ClaimNext
  <2>2. CASE Backlog(cmd[p].project) = {}
    <3>1. Refuse(p, "empty") /\ items' = items
      BY <1>5, <2>2 DEF ClaimNext
    <3>2. reply' \in Reply
      BY <2>1, <3>1, RefuseTyping DEF Outcome
    <3>3. QED  BY <2>1, <3>1, <3>2, RefusalKeepsInvariant
  <2>3. CASE Backlog(cmd[p].project) # {}
    <3>1. PICK i \in OnBoard, u \in Row : Writes(p, i, u)
      BY <1>5, <2>3, ClaimNextWrites
    <3>2. QED  BY <2>1, <3>1, ChangeKeepsInvariant
  <2>4. QED  BY <2>2, <2>3
<1>6. CASE MintId(p)
  <2>1. PICK n \in 0..MaxItems : OnBoard = 1..n
    BY DEF IdsAreDense
  <2>2. n \in Nat /\ MaxItems \in Nat
    BY <2>1, BoundsAssumption
  <2>3. Minted = n + 1
    <3>1. Cardinality(1..n) = n
      BY <2>2, FS_Interval
    <3>2. Minted = Cardinality(OnBoard) + 1
      BY DEF Minted, OnBoard
    <3>3. QED  BY <2>1, <3>1, <3>2
  <2>4. n + 1 \in Id /\ \A i \in Id : items[i] # None <=> i < n + 1
    <3>1. n + 1 \in Id
      BY <1>6, <2>3 DEF MintId
    <3>2. \A i \in Id : i \in OnBoard <=> i < n + 1
      BY <2>1, <2>2 DEF Id
    <3>3. QED  BY <3>1, <3>2 DEF OnBoard
  <2>5. /\ lock' = p /\ seen' = [seen EXCEPT ![p] = [id |-> n + 1]]
        /\ pc' = [pc EXCEPT ![p] = "locked"] /\ reply' = None
        /\ UNCHANGED <<projects, items, clock, cmd, stamp>>
        /\ pc[p] = "begun" /\ cmd[p].op = "add" /\ lock = None
    BY <1>6, <2>3 DEF MintId
  <2>6. TypeOK'
    BY <2>4, <2>5 DEF TypeOK
  <2>7. ProcessesHold'
    <3>1. ASSUME NEW q \in Actor
          PROVE  /\ pc'[q] # "idle" => cmd'[q] \in Command
                 /\ pc'[q] = "locked" => lock' = q /\ Holds(q)'
      <4>1. CASE q = p
        <5>1. seen'[p] = [id |-> n + 1]
          BY <2>5 DEF TypeOK
        <5>2. QED  BY <1>0, <2>4, <2>5, <4>1, <5>1 DEF Holds
      <4>2. CASE q # p
        <5>1. pc[q] # "locked" /\ pc'[q] = pc[q] /\ cmd'[q] = cmd[q]
          BY <2>5, <4>2, NobodyElse DEF TypeOK
        <5>2. QED  BY <5>1 DEF ProcessesHold
      <4>3. QED  BY <4>1, <4>2
    <3>2. QED  BY <3>1 DEF ProcessesHold
  <2>8. BoardIsSound' /\ IdsAreDense' /\ NothingIsAhead'
    BY <2>5 DEF BoardIsSound, IdsAreDense, NothingIsAhead, OnBoard, Lawful, ForeignKey
  <2>9. QED  BY <2>6, <2>7, <2>8
<1>7. CASE InsertItem(p)
  <2>1. cmd[p] \in Command /\ Exit(p) /\ UNCHANGED <<projects, clock>> /\ lock \in {None, p}
        /\ cmd[p].op = "add" /\ pc[p] = "locked"
    BY <1>0, <1>7 DEF InsertItem
  <2>2. seen[p] \in [id : Id] /\ \A i \in Id : items[i] # None <=> i < seen[p].id
    BY <2>1 DEF ProcessesHold, Holds, Transition
  <2>3. CASE \E j \in OnBoard : items[j].key = cmd[p].key
    <3>1. Refuse(p, "conflict") /\ items' = items
      BY <1>7, <2>3 DEF InsertItem, OnBoard
    <3>2. reply' \in Reply
      BY <2>1, <3>1, RefuseTyping DEF Outcome
    <3>3. QED  BY <2>1, <3>1, <3>2, RefusalKeepsInvariant
  <2>4. CASE \A j \in OnBoard : items[j].key # cmd[p].key
    <3> DEFINE i == seen[p].id
    <3>1. i \in Id
      BY <2>2
    <3>2. PICK u \in Row : Writes(p, i, u)
      BY <1>7, <2>4, InsertItemWrites
    <3>3. items' \in [Id -> Row \cup {None}] /\ reply' \in Reply
      BY <2>1, <3>1, <3>2, WritesTyping
    <3>4. /\ BoardIsSound' /\ OnBoard' = OnBoard \cup {i}
          /\ \A j \in OnBoard' : items'[j].updated_at <= clock
      BY <3>1, <3>2, WriteKeepsBoard
    <3>5. OnBoard' = 1..i /\ i \in 0..MaxItems
      BY <2>2, <3>1, <3>4, BoundsAssumption DEF OnBoard, Id
    <3>6. IdsAreDense'
      BY <3>5 DEF IdsAreDense
    <3>7. projects' \subseteq Project
      BY <2>1 DEF TypeOK
    <3> HIDE DEF i
    <3>8. QED  BY <2>1, <3>3, <3>4, <3>6, <3>7, EndKeepsInvariant
  <2>5. QED  BY <2>3, <2>4
<1>8. CASE Snapshot(p)
  <2>1. cmd[p] \in Command /\ cmd[p].op \in Transition /\ cmd[p].id \in Id /\ lock = None
        /\ UNCHANGED <<projects, items, clock>>
    BY <1>0, <1>8, CommandFields DEF Snapshot
  <2>2. CASE items[cmd[p].id] = None
    <3>1. Refuse(p, "not_found") /\ Exit(p)
      BY <1>8, <2>2 DEF Snapshot
    <3>2. reply' \in Reply
      BY <2>1, <3>1, RefuseTyping DEF Outcome
    <3>3. QED  BY <2>1, <3>1, <3>2, RefusalKeepsInvariant
  <2>3. CASE items[cmd[p].id] # None
    <3> DEFINE r == items[cmd[p].id]
    <3>1. /\ lock' = p /\ seen' = [seen EXCEPT ![p] = r] /\ stamp' = [stamp EXCEPT ![p] = clock]
          /\ pc' = [pc EXCEPT ![p] = "locked"] /\ reply' = None /\ cmd' = cmd
      BY <1>8, <2>3 DEF Snapshot
    <3>2. r \in Row /\ cmd[p].id \in OnBoard
      BY <2>1, <2>3, BoardRow DEF OnBoard
    <3>3. TypeOK'
      BY <2>1, <3>1, <3>2 DEF TypeOK
    <3>4. ASSUME NEW q \in Actor
          PROVE  /\ pc'[q] # "idle" => cmd'[q] \in Command
                 /\ pc'[q] = "locked" => lock' = q /\ Holds(q)'
      <4>1. CASE q = p
        <5>1. seen'[p] = r /\ stamp'[p] = clock /\ r.updated_at <= clock
          BY <3>1, <3>2 DEF TypeOK, NothingIsAhead
        <5>2. QED  BY <2>1, <2>3, <3>1, <4>1, <5>1 DEF Holds
      <4>2. CASE q # p
        <5>1. pc[q] # "locked" /\ pc'[q] = pc[q] /\ cmd'[q] = cmd[q]
          BY <2>1, <3>1, <4>2, NobodyElse DEF TypeOK
        <5>2. QED  BY <5>1 DEF ProcessesHold
      <4>3. QED  BY <4>1, <4>2
    <3>5. ProcessesHold'
      BY <3>4 DEF ProcessesHold
    <3>6. BoardIsSound' /\ IdsAreDense'
      BY <2>1 DEF BoardIsSound, IdsAreDense, OnBoard, Lawful, ForeignKey
    <3>7. NothingIsAhead'
      BY <2>1, <3>1 DEF NothingIsAhead, OnBoard, TypeOK
    <3>8. QED  BY <3>3, <3>5, <3>6, <3>7
  <2>4. QED  BY <2>2, <2>3
<1>9. CASE Write(p)
  <2>1. cmd[p] \in Command /\ Exit(p) /\ UNCHANGED <<projects, clock>> /\ lock \in {None, p}
        /\ cmd[p].op \in Transition /\ pc[p] = "locked"
    BY <1>0, <1>9 DEF Write
  <2>2. cmd[p].id \in OnBoard
    BY <2>1, CommandFields DEF ProcessesHold, Holds, Transition, OnBoard
  <2>3. CASE Refuses(p)
    <3>1. reply' \in Reply
      <4> DEFINE c == cmd[p]
                 fits == ~Unregistered(c) /\ Matches(c, seen[p], items[c.id])
                 outcome == IF Unregistered(c) THEN "not_found"
                            ELSE IF fits THEN "constraint" ELSE "conflict"
      <4>1. reply'.id = None /\ cmd[p].id # None
        BY <2>2, <2>3, NoneAssumption DEF Refuses, OnBoard, Id
      <4>2. Refuse(p, outcome)
        BY <1>9, <4>1 DEF Write, Answer
      <4>3. outcome \in Outcome
        BY DEF Outcome
      <4> HIDE DEF outcome
      <4>4. QED  BY <2>1, <4>2, <4>3, RefuseTyping
    <3>2. QED  BY <2>1, <2>3, <3>1, RefusalKeepsInvariant DEF Refuses
  <2>4. CASE \E u \in Row : Writes(p, cmd[p].id, u)
    BY <2>1, <2>2, <2>4, ChangeKeepsInvariant
  <2>5. QED  BY <1>9, <2>3, <2>4, WriteWrites
<1>10. QED  BY <1>1, <1>2, <1>3, <1>4, <1>5, <1>6, <1>7, <1>8, <1>9 DEF Run

-------------------------------------------------------------------------------
(* Safety.                                                                 *)

\* No board, nobody at work.
LEMMA InitInvariant == Init => IInv
<1> SUFFICES ASSUME Init  PROVE IInv
  OBVIOUS
<1>1. TypeOK
  BY DEF Init, TypeOK
<1>2. OnBoard = {}
  BY DEF Init, OnBoard
<1>3. BoardIsSound /\ NothingIsAhead
  BY <1>2 DEF Init, BoardIsSound, NothingIsAhead
<1>4. IdsAreDense
  BY <1>2, BoundsAssumption DEF IdsAreDense
<1>5. ProcessesHold
  BY DEF Init, ProcessesHold
<1>6. QED  BY <1>1, <1>3, <1>4, <1>5 DEF IInv

LEMMA NextInvariant == IInv /\ [Next]_vars => IInv'
<1> SUFFICES ASSUME IInv, [Next]_vars  PROVE IInv'
  OBVIOUS
<1>1. CASE \E p \in Actor : Begin(p) \/ Abandon(p) \/ Run(p)
  BY <1>1, ProcessKeepsInvariant
<1>2. CASE Tick
  <2>1. TypeOK'
    BY <1>2 DEF Tick, IInv, TypeOK
  <2>2. ProcessesHold' /\ BoardIsSound' /\ IdsAreDense'
    BY <1>2 DEF Tick, IInv, ProcessesHold, Holds, BoardIsSound, IdsAreDense, OnBoard, Lawful,
                ForeignKey
  <2>3. clock' = clock + 1 /\ clock \in Nat /\ stamp \in [Actor -> Nat]
        /\ UNCHANGED <<items, stamp>>
    BY <1>2 DEF Tick, IInv, TypeOK
  <2>4. \A i \in OnBoard : items[i].updated_at \in Nat
    BY BoardRow DEF IInv, Row, OnBoard
  <2>5. NothingIsAhead'
    BY <2>3, <2>4 DEF IInv, NothingIsAhead, OnBoard
  <2>6. QED  BY <2>1, <2>2, <2>5 DEF IInv
<1>3. CASE UNCHANGED vars
  BY <1>3 DEF vars, IInv, TypeOK, ProcessesHold, Holds, BoardIsSound, IdsAreDense,
              NothingIsAhead, OnBoard, Lawful, ForeignKey
<1>4. QED  BY <1>1, <1>2, <1>3 DEF Next

\* The inductive invariant holds throughout (insert_item, claim_next, apply).
THEOREM Invariance == Spec => []IInv
BY InitInvariant, NextInvariant, PTL DEF Spec

\* Every variable keeps its type: the columns of the items table, the processes' states
\* and the replies.
THEOREM TypeCorrect == Spec => []TypeOK
<1>1. IInv => TypeOK
  BY DEF IInv
<1>2. QED  BY <1>1, Invariance, PTL

\* Every row keeps its CHECK, names a registered project, is the only one of its issue and
\* carries a whole claim or none, however many processes race (store.rs).
THEOREM BoardStaysSound == Spec => []BoardIsSound
<1>1. IInv => BoardIsSound
  BY DEF IInv
<1>2. QED  BY <1>1, Invariance, PTL

\* What a step of a process does to the board and says about it.
LEMMA ProcessStep ==
    ASSUME IInv, NEW p \in Actor, Begin(p) \/ Abandon(p) \/ Run(p)
    PROVE  \/ items' = items /\ reply' = None
           \/ /\ Refuses(p)
              /\ reply'.cmd.op = "add" /\ reply'.outcome = "conflict" =>
                   \E j \in OnBoard : items[j].key = reply'.cmd.key
           \/ cmd[p] \in Command /\ \E i \in Id, u \in Row : Writes(p, i, u)
<1>0. pc[p] # "idle" => cmd[p] \in Command
  BY DEF IInv, ProcessesHold
<1>1. CASE Begin(p)
  BY <1>1 DEF Begin
<1>2. CASE Abandon(p)
  BY <1>2 DEF Abandon, Refuse, Answer, Refuses
<1>3. CASE AddProject(p)
  BY <1>3 DEF AddProject, Refuse, Answer, Refuses
<1>4. CASE RemoveProject(p)
  BY <1>4 DEF RemoveProject, Refuse, Answer, Refuses
<1>5. CASE ClaimNext(p)
  <2>1. CASE Backlog(cmd[p].project) = {}
    BY <1>5, <2>1 DEF ClaimNext, Refuses, Refuse, Answer
  <2>2. CASE Backlog(cmd[p].project) # {}
    <3>1. cmd[p] \in Command
      BY <1>0, <1>5 DEF ClaimNext
    <3>2. QED  BY <1>5, <2>2, <3>1, ClaimNextWrites DEF OnBoard
  <2>3. QED  BY <2>1, <2>2
<1>6. CASE MintId(p)
  BY <1>6 DEF MintId
<1>7. CASE InsertItem(p)
  <2>1. reply'.cmd = cmd[p]
    BY <1>7 DEF InsertItem, Refuse, Answer
  <2>2. seen[p].id \in Id /\ cmd[p] \in Command
    BY <1>0, <1>7, InsertItemWrites DEF InsertItem
  <2>3. CASE \E j \in OnBoard : items[j].key = cmd[p].key
    BY <1>7, <2>1, <2>3, InsertItemWrites
  <2>4. CASE \A j \in OnBoard : items[j].key # cmd[p].key
    BY <1>7, <2>2, <2>4, InsertItemWrites
  <2>5. QED  BY <2>3, <2>4
<1>8. CASE Snapshot(p)
  BY <1>8 DEF Snapshot, Refuse, Answer, Refuses
<1>9. CASE Write(p)
  <2>1. reply'.cmd.op # "add"
    BY <1>9 DEF Write, Refuse, Answer, Transition
  <2>2. cmd[p].id \in Id /\ cmd[p] \in Command
    BY <1>0, <1>9, CommandFields DEF Write
  <2>3. QED  BY <1>9, <2>1, <2>2, WriteWrites
<1>10. QED  BY <1>1, <1>2, <1>3, <1>4, <1>5, <1>6, <1>7, <1>8, <1>9 DEF Run

\* No reply to a step outside the processes.
LEMMA TickStep == Tick \/ UNCHANGED vars => items' = items /\ reply' = reply
BY DEF Tick, vars

\* The plans refuse all that the schema would: no command ends in a raw CHECK or FOREIGN
\* KEY failure (plan_move, require_project, apply).
THEOREM PlansAreComplete == Spec => []NoOpaqueConflict
<1>1. Init => NoOpaqueConflict
  BY DEF Init, NoOpaqueConflict
<1>2. IInv /\ NoOpaqueConflict /\ [Next]_vars => NoOpaqueConflict'
  <2> SUFFICES ASSUME IInv, NoOpaqueConflict, [Next]_vars  PROVE NoOpaqueConflict'
    OBVIOUS
  <2>1. CASE Tick \/ UNCHANGED vars
    BY <2>1, TickStep DEF NoOpaqueConflict
  <2>2. ASSUME NEW p \in Actor, Begin(p) \/ Abandon(p) \/ Run(p)  PROVE NoOpaqueConflict'
    BY <2>2, ProcessStep DEF Refuses, Writes, NoOpaqueConflict
  <2>3. QED  BY <2>1, <2>2 DEF Next
<1>3. QED  BY <1>1, <1>2, Invariance, PTL DEF Spec

\* An intake is refused as a conflict only if its issue is on the board (insert_item): the
\* id it minted cannot be taken before it inserts.
THEOREM OnlyDuplicatesAreRefused == Spec => []AddRefusedOnlyForDuplicates
<1>1. Init => AddRefusedOnlyForDuplicates
  BY DEF Init, AddRefusedOnlyForDuplicates
<1>2. IInv /\ AddRefusedOnlyForDuplicates /\ [Next]_vars => AddRefusedOnlyForDuplicates'
  <2> SUFFICES ASSUME IInv, AddRefusedOnlyForDuplicates, [Next]_vars
               PROVE  AddRefusedOnlyForDuplicates'
    OBVIOUS
  <2>1. CASE Tick \/ UNCHANGED vars
    BY <2>1, TickStep DEF AddRefusedOnlyForDuplicates, OnBoard
  <2>2. ASSUME NEW p \in Actor, Begin(p) \/ Abandon(p) \/ Run(p)
        PROVE  AddRefusedOnlyForDuplicates'
    <3>1. CASE items' = items /\ reply' = None
      BY <3>1 DEF AddRefusedOnlyForDuplicates
    <3>2. CASE /\ Refuses(p)
               /\ reply'.cmd.op = "add" /\ reply'.outcome = "conflict" =>
                    \E j \in OnBoard : items[j].key = reply'.cmd.key
      BY <3>2 DEF Refuses, AddRefusedOnlyForDuplicates, OnBoard
    <3>3. CASE \E i \in Id, u \in Row : Writes(p, i, u)
      BY <3>3 DEF Writes, AddRefusedOnlyForDuplicates
    <3>4. QED  BY <2>2, <3>1, <3>2, <3>3, ProcessStep
  <2>3. QED  BY <2>1, <2>2 DEF Next
<1>3. QED  BY <1>1, <1>2, Invariance, PTL DEF Spec

\* The before and after that a command reports are the row that it replaced and the row
\* that it left (Store::apply).
THEOREM RepliesAreHonest == Spec => HonestTransition
<1> DEFINE A == reply' # reply /\ reply' # None /\ reply'.id # None =>
                  items[reply'.id] = reply'.before /\ items'[reply'.id] = reply'.after
<1>1. IInv /\ [Next]_vars => A
  <2> SUFFICES ASSUME IInv, [Next]_vars  PROVE A
    OBVIOUS
  <2>1. CASE Tick \/ UNCHANGED vars
    BY <2>1, TickStep
  <2>2. ASSUME NEW p \in Actor, Begin(p) \/ Abandon(p) \/ Run(p)  PROVE A
    BY <2>2, ProcessStep DEF Refuses, Writes, IInv, TypeOK
  <2>3. QED  BY <2>1, <2>2 DEF Next
<1>2. QED  BY <1>1, Invariance, PTL DEF Spec, HonestTransition

\* Only a claim can take the timestamp of a row back in time: every transition reads the
\* clock under the lock (Store::apply).
THEOREM TransitionsNeverBackdate == Spec => ApplyNeverBackdates
<1> DEFINE A == \A i \in OnBoard : items'[i].updated_at < items[i].updated_at =>
                                      reply'.cmd.op = "next"
<1>1. IInv /\ [Next]_vars => A
  <2> SUFFICES ASSUME IInv, [Next]_vars, NEW i \in OnBoard,
                      items'[i].updated_at < items[i].updated_at
               PROVE  reply'.cmd.op = "next"
    OBVIOUS
  <2>1. items[i].updated_at \in Nat /\ i \in Id
    BY BoardRow DEF IInv, OnBoard, Row
  <2>2. items'[i] # items[i]
    BY <2>1
  <2>3. PICK p \in Actor : Begin(p) \/ Abandon(p) \/ Run(p)
    BY <2>2, TickStep DEF Next
  <2>4. PICK j \in Id, u \in Row : Writes(p, j, u)
    BY <2>2, <2>3, ProcessStep DEF Refuses
  <2>5. j = i /\ items'[i] = u /\ items[i] # None
    BY <2>1, <2>2, <2>4 DEF Writes, IInv, TypeOK, OnBoard
  <2>6. QED  BY <2>4, <2>5 DEF Writes
<1>2. QED  BY <1>1, Invariance, PTL DEF Spec, ApplyNeverBackdates

-------------------------------------------------------------------------------
(* Refinement.                                                             *)

\* A write changes one card, and the reply says which and how.
LEMMA WriteChangesCard ==
    ASSUME IInv, NEW p \in Actor, cmd[p] \in Command, NEW i \in Id, NEW u \in Row,
           Writes(p, i, u)
    PROVE  Rules!Change(p, i, Face(u))
<1>1. reply' \in Reply /\ items \in [Id -> Row \cup {None}]
  BY WritesTyping DEF IInv, TypeOK
<1>2. reply' # None /\ i # None
  BY <1>1, NoneAssumption DEF Id
<1>3. /\ reply'.by = p /\ reply'.id = i /\ reply'.before = items[i] /\ reply'.after = u
      /\ items' = [items EXCEPT ![i] = u]
  BY DEF Writes
<1>4. Said' = [by |-> p, id |-> i, before |-> Board[i], after |-> Face(u)]
  BY <1>2, <1>3 DEF Said, Board
<1>5. Board' = [Board EXCEPT ![i] = Face(u)]
  BY <1>1, <1>3 DEF Board
<1>6. QED  BY <1>4, <1>5 DEF Rules!Change

\* A step along the lifecycle of an item is one of the moves of BoardRules.
LEMMA WriteFollowsRules ==
    ASSUME IInv, NEW p \in Actor, cmd[p] \in Command, NEW i \in Id, NEW u \in Row,
           Writes(p, i, u)
    PROVE  Rules!Next
<1> DEFINE r == items[i]
<1>1. Rules!Change(p, i, Face(u))
  BY WriteChangesCard
<1>2. u # None /\ Face(u) = [state |-> u.state, project |-> u.project, owner |-> u.session]
  BY NoneAssumption DEF Face
<1>3. /\ Lawful(u) /\ Advances(p, r, u)
      /\ u.project \in Project \cup {None} /\ u.session \in Actor \cup {None}
  BY DEF Writes, Row
<1>4. CASE r = None
  <2>1. Board[i] = None
    BY <1>4 DEF Board, Face
  <2>2. Face(u) = [state |-> "inbox", project |-> None, owner |-> None]
    BY <1>2, <1>3, <1>4 DEF Advances, Lawful, Check
  <2>3. Rules!Arrive(p, i)
    BY <1>1, <2>1, <2>2 DEF Rules!Arrive
  <2>4. QED  BY <2>3 DEF Rules!Next
<1>5. CASE r # None
  <2>1. r \in Row /\ Lawful(r)
    BY <1>5, BoardRow DEF IInv, BoardIsSound, OnBoard
  <2>2. /\ Board[i] = [state |-> r.state, project |-> r.project, owner |-> r.session]
        /\ Board[i] # None
    <3>1. Board[i] = [state |-> r.state, project |-> r.project, owner |-> r.session]
      BY <1>5 DEF Board, Face
    <3>2. Board[i] \in Card
      BY <2>1, <3>1 DEF Row, Card
    <3>3. QED  BY <3>1, <3>2, NoneAssumption
  <2> DEFINE b == Board[i]
             c == Face(u)
  <2> HIDE DEF b, c
  <2>3. /\ b \in Card /\ c \in Card
        /\ b.state = r.state /\ b.project = r.project /\ b.owner = r.session
        /\ c.state = u.state /\ c.project = u.project /\ c.owner = u.session
        /\ Rules!Change(p, i, c) /\ Board[i] = b /\ b # None
    BY <1>1, <1>2, <1>3, <2>1, <2>2 DEF Row, Card, b, c
  <2>4. Check(r) /\ Check(u)
    BY <1>3, <2>1 DEF Lawful
  <2>5. \/ Rules!Claim(p, i) \/ Rules!Finish(p, i) \/ Rules!Drop(p, i)
        \/ Rules!Assign(p, i) \/ Rules!Reopen(p, i) \/ Rules!Touch(p, i)
    <3>1. CASE r.state = "backlog" /\ u.state = "running" /\ u.project = r.project
               /\ u.session = p
      <4>1. c = [b EXCEPT !.state = "running", !.owner = p]
        BY <2>3, <3>1 DEF Card
      <4>2. b.state = "backlog" /\ b.owner = None
        BY <2>3, <2>4, <3>1 DEF Check
      <4>3. QED  BY <2>3, <4>1, <4>2 DEF Rules!Claim
    <3>2. CASE /\ r.state \in {"backlog", "running", "done"} /\ u.state = "done"
               /\ u.project = r.project /\ u.session = r.session
      <4>1. c = [b EXCEPT !.state = "done"]
        BY <2>3, <3>2 DEF Card
      <4>2. QED  BY <2>3, <3>2, <4>1 DEF Rules!Finish
    <3>3. CASE r.project # None /\ u.state = "backlog" /\ u.project = r.project
      <4>1. c = [b EXCEPT !.state = "backlog", !.owner = None]
        BY <2>3, <2>4, <3>3 DEF Card, Check
      <4>2. QED  BY <2>3, <3>3, <4>1 DEF Rules!Drop
    <3>4. CASE u.state \in {"inbox", "unmatched"}
      <4>1. c = [state |-> u.state, project |-> None, owner |-> None]
        BY <2>3, <2>4, <3>4 DEF Card, Check
      <4>2. QED  BY <2>3, <3>4, <4>1 DEF Rules!Drop
    <3>5. CASE r.state \in {"inbox", "unmatched"} /\ u.state = "backlog"
      <4>1. c = [state |-> "backlog", project |-> u.project, owner |-> None]
        BY <2>3, <2>4, <3>5 DEF Card, Check
      <4>2. u.project \in Project
        BY <1>3, <2>4, <3>5 DEF Check
      <4>3. QED  BY <2>3, <3>5, <4>1, <4>2 DEF Rules!Assign
    <3>6. CASE /\ r.state \in {"running", "done"} /\ r.session # None
               /\ u.state = "running" /\ u.project = r.project /\ u.session = r.session
      <4>1. c = [b EXCEPT !.state = "running"]
        BY <2>3, <3>6 DEF Card
      <4>2. QED  BY <2>3, <3>6, <4>1 DEF Rules!Reopen
    <3>7. CASE u.state = r.state /\ u.project = r.project /\ u.session = r.session
      <4>1. c = b
        BY <2>3, <3>7 DEF Card
      <4>2. QED  BY <2>3, <4>1 DEF Rules!Touch
    <3>8. QED  BY <1>3, <1>5, <3>1, <3>2, <3>3, <3>4, <3>5, <3>6, <3>7 DEF Advances
  <2>6. QED  BY <2>2, <2>5 DEF Rules!Next
<1>6. QED  BY <1>4, <1>5

\* An empty board is an empty board of BoardRules.
LEMMA InitFollowsRules == Init => Rules!Init
BY DEF Init, Rules!Init, Board, Said, Face

\* Every step is a move of BoardRules, or changes nothing that it talks about.
LEMMA NextFollowsRules == IInv /\ [Next]_vars => [Rules!Next]_(Rules!vars)
<1> SUFFICES ASSUME IInv, [Next]_vars  PROVE [Rules!Next]_(Rules!vars)
  OBVIOUS
<1>1. CASE Tick \/ UNCHANGED vars
  BY <1>1, TickStep DEF Rules!vars, Board, Said
<1>2. ASSUME NEW p \in Actor, Begin(p) \/ Abandon(p) \/ Run(p)  PROVE Rules!Next
  <2>1. CASE items' = items /\ (reply' = None \/ reply'.id = None)
    BY <2>1 DEF Rules!Next, Board, Said
  <2>2. CASE cmd[p] \in Command /\ \E i \in Id, u \in Row : Writes(p, i, u)
    BY <2>2, WriteFollowsRules
  <2>3. QED  BY <1>2, <2>1, <2>2, ProcessStep DEF Refuses
<1>3. QED  BY <1>1, <1>2 DEF Next

\* The commands, however they interleave, implement the lifecycle of BoardRules: exclusive
\* claims, no owner but by a claim, and replies that name the change that was made.
THEOREM Refinement == Spec => ImplementsBoardRules
BY InitFollowsRules, NextFollowsRules, Invariance, PTL DEF Spec, ImplementsBoardRules, Rules!Spec
===============================================================================
