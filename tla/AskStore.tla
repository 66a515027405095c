------------------------------- MODULE AskStore -------------------------------
(***************************************************************************)
(* The asks table of discord.db (tools/discord/src/common/store.rs), the   *)
(* only meeting point of the discord CLI and the daemon.  Every operation  *)
(* is one SQL statement, so one step; the WHERE clauses are the guards.    *)
(* A row that is not in the table has status "absent".                     *)
(***************************************************************************)
EXTENDS Naturals, FiniteSets

CONSTANTS Ask,        \* ask ids (Discord message ids)
          User,       \* Discord users
          Value,      \* option labels and free texts
          Request,    \* Request[a]: the arguments of the "ask create" that makes a
          MaxTimeout, \* upper bound of --timeout (MAX_TIMEOUT_SECS)
          Retention,  \* how long a resolved row is kept (RETENTION_DAYS)
          InsertLag,  \* bound: seconds from reading the clock to the INSERT
          None        \* "no value": an unset column, an idle process

VARIABLES asks,       \* the table
          now,        \* the clock of the machine, shared by CLI and daemon
          told        \* [ask, result] pairs reported to a human or an agent

Kind == {"choice", "multi_choice", "text"}
Answer == [kind : Kind, values : SUBSET Value, by : User]
RequestType == [options : SUBSET Value, allow_text : BOOLEAN,
                allowed_users : SUBSET User, multi_select : BOOLEAN, timeout : Nat]

ASSUME RequestAssumption == Request \in [Ask -> RequestType]
ASSUME NoneAssumption == None \notin Answer
\* A --timeout may not exceed the retention of resolved rows: both are 30 days.
ASSUME RetentionAssumption ==
    MaxTimeout \in Nat /\ Retention \in Nat /\ MaxTimeout <= Retention
ASSUME LagAssumption == InsertLag \in Nat

Status == {"absent", "pending", "answered", "timed_out"}
Resolved == {"answered", "timed_out"}
Row == [status : Status, answer : Answer \cup {None}, created_at : Nat, timeout_at : Nat]
NoRow == [status |-> "absent", answer |-> None, created_at |-> 0, timeout_at |-> 0]

Result == [status : Resolved, answer : Answer \cup {None}]
ResultOf(a) == [status |-> asks[a].status, answer |-> asks[a].answer]

Pending(a) == asks[a].status = "pending"
Overdue(a) == Pending(a) /\ asks[a].timeout_at <= now

\* The clock is read twice in a row, for created_at and for timeout_at, so a second may
\* begin in between; opening the database and its lock then delay the INSERT.
InsertAsk(a) ==
    \E lag \in 0..InsertLag, skew \in 0..1 :
      /\ skew <= lag /\ lag <= now
      /\ asks' = [asks EXCEPT ![a] =
                    [status |-> "pending", answer |-> None,
                     created_at |-> now - lag,
                     timeout_at |-> now - lag + skew + Request[a].timeout]]

\* A bug to rule out: the UPDATE without its "AND status = 'pending'".
TryAnswerUnguarded(a, ans) ==
    asks' = IF asks[a].status # "absent"
            THEN [asks EXCEPT ![a].status = "answered", ![a].answer = ans]
            ELSE asks

TryAnswer(a, ans) ==
    asks' = IF Pending(a)
            THEN [asks EXCEPT ![a].status = "answered", ![a].answer = ans]
            ELSE asks

TryTimeout(a) ==
    asks' = IF Pending(a) THEN [asks EXCEPT ![a].status = "timed_out"] ELSE asks

\* A bug to rule out: the scan re-returns rows that timed out earlier.
DueAgain == {a \in Ask : asks[a].status \in {"pending", "timed_out"} /\ asks[a].timeout_at <= now}
\* A bug to rule out: no row is ever found due.
DueNever == {a \in Ask : Pending(a) /\ asks[a].timeout_at < asks[a].created_at}

Due == {a \in Ask : Overdue(a)}

ExpireDue == asks' = [a \in Ask |-> IF a \in Due
                                    THEN [asks[a] EXCEPT !.status = "timed_out"]
                                    ELSE asks[a]]

\* A bug to rule out: retention may take the second that the deadline can be late.
StaleInclusive == {a \in Ask : asks[a].status \in Resolved /\ asks[a].created_at + Retention <= now}

Stale == {a \in Ask : asks[a].status \in Resolved /\ asks[a].created_at + Retention < now}

Cleanup == asks' = [a \in Ask |-> IF a \in Stale THEN NoRow ELSE asks[a]]

StoreInit == /\ asks = [a \in Ask |-> NoRow]
             /\ now = 0
             /\ told = {}

StoreTypeOK == /\ asks \in [Ask -> Row]
               /\ now \in Nat
               /\ told \subseteq [ask : Ask, result : Result]

\* What a command prints, or a click callback confirms, about a resolved ask.
Report(a, r) == told' = told \cup {[ask |-> a, result |-> r]}
===============================================================================
