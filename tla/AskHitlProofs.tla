----------------------------- MODULE AskHitlProofs ----------------------------
(***************************************************************************)
(* Theorems about AskHitl, for any number of asks, users and waiters, any  *)
(* requests and any bounds.                                                *)
(***************************************************************************)
EXTENDS AskHitl, TLAPS

-------------------------------------------------------------------------------
(* Typing.                                                                 *)

\* A resolved row reads as a result, an adopted interaction as an answer.
LEMMA ResultTyping ==
    ASSUME TypeOK, NEW a \in Ask, asks[a].status \in Resolved
    PROVE  ResultOf(a) \in Result
BY DEF TypeOK, StoreTypeOK, Row, Result, ResultOf, Resolved

\* The answer made of an interaction is one the table can hold (try_answer).
LEMMA AnswerTyping ==
    ASSUME NEW i \in Interaction
    PROVE  AnswerOf(i) \in Answer
BY DEF Interaction, AnswerOf, Answer, Kind

(* What each statement of the store does to the table, row by row.         *)

\* insert_ask: one new pending row.
LEMMA InsertAskEffect ==
    ASSUME TypeOK, NEW a \in Ask, InsertAsk(a)
    PROVE  /\ asks' \in [Ask -> Row]
           /\ asks'[a].status = "pending" /\ asks'[a].answer = None
           /\ asks'[a].timeout_at <= asks'[a].created_at + 1 + Request[a].timeout
           /\ \A b \in Ask \ {a} : asks'[b] = asks[b]
<1>1. now \in Nat /\ Request[a].timeout \in Nat /\ asks \in [Ask -> Row]
  BY RequestAssumption DEF TypeOK, StoreTypeOK, RequestType
<1>2. PICK lag \in 0..InsertLag, skew \in 0..1 :
        /\ skew <= lag /\ lag <= now
        /\ asks' = [asks EXCEPT ![a] =
                     [status |-> "pending", answer |-> None, created_at |-> now - lag,
                      timeout_at |-> now - lag + skew + Request[a].timeout]]
  BY DEF InsertAsk
<1> DEFINE created == now - lag
           timeout == now - lag + skew + Request[a].timeout
           row == [status |-> "pending", answer |-> None, created_at |-> created,
                   timeout_at |-> timeout]
<1>3. created \in Nat /\ timeout \in Nat /\ timeout <= created + 1 + Request[a].timeout
  BY <1>1, <1>2, LagAssumption
<1>4. asks' = [asks EXCEPT ![a] = row]
  BY <1>2
<1> HIDE DEF created, timeout
<1>5. row \in Row
  BY <1>3 DEF Row, Status
<1>6. QED  BY <1>1, <1>3, <1>4, <1>5

\* try_answer: a pending row is answered, any other row stays as it is.
LEMMA TryAnswerEffect ==
    ASSUME TypeOK, NEW a \in Ask, NEW ans \in Answer, TryAnswer(a, ans)
    PROVE  /\ asks' \in [Ask -> Row]
           /\ ~Pending(a) => asks' = asks
           /\ Pending(a) => asks'[a] = [status |-> "answered", answer |-> ans,
                                        created_at |-> asks[a].created_at,
                                        timeout_at |-> asks[a].timeout_at]
           /\ \A b \in Ask \ {a} : asks'[b] = asks[b]
BY DEF TypeOK, StoreTypeOK, TryAnswer, Pending, Row, Status

\* A row that timed out: everything else as before.
TimedOut(row) == [status |-> "timed_out", answer |-> row.answer,
                  created_at |-> row.created_at, timeout_at |-> row.timeout_at]

\* try_timeout: a pending row times out, any other row stays as it is.
LEMMA TryTimeoutEffect ==
    ASSUME TypeOK, NEW a \in Ask, TryTimeout(a)
    PROVE  /\ asks' \in [Ask -> Row]
           /\ ~Pending(a) => asks' = asks
           /\ Pending(a) => asks'[a] = TimedOut(asks[a])
           /\ \A b \in Ask \ {a} : asks'[b] = asks[b]
BY DEF TypeOK, StoreTypeOK, TryTimeout, Pending, Row, Status, TimedOut

\* expire_due: the due rows time out, all of them and no other.
LEMMA ExpireDueEffect ==
    ASSUME TypeOK, ExpireDue
    PROVE  /\ asks' \in [Ask -> Row]
           /\ \A a \in Due : asks'[a] = TimedOut(asks[a])
           /\ \A a \in Ask \ Due : asks'[a] = asks[a]
BY DEF TypeOK, StoreTypeOK, ExpireDue, Due, Row, Status, TimedOut

\* cleanup: the stale rows are deleted, all of them and no other.
LEMMA CleanupEffect ==
    ASSUME TypeOK, Cleanup
    PROVE  /\ asks' \in [Ask -> Row]
           /\ \A a \in Stale : asks'[a] = NoRow
           /\ \A a \in Ask \ Stale : asks'[a] = asks[a]
BY DEF TypeOK, StoreTypeOK, Cleanup, Stale, Row, Status, NoRow

\* The empty table and the idle processes have the right types.
LEMMA TypeInit == Init => TypeOK
BY PollAssumption
   DEF Init, StoreInit, ChatInit, CliInit, DaemonInit, TypeOK, StoreTypeOK, ChatTypeOK,
       CliTypeOK, DaemonTypeOK, NoRow, Row, Status, MessageState, CreateState, WaitType,
       WaitState, DaemonState, Reply, PendingEdit

\* What a poll can do to the waiter and to what has been told.
LEMMA SettleEffect ==
    ASSUME TypeOK, NEW w \in Waiter, wait[w].ask \in Ask, Settle(w)
    PROVE  /\ wait' \in [Waiter -> WaitType]
           /\ \A v \in Waiter \ {w} : wait'[v] = wait[v]
           /\ wait'[w].ask = wait[w].ask
           /\ wait'[w].pc \in {"fetch", "resolved", "gaveup", "nosuch"}
           /\ wait'[w].pc = "gaveup" => Pending(wait[w].ask)
           /\ \/ told' = told
              \/ /\ asks[wait[w].ask].status \in Resolved
                 /\ told' = told \cup {[ask |-> wait[w].ask, result |-> ResultOf(wait[w].ask)]}
BY PollAssumption
   DEF TypeOK, CliTypeOK, WaitType, WaitState, Settle, PollAgain, WaitTo, Report

\* The steps of the CLI processes keep the types.
LEMMA TypeCli ==
    ASSUME TypeOK, WaitInv, CliNext
    PROVE  TypeOK'
<1> USE DEF TypeOK, StoreTypeOK, ChatTypeOK, CliTypeOK, DaemonTypeOK, chatVars, cliVars,
            daemonVars, CreateTo, WaitTo, Fault, SetComponents, CreateState, MessageState
<1>u. UNCHANGED <<now, daemonVars>>
  BY DEF CliNext
<1>1. ASSUME NEW a \in Ask, BeginCreate(a, dpc # "down")  PROVE TypeOK'
  BY <1>1, <1>u DEF BeginCreate
<1>2. ASSUME NEW a \in Ask, SendQuestion(a)  PROVE TypeOK'
  BY <1>2, <1>u DEF SendQuestion
<1>3. ASSUME NEW a \in Ask, AttachComponents(a)  PROVE TypeOK'
  BY <1>3, <1>u DEF AttachComponents
<1>4. ASSUME NEW a \in Ask, InsertPending(a)  PROVE TypeOK'
  <2>1. asks' \in [Ask -> Row]
    BY <1>4, InsertAskEffect DEF InsertPending
  <2>2. QED  BY <1>4, <1>u, <2>1 DEF InsertPending
<1>5. ASSUME NEW a \in Ask, StripComponents(a)  PROVE TypeOK'
  BY <1>5, <1>u DEF StripComponents
<1>6. ASSUME NEW a \in Ask, MarkOrphaned(a)  PROVE TypeOK'
  BY <1>6, <1>u DEF MarkOrphaned
<1>7. ASSUME NEW a \in Ask, KillCreate(a)  PROVE TypeOK'
  BY <1>7, <1>u DEF KillCreate
<1>8. ASSUME NEW a \in Ask, AskResult(a)  PROVE TypeOK'
  BY <1>8, <1>u, ResultTyping DEF AskResult, Report
<1>9. ASSUME NEW w \in Waiter, NEW a \in Ask, StartWait(w, a)  PROVE TypeOK'
  BY <1>9, <1>u, PollAssumption DEF StartWait, WaitType, WaitState
<1>10. ASSUME NEW w \in Waiter, WaitStep(w)  PROVE TypeOK'
  <2>0. wait[w].pc \in {"fetch", "expire", "reread"} /\ wait[w].ask \in Ask
    BY <1>10 DEF WaitStep, Fetch, ExpireLocally, Reread, WaitInv
  <2>1. ASSUME Settle(w), UNCHANGED <<asks, chatVars, create, notice>>  PROVE TypeOK'
    BY <2>0, <2>1, <1>u, SettleEffect, ResultTyping
  <2>2. ASSUME WaitTo(w, "expire"), UNCHANGED <<asks, told, chatVars, create, notice>>
        PROVE  TypeOK'
    BY <2>0, <2>2, <1>u DEF WaitType, WaitState
  <2>3. CASE ExpireLocally(w)
    <3>1. asks' \in [Ask -> Row]
      BY <2>0, <2>3, TryTimeoutEffect DEF ExpireLocally
    <3>2. QED  BY <2>0, <2>3, <3>1, <1>u DEF ExpireLocally, WaitType, WaitState
  <2>4. QED  BY <1>10, <2>1, <2>2, <2>3 DEF WaitStep, Fetch, Reread
<1>11. ASSUME NEW w \in Waiter, WaitFails(w)  PROVE TypeOK'
  BY <1>11, <1>u DEF WaitFails, WaitType, WaitState
<1>12. QED
  BY <1>1, <1>2, <1>3, <1>4, <1>5, <1>6, <1>7, <1>8, <1>9, <1>10, <1>11
     DEF CliNext, CreateStep

\* The steps of the daemon keep the types.
LEMMA TypeDaemon ==
    ASSUME TypeOK, HandlerInv, DaemonNext
    PROVE  TypeOK'
<1> USE DEF TypeOK, StoreTypeOK, ChatTypeOK, CliTypeOK, DaemonTypeOK, chatVars, cliVars,
            daemonVars, Fault, SetComponents, MessageState, DaemonState, Reply
<1>u. UNCHANGED <<now, cliVars>>
  BY DEF DaemonNext
<1>1. CASE StartDaemon
  BY <1>1, <1>u DEF StartDaemon
<1>2. CASE StopDaemon
  BY <1>2, <1>u DEF StopDaemon, Vanish
<1>3. CASE CrashDaemon
  BY <1>3, <1>u DEF CrashDaemon, Vanish
<1>4. ASSUME NEW i \in inflight, TakeInteraction(i)  PROVE TypeOK'
  BY <1>4, <1>u DEF TakeInteraction, Verdict
<1>5. CASE Adopt
  <2>1. current \in Interaction /\ current.ask \in Ask /\ AnswerOf(current) \in Answer
    BY <1>5, AnswerTyping DEF Adopt, HandlerInv, Interaction
  <2>2. asks' \in [Ask -> Row]
    BY <1>5, <2>1, TryAnswerEffect DEF Adopt
  <2>3. QED  BY <1>5, <1>u, <2>2 DEF Adopt
<1>6. CASE Respond
  <2>1. current \in Interaction /\ current.ask \in Ask /\ AnswerOf(current) \in Answer
    BY <1>6, AnswerTyping DEF Respond, HandlerInv, Interaction
  <2>2. [status |-> "answered", answer |-> AnswerOf(current)] \in Result
    BY <2>1 DEF Result, Resolved
  <2>3. <<current.user, current.ask>> \in User \X Ask
    BY <2>1 DEF Interaction
  <2>4. QED  BY <1>6, <1>u, <2>1, <2>2, <2>3 DEF Respond, Callback, Report
<1>7. CASE BeginSweep
  <2>1. asks' \in [Ask -> Row]
    BY <1>7, ExpireDueEffect DEF BeginSweep
  <2>2. FreshEdits \subseteq PendingEdit
    BY DEF FreshEdits, PendingEdit, Due
  <2>3. QED  BY <1>7, <1>u, <2>1, <2>2 DEF BeginSweep
<1>8. CASE EndSweep
  BY <1>8, <1>u DEF EndSweep
<1>9. CASE RunCleanup
  <2>1. asks' \in [Ask -> Row]
    BY <1>9, CleanupEffect DEF RunCleanup
  <2>2. QED  BY <1>9, <1>u, <2>1 DEF RunCleanup
<1>10. ASSUME NEW t \in targets, DisableButtons(t)  PROVE TypeOK'
  <2>1. t \in PendingEdit /\ t.ask \in Ask /\ [t EXCEPT !.attempts = @ + 1] \in PendingEdit
    BY DEF PendingEdit
  <2>2. QED  BY <1>10, <1>u, <2>1 DEF DisableButtons, EditFailed
<1>11. QED
  BY <1>1, <1>2, <1>3, <1>4, <1>5, <1>6, <1>7, <1>8, <1>9, <1>10 DEF DaemonNext

\* Discord and the clock keep the types.
LEMMA TypeDiscord ==
    ASSUME TypeOK, DiscordNext \/ Tick
    PROVE  TypeOK'
<1> USE DEF TypeOK, StoreTypeOK, ChatTypeOK, CliTypeOK, DaemonTypeOK, chatVars, cliVars,
            daemonVars, Fault, MessageState
<1>1. ASSUME NEW a \in Ask, NEW u \in User, Click(a, u), UNCHANGED <<asks, now, told, cliVars, daemonVars>>
      PROVE  TypeOK'
  BY <1>1 DEF Click, Enqueue, Payload, Interaction
<1>2. ASSUME NEW a \in Ask, NEW u \in User, SubmitModal(a, u), UNCHANGED <<asks, now, told, cliVars, daemonVars>>
      PROVE  TypeOK'
  BY <1>2 DEF SubmitModal, Enqueue, Payload, Interaction
<1>3. ASSUME NEW i \in inflight, LoseInteraction(i), UNCHANGED <<asks, now, told, cliVars, daemonVars>>
      PROVE  TypeOK'
  BY <1>3 DEF LoseInteraction
<1>4. ASSUME NEW a \in Ask, DeleteMessage(a), UNCHANGED <<asks, now, told, cliVars, daemonVars>>
      PROVE  TypeOK'
  BY <1>4 DEF DeleteMessage
<1>5. CASE Tick
  BY <1>5 DEF Tick
<1>6. QED  BY <1>1, <1>2, <1>3, <1>4, <1>5 DEF DiscordNext

\* Every step keeps the types.
LEMMA TypeStep ==
    ASSUME IInv, [Next]_vars
    PROVE  TypeOK'
<1>1. CASE UNCHANGED vars
  BY <1>1 DEF IInv, TypeOK, StoreTypeOK, ChatTypeOK, CliTypeOK, DaemonTypeOK, vars, chatVars,
              cliVars, daemonVars
<1>2. QED  BY <1>1, TypeCli, TypeDaemon, TypeDiscord DEF IInv, Next

-------------------------------------------------------------------------------
(* What one step can do to one row, to a creator and to what was told.     *)

AnsweredRow(row, ans) == [status |-> "answered", answer |-> ans,
                          created_at |-> row.created_at, timeout_at |-> row.timeout_at]

Inserted(a) == /\ create[a] = "insert" /\ create'[a] = "created"
               /\ asks'[a].status = "pending" /\ asks'[a].answer = None
               /\ asks'[a].timeout_at <= asks'[a].created_at + 1 + Request[a].timeout
               /\ UNCHANGED message
Answered(a) == /\ Pending(a) /\ dpc = "adopt" /\ current.ask = a
               /\ dpc' = "respond" /\ reply' = "won" /\ current' = current
               /\ asks'[a] = AnsweredRow(asks[a], AnswerOf(current))
Expired(a) == Overdue(a) /\ asks'[a] = TimedOut(asks[a])
Deleted(a) == a \in Stale /\ dpc = "idle" /\ asks'[a] = NoRow

\* The only ways a row changes, whichever process is at work.
RowStep(a) == \/ asks'[a] = asks[a]
              \/ Inserted(a) \/ Answered(a) \/ Expired(a) \/ Deleted(a)

\* The CLI inserts rows and, from "ask wait", expires overdue ones.
LEMMA RowStepCli ==
    ASSUME IInv, CliNext
    PROVE  \A a \in Ask : RowStep(a)
<1> USE DEF RowStep
<1>1. ASSUME NEW b \in Ask, InsertPending(b)  PROVE \A a \in Ask : RowStep(a)
  <2>1. CASE InsertAsk(b) /\ CreateTo(b, "created")
    <3>1. create[b] = "insert" /\ create'[b] = "created" /\ UNCHANGED message
      BY <1>1, <2>1 DEF InsertPending, CreateTo, IInv, TypeOK, CliTypeOK
    <3>2. QED  BY <2>1, <3>1, InsertAskEffect DEF Inserted, IInv
  <2>2. CASE UNCHANGED asks
    BY <2>2
  <2>3. QED  BY <1>1, <2>1, <2>2 DEF InsertPending
<1>2. ASSUME NEW w \in Waiter, ExpireLocally(w)  PROVE \A a \in Ask : RowStep(a)
  <2>1. wait[w].ask \in Ask /\ (Pending(wait[w].ask) => Overdue(wait[w].ask))
    BY <1>2 DEF ExpireLocally, IInv, WaitInv, Overdue
  <2>2. QED  BY <1>2, <2>1, TryTimeoutEffect DEF ExpireLocally, Expired, IInv
<1>3. CASE UNCHANGED asks
  BY <1>3
<1>4. QED
  BY <1>1, <1>2, <1>3
     DEF CliNext, CreateStep, BeginCreate, SendQuestion, AttachComponents, StripComponents,
         MarkOrphaned, KillCreate, AskResult, StartWait, WaitStep, Fetch, Reread, WaitFails

\* The daemon answers, expires and deletes rows.
LEMMA RowStepDaemon ==
    ASSUME IInv, DaemonNext
    PROVE  \A a \in Ask : RowStep(a)
<1> USE DEF RowStep
<1>1. CASE Adopt
  <2>1. current \in Interaction /\ current.ask \in Ask /\ AnswerOf(current) \in Answer
    BY <1>1, AnswerTyping DEF Adopt, IInv, HandlerInv, Interaction
  <2>2. CASE TryAnswer(current.ask, AnswerOf(current))
             /\ reply' = (IF Pending(current.ask) THEN "won" ELSE "closed")
             /\ dpc' = "respond" /\ current' = current
    BY <1>1, <2>1, <2>2, TryAnswerEffect DEF Adopt, Answered, AnsweredRow, IInv
  <2>3. CASE UNCHANGED asks
    BY <2>3
  <2>4. QED  BY <1>1, <2>2, <2>3 DEF Adopt
<1>2. CASE BeginSweep
  BY <1>2, ExpireDueEffect DEF BeginSweep, Due, Expired, IInv
<1>3. CASE RunCleanup
  BY <1>3, CleanupEffect DEF RunCleanup, Deleted, IInv
<1>4. CASE UNCHANGED asks
  BY <1>4
<1>5. QED
  BY <1>1, <1>2, <1>3, <1>4
     DEF DaemonNext, StartDaemon, StopDaemon, CrashDaemon, TakeInteraction, Respond, EndSweep,
         DisableButtons

\* Nothing else touches the table.
LEMMA Rows ==
    ASSUME IInv, [Next]_vars
    PROVE  \A a \in Ask : RowStep(a)
BY RowStepCli, RowStepDaemon DEF RowStep, Next, Tick, DiscordNext, vars

\* A creator that is done stays done; only a validated request gets to the INSERT.
LEMMA Creators ==
    ASSUME IInv, [Next]_vars, NEW a \in Ask
    PROVE  /\ create[a] = "created" => create'[a] = "created"
           /\ create'[a] = "created" /\ create[a] # "created" => create[a] = "insert"
           /\ create'[a] = "insert" => create[a] \in {"attach", "insert"}
           /\ create'[a] = "attach" => create[a] \in {"send", "attach"}
           /\ create'[a] = "send" => create[a] = "send" \/ Request[a].timeout \in 1..MaxTimeout
<1> USE DEF CreateTo, IInv, TypeOK, CliTypeOK, CreateState
<1>1. CASE CliNext
  BY <1>1
     DEF CliNext, CreateStep, BeginCreate, ValidateAskCreate, SendQuestion, AttachComponents,
         InsertPending, StripComponents, MarkOrphaned, KillCreate, AskResult, StartWait,
         WaitStep, Fetch, ExpireLocally, Reread, WaitFails, cliVars
<1>2. CASE UNCHANGED create
  BY <1>2
<1>3. QED  BY <1>1, <1>2 DEF Next, Tick, DaemonNext, DiscordNext, vars, cliVars

\* What is told is the row's decision, which the step leaves in place.
LEMMA Telling ==
    ASSUME IInv, [Next]_vars
    PROVE  \/ told' = told
           \/ \E a \in Ask : /\ asks[a].status \in Resolved
                            /\ told' = told \cup {[ask |-> a, result |-> ResultOf(a)]}
                            /\ asks' = asks
<1>1. ASSUME NEW w \in Waiter, Fetch(w) \/ Reread(w)
      PROVE  \/ told' = told
             \/ \E a \in Ask : /\ asks[a].status \in Resolved
                              /\ told' = told \cup {[ask |-> a, result |-> ResultOf(a)]}
                              /\ asks' = asks
  <2>1. wait[w].ask \in Ask
    BY <1>1 DEF Fetch, Reread, IInv, WaitInv
  <2>2. QED  BY <1>1, <2>1, SettleEffect DEF Fetch, Reread, IInv
<1>2. CASE Respond /\ reply = "won"
  <2>1. current \in Interaction /\ current.ask \in Ask
    BY <1>2 DEF Respond, IInv, HandlerInv, Interaction
  <2>2. /\ asks[current.ask].status = "answered"
        /\ ResultOf(current.ask) = [status |-> "answered", answer |-> AnswerOf(current)]
    BY <1>2 DEF Respond, IInv, HandlerInv, ResultOf
  <2>3. QED  BY <1>2, <2>1, <2>2 DEF Respond, Callback, Report, Resolved
<1>3. ASSUME NEW a \in Ask, AskResult(a)
      PROVE  /\ asks[a].status \in Resolved
             /\ told' = told \cup {[ask |-> a, result |-> ResultOf(a)]}
             /\ asks' = asks
  BY <1>3 DEF AskResult, Report
<1>4. CASE told' = told
  BY <1>4
<1>5. QED
  BY <1>1, <1>2, <1>3, <1>4
     DEF Next, CliNext, DaemonNext, Tick, DiscordNext, vars, CreateStep, BeginCreate,
         SendQuestion, AttachComponents, InsertPending, StripComponents, MarkOrphaned, KillCreate,
         StartWait, WaitStep, ExpireLocally, WaitFails, StartDaemon, StopDaemon, CrashDaemon,
         TakeInteraction, Adopt, Respond, Callback, BeginSweep, EndSweep, RunCleanup,
         DisableButtons

\* Once the creator is done, the row only loses its "pending" or goes away whole.
LEMMA ClosedStaysClosed ==
    ASSUME IInv, [Next]_vars, NEW a \in Ask, create[a] = "created"
    PROVE  /\ asks'[a].status = "pending" => asks'[a] = asks[a]
           /\ ~Pending(a) => asks'[a] = asks[a] \/ Deleted(a)
           /\ asks[a].status \in {"timed_out", "absent"}
                => asks'[a].status \in {"timed_out", "absent"}
<1>1. CASE asks'[a] = asks[a]
  BY <1>1 DEF Pending
<1>2. CASE Answered(a) \/ Expired(a)
  BY <1>2 DEF Answered, AnsweredRow, Expired, Overdue, TimedOut, Pending
<1>3. CASE Deleted(a)
  BY <1>3 DEF Deleted, NoRow, Pending
<1>4. QED  BY <1>1, <1>2, <1>3, Rows DEF RowStep, Inserted

-------------------------------------------------------------------------------
(* One lemma per part of the inductive invariant.                          *)

\* Rows come from creators that are done, with a deadline inside retention.
LEMMA TableStep ==
    ASSUME IInv, [Next]_vars
    PROVE  TableInv'
<1> SUFFICES ASSUME NEW a \in Ask, asks'[a].status # "absent"
             PROVE  /\ create'[a] = "created"
                    /\ asks'[a].timeout_at <= asks'[a].created_at + Retention + 1
  BY DEF TableInv
<1>t. asks[a] \in Row /\ now \in Nat /\ Request[a].timeout \in Nat
  BY RequestAssumption DEF IInv, TypeOK, StoreTypeOK, RequestType
<1>1. CASE Inserted(a)
  <2>1. Request[a].timeout <= MaxTimeout
    BY <1>1 DEF Inserted, IInv, CreateInv
  <2>2. asks'[a].created_at \in Nat /\ asks'[a].timeout_at \in Nat
    BY TypeStep DEF TypeOK, StoreTypeOK, Row
  <2>3. QED  BY <1>1, <1>t, <2>1, <2>2, RetentionAssumption DEF Inserted
<1>2. CASE Deleted(a)
  BY <1>2 DEF Deleted, NoRow
<1>3. CASE asks'[a] = asks[a] \/ Answered(a) \/ Expired(a)
  <2>1. /\ asks[a].status # "absent"
        /\ asks'[a].timeout_at = asks[a].timeout_at
        /\ asks'[a].created_at = asks[a].created_at
    BY <1>3 DEF Answered, AnsweredRow, Expired, Overdue, TimedOut, Pending
  <2>2. QED  BY <2>1, Creators DEF IInv, TableInv
<1>4. QED  BY <1>1, <1>2, <1>3, Rows DEF RowStep

\* The ways a question's message changes.
MessageStep(a) ==
    \/ message'[a] = message[a]
    \/ message'[a] = "deleted"
    \/ create[a] = "send" /\ create'[a] \in {"attach", "failed"}
    \/ create[a] = "attach" /\ create'[a] = "insert" /\ message'[a] = "live"
    \/ create[a] \in {"attach", "strip"} /\ create'[a] = "note"
    \/ create[a] = "created" /\ ~Pending(a) /\ asks' = asks

\* Only a creator at work, or whoever closes a closed ask, edits its message.
LEMMA Messages ==
    ASSUME IInv, [Next]_vars
    PROVE  \A a \in Ask : MessageStep(a)
<1> USE DEF MessageStep
<1>t. message \in [Ask -> MessageState] /\ create \in [Ask -> CreateState]
  BY DEF IInv, TypeOK, ChatTypeOK, CliTypeOK
<1>1. ASSUME NEW b \in Ask, SendQuestion(b) \/ AttachComponents(b) \/ StripComponents(b)
      PROVE  \A a \in Ask : MessageStep(a)
  BY <1>1, <1>t DEF SendQuestion, AttachComponents, StripComponents, SetComponents, CreateTo
<1>2. CASE Respond /\ reply = "won"
  <2>1. current \in Interaction /\ current.ask \in Ask
    BY <1>2 DEF Respond, IInv, HandlerInv, Interaction
  <2>2. create[current.ask] = "created" /\ ~Pending(current.ask)
    BY <1>2, <2>1 DEF Respond, IInv, HandlerInv, TableInv, Pending
  <2>3. QED  BY <1>2, <2>1, <2>2, <1>t DEF Respond, Callback, SetComponents
<1>3. ASSUME NEW t \in targets, DisableButtons(t)
      PROVE  \A a \in Ask : MessageStep(a)
  <2>1. t.ask \in Ask /\ create[t.ask] = "created" /\ ~Pending(t.ask)
    BY DEF IInv, TypeOK, DaemonTypeOK, PendingEdit, QueueInv, EditQueueSound, Pending
  <2>2. QED  BY <1>3, <2>1, <1>t DEF DisableButtons, SetComponents
<1>4. ASSUME NEW b \in Ask, DeleteMessage(b)
      PROVE  \A a \in Ask : MessageStep(a)
  BY <1>4, <1>t DEF DeleteMessage
<1>5. CASE UNCHANGED message
  BY <1>5
<1>6. QED
  BY <1>1, <1>2, <1>3, <1>4, <1>5
     DEF Next, CliNext, DaemonNext, Tick, DiscordNext, vars, chatVars, CreateStep, BeginCreate,
         InsertPending, MarkOrphaned, KillCreate, AskResult, StartWait, WaitStep, Fetch, Reread,
         ExpireLocally, WaitFails, StartDaemon, StopDaemon, CrashDaemon, TakeInteraction, Adopt,
         Respond, Callback, BeginSweep, EndSweep, RunCleanup, Click, SubmitModal,
         LoseInteraction

\* The INSERT comes after validation and after the components.
LEMMA CreateInvStep ==
    ASSUME IInv, [Next]_vars
    PROVE  CreateInv'
<1> SUFFICES ASSUME NEW a \in Ask
             PROVE  /\ create'[a] \in {"send", "attach", "insert"}
                         => Request[a].timeout <= MaxTimeout
                    /\ create'[a] = "insert" => message'[a] \in {"live", "deleted"}
  BY DEF CreateInv
<1>1. create'[a] \in {"send", "attach", "insert"} => Request[a].timeout <= MaxTimeout
  BY Creators, RetentionAssumption DEF IInv, CreateInv
<1>2. ASSUME create'[a] = "insert"  PROVE message'[a] \in {"live", "deleted"}
  <2>1. CASE create[a] = "insert"
    BY <1>2, <2>1, Messages DEF MessageStep, IInv, CreateInv
  <2>2. CASE create[a] = "attach"
    <3>1. ASSUME NEW b \in Ask, AttachComponents(b)  PROVE message'[a] \in {"live", "deleted"}
      <4>1. b = a /\ message[a] # "deleted"
        BY <1>2, <2>2, <3>1
           DEF AttachComponents, CreateTo, IInv, TypeOK, CliTypeOK, CreateState
      <4>2. SetComponents(a, "live")
        BY <1>2, <3>1, <4>1 DEF AttachComponents, CreateTo, IInv, TypeOK, CliTypeOK
      <4>3. QED  BY <4>1, <4>2 DEF SetComponents, IInv, TypeOK, ChatTypeOK
    <3>2. \E b \in Ask : AttachComponents(b)
      BY <1>2, <2>2
         DEF Next, CliNext, DaemonNext, Tick, DiscordNext, vars, cliVars, CreateStep,
             BeginCreate, SendQuestion, InsertPending, StripComponents, MarkOrphaned,
             KillCreate, AskResult, StartWait, WaitStep, Fetch, Reread, ExpireLocally,
             WaitFails, CreateTo, IInv, TypeOK, CliTypeOK
    <3>3. QED  BY <3>1, <3>2
  <2>3. QED  BY <1>2, <2>1, <2>2, Creators
<1>3. QED  BY <1>1, <1>2

\* A pending row keeps its components: the first half of what makes it answerable.
LEMMA AnswerableStep ==
    ASSUME IInv, [Next]_vars
    PROVE  PendingCanBeAnswered'
<1> SUFFICES ASSUME NEW a \in Ask, Pending(a)'
             PROVE  message'[a] \in {"live", "deleted"}
  BY DEF PendingCanBeAnswered
<1>1. CASE Inserted(a)
  BY <1>1 DEF Inserted, IInv, CreateInv
<1>2. CASE asks'[a] = asks[a]
  <2>1. Pending(a) /\ create[a] = "created" /\ message[a] \in {"live", "deleted"}
    BY <1>2 DEF Pending, IInv, TableInv, PendingCanBeAnswered
  <2>2. QED  BY <2>1, Messages DEF MessageStep
<1>3. ~Answered(a) /\ ~Expired(a) /\ ~Deleted(a)
  BY DEF Answered, AnsweredRow, Expired, TimedOut, Deleted, NoRow, Pending
<1>4. QED  BY <1>1, <1>2, <1>3, Rows DEF RowStep

\* An observer is told the row's decision; nobody can be told another one later.
LEMMA ToldStep ==
    ASSUME IInv, [Next]_vars
    PROVE  ToldInv' /\ Agreement'
<1>t. told \subseteq [ask : Ask, result : Result]
  BY DEF IInv, TypeOK, StoreTypeOK
<1>1. CASE told' = told
  <2>1. ASSUME NEW t \in told
        PROVE  /\ create'[t.ask] = "created"
               /\ asks'[t.ask].status # "absent" =>
                    asks'[t.ask].status \in Resolved /\ t.result = ResultOf(t.ask)'
    <3>1. t.ask \in Ask /\ create[t.ask] = "created" /\ ~Pending(t.ask)
      BY <1>t DEF IInv, ToldInv, Pending, Resolved
    <3>2. asks'[t.ask] = asks[t.ask] \/ asks'[t.ask].status = "absent"
      BY <3>1, ClosedStaysClosed DEF Deleted, NoRow
    <3>3. QED  BY <3>1, <3>2, Creators DEF IInv, ToldInv, ResultOf
  <2>2. QED  BY <1>1, <2>1 DEF ToldInv, Agreement, IInv
<1>2. ASSUME NEW a \in Ask, asks[a].status \in Resolved,
             told' = told \cup {[ask |-> a, result |-> ResultOf(a)]}, asks' = asks
      PROVE  ToldInv' /\ Agreement'
  <2>1. create[a] = "created"
    BY <1>2 DEF IInv, TableInv, Resolved
  <2>2. \A t \in told' : create'[t.ask] = "created"
    BY <1>2, <1>t, <2>1, Creators DEF IInv, ToldInv
  <2>3. \A t \in told' : asks[t.ask].status # "absent" =>
                            asks[t.ask].status \in Resolved /\ t.result = ResultOf(t.ask)
    BY <1>2 DEF IInv, ToldInv
  <2>4. ToldInv'
    BY <1>2, <2>2, <2>3 DEF ToldInv, ResultOf
  <2>5. ASSUME NEW s \in told', NEW t \in told', s.ask = t.ask
        PROVE  s = t
    <3>1. CASE s \in told /\ t \in told
      BY <2>5, <3>1 DEF IInv, Agreement
    <3>2. CASE s.ask = a
      <4>1. s.result = ResultOf(a) /\ t.result = ResultOf(a)
        BY <1>2, <2>3, <2>5, <3>2 DEF Resolved
      <4>2. /\ s \in [ask : Ask, result : {ResultOf(a)}]
            /\ t \in [ask : Ask, result : {ResultOf(a)}]
        BY <1>2, <1>t, <4>1
      <4>3. QED  BY <2>5, <4>2
    <3>3. QED  BY <1>2, <2>5, <3>1, <3>2
  <2>6. QED  BY <2>4, <2>5 DEF Agreement
<1>3. QED  BY <1>1, <1>2, Telling

\* The daemon's verdict and its adopted answer are still right when it calls back.
LEMMA HandlerStep ==
    ASSUME IInv, [Next]_vars
    PROVE  HandlerInv'
<1>t. inflight \subseteq Interaction
  BY DEF IInv, TypeOK, ChatTypeOK
<1>1. CASE UNCHANGED <<dpc, current, reply>>
  <2>1. CASE dpc = "respond" /\ reply = "won"
    <3>1. /\ current \in Interaction /\ current.ask \in Ask
          /\ asks[current.ask].status = "answered"
      BY <2>1 DEF IInv, HandlerInv, Interaction
    <3>2. create[current.ask] = "created" /\ ~Pending(current.ask)
      BY <3>1 DEF IInv, TableInv, Pending
    <3>3. asks'[current.ask] = asks[current.ask]
      BY <2>1, <3>1, <3>2, ClosedStaysClosed DEF Deleted
    <3>4. QED  BY <1>1, <2>1, <3>3 DEF IInv, HandlerInv, AnswerOf
  <2>2. CASE ~(dpc = "respond" /\ reply = "won")
    BY <1>1, <2>2 DEF IInv, HandlerInv, Accepts
  <2>3. QED  BY <2>1, <2>2
<1>2. ASSUME NEW i \in inflight, TakeInteraction(i)  PROVE HandlerInv'
  BY <1>2, <1>t DEF TakeInteraction, Verdict, HandlerInv, Accepts
<1>3. CASE Adopt
  <2>1. /\ current \in Interaction /\ current.ask \in Ask
        /\ AnswerOf(current) \in Answer
    BY <1>3, AnswerTyping DEF Adopt, IInv, HandlerInv, Interaction
  <2>2. CASE /\ TryAnswer(current.ask, AnswerOf(current))
             /\ reply' = (IF Pending(current.ask) THEN "won" ELSE "closed")
             /\ dpc' = "respond" /\ current' = current
    <3>1. CASE Pending(current.ask)
      <4>1. asks'[current.ask] = AnsweredRow(asks[current.ask], AnswerOf(current))
        BY <2>1, <2>2, <3>1, TryAnswerEffect DEF IInv, AnsweredRow
      <4>2. AnswerOf(current)' = AnswerOf(current)
        BY <2>2 DEF AnswerOf
      <4>3. QED  BY <2>1, <2>2, <4>1, <4>2 DEF HandlerInv, AnsweredRow
    <3>2. CASE ~Pending(current.ask)
      BY <2>1, <2>2, <3>2 DEF HandlerInv
    <3>3. QED  BY <3>1, <3>2
  <2>3. CASE dpc' = "idle"
    BY <2>3 DEF HandlerInv
  <2>4. QED  BY <1>3, <2>2, <2>3 DEF Adopt
<1>4. CASE dpc' \notin {"adopt", "respond"}
  BY <1>4 DEF HandlerInv
<1>5. QED
  BY <1>1, <1>2, <1>3, <1>4
     DEF Next, CliNext, DaemonNext, Tick, DiscordNext, vars, daemonVars, StartDaemon,
         StopDaemon, CrashDaemon, Vanish, Respond, BeginSweep, EndSweep, RunCleanup,
         DisableButtons

\* A waiter that decided on a stale read cannot time an ask out too early.
LEMMA WaitInvStep ==
    ASSUME IInv, [Next]_vars
    PROVE  WaitInv'
<1> SUFFICES ASSUME NEW w \in Waiter, wait'[w].pc # "idle"
             PROVE  LET a == wait'[w].ask
                    IN /\ a \in Ask
                       /\ create'[a] = "created"
                       /\ wait'[w].pc = "expire" /\ asks'[a].status = "pending"
                            => asks'[a].timeout_at <= now'
                       /\ wait'[w].pc = "reread" => asks'[a].status # "pending"
  BY DEF WaitInv, Pending
<1>t. /\ wait \in [Waiter -> WaitType] /\ now \in Nat /\ now' \in Nat
      /\ asks \in [Ask -> Row] /\ (now' = now \/ now' = now + 1)
  BY TypeStep DEF IInv, TypeOK, CliTypeOK, StoreTypeOK, Next, Tick, CliNext, DaemonNext,
                  DiscordNext, vars
<1>1. CASE wait'[w] = wait[w]
  <2> DEFINE a == wait[w].ask
  <2>1. /\ a \in Ask /\ create[a] = "created"
        /\ wait[w].pc = "expire" /\ Pending(a) => asks[a].timeout_at <= now
        /\ wait[w].pc = "reread" => ~Pending(a)
    BY <1>1 DEF IInv, WaitInv
  <2>2. asks'[a].status = "pending" => asks'[a] = asks[a] /\ Pending(a)
    BY <2>1, ClosedStaysClosed DEF Pending
  <2>3. asks[a].timeout_at \in Nat
    BY <2>1, <1>t DEF Row
  <2>4. create'[a] = "created"
    BY <2>1, Creators
  <2>5. QED  BY <1>1, <1>t, <2>1, <2>2, <2>3, <2>4
<1>2. ASSUME NEW v \in Waiter, NEW b \in Ask, StartWait(v, b), v = w
      PROVE  wait'[w].ask = b /\ create[b] = "created" /\ wait'[w].pc = "fetch"
  BY <1>2, <1>t DEF StartWait
<1>3. ASSUME WaitStep(w) \/ WaitFails(w)
      PROVE  /\ wait[w].ask \in Ask /\ create[wait[w].ask] = "created"
             /\ wait'[w].ask = wait[w].ask
             /\ wait'[w].pc = "expire" => Overdue(wait[w].ask) /\ asks' = asks
             /\ wait'[w].pc = "reread" => asks'[wait[w].ask].status # "pending"
  <2>1. wait[w].ask \in Ask /\ create[wait[w].ask] = "created"
    BY <1>3 DEF WaitStep, WaitFails, Fetch, ExpireLocally, Reread, IInv, WaitInv
  <2>2. CASE Settle(w)
    BY <2>1, <2>2, SettleEffect DEF IInv
  <2>3. CASE ExpireLocally(w)
    <3>1. asks'[wait[w].ask].status # "pending"
      <4>1. \/ Pending(wait[w].ask) /\ asks'[wait[w].ask] = TimedOut(asks[wait[w].ask])
            \/ ~Pending(wait[w].ask) /\ asks'[wait[w].ask] = asks[wait[w].ask]
        BY <2>1, <2>3, TryTimeoutEffect DEF ExpireLocally, IInv
      <4>2. QED  BY <4>1 DEF TimedOut, Pending
    <3>2. QED  BY <2>1, <2>3, <3>1, <1>t DEF ExpireLocally, WaitTo
  <2>4. CASE Overdue(wait[w].ask) /\ WaitTo(w, "expire") /\ UNCHANGED asks
    BY <2>1, <2>4, <1>t DEF WaitTo
  <2>5. CASE WaitFails(w)
    BY <2>1, <2>5, <1>t DEF WaitFails, WaitTo
  <2>6. QED  BY <1>3, <2>2, <2>3, <2>4, <2>5 DEF WaitStep, Fetch, Reread
<1>4. CASE \E b \in Ask : StartWait(w, b)
  <2>1. wait'[w].ask \in Ask /\ create[wait'[w].ask] = "created" /\ wait'[w].pc = "fetch"
    BY <1>4, <1>2
  <2>2. QED  BY <2>1, Creators
<1>5. CASE WaitStep(w) \/ WaitFails(w)
  <2>1. create'[wait[w].ask] = "created"
    BY <1>5, <1>3, Creators
  <2>2. now' = now \/ asks' # asks \/ wait'[w].pc # "expire" \/ Overdue(wait[w].ask)
    BY <1>5, <1>3
  <2>3. QED  BY <1>5, <1>3, <1>t, <2>1 DEF Overdue, Row
<1>6. wait'[w] = wait[w] \/ (\E b \in Ask : StartWait(w, b)) \/ WaitStep(w) \/ WaitFails(w)
  <2>1. CASE CliNext
    <3>1. ASSUME NEW v \in Waiter, v # w,
                 (\E b \in Ask : StartWait(v, b)) \/ WaitStep(v) \/ WaitFails(v)
          PROVE  wait'[w] = wait[w]
      <4>1. wait[v].pc # "idle" => wait[v].ask \in Ask
        BY DEF IInv, WaitInv
      <4>2. CASE Settle(v) /\ wait[v].pc # "idle"
        BY <3>1, <4>1, <4>2, SettleEffect DEF IInv
      <4>3. QED
        BY <3>1, <4>2, <1>t
           DEF StartWait, WaitStep, WaitFails, Fetch, ExpireLocally, Reread, WaitTo
    <3>2. QED
      BY <2>1, <3>1
         DEF CliNext, CreateStep, BeginCreate, SendQuestion, AttachComponents, InsertPending,
             StripComponents, MarkOrphaned, KillCreate, AskResult, cliVars
  <2>2. CASE UNCHANGED wait
    BY <2>2
  <2>3. QED  BY <2>1, <2>2 DEF Next, Tick, DaemonNext, DiscordNext, vars, cliVars
<1>7. QED  BY <1>1, <1>4, <1>5, <1>6

\* The work list and the retry queue are passed on whole, each ask at most once.
LEMMA QueueStep ==
    ASSUME IInv, [Next]_vars
    PROVE  QueueInv' /\ EditQueueSound'
<1>t. /\ targets \subseteq PendingEdit /\ failed \subseteq PendingEdit
      /\ retry \subseteq PendingEdit
  BY DEF IInv, TypeOK, DaemonTypeOK
<1>q. \A t \in targets \cup failed \cup retry :
        /\ t.ask \in Ask /\ create'[t.ask] = "created"
        /\ asks[t.ask].status \in {"timed_out", "absent"}
        /\ asks'[t.ask].status \in {"timed_out", "absent"}
        /\ t.attempts < MaxEditAttempts
  BY <1>t, Creators, ClosedStaysClosed DEF IInv, QueueInv, EditQueueSound, PendingEdit
<1>1. CASE UNCHANGED <<dpc, targets, failed, retry>>
  BY <1>1, <1>q DEF IInv, QueueInv, EditQueueSound
<1>2. CASE targets' = {} /\ failed' = {} /\ retry' = {}
  BY <1>2 DEF QueueInv, EditQueueSound
<1>3. CASE UNCHANGED <<targets, failed, retry>> /\ dpc # "edit" /\ dpc' # "edit"
  BY <1>3, <1>q DEF IInv, QueueInv, EditQueueSound
<1>4. CASE BeginSweep
  <2>1. targets = {} /\ failed = {}
    BY <1>4 DEF BeginSweep, IInv, QueueInv
  <2>2. ASSUME NEW a \in Due
        PROVE  /\ Pending(a) /\ a \in Ask /\ create'[a] = "created"
               /\ asks'[a].status = "timed_out"
    <3>1. Pending(a) /\ a \in Ask /\ create[a] = "created"
      BY DEF Due, Overdue, Pending, IInv, TableInv
    <3>2. asks'[a] = TimedOut(asks[a])
      BY <1>4, ExpireDueEffect DEF BeginSweep, IInv
    <3>3. QED  BY <3>1, <3>2, Creators DEF TimedOut
  <2>3. ASSUME NEW t \in FreshEdits
        PROVE  /\ t.ask \in Due /\ t = [ask |-> t.ask, attempts |-> 0]
               /\ t.attempts < MaxEditAttempts
    BY AttemptsAssumption DEF FreshEdits
  <2>4. \A t \in targets' : /\ create'[t.ask] = "created"
                            /\ asks'[t.ask].status \in {"timed_out", "absent"}
                            /\ t.attempts < MaxEditAttempts
    BY <1>4, <1>q, <2>2, <2>3 DEF BeginSweep
  <2>5. ASSUME NEW s \in targets', NEW t \in targets', s.ask = t.ask
        PROVE  s = t
    <3>1. \A x \in FreshEdits, y \in retry : x.ask # y.ask
      BY <1>q, <2>2, <2>3 DEF Pending
    <3>2. QED  BY <1>4, <2>3, <2>5, <3>1 DEF BeginSweep, IInv, EditQueueSound
  <2>6. QED  BY <1>4, <2>1, <2>4, <2>5 DEF BeginSweep, QueueInv, EditQueueSound
<1>5. ASSUME NEW t \in targets, DisableButtons(t)  PROVE QueueInv' /\ EditQueueSound'
  <2> DEFINE u == [t EXCEPT !.attempts = @ + 1]
  <2>1. /\ targets' = targets \ {t} /\ retry = {} /\ retry' = {}
        /\ dpc = "edit" /\ dpc' = "edit" /\ asks' = asks
        /\ \/ failed' = failed
           \/ failed' = failed \cup {u} /\ ~(u.attempts >= MaxEditAttempts)
    BY <1>5 DEF DisableButtons, EditFailed, IInv, QueueInv
  <2>2. u.ask = t.ask /\ u.attempts \in Nat
    BY <1>t DEF PendingEdit
  <2>3. t \notin failed
    BY DEF IInv, EditQueueSound
  <2>4. \A x \in (targets \cup failed) \ {t} : x.ask # t.ask
    BY DEF IInv, EditQueueSound
  <2>5. \A x \in targets' \cup failed' : /\ create'[x.ask] = "created"
                                         /\ asks'[x.ask].status \in {"timed_out", "absent"}
                                         /\ x.attempts < MaxEditAttempts
    <3> HIDE DEF u
    <3>1. \/ failed' = failed
          \/ failed' = failed \cup {u} /\ u.attempts < MaxEditAttempts
      BY <2>1, <2>2, AttemptsAssumption
    <3>2. QED  BY <1>q, <2>1, <2>2, <3>1
  <2>6. \A x, y \in targets' \cup failed' : x.ask = y.ask => x = y
    BY <2>1, <2>2, <2>3, <2>4 DEF IInv, EditQueueSound
  <2>7. targets' \cap failed' = {}
    BY <2>1, <2>2, <2>4 DEF IInv, EditQueueSound
  <2>8. QED  BY <2>1, <2>5, <2>6, <2>7 DEF QueueInv, EditQueueSound
<1>6. CASE EndSweep
  <2>1. retry' = failed /\ targets' = {} /\ failed' = {} /\ dpc' = "idle"
    BY <1>6 DEF EndSweep
  <2>2. QED  BY <2>1, <1>q DEF IInv, QueueInv, EditQueueSound
<1>7. QED
  BY <1>1, <1>2, <1>3, <1>4, <1>5, <1>6
     DEF Next, CliNext, DaemonNext, Tick, DiscordNext, vars, daemonVars, StartDaemon,
         StopDaemon, CrashDaemon, Vanish, TakeInteraction, Adopt, Respond, RunCleanup

\* Only a judged interaction answers, and answering is all it does to the row.
LEMMA AnswerStep ==
    ASSUME IInv, [Next]_vars
    PROVE  AnswerWasAskedFor'
<1> DEFINE Fits(a, ans) ==
      LET r == Request[a]
      IN /\ r.allowed_users = {} \/ ans.by \in r.allowed_users
         /\ \/ ans.kind = "choice" /\ ~r.multi_select /\ ans.values \subseteq r.options
            \/ /\ ans.kind = "multi_choice" /\ r.multi_select
               /\ ans.values # {} /\ ans.values \subseteq r.options
            \/ ans.kind = "text" /\ r.allow_text
           Good(a, row) == /\ row.status = "answered" <=> row.answer # None
                           /\ row.status = "answered" => Fits(a, row.answer)
<1>0. (AnswerWasAskedFor <=> \A a \in Ask : Good(a, asks[a]))
      /\ (AnswerWasAskedFor' <=> \A a \in Ask : Good(a, asks'[a]))
  BY DEF AnswerWasAskedFor
<1> HIDE DEF Good
<1>g. \A a \in Ask : Good(a, asks[a])
  BY <1>0 DEF IInv
<1> SUFFICES ASSUME NEW a \in Ask  PROVE Good(a, asks'[a])
  BY <1>0
<1>1. CASE asks'[a] = asks[a]
  BY <1>1, <1>g
<1>2. CASE Inserted(a)
  BY <1>2 DEF Inserted, Good
<1>3. CASE Answered(a)
  <2>1. current \in Interaction /\ Accepts(current) /\ current.kind # "text"
    BY <1>3 DEF Answered, IInv, HandlerInv
  <2>2. AnswerOf(current) # None
    BY <2>1, AnswerTyping, NoneAssumption
  <2>3. Fits(a, AnswerOf(current))
    <3>1. CASE current.kind = "opt"
      BY <1>3, <2>1, <3>1 DEF Answered, Accepts, AnswerOf
    <3>2. CASE current.kind = "sel"
      BY <1>3, <2>1, <3>2 DEF Answered, Accepts, AnswerOf
    <3>3. CASE current.kind = "submit"
      BY <1>3, <2>1, <3>3 DEF Answered, Accepts, AnswerOf
    <3>4. QED  BY <2>1, <3>1, <3>2, <3>3 DEF Interaction
  <2>4. QED  BY <1>3, <2>2, <2>3 DEF Answered, AnsweredRow, Good
<1>4. CASE Expired(a)
  <2>1. asks[a].status = "pending" /\ asks'[a] = TimedOut(asks[a])
    BY <1>4 DEF Expired, Overdue, Pending
  <2>2. asks[a].answer = None
    BY <1>g, <2>1 DEF Good
  <2>3. QED  BY <2>1, <2>2 DEF TimedOut, Good
<1>5. CASE Deleted(a)
  BY <1>5 DEF Deleted, NoRow, Good
<1>6. QED  BY <1>1, <1>2, <1>3, <1>4, <1>5, Rows DEF RowStep

-------------------------------------------------------------------------------
(* The theorems.                                                           *)

\* The inductive invariant holds of the empty table and the idle processes.
LEMMA Initially == Init => IInv
<1> SUFFICES ASSUME Init PROVE IInv
  OBVIOUS
<1>1. TypeOK
  BY TypeInit
<1>2. /\ asks = [a \in Ask |-> NoRow] /\ told = {} /\ create = [a \in Ask |-> "start"]
      /\ wait = [w \in Waiter |-> [pc |-> "idle", ask |-> None, polls |-> 0]]
      /\ dpc = "down" /\ targets = {} /\ failed = {} /\ retry = {}
  BY DEF Init, StoreInit, CliInit, DaemonInit
<1>3. \A a \in Ask : asks[a].status = "absent" /\ asks[a].answer = None
  BY <1>2 DEF NoRow
<1>4. TableInv /\ CreateInv /\ ToldInv /\ HandlerInv /\ WaitInv /\ QueueInv
  BY <1>2, <1>3 DEF TableInv, CreateInv, ToldInv, HandlerInv, WaitInv, QueueInv
<1>5. Agreement /\ AnswerWasAskedFor /\ PendingCanBeAnswered /\ EditQueueSound
  BY <1>2, <1>3 DEF Agreement, AnswerWasAskedFor, PendingCanBeAnswered, EditQueueSound, Pending
<1>6. QED  BY <1>1, <1>4, <1>5 DEF IInv

\* The inductive invariant holds in every reachable state, so whatever interleaving of
\* CLI processes, daemon, clicks, faults and restarts: the types are right, and so are
\* the relations between table, creators, waiters, handler and retry queue.
THEOREM Invariance == Spec => []IInv
<1>1. IInv /\ [Next]_vars => IInv'
  <2> SUFFICES ASSUME IInv, [Next]_vars PROVE IInv'
    OBVIOUS
  <2>1. TypeOK' /\ TableInv' /\ CreateInv' /\ HandlerInv' /\ WaitInv'
    BY TypeStep, TableStep, CreateInvStep, HandlerStep, WaitInvStep
  <2>2. ToldInv' /\ Agreement' /\ QueueInv' /\ EditQueueSound'
    BY ToldStep, QueueStep
  <2>3. AnswerWasAskedFor' /\ PendingCanBeAnswered'
    BY AnswerStep, AnswerableStep
  <2>4. QED  BY <2>1, <2>2, <2>3 DEF IInv
<1>2. QED  BY Initially, <1>1, PTL DEF Spec

\* Type correctness of the whole system.
THEOREM TypeCorrect == Spec => []TypeOK
<1>1. IInv => TypeOK
  BY DEF IInv
<1>2. QED  BY Invariance, <1>1, PTL

\* Nobody is ever told two different decisions of one ask (try_answer, try_timeout and
\* expire_due: first UPDATE wins).
THEOREM AllAgree == Spec => []Agreement
<1>1. IInv => Agreement
  BY DEF IInv
<1>2. QED  BY Invariance, <1>1, PTL

\* Every stored answer passed the allow-list and fits the question, whatever happened
\* between the look-up and the UPDATE (handle_choice, handle_select, handle_modal_submit).
THEOREM AnswersWereAskedFor == Spec => []AnswerWasAskedFor
<1>1. IInv => AnswerWasAskedFor
  BY DEF IInv
<1>2. QED  BY Invariance, <1>1, PTL

\* An open question keeps its components (run_ask_create, expire_and_disable).
THEOREM OpenQuestionsStayAnswerable == Spec => []PendingCanBeAnswered
<1>1. IInv => PendingCanBeAnswered
  BY DEF IInv
<1>2. QED  BY Invariance, <1>1, PTL

\* Retried edits are bounded, unique and only about closed asks (ExpireRetryQueue).
THEOREM EditQueueIsSound == Spec => []EditQueueSound
<1>1. IInv => EditQueueSound
  BY DEF IInv
<1>2. QED  BY Invariance, <1>1, PTL

\* A live message of a creation that goes wrong has cost a fault so far, and two if
\* nobody is told.
VisibleInv ==
    \A a \in Ask :
      /\ create[a] \in {"start", "send", "attach"} => message[a] # "live"
      /\ create[a] \in {"strip", "note"} /\ message[a] = "live" => faults >= 1
      /\ create[a] = "failed" /\ message[a] = "live" => a \in notice \/ faults >= 2

\* Faults and notices only become more.
LEMMA FaultsStay ==
    ASSUME IInv, [Next]_vars
    PROVE  faults \in Nat /\ faults' \in Nat /\ faults' >= faults /\ notice \subseteq notice'
<1>t. faults \in Nat
  BY DEF IInv, TypeOK, ChatTypeOK
<1>1. UNCHANGED faults \/ faults' = faults + 1
  BY DEF Fault, Next, CliNext, DaemonNext, Tick, DiscordNext, vars, chatVars, CreateStep,
         BeginCreate, SendQuestion, AttachComponents, InsertPending, StripComponents,
         MarkOrphaned, KillCreate, AskResult, StartWait, WaitStep, Fetch, Reread,
         ExpireLocally, WaitFails, StartDaemon, StopDaemon, CrashDaemon, TakeInteraction,
         Adopt, Respond, BeginSweep, EndSweep, RunCleanup, DisableButtons, Click, SubmitModal,
         LoseInteraction, DeleteMessage
<1>2. notice \subseteq notice'
  BY DEF Next, CliNext, DaemonNext, Tick, DiscordNext, vars, cliVars, CreateStep,
         BeginCreate, SendQuestion, AttachComponents, InsertPending, StripComponents,
         MarkOrphaned, KillCreate, AskResult, StartWait, WaitStep, Fetch, Reread,
         ExpireLocally, WaitFails
<1>3. QED  BY <1>t, <1>1, <1>2

LEMMA VisibleStep ==
    ASSUME IInv, VisibleInv, [Next]_vars
    PROVE  VisibleInv'
<1> DEFINE V(a) == /\ create[a] \in {"start", "send", "attach"} => message[a] # "live"
                   /\ create[a] \in {"strip", "note"} /\ message[a] = "live" => faults >= 1
                   /\ create[a] = "failed" /\ message[a] = "live"
                        => a \in notice \/ faults >= 2
<1> SUFFICES ASSUME NEW a \in Ask  PROVE V(a)'
  BY DEF VisibleInv
<1>t. message \in [Ask -> MessageState] /\ create \in [Ask -> CreateState]
  BY DEF IInv, TypeOK, ChatTypeOK, CliTypeOK
<1>v. V(a)
  BY DEF VisibleInv
<1>f. faults \in Nat /\ faults' \in Nat /\ faults' >= faults /\ notice \subseteq notice'
  BY FaultsStay
<1>1. CASE create'[a] = create[a]
  <2>1. \/ message'[a] \in {message[a], "deleted"}
        \/ create[a] = "created"
    BY <1>1, Messages DEF MessageStep
  <2>2. QED  BY <1>1, <1>v, <1>f, <2>1
<1>2. CASE create'[a] # create[a]
  <2>1. \/ BeginCreate(a, dpc # "down") \/ CreateStep(a) \/ KillCreate(a)
    BY <1>2, <1>t
       DEF Next, CliNext, DaemonNext, Tick, DiscordNext, vars, cliVars, CreateStep,
           BeginCreate, SendQuestion, AttachComponents, InsertPending, StripComponents,
           MarkOrphaned, KillCreate, AskResult, StartWait, WaitStep, Fetch, Reread,
           ExpireLocally, WaitFails, CreateTo
  <2>2. CASE BeginCreate(a, dpc # "down") \/ KillCreate(a)
    BY <1>v, <1>f, <1>t, <2>2 DEF BeginCreate, KillCreate, CreateTo, chatVars
  <2>3. CASE SendQuestion(a)
    BY <1>t, <2>3 DEF SendQuestion, CreateTo
  <2>4. CASE AttachComponents(a)
    BY <1>v, <1>f, <1>t, <2>4 DEF AttachComponents, CreateTo, SetComponents, Fault
  <2>5. CASE InsertPending(a)
    BY <1>f, <1>t, <2>5 DEF InsertPending, CreateTo, Fault
  <2>6. CASE StripComponents(a)
    BY <1>v, <1>f, <1>t, <2>6 DEF StripComponents, CreateTo, SetComponents, Fault
  <2>7. CASE MarkOrphaned(a)
    BY <1>v, <1>f, <1>t, <2>7 DEF MarkOrphaned, CreateTo, Fault
  <2>8. QED  BY <2>1, <2>2, <2>3, <2>4, <2>5, <2>6, <2>7 DEF CreateStep
<1>3. QED  BY <1>1, <1>2

\* Of the calls of "ask create" any single one may fail: either the components are gone
\* or a notice says so (run_ask_create, mark_orphaned_ask_message).
THEOREM FailuresAreVisible == Spec => []OneFailureIsVisible
<1>1. Init => VisibleInv
  BY DEF Init, CliInit, ChatInit, VisibleInv
<1>2. IInv /\ VisibleInv /\ [Next]_vars => VisibleInv'
  BY VisibleStep
<1>3. IInv /\ VisibleInv => OneFailureIsVisible
  BY DEF VisibleInv, OneFailureIsVisible, IInv, TypeOK, ChatTypeOK
<1>4. QED  BY Invariance, <1>1, <1>2, <1>3, PTL DEF Spec

\* No ask times out before its deadline, whoever's read was stale (fetch_expiring_overdue,
\* try_timeout, expire_due).
THEOREM NoneTimesOutEarly == Spec => NoEarlyTimeout
<1>1. ASSUME IInv, [Next]_vars, NEW a \in Ask, Pending(a), asks'[a].status = "timed_out"
      PROVE  asks[a].timeout_at <= now
  <2>1. ~Inserted(a) /\ ~Answered(a) /\ ~Deleted(a) /\ asks'[a] # asks[a]
    BY <1>1 DEF Inserted, Answered, AnsweredRow, Deleted, NoRow, Pending
  <2>2. Expired(a)
    BY <1>1, <2>1, Rows DEF RowStep
  <2>3. QED  BY <2>2 DEF Expired, Overdue
<1>2. IInv /\ [Next]_vars
        => [\A a \in Ask : Pending(a) /\ asks'[a].status = "timed_out"
                              => asks[a].timeout_at <= now]_vars
  BY <1>1
<1>3. QED  BY Invariance, <1>2, PTL DEF Spec, NoEarlyTimeout

\* Retention never removes a row whose own deadline is still ahead: the cap of --timeout
\* does not exceed RETENTION_DAYS (validate_ask_create, cleanup).
THEOREM RetentionRespectsDeadlines == Spec => DeletedOnlyPastDeadline
<1>1. ASSUME IInv, [Next]_vars, NEW a \in Ask, asks[a].status # "absent",
             asks'[a].status = "absent"
      PROVE  asks[a].timeout_at <= now
  <2>1. ~Inserted(a) /\ ~Answered(a) /\ ~Expired(a) /\ asks'[a] # asks[a]
    BY <1>1 DEF Inserted, Answered, AnsweredRow, Expired, TimedOut
  <2>2. a \in Stale
    BY <1>1, <2>1, Rows DEF RowStep, Deleted
  <2>3. /\ asks[a].created_at + Retention < now
        /\ asks[a].timeout_at <= asks[a].created_at + Retention + 1
    BY <1>1, <2>2 DEF Stale, IInv, TableInv
  <2>4. /\ asks[a].created_at \in Nat /\ asks[a].timeout_at \in Nat
        /\ now \in Nat /\ Retention \in Nat
    BY <1>1, RetentionAssumption DEF IInv, TypeOK, StoreTypeOK, Row
  <2>5. QED  BY <2>3, <2>4
<1>2. IInv /\ [Next]_vars
        => [\A a \in Ask : asks[a].status # "absent" /\ asks'[a].status = "absent"
                              => asks[a].timeout_at <= now]_vars
  BY <1>1
<1>3. QED  BY Invariance, <1>2, PTL DEF Spec, DeletedOnlyPastDeadline

\* A waiter that gives up has just read a record with the deadline ahead: from Fetch, which
\* sends an overdue one to local expiry (fetch_expiring_overdue), since Reread finds none
\* pending.
THEOREM WaitersGiveUpInTime == Spec => WaitGivesUpOnlyBeforeDeadline
<1>1. ASSUME IInv, [Next]_vars, NEW w \in Waiter, wait[w].pc # "gaveup",
             wait'[w].pc = "gaveup"
      PROVE  asks[wait[w].ask].timeout_at > now
  <2>t. wait \in [Waiter -> WaitType] /\ now \in Nat /\ asks \in [Ask -> Row]
    BY <1>1 DEF IInv, TypeOK, CliTypeOK, StoreTypeOK
  <2>1. ASSUME NEW v \in Waiter, Settle(v), wait[v].pc # "idle"
        PROVE  v = w /\ Pending(wait[w].ask)
    <3>1. wait[v].ask \in Ask
      BY <2>1, <1>1 DEF IInv, WaitInv
    <3>2. v = w
      BY <1>1, <2>1, <3>1, SettleEffect DEF IInv
    <3>3. QED  BY <1>1, <2>1, <3>1, <3>2, SettleEffect DEF IInv
  <2>2. ASSUME NEW v \in Waiter, ExpireLocally(v) \/ WaitFails(v) \/ WaitTo(v, "expire")
        PROVE  FALSE
    BY <1>1, <2>2, <2>t DEF ExpireLocally, WaitFails, WaitTo, WaitType
  <2>3. ASSUME NEW v \in Waiter, NEW b \in Ask, StartWait(v, b)
        PROVE  FALSE
    BY <1>1, <2>3, <2>t DEF StartWait
  <2>4. ASSUME NEW v \in Waiter, Reread(v)  PROVE FALSE
    BY <1>1, <2>4, <2>1 DEF Reread, IInv, WaitInv
  <2>5. ASSUME NEW v \in Waiter, Fetch(v)  PROVE asks[wait[w].ask].timeout_at > now
    <3>1. v = w /\ ~Overdue(wait[w].ask) /\ Pending(wait[w].ask) /\ wait[w].ask \in Ask
      BY <1>1, <2>1, <2>2, <2>5 DEF Fetch, IInv, WaitInv
    <3>2. asks[wait[w].ask].timeout_at \in Nat
      BY <3>1, <2>t DEF Row
    <3>3. QED  BY <3>1, <3>2, <2>t DEF Overdue
  <2>6. CliNext
    BY <1>1 DEF Next, Tick, DaemonNext, DiscordNext, vars, cliVars
  <2>7. QED
    BY <1>1, <2>2, <2>3, <2>4, <2>5, <2>6
       DEF CliNext, WaitStep, CreateStep, BeginCreate, SendQuestion, AttachComponents,
           InsertPending, StripComponents, MarkOrphaned, KillCreate, AskResult, cliVars
<1>2. IInv /\ [Next]_vars
        => [\A w \in Waiter : wait[w].pc # "gaveup" /\ wait'[w].pc = "gaveup"
                                 => asks[wait[w].ask].timeout_at > now]_vars
  BY <1>1
<1>3. QED  BY Invariance, <1>2, PTL DEF Spec, WaitGivesUpOnlyBeforeDeadline

-------------------------------------------------------------------------------
(* Refinement of AskOutcome.                                               *)

\* A creator becomes "created" in the very step that inserts its row.
LEMMA CreatedWithRow ==
    ASSUME IInv, [Next]_vars, NEW a \in Ask, create[a] # "created", create'[a] = "created"
    PROVE  InsertPending(a) /\ Inserted(a)
<1>t. create \in [Ask -> CreateState]
  BY DEF IInv, TypeOK, CliTypeOK
<1>1. CliNext
  BY DEF Next, Tick, DaemonNext, DiscordNext, vars, cliVars
<1>2. InsertPending(a)
  BY <1>1, <1>t
     DEF CliNext, CreateStep, BeginCreate, SendQuestion, AttachComponents, InsertPending,
         StripComponents, MarkOrphaned, KillCreate, AskResult, StartWait, WaitStep, Fetch,
         ExpireLocally, Reread, WaitFails, cliVars, CreateTo
<1>3. InsertAsk(a) /\ UNCHANGED message
  BY <1>2, <1>t DEF InsertPending, CreateTo
<1>4. QED  BY <1>2, <1>3, InsertAskEffect DEF InsertPending, Inserted, IInv

\* A row that a step leaves alone keeps its abstract stage and decision, unless its creator
\* inserted it.
LEMMA SameRowSameStage ==
    ASSUME IInv, [Next]_vars, NEW a \in Ask, asks'[a] = asks[a]
    PROVE  Stage(a)' = Stage(a) /\ Decision(a)' = Decision(a)
<1>1. create[a] = "created" <=> create'[a] = "created"
  <2>1. CASE create[a] # "created" /\ create'[a] = "created"
    <3>1. Inserted(a)
      BY <2>1, CreatedWithRow
    <3>2. asks[a].status = "absent"
      BY <2>1 DEF IInv, TableInv
    <3>3. asks'[a].status = "pending"
      BY <3>1 DEF Inserted
    <3>4. QED  BY <3>2, <3>3
  <2>2. QED  BY <2>1, Creators
<1>2. QED  BY <1>1 DEF Stage, Decision, ResultOf, Pending

\* What the stages of a row are, one by one.
LEMMA Stages ==
    ASSUME IInv, NEW a \in Ask
    PROVE  /\ Pending(a) => Stage(a) = "pending" /\ Decision(a) = None
           /\ asks[a].status \in Resolved => Stage(a) = "decided" /\ Decision(a) = ResultOf(a)
           /\ create[a] # "created" => Stage(a) = "unasked" /\ Decision(a) = None
BY DEF Stage, Decision, Pending, Resolved, IInv, TableInv

\* Every step of the system is a step of AskOutcome, or changes nothing it talks about.
LEMMA StepRefines ==
    ASSUME IInv, [Next]_vars
    PROVE  [Abstract!Next]_(Abstract!vars)
<1> DEFINE stage == [a \in Ask |-> Stage(a)]
           decision == [a \in Ask |-> Decision(a)]
<1>1. CASE asks' = asks
  <2>1. stage' = stage /\ decision' = decision
    BY <1>1, SameRowSameStage
  <2>2. CASE told' = told
    BY <2>1, <2>2 DEF Abstract!vars
  <2>3. ASSUME NEW a \in Ask, asks[a].status \in Resolved,
               told' = told \cup {[ask |-> a, result |-> ResultOf(a)]}
        PROVE  Abstract!Tell(a)
    BY <2>1, <2>3, Stages DEF Abstract!Tell
  <2>4. QED  BY <2>2, <2>3, Telling DEF Abstract!Next
<1>2. ASSUME NEW b \in Ask, Inserted(b), \A a \in Ask \ {b} : asks'[a] = asks[a], told' = told
      PROVE  Abstract!Register(b)
  <2>1. Stage(b) = "unasked" /\ Decision(b) = None
    BY <1>2, Stages DEF Inserted
  <2>2. Stage(b)' = "pending" /\ Decision(b)' = None
    BY <1>2 DEF Inserted, Stage, Decision, Pending, Resolved
  <2>3. \A a \in Ask \ {b} : Stage(a)' = Stage(a) /\ Decision(a)' = Decision(a)
    BY <1>2, SameRowSameStage
  <2>4. stage' = [stage EXCEPT ![b] = "pending"] /\ decision' = decision
    BY <2>1, <2>2, <2>3
  <2>5. QED  BY <1>2, <2>1, <2>4 DEF Abstract!Register
<1>3. ASSUME NEW S \in SUBSET Ask, NEW r \in Result, told' = told,
             \A a \in S : Pending(a) /\ asks'[a].status = r.status /\ asks'[a].answer = r.answer,
             \A a \in Ask \ S : asks'[a] = asks[a]
      PROVE  Abstract!Decide(S, r)
  <2>1. \A a \in S : Stage(a) = "pending"
    BY <1>3, Stages
  <2>2. \A a \in S : Stage(a)' = "decided" /\ Decision(a)' = r
    BY <1>3 DEF Stage, Decision, ResultOf, Result, Pending, Resolved
  <2>3. \A a \in Ask \ S : Stage(a)' = Stage(a) /\ Decision(a)' = Decision(a)
    BY <1>3, SameRowSameStage
  <2>4. /\ stage' = [a \in Ask |-> IF a \in S THEN "decided" ELSE stage[a]]
        /\ decision' = [a \in Ask |-> IF a \in S THEN r ELSE decision[a]]
    BY <2>2, <2>3
  <2>5. QED  BY <1>3, <2>1, <2>4 DEF Abstract!Decide
<1>4. CASE RunCleanup /\ UNCHANGED cliVars
  <2>1. /\ Stale \subseteq Ask /\ told' = told /\ create' = create
        /\ \A a \in Stale : asks'[a] = NoRow
        /\ \A a \in Ask \ Stale : asks'[a] = asks[a]
    BY <1>4, CleanupEffect DEF RunCleanup, Stale, cliVars, IInv
  <2>2. \A a \in Stale : Stage(a) = "decided" /\ create[a] = "created"
    BY Stages DEF Stale, Resolved, IInv, TableInv
  <2>3. \A a \in Stale : Stage(a)' = "forgotten" /\ Decision(a)' = None
    BY <2>1, <2>2 DEF NoRow, Stage, Decision, Pending, Resolved
  <2>4. \A a \in Ask \ Stale : Stage(a)' = Stage(a) /\ Decision(a)' = Decision(a)
    BY <2>1, SameRowSameStage
  <2>5. /\ stage' = [a \in Ask |-> IF a \in Stale THEN "forgotten" ELSE stage[a]]
        /\ decision' = [a \in Ask |-> IF a \in Stale THEN None ELSE decision[a]]
    BY <2>3, <2>4
  <2>6. Abstract!Forget(Stale)
    BY <2>1, <2>2, <2>5 DEF Abstract!Forget
  <2>7. QED  BY <2>1, <2>6 DEF Abstract!Next
<1>5. ASSUME NEW b \in Ask, InsertPending(b), asks' # asks
      PROVE  [Abstract!Next]_(Abstract!vars)
  <2>1. InsertAsk(b) /\ create[b] = "insert" /\ create'[b] = "created" /\ told' = told
    BY <1>5 DEF InsertPending, CreateTo, IInv, TypeOK, CliTypeOK
  <2>2. Inserted(b)
    BY <2>1, CreatedWithRow
  <2>3. \A a \in Ask \ {b} : asks'[a] = asks[a]
    BY <2>1, InsertAskEffect DEF IInv
  <2>4. QED  BY <1>2, <2>1, <2>2, <2>3 DEF Abstract!Next
<1>6. ASSUME NEW w \in Waiter, ExpireLocally(w), asks' # asks
      PROVE  [Abstract!Next]_(Abstract!vars)
  <2> DEFINE b == wait[w].ask
             r == [status |-> "timed_out", answer |-> None]
  <2>1. b \in Ask /\ TryTimeout(b) /\ told' = told
    BY <1>6 DEF ExpireLocally, IInv, WaitInv
  <2>2. Pending(b) /\ asks'[b] = TimedOut(asks[b]) /\ \A a \in Ask \ {b} : asks'[a] = asks[a]
    BY <1>6, <2>1, TryTimeoutEffect DEF IInv
  <2>3. asks[b].answer = None
    BY <2>1, <2>2 DEF IInv, AnswerWasAskedFor, Pending
  <2>4. r \in Result /\ asks'[b].status = r.status /\ asks'[b].answer = r.answer
    BY <2>2, <2>3 DEF TimedOut, Result, Resolved
  <2>5. Abstract!Decide({b}, r)
    <3> HIDE DEF r, b
    <3>1. QED  BY <1>3, <2>1, <2>2, <2>4
  <2>6. QED  BY <2>1, <2>4, <2>5 DEF Abstract!Next
<1>7. ASSUME Adopt, asks' # asks
      PROVE  [Abstract!Next]_(Abstract!vars)
  <2> DEFINE b == current.ask
             r == [status |-> "answered", answer |-> AnswerOf(current)]
  <2>1. b \in Ask /\ AnswerOf(current) \in Answer /\ told' = told
        /\ TryAnswer(b, AnswerOf(current))
    BY <1>7, AnswerTyping DEF Adopt, IInv, HandlerInv, Interaction
  <2>2. /\ Pending(b) /\ asks'[b] = AnsweredRow(asks[b], AnswerOf(current))
        /\ \A a \in Ask \ {b} : asks'[a] = asks[a]
    BY <1>7, <2>1, TryAnswerEffect DEF IInv, AnsweredRow
  <2>3. r \in Result /\ asks'[b].status = r.status /\ asks'[b].answer = r.answer
    BY <2>1, <2>2 DEF AnsweredRow, Result, Resolved
  <2>4. Abstract!Decide({b}, r)
    <3> HIDE DEF r, b
    <3>1. QED  BY <1>3, <2>1, <2>2, <2>3
  <2>5. QED  BY <2>1, <2>3, <2>4 DEF Abstract!Next
<1>8. ASSUME BeginSweep
      PROVE  [Abstract!Next]_(Abstract!vars)
  <2> DEFINE r == [status |-> "timed_out", answer |-> None]
  <2>1. /\ \A a \in Due : asks'[a] = TimedOut(asks[a])
        /\ \A a \in Ask \ Due : asks'[a] = asks[a]
        /\ told' = told
    BY <1>8, ExpireDueEffect DEF BeginSweep, IInv
  <2>2. Due \in SUBSET Ask /\ \A a \in Due : Pending(a) /\ asks[a].answer = None
    BY DEF Due, Overdue, Pending, IInv, AnswerWasAskedFor
  <2>3. r \in Result
    BY DEF Result, Resolved
  <2>4. \A a \in Due : asks'[a].status = r.status /\ asks'[a].answer = r.answer
    <3>1. ASSUME NEW a \in Due  PROVE asks'[a].status = r.status /\ asks'[a].answer = r.answer
      <4>1. asks'[a] = TimedOut(asks[a]) /\ asks[a].answer = None
        BY <2>1, <2>2
      <4>2. QED  BY <4>1 DEF TimedOut
    <3>2. QED  BY <3>1
  <2>5. Abstract!Decide(Due, r)
    <3> HIDE DEF r
    <3>1. QED  BY <1>3, <2>1, <2>2, <2>3, <2>4
  <2>6. QED  BY <2>2, <2>3, <2>5 DEF Abstract!Next
<1>9. QED
  BY <1>1, <1>4, <1>5, <1>6, <1>7, <1>8
     DEF Next, CliNext, DaemonNext, Tick, DiscordNext, vars, CreateStep, BeginCreate,
         SendQuestion, AttachComponents, StripComponents, MarkOrphaned, KillCreate, AskResult,
         StartWait, WaitStep, Fetch, Reread, WaitFails, StartDaemon, StopDaemon, CrashDaemon,
         TakeInteraction, Respond, EndSweep, DisableButtons

\* The CLI processes, the daemon and the table together implement the write-once question.
THEOREM Refinement == Spec => ImplementsAskOutcome
<1>1. Init => Abstract!Init
  <2> SUFFICES ASSUME Init PROVE Abstract!Init
    OBVIOUS
  <2>1. /\ told = {}
        /\ \A a \in Ask : asks[a].status = "absent" /\ create[a] = "start"
    BY DEF Init, StoreInit, CliInit, NoRow
  <2>2. \A a \in Ask : Stage(a) = "unasked" /\ Decision(a) = None
    BY <2>1 DEF Stage, Decision, Pending, Resolved
  <2>3. QED  BY <2>1, <2>2 DEF Abstract!Init
<1>2. IInv /\ [Next]_vars => [Abstract!Next]_(Abstract!vars)
  BY StepRefines
<1>3. QED  BY Invariance, <1>1, <1>2, PTL DEF Spec, ImplementsAskOutcome, Abstract!Spec
===============================================================================
