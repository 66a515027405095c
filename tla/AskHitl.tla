-------------------------------- MODULE AskHitl -------------------------------
(***************************************************************************)
(* Human-in-the-loop questions end to end: the CLI processes, the daemon,  *)
(* Discord, and the table between them.                                    *)
(***************************************************************************)
EXTENDS AskCli, AskDaemon

CONSTANT MaxTime  \* bound: from here on the clock only runs to pending deadlines

vars == <<asks, now, told, chatVars, cliVars, daemonVars>>

Init == StoreInit /\ ChatInit /\ CliInit /\ DaemonInit

TypeOK == StoreTypeOK /\ ChatTypeOK /\ CliTypeOK /\ DaemonTypeOK

Tick == /\ now < MaxTime \/ \E a \in Ask : Pending(a) /\ asks[a].timeout_at > now
        /\ now' = now + 1
        /\ UNCHANGED <<asks, told, chatVars, cliVars, daemonVars>>

CliNext ==
    /\ \/ \E a \in Ask : \/ BeginCreate(a, dpc # "down")
                         \/ CreateStep(a)
                         \/ KillCreate(a)
                         \/ AskResult(a)
       \/ \E w \in Waiter : \/ \E a \in Ask : StartWait(w, a)
                            \/ WaitStep(w)
                            \/ WaitFails(w)
    /\ UNCHANGED <<now, daemonVars>>

DaemonNext ==
    /\ \/ StartDaemon \/ StopDaemon \/ CrashDaemon
       \/ \E i \in inflight : TakeInteraction(i)
       \/ Adopt \/ Respond
       \/ BeginSweep \/ EndSweep \/ RunCleanup
       \/ \E t \in targets : DisableButtons(t)
    /\ UNCHANGED <<now, cliVars>>

DiscordNext ==
    /\ \/ \E a \in Ask, u \in User : Click(a, u) \/ SubmitModal(a, u)
       \/ \E i \in inflight : LoseInteraction(i)
       \/ \E a \in Ask : DeleteMessage(a)
    /\ UNCHANGED <<asks, now, told, cliVars, daemonVars>>

Next == Tick \/ CliNext \/ DaemonNext \/ DiscordNext

Spec == Init /\ [][Next]_vars

(***************************************************************************)
(* Fairness.  Time passes; a process that is neither waiting for a human   *)
(* nor killed takes its next step (every REST call has a timeout); tokio's *)
(* select! picks at random among the ready arms, so an expire tick that is *)
(* ready again and again is not passed over for ever.  Nobody has to click *)
(* and nobody has to start the daemon again.                               *)
(***************************************************************************)
FairDaemonStep == /\ Adopt \/ Respond \/ EndSweep \/ \E t \in targets : DisableButtons(t)
                  /\ UNCHANGED <<now, cliVars>>
FairSweep == BeginSweep /\ UNCHANGED <<now, cliVars>>
FairWait(w) == WaitStep(w) /\ UNCHANGED <<now, daemonVars>>

Fairness == /\ WF_vars(Tick)
            /\ WF_vars(FairDaemonStep)
            /\ SF_vars(FairSweep)
            /\ \A w \in Waiter : WF_vars(FairWait(w))

FairSpec == Spec /\ Fairness

-------------------------------------------------------------------------------
(* Refinement: how the rest of the world sees an ask.                      *)

Stage(a) == CASE Pending(a) -> "pending"
              [] asks[a].status \in Resolved -> "decided"
              [] OTHER -> IF create[a] = "created" THEN "forgotten" ELSE "unasked"
Decision(a) == IF asks[a].status \in Resolved THEN ResultOf(a) ELSE None

Abstract == INSTANCE AskOutcome WITH stage <- [a \in Ask |-> Stage(a)],
                                     decision <- [a \in Ask |-> Decision(a)]

\* The table, the CLI and the daemon together implement the write-once question
\* of AskOutcome: first UPDATE wins (store.rs try_answer, try_timeout, expire_due),
\* the sweep and the retention only touch rows in the right state.
ImplementsAskOutcome == Abstract!Spec

\* No two observers are ever told different decisions of one ask: not two clickers,
\* not a clicker and an agent, not two agents that read before and after a crash.
Agreement == \A s, t \in told : s.ask = t.ask => s = t

\* An adopted answer came from somebody on the allow-list, in a form and with
\* options the question offered, and the four answer columns are set with it
\* (handle_choice, handle_select, handle_modal_submit; ask_result_from_record).
AnswerWasAskedFor ==
    \A a \in Ask :
      /\ asks[a].status = "answered" <=> asks[a].answer # None
      /\ asks[a].status = "answered" =>
           LET r == Request[a]
               ans == asks[a].answer
           IN /\ r.allowed_users = {} \/ ans.by \in r.allowed_users
              /\ \/ ans.kind = "choice" /\ ~r.multi_select /\ ans.values \subseteq r.options
                 \/ /\ ans.kind = "multi_choice" /\ r.multi_select
                    /\ ans.values # {} /\ ans.values \subseteq r.options
                 \/ ans.kind = "text" /\ r.allow_text

\* An open question can be answered: as long as its row is pending, nothing the
\* CLI or the daemon does takes the components off its message (late sweeps,
\* retried edits and failed creations included).
PendingCanBeAnswered == \A a \in Ask : Pending(a) => message[a] \in {"live", "deleted"}

\* The work list and the retry queue hold an ask at most once, only after its row
\* timed out, and with attempts to spare (ExpireRetryQueue, MAX_EDIT_ATTEMPTS).
EditQueueSound ==
    LET queued == targets \cup failed \cup retry
    IN /\ \A t \in queued : /\ asks[t.ask].status \in {"timed_out", "absent"}
                            /\ t.attempts < MaxEditAttempts
       /\ \A s, t \in queued : s.ask = t.ask => s = t
       /\ targets \cap failed = {}

\* One failing call of "ask create" is never silent: either the components are
\* gone or the message carries the failure notice (mark_orphaned_ask_message).
OneFailureIsVisible ==
    \A a \in Ask : create[a] = "failed" /\ message[a] = "live" /\ faults < 2
                      => a \in notice

\* No ask times out before its deadline, whoever closes it and however stale the
\* read that made it do so (fetch_expiring_overdue, expire_due).
NoEarlyTimeout ==
    [][\A a \in Ask : Pending(a) /\ asks'[a].status = "timed_out"
                         => asks[a].timeout_at <= now]_vars

\* Retention only removes rows whose own deadline has come: cleanup compares created_at
\* alone, MAX_TIMEOUT_SECS <= RETENTION_DAYS and the strict "<" are what makes this hold
\* even when a second begins between the two clock readings of the INSERT.
DeletedOnlyPastDeadline ==
    [][\A a \in Ask : asks[a].status # "absent" /\ asks'[a].status = "absent"
                         => asks[a].timeout_at <= now]_vars

\* "ask wait" reports "still pending" only of an ask whose deadline is ahead, even
\* if the daemon never sweeps (fetch_expiring_overdue).
WaitGivesUpOnlyBeforeDeadline ==
    [][\A w \in Waiter : wait[w].pc # "gaveup" /\ wait'[w].pc = "gaveup"
                            => asks[wait[w].ask].timeout_at > now]_vars

(***************************************************************************)
(* The inductive invariant behind the safety properties.                   *)
(***************************************************************************)

\* A row exists only after its creator inserted it, with a deadline inside retention.
TableInv ==
    \A a \in Ask : asks[a].status # "absent" =>
      /\ create[a] = "created"
      /\ asks[a].timeout_at <= asks[a].created_at + Retention + 1

\* A creator that got past validation, and one whose components are attached.
CreateInv ==
    \A a \in Ask :
      /\ create[a] \in {"send", "attach", "insert"} => Request[a].timeout <= MaxTimeout
      /\ create[a] = "insert" => message[a] \in {"live", "deleted"}

\* Whatever was told is what the row says, for as long as there is one.
ToldInv ==
    \A t \in told :
      /\ create[t.ask] = "created"
      /\ asks[t.ask].status # "absent" =>
           asks[t.ask].status \in Resolved /\ t.result = ResultOf(t.ask)

\* What the handler holds between its database statements and its callback.
HandlerInv ==
    /\ dpc \in {"adopt", "respond"} => current \in Interaction
    /\ dpc = "adopt" => Accepts(current) /\ current.kind # "text"
    /\ dpc = "respond" /\ reply = "won" =>
         /\ asks[current.ask].status = "answered"
         /\ asks[current.ask].answer = AnswerOf(current)

\* A waiter's stale read can only err on the safe side.
WaitInv ==
    \A w \in Waiter : wait[w].pc # "idle" =>
      /\ wait[w].ask \in Ask
      /\ create[wait[w].ask] = "created"
      /\ wait[w].pc = "expire" /\ Pending(wait[w].ask) => asks[wait[w].ask].timeout_at <= now
      /\ wait[w].pc = "reread" => ~Pending(wait[w].ask)

\* The work list exists during a pass, the retry queue between passes.
QueueInv ==
    /\ dpc = "edit" => retry = {}
    /\ dpc # "edit" => targets = {} /\ failed = {}
    /\ \A t \in targets \cup failed \cup retry : create[t.ask] = "created"

IInv == /\ TypeOK
        /\ TableInv /\ CreateInv /\ ToldInv /\ HandlerInv /\ WaitInv /\ QueueInv
        /\ Agreement /\ AnswerWasAskedFor /\ PendingCanBeAnswered /\ EditQueueSound

\* If the daemon is up again and again, every open question is decided in the end.
DaemonKeepsComingBack == []<>(dpc = "idle")
EveryAskIsDecided == DaemonKeepsComingBack => \A a \in Ask : Pending(a) ~> ~Pending(a)

\* A waiter on a pending ask always comes back, with or without a daemon.
EveryWaitReturns ==
    \A w \in Waiter : wait[w].pc = "fetch"
                         ~> wait[w].pc \in {"resolved", "gaveup", "nosuch", "error"}

\* Once the sweep has taken an ask up, its buttons are removed for all failures short of
\* the limit, unless the daemon dies first (ExpireRetryQueue is in memory only).
QueuedButtonsGo ==
    \A a \in Ask : (\E t \in targets \cup failed \cup retry : t.ask = a)
                      ~> (message[a] # "live" \/ dpc = "down")

\* The buttons of a timed-out ask are removed, if the daemon stays up for as long as
\* there are asks (docs/discord-daemon-hitl.md 4.3; ExpireRetryQueue is in memory only).
DaemonStaysUp == []((\E a \in Ask : create[a] # "start") => dpc # "down")
TimedOutButtonsGo ==
    DaemonStaysUp => \A a \in Ask : (asks[a].status = "timed_out") ~> (message[a] # "live")

\* Buttons are never attached to an ask nobody can look up (ask.rs:61-63): a click
\* is told "no such ask" only after retention removed the row.
ClickFindsItsAsk ==
    dpc = "respond" /\ reply = "unknown" => create[current.ask] = "created"
===============================================================================
