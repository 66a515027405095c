------------------------------- MODULE AskDaemon ------------------------------
(***************************************************************************)
(* The daemon: one task that runs the select! loop of                      *)
(* tools/discord/src/daemon/gateway.rs and, inside it, to completion, the  *)
(* handlers of tools/discord/src/daemon/interactions.rs.  While a handler  *)
(* awaits Discord the loop takes nothing else, but the CLI processes keep  *)
(* running, so every database statement and every REST call is a step.     *)
(***************************************************************************)
EXTENDS DiscordChat

CONSTANTS MaxEditAttempts  \* attempts at removing the buttons of a timed-out ask

ASSUME AttemptsAssumption == MaxEditAttempts \in Nat \ {0}

VARIABLES dpc,      \* where the daemon stands
          current,  \* the interaction being handled
          reply,    \* the callback chosen for it
          targets,  \* edits left in the running expire pass
          failed,   \* edits of this pass to retry on the next one
          retry     \* ExpireRetryQueue

daemonVars == <<dpc, current, reply, targets, failed, retry>>

DaemonState == {"down", "idle", "adopt", "respond", "edit"}
Reply == {"none", "unknown", "rejected", "modal", "won", "closed"}
PendingEdit == [ask : Ask, attempts : Nat]

DaemonInit == /\ dpc = "down"
              /\ current = None
              /\ reply = "none"
              /\ targets = {} /\ failed = {} /\ retry = {}

DaemonTypeOK == /\ dpc \in DaemonState
                /\ current \in Interaction \cup {None}
                /\ reply \in Reply
                /\ targets \subseteq PendingEdit
                /\ failed \subseteq PendingEdit
                /\ retry \subseteq PendingEdit

-------------------------------------------------------------------------------
(* Life of the process.  Everything above the table is in memory only.     *)

StartDaemon ==
    /\ dpc = "down"
    /\ dpc' = "idle"
    /\ UNCHANGED <<asks, told, chatVars, current, reply, targets, failed, retry>>

Vanish == /\ dpc' = "down"
          /\ current' = None
          /\ reply' = "none"
          /\ targets' = {} /\ failed' = {} /\ retry' = {}

\* SIGTERM and a fatal gateway close are taken by the loop, between handlers.
StopDaemon ==
    /\ dpc = "idle"
    /\ Vanish
    /\ UNCHANGED <<asks, told, chatVars>>

CrashDaemon ==
    /\ dpc # "down"
    /\ Fault("crash")
    /\ Vanish
    /\ UNCHANGED <<asks, told, message, inflight, modals>>

-------------------------------------------------------------------------------
(* Interactions: look the ask up, judge, adopt, and only then call back.   *)

\* A bug to rule out: the allow-list is ignored.
AcceptsAnyUser(i) ==
    LET r == Request[i.ask]
    IN CASE i.kind = "opt" -> ~r.multi_select /\ i.values \subseteq r.options
         [] i.kind = "sel" -> r.multi_select /\ i.values # {} /\ i.values \subseteq r.options
         [] OTHER -> r.allow_text

\* Judged from the stored record alone: allow-list, kind of question, option index.
Accepts(i) ==
    LET r == Request[i.ask]
    IN /\ r.allowed_users = {} \/ i.user \in r.allowed_users
       /\ CASE i.kind = "opt" -> ~r.multi_select /\ i.values \subseteq r.options
            [] i.kind = "sel" -> r.multi_select /\ i.values # {} /\ i.values \subseteq r.options
            [] OTHER -> r.allow_text

Verdict(i) == IF asks[i.ask].status = "absent" THEN "unknown"
              ELSE IF ~Accepts(i) THEN "rejected"
              ELSE IF i.kind = "text" THEN "modal"
              ELSE "none"

TakeInteraction(i) ==
    /\ dpc = "idle"
    /\ i \in inflight
    /\ inflight' = inflight \ {i}
    /\ \/ /\ current' = i
          /\ reply' = Verdict(i)
          /\ dpc' = IF Verdict(i) = "none" THEN "adopt" ELSE "respond"
          /\ UNCHANGED faults
       \/ /\ Fault("store")
          /\ UNCHANGED <<dpc, current, reply>>
    /\ UNCHANGED <<asks, told, message, modals, targets, failed, retry>>

AnswerOf(i) == [kind |-> CASE i.kind = "opt" -> "choice"
                           [] i.kind = "sel" -> "multi_choice"
                           [] OTHER -> "text",
                values |-> i.values, by |-> i.user]

\* A bug to rule out: the result of the conditional UPDATE is not looked at.
AdoptAlwaysWins ==
    /\ dpc = "adopt"
    /\ TryAnswer(current.ask, AnswerOf(current))
    /\ reply' = "won" /\ dpc' = "respond"
    /\ UNCHANGED <<told, chatVars, current, targets, failed, retry>>

Adopt ==
    /\ dpc = "adopt"
    /\ \/ /\ TryAnswer(current.ask, AnswerOf(current))
          /\ reply' = IF Pending(current.ask) THEN "won" ELSE "closed"
          /\ dpc' = "respond"
          /\ UNCHANGED <<faults, current>>
       \/ /\ Fault("store")
          /\ dpc' = "idle" /\ current' = None /\ UNCHANGED <<asks, reply>>
    /\ UNCHANGED <<told, message, inflight, modals, targets, failed, retry>>

\* What the callback does at Discord's when it gets there.
Callback ==
    \/ /\ reply = "won"
       /\ SetComponents(current.ask, "closed")
       /\ Report(current.ask, [status |-> "answered", answer |-> AnswerOf(current)])
       /\ UNCHANGED modals
    \/ /\ reply = "modal"
       /\ modals' = modals \cup {<<current.user, current.ask>>}
       /\ UNCHANGED <<message, told>>
    \/ /\ reply \in {"unknown", "rejected", "closed"}
       /\ UNCHANGED <<message, told, modals>>

\* A failed callback never takes an adopted answer back.
Respond ==
    /\ dpc = "respond"
    /\ \/ Callback /\ UNCHANGED faults
       \/ Fault("api") /\ (Callback \/ UNCHANGED <<message, told, modals>>)
    /\ dpc' = "idle" /\ current' = None /\ reply' = "none"
    /\ UNCHANGED <<asks, inflight, targets, failed, retry>>

-------------------------------------------------------------------------------
(* expire_and_disable, on a tick of the loop.                              *)

FreshEdits == {[ask |-> a, attempts |-> 0] : a \in Due}

\* A bug to rule out: the queue of failed edits is not carried over.
BeginSweepFreshOnly ==
    /\ dpc = "idle"
    /\ FreshEdits # {}
    /\ ExpireDue
    /\ targets' = FreshEdits
    /\ retry' = {}
    /\ dpc' = "edit"
    /\ UNCHANGED <<told, chatVars, current, reply, failed>>

BeginSweep ==
    /\ dpc = "idle"
    /\ FreshEdits \cup retry # {}
    /\ ExpireDue
    /\ targets' = FreshEdits \cup retry
    /\ retry' = {}
    /\ dpc' = "edit"
    /\ UNCHANGED <<told, chatVars, current, reply, failed>>

EditFailed(t) ==
    LET u == [t EXCEPT !.attempts = @ + 1]
    IN failed' = IF u.attempts >= MaxEditAttempts THEN failed ELSE failed \cup {u}

DisableButtons(t) ==
    /\ dpc = "edit"
    /\ t \in targets
    /\ targets' = targets \ {t}
    /\ \/ /\ message[t.ask] # "deleted"
          /\ SetComponents(t.ask, "closed")
          /\ UNCHANGED <<faults, failed>>
       \/ /\ message[t.ask] = "deleted"      \* 404: dropped, never retried
          /\ UNCHANGED <<message, faults, failed>>
       \/ /\ Fault("api")
          /\ \E s \in {message[t.ask], "closed"} : SetComponents(t.ask, s)
          /\ EditFailed(t)
    /\ UNCHANGED <<asks, told, inflight, modals, dpc, current, reply, retry>>

EndSweep ==
    /\ dpc = "edit"
    /\ targets = {}
    /\ retry' = failed
    /\ failed' = {}
    /\ dpc' = "idle"
    /\ UNCHANGED <<asks, told, chatVars, current, reply, targets>>

\* A bug to rule out: retention runs beside a handler instead of between handlers.
CleanupUnserialized ==
    /\ dpc # "down"
    /\ Cleanup
    /\ UNCHANGED <<told, chatVars, daemonVars>>

RunCleanup ==
    /\ dpc = "idle"
    /\ Cleanup
    /\ UNCHANGED <<told, chatVars, daemonVars>>
===============================================================================
