-------------------------------- MODULE AskCli --------------------------------
(***************************************************************************)
(* The short-lived processes: "ask create" (one per ask), "ask wait" and   *)
(* "ask result" (tools/discord/src/commands/ask.rs).  A process stands     *)
(* between two steps wherever the code awaits Discord, sleeps, or has      *)
(* closed its database connection; it can be killed there.                 *)
(***************************************************************************)
EXTENDS DiscordChat

CONSTANTS Waiter,           \* "ask wait" processes
          MaxPolls,         \* ceil(--timeout / --interval), at least 1
          MaxOptions,       \* buttons that fit a row
          MaxSelectOptions  \* entries that fit a select menu

ASSUME PollAssumption == MaxPolls \in Nat \ {0}

VARIABLES create,    \* create[a]: where the creator of a stands
          notice,    \* asks whose message got the "registration failed" reply
          wait       \* wait[w]: where a waiter stands

cliVars == <<create, notice, wait>>

CreateState == {"start", "send", "attach", "insert", "strip", "note",
                "created", "failed", "killed"}
WaitState == {"idle", "fetch", "expire", "reread", "resolved", "gaveup", "nosuch", "error"}
WaitType == [pc : WaitState, ask : Ask \cup {None}, polls : 0..MaxPolls]

CliInit == /\ create = [a \in Ask |-> "start"]
           /\ notice = {}
           /\ wait = [w \in Waiter |-> [pc |-> "idle", ask |-> None, polls |-> 0]]

CliTypeOK == /\ create \in [Ask -> CreateState]
             /\ notice \subseteq Ask
             /\ wait \in [Waiter -> WaitType]

-------------------------------------------------------------------------------
(* ask create: send, attach the components, insert the row, in that order. *)

CreateTo(a, s) == create' = [create EXCEPT ![a] = s]

\* validate_ask_create, on what the rest of the model can tell apart.
ValidateAskCreate(a) ==
    LET r == Request[a]
    IN /\ r.options # {}
       /\ Cardinality(r.options) <= IF r.multi_select THEN MaxSelectOptions ELSE MaxOptions
       /\ r.timeout \in 1..MaxTimeout

BeginCreate(a, daemonRunning) ==
    /\ create[a] = "start"
    /\ CreateTo(a, IF daemonRunning /\ ValidateAskCreate(a) THEN "send" ELSE "failed")
    /\ UNCHANGED <<asks, told, chatVars, notice, wait>>

SendQuestion(a) ==
    /\ create[a] = "send"
    /\ \/ /\ CreateTo(a, "attach")
          /\ message' = [message EXCEPT ![a] = "bare"]
          /\ UNCHANGED faults
       \/ /\ Fault("api")
          /\ CreateTo(a, "failed")
          /\ \E s \in {"none", "bare"} : message' = [message EXCEPT ![a] = s]
    /\ UNCHANGED <<asks, told, inflight, modals, notice, wait>>

\* A bug to rule out: the row is inserted although the PATCH failed.
AttachIgnoringErrors(a) ==
    /\ create[a] = "attach"
    /\ CreateTo(a, "insert")
    /\ \/ SetComponents(a, "live") /\ UNCHANGED faults
       \/ Fault("api") /\ UNCHANGED message
    /\ UNCHANGED <<asks, told, inflight, modals, notice, wait>>

AttachComponents(a) ==
    /\ create[a] = "attach"
    /\ \/ /\ message[a] # "deleted"
          /\ CreateTo(a, "insert")
          /\ SetComponents(a, "live")
          /\ UNCHANGED faults
       \/ /\ message[a] = "deleted"
          /\ CreateTo(a, "note")
          /\ UNCHANGED <<message, faults>>
       \/ /\ Fault("api")
          /\ CreateTo(a, "note")
          /\ \E s \in {message[a], "live"} : SetComponents(a, s)
    /\ UNCHANGED <<asks, told, inflight, modals, notice, wait>>

\* A bug to rule out: a failed INSERT leaves the buttons alone.
InsertPendingNoStrip(a) ==
    /\ create[a] = "insert"
    /\ \/ /\ InsertAsk(a)
          /\ CreateTo(a, "created")
          /\ UNCHANGED faults
       \/ /\ Fault("store")
          /\ CreateTo(a, "failed")
          /\ UNCHANGED asks
    /\ UNCHANGED <<told, message, inflight, modals, notice, wait>>

InsertPending(a) ==
    /\ create[a] = "insert"
    /\ \/ /\ InsertAsk(a)
          /\ CreateTo(a, "created")
          /\ UNCHANGED faults
       \/ /\ Fault("store")
          /\ CreateTo(a, "strip")
          /\ UNCHANGED asks
    /\ UNCHANGED <<told, message, inflight, modals, notice, wait>>

\* Best effort: an error of the PATCH is ignored.
StripComponents(a) ==
    /\ create[a] = "strip"
    /\ CreateTo(a, "note")
    /\ \/ /\ SetComponents(a, "closed")
          /\ UNCHANGED faults
       \/ /\ Fault("api")
          /\ \E s \in {message[a], "closed"} : SetComponents(a, s)
    /\ UNCHANGED <<asks, told, inflight, modals, notice, wait>>

\* Best effort as well.
MarkOrphaned(a) ==
    /\ create[a] = "note"
    /\ CreateTo(a, "failed")
    /\ \/ /\ notice' = IF message[a] = "deleted" THEN notice ELSE notice \cup {a}
          /\ UNCHANGED faults
       \/ /\ Fault("api")
          /\ UNCHANGED notice
    /\ UNCHANGED <<asks, told, message, inflight, modals, wait>>

KillCreate(a) ==
    /\ create[a] \in {"send", "attach", "insert", "strip", "note"}
    /\ Fault("crash")
    /\ CreateTo(a, "killed")
    /\ UNCHANGED <<asks, told, message, inflight, modals, notice, wait>>

CreateStep(a) == \/ SendQuestion(a) \/ AttachComponents(a) \/ InsertPending(a)
                 \/ StripComponents(a) \/ MarkOrphaned(a)

-------------------------------------------------------------------------------
(* ask wait and ask result: the printed ask id is what they start from.    *)

WaitTo(w, s) == wait' = [wait EXCEPT ![w].pc = s]

StartWait(w, a) ==
    /\ wait[w].pc = "idle"
    /\ create[a] = "created"
    /\ wait' = [wait EXCEPT ![w] = [pc |-> "fetch", ask |-> a, polls |-> 0]]
    /\ UNCHANGED <<asks, told, chatVars, create, notice>>

\* A bug to rule out: one poll too many.
PollAgainOnceMore(w) ==
    /\ wait[w].polls <= MaxPolls
    /\ wait' = [wait EXCEPT ![w].pc = "fetch", ![w].polls = @ + 1]

\* Still open: sleep and poll again, or give up after the extra poll at the end.
PollAgain(w) ==
    \/ /\ wait[w].polls < MaxPolls
       /\ wait' = [wait EXCEPT ![w].pc = "fetch", ![w].polls = @ + 1]
    \/ /\ wait[w].polls = MaxPolls
       /\ WaitTo(w, "gaveup")

\* A bug to rule out: a deleted ask is taken for one that is not yet there.
SettleAbsentWaits(w) ==
    LET a == wait[w].ask
    IN \/ /\ asks[a].status = "absent"
          /\ WaitTo(w, "fetch")
          /\ UNCHANGED told
       \/ /\ asks[a].status \in Resolved
          /\ WaitTo(w, "resolved")
          /\ Report(a, ResultOf(a))
       \/ /\ Pending(a)
          /\ PollAgain(w)
          /\ UNCHANGED told

\* The record that a poll came back with decides what the waiter does next.
Settle(w) ==
    LET a == wait[w].ask
    IN \/ /\ asks[a].status = "absent"
          /\ WaitTo(w, "nosuch")
          /\ UNCHANGED told
       \/ /\ asks[a].status \in Resolved
          /\ WaitTo(w, "resolved")
          /\ Report(a, ResultOf(a))
       \/ /\ Pending(a)
          /\ PollAgain(w)
          /\ UNCHANGED told

\* A bug to rule out: an overdue ask is taken as still open.
FetchNoExpiry(w) ==
    /\ wait[w].pc = "fetch"
    /\ Settle(w)
    /\ UNCHANGED <<asks, chatVars, create, notice>>
\* A bug to rule out: the deadline is not looked at before the local expiry.
FetchExpiringAny(w) ==
    /\ wait[w].pc = "fetch"
    /\ \/ /\ Pending(wait[w].ask)
          /\ WaitTo(w, "expire")
          /\ UNCHANGED told
       \/ /\ ~Pending(wait[w].ask)
          /\ Settle(w)
    /\ UNCHANGED <<asks, chatVars, create, notice>>

Fetch(w) ==
    /\ wait[w].pc = "fetch"
    /\ \/ /\ Overdue(wait[w].ask)
          /\ WaitTo(w, "expire")
          /\ UNCHANGED told
       \/ /\ ~Overdue(wait[w].ask)
          /\ Settle(w)
    /\ UNCHANGED <<asks, chatVars, create, notice>>

ExpireLocally(w) ==
    /\ wait[w].pc = "expire"
    /\ TryTimeout(wait[w].ask)
    /\ WaitTo(w, "reread")
    /\ UNCHANGED <<told, chatVars, create, notice>>

Reread(w) ==
    /\ wait[w].pc = "reread"
    /\ Settle(w)
    /\ UNCHANGED <<asks, chatVars, create, notice>>

\* The database stays locked past the busy timeout, or the process is killed.
WaitFails(w) ==
    /\ wait[w].pc \in {"fetch", "expire", "reread"}
    /\ Fault("store")
    /\ WaitTo(w, "error")
    /\ UNCHANGED <<asks, told, message, inflight, modals, create, notice>>

WaitStep(w) == Fetch(w) \/ ExpireLocally(w) \/ Reread(w)

AskResult(a) ==
    /\ create[a] = "created"
    /\ asks[a].status \in Resolved
    /\ Report(a, ResultOf(a))
    /\ UNCHANGED <<asks, chatVars, cliVars>>
===============================================================================
