------------------------------ MODULE DiscordChat -----------------------------
(***************************************************************************)
(* Discord as the code in src/ uses it (external): messages with           *)
(* components, interactions on their way to the gateway in any order, open *)
(* modals, and the ways a REST call can fail.  Discord's side of a failed  *)
(* call may have happened or not.                                          *)
(***************************************************************************)
EXTENDS AskStore

CONSTANTS MaxInFlight, \* bound: interactions underway at the same time
          FaultKinds,  \* which faults a run injects
          MaxFaults    \* bound: faults in one behaviour

ASSUME FaultAssumption == MaxInFlight \in Nat /\ MaxFaults \in Nat

VARIABLES message,     \* the question message of each ask
          inflight,    \* interactions Discord has not handed over yet
          modals,      \* <<user, ask>>: an open free-text dialog
          faults       \* faults injected so far

chatVars == <<message, inflight, modals, faults>>

Interaction == [ask : Ask, user : User, kind : {"opt", "sel", "text", "submit"},
                values : SUBSET Value]

Fault(k) == /\ k \in FaultKinds
            /\ faults < MaxFaults
            /\ faults' = faults + 1

MessageState == {"none", "bare", "live", "closed", "deleted"}

ChatInit == /\ message = [a \in Ask |-> "none"]
            /\ inflight = {}
            /\ modals = {}
            /\ faults = 0

ChatTypeOK == /\ message \in [Ask -> MessageState]
              /\ inflight \subseteq Interaction
              /\ modals \subseteq (User \X Ask)
              /\ faults \in Nat

\* PATCH of a message's components that Discord carries out.
SetComponents(a, s) == message' = [message EXCEPT ![a] = IF @ = "deleted" THEN @ ELSE s]

\* What a component of the message, or the submit of a modal, can carry.
Payload(kind) == CASE kind = "text" -> {{}}
                   [] kind = "sel" -> SUBSET Value
                   [] OTHER -> {{v} : v \in Value}

Enqueue(i) == /\ i \notin inflight
              /\ Cardinality(inflight) < MaxInFlight
              /\ inflight' = inflight \cup {i}

Click(a, u) ==
    /\ message[a] = "live"
    /\ \E k \in {"opt", "sel", "text"} : \E vs \in Payload(k) :
          Enqueue([ask |-> a, user |-> u, kind |-> k, values |-> vs])
    /\ UNCHANGED <<message, modals, faults>>

SubmitModal(a, u) ==
    /\ <<u, a>> \in modals
    /\ modals' = modals \ {<<u, a>>}
    /\ \E vs \in Payload("submit") :
          Enqueue([ask |-> a, user |-> u, kind |-> "submit", values |-> vs])
    /\ UNCHANGED <<message, faults>>

\* The gateway was down, or the three seconds to answer it are over.
LoseInteraction(i) ==
    /\ "lost" \in FaultKinds
    /\ i \in inflight
    /\ inflight' = inflight \ {i}
    /\ UNCHANGED <<message, modals, faults>>

\* Somebody deletes the question's message.
DeleteMessage(a) ==
    /\ message[a] \in {"bare", "live", "closed"}
    /\ Fault("delete")
    /\ message' = [message EXCEPT ![a] = "deleted"]
    /\ UNCHANGED <<inflight, modals>>
===============================================================================
