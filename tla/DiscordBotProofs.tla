---------------------------- MODULE DiscordBotProofs --------------------------
(***************************************************************************)
(* Theorems about DiscordBot, for any processes, scenarios and bounds.     *)
(***************************************************************************)
EXTENDS DiscordBot, StoreSchemaProofs, SequenceTheorems

-------------------------------------------------------------------------------
(* Sequences that grow.                                                    *)

LEMMA SequenceFacts ==
    ASSUME NEW s, IsSequence(s)
    PROVE  /\ Len(s) \in Nat
           /\ DOMAIN s = 1..Len(s)
           /\ \A i \in 1..Len(s) : s[i] \in ToSet(s)
<1>1. s \in Seq(ToSet(s))
  BY DEF IsSequence
<1>2. QED  BY <1>1, LenProperties, ElementOfSeq

LEMMA SequenceOfSet ==
    ASSUME NEW S, NEW s \in Seq(S)
    PROVE  IsSequence(s) /\ ToSet(s) \subseteq S
<1>1. /\ Len(s) \in Nat /\ DOMAIN s = 1..Len(s)
      /\ s \in [1..Len(s) -> S]
  BY LenProperties
<1>2. \A i \in 1..Len(s) : s[i] \in ToSet(s) /\ s[i] \in S
  BY <1>1 DEF ToSet
<1>3. s \in [1..Len(s) -> ToSet(s)]
  BY <1>1, <1>2
<1>4. s \in Seq(ToSet(s))
  BY <1>1, <1>3
<1>5. ToSet(s) \subseteq S
  BY <1>1 DEF ToSet
<1>6. QED  BY <1>4, <1>5 DEF IsSequence

LEMMA EmptySequence == IsSequence(<<>>) /\ Len(<<>>) = 0
<1>1. <<>> \in Seq(ToSet(<<>>)) /\ Len(<<>>) = 0
  BY EmptySeq
<1>2. QED  BY <1>1 DEF IsSequence

LEMMA AppendToSequence ==
    ASSUME NEW s, IsSequence(s), NEW e
    PROVE  /\ IsSequence(Append(s, e))
           /\ Len(Append(s, e)) = Len(s) + 1
           /\ \A i \in 1..Len(s) : Append(s, e)[i] = s[i]
           /\ Append(s, e)[Len(s) + 1] = e
<1> DEFINE S == ToSet(s) \cup {e}
<1>1. s \in Seq(S) /\ e \in S
  <2>1. s \in Seq(ToSet(s))
    BY DEF IsSequence
  <2>2. QED  BY <2>1, SeqMonotonic
<1> HIDE DEF S
<1>2. /\ Append(s, e) \in Seq(S)
      /\ Len(Append(s, e)) = Len(s) + 1
      /\ \A i \in 1..Len(s) : Append(s, e)[i] = s[i]
      /\ Append(s, e)[Len(s) + 1] = e
  BY <1>1, AppendProperties
<1>3. QED  BY <1>2, SequenceOfSet

-------------------------------------------------------------------------------
(* Types.  The sequences of the state are sequences, whatever they hold.   *)

CliShape == /\ DOMAIN agenda = Proc /\ DOMAIN mem = Proc /\ DOMAIN told = Proc
            /\ \A p \in Proc : IsSequence(agenda[p]) /\ IsSequence(told[p])
            /\ \A p \in Proc : Len(told[p]) <= Len(agenda[p])

CliInv == CliShape /\ CliTypeOK

AnswerKind == ErrorKind \cup {"ok", "killed"}

\* A command goes on, or ends with an answer of a kind that there is.
LEMMA GotoKeepsCliInv ==
    ASSUME CliInv, NEW p \in Proc, NEW s \in ProcState, NEW m,
           pc[p] # "idle" \/ Len(told[p]) < Len(agenda[p]), Goto(p, s, m)
    PROVE  CliInv'
<1>1. /\ agenda' = agenda /\ told' = told
      /\ pc' = [pc EXCEPT ![p] = s] /\ mem' = [mem EXCEPT ![p] = m]
  BY DEF Goto
<1>2. CliShape'
  BY <1>1 DEF CliInv, CliShape
<1>3. pc' \in [Proc -> ProcState]
  BY <1>1 DEF CliInv, CliTypeOK
<1>4. \A q \in Proc : pc'[q] # "idle" => Len(told'[q]) < Len(agenda'[q])
  BY <1>1 DEF CliInv, CliTypeOK
<1>5. QED  BY <1>1, <1>2, <1>3, <1>4 DEF CliInv, CliTypeOK

LEMMA FinishKeepsCliInv ==
    ASSUME CliInv, NEW p \in Proc, NEW kind \in AnswerKind, NEW ids, NEW cursor,
           pc[p] # "idle" \/ Len(told[p]) < Len(agenda[p]), Finish(p, kind, ids, cursor)
    PROVE  /\ CliInv'
           /\ IsSequence(told[p]) /\ Len(told'[p]) = Len(told[p]) + 1
           /\ \A n \in 1..Len(told[p]) : told'[p][n] = told[p][n]
           /\ told'[p][Len(told[p]) + 1] = [kind |-> kind, ids |-> ids, cursor |-> cursor]
<1> DEFINE a == [kind |-> kind, ids |-> ids, cursor |-> cursor]
<1>1. /\ agenda' = agenda /\ told' = [told EXCEPT ![p] = Append(told[p], a)]
      /\ pc' = [pc EXCEPT ![p] = "idle"] /\ mem' = [mem EXCEPT ![p] = None]
  BY DEF Finish
<1>2. IsSequence(told[p]) /\ told'[p] = Append(told[p], a)
  BY <1>1 DEF CliInv, CliShape
<1>3. a.kind = kind
  OBVIOUS
<1> HIDE DEF a
<1>4. /\ IsSequence(told'[p]) /\ Len(told'[p]) = Len(told[p]) + 1
      /\ \A n \in 1..Len(told[p]) : told'[p][n] = told[p][n]
      /\ told'[p][Len(told[p]) + 1] = a
  BY <1>2, AppendToSequence
<1>5. \A q \in Proc : Len(told[q]) \in Nat /\ Len(agenda[q]) \in Nat
  BY SequenceFacts DEF CliInv, CliShape
<1>6. Len(told[p]) < Len(agenda[p])
  BY DEF CliInv, CliTypeOK
<1>7. CliShape'
  BY <1>1, <1>4, <1>5, <1>6 DEF CliInv, CliShape
<1>8. pc' \in [Proc -> ProcState]
  BY <1>1 DEF CliInv, CliTypeOK, ProcState
<1>9. \A q \in Proc : pc'[q] # "idle" => Len(told'[q]) < Len(agenda'[q])
  BY <1>1 DEF CliInv, CliTypeOK
<1>10. \A q \in Proc : \A n \in 1..Len(told'[q]) : told'[q][n].kind \in AnswerKind
  <2> TAKE q \in Proc
  <2>1. CASE q # p
    BY <1>1, <2>1 DEF CliInv, CliTypeOK, CliShape, AnswerKind
  <2>2. CASE q = p
    <3>1. \A n \in 1..Len(told[p]) : told'[p][n].kind \in AnswerKind
      BY <1>4 DEF CliInv, CliTypeOK, AnswerKind
    <3>2. told'[p][Len(told[p]) + 1].kind \in AnswerKind
      BY <1>3, <1>4
    <3>3. \A n \in 1..Len(told'[p]) : n \in 1..Len(told[p]) \/ n = Len(told[p]) + 1
      BY <1>4, <1>5
    <3>4. QED  BY <2>2, <3>1, <3>2, <3>3
  <2>3. QED  BY <2>1, <2>2
<1>11. QED  BY <1>2, <1>4, <1>7, <1>8, <1>9, <1>10 DEF CliInv, CliTypeOK, AnswerKind, a

LEMMA AnswerKeepsCliInv ==
    ASSUME CliInv, NEW p \in Proc, NEW kind \in AnswerKind,
           pc[p] # "idle" \/ Len(told[p]) < Len(agenda[p]), Answer(p, kind)
    PROVE  CliInv'
BY FinishKeepsCliInv DEF Answer

\* A call is what RestTypeOK says of it.
IsCall(s) == /\ s.pc \in {"idle", "sent", "backoff", "answered", "ok", "failed"}
             /\ s.pc \in {"sent", "backoff", "answered"} => s.retries \in 0..MaxRetries
             /\ s.pc = "failed" => s.kind \in CallKind

LEMMA CallToKeepsType ==
    ASSUME RestTypeOK, NEW c \in Client, NEW s, IsCall(s), CallTo(c, s)
    PROVE  RestTypeOK'
<1>1. call' = [call EXCEPT ![c] = s]
  BY DEF CallTo
<1>2. DOMAIN call' = Client /\ call'[c] = s /\ \A d \in Client \ {c} : call'[d] = call[d]
  BY <1>1 DEF RestTypeOK
<1>3. \A d \in Client : IsCall(call[d])
  BY DEF RestTypeOK, IsCall, InCall
<1>4. \A d \in Client : IsCall(call'[d])
  BY <1>2, <1>3
<1>5. QED  BY <1>2, <1>4 DEF RestTypeOK, IsCall, InCall

LEMMA IssueKeepsType ==
    ASSUME RestTypeOK, NEW c \in Client, NEW req, Issue(c, req)
    PROVE  RestTypeOK'
<1> DEFINE s == [pc |-> "sent", req |-> req, retries |-> 0]
<1>1. IsCall(s)
  BY RetryAssumption DEF IsCall
<1>2. QED  BY <1>1, CallToKeepsType DEF Issue

LEMMA HangUpKeepsType ==
    ASSUME RestTypeOK, NEW c \in Client, HangUp(c)
    PROVE  RestTypeOK'
<1>1. IsCall([pc |-> "idle"])
  BY DEF IsCall
<1>2. QED  BY <1>1, CallToKeepsType DEF HangUp

LEMMA RespondKeepsType ==
    ASSUME RestTypeOK, NEW c \in Client, NEW r, Respond(c, r)
    PROVE  RestTypeOK'
<1> DEFINE s == [pc |-> "answered", req |-> call[c].req, retries |-> call[c].retries,
                 response |-> r]
<1>1. IsCall(s) /\ CallTo(c, s)
  BY DEF IsCall, Respond, RestTypeOK, InCall
<1>2. QED  BY <1>1, CallToKeepsType

LEMMA FailKeepsType ==
    ASSUME RestTypeOK, NEW c \in Client, NEW kind \in CallKind, Fail(c, kind)
    PROVE  RestTypeOK'
<1>1. IsCall([pc |-> "failed", kind |-> kind])
  BY DEF IsCall
<1>2. QED  BY <1>1, CallToKeepsType DEF Fail

LEMMA AttemptKeepsType ==
    ASSUME RestTypeOK, NEW c \in Client, NEW state \in {"sent", "backoff"},
           NEW n \in 0..MaxRetries, Attempt(c, state, n)
    PROVE  RestTypeOK'
<1>1. IsCall([pc |-> state, req |-> call[c].req, retries |-> n])
  BY DEF IsCall
<1>2. QED  BY <1>1, CallToKeepsType DEF Attempt

LEMMA HttpKeepsType ==
    ASSUME RestTypeOK, NEW c \in Client, Http(c)
    PROVE  RestTypeOK'
<1> DEFINE r == call[c].response
           n == call[c].retries
           again == MayRetry(r, n)
<1>1. CASE Receive(c)
  <2>1. /\ call[c].pc = "answered" /\ n \in 0..MaxRetries
        /\ \/ /\ r.status = "success" /\ CallTo(c, [pc |-> "ok", body |-> r.body])
           \/ again /\ Attempt(c, "backoff", n + 1)
           \/ Fail(c, "rate_limit") \/ Fail(c, "auth") \/ Fail(c, "api")
    BY <1>1 DEF Receive, RestTypeOK, InCall
  <2>2. CASE CallTo(c, [pc |-> "ok", body |-> r.body])
    <3>1. IsCall([pc |-> "ok", body |-> r.body])
      BY DEF IsCall
    <3>2. QED  BY <2>2, <3>1, CallToKeepsType
  <2>3. CASE again /\ Attempt(c, "backoff", n + 1)
    <3>1. n + 1 \in 0..MaxRetries
      BY <2>1, <2>3, RetryAssumption DEF MayRetry
    <3>2. QED  BY <2>3, <3>1, AttemptKeepsType
  <2>4. CASE Fail(c, "rate_limit") \/ Fail(c, "auth") \/ Fail(c, "api")
    BY <2>4, FailKeepsType DEF CallKind
  <2>5. QED  BY <2>1, <2>2, <2>3, <2>4
<1>2. CASE Resend(c)
  <2>1. n \in 0..MaxRetries /\ Attempt(c, "sent", n)
    BY <1>2 DEF Resend, RestTypeOK, InCall
  <2>2. QED  BY <2>1, AttemptKeepsType
<1>3. QED  BY <1>1, <1>2 DEF Http

LEMMA NetworkKeepsType ==
    ASSUME RestTypeOK, NEW c \in Client, Network(c)
    PROVE  RestTypeOK'
<1>1. Serve(c) \/ Refuse(c) => \E r : Respond(c, r)
  BY DEF Serve, Refuse
<1>2. Lose(c) => Fail(c, "network")
  BY DEF Lose, Break
<1>3. QED  BY <1>1, <1>2, RespondKeepsType, FailKeepsType DEF Network, CallKind

\* The log only grows, by messages of channels that are there.
LogInv == /\ IsSequence(log)
          /\ \A i \in 1..Len(log) : log[i].ch \in Channel /\ log[i].kind \in {"user", "system"}

LogGrows == /\ Len(log) \in Nat /\ Len(log') \in Nat /\ Len(log) <= Len(log')
            /\ \A i \in 1..Len(log) : log'[i] = log[i]

LEMMA AppendKeepsLogInv ==
    ASSUME LogInv, NEW e, e.ch \in Channel, e.kind \in {"user", "system"},
           log' = Append(log, e)
    PROVE  /\ LogInv' /\ LogGrows
           /\ Len(log') = Len(log) + 1 /\ log'[Len(log) + 1] = e
<1>1. /\ IsSequence(log') /\ Len(log) \in Nat
      /\ Len(log') = Len(log) + 1
      /\ \A i \in 1..Len(log) : log'[i] = log[i]
      /\ log'[Len(log) + 1] = e
  BY AppendToSequence, SequenceFacts DEF LogInv
<1>2. \A i \in 1..Len(log') : i \in 1..Len(log) \/ i = Len(log) + 1
  BY <1>1
<1>3. QED  BY <1>1, <1>2 DEF LogInv, LogGrows

LEMMA SameLog ==
    ASSUME LogInv, log' = log
    PROVE  LogInv' /\ LogGrows
BY SequenceFacts DEF LogInv, LogGrows

\* What Discord makes of a request that it carries out.
LEMMA EffectKeepsLogInv ==
    ASSUME LogInv, NEW req, ~Refused(req), Effect(req)
    PROVE  /\ LogInv' /\ LogGrows
           /\ threads \subseteq 1..Len(log) => threads' \subseteq 1..Len(log')
<1>1. req.ch \in Channel
  BY DEF Refused
<1>2. CASE req.op = "post"
  <2>1. log' = Append(log, Posted(req)) /\ threads' = threads
    BY <1>2 DEF Effect
  <2>2. Posted(req).ch = req.ch /\ Posted(req).kind = "user"
    BY DEF Posted
  <2>3. LogInv' /\ LogGrows
    BY <1>1, <2>1, <2>2, AppendKeepsLogInv
  <2>4. QED  BY <2>1, <2>3 DEF LogGrows
<1>3. CASE req.op = "thread"
  <2>1. /\ log' = Append(log, Notice(req.ch))
        /\ threads' = IF req.from = None THEN threads ELSE threads \cup {req.from}
    BY <1>3 DEF Effect
  <2>2. Notice(req.ch).ch = req.ch /\ Notice(req.ch).kind = "system"
    BY DEF Notice, PostOf
  <2>3. LogInv' /\ LogGrows
    BY <1>1, <2>1, <2>2, AppendKeepsLogInv
  <2>4. req.from # None => req.from \in 1..Len(log)
    BY <1>3 DEF Refused
  <2>5. QED  BY <2>1, <2>3, <2>4 DEF LogGrows
<1>4. CASE req.op \notin {"post", "thread"}
  <2>1. log' = log /\ threads' = threads
    BY <1>4 DEF Effect
  <2>2. QED  BY <2>1, SameLog
<1>5. QED  BY <1>2, <1>3, <1>4

ChatInv == LogInv /\ ChatTypeOK

LEMMA NetworkKeepsChatInv ==
    ASSUME ChatInv, NEW c \in Client, Network(c)
    PROVE  ChatInv' /\ LogGrows
<1> DEFINE req == call[c].req
<1>1. CASE Serve(c)
  <2>1. /\ stray' = stray /\ faults' = faults
        /\ \/ log' = log /\ threads' = threads
           \/ ~Refused(req) /\ Effect(req)
    BY <1>1 DEF Serve
  <2> HIDE DEF req
  <2>2. LogInv' /\ LogGrows /\ threads' \subseteq 1..Len(log')
    BY <2>1, SameLog, EffectKeepsLogInv DEF ChatInv, ChatTypeOK
  <2>3. QED  BY <2>1, <2>2 DEF ChatInv, ChatTypeOK, LogInv
<1>2. CASE Refuse(c)
  <2>1. UNCHANGED chatVars
    BY <1>2 DEF Refuse
  <2>2. QED  BY <2>1, SameLog DEF chatVars, ChatInv, ChatTypeOK
<1>3. CASE Lose(c)
  <2>1. UNCHANGED <<log, threads, faults>> /\ stray' \subseteq stray \cup {req}
        /\ (stray' = stray \/ req.op = "post")
    BY <1>3 DEF Lose, LeaveBehind
  <2>2. QED  BY <2>1, SameLog DEF ChatInv, ChatTypeOK
<1>4. QED  BY <1>1, <1>2, <1>3 DEF Network

LEMMA ChatterKeepsChatInv ==
    ASSUME ChatInv, scenario \in Scenarios, Chatter
    PROVE  ChatInv' /\ LogGrows
<1>1. ASSUME NEW req \in stray, Arrive(req) PROVE ChatInv' /\ LogGrows
  <2>1. /\ stray' = stray \ {req} /\ UNCHANGED <<threads, faults>>
        /\ log' = IF Refused(req) THEN log ELSE Append(log, Posted(req))
    BY <1>1 DEF Arrive
  <2>2. ~Refused(req) => req.ch \in Channel
    BY DEF Refused
  <2>3. Posted(req).ch = req.ch /\ Posted(req).kind = "user"
    BY DEF Posted
  <2>4. LogInv' /\ LogGrows
    BY <2>1, <2>2, <2>3, SameLog, AppendKeepsLogInv DEF ChatInv
  <2>5. QED  BY <2>1, <2>4 DEF ChatInv, ChatTypeOK, LogGrows, LogInv
<1>2. ASSUME NEW e \in scenario.talk, Say(e) PROVE ChatInv' /\ LogGrows
  <2>1. UNCHANGED <<threads, stray, faults>> /\ log' = Append(log, PostOf(e))
    BY <1>2 DEF Say
  <2>2. PostOf(e).ch \in Channel /\ PostOf(e).kind \in {"user", "system"}
    BY ScenarioAssumption DEF PostOf
  <2>3. LogInv' /\ LogGrows
    BY <2>1, <2>2, AppendKeepsLogInv DEF ChatInv
  <2>4. QED  BY <2>1, <2>3 DEF ChatInv, ChatTypeOK, LogGrows, LogInv
<1>3. QED  BY <1>1, <1>2 DEF Chatter

\* Every step of the bot keeps what has been said.
LEMMA StepKeepsChatInv ==
    ASSUME ChatInv, scenario \in Scenarios, [Next]_vars
    PROVE  ChatInv' /\ LogGrows
<1>1. ASSUME UNCHANGED chatVars PROVE ChatInv' /\ LogGrows
  BY <1>1, SameLog DEF chatVars, ChatInv, ChatTypeOK
<1>2. CASE UNCHANGED vars
  BY <1>1, <1>2 DEF vars
<1>3. ASSUME NEW p \in Proc, CliStep(p) PROVE ChatInv' /\ LogGrows
  BY <1>1, <1>3 DEF CliStep, WriteConfig, Converse, StartStore, MigrateStore, EndStore, chatVars
<1>4. ASSUME NEW c \in Client, Http(c) PROVE ChatInv' /\ LogGrows
  BY <1>1, <1>4 DEF Http
<1>5. CASE Daemon \/ Mishap
  BY <1>1, <1>5 DEF Daemon, Mishap
<1>6. ASSUME NEW p \in Proc, Kill(p) PROVE ChatInv' /\ LogGrows
  <2>1. UNCHANGED <<log, threads, faults>> /\ stray' \subseteq stray \cup {call[p].req}
        /\ (stray' = stray \/ call[p].req.op = "post")
    BY <1>6 DEF Kill, LeaveBehind
  <2>2. QED  BY <2>1, SameLog DEF ChatInv, ChatTypeOK
<1>7. QED
  BY <1>2, <1>3, <1>4, <1>5, <1>6, NetworkKeepsChatInv, ChatterKeepsChatInv DEF Next, Progress

\* The event loop, on its way through the log.
TriggerInv == TriggerTypeOK /\ (loop.pc = "lookup" => loop.next <= Len(log))

\* A hook is started by giving an idle process the command for a message of the log.
HookStarts == \E h \in HookProc : \E i \in 1..Len(log) :
                 agenda[h] = <<>> /\ agenda' = [agenda EXCEPT ![h] = <<reply[log[i].ch]>>]

LEMMA SpawnStartsHook ==
    ASSUME NEW i \in 1..Len(log), NEW dir, Spawn(i, dir)
    PROVE  agenda' = agenda \/ HookStarts
<1> DEFINE free == {h \in HookProc : agenda[h] = <<>>}
<1>1. CASE free = {}
  BY <1>1 DEF Spawn
<1>2. CASE free # {}
  <2>1. (CHOOSE h \in free : TRUE) \in free
    BY <1>2
  <2>2. agenda' = [agenda EXCEPT ![CHOOSE h \in free : TRUE] = <<reply[log[i].ch]>>]
    BY <1>2 DEF Spawn
  <2> DEFINE hook == CHOOSE h \in free : TRUE
  <2>3. hook \in HookProc /\ agenda[hook] = <<>>
    BY <2>1
  <2>4. agenda' = [agenda EXCEPT ![hook] = <<reply[log[i].ch]>>]
    BY <2>2
  <2> HIDE DEF hook
  <2>5. QED  BY <2>3, <2>4 DEF HookStarts
<1>3. QED  BY <1>1, <1>2

LEMMA JudgeMovesOn ==
    ASSUME TriggerInv, LogInv, NEW i \in 1..Len(log), NEW parent, Judge(i, parent)
    PROVE  /\ loop' = [pc |-> "listening", next |-> i + 1]
           /\ agenda' = agenda \/ HookStarts
           /\ \/ hooks' = hooks
              \/ /\ hooks' = hooks \cup {[msg |-> i, cwd |-> ResolveDir(log[i].ch, parent)]}
                 /\ Decide(log[i], parent)
                 /\ ResolveDir(log[i].ch, parent) \in dirs \ {None}
<1> DEFINE dir == ResolveDir(log[i].ch, parent)
<1>1. /\ LoopTo("listening", i + 1)
      /\ \/ Decide(log[i], parent) /\ dir # None /\ Spawn(i, dir)
         \/ UNCHANGED <<hooks, agenda>>
  BY DEF Judge
<1>2. dir # None => dir \in dirs \ {None}
  BY DEF ResolveDir
<1> HIDE DEF dir
<1>3. Spawn(i, dir) => /\ agenda' = agenda \/ HookStarts
                       /\ hooks' = hooks \cup {[msg |-> i, cwd |-> dir]}
  BY SpawnStartsHook DEF Spawn
<1>4. QED  BY <1>1, <1>2, <1>3 DEF dir, LoopTo

LEMMA DaemonKeepsTriggerInv ==
    ASSUME TriggerInv, LogInv, LoopStep, log' = log
    PROVE  TriggerInv' /\ (agenda' = agenda \/ HookStarts)
<1>1. Len(log) \in Nat
  BY SequenceFacts DEF LogInv
<1>2. CASE Boot
  <2> DEFINE s == SettingsOf(Loaded.fields)
  <2>1. /\ UNCHANGED <<placements, dirs, hooks, agenda>>
        /\ \/ loop' \in {[pc |-> "refused", next |-> loop.next], [pc |-> "deaf", next |-> loop.next]}
              /\ settings' = settings
           \/ loop' = [pc |-> "connecting", next |-> loop.next] /\ settings' = s
    BY <1>2 DEF Boot, LoopTo
  <2>2. DOMAIN s = {"issue_channels", "trigger_bots", "by_channel", "default"}
    BY DEF SettingsOf
  <2> HIDE DEF s
  <2>3. loop'.pc \in {"refused", "deaf", "connecting"} /\ loop'.next = loop.next
    BY <2>1
  <2>4. loop'.pc = "connecting" => settings' = s
    BY <2>1
  <2>5. QED  BY <2>1, <2>2, <2>3, <2>4 DEF TriggerInv, TriggerTypeOK, LoopState
<1>3. CASE Ready
  <2>1. /\ loop.pc = "connecting" /\ loop' = [pc |-> "listening", next |-> Len(log) + 1]
        /\ UNCHANGED <<settings, placements, dirs, hooks, agenda>>
    BY <1>3 DEF Ready, LoopTo
  <2>2. QED  BY <1>1, <2>1 DEF TriggerInv, TriggerTypeOK, LoopState
<1>4. ASSUME NEW i \in 1..Len(log), NEW parent, Judge(i, parent),
             loop.pc \in {"listening", "lookup"}, UNCHANGED <<settings, dirs>>,
             DOMAIN placements' \subseteq Channel
      PROVE  TriggerInv' /\ (agenda' = agenda \/ HookStarts)
  <2>1. /\ loop' = [pc |-> "listening", next |-> i + 1]
        /\ agenda' = agenda \/ HookStarts
        /\ \/ hooks' = hooks
           \/ \E d \in dirs : hooks' = hooks \cup {[msg |-> i, cwd |-> d]}
    BY <1>4, JudgeMovesOn
  <2>2. \A h \in hooks' : h.msg \in 1..Len(log) /\ h.cwd \in Dir
    BY <2>1 DEF TriggerInv, TriggerTypeOK
  <2>3. QED  BY <1>1, <1>4, <2>1, <2>2 DEF TriggerInv, TriggerTypeOK, LoopState
<1>5. CASE OnMessage
  <2> DEFINE i == loop.next
             ch == log[i].ch
  <2>1. /\ loop.pc = "listening" /\ i \in 1..Len(log)
        /\ UNCHANGED <<settings, dirs, placements>>
        /\ \/ loop' = [pc |-> "listening", next |-> i + 1] /\ UNCHANGED <<hooks, agenda>>
           \/ Judge(i, placements[ch])
           \/ loop' = [pc |-> "lookup", next |-> i] /\ UNCHANGED <<hooks, agenda>>
    BY <1>1, <1>5 DEF OnMessage, LoopTo, TriggerInv, TriggerTypeOK
  <2>2. CASE Judge(i, placements[ch])
    <3>1. DOMAIN placements' \subseteq Channel
      BY <2>1 DEF TriggerInv, TriggerTypeOK
    <3>2. QED  BY <1>4, <2>1, <2>2, <3>1
  <2>3. CASE loop' \in {[pc |-> "listening", next |-> i + 1], [pc |-> "lookup", next |-> i]}
             /\ UNCHANGED <<hooks, agenda>>
    <3>1. loop'.pc \in {"listening", "lookup"} /\ loop'.next \in 1..Len(log) + 1
          /\ (loop'.pc = "lookup" => loop'.next <= Len(log))
      BY <1>1, <2>1, <2>3
    <3>2. QED  BY <2>1, <2>3, <3>1 DEF TriggerInv, TriggerTypeOK, LoopState
  <2>4. QED  BY <2>1, <2>2, <2>3
<1>6. CASE LookupOk
  <2> DEFINE i == loop.next
             info == call[Gateway].body
             ch == log[i].ch
  <2>1. /\ loop.pc = "lookup" /\ UNCHANGED <<settings, dirs>>
        /\ \/ /\ loop' = [pc |-> "listening", next |-> i + 1]
              /\ UNCHANGED <<placements, hooks, agenda>>
           \/ DOMAIN placements' = DOMAIN placements \cup {ch} /\ Judge(i, info.parent)
    BY <1>6 DEF LookupOk, LoopTo
  <2>2. i \in 1..Len(log)
    BY <1>1, <2>1 DEF TriggerInv, TriggerTypeOK
  <2>3. ch \in Channel
    BY <2>2 DEF LogInv
  <2> HIDE DEF info, ch
  <2>4. CASE DOMAIN placements' = DOMAIN placements \cup {ch} /\ Judge(i, info.parent)
    <3>1. DOMAIN placements' \subseteq Channel
      BY <2>3, <2>4 DEF TriggerInv, TriggerTypeOK
    <3>2. QED  BY <1>4, <2>1, <2>2, <2>4, <3>1
  <2>5. CASE loop' = [pc |-> "listening", next |-> i + 1] /\ UNCHANGED <<placements, hooks, agenda>>
    BY <1>1, <2>1, <2>2, <2>5 DEF TriggerInv, TriggerTypeOK, LoopState
  <2>6. QED  BY <2>1, <2>4, <2>5
<1>7. CASE LookupFailed
  <2>1. /\ loop.pc = "lookup" /\ loop' = [pc |-> "listening", next |-> loop.next + 1]
        /\ UNCHANGED <<settings, placements, dirs, hooks, agenda>>
    BY <1>7 DEF LookupFailed, LoopTo
  <2>2. QED  BY <1>1, <2>1 DEF TriggerInv, TriggerTypeOK, LoopState
<1>8. QED  BY <1>2, <1>3, <1>5, <1>6, <1>7 DEF LoopStep

\* What the log gains never takes the event loop back.
LEMMA StepKeepsTriggerInv ==
    ASSUME TriggerInv, ChatInv, scenario \in Scenarios, [Next]_vars
    PROVE  /\ TriggerInv'
           /\ Daemon => agenda' = agenda \/ HookStarts
<1>1. LogInv' /\ LogGrows
  BY StepKeepsChatInv DEF ChatInv
<1>2. ASSUME UNCHANGED triggerVars PROVE TriggerInv'
  BY <1>1, <1>2 DEF triggerVars, TriggerInv, TriggerTypeOK, LogGrows
<1>3. ASSUME UNCHANGED vars PROVE TriggerInv'
  BY <1>2, <1>3 DEF vars
<1>4. ASSUME NEW p \in Proc, CliStep(p) \/ Kill(p) PROVE TriggerInv'
  BY <1>2, <1>4 DEF CliStep, WriteConfig, Converse, StartStore, MigrateStore, EndStore, Kill
<1>5. ASSUME NEW c \in Client, Http(c) \/ Network(c) PROVE TriggerInv'
  BY <1>2, <1>5 DEF Http, Network
<1>6. ASSUME Chatter PROVE TriggerInv'
  BY <1>2, <1>6 DEF Chatter
<1>7. Daemon => TriggerInv' /\ (agenda' = agenda \/ HookStarts)
  BY DaemonKeepsTriggerInv DEF Daemon, ChatInv, chatVars
<1>8. ASSUME Mishap PROVE TriggerInv'
  <2>1. log' = log
    BY <1>8 DEF Mishap, chatVars
  <2>2. CASE Gap
    BY <1>1, <2>1, <2>2 DEF Gap, LoopTo, TriggerInv, TriggerTypeOK, LoopState, LogGrows
  <2>3. CASE End
    BY <2>1, <2>3 DEF End, LoopTo, TriggerInv, TriggerTypeOK, LoopState
  <2>4. CASE ChangeDirs
    BY <2>1, <2>4 DEF ChangeDirs, TriggerInv, TriggerTypeOK
  <2>5. QED  BY <1>8, <2>2, <2>3, <2>4 DEF Mishap
<1>9. QED
  BY <1>3, <1>4, <1>5, <1>6, <1>7, <1>8 DEF Next, Progress

\* A hook is an idle process with nothing to do before, and one command afterwards.
LEMMA HookKeepsCliInv ==
    ASSUME CliInv, HookStarts, UNCHANGED <<pc, mem, told>>
    PROVE  CliInv'
<1>1. PICK h \in HookProc, i \in 1..Len(log) :
         agenda[h] = <<>> /\ agenda' = [agenda EXCEPT ![h] = <<reply[log[i].ch]>>]
  BY DEF HookStarts
<1> DEFINE c == reply[log[i].ch]
<1>2. IsSequence(<<c>>) /\ Len(<<c>>) = 1
  <2>1. <<c>> \in Seq({c}) /\ Len(<<c>>) = 1
    OBVIOUS
  <2>2. QED  BY <2>1, SequenceOfSet
<1>3. h \in Proc /\ agenda' = [agenda EXCEPT ![h] = <<c>>]
  BY <1>1, TriggerAssumption
<1> HIDE DEF c
<1>4. \A p \in Proc : Len(told[p]) \in Nat
  BY SequenceFacts DEF CliInv, CliShape
<1>5. Len(told[h]) = 0 /\ pc[h] = "idle"
  BY <1>1, <1>3, <1>4 DEF CliInv, CliShape, CliTypeOK
<1>6. CliShape'
  BY <1>2, <1>3, <1>4, <1>5 DEF CliInv, CliShape
<1>7. \A p \in Proc : pc'[p] # "idle" => Len(told'[p]) < Len(agenda'[p])
  BY <1>3, <1>5 DEF CliInv, CliShape, CliTypeOK
<1>8. QED  BY <1>6, <1>7 DEF CliInv, CliTypeOK

LEMMA StepKeepsCliInv ==
    ASSUME CliInv, RestTypeOK, TriggerInv, ChatInv, scenario \in Scenarios, [Next]_vars
    PROVE  CliInv'
<1> USE DEF ProcState, AnswerKind, ErrorKind
<1>0. ASSUME UNCHANGED cliVars PROVE CliInv'
  BY <1>0 DEF cliVars, CliInv, CliShape, CliTypeOK
<1>1. ASSUME NEW p \in Proc, NEW s \in ProcState, NEW m,
             pc[p] # "idle" \/ Len(told[p]) < Len(agenda[p]), Goto(p, s, m)
      PROVE  CliInv'
  BY <1>1, GotoKeepsCliInv
<1>2. ASSUME NEW p \in Proc, NEW kind \in AnswerKind, NEW ids, NEW cursor,
             pc[p] # "idle" \/ Len(told[p]) < Len(agenda[p]), Finish(p, kind, ids, cursor)
      PROVE  CliInv'
  BY <1>2, FinishKeepsCliInv
<1>3. ASSUME NEW p \in Proc, NEW kind \in AnswerKind,
             pc[p] # "idle" \/ Len(told[p]) < Len(agenda[p]), Answer(p, kind)
      PROVE  CliInv'
  BY <1>3, AnswerKeepsCliInv
<1>4. \A p \in Proc : call[p].pc = "failed" => call[p].kind \in AnswerKind
  BY TriggerAssumption DEF RestTypeOK, CallKind
<1>5. ASSUME NEW p \in Proc, WriteConfig(p) PROVE CliInv'
  BY <1>1, <1>3, <1>5 DEF WriteConfig, InitStep, CheckExists, Reload, Truncate, Fill, Starts
<1>6. ASSUME NEW p \in Proc, Converse(p) PROVE CliInv'
  <2>1. CASE StartSend(p)
    BY <1>1, <1>3, <2>1 DEF StartSend, Starts, Reject
  <2>2. CASE SendOn(p)
    BY <1>1, <1>2, <1>4, <2>2 DEF SendOn
  <2>3. CASE StartRead(p)
    BY <1>1, <1>3, <2>3 DEF StartRead, Starts, Reject
  <2>4. CASE ReadOn(p)
    BY <1>1, <1>2, <1>3, <1>4, <2>4 DEF ReadOn
  <2>5. CASE PollAgain(p)
    BY <1>1, <2>5 DEF PollAgain
  <2>6. CASE StartThread(p)
    BY <1>1, <1>3, <2>6 DEF StartThread, Starts, Reject
  <2>7. CASE ThreadOn(p)
    BY <1>3, <1>4, <2>7 DEF ThreadOn
  <2>8. QED  BY <1>6, <2>1, <2>2, <2>3, <2>4, <2>5, <2>6, <2>7 DEF Converse, MessageStep
<1>7. ASSUME NEW p \in Proc, StartStore(p) PROVE CliInv'
  BY <1>1, <1>7 DEF StartStore, Starts
<1>8. ASSUME NEW p \in Proc, MigrateStore(p) PROVE CliInv'
  BY <1>0, <1>8 DEF MigrateStore
<1>9. ASSUME NEW p \in Proc, EndStore(p) PROVE CliInv'
  BY <1>3, <1>9 DEF EndStore
<1>10. ASSUME NEW p \in Proc, Kill(p) PROVE CliInv'
  BY <1>3, <1>10 DEF Kill
<1>11. ASSUME NEW c \in Client, Http(c) \/ Network(c) PROVE CliInv'
  BY <1>0, <1>11 DEF Http, Network
<1>12. CASE Chatter \/ UNCHANGED vars
  BY <1>0, <1>12 DEF Chatter, vars
<1>13. CASE Daemon
  <2>1. UNCHANGED <<pc, mem, told>> /\ (agenda' = agenda \/ HookStarts)
    BY <1>13, StepKeepsTriggerInv DEF Daemon
  <2>2. QED  BY <1>0, <2>1, HookKeepsCliInv DEF cliVars
<1>14. CASE Mishap
  BY <1>0, <1>14 DEF Mishap, Gap, End, ChangeDirs, cliVars
<1>15. QED
  BY <1>5, <1>6, <1>7, <1>8, <1>9, <1>10, <1>11, <1>12, <1>13, <1>14 DEF Next, Progress, CliStep

-------------------------------------------------------------------------------
(* The configuration file.                                                 *)

\* What is on the file, and what an "init" is about to write there, has those fields; so an
\* empty or torn file is all that can go wrong.
ConfigInv ==
    /\ config \in {None, Truncated, Torn} \cup ConfigOf({Kept})
    /\ config = None => scenario.config = None
    /\ \A p \in Proc : pc[p] \in {"truncate", "fill"} => mem[p] \in ConfigOf({Kept})
    /\ \A p \in Proc : pc[p] = "reload" => Command(p).op = "init"

\* Commands are commands, a hook's as well.
AgendaInv == /\ \A p \in Proc : \A c \in ToSet(agenda[p]) : IsCommand(c)
             /\ reply = scenario.reply

LEMMA KeptInPlay ==
    ASSUME scenario \in Scenarios
    PROVE  /\ ConfigOf({Kept}) \subseteq ConfigOf(FieldsInPlay)
           /\ None \notin ConfigOf({Kept})
<1>1. Kept \in FieldsInPlay
  BY DEF Kept, FieldsInPlay
<1>2. ConfigOf({Kept}) \subseteq ConfigOf(FieldsInPlay)
  BY <1>1 DEF ConfigOf
<1>3. QED  BY <1>2, AbsenceAssumption

LEMMA CommandIsCommand ==
    ASSUME CliInv, AgendaInv, NEW p \in Proc, Len(told[p]) < Len(agenda[p])
    PROVE  IsCommand(Command(p))
<1>1. IsSequence(agenda[p]) /\ Len(told[p]) \in Nat
  BY SequenceFacts DEF CliInv, CliShape
<1>2. Len(told[p]) + 1 \in 1..Len(agenda[p])
  BY <1>1, SequenceFacts
<1>3. Command(p) \in ToSet(agenda[p])
  BY <1>1, <1>2, SequenceFacts DEF Command
<1>4. QED  BY <1>3 DEF AgendaInv

LEMMA StepKeepsAgendaInv ==
    ASSUME AgendaInv, TriggerInv, ChatInv, CliInv, scenario \in Scenarios, [Next]_vars
    PROVE  AgendaInv' /\ scenario' = scenario
<1>1. scenario' = scenario /\ reply' = reply
  BY DEF Next, Progress, CliStep, WriteConfig, Converse, StartStore, MigrateStore, EndStore, Http,
         Network, Chatter, Daemon, LoopStep, Boot, Ready, OnMessage, LookupOk, LookupFailed, Mishap,
         Gap, End, ChangeDirs, Kill, triggerVars, vars
<1>2. CASE agenda' = agenda
  BY <1>1, <1>2 DEF AgendaInv
<1>3. CASE HookStarts
  <2>1. PICK h \in HookProc, i \in 1..Len(log) :
           agenda' = [agenda EXCEPT ![h] = <<reply[log[i].ch]>>]
    BY <1>3 DEF HookStarts
  <2>2. IsCommand(reply[log[i].ch])
    BY ScenarioAssumption DEF AgendaInv, ChatInv, LogInv
  <2> DEFINE c == reply[log[i].ch]
  <2>3. ToSet(<<c>>) \subseteq {c}
    <3>1. <<c>> \in Seq({c})
      OBVIOUS
    <3>2. QED  BY <3>1, SequenceOfSet
  <2> HIDE DEF c
  <2>4. \A p \in Proc : agenda'[p] = agenda[p] \/ agenda'[p] = <<c>>
    BY <2>1 DEF c, CliInv, CliShape
  <2>5. \A p \in Proc : \A d \in ToSet(agenda'[p]) : IsCommand(d)
    BY <2>2, <2>3, <2>4 DEF c, AgendaInv
  <2>6. QED  BY <1>1, <2>5 DEF AgendaInv
<1>4. ~Daemon => agenda' = agenda
  <2> USE DEF Answer, Finish, Goto
  <2>1. ASSUME NEW p \in Proc, WriteConfig(p) PROVE agenda' = agenda
    BY <2>1 DEF WriteConfig, InitStep, CheckExists, Reload, Truncate, Fill
  <2>2. ASSUME NEW p \in Proc, Converse(p) PROVE agenda' = agenda
    BY <2>2 DEF Converse, MessageStep, StartSend, SendOn, StartRead, ReadOn, PollAgain,
                StartThread, ThreadOn, Reject
  <2>3. ASSUME NEW p \in Proc, StartStore(p) \/ MigrateStore(p) \/ EndStore(p) \/ Kill(p)
        PROVE  agenda' = agenda
    BY <2>3 DEF StartStore, MigrateStore, EndStore, Kill, cliVars
  <2>4. ASSUME NEW c \in Client, Http(c) \/ Network(c) PROVE agenda' = agenda
    BY <2>4 DEF Http, Network, cliVars
  <2>5. Chatter => agenda' = agenda
    BY DEF Chatter, cliVars
  <2>6. Mishap => agenda' = agenda
    BY DEF Mishap, Gap, End, ChangeDirs
  <2>7. UNCHANGED vars => agenda' = agenda
    BY DEF vars, cliVars
  <2>8. QED  BY <2>1, <2>2, <2>3, <2>4, <2>5, <2>6, <2>7 DEF Next, Progress, CliStep
<1>5. QED  BY <1>2, <1>3, <1>4, StepKeepsTriggerInv

\* Where an "init" stands does not change but by its own steps.
InitState == {"reload", "truncate", "fill"}
InitWaits == \A q \in Proc : pc'[q] \in InitState =>
                pc'[q] = pc[q] /\ mem'[q] = mem[q] /\ told'[q] = told[q] /\ agenda'[q] = agenda[q]

LEMMA OthersWait ==
    ASSUME CliInv, NEW p \in Proc
    PROVE  /\ \A s, m : Goto(p, s, m) /\ s \notin InitState => InitWaits
           /\ \A kind, ids, cursor : Finish(p, kind, ids, cursor) => InitWaits
           /\ \A kind : Answer(p, kind) => InitWaits
<1>1. \A kind, ids, cursor : Finish(p, kind, ids, cursor) => InitWaits
  BY DEF Finish, InitWaits, InitState, CliInv, CliShape, CliTypeOK
<1>2. \A s, m : Goto(p, s, m) /\ s \notin InitState => InitWaits
  BY DEF Goto, InitWaits, CliInv, CliShape, CliTypeOK
<1>3. QED  BY <1>1, <1>2 DEF Answer

LEMMA StepsBesidesInitWait ==
    ASSUME CliInv, TriggerInv, ChatInv, scenario \in Scenarios, [Next]_vars
    PROVE  \/ \E p \in Proc : InitStep(p)
           \/ InitWaits /\ config' = config
<1> USE OthersWait DEF InitState
<1>1. ASSUME UNCHANGED cliVars PROVE InitWaits
  BY <1>1 DEF cliVars, InitWaits
<1>2. ASSUME NEW p \in Proc, Converse(p) PROVE InitWaits /\ config' = config
  BY <1>2 DEF Converse, MessageStep, StartSend, SendOn, StartRead, ReadOn, PollAgain,
              StartThread, ThreadOn, Reject
<1>3. ASSUME NEW p \in Proc, StartStore(p) \/ MigrateStore(p) \/ EndStore(p) \/ Kill(p)
      PROVE  InitWaits /\ config' = config
  BY <1>1, <1>3 DEF StartStore, MigrateStore, EndStore, Kill
<1>4. ASSUME NEW c \in Client, Http(c) \/ Network(c) PROVE InitWaits /\ config' = config
  BY <1>1, <1>4 DEF Http, Network
<1>5. ASSUME Chatter \/ UNCHANGED vars PROVE InitWaits /\ config' = config
  BY <1>1, <1>5 DEF Chatter, vars
<1>6. ASSUME Mishap PROVE InitWaits /\ config' = config
  BY <1>1, <1>6 DEF Mishap, Gap, End, ChangeDirs, cliVars
<1>7. ASSUME Daemon PROVE InitWaits /\ config' = config
  <2>1. UNCHANGED <<pc, mem, told, config>> /\ (agenda' = agenda \/ HookStarts)
    BY <1>7, StepKeepsTriggerInv DEF Daemon
  <2>2. CASE HookStarts
    <3>1. PICK h \in HookProc : agenda[h] = <<>> /\ \E c : agenda' = [agenda EXCEPT ![h] = <<c>>]
      BY <2>2 DEF HookStarts
    <3>2. Len(agenda[h]) = 0
      BY <3>1
    <3>3. pc[h] = "idle"
      BY <3>2, SequenceFacts, TriggerAssumption DEF CliInv, CliShape, CliTypeOK
    <3>4. \A q \in Proc \ {h} : agenda'[q] = agenda[q]
      BY <3>1 DEF CliInv, CliShape
    <3>5. QED  BY <2>1, <3>3, <3>4 DEF InitWaits
  <2>3. QED  BY <1>1, <2>1, <2>2 DEF cliVars
<1>8. QED
  BY <1>2, <1>3, <1>4, <1>5, <1>6, <1>7 DEF Next, Progress, CliStep, WriteConfig

LEMMA InitKeepsConfigInv ==
    ASSUME ConfigInv, CliInv, AgendaInv, scenario \in Scenarios,
           NEW p \in Proc, InitStep(p), scenario' = scenario
    PROVE  ConfigInv'
<1> DEFINE F == {Kept}
           token == Command(p).token
<1> USE DEF InitState
<1>1. Kept' = Kept
  BY DEF Kept
<1>2. \A x : x \in ConfigOf(F) <=> \E t \in Token \cup {None} : x = [token |-> t, fields |-> Kept]
  BY DEF ConfigOf
<1>3. None \notin ConfigOf(F)
  BY KeptInPlay
<1>4. ASSUME NEW t \in Token \cup {None}, NEW x \in ConfigOf(F)
      PROVE  [x EXCEPT !.token = t] \in ConfigOf(F)
  BY <1>4 DEF ConfigOf
<1>5. scenario.config = None => Default \in ConfigOf(F)
  BY DEF Default, ConfigOf, Kept
<1>6. Parses => config \in {None} \cup ConfigOf(F)
  BY DEF ConfigInv, Parses
<1>7. Parses => Loaded \in ConfigOf(F)
  BY <1>5, <1>6 DEF Loaded, ConfigInv
<1> HIDE DEF F
<1>8. ASSUME InitWaits, config' = config PROVE ConfigInv'
  BY <1>1, <1>8 DEF ConfigInv, InitWaits, F, Command
<1>9. ASSUME NEW s \in InitState, NEW m, Goto(p, s, m),
             config' \in {config, Truncated},
             s \in {"truncate", "fill"} => m \in ConfigOf(F),
             s = "reload" => Command(p).op = "init"
      PROVE  ConfigInv'
  <2>1. /\ agenda' = agenda /\ told' = told
        /\ pc' = [pc EXCEPT ![p] = s] /\ mem' = [mem EXCEPT ![p] = m]
    BY <1>9 DEF Goto
  <2>2. \A q \in Proc \ {p} : pc'[q] = pc[q] /\ mem'[q] = mem[q]
    BY <2>1 DEF CliInv, CliShape, CliTypeOK
  <2>3. pc'[p] = s /\ mem'[p] = m
    BY <2>1 DEF CliInv, CliShape, CliTypeOK
  <2>4. \A q \in Proc : Command(q)' = Command(q)
    BY <2>1 DEF Command
  <2>5. /\ \A q \in Proc : pc'[q] \in {"truncate", "fill"} => mem'[q] \in ConfigOf(F)
        /\ \A q \in Proc : pc'[q] = "reload" => Command(q)'.op = "init"
    BY <1>9, <2>2, <2>3, <2>4 DEF ConfigInv, F
  <2>6. /\ config' \in {None, Truncated, Torn} \cup ConfigOf(F)
        /\ config' = None => scenario.config = None
    BY <1>9, FileAssumption DEF ConfigInv, F
  <2>7. QED  BY <1>1, <2>5, <2>6 DEF ConfigInv, F
<1>10. CASE CheckExists(p)
  <2>1. Starts(p, {"init"}) /\ config' = config
    BY <1>10 DEF CheckExists
  <2>2. Command(p).op = "init" /\ token \in Token \cup {None}
    BY <2>1, CommandIsCommand DEF Starts, IsCommand
  <2>3. \/ \E kind : Answer(p, kind)
        \/ Goto(p, "reload", None)
        \/ config = None /\ Goto(p, "truncate", [Default EXCEPT !.token = token])
    BY <1>10 DEF CheckExists
  <2>4. CASE \E kind : Answer(p, kind)
    BY <1>8, <2>1, <2>4, OthersWait
  <2>5. CASE Goto(p, "reload", None)
    BY <1>9, <2>1, <2>2, <2>5
  <2>6. CASE config = None /\ Goto(p, "truncate", [Default EXCEPT !.token = token])
    <3>1. [Default EXCEPT !.token = token] \in ConfigOf(F)
      BY <1>4, <1>5, <2>2, <2>6 DEF ConfigInv
    <3>2. QED  BY <1>9, <2>1, <2>6, <3>1
  <2>7. QED  BY <2>3, <2>4, <2>5, <2>6
<1>11. CASE Reload(p)
  <2>1. Command(p).op = "init" /\ config' = config /\ pc[p] = "reload"
    BY <1>11 DEF Reload, ConfigInv
  <2>2. token \in Token \cup {None}
    BY <2>1, CommandIsCommand DEF CliInv, CliTypeOK, IsCommand
  <2>3. \/ Answer(p, "config")
        \/ Parses /\ Goto(p, "truncate", [Loaded EXCEPT !.token = token])
    BY <1>11 DEF Reload
  <2>4. CASE Answer(p, "config")
    BY <1>8, <2>1, <2>4, OthersWait
  <2>5. CASE Parses /\ Goto(p, "truncate", [Loaded EXCEPT !.token = token])
    <3>1. [Loaded EXCEPT !.token = token] \in ConfigOf(F)
      BY <1>4, <1>7, <2>2, <2>5
    <3>2. QED  BY <1>9, <2>1, <2>5, <3>1
  <2>6. QED  BY <2>3, <2>4, <2>5
<1>12. CASE Truncate(p)
  <2>1. config' = Truncated /\ Goto(p, "fill", mem[p]) /\ mem[p] \in ConfigOf(F)
    BY <1>12 DEF Truncate, ConfigInv, F
  <2>2. QED  BY <1>9, <2>1
<1>13. CASE Fill(p)
  <2>1. config' \in {mem[p], Torn} /\ InitWaits /\ mem[p] \in ConfigOf(F)
    BY <1>13, OthersWait DEF Fill, ConfigInv, F
  <2>2. config' \in {None, Truncated, Torn} \cup ConfigOf(F)
    BY <2>1
  <2>3. config' = None => scenario.config = None
    BY <1>3, <2>1, FileAssumption
  <2>4. QED  BY <1>1, <2>1, <2>2, <2>3 DEF ConfigInv, InitWaits, F, Command
<1>14. QED  BY <1>10, <1>11, <1>12, <1>13 DEF InitStep

-------------------------------------------------------------------------------
(* The store.                                                              *)

\* Every step of the bot leaves the store alone or is a step of its opening: commands open and
\* close it, and killing a process closes what it had open.
LEMMA BotStepsAreStoreSteps ==
    ASSUME SchemaInv, [Next]_vars
    PROVE  [StoreNext]_storeVars
<1>1. CASE UNCHANGED vars
  BY <1>1 DEF vars
<1>2. ASSUME NEW p \in Proc, WriteConfig(p) \/ Converse(p) PROVE UNCHANGED storeVars
  BY <1>2 DEF WriteConfig, Converse
<1>3. ASSUME NEW p \in Proc, StartStore(p) PROVE StoreNext
  BY <1>3, OpenersAssumption DEF StartStore, StoreNext
<1>4. ASSUME NEW p \in Proc, MigrateStore(p) PROVE StoreNext
  BY <1>4, OpenersAssumption DEF MigrateStore, StoreNext
<1>5. ASSUME NEW p \in Proc, EndStore(p) PROVE StoreNext
  BY <1>5, OpenersAssumption DEF EndStore, StoreNext
<1>6. ASSUME NEW p \in Proc, Kill(p) PROVE [StoreNext]_storeVars
  <2>1. p \in Opener
    BY OpenersAssumption
  <2>2. /\ opening' = [opening EXCEPT ![p] = "closed"]
        /\ writer' = IF writer = p THEN None ELSE writer
        /\ UNCHANGED <<db, tx, wal>>
    BY <1>6 DEF Kill
  <2>3. CASE opening[p] # "closed"
    BY <2>1, <2>2, <2>3 DEF StoreNext, Disconnect, OpeningTo
  <2>4. CASE opening[p] = "closed"
    <3>1. opening' = opening
      BY <2>1, <2>2, <2>4 DEF SchemaInv, StoreTypeOK
    <3>2. writer # p
      BY <2>1, <2>4 DEF SchemaInv, TransactionIsExclusive, InTransaction
    <3>3. QED  BY <2>2, <3>1, <3>2 DEF storeVars
  <2>5. QED  BY <2>3, <2>4
<1>7. ASSUME NEW c \in Client, Http(c) \/ Network(c) PROVE UNCHANGED storeVars
  BY <1>7 DEF Http, Network
<1>8. Chatter \/ Daemon \/ Mishap => UNCHANGED storeVars
  BY DEF Chatter, Daemon, Mishap
<1>9. QED
  BY <1>1, <1>2, <1>3, <1>4, <1>5, <1>6, <1>7, <1>8 DEF Next, Progress, CliStep

\* The bot's processes open the store as StoreSchema says.
LEMMA BotKeepsSchemaInv == Spec => []SchemaInv
<1>1. Init => SchemaInv
  BY StoreInitSound DEF Init
<1>2. SchemaInv /\ [Next]_vars => SchemaInv'
  BY BotStepsAreStoreSteps, StoreStepSound
<1>3. QED  BY <1>1, <1>2, PTL DEF Spec

\* In the whole bot, whoever has the store open works on the latest schema, and nobody is
\* turned away by another's migration or by what a killed process left (AskStore::open,
\* migrate).
THEOREM StoreIsSoundInBot == Spec => []OpenIsSound
<1>1. SchemaInv => OpenIsSound
  BY DEF SchemaInv
<1>2. QED  BY <1>1, BotKeepsSchemaInv, PTL
-------------------------------------------------------------------------------
(* The bot as a whole.                                                     *)

LEMMA StepKeepsRestType ==
    ASSUME RestTypeOK, [Next]_vars
    PROVE  RestTypeOK'
<1>1. ASSUME UNCHANGED call PROVE RestTypeOK'
  BY <1>1 DEF RestTypeOK, InCall
<1>2. ASSUME NEW p \in Proc, CliStep(p) PROVE RestTypeOK'
  <2>1. p \in Client
    BY TriggerAssumption
  <2>2. \/ UNCHANGED call
        \/ \E req : Issue(p, req)
        \/ HangUp(p)
    BY <1>2 DEF CliStep, WriteConfig, Converse, MessageStep, StartSend, SendOn, StartRead, ReadOn,
                PollAgain, StartThread, ThreadOn, Reject, StartStore, MigrateStore, EndStore
  <2>3. QED  BY <1>1, <2>1, <2>2, IssueKeepsType, HangUpKeepsType
<1>3. ASSUME NEW c \in Client, Http(c) \/ Network(c) PROVE RestTypeOK'
  BY <1>3, HttpKeepsType, NetworkKeepsType
<1>4. ASSUME Daemon PROVE RestTypeOK'
  <2>1. Gateway \in Client
    BY TriggerAssumption
  <2>2. \/ UNCHANGED call
        \/ \E req : Issue(Gateway, req)
        \/ HangUp(Gateway)
    BY <1>4 DEF Daemon, LoopStep, Boot, Ready, OnMessage, LookupOk, LookupFailed
  <2>3. QED  BY <1>1, <2>1, <2>2, IssueKeepsType, HangUpKeepsType
<1>5. ASSUME NEW p \in Proc, Kill(p) PROVE RestTypeOK'
  <2>1. p \in Client /\ HangUp(p)
    BY <1>5, TriggerAssumption DEF Kill
  <2>2. QED  BY <2>1, HangUpKeepsType
<1>6. Chatter \/ Mishap \/ UNCHANGED vars => UNCHANGED call
  BY DEF Chatter, Mishap, Gap, End, ChangeDirs, vars
<1>7. QED  BY <1>1, <1>2, <1>3, <1>4, <1>5, <1>6 DEF Next, Progress

BotInv == /\ scenario \in Scenarios
          /\ CliInv /\ RestTypeOK /\ ChatInv /\ TriggerInv /\ AgendaInv /\ ConfigInv
          /\ SchemaInv

LEMMA InitBotInv == Init => BotInv
<1> SUFFICES ASSUME Init PROVE BotInv
  OBVIOUS
<1>1. /\ scenario \in Scenarios
      /\ agenda = scenario.agenda /\ config = scenario.config /\ reply = scenario.reply
      /\ pc = [p \in Proc |-> "idle"] /\ mem = [p \in Proc |-> None]
      /\ told = [p \in Proc |-> <<>>]
      /\ log = <<>> /\ threads = {} /\ stray = {} /\ faults = scenario.faults
  BY DEF Init, CliInit, ChatInit, TriggerInit
<1>2. IsSequence(<<>>) /\ Len(<<>>) = 0
  BY EmptySequence
<1>3. CliInv
  <2>1. CliShape
    BY <1>1, <1>2, ScenarioAssumption, SequenceFacts DEF CliShape
  <2>2. CliTypeOK
    BY <1>1, <1>2 DEF CliTypeOK, ProcState
  <2>3. QED  BY <2>1, <2>2 DEF CliInv
<1>4. RestTypeOK
  BY DEF Init, RestInit, RestTypeOK, InCall
<1>5. ChatInv
  BY <1>1, <1>2, ScenarioAssumption DEF ChatInv, LogInv, ChatTypeOK
<1>6. TriggerInv
  <2>1. /\ loop.pc \in {"boot", "off"} /\ loop.next = 1
        /\ placements = <<>> /\ dirs = Dir /\ hooks = {}
    BY DEF Init, TriggerInit
  <2>2. QED  BY <1>1, <1>2, <2>1 DEF TriggerInv, TriggerTypeOK, LoopState
<1>7. AgendaInv
  BY <1>1, ScenarioAssumption DEF AgendaInv
<1>8. ConfigInv
  <2>1. config \in {None} \cup ConfigOf(FieldsInPlay)
    BY <1>1, ScenarioAssumption
  <2>2. config # None => config \in ConfigOf({Kept})
    BY <1>1, <2>1 DEF ConfigOf, Kept
  <2>3. QED  BY <1>1, <2>2 DEF ConfigInv
<1>9. SchemaInv
  BY StoreInitSound DEF Init
<1>10. QED  BY <1>1, <1>3, <1>4, <1>5, <1>6, <1>7, <1>8, <1>9 DEF BotInv

LEMMA StepKeepsBotInv ==
    ASSUME BotInv, [Next]_vars
    PROVE  BotInv'
<1> USE DEF BotInv
<1>1. AgendaInv' /\ scenario' = scenario
  BY StepKeepsAgendaInv
<1>2. ConfigInv'
  <2>1. CASE \E p \in Proc : InitStep(p)
    BY <1>1, <2>1, InitKeepsConfigInv
  <2>2. CASE InitWaits /\ config' = config
    <3>1. Kept' = Kept
      BY <1>1 DEF Kept
    <3>2. QED  BY <1>1, <2>2, <3>1 DEF ConfigInv, InitWaits, InitState, Command
  <2>3. QED  BY <2>1, <2>2, StepsBesidesInitWait
<1>3. SchemaInv'
  BY BotStepsAreStoreSteps, StoreStepSound
<1>4. QED
  BY <1>1, <1>2, <1>3, StepKeepsCliInv, StepKeepsRestType, StepKeepsChatInv, StepKeepsTriggerInv

LEMMA SpecBotInv == Spec => []BotInv
BY InitBotInv, StepKeepsBotInv, PTL DEF Spec

\* The state of the bot is what its parts say it is: a command that is being carried out is on
\* the agenda, retries stay within their bound, the event loop is handed messages of the log
\* alone, and hooks run in directories that are configured (main, HttpDiscordApi, gateway::run).
THEOREM BotTypeCorrect == Spec => []TypeOK
<1>1. BotInv => TypeOK
  <2>1. BotInv => config \in {None, Truncated, Torn} \cup ConfigOf(FieldsInPlay)
    BY KeptInPlay DEF BotInv, ConfigInv
  <2>2. QED  BY <2>1 DEF BotInv, TypeOK, CliInv, ChatInv, TriggerInv, SchemaInv
<1>2. QED  BY <1>1, SpecBotInv, PTL

\* However many "init --force" run at once, whatever they read and wherever they are killed: a
\* configuration that can be read has every field but the token as it was (run_init,
\* write_config_file).
THEOREM ConfigurationKept == Spec => []NoSilentLoss
<1>1. BotInv => NoSilentLoss
  <2> SUFFICES ASSUME BotInv, Parses, scenario.config # None
               PROVE  Loaded.fields = scenario.config.fields
    BY DEF NoSilentLoss
  <2>1. config \in ConfigOf({Kept}) /\ config # None
    BY DEF BotInv, ConfigInv, Parses
  <2>2. Loaded = config
    BY <2>1 DEF Loaded
  <2>3. QED  BY <2>1, <2>2 DEF ConfigOf, Kept
<1>2. QED  BY <1>1, SpecBotInv, PTL

\* The bot as a whole implements the opening of its store: each of its steps is a step of
\* StoreSchema or leaves the store as it is (AskStore::open).
THEOREM BotImplementsStore == Spec => StoreSpec
<1>1. Init => StoreInit
  BY DEF Init
<1>2. SchemaInv /\ [Next]_vars => [StoreNext]_storeVars
  BY BotStepsAreStoreSteps
<1>3. QED  BY <1>1, <1>2, BotKeepsSchemaInv, PTL DEF Spec, StoreSpec
===============================================================================
