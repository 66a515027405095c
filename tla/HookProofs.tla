-------------------------------- MODULE HookProofs ----------------------------
(***************************************************************************)
(* Theorems about the hooks of DiscordBot: what starts one, and where it   *)
(* runs.                                                                   *)
(***************************************************************************)
EXTENDS DiscordBotProofs

\* What the lookup of a channel may bring: where it hangs, or a thread that hangs nowhere.
Tells(info, ch) == (info.thread /\ info.parent = None) \/ info.parent = Parent[ch]

\* The gateway's client asks for the channel of the message the loop waits for.
IsLookup(c, ch) ==
    /\ c.pc \in {"sent", "backoff", "answered"} => c.req.op = "channel" /\ c.req.ch = ch
    /\ c.pc = "answered" /\ c.response.status = "success" => Tells(c.response.body, ch)
    /\ c.pc = "ok" => Tells(c.body, ch)

\* The channel whose directory counts, and that directory.
Top(ch) == IF Parent[ch] = None THEN ch ELSE Parent[ch]
DirOf(ch) == IF Top(ch) \in DOMAIN settings.by_channel THEN settings.by_channel[Top(ch)]
             ELSE settings.default

\* The message of a hook has passed the filter at the place where it was posted.
IsHook(h) == /\ h.msg \in 1..Len(log) /\ h.msg < loop.next
             /\ Decide(log[h.msg], Parent[log[h.msg].ch])
             /\ h.cwd = DirOf(log[h.msg].ch)

HookInv ==
    /\ loop.pc \in {"connecting", "listening", "lookup"} \/ hooks # {} =>
          scenario.config # None /\ settings = SettingsOf(scenario.config.fields)
    /\ \A ch \in DOMAIN placements : placements[ch] = Parent[ch]
    /\ loop.pc = "lookup" => IsLookup(call[Gateway], log[loop.next].ch)
    /\ \A h \in hooks : IsHook(h)
    /\ \A g, h \in hooks : g.msg = h.msg => g = h

\* Nothing but the loop's own steps and calls matters to it.
LEMMA OthersKeepHookInv ==
    ASSUME HookInv, BotInv, LogGrows, UNCHANGED <<triggerVars, scenario>>,
           call'[Gateway] = call[Gateway]
           \/ (loop.pc = "lookup" => IsLookup(call'[Gateway], log[loop.next].ch))
    PROVE  HookInv'
<1>1. UNCHANGED <<loop, settings, placements, dirs, hooks, scenario>>
  BY DEF triggerVars
<1>2. ASSUME NEW h \in hooks PROVE IsHook(h)'
  <2>1. IsHook(h) /\ h.msg \in 1..Len(log)
    BY <1>2 DEF HookInv, IsHook
  <2>2. log'[h.msg] = log[h.msg] /\ h.msg \in 1..Len(log')
    BY <2>1 DEF LogGrows
  <2>3. QED  BY <1>1, <2>1, <2>2 DEF IsHook, Decide, DirOf
<1>3. loop.pc = "lookup" => log'[loop.next] = log[loop.next]
  BY DEF BotInv, TriggerInv, TriggerTypeOK, LogGrows
<1>4. loop.pc = "lookup" => IsLookup(call'[Gateway], log[loop.next].ch)
  BY DEF HookInv
<1>5. (loop.pc = "lookup" => IsLookup(call[Gateway], log[loop.next].ch))'
  BY <1>1, <1>3, <1>4
<1>6. QED  BY <1>1, <1>2, <1>5 DEF HookInv

\* The lookup, step by step.
LEMMA CallKeepsLookup ==
    ASSUME BotInv, Http(Gateway) \/ Network(Gateway), NEW ch, IsLookup(call[Gateway], ch)
    PROVE  IsLookup(call'[Gateway], ch)
<1> DEFINE c == call[Gateway]
<1>1. DOMAIN call = Client /\ Gateway \in Client
  BY TriggerAssumption DEF BotInv, RestTypeOK
<1>2. \A s : CallTo(Gateway, s) => call'[Gateway] = s
  BY <1>1 DEF CallTo
<1>3. CASE Receive(Gateway)
  <2>1. c.pc = "answered"
    BY <1>3 DEF Receive
  <2>2. \/ /\ c.response.status = "success"
           /\ call'[Gateway] = [pc |-> "ok", body |-> c.response.body]
        \/ \E n : call'[Gateway] = [pc |-> "backoff", req |-> c.req, retries |-> n]
        \/ \E kind : call'[Gateway] = [pc |-> "failed", kind |-> kind]
    BY <1>2, <1>3 DEF Receive, Attempt, Fail
  <2>3. CASE c.response.status = "success"
             /\ call'[Gateway] = [pc |-> "ok", body |-> c.response.body]
    BY <2>1, <2>3 DEF IsLookup
  <2>4. ASSUME NEW n, call'[Gateway] = [pc |-> "backoff", req |-> c.req, retries |-> n]
        PROVE  IsLookup(call'[Gateway], ch)
    BY <2>1, <2>4 DEF IsLookup
  <2>5. ASSUME NEW kind, call'[Gateway] = [pc |-> "failed", kind |-> kind]
        PROVE  IsLookup(call'[Gateway], ch)
    BY <2>5 DEF IsLookup
  <2>6. QED  BY <2>2, <2>3, <2>4, <2>5
<1>4. CASE Resend(Gateway)
  <2>1. c.pc = "backoff" /\ call'[Gateway] = [pc |-> "sent", req |-> c.req, retries |-> c.retries]
    BY <1>2, <1>4 DEF Resend, Attempt
  <2>2. QED  BY <2>1 DEF IsLookup
<1>5. ASSUME NEW r, Respond(Gateway, r), r.status = "success" => Tells(r.body, ch)
      PROVE  IsLookup(call'[Gateway], ch)
  <2>1. c.pc = "sent" /\ call'[Gateway] = [pc |-> "answered", req |-> c.req,
                                           retries |-> c.retries, response |-> r]
    BY <1>2, <1>5 DEF Respond
  <2>2. QED  BY <1>5, <2>1 DEF IsLookup
<1>6. CASE Serve(Gateway)
  <2>1. c.pc = "sent" /\ c.req.op = "channel" /\ c.req.ch = ch
    BY <1>6 DEF Serve, IsLookup
  <2>2. \/ Respond(Gateway, [status |-> "other"])
        \/ Respond(Gateway, [status |-> "unreadable"])
        \/ \E body \in Bodies(c.req) : Respond(Gateway, [status |-> "success", body |-> body])
    BY <1>6 DEF Serve
  <2>3. \A body \in Bodies(c.req) : Tells(body, ch)
    BY <2>1 DEF Bodies, Tells
  <2>4. QED  BY <1>5, <2>2, <2>3
<1>7. CASE Refuse(Gateway)
  <2>1. PICK r \in Refusal : Respond(Gateway, r)
    BY <1>7 DEF Refuse
  <2>2. r.status # "success"
    BY <2>1 DEF Refusal
  <2>3. QED  BY <1>5, <2>1, <2>2
<1>8. CASE Lose(Gateway)
  <2>1. call'[Gateway] = [pc |-> "failed", kind |-> "network"]
    BY <1>2, <1>8 DEF Lose, Break, Fail
  <2>2. QED  BY <2>1 DEF IsLookup
<1>9. QED  BY <1>3, <1>4, <1>6, <1>7, <1>8 DEF Http, Network
\* The loop places a message before it judges it, and judges each message once.
LEMMA JudgeKeepsHookInv ==
    ASSUME HookInv, BotInv, NEW i \in 1..Len(log), i = loop.next,
           loop.pc \in {"listening", "lookup"},
           NEW parent, parent = Parent[log[i].ch], Judge(i, parent),
           UNCHANGED <<settings, dirs, log, scenario>>,
           \A ch \in DOMAIN placements' : placements'[ch] = Parent[ch]
    PROVE  HookInv'
<1> DEFINE m == log[i]
<1>0. PICK new : new = [msg |-> i, cwd |-> ResolveDir(m.ch, parent)]
  OBVIOUS
<1>1. /\ loop' = [pc |-> "listening", next |-> i + 1]
      /\ \/ hooks' = hooks
         \/ /\ hooks' = hooks \cup {new}
            /\ Decide(m, parent) /\ ResolveDir(m.ch, parent) \in dirs \ {None}
  BY <1>0, JudgeMovesOn DEF BotInv, ChatInv
<1>2. loop'.pc = "listening" /\ loop'.next = i + 1 /\ i \in Nat
  BY <1>1
<1>3. ResolveDir(m.ch, parent) # None => ResolveDir(m.ch, parent) = DirOf(m.ch)
  BY DEF ResolveDir, DirOf, Top
<1>4. scenario.config # None /\ settings = SettingsOf(scenario.config.fields)
  BY DEF HookInv
<1>5. ASSUME NEW h \in hooks PROVE IsHook(h)' /\ h.msg # i
  <2>1. IsHook(h)
    BY <1>5 DEF HookInv
  <2>2. IsHook(h)'
    BY <1>2, <2>1 DEF IsHook, Decide, DirOf
  <2>3. QED  BY <2>1, <2>2 DEF IsHook
<1>6. new.msg = i /\ new.cwd = ResolveDir(m.ch, parent)
  BY <1>0
<1>7. CASE hooks' = hooks
  BY <1>2, <1>4, <1>5, <1>7 DEF HookInv
<1>8. CASE hooks' = hooks \cup {new} /\ Decide(m, parent)
           /\ ResolveDir(m.ch, parent) \in dirs \ {None}
  <2>1. new.cwd = DirOf(m.ch) /\ DirOf(m.ch)' = DirOf(m.ch)
    BY <1>3, <1>6, <1>8 DEF DirOf
  <2>2. IsHook(new)'
    BY <1>2, <1>6, <1>8, <2>1 DEF IsHook, Decide
  <2>3. \A g, h \in hooks' : g.msg = h.msg => g = h
    BY <1>5, <1>6, <1>8 DEF HookInv
  <2>4. \A h \in hooks' : IsHook(h)'
    BY <1>5, <1>8, <2>2
  <2>5. QED  BY <1>2, <1>4, <2>3, <2>4 DEF HookInv
<1>9. QED  BY <1>1, <1>7, <1>8

LEMMA DaemonKeepsHookInv ==
    ASSUME HookInv, BotInv, Daemon
    PROVE  HookInv'
<1>1. LoopStep /\ UNCHANGED <<log, scenario, config>>
  BY DEF Daemon, chatVars
<1>2. /\ Len(log) \in Nat /\ loop.next \in 1..Len(log) + 1
      /\ loop.pc = "lookup" => loop.next <= Len(log)
      /\ \A h \in hooks : h.msg \in 1..Len(log)
  BY SequenceFacts DEF BotInv, ChatInv, LogInv, TriggerInv, TriggerTypeOK
<1>3. ASSUME UNCHANGED <<settings, placements, hooks>>, loop'.next \in Nat,
             loop'.next >= loop.next \/ \A h \in hooks : h.msg < loop'.next,
             loop'.pc \in {"connecting", "listening", "lookup"}
               => loop.pc \in {"connecting", "listening", "lookup"},
             loop'.pc = "lookup" => IsLookup(call'[Gateway], log[loop'.next].ch)
      PROVE  HookInv'
  <2>1. ASSUME NEW h \in hooks PROVE IsHook(h)'
    <3>1. IsHook(h)
      BY <2>1 DEF HookInv
    <3>2. h.msg < loop'.next
      BY <1>2, <1>3, <2>1, <3>1 DEF IsHook
    <3>3. QED  BY <1>1, <1>3, <3>1, <3>2 DEF IsHook, Decide, DirOf
  <2>2. QED  BY <1>1, <1>3, <2>1 DEF HookInv
<1>4. CASE Boot
  <2> DEFINE f == Loaded.fields
  <2>1. loop.pc = "boot" /\ UNCHANGED <<placements, hooks>>
        /\ \/ /\ loop'.pc \in {"refused", "deaf"} /\ loop'.next = loop.next
              /\ UNCHANGED settings
           \/ /\ Parses /\ f.on_message # None /\ loop'.pc = "connecting"
              /\ loop'.next = loop.next /\ settings' = SettingsOf(f)
    BY <1>4 DEF Boot, LoopTo
  <2>2. CASE loop'.pc \in {"refused", "deaf"} /\ loop'.next = loop.next /\ UNCHANGED settings
    BY <1>2, <1>3, <2>1, <2>2
  <2>3. CASE /\ Parses /\ f.on_message # None /\ loop'.pc = "connecting"
             /\ loop'.next = loop.next /\ settings' = SettingsOf(f)
    <3>1. config # None
      BY <2>3 DEF Loaded, Default, NoFields
    <3>2. config \in ConfigOf({Kept}) /\ Loaded = config
      BY <2>3, <3>1 DEF BotInv, ConfigInv, Parses, Loaded
    <3>3. f = Kept
      BY <3>2 DEF ConfigOf
    <3>4. scenario.config # None
      BY <2>3, <3>3 DEF Kept, NoFields
    <3>5. f = scenario.config.fields
      BY <3>3, <3>4 DEF Kept
    <3> HIDE DEF f
    <3>6. CASE hooks = {}
      BY <1>1, <2>1, <2>3, <3>4, <3>5, <3>6 DEF HookInv
    <3>7. CASE hooks # {}
      <4>1. settings' = settings
        BY <2>3, <3>5, <3>7 DEF HookInv
      <4>2. QED  BY <1>1, <2>1, <2>3, <3>4, <3>5, <4>1 DEF HookInv, IsHook, Decide, DirOf
    <3>8. QED  BY <3>6, <3>7
  <2>4. QED  BY <2>1, <2>2, <2>3
<1>5. CASE Ready
  <2>1. loop.pc = "connecting" /\ loop'.pc = "listening" /\ loop'.next = Len(log) + 1
        /\ UNCHANGED <<settings, placements, hooks>>
    BY <1>5 DEF Ready, LoopTo
  <2>2. \A h \in hooks : h.msg < loop'.next
    BY <1>2, <2>1
  <2>3. QED  BY <1>2, <1>3, <2>1, <2>2
<1>6. CASE OnMessage
  <2> DEFINE i == loop.next
             ch == log[i].ch
  <2>1. /\ loop.pc = "listening" /\ i \in 1..Len(log)
        /\ UNCHANGED <<settings, dirs, placements>>
        /\ \/ /\ loop'.pc = "listening" /\ loop'.next = i + 1 /\ UNCHANGED hooks
           \/ ch \in DOMAIN placements /\ Judge(i, placements[ch])
           \/ /\ loop'.pc = "lookup" /\ loop'.next = i /\ UNCHANGED hooks
              /\ Issue(Gateway, [op |-> "channel", ch |-> ch])
    BY <1>2, <1>6 DEF OnMessage, LoopTo
  <2>2. CASE loop'.pc = "listening" /\ loop'.next = i + 1 /\ UNCHANGED hooks
    BY <1>2, <1>3, <2>1, <2>2
  <2>3. CASE ch \in DOMAIN placements /\ Judge(i, placements[ch])
    <3>1. placements[ch] = Parent[ch] /\ \A c \in DOMAIN placements' : placements'[c] = Parent[c]
      BY <2>1, <2>3 DEF HookInv
    <3>2. QED  BY <1>1, <2>1, <2>3, <3>1, JudgeKeepsHookInv
  <2>4. CASE loop'.pc = "lookup" /\ loop'.next = i /\ UNCHANGED hooks
             /\ Issue(Gateway, [op |-> "channel", ch |-> ch])
    <3> DEFINE req == [op |-> "channel", ch |-> ch]
    <3>1. DOMAIN call = Client /\ Gateway \in Client
      BY TriggerAssumption DEF BotInv, RestTypeOK
    <3>2. call'[Gateway] = [pc |-> "sent", req |-> req, retries |-> 0]
      BY <2>4, <3>1 DEF Issue, CallTo
    <3>3. req.op = "channel" /\ req.ch = ch
      OBVIOUS
    <3> HIDE DEF req
    <3>4. IsLookup(call'[Gateway], ch)
      BY <3>2, <3>3 DEF IsLookup
    <3>5. QED  BY <1>2, <1>3, <2>1, <2>4, <3>4
  <2>5. QED  BY <2>1, <2>2, <2>3, <2>4
<1>7. CASE LookupOk
  <2> DEFINE i == loop.next
             info == call[Gateway].body
             ch == log[i].ch
  <2>1. /\ loop.pc = "lookup" /\ call[Gateway].pc = "ok" /\ UNCHANGED <<settings, dirs>>
        /\ \/ /\ loop'.pc = "listening" /\ loop'.next = i + 1
              /\ UNCHANGED <<placements, hooks>>
           \/ /\ ~(info.thread /\ info.parent = None)
              /\ placements' = [c \in DOMAIN placements \cup {ch} |->
                                  IF c = ch THEN info.parent ELSE placements[c]]
              /\ Judge(i, info.parent)
    BY <1>7 DEF LookupOk, LoopTo
  <2>2. Tells(info, ch)
    BY <2>1 DEF HookInv, IsLookup
  <2> HIDE DEF info
  <2>3. CASE loop'.pc = "listening" /\ loop'.next = i + 1 /\ UNCHANGED <<placements, hooks>>
    BY <1>2, <1>3, <2>1, <2>3
  <2>4. CASE /\ ~(info.thread /\ info.parent = None)
             /\ placements' = [c \in DOMAIN placements \cup {ch} |->
                                 IF c = ch THEN info.parent ELSE placements[c]]
             /\ Judge(i, info.parent)
    <3>1. info.parent = Parent[ch]
      BY <2>2, <2>4 DEF Tells
    <3>2. \A c \in DOMAIN placements' : placements'[c] = Parent[c]
      BY <2>4, <3>1 DEF HookInv
    <3>3. i \in 1..Len(log) /\ i = loop.next /\ Judge(i, info.parent)
      BY <1>2, <2>1, <2>4
    <3> HIDE DEF i
    <3>4. QED  BY <1>1, <2>1, <3>1, <3>2, <3>3, JudgeKeepsHookInv
  <2>5. QED  BY <2>1, <2>3, <2>4
<1>8. CASE LookupFailed
  <2>1. loop.pc = "lookup" /\ loop'.pc = "listening" /\ loop'.next = loop.next + 1
        /\ UNCHANGED <<settings, placements, hooks>>
    BY <1>8 DEF LookupFailed, LoopTo
  <2>2. QED  BY <1>2, <1>3, <2>1
<1>9. QED  BY <1>1, <1>4, <1>5, <1>6, <1>7, <1>8 DEF LoopStep

LEMMA MishapKeepsHookInv ==
    ASSUME HookInv, BotInv, Mishap
    PROVE  HookInv'
<1>1. UNCHANGED <<log, scenario, settings, placements, hooks>>
  BY DEF Mishap, Gap, End, ChangeDirs, chatVars
<1>2. \/ loop.pc = "listening" /\ loop'.pc = "listening" /\ loop'.next = Len(log) + 1
      \/ loop'.pc = "closed" /\ loop'.next = loop.next
      \/ loop' = loop /\ call' = call
  BY DEF Mishap, Gap, End, ChangeDirs, LoopTo
<1>3. \A h \in hooks : IsHook(h) /\ h.msg \in 1..Len(log)
  BY DEF HookInv, IsHook
<1>4. \A h \in hooks : h.msg < loop'.next
  BY <1>2, <1>3, SequenceFacts DEF IsHook, BotInv, ChatInv, LogInv
<1>5. \A h \in hooks : IsHook(h)'
  BY <1>1, <1>3, <1>4 DEF IsHook, Decide, DirOf
<1>6. QED  BY <1>1, <1>2, <1>5 DEF HookInv

LEMMA StepKeepsHookInv ==
    ASSUME HookInv, BotInv, [Next]_vars
    PROVE  HookInv'
<1>1. LogGrows
  BY StepKeepsChatInv DEF BotInv
<1>2. DOMAIN call = Client /\ Gateway \in Client \ Proc /\ Proc \subseteq Client
  BY TriggerAssumption DEF BotInv, RestTypeOK
<1>3. \A c, s : CallTo(c, s) /\ c # Gateway => call'[Gateway] = call[Gateway]
  BY <1>2 DEF CallTo
<1>4. ASSUME UNCHANGED vars PROVE HookInv'
  BY <1>1, <1>4, OthersKeepHookInv DEF vars
<1>5. ASSUME NEW p \in Proc, CliStep(p) \/ Kill(p) PROVE HookInv'
  <2>1. UNCHANGED <<triggerVars, scenario>> \/ Kill(p)
    BY <1>5 DEF CliStep, WriteConfig, Converse, StartStore, MigrateStore, EndStore
  <2>2. UNCHANGED <<triggerVars, scenario>>
    BY <2>1 DEF Kill
  <2>3. UNCHANGED call \/ \E s : CallTo(p, s)
    BY <1>5 DEF CliStep, WriteConfig, Converse, MessageStep, StartSend, SendOn, StartRead, ReadOn,
                PollAgain, StartThread, ThreadOn, Reject, StartStore, MigrateStore, EndStore, Kill,
                Issue, HangUp
  <2>4. call'[Gateway] = call[Gateway]
    BY <1>2, <1>3, <2>3
  <2>5. QED  BY <1>1, <2>2, <2>4, OthersKeepHookInv
<1>6. ASSUME NEW c \in Client, Http(c) \/ Network(c) PROVE HookInv'
  <2>1. UNCHANGED <<triggerVars, scenario>>
    BY <1>6 DEF Http, Network
  <2>2. CASE c = Gateway
    <3>1. loop.pc = "lookup" => IsLookup(call'[Gateway], log[loop.next].ch)
      BY <1>6, <2>2, CallKeepsLookup DEF HookInv
    <3>2. QED  BY <1>1, <2>1, <3>1, OthersKeepHookInv
  <2>3. CASE c # Gateway
    <3>1. \E s : CallTo(c, s)
      BY <1>6 DEF Http, Network, Receive, Resend, Serve, Refuse, Lose, Respond, Break, Attempt, Fail
    <3>2. call'[Gateway] = call[Gateway]
      BY <1>3, <2>3, <3>1
    <3>3. QED  BY <1>1, <2>1, <3>2, OthersKeepHookInv
  <2>4. QED  BY <2>2, <2>3
<1>7. ASSUME Chatter PROVE HookInv'
  BY <1>1, <1>7, OthersKeepHookInv DEF Chatter
<1>8. QED
  BY <1>4, <1>5, <1>6, <1>7, DaemonKeepsHookInv, MishapKeepsHookInv DEF Next, Progress

LEMMA SpecHookInv == Spec => [](BotInv /\ HookInv)
<1>1. Init => HookInv
  BY DEF Init, TriggerInit, HookInv
<1>2. BotInv /\ HookInv /\ [Next]_vars => (BotInv /\ HookInv)'
  BY StepKeepsBotInv, StepKeepsHookInv
<1>3. QED  BY <1>1, <1>2, InitBotInv, PTL DEF Spec

\* For any configuration and whatever arrives in whatever order: what the bot has posted itself
\* starts a hook only if the configuration lists the bot, and in a thread only by a mention;
\* and no message starts two hooks (decide).
THEOREM HooksDoNotLoop == Spec => []NoHookLoop
<1>1. BotInv /\ HookInv => NoHookLoop
  <2> SUFFICES ASSUME BotInv, HookInv, NEW h \in hooks
               PROVE  /\ log[h.msg].author = Us =>
                           /\ Us \in scenario.config.fields.trigger_bots /\ log[h.msg].kind = "user"
                           /\ \/ log[h.msg].mention
                              \/ Parent[log[h.msg].ch] = None
                                   /\ log[h.msg].ch \in settings.issue_channels
                      /\ \A g \in hooks : g.msg = h.msg => g = h
    BY DEF NoHookLoop
  <2>1. Decide(log[h.msg], Parent[log[h.msg].ch])
    BY DEF HookInv, IsHook
  <2>2. settings.trigger_bots = scenario.config.fields.trigger_bots
    BY DEF HookInv, SettingsOf
  <2>3. QED  BY <2>1, <2>2, TriggerAssumption DEF HookInv, Decide
<1>2. QED  BY <1>1, SpecHookInv, PTL

\* For any configuration: a hook runs where the configuration says for the channel of its
\* message, whatever directories come and go and however the channel was looked up (handle,
\* Workdirs::resolve).
THEOREM HooksRunInTheirDirectory == Spec => []RightDirectory
<1>1. BotInv /\ HookInv => RightDirectory
  <2> SUFFICES ASSUME BotInv, HookInv, NEW h \in hooks
               PROVE  LET f == scenario.config.fields
                          ch == log[h.msg].ch
                          top == IF Parent[ch] = None THEN ch ELSE Parent[ch]
                          keys == {k \in DOMAIN f.workdirs : Resolve(k, f.aliases) = top}
                      IN h.cwd \in (IF keys = {} THEN {f.default_workdir}
                                    ELSE {f.workdirs[k] : k \in keys})
    BY DEF RightDirectory
  <2> DEFINE f == scenario.config.fields
             top == Top(log[h.msg].ch)
             keys == {k \in DOMAIN f.workdirs : Resolve(k, f.aliases) = top}
             all == {Resolve(k, f.aliases) : k \in DOMAIN f.workdirs}
  <2>1. h.cwd = DirOf(log[h.msg].ch) /\ settings = SettingsOf(f)
    BY DEF HookInv, IsHook
  <2>2. /\ settings.by_channel =
             [ch \in all |-> f.workdirs[CHOOSE k \in DOMAIN f.workdirs : Resolve(k, f.aliases) = ch]]
        /\ settings.default = f.default_workdir
    BY <2>1 DEF SettingsOf
  <2>3. CASE keys = {}
    <3>1. top \notin DOMAIN settings.by_channel
      BY <2>2, <2>3
    <3>2. h.cwd = f.default_workdir
      BY <2>1, <2>2, <3>1 DEF DirOf
    <3>3. QED  BY <2>3, <3>2 DEF Top
  <2>4. CASE keys # {}
    <3> DEFINE key == CHOOSE k \in DOMAIN f.workdirs : Resolve(k, f.aliases) = top
    <3>1. top \in all /\ key \in keys
      BY <2>4
    <3>2. h.cwd = f.workdirs[key]
      BY <2>1, <2>2, <3>1 DEF DirOf
    <3> HIDE DEF key
    <3>3. QED  BY <2>4, <3>1, <3>2 DEF Top
  <2>5. QED  BY <2>3, <2>4
<1>2. QED  BY <1>1, SpecHookInv, PTL
===============================================================================
