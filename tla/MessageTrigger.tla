----------------------------- MODULE MessageTrigger ---------------------------
(***************************************************************************)
(* Message detection in the daemon (tools/discord/src/daemon: gateway,     *)
(* message_trigger, workdir, hook_runner): each message of the gateway is  *)
(* judged, perhaps after a lookup of its channel, and starts the command   *)
(* "on_message" in the directory of its channel.  A hook is a process of   *)
(* its own, which posts with the command line and outlives the daemon.     *)
(***************************************************************************)
EXTENDS Messages

CONSTANTS Gateway,   \* the REST client of the event loop
          HookProc,  \* processes hooks may become
          Dir,       \* absolute directories
          BotId      \* numeric ids of bots, this one included

ASSUME TriggerAssumption == /\ Gateway \in Client \ Proc /\ Proc \subseteq Client
                            /\ HookProc \subseteq Proc /\ Us \in BotId

VARIABLES loop,        \* the event loop: where it stands, the next message it is handed
          settings,    \* what the daemon has made of the configuration at its start
          placements,  \* channels looked up so far: the parent of a thread, or None
          dirs,        \* directories that are there
          hooks,       \* hooks started: the message, the working directory
          reply        \* the command a hook carries out for a message of a channel

triggerVars == <<loop, settings, placements, dirs, hooks, reply>>

LoopState == {"off", "boot", "refused", "deaf", "connecting", "listening", "lookup", "closed",
              "stopped"}

TriggerInit(on, commands) ==
    /\ loop = [pc |-> IF on THEN "boot" ELSE "off", next |-> 1]
    /\ settings = None
    /\ placements = <<>>
    /\ dirs = Dir
    /\ hooks = {}
    /\ reply = commands

TriggerTypeOK ==
    /\ loop.pc \in LoopState /\ loop.next \in 1..Len(log) + 1
    /\ DOMAIN placements \subseteq Channel
    /\ dirs \subseteq Dir
    /\ \A h \in hooks : h.msg \in 1..Len(log) /\ h.cwd \in Dir
    /\ loop.pc \in {"connecting", "listening", "lookup"} =>
          DOMAIN settings = {"issue_channels", "trigger_bots", "by_channel", "default"}

LoopTo(s, next) == loop' = [pc |-> s, next |-> next]

-------------------------------------------------------------------------------
(* Start: the configuration becomes settings.                              *)

\* MessageTriggerSettings::from_config, Workdirs::from_config: numeric ids, one key for a
\* channel, absolute directories and one of them at least.
Valid(f) ==
    LET Ch(key) == Resolve(key, f.aliases)
        keys == DOMAIN f.workdirs
    IN /\ f.on_message # "empty"
       /\ f.trigger_bots \subseteq BotId
       /\ keys # {} \/ f.default_workdir # None
       /\ \A j, k \in keys : Ch(j) = Ch(k) => j = k
       /\ \A k \in keys : f.workdirs[k] \in Dir
       /\ f.default_workdir \in Dir \cup {None}

SettingsOf(f) ==
    LET Ch(key) == Resolve(key, f.aliases)
        keys == DOMAIN f.workdirs
    IN [issue_channels |-> {Ch(key) : key \in f.issue_channels},
        trigger_bots |-> f.trigger_bots,
        by_channel |-> [ch \in {Ch(k) : k \in keys} |->
                          f.workdirs[CHOOSE k \in keys : Ch(k) = ch]],
        default |-> f.default_workdir]

\* Without "on_message" no message intent is asked for, and no message arrives.
Boot ==
    /\ loop.pc = "boot"
    /\ LET f == Loaded.fields
       IN \/ /\ ~Parses \/ (f.on_message # None /\ ~Valid(f))
             /\ LoopTo("refused", loop.next)
             /\ UNCHANGED settings
          \/ /\ Parses /\ f.on_message = None
             /\ LoopTo("deaf", loop.next)
             /\ UNCHANGED settings
          \/ /\ Parses /\ f.on_message # None /\ Valid(f)
             /\ LoopTo("connecting", loop.next)
             /\ settings' = SettingsOf(f)
    /\ UNCHANGED <<placements, dirs, hooks, reply, agenda, call>>

-------------------------------------------------------------------------------
(* The filter and the directory, as pure functions of the settings.        *)

\* A bug to rule out: this bot's own posts count as anybody's.
DecideAnyone(m, parent) ==
    /\ m.kind = "user"
    /\ m.mention \/ (parent = None /\ m.ch \in settings.issue_channels)

\* A bot, this one included, counts as a person if it is listed.  In a thread only a mention
\* starts the hook, at the top level a post in an issue channel as well.
Decide(m, parent) ==
    /\ m.author \in BotId => m.author \in settings.trigger_bots
    /\ m.kind = "user"
    /\ m.mention \/ (parent = None /\ m.ch \in settings.issue_channels)

\* A bug to rule out: without its own directory a channel gets the default one.
ResolveWithDefault(ch, parent) ==
    LET key == IF parent = None THEN ch ELSE parent
    IN IF key \in DOMAIN settings.by_channel /\ settings.by_channel[key] \in dirs
       THEN settings.by_channel[key]
       ELSE IF settings.default \in dirs THEN settings.default ELSE None

\* The directory of a message, of a thread that of its channel; None without a usable one.
ResolveDir(ch, parent) ==
    LET key == IF parent = None THEN ch ELSE parent
        dir == IF key \in DOMAIN settings.by_channel THEN settings.by_channel[key]
               ELSE settings.default
    IN IF dir \in dirs THEN dir ELSE None

-------------------------------------------------------------------------------
(* The event loop.                                                         *)

\* READY says who the bot is; only what is posted from now on arrives.
Ready ==
    /\ loop.pc = "connecting"
    /\ LoopTo("listening", Len(log) + 1)
    /\ UNCHANGED <<settings, placements, dirs, hooks, reply, agenda, call>>

\* HookRunner::run: an idle process becomes the hook; past the bound on processes a hook
\* does nothing that can be seen here.
Spawn(i, dir) ==
    /\ hooks' = hooks \cup {[msg |-> i, cwd |-> dir]}
    /\ LET free == {h \in HookProc : agenda[h] = <<>>}
       IN IF free = {} THEN UNCHANGED agenda
          ELSE agenda' = [agenda EXCEPT ![CHOOSE h \in free : TRUE] = <<reply[log[i].ch]>>]

\* The rest of MessageTrigger::handle, once the message is placed; whatever fails, the loop
\* goes on with the next event.
Judge(i, parent) ==
    LET dir == ResolveDir(log[i].ch, parent)
    IN /\ LoopTo("listening", i + 1)
       /\ IF Decide(log[i], parent) /\ dir # None
          THEN Spawn(i, dir) \/ ("spawn" \in faults /\ UNCHANGED <<hooks, agenda>>)
          ELSE UNCHANGED <<hooks, agenda>>

\* What the top level would not let pass passes nowhere, and needs no lookup.
OnMessage ==
    LET i == loop.next
        ch == log[i].ch
    IN /\ loop.pc = "listening" /\ i <= Len(log)
       /\ \/ /\ ~Decide(log[i], None)
             /\ LoopTo("listening", i + 1)
             /\ UNCHANGED <<placements, hooks, agenda, call>>
          \/ /\ Decide(log[i], None) /\ ch \in DOMAIN placements
             /\ Judge(i, placements[ch])
             /\ UNCHANGED <<placements, call>>
          \/ /\ Decide(log[i], None) /\ ch \notin DOMAIN placements
             /\ LoopTo("lookup", i)
             /\ Issue(Gateway, [op |-> "channel", ch |-> ch])
             /\ UNCHANGED <<placements, hooks, agenda>>
       /\ UNCHANGED <<settings, dirs, reply>>

\* A thread whose parent Discord does not name is not guessed at.
LookupOk ==
    LET info == call[Gateway].body
        ch == log[loop.next].ch
    IN /\ loop.pc = "lookup" /\ call[Gateway].pc = "ok"
       /\ IF info.thread /\ info.parent = None
          THEN LoopTo("listening", loop.next + 1) /\ UNCHANGED <<placements, hooks, agenda>>
          ELSE /\ placements' = [c \in DOMAIN placements \cup {ch} |->
                                     IF c = ch THEN info.parent ELSE placements[c]]
               /\ Judge(loop.next, info.parent)
       /\ HangUp(Gateway)
       /\ UNCHANGED <<settings, dirs, reply>>

\* A bug to rule out: a failure ends the loop.
LookupEndsLoop ==
    /\ loop.pc = "lookup" /\ (call[Gateway].pc = "failed" \/ InCall(Gateway))
    /\ LoopTo("stopped", loop.next)
    /\ HangUp(Gateway)
    /\ UNCHANGED <<settings, placements, dirs, hooks, reply, agenda>>

\* The call failed, or took longer than three seconds; nothing is cached.
LookupFailed ==
    /\ loop.pc = "lookup" /\ (call[Gateway].pc = "failed" \/ InCall(Gateway))
    /\ LoopTo("listening", loop.next + 1)
    /\ HangUp(Gateway)
    /\ UNCHANGED <<settings, placements, dirs, hooks, reply, agenda>>

LoopStep == Boot \/ Ready \/ OnMessage \/ LookupOk \/ LookupFailed

-------------------------------------------------------------------------------
(* What happens to the loop.                                               *)

\* A session that cannot be resumed: what was posted meanwhile never arrives.
Gap ==
    /\ "gap" \in faults
    /\ loop.pc = "listening" /\ loop.next <= Len(log)
    /\ LoopTo("listening", Len(log) + 1)
    /\ UNCHANGED <<settings, placements, dirs, hooks, reply, agenda, call>>

\* A fatal close code, or SIGTERM; the hooks live on.
End ==
    /\ "close" \in faults
    /\ loop.pc \in {"deaf", "connecting", "listening"}
    /\ LoopTo("closed", loop.next)
    /\ UNCHANGED <<settings, placements, dirs, hooks, reply, agenda, call>>

\* Somebody removes a directory, or makes it again.
ChangeDirs ==
    /\ "dirs" \in faults
    /\ \E d \in Dir : dirs' = (dirs \ {d}) \cup ({d} \ dirs)
    /\ UNCHANGED <<loop, settings, placements, hooks, reply, agenda, call>>
===============================================================================
