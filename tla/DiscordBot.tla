------------------------------- MODULE DiscordBot -----------------------------
(***************************************************************************)
(* The bot on one host: command-line processes, the message detection of   *)
(* the daemon and the hooks it starts, with the configuration file, the    *)
(* schema of discord.db and Discord between them.                          *)
(***************************************************************************)
EXTENDS MessageTrigger, StoreSchema

CONSTANT Scenarios  \* who does what: agendas, configuration, what may go wrong

ASSUME OpenersAssumption == Opener = Proc

\* What the configuration file may say beside the token: what it says in some scenario.
FieldsInPlay == {NoFields} \cup {s.config.fields : s \in {t \in Scenarios : t.config # None}}

ASSUME AbsenceAssumption == {None, Truncated, Torn} \cap ConfigOf(FieldsInPlay) = {}

\* The tokens and the bodies in play.
IsCommand(c) == /\ c.op = "init" => c.token \in Token \cup {None}
                /\ c.op = "send" => c.content \in Content

ASSUME ScenarioAssumption ==
    \A s \in Scenarios :
       /\ DOMAIN s.agenda = Proc
       /\ \A p \in Proc : IsSequence(s.agenda[p]) /\ \A c \in ToSet(s.agenda[p]) : IsCommand(c)
       /\ \A ch \in Channel : IsCommand(s.reply[ch])
       /\ s.config \in {None} \cup ConfigOf(FieldsInPlay)
       /\ s.faults \subseteq FaultKinds
       /\ \A e \in s.talk : e.ch \in Channel /\ e.kind \in {"user", "system"}

VARIABLE scenario   \* the one of this behaviour

vars == <<cliVars, config, call, chatVars, triggerVars, storeVars, scenario>>

Init == /\ scenario \in Scenarios
        /\ CliInit(scenario.agenda)
        /\ config = scenario.config
        /\ RestInit
        /\ ChatInit(scenario.faults)
        /\ TriggerInit(scenario.daemon, scenario.reply)
        /\ StoreInit
        /\ scenario.old \/ (db.table /\ db.version = Latest /\ wal)

TypeOK == /\ CliTypeOK /\ RestTypeOK /\ ChatTypeOK /\ TriggerTypeOK /\ StoreTypeOK
          /\ config \in {None, Truncated, Torn} \cup ConfigOf(FieldsInPlay)

-------------------------------------------------------------------------------
(* The steps of each part; "ask result" stands for every command that opens *)
(* the store.                                                               *)

WriteConfig(p) == /\ InitStep(p)
                  /\ UNCHANGED <<call, chatVars, triggerVars, storeVars, scenario>>

Converse(p) == /\ MessageStep(p)
               /\ UNCHANGED <<config, chatVars, triggerVars, storeVars, scenario>>

StartStore(p) == /\ Starts(p, {"result"})
                 /\ Connect(p)
                 /\ Goto(p, "store", None)
                 /\ UNCHANGED <<config, call, chatVars, triggerVars, scenario>>

MigrateStore(p) == /\ pc[p] = "store"
                   /\ OpenStep(p) \/ GiveUpBusy(p)
                   /\ UNCHANGED <<cliVars, config, call, chatVars, triggerVars, scenario>>

\* A question that is not there is a usage error.
EndStore(p) == /\ pc[p] = "store"
               /\ \/ opening[p] = "open" /\ \E kind \in {"ok", "usage"} : Answer(p, kind)
                  \/ opening[p] \in {"busy", "collided"} /\ Answer(p, "internal")
               /\ Disconnect(p)
               /\ UNCHANGED <<config, call, chatVars, triggerVars, scenario>>

Http(c) == /\ Receive(c) \/ Resend(c)
           /\ UNCHANGED <<cliVars, config, chatVars, triggerVars, storeVars, scenario>>

\* Sooner or later a request is answered, or its client's time is up.
Network(c) == /\ Serve(c) \/ Refuse(c) \/ Lose(c)
              /\ UNCHANGED <<cliVars, config, triggerVars, storeVars, scenario>>

Chatter == /\ \/ \E req \in stray : Arrive(req)
              \/ \E e \in scenario.talk : Say(e)
           /\ UNCHANGED <<cliVars, config, call, triggerVars, storeVars, scenario>>

Daemon == /\ LoopStep
          /\ UNCHANGED <<pc, mem, told, config, chatVars, storeVars, scenario>>

Mishap == /\ Gap \/ End \/ ChangeDirs
          /\ UNCHANGED <<pc, mem, told, config, chatVars, storeVars, scenario>>

\* A process dies: its request may be on its way, its transaction rolls back.
Kill(p) ==
    /\ "kill" \in faults
    /\ pc[p] # "idle"
    /\ Answer(p, "killed")
    /\ HangUp(p) /\ LeaveBehind(p)
    /\ opening' = [opening EXCEPT ![p] = "closed"]
    /\ writer' = IF writer = p THEN None ELSE writer
    /\ UNCHANGED <<config, log, threads, faults, triggerVars, db, tx, wal, scenario>>

CliStep(p) == WriteConfig(p) \/ Converse(p) \/ StartStore(p) \/ MigrateStore(p) \/ EndStore(p)

\* Processes, clients, Discord and the event loop go on while there is something to do;
\* nobody has to speak, and no mishap has to happen.  All work being bounded, it need not be
\* said of each of them.
Progress == \/ \E p \in Proc : CliStep(p)
            \/ \E c \in Client : Http(c) \/ Network(c)
            \/ Daemon

Next == Progress \/ Chatter \/ Mishap \/ \E p \in Proc : Kill(p)

Spec == Init /\ [][Next]_vars

FairSpec == Spec /\ WF_vars(Progress)

-------------------------------------------------------------------------------
(* Properties.                                                             *)

\* The messages a process has posted by its n-th command, by their places in the log.
Posts(p, n) == {i \in 1..Len(log) : log[i].proc = p /\ log[i].job = n}

\* What "send" posts is the body: one message for each part, in order, none twice and none
\* left out in between, with the files and the reply on the first alone, whatever fails on
\* the way and however late a request arrives (run_send_split, send_retrying).
PartsInOrder ==
    \A p \in Proc : \A n \in 1..Len(agenda[p]) : \A i \in Posts(p, n) :
        LET part == log[i].part
        IN /\ part > 0
           /\ \A k \in 1..part - 1 : \E j \in Posts(p, n) : j < i /\ log[j].part = k
           /\ \A j \in Posts(p, n) : log[j].part = part => j = i
           /\ log[i].extras <=> (agenda[p][n].extras # "none" /\ part = 1)

\* A body that is posted whole has been cut as promised: every part is short enough, together
\* they are the body, and no part leaves a code block open (split_message).
SplitIsFaithful ==
    \A p \in Proc : \A n \in 1..Len(told[p]) :
        LET ids == told[p][n].ids
        IN agenda[p][n].op = "send" /\ told[p][n].kind = "ok" /\ agenda[p][n].split =>
             IsSplitOf(agenda[p][n].content, [k \in 1..Len(ids) |-> log[ids[k]].text])

\* The answer to a send names what was posted: all of it, or all but one more part, and that
\* only if the exit code says that Discord or the network failed; with any other exit code
\* a caller may send the rest again (run_send_split, exit_code).
SentIsReported ==
    \A p \in Proc : \A n \in 1..Len(told[p]) :
        LET answer == told[p][n]
            named == Len(answer.ids)
        IN agenda[p][n].op = "send" /\ answer.kind # "killed" =>
             /\ \A k \in 1..named : answer.ids[k] \in Posts(p, n) /\ log[answer.ids[k]].part = k
             /\ \A i \in Posts(p, n) :
                   \/ log[i].part <= named
                   \/ log[i].part = named + 1 /\ ExitCode(answer.kind) \in {4, 6}

\* What every version of the configuration says beside the token.
Kept == IF scenario.config = None THEN NoFields ELSE scenario.config.fields

\* The commands of a process that read, and those that it has got an answer to.
Reading(p) == {n \in 1..Len(agenda[p]) : agenda[p][n].op \in {"read", "wait"}}
Reads(p) == {n \in Reading(p) : n <= Len(told[p])}

\* The channel a command reads, and processes that read no more than one.
Source(p, n) == Resolve(agenda[p][n].ch, Kept.aliases)
Followers == {p \in Proc : \A m, n \in Reading(p) : Source(p, m) = Source(p, n)}

\* The messages that the answers to a reader name.
Seen(p) == UNION {ToSet(told[p][n].ids) : n \in Reads(p)}

\* A reader that follows one channel, going on from the cursor of its last answer, sees each of
\* its messages once and in order, from the first it has seen, however many come between two
\* polls and whichever calls fail (sort_ascending_by_id, newest_cursor).
ReadersMissNothing ==
    \A p \in Followers :
       /\ \A m, n \in Reads(p) :
             \A j \in 1..Len(told[p][m].ids) : \A k \in 1..Len(told[p][n].ids) :
                m < n \/ (m = n /\ j < k) => told[p][m].ids[j] < told[p][n].ids[k]
       /\ \A a, b \in Seen(p) : \A i \in a..b : i \in Seen(p) <=> log[i].ch = log[a].ch

\* Every command ends: rate limits are waited for a bounded number of times, polls are
\* counted, and no lock is kept (send_retrying, run_wait, AskStore::open).
EveryCommandEnds ==
    []<>(\A p \in Proc : Len(told[p]) = Len(agenda[p]))

\* "init --force" replaces the token alone: whatever others write or die at meanwhile, a
\* configuration that can be read has the fields it had (run_init).
NoSilentLoss ==
    Parses /\ scenario.config # None => Loaded.fields = scenario.config.fields

\* What this bot has posted itself starts a hook only if the bot is listed, and then by a
\* mention or at the top level of an issue channel alone: a hook that answers in the thread
\* does not start itself again, and one message starts one hook (decide).
NoHookLoop ==
    \A h \in hooks :
        LET m == log[h.msg]
        IN /\ m.author = Us => /\ Us \in scenario.config.fields.trigger_bots /\ m.kind = "user"
                               /\ m.mention \/ (Parent[m.ch] = None /\ m.ch \in settings.issue_channels)
           /\ \A g \in hooks : g.msg = h.msg => g = h

\* A hook runs in the directory that the configuration names for the channel of its message,
\* for a thread the channel it hangs under; the default is for channels without one, and
\* never stands in for a directory that is missing (handle, Workdirs::resolve).
RightDirectory ==
    \A h \in hooks :
        LET f == scenario.config.fields
            ch == log[h.msg].ch
            top == IF Parent[ch] = None THEN ch ELSE Parent[ch]
            keys == {k \in DOMAIN f.workdirs : Resolve(k, f.aliases) = top}
        IN h.cwd \in (IF keys = {} THEN {f.default_workdir} ELSE {f.workdirs[k] : k \in keys})

\* The event loop gets through what it is handed: no message keeps it from the next one,
\* whether its lookup fails, hangs or is limited, its directory is gone or its hook cannot
\* be started (on_message_create).
EventLoopMovesOn ==
    []<>(loop.next > Len(log) \/ loop.pc \in {"off", "refused", "deaf", "closed"})
===============================================================================
