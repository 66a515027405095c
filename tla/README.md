# A verification project for areum-lab-tools

This directory holds TLA+ models of the programs under `src/tools`, the TLC runs that
check them on small instances, and proofs, checked by TLAPS, that hold for every size.
The source is the reference: every definition that models code is tied to its lines in
the `map` of `PROJECT.json`. Line numbers below are those of `src/`.

    tlc -workers 2 -config ask_race.cfg MCAskHitl.tla     # one run
    tlapm AskHitlProofs.tla                               # the proofs of one module

## 1. Inventory

Two programs share nothing but their style: `discord`, a CLI and a daemon with which
agents ask people questions on Discord, and `kanban`, a board on which several agents
and people move items. Both are sets of short-lived processes, plus one resident one,
that meet in an SQLite database or in a file. There are no threads: what interleaves is
processes, and inside the daemon the arms of one `select!` loop.

| component | source | state | operations |
|---|---|---|---|
| asks table | `discord/src/common/store.rs` | one row per ask, in `discord.db` | `insert_ask`, `try_answer`, `try_timeout`, `expire_due`, `cleanup`, `get_ask` |
| opening of `discord.db` | `AskStore::open` in the same file | journal mode, schema version, columns | WAL, look without a lock, migration under one |
| `ask create`, `result`, `wait` | `discord/src/commands/ask.rs` | where the process stands | send, attach buttons, insert; poll, expire locally |
| interactions and sweep | `discord/src/daemon/interactions.rs` | the handler's locals, `ExpireRetryQueue` (memory only) | buttons, select menus, modals; `expire_and_disable` |
| gateway loop | `discord/src/daemon/gateway.rs` | connection, ticks | one arm at a time: SIGTERM, sweep, retention, event |
| daemon lifecycle | `discord/src/commands/daemon.rs` | the pidfile, OS processes | start (foreground, background), stop, status |
| message trigger | `discord/src/daemon/{message_trigger,hook_runner,workdir}.rs` | settings, the channels looked up so far | place a message, decide, choose a directory, start the hook |
| send, read, wait, cursor, thread | `discord/src/commands/` | the cursor its caller passes on | REST calls, one after the other |
| REST client | `discord/src/common/http.rs` | none | calls, at most three retries on 429 |
| configuration | `discord/src/common/config.rs`, `commands/init.rs` | `config.json` | `init`, read by every other command and by the daemon |
| kanban store | `kanban/src/common/store.rs` | `projects`, `items`, `labels` in the board's database | add, assign, next, done, release, move, priority, project add and rm |
| kanban commands | `kanban/src/commands/` | none | one store call each |
| hello, install scripts | `tools/hello`, `scripts` | none | - |

How they interact:

* `ask create` posts a message, PATCHes its components onto it and inserts a row; from
  then on the CLI and the daemon only meet in that row. Discord hands clicks and modal
  submits to the daemon, in any order or not at all. The daemon's sweep and the local
  expiry of `ask wait` race those clicks with conditional UPDATEs.
* `daemon start`, its detached child, other starts and `daemon stop` meet in the pidfile
  and through signals and `kill(pid, 0)`.
* `init` rewrites `config.json` in place while other processes read it. Every command that
  touches an ask opens `discord.db` first, and whoever comes first migrates it.
* commands post to Discord, whose gateway hands each post to the daemon, the bot's own ones
  too; the daemon starts hooks, which are processes that run commands. `read` and `wait`
  follow a channel through cursors that their caller hands from one call to the next.
* kanban processes meet in one database, whose write lock serialises them, but each does
  something before it holds that lock.

What is hard, and so what the properties are about (the full list is `hazards` in
`PROJECT.json`): several parties decide one question; records are read, judged, and
written back later; the three steps of `ask create` fail one by one; the retry queue dies
with the daemon; files are created, then filled, and removed by whoever believes they are
stale; a transition is planned from a snapshot; ids are minted; timestamps are read before
a lock; deadlines and retention meet at a boundary; a message is posted in parts, any of
which may fail or arrive late; pages are shorter than bursts; a file is truncated before it
is written; a hook's answer is heard by the daemon that started it.

What makes each component correct:

* HITL questions: one decision per question, whoever makes it, and everybody who is told
  anything is told that; an answer was allowed; nobody closes a question early and every
  question is closed in the end; an open question can be answered, a closed one cannot;
  retention never removes an open one.
* lifecycle: one daemon; entries of the dead do not block the living; success is reported
  of something that happened.
* talking to Discord: what is posted is the body, in order, once; the answer says how much of
  it; a reader misses nothing; every command ends.
* configuration and schema: whoever reads them gets a whole one; rewriting loses nothing.
* message trigger: no hook starts itself; a hook runs where the configuration says; no message
  stops the loop.
* board: items follow the lifecycle; a claim is exclusive; a reply names the change that
  was made; a refusal names its real reason; rows are sound.

## 2. Modules

    AskOutcome                         abstract: a write-once question
        ^ refined by
    AskHitl        composition, fairness, properties, refinement mapping
      |- AskCli    ask create / wait / result        (commands/ask.rs)
      |- AskDaemon handlers, sweep, retry queue      (daemon/interactions.rs, gateway.rs)
      '- DiscordChat   Discord as the code uses it (external), faults
           '- AskStore the asks table                (common/store.rs)
    AskHitlProofs  theorems                          MCAskHitl   instances for TLC

    BoardRules                         abstract: the lifecycle of an item
        ^ refined by
    Kanban         commands on the board, one database (kanban/src)
    KanbanProofs   theorems                          MCKanban    instances for TLC

    Pidfile        start, stop and the daemon process (commands/daemon.rs)
    PidfileProofs  theorems                          MCPidfile   instances for TLC

    DiscordBot     composition, fairness, properties
      |- StoreSchema        opening discord.db        (common/store.rs)
      '- MessageTrigger     detection, hooks          (daemon/)
           '- Messages      send, read, wait, thread  (commands/), Discord (external)
                |- SplitMessage  the chunker          (commands/send/split.rs)
                |- RestClient    one call, retries    (common/http.rs)
                '- ConfigFile    config.json, init    (common/config.rs)
                     '- CliProcess  commands, answers (main.rs, common/error.rs)
    StoreSchemaProofs, DiscordBotProofs, HookProofs, SendProofs, ReadProofs   theorems
    MCDiscordBot   scenarios for TLC
    Absent         the value None, shared by the leaves

### How state and actions correspond to the code

**AskStore.** `asks[a]` is a row; status `absent` is no row. Every operation is one SQL
statement, hence one step, and its WHERE clause is the condition in the operator
(`TryAnswer` changes nothing unless the row is pending). Timestamps are integers: the code
normalises to UTC seconds and compares strings of one format. `InsertAsk` reads the clock
twice, as `insert_pending_ask` does, up to `InsertLag` seconds before the INSERT. `told`
is a history variable: what was printed or confirmed to anybody.

**AskCli.** `create[a]` is the program counter of the one `ask create` that makes `a`:
send, attach, insert, and on failure strip and note, in the code's order; each REST call
may fail at Discord's end or only on the way back. `wait[w]` is an `ask wait`: `Fetch`
reads the record and the clock, `ExpireLocally` is the UPDATE, `Reread` the second SELECT.
Between any two of them the daemon may run.

**AskDaemon.** `dpc` is where the single task stands. `TakeInteraction` parses, looks up
and judges; `Adopt` is the conditional UPDATE; `Respond` the callback. While the task is
inside a handler or a sweep the loop takes nothing else. `targets`, `failed` and `retry`
are the work list of `expire_and_disable`, the entries it will requeue, and
`ExpireRetryQueue`. A crash, or a stop between handlers, loses all of it. Edits are taken
in any order.

**Kanban.** Each actor is a process that runs one command at a time: `Begin` starts it
(here `add`, `next` and `project add` read the clock), single-statement commands are one
step when nobody holds the write lock, transitions are `Snapshot` (BEGIN IMMEDIATE, SELECT,
clock) and `Write` (plan, UPDATE, COMMIT), and an intake is `MintId` and `InsertItem`.
`Matches` is the WHERE clause and `Updated` the SET clause of a transition. `Write` accepts
`lock = None` too, so that a version of the code without the transaction can be expressed;
in the real one the process holds the lock. A refusal by the schema itself has the outcome
`constraint`, which the code also reports as a conflict but with SQLite's text.
An actor stands for a session and its agent. `Abandon` is the busy timeout or a kill.

**Pidfile.** Each system call on the file is a step: `TryCreate` (O_EXCL), `WritePid`,
`Settle` (the reads of `read_pid_settling` and the probe), `RemoveStale`, `CheckOwn` and
`Unlink` (`release_own_pidfile`), `RemoveStopped`. Each of them can fail instead
(`PidfileFails`, `StartFails`, `StopFails`; mishap `io`) and leaves the file as it is; a claim
that fails between create and write leaves it empty, since `acquire_pidfile(..)?` returns
before anything is released. A spawned child checks its configuration as `--foreground` does
(`Configure`) and may end there. The write goes to the file that was
created, so a file removed in between keeps its successor intact (`by` plays the inode).
SIGTERM kills a process that has not reached the event loop and ends the loop of one that
has. The 500 ms that a reader waits for a pid are long enough for a live writer unless the
mishap `stall` is injected; `slow` lets the limits of three and ten seconds expire.

**CliProcess.** A process carries out an `agenda` of commands; `pc` and `mem` are where the
current one stands and what it remembers across its calls, `told` the answers (kind, ids,
cursor) it has got. The next `read` or `wait` goes on from the cursor of the last answer, as
the documentation tells agents to. `ExitCode` is the table of `exit_code`.

**ConfigFile.** `config` is the file, `ConfigOf` what it can say. `CheckExists`, `Reload`, `Truncate`, `Fill` are the
steps of `init`: `std::fs::write` truncates and then writes, so between the two a reader
finds an empty file, which does not parse, and two writers can leave the longer text's tail
behind the shorter one (`Torn`). A file truncated by a writer that died stays unreadable to
all commands, `init --force` included: it refuses to merge into what it cannot parse.

**RestClient.** `call[c]` is the one call a client is in. `Receive` is the retry loop of
`send_retrying`; the delay of a 429 is taken from the header or else the body, and a call is
given up beyond `MaxRetries` or `MaxSleep`. `Break` is a lost connection or the client's 30 s.

**SplitMessage.** Pure operators over lines of given lengths: `PushLine`, `Flush`,
`ForceSplit` as in the code, and `IsSplitOf`, which says what a split must be without the
chunker (short enough, together the body, fences balanced). A line that the code counts as a
fence although it is longer than a message can be, or carries its closing marker in the same
line, ends in an unbalanced chunk; `FencesFit` excludes the former from the claim. Tags of one
and of no character satisfy it in the run and are told apart by their length, so a fence opened
again with the wrong tag or none is noticed; one of three characters makes a fence line so long
that it is cut, one of five cannot be opened again.

**Messages.** `log` is everything ever posted, in the order of ids. `StartSend` and `SendOn`
post one part after the other; `StartRead`, `ReadOn` and `PollAgain` are `read` and `wait`;
`StartThread` and `ThreadOn` are `thread create`. Discord's side (`Serve`, `Refuse`, `Lose`) may
carry a request out and still not be heard; `stray` holds posts whose sender gave up and
which may `Arrive` later, to be carried out or refused like any other.

**MessageTrigger.** `loop` is the event loop and the next message the gateway hands it.
`Boot` turns the configuration into `settings` once; `OnMessage` judges, looks a channel up
if it has to (`placements` is the cache), and starts a hook, which becomes a process of
CliProcess. `LookupFailed` is an error or the three-second limit. `Gap` is a session that
cannot be resumed.

**StoreSchema.** `Connect`, `EnableWal`, `Probe`, `BeginImmediate`, `CreateAsks`,
`AlterAsks`, `CommitSchema` are the statements of `AskStore::open` and `migrate`; `tx` is the
working copy of the transaction, which `Disconnect` (the end or death of a process) drops.
`collided` is an ALTER TABLE that finds its column there already.

**DiscordBot.** Interleaves the parts; `scenario` picks who does what. `StartStore` stands for
every command that opens `discord.db`; what it does there is AskHitl's subject.

## 3. Runs

Every passing run's properties have a mutant: a definition with a plausible bug, defined
next to the right one ("A bug to rule out"), under which TLC finds the property violated.

| run | instance | question |
|---|---|---|
| `ask_race` | 1 ask with buttons and text, 2 users of whom 1 is allowed, 2 waiters, 2 interactions underway, INSERT up to 1 s late | does a race of clicks, modals, sweep, retention and waiters ever store an answer that was not asked for, time out early, report "pending" too late, or delete a row before its deadline? |
| `ask_faults` | 1 ask, 2 users, 1 waiter, 2 faults of any kind | do all observers agree under failures; is the inductive invariant true; does it implement `AskOutcome`? |
| `ask_sweep` | 2 asks with two deadlines, 1 waiter, 2 failing edits of 3 or crashes | are the work list and the retry queue sound, is every ask decided, does every waiter return, are queued edits carried out? |
| `kanban_transitions` | 2 processes, every command on one item, intake and assignment of a second | soundness of rows, honest replies, reasons of refusals, refinement of `BoardRules` |
| `kanban_live` | 1 issue pushed repeatedly, every command, a second passes | is the inductive invariant true, is the write lock always freed, does a transition take `updated_at` back? |
| `pidfile_chaos` | 3 daemons, 1 launcher, 1 stopper, any two kinds of mishap | do clean starts exclude each other, is any entry left, is `stopped` true, does one start come up, does `start` return before its time limit? |
| `discord_bot` | 3 processes, 2 hooks, 3 channels, the scenarios below | are messages posted and read whole and in order, is the answer true, is the configuration kept, does a hook start itself or run in the wrong place, is the store opened soundly, does everything end? |

Runs that find a disagreement between the code and what the repository says of it (each
is a finding with the quoted line):

| run | what happens |
|---|---|
| `ask_early_click` | the components are live before the row is inserted; a click in between is told that the question is unknown |
| `ask_buttons_wait` | `ask wait` times an ask out locally; the daemon never sees it as due, and its buttons stay |
| `kanban_credit` | a person moves a claimed item to `done`; the row credits the claimant |
| `pidfile_stale` | two starts over one stale pidfile both serve |
| `pidfile_healthy` | `start` reports success before its child has opened the store |

`OneDaemon` also fails without any crash: `stop` removes the pidfile after its daemon is
gone, whatever it holds by then, and three processes are enough for a fast successor to lose
its entry (add a stopper and no leftover to `pidfile_stale.cfg` to see it). The same removal
may take the entry of a child that no stop has signalled; its launcher then waits out its three
seconds and reports a failure, which is why `StartReturns` supposes that nobody stops a daemon.

What is left behind after all: `EntriesAreCleanedUp` excepts daemons that are killed outright,
a stop that gives up, and a failing call on the pidfile. The last has two forms, a claim that
could not write its pid (`daemon.rs:306`; nothing is released) and a release or a stop whose
look or removal failed (`daemon.rs:314-323`, `daemon.rs:373`). They leave just the two files
that behaviours also start from, empty or with the pid of a dead process, and `SomeoneComesUp`
says that later starts get past both.

The scenarios of `discord_bot` (`MCDiscordBot`) are the initial states of one run, each with
the agendas of its processes, its configuration and the faults it admits:

| scenario | what happens in it |
|---|---|
| `Splits` | all bodies of up to three lines: short, long, longer than a message, fences without an info string and with one of three lengths |
| `Faulty` | a split send with files and a plain one, a reader beside it, every failure of a call, late arrivals |
| `Follow` | a reader with pages of one and two messages, posts of others between its polls, failing calls |
| `Threads` | two processes want a thread from one message; kills |
| `Wrong`, `NoToken` | commands that end before they do anything |
| `Rewrites` | two `init --force`, an `init`, a command that reads, kills between any two system calls |
| `Migrate` | three processes open a database in any state an older binary can have left, kills |
| `Detects` | messages by people and bots, in channel and thread; failing and hanging lookups, missing directories, hooks that answer, a listed bot |
| `Boots` | configurations that the daemon refuses, and one without detection |

Two things the run does not claim, because the code does not do them: two `init` without
`--force` that start at once both find no file, and the later one replaces the token of the
earlier, although overwriting is what `--force` is for (`cli.rs:65`); and the first read of a
channel, without a cursor, returns only its newest messages, so `ReadersMissNothing` starts at
the first message a reader has seen.

**Bounds and why they are enough.** One ask suffices where asks do not interact: every
statement but the sweep and the retention names its row, and `ask_sweep` has two. Two users
separate the allowed from the rest, two interactions race each other, two waiters race each
other and the daemon. One poll (`MaxPolls`) plus the extra one of the code exhausts the
shape of the loop. `InsertLag` 1 admits the second between the two clock readings.
`MaxTime` lets the clock pass every deadline and the retention; beyond it the clock runs
only to pending deadlines, so no deadline is out of reach. `MaxFaults` 2 covers a fault
during the handling of a fault. `MaxOptions` and `MaxSelectOptions` are Discord's 5 and 25
in the code. The theorems below do not depend on any of these. On the board two processes
show every pairwise race; transitions touch one row, and intake and claims, which look at
all rows, have two (`MaxItems` is one more, for the id that a duplicate mints). Three
daemons are needed for the races of the pidfile (a winner, a slow reader, and a third that
is deceived); a kind of mishap may happen to each process. `MaxMishaps` 2 admits any two of
the eight kinds in one behaviour, a fault while another is dealt with. In `discord_bot` one
retry (`MaxRetries`, 3 in the code) shows a retry and its exhaustion, and `MaxSleep` 0 the
delays that are waited for and those that are not. A message holds `MaxBody` 12 characters
instead of 2000: enough for a fence, its info string, its markers and a little text, and
little enough that every boundary is met. `MaxLimit` 3 against pages of one to three messages
and bursts longer than a page. Three processes race each other for configuration and schema,
two hooks show one that is answered by another; a hook beyond that is recorded but does
nothing further. Threads exist in advance, a hook's environment carries no token of its own,
and a changed configuration reaches the daemon by a restart only, as in the code.

**Fairness.** `AskHitl!FairSpec`: time passes; a handler or waiter that can go on does,
because every REST call has a timeout; an expire tick that is ready again and again is
taken (strong fairness), because tokio's `select!` picks at random among ready arms. Nobody
has to click, and the daemon need not come back: `EveryAskIsDecided` assumes that it does,
in the property itself. `Kanban!FairSpec`: a process that can go on does; the busy timeout
is deliberately not relied on. `Pidfile!FairSpec`: daemons and launchers run; no limit has to
expire, so `StartReturns` does not rest on the three seconds, and nobody has to start or stop
anything. `DiscordBot!FairSpec`: weak fairness of `Progress`, any step of a process,
of a client or of the loop. Every behaviour has a bounded amount of work, so one condition
for all is enough; it is justified because every call has a time limit, a poll's sleep ends
and the scheduler runs whatever can run. Nobody has to speak and no mishap has to happen.
Deadlock is checked except in the pidfile runs and in `discord_bot`, where all processes end.

## 4. Proofs

`AskHitlProofs` proves, for any number of asks, users and waiters, any requests and any
bounds: `Invariance` (the inductive invariant `IInv`), and from it `TypeCorrect`,
`AllAgree`, `AnswersWereAskedFor`, `OpenQuestionsStayAnswerable`, `EditQueueIsSound`,
`FailuresAreVisible`, the action properties `NoneTimesOutEarly`, `RetentionRespectsDeadlines`,
`WaitersGiveUpInTime`, and `Refinement`: every step of `AskHitl` is a step of `AskOutcome`
or a stutter.

The argument. `Agreement` alone is not inductive: that what a clicker is told equals what
the row says depends on what the handler holds between its UPDATE and its callback
(`HandlerInv`), that a row once resolved does not change (`TableInv`, `ToldInv`), and that
a deleted row is not inserted again (its creator is done). `NoEarlyTimeout` depends on
`WaitInv`: a waiter that is about to expire an ask read a deadline that had passed, and
deadlines do not move. `PendingCanBeAnswered` depends on `QueueInv` and `EditQueueSound`:
edits are queued only for rows that are closed. `DeletedOnlyPastDeadline` rests on the
assumption `MaxTimeout <= Retention`, which the code meets with 30 days each, and on the
strict comparison, which absorbs the second that may begin between the two clock readings.
`OneFailureIsVisible` has an invariant of its own on top, `VisibleInv`, which counts the
faults that a creation has met by the time it stands where it stands.

Assumptions, named where they are declared and evaluated by TLC in every run: the bounds
are natural numbers, requests are well typed, `None` is none of the values, `MaxTimeout <=
Retention`.

`KanbanProofs` proves, for any number of processes, items, projects and issues and any
command lines: `Invariance` (its `IInv`), and from it `TypeCorrect`, `BoardStaysSound`,
`PlansAreComplete` (`NoOpaqueConflict`), `OnlyDuplicatesAreRefused`, the action properties
`RepliesAreHonest` and `TransitionsNeverBackdate`, and `Refinement`: every step of `Kanban`
is a step of `BoardRules` or a stutter.

The argument. `BoardIsSound` is not inductive alone: a transition plans on the row that its
SELECT found and writes later. `ProcessesHold` says that a process between the two owns the
write lock and that what it read is still there, for an intake that the id it minted is the
next one. The minted id is a count of rows, so it is free only because ids are dense
(`IdsAreDense`). `NothingIsAhead` puts every timestamp at or before the clock; together with
the time of the snapshot it bounds `updated_at`. Given the row that was read, the lemma
`UpdatedIsLawful` shows that whatever a plan lets through is a lawful row with a whole claim
and one move of the lifecycle; the rest of the proof is that each command either writes one
such row and says so (`Writes`) or nothing (`Refuses`). Assumptions: the bounds are natural
numbers, P2 is a priority, command lines are well formed, `None` is none of the values.

`PidfileProofs` proves, for any number of daemons, launchers and stoppers and any mishaps:
`Invariance`, and from it `TypeCorrect`, `StoppedAreGone`, `CleanStartsAreExclusive` and
`NoEntryIsLeft`. None of the three is inductive. `FileInv` ties an entry to its creator: it
holds that process's pid or none, and whoever is recorded has written. With it `StopInv` says
that a stopper acts on a daemon that was up, and those never come back (`DaemonsAdvance`).
`CleanInv` is the argument for mutual exclusion: while nothing but starts has happened nobody
removes a file, so whoever is past the create owns it, its owner lives, and the reader that
waits for its pid gets one. `EntryInv` says that every entry has somebody who will remove it,
its creator or a stopper that waits; SIGTERM can kill a daemon outright only after a stopper
found its pid, and that stopper then cleans up. It holds until a daemon is killed, a
stop gives up or a call on the pidfile fails, the exceptions that `NoEntryIsLeft` names.
Assumption: `None` and `Gone` are no pids.

`StoreSchemaProofs` proves for any set of processes and any number of deaths that whoever has
`discord.db` open works on the latest schema and that no migration collides
(`OpeningIsSound`), from `SchemaInv`: one writer, whose copy starts from what is committed,
and stamps that tell the truth.

`DiscordBotProofs`, `HookProofs`, `SendProofs` and `ReadProofs` are about the composition
`DiscordBot`, for any scenarios, processes, hooks, channels, bodies and faults. They show
first that every step of `DiscordBot` is a step of `StoreSchema` or leaves the store alone
(`BotImplementsStore`, and from it `StoreIsSoundInBot`), then that `BotInv` is invariant, which
gives `BotTypeCorrect`. Its parts:

* `CliInv`: a command that is underway is on the agenda, and there is at most one answer for
  each. A hook's agenda is filled when the loop starts it.
* `ChatInv`: the log only grows (`LogGrows`), threads are threads of its messages.
* `TriggerInv`, `RestTypeOK`: the loop goes through the log and does not look a channel up for a
  message that is not there; retries are counted.
* `ConfigInv`: whatever is on the file, and whatever an `init` is about to write there, has
  the fields of the first configuration. So an empty or a torn file, neither of which parses,
  is all that races and deaths can bring about, and `ConfigurationKept` follows. That `init
  --force` gives up when it reads such a file is what makes this inductive.

`HookInv` is the argument for `HooksDoNotLoop` and `HooksRunInTheirDirectory`: the settings in
memory are those of the configuration, every cached channel has its right parent, the lookup
underway asks for the channel of the message that waits for it, and a hook stands for a
message that passed the filter in its place and lies behind the loop, at most one for each.

`PostInv` is the argument for `PartsGoOutInOrder` and `AnswersToSendAreTrue`. For each process
it says how far its `send` has come: what is posted is exactly the parts that the command has
ids for, and at most the one that is in the call, and that only if the call says so or failed
in a way that the exit code tells of (`IsSendCall`). A request that is left behind is the next
part of a command that is over (`IsStray`), and there is one at most, because a `send` stops at
the first call that fails. Retries keep to this because Discord does not carry out what it
answers with 429. `SplitsArePostedWhole` has a hypothesis, `ChunkerIsRight`: that `split_message`
cuts each body into a split of it. `Split` is a fold over lines, so that this holds of every
body is beyond the provers; scenario `Splits` posts every small body and so checks it body by
body. What the theorem adds is that sending neither loses nor swaps a chunk.

`ReadInv` is the argument for `ReadersFollowTheChannel`. Of a reader it says (`SeenInv`) that
what its answers name is in order and without gaps, and that its cursor is the newest of it.
A page (`IsPage`) holds whatever its channel has between the cursor and the newest message of
the page; without a cursor, between the oldest of the page and the newest. Such a page stays
one while it waits for its reader, although others post meanwhile, because the log only grows:
what comes later lies behind the page. So a page that is taken over goes on exactly where
the reader stood (`PageIsSeen`), and a call that fails, a kill or an empty page leaves the
cursor where it is (`NothingIsSeen`). The channel is the same for every command because no
`init` changes an alias (`ConfigInv`). That a page of `n` messages sorted by id is a sequence
of just these messages needs no induction: in a finite set of numbers every rank from 1 to its
cardinality is taken (`RankSurjective`), since the ranks are distinct and there are as many.

Assumptions, evaluated by TLC in the run: agendas are sequences of commands that speak of the
tokens and bodies in play, scenarios start from no configuration or a sound one
(`ScenarioAssumption`), `None`, `Truncated` and `Torn` are no configurations
(`AbsenceAssumption`, `FileAssumption`), `None` is no cursor (`CursorAssumption`), the gateway is a client but no process and hooks are
processes (`TriggerAssumption`), and the processes are the openers of the store.

Only model-checked: all liveness (it needs ENABLED and fairness), and that the chunker is
right (`ChunkerIsRight`, see above).

## 5. Not modelled, and the plan

Left out on purpose: rendering, CLI parsing, texts, identity strings; how long a rate limit
lasts; `hello` and the install scripts (no state); the classifier that
`docs/kanban-classifier.md` describes (no code). The wall clock never goes back and pids
are not reused. `expire_due` and `cleanup` read the clock and run their statement in one
step. `init` does not fail at a system call of its own (reading the token from stdin, writing,
chmod): the file would be what a kill at that point leaves. The gate of `ask create` ("is a
daemon running") reads `dpc` instead of the pidfile.
The two halves of the daemon, interactions (AskDaemon) and message detection
(MessageTrigger), share no state but the loop they take turns on, and are modelled apart.
`kanban init`, `list` and `show` read or create what is missing; opening the board runs a
script of CREATE TABLE IF NOT EXISTS.

Hazards without a property, and why:

* a `kanban next` that dies between its commit and its output loses the line on stdout, which
  no other command reads (`next.rs:20`);
* two first `kanban init` may both say "created" (`store.rs:157`): a wrong word, not a wrong
  board;
* a long sweep may hold the loop beyond the three seconds in which an interaction must be
  answered (`gateway.rs:88`): the models order events and do not measure them; what such a
  lateness amounts to, an interaction that is lost, is in AskHitl;
* a reused pid (`daemon.rs:415`): it cannot be told from the daemon by anything the code
  looks at.

What could come next: `ChunkerIsRight` for every body, with the folds over lines restated as
recursive functions and the argument by a least counterexample; the two halves of the daemon
on one loop, with a budget of time for it.
