-------------------------------- MODULE Pidfile --------------------------------
(***************************************************************************)
(* Life of the daemon as an operating-system process                       *)
(* (tools/discord/src/commands/daemon.rs): "daemon start --foreground",    *)
(* "daemon start", which spawns one and waits for it, and "daemon stop",   *)
(* any number of them at once.  They meet in one file, which holds the pid *)
(* of the daemon; each system call on it is a step.                        *)
(***************************************************************************)
EXTENDS Naturals, FiniteSets

CONSTANTS Daemon,      \* processes that execute run_foreground, named by their pid
          Launcher,    \* "daemon start" processes
          Stopper,     \* "daemon stop" processes
          None,
          Gone,        \* pid of a process that is no more
          FaultKinds,  \* the mishaps a run injects, leftovers of earlier ones included
          MaxMishaps   \* bound: kinds of mishaps in one behaviour

\* The pidfile: who created it, and the pid in it.
File == [by : Daemon \cup {Gone}, pid : Daemon \cup {Gone, None}]

ASSUME PidAssumption == None \notin Daemon \cup {Gone} \cup File /\ Gone \notin Daemon

VARIABLES pidfile,  \* None, or the file
          run,      \* where each daemon process stands
          start,    \* where each launcher stands
          stop,     \* where each stopper stands
          faults    \* kinds of mishaps so far

vars == <<pidfile, run, start, stop, faults>>

RunState == {"unborn", "create", "write", "settle", "remove", "recreate",
             "open", "up", "release", "unlink", "dead"}
StartType == [pc : {"idle", "spawn", "confirm", "started", "failed"},
              child : Daemon \cup {None}]
StopType == [pc : {"idle", "signal", "waiting", "remove", "stopped", "failed"},
             pid : Daemon \cup {None}]

Kind == {"stale", "empty",          \* what an earlier crash left on disk
         "config", "fatal",          \* a bad configuration, a fatal error later on
         "crash", "stall", "slow",   \* death, a stalled writer, an expired time limit
         "io"}                       \* a system call that fails

\* The file a crash left behind: with the pid of the dead process or, if that died
\* between creating and writing it or could not write it, without.
Leftover(k) == [by |-> Gone, pid |-> IF k = "stale" THEN Gone ELSE None]

Init == /\ \/ pidfile = None /\ faults = {}
           \/ \E k \in FaultKinds \cap {"stale", "empty"} :
                 pidfile = Leftover(k) /\ faults = {k}
        /\ run = [d \in Daemon |-> "unborn"]
        /\ start = [c \in Launcher |-> [pc |-> "idle", child |-> None]]
        /\ stop = [s \in Stopper |-> [pc |-> "idle", pid |-> None]]

TypeOK == /\ pidfile \in File \cup {None}
          /\ run \in [Daemon -> RunState]
          /\ start \in [Launcher -> StartType]
          /\ stop \in [Stopper -> StopType]
          /\ faults \subseteq Kind

Alive(p) == p \in Daemon /\ run[p] \notin {"unborn", "dead"}
\* The file is there, and its creator is about to write its pid.
MidWrite == pidfile # None /\ pidfile.pid = None /\ Alive(pidfile.by)
Recorded == IF pidfile = None THEN None ELSE pidfile.pid

RunTo(d, s) == run' = [run EXCEPT ![d] = s]

Fault(k) == /\ k \in FaultKinds
            /\ Cardinality(faults \cup {k}) <= MaxMishaps
            /\ faults' = faults \cup {k}

-------------------------------------------------------------------------------
(* run_foreground: claim the pidfile, open the store, serve, release.      *)

\* A bad "on_message" in the configuration ends it before anything is claimed.
Configure(d) ==
    /\ run[d] = "unborn"
    /\ \/ RunTo(d, "create") /\ UNCHANGED faults
       \/ RunTo(d, "dead") /\ Fault("config")

Foreground(d) == Configure(d) /\ UNCHANGED <<pidfile, start, stop>>

\* open(O_CREAT | O_EXCL); a loser of the second attempt gives up.
TryCreate(d) ==
    /\ run[d] \in {"create", "recreate"}
    /\ \/ /\ pidfile = None
          /\ pidfile' = [by |-> d, pid |-> None]
          /\ RunTo(d, "write")
       \/ /\ pidfile # None
          /\ RunTo(d, IF run[d] = "create" THEN "settle" ELSE "dead")
          /\ UNCHANGED pidfile
    /\ UNCHANGED <<start, stop, faults>>

\* write(2) goes to the file that was created, whether or not it still has its name.
WritePid(d) ==
    /\ run[d] = "write"
    /\ pidfile' = IF pidfile # None /\ pidfile.by = d THEN [pidfile EXCEPT !.pid = d]
                  ELSE pidfile
    /\ RunTo(d, "open")
    /\ UNCHANGED <<start, stop, faults>>

\* A bug to rule out: an empty file is taken as stale at the first look.
SettleOnce(d) ==
    /\ run[d] = "settle"
    /\ RunTo(d, IF Alive(Recorded) THEN "dead" ELSE "remove")
    /\ UNCHANGED <<pidfile, start, stop, faults>>

\* A bug to rule out: the wait for a pid has no end.
SettleForever(d) ==
    /\ run[d] = "settle"
    /\ pidfile = None \/ Recorded # None
    /\ RunTo(d, IF Alive(Recorded) THEN "dead" ELSE "remove")
    /\ UNCHANGED <<pidfile, start, stop, faults>>

\* read_pid_settling and the liveness probe.  A live creator writes its pid within the
\* 500 ms the reader waits for it, unless it stalls.
Settle(d) ==
    /\ run[d] = "settle"
    /\ \/ /\ Alive(Recorded)
          /\ RunTo(d, "dead")
          /\ UNCHANGED faults
       \/ /\ ~Alive(Recorded)
          /\ RunTo(d, "remove")
          /\ IF MidWrite THEN Fault("stall") ELSE UNCHANGED faults
    /\ UNCHANGED <<pidfile, start, stop>>

\* Whatever the file is by now.
RemoveStale(d) ==
    /\ run[d] = "remove"
    /\ pidfile' = None
    /\ RunTo(d, "recreate")
    /\ UNCHANGED <<start, stop, faults>>

\* A bug to rule out: a database that cannot be opened ends the process right away.
OpenStoreNoRelease(d) ==
    /\ run[d] = "open"
    /\ \/ RunTo(d, "up") /\ UNCHANGED faults
       \/ RunTo(d, "dead") /\ Fault("fatal")
    /\ UNCHANGED <<pidfile, start, stop>>

OpenStore(d) ==
    /\ run[d] = "open"
    /\ \/ RunTo(d, "up") /\ UNCHANGED faults
       \/ RunTo(d, "release") /\ Fault("fatal")
    /\ UNCHANGED <<pidfile, start, stop>>

\* A fatal close of the gateway ends the event loop.
GatewayClose(d) ==
    /\ run[d] = "up"
    /\ Fault("fatal")
    /\ RunTo(d, "release")
    /\ UNCHANGED <<pidfile, start, stop>>

\* release_own_pidfile: look, then remove.
CheckOwn(d) ==
    /\ run[d] = "release"
    /\ RunTo(d, IF Recorded = d THEN "unlink" ELSE "dead")
    /\ UNCHANGED <<pidfile, start, stop, faults>>

Unlink(d) ==
    /\ run[d] = "unlink"
    /\ pidfile' = None
    /\ RunTo(d, "dead")
    /\ UNCHANGED <<start, stop, faults>>

Crash(d) ==
    /\ Alive(d)
    /\ Fault("crash")
    /\ RunTo(d, "dead")
    /\ UNCHANGED <<pidfile, start, stop>>

\* A call on the pidfile fails and the process ends, with the file as it is: created but
\* not written, found stale but not removed, or its own that it could not release.
PidfileFails(d) ==
    /\ run[d] \in {"create", "write", "settle", "remove", "recreate", "release", "unlink"}
    /\ Fault("io")
    /\ RunTo(d, "dead")
    /\ UNCHANGED <<pidfile, start, stop>>

DaemonStep(d) == \/ TryCreate(d) \/ WritePid(d) \/ Settle(d) \/ RemoveStale(d)
                 \/ OpenStore(d) \/ CheckOwn(d) \/ Unlink(d)

-------------------------------------------------------------------------------
(* daemon start: look, spawn, wait until the child is in the pidfile.      *)

\* A launcher has no child, or no longer cares for it.
StartTo(c, s) == start' = [start EXCEPT ![c] = [pc |-> s, child |-> None]]

Launch(c) ==
    /\ start[c].pc = "idle"
    /\ StartTo(c, IF Alive(Recorded) THEN "failed" ELSE "spawn")
    /\ UNCHANGED <<pidfile, run, stop, faults>>

Spawn(c) ==
    /\ start[c].pc = "spawn"
    /\ \E d \in Daemon : /\ Configure(d)
                         /\ start' = [start EXCEPT ![c] = [pc |-> "confirm", child |-> d]]
    /\ UNCHANGED <<pidfile, stop>>

\* A bug to rule out: the child's early exit goes unnoticed.
ConfirmPidOnly(c) ==
    /\ start[c].pc = "confirm"
    /\ Recorded = start[c].child
    /\ StartTo(c, "started")
    /\ UNCHANGED <<pidfile, run, stop, faults>>

\* The look of the loop that finds the child recorded or gone.
Confirm(c) ==
    /\ start[c].pc = "confirm"
    /\ \/ /\ Recorded = start[c].child
          /\ StartTo(c, "started")
       \/ /\ Recorded # start[c].child /\ ~Alive(start[c].child)
          /\ StartTo(c, "failed")
    /\ UNCHANGED <<pidfile, run, stop, faults>>

\* The pidfile cannot be read or no process be spawned, or the last of the loop's three
\* seconds ends it without an answer; a child goes on by itself.
StartFails(c) ==
    /\ \/ start[c].pc \in {"idle", "spawn", "confirm"} /\ Fault("io")
       \/ /\ start[c].pc = "confirm" /\ Recorded # start[c].child /\ Alive(start[c].child)
          /\ Fault("slow")
    /\ StartTo(c, "failed")
    /\ UNCHANGED <<pidfile, run, stop>>

LauncherStep(c) == Launch(c) \/ Spawn(c) \/ Confirm(c)

-------------------------------------------------------------------------------
(* daemon stop: signal the recorded daemon, wait for its end, clean up.    *)

StopTo(s, t) == stop' = [stop EXCEPT ![s].pc = t]

\* A bug to rule out: the recorded process is not probed.
LookUnprobed(s) ==
    /\ stop[s].pc = "idle"
    /\ Recorded # None
    /\ stop' = [stop EXCEPT ![s] = [pc |-> "signal", pid |-> Recorded]]
    /\ UNCHANGED <<pidfile, run, start, faults>>

Look(s) ==
    /\ stop[s].pc = "idle"
    /\ \/ /\ Alive(Recorded)
          /\ stop' = [stop EXCEPT ![s] = [pc |-> "signal", pid |-> Recorded]]
       \/ /\ ~Alive(Recorded)
          /\ StopTo(s, "failed")
    /\ UNCHANGED <<pidfile, run, start, faults>>

\* SIGTERM ends the loop of a daemon that serves; one that has not installed the
\* handler yet dies of it, one that is leaving ignores it.
Signal(s) ==
    LET d == stop[s].pid
    IN /\ stop[s].pc = "signal"
       /\ \/ /\ run[d] = "up"
             /\ RunTo(d, "release")
             /\ StopTo(s, "waiting")
          \/ /\ run[d] \in {"release", "unlink"}
             /\ StopTo(s, "waiting")
             /\ UNCHANGED run
          \/ /\ Alive(d) /\ run[d] \notin {"up", "release", "unlink"}
             /\ RunTo(d, "dead")
             /\ StopTo(s, "waiting")
          \/ /\ ~Alive(d)
             /\ StopTo(s, "failed")
             /\ UNCHANGED run
       /\ UNCHANGED <<pidfile, start, faults>>

\* A bug to rule out: stop does not wait for the end of the daemon.
AwaitNothing(s) ==
    /\ stop[s].pc = "waiting"
    /\ StopTo(s, "remove")
    /\ UNCHANGED <<pidfile, run, start, faults>>

AwaitExit(s) ==
    /\ stop[s].pc = "waiting"
    /\ ~Alive(stop[s].pid)
    /\ StopTo(s, "remove")
    /\ UNCHANGED <<pidfile, run, start, faults>>

\* Whatever the file is by now.
RemoveStopped(s) ==
    /\ stop[s].pc = "remove"
    /\ pidfile' = None
    /\ StopTo(s, "stopped")
    /\ UNCHANGED <<run, start, faults>>

\* The pidfile cannot be read or removed or the signal not be sent, or the ten seconds for
\* the end of the daemon are over; the file is left.
StopFails(s) ==
    /\ \/ stop[s].pc \in {"idle", "signal", "remove"} /\ Fault("io")
       \/ stop[s].pc = "waiting" /\ Alive(stop[s].pid) /\ Fault("slow")
    /\ StopTo(s, "failed")
    /\ UNCHANGED <<pidfile, run, start>>

StopperStep(s) == Look(s) \/ Signal(s) \/ AwaitExit(s) \/ RemoveStopped(s)

-------------------------------------------------------------------------------
Next == \/ \E d \in Daemon : \/ Foreground(d) \/ DaemonStep(d) \/ GatewayClose(d)
                              \/ Crash(d) \/ PidfileFails(d)
        \/ \E c \in Launcher : LauncherStep(c) \/ StartFails(c)
        \/ \E s \in Stopper : StopperStep(s) \/ StopFails(s)

Spec == Init /\ [][Next]_vars

\* A daemon or launcher that can go on does; no call has to fail, no time limit to expire,
\* and nobody has to start or to stop a daemon.
FairSpec == /\ Spec
            /\ \A d \in Daemon : WF_vars(DaemonStep(d))
            /\ \A c \in Launcher : WF_vars(Spawn(c) \/ Confirm(c))

-------------------------------------------------------------------------------
(* Properties.                                                             *)

\* acquire_pidfile is "the single defense against two daemons running at once" (module
\* doc 10-12): no two processes are past it.
OneDaemon ==
    \A d, e \in Daemon : {run[d], run[e]} \subseteq {"open", "up", "release", "unlink"} => d = e

\* No mishaps but of these kinds, and nobody stops a daemon.
StartsAnd(kinds) == faults \subseteq kinds /\ \A s \in Stopper : stop[s].pc = "idle"

\* acquire_pidfile is that defense for any number of concurrent starts that find no
\* leftover and have no daemon to take over from: the loser of the create waits for the
\* winner's pid.
CleanStartsExclude == StartsAnd({"config", "slow"}) => OneDaemon

\* When all is quiet no entry is left behind, whichever way the daemons ended and whoever
\* removed whose entry on the way, unless one was killed, a stop gave up on it, or a call
\* on the pidfile failed: nobody takes back a file whose pid could not be written, or tries
\* a second time to remove one.
EntriesAreCleanedUp ==
    /\ faults \cap {"stale", "empty", "crash", "slow", "io"} = {}
    /\ \A d \in Daemon : run[d] \in {"unborn", "dead"}
    /\ \A s \in Stopper : stop[s].pc \in {"idle", "stopped", "failed"}
    => pidfile = None

\* Of several starts that contend, over whatever a crash or a failed call left on disk, one
\* comes up, unless something befalls it.
SomeoneComesUp ==
    []StartsAnd({"stale", "empty", "config"}) =>
      (\E d \in Daemon : run[d] = "create") ~> (\E d \in Daemon : run[d] = "up")

\* "daemon start" comes back without its three-second limit: the child gets into the
\* pidfile, or its early exit is noticed (confirm_child_started), unless there is a stop,
\* which may remove the entry of the child it never signalled.
StartReturns ==
    []StartsAnd({"config"}) =>
      \A c \in Launcher : start[c].pc = "confirm" ~> start[c].pc \in {"started", "failed"}

\* "stopped" is reported only of a daemon that is gone (run_daemon_stop, wait_for_exit).
StoppedIsGone ==
    \A s \in Stopper : stop[s].pc = "stopped" => ~Alive(stop[s].pid)

\* "daemon start" confirms that the child "actually reached a healthy state before
\* reporting success" (start_background, 106-107): it has opened its store by then.
StartedMeansHealthy ==
    [][\A c \in Launcher : start[c].pc = "confirm" /\ start'[c].pc = "started"
                               => run[start[c].child] \in {"up", "release", "unlink"}]_vars
===============================================================================
