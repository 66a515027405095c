----------------------------- MODULE PidfileProofs -----------------------------
(***************************************************************************)
(* Theorems about Pidfile, for any number of daemons, launchers and        *)
(* stoppers and any mishaps.                                               *)
(***************************************************************************)
EXTENDS Pidfile, TLAPS

\* A daemon has written its pid into the file it created, and may be gone by now.
Written == {"open", "up", "release", "unlink", "dead"}

\* The entry is its creator's: it holds that process's pid or none yet, and a process
\* that has not created a file is nobody's creator.
FileInv ==
    pidfile # None =>
      /\ pidfile.pid \in {None, pidfile.by}
      /\ pidfile.by \in Daemon => run[pidfile.by] \in Written \cup {"write"}
      /\ pidfile.pid \in Daemon => run[pidfile.pid] \in Written

\* A stopper acts on a daemon that it found recorded, and goes on when that is dead.
StopInv ==
    \A s \in Stopper :
      /\ stop[s].pc \in {"signal", "waiting", "remove", "stopped"} =>
           stop[s].pid \in Daemon /\ run[stop[s].pid] \in Written
      /\ stop[s].pc \in {"remove", "stopped"} => run[stop[s].pid] = "dead"

\* Nothing has happened but starts that contend on a clean disk.
NothingButStarts == StartsAnd({"config", "slow"})

\* Then the first file stays: whoever is past the create owns it, its owner is alive, and
\* a reader that waits for its pid gets one.
CleanInv ==
    NothingButStarts =>
      /\ \A d \in Daemon : /\ run[d] \notin {"remove", "recreate", "release", "unlink"}
                           /\ run[d] = "settle" => pidfile # None
                           /\ run[d] \in {"write", "open", "up"} =>
                                pidfile # None /\ pidfile.by = d
                           /\ run[d] \in {"open", "up"} => pidfile.pid = d
      /\ pidfile # None => pidfile.by \in Daemon /\ run[pidfile.by] \in {"write", "open", "up"}

\* An entry has somebody who will remove it: its creator, or a stopper that waits for it.
Attended(d) ==
    \/ run[d] = "write"
    \/ run[d] \in {"open", "up", "release", "unlink"} /\ pidfile.pid = d
    \/ \E s \in Stopper : stop[s].pc \in {"waiting", "remove"} /\ stop[s].pid = d

NothingLost == faults \cap {"stale", "empty", "crash", "slow", "io"} = {}
EntryInv == NothingLost /\ pidfile # None => pidfile.by \in Daemon /\ Attended(pidfile.by)

IInv == TypeOK /\ FileInv /\ StopInv /\ CleanInv /\ EntryInv

-------------------------------------------------------------------------------
\* Every step is one of these.
LEMMA StepCases ==
    ASSUME Next
    PROVE  \/ \E d \in Daemon : \/ Foreground(d) \/ TryCreate(d) \/ WritePid(d) \/ Settle(d)
                                \/ RemoveStale(d) \/ OpenStore(d) \/ CheckOwn(d) \/ Unlink(d)
                                \/ GatewayClose(d) \/ Crash(d) \/ PidfileFails(d)
           \/ \E c \in Launcher : Launch(c) \/ Spawn(c) \/ Confirm(c) \/ StartFails(c)
           \/ \E s \in Stopper : \/ Look(s) \/ Signal(s) \/ AwaitExit(s) \/ RemoveStopped(s)
                                 \/ StopFails(s)
  BY DEF Next, DaemonStep, LauncherStep, StopperStep

LEMMA InitIInv == Init => IInv
  <1> SUFFICES ASSUME Init PROVE IInv
      OBVIOUS
  <1> USE PidAssumption DEF Init, Leftover
  <1>1. TypeOK
    BY DEF TypeOK, File, RunState, StartType, StopType, Kind
  <1>2. FileInv
    BY DEF FileInv
  <1>3. StopInv
    BY DEF StopInv
  <1>4. CleanInv
    BY DEF CleanInv, NothingButStarts, StartsAnd
  <1>5. EntryInv
    BY DEF EntryInv, NothingLost
  <1> QED
    BY <1>1, <1>2, <1>3, <1>4, <1>5 DEF IInv

\* A mishap is of a known kind and is never forgotten.
LEMMA FaultKept ==
    ASSUME NEW k \in Kind, Fault(k), faults \subseteq Kind
    PROVE  faults' \subseteq Kind /\ faults' = faults \cup {k}
  BY DEF Fault

-------------------------------------------------------------------------------
LEMMA TypeStep == TypeOK /\ [Next]_vars => TypeOK'
  <1> SUFFICES ASSUME TypeOK, [Next]_vars PROVE TypeOK'
      OBVIOUS
  <1> USE PidAssumption DEF TypeOK, RunState, Kind
  <1>1. ASSUME NEW d \in Daemon, Foreground(d) PROVE TypeOK'
    BY <1>1, FaultKept DEF Foreground, Configure, RunTo
  <1>2. ASSUME NEW d \in Daemon, TryCreate(d) PROVE TypeOK'
    BY <1>2 DEF TryCreate, RunTo, File
  <1>3. ASSUME NEW d \in Daemon, WritePid(d) PROVE TypeOK'
    BY <1>3 DEF WritePid, RunTo, File
  <1>4. ASSUME NEW d \in Daemon, Settle(d) PROVE TypeOK'
    BY <1>4, FaultKept DEF Settle, RunTo
  <1>5. ASSUME NEW d \in Daemon, RemoveStale(d) \/ CheckOwn(d) \/ Unlink(d) PROVE TypeOK'
    BY <1>5 DEF RemoveStale, CheckOwn, Unlink, RunTo
  <1>6. ASSUME NEW d \in Daemon, OpenStore(d) \/ GatewayClose(d) \/ Crash(d) \/ PidfileFails(d)
        PROVE  TypeOK'
    BY <1>6, FaultKept DEF OpenStore, GatewayClose, Crash, PidfileFails, RunTo
  <1>7. ASSUME NEW c \in Launcher, Launch(c) \/ Confirm(c) \/ StartFails(c) PROVE TypeOK'
    <2>1. start' \in [Launcher -> StartType]
      BY <1>7 DEF Launch, Confirm, StartFails, StartTo, StartType
    <2>2. faults' \subseteq Kind
      BY <1>7, FaultKept DEF Launch, Confirm, StartFails
    <2> QED
      BY <1>7, <2>1, <2>2 DEF Launch, Confirm, StartFails
  <1>8. ASSUME NEW c \in Launcher, Spawn(c) PROVE TypeOK'
    <2>1. PICK d \in Daemon : /\ Configure(d)
                              /\ start' = [start EXCEPT ![c] = [pc |-> "confirm", child |-> d]]
      BY <1>8 DEF Spawn
    <2>2. run' \in [Daemon -> RunState] /\ faults' \subseteq Kind
      BY <2>1, FaultKept DEF Configure, RunTo
    <2>3. start' \in [Launcher -> StartType]
      BY <2>1 DEF StartType
    <2> QED
      BY <1>8, <2>2, <2>3 DEF Spawn
  <1>9. ASSUME NEW s \in Stopper, Look(s) PROVE TypeOK'
    BY <1>9 DEF Look, StopTo, StopType, Alive
  <1>10. ASSUME NEW s \in Stopper, Signal(s) PROVE TypeOK'
    BY <1>10 DEF Signal, StopTo, RunTo, StopType, Alive
  <1>11. ASSUME NEW s \in Stopper, AwaitExit(s) \/ StopFails(s) PROVE TypeOK'
    BY <1>11, FaultKept DEF AwaitExit, StopFails, StopTo, StopType
  <1>12. ASSUME NEW s \in Stopper, RemoveStopped(s) PROVE TypeOK'
    BY <1>12 DEF RemoveStopped, StopTo, StopType
  <1>13. CASE UNCHANGED vars
    BY <1>13 DEF vars
  <1> QED
    BY <1>1, <1>2, <1>3, <1>4, <1>5, <1>6, <1>7, <1>8, <1>9, <1>10, <1>11, <1>12, <1>13,
       StepCases

\* A daemon never comes back from where it is: a created file stays created, a written
\* pid written, and the dead stay dead.
LEMMA DaemonsAdvance ==
    ASSUME TypeOK, StopInv, Next, NEW d \in Daemon
    PROVE  /\ run[d] \in Written => run'[d] \in Written
           /\ run[d] = "write" => run'[d] \in Written \cup {"write"}
           /\ run[d] = "dead" => run'[d] = "dead"
  <1> USE DEF TypeOK, Written
  <1>1. ASSUME NEW e \in Daemon, Foreground(e) \/ TryCreate(e) \/ WritePid(e) \/ Settle(e)
        PROVE  /\ run[d] \in Written => run'[d] \in Written
               /\ run[d] = "write" => run'[d] \in Written \cup {"write"}
               /\ run[d] = "dead" => run'[d] = "dead"
    BY <1>1 DEF Foreground, Configure, TryCreate, WritePid, Settle, RunTo
  <1>2. ASSUME NEW e \in Daemon, \/ RemoveStale(e) \/ OpenStore(e) \/ CheckOwn(e)
                                 \/ Unlink(e) \/ GatewayClose(e) \/ Crash(e)
                                 \/ PidfileFails(e)
        PROVE  /\ run[d] \in Written => run'[d] \in Written
               /\ run[d] = "write" => run'[d] \in Written \cup {"write"}
               /\ run[d] = "dead" => run'[d] = "dead"
    BY <1>2 DEF RemoveStale, OpenStore, CheckOwn, Unlink, GatewayClose, Crash, PidfileFails,
                Alive, RunTo
  <1>3. ASSUME NEW c \in Launcher, Launch(c) \/ Spawn(c) \/ Confirm(c) \/ StartFails(c)
        PROVE  /\ run[d] \in Written => run'[d] \in Written
               /\ run[d] = "write" => run'[d] \in Written \cup {"write"}
               /\ run[d] = "dead" => run'[d] = "dead"
    BY <1>3 DEF Launch, Spawn, Configure, Confirm, StartFails, RunTo
  <1>4. ASSUME NEW s \in Stopper, \/ Look(s) \/ Signal(s) \/ AwaitExit(s) \/ RemoveStopped(s)
                                  \/ StopFails(s)
        PROVE  /\ run[d] \in Written => run'[d] \in Written
               /\ run[d] = "write" => run'[d] \in Written \cup {"write"}
               /\ run[d] = "dead" => run'[d] = "dead"
    BY <1>4 DEF Look, Signal, AwaitExit, RemoveStopped, StopFails, RunTo, Alive
  <1> QED
    BY <1>1, <1>2, <1>3, <1>4, StepCases

-------------------------------------------------------------------------------
LEMMA FileStep == ASSUME TypeOK, FileInv, StopInv, [Next]_vars PROVE FileInv'
  <1> USE PidAssumption DEF TypeOK, FileInv
  <1>1. ASSUME UNCHANGED pidfile PROVE FileInv'
    <2>1. CASE Next
      BY <1>1, <2>1, DaemonsAdvance DEF File, Written
    <2>2. CASE UNCHANGED vars
      BY <2>2 DEF vars
    <2> QED
      BY <2>1, <2>2
  <1>2. ASSUME pidfile' = None PROVE FileInv'
    BY <1>2
  <1>3. ASSUME NEW d \in Daemon, TryCreate(d) PROVE FileInv'
    BY <1>1, <1>3 DEF TryCreate, RunTo
  <1>4. ASSUME NEW d \in Daemon, WritePid(d) PROVE FileInv'
    BY <1>1, <1>4 DEF WritePid, RunTo, File, Written
  <1>5. CASE Next
    <2>1. \/ UNCHANGED pidfile
          \/ pidfile' = None
          \/ \E d \in Daemon : TryCreate(d) \/ WritePid(d)
      BY <1>5, StepCases
         DEF Foreground, Settle, RemoveStale, OpenStore, CheckOwn, Unlink, GatewayClose,
             Crash, PidfileFails, Launch, Spawn, Confirm, StartFails, Look, Signal,
             AwaitExit, RemoveStopped, StopFails
    <2> QED
      BY <2>1, <1>1, <1>2, <1>3, <1>4
  <1>6. CASE UNCHANGED vars
    BY <1>1, <1>6 DEF vars
  <1> QED
    BY <1>5, <1>6

LEMMA StopStep == ASSUME TypeOK, FileInv, StopInv, [Next]_vars PROVE StopInv'
  <1> USE PidAssumption DEF TypeOK, StopInv
  <1>1. ASSUME UNCHANGED stop PROVE StopInv'
    <2>1. CASE Next
      BY <1>1, <2>1, DaemonsAdvance
    <2>2. CASE UNCHANGED vars
      BY <2>2 DEF vars
    <2> QED
      BY <2>1, <2>2
  <1>2. ASSUME NEW s \in Stopper, Look(s) PROVE StopInv'
    BY <1>2 DEF Look, StopTo, StopType, Recorded, Alive, FileInv, File
  <1>3. ASSUME NEW s \in Stopper, Signal(s) PROVE StopInv'
    <2> DEFINE d == stop[s].pid
    <2>1. d \in Daemon /\ run[d] \in Written
      BY <1>3 DEF Signal
    <2>2. \A e \in Daemon : /\ run[e] \in Written => run'[e] \in Written
                            /\ run[e] = "dead" => run'[e] = "dead"
      BY <1>3, <2>1 DEF Signal, RunTo, Written, Alive
    <2>3. stop' = [stop EXCEPT ![s].pc = "waiting"] \/ stop' = [stop EXCEPT ![s].pc = "failed"]
      BY <1>3 DEF Signal, StopTo
    <2>4. ASSUME NEW t \in Stopper
          PROVE  /\ stop'[t].pid = stop[t].pid
                 /\ \/ t = s /\ stop'[t].pc \in {"waiting", "failed"}
                    \/ stop'[t].pc = stop[t].pc
      BY <2>3 DEF StopType
    <2> QED
      BY <2>1, <2>2, <2>4
  <1>4. ASSUME NEW s \in Stopper, AwaitExit(s) \/ StopFails(s) PROVE StopInv'
    BY <1>4 DEF AwaitExit, StopFails, StopTo, StopType, Alive, Written
  <1>5. ASSUME NEW s \in Stopper, RemoveStopped(s) PROVE StopInv'
    BY <1>5 DEF RemoveStopped, StopTo, StopType
  <1>6. CASE Next
    <2>1. \/ UNCHANGED stop
          \/ \E s \in Stopper : \/ Look(s) \/ Signal(s) \/ AwaitExit(s) \/ RemoveStopped(s)
                                \/ StopFails(s)
      BY <1>6, StepCases
         DEF Foreground, TryCreate, WritePid, Settle, RemoveStale, OpenStore, CheckOwn,
             Unlink, GatewayClose, Crash, PidfileFails, Launch, Spawn, Confirm, StartFails
    <2> QED
      BY <2>1, <1>1, <1>2, <1>3, <1>4, <1>5
  <1>7. CASE UNCHANGED vars
    BY <1>1, <1>7 DEF vars
  <1> QED
    BY <1>6, <1>7

-------------------------------------------------------------------------------
\* What has happened stays so: a mishap is not undone, a stopper never idle again.
LEMMA MishapsStay ==
    ASSUME TypeOK, [Next]_vars
    PROVE  /\ faults \subseteq faults'
           /\ NothingButStarts' => NothingButStarts
  <1> USE DEF TypeOK, Fault
  <1>1. faults \subseteq faults'
    BY StepCases
       DEF Foreground, Configure, TryCreate, WritePid, Settle, RemoveStale, OpenStore,
           CheckOwn, Unlink, GatewayClose, Crash, PidfileFails, Launch, Spawn, Confirm,
           StartFails, Look, Signal, AwaitExit, RemoveStopped, StopFails, vars
  <1>2. ASSUME NEW s \in Stopper, stop'[s].pc = "idle" PROVE stop[s].pc = "idle"
    <2>1. CASE UNCHANGED stop
      BY <1>2, <2>1
    <2>2. ASSUME NEW t \in Stopper, Look(t) PROVE stop[s].pc = "idle"
      BY <1>2, <2>2 DEF Look, StopTo, StopType
    <2>3. ASSUME NEW t \in Stopper,
                 Signal(t) \/ AwaitExit(t) \/ RemoveStopped(t) \/ StopFails(t)
          PROVE  stop[s].pc = "idle"
      BY <1>2, <2>3 DEF Signal, AwaitExit, RemoveStopped, StopFails, StopTo, StopType
    <2>4. \/ UNCHANGED stop
          \/ \E t \in Stopper : \/ Look(t) \/ Signal(t) \/ AwaitExit(t) \/ RemoveStopped(t)
                                \/ StopFails(t)
      BY StepCases
         DEF Foreground, TryCreate, WritePid, Settle, RemoveStale, OpenStore, CheckOwn,
             Unlink, GatewayClose, Crash, PidfileFails, Launch, Spawn, Confirm, StartFails, vars
    <2> QED
      BY <2>1, <2>2, <2>3, <2>4
  <1> QED
    BY <1>1, <1>2 DEF NothingButStarts, StartsAnd

LEMMA CleanStep == ASSUME TypeOK, FileInv, StopInv, CleanInv, [Next]_vars PROVE CleanInv'
  <1> SUFFICES ASSUME NothingButStarts' PROVE CleanInv'
      BY DEF CleanInv
  <1>1. NothingButStarts
    BY MishapsStay
  <1> USE PidAssumption DEF TypeOK, CleanInv
  <1>2. ASSUME NEW d \in Daemon, Foreground(d) PROVE CleanInv'
    BY <1>1, <1>2 DEF Foreground, Configure, RunTo
  <1>3. ASSUME NEW d \in Daemon, TryCreate(d) PROVE CleanInv'
    <2>1. CASE pidfile = None
      <3>1. pidfile' = [by |-> d, pid |-> None] /\ run' = [run EXCEPT ![d] = "write"]
        BY <1>3, <2>1 DEF TryCreate, RunTo
      <3>2. \A e \in Daemon : run[e] \notin {"write", "open", "up", "settle",
                                             "remove", "recreate", "release", "unlink"}
        BY <1>1, <2>1
      <3>3. pidfile' # None
        BY <3>1 DEF File
      <3> QED
        BY <3>1, <3>2, <3>3
    <2>2. CASE pidfile # None
      <3>1. UNCHANGED pidfile /\ run[d] = "create" /\ run' = [run EXCEPT ![d] = "settle"]
        BY <1>1, <1>3, <2>2 DEF TryCreate, RunTo
      <3> QED
        BY <1>1, <2>2, <3>1
    <2> QED
      BY <2>1, <2>2
  <1>4. ASSUME NEW d \in Daemon, WritePid(d) PROVE CleanInv'
    <2>1. run[d] = "write" /\ pidfile # None /\ pidfile.by = d
      BY <1>1, <1>4 DEF WritePid
    <2>2. pidfile' = [pidfile EXCEPT !.pid = d] /\ run' = [run EXCEPT ![d] = "open"]
      BY <1>4, <2>1 DEF WritePid, RunTo
    <2>3. pidfile' \in File /\ pidfile'.by = d /\ pidfile'.pid = d
      BY <2>1, <2>2 DEF File
    <2>4. \A e \in Daemon : e # d => run[e] \notin {"write", "open", "up"}
      BY <1>1, <2>1
    <2> QED
      BY <1>1, <2>2, <2>3, <2>4
  \* The owner is alive; a reader that saw no pid in its file in time met a stalled one.
  <1>5. ASSUME NEW d \in Daemon, Settle(d) PROVE CleanInv'
    <2>1. pidfile # None /\ pidfile.by \in Daemon /\ Alive(pidfile.by)
      BY <1>1, <1>5 DEF Settle, Alive
    <2>2. pidfile.pid = None => MidWrite
      BY <2>1 DEF MidWrite
    <2>3. ~(MidWrite /\ Fault("stall"))
      BY DEF NothingButStarts, StartsAnd, Fault
    <2>4. Alive(Recorded)
      BY <1>5, <2>1, <2>2, <2>3 DEF Settle, FileInv, Recorded
    <2>5. UNCHANGED pidfile /\ run' = [run EXCEPT ![d] = "dead"]
      BY <1>5, <2>4 DEF Settle, RunTo
    <2> QED
      BY <1>1, <1>5, <2>5 DEF Settle
  <1>6. ASSUME NEW d \in Daemon, RemoveStale(d) \/ CheckOwn(d) \/ Unlink(d) PROVE CleanInv'
    BY <1>1, <1>6 DEF RemoveStale, CheckOwn, Unlink
  <1>7. ASSUME NEW d \in Daemon, OpenStore(d) \/ GatewayClose(d) \/ Crash(d) \/ PidfileFails(d)
        PROVE  CleanInv'
    BY <1>1, <1>7 DEF OpenStore, GatewayClose, Crash, PidfileFails, Fault, NothingButStarts,
                      StartsAnd, RunTo
  <1>8. ASSUME NEW c \in Launcher, Launch(c) \/ Confirm(c) \/ StartFails(c) PROVE CleanInv'
    BY <1>1, <1>8 DEF Launch, Confirm, StartFails
  <1>9. ASSUME NEW c \in Launcher, Spawn(c) PROVE CleanInv'
    BY <1>1, <1>9 DEF Spawn, Configure, RunTo
  \* A stopper that is used is no longer idle.
  <1>10. ASSUME NEW s \in Stopper, \/ Look(s) \/ Signal(s) \/ AwaitExit(s) \/ RemoveStopped(s)
                                   \/ StopFails(s)
         PROVE  CleanInv'
    <2>1. stop[s].pc = "idle" /\ stop'[s].pc = "idle"
      BY <1>1 DEF NothingButStarts, StartsAnd
    <2>2. ~Look(s) /\ ~StopFails(s)
      BY <2>1 DEF Look, StopFails, StopTo, StopType
    <2> QED
      BY <1>10, <2>1, <2>2 DEF Signal, AwaitExit, RemoveStopped
  <1>11. CASE UNCHANGED vars
    BY <1>1, <1>11 DEF vars
  <1> QED
    BY <1>2, <1>3, <1>4, <1>5, <1>6, <1>7, <1>8, <1>9, <1>10, <1>11, StepCases

-------------------------------------------------------------------------------
\* Who attends to an entry goes on doing so as long as it is there.
LEMMA EntryStep == ASSUME TypeOK, FileInv, StopInv, EntryInv, [Next]_vars PROVE EntryInv'
  <1> SUFFICES ASSUME NothingLost', pidfile' # None
               PROVE  (pidfile.by \in Daemon /\ Attended(pidfile.by))'
      BY DEF EntryInv
  <1> DEFINE Goal == (pidfile.by \in Daemon /\ Attended(pidfile.by))'
  <1>1. NothingLost
    BY MishapsStay DEF NothingLost
  <1>2. pidfile # None => pidfile.by \in Daemon /\ Attended(pidfile.by)
    BY <1>1 DEF EntryInv
  <1> USE PidAssumption DEF TypeOK, Attended
  <1>3. ASSUME NEW d \in Daemon, TryCreate(d) PROVE Goal
    BY <1>2, <1>3 DEF TryCreate, RunTo, FileInv, Written
  <1>4. ASSUME NEW d \in Daemon, WritePid(d) PROVE Goal
    BY <1>2, <1>4 DEF WritePid, RunTo, File
  <1>5. ASSUME NEW d \in Daemon, Foreground(d) \/ Settle(d) PROVE Goal
    BY <1>2, <1>5 DEF Foreground, Configure, Settle, RunTo, FileInv, Written
  <1>6. ASSUME NEW d \in Daemon, RemoveStale(d) \/ Unlink(d) PROVE Goal
    BY <1>6 DEF RemoveStale, Unlink
  <1>7. ASSUME NEW d \in Daemon, CheckOwn(d) PROVE Goal
    BY <1>2, <1>7 DEF CheckOwn, RunTo, Recorded
  <1>8. ASSUME NEW d \in Daemon, OpenStore(d) \/ GatewayClose(d) PROVE Goal
    BY <1>2, <1>8 DEF OpenStore, GatewayClose, RunTo
  \* A process that dies of a failed call or is killed leaves its entry behind.
  <1>9. ASSUME NEW d \in Daemon, Crash(d) \/ PidfileFails(d) PROVE Goal
    BY <1>9 DEF Crash, PidfileFails, Fault, NothingLost
  <1>10. ASSUME NEW c \in Launcher, Launch(c) \/ Confirm(c) \/ StartFails(c) PROVE Goal
    BY <1>2, <1>10 DEF Launch, Confirm, StartFails
  <1>11. ASSUME NEW c \in Launcher, Spawn(c) PROVE Goal
    BY <1>2, <1>11 DEF Spawn, Configure, RunTo, FileInv, Written
  <1>12. ASSUME NEW s \in Stopper, Look(s) PROVE Goal
    <2>1. UNCHANGED <<pidfile, run>>
      BY <1>12 DEF Look
    <2>2. \A t \in Stopper : stop[t].pc \in {"waiting", "remove"} => stop'[t] = stop[t]
      BY <1>12 DEF Look, StopTo
    <2> QED
      BY <1>2, <2>1, <2>2
  \* SIGTERM finds a daemon that has written its pid: what it kills, this stopper waits for.
  <1>13. ASSUME NEW s \in Stopper, Signal(s) PROVE Goal
    <2> DEFINE d == stop[s].pid
    <2>1. d \in Daemon /\ run[d] \in Written
      BY <1>13 DEF Signal, StopInv
    <2>2. UNCHANGED pidfile
      BY <1>13 DEF Signal
    <2>3. \A t \in Stopper : stop[t].pc \in {"waiting", "remove"} => stop'[t] = stop[t]
      BY <1>13 DEF Signal, StopTo
    <2>4. CASE run[d] = "up"
      BY <1>2, <1>13, <2>1, <2>2, <2>3, <2>4 DEF Signal, RunTo, Alive
    <2>5. CASE run[d] \in {"release", "unlink", "dead"}
      BY <1>2, <1>13, <2>1, <2>2, <2>3, <2>5 DEF Signal, RunTo, Alive
    <2>6. CASE run[d] = "open"
      <3>1. stop'[s].pc = "waiting" /\ stop'[s].pid = d
        BY <1>13, <2>1, <2>6 DEF Signal, StopTo, StopType, Alive
      <3>2. run' = [run EXCEPT ![d] = "dead"]
        BY <1>13, <2>1, <2>6 DEF Signal, RunTo, Alive
      <3>3. CASE pidfile.by = d
        BY <2>1, <2>2, <3>1, <3>3
      <3>4. CASE pidfile.by # d
        BY <1>2, <2>1, <2>2, <2>3, <3>2, <3>4
      <3> QED
        BY <3>3, <3>4
    <2> QED
      BY <2>1, <2>4, <2>5, <2>6 DEF Written
  <1>14. ASSUME NEW s \in Stopper, AwaitExit(s) PROVE Goal
    <2>1. UNCHANGED <<pidfile, run>>
      BY <1>14 DEF AwaitExit
    <2>2. stop' = [stop EXCEPT ![s].pc = "remove"]
      BY <1>14 DEF AwaitExit, StopTo, Fault, NothingLost
    <2>3. \A t \in Stopper : stop[t].pc \in {"waiting", "remove"}
                               => /\ stop'[t].pc \in {"waiting", "remove"}
                                  /\ stop'[t].pid = stop[t].pid
      BY <2>2 DEF StopType
    <2> QED
      BY <1>2, <2>1, <2>3
  <1>15. ASSUME NEW s \in Stopper, RemoveStopped(s) \/ StopFails(s) PROVE Goal
    BY <1>15 DEF RemoveStopped, StopFails, Fault, NothingLost
  <1>16. CASE UNCHANGED vars
    BY <1>2, <1>16 DEF vars
  <1> QED
    BY <1>3, <1>4, <1>5, <1>6, <1>7, <1>8, <1>9, <1>10, <1>11, <1>12, <1>13, <1>14, <1>15,
       <1>16, StepCases

-------------------------------------------------------------------------------
\* The inductive invariant holds in every reachable state.
THEOREM Invariance == Spec => []IInv
  <1>1. IInv /\ [Next]_vars => IInv'
    BY TypeStep, FileStep, StopStep, CleanStep, EntryStep DEF IInv
  <1> QED
    BY InitIInv, <1>1, PTL DEF Spec

\* Type correctness: every process is where the code can be, every entry well formed.
THEOREM TypeCorrect == Spec => []TypeOK
  <1>1. IInv => TypeOK
    BY DEF IInv
  <1> QED
    BY Invariance, <1>1, PTL

\* "daemon stop" reports success only of a daemon that is gone, whatever else is started,
\* stopped, killed or removed meanwhile (run_daemon_stop, wait_for_exit).
THEOREM StoppedAreGone == Spec => []StoppedIsGone
  <1>1. IInv => StoppedIsGone
    BY DEF IInv, StopInv, StoppedIsGone, Alive
  <1> QED
    BY Invariance, <1>1, PTL

\* Any number of concurrent starts on a clean disk bring up at most one daemon
\* (acquire_pidfile, read_pid_settling).
THEOREM CleanStartsAreExclusive == Spec => []CleanStartsExclude
  <1>1. IInv => CleanStartsExclude
    BY DEF IInv, CleanInv, NothingButStarts, StartsAnd, CleanStartsExclude, OneDaemon
  <1> QED
    BY Invariance, <1>1, PTL

\* When every process has come to rest no entry is left, unless one was killed outright, a
\* stop gave up on it, or a call on the pidfile failed (release_own_pidfile,
\* run_daemon_stop; acquire_pidfile does not take back a file it could not write).
THEOREM NoEntryIsLeft == Spec => []EntriesAreCleanedUp
  <1>1. IInv => EntriesAreCleanedUp
    BY DEF IInv, EntryInv, NothingLost, Attended, EntriesAreCleanedUp
  <1> QED
    BY Invariance, <1>1, PTL
===============================================================================
