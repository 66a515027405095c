------------------------------ MODULE CliProcess ------------------------------
(***************************************************************************)
(* Processes of the discord command line (tools/discord/src/main.rs): each *)
(* carries out an agenda of commands, one after the other, as the shell of *)
(* an agent or of a hook does.  A command ends with an answer: a payload   *)
(* or an error of a kind that decides the exit code.                       *)
(***************************************************************************)
EXTENDS Absent, Naturals, SequencesExt

CONSTANT Proc

IsSequence(s) == s \in Seq(ToSet(s))

VARIABLES agenda,  \* the commands of each process, done and to come
          pc,      \* where its current command stands, "idle" between commands
          mem,     \* what that command remembers across its calls
          told     \* the answers it has got

cliVars == <<agenda, pc, mem, told>>

ErrorKind == {"usage", "config", "auth", "api", "rate_limit", "network", "internal"}

ExitCode(kind) == CASE kind = "ok" -> 0
                    [] kind = "usage" -> 2
                    [] kind \in {"config", "auth"} -> 3
                    [] kind = "api" -> 4
                    [] kind = "rate_limit" -> 5
                    [] kind = "network" -> 6
                    [] kind = "internal" -> 1
                    [] kind = "killed" -> 137

ProcState == {"idle", "calling", "sleeping", "reload", "truncate", "fill", "store"}

CliTypeOK ==
    /\ pc \in [Proc -> ProcState]
    /\ \A p \in Proc :
          /\ pc[p] # "idle" => Len(told[p]) < Len(agenda[p])
          /\ \A n \in 1..Len(told[p]) : told[p][n].kind \in ErrorKind \cup {"ok", "killed"}

CliInit(agendas) == /\ agenda = agendas
                    /\ pc = [p \in Proc |-> "idle"]
                    /\ mem = [p \in Proc |-> None]
                    /\ told = [p \in Proc |-> <<>>]

Command(p) == agenda[p][Len(told[p]) + 1]
Starts(p, ops) == /\ pc[p] = "idle"
                  /\ Len(told[p]) < Len(agenda[p])
                  /\ Command(p).op \in ops

Goto(p, s, m) == /\ pc' = [pc EXCEPT ![p] = s]
                 /\ mem' = [mem EXCEPT ![p] = m]
                 /\ UNCHANGED <<agenda, told>>

\* The newest message a reader knows of: the next command of the agenda goes on from it.
Cursor(p) == IF told[p] = <<>> THEN None ELSE Last(told[p]).cursor

\* The answer to the current command: its kind, the messages it names and the cursor.
Finish(p, kind, ids, cursor) ==
    /\ told' = [told EXCEPT ![p] = Append(@, [kind |-> kind, ids |-> ids, cursor |-> cursor])]
    /\ pc' = [pc EXCEPT ![p] = "idle"]
    /\ mem' = [mem EXCEPT ![p] = None]
    /\ UNCHANGED agenda

Answer(p, kind) == Finish(p, kind, <<>>, Cursor(p))
===============================================================================
