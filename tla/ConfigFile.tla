------------------------------ MODULE ConfigFile ------------------------------
(***************************************************************************)
(* config.json (tools/discord/src/common/config.rs): every command but     *)
(* "init" reads it, "init" (commands/init.rs) writes it in place, which    *)
(* takes two system calls, while others read or write it as well.          *)
(***************************************************************************)
EXTENDS CliProcess

CONSTANTS Truncated,  \* the file between the two system calls of a write: empty
          Torn,       \* two texts of different length written over each other
          Token       \* bot tokens

ASSUME FileAssumption == None \notin {Truncated, Torn}

VARIABLE config  \* None without a file, Truncated, Torn, or what it says

\* What it may say beside the token.
NoFields == [aliases |-> <<>>, on_message |-> None, issue_channels |-> {},
             trigger_bots |-> {}, workdirs |-> <<>>, default_workdir |-> None]
Default == [token |-> None, fields |-> NoFields]
ConfigOf(fields) == [token : Token \cup {None}, fields : fields]

Parses == config \notin {Truncated, Torn}
\* load_config(..).unwrap_or_default(), where it succeeds.
Loaded == IF Parses /\ config # None THEN config ELSE Default

\* The token: flag or environment (the command's "env") goes before the file.
Authenticated(c) == Parses /\ (c.env \/ Loaded.token # None)

\* An alias stands for its channel, anything else for itself.
Resolve(name, aliases) == IF name \in DOMAIN aliases THEN aliases[name] ELSE name

CheckExists(p) ==
    /\ Starts(p, {"init"})
    /\ \/ Command(p).token = None /\ Answer(p, "usage")
       \/ /\ Command(p).token # None /\ config # None
          /\ IF Command(p).force THEN Goto(p, "reload", None) ELSE Answer(p, "usage")
       \/ /\ Command(p).token # None /\ config = None
          /\ Goto(p, "truncate", [Default EXCEPT !.token = Command(p).token])
    /\ UNCHANGED config

\* A bug to rule out: a file that does not parse counts as one that says nothing.
ReloadLenient(p) ==
    /\ pc[p] = "reload"
    /\ Goto(p, "truncate", [(IF Parses THEN Loaded ELSE Default)
                              EXCEPT !.token = Command(p).token])
    /\ UNCHANGED config

\* --force keeps every field but the token.
Reload(p) ==
    /\ pc[p] = "reload"
    /\ \/ ~Parses /\ Answer(p, "config")
       \/ Parses /\ Goto(p, "truncate", [Loaded EXCEPT !.token = Command(p).token])
    /\ UNCHANGED config

\* std::fs::write opens the file with O_TRUNC, then writes.
Truncate(p) ==
    /\ pc[p] = "truncate"
    /\ config' = Truncated
    /\ Goto(p, "fill", mem[p])

\* Over a text that another writer has written meanwhile, the rest of a longer one stays.
Fill(p) ==
    /\ pc[p] = "fill"
    /\ config' \in {mem[p]} \cup (IF config = Truncated THEN {} ELSE {Torn})
    /\ Answer(p, "ok")

InitStep(p) == CheckExists(p) \/ Reload(p) \/ Truncate(p) \/ Fill(p)
===============================================================================
