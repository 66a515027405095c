------------------------------ MODULE MCDiscordBot ----------------------------
(***************************************************************************)
(* DiscordBot for TLC: the scenarios of the run.                           *)
(***************************************************************************)
EXTENDS DiscordBot

\* "issues" has a thread, "general" none; "tracker" is an alias.
MCParent == [ch \in Channel |-> IF ch = "thread" THEN "issues" ELSE None]

Fields == [NoFields EXCEPT !.aliases = "tracker" :> "issues",
                           !.on_message = "command",
                           !.issue_channels = {"tracker"},
                           !.workdirs = "issues" :> "app" @@ "idle" :> "docs",
                           !.default_workdir = "docs"]
Configured == [token |-> "t0", fields |-> Fields]

Text(n) == <<Line(n, FALSE, FALSE)>>
Send(ch, content, extras) == [op |-> "send", ch |-> ch, content |-> content, split |-> TRUE,
                              extras |-> extras, mention |-> FALSE, env |-> FALSE]
Plain(content, extras) == [Send("tracker", content, extras) EXCEPT !.split = FALSE]
Wait(limit, timeout, interval) == [op |-> "wait", ch |-> "issues", limit |-> limit,
                                   timeout |-> timeout, interval |-> interval, env |-> TRUE]
Read(limit) == [op |-> "read", ch |-> "tracker", limit |-> limit, env |-> FALSE]
Thread(from, named) == [op |-> "thread", ch |-> "issues", from |-> from, named |-> named,
                        env |-> FALSE]
InitConfig(token, force) == [op |-> "init", token |-> token, force |-> force]
Result == [op |-> "result"]

Reply == [ch \in Channel |-> [Send(ch, Text(1), "none") EXCEPT !.mention = FALSE]]
Idle == [p \in Proc |-> <<>>]
Quiet == [agenda |-> Idle, config |-> Configured, faults |-> {}, daemon |-> FALSE,
          reply |-> Reply, talk |-> {}, old |-> FALSE]
Post(author, ch, mention) == [author |-> author, ch |-> ch, kind |-> "user", mention |-> mention]

\* Bodies of up to three lines, code fences and lines that no message can hold among them.
\* A message has room for a fence with or without a short tag and for that fence reopened; a
\* tag of 3 fills it so that a fence line is cut itself, one of 5 cannot be opened again.
Lines == {Line(n, FALSE, TRUE) : n \in {1, 6, 15}} \cup {Line(n, TRUE, TRUE) : n \in {0, 1, 3, 5}}
Ends == Lines \cup {Line(7, FALSE, FALSE), Line(0, TRUE, FALSE)}
Bodies_ == UNION {{Append(s, end) : s \in [1..n -> Lines], end \in Ends} : n \in 0..2}
Longest == <<Line(15, FALSE, TRUE), Line(7, FALSE, FALSE)>>
Contents == Bodies_ \cup {<<>>, Longest} \cup {Text(n) : n \in {1, 13}}
Splits == {[Quiet EXCEPT !.agenda["p1"] = <<Send("tracker", content, "none")>>] :
             content \in Bodies_}

\* Everything that can go wrong with a call, while another process follows the channel.
RestFaults == {"limited", "auth", "other", "unreadable", "network", "late"}
Faulty == [Quiet EXCEPT
    !.agenda = [Idle EXCEPT !["p1"] = <<Send("tracker", Longest, "files"), Plain(Text(1), "none")>>,
                            !["p2"] = <<Read(2)>>],
    !.faults = RestFaults]

\* A follower with short pages, and others who post in bursts.
Follow == [Quiet EXCEPT
    !.agenda = [Idle EXCEPT !["p1"] = <<Plain(Text(1), "none")>>,
                            !["p2"] = <<Read(2), Wait(1, 3, 2), Read(1)>>],
    !.faults = {"other"},
    !.talk = {Post("ann", "issues", FALSE), Post("ann", "general", TRUE)}]

\* Threads: two processes want one from the same message.
Threads == [Quiet EXCEPT
    !.agenda = [Idle EXCEPT !["p1"] = <<Thread(1, TRUE), Thread(None, TRUE)>>,
                            !["p2"] = <<Thread(1, TRUE), Read(3)>>],
    !.faults = {"unreadable", "kill", "late"},
    !.talk = {Post("ann", "issues", FALSE)}]

\* Commands that end before they do anything.
Wrong == [Quiet EXCEPT
    !.agenda = [Idle EXCEPT
        !["p1"] = <<Send("tracker", <<>>, "none"), Plain(Text(13), "none"),
                    Send("tracker", Text(1), "bad"), Thread(1, FALSE), Read(0), Read(4),
                    Wait(1, 1, 0), InitConfig(None, TRUE)>>,
        !["p2"] = <<Plain(<<>>, "files")>>]]
NoToken == {[Wrong EXCEPT !.config = c] : c \in {None, [Configured EXCEPT !.token = None]}}

\* "init" and everybody else.
Rewrite == [Quiet EXCEPT
    !.agenda = [Idle EXCEPT !["p1"] = <<InitConfig("t1", TRUE)>>,
                            !["p2"] = <<InitConfig("t2", TRUE), InitConfig("t2", FALSE)>>,
                            !["p3"] = <<Plain(Text(1), "none")>>],
    !.faults = {"kill"}]
Rewrites == {Rewrite, [Rewrite EXCEPT !.config = None,
                                      !.agenda["p3"] = <<InitConfig("t3", FALSE), Read(1)>>]}

\* An old database.
Migrate == [Quiet EXCEPT
    !.agenda = [Idle EXCEPT !["p1"] = <<Result>>, !["p2"] = <<Result>>, !["p3"] = <<Result>>],
    !.faults = {"kill"}, !.old = TRUE]

\* Messages for the hook; it answers where it was called.
Talk == {Post("ann", "issues", FALSE), Post("ann", "thread", TRUE), Post("other", "general", TRUE)}
Detect == [Quiet EXCEPT !.daemon = TRUE, !.talk = Talk]
Bots == [Detect EXCEPT !.config.fields.trigger_bots = {"us", "other"}]
Detects == {
    [Detect EXCEPT !.faults = {"limited"}, !.talk = @ \ {Post("other", "general", TRUE)}],
    [Detect EXCEPT !.faults = {"network", "orphan", "spawn", "gap"}],
    [Detect EXCEPT !.faults = {"dirs", "close"}],
    Bots,
    [Bots EXCEPT !.reply["issues"].ch = "thread",
                 !.reply["general"] = [Reply["general"] EXCEPT !.mention = TRUE, !.ch = "issues"]]}

\* Configurations the daemon does not start with, and one with the detection off.
Boots == {[Detect EXCEPT !.config.fields = f, !.faults = {"close"}] : f \in {
    NoFields,
    [Fields EXCEPT !.on_message = "empty"],
    [Fields EXCEPT !.trigger_bots = {"helper"}],
    [Fields EXCEPT !.workdirs = <<>>, !.default_workdir = None],
    [Fields EXCEPT !.workdirs = "issues" :> "app" @@ "tracker" :> "app"],
    [Fields EXCEPT !.default_workdir = "relative"],
    [Fields EXCEPT !.workdirs = "issues" :> "relative"],
    [Fields EXCEPT !.default_workdir = None]}}

MCScenarios == Splits \cup {Faulty, Follow, Threads, Wrong, Migrate} \cup NoToken \cup Rewrites
                 \cup Detects \cup Boots
===============================================================================
