------------------------------- MODULE Messages -------------------------------
(***************************************************************************)
(* The commands that talk to Discord over REST: send, send --split, read,  *)
(* wait and thread create (tools/discord/src/commands), and Discord's side *)
(* of their requests (external).                                           *)
(***************************************************************************)
EXTENDS ConfigFile, RestClient, SplitMessage

CONSTANTS Channel,
          Parent,     \* of a thread, the channel it hangs under, of any other channel None
          Us,         \* this bot, as which all its processes post
          MaxLimit,   \* the largest page of messages
          Content,    \* bodies that are posted
          FaultKinds  \* what may go wrong

ASSUME ChannelAssumption == Parent \in [Channel -> Channel \cup {None}]
ASSUME LimitAssumption == MaxLimit \in Nat \ {0}
ASSUME CursorAssumption == None \notin Nat

VARIABLES log,      \* all messages, in the order of their ids
          threads,  \* messages a thread was made from
          stray,    \* requests to post whose sender has given up
          faults    \* what may go wrong in this behaviour

chatVars == <<log, threads, stray, faults>>

PostOf(e) == [author |-> e.author, ch |-> e.ch, kind |-> e.kind, mention |-> e.mention,
              proc |-> None, job |-> 0, part |-> 0, text |-> None, extras |-> FALSE]

ChatTypeOK ==
    /\ \A i \in 1..Len(log) : log[i].ch \in Channel /\ log[i].kind \in {"user", "system"}
    /\ threads \subseteq 1..Len(log)
    /\ \A req \in stray : req.op = "post"
    /\ faults \subseteq FaultKinds

ChatInit(kinds) == log = <<>> /\ threads = {} /\ stray = {} /\ faults = kinds

-------------------------------------------------------------------------------
(* Discord.                                                                *)

Posted(req) == [author |-> Us, ch |-> req.ch, kind |-> "user", mention |-> req.mention,
                proc |-> req.proc, job |-> req.job, part |-> req.part, text |-> req.text,
                extras |-> req.extras]
Notice(ch) == PostOf([author |-> Us, ch |-> ch, kind |-> "system", mention |-> FALSE])

\* The messages of a channel, by their places in the log.
InChannel(ch) == {i \in 1..Len(log) : log[i].ch = ch}

Oldest(S, n) == {i \in S : Cardinality({j \in S : j < i}) < n}
Newest(S, n) == {i \in S : Cardinality({j \in S : j > i}) < n}

\* The numbers of a set, each once and in order.
Ascending(S) == CHOOSE s \in [1..Cardinality(S) -> S] :
                   \A j, k \in 1..Cardinality(S) : j < k => s[j] < s[k]

\* The page after a message holds the oldest messages behind it, the page after none the
\* newest ones; both come newest first.
Page(ch, after, limit) ==
    Reverse(Ascending(IF after = None THEN Newest(InChannel(ch), limit)
                      ELSE Oldest({i \in InChannel(ch) : i > after}, limit)))

\* What a request does to the log and what its answer carries.
Effect(req) ==
    CASE req.op = "post" -> log' = Append(log, Posted(req)) /\ UNCHANGED threads
      [] req.op = "thread" ->
           /\ log' = Append(log, Notice(req.ch))
           /\ threads' = IF req.from = None THEN threads ELSE threads \cup {req.from}
      [] OTHER -> UNCHANGED <<log, threads>>

Bodies(req) ==
    CASE req.op = "post" -> {Len(log) + 1}
      [] req.op = "page" -> {Page(req.ch, req.after, req.limit)}
      [] req.op = "thread" -> {None}
      [] req.op = "channel" ->
           {[thread |-> Parent[req.ch] # None, parent |-> Parent[req.ch]]}
             \cup (IF "orphan" \in faults THEN {[thread |-> TRUE, parent |-> None]} ELSE {})

\* The channel must be there; a thread is made from a message that is there and has none.
Refused(req) ==
    \/ req.ch \notin Channel
    \/ req.op = "thread" /\ req.from # None /\ req.from \notin (1..Len(log)) \ threads

\* A request is carried out; its answer may be unreadable all the same.
Serve(c) ==
    LET req == call[c].req
    IN /\ call[c].pc = "sent"
       /\ \/ /\ Refused(req)
             /\ Respond(c, [status |-> "other"])
             /\ UNCHANGED <<log, threads>>
          \/ /\ ~Refused(req)
             /\ Effect(req)
             /\ \/ \E body \in Bodies(req) : Respond(c, [status |-> "success", body |-> body])
                \/ "unreadable" \in faults /\ Respond(c, [status |-> "unreadable"])
       /\ UNCHANGED <<stray, faults>>

Refuse(c) ==
    /\ \E r \in Refusal : r.status \in faults \ {"unreadable"} /\ Respond(c, r)
    /\ UNCHANGED chatVars

\* A request that is still on its way when its sender gives up may arrive later.
LeaveBehind(c) == IF call[c].pc = "sent" /\ call[c].req.op = "post" /\ "late" \in faults
                  THEN stray' \in {stray, stray \cup {call[c].req}}
                  ELSE UNCHANGED stray

Lose(c) == /\ "network" \in faults
           /\ Break(c)
           /\ LeaveBehind(c)
           /\ UNCHANGED <<log, threads, faults>>

Arrive(req) == /\ req \in stray
               /\ stray' = stray \ {req}
               /\ log' = IF Refused(req) THEN log ELSE Append(log, Posted(req))
               /\ UNCHANGED <<threads, faults>>

\* Somebody else posts.
Say(e) == /\ \A i \in 1..Len(log) : log[i] # PostOf(e)
          /\ log' = Append(log, PostOf(e))
          /\ UNCHANGED <<threads, stray, faults>>

-------------------------------------------------------------------------------
(* send, send --split.                                                     *)

SplitOf == [content \in Content |-> Split(content)]

\* The messages a body is posted as; None if it cannot be.
Texts(c) == IF c.content = <<>> /\ c.extras = "none" THEN None
            ELSE IF c.split THEN SplitOf[c.content]
            ELSE IF LenOf(c.content) > MaxBody THEN None
            ELSE <<c.content>>

PostRequest(p, texts, ch, part) ==
    [op |-> "post", ch |-> ch, mention |-> Command(p).mention, text |-> texts[part],
     extras |-> Command(p).extras # "none" /\ part = 1,
     proc |-> p, job |-> Len(told[p]) + 1, part |-> part]

\* A command that cannot be carried out ends before its first call.
Reject(p, kind) == Answer(p, kind) /\ UNCHANGED call

StartSend(p) ==
    LET c == Command(p)
        texts == Texts(c)
        ch == Resolve(c.ch, Loaded.fields.aliases)
    IN /\ Starts(p, {"send"})
       /\ \/ ~Authenticated(c) /\ Reject(p, "config")
          \/ Authenticated(c) /\ (c.extras = "bad" \/ texts = None) /\ Reject(p, "usage")
          \/ /\ Authenticated(c) /\ c.extras # "bad" /\ texts # None
             /\ Issue(p, PostRequest(p, texts, ch, 1))
             /\ Goto(p, "calling", [texts |-> texts, ch |-> ch, ids |-> <<>>])

\* A bug to rule out: a part that failed is passed over.
SendOnPastFailure(p) ==
    LET sent == mem[p].ids
    IN /\ pc[p] = "calling" /\ Command(p).op = "send"
       /\ call[p].pc \in {"ok", "failed"}
       /\ IF Len(sent) + 1 < Len(mem[p].texts)
          THEN /\ Issue(p, PostRequest(p, mem[p].texts, mem[p].ch, Len(sent) + 2))
               /\ Goto(p, "calling", [mem[p] EXCEPT !.ids = Append(@, Len(log))])
          ELSE /\ HangUp(p)
               /\ Finish(p, "ok", Append(sent, Len(log)), Cursor(p))

\* One part after the other; the first failure ends it and names what went out.
SendOn(p) ==
    LET sent == IF call[p].pc = "ok" THEN Append(mem[p].ids, call[p].body) ELSE mem[p].ids
        more == Len(sent) < Len(mem[p].texts)
    IN /\ pc[p] = "calling" /\ Command(p).op = "send"
       /\ \/ /\ call[p].pc = "ok" /\ more
             /\ Issue(p, PostRequest(p, mem[p].texts, mem[p].ch, Len(sent) + 1))
             /\ Goto(p, "calling", [mem[p] EXCEPT !.ids = sent])
          \/ /\ call[p].pc = "ok" /\ ~more
             /\ HangUp(p)
             /\ Finish(p, "ok", sent, Cursor(p))
          \/ /\ call[p].pc = "failed"
             /\ HangUp(p)
             /\ Finish(p, call[p].kind, sent, Cursor(p))

-------------------------------------------------------------------------------
(* read, wait.                                                             *)

PageRequest(p, ch) == [op |-> "page", ch |-> ch, after |-> Cursor(p), limit |-> Command(p).limit]

\* ceil(timeout / interval), at least one.
MaxPolls(c) == IF c.op = "read" \/ c.timeout = 0 THEN 1
               ELSE (c.timeout + c.interval - 1) \div c.interval

StartRead(p) ==
    LET c == Command(p)
        valid == c.limit \in 1..MaxLimit /\ (c.op = "wait" => c.interval > 0)
        ch == Resolve(c.ch, Loaded.fields.aliases)
    IN /\ Starts(p, {"read", "wait"})
       /\ \/ ~Authenticated(c) /\ Reject(p, "config")
          \/ Authenticated(c) /\ ~valid /\ Reject(p, "usage")
          \/ /\ Authenticated(c) /\ valid
             /\ Issue(p, PageRequest(p, ch))
             /\ Goto(p, "calling", [ch |-> ch, polls |-> MaxPolls(c)])

SortAscendingById(page) == Ascending(ToSet(page))

\* A bug to rule out: the cursor is taken from the page as it came.
NewestCursorUnsorted(page, after) == IF page = <<>> THEN after ELSE Last(page)

NewestCursor(page, after) == IF page = <<>> THEN after ELSE Last(SortAscendingById(page))

ReadOn(p) ==
    LET body == call[p].body
    IN /\ pc[p] = "calling" /\ Command(p).op \in {"read", "wait"}
       /\ call[p].pc \in {"ok", "failed"}
       /\ HangUp(p)
       /\ \/ call[p].pc = "failed" /\ Answer(p, call[p].kind)
          \/ /\ call[p].pc = "ok" /\ (body # <<>> \/ mem[p].polls = 1)
             /\ Finish(p, "ok", SortAscendingById(body), NewestCursor(body, Cursor(p)))
          \/ /\ call[p].pc = "ok" /\ body = <<>> /\ mem[p].polls > 1
             /\ Goto(p, "sleeping", [mem[p] EXCEPT !.polls = @ - 1])

\* The interval between two polls is over.
PollAgain(p) == /\ pc[p] = "sleeping"
                /\ Issue(p, PageRequest(p, mem[p].ch))
                /\ Goto(p, "calling", mem[p])

-------------------------------------------------------------------------------
(* thread create.                                                          *)

StartThread(p) ==
    LET c == Command(p)
        ch == Resolve(c.ch, Loaded.fields.aliases)
    IN /\ Starts(p, {"thread"})
       /\ \/ ~Authenticated(c) /\ Reject(p, "config")
          \/ Authenticated(c) /\ ~c.named /\ Reject(p, "usage")
          \/ /\ Authenticated(c) /\ c.named
             /\ Issue(p, [op |-> "thread", ch |-> ch, from |-> c.from])
             /\ Goto(p, "calling", None)

ThreadOn(p) ==
    /\ pc[p] = "calling" /\ Command(p).op = "thread"
    /\ call[p].pc \in {"ok", "failed"}
    /\ HangUp(p)
    /\ Answer(p, IF call[p].pc = "ok" THEN "ok" ELSE call[p].kind)

MessageStep(p) == \/ StartSend(p) \/ SendOn(p)
                  \/ StartRead(p) \/ ReadOn(p) \/ PollAgain(p)
                  \/ StartThread(p) \/ ThreadOn(p)
===============================================================================
