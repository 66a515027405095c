-------------------------------- MODULE SendProofs ----------------------------
(***************************************************************************)
(* Theorems about what "send" posts and what it reports, for DiscordBot:   *)
(* an invariant of each process, of what it has posted and of the requests *)
(* it has left behind, kept by every step.                                 *)
(***************************************************************************)
EXTENDS DiscordBotProofs

-------------------------------------------------------------------------------
(* The invariant, process by process.                                      *)

Sending(p) == pc[p] = "calling" /\ Command(p).op = "send"
Job(p) == Len(told[p]) + 1
Part(p) == Len(mem[p].ids) + 1

\* Requests to post a part, and what becomes of them, carry the same fields.
IsPart(r, p, n, k) == /\ r.proc = p /\ r.job = n /\ r.part = k
                      /\ r.extras <=> (agenda[p][n].extras # "none" /\ k = 1)
                      /\ r.text = Texts(agenda[p][n])[k]

UpTo(p, n, k) == \A i \in Posts(p, n) : log[i].part <= k
Has(p, n, k) == \A j \in 1..k : \E i \in Posts(p, n) : log[i].part = j
IsPost(i, p, n, k) == i \in Posts(p, n) /\ log[i].part = k
Named(p, n, ids) == IsSequence(ids) /\ \A k \in 1..Len(ids) : IsPost(ids[k], p, n, k)

\* The posts of one command, as PartsInOrder has them.
Ordered(p, n) ==
    \A i \in Posts(p, n) :
       /\ log[i].part \in Nat \ {0} /\ IsPart(log[i], p, n, log[i].part)
       /\ \A k \in 1..log[i].part - 1 : \E j \in Posts(p, n) : j < i /\ log[j].part = k
       /\ \A j \in Posts(p, n) : log[j].part = log[i].part => j = i

\* The call has not posted its part, and will not without another attempt.
Unposted(c) == \/ c.pc \in {"sent", "backoff"}
               \/ c.pc = "answered" /\ c.response.status \notin {"success", "unreadable"}
               \/ c.pc = "failed" /\ c.kind \notin {"api", "network"}

\* Where a call of "send" stands: its part is the next one, and at most that one is posted
\* beyond those it knows of.
IsSendCall(c, p) ==
    /\ c.pc \in {"sent", "backoff", "answered"} => c.req.op = "post" /\ IsPart(c.req, p, Job(p), Part(p))
    /\ Unposted(c) => UpTo(p, Job(p), Part(p) - 1)
    /\ c.pc = "answered" /\ c.response.status = "success"
         => IsPost(c.response.body, p, Job(p), Part(p))
    /\ c.pc = "ok" => IsPost(c.body, p, Job(p), Part(p))
    /\ (\E r \in stray : r.proc = p /\ r.job = Job(p)) => c.pc = "failed" /\ c.kind = "network"

\* What a chunker must do: a body that can be cut is cut into chunks that are a split of it.
\* It is said of "split_message" alone, and TLC shows it body by body.
ChunkerIsRight ==
    \A content \in Content :
       LET chunks == SplitOf[content]
       IN chunks # None => IsSequence(chunks) /\ Len(chunks) > 0 /\ IsSplitOf(content, chunks)

SendInv(p) ==
    Sending(p) => /\ DOMAIN mem[p] = {"texts", "ch", "ids"}
                  /\ mem[p].texts = Texts(Command(p)) /\ Texts(Command(p)) # None
                  /\ ChunkerIsRight => Len(Texts(Command(p))) \in Nat /\ Part(p) <= Len(Texts(Command(p)))
                  /\ Named(p, Job(p), mem[p].ids)
                  /\ UpTo(p, Job(p), Part(p))
                  /\ IsSendCall(call[p], p)

\* A request that may still arrive is the next part of a command that counts as failed or dead.
IsLate(r, p) == /\ r.job \in Nat /\ r.part \in Nat \ {0} /\ IsPart(r, p, r.job, r.part)
                /\ Has(p, r.job, r.part - 1) /\ UpTo(p, r.job, r.part - 1)
                /\ \A s \in stray : s.proc = p /\ s.job = r.job => s = r

Excuses(a, r) == a.kind = "killed" \/ (a.kind = "network" /\ r.part = Len(a.ids) + 1)

IsStray(r, p) ==
    /\ IsLate(r, p)
    /\ \/ r.job \in 1..Len(told[p]) /\ Excuses(told[p][r.job], r)
       \/ r.job = Job(p) /\ Sending(p) /\ r.part = Part(p)

IsWholeBody(a, c) == /\ Texts(c) # None
                     /\ ChunkerIsRight => Len(a.ids) = Len(Texts(c))

\* What an answer of "send" says of the posts of its command.
IsReport(a, p, n) ==
    agenda[p][n].op = "send" /\ a.kind # "killed" =>
      /\ Named(p, n, a.ids)
      /\ \A i \in Posts(p, n) : \/ log[i].part <= Len(a.ids)
                                \/ log[i].part = Len(a.ids) + 1 /\ a.kind \in {"api", "network"}
      /\ a.kind = "ok" => IsWholeBody(a, agenda[p][n])

ProcInv(p) ==
    /\ InCall(p) /\ call[p].req.op = "post" => Sending(p)
    /\ pc[p] \notin {"idle", "calling"} => Command(p).op # "send"
    /\ \A i \in 1..Len(log) : log[i].proc = p =>
          log[i].job \in 1..Len(told[p]) \/ (log[i].job = Job(p) /\ Sending(p))
    /\ \A n \in 1..Len(agenda[p]) : Ordered(p, n)
    /\ SendInv(p)
    /\ \A r \in stray : r.proc = p => IsStray(r, p)
    /\ \A n \in 1..Len(told[p]) : IsReport(told[p][n], p, n)

\* Nobody but a process posts.
SendersInv == /\ \A c \in Client \ Proc : InCall(c) => call[c].req.op # "post"
              /\ \A r \in stray : r.proc \in Proc

PostInv == SendersInv /\ \A p \in Proc : ProcInv(p)

-------------------------------------------------------------------------------
(* The posts of a growing log.                                             *)

LEMMA PostsGrow ==
    ASSUME LogGrows
    PROVE  \A p, n : \A i \in Posts(p, n) : i \in Posts(p, n)' /\ log'[i] = log[i]
BY DEF LogGrows, Posts

LEMMA OneMorePost ==
    ASSUME LogGrows, NEW e, Len(log') = Len(log) + 1, log'[Len(log) + 1] = e
    PROVE  \A p, n : Posts(p, n)' = IF e.proc = p /\ e.job = n THEN Posts(p, n) \cup {Len(log) + 1}
                                    ELSE Posts(p, n)
<1> TAKE p, n
<1>1. \A i \in 1..Len(log') : i \in 1..Len(log) \/ i = Len(log) + 1
  BY DEF LogGrows
<1>2. Len(log) + 1 \in 1..Len(log') /\ Len(log) + 1 \notin 1..Len(log)
  BY DEF LogGrows
<1>3. \A i \in 1..Len(log) : i \in 1..Len(log') /\ log'[i] = log[i]
  BY DEF LogGrows
<1>4. \A i : i \in Posts(p, n)' <=>
             i \in Posts(p, n) \/ (i = Len(log) + 1 /\ e.proc = p /\ e.job = n)
  BY <1>1, <1>2, <1>3 DEF Posts
<1>5. QED  BY <1>4

\* What has been posted stays as it was.
LEMMA GrowthKeeps ==
    ASSUME LogGrows, NEW p, NEW n
    PROVE  /\ \A i, k : IsPost(i, p, n, k) => IsPost(i, p, n, k)'
           /\ \A ids : Named(p, n, ids) => Named(p, n, ids)'
           /\ \A k : Has(p, n, k) => Has(p, n, k)'
<1>1. \A i, k : IsPost(i, p, n, k) => IsPost(i, p, n, k)'
  BY PostsGrow DEF IsPost
<1>2. \A ids : Named(p, n, ids) => Named(p, n, ids)'
  BY <1>1 DEF Named
<1>3. \A k : Has(p, n, k) => Has(p, n, k)'
  BY PostsGrow DEF Has
<1>4. QED  BY <1>1, <1>2, <1>3

\* The parts that are named are there.
LEMMA NamedHas ==
    ASSUME NEW p, NEW n, NEW ids, Named(p, n, ids)
    PROVE  Has(p, n, Len(ids))
BY DEF Named, Has, IsPost

\* The next part of a command, posted after all before it.
LEMMA NextPart ==
    ASSUME LogGrows, NEW e, Len(log') = Len(log) + 1, log'[Len(log) + 1] = e,
           NEW p, NEW n, NEW k \in Nat \ {0},
           agenda'[p] = agenda[p], IsPart(e, p, n, k),
           Ordered(p, n), Has(p, n, k - 1), UpTo(p, n, k - 1)
    PROVE  /\ Ordered(p, n)' /\ UpTo(p, n, k)'
           /\ \A i : i = Len(log) + 1 => IsPost(i, p, n, k)'
<1>1. Posts(p, n)' = Posts(p, n) \cup {Len(log) + 1}
  BY OneMorePost DEF IsPart
<1>2. \A i \in Posts(p, n) : i \in Nat /\ i < Len(log) + 1 /\ log'[i] = log[i]
  BY DEF Posts, LogGrows
<1>3. e.part = k /\ Len(log) \in Nat
  BY DEF IsPart, LogGrows
<1>4. \A i \in Posts(p, n) : log[i].part \in Nat /\ log[i].part <= k - 1
  BY DEF Ordered, UpTo
<1>5. UpTo(p, n, k)'
  BY <1>1, <1>2, <1>3, <1>4 DEF UpTo
<1>6. ASSUME NEW i \in Posts(p, n)'
      PROVE  /\ log'[i].part \in Nat \ {0} /\ IsPart(log[i], p, n, log[i].part)'
             /\ \A j \in 1..log'[i].part - 1 :
                   \E h \in Posts(p, n)' : h < i /\ log'[h].part = j
             /\ \A j \in Posts(p, n)' : log'[j].part = log'[i].part => j = i
  <2>1. CASE i \in Posts(p, n)
    <3>1. log'[i] = log[i] /\ log[i].part \in Nat \ {0} /\ log[i].part <= k - 1
      BY <1>2, <1>4, <2>1 DEF Ordered
    <3>2. IsPart(log[i], p, n, log[i].part)'
      BY <2>1, <3>1 DEF Ordered, IsPart
    <3>3. \A j \in 1..log[i].part - 1 : \E h \in Posts(p, n)' : h < i /\ log'[h].part = j
      BY <1>1, <1>2, <2>1 DEF Ordered
    <3>4. \A j \in Posts(p, n)' : log'[j].part = log'[i].part => j = i
      BY <1>1, <1>2, <1>3, <2>1, <3>1 DEF Ordered
    <3>5. QED  BY <3>1, <3>2, <3>3, <3>4
  <2>2. CASE i = Len(log) + 1
    <3>1. log'[i] = e /\ IsPart(log[i], p, n, log[i].part)'
      BY <1>3, <2>2 DEF IsPart
    <3>2. \A j \in 1..k - 1 : \E h \in Posts(p, n)' : h < i /\ log'[h].part = j
      BY <1>1, <1>2, <2>2 DEF Has
    <3>3. \A j \in Posts(p, n)' : log'[j].part = k => j = i
      BY <1>1, <1>2, <1>4, <2>2
    <3>4. QED  BY <1>3, <3>1, <3>2, <3>3
  <2>3. QED  BY <1>1, <1>6, <2>1, <2>2
<1>7. Ordered(p, n)'
  BY <1>6 DEF Ordered
<1>8. \A i : i = Len(log) + 1 => IsPost(i, p, n, k)'
  BY <1>1, <1>3 DEF IsPost
<1>9. QED  BY <1>5, <1>7, <1>8
-------------------------------------------------------------------------------
(* Steps of others.                                                        *)

\* What a process has posted is as it was, and so is what may still arrive.
SamePosts(p) == /\ \A n : Posts(p, n)' = Posts(p, n)
                /\ \A n : \A i \in Posts(p, n) : log'[i] = log[i]
                /\ \A i \in 1..Len(log') : log'[i].proc = p => i \in 1..Len(log) /\ log'[i] = log[i]
NoMoreStrays(p) == \A r \in stray' : r.proc = p => r \in stray

SameProcess(p) == /\ agenda'[p] = agenda[p] /\ told'[p] = told[p]
                  /\ pc'[p] = pc[p] /\ mem'[p] = mem[p] /\ call'[p] = call[p]

LEMMA SameJob ==
    ASSUME NEW p, NEW n, agenda'[p] = agenda[p],
           Posts(p, n)' = Posts(p, n), \A i \in Posts(p, n) : log'[i] = log[i]
    PROVE  /\ \A k : UpTo(p, n, k)' <=> UpTo(p, n, k)
           /\ \A k : Has(p, n, k)' <=> Has(p, n, k)
           /\ \A i, k : IsPost(i, p, n, k)' <=> IsPost(i, p, n, k)
           /\ \A ids : Named(p, n, ids)' <=> Named(p, n, ids)
           /\ Ordered(p, n)' <=> Ordered(p, n)
           /\ \A r, k : IsPart(r, p, n, k)' <=> IsPart(r, p, n, k)
           /\ \A a : IsReport(a, p, n)' <=> IsReport(a, p, n)
<1>2. \A k : UpTo(p, n, k)' <=> UpTo(p, n, k)
  BY DEF UpTo
<1>3. \A k : Has(p, n, k)' <=> Has(p, n, k)
  BY DEF Has
<1>4. \A i, k : IsPost(i, p, n, k)' <=> IsPost(i, p, n, k)
  BY DEF IsPost
<1>5. \A ids : Named(p, n, ids)' <=> Named(p, n, ids)
  BY <1>4 DEF Named
<1>6. \A r, k : IsPart(r, p, n, k)' <=> IsPart(r, p, n, k)
  BY DEF IsPart
<1>7. Ordered(p, n)' <=> Ordered(p, n)
  BY DEF Ordered, IsPart
<1>8. \A a : IsReport(a, p, n)' <=> IsReport(a, p, n)
  BY <1>5 DEF IsReport
<1>9. QED  BY <1>2, <1>3, <1>4, <1>5, <1>6, <1>7, <1>8

LEMMA SameJobs ==
    ASSUME NEW p, SamePosts(p), agenda'[p] = agenda[p]
    PROVE  /\ \A n, k : UpTo(p, n, k)' <=> UpTo(p, n, k)
           /\ \A n, k : Has(p, n, k)' <=> Has(p, n, k)
           /\ \A i, n, k : IsPost(i, p, n, k)' <=> IsPost(i, p, n, k)
           /\ \A ids, n : Named(p, n, ids)' <=> Named(p, n, ids)
           /\ \A n : Ordered(p, n)' <=> Ordered(p, n)
           /\ \A r, n, k : IsPart(r, p, n, k)' <=> IsPart(r, p, n, k)
           /\ \A a, n : IsReport(a, p, n)' <=> IsReport(a, p, n)
BY SameJob DEF SamePosts

LEMMA LatesStay ==
    ASSUME NEW p, SamePosts(p), NoMoreStrays(p), agenda'[p] = agenda[p]
    PROVE  \A r : r.proc = p /\ IsLate(r, p) => IsLate(r, p)'
BY SameJobs DEF IsLate, NoMoreStrays

LEMMA SendCallStays ==
    ASSUME NEW p, SamePosts(p), NoMoreStrays(p), agenda'[p] = agenda[p],
           Job(p)' = Job(p), Part(p)' = Part(p)
    PROVE  \A c : IsSendCall(c, p) => IsSendCall(c, p)'
BY SameJobs DEF IsSendCall, NoMoreStrays, Unposted

\* Nobody posts for it: only its call has moved on.
LEMMA CallMoves ==
    ASSUME NEW p, ProcInv(p), SamePosts(p), NoMoreStrays(p),
           agenda'[p] = agenda[p], told'[p] = told[p], pc'[p] = pc[p], mem'[p] = mem[p],
           InCall(p)' => InCall(p) /\ call'[p].req = call[p].req,
           NEW c, c = call'[p], Sending(p) => IsSendCall(c, p)
    PROVE  ProcInv(p)'
<1>1. Sending(p)' = Sending(p) /\ Job(p)' = Job(p) /\ Part(p)' = Part(p)
  BY DEF Sending, Job, Part, Command
<1>2. /\ (InCall(p) /\ call[p].req.op = "post" => Sending(p))'
      /\ (pc[p] \notin {"idle", "calling"} => Command(p).op # "send")'
  BY <1>1 DEF ProcInv, Command
<1>3. (\A i \in 1..Len(log) : log[i].proc = p =>
          log[i].job \in 1..Len(told[p]) \/ (log[i].job = Job(p) /\ Sending(p)))'
  BY <1>1 DEF ProcInv, SamePosts
<1>4. (\A n \in 1..Len(agenda[p]) : Ordered(p, n))'
  BY SameJobs DEF ProcInv
<1>5. IsSendCall(c, p) => IsSendCall(c, p)'
  BY <1>1, SendCallStays
<1>6. IsSendCall(c, p)' => IsSendCall(call[p], p)'
  BY DEF IsSendCall
<1>7. SendInv(p)'
  <2>1. Texts(Command(p))' = Texts(Command(p)) /\ ChunkerIsRight' = ChunkerIsRight
    BY DEF Command
  <2>2. QED  BY <1>1, <1>5, <1>6, <2>1, SameJobs DEF ProcInv, SendInv
<1>8. (\A r \in stray : r.proc = p => IsStray(r, p))'
  <2> SUFFICES ASSUME NEW r, r \in stray', r.proc = p PROVE IsStray(r, p)'
    OBVIOUS
  <2>1. IsStray(r, p)
    BY DEF ProcInv, NoMoreStrays
  <2>2. QED  BY <1>1, <2>1, LatesStay DEF IsStray
<1>9. (\A n \in 1..Len(told[p]) : IsReport(told[p][n], p, n))'
  BY SameJobs DEF ProcInv
<1>10. QED  BY <1>2, <1>3, <1>4, <1>7, <1>8, <1>9 DEF ProcInv

LEMMA OthersKeepProcInv ==
    ASSUME NEW p, ProcInv(p), SamePosts(p), NoMoreStrays(p), SameProcess(p)
    PROVE  ProcInv(p)'
<1>1. PICK c : c = call'[p]
  OBVIOUS
<1>2. c = call[p] /\ (InCall(p)' => InCall(p))
  BY <1>1 DEF SameProcess, InCall
<1>3. Sending(p) => IsSendCall(c, p)
  BY <1>2 DEF ProcInv, SendInv
<1>4. QED  BY <1>1, <1>2, <1>3, CallMoves DEF SameProcess
-------------------------------------------------------------------------------
(* Steps of the process itself.                                            *)

\* A command that is not a "send" goes on.
LEMMA ProcessMoves ==
    ASSUME NEW p, ProcInv(p), SamePosts(p), NoMoreStrays(p),
           agenda'[p] = agenda[p], told'[p] = told[p], Command(p).op # "send",
           InCall(p)' => call'[p].req.op # "post"
    PROVE  ProcInv(p)'
<1>1. /\ Job(p)' = Job(p) /\ Command(p)' = Command(p)
      /\ ~Sending(p) /\ ~Sending(p)'
  BY DEF Job, Command, Sending
<1>2. (\A i \in 1..Len(log) : log[i].proc = p =>
          log[i].job \in 1..Len(told[p]) \/ (log[i].job = Job(p) /\ Sending(p)))'
  BY <1>1 DEF ProcInv, SamePosts
<1>3. (\A n \in 1..Len(agenda[p]) : Ordered(p, n))'
  BY SameJobs DEF ProcInv
<1>4. SendInv(p)'
  BY <1>1 DEF SendInv
<1>5. (\A r \in stray : r.proc = p => IsStray(r, p))'
  <2> SUFFICES ASSUME NEW r, r \in stray', r.proc = p PROVE IsStray(r, p)'
    OBVIOUS
  <2>1. IsStray(r, p)
    BY DEF ProcInv, NoMoreStrays
  <2>2. QED  BY <1>1, <2>1, LatesStay DEF IsStray
<1>6. (\A n \in 1..Len(told[p]) : IsReport(told[p][n], p, n))'
  BY SameJobs DEF ProcInv
<1>7. QED  BY <1>1, <1>2, <1>3, <1>4, <1>5, <1>6 DEF ProcInv

\* A command ends; what is left of a "send" is excused by its answer.
LEMMA ProcessAnswers ==
    ASSUME NEW p, ProcInv(p), SamePosts(p), agenda'[p] = agenda[p],
           IsSequence(told[p]), Len(told'[p]) = Len(told[p]) + 1,
           \A n \in 1..Len(told[p]) : told'[p][n] = told[p][n],
           NEW a, told'[p][Len(told[p]) + 1] = a, pc'[p] = "idle",
           IsReport(a, p, Job(p)),
           \A r \in stray' : r.proc = p => /\ IsLate(r, p)'
                                           /\ r \in stray \/ r.job = Job(p)
                                           /\ r.job = Job(p) => Excuses(a, r),
           InCall(p)' => call'[p].req.op # "post"
    PROVE  ProcInv(p)'
<1>1. Len(told[p]) \in Nat
  BY SequenceFacts
<1>2. ~Sending(p)'
  BY DEF Sending
<1>3. \A n \in 1..Len(told'[p]) : n \in 1..Len(told[p]) \/ n = Job(p)
  BY <1>1 DEF Job
<1>4. \A n \in 1..Len(told[p]) : n \in 1..Len(told'[p]) /\ n # Job(p)
  BY <1>1 DEF Job
<1>5. Job(p) \in 1..Len(told'[p]) /\ told'[p][Job(p)] = a
  BY <1>1 DEF Job
<1>6. (\A i \in 1..Len(log) : log[i].proc = p =>
          log[i].job \in 1..Len(told[p]) \/ (log[i].job = Job(p) /\ Sending(p)))'
  BY <1>4, <1>5 DEF ProcInv, SamePosts
<1>7. (\A n \in 1..Len(agenda[p]) : Ordered(p, n))'
  BY SameJobs DEF ProcInv
<1>8. SendInv(p)'
  BY <1>2 DEF SendInv
<1>9. (\A r \in stray : r.proc = p => IsStray(r, p))'
  <2> SUFFICES ASSUME NEW r, r \in stray', r.proc = p PROVE IsStray(r, p)'
    OBVIOUS
  <2>1. CASE r.job = Job(p)
    BY <1>5, <2>1 DEF IsStray, Excuses
  <2>2. CASE r.job # Job(p)
    <3>1. r.job \in 1..Len(told[p]) /\ Excuses(told[p][r.job], r)
      BY <2>2 DEF ProcInv, IsStray
    <3>2. QED  BY <1>4, <3>1 DEF IsStray, Excuses
  <2>3. QED  BY <2>1, <2>2
<1>10. (\A n \in 1..Len(told[p]) : IsReport(told[p][n], p, n))'
  <2> SUFFICES ASSUME NEW n \in 1..Len(told'[p]) PROVE IsReport(told[p][n], p, n)'
    OBVIOUS
  <2>1. PICK b : b = told'[p][n]
    OBVIOUS
  <2>2. IsReport(b, p, n)
    BY <1>3, <1>5, <2>1 DEF ProcInv
  <2>3. IsReport(b, p, n)'
    BY <2>2, SameJobs
  <2>4. QED  BY <2>1, <2>3 DEF IsReport
<1>11. QED  BY <1>2, <1>6, <1>7, <1>8, <1>9, <1>10 DEF ProcInv

\* A "send" asks for its next part, the first or the one after what it knows to be posted.
LEMMA ProcessSends ==
    ASSUME NEW p, ProcInv(p), SamePosts(p), NoMoreStrays(p),
           agenda'[p] = agenda[p], told'[p] = told[p], Sending(p)',
           NEW req, NEW n, call'[p] = [pc |-> "sent", req |-> req, retries |-> n],
           req.op = "post", IsPart(req, p, Job(p), Part(p)'),
           NEW ids, mem'[p].ids = ids, Named(p, Job(p), ids),
           UpTo(p, Job(p), Len(ids)),
           mem'[p].texts = Texts(Command(p)), Texts(Command(p)) # None,
           DOMAIN mem'[p] = {"texts", "ch", "ids"},
           ChunkerIsRight => Len(Texts(Command(p))) \in Nat
                             /\ Part(p)' <= Len(Texts(Command(p))),
           \A i \in Posts(p, Job(p)) : log[i].part \in Nat,
           \A r \in stray : r.proc = p => r.job # Job(p)
    PROVE  ProcInv(p)'
<1>1. Job(p)' = Job(p) /\ Part(p)' = Len(ids) + 1
  BY DEF Job, Part
<1>2. Len(ids) \in Nat
  BY SequenceFacts DEF Named
<1>3. PICK c : c = call'[p]
  OBVIOUS
<1>4. c.pc = "sent" /\ c.req = req
  BY <1>3
<1>5. PICK job : job = Job(p)
  OBVIOUS
<1>6. /\ IsPart(req, p, job, Len(ids) + 1)' /\ Named(p, job, ids)' /\ UpTo(p, job, Len(ids))'
  BY <1>1, <1>5, SameJobs
<1>7. UpTo(p, job, Len(ids) + 1)'
  <2>1. UpTo(p, job, Len(ids) + 1)
    BY <1>2, <1>5 DEF UpTo
  <2>2. QED  BY <2>1, SameJobs
<1>8. \A r \in stray' : r.proc = p => r.job # job
  BY <1>5 DEF NoMoreStrays
<1>9. IsSendCall(call[p], p)'
  BY <1>1, <1>2, <1>3, <1>4, <1>5, <1>6, <1>8 DEF IsSendCall, Unposted, IsPart, UpTo
<1>10. SendInv(p)'
  <2>1. Texts(Command(p))' = Texts(Command(p)) /\ ChunkerIsRight' = ChunkerIsRight
    BY DEF Command
  <2>2. QED  BY <1>1, <1>5, <1>6, <1>7, <1>9, <2>1 DEF SendInv, Named, UpTo
<1>11. (\A i \in 1..Len(log) : log[i].proc = p =>
          log[i].job \in 1..Len(told[p]) \/ (log[i].job = Job(p) /\ Sending(p)))'
  BY <1>1 DEF ProcInv, SamePosts
<1>12. (\A m \in 1..Len(agenda[p]) : Ordered(p, m))'
  BY SameJobs DEF ProcInv
<1>13. (\A r \in stray : r.proc = p => IsStray(r, p))'
  <2> SUFFICES ASSUME NEW r, r \in stray', r.proc = p PROVE IsStray(r, p)'
    OBVIOUS
  <2>1. IsStray(r, p) /\ r.job # Job(p)
    BY DEF ProcInv, NoMoreStrays
  <2>2. QED  BY <2>1, LatesStay DEF IsStray
<1>14. (\A m \in 1..Len(told[p]) : IsReport(told[p][m], p, m))'
  BY SameJobs DEF ProcInv
<1>15. (pc[p] \notin {"idle", "calling"} => Command(p).op # "send")'
  BY DEF Sending
<1>16. QED  BY <1>10, <1>11, <1>12, <1>13, <1>14, <1>15 DEF ProcInv

\* What a dying "send" leaves behind is its next part, and the only one of its command.
LEMMA LeftBehind ==
    ASSUME NEW p, ProcInv(p), SamePosts(p), agenda'[p] = agenda[p],
           \/ stray' = stray
           \/ /\ call[p].pc = "sent" /\ call[p].req.op = "post"
              /\ stray' = stray \cup {call[p].req},
           NEW r \in stray', r.proc = p
    PROVE  /\ IsLate(r, p)'
           /\ r \in stray \/ (r.job = Job(p) /\ r.part = Part(p) /\ Sending(p))
<1>1. CASE stray' = stray
  BY <1>1, LatesStay DEF NoMoreStrays, ProcInv, IsStray
<1>2. CASE /\ call[p].pc = "sent" /\ call[p].req.op = "post"
           /\ stray' = stray \cup {call[p].req}
  <2>1. Sending(p) /\ IsSendCall(call[p], p) /\ Named(p, Job(p), mem[p].ids)
    BY <1>2 DEF ProcInv, InCall, SendInv
  <2>2. /\ IsPart(call[p].req, p, Job(p), Part(p)) /\ UpTo(p, Job(p), Part(p) - 1)
        /\ \A s \in stray : s.proc = p => s.job # Job(p)
    BY <1>2, <2>1 DEF IsSendCall, Unposted
  <2>3. Len(mem[p].ids) \in Nat /\ Has(p, Job(p), Len(mem[p].ids))
    BY <2>1, NamedHas, SequenceFacts DEF Named
  <2>4. Part(p) \in Nat \ {0} /\ Part(p) - 1 = Len(mem[p].ids)
    BY <2>3 DEF Part
  <2>5. CASE r = call[p].req
    <3>1. r.proc = p /\ r.job = Job(p) /\ r.part = Part(p)
      BY <2>2, <2>5 DEF IsPart
    <3>2. Has(p, r.job, r.part - 1)' /\ UpTo(p, r.job, r.part - 1)' /\ IsPart(r, p, r.job, r.part)'
      BY <2>2, <2>3, <2>4, <2>5, <3>1, SameJobs
    <3>3. \A s \in stray' : s.proc = p /\ s.job = r.job => s = r
      BY <1>2, <2>2, <2>5, <3>1
    <3>4. IsLate(r, p)'
      BY <2>3, <2>4, <3>1, <3>2, <3>3 DEF IsLate, Job
    <3>5. QED  BY <2>1, <3>1, <3>4
  <2>6. CASE r \in stray
    <3>1. IsLate(r, p) /\ r.job # Job(p)
      BY <2>2, <2>6 DEF ProcInv, IsStray
    <3>2. \A s \in stray' : s.proc = p /\ s.job = r.job => s = r
      BY <1>2, <2>2, <3>1 DEF IsLate, IsPart
    <3>3. QED  BY <2>6, <3>1, <3>2, SameJobs DEF IsLate
  <2>7. QED  BY <1>2, <2>5, <2>6
<1>3. QED  BY <1>1, <1>2
\* A call is given up: whether its part is posted nobody knows.
LEMMA CallIsLost ==
    ASSUME NEW p, ProcInv(p), SamePosts(p),
           agenda'[p] = agenda[p], told'[p] = told[p], pc'[p] = pc[p], mem'[p] = mem[p],
           NEW c, c = call'[p], c.pc = "failed", c.kind = "network",
           \/ stray' = stray
           \/ /\ call[p].pc = "sent" /\ call[p].req.op = "post"
              /\ stray' = stray \cup {call[p].req}
    PROVE  ProcInv(p)'
<1>1. Sending(p)' = Sending(p) /\ Job(p)' = Job(p) /\ Part(p)' = Part(p)
  BY DEF Sending, Job, Part, Command
<1>2. /\ (InCall(p) /\ call[p].req.op = "post" => Sending(p))'
      /\ (pc[p] \notin {"idle", "calling"} => Command(p).op # "send")'
  BY <1>1 DEF ProcInv, Command, InCall
<1>3. (\A i \in 1..Len(log) : log[i].proc = p =>
          log[i].job \in 1..Len(told[p]) \/ (log[i].job = Job(p) /\ Sending(p)))'
  BY <1>1 DEF ProcInv, SamePosts
<1>4. (\A n \in 1..Len(agenda[p]) : Ordered(p, n))'
  BY SameJobs DEF ProcInv
<1>5. SendInv(p)'
  <2>1. Texts(Command(p))' = Texts(Command(p)) /\ ChunkerIsRight' = ChunkerIsRight
    BY DEF Command
  <2>2. IsSendCall(call[p], p)'
    BY DEF IsSendCall, Unposted
  <2>3. QED  BY <1>1, <2>1, <2>2, SameJobs DEF ProcInv, SendInv
<1>6. (\A r \in stray : r.proc = p => IsStray(r, p))'
  <2> SUFFICES ASSUME NEW r, r \in stray', r.proc = p PROVE IsStray(r, p)'
    OBVIOUS
  <2>1. /\ IsLate(r, p)'
        /\ r \in stray \/ (r.job = Job(p) /\ r.part = Part(p) /\ Sending(p))
    BY LeftBehind
  <2>2. QED  BY <1>1, <2>1 DEF IsStray, ProcInv
<1>7. (\A n \in 1..Len(told[p]) : IsReport(told[p][n], p, n))'
  BY SameJobs DEF ProcInv
<1>8. QED  BY <1>2, <1>3, <1>4, <1>5, <1>6, <1>7 DEF ProcInv

\* One more post of a command: the others' posts are as they were.
LEMMA PartPosted ==
    ASSUME LogGrows, NEW e, Len(log') = Len(log) + 1, log'[Len(log) + 1] = e,
           NEW p, NEW n \in 1..Len(agenda[p]), NEW k \in Nat \ {0},
           agenda'[p] = agenda[p], IsPart(e, p, n, k),
           \A m \in 1..Len(agenda[p]) : Ordered(p, m),
           Has(p, n, k - 1), UpTo(p, n, k - 1)
    PROVE  /\ \A m \in 1..Len(agenda[p]) : Ordered(p, m)'
           /\ UpTo(p, n, k)'
           /\ \A i : i = Len(log) + 1 => IsPost(i, p, n, k)'
           /\ \A m : m # n => /\ Posts(p, m)' = Posts(p, m)
                              /\ \A i \in Posts(p, m) : log'[i] = log[i]
<1>1. Ordered(p, n)' /\ UpTo(p, n, k)' /\ \A i : i = Len(log) + 1 => IsPost(i, p, n, k)'
  BY NextPart
<1>2. \A m : m # n => Posts(p, m)' = Posts(p, m)
  BY OneMorePost DEF IsPart
<1>3. \A m : \A i \in Posts(p, m) : log'[i] = log[i]
  BY PostsGrow
<1>4. ASSUME NEW m \in 1..Len(agenda[p]), m # n PROVE Ordered(p, m)'
  BY <1>2, <1>3, <1>4, SameJob
<1>5. QED  BY <1>1, <1>2, <1>3, <1>4
\* A request that was left behind arrives after all.
LEMMA StrayArrives ==
    ASSUME BotInv, NEW p \in Proc, ProcInv(p), LogGrows,
           NEW r \in stray, r.proc = p, stray' = stray \ {r},
           Len(log') = Len(log) + 1, log'[Len(log) + 1] = Posted(r), SameProcess(p)
    PROVE  ProcInv(p)'
<1> DEFINE n == r.job
           k == r.part
<1> USE DEF SameProcess
<1>1. IsStray(r, p) /\ IsLate(r, p)
  BY DEF ProcInv, IsStray
<1>2. Len(told[p]) \in Nat /\ Len(told[p]) <= Len(agenda[p]) /\ Len(agenda[p]) \in Nat
  BY SequenceFacts DEF BotInv, CliInv, CliShape
<1>3. Sending(p) => Job(p) \in 1..Len(agenda[p])
  BY <1>2 DEF Sending, Job, BotInv, CliInv, CliTypeOK
<1>4. n \in 1..Len(agenda[p])
  BY <1>1, <1>2, <1>3 DEF IsStray
<1>5. PICK e : e = Posted(r)
  OBVIOUS
<1>6. /\ e.proc = p /\ e.job = n /\ e.part = k
      /\ IsPart(e, p, n, k)
  BY <1>1, <1>5 DEF Posted, IsLate, IsPart
<1>7. /\ \A m \in 1..Len(agenda[p]) : Ordered(p, m)'
      /\ UpTo(p, n, k)'
      /\ \A m : m # n => /\ Posts(p, m)' = Posts(p, m)
                         /\ \A i \in Posts(p, m) : log'[i] = log[i]
  BY <1>1, <1>4, <1>5, <1>6, PartPosted DEF IsLate, ProcInv
<1>8. Posts(p, n)' = Posts(p, n) \cup {Len(log) + 1}
  BY <1>5, <1>6, OneMorePost
<1> HIDE DEF n, k
<1>9. Sending(p)' = Sending(p) /\ Job(p)' = Job(p) /\ Part(p)' = Part(p)
  BY DEF Sending, Job, Part, Command
<1>10. /\ (InCall(p) /\ call[p].req.op = "post" => Sending(p))'
       /\ (pc[p] \notin {"idle", "calling"} => Command(p).op # "send")'
  BY <1>9 DEF ProcInv, Command, InCall
<1>11. n \in 1..Len(told[p]) \/ (n = Job(p) /\ Sending(p))
  BY <1>1 DEF IsStray, n
<1>12. (\A i \in 1..Len(log) : log[i].proc = p =>
          log[i].job \in 1..Len(told[p]) \/ (log[i].job = Job(p) /\ Sending(p)))'
  <2> SUFFICES ASSUME NEW i \in 1..Len(log'), log'[i].proc = p
               PROVE  log'[i].job \in 1..Len(told[p]) \/ (log'[i].job = Job(p) /\ Sending(p))
    BY <1>9
  <2>1. CASE i \in 1..Len(log)
    BY <2>1 DEF ProcInv, LogGrows
  <2>2. CASE i = Len(log) + 1
    BY <1>5, <1>6, <1>11, <2>2
  <2>3. QED  BY <2>1, <2>2 DEF LogGrows
<1>13. ASSUME Sending(p) PROVE SendInv(p)'
  <2>1. Texts(Command(p))' = Texts(Command(p)) /\ ChunkerIsRight' = ChunkerIsRight
    BY DEF Command
  <2>2. Named(p, Job(p), mem[p].ids) /\ UpTo(p, Job(p), Part(p)) /\ IsSendCall(call[p], p)
    BY <1>13 DEF ProcInv, SendInv
  <2>3. \A m : Named(p, m, mem[p].ids) => Named(p, m, mem[p].ids)'
    BY GrowthKeeps
  <2>4. PICK job : job = Job(p)
    OBVIOUS
  <2>5. CASE n = Job(p)
    <3>1. call[p].pc = "failed" /\ call[p].kind = "network"
      BY <1>1, <2>2, <2>5 DEF IsSendCall, n
    <3>2. IsSendCall(call[p], p)'
      BY <3>1 DEF IsSendCall, Unposted
    <3>3. k = Part(p)
      BY <1>1, <1>2, <2>5 DEF IsStray, Job, n, k
    <3>4. UpTo(p, Job(p), Part(p))'
      BY <1>7, <1>9, <2>5, <3>3 DEF UpTo
    <3>5. Named(p, Job(p), mem[p].ids)'
      BY <1>9, <2>2, <2>3, <2>4
    <3>6. QED  BY <1>9, <1>13, <2>1, <3>2, <3>4, <3>5 DEF ProcInv, SendInv
  <2>6. CASE n # Job(p)
    <3>1. /\ \A j : UpTo(p, job, j)' <=> UpTo(p, job, j)
          /\ \A i, j : IsPost(i, p, job, j)' <=> IsPost(i, p, job, j)
          /\ \A s, j : IsPart(s, p, job, j)' <=> IsPart(s, p, job, j)
      BY <1>7, <2>4, <2>6, SameJob
    <3>2. PICK c : c = call[p]
      OBVIOUS
    <3>3. IsSendCall(c, p)'
      BY <1>9, <2>2, <2>4, <3>1, <3>2 DEF IsSendCall, Unposted
    <3>4. IsSendCall(call[p], p)'
      BY <3>2, <3>3 DEF IsSendCall
    <3>5. UpTo(p, Job(p), Part(p))' /\ Named(p, Job(p), mem[p].ids)'
      BY <1>9, <2>2, <2>3, <2>4, <3>1
    <3>6. QED  BY <1>9, <1>13, <2>1, <3>4, <3>5 DEF ProcInv, SendInv
  <2>7. QED  BY <2>5, <2>6
<1>14. (\A s \in stray : s.proc = p => IsStray(s, p))'
  <2> SUFFICES ASSUME NEW s \in stray, s # r, s.proc = p PROVE IsStray(s, p)'
    OBVIOUS
  <2>1. IsStray(s, p) /\ s.job # n
    BY <1>1 DEF ProcInv, IsLate, IsStray, n
  <2>2. PICK m : m = s.job
    OBVIOUS
  <2>3. /\ \A j : UpTo(p, m, j)' <=> UpTo(p, m, j)
        /\ \A j : Has(p, m, j)' <=> Has(p, m, j)
        /\ \A j : IsPart(s, p, m, j)' <=> IsPart(s, p, m, j)
    BY <1>7, <2>1, <2>2, SameJob
  <2>4. IsLate(s, p)'
    BY <2>1, <2>2, <2>3 DEF IsLate, IsStray
  <2>5. QED  BY <1>9, <2>1, <2>4 DEF IsStray
<1>15. (\A m \in 1..Len(told[p]) : IsReport(told[p][m], p, m))'
  <2> SUFFICES ASSUME NEW m \in 1..Len(told[p]) PROVE IsReport(told[p][m], p, m)'
    OBVIOUS
  <2>1. PICK a : a = told[p][m]
    OBVIOUS
  <2>2. IsReport(a, p, m)
    BY <2>1 DEF ProcInv
  <2>3. CASE m # n
    <3>1. IsReport(a, p, m)'
      BY <1>7, <2>2, <2>3, SameJob
    <3>2. QED  BY <2>1, <3>1 DEF IsReport
  <2>4. CASE m = n
    <3>1. Excuses(a, r) /\ k = r.part
      BY <1>1, <1>2, <2>1, <2>4 DEF IsStray, Job, n, k
    <3>2. a.kind # "killed" => a.kind = "network" /\ k = Len(a.ids) + 1
      BY <3>1 DEF Excuses
    <3>3. Named(p, m, a.ids) => Named(p, m, a.ids)'
      BY GrowthKeeps
    <3>4. \A i \in Posts(p, m)' : i \in Posts(p, m) \/ i = Len(log) + 1
      BY <1>8, <2>4
    <3>5. log'[Len(log) + 1].part = k
      BY <1>5, <1>6
    <3>6. \A i \in Posts(p, m) : log'[i] = log[i]
      BY PostsGrow
    <3>7. IsReport(a, p, m)'
      BY <2>2, <3>2, <3>3, <3>4, <3>5, <3>6 DEF IsReport
    <3>8. QED  BY <2>1, <3>7 DEF IsReport
  <2>5. QED  BY <2>3, <2>4
<1>16. SendInv(p)'
  BY <1>9, <1>13 DEF SendInv
<1>17. QED  BY <1>7, <1>10, <1>12, <1>14, <1>15, <1>16 DEF ProcInv
\* Discord posts a part; its answer may be unreadable all the same.
LEMMA PartIsServed ==
    ASSUME BotInv, NEW p \in Proc, ProcInv(p), LogGrows, NoMoreStrays(p),
           call[p].pc = "sent", NEW req, req = call[p].req, req.op = "post",
           Len(log') = Len(log) + 1, log'[Len(log) + 1] = Posted(req),
           agenda'[p] = agenda[p], told'[p] = told[p], pc'[p] = pc[p], mem'[p] = mem[p],
           NEW c, c = call'[p], c.pc = "answered", c.req = req,
           \/ c.response.status = "unreadable"
           \/ c.response.status = "success" /\ c.response.body = Len(log) + 1
    PROVE  ProcInv(p)'
<1>1. /\ Sending(p) /\ IsSendCall(call[p], p)
      /\ Named(p, Job(p), mem[p].ids) /\ UpTo(p, Job(p), Part(p))
  BY DEF ProcInv, SendInv, InCall
<1>2. PICK n, k : n = Job(p) /\ k = Part(p)
  OBVIOUS
<1>3. /\ IsPart(req, p, n, k) /\ UpTo(p, n, k - 1)
      /\ \A s \in stray : s.proc = p => s.job # n
  BY <1>1, <1>2 DEF IsSendCall, Unposted
<1>4. k \in Nat \ {0} /\ k - 1 = Len(mem[p].ids)
  BY <1>1, <1>2, SequenceFacts DEF Part, Named
<1>5. Has(p, n, k - 1)
  BY <1>1, <1>2, <1>4, NamedHas
<1>6. Len(told[p]) \in Nat /\ n = Len(told[p]) + 1 /\ n \in 1..Len(agenda[p])
  BY <1>1, <1>2, SequenceFacts DEF Sending, Job, BotInv, CliInv, CliShape, CliTypeOK
<1>7. PICK e : e = Posted(req)
  OBVIOUS
<1>8. e.proc = p /\ e.job = n /\ e.part = k /\ IsPart(e, p, n, k)
  BY <1>3, <1>7 DEF Posted, IsPart
<1>9. /\ \A m \in 1..Len(agenda[p]) : Ordered(p, m)'
      /\ UpTo(p, n, k)'
      /\ \A i : i = Len(log) + 1 => IsPost(i, p, n, k)'
      /\ \A m : m # n => /\ Posts(p, m)' = Posts(p, m)
                         /\ \A i \in Posts(p, m) : log'[i] = log[i]
  <2>1. log'[Len(log) + 1] = e /\ \A m \in 1..Len(agenda[p]) : Ordered(p, m)
    BY <1>7 DEF ProcInv
  <2>2. k \in Nat \ {0} /\ n \in 1..Len(agenda[p])
    BY <1>4, <1>6
  <2>3. QED  BY <1>3, <1>5, <1>8, <2>1, <2>2, PartPosted
<1>10. /\ Sending(p)' /\ n = Job(p)' /\ k = Part(p)' /\ Command(p)' = Command(p)
       /\ Job(p)' = Job(p) /\ Part(p)' = Part(p)
  BY <1>1, <1>2 DEF Sending, Job, Part, Command
<1>11. (\A i \in 1..Len(log) : log[i].proc = p =>
          log[i].job \in 1..Len(told[p]) \/ (log[i].job = Job(p) /\ Sending(p)))'
  <2> SUFFICES ASSUME NEW i \in 1..Len(log'), log'[i].proc = p
               PROVE  log'[i].job \in 1..Len(told[p]) \/ log'[i].job = n
    BY <1>10
  <2>1. CASE i \in 1..Len(log)
    BY <1>2, <2>1 DEF ProcInv, LogGrows
  <2>2. CASE i = Len(log) + 1
    BY <1>7, <1>8, <2>2
  <2>3. QED  BY <2>1, <2>2 DEF LogGrows
<1>12. IsSendCall(c, p)'
  <2>1. IsPart(req, p, n, k)'
    BY <1>3 DEF IsPart
  <2>2. \A s \in stray' : s.proc = p => s.job # n
    BY <1>3 DEF NoMoreStrays
  <2>3. c.response.status = "success" => IsPost(c.response.body, p, n, k)'
    BY <1>9
  <2>4. QED  BY <1>10, <2>1, <2>2, <2>3 DEF IsSendCall, Unposted
<1>13. SendInv(p)'
  <2>1. Texts(Command(p))' = Texts(Command(p)) /\ ChunkerIsRight' = ChunkerIsRight
    BY DEF Command
  <2>2. IsSendCall(call[p], p)'
    BY <1>12 DEF IsSendCall
  <2>3. \A m : Named(p, m, mem[p].ids) => Named(p, m, mem[p].ids)'
    BY GrowthKeeps
  <2>4. Named(p, n, mem[p].ids)'
    BY <1>1, <1>2, <2>3
  <2>5. Named(p, Job(p), mem[p].ids)' /\ UpTo(p, Job(p), Part(p))'
    BY <1>2, <1>9, <1>10, <2>4
  <2>6. QED  BY <1>1, <1>10, <2>1, <2>2, <2>5 DEF ProcInv, SendInv
<1>14. (\A s \in stray : s.proc = p => IsStray(s, p))'
  <2> SUFFICES ASSUME NEW s \in stray', s.proc = p PROVE IsStray(s, p)'
    OBVIOUS
  <2>1. IsStray(s, p) /\ s.job # n
    BY <1>3 DEF ProcInv, NoMoreStrays
  <2>2. PICK m : m = s.job
    OBVIOUS
  <2>3. /\ \A j : UpTo(p, m, j)' <=> UpTo(p, m, j)
        /\ \A j : Has(p, m, j)' <=> Has(p, m, j)
        /\ \A j : IsPart(s, p, m, j)' <=> IsPart(s, p, m, j)
    BY <1>9, <2>1, <2>2, SameJob
  <2>4. IsLate(s, p)'
    BY <2>1, <2>2, <2>3 DEF IsLate, IsStray, NoMoreStrays
  <2>5. QED  BY <1>1, <1>10, <2>1, <2>4 DEF IsStray
<1>15. (\A m \in 1..Len(told[p]) : IsReport(told[p][m], p, m))'
  <2> SUFFICES ASSUME NEW m \in 1..Len(told[p]) PROVE IsReport(told[p][m], p, m)'
    OBVIOUS
  <2>1. PICK a : a = told[p][m]
    OBVIOUS
  <2>2. IsReport(a, p, m) /\ m # n
    BY <1>6, <2>1 DEF ProcInv
  <2>3. IsReport(a, p, m)'
    BY <1>9, <2>2, SameJob
  <2>4. QED  BY <2>1, <2>3 DEF IsReport
<1>16. /\ (InCall(p) /\ call[p].req.op = "post" => Sending(p))'
       /\ (pc[p] \notin {"idle", "calling"} => Command(p).op # "send")'
  BY <1>10 DEF Sending
<1>17. QED  BY <1>9, <1>11, <1>13, <1>14, <1>15, <1>16 DEF ProcInv
-------------------------------------------------------------------------------
(* Every step of the bot.                                                  *)

LEMMA SameChat ==
    ASSUME BotInv, log' = log, stray' = stray, NEW p
    PROVE  SamePosts(p) /\ NoMoreStrays(p)
BY DEF SamePosts, NoMoreStrays, Posts

LEMMA CallOf ==
    ASSUME BotInv, NEW c \in Client, NEW s, CallTo(c, s)
    PROVE  call'[c] = s /\ \A d \in Client \ {c} : call'[d] = call[d]
BY DEF CallTo, BotInv, RestTypeOK

\* The client of a "send" gets an answer, waits or asks again.
LEMMA SendCallGoesOn ==
    ASSUME BotInv, NEW p \in Proc, IsSendCall(call[p], p), Receive(p) \/ Resend(p)
    PROVE  IsSendCall(call'[p], p) /\ (InCall(p)' => InCall(p) /\ call'[p].req = call[p].req)
<1> DEFINE r == call[p].response
           again == MayRetry(r, call[p].retries)
<1>1. p \in Client
  BY TriggerAssumption
<1>2. \A s : CallTo(p, s) => call'[p] = s
  BY <1>1, CallOf
<1>3. ASSUME Receive(p), r.status = "success", CallTo(p, [pc |-> "ok", body |-> r.body])
      PROVE  IsSendCall(call'[p], p) /\ ~InCall(p)'
  <2>1. PICK s : s = call'[p]
    OBVIOUS
  <2>2. call[p].pc = "answered" /\ s.pc = "ok" /\ s.body = r.body
    BY <1>2, <1>3, <2>1 DEF Receive
  <2>3. QED  BY <1>3, <2>1, <2>2 DEF IsSendCall, Unposted, InCall
<1>4. ASSUME NEW state \in {"sent", "backoff"}, NEW n, Attempt(p, state, n),
             call[p].pc \in {"backoff", "answered"}, Unposted(call[p])
      PROVE  IsSendCall(call'[p], p) /\ InCall(p) /\ call'[p].req = call[p].req
  <2>1. PICK s : s = call'[p]
    OBVIOUS
  <2>2. s.pc = state /\ s.req = call[p].req
    BY <1>2, <1>4, <2>1 DEF Attempt
  <2>3. QED  BY <1>4, <2>1, <2>2 DEF IsSendCall, Unposted, InCall
<1>5. ASSUME NEW kind, Fail(p, kind), call[p].pc = "answered",
             kind \in {"api", "network"} \/ Unposted(call[p])
      PROVE  IsSendCall(call'[p], p) /\ ~InCall(p)'
  <2>1. PICK s : s = call'[p]
    OBVIOUS
  <2>2. s.pc = "failed" /\ s.kind = kind
    BY <1>2, <1>5, <2>1 DEF Fail
  <2>3. QED  BY <1>5, <2>1, <2>2 DEF IsSendCall, Unposted, InCall
<1>6. CASE Resend(p)
  BY <1>4, <1>6 DEF Resend, Unposted
<1>7. CASE Receive(p)
  <2>1. call[p].pc = "answered"
        /\ \/ r.status = "success" /\ CallTo(p, [pc |-> "ok", body |-> r.body])
           \/ r.status = "limited" /\ Attempt(p, "backoff", call[p].retries + 1)
           \/ r.status \in {"limited", "auth"} /\ \E kind : Fail(p, kind)
           \/ Fail(p, "api")
    BY <1>7 DEF Receive, MayRetry
  <2>2. r.status \in {"limited", "auth"} => Unposted(call[p])
    BY <2>1 DEF Unposted
  <2>3. QED  BY <1>3, <1>4, <1>5, <1>7, <2>1, <2>2
<1>8. QED  BY <1>6, <1>7

LEMMA HttpKeepsPostInv ==
    ASSUME BotInv, PostInv, NEW c \in Client, Http(c)
    PROVE  PostInv'
<1>1. /\ log' = log /\ stray' = stray
      /\ agenda' = agenda /\ told' = told /\ pc' = pc /\ mem' = mem
      /\ Receive(c) \/ Resend(c)
  BY DEF Http, chatVars, cliVars
<1>2. \E s : CallTo(c, s) /\ (s.pc \in {"sent", "backoff", "answered"} =>
                                  InCall(c) /\ s.req = call[c].req)
  BY <1>1 DEF Receive, Resend, Attempt, Fail, InCall
<1>3. \A d \in Client : /\ d # c => call'[d] = call[d]
                        /\ InCall(d)' => InCall(d) /\ call'[d].req = call[d].req
  BY <1>2, CallOf DEF InCall
<1>4. SendersInv'
  BY <1>1, <1>3 DEF PostInv, SendersInv
<1>5. ASSUME NEW p \in Proc PROVE ProcInv(p)'
  <2>1. SamePosts(p) /\ NoMoreStrays(p) /\ p \in Client /\ ProcInv(p)
    BY <1>1, SameChat, TriggerAssumption DEF PostInv
  <2>2. CASE p # c
    BY <1>1, <1>3, <2>1, <2>2, OthersKeepProcInv DEF SameProcess
  <2>3. CASE p = c
    <3>1. PICK s : s = call'[p]
      OBVIOUS
    <3>2. Sending(p) => IsSendCall(s, p)
      BY <1>1, <2>1, <2>3, <3>1, SendCallGoesOn DEF ProcInv, SendInv
    <3>3. QED  BY <1>1, <1>3, <2>1, <3>1, <3>2, CallMoves
  <2>4. QED  BY <2>2, <2>3
<1>6. QED  BY <1>4, <1>5 DEF PostInv
\* What somebody else has posted.
LEMMA OthersPost ==
    ASSUME LogGrows, Len(log') = Len(log) + 1, NEW p, log'[Len(log) + 1].proc # p
    PROVE  SamePosts(p)
<1>1. \A n : Posts(p, n)' = Posts(p, n)
  BY OneMorePost
<1>2. \A n : \A i \in Posts(p, n) : log'[i] = log[i]
  BY PostsGrow
<1>3. \A i \in 1..Len(log') : i \in 1..Len(log) \/ i = Len(log) + 1
  BY DEF LogGrows
<1>4. QED  BY <1>1, <1>2, <1>3 DEF SamePosts, LogGrows

LEMMA NobodyIsNoProcess == None \notin Proc
BY OpenersAssumption, OpenerAssumption

\* A request that is not carried out has not posted anything.
LEMMA CallIsAnswered ==
    ASSUME BotInv, NEW p \in Proc, ProcInv(p), SamePosts(p), NoMoreStrays(p),
           agenda' = agenda, told' = told, pc' = pc, mem' = mem,
           NEW r, Respond(p, r),
           Sending(p) => r.status \notin {"success", "unreadable"}
    PROVE  ProcInv(p)'
<1> DEFINE s == [pc |-> "answered", req |-> call[p].req, retries |-> call[p].retries,
                 response |-> r]
<1>1. p \in Client /\ CallTo(p, s) /\ call[p].pc = "sent"
  BY TriggerAssumption DEF Respond
<1>2. s.pc = "answered" /\ s.req = call[p].req /\ s.response = r
  OBVIOUS
<1> HIDE DEF s
<1>3. call'[p] = s
  BY <1>1, CallOf
<1>4. Sending(p) => IsSendCall(s, p)
  BY <1>1, <1>2 DEF ProcInv, SendInv, IsSendCall, Unposted
<1>5. InCall(p)' => InCall(p) /\ call'[p].req = call[p].req
  BY <1>1, <1>2, <1>3 DEF InCall
<1>6. QED  BY <1>3, <1>4, <1>5, CallMoves

LEMMA ServeKeepsPostInv ==
    ASSUME BotInv, PostInv, NEW c \in Client, Serve(c), LogGrows,
           UNCHANGED <<agenda, told, pc, mem>>
    PROVE  PostInv'
<1> DEFINE req == call[c].req
<1>1. /\ call[c].pc = "sent" /\ stray' = stray
      /\ \E r : Respond(c, r)
  BY DEF Serve
<1>2. \A d \in Client \ {c} : call'[d] = call[d]
  BY <1>1, CallOf DEF Respond
<1>3. InCall(c) /\ (InCall(c)' => call'[c].req = req)
  <2>1. PICK r : Respond(c, r)
    BY <1>1
  <2>2. call'[c] = [pc |-> "answered", req |-> req, retries |-> call[c].retries, response |-> r]
    BY <2>1, CallOf DEF Respond
  <2>3. QED  BY <1>1, <2>2 DEF InCall
<1>4. SendersInv'
  BY <1>1, <1>2, <1>3 DEF PostInv, SendersInv, InCall
<1>5. \A p \in Proc : ProcInv(p) /\ p \in Client /\ NoMoreStrays(p)
  BY <1>1, TriggerAssumption DEF PostInv, NoMoreStrays
<1>6. ASSUME NEW p \in Proc, p # c, SamePosts(p) PROVE ProcInv(p)'
  BY <1>2, <1>5, <1>6, OthersKeepProcInv DEF SameProcess
<1>7. ASSUME c \in Proc, SamePosts(c), req.op # "post" PROVE ProcInv(c)'
  <2>1. ~Sending(c)
    BY <1>1, <1>5, <1>7 DEF ProcInv, SendInv, IsSendCall
  <2>2. QED  BY <1>1, <1>5, <1>7, <2>1, CallIsAnswered
<1>8. CASE Refused(req)
  <2>1. log' = log /\ Respond(c, [status |-> "other"])
    BY <1>8 DEF Serve
  <2>2. \A p \in Proc : SamePosts(p)
    BY <1>1, <2>1, SameChat
  <2>3. c \in Proc => ProcInv(c)'
    <3>1. PICK r : r = [status |-> "other"]
      OBVIOUS
    <3>2. r.status = "other" /\ Respond(c, r)
      BY <2>1, <3>1
    <3>3. QED  BY <1>5, <2>2, <3>2, CallIsAnswered
  <2>4. QED  BY <1>4, <1>6, <2>2, <2>3 DEF PostInv
<1>9. CASE ~Refused(req) /\ req.op # "post"
  <2>1. Effect(req)
    BY <1>9 DEF Serve
  <2>2. \A p \in Proc : SamePosts(p)
    <3>1. CASE req.op = "thread"
      <4>1. log' = Append(log, Notice(req.ch))
        BY <2>1, <3>1 DEF Effect
      <4>2. Notice(req.ch).proc = None /\ IsSequence(log)
        BY DEF Notice, PostOf, BotInv, ChatInv, LogInv
      <4>3. Len(log') = Len(log) + 1 /\ log'[Len(log) + 1].proc = None
        BY <4>1, <4>2, AppendToSequence
      <4>4. QED  BY <4>3, OthersPost, NobodyIsNoProcess
    <3>2. CASE req.op # "thread"
      <4>1. log' = log
        BY <1>9, <2>1, <3>2 DEF Effect
      <4>2. QED  BY <1>1, <4>1, SameChat
    <3>3. QED  BY <3>1, <3>2
  <2>3. QED  BY <1>4, <1>6, <1>7, <1>9, <2>2 DEF PostInv
<1>10. CASE ~Refused(req) /\ req.op = "post"
  <2>1. c \in Proc /\ Sending(c)
    BY <1>3, <1>10 DEF PostInv, SendersInv, ProcInv
  <2>2. req.proc = c
    BY <1>1, <1>5, <2>1 DEF ProcInv, SendInv, IsSendCall, IsPart
  <2>3. log' = Append(log, Posted(req)) /\ IsSequence(log)
    BY <1>10 DEF Serve, Effect, BotInv, ChatInv, LogInv
  <2>4. Len(log') = Len(log) + 1 /\ log'[Len(log) + 1] = Posted(req)
    BY <2>3, AppendToSequence
  <2>5. \A p \in Proc \ {c} : SamePosts(p)
    BY <2>2, <2>4, OthersPost DEF Posted
  <2>6. ProcInv(c)'
    <3>1. PICK r : Respond(c, r) /\ (r.status = "unreadable"
                                     \/ (r.status = "success" /\ r.body = Len(log) + 1))
      <4>1. \/ \E body \in Bodies(req) : Respond(c, [status |-> "success", body |-> body])
            \/ Respond(c, [status |-> "unreadable"])
        BY <1>10 DEF Serve
      <4>2. Bodies(req) = {Len(log) + 1}
        BY <1>10 DEF Bodies
      <4>3. ASSUME NEW r, r = [status |-> "success", body |-> Len(log) + 1]
            PROVE  r.status = "success" /\ r.body = Len(log) + 1
        BY <4>3
      <4>4. ASSUME NEW r, r = [status |-> "unreadable"] PROVE r.status = "unreadable"
        BY <4>4
      <4>5. QED  BY <4>1, <4>2, <4>3, <4>4
    <3>2. PICK s : s = call'[c]
      OBVIOUS
    <3>3. s.pc = "answered" /\ s.req = req /\ s.response = r
      BY <3>1, <3>2, CallOf DEF Respond
    <3>4. QED  BY <1>1, <1>5, <1>10, <2>1, <2>4, <3>1, <3>2, <3>3, PartIsServed
  <2>7. QED  BY <1>4, <1>6, <2>5, <2>6 DEF PostInv
<1>11. QED  BY <1>8, <1>9, <1>10
\* What a request leaves behind that is given up is of its own process.
LEMMA OthersLeaveNothing ==
    ASSUME BotInv, PostInv, NEW c \in Client, LeaveBehind(c)
    PROVE  /\ \/ stray' = stray
              \/ /\ call[c].pc = "sent" /\ call[c].req.op = "post"
                 /\ stray' = stray \cup {call[c].req}
           /\ \A p \in Proc \ {c} : NoMoreStrays(p)
           /\ \A r \in stray' : r.proc \in Proc
<1>1. \/ stray' = stray
      \/ /\ call[c].pc = "sent" /\ call[c].req.op = "post"
         /\ stray' = stray \cup {call[c].req}
  BY DEF LeaveBehind
<1>2. call[c].pc = "sent" /\ call[c].req.op = "post" => c \in Proc /\ call[c].req.proc = c
  BY DEF PostInv, SendersInv, ProcInv, SendInv, IsSendCall, IsPart, InCall
<1>3. QED  BY <1>1, <1>2 DEF NoMoreStrays, PostInv, SendersInv

LEMMA LoseKeepsPostInv ==
    ASSUME BotInv, PostInv, NEW c \in Client, Lose(c), UNCHANGED <<agenda, told, pc, mem>>
    PROVE  PostInv'
<1>1. /\ log' = log /\ LeaveBehind(c)
      /\ CallTo(c, [pc |-> "failed", kind |-> "network"])
  BY DEF Lose, Break, Fail
<1>2. /\ \/ stray' = stray
         \/ /\ call[c].pc = "sent" /\ call[c].req.op = "post"
            /\ stray' = stray \cup {call[c].req}
      /\ \A p \in Proc \ {c} : NoMoreStrays(p)
      /\ \A r \in stray' : r.proc \in Proc
  BY <1>1, OthersLeaveNothing
<1>3. PICK s : s = call'[c]
  OBVIOUS
<1>4. s.pc = "failed" /\ s.kind = "network" /\ \A d \in Client \ {c} : call'[d] = call[d]
  BY <1>1, <1>3, CallOf
<1>5. SendersInv'
  BY <1>2, <1>3, <1>4 DEF PostInv, SendersInv, InCall
<1>6. \A p \in Proc : SamePosts(p) /\ p \in Client /\ ProcInv(p)
  BY <1>1, TriggerAssumption DEF PostInv, SamePosts, Posts
<1>7. ASSUME NEW p \in Proc, p # c PROVE ProcInv(p)'
  BY <1>2, <1>4, <1>6, <1>7, OthersKeepProcInv DEF SameProcess
<1>8. c \in Proc => ProcInv(c)'
  BY <1>2, <1>3, <1>4, <1>6, CallIsLost
<1>9. QED  BY <1>5, <1>7, <1>8 DEF PostInv

LEMMA NetworkKeepsPostInv ==
    ASSUME BotInv, PostInv, LogGrows, NEW c \in Client, Network(c)
    PROVE  PostInv'
<1>1. UNCHANGED <<agenda, told, pc, mem>>
  BY DEF Network, cliVars
<1>2. CASE Serve(c)
  BY <1>1, <1>2, ServeKeepsPostInv
<1>3. CASE Lose(c)
  BY <1>1, <1>3, LoseKeepsPostInv
<1>4. CASE Refuse(c)
  <2>1. log' = log /\ stray' = stray
    BY <1>4 DEF Refuse, chatVars
  <2>2. PICK r : Respond(c, r) /\ r.status \in {"auth", "other", "limited"}
    BY <1>4 DEF Refuse, Refusal
  <2>3. \A d \in Client \ {c} : call'[d] = call[d]
    BY <2>2, CallOf DEF Respond
  <2>4. InCall(c)' => InCall(c) /\ call'[c].req = call[c].req
    BY <2>2, CallOf DEF Respond, InCall
  <2>5. SendersInv'
    BY <2>1, <2>3, <2>4 DEF PostInv, SendersInv, InCall
  <2>6. \A p \in Proc : SamePosts(p) /\ NoMoreStrays(p) /\ p \in Client /\ ProcInv(p)
    BY <2>1, SameChat, TriggerAssumption DEF PostInv
  <2>7. ASSUME NEW p \in Proc, p # c PROVE ProcInv(p)'
    BY <1>1, <2>3, <2>6, <2>7, OthersKeepProcInv DEF SameProcess
  <2>8. c \in Proc => ProcInv(c)'
    BY <1>1, <2>2, <2>6, CallIsAnswered
  <2>9. QED  BY <2>5, <2>7, <2>8 DEF PostInv
<1>5. QED  BY <1>2, <1>3, <1>4 DEF Network

\* People post, and requests arrive late.
LEMMA ChatterKeepsPostInv ==
    ASSUME BotInv, PostInv, LogGrows, Chatter
    PROVE  PostInv'
<1>1. \A p \in Proc : SameProcess(p) /\ ProcInv(p)
  BY DEF Chatter, cliVars, SameProcess, PostInv
<1>2. IsSequence(log) /\ call' = call
  BY DEF Chatter, BotInv, ChatInv, LogInv
<1>3. stray' \subseteq stray => SendersInv'
  BY <1>2 DEF PostInv, SendersInv, InCall
<1>4. ASSUME NEW e, Say(e) PROVE PostInv'
  <2>1. log' = Append(log, PostOf(e)) /\ stray' = stray /\ PostOf(e).proc = None
    BY <1>4 DEF Say, PostOf
  <2>2. Len(log') = Len(log) + 1 /\ log'[Len(log) + 1].proc = None
    BY <1>2, <2>1, AppendToSequence
  <2>3. \A p \in Proc : SamePosts(p) /\ NoMoreStrays(p)
    BY <2>1, <2>2, OthersPost, NobodyIsNoProcess DEF NoMoreStrays
  <2>4. QED  BY <1>1, <1>3, <2>1, <2>3, OthersKeepProcInv DEF PostInv
<1>5. ASSUME NEW r \in stray, Arrive(r) PROVE PostInv'
  <2>1. /\ stray' = stray \ {r}
        /\ log' = IF Refused(r) THEN log ELSE Append(log, Posted(r))
    BY <1>5 DEF Arrive
  <2>2. \A p : NoMoreStrays(p)
    BY <2>1 DEF NoMoreStrays
  <2>3. CASE Refused(r)
    <3>1. \A p : SamePosts(p)
      BY <2>1, <2>3 DEF SamePosts, Posts
    <3>2. QED  BY <1>1, <1>3, <2>1, <2>2, <3>1, OthersKeepProcInv DEF PostInv
  <2>4. CASE ~Refused(r)
    <3>1. Len(log') = Len(log) + 1 /\ log'[Len(log) + 1] = Posted(r) /\ Posted(r).proc = r.proc
      BY <1>2, <2>1, <2>4, AppendToSequence DEF Posted
    <3>2. ASSUME NEW p \in Proc PROVE ProcInv(p)'
      <4>1. CASE r.proc = p
        BY <1>1, <2>1, <3>1, <4>1, StrayArrives
      <4>2. CASE r.proc # p
        BY <1>1, <2>2, <3>1, <4>2, OthersPost, OthersKeepProcInv
      <4>3. QED  BY <4>1, <4>2
    <3>3. QED  BY <1>3, <2>1, <3>2 DEF PostInv
  <2>5. QED  BY <2>3, <2>4
<1>6. QED  BY <1>4, <1>5 DEF Chatter

\* A hook begins with nothing said and nothing posted.
LEMMA HookKeepsProcInv ==
    ASSUME BotInv, NEW h \in Proc, ProcInv(h), SamePosts(h), NoMoreStrays(h),
           agenda[h] = <<>>, UNCHANGED <<pc, mem, told>>, call'[h] = call[h]
    PROVE  ProcInv(h)'
<1>1. Len(told[h]) = 0 /\ pc[h] = "idle"
  BY SequenceFacts, EmptySequence DEF BotInv, CliInv, CliShape, CliTypeOK
<1>2. ~Sending(h) /\ ~Sending(h)' /\ ~(InCall(h) /\ call[h].req.op = "post")'
  BY <1>1 DEF Sending, ProcInv, InCall
<1>3. \A n : Posts(h, n) = {}
  BY <1>1, <1>2 DEF Posts, ProcInv
<1>4. \A n : Posts(h, n)' = {}
  BY <1>3 DEF SamePosts
<1>5. (\A i \in 1..Len(log) : log[i].proc = h =>
          log[i].job \in 1..Len(told[h]) \/ (log[i].job = Job(h) /\ Sending(h)))'
  BY <1>1, <1>2 DEF ProcInv, SamePosts
<1>6. \A r \in stray' : r.proc # h
  BY <1>1, <1>2 DEF ProcInv, IsStray, NoMoreStrays
<1>7. (\A n \in 1..Len(agenda[h]) : Ordered(h, n))'
  BY <1>4 DEF Ordered
<1>8. SendInv(h)'
  BY <1>2 DEF SendInv
<1>9. QED  BY <1>1, <1>2, <1>5, <1>6, <1>7, <1>8 DEF ProcInv
LEMMA DaemonKeepsPostInv ==
    ASSUME BotInv, PostInv, Daemon \/ Mishap
    PROVE  PostInv'
<1>1. log' = log /\ stray' = stray /\ UNCHANGED <<pc, mem, told>>
  BY DEF Daemon, Mishap, chatVars
<1>2. agenda' = agenda \/ HookStarts
  BY StepKeepsTriggerInv DEF BotInv, Next, Progress, Mishap, Gap, End, ChangeDirs
<1>3. Gateway \in Client \ Proc /\ Proc \subseteq Client
  BY TriggerAssumption
<1>4. /\ \A d \in Client \ {Gateway} : call'[d] = call[d]
      /\ InCall(Gateway)' => \/ InCall(Gateway) /\ call'[Gateway].req = call[Gateway].req
                             \/ call'[Gateway].req.op = "channel"
  <2>1. \/ call' = call
        \/ \E ch : Issue(Gateway, [op |-> "channel", ch |-> ch])
        \/ HangUp(Gateway)
    BY DEF Daemon, LoopStep, Boot, Ready, OnMessage, LookupOk, LookupFailed, Mishap, Gap, End,
           ChangeDirs
  <2>2. CASE call' = call
    BY <2>2 DEF InCall
  <2>3. ASSUME NEW ch, Issue(Gateway, [op |-> "channel", ch |-> ch])
        PROVE  /\ \A d \in Client \ {Gateway} : call'[d] = call[d]
               /\ call'[Gateway].req.op = "channel"
    BY <1>3, <2>3, CallOf DEF Issue
  <2>4. CASE HangUp(Gateway)
    BY <1>3, <2>4, CallOf DEF HangUp, InCall
  <2>5. QED  BY <2>1, <2>2, <2>3, <2>4
<1>5. SendersInv'
  BY <1>1, <1>4 DEF PostInv, SendersInv, InCall
<1>6. \A p \in Proc : /\ SamePosts(p) /\ NoMoreStrays(p) /\ ProcInv(p)
                      /\ call'[p] = call[p]
  BY <1>1, <1>3, <1>4, SameChat DEF PostInv
<1>7. CASE agenda' = agenda
  BY <1>1, <1>5, <1>6, <1>7, OthersKeepProcInv DEF SameProcess, PostInv
<1>8. CASE HookStarts
  <2>1. PICK h \in HookProc : agenda[h] = <<>> /\ \E c : agenda' = [agenda EXCEPT ![h] = <<c>>]
    BY <1>8 DEF HookStarts
  <2>2. h \in Proc /\ \A p \in Proc \ {h} : agenda'[p] = agenda[p]
    BY <2>1, TriggerAssumption DEF BotInv, CliInv, CliShape
  <2>3. ProcInv(h)'
    BY <1>1, <1>6, <2>1, <2>2, HookKeepsProcInv
  <2>4. ASSUME NEW p \in Proc \ {h} PROVE ProcInv(p)'
    BY <1>1, <1>6, <2>2, OthersKeepProcInv DEF SameProcess
  <2>5. QED  BY <1>5, <2>3, <2>4 DEF PostInv
<1>9. QED  BY <1>2, <1>7, <1>8

\* The answer to any command, with what it does to the process.
LEMMA CommandEnds ==
    ASSUME BotInv, NEW p \in Proc, ProcInv(p), SamePosts(p),
           NEW kind \in AnswerKind, NEW ids, NEW cursor, Finish(p, kind, ids, cursor),
           pc[p] # "idle" \/ Len(told[p]) < Len(agenda[p]),
           \A a : a.kind = kind /\ a.ids = ids =>
              /\ IsReport(a, p, Job(p))
              /\ \A r \in stray' : r.proc = p => /\ IsLate(r, p)'
                                                 /\ r \in stray \/ r.job = Job(p)
                                                 /\ r.job = Job(p) => Excuses(a, r),
           InCall(p)' => call'[p].req.op # "post"
    PROVE  ProcInv(p)'
<1>1. /\ agenda' = agenda /\ pc'[p] = "idle"
  BY DEF Finish, BotInv, CliInv, CliTypeOK
<1> DEFINE a == [kind |-> kind, ids |-> ids, cursor |-> cursor]
<1>2. /\ IsSequence(told[p]) /\ Len(told'[p]) = Len(told[p]) + 1
      /\ \A n \in 1..Len(told[p]) : told'[p][n] = told[p][n]
      /\ told'[p][Len(told[p]) + 1] = a
  BY FinishKeepsCliInv DEF BotInv
<1>3. a.kind = kind /\ a.ids = ids
  OBVIOUS
<1> HIDE DEF a
<1>4. QED  BY <1>1, <1>2, <1>3, ProcessAnswers

\* A command that is not a "send" ends, or is turned away before its first call.
LEMMA OtherAnswers ==
    ASSUME BotInv, NEW p \in Proc, ProcInv(p), SamePosts(p), NoMoreStrays(p),
           NEW kind \in AnswerKind, NEW ids, NEW cursor, Finish(p, kind, ids, cursor),
           pc[p] # "idle" \/ Len(told[p]) < Len(agenda[p]),
           \/ Command(p).op # "send"
           \/ pc[p] = "idle" /\ kind # "ok" /\ ids = <<>>,
           call'[p] = call[p] \/ ~InCall(p)'
    PROVE  ProcInv(p)'
<1>1. ~Sending(p) /\ agenda' = agenda
  BY DEF Sending, Finish
<1>2. Len(told[p]) \in Nat
  BY SequenceFacts DEF BotInv, CliInv, CliShape
<1>3. \A r \in stray' : r.proc = p => IsLate(r, p)' /\ r \in stray /\ r.job # Job(p)
  BY <1>1, <1>2, LatesStay DEF ProcInv, IsStray, NoMoreStrays, Job
<1>4. Posts(p, Job(p)) = {}
  BY <1>1, <1>2 DEF ProcInv, Posts, Job
<1>5. Named(p, Job(p), <<>>)
  BY EmptySequence DEF Named
<1>6. \A a : a.kind = kind /\ a.ids = ids => IsReport(a, p, Job(p))
  BY <1>4, <1>5 DEF IsReport, Command, Job
<1>7. InCall(p)' => call'[p].req.op # "post"
  BY <1>1 DEF ProcInv, InCall
<1>8. QED  BY <1>3, <1>6, <1>7, CommandEnds
LEMMA StartSendKeepsProcInv ==
    ASSUME BotInv, NEW p \in Proc, ProcInv(p), SamePosts(p), NoMoreStrays(p), StartSend(p)
    PROVE  ProcInv(p)'
<1> DEFINE cmd == Command(p)
           texts == Texts(cmd)
           ch == Resolve(cmd.ch, Loaded.fields.aliases)
           req == PostRequest(p, texts, ch, 1)
<1>1. Starts(p, {"send"}) /\ pc[p] = "idle" /\ Len(told[p]) < Len(agenda[p]) /\ cmd.op = "send"
  BY DEF StartSend, Starts
<1>2. CASE Reject(p, "config") \/ Reject(p, "usage")
  <2>1. PICK kind \in {"config", "usage"} : Finish(p, kind, <<>>, Cursor(p)) /\ call' = call
    BY <1>2 DEF Reject, Answer
  <2>2. kind \in AnswerKind /\ kind # "ok"
    BY <2>1 DEF AnswerKind, ErrorKind
  <2>3. QED  BY <1>1, <2>1, <2>2, OtherAnswers
<1>3. CASE /\ cmd.extras # "bad" /\ texts # None
           /\ Issue(p, req)
           /\ Goto(p, "calling", [texts |-> texts, ch |-> ch, ids |-> <<>>])
  <2>1. /\ agenda' = agenda /\ told' = told /\ pc'[p] = "calling"
        /\ mem'[p] = [texts |-> texts, ch |-> ch, ids |-> <<>>]
    BY <1>3 DEF Goto, BotInv, CliInv, CliShape, CliTypeOK
  <2>2. mem'[p].ids = <<>> /\ mem'[p].texts = texts /\ DOMAIN mem'[p] = {"texts", "ch", "ids"}
    BY <2>1
  <2>3. call'[p] = [pc |-> "sent", req |-> req, retries |-> 0]
    BY <1>3, CallOf, TriggerAssumption DEF Issue
  <2>4. /\ req.op = "post" /\ req.proc = p /\ req.job = Job(p) /\ req.part = 1
        /\ req.text = texts[1] /\ (req.extras <=> cmd.extras # "none")
    BY DEF PostRequest, Job
  <2>5. Sending(p)' /\ Part(p)' = 1
    BY <1>1, <2>1, <2>2, EmptySequence DEF Sending, Command, Part
  <2>6. IsPart(req, p, Job(p), Part(p)')
    BY <2>4, <2>5 DEF IsPart, Command, Job
  <2>7. Len(told[p]) \in Nat /\ ~Sending(p)
    BY <1>1, SequenceFacts DEF BotInv, CliInv, CliShape, Sending
  <2>8. Posts(p, Job(p)) = {}
    BY <2>7 DEF ProcInv, Posts, Job
  <2>9. Named(p, Job(p), <<>>) /\ UpTo(p, Job(p), Len(<<>>))
    BY <2>8, EmptySequence DEF Named, UpTo
  <2>10. \A r \in stray : r.proc = p => r.job # Job(p)
    BY <2>7 DEF ProcInv, IsStray, Job
  <2>11. ChunkerIsRight => Len(Texts(Command(p))) \in Nat /\ Part(p)' <= Len(Texts(Command(p)))
    <3>1. cmd.content \in Content
      BY <1>1, CommandIsCommand DEF BotInv, IsCommand
    <3>2. CASE cmd.split
      <4>1. texts = SplitOf[cmd.content]
        BY <1>3, <3>2 DEF Texts
      <4>2. ChunkerIsRight => IsSequence(texts) /\ Len(texts) > 0
        BY <1>3, <3>1, <4>1 DEF ChunkerIsRight
      <4>3. QED  BY <2>5, <4>2, SequenceFacts
    <3>3. CASE ~cmd.split
      <4>1. texts = <<cmd.content>>
        BY <1>3, <3>3 DEF Texts
      <4>2. QED  BY <2>5, <4>1
    <3>4. QED  BY <3>2, <3>3
  <2> HIDE DEF req, texts, cmd
  <2>12. mem'[p].texts = Texts(Command(p)) /\ Texts(Command(p)) # None
    BY <1>3, <2>2 DEF texts, cmd
  <2>13. \A i \in Posts(p, Job(p)) : log[i].part \in Nat
    BY <2>8
  <2>14. QED
    BY <2>1, <2>2, <2>3, <2>4, <2>5, <2>6, <2>9, <2>10, <2>11, <2>12, <2>13, ProcessSends
<1>4. QED  BY <1>2, <1>3 DEF StartSend
\* The parts that a "send" knows of, with the one it has just been told of.
LEMMA OneMoreNamed ==
    ASSUME NEW p, NEW n, NEW ids, Named(p, n, ids),
           NEW i, IsPost(i, p, n, Len(ids) + 1)
    PROVE  Named(p, n, Append(ids, i)) /\ Len(Append(ids, i)) = Len(ids) + 1
<1>1. /\ IsSequence(Append(ids, i)) /\ Len(Append(ids, i)) = Len(ids) + 1
      /\ \A k \in 1..Len(ids) : Append(ids, i)[k] = ids[k]
      /\ Append(ids, i)[Len(ids) + 1] = i
  BY AppendToSequence DEF Named
<1>2. Len(ids) \in Nat
  BY SequenceFacts DEF Named
<1>3. \A k \in 1..Len(ids) + 1 : k \in 1..Len(ids) \/ k = Len(ids) + 1
  BY <1>2
<1>4. \A k \in 1..Len(ids) + 1 : IsPost(Append(ids, i)[k], p, n, k)
  BY <1>1, <1>2, <1>3 DEF Named
<1>5. QED  BY <1>1, <1>4 DEF Named

LEMMA SendOnKeepsProcInv ==
    ASSUME BotInv, NEW p \in Proc, ProcInv(p), SamePosts(p), NoMoreStrays(p), SendOn(p)
    PROVE  ProcInv(p)'
<1> DEFINE texts == mem[p].texts
           sent == IF call[p].pc = "ok" THEN Append(mem[p].ids, call[p].body) ELSE mem[p].ids
           more == Len(sent) < Len(texts)
           req == PostRequest(p, texts, mem[p].ch, Len(sent) + 1)
<1>1. Sending(p) /\ Command(p).op = "send" /\ pc[p] = "calling"
  BY DEF SendOn, Sending
<1>2. /\ DOMAIN mem[p] = {"texts", "ch", "ids"}
      /\ texts = Texts(Command(p)) /\ Texts(Command(p)) # None
      /\ ChunkerIsRight => Len(Texts(Command(p))) \in Nat /\ Part(p) <= Len(Texts(Command(p)))
      /\ Named(p, Job(p), mem[p].ids) /\ UpTo(p, Job(p), Part(p)) /\ IsSendCall(call[p], p)
  BY <1>1 DEF ProcInv, SendInv
<1>3. Len(told[p]) \in Nat /\ Job(p) \in 1..Len(agenda[p])
  BY <1>1, SequenceFacts DEF Job, BotInv, CliInv, CliShape, CliTypeOK
<1>4. \A i \in Posts(p, Job(p)) : log[i].part \in Nat
  BY <1>3 DEF ProcInv, Ordered
<1>5. Len(mem[p].ids) \in Nat /\ Part(p) = Len(mem[p].ids) + 1
  BY <1>2, SequenceFacts DEF Part, Named
<1>6. ASSUME call[p].pc = "ok"
      PROVE  /\ Named(p, Job(p), sent) /\ Len(sent) = Part(p)
             /\ \A r \in stray : r.proc = p => r.job # Job(p)
  BY <1>2, <1>5, <1>6, OneMoreNamed DEF IsSendCall
<1>7. HangUp(p) => ~InCall(p)'
  BY CallOf, TriggerAssumption DEF HangUp, InCall
<1> HIDE DEF sent, req, texts
<1>8. CASE call[p].pc = "ok" /\ more
  <2>1. Issue(p, req) /\ Goto(p, "calling", [mem[p] EXCEPT !.ids = sent])
    BY <1>8 DEF SendOn, sent, req, texts
  <2>2. /\ agenda' = agenda /\ told' = told /\ pc'[p] = "calling"
        /\ mem'[p] = [mem[p] EXCEPT !.ids = sent]
    BY <2>1 DEF Goto, BotInv, CliInv, CliShape, CliTypeOK
  <2>3. /\ mem'[p].ids = sent /\ mem'[p].texts = texts
        /\ DOMAIN mem'[p] = {"texts", "ch", "ids"}
    BY <1>2, <2>2 DEF texts
  <2>4. call'[p] = [pc |-> "sent", req |-> req, retries |-> 0]
    BY <2>1, CallOf, TriggerAssumption DEF Issue
  <2>5. /\ req.op = "post" /\ req.proc = p /\ req.job = Job(p) /\ req.part = Len(sent) + 1
        /\ req.text = texts[Len(sent) + 1]
        /\ (req.extras <=> Command(p).extras # "none" /\ Len(sent) + 1 = 1)
    BY DEF req, PostRequest, Job
  <2>6. Sending(p)' /\ Part(p)' = Len(sent) + 1
    BY <1>1, <2>2, <2>3 DEF Sending, Command, Part
  <2>7. IsPart(req, p, Job(p), Part(p)')
    BY <1>2, <2>5, <2>6 DEF IsPart, Command, Job
  <2>8. ChunkerIsRight => Len(Texts(Command(p))) \in Nat
                          /\ Part(p)' <= Len(Texts(Command(p)))
    BY <1>2, <1>5, <1>6, <1>8, <2>6
  <2>9. UpTo(p, Job(p), Len(sent))
    BY <1>2, <1>6, <1>8
  <2>10. QED
    BY <1>2, <1>4, <1>6, <1>8, <2>2, <2>3, <2>4, <2>5, <2>6, <2>7, <2>8, <2>9, ProcessSends
<1>9. CASE call[p].pc = "ok" /\ ~more
  <2>1. HangUp(p) /\ Finish(p, "ok", sent, Cursor(p))
    BY <1>9 DEF SendOn, sent, texts
  <2>2. ASSUME NEW a, a.kind = "ok", a.ids = sent PROVE IsReport(a, p, Job(p))
    <3>1. IsWholeBody(a, Command(p))
      BY <1>2, <1>5, <1>6, <1>9, <2>2 DEF IsWholeBody
    <3>2. \A i \in Posts(p, Job(p)) : log[i].part <= Len(a.ids)
      BY <1>2, <1>6, <1>9, <2>2 DEF UpTo
    <3>3. QED  BY <1>6, <1>9, <2>2, <3>1, <3>2 DEF IsReport, Command, Job
  <2>3. \A r \in stray' : r.proc = p => IsLate(r, p)' /\ r \in stray /\ r.job # Job(p)
    BY <1>6, <1>9, <2>1, LatesStay DEF ProcInv, IsStray, NoMoreStrays, Finish
  <2>4. "ok" \in AnswerKind
    BY DEF AnswerKind
  <2>5. QED  BY <1>1, <1>7, <2>1, <2>2, <2>3, <2>4, CommandEnds
<1>10. CASE call[p].pc = "failed"
  <2>1. HangUp(p) /\ Finish(p, call[p].kind, mem[p].ids, Cursor(p))
    BY <1>10 DEF SendOn
  <2>2. call[p].kind \in CallKind
    BY <1>10, TriggerAssumption DEF BotInv, RestTypeOK
  <2>3. call[p].kind \in AnswerKind /\ call[p].kind # "ok"
    BY <2>2 DEF CallKind, AnswerKind, ErrorKind
  <2>4. call[p].kind \notin {"api", "network"} => UpTo(p, Job(p), Part(p) - 1)
    BY <1>2, <1>10 DEF IsSendCall, Unposted
  <2>5. ASSUME NEW a, a.kind = call[p].kind, a.ids = mem[p].ids PROVE IsReport(a, p, Job(p))
    <3>1. \A i \in Posts(p, Job(p)) :
             \/ log[i].part <= Len(a.ids)
             \/ log[i].part = Len(a.ids) + 1 /\ a.kind \in {"api", "network"}
      BY <1>2, <1>4, <1>5, <2>4, <2>5 DEF UpTo
    <3>2. QED  BY <1>2, <2>3, <2>5, <3>1 DEF IsReport
  <2>6. ASSUME NEW r \in stray', r.proc = p
        PROVE  /\ IsLate(r, p)' /\ r \in stray
               /\ r.job = Job(p) => call[p].kind = "network" /\ r.part = Part(p)
    <3>1. IsStray(r, p) /\ r \in stray
      BY <2>6 DEF ProcInv, NoMoreStrays
    <3>2. IsLate(r, p)'
      BY <2>1, <2>6, <3>1, LatesStay DEF IsStray, Finish
    <3>3. r.job = Job(p) => call[p].kind = "network" /\ r.part = Part(p)
      BY <1>2, <1>3, <2>6, <3>1 DEF IsStray, IsSendCall, Job
    <3>4. QED  BY <3>1, <3>2, <3>3
  <2>7. ASSUME NEW a, a.kind = call[p].kind, a.ids = mem[p].ids, NEW r \in stray', r.proc = p
        PROVE  r.job = Job(p) => Excuses(a, r)
    BY <1>5, <2>6, <2>7 DEF Excuses
  <2>8. QED  BY <1>1, <1>7, <2>1, <2>3, <2>5, <2>6, <2>7, CommandEnds
<1>11. QED  BY <1>8, <1>9, <1>10 DEF SendOn, sent, texts
\* A command that is not a "send" goes on: it may ask for something, but posts nothing.
LEMMA CommandGoesOn ==
    ASSUME BotInv, NEW p \in Proc, ProcInv(p), SamePosts(p), NoMoreStrays(p),
           Command(p).op # "send", NEW s, NEW m, Goto(p, s, m),
           \/ call'[p] = call[p] \/ ~InCall(p)'
           \/ call'[p].req.op # "post"
    PROVE  ProcInv(p)'
<1>1. agenda' = agenda /\ told' = told
  BY DEF Goto
<1>2. InCall(p)' => call'[p].req.op # "post"
  BY DEF ProcInv, InCall, Sending
<1>3. QED  BY <1>1, <1>2, ProcessMoves

LEMMA OtherStepsKeepProcInv ==
    ASSUME BotInv, NEW p \in Proc, ProcInv(p), SamePosts(p), NoMoreStrays(p),
           \/ InitStep(p) /\ call' = call
           \/ StartRead(p) \/ ReadOn(p) \/ PollAgain(p) \/ StartThread(p) \/ ThreadOn(p)
           \/ StartStore(p) \/ EndStore(p)
    PROVE  ProcInv(p)'
<1> USE DEF AnswerKind, ErrorKind
<1>1. p \in Client
  BY TriggerAssumption
<1>2. HangUp(p) => ~InCall(p)'
  BY <1>1, CallOf DEF HangUp, InCall
<1>3. \A req : Issue(p, req) => call'[p].req = req
  BY <1>1, CallOf DEF Issue
<1>4. ASSUME NEW kind \in AnswerKind, NEW ids, NEW cursor, Finish(p, kind, ids, cursor),
             pc[p] # "idle" \/ Len(told[p]) < Len(agenda[p]),
             Command(p).op # "send" \/ (pc[p] = "idle" /\ kind # "ok" /\ ids = <<>>),
             call' = call \/ HangUp(p)
      PROVE  ProcInv(p)'
  BY <1>2, <1>4, OtherAnswers
<1>5. ASSUME NEW s, NEW m, Goto(p, s, m), Command(p).op # "send",
             call' = call \/ HangUp(p) \/ \E req : Issue(p, req) /\ req.op # "post"
      PROVE  ProcInv(p)'
  BY <1>2, <1>3, <1>5, CommandGoesOn
<1>6. pc[p] \notin {"idle", "calling"} => Command(p).op # "send"
  BY DEF ProcInv
<1>7. CASE InitStep(p) /\ call' = call
  BY <1>4, <1>5, <1>6, <1>7 DEF InitStep, CheckExists, Reload, Truncate, Fill, Starts, Answer
<1>8. CASE StartRead(p)
  <2>1. PageRequest(p, Resolve(Command(p).ch, Loaded.fields.aliases)).op # "post"
    BY DEF PageRequest
  <2>2. QED  BY <1>4, <1>5, <1>8, <2>1 DEF StartRead, Starts, Reject, Answer
<1>9. CASE ReadOn(p)
  <2>1. call[p].pc = "failed" => call[p].kind \in AnswerKind
    BY <1>1 DEF BotInv, RestTypeOK, CallKind
  <2>2. QED  BY <1>4, <1>5, <1>9, <2>1 DEF ReadOn, Answer
<1>10. CASE PollAgain(p)
  <2>1. PageRequest(p, mem[p].ch).op # "post"
    BY DEF PageRequest
  <2>2. QED  BY <1>5, <1>6, <1>10, <2>1 DEF PollAgain
<1>11. CASE StartThread(p)
  <2>1. \A ch, from : [op |-> "thread", ch |-> ch, from |-> from].op # "post"
    OBVIOUS
  <2>2. QED  BY <1>4, <1>5, <1>11, <2>1 DEF StartThread, Starts, Reject, Answer
<1>12. CASE ThreadOn(p)
  <2>1. call[p].pc = "failed" => call[p].kind \in AnswerKind
    BY <1>1 DEF BotInv, RestTypeOK, CallKind
  <2>2. QED  BY <1>4, <1>12, <2>1 DEF ThreadOn, Answer
<1>13. CASE StartStore(p)
  BY <1>5, <1>13 DEF StartStore, Starts
<1>14. CASE EndStore(p)
  BY <1>4, <1>6, <1>14 DEF EndStore, Answer
<1>15. QED  BY <1>7, <1>8, <1>9, <1>10, <1>11, <1>12, <1>13, <1>14

\* Nothing that a process does touches the others.
LEMMA OthersStay ==
    ASSUME BotInv, NEW p \in Proc, CliStep(p) \/ Kill(p), NEW q \in Proc \ {p}
    PROVE  SameProcess(q)
<1>1. \A s, m : Goto(p, s, m) => UNCHANGED <<agenda, told>> /\ pc'[q] = pc[q] /\ mem'[q] = mem[q]
  BY DEF Goto, BotInv, CliInv, CliShape, CliTypeOK
<1>2. \A kind, ids, cursor : Finish(p, kind, ids, cursor) =>
         agenda' = agenda /\ told'[q] = told[q] /\ pc'[q] = pc[q] /\ mem'[q] = mem[q]
  BY DEF Finish, BotInv, CliInv, CliShape, CliTypeOK
<1>3. p \in Client /\ q \in Client \ {p}
  BY TriggerAssumption
<1>4. call'[q] = call[q]
  <2>1. call' = call \/ \E s : CallTo(p, s)
    BY DEF CliStep, WriteConfig, Converse, MessageStep, StartSend, SendOn, StartRead, ReadOn,
           PollAgain, StartThread, ThreadOn, Reject, StartStore, MigrateStore, EndStore, Kill,
           Issue, HangUp
  <2>2. QED  BY <1>3, <2>1, CallOf
<1>5. agenda'[q] = agenda[q] /\ told'[q] = told[q] /\ pc'[q] = pc[q] /\ mem'[q] = mem[q]
  <2>1. CASE WriteConfig(p)
    BY <1>1, <1>2, <2>1 DEF WriteConfig, InitStep, CheckExists, Reload, Truncate, Fill, Answer
  <2>2. CASE Converse(p)
    BY <1>1, <1>2, <2>2 DEF Converse, MessageStep, StartSend, SendOn, StartRead, ReadOn,
           PollAgain, StartThread, ThreadOn, Reject, Answer
  <2>3. CASE StartStore(p) \/ MigrateStore(p) \/ EndStore(p) \/ Kill(p)
    BY <1>1, <1>2, <2>3 DEF StartStore, MigrateStore, EndStore, Kill, cliVars, Answer
  <2>4. QED  BY <2>1, <2>2, <2>3 DEF CliStep
<1>6. QED  BY <1>4, <1>5 DEF SameProcess
LEMMA CliStepKeepsPostInv ==
    ASSUME BotInv, PostInv, NEW p \in Proc, CliStep(p)
    PROVE  PostInv'
<1>1. log' = log /\ stray' = stray
  BY DEF CliStep, WriteConfig, Converse, StartStore, MigrateStore, EndStore, chatVars
<1>2. p \in Client
  BY TriggerAssumption
<1>3. call' = call \/ \E s : CallTo(p, s)
  BY DEF CliStep, WriteConfig, Converse, MessageStep, StartSend, SendOn, StartRead, ReadOn,
         PollAgain, StartThread, ThreadOn, Reject, StartStore, MigrateStore, EndStore,
         Issue, HangUp
<1>4. \A c \in Client \ Proc : call'[c] = call[c]
  BY <1>2, <1>3, CallOf
<1>5. SendersInv'
  BY <1>1, <1>4 DEF PostInv, SendersInv, InCall
<1>6. \A q \in Proc : SamePosts(q) /\ NoMoreStrays(q) /\ ProcInv(q)
  BY <1>1, SameChat DEF PostInv
<1>7. ASSUME NEW q \in Proc \ {p} PROVE ProcInv(q)'
  BY <1>6, OthersStay, OthersKeepProcInv
<1>8. ProcInv(p)'
  <2>1. CASE StartSend(p)
    BY <1>6, <2>1, StartSendKeepsProcInv
  <2>2. CASE SendOn(p)
    BY <1>6, <2>2, SendOnKeepsProcInv
  <2>3. CASE MigrateStore(p)
    BY <1>6, <2>3, OthersKeepProcInv DEF MigrateStore, cliVars, SameProcess
  <2>4. CASE WriteConfig(p) \/ StartStore(p) \/ EndStore(p)
    BY <1>6, <2>4, OtherStepsKeepProcInv DEF WriteConfig
  <2>5. CASE StartRead(p) \/ ReadOn(p) \/ PollAgain(p) \/ StartThread(p) \/ ThreadOn(p)
    BY <1>6, <2>5, OtherStepsKeepProcInv
  <2>6. QED  BY <2>1, <2>2, <2>3, <2>4, <2>5 DEF CliStep, Converse, MessageStep
<1>9. QED  BY <1>5, <1>7, <1>8 DEF PostInv

\* What a killed process has posted and left behind, its answer does not say.
LEMMA KillKeepsPostInv ==
    ASSUME BotInv, PostInv, NEW p \in Proc, Kill(p)
    PROVE  PostInv'
<1>1. /\ pc[p] # "idle" /\ log' = log
      /\ Finish(p, "killed", <<>>, Cursor(p)) /\ HangUp(p) /\ LeaveBehind(p)
  BY DEF Kill, Answer
<1>2. p \in Client
  BY TriggerAssumption
<1>3. /\ \/ stray' = stray
         \/ /\ call[p].pc = "sent" /\ call[p].req.op = "post"
            /\ stray' = stray \cup {call[p].req}
      /\ \A q \in Proc \ {p} : NoMoreStrays(q)
      /\ \A r \in stray' : r.proc \in Proc
  BY <1>1, <1>2, OthersLeaveNothing
<1>4. ~InCall(p)' /\ \A c \in Client \ {p} : call'[c] = call[c]
  BY <1>1, <1>2, CallOf DEF HangUp, InCall
<1>5. SendersInv'
  BY <1>3, <1>4 DEF PostInv, SendersInv, InCall
<1>6. \A q \in Proc : SamePosts(q) /\ ProcInv(q)
  BY <1>1 DEF PostInv, SamePosts, Posts
<1>7. ASSUME NEW q \in Proc \ {p} PROVE ProcInv(q)'
  BY <1>3, <1>6, OthersStay, OthersKeepProcInv
<1>8. ProcInv(p)'
  <2>1. agenda' = agenda /\ "killed" \in AnswerKind
    BY <1>1 DEF Finish, AnswerKind
  <2>2. ASSUME NEW r \in stray', r.proc = p
        PROVE  IsLate(r, p)' /\ (r \in stray \/ r.job = Job(p))
    BY <1>3, <1>6, <2>1, <2>2, LeftBehind
  <2>3. \A a : a.kind = "killed" => IsReport(a, p, Job(p)) /\ \A r : Excuses(a, r)
    BY DEF IsReport, Excuses
  <2>4. QED  BY <1>1, <1>4, <1>6, <2>1, <2>2, <2>3, CommandEnds
<1>9. QED  BY <1>5, <1>7, <1>8 DEF PostInv

LEMMA InitPostInv == Init => PostInv
<1> SUFFICES ASSUME Init PROVE PostInv
  OBVIOUS
<1>1. /\ log = <<>> /\ stray = {} /\ told = [p \in Proc |-> <<>>] /\ pc = [p \in Proc |-> "idle"]
      /\ call = [c \in Client |-> [pc |-> "idle"]]
  BY DEF Init, CliInit, ChatInit, RestInit
<1>2. Len(log) = 0 /\ \A p \in Proc : Len(told[p]) = 0
  BY <1>1, EmptySequence
<1>3. \A c \in Client : ~InCall(c)
  BY <1>1 DEF InCall
<1>4. ASSUME NEW p \in Proc PROVE ProcInv(p)
  <2>1. ~Sending(p) /\ p \in Client /\ pc[p] = "idle"
    BY <1>1, TriggerAssumption DEF Sending
  <2>2. \A n : Posts(p, n) = {}
    BY <1>2 DEF Posts
  <2>3. \A n \in 1..Len(agenda[p]) : Ordered(p, n)
    BY <2>2 DEF Ordered
  <2>4. QED  BY <1>1, <1>2, <1>3, <2>1, <2>3 DEF ProcInv, SendInv
<1>5. QED  BY <1>1, <1>3, <1>4 DEF PostInv, SendersInv

LEMMA StepKeepsPostInv ==
    ASSUME BotInv, PostInv, [Next]_vars
    PROVE  PostInv'
<1>1. LogGrows
  BY StepKeepsChatInv DEF BotInv
<1>2. CASE UNCHANGED vars
  <2>1. log' = log /\ stray' = stray /\ call' = call /\ UNCHANGED cliVars
    BY <1>2 DEF vars, chatVars
  <2>2. \A p \in Proc : SamePosts(p) /\ NoMoreStrays(p) /\ ProcInv(p) /\ SameProcess(p)
    BY <2>1, SameChat DEF PostInv, SameProcess, cliVars
  <2>3. SendersInv'
    BY <2>1 DEF PostInv, SendersInv, InCall
  <2>4. QED  BY <2>2, <2>3, OthersKeepProcInv DEF PostInv
<1>3. QED
  BY <1>1, <1>2, CliStepKeepsPostInv, HttpKeepsPostInv, NetworkKeepsPostInv, DaemonKeepsPostInv,
     ChatterKeepsPostInv, KillKeepsPostInv DEF Next, Progress

LEMMA SpecPostInv == Spec => [](BotInv /\ PostInv)
<1>1. Init => BotInv /\ PostInv
  BY InitBotInv, InitPostInv
<1>2. BotInv /\ PostInv /\ [Next]_vars => (BotInv /\ PostInv)'
  BY StepKeepsBotInv, StepKeepsPostInv
<1>3. QED  BY <1>1, <1>2, PTL DEF Spec

-------------------------------------------------------------------------------
(* What follows for every body, every fault and every order of steps.      *)

\* However many calls fail, requests arrive late and processes die: what "send" has posted is
\* a beginning of its parts, each once, in order, with the files and the reply on the first
\* alone (run_send_split, send_retrying).
THEOREM PartsGoOutInOrder == Spec => []PartsInOrder
<1>1. BotInv /\ PostInv => PartsInOrder
  <2> SUFFICES ASSUME BotInv, PostInv, NEW p \in Proc, NEW n \in 1..Len(agenda[p]),
                      NEW i \in Posts(p, n)
               PROVE  /\ log[i].part > 0
                      /\ \A k \in 1..log[i].part - 1 :
                            \E j \in Posts(p, n) : j < i /\ log[j].part = k
                      /\ \A j \in Posts(p, n) : log[j].part = log[i].part => j = i
                      /\ log[i].extras <=> (agenda[p][n].extras # "none" /\ log[i].part = 1)
    BY DEF PartsInOrder
  <2>1. Ordered(p, n)
    BY DEF PostInv, ProcInv
  <2>2. log[i].part \in Nat \ {0} /\ IsPart(log[i], p, n, log[i].part)
    BY <2>1 DEF Ordered
  <2>3. QED  BY <2>1, <2>2 DEF Ordered, IsPart
<1>2. QED  BY <1>1, SpecPostInv, PTL

\* Whoever gets an answer to "send" knows what is posted, and will be: what the answer names,
\* and one part more only if the exit code says that Discord or the network failed
\* (run_send_split, exit_code).
THEOREM AnswersToSendAreTrue == Spec => []SentIsReported
<1>1. BotInv /\ PostInv => SentIsReported
  <2> SUFFICES ASSUME BotInv, PostInv, NEW p \in Proc, NEW n \in 1..Len(told[p]),
                      agenda[p][n].op = "send", told[p][n].kind # "killed"
               PROVE  /\ \A k \in 1..Len(told[p][n].ids) :
                            told[p][n].ids[k] \in Posts(p, n) /\ log[told[p][n].ids[k]].part = k
                      /\ \A i \in Posts(p, n) :
                            \/ log[i].part <= Len(told[p][n].ids)
                            \/ log[i].part = Len(told[p][n].ids) + 1
                               /\ ExitCode(told[p][n].kind) \in {4, 6}
    BY DEF SentIsReported
  <2>1. IsReport(told[p][n], p, n)
    BY DEF PostInv, ProcInv
  <2>2. ExitCode("api") = 4 /\ ExitCode("network") = 6
    BY DEF ExitCode
  <2>3. QED  BY <2>1, <2>2 DEF IsReport, Named, IsPost
<1>2. QED  BY <1>1, SpecPostInv, PTL

\* If the chunker cuts a body as promised, then so it is posted: retries, refusals and other
\* processes neither lose a chunk nor put one in another's place (run_send_split).
THEOREM SplitsArePostedWhole ==
    ASSUME ChunkerIsRight
    PROVE  Spec => []SplitIsFaithful
<1>1. BotInv /\ PostInv => SplitIsFaithful
  <2> SUFFICES ASSUME BotInv, PostInv, NEW p \in Proc, NEW n \in 1..Len(told[p]),
                      agenda[p][n].op = "send", told[p][n].kind = "ok", agenda[p][n].split
               PROVE  IsSplitOf(agenda[p][n].content,
                                [k \in 1..Len(told[p][n].ids) |-> log[told[p][n].ids[k]].text])
    BY DEF SplitIsFaithful
  <2> DEFINE a == told[p][n]
             cmd == agenda[p][n]
             texts == Texts(cmd)
  <2>1. IsReport(a, p, n) /\ \A m \in 1..Len(agenda[p]) : Ordered(p, m)
    BY DEF PostInv, ProcInv
  <2>2. /\ n \in 1..Len(agenda[p]) /\ IsSequence(agenda[p])
    BY SequenceFacts DEF BotInv, CliInv, CliShape
  <2>3. cmd.content \in Content
    <3>1. cmd \in ToSet(agenda[p])
      BY <2>2, SequenceFacts
    <3>2. QED  BY <3>1 DEF BotInv, AgendaInv, IsCommand
  <2>4. texts # None /\ Len(a.ids) = Len(texts) /\ Named(p, n, a.ids)
    BY <2>1 DEF IsReport, IsWholeBody
  <2>5. texts = SplitOf[cmd.content]
    BY <2>4 DEF Texts
  <2>6. IsSequence(texts) /\ IsSplitOf(cmd.content, texts)
    BY <2>3, <2>4, <2>5 DEF ChunkerIsRight
  <2>7. texts = [k \in 1..Len(texts) |-> texts[k]]
    BY <2>6, LenProperties DEF IsSequence
  <2>8. \A k \in 1..Len(a.ids) : log[a.ids[k]].text = texts[k]
    <3> TAKE k \in 1..Len(a.ids)
    <3>1. a.ids[k] \in Posts(p, n) /\ log[a.ids[k]].part = k
      BY <2>4 DEF Named, IsPost
    <3>2. IsPart(log[a.ids[k]], p, n, k)
      BY <2>1, <2>2, <3>1 DEF Ordered
    <3>3. QED  BY <3>2 DEF IsPart
  <2>9. [k \in 1..Len(a.ids) |-> log[a.ids[k]].text] = texts
    BY <2>4, <2>7, <2>8
  <2>10. QED  BY <2>6, <2>9
<1>2. QED  BY <1>1, SpecPostInv, PTL
===============================================================================
