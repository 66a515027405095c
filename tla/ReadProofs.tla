-------------------------------- MODULE ReadProofs ----------------------------
(***************************************************************************)
(* Theorem about "read" and "wait", for DiscordBot: a reader that follows  *)
(* a channel misses nothing and gets nothing twice.                        *)
(***************************************************************************)
EXTENDS SendProofs, FiniteSetTheorems

-------------------------------------------------------------------------------
(* Sets of numbers, enumerated.                                            *)

Increasing(s, n) == \A j, k \in 1..n : j < k => s[j] < s[k]

\* In a finite set of numbers every rank is taken, and greater numbers have greater ranks.
LEMMA RankSurjective ==
    ASSUME NEW S \in SUBSET Nat, IsFiniteSet(S)
    PROVE  /\ Cardinality(S) \in Nat
           /\ \A k \in 1..Cardinality(S) : \E x \in S : Cardinality({y \in S : y <= x}) = k
           /\ \A x, y \in S : x <= y => Cardinality({z \in S : z <= x}) <= Cardinality({z \in S : z <= y})
<1> DEFINE n == Cardinality(S)
           upto(x) == {y \in S : y <= x}
           g == [x \in S |-> Cardinality(upto(x))]
<1>0. \A x \in S : x \in Nat
  OBVIOUS
<1>1. n \in Nat
  BY FS_CardinalityType
<1>2. \A x \in S : IsFiniteSet(upto(x)) /\ Cardinality(upto(x)) \in Nat /\ Cardinality(upto(x)) <= n
  <2> TAKE x \in S
  <2>1. upto(x) \in SUBSET S
    OBVIOUS
  <2>2. QED  BY <2>1, FS_Subset, FS_CardinalityType
<1>3. \A x \in S : Cardinality(upto(x)) # 0
  <2> TAKE x \in S
  <2>1. x \in upto(x)
    OBVIOUS
  <2>2. QED  BY <1>2, <2>1, FS_EmptySet
<1>4. ASSUME NEW x \in S, NEW y \in S, x < y PROVE Cardinality(upto(x)) < Cardinality(upto(y))
  <2>0. x \in Nat /\ y \in Nat
    BY <1>0
  <2>3. \A z \in S : z <= x => z <= y
    BY <1>0, <1>4, <2>0
  <2>4. ~(y <= x) /\ y <= y
    BY <1>4, <2>0
  <2>1. upto(x) \in SUBSET upto(y) /\ y \in upto(y) /\ y \notin upto(x)
    BY <2>3, <2>4
  <2>2. Cardinality(upto(x)) <= Cardinality(upto(y)) /\ Cardinality(upto(y)) # Cardinality(upto(x))
    BY <1>2, <2>1, FS_Subset
  <2>5. QED  BY <1>2, <2>2
<1>5. g \in Injection(S, 1..n)
  <2>1. g \in [S -> 1..n]
    BY <1>1, <1>2, <1>3
  <2>2. \A x, y \in S : g[x] = g[y] => x = y
    <3> SUFFICES ASSUME NEW x \in S, NEW y \in S, Cardinality(upto(x)) = Cardinality(upto(y)) PROVE x = y
      OBVIOUS
    <3>1. x < y \/ y < x \/ x = y
      OBVIOUS
    <3> HIDE DEF upto
    <3>2. QED BY <3>1, <1>4, <1>2
  <2>3. QED  BY <2>1, <2>2 DEF Injection, IsInjective
<1>6. g \in Surjection(S, 1..n)
  <2>1. IsFiniteSet(1..n) /\ Cardinality(1..n) = n
    BY <1>1, FS_Interval
  <2> HIDE DEF g
  <2>2. QED  BY <1>5, <2>1, FS_Injection
<1>7. \A k \in 1..n : \E x \in S : Cardinality(upto(x)) = k
  BY <1>6 DEF Surjection
<1>8. \A x, y \in S : x <= y => Cardinality(upto(x)) <= Cardinality(upto(y))
  <2> SUFFICES ASSUME NEW x \in S, NEW y \in S, x <= y PROVE Cardinality(upto(x)) <= Cardinality(upto(y))
    OBVIOUS
  <2>0. \A z \in S : z <= x => z <= y
    BY <1>0
  <2>1. upto(x) \in SUBSET upto(y)
    BY <2>0
  <2>2. QED  BY <1>2, <2>1, FS_Subset
<1>9. QED  BY <1>1, <1>7, <1>8

\* The ascending enumeration of a finite set exists, and names each of its numbers.
LEMMA AscendingFacts ==
    ASSUME NEW S \in SUBSET Nat, IsFiniteSet(S)
    PROVE  LET s == Ascending(S) n == Cardinality(S)
           IN /\ n \in Nat /\ s \in [1..n -> S] /\ Increasing(s, n)
              /\ \A x \in S : \E k \in 1..n : s[k] = x
<1> DEFINE n == Cardinality(S)
           rank(x) == Cardinality({y \in S : y <= x})
           e == [k \in 1..n |-> CHOOSE x \in S : rank(x) = k]
<1>1. /\ n \in Nat
      /\ \A k \in 1..n : \E x \in S : rank(x) = k
      /\ \A x, y \in S : x <= y => rank(x) <= rank(y)
  BY RankSurjective
<1> HIDE DEF rank
<1>2. \A k \in 1..n : e[k] \in S /\ rank(e[k]) = k
  BY <1>1
<1>3. e \in [1..n -> S]
  BY <1>2
<1>4. Increasing(e, n)
  <2> SUFFICES ASSUME NEW j \in 1..n, NEW k \in 1..n, j < k PROVE e[j] < e[k]
    BY DEF Increasing
  <2> HIDE DEF e
  <2>1. e[j] \in Nat /\ e[k] \in Nat
    BY <1>2
  <2>2. e[k] \in S /\ e[j] \in S /\ rank(e[k]) = k /\ rank(e[j]) = j
    BY <1>2
  <2>4. ~(e[k] <= e[j])
    <3> SUFFICES ASSUME e[k] <= e[j] PROVE FALSE
      OBVIOUS
    <3>1. rank(e[k]) <= rank(e[j])
      BY <1>1, <2>2
    <3>2. QED  BY <1>1, <2>2, <3>1
  <2>3. QED  BY <2>1, <2>4
<1>5. Ascending(S) \in [1..n -> S] /\ Increasing(Ascending(S), n)
  BY <1>3, <1>4 DEF Ascending, Increasing
<1>6. PICK s : s = Ascending(S)
  OBVIOUS
<1>7. s \in Injection(1..n, S)
  <2>1. s \in [1..n -> S] /\ Increasing(s, n)
    BY <1>5, <1>6
  <2>2. \A j, k \in 1..n : s[j] = s[k] => j = k
    <3> SUFFICES ASSUME NEW j \in 1..n, NEW k \in 1..n, s[j] = s[k], j # k PROVE FALSE
      OBVIOUS
    <3>1. j < k \/ k < j
      BY <1>1
    <3>2. s[j] \in Nat /\ s[k] \in Nat
      BY <2>1
    <3>3. QED  BY <2>1, <3>1, <3>2 DEF Increasing
  <2>3. QED  BY <2>1, <2>2 DEF Injection, IsInjective
<1>8. s \in Surjection(1..n, S)
  <2>1. IsFiniteSet(1..n) /\ Cardinality(1..n) = n
    BY <1>1, FS_Interval
  <2>2. QED  BY <1>7, <2>1, FS_Injection
<1>9. \A x \in S : \E k \in 1..n : s[k] = x
  BY <1>8 DEF Surjection
<1>10. QED  BY <1>1, <1>5, <1>6, <1>9
-------------------------------------------------------------------------------
(* The invariant, reader by reader.                                        *)

Following(p) == pc[p] \in {"calling", "sleeping"} /\ Command(p).op \in {"read", "wait"}

\* Messages of the channel that the current command reads; whatever that channel has between
\* the cursor, or the first of them if there is none, and the last of them is one of them.
IsPage(body, p) ==
    LET ids == ToSet(body)
        all == InChannel(Source(p, Job(p)))
    IN /\ IsSequence(body) /\ ids \subseteq all
       /\ Cursor(p) # None => \A i \in ids : i > Cursor(p)
       /\ \A i \in all : \A b \in ids :
             i < b /\ ((Cursor(p) # None /\ i > Cursor(p)) \/ \E a \in ids : a < i) => i \in ids

\* A reader asks for what is behind its cursor.
IsReadCall(c, p) ==
    /\ c.pc \in {"sent", "backoff", "answered"} =>
          /\ c.req.op = "page" /\ c.req.limit \in Nat
          /\ c.req.after = Cursor(p) /\ c.req.ch = Source(p, Job(p))
    /\ c.pc = "answered" /\ c.response.status = "success" => IsPage(c.response.body, p)
    /\ c.pc = "ok" => IsPage(c.body, p)

\* The two halves of the property.
InOrder(p) == \A m, n \in Reads(p) :
                 \A j \in 1..Len(told[p][m].ids) : \A k \in 1..Len(told[p][n].ids) :
                    m < n \/ (m = n /\ j < k) => told[p][m].ids[j] < told[p][n].ids[k]
Gapless(p) == \A a, b \in Seen(p) : \A i \in a..b : i \in Seen(p) <=> log[i].ch = log[a].ch

\* The cursor is the newest message seen.
SeenInv(p) ==
    /\ \A n \in Reads(p) : /\ IsSequence(told[p][n].ids)
                           /\ ToSet(told[p][n].ids) \subseteq InChannel(Source(p, n))
    /\ Cursor(p) # None => Cursor(p) \in Seen(p)
    /\ \A i \in Seen(p) : Cursor(p) # None /\ i <= Cursor(p)
    /\ InOrder(p) /\ Gapless(p)

ReaderInv(p) ==
    p \in Followers =>
       /\ Following(p) => /\ DOMAIN mem[p] = {"ch", "polls"} /\ mem[p].ch = Source(p, Job(p))
                          /\ Command(p).limit \in Nat
       /\ Following(p) /\ pc[p] = "calling" => IsReadCall(call[p], p)
       /\ SeenInv(p)

ReadInv == \A p \in Proc : ReaderInv(p)

-------------------------------------------------------------------------------
(* What a step leaves alone.                                               *)

SameReader(p) == agenda'[p] = agenda[p] /\ told'[p] = told[p] /\ scenario' = scenario

LEMMA ReaderStays ==
    ASSUME NEW p, SameReader(p)
    PROVE  /\ Reads(p)' = Reads(p) /\ Seen(p)' = Seen(p) /\ Cursor(p)' = Cursor(p)
           /\ Job(p)' = Job(p) /\ Command(p)' = Command(p)
           /\ \A n : Source(p, n)' = Source(p, n)
           /\ (p \in Followers)' <=> p \in Followers
<1>1. Kept' = Kept /\ Reading(p)' = Reading(p)
  BY DEF SameReader, Kept, Reading
<1>2. \A n : Source(p, n)' = Source(p, n)
  BY <1>1 DEF SameReader, Source
<1>3. (p \in Followers)' <=> p \in Followers
  BY <1>1, <1>2 DEF Followers
<1>4. Reads(p)' = Reads(p)
  BY <1>1 DEF SameReader, Reads
<1>5. Seen(p)' = Seen(p)
  BY <1>4 DEF SameReader, Seen
<1>6. QED  BY <1>2, <1>3, <1>4, <1>5 DEF SameReader, Cursor, Job, Command

LEMMA ChannelGrows ==
    ASSUME LogGrows
    PROVE  \A ch : /\ InChannel(ch) \subseteq InChannel(ch)' /\ InChannel(ch) \subseteq 1..Len(log)
                   /\ \A i \in InChannel(ch)' : i \in 1..Len(log) => i \in InChannel(ch)
BY DEF LogGrows, InChannel

\* Whatever is posted later is behind every page.
LEMMA PageStays ==
    ASSUME LogGrows, NEW p, SameReader(p), NEW body, IsPage(body, p)
    PROVE  IsPage(body, p)'
<1> DEFINE ids == ToSet(body)
<1>0. PICK ch : ch = Source(p, Job(p))
  OBVIOUS
<1>1. /\ Source(p, Job(p))' = ch /\ Cursor(p)' = Cursor(p)
  BY <1>0, ReaderStays
<1>2. /\ ids \subseteq InChannel(ch)
      /\ InChannel(ch) \subseteq InChannel(ch)' /\ InChannel(ch) \subseteq 1..Len(log)
      /\ \A i \in InChannel(ch)' : i \in 1..Len(log) => i \in InChannel(ch)
  BY <1>0, ChannelGrows DEF IsPage
<1> HIDE DEF ids
<1>3. ASSUME NEW i \in InChannel(ch)', NEW b \in ids, i < b PROVE i \in InChannel(ch)
  <2>1. b \in 1..Len(log) /\ i \in 1..Len(log') /\ Len(log) \in Nat /\ Len(log') \in Nat
    BY <1>2 DEF InChannel, LogGrows
  <2>2. i \in 1..Len(log)
    BY <1>3, <2>1
  <2>3. QED  BY <1>2, <2>2
<1>4. QED  BY <1>0, <1>1, <1>2, <1>3 DEF IsPage, ids

LEMMA SeenStays ==
    ASSUME LogGrows, NEW p, SameReader(p), SeenInv(p)
    PROVE  SeenInv(p)'
<1>1. /\ Reads(p)' = Reads(p) /\ Seen(p)' = Seen(p) /\ Cursor(p)' = Cursor(p)
      /\ \A n : Source(p, n)' = Source(p, n)
      /\ told'[p] = told[p]
  BY ReaderStays DEF SameReader
<1>2. InOrder(p)'
  BY <1>1 DEF SeenInv, InOrder
<1>3. Seen(p) \subseteq 1..Len(log)
  BY DEF SeenInv, Seen, InChannel
<1>4. Gapless(p)'
  <2> SUFFICES ASSUME NEW a \in Seen(p), NEW b \in Seen(p), NEW i \in a..b
               PROVE  i \in Seen(p) <=> log'[i].ch = log'[a].ch
    BY <1>1 DEF Gapless
  <2>1. a \in 1..Len(log) /\ i \in 1..Len(log)
    BY <1>3 DEF LogGrows
  <2>2. log'[i] = log[i] /\ log'[a] = log[a]
    BY <2>1 DEF LogGrows
  <2>3. QED  BY <2>2 DEF SeenInv, Gapless
<1>5. \A n \in Reads(p) : ToSet(told[p][n].ids) \subseteq InChannel(Source(p, n))'
  BY <1>1, ChannelGrows DEF SeenInv
<1>6. QED  BY <1>1, <1>2, <1>4, <1>5 DEF SeenInv

\* Nothing but its call has moved on.
LEMMA ReadGoesOn ==
    ASSUME LogGrows, NEW p, SameReader(p), pc'[p] = pc[p], mem'[p] = mem[p], ReaderInv(p),
           p \in Followers /\ Following(p) /\ pc[p] = "calling" => IsReadCall(call[p], p)'
    PROVE  ReaderInv(p)'
<1>1. /\ Job(p)' = Job(p) /\ Command(p)' = Command(p) /\ Following(p)' = Following(p)
      /\ \A n : Source(p, n)' = Source(p, n)
      /\ (p \in Followers)' <=> p \in Followers
  BY ReaderStays DEF Following
<1>2. QED  BY <1>1, SeenStays DEF ReaderInv

LEMMA ReadCallStays ==
    ASSUME LogGrows, NEW p, SameReader(p), NEW c, IsReadCall(c, p)
    PROVE  IsReadCall(c, p)'
BY ReaderStays, PageStays DEF IsReadCall

\* Only its call has moved on.
LEMMA ReadCallMoves ==
    ASSUME LogGrows, NEW p, SameReader(p), pc'[p] = pc[p], mem'[p] = mem[p], ReaderInv(p),
           NEW c, c = call'[p],
           p \in Followers /\ Following(p) /\ pc[p] = "calling" => IsReadCall(c, p)
    PROVE  ReaderInv(p)'
<1>1. IsReadCall(c, p) => IsReadCall(c, p)'
  BY ReadCallStays
<1>2. IsReadCall(c, p)' => IsReadCall(call[p], p)'
  BY DEF IsReadCall
<1>3. QED  BY <1>1, <1>2, ReadGoesOn

LEMMA OthersKeepReaderInv ==
    ASSUME LogGrows, NEW p, SameProcess(p), scenario' = scenario, ReaderInv(p)
    PROVE  ReaderInv(p)'
<1>1. PICK c : c = call'[p]
  OBVIOUS
<1>2. SameReader(p) /\ c = call[p] /\ pc'[p] = pc[p] /\ mem'[p] = mem[p]
  BY <1>1 DEF SameReader, SameProcess
<1>3. p \in Followers /\ Following(p) /\ pc[p] = "calling" => IsReadCall(c, p)
  <2>1. IsReadCall(call[p], p) => IsReadCall(c, p)
    BY <1>2 DEF IsReadCall
  <2>2. QED  BY <2>1 DEF ReaderInv
<1>4. QED  BY <1>1, <1>2, <1>3, ReadCallMoves

-------------------------------------------------------------------------------
(* Answers.                                                                *)

IsRead(p) == Command(p).op \in {"read", "wait"}

\* The current command gets its answer.
Answers(p, a) ==
    /\ IsSequence(told[p]) /\ IsSequence(agenda[p]) /\ Len(told[p]) < Len(agenda[p])
    /\ agenda'[p] = agenda[p] /\ scenario' = scenario
    /\ IsSequence(told'[p]) /\ Len(told'[p]) = Len(told[p]) + 1
    /\ \A n \in 1..Len(told[p]) : told'[p][n] = told[p][n]
    /\ told'[p][Len(told[p]) + 1] = a

LEMMA ReaderIsAnswered ==
    ASSUME NEW p, NEW a, Answers(p, a)
    PROVE  /\ \A n : Source(p, n)' = Source(p, n)
           /\ (p \in Followers)' <=> p \in Followers
           /\ Cursor(p)' = a.cursor
           /\ Reads(p)' = IF IsRead(p) THEN Reads(p) \cup {Job(p)} ELSE Reads(p)
           /\ \A n \in Reads(p) : n \in Nat /\ n < Job(p) /\ told'[p][n] = told[p][n]
           /\ Job(p) \in Nat /\ told'[p][Job(p)] = a
           /\ Seen(p)' = IF IsRead(p) THEN Seen(p) \cup ToSet(a.ids) ELSE Seen(p)
<1>1. Kept' = Kept /\ Reading(p)' = Reading(p)
  BY DEF Answers, Kept, Reading
<1>2. \A n : Source(p, n)' = Source(p, n)
  BY <1>1 DEF Answers, Source
<1>3. (p \in Followers)' <=> p \in Followers
  BY <1>1, <1>2 DEF Followers
<1>4. /\ Len(told[p]) \in Nat /\ Len(told'[p]) \in Nat /\ Len(agenda[p]) \in Nat
      /\ Job(p) = Len(told[p]) + 1
  BY SequenceFacts DEF Answers, Job
<1>5. Cursor(p)' = a.cursor
  <2>1. told'[p] # <<>>
    BY <1>4, EmptySequence DEF Answers
  <2>2. QED  BY <2>1 DEF Answers, Cursor, Last
<1>6. Job(p) \in Reading(p) <=> IsRead(p)
  BY <1>4 DEF Answers, Reading, IsRead, Command
<1>7. Reads(p)' = IF IsRead(p) THEN Reads(p) \cup {Job(p)} ELSE Reads(p)
  <2>1. \A n \in Reading(p) : n \in Nat
    BY DEF Reading
  <2>2. \A n \in Reading(p) : n <= Len(told'[p]) <=> n <= Len(told[p]) \/ n = Job(p)
    BY <1>4, <2>1 DEF Answers
  <2>3. QED  BY <1>1, <1>6, <2>2 DEF Reads
<1>8. \A n \in Reads(p) : n \in Nat /\ n < Job(p) /\ told'[p][n] = told[p][n]
  BY <1>4 DEF Answers, Reads, Reading
<1>9. told'[p][Job(p)] = a
  BY <1>4 DEF Answers
<1>10. Seen(p)' = IF IsRead(p) THEN Seen(p) \cup ToSet(a.ids) ELSE Seen(p)
  BY <1>7, <1>8, <1>9 DEF Seen
<1>11. QED  BY <1>2, <1>3, <1>4, <1>5, <1>7, <1>8, <1>9, <1>10

\* An answer that names no message keeps the cursor, and so does every command that does not
\* read.
LEMMA NothingIsSeen ==
    ASSUME NEW p, NEW a, Answers(p, a), log' = log, p \in Followers, SeenInv(p),
           a.cursor = Cursor(p), IsRead(p) => a.ids = <<>>
    PROVE  SeenInv(p)'
<1>1. ToSet(<<>>) = {} /\ Len(<<>>) = 0 /\ IsSequence(<<>>)
  BY EmptySequence DEF ToSet
<1>2. Seen(p)' = Seen(p) /\ Cursor(p)' = Cursor(p)
  BY <1>1, ReaderIsAnswered
<1>3. \A n \in Reads(p)' : \/ n \in Reads(p) /\ told'[p][n] = told[p][n]
                           \/ IsRead(p) /\ n = Job(p) /\ told'[p][n].ids = <<>>
  BY ReaderIsAnswered
<1>4. \A n \in Reads(p)' : /\ IsSequence(told'[p][n].ids)
                           /\ ToSet(told'[p][n].ids) \subseteq InChannel(Source(p, n))
  BY <1>1, <1>3 DEF SeenInv
<1>5. \A ch : InChannel(ch)' = InChannel(ch)
  BY DEF InChannel
<1>6. InOrder(p)'
  <2> SUFFICES ASSUME NEW m \in Reads(p)', NEW n \in Reads(p)',
                      NEW j \in 1..Len(told'[p][m].ids), NEW k \in 1..Len(told'[p][n].ids),
                      m < n \/ (m = n /\ j < k)
               PROVE  told'[p][m].ids[j] < told'[p][n].ids[k]
    BY DEF InOrder
  <2>1. told'[p][m].ids # <<>> /\ told'[p][n].ids # <<>>
    BY <1>1
  <2>2. m \in Reads(p) /\ n \in Reads(p) /\ told'[p][m] = told[p][m] /\ told'[p][n] = told[p][n]
    BY <1>3, <2>1
  <2>3. QED  BY <2>2 DEF SeenInv, InOrder
<1>7. Gapless(p)'
  BY <1>2 DEF SeenInv, Gapless
<1>8. QED  BY <1>2, <1>4, <1>5, <1>6, <1>7, ReaderIsAnswered DEF SeenInv

\* The page of a reader, in order.
LEMMA PageSorted ==
    ASSUME LogInv, NEW p, NEW body, IsPage(body, p)
    PROVE  LET ids == SortAscendingById(body)
           IN /\ ToSet(body) \subseteq Nat
              /\ IsSequence(ids) /\ ToSet(ids) = ToSet(body) /\ Increasing(ids, Len(ids))
              /\ Len(ids) \in Nat /\ \A k \in 1..Len(ids) : ids[k] \in ToSet(body)
              /\ body = <<>> => ids = <<>>
              /\ body # <<>> => /\ Last(ids) \in ToSet(body)
                               /\ \A i \in ToSet(body) : i <= Last(ids)
<1> DEFINE B == ToSet(body)
           n == Cardinality(B)
<1>1. B \subseteq 1..Len(log) /\ Len(log) \in Nat
  BY SequenceFacts DEF IsPage, InChannel, LogInv
<1>2. B \in SUBSET Nat /\ IsFiniteSet(B)
  <2>1. IsFiniteSet(1..Len(log))
    BY <1>1, FS_Interval
  <2>2. QED  BY <1>1, <2>1, FS_Subset
<1>3. PICK s : s = SortAscendingById(body)
  OBVIOUS
<1> HIDE DEF B
<1>4. /\ n \in Nat /\ s \in [1..n -> B] /\ Increasing(s, n)
      /\ \A x \in B : \E k \in 1..n : s[k] = x
  BY <1>2, <1>3, AscendingFacts DEF SortAscendingById, B
<1>5. s \in Seq(B) /\ Len(s) = n
  BY <1>4, LenProperties
<1>6. IsSequence(s) /\ ToSet(s) = B
  <2>1. IsSequence(s)
    BY <1>5, SequenceOfSet
  <2>2. DOMAIN s = 1..n
    BY <1>4
  <2>3. ToSet(s) = {s[k] : k \in 1..n}
    BY <2>2 DEF ToSet
  <2>4. QED  BY <1>4, <2>1, <2>3
<1>7. body = <<>> <=> B = {}
  <2>1. body = <<>> => B = {}
    BY DEF B, ToSet
  <2>2. Len(body) \in Nat /\ \A i \in 1..Len(body) : body[i] \in B
    BY SequenceFacts DEF IsPage, B
  <2>3. B = {} => Len(body) = 0
    BY <2>2
  <2>4. QED  BY <2>1, <2>3, EmptySeq DEF IsPage, IsSequence
<1>8. CASE body = <<>>
  <2>1. n = 0
    BY <1>4, <1>7, <1>8
  <2>2. s = <<>>
    BY <1>5, <2>1, EmptySeq
  <2>3. QED  BY <1>2, <1>3, <1>4, <1>5, <1>6, <1>8, <2>1, <2>2 DEF B
<1>9. CASE body # <<>>
  <2>1. n \in 1..n
    BY <1>4, <1>7, <1>9
  <2>2. Last(s) = s[n] /\ s[n] \in B
    BY <1>4, <1>5, <2>1 DEF Last
  <2>3. \A i \in B : i <= s[n]
    <3> TAKE i \in B
    <3>1. PICK k \in 1..n : s[k] = i
      BY <1>4
    <3>2. k < n \/ k = n
      BY <1>4, <3>1
    <3>3. i \in Nat /\ s[n] \in Nat
      BY <1>2, <2>2
    <3>4. QED  BY <1>4, <2>1, <3>1, <3>2, <3>3 DEF Increasing
  <2>4. QED  BY <1>2, <1>3, <1>4, <1>5, <1>6, <1>9, <2>2, <2>3 DEF B
<1>10. QED  BY <1>8, <1>9

\* A page goes on where the reader stood: behind all it has seen, and nothing lies between.
LEMMA PageIsSeen ==
    ASSUME LogInv, NEW p, NEW a, NEW body, Answers(p, a), log' = log,
           p \in Followers, SeenInv(p), IsRead(p), IsPage(body, p),
           a.ids = SortAscendingById(body), a.cursor = NewestCursor(body, Cursor(p))
    PROVE  SeenInv(p)'
<1> DEFINE B == ToSet(body)
<1>1. PICK ids : ids = a.ids
  OBVIOUS
<1>2. PICK ch : ch = Source(p, Job(p))
  OBVIOUS
<1>3. /\ B \subseteq Nat /\ B \subseteq InChannel(ch)
      /\ IsSequence(ids) /\ ToSet(ids) = B /\ Increasing(ids, Len(ids))
      /\ Len(ids) \in Nat /\ \A k \in 1..Len(ids) : ids[k] \in B
  BY <1>1, <1>2, PageSorted DEF IsPage
<1>4. /\ B = {} => a.cursor = Cursor(p)
      /\ B # {} => a.cursor \in B /\ \A i \in B : i <= a.cursor
  <2>1. body = <<>> => B = {}
    BY DEF ToSet
  <2>2. body # <<>> => Last(ids) \in B /\ \A i \in B : i <= Last(ids)
    BY <1>1, PageSorted
  <2>3. QED  BY <1>1, <2>1, <2>2 DEF NewestCursor
<1>5. /\ Reads(p)' = Reads(p) \cup {Job(p)} /\ Seen(p)' = Seen(p) \cup B /\ Cursor(p)' = a.cursor
      /\ \A n \in Reads(p) : n \in Nat /\ n < Job(p) /\ told'[p][n] = told[p][n]
      /\ Job(p) \in Nat /\ told'[p][Job(p)] = a
      /\ \A n : Source(p, n)' = Source(p, n)
  BY <1>1, <1>3, ReaderIsAnswered
<1>6. \A n \in Reads(p) : Source(p, n) = ch
  <2>1. Job(p) \in Reading(p)
    <3>1. Len(told[p]) \in Nat /\ Len(agenda[p]) \in Nat
      BY SequenceFacts DEF Answers
    <3>2. QED  BY <3>1 DEF Answers, Reading, IsRead, Command, Job
  <2>2. QED  BY <1>2, <2>1 DEF Followers, Reads
<1>7. /\ \A n \in Reads(p) : /\ IsSequence(told[p][n].ids)
                             /\ \A k \in 1..Len(told[p][n].ids) : told[p][n].ids[k] \in Seen(p)
      /\ Seen(p) \subseteq InChannel(ch)
  <2>1. \A n \in Reads(p) : IsSequence(told[p][n].ids) /\ ToSet(told[p][n].ids) \subseteq InChannel(ch)
    BY <1>6 DEF SeenInv
  <2>2. QED  BY <2>1, SequenceFacts DEF Seen
<1>8. /\ \A i \in InChannel(ch) : i \in Nat /\ log[i].ch = ch
      /\ \A i \in Nat, j \in InChannel(ch) : 0 < i /\ i <= j /\ log[i].ch = ch => i \in InChannel(ch)
  <2>1. Len(log) \in Nat
    BY SequenceFacts DEF LogInv
  <2>2. QED  BY <2>1 DEF InChannel
<1>9. \A i \in Seen(p) : Cursor(p) \in Seen(p) /\ i <= Cursor(p) /\ \A b \in B : i < b
  <2> TAKE i \in Seen(p)
  <2>1. Cursor(p) # None /\ Cursor(p) \in Seen(p) /\ i <= Cursor(p)
    BY DEF SeenInv
  <2>2. \A b \in B : b > Cursor(p)
    BY <2>1 DEF IsPage
  <2>3. i \in Nat /\ Cursor(p) \in Nat
    BY <1>7, <1>8, <2>1
  <2>4. QED  BY <1>3, <2>1, <2>2, <2>3
<1> HIDE DEF B
<1>10. InOrder(p)'
  <2> SUFFICES ASSUME NEW m \in Reads(p)', NEW n \in Reads(p)',
                      NEW j \in 1..Len(told'[p][m].ids), NEW k \in 1..Len(told'[p][n].ids),
                      m < n \/ (m = n /\ j < k)
               PROVE  told'[p][m].ids[j] < told'[p][n].ids[k]
    BY DEF InOrder
  <2>1. CASE m \in Reads(p) /\ n \in Reads(p)
    BY <1>5, <2>1 DEF SeenInv, InOrder
  <2>2. CASE m \in Reads(p) /\ n = Job(p)
    BY <1>1, <1>3, <1>5, <1>7, <1>9, <2>2
  <2>3. CASE m = Job(p) /\ n = Job(p)
    BY <1>1, <1>3, <1>5, <2>3 DEF Increasing
  <2>4. CASE m = Job(p) /\ n \in Reads(p)
    BY <1>5, <2>4
  <2>5. QED  BY <1>5, <2>1, <2>2, <2>3, <2>4
<1>11. Gapless(p)'
  <2> SUFFICES ASSUME NEW u \in Seen(p)', NEW v \in Seen(p)', NEW i \in u..v
               PROVE  i \in Seen(p) \cup B <=> log[i].ch = log[u].ch
    BY <1>5 DEF Gapless
  <2>1. /\ u \in InChannel(ch) /\ v \in InChannel(ch) /\ log[u].ch = ch
        /\ Seen(p) \cup B \subseteq InChannel(ch)
    BY <1>3, <1>5, <1>7, <1>8
  <2>2. i \in Seen(p) \cup B => log[i].ch = ch
    BY <1>8, <2>1
  <2>3. ASSUME log[i].ch = ch PROVE i \in Seen(p) \cup B
    <3>1. u \in 1..Len(log) /\ v \in 1..Len(log) /\ i \in 1..Len(log) /\ i \in InChannel(ch)
      <4>1. u \in 1..Len(log) /\ v \in 1..Len(log) /\ Len(log) \in Nat
        BY <2>1, SequenceFacts DEF InChannel, LogInv
      <4>2. i \in 1..Len(log)
        BY <4>1
      <4>3. QED  BY <2>3, <4>1, <4>2 DEF InChannel
    <3>2. u <= i /\ i <= v
      BY <3>1
    <3>3. \A b \in B : i < b /\ ((Cursor(p) # None /\ i > Cursor(p)) \/ \E c \in B : c < i) => i \in B
      BY <1>2, <3>1 DEF IsPage, B
    <3>4. CASE u \in Seen(p) /\ v \in Seen(p)
      <4>1. i \in Seen(p) <=> log[i].ch = log[u].ch
        BY <3>4 DEF SeenInv, Gapless
      <4>2. QED  BY <2>1, <2>3, <4>1
    <3>5. CASE u \in Seen(p) /\ v \in B
      <4>1. Cursor(p) \in Seen(p) /\ u <= Cursor(p) /\ Cursor(p) # None /\ Cursor(p) \in Nat
        BY <1>7, <1>8, <1>9, <3>5 DEF SeenInv
      <4>2. CASE i <= Cursor(p)
        <5>1. i \in u..Cursor(p)
          BY <3>1, <3>2, <4>1, <4>2
        <5>2. i \in Seen(p) <=> log[i].ch = log[u].ch
          BY <3>5, <4>1, <5>1 DEF SeenInv, Gapless
        <5>3. QED  BY <2>1, <2>3, <5>2
      <4>3. CASE i > Cursor(p)
        <5>1. i = v \/ i < v
          BY <3>1, <3>2
        <5>2. QED  BY <3>3, <3>5, <4>1, <4>3, <5>1
      <4>4. QED  BY <3>1, <4>1, <4>2, <4>3
    <3>6. CASE u \in B /\ v \in Seen(p)
      <4>1. v < u
        BY <1>9, <3>6
      <4>2. QED  BY <3>1, <3>2, <4>1
    <3>7. CASE u \in B /\ v \in B
      <4>1. (i = v \/ i < v) /\ (i = u \/ u < i)
        BY <3>1, <3>2
      <4>2. QED  BY <3>3, <3>7, <4>1
    <3>8. QED  BY <1>5, <3>4, <3>5, <3>6, <3>7
  <2>4. QED  BY <2>1, <2>2, <2>3
<1>12. \A i \in Seen(p)' : Cursor(p)' # None /\ i <= Cursor(p)'
  <2>1. CASE B = {}
    BY <1>4, <1>5, <2>1 DEF SeenInv
  <2>2. CASE B # {}
    <3>1. a.cursor \in Nat /\ a.cursor \in B /\ \A i \in B : i <= a.cursor
      BY <1>3, <1>4, <2>2
    <3>2. \A i \in Seen(p) : i \in Nat /\ i < a.cursor
      BY <1>7, <1>8, <1>9, <3>1
    <3>3. QED  BY <1>5, <3>1, <3>2, CursorAssumption
  <2>3. QED  BY <2>1, <2>2
<1>13. Cursor(p)' # None => Cursor(p)' \in Seen(p)'
  BY <1>4, <1>5 DEF SeenInv
<1>14. \A n \in Reads(p)' : /\ IsSequence(told'[p][n].ids)
                            /\ ToSet(told'[p][n].ids) \subseteq InChannel(Source(p, n))
  BY <1>1, <1>2, <1>3, <1>5 DEF SeenInv
<1>15. \A c : InChannel(c)' = InChannel(c)
  BY DEF InChannel
<1>16. QED  BY <1>5, <1>10, <1>11, <1>12, <1>13, <1>14, <1>15 DEF SeenInv

\* What Discord answers is a page, whatever else is on its way.
LEMMA PageServed ==
    ASSUME LogInv, NEW p, NEW limit \in Nat, Cursor(p) # None => Cursor(p) \in Nat
    PROVE  IsPage(Page(Source(p, Job(p)), Cursor(p), limit), p)
<1>1. PICK ch, after : ch = Source(p, Job(p)) /\ after = Cursor(p)
  OBVIOUS
<1> DEFINE S == InChannel(ch)
           T == {i \in S : i > after}
<1>2. PICK B : B = IF after = None THEN Newest(S, limit) ELSE Oldest(T, limit)
  OBVIOUS
<1>3. S \subseteq Nat /\ IsFiniteSet(S)
  <2>1. Len(log) \in Nat
    BY SequenceFacts DEF LogInv
  <2>2. IsFiniteSet(1..Len(log)) /\ S \subseteq 1..Len(log)
    BY <2>1, FS_Interval DEF InChannel
  <2>3. QED  BY <2>1, <2>2, FS_Subset
<1> HIDE DEF S
<1>4. T \subseteq S /\ IsFiniteSet(T)
  BY <1>3, FS_Subset
<1>5. B \subseteq S
  BY <1>2, <1>4 DEF Newest, Oldest
<1>6. B \in SUBSET Nat /\ IsFiniteSet(B)
  BY <1>3, <1>5, FS_Subset
<1>7. PICK s, n : s = Ascending(B) /\ n = Cardinality(B)
  OBVIOUS
<1>8. /\ n \in Nat /\ s \in [1..n -> B]
      /\ \A x \in B : \E k \in 1..n : s[k] = x
  BY <1>6, <1>7, AscendingFacts
<1>9. PICK body : body = Reverse(s)
  OBVIOUS
<1>10. IsSequence(body) /\ ToSet(body) = B
  <2>1. Len(s) = n
    BY <1>8, LenProperties
  <2>2. body = [i \in 1..n |-> s[(n - i) + 1]]
    BY <1>9, <2>1 DEF Reverse
  <2>3. \A i \in 1..n : (n - i) + 1 \in 1..n /\ (n - ((n - i) + 1)) + 1 = i
    BY <1>8
  <2>4. body \in [1..n -> B]
    BY <1>8, <2>2, <2>3
  <2>5. body \in Seq(B)
    BY <1>8, <2>4
  <2>6. \A x \in B : \E k \in 1..n : body[k] = x
    <3> TAKE x \in B
    <3>1. PICK k \in 1..n : s[k] = x
      BY <1>8
    <3>2. body[(n - k) + 1] = x
      BY <2>2, <2>3, <3>1
    <3>3. QED  BY <2>3, <3>2
  <2>7. DOMAIN body = 1..n
    BY <2>2
  <2>8. ToSet(body) = {body[k] : k \in 1..n}
    BY <2>7 DEF ToSet
  <2>9. QED  BY <2>4, <2>5, <2>6, <2>8, SequenceOfSet
<1>11. body = Page(Source(p, Job(p)), Cursor(p), limit)
  BY <1>1, <1>2, <1>7, <1>9 DEF Page, S
<1>12. ASSUME after = None, NEW i \in S, NEW a \in B, a < i PROVE i \in B
  <2> DEFINE newer(j) == {k \in S : k > j}
  <2>1. IsFiniteSet(newer(a)) /\ newer(i) \in SUBSET newer(a)
    <3>1. \A k \in S : k > i => k > a
      BY <1>3, <1>5, <1>12
    <3>2. QED  BY <1>3, <3>1, FS_Subset
  <2>2. Cardinality(newer(i)) <= Cardinality(newer(a))
        /\ Cardinality(newer(i)) \in Nat /\ Cardinality(newer(a)) \in Nat
    BY <2>1, FS_Subset, FS_CardinalityType
  <2>3. Cardinality(newer(a)) < limit
    BY <1>2, <1>12 DEF Newest
  <2>4. Cardinality(newer(i)) < limit
    BY <2>2, <2>3
  <2>5. QED  BY <1>2, <1>12, <2>4 DEF Newest
<1>13. ASSUME after # None, NEW i \in T, NEW b \in B, i < b PROVE i \in B
  <2> DEFINE older(j) == {k \in T : k < j}
  <2>1. IsFiniteSet(older(b)) /\ older(i) \in SUBSET older(b)
    <3>1. \A k \in T : k < i => k < b
      BY <1>3, <1>4, <1>5, <1>13
    <3>2. QED  BY <1>4, <3>1, FS_Subset
  <2>2. Cardinality(older(i)) <= Cardinality(older(b))
        /\ Cardinality(older(i)) \in Nat /\ Cardinality(older(b)) \in Nat
    BY <2>1, FS_Subset, FS_CardinalityType
  <2>3. Cardinality(older(b)) < limit
    BY <1>2, <1>13 DEF Oldest
  <2>4. Cardinality(older(i)) < limit
    BY <2>2, <2>3
  <2>5. QED  BY <1>2, <1>13, <2>4 DEF Oldest
<1>14. after # None => \A i \in B : i > after
  BY <1>2 DEF Oldest
<1>15. ASSUME NEW i \in S, NEW b \in B, i < b,
              (after # None /\ i > after) \/ \E a \in B : a < i
       PROVE  i \in B
  <2>1. CASE after = None
    BY <1>12, <1>15, <2>1
  <2>2. CASE after # None
    <3>1. i > after
      <4>1. after \in Nat /\ i \in Nat /\ B \subseteq Nat
        BY <1>1, <1>3, <1>6, <2>2
      <4>2. QED  BY <1>14, <1>15, <2>2, <4>1
    <3>2. QED  BY <1>13, <1>15, <2>2, <3>1
  <2>3. QED  BY <2>1, <2>2
<1>16. IsPage(body, p)
  BY <1>1, <1>5, <1>10, <1>14, <1>15 DEF IsPage, S
<1>17. QED  BY <1>11, <1>16

LEMMA CursorIsNumber ==
    ASSUME LogInv, NEW p, SeenInv(p)
    PROVE  Cursor(p) # None => Cursor(p) \in Nat
<1>1. Len(log) \in Nat
  BY SequenceFacts DEF LogInv
<1>2. QED  BY <1>1 DEF SeenInv, Seen, InChannel

-------------------------------------------------------------------------------
(* Every step of the bot.                                                  *)

\* The client of a reader gets an answer, waits or asks again.
LEMMA ReadCallGoesOn ==
    ASSUME BotInv, NEW p \in Proc, IsReadCall(call[p], p), Receive(p) \/ Resend(p)
    PROVE  IsReadCall(call'[p], p)
<1> DEFINE r == call[p].response
<1>1. p \in Client
  BY TriggerAssumption
<1>2. \A s : CallTo(p, s) => call'[p] = s
  BY <1>1, CallOf
<1>3. PICK s : s = call'[p]
  OBVIOUS
<1>4. ASSUME call[p].pc = "answered", r.status = "success",
             CallTo(p, [pc |-> "ok", body |-> r.body])
      PROVE  IsReadCall(s, p)
  <2>1. s.pc = "ok" /\ s.body = r.body
    BY <1>2, <1>3, <1>4
  <2>2. QED  BY <1>4, <2>1 DEF IsReadCall
<1>5. ASSUME NEW state \in {"sent", "backoff"}, NEW n, Attempt(p, state, n),
             call[p].pc \in {"backoff", "answered"}
      PROVE  IsReadCall(s, p)
  <2>1. s.pc = state /\ s.req = call[p].req
    BY <1>2, <1>3, <1>5 DEF Attempt
  <2>2. QED  BY <1>5, <2>1 DEF IsReadCall
<1>6. ASSUME NEW kind, Fail(p, kind) PROVE IsReadCall(s, p)
  <2>1. s.pc = "failed"
    BY <1>2, <1>3, <1>6 DEF Fail
  <2>2. QED  BY <2>1 DEF IsReadCall
<1>7. CASE Resend(p)
  BY <1>3, <1>5, <1>7 DEF Resend
<1>8. CASE Receive(p)
  <2>1. call[p].pc = "answered"
        /\ \/ r.status = "success" /\ CallTo(p, [pc |-> "ok", body |-> r.body])
           \/ Attempt(p, "backoff", call[p].retries + 1)
           \/ \E kind : Fail(p, kind)
    BY <1>8 DEF Receive
  <2>2. QED  BY <1>3, <1>4, <1>5, <1>6, <2>1
<1>9. QED  BY <1>7, <1>8

LEMMA HttpKeepsReadInv ==
    ASSUME BotInv, ReadInv, LogGrows, NEW c \in Client, Http(c)
    PROVE  ReadInv'
<1> SUFFICES ASSUME NEW p \in Proc PROVE ReaderInv(p)'
  BY DEF ReadInv
<1>1. /\ agenda' = agenda /\ told' = told /\ pc' = pc /\ mem' = mem /\ scenario' = scenario
      /\ Receive(c) \/ Resend(c)
  BY DEF Http, cliVars
<1>2. p \in Client /\ ReaderInv(p) /\ SameReader(p)
  BY <1>1, TriggerAssumption DEF ReadInv, SameReader
<1>3. CASE p # c
  <2>1. \E s : CallTo(c, s)
    BY <1>1 DEF Receive, Resend, Attempt, Fail
  <2>2. call'[p] = call[p]
    BY <1>2, <1>3, <2>1, CallOf
  <2>3. QED  BY <1>1, <1>2, <2>2, OthersKeepReaderInv DEF SameProcess
<1>4. CASE p = c
  <2>1. PICK s : s = call'[p]
    OBVIOUS
  <2>2. p \in Followers /\ Following(p) /\ pc[p] = "calling" => IsReadCall(s, p)
    BY <1>1, <1>2, <1>4, <2>1, ReadCallGoesOn DEF ReaderInv
  <2>3. QED  BY <1>1, <1>2, <2>1, <2>2, ReadCallMoves
<1>5. QED  BY <1>3, <1>4

\* Discord answers a reader with a page, or refuses it, or is not heard of.
LEMMA ReaderIsServed ==
    ASSUME BotInv, NEW p \in Proc, IsReadCall(call[p], p), SeenInv(p), Network(p)
    PROVE  IsReadCall(call'[p], p)
<1> DEFINE req == call[p].req
<1>1. p \in Client
  BY TriggerAssumption
<1>2. PICK s : s = call'[p]
  OBVIOUS
<1>3. \A r : Respond(p, r) => /\ call[p].pc = "sent"
                              /\ s.pc = "answered" /\ s.req = req /\ s.response = r
  BY <1>1, <1>2, CallOf DEF Respond
<1>4. ASSUME NEW r, Respond(p, r), r.status # "success" PROVE IsReadCall(s, p)
  BY <1>3, <1>4 DEF IsReadCall
<1>5. CASE Refuse(p)
  <2>1. \A r \in Refusal : r.status # "success"
    BY DEF Refusal
  <2>2. QED  BY <1>2, <1>4, <1>5, <2>1 DEF Refuse
<1>6. CASE Lose(p)
  <2>1. s.pc = "failed"
    BY <1>1, <1>2, <1>6, CallOf DEF Lose, Break, Fail
  <2>2. QED  BY <1>2, <2>1 DEF IsReadCall
<1>7. CASE Serve(p)
  <2>1. ASSUME NEW r, r = [status |-> "other"] \/ r = [status |-> "unreadable"]
        PROVE  r.status # "success"
    BY <2>1
  <2>2. CASE Respond(p, [status |-> "other"]) \/ Respond(p, [status |-> "unreadable"])
    BY <1>2, <1>4, <2>1, <2>2
  <2>3. ASSUME NEW body \in Bodies(req), Respond(p, [status |-> "success", body |-> body])
        PROVE  IsReadCall(s, p)
    <3>1. PICK r : r = [status |-> "success", body |-> body]
      OBVIOUS
    <3>2. call[p].pc = "sent" /\ s.pc = "answered" /\ s.req = req /\ s.response.body = body
      BY <1>3, <2>3, <3>1
    <3>3. /\ req.op = "page" /\ req.limit \in Nat
          /\ req.after = Cursor(p) /\ req.ch = Source(p, Job(p))
      BY <3>2 DEF IsReadCall
    <3>4. body = Page(Source(p, Job(p)), Cursor(p), req.limit)
      BY <3>3 DEF Bodies
    <3>5. IsPage(body, p)
      BY <3>3, <3>4, PageServed, CursorIsNumber DEF BotInv, ChatInv
    <3>6. QED  BY <3>2, <3>3, <3>5 DEF IsReadCall
  <2>4. QED  BY <1>2, <1>7, <2>2, <2>3 DEF Serve
<1>8. QED  BY <1>5, <1>6, <1>7 DEF Network

LEMMA NetworkKeepsReadInv ==
    ASSUME BotInv, ReadInv, LogGrows, NEW c \in Client, Network(c)
    PROVE  ReadInv'
<1> SUFFICES ASSUME NEW p \in Proc PROVE ReaderInv(p)'
  BY DEF ReadInv
<1>1. agenda' = agenda /\ told' = told /\ pc' = pc /\ mem' = mem /\ scenario' = scenario
  BY DEF Network, cliVars
<1>2. p \in Client /\ ReaderInv(p) /\ SameReader(p)
  BY <1>1, TriggerAssumption DEF ReadInv, SameReader
<1>3. CASE p # c
  <2>1. \E s : CallTo(c, s)
    BY DEF Network, Serve, Refuse, Lose, Break, Fail, Respond
  <2>2. call'[p] = call[p]
    BY <1>2, <1>3, <2>1, CallOf
  <2>3. QED  BY <1>1, <1>2, <2>2, OthersKeepReaderInv DEF SameProcess
<1>4. CASE p = c
  <2>1. PICK s : s = call'[p]
    OBVIOUS
  <2>2. p \in Followers /\ Following(p) /\ pc[p] = "calling" => IsReadCall(s, p)
    BY <1>2, <1>4, <2>1, ReaderIsServed DEF ReaderInv
  <2>3. QED  BY <1>1, <1>2, <2>1, <2>2, ReadCallMoves
<1>5. QED  BY <1>3, <1>4

\* The answer to any command, with what it does to the process.
LEMMA AnswerIsGiven ==
    ASSUME BotInv, scenario' = scenario, NEW p \in Proc, NEW kind \in AnswerKind, NEW ids,
           NEW cursor, Finish(p, kind, ids, cursor),
           pc[p] # "idle" \/ Len(told[p]) < Len(agenda[p])
    PROVE  Answers(p, [kind |-> kind, ids |-> ids, cursor |-> cursor]) /\ ~Following(p)'
<1>1. agenda' = agenda /\ pc'[p] = "idle"
  BY DEF Finish, BotInv, CliInv, CliTypeOK
<1>2. /\ CliInv' /\ IsSequence(told[p]) /\ Len(told'[p]) = Len(told[p]) + 1
      /\ \A n \in 1..Len(told[p]) : told'[p][n] = told[p][n]
      /\ told'[p][Len(told[p]) + 1] = [kind |-> kind, ids |-> ids, cursor |-> cursor]
  BY FinishKeepsCliInv DEF BotInv
<1>3. IsSequence(agenda[p]) /\ IsSequence(told'[p]) /\ Len(told[p]) < Len(agenda[p])
  BY <1>2 DEF BotInv, CliInv, CliShape, CliTypeOK
<1>4. QED  BY <1>1, <1>2, <1>3 DEF Answers, Following

\* The answer to a command that has not read, or has read nothing.
LEMMA NothingNew ==
    ASSUME BotInv, LogGrows, log' = log, scenario' = scenario, NEW p \in Proc, ReaderInv(p),
           NEW kind \in AnswerKind, NEW ids, Finish(p, kind, ids, Cursor(p)),
           pc[p] # "idle" \/ Len(told[p]) < Len(agenda[p]),
           IsRead(p) => ids = <<>>
    PROVE  ReaderInv(p)'
<1> DEFINE a == [kind |-> kind, ids |-> ids, cursor |-> Cursor(p)]
<1>1. Answers(p, a) /\ ~Following(p)'
  BY AnswerIsGiven
<1>2. a.ids = ids /\ a.cursor = Cursor(p)
  OBVIOUS
<1> HIDE DEF a
<1>3. (p \in Followers)' <=> p \in Followers
  BY <1>1, ReaderIsAnswered
<1>4. p \in Followers => SeenInv(p)'
  BY <1>1, <1>2, NothingIsSeen DEF ReaderInv
<1>5. QED  BY <1>1, <1>3, <1>4 DEF ReaderInv

\* A command that does not read goes on, or one that does is done with its call.
LEMMA NothingFollowed ==
    ASSUME BotInv, LogGrows, scenario' = scenario, NEW p \in Proc, ReaderInv(p),
           NEW s, NEW m, Goto(p, s, m), ~IsRead(p) \/ s \notin {"calling", "sleeping"}
    PROVE  ReaderInv(p)'
<1>1. SameReader(p) /\ ~Following(p)'
  BY DEF Goto, SameReader, Following, IsRead, Command, BotInv, CliInv, CliTypeOK
<1>2. (p \in Followers)' <=> p \in Followers
  BY <1>1, ReaderStays
<1>3. QED  BY <1>1, <1>2, SeenStays DEF ReaderInv

\* What an alias stands for, no "init" changes.
LEMMA AliasesAreKept ==
    ASSUME BotInv, Parses
    PROVE  Loaded.fields = Kept
<1>1. CASE config = None
  <2>1. scenario.config = None /\ Loaded = Default
    BY <1>1 DEF BotInv, ConfigInv, Loaded
  <2>2. QED  BY <2>1 DEF Default, Kept
<1>2. CASE config # None
  <2>1. config \in ConfigOf({Kept}) /\ Loaded = config
    BY <1>2 DEF BotInv, ConfigInv, Loaded, Parses
  <2>2. QED  BY <2>1 DEF ConfigOf
<1>3. QED  BY <1>1, <1>2

\* A page is asked for.
LEMMA PageIsAskedFor ==
    ASSUME BotInv, LogGrows, scenario' = scenario, NEW p \in Proc, ReaderInv(p),
           NEW ch, Issue(p, PageRequest(p, ch)), NEW m, Goto(p, "calling", m),
           DOMAIN m = {"ch", "polls"}, m.ch = ch, Command(p).limit \in Nat,
           p \in Followers => ch = Source(p, Job(p))
    PROVE  ReaderInv(p)'
<1>1. /\ SameReader(p) /\ pc'[p] = "calling" /\ mem'[p] = m
  BY DEF Goto, SameReader, BotInv, CliInv, CliShape, CliTypeOK
<1>2. /\ (p \in Followers)' <=> p \in Followers
      /\ \A n : Source(p, n)' = Source(p, n)
      /\ Job(p)' = Job(p) /\ Command(p)' = Command(p)
  BY <1>1, ReaderStays
<1>3. PICK s : s = call'[p]
  OBVIOUS
<1>4. PICK req : req = PageRequest(p, ch)
  OBVIOUS
<1>5. s = [pc |-> "sent", req |-> req, retries |-> 0] /\ p \in Client
  BY <1>3, <1>4, CallOf, TriggerAssumption DEF Issue
<1>6. s.pc = "sent" /\ s.req = req
  BY <1>5
<1>7. req.op = "page" /\ req.limit \in Nat /\ req.after = Cursor(p) /\ req.ch = ch
  BY <1>4 DEF PageRequest
<1>8. p \in Followers => IsReadCall(s, p)
  BY <1>6, <1>7 DEF IsReadCall
<1>9. p \in Followers => IsReadCall(s, p)'
  BY <1>1, <1>8, ReadCallStays
<1>10. p \in Followers => IsReadCall(call[p], p)'
  BY <1>3, <1>9 DEF IsReadCall
<1>11. QED  BY <1>1, <1>2, <1>10, SeenStays DEF ReaderInv

LEMMA StartReadKeepsReaderInv ==
    ASSUME BotInv, LogGrows, log' = log, scenario' = scenario, NEW p \in Proc, ReaderInv(p),
           StartRead(p)
    PROVE  ReaderInv(p)'
<1> DEFINE c == Command(p)
<1>1. pc[p] = "idle" /\ Len(told[p]) < Len(agenda[p]) /\ IsRead(p)
  BY DEF StartRead, Starts, IsRead
<1>2. ASSUME NEW kind \in AnswerKind, Reject(p, kind) PROVE ReaderInv(p)'
  BY <1>1, <1>2, NothingNew DEF Reject, Answer
<1>3. PICK ch : ch = Resolve(c.ch, Loaded.fields.aliases)
  OBVIOUS
<1>4. PICK m : m = [ch |-> ch, polls |-> MaxPolls(c)]
  OBVIOUS
<1>5. CASE /\ Authenticated(c) /\ c.limit \in 1..MaxLimit
           /\ Issue(p, PageRequest(p, ch)) /\ Goto(p, "calling", m)
  <2>1. DOMAIN m = {"ch", "polls"} /\ m.ch = ch
    BY <1>4
  <2>2. c.limit \in Nat
    BY <1>5, LimitAssumption
  <2>3. ch = Source(p, Job(p))
    BY <1>3, <1>5, AliasesAreKept DEF Authenticated, Source, Job, Command
  <2>4. QED  BY <1>5, <2>1, <2>2, <2>3, PageIsAskedFor
<1>6. QED  BY <1>2, <1>3, <1>4, <1>5 DEF StartRead, AnswerKind, ErrorKind

LEMMA PollAgainKeepsReaderInv ==
    ASSUME BotInv, LogGrows, scenario' = scenario, NEW p \in Proc, ReaderInv(p),
           PollAgain(p)
    PROVE  ReaderInv(p)'
<1>1. PICK ch : ch = mem[p].ch
  OBVIOUS
<1>2. /\ pc[p] = "sleeping" /\ Issue(p, PageRequest(p, ch)) /\ Goto(p, "calling", mem[p])
  BY <1>1 DEF PollAgain
<1>3. CASE p \in Followers /\ IsRead(p)
  <2>1. Following(p)
    BY <1>2, <1>3 DEF Following, IsRead
  <2>2. QED  BY <1>1, <1>2, <1>3, <2>1, PageIsAskedFor DEF ReaderInv
<1>4. CASE ~IsRead(p)
  BY <1>2, <1>4, NothingFollowed
<1>5. CASE p \notin Followers
  <2>1. SameReader(p)
    BY <1>2 DEF Goto, SameReader
  <2>2. (p \notin Followers)'
    BY <1>5, <2>1, ReaderStays
  <2>3. QED  BY <2>2 DEF ReaderInv
<1>6. QED  BY <1>3, <1>4, <1>5

LEMMA ReadOnKeepsReaderInv ==
    ASSUME BotInv, LogGrows, log' = log, scenario' = scenario, NEW p \in Proc, ReaderInv(p),
           ReadOn(p)
    PROVE  ReaderInv(p)'
<1>1. pc[p] = "calling" /\ IsRead(p) /\ Following(p) /\ p \in Client
  BY TriggerAssumption DEF ReadOn, IsRead, Following
<1>2. PICK body : body = call[p].body
  OBVIOUS
<1>3. CASE call[p].pc = "failed" /\ Answer(p, call[p].kind)
  <2>1. call[p].kind \in AnswerKind
    BY <1>1, <1>3 DEF BotInv, RestTypeOK, CallKind, AnswerKind, ErrorKind
  <2>2. QED  BY <1>1, <1>3, <2>1, NothingNew DEF Answer
<1>4. CASE /\ call[p].pc = "ok"
           /\ Finish(p, "ok", SortAscendingById(body), NewestCursor(body, Cursor(p)))
  <2> DEFINE a == [kind |-> "ok", ids |-> SortAscendingById(body),
                   cursor |-> NewestCursor(body, Cursor(p))]
  <2>1. Answers(p, a) /\ ~Following(p)'
    BY <1>1, <1>4, AnswerIsGiven DEF AnswerKind
  <2>2. a.ids = SortAscendingById(body) /\ a.cursor = NewestCursor(body, Cursor(p))
    OBVIOUS
  <2> HIDE DEF a
  <2>3. (p \in Followers)' <=> p \in Followers
    BY <2>1, ReaderIsAnswered
  <2>4. ASSUME p \in Followers PROVE SeenInv(p)'
    <3>1. IsPage(body, p) /\ SeenInv(p)
      BY <1>1, <1>2, <1>4, <2>4 DEF ReaderInv, IsReadCall
    <3>2. LogInv
      BY DEF BotInv, ChatInv
    <3>3. QED  BY <1>1, <2>1, <2>2, <2>4, <3>1, <3>2, PageIsSeen
  <2>5. QED  BY <2>1, <2>3, <2>4 DEF ReaderInv
<1>5. CASE \E n : Goto(p, "sleeping", [mem[p] EXCEPT !.polls = n])
  <2>1. /\ SameReader(p) /\ pc'[p] = "sleeping"
        /\ \E n : mem'[p] = [mem[p] EXCEPT !.polls = n]
    BY <1>5 DEF Goto, SameReader, BotInv, CliInv, CliShape, CliTypeOK
  <2>2. DOMAIN mem[p] = {"ch", "polls"} => DOMAIN mem'[p] = {"ch", "polls"} /\ mem'[p].ch = mem[p].ch
    BY <2>1
  <2>3. /\ (p \in Followers)' <=> p \in Followers
        /\ \A n : Source(p, n)' = Source(p, n)
        /\ Job(p)' = Job(p) /\ Command(p)' = Command(p)
    BY <2>1, ReaderStays
  <2>4. QED  BY <1>1, <2>1, <2>2, <2>3, SeenStays DEF ReaderInv
<1>6. QED  BY <1>2, <1>3, <1>4, <1>5 DEF ReadOn

LEMMA OtherStepsKeepReaderInv ==
    ASSUME BotInv, LogGrows, log' = log, scenario' = scenario, NEW p \in Proc, ReaderInv(p),
           \/ WriteConfig(p) \/ StartSend(p) \/ SendOn(p) \/ StartThread(p) \/ ThreadOn(p)
           \/ StartStore(p) \/ EndStore(p) \/ Kill(p)
    PROVE  ReaderInv(p)'
<1>1. p \in Client
  BY TriggerAssumption
<1>2. call[p].pc = "failed" => call[p].kind \in AnswerKind
  BY <1>1 DEF BotInv, RestTypeOK, CallKind, AnswerKind, ErrorKind
<1>3. ASSUME NEW kind \in AnswerKind, Answer(p, kind),
             pc[p] # "idle" \/ Len(told[p]) < Len(agenda[p])
      PROVE  ReaderInv(p)'
  BY <1>3, NothingNew DEF Answer
<1>4. ASSUME NEW kind \in AnswerKind, NEW ids, Finish(p, kind, ids, Cursor(p)),
             pc[p] # "idle", ~IsRead(p)
      PROVE  ReaderInv(p)'
  BY <1>4, NothingNew
<1>5. ASSUME NEW s, NEW m, Goto(p, s, m), ~IsRead(p) \/ s \notin {"calling", "sleeping"}
      PROVE  ReaderInv(p)'
  BY <1>5, NothingFollowed
<1>6. {"ok", "killed", "usage", "config", "internal"} \subseteq AnswerKind
  BY DEF AnswerKind, ErrorKind
<1>7. CASE WriteConfig(p)
  BY <1>3, <1>5, <1>6, <1>7 DEF WriteConfig, InitStep, CheckExists, Reload, Truncate, Fill, Starts
<1>8. CASE StartSend(p)
  BY <1>3, <1>5, <1>6, <1>8 DEF StartSend, Starts, Reject, IsRead
<1>9. CASE SendOn(p)
  BY <1>2, <1>4, <1>5, <1>6, <1>9 DEF SendOn, IsRead
<1>10. CASE StartThread(p)
  BY <1>3, <1>5, <1>6, <1>10 DEF StartThread, Starts, Reject, IsRead
<1>11. CASE ThreadOn(p)
  BY <1>2, <1>3, <1>6, <1>11 DEF ThreadOn
<1>12. CASE StartStore(p)
  BY <1>5, <1>12 DEF StartStore
<1>13. CASE EndStore(p) \/ Kill(p)
  BY <1>3, <1>6, <1>13 DEF EndStore, Kill
<1>14. QED  BY <1>7, <1>8, <1>9, <1>10, <1>11, <1>12, <1>13

LEMMA ProcessKeepsReadInv ==
    ASSUME BotInv, ReadInv, LogGrows, NEW p \in Proc, CliStep(p) \/ Kill(p)
    PROVE  ReadInv'
<1>1. log' = log /\ scenario' = scenario
  BY DEF CliStep, WriteConfig, Converse, StartStore, MigrateStore, EndStore, Kill, chatVars
<1>2. \A q \in Proc : ReaderInv(q)
  BY DEF ReadInv
<1>3. ASSUME NEW q \in Proc \ {p} PROVE ReaderInv(q)'
  BY <1>1, <1>2, OthersStay, OthersKeepReaderInv
<1>4. ReaderInv(p)'
  <2>1. CASE StartRead(p)
    BY <1>1, <1>2, <2>1, StartReadKeepsReaderInv
  <2>2. CASE ReadOn(p)
    BY <1>1, <1>2, <2>2, ReadOnKeepsReaderInv
  <2>3. CASE PollAgain(p)
    BY <1>1, <1>2, <2>3, PollAgainKeepsReaderInv
  <2>4. CASE MigrateStore(p)
    BY <1>1, <1>2, <2>4, OthersKeepReaderInv DEF MigrateStore, cliVars, SameProcess
  <2>5. CASE \/ WriteConfig(p) \/ StartSend(p) \/ SendOn(p) \/ StartThread(p) \/ ThreadOn(p)
             \/ StartStore(p) \/ EndStore(p) \/ Kill(p)
    BY <1>1, <1>2, <2>5, OtherStepsKeepReaderInv
  <2>6. QED  BY <2>1, <2>2, <2>3, <2>4, <2>5 DEF CliStep, Converse, MessageStep
<1>5. QED  BY <1>3, <1>4 DEF ReadInv

\* A process that has not done anything has not read anything.
NothingRead == \A p : told[p] = <<>> /\ pc[p] = "idle" => ReaderInv(p)

LEMMA NothingReadSound == NothingRead
<1> SUFFICES ASSUME NEW p, told[p] = <<>>, pc[p] = "idle" PROVE ReaderInv(p)
  BY DEF NothingRead
<1>1. Reads(p) = {}
  BY EmptySequence DEF Reads, Reading
<1>2. Seen(p) = {} /\ Cursor(p) = None
  BY <1>1 DEF Seen, Cursor
<1>3. QED  BY <1>1, <1>2 DEF ReaderInv, Following, SeenInv, InOrder, Gapless

LEMMA DaemonKeepsReadInv ==
    ASSUME BotInv, ReadInv, LogGrows, Daemon \/ Mishap
    PROVE  ReadInv'
<1>1. UNCHANGED <<pc, mem, told>> /\ scenario' = scenario
  BY DEF Daemon, Mishap
<1>2. agenda' = agenda \/ HookStarts
  BY StepKeepsTriggerInv DEF BotInv, Next, Progress, Mishap, Gap, End, ChangeDirs
<1>3. \A d \in Client \ {Gateway} : call'[d] = call[d]
  <2>1. call' = call \/ \E s : CallTo(Gateway, s)
    BY DEF Daemon, LoopStep, Boot, Ready, OnMessage, LookupOk, LookupFailed, Mishap, Gap, End,
           ChangeDirs, Issue, HangUp
  <2>2. QED  BY <2>1, TriggerAssumption, CallOf
<1>4. \A p \in Proc : ReaderInv(p) /\ call'[p] = call[p]
  BY <1>3, TriggerAssumption DEF ReadInv
<1>5. CASE agenda' = agenda
  BY <1>1, <1>4, <1>5, OthersKeepReaderInv DEF SameProcess, ReadInv
<1>6. CASE HookStarts
  <2>1. PICK h \in HookProc : agenda[h] = <<>> /\ \E c : agenda' = [agenda EXCEPT ![h] = <<c>>]
    BY <1>6 DEF HookStarts
  <2>2. h \in Proc /\ \A p \in Proc \ {h} : agenda'[p] = agenda[p]
    BY <2>1, TriggerAssumption DEF BotInv, CliInv, CliShape
  <2>3. told[h] = <<>> /\ pc[h] = "idle"
    <3>1. Len(told[h]) \in Nat /\ Len(agenda[h]) = 0 /\ Len(told[h]) <= Len(agenda[h])
      BY <2>1, <2>2, SequenceFacts, EmptySequence DEF BotInv, CliInv, CliShape
    <3>2. Len(told[h]) = 0 /\ ~(Len(told[h]) < Len(agenda[h]))
      BY <3>1
    <3>3. told[h] = <<>>
      BY <2>2, <3>2, EmptySeq DEF BotInv, CliInv, CliShape, IsSequence
    <3>4. QED  BY <2>2, <3>2, <3>3 DEF BotInv, CliInv, CliTypeOK
  <2>4. (told[h] = <<>> /\ pc[h] = "idle")'
    BY <1>1, <2>3
  <2>5. ReaderInv(h)'
    <3>1. NothingRead'
      BY NothingReadSound, PTL
    <3>2. QED  BY <2>4, <3>1 DEF NothingRead
  <2>6. ASSUME NEW p \in Proc \ {h} PROVE ReaderInv(p)'
    BY <1>1, <1>4, <2>2, OthersKeepReaderInv DEF SameProcess
  <2>7. QED  BY <2>5, <2>6 DEF ReadInv
<1>7. QED  BY <1>2, <1>5, <1>6

LEMMA InitReadInv == Init => ReadInv
<1> SUFFICES ASSUME Init, NEW p \in Proc PROVE ReaderInv(p)
  BY DEF ReadInv
<1>1. told[p] = <<>> /\ pc[p] = "idle"
  BY DEF Init, CliInit
<1>2. QED  BY <1>1, NothingReadSound DEF NothingRead

LEMMA StepKeepsReadInv ==
    ASSUME BotInv, ReadInv, [Next]_vars
    PROVE  ReadInv'
<1>1. LogGrows
  BY StepKeepsChatInv DEF BotInv
<1>2. CASE UNCHANGED vars \/ Chatter
  <2>1. scenario' = scenario /\ \A p \in Proc : SameProcess(p) /\ ReaderInv(p)
    BY <1>2 DEF vars, Chatter, cliVars, SameProcess, ReadInv
  <2>2. QED  BY <1>1, <2>1, OthersKeepReaderInv DEF ReadInv
<1>3. QED
  BY <1>1, <1>2, ProcessKeepsReadInv, HttpKeepsReadInv, NetworkKeepsReadInv, DaemonKeepsReadInv
     DEF Next, Progress

LEMMA SpecReadInv == Spec => [](BotInv /\ ReadInv)
<1>1. Init => BotInv /\ ReadInv
  BY InitBotInv, InitReadInv
<1>2. BotInv /\ ReadInv /\ [Next]_vars => (BotInv /\ ReadInv)'
  BY StepKeepsBotInv, StepKeepsReadInv
<1>3. QED  BY <1>1, <1>2, PTL DEF Spec

-------------------------------------------------------------------------------
\* However many messages come between two polls, whatever is refused, limited, lost or cannot
\* be read, whoever dies and whatever an "init" does to the configuration: a reader that goes on
\* from the cursor of its last answer gets every message behind the first it has seen, once and
\* in order (run_read, run_wait, sort_ascending_by_id, newest_cursor).
THEOREM ReadersFollowTheChannel == Spec => []ReadersMissNothing
<1>1. BotInv /\ ReadInv => ReadersMissNothing
  <2> SUFFICES ASSUME ReadInv, NEW p \in Followers
               PROVE  InOrder(p) /\ Gapless(p)
    BY DEF ReadersMissNothing, InOrder, Gapless
  <2>1. p \in Proc
    BY DEF Followers
  <2>2. QED  BY <2>1 DEF ReadInv, ReaderInv, SeenInv
<1>2. QED  BY <1>1, SpecReadInv, PTL
===============================================================================
