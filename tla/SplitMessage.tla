----------------------------- MODULE SplitMessage -----------------------------
(***************************************************************************)
(* "send --split" (tools/discord/src/commands/send/split.rs): a body cut   *)
(* into chunks of at most MaxBody characters, with a code fence that is    *)
(* open at a cut closed there and opened again in the next chunk.  Of a    *)
(* line only its length, its newline and whether it is a code fence count. *)
(***************************************************************************)
EXTENDS Absent, Integers, SequencesExt

CONSTANT MaxBody  \* MAX_BODY_CHARS

ASSUME MaxBodyAssumption == MaxBody \in Nat \ {0}

\* A fence line is three backticks and an info string of "info" characters.
Line(body, fence, newline) ==
    [len |-> body + (IF fence THEN 3 ELSE 0) + (IF newline THEN 1 ELSE 0),
     info |-> IF fence THEN body ELSE None, nl |-> newline]

\* A chunk: the info string it reopens, pieces of source lines, the characters of the
\* closing marker.
Fresh(fence) == [reopen |-> fence, parts |-> <<>>, close |-> 0]
Piece(line, i, from, upto) == [line |-> i, from |-> from, upto |-> upto,
                               nl |-> line.nl /\ from < upto /\ upto = line.len]
Size(part) == part.upto - part.from
Total(parts) == FoldLeft(LAMBDA n, part : n + Size(part), 0, parts)
ReopenLen(c) == IF c.reopen = None THEN 0 ELSE 3 + c.reopen + 1
CurLen(c) == ReopenLen(c) + Total(c.parts)
EndsWithNewline(c) ==
    LET text == SelectSeq(c.parts, LAMBDA part : Size(part) > 0)
    IN IF text = <<>> THEN c.reopen # None ELSE Last(text).nl

ClosingLen(fence, newline) == IF fence = None THEN 0 ELSE IF newline THEN 3 ELSE 4

\* A fence line closes the open fence or opens one, any other line changes nothing.
NextFence(fence, line) == IF line.info = None THEN fence
                          ELSE IF fence = None THEN line.info ELSE None

\* A bug to rule out: the closing marker is not counted.
FitsUnreserved(st, n, newline, after, last) == CurLen(st.cur) + n <= MaxBody

Fits(st, n, newline, after, last) ==
    CurLen(st.cur) + n + (IF last THEN 0 ELSE ClosingLen(after, newline)) <= MaxBody

Push(st, part, after) == [st EXCEPT !.cur.parts = Append(@, part), !.fence = after]

\* A bug to rule out: the fence is opened again without its language.
FlushUntagged(st) ==
    [st EXCEPT !.chunks = Append(@, [st.cur EXCEPT !.close =
                                       ClosingLen(st.fence, EndsWithNewline(st.cur))]),
               !.cur = Fresh(IF st.fence = None THEN None ELSE 0),
               !.refused = st.fence # None /\ 3 + st.fence + 1 + 4 >= MaxBody]

\* The chunk ends; the next one must have room for the markers and a character.
Flush(st) ==
    LET next == Fresh(st.fence)
    IN [st EXCEPT !.chunks = Append(@, [st.cur EXCEPT !.close =
                                          ClosingLen(st.fence, EndsWithNewline(st.cur))]),
                  !.cur = next,
                  !.refused = st.fence # None /\ CurLen(next) + 4 >= MaxBody]

\* One turn of the loop that cuts a line no chunk can hold; w.from is where its rest begins.
CutOnce(w, line, i, after, last) ==
    LET st == w.st
        budget == MaxBody - CurLen(st.cur) - ClosingLen(st.fence, FALSE)
        upto == IF w.from + budget < line.len THEN w.from + budget ELSE line.len
    IN IF w.landed \/ st.refused THEN w
       ELSE IF Fits(st, line.len - w.from, line.nl /\ w.from < line.len, after, last)
       THEN [w EXCEPT !.st = Push(st, Piece(line, i, w.from, line.len), after), !.landed = TRUE]
       ELSE [w EXCEPT !.st = Flush(Push(st, Piece(line, i, w.from, upto), st.fence)),
                      !.from = upto]

\* Every turn but the last takes at least one character.
ForceSplit(st, line, i, after, last) ==
    FoldLeft(LAMBDA w, turn : CutOnce(w, line, i, after, last),
             [st |-> st, from |-> 0, landed |-> FALSE], [turn \in 1..line.len + 1 |-> turn]).st

PushLine(st, line, i, last) ==
    LET after == NextFence(st.fence, line)
        whole == Piece(line, i, 0, line.len)
        flushed == IF st.cur.parts # <<>> THEN Flush(st) ELSE st
    IN IF st.refused THEN st
       ELSE IF Fits(st, line.len, line.nl, after, last) THEN Push(st, whole, after)
       ELSE IF flushed.refused THEN flushed
       ELSE IF Fits(flushed, line.len, line.nl, after, last) THEN Push(flushed, whole, after)
       ELSE ForceSplit(flushed, line, i, after, last)

Chunks(st) == IF st.cur.parts # <<>> \/ st.chunks = <<>> THEN Append(st.chunks, st.cur)
              ELSE st.chunks

\* The chunks of a body, or None if it cannot be split.
Split(content) ==
    LET st == FoldLeft(LAMBDA s, i : PushLine(s, content[i], i, i = Len(content)),
                       [chunks |-> <<>>, cur |-> Fresh(None), fence |-> None, refused |-> FALSE],
                       [i \in 1..Len(content) |-> i])
    IN IF st.refused THEN None ELSE Chunks(st)

-------------------------------------------------------------------------------
(* What a split must be, said without the chunker.                         *)

LenOf(content) == FoldLeft(LAMBDA n, line : n + line.len, 0, content)

\* Where a piece starts in the body, and the fence that is open there.
Position(content, part) == LenOf(SubSeq(content, 1, part.line - 1)) + part.from
FenceBefore(content, n) == FoldLeft(NextFence, None, SubSeq(content, 1, n))

\* The pieces are the body, in order.
IsWhole(content, chunks) ==
    LET parts == FlattenSeq([i \in 1..Len(chunks) |-> chunks[i].parts])
    IN /\ \A i \in 1..Len(parts) : Position(content, parts[i]) = Total(SubSeq(parts, 1, i - 1))
       /\ Total(parts) = LenOf(content)

\* As Discord renders it, a chunk ends outside a code block; it begins with the fence the
\* body has open at that place.
IsFenced(content, chunks) ==
    \A i \in 1..Len(chunks) :
        LET c == chunks[i]
            markers == SelectSeq(c.parts, LAMBDA part : part.from = 0 /\ Size(part) >= 3
                                                          /\ content[part.line].info # None)
            count == Len(markers) + (IF c.reopen # None THEN 1 ELSE 0)
                                  + (IF c.close > 0 THEN 1 ELSE 0)
        IN /\ i < Len(chunks) => count % 2 = 0
           /\ c.parts # <<>> => c.reopen = FenceBefore(content, c.parts[1].line - 1)

\* No fence line is so long that it must be cut itself, even after a reopened fence.
FencesFit(content) ==
    \A i, j \in 1..Len(content) :
        content[i].info # None /\ content[j].info # None
          => 3 + content[j].info + 1 + content[i].len <= MaxBody

IsSplitOf(content, chunks) ==
    /\ \A i \in 1..Len(chunks) : CurLen(chunks[i]) + chunks[i].close <= MaxBody
    /\ IsWhole(content, chunks)
    /\ FencesFit(content) => IsFenced(content, chunks)
===============================================================================
