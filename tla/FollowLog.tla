----------------------------- MODULE FollowLog -----------------------------
(***************************************************************************)
(* The log of a build as a client reads it over the network:               *)
(* api.build_log answers with a slice from an offset, ops.LogFollower puts *)
(* the slices together and hands out whole lines.  A byte is its position; *)
(* LogStream has the steps of one answer, here it is one.                  *)
(***************************************************************************)
EXTENDS Integers, Sequences, FiniteSetsExt

CONSTANTS
    Builds,      \* builds with a log
    Size,        \* bytes of the complete log
    Newlines,    \* positions of its line ends
    Limit,       \* bytes of one answer, LOG_CHUNK_BYTES
    TailBytes,   \* bytes before the end that a follower starts at
    None

VARIABLES
    status,      \* of each build: "none", "running", "ready", "failed", "deleted"
    written      \* bytes in its log

serverVars == <<status, written>>

Ended == {"ready", "failed"}

\* Some builds are under way, some ended before.
ServerInit(running, ended) ==
    /\ status = [b \in Builds |-> CASE b \in running -> "running"
                                    [] b \in ended -> "ready"
                                    [] OTHER -> "none"]
    /\ written = [b \in Builds |-> IF b \in ended THEN Size ELSE 0]

\* A line is appended whole.
Emit(b) ==
    /\ status[b] \in Ended \cup {"running"} /\ written[b] < Size
    /\ written' = [written EXCEPT
                     ![b] = Min({n \in Newlines \cup {Size} : n > written[b]})]
    /\ UNCHANGED status

\* A build that is ready, or failed, may still write its last line.
End(b, s) ==
    /\ status[b] = "running"
    /\ status' = [status EXCEPT ![b] = s]
    /\ UNCHANGED written

Delete(b) ==
    /\ status[b] \in Ended
    /\ status' = [status EXCEPT ![b] = "deleted"]
    /\ UNCHANGED written

Ends(b) == \E s \in Ended : End(b, s)

ServerStep(b) == Emit(b) \/ Ends(b) \/ Delete(b)
-----------------------------------------------------------------------------
Bytes(first, last) == [i \in 1..(last - first + 1) |-> first + i - 1]
LineEnds(first, last) == Newlines \cap first..last

Start(b, offset) ==
    IF offset = None THEN Max({0, written[b] - TailBytes}) ELSE Min({offset, written[b]})

\* A tail starts at a line, as far as the slice holds a line end.
FirstLine(start, last) ==
    IF LineEnds(start + 1, last) = {} THEN start ELSE Min(LineEnds(start + 1, last))

\* Whole lines only, unless one is larger than the slice or the log is
\* complete.
WholeLines(start, last) ==
    IF LineEnds(start + 1, last) = {} THEN last ELSE Max(LineEnds(start + 1, last))

\* build_log, for a build that still has its row.
Chunk(b, offset) ==
    LET begin == Start(b, offset)
        read == Min({begin + Limit + 1, written[b]})
        start == IF offset = None /\ begin > 0 THEN FirstLine(begin, read) ELSE begin
        last == Min({start + Limit, read})
        next == IF last < read \/ status[b] \notin Ended THEN WholeLines(start, last) ELSE last
    IN  [start |-> start, next |-> next, size |-> written[b], status |-> status[b],
         complete |-> status[b] \in Ended /\ next >= written[b]]
-----------------------------------------------------------------------------
\* A LogFollower before its first poll.  from: where it started, for the
\* properties.
NewFollower(b) ==
    [build |-> b, from |-> 0, offset |-> None, partial |-> <<>>, finished |-> FALSE,
     status |-> None]

LastEnd(text) == Max({0} \cup {i \in 1..Len(text) : text[i] \in Newlines})

\* Mutated: each answer starts with a line.
JoinedAnew(f, a) == Bytes(a.start + 1, a.next)
\* The rest of a line that an earlier answer began.
Joined(f, a) == f.partial \o Bytes(a.start + 1, a.next)

\* What an answer gives out, and the follower after it.
Given(f, a) == IF a.complete THEN Len(Joined(f, a)) ELSE LastEnd(Joined(f, a))
Lines(f, a) == SubSeq(Joined(f, a), 1, Given(f, a))

After(f, a) ==
    [f EXCEPT !.from = IF f.offset = None THEN a.start ELSE @,
              !.offset = a.next,
              !.status = a.status,
              !.finished = a.complete,
              !.partial = SubSeq(Joined(f, a), Given(f, a) + 1, Len(Joined(f, a)))]

\* Whether poll() asks for more at once.
GoesOn(f, a) == ~a.complete /\ a.next < a.size /\ a.next # f.offset
-----------------------------------------------------------------------------
\* What was shown is the log from where the follower started, in whole lines,
\* and with what it keeps back it is all that was read.
ShowsTheLog(f, shown) ==
    f.offset # None => shown \o f.partial = Bytes(f.from + 1, f.offset)

OnlyWholeLines(f, shown) ==
    f.finished \/ shown = <<>> \/ shown[Len(shown)] \in Newlines
=============================================================================
