------------------------ MODULE ClientCommandProofs ------------------------
(***************************************************************************)
(* What a client's command tells by its exit status is true, and the log   *)
(* it shows is the log: for every number of lost answers and attempts,     *)
(* every log, every limit on an answer and every place to start.  First    *)
(* that the slices of a log fit together, then the command.                *)
(***************************************************************************)
EXTENDS ClientCommand, SequenceTheorems, FiniteSetTheorems, WellFoundedInduction, TLAPS

\* Constants are what the program gives them.
ALog ==
    /\ Size \in Nat /\ Newlines \subseteq 1..Size
    /\ Limit \in Nat \ {0} /\ TailBytes \in Nat
    /\ None \notin Int
-----------------------------------------------------------------------------
\* A set of numbers has a least one.
LEMMA LeastOf ==
    ASSUME NEW S \in SUBSET Nat, S # {}
    PROVE  \E x \in S : \A y \in S : x <= y
<1> DEFINE Below(n) == 0..(n - 1)
           T == {Below(n) : n \in S}
<1>1. T \subseteq FiniteSubsetsOf(Nat) /\ T # {}
  <2>1. ASSUME NEW n \in S
        PROVE  Below(n) \in FiniteSubsetsOf(Nat)
    <3>1. IsFiniteSet(Below(n))
      BY FS_Interval
    <3> QED
      BY <3>1 DEF FiniteSubsetsOf
  <2> QED
    BY <2>1
<1>2. PICK m \in T : \A t \in T : ~(<<t, m>> \in StrictSubsetOrdering(Nat))
  BY <1>1, FS_StrictSubsetOrderingWellFounded, WFMin
<1>3. PICK x \in S : m = Below(x)
  BY <1>2
<1>4. ASSUME NEW y \in S, y < x
      PROVE  FALSE
  <2>1. Below(y) \in SUBSET Nat /\ Below(x) \in SUBSET Nat
    OBVIOUS
  <2>2. Below(y) \subseteq Below(x) /\ Below(y) # Below(x)
    <3>1. y \in Below(x) /\ y \notin Below(y)
      BY <1>4
    <3> QED
      BY <3>1, <1>4
  <2>3. <<Below(y), Below(x)>> \in StrictSubsetOrdering(Nat)
    BY <2>1, <2>2 DEF StrictSubsetOrdering
  <2> QED
    BY <1>2, <1>3, <2>3
<1> QED
  BY <1>4

LEMMA MinOf ==
    ASSUME NEW S \in SUBSET Nat, S # {}
    PROVE  Min(S) \in S /\ \A y \in S : Min(S) <= y
BY LeastOf DEF Min

LEMMA MaxOf ==
    ASSUME NEW n \in Nat, NEW S \in SUBSET (0..n), S # {}
    PROVE  Max(S) \in S /\ \A y \in S : Max(S) >= y
<1> DEFINE T == {n - x : x \in S}
<1>1. T \in SUBSET Nat /\ T # {}
  <2>1. ASSUME NEW x \in S
        PROVE  n - x \in Nat
    OBVIOUS
  <2> QED
    BY <2>1
<1>2. PICK t \in T : \A y \in T : t <= y
  BY <1>1, LeastOf
<1>3. PICK x \in S : t = n - x
  OBVIOUS
<1>4. \A y \in S : x >= y
  BY <1>2, <1>3
<1> QED
  BY <1>4 DEF Max

LEMMA OfTwo ==
    ASSUME NEW a \in Int, NEW b \in Int
    PROVE  /\ Min({a, b}) = IF a <= b THEN a ELSE b
           /\ Max({a, b}) = IF a >= b THEN a ELSE b
BY DEF Min, Max
-----------------------------------------------------------------------------
\* An answer begins where the last one ended, and does not end before it
\* begins or after what is written.
LEMMA ChunkIsAPiece ==
    ASSUME ALog, NEW b \in Builds, written \in [Builds -> 0..Size],
           NEW offset \in Nat \cup {None}, offset # None => offset <= written[b]
    PROVE  LET a == Chunk(b, offset)
           IN  /\ a.start \in 0..a.next /\ a.next \in 0..written[b]
               /\ offset # None => a.start = offset
               /\ a.next = offset => offset = written[b]
<1> DEFINE begin == Start(b, offset)
           read == Min({begin + Limit + 1, written[b]})
           start == IF offset = None /\ begin > 0 THEN FirstLine(begin, read) ELSE begin
           last == Min({start + Limit, read})
           next == IF last < read \/ status[b] \notin Ended
                   THEN WholeLines(start, last) ELSE last
<1>1. written[b] \in 0..Size /\ Size \in Nat
  BY DEF ALog
<1>2. begin \in 0..written[b] /\ (offset # None => begin = offset)
  BY <1>1, OfTwo DEF Start, ALog
<1>3. read \in begin..written[b]
  <2> HIDE DEF begin
  <2> QED
    BY <1>1, <1>2, OfTwo DEF ALog
<1>4. start \in begin..read /\ (offset # None => start = begin)
  <2> HIDE DEF begin, read
  <2>1. LineEnds(begin + 1, read) \in SUBSET Nat
    BY DEF LineEnds, ALog
  <2>2. FirstLine(begin, read) \in begin..read
    BY <1>1, <1>2, <1>3, <2>1, MinOf DEF FirstLine, LineEnds
  <2> QED
    BY <1>1, <1>2, <1>3, <2>2
<1>5. last \in start..read /\ (start < read => start < last)
  <2> HIDE DEF begin, read, start
  <2> QED
    BY <1>1, <1>2, <1>3, <1>4, OfTwo DEF ALog
<1>6. next \in start..last /\ (start < last => start < next)
  <2> HIDE DEF begin, read, start, last
  <2>1. LineEnds(start + 1, last) \in SUBSET (0..Size)
    BY <1>1 DEF LineEnds, ALog
  <2>2. /\ WholeLines(start, last) \in start..last
        /\ start < last => start < WholeLines(start, last)
    <3>1. last \in Int /\ start \in Int /\ last \in start..last
      BY <1>1, <1>2, <1>3, <1>4, <1>5
    <3>2. CASE LineEnds(start + 1, last) # {}
      <4>1. Max(LineEnds(start + 1, last)) \in LineEnds(start + 1, last)
        BY <1>1, <2>1, <3>2, MaxOf
      <4> QED
        BY <3>1, <3>2, <4>1 DEF WholeLines, LineEnds
    <3> QED
      BY <3>1, <3>2 DEF WholeLines
  <2> QED
    BY <1>1, <1>2, <1>3, <1>4, <1>5, <2>2
<1>7. Chunk(b, offset).start = start /\ Chunk(b, offset).next = next
  BY DEF Chunk
<1>8. begin = read => begin = written[b]
  <2> HIDE DEF begin
  <2> QED
    BY <1>1, <1>2, OfTwo DEF ALog
<1> HIDE DEF begin, read, start, last, next
<1>9. next = offset => offset = written[b]
  <2> SUFFICES ASSUME next = offset
               PROVE  offset = written[b]
    OBVIOUS
  <2>1. offset # None
    BY <1>1, <1>2, <1>3, <1>4, <1>5, <1>6 DEF ALog
  <2> QED
    BY <1>1, <1>2, <1>3, <1>4, <1>5, <1>6, <1>8, <2>1
<1> QED
  BY <1>1, <1>2, <1>3, <1>4, <1>5, <1>6, <1>7, <1>9

\* A poll asks for more until it has read what is written; complete is the
\* log of a build that has ended, read to the end.
LEMMA ChunkReachesTheEnd ==
    ASSUME ALog, NEW b \in Builds, written \in [Builds -> 0..Size], NEW f,
           f.offset \in Nat \cup {None}, f.offset # None => f.offset <= written[b]
    PROVE  LET a == Chunk(b, f.offset)
           IN  /\ a.complete <=> status[b] \in Ended /\ a.next >= written[b]
               /\ ~GoesOn(f, a) => a.next >= written[b]
<1> DEFINE a == Chunk(b, f.offset)
<1>1. a.next = f.offset => f.offset = written[b]
  BY ChunkIsAPiece
<1>2. a.next \in Int /\ written[b] \in Nat
  <2>1. a.next \in 0..written[b]
    BY ChunkIsAPiece
  <2> HIDE DEF a
  <2> QED
    BY <2>1 DEF ALog
<1>3. a.size = written[b] /\ (a.complete <=> status[b] \in Ended /\ a.next >= written[b])
  BY DEF Chunk
<1> HIDE DEF a
<1>4. ~GoesOn(f, a) => a.next >= written[b]
  BY <1>1, <1>2, <1>3 DEF GoesOn
<1> QED
  BY <1>3, <1>4 DEF a
-----------------------------------------------------------------------------
LEMMA TextsJoin ==
    ASSUME NEW x \in Seq(Nat), NEW y \in Seq(Nat), NEW z \in Seq(Nat)
    PROVE  (x \o y) \o z = x \o (y \o z)
BY ConcatAssociative

LEMMA BytesAreASequence ==
    ASSUME NEW p \in Nat, NEW q \in Nat, p <= q
    PROVE  /\ Bytes(p + 1, q) \in Seq(Nat)
           /\ Len(Bytes(p + 1, q)) = q - p
           /\ \A i \in 1..(q - p) : Bytes(p + 1, q)[i] = p + i
<1>1. Bytes(p + 1, q) = [i \in 1..(q - p) |-> p + i]
  BY DEF Bytes
<1>2. q - p \in Nat /\ \A i \in 1..(q - p) : p + i \in Nat
  OBVIOUS
<1> QED
  BY <1>1, <1>2

LEMMA BytesJoin ==
    ASSUME NEW p \in Nat, NEW q \in Nat, NEW r \in Nat, p <= q, q <= r
    PROVE  Bytes(p + 1, q) \o Bytes(q + 1, r) = Bytes(p + 1, r)
<1> DEFINE s == Bytes(p + 1, q)
           t == Bytes(q + 1, r)
           u == Bytes(p + 1, r)
<1>1. s \in Seq(Nat) /\ Len(s) = q - p /\ \A i \in 1..(q - p) : s[i] = p + i
  BY BytesAreASequence
<1>2. t \in Seq(Nat) /\ Len(t) = r - q /\ \A i \in 1..(r - q) : t[i] = q + i
  BY BytesAreASequence
<1>3. u \in Seq(Nat) /\ Len(u) = r - p /\ \A i \in 1..(r - p) : u[i] = p + i
  <2>1. p <= r
    OBVIOUS
  <2> QED
    BY <2>1, BytesAreASequence
<1> HIDE DEF s, t, u
<1>4. /\ s \o t \in Seq(Nat) /\ Len(s \o t) = Len(s) + Len(t)
      /\ \A i \in 1..Len(s) + Len(t) :
           (s \o t)[i] = IF i <= Len(s) THEN s[i] ELSE t[i - Len(s)]
  BY <1>1, <1>2, ConcatProperties
<1>5. Len(s) + Len(t) = r - p
  BY <1>1, <1>2
<1>6. ASSUME NEW i \in 1..(r - p)
      PROVE  (s \o t)[i] = u[i]
  <2>1. (s \o t)[i] = IF i <= Len(s) THEN s[i] ELSE t[i - Len(s)]
    BY <1>4, <1>5
  <2>2. CASE i <= q - p
    <3>1. i \in 1..(q - p)
      BY <2>2
    <3>2. s[i] = p + i
      BY <1>1, <3>1
    <3> QED
      BY <1>1, <1>3, <2>1, <2>2, <3>2
  <2>3. CASE ~(i <= q - p)
    <3>1. i - (q - p) \in 1..(r - q)
      BY <2>3
    <3>2. t[i - (q - p)] = q + (i - (q - p))
      BY <1>2, <3>1
    <3> QED
      BY <1>1, <1>3, <2>1, <2>3, <3>2
  <2> QED
    BY <2>2, <2>3
<1>7. s \o t = u
  BY <1>3, <1>4, <1>5, <1>6, SeqEqual
<1> QED
  BY <1>7 DEF s, t, u

Statuses == {"none", "running", "ready", "failed", "deleted"}

\* A follower of build b and what it has given out: a piece of the log that
\* ends where it reads on.
Follows(b, f, text) ==
    /\ f \in [build : {b}, from : Nat, offset : Nat \cup {None}, partial : Seq(Nat),
              finished : BOOLEAN, status : Statuses \cup {None}]
    /\ text \in Seq(Nat)
    /\ f.offset = None => text = <<>> /\ f.partial = <<>>
    /\ f.offset # None => f.from <= f.offset /\ f.offset <= written[b]
    /\ ShowsTheLog(f, text)

\* Every answer makes the piece longer, whatever it gives out of it.
LEMMA AnswerIsJoined ==
    ASSUME ALog, NEW b \in Builds,
           written \in [Builds -> 0..Size], status \in [Builds -> Statuses],
           NEW f, NEW text, Follows(b, f, text)
    PROVE  LET a == Chunk(b, f.offset)
           IN  Follows(b, After(f, a), text \o Lines(f, a)) /\ Lines(f, a) \in Seq(Nat)
<1> DEFINE a == Chunk(b, f.offset)
           whole == Joined(f, a)
           from == IF f.offset = None THEN a.start ELSE f.from
<1>1. /\ a.start \in 0..a.next /\ a.next \in 0..written[b]
      /\ f.offset # None => a.start = f.offset
  BY ChunkIsAPiece DEF Follows
<1>2. a.status = status[b] /\ a.complete \in BOOLEAN
  BY DEF Chunk
<1> HIDE DEF a
<1>3. written[b] \in Nat
  BY DEF ALog
<1>4. from \in Nat /\ from <= a.next /\ a.next \in Nat /\ a.next <= written[b]
  BY <1>1, <1>3 DEF Follows
<1>5. Bytes(a.start + 1, a.next) \in Seq(Nat)
  <2>1. a.start \in Nat /\ a.next \in Nat /\ a.start <= a.next
    BY <1>1, <1>3
  <2> QED
    BY <2>1, BytesAreASequence
<1>6. whole \in Seq(Nat) /\ f.partial \in Seq(Nat) /\ text \in Seq(Nat)
  BY <1>5 DEF Joined, Follows
<1>7. text \o whole = Bytes(from + 1, a.next)
  <2>1. CASE f.offset = None
    BY <1>5, <2>1 DEF Joined, Follows
  <2>2. CASE f.offset # None
    <3>1. text \o f.partial = Bytes(f.from + 1, f.offset)
      BY <2>2 DEF Follows, ShowsTheLog
    <3>2. text \o whole = (text \o f.partial) \o Bytes(a.start + 1, a.next)
      <4> DEFINE more == Bytes(a.start + 1, a.next)
      <4>1. whole = f.partial \o more /\ more \in Seq(Nat)
        BY <1>5 DEF Joined
      <4> HIDE DEF whole, more
      <4>2. (text \o f.partial) \o more = text \o (f.partial \o more)
        BY <1>6, <4>1, TextsJoin
      <4> QED
        BY <4>1, <4>2 DEF more
    <3>3. f.from \in Nat /\ f.offset \in Nat /\ f.from <= f.offset /\ f.offset <= a.next
      BY <1>1, <1>3, <2>2 DEF Follows
    <3>4. Bytes(f.from + 1, f.offset) \o Bytes(f.offset + 1, a.next)
            = Bytes(f.from + 1, a.next)
      BY <1>4, <3>3, BytesJoin
    <3>5. a.start = f.offset /\ from = f.from
      BY <1>1, <2>2
    <3> QED
      BY <3>1, <3>2, <3>4, <3>5
  <2> QED
    BY <2>1, <2>2
<1>8. Given(f, a) \in 0..Len(whole)
  <2>1. CASE a.complete
    BY <1>6, <2>1 DEF Given
  <2>2. CASE ~a.complete
    <3> DEFINE ends == {0} \cup {i \in 1..Len(whole) : whole[i] \in Newlines}
    <3>1. ends \in SUBSET (0..Len(whole)) /\ ends # {} /\ Len(whole) \in Nat
      BY <1>6
    <3>2. Max(ends) \in ends
      BY <3>1, MaxOf
    <3> QED
      BY <2>2, <3>1, <3>2 DEF Given, LastEnd
  <2> QED
    BY <2>1, <2>2
<1> DEFINE kept == SubSeq(whole, Given(f, a) + 1, Len(whole))
<1>9. /\ Lines(f, a) \in Seq(Nat) /\ kept \in Seq(Nat)
      /\ Lines(f, a) \o kept = whole
  <2>1. Lines(f, a) = SubSeq(whole, 1, Given(f, a))
    BY DEF Lines
  <2> HIDE DEF whole
  <2>2. Lines(f, a) \in Seq(Nat) /\ kept \in Seq(Nat)
    BY <1>6, <1>8, <2>1
  <2>3. SubSeq(whole, 1, Given(f, a)) \o kept = SubSeq(whole, 1, Len(whole))
    <3>1. /\ 1 \in 1..Len(whole) + 1 /\ Given(f, a) \in (1 - 1)..Len(whole)
          /\ Len(whole) \in Given(f, a)..Len(whole)
      BY <1>6, <1>8
    <3> QED
      BY <1>6, <3>1, ConcatAdjacentSubSeq
  <2> QED
    BY <1>6, <2>1, <2>2, <2>3, SubSeqFull
<1>10. (text \o Lines(f, a)) \o kept = Bytes(from + 1, a.next)
  <2> HIDE DEF whole, kept
  <2>1. (text \o Lines(f, a)) \o kept = text \o (Lines(f, a) \o kept)
    BY <1>6, <1>9, TextsJoin
  <2> QED
    BY <1>7, <1>9, <2>1
<1>11. After(f, a) = [build |-> b, from |-> from, offset |-> a.next, partial |-> kept,
                      finished |-> a.complete, status |-> a.status]
  <2>1. f \in [build : {b}, from : Nat, offset : Nat \cup {None}, partial : Seq(Nat),
               finished : BOOLEAN, status : Statuses \cup {None}]
    BY DEF Follows
  <2>2. After(f, a) = [f EXCEPT !.from = from, !.offset = a.next, !.status = a.status,
                                !.finished = a.complete, !.partial = kept]
    BY DEF After
  <2> HIDE DEF whole, kept, from
  <2> QED
    BY <2>1, <2>2
<1> HIDE DEF whole, kept, from
<1>12. text \o Lines(f, a) \in Seq(Nat)
  BY <1>9 DEF Follows
<1>13. a.next # None
  BY <1>4 DEF ALog
<1>14. Follows(b, After(f, a), text \o Lines(f, a))
  BY <1>2, <1>4, <1>9, <1>10, <1>11, <1>12, <1>13 DEF Follows, ShowsTheLog
<1> QED
  BY <1>9, <1>14 DEF a
-----------------------------------------------------------------------------
\* Constants are what the program gives them: a command names one build, its
\* exit status is a number or not there yet.
Sensible ==
    Mine \in Builds /\ Kinds \subseteq AllKinds /\ None \notin Int /\ None \notin Statuses

\* Nothing is started before the request that starts it, and that request is
\* the last for `build`.
BeforeTheStart ==
    /\ pc \in {"project", "post"} => started = 0 /\ kind \in Starting
    /\ kind = "build" => pc \in {"project", "post", "done"}
    /\ kind \in Reading => pc \in {"log", "done"}
    /\ pc # "done" => exit = None

\* The history has how the build ended, and the last read of a log is of one
\* that did.
EndIsKnown ==
    /\ status[Mine] \in Ended => result.status = status[Mine]
    /\ pc = "last" => status[Mine] \in Ended \cup {"deleted"}

\* While the process is under way nothing has been told; what it tells then
\* is the end of it.
CommandInv ==
    /\ kind \in AllKinds
    /\ pc \in {"project", "post", "log", "build", "last", "done"}
    /\ status \in [Builds -> Statuses]
    /\ started \in {0, 1}
    /\ BeforeTheStart
    /\ EndIsKnown
    /\ ToldIsTrue
-----------------------------------------------------------------------------
LEMMA KindsDiffer ==
    /\ "build" \in Starting /\ "build" \notin Reading
    /\ Starting \cap Reading = {}
    /\ "reconnect" \notin Starting \cup Reading
BY DEF Starting, Reading

LEMMA CommandStarts ==
    ASSUME Sensible, CommandInit
    PROVE  CommandInv
<1>1. kind \in AllKinds
  BY DEF CommandInit, Sensible
<1>2. status \in [Builds -> Statuses] /\ status[Mine] \in {"none", "running"}
  BY DEF CommandInit, Sensible, ServerInit, Statuses
<1>3. pc = IF kind \in Starting THEN "project" ELSE Round
  BY DEF CommandInit
<1>4. exit = None /\ started = 0
  BY DEF CommandInit
<1>5. BeforeTheStart
  BY <1>1, <1>3, <1>4, KindsDiffer
  DEF BeforeTheStart, Round, WithLog, AllKinds, Starting, Reading
<1>6. pc \in {"project", "log", "build"}
  BY <1>3 DEF Round
<1>7. EndIsKnown
  BY <1>2, <1>6 DEF EndIsKnown, Ended
<1>8. ToldIsTrue
  BY <1>4 DEF ToldIsTrue, Sensible
<1> QED
  BY <1>1, <1>2, <1>4, <1>5, <1>6, <1>7, <1>8 DEF CommandInv

\* A request without an answer: the command repeats it, or ends, or waits for
\* the connection; the server has seen it only if it was the request to start.
LEMMA LossIsTold ==
    ASSUME Sensible, CommandInv, Loses
    PROVE  CommandInv'
<1>1. PICK why \in {"connect", "sent", "proxy"} : LosesAnswer(why)
  BY DEF Loses
<1>2. \/ pc # "post" /\ pc' = pc /\ exit' = exit
      \/ pc = "post" /\ pc' = "done" /\ exit' = 7
      \/ pc' = "done" /\ exit' \in {1, 6}
      \/ Waits /\ pc' = Round /\ exit' = exit
      \/ (pc = "post" => why = "connect") /\ pc' = "done" /\ exit' = 3
  <2>1. CASE Repeatable /\ tries + 1 < Attempts
    BY <1>1, <2>1 DEF LosesAnswer, Repeatable
  <2>2. CASE ~(Repeatable /\ tries + 1 < Attempts)
    <3>1. CASE why = "proxy"
      BY <1>1, <2>2, <3>1 DEF LosesAnswer, Exit
    <3>2. CASE why = "sent" /\ pc = "post"
      BY <1>1, <2>2, <3>2 DEF LosesAnswer, Exit
    <3>3. CASE why # "proxy" /\ ~(why = "sent" /\ pc = "post")
      <4>1. IF Waits THEN KeepsWaiting ELSE Exit(3)
        BY <1>1, <2>2, <3>3 DEF LosesAnswer
      <4>2. pc = "post" => why = "connect"
        BY <3>3
      <4> QED
        BY <4>1, <4>2 DEF KeepsWaiting, Exit, Waits
    <3> QED
      BY <3>1, <3>2, <3>3
  <2> QED
    BY <2>1, <2>2
<1>3. kind' = kind /\ result' = result /\ pc # "done" /\ exit = None
  BY <1>1 DEF LosesAnswer, CommandInv, BeforeTheStart
<1>4. \/ status' = status /\ started' = started
      \/ /\ pc = "post" /\ why # "connect"
         /\ started' = started + 1
         /\ status' = [status EXCEPT ![Mine] = "running"]
  BY <1>1 DEF LosesAnswer, NeverArrives, ReachesServer, serverVars
<1>5. /\ status' \in [Builds -> Statuses] /\ started' \in {0, 1}
      /\ pc # "post" => status' = status /\ started' = started
  BY <1>4 DEF CommandInv, BeforeTheStart, Statuses
<1>6. Round \in {"log", "build"} /\ (kind \in Reading => Round = "log")
  BY KindsDiffer DEF Round, WithLog, Reading
<1>7. pc' \in {"project", "post", "log", "build", "last", "done"}
  BY <1>2, <1>6 DEF CommandInv
<1>8. BeforeTheStart'
  <2>1. (pc \in {"project", "post"} => started = 0 /\ kind \in Starting)'
    BY <1>2, <1>3, <1>5, <1>6 DEF CommandInv, BeforeTheStart
  <2>2. (kind = "build" => pc \in {"project", "post", "done"})'
    BY <1>2, <1>3 DEF CommandInv, BeforeTheStart, Waits
  <2>3. (kind \in Reading => pc \in {"log", "done"})'
    BY <1>2, <1>3, <1>6 DEF CommandInv, BeforeTheStart
  <2>4. (pc # "done" => exit = None)'
    BY <1>2, <1>3
  <2> QED
    BY <2>1, <2>2, <2>3, <2>4 DEF BeforeTheStart
<1>9. EndIsKnown'
  <2>1. CASE pc = "post"
    BY <1>2, <1>3, <1>4, <2>1 DEF CommandInv, EndIsKnown, Waits, Ended, Sensible
  <2>2. CASE pc # "post"
    BY <1>2, <1>3, <1>5, <1>6, <2>2 DEF CommandInv, EndIsKnown
  <2> QED
    BY <2>1, <2>2
<1>10. ToldIsTrue'
  <2>1. exit' \in {None, 1, 3, 6, 7}
    BY <1>2, <1>3
  <2>2. exit' = 3 /\ kind = "build" => started' = 0
    <3>1. exit' = 3 => (pc = "post" => why = "connect")
      BY <1>2, <1>3 DEF Sensible
    <3> QED
      BY <1>3, <1>4, <3>1 DEF CommandInv, BeforeTheStart
  <2> QED
    BY <1>3, <1>5, <2>1, <2>2 DEF ToldIsTrue, Sensible
<1> QED
  BY <1>3, <1>5, <1>7, <1>8, <1>9, <1>10 DEF CommandInv

\* The server ends, writes or loses the build while the command runs.
LEMMA ServerIsTold ==
    ASSUME Sensible, CommandInv, Server
    PROVE  CommandInv'
<1>1. /\ kind' = kind /\ pc' = pc /\ started' = started /\ exit' = exit
      /\ pc # "done" /\ exit = None
  BY DEF Server, CommandInv, BeforeTheStart
<1>2. status \in [Builds -> Statuses] /\ Mine \in Builds
  BY DEF CommandInv, Sensible
<1>3. /\ status' \in [Builds -> Statuses]
      /\ status'[Mine] \in Ended => result'.status = status'[Mine]
      /\ status[Mine] \in Ended => status'[Mine] \in Ended \cup {"deleted"}
      /\ status[Mine] = "deleted" => status'[Mine] = "deleted"
  <2>1. CASE Ends(Mine) /\ result' = Result
    BY <1>2, <2>1 DEF Ends, End, Result, Ended, Statuses
  <2>2. CASE Emit(Mine) /\ UNCHANGED result
    BY <1>2, <2>2 DEF Emit, CommandInv, EndIsKnown
  <2>3. CASE Delete(Mine) /\ UNCHANGED result
    BY <1>2, <2>3 DEF Delete, Ended, Statuses
  <2> QED
    BY <2>1, <2>2, <2>3 DEF Server
<1>4. BeforeTheStart'
  BY <1>1 DEF CommandInv, BeforeTheStart
<1>5. EndIsKnown'
  BY <1>1, <1>3 DEF CommandInv, EndIsKnown
<1>6. ToldIsTrue'
  BY <1>1 DEF CommandInv, ToldIsTrue, Sensible
<1> QED
  BY <1>1, <1>3, <1>4, <1>5, <1>6 DEF CommandInv

\* The status in an answer is that of the record, and a log is complete only
\* when the build has ended.
LEMMA ChunkTellsTheState ==
    ASSUME NEW b, NEW offset
    PROVE  /\ Chunk(b, offset).status = status[b]
           /\ Chunk(b, offset).complete => status[b] \in Ended
BY DEF Chunk

\* An answer, or Ctrl+C.
LEMMA AnswerIsTold ==
    ASSUME Sensible, CommandInv, Command \/ Interrupt
    PROVE  CommandInv'
<1> USE DEF CommandInv, Sensible
<1>1. Round \in {"log", "build"} /\ (kind \in Reading => Round = "log")
  BY KindsDiffer DEF Round, WithLog, Reading
<1>2. CASE FindProject
  <2>1. /\ pc = "project" /\ pc' = "post" /\ kind' = kind /\ status' = status
        /\ started' = started /\ exit' = exit /\ result' = result
    BY <1>2 DEF FindProject, Answered, serverVars
  <2>2. BeforeTheStart'
    BY <2>1, KindsDiffer DEF BeforeTheStart
  <2> QED
    BY <2>1, <2>2 DEF BeforeTheStart, EndIsKnown, ToldIsTrue
<1>3. CASE Accepted
  <2>1. /\ pc = "post" /\ kind' = kind /\ result' = result /\ started' = started + 1
        /\ status' = [status EXCEPT ![Mine] = "running"]
        /\ kind = "build" => pc' = "done" /\ exit' = 0
        /\ kind # "build" => pc' = Round /\ exit' = exit
    BY <1>3 DEF Accepted, Answered, ReachesServer, Exit
  <2>2. /\ started' = 1 /\ kind \notin Reading /\ exit = None
        /\ status' \in [Builds -> Statuses] /\ status'[Mine] = "running"
    BY <2>1, KindsDiffer DEF BeforeTheStart, Starting, Reading, Statuses
  <2>3. BeforeTheStart'
    BY <1>1, <2>1, <2>2 DEF BeforeTheStart
  <2>4. EndIsKnown'
    BY <1>1, <2>1, <2>2 DEF EndIsKnown, Ended
  <2>5. ToldIsTrue'
    BY <2>1, <2>2 DEF ToldIsTrue
  <2> QED
    BY <1>1, <2>1, <2>2, <2>3, <2>4, <2>5
<1>4. CASE Refused \/ Gone \/ Interrupt
  <2>1. /\ kind' = kind /\ result' = result /\ started' = started /\ status' = status
        /\ pc' = "done" /\ pc # "done"
        /\ \/ exit' = 4 /\ pc = "post"
           \/ exit' = 5 /\ status[Mine] = "deleted"
           \/ exit' = 130
    BY <1>4 DEF Refused, Gone, Interrupt, Answered, Exit, serverVars
  <2>2. BeforeTheStart' /\ EndIsKnown'
    BY <2>1 DEF BeforeTheStart, EndIsKnown
  <2>3. ToldIsTrue'
    BY <2>1 DEF BeforeTheStart, ToldIsTrue
  <2> QED
    BY <2>1, <2>2, <2>3
<1>5. CASE ReadLog \/ ReadBuild
  <2>1. /\ kind' = kind /\ result' = result /\ started' = started /\ status' = status
        /\ pc \in {"log", "build", "last"} /\ exit = None
        /\ kind # "build" /\ (kind \in Reading => pc = "log")
    BY <1>5, KindsDiffer DEF ReadLog, ReadBuild, Answered, serverVars, BeforeTheStart
  <2>2. \/ pc' = pc /\ exit' = exit
        \/ kind \notin Reading /\ pc' = "build" /\ exit' = exit
        \/ kind \notin Reading /\ pc' = "last" /\ exit' = exit /\ status[Mine] \in Ended
        \/ pc' = Round /\ exit' = exit
        \/ pc' = "done" /\ exit' = 0 /\ kind = "show"
        \/ pc' = "done" /\ exit' = 0 /\ status[Mine] \in Ended \ {"failed"}
        \/ pc' = "done" /\ exit' = 9 /\ status[Mine] = "failed"
    <3>1. CASE ReadBuild
      BY <2>1, <3>1 DEF ReadBuild, Answered, Verdict, Exit, Ended, Reading, WithLog
    <3>2. CASE ReadLog
      <4>1. pc \in {"log", "last"} /\ kind \in WithLog /\ status[Mine] # "deleted"
        BY <3>2 DEF ReadLog, Answered
      <4>2. PICK a \in {Chunk(Mine, follower.offset)} :
              CASE GoesOn(follower, a) -> UNCHANGED <<pc, exit, lost>>
                [] ~GoesOn(follower, a) /\ pc = "last" ->
                     Verdict(a.status) /\ UNCHANGED lost
                [] ~GoesOn(follower, a) /\ kind = "show" -> Exit(0) /\ UNCHANGED lost
                [] ~GoesOn(follower, a) /\ kind = "logs" ->
                     /\ lost' = 0
                     /\ IF a.complete THEN Verdict(a.status) ELSE UNCHANGED <<pc, exit>>
                [] OTHER -> pc' = "build" /\ UNCHANGED <<exit, lost>>
        BY <3>2 DEF ReadLog
      <4>3. a.status = status[Mine] /\ (a.complete => status[Mine] \in Ended)
        BY <4>2, ChunkTellsTheState
      <4>4. CASE GoesOn(follower, a)
        BY <4>2, <4>4
      <4>5. CASE ~GoesOn(follower, a) /\ pc = "last"
        <5>1. kind \notin Reading
          BY <2>1, <4>5
        <5>2. Verdict(a.status)
          BY <4>2, <4>5, <5>1 DEF Reading
        <5>3. status[Mine] \in Ended
          BY <4>1, <4>5 DEF EndIsKnown
        <5> QED
          BY <4>3, <5>2, <5>3 DEF Verdict, Exit, Ended
      <4>6. CASE ~GoesOn(follower, a) /\ kind = "show"
        <5>1. Exit(0)
          BY <2>1, <4>2, <4>6 DEF Reading
        <5> QED
          BY <4>6, <5>1 DEF Exit
      <4>7. CASE ~GoesOn(follower, a) /\ kind = "logs"
        <5>1. IF a.complete THEN Verdict(a.status) ELSE UNCHANGED <<pc, exit>>
          BY <2>1, <4>2, <4>7 DEF Reading
        <5> QED
          BY <4>3, <5>1 DEF Verdict, Exit, Ended
      <4>8. CASE ~GoesOn(follower, a) /\ pc # "last" /\ kind \notin Reading
        BY <4>2, <4>8 DEF Reading
      <4> QED
        BY <4>4, <4>5, <4>6, <4>7, <4>8 DEF Reading
    <3> QED
      BY <1>5, <3>1, <3>2
  <2>3. BeforeTheStart'
    BY <1>1, <2>1, <2>2 DEF BeforeTheStart
  <2>4. EndIsKnown'
    BY <1>1, <2>1, <2>2 DEF EndIsKnown
  <2>5. ToldIsTrue'
    BY <2>1, <2>2 DEF ToldIsTrue, EndIsKnown, Ended
  <2>6. pc' \in {"project", "post", "log", "build", "last", "done"}
    BY <1>1, <2>1, <2>2
  <2> QED
    BY <2>1, <2>3, <2>4, <2>5, <2>6
<1> QED
  BY <1>2, <1>3, <1>4, <1>5 DEF Command

LEMMA CommandKeeps ==
    ASSUME Sensible, CommandInv, [CommandNext]_<<serverVars, commandVars>>
    PROVE  CommandInv'
<1>1. CASE CommandNext
  BY <1>1, AnswerIsTold, LossIsTold, ServerIsTold DEF CommandNext
<1>2. CASE UNCHANGED <<serverVars, commandVars>>
  BY <1>2 DEF CommandInv, BeforeTheStart, EndIsKnown, ToldIsTrue, serverVars, commandVars
<1> QED
  BY <1>1, <1>2

\* The exit status of a command is true: for every log, every number of
\* attempts and of lost answers, a build is started once at most, is called
\* finished only when it is, and 3 and 4 mean that nothing was started.
THEOREM ExitStatusIsTrue ==
    ASSUME Sensible
    PROVE  CommandSpec => []ToldIsTrue
<1>1. CommandInit => CommandInv
  BY CommandStarts
<1>2. CommandInv /\ [CommandNext]_<<serverVars, commandVars>> => CommandInv'
  BY CommandKeeps
<1>3. CommandInv => ToldIsTrue
  BY DEF CommandInv
<1> QED
  BY <1>1, <1>2, <1>3, PTL DEF CommandSpec
-----------------------------------------------------------------------------
\* What is in a log ends with a line end or with the log; what was shown and
\* the follower that read it belong together, and one that has finished read
\* to the end of a log whose build had ended.
LogInv ==
    /\ status \in [Builds -> Statuses]
    /\ written \in [Builds -> 0..Size]
    /\ written[Mine] \in {0} \cup Newlines \cup {Size}
    /\ Follows(Mine, follower, shown) /\ OnlyWholeLines(follower, shown)
    /\ pc \in {"project", "post"} => ~follower.finished
    /\ follower.finished =>
         /\ status[Mine] \in Ended \cup {"deleted"}
         /\ follower.partial = <<>> /\ follower.offset # None
         /\ follower.offset \in {0} \cup Newlines \cup {Size}
         /\ follower.offset >= result.written
    /\ result.written \in 0..written[Mine]
    /\ exit \in {0, 9} /\ kind \in {"follow", "reconnect", "logs"} =>
         follower.offset # None /\ follower.offset >= result.written

LEMMA LogStarts ==
    ASSUME Sensible, ALog, CommandInit
    PROVE  LogInv
<1>1. /\ status \in [Builds -> Statuses] /\ Mine \in Builds
      /\ written = [b \in Builds |-> 0] /\ Size \in Nat
  <2>1. ServerInit(IF kind \in Starting THEN {} ELSE {Mine}, {})
    BY DEF CommandInit
  <2> QED
    BY <2>1 DEF ServerInit, Statuses, Sensible, ALog
<1>2. follower = NewFollower(Mine) /\ shown = <<>> /\ exit = None /\ result = NoResult
  BY DEF CommandInit
<1>3. Follows(Mine, follower, shown)
  BY <1>2 DEF Follows, NewFollower, ShowsTheLog
<1> QED
  BY <1>1, <1>2, <1>3 DEF LogInv, OnlyWholeLines, NewFollower, NoResult, Sensible

\* The log grows by whole lines, and its readers do not notice.
LEMMA LogGrows ==
    ASSUME Sensible, ALog, LogInv, UNCHANGED <<follower, shown>>,
           written' = written \/ Emit(Mine)
    PROVE  /\ written' \in [Builds -> 0..Size]
           /\ written'[Mine] \in {0} \cup Newlines \cup {Size}
           /\ written'[Mine] >= written[Mine]
           /\ Follows(Mine, follower, shown)' /\ OnlyWholeLines(follower, shown)'
<1>1. /\ written' \in [Builds -> 0..Size]
      /\ written'[Mine] \in {0} \cup Newlines \cup {Size}
      /\ written'[Mine] >= written[Mine]
  <2>1. CASE written' = written
    BY <2>1 DEF LogInv, Sensible, ALog
  <2>2. CASE Emit(Mine)
    <3> DEFINE ends == {n \in Newlines \cup {Size} : n > written[Mine]}
    <3>1. /\ written[Mine] < Size /\ written[Mine] \in Nat /\ Size \in Nat
          /\ written' = [written EXCEPT ![Mine] = Min(ends)]
      BY <2>2 DEF Emit, LogInv, Sensible, ALog
    <3>2. ends \in SUBSET Nat /\ ends # {} /\ ends \subseteq 0..Size
      <4>1. Newlines \cup {Size} \subseteq 0..Size
        BY <3>1 DEF ALog
      <4>2. Size \in ends
        BY <3>1
      <4>3. ends \subseteq 0..Size
        BY <4>1
      <4> QED
        BY <4>2, <4>3
    <3>3. Min(ends) \in ends
      BY <3>2, MinOf
    <3> HIDE DEF ends
    <3>4. Min(ends) \in 0..Size
      BY <3>2, <3>3
    <3>5. Min(ends) > written[Mine] /\ Min(ends) \in Newlines \cup {Size}
      BY <3>3 DEF ends
    <3> QED
      BY <3>1, <3>4, <3>5 DEF LogInv, Sensible
  <2> QED
    BY <2>1, <2>2
<1>2. Follows(Mine, follower, shown)'
  <2>1. Follows(Mine, follower, shown) /\ UNCHANGED <<follower, shown>>
    BY DEF LogInv
  <2>2. follower.offset # None => follower.offset <= written'[Mine]
    BY <1>1, <2>1 DEF Follows, LogInv, Sensible, ALog
  <2> QED
    BY <2>1, <2>2 DEF Follows, ShowsTheLog
<1> QED
  BY <1>1, <1>2 DEF LogInv, OnlyWholeLines

\* An answer is shown.  The read that finishes a follower is of a whole log,
\* and whatever is read again after it ends as well.
LEMMA AnswerIsShown ==
    ASSUME Sensible, ALog, LogInv, CommandInv, ReadLog
    PROVE  LogInv'
<1>1. PICK a \in {Chunk(Mine, follower.offset)} :
        /\ follower' = After(follower, a)
        /\ shown' = shown \o Lines(follower, a)
        /\ CASE GoesOn(follower, a) -> UNCHANGED <<pc, exit, lost>>
             [] ~GoesOn(follower, a) /\ pc = "last" -> Verdict(a.status) /\ UNCHANGED lost
             [] ~GoesOn(follower, a) /\ kind = "show" -> Exit(0) /\ UNCHANGED lost
             [] ~GoesOn(follower, a) /\ kind = "logs" ->
                  /\ lost' = 0
                  /\ IF a.complete THEN Verdict(a.status) ELSE UNCHANGED <<pc, exit>>
             [] OTHER -> pc' = "build" /\ UNCHANGED <<exit, lost>>
  BY DEF ReadLog
<1>2. /\ status' = status /\ written' = written /\ kind' = kind /\ result' = result
      /\ pc \in {"log", "last"} /\ status[Mine] # "deleted" /\ exit = None
  BY DEF ReadLog, Answered, serverVars, CommandInv, BeforeTheStart
<1>3. Mine \in Builds /\ Follows(Mine, follower, shown) /\ written \in [Builds -> 0..Size]
      /\ status \in [Builds -> Statuses]
  BY DEF LogInv, Sensible
<1>4. a = Chunk(Mine, follower.offset)
  BY <1>1
<1>5. Follows(Mine, follower', shown')
  <2>1. Follows(Mine, After(follower, Chunk(Mine, follower.offset)),
                shown \o Lines(follower, Chunk(Mine, follower.offset)))
    BY <1>3, AnswerIsJoined
  <2> QED
    BY <1>1, <1>4, <2>1
<1>6. Follows(Mine, follower, shown)'
  BY <1>2, <1>5 DEF Follows, ShowsTheLog
<1>7. /\ follower.offset \in Nat \cup {None}
      /\ follower.offset # None => follower.offset <= written[Mine]
  BY <1>3 DEF Follows
<1>8. /\ a.next \in Nat /\ written[Mine] \in Nat /\ a.next <= written[Mine]
      /\ a.complete <=> status[Mine] \in Ended /\ a.next >= written[Mine]
      /\ ~GoesOn(follower, a) => a.next >= written[Mine]
      /\ follower.offset # None => a.start = follower.offset
      /\ a.start <= a.next
  <2>1. /\ a.start \in 0..a.next /\ a.next \in 0..written[Mine]
        /\ follower.offset # None => a.start = follower.offset
    BY <1>3, <1>4, <1>7, ChunkIsAPiece
  <2>2. /\ a.complete <=> status[Mine] \in Ended /\ a.next >= written[Mine]
        /\ ~GoesOn(follower, a) => a.next >= written[Mine]
    BY <1>3, <1>4, <1>7, ChunkReachesTheEnd
  <2>3. written[Mine] \in Nat
    BY <1>3 DEF ALog
  <2> QED
    BY <2>1, <2>2, <2>3
<1>9. /\ follower'.finished = a.complete /\ follower'.offset = a.next
      /\ follower'.partial = SubSeq(Joined(follower, a), Given(follower, a) + 1,
                                    Len(Joined(follower, a)))
  BY <1>1, <1>3 DEF After, Follows
<1>10. Joined(follower, a) \in Seq(Nat)
  <2>1. a.start \in Nat
    <3>1. a.start \in 0..a.next
      BY <1>3, <1>4, <1>7, ChunkIsAPiece
    <3> QED
      BY <1>8, <3>1
  <2>2. Bytes(a.start + 1, a.next) \in Seq(Nat)
    BY <1>8, <2>1, BytesAreASequence
  <2> QED
    BY <1>3, <2>2 DEF Joined, Follows
<1>11. OnlyWholeLines(follower', shown')
  <2>1. CASE a.complete
    BY <1>9, <2>1 DEF OnlyWholeLines
  <2>2. CASE ~a.complete
    <3> DEFINE given == Given(follower, a)
               whole == Joined(follower, a)
               ends == {0} \cup {i \in 1..Len(whole) : whole[i] \in Newlines}
    <3>1. given = Max(ends)
      BY <2>2 DEF Given, LastEnd
    <3>2. ends \in SUBSET (0..Len(whole)) /\ ends # {} /\ Len(whole) \in Nat
      BY <1>10
    <3>3. given \in ends
      <4> HIDE DEF given, ends
      <4> QED
        BY <3>1, <3>2, MaxOf
    <3>4. shown' = shown \o SubSeq(whole, 1, given) /\ shown \in Seq(Nat)
      BY <1>1, <1>3 DEF Lines, Follows
    <3> HIDE DEF given, whole
    <3>5. CASE given = 0
      <4>1. shown' = shown
        BY <1>10, <3>4, <3>5
      <4>2. CASE ~follower.finished
        BY <4>1, <4>2 DEF LogInv, OnlyWholeLines
      <4>3. CASE follower.finished
        <5>1. /\ follower.offset \in {0} \cup Newlines \cup {Size}
              /\ follower.offset # None /\ follower.partial = <<>>
              /\ status[Mine] \in Ended
          BY <1>2, <4>3 DEF LogInv
        <5>2. shown \o <<>> = Bytes(follower.from + 1, follower.offset)
          BY <1>3, <5>1 DEF Follows, ShowsTheLog
        <5>3. /\ follower.from \in Nat /\ follower.offset \in Nat
              /\ follower.from <= follower.offset
          BY <1>3, <5>1 DEF Follows
        <5>4. /\ Len(shown) = follower.offset - follower.from
              /\ \A i \in 1..(follower.offset - follower.from) : shown[i] = follower.from + i
          <6>1. shown = Bytes(follower.from + 1, follower.offset)
            BY <3>4, <5>2
          <6> QED
            BY <5>3, <6>1, BytesAreASequence
        <5>5. follower.offset # Size
          BY <1>3, <1>7, <1>8, <2>2, <5>1, <5>3 DEF ALog
        <5>6. shown = <<>> \/ shown[Len(shown)] = follower.offset
          BY <3>4, <5>3, <5>4
        <5>7. shown = <<>> \/ follower.offset # 0
          BY <3>4, <5>3, <5>4
        <5> QED
          BY <4>1, <5>1, <5>5, <5>6, <5>7 DEF OnlyWholeLines
      <4> QED
        BY <4>2, <4>3
    <3>6. CASE given \in 1..Len(whole) /\ whole[given] \in Newlines
      <4> DEFINE lines == SubSeq(whole, 1, given)
      <4>1. /\ lines \in Seq(Nat) /\ Len(lines) = given /\ lines[given] = whole[given]
            /\ given \in Nat \ {0}
        BY <1>10, <3>6 DEF whole
      <4> HIDE DEF lines
      <4>2. Len(shown') = Len(shown) + given /\ shown'[Len(shown) + given] = lines[given]
        BY <3>4, <4>1 DEF lines
      <4> QED
        BY <3>6, <4>1, <4>2 DEF OnlyWholeLines
    <3> QED
      BY <3>3, <3>5, <3>6
  <2> QED
    BY <2>1, <2>2
<1>12. follower'.finished =>
         /\ status'[Mine] \in Ended \cup {"deleted"}
         /\ follower'.partial = <<>> /\ follower'.offset # None
         /\ follower'.offset \in {0} \cup Newlines \cup {Size}
         /\ follower'.offset >= result'.written
  <2> SUFFICES ASSUME a.complete
               PROVE  /\ status[Mine] \in Ended /\ follower'.partial = <<>>
                      /\ a.next = written[Mine]
    BY <1>2, <1>8, <1>9 DEF LogInv, ALog
  <2>1. Given(follower, a) = Len(Joined(follower, a))
    BY DEF Given
  <2>2. follower'.partial = <<>>
    BY <1>9, <1>10, <2>1
  <2> QED
    BY <1>8, <2>2
<1>13. exit' \in {0, 9} => follower'.offset # None /\ follower'.offset >= result'.written
  <2>1. CASE GoesOn(follower, a)
    BY <1>1, <1>2, <2>1 DEF Sensible
  <2>2. CASE ~GoesOn(follower, a)
    BY <1>2, <1>8, <1>9, <2>2 DEF LogInv, ALog
  <2> QED
    BY <2>1, <2>2
<1>14. OnlyWholeLines(follower, shown)'
  BY <1>11 DEF OnlyWholeLines
<1>15. pc' \notin {"project", "post"}
  BY <1>1, <1>2 DEF Verdict, Exit
<1> QED
  BY <1>2, <1>3, <1>6, <1>12, <1>13, <1>14, <1>15 DEF LogInv

\* Every other step leaves what was read alone.
LEMMA OthersKeepTheLog ==
    ASSUME Sensible, ALog, LogInv, CommandInv, CommandNext, ~ReadLog
    PROVE  LogInv'
<1>1. UNCHANGED <<follower, shown>> /\ UNCHANGED kind /\ pc # "done" /\ exit = None
  BY DEF CommandNext, Command, FindProject, Accepted, Refused, Gone, ReadBuild, Loses,
         LosesAnswer, Interrupt, Server, Answered, CommandInv, BeforeTheStart
<1>2. written' = written \/ Emit(Mine)
  BY DEF CommandNext, Command, FindProject, Accepted, Refused, Gone, ReadBuild, Loses,
         LosesAnswer, Interrupt, Server, Answered, ReachesServer, NeverArrives, Ends, End,
         Delete, serverVars
<1>3. /\ written' \in [Builds -> 0..Size]
      /\ written'[Mine] \in {0} \cup Newlines \cup {Size}
      /\ written'[Mine] >= written[Mine]
      /\ Follows(Mine, follower, shown)' /\ OnlyWholeLines(follower, shown)'
  BY <1>1, <1>2, LogGrows
<1>4. \/ status' = status /\ result' = result
      \/ /\ pc = "post" /\ result' = result
         /\ status' = [status EXCEPT ![Mine] = "running"]
      \/ /\ status[Mine] = "running" /\ result'.written = written[Mine]
         /\ \E s \in Ended : status' = [status EXCEPT ![Mine] = s]
      \/ /\ status[Mine] \in Ended /\ result' = result
         /\ status' = [status EXCEPT ![Mine] = "deleted"]
  <2>1. CASE Server
    BY <2>1 DEF Server, Result, Ends, End, Emit, Delete
  <2>2. CASE Loses
    BY <2>2 DEF Loses, LosesAnswer, NeverArrives, ReachesServer, serverVars
  <2>3. CASE Command \/ Interrupt
    BY <2>3 DEF Command, FindProject, Accepted, Refused, Gone, ReadBuild, Interrupt,
                Answered, ReachesServer, serverVars
  <2> QED
    BY <2>1, <2>2, <2>3 DEF CommandNext
<1>5. /\ status' \in [Builds -> Statuses]
      /\ pc # "post" /\ status[Mine] \in Ended \cup {"deleted"} =>
           status'[Mine] \in Ended \cup {"deleted"} /\ result' = result
      /\ result'.written = result.written \/ result'.written = written[Mine]
  BY <1>4 DEF LogInv, Statuses, Ended, Sensible
<1>6. pc' \in {"project", "post"} => pc \in {"project", "post"}
  <2>1. CASE Loses
    BY <2>1 DEF Loses, LosesAnswer, KeepsWaiting, Round, Exit
  <2>2. CASE ~Loses
    BY <2>2 DEF CommandNext, Command, FindProject, Accepted, Refused, Gone, ReadBuild,
                Interrupt, Server, Answered, Verdict, Exit, Round
  <2> QED
    BY <2>1, <2>2
<1>7. follower.finished =>
        /\ status'[Mine] \in Ended \cup {"deleted"}
        /\ follower.partial = <<>> /\ follower.offset # None
        /\ follower.offset \in {0} \cup Newlines \cup {Size}
        /\ follower.offset >= result'.written
  BY <1>5 DEF LogInv
<1>8. result'.written \in 0..written'[Mine]
  <2>1. written[Mine] \in Nat /\ written'[Mine] \in Nat
    BY <1>3 DEF LogInv, Sensible, ALog
  <2> QED
    BY <1>3, <1>5, <2>1 DEF LogInv
<1>9. exit' \in {0, 9} /\ kind \in {"follow", "reconnect", "logs"} =>
        ReadBuild /\ follower.finished
  <2>1. CASE Loses
    BY <1>1, <2>1 DEF Loses, LosesAnswer, KeepsWaiting, Exit, Sensible
  <2>2. CASE Server \/ Interrupt \/ FindProject \/ Accepted \/ Refused \/ Gone
    BY <1>1, <2>2 DEF Server, Interrupt, FindProject, Accepted, Refused, Gone, Exit, Sensible
  <2>3. CASE ReadBuild
    BY <1>1, <2>3 DEF ReadBuild, Verdict, Exit, Sensible, WithLog
  <2> QED
    BY <2>1, <2>2, <2>3 DEF CommandNext, Command
<1>10. exit' \in {0, 9} /\ kind' \in {"follow", "reconnect", "logs"} =>
         follower'.offset # None /\ follower'.offset >= result'.written
  BY <1>1, <1>7, <1>9
<1> QED
  BY <1>1, <1>3, <1>5, <1>6, <1>7, <1>8, <1>10 DEF LogInv

LEMMA LogKeeps ==
    ASSUME Sensible, ALog, CommandInv, LogInv, [CommandNext]_<<serverVars, commandVars>>
    PROVE  LogInv'
<1>1. CASE CommandNext
  BY <1>1, AnswerIsShown, OthersKeepTheLog
<1>2. CASE UNCHANGED <<serverVars, commandVars>>
  BY <1>2 DEF LogInv, Follows, ShowsTheLog, OnlyWholeLines, serverVars, commandVars
<1> QED
  BY <1>1, <1>2

\* What is shown is the log.
LEMMA LogMeans == LogInv => CommandShowsTheLog
  BY DEF LogInv, CommandShowsTheLog, Follows

\* A command that follows shows the log from where it started, whole lines
\* without a gap or a repetition, whatever answers are lost, and the whole of
\* it when it says how the build ended: for every log and every limit.
THEOREM LogIsShown ==
    ASSUME Sensible, ALog
    PROVE  CommandSpec => []CommandShowsTheLog
<1>1. CommandInit => CommandInv /\ LogInv
  BY CommandStarts, LogStarts
<1>2. CommandInv /\ LogInv /\ [CommandNext]_<<serverVars, commandVars>>
        => CommandInv' /\ LogInv'
  BY CommandKeeps, LogKeeps
<1>3. LogInv => CommandShowsTheLog
  BY LogMeans
<1> QED
  BY <1>1, <1>2, <1>3, PTL DEF CommandSpec
-----------------------------------------------------------------------------
\* The rest of the types.
TypesInv ==
    /\ tries \in 0..Attempts /\ lost \in 0..2 /\ losses \in 0..MaxLost
    /\ exit \in {None, 0, 1, 3, 4, 5, 6, 7, 9, 130}

LEMMA TypesStart ==
    ASSUME Attempts \in Nat, MaxLost \in Nat, CommandInit
    PROVE  TypesInv
BY DEF CommandInit, TypesInv

LEMMA TypesKeep ==
    ASSUME Attempts \in Nat, MaxLost \in Nat, TypesInv,
           [CommandNext]_<<serverVars, commandVars>>
    PROVE  TypesInv'
<1>1. CASE Command
  <2>1. tries' = 0 /\ losses' = losses
    BY <1>1 DEF Command, FindProject, Accepted, Refused, Gone, ReadLog, ReadBuild, Answered
  <2>2. lost' \in {0, lost}
    BY <1>1 DEF Command, FindProject, Accepted, Refused, Gone, ReadLog, ReadBuild
  <2>3. exit' \in {exit, 0, 4, 5, 9}
    BY <1>1 DEF Command, FindProject, Accepted, Refused, Gone, ReadLog, ReadBuild, Exit, Verdict
  <2> QED
    BY <2>1, <2>2, <2>3 DEF TypesInv
<1>2. ASSUME NEW why \in {"connect", "sent", "proxy"}, LosesAnswer(why)
      PROVE  TypesInv'
  <2>1. losses < MaxLost /\ losses' = losses + 1
    BY <1>2 DEF LosesAnswer
  <2>2. tries' = 0 \/ (tries + 1 < Attempts /\ tries' = tries + 1)
    BY <1>2 DEF LosesAnswer
  <2>3. Min({2, lost + 1}) \in 0..2
    <3>1. lost \in Nat
      BY DEF TypesInv
    <3> QED
      BY <3>1, OfTwo
  <2>4. lost' \in {lost, Min({2, lost + 1})}
    BY <1>2 DEF LosesAnswer, KeepsWaiting
  <2>5. exit' \in {exit, 1, 3, 6, 7}
    BY <1>2 DEF LosesAnswer, KeepsWaiting, Exit
  <2> QED
    BY <2>1, <2>2, <2>3, <2>4, <2>5 DEF TypesInv
<1>3. CASE Interrupt
  BY <1>3 DEF Interrupt, Exit, TypesInv
<1>4. CASE Server \/ UNCHANGED <<serverVars, commandVars>>
  BY <1>4 DEF Server, TypesInv, commandVars
<1> QED
  BY <1>1, <1>2, <1>3, <1>4 DEF CommandNext, Loses

LEMMA TypesMean ==
    ASSUME Sensible, ALog, Attempts \in Nat, MaxLost \in Nat, CommandInv, LogInv, TypesInv
    PROVE  CommandTypeOK
<1>1. started \in 0..MaxLost + 1
  BY DEF CommandInv
<1>2. follower.offset \in 0..Size \cup {None}
  BY DEF LogInv, Follows, Sensible, ALog
<1> QED
  BY <1>1, <1>2 DEF CommandTypeOK, CommandInv, TypesInv
=============================================================================
