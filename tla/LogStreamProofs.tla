-------------------------- MODULE LogStreamProofs --------------------------
(***************************************************************************)
(* Nothing falls between the replay and the stream of a log, the end comes *)
(* last, nothing is seen a third time, and a log that is called complete   *)
(* has the result: for any number of readers and lines, and any sizes of   *)
(* file, replay, channel and slice.  Then the scenes of MCLogStream with   *)
(* the client: what a command says of a build is so, and what it and the   *)
(* log panel show of a log is the log.                                     *)
(***************************************************************************)
EXTENDS MCLogStream, FiniteSetTheorems, TLAPS

Streaming == {"subscribed", "replayed", "stream"}

\* A message is under way to r.
Waiting(r) == r \in subscribed /\ (~copied \/ r \in to)

WriterTypes ==
    /\ written \in 0 .. MaxLines
    /\ file \in Seq(Lines)
    /\ status \in {"running", "finished", "deleted"}
    /\ run \in {"run", "tail", "failed", "closing", "over"}
    /\ msg \in Lines \cup {Done}
    /\ copied \in BOOLEAN
    /\ atEnd \in [result : 0 .. MaxLines, done : 0 .. MaxLines]

ReaderTypes ==
    /\ to \subseteq Readers
    /\ rpc \in [Readers -> Streaming \cup {"away", "done", "told"}]
    /\ subscribed \subseteq Readers
    /\ channel \in [Readers -> Seq(Lines \cup {Done})]
    /\ \A r \in Readers : Len(channel[r]) <= Capacity
    /\ screen \in [Readers -> Seq(Lines)]
    /\ skip \in [Readers -> 0 .. MaxLines]
    /\ late \in [Readers -> 0 .. MaxLines]
    /\ dropped \subseteq Readers

FollowTypes ==
    /\ fpc \in [Followers -> {"idle", "status", "sized", "complete"}]
    /\ answer \in [Followers -> [finished : BOOLEAN, size : 0 .. MaxLines]]
    /\ offset \in [Followers -> 0 .. MaxLines]

Types == WriterTypes /\ ReaderTypes /\ FollowTypes

LEMMA TypesAreTypeOK == Types => TypeOK
  BY DEF Types, WriterTypes, ReaderTypes, FollowTypes, TypeOK, Streaming

\* The file is in order, and until it is deleted it is the log, as far as it
\* is kept.
Filed ==
    /\ Len(file) <= written
    /\ \A i \in 1 .. Len(file) : file[i] <= written
    /\ \A i, j \in 1 .. Len(file) : i < j => file[i] < file[j]
    /\ status # "deleted" =>
         /\ Len(file) = Smaller(written, FileLines)
         /\ \A i \in 1 .. Len(file) : file[i] = i

\* Where the worker is, and what it has noted.
Ordered ==
    /\ status = "running" <=> run \in {"run", "failed"}
    /\ msg \in {written, Done}
    /\ to # {} => copied
    /\ ~Quiet => (msg = Done <=> run = "over")
    /\ run = "over" => msg = Done /\ atEnd.done = written
    /\ run # "over" => atEnd.done = 0
    /\ atEnd.result <= written

\* Who is subscribed.
Subscribed ==
    /\ subscribed = {r \in Readers : rpc[r] \in Streaming}
    /\ to \subseteq subscribed
    /\ \A r \in Readers : rpc[r] = "away" => channel[r] = <<>>
    /\ \A r \in Readers : rpc[r] \in {"away", "subscribed"} => screen[r] = <<>>

\* A channel is in order, before what is under way to it; done is its end.
Channelled ==
    \A r \in Readers :
        /\ \A i \in 1 .. Len(channel[r]) :
             /\ channel[r][i] <= written
             /\ channel[r][i] = Done => run = "over" /\ ~Waiting(r)
             /\ Waiting(r) /\ msg # Done => channel[r][i] < msg
        /\ \A i, j \in 1 .. Len(channel[r]) : i < j =>
             /\ channel[r][i] # Done
             /\ channel[r][j] = Done \/ channel[r][i] < channel[r][j]

Structure == Types /\ Filed /\ Ordered /\ Subscribed /\ Channelled
-----------------------------------------------------------------------------
LEMMA InitStructure == Init => Structure
<1> SUFFICES ASSUME Init PROVE Structure
  OBVIOUS
<1> USE SizesAssumption DEF Init, InitAt
<1>1. WriterTypes
  BY DEF WriterTypes, Done
<1>2. ReaderTypes
  BY DEF ReaderTypes
<1>3. FollowTypes
  BY DEF FollowTypes, NoAnswer
<1>4. Filed
  BY DEF Filed, Smaller
<1>5. Ordered
  BY DEF Ordered, Done, Quiet
<1>6. Subscribed
  BY DEF Subscribed, Streaming
<1>7. Channelled
  BY DEF Channelled
<1> QED
  BY <1>1, <1>2, <1>3, <1>4, <1>5, <1>6, <1>7 DEF Structure, Types

LEMMA EmitStructure ==
    ASSUME Structure, NEW next \in {"run", "closing", "failed"}, Emit(next),
           run \in {"run", "tail"},
           next \in {"run", "failed"} <=> run = "run",
           UNCHANGED <<readerVars, followVars>>
    PROVE  Structure'
<1> USE SizesAssumption DEF Structure, Types
<1>0. /\ written' = written + 1 /\ msg' = written + 1 /\ copied' = FALSE /\ to' = to /\ to = {}
      /\ written < MaxLines /\ run' = next /\ UNCHANGED <<status, atEnd>> /\ file' = Appended
      /\ written \in Nat /\ written + 1 \in Lines /\ written + 1 \in 0 .. MaxLines
  BY DEF Emit, Quiet, WriterTypes, Lines
<1>1. WriterTypes' /\ Filed'
  <2>1. CASE Len(file) < FileLines
    <3>1. file' = Append(file, written + 1) /\ written + 1 \in Lines
      BY <1>0, <2>1 DEF Appended
    <3>2. /\ file' \in Seq(Lines) /\ Len(file') = Len(file) + 1
          /\ \A i \in 1 .. Len(file') : file'[i] = IF i <= Len(file) THEN file[i] ELSE written + 1
      BY <3>1 DEF WriterTypes
    <3>3. \A i \in 1 .. Len(file) : file[i] \in Nat
      BY DEF WriterTypes, Lines
    <3>4. Filed'
      <4>1. Len(file) \in Nat /\ \A i \in 1 .. Len(file) : file'[i] = file[i]
        BY <3>2 DEF WriterTypes
      <4>2. file'[Len(file')] = written + 1
        BY <3>2, <4>1
      <4>3. /\ Len(file') <= written' /\ \A i \in 1 .. Len(file') : file'[i] <= written'
            /\ \A i, j \in 1 .. Len(file') : i < j => file'[i] < file'[j]
        BY <1>0, <3>2, <3>3, <4>1 DEF Filed
      <4>4. status' # "deleted" =>
              /\ Len(file') = Smaller(written', FileLines)
              /\ \A i \in 1 .. Len(file') : file'[i] = i
        BY <1>0, <2>1, <3>2, <4>1 DEF Filed, Smaller
      <4> QED
        BY <4>3, <4>4 DEF Filed
    <3>5. WriterTypes'
      BY <1>0, <3>2 DEF WriterTypes
    <3> QED
      BY <3>4, <3>5
  <2>2. CASE ~(Len(file) < FileLines)
    <3>1. file' = file /\ Len(file) \in Nat
      BY <1>0, <2>2 DEF Appended, WriterTypes
    <3>2. \A i \in 1 .. Len(file) : file[i] \in Nat
      BY DEF WriterTypes, Lines
    <3>3. Filed'
      BY <1>0, <2>2, <3>1, <3>2 DEF Filed, Smaller
    <3>4. WriterTypes'
      BY <1>0, <3>1 DEF WriterTypes
    <3> QED
      BY <3>3, <3>4
  <2> QED
    BY <2>1, <2>2
<1>2. ReaderTypes' /\ FollowTypes'
  BY <1>0 DEF ReaderTypes, FollowTypes, readerVars, followVars
<1>3. Ordered'
  BY <1>0 DEF Ordered, Quiet, Done, WriterTypes
<1>4. Subscribed'
  BY <1>0 DEF Subscribed, readerVars
<1>5. Channelled'
  <2>1. \A r \in Readers : \A i \in 1 .. Len(channel[r]) : channel[r][i] \in Nat
    BY DEF ReaderTypes, Lines, Done
  <2>2. UNCHANGED channel /\ \A r \in Readers : ~Waiting(r) \/ copied = FALSE
    BY <1>0 DEF readerVars, Waiting, WriterTypes
  <2>3. run # "over"
    OBVIOUS
  <2> QED
    BY <1>0, <2>1, <2>2, <2>3 DEF Channelled, Done
<1> QED
  BY <1>1, <1>2, <1>3, <1>4, <1>5

\* A step that touches neither the channels nor what is under way.
LEMMA SameChannels ==
    ASSUME Structure, UNCHANGED <<written, channel, msg>>,
           run = "over" => run' = "over",
           \A r \in Readers : Waiting(r)' => Waiting(r)
    PROVE  Channelled'
  BY DEF Structure, Channelled

LEMMA CommitStructure ==
    ASSUME Structure, NEW next \in {"tail", "closing"}, Commit(next),
           run \in {"run", "failed"}, UNCHANGED <<readerVars, followVars>>
    PROVE  Structure'
<1> USE DEF Structure, Types
<1>0. /\ status' = "finished" /\ run' = next /\ atEnd' = [atEnd EXCEPT !.result = written]
      /\ UNCHANGED <<written, file, msg, copied, to>> /\ status = "running"
  BY DEF Commit, Ordered
<1>1. WriterTypes' /\ Filed' /\ Ordered'
  BY <1>0 DEF WriterTypes, Filed, Ordered, Quiet
<1>2. ReaderTypes' /\ FollowTypes' /\ Subscribed'
  BY <1>0 DEF ReaderTypes, FollowTypes, Subscribed, readerVars, followVars
<1>3. Channelled'
  BY <1>0, SameChannels DEF readerVars, Waiting
<1> QED
  BY <1>1, <1>2, <1>3

LEMMA PublishDoneStructure ==
    ASSUME Structure, PublishDone, UNCHANGED <<readerVars, followVars>>
    PROVE  Structure'
<1> USE DEF Structure, Types
<1>0. /\ msg' = Done /\ copied' = FALSE /\ to' = to /\ run' = "over" /\ run = "closing" /\ to = {}
      /\ atEnd' = [atEnd EXCEPT !.done = written] /\ UNCHANGED <<written, file, status>>
      /\ copied
  BY DEF PublishDone, Quiet
<1>1. WriterTypes' /\ Filed' /\ Ordered'
  BY <1>0 DEF WriterTypes, Filed, Ordered, Quiet
<1>2. ReaderTypes' /\ FollowTypes' /\ Subscribed'
  BY <1>0 DEF ReaderTypes, FollowTypes, Subscribed, readerVars, followVars
<1>3. Channelled'
  <2>1. UNCHANGED channel /\ \A r \in Readers : \A i \in 1 .. Len(channel[r]) : channel[r][i] # Done
    BY <1>0 DEF Channelled, readerVars
  <2> QED
    BY <1>0, <2>1 DEF Channelled
<1> QED
  BY <1>1, <1>2, <1>3

LEMMA CopyStructure ==
    ASSUME Structure, Copy, UNCHANGED <<readerVars, followVars>>
    PROVE  Structure'
<1> USE DEF Structure, Types
<1>0. /\ copied' = TRUE /\ ~copied /\ to' = subscribed
      /\ UNCHANGED <<written, file, status, run, msg, atEnd, channel, rpc, subscribed, screen>>
  BY DEF Copy, readerVars
<1>1. WriterTypes' /\ Filed' /\ Ordered'
  BY <1>0 DEF WriterTypes, Filed, Ordered, Quiet
<1>2. ReaderTypes' /\ FollowTypes' /\ Subscribed'
  BY <1>0 DEF ReaderTypes, FollowTypes, Subscribed, readerVars, followVars
<1>3. Channelled'
  BY <1>0, SameChannels DEF Waiting
<1> QED
  BY <1>1, <1>2, <1>3

LEMMA WorkerStructure ==
    ASSUME Structure, Worker
    PROVE  Structure'
  BY EmitStructure, CommitStructure, PublishDoneStructure, CopyStructure
     DEF Worker, Work, Ready, ImageReady, Fail, CommitFailed

LEMMA DeleteStructure ==
    ASSUME Structure, Delete
    PROVE  Structure'
<1> USE DEF Structure, Types
<1>0. /\ status = "finished" /\ status' = "deleted" /\ file' = <<>>
      /\ UNCHANGED <<written, run, msg, copied, to, atEnd, readerVars, followVars>>
  BY DEF Delete
<1>1. WriterTypes' /\ Filed' /\ Ordered'
  BY <1>0 DEF WriterTypes, Filed, Ordered, Quiet
<1>2. ReaderTypes' /\ FollowTypes' /\ Subscribed'
  BY <1>0 DEF ReaderTypes, FollowTypes, Subscribed, readerVars, followVars
<1>3. Channelled'
  BY <1>0, SameChannels DEF Waiting, readerVars
<1> QED
  BY <1>1, <1>2, <1>3

LEMMA PutStructure ==
    ASSUME Structure, NEW r \in Readers, Put(r)
    PROVE  Structure'
<1> USE DEF Structure, Types
<1>0. /\ r \in to /\ to' = to \ {r}
      /\ \/ channel' = [channel EXCEPT ![r] = Append(@, msg)] /\ dropped' = dropped
            /\ Len(channel[r]) < Capacity
         \/ channel' = channel /\ dropped' = dropped \cup {r}
      /\ UNCHANGED <<written, file, status, run, msg, copied, atEnd, rpc, subscribed, screen, skip,
                     late, followVars>>
  BY DEF Put
<1>1. WriterTypes' /\ Filed' /\ FollowTypes'
  BY <1>0 DEF WriterTypes, Filed, FollowTypes, followVars
<1>2. Ordered'
  BY <1>0 DEF Ordered, Quiet
<1>3. r \in subscribed /\ Waiting(r) /\ channel[r] \in Seq(Lines \cup {Done})
      /\ msg \in Lines \cup {Done} /\ msg <= written /\ msg \in Nat
  BY <1>0 DEF Subscribed, Waiting, ReaderTypes, WriterTypes, Ordered, Lines, Done
<1>4. CASE channel' = channel
  <2>1. ReaderTypes' /\ Subscribed'
    BY <1>0, <1>4 DEF ReaderTypes, Subscribed
  <2>2. Channelled'
    BY <1>0, <1>4, SameChannels DEF Waiting
  <2> QED
    BY <1>1, <1>2, <2>1, <2>2
<1>5. CASE channel' = [channel EXCEPT ![r] = Append(@, msg)] /\ dropped' = dropped
           /\ Len(channel[r]) < Capacity
  <2> DEFINE c == channel[r]
             d == Append(c, msg)
  <2>1. /\ d \in Seq(Lines \cup {Done}) /\ Len(d) = Len(c) + 1 /\ Len(c) \in Nat
        /\ \A i \in 1 .. Len(c) : d[i] = c[i]
        /\ d[Len(d)] = msg
    BY <1>3
  <2>2. channel' = [channel EXCEPT ![r] = d]
    BY <1>5
  <2>3. \A q \in Readers : channel'[q] = IF q = r THEN d ELSE channel[q]
    BY <2>2 DEF ReaderTypes
  <2>4. ReaderTypes'
    BY <1>0, <1>5, <2>1, <2>2, <2>3, SizesAssumption DEF ReaderTypes
  <2>5. Subscribed'
    BY <1>0, <1>3, <2>3 DEF Subscribed, Streaming
  <2>6. ~Waiting(r)' /\ (msg = Done => run = "over")
    <3>1. copied
      BY <1>0 DEF Ordered
    <3> QED
      BY <1>0, <3>1 DEF Waiting, Ordered, Quiet
  <2>7. \A i \in 1 .. Len(c) : c[i] # Done /\ c[i] <= written /\ (msg # Done => c[i] < msg)
    BY <1>3 DEF Channelled
  <2>8. Channelled'
    <3>1. ASSUME NEW q \in Readers, q # r
          PROVE  /\ channel'[q] = channel[q]
                 /\ Waiting(q)' <=> Waiting(q)
      BY <1>0, <2>3, <3>1 DEF Waiting
    <3>2. \A i \in 1 .. Len(d) :
            /\ d[i] <= written
            /\ d[i] = Done => run = "over" /\ ~Waiting(r)'
      BY <1>3, <2>1, <2>6, <2>7
    <3>3. \A i, j \in 1 .. Len(d) : i < j =>
             /\ d[i] # Done
             /\ d[j] = Done \/ d[i] < d[j]
      <4>1. \A i, j \in 1 .. Len(c) : i < j => c[j] = Done \/ c[i] < c[j]
        BY DEF Channelled
      <4> HIDE DEF c, d
      <4> QED
        BY <2>1, <2>7, <4>1
    <3> HIDE DEF d
    <3> QED
      BY <1>0, <2>3, <2>6, <3>1, <3>2, <3>3 DEF Channelled
  <2> QED
    BY <1>1, <1>2, <2>4, <2>5, <2>8
<1> QED
  BY <1>0, <1>4, <1>5

\* What the readers do leaves the worker where it is.
LEMMA ReaderLeavesWriter ==
    ASSUME Structure, UNCHANGED <<written, file, status, run, msg, copied, atEnd>>, to' \subseteq to
    PROVE  WriterTypes' /\ Filed' /\ Ordered'
  BY DEF Structure, Types, WriterTypes, Filed, Ordered, Quiet

LEMMA SubscribeStructure ==
    ASSUME Structure, NEW r \in Readers, Subscribe(r)
    PROVE  Structure'
<1> USE DEF Structure, Types
<1>0. /\ rpc[r] = "away" /\ rpc' = [rpc EXCEPT ![r] = "subscribed"]
      /\ subscribed' = subscribed \cup {r}
      /\ late' = [late EXCEPT ![r] = written]
      /\ UNCHANGED <<writerVars, channel, screen, skip, dropped, followVars>>
  BY DEF Subscribe, Goto
<1>1. WriterTypes' /\ Filed' /\ Ordered' /\ FollowTypes'
  BY <1>0, ReaderLeavesWriter DEF writerVars, FollowTypes, followVars
<1>2. ReaderTypes'
  BY <1>0 DEF ReaderTypes, WriterTypes, Streaming, writerVars
<1>3. Subscribed' /\ r \notin to /\ channel[r] = <<>>
  BY <1>0 DEF Subscribed, ReaderTypes, Streaming, writerVars
<1>4. Channelled'
  <2>1. \A q \in Readers : q # r => (Waiting(q)' <=> Waiting(q))
    BY <1>0 DEF Waiting, writerVars
  <2> QED
    BY <1>0, <1>3, <2>1 DEF Channelled, writerVars
<1> QED
  BY <1>1, <1>2, <1>3, <1>4

LEMMA ReplayStructure ==
    ASSUME Structure, NEW r \in Readers, Replay(r)
    PROVE  /\ Structure'
           /\ LET before == Len(file) - Smaller(Len(file), ReplayLines)
              IN  /\ before \in 0 .. Len(file) /\ skip'[r] = before
                  /\ Len(screen'[r]) = Len(file) - before
                  /\ \A i \in 1 .. Len(screen'[r]) : screen'[r][i] = file[before + i]
<1> USE DEF Structure, Types
<1> DEFINE before == Len(file) - Smaller(Len(file), ReplayLines)
           replayed == SubSeq(file, before + 1, Len(file))
<1>0. /\ rpc[r] = "subscribed" /\ rpc' = [rpc EXCEPT ![r] = "replayed"]
      /\ screen' = [screen EXCEPT ![r] = replayed]
      /\ skip' = [skip EXCEPT ![r] = before]
      /\ UNCHANGED <<writerVars, subscribed, channel, late, dropped, followVars>>
  BY DEF Replay, Goto
<1>1. WriterTypes' /\ Filed' /\ Ordered' /\ FollowTypes'
  BY <1>0, ReaderLeavesWriter DEF writerVars, FollowTypes, followVars
<1>2. file \in Seq(Lines) /\ Len(file) \in 0 .. MaxLines /\ before \in 0 .. Len(file)
  BY SizesAssumption DEF WriterTypes, Filed, Smaller
<1>3. /\ replayed \in Seq(Lines) /\ Len(replayed) = Len(file) - before
      /\ \A i \in 1 .. Len(replayed) : replayed[i] = file[before + i]
  <2> HIDE DEF before
  <2> QED
    BY <1>2
<1> HIDE DEF replayed, before
<1>4. ReaderTypes'
  <2>1. before \in 0 .. MaxLines
    BY <1>2, SizesAssumption
  <2> QED
    BY <1>0, <1>3, <2>1 DEF ReaderTypes, Streaming, writerVars
<1>5. Subscribed'
  BY <1>0 DEF Subscribed, ReaderTypes, Streaming, writerVars
<1>6. Channelled'
  BY <1>0, SameChannels DEF Waiting, writerVars
<1>7. screen'[r] = replayed /\ skip'[r] = before
  BY <1>0 DEF ReaderTypes
<1>8. Structure'
  BY <1>1, <1>4, <1>5, <1>6
<1> QED
  BY <1>2, <1>3, <1>7, <1>8 DEF before

LEMMA CheckStructure ==
    ASSUME Structure, NEW r \in Readers, Check(r)
    PROVE  Structure'
<1> USE DEF Structure, Types
<1>0. /\ rpc[r] = "replayed"
      /\ \/ /\ rpc' = [rpc EXCEPT ![r] = "told"]
            /\ subscribed' = subscribed \ {r} /\ to' = to \ {r}
         \/ /\ rpc' = [rpc EXCEPT ![r] = "stream"]
            /\ UNCHANGED <<subscribed, to>>
      /\ UNCHANGED <<written, file, status, run, msg, copied, atEnd, channel, screen, skip, late,
                     dropped, followVars>>
  BY DEF Check, Goto, Unsubscribe
<1>1. WriterTypes' /\ Filed' /\ Ordered' /\ FollowTypes'
  BY <1>0, ReaderLeavesWriter DEF FollowTypes, followVars
<1>2. ReaderTypes' /\ Subscribed'
  BY <1>0 DEF ReaderTypes, Subscribed, Streaming
<1>3. Channelled'
  BY <1>0, SameChannels DEF Waiting
<1> QED
  BY <1>1, <1>2, <1>3

LEMMA ReceiveStructure ==
    ASSUME Structure, NEW r \in Readers, Receive(r)
    PROVE  Structure'
<1> USE DEF Structure, Types
<1> DEFINE c == channel[r]
<1>0. /\ rpc[r] = "stream" /\ c # <<>>
      /\ channel' = [channel EXCEPT ![r] = Tail(@)]
      /\ \/ /\ rpc' = [rpc EXCEPT ![r] = "done"]
            /\ subscribed' = subscribed \ {r} /\ to' = to \ {r} /\ screen' = screen
         \/ /\ Head(c) # Done
            /\ screen' = [screen EXCEPT ![r] = Append(@, Head(c))]
            /\ UNCHANGED <<rpc, subscribed, to>>
      /\ UNCHANGED <<written, file, status, run, msg, copied, atEnd, skip, late, dropped, followVars>>
  BY DEF Receive, Goto, Unsubscribe
<1>1. WriterTypes' /\ Filed' /\ Ordered' /\ FollowTypes'
  BY <1>0, ReaderLeavesWriter DEF FollowTypes, followVars
<1>2. /\ Tail(c) \in Seq(Lines \cup {Done}) /\ Head(c) \in Lines \cup {Done} /\ Len(c) \in Nat
      /\ Len(Tail(c)) = Len(c) - 1 /\ Len(c) > 0
      /\ \A i \in 1 .. Len(Tail(c)) : Tail(c)[i] = c[i + 1]
  BY <1>0 DEF ReaderTypes
<1>3. \A q \in Readers : channel'[q] = IF q = r THEN Tail(c) ELSE channel[q]
  BY <1>0 DEF ReaderTypes
<1>4. screen' \in [Readers -> Seq(Lines)]
  <2>1. screen \in [Readers -> Seq(Lines)]
    BY DEF ReaderTypes
  <2>2. CASE screen' = [screen EXCEPT ![r] = Append(@, Head(c))] /\ Head(c) # Done
    <3>1. Append(screen[r], Head(c)) \in Seq(Lines)
      BY <1>2, <2>1, <2>2
    <3> QED
      BY <2>1, <2>2, <3>1
  <2> QED
    BY <1>0, <2>1, <2>2
<1>5. ReaderTypes'
  <2>1. channel' \in [Readers -> Seq(Lines \cup {Done})]
    BY <1>0, <1>2 DEF ReaderTypes
  <2>2. \A q \in Readers : Len(channel'[q]) <= Capacity
    <3>1. \A q \in Readers : Len(channel[q]) <= Capacity
      BY DEF ReaderTypes
    <3>2. Len(Tail(c)) <= Capacity
      BY <1>2, <3>1, SizesAssumption
    <3> QED
      BY <1>3, <3>1, <3>2
  <2>3. rpc' \in [Readers -> Streaming \cup {"away", "done", "told"}]
        /\ to' \subseteq Readers /\ subscribed' \subseteq Readers
    BY <1>0 DEF ReaderTypes
  <2> QED
    BY <1>0, <1>4, <2>1, <2>2, <2>3 DEF ReaderTypes
<1>6. Subscribed'
  <2>1. CASE screen' = screen /\ rpc' = [rpc EXCEPT ![r] = "done"]
              /\ subscribed' = subscribed \ {r} /\ to' = to \ {r}
    BY <1>0, <1>3, <2>1 DEF Subscribed, ReaderTypes, Streaming
  <2>2. CASE screen' = [screen EXCEPT ![r] = Append(@, Head(c))] /\ UNCHANGED <<rpc, subscribed, to>>
    BY <1>0, <1>3, <2>2 DEF Subscribed, ReaderTypes, Streaming
  <2> QED
    BY <1>0, <2>1, <2>2
<1>7. Channelled'
  <2>1. \A q \in Readers : Waiting(q)' => Waiting(q)
    BY <1>0 DEF Waiting
  <2> HIDE DEF c
  <2>2. \A i \in 1 .. Len(c) : /\ c[i] <= written
                               /\ c[i] = Done => run = "over" /\ ~Waiting(r)
                               /\ Waiting(r) /\ msg # Done => c[i] < msg
    BY DEF Channelled, c
  <2>3. \A i, j \in 1 .. Len(c) : i < j => c[i] # Done /\ (c[j] = Done \/ c[i] < c[j])
    BY DEF Channelled, c
  <2>4. /\ \A i \in 1 .. Len(Tail(c)) :
             /\ Tail(c)[i] <= written
             /\ Tail(c)[i] = Done => run = "over" /\ ~Waiting(r)
             /\ Waiting(r) /\ msg # Done => Tail(c)[i] < msg
        /\ \A i, j \in 1 .. Len(Tail(c)) : i < j =>
             Tail(c)[i] # Done /\ (Tail(c)[j] = Done \/ Tail(c)[i] < Tail(c)[j])
    BY <1>2, <2>2, <2>3
  <2> QED
    BY <1>0, <1>3, <2>1, <2>4 DEF Channelled
<1> QED
  BY <1>1, <1>5, <1>6, <1>7

LEMMA LeaveStructure ==
    ASSUME Structure, NEW r \in Readers, Leave(r)
    PROVE  Structure'
<1> USE DEF Structure, Types
<1>0. /\ rpc' = [rpc EXCEPT ![r] = "away"]
      /\ subscribed' = subscribed \ {r} /\ to' = to \ {r}
      /\ channel' = [channel EXCEPT ![r] = <<>>]
      /\ screen' = [screen EXCEPT ![r] = <<>>]
      /\ skip' = [skip EXCEPT ![r] = 0]
      /\ late' = [late EXCEPT ![r] = 0]
      /\ dropped' = dropped \ {r}
      /\ UNCHANGED <<written, file, status, run, msg, copied, atEnd, followVars>>
  BY DEF Leave, Goto, Unsubscribe
<1>1. WriterTypes' /\ Filed' /\ Ordered' /\ FollowTypes'
  BY <1>0, ReaderLeavesWriter DEF FollowTypes, followVars
<1>2. \A q \in Readers : /\ channel'[q] = IF q = r THEN <<>> ELSE channel[q]
                         /\ screen'[q] = IF q = r THEN <<>> ELSE screen[q]
                         /\ Waiting(q)' => Waiting(q)
  BY <1>0 DEF ReaderTypes, Waiting
<1>3. ReaderTypes'
  BY <1>0, <1>2, SizesAssumption DEF ReaderTypes
<1>4. Subscribed'
  BY <1>0, <1>2 DEF Subscribed, ReaderTypes, Streaming
<1>5. Channelled'
  BY <1>0, <1>2 DEF Channelled
<1> QED
  BY <1>1, <1>3, <1>4, <1>5

LEMMA FollowerStructure ==
    ASSUME Structure, NEW f \in Followers, Follower(f)
    PROVE  Structure'
<1> USE DEF Structure, Types
<1>1. UNCHANGED <<writerVars, readerVars>>
  BY DEF Follower, PollStatus, PollSize, PollRead, PollLost
<1>2. WriterTypes' /\ Filed' /\ Ordered' /\ ReaderTypes' /\ Subscribed'
  BY <1>1 DEF writerVars, readerVars, WriterTypes, Filed, Ordered, Quiet, ReaderTypes, Subscribed
<1>3. Channelled'
  BY <1>1, SameChannels DEF writerVars, readerVars, Waiting
<1>4. FollowTypes'
  <2>0. Len(file) \in 0 .. MaxLines
    BY SizesAssumption DEF WriterTypes, Filed
  <2>1. CASE PollStatus(f)
    BY <2>1 DEF PollStatus, FollowTypes
  <2>2. CASE PollSize(f)
    BY <2>0, <2>2 DEF PollSize, FollowTypes
  <2>3. CASE PollRead(f)
    <3>1. Smaller(offset[f] + Slice, Len(file)) \in 0 .. MaxLines
      BY <2>0, SizesAssumption DEF FollowTypes, Smaller
    <3>2. NoAnswer \in [finished : BOOLEAN, size : 0 .. MaxLines]
      BY SizesAssumption DEF NoAnswer
    <3> QED
      BY <2>3, <3>1, <3>2 DEF PollRead, FollowTypes
  <2>4. CASE PollLost(f)
    <3>1. NoAnswer \in [finished : BOOLEAN, size : 0 .. MaxLines]
      BY SizesAssumption DEF NoAnswer
    <3> QED
      BY <2>4, <3>1 DEF PollLost, FollowTypes
  <2> QED
    BY <2>1, <2>2, <2>3, <2>4 DEF Follower
<1> QED
  BY <1>2, <1>3, <1>4

LEMMA StepStructure == Structure /\ [Next]_vars => Structure'
<1> SUFFICES ASSUME Structure, [Next]_vars PROVE Structure'
  OBVIOUS
<1>1. CASE Next
  BY <1>1, WorkerStructure, DeleteStructure, PutStructure, SubscribeStructure, ReplayStructure,
     CheckStructure, ReceiveStructure, LeaveStructure, FollowerStructure
     DEF Next, Build, Browser, Reader
<1>2. CASE UNCHANGED vars
  BY <1>2 DEF vars, writerVars, readerVars, followVars, Structure, Types, WriterTypes, ReaderTypes,
              FollowTypes, Filed, Ordered, Quiet, Subscribed, Channelled, Waiting
<1> QED
  BY <1>1, <1>2

LEMMA Structured == Spec => []Structure
  BY InitStructure, StepStructure, PTL DEF Spec

\* Every variable of the log and its readers has its type.
THEOREM TypeCorrect == Spec => []TypeOK
  BY Structured, TypesAreTypeOK, PTL DEF Structure
-----------------------------------------------------------------------------
(***************************************************************************)
(* Polls.  A client reads the row before it reads the file: a row that is  *)
(* finished when it is read has its result, and all lines before it are in *)
(* the file when that is measured.                                         *)
(***************************************************************************)
Result == Smaller(atEnd.result, FileLines)

Answered ==
    \A f \in Followers :
        /\ fpc[f] \in {"status", "sized"} /\ answer[f].finished => status # "running"
        /\ fpc[f] = "sized" /\ answer[f].finished /\ status # "deleted" =>
             answer[f].size >= Result
        /\ fpc[f] = "complete" => status # "running" /\ offset[f] >= Result

LEMMA WorkerKeepsResult ==
    ASSUME Structure, [Next]_vars, status # "running"
    PROVE  /\ status' # "running" /\ Result' = Result
           /\ status = "deleted" => status' = "deleted"
<1> USE DEF Structure, Types
<1>1. CASE Worker
  <2>1. run \notin {"run", "failed"}
    BY DEF Ordered
  <2>2. UNCHANGED status /\ atEnd'.result = atEnd.result
    BY <1>1, <2>1 DEF Worker, Work, Ready, ImageReady, Fail, CommitFailed, PublishDone, Copy, Emit,
                      WriterTypes
  <2> QED
    BY <2>2 DEF Result
<1>2. CASE Delete
  BY <1>2 DEF Delete, Result
<1>3. CASE \/ \E r \in Readers : Put(r) \/ Subscribe(r) \/ Reader(r) \/ Leave(r)
           \/ \E f \in Followers : Follower(f)
           \/ UNCHANGED vars
  BY <1>3 DEF Put, Subscribe, Reader, Replay, Check, Receive, Leave, Follower, PollStatus, PollSize,
              PollRead, PollLost, writerVars, vars, Result
<1> QED
  BY <1>1, <1>2, <1>3 DEF Next, Build, Browser

LEMMA StepAnswered ==
    ASSUME Structure, Answered, [Next]_vars
    PROVE  Answered'
<1> USE DEF Structure, Types
<1>1. CASE UNCHANGED followVars
  BY <1>1, WorkerKeepsResult DEF Answered, followVars
<1>2. ASSUME NEW f \in Followers, Follower(f)
      PROVE  Answered'
  <2>0. /\ UNCHANGED <<status, atEnd, file>> /\ Result' = Result
        /\ \A g \in Followers : g # f =>
             fpc'[g] = fpc[g] /\ answer'[g] = answer[g] /\ offset'[g] = offset[g]
    BY <1>2 DEF Follower, PollStatus, PollSize, PollRead, PollLost, writerVars, Result, FollowTypes
  <2>1. CASE PollStatus(f)
    <3>1. fpc'[f] = "status" /\ (answer'[f].finished => status = "finished")
      BY <2>1 DEF PollStatus, FollowTypes
    <3> QED
      BY <2>0, <3>1 DEF Answered
  <2>2. CASE PollSize(f)
    <3>1. /\ fpc[f] = "status" /\ fpc'[f] = "sized" /\ status # "deleted"
          /\ answer'[f].finished = answer[f].finished /\ answer'[f].size = Len(file)
      BY <2>2 DEF PollSize, FollowTypes
    <3>2. Len(file) >= Result
      BY <3>1, SizesAssumption DEF Filed, Ordered, WriterTypes, Result, Smaller
    <3> QED
      BY <2>0, <3>1, <3>2 DEF Answered
  <2>3. CASE PollRead(f)
    <3> DEFINE next == Smaller(offset[f] + Slice, Len(file))
    <3>1. /\ fpc[f] = "sized" /\ status # "deleted" /\ offset'[f] = next
          /\ fpc'[f] = "complete" => answer[f].finished /\ next >= answer[f].size
          /\ fpc'[f] \in {"complete", "idle"}
      BY <2>3 DEF PollRead, FollowTypes
    <3>2. next \in Nat /\ Result \in Nat /\ answer[f].size \in Nat
      BY SizesAssumption DEF FollowTypes, WriterTypes, Result, Smaller
    <3> HIDE DEF next
    <3>3. fpc'[f] = "complete" => status # "running" /\ offset'[f] >= Result
      BY <3>1, <3>2 DEF Answered
    <3> QED
      BY <2>0, <3>1, <3>3 DEF Answered
  <2>4. CASE PollLost(f)
    <3>1. fpc'[f] = "idle"
      BY <2>4 DEF PollLost, FollowTypes
    <3> QED
      BY <2>0, <3>1 DEF Answered
  <2> QED
    BY <1>2, <2>1, <2>2, <2>3, <2>4 DEF Follower
<1>3. UNCHANGED followVars \/ \E f \in Followers : Follower(f)
  BY DEF Next, Build, Browser, Worker, Delete, Put, Subscribe, Reader, Replay, Check, Receive, Leave,
         vars, writerVars
<1> QED
  BY <1>1, <1>2, <1>3

\* A client that is told its log is complete has every line written before the
\* result was committed.
THEOREM CompleteIsComplete == Spec => []CompleteHasTheResult
<1>1. Init => Answered
  BY DEF Init, InitAt, Answered, NoAnswer
<1>2. Structure /\ Answered /\ [Next]_vars => Answered'
  BY StepAnswered
<1>3. Answered => CompleteHasTheResult
  BY DEF Answered, CompleteHasTheResult, Result
<1> QED
  BY <1>1, <1>2, <1>3, Structured, PTL DEF Spec
-----------------------------------------------------------------------------
(***************************************************************************)
(* Nothing is missing.  Whatever is emitted after a connection subscribed  *)
(* reaches its channel; what was emitted before is in the file, as far as  *)
(* the file goes.                                                          *)
(***************************************************************************)
Got(r, l) == l \in Range(screen[r]) \cup Range(channel[r])

\* For one connection: what came after it subscribed reaches its channel; once
\* the log is replayed, the lines before that are not missing either.
FlowOf(r) ==
    \A l \in 1 .. written :
        /\ rpc[r] \in Streaming /\ r \notin dropped /\ l > late[r]
             => Got(r, l) \/ (msg = l /\ Waiting(r))
        /\ rpc[r] \in {"replayed", "stream"} /\ r \notin dropped /\ status # "deleted"
             => Missable(r, l) \/ Got(r, l) \/ (msg = l /\ Waiting(r))

Flow == \A r \in Readers : FlowOf(r)

LEMMA AppendRange ==
    ASSUME NEW S, NEW s \in Seq(S), NEW e \in S
    PROVE  Range(Append(s, e)) = Range(s) \cup {e}
<1> DEFINE t == Append(s, e)
<1>1. /\ DOMAIN s = 1 .. Len(s) /\ DOMAIN t = 1 .. Len(s) + 1 /\ Len(s) \in Nat
      /\ \A i \in 1 .. Len(s) : t[i] = s[i]
      /\ t[Len(s) + 1] = e
  OBVIOUS
<1> HIDE DEF t
<1>2. Range(t) \subseteq Range(s) \cup {e}
  BY <1>1 DEF Range
<1>3. Range(s) \cup {e} \subseteq Range(t)
  <2>1. \A i \in 1 .. Len(s) : i \in DOMAIN t /\ t[i] = s[i]
    BY <1>1
  <2>2. Len(s) + 1 \in DOMAIN t
    BY <1>1
  <2> QED
    BY <1>1, <2>1, <2>2 DEF Range
<1> QED
  BY <1>2, <1>3 DEF t

LEMMA TailRange ==
    ASSUME NEW S, NEW s \in Seq(S), s # <<>>
    PROVE  Range(s) = {Head(s)} \cup Range(Tail(s))
<1>1. /\ Len(s) \in Nat \ {0} /\ DOMAIN s = 1 .. Len(s) /\ DOMAIN Tail(s) = 1 .. Len(s) - 1
      /\ Head(s) = s[1]
      /\ \A i \in 1 .. Len(s) - 1 : Tail(s)[i] = s[i + 1]
  OBVIOUS
<1> DEFINE t == Tail(s)
<1> HIDE DEF t
<1>2. DOMAIN t = 1 .. Len(s) - 1 /\ \A i \in 1 .. Len(s) - 1 : t[i] = s[i + 1]
  BY <1>1 DEF t
<1>3. ASSUME NEW i \in DOMAIN s
      PROVE  s[i] = s[1] \/ \E j \in DOMAIN t : s[i] = t[j]
  <2>1. CASE i = 1
    BY <2>1
  <2>2. CASE i # 1
    <3>1. i - 1 \in DOMAIN t /\ t[i - 1] = s[i]
      BY <1>1, <1>2, <2>2
    <3> QED
      BY <3>1
  <2> QED
    BY <2>1, <2>2
<1>4. ASSUME NEW j \in DOMAIN t
      PROVE  \E i \in DOMAIN s : t[j] = s[i]
  <2>1. j + 1 \in DOMAIN s /\ t[j] = s[j + 1]
    BY <1>1, <1>2
  <2> QED
    BY <2>1
<1>5. 1 \in DOMAIN s
  BY <1>1
<1>6. Range(s) = {s[1]} \cup Range(t)
  BY <1>3, <1>4, <1>5 DEF Range
<1> QED
  BY <1>1, <1>6 DEF t

\* A connection that did nothing, while the worker did nothing that matters.
LEMMA SameFlow ==
    ASSUME NEW r \in Readers, FlowOf(r),
           UNCHANGED <<written, msg, rpc[r], late[r], skip[r], screen[r], channel[r]>>,
           r \in dropped => r \in dropped',
           status = "deleted" => status' = "deleted",
           Waiting(r) => Waiting(r)'
    PROVE  FlowOf(r)'
  BY DEF FlowOf, Got, Missable

LEMMA WorkerFlow ==
    ASSUME Structure, Flow, Worker
    PROVE  Flow'
<1> USE DEF Structure, Types
<1>0. UNCHANGED <<rpc, subscribed, channel, screen, skip, late, dropped>>
  BY DEF Worker, readerVars
<1>1. ASSUME NEW next, Emit(next)
      PROVE  Flow'
  <2>1. /\ copied /\ to = {} /\ written' = written + 1 /\ msg' = written + 1 /\ ~copied'
        /\ UNCHANGED <<status, to>>
    BY <1>1 DEF Emit, Quiet
  <2>2. ASSUME NEW r \in Readers, NEW l \in 1 .. written'
        PROVE  /\ rpc'[r] \in Streaming /\ r \notin dropped' /\ l > late'[r]
                    => Got(r, l)' \/ (msg' = l /\ Waiting(r)')
               /\ rpc'[r] \in {"replayed", "stream"} /\ r \notin dropped' /\ status' # "deleted"
                    => Missable(r, l)' \/ Got(r, l)' \/ (msg' = l /\ Waiting(r)')
    <3>1. CASE l = written + 1
      <4>1. rpc[r] \in Streaming => r \in subscribed
        BY DEF Subscribed
      <4> QED
        BY <1>0, <2>1, <3>1, <4>1 DEF Waiting, Streaming
    <3>2. CASE l # written + 1
      <4>1. l \in 1 .. written
        BY <2>1, <3>2 DEF WriterTypes
      <4>2. FlowOf(r) /\ ~Waiting(r)
        BY <2>1 DEF Flow, Waiting
      <4>3. Got(r, l)' <=> Got(r, l)
        BY <1>0 DEF Got
      <4>4. Missable(r, l)' <=> Missable(r, l)
        BY <1>0 DEF Missable
      <4>5. /\ rpc[r] \in Streaming /\ r \notin dropped /\ l > late[r] => Got(r, l)
            /\ rpc[r] \in {"replayed", "stream"} /\ r \notin dropped /\ status # "deleted"
                 => Missable(r, l) \/ Got(r, l)
        BY <4>1, <4>2 DEF FlowOf
      <4>6. UNCHANGED <<rpc, dropped, late, status>>
        BY <1>0, <2>1
      <4> HIDE DEF Structure, Types
      <4> QED
        BY <4>3, <4>4, <4>5, <4>6
    <3> QED
      BY <3>1, <3>2
  <2>3. Flow'
    BY <2>2 DEF Flow, FlowOf
  <2> QED
    BY <2>3
<1>2. ASSUME NEW next, Commit(next), run \in {"run", "failed"}
      PROVE  Flow'
  <2>1. UNCHANGED <<written, msg, copied, to>> /\ status # "deleted"
    BY <1>2 DEF Commit, Ordered
  <2> QED
    BY <1>0, <2>1, SameFlow DEF Flow, Waiting
<1>3. CASE PublishDone
  <2>1. copied /\ to = {} /\ UNCHANGED <<written, status>>
    BY <1>3 DEF PublishDone, Quiet
  <2>2. \A r \in Readers : ~Waiting(r)
    BY <2>1 DEF Waiting
  <2>3. ASSUME NEW r \in Readers
        PROVE  FlowOf(r)'
    <3>1. \A l : Got(r, l)' <=> Got(r, l)
      BY <1>0 DEF Got
    <3>2. \A l : Missable(r, l)' <=> Missable(r, l)
      BY <1>0 DEF Missable
    <3>3. FlowOf(r)
      BY DEF Flow
    <3> QED
      BY <1>0, <2>1, <2>2, <3>1, <3>2, <3>3 DEF FlowOf
  <2> QED
    BY <2>3 DEF Flow
<1>4. CASE Copy
  <2>1. UNCHANGED <<written, status, msg>> /\ \A r \in Readers : Waiting(r) => Waiting(r)'
    BY <1>0, <1>4 DEF Copy, Waiting
  <2> QED
    BY <1>0, <2>1, SameFlow DEF Flow
<1> QED
  BY <1>1, <1>2, <1>3, <1>4 DEF Worker, Work, Ready, ImageReady, Fail, CommitFailed

LEMMA PutFlow ==
    ASSUME Structure, Flow, NEW r \in Readers, Put(r)
    PROVE  Flow'
<1> USE DEF Structure, Types
<1>0. /\ r \in to /\ to' = to \ {r}
      /\ \/ channel' = [channel EXCEPT ![r] = Append(@, msg)] /\ dropped' = dropped
         \/ channel' = channel /\ dropped' = dropped \cup {r}
      /\ UNCHANGED <<written, status, run, msg, copied, rpc, subscribed, screen, skip, late>>
  BY DEF Put
<1>1. ASSUME NEW q \in Readers, q # r
      PROVE  FlowOf(q)'
  <2>1. channel'[q] = channel[q] /\ (Waiting(q) => Waiting(q)')
    BY <1>0, <1>1 DEF Waiting, ReaderTypes
  <2> QED
    BY <1>0, <1>1, <2>1, SameFlow DEF Flow
<1>2. FlowOf(r)'
  <2>1. CASE dropped' = dropped \cup {r}
    BY <2>1 DEF FlowOf
  <2>2. CASE channel' = [channel EXCEPT ![r] = Append(@, msg)] /\ dropped' = dropped
    <3>1. channel[r] \in Seq(Lines \cup {Done}) /\ msg \in Lines \cup {Done}
      BY DEF ReaderTypes, WriterTypes
    <3>2. channel'[r] = Append(channel[r], msg)
      BY <2>2 DEF ReaderTypes
    <3>3. Range(channel'[r]) = Range(channel[r]) \cup {msg}
      BY <3>1, <3>2, AppendRange
    <3>4. \A l : Got(r, l)' <=> Got(r, l) \/ l = msg
      BY <1>0, <3>3 DEF Got
    <3>5. \A l : Missable(r, l)' <=> Missable(r, l)
      BY <1>0 DEF Missable
    <3>6. FlowOf(r)
      BY DEF Flow
    <3> QED
      BY <1>0, <2>2, <3>4, <3>5, <3>6 DEF FlowOf
  <2> QED
    BY <1>0, <2>1, <2>2
<1> QED
  BY <1>1, <1>2 DEF Flow

LEMMA SubscribeFlow ==
    ASSUME Structure, Flow, NEW r \in Readers, Subscribe(r)
    PROVE  Flow'
<1> USE DEF Structure, Types
<1>0. /\ rpc' = [rpc EXCEPT ![r] = "subscribed"] /\ subscribed' = subscribed \cup {r}
      /\ late' = [late EXCEPT ![r] = written]
      /\ UNCHANGED <<written, status, msg, copied, to, channel, screen, skip, dropped>>
  BY DEF Subscribe, Goto, writerVars
<1>1. ASSUME NEW q \in Readers, q # r
      PROVE  FlowOf(q)'
  <2>1. rpc'[q] = rpc[q] /\ late'[q] = late[q] /\ (Waiting(q) => Waiting(q)')
    BY <1>0, <1>1 DEF Waiting, ReaderTypes
  <2> QED
    BY <1>0, <1>1, <2>1, SameFlow DEF Flow
<1>2. FlowOf(r)'
  <2>1. rpc'[r] = "subscribed" /\ late'[r] = written /\ written' = written /\ written \in Nat
    BY <1>0 DEF ReaderTypes, WriterTypes
  <2> QED
    BY <2>1 DEF FlowOf
<1> QED
  BY <1>1, <1>2 DEF Flow

\* What a connection replays is the file from some line on; the file is the log
\* as far as it goes, and what is after it came after the connection.
LEMMA ReplayFlow ==
    ASSUME Structure, Flow, NEW r \in Readers, Replay(r)
    PROVE  Flow'
<1> USE DEF Structure, Types
<1>0. /\ rpc[r] = "subscribed" /\ rpc' = [rpc EXCEPT ![r] = "replayed"]
      /\ \A q \in Readers : q # r => screen'[q] = screen[q] /\ skip'[q] = skip[q]
      /\ UNCHANGED <<written, status, msg, copied, to, file, subscribed, channel, late, dropped>>
  BY DEF Replay, Goto, writerVars, ReaderTypes
<1>1. ASSUME NEW q \in Readers, q # r
      PROVE  FlowOf(q)'
  <2>1. rpc'[q] = rpc[q] /\ (Waiting(q) => Waiting(q)')
    BY <1>0, <1>1 DEF Waiting, ReaderTypes
  <2> QED
    BY <1>0, <1>1, <2>1, SameFlow DEF Flow
<1>2. PICK before \in 0 .. Len(file) :
         /\ skip'[r] = before /\ Len(screen'[r]) = Len(file) - before
         /\ \A i \in 1 .. Len(screen'[r]) : screen'[r][i] = file[before + i]
  BY ReplayStructure
<1>3. screen'[r] \in Seq(Lines) /\ Len(file) \in Nat
  <2>1. Structure'
    BY ReplayStructure
  <2> QED
    BY <2>1 DEF ReaderTypes, WriterTypes
<1>4. ASSUME NEW l \in 1 .. written, status # "deleted"
      PROVE  Missable(r, l)' \/ Got(r, l)' \/ (l > late[r] /\ l > Len(file))
  <2>1. CASE l <= before
    BY <1>2, <2>1 DEF Missable
  <2>2. CASE l > before /\ l <= Len(file)
    <3>1. l - before \in 1 .. Len(screen'[r]) /\ before + (l - before) = l /\ l \in 1 .. Len(file)
      BY <1>2, <1>3, <2>2
    <3>2. screen'[r][l - before] = file[l]
      BY <1>2, <3>1
    <3>3. file[l] = l
      BY <1>4, <3>1 DEF Filed
    <3>4. l \in Range(screen'[r])
      <4>1. DOMAIN screen'[r] = 1 .. Len(screen'[r])
        BY <1>3
      <4> QED
        BY <3>1, <3>2, <3>3, <4>1 DEF Range
    <3> QED
      BY <3>4 DEF Got
  <2>3. CASE l > Len(file)
    <3>1. Len(file) = Smaller(written, FileLines) /\ written \in Nat /\ FileLines \in Nat
      BY <1>4, SizesAssumption DEF Filed, WriterTypes
    <3>2. l > FileLines
      BY <2>3, <3>1 DEF Smaller
    <3>3. l <= late[r] => Missable(r, l)'
      BY <1>0, <3>2 DEF Missable
    <3>4. late[r] \in Nat
      BY DEF ReaderTypes
    <3> QED
      BY <2>3, <3>3, <3>4
  <2> QED
    BY <1>2, <1>3, <2>1, <2>2, <2>3
<1>5. FlowOf(r)'
  <2>1. ASSUME NEW l \in 1 .. written', r \notin dropped', l > late'[r]
        PROVE  Got(r, l)' \/ (msg' = l /\ Waiting(r)')
    <3>1. Got(r, l) \/ (msg = l /\ Waiting(r))
      BY <1>0, <2>1 DEF Flow, FlowOf, Streaming
    <3>2. screen[r] = <<>>
      BY <1>0 DEF Subscribed
    <3>3. Got(r, l) => Got(r, l)'
      BY <1>0, <3>2 DEF Got, Range
    <3>4. Waiting(r)' <=> Waiting(r)
      BY <1>0 DEF Waiting
    <3> QED
      BY <1>0, <3>1, <3>3, <3>4
  <2> QED
    BY <1>0, <1>4, <2>1 DEF FlowOf
<1> QED
  BY <1>1, <1>5 DEF Flow

LEMMA CheckFlow ==
    ASSUME Structure, Flow, NEW r \in Readers, Check(r)
    PROVE  Flow'
<1> USE DEF Structure, Types
<1>0. /\ rpc[r] = "replayed"
      /\ \/ /\ rpc' = [rpc EXCEPT ![r] = "told"]
            /\ subscribed' = subscribed \ {r} /\ to' = to \ {r}
         \/ /\ rpc' = [rpc EXCEPT ![r] = "stream"]
            /\ UNCHANGED <<subscribed, to>>
      /\ UNCHANGED <<written, status, msg, copied, channel, screen, skip, late, dropped>>
  BY DEF Check, Goto, Unsubscribe
<1>1. ASSUME NEW q \in Readers, q # r
      PROVE  FlowOf(q)'
  <2>1. rpc'[q] = rpc[q] /\ (Waiting(q) => Waiting(q)')
    BY <1>0, <1>1 DEF Waiting, ReaderTypes
  <2> QED
    BY <1>0, <1>1, <2>1, SameFlow DEF Flow
<1>2. CASE rpc' = [rpc EXCEPT ![r] = "told"]
  <2>1. rpc'[r] = "told"
    BY <1>2 DEF ReaderTypes
  <2>2. FlowOf(r)'
    BY <2>1 DEF FlowOf, Streaming
  <2> QED
    BY <1>1, <2>2 DEF Flow
<1>3. CASE rpc' = [rpc EXCEPT ![r] = "stream"] /\ UNCHANGED <<subscribed, to>>
  <2>1. rpc'[r] = "stream" /\ (Waiting(r)' <=> Waiting(r))
    BY <1>0, <1>3 DEF ReaderTypes, Waiting
  <2>2. \A l : (Got(r, l)' <=> Got(r, l)) /\ (Missable(r, l)' <=> Missable(r, l))
    BY <1>0 DEF Got, Missable
  <2>3. FlowOf(r)'
    BY <1>0, <2>1, <2>2 DEF Flow, FlowOf, Streaming
  <2> QED
    BY <1>1, <2>3 DEF Flow
<1> QED
  BY <1>0, <1>2, <1>3

LEMMA ReceiveFlow ==
    ASSUME Structure, Flow, NEW r \in Readers, Receive(r)
    PROVE  Flow'
<1> USE DEF Structure, Types
<1> DEFINE c == channel[r]
<1>0. /\ rpc[r] = "stream" /\ c # <<>>
      /\ channel' = [channel EXCEPT ![r] = Tail(@)]
      /\ \/ /\ rpc' = [rpc EXCEPT ![r] = "done"]
            /\ subscribed' = subscribed \ {r} /\ to' = to \ {r} /\ screen' = screen
         \/ /\ Head(c) # Done
            /\ screen' = [screen EXCEPT ![r] = Append(@, Head(c))]
            /\ UNCHANGED <<rpc, subscribed, to>>
      /\ UNCHANGED <<written, status, msg, copied, skip, late, dropped>>
  BY DEF Receive, Goto, Unsubscribe
<1>1. ASSUME NEW q \in Readers, q # r
      PROVE  FlowOf(q)'
  <2>1. rpc'[q] = rpc[q] /\ channel'[q] = channel[q] /\ screen'[q] = screen[q]
    BY <1>0, <1>1 DEF ReaderTypes
  <2>2. Waiting(q) => Waiting(q)'
    BY <1>0, <1>1 DEF Waiting
  <2> QED
    BY <1>0, <1>1, <2>1, <2>2, SameFlow DEF Flow
<1>2. CASE rpc' = [rpc EXCEPT ![r] = "done"]
  <2>1. rpc'[r] = "done"
    BY <1>2 DEF ReaderTypes
  <2>2. FlowOf(r)'
    BY <2>1 DEF FlowOf, Streaming
  <2> QED
    BY <1>1, <2>2 DEF Flow
<1>3. CASE /\ Head(c) # Done
           /\ screen' = [screen EXCEPT ![r] = Append(@, Head(c))]
           /\ UNCHANGED <<rpc, subscribed, to>>
  <2>1. c \in Seq(Lines \cup {Done}) /\ screen[r] \in Seq(Lines)
    BY DEF ReaderTypes
  <2>2. Head(c) \in Lines
    BY <1>0, <1>3, <2>1
  <2>3. channel'[r] = Tail(c) /\ screen'[r] = Append(screen[r], Head(c))
    BY <1>0, <1>3 DEF ReaderTypes
  <2>4. Range(c) = {Head(c)} \cup Range(Tail(c))
    BY <1>0, <2>1, TailRange
  <2>5. Range(Append(screen[r], Head(c))) = Range(screen[r]) \cup {Head(c)}
    BY <2>1, <2>2, AppendRange
  <2>6. \A l : Got(r, l)' <=> Got(r, l)
    BY <2>3, <2>4, <2>5 DEF Got
  <2>7. \A l : Missable(r, l)' <=> Missable(r, l)
    BY <1>0 DEF Missable
  <2>8. Waiting(r)' <=> Waiting(r)
    BY <1>0, <1>3 DEF Waiting
  <2>9. FlowOf(r)'
    BY <1>0, <1>3, <2>6, <2>7, <2>8 DEF Flow, FlowOf
  <2> QED
    BY <1>1, <2>9 DEF Flow
<1> QED
  BY <1>0, <1>2, <1>3

LEMMA LeaveFlow ==
    ASSUME Structure, Flow, NEW r \in Readers, Leave(r)
    PROVE  Flow'
<1> USE DEF Structure, Types
<1>0. /\ rpc' = [rpc EXCEPT ![r] = "away"]
      /\ subscribed' = subscribed \ {r} /\ to' = to \ {r}
      /\ \A q \in Readers : q # r => /\ channel'[q] = channel[q] /\ screen'[q] = screen[q]
                                     /\ skip'[q] = skip[q] /\ late'[q] = late[q]
      /\ dropped' = dropped \ {r}
      /\ UNCHANGED <<written, status, msg, copied>>
  BY DEF Leave, Goto, Unsubscribe, ReaderTypes
<1>1. ASSUME NEW q \in Readers, q # r
      PROVE  FlowOf(q)'
  <2>1. rpc'[q] = rpc[q] /\ (Waiting(q) => Waiting(q)')
    BY <1>0, <1>1 DEF Waiting, ReaderTypes
  <2> QED
    BY <1>0, <1>1, <2>1, SameFlow DEF Flow
<1>2. rpc'[r] = "away"
  BY <1>0 DEF ReaderTypes
<1>3. FlowOf(r)'
  BY <1>2 DEF FlowOf, Streaming
<1> QED
  BY <1>1, <1>3 DEF Flow

LEMMA StepFlow == Structure /\ Flow /\ [Next]_vars => Flow'
<1> SUFFICES ASSUME Structure, Flow, [Next]_vars PROVE Flow'
  OBVIOUS
<1>1. CASE Next
  <2>1. CASE Delete \/ \E f \in Followers : Follower(f)
    <3>1. UNCHANGED <<written, msg, copied, to, readerVars>> /\ (status = "deleted" => status' = "deleted")
      BY <2>1 DEF Delete, Follower, PollStatus, PollSize, PollRead, PollLost, writerVars
    <3> QED
      BY <3>1, SameFlow DEF Flow, readerVars, Waiting
  <2> QED
    BY <1>1, <2>1, WorkerFlow, PutFlow, SubscribeFlow, ReplayFlow, CheckFlow, ReceiveFlow, LeaveFlow
       DEF Next, Build, Browser, Reader
<1>2. CASE UNCHANGED vars
  BY <1>2, SameFlow DEF vars, writerVars, readerVars, Flow, Waiting
<1> QED
  BY <1>1, <1>2

LEMMA Flowing == Spec => []Flow
<1>1. Init => Flow
  BY DEF Init, InitAt, Flow, FlowOf
<1> QED
  BY <1>1, StepFlow, Structured, PTL DEF Spec

\* Between the file and the channel no line falls through.
THEOREM NothingIsMissing == Spec => []NothingMissing
<1>1. Structure /\ Flow => NothingMissing
  BY DEF Structure, Subscribed, Flow, FlowOf, NothingMissing, Got, Waiting, Streaming
<1> QED
  BY <1>1, Structured, Flowing, PTL
-----------------------------------------------------------------------------
(***************************************************************************)
(* The end comes last.  Whoever takes done from its channel takes the last *)
(* message of the build, and its channel has nothing else.                 *)
(***************************************************************************)
Ended ==
    \A r \in Readers :
        rpc[r] = "done" =>
          /\ run = "over"
          /\ \A l \in 1 .. atEnd.done :
               r \notin dropped /\ status # "deleted" => Missable(r, l) \/ l \in Range(screen[r])

LEMMA OverIsOver ==
    ASSUME Structure, [Next]_vars
    PROVE  /\ run = "over" => run' = "over" /\ atEnd' = atEnd
           /\ status = "deleted" => status' = "deleted"
<1> USE DEF Structure, Types
<1>1. CASE Worker
  BY <1>1 DEF Worker, Work, Ready, ImageReady, Fail, CommitFailed, PublishDone, Copy, Emit, Commit,
              Ordered
<1>2. CASE Delete
  BY <1>2 DEF Delete
<1>3. CASE \/ \E r \in Readers : Put(r) \/ Subscribe(r) \/ Reader(r) \/ Leave(r)
           \/ \E f \in Followers : Follower(f)
           \/ UNCHANGED vars
  BY <1>3 DEF Put, Subscribe, Reader, Replay, Check, Receive, Leave, Follower, PollStatus, PollSize,
              PollRead, PollLost, writerVars, vars
<1> QED
  BY <1>1, <1>2, <1>3 DEF Next, Build, Browser

\* The step in which a connection gets done.
LEMMA ReceiveEnds ==
    ASSUME Structure, Flow, NEW r \in Readers, Receive(r), rpc'[r] = "done"
    PROVE  /\ run = "over"
           /\ \A l \in 1 .. atEnd.done :
                r \notin dropped /\ status # "deleted" => Missable(r, l) \/ l \in Range(screen[r])
<1> USE DEF Structure, Types
<1> DEFINE c == channel[r]
<1>1. rpc[r] = "stream" /\ c # <<>> /\ Head(c) = Done
  BY DEF Receive, Goto, ReaderTypes
<1>2. c \in Seq(Lines \cup {Done}) /\ Len(c) \in Nat /\ Len(c) > 0 /\ c[1] = Done
  BY <1>1 DEF ReaderTypes
<1>3. Len(c) = 1
  <2>1. \A i, j \in 1 .. Len(c) : i < j => c[i] # Done
    BY DEF Channelled
  <2> HIDE DEF Structure, Types
  <2>2. CASE Len(c) > 1
    <3>1. 1 \in 1 .. Len(c) /\ Len(c) \in 1 .. Len(c) /\ 1 < Len(c)
      BY <1>2, <2>2
    <3> QED
      BY <1>2, <2>1, <3>1
  <2>3. Len(c) \in Nat /\ Len(c) > 0
    BY <1>2
  <2>4. \A n \in Nat : n > 0 /\ ~(n > 1) => n = 1
    OBVIOUS
  <2> QED
    BY <2>2, <2>3, <2>4, Zenon
<1>4. run = "over" /\ ~Waiting(r)
  BY <1>2 DEF Channelled
<1>5. Range(c) = {Done}
  <2>1. DOMAIN c = {1}
    BY <1>2, <1>3
  <2> QED
    BY <1>2, <2>1 DEF Range
<1>6. atEnd.done = written
  BY <1>4 DEF Ordered
<1>7. \A l \in 1 .. written : l # Done
  BY DEF Done
<1> QED
  BY <1>1, <1>4, <1>5, <1>6, <1>7 DEF Flow, FlowOf, Got

LEMMA StepEnded == Structure /\ Flow /\ Ended /\ [Next]_vars => Ended'
<1> SUFFICES ASSUME Structure, Flow, Ended, [Next]_vars, NEW r \in Readers, rpc'[r] = "done"
             PROVE  /\ run' = "over"
                    /\ \A l \in 1 .. atEnd'.done :
                         r \notin dropped' /\ status' # "deleted" =>
                           Missable(r, l)' \/ l \in Range(screen'[r])
  BY DEF Ended
<1> USE DEF Structure, Types
<1>1. CASE rpc[r] = "done"
  <2>1. run = "over" /\ \A l \in 1 .. atEnd.done :
          r \notin dropped /\ status # "deleted" => Missable(r, l) \/ l \in Range(screen[r])
    BY <1>1 DEF Ended
  <2>2. run' = "over" /\ atEnd' = atEnd /\ (status = "deleted" => status' = "deleted")
    BY <2>1, OverIsOver
  <2>3. screen'[r] = screen[r] /\ skip'[r] = skip[r] /\ late'[r] = late[r]
        /\ (r \in dropped => r \in dropped')
    BY <1>1 DEF Next, Build, Browser, Worker, Delete, Put, Subscribe, Reader, Replay, Check, Receive,
                Leave, Goto, Follower, PollStatus, PollSize, PollRead, PollLost, ReaderTypes,
                vars, writerVars, readerVars
  <2>4. \A l : Missable(r, l)' <=> Missable(r, l)
    BY <2>3 DEF Missable
  <2> QED
    BY <2>1, <2>2, <2>3, <2>4
<1>2. CASE rpc[r] # "done"
  <2>1. Receive(r)
    BY <1>2 DEF Next, Build, Browser, Worker, Delete, Put, Subscribe, Reader, Replay, Check, Receive,
                Leave, Goto, Follower, PollStatus, PollSize, PollRead, PollLost, ReaderTypes,
                vars, writerVars, readerVars
  <2>2. UNCHANGED <<run, atEnd, status, dropped, skip, late>> /\ screen'[r] = screen[r]
    BY <1>2, <2>1 DEF Receive, Goto, ReaderTypes
  <2>3. \A l : Missable(r, l)' <=> Missable(r, l)
    BY <2>2 DEF Missable
  <2> QED
    BY <2>1, <2>2, <2>3, ReceiveEnds
<1> QED
  BY <1>1, <1>2

\* Whoever received done has every line of the build.
THEOREM DoneIsLast == Spec => []DoneComesLast
<1>1. Init => Ended
  BY DEF Init, InitAt, Ended
<1>2. Ended => DoneComesLast
  BY DEF Ended, DoneComesLast
<1> QED
  BY <1>1, <1>2, StepEnded, Structured, Flowing, PTL DEF Spec
-----------------------------------------------------------------------------
(***************************************************************************)
(* Twice at worst.  The replay is in order and so is the stream after it:  *)
(* only where they meet does a screen step back.                           *)
(***************************************************************************)
Rising(s, k) == \A i \in 1 .. Len(s) - 1 : i # k => s[i] < s[i + 1]

\* The last line of a screen that has stepped back comes before all that is
\* still to come.
Ahead(r) ==
    /\ \A i \in 1 .. Len(channel[r]) :
         channel[r][i] # Done => screen[r][Len(screen[r])] < channel[r][i]
    /\ Waiting(r) /\ msg # Done => screen[r][Len(screen[r])] < msg

ShownOf(r) ==
    /\ \A i \in 1 .. Len(screen[r]) : screen[r][i] <= written
    /\ \/ Rising(screen[r], 0)
       \/ /\ \E k \in Nat : Rising(screen[r], k)
          /\ Len(screen[r]) > 0
          /\ Ahead(r)

Shown == \A r \in Readers : ShownOf(r)

LEMMA LinesAreNumbers ==
    ASSUME NEW s \in Seq(Lines)
    PROVE  Len(s) \in Nat /\ \A i \in 1 .. Len(s) : s[i] \in Nat
<1>1. Len(s) \in Nat /\ \A i \in 1 .. Len(s) : s[i] \in Lines
  OBVIOUS
<1>2. \A l \in Lines : l \in Nat
  BY SizesAssumption DEF Lines
<1> QED
  BY <1>1, <1>2

LEMMA SameShown ==
    ASSUME NEW r \in Readers, Structure, ShownOf(r), UNCHANGED <<screen[r], channel[r]>>,
           written \in Nat, written' \in Nat, written <= written',
           Waiting(r)' => (Waiting(r) /\ msg' = msg) \/ msg' > written \/ msg' = Done,
           msg' \in Nat
    PROVE  ShownOf(r)'
<1> DEFINE s == screen[r]
<1>1. s \in Seq(Lines) /\ Len(s) \in Nat /\ \A i \in 1 .. Len(s) : s[i] \in Nat
  <2>1. s \in Seq(Lines)
    BY DEF Structure, Types, ReaderTypes
  <2> QED
    BY <2>1, LinesAreNumbers
<1>2. screen'[r] = s /\ channel'[r] = channel[r]
  OBVIOUS
<1>3. \A i \in 1 .. Len(s) : s[i] <= written'
  <2> HIDE DEF s
  <2> QED
    BY <1>1 DEF ShownOf, s
<1>4. CASE Rising(s, 0)
  BY <1>2, <1>3, <1>4 DEF ShownOf, Rising
<1>5. CASE /\ \E k \in Nat : Rising(s, k)
           /\ Len(s) > 0
           /\ Ahead(r)
  <2>1. s[Len(s)] <= written /\ s[Len(s)] \in Nat
    BY <1>1, <1>5 DEF ShownOf
  <2>2. Ahead(r)'
    BY <1>2, <1>5, <2>1 DEF Ahead
  <2> QED
    BY <1>2, <1>3, <1>5, <2>2 DEF ShownOf, Rising
<1> QED
  BY <1>4, <1>5 DEF ShownOf

LEMMA EmptyShown ==
    ASSUME NEW r \in Readers, screen'[r] = <<>>
    PROVE  ShownOf(r)'
  BY DEF ShownOf, Rising

LEMMA WorkerShown ==
    ASSUME Structure, Shown, Worker
    PROVE  Shown'
<1> SUFFICES ASSUME NEW r \in Readers PROVE ShownOf(r)'
  BY DEF Shown
<1>1. UNCHANGED <<screen, channel, subscribed>> /\ ShownOf(r)
  BY DEF Worker, readerVars, Shown
<1>2. written \in Nat /\ msg \in Nat
  BY DEF Structure, Types, WriterTypes, Lines, Done
<1>3. \/ written' = written + 1 /\ msg' = written + 1
      \/ written' = written /\ msg' = Done
      \/ written' = written /\ msg' = msg /\ (Waiting(r)' => Waiting(r))
  BY <1>1 DEF Worker, Work, Ready, ImageReady, Fail, CommitFailed, PublishDone, Copy, Emit, Commit,
              Waiting
<1> HIDE DEF Structure
<1>4. /\ written' \in Nat /\ written <= written' /\ msg' \in Nat
      /\ Waiting(r)' => (Waiting(r) /\ msg' = msg) \/ msg' > written \/ msg' = Done
  BY <1>2, <1>3 DEF Done
<1> QED
  BY <1>1, <1>2, <1>4, SameShown

\* A step that writes nothing leaves the screens it does not touch.
LEMMA OtherShown ==
    ASSUME Structure, Shown, NEW q \in Readers, UNCHANGED <<written, msg, screen[q], channel[q]>>,
           Waiting(q)' => Waiting(q)
    PROVE  ShownOf(q)'
<1>1. written \in Nat /\ msg \in Nat /\ ShownOf(q)
  BY DEF Structure, Types, WriterTypes, Lines, Done, Shown
<1> QED
  BY <1>1, SameShown

LEMMA PutShown ==
    ASSUME Structure, Shown, NEW r \in Readers, Put(r)
    PROVE  Shown'
<1> USE DEF Structure, Types
<1>0. /\ r \in to /\ to' = to \ {r}
      /\ channel' = [channel EXCEPT ![r] = Append(@, msg)] \/ channel' = channel
      /\ UNCHANGED <<written, msg, copied, subscribed, screen>>
  BY DEF Put
<1>1. ASSUME NEW q \in Readers, q # r \/ channel' = channel
      PROVE  ShownOf(q)'
  <2>1. channel'[q] = channel[q] /\ (Waiting(q)' => Waiting(q))
    BY <1>0, <1>1 DEF Waiting, ReaderTypes
  <2> QED
    BY <1>0, <2>1, OtherShown
<1>2. ASSUME channel' = [channel EXCEPT ![r] = Append(@, msg)]
      PROVE  ShownOf(r)'
  <2>1. PICK s \in Seq(Lines), c \in Seq(Lines \cup {Done}) : s = screen[r] /\ c = channel[r]
    BY DEF ReaderTypes
  <2>2. PICK d \in Seq(Lines \cup {Done}) : d = Append(c, msg)
    <3>1. msg \in Lines \cup {Done}
      BY DEF WriterTypes
    <3>2. Append(c, msg) \in Seq(Lines \cup {Done})
      BY <3>1
    <3> QED
      BY <3>2
  <2>3. screen'[r] = s /\ channel'[r] = d
    BY <1>0, <1>2, <2>1, <2>2 DEF ReaderTypes
  <2>4. Len(c) \in Nat /\ Len(d) = Len(c) + 1 /\ \A i \in 1 .. Len(d) : d[i] = msg \/ (i \in 1 .. Len(c) /\ d[i] = c[i])
    BY <2>2
  <2>5. Waiting(r) /\ ~Waiting(r)'
    BY <1>0 DEF Waiting, Subscribed, Ordered
  <2>6. Ahead(r) => Ahead(r)'
    BY <1>0, <2>1, <2>3, <2>4, <2>5 DEF Ahead
  <2>7. ShownOf(r)
    BY DEF Shown
  <2> QED
    BY <1>0, <2>1, <2>3, <2>6, <2>7 DEF ShownOf
<1> QED
  BY <1>0, <1>1, <1>2 DEF Shown

LEMMA ReplayShown ==
    ASSUME Structure, Shown, NEW r \in Readers, Replay(r)
    PROVE  Shown'
<1> USE DEF Structure, Types
<1>0. /\ \A q \in Readers : q # r => screen'[q] = screen[q]
      /\ UNCHANGED <<written, msg, copied, to, subscribed, channel>>
  BY DEF Replay, writerVars, ReaderTypes
<1>1. ASSUME NEW q \in Readers, q # r
      PROVE  ShownOf(q)'
  BY <1>0, <1>1, OtherShown DEF Waiting
<1>2. PICK before \in 0 .. Len(file) :
         /\ Len(screen'[r]) = Len(file) - before
         /\ \A i \in 1 .. Len(screen'[r]) : screen'[r][i] = file[before + i]
  BY ReplayStructure
<1>3. PICK n \in Nat : n = Len(file)
  BY DEF WriterTypes
<1>4. /\ \A i \in 1 .. n : file[i] <= written
      /\ \A i, j \in 1 .. n : i < j => file[i] < file[j]
  BY <1>3 DEF Filed
<1>5. ShownOf(r)'
  <2>1. \A i \in 1 .. n - before : screen'[r][i] = file[before + i] /\ before + i \in 1 .. n
    BY <1>2, <1>3
  <2>2. Len(screen'[r]) = n - before /\ before \in 0 .. n
    BY <1>2, <1>3
  <2>3. \A i \in 1 .. Len(screen'[r]) : screen'[r][i] <= written
    BY <1>4, <2>1, <2>2
  <2>4. ASSUME NEW i \in 1 .. Len(screen'[r]) - 1
        PROVE  screen'[r][i] < screen'[r][i + 1]
    <3>1. i \in 1 .. n - before /\ i + 1 \in 1 .. n - before
      BY <2>2, <2>4
    <3>2. before + i < before + (i + 1)
      BY <2>2, <2>4
    <3>3. file[before + i] < file[before + (i + 1)]
      BY <1>4, <2>1, <3>1, <3>2
    <3> QED
      BY <2>1, <3>1, <3>3
  <2> QED
    BY <1>0, <2>3, <2>4 DEF ShownOf, Rising
<1> QED
  BY <1>1, <1>5 DEF Shown

LEMMA ReceiveShown ==
    ASSUME Structure, Shown, NEW r \in Readers, Receive(r)
    PROVE  Shown'
<1> USE DEF Structure, Types
<1>1. PICK s \in Seq(Lines), c \in Seq(Lines \cup {Done}) : s = screen[r] /\ c = channel[r]
  BY DEF ReaderTypes
<1>0. /\ c # <<>>
      /\ channel' = [channel EXCEPT ![r] = Tail(c)]
      /\ \/ to' = to \ {r} /\ screen' = screen
         \/ /\ Head(c) # Done
            /\ screen' = [screen EXCEPT ![r] = Append(s, Head(c))]
            /\ UNCHANGED to
      /\ subscribed' \subseteq subscribed
      /\ UNCHANGED <<written, msg, copied>>
  BY <1>1 DEF Receive, Unsubscribe
<1>2. ASSUME NEW q \in Readers, q # r
      PROVE  ShownOf(q)'
  <2>1. screen'[q] = screen[q] /\ channel'[q] = channel[q] /\ (Waiting(q)' => Waiting(q))
    BY <1>0, <1>2 DEF Waiting, ReaderTypes
  <2> QED
    BY <1>0, <2>1, OtherShown
<1>3. PICK d \in Seq(Lines \cup {Done}) : d = Tail(c)
  <2>1. Tail(c) \in Seq(Lines \cup {Done})
    BY <1>0
  <2> QED
    BY <2>1
<1>4. /\ channel'[r] = d /\ Len(c) \in Nat \ {0} /\ Len(d) = Len(c) - 1
      /\ \A i \in 1 .. Len(d) : d[i] = c[i + 1] /\ i + 1 \in 1 .. Len(c)
      /\ Head(c) = c[1]
  BY <1>0, <1>3 DEF ReaderTypes
<1>5. ShownOf(r) /\ (Waiting(r)' => Waiting(r))
  BY <1>0 DEF Shown, Waiting
<1>6. CASE screen' = screen
  <2>1. screen'[r] = s
    BY <1>1, <1>6
  <2>2. Ahead(r) => Ahead(r)'
    BY <1>0, <1>1, <1>4, <1>5, <2>1 DEF Ahead
  <2>3. ShownOf(r)'
    BY <1>0, <1>1, <1>5, <2>1, <2>2 DEF ShownOf
  <2> QED
    BY <1>2, <2>3 DEF Shown
<1>7. CASE Head(c) # Done /\ screen' = [screen EXCEPT ![r] = Append(s, Head(c))]
  <2>1. PICK h \in Lines : h = Head(c)
    BY <1>0, <1>7
  <2>2. PICK t \in Seq(Lines) : t = Append(s, h)
    <3>1. Append(s, h) \in Seq(Lines)
      OBVIOUS
    <3> QED
      BY <3>1
  <2>3. /\ screen'[r] = t /\ Len(s) \in Nat /\ Len(t) = Len(s) + 1 /\ t[Len(t)] = h
        /\ \A i \in 1 .. Len(s) : t[i] = s[i]
    BY <1>7, <2>1, <2>2 DEF ReaderTypes
  <2>4. /\ h <= written /\ h # Done /\ 1 \in 1 .. Len(c) /\ c[1] = h
        /\ \A i \in 1 .. Len(d) : d[i] # Done => h < d[i]
        /\ Waiting(r) /\ msg # Done => h < msg
    <3>1. 1 \in 1 .. Len(c) /\ c[1] = h /\ h # Done
      BY <1>4, <1>7, <2>1
    <3>2. /\ c[1] <= written
          /\ Waiting(r) /\ msg # Done => c[1] < msg
          /\ \A j \in 1 .. Len(c) : 1 < j => c[j] = Done \/ c[1] < c[j]
      BY <1>1, <3>1 DEF Channelled
    <3>3. \A i \in 1 .. Len(d) : 1 < i + 1
      BY <1>4
    <3> QED
      BY <1>4, <3>1, <3>2, <3>3
  <2>5. Ahead(r)'
    BY <1>0, <1>4, <1>5, <2>3, <2>4 DEF Ahead
  <2>6. \A i \in 1 .. Len(t) : t[i] <= written
    <3>1. \A i \in 1 .. Len(s) : s[i] <= written
      BY <1>1, <1>5 DEF ShownOf
    <3>2. \A i \in 1 .. Len(t) : i \in 1 .. Len(s) \/ i = Len(t)
      BY <2>3
    <3> QED
      BY <2>3, <2>4, <3>1, <3>2
  <2>7. \E k \in Nat : Rising(t, k)
    <3>1. CASE Rising(s, 0)
      <4>1. \A i \in 1 .. Len(s) - 1 : t[i] < t[i + 1]
        <5>1. \A i \in 1 .. Len(s) - 1 :
                i # 0 /\ i \in 1 .. Len(s) /\ i + 1 \in 1 .. Len(s) /\ i \in 1 .. Len(s) - 1
          BY <2>3
        <5> QED
          BY <2>3, <3>1, <5>1 DEF Rising
      <4>2. Rising(t, Len(s))
        <5>1. \A i \in 1 .. Len(t) - 1 : i # Len(s) => i \in 1 .. Len(s) - 1
          BY <2>3
        <5> QED
          BY <4>1, <5>1 DEF Rising
      <4> QED
        BY <2>3, <4>2
    <3>2. CASE Len(s) > 0 /\ Ahead(r) /\ \E k \in Nat : Rising(s, k)
      <4>1. PICK k \in Nat : Rising(s, k)
        BY <3>2
      <4>2. s[Len(s)] < h
        BY <1>1, <2>4, <3>2 DEF Ahead
      <4>3. \A i \in 1 .. Len(s) - 1 : i # k => t[i] < t[i + 1]
        BY <2>3, <4>1 DEF Rising
      <4>4. t[Len(s)] < t[Len(s) + 1]
        BY <2>3, <3>2, <4>2
      <4>5. Rising(t, k)
        <5>1. \A i \in 1 .. Len(t) - 1 : i = Len(s) \/ i \in 1 .. Len(s) - 1
          BY <2>3
        <5> QED
          BY <4>3, <4>4, <5>1 DEF Rising
      <4> QED
        BY <4>5
    <3> QED
      BY <1>1, <1>5, <3>1, <3>2 DEF ShownOf
  <2>8. ShownOf(r)'
    <3>1. \E k \in Nat : Rising(screen[r], k)'
      BY <2>3, <2>7 DEF Rising
    <3>2. /\ \A i \in 1 .. Len(screen'[r]) : screen'[r][i] <= written'
          /\ Len(screen'[r]) > 0
      BY <1>0, <2>3, <2>6
    <3> QED
      BY <2>5, <3>1, <3>2 DEF ShownOf
  <2> QED
    BY <1>2, <2>8 DEF Shown
<1> QED
  BY <1>0, <1>6, <1>7

LEMMA StepShown == Structure /\ Shown /\ [Next]_vars => Shown'
<1> SUFFICES ASSUME Structure, Shown, [Next]_vars PROVE Shown'
  OBVIOUS
<1>1. ASSUME NEW r \in Readers, Subscribe(r) \/ Check(r)
      PROVE  Shown'
  <2>1. /\ UNCHANGED <<written, msg, copied, screen, channel>> /\ to' \subseteq to
        /\ \A q \in Readers : q # r => (q \in subscribed' => q \in subscribed)
        /\ Subscribe(r) \/ subscribed' \subseteq subscribed
    BY <1>1 DEF Subscribe, Check, Unsubscribe, writerVars
  <2>2. ASSUME NEW q \in Readers, q # r \/ ~Subscribe(r)
        PROVE  ShownOf(q)'
    BY <2>1, <2>2, OtherShown DEF Waiting
  <2>3. CASE Subscribe(r)
    BY <2>1, <2>2, <2>3, EmptyShown DEF Subscribe, Structure, Subscribed, Shown
  <2> QED
    BY <2>2, <2>3 DEF Shown
<1>2. ASSUME NEW r \in Readers, Leave(r)
      PROVE  Shown'
  <2>1. /\ UNCHANGED <<written, msg, copied>> /\ to' \subseteq to /\ subscribed' \subseteq subscribed
        /\ \A q \in Readers : q # r => screen'[q] = screen[q] /\ channel'[q] = channel[q]
        /\ screen'[r] = <<>>
    BY <1>2 DEF Leave, Unsubscribe, Structure, Types, ReaderTypes
  <2>2. ASSUME NEW q \in Readers, q # r
        PROVE  ShownOf(q)'
    BY <2>1, <2>2, OtherShown DEF Waiting
  <2> QED
    BY <2>1, <2>2, EmptyShown DEF Shown
<1>3. CASE \/ Delete \/ \E f \in Followers : Follower(f)
           \/ UNCHANGED vars
  <2>1. UNCHANGED <<written, msg, copied, to, subscribed, screen, channel>>
    BY <1>3 DEF Delete, Follower, PollStatus, PollSize, PollRead, PollLost, vars, writerVars, readerVars
  <2> QED
    BY <2>1, OtherShown DEF Waiting, Shown
<1> QED
  BY <1>1, <1>2, <1>3, WorkerShown, PutShown, ReplayShown, ReceiveShown
     DEF Next, Build, Browser, Reader

LEMMA FewSteps ==
    ASSUME NEW s \in Seq(Lines), NEW k \in Nat, Rising(s, k)
    PROVE  Cardinality({i \in 1 .. Len(s) - 1 : s[i] >= s[i + 1]}) <= 1
<1>1. {i \in 1 .. Len(s) - 1 : s[i] >= s[i + 1]} \subseteq {k}
  <2>1. \A i \in 1 .. Len(s) - 1 : s[i] \in Nat /\ s[i + 1] \in Nat
    BY LinesAreNumbers
  <2> QED
    BY <2>1 DEF Rising
<1>2. IsFiniteSet({k}) /\ Cardinality({k}) = 1
  BY FS_Singleton
<1> QED
  BY <1>1, <1>2, FS_Subset

\* Nothing is shown a third time.
THEOREM NoThirdTime == Spec => []TwiceAtWorst
<1>1. Init => Shown
  BY DEF Init, InitAt, Shown, ShownOf, Rising
<1>2. Structure /\ Shown => TwiceAtWorst
  <2> SUFFICES ASSUME Structure, Shown, NEW r \in Readers
               PROVE  Cardinality({i \in 1 .. Len(screen[r]) - 1 : screen[r][i] >= screen[r][i + 1]}) <= 1
    BY DEF TwiceAtWorst
  <2>1. screen[r] \in Seq(Lines)
    BY DEF Structure, Types, ReaderTypes
  <2>2. \E k \in Nat : Rising(screen[r], k)
    BY DEF Shown, ShownOf
  <2> QED
    BY <2>1, <2>2, FewSteps
<1> QED
  BY <1>1, <1>2, StepShown, Structured, PTL DEF Spec
-----------------------------------------------------------------------------
\* The theorems about a follower of a log and about a command, for the scene
\* "command" and for the logs of the scene "panel".
Told == INSTANCE ClientCommandProofs
          WITH Builds <- {b1, b2}, Mine <- b1, status <- row, written <- bytes, follower <- reading
Kept == INSTANCE ClientCommandProofs
          WITH Builds <- {b1, b2}, Mine <- b1, status <- row, written <- bytes, follower <- reading,
               Size <- PanelSize, Newlines <- PanelNewlines, Limit <- PanelLimit,
               MaxLost <- PanelLost

(***************************************************************************)
(* The log panel                                                           *)
(***************************************************************************)
Ours == {b1, b2}

\* FollowLog as the panel and as the theorems name it.
LEMMA SameChunk == \A b, o : Tui!Chunk(b, o) = Kept!Chunk(b, o)
<1>1. \A b, o : Tui!Start(b, o) = Kept!Start(b, o)
  BY Zenon DEF Tui!Start, Tui!Min, Tui!Max, Kept!Start, Kept!Min, Kept!Max
<1>2. \A s, l : Tui!FirstLine(s, l) = Kept!FirstLine(s, l)
  BY Zenon DEF Tui!FirstLine, Tui!Min, Tui!LineEnds, Kept!FirstLine, Kept!Min, Kept!LineEnds
<1>3. \A s, l : Tui!WholeLines(s, l) = Kept!WholeLines(s, l)
  BY Zenon DEF Tui!WholeLines, Tui!Max, Tui!LineEnds, Kept!WholeLines, Kept!Max, Kept!LineEnds
<1>4. Tui!Ended = Kept!Ended
  BY DEF Tui!Ended, Kept!Ended
<1>5. \A S : Tui!Min(S) = Kept!Min(S)
  BY Zenon DEF Tui!Min, Kept!Min
<1> TAKE b, o
<1> DEFINE begin == Kept!Start(b, o)
           read == Kept!Min({begin + PanelLimit + 1, bytes[b]})
           start == IF o = None /\ begin > 0 THEN Kept!FirstLine(begin, read) ELSE begin
           last == Kept!Min({start + PanelLimit, read})
           next == IF last < read \/ row[b] \notin Kept!Ended
                   THEN Kept!WholeLines(start, last) ELSE last
           a == [start |-> start, next |-> next, size |-> bytes[b], status |-> row[b],
                 complete |-> row[b] \in Kept!Ended /\ next >= bytes[b]]
<1>6. Kept!Chunk(b, o) = a
  BY DEF Kept!Chunk
<1>7. Tui!Chunk(b, o) = a
  BY <1>1, <1>2, <1>3, <1>4, <1>5 DEF Tui!Chunk
<1> QED
  BY <1>6, <1>7

\* So are the lines it gives out.
LEMMA SameText ==
    /\ \A f, a : Tui!Lines(f, a) = Kept!Lines(f, a)
    /\ \A f, a : Tui!After(f, a) = Kept!After(f, a)
    /\ \A f, t : Tui!ShowsTheLog(f, t) = Kept!ShowsTheLog(f, t)
    /\ \A b : Tui!NewFollower(b) = Kept!NewFollower(b)
<1>1. \A f, l : Tui!Bytes(f, l) = Kept!Bytes(f, l)
  BY Zenon DEF Tui!Bytes, Kept!Bytes
<1>2. \A f, a : Tui!Joined(f, a) = Kept!Joined(f, a)
  BY <1>1, Zenon DEF Tui!Joined, Kept!Joined
<1>3. \A S : Tui!Max(S) = Kept!Max(S)
  BY Zenon DEF Tui!Max, Kept!Max
<1>4. \A t : Tui!LastEnd(t) = Kept!LastEnd(t)
  BY <1>3, Zenon DEF Tui!LastEnd, Kept!LastEnd
<1>5. \A f, a : Tui!Given(f, a) = Kept!Given(f, a)
  BY <1>2, <1>4, Zenon DEF Tui!Given, Kept!Given
<1>6. \A f, a : Tui!Lines(f, a) = Kept!Lines(f, a)
  BY <1>2, <1>5, Zenon DEF Tui!Lines, Kept!Lines
<1>7. \A f, a : Tui!After(f, a) = Kept!After(f, a)
  BY <1>2, <1>5, Zenon DEF Tui!After, Kept!After
<1>8. \A f, t : Tui!ShowsTheLog(f, t) = Kept!ShowsTheLog(f, t)
  BY <1>1, Zenon DEF Tui!ShowsTheLog, Kept!ShowsTheLog
<1>9. \A b : Tui!NewFollower(b) = Kept!NewFollower(b)
  BY Zenon DEF Tui!NewFollower, Kept!NewFollower
<1> QED
  BY <1>6, <1>7, <1>8, <1>9

\* The sizes of the panel's logs are sizes of logs.
LEMMA PanelLog == Kept!ALog /\ Kept!Statuses = {"none", "running", "ready", "failed", "deleted"}
BY PanelAssumption, ClientAssumption DEF Kept!ALog, Kept!Statuses

\* One more answer.
LEMMA PanelReads ==
    ASSUME NEW b \in Ours, row \in [Ours -> Kept!Statuses], bytes \in [Ours -> 0..PanelSize],
           NEW f, NEW text, Kept!Follows(b, f, text),
           NEW a, a = Tui!Chunk(b, f.offset)
    PROVE  /\ Kept!Follows(b, Tui!After(f, a), text \o Tui!Lines(f, a))
           /\ Tui!Lines(f, a) \in Seq(Nat)
<1>1. a = Kept!Chunk(b, f.offset)
  BY SameChunk
<1>2. /\ Kept!Follows(b, Kept!After(f, a), text \o Kept!Lines(f, a))
      /\ Kept!Lines(f, a) \in Seq(Nat)
  BY <1>1, PanelLog, Kept!AnswerIsJoined DEF Ours
<1> QED
  BY <1>2, SameText

\* A new follower has given nothing.
LEMMA FollowsNothing ==
    ASSUME NEW b \in Ours
    PROVE  /\ Kept!Follows(b, Tui!NewFollower(b), <<>>)
           /\ Tui!NewFollower(b).build = b
           /\ Tui!NewFollower(b) \in FollowerType
<1>1. Tui!NewFollower(b) = [build |-> b, from |-> 0, offset |-> None, partial |-> <<>>,
                            finished |-> FALSE, status |-> None]
  BY DEF Tui!NewFollower
<1>2. <<>> \in Seq(Nat)
  OBVIOUS
<1> QED
  BY <1>1, <1>2 DEF Kept!Follows, Kept!ShowsTheLog, FollowerType, Ours

\* What a follower has is not changed by what the log gets.
LEMMA FollowsStill ==
    ASSUME NEW b \in Ours, NEW f, NEW text, Kept!Follows(b, f, text),
           bytes \in [Ours -> 0..PanelSize], bytes' \in [Ours -> 0..PanelSize],
           bytes'[b] >= bytes[b]
    PROVE  Kept!Follows(b, f, text)'
<1>1. bytes[b] \in Nat /\ bytes'[b] \in Nat
  BY PanelAssumption
<1> QED
  BY <1>1 DEF Kept!Follows, Kept!ShowsTheLog

\* The lines of a read of follower f that is not delivered.
ComingIn(threads, f) ==
    IF \E t \in Threads : threads[t].follower = f
    THEN threads[CHOOSE t \in Threads : threads[t].follower = f].lines ELSE <<>>

\* One read of f at most.
Alone(threads, f) ==
    \A t, u \in Threads : threads[t].follower = f /\ threads[u].follower = f => t = u

ThreadType ==
    [pc : {"idle", "ask", "read", "failed"}, follower : Views \cup {0}, lines : Seq(Nat)]

\* What is coming in is what the one thread at it has.
LEMMA ComingIs ==
    ASSUME NEW threads, NEW f, Alone(threads, f)
    PROVE  /\ \A t \in Threads : threads[t].follower = f => ComingIn(threads, f) = threads[t].lines
           /\ (\A t \in Threads : threads[t].follower # f) => ComingIn(threads, f) = <<>>
<1>1. ASSUME NEW t \in Threads, threads[t].follower = f
      PROVE  ComingIn(threads, f) = threads[t].lines
  <2> DEFINE u == CHOOSE u \in Threads : threads[u].follower = f
  <2>1. u \in Threads /\ threads[u].follower = f
    BY <1>1
  <2>2. u = t
    BY <1>1, <2>1 DEF Alone
  <2>3. ComingIn(threads, f) = threads[u].lines
    BY <1>1 DEF ComingIn
  <2> QED
    BY <2>2, <2>3
<1>2. (\A t \in Threads : threads[t].follower # f) => ComingIn(threads, f) = <<>>
  BY DEF ComingIn
<1> QED
  BY <1>1, <1>2

\* What another read does is nothing to those of f.
LEMMA OthersComing ==
    ASSUME NEW threads \in [Threads -> ThreadType], NEW t \in Threads, NEW r \in ThreadType,
           NEW f, Alone(threads, f), threads[t].follower # f, r.follower # f
    PROVE  /\ Alone([threads EXCEPT ![t] = r], f)
           /\ ComingIn([threads EXCEPT ![t] = r], f) = ComingIn(threads, f)
<1> DEFINE new == [threads EXCEPT ![t] = r]
<1>1. \A u \in Threads : new[u] = IF u = t THEN r ELSE threads[u]
  OBVIOUS
<1> HIDE DEF new
<1>2. \A u \in Threads : new[u].follower = f <=> threads[u].follower = f
  BY <1>1
<1>3. Alone(new, f)
  BY <1>2 DEF Alone
<1>4. CASE \E u \in Threads : threads[u].follower = f
  <2>1. PICK u \in Threads : threads[u].follower = f
    BY <1>4
  <2>2. new[u] = threads[u] /\ new[u].follower = f
    BY <1>1, <1>2, <2>1
  <2>3. ComingIn(threads, f) = threads[u].lines
    BY <2>1, ComingIs
  <2>4. ComingIn(new, f) = new[u].lines
    BY <1>3, <2>2, ComingIs
  <2> QED
    BY <1>3, <2>2, <2>3, <2>4 DEF new
<1>5. CASE ~\E u \in Threads : threads[u].follower = f
  <2>1. \A u \in Threads : threads[u].follower # f
    BY <1>5
  <2>2. \A u \in Threads : new[u].follower # f
    BY <1>2, <2>1
  <2>3. ComingIn(threads, f) = <<>>
    BY <2>1, ComingIs
  <2>4. ComingIn(new, f) = <<>>
    BY <1>3, <2>2, ComingIs
  <2> QED
    BY <1>3, <2>3, <2>4 DEF new
<1> QED
  BY <1>4, <1>5

Made == {f \in Views : follower[f] # None}

PanelTyped ==
    /\ row \in [Ours -> Kept!Statuses] /\ bytes \in [Ours -> 0..PanelSize]
    /\ panel \in [build : Ours \cup {None}, follower : Views \cup {0}, busy : BOOLEAN]
    /\ thread \in [Threads -> ThreadType]
    /\ plain \in Seq(Nat)
    /\ follower \in [Views -> FollowerType \cup {None}]
    /\ spoiled \subseteq Views

\* Followers are made in turn, and each reads the log of its build.
MadeInTurn ==
    /\ Made = 1..Cardinality(Made)
    /\ \A f \in Made : \E text : Kept!Follows(follower[f].build, follower[f], text)

\* A thread at work has a follower; one that failed has nothing.
AtWork ==
    \A t \in Threads :
      /\ thread[t].pc = "idle" => thread[t].follower = 0 /\ thread[t].lines = <<>>
      /\ thread[t].pc # "idle" => thread[t].follower \in Made
      /\ thread[t].pc = "failed" => thread[t].lines = <<>>

ReadAlone == \A f \in Views \ spoiled : Alone(thread, f)

\* The panel is on the follower of its build, or empty.
OnItsBuild ==
    /\ panel.follower = 0 <=> panel.build = None
    /\ panel.follower = 0 => plain = <<>>
    /\ panel.follower # 0 => panel.follower \in Made

\* What is shown and what is on its way are what the follower has given.
ShowsAll ==
    LET f == panel.follower IN
    f # 0 /\ f \notin spoiled =>
      Kept!Follows(follower[f].build, follower[f], plain \o ComingIn(thread, f))

PanelInv == PanelTyped /\ MadeInTurn /\ AtWork /\ ReadAlone /\ OnItsBuild /\ ShowsAll

\* Followers are numbered from 1, and None is neither a follower nor a number.
LEMMA ViewsAre == Views \in SUBSET (Nat \ {0}) /\ 0 \notin Views /\ Views = 1..Cardinality(Views)
                  /\ Cardinality(Views) \in Nat
BY PanelAssumption, FS_CardinalityType

LEMMA NoneIsNone == None \notin FollowerType /\ None \notin Int
BY ClientAssumption

\* A read begins in a thread that is free.
LEMMA ReadStarts ==
    ASSUME PanelTyped, AtWork, ReadAlone, NEW f \in Views, Tui!StartRead(f)
    PROVE  /\ thread' \in [Threads -> ThreadType]
           /\ \A t \in Threads :
                \/ thread'[t] = thread[t]
                \/ thread'[t] = [pc |-> "ask", follower |-> f, lines |-> <<>>]
           /\ spoiled \subseteq spoiled' /\ spoiled' \subseteq spoiled \cup {f}
           /\ \A g \in Views \ spoiled' :
                Alone(thread', g) /\ ComingIn(thread', g) = ComingIn(thread, g)
           /\ f \notin spoiled' => ComingIn(thread', f) = <<>>
           /\ Tui!Reads(f) = {} => spoiled' = spoiled
<1> DEFINE free == {t \in Threads : thread[t].pc = "idle"}
           t == Tui!Min(free)
           r == [pc |-> "ask", follower |-> f, lines |-> <<>>]
<1>1. /\ free # {}
      /\ thread' = [thread EXCEPT ![t] = [Tui!Idle EXCEPT !.pc = "ask", !.follower = f]]
      /\ spoiled' = spoiled \cup (IF Tui!Reads(f) = {} THEN {} ELSE {f})
  BY DEF Tui!StartRead
<1>2. [Tui!Idle EXCEPT !.pc = "ask", !.follower = f] = r
  <2>1. <<>> \in Seq(Nat)
    OBVIOUS
  <2>2. Tui!Idle \in ThreadType /\ Tui!Idle.lines = <<>>
    BY <2>1 DEF Tui!Idle, ThreadType
  <2> DEFINE x == Tui!Idle
  <2> HIDE DEF x
  <2>3. x \in ThreadType /\ f \in Views \cup {0}
    BY <2>2 DEF x
  <2>4. [x EXCEPT !.pc = "ask", !.follower = f] = [pc |-> "ask", follower |-> f, lines |-> x.lines]
    <3> DEFINE y == [x EXCEPT !.pc = "ask", !.follower = f]
               z == [pc |-> "ask", follower |-> f, lines |-> x.lines]
    <3>1. y \in ThreadType /\ z \in ThreadType
      BY <2>3 DEF ThreadType
    <3>2. y.pc = "ask" /\ y.follower = f /\ y.lines = x.lines
      BY <2>3 DEF ThreadType
    <3>3. z.pc = "ask" /\ z.follower = f /\ z.lines = x.lines
      OBVIOUS
    <3> HIDE DEF y, z
    <3>4. y = z
      BY <3>1, <3>2, <3>3 DEF ThreadType
    <3> QED
      BY <3>4 DEF y, z
  <2> QED
    BY <2>2, <2>4 DEF x, r
<1>3. t \in free
  <2>1. free \in SUBSET Nat /\ free # {}
    BY <1>1, PanelAssumption
  <2> HIDE DEF free
  <2>2. Kept!Min(free) \in free
    BY <2>1, Kept!MinOf
  <2>3. Tui!Min(free) = Kept!Min(free)
    BY Zenon DEF Tui!Min, Kept!Min
  <2> QED
    BY <2>2, <2>3
<1>4. t \in Threads /\ thread[t].pc = "idle" /\ thread[t].follower = 0
  BY <1>3 DEF AtWork
<1>5. r \in ThreadType
  <2>1. <<>> \in Seq(Nat)
    OBVIOUS
  <2> QED
    BY <2>1 DEF ThreadType
<1> HIDE DEF t, r, free
<1>6. thread' = [thread EXCEPT ![t] = r] /\ thread \in [Threads -> ThreadType]
  BY <1>1, <1>2 DEF PanelTyped
<1>7. thread' \in [Threads -> ThreadType] /\ thread'[t] = r
      /\ \A u \in Threads : u # t => thread'[u] = thread[u]
  BY <1>4, <1>5, <1>6
<1>8. r.follower = f /\ r.lines = <<>> /\ f # 0
  BY ViewsAre DEF r
<1>9. ASSUME NEW g \in Views \ spoiled'
      PROVE  /\ Alone(thread', g) /\ ComingIn(thread', g) = ComingIn(thread, g)
             /\ g = f => ComingIn(thread', g) = <<>>
  <2>1. Alone(thread, g) /\ g # 0
    BY <1>1, <1>9, ViewsAre DEF ReadAlone
  <2>2. CASE g # f
    BY <1>4, <1>5, <1>6, <1>8, <2>1, <2>2, OthersComing
  <2>3. CASE g = f
    <3>1. Tui!Reads(f) = {}
      BY <1>1, <1>9, <2>3
    <3>2. \A u \in Threads : thread[u].follower # f
      BY <1>8, <3>1 DEF Tui!Reads, AtWork
    <3>3. \A u \in Threads : u # t => thread'[u].follower # f
      BY <1>7, <3>2
    <3>4. Alone(thread', f)
      BY <3>3 DEF Alone
    <3>5. ComingIn(thread', f) = <<>>
      BY <1>4, <1>7, <1>8, <3>4, ComingIs
    <3>6. ComingIn(thread, f) = <<>>
      BY <2>1, <2>3, <3>2, ComingIs
    <3> QED
      BY <2>3, <3>4, <3>5, <3>6
  <2> QED
    BY <2>2, <2>3
<1> QED
  BY <1>1, <1>7, <1>9 DEF r

\* Nothing, and nothing added.
LEMMA NothingShown == <<>> \in Seq(Nat) /\ \A s \in Seq(Nat) : s \o <<>> = s /\ <<>> \o s = s
OBVIOUS

\* A thread goes on with its follower, or is done with it.
LEMMA ReadGoesOn ==
    ASSUME PanelTyped, ReadAlone, NEW t \in Threads, NEW r \in ThreadType,
           r.follower \in {thread[t].follower, 0},
           thread' = [thread EXCEPT ![t] = r], NEW g \in Views \ spoiled
    PROVE  /\ Alone(thread', g)
           /\ ComingIn(thread', g) = IF thread[t].follower # g THEN ComingIn(thread, g)
                                     ELSE IF r.follower = g THEN r.lines ELSE <<>>
           /\ thread[t].follower = g => ComingIn(thread, g) = thread[t].lines
<1>1. Alone(thread, g) /\ g # 0
  BY ViewsAre DEF ReadAlone
<1>2. thread \in [Threads -> ThreadType]
  BY DEF PanelTyped
<1>3. CASE thread[t].follower # g
  <2>1. r.follower # g
    BY <1>1, <1>3
  <2> QED
    BY <1>1, <1>2, <1>3, <2>1, OthersComing
<1>4. CASE thread[t].follower = g
  <2>1. thread'[t] = r /\ \A u \in Threads : u # t => thread'[u] = thread[u]
    BY <1>2
  <2>2. \A u \in Threads : u # t => thread'[u].follower # g
    BY <1>1, <1>4, <2>1 DEF Alone
  <2>3. Alone(thread', g)
    BY <2>2 DEF Alone
  <2>4. ComingIn(thread, g) = thread[t].lines
    BY <1>1, <1>4, ComingIs
  <2>5. CASE r.follower = g
    <3> DEFINE new == thread'
    <3>1. \A u \in Threads : new[u].follower = g => ComingIn(new, g) = new[u].lines
      <4>1. Alone(new, g)
        BY <2>3
      <4> HIDE DEF new
      <4> QED
        BY <4>1, ComingIs
    <3> QED
      BY <1>4, <2>1, <2>3, <2>4, <2>5, <3>1
  <2>6. CASE r.follower # g
    <3>1. \A u \in Threads : thread'[u].follower # g
      BY <2>1, <2>2, <2>6
    <3>2. ComingIn(thread', g) = <<>>
      BY <2>3, <3>1, ComingIs
    <3> QED
      BY <1>4, <2>3, <2>4, <2>6, <3>2
  <2> QED
    BY <2>5, <2>6
<1> QED
  BY <1>3, <1>4

\* Cardinality as the panel and as the theorems name it.
LEMMA SameSize == \A S : Tui!Cardinality(S) = Cardinality(S)
BY Zenon DEF Tui!Cardinality, Cardinality

\* Another build.
LEMMA BuildIsShown ==
    ASSUME PanelInv, NEW b \in Ours, Tui!ShowBuild(b)
    PROVE  PanelInv'
<1> DEFINE f == Cardinality(Made) + 1
           new == Tui!NewFollower(b)
<1>1. Tui!Cardinality({g \in Views : follower[g] # None}) + 1 = f
  BY SameSize DEF Made
<1> HIDE DEF f
<1>2. /\ f \in Views
      /\ follower' = [follower EXCEPT ![f] = new]
      /\ plain' = <<>> /\ row' = row /\ bytes' = bytes
  BY <1>1 DEF Tui!ShowBuild, Tui!serverVars
<1>3. PICK visible \in BOOLEAN :
        /\ panel' = [build |-> b, follower |-> f, busy |-> visible]
        /\ IF visible THEN Tui!StartRead(f) ELSE UNCHANGED <<thread, spoiled>>
  BY <1>1 DEF Tui!ShowBuild
<1>4. /\ Kept!Follows(b, new, <<>>) /\ new.build = b /\ new \in FollowerType
  BY FollowsNothing
<1> HIDE DEF new
<1>5. Made = 1..Cardinality(Made) /\ Made \subseteq Views
  BY DEF PanelInv, MadeInTurn, Made
<1>6. Cardinality(Made) \in Nat /\ f \in Nat /\ f # 0
  <2>1. IsFiniteSet(Made)
    BY <1>5, PanelAssumption, FS_Subset
  <2>2. Cardinality(Made) \in Nat
    BY <2>1, FS_CardinalityType
  <2> QED
    BY <2>2 DEF f
<1>7. f \notin Made
  BY <1>5, <1>6 DEF f
<1>8. Made' = Made \cup {f} /\ f \in Made'
  <2>1. new # None
    BY <1>4, NoneIsNone
  <2>2. follower'[f] = new /\ \A g \in Views : g # f => follower'[g] = follower[g]
    BY <1>2 DEF PanelInv, PanelTyped
  <2> QED
    BY <1>2, <2>1, <2>2 DEF Made
<1>9. Made' = 1..f /\ Cardinality(Made') = f
  <2>1. Made' = 1..f
    BY <1>5, <1>6, <1>8 DEF f
  <2>2. Cardinality(1..f) = f
    BY <1>6, FS_Interval
  <2> QED
    BY <2>1, <2>2
<1>10. /\ thread' \in [Threads -> ThreadType]
       /\ \A t \in Threads :
            \/ thread'[t] = thread[t]
            \/ thread'[t] = [pc |-> "ask", follower |-> f, lines |-> <<>>]
       /\ spoiled \subseteq spoiled' /\ spoiled' \subseteq spoiled \cup {f}
       /\ \A g \in Views \ spoiled' : Alone(thread', g)
       /\ f \notin spoiled' => ComingIn(thread', f) = <<>>
  <2>1. CASE visible
    BY <1>2, <1>3, <2>1, ReadStarts DEF PanelInv
  <2>2. CASE ~visible
    <3>1. thread' = thread /\ spoiled' = spoiled
      BY <1>3, <2>2
    <3>2. \A t \in Threads : thread[t].follower # f
      BY <1>6, <1>7 DEF PanelInv, AtWork, PanelTyped, ThreadType
    <3>3. f \notin spoiled => ComingIn(thread, f) = <<>>
      BY <1>2, <3>2, ComingIs DEF PanelInv, ReadAlone
    <3> QED
      BY <3>1, <3>3 DEF PanelInv, PanelTyped, ReadAlone
  <2> QED
    BY <2>1, <2>2
<1>11. PanelTyped'
  <2>1. panel' \in [build : Ours \cup {None}, follower : Views \cup {0}, busy : BOOLEAN]
    BY <1>2, <1>3
  <2>2. follower' \in [Views -> FollowerType \cup {None}]
    BY <1>2, <1>4 DEF PanelInv, PanelTyped
  <2>3. spoiled' \subseteq Views
    BY <1>2, <1>10 DEF PanelInv, PanelTyped
  <2> QED
    BY <1>2, <1>10, <2>1, <2>2, <2>3, NothingShown DEF PanelInv, PanelTyped
<1>12. MadeInTurn'
  <2>1. ASSUME NEW g \in Made'
        PROVE  \E text : Kept!Follows(follower[g].build, follower[g], text)'
    <3>1. CASE g = f
      <4>1. follower'[f] = new
        BY <1>2 DEF PanelInv, PanelTyped
      <4>2. Kept!Follows(b, new, <<>>)'
        BY <1>2, <1>4 DEF Kept!Follows, Kept!ShowsTheLog
      <4> QED
        BY <1>4, <3>1, <4>1, <4>2 DEF Kept!Follows, Kept!ShowsTheLog
    <3>2. CASE g # f
      <4>1. g \in Made /\ follower'[g] = follower[g]
        BY <1>2, <1>5, <1>8, <3>2 DEF PanelInv, PanelTyped
      <4>2. PICK text : Kept!Follows(follower[g].build, follower[g], text)
        BY <4>1 DEF PanelInv, MadeInTurn
      <4>3. Kept!Follows(follower[g].build, follower[g], text)'
        BY <1>2, <4>1, <4>2 DEF Kept!Follows, Kept!ShowsTheLog
      <4> QED
        BY <4>3
    <3> QED
      BY <3>1, <3>2
  <2> QED
    BY <1>9, <2>1 DEF MadeInTurn
<1>13. AtWork'
  BY <1>8, <1>10 DEF PanelInv, AtWork
<1>14. OnItsBuild'
  <2>1. panel'.follower = f /\ panel'.build = b
    BY <1>3
  <2>2. b # None
    BY PanelAssumption DEF Ours
  <2> QED
    BY <1>6, <1>8, <2>1, <2>2 DEF OnItsBuild
<1>15. ShowsAll'
  <2>1. panel'.follower = f /\ follower'[f] = new
    BY <1>2, <1>3 DEF PanelInv, PanelTyped
  <2>2. f \notin spoiled' => plain' \o ComingIn(thread', f) = <<>>
    BY <1>2, <1>10, NothingShown
  <2>3. Kept!Follows(b, new, <<>>)'
    BY <1>2, <1>4 DEF Kept!Follows, Kept!ShowsTheLog
  <2> QED
    BY <1>4, <2>1, <2>2, <2>3 DEF ShowsAll, Kept!Follows, Kept!ShowsTheLog
<1> QED
  BY <1>10, <1>11, <1>12, <1>13, <1>14, <1>15 DEF PanelInv, ReadAlone

\* The panel shows no build.
LEMMA EmptyIsShown ==
    ASSUME PanelInv, Tui!ShowEmpty
    PROVE  PanelInv'
<1>1. /\ panel' = [panel EXCEPT !.build = None, !.follower = 0]
      /\ plain' = <<>> /\ row' = row /\ bytes' = bytes
      /\ follower' = follower /\ thread' = thread /\ spoiled' = spoiled
  BY DEF Tui!ShowEmpty, Tui!serverVars
<1>2. /\ panel' \in [build : Ours \cup {None}, follower : Views \cup {0}, busy : BOOLEAN]
      /\ panel'.build = None /\ panel'.follower = 0
  BY <1>1 DEF PanelInv, PanelTyped
<1>3. PanelTyped'
  BY <1>1, <1>2, NothingShown DEF PanelInv, PanelTyped
<1>4. MadeInTurn'
  <2>1. Made' = Made
    BY <1>1 DEF Made
  <2>2. ASSUME NEW g \in Made
        PROVE  \E text : Kept!Follows(follower[g].build, follower[g], text)'
    <3>1. PICK text : Kept!Follows(follower[g].build, follower[g], text)
      BY DEF PanelInv, MadeInTurn
    <3>2. Kept!Follows(follower[g].build, follower[g], text)'
      BY <1>1, <3>1 DEF Kept!Follows, Kept!ShowsTheLog
    <3> QED
      BY <3>2
  <2> QED
    BY <2>1, <2>2 DEF PanelInv, MadeInTurn
<1>5. AtWork' /\ ReadAlone'
  BY <1>1 DEF PanelInv, AtWork, ReadAlone, Made
<1>6. OnItsBuild' /\ ShowsAll'
  BY <1>1, <1>2 DEF OnItsBuild, ShowsAll
<1> QED
  BY <1>3, <1>4, <1>5, <1>6 DEF PanelInv

\* The timer.
LEMMA PollIsShown ==
    ASSUME PanelInv, Tui!Poll
    PROVE  PanelInv'
<1>0. PICK f : f = panel.follower
  OBVIOUS
<1>1. /\ f # 0 /\ panel' = [panel EXCEPT !.busy = TRUE] /\ Tui!StartRead(f)
      /\ plain' = plain /\ row' = row /\ bytes' = bytes /\ follower' = follower
  BY <1>0 DEF Tui!Poll, Tui!serverVars
<1>2. f \in Made /\ f \in Views
  BY <1>0, <1>1 DEF PanelInv, OnItsBuild, Made
<1>3. /\ panel' \in [build : Ours \cup {None}, follower : Views \cup {0}, busy : BOOLEAN]
      /\ panel'.build = panel.build /\ panel'.follower = f
  BY <1>0, <1>1 DEF PanelInv, PanelTyped
<1>4. /\ thread' \in [Threads -> ThreadType]
      /\ \A t \in Threads :
           \/ thread'[t] = thread[t]
           \/ thread'[t] = [pc |-> "ask", follower |-> f, lines |-> <<>>]
      /\ spoiled \subseteq spoiled' /\ spoiled' \subseteq spoiled \cup {f}
      /\ \A g \in Views \ spoiled' :
           Alone(thread', g) /\ ComingIn(thread', g) = ComingIn(thread, g)
  BY <1>1, <1>2, ReadStarts DEF PanelInv
<1>5. PanelTyped'
  BY <1>1, <1>2, <1>3, <1>4 DEF PanelInv, PanelTyped
<1>6. MadeInTurn'
  <2>1. Made' = Made
    BY <1>1 DEF Made
  <2>2. ASSUME NEW g \in Made
        PROVE  \E text : Kept!Follows(follower[g].build, follower[g], text)'
    <3>1. PICK text : Kept!Follows(follower[g].build, follower[g], text)
      BY DEF PanelInv, MadeInTurn
    <3>2. Kept!Follows(follower[g].build, follower[g], text)'
      BY <1>1, <3>1 DEF Kept!Follows, Kept!ShowsTheLog
    <3> QED
      BY <3>2
  <2> QED
    BY <2>1, <2>2 DEF PanelInv, MadeInTurn
<1>7. AtWork'
  BY <1>1, <1>2, <1>4 DEF PanelInv, AtWork, Made
<1>8. ReadAlone'
  BY <1>4 DEF ReadAlone
<1>9. OnItsBuild'
  BY <1>0, <1>1, <1>2, <1>3 DEF OnItsBuild, PanelInv, Made
<1>10. ShowsAll'
  <2>1. ASSUME f \notin spoiled'
        PROVE  Kept!Follows(follower[f].build, follower[f], plain \o ComingIn(thread, f))'
    <3>1. ComingIn(thread', f) = ComingIn(thread, f) /\ f \notin spoiled
      BY <1>2, <1>4, <2>1
    <3>2. Kept!Follows(follower[f].build, follower[f], plain \o ComingIn(thread, f))
      BY <1>0, <1>1, <3>1 DEF PanelInv, ShowsAll
    <3> QED
      BY <1>1, <3>1, <3>2 DEF Kept!Follows, Kept!ShowsTheLog
  <2> QED
    BY <1>1, <1>3, <2>1 DEF ShowsAll
<1> QED
  BY <1>5, <1>6, <1>7, <1>8, <1>9, <1>10 DEF PanelInv

\* One more answer to a read: what the thread has on its way grows by its lines.
LEMMA ReadIsShown ==
    ASSUME PanelInv, NEW t \in Threads, Tui!Read(t)
    PROVE  PanelInv'
<1>1. PICK f : f = thread[t].follower
  OBVIOUS
<1>2. /\ thread[t].pc = "ask"
      /\ \E a \in {Tui!Chunk(follower[f].build, follower[f].offset)} :
           /\ follower' = [follower EXCEPT ![f] = Tui!After(@, a)]
           /\ thread' = [thread EXCEPT
                ![t] = [pc |-> IF Tui!GoesOn(follower[f], a) THEN "ask" ELSE "read",
                        follower |-> f, lines |-> @.lines \o Tui!Lines(follower[f], a)]]
      /\ panel' = panel /\ plain' = plain /\ spoiled' = spoiled
      /\ row' = row /\ bytes' = bytes
  BY <1>1 DEF Tui!Read, Tui!serverVars
<1>3. PICK a : /\ a = Tui!Chunk(follower[f].build, follower[f].offset)
               /\ follower' = [follower EXCEPT ![f] = Tui!After(@, a)]
               /\ thread' = [thread EXCEPT
                    ![t] = [pc |-> IF Tui!GoesOn(follower[f], a) THEN "ask" ELSE "read",
                            follower |-> f, lines |-> @.lines \o Tui!Lines(follower[f], a)]]
  BY <1>2
<1>4. PICK more : more = Tui!Lines(follower[f], a)
  OBVIOUS
<1>5. PICK r : r = [pc |-> IF Tui!GoesOn(follower[f], a) THEN "ask" ELSE "read",
                    follower |-> f, lines |-> thread[t].lines \o more]
  OBVIOUS
<1>6. f \in Made /\ f \in Views /\ f # 0
  BY <1>1, <1>2, ViewsAre DEF PanelInv, AtWork, Made
<1>7. thread \in [Threads -> ThreadType] /\ follower \in [Views -> FollowerType \cup {None}]
  BY DEF PanelInv, PanelTyped
<1>8. thread' = [thread EXCEPT ![t] = r]
  BY <1>3, <1>4, <1>5, <1>7
<1>9. PICK now : now = Tui!After(follower[f], a)
  OBVIOUS
<1>10. follower' = [follower EXCEPT ![f] = now]
  BY <1>3, <1>6, <1>7, <1>9
<1>11. PICK b \in Ours : b = follower[f].build
  BY <1>6, <1>7, NoneIsNone DEF Made, FollowerType, Ours
<1>12. ASSUME NEW text, Kept!Follows(b, follower[f], text)
       PROVE  Kept!Follows(b, now, text \o more) /\ more \in Seq(Nat)
  BY <1>3, <1>4, <1>9, <1>11, <1>12, PanelReads DEF PanelInv, PanelTyped
<1>13. PICK old : Kept!Follows(b, follower[f], old)
  BY <1>6, <1>11 DEF PanelInv, MadeInTurn
<1>14. Kept!Follows(b, now, old \o more) /\ more \in Seq(Nat)
  BY <1>12, <1>13
<1>15. now \in FollowerType /\ now.build = b
  BY <1>11, <1>14 DEF Kept!Follows, FollowerType, Kept!Statuses, Ours
<1>16. r \in ThreadType /\ r.follower = f /\ r.lines = thread[t].lines \o more
  <2>1. thread[t].lines \in Seq(Nat)
    BY <1>7 DEF ThreadType
  <2>2. thread[t].lines \o more \in Seq(Nat)
    BY <1>14, <2>1
  <2> QED
    BY <1>5, <1>6, <2>2 DEF ThreadType
<1>17. Made' = Made
  BY <1>6, <1>7, <1>10, <1>15, NoneIsNone DEF Made
<1>18. PanelTyped'
  <2>1. thread' \in [Threads -> ThreadType]
    BY <1>7, <1>8, <1>16
  <2>2. follower' \in [Views -> FollowerType \cup {None}]
    BY <1>7, <1>10, <1>15
  <2> QED
    BY <1>2, <2>1, <2>2 DEF PanelInv, PanelTyped
<1>19. MadeInTurn'
  <2>1. ASSUME NEW g \in Made
        PROVE  \E text : Kept!Follows(follower[g].build, follower[g], text)'
    <3>1. CASE g = f
      <4>1. follower'[g] = now
        BY <1>6, <1>7, <1>10, <3>1
      <4>2. Kept!Follows(follower[g].build, follower[g], old \o more)'
        BY <1>2, <1>14, <1>15, <4>1 DEF Kept!Follows, Kept!ShowsTheLog
      <4> QED
        BY <4>2
    <3>2. CASE g # f
      <4>1. follower'[g] = follower[g]
        BY <1>7, <1>10, <3>2 DEF Made
      <4>2. PICK text : Kept!Follows(follower[g].build, follower[g], text)
        BY DEF PanelInv, MadeInTurn
      <4>3. Kept!Follows(follower[g].build, follower[g], text)'
        BY <1>2, <4>1, <4>2 DEF Kept!Follows, Kept!ShowsTheLog
      <4> QED
        BY <4>3
    <3> QED
      BY <3>1, <3>2
  <2> QED
    BY <1>17, <2>1 DEF PanelInv, MadeInTurn
<1>20. AtWork'
  <2>1. r.pc \in {"ask", "read"}
    BY <1>5
  <2>2. thread'[t] = r /\ \A u \in Threads : u # t => thread'[u] = thread[u]
    BY <1>7, <1>8
  <2> QED
    BY <1>6, <1>16, <1>17, <2>1, <2>2 DEF PanelInv, AtWork
<1>21. ReadAlone'
  BY <1>1, <1>2, <1>8, <1>16, ReadGoesOn DEF PanelInv, ReadAlone
<1>22. OnItsBuild'
  BY <1>2, <1>17 DEF PanelInv, OnItsBuild
<1>23. ShowsAll'
  <2>1. PICK g : g = panel.follower
    OBVIOUS
  <2>2. ASSUME g # 0, g \notin spoiled
        PROVE  Kept!Follows(follower[g].build, follower[g], plain \o ComingIn(thread, g))'
    <3>1. g \in Views
      BY <2>1, <2>2 DEF PanelInv, PanelTyped
    <3>2. Kept!Follows(follower[g].build, follower[g], plain \o ComingIn(thread, g))
      BY <2>1, <2>2 DEF PanelInv, ShowsAll
    <3>3. /\ ComingIn(thread', g) = IF f # g THEN ComingIn(thread, g) ELSE r.lines
          /\ f = g => ComingIn(thread, g) = thread[t].lines
      <4>1. r.follower \in {thread[t].follower, 0} /\ g \in Views \ spoiled
        BY <1>1, <1>16, <2>2, <3>1
      <4>2. /\ ComingIn(thread', g) = IF thread[t].follower # g THEN ComingIn(thread, g)
                                      ELSE IF r.follower = g THEN r.lines ELSE <<>>
            /\ thread[t].follower = g => ComingIn(thread, g) = thread[t].lines
        BY <1>8, <1>16, <4>1, ReadGoesOn DEF PanelInv
      <4> QED
        BY <1>1, <1>16, <4>2
    <3>4. CASE g # f
      <4>1. follower'[g] = follower[g] /\ ComingIn(thread', g) = ComingIn(thread, g)
        BY <1>7, <1>10, <3>1, <3>3, <3>4
      <4> QED
        BY <1>2, <3>2, <4>1 DEF Kept!Follows, Kept!ShowsTheLog
    <3>5. CASE g = f
      <4>1. follower'[g] = now /\ ComingIn(thread', g) = thread[t].lines \o more
        BY <1>6, <1>7, <1>10, <1>16, <3>3, <3>5
      <4>2. Kept!Follows(b, follower[f], plain \o thread[t].lines)
        BY <1>11, <3>2, <3>3, <3>5
      <4>3. Kept!Follows(b, now, (plain \o thread[t].lines) \o more)
        BY <1>12, <4>2
      <4>4. (plain \o thread[t].lines) \o more = plain \o (thread[t].lines \o more)
        <5>1. plain \in Seq(Nat) /\ thread[t].lines \in Seq(Nat) /\ more \in Seq(Nat)
          BY <1>7, <1>14 DEF PanelInv, PanelTyped, ThreadType
        <5> QED
          BY <5>1, Kept!TextsJoin
      <4> QED
        BY <1>2, <1>15, <4>1, <4>3, <4>4 DEF Kept!Follows, Kept!ShowsTheLog
    <3> QED
      BY <3>4, <3>5
  <2> QED
    BY <1>2, <2>1, <2>2 DEF ShowsAll
<1> QED
  BY <1>18, <1>19, <1>20, <1>21, <1>22, <1>23 DEF PanelInv

\* What followers have read is still a piece of their logs.
LEMMA StillInTurn ==
    ASSUME PanelInv, UNCHANGED follower, bytes' \in [Ours -> 0..PanelSize],
           \A b \in Ours : bytes'[b] >= bytes[b]
    PROVE  /\ MadeInTurn' /\ Made' = Made
           /\ \A g \in Made : \A text : Kept!Follows(follower[g].build, follower[g], text)
                                      => Kept!Follows(follower[g].build, follower[g], text)'
<1>1. Made' = Made
  BY DEF Made
<1>2. ASSUME NEW g \in Made, NEW text, Kept!Follows(follower[g].build, follower[g], text)
      PROVE  Kept!Follows(follower[g].build, follower[g], text)'
  <2>1. PICK b \in Ours : b = follower[g].build
    BY NoneIsNone DEF Made, PanelInv, PanelTyped, FollowerType, Ours
  <2>2. PICK f : f = follower[g]
    OBVIOUS
  <2>3. Kept!Follows(b, f, text)'
    BY <1>2, <2>1, <2>2, FollowsStill DEF PanelInv, PanelTyped
  <2> QED
    BY <2>1, <2>2, <2>3 DEF Kept!Follows, Kept!ShowsTheLog
<1>3. ASSUME NEW g \in Made
      PROVE  \E text : Kept!Follows(follower[g].build, follower[g], text)'
  <2>1. PICK text : Kept!Follows(follower[g].build, follower[g], text)
    BY DEF PanelInv, MadeInTurn
  <2> QED
    BY <1>2, <2>1
<1> QED
  BY <1>1, <1>2, <1>3 DEF PanelInv, MadeInTurn

\* As long as the logs stay as they are.
LEMMA BytesStay ==
    ASSUME PanelInv, UNCHANGED bytes
    PROVE  bytes' \in [Ours -> 0..PanelSize] /\ \A b \in Ours : bytes'[b] >= bytes[b]
BY PanelAssumption DEF PanelInv, PanelTyped

\* A read breaks off: what it had is lost, and then its follower is spoiled.
LEMMA BreakIsShown ==
    ASSUME PanelInv, NEW t \in Threads, Tui!Breaks(t)
    PROVE  PanelInv'
<1>1. PICK f : f = thread[t].follower
  OBVIOUS
<1>2. /\ thread[t].pc = "ask"
      /\ thread' = [thread EXCEPT ![t].pc = "failed", ![t].lines = <<>>]
      /\ spoiled' = spoiled \cup (IF thread[t].lines = <<>> THEN {} ELSE {f})
      /\ panel' = panel /\ plain' = plain /\ follower' = follower
      /\ row' = row /\ bytes' = bytes
  BY <1>1 DEF Tui!Breaks, Tui!serverVars
<1>3. thread \in [Threads -> ThreadType]
  BY DEF PanelInv, PanelTyped
<1>4. f \in Made /\ f \in Views
  BY <1>1, <1>2 DEF PanelInv, AtWork, Made
<1>5. PICK r : r = [pc |-> "failed", follower |-> f, lines |-> <<>>]
  OBVIOUS
<1>6. r \in ThreadType /\ r.follower = f /\ r.lines = <<>> /\ r.pc = "failed"
  BY <1>4, <1>5, NothingShown DEF ThreadType
<1>7. thread' = [thread EXCEPT ![t] = r]
  <2>1. thread' \in [Threads -> ThreadType]
    <3>1. [thread EXCEPT ![t].pc = "failed"] \in [Threads -> ThreadType]
      BY <1>3 DEF ThreadType
    <3> DEFINE one == [thread EXCEPT ![t].pc = "failed"]
    <3>2. thread' = [one EXCEPT ![t].lines = <<>>]
      BY <1>2
    <3> HIDE DEF one
    <3>3. one \in [Threads -> ThreadType]
      BY <3>1 DEF one
    <3> QED
      BY <3>2, <3>3, NothingShown DEF ThreadType
  <2>2. thread'[t].pc = "failed" /\ thread'[t].follower = f /\ thread'[t].lines = <<>>
    BY <1>1, <1>2, <1>3 DEF ThreadType
  <2>3. \A u \in Threads : u # t => thread'[u] = thread[u]
    BY <1>2, <1>3
  <2>4. thread'[t] = r
    BY <1>6, <2>1, <2>2 DEF ThreadType
  <2>5. [thread EXCEPT ![t] = r] \in [Threads -> ThreadType]
    BY <1>3, <1>6
  <2> QED
    BY <1>3, <2>1, <2>3, <2>4, <2>5
<1>8. /\ MadeInTurn' /\ Made' = Made
      /\ \A g \in Made : \A text : Kept!Follows(follower[g].build, follower[g], text)
                                 => Kept!Follows(follower[g].build, follower[g], text)'
  BY <1>2, BytesStay, StillInTurn
<1>9. PanelTyped'
  <2>1. thread' \in [Threads -> ThreadType] /\ spoiled' \subseteq Views
    BY <1>2, <1>3, <1>4, <1>6, <1>7 DEF PanelInv, PanelTyped
  <2> QED
    BY <1>2, <2>1 DEF PanelInv, PanelTyped
<1>10. AtWork'
  <2>1. thread'[t] = r /\ \A u \in Threads : u # t => thread'[u] = thread[u]
    BY <1>3, <1>7
  <2> QED
    BY <1>4, <1>6, <1>8, <2>1 DEF PanelInv, AtWork
<1>11. ASSUME NEW g \in Views \ spoiled'
       PROVE  Alone(thread', g) /\ ComingIn(thread', g) = ComingIn(thread, g)
  <2>1. g \in Views \ spoiled /\ (g = f => thread[t].lines = <<>>)
    BY <1>2
  <2>2. r.follower \in {thread[t].follower, 0}
    BY <1>1, <1>6
  <2>3. /\ Alone(thread', g)
        /\ ComingIn(thread', g) = IF thread[t].follower # g THEN ComingIn(thread, g)
                                  ELSE IF r.follower = g THEN r.lines ELSE <<>>
        /\ thread[t].follower = g => ComingIn(thread, g) = thread[t].lines
    BY <1>6, <1>7, <2>1, <2>2, ReadGoesOn DEF PanelInv
  <2> QED
    BY <1>1, <1>6, <2>1, <2>3
<1>12. ReadAlone'
  BY <1>11 DEF ReadAlone
<1>13. OnItsBuild'
  BY <1>2, <1>8 DEF PanelInv, OnItsBuild
<1>14. ShowsAll'
  <2>1. PICK g : g = panel.follower
    OBVIOUS
  <2>2. ASSUME g # 0, g \notin spoiled'
        PROVE  Kept!Follows(follower[g].build, follower[g], plain \o ComingIn(thread, g))'
    <3>1. g \in Views \ spoiled' /\ g \in Made
      BY <2>1, <2>2 DEF PanelInv, PanelTyped, OnItsBuild
    <3>2. g \notin spoiled
      BY <1>2, <2>2
    <3>3. Kept!Follows(follower[g].build, follower[g], plain \o ComingIn(thread, g))
      BY <2>1, <2>2, <3>2 DEF PanelInv, ShowsAll
    <3>4. plain' \o ComingIn(thread', g) = plain \o ComingIn(thread, g)
      BY <1>2, <1>11, <3>1
    <3> QED
      BY <1>2, <3>3, <3>4 DEF Kept!Follows, Kept!ShowsTheLog
  <2> QED
    BY <1>2, <2>1, <2>2 DEF ShowsAll
<1> QED
  BY <1>8, <1>9, <1>10, <1>12, <1>13, <1>14 DEF PanelInv

\* The lines of a read come to the panel: they are shown there, if they are its
\* follower's, and are no longer on their way.
LEMMA DeliveryIsShown ==
    ASSUME PanelInv, NEW t \in Threads, Tui!Deliver(t)
    PROVE  PanelInv'
<1>1. PICK f : f = thread[t].follower
  OBVIOUS
<1>2. /\ thread[t].pc \in {"read", "failed"}
      /\ panel' = [panel EXCEPT !.busy = FALSE]
      /\ plain' = IF thread[t].pc = "read" /\ f = panel.follower
                  THEN plain \o thread[t].lines ELSE plain
      /\ thread' = [thread EXCEPT ![t] = Tui!Idle]
      /\ follower' = follower /\ spoiled' = spoiled
      /\ row' = row /\ bytes' = bytes
  BY <1>1 DEF Tui!Deliver, Tui!Wanted, Tui!serverVars
<1>3. thread \in [Threads -> ThreadType] /\ plain \in Seq(Nat)
  BY DEF PanelInv, PanelTyped
<1>4. f \in Made /\ f \in Views /\ f # 0
  BY <1>1, <1>2, ViewsAre DEF PanelInv, AtWork, Made
<1>5. PICK r : r = Tui!Idle
  OBVIOUS
<1>6. r \in ThreadType /\ r.follower = 0 /\ r.lines = <<>> /\ r.pc = "idle"
  BY <1>5, NothingShown DEF ThreadType, Tui!Idle
<1>7. thread' = [thread EXCEPT ![t] = r]
  BY <1>2, <1>5
<1>8. /\ panel' \in [build : Ours \cup {None}, follower : Views \cup {0}, busy : BOOLEAN]
      /\ panel'.build = panel.build /\ panel'.follower = panel.follower
  BY <1>2 DEF PanelInv, PanelTyped
<1>9. /\ MadeInTurn' /\ Made' = Made
      /\ \A g \in Made : \A text : Kept!Follows(follower[g].build, follower[g], text)
                                     => Kept!Follows(follower[g].build, follower[g], text)'
  BY <1>2, BytesStay, StillInTurn
<1>10. thread[t].lines \in Seq(Nat) /\ (thread[t].pc = "failed" => thread[t].lines = <<>>)
  BY <1>3 DEF PanelInv, AtWork, ThreadType
<1>11. PanelTyped'
  <2>1. thread' \in [Threads -> ThreadType]
    BY <1>3, <1>6, <1>7
  <2>2. plain' \in Seq(Nat)
    BY <1>2, <1>3, <1>10
  <2> QED
    BY <1>2, <1>8, <2>1, <2>2 DEF PanelInv, PanelTyped
<1>12. AtWork'
  <2>1. thread'[t] = r /\ \A u \in Threads : u # t => thread'[u] = thread[u]
    BY <1>3, <1>7
  <2> QED
    BY <1>6, <1>9, <2>1 DEF PanelInv, AtWork
<1>13. ASSUME NEW g \in Views \ spoiled
       PROVE  /\ Alone(thread', g)
              /\ ComingIn(thread', g) = IF g = f THEN <<>> ELSE ComingIn(thread, g)
              /\ g = f => ComingIn(thread, g) = thread[t].lines
  <2>1. r.follower \in {thread[t].follower, 0}
    BY <1>6
  <2>2. /\ Alone(thread', g)
        /\ ComingIn(thread', g) = IF thread[t].follower # g THEN ComingIn(thread, g)
                                  ELSE IF r.follower = g THEN r.lines ELSE <<>>
        /\ thread[t].follower = g => ComingIn(thread, g) = thread[t].lines
    BY <1>6, <1>7, <2>1, ReadGoesOn DEF PanelInv
  <2> QED
    BY <1>1, <1>6, <2>2
<1>14. ReadAlone'
  BY <1>2, <1>13 DEF ReadAlone
<1>15. OnItsBuild'
  <2>1. panel.follower = 0 => plain' = plain
    BY <1>2, <1>4
  <2> QED
    BY <1>8, <1>9, <2>1 DEF PanelInv, OnItsBuild
<1>16. ShowsAll'
  <2>1. PICK g : g = panel.follower
    OBVIOUS
  <2>2. ASSUME g # 0, g \notin spoiled'
        PROVE  Kept!Follows(follower[g].build, follower[g], plain \o ComingIn(thread, g))'
    <3>1. g \in Views \ spoiled /\ g \in Made
      BY <1>2, <2>1, <2>2 DEF PanelInv, PanelTyped, OnItsBuild
    <3>2. Kept!Follows(follower[g].build, follower[g], plain \o ComingIn(thread, g))
      BY <2>1, <2>2, <3>1 DEF PanelInv, ShowsAll
    <3>3. plain' \o ComingIn(thread', g) = plain \o ComingIn(thread, g)
      <4>1. CASE g # f
        <5>1. plain' = plain /\ ComingIn(thread', g) = ComingIn(thread, g)
          BY <1>2, <1>13, <2>1, <3>1, <4>1
        <5> QED
          BY <5>1
      <4>2. CASE g = f
        <5>1. ComingIn(thread', g) = <<>> /\ ComingIn(thread, g) = thread[t].lines
          BY <1>13, <3>1, <4>2
        <5>2. plain' = plain \o thread[t].lines
          <6>1. CASE thread[t].pc = "read"
            BY <1>2, <2>1, <4>2, <6>1
          <6>2. CASE thread[t].pc = "failed"
            <7>1. plain' = plain /\ thread[t].lines = <<>>
              BY <1>2, <1>10, <6>2
            <7> QED
              BY <1>3, <7>1, NothingShown
          <6> QED
            BY <1>2, <6>1, <6>2
        <5>3. plain' \o <<>> = plain'
          <6>1. plain' \in Seq(Nat)
            BY <1>11 DEF PanelTyped
          <6> QED
            BY <6>1, NothingShown
        <5> QED
          BY <5>1, <5>2, <5>3
      <4> QED
        BY <4>1, <4>2
    <3> QED
      BY <1>2, <1>9, <3>1, <3>2, <3>3 DEF Kept!Follows, Kept!ShowsTheLog
  <2> QED
    BY <1>8, <2>1, <2>2 DEF ShowsAll
<1> QED
  BY <1>9, <1>11, <1>12, <1>14, <1>15, <1>16 DEF PanelInv

\* What the server does to a build.
LEMMA LogOfPanelGrows ==
    ASSUME PanelInv, NEW b \in Ours, Tui!ServerStep(b)
    PROVE  /\ row' \in [Ours -> Kept!Statuses]
           /\ bytes' \in [Ours -> 0..PanelSize]
           /\ \A c \in Ours : bytes'[c] >= bytes[c]
<1>1. row \in [Ours -> Kept!Statuses] /\ bytes \in [Ours -> 0..PanelSize] /\ PanelSize \in Nat
  BY PanelAssumption DEF PanelInv, PanelTyped
<1>2. CASE Tui!Emit(b)
  <2> DEFINE ends == {n \in PanelNewlines \cup {PanelSize} : n > bytes[b]}
  <2>1. bytes' = [bytes EXCEPT ![b] = Tui!Min(ends)] /\ row' = row /\ bytes[b] < PanelSize
    BY <1>2 DEF Tui!Emit
  <2>2. bytes[b] \in Nat
    BY <1>1
  <2>3. ends \in SUBSET Nat /\ ends # {}
    <3>1. PanelSize \in ends
      BY <1>1, <2>1, <2>2
    <3>2. PanelNewlines \subseteq Nat
      BY PanelAssumption
    <3> QED
      BY <1>1, <3>1, <3>2
  <2>4. Kept!Min(ends) \in ends
    <3> HIDE DEF ends
    <3> QED
      BY <2>3, Kept!MinOf
  <2>5. Tui!Min(ends) = Kept!Min(ends)
    BY Zenon DEF Tui!Min, Kept!Min
  <2>6. PICK e : e = Tui!Min(ends) /\ e \in ends
    BY <2>4, <2>5
  <2>7. e \in 0..PanelSize /\ e > bytes[b]
    BY <1>1, <2>2, <2>6, PanelAssumption
  <2>8. bytes' = [bytes EXCEPT ![b] = e]
    BY <2>1, <2>6
  <2>9. \A c \in Ours : bytes[c] \in Nat
    BY <1>1
  <2> HIDE DEF ends
  <2> QED
    BY <1>1, <2>1, <2>7, <2>8, <2>9
<1>3. CASE Tui!Ends(b)
  <2>1. PICK s \in Tui!Ended : Tui!End(b, s)
    BY <1>3 DEF Tui!Ends
  <2>2. s \in Kept!Statuses
    BY PanelLog DEF Tui!Ended
  <2>3. row' = [row EXCEPT ![b] = s] /\ bytes' = bytes
    BY <2>1 DEF Tui!End
  <2> QED
    BY <1>1, <2>2, <2>3
<1>4. CASE Tui!Delete(b)
  <2>1. row' = [row EXCEPT ![b] = "deleted"] /\ bytes' = bytes
    BY <1>4 DEF Tui!Delete
  <2>2. "deleted" \in Kept!Statuses
    BY PanelLog
  <2> QED
    BY <1>1, <2>1, <2>2
<1> QED
  BY <1>2, <1>3, <1>4 DEF Tui!ServerStep

\* A log that grows, ends or goes: what was shown stays a piece of it.
LEMMA ServerIsShown ==
    ASSUME PanelInv, NEW b \in Ours, Tui!ServerStep(b),
           UNCHANGED <<panel, plain, follower, thread, spoiled>>
    PROVE  PanelInv'
<1>1. /\ row' \in [Ours -> Kept!Statuses]
      /\ bytes' \in [Ours -> 0..PanelSize]
      /\ \A c \in Ours : bytes'[c] >= bytes[c]
  BY LogOfPanelGrows
<1>2. /\ MadeInTurn' /\ Made' = Made
      /\ \A g \in Made : \A text : Kept!Follows(follower[g].build, follower[g], text)
                                     => Kept!Follows(follower[g].build, follower[g], text)'
  BY <1>1, StillInTurn
<1>3. PanelTyped'
  BY <1>1 DEF PanelInv, PanelTyped
<1>4. AtWork' /\ ReadAlone' /\ OnItsBuild'
  BY <1>2 DEF PanelInv, AtWork, ReadAlone, OnItsBuild
<1>5. ShowsAll'
  <2>1. PICK g : g = panel.follower
    OBVIOUS
  <2>2. ASSUME g # 0, g \notin spoiled
        PROVE  Kept!Follows(follower[g].build, follower[g], plain \o ComingIn(thread, g))'
    <3>1. g \in Made
      BY <2>1, <2>2 DEF PanelInv, OnItsBuild
    <3>2. Kept!Follows(follower[g].build, follower[g], plain \o ComingIn(thread, g))
      BY <2>1, <2>2 DEF PanelInv, ShowsAll
    <3>3. PICK text : text = plain \o ComingIn(thread, g)
      OBVIOUS
    <3>4. Kept!Follows(follower[g].build, follower[g], text)'
      BY <1>2, <3>1, <3>2, <3>3
    <3> QED
      BY <3>3, <3>4 DEF Kept!Follows, Kept!ShowsTheLog
  <2> QED
    BY <2>1, <2>2 DEF ShowsAll
<1> QED
  BY <1>2, <1>3, <1>4, <1>5 DEF PanelInv

\* PanelInv is inductive and means what the panel promises.
LEMMA PanelStarts ==
    ASSUME Tui!PanelInit
    PROVE  PanelInv
<1>1. /\ panel.build = None /\ panel.follower = 0
      /\ panel \in [build : Ours \cup {None}, follower : Views \cup {0}, busy : BOOLEAN]
      /\ plain = <<>> /\ spoiled = {}
      /\ follower = [f \in Views |-> None]
      /\ thread = [t \in Threads |-> Tui!Idle]
  BY DEF Tui!PanelInit, Tui!NoBuild
<1>2. row \in [Ours -> Kept!Statuses] /\ bytes \in [Ours -> 0..PanelSize]
  <2>1. Tui!ServerInit({b1, b2} \ {b1}, {b1})
    BY DEF Tui!PanelInit
  <2> QED
    BY <2>1, PanelLog, PanelAssumption DEF Tui!ServerInit, Ours
<1>3. Tui!Idle \in ThreadType /\ Tui!Idle.pc = "idle" /\ Tui!Idle.follower = 0
      /\ Tui!Idle.lines = <<>>
  BY NothingShown DEF Tui!Idle, ThreadType
<1>4. Made = {} /\ Made = 1..Cardinality(Made)
  <2>1. Made = {}
    BY <1>1 DEF Made
  <2>2. Cardinality({}) = 0
    BY FS_EmptySet
  <2> QED
    BY <2>1, <2>2
<1>5. PanelTyped
  BY <1>1, <1>2, <1>3, NothingShown DEF PanelTyped
<1>6. MadeInTurn
  BY <1>4 DEF MadeInTurn
<1>7. AtWork /\ OnItsBuild /\ ShowsAll
  BY <1>1, <1>3 DEF AtWork, OnItsBuild, ShowsAll
<1>8. ReadAlone
  BY <1>1, <1>3, ViewsAre DEF ReadAlone, Alone
<1> QED
  BY <1>5, <1>6, <1>7, <1>8 DEF PanelInv

LEMMA PanelKeeps ==
    ASSUME PanelInv,
           Tui!PanelNext \/ UNCHANGED <<row, bytes, panel, plain, follower, thread, spoiled>>
    PROVE  PanelInv'
<1>1. ASSUME NEW b \in Ours, Tui!ShowBuild(b)
      PROVE  PanelInv'
  BY <1>1, BuildIsShown
<1>2. ASSUME NEW t \in Threads, Tui!Read(t) \/ Tui!Breaks(t) \/ Tui!Deliver(t)
      PROVE  PanelInv'
  BY <1>2, ReadIsShown, BreakIsShown, DeliveryIsShown
<1>3. ASSUME NEW b \in Ours, Tui!ServerStep(b), UNCHANGED Tui!tuiVars
      PROVE  PanelInv'
  BY <1>3, ServerIsShown DEF Tui!tuiVars, Tui!panelVars
<1>4. CASE UNCHANGED <<row, bytes, panel, plain, follower, thread, spoiled>>
  <2>1. MadeInTurn' /\ Made' = Made
    BY <1>4, BytesStay, StillInTurn
  <2>2. PanelTyped' /\ AtWork' /\ ReadAlone' /\ OnItsBuild'
    BY <1>4, <2>1 DEF PanelInv, PanelTyped, AtWork, ReadAlone, OnItsBuild
  <2>3. ShowsAll'
    BY <1>4 DEF PanelInv, ShowsAll, Kept!Follows, Kept!ShowsTheLog
  <2> QED
    BY <2>1, <2>2, <2>3 DEF PanelInv
<1> QED
  BY <1>1, <1>2, <1>3, <1>4, EmptyIsShown, PollIsShown DEF Tui!PanelNext, Ours

LEMMA PanelMeans ==
    ASSUME PanelInv
    PROVE  Tui!PanelTypeOK /\ Tui!PanelShowsTheLog
<1>1. Tui!PanelTypeOK
  BY DEF PanelInv, PanelTyped, ThreadType, Tui!PanelTypeOK, Ours
<1>2. \A f : Tui!Coming(f) = ComingIn(thread, f)
  BY Zenon DEF Tui!Coming, ComingIn
<1>3. PICK f : f = panel.follower
  OBVIOUS
<1>4. ASSUME f # 0, f \notin spoiled
      PROVE  Tui!ShowsTheLog(follower[f], plain \o Tui!Coming(f))
  <2>1. Kept!Follows(follower[f].build, follower[f], plain \o ComingIn(thread, f))
    BY <1>3, <1>4 DEF PanelInv, ShowsAll
  <2>2. Kept!ShowsTheLog(follower[f], plain \o ComingIn(thread, f))
    BY <2>1 DEF Kept!Follows
  <2> QED
    BY <1>2, <2>2, SameText
<1>5. panel.build = None => plain = <<>>
  BY DEF PanelInv, OnItsBuild
<1> QED
  BY <1>1, <1>3, <1>4, <1>5 DEF Tui!PanelShowsTheLog
-----------------------------------------------------------------------------
\* The page of a build.
LEMMA PageKeeps ==
    ASSUME Tui!PageTypeOK, Tui!PageNext \/ UNCHANGED <<job, page, answers, failures>>
    PROVE  Tui!PageTypeOK'
<1> USE DEF Tui!PageTypeOK, Tui!States
<1>1. ASSUME NEW j \in Jobs, Tui!JobEnds(j)
      PROVE  Tui!PageTypeOK'
  BY <1>1 DEF Tui!JobEnds
<1>2. ASSUME NEW j \in Jobs, Tui!Fetch(j)
      PROVE  Tui!PageTypeOK'
  <2>1. /\ job' = job /\ page' = page
        /\ \/ answers' = [answers EXCEPT ![j] = @ \cup {job[j]}]
           \/ answers' = [answers EXCEPT ![j] = @ \cup {"unread"}]
           \/ answers' = answers
        /\ failures' = failures \/ (failures < PanelLost /\ failures' = failures + 1)
    BY <1>2 DEF Tui!Fetch
  <2>2. failures' \in 0..PanelLost
    BY <2>1, PanelAssumption
  <2>3. answers' \in [Jobs -> SUBSET {"active", "finished", "unread"}]
    BY <2>1
  <2> QED
    BY <2>1, <2>2, <2>3
<1>3. ASSUME NEW j \in Jobs, Tui!Show(j)
      PROVE  Tui!PageTypeOK'
  <2>1. PICK a \in answers[j] :
          /\ page' = [page EXCEPT ![j] = a]
          /\ answers' = [answers EXCEPT ![j] = @ \ {a}]
          /\ job' = job /\ failures' = failures
    BY <1>3 DEF Tui!Show
  <2> QED
    BY <2>1
<1> QED
  BY <1>1, <1>2, <1>3 DEF Tui!PageNext, Tui!Reload, Tui!Tick
-----------------------------------------------------------------------------
\* A command as the scenes and as the theorems name it.
LEMMA SameInit == Command!CommandInit <=> Told!CommandInit
BY Zenon DEF Told!CommandInit, Command!CommandInit, Told!Starting, Command!Starting, Told!Round,
  Command!Round, Told!WithLog, Command!WithLog, Told!ServerInit, Command!ServerInit,
  Told!NewFollower, Command!NewFollower, Told!NoResult, Command!NoResult

LEMMA SameNext == Command!CommandNext <=> Told!CommandNext
BY Zenon DEF
  Told!AllKinds, Command!AllKinds, Told!Starting, Command!Starting, Told!Reading,
  Command!Reading, Told!WithLog, Command!WithLog, Told!NoResult, Command!NoResult,
  Told!Round, Command!Round, Told!CommandInit, Command!CommandInit, Told!Exit,
  Command!Exit, Told!KeepsWaiting, Command!KeepsWaiting, Told!Waits, Command!Waits,
  Told!Repeatable, Command!Repeatable, Told!ReachesServer, Command!ReachesServer,
  Told!NeverArrives, Command!NeverArrives, Told!LosesAnswer, Command!LosesAnswer,
  Told!Loses, Command!Loses, Told!Answered, Command!Answered, Told!FindProject,
  Command!FindProject, Told!Accepted, Command!Accepted, Told!Refused, Command!Refused,
  Told!Gone, Command!Gone, Told!Verdict, Command!Verdict, Told!ReadLog, Command!ReadLog,
  Told!ReadBuild, Command!ReadBuild, Told!Interrupt, Command!Interrupt, Told!Command,
  Command!Command, Told!Result, Command!Result, Told!Server, Command!Server,
  Told!CommandNext, Command!CommandNext, Told!serverVars, Command!serverVars,
  Told!commandVars, Command!commandVars, Told!Ended, Command!Ended, Told!ServerInit,
  Command!ServerInit, Told!Emit, Command!Emit, Told!End, Command!End, Told!Delete,
  Command!Delete, Told!Ends, Command!Ends, Told!Bytes, Command!Bytes, Told!LineEnds,
  Command!LineEnds, Told!Start, Command!Start, Told!FirstLine, Command!FirstLine,
  Told!WholeLines, Command!WholeLines, Told!Chunk, Command!Chunk, Told!NewFollower,
  Command!NewFollower, Told!LastEnd, Command!LastEnd, Told!Joined, Command!Joined,
  Told!Given, Command!Given, Told!Lines, Command!Lines, Told!After, Command!After,
  Told!GoesOn, Command!GoesOn, Told!Min, Command!Min, Told!Max, Command!Max,
  Told!ShowsTheLog, Command!ShowsTheLog, Told!OnlyWholeLines, Command!OnlyWholeLines

LEMMA SameVerdict ==
    /\ Command!ToldIsTrue <=> Told!ToldIsTrue
    /\ Command!CommandTypeOK <=> Told!CommandTypeOK
    /\ Command!CommandShowsTheLog <=> Told!CommandShowsTheLog
BY Zenon DEF Command!ToldIsTrue, Told!ToldIsTrue, Command!CommandTypeOK, Told!CommandTypeOK,
  Command!AllKinds, Told!AllKinds, Command!Starting, Told!Starting, Command!Reading, Told!Reading,
  Command!CommandShowsTheLog, Told!CommandShowsTheLog, Command!ShowsTheLog, Told!ShowsTheLog,
  Command!OnlyWholeLines, Told!OnlyWholeLines, Command!Bytes, Told!Bytes

\* The scenes' logs and limits are what the theorems about commands ask for.
LEMMA CommandLog == Told!Sensible /\ Told!ALog /\ Attempts \in Nat /\ MaxLost \in Nat
<1>1. Told!AllKinds = Command!AllKinds
  BY Zenon DEF Told!AllKinds, Command!AllKinds, Told!Starting, Command!Starting,
               Told!Reading, Command!Reading
<1> QED
  BY <1>1, ClientAssumption DEF Told!Sensible, Told!ALog, Told!Statuses

\* What holds in each scene.
SceneInv ==
    /\ scene = "command" => Told!CommandInv /\ Told!LogInv /\ Told!TypesInv
    /\ scene = "panel" => PanelInv
    /\ scene = "page" => Tui!PageTypeOK

\* The scenes keep what holds in them.
LEMMA ScenesStart == MCInit => SceneInv
<1> SUFFICES ASSUME MCInit PROVE SceneInv
  OBVIOUS
<1>1. scene = "command" => Told!CommandInit
  BY SameInit DEF MCInit
<1>2. scene = "panel" => Tui!PanelInit
  BY DEF MCInit
<1>3. scene = "page" => Tui!PageInit /\ failures = 0
  BY DEF MCInit
<1>4. scene = "page" => Tui!PageTypeOK
  BY <1>3, PanelAssumption DEF Tui!PageInit, Tui!PageTypeOK, Tui!States
<1>5. Told!CommandInit => Told!CommandInv /\ Told!LogInv /\ Told!TypesInv
  BY CommandLog, Told!CommandStarts, Told!LogStarts, Told!TypesStart
<1> QED
  BY <1>1, <1>2, <1>4, <1>5, PanelStarts DEF SceneInv

LEMMA ScenesKeep == SceneInv /\ [MCNext]_all => SceneInv'
<1> SUFFICES ASSUME SceneInv, [MCNext]_all PROVE SceneInv'
  OBVIOUS
<1>1. scene' = scene
  BY DEF MCNext, all, LogScene, CommandScene, PanelScene, PageScene
<1>2. CASE scene = "command"
  <2>1. Command!CommandNext \/ UNCHANGED <<serverVars, commandVars>>
    BY <1>2 DEF MCNext, all, LogScene, CommandScene, PanelScene, PageScene
  <2>2. [Told!CommandNext]_<<Told!serverVars, Told!commandVars>>
    BY <2>1, SameNext DEF serverVars, commandVars, Told!serverVars, Told!commandVars
  <2>3. Told!CommandInv /\ Told!LogInv /\ Told!TypesInv
    BY <1>2 DEF SceneInv
  <2>4. (Told!CommandInv /\ Told!LogInv /\ Told!TypesInv)'
    BY <2>2, <2>3, CommandLog, Told!CommandKeeps, Told!LogKeeps, Told!TypesKeep
  <2> QED
    BY <1>1, <1>2, <2>4 DEF SceneInv
<1>3. CASE scene = "panel"
  <2>1. Tui!PanelNext \/ UNCHANGED <<row, bytes, panel, plain, follower, thread, spoiled>>
    BY <1>3
    DEF MCNext, all, LogScene, CommandScene, PanelScene, PageScene, serverVars, tuiVars
  <2>2. PanelInv'
    BY <1>3, <2>1, PanelKeeps DEF SceneInv
  <2> QED
    BY <1>1, <1>3, <2>2 DEF SceneInv
<1>4. CASE scene = "page"
  <2>1. Tui!PageNext \/ UNCHANGED <<job, page, answers, failures>>
    BY <1>4 DEF MCNext, all, LogScene, CommandScene, PanelScene, PageScene, tuiVars
  <2>2. Tui!PageTypeOK'
    BY <1>4, <2>1, PageKeeps DEF SceneInv
  <2> QED
    BY <1>1, <1>4, <2>2 DEF SceneInv
<1> QED
  BY <1>1, <1>2, <1>3, <1>4 DEF SceneInv

\* The client repeats no request that starts a build, and its exit status is true
\* (cli.exit_for_build, ApiClient.request): of every command, in logs of any
\* size, with any number of attempts and of lost answers.
THEOREM ToldInTheScenes == MCSafety => []ToldIsTrue
<1>1. SceneInv => ToldIsTrue
  BY SameVerdict DEF SceneInv, ToldIsTrue, Told!CommandInv
<1> QED
  BY <1>1, ScenesStart, ScenesKeep, PTL DEF MCSafety

\* What a command prints and what the log panel shows is the log of the build
\* they name, whole lines, once and without a gap (ops.LogFollower.poll,
\* LogPanel.show_build, poll and _lines): for logs and answers of any size, any
\* number of lost answers, of followers and of reads under way at once.  The
\* panel is excused only for a follower that two threads read at once or whose
\* read broke off half-way.
THEOREM ShownInTheScenes == MCSafety => []ShownIsTheLog
<1>1. SceneInv => ShownIsTheLog
  <2> SUFFICES ASSUME SceneInv PROVE ShownIsTheLog
    OBVIOUS
  <2>1. CASE scene = "command"
    <3>1. Told!CommandTypeOK /\ Told!CommandShowsTheLog
      BY <2>1, CommandLog, Told!TypesMean, Told!LogMeans DEF SceneInv
    <3> QED
      BY <2>1, <3>1, SameVerdict DEF ShownIsTheLog
  <2>2. CASE scene = "panel"
    BY <2>2, PanelMeans DEF SceneInv, ShownIsTheLog
  <2>3. CASE scene = "page"
    BY <2>3 DEF SceneInv, ShownIsTheLog
  <2> QED
    BY <2>1, <2>2, <2>3 DEF ShownIsTheLog
<1> QED
  BY <1>1, ScenesStart, ScenesKeep, PTL DEF MCSafety
=============================================================================
