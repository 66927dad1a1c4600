----------------------------- MODULE LogStream -----------------------------
(***************************************************************************)
(* The log of one build and its readers: BuildService._emit appends a line *)
(* to the log file and publishes it on the LogBus; a browser's WebSocket   *)
(* subscribes, replays the file, looks at the build and then follows its   *)
(* channel; the command line client polls the file by offset (build_log,   *)
(* LogFollower).  A line is the unit: the client puts cut lines together   *)
(* again.  The status messages between the lines are left out.             *)
(***************************************************************************)
EXTENDS Naturals, Sequences, FiniteSets, Functions

CONSTANTS
  Readers,       \* WebSocket connections
  Followers,     \* polling clients
  MaxLines,      \* bound: lines a build writes
  FileLines,     \* MAX_LOG_BYTES: lines after which the file stops growing
  ReplayLines,   \* LOG_REPLAY_LINES
  Capacity,      \* maxsize of a channel
  Slice          \* lines that fit in the limit of one build_log answer

ASSUME SizesAssumption ==
  /\ MaxLines \in Nat /\ FileLines \in Nat
  /\ ReplayLines \in Nat \ {0} /\ Capacity \in Nat \ {0} /\ Slice \in Nat \ {0}

VARIABLES
  written,       \* lines emitted so far; a line is its number
  file,          \* the lines in the log file
  status,        \* of the build row
  run,           \* where the worker is in run()
  msg, copied, to,  \* publish(): the message, whether _subscribers was copied,
                    \* and the channels it still has to be put into
  rpc,           \* where each connection is in build_logs
  subscribed,    \* LogBus._subscribers
  channel,
  screen,        \* the lines each browser was sent
  skip, late, dropped,  \* history of each connection: see Missable
  fpc, answer,   \* where each poll is in build_log, and what it has read
  offset,        \* LogFollower.offset: the client has the lines up to it
  atEnd          \* history: lines written when the result was committed, and
                 \* when done was published

writerVars == <<written, file, status, run, msg, copied, to, atEnd>>
readerVars == <<rpc, subscribed, channel, screen, skip, late, dropped>>
followVars == <<fpc, answer, offset>>
vars == <<writerVars, readerVars, followVars>>

Smaller(m, n) == IF m < n THEN m ELSE n

Done == 0                                \* the message; the others are lines
Lines == 1 .. MaxLines
NoAnswer == [finished |-> FALSE, size |-> 0]

TypeOK ==
  /\ written \in 0 .. MaxLines
  /\ file \in Seq(Lines)
  /\ status \in {"running", "finished", "deleted"}
  /\ run \in {"run", "tail", "failed", "closing", "over"}
  /\ msg \in Lines \cup {Done}
  /\ copied \in BOOLEAN
  /\ to \subseteq Readers
  /\ rpc \in [Readers -> {"away", "subscribed", "replayed", "stream",
                          "done", "told"}]
  /\ subscribed \subseteq Readers
  /\ channel \in [Readers -> Seq(Lines \cup {Done})]
  /\ \A r \in Readers : Len(channel[r]) <= Capacity
  /\ screen \in [Readers -> Seq(Lines)]
  /\ skip \in [Readers -> 0 .. MaxLines]
  /\ late \in [Readers -> 0 .. MaxLines]
  /\ dropped \subseteq Readers
  /\ fpc \in [Followers -> {"idle", "status", "sized", "complete"}]
  /\ answer \in [Followers -> [finished : BOOLEAN, size : 0 .. MaxLines]]
  /\ offset \in [Followers -> 0 .. MaxLines]
  /\ atEnd \in [result : 0 .. MaxLines, done : 0 .. MaxLines]

InitAt(place) ==
  /\ written = 0 /\ file = <<>> /\ status = "running" /\ run = place
  /\ msg = Done /\ copied = TRUE /\ to = {}
  /\ rpc = [r \in Readers |-> "away"]
  /\ subscribed = {}
  /\ channel = [r \in Readers |-> <<>>]
  /\ screen = [r \in Readers |-> <<>>]
  /\ skip = [r \in Readers |-> 0]
  /\ late = [r \in Readers |-> 0]
  /\ dropped = {}
  /\ fpc = [f \in Followers |-> "idle"]
  /\ answer = [f \in Followers |-> NoAnswer]
  /\ offset = [f \in Followers |-> 0]
  /\ atEnd = [result |-> 0, done |-> 0]

Init == InitAt("run")

(***************************************************************************)
(* The worker: _emit, publish and the end of run                           *)
(***************************************************************************)
Quiet == copied /\ to = {}               \* publish has returned

\* Mutated: a line reaches the file with the line after it.
AppendedLate ==
  IF Len(file) < FileLines THEN [l \in 1 .. written |-> l] ELSE file

\* The line is in the file, flushed, before it is published.
Appended ==
  IF Len(file) < FileLines THEN Append(file, written + 1) ELSE file

Emit(next) ==
  /\ Quiet
  /\ written < MaxLines
  /\ written' = written + 1
  /\ file' = Appended
  /\ msg' = written + 1
  /\ copied' = FALSE
  /\ run' = next
  /\ UNCHANGED <<status, to, atEnd>>

Commit(next) ==
  /\ Quiet
  /\ status' = "finished"
  /\ atEnd' = [atEnd EXCEPT !.result = written]
  /\ run' = next
  /\ UNCHANGED <<written, file, msg, copied, to>>

\* The last line of the bound is kept for the end of run.
Work == run = "run" /\ written + 1 < MaxLines /\ Emit("run")

\* The result is committed, then "Image ready" is written.
Ready == run = "run" /\ Commit("tail")
ImageReady == run = "tail" /\ Emit("closing")

\* _fail writes the error, then commits.
Fail == run = "run" /\ Emit("failed")
CommitFailed == run = "failed" /\ Commit("closing")

\* Mutated: a failed build says nothing to its readers.
PublishReadyOnly ==
  /\ run = "closing"
  /\ Quiet
  /\ msg' = Done
  /\ copied' = (atEnd.result = written)
  /\ run' = "over"
  /\ atEnd' = [atEnd EXCEPT !.done = written]
  /\ UNCHANGED <<written, file, status, to>>

PublishDone ==
  /\ run = "closing"
  /\ Quiet
  /\ msg' = Done
  /\ copied' = FALSE
  /\ run' = "over"
  /\ atEnd' = [atEnd EXCEPT !.done = written]
  /\ UNCHANGED <<written, file, status, to>>

\* publish copies the list of channels under the lock, and puts outside it.
Copy ==
  /\ ~copied
  /\ copied' = TRUE
  /\ to' = subscribed
  /\ UNCHANGED <<written, file, status, run, msg, atEnd>>

Worker ==
  /\ \/ Work \/ Ready \/ ImageReady \/ Fail \/ CommitFailed
     \/ PublishDone \/ Copy
  /\ UNCHANGED <<readerVars, followVars>>

\* Mutated: a full channel is grown.
PutAlways(r) ==
  /\ r \in to
  /\ to' = to \ {r}
  /\ channel' = [channel EXCEPT ![r] = Append(@, msg)]
  /\ UNCHANGED <<written, file, status, run, msg, copied, atEnd, rpc,
                 subscribed, screen, skip, late, dropped, followVars>>

\* Mutated: the end overtakes what waits in the channel.
PutDoneFirst(r) ==
  /\ r \in to
  /\ to' = to \ {r}
  /\ IF Len(channel[r]) < Capacity
     THEN /\ channel' = [channel EXCEPT ![r] =
               IF msg = Done THEN <<msg>> \o @ ELSE Append(@, msg)]
          /\ UNCHANGED dropped
     ELSE dropped' = dropped \cup {r} /\ UNCHANGED channel
  /\ UNCHANGED <<written, file, status, run, msg, copied, atEnd, rpc,
                 subscribed, screen, skip, late, followVars>>

\* put_nowait: "a stalled reader must never slow the build down".
Put(r) ==
  /\ r \in to
  /\ to' = to \ {r}
  /\ IF Len(channel[r]) < Capacity
     THEN channel' = [channel EXCEPT ![r] = Append(@, msg)] /\ UNCHANGED dropped
     ELSE dropped' = dropped \cup {r} /\ UNCHANGED channel
  /\ UNCHANGED <<written, file, status, run, msg, copied, atEnd, rpc,
                 subscribed, screen, skip, late, followVars>>

\* delete_build of the finished build: its log and its row.  The worker may
\* still write the last line, into a new file.
Delete ==
  /\ status = "finished"
  /\ status' = "deleted"
  /\ file' = <<>>
  /\ UNCHANGED <<written, run, msg, copied, to, atEnd, readerVars, followVars>>

(***************************************************************************)
(* A WebSocket connection: build_logs                                      *)
(***************************************************************************)
Goto(r, pc) == rpc' = [rpc EXCEPT ![r] = pc]

\* unsubscribe; what is put into the channel afterwards is never read.
Unsubscribe(r) == subscribed' = subscribed \ {r} /\ to' = to \ {r}

Subscribe(r) ==
  /\ rpc[r] = "away"
  /\ Goto(r, "subscribed")
  /\ subscribed' = subscribed \cup {r}
  /\ late' = [late EXCEPT ![r] = written]
  /\ UNCHANGED <<writerVars, channel, screen, skip, dropped, followVars>>

\* The last ReplayLines of the file as it is now.
Replay(r) ==
  LET before == Len(file) - Smaller(Len(file), ReplayLines) IN
  /\ rpc[r] = "subscribed"
  /\ Goto(r, "replayed")
  /\ screen' = [screen EXCEPT ![r] = SubSeq(file, before + 1, Len(file))]
  /\ skip' = [skip EXCEPT ![r] = before]
  /\ UNCHANGED <<writerVars, subscribed, channel, late, dropped, followVars>>

\* A finished build is announced at once; a build that is not there is not
\* finished.
Check(r) ==
  /\ rpc[r] = "replayed"
  /\ IF status = "finished"
     THEN Goto(r, "told") /\ Unsubscribe(r)
     ELSE Goto(r, "stream") /\ UNCHANGED <<subscribed, to>>
  /\ UNCHANGED <<written, file, status, run, msg, copied, atEnd, channel,
                 screen, skip, late, dropped, followVars>>

\* Mutated: looks at the channel without removing the message.
ReceiveWithoutRemoving(r) ==
  /\ rpc[r] = "stream"
  /\ channel[r] # <<>>
  /\ Head(channel[r]) # Done
  /\ Len(screen[r]) < 2 * MaxLines + 2
  /\ screen' = [screen EXCEPT ![r] = Append(@, Head(channel[r]))]
  /\ UNCHANGED <<writerVars, rpc, subscribed, channel, skip, late, dropped,
                 followVars>>

Receive(r) ==
  /\ rpc[r] = "stream"
  /\ channel[r] # <<>>
  /\ channel' = [channel EXCEPT ![r] = Tail(@)]
  /\ IF Head(channel[r]) = Done
     THEN Goto(r, "done") /\ Unsubscribe(r) /\ UNCHANGED screen
     ELSE /\ screen' = [screen EXCEPT ![r] = Append(@, Head(channel[r]))]
          /\ UNCHANGED <<rpc, subscribed, to>>
  /\ UNCHANGED <<written, file, status, run, msg, copied, atEnd, skip, late,
                 dropped, followVars>>

\* The page is left, reloaded, or cut off; it may come back.
Leave(r) ==
  /\ rpc[r] # "away"
  /\ Goto(r, "away")
  /\ Unsubscribe(r)
  /\ channel' = [channel EXCEPT ![r] = <<>>]
  /\ screen' = [screen EXCEPT ![r] = <<>>]
  /\ skip' = [skip EXCEPT ![r] = 0]
  /\ late' = [late EXCEPT ![r] = 0]
  /\ dropped' = dropped \ {r}
  /\ UNCHANGED <<written, file, status, run, msg, copied, atEnd, followVars>>

Reader(r) == Replay(r) \/ Check(r) \/ Receive(r)

(***************************************************************************)
(* A poll: build_log and LogFollower                                       *)
(***************************************************************************)
\* The row is read before the file.
PollStatus(f) ==
  /\ fpc[f] = "idle"
  /\ status # "deleted"
  /\ fpc' = [fpc EXCEPT ![f] = "status"]
  /\ answer' = [answer EXCEPT ![f].finished = (status = "finished")]
  /\ UNCHANGED <<writerVars, readerVars, offset>>

PollSize(f) ==
  /\ fpc[f] = "status"
  /\ status # "deleted"
  /\ fpc' = [fpc EXCEPT ![f] = "sized"]
  /\ answer' = [answer EXCEPT ![f].size = Len(file)]
  /\ UNCHANGED <<writerVars, readerVars, offset>>

\* Mutated: reads what was measured, and the row after the file.
PollReadThenStatus(f) ==
  LET next == Smaller(offset[f] + Slice, answer[f].size) IN
  /\ fpc[f] = "sized"
  /\ offset' = [offset EXCEPT ![f] = next]
  /\ fpc' = [fpc EXCEPT ![f] = IF status = "finished" /\ next >= answer[f].size
                               THEN "complete" ELSE "idle"]
  /\ answer' = [answer EXCEPT ![f] = NoAnswer]
  /\ UNCHANGED <<writerVars, readerVars>>

\* A slice of the file as it is now; complete by the size and the status read
\* before.
PollRead(f) ==
  LET next == Smaller(offset[f] + Slice, Len(file)) IN
  /\ fpc[f] = "sized"
  /\ status # "deleted"
  /\ offset' = [offset EXCEPT ![f] = next]
  /\ fpc' = [fpc EXCEPT ![f] = IF answer[f].finished /\ next >= answer[f].size
                               THEN "complete" ELSE "idle"]
  /\ answer' = [answer EXCEPT ![f] = NoAnswer]
  /\ UNCHANGED <<writerVars, readerVars>>

\* The answer is lost, or the build is deleted meanwhile; the client polls
\* again from its own offset.
PollLost(f) ==
  /\ fpc[f] \in {"status", "sized"}
  /\ fpc' = [fpc EXCEPT ![f] = "idle"]
  /\ answer' = [answer EXCEPT ![f] = NoAnswer]
  /\ UNCHANGED <<writerVars, readerVars, offset>>

Follower(f) == PollStatus(f) \/ PollSize(f) \/ PollRead(f) \/ PollLost(f)

Build == Worker \/ Delete \/ (\E r \in Readers : Put(r))
Browser == \E r \in Readers : Subscribe(r) \/ Reader(r) \/ Leave(r)

Next ==
  \/ Build
  \/ Browser
  \/ \E f \in Followers : Follower(f)

Spec == Init /\ [][Next]_vars

\* The build goes on and ends (BuildQueue: EveryBuildFinishes); a connection
\* that has something to do does it.
Fairness ==
  /\ WF_vars(Worker)
  /\ \A r \in Readers : WF_vars(Put(r)) /\ WF_vars(Reader(r))

LiveSpec == Spec /\ Fairness

(***************************************************************************)
(* Properties                                                              *)
(***************************************************************************)
\* What a connection misses by design: lines before the replayed ones, and
\* lines no longer written to the file and emitted before it subscribed.
Missable(r, l) == l <= skip[r] \/ (l > FileLines /\ l <= late[r])

\* Between the file and the channel no line falls through: once the log is
\* replayed, a line emitted so far was sent, waits in the channel, or is about
\* to be put there, unless the channel was full once.
NothingMissing ==
  \A r \in Readers, l \in 1 .. written :
    /\ rpc[r] \in {"replayed", "stream"}
    /\ r \notin dropped
    /\ status # "deleted"
    => \/ Missable(r, l)
       \/ l \in Range(screen[r]) \cup Range(channel[r])
       \/ msg = l /\ (~copied \/ r \in to)

\* The done message is the end: whoever received it has every line the build
\* wrote before, "Image ready" or the error too.
DoneComesLast ==
  \A r \in Readers, l \in 1 .. atEnd.done :
    /\ rpc[r] = "done"
    /\ r \notin dropped
    /\ status # "deleted"
    => Missable(r, l) \/ l \in Range(screen[r])

\* "the browser may see it twice at worst" (api.py:1830): the replay and the
\* stream are each in order, so no line comes a third time.
TwiceAtWorst ==
  \A r \in Readers :
    LET s == screen[r] IN
    Cardinality({i \in 1 .. Len(s) - 1 : s[i] >= s[i + 1]}) <= 1

\* A client that was told its log is complete has at least every line written
\* before the result was committed, however its polls were cut and repeated.
CompleteHasTheResult ==
  \A f \in Followers :
    fpc[f] = "complete" => offset[f] >= Smaller(atEnd.result, FileLines)

\* No connection waits for a done message that was already sent: it ends, is
\* left, or its channel was full once; only a deleted build keeps it waiting.
EveryReaderEnds ==
  \A r \in Readers :
    rpc[r] \in {"subscribed", "replayed", "stream"} ~>
      \/ rpc[r] \in {"away", "done", "told"}
      \/ r \in dropped
      \/ status = "deleted"

\* "Subscribing before the replay means a line produced during the replay is
\* queued rather than lost" (api.py:1829): what was queued is also sent.
QueuedIsNotLost ==
  \A r \in Readers :
    rpc[r] = "told" => Range(channel[r]) \subseteq Range(screen[r]) \cup {Done}
=============================================================================
