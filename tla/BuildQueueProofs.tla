-------------------------- MODULE BuildQueueProofs --------------------------
(***************************************************************************)
(* Proofs about BuildQueue, for every number of builds, projects, API      *)
(* threads and worker threads, every interleaving of them, and any number  *)
(* of refused log writes and stops of the process.                         *)
(***************************************************************************)
EXTENDS BuildQueue, TLAPS

LEMMA StateNames ==
  /\ Running = {"preparing", "pulling", "building", "testing", "exporting"}
  /\ Active = {"queued", "preparing", "pulling", "building", "testing",
               "exporting"}
  /\ Rows = Active \cup {"ready", "failed"}
  /\ Status = Rows \cup {"absent", "deleted"}
  BY DEF Running, Active, Finished, Rows, Status

LEMMA AppendFacts ==
  ASSUME NEW S, NEW q \in Seq(S), NEW e \in S
  PROVE  /\ Append(q, e) \in Seq(S)
         /\ Len(Append(q, e)) = Len(q) + 1
         /\ \A i \in 1 .. Len(q) : Append(q, e)[i] = q[i]
         /\ Append(q, e)[Len(q) + 1] = e
  OBVIOUS

LEMMA TailFacts ==
  ASSUME NEW S, NEW q \in Seq(S), q # <<>>
  PROVE  /\ Tail(q) \in Seq(S)
         /\ Len(q) \in Nat \ {0}
         /\ Len(Tail(q)) = Len(q) - 1
         /\ \A i \in 1 .. Len(q) - 1 : Tail(q)[i] = q[i + 1]
         /\ Head(q) = q[1]
         /\ Head(q) \in S
  OBVIOUS

-----------------------------------------------------------------------------
(***************************************************************************)
(* Type correctness                                                        *)
(***************************************************************************)
USE DEF Stages, Held, WPc, Checking, RPc

\* A request under way knows its project, version and row; a worker holds a
\* build exactly while it is somewhere inside run.
Shape ==
  /\ \A c \in Clients : rpc[c] # "idle" => /\ req[c].build \in Builds
                                           /\ req[c].project \in Projects
                                           /\ req[c].version \in Versions
  /\ \A w \in Workers : job[w] # None <=> wpc[w] \in Held \cup {"dead"}

Typed == TypeOK /\ Shape

LEMMA RefuseType ==
  ASSUME Typed, NEW c \in Clients, Refuse(c)
  PROVE  /\ rpc' \in [Clients -> RPc]
         /\ req' \in [Clients -> ReqType]
         /\ \A d \in Clients : rpc'[d] # "idle" => rpc[d] = rpc'[d] /\ req[d] = req'[d]
  BY MaxVersionAssumption DEF Typed, TypeOK, Refuse, NoReq, ReqType

LEMMA InitTyped == Init => Typed
  BY MaxVersionAssumption, BoundsAssumption, StateNames
     DEF Init, Typed, TypeOK, Shape, NoRow, NoReq, Versions, RowType, ReqType

LEMMA RequestTyped ==
  ASSUME Typed, NEW c \in Clients, Request(c)
  PROVE  Typed'
<1> USE MaxVersionAssumption, BoundsAssumption, StateNames, NoneAssumption
<1> USE DEF rowVars, workVars, reqVars, envVars, Typed
<1>1. CASE CheckVersion(c)
  BY <1>1, RefuseType DEF CheckVersion, TypeOK, Shape
<1>2. CASE CheckRunning(c)
  BY <1>2, RefuseType DEF CheckRunning, TypeOK, Shape
<1>3. CASE \E n \in 1 .. Cardinality(Builds) + 1 : TakeNumber(c, n)
  <2> PICK n \in 1 .. Cardinality(Builds) + 1 : TakeNumber(c, n)
    BY <1>3
  <2>1. n \in Nat
    OBVIOUS
  <2>2. Numbered(req[c], n) \in ReqType
    BY <2>1 DEF Numbered, TypeOK, ReqType
  <2> QED BY <2>2 DEF TakeNumber, TypeOK, Shape, Numbered
<1>4. CASE Commit(c)
  <2>1. CASE Collides(c)
    BY <1>4, <2>1, RefuseType DEF Commit, TypeOK, Shape
  <2>2. CASE ~Collides(c)
    <3>1. \A p \in Projects : Suggestion(c, p) \in 1 .. MaxVersion + 1
      <4> SUFFICES ASSUME NEW p \in Projects
                   PROVE  Suggestion(c, p) \in 1 .. MaxVersion + 1
        OBVIOUS
      <4>1. req[c].version \in 0 .. MaxVersion /\ nextVersion[p] \in 1 .. MaxVersion + 1
        BY DEF TypeOK, Versions, ReqType
      <4> QED BY <4>1 DEF Suggestion
    <3>2. req[c].build \in Builds /\ rpc[c] = "numbered"
      BY <1>4 DEF Commit, Shape
    <3>3. [project |-> req[c].project, version |-> req[c].version,
           number |-> req[c].number] \in RowType
      BY DEF TypeOK, ReqType, RowType
    <3>4. TypeOK'
      <4>1. nextVersion' \in [Projects -> 1 .. MaxVersion + 1]
        BY <1>4, <2>2, <3>1 DEF Commit
      <4>2. built' \in [Builds -> RowType]
        BY <1>4, <2>2, <3>2, <3>3 DEF Commit, TypeOK
      <4>3. status' \in [Builds -> Status] /\ rpc' \in [Clients -> RPc]
        BY <1>4, <2>2, <3>2 DEF Commit, TypeOK
      <4> QED BY <1>4, <2>2, <4>1, <4>2, <4>3 DEF Commit, TypeOK
    <3>5. Shape'
      BY <1>4, <2>2, <3>2 DEF Commit, TypeOK, Shape
    <3> QED BY <3>4, <3>5
  <2> QED BY <2>1, <2>2
<1>5. CASE Put(c)
  <2>1. req[c].build \in Builds
    BY <1>5 DEF Put, Shape
  <2>2. queue' \in Seq(Builds)
    BY <1>5, <2>1, AppendFacts DEF Put, TypeOK
  <2> QED BY <1>5, <2>2 DEF Put, TypeOK, Shape
<1>6. CASE StartCheck(c)
  BY <1>6, RefuseType DEF StartCheck, TypeOK, Shape
<1>7. CASE \E w \in Workers : Spawn(c, w)
  BY <1>7 DEF Spawn, TypeOK, NoReq, ReqType, Shape
<1> QED BY <1>1, <1>2, <1>3, <1>4, <1>5, <1>6, <1>7 DEF Request

LEMMA RunTyped ==
  ASSUME Typed, NEW w \in Workers, Run(w) \/ LogFault(w)
  PROVE  Typed'
<1> USE MaxVersionAssumption, BoundsAssumption, StateNames, NoneAssumption
<1> USE DEF rowVars, workVars, reqVars, envVars, Typed, Goto,
            SetStatus, KeepJob, Release
<1>1. CASE Take(w)
  BY <1>1, TailFacts DEF Take, TypeOK, Shape
<1>2. CASE Begin(w)
  <2>1. CASE status[job[w]] = "queued"
    <3>1. job[w] \in Builds
      BY <1>2 DEF Begin, TypeOK, Shape
    <3>2. TypeOK'
      BY <1>2, <2>1, <3>1 DEF Begin, TypeOK
    <3>3. /\ wpc' = [wpc EXCEPT ![w] = "begun"]
          /\ UNCHANGED <<job, rpc, req>>
      BY <1>2, <2>1 DEF Begin
    <3>4. wpc[w] \in Held
      BY <1>2 DEF Begin
    <3>5. Shape'
      BY <3>3, <3>4 DEF TypeOK, Shape
    <3> QED BY <3>2, <3>5
  <2>2. CASE status[job[w]] # "queued"
    BY <1>2, <2>2 DEF Begin, TypeOK, Shape
  <2> QED BY <2>1, <2>2
<1>3. CASE Header(w)
  BY <1>3 DEF Header, TypeOK, Shape
<1>4. CASE \E s \in Stages : Stage(w, s)
  BY <1>4 DEF Stage, TypeOK, Shape
<1>5. CASE Ready(w)
  BY <1>5 DEF Ready, TypeOK, Shape
<1>6. CASE Announce(w)
  BY <1>6 DEF Announce, TypeOK, Shape
<1>7. CASE Raise(w)
  BY <1>7 DEF Raise, TypeOK, Shape
<1>8. CASE ReportFailure(w)
  BY <1>8 DEF ReportFailure, TypeOK, Shape
<1>9. CASE LogFault(w)
  BY <1>9 DEF LogFault, Escape, TypeOK, Shape
<1> QED BY <1>1, <1>2, <1>3, <1>4, <1>5, <1>6, <1>7, <1>8, <1>9 DEF Run

LEMMA NextTyped == Typed /\ [Next]_vars => Typed'
<1> SUFFICES ASSUME Typed, [Next]_vars PROVE Typed'
  OBVIOUS
<1> USE MaxVersionAssumption, BoundsAssumption, StateNames, NoneAssumption
<1> USE DEF rowVars, workVars, reqVars, envVars, Typed
<1>1. CASE \E c \in Clients, p \in Projects, v \in Versions, b \in Builds :
             Load(c, p, v, b)
  BY <1>1 DEF Load, TypeOK, Shape, Versions, ReqType
<1>2. CASE \E c \in Clients : Request(c)
  BY <1>2, RequestTyped
<1>3. CASE \E w \in Workers : Run(w) \/ LogFault(w)
  BY <1>3, RunTyped
<1>4. CASE \E b \in Builds : Delete(b)
  BY <1>4 DEF Delete, SetStatus, TypeOK, Shape
<1>5. CASE Crash
  <2>1. NoReq \in ReqType
    BY DEF NoReq, ReqType
  <2>2. crashes' \in 0 .. MaxCrashes
    BY <1>5 DEF Crash, TypeOK
  <2>3. queue' \in Seq(Builds)
    BY <1>5 DEF Crash
  <2> QED BY <1>5, <2>1, <2>2, <2>3 DEF Crash, TypeOK, Shape
<1>6. CASE Restart
  BY <1>6 DEF Restart, TypeOK, Shape
<1>7. CASE UNCHANGED vars
  BY <1>7 DEF vars, TypeOK, Shape
<1> QED BY <1>1, <1>2, <1>3, <1>4, <1>5, <1>6, <1>7 DEF Next

\* Every variable keeps its type (TypeOK of the run build_races), whatever
\* the threads do.
THEOREM TypeCorrect == Spec => []TypeOK
<1>1. Spec => []Typed
  BY InitTyped, NextTyped, PTL DEF Spec
<1> QED BY <1>1, PTL DEF Typed

-----------------------------------------------------------------------------
(***************************************************************************)
(* The inductive invariant.  NoBuildRunsTwice, NoBuildIsLost and           *)
(* StatusFollowsWorker lean on each other, and on three facts the runs do  *)
(* not state: which status a build has while a request or the queue holds  *)
(* it, which one when its worker is failing, and that a stopped process    *)
(* holds nothing.                                                          *)
(***************************************************************************)
RequestsHold ==
  /\ \A c, d \in Clients :
       rpc[c] # "idle" /\ rpc[d] # "idle" /\ req[c].build = req[d].build => c = d
  /\ \A c \in Clients :
       /\ rpc[c] \in Checking => status[req[c].build] = "absent"
       /\ rpc[c] = "put" => status[req[c].build] = "queued"

QueueHolds == \A i \in 1 .. Len(queue) : status[queue[i]] = "queued"

FailingHolds ==
  \A w \in Workers : wpc[w] \in {"fail", "loopfail", "dead"} =>
    status[job[w]] \in Running \cup {"ready", "deleted"}

StoppedHoldsNothing ==
  ~up => /\ queue = <<>>
         /\ \A w \in Workers : wpc[w] = "none"
         /\ \A c \in Clients : rpc[c] = "idle"

Hands == RequestsHold /\ QueueHolds /\ StatusFollowsWorker /\ FailingHolds

IInv == /\ Typed
        /\ Hands
        /\ NoBuildRunsTwice
        /\ NoBuildIsLost
        /\ StoppedHoldsNothing

LEMMA InitInv == Init => IInv
<1> SUFFICES ASSUME Init PROVE IInv
  OBVIOUS
<1>1. Typed
  BY InitTyped
<1>2. Hands
  BY DEF Init, Hands, RequestsHold, QueueHolds, StatusFollowsWorker,
         FailingHolds, Running
<1>3. NoBuildRunsTwice
  BY DEF Init, NoBuildRunsTwice, Putting
<1>4. NoBuildIsLost
  BY StateNames DEF Init, NoBuildIsLost
<1>5. StoppedHoldsNothing
  BY DEF Init, StoppedHoldsNothing
<1> QED BY <1>1, <1>2, <1>3, <1>4, <1>5 DEF IInv

\* The status a build may have while a worker holds it: never absent, never
\* failed, and queued only before run's first transaction.
LEMMA HeldStatus ==
  ASSUME IInv, NEW w \in Workers, job[w] # None
  PROVE  /\ job[w] \in Builds
         /\ status[job[w]] \in Active \cup {"ready", "deleted"}
         /\ status[job[w]] = "queued" => wpc[w] = "taken"
         /\ \A i \in 1 .. Len(queue) : queue[i] # job[w]
         /\ \A c \in Clients : rpc[c] = "put" => req[c].build # job[w]
<1>1. job[w] \in Builds /\ wpc[w] \in Held \cup {"dead"}
  BY DEF IInv, Typed, TypeOK, Shape
<1>2. /\ status[job[w]] \in Active \cup {"ready", "deleted"}
      /\ status[job[w]] = "queued" => wpc[w] = "taken"
  BY <1>1, StateNames DEF IInv, Hands, StatusFollowsWorker, FailingHolds
<1>3. \A i \in 1 .. Len(queue) : queue[i] # job[w]
  BY DEF IInv, NoBuildRunsTwice, InQueue
<1>4. \A c \in Clients : rpc[c] = "put" => req[c].build # job[w]
  BY <1>1 DEF IInv, NoBuildRunsTwice, Putting
<1> QED BY <1>1, <1>2, <1>3, <1>4

-----------------------------------------------------------------------------
(***************************************************************************)
(* Steps of the API threads                                                *)
(***************************************************************************)
\* A request that is refused, or done, lets go of a row nobody needs it for.
LEMMA RefuseInv ==
  ASSUME IInv, Typed', NEW c \in Clients, rpc[c] # "put", Refuse(c),
         UNCHANGED <<rowVars, workVars, envVars>>
  PROVE  IInv'
<1> USE DEF rowVars, workVars, envVars
<1>1. /\ \A d \in Clients : rpc'[d] # "idle" => rpc[d] = rpc'[d] /\ req[d] = req'[d]
      /\ \A d \in Clients \ {c} : rpc[d] = rpc'[d] /\ req[d] = req'[d]
      /\ rpc'[c] = "idle"
  BY RefuseType DEF IInv, Refuse, Typed, TypeOK
<1>2. Hands'
  BY <1>1 DEF IInv, Hands, RequestsHold, QueueHolds, StatusFollowsWorker, FailingHolds
<1>3. NoBuildRunsTwice'
  BY <1>1 DEF IInv, NoBuildRunsTwice, Putting, InQueue
<1>4. NoBuildIsLost'
  BY <1>1 DEF IInv, NoBuildIsLost, Putting, InQueue
<1>5. StoppedHoldsNothing'
  BY <1>1 DEF IInv, StoppedHoldsNothing
<1> QED BY <1>2, <1>3, <1>4, <1>5 DEF IInv

\* A request that only moves on to its next query.
LEMMA MoveOnInv ==
  ASSUME IInv, Typed', NEW c \in Clients, NEW pc \in Checking,
         rpc[c] \in Checking, rpc' = [rpc EXCEPT ![c] = pc],
         \A d \in Clients : req'[d].build = req[d].build,
         UNCHANGED <<rowVars, workVars, envVars>>
  PROVE  IInv'
<1> USE DEF rowVars, workVars, envVars
<1>1. /\ \A d \in Clients \ {c} : rpc[d] = rpc'[d]
      /\ rpc'[c] = pc
  BY DEF IInv, Typed, TypeOK
<1>2. Hands'
  BY <1>1 DEF IInv, Hands, RequestsHold, QueueHolds, StatusFollowsWorker, FailingHolds
<1>3. NoBuildRunsTwice'
  BY <1>1 DEF IInv, NoBuildRunsTwice, Putting, InQueue
<1>4. NoBuildIsLost'
  BY <1>1 DEF IInv, NoBuildIsLost, Putting, InQueue
<1>5. StoppedHoldsNothing'
  BY <1>1 DEF IInv, StoppedHoldsNothing
<1> QED BY <1>2, <1>3, <1>4, <1>5 DEF IInv

LEMMA CommitInv ==
  ASSUME IInv, Typed', NEW c \in Clients, Commit(c), ~Collides(c)
  PROVE  IInv'
<1> DEFINE b == req[c].build
<1> USE DEF rowVars, workVars, envVars
<1>1. /\ b \in Builds
      /\ rpc[c] = "numbered"
      /\ status[b] = "absent"
      /\ status' = [status EXCEPT ![b] = "queued"]
      /\ rpc' = [rpc EXCEPT ![c] = "put"]
      /\ UNCHANGED <<req, workVars, envVars>>
  BY DEF Commit, IInv, Typed, Shape, Hands, RequestsHold
<1>2. /\ \A d \in Clients \ {c} : rpc[d] = rpc'[d]
      /\ rpc'[c] = "put"
      /\ \A e \in Builds \ {b} : status'[e] = status[e]
      /\ status'[b] = "queued"
  BY <1>1 DEF IInv, Typed, TypeOK
<1>3. \A w \in Workers : job[w] # None => job[w] \in Builds \ {b}
  BY <1>1, HeldStatus, StateNames
<1>4. \A i \in 1 .. Len(queue) : queue[i] \in Builds \ {b}
  BY <1>1 DEF IInv, Hands, QueueHolds, Typed, TypeOK
<1>5. \A w \in Workers : wpc[w] \in Held \cup {"dead"} => job[w] \in Builds \ {b}
  BY <1>3 DEF IInv, Typed, Shape
<1>6. Hands'
  <2>1. RequestsHold'
    BY <1>1, <1>2 DEF IInv, Typed, Shape, Hands, RequestsHold
  <2>2. QueueHolds'
    BY <1>1, <1>2, <1>4 DEF IInv, Hands, QueueHolds
  <2>3. StatusFollowsWorker'
    BY <1>1, <1>2, <1>5 DEF IInv, Hands, StatusFollowsWorker
  <2>4. FailingHolds'
    BY <1>1, <1>2, <1>5 DEF IInv, Hands, FailingHolds
  <2> QED BY <2>1, <2>2, <2>3, <2>4 DEF Hands
<1>7. NoBuildRunsTwice'
  BY <1>1, <1>2, <1>3, <1>4, NoneAssumption DEF IInv, NoBuildRunsTwice, Putting, InQueue
<1>8. NoBuildIsLost'
  BY <1>1, <1>2 DEF IInv, NoBuildIsLost, Putting, InQueue
<1>9. StoppedHoldsNothing'
  BY <1>1, <1>2 DEF IInv, StoppedHoldsNothing
<1> QED BY <1>6, <1>7, <1>8, <1>9 DEF IInv

LEMMA PutInv ==
  ASSUME IInv, Typed', NEW c \in Clients, Put(c)
  PROVE  IInv'
<1> DEFINE b == req[c].build
<1> USE DEF rowVars, workVars, envVars
<1>1. /\ b \in Builds
      /\ rpc[c] = "put"
      /\ status[b] = "queued"
      /\ queue \in Seq(Builds)
      /\ queue' = Append(queue, b)
      /\ rpc' = [rpc EXCEPT ![c] = "start"]
      /\ UNCHANGED <<rowVars, current, wpc, job, req, envVars>>
  BY DEF Put, IInv, Typed, TypeOK, Shape, Hands, RequestsHold
<1>2. /\ \A d \in Clients \ {c} : rpc[d] = rpc'[d]
      /\ rpc'[c] = "start"
  BY <1>1 DEF IInv, Typed, TypeOK
<1>3. /\ Len(queue') = Len(queue) + 1
      /\ \A i \in 1 .. Len(queue) : queue'[i] = queue[i]
      /\ queue'[Len(queue) + 1] = b
      /\ Len(queue) \in Nat
  BY <1>1, AppendFacts
<1>4. /\ \A i \in 1 .. Len(queue) : queue[i] # b
      /\ \A w \in Workers : job[w] # b
      /\ \A d \in Clients : rpc[d] = "put" /\ req[d].build = b => d = c
  BY <1>1 DEF IInv, NoBuildRunsTwice, Putting, InQueue, Hands, RequestsHold
<1>5. Hands'
  <2>1. RequestsHold'
    BY <1>1, <1>2 DEF IInv, Hands, RequestsHold
  <2>2. QueueHolds'
    BY <1>1, <1>3 DEF IInv, Hands, QueueHolds
  <2>3. StatusFollowsWorker' /\ FailingHolds'
    BY <1>1 DEF IInv, Hands, StatusFollowsWorker, FailingHolds
  <2> QED BY <2>1, <2>2, <2>3 DEF Hands
<1>6. \A e \in Builds : InQueue(e)' <=> InQueue(e) \/ e = b
  BY <1>3 DEF InQueue
<1>7. NoBuildRunsTwice'
  <2>1. \A i, j \in 1 .. Len(queue') : queue'[i] = queue'[j] => i = j
    BY <1>3, <1>4 DEF IInv, NoBuildRunsTwice
  <2>2. \A w \in Workers : job'[w] # None => ~InQueue(job[w])'
    BY <1>1, <1>4, <1>6, HeldStatus DEF IInv, NoBuildRunsTwice
  <2>3. \A d \in Clients, e \in Builds : Putting(d, e)' =>
          ~InQueue(e)' /\ \A w \in Workers : job'[w] # e
    BY <1>1, <1>2, <1>4, <1>6 DEF IInv, NoBuildRunsTwice, Putting
  <2> QED BY <1>1, <2>1, <2>2, <2>3 DEF IInv, NoBuildRunsTwice
<1>8. NoBuildIsLost'
  BY <1>1, <1>2, <1>6 DEF IInv, NoBuildIsLost, Putting
<1>9. StoppedHoldsNothing'
  BY <1>1 DEF IInv, StoppedHoldsNothing
<1> QED BY <1>5, <1>7, <1>8, <1>9 DEF IInv

\* start() changes no build's hands: looking at _worker, or a new idle thread.
LEMMA StartInv ==
  ASSUME IInv, Typed', NEW c \in Clients,
         StartCheck(c) \/ \E w \in Workers : Spawn(c, w)
  PROVE  IInv'
<1> USE DEF rowVars, workVars, envVars
<1>1. CASE StartCheck(c) /\ Refuse(c)
  BY <1>1, RefuseInv DEF StartCheck
<1>2. CASE StartCheck(c) /\ ~Refuse(c)
  <2>1. /\ rpc[c] = "start"
        /\ rpc' = [rpc EXCEPT ![c] = "spawn"]
        /\ UNCHANGED <<rowVars, workVars, req, envVars>>
    BY <1>2 DEF StartCheck
  <2>2. \A d \in Clients : rpc'[d] = rpc[d] \/ (rpc[d] = "start" /\ rpc'[d] = "spawn")
    BY <2>1 DEF IInv, Typed, TypeOK
  <2>3. Hands'
    BY <2>1, <2>2 DEF IInv, Hands, RequestsHold, QueueHolds, StatusFollowsWorker, FailingHolds
  <2>4. NoBuildRunsTwice' /\ NoBuildIsLost'
    BY <2>1, <2>2 DEF IInv, NoBuildRunsTwice, NoBuildIsLost, Putting, InQueue
  <2>5. StoppedHoldsNothing'
    BY <2>1 DEF IInv, StoppedHoldsNothing
  <2> QED BY <2>3, <2>4, <2>5 DEF IInv
<1>3. CASE \E w \in Workers : Spawn(c, w)
  <2> PICK w \in Workers : Spawn(c, w)
    BY <1>3
  <2>1. /\ rpc[c] = "spawn"
        /\ wpc[w] = "none"
        /\ wpc' = [wpc EXCEPT ![w] = "idle"]
        /\ Refuse(c)
        /\ UNCHANGED <<rowVars, queue, job, envVars>>
    BY DEF Spawn, Refuse
  <2>2. /\ \A d \in Clients \ {c} : rpc[d] = rpc'[d] /\ req[d] = req'[d]
        /\ rpc'[c] = "idle"
        /\ \A v \in Workers \ {w} : wpc[v] = wpc'[v]
        /\ wpc'[w] = "idle"
    BY <2>1 DEF IInv, Typed, TypeOK, Refuse
  <2>3. Hands'
    BY <2>1, <2>2, StateNames
       DEF IInv, Hands, RequestsHold, QueueHolds, StatusFollowsWorker, FailingHolds
  <2>4. NoBuildRunsTwice' /\ NoBuildIsLost'
    BY <2>1, <2>2 DEF IInv, NoBuildRunsTwice, NoBuildIsLost, Putting, InQueue
  <2>5. StoppedHoldsNothing'
    BY <2>1 DEF IInv, StoppedHoldsNothing
  <2> QED BY <2>3, <2>4, <2>5 DEF IInv
<1> QED BY <1>1, <1>2, <1>3

LEMMA LoadInv ==
  ASSUME IInv, Typed', NEW c \in Clients, NEW p \in Projects,
         NEW v \in Versions, NEW b \in Builds, Load(c, p, v, b)
  PROVE  IInv'
<1> USE DEF rowVars, workVars, envVars
<1>1. /\ up
      /\ rpc[c] = "idle"
      /\ status[b] = "absent"
      /\ \A d \in Clients : req[d].build # b
      /\ rpc'[c] = "loaded"
      /\ req'[c].build = b
      /\ \A d \in Clients \ {c} : rpc[d] = rpc'[d] /\ req[d] = req'[d]
      /\ UNCHANGED <<rowVars, workVars, envVars>>
  BY DEF Load, IInv, Typed, TypeOK
<1>2. Hands'
  BY <1>1 DEF IInv, Hands, RequestsHold, QueueHolds, StatusFollowsWorker, FailingHolds
<1>3. NoBuildRunsTwice' /\ NoBuildIsLost'
  BY <1>1 DEF IInv, NoBuildRunsTwice, NoBuildIsLost, Putting, InQueue
<1>4. StoppedHoldsNothing'
  BY <1>1 DEF IInv, StoppedHoldsNothing
<1> QED BY <1>2, <1>3, <1>4 DEF IInv

LEMMA RequestInv ==
  ASSUME IInv, Typed', NEW c \in Clients, Request(c)
  PROVE  IInv'
<1>1. CASE CheckVersion(c)
  <2>1. CASE Refuse(c)
    BY <1>1, <2>1, RefuseInv DEF CheckVersion
  <2>2. CASE ~Refuse(c)
    BY <1>1, <2>2, MoveOnInv DEF CheckVersion
  <2> QED BY <2>1, <2>2
<1>2. CASE CheckRunning(c)
  <2>1. CASE Refuse(c)
    BY <1>2, <2>1, RefuseInv DEF CheckRunning
  <2>2. CASE ~Refuse(c)
    BY <1>2, <2>2, MoveOnInv DEF CheckRunning
  <2> QED BY <2>1, <2>2
<1>3. CASE \E n \in 1 .. Cardinality(Builds) + 1 : TakeNumber(c, n)
  <2> PICK n \in 1 .. Cardinality(Builds) + 1 : TakeNumber(c, n)
    BY <1>3
  <2>1. \A d \in Clients : req'[d].build = req[d].build
    BY DEF TakeNumber, Numbered, IInv, Typed, TypeOK
  <2> QED BY <2>1, MoveOnInv DEF TakeNumber
<1>4. CASE Commit(c)
  <2>1. CASE Collides(c)
    BY <1>4, <2>1, RefuseInv DEF Commit
  <2>2. CASE ~Collides(c)
    BY <1>4, <2>2, CommitInv
  <2> QED BY <2>1, <2>2
<1>5. CASE Put(c)
  BY <1>5, PutInv
<1>6. CASE StartCheck(c) \/ \E w \in Workers : Spawn(c, w)
  BY <1>6, StartInv
<1> QED BY <1>1, <1>2, <1>3, <1>4, <1>5, <1>6 DEF Request

-----------------------------------------------------------------------------
(***************************************************************************)
(* Steps of the worker threads                                             *)
(***************************************************************************)
LEMMA TakeInv ==
  ASSUME IInv, Typed', NEW w \in Workers, Take(w)
  PROVE  IInv'
<1> DEFINE b == Head(queue)
<1> USE DEF rowVars, workVars, reqVars, envVars
<1>1. /\ wpc[w] = "idle"
      /\ job[w] = None
      /\ wpc'[w] = "taken"
      /\ job'[w] = b
      /\ \A v \in Workers \ {w} : wpc'[v] = wpc[v] /\ job'[v] = job[v]
      /\ queue' = Tail(queue)
      /\ UNCHANGED <<rowVars, current, reqVars, envVars>>
  BY StateNames DEF Take, Goto, IInv, Typed, TypeOK, Shape
<1>2. /\ Len(queue) \in Nat \ {0}
      /\ Len(queue') = Len(queue) - 1
      /\ \A i \in 1 .. Len(queue') : queue'[i] = queue[i + 1]
      /\ b = queue[1]
      /\ b \in Builds
  BY <1>1, TailFacts DEF Take, IInv, Typed, TypeOK
<1>3. \A e \in Builds : InQueue(e)' => InQueue(e) /\ e # b
  <2> SUFFICES ASSUME NEW e \in Builds, NEW i \in 1 .. Len(queue'), queue'[i] = e
               PROVE  InQueue(e) /\ e # b
    BY DEF InQueue
  <2>1. i + 1 \in 1 .. Len(queue) /\ queue[i + 1] = e /\ i + 1 # 1
    BY <1>2
  <2> QED BY <1>2, <2>1 DEF InQueue, IInv, NoBuildRunsTwice
<1>4. \A e \in Builds : InQueue(e) => InQueue(e)' \/ e = b
  <2> SUFFICES ASSUME NEW e \in Builds, NEW i \in 1 .. Len(queue), queue[i] = e, e # b
               PROVE  InQueue(e)'
    BY DEF InQueue
  <2>1. i - 1 \in 1 .. Len(queue') /\ queue'[i - 1] = e
    BY <1>2
  <2> QED BY <2>1 DEF InQueue
<1>5. /\ status[b] = "queued"
      /\ InQueue(b)
  BY <1>2 DEF IInv, Hands, QueueHolds, InQueue
<1>6. \A v \in Workers : job[v] # b
  BY <1>2, <1>5, NoneAssumption DEF IInv, NoBuildRunsTwice
<1>7. Hands'
  <2>1. RequestsHold'
    BY <1>1 DEF IInv, Hands, RequestsHold
  <2>2. QueueHolds'
    BY <1>1, <1>2 DEF IInv, Hands, QueueHolds
  <2>3. StatusFollowsWorker'
    BY <1>1, <1>5, StateNames DEF IInv, Hands, StatusFollowsWorker
  <2>4. FailingHolds'
    BY <1>1 DEF IInv, Hands, FailingHolds
  <2> QED BY <2>1, <2>2, <2>3, <2>4 DEF Hands
<1>8. NoBuildRunsTwice'
  <2>1. \A i, j \in 1 .. Len(queue') : queue'[i] = queue'[j] => i = j
    <3> SUFFICES ASSUME NEW i \in 1 .. Len(queue'), NEW j \in 1 .. Len(queue'),
                        queue'[i] = queue'[j]
                 PROVE  i = j
      OBVIOUS
    <3>1. i + 1 \in 1 .. Len(queue) /\ j + 1 \in 1 .. Len(queue)
      BY <1>2
    <3>2. i + 1 = j + 1
      BY <1>2, <3>1 DEF IInv, NoBuildRunsTwice
    <3> QED BY <3>2
  <2>2. \A u, v \in Workers : job'[u] = job'[v] /\ job'[u] # None => u = v
    BY <1>1, <1>6 DEF IInv, NoBuildRunsTwice
  <2>3. \A v \in Workers : job'[v] # None => ~InQueue(job[v])'
    BY <1>1, <1>2, <1>3, <1>6, HeldStatus DEF IInv, NoBuildRunsTwice
  <2>4. \A c \in Clients, e \in Builds : Putting(c, e)' =>
          ~InQueue(e)' /\ \A v \in Workers : job'[v] # e
    BY <1>1, <1>3, <1>5 DEF IInv, NoBuildRunsTwice, Putting
  <2> QED BY <2>1, <2>2, <2>3, <2>4 DEF NoBuildRunsTwice
<1>9. NoBuildIsLost'
  <2> SUFFICES ASSUME up, NEW e \in Builds, status[e] \in Active, e # b
               PROVE  \/ /\ status[e] = "queued"
                         /\ InQueue(e)' \/ \E c \in Clients : Putting(c, e)'
                      \/ \E v \in Workers : job'[v] = e
    BY <1>1 DEF NoBuildIsLost
  <2>1. \/ /\ status[e] = "queued"
           /\ InQueue(e) \/ \E c \in Clients : Putting(c, e)
        \/ \E v \in Workers : job[v] = e
    BY DEF IInv, NoBuildIsLost
  <2>2. \A v \in Workers : job[v] = e => job'[v] = e
    BY <1>1, NoneAssumption
  <2> QED BY <1>1, <1>4, <2>1, <2>2 DEF Putting
<1>10. StoppedHoldsNothing'
  BY <1>1 DEF IInv, StoppedHoldsNothing
<1> QED BY <1>7, <1>8, <1>9, <1>10 DEF IInv

\* A worker that stays with its build: it moves to another place in run, and
\* may set the build's status.  b is its build, s the status it leaves.
LEMMA WorkInv ==
  ASSUME IInv, Typed', NEW w \in Workers, NEW b \in Builds, NEW s \in Rows \cup {"deleted"},
         job[w] = b,
         NEW pc \in (Held \cup {"dead"}) \ {"taken"},
         wpc' = [wpc EXCEPT ![w] = pc],
         status' = [status EXCEPT ![b] = s],
         pc = "begun" => s = "preparing",
         pc \in Stages => s = pc,
         pc = "tail" => s = "ready",
         pc \in {"fail", "loopfail", "dead"} =>
            s \in Running \cup {"ready", "deleted"},
         UNCHANGED <<built, nextVersion, queue, current, job, reqVars, up, crashes>>
  PROVE  IInv'
<1> USE DEF rowVars, workVars, reqVars, envVars
<1>1. /\ wpc'[w] = pc
      /\ \A v \in Workers \ {w} : wpc'[v] = wpc[v]
      /\ status'[b] = s
      /\ \A e \in Builds \ {b} : status'[e] = status[e]
  BY DEF IInv, Typed, TypeOK
<1>2. /\ job[w] = b
      /\ b # None
      /\ \A v \in Workers \ {w} : job[v] # b
      /\ \A v \in Workers : wpc[v] \in Held \cup {"dead"} => job[v] \in Builds
  BY NoneAssumption DEF IInv, NoBuildRunsTwice, Typed, TypeOK, Shape
<1>3. /\ status[b] \in Rows \cup {"deleted"}
      /\ \A i \in 1 .. Len(queue) : queue[i] # b /\ queue[i] \in Builds
      /\ \A c \in Clients : rpc[c] = "put" => req[c].build # b
  BY <1>2, HeldStatus, StateNames DEF IInv, Typed, TypeOK
<1>4. \A c \in Clients : rpc[c] \in Checking => req[c].build \in Builds \ {b}
  BY <1>3, StateNames DEF IInv, Hands, RequestsHold, Typed, Shape
<1>5. \A v \in Workers \ {w} :
        wpc[v] \in Held \cup {"dead"} => status'[job[v]] = status[job[v]]
  BY <1>1, <1>2
<1>6. RequestsHold'
  BY <1>1, <1>3, <1>4 DEF IInv, Hands, RequestsHold, Typed, Shape
<1>7. QueueHolds'
  BY <1>1, <1>3 DEF IInv, Hands, QueueHolds
<1>8. StatusFollowsWorker'
  <2> SUFFICES ASSUME NEW v \in Workers
               PROVE  /\ wpc'[v] = "taken" => status'[job[v]] = "queued"
                      /\ wpc'[v] = "begun" => status'[job[v]] = "preparing"
                      /\ wpc'[v] \in Stages => status'[job[v]] = wpc'[v]
                      /\ wpc'[v] = "tail" => status'[job[v]] \in {"ready", "deleted"}
    BY DEF StatusFollowsWorker
  <2>1. CASE v = w
    BY <1>1, <1>2, <2>1
  <2>2. CASE v # w
    BY <1>1, <1>5, <2>2 DEF IInv, Hands, StatusFollowsWorker
  <2> QED BY <2>1, <2>2
<1>9. FailingHolds'
  BY <1>1, <1>2, <1>5 DEF IInv, Hands, FailingHolds
<1>10. NoBuildRunsTwice'
  BY DEF IInv, NoBuildRunsTwice, InQueue, Putting
<1>11. NoBuildIsLost'
  BY <1>1, <1>2 DEF IInv, NoBuildIsLost, InQueue, Putting
<1>12. StoppedHoldsNothing'
  BY <1>2, StateNames DEF IInv, StoppedHoldsNothing, Typed, Shape
<1> QED BY <1>6, <1>7, <1>8, <1>9, <1>10, <1>11, <1>12 DEF IInv, Hands

\* A worker that is done with its build, which no longer is active.
LEMMA ReleaseInv ==
  ASSUME IInv, Typed', NEW w \in Workers, NEW b \in Builds, job[w] = b,
         NEW s \in Finished \cup {"deleted"},
         status' = [status EXCEPT ![b] = s],
         Release(w), UNCHANGED envVars
  PROVE  IInv'
<1> USE DEF rowVars, workVars, reqVars, envVars
<1>1. /\ wpc'[w] = "idle"
      /\ job'[w] = None
      /\ \A v \in Workers \ {w} : wpc'[v] = wpc[v] /\ job'[v] = job[v]
      /\ status'[b] = s
      /\ \A e \in Builds \ {b} : status'[e] = status[e]
      /\ UNCHANGED <<built, nextVersion, queue, current, reqVars>>
  BY DEF IInv, Typed, TypeOK, Release, Goto
<1>2. /\ b # None
      /\ s \notin Active
      /\ \A v \in Workers \ {w} : job[v] # b
      /\ \A v \in Workers : wpc[v] \in Held \cup {"dead"} => job[v] \in Builds
  BY NoneAssumption, StateNames
     DEF IInv, NoBuildRunsTwice, Typed, TypeOK, Shape, Finished
<1>3. /\ status[b] \in Rows \cup {"deleted"}
      /\ \A i \in 1 .. Len(queue) : queue[i] # b /\ queue[i] \in Builds
      /\ \A c \in Clients : rpc[c] = "put" => req[c].build # b
  BY <1>2, HeldStatus, StateNames DEF IInv, Typed, TypeOK
<1>4. \A c \in Clients : rpc[c] \in Checking => req[c].build \in Builds \ {b}
  BY <1>3, StateNames DEF IInv, Hands, RequestsHold, Typed, Shape
<1>5. \A v \in Workers \ {w} :
        wpc[v] \in Held \cup {"dead"} => status'[job[v]] = status[job[v]]
  BY <1>1, <1>2
<1>6. RequestsHold'
  BY <1>1, <1>3, <1>4 DEF IInv, Hands, RequestsHold, Typed, Shape
<1>7. QueueHolds'
  BY <1>1, <1>3 DEF IInv, Hands, QueueHolds
<1>8. StatusFollowsWorker'
  BY <1>1, <1>5, StateNames DEF IInv, Hands, StatusFollowsWorker
<1>9. FailingHolds'
  BY <1>1, <1>5 DEF IInv, Hands, FailingHolds
<1>10. NoBuildRunsTwice'
  <2>1. \A u, v \in Workers : job'[u] = job'[v] /\ job'[u] # None => u = v
    BY <1>1 DEF IInv, NoBuildRunsTwice
  <2>2. \A v \in Workers : job'[v] # None => ~InQueue(job[v])'
    BY <1>1 DEF IInv, NoBuildRunsTwice, InQueue
  <2>3. \A c \in Clients, e \in Builds : Putting(c, e)' =>
          ~InQueue(e)' /\ \A v \in Workers : job'[v] # e
    BY <1>1, NoneAssumption DEF IInv, NoBuildRunsTwice, InQueue, Putting
  <2> QED BY <1>1, <2>1, <2>2, <2>3 DEF IInv, NoBuildRunsTwice
<1>11. NoBuildIsLost'
  BY <1>1, <1>2 DEF IInv, NoBuildIsLost, InQueue, Putting
<1>12. StoppedHoldsNothing'
  BY <1>1, <1>2, StateNames DEF IInv, StoppedHoldsNothing, Typed, Shape
<1> QED BY <1>6, <1>7, <1>8, <1>9, <1>10, <1>11, <1>12 DEF IInv, Hands

\* What each place in run says about the build and its status.
LEMMA AtWork ==
  ASSUME IInv, NEW w \in Workers, wpc[w] \in Held
  PROVE  /\ job[w] \in Builds
         /\ job[w] # None
         /\ status \in [Builds -> Status]
         /\ status = [status EXCEPT ![job[w]] = status[job[w]]]
         /\ status[job[w]] \in Rows \cup {"deleted"}
  BY HeldStatus, StateNames, NoneAssumption DEF IInv, Typed, TypeOK, Shape

LEMMA RunInv ==
  ASSUME IInv, Typed', NEW w \in Workers, Run(w) \/ LogFault(w)
  PROVE  IInv'
<1> DEFINE b == job[w]
<1> USE DEF Goto, SetStatus, KeepJob, reqVars, envVars, rowVars
<1>1. CASE Take(w)
  BY <1>1, TakeInv
<1>2. CASE Begin(w)
  <2>1. /\ wpc[w] = "taken"
        /\ status[b] = "queued"
    BY <1>2 DEF Begin, IInv, Hands, StatusFollowsWorker
  <2>2. b \in Builds
    BY <2>1, AtWork
  <2> QED BY <1>2, <2>1, <2>2, WorkInv, StateNames DEF Begin
<1>3. CASE Header(w)
  <2>1. wpc[w] = "begun" /\ status[b] = "preparing"
    BY <1>3 DEF Header, IInv, Hands, StatusFollowsWorker
  <2>2. b \in Builds /\ status = [status EXCEPT ![b] = "preparing"]
    BY <2>1, AtWork
  <2> QED BY <1>3, <2>1, <2>2, WorkInv, StateNames DEF Header
<1>4. CASE \E s \in Stages : Stage(w, s)
  <2> PICK s \in Stages : Stage(w, s)
    BY <1>4
  <2>1. b \in Builds
    BY AtWork DEF Stage
  <2> QED BY <2>1, WorkInv, StateNames DEF Stage
<1>5. CASE Ready(w)
  <2>1. b \in Builds
    BY <1>5, AtWork, StateNames DEF Ready
  <2> QED BY <1>5, <2>1, WorkInv, StateNames DEF Ready
<1>6. CASE Announce(w)
  <2>1. wpc[w] = "tail" /\ status[b] \in {"ready", "deleted"}
    BY <1>6 DEF Announce, IInv, Hands, StatusFollowsWorker
  <2>2. b \in Builds /\ status = [status EXCEPT ![b] = status[b]]
    BY <2>1, AtWork
  <2> QED BY <1>6, <2>1, <2>2, ReleaseInv DEF Announce, Finished
<1>7. CASE Raise(w)
  <2>1. wpc[w] \in Stages /\ status[b] = wpc[w]
    BY <1>7 DEF Raise, IInv, Hands, StatusFollowsWorker
  <2>2. b \in Builds /\ status = [status EXCEPT ![b] = status[b]]
    BY <2>1, AtWork
  <2> QED BY <1>7, <2>1, <2>2, WorkInv, StateNames DEF Raise
<1>8. CASE ReportFailure(w)
  <2>1. /\ wpc[w] \in {"fail", "loopfail"}
        /\ status[b] \in Rows \cup {"deleted"}
        /\ b \in Builds
        /\ status = [status EXCEPT ![b] = status[b]]
    BY <1>8, AtWork DEF ReportFailure
  <2>2. CASE status[b] \in Rows
    BY <1>8, <2>1, <2>2, ReleaseInv DEF ReportFailure, Finished
  <2>3. CASE status[b] \notin Rows
    BY <1>8, <2>1, <2>3, ReleaseInv DEF ReportFailure, Finished
  <2> QED BY <2>2, <2>3
<1>9. CASE LogFault(w)
  <2>1. /\ wpc[w] \in {"begun", "tail", "fail", "loopfail"}
        /\ wpc' = [wpc EXCEPT ![w] = Escape[wpc[w]]]
        /\ Escape[wpc[w]] \in {"fail", "loopfail", "dead"}
    BY <1>9 DEF LogFault, Escape
  <2>2. status[b] \in Running \cup {"ready", "deleted"}
    BY <2>1, StateNames DEF IInv, Hands, StatusFollowsWorker, FailingHolds
  <2>3. b \in Builds /\ status = [status EXCEPT ![b] = status[b]]
    BY <2>1, AtWork
  <2>4. UNCHANGED <<built, nextVersion, queue, current, job, reqVars, up, crashes>>
        /\ status' = status
    BY <1>9 DEF LogFault
  <2>5. PICK pc \in {"fail", "loopfail", "dead"} : pc = Escape[wpc[w]]
    BY <2>1
  <2>6. /\ pc \in (Held \cup {"dead"}) \ {"taken"}
        /\ pc \notin Stages \cup {"begun", "tail"}
    BY StateNames
  <2>7. status[b] \in Rows \cup {"deleted"}
    BY <2>2, StateNames
  <2> QED BY <2>1, <2>2, <2>3, <2>4, <2>5, <2>6, <2>7, WorkInv
<1> QED BY <1>1, <1>2, <1>3, <1>4, <1>5, <1>6, <1>7, <1>8, <1>9 DEF Run

-----------------------------------------------------------------------------
(***************************************************************************)
(* Deletion, a stop, a start, and the whole                                *)
(***************************************************************************)
LEMMA DeleteInv ==
  ASSUME IInv, Typed', NEW b \in Builds, Delete(b)
  PROVE  IInv'
<1> USE DEF workVars, reqVars, envVars
<1>1. /\ status[b] \in {"ready", "failed"}
      /\ status'[b] = "deleted"
      /\ \A e \in Builds \ {b} : status'[e] = status[e]
      /\ UNCHANGED <<built, nextVersion, workVars, reqVars, envVars>>
  BY DEF Delete, SetStatus, Finished, IInv, Typed, TypeOK
<1>2. \A w \in Workers : wpc[w] \in Held \cup {"dead"} => job[w] \in Builds
  BY NoneAssumption DEF IInv, Typed, TypeOK, Shape
<1>3. RequestsHold'
  BY <1>1, StateNames DEF IInv, Hands, RequestsHold, Typed, Shape
<1>4. QueueHolds'
  BY <1>1 DEF IInv, Hands, QueueHolds, Typed, TypeOK
<1>5. StatusFollowsWorker'
  BY <1>1, <1>2, StateNames DEF IInv, Hands, StatusFollowsWorker
<1>6. FailingHolds'
  BY <1>1, <1>2 DEF IInv, Hands, FailingHolds
<1>7. NoBuildRunsTwice'
  BY <1>1 DEF IInv, NoBuildRunsTwice, InQueue, Putting
<1>8. NoBuildIsLost'
  BY <1>1, StateNames DEF IInv, NoBuildIsLost, InQueue, Putting
<1>9. StoppedHoldsNothing'
  BY <1>1 DEF IInv, StoppedHoldsNothing
<1> QED BY <1>3, <1>4, <1>5, <1>6, <1>7, <1>8, <1>9 DEF IInv, Hands

LEMMA CrashInv == ASSUME IInv, Typed', Crash PROVE IInv'
<1> USE DEF rowVars
<1>1. Hands'
  BY StateNames DEF Crash, Hands, RequestsHold, QueueHolds,
                    StatusFollowsWorker, FailingHolds
<1>2. NoBuildRunsTwice' /\ NoBuildIsLost'
  BY DEF Crash, NoBuildRunsTwice, NoBuildIsLost, InQueue, Putting
<1>3. StoppedHoldsNothing'
  BY DEF Crash, StoppedHoldsNothing
<1> QED BY <1>1, <1>2, <1>3 DEF IInv

LEMMA RestartInv == ASSUME IInv, Typed', Restart PROVE IInv'
<1> USE DEF workVars, reqVars
<1>1. /\ queue' = <<>>
      /\ \A w \in Workers : wpc'[w] = "none"
      /\ \A c \in Clients : rpc'[c] = "idle"
      /\ UNCHANGED <<workVars, reqVars>>
  BY DEF Restart, IInv, StoppedHoldsNothing
<1>2. \A b \in Builds : status'[b] \notin Active
  BY StateNames DEF Restart
<1>3. Hands'
  BY <1>1, StateNames DEF Hands, RequestsHold, QueueHolds,
                          StatusFollowsWorker, FailingHolds
<1>4. NoBuildRunsTwice'
  BY <1>1 DEF IInv, NoBuildRunsTwice, InQueue, Putting
<1>5. NoBuildIsLost'
  BY <1>2 DEF NoBuildIsLost
<1>6. StoppedHoldsNothing'
  BY DEF Restart, StoppedHoldsNothing
<1> QED BY <1>3, <1>4, <1>5, <1>6 DEF IInv

LEMMA StutterInv == ASSUME IInv, UNCHANGED vars PROVE IInv'
  BY DEF vars, rowVars, workVars, reqVars, envVars, IInv, Typed, TypeOK, Shape,
         Hands, RequestsHold, QueueHolds, StatusFollowsWorker, FailingHolds,
         NoBuildRunsTwice, NoBuildIsLost, InQueue, Putting,
         StoppedHoldsNothing

LEMMA NextInv == IInv /\ [Next]_vars => IInv'
<1> SUFFICES ASSUME IInv, [Next]_vars PROVE IInv'
  OBVIOUS
<1>1. Typed'
  BY NextTyped DEF IInv
<1>2. CASE \E c \in Clients, p \in Projects, v \in Versions, b \in Builds :
             Load(c, p, v, b)
  BY <1>1, <1>2, LoadInv
<1>3. CASE \E c \in Clients : Request(c)
  BY <1>1, <1>3, RequestInv
<1>4. CASE \E w \in Workers : Run(w) \/ LogFault(w)
  BY <1>1, <1>4, RunInv
<1>5. CASE \E b \in Builds : Delete(b)
  BY <1>1, <1>5, DeleteInv
<1>6. CASE Crash
  BY <1>1, <1>6, CrashInv
<1>7. CASE Restart
  BY <1>1, <1>7, RestartInv
<1>8. CASE UNCHANGED vars
  BY <1>8, StutterInv
<1> QED BY <1>2, <1>3, <1>4, <1>5, <1>6, <1>7, <1>8 DEF Next

\* The strengthening is inductive from the initial states on.
THEOREM Inductive == Spec => []IInv
  BY InitInv, NextInv, PTL DEF Spec

\* While the process runs, an active build is in the hands of its request, in
\* the queue, or with a worker: enqueue, the worker loop, deletions, stops and
\* recovery never lose one between them.
THEOREM NothingLost == Spec => []NoBuildIsLost
  BY Inductive, PTL DEF IInv

\* Two worker threads may run at once, but never the same build: the queue
\* hands every build to one thread, once.
THEOREM NothingRunTwice == Spec => []NoBuildRunsTwice
  BY Inductive, PTL DEF IInv

\* The status column is where the worker is.
THEOREM StatusIsTheWorkers == Spec => []StatusFollowsWorker
  BY Inductive, PTL DEF IInv, Hands

-----------------------------------------------------------------------------
(***************************************************************************)
(* Versions and numbers: the database's unique constraints are the only    *)
(* guard that matters, and no other step adds or changes a row's columns.  *)
(***************************************************************************)
\* Only a commit inserts a row, sets a row's columns, moves a suggestion or
\* makes a build active.
LEMMA OthersInsertNothing ==
  ASSUME IInv, [Next]_vars, ~\E c \in Clients : Commit(c) /\ ~Collides(c)
  PROVE  /\ built' = built
         /\ nextVersion' = nextVersion
         /\ \A b \in Builds : status'[b] \in Rows => status[b] \in Rows
         /\ \A b \in Builds : status'[b] \in Active => status[b] \in Active
<1> USE DEF rowVars, workVars, reqVars, envVars
<1>1. CASE \E c \in Clients, p \in Projects, v \in Versions, b \in Builds :
             Load(c, p, v, b)
  BY <1>1 DEF Load
<1>2. CASE \E c \in Clients : Request(c)
  BY <1>2 DEF Request, CheckVersion, CheckRunning, TakeNumber, Commit, Put,
              StartCheck, Spawn
<1>3. CASE \E w \in Workers : Run(w) \/ LogFault(w)
  <2> PICK w \in Workers : Run(w) \/ LogFault(w)
    BY <1>3
  <2> USE DEF SetStatus, KeepJob, Release
  <2>1. built' = built /\ nextVersion' = nextVersion
    BY DEF Run, Take, Begin, Header, Stage, Ready, Announce, Raise,
           ReportFailure, LogFault
  <2>2. CASE wpc[w] \in Stages \cup {"begun"}
    <3>1. status[job[w]] \in Running
      BY <2>2, StateNames DEF IInv, Hands, StatusFollowsWorker
    <3>2. \A e \in Builds : e # job[w] => status'[e] = status[e]
      BY <2>2, StateNames
         DEF Run, Take, Begin, Header, Stage, Ready, Announce, Raise,
             ReportFailure, LogFault, IInv, Typed, TypeOK
    <3> QED BY <2>1, <3>1, <3>2, StateNames
  <2>3. CASE wpc[w] \notin Stages \cup {"begun"}
    BY <2>1, <2>3, StateNames
       DEF Run, Take, Begin, Header, Stage, Ready, Announce, Raise,
           ReportFailure, LogFault, IInv, Typed, TypeOK
  <2> QED BY <2>2, <2>3
<1>4. CASE \E b \in Builds : Delete(b)
  BY <1>4, StateNames DEF Delete, SetStatus, Finished, IInv, Typed, TypeOK
<1>5. CASE Crash
  BY <1>5 DEF Crash
<1>6. CASE Restart
  BY <1>6, StateNames DEF Restart
<1>7. CASE UNCHANGED vars
  BY <1>7 DEF vars
<1> QED BY <1>1, <1>2, <1>3, <1>4, <1>5, <1>6, <1>7 DEF Next

LEMMA UniqueStep ==
  ASSUME IInv, IInv', VersionsAndNumbersUnique, [Next]_vars
  PROVE  VersionsAndNumbersUnique'
<1> USE DEF rowVars, workVars, reqVars, envVars
<1>1. CASE \E c \in Clients : Commit(c) /\ ~Collides(c)
  <2> PICK c \in Clients : Commit(c) /\ ~Collides(c)
    BY <1>1
  <2> DEFINE b == req[c].build
  <2>1. /\ b \in Builds
        /\ status' = [status EXCEPT ![b] = "queued"]
        /\ built' = [built EXCEPT ![b] =
             [project |-> req[c].project, version |-> req[c].version,
              number |-> req[c].number]]
    BY DEF Commit, IInv, Typed, Shape
  <2>2. /\ \A e \in Builds \ {b} : status'[e] = status[e] /\ built'[e] = built[e]
        /\ built'[b].project = req[c].project
        /\ built'[b].version = req[c].version
        /\ built'[b].number = req[c].number
    BY <2>1 DEF IInv, Typed, TypeOK
  <2>3. \A e \in Builds \ {b} : e \in RowSet' =>
          /\ e \in RowSet
          /\ built[e].number # req[c].number
          /\ built[e].project # req[c].project \/ built[e].version # req[c].version
    BY <2>2 DEF RowSet, Collides
  <2> QED BY <2>2, <2>3 DEF VersionsAndNumbersUnique, RowSet
<1>2. CASE ~\E c \in Clients : Commit(c) /\ ~Collides(c)
  BY <1>2, OthersInsertNothing DEF VersionsAndNumbersUnique, RowSet
<1> QED BY <1>1, <1>2

\* Whatever requests race past start_build's checks, no version of a project
\* exists twice and no number names two builds.
THEOREM UniqueVersions == Spec => []VersionsAndNumbersUnique
<1>1. Init => VersionsAndNumbersUnique
  BY StateNames DEF Init, VersionsAndNumbersUnique, RowSet
<1>2. IInv /\ IInv' /\ VersionsAndNumbersUnique /\ [Next]_vars
        => VersionsAndNumbersUnique'
  BY UniqueStep
<1> QED BY Inductive, <1>1, <1>2, PTL DEF Spec

-----------------------------------------------------------------------------
(***************************************************************************)
(* Refinement: every step of the threads is a step of BuildLifecycle or    *)
(* leaves the records alone.                                               *)
(***************************************************************************)
LEMMA WorkRefines ==
  ASSUME IInv, NEW w \in Workers, Run(w) \/ LogFault(w)
  PROVE  [Lifecycle!Next]_status
<1> USE StateNames
<1> USE DEF SetStatus, KeepJob, Release
<1>1. status \in [Builds -> Status]
  BY DEF IInv, Typed, TypeOK
<1>2. CASE Begin(w)
  <2>1. CASE status[job[w]] = "queued"
    <3>1. job[w] \in Builds
      BY <1>2 DEF Begin, IInv, Typed, TypeOK, Shape
    <3>2. Lifecycle!Begin(job[w])
      BY <1>2, <2>1 DEF Begin, Lifecycle!Begin
    <3> QED BY <3>1, <3>2 DEF Lifecycle!Next
  <2>2. CASE status[job[w]] # "queued"
    BY <1>2, <2>2 DEF Begin
  <2> QED BY <2>1, <2>2
<1>3. CASE (\E s \in Stages : Stage(w, s)) \/ Ready(w)
  <2>1. wpc[w] \in Stages /\ job[w] \in Builds
    BY <1>3 DEF Stage, Ready, IInv, Typed, TypeOK, Shape
  <2>2. status[job[w]] = wpc[w]
    BY <2>1 DEF IInv, Hands, StatusFollowsWorker
  <2>3. PICK s \in After(wpc[w]) : status' = [status EXCEPT ![job[w]] = s]
    <3>1. "ready" \in After("exporting")
      BY DEF After, Pipeline
    <3> QED BY <1>3, <3>1 DEF Stage, Ready
  <2>4. Lifecycle!Advance(job[w])
    BY <2>2, <2>3 DEF Lifecycle!Advance, Lifecycle!After, Lifecycle!Pipeline,
                      Lifecycle!Running, After, Pipeline
  <2> QED BY <2>1, <2>4 DEF Lifecycle!Next
<1>4. CASE ReportFailure(w)
  <2>1. CASE status[job[w]] \in Active \cup {"ready"}
    <3>1. job[w] \in Builds
      BY <1>4 DEF ReportFailure, IInv, Typed, TypeOK, Shape
    <3>2. status' = [b \in Builds |-> IF b \in {job[w]} THEN "failed" ELSE status[b]]
      BY <1>1, <1>4, <2>1, <3>1 DEF ReportFailure
    <3>3. Lifecycle!Fail({job[w]})
      BY <2>1, <3>2 DEF Lifecycle!Fail, Lifecycle!Active, Lifecycle!Running
    <3> QED BY <3>1, <3>3 DEF Lifecycle!Next
  <2>2. CASE status[job[w]] \notin Active \cup {"ready"}
    BY <1>1, <1>4, <2>2 DEF ReportFailure
  <2> QED BY <2>1, <2>2
<1>5. CASE Take(w) \/ Header(w) \/ Announce(w) \/ Raise(w) \/ LogFault(w)
  BY <1>5 DEF Take, Header, Announce, Raise, LogFault, rowVars
<1> QED BY <1>2, <1>3, <1>4, <1>5 DEF Run

LEMMA StepRefines ==
  ASSUME IInv, [Next]_vars
  PROVE  [Lifecycle!Next]_status
<1> USE StateNames DEF rowVars
<1>1. status \in [Builds -> Status]
  BY DEF IInv, Typed, TypeOK
<1>2. CASE \E c \in Clients, p \in Projects, v \in Versions, b \in Builds :
             Load(c, p, v, b)
  BY <1>2 DEF Load
<1>3. CASE \E c \in Clients : Request(c)
  <2> PICK c \in Clients : Request(c)
    BY <1>3
  <2>1. CASE Commit(c) /\ ~Collides(c)
    <3>1. req[c].build \in Builds /\ status[req[c].build] = "absent"
      BY <2>1 DEF Commit, IInv, Typed, Shape, Hands, RequestsHold
    <3>2. Lifecycle!Create(req[c].build)
      BY <2>1, <3>1 DEF Commit, Lifecycle!Create
    <3> QED BY <3>1, <3>2 DEF Lifecycle!Next
  <2>2. CASE ~(Commit(c) /\ ~Collides(c))
    BY <2>2 DEF Request, CheckVersion, CheckRunning, TakeNumber, Commit, Put,
                StartCheck, Spawn
  <2> QED BY <2>1, <2>2
<1>4. CASE \E w \in Workers : Run(w) \/ LogFault(w)
  BY <1>4, WorkRefines
<1>5. CASE \E b \in Builds : Delete(b)
  BY <1>5 DEF Delete, SetStatus, Finished, Lifecycle!Next, Lifecycle!Delete,
              Lifecycle!Finished
<1>6. CASE Crash
  BY <1>6 DEF Crash
<1>7. CASE Restart
  <2> DEFINE S == {b \in Builds : status[b] \in Active}
  <2>1. status' = [b \in Builds |-> IF b \in S THEN "failed" ELSE status[b]]
    BY <1>7 DEF Restart
  <2>2. Lifecycle!Fail(S)
    BY <2>1 DEF Lifecycle!Fail, Lifecycle!Active, Lifecycle!Running
  <2> QED BY <2>2 DEF Lifecycle!Next
<1>8. CASE UNCHANGED vars
  BY <1>8 DEF vars
<1> QED BY <1>2, <1>3, <1>4, <1>5, <1>6, <1>7, <1>8 DEF Next

\* The queue, its threads and the recovery implement the promised life of a
\* build record: created queued, forward through the pipeline, finished once.
THEOREM Refinement == Spec => ImplementsLifecycle
<1>1. Init => Lifecycle!Init
  BY DEF Init, Lifecycle!Init
<1>2. IInv /\ [Next]_vars => [Lifecycle!Next]_status
  BY StepRefines
<1> QED BY Inductive, <1>1, <1>2, PTL
           DEF Spec, ImplementsLifecycle, Lifecycle!Spec

\* No late worker, recovery or request reopens a finished build.
THEOREM FinishedForGood == Spec => FinishedStaysFinished
<1> DEFINE Kept == \A b \in Builds : status[b] \in Finished =>
                     status'[b] \in Finished \cup {"deleted"}
<1>1. ASSUME IInv, [Next]_vars
      PROVE  Kept
  <2>1. status \in [Builds -> Status]
    BY <1>1 DEF IInv, Typed, TypeOK
  <2>2. [Lifecycle!Next]_status
    BY <1>1, StepRefines
  <2> QED BY <2>1, <2>2, StateNames
          DEF Finished, Lifecycle!Next, Lifecycle!Create, Lifecycle!Begin,
              Lifecycle!Advance, Lifecycle!After, Lifecycle!Pipeline,
              Lifecycle!Running, Lifecycle!Fail, Lifecycle!Delete,
              Lifecycle!Finished
<1>2. IInv /\ [Next]_vars => [Kept]_vars
  BY <1>1
<1> QED BY Inductive, <1>2, PTL DEF Spec, FinishedStaysFinished

-----------------------------------------------------------------------------
(***************************************************************************)
(* One request at a time.  What two racing requests may break (a second    *)
(* active build of a project, a suggestion already built) holds with one   *)
(* API thread in start_build; a refused log write does not matter here.    *)
(***************************************************************************)
OneRequestAtATime == \A c, d \in Clients : c = d

\* Between its first query and its commit a request's view stays true: the
\* suggestion it read is the project's, and a project it found clear is clear.
ViewIsCurrent ==
  \A c \in Clients :
    /\ rpc[c] \in Checking => req[c].seen = nextVersion[req[c].project]
    /\ rpc[c] \in {"clear", "numbered"} =>
         \A b \in Builds : status[b] \in Active => built[b].project # req[c].project

RowsHaveProjects == \A b \in RowSet : built[b].project \in Projects

SerialInv == /\ ViewIsCurrent
             /\ RowsHaveProjects
             /\ OneActivePerProject
             /\ SuggestionIsFree

LEMMA CommitSerial ==
  ASSUME OneRequestAtATime, IInv, SerialInv,
         NEW c \in Clients, Commit(c), ~Collides(c)
  PROVE  SerialInv'
<1> DEFINE b == req[c].build
           p == req[c].project
           v == req[c].version
<1>1. /\ b \in Builds /\ p \in Projects /\ v \in Versions
      /\ rpc[c] = "numbered"
      /\ status[b] = "absent"
      /\ status' = [status EXCEPT ![b] = "queued"]
      /\ built' = [built EXCEPT ![b] =
           [project |-> p, version |-> v, number |-> req[c].number]]
      /\ nextVersion' = [q \in Projects |-> Suggestion(c, q)]
      /\ rpc' = [rpc EXCEPT ![c] = "put"]
  BY DEF Commit, IInv, Typed, Shape, Hands, RequestsHold
<1>2. /\ \A e \in Builds \ {b} : status'[e] = status[e] /\ built'[e] = built[e]
      /\ status'[b] = "queued"
      /\ built'[b].project = p
      /\ built'[b].version = v
  BY <1>1 DEF IInv, Typed, TypeOK
<1>3. ViewIsCurrent'
  BY <1>1 DEF OneRequestAtATime, ViewIsCurrent, IInv, Typed, TypeOK
<1>4. OneActivePerProject'
  BY <1>1, <1>2 DEF SerialInv, ViewIsCurrent, OneActivePerProject
<1>5. \A q \in Projects : /\ nextVersion[q] \in Nat
                          /\ nextVersion'[q] \in Nat
                          /\ nextVersion'[q] >= nextVersion[q]
                          /\ q = p => nextVersion'[q] > v
  <2> TAKE q \in Projects
  <2>1. nextVersion[q] \in Nat /\ v \in Nat /\ req[c].seen = nextVersion[p]
    BY <1>1, MaxVersionAssumption
       DEF IInv, Typed, TypeOK, Versions, SerialInv, ViewIsCurrent
  <2>2. nextVersion'[q] = IF q = p /\ v + 1 > nextVersion[p] THEN v + 1
                                                            ELSE nextVersion[q]
    BY <1>1, <2>1 DEF Suggestion
  <2> QED BY <2>1, <2>2
<1>6. SuggestionIsFree'
  <2> SUFFICES ASSUME NEW e \in Builds, status'[e] \in Rows
               PROVE  built'[e].version < nextVersion'[built'[e].project]
    BY DEF SuggestionIsFree, RowSet
  <2>1. CASE e = b
    BY <1>1, <1>2, <1>5, <2>1, MaxVersionAssumption DEF Versions
  <2>2. CASE e # b
    <3>1. /\ e \in RowSet
          /\ built'[e] = built[e]
      BY <1>2, <2>2 DEF RowSet
    <3>2. built[e].version < nextVersion[built[e].project]
      BY <3>1 DEF SerialInv, SuggestionIsFree
    <3>3. built[e].version \in Nat /\ built[e].project \in Projects
      BY <3>1, MaxVersionAssumption
         DEF SerialInv, RowsHaveProjects, IInv, Typed, TypeOK, RowType, Versions
    <3> QED BY <1>5, <3>1, <3>2, <3>3
  <2> QED BY <2>1, <2>2
<1>7. RowsHaveProjects'
  BY <1>1, <1>2 DEF SerialInv, RowsHaveProjects, RowSet
<1> QED BY <1>3, <1>4, <1>6, <1>7 DEF SerialInv

LEMMA SerialStep ==
  ASSUME OneRequestAtATime, IInv, IInv', SerialInv, [Next]_vars
  PROVE  SerialInv'
<1>1. CASE \E c \in Clients : Commit(c) /\ ~Collides(c)
  BY <1>1, CommitSerial
<1>2. CASE ~\E c \in Clients : Commit(c) /\ ~Collides(c)
  <2>1. /\ built' = built
        /\ nextVersion' = nextVersion
        /\ \A b \in Builds : status'[b] \in Rows => status[b] \in Rows
        /\ \A b \in Builds : status'[b] \in Active => status[b] \in Active
    BY <1>2, OthersInsertNothing
  <2>2. RowsHaveProjects' /\ OneActivePerProject' /\ SuggestionIsFree'
    BY <2>1 DEF SerialInv, RowsHaveProjects, OneActivePerProject,
                SuggestionIsFree, RowSet
  <2>3. ASSUME NEW c \in Clients, rpc'[c] \in Checking
        PROVE  \/ req'[c].seen = nextVersion[req'[c].project] /\ rpc'[c] = "loaded"
               \/ /\ rpc[c] \in Checking
                  /\ req'[c].seen = req[c].seen
                  /\ req'[c].project = req[c].project
                  /\ rpc'[c] \in {"clear", "numbered"} =>
                       \/ rpc[c] \in {"clear", "numbered"}
                       \/ \A b \in Builds : status[b] \in Active =>
                                              built[b].project # req[c].project
    <3> USE DEF rowVars, workVars, reqVars, envVars, IInv, Typed, TypeOK
    <3>1. CASE \E d \in Clients, p \in Projects, v \in Versions, b \in Builds :
                 Load(d, p, v, b)
      BY <2>3, <3>1 DEF Load
    <3>2. CASE \E d \in Clients : CheckVersion(d) \/ CheckRunning(d) \/ Commit(d)
                                 \/ Put(d) \/ StartCheck(d)
      BY <2>3, <3>2 DEF CheckVersion, CheckRunning, Commit, Put, StartCheck, Refuse
    <3>3. CASE \E d \in Clients : \/ \E n \in 1 .. Cardinality(Builds) + 1 : TakeNumber(d, n)
                                  \/ \E w \in Workers : Spawn(d, w)
      BY <2>3, <3>3 DEF TakeNumber, Spawn, Numbered
    <3>4. CASE \E w \in Workers : Run(w) \/ LogFault(w)
      BY <2>3, <3>4 DEF Run, Take, Begin, Header, Stage, Ready, Announce, Raise,
                        ReportFailure, LogFault, KeepJob, Release
    <3>5. CASE \/ \E b \in Builds : Delete(b)
               \/ Crash
               \/ Restart
               \/ UNCHANGED vars
      BY <2>3, <3>5 DEF Delete, Crash, Restart, vars
    <3> QED BY <3>1, <3>2, <3>3, <3>4, <3>5 DEF Next, Request
  <2>4. ViewIsCurrent'
    BY <2>1, <2>3 DEF SerialInv, ViewIsCurrent
  <2> QED BY <2>2, <2>4 DEF SerialInv
<1> QED BY <1>1, <1>2

LEMMA SerialInit == Init => SerialInv
  BY StateNames DEF Init, SerialInv, ViewIsCurrent, RowsHaveProjects,
                    OneActivePerProject, SuggestionIsFree, RowSet

\* The strengthening for one request at a time is an invariant.
THEOREM Serial == ASSUME OneRequestAtATime PROVE Spec => []SerialInv
<1>1. IInv /\ IInv' /\ SerialInv /\ [Next]_vars => SerialInv'
  BY SerialStep
<1> QED BY Inductive, SerialInit, <1>1, PTL DEF Spec

\* With one request at a time no project ever has two active builds, whatever
\* the workers, deletions and restarts do meanwhile: the query behind "A build
\* for this project is already running" misses none.
THEOREM OneBuildPerProject ==
  ASSUME OneRequestAtATime PROVE Spec => []OneActivePerProject
  BY Serial, PTL DEF SerialInv

\* With one request at a time, the suggested version is above every version
\* the project has built.
THEOREM SuggestionUsable ==
  ASSUME OneRequestAtATime PROVE Spec => []SuggestionIsFree
  BY Serial, PTL DEF SerialInv

-----------------------------------------------------------------------------
(***************************************************************************)
(* No refused log write.  Nothing is raised outside the stages, so a run   *)
(* that is about to report a failure has not made its build ready, and no  *)
(* thread ever ends.                                                       *)
(***************************************************************************)
NoRefusedWrite == MaxFaults = 0

FailsBeforeReady ==
  \A w \in Workers : /\ wpc[w] \notin {"loopfail", "dead"}
                     /\ wpc[w] = "fail" => status[job[w]] \in Running

LEMMA FailsStep ==
  ASSUME NoRefusedWrite, IInv, IInv', FailsBeforeReady, [Next]_vars
  PROVE  FailsBeforeReady'
<1> USE StateNames DEF rowVars, workVars, reqVars, envVars
<1>1. CASE \E c \in Clients, p \in Projects, v \in Versions, b \in Builds :
             Load(c, p, v, b)
  BY <1>1 DEF Load, FailsBeforeReady
<1>2. CASE \E c \in Clients : Request(c)
  <2> PICK c \in Clients : Request(c)
    BY <1>2
  <2>1. CASE Commit(c) /\ ~Collides(c)
    <3>1. /\ status[req[c].build] = "absent"
          /\ status' = [status EXCEPT ![req[c].build] = "queued"]
          /\ UNCHANGED workVars
      BY <2>1 DEF Commit, IInv, Hands, RequestsHold
    <3> QED BY <3>1 DEF FailsBeforeReady, IInv, Typed, TypeOK
  <2>2. CASE ~(Commit(c) /\ ~Collides(c))
    BY <2>2 DEF Request, CheckVersion, CheckRunning, TakeNumber, Commit, Put,
                StartCheck, Spawn, FailsBeforeReady, IInv, Typed, TypeOK
  <2> QED BY <2>1, <2>2
<1>3. CASE \E w \in Workers : Run(w) \/ LogFault(w)
  <2> PICK w \in Workers : Run(w) \/ LogFault(w)
    BY <1>3
  <2>1. Run(w)
    BY DEF LogFault, NoRefusedWrite, IInv, Typed, TypeOK
  <2>2. /\ wpc'[w] \notin {"loopfail", "dead"}
        /\ wpc'[w] = "fail" => Raise(w)
        /\ \A v \in Workers \ {w} : wpc'[v] = wpc[v] /\ job'[v] = job[v]
        /\ \A b \in Builds : b # job[w] => status'[b] = status[b]
    BY <2>1 DEF Run, Take, Begin, Header, Stage, Ready, Announce, Raise, Goto,
                SetStatus, KeepJob, Release, ReportFailure, FailsBeforeReady,
                IInv, Typed, TypeOK
  <2>3. ASSUME NEW v \in Workers, wpc'[v] = "fail"
        PROVE  status'[job'[v]] \in Running
    <3>1. CASE v = w
      BY <2>2, <2>3, <3>1 DEF Raise, KeepJob, IInv, Hands, StatusFollowsWorker
    <3>2. CASE v # w
      <4>1. job[v] \in Builds /\ job[v] # job[w]
        BY <2>2, <2>3, <3>2 DEF IInv, Typed, TypeOK, Shape, NoBuildRunsTwice
      <4> QED BY <2>2, <2>3, <3>2, <4>1 DEF FailsBeforeReady
    <3> QED BY <3>1, <3>2
  <2> QED BY <2>2, <2>3 DEF FailsBeforeReady
<1>4. CASE \E b \in Builds : Delete(b)
  BY <1>4 DEF Delete, SetStatus, Finished, FailsBeforeReady, IInv, Typed, TypeOK
<1>5. CASE Crash
  BY <1>5 DEF Crash, FailsBeforeReady
<1>6. CASE Restart
  BY <1>6 DEF Restart, FailsBeforeReady, IInv, StoppedHoldsNothing
<1>7. CASE UNCHANGED vars
  BY <1>7 DEF vars, FailsBeforeReady
<1> QED BY <1>1, <1>2, <1>3, <1>4, <1>5, <1>6, <1>7 DEF Next

\* The strengthening for a log volume that takes every write is an invariant:
\* a run that is about to report a failure finds its build still running.
THEOREM FailsEarly == ASSUME NoRefusedWrite PROVE Spec => []FailsBeforeReady
<1>1. Init => FailsBeforeReady
  BY DEF Init, FailsBeforeReady
<1>2. IInv /\ IInv' /\ FailsBeforeReady /\ [Next]_vars => FailsBeforeReady'
  BY FailsStep
<1> QED BY Inductive, <1>1, <1>2, PTL DEF Spec

\* As long as the log volume takes every write, a ready build stays ready and
\* a failed one failed, until it is deleted.
THEOREM FinalWithoutFaults == ASSUME NoRefusedWrite PROVE Spec => FinishedIsFinal
<1> DEFINE Kept == \A b \in Builds : status[b] \in Finished =>
                     status'[b] \in {status[b], "deleted"}
<1>1. ASSUME IInv, FailsBeforeReady, [Next]_vars
      PROVE  Kept
  <2>1. status \in [Builds -> Status]
    BY <1>1 DEF IInv, Typed, TypeOK
  <2> USE StateNames, <1>1 DEF rowVars, workVars, reqVars, envVars
  <2>2. CASE \E c \in Clients, p \in Projects, v \in Versions, b \in Builds :
               Load(c, p, v, b)
    BY <2>2 DEF Load
  <2>3. CASE \E c \in Clients : Request(c)
    <3> PICK c \in Clients : Request(c)
      BY <2>3
    <3>1. rpc[c] = "numbered" => status[req[c].build] = "absent"
      BY DEF IInv, Hands, RequestsHold
    <3> QED BY <2>1, <3>1 DEF Request, CheckVersion, CheckRunning, TakeNumber,
                              Commit, Put, StartCheck, Spawn, Finished
  <2>4. CASE \E w \in Workers : Run(w) \/ LogFault(w)
    <3> PICK w \in Workers : Run(w) \/ LogFault(w)
      BY <2>4
    <3>1. wpc[w] \in Stages \cup {"taken", "begun", "fail", "loopfail"} =>
            status[job[w]] \notin Finished
      BY DEF IInv, Hands, StatusFollowsWorker, FailsBeforeReady, Finished
    <3> QED BY <2>1, <3>1
            DEF Run, Take, Begin, Header, Stage, Ready, Announce, Raise,
                ReportFailure, LogFault, SetStatus, KeepJob, Release
  <2>5. CASE \E b \in Builds : Delete(b)
    BY <2>1, <2>5 DEF Delete, SetStatus
  <2>6. CASE Crash
    BY <2>6 DEF Crash
  <2>7. CASE Restart
    BY <2>1, <2>7 DEF Restart, Finished
  <2>8. CASE UNCHANGED vars
    BY <2>8 DEF vars
  <2> QED BY <2>2, <2>3, <2>4, <2>5, <2>6, <2>7, <2>8 DEF Next
<1>2. IInv /\ FailsBeforeReady /\ [Next]_vars => [Kept]_vars
  BY <1>1
<1> QED BY Inductive, FailsEarly, <1>2, PTL DEF Spec, FinishedIsFinal

-----------------------------------------------------------------------------
(***************************************************************************)
(* With neither, start() replaces no thread that lives: at most one thread *)
(* is alive, and it is _worker.                                            *)
(***************************************************************************)
OnlyCurrentLives ==
  /\ \A w \in Workers : wpc[w] # "none" => w = current
  /\ \A c \in Clients : rpc[c] = "spawn" => \A w \in Workers : wpc[w] = "none"

LEMMA OnlyCurrentStep ==
  ASSUME OneRequestAtATime, IInv, IInv', FailsBeforeReady, OnlyCurrentLives,
         [Next]_vars
  PROVE  OnlyCurrentLives'
<1> USE NoneAssumption DEF rowVars, workVars, reqVars, envVars
<1>1. CASE \E c \in Clients, p \in Projects, v \in Versions, b \in Builds :
             Load(c, p, v, b)
  BY <1>1 DEF Load, OnlyCurrentLives, IInv, Typed, TypeOK
<1>2. CASE \E c \in Clients : Request(c)
  <2> PICK c \in Clients : Request(c)
    BY <1>2
  <2>1. CASE StartCheck(c)
    <3>1. UNCHANGED workVars
      BY <2>1 DEF StartCheck
    <3>2. rpc'[c] = "spawn" => \A w \in Workers : wpc[w] = "none"
      BY <2>1 DEF StartCheck, Refuse, Alive, OnlyCurrentLives, FailsBeforeReady,
                  IInv, Typed, TypeOK
    <3> QED BY <3>1, <3>2 DEF OneRequestAtATime, OnlyCurrentLives
  <2>2. CASE \E w \in Workers : Spawn(c, w)
    <3> PICK w \in Workers : Spawn(c, w)
      BY <2>2
    <3>1. \A v \in Workers : wpc[v] = "none"
      BY DEF Spawn, OnlyCurrentLives
    <3>2. rpc'[c] = "idle" /\ current' = w /\ \A v \in Workers \ {w} : wpc'[v] = wpc[v]
      BY DEF Spawn, IInv, Typed, TypeOK
    <3> QED BY <3>1, <3>2 DEF OneRequestAtATime, OnlyCurrentLives
  <2>3. CASE ~StartCheck(c) /\ ~\E w \in Workers : Spawn(c, w)
    <3>1. UNCHANGED <<current, wpc>> /\ rpc'[c] # "spawn"
      BY <2>3 DEF Request, CheckVersion, CheckRunning, TakeNumber, Commit, Put,
                  Refuse, IInv, Typed, TypeOK
    <3> QED BY <3>1 DEF OneRequestAtATime, OnlyCurrentLives
  <2> QED BY <2>1, <2>2, <2>3
<1>3. CASE \E w \in Workers : Run(w) \/ LogFault(w)
  <2> PICK w \in Workers : Run(w) \/ LogFault(w)
    BY <1>3
  <2>1. /\ wpc[w] # "none"
        /\ UNCHANGED <<current, rpc>>
        /\ \A v \in Workers \ {w} : wpc'[v] = wpc[v]
    <3> USE DEF Goto, SetStatus, KeepJob, Release, IInv, Typed, TypeOK
    <3>1. CASE Run(w)
      BY <3>1, StateNames DEF Run, Take, Begin, Header, Stage, Ready, Announce,
                              Raise, ReportFailure
    <3>2. CASE LogFault(w)
      BY <3>2 DEF LogFault, Escape
    <3> QED BY <3>1, <3>2
  <2> QED BY <2>1 DEF OnlyCurrentLives
<1>4. CASE \/ \E b \in Builds : Delete(b)
           \/ Crash
           \/ Restart
           \/ UNCHANGED vars
  BY <1>4 DEF Delete, Crash, Restart, vars, OnlyCurrentLives
<1> QED BY <1>1, <1>2, <1>3, <1>4 DEF Next

\* With one request at a time and no refused log write, no two worker threads
\* ever hold a build at the same time, however many are started over the life
\* of the process and across its restarts.
THEOREM OneWorkerAtATime ==
  ASSUME OneRequestAtATime, NoRefusedWrite PROVE Spec => []OneAtATime
<1>1. Init => OnlyCurrentLives
  BY DEF Init, OnlyCurrentLives
<1>2. IInv /\ IInv' /\ FailsBeforeReady /\ OnlyCurrentLives /\ [Next]_vars
        => OnlyCurrentLives'
  BY OnlyCurrentStep
<1>3. OnlyCurrentLives => OneAtATime
  BY DEF OnlyCurrentLives, OneAtATime, Running
<1> QED BY Inductive, FailsEarly, <1>1, <1>2, <1>3, PTL DEF Spec
=============================================================================
