------------------------ MODULE ModelDownloadsProofs ------------------------
(***************************************************************************)
(* A model that is ready was verified and is in its folder: for any number *)
(* of models, folder names, API threads, faults, retries and restarts.     *)
(***************************************************************************)
EXTENDS ModelDownloads, FiniteSetTheorems, TLAPS

ReqPcs == {"idle", "enqueue", "retry", "delete", "cancel", "remove"}
ReqType == [pc : ReqPcs, model : Models \cup {None}, active : BOOLEAN, path : BOOLEAN]
WorkerPcs == {"idle", "taken", "mkdir", "fetch", "fetched", "verify", "verified", "clear",
              "renamed"}
WorkerType == [pc : WorkerPcs, model : Models \cup {None}]
FolderType == [model : Models \cup {None}, bytes : Fetched \cup {"none"}]
Statuses == {"queued", "downloading", "verifying", "ready", "failed", "absent", "deleted"}

LEMMA OrdersAreSequences ==
    ASSUME NEW S, S \subseteq Models, NEW s \in InSomeOrder(S)
    PROVE  s \in Seq(Models) /\ \A i \in 1..Len(s) : s[i] \in S
<1>1. IsFiniteSet(S) /\ Cardinality(S) \in Nat
  BY ModelsAssumption, FS_Subset, FS_CardinalityType
<1>2. s \in [1..Cardinality(S) -> S]
  BY DEF InSomeOrder
<1> DEFINE n == Cardinality(S)
<1> HIDE DEF n
<1>3. n \in Nat /\ s \in [1..n -> S]
  BY <1>1, <1>2 DEF n
<1>4. s \in Seq(S) /\ Len(s) = n
  BY <1>3
<1>5. s \in Seq(Models)
  BY <1>3
<1> QED
  BY <1>3, <1>4, <1>5

LEMMA ReqSteps ==
    ASSUME req \in [Requests -> ReqType], NEW q \in Requests
    PROVE  /\ \A pc \in ReqPcs : /\ [req EXCEPT ![q].pc = pc] \in [Requests -> ReqType]
                                 /\ \A m \in Models : [req EXCEPT ![q].pc = pc, ![q].model = m]
                                                       \in [Requests -> ReqType]
           /\ [req EXCEPT ![q] = NoReq] \in [Requests -> ReqType]
<1>1. NoReq \in ReqType
  BY DEF NoReq, ReqType, ReqPcs
<1>2. ASSUME NEW pc \in ReqPcs
      PROVE  [req EXCEPT ![q].pc = pc] \in [Requests -> ReqType]
  <2>1. [req[q] EXCEPT !.pc = pc] \in ReqType
    BY DEF ReqType
  <2> QED
    BY <2>1
<1>3. ASSUME NEW pc \in ReqPcs, NEW m \in Models
      PROVE  [req EXCEPT ![q].pc = pc, ![q].model = m] \in [Requests -> ReqType]
  <2>1. [req[q] EXCEPT !.pc = pc, !.model = m] \in ReqType
    BY DEF ReqType
  <2> QED
    BY <2>1
<1> QED
  BY <1>1, <1>2, <1>3

\* TypeOK with its sets named.
Types ==
    /\ status \in [Models -> Statuses]
    /\ name \in [Models -> Names \cup {None}]
    /\ path \in [Models -> BOOLEAN]
    /\ queue \in Seq(Models)
    /\ cancel \subseteq Models
    /\ worker \in WorkerType
    /\ staging \in [Models -> Fetched \cup {"none", "partial"}]
    /\ folder \in [Names -> FolderType]
    /\ req \in [Requests -> ReqType]
    /\ twice \subseteq Names
    /\ faults \in 0 .. MaxFaults
    /\ retries \in 0 .. MaxRetries
    /\ restarts \in 0 .. MaxRestarts

LEMMA TypeParts == Types => TypeOK
<1>1. Statuses = Rows \cup {"absent", "deleted"}
  BY DEF Statuses, Rows, ACTIVE
<1> QED
  BY <1>1 DEF Types, TypeOK, WorkerType, WorkerPcs, FolderType, ReqType, ReqPcs

\* Whatever is queued, downloaded or requested has, or had, a row; what is
\* about to be moved was verified, if it is still there.
Known ==
    /\ \A i \in 1..Len(queue) : status[queue[i]] # "absent"
    /\ worker.pc # "idle" =>
         worker.model \in Models /\ status[worker.model] # "absent"
    /\ \A q \in Requests :
         req[q].pc # "idle" =>
           req[q].model \in Models /\ status[req[q].model] # "absent"
    /\ \A m \in Models : status[m] # "absent" => name[m] \in Names
    /\ worker.pc \in {"verified", "clear"} => staging[worker.model] \in {"full", "none"}

Typed == Types /\ Known

LEMMA InitTyped == Init => Typed
<1> SUFFICES ASSUME Init PROVE Typed
  OBVIOUS
<1>1. Types
  BY BoundsAssumption
     DEF Init, Types, Statuses, WorkerType, WorkerPcs, FolderType, ReqType, ReqPcs, NoReq, Idle, Empty
<1>2. Known
  BY DEF Init, Known, Free, NoReq, Idle
<1> QED
  BY <1>1, <1>2 DEF Typed

RequestStep ==
    \/ \E q \in Requests, m \in Models, n \in Names : Request(q, m, n)
    \/ \E q \in Requests, m \in Models : RetryRead(q, m) \/ DeleteRead(q, m)
    \/ \E q \in Requests : Finish(q)

LEMMA RequestTyped ==
    ASSUME Typed, RequestStep
    PROVE  Typed'
<1> USE DEF Typed, Types, Known, Free, rowVars, diskVars, envVars, reqVars
<1>1. ASSUME NEW q \in Requests, NEW m \in Models, NEW n \in Names, Request(q, m, n)
      PROVE  Typed'
  <2>1. /\ status' \in [Models -> Statuses] /\ name' \in [Models -> Names \cup {None}]
        /\ req' \in [Requests -> ReqType]
    BY <1>1, ReqSteps DEF Request, ReqPcs, Statuses
  <2>2. Types'
    BY <1>1, <2>1 DEF Request
  <2>3. /\ \A o \in Models : status[o] # "absent" => status'[o] # "absent"
        /\ status'[m] # "absent" /\ req'[q].model = m
    BY <1>1 DEF Request
  <2>4. Known'
    BY <1>1, <2>3 DEF Request
  <2> QED
    BY <2>2, <2>4
<1>2. ASSUME NEW q \in Requests, NEW m \in Models, RetryRead(q, m)
      PROVE  Typed'
  <2>0. req' \in [Requests -> ReqType]
    BY <1>2, ReqSteps DEF RetryRead, ReqPcs
  <2>1. req' \in [Requests -> ReqType] /\ retries' \in 0..MaxRetries
    BY <1>2, <2>0, BoundsAssumption DEF RetryRead
  <2>2. Types'
    BY <1>2, <2>1 DEF RetryRead
  <2>3. Known'
    BY <1>2 DEF RetryRead
  <2> QED
    BY <2>2, <2>3
<1>3. ASSUME NEW q \in Requests, NEW m \in Models, DeleteRead(q, m)
      PROVE  Typed'
  <2>1. [pc |-> "delete", model |-> m, active |-> status[m] \in ACTIVE, path |-> path[m]]
          \in ReqType
    BY DEF ReqType, ReqPcs
  <2>2. req' \in [Requests -> ReqType]
    BY <1>3, <2>1 DEF DeleteRead
  <2>3. Types'
    BY <1>3, <2>2 DEF DeleteRead
  <2>4. Known'
    BY <1>3 DEF DeleteRead, InTable, Rows, ACTIVE
  <2> QED
    BY <2>3, <2>4
<1>4. ASSUME NEW q \in Requests, RetryCommit(q)
      PROVE  Typed'
  <2>1. /\ req[q].pc = "retry"
        /\ UNCHANGED <<name, path, queue, cancel, worker, staging, folder, twice, faults,
                       retries, restarts>>
        /\ \/ /\ status' = [status EXCEPT ![req[q].model] = "queued"]
              /\ req' = [req EXCEPT ![q].pc = "enqueue"]
           \/ /\ req' = [req EXCEPT ![q] = NoReq]
              /\ status' = status
    BY <1>4 DEF RetryCommit, Done
  <2>2. CASE req' = [req EXCEPT ![q].pc = "enqueue"]
    <3>1. req' \in [Requests -> ReqType]
      BY <2>2, ReqSteps DEF ReqPcs
    <3>2. /\ status' \in [Models -> Statuses]
          /\ \A o \in Models : status[o] # "absent" <=> status'[o] # "absent"
      BY <2>1 DEF Statuses
    <3>3. Types'
      BY <2>1, <3>1, <3>2
    <3>4. Known'
      BY <2>1, <2>2, <3>2
    <3> QED
      BY <3>3, <3>4
  <2>3. CASE req' = [req EXCEPT ![q] = NoReq] /\ status' = status
    <3>1. req' \in [Requests -> ReqType]
      BY <2>3, ReqSteps
    <3>2. Types'
      BY <2>1, <2>3, <3>1
    <3>3. Known'
      BY <2>1, <2>3 DEF NoReq
    <3> QED
      BY <3>2, <3>3
  <2> QED
    BY <2>1, <2>2, <2>3
<1>5. ASSUME NEW q \in Requests, Enqueue(q)
      PROVE  Typed'
  <2>1. req[q].model \in Models /\ status[req[q].model] # "absent"
    BY <1>5 DEF Enqueue
  <2>2. queue' \in Seq(Models) /\ req' \in [Requests -> ReqType]
    <3>1. req' \in [Requests -> ReqType]
      BY <1>5, ReqSteps DEF Enqueue, Done
    <3> QED
      BY <1>5, <2>1, <3>1 DEF Enqueue
  <2>3. Types'
    BY <1>5, <2>2 DEF Enqueue
  <2>4. \A i \in 1..Len(queue') : status'[queue'[i]] # "absent"
    BY <1>5, <2>1 DEF Enqueue
  <2>5. Known'
    BY <1>5, <2>4 DEF Enqueue, Done, NoReq
  <2> QED
    BY <2>3, <2>5
<1>6. ASSUME NEW q \in Requests, DeleteCommit(q)
      PROVE  Typed'
  <2>1. req[q].model \in Models /\ name[req[q].model] \in Names \cup {None}
    BY <1>6 DEF DeleteCommit
  <2>2. status' \in [Models -> Statuses] /\ req' \in [Requests -> ReqType]
    BY <1>6, ReqSteps DEF DeleteCommit, ReqPcs, Statuses
  <2>3. \A o \in Models : status[o] # "absent" => status'[o] # "absent"
    BY <1>6 DEF DeleteCommit
  <2>4. twice' \subseteq Names
    <3>1. name[req[q].model] \in Names
      BY <1>6 DEF DeleteCommit
    <3> QED
      BY <1>6, <3>1 DEF DeleteCommit
  <2>5. Types'
    BY <1>6, <2>2, <2>4 DEF DeleteCommit
  <2>6. Known'
    BY <1>6, <2>3 DEF DeleteCommit
  <2> QED
    BY <2>5, <2>6
<1>7. ASSUME NEW q \in Requests, DeleteCancel(q)
      PROVE  Typed'
  <2>1. cancel' \subseteq Models /\ req' \in [Requests -> ReqType]
    <3>1. req' \in [Requests -> ReqType]
      BY <1>7, ReqSteps DEF DeleteCancel, ReqPcs
    <3>2. req[q].model \in Models
      BY <1>7 DEF DeleteCancel
    <3> QED
      BY <1>7, <3>1, <3>2 DEF DeleteCancel
  <2>2. Types'
    BY <1>7, <2>1 DEF DeleteCancel
  <2>3. Known'
    BY <1>7 DEF DeleteCancel
  <2> QED
    BY <2>2, <2>3
<1>8. ASSUME NEW q \in Requests, DeleteFolders(q)
      PROVE  Typed'
  <2>1. req' \in [Requests -> ReqType]
    BY <1>8, ReqSteps DEF DeleteFolders, Done
  <2>2. /\ staging' \in [Models -> Fetched \cup {"none", "partial"}]
        /\ folder' \in [Names -> FolderType]
    BY <1>8 DEF DeleteFolders, Empty, FolderType
  <2>3. Types'
    BY <1>8, <2>1, <2>2 DEF DeleteFolders
  <2>4. Known'
    BY <1>8 DEF DeleteFolders, Done, NoReq
  <2> QED
    BY <2>3, <2>4
<1> QED
  BY <1>1, <1>2, <1>3, <1>4, <1>5, <1>6, <1>7, <1>8 DEF RequestStep, Finish

\* SetStatus changes the row of the model in hand, if it is still there.
LEMMA SetStatusTyped ==
    ASSUME Typed, worker.pc # "idle",
           NEW s \in {"downloading", "verifying", "ready", "failed"}, SetStatus(s)
    PROVE  /\ status' \in [Models -> Statuses]
           /\ \A m \in Models : status'[m] = "absent" <=> status[m] = "absent"
BY DEF Typed, Types, Known, SetStatus, InTable, Rows, ACTIVE, Statuses

LEMMA WorkerTyped ==
    ASSUME Typed, Run \/ Interrupted
    PROVE  Typed'
<1> USE DEF Typed, At, rowVars, diskVars, envVars, reqVars
<1>1. worker.pc # "idle" => M \in Models /\ M = worker.model /\ status[M] # "absent"
  BY DEF Known, M
<1>2. CASE Take
  <2>1. /\ Head(queue) \in Models /\ Tail(queue) \in Seq(Models) /\ Len(queue) \in Nat \ {0}
        /\ Head(queue) = queue[1] /\ Len(Tail(queue)) = Len(queue) - 1
        /\ \A i \in 1..Len(queue) - 1 : Tail(queue)[i] = queue[i + 1]
    BY <1>2 DEF Take, Types
  <2>2. Types'
    BY <1>2, <2>1 DEF Take, Types, WorkerType, WorkerPcs
  <2>3. Known'
    BY <1>2, <2>1 DEF Take, Known
  <2> QED
    BY <2>2, <2>3
<1>3. CASE ~Take
  <2>1. /\ queue' = queue /\ name' = name /\ req' = req /\ twice' = twice
        /\ retries' = retries /\ restarts' = restarts
        /\ worker.pc # "idle"
    BY <1>3 DEF Run, Begin, MakeStaging, Fetch, MarkVerifying, Verify, VerifyFails, Cancelled,
                CheckFinal, Rename, SetReady, StagingGone, Interrupted
  <2>2. /\ status' \in [Models -> Statuses]
        /\ \A m \in Models : status'[m] = "absent" <=> status[m] = "absent"
    <3>1. CASE Begin
      BY <1>1, <2>1, <3>1 DEF Begin, Types, Statuses
    <3>2. CASE ~Begin
      <4>1. \/ status' = status
            \/ \E s \in {"downloading", "verifying", "ready", "failed"} : SetStatus(s)
        BY <1>3, <3>2 DEF Run, MakeStaging, Fetch, MarkVerifying, Verify, VerifyFails,
                Cancelled, CheckFinal, Rename, SetReady, StagingGone, Interrupted
      <4> QED
        BY <2>1, <4>1, SetStatusTyped DEF Types
    <3> QED
      BY <3>1, <3>2
  <2>3. worker' \in WorkerType /\ (worker'.pc # "idle" => worker'.model = M)
    <3>1. \/ \E pc \in WorkerPcs : Goto(pc)
          \/ worker' = Idle
      BY <1>3 DEF Run, Begin, MakeStaging, Fetch, MarkVerifying, Verify, VerifyFails, Cancelled,
                CheckFinal, Rename, SetReady, StagingGone, Interrupted, Finally, WorkerPcs
    <3> QED
      BY <1>1, <2>1, <3>1 DEF Goto, Idle, WorkerType, WorkerPcs
  <2>4. path' \in [Models -> BOOLEAN] /\ cancel' \subseteq Models
    <3>1. path' = path \/ path' = [path EXCEPT ![M] = InTable(M)]
      BY <1>3 DEF Run, Begin, MakeStaging, Fetch, MarkVerifying, Verify, VerifyFails, Cancelled,
                CheckFinal, Rename, SetReady, StagingGone, Interrupted
    <3>2. cancel' = cancel \/ cancel' = cancel \ {M}
      BY <1>3 DEF Run, Begin, MakeStaging, Fetch, MarkVerifying, Verify, VerifyFails, Cancelled,
                CheckFinal, Rename, SetReady, StagingGone, Interrupted, Finally
    <3>3. InTable(M) \in BOOLEAN
      BY DEF InTable
    <3> QED
      BY <3>1, <3>2, <3>3 DEF Types
  <2>5. staging' \in [Models -> Fetched \cup {"none", "partial"}]
    <3>1. \/ staging' = staging
          \/ \E bytes \in Fetched \cup {"none", "partial"} :
               staging' = [staging EXCEPT ![M] = bytes]
      BY <1>1, <1>3, <2>1 DEF Run, Begin, MakeStaging, Fetch, MarkVerifying, Verify, VerifyFails,
                Cancelled, CheckFinal, Rename, SetReady, StagingGone, Interrupted, Types
    <3> QED
      BY <3>1 DEF Types
  <2>6. folder' \in [Names -> FolderType]
    <3>1. CASE Rename
      <4>1. [model |-> M, bytes |-> staging[M]] \in FolderType
        BY <1>1, <2>1, <3>1 DEF Rename, Types, Known, FolderType, Fetched
      <4> QED
        BY <3>1, <4>1 DEF Rename, Types
    <3>2. CASE ~Rename
      BY <1>3, <3>2 DEF Run, Begin, MakeStaging, Fetch, MarkVerifying, Verify, VerifyFails,
                Cancelled, CheckFinal, SetReady, StagingGone, Interrupted, Types
    <3> QED
      BY <3>1, <3>2
  <2>7. faults' \in 0..MaxFaults
    BY <1>3, BoundsAssumption
       DEF Run, Begin, MakeStaging, Fetch, MarkVerifying, Verify, VerifyFails,
                Cancelled, CheckFinal, Rename, SetReady, StagingGone, Interrupted, Types
  <2>8. Types'
    BY <2>1, <2>2, <2>3, <2>4, <2>5, <2>6, <2>7 DEF Types
  <2>9. worker'.pc \in {"verified", "clear"} => staging'[worker'.model] \in {"full", "none"}
    <3> SUFFICES ASSUME worker'.pc \in {"verified", "clear"}
                 PROVE  staging'[M] \in {"full", "none"}
      BY <2>3
    <3>1. Verify \/ CheckFinal
      BY <1>3 DEF Run, Begin, MakeStaging, Fetch, MarkVerifying, VerifyFails, Cancelled,
                Rename, SetReady, StagingGone, Interrupted, Finally, Goto, Idle
    <3> QED
      BY <1>1, <2>1, <3>1 DEF Verify, CheckFinal, Known
  <2>10. Known'
    BY <1>1, <2>1, <2>2, <2>3, <2>9 DEF Known, Types
  <2> QED
    BY <2>8, <2>10
<1> QED
  BY <1>2, <1>3

LEMMA RestartTyped ==
    ASSUME Typed, Restart
    PROVE  Typed'
<1> DEFINE pending == {m \in Models : status[m] \in ACTIVE}
<1>1. pending \subseteq Models /\ queue' \in InSomeOrder(pending)
  BY DEF Restart
<1>2. queue' \in Seq(Models) /\ \A i \in 1..Len(queue') : queue'[i] \in pending
  BY <1>1, OrdersAreSequences
<1>3. /\ status' \in [Models -> Statuses]
      /\ \A m \in Models : status'[m] = "absent" <=> status[m] = "absent"
  BY DEF Restart, Typed, Types, Statuses, ACTIVE
<1>4. /\ worker' = Idle /\ req' = [q \in Requests |-> NoReq] /\ cancel' = {}
      /\ restarts' \in 0..MaxRestarts
      /\ UNCHANGED <<twice, name, path, diskVars, faults, retries>>
  BY BoundsAssumption DEF Restart, Stopped, Typed, Types
<1>5. worker' \in WorkerType /\ req' \in [Requests -> ReqType]
  BY <1>4 DEF Idle, NoReq, WorkerType, WorkerPcs, ReqType, ReqPcs
<1>6. Types'
  BY <1>2, <1>3, <1>4, <1>5 DEF Typed, Types, diskVars
<1>7. Known'
  <2>1. \A i \in 1..Len(queue') : status'[queue'[i]] # "absent"
    BY <1>2, <1>3 DEF ACTIVE
  <2> QED
    BY <1>3, <1>4, <2>1 DEF Typed, Known, Idle, NoReq
<1> QED
  BY <1>6, <1>7 DEF Typed

LEMMA StepTyped ==
    ASSUME Typed, [Next]_vars
    PROVE  Typed'
<1>1. CASE RequestStep \/ Run \/ Interrupted \/ Restart
  BY <1>1, RequestTyped, WorkerTyped, RestartTyped
<1>2. CASE UNCHANGED vars
  BY <1>2 DEF vars, rowVars, diskVars, envVars, reqVars, Typed, Types, Known
<1> QED
  BY <1>1, <1>2 DEF Next, RequestStep

\* Every variable stays in its type, in particular the folders hold models.
THEOREM TypeCorrect == Spec => []TypeOK
<1>1. Init => Typed
  BY InitTyped
<1>2. Typed /\ [Next]_vars => Typed'
  BY StepTyped
<1>3. Typed => TypeOK
  BY TypeParts DEF Typed
<1> QED
  BY <1>1, <1>2, <1>3, PTL DEF Spec
-----------------------------------------------------------------------------
(***************************************************************************)
(* Ready is verified.  A folder belongs to the one model in the table that *)
(* has its name and its path, and to the deletion of that model after it   *)
(* left the table, until the folder is removed; the worker moves a model   *)
(* only to where nothing is.                                               *)
(***************************************************************************)
InFolder(m) == folder[name[m]] = [model |-> m, bytes |-> "full"]
Removing(q) == req[q].pc \in {"cancel", "remove"}

Rowed ==
    /\ \A m \in Models : status[m] = "absent" => ~path[m]
    /\ \A m \in Models : status[m] = "ready" => path[m]
    /\ \A m, o \in Models : InTable(m) /\ InTable(o) /\ m # o => name[m] # name[o]

Owned ==
    \A m \in Models : InTable(m) /\ path[m] /\ name[m] \notin twice => InFolder(m)

Moved ==
    /\ worker.pc \notin {"idle", "taken"} => status[worker.model] # "ready"
    /\ worker.pc = "clear" => folder[name[worker.model]] = Empty
    /\ worker.pc = "renamed" /\ InTable(worker.model) /\ name[worker.model] \notin twice =>
         InFolder(worker.model)

\* A request that removes a model has taken its row away and owns its folder,
\* alone; one that is about to looked at the path the model still has.
Owning ==
    \A q \in Requests : Removing(q) =>
      /\ status[req[q].model] = "deleted"
      /\ req[q].path /\ name[req[q].model] \notin twice => InFolder(req[q].model)

Alone ==
    \A q, p \in Requests :
      Removing(q) /\ Removing(p) /\ p # q /\ req[q].model = req[p].model =>
        name[req[q].model] \in twice

Looked ==
    \A q \in Requests :
      req[q].pc = "delete" /\ req[q].path /\ InTable(req[q].model) => path[req[q].model]

Removed == Owning /\ Alone /\ Looked

IInv == Typed /\ Rowed /\ Owned /\ Moved /\ Removed

LEMMA InitInv == Init => IInv
<1> SUFFICES ASSUME Init PROVE IInv
  OBVIOUS
<1>1. Typed
  BY InitTyped
<1>2. Rowed /\ Owned
  BY DEF Init, Rowed, Owned, InTable, Rows, ACTIVE
<1>3. Moved /\ Removed
  BY DEF Init, Moved, Removed, Owning, Alone, Looked, Removing, Idle, NoReq
<1> QED
  BY <1>1, <1>2, <1>3 DEF IInv

LEMMA RequestInv ==
    ASSUME IInv, RequestStep
    PROVE  IInv'
<1> USE DEF IInv, Typed, rowVars, diskVars, envVars, reqVars, InTable, Rows, ACTIVE
<1>0. Typed'
  BY RequestTyped
<1>1. ASSUME NEW q \in Requests, NEW m \in Models, NEW n \in Names, Request(q, m, n)
      PROVE  IInv'
  <2>1. /\ status[m] = "absent" /\ status' = [status EXCEPT ![m] = "queued"]
        /\ name' = [name EXCEPT ![m] = n]
        /\ \A o \in Models : InTable(o) => name[o] # n
        /\ UNCHANGED <<twice, path, queue, cancel, worker, diskVars, envVars>>
        /\ req[q].pc = "idle"
    BY <1>1 DEF Request, Free
  <2>2. /\ \A o \in Models : o # m => status'[o] = status[o] /\ name'[o] = name[o]
        /\ status'[m] = "queued" /\ name'[m] = n /\ ~path[m]
        /\ \A p \in Requests : p # q => req'[p] = req[p]
        /\ req'[q].pc = "enqueue"
    BY <1>1, <2>1 DEF Request, Types, Rowed
  <2>3. Rowed' /\ Owned'
    BY <2>1, <2>2 DEF Rowed, Owned, InFolder
  <2>4. Moved'
    BY <2>1, <2>2 DEF Moved, InFolder, Known
  <2>5. \A p \in Requests : p # q /\ req[p].pc # "idle" =>
          req[p].model # m /\ req[p].model \in Models
    BY <2>1 DEF Known
  <2>6. Owning' /\ Alone'
    BY <2>1, <2>2, <2>5 DEF Removed, Owning, Alone, Removing, InFolder
  <2>7. Looked'
    BY <2>1, <2>2, <2>5 DEF Removed, Looked
  <2> QED
    BY <1>0, <2>3, <2>4, <2>6, <2>7 DEF Removed
<1>2. ASSUME NEW q \in Requests, NEW m \in Models, RetryRead(q, m)
      PROVE  IInv'
  <2>1. UNCHANGED <<twice, rowVars, worker, diskVars>>
    BY <1>2 DEF RetryRead
  <2>2. /\ \A p \in Requests : p # q => req'[p] = req[p]
        /\ req'[q].pc = "retry"
    BY <1>2 DEF RetryRead, Types
  <2>3. Rowed' /\ Owned' /\ Moved'
    BY <2>1 DEF Rowed, Owned, Moved, InFolder
  <2>4. Owning' /\ Alone'
    BY <2>1, <2>2 DEF Removed, Owning, Alone, Removing, InFolder
  <2>5. Looked'
    BY <2>1, <2>2 DEF Removed, Looked
  <2> QED
    BY <1>0, <2>3, <2>4, <2>5 DEF Removed
<1>3. ASSUME NEW q \in Requests, NEW m \in Models, DeleteRead(q, m)
      PROVE  IInv'
  <2>1. /\ UNCHANGED <<twice, rowVars, worker, diskVars>>
        /\ req' = [req EXCEPT ![q] = [pc |-> "delete", model |-> m,
                     active |-> status[m] \in ACTIVE, path |-> path[m]]]
    BY <1>3 DEF DeleteRead
  <2>2. /\ \A p \in Requests : p # q => req'[p] = req[p]
        /\ req'[q].pc = "delete" /\ req'[q].model = m /\ req'[q].path = path[m]
    BY <2>1 DEF Types
  <2>3. Rowed' /\ Owned' /\ Moved'
    BY <2>1 DEF Rowed, Owned, Moved, InFolder
  <2>4. Removed'
    BY <2>1, <2>2 DEF Removed, Owning, Alone, Looked, Removing, InFolder
  <2> QED
    BY <1>0, <2>3, <2>4
<1>4. ASSUME NEW q \in Requests, RetryCommit(q)
      PROVE  IInv'
  <2>1. /\ UNCHANGED <<twice, name, path, worker, diskVars>>
        /\ \/ /\ InTable(req[q].model) /\ req[q].pc = "retry"
              /\ status' = [status EXCEPT ![req[q].model] = "queued"]
              /\ req' = [req EXCEPT ![q].pc = "enqueue"]
           \/ status' = status /\ req' = [req EXCEPT ![q] = NoReq]
    BY <1>4 DEF RetryCommit, Done
  <2>2. /\ \A p \in Requests : p # q => req'[p] = req[p]
        /\ req'[q].pc \in {"enqueue", "idle"}
        /\ \A o \in Models :
             (status'[o] = status[o]) \/ (InTable(o) /\ status'[o] = "queued")
    <3>1. req' = [req EXCEPT ![q].pc = "enqueue"] \/ req' = [req EXCEPT ![q] = NoReq]
      BY <2>1
    <3>2. /\ \A p \in Requests : p # q => req'[p] = req[p]
          /\ req'[q].pc \in {"enqueue", "idle"}
      <4>1. req \in [Requests -> ReqType]
        BY DEF Types
      <4>2. CASE req' = [req EXCEPT ![q].pc = "enqueue"]
        <5>1. req[q] \in [pc : ReqPcs, model : Models \cup {None}, active : BOOLEAN, path : BOOLEAN]
          BY <4>1 DEF ReqType
        <5> QED
          BY <4>1, <4>2, <5>1
      <4>3. CASE req' = [req EXCEPT ![q] = NoReq]
        BY <4>1, <4>3 DEF NoReq
      <4> QED
        BY <3>1, <4>2, <4>3
    <3>3. ASSUME NEW o \in Models
          PROVE  (status'[o] = status[o]) \/ (InTable(o) /\ status'[o] = "queued")
      <4>1. \/ InTable(req[q].model) /\ status' = [status EXCEPT ![req[q].model] = "queued"]
            \/ status' = status
        BY <2>1
      <4> QED
        BY <4>1 DEF Types
    <3> QED
      BY <3>2, <3>3
  <2>3. Rowed' /\ Owned'
    BY <2>1, <2>2 DEF Rowed, Owned, InFolder
  <2>4. Moved'
    BY <2>1, <2>2 DEF Moved, InFolder, Known
  <2>5. Removed'
    BY <2>1, <2>2 DEF Removed, Owning, Alone, Looked, Removing, InFolder, Known
  <2> QED
    BY <1>0, <2>3, <2>4, <2>5
<1>5. ASSUME NEW q \in Requests, Enqueue(q)
      PROVE  IInv'
  <2>1. UNCHANGED <<twice, rowVars, worker, diskVars>> /\ req' = [req EXCEPT ![q] = NoReq]
    BY <1>5 DEF Enqueue, Done
  <2>2. /\ \A p \in Requests : p # q => req'[p] = req[p]
        /\ req'[q].pc = "idle"
    BY <2>1 DEF Types, NoReq
  <2>3. Rowed' /\ Owned' /\ Moved'
    BY <2>1 DEF Rowed, Owned, Moved, InFolder
  <2>4. Removed'
    BY <2>1, <2>2 DEF Removed, Owning, Alone, Looked, Removing, InFolder
  <2> QED
    BY <1>0, <2>3, <2>4
<1>6. ASSUME NEW q \in Requests, DeleteCommit(q)
      PROVE  IInv'
  <2> DEFINE m == req[q].model
  <2>1. /\ req[q].pc = "delete" /\ status' = [status EXCEPT ![m] = "deleted"]
        /\ twice' = (IF InTable(m) THEN twice ELSE twice \cup {name[m]})
        /\ req' = [req EXCEPT ![q].pc = "cancel"]
        /\ UNCHANGED <<name, path, worker, diskVars>>
    BY <1>6 DEF DeleteCommit
  <2>2. /\ m \in Models /\ status'[m] = "deleted"
        /\ \A o \in Models : o # m => status'[o] = status[o]
        /\ \A p \in Requests : p # q => req'[p] = req[p]
        /\ req'[q].pc = "cancel" /\ req'[q].model = m /\ req'[q].path = req[q].path
    BY <2>1 DEF Types, Known
  <2> HIDE DEF m
  <2>3. Rowed' /\ Owned'
    BY <2>1, <2>2 DEF Rowed, Owned, InFolder
  <2>4. Moved'
    BY <2>1, <2>2 DEF Moved, InFolder, Known
  <2>5. Removed'
    <3>1. ~InTable(m) => name[m] \in twice'
      BY <2>1
    <3>2. twice \subseteq twice'
      BY <2>1
    <3>3. InTable(m) /\ req[q].path /\ name[m] \notin twice => InFolder(m)
      BY <2>1, <2>2 DEF Removed, Owning, Alone, Looked, Owned, m
    <3>4. Owning'
      BY <2>1, <2>2, <3>2, <3>3 DEF Removed, Owning, Removing, InFolder
    <3>5. \A p \in Requests : p # q /\ Removing(p) /\ req[p].model = m => ~InTable(m)
      BY DEF Removed, Owning
    <3>6. Alone'
      BY <2>1, <2>2, <3>1, <3>2, <3>5 DEF Removed, Alone, Removing
    <3>7. Looked'
      BY <2>1, <2>2 DEF Removed, Looked, Known
    <3> QED
      BY <3>4, <3>6, <3>7 DEF Removed
  <2> QED
    BY <1>0, <2>3, <2>4, <2>5
<1>7. ASSUME NEW q \in Requests, DeleteCancel(q)
      PROVE  IInv'
  <2>1. /\ UNCHANGED <<twice, rowVars, worker, diskVars>>
        /\ req[q].pc = "cancel" /\ req' = [req EXCEPT ![q].pc = "remove"]
    BY <1>7 DEF DeleteCancel
  <2>2. /\ \A p \in Requests : p # q => req'[p] = req[p]
        /\ req'[q].pc = "remove" /\ req'[q].model = req[q].model /\ req'[q].path = req[q].path
    BY <2>1 DEF Types
  <2>3. Rowed' /\ Owned' /\ Moved'
    BY <2>1 DEF Rowed, Owned, Moved, InFolder
  <2>4. Removed'
    BY <2>1, <2>2 DEF Removed, Owning, Alone, Looked, Removing, InFolder
  <2> QED
    BY <1>0, <2>3, <2>4
<1>8. ASSUME NEW q \in Requests, DeleteFolders(q)
      PROVE  IInv'
  <2> DEFINE m == req[q].model
  <2>1. /\ UNCHANGED <<twice, rowVars, worker>> /\ req[q].pc = "remove"
        /\ folder' = [n \in Names |-> IF req[q].path /\ n = name[m] THEN Empty ELSE folder[n]]
        /\ req' = [req EXCEPT ![q] = NoReq]
    BY <1>8 DEF DeleteFolders, Done
  <2>2. /\ \A p \in Requests : p # q => req'[p] = req[p]
        /\ req'[q].pc = "idle"
    BY <2>1 DEF Types, NoReq
  <2>3. /\ m \in Models /\ status[m] = "deleted"
        /\ req[q].path /\ name[m] \notin twice => InFolder(m)
    BY <2>1 DEF Removed, Owning, Alone, Looked, Removing, Known
  <2> HIDE DEF m
  <2>4. ASSUME NEW o \in Models, o # m, InFolder(o), status[o] # "absent", name[o] \notin twice
        PROVE  InFolder(o)'
    BY <2>1, <2>3, <2>4 DEF InFolder, Known
  <2>5. Rowed' /\ Owned'
    BY <2>1, <2>3, <2>4 DEF Rowed, Owned
  <2>6. Moved'
    BY <2>1, <2>3, <2>4 DEF Moved, Known
  <2>7. Removed'
    BY <2>1, <2>2, <2>3, <2>4 DEF Removed, Owning, Alone, Looked, Removing, Known, m
  <2> QED
    BY <1>0, <2>5, <2>6, <2>7
<1> QED
  BY <1>1, <1>2, <1>3, <1>4, <1>5, <1>6, <1>7, <1>8 DEF RequestStep, Finish

\* The worker sets the status of the model in hand and no other, never back
\* to ready, and nothing of a model that is gone.
LEMMA SetStatusKeeps ==
    ASSUME Typed, M \in Models, NEW s \in {"downloading", "verifying", "failed"}, SetStatus(s)
    PROVE  /\ \A m \in Models : InTable(m)' <=> InTable(m)
           /\ \A m \in Models : status'[m] = status[m] \/ status'[m] \notin {"ready", "absent"}
           /\ \A m \in Models : ~InTable(m) => status'[m] = status[m]
<1>1. CASE InTable(M)
  <2>1. status' = [status EXCEPT ![M] = s]
    BY <1>1 DEF SetStatus
  <2> QED
    BY <1>1, <2>1 DEF Typed, Types, InTable, Rows, ACTIVE
<1>2. CASE ~InTable(M)
  <2>1. status' = status
    BY <1>2 DEF SetStatus
  <2> QED
    BY <2>1 DEF InTable
<1> QED
  BY <1>1, <1>2

\* A step that leaves folders and paths alone, and of the status only what
\* SetStatusKeeps says, keeps what is owned and removed.
LEMMA StatusOnly ==
    ASSUME IInv, UNCHANGED <<name, path, folder, req, twice>>,
           \A m \in Models : InTable(m)' <=> InTable(m),
           \A m \in Models : status'[m] = status[m] \/ status'[m] \notin {"ready", "absent"},
           \A m \in Models : ~InTable(m) => status'[m] = status[m]
    PROVE  Rowed' /\ Owned' /\ Removed'
<1>1. Rowed'
  BY DEF IInv, Rowed
<1>2. Owned'
  BY DEF IInv, Owned, InFolder
<1>3. ASSUME NEW q \in Requests, Removing(q)
      PROVE  req[q].model \in Models /\ status'[req[q].model] = "deleted"
  BY <1>3 DEF IInv, Removed, Owning, Removing, Typed, Known, InTable, Rows, ACTIVE
<1>4. Owning' /\ Alone'
  BY <1>3 DEF IInv, Removed, Owning, Alone, Removing, InFolder
<1>5. Looked'
  BY DEF IInv, Removed, Looked, Typed, Known
<1> QED
  BY <1>1, <1>2, <1>4, <1>5 DEF Removed

LEMMA WorkerInv ==
    ASSUME IInv, Run \/ Interrupted
    PROVE  IInv'
<1> USE DEF At, rowVars, diskVars, envVars, reqVars
<1>1. Typed'
  BY WorkerTyped DEF IInv
<1>2. worker.pc # "idle" => M \in Models /\ status[M] # "absent" /\ name[M] \in Names
  BY DEF IInv, Typed, Known, M
<1>3. CASE Take \/ MakeStaging \/ Verify \/ \E bytes \in Fetched : Fetch(bytes)
  <2>1. UNCHANGED <<status, name, path, folder, req, twice>>
    BY <1>3 DEF Take, MakeStaging, Verify, Fetch
  <2>2. Rowed' /\ Owned' /\ Removed'
    BY <2>1, StatusOnly DEF InTable
  <2>3. Moved'
    BY <1>3, <2>1 DEF IInv, Moved, Take, MakeStaging, Verify, Fetch, Goto, M
  <2> QED
    BY <1>1, <2>2, <2>3 DEF IInv
<1>4. CASE Begin
  <2>1. /\ UNCHANGED <<name, path, folder, req, twice>> /\ M \in Models
        /\ \/ /\ status[M] \in {"queued", "downloading"} /\ Goto("mkdir")
              /\ status' = [status EXCEPT ![M] = "downloading"]
           \/ worker' = Idle /\ status' = status
    BY <1>2, <1>4 DEF Begin
  <2>2. /\ \A m \in Models : InTable(m)' <=> InTable(m)
        /\ \A m \in Models : status'[m] = status[m] \/ status'[m] \notin {"ready", "absent"}
        /\ \A m \in Models : ~InTable(m) => status'[m] = status[m]
    BY <2>1 DEF IInv, Typed, Types, InTable, Rows, ACTIVE
  <2>3. Rowed' /\ Owned' /\ Removed'
    BY <2>1, <2>2, StatusOnly
  <2>4. Moved'
    <3>1. \/ worker'.pc = "mkdir" /\ worker'.model = M /\ status'[M] = "downloading"
          \/ worker'.pc = "idle"
      BY <2>1 DEF Goto, Idle, IInv, Typed, Types
    <3> QED
      BY <3>1 DEF Moved
  <2> QED
    BY <1>1, <2>3, <2>4 DEF IInv
<1>5. CASE MarkVerifying \/ VerifyFails \/ StagingGone \/ Interrupted \/ Cancelled
  <2>1. /\ UNCHANGED <<name, path, folder, req, twice>> /\ M \in Models
        /\ \/ status' = status
           \/ \E s \in {"downloading", "verifying", "failed"} : SetStatus(s)
    BY <1>2, <1>5 DEF MarkVerifying, VerifyFails, StagingGone, Interrupted, Cancelled
  <2>2. /\ \A m \in Models : InTable(m)' <=> InTable(m)
        /\ \A m \in Models : status'[m] = status[m] \/ status'[m] \notin {"ready", "absent"}
        /\ \A m \in Models : ~InTable(m) => status'[m] = status[m]
    <3>1. CASE status' = status
      BY <3>1 DEF InTable
    <3>2. CASE \E s \in {"downloading", "verifying", "failed"} : SetStatus(s)
      BY <2>1, <3>2, SetStatusKeeps DEF IInv
    <3> QED
      BY <2>1, <3>1, <3>2
  <2>3. Rowed' /\ Owned' /\ Removed'
    BY <2>1, <2>2, StatusOnly
  <2>4. Moved'
    <3>1. \/ worker' = Idle
          \/ MarkVerifying
      BY <1>5 DEF VerifyFails, StagingGone, Interrupted, Cancelled, Finally
    <3>2. CASE worker' = Idle
      BY <3>2 DEF Moved, Idle
    <3>3. CASE MarkVerifying
      <4>1. worker'.pc = "verify" /\ worker'.model = M /\ status[M] # "ready"
        BY <3>3 DEF MarkVerifying, Goto, M, IInv, Moved
      <4>2. status'[M] # "ready"
        BY <2>1, <2>2, <4>1
      <4> QED
        BY <4>1, <4>2 DEF Moved
    <3> QED
      BY <3>1, <3>2, <3>3
  <2> QED
    BY <1>1, <2>3, <2>4 DEF IInv
<1>6. CASE CheckFinal
  <2>1. /\ UNCHANGED <<name, path, folder, req, twice>> /\ M \in Models
        /\ M = worker.model /\ worker.pc = "verified"
        /\ \/ folder[name[M]] = Empty /\ Goto("clear") /\ status' = status
           \/ SetStatus("failed") /\ worker' = Idle
    BY <1>2, <1>6 DEF CheckFinal, Final, Finally, M
  <2>2. /\ \A m \in Models : InTable(m)' <=> InTable(m)
        /\ \A m \in Models : status'[m] = status[m] \/ status'[m] \notin {"ready", "absent"}
        /\ \A m \in Models : ~InTable(m) => status'[m] = status[m]
    <3>1. CASE status' = status
      BY <3>1 DEF InTable
    <3>2. CASE SetStatus("failed")
      BY <2>1, <3>2, SetStatusKeeps DEF IInv
    <3> QED
      BY <2>1, <3>1, <3>2
  <2>3. Rowed' /\ Owned' /\ Removed'
    BY <2>1, <2>2, StatusOnly
  <2>4. Moved'
    <3>1. CASE worker' = Idle
      BY <3>1 DEF Moved, Idle
    <3>2. CASE folder[name[M]] = Empty /\ Goto("clear") /\ status' = status
      <4>1. worker'.pc = "clear" /\ worker'.model = M
        BY <3>2 DEF Goto
      <4>2. status[M] # "ready"
        BY <2>1 DEF IInv, Moved
      <4> QED
        BY <2>1, <3>2, <4>1, <4>2 DEF Moved
    <3> QED
      BY <2>1, <3>1, <3>2
  <2> QED
    BY <1>1, <2>3, <2>4 DEF IInv
<1>7. CASE Rename
  <2>0. PICK m \in Models : m = worker.model
    BY <1>2, <1>7 DEF Rename, M
  <2>1. /\ UNCHANGED <<rowVars, req, twice>> /\ name[m] \in Names
        /\ folder' = [folder EXCEPT ![name[m]] = [model |-> m, bytes |-> staging[m]]]
        /\ worker'.pc = "renamed" /\ worker'.model = m
        /\ worker.pc = "clear" /\ staging[m] # "none"
    BY <1>2, <1>7, <2>0 DEF Rename, Goto, M
  <2>2. staging[m] = "full" /\ folder[name[m]] = Empty /\ status[m] # "ready"
    BY <2>0, <2>1 DEF IInv, Typed, Known, Moved
  <2>3. folder \in [Names -> FolderType]
    BY DEF IInv, Typed, Types
  <2>4. InFolder(m)'
    BY <2>1, <2>2, <2>3 DEF InFolder
  <2>5. ASSUME NEW o \in Models, InFolder(o), name[o] \in Names
        PROVE  InFolder(o)'
    <3>1. folder[name[o]] # Empty
      BY <2>5 DEF InFolder, Empty
    <3> QED
      BY <2>1, <2>2, <2>3, <2>5, <3>1 DEF InFolder
  <2>6. \A o \in Models : status[o] # "absent" => name[o] \in Names
    BY DEF IInv, Typed, Known
  <2>7. Rowed' /\ Owned'
    BY <2>1, <2>5, <2>6 DEF IInv, Rowed, Owned, InTable, Rows, ACTIVE
  <2>8. Moved'
    BY <2>1, <2>2, <2>4 DEF Moved
  <2>9. Removed'
    <3>1. \A q \in Requests : Removing(q) =>
             req[q].model \in Models /\ name[req[q].model] \in Names
      BY <2>6 DEF IInv, Typed, Known, Removing
    <3>2. Owning'
      BY <2>1, <2>5, <3>1 DEF IInv, Removed, Owning, Removing
    <3>3. Alone' /\ Looked'
      BY <2>1 DEF IInv, Removed, Alone, Looked, Removing, InTable
    <3> QED
      BY <3>2, <3>3 DEF Removed
  <2> QED
    BY <1>1, <2>7, <2>8, <2>9 DEF IInv
<1>8. CASE SetReady
  <2>1. /\ UNCHANGED <<name, folder, req, twice>> /\ M \in Models
        /\ path' = [path EXCEPT ![M] = InTable(M)]
        /\ worker' = Idle /\ M = worker.model /\ worker.pc = "renamed"
        /\ status' = (IF InTable(M) THEN [status EXCEPT ![M] = "ready"] ELSE status)
    BY <1>2, <1>8 DEF SetReady, SetStatus, Finally, M
  <2>2. /\ \A o \in Models : o # M => status'[o] = status[o] /\ path'[o] = path[o]
        /\ InTable(M) => status'[M] = "ready" /\ path'[M]
        /\ ~InTable(M) => status'[M] = status[M] /\ ~path'[M]
    <3>1. /\ status \in [Models -> Statuses] /\ path \in [Models -> BOOLEAN]
          /\ InTable(M) \in BOOLEAN
      BY DEF IInv, Typed, Types, InTable
    <3> QED
      BY <2>1, <3>1
  <2>3. \A o \in Models : InTable(o)' <=> InTable(o)
    BY <2>2 DEF InTable, Rows, ACTIVE
  <2>4. InTable(M) /\ name[M] \notin twice => InFolder(M)
    BY <2>1 DEF IInv, Moved
  <2>5. \A o \in Models : InFolder(o)' <=> InFolder(o)
    BY <2>1 DEF InFolder
  <2>6. Rowed'
    <3>1. \A o \in Models : status'[o] = "absent" => ~path'[o]
      BY <2>1, <2>2 DEF IInv, Rowed
    <3>2. \A o \in Models : status'[o] = "ready" => path'[o]
      BY <2>1, <2>2 DEF IInv, Rowed, InTable, Rows
    <3>3. \A o, p \in Models : InTable(o)' /\ InTable(p)' /\ o # p => name'[o] # name'[p]
      BY <2>1, <2>3 DEF IInv, Rowed
    <3> QED
      BY <3>1, <3>2, <3>3 DEF Rowed
  <2>7. Owned'
    BY <2>1, <2>2, <2>3, <2>4, <2>5 DEF IInv, Owned
  <2>8. Moved'
    BY <2>1 DEF Moved, Idle
  <2>9. Removed'
    <3>1. \A q \in Requests : req[q].pc # "idle" => req[q].model \in Models
      BY DEF IInv, Typed, Known
    <3>2. \A o \in Models : status[o] = "deleted" => status'[o] = "deleted"
      BY <2>2 DEF InTable, Rows, ACTIVE
    <3>3. Owning'
      BY <2>1, <2>5, <3>1, <3>2 DEF IInv, Removed, Owning, Removing
    <3>4. Alone'
      BY <2>1 DEF IInv, Removed, Alone, Removing
    <3>5. Looked'
      BY <2>1, <2>2, <2>3, <3>1 DEF IInv, Removed, Looked
    <3> QED
      BY <3>3, <3>4, <3>5 DEF Removed
  <2> QED
    BY <1>1, <2>6, <2>7, <2>8, <2>9 DEF IInv
<1> QED
  BY <1>3, <1>4, <1>5, <1>6, <1>7, <1>8 DEF Run

\* A start of the process puts what was active back in the queue and leaves
\* folders alone.
LEMMA RestartInv ==
    ASSUME IInv, Restart
    PROVE  IInv'
<1>1. Typed'
  BY RestartTyped DEF IInv
<1>2. /\ status' = [m \in Models |-> IF status[m] \in ACTIVE THEN "queued" ELSE status[m]]
      /\ UNCHANGED <<twice, name, path, staging, folder>>
      /\ worker' = Idle /\ req' = [q \in Requests |-> NoReq]
  BY DEF Restart, Stopped, diskVars
<1>3. \A m \in Models : /\ InTable(m)' <=> InTable(m)
                        /\ status'[m] \in {"absent", "ready"} => status'[m] = status[m]
  BY <1>2 DEF InTable, Rows, ACTIVE
<1>4. Rowed' /\ Owned'
  BY <1>2, <1>3 DEF IInv, Rowed, Owned, InFolder
<1>5. Moved'
  BY <1>2 DEF Moved, Idle
<1>6. Removed'
  BY <1>2 DEF Removed, Owning, Alone, Looked, Removing, NoReq
<1> QED
  BY <1>1, <1>4, <1>5, <1>6 DEF IInv

LEMMA StepInv ==
    ASSUME IInv, [Next]_vars
    PROVE  IInv'
<1>1. CASE RequestStep \/ Run \/ Interrupted \/ Restart
  BY <1>1, RequestInv, WorkerInv, RestartInv
<1>2. CASE UNCHANGED vars
  <2>1. Typed'
    BY <1>2, StepTyped DEF IInv
  <2>2. UNCHANGED <<status, name, path, folder, worker, req, twice>>
    BY <1>2 DEF vars, rowVars, diskVars, reqVars
  <2>3. Rowed' /\ Owned' /\ Moved'
    BY <2>2 DEF IInv, Rowed, Owned, Moved, InFolder, InTable
  <2>4. Removed'
    BY <2>2 DEF IInv, Removed, Owning, Alone, Looked, Removing, InFolder, InTable
  <2> QED
    BY <2>1, <2>3, <2>4 DEF IInv
<1> QED
  BY <1>1, <1>2 DEF Next, RequestStep

\* A truncated or tampered download never becomes ready: the folder of every
\* ready model holds that model with the bytes that were verified.
THEOREM ReadyVerified == Spec => []ReadyIsVerified
<1>1. Init => IInv
  BY InitInv
<1>2. IInv /\ [Next]_vars => IInv'
  BY StepInv
<1>3. IInv => ReadyIsVerified
  BY DEF IInv, Rowed, Owned, InFolder, InTable, Rows, ReadyIsVerified
<1> QED
  BY <1>1, <1>2, <1>3, PTL DEF Spec
-----------------------------------------------------------------------------
LEMMA StepKeepsReady ==
    ASSUME IInv, Next, NEW m \in Models, status[m] = "ready"
    PROVE  \/ status'[m] \in {"ready", "deleted"}
           \/ \E q \in Requests : req[q].pc = "retry" /\ req[q].model = m
<1>1. status \in [Models -> Statuses]
  BY DEF IInv, Typed, Types
<1>2. CASE RequestStep
  <2>1. \/ status' = status
        \/ \E o \in Models : status[o] = "absent" /\ status' = [status EXCEPT ![o] = "queued"]
        \/ \E q \in Requests : /\ req[q].pc = "retry"
                               /\ status' = [status EXCEPT ![req[q].model] = "queued"]
        \/ \E q \in Requests : status' = [status EXCEPT ![req[q].model] = "deleted"]
    BY <1>2 DEF RequestStep, Request, RetryRead, DeleteRead, Finish, RetryCommit, Enqueue,
                DeleteCommit, DeleteCancel, DeleteFolders, rowVars
  <2> QED
    BY <1>1, <2>1
<1>3. CASE Run \/ Interrupted
  <2>1. worker.pc \notin {"idle", "taken"} => status[M] # "ready"
    BY DEF IInv, Moved, M
  <2>2. \/ status' = status
        \/ M # m /\ \E s \in Statuses : status' = [status EXCEPT ![M] = s]
        \/ status' = [status EXCEPT ![M] = "ready"]
    <3>1. CASE Take \/ MakeStaging \/ Verify \/ Cancelled \/ Rename
               \/ \E bytes \in Fetched : Fetch(bytes)
      BY <3>1 DEF Take, MakeStaging, Verify, Cancelled, Rename, Fetch, rowVars
    <3>2. CASE Begin
      <4>1. status' = status \/ (status[M] \in {"queued", "downloading"}
                                  /\ status' = [status EXCEPT ![M] = "downloading"])
        BY <3>2 DEF Begin
      <4> QED
        BY <4>1 DEF Statuses
    <3>3. CASE MarkVerifying \/ VerifyFails \/ CheckFinal \/ StagingGone \/ Interrupted
      <4>1. worker.pc \notin {"idle", "taken"}
        BY <3>3 DEF MarkVerifying, VerifyFails, CheckFinal, StagingGone, Interrupted, At
      <4>2. \/ status' = status
            \/ \E s \in {"verifying", "failed"} : status' = [status EXCEPT ![M] = s]
        BY <3>3 DEF MarkVerifying, VerifyFails, CheckFinal, StagingGone, Interrupted, SetStatus
      <4> QED
        BY <2>1, <4>1, <4>2 DEF Statuses
    <3>4. CASE SetReady
      BY <3>4 DEF SetReady, SetStatus
    <3> QED
      BY <1>3, <3>1, <3>2, <3>3, <3>4 DEF Run
  <2> QED
    BY <1>1, <2>2
<1>4. CASE Restart
  BY <1>4 DEF Restart, ACTIVE
<1> QED
  BY <1>2, <1>3, <1>4 DEF Next, RequestStep

\* A model that is ready is not downloaded again, whatever requests, restarts
\* and repeated entries of the queue come in between.
THEOREM ReadyKept == Spec => ReadyIsKept
<1> DEFINE Keeps ==
      \A m \in Models : status[m] = "ready" =>
        \/ status'[m] \in {"ready", "deleted"}
        \/ \E q \in Requests : req[q].pc = "retry" /\ req[q].model = m
<1>1. Init => IInv
  BY InitInv
<1>2. IInv /\ [Next]_vars => IInv'
  BY StepInv
<1>3. IInv /\ [Next]_vars => [Keeps]_vars
  BY StepKeepsReady
<1>4. Spec => [][Keeps]_vars
  <2> HIDE DEF Keeps
  <2> QED
    BY <1>1, <1>2, <1>3, PTL DEF Spec
<1> QED
  BY <1>4 DEF ReadyIsKept
=============================================================================
