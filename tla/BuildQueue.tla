----------------------------- MODULE BuildQueue -----------------------------
(***************************************************************************)
(* Starting and running builds: the API threads of POST /projects/{id}/    *)
(* builds (api.start_build), the in-memory queue and worker thread of      *)
(* services/builds.BuildService, a stop of the process and the recovery at *)
(* the next start.  Several API threads run start_build at once; each of   *)
(* its queries, and its commit, is a step of its own.  Every append to a   *)
(* build's log file is a place where the file system may refuse (a full    *)
(* log volume): the code has no handler between that and the worker loop.  *)
(***************************************************************************)
EXTENDS BuildStates, Naturals, Sequences, FiniteSets

CONSTANTS
  Builds,        \* identities of build rows; each is inserted at most once
  Projects,
  Clients,       \* API threads that may be in start_build at the same time
  Workers,       \* worker threads that may be created between two restarts
  None,          \* no thread, no build
  MaxVersion,    \* bound: versions 1..MaxVersion, next_patch is the successor
  MaxFaults,     \* bound: log writes the file system refuses
  MaxCrashes     \* bound: stops of the process

ASSUME MaxVersionAssumption == MaxVersion \in Nat \ {0}
ASSUME BoundsAssumption     == MaxFaults \in Nat /\ MaxCrashes \in Nat
ASSUME NoneAssumption       == None \notin Builds /\ None \notin Workers

VARIABLES
  status,        \* status column of each build, BuildStates!Status
  built,         \* project, version and number columns of each inserted row
  nextVersion,   \* Project.next_version, the suggestion for the next build
  queue,         \* BuildService._queue
  current,       \* BuildService._worker: the last thread started, or None
  wpc, job,      \* where each worker thread is, and its build_id
  rpc, req,      \* where each API thread is in start_build, and its locals
  up,            \* the process is running
  faults,        \* log writes refused so far
  crashes        \* stops so far

rowVars  == <<status, built, nextVersion>>
workVars == <<queue, current, wpc, job>>
reqVars  == <<rpc, req>>
envVars  == <<up, faults, crashes>>
vars     == <<rowVars, workVars, reqVars, envVars>>

Versions == 1 .. MaxVersion

Stages == Running                       \* inside the try block of run()
Held   == Stages \cup {"taken", "begun", "tail", "fail", "loopfail"}
WPc    == Held \cup {"none", "idle", "dead"}
Checking == {"loaded", "versioned", "clear", "numbered"}
RPc    == Checking \cup {"idle", "put", "start", "spawn"}

NoRow == [project |-> None, version |-> 0, number |-> 0]
NoReq == [project |-> None, version |-> 0, seen |-> 0, number |-> 0,
          build |-> None]

RowType == [project : Projects \cup {None}, version : Versions \cup {0},
            number : Nat]
ReqType == [project : Projects \cup {None}, version : Versions \cup {0},
            seen : 0 .. MaxVersion + 1, number : Nat,
            build : Builds \cup {None}]

TypeOK ==
  /\ status \in [Builds -> Status]
  /\ built \in [Builds -> RowType]
  /\ nextVersion \in [Projects -> 1 .. MaxVersion + 1]
  /\ queue \in Seq(Builds)
  /\ current \in Workers \cup {None}
  /\ wpc \in [Workers -> WPc]
  /\ job \in [Workers -> Builds \cup {None}]
  /\ rpc \in [Clients -> RPc]
  /\ req \in [Clients -> ReqType]
  /\ up \in BOOLEAN
  /\ faults \in 0 .. MaxFaults
  /\ crashes \in 0 .. MaxCrashes

Init ==
  /\ status = [b \in Builds |-> "absent"]
  /\ built = [b \in Builds |-> NoRow]
  /\ nextVersion = [p \in Projects |-> 1]
  /\ queue = <<>>
  /\ current = None
  /\ wpc = [w \in Workers |-> "none"]
  /\ job = [w \in Workers |-> None]
  /\ rpc = [c \in Clients |-> "idle"]
  /\ req = [c \in Clients |-> NoReq]
  /\ up = TRUE
  /\ faults = 0
  /\ crashes = 0

(***************************************************************************)
(* start_build                                                             *)
(***************************************************************************)
RowSet == {b \in Builds : status[b] \in Rows}

\* models.next_build_number: one more than the highest number in the table.
NextNumber(n) ==
  /\ \A b \in RowSet : built[b].number < n
  /\ n = 1 \/ \E b \in RowSet : built[b].number = n - 1

Refuse(c) ==
  /\ rpc' = [rpc EXCEPT ![c] = "idle"]
  /\ req' = [req EXCEPT ![c] = NoReq]

\* The project row is read once, at the start; its next_version is used
\* again when the build is committed.  The caller may name any version.  The
\* row's uuid is reserved here, which bounds the requests in flight.
Load(c, p, v, b) ==
  /\ up
  /\ rpc[c] = "idle"
  /\ status[b] = "absent"
  /\ \A d \in Clients : req[d].build # b
  /\ rpc' = [rpc EXCEPT ![c] = "loaded"]
  /\ req' = [req EXCEPT ![c] = [project |-> p, version |-> v,
               seen |-> nextVersion[p], number |-> 0, build |-> b]]
  /\ UNCHANGED <<rowVars, workVars, envVars>>

\* 409 "Version has already been built".
CheckVersion(c) ==
  /\ rpc[c] = "loaded"
  /\ \/ /\ \E b \in RowSet : /\ built[b].project = req[c].project
                             /\ built[b].version = req[c].version
        /\ Refuse(c)
     \/ /\ \A b \in RowSet : \/ built[b].project # req[c].project
                             \/ built[b].version # req[c].version
        /\ rpc' = [rpc EXCEPT ![c] = "versioned"]
        /\ UNCHANGED req
  /\ UNCHANGED <<rowVars, workVars, envVars>>

\* Mutated: a build still waiting in the queue does not count as running.
CheckRunningIgnoresQueued(c) ==
  /\ rpc[c] = "versioned"
  /\ ~\E b \in Builds : status[b] \in Running /\ built[b].project = req[c].project
  /\ rpc' = [rpc EXCEPT ![c] = "clear"]
  /\ UNCHANGED <<rowVars, workVars, req, envVars>>

\* 409 "A build for this project is already running".
CheckRunning(c) ==
  /\ rpc[c] = "versioned"
  /\ \/ /\ \E b \in Builds : /\ status[b] \in Active
                             /\ built[b].project = req[c].project
        /\ Refuse(c)
     \/ /\ \A b \in Builds : \/ status[b] \notin Active
                             \/ built[b].project # req[c].project
        /\ rpc' = [rpc EXCEPT ![c] = "clear"]
        /\ UNCHANGED req
  /\ UNCHANGED <<rowVars, workVars, envVars>>

Numbered(r, n) == [project |-> r.project, version |-> r.version,
                   seen |-> r.seen, number |-> n, build |-> r.build]

TakeNumber(c, n) ==
  /\ rpc[c] = "clear"
  /\ NextNumber(n)
  /\ rpc' = [rpc EXCEPT ![c] = "numbered"]
  /\ req' = [req EXCEPT ![c] = Numbered(req[c], n)]
  /\ UNCHANGED <<rowVars, workVars, envVars>>

\* Mutated: only (project_id, version) is unique.
CollidesByVersion(c) ==
  \E b \in RowSet : /\ built[b].project = req[c].project
                    /\ built[b].version = req[c].version

\* The unique constraints: (project_id, version), and number.
Collides(c) ==
  \E b \in RowSet : \/ /\ built[b].project = req[c].project
                       /\ built[b].version = req[c].version
                    \/ built[b].number = req[c].number

\* Mutated: suggests the version just built; skips one.
SuggestionWithoutPatch(c, p) ==
  IF p = req[c].project /\ req[c].version > req[c].seen
  THEN req[c].version ELSE nextVersion[p]

SuggestionSkipping(c, p) ==
  IF p = req[c].project THEN req[c].version + 2 ELSE nextVersion[p]

\* next_version of the project as this request writes it, from the value it
\* read in Load.
Suggestion(c, p) ==
  IF p = req[c].project /\ req[c].version + 1 > req[c].seen
  THEN req[c].version + 1
  ELSE nextVersion[p]

Commit(c) ==
  /\ rpc[c] = "numbered"
  /\ \/ /\ Collides(c)                   \* IntegrityError: 409
        /\ Refuse(c)
        /\ UNCHANGED rowVars
     \/ /\ ~Collides(c)
        /\ status' = [status EXCEPT ![req[c].build] = "queued"]
        /\ built' = [built EXCEPT ![req[c].build] =
             [project |-> req[c].project, version |-> req[c].version,
              number |-> req[c].number]]
        /\ nextVersion' = [p \in Projects |-> Suggestion(c, p)]
        /\ rpc' = [rpc EXCEPT ![c] = "put"]
        /\ UNCHANGED req
  /\ UNCHANGED <<workVars, envVars>>

\* BuildService.enqueue: put, then start(): look at _worker, then replace it.
Put(c) ==
  /\ rpc[c] = "put"
  /\ queue' = Append(queue, req[c].build)
  /\ rpc' = [rpc EXCEPT ![c] = "start"]
  /\ UNCHANGED <<rowVars, current, wpc, job, req, envVars>>

Alive(w) == w # None /\ wpc[w] \notin {"none", "dead"}

\* Mutated: a new thread for every build.
StartAlways(c) ==
  /\ rpc[c] = "start"
  /\ rpc' = [rpc EXCEPT ![c] = "spawn"]
  /\ UNCHANGED <<rowVars, workVars, req, envVars>>

StartCheck(c) ==
  /\ rpc[c] = "start"
  /\ \/ /\ current # None /\ Alive(current)
        /\ Refuse(c)
     \/ /\ current = None \/ ~Alive(current)
        /\ rpc' = [rpc EXCEPT ![c] = "spawn"]
        /\ UNCHANGED req
  /\ UNCHANGED <<rowVars, workVars, envVars>>

Spawn(c, w) ==
  /\ rpc[c] = "spawn"
  /\ wpc[w] = "none"
  /\ wpc' = [wpc EXCEPT ![w] = "idle"]
  /\ current' = w
  /\ rpc' = [rpc EXCEPT ![c] = "idle"]
  /\ req' = [req EXCEPT ![c] = NoReq]
  /\ UNCHANGED <<rowVars, queue, job, envVars>>

(***************************************************************************)
(* The worker thread: _loop and run.  A step sets the stage that run()     *)
(* commits with _set_status and stands for the runtime call that follows.  *)
(***************************************************************************)
Goto(w, pc) == wpc' = [wpc EXCEPT ![w] = pc]
SetStatus(b, s) == status' = [status EXCEPT ![b] = s]
KeepJob == UNCHANGED <<built, nextVersion, queue, current, job, reqVars>>

\* Mutated: looks at the head of the queue without removing it.
TakeWithoutRemoving(w) ==
  /\ wpc[w] = "idle"
  /\ queue # <<>>
  /\ Goto(w, "taken")
  /\ job' = [job EXCEPT ![w] = Head(queue)]
  /\ UNCHANGED <<rowVars, queue, current, reqVars, envVars>>

Take(w) ==
  /\ wpc[w] = "idle"
  /\ queue # <<>>
  /\ Goto(w, "taken")
  /\ job' = [job EXCEPT ![w] = Head(queue)]
  /\ queue' = Tail(queue)
  /\ UNCHANGED <<rowVars, current, reqVars, envVars>>

\* Back to the top of _loop.
Release(w) ==
  /\ Goto(w, "idle")
  /\ job' = [job EXCEPT ![w] = None]
  /\ UNCHANGED <<built, nextVersion, queue, current, reqVars>>

\* The first transaction of run: only a queued build is run.  The project row
\* is always there, delete_project only sets deleted_at.
Begin(w) ==
  /\ wpc[w] = "taken"
  /\ IF status[job[w]] = "queued"
     THEN SetStatus(job[w], "preparing") /\ Goto(w, "begun") /\ KeepJob
     ELSE Release(w) /\ UNCHANGED status
  /\ UNCHANGED envVars

\* The log header, written before the try block is entered.
Header(w) ==
  /\ wpc[w] = "begun"
  /\ Goto(w, "preparing")
  /\ KeepJob
  /\ UNCHANGED <<status, envVars>>

\* pulling; resolve the base, generate the Containerfile, prepare the context
\* and build; run the checks where the recipe has some; export.
Stage(w, s) ==
  /\ wpc[w] \in Stages
  /\ s \in After(wpc[w]) \ {"ready"}
  /\ SetStatus(job[w], s)
  /\ Goto(w, s)
  /\ KeepJob
  /\ UNCHANGED envVars

\* Mutated: a build may become ready without its archive.
ReadyWithoutExport(w) ==
  /\ wpc[w] \in {"building", "testing", "exporting"}
  /\ SetStatus(job[w], "ready")
  /\ Goto(w, "tail")
  /\ KeepJob
  /\ UNCHANGED envVars

\* The archive is written and its checksum known: results and "ready" are
\* committed together.
Ready(w) ==
  /\ wpc[w] = "exporting"
  /\ SetStatus(job[w], "ready")
  /\ Goto(w, "tail")
  /\ KeepJob
  /\ UNCHANGED envVars

\* "Image ready", the done message and on_built, still inside the try block.
Announce(w) ==
  /\ wpc[w] = "tail"
  /\ Release(w)
  /\ UNCHANGED <<status, envVars>>

\* A BuildError, or any other exception, in a stage.
Raise(w) ==
  /\ wpc[w] \in Stages
  /\ Goto(w, "fail")
  /\ KeepJob
  /\ UNCHANGED <<status, envVars>>

\* _fail, called by run's handlers or by _loop's: the log line, the status.
\* The row may be gone: a finished build can be deleted while its run ends.
ReportFailure(w) ==
  /\ wpc[w] \in {"fail", "loopfail"}
  /\ IF status[job[w]] \in Rows THEN SetStatus(job[w], "failed")
                                ELSE UNCHANGED status
  /\ Release(w)
  /\ UNCHANGED envVars

\* Mutated: _loop has no handler of its own.
EscapeNoLoopHandler == [begun |-> "dead", tail |-> "fail",
                        fail |-> "dead", loopfail |-> "dead"]

\* Where control goes when a log write is refused: out of the header it
\* reaches _loop's handler, out of the tail run's own handler; out of _fail it
\* reaches _loop's handler first and then nothing at all: the thread ends.
Escape == [begun |-> "loopfail", tail |-> "fail",
           fail |-> "loopfail", loopfail |-> "dead"]

LogFault(w) ==
  /\ faults < MaxFaults
  /\ wpc[w] \in DOMAIN Escape
  /\ Goto(w, Escape[wpc[w]])
  /\ faults' = faults + 1
  /\ KeepJob
  /\ UNCHANGED <<status, up, crashes>>

(***************************************************************************)
(* delete_build, and a stop and start of the process                       *)
(***************************************************************************)
\* Mutated: any build that left the queue may be deleted.
DeleteRunning(b) ==
  /\ up
  /\ status[b] \in Finished \cup Running
  /\ SetStatus(b, "deleted")
  /\ UNCHANGED <<built, nextVersion, workVars, reqVars, envVars>>

\* Only the row: which files go with it is BuildArtifacts' subject.
Delete(b) ==
  /\ up
  /\ status[b] \in Finished
  /\ SetStatus(b, "deleted")
  /\ UNCHANGED <<built, nextVersion, workVars, reqVars, envVars>>

Crash ==
  /\ up
  /\ crashes < MaxCrashes
  /\ crashes' = crashes + 1
  /\ up' = FALSE
  /\ queue' = <<>>
  /\ current' = None
  /\ wpc' = [w \in Workers |-> "none"]
  /\ job' = [w \in Workers |-> None]
  /\ rpc' = [c \in Clients |-> "idle"]
  /\ req' = [c \in Clients |-> NoReq]
  /\ UNCHANGED <<rowVars, faults>>

\* Mutated: queued builds are left queued; every row is failed; every row is
\* queued again.
Recovering(F(_)) ==
  /\ ~up
  /\ up' = TRUE
  /\ status' = [b \in Builds |-> F(status[b])]
  /\ UNCHANGED <<built, nextVersion, workVars, reqVars, faults, crashes>>

RestartLeavesQueued ==
  Recovering(LAMBDA s : IF s \in Running THEN "failed" ELSE s)
RestartFailsAll == Recovering(LAMBDA s : IF s \in Rows THEN "failed" ELSE s)
RestartQueuesAll == Recovering(LAMBDA s : IF s \in Rows THEN "queued" ELSE s)

\* create_app: recover_interrupted runs before any worker exists.
Restart ==
  /\ ~up
  /\ up' = TRUE
  /\ status' = [b \in Builds |->
                  IF status[b] \in Active THEN "failed" ELSE status[b]]
  /\ UNCHANGED <<built, nextVersion, workVars, reqVars, faults, crashes>>

Request(c) ==
  \/ CheckVersion(c)
  \/ CheckRunning(c)
  \/ \E n \in 1 .. Cardinality(Builds) + 1 : TakeNumber(c, n)
  \/ Commit(c)
  \/ Put(c)
  \/ StartCheck(c)
  \/ \E w \in Workers : Spawn(c, w)

Run(w) ==
  \/ Take(w)
  \/ Begin(w)
  \/ Header(w)
  \/ \E s \in Stages : Stage(w, s)
  \/ Ready(w)
  \/ Announce(w)
  \/ Raise(w)
  \/ ReportFailure(w)

Next ==
  \/ \E c \in Clients, p \in Projects, v \in Versions, b \in Builds :
       Load(c, p, v, b)
  \/ \E c \in Clients : Request(c)
  \/ \E w \in Workers : Run(w) \/ LogFault(w)
  \/ \E b \in Builds : Delete(b)
  \/ Crash
  \/ Restart

Spec == Init /\ [][Next]_vars

\* A thread that can take a step takes one (the runtime's commands return),
\* and a stopped service is started again.
Fairness ==
  /\ \A c \in Clients : WF_vars(Request(c))
  /\ \A w \in Workers : WF_vars(Run(w))
  /\ WF_vars(Restart)

LiveSpec == Spec /\ Fairness

(***************************************************************************)
(* Properties                                                              *)
(***************************************************************************)
InQueue(b) == \E i \in 1 .. Len(queue) : queue[i] = b
Putting(c, b) == rpc[c] = "put" /\ req[c].build = b

\* While the process runs, an active build is never lost between threads: it
\* is in the hands of the request that inserted it, in the queue, or with a
\* worker.  A worker that died keeps the build it died with.
NoBuildIsLost ==
  up => \A b \in Builds : status[b] \in Active =>
          \/ status[b] = "queued" /\ (InQueue(b) \/ \E c \in Clients : Putting(c, b))
          \/ \E w \in Workers : job[w] = b

\* No build is run twice: whatever the number of worker threads, a build is
\* queued at most once, held by at most one worker, and never both.
NoBuildRunsTwice ==
  /\ \A i, j \in 1 .. Len(queue) : queue[i] = queue[j] => i = j
  /\ \A v, w \in Workers : job[v] = job[w] /\ job[v] # None => v = w
  /\ \A w \in Workers : job[w] # None => ~InQueue(job[w])
  /\ \A c \in Clients, b \in Builds : Putting(c, b) =>
       ~InQueue(b) /\ \A w \in Workers : job[w] # b

\* The status column says where the worker is: nothing else (a deletion, a
\* recovery, another worker) changes the record of a build while it runs.
StatusFollowsWorker ==
  \A w \in Workers :
    /\ wpc[w] = "taken" => status[job[w]] = "queued"
    /\ wpc[w] = "begun" => status[job[w]] = "preparing"
    /\ wpc[w] \in Stages => status[job[w]] = wpc[w]
    /\ wpc[w] = "tail" => status[job[w]] \in {"ready", "deleted"}

\* However requests interleave, no version of a project exists twice and no
\* two builds share a number.
VersionsAndNumbersUnique ==
  \A a, b \in RowSet : a # b =>
    /\ built[a].number # built[b].number
    /\ \/ built[a].project # built[b].project
       \/ built[a].version # built[b].version

\* A finished build never becomes active again: no late worker, recovery or
\* request reopens it.
FinishedStaysFinished ==
  [][\A b \in Builds : status[b] \in Finished =>
       status'[b] \in Finished \cup {"deleted"}]_vars

\* Every step of the threads is a step of the promised life of the records.
Lifecycle == INSTANCE BuildLifecycle WITH Builds <- Builds, status <- status
ImplementsLifecycle == Lifecycle!Spec

\* Every build finishes, through stops and restarts and through one refused
\* log write, which costs its build and nothing else.
EveryBuildFinishes ==
  \A b \in Builds :
    status[b] \in Active ~> status[b] \in Finished \cup {"deleted"}

\* One worker thread runs builds one at a time (services/builds.py:3).
OneAtATime ==
  \A v, w \in Workers : wpc[v] \in Held /\ wpc[w] \in Held => v = w

\* "A build for this project is already running" refuses a second one
\* (api.py:786).
OneActivePerProject ==
  \A a, b \in Builds :
    /\ status[a] \in Active
    /\ status[b] \in Active
    /\ built[a].project = built[b].project
    => a = b

\* The version suggested for a project is above every version it has built,
\* so accepting the suggestion is never refused as already built.
SuggestionIsFree ==
  \A b \in RowSet : built[b].version < nextVersion[built[b].project]

\* A build record does not change once it finishes (services/builds.py:8):
\* it is only ever deleted.
FinishedIsFinal ==
  [][\A b \in Builds : status[b] \in Finished =>
       status'[b] \in {status[b], "deleted"}]_vars
=============================================================================
