--------------------------- MODULE ModelDownloads ---------------------------
(***************************************************************************)
(* services/llm_models.ModelService: models requested from Hugging Face,   *)
(* downloaded by one worker thread into a staging directory, verified,     *)
(* renamed to their folder and split into parts; retried, deleted (also    *)
(* while they download) and resumed after a stop of the process.  The      *)
(* worker is started under a lock, so there is exactly one.  A model's     *)
(* files are one file here, and its partial states one state.              *)
(***************************************************************************)
EXTENDS Naturals, Sequences, FiniteSets

CONSTANTS
  Models,        \* identities of model rows; each is inserted at most once
  Names,         \* folder names under the model directory
  Requests,      \* API threads
  MaxFaults,     \* bound: failed transfers, and transfers of wrong bytes
  MaxRetries,    \* bound: retries of a failed model
  MaxRestarts,   \* bound: stops and starts of the process
  None

ASSUME BoundsAssumption ==
  MaxFaults \in Nat /\ MaxRetries \in Nat /\ MaxRestarts \in Nat
ASSUME NoneAssumption == None \notin Models \cup Names
ASSUME ModelsAssumption == IsFiniteSet(Models)

VARIABLES
  status, name, path,  \* columns of each model; path is set or not
  queue, cancel,       \* ModelService._queue and _cancel
  worker,              \* where the worker thread is, and with which model
  staging,             \* .download-<id> directory of each model
  folder,              \* content of each model folder
  req,                 \* API threads inside request, retry and delete
  twice,               \* history: names of models two requests deleted at once
  faults, retries, restarts

rowVars  == <<status, name, path>>
diskVars == <<staging, folder>>
envVars  == <<faults, retries, restarts>>
reqVars  == <<req, twice>>
vars == <<rowVars, queue, cancel, worker, diskVars, reqVars, envVars>>

ACTIVE == {"queued", "downloading", "verifying"}
Rows   == ACTIVE \cup {"ready", "failed"}
Fetched == {"full", "wrong"}
Empty  == [model |-> None, bytes |-> "none"]
NoReq  == [pc |-> "idle", model |-> None, active |-> FALSE, path |-> FALSE]
Idle   == [pc |-> "idle", model |-> None]

TypeOK ==
  /\ status \in [Models -> Rows \cup {"absent", "deleted"}]
  /\ name \in [Models -> Names \cup {None}]
  /\ path \in [Models -> BOOLEAN]
  /\ queue \in Seq(Models)
  /\ cancel \subseteq Models
  /\ worker \in [pc : {"idle", "taken", "mkdir", "fetch", "fetched", "verify",
                       "verified", "clear", "renamed"},
                 model : Models \cup {None}]
  /\ staging \in [Models -> Fetched \cup {"none", "partial"}]
  /\ folder \in [Names -> [model : Models \cup {None},
                           bytes : Fetched \cup {"none"}]]
  /\ req \in [Requests -> [pc : {"idle", "enqueue", "retry", "delete",
                                 "cancel", "remove"},
                           model : Models \cup {None},
                           active : BOOLEAN, path : BOOLEAN]]
  /\ twice \subseteq Names
  /\ faults \in 0 .. MaxFaults
  /\ retries \in 0 .. MaxRetries
  /\ restarts \in 0 .. MaxRestarts

Init ==
  /\ status = [m \in Models |-> "absent"]
  /\ name = [m \in Models |-> None]
  /\ path = [m \in Models |-> FALSE]
  /\ queue = <<>>
  /\ cancel = {}
  /\ worker = Idle
  /\ staging = [m \in Models |-> "none"]
  /\ folder = [n \in Names |-> Empty]
  /\ req = [q \in Requests |-> NoReq]
  /\ twice = {}
  /\ faults = 0 /\ retries = 0 /\ restarts = 0

InTable(m) == status[m] \in Rows
Free(q) == req[q].pc = "idle"
Done(q) == req' = [req EXCEPT ![q] = NoReq]

(***************************************************************************)
(* request, retry and delete                                               *)
(***************************************************************************)
\* folder_name takes a name no row has; a name that another request took in
\* the meantime is refused by the unique constraint.
Request(q, m, n) ==
  /\ Free(q)
  /\ status[m] = "absent"
  /\ \A o \in Models : InTable(o) => name[o] # n
  /\ status' = [status EXCEPT ![m] = "queued"]
  /\ name' = [name EXCEPT ![m] = n]
  /\ req' = [req EXCEPT ![q].pc = "enqueue", ![q].model = m]
  /\ UNCHANGED <<twice, path, queue, cancel, worker, diskVars, envVars>>

\* retry_llm_model, or the request of a model that is listed as failed.
RetryRead(q, m) ==
  /\ Free(q)
  /\ retries < MaxRetries
  /\ retries' = retries + 1
  /\ status[m] = "failed"
  /\ req' = [req EXCEPT ![q].pc = "retry", ![q].model = m]
  /\ UNCHANGED <<twice, rowVars, queue, cancel, worker, diskVars, faults, restarts>>

\* The row may be gone (the update finds nothing: an error), or another
\* request may have queued it already.
RetryCommit(q) ==
  LET m == req[q].model IN
  /\ req[q].pc = "retry"
  /\ IF InTable(m)
     THEN /\ status' = [status EXCEPT ![m] = "queued"]
          /\ req' = [req EXCEPT ![q].pc = "enqueue"]
     ELSE Done(q) /\ UNCHANGED status
  /\ UNCHANGED <<twice, name, path, queue, cancel, worker, diskVars, envVars>>

Enqueue(q) ==
  /\ req[q].pc = "enqueue"
  /\ queue' = Append(queue, req[q].model)
  /\ Done(q)
  /\ UNCHANGED <<twice, rowVars, cancel, worker, diskVars, envVars>>

DeleteRead(q, m) ==
  /\ Free(q)
  /\ InTable(m)
  /\ req' = [req EXCEPT ![q] = [pc |-> "delete", model |-> m,
               active |-> status[m] \in ACTIVE, path |-> path[m]]]
  /\ UNCHANGED <<twice, rowVars, queue, cancel, worker, diskVars, envVars>>

\* Deleting a row that another request has just deleted is only warned about.
DeleteCommit(q) ==
  LET m == req[q].model IN
  /\ req[q].pc = "delete"
  /\ status' = [status EXCEPT ![m] = "deleted"]
  /\ twice' = IF InTable(m) THEN twice ELSE twice \cup {name[m]}
  /\ req' = [req EXCEPT ![q].pc = "cancel"]
  /\ UNCHANGED <<name, path, queue, cancel, worker, diskVars, envVars>>

DeleteCancel(q) ==
  /\ req[q].pc = "cancel"
  /\ cancel' = IF req[q].active THEN cancel \cup {req[q].model} ELSE cancel
  /\ req' = [req EXCEPT ![q].pc = "remove"]
  /\ UNCHANGED <<twice, rowVars, queue, worker, diskVars, envVars>>

DeleteFolders(q) ==
  LET m == req[q].model IN
  /\ req[q].pc = "remove"
  /\ staging' = [staging EXCEPT ![m] = "none"]
  /\ folder' = [n \in Names |->
       IF req[q].path /\ n = name[m] THEN Empty ELSE folder[n]]
  /\ Done(q)
  /\ UNCHANGED <<twice, rowVars, queue, cancel, worker, envVars>>

(***************************************************************************)
(* The worker: _loop and run                                               *)
(***************************************************************************)
M == worker.model
Final == folder[name[M]]
At(from) == worker.pc = from
Goto(pc) == worker' = [pc |-> pc, model |-> M]

\* _set: only a row that is still there.
SetStatus(s) ==
  status' = IF InTable(M) THEN [status EXCEPT ![M] = s] ELSE status

\* The end of run: whatever happened, the model is no longer to be cancelled.
Finally == worker' = Idle /\ cancel' = cancel \ {M}

Take ==
  /\ At("idle")
  /\ queue # <<>>
  /\ worker' = [pc |-> "taken", model |-> Head(queue)]
  /\ queue' = Tail(queue)
  /\ UNCHANGED <<rowVars, cancel, diskVars, reqVars, envVars>>

\* Mutated: any model in the queue is downloaded, a finished one again.
BeginUnchecked ==
  /\ At("taken")
  /\ InTable(M)
  /\ status' = [status EXCEPT ![M] = "downloading"]
  /\ Goto("mkdir")
  /\ UNCHANGED <<name, path, queue, cancel, diskVars, reqVars, envVars>>

Begin ==
  /\ At("taken")
  /\ IF status[M] \in {"queued", "downloading"}
     THEN status' = [status EXCEPT ![M] = "downloading"] /\ Goto("mkdir")
     ELSE worker' = Idle /\ UNCHANGED status
  /\ UNCHANGED <<name, path, queue, cancel, diskVars, reqVars, envVars>>

MakeStaging ==
  /\ At("mkdir")
  /\ staging' = [staging EXCEPT ![M] = IF @ = "none" THEN "partial" ELSE @]
  /\ Goto("fetch")
  /\ UNCHANGED <<rowVars, queue, cancel, folder, reqVars, envVars>>

\* The rest of a partial file, or nothing when it is complete.  The file may
\* have its published size and not its published bytes.
Fetch(bytes) ==
  /\ At("fetch")
  /\ IF staging[M] = "partial" THEN M \notin cancel ELSE staging[M] = bytes
  /\ staging' = [staging EXCEPT ![M] = bytes]
  /\ faults' = IF bytes = "wrong" /\ staging[M] # bytes THEN faults + 1 ELSE faults
  /\ faults' <= MaxFaults
  /\ Goto("fetched")
  /\ UNCHANGED <<rowVars, queue, cancel, folder, reqVars, retries, restarts>>

MarkVerifying ==
  /\ At("fetched")
  /\ SetStatus("verifying")
  /\ Goto("verify")
  /\ UNCHANGED <<name, path, queue, cancel, diskVars, reqVars, envVars>>

\* Mutated: the size is taken for the checksum.
VerifySize ==
  /\ At("verify")
  /\ staging[M] \in Fetched
  /\ Goto("verified")
  /\ UNCHANGED <<rowVars, queue, cancel, diskVars, reqVars, envVars>>

Verify ==
  /\ At("verify")
  /\ staging[M] = "full"
  /\ Goto("verified")
  /\ UNCHANGED <<rowVars, queue, cancel, diskVars, reqVars, envVars>>

\* The file is removed, the rest of the staging directory kept.
VerifyFails ==
  /\ At("verify")
  /\ staging[M] = "wrong"
  /\ staging' = [staging EXCEPT ![M] = "partial"]
  /\ SetStatus("failed")
  /\ Finally
  /\ UNCHANGED <<name, path, queue, folder, reqVars, envVars>>

\* Read in chunks, and once more after the verification.
Cancelled ==
  /\ \/ At("fetch") /\ staging[M] = "partial"
     \/ At("verified")
  /\ M \in cancel
  /\ staging' = [staging EXCEPT ![M] = "none"]
  /\ Finally
  /\ UNCHANGED <<rowVars, queue, folder, reqVars, envVars>>

\* The last look at _cancel, and at the folder.
CheckFinal ==
  /\ At("verified")
  /\ M \notin cancel
  /\ IF Final = Empty THEN Goto("clear") /\ UNCHANGED <<status, cancel>>
                      ELSE SetStatus("failed") /\ Finally
  /\ UNCHANGED <<name, path, queue, diskVars, reqVars, envVars>>

Rename ==
  /\ At("clear")
  /\ staging[M] # "none"
  /\ folder' = [folder EXCEPT ![name[M]] = [model |-> M, bytes |-> staging[M]]]
  /\ staging' = [staging EXCEPT ![M] = "none"]
  /\ Goto("renamed")
  /\ UNCHANGED <<rowVars, queue, cancel, reqVars, envVars>>

\* Mutated: the folder is not recorded.
SetReadyWithoutPath ==
  /\ At("renamed")
  /\ SetStatus("ready")
  /\ path' = [path EXCEPT ![M] = None]
  /\ Finally
  /\ UNCHANGED <<name, queue, diskVars, reqVars, envVars>>

\* After compute_parts, which reads the whole folder.
SetReady ==
  /\ At("renamed")
  /\ SetStatus("ready")
  /\ path' = [path EXCEPT ![M] = InTable(M)]
  /\ Finally
  /\ UNCHANGED <<name, queue, diskVars, reqVars, envVars>>

\* A staging directory that is gone raises OSError in whatever uses it next.
StagingGone ==
  /\ worker.pc \in {"fetch", "verify", "clear"}
  /\ staging[M] = "none"
  /\ SetStatus("failed")
  /\ Finally
  /\ UNCHANGED <<name, path, queue, diskVars, reqVars, envVars>>

\* A transfer that breaks off, a full volume, an unreadable file: what is on
\* disk stays there.
Interrupted ==
  /\ worker.pc \in {"mkdir", "fetch", "verify", "clear", "renamed"}
  /\ faults < MaxFaults
  /\ faults' = faults + 1
  /\ SetStatus("failed")
  /\ Finally
  /\ UNCHANGED <<name, path, queue, diskVars, reqVars, retries, restarts>>

(***************************************************************************)
(* A stop of the process and its next start: recover                       *)
(***************************************************************************)
InSomeOrder(S) ==
  {s \in [1 .. Cardinality(S) -> S] : \A m \in S : \E i \in DOMAIN s : s[i] = m}

Stopped ==
  /\ restarts < MaxRestarts
  /\ restarts' = restarts + 1
  /\ cancel' = {}
  /\ worker' = Idle
  /\ req' = [q \in Requests |-> NoReq]

\* Mutated: a model that was being verified is not picked up.
RestartForgettingVerifying ==
  LET pending == {m \in Models : status[m] \in {"queued", "downloading"}} IN
  /\ Stopped
  /\ status' = [m \in Models |-> IF m \in pending THEN "queued" ELSE status[m]]
  /\ queue' \in InSomeOrder(pending)
  /\ UNCHANGED <<twice, name, path, diskVars, faults, retries>>

Restart ==
  LET pending == {m \in Models : status[m] \in ACTIVE} IN
  /\ Stopped
  /\ status' = [m \in Models |-> IF m \in pending THEN "queued" ELSE status[m]]
  /\ queue' \in InSomeOrder(pending)
  /\ UNCHANGED <<twice, name, path, diskVars, faults, retries>>

Run ==
  \/ Take \/ Begin \/ MakeStaging \/ \E bytes \in Fetched : Fetch(bytes)
  \/ MarkVerifying \/ Verify \/ VerifyFails \/ Cancelled \/ CheckFinal
  \/ Rename \/ SetReady \/ StagingGone

Finish(q) ==
  \/ RetryCommit(q) \/ Enqueue(q)
  \/ DeleteCommit(q) \/ DeleteCancel(q) \/ DeleteFolders(q)

Next ==
  \/ \E q \in Requests, m \in Models, n \in Names : Request(q, m, n)
  \/ \E q \in Requests, m \in Models : RetryRead(q, m) \/ DeleteRead(q, m)
  \/ \E q \in Requests : Finish(q)
  \/ Run
  \/ Interrupted
  \/ Restart

Spec == Init /\ [][Next]_vars

\* The worker goes on, and a request that was begun ends.
LiveSpec == Spec /\ WF_vars(Run) /\ \A q \in Requests : WF_vars(Finish(q))

(***************************************************************************)
(* Properties                                                              *)
(***************************************************************************)
\* "A truncated or tampered download never becomes ready"
\* (services/llm_models.py:6): the folder of a ready model holds that model,
\* verified, through resumed and repeated downloads, retries, deletions of
\* models with the same folder name, and restarts.  (A second deletion of one
\* model, begun before the first had removed its row, removes the folder of
\* whatever model has the name by then.)
ReadyIsVerified ==
  \A m \in Models : status[m] = "ready" /\ name[m] \notin twice =>
    /\ path[m]
    /\ folder[name[m]] = [model |-> m, bytes |-> "full"]

\* A model that is ready is not downloaded again: only a deletion, or a retry
\* that had read it while it was failed, changes its status.
ReadyIsKept ==
  [][\A m \in Models : status[m] = "ready" =>
       \/ status'[m] \in {"ready", "deleted"}
       \/ \E q \in Requests : req[q].pc = "retry" /\ req[q].model = m]_vars

\* Every model that waits, downloads or is verified becomes ready or failed,
\* or is deleted: no interleaving of requests and no restart leaves it behind.
EveryDownloadSettles ==
  \A m \in Models : status[m] \in ACTIVE ~> status[m] \notin ACTIVE

\* "Downloads resume: a restart picks unfinished ones up again"
\* (services/llm_models.py:7): with no failed transfer, no wrong bytes and no
\* deletion, an unfinished download becomes ready.
RestartResumes ==
  \A m \in Models :
    status[m] \in ACTIVE ~> status[m] \in {"ready", "deleted"}

\* "Remove a model and its folder, cancelling a running download"
\* (services/llm_models.py:355): once the deletion has returned and the worker
\* has let go of the model, nothing of it is left on disk.
DeletionLeavesNothing ==
  \A m \in Models :
    /\ status[m] = "deleted"
    /\ M # m
    /\ \A q \in Requests : req[q].model # m
    => /\ staging[m] = "none"
       /\ \A n \in Names : folder[n].model # m
=============================================================================
