--------------------------- MODULE BuildArtifacts ---------------------------
(***************************************************************************)
(* What a build leaves outside the database, and who touches it: the       *)
(* archive the worker writes (BuildService.run), the image it tags in the  *)
(* container runtime, the scans that read either (ScanService) and the     *)
(* deletion that removes all of them (api.delete_build).  Archive names    *)
(* are not unique: export_filename maps several references to one file,    *)
(* and a project deleted and created again builds the same reference.      *)
(* BuildQueue models how builds start; here a build only has the steps     *)
(* that touch a file, an image or a scan row.                              *)
(***************************************************************************)
EXTENDS Naturals, FiniteSets

CONSTANTS
  Builds,        \* identities of build rows
  Refs,          \* image references, repository:version
  Files,         \* archive paths in the image directory
  FileOf,        \* export_filename: the archive of each reference
  Scans,         \* identities of scan rows; bounds the scans requested
  Requests,      \* API threads
  BuildWorkers,  \* threads running builds at the same time
  ScanWorkers,   \* threads running scans at the same time
  AutoScan,      \* settings.scan_after_build, with a scanner available
  HasDigest,     \* the runtime names images by digest (Podman; Docker does
                 \* not for an image that was only built locally)
  MaxRestarts,   \* bound: stops and starts of the process
  None, Torn     \* nothing there; an archive that was not written to its end

ASSUME BuildsAssumption == IsFiniteSet(Builds)
ASSUME FileOfAssumption == FileOf \in [Refs -> Files]
ASSUME WorkersAssumption ==
  /\ BuildWorkers \in Nat \ {0}
  /\ ScanWorkers \in Nat \ {0}
  /\ MaxRestarts \in Nat
  /\ AutoScan \in BOOLEAN
  /\ HasDigest \in BOOLEAN
ASSUME ContentAssumption ==
  /\ None \notin Builds \cup Refs \cup {Torn} \cup {"existing", "verified", "temporary"}
  /\ Torn \notin Builds

VARIABLES
  status,        \* status column of each build; "running" is every stage
  ref,           \* Build.image_ref, set when the row is inserted
  stage,         \* where the thread running a build is in run()
  sum,           \* what the export's checksum, export_sha256, is of
  file,          \* content of each archive: the build whose image it holds
  image,         \* the build whose image each reference names
  scan,          \* the scan rows and the locals of the scans under way
  scanQueue,     \* ScanService._queue
  req,           \* the API threads inside delete_build
  condemned,     \* history: builds whose deletion was begun
  restarts

buildVars == <<status, ref, stage, sum>>
scanVars  == <<scan, scanQueue>>
reqVars   == <<req, condemned>>
vars == <<buildVars, file, image, scanVars, reqVars, restarts>>

Content == Builds \cup {None, Torn}
Rows    == {"queued", "running", "ready", "failed"}
Writing == {"tagged", "writing", "written", "hashed"}
ScanActive == {"queued", "exporting", "scanning"}

NoScan == [state |-> "none", build |-> None, source |-> None, saw |-> None,
           rivals |-> {}]
NoReq  == [pc |-> "idle", build |-> None, paths |-> {}, refs |-> {}]

TypeOK ==
  /\ status \in [Builds -> Rows \cup {"absent", "deleted"}]
  /\ ref \in [Builds -> Refs \cup {None}]
  /\ stage \in [Builds -> Writing \cup {"none", "building", "tail"}]
  /\ sum \in [Builds -> Content]
  /\ file \in [Files -> Content]
  /\ image \in [Refs -> Builds \cup {None}]
  /\ scan \in [Scans -> [state : ScanActive \cup {"none", "completed", "failed"},
                         build : Builds \cup {None},
                         source : {None, "existing", "verified", "temporary"},
                         saw : Content, rivals : SUBSET Builds]]
  /\ scanQueue \subseteq Scans
  /\ req \in [Requests -> [pc : {"idle", "checked", "scansgone", "looked",
                                 "unlinked", "removed"},
                           build : Builds \cup {None},
                           paths : SUBSET Files, refs : SUBSET Refs]]
  /\ condemned \subseteq Builds
  /\ restarts \in 0 .. MaxRestarts

Init ==
  /\ status = [b \in Builds |-> "absent"]
  /\ ref = [b \in Builds |-> None]
  /\ stage = [b \in Builds |-> "none"]
  /\ sum = [b \in Builds |-> None]
  /\ file = [f \in Files |-> None]
  /\ image = [r \in Refs |-> None]
  /\ scan = [s \in Scans |-> NoScan]
  /\ scanQueue = {}
  /\ req = [q \in Requests |-> NoReq]
  /\ condemned = {}
  /\ restarts = 0

InTable(b) == status[b] \in Rows
Archive(b) == FileOf[ref[b]]
ScanRows(b) == {s \in Scans : scan[s].state # "none" /\ scan[s].build = b}
Free(q) == req[q].pc = "idle"

(***************************************************************************)
(* A build, from its request to the end of run()                           *)
(***************************************************************************)
Goto(b, pc) == stage' = [stage EXCEPT ![b] = pc]

\* start_build; any reference, because a deleted project's may come again.
Create(b, r) ==
  /\ \E q \in Requests : Free(q)
  /\ status[b] = "absent"
  /\ status' = [status EXCEPT ![b] = "queued"]
  /\ ref' = [ref EXCEPT ![b] = r]
  /\ UNCHANGED <<stage, sum, file, image, scanVars, reqVars, restarts>>

\* Every scan under way notes the builds that run beside it: a history, for
\* ScansDescribeTheirImage.
Start(b) ==
  /\ status[b] = "queued"
  /\ Cardinality({c \in Builds : stage[c] # "none"}) < BuildWorkers
  /\ status' = [status EXCEPT ![b] = "running"]
  /\ Goto(b, "building")
  /\ scan' = [s \in Scans |->
       IF scan[s].state \in ScanActive
       THEN [scan[s] EXCEPT !.rivals = @ \cup {b}] ELSE scan[s]]
  /\ UNCHANGED <<ref, sum, file, image, scanQueue, reqVars, restarts>>

\* backend.build: the image takes over the tag.
TagImage(b) ==
  /\ stage[b] = "building"
  /\ image' = [image EXCEPT ![ref[b]] = b]
  /\ Goto(b, "tagged")
  /\ UNCHANGED <<status, ref, sum, file, scanVars, reqVars, restarts>>

\* backend.export writes the archive where it will stay.
WriteBegin(b) ==
  /\ stage[b] = "tagged"
  /\ image[ref[b]] # None
  /\ file' = [file EXCEPT ![Archive(b)] = Torn]
  /\ Goto(b, "writing")
  /\ UNCHANGED <<status, ref, sum, image, scanVars, reqVars, restarts>>

\* Unlinked while it was written, the archive is missing afterwards and the
\* export fails: RunFails.
WriteEnd(b) ==
  /\ stage[b] = "writing"
  /\ image[ref[b]] # None
  /\ file[Archive(b)] # None
  /\ file' = [file EXCEPT ![Archive(b)] = image[ref[b]]]
  /\ Goto(b, "written")
  /\ UNCHANGED <<status, ref, sum, image, scanVars, reqVars, restarts>>

Hash(b) ==
  /\ stage[b] = "written"
  /\ file[Archive(b)] # None
  /\ sum' = [sum EXCEPT ![b] = file[Archive(b)]]
  /\ Goto(b, "hashed")
  /\ UNCHANGED <<status, ref, file, image, scanVars, reqVars, restarts>>

\* Mutated: a status that is no build state.
ReadyMisnamed(b) ==
  /\ stage[b] = "hashed"
  /\ status' = [status EXCEPT ![b] = "completed"]
  /\ Goto(b, "tail")
  /\ UNCHANGED <<ref, sum, file, image, scanVars, reqVars, restarts>>

\* Nothing looks at the archive again before "ready" is committed.
Ready(b) ==
  /\ stage[b] = "hashed"
  /\ status' = [status EXCEPT ![b] = "ready"]
  /\ Goto(b, "tail")
  /\ UNCHANGED <<ref, sum, file, image, scanVars, reqVars, restarts>>

\* A stage raises, or finds the image or the archive gone.  An archive that
\* was begun stays where it is.
RunFails(b) ==
  /\ stage[b] \in Writing \cup {"building"}
  /\ status' = [status EXCEPT ![b] = "failed"]
  /\ sum' = [sum EXCEPT ![b] = None]
  /\ Goto(b, "none")
  /\ UNCHANGED <<ref, file, image, scanVars, reqVars, restarts>>

(***************************************************************************)
(* Scans                                                                   *)
(***************************************************************************)
\* ScanService.create and enqueue: only a finished build can be scanned.
NewScan(s, b) ==
  /\ status[b] = "ready"
  /\ scan[s].state = "none"
  /\ scan[s].build = None
  /\ scan' = [scan EXCEPT ![s] = [state |-> "queued", build |-> b,
       source |-> None, saw |-> None, rivals |-> {}]]
  /\ scanQueue' = scanQueue \cup {s}

\* on_built: after_build, which is quiet when it cannot scan.
AfterBuild(b) ==
  /\ stage[b] = "tail"
  /\ Goto(b, "none")
  /\ \/ AutoScan /\ \E s \in Scans : NewScan(s, b)
     \/ UNCHANGED scanVars
  /\ UNCHANGED <<status, ref, sum, file, image, reqVars, restarts>>

RequestScan(s, b) ==
  /\ \E q \in Requests : Free(q)
  /\ NewScan(s, b)
  /\ UNCHANGED <<buildVars, file, image, reqVars, restarts>>

TakeScan(s) ==
  /\ s \in scanQueue
  /\ Cardinality({t \in Scans : scan[t].state \in {"exporting", "scanning"}})
       < ScanWorkers
  /\ scanQueue' = scanQueue \ {s}
  /\ scan' = [scan EXCEPT ![s].state = "exporting",
              ![s].rivals = {b \in Builds : stage[b] # "none"}]
  /\ UNCHANGED <<buildVars, file, image, reqVars, restarts>>

Becomes(s, f, v) ==
  /\ scan' = [scan EXCEPT ![s].state = f, ![s].source = v]
  /\ UNCHANGED <<buildVars, file, image, scanQueue, reqVars, restarts>>

\* Mutated: any archive with the recorded name is taken for the build's own.
UseExportUnchecked(s) ==
  /\ scan[s].state = "exporting" /\ scan[s].source = None
  /\ file[Archive(scan[s].build)] # None
  /\ Becomes(s, "scanning", "existing")

\* archive_for: the build's own export is scanned in place when its checksum
\* is still the recorded one.
UseExport(s) ==
  /\ scan[s].state = "exporting" /\ scan[s].source = None
  /\ file[Archive(scan[s].build)] = sum[scan[s].build]
  /\ Becomes(s, "scanning", "existing")

\* Otherwise (also when the scanner cannot read the runtime's format) the
\* image is exported once more, after _verify_reference compared its digest,
\* where there is one.
VerifyReference(s) ==
  /\ scan[s].state = "exporting" /\ scan[s].source = None
  /\ HasDigest => image[ref[scan[s].build]] = scan[s].build
  /\ Becomes(s, "exporting", "verified")

CopyImage(s) ==
  /\ scan[s].state = "exporting" /\ scan[s].source = "verified"
  /\ image[ref[scan[s].build]] # None
  /\ scan' = [scan EXCEPT ![s].state = "scanning", ![s].source = "temporary",
              ![s].saw = image[ref[scan[s].build]]]
  /\ UNCHANGED <<buildVars, file, image, scanQueue, reqVars, restarts>>

\* The scanner reads the archive, and _record completes the scan.
Record(s) ==
  /\ scan[s].state = "scanning"
  /\ scan[s].source = "existing" => file[Archive(scan[s].build)] # None
  /\ scan' = [scan EXCEPT ![s].state = "completed",
       ![s].saw = IF scan[s].source = "existing"
                  THEN file[Archive(scan[s].build)] ELSE @]
  /\ UNCHANGED <<buildVars, file, image, scanQueue, reqVars, restarts>>

Failed(r) == [NoScan EXCEPT !.state = "failed", !.build = r.build]

ScanFails(s) ==
  /\ scan[s].state \in {"exporting", "scanning"}
  /\ scan' = [scan EXCEPT ![s] = Failed(@)]
  /\ UNCHANGED <<buildVars, file, image, scanQueue, reqVars, restarts>>

(***************************************************************************)
(* delete_build                                                            *)
(***************************************************************************)
At(q, from, to) ==
  /\ req[q].pc = from
  /\ req' = [req EXCEPT ![q].pc = to]

Done(q) == req' = [req EXCEPT ![q] = NoReq]

DeleteBegin(q, b) ==
  /\ Free(q)
  /\ status[b] \in {"ready", "failed"}
  /\ req' = [req EXCEPT ![q].pc = "checked", ![q].build = b]
  /\ condemned' = condemned \cup {b}
  /\ UNCHANGED <<buildVars, file, image, scanVars, restarts>>

\* delete_for_build, in a transaction of its own; 409 while a scan is active.
DeleteScans(q) ==
  /\ \/ /\ \E s \in ScanRows(req[q].build) : scan[s].state \in ScanActive
        /\ req[q].pc = "checked"
        /\ Done(q)
        /\ UNCHANGED scan
     \/ /\ \A s \in ScanRows(req[q].build) : scan[s].state \notin ScanActive
        /\ At(q, "checked", "scansgone")
        /\ scan' = [s \in Scans |->
             IF s \in ScanRows(req[q].build)
             THEN [NoScan EXCEPT !.build = req[q].build] ELSE scan[s]]
  /\ UNCHANGED <<buildVars, file, image, scanQueue, condemned, restarts>>

\* Mutated: only finished builds share their reference.
LookAtReadyOnly(q) ==
  LET others == {c \in Builds \ {req[q].build} : status[c] = "ready"} IN
  /\ req[q].pc = "scansgone"
  /\ InTable(req[q].build)
  /\ req' = [req EXCEPT ![q].pc = "looked",
             ![q].paths = {Archive(c) : c \in others},
             ![q].refs = {ref[c] : c \in others}]
  /\ UNCHANGED <<buildVars, file, image, scanVars, condemned, restarts>>

\* BuildService.delete: what the other rows still point at.  A row has its
\* reference from the start, its export_path only once it is ready.
Look(q) ==
  LET others == {c \in Builds \ {req[q].build} : InTable(c)} IN
  /\ req[q].pc = "scansgone"
  /\ IF InTable(req[q].build)
     THEN req' = [req EXCEPT ![q].pc = "looked",
            ![q].paths = {Archive(c) : c \in {d \in others : status[d] = "ready"}},
            ![q].refs = {ref[c] : c \in others}]
     ELSE Done(q)
  /\ UNCHANGED <<buildVars, file, image, scanVars, condemned, restarts>>

\* The archive the build recorded, unless another row recorded it too.
Unlink(q) ==
  LET b == req[q].build IN
  /\ At(q, "looked", "unlinked")
  /\ file' = [f \in Files |->
       IF sum[b] # None /\ f = Archive(b) /\ f \notin req[q].paths
       THEN None ELSE file[f]]
  /\ UNCHANGED <<buildVars, image, scanVars, condemned, restarts>>

\* remove_image is the caller's choice.
RemoveImage(q) ==
  /\ At(q, "unlinked", "removed")
  /\ \/ /\ ref[req[q].build] \notin req[q].refs
        /\ image' = [image EXCEPT ![ref[req[q].build]] = None]
     \/ UNCHANGED image
  /\ UNCHANGED <<buildVars, file, scanVars, condemned, restarts>>

\* Mutated: a database that does not enforce foreign keys.
DeleteRowUnchecked(q) ==
  /\ req[q].pc = "removed"
  /\ status' = [status EXCEPT ![req[q].build] = "deleted"]
  /\ Done(q)
  /\ UNCHANGED <<ref, stage, sum, file, image, scanVars, condemned, restarts>>

\* The row goes last.  A scan row that came in the meantime still refers to
\* it: the foreign key refuses the commit and the request ends in an error,
\* with everything else already removed.
DeleteRow(q) ==
  /\ req[q].pc = "removed"
  /\ IF ScanRows(req[q].build) = {}
     THEN /\ status' = [status EXCEPT ![req[q].build] = "deleted"]
          /\ sum' = [sum EXCEPT ![req[q].build] = None]
     ELSE UNCHANGED <<status, sum>>
  /\ Done(q)
  /\ UNCHANGED <<ref, stage, file, image, scanVars, condemned, restarts>>

(***************************************************************************)
(* A stop of the process and its next start                                *)
(***************************************************************************)
\* Mutated: scans are not recovered.
RestartForgettingScans ==
  /\ restarts < MaxRestarts
  /\ restarts' = restarts + 1
  /\ status' = [b \in Builds |->
       IF status[b] \in {"queued", "running"} THEN "failed" ELSE status[b]]
  /\ stage' = [b \in Builds |-> "none"]
  /\ sum' = [b \in Builds |-> IF status[b] = "ready" THEN sum[b] ELSE None]
  /\ scanQueue' = {}
  /\ req' = [q \in Requests |-> NoReq]
  /\ UNCHANGED <<ref, file, image, scan, condemned>>

\* Both recover_interrupted; the temporary exports of scans are swept.
Restart ==
  /\ restarts < MaxRestarts
  /\ restarts' = restarts + 1
  /\ status' = [b \in Builds |->
       IF status[b] \in {"queued", "running"} THEN "failed" ELSE status[b]]
  /\ stage' = [b \in Builds |-> "none"]
  /\ sum' = [b \in Builds |-> IF status[b] = "ready" THEN sum[b] ELSE None]
  /\ scan' = [s \in Scans |->
       IF scan[s].state \in ScanActive
       THEN Failed(scan[s]) ELSE scan[s]]
  /\ scanQueue' = {}
  /\ req' = [q \in Requests |-> NoReq]
  /\ UNCHANGED <<ref, file, image, condemned>>

RunBuild(b) ==
  \/ Start(b) \/ TagImage(b) \/ WriteBegin(b) \/ WriteEnd(b) \/ Hash(b)
  \/ Ready(b) \/ AfterBuild(b) \/ RunFails(b)

RunScan(s) ==
  \/ TakeScan(s) \/ UseExport(s) \/ VerifyReference(s) \/ CopyImage(s)
  \/ Record(s) \/ ScanFails(s)

DeleteBuild(q) ==
  \/ DeleteScans(q) \/ Look(q) \/ Unlink(q) \/ RemoveImage(q) \/ DeleteRow(q)

Next ==
  \/ \E b \in Builds, r \in Refs : Create(b, r)
  \/ \E b \in Builds : RunBuild(b)
  \/ \E s \in Scans, b \in Builds : RequestScan(s, b)
  \/ \E s \in Scans : RunScan(s)
  \/ \E q \in Requests, b \in Builds : DeleteBegin(q, b)
  \/ \E q \in Requests : DeleteBuild(q)
  \/ Restart

Spec == Init /\ [][Next]_vars

\* The scan worker goes on while it has something to do: scanner and runtime
\* return.
LiveSpec == Spec /\ \A s \in Scans : WF_vars(RunScan(s))

(***************************************************************************)
(* Properties                                                              *)
(***************************************************************************)
\* "A file or image another remaining build still points at is kept"
\* (services/builds.py:522), for images: no deletion takes the image of a
\* build that nobody asked to delete, whenever that build was requested,
\* built or finished, as long as requests come one at a time: a build that is
\* requested after a deletion has looked would share the image it removes.
ImagesKept ==
  \A b \in Builds :
    status[b] = "ready" /\ b \notin condemned => image[ref[b]] # None

\* The same sentence, for files.
ArchivesKept ==
  \A b \in Builds :
    status[b] = "ready" /\ b \notin condemned => file[Archive(b)] # None

\* However a scan request, the scan a finished build asks for, and the
\* deletion of that build interleave, no scan row outlives its build, and no
\* build is gone while a scan of it is under way.
ScansHaveTheirBuild ==
  \A s \in Scans :
    scan[s].state # "none" => InTable(scan[s].build)

\* A completed scan describes the image of its own build ("never scanned in
\* place of this image", services/scanning.py:111), as far as the check before
\* the scan can promise it: what it saw otherwise was written while it ran.
ScansDescribeTheirImage ==
  \A s \in Scans : scan[s].state = "completed" =>
    \/ scan[s].saw = scan[s].build
    \/ scan[s].saw \in scan[s].rivals
    \/ scan[s].saw = Torn /\ scan[s].rivals # {}

\* No scan stays "scanning" forever, which would block deleting its build
\* (services/scanning.py:373), whatever is deleted, stopped or restarted.
EveryScanFinishes ==
  \A s \in Scans :
    scan[s].state \in ScanActive ~> scan[s].state \notin ScanActive
=============================================================================
