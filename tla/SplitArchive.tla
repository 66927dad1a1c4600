---------------------------- MODULE SplitArchive ----------------------------
(***************************************************************************)
(* SplitService (services/splitting.py): manifests of archives.  A request *)
(* looks at the row, takes the job under a lock and starts a thread; the   *)
(* thread reads the archive, compares, looks at the row again and commits. *)
(* Meanwhile the build worker may write the same path for another build    *)
(* (export_filename is not injective), and builds are deleted.             *)
(*                                                                         *)
(* The bytes of the export of build b are <<b, 1>>, <<b, 2>>, ...; every   *)
(* write gives the file a new time, so its identity is its content.        *)
(***************************************************************************)
EXTENDS Parts

CONSTANTS
    Builds,      \* builds whose archives have one path
    Exported,    \* those that are ready at the start: one at most
    Length,      \* the length of each build's archive
    PartSize,    \* splitting.part_size
    Requests,    \* threads: an API request and the run it starts
    None

ASSUME BuildsAssumption == IsFiniteSet(Builds)
ASSUME PartSizeAssumption == PartSize \in Nat \ {0}
ASSUME ExportedAssumption == Exported \subseteq Builds
ASSUME LengthAssumption == Length \in [Builds -> Nat \ {0}]

VARIABLES
    archive,   \* the bytes at the path, None when there is no file
    status,    \* of each build: "waiting", "exporting", "ready", "failed", "deleted"
    manifest,  \* export_parts of each row
    job,       \* _jobs: "none", "running" or "failed"
    run        \* of each thread: its build, where it is, what it has read

serverVars == <<archive, status, manifest, job, run>>

Full(b) == [i \in 1..Length[b] |-> <<b, i>>]

Idle == [pc |-> "idle", build |-> None, before |-> None, read |-> <<>>]

ServerInit ==
    /\ archive = IF Exported = {} THEN None ELSE Full(CHOOSE b \in Exported : TRUE)
    /\ status = [b \in Builds |-> IF b \in Exported THEN "ready" ELSE "waiting"]
    /\ manifest = [b \in Builds |-> None]
    /\ job = [b \in Builds |-> "none"]
    /\ run = [q \in Requests |-> Idle]
-----------------------------------------------------------------------------
(***************************************************************************)
(* The build worker: BuildService.run, as far as the archive is concerned. *)
(***************************************************************************)
ExportStart(b) ==
    /\ status[b] = "waiting"
    /\ \A c \in Builds : status[c] # "exporting"
    /\ status' = [status EXCEPT ![b] = "exporting"]
    /\ archive' = <<>>
    /\ UNCHANGED <<manifest, job, run>>

ExportChunk(b) ==
    /\ status[b] = "exporting"
    /\ archive # None /\ Len(archive) < Length[b]
    /\ archive' = Append(archive, <<b, Len(archive) + 1>>)
    /\ UNCHANGED <<status, manifest, job, run>>

\* The checksum is recorded with `ready`; an archive that was removed while
\* it was written fails the build.
ExportEnd(b) ==
    /\ status[b] = "exporting"
    /\ \/ archive = None /\ status' = [status EXCEPT ![b] = "failed"]
       \/ archive = Full(b) /\ status' = [status EXCEPT ![b] = "ready"]
    /\ UNCHANGED <<archive, manifest, job, run>>

\* delete_build, whose steps are those of BuildArtifacts: an archive that no
\* other row has recorded is removed with the row.
Delete(b) ==
    /\ status[b] = "ready"
    /\ status' = [status EXCEPT ![b] = "deleted"]
    /\ archive' = IF \E c \in Builds \ {b} : status[c] = "ready" THEN archive ELSE None
    /\ UNCHANGED <<manifest, job, run>>
-----------------------------------------------------------------------------
\* current_manifest: the archive that was read is the one that is there.
SameTime(b) == manifest[b].file = archive
SameSize(b) == archive # None /\ Len(manifest[b].file) = Len(archive)

Identity(b) == SameTime(b)

Current(b) ==
    /\ status[b] = "ready"
    /\ manifest[b] # None
    /\ archive # None
    /\ manifest[b].file = Full(b)     \* archive_sha256 is the row's
    /\ Identity(b)

(***************************************************************************)
(* start                                                                   *)
(***************************************************************************)
Check(q, b) ==
    /\ run[q].pc = "idle"
    /\ status[b] = "ready" /\ archive # None
    /\ ~Current(b)
    /\ run' = [run EXCEPT ![q] = [Idle EXCEPT !.pc = "checked", !.build = b]]
    /\ UNCHANGED <<archive, status, manifest, job>>

MayTake(b) == job[b] # "running"
AlwaysTake(b) == TRUE

Free(b) == MayTake(b)

\* Under the lock.  stat() of an archive that is gone raises before the job
\* is noted.
TakeJob(q) ==
    LET b == run[q].build
    IN  /\ run[q].pc = "checked"
        /\ IF Free(b) /\ archive # None
           THEN /\ job' = [job EXCEPT ![b] = "running"]
                /\ run' = [run EXCEPT ![q].pc = "begin"]
           ELSE /\ run' = [run EXCEPT ![q] = Idle]
                /\ UNCHANGED job
        /\ UNCHANGED <<archive, status, manifest>>

(***************************************************************************)
(* _run.  Whatever it raises is noted as the result of the job.            *)
(***************************************************************************)
Failed(q) ==
    /\ job' = [job EXCEPT ![run[q].build] = "failed"]
    /\ run' = [run EXCEPT ![q] = Idle]
    /\ UNCHANGED <<archive, status, manifest>>

FailedSilently(q) ==
    /\ run' = [run EXCEPT ![q] = Idle]
    /\ UNCHANGED <<archive, status, manifest, job>>

Fail(q) == Failed(q)

\* compute: the identity before, the chunks, the identity after.
Begin(q) ==
    /\ run[q].pc = "begin"
    /\ IF archive = None THEN Fail(q)
       ELSE /\ run' = [run EXCEPT ![q].pc = "read", ![q].before = archive]
            /\ UNCHANGED <<archive, status, manifest, job>>

Unread(q) == Len(run[q].before) - Len(run[q].read)

HashChunk(q) ==
    /\ run[q].pc = "read" /\ Unread(q) > 0
    /\ IF archive = None \/ Len(run[q].before) - Unread(q) >= Len(archive)
       THEN Fail(q)
       ELSE /\ run' = [run EXCEPT ![q].read = Append(@, archive[Len(@) + 1])]
            /\ UNCHANGED <<archive, status, manifest, job>>

Compare(q) ==
    /\ run[q].pc = "read" /\ Unread(q) = 0
    /\ IF archive # run[q].before \/ run[q].read # Full(run[q].build)
       THEN Fail(q)
       ELSE /\ run' = [run EXCEPT ![q].pc = "store"]
            /\ UNCHANGED <<archive, status, manifest, job>>

\* The row is looked at once more and the manifest committed.
Store(q) ==
    LET b == run[q].build
    IN  /\ run[q].pc = "store"
        /\ IF status[b] # "ready" THEN Fail(q)
           ELSE /\ manifest' = [manifest EXCEPT ![b] =
                      [file |-> run[q].before, parts |-> PartsOf(run[q].read, PartSize)]]
                /\ run' = [run EXCEPT ![q].pc = "stored"]
                /\ UNCHANGED <<archive, status, job>>

PopJob(q) ==
    /\ run[q].pc = "stored"
    /\ job' = [job EXCEPT ![run[q].build] = "none"]
    /\ run' = [run EXCEPT ![q] = Idle]
    /\ UNCHANGED <<archive, status, manifest>>

Run(q) ==
    TakeJob(q) \/ Begin(q) \/ HashChunk(q) \/ Compare(q) \/ Store(q) \/ PopJob(q)

\* What status() tells about a build.
State(b) == CASE job[b] = "running" -> "running"
              [] job[b] # "running" /\ Current(b) -> "ready"
              [] OTHER -> job[b]

Server(threads) ==
    \/ \E b \in Builds : ExportStart(b) \/ ExportChunk(b) \/ ExportEnd(b) \/ Delete(b)
    \/ \E q \in threads : Run(q) \/ \E b \in Builds : Check(q, b)

ServerSpec == ServerInit /\ [][Server(Requests)]_serverVars
-----------------------------------------------------------------------------
Running(b) == {q \in Requests : run[q].build = b /\ run[q].pc \notin {"idle", "checked"}}

(***************************************************************************)
(* Two requests to split one build start one run, the job says so for as   *)
(* long as it lasts, and only then (splitting.py:205).                     *)
(***************************************************************************)
OneRunPerBuild ==
    \A b \in Builds :
        /\ Cardinality(Running(b)) <= 1
        /\ job[b] = "running" <=> Running(b) # {}

(***************************************************************************)
(* What a reader of the status is offered as the parts of a build are the  *)
(* bytes of its own export, as they are on disk, cut without a gap: an     *)
(* archive replaced during the run or after it is never described          *)
(* (splitting.py:87, :247).                                                *)
(***************************************************************************)
OfferedIsOnDisk ==
    \A b \in Builds :
        State(b) = "ready" =>
            /\ archive = Full(b)
            /\ FlattenSeq([i \in DOMAIN manifest[b].parts |-> manifest[b].parts[i].bytes])
                 = archive

\* What must end, however the run ends (splitting.py:225).
Splitting(b) == job[b] = "running"
=============================================================================
