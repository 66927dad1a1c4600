------------------------------ MODULE MCOffline ------------------------------
(***************************************************************************)
(* What is carried to a host without a network, and what runs there, for   *)
(* TLC: scenes that share no state, of which a behaviour plays one.        *)
(*   "split"     two requests to split archives that are written and       *)
(*               deleted meanwhile                                         *)
(*   "download"  one such request, and a user who carries the parts away   *)
(*   "model"     the parts of a model folder                               *)
(*   "fetch"     an archive downloaded whole with the client               *)
(*   "move"      the same, while the image directory is moved              *)
(*   "kit"       setup.sh and install-NAME.sh                              *)
(*   "bench"     one run of gpu-bench                                      *)
(*   "tui"       its dashboard                                             *)
(***************************************************************************)
EXTENDS SplitDownload

CONSTANTS b1, b2, q1, q2, Folders, PartSizes, Block, ReadChunk,
          m1, Models, Hosts, Options, MaxKitFaults,
          w1, w2, Workers, Items, Warm, Measured, MaxJobs,
          d1, Dirs, FetchLength, Savers, Remembered, MaxMoves, Other

VARIABLES
    scene,
    tar, size, disk, reader, view, filled, whole, parts, pc, asked, sent,
    given, sameDisk, dirs, images, tag, env, cdi, kitArchive, kitParts, setup, install,
    staging, container, forgotten, forced, kitFaults,
    plan, at, main, item, before, raised, stop, entries, results, next, child, stubborn, gen,
    thread, shut, record, sends, told, report, outdated,
    app, dialog, shown, process, signalled, label, stopping, output, listener, stopper,
    stored, imageDir, saver, used, overlapped, rows, copies, handle, get, dest, moves, lost

Stream == INSTANCE PartStream
Kit == INSTANCE KitSetup WITH MaxFaults <- MaxKitFaults
Bench == INSTANCE BenchRun WITH pc <- main, disk <- results, Torn <- None
Tui == INSTANCE BenchTui WITH job <- shown, asked <- signalled, status <- label,
                              reader <- listener
Home == INSTANCE ArchiveFetch WITH Length <- FetchLength, Default <- d1, row <- rows, disk <- copies,
                                   faults <- lost

streamVars == <<tar, size, disk, reader, view, filled, whole, parts, pc, asked, sent>>
kitVars == <<given, sameDisk, dirs, images, tag, env, cdi, kitArchive, kitParts, setup, install,
             staging, container, forgotten, forced, kitFaults>>
benchVars == <<plan, at, main, item, before, raised, stop, entries, results, next, child,
               stubborn, gen, thread, shut, record, sends, told, report, outdated>>
tuiVars == <<app, dialog, shown, process, signalled, label, stopping, output, listener, stopper>>
homeVars == <<stored, imageDir, saver, used, overlapped, rows, copies, handle, get, dest,
              moves, lost>>
all == <<scene, vars, streamVars, kitVars, benchVars, tuiVars, homeVars>>
-----------------------------------------------------------------------------
ThreeChunks == [b \in Builds |-> 3]
ModelFolders == {<<>>, <<0>>, <<3>>, <<5>>, <<1, 2>>, <<3, 0>>}

\* The places and folders of KitSetup, whose Hosts these are.
Places == {"legacyModels", "models", "legacyResults", "results", "cache"}
Runs == <<"results", "runs">>
Kernels == <<"results", ".cache">>

\* A fresh host; the layout of kits before 0.9; both layouts, with a model
\* that is not the kit's, on one disk and on two.
OldHost(named, recorded, oneDisk, toolkit, folders) ==
    [tag |-> named, env |-> recorded, sameDisk |-> oneDisk, cdi |-> toolkit,
     dirs |-> [p \in Places |-> IF p \in DOMAIN folders THEN folders[p] ELSE None]]

GpuHosts ==
    {OldHost(None, None, TRUE, "installed", <<>>),
     OldHost("old", None, TRUE, "installed",
             [legacyModels |-> {<<m1, "whole">>}, legacyResults |-> {Runs, Kernels}]),
     OldHost(None, "old", TRUE, "missing",
             [legacyModels |-> {<<m1, "other">>}, models |-> {},
              legacyResults |-> {Runs}, results |-> {Runs}]),
     OldHost("old", "old", FALSE, "installed",
             [legacyModels |-> {<<m1, "other">>}, models |-> {<<m1, "other">>},
              results |-> {Runs, Kernels}])}

SetupOptions == {[keepParts |-> k, keepOld |-> k, migrate |-> ~k] : k \in BOOLEAN}

\* `gpu-bench full` with two of its tests, and each test alone.
Plans == {<<"compute", "nccl">>, <<"compute">>, <<"nccl">>, <<"llm">>}
TestItems == [t \in {"compute", "nccl", "llm"} |-> IF t = "compute" THEN 1 ELSE 2]

\* The request of the "download" scene.
ASSUME SceneAssumption == q1 \in Requests

\* Folders of files, and sizes of parts, blocks and chunks that are not empty.
ASSUME StreamAssumption ==
    /\ \A folder \in Folders : folder \in Seq(Nat)
    /\ PartSizes \subseteq Nat \ {0}
    /\ Block \in Nat \ {0} /\ ReadChunk \in Nat \ {0}

\* What a host may hold: of each model at most one, and none half moved.
Kinds == {"whole", "other", "torn"}
Things == (Models \X Kinds) \cup {Kit!Runs, Kit!Kernels}
HostFolders == [Kit!Places -> (SUBSET Things) \cup {None}]
Ids == {None, "old", "new"}

OneOfEach(where, place) ==
    \A m \in Models, s, t \in Kinds :
        where[place] # None /\ <<m, s>> \in where[place] /\ <<m, t>> \in where[place] => s = t

NoneTorn(where) ==
    \A p \in Kit!Places, m \in Models :
        where[p] # None => <<m, "torn">> \notin where[p]

HostFits(host) ==
    /\ host.dirs \in HostFolders
    /\ OneOfEach(host.dirs, "models") /\ OneOfEach(host.dirs, "legacyModels")
    /\ NoneTorn(host.dirs)
    /\ host.tag \in Ids /\ host.env \in Ids
    /\ host.tag = "new" => host.env # "old"

ASSUME KitAssumption ==
    /\ "image" \notin Models
    /\ None \notin {"old", "new"}
    /\ \A S \in SUBSET Things : S # None
    /\ \A host \in Hosts : HostFits(host)

\* Each test has something to measure, and somebody sends the requests.
Tests == {"compute", "nccl", "llm"}
EntryType == [test : Tests \cup {"health"}, level : Nat,
              status : {"PASSED", "FAILED", "STOPPED", "SKIPPED", "UNAVAILABLE"}]

ASSUME BenchAssumption ==
    /\ \A t \in Tests : Items[t] \in Nat \ {0}
    /\ Warm \in Nat /\ Measured \in Nat
    /\ Workers # {}
    /\ None \notin Seq(EntryType)

ASSUME JobsAssumption == MaxJobs \in Nat

\* What is no file is no content of one.
ASSUME FetchAssumption ==
    /\ FetchLength \in Nat /\ Remembered \in Nat
    /\ d1 \in Dirs /\ None \notin Dirs
    /\ {None, Other} \cap Home!Bytes = {}
    /\ None \notin Builds
-----------------------------------------------------------------------------
NoStream ==
    /\ tar = None /\ size = None /\ disk = None /\ reader = None /\ view = None
    /\ filled = None /\ whole = None /\ parts = None /\ pc = None /\ asked = None /\ sent = None

NoKit ==
    /\ given = None /\ sameDisk = None /\ dirs = None /\ images = None /\ tag = None /\ env = None
    /\ cdi = None /\ kitArchive = None /\ kitParts = None /\ setup = [pc |-> None]
    /\ install = [pc |-> None] /\ staging = None /\ container = None /\ forgotten = None
    /\ forced = None /\ kitFaults = None

NoBench ==
    /\ plan = None /\ at = None /\ main = None /\ item = None /\ before = None /\ raised = None
    /\ stop = FALSE /\ entries = None /\ results = None /\ next = None /\ child = None
    /\ stubborn = None /\ gen = None /\ thread = None /\ shut = None /\ record = None
    /\ sends = None /\ told = None /\ report = None /\ outdated = None

NoTui ==
    /\ app = None /\ dialog = None /\ shown = None /\ process = None /\ signalled = None
    /\ label = None /\ stopping = None /\ output = None /\ listener = None /\ stopper = None

NoHome ==
    /\ stored = None /\ imageDir = None /\ saver = None /\ used = None /\ overlapped = None
    /\ rows = None /\ copies = None /\ handle = None /\ get = None /\ dest = None
    /\ moves = None /\ lost = None

MCInit ==
    /\ Init
    /\ \/ scene \in {"split", "download"} /\ NoStream /\ NoKit /\ NoBench /\ NoTui /\ NoHome
       \/ scene = "model" /\ Stream!Init /\ NoKit /\ NoBench /\ NoTui /\ NoHome
       \/ scene = "kit" /\ NoStream /\ Kit!KitInit /\ NoBench /\ NoTui /\ NoHome
       \/ scene = "bench" /\ NoStream /\ NoKit /\ NoTui /\ NoHome
          /\ Bench!RunInit(Plans, {"PASSED", "FAILED"})
       \/ scene = "tui" /\ NoStream /\ NoKit /\ NoBench /\ Tui!TuiInit /\ NoHome
       \/ scene = "fetch" /\ NoStream /\ NoKit /\ NoBench /\ NoTui /\ Home!FetchInit
       \/ scene = "move" /\ NoStream /\ NoKit /\ NoBench /\ NoTui /\ Home!FetchInit /\ dest = None

SplitScene ==
    /\ scene = "split"
    /\ Server(Requests)
    /\ UNCHANGED <<userVars, streamVars, kitVars, benchVars, tuiVars, homeVars, scene>>

\* The user sees nothing of a split but its result, and the server nothing of
\* assemble-image.sh: neither interleaves with what it cannot tell.
DownloadScene ==
    /\ scene = "download"
    /\ \/ joining.pc = "idle" /\ Server({q1}) /\ UNCHANGED userVars
       \/ run[q1].pc = "idle" /\ User
    /\ UNCHANGED <<streamVars, kitVars, benchVars, tuiVars, homeVars, scene>>

ModelScene ==
    scene = "model" /\ Stream!Next /\ UNCHANGED <<vars, kitVars, benchVars, tuiVars, homeVars, scene>>

KitScene ==
    scene = "kit" /\ Kit!KitNext /\ UNCHANGED <<vars, streamVars, benchVars, tuiVars, homeVars, scene>>

\* Reports are written beside every test but the largest.
BenchScene ==
    /\ scene = "bench"
    /\ Bench!RunNext
    /\ plan = <<"llm">> => UNCHANGED report
    /\ UNCHANGED <<vars, streamVars, kitVars, tuiVars, homeVars, scene>>

TuiScene ==
    scene = "tui" /\ Tui!TuiNext /\ UNCHANGED <<vars, streamVars, kitVars, benchVars, homeVars, scene>>

\* The storage paths stay as they are.
FetchScene ==
    /\ scene = "fetch"
    /\ Home!FetchNext
    /\ moves' = 0
    /\ UNCHANGED <<vars, streamVars, kitVars, benchVars, tuiVars, scene>>

\* One build, and downloads as far as the file is found.
MoveScene ==
    /\ scene = "move"
    /\ Home!FetchNext
    /\ get'.pc # "stated" /\ ~get'.force /\ dest' = None
    /\ \A b \in Builds : rows'[b].status # "waiting" => b = b1
    /\ UNCHANGED <<vars, streamVars, kitVars, benchVars, tuiVars, scene>>

MCNext == SplitScene \/ DownloadScene \/ ModelScene \/ KitScene \/ BenchScene \/ TuiScene
          \/ FetchScene \/ MoveScene

MCFairness ==
    /\ \A q \in Requests : WF_run(Run(q))
    /\ Stream!Fairness
    /\ Kit!KitFairness
    /\ Bench!RunFairness

MCSafety == MCInit /\ [][MCNext]_all
MCSpec == MCSafety /\ MCFairness
-----------------------------------------------------------------------------
\* The type invariants of the modules.
TypesOK ==
    /\ TypeOK
    /\ scene = "model" => Stream!TypeOK
    /\ scene = "kit" => Kit!KitTypeOK
    /\ scene = "bench" => Bench!RunTypeOK
    /\ scene = "tui" => Tui!TuiTypeOK
    /\ scene \in {"fetch", "move"} => Home!FetchTypeOK

PartsAreTheTar == scene = "model" => Stream!PartsAreTheTar
ServedIsHashed == scene = "model" => Stream!ServedIsHashed
UserDataIsKept == scene = "kit" => Kit!UserDataIsKept
NoCopyIsLost == scene = "kit" => Kit!NoCopyIsLost
ReadyIsInstalled == scene = "kit" => Kit!ReadyIsInstalled
PassedIsWhole == scene = "bench" => Bench!PassedIsWhole
KeepsWhatItMeasured == scene = "bench" => Bench!KeepsWhatItMeasured
ArchiveStaysServed == scene \in {"fetch", "move"} => Home!ArchiveStaysServed
NamedIsVerified == scene = "fetch" => Home!NamedIsVerified

\* Whoever starts processes ends them: a benchmark its workers, the dashboard
\* its job.
NothingLeftRunning ==
    /\ scene = "bench" => Bench!NothingLeftBehind
    /\ scene = "tui" => Tui!NothingOutlivesTheApp

BenchSpec == MCInit /\ scene = "bench" /\ [][MCNext]_all

\* "Exit status: ... 130 when stopped" (docs/gpu-benchmark.md:382).
StoppedIsTold == scene = "bench" => Bench!StoppedIsTold

(***************************************************************************)
(* What is begun ends: the split of each build, though its thread fails;   *)
(* the streams of a model's parts; an installation that is stopped and run *)
(* again; a benchmark that was told to stop, though vLLM never answers.    *)
(***************************************************************************)
Pending(b) ==
    \/ scene = "split" /\ Splitting(b)
    \/ scene = "model" /\ Stream!Streaming
    \/ scene = "kit" /\ Kit!SetupPending
    \/ scene = "bench" /\ Bench!StopPending

EverythingEnds == \A b \in Builds : Pending(b) ~> ~Pending(b)
=============================================================================
