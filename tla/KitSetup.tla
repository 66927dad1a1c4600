------------------------------ MODULE KitSetup ------------------------------
(***************************************************************************)
(* A GPU kit on its host: setup.sh, the install-NAME.sh it calls and       *)
(* start_container.sh (llm/scripts.py).  "Every step is skipped when it is *)
(* already done, so it is safe to re-run": the scripts are stopped where   *)
(* it hurts, run again, and the host may hold an older installation.       *)
(* SplitDownload has assemble-image.sh in detail; here it is two steps.    *)
(*                                                                         *)
(* A folder is the set of what lies in it, None when it does not exist: a  *)
(* model with what verify_files finds of it ("whole", "other" or "torn"),  *)
(* the results of the user, and compiled kernels.                          *)
(***************************************************************************)
EXTENDS Integers, FiniteSets

CONSTANTS
    Models,      \* the models of the kit
    Hosts,       \* installations that setup.sh may find
    Options,     \* of setup.sh: [keepParts, keepOld, migrate : BOOLEAN]
    MaxFaults,   \* stops, failures, damaged parts and installs by hand
    None

VARIABLES
    given,       \* the folders as they were at first
    sameDisk,    \* the old and the new folders are on one disk
    dirs,        \* the folders
    images,      \* ids in podman: "old", "new"
    tag,         \* the id that IMAGE names
    env,         \* IMAGE_ID in installed.env
    cdi,         \* the NVIDIA toolkit: "missing", "installed" or "ready"
    kitArchive,  \* the image archive is restored
    kitParts,    \* parts of the image and of each model: "whole", "damaged", "gone"
    setup,       \* setup.sh: where it is, what it has found, its options
    install,     \* install-NAME.sh
    staging,     \* its staging directory, and whether an older one was left
    container,   \* the image gpu-benchmark runs
    forgotten,   \* setup.sh was stopped between podman load and podman rmi
    forced,      \* models that were replaced with --force
    kitFaults

hostVars == <<given, sameDisk, images, tag, env, cdi, container, forgotten>>
kitVars == <<hostVars, dirs, kitArchive, kitParts, setup, install, staging, forced, kitFaults>>

Image == "image"
Runs == <<"results", "runs">>
Kernels == <<"results", ".cache">>
Places == {"legacyModels", "models", "legacyResults", "results", "cache"}
Resting == {"never", "failed", "stopped", "ready"}
NotInstalling == [pc |-> "idle", model |-> None, force |-> FALSE, remove |-> FALSE]

Has(place, item) == dirs[place] # None /\ item \in dirs[place]
Installed(m) == {s \in {"whole", "other", "torn"} : Has("models", <<m, s>>)}

KitInit ==
    \E host \in Hosts :
        /\ given = host.dirs /\ dirs = host.dirs
        /\ sameDisk = host.sameDisk
        /\ images = {host.tag, host.env} \ {None}
        /\ tag = host.tag /\ env = host.env
        /\ cdi = host.cdi
        /\ kitArchive = FALSE
        /\ kitParts = [p \in Models \cup {Image} |-> "whole"]
        /\ setup = [pc |-> "never", old |-> None, loaded |-> FALSE, todo |-> {},
                    options |-> None, left |-> FALSE]
        /\ install = NotInstalling
        /\ staging = [now |-> "none", left |-> FALSE]
        /\ container = None
        /\ forgotten = FALSE /\ forced = {}
        /\ kitFaults = 0

Option == setup.options
At(where) == setup.pc = where /\ install.pc = "idle"
Goto(where) == setup' = [setup EXCEPT !.pc = where]
Exit == Goto("failed")
-----------------------------------------------------------------------------
(***************************************************************************)
(* setup.sh                                                                *)
(***************************************************************************)
RunSetup(options) ==
    /\ setup.pc \in Resting /\ install.pc = "idle"
    /\ setup' = [setup EXCEPT !.pc = "host", !.options = options]
    /\ UNCHANGED <<hostVars, dirs, kitArchive, kitParts, install, staging, forced, kitFaults>>

\* The kit's image is known by its id: one of that name may be an older one.
SameId == tag = "new"
SameName == tag # None
Loaded == SameId

\* 1/6.  What installed.env says is installed, else what IMAGE names.
CheckHost ==
    /\ At("host")
    /\ IF container # None THEN Exit
       ELSE setup' = [setup EXCEPT !.pc = IF Option.migrate THEN "models in" ELSE "folders",
                                   !.old = IF env # None THEN env ELSE tag,
                                   !.loaded = Loaded]
    /\ UNCHANGED <<hostVars, dirs, kitArchive, kitParts, install, staging, forced, kitFaults>>

(***************************************************************************)
(* 2/6.  move_in: a rename, into a folder that is absent or empty.  An     *)
(* empty one is removed first.                                             *)
(***************************************************************************)
NotEmpty(to) == dirs[to] # None /\ (dirs[to] # {} \/ (to = "models" /\ staging.left))
Never(to) == FALSE
LeftAlone(to) == NotEmpty(to)

MoveIn(from, to, here, then) ==
    /\ At(here)
    /\ IF dirs[from] = None \/ LeftAlone(to) \/ ~sameDisk
       THEN Goto(then) /\ UNCHANGED dirs
       ELSE IF dirs[to] # None
       THEN dirs' = [dirs EXCEPT ![to] = None] /\ UNCHANGED setup
       ELSE dirs' = [dirs EXCEPT ![to] = dirs[from], ![from] = None] /\ Goto(then)
    /\ UNCHANGED <<hostVars, kitArchive, kitParts, install, staging, forced, kitFaults>>

\* results/.cache of older kits.
MoveCache ==
    /\ At("cache in")
    /\ dirs' = IF Has("results", Kernels) /\ dirs["cache"] = None
               THEN [dirs EXCEPT !["results"] = @ \ {Kernels}, !["cache"] = {Kernels}]
               ELSE dirs
    /\ Goto("folders")
    /\ UNCHANGED <<hostVars, kitArchive, kitParts, install, staging, forced, kitFaults>>

\* make_dir, and 3/6: enough space, or the next step is a fault.
MakeFolders ==
    /\ At("folders")
    /\ dirs' = [p \in Places |-> IF p \in {"models", "results", "cache"} /\ dirs[p] = None
                                 THEN {} ELSE dirs[p]]
    /\ setup' = [setup EXCEPT !.todo = Models,
                              !.pc = IF setup.loaded THEN "models" ELSE "image"]
    /\ UNCHANGED <<hostVars, kitArchive, kitParts, install, staging, forced, kitFaults>>

\* 4/6.  assemble-image.sh, which removes its parts when it is done.
RestoreArchive ==
    /\ At("image")
    /\ kitArchive' = (kitArchive \/ kitParts[Image] = "whole")
    /\ IF kitArchive' THEN Goto("restored") ELSE Exit
    /\ UNCHANGED <<hostVars, dirs, kitParts, install, staging, forced, kitFaults>>

RemoveImageParts ==
    /\ At("restored")
    /\ kitParts' = IF Option.keepParts THEN kitParts ELSE [kitParts EXCEPT ![Image] = "gone"]
    /\ Goto("load")
    /\ UNCHANGED <<hostVars, dirs, kitArchive, install, staging, forced, kitFaults>>

PodmanLoad ==
    /\ At("load")
    /\ IF kitArchive THEN images' = images \cup {"new"} /\ tag' = "new" /\ Goto("old")
       ELSE Exit /\ UNCHANGED <<images, tag>>
    /\ UNCHANGED <<given, sameDisk, env, cdi, container, forgotten, dirs, kitArchive, kitParts,
                   install, staging, forced, kitFaults>>

\* podman refuses to remove an image that is in use.
RemoveOldImage ==
    /\ At("old")
    /\ LET keep == setup.old \in {None, "new"} \/ Option.keepOld \/ container = setup.old
       IN  /\ images' = IF keep THEN images ELSE images \ {setup.old}
           /\ setup' = [setup EXCEPT !.pc = "models", !.left = @ \/ keep]
    /\ UNCHANGED <<given, sameDisk, tag, env, cdi, container, forgotten, dirs, kitArchive,
                   kitParts, install, staging, forced, kitFaults>>

\* 5/6.  One script after the other.
InstallNext ==
    /\ At("models")
    /\ IF setup.todo = {} THEN Goto("toolkit") /\ UNCHANGED install
       ELSE \E m \in setup.todo :
                /\ setup' = [setup EXCEPT !.todo = @ \ {m}]
                /\ install' = [pc |-> "look", model |-> m, force |-> FALSE,
                               remove |-> ~Option.keepParts]
    /\ UNCHANGED <<hostVars, dirs, kitArchive, kitParts, staging, forced, kitFaults>>

\* 6/6.
CheckToolkit ==
    /\ At("toolkit")
    /\ IF cdi = "missing" THEN Exit /\ UNCHANGED cdi ELSE cdi' = "ready" /\ Goto("record")
    /\ UNCHANGED <<given, sameDisk, images, tag, env, container, forgotten, dirs, kitArchive,
                   kitParts, install, staging, forced, kitFaults>>

\* installed.env is written beside itself and renamed; then start_container.sh,
\* unless --no-start is given or a container was started meanwhile.
Record ==
    /\ At("record")
    /\ env' = tag
    /\ container' \in {container, IF container = None THEN tag ELSE container}
    /\ Goto("ready")
    /\ UNCHANGED <<given, sameDisk, images, tag, cdi, forgotten, dirs, kitArchive, kitParts,
                   install, staging, forced, kitFaults>>

Setup ==
    \/ CheckHost
    \/ MoveIn("legacyModels", "models", "models in", "results in")
    \/ MoveIn("legacyResults", "results", "results in", "cache in")
    \/ MoveCache \/ MakeFolders
    \/ RestoreArchive \/ RemoveImageParts \/ PodmanLoad \/ RemoveOldImage
    \/ InstallNext \/ CheckToolkit \/ Record
-----------------------------------------------------------------------------
(***************************************************************************)
(* install-NAME.sh.  A failure ends setup.sh as well.                      *)
(***************************************************************************)
Model == install.model
Step(where) == install' = [install EXCEPT !.pc = where] /\ UNCHANGED setup

\* The EXIT trap removes the staging directory.
EndInstall(ok) ==
    /\ install' = NotInstalling
    /\ staging' = [staging EXCEPT !.now = "none"]
    /\ IF ok \/ setup.pc \in Resting THEN UNCHANGED setup ELSE Exit

RunInstall(m, force) ==
    /\ setup.pc \in Resting /\ install.pc = "idle"
    /\ kitFaults < MaxFaults
    /\ kitFaults' = kitFaults + 1
    /\ install' = [pc |-> "look", model |-> m, force |-> force, remove |-> TRUE]
    /\ UNCHANGED <<hostVars, dirs, kitArchive, kitParts, setup, staging, forced>>

Look ==
    /\ install.pc = "look"
    /\ CASE Installed(Model) = {"whole"} -> Step("remove") /\ UNCHANGED staging
         [] Installed(Model) \notin {{}, {"whole"}} /\ ~install.force -> EndInstall(FALSE)
         [] OTHER -> Step("parts") /\ UNCHANGED staging
    /\ UNCHANGED <<hostVars, dirs, kitArchive, kitParts, forced, kitFaults>>

CheckModelParts ==
    /\ install.pc = "parts"
    /\ IF kitParts[Model] = "whole"
       THEN Step("unpack") /\ UNCHANGED staging
       ELSE EndInstall(FALSE)
    /\ UNCHANGED <<hostVars, dirs, kitArchive, kitParts, forced, kitFaults>>

Unpack ==
    /\ install.pc = "unpack"
    /\ staging' = [staging EXCEPT !.now =
                       IF kitParts[Model] = "whole" THEN "whole" ELSE "other"]
    /\ dirs' = IF dirs["models"] = None THEN [dirs EXCEPT !["models"] = {}] ELSE dirs
    /\ Step("verify")
    /\ UNCHANGED <<hostVars, kitArchive, kitParts, forced, kitFaults>>

EveryFile == staging.now = "whole"
TarSucceeded == TRUE
Verified == EveryFile

Verify ==
    /\ install.pc = "verify"
    /\ IF Verified THEN Step("replace") /\ UNCHANGED staging ELSE EndInstall(FALSE)
    /\ UNCHANGED <<hostVars, dirs, kitArchive, kitParts, forced, kitFaults>>

\* rm -rf, which takes its time.
Replace ==
    /\ install.pc = "replace"
    /\ LET rest == dirs["models"] \ {<<Model, s>> : s \in Installed(Model)}
       IN  \/ /\ Installed(Model) \in {{"other"}}
              /\ dirs' = [dirs EXCEPT !["models"] = rest \cup {<<Model, "torn">>}]
              /\ forced' = forced \cup {Model}
              /\ UNCHANGED <<install, setup>>
           \/ /\ Installed(Model) # {"other"}
              /\ dirs' = [dirs EXCEPT !["models"] = rest]
              /\ Step("move") /\ UNCHANGED forced
    /\ UNCHANGED <<hostVars, kitArchive, kitParts, staging, kitFaults>>

Move ==
    /\ install.pc = "move"
    /\ dirs' = [dirs EXCEPT !["models"] = @ \cup {<<Model, staging.now>>}]
    /\ staging' = [staging EXCEPT !.now = "none"]
    /\ Step("remove")
    /\ UNCHANGED <<hostVars, kitArchive, kitParts, forced, kitFaults>>

RemoveModelParts ==
    /\ install.pc = "remove"
    /\ kitParts' = IF install.remove THEN [kitParts EXCEPT ![Model] = "gone"] ELSE kitParts
    /\ EndInstall(TRUE)
    /\ UNCHANGED <<hostVars, dirs, kitArchive, forced, kitFaults>>

Install ==
    Look \/ CheckModelParts \/ Unpack \/ Verify \/ Replace \/ Move \/ RemoveModelParts
-----------------------------------------------------------------------------
Fault == kitFaults < MaxFaults /\ kitFaults' = kitFaults + 1

\* A signal, or a step that fails: no space, a read-only disk, a reboot.
\* Only the trap of install-NAME.sh tidies up, and not after SIGKILL.
StopSetup(tidy) ==
    /\ setup.pc \notin Resting \/ install.pc # "idle"
    /\ Fault
    /\ setup' = IF setup.pc \in Resting THEN setup ELSE [setup EXCEPT !.pc = "stopped"]
    /\ install' = NotInstalling
    /\ staging' = [now |-> "none", left |-> staging.left \/ (staging.now # "none" /\ ~tidy)]
    /\ forgotten' = (forgotten \/ setup.pc = "old")
    /\ UNCHANGED <<given, sameDisk, images, tag, env, cdi, container, dirs, kitArchive, kitParts,
                   forced>>

\* A part is damaged, or forgotten when the kit is copied.
Damage(p) ==
    /\ kitParts[p] = "whole"
    /\ Fault
    /\ kitParts' = [kitParts EXCEPT ![p] = "damaged"]
    /\ UNCHANGED <<hostVars, dirs, kitArchive, setup, install, staging, forced>>

\* "can be deleted now if you need the space"
DeleteArchive ==
    /\ kitArchive /\ "new" \in images /\ setup.pc \in Resting
    /\ kitArchive' = FALSE
    /\ UNCHANGED <<hostVars, dirs, kitParts, setup, install, staging, forced, kitFaults>>

\* start_container.sh by hand, and podman stop.
Container ==
    /\ container' \in {None, tag}
    /\ container # container' /\ None \in {container, container'}
    /\ UNCHANGED <<given, sameDisk, images, tag, env, cdi, forgotten, dirs, kitArchive, kitParts,
                   setup, install, staging, forced, kitFaults>>

UserRuns == \E options \in Options : RunSetup(options)

KitNext ==
    \/ Setup \/ Install \/ UserRuns
    \/ \E m \in Models, force \in BOOLEAN : RunInstall(m, force)
    \/ \E tidy \in BOOLEAN : StopSetup(tidy)
    \/ \E p \in Models \cup {Image} : Damage(p)
    \/ DeleteArchive \/ Container

\* The scripts go on, and a user whose setup.sh did not get ready runs it again.
KitFairness ==
    /\ WF_kitVars(Setup) /\ WF_kitVars(Install)
    /\ WF_kitVars(UserRuns /\ setup.pc # "ready")
-----------------------------------------------------------------------------
KitTypeOK ==
    /\ DOMAIN dirs = Places
    /\ images \subseteq {"old", "new"} /\ {tag, env, container} \subseteq {None, "old", "new"}
    /\ kitParts \in [Models \cup {Image} -> {"whole", "damaged", "gone"}]
    /\ install.model \in Models \cup {None}
    /\ \A m \in Models : Cardinality(Installed(m)) <= 1

(***************************************************************************)
(* "Models and results already on the host are kept" (scripts.py:319): by  *)
(* whatever stops and re-runs, with the old folders beside the new ones,   *)
(* on one disk or two.  Only --force replaces a model that differs.        *)
(***************************************************************************)
Copies(where, item) == Cardinality({p \in Places : where[p] # None /\ item \in where[p]})

UserDataIsKept ==
    \A p \in Places : given[p] # None =>
        \A item \in given[p] :
            \/ Copies(dirs, item) >= Copies(given, item)
            \/ \E m \in forced : item = <<m, "other">>

(***************************************************************************)
(* --remove-parts never removes the only copy: the parts of a model are    *)
(* there until it is installed and verified, those of the image until its  *)
(* archive is restored or loaded.                                          *)
(***************************************************************************)
NoCopyIsLost ==
    /\ \A m \in Models : kitParts[m] = "gone" => Has("models", <<m, "whole">>)
    /\ kitParts[Image] = "gone" => kitArchive \/ "new" \in images

(***************************************************************************)
(* What "Ready" stands for: installed.env names the image of this kit and  *)
(* podman has it, its models are whole, and the image it replaces is gone, *)
(* unless that is kept, in use, or a run was stopped just before it would  *)
(* have removed it: the next one finds the new image loaded and removes    *)
(* nothing (scripts.py:503).                                               *)
(***************************************************************************)
ReadyIsInstalled ==
    setup.pc = "ready" =>
        /\ env = "new" /\ tag = "new" /\ "new" \in images
        /\ \A m \in Models : Has("models", <<m, "whole">>)
        /\ "old" \in images => setup.left \/ forgotten

(***************************************************************************)
(* "Safe to re-run" (scripts.py:321): as long as setup.sh has nothing to   *)
(* say against a host and a kit, they must get ready, wherever it was      *)
(* stopped before.                                                         *)
(***************************************************************************)
Usable ==
    /\ cdi \in {"installed", "ready"} /\ container = None
    /\ kitParts[Image] # "damaged"
    /\ \A m \in Models : kitParts[m] # "damaged" /\ Installed(m) \subseteq {"whole"}

SetupPending == Usable /\ setup.pc # "ready"
=============================================================================
