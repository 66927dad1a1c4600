---------------------------- MODULE ArchiveFetch ----------------------------
(***************************************************************************)
(* An archive downloaded whole with the Python client, while builds write  *)
(* and delete archives of one name and administrators move the image       *)
(* directory (services/storage.py): which directories the server still     *)
(* serves from, and what gets a name on the user's disk.                   *)
(*                                                                         *)
(* The export of build b is <<b, 1>>, <<b, 2>>, ...; the checksum of some  *)
(* bytes is those bytes.                                                   *)
(***************************************************************************)
EXTENDS Naturals, Sequences, FiniteSets

CONSTANTS
    Builds,       \* builds whose archives have one file name
    Length,       \* the length of every archive
    Dirs,         \* image directories
    Default,      \* the one of a new installation
    Savers,       \* API threads in update_storage
    Remembered,   \* previous image directories kept: 10 in the code
    MaxMoves,     \* bound: requests to change storage paths
    MaxFaults,    \* bound: stops of the server, lost connections, killed clients
    Other,        \* the content of a file that is not LayerSmith's
    None

VARIABLES
    stored,     \* the row of Setting: image_dir and previous_image_dirs
    imageDir,   \* settings.image_dir of the process
    saver,      \* API threads inside storage.save
    used,       \* history: directories that were image_dir
    overlapped, \* history: two saves were under way at once
    row,        \* each build: its status and the directory of its export_path
    disk,       \* the file of that name in each directory
    handle,     \* the file the server has open for the client
    get,        \* the client's download
    dest,       \* the file the user asked for: None, Other, or bytes
    moves, faults

storageVars == <<stored, imageDir, saver, used, overlapped, moves>>
buildVars == <<row, disk>>
clientVars == <<handle, get, dest>>
fetchVars == <<storageVars, buildVars, clientVars, faults>>

Full(b) == [i \in 1..Length |-> <<b, i>>]
Closed == [dir |-> None, bytes |-> <<>>]
NoGet == [pc |-> "idle", build |-> None, force |-> FALSE, total |-> 0, got |-> <<>>]
NoSave == [pc |-> "idle", asked |-> None, read |-> None, new |-> None]

FetchInit ==
    /\ stored = [image |-> None, previous |-> <<>>]
    /\ imageDir = Default /\ used = {Default}
    /\ saver = [s \in Savers |-> NoSave] /\ overlapped = FALSE /\ moves = 0
    /\ row = [b \in Builds |-> [status |-> "waiting", dir |-> None]]
    /\ disk = [d \in Dirs |-> None]
    /\ handle = Closed /\ get = NoGet
    /\ dest \in {None, Other}
    /\ faults = 0
-----------------------------------------------------------------------------
(***************************************************************************)
(* storage.save                                                            *)
(***************************************************************************)
InList(d, list) == \E i \in DOMAIN list : list[i] = d
Last(list, n) == IF Len(list) <= n THEN list ELSE SubSeq(list, Len(list) - n + 1, Len(list))

\* A request names the image directory, or (None) another path only.
ReadStored(s, d) ==
    /\ saver[s].pc = "idle"
    /\ moves < MaxMoves
    /\ moves' = moves + 1
    /\ saver' = [saver EXCEPT ![s] = [NoSave EXCEPT !.pc = "read", !.asked = d, !.read = stored]]
    /\ overlapped' = (overlapped \/ \E t \in Savers : saver[t].pc # "idle")
    /\ UNCHANGED <<stored, imageDir, used, buildVars, clientVars, faults>>

\* Mutated: the directory that was set before, not the one in use.
LeavesStored(s) == IF saver[s].read.image = None THEN saver[s].asked ELSE saver[s].read.image
LeavesCurrent(s) == imageDir

Leaves(s) == LeavesCurrent(s)

Compare(s) ==
    LET old == saver[s].read
        gone == Leaves(s)
        moved == saver[s].asked \notin {None, gone}
        previous == IF moved /\ ~InList(gone, old.previous)
                    THEN Append(old.previous, gone) ELSE old.previous
        new == [image |-> IF saver[s].asked = None THEN old.image ELSE saver[s].asked,
                previous |-> Last(previous, Remembered)]
    IN  /\ saver[s].pc = "read"
        /\ saver' = [saver EXCEPT ![s].pc = "compared", ![s].new = new]
        /\ UNCHANGED <<stored, imageDir, used, overlapped, moves, buildVars, clientVars, faults>>

\* The row is written whole, whatever it has become since it was read.
SaveStored(s) ==
    /\ saver[s].pc = "compared"
    /\ stored' = saver[s].new
    /\ saver' = [saver EXCEPT ![s].pc = "saved"]
    /\ UNCHANGED <<imageDir, used, overlapped, moves, buildVars, clientVars, faults>>

\* apply_overrides: every stored path, in the running process.
Apply(s) ==
    /\ saver[s].pc = "saved"
    /\ imageDir' = IF saver[s].new.image = None THEN imageDir ELSE saver[s].new.image
    /\ used' = used \cup {imageDir'}
    /\ saver' = [saver EXCEPT ![s] = NoSave]
    /\ UNCHANGED <<stored, overlapped, moves, buildVars, clientVars, faults>>

Save(s) == Compare(s) \/ SaveStored(s) \/ Apply(s)
-----------------------------------------------------------------------------
(***************************************************************************)
(* The build worker and delete_build, as far as archives are concerned     *)
(* (their steps are those of BuildQueue and BuildArtifacts).               *)
(***************************************************************************)
ServedFrom == {imageDir} \cup {stored.previous[i] : i \in DOMAIN stored.previous}

ExportStart(b) ==
    /\ row[b].status = "waiting"
    /\ \A c \in Builds : row[c].status # "exporting"
    /\ row' = [row EXCEPT ![b] = [status |-> "exporting", dir |-> imageDir]]
    /\ disk' = [disk EXCEPT ![imageDir] = <<>>]
    /\ UNCHANGED <<storageVars, clientVars, faults>>

ExportChunk(b) ==
    LET d == row[b].dir
    IN  /\ row[b].status = "exporting" /\ disk[d] # None /\ Len(disk[d]) < Length
        /\ disk' = [disk EXCEPT ![d] = Append(@, <<b, Len(@) + 1>>)]
        /\ UNCHANGED <<row, storageVars, clientVars, faults>>

ExportEnd(b) ==
    /\ row[b].status = "exporting"
    /\ \/ disk[row[b].dir] = Full(b) /\ row' = [row EXCEPT ![b].status = "ready"]
       \/ disk[row[b].dir] = None /\ row' = [row EXCEPT ![b].status = "failed"]
    /\ UNCHANGED <<disk, storageVars, clientVars, faults>>

\* A file that another row points at is kept, and so is one outside the
\* directories.  A file that is open is read to its end all the same.
Delete(b) ==
    LET d == row[b].dir
        keep == \/ d \notin ServedFrom
                \/ \E c \in Builds \ {b} : row[c] = [status |-> "ready", dir |-> d]
    IN  /\ row[b].status = "ready"
        /\ row' = [row EXCEPT ![b].status = "deleted"]
        /\ disk' = IF keep THEN disk ELSE [disk EXCEPT ![d] = None]
        /\ handle' = IF ~keep /\ handle.dir = d
                     THEN [dir |-> None, bytes |-> disk[d]] ELSE handle
        /\ UNCHANGED <<storageVars, get, dest, faults>>

\* A stop and start of the server; the client's connection ends with it.
Restart ==
    /\ faults < MaxFaults
    /\ faults' = faults + 1
    /\ saver' = [s \in Savers |-> NoSave]
    /\ imageDir' = IF stored.image = None THEN Default ELSE stored.image
    /\ used' = used \cup {imageDir'}
    /\ row' = [b \in Builds |-> IF row[b].status # "exporting" THEN row[b]
                                ELSE [row[b] EXCEPT !.status = "failed"]]
    /\ handle' = Closed
    /\ get' = IF get.pc \in {"asked", "path", "found", "stated", "body"} THEN NoGet ELSE get
    /\ UNCHANGED <<stored, overlapped, moves, disk, dest>>
-----------------------------------------------------------------------------
(***************************************************************************)
(* ApiClient.download and the route that answers it                        *)
(***************************************************************************)
Stays == UNCHANGED <<storageVars, buildVars, faults>>
To(pc) == get' = [get EXCEPT !.pc = pc]

\* The connection ends.
Hangup(pc) == To(pc) /\ handle' = Closed

\* The build was read, and with it has_export and the checksum.
Ask(b, force) ==
    /\ get.pc = "idle"
    /\ row[b].status = "ready" /\ disk[row[b].dir] # None
    /\ get' = [NoGet EXCEPT !.pc = "asked", !.build = b, !.force = force]
    /\ Stays /\ UNCHANGED <<handle, dest>>

\* The route reads the row and settings.image_dir, then the directories
\* before it.
Mine == row[get.build].dir

RouteRow ==
    /\ get.pc = "asked"
    /\ IF row[get.build].status = "deleted" THEN To("missing")
       ELSE get' = [get EXCEPT !.pc = "path", !.got = <<imageDir>>]
    /\ Stays /\ UNCHANGED <<handle, dest>>

Allowed == {get.got[1]} \cup {stored.previous[i] : i \in DOMAIN stored.previous}

RouteFile ==
    /\ get.pc = "path"
    /\ CASE disk[Mine] = None -> To("missing")
         [] disk[Mine] # None /\ Mine \notin Allowed -> To("outside")
         [] OTHER -> get' = [get EXCEPT !.pc = "found", !.got = <<>>]
    /\ Stays /\ UNCHANGED <<handle, dest>>

\* FileResponse takes the length, then opens the file; the client has made up
\* its mind about the destination when the first bytes come.
Stat ==
    /\ get.pc = "found"
    /\ IF disk[Mine] = None THEN To("broken")
       ELSE get' = [get EXCEPT !.pc = "stated", !.total = Len(disk[Mine])]
    /\ Stays /\ UNCHANGED <<handle, dest>>

Open ==
    /\ get.pc = "stated"
    /\ CASE disk[Mine] = None -> Hangup("broken")
         [] disk[Mine] # None /\ dest # None /\ ~get.force -> Hangup("exists")
         [] OTHER -> To("body") /\ handle' = [dir |-> Mine, bytes |-> <<>>]
    /\ Stays /\ UNCHANGED dest

Readable == IF handle.dir = None THEN handle.bytes
            ELSE IF disk[handle.dir] = None THEN <<>> ELSE disk[handle.dir]

\* A file that has become shorter ends in a broken connection, one that has
\* become longer may, when all the client waits for has been sent.
ReceiveChunk ==
    /\ get.pc = "body" /\ Len(get.got) < get.total
    /\ LET at == Len(get.got) + 1
       IN  IF at <= Len(Readable)
           THEN get' = [get EXCEPT !.got = Append(@, Readable[at])] /\ UNCHANGED handle
           ELSE Hangup("broken")
    /\ Stays /\ UNCHANGED dest

ReadAll ==
    /\ get.pc = "body" /\ Len(get.got) = get.total
    /\ \/ Len(Readable) >= get.total /\ Hangup("received")
       \/ Len(Readable) # get.total /\ Hangup("broken")
    /\ Stays /\ UNCHANGED dest

\* Mutated: the length is taken for the checksum.
Complete == Len(get.got) = get.total
Verified == get.got = Full(get.build)

Accepted == Verified

CheckSum ==
    /\ get.pc = "received"
    /\ IF Accepted THEN To("verified") ELSE To("mismatch")
    /\ Stays /\ UNCHANGED <<handle, dest>>

Named == dest' = get.got /\ To("done")

\* os.replace with --force; os.link fails on a name that was taken meanwhile,
\* or because the file system has no links: then the name is looked at, and
\* replaced.
Publish ==
    /\ get.pc = "verified"
    /\ \/ get.force /\ Named
       \/ ~get.force /\ dest = None /\ Named
       \/ ~get.force /\ dest # None /\ To("exists") /\ UNCHANGED dest
       \/ ~get.force /\ dest = None /\ To("linkless") /\ UNCHANGED dest
    /\ Stays /\ UNCHANGED handle

Replace ==
    /\ get.pc = "linkless"
    /\ Named
    /\ Stays /\ UNCHANGED handle

Ends == {"done", "missing", "outside", "broken", "exists", "mismatch"}

Again ==
    /\ get.pc \in Ends
    /\ get' = NoGet
    /\ Stays /\ UNCHANGED <<handle, dest>>

\* The connection is lost, or the client is killed: its temporary file stays.
Lost ==
    /\ faults < MaxFaults
    /\ faults' = faults + 1
    /\ get.pc \notin Ends \cup {"idle"}
    /\ get' = NoGet /\ handle' = Closed
    /\ UNCHANGED <<storageVars, buildVars, dest>>

\* Another program on the user's machine creates the file.
OtherWrites ==
    /\ dest = None
    /\ dest' = Other
    /\ UNCHANGED <<storageVars, buildVars, handle, get, faults>>

Fetch ==
    \/ RouteRow \/ RouteFile \/ Stat \/ Open \/ ReceiveChunk \/ ReadAll \/ CheckSum
    \/ Publish \/ Replace \/ Again

FetchNext ==
    \/ \E s \in Savers : Save(s) \/ \E d \in Dirs \cup {None} : ReadStored(s, d)
    \/ \E b \in Builds : \/ ExportStart(b) \/ ExportChunk(b) \/ ExportEnd(b) \/ Delete(b)
                         \/ \E force \in BOOLEAN : Ask(b, force)
    \/ Fetch \/ Lost \/ OtherWrites \/ Restart

FetchSpec == FetchInit /\ [][FetchNext]_fetchVars
-----------------------------------------------------------------------------
Bytes == {[i \in 1..n |-> <<b, i>>] : b \in Builds, n \in 0..Length}

FetchTypeOK ==
    /\ stored.image \in Dirs \cup {None} /\ imageDir \in used /\ used \subseteq Dirs
    /\ Len(stored.previous) <= Remembered
    /\ \A b \in Builds : row[b].dir \in Dirs \cup {None}
    /\ \A d \in Dirs : disk[d] \in Bytes \cup {None}
    /\ get.total \in 0..Length /\ Len(get.got) <= Length + 1

(***************************************************************************)
(* "An archive written before a change stays downloadable: previous image  *)
(* directories are remembered for exactly that" (services/storage.py:15),  *)
(* also when a build exports, a download is answered or the server stops   *)
(* in the middle of the change.  It takes that changes come one at a time, *)
(* and no more directories than are remembered.                            *)
(***************************************************************************)
ArchiveStaysServed ==
    ~overlapped /\ Cardinality(used) <= Remembered =>
        /\ get.pc # "outside"
        /\ \A b \in Builds : row[b].status = "ready" => row[b].dir \in ServedFrom

(***************************************************************************)
(* "A partial download never takes the destination's name"                 *)
(* (client/layersmith_client/api.py:348): what has the name is the whole   *)
(* export of the build that was asked for, though another build may write  *)
(* the file, or a deletion remove it, between any two steps of the answer. *)
(***************************************************************************)
NamedIsVerified ==
    /\ dest \notin {None, Other} => \E b \in Builds : dest = Full(b)
    /\ get.pc = "done" => dest = Full(get.build)
=============================================================================
