--------------------------- MODULE SplitDownload ---------------------------
(***************************************************************************)
(* The way of a split archive to an offline host: download-all.sh fetches  *)
(* the parts and the script with curl, resuming what an earlier run left   *)
(* behind; assemble-image.sh restores the archive in the same directory.   *)
(* The scripts run as often as the user likes, may be stopped, and the     *)
(* files may be damaged on their way; the server is that of SplitArchive.  *)
(*                                                                         *)
(* A script is the archive it restores: all that it checks is written into *)
(* it.  Scripts with the same number of parts have the same size.          *)
(***************************************************************************)
EXTENDS SplitArchive

CONSTANT MaxFaults   \* interruptions and damaged files

ASSUME FaultsAssumption == MaxFaults \in Nat

VARIABLES
    listing,   \* what download-all.sh was generated from: build, file, parts
    have,      \* the parts in the directory, None when absent
    partial,   \* and their .partial files
    script,    \* assemble-image.sh, None when absent
    torn,      \* its .partial: None, complete, or cut short: <<>>
    fetch,     \* download-all.sh: the file it is at, the range it reads, failures
    verified,  \* its last run said "all files downloaded and verified"
    joining,   \* assemble-image.sh: where it is, and what it has written
    restored,  \* the archive on the host
    faults

userVars == <<listing, have, partial, script, torn, fetch, verified, joining, restored, faults>>
vars == <<archive, status, manifest, job, run, listing, have, partial, script, torn,
          fetch, verified, joining, restored, faults>>

MaxParts == Max({Len(Plan(Length[b], PartSize)) : b \in Builds})
Count(file) == Len(Plan(Len(file), PartSize))

Nothing == [n \in 1..MaxParts |-> None]
Waiting == [pc |-> "idle", file |-> None]
AtRest == [pc |-> "idle", n |-> 0, at |-> 0, end |-> 0, failed |-> FALSE]

Init ==
    /\ ServerInit
    /\ listing = None
    /\ have = Nothing /\ partial = Nothing
    /\ script = None /\ torn = None
    /\ fetch = AtRest /\ verified = FALSE
    /\ joining = Waiting /\ restored = None
    /\ faults = 0

Quiet == fetch.pc = "idle" /\ joining.pc = "idle"
-----------------------------------------------------------------------------
(***************************************************************************)
(* download-all.sh                                                         *)
(***************************************************************************)
\* The user fetches the script itself: it lists the files as they are now.
GetListing(b) ==
    /\ Quiet
    /\ Current(b)
    /\ listing' = [build |-> b, file |-> manifest[b].file, parts |-> manifest[b].parts]
    /\ verified' = FALSE
    /\ UNCHANGED <<serverVars, have, partial, script, torn, fetch, joining, restored, faults>>

StartDownload ==
    /\ Quiet
    /\ listing # None
    /\ fetch' = [AtRest EXCEPT !.pc = "file", !.n = 1]
    /\ verified' = FALSE
    /\ UNCHANGED <<serverVars, listing, have, partial, script, torn, joining, restored, faults>>

Listed == listing.parts[fetch.n]
AtPart == fetch.pc = "file" /\ fetch.n <= Len(listing.parts)
AtScript == fetch.pc = "file" /\ fetch.n = Len(listing.parts) + 1

NextFile == [fetch EXCEPT !.pc = "file", !.n = @ + 1]
Missed == [NextFile EXCEPT !.failed = TRUE]

AlreadyHere ==
    /\ \/ AtPart /\ have[fetch.n] = Listed.bytes
       \/ AtScript /\ script # None /\ Count(script) = Len(listing.parts)
    /\ fetch' = NextFile
    /\ UNCHANGED <<serverVars, listing, have, partial, script, torn, verified, joining,
                   restored, faults>>

\* curl -C -: a partial file asks for the rest of the part.
Resume(n) == IF partial[n] \in {None, <<>>} THEN NoHeader
             ELSE [first |-> Len(partial[n]), last |-> -1]

\* split_download.  curl takes a 416 for a file that is complete.
OpenPart ==
    /\ AtPart /\ have[fetch.n] # Listed.bytes
    /\ LET b == listing.build
           answer == Ranged(Resume(fetch.n), manifest[b].parts[fetch.n].size)
           start == manifest[b].parts[fetch.n].offset + answer.start
       IN  fetch' = IF ~Current(b) THEN Missed
                    ELSE [fetch EXCEPT !.pc = "stream", !.at = start,
                                       !.end = start + answer.length]
    /\ partial' = IF Current(listing.build) /\ partial[fetch.n] = None
                  THEN [partial EXCEPT ![fetch.n] = <<>>] ELSE partial
    /\ UNCHANGED <<serverVars, listing, have, script, torn, verified, joining, restored, faults>>

\* read_range: an archive that ends early breaks the connection.
StreamChunk ==
    /\ fetch.pc = "stream" /\ fetch.at < fetch.end
    /\ IF archive = None \/ fetch.at >= Len(archive)
       THEN fetch' = Missed /\ UNCHANGED partial
       ELSE /\ partial' = [partial EXCEPT ![fetch.n] = Append(@, archive[fetch.at + 1])]
            /\ fetch' = [fetch EXCEPT !.at = @ + 1]
    /\ UNCHANGED <<serverVars, listing, have, script, torn, verified, joining, restored, faults>>

SumsMatch == partial[fetch.n] = Listed.bytes
SizesMatch == Len(partial[fetch.n]) = Listed.size

Accepted == SumsMatch

StreamEnd ==
    /\ fetch.pc = "stream" /\ fetch.at = fetch.end
    /\ partial' = [partial EXCEPT ![fetch.n] = None]
    /\ IF Accepted
       THEN have' = [have EXCEPT ![fetch.n] = partial[fetch.n]] /\ fetch' = NextFile
       ELSE fetch' = Missed /\ UNCHANGED have
    /\ UNCHANGED <<serverVars, listing, script, torn, verified, joining, restored, faults>>

(***************************************************************************)
(* The script is a text: no checksum is listed for it and the server does  *)
(* not serve ranges of it, so curl can only finish a .partial of the very  *)
(* same size.                                                              *)
(***************************************************************************)
FetchScript ==
    /\ AtScript /\ ~(script # None /\ Count(script) = Len(listing.parts))
    /\ LET text == manifest[listing.build].file
           arrived == CASE ~Current(listing.build) -> None
                        [] Current(listing.build) /\ torn = None -> text
                        [] OTHER -> IF torn # <<>> /\ Count(torn) = Count(text)
                                    THEN torn ELSE None
       IN  IF arrived = None
           THEN fetch' = Missed /\ UNCHANGED <<script, torn>>
           ELSE fetch' = NextFile /\ script' = arrived /\ torn' = None
    /\ UNCHANGED <<serverVars, listing, have, partial, verified, joining, restored, faults>>

EndDownload ==
    /\ fetch.pc = "file" /\ fetch.n = Len(listing.parts) + 2
    /\ verified' = ~fetch.failed
    /\ fetch' = AtRest
    /\ UNCHANGED <<serverVars, listing, have, partial, script, torn, joining, restored, faults>>

\* The connection breaks, or the script is stopped: what has arrived stays.
Interrupt ==
    /\ faults < MaxFaults
    /\ fetch.pc # "idle"
    /\ \/ fetch' = AtRest /\ UNCHANGED torn
       \/ fetch.pc = "stream" /\ fetch' = Missed /\ UNCHANGED torn
       \/ /\ AtScript /\ torn = None /\ Current(listing.build)
          /\ fetch' = AtRest /\ torn' \in {<<>>, manifest[listing.build].file}
    /\ faults' = faults + 1
    /\ UNCHANGED <<serverVars, listing, have, partial, script, verified, joining, restored>>

Download == AlreadyHere \/ OpenPart \/ StreamChunk \/ StreamEnd \/ FetchScript \/ EndDownload
-----------------------------------------------------------------------------
(***************************************************************************)
(* A part is lost or altered on its way to the host.            *)
(***************************************************************************)
Damage(n) ==
    /\ faults < MaxFaults
    /\ fetch.pc = "idle"
    /\ have[n] # None
    /\ have' \in {[have EXCEPT ![n] = bytes] :
                    bytes \in {None, [i \in DOMAIN have[n] |-> None]}}
    /\ verified' = FALSE
    /\ faults' = faults + 1
    /\ UNCHANGED <<serverVars, listing, partial, script, torn, fetch, joining, restored>>

(***************************************************************************)
(* assemble-image.sh                                                       *)
(***************************************************************************)
Sums == PartsOf(script, PartSize)

\* Every part is there, has its size and its checksum.
CheckParts ==
    /\ Quiet /\ script # None
    /\ restored # script        \* absent, or it differs and --force is given
    /\ \A n \in DOMAIN Sums : have[n] = Sums[n].bytes
    /\ joining' = [pc |-> "checked", file |-> None]
    /\ UNCHANGED <<serverVars, listing, have, partial, script, torn, fetch, verified,
                   restored, faults>>

\* cat of the parts, or nothing when one has gone (exit 4).
Join ==
    /\ joining.pc = "checked"
    /\ joining' = IF \E n \in DOMAIN Sums : have[n] = None THEN Waiting
                  ELSE [pc |-> "joined", file |-> FlattenSeq([n \in DOMAIN Sums |-> have[n]])]
    /\ UNCHANGED <<serverVars, listing, have, partial, script, torn, fetch, verified,
                   restored, faults>>

Original(file) == file = script
SameLength(file) == Len(file) = Len(script)

IsOriginal(file) == Original(file)

RemoveParts ==
    /\ have' = [n \in 1..MaxParts |-> IF n \in DOMAIN Sums THEN None ELSE have[n]]
    /\ verified' = FALSE

\* "already restored": nothing is read but the archive; --remove-parts.
AlreadyRestored ==
    /\ Quiet /\ script # None
    /\ restored = script
    /\ RemoveParts
    /\ UNCHANGED <<serverVars, listing, partial, script, torn, fetch, joining, restored,
                   faults>>

\* The sum of what was written decides about the name; --remove-parts.
Rename(remove) ==
    /\ joining.pc = "joined"
    /\ joining' = Waiting
    /\ IF IsOriginal(joining.file)
       THEN /\ restored' = joining.file
            /\ IF remove THEN RemoveParts ELSE UNCHANGED <<have, verified>>
       ELSE UNCHANGED <<restored, have, verified>>
    /\ UNCHANGED <<serverVars, listing, partial, script, torn, fetch, faults>>

Assemble == Join \/ \E remove \in BOOLEAN : Rename(remove)
-----------------------------------------------------------------------------
User ==
    \/ \E b \in Builds : GetListing(b)
    \/ StartDownload \/ Download \/ Interrupt
    \/ \E n \in 1..MaxParts : Damage(n)
    \/ CheckParts \/ AlreadyRestored \/ Assemble

Next == (Server(Requests) /\ UNCHANGED userVars) \/ User

Spec == Init /\ [][Next]_vars
-----------------------------------------------------------------------------
Bytes == (Builds \X Nat) \cup {None}
File == Seq(Bytes) \cup {None}

TypeOK ==
    /\ archive \in File
    /\ status \in [Builds -> {"waiting", "exporting", "ready", "failed", "deleted"}]
    /\ job \in [Builds -> {"none", "running", "failed"}]
    /\ \A q \in Requests :
         /\ run[q].pc \in {"idle", "checked", "begin", "read", "store", "stored"}
         /\ run[q].build \in Builds \cup {None}
         /\ {run[q].before, run[q].read} \subseteq File
    /\ {have, partial} \subseteq [1..MaxParts -> File]
    /\ joining.pc \in {"idle", "checked", "joined"} /\ joining.file \in File
    /\ script \in File /\ torn \in File /\ restored \in File
    /\ fetch.pc \in {"idle", "file", "stream"}
    /\ fetch.n \in IF fetch.pc = "idle" THEN {0} ELSE 1..(Len(listing.parts) + 2)
    /\ verified \in BOOLEAN
    /\ faults \in 0..MaxFaults

(***************************************************************************)
(* An archive that assemble-image.sh restores is the whole export of one   *)
(* build: whatever was replaced on the server, resumed from an older       *)
(* download or damaged on the way, pieces of two never make one            *)
(* (splitting.py:304, scripts.py:598).                                     *)
(***************************************************************************)
RestoredIsExported == restored # None => \E b \in Builds : restored = Full(b)

(***************************************************************************)
(* "All files downloaded and verified": the parts are those of the         *)
(* listing, though its archive may have been replaced or removed while     *)
(* they were served, and a .partial may be older than the listing          *)
(* (scripts.py:632, api.py:1339).                                          *)
(***************************************************************************)
VerifiedIsListed ==
    verified => \A n \in DOMAIN listing.parts : have[n] = listing.parts[n].bytes
=============================================================================
