----------------------------- MODULE PartStream -----------------------------
(***************************************************************************)
(* The split download of a model folder: compute_parts hashes the tar that *)
(* vtar.Layout.read yields, once; llm_model_file later serves any range of *)
(* any part by reading the folder again.  One step is one chunk of the     *)
(* reader or one turn of the loop of hash_parts.                           *)
(*                                                                         *)
(* A byte of the tar is its position; a byte of a file that was rewritten  *)
(* since is negative.  A checksum is the bytes it was computed from.       *)
(***************************************************************************)
EXTENDS Parts

CONSTANTS
    Folders,     \* the folders of this instance: sequences of file sizes
    PartSizes,   \* and the configured part sizes
    Block,       \* vtar.BLOCK
    ReadChunk    \* READ_CHUNK

VARIABLES
    tar,      \* the segments of the model's files
    size,     \* the part size
    disk,     \* the files: "kept", "rewritten" (same size) or "shorter"
    reader,   \* Layout.read: its range, the segment it is at, what that gave
    view,     \* hash_parts: the rest of the chunk
    filled,   \* the bytes of the part it is at
    whole,    \* the bytes hashed so far
    parts,    \* the parts that are complete
    pc,
    asked,    \* the part and the header that are served
    sent      \* the bytes of the answer

vars == <<tar, size, disk, reader, view, filled, whole, parts, pc, asked, sent>>

Total == LayoutSize(tar)
Ranges == Plan(Total, size)

PcS == {"hash", "stored", "stream", "sent", "cut", "refused"}

Read(offset, end) == [offset |-> offset, end |-> Min({Total, end}), at |-> 1, given |-> 0]

Init ==
    /\ \E sizes \in Folders : tar = Layout(sizes, Block)
    /\ size \in PartSizes
    /\ disk = "kept"
    /\ reader = Read(0, Total)
    /\ view = <<>> /\ filled = <<>> /\ whole = <<>> /\ parts = <<>>
    /\ pc = "hash"
    /\ asked = [part |-> 0, header |-> NoHeader]
    /\ sent = <<>>
-----------------------------------------------------------------------------
(***************************************************************************)
(* Layout.read: segments before the range are passed over, the first one   *)
(* after it ends the loop; memory is yielded at once, files in chunks.     *)
(***************************************************************************)
Here == tar[reader.at]
PassedOver == Here.offset + Here.size <= reader.offset \/ Here.size = 0
Exhausted == IF reader.at > Len(tar) THEN TRUE
             ELSE ~PassedOver /\ Here.offset >= reader.end

From == Max({reader.offset, Here.offset}) + reader.given
SegmentEnd == Here.offset + Here.size
WithinRange == Min({reader.end, SegmentEnd})
To == WithinRange

ChunkEnd == IF Here.file = 0 THEN To ELSE Min({To, From + ReadChunk})

Chunk == [i \in 1..(ChunkEnd - From) |->
            IF Here.file # 0 /\ disk = "rewritten" THEN -From - i ELSE From + i - 1]

\* The file is at its end before the range is: its last byte is gone.
TooShort == Here.file # 0 /\ disk = "shorter" /\ ChunkEnd = Here.offset + Here.size

Skip ==
    /\ ~Exhausted /\ PassedOver
    /\ reader' = [reader EXCEPT !.at = @ + 1]

Advance ==
    reader' = IF ChunkEnd = To
              THEN [reader EXCEPT !.at = @ + 1, !.given = 0]
              ELSE [reader EXCEPT !.given = @ + ChunkEnd - From]
-----------------------------------------------------------------------------
(***************************************************************************)
(* hash_parts                                                              *)
(***************************************************************************)
Part(i, bytes) == [offset |-> Ranges[i].offset, size |-> Len(bytes), bytes |-> bytes]

HashSkip ==
    /\ pc = "hash" /\ view = <<>>
    /\ Skip
    /\ UNCHANGED <<tar, size, disk, view, filled, whole, parts, pc, asked, sent>>

HashChunk ==
    /\ pc = "hash" /\ view = <<>>
    /\ ~Exhausted /\ ~PassedOver
    /\ view' = Chunk
    /\ Advance
    /\ UNCHANGED <<tar, size, disk, filled, whole, parts, pc, asked, sent>>

\* The body of the inner loop: a part is closed when it is full, except the
\* last one.
FullPart(bytes) ==
    LET index == Len(parts) + 1
    IN  Len(bytes) = Ranges[index].size /\ index < Len(Ranges)

RoomLeft(index) == Ranges[index].size - Len(filled)
RoomAtFirst(index) == Ranges[index].size

Room(index) == RoomLeft(index)

Take ==
    LET index == Len(parts) + 1
        take  == Min({Len(view), Room(index)})
        now   == filled \o Slice(view, 0, take)
    IN  /\ pc = "hash" /\ view # <<>>
        /\ whole' = whole \o Slice(view, 0, take)
        /\ view' = Slice(view, take, Len(view))
        /\ IF FullPart(now)
           THEN parts' = Append(parts, Part(index, now)) /\ filled' = <<>>
           ELSE filled' = now /\ UNCHANGED parts
        /\ UNCHANGED <<tar, size, disk, reader, pc, asked, sent>>

\* The stream has ended with the bytes it announced: the last part is closed
\* and the manifest is stored.
Store ==
    /\ pc = "hash" /\ view = <<>> /\ Exhausted
    /\ Len(whole) = Total
    /\ parts' = Append(parts, Part(Len(parts) + 1, filled))
    /\ pc' = "stored"
    /\ UNCHANGED <<tar, size, disk, reader, view, filled, whole, asked, sent>>
-----------------------------------------------------------------------------
(***************************************************************************)
(* llm_model_file                                                          *)
(***************************************************************************)
Headers(n) ==
    {[first |-> a, last |-> b] : a \in -1..(n + 1), b \in -1..(n + 1)}

\* current_parts compares sizes and times of the files: a changed folder has
\* no parts.  Otherwise the answer starts, and the files are read later.
Ask ==
    /\ pc = "stored" /\ disk = "kept"
    /\ \E i \in 1..Len(parts) : \E header \in Headers(parts[i].size) :
        LET answer == Ranged(header, parts[i].size)
            start  == parts[i].offset + answer.start
        IN  /\ asked' = [part |-> i, header |-> header]
            /\ IF answer.status = 416
               THEN pc' = "refused" /\ UNCHANGED reader
               ELSE pc' = "stream" /\ reader' = Read(start, start + answer.length)
    /\ UNCHANGED <<tar, size, disk, view, filled, whole, parts, sent>>

StreamSkip ==
    /\ pc = "stream"
    /\ Skip
    /\ UNCHANGED <<tar, size, disk, view, filled, whole, parts, pc, asked, sent>>

StreamChunk ==
    /\ pc = "stream"
    /\ ~Exhausted /\ ~PassedOver /\ ~TooShort
    /\ sent' = sent \o Chunk
    /\ Advance
    /\ UNCHANGED <<tar, size, disk, view, filled, whole, parts, pc, asked>>

\* "shorter than recorded": the connection ends before Content-Length.
StreamCut ==
    /\ pc = "stream"
    /\ ~Exhausted /\ ~PassedOver /\ TooShort
    /\ pc' = "cut"
    /\ UNCHANGED <<tar, size, disk, reader, view, filled, whole, parts, asked, sent>>

StreamEnd ==
    /\ pc = "stream" /\ Exhausted
    /\ pc' = "sent"
    /\ UNCHANGED <<tar, size, disk, reader, view, filled, whole, parts, asked, sent>>

\* Somebody else changes a file of the folder while it is served.
Change(how) ==
    /\ pc = "stream" /\ disk = "kept"
    /\ disk' = how
    /\ UNCHANGED <<tar, size, reader, view, filled, whole, parts, pc, asked, sent>>

Server ==
    \/ HashSkip \/ HashChunk \/ Take \/ Store
    \/ Ask \/ StreamSkip \/ StreamChunk \/ StreamCut \/ StreamEnd

Next == Server \/ \E how \in {"rewritten", "shorter"} : Change(how)

Fairness == WF_vars(HashSkip \/ HashChunk \/ Take \/ Store
                    \/ StreamSkip \/ StreamChunk \/ StreamCut \/ StreamEnd)

Spec == Init /\ [][Next]_vars
LiveSpec == Spec /\ Fairness
-----------------------------------------------------------------------------
Bytes == Int

TypeOK ==
    /\ size \in PartSizes
    /\ \A k \in DOMAIN tar : tar[k] \in [file : Nat, size : Nat, offset : Nat]
    /\ disk \in {"kept", "rewritten", "shorter"}
    /\ reader.offset \in 0..Total /\ reader.end \in 0..Total
    /\ reader.at \in 1..(Len(tar) + 1)
    /\ {view, filled, whole, sent} \subseteq Seq(Bytes)
    /\ \A i \in DOMAIN parts : parts[i] \in [offset : Nat, size : Nat, bytes : Seq(Bytes)]
    /\ pc \in PcS

(***************************************************************************)
(* The parts put one after the other are the tar, whatever the sizes of    *)
(* the files, of the chunks and of the parts (vtar.py:45, splitting.py:269)*)
(* and no part is larger than configured.                                  *)
(***************************************************************************)
PartsAreTheTar ==
    pc # "hash" =>
        /\ FlattenSeq([i \in DOMAIN parts |-> parts[i].bytes])
             = [i \in 1..Total |-> i - 1]
        /\ \A i \in DOMAIN parts : parts[i].size <= size
        /\ \A i \in DOMAIN parts : parts[i].size = size \/ i = Len(parts)

(***************************************************************************)
(* What a client receives for a range of a part is that range of the bytes *)
(* that were hashed, unless a file was changed under the answer; and an    *)
(* answer that is not cut off has the length it announced even then        *)
(* (api.py:1458, llm_models.py:348).                                       *)
(***************************************************************************)
Wanted == LET part == parts[asked.part]  header == asked.header
          IN  {p \in 0..(part.size - 1) :
                 \/ header = NoHeader
                 \/ header.first >= 0 /\ p >= header.first
                    /\ (header.last < 0 \/ p <= header.last)
                 \/ header.first < 0 /\ p >= part.size - header.last}

ServedIsHashed ==
    /\ pc = "sent" => Len(sent) = Cardinality(Wanted)
    /\ pc = "sent" /\ disk = "kept" =>
         sent = Slice(parts[asked.part].bytes, Min(Wanted), Max(Wanted) + 1)
    /\ pc = "refused" => Wanted = {}

\* The loops that must end: the tar is hashed, an answer completed or cut.
Streaming == pc \in {"hash", "stream"}
=============================================================================
