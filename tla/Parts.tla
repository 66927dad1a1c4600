-------------------------------- MODULE Parts --------------------------------
(***************************************************************************)
(* The arithmetic of split downloads: how a stream of bytes is cut into    *)
(* parts (services/splitting.py), which bytes a Range header asks for      *)
(* (api._ranged), and the tar archive of a model folder that is never      *)
(* written to disk (services/vtar.py).  Offsets count from 0, like the     *)
(* code's; a byte is any value.                                            *)
(***************************************************************************)
EXTENDS Integers, SequencesExt

\* Python's bytes[from:to].
Slice(bytes, from, to) == SubSeq(bytes, from + 1, Min({to, Len(bytes)}))

\* Where the parts of total bytes begin.  An empty archive still gets one.
Plan(total, size) ==
    IF total <= 0
    THEN <<[offset |-> 0, size |-> 0]>>
    ELSE [i \in 1..((total + size - 1) \div size) |->
            [offset |-> (i - 1) * size,
             size   |-> Min({size, total - (i - 1) * size})]]

\* What hash_parts makes of a stream.  A checksum is the bytes it is made of.
PartsOf(bytes, size) ==
    LET ranges == Plan(Len(bytes), size)
    IN  [i \in DOMAIN ranges |->
            [offset |-> ranges[i].offset, size |-> ranges[i].size,
             bytes  |-> Slice(bytes, ranges[i].offset, ranges[i].offset + ranges[i].size)]]

(***************************************************************************)
(* api._ranged: a header is [first, last], each a number or -1 when it is  *)
(* left out; without either there is no usable header.  The answer is the  *)
(* status and the bytes that are read for it.                              *)
(***************************************************************************)
NoHeader == [first |-> -1, last |-> -1]

LastBytes(n, size) == Max({size - n, 0})
LastBytesUnbounded(n, size) == size - n
SuffixStart(n, size) == LastBytes(n, size)

Ranged(header, size) ==
    LET suffix == header.first < 0
        first  == IF suffix THEN SuffixStart(header.last, size) ELSE header.first
        last   == IF ~suffix /\ header.last >= 0
                  THEN Min({header.last, size - 1})
                  ELSE size - 1
    IN  CASE header = NoHeader -> [status |-> 200, start |-> 0, length |-> size]
          [] header # NoHeader /\ (first >= size \/ first > last) ->
               [status |-> 416, start |-> 0, length |-> 0]
          [] OTHER ->
               [status |-> 206, start |-> first, length |-> last - first + 1]

(***************************************************************************)
(* vtar.layout, for files of the given sizes: a header for the folder; for *)
(* each file a header, its content and what fills its last block; two      *)
(* empty blocks at the end.  A header is one block.  file is 0 for what is *)
(* held in memory, and the number of the file for what is read from disk.  *)
(***************************************************************************)
Layout(sizes, block) ==
    LET Memory(n) == [file |-> 0, size |-> n]
        Entry(f)  == LET padding == (block - (sizes[f] % block)) % block
                     IN  <<Memory(block), [file |-> f, size |-> sizes[f]]>>
                         \o IF padding = 0 THEN <<>> ELSE <<Memory(padding)>>
        pieces    == <<Memory(block)>>
                     \o FlattenSeq([f \in 1..Len(sizes) |-> Entry(f)])
                     \o <<Memory(2 * block)>>
        offset[k \in 1..Len(pieces)] ==
            IF k = 1 THEN 0 ELSE offset[k - 1] + pieces[k - 1].size
    IN  [k \in 1..Len(pieces) |->
            [file |-> pieces[k].file, size |-> pieces[k].size, offset |-> offset[k]]]

LayoutSize(segments) == Last(segments).offset + Last(segments).size
=============================================================================
