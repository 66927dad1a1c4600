--------------------------- MODULE OfflineProofs ---------------------------
(***************************************************************************)
(* Theorems about the scenes of MCOffline that have a user at the client   *)
(* or at the host: the download of an archive while its directory is       *)
(* moved (ArchiveFetch), and the scripts of a GPU kit (KitSetup), for any  *)
(* directories, builds, models, hosts and numbers of faults.               *)
(***************************************************************************)
EXTENDS MCOffline, FiniteSetTheorems, TLAPS

Stored == [image : Dirs \cup {None}, previous : Seq(Dirs)]
SaverType == [pc : {"idle", "read", "compared", "saved"}, asked : Dirs \cup {None},
              read : Stored \cup {None}, new : Stored \cup {None}]
RowType == [status : {"waiting", "exporting", "ready", "failed", "deleted"},
            dir : Dirs \cup {None}]
Chunks == Builds \X (1 .. FetchLength)
GetPc == {"idle", "asked", "path", "found", "stated", "body", "received", "verified",
          "linkless"} \cup Home!Ends
GetType == [pc : GetPc, build : Builds \cup {None}, force : BOOLEAN,
            total : 0 .. FetchLength, got : Seq(Chunks \cup Dirs)]

FetchTyped ==
  /\ stored \in Stored
  /\ imageDir \in Dirs
  /\ used \in SUBSET Dirs
  /\ saver \in [Savers -> SaverType]
  /\ overlapped \in BOOLEAN
  /\ rows \in [Builds -> RowType]
  /\ copies \in [Dirs -> Home!Bytes \cup {None}]
  /\ handle \in [dir : Dirs \cup {None}, bytes : Seq(Chunks)]
  /\ get \in GetType

Written(b) == {[i \in 1 .. n |-> <<b, i>>] : n \in 0 .. FetchLength}

FetchShape ==
  /\ imageDir \in used /\ IsFiniteSet(used)
  /\ Len(stored.previous) <= Remembered
  /\ \A s \in Savers :
       /\ saver[s].pc # "idle" => saver[s].read \in Stored
       /\ saver[s].pc \in {"compared", "saved"} =>
            saver[s].new \in Stored /\ Len(saver[s].new.previous) <= Remembered
  /\ \A b \in Builds :
       /\ rows[b].status # "waiting" => rows[b].dir \in used
       /\ rows[b].status = "exporting" => copies[rows[b].dir] \in {None} \cup Written(b)
  /\ \A b, c \in Builds : rows[b].status = "exporting" /\ rows[c].status = "exporting" => b = c
  /\ handle.dir # None => copies[handle.dir] # None
  /\ get.pc # "idle" => get.build \in Builds /\ rows[get.build].status \in {"ready", "deleted"}
  /\ Len(get.got) <= FetchLength + 1

Before(st) == {st.previous[i] : i \in DOMAIN st.previous}
Distinct(list) == \A i, j \in DOMAIN list : list[i] = list[j] => i = j

FetchNamed ==
  /\ get.pc \in {"verified", "linkless"} => get.got = Home!Full(get.build)
  /\ dest \notin {None, Other} => \E b \in Builds : dest = Home!Full(b)
  /\ get.pc = "done" => dest = Home!Full(get.build)

Serving ==
  /\ \A s, t \in Savers : saver[s].pc # "idle" /\ saver[t].pc # "idle" => s = t
  /\ \A s \in Savers :
       /\ saver[s].pc \in {"read", "compared"} => saver[s].read = stored
       /\ saver[s].pc = "compared" =>
            /\ Distinct(saver[s].new.previous)
            /\ Before(stored) \subseteq Before(saver[s].new)
            /\ Before(saver[s].new) \subseteq used
            /\ saver[s].new.image = None => imageDir = d1
            /\ saver[s].new.image \notin {None, imageDir} => imageDir \in Before(saver[s].new)
       /\ saver[s].pc = "saved" => saver[s].new = stored
  /\ Distinct(stored.previous)
  /\ Before(stored) \subseteq used
  /\ used \subseteq {imageDir} \cup Before(stored)
  /\ stored.image = None => imageDir = d1
  /\ stored.image \notin {None, imageDir} =>
       imageDir \in Before(stored) /\ \E s \in Savers : saver[s].pc = "saved"
  /\ get.pc # "outside"
  /\ get.pc = "path" => rows[get.build].dir \in {get.got[1]} \cup Before(stored)

FetchServed == ~overlapped /\ Cardinality(used) <= Remembered => Serving

FetchInv == FetchTyped /\ FetchShape /\ FetchNamed /\ FetchServed

LEMMA BytesFacts ==
  ASSUME NEW x \in Home!Bytes
  PROVE  /\ x \in Seq(Chunks)
         /\ Len(x) \in 0 .. FetchLength
         /\ x # None
<1>1. PICK b \in Builds, n \in 0 .. FetchLength : x = [i \in 1 .. n |-> <<b, i>>]
  BY DEF Home!Bytes
<1>2. n \in Nat /\ n <= FetchLength /\ FetchLength \in Nat
  BY FetchAssumption
<1>3. \A i \in 1 .. n : <<b, i>> \in Chunks
  BY <1>2 DEF Chunks
<1>4. x \in Seq(Chunks) /\ Len(x) = n
  BY <1>1, <1>2, <1>3
<1> QED BY <1>2, <1>4, FetchAssumption

LEMMA BytesAppend ==
  ASSUME NEW b \in Builds, NEW n \in 0 .. FetchLength - 1, NEW x,
         x = [i \in 1..n |-> <<b, i>>]
  PROVE Append(x, <<b, Len(x) + 1>>) = [i \in 1..(n+1) |-> <<b, i>>]
<1>1. n \in Nat 
  BY FetchAssumption
<1>2. x \in Seq(Builds \X Nat) /\ Len(x) = n
  BY <1>1
<1>3. Append(x, <<b, n + 1>>) \in Seq(Builds \X Nat) /\ Len(Append(x, <<b, n + 1>>)) = n + 1
   /\ \A i \in 1 .. n : Append(x, <<b, n + 1>>)[i] = x[i]
   /\ Append(x, <<b, n + 1>>)[n+1] = <<b, n + 1>>
  BY <1>1, <1>2
<1> DEFINE y == Append(x, <<b, n + 1>>)
<1>4. DOMAIN y = 1 .. (n+1) /\ y = [i \in 1 .. (n+1) |-> y[i]]
   BY <1>3
<1>5. \A i \in 1 .. (n+1) : y[i] = <<b, i>>
  <2> TAKE i \in 1 .. (n+1)
  <2>1. CASE i = n + 1
    BY <2>1, <1>3
  <2>2. CASE i # n + 1
    <3>1. i \in 1 .. n
      BY <2>2, <1>1
    <3> QED BY <3>1, <1>3
  <2> QED BY <2>1, <2>2
<1> QED BY <1>2, <1>4, <1>5
LEMMA AppendFacts ==
  ASSUME NEW S, NEW q \in Seq(S), NEW e \in S
  PROVE  /\ Append(q, e) \in Seq(S)
         /\ DOMAIN Append(q, e) = 1 .. Len(q) + 1
         /\ \A i \in 1 .. Len(q) : Append(q, e)[i] = q[i]
         /\ Append(q, e)[Len(q) + 1] = e
  OBVIOUS

LEMMA LastFacts ==
  ASSUME NEW S, NEW list \in Seq(S), NEW n \in Nat
  PROVE  /\ Home!Last(list, n) \in Seq(S)
         /\ Len(Home!Last(list, n)) <= n
         /\ Len(list) <= n => Home!Last(list, n) = list
<1>1. Len(list) \in Nat
  OBVIOUS
<1>2. CASE Len(list) <= n
  BY <1>2 DEF Home!Last
<1>3. CASE Len(list) > n
  <2> DEFINE m == Len(list) - n + 1
  <2>1. m \in 1 .. Len(list) + 1 /\ Len(list) - m + 1 = n
    BY <1>1, <1>3
  <2>2. SubSeq(list, m, Len(list)) \in Seq(S) /\ Len(SubSeq(list, m, Len(list))) = n
    BY <1>1, <2>1
  <2> QED BY <1>1, <1>3, <2>2 DEF Home!Last
<1> QED BY <1>1, <1>2, <1>3

LEMMA DistinctLen ==
  ASSUME NEW U, IsFiniteSet(U), NEW list \in Seq(U), Distinct(list)
  PROVE  Len(list) <= Cardinality(U)
<1>1. Len(list) \in Nat /\ DOMAIN list = 1 .. Len(list)
  OBVIOUS
<1>2. list \in Injection(1 .. Len(list), U)
  BY <1>1 DEF Distinct, Injection, IsInjective
<1>3. IsFiniteSet(1 .. Len(list)) /\ Cardinality(1 .. Len(list)) = Len(list)
  BY <1>1, FS_Interval
<1> QED BY <1>2, <1>3, FS_Injection

LEMMA FetchSave ==
  ASSUME FetchInv, NEW s \in Savers,
         Home!Save(s) \/ \E d \in Dirs \cup {None} : Home!ReadStored(s, d)
  PROVE  FetchInv'
<1> USE DEF Home!clientVars, Home!buildVars
<1>1. CASE \E d \in Dirs \cup {None} : Home!ReadStored(s, d)
  <2> PICK d \in Dirs \cup {None} : Home!ReadStored(s, d)
    BY <1>1
  <2> DEFINE new == [Home!NoSave EXCEPT !.pc = "read", !.asked = d, !.read = stored]
  <2>1. /\ saver[s].pc = "idle"
        /\ saver' = [saver EXCEPT ![s] = new]
        /\ overlapped' = (overlapped \/ \E t \in Savers : saver[t].pc # "idle")
        /\ UNCHANGED <<stored, imageDir, used, rows, copies, handle, get, dest>>
    BY DEF Home!ReadStored
  <2>2. Home!NoSave \in SaverType /\ stored \in Stored
    BY DEF Home!NoSave, SaverType, FetchInv, FetchTyped
  <2>20. new \in SaverType /\ new.pc = "read" /\ new.read = stored
    BY <2>2 DEF SaverType
  <2> HIDE DEF new
  <2>3. /\ saver'[s] = new
        /\ \A t \in Savers \ {s} : saver'[t] = saver[t]
    BY <2>1 DEF FetchInv, FetchTyped
  <2>4. FetchTyped'
    BY <2>1, <2>20 DEF FetchInv, FetchTyped
  <2>5. FetchShape'
    BY <2>1, <2>2, <2>20, <2>3 DEF FetchInv, FetchShape
  <2>6. FetchNamed'
    BY <2>1 DEF FetchInv, FetchNamed
  <2>7. FetchServed'
    <3> SUFFICES ASSUME ~overlapped', Cardinality(used') <= Remembered
                 PROVE  Serving'
      BY DEF FetchServed
    <3>1. Serving /\ \A t \in Savers : saver[t].pc = "idle"
      BY <2>1 DEF FetchInv, FetchServed
    <3> QED BY <2>1, <2>20, <2>3, <3>1 DEF Serving
  <2> QED BY <2>4, <2>5, <2>6, <2>7 DEF FetchInv
<1>2. CASE Home!Compare(s)
  <2> DEFINE old == saver[s].read
             target == saver[s].asked
             moved == target \notin {None, imageDir}
             previous == IF moved /\ ~Home!InList(imageDir, old.previous)
                         THEN Append(old.previous, imageDir) ELSE old.previous
             new == [image |-> IF target = None THEN old.image ELSE target,
                     previous |-> Home!Last(previous, Remembered)]
  <2>1. /\ saver[s].pc = "read"
        /\ saver' = [saver EXCEPT ![s].pc = "compared", ![s].new = new]
        /\ UNCHANGED <<stored, imageDir, used, overlapped, rows, copies, handle, get, dest>>
    BY <1>2 DEF Home!Compare, Home!Leaves, Home!LeavesCurrent
  <2>2. old \in Stored /\ target \in Dirs \cup {None} /\ imageDir \in Dirs
    BY <2>1 DEF FetchInv, FetchTyped, FetchShape, SaverType
  <2>3. previous \in Seq(Dirs)
    BY <2>2 DEF Stored
  <2>4. new \in Stored /\ Len(new.previous) <= Remembered
    <3> HIDE DEF previous
    <3>1. /\ Home!Last(previous, Remembered) \in Seq(Dirs)
          /\ Len(Home!Last(previous, Remembered)) <= Remembered
      BY <2>3, LastFacts, FetchAssumption
    <3> QED BY <2>2, <3>1 DEF Stored
  <2> HIDE DEF new
  <2>5. /\ saver'[s] = [saver[s] EXCEPT !.pc = "compared", !.new = new]
        /\ \A t \in Savers \ {s} : saver'[t] = saver[t]
    BY <2>1 DEF FetchInv, FetchTyped
  <2>6. saver[s] \in SaverType
    BY DEF FetchInv, FetchTyped
  <2>7. /\ saver'[s] \in SaverType
        /\ saver'[s].pc = "compared"
        /\ saver'[s].new = new
        /\ saver'[s].read = old
    BY <2>4, <2>5, <2>6 DEF SaverType
  <2>8. FetchTyped'
    BY <2>1, <2>7 DEF FetchInv, FetchTyped
  <2>9. FetchShape'
    BY <2>1, <2>2, <2>4, <2>5, <2>7 DEF FetchInv, FetchShape
  <2>10. FetchNamed'
    BY <2>1 DEF FetchInv, FetchNamed
  <2>11. FetchServed'
    <3> SUFFICES ASSUME ~overlapped', Cardinality(used') <= Remembered
                 PROVE  Serving'
      BY DEF FetchServed
    <3>1. Serving
      BY <2>1 DEF FetchInv, FetchServed
    <3>2. /\ old = stored
          /\ stored.image \in {None, imageDir}
          /\ stored.image = None => imageDir = d1
          /\ Distinct(stored.previous)
          /\ Before(stored) \subseteq used
      BY <2>1, <3>1 DEF Serving
    <3>3. /\ Distinct(previous)
          /\ \A i \in DOMAIN stored.previous : \E j \in DOMAIN previous :
               previous[j] = stored.previous[i]
          /\ \A j \in DOMAIN previous : previous[j] \in used
          /\ moved => \E j \in DOMAIN previous : previous[j] = imageDir
      <4>1. stored.previous \in Seq(Dirs) /\ Len(stored.previous) \in Nat
            /\ DOMAIN stored.previous = 1 .. Len(stored.previous)
        BY DEF FetchInv, FetchTyped, Stored
      <4>2. imageDir \in used /\ \A i \in DOMAIN stored.previous : stored.previous[i] \in used
        BY <3>2 DEF Before, FetchInv, FetchShape
      <4>3. CASE moved /\ ~Home!InList(imageDir, old.previous)
        <5>1. previous = Append(stored.previous, imageDir)
          BY <3>2, <4>3
        <5>2. /\ DOMAIN previous = 1 .. Len(stored.previous) + 1
              /\ \A i \in 1 .. Len(stored.previous) : previous[i] = stored.previous[i]
              /\ previous[Len(stored.previous) + 1] = imageDir
          BY <2>2, <4>1, <5>1, AppendFacts
        <5>3. \A i \in DOMAIN stored.previous : stored.previous[i] # imageDir
          BY <3>2, <4>3 DEF Home!InList
        <5> HIDE DEF previous
        <5> QED BY <3>2, <4>1, <4>2, <5>2, <5>3 DEF Distinct
      <4>4. CASE ~moved \/ Home!InList(imageDir, old.previous)
        BY <3>2, <4>2, <4>4 DEF Home!InList
      <4> QED BY <4>3, <4>4
    <3>4. previous \in Seq(used)
      <4> HIDE DEF previous
      <4> QED BY <2>3, <3>3
    <3>5. Len(previous) <= Remembered
      <4>1. Len(previous) <= Cardinality(used)
        BY <3>3, <3>4, DistinctLen DEF FetchInv, FetchShape
      <4>2. Len(previous) \in Nat /\ Cardinality(used) \in Nat /\ Remembered \in Nat
        <5> HIDE DEF previous
        <5> QED BY <2>1, <2>3, FS_CardinalityType, FetchAssumption DEF FetchInv, FetchShape
      <4> HIDE DEF previous
      <4> QED BY <2>1, <4>1, <4>2
    <3>6. Home!Last(previous, Remembered) = previous
      <4> HIDE DEF previous
      <4> QED BY <2>3, <3>5, LastFacts, FetchAssumption
    <3>7. /\ new.previous = previous
          /\ new.image = IF target = None THEN stored.image ELSE target
      BY <3>2, <3>6 DEF new
    <3> HIDE DEF previous
    <3>8. /\ Distinct(new.previous)
          /\ Before(stored) \subseteq Before(new)
          /\ Before(new) \subseteq used
          /\ new.image = None => imageDir = d1
          /\ new.image \notin {None, imageDir} => imageDir \in Before(new)
      BY <3>2, <3>3, <3>7 DEF Before
    <3> HIDE DEF moved, target
    <3>9. \A t \in Savers : saver'[t].pc = "idle" <=> saver[t].pc = "idle"
      BY <2>1, <2>5, <2>7
    <3>10. \A t \in Savers \ {s} : saver[t].pc = "idle"
      BY <2>1, <3>1 DEF Serving
    <3>11. \A t \in Savers :
            /\ saver'[t].pc \in {"read", "compared"} => saver'[t].read = stored
            /\ saver'[t].pc # "saved"
            /\ saver'[t].pc = "compared" => saver'[t].new = new
      BY <2>1, <2>5, <2>7, <3>2, <3>10
    <3>12. \A t \in Savers : saver[t].pc # "saved"
      BY <2>1, <3>10
    <3> QED BY <2>1, <3>1, <3>2, <3>8, <3>9, <3>11, <3>12 DEF Serving
  <2> QED BY <2>8, <2>9, <2>10, <2>11 DEF FetchInv
<1>3. CASE Home!SaveStored(s)
  <2>1. /\ saver[s].pc = "compared"
        /\ stored' = saver[s].new
        /\ saver' = [saver EXCEPT ![s].pc = "saved"]
        /\ UNCHANGED <<imageDir, used, overlapped, rows, copies, handle, get, dest>>
    BY <1>3 DEF Home!SaveStored
  <2>2. saver[s] \in SaverType
    BY DEF FetchInv, FetchTyped
  <2>3. /\ saver'[s] = [saver[s] EXCEPT !.pc = "saved"]
        /\ \A t \in Savers \ {s} : saver'[t] = saver[t]
    BY <2>1 DEF FetchInv, FetchTyped
  <2>4. /\ saver'[s] \in SaverType
        /\ saver'[s].pc = "saved"
        /\ saver'[s].new = saver[s].new
        /\ saver'[s].read = saver[s].read
    BY <2>2, <2>3 DEF SaverType
  <2>5. saver[s].new \in Stored /\ Len(saver[s].new.previous) <= Remembered
    BY <2>1 DEF FetchInv, FetchShape
  <2>6. FetchTyped'
    BY <2>1, <2>4, <2>5 DEF FetchInv, FetchTyped
  <2>7. FetchShape'
    BY <2>1, <2>3, <2>4, <2>5 DEF FetchInv, FetchShape
  <2>8. FetchNamed'
    BY <2>1 DEF FetchInv, FetchNamed
  <2>9. FetchServed'
    <3> SUFFICES ASSUME ~overlapped', Cardinality(used') <= Remembered
                 PROVE  Serving'
      BY DEF FetchServed
    <3>1. Serving
      BY <2>1 DEF FetchInv, FetchServed
    <3>2. \A t \in Savers \ {s} : saver[t].pc = "idle"
      BY <2>1, <3>1 DEF Serving
    <3>3. \A t \in Savers : /\ saver'[t].pc # "idle" => t = s
                            /\ saver'[t].pc \notin {"read", "compared"}
                            /\ saver'[t].pc = "saved" => saver'[t].new = stored'
      BY <2>1, <2>3, <2>4, <3>2
    <3>4. /\ Distinct(stored'.previous)
          /\ Before(stored) \subseteq Before(stored')
          /\ Before(stored') \subseteq used
          /\ stored'.image = None => imageDir = d1
          /\ stored'.image \notin {None, imageDir} => imageDir \in Before(stored')
      BY <2>1, <3>1 DEF Serving
    <3>5. /\ used \subseteq {imageDir} \cup Before(stored')
          /\ get.pc # "outside"
          /\ get.pc = "path" => rows[get.build].dir \in {get.got[1]} \cup Before(stored')
      BY <3>1, <3>4 DEF Serving
    <3>6. \E t \in Savers : saver'[t].pc = "saved"
      BY <2>4
    <3>7. UNCHANGED <<imageDir, used, get, rows>>
      BY <2>1
    <3> QED BY <3>3, <3>4, <3>5, <3>6, <3>7 DEF Serving
  <2> QED BY <2>6, <2>7, <2>8, <2>9 DEF FetchInv
<1>4. CASE Home!Apply(s)
  <2> DEFINE none == [pc |-> "idle", asked |-> None, read |-> None, new |-> None]
  <2>1. /\ saver[s].pc = "saved"
        /\ imageDir' = IF saver[s].new.image = None THEN imageDir ELSE saver[s].new.image
        /\ used' = used \cup {imageDir'}
        /\ saver' = [saver EXCEPT ![s] = none]
        /\ UNCHANGED <<stored, overlapped, rows, copies, handle, get, dest>>
    BY <1>4 DEF Home!Apply, Home!NoSave
  <2>2. none \in SaverType
    BY DEF SaverType
  <2>3. /\ saver'[s] = none
        /\ \A t \in Savers \ {s} : saver'[t] = saver[t]
    BY <2>1 DEF FetchInv, FetchTyped
  <2>4. saver[s].new \in Stored
    BY <2>1 DEF FetchInv, FetchShape
  <2>5. imageDir' \in Dirs
    BY <2>1, <2>4 DEF FetchInv, FetchTyped, Stored
  <2>6. FetchTyped'
    BY <2>1, <2>2, <2>5 DEF FetchInv, FetchTyped
  <2>7. IsFiniteSet(used') /\ Cardinality(used) \in Nat /\ Cardinality(used') \in Nat
        /\ Cardinality(used) <= Cardinality(used')
    BY <2>1, FS_AddElement, FS_CardinalityType, FS_Subset DEF FetchInv, FetchShape
  <2>8. FetchShape'
    <3>1. imageDir' \in used' /\ used \subseteq used'
      BY <2>1 DEF FetchInv, FetchShape
    <3>2. \A t \in Savers : saver'[t].pc # "idle" => saver'[t] = saver[t]
      BY <2>1, <2>3
    <3> QED BY <2>1, <2>7, <3>1, <3>2 DEF FetchInv, FetchShape
  <2>9. FetchNamed'
    BY <2>1 DEF FetchInv, FetchNamed
  <2>10. FetchServed'
    <3> SUFFICES ASSUME ~overlapped', Cardinality(used') <= Remembered
                 PROVE  Serving'
      BY DEF FetchServed
    <3>1. Serving
      BY <2>1, <2>7, FetchAssumption DEF FetchInv, FetchServed
    <3>2. \A t \in Savers \ {s} : saver[t].pc = "idle"
      BY <2>1, <3>1 DEF Serving
    <3>3. /\ saver[s].new = stored
          /\ imageDir' = IF stored.image = None THEN imageDir ELSE stored.image
      BY <2>1, <3>1 DEF Serving
    <3> QED BY <2>1, <2>3, <3>1, <3>2, <3>3 DEF Serving, Before
  <2> QED BY <2>6, <2>8, <2>9, <2>10 DEF FetchInv
<1> QED BY <1>1, <1>2, <1>3, <1>4 DEF Home!Save

LEMMA EmptyBytes ==
  ASSUME NEW b \in Builds
  PROVE  <<>> \in Written(b) /\ <<>> \in Home!Bytes
<1>1. <<>> = [i \in 1 .. 0 |-> <<b, i>>]
  OBVIOUS
<1>2. 0 \in 0 .. FetchLength
  BY FetchAssumption
<1> QED BY <1>1, <1>2 DEF Home!Bytes, Written

\* Steps that leave the storage paths and the rows of builds as they are.
LEMMA ServedStays ==
  ASSUME FetchInv, UNCHANGED <<stored, imageDir, saver, used, overlapped>>,
         get' = get \/ get'.pc \notin {"outside", "path"},
         get'.pc = "path" => rows'[get'.build].dir = rows[get'.build].dir
  PROVE  FetchServed'
<1> SUFFICES ASSUME ~overlapped', Cardinality(used') <= Remembered
             PROVE  Serving'
  BY DEF FetchServed
<1>1. Serving
  BY DEF FetchInv, FetchServed
<1> QED BY <1>1 DEF Serving

LEMMA FetchExport ==
  ASSUME FetchInv, NEW b \in Builds,
         Home!ExportStart(b) \/ Home!ExportChunk(b) \/ Home!ExportEnd(b)
  PROVE  FetchInv'
<1> USE DEF Home!clientVars, Home!storageVars
<1>1. CASE Home!ExportStart(b)
  <2> DEFINE new == [status |-> "exporting", dir |-> imageDir]
  <2>1. /\ rows[b].status = "waiting"
        /\ \A c \in Builds : rows[c].status # "exporting"
        /\ rows' = [rows EXCEPT ![b] = new]
        /\ copies' = [copies EXCEPT ![imageDir] = <<>>]
        /\ UNCHANGED <<stored, imageDir, saver, used, overlapped, handle, get, dest>>
    BY <1>1 DEF Home!ExportStart
  <2>2. new \in RowType /\ imageDir \in Dirs
    BY DEF FetchInv, FetchTyped, RowType
  <2>3. <<>> \in Written(b) /\ <<>> \in Home!Bytes /\ <<>> # None
    BY EmptyBytes, BytesFacts, FetchAssumption
  <2>4. /\ rows'[b] = new
        /\ \A c \in Builds \ {b} : rows'[c] = rows[c]
        /\ copies'[imageDir] = <<>>
        /\ \A d \in Dirs \ {imageDir} : copies'[d] = copies[d]
    BY <2>1, <2>2 DEF FetchInv, FetchTyped
  <2>5. get.pc # "idle" => get.build \in Builds \ {b}
    BY <2>1 DEF FetchInv, FetchShape
  <2>6. FetchTyped'
    BY <2>1, <2>2, <2>3 DEF FetchInv, FetchTyped
  <2>7. FetchShape'
    <3>1. handle.dir # None => handle.dir \in Dirs
      BY DEF FetchInv, FetchTyped
    <3>2. handle'.dir # None => copies'[handle'.dir] # None
      BY <2>1, <2>3, <2>4, <3>1 DEF FetchInv, FetchShape
    <3>3. \A c \in Builds :
           /\ rows'[c].status # "waiting" => rows'[c].dir \in used'
           /\ rows'[c].status = "exporting" => c = b /\ copies'[rows'[c].dir] = <<>>
      BY <2>1, <2>4 DEF FetchInv, FetchShape
    <3> QED BY <2>1, <2>3, <2>4, <2>5, <3>2, <3>3 DEF FetchInv, FetchShape
  <2>8. FetchNamed'
    BY <2>1 DEF FetchInv, FetchNamed
  <2>9. FetchServed'
    BY <2>1, <2>4, <2>5, ServedStays
  <2> QED BY <2>6, <2>7, <2>8, <2>9 DEF FetchInv
<1>2. CASE Home!ExportChunk(b)
  <2> DEFINE d == rows[b].dir
             more == Append(copies[d], <<b, Len(copies[d]) + 1>>)
  <2>1. /\ rows[b].status = "exporting"
        /\ copies[d] # None
        /\ Len(copies[d]) < FetchLength
        /\ copies' = [copies EXCEPT ![d] = more]
        /\ UNCHANGED <<stored, imageDir, saver, used, overlapped, rows, handle, get, dest>>
    BY <1>2 DEF Home!ExportChunk
  <2>2. d \in Dirs
    BY <2>1 DEF FetchInv, FetchTyped, FetchShape
  <2>3. PICK n \in 0 .. FetchLength : copies[d] = [i \in 1 .. n |-> <<b, i>>]
    BY <2>1 DEF FetchInv, FetchShape, Written
  <2>4. n \in Nat /\ FetchLength \in Nat /\ Len(copies[d]) = n
    BY <2>3, FetchAssumption
  <2>5. n \in 0 .. FetchLength - 1 /\ n + 1 \in 0 .. FetchLength
    BY <2>1, <2>4
  <2>6. more = [i \in 1 .. n + 1 |-> <<b, i>>]
    BY <2>3, <2>5, BytesAppend
  <2> HIDE DEF more
  <2>7. more \in Home!Bytes /\ more # None
    <3>1. more \in Home!Bytes
      BY <2>5, <2>6 DEF Home!Bytes, Written
    <3> QED BY <3>1, BytesFacts
  <2>8. FetchTyped'
    BY <2>1, <2>7 DEF FetchInv, FetchTyped
  <2>9. /\ copies'[d] = more
        /\ \A e \in Dirs \ {d} : copies'[e] = copies[e]
    BY <2>1, <2>2 DEF FetchInv, FetchTyped
  <2>10. FetchShape'
    <3>1. handle.dir # None => handle.dir \in Dirs
      BY DEF FetchInv, FetchTyped
    <3>2. handle'.dir # None => copies'[handle'.dir] # None
      BY <2>1, <2>7, <2>9, <3>1 DEF FetchInv, FetchShape
    <3>3. \A c \in Builds : rows[c].status = "exporting" => c = b
      BY <2>1 DEF FetchInv, FetchShape
    <3>4. copies'[rows'[b].dir] \in Written(b)
      BY <2>1, <2>5, <2>6, <2>9 DEF Written
    <3> QED BY <2>1, <2>5, <3>2, <3>3, <3>4 DEF FetchInv, FetchShape
  <2>11. FetchNamed'
    BY <2>1 DEF FetchInv, FetchNamed
  <2>12. FetchServed'
    BY <2>1, ServedStays
  <2> QED BY <2>8, <2>10, <2>11, <2>12 DEF FetchInv
<1>3. CASE Home!ExportEnd(b)
  <2>1. PICK st \in {"ready", "failed"} : rows' = [rows EXCEPT ![b].status = st]
    BY <1>3 DEF Home!ExportEnd
  <2>2. /\ rows[b].status = "exporting"
        /\ UNCHANGED <<stored, imageDir, saver, used, overlapped, copies, handle, get, dest>>
    BY <1>3 DEF Home!ExportEnd
  <2>3. /\ rows'[b] = [rows[b] EXCEPT !.status = st]
        /\ rows[b] \in RowType
        /\ \A c \in Builds \ {b} : rows'[c] = rows[c]
    BY <2>1 DEF FetchInv, FetchTyped
  <2>4. rows'[b] \in RowType /\ rows'[b].status = st /\ rows'[b].dir = rows[b].dir
    BY <2>3 DEF RowType
  <2>5. get.pc # "idle" => get.build \in Builds \ {b}
    BY <2>2 DEF FetchInv, FetchShape
  <2>6. FetchTyped'
    BY <2>1, <2>2, <2>4 DEF FetchInv, FetchTyped
  <2>7. FetchShape'
    <3>1. \A c \in Builds :
           /\ rows'[c].dir = rows[c].dir
           /\ rows'[c].status # "exporting"
           /\ rows'[c].status # "waiting" => rows[c].status # "waiting"
      BY <2>2, <2>3, <2>4 DEF FetchInv, FetchShape
    <3>2. get.pc # "idle" => rows'[get.build] = rows[get.build]
      BY <2>3, <2>5
    <3> QED BY <2>2, <3>1, <3>2 DEF FetchInv, FetchShape
  <2>8. FetchNamed'
    BY <2>2 DEF FetchInv, FetchNamed
  <2>9. FetchServed'
    BY <2>2, <2>3, <2>5, ServedStays
  <2> QED BY <2>6, <2>7, <2>8, <2>9 DEF FetchInv
<1> QED BY <1>1, <1>2, <1>3

LEMMA FetchDelete ==
  ASSUME FetchInv, NEW b \in Builds, Home!Delete(b)
  PROVE  FetchInv'
<1> USE DEF Home!clientVars, Home!storageVars
<1> DEFINE d == rows[b].dir
<1>1. /\ rows[b].status = "ready"
      /\ rows' = [rows EXCEPT ![b].status = "deleted"]
      /\ UNCHANGED <<stored, imageDir, saver, used, overlapped, get, dest>>
      /\ \/ UNCHANGED <<copies, handle>>
         \/ /\ copies' = [copies EXCEPT ![d] = None]
            /\ handle' = IF handle.dir = d THEN [dir |-> None, bytes |-> copies[d]]
                                           ELSE handle
  BY DEF Home!Delete
<1>2. d \in Dirs
  BY <1>1 DEF FetchInv, FetchTyped, FetchShape
<1>3. /\ rows'[b] = [rows[b] EXCEPT !.status = "deleted"]
      /\ rows[b] \in RowType
      /\ \A c \in Builds \ {b} : rows'[c] = rows[c]
  BY <1>1 DEF FetchInv, FetchTyped
<1>4. rows'[b] \in RowType /\ rows'[b].status = "deleted" /\ rows'[b].dir = d
  BY <1>3 DEF RowType
<1>5. /\ copies' \in [Dirs -> Home!Bytes \cup {None}]
      /\ \A e \in Dirs : copies'[e] = copies[e] \/ (copies'[e] = None /\ e = d)
      /\ handle' \in [dir : Dirs \cup {None}, bytes : Seq(Chunks)]
      /\ handle'.dir # None => copies'[handle'.dir] # None
  <2>1. /\ copies \in [Dirs -> Home!Bytes \cup {None}]
        /\ handle \in [dir : Dirs \cup {None}, bytes : Seq(Chunks)]
        /\ handle.dir # None => copies[handle.dir] # None
    BY DEF FetchInv, FetchTyped, FetchShape
  <2>2. CASE UNCHANGED <<copies, handle>>
    <3>1. copies' = copies /\ handle' = handle
      BY <2>2
    <3> QED BY <2>1, <3>1
  <2>3. CASE ~UNCHANGED <<copies, handle>>
    <3>1. /\ copies' = [copies EXCEPT ![d] = None]
          /\ handle' = IF handle.dir = d THEN [dir |-> None, bytes |-> copies[d]] ELSE handle
      BY <1>1, <2>3
    <3>2. handle.dir = d => copies[d] \in Seq(Chunks)
      BY <1>2, <2>1, BytesFacts, FetchAssumption
    <3>3. /\ copies' \in [Dirs -> Home!Bytes \cup {None}]
          /\ \A e \in Dirs : copies'[e] = copies[e] \/ (copies'[e] = None /\ e = d)
      BY <1>2, <2>1, <3>1
    <3>4. CASE handle.dir = d
      <4>1. handle' = [dir |-> None, bytes |-> copies[d]]
        BY <3>1, <3>4
      <4> QED BY <3>2, <3>3, <3>4, <4>1
    <3>5. CASE handle.dir # d
      <4>1. handle' = handle
        BY <3>1, <3>5
      <4>2. handle.dir # None => copies'[handle.dir] = copies[handle.dir]
        BY <2>1, <3>3, <3>5
      <4> QED BY <2>1, <3>3, <4>1, <4>2
    <3> QED BY <3>4, <3>5
  <2> QED BY <2>2, <2>3
<1>6. FetchTyped'
  BY <1>1, <1>4, <1>5 DEF FetchInv, FetchTyped
<1>7. FetchShape'
  <2>1. \A c \in Builds :
         /\ rows'[c].status # "waiting" => rows'[c].dir \in used'
         /\ rows'[c].status = "exporting" => rows[c].status = "exporting" /\ rows'[c] = rows[c]
         /\ rows[c].status \in {"ready", "deleted"} => rows'[c].status \in {"ready", "deleted"}
    BY <1>1, <1>2, <1>3, <1>4 DEF FetchInv, FetchShape
  <2>2. \A c \in Builds : rows'[c].status = "exporting" => rows[c].dir \in Dirs
    BY <2>1 DEF FetchInv, FetchTyped, FetchShape
  <2>3. \A c \in Builds : rows'[c].status = "exporting" =>
          copies'[rows'[c].dir] \in {None} \cup Written(c)
    BY <1>5, <2>1, <2>2 DEF FetchInv, FetchShape
  <2> QED BY <1>1, <1>5, <2>1, <2>3 DEF FetchInv, FetchShape
<1>8. FetchNamed'
  BY <1>1 DEF FetchInv, FetchNamed
<1>9. FetchServed'
  <2>1. get.pc = "path" => get.build \in Builds
    BY DEF FetchInv, FetchShape
  <2> QED BY <1>1, <1>3, <1>4, <2>1, ServedStays
<1> QED BY <1>6, <1>7, <1>8, <1>9 DEF FetchInv

LEMMA FetchRestart ==
  ASSUME FetchInv, Home!Restart
  PROVE  FetchInv'
<1>1. /\ saver' = [s \in Savers |-> Home!NoSave]
      /\ imageDir' = IF stored.image = None THEN d1 ELSE stored.image
      /\ used' = used \cup {imageDir'}
      /\ rows' = [b \in Builds |-> IF rows[b].status # "exporting" THEN rows[b]
                                   ELSE [rows[b] EXCEPT !.status = "failed"]]
      /\ handle' = Home!Closed
      /\ get' = Home!NoGet \/ (get' = get /\ get.pc # "path")
      /\ UNCHANGED <<stored, overlapped, copies, dest>>
  <2>1. get' = Home!NoGet \/ (get' = get /\ get.pc # "path")
    BY DEF Home!Restart
  <2> QED BY <2>1 DEF Home!Restart
<1>2. Home!NoSave \in SaverType /\ Home!NoSave.pc = "idle"
  BY DEF Home!NoSave, SaverType
<1>3. Home!NoGet \in GetType /\ Home!NoGet.pc = "idle" /\ Len(Home!NoGet.got) = 0
  BY FetchAssumption DEF Home!NoGet, GetType, GetPc
<1>4. Home!Closed \in [dir : Dirs \cup {None}, bytes : Seq(Chunks)] /\ Home!Closed.dir = None
  BY DEF Home!Closed
<1>5. imageDir' \in Dirs
  BY <1>1, FetchAssumption DEF FetchInv, FetchTyped, Stored
<1>6. \A b \in Builds :
        /\ rows'[b] \in RowType
        /\ rows'[b].dir = rows[b].dir
        /\ rows'[b].status # "exporting"
        /\ rows'[b].status # "waiting" => rows[b].status # "waiting"
        /\ rows[b].status \in {"ready", "deleted"} => rows'[b].status = rows[b].status
  <2> TAKE b \in Builds
  <2>1. rows[b] \in RowType
    BY DEF FetchInv, FetchTyped
  <2>2. CASE rows[b].status # "exporting"
    BY <1>1, <2>1, <2>2 DEF RowType
  <2>3. CASE rows[b].status = "exporting"
    <3>1. rows'[b] = [rows[b] EXCEPT !.status = "failed"]
      BY <1>1, <2>3
    <3> QED BY <2>1, <2>3, <3>1 DEF RowType
  <2> QED BY <2>2, <2>3
<1>7. FetchTyped'
  <2>1. rows' \in [Builds -> RowType]
    BY <1>1, <1>6
  <2>2. saver' \in [Savers -> SaverType]
    BY <1>1, <1>2
  <2> QED BY <1>1, <1>3, <1>4, <1>5, <2>1, <2>2 DEF FetchInv, FetchTyped
<1>8. IsFiniteSet(used') /\ Cardinality(used) \in Nat /\ Cardinality(used') \in Nat
      /\ Cardinality(used) <= Cardinality(used')
  BY <1>1, FS_AddElement, FS_CardinalityType, FS_Subset DEF FetchInv, FetchShape
<1>9. FetchShape'
  <2>1. \A s \in Savers : saver'[s].pc = "idle"
    BY <1>1, <1>2
  <2>2. imageDir' \in used' /\ used \subseteq used'
    BY <1>1
  <2>3. Len(get'.got) <= FetchLength + 1
    BY <1>1, <1>3, FetchAssumption DEF FetchInv, FetchShape
  <2>4. get'.pc # "idle" => get' = get
    BY <1>1, <1>3
  <2> QED BY <1>1, <1>4, <1>6, <1>8, <2>1, <2>2, <2>3, <2>4 DEF FetchInv, FetchShape
<1>10. FetchNamed'
  BY <1>1, <1>3 DEF FetchInv, FetchNamed
<1>11. FetchServed'
  <2> SUFFICES ASSUME ~overlapped', Cardinality(used') <= Remembered
               PROVE  Serving'
    BY DEF FetchServed
  <2>1. Serving
    BY <1>1, <1>8, FetchAssumption DEF FetchInv, FetchServed
  <2>2. \A s \in Savers : saver'[s].pc = "idle"
    BY <1>1, <1>2
  <2>3. used' \subseteq {imageDir'} \cup Before(stored)
    BY <1>1, <2>1 DEF Serving
  <2>4. get'.pc \notin {"outside", "path"}
    BY <1>1, <1>3, <2>1 DEF Serving
  <2> QED BY <1>1, <2>1, <2>2, <2>3, <2>4 DEF Serving
<1> QED BY <1>7, <1>9, <1>10, <1>11 DEF FetchInv

LEMMA GetTo ==
  ASSUME get \in GetType, NEW to \in GetPc
  PROVE  /\ [get EXCEPT !.pc = to] \in GetType
         /\ [get EXCEPT !.pc = to].pc = to
         /\ [get EXCEPT !.pc = to].build = get.build
         /\ [get EXCEPT !.pc = to].force = get.force
         /\ [get EXCEPT !.pc = to].total = get.total
         /\ [get EXCEPT !.pc = to].got = get.got
  BY DEF GetType

LEMMA GetToGot ==
  ASSUME get \in GetType, NEW to \in GetPc, NEW list \in Seq(Chunks \cup Dirs)
  PROVE  /\ [get EXCEPT !.pc = to, !.got = list] \in GetType
         /\ [get EXCEPT !.pc = to, !.got = list].pc = to
         /\ [get EXCEPT !.pc = to, !.got = list].build = get.build
         /\ [get EXCEPT !.pc = to, !.got = list].got = list
  BY DEF GetType

\* A step of the download that leaves the server alone, and either ends it or
\* goes on with the build that was asked for.
LEMMA ClientShape ==
  ASSUME FetchInv, UNCHANGED <<stored, imageDir, saver, used, overlapped, rows, copies>>,
         handle' = handle \/ handle' = Home!Closed \/ handle'.dir \in Dirs,
         handle' = handle \/ handle' = Home!Closed \/ copies[handle'.dir] # None,
         handle' \in [dir : Dirs \cup {None}, bytes : Seq(Chunks)],
         get' \in GetType, Len(get'.got) <= FetchLength + 1,
         \/ get'.pc = "idle"
         \/ get'.build = get.build /\ get.pc # "idle"
         \/ get'.build \in Builds /\ rows[get'.build].status = "ready"
  PROVE  FetchTyped' /\ FetchShape'
<1>1. FetchTyped'
  BY DEF FetchInv, FetchTyped
<1>2. FetchShape'
  BY DEF FetchInv, FetchShape, Home!Closed
<1> QED BY <1>1, <1>2

LEMMA FetchAnswer ==
  ASSUME FetchInv,
         \/ \E b \in Builds, force \in BOOLEAN : Home!Ask(b, force)
         \/ Home!RouteRow \/ Home!RouteFile \/ Home!Stat \/ Home!Open
  PROVE  FetchInv'
<1> USE DEF Home!Stays, Home!buildVars, Home!storageVars, Home!To
<1>0. /\ get \in GetType
      /\ Len(get.got) <= FetchLength + 1
      /\ handle \in [dir : Dirs \cup {None}, bytes : Seq(Chunks)]
      /\ Home!Closed \in [dir : Dirs \cup {None}, bytes : Seq(Chunks)]
      /\ FetchLength \in Nat
      /\ UNCHANGED <<stored, imageDir, saver, used, overlapped, rows, copies, dest>>
  <2>1. Home!Closed \in [dir : Dirs \cup {None}, bytes : Seq(Chunks)]
    BY DEF Home!Closed
  <2> QED BY <2>1, FetchAssumption DEF FetchInv, FetchTyped, FetchShape, Home!Ask, Home!RouteRow,
             Home!RouteFile, Home!Stat, Home!Open
<1>1. CASE \E b \in Builds, force \in BOOLEAN : Home!Ask(b, force)
  <2> PICK b \in Builds, force \in BOOLEAN : Home!Ask(b, force)
    BY <1>1
  <2>1. Home!NoGet \in GetType /\ Len(Home!NoGet.got) = 0
    BY <1>0 DEF Home!NoGet, GetType, GetPc
  <2>2. /\ get' \in GetType /\ get'.pc = "asked" /\ get'.build = b
        /\ Len(get'.got) = 0
        /\ rows[b].status = "ready"
        /\ handle' = handle
    <3>1. get' = [Home!NoGet EXCEPT !.pc = "asked", !.build = b, !.force = force]
      BY DEF Home!Ask
    <3> QED BY <2>1, <3>1 DEF Home!Ask, GetType, GetPc
  <2>3. FetchTyped' /\ FetchShape'
    BY <1>0, <2>2, ClientShape
  <2>4. FetchNamed'
    BY <1>0, <2>2 DEF FetchInv, FetchNamed
  <2>5. FetchServed'
    BY <1>0, <2>2, ServedStays
  <2> QED BY <2>3, <2>4, <2>5 DEF FetchInv
<1>2. CASE Home!RouteRow
  <2>1. get.pc = "asked" /\ handle' = handle
    BY <1>2 DEF Home!RouteRow
  <2>2. CASE rows[get.build].status = "deleted"
    <3>1. get' = [get EXCEPT !.pc = "missing"]
      BY <1>2, <2>2 DEF Home!RouteRow
    <3>2. /\ get' \in GetType /\ get'.pc = "missing" /\ get'.build = get.build
          /\ Len(get'.got) <= FetchLength + 1
      BY <1>0, <3>1, GetTo DEF GetPc, Home!Ends
    <3>3. FetchTyped' /\ FetchShape'
      BY <1>0, <2>1, <3>2, ClientShape
    <3>4. FetchNamed'
      BY <1>0, <3>2 DEF FetchInv, FetchNamed
    <3>5. FetchServed'
      BY <1>0, <3>2, ServedStays
    <3> QED BY <3>3, <3>4, <3>5 DEF FetchInv
  <2>3. CASE rows[get.build].status # "deleted"
    <3>1. get' = [get EXCEPT !.pc = "path", !.got = <<imageDir>>]
      BY <1>2, <2>3 DEF Home!RouteRow
    <3>2. imageDir \in Dirs /\ <<imageDir>> \in Seq(Chunks \cup Dirs)
      BY DEF FetchInv, FetchTyped
    <3>3. /\ get' \in GetType /\ get'.pc = "path" /\ get'.build = get.build
          /\ get'.got = <<imageDir>>
          /\ Len(get'.got) <= FetchLength + 1
      <4> DEFINE list == <<imageDir>>
      <4>1. "path" \in GetPc /\ list \in Seq(Chunks \cup Dirs) /\ Len(list) <= FetchLength + 1
        BY <1>0, <3>2 DEF GetPc
      <4>2. get' = [get EXCEPT !.pc = "path", !.got = list]
        BY <3>1
      <4> HIDE DEF list
      <4>3. get' \in GetType /\ get'.pc = "path" /\ get'.build = get.build /\ get'.got = list
        BY <1>0, <4>1, <4>2, GetToGot
      <4> QED BY <4>1, <4>3 DEF list
    <3>4. FetchTyped' /\ FetchShape'
      BY <1>0, <2>1, <3>3, ClientShape
    <3>5. FetchNamed'
      BY <1>0, <3>3 DEF FetchInv, FetchNamed
    <3>6. FetchServed'
      <4> SUFFICES ASSUME ~overlapped', Cardinality(used') <= Remembered
                   PROVE  Serving'
        BY DEF FetchServed
      <4>1. Serving
        BY <1>0 DEF FetchInv, FetchServed
      <4>2. rows[get.build].dir \in used
        BY <2>1 DEF FetchInv, FetchShape
      <4>3. rows[get.build].dir \in {get'.got[1]} \cup Before(stored)
        BY <3>3, <4>1, <4>2 DEF Serving
      <4> QED BY <1>0, <3>3, <4>1, <4>3 DEF Serving
    <3> QED BY <3>4, <3>5, <3>6 DEF FetchInv
  <2> QED BY <2>2, <2>3
<1>3. CASE Home!RouteFile
  <2>1. get.pc = "path" /\ handle' = handle
    BY <1>3 DEF Home!RouteFile
  <2>2. \/ get' = [get EXCEPT !.pc = "missing"]
        \/ /\ get' = [get EXCEPT !.pc = "outside"]
           /\ Home!Mine \notin Home!Allowed
        \/ get' = [get EXCEPT !.pc = "found", !.got = <<>>]
    BY <1>3 DEF Home!RouteFile
  <2>3. /\ get' \in GetType /\ get'.pc \in {"missing", "outside", "found"}
        /\ get'.build = get.build
        /\ Len(get'.got) <= FetchLength + 1
        /\ get'.pc = "outside" => Home!Mine \notin Home!Allowed
    <3>1. CASE get' = [get EXCEPT !.pc = "missing"]
      BY <1>0, <3>1, GetTo DEF GetPc, Home!Ends
    <3>2. CASE get' = [get EXCEPT !.pc = "outside"] /\ Home!Mine \notin Home!Allowed
      BY <1>0, <3>2, GetTo DEF GetPc, Home!Ends
    <3>3. CASE get' = [get EXCEPT !.pc = "found", !.got = <<>>]
      <4> DEFINE list == <<>>
      <4>1. "found" \in GetPc /\ list \in Seq(Chunks \cup Dirs) /\ Len(list) <= FetchLength + 1
        BY <1>0 DEF GetPc
      <4>2. get' = [get EXCEPT !.pc = "found", !.got = list]
        BY <3>3
      <4> HIDE DEF list
      <4>3. get' \in GetType /\ get'.pc = "found" /\ get'.build = get.build /\ get'.got = list
        BY <1>0, <4>1, <4>2, GetToGot
      <4> QED BY <4>1, <4>3
    <3> QED BY <2>2, <3>1, <3>2, <3>3
  <2>4. FetchTyped' /\ FetchShape'
    BY <1>0, <2>1, <2>3, ClientShape
  <2>5. FetchNamed'
    BY <1>0, <2>3 DEF FetchInv, FetchNamed
  <2>6. FetchServed'
    <3> SUFFICES ASSUME ~overlapped', Cardinality(used') <= Remembered
                 PROVE  Serving'
      BY DEF FetchServed
    <3>1. Serving
      BY <1>0 DEF FetchInv, FetchServed
    <3>2. Home!Mine \in Home!Allowed
      BY <2>1, <3>1 DEF Serving, Before, Home!Mine, Home!Allowed
    <3> QED BY <1>0, <2>3, <3>1, <3>2 DEF Serving
  <2> QED BY <2>4, <2>5, <2>6 DEF FetchInv
<1>4. CASE Home!Stat
  <2>1. get.pc = "found" /\ handle' = handle
    BY <1>4 DEF Home!Stat
  <2>2. /\ get' \in GetType /\ get'.pc \in {"broken", "stated"}
        /\ get'.build = get.build
        /\ Len(get'.got) <= FetchLength + 1
    <3>1. CASE copies[Home!Mine] = None
      <4>1. get' = [get EXCEPT !.pc = "broken"]
        BY <1>4, <3>1 DEF Home!Stat
      <4> QED BY <1>0, <4>1, GetTo DEF GetPc, Home!Ends
    <3>2. CASE copies[Home!Mine] # None
      <4>1. get' = [get EXCEPT !.pc = "stated", !.total = Len(copies[Home!Mine])]
        BY <1>4, <3>2 DEF Home!Stat
      <4>2. Home!Mine \in Dirs
        BY <2>1 DEF Home!Mine, FetchInv, FetchTyped, FetchShape
      <4>3. Len(copies[Home!Mine]) \in 0 .. FetchLength
        BY <3>2, <4>2, BytesFacts DEF FetchInv, FetchTyped
      <4> QED BY <1>0, <4>1, <4>3 DEF GetType, GetPc
    <3> QED BY <3>1, <3>2
  <2>3. FetchTyped' /\ FetchShape'
    BY <1>0, <2>1, <2>2, ClientShape
  <2>4. FetchNamed'
    BY <1>0, <2>2 DEF FetchInv, FetchNamed
  <2>5. FetchServed'
    BY <1>0, <2>2, ServedStays
  <2> QED BY <2>3, <2>4, <2>5 DEF FetchInv
<1>5. CASE Home!Open
  <2>1. /\ get.pc = "stated"
        /\ \/ \E to \in {"broken", "exists"} : get' = [get EXCEPT !.pc = to] /\ handle' = Home!Closed
           \/ /\ get' = [get EXCEPT !.pc = "body"]
              /\ handle' = [dir |-> Home!Mine, bytes |-> <<>>]
              /\ copies[Home!Mine] # None
    BY <1>5 DEF Home!Open, Home!Hangup
  <2>2. Home!Mine \in Dirs
    BY <2>1 DEF Home!Mine, FetchInv, FetchTyped, FetchShape
  <2>3. \/ \E to \in {"broken", "exists"} : get' = [get EXCEPT !.pc = to]
        \/ get' = [get EXCEPT !.pc = "body"]
    BY <2>1
  <2>4. /\ get' \in GetType /\ get'.pc \in {"broken", "exists", "body"}
        /\ get'.build = get.build
        /\ Len(get'.got) <= FetchLength + 1
    <3>1. {"broken", "exists", "body"} \subseteq GetPc
      BY DEF GetPc, Home!Ends
    <3>2. PICK to \in {"broken", "exists", "body"} : get' = [get EXCEPT !.pc = to]
      BY <2>3
    <3> QED BY <1>0, <3>1, <3>2, GetTo
  <2>5. /\ handle' \in [dir : Dirs \cup {None}, bytes : Seq(Chunks)]
        /\ handle' = Home!Closed \/ (handle'.dir \in Dirs /\ copies[handle'.dir] # None)
    <3>1. CASE handle' = Home!Closed
      BY <1>0, <3>1
    <3>2. CASE handle' # Home!Closed
      <4>1. handle' = [dir |-> Home!Mine, bytes |-> <<>>] /\ copies[Home!Mine] # None
        BY <2>1, <3>2
      <4> QED BY <2>2, <4>1
    <3> QED BY <3>1, <3>2
  <2>6. FetchTyped' /\ FetchShape'
    BY <1>0, <2>1, <2>4, <2>5, ClientShape
  <2>7. FetchNamed'
    BY <1>0, <2>4 DEF FetchInv, FetchNamed
  <2>8. FetchServed'
    BY <1>0, <2>4, ServedStays
  <2> QED BY <2>6, <2>7, <2>8 DEF FetchInv
<1> QED BY <1>1, <1>2, <1>3, <1>4, <1>5

LEMMA FetchReceive ==
  ASSUME FetchInv,
         \/ Home!ReceiveChunk \/ Home!ReadAll \/ Home!CheckSum \/ Home!Publish
         \/ Home!Replace \/ Home!Again \/ Home!Lost \/ Home!OtherWrites
  PROVE  FetchInv'
<1> USE DEF Home!Stays, Home!buildVars, Home!storageVars, Home!To
<1>0. /\ get \in GetType
      /\ Len(get.got) <= FetchLength + 1
      /\ handle \in [dir : Dirs \cup {None}, bytes : Seq(Chunks)]
      /\ Home!Closed \in [dir : Dirs \cup {None}, bytes : Seq(Chunks)]
      /\ Home!NoGet \in GetType /\ Home!NoGet.pc = "idle" /\ Len(Home!NoGet.got) = 0
      /\ FetchLength \in Nat
      /\ UNCHANGED <<stored, imageDir, saver, used, overlapped, rows, copies>>
  <2>1. Home!NoGet \in GetType /\ Home!NoGet.pc = "idle" /\ Len(Home!NoGet.got) = 0
    BY FetchAssumption DEF Home!NoGet, GetType, GetPc
  <2> QED BY <2>1, FetchAssumption DEF FetchInv, FetchTyped, FetchShape, Home!Closed,
             Home!ReceiveChunk, Home!ReadAll, Home!CheckSum, Home!Publish, Home!Replace, Home!Again,
             Home!Lost, Home!OtherWrites
<1>1. CASE Home!Again \/ Home!Lost
  <2>1. get' = Home!NoGet /\ handle' \in {handle, Home!Closed} /\ dest' = dest
    BY <1>1 DEF Home!Again, Home!Lost
  <2>2. FetchTyped' /\ FetchShape'
    BY <1>0, <2>1, ClientShape
  <2>3. FetchNamed'
    BY <1>0, <2>1 DEF FetchInv, FetchNamed
  <2>4. FetchServed'
    BY <1>0, <2>1, ServedStays
  <2> QED BY <2>2, <2>3, <2>4 DEF FetchInv
<1>2. CASE Home!OtherWrites
  <2>1. UNCHANGED <<get, handle>> /\ dest = None /\ dest' = Other
    BY <1>2 DEF Home!OtherWrites
  <2>2. FetchTyped' /\ FetchShape'
    BY <1>0, <2>1 DEF FetchInv, FetchTyped, FetchShape
  <2>3. FetchNamed'
    <3>1. get.pc = "done" => Home!Full(get.build) \in Home!Bytes
      <4>1. get.pc = "done" => get.build \in Builds
        BY DEF FetchInv, FetchShape
      <4>2. FetchLength \in 0 .. FetchLength
        BY <1>0
      <4> QED BY <4>1, <4>2 DEF Home!Full, Home!Bytes
    <3> QED BY <1>0, <2>1, <3>1, FetchAssumption DEF FetchInv, FetchNamed
  <2>4. FetchServed'
    BY <1>0, <2>1, ServedStays
  <2> QED BY <2>2, <2>3, <2>4 DEF FetchInv
<1>3. CASE Home!ReceiveChunk
  <2> DEFINE i == Len(get.got) + 1
  <2>1. get.pc = "body" /\ Len(get.got) < get.total /\ dest' = dest
    BY <1>3 DEF Home!ReceiveChunk
  <2>2. CASE i <= Len(Home!Readable)
    <3>1. get' = [get EXCEPT !.got = Append(get.got, Home!Readable[i])] /\ handle' = handle
      BY <1>3, <2>2 DEF Home!ReceiveChunk
    <3>2. Home!Readable \in Seq(Chunks)
      BY <1>0, BytesFacts DEF Home!Readable, FetchInv, FetchTyped
    <3>3. Home!Readable[i] \in Chunks
      <4>1. Len(get.got) \in Nat
        BY <1>0 DEF GetType
      <4> QED BY <2>2, <3>2, <4>1
    <3>4. /\ get.got \in Seq(Chunks \cup Dirs)
          /\ get.total \in 0 .. FetchLength
      BY <1>0 DEF GetType
    <3>5. /\ Append(get.got, Home!Readable[i]) \in Seq(Chunks \cup Dirs)
          /\ Len(Append(get.got, Home!Readable[i])) <= FetchLength + 1
      BY <1>0, <2>1, <3>3, <3>4
    <3>6. /\ get' \in GetType /\ get'.pc = "body" /\ get'.build = get.build
          /\ Len(get'.got) <= FetchLength + 1
      BY <1>0, <2>1, <3>1, <3>5 DEF GetType
    <3>7. FetchTyped' /\ FetchShape'
      BY <1>0, <2>1, <3>1, <3>6, ClientShape
    <3>8. FetchNamed'
      BY <2>1, <3>6 DEF FetchInv, FetchNamed
    <3>9. FetchServed'
      BY <1>0, <3>6, ServedStays
    <3> QED BY <3>7, <3>8, <3>9 DEF FetchInv
  <2>3. CASE ~(i <= Len(Home!Readable))
    <3>1. get' = [get EXCEPT !.pc = "broken"] /\ handle' = Home!Closed
      BY <1>3, <2>3 DEF Home!ReceiveChunk, Home!Hangup
    <3>2. /\ get' \in GetType /\ get'.pc = "broken" /\ get'.build = get.build
          /\ Len(get'.got) <= FetchLength + 1
      BY <1>0, <3>1, GetTo DEF GetPc, Home!Ends
    <3>3. FetchTyped' /\ FetchShape'
      BY <1>0, <2>1, <3>1, <3>2, ClientShape
    <3>4. FetchNamed'
      BY <2>1, <3>2 DEF FetchInv, FetchNamed
    <3>5. FetchServed'
      BY <1>0, <3>2, ServedStays
    <3> QED BY <3>3, <3>4, <3>5 DEF FetchInv
  <2> QED BY <2>2, <2>3
<1>4. CASE Home!ReadAll \/ Home!CheckSum \/ Home!Publish \/ Home!Replace
  <2>1. PICK to \in {"received", "broken", "verified", "mismatch", "done", "exists", "linkless"} :
          /\ get' = [get EXCEPT !.pc = to]
          /\ handle' \in {handle, Home!Closed}
          /\ to = "verified" => get.got = Home!Full(get.build)
          /\ to \in {"linkless", "done"} => get.pc \in {"verified", "linkless"}
          /\ IF to = "done" THEN dest' = get.got ELSE dest' = dest
    BY <1>4 DEF Home!ReadAll, Home!CheckSum, Home!Publish, Home!Replace, Home!Hangup,
                Home!Named, Home!Accepted, Home!Verified
  <2>2. get.pc # "idle"
    BY <1>4 DEF Home!ReadAll, Home!CheckSum, Home!Publish, Home!Replace
  <2>3. /\ get' \in GetType /\ get'.pc = to /\ get'.build = get.build
        /\ get'.got = get.got
        /\ Len(get'.got) <= FetchLength + 1
    BY <1>0, <2>1, GetTo DEF GetPc, Home!Ends
  <2>4. FetchTyped' /\ FetchShape'
    BY <1>0, <2>1, <2>2, <2>3, ClientShape
  <2>5. FetchNamed'
    <3>1. get.build \in Builds
      BY <2>2 DEF FetchInv, FetchShape
    <3> QED BY <2>1, <2>3, <3>1 DEF FetchInv, FetchNamed, Home!Full
  <2>6. FetchServed'
    BY <1>0, <2>1, <2>3, ServedStays
  <2> QED BY <2>4, <2>5, <2>6 DEF FetchInv
<1> QED BY <1>1, <1>2, <1>3, <1>4

LEMMA FetchStart == ASSUME Home!FetchInit PROVE FetchInv
<1>1. FetchTyped
  <2>1. /\ stored \in Stored /\ imageDir \in Dirs /\ used \in SUBSET Dirs
        /\ overlapped \in BOOLEAN
    <3>1. <<>> \in Seq(Dirs) /\ stored = [image |-> None, previous |-> <<>>]
      BY DEF Home!FetchInit
    <3>2. stored \in Stored
      BY <3>1 DEF Stored
    <3> QED BY <3>2, FetchAssumption DEF Home!FetchInit
  <2>2. saver \in [Savers -> SaverType]
    BY DEF Home!FetchInit, Home!NoSave, SaverType
  <2>3. rows \in [Builds -> RowType]
    BY DEF Home!FetchInit, RowType
  <2>4. copies \in [Dirs -> Home!Bytes \cup {None}]
    BY DEF Home!FetchInit
  <2>5. handle \in [dir : Dirs \cup {None}, bytes : Seq(Chunks)]
    BY DEF Home!FetchInit, Home!Closed
  <2>6. get \in GetType
    BY FetchAssumption DEF Home!FetchInit, Home!NoGet, GetType, GetPc
  <2> QED BY <2>1, <2>2, <2>3, <2>4, <2>5, <2>6 DEF FetchTyped
<1>2. /\ \A s \in Savers : saver[s].pc = "idle"
      /\ \A b \in Builds : rows[b].status = "waiting"
      /\ get.pc = "idle" /\ get.got = <<>>
      /\ handle.dir = None
      /\ stored.image = None /\ stored.previous = <<>>
      /\ imageDir = d1 /\ used = {d1}
      /\ dest \in {None, Other}
  BY DEF Home!FetchInit, Home!NoSave, Home!NoGet, Home!Closed
<1>3. IsFiniteSet(used)
  BY <1>2, FS_Singleton
<1>4. FetchShape
  <2>1. Len(stored.previous) <= Remembered /\ Len(get.got) <= FetchLength + 1
    BY <1>2, FetchAssumption
  <2> QED BY <1>2, <1>3, <2>1 DEF FetchShape
<1>5. FetchNamed
  BY <1>2 DEF FetchNamed
<1>6. FetchServed
  <2>1. Distinct(stored.previous) /\ Before(stored) = {}
    BY <1>2 DEF Distinct, Before
  <2>2. Serving
    BY <1>2, <2>1 DEF Serving
  <2> QED BY <2>2 DEF FetchServed
<1> QED BY <1>1, <1>4, <1>5, <1>6 DEF FetchInv

LEMMA FetchStep ==
  ASSUME FetchInv, Home!FetchNext \/ UNCHANGED homeVars
  PROVE  FetchInv'
<1>1. CASE \E s \in Savers : Home!Save(s) \/ \E d \in Dirs \cup {None} : Home!ReadStored(s, d)
  BY <1>1, FetchSave
<1>2. CASE \E b \in Builds : Home!ExportStart(b) \/ Home!ExportChunk(b) \/ Home!ExportEnd(b)
  BY <1>2, FetchExport
<1>3. CASE \E b \in Builds : Home!Delete(b)
  BY <1>3, FetchDelete
<1>4. CASE Home!Restart
  BY <1>4, FetchRestart
<1>5. CASE \/ \E b \in Builds : \E force \in BOOLEAN : Home!Ask(b, force)
           \/ Home!RouteRow \/ Home!RouteFile \/ Home!Stat \/ Home!Open
  BY <1>5, FetchAnswer
<1>6. CASE \/ Home!ReceiveChunk \/ Home!ReadAll \/ Home!CheckSum \/ Home!Publish
           \/ Home!Replace \/ Home!Again \/ Home!Lost \/ Home!OtherWrites
  BY <1>6, FetchReceive
<1>7. CASE UNCHANGED homeVars
  BY <1>7 DEF homeVars, FetchInv, FetchTyped, FetchShape, FetchNamed, FetchServed, Serving
<1> QED BY <1>1, <1>2, <1>3, <1>4, <1>5, <1>6, <1>7 DEF Home!FetchNext, Home!Fetch

LEMMA FetchMeans ==
  ASSUME FetchInv
  PROVE  Home!FetchTypeOK /\ Home!NamedIsVerified /\ Home!ArchiveStaysServed
<1>1. Home!FetchTypeOK
  BY DEF Home!FetchTypeOK, FetchInv, FetchTyped, FetchShape, Stored, RowType, GetType
<1>2. Home!NamedIsVerified
  BY DEF Home!NamedIsVerified, FetchInv, FetchNamed
<1>3. Home!ArchiveStaysServed
  <2>1. Home!ServedFrom = {imageDir} \cup Before(stored)
    BY DEF Home!ServedFrom, Before
  <2>2. FetchServed
    BY DEF FetchInv
  <2>3. \A b \in Builds : rows[b].status = "ready" => rows[b].dir \in used
    BY DEF FetchInv, FetchShape
  <2>4. Serving => /\ get.pc # "outside"
                   /\ \A b \in Builds : rows[b].status = "ready" => rows[b].dir \in Home!ServedFrom
    BY <2>1, <2>3 DEF Serving
  <2>5. Home!Cardinality(used) = Cardinality(used)
    BY Zenon DEF Home!Cardinality, Cardinality
  <2> QED BY <2>2, <2>4, <2>5 DEF Home!ArchiveStaysServed, FetchServed
<1> QED BY <1>1, <1>2, <1>3

-----------------------------------------------------------------------------
(***************************************************************************)
(* The scripts of a GPU kit.  A model is in "models" at most once, and     *)
(* before it is called ready every model of the kit is there, whole.       *)
(***************************************************************************)
SetupPc == {"host", "models in", "results in", "cache in", "folders", "image", "restored",
            "load", "old", "models", "toolkit", "record"} \cup Kit!Resting
SetupType == [pc : SetupPc, old : Ids, loaded : BOOLEAN, todo : SUBSET Models,
              options : Options \cup {None}, left : BOOLEAN]
InstallType == [pc : {"idle", "look", "parts", "unpack", "verify", "replace", "move", "remove"},
                model : Models \cup {None}, force : BOOLEAN, remove : BOOLEAN]
StagingType == [now : {"none", "whole", "other"}, left : BOOLEAN]

KitTyped ==
  /\ given \in HostFolders /\ dirs \in HostFolders
  /\ images \in SUBSET {"old", "new"}
  /\ tag \in Ids /\ env \in Ids /\ container \in Ids
  /\ kitParts \in [Models \cup {"image"} -> {"whole", "damaged", "gone"}]
  /\ kitArchive \in BOOLEAN /\ forgotten \in BOOLEAN
  /\ setup \in SetupType
  /\ install \in InstallType
  /\ staging \in StagingType
  /\ forced \in SUBSET Models

Whole(m) == dirs["models"] # None /\ <<m, "whole">> \in dirs["models"]

FoldersFit ==
  /\ OneOfEach(dirs, "models") /\ OneOfEach(dirs, "legacyModels")
  /\ NoneTorn(given)
  /\ Kit!UserDataIsKept

InstallFits ==
  /\ install.pc # "idle" => install.model \in Models
  /\ install.pc \in {"parts", "unpack", "verify", "replace"} => ~Whole(install.model)
  /\ install.pc \in {"verify", "replace", "move"} => dirs["models"] # None
  /\ install.pc = "move" => \A s \in Kinds : <<install.model, s>> \notin dirs["models"]
  /\ install.pc \in {"replace", "move"} => staging.now = "whole"
  /\ install.pc = "remove" => Whole(install.model)
  /\ \A m \in Models : kitParts[m] = "gone" => Whole(m)

ImagesFit ==
  /\ tag = "new" => "new" \in images
  /\ kitParts["image"] = "gone" => kitArchive \/ "new" \in images
  /\ setup.pc = "restored" => kitArchive
  /\ setup.loaded => tag = "new"
  /\ setup.pc \in {"old", "models", "toolkit", "record", "ready"} => tag = "new"
  /\ setup.pc = "ready" => env = "new"
  /\ tag = "new" /\ setup.pc # "old" => ("old" \in images => setup.left \/ forgotten)

ModelsFit ==
  /\ install.pc # "idle" => setup.pc \in {"models"} \cup Kit!Resting
  /\ setup.pc \in {"image", "restored", "load", "old"} => setup.todo = Models
  /\ setup.pc = "models" =>
       \A m \in Models : m \in setup.todo \/ Whole(m) \/ (install.pc # "idle" /\ install.model = m)
  /\ setup.pc \in {"toolkit", "record", "ready"} => \A m \in Models : Whole(m)

KitInv == KitTyped /\ FoldersFit /\ InstallFits /\ ImagesFit /\ ModelsFit

LEMMA PlacesAre ==
  Kit!Places = {"legacyModels", "models", "legacyResults", "results", "cache"}
  BY DEF Kit!Places

LEMMA SetupTo ==
  ASSUME setup \in SetupType, NEW to \in SetupPc
  PROVE  /\ [setup EXCEPT !.pc = to] \in SetupType
         /\ [setup EXCEPT !.pc = to].pc = to
         /\ [setup EXCEPT !.pc = to].old = setup.old
         /\ [setup EXCEPT !.pc = to].loaded = setup.loaded
         /\ [setup EXCEPT !.pc = to].todo = setup.todo
         /\ [setup EXCEPT !.pc = to].left = setup.left
  BY DEF SetupType

LEMMA InstallTo ==
  ASSUME install \in InstallType,
         NEW to \in {"look", "parts", "unpack", "verify", "replace", "move", "remove"}
  PROVE  /\ [install EXCEPT !.pc = to] \in InstallType
         /\ [install EXCEPT !.pc = to].pc = to
         /\ [install EXCEPT !.pc = to].model = install.model
         /\ [install EXCEPT !.pc = to].force = install.force
         /\ [install EXCEPT !.pc = to].remove = install.remove
  BY DEF InstallType

\* Copies in terms of the library's Cardinality.
Where(where, thing) == {p \in Kit!Places : where[p] # None /\ thing \in where[p]}

LEMMA CopiesAre ==
  ASSUME NEW where, NEW thing
  PROVE  /\ Kit!Copies(where, thing) = Cardinality(Where(where, thing))
         /\ IsFiniteSet(Where(where, thing))
         /\ Kit!Copies(where, thing) \in Nat
<1>1. IsFiniteSet(Kit!Places)
  <2>1. IsFiniteSet({"cache"}) /\ IsFiniteSet({"results"}) /\ IsFiniteSet({"models"})
    BY FS_Singleton
  <2>2. IsFiniteSet({"legacyModels"}) /\ IsFiniteSet({"legacyResults"})
    BY FS_Singleton
  <2>3. Kit!Places = ({"legacyModels"} \cup {"models"})
                     \cup (({"legacyResults"} \cup {"results"}) \cup {"cache"})
    BY PlacesAre
  <2> QED BY <2>1, <2>2, <2>3, FS_Union
<1>2. IsFiniteSet(Where(where, thing))
  BY <1>1, FS_Subset DEF Where
<1>3. Kit!Copies(where, thing) = Cardinality(Where(where, thing))
  BY Zenon DEF Kit!Copies, Where, Kit!Cardinality, Cardinality
<1> QED BY <1>2, <1>3, FS_CardinalityType

\* Nothing is lost that is still in every folder it was in.
LEMMA CopiesGrow ==
  ASSUME NEW was, NEW later, NEW thing, Where(was, thing) \subseteq Where(later, thing)
  PROVE  Kit!Copies(later, thing) >= Kit!Copies(was, thing)
<1>1. Cardinality(Where(was, thing)) <= Cardinality(Where(later, thing))
  BY CopiesAre, FS_Subset
<1> QED BY <1>1, CopiesAre

\* Nor what went from one folder into another that had none of it.
LEMMA CopiesMove ==
  ASSUME NEW was, NEW later, NEW thing, NEW from \in Kit!Places, NEW to \in Kit!Places,
         from \in Where(was, thing), to \notin Where(was, thing),
         to \in Where(later, thing),
         Where(was, thing) \ {from} \subseteq Where(later, thing)
  PROVE  Kit!Copies(later, thing) >= Kit!Copies(was, thing)
<1> DEFINE rest == Where(was, thing) \ {from}
<1>1. IsFiniteSet(rest) /\ Cardinality(rest) = Cardinality(Where(was, thing)) - 1
  BY CopiesAre, FS_RemoveElement
<1>2. IsFiniteSet(rest \cup {to}) /\ Cardinality(rest \cup {to}) = Cardinality(rest) + 1
  BY <1>1, FS_AddElement
<1>3. Cardinality(rest \cup {to}) <= Cardinality(Where(later, thing))
  BY CopiesAre, FS_Subset
<1> QED BY <1>1, <1>2, <1>3, CopiesAre

\* UserDataIsKept survives a step that keeps the copies of every thing that is
\* not of a model replaced with --force.
LEMMA DataKept ==
  ASSUME KitInv, given' = given, forced \subseteq forced',
         \A p \in Kit!Places : given[p] # None => \A thing \in given[p] :
           \/ Kit!Copies(dirs', thing) >= Kit!Copies(dirs, thing)
           \/ \E m \in forced' : thing = <<m, "other">>
  PROVE  Kit!UserDataIsKept'
<1> SUFFICES ASSUME NEW p \in Kit!Places, given[p] # None, NEW thing \in given[p]
             PROVE  \/ Kit!Copies(dirs', thing) >= Kit!Copies(given, thing)
                    \/ \E m \in forced' : thing = <<m, "other">>
  BY DEF Kit!UserDataIsKept, Kit!Places, Kit!Copies
<1>1. \/ Kit!Copies(dirs, thing) >= Kit!Copies(given, thing)
      \/ \E m \in forced : thing = <<m, "other">>
  BY DEF KitInv, FoldersFit, Kit!UserDataIsKept
<1>2. /\ Kit!Copies(dirs, thing) \in Nat
      /\ Kit!Copies(dirs', thing) \in Nat
      /\ Kit!Copies(given, thing) \in Nat
  BY CopiesAre
<1> QED BY <1>1, <1>2

\* What a step leaves alone keeps what it was.
LEMMA FoldersStay ==
  ASSUME FoldersFit, UNCHANGED <<given, dirs, forced>>
  PROVE  FoldersFit'
  BY DEF FoldersFit, OneOfEach, NoneTorn, Kit!UserDataIsKept, Kit!Copies, Kit!Places

LEMMA InstallStays ==
  ASSUME InstallFits, UNCHANGED <<dirs, kitParts, install, staging>>
  PROVE  InstallFits'
  BY DEF InstallFits, Whole

LEMMA ModelsStay ==
  ASSUME ModelsFit, UNCHANGED <<dirs, setup, install>>
  PROVE  ModelsFit'
  BY DEF ModelsFit, Whole

LEMMA ImagesStay ==
  ASSUME ImagesFit, UNCHANGED <<tag, env, images, kitParts, kitArchive, setup, forgotten>>
  PROVE  ImagesFit'
  BY DEF ImagesFit

\* setup.sh, but for the folders.
LEMMA KitRunSetup ==
  ASSUME KitInv, NEW options \in Options, Kit!RunSetup(options)
  PROVE  KitInv'
<1> USE DEF Kit!RunSetup, Kit!hostVars
<1>1. /\ setup' \in SetupType
      /\ setup'.pc = "host" /\ setup'.loaded = setup.loaded /\ setup'.left = setup.left
  BY DEF KitInv, KitTyped, SetupType, SetupPc
<1>2. KitTyped'
  BY <1>1 DEF KitInv, KitTyped
<1>3. FoldersFit' /\ InstallFits'
  BY FoldersStay, InstallStays DEF KitInv
<1>4. ImagesFit'
  BY <1>1 DEF KitInv, ImagesFit, Kit!Resting
<1>5. ModelsFit'
  BY <1>1 DEF KitInv, ModelsFit
<1> QED BY <1>2, <1>3, <1>4, <1>5 DEF KitInv

LEMMA KitCheckHost ==
  ASSUME KitInv, Kit!CheckHost
  PROVE  KitInv'
<1> USE DEF Kit!CheckHost, Kit!hostVars, Kit!At, Kit!Exit, Kit!Goto, Kit!Loaded, Kit!SameId
<1>1. /\ setup' \in SetupType
      /\ setup'.pc \in {"failed", "models in", "folders"}
      /\ setup'.loaded => setup.loaded \/ tag = "new"
      /\ setup'.left = setup.left
  <2>1. CASE container # None
    <3>1. setup' = [setup EXCEPT !.pc = "failed"] /\ "failed" \in SetupPc
      BY <2>1 DEF SetupPc, Kit!Resting
    <3> QED BY <3>1, SetupTo DEF KitInv, KitTyped
  <2>2. CASE container = None
    <3>1. PICK to \in {"models in", "folders"}, id \in Ids, found \in BOOLEAN :
            /\ setup' = [setup EXCEPT !.pc = to, !.old = id, !.loaded = found]
            /\ found => tag = "new"
      BY <2>2 DEF KitInv, KitTyped
    <3>2. to \in SetupPc
      BY <3>1 DEF SetupPc
    <3>3. setup \in SetupType
      BY DEF KitInv, KitTyped
    <3> HIDE DEF Kit!CheckHost
    <3>4. setup' \in SetupType /\ setup'.pc = to /\ setup'.left = setup.left
          /\ setup'.loaded = found
      BY <3>1, <3>2, <3>3 DEF SetupType
    <3> QED BY <3>1, <3>4
  <2> QED BY <2>1, <2>2
<1>2. KitTyped'
  BY <1>1 DEF KitInv, KitTyped
<1>3. FoldersFit' /\ InstallFits'
  BY FoldersStay, InstallStays DEF KitInv
<1>4. ImagesFit'
  BY <1>1 DEF KitInv, ImagesFit
<1>5. ModelsFit'
  BY <1>1 DEF KitInv, ModelsFit
<1> QED BY <1>2, <1>3, <1>4, <1>5 DEF KitInv

LEMMA KitRestoreArchive ==
  ASSUME KitInv, Kit!RestoreArchive
  PROVE  KitInv'
<1> USE DEF Kit!RestoreArchive, Kit!hostVars, Kit!At, Kit!Exit, Kit!Goto
<1>1. /\ setup' \in SetupType
      /\ \/ setup'.pc = "restored" /\ kitArchive'
         \/ setup'.pc = "failed"
      /\ setup'.loaded = setup.loaded /\ setup'.left = setup.left
      /\ setup'.todo = setup.todo
  <2>1. setup \in SetupType /\ setup.pc = "image" /\ {"restored", "failed"} \subseteq SetupPc
    BY DEF KitInv, KitTyped, SetupPc, Kit!Resting
  <2>2. CASE kitArchive'
    <3>1. setup' = [setup EXCEPT !.pc = "restored"]
      BY <2>2
    <3> HIDE DEF Kit!RestoreArchive
    <3> QED BY <2>1, <2>2, <3>1, SetupTo
  <2>3. CASE ~kitArchive'
    <3>1. setup' = [setup EXCEPT !.pc = "failed"]
      BY <2>3
    <3> HIDE DEF Kit!RestoreArchive
    <3> QED BY <2>1, <3>1, SetupTo
  <2> QED BY <2>2, <2>3
<1>2. kitArchive' \in BOOLEAN /\ (kitArchive => kitArchive')
  BY DEF KitInv, KitTyped
<1>3. KitTyped'
  BY <1>1, <1>2 DEF KitInv, KitTyped
<1>4. FoldersFit' /\ InstallFits'
  BY FoldersStay, InstallStays DEF KitInv
<1>5. ImagesFit'
  BY <1>1, <1>2 DEF KitInv, ImagesFit
<1>6. ModelsFit'
  BY <1>1 DEF KitInv, ModelsFit
<1> QED BY <1>3, <1>4, <1>5, <1>6 DEF KitInv

LEMMA KitRemoveImageParts ==
  ASSUME KitInv, Kit!RemoveImageParts
  PROVE  KitInv'
<1> USE DEF Kit!RemoveImageParts, Kit!hostVars, Kit!At, Kit!Goto, Kit!Image
<1>1. /\ setup' \in SetupType
      /\ setup'.pc = "load" /\ setup'.loaded = setup.loaded /\ setup'.left = setup.left
      /\ setup'.todo = setup.todo
  BY SetupTo DEF KitInv, KitTyped, SetupPc
<1>2. /\ kitParts' \in [Models \cup {"image"} -> {"whole", "damaged", "gone"}]
      /\ \A m \in Models : kitParts'[m] = kitParts[m]
  BY KitAssumption DEF KitInv, KitTyped
<1>3. kitArchive
  BY DEF KitInv, ImagesFit
<1>4. KitTyped'
  BY <1>1, <1>2 DEF KitInv, KitTyped
<1>5. FoldersFit'
  BY FoldersStay DEF KitInv
<1>6. InstallFits'
  BY <1>2 DEF KitInv, InstallFits, Whole
<1>7. ImagesFit'
  BY <1>1, <1>3 DEF KitInv, ImagesFit
<1>8. ModelsFit'
  BY <1>1 DEF KitInv, ModelsFit
<1> QED BY <1>4, <1>5, <1>6, <1>7, <1>8 DEF KitInv

LEMMA KitPodmanLoad ==
  ASSUME KitInv, Kit!PodmanLoad
  PROVE  KitInv'
<1> USE DEF Kit!PodmanLoad, Kit!At, Kit!Exit, Kit!Goto
<1>1. /\ setup' \in SetupType
      /\ \/ setup'.pc = "old" /\ tag' = "new" /\ images' = images \cup {"new"}
         \/ setup'.pc = "failed" /\ UNCHANGED <<tag, images>>
      /\ setup'.loaded = setup.loaded /\ setup'.left = setup.left
      /\ setup'.todo = setup.todo
  <2>1. setup \in SetupType /\ {"old", "failed"} \subseteq SetupPc
    BY DEF KitInv, KitTyped, SetupPc, Kit!Resting
  <2>2. CASE kitArchive
    <3>1. setup' = [setup EXCEPT !.pc = "old"] /\ tag' = "new" /\ images' = images \cup {"new"}
      BY <2>2
    <3> HIDE DEF Kit!PodmanLoad
    <3> QED BY <2>1, <3>1, SetupTo
  <2>3. CASE ~kitArchive
    <3>1. setup' = [setup EXCEPT !.pc = "failed"] /\ UNCHANGED <<tag, images>>
      BY <2>3
    <3> HIDE DEF Kit!PodmanLoad
    <3> QED BY <2>1, <3>1, SetupTo
  <2> QED BY <2>2, <2>3
<1>2. KitTyped'
  BY <1>1 DEF KitInv, KitTyped, Ids
<1>3. FoldersFit' /\ InstallFits'
  BY FoldersStay, InstallStays DEF KitInv
<1>4. ImagesFit'
  BY <1>1 DEF KitInv, ImagesFit
<1>5. ModelsFit'
  BY <1>1 DEF KitInv, ModelsFit
<1> QED BY <1>2, <1>3, <1>4, <1>5 DEF KitInv

\* The image of this kit is never the old one: what it removes has another id.
LEMMA KitRemoveOldImage ==
  ASSUME KitInv, Kit!RemoveOldImage
  PROVE  KitInv'
<1> DEFINE keep == setup.old \in {None, "new"} \/ Kit!Option.keepOld \/ container = setup.old
<1> USE DEF Kit!RemoveOldImage, Kit!At
<1>1. /\ setup' \in SetupType
      /\ setup'.pc = "models" /\ setup'.loaded = setup.loaded /\ setup'.todo = setup.todo
      /\ setup'.left = (setup.left \/ keep)
  BY DEF KitInv, KitTyped, SetupType, SetupPc
<1>2. images' = IF keep THEN images ELSE images \ {setup.old}
  OBVIOUS
<1>3. ~keep => setup.old = "old"
  BY DEF KitInv, KitTyped, SetupType, Ids
<1>4. KitTyped'
  BY <1>1, <1>2 DEF KitInv, KitTyped
<1>5. FoldersFit' /\ InstallFits'
  BY FoldersStay, InstallStays DEF KitInv
<1>6. ImagesFit'
  BY <1>1, <1>2, <1>3 DEF KitInv, ImagesFit, KitTyped
<1>7. ModelsFit'
  BY <1>1 DEF KitInv, ModelsFit
<1> QED BY <1>4, <1>5, <1>6, <1>7 DEF KitInv

LEMMA KitInstallNext ==
  ASSUME KitInv, Kit!InstallNext
  PROVE  KitInv'
<1> USE DEF Kit!InstallNext, Kit!hostVars, Kit!At, Kit!Goto
<1>1. CASE setup.todo = {}
  <2>1. /\ setup' \in SetupType
        /\ setup'.pc = "toolkit" /\ setup'.loaded = setup.loaded /\ setup'.left = setup.left
    <3>1. setup' = [setup EXCEPT !.pc = "toolkit"] /\ "toolkit" \in SetupPc
      BY <1>1 DEF SetupPc
    <3> QED BY <3>1, SetupTo DEF KitInv, KitTyped
  <2>2. UNCHANGED install
    BY <1>1
  <2>3. KitTyped'
    BY <2>1, <2>2 DEF KitInv, KitTyped
  <2>4. FoldersFit' /\ InstallFits'
    BY <2>2, FoldersStay, InstallStays DEF KitInv
  <2>5. ImagesFit'
    BY <2>1 DEF KitInv, ImagesFit
  <2>6. \A m \in Models : Whole(m)
    BY <1>1 DEF KitInv, ModelsFit
  <2>7. ModelsFit'
    BY <2>1, <2>2, <2>6 DEF ModelsFit, Whole
  <2> QED BY <2>3, <2>4, <2>5, <2>7 DEF KitInv
<1>2. CASE setup.todo # {}
  <2>1. PICK m \in setup.todo :
          /\ setup' = [setup EXCEPT !.todo = @ \ {m}]
          /\ install' = [pc |-> "look", model |-> m, force |-> FALSE,
                         remove |-> ~Kit!Option.keepParts]
    BY <1>2
  <2>2. m \in Models
    BY <2>1 DEF KitInv, KitTyped, SetupType
  <2>3. /\ setup' \in SetupType
        /\ setup'.pc = setup.pc /\ setup'.loaded = setup.loaded /\ setup'.left = setup.left
        /\ setup'.todo = setup.todo \ {m}
    BY <2>1 DEF KitInv, KitTyped, SetupType
  <2>4. install' \in InstallType /\ install'.pc = "look" /\ install'.model = m
    BY <2>1, <2>2 DEF InstallType
  <2>5. KitTyped'
    BY <2>3, <2>4 DEF KitInv, KitTyped
  <2>6. FoldersFit'
    BY FoldersStay DEF KitInv
  <2>7. InstallFits'
    BY <2>2, <2>4 DEF KitInv, InstallFits, Whole
  <2>8. ImagesFit'
    BY <2>3 DEF KitInv, ImagesFit
  <2>9. ModelsFit'
    BY <2>2, <2>3, <2>4 DEF KitInv, ModelsFit, Whole
  <2> QED BY <2>5, <2>6, <2>7, <2>8, <2>9 DEF KitInv
<1> QED BY <1>1, <1>2

LEMMA KitCheckToolkit ==
  ASSUME KitInv, Kit!CheckToolkit
  PROVE  KitInv'
<1> USE DEF Kit!CheckToolkit, Kit!At, Kit!Exit, Kit!Goto
<1>1. /\ setup' \in SetupType
      /\ setup'.pc \in {"failed", "record"} /\ setup'.loaded = setup.loaded
      /\ setup'.left = setup.left
  <2>1. PICK to \in {"failed", "record"} : setup' = [setup EXCEPT !.pc = to]
    OBVIOUS
  <2>2. to \in SetupPc
    BY DEF SetupPc, Kit!Resting
  <2> HIDE DEF Kit!CheckToolkit
  <2> QED BY <2>1, <2>2, SetupTo DEF KitInv, KitTyped
<1>2. KitTyped'
  BY <1>1 DEF KitInv, KitTyped
<1>3. FoldersFit' /\ InstallFits'
  BY FoldersStay, InstallStays DEF KitInv
<1>4. ImagesFit'
  BY <1>1 DEF KitInv, ImagesFit
<1>5. ModelsFit'
  BY <1>1 DEF KitInv, ModelsFit, Whole
<1> QED BY <1>2, <1>3, <1>4, <1>5 DEF KitInv

LEMMA KitRecord ==
  ASSUME KitInv, Kit!Record
  PROVE  KitInv'
<1> USE DEF Kit!Record, Kit!At, Kit!Goto
<1>1. /\ setup' \in SetupType
      /\ setup'.pc = "ready" /\ setup'.loaded = setup.loaded /\ setup'.left = setup.left
  BY SetupTo DEF KitInv, KitTyped, SetupPc, Kit!Resting
<1>2. env' = tag /\ container' \in {container, tag}
  OBVIOUS
<1>3. KitTyped'
  BY <1>1, <1>2 DEF KitInv, KitTyped
<1>4. FoldersFit' /\ InstallFits'
  BY FoldersStay, InstallStays DEF KitInv
<1>5. ImagesFit'
  BY <1>1, <1>2 DEF KitInv, ImagesFit
<1>6. ModelsFit'
  BY <1>1 DEF KitInv, ModelsFit, Whole
<1> QED BY <1>3, <1>4, <1>5, <1>6 DEF KitInv

\* A folder that a step puts in the place of another.
LEMMA FoldersTo ==
  ASSUME NEW place \in Kit!Places, NEW found \in (SUBSET Things) \cup {None}, dirs \in HostFolders
  PROVE  /\ [dirs EXCEPT ![place] = found] \in HostFolders
         /\ [dirs EXCEPT ![place] = found][place] = found
         /\ \A p \in Kit!Places \ {place} : [dirs EXCEPT ![place] = found][p] = dirs[p]
  BY DEF HostFolders

\* The folders fit when each of the two that hold models does.
LEMMA FoldersFitIf ==
  ASSUME KitInv, given' = given, Kit!UserDataIsKept',
         OneOfEach(dirs', "models"), OneOfEach(dirs', "legacyModels")
  PROVE  FoldersFit'
  BY DEF KitInv, FoldersFit, OneOfEach, NoneTorn, Kit!Places

\* move_in: into a place that is empty, so nothing is there to be lost.
LEMMA KitMoveIn ==
  ASSUME KitInv,
         NEW from \in {"legacyModels", "legacyResults"}, NEW to \in {"models", "results"},
         from = "legacyModels" <=> to = "models",
         NEW here \in {"models in", "results in"}, NEW then \in {"results in", "cache in"},
         Kit!MoveIn(from, to, here, then)
  PROVE  KitInv'
<1> USE DEF Kit!hostVars, Kit!At, Kit!Goto
<1>1. /\ setup \in SetupType /\ then \in SetupPc /\ dirs \in HostFolders
      /\ from \in Kit!Places /\ to \in Kit!Places /\ from # to
  BY DEF KitInv, KitTyped, SetupPc, Kit!Places
<1>2. /\ setup.pc = here /\ install.pc = "idle"
      /\ UNCHANGED <<given, images, tag, env, container, forgotten, kitArchive, kitParts, install,
                     staging, forced>>
  BY DEF Kit!MoveIn
<1>3. /\ setup' \in SetupType
      /\ setup'.pc \in {here, then}
      /\ setup'.loaded = setup.loaded /\ setup'.left = setup.left
  <2>1. setup' = setup \/ setup' = [setup EXCEPT !.pc = then]
    BY DEF Kit!MoveIn
  <2> QED BY <1>1, <1>2, <2>1, SetupTo
<1>4. ImagesFit'
  BY <1>2, <1>3 DEF KitInv, ImagesFit
<1>5. ModelsFit'
  BY <1>2, <1>3 DEF KitInv, ModelsFit
<1>6. CASE UNCHANGED dirs
  <2>1. KitTyped'
    BY <1>2, <1>3, <1>6 DEF KitInv, KitTyped
  <2>2. FoldersFit' /\ InstallFits'
    BY <1>2, <1>6, FoldersStay, InstallStays DEF KitInv
  <2> QED BY <1>4, <1>5, <2>1, <2>2 DEF KitInv
<1>7. CASE dirs' # dirs
  <2>1. dirs[to] \in {None, {}} /\ dirs[from] # None
    BY <1>7 DEF Kit!MoveIn, Kit!LeftAlone, Kit!NotEmpty
  <2>2. \/ dirs' = [dirs EXCEPT ![to] = None]
        \/ dirs[to] = None /\ dirs' = [dirs EXCEPT ![to] = dirs[from], ![from] = None]
    BY <1>7 DEF Kit!MoveIn
  <2>3. dirs' \in HostFolders
    BY <1>1, <2>2 DEF HostFolders
  <2>4. to = "models" => \A m \in Models : ~Whole(m) /\ kitParts[m] # "gone"
    BY <2>1 DEF KitInv, InstallFits, Whole
  <2>5. KitTyped'
    BY <1>2, <1>3, <2>3 DEF KitInv, KitTyped
  <2>6. /\ OneOfEach(dirs, "models") /\ OneOfEach(dirs, "legacyModels")
    BY DEF KitInv, FoldersFit
  <2>7. OneOfEach(dirs', "models") /\ OneOfEach(dirs', "legacyModels")
    BY <1>1, <2>2, <2>6 DEF OneOfEach, HostFolders, Kit!Places
  <2>8. ASSUME NEW thing
        PROVE  Kit!Copies(dirs', thing) >= Kit!Copies(dirs, thing)
    <3>1. CASE Where(dirs, thing) \subseteq Where(dirs', thing)
      BY <3>1, CopiesGrow
    <3>2. CASE ~(Where(dirs, thing) \subseteq Where(dirs', thing))
      <4>1. to \notin Where(dirs, thing)
        BY <2>1 DEF Where
      <4>2. dirs[to] = None /\ dirs' = [dirs EXCEPT ![to] = dirs[from], ![from] = None]
        BY <1>1, <2>2, <3>2, <4>1 DEF Where, HostFolders
      <4>3. /\ from \in Where(dirs, thing) /\ to \in Where(dirs', thing)
            /\ Where(dirs, thing) \ {from} \subseteq Where(dirs', thing)
        BY <1>1, <3>2, <4>1, <4>2 DEF Where, HostFolders
      <4> QED BY <1>1, <4>1, <4>3, CopiesMove
    <3> QED BY <3>1, <3>2
  <2>9. Kit!UserDataIsKept'
    BY <1>2, <2>8, DataKept
  <2>10. FoldersFit'
    BY <1>2, <2>7, <2>9, FoldersFitIf
  <2>11. InstallFits'
    <3>1. to # "models" => dirs'["models"] = dirs["models"]
      BY <1>1, <2>2 DEF HostFolders, Kit!Places
    <3> QED BY <1>2, <2>4, <3>1 DEF KitInv, InstallFits, Whole
  <2> QED BY <1>4, <1>5, <2>5, <2>10, <2>11 DEF KitInv
<1> QED BY <1>6, <1>7

LEMMA KitMoveCache ==
  ASSUME KitInv, Kit!MoveCache
  PROVE  KitInv'
<1> USE DEF Kit!hostVars, Kit!At, Kit!Goto
<1>1. /\ setup \in SetupType /\ "folders" \in SetupPc /\ dirs \in HostFolders
      /\ {"models", "legacyModels", "cache", "results"} \subseteq Kit!Places
  BY DEF KitInv, KitTyped, SetupPc, Kit!Places
<1>2. /\ setup.pc = "cache in" /\ install.pc = "idle"
      /\ setup' = [setup EXCEPT !.pc = "folders"]
      /\ UNCHANGED <<given, images, tag, env, container, forgotten, kitArchive, kitParts, install,
                     staging, forced>>
  BY DEF Kit!MoveCache
<1>3. /\ setup' \in SetupType /\ setup'.pc = "folders"
      /\ setup'.loaded = setup.loaded /\ setup'.left = setup.left
  BY <1>1, <1>2, SetupTo
<1>4. \/ UNCHANGED dirs
      \/ /\ dirs["results"] # None /\ Kit!Kernels \in dirs["results"] /\ dirs["cache"] = None
         /\ dirs' = [dirs EXCEPT !["results"] = @ \ {Kit!Kernels}, !["cache"] = {Kit!Kernels}]
  BY DEF Kit!MoveCache, Kit!Has
<1>5. dirs' \in HostFolders
  BY <1>1, <1>4 DEF HostFolders, Things
<1>6. dirs'["models"] = dirs["models"] /\ dirs'["legacyModels"] = dirs["legacyModels"]
  BY <1>1, <1>4 DEF HostFolders
<1>7. KitTyped'
  BY <1>2, <1>3, <1>5 DEF KitInv, KitTyped
<1>8. ASSUME NEW thing
      PROVE  Kit!Copies(dirs', thing) >= Kit!Copies(dirs, thing)
  <2>1. CASE Where(dirs, thing) \subseteq Where(dirs', thing)
    BY <2>1, CopiesGrow
  <2>2. CASE ~(Where(dirs, thing) \subseteq Where(dirs', thing))
    <3>1. /\ dirs["results"] # None /\ Kit!Kernels \in dirs["results"] /\ dirs["cache"] = None
          /\ dirs' = [dirs EXCEPT !["results"] = @ \ {Kit!Kernels}, !["cache"] = {Kit!Kernels}]
      BY <1>4, <2>2 DEF Where
    <3>2. /\ dirs'["results"] = dirs["results"] \ {Kit!Kernels}
          /\ dirs'["cache"] = {Kit!Kernels}
          /\ \A p \in Kit!Places \ {"results", "cache"} : dirs'[p] = dirs[p]
      BY <1>1, <3>1 DEF HostFolders
    <3>3. dirs'["results"] # None /\ dirs'["cache"] # None
      <4>1. dirs'["results"] \in SUBSET Things /\ dirs'["cache"] \in SUBSET Things
        BY <1>1, <3>1, <3>2 DEF HostFolders, Things
      <4> QED BY <4>1, KitAssumption
    <3>4. thing = Kit!Kernels
      BY <1>1, <2>2, <3>1, <3>2, <3>3 DEF Where
    <3>5. /\ "results" \in Where(dirs, thing) /\ "cache" \notin Where(dirs, thing)
          /\ "cache" \in Where(dirs', thing)
          /\ Where(dirs, thing) \ {"results"} \subseteq Where(dirs', thing)
      BY <1>1, <3>1, <3>2, <3>3, <3>4 DEF Where
    <3> QED BY <1>1, <3>5, CopiesMove
  <2> QED BY <2>1, <2>2
<1>9. Kit!UserDataIsKept'
  BY <1>2, <1>8, DataKept
<1>10. OneOfEach(dirs', "models") /\ OneOfEach(dirs', "legacyModels")
  BY <1>6 DEF KitInv, FoldersFit, OneOfEach
<1>11. FoldersFit'
  BY <1>2, <1>9, <1>10, FoldersFitIf
<1>12. InstallFits'
  BY <1>2, <1>6 DEF KitInv, InstallFits, Whole
<1>13. ImagesFit'
  BY <1>2, <1>3 DEF KitInv, ImagesFit
<1>14. ModelsFit'
  BY <1>2, <1>3 DEF KitInv, ModelsFit
<1> QED BY <1>7, <1>11, <1>12, <1>13, <1>14 DEF KitInv

LEMMA KitMakeFolders ==
  ASSUME KitInv, Kit!MakeFolders
  PROVE  KitInv'
<1> USE DEF Kit!hostVars, Kit!At
<1>1. /\ dirs \in HostFolders /\ {"models", "legacyModels"} \subseteq Kit!Places
  BY DEF KitInv, KitTyped, Kit!Places
<1>2. /\ setup.pc = "folders" /\ install.pc = "idle"
      /\ UNCHANGED <<given, images, tag, env, container, forgotten, kitArchive, kitParts, install,
                     staging, forced>>
      /\ \A p \in Kit!Places : \/ dirs'[p] = dirs[p]
                               \/ dirs[p] = None /\ dirs'[p] = {}
      /\ DOMAIN dirs' = Kit!Places
  BY DEF Kit!MakeFolders
<1>3. /\ setup' \in SetupType /\ setup'.pc = (IF setup.loaded THEN "models" ELSE "image")
      /\ setup'.loaded = setup.loaded /\ setup'.left = setup.left /\ setup'.todo = Models
  BY DEF Kit!MakeFolders, KitInv, KitTyped, SetupType, SetupPc
<1>4. dirs' \in HostFolders
  <2>1. dirs' = [p \in Kit!Places |-> dirs'[p]]
    BY DEF Kit!MakeFolders
  <2> QED BY <1>1, <1>2, <2>1 DEF HostFolders
<1>5. KitTyped'
  BY <1>2, <1>3, <1>4 DEF KitInv, KitTyped
<1>6. {} # None
  BY KitAssumption
<1>7. ASSUME NEW thing
      PROVE  Kit!Copies(dirs', thing) >= Kit!Copies(dirs, thing)
  <2>1. Where(dirs, thing) \subseteq Where(dirs', thing)
    BY <1>2 DEF Where
  <2> QED BY <2>1, CopiesGrow
<1>8. Kit!UserDataIsKept'
  BY <1>2, <1>7, DataKept
<1>9. OneOfEach(dirs', "models") /\ OneOfEach(dirs', "legacyModels")
  BY <1>1, <1>2 DEF KitInv, FoldersFit, OneOfEach
<1>10. FoldersFit'
  BY <1>2, <1>8, <1>9, FoldersFitIf
<1>11. InstallFits'
  <2>1. \A m \in Models : Whole(m) => Whole(m)'
    BY <1>1, <1>2 DEF Whole
  <2> QED BY <1>2, <2>1 DEF KitInv, InstallFits
<1>12. ImagesFit'
  BY <1>2, <1>3 DEF KitInv, ImagesFit
<1>13. ModelsFit'
  BY <1>2, <1>3 DEF ModelsFit
<1> QED BY <1>5, <1>10, <1>11, <1>12, <1>13 DEF KitInv

\* install-NAME.sh.  What it ends with when it does not install anything.
LEMMA InstallEnds ==
  ASSUME KitInv, NEW ok \in BOOLEAN, Kit!EndInstall(ok), install.pc # "idle",
         UNCHANGED <<given, dirs, images, tag, env, container, forgotten, kitArchive, forced>>,
         kitParts' \in [Models \cup {"image"} -> {"whole", "damaged", "gone"}],
         kitParts'["image"] = kitParts["image"],
         \A m \in Models : kitParts'[m] = "gone" => Whole(m),
         ok => Whole(install.model)
  PROVE  KitInv'
<1> USE DEF Kit!EndInstall
<1>1. setup \in SetupType /\ "failed" \in SetupPc
  BY DEF KitInv, KitTyped, SetupPc, Kit!Resting
<1>2. \/ setup' = setup /\ (ok \/ setup.pc \in Kit!Resting)
      \/ setup' = [setup EXCEPT !.pc = "failed"]
  BY DEF Kit!Exit, Kit!Goto
<1>3. /\ setup' \in SetupType
      /\ \/ setup'.pc = setup.pc /\ (ok \/ setup.pc \in Kit!Resting)
         \/ setup'.pc = "failed"
      /\ setup'.loaded = setup.loaded /\ setup'.left = setup.left /\ setup'.todo = setup.todo
  BY <1>1, <1>2, SetupTo
<1>4. install' \in InstallType /\ install'.pc = "idle"
  BY DEF Kit!NotInstalling, InstallType
<1>5. staging' \in StagingType
  BY DEF KitInv, KitTyped, StagingType
<1>6. KitTyped'
  BY <1>3, <1>4, <1>5 DEF KitInv, KitTyped
<1>7. FoldersFit'
  BY FoldersStay DEF KitInv
<1>8. InstallFits'
  BY <1>4 DEF InstallFits, Whole
<1>9. ImagesFit'
  BY <1>3 DEF KitInv, ImagesFit, ModelsFit, Kit!Resting
<1>10. ModelsFit'
  BY <1>3, <1>4 DEF KitInv, ModelsFit, Whole, Kit!Resting
<1> QED BY <1>6, <1>7, <1>8, <1>9, <1>10 DEF KitInv

\* A step of the script that goes on to another.
LEMMA InstallGoes ==
  ASSUME KitInv, NEW to \in {"parts", "unpack", "remove", "replace"}, Kit!Step(to),
         install.pc # "idle",
         UNCHANGED <<given, dirs, images, tag, env, container, forgotten, kitArchive, kitParts,
                     staging, forced>>,
         to \in {"parts", "unpack", "replace"} => ~Whole(install.model),
         to = "remove" => Whole(install.model),
         to = "replace" => dirs["models"] # None /\ staging.now = "whole"
  PROVE  KitInv'
<1>1. install \in InstallType /\ install.model \in Models
  BY DEF KitInv, KitTyped, InstallFits
<1>2. install' = [install EXCEPT !.pc = to] /\ UNCHANGED setup
  BY DEF Kit!Step
<1>3. install' \in InstallType /\ install'.pc = to /\ install'.model = install.model
  BY <1>1, <1>2, InstallTo
<1>4. KitTyped'
  BY <1>2, <1>3 DEF KitInv, KitTyped
<1>5. FoldersFit'
  BY FoldersStay DEF KitInv
<1>6. InstallFits'
  BY <1>1, <1>3 DEF KitInv, InstallFits, Whole
<1>7. ImagesFit'
  BY <1>2, ImagesStay DEF KitInv
<1>8. ModelsFit'
  BY <1>2, <1>3 DEF KitInv, ModelsFit, Whole
<1> QED BY <1>4, <1>5, <1>6, <1>7, <1>8 DEF KitInv

\* What Installed finds, when there is one copy at most.
LEMMA InstalledIs ==
  ASSUME KitInv, NEW m \in Models
  PROVE  /\ Whole(m) <=> Kit!Installed(m) = {"whole"}
         /\ \/ Kit!Installed(m) = {}
            \/ \E s \in Kinds : Kit!Installed(m) = {s}
         /\ \A s \in Kinds :
              s \in Kit!Installed(m) <=> dirs["models"] # None /\ <<m, s>> \in dirs["models"]
<1>1. \A s \in Kinds :
        s \in Kit!Installed(m) <=> dirs["models"] # None /\ <<m, s>> \in dirs["models"]
  BY DEF Kit!Installed, Kit!Has, Kinds
<1>2. \A s, t \in Kit!Installed(m) : s = t
  BY DEF KitInv, FoldersFit, OneOfEach, Kit!Installed, Kit!Has, Kinds
<1>3. Kit!Installed(m) \subseteq Kinds
  BY DEF Kit!Installed, Kinds
<1>4. \/ Kit!Installed(m) = {}
      \/ \E s \in Kinds : Kit!Installed(m) = {s}
  BY <1>2, <1>3
<1>5. Whole(m) <=> "whole" \in Kit!Installed(m)
  BY <1>1 DEF Whole, Kinds
<1> QED BY <1>1, <1>2, <1>4, <1>5

LEMMA KitLook ==
  ASSUME KitInv, Kit!Look
  PROVE  KitInv'
<1> USE DEF Kit!hostVars
<1>1. /\ install.pc = "look" /\ install.model \in Models
      /\ UNCHANGED <<given, dirs, images, tag, env, container, forgotten, kitArchive, kitParts,
                     forced>>
      /\ kitParts \in [Models \cup {"image"} -> {"whole", "damaged", "gone"}]
      /\ \A m \in Models : kitParts[m] = "gone" => Whole(m)
  BY DEF Kit!Look, KitInv, KitTyped, InstallFits
<1>2. \/ Kit!Step("remove") /\ UNCHANGED staging /\ Kit!Installed(install.model) = {"whole"}
      \/ Kit!EndInstall(FALSE)
      \/ Kit!Step("parts") /\ UNCHANGED staging /\ Kit!Installed(install.model) # {"whole"}
  BY DEF Kit!Look, Kit!Model
<1>3. Whole(install.model) <=> Kit!Installed(install.model) = {"whole"}
  BY <1>1, InstalledIs
<1> QED BY <1>1, <1>2, <1>3, InstallEnds, InstallGoes

LEMMA KitCheckModelParts ==
  ASSUME KitInv, Kit!CheckModelParts
  PROVE  KitInv'
<1> USE DEF Kit!hostVars
<1>1. /\ install.pc = "parts" /\ ~Whole(install.model)
      /\ UNCHANGED <<given, dirs, images, tag, env, container, forgotten, kitArchive, kitParts,
                     forced>>
      /\ kitParts \in [Models \cup {"image"} -> {"whole", "damaged", "gone"}]
      /\ \A m \in Models : kitParts[m] = "gone" => Whole(m)
  BY DEF Kit!CheckModelParts, KitInv, KitTyped, InstallFits
<1>2. \/ Kit!Step("unpack") /\ UNCHANGED staging
      \/ Kit!EndInstall(FALSE)
  BY DEF Kit!CheckModelParts
<1> QED BY <1>1, <1>2, InstallEnds, InstallGoes

LEMMA KitUnpack ==
  ASSUME KitInv, Kit!Unpack
  PROVE  KitInv'
<1> USE DEF Kit!hostVars
<1>1. /\ install.pc = "unpack" /\ ~Whole(install.model) /\ install.model \in Models
      /\ install \in InstallType /\ dirs \in HostFolders
      /\ UNCHANGED <<given, images, tag, env, container, forgotten, kitArchive, kitParts, forced,
                     setup>>
      /\ {"models", "legacyModels"} \subseteq Kit!Places
      /\ {} # None
  BY KitAssumption DEF Kit!Unpack, Kit!Step, KitInv, KitTyped, InstallFits, Kit!Places
<1>2. /\ install' \in InstallType /\ install'.pc = "verify" /\ install'.model = install.model
  <2>1. install' = [install EXCEPT !.pc = "verify"]
    BY DEF Kit!Unpack, Kit!Step
  <2> QED BY <1>1, <2>1, InstallTo
<1>3. staging' \in StagingType
  BY DEF Kit!Unpack, KitInv, KitTyped, StagingType
<1>4. /\ dirs' \in HostFolders
      /\ dirs'["models"] = (IF dirs["models"] = None THEN {} ELSE dirs["models"])
      /\ \A p \in Kit!Places \ {"models"} : dirs'[p] = dirs[p]
  BY <1>1, FoldersTo DEF Kit!Unpack, HostFolders
<1>5. KitTyped'
  BY <1>1, <1>2, <1>3, <1>4 DEF KitInv, KitTyped
<1>6. ASSUME NEW thing
      PROVE  Kit!Copies(dirs', thing) >= Kit!Copies(dirs, thing)
  <2>1. Where(dirs, thing) \subseteq Where(dirs', thing)
    BY <1>4 DEF Where
  <2> QED BY <2>1, CopiesGrow
<1>7. Kit!UserDataIsKept'
  BY <1>1, <1>6, DataKept
<1>8. OneOfEach(dirs', "models") /\ OneOfEach(dirs', "legacyModels")
  BY <1>1, <1>4 DEF KitInv, FoldersFit, OneOfEach
<1>9. FoldersFit'
  BY <1>1, <1>7, <1>8, FoldersFitIf
<1>10. \A m \in Models : Whole(m) <=> Whole(m)'
  BY <1>1, <1>4 DEF Whole
<1>11. InstallFits'
  BY <1>1, <1>2, <1>4, <1>10 DEF KitInv, InstallFits
<1>12. ImagesFit'
  BY <1>1, ImagesStay DEF KitInv
<1>13. ModelsFit'
  BY <1>1, <1>2, <1>10 DEF KitInv, ModelsFit
<1> QED BY <1>5, <1>9, <1>11, <1>12, <1>13 DEF KitInv

LEMMA KitVerify ==
  ASSUME KitInv, Kit!Verify
  PROVE  KitInv'
<1> USE DEF Kit!hostVars
<1>1. /\ install.pc = "verify" /\ ~Whole(install.model) /\ dirs["models"] # None
      /\ UNCHANGED <<given, dirs, images, tag, env, container, forgotten, kitArchive, kitParts,
                     forced>>
      /\ kitParts \in [Models \cup {"image"} -> {"whole", "damaged", "gone"}]
      /\ \A m \in Models : kitParts[m] = "gone" => Whole(m)
  BY DEF Kit!Verify, KitInv, KitTyped, InstallFits
<1>2. \/ Kit!Step("replace") /\ UNCHANGED staging /\ staging.now = "whole"
      \/ Kit!EndInstall(FALSE)
  BY DEF Kit!Verify, Kit!Verified, Kit!EveryFile
<1> QED BY <1>1, <1>2, InstallEnds, InstallGoes

\* rm -rf takes what was given only when it differs from the kit's, --force
\* is given, and so its model is one of those that were forced.
LEMMA KitReplace ==
  ASSUME KitInv, Kit!Replace
  PROVE  KitInv'
<1> DEFINE model == install.model
           others == dirs["models"] \ {<<model, s>> : s \in Kit!Installed(model)}
<1> USE DEF Kit!hostVars
<1>1. /\ install.pc = "replace" /\ ~Whole(model) /\ model \in Models
      /\ install \in InstallType /\ dirs \in HostFolders
      /\ dirs["models"] # None /\ staging.now = "whole"
      /\ UNCHANGED <<given, images, tag, env, container, forgotten, kitArchive, kitParts, staging,
                     setup>>
      /\ {"models", "legacyModels"} \subseteq Kit!Places
  BY DEF Kit!Replace, Kit!Step, KitInv, KitTyped, InstallFits, Kit!Places
<1>2. /\ others \subseteq dirs["models"]
      /\ \A s \in Kinds : <<model, s>> \notin others
      /\ \A thing \in dirs["models"] :
           thing \in others \/ \E s \in Kit!Installed(model) : thing = <<model, s>>
  BY <1>1, InstalledIs
<1>3. dirs["models"] \in SUBSET Things
  BY <1>1 DEF HostFolders
<1>4. CASE /\ Kit!Installed(model) = {"other"}
           /\ dirs' = [dirs EXCEPT !["models"] = others \cup {<<model, "torn">>}]
           /\ forced' = forced \cup {model}
           /\ UNCHANGED install
  <2> DEFINE broken == others \cup {<<model, "torn">>}
  <2>1. <<model, "torn">> \in Things /\ broken \in SUBSET Things /\ broken # None
    BY <1>1, <1>2, <1>3, KitAssumption DEF Things, Kinds
  <2>2. /\ dirs' \in HostFolders /\ dirs'["models"] = broken
        /\ \A p \in Kit!Places \ {"models"} : dirs'[p] = dirs[p]
    <3>1. /\ dirs' = [dirs EXCEPT !["models"] = broken] /\ dirs \in HostFolders
          /\ "models" \in Kit!Places /\ broken \in (SUBSET Things) \cup {None}
      BY <1>1, <1>4, <2>1
    <3> HIDE DEF broken
    <3> QED BY <3>1 DEF HostFolders
  <2>3. KitTyped'
    BY <1>1, <1>4, <2>2 DEF KitInv, KitTyped
  <2>4. ASSUME NEW thing, thing # <<model, "other">>
        PROVE  Kit!Copies(dirs', thing) >= Kit!Copies(dirs, thing)
    <3>1. thing \in dirs["models"] => thing \in broken
      BY <1>2, <1>4, <2>4
    <3>2. Where(dirs, thing) \subseteq Where(dirs', thing)
      BY <1>1, <2>1, <2>2, <3>1 DEF Where
    <3> QED BY <3>2, CopiesGrow
  <2>5. model \in forced' /\ forced \subseteq forced'
    BY <1>4
  <2>6. Kit!UserDataIsKept'
    BY <1>1, <2>4, <2>5, DataKept
  <2>7. OneOfEach(dirs', "legacyModels")
    BY <1>1, <2>2 DEF KitInv, FoldersFit, OneOfEach
  <2>8. OneOfEach(dirs', "models")
    <3> SUFFICES ASSUME NEW m \in Models, NEW s \in Kinds, NEW t \in Kinds,
                        <<m, s>> \in broken, <<m, t>> \in broken
                 PROVE  s = t
      BY <2>2 DEF OneOfEach
    <3>1. CASE m = model
      BY <1>2, <3>1
    <3>2. CASE m # model
      BY <1>1, <1>2, <3>2 DEF KitInv, FoldersFit, OneOfEach
    <3> QED BY <3>1, <3>2
  <2>9. FoldersFit'
    BY <1>1, <2>6, <2>7, <2>8, FoldersFitIf
  <2>10. ~Whole(model)'
    BY <1>2, <1>4, <2>2 DEF Whole, Kinds
  <2>11. \A m \in Models : Whole(m) => Whole(m)'
    <3> SUFFICES ASSUME NEW m \in Models, Whole(m)
                 PROVE  Whole(m)'
      OBVIOUS
    <3>1. <<m, "whole">> \in dirs["models"] /\ m # model
      BY <1>1 DEF Whole
    <3>2. <<m, "whole">> \in broken
      BY <1>2, <3>1
    <3> QED BY <2>1, <2>2, <3>2 DEF Whole
  <2>12. InstallFits'
    BY <1>1, <1>4, <2>1, <2>2, <2>10, <2>11 DEF KitInv, InstallFits
  <2>13. ImagesFit'
    BY <1>1, ImagesStay DEF KitInv
  <2>14. ModelsFit'
    BY <1>1, <1>4, <2>11 DEF KitInv, ModelsFit
  <2> QED BY <2>3, <2>9, <2>12, <2>13, <2>14 DEF KitInv
<1>5. CASE /\ Kit!Installed(model) # {"other"}
           /\ dirs' = [dirs EXCEPT !["models"] = others]
           /\ install' = [install EXCEPT !.pc = "move"] /\ UNCHANGED forced
  <2>1. others \in SUBSET Things /\ others # None
    BY <1>2, <1>3, KitAssumption
  <2>2. /\ dirs' \in HostFolders /\ dirs'["models"] = others
        /\ \A p \in Kit!Places \ {"models"} : dirs'[p] = dirs[p]
    <3>1. /\ dirs' = [dirs EXCEPT !["models"] = others] /\ dirs \in HostFolders
          /\ "models" \in Kit!Places /\ others \in (SUBSET Things) \cup {None}
      BY <1>1, <1>5, <2>1
    <3> HIDE DEF others
    <3> QED BY <3>1 DEF HostFolders
  <2>3. install' \in InstallType /\ install'.pc = "move" /\ install'.model = model
    BY <1>1, <1>5, InstallTo
  <2>4. KitTyped'
    BY <1>1, <1>5, <2>2, <2>3 DEF KitInv, KitTyped
  <2>5. Kit!Installed(model) \in {{}, {"torn"}}
    BY <1>1, <1>5, InstalledIs DEF Kinds
  <2>6. ASSUME NEW thing, thing # <<model, "torn">>
        PROVE  Kit!Copies(dirs', thing) >= Kit!Copies(dirs, thing)
    <3>1. thing \in dirs["models"] => thing \in others
      BY <1>2, <2>5, <2>6
    <3>2. Where(dirs, thing) \subseteq Where(dirs', thing)
      BY <1>1, <2>1, <2>2, <3>1 DEF Where
    <3> QED BY <3>2, CopiesGrow
  <2>7. \A p \in Kit!Places : given[p] # None => <<model, "torn">> \notin given[p]
    BY <1>1 DEF KitInv, FoldersFit, NoneTorn
  <2>8. Kit!UserDataIsKept'
    BY <1>1, <1>5, <2>6, <2>7, DataKept
  <2>9. OneOfEach(dirs', "models") /\ OneOfEach(dirs', "legacyModels")
    BY <1>1, <1>2, <2>2 DEF KitInv, FoldersFit, OneOfEach
  <2>10. FoldersFit'
    BY <1>1, <1>5, <2>8, <2>9, FoldersFitIf
  <2>11. \A m \in Models : Whole(m) => Whole(m)'
    <3> SUFFICES ASSUME NEW m \in Models, Whole(m)
                 PROVE  Whole(m)'
      OBVIOUS
    <3>1. <<m, "whole">> \in dirs["models"] /\ m # model
      BY <1>1 DEF Whole
    <3>2. <<m, "whole">> \in others
      BY <1>2, <3>1
    <3> QED BY <2>1, <2>2, <3>2 DEF Whole
  <2>12. InstallFits'
    BY <1>1, <1>2, <2>1, <2>2, <2>3, <2>11 DEF KitInv, InstallFits
  <2>13. ImagesFit'
    BY <1>1, ImagesStay DEF KitInv
  <2>14. ModelsFit'
    BY <1>1, <2>3, <2>11 DEF KitInv, ModelsFit
  <2> QED BY <2>4, <2>10, <2>12, <2>13, <2>14 DEF KitInv
<1> QED BY <1>4, <1>5 DEF Kit!Replace, Kit!Step, Kit!Model

LEMMA KitMove ==
  ASSUME KitInv, Kit!Move
  PROVE  KitInv'
<1> DEFINE model == install.model
           more == dirs["models"] \cup {<<model, "whole">>}
<1> USE DEF Kit!hostVars
<1>1. /\ install.pc = "move" /\ model \in Models
      /\ \A s \in Kinds : <<model, s>> \notin dirs["models"]
      /\ install \in InstallType /\ dirs \in HostFolders
      /\ dirs["models"] # None /\ staging.now = "whole"
      /\ UNCHANGED <<given, images, tag, env, container, forgotten, kitArchive, kitParts, forced,
                     setup>>
      /\ {"models", "legacyModels"} \subseteq Kit!Places
      /\ install' = [install EXCEPT !.pc = "remove"]
      /\ dirs' = [dirs EXCEPT !["models"] = more]
  BY DEF Kit!Move, Kit!Step, Kit!Model, KitInv, KitTyped, InstallFits, Kit!Places
<1>2. more \in SUBSET Things /\ more # None
  BY <1>1, KitAssumption DEF HostFolders, Things, Kinds
<1>3. /\ dirs' \in HostFolders /\ dirs'["models"] = more
      /\ \A p \in Kit!Places \ {"models"} : dirs'[p] = dirs[p]
  <2>1. /\ dirs' = [dirs EXCEPT !["models"] = more] /\ dirs \in HostFolders
        /\ "models" \in Kit!Places /\ more \in (SUBSET Things) \cup {None}
    BY <1>1, <1>2
  <2> HIDE DEF more
  <2> QED BY <2>1 DEF HostFolders
<1>4. install' \in InstallType /\ install'.pc = "remove" /\ install'.model = model
  BY <1>1, InstallTo
<1>5. staging' \in StagingType
  BY DEF Kit!Move, KitInv, KitTyped, StagingType
<1>6. KitTyped'
  BY <1>1, <1>3, <1>4, <1>5 DEF KitInv, KitTyped
<1>7. ASSUME NEW thing
      PROVE  Kit!Copies(dirs', thing) >= Kit!Copies(dirs, thing)
  <2>1. Where(dirs, thing) \subseteq Where(dirs', thing)
    BY <1>1, <1>2, <1>3 DEF Where
  <2> QED BY <2>1, CopiesGrow
<1>8. Kit!UserDataIsKept'
  BY <1>1, <1>7, DataKept
<1>9. OneOfEach(dirs', "legacyModels")
  BY <1>1, <1>3 DEF KitInv, FoldersFit, OneOfEach
<1>10. OneOfEach(dirs', "models")
  <2> SUFFICES ASSUME NEW m \in Models, NEW s \in Kinds, NEW t \in Kinds,
                      <<m, s>> \in more, <<m, t>> \in more
               PROVE  s = t
    BY <1>3 DEF OneOfEach
  <2>1. CASE m = model
    BY <1>1, <2>1
  <2>2. CASE m # model
    BY <1>1, <2>2 DEF KitInv, FoldersFit, OneOfEach
  <2> QED BY <2>1, <2>2
<1>11. FoldersFit'
  BY <1>1, <1>8, <1>9, <1>10, FoldersFitIf
<1>12. (Whole(model))' /\ \A m \in Models : Whole(m) => Whole(m)'
  BY <1>1, <1>2, <1>3 DEF Whole
<1>13. InstallFits'
  BY <1>1, <1>4, <1>12 DEF KitInv, InstallFits
<1>14. ImagesFit'
  BY <1>1, ImagesStay DEF KitInv
<1>15. ModelsFit'
  BY <1>1, <1>4, <1>12 DEF KitInv, ModelsFit
<1> QED BY <1>6, <1>11, <1>13, <1>14, <1>15 DEF KitInv

LEMMA KitRemoveModelParts ==
  ASSUME KitInv, Kit!RemoveModelParts
  PROVE  KitInv'
<1> USE DEF Kit!hostVars
<1>1. /\ install.pc = "remove" /\ install.model \in Models /\ Whole(install.model)
      /\ UNCHANGED <<given, dirs, images, tag, env, container, forgotten, kitArchive, forced>>
      /\ kitParts \in [Models \cup {"image"} -> {"whole", "damaged", "gone"}]
      /\ \A m \in Models : kitParts[m] = "gone" => Whole(m)
      /\ Kit!EndInstall(TRUE)
  BY DEF Kit!RemoveModelParts, KitInv, KitTyped, InstallFits
<1>2. \/ kitParts' = kitParts
      \/ kitParts' = [kitParts EXCEPT ![install.model] = "gone"]
  BY DEF Kit!RemoveModelParts, Kit!Model
<1>3. /\ kitParts' \in [Models \cup {"image"} -> {"whole", "damaged", "gone"}]
      /\ kitParts'["image"] = kitParts["image"]
      /\ \A m \in Models : kitParts'[m] = "gone" => Whole(m)
  BY <1>1, <1>2, KitAssumption
<1> QED BY <1>1, <1>3, InstallEnds

\* What a user does, and what befalls a run.
LEMMA KitRunInstall ==
  ASSUME KitInv, NEW m \in Models, NEW force \in BOOLEAN, Kit!RunInstall(m, force)
  PROVE  KitInv'
<1> USE DEF Kit!hostVars, Kit!RunInstall
<1>1. install' \in InstallType /\ install'.pc = "look" /\ install'.model = m
  BY DEF InstallType
<1>2. KitTyped'
  BY <1>1 DEF KitInv, KitTyped
<1>3. FoldersFit'
  BY FoldersStay DEF KitInv
<1>4. InstallFits'
  BY <1>1 DEF KitInv, InstallFits, Whole
<1>5. ImagesFit'
  BY ImagesStay DEF KitInv
<1>6. ModelsFit'
  BY <1>1 DEF KitInv, ModelsFit, Whole, Kit!Resting
<1> QED BY <1>2, <1>3, <1>4, <1>5, <1>6 DEF KitInv

LEMMA KitStopSetup ==
  ASSUME KitInv, NEW tidy \in BOOLEAN, Kit!StopSetup(tidy)
  PROVE  KitInv'
<1>1. /\ UNCHANGED <<given, images, tag, env, container, dirs, kitArchive, kitParts, forced>>
      /\ install' = Kit!NotInstalling
      /\ staging' = [now |-> "none", left |-> staging.left \/ (staging.now # "none" /\ ~tidy)]
      /\ forgotten' = (forgotten \/ setup.pc = "old")
      /\ \/ setup' = setup /\ setup.pc \in Kit!Resting
         \/ setup' = [setup EXCEPT !.pc = "stopped"]
  BY DEF Kit!StopSetup
<1>2. setup \in SetupType /\ "stopped" \in SetupPc
  BY DEF KitInv, KitTyped, SetupPc, Kit!Resting
<1>3. /\ setup' \in SetupType
      /\ \/ setup'.pc = setup.pc /\ setup.pc \in Kit!Resting
         \/ setup'.pc = "stopped"
      /\ setup'.loaded = setup.loaded /\ setup'.left = setup.left /\ setup'.todo = setup.todo
  <2>1. CASE setup' = setup /\ setup.pc \in Kit!Resting
    BY <1>2, <2>1
  <2>2. CASE setup' = [setup EXCEPT !.pc = "stopped"]
    BY <1>2, <2>2, SetupTo
  <2> QED BY <1>1, <2>1, <2>2
<1>4. install' \in InstallType /\ install'.pc = "idle"
  BY <1>1 DEF Kit!NotInstalling, InstallType
<1>5. staging' \in StagingType
  BY <1>1 DEF KitInv, KitTyped, StagingType
<1>6. forgotten' \in BOOLEAN
  BY <1>1
<1>7. KitTyped'
  BY <1>1, <1>3, <1>4, <1>5, <1>6 DEF KitInv, KitTyped
<1>8. FoldersFit'
  BY <1>1, FoldersStay DEF KitInv
<1>9. InstallFits'
  BY <1>1, <1>4 DEF KitInv, InstallFits, Whole
<1>10. ImagesFit'
  BY <1>1, <1>3 DEF KitInv, ImagesFit, Kit!Resting
<1>11. ModelsFit'
  BY <1>1, <1>3, <1>4 DEF KitInv, ModelsFit, Whole, Kit!Resting
<1> QED BY <1>7, <1>8, <1>9, <1>10, <1>11 DEF KitInv

LEMMA KitDamage ==
  ASSUME KitInv, NEW p \in Models \cup {"image"}, Kit!Damage(p)
  PROVE  KitInv'
<1> USE DEF Kit!hostVars, Kit!Damage
<1>1. /\ kitParts' \in [Models \cup {"image"} -> {"whole", "damaged", "gone"}]
      /\ \A q \in Models \cup {"image"} : kitParts'[q] = "gone" => kitParts[q] = "gone"
  BY DEF KitInv, KitTyped
<1>2. KitTyped'
  BY <1>1 DEF KitInv, KitTyped
<1>3. FoldersFit'
  BY FoldersStay DEF KitInv
<1>4. InstallFits'
  BY <1>1 DEF KitInv, InstallFits, Whole
<1>5. ImagesFit'
  BY <1>1 DEF KitInv, ImagesFit
<1>6. ModelsFit'
  BY ModelsStay DEF KitInv
<1> QED BY <1>2, <1>3, <1>4, <1>5, <1>6 DEF KitInv

LEMMA KitDeleteArchive ==
  ASSUME KitInv, Kit!DeleteArchive
  PROVE  KitInv'
<1> USE DEF Kit!hostVars, Kit!DeleteArchive
<1>1. KitTyped'
  BY DEF KitInv, KitTyped
<1>2. FoldersFit' /\ InstallFits' /\ ModelsFit'
  BY FoldersStay, InstallStays, ModelsStay DEF KitInv
<1>3. ImagesFit'
  BY DEF KitInv, ImagesFit, Kit!Resting
<1> QED BY <1>1, <1>2, <1>3 DEF KitInv

LEMMA KitContainer ==
  ASSUME KitInv, Kit!Container
  PROVE  KitInv'
<1> USE DEF Kit!Container
<1>1. KitTyped'
  BY DEF KitInv, KitTyped, Ids
<1>2. FoldersFit' /\ InstallFits' /\ ModelsFit' /\ ImagesFit'
  BY FoldersStay, InstallStays, ModelsStay, ImagesStay DEF KitInv
<1> QED BY <1>1, <1>2 DEF KitInv

LEMMA KitStep ==
  ASSUME KitInv, Kit!KitNext
  PROVE  KitInv'
<1>1. CASE Kit!Setup
  BY <1>1, KitCheckHost, KitMoveIn, KitMoveCache, KitMakeFolders, KitRestoreArchive,
     KitRemoveImageParts, KitPodmanLoad, KitRemoveOldImage, KitInstallNext, KitCheckToolkit,
     KitRecord DEF Kit!Setup
<1>2. CASE Kit!Install
  BY <1>2, KitLook, KitCheckModelParts, KitUnpack, KitVerify, KitReplace, KitMove,
     KitRemoveModelParts DEF Kit!Install
<1>3. CASE Kit!UserRuns
  BY <1>3, KitRunSetup DEF Kit!UserRuns
<1>4. CASE ~(Kit!Setup \/ Kit!Install \/ Kit!UserRuns)
  BY <1>4, KitRunInstall, KitStopSetup, KitDamage, KitDeleteArchive, KitContainer
  DEF Kit!KitNext, Kit!Image
<1> QED BY <1>1, <1>2, <1>3, <1>4

LEMMA KitStarts ==
  ASSUME Kit!KitInit
  PROVE  KitInv
<1>1. PICK host \in Hosts :
        /\ given = host.dirs /\ dirs = host.dirs
        /\ images = {host.tag, host.env} \ {None}
        /\ tag = host.tag /\ env = host.env
  BY DEF Kit!KitInit
<1>2. /\ kitArchive = FALSE /\ container = None /\ forgotten = FALSE /\ forced = {}
      /\ kitParts = [p \in Models \cup {"image"} |-> "whole"]
      /\ setup = [pc |-> "never", old |-> None, loaded |-> FALSE, todo |-> {},
                  options |-> None, left |-> FALSE]
      /\ install = Kit!NotInstalling
      /\ staging = [now |-> "none", left |-> FALSE]
  BY DEF Kit!KitInit, Kit!Image
<1>3. HostFits(host)
  BY KitAssumption
<1>4. setup \in SetupType /\ install \in InstallType /\ staging \in StagingType
  BY <1>2 DEF SetupType, SetupPc, InstallType, StagingType, Kit!NotInstalling, Kit!Resting, Ids
<1>5. setup.pc = "never" /\ install.pc = "idle" /\ ~setup.loaded /\ ~setup.left
  BY <1>2 DEF Kit!NotInstalling
<1>6. KitTyped
  BY <1>1, <1>2, <1>3, <1>4 DEF KitTyped, HostFits, Ids
<1>7. FoldersFit
  <2>1. Kit!UserDataIsKept
    BY <1>1, CopiesAre DEF Kit!UserDataIsKept
  <2> QED BY <1>1, <1>3, <2>1 DEF FoldersFit, HostFits
<1>8. InstallFits
  BY <1>2, <1>5 DEF InstallFits
<1>9. ImagesFit
  BY <1>1, <1>2, <1>3, <1>5, KitAssumption DEF ImagesFit, HostFits
<1>10. ModelsFit
  BY <1>5 DEF ModelsFit
<1> QED BY <1>6, <1>7, <1>8, <1>9, <1>10 DEF KitInv

\* The types are among what the invariant says.
LEMMA KitTypes ==
  ASSUME KitInv
  PROVE  Kit!KitTypeOK
<1>1. /\ DOMAIN dirs = Kit!Places /\ images \subseteq {"old", "new"}
      /\ {tag, env, container} \subseteq {None, "old", "new"}
      /\ kitParts \in [Models \cup {Kit!Image} -> {"whole", "damaged", "gone"}]
      /\ install.model \in Models \cup {None}
  BY DEF KitInv, KitTyped, HostFolders, Ids, Kit!Image, InstallType
<1>2. ASSUME NEW m \in Models
      PROVE  Kit!Cardinality(Kit!Installed(m)) <= 1
  <2> DEFINE S == Kit!Installed(m)
  <2>1. \A s, t \in S : s = t
    BY DEF KitInv, FoldersFit, OneOfEach, Kit!Installed, Kit!Has, Kinds
  <2>2. Kit!Cardinality(S) = Cardinality(S)
    BY Zenon DEF Kit!Cardinality, Cardinality
  <2> HIDE DEF S
  <2>3. Cardinality(S) <= 1
    <3>1. CASE S = {}
      BY <3>1, FS_EmptySet
    <3>2. CASE S # {}
      <4>1. PICK s \in S : S = {s}
        BY <2>1, <3>2
      <4>2. Cardinality(S) = 1
        BY <4>1, FS_Singleton
      <4> QED BY <4>2
    <3> QED BY <3>1, <3>2
  <2> QED BY <2>2, <2>3 DEF S
<1> QED BY <1>1, <1>2 DEF Kit!KitTypeOK

LEMMA KitMeans ==
  ASSUME KitInv
  PROVE  Kit!UserDataIsKept /\ Kit!NoCopyIsLost /\ Kit!ReadyIsInstalled
<1>1. Kit!UserDataIsKept
  BY DEF KitInv, FoldersFit
<1>2. Kit!NoCopyIsLost
  BY DEF KitInv, InstallFits, ImagesFit, Kit!NoCopyIsLost, Kit!Has, Whole, Kit!Image
<1>3. Kit!ReadyIsInstalled
  BY DEF KitInv, ImagesFit, ModelsFit, Kit!ReadyIsInstalled, Kit!Has, Whole
<1> QED BY <1>1, <1>2, <1>3

-----------------------------------------------------------------------------
\* The scenes of MCOffline share no state.
LEMMA SceneStays == [MCNext]_all => scene' = scene
  BY DEF MCNext, all, SplitScene, DownloadScene, ModelScene, KitScene, BenchScene, TuiScene,
         FetchScene, MoveScene

LEMMA FetchScenes ==
  ASSUME [MCNext]_all, scene \in {"fetch", "move"}
  PROVE  Home!FetchNext \/ UNCHANGED homeVars
  BY DEF MCNext, all, SplitScene, DownloadScene, ModelScene, KitScene, BenchScene, TuiScene,
         FetchScene, MoveScene

LEMMA KitScenes ==
  ASSUME [MCNext]_all, scene = "kit"
  PROVE  Kit!KitNext \/ UNCHANGED kitVars
  BY DEF MCNext, all, SplitScene, DownloadScene, ModelScene, KitScene, BenchScene, TuiScene,
         FetchScene, MoveScene

FetchSceneInv == scene \in {"fetch", "move"} => FetchInv
KitSceneInv == scene = "kit" => KitInv

LEMMA FetchHolds == MCSafety => []FetchSceneInv
<1>1. MCInit => FetchSceneInv
  BY FetchStart DEF MCInit, FetchSceneInv
<1>2. FetchSceneInv /\ [MCNext]_all => FetchSceneInv'
  BY FetchStep, FetchScenes, SceneStays DEF FetchSceneInv
<1> QED BY <1>1, <1>2, PTL DEF MCSafety

LEMMA KitHolds == MCSafety => []KitSceneInv
<1>1. MCInit => KitSceneInv
  BY KitStarts DEF MCInit, KitSceneInv
<1>2. KitSceneInv /\ [MCNext]_all => KitSceneInv'
  <2>1. ASSUME KitInv, UNCHANGED kitVars
        PROVE  KitInv'
    <3> USE <2>1 DEF kitVars
    <3>1. KitTyped'
      BY DEF KitInv, KitTyped
    <3>2. FoldersFit' /\ InstallFits' /\ ModelsFit' /\ ImagesFit'
      BY FoldersStay, InstallStays, ModelsStay, ImagesStay DEF KitInv
    <3> QED BY <3>1, <3>2 DEF KitInv
  <2> QED BY <2>1, KitStep, KitScenes, SceneStays DEF KitSceneInv
<1> QED BY <1>1, <1>2, PTL DEF MCSafety

(***************************************************************************)
(* What has its final name in the client's directory is the archive, with  *)
(* the digest the server promised, whatever broke off or was retried on    *)
(* the way (client.py, download_file).                                     *)
(***************************************************************************)
THEOREM NamesVerified == MCSafety => []NamedIsVerified
<1>1. FetchSceneInv => NamedIsVerified
  BY FetchMeans DEF FetchSceneInv, NamedIsVerified
<1> QED BY <1>1, FetchHolds, PTL

(***************************************************************************)
(* An archive of a finished build is served, wherever the image directory  *)
(* was moved in the meantime, as far as the server remembers (storage.py). *)
(***************************************************************************)
THEOREM StaysServed == MCSafety => []ArchiveStaysServed
<1>1. FetchSceneInv => ArchiveStaysServed
  BY FetchMeans DEF FetchSceneInv, ArchiveStaysServed
<1> QED BY <1>1, FetchHolds, PTL

(***************************************************************************)
(* No run of setup.sh, wherever it is stopped, loses a folder or a model   *)
(* that was on the host, but for those the user replaces with --force.     *)
(***************************************************************************)
THEOREM KeepsUserData == MCSafety => []UserDataIsKept
<1>1. KitSceneInv => UserDataIsKept
  BY KitMeans DEF KitSceneInv, UserDataIsKept
<1> QED BY <1>1, KitHolds, PTL

(***************************************************************************)
(* The parts that are removed to save space leave a copy behind: the       *)
(* archive or the image in podman, and the installed model.                *)
(***************************************************************************)
THEOREM KeepsACopy == MCSafety => []NoCopyIsLost
<1>1. KitSceneInv => NoCopyIsLost
  BY KitMeans DEF KitSceneInv, NoCopyIsLost
<1> QED BY <1>1, KitHolds, PTL

(***************************************************************************)
(* setup.sh ends well only with the kit's image, and all its models whole. *)
(***************************************************************************)
THEOREM ReadyMeansInstalled == MCSafety => []ReadyIsInstalled
<1>1. KitSceneInv => ReadyIsInstalled
  BY KitMeans DEF KitSceneInv, ReadyIsInstalled
<1> QED BY <1>1, KitHolds, PTL
=============================================================================
