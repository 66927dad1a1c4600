------------------------- MODULE SplitDownloadProofs -------------------------
(***************************************************************************)
(* Split downloads, from the archive on the server to the archive on the   *)
(* offline host, for any builds that share one path, requests, part size   *)
(* and number of faults.                                                   *)
(***************************************************************************)
EXTENDS MCOffline, FiniteSetTheorems, SequenceTheorems, WellFoundedInduction, TLAPS

-----------------------------------------------------------------------------
(***************************************************************************)
(* Cutting a stream: hash_parts and the join of assemble-image.sh.         *)
(***************************************************************************)
\* A set of numbers has a least one.
LEMMA LeastNat ==
    ASSUME NEW T, T \subseteq Nat, T # {}
    PROVE  \E x \in T : \A y \in T : x <= y
<1>1. IsWellFoundedOn(OpToRel(<, Nat), Nat)
  BY NatLessThanWellFounded
<1>2. PICK x \in T : \A y \in T : ~ (<<y, x>> \in OpToRel(<, Nat))
  BY <1>1, WFMin
<1>3. \A y \in T : ~(y < x)
  BY <1>2 DEF OpToRel
<1> QED BY <1>3

\* A function that satisfies the equation of FlattenSeq is what it computes.
LEMMA Flattened ==
    ASSUME NEW seqs, Len(seqs) \in Nat \ {0},
           NEW g, g = [i \in 1..Len(seqs) |-> IF i = 1 THEN seqs[i] ELSE g[i - 1] \o seqs[i]]
    PROVE  FlattenSeq(seqs) = g[Len(seqs)]
<1> DEFINE n == Len(seqs)
           Is(f) == f = [i \in 1..n |-> IF i = 1 THEN seqs[i] ELSE f[i - 1] \o seqs[i]]
           f == CHOOSE h : Is(h)
<1>1. FlattenSeq(seqs) = f[n]
  BY DEF FlattenSeq
<1>2. Is(f)
  BY Zenon
<1> HIDE DEF f
<1>3. \A i \in 1..n : f[i] = IF i = 1 THEN seqs[i] ELSE f[i - 1] \o seqs[i]
  BY <1>2
<1>4. \A i \in 1..n : g[i] = IF i = 1 THEN seqs[i] ELSE g[i - 1] \o seqs[i]
  OBVIOUS
<1>5. ASSUME f[n] # g[n] PROVE FALSE
  <2> DEFINE T == {i \in 1..n : f[i] # g[i]}
  <2>0. T \subseteq Nat /\ n \in T
    BY <1>5
  <2>a. \A i \in 1..n : f[i] # g[i] <=> i \in T
    OBVIOUS
  <2> HIDE DEF T
  <2>1. PICK x \in T : \A y \in T : x <= y
    <3>1. T # {}
      BY <2>0
    <3> QED
      BY <2>0, <3>1, LeastNat
  <2>b. x \in 1..n /\ f[x] # g[x]
    BY <2>1 DEF T
  <2>2. CASE x = 1
    BY <1>3, <1>4, <2>b, <2>2
  <2>3. CASE x # 1
    <3>1. x - 1 \in 1..n /\ x - 1 \notin T
      BY <2>1, <2>b, <2>3, <2>0
    <3>2. f[x - 1] = g[x - 1]
      BY <3>1, <2>a
    <3> QED
      BY <3>2, <1>3, <1>4, <2>b, <2>3
  <2> QED
    BY <2>2, <2>3
<1> QED
  BY <1>1, <1>5

\* What a sequence of sequences is flattened to is a sequence.
LEMMA FlattenedIsSeq ==
    ASSUME NEW S, NEW seqs \in Seq(Seq(S))
    PROVE  FlattenSeq(seqs) \in Seq(S)
<1> DEFINE n == Len(seqs)
           Step(g, i) == IF i = 1 THEN seqs[i] ELSE g[i - 1] \o seqs[i]
           To(m) == \E g \in [1..m -> Seq(S)] : \A i \in 1..m : g[i] = Step(g, i)
           Bad == {m \in 1..n : ~To(m)}
<1>0. n \in Nat /\ \A i \in 1..n : seqs[i] \in Seq(S)
  OBVIOUS
<1>1. CASE n = 0
  <2>1. FlattenSeq(seqs) = seqs
    BY <1>1 DEF FlattenSeq
  <2>2. seqs = <<>>
    BY <1>1
  <2>3. <<>> \in Seq(S)
    OBVIOUS
  <2> QED
    BY <2>1, <2>2, <2>3
<1>2. CASE n # 0
  <2> HIDE DEF n
  <2>1. CASE Bad # {}
    <3>1. Bad \subseteq Nat
      BY <1>0
    <3> DEFINE m == CHOOSE m \in Bad : \A y \in Bad : m <= y
    <3>2. m \in Bad /\ \A y \in Bad : m <= y
      BY <2>1, <3>1, LeastNat
    <3> HIDE DEF m, Bad
    <3>3. m \in 1..n /\ ~To(m)
      BY <3>2 DEF Bad
    <3>4. CASE m = 1
      <4> DEFINE g == [i \in 1..1 |-> seqs[1]]
      <4>1. g \in [1..m -> Seq(S)] /\ \A i \in 1..m : g[i] = Step(g, i)
        BY <1>0, <3>3, <3>4
      <4> QED
        BY <3>3, <4>1
    <3>5. CASE m # 1
      <4>1. m - 1 \in 1..n /\ m - 1 \notin Bad
        BY <3>1, <3>2, <3>3, <3>5, <1>0
      <4>2. PICK g \in [1..(m - 1) -> Seq(S)] : \A i \in 1..(m - 1) : g[i] = Step(g, i)
        BY <4>1 DEF Bad
      <4> DEFINE h == [i \in 1..m |-> IF i = m THEN g[m - 1] \o seqs[m] ELSE g[i]]
      <4>3. h \in [1..m -> Seq(S)]
        <5>1. g[m - 1] \in Seq(S) /\ seqs[m] \in Seq(S)
          BY <1>0, <3>3, <4>1
        <5>2. g[m - 1] \o seqs[m] \in Seq(S)
          BY <5>1
        <5>3. \A i \in 1..m : i # m => g[i] \in Seq(S)
          BY <3>3, <1>0
        <5> QED
          BY <5>2, <5>3
      <4>4. ASSUME NEW i \in 1..m
            PROVE  h[i] = Step(h, i)
        <5>1. CASE i = m
          <6>1. h[m - 1] = g[m - 1]
            BY <3>3, <3>5, <1>0
          <6> QED
            BY <5>1, <6>1, <3>5
        <5>2. CASE i # m
          <6>1. i \in 1..(m - 1)
            BY <5>2, <3>3, <1>0
          <6>2. i # 1 => h[i - 1] = g[i - 1]
            BY <6>1, <3>3, <1>0
          <6> QED
            BY <4>2, <5>2, <6>1, <6>2
        <5> QED
          BY <5>1, <5>2
      <4> HIDE DEF h, Step
      <4> QED
        BY <3>3, <4>3, <4>4
    <3> QED
      BY <3>4, <3>5
  <2>2. CASE Bad = {}
    <3>1. n \in 1..n
      BY <1>0, <1>2
    <3>2. To(n)
      BY <2>2, <3>1
    <3>3. PICK g \in [1..n -> Seq(S)] : \A i \in 1..n : g[i] = Step(g, i)
      BY <3>2
    <3>4. g = [i \in 1..n |-> Step(g, i)]
      BY <3>3
    <3>5. FlattenSeq(seqs) = g[n]
      <4>1. Len(seqs) \in Nat \ {0}
        BY <1>0, <1>2 DEF n
      <4>2. g = [i \in 1..Len(seqs) |-> IF i = 1 THEN seqs[i] ELSE g[i - 1] \o seqs[i]]
        BY <3>4 DEF n
      <4> QED
        BY <4>1, <4>2, Flattened, Zenon DEF n
    <3> QED
      BY <3>1, <3>3, <3>5
  <2> QED
    BY <2>1, <2>2
<1> QED
  BY <1>1, <1>2

\* The smaller and the larger of two numbers.
LEMMA MinOfTwo ==
    \A a, b \in Int : Min({a, b}) = IF a <= b THEN a ELSE b
BY DEF Min

LEMMA MaxOfTwo ==
    \A a, b \in Int : Max({a, b}) = IF a >= b THEN a ELSE b
BY DEF Max

\* How many parts there are.
PartCount(total, length) == (total + length - 1) \div length

\* Z3 does not find this one within a larger goal.
LEMMA Product == \A a, b \in Nat : a * b \in Nat
OBVIOUS

\* Parts of one length, and what is left for the last one.
LEMMA PlanIs ==
    ASSUME NEW total \in Nat \ {0}, NEW length \in Nat \ {0}
    PROVE  LET n == PartCount(total, length) IN
           /\ n \in Nat \ {0}
           /\ Plan(total, length) = [i \in 1..n |->
                [offset |-> (i - 1) * length,
                 size |-> IF i < n THEN length ELSE total - (i - 1) * length]]
           /\ \A i \in 1..n : (i - 1) * length \in Nat /\ (i - 1) * length < total
           /\ \A i \in 1..n : i < n => i * length < total
           /\ total - (n - 1) * length \in 1..length
           /\ Len(Plan(total, length)) = n
           /\ DOMAIN Plan(total, length) = 1..n
<1> DEFINE n == PartCount(total, length)
           last == (n - 1) * length
<1>0. n \in Int /\ n * length <= total + length - 1 /\ total + length - 1 < n * length + length
  BY Z3 DEF PartCount
<1>1. n \in Nat \ {0}
  <2>1. CASE n <= 0
    <3>1. (0 - n) \in Nat
      BY <1>0, <2>1
    <3>2. (0 - n) * length \in Nat
      BY <3>1, Product
    <3>3. n * length = 0 - (0 - n) * length
      BY <1>0, Z3
    <3> QED
      BY <1>0, <3>2, <3>3
  <2> QED
    BY <1>0, <2>1
<1>2. last \in Nat /\ n * length = last + length
  <2> HIDE DEF n
  <2>1. n - 1 \in Nat
    BY <1>1
  <2>2. (n - 1) * length = n * length - length /\ n * length \in Int
    BY <1>1, Z3
  <2>3. (n - 1) * length \in Nat
    BY <2>1, Product
  <2>4. n * length = (n - 1) * length + length
    BY <2>2, <2>3
  <2> QED
    BY <2>3, <2>4
<1>3. last < total /\ total <= last + length
  BY <1>0, <1>2
<1> HIDE DEF n
<1>4. ASSUME NEW i \in 1..n
      PROVE  /\ (i - 1) * length \in Nat /\ i * length = (i - 1) * length + length
             /\ i < n => i * length <= last
             /\ i = n => (i - 1) * length = last
  <2>1. i - 1 \in Nat /\ i \in Nat
    BY <1>1
  <2>2. (i - 1) * length \in Nat
    BY <2>1, Product
  <2>3. i * length = (i - 1) * length + length
    BY <2>1, Z3
  <2>4. ASSUME i < n
        PROVE  i * length <= last
    <3>1. n - 1 - i \in Nat
      BY <2>1, <2>4, <1>1
    <3>2. (n - 1 - i) * length \in Nat
      BY <3>1, Product
    <3>3. (n - 1 - i) * length = last - i * length
      BY <1>1, <2>1, Z3
    <3> QED
      BY <3>2, <3>3, <1>2, <2>2, <2>3
  <2> QED
    BY <2>2, <2>3, <2>4
<1> HIDE DEF last
<1>5. \A i \in 1..n : Min({length, total - (i - 1) * length})
                        = IF i < n THEN length ELSE total - (i - 1) * length
  <2> SUFFICES ASSUME NEW i \in 1..n
               PROVE  Min({length, total - (i - 1) * length})
                        = IF i < n THEN length ELSE total - (i - 1) * length
    OBVIOUS
  <2> DEFINE o == (i - 1) * length
  <2>1. o \in Nat /\ (i < n => o + length <= last) /\ (i = n => o = last)
    BY <1>4
  <2> HIDE DEF o
  <2>2. Min({length, total - o}) = IF length <= total - o THEN length ELSE total - o
    BY <2>1, MinOfTwo
  <2>3. Min({length, total - o}) = IF i < n THEN length ELSE total - o
    BY <2>1, <2>2, <1>1, <1>2, <1>3
  <2> QED
    BY <2>3 DEF o
<1>6. Plan(total, length) = [i \in 1..n |->
                [offset |-> (i - 1) * length,
                 size |-> IF i < n THEN length ELSE total - (i - 1) * length]]
  <2>1. Plan(total, length) = [i \in 1..n |-> [offset |-> (i - 1) * length,
                                               size |-> Min({length, total - (i - 1) * length})]]
    BY DEF Plan, n, PartCount
  <2> QED
    BY <1>5, <2>1
<1>7. \A i \in 1..n : (i - 1) * length \in Nat /\ (i - 1) * length < total
  <2> SUFFICES ASSUME NEW i \in 1..n
               PROVE  (i - 1) * length \in Nat /\ (i - 1) * length < total
    OBVIOUS
  <2> QED
    BY <1>4, <1>3, <1>2, <1>1
<1>8. \A i \in 1..n : i < n => i * length < total
  BY <1>4, <1>3, <1>2
<1>9. total - (n - 1) * length \in 1..length
  BY <1>3, <1>2, <1>1 DEF last
<1>10. Len(Plan(total, length)) = n /\ DOMAIN Plan(total, length) = 1..n
  BY <1>6, <1>1
<1> QED
  BY <1>1, <1>6, <1>7, <1>8, <1>9, <1>10 DEF n
\* Where part i of n ends.
EndOf(i, n, total, length) == IF i < n THEN i * length ELSE total

\* What hash_parts makes of a stream: one cut of it for each range.
LEMMA PartsAre ==
    ASSUME NEW S, NEW bytes \in Seq(S), bytes # <<>>, NEW length \in Nat \ {0}
    PROVE  LET total == Len(bytes)
               n == PartCount(total, length)
               cut == PartsOf(bytes, length)
           IN
           /\ total \in Nat \ {0} /\ n \in Nat \ {0} /\ DOMAIN cut = 1..n /\ Len(cut) = n
           /\ \A i \in 1..n :
                /\ cut[i].bytes = SubSeq(bytes, (i - 1) * length + 1, EndOf(i, n, total, length))
                /\ cut[i].offset = (i - 1) * length
                /\ cut[i].size = EndOf(i, n, total, length) - (i - 1) * length
<1> DEFINE total == Len(bytes)
           n == PartCount(total, length)
           ranges == Plan(total, length)
           cut == PartsOf(bytes, length)
<1>1. total \in Nat \ {0}
  BY EmptySeq
<1> HIDE DEF total
<1>2. /\ n \in Nat \ {0}
      /\ ranges = [i \in 1..n |->
                [offset |-> (i - 1) * length,
                 size |-> IF i < n THEN length ELSE total - (i - 1) * length]]
      /\ \A i \in 1..n : (i - 1) * length \in Nat
      /\ \A i \in 1..n : i < n => i * length < total
      /\ DOMAIN ranges = 1..n
  BY <1>1, PlanIs
<1>3. cut = [i \in DOMAIN ranges |->
            [offset |-> ranges[i].offset, size |-> ranges[i].size,
             bytes  |-> Slice(bytes, ranges[i].offset, ranges[i].offset + ranges[i].size)]]
  BY DEF PartsOf, total
<1> HIDE DEF n, ranges, cut
<1>4. DOMAIN cut = 1..n /\ Len(cut) = n
  BY <1>2, <1>3
<1>5. ASSUME NEW i \in 1..n
      PROVE  /\ cut[i].bytes = SubSeq(bytes, (i - 1) * length + 1, EndOf(i, n, total, length))
             /\ cut[i].offset = (i - 1) * length
             /\ cut[i].size = EndOf(i, n, total, length) - (i - 1) * length
  <2> DEFINE o == (i - 1) * length
             e == EndOf(i, n, total, length)
  <2>1. o \in Nat /\ o + length = i * length
    <3>1. o + length = i * length
      BY <1>2, Z3
    <3> QED
      BY <3>1, <1>2
  <2>2. /\ cut[i].offset = o
        /\ cut[i].size = IF i < n THEN length ELSE total - o
        /\ cut[i].bytes = Slice(bytes, o, o + IF i < n THEN length ELSE total - o)
    BY <1>2, <1>3
  <2>3. i < n => i * length < total
    BY <1>2
  <2> HIDE DEF o
  <2>4. o + (IF i < n THEN length ELSE total - o) = e /\ e \in Nat /\ e <= total
    BY <2>1, <2>3, <1>1 DEF EndOf
  <2> HIDE DEF e
  <2>5. cut[i].size = e - o
    BY <2>1, <2>2, <2>4, <1>1
  <2>6. Min({e, total}) = e
    BY <2>4, <1>1, MinOfTwo
  <2>7. cut[i].bytes = SubSeq(bytes, o + 1, e)
    BY <2>2, <2>4, <2>6 DEF Slice, total
  <2> QED
    BY <2>2, <2>5, <2>7 DEF o, e
<1> QED
  BY <1>1, <1>2, <1>4, <1>5 DEF total, n, cut

\* A stream that is cut into parts is the parts, put one after the other.
LEMMA JoinedAgain ==
    ASSUME NEW S, NEW bytes \in Seq(S), bytes # <<>>, NEW length \in Nat \ {0},
           NEW n, n = PartCount(Len(bytes), length)
    PROVE  FlattenSeq([i \in 1..n |->
               SubSeq(bytes, (i - 1) * length + 1, EndOf(i, n, Len(bytes), length))]) = bytes
<1> DEFINE total == Len(bytes)
           part(i) == SubSeq(bytes, (i - 1) * length + 1, EndOf(i, n, total, length))
           seqs == [i \in 1..n |-> part(i)]
           g == [i \in 1..n |-> SubSeq(bytes, 1, EndOf(i, n, total, length))]
<1>1. total \in Nat \ {0}
  BY EmptySeq
<1>2. /\ n \in Nat \ {0}
      /\ \A i \in 1..n : (i - 1) * length \in Nat /\ (i - 1) * length < total
      /\ \A i \in 1..n : i < n => i * length < total
  BY <1>1, PlanIs
<1> HIDE DEF part, total
<1>3. \A i \in 1..n : seqs[i] = part(i)
  OBVIOUS
<1>4. Len(seqs) = n
  BY <1>2
<1> HIDE DEF seqs
<1>5. ASSUME NEW i \in 1..n
      PROVE  g[i] = IF i = 1 THEN seqs[i] ELSE g[i - 1] \o seqs[i]
  <2> DEFINE o == (i - 1) * length
             e == EndOf(i, n, total, length)
  <2>1. seqs[i] = SubSeq(bytes, o + 1, e) /\ g[i] = SubSeq(bytes, 1, e)
    BY <1>3 DEF part
  <2>2. o \in Nat /\ o < total
    BY <1>2
  <2>3. o <= e /\ e \in Nat /\ e <= total
    <3>1. CASE i < n
      <4>1. i * length = o + length /\ i * length < total
        <5>1. i * length = o + length
          BY Z3, <1>2
        <5> QED
          BY <5>1, <1>2, <3>1
      <4> HIDE DEF o
      <4> QED
        BY <3>1, <4>1, <2>2, <1>1 DEF EndOf
    <3>2. CASE ~(i < n)
      BY <3>2, <2>2, <1>1 DEF EndOf
    <3> QED
      BY <3>1, <3>2
  <2>4. CASE i = 1
    <3>1. o = 0
      <4>1. o = 0 * length
        BY <2>4
      <4> QED
        BY <4>1
    <3> HIDE DEF o, e, g
    <3> QED
      BY <3>1, <2>1, <2>4
  <2>5. CASE i # 1
    <3>1. i - 1 \in 1..n /\ i - 1 < n
      BY <2>5, <1>2
    <3>2. EndOf(i - 1, n, total, length) = o
      BY <3>1 DEF EndOf
    <3>3. g[i - 1] = SubSeq(bytes, 1, o)
      BY <3>1, <3>2
    <3> HIDE DEF o, e, g
    <3>4. SubSeq(bytes, 1, o) \o SubSeq(bytes, o + 1, e) = SubSeq(bytes, 1, e)
      <4>1. 1 \in 1..(total + 1) /\ o \in (1 - 1)..total /\ e \in o..total
        BY <2>2, <2>3, <1>1
      <4> QED
        BY <4>1, ConcatAdjacentSubSeq DEF total
    <3> QED
      BY <2>1, <2>5, <3>3, <3>4
  <2> QED
    BY <2>4, <2>5
<1>6. g[n] = bytes
  <2>1. g[n] = SubSeq(bytes, 1, total)
    <3>1. n \in 1..n /\ EndOf(n, n, total, length) = total
      BY <1>2 DEF EndOf
    <3> QED
      BY <3>1
  <2> QED
    BY <2>1, SubSeqFull DEF total
<1>7. g = [i \in 1..Len(seqs) |-> IF i = 1 THEN seqs[i] ELSE g[i - 1] \o seqs[i]]
  <2>1. \A i \in 1..n : g[i] = IF i = 1 THEN seqs[i] ELSE g[i - 1] \o seqs[i]
    BY <1>5
  <2>2. g = [i \in 1..n |-> g[i]]
    OBVIOUS
  <2> HIDE DEF g
  <2>3. [i \in 1..n |-> g[i]] = [i \in 1..n |-> IF i = 1 THEN seqs[i] ELSE g[i - 1] \o seqs[i]]
    BY <2>1
  <2> QED
    BY <2>2, <2>3, <1>4
<1> HIDE DEF g
<1>8. FlattenSeq(seqs) = g[Len(seqs)]
  <2>1. Len(seqs) \in Nat \ {0}
    BY <1>2, <1>4
  <2> QED
    BY <1>7, <2>1, Flattened, Zenon
<1> QED
  BY <1>8, <1>4, <1>6 DEF seqs, part, total
-----------------------------------------------------------------------------
(***************************************************************************)
(* The server: SplitArchive                                                *)
(***************************************************************************)
Text == Seq(Builds \X Nat)
RunType == [pc : {"idle", "checked", "begin", "read", "store", "stored"},
            build : Builds \cup {None}, before : Text \cup {None}, read : Text]

Typed ==
    /\ archive \in Text \cup {None}
    /\ job \in [Builds -> {"none", "running", "failed"}]
    /\ run \in [Requests -> RunType]
    /\ \A q \in Requests : run[q].pc # "idle" => run[q].build \in Builds
    /\ \A q \in Requests : run[q].pc = "read" => run[q].before \in Text

\* The job is held by the one thread that runs.
Held ==
    \A b \in Builds :
        /\ \A p, q \in Running(b) : p = q
        /\ job[b] = "running" <=> Running(b) # {}

\* What is stored was read whole.
Read ==
    /\ manifest = [b \in Builds |-> manifest[b]]
    /\ \A b \in Builds :
         manifest[b] # None => manifest[b].parts = PartsOf(Full(b), PartSize)
    /\ \A q \in Requests : run[q].pc = "store" => run[q].read = Full(run[q].build)

IInv == Typed /\ Held /\ Read

\* What is written, read and hashed are sequences of bytes.
LEMMA FullIsBytes == \A b \in Builds : Full(b) \in Text
  BY LengthAssumption DEF Full, Text

LEMMA NothingIsBytes == <<>> \in Text /\ Idle \in RunType /\ Idle.pc = "idle"
  BY DEF Idle, RunType, Text

\* The invariant of the server.
LEMMA InitInv == ServerInit => IInv
<1> SUFFICES ASSUME ServerInit PROVE IInv
  OBVIOUS
<1>1. run \in [Requests -> RunType]
  BY DEF ServerInit, Idle, RunType, Text
<1>2. archive \in Text \cup {None}
  <2>1. CASE Exported = {}
    BY <2>1 DEF ServerInit
  <2>2. CASE Exported # {}
    BY <2>2, FullIsBytes, ExportedAssumption DEF ServerInit
  <2> QED
    BY <2>1, <2>2
<1>3. Typed
  BY <1>1, <1>2 DEF ServerInit, Typed, Idle
<1>4. Held
  BY DEF ServerInit, Held, Running, Idle
<1>5. Read
  BY DEF ServerInit, Read, Idle
<1> QED
  BY <1>3, <1>4, <1>5 DEF IInv
-----------------------------------------------------------------------------
\* A thread that ends its run gives the job back.
LEMMA EndOfRun ==
    ASSUME IInv, NEW q \in Requests, NEW b \in Builds, run[q].pc \notin {"idle", "checked"},
           b = run[q].build,
           NEW outcome \in {"none", "failed"},
           job' = [job EXCEPT ![b] = outcome],
           run' = [run EXCEPT ![q] = Idle]
    PROVE  Held' /\ (archive' = archive => Typed') /\ (manifest' = manifest => Read')
<1> USE DEF IInv
<1>1. Idle \in RunType /\ Idle.pc = "idle"
  BY DEF Idle, RunType, Text
<1>2. \A p \in Requests : run'[p] = IF p = q THEN Idle ELSE run[p]
  BY DEF Typed
<1>3. /\ q \in Running(b)
      /\ \A c \in Builds : Running(c)' = Running(c) \ {q}
  BY <1>1, <1>2 DEF Running
<1>4. \A c \in Builds : c # b => q \notin Running(c)
  BY DEF Running
<1>5. Running(b)' = {}
  BY <1>3 DEF Held
<1>6. Held'
  BY <1>3, <1>4, <1>5 DEF Held, Typed
<1>7. archive' = archive => Typed'
  BY <1>1, <1>2 DEF Typed
<1>8. manifest' = manifest => Read'
  BY <1>1, <1>2 DEF Read
<1> QED
  BY <1>6, <1>7, <1>8

\* A step within a run.
LEMMA WithinRun ==
    ASSUME IInv, NEW q \in Requests, NEW r \in RunType, run' = [run EXCEPT ![q] = r],
           run[q].pc \notin {"idle", "checked"}, r.pc \notin {"idle", "checked"},
           r.build = run[q].build, UNCHANGED job
    PROVE  Held'
<1>1. \A p \in Requests : run'[p] = IF p = q THEN r ELSE run[p]
  BY DEF IInv, Typed
<1>2. \A c \in Builds : Running(c)' = Running(c)
  BY <1>1 DEF Running
<1> QED
  BY <1>2 DEF IInv, Held

\* Each step of a request or of the worker keeps it.
LEMMA StepInv == IInv /\ [Server(Requests)]_serverVars => IInv'
<1> SUFFICES ASSUME IInv, [Server(Requests)]_serverVars PROVE IInv'
  OBVIOUS
<1> USE DEF IInv
<1>1. ASSUME NEW b \in Builds, ExportStart(b) \/ ExportChunk(b) \/ ExportEnd(b) \/ Delete(b)
      PROVE  IInv'
  <2>1. UNCHANGED <<job, run, manifest>>
    BY <1>1 DEF ExportStart, ExportChunk, ExportEnd, Delete
  <2>2. archive' \in Text \cup {None}
    <3>1. CASE ExportChunk(b)
      <4>1. archive \in Text
        BY <3>1 DEF ExportChunk, Typed
      <4>2. <<b, Len(archive) + 1>> \in Builds \X Nat
        BY <4>1 DEF Text
      <4> QED
        BY <3>1, <4>1, <4>2 DEF ExportChunk, Text
    <3>2. CASE ~ExportChunk(b)
      BY <1>1, <3>2, NothingIsBytes DEF ExportStart, ExportEnd, Delete, Typed
    <3> QED
      BY <3>1, <3>2
  <2> QED
    BY <2>1, <2>2 DEF Typed, Held, Running, Read
<1>2. ASSUME NEW q \in Requests, NEW b \in Builds, Check(q, b)
      PROVE  IInv'
  <2> DEFINE r == [Idle EXCEPT !.pc = "checked", !.build = b]
  <2>1. r \in RunType /\ r.pc = "checked" /\ r.build = b
    BY NothingIsBytes DEF RunType
  <2>2. run' = [run EXCEPT ![q] = r] /\ UNCHANGED <<archive, manifest, job>> /\ run[q].pc = "idle"
    BY <1>2 DEF Check
  <2> HIDE DEF r
  <2>3. \A p \in Requests : run'[p] = IF p = q THEN r ELSE run[p]
    BY <2>2 DEF Typed
  <2>4. \A c \in Builds : Running(c)' = Running(c)
    BY <2>1, <2>2, <2>3 DEF Running
  <2> QED
    BY <2>1, <2>2, <2>3, <2>4 DEF Typed, Held, Read
<1>3. ASSUME NEW q \in Requests, TakeJob(q)
      PROVE  IInv'
  <2>b. PICK b \in Builds : b = run[q].build
    BY <1>3 DEF TakeJob, Typed
  <2>0. run[q] \in RunType /\ run[q].pc = "checked" /\ UNCHANGED <<archive, manifest>>
    BY <1>3 DEF TakeJob, Typed
  <2>1. CASE Free(b) /\ archive # None
    <3> DEFINE r == [run[q] EXCEPT !.pc = "begin"]
    <3>1. r \in RunType /\ r.pc = "begin" /\ r.build = b
      BY <2>0, <2>b DEF RunType
    <3>2. run' = [run EXCEPT ![q] = r] /\ job' = [job EXCEPT ![b] = "running"]
          /\ job[b] # "running"
      BY <1>3, <2>b, <2>1 DEF TakeJob, Free, MayTake
    <3> HIDE DEF r
    <3>3. \A p \in Requests : run'[p] = IF p = q THEN r ELSE run[p]
      BY <3>2 DEF Typed
    <3>4. Running(b) = {} /\ Running(b)' = {q}
          /\ \A c \in Builds : c # b => Running(c)' = Running(c)
      BY <2>0, <2>b, <3>1, <3>2, <3>3 DEF Held, Running
    <3>5. Held'
      BY <2>0, <2>b, <3>2, <3>4 DEF Held, Typed
    <3> QED
      BY <2>0, <2>b, <3>1, <3>2, <3>3, <3>5 DEF Typed, Read
  <2>2. CASE ~(Free(b) /\ archive # None)
    <3>1. run' = [run EXCEPT ![q] = Idle] /\ UNCHANGED job
      BY <1>3, <2>b, <2>2 DEF TakeJob
    <3>2. Idle \in RunType /\ Idle.pc = "idle"
      BY DEF Idle, RunType, Text
    <3>3. \A p \in Requests : run'[p] = IF p = q THEN Idle ELSE run[p]
      BY <3>1 DEF Typed
    <3>4. \A c \in Builds : Running(c)' = Running(c)
      BY <2>0, <2>b, <3>2, <3>3 DEF Running
    <3> QED
      BY <2>0, <2>b, <3>1, <3>2, <3>3, <3>4 DEF Typed, Held, Read
  <2> QED
    BY <2>1, <2>2
<1>4. ASSUME NEW q \in Requests, Fail(q), run[q].pc \notin {"idle", "checked"}
      PROVE  IInv'
  <2>1. run[q].build \in Builds
    BY <1>4 DEF Typed
  <2> QED
    BY <1>4, <2>1, EndOfRun DEF Fail, Failed
<1>5. ASSUME NEW q \in Requests, Begin(q) \/ HashChunk(q) \/ Compare(q)
      PROVE  IInv'
  <2>0. run[q] \in RunType /\ run[q].pc \in {"begin", "read"} /\ run[q].build \in Builds
    BY <1>5 DEF Begin, HashChunk, Compare, Typed
  <2>1. CASE Fail(q)
    BY <1>4, <2>0, <2>1
  <2>2. CASE ~Fail(q)
    <3>1. UNCHANGED <<archive, manifest, job>>
      BY <1>5, <2>2 DEF Begin, HashChunk, Compare
    <3>2. \E r \in RunType :
            /\ run' = [run EXCEPT ![q] = r]
            /\ r.build = run[q].build
            /\ r.pc \in {"read", "store"}
            /\ r.pc = "read" => r.before \in Text
            /\ r.pc = "store" => r.read = Full(run[q].build)
      <4>1. CASE Begin(q)
        <5> DEFINE r == [run[q] EXCEPT !.pc = "read", !.before = archive]
        <5>1. archive \in Text
          BY <2>2, <4>1 DEF Begin, Typed
        <5>2. /\ r \in RunType /\ r.build = run[q].build /\ r.pc = "read" /\ r.before \in Text
              /\ run' = [run EXCEPT ![q] = r]
          BY <2>0, <2>2, <4>1, <5>1 DEF Begin, RunType
        <5> HIDE DEF r
        <5> QED
          BY <5>2
      <4>2. CASE HashChunk(q)
        <5> DEFINE n == Len(run[q].read)
                   r == [run[q] EXCEPT !.read = Append(@, archive[n + 1])]
        <5>1. /\ run[q].pc = "read" /\ archive \in Text /\ run[q].before \in Text
              /\ run[q].read \in Text
              /\ ~(Len(run[q].before) - Unread(q) >= Len(archive))
          BY <2>0, <2>2, <4>2 DEF HashChunk, Typed, RunType
        <5>2. n \in Nat /\ n < Len(archive)
          BY <5>1 DEF Unread, Text
        <5>3. archive[n + 1] \in Builds \X Nat
          BY <5>1, <5>2 DEF Text
        <5>4. Append(run[q].read, archive[n + 1]) \in Text
          BY <5>1, <5>3 DEF Text
        <5>5. /\ r \in RunType /\ r.build = run[q].build /\ r.pc = "read" /\ r.before \in Text
              /\ run' = [run EXCEPT ![q] = r]
          BY <2>0, <2>2, <4>2, <5>1, <5>4 DEF HashChunk, RunType
        <5> HIDE DEF r
        <5> QED
          BY <5>5
      <4>3. CASE Compare(q)
        <5> DEFINE r == [run[q] EXCEPT !.pc = "store"]
        <5>1. /\ r \in RunType /\ r.build = run[q].build /\ r.pc = "store"
              /\ r.read = run[q].read
          BY <2>0 DEF RunType
        <5>2. run' = [run EXCEPT ![q] = r] /\ run[q].read = Full(run[q].build)
          BY <2>2, <4>3 DEF Compare
        <5> HIDE DEF r
        <5> QED
          BY <5>1, <5>2
      <4> QED
        BY <1>5, <4>1, <4>2, <4>3
    <3>3. PICK r \in RunType :
            /\ run' = [run EXCEPT ![q] = r]
            /\ r.build = run[q].build
            /\ r.pc \in {"read", "store"}
            /\ r.pc = "read" => r.before \in Text
            /\ r.pc = "store" => r.read = Full(run[q].build)
      BY <3>2
    <3>4. \A p \in Requests : run'[p] = IF p = q THEN r ELSE run[p]
      BY <3>3 DEF Typed
    <3>5. Held'
      BY <2>0, <3>1, <3>3, WithinRun
    <3>6. Typed'
      BY <2>0, <3>1, <3>3, <3>4 DEF Typed
    <3>7. Read'
      BY <3>1, <3>3, <3>4 DEF Read
    <3> QED
      BY <3>5, <3>6, <3>7
  <2> QED
    BY <2>1, <2>2
<1>6. ASSUME NEW q \in Requests, Store(q)
      PROVE  IInv'
  <2> DEFINE b == run[q].build
  <2>0. run[q] \in RunType /\ run[q].pc = "store" /\ b \in Builds
    BY <1>6 DEF Store, Typed
  <2>1. CASE status[b] # "ready"
    BY <1>4, <1>6, <2>0, <2>1 DEF Store
  <2>2. CASE status[b] = "ready"
    <3> DEFINE m == [file |-> run[q].before, parts |-> PartsOf(run[q].read, PartSize)]
               r == [run[q] EXCEPT !.pc = "stored"]
    <3>1. r \in RunType /\ r.pc = "stored" /\ r.build = b
      BY <2>0 DEF RunType
    <3>2. /\ run' = [run EXCEPT ![q] = r] /\ UNCHANGED <<archive, job>>
          /\ manifest' = [manifest EXCEPT ![b] = m]
      BY <1>6, <2>2 DEF Store
    <3>3. run[q].before \in Text \cup {None} /\ run[q].read = Full(b)
      BY <2>0 DEF RunType, Read
    <3>4. m = [file |-> run[q].before, parts |-> PartsOf(Full(b), PartSize)]
          /\ m.parts = PartsOf(Full(b), PartSize)
      BY <3>3
    <3> HIDE DEF r, m
    <3>5. \A p \in Requests : run'[p] = IF p = q THEN r ELSE run[p]
      BY <3>2 DEF Typed
    <3>6. Held'
      BY <2>0, <3>1, <3>2, WithinRun
    <3>7. Typed'
      BY <2>0, <3>1, <3>2, <3>5 DEF Typed
    <3>8. Read'
      BY <2>0, <3>1, <3>2, <3>3, <3>4, <3>5 DEF Read
    <3> QED
      BY <3>6, <3>7, <3>8
  <2> QED
    BY <2>1, <2>2
<1>7. ASSUME NEW q \in Requests, PopJob(q)
      PROVE  IInv'
  <2>1. run[q].pc = "stored" /\ run[q].build \in Builds
    BY <1>7 DEF PopJob, Typed
  <2> QED
    BY <1>7, <2>1, EndOfRun DEF PopJob
<1>8. CASE UNCHANGED serverVars
  BY <1>8 DEF serverVars, Typed, Held, Running, Read
<1> QED
  BY <1>1, <1>2, <1>3, <1>5, <1>6, <1>7, <1>8 DEF Server, Run

LEMMA Inductive == ServerSpec => []IInv
  BY InitInv, StepInv, PTL DEF ServerSpec

\* A build whose run is held has that run, and the job says so.
LEMMA AtMostOneRun == IInv => OneRunPerBuild
<1> SUFFICES ASSUME IInv, NEW b \in Builds
             PROVE  /\ Cardinality(Running(b)) <= 1
                    /\ job[b] = "running" <=> Running(b) # {}
  BY DEF OneRunPerBuild
<1>1. CASE Running(b) = {}
  BY <1>1, FS_EmptySet DEF IInv, Held
<1>2. CASE Running(b) # {}
  <2>1. PICK q : Running(b) = {q}
    BY <1>2 DEF IInv, Held
  <2>2. Cardinality({q}) = 1
    BY FS_Singleton
  <2> QED
    BY <2>1, <2>2, <1>2 DEF IInv, Held
<1> QED
  BY <1>1, <1>2

\* Two requests to split one build start one run, and the job says so for as
\* long as it lasts: with any number of requests.
THEOREM RunsAlone == ServerSpec => []OneRunPerBuild
  BY AtMostOneRun, Inductive, PTL

\* The parts of an export, put one after the other, are the export.
LEMMA ExportIsCut ==
    ASSUME NEW b \in Builds, NEW cut, cut = PartsOf(Full(b), PartSize)
    PROVE  /\ DOMAIN cut = 1..Len(cut) /\ Len(cut) = Len(Plan(Length[b], PartSize))
           /\ Len(cut) \in Nat \ {0}
           /\ FlattenSeq([i \in DOMAIN cut |-> cut[i].bytes]) = Full(b)
<1> DEFINE S == Builds \X Nat
           file == Full(b)
           n == PartCount(Len(file), PartSize)
<1>1. file \in Seq(S) /\ Len(file) = Length[b] /\ Len(file) \in Nat \ {0}
  BY LengthAssumption DEF Full
<1>2. file # <<>>
  BY <1>1
<1> HIDE DEF S, file
<1>3. /\ DOMAIN cut = 1..n /\ Len(cut) = n /\ n \in Nat \ {0}
      /\ \A i \in 1..n : cut[i].bytes = SubSeq(file, (i - 1) * PartSize + 1, EndOf(i, n, Len(file), PartSize))
  BY <1>1, <1>2, PartSizeAssumption, PartsAre DEF file
<1>4. FlattenSeq([i \in 1..n |->
         SubSeq(file, (i - 1) * PartSize + 1, EndOf(i, n, Len(file), PartSize))]) = file
  BY <1>1, <1>2, PartSizeAssumption, JoinedAgain
<1>5. [i \in DOMAIN cut |-> cut[i].bytes]
        = [i \in 1..n |->
             SubSeq(file, (i - 1) * PartSize + 1, EndOf(i, n, Len(file), PartSize))]
  BY <1>3
<1>6. Len(Plan(Length[b], PartSize)) = n
  BY <1>1, PartSizeAssumption, PlanIs
<1> QED
  BY <1>3, <1>4, <1>5, <1>6 DEF file

\* A manifest was read from the export it describes, which is still there.
LEMMA OnDisk == IInv => OfferedIsOnDisk
<1> SUFFICES ASSUME IInv, NEW b \in Builds, State(b) = "ready"
             PROVE  /\ archive = Full(b)
                    /\ FlattenSeq([i \in DOMAIN manifest[b].parts |->
                                      manifest[b].parts[i].bytes]) = archive
  BY DEF OfferedIsOnDisk
<1>1. job[b] # "running" /\ Current(b)
  BY DEF State, IInv, Typed
<1>2. archive = Full(b) /\ manifest[b] # None
  BY <1>1 DEF Current, Identity, SameTime
<1>3. manifest[b].parts = PartsOf(Full(b), PartSize)
  BY <1>2 DEF IInv, Read
<1> QED
  BY <1>2, <1>3, ExportIsCut

\* What the status offers is the archive that is on disk, which is the whole
\* export of this build, and its parts join to it without a gap: whatever else
\* was written to the path while it was read, for any length and part size.
THEOREM OfferedIsTheExport == ServerSpec => []OfferedIsOnDisk
  BY OnDisk, Inductive, PTL
-----------------------------------------------------------------------------
(***************************************************************************)
(* The user: SplitDownload                                                 *)
(***************************************************************************)
\* A finite set of numbers has a greatest one.
LEMMA GreatestNat ==
    ASSUME NEW S \in SUBSET Nat, S # {}, IsFiniteSet(S)
    PROVE  Max(S) \in S /\ \A y \in S : y <= Max(S)
<1> DEFINE Bounded(T) == \E m \in T : \A y \in T : y <= m
           Bad == {T \in SUBSET S : T # {} /\ ~Bounded(T)}
<1>1. CASE Bad = {}
  <2>1. Bounded(S)
    BY <1>1
  <2>2. PICK m \in S : \A y \in S : m >= y
    BY <2>1
  <2> QED
    BY <2>2 DEF Max
<1>2. CASE Bad # {}
  <2>1. Bad \subseteq FiniteSubsetsOf(Nat)
    <3> SUFFICES ASSUME NEW T \in Bad PROVE T \in SUBSET Nat /\ IsFiniteSet(T)
      BY DEF FiniteSubsetsOf
    <3> QED
      BY FS_Subset
  <2>2. PICK T \in Bad : \A U \in Bad : ~(<<U, T>> \in StrictSubsetOrdering(Nat))
    BY <1>2, <2>1, FS_StrictSubsetOrderingWellFounded, WFMin
  <2>3. PICK x \in T : TRUE
    OBVIOUS
  <2> DEFINE U == T \ {x}
  <2>4. U \notin Bad
    <3>1. U \in SUBSET Nat /\ T \in SUBSET Nat /\ U \subseteq T /\ U # T
      BY <2>3
    <3>2. <<U, T>> \in StrictSubsetOrdering(Nat)
      BY <3>1 DEF StrictSubsetOrdering
    <3> QED
      BY <2>2, <3>2
  <2>5. Bounded(T)
    <3>1. CASE U = {}
      BY <2>3, <3>1
    <3>2. CASE U # {}
      <4>1. PICK m \in U : \A y \in U : y <= m
        BY <2>4, <3>2
      <4>2. m \in Nat /\ x \in Nat /\ m \in T /\ x \in T
        BY <2>3, <4>1
      <4>3. CASE x <= m
        BY <4>1, <4>2, <4>3
      <4>4. CASE m <= x
        BY <4>1, <4>2, <4>4
      <4> QED
        BY <4>2, <4>3, <4>4
    <3> QED
      BY <3>1, <3>2
  <2> QED
    BY <2>5
<1> QED
  BY <1>1, <1>2

\* The numbers of parts of the builds.
LEMMA SomeParts ==
    LET S == {Len(Plan(Length[b], PartSize)) : b \in Builds}
    IN  S \in SUBSET (Nat \ {0}) /\ IsFiniteSet(S) /\ (Builds # {} => S # {})
<1> DEFINE Parted(b) == Len(Plan(Length[b], PartSize))
           S == {Parted(b) : b \in Builds}
<1>1. \A b \in Builds : Parted(b) \in Nat \ {0}
  <2> SUFFICES ASSUME NEW b \in Builds PROVE Parted(b) \in Nat \ {0}
    OBVIOUS
  <2> QED
    BY ExportIsCut
<1> HIDE DEF Parted
<1>2. IsFiniteSet(S)
  <2> DEFINE f == [b \in Builds |-> Parted(b)]
  <2>1. f \in Surjection(Builds, S)
    BY DEF Surjection
  <2> QED
    BY <2>1, BuildsAssumption, FS_Surjection
<1>3. S \in SUBSET (Nat \ {0}) /\ (Builds # {} => S # {})
  BY <1>1
<1> QED
  BY <1>2, <1>3 DEF Parted

\* No listing has more parts than the directory has room for.
LEMMA FewParts ==
    ASSUME NEW b \in Builds
    PROVE  Len(Plan(Length[b], PartSize)) \in 1..MaxParts /\ MaxParts \in Nat
<1> DEFINE S == {Len(Plan(Length[c], PartSize)) : c \in Builds}
           n == Len(Plan(Length[b], PartSize))
<1>1. n \in S /\ MaxParts = Max(S)
  BY DEF MaxParts
<1>2. S \in SUBSET (Nat \ {0}) /\ IsFiniteSet(S)
  BY SomeParts
<1> HIDE DEF S, n
<1>3. S \in SUBSET Nat /\ S # {}
  BY <1>1, <1>2
<1>4. Max(S) \in S /\ \A y \in S : y <= Max(S)
  BY <1>2, <1>3, GreatestNat
<1>5. n \in 1..MaxParts /\ MaxParts \in Nat
  <2>1. n \in Nat \ {0} /\ Max(S) \in Nat \ {0}
    BY <1>1, <1>2, <1>4
  <2>2. n <= Max(S)
    BY <1>1, <1>4
  <2> QED
    BY <1>1, <2>1, <2>2
<1> QED
  BY <1>5 DEF n

\* A listing is of one export.
ListingOf(b) == [build |-> b, file |-> Full(b), parts |-> PartsOf(Full(b), PartSize)]
Listing == listing # None => \E b \in Builds : listing = ListingOf(b)

\* Every script that reaches the host restores an export, whole or not at all.
Exports == {Full(b) : b \in Builds}
Scripts ==
    /\ torn \in {None, <<>>} \cup Exports
    /\ script \in {None} \cup Exports
    /\ restored \in {None} \cup Exports

\* What download-all.sh has behind it is there, and nobody else takes it away.
FileIn(offsets) ==
    [pc : {"idle", "file", "stream"}, n : Nat, at : offsets, end : offsets, failed : BOOLEAN]
AtFile ==
    /\ \E offsets : fetch \in FileIn(offsets)
    /\ fetch.pc # "idle" =>
         listing # None /\ fetch.n >= 1 /\ ~verified /\ joining.pc = "idle"
    /\ fetch.pc = "stream" => fetch.n \in DOMAIN listing.parts

Behind ==
    fetch.pc # "idle" /\ ~fetch.failed =>
        \A k \in DOMAIN listing.parts :
            k < fetch.n => have[k] = listing.parts[k].bytes

Room == have = [n \in 1..MaxParts |-> have[n]]

UInv == IInv /\ Listing /\ Scripts /\ AtFile /\ Behind /\ Room /\ VerifiedIsListed

\* The user has nothing yet.
LEMMA UserInit == Init => UInv
<1> SUFFICES ASSUME Init PROVE UInv
  OBVIOUS
<1>1. IInv
  BY InitInv DEF Init
<1>2. Listing /\ Scripts /\ VerifiedIsListed
  BY DEF Init, Listing, Scripts, VerifiedIsListed
<1>3. AtFile /\ Behind
  <2>1. fetch \in FileIn({0}) /\ fetch.pc = "idle"
    BY DEF Init, AtRest, FileIn
  <2> QED
    BY <2>1 DEF AtFile, Behind
<1>4. Room
  BY DEF Init, Room, Nothing
<1> QED
  BY <1>1, <1>2, <1>3, <1>4 DEF UInv

\* The parts of a listing have their places.
LEMMA ListedParts ==
    ASSUME Listing, listing # None
    PROVE  /\ listing.build \in Builds
           /\ DOMAIN listing.parts = 1..Len(listing.parts)
           /\ Len(listing.parts) \in 1..MaxParts /\ MaxParts \in Nat
<1>1. PICK b \in Builds : listing = ListingOf(b)
  BY DEF Listing
<1>2. listing.build = b /\ listing.parts = PartsOf(Full(b), PartSize)
  BY <1>1 DEF ListingOf
<1> QED
  BY <1>2, ExportIsCut, FewParts

\* A file of download-all.sh that is given up, or read further.
LEMMA FileMissed ==
    ASSUME NEW S, NEW r \in FileIn(S)
    PROVE  LET t == [r EXCEPT !.failed = TRUE]
           IN  t \in FileIn(S) /\ t.pc = r.pc /\ t.n = r.n /\ t.failed
BY DEF FileIn

LEMMA FileRead ==
    ASSUME NEW S, NEW r \in FileIn(S), NEW a
    PROVE  LET t == [r EXCEPT !.at = a]
           IN  t \in FileIn(S \cup {a}) /\ t.pc = r.pc /\ t.n = r.n /\ t.failed = r.failed
BY DEF FileIn

\* The script does no harm while it is at rest.
LEMMA AtRestIsFine ==
    ASSUME fetch' = AtRest
    PROVE  AtFile' /\ Behind'
<1>1. fetch' \in FileIn({0}) /\ fetch'.pc = "idle"
  BY DEF AtRest, FileIn
<1> QED
  BY <1>1 DEF AtFile, Behind

\* It goes on from the part it is at, which is there or was missed.
LEMMA GoesOn ==
    ASSUME AtFile, Behind, Listing, fetch.pc # "idle",
           fetch' = NextFile \/ fetch' = Missed,
           UNCHANGED <<listing, verified, joining>>,
           \A k \in DOMAIN listing.parts : k # fetch.n => have'[k] = have[k],
           fetch' # Missed /\ fetch.n \in DOMAIN listing.parts =>
               have'[fetch.n] = listing.parts[fetch.n].bytes
    PROVE  AtFile' /\ Behind'
<1>1. PICK S : fetch \in FileIn(S)
  BY DEF AtFile
<1>2. fetch.n \in Nat /\ fetch.n + 1 \in Nat
  BY <1>1 DEF FileIn
<1>3. /\ NextFile \in FileIn(S) /\ NextFile.pc = "file" /\ NextFile.n = fetch.n + 1
      /\ NextFile.failed = fetch.failed
  <2>1. NextFile = [fetch EXCEPT !.pc = "file", !.n = fetch.n + 1]
    BY DEF NextFile
  <2> DEFINE m == fetch.n + 1
             t == [fetch EXCEPT !.pc = "file", !.n = m]
  <2>2. m \in Nat
    BY <1>2
  <2> HIDE DEF m
  <2>3. t \in FileIn(S) /\ t.pc = "file" /\ t.n = m /\ t.failed = fetch.failed
    BY <1>1, <2>2 DEF FileIn
  <2>4. NextFile = t
    BY <2>1 DEF m
  <2> HIDE DEF t
  <2> QED
    BY <2>3, <2>4 DEF m
<1>4. Missed \in FileIn(S) /\ Missed.pc = "file" /\ Missed.n = fetch.n + 1 /\ Missed.failed
  BY <1>3, FileMissed DEF Missed
<1>5. AtFile'
  <2>1. fetch' \in FileIn(S) /\ fetch'.pc = "file" /\ fetch'.n = fetch.n + 1
    BY <1>3, <1>4
  <2> QED
    BY <2>1, <1>2 DEF AtFile
<1>6. CASE fetch' = Missed
  BY <1>4, <1>5, <1>6 DEF Behind
<1>7. CASE fetch' # Missed
  <2>1. fetch'.failed = fetch.failed /\ fetch'.n = fetch.n + 1
    BY <1>3, <1>7
  <2>2. \A k \in DOMAIN listing.parts : k \in Int
    BY ListedParts DEF AtFile
  <2>3. ASSUME ~fetch.failed, NEW k \in DOMAIN listing.parts, k < fetch.n + 1
        PROVE  have'[k] = listing.parts[k].bytes
    <3>1. CASE k = fetch.n
      BY <3>1, <1>7
    <3>2. CASE k # fetch.n
      <4>1. k < fetch.n
        BY <2>2, <2>3, <3>2, <1>2
      <4> QED
        BY <4>1, <2>3, <3>2 DEF Behind
    <3> QED
      BY <3>1, <3>2
  <2>4. Behind'
    BY <2>1, <2>3 DEF Behind
  <2> QED
    BY <2>4, <1>5
<1> QED
  BY <1>6, <1>7

\* Nothing that the script looks at is touched.
LEMMA Elsewhere ==
    ASSUME AtFile, Behind, UNCHANGED <<listing, have, fetch, verified>>,
           fetch.pc # "idle" => joining'.pc = "idle"
    PROVE  AtFile' /\ Behind'
BY DEF AtFile, Behind

\* The steps of the user leave the server as it is.
LEMMA ServerAlone ==
    ASSUME IInv, UNCHANGED serverVars
    PROVE  IInv'
BY StepInv

\* A step of the user that changes neither listing nor script.
LEMMA UserKeeps ==
    ASSUME UInv, UNCHANGED <<serverVars, listing, torn, script, restored>>,
           AtFile', Behind', Room', VerifiedIsListed'
    PROVE  UInv'
<1>1. IInv'
  BY ServerAlone DEF UInv
<1>2. Listing' /\ Scripts'
  BY DEF UInv, Listing, Scripts, ListingOf
<1> QED
  BY <1>1, <1>2 DEF UInv

\* Each step of the user keeps the invariant, whatever the server has.
LEMMA UserStep ==
    ASSUME UInv, User
    PROVE  UInv'
<1> USE DEF UInv
<1>0. IInv /\ Listing /\ Scripts /\ AtFile /\ Behind /\ Room /\ VerifiedIsListed
  OBVIOUS
<1>1. ASSUME NEW b \in Builds, GetListing(b)
      PROVE  UInv'
  <2>1. listing' = [build |-> b, file |-> manifest[b].file, parts |-> manifest[b].parts]
        /\ Current(b) /\ Quiet /\ verified' = FALSE
        /\ UNCHANGED <<serverVars, have, partial, script, torn, fetch, joining, restored, faults>>
    BY <1>1 DEF GetListing
  <2>2. listing' = ListingOf(b)
    BY <2>1 DEF IInv, Read, Current, ListingOf
  <2>3. Listing' /\ VerifiedIsListed'
    BY <2>1, <2>2 DEF Listing, ListingOf, VerifiedIsListed
  <2>4. Scripts' /\ Room'
    BY <2>1 DEF Scripts, Room
  <2>5. AtFile' /\ Behind'
    BY <2>1 DEF AtFile, Behind, Quiet
  <2>6. IInv'
    BY <2>1, ServerAlone
  <2> QED
    BY <2>3, <2>4, <2>5, <2>6
<1>2. CASE StartDownload
  <2>1. fetch' = [AtRest EXCEPT !.pc = "file", !.n = 1] /\ verified' = FALSE
        /\ listing # None /\ Quiet
        /\ UNCHANGED <<serverVars, listing, have, partial, script, torn, joining, restored, faults>>
    BY <1>2 DEF StartDownload
  <2>2. fetch' \in FileIn({0}) /\ fetch'.pc = "file" /\ fetch'.n = 1
    BY <2>1 DEF AtRest, FileIn
  <2>3. AtFile'
    BY <2>1, <2>2 DEF AtFile, Quiet
  <2>4. \A k \in DOMAIN listing.parts : ~(k < 1)
    BY <2>1, ListedParts
  <2>5. Behind' /\ Room' /\ VerifiedIsListed'
    BY <2>1, <2>2, <2>4 DEF Behind, Room, VerifiedIsListed
  <2> QED
    BY <2>1, <2>3, <2>5, UserKeeps
<1>3. CASE AlreadyHere
  <2>1. /\ fetch.pc = "file" /\ fetch' = NextFile
        /\ UNCHANGED <<serverVars, listing, have, partial, script, torn, verified, joining, restored,
                       faults>>
        /\ \/ fetch.n <= Len(listing.parts) /\ have[fetch.n] = listing.parts[fetch.n].bytes
           \/ fetch.n = Len(listing.parts) + 1
    BY <1>3 DEF AlreadyHere, AtPart, AtScript, Listed
  <2>2. fetch.n \in DOMAIN listing.parts => have[fetch.n] = listing.parts[fetch.n].bytes
    <3>1. listing # None
      BY <2>1 DEF AtFile
    <3>2. DOMAIN listing.parts = 1..Len(listing.parts) /\ Len(listing.parts) \in Nat
      BY <3>1, ListedParts
    <3> QED
      BY <2>1, <3>2
  <2>3. AtFile' /\ Behind'
    BY <2>1, <2>2, GoesOn
  <2>4. Room' /\ VerifiedIsListed'
    BY <2>1 DEF Room, VerifiedIsListed
  <2> QED
    BY <2>1, <2>3, <2>4, UserKeeps
<1>4. CASE OpenPart
  <2>1. /\ fetch.pc = "file" /\ fetch.n <= Len(listing.parts)
        /\ UNCHANGED <<serverVars, listing, have, script, torn, verified, joining, restored, faults>>
        /\ \E a, e : fetch' \in {Missed, [fetch EXCEPT !.pc = "stream", !.at = a, !.end = e]}
        /\ have[fetch.n] # listing.parts[fetch.n].bytes
    BY <1>4 DEF OpenPart, AtPart, Listed
  <2>0. listing # None /\ ~verified /\ joining.pc = "idle"
    BY <2>1 DEF AtFile
  <2>2. Room' /\ VerifiedIsListed'
    BY <2>1 DEF Room, VerifiedIsListed
  <2>3. CASE fetch' = Missed
    <3>1. AtFile' /\ Behind'
      BY <2>1, <2>3, GoesOn
    <3> QED
      BY <2>1, <2>2, <3>1, UserKeeps
  <2>4. ASSUME NEW a, NEW e, fetch' = [fetch EXCEPT !.pc = "stream", !.at = a, !.end = e]
        PROVE  UInv'
    <3>1. PICK S : fetch \in FileIn(S)
      BY DEF AtFile
    <3>2. fetch' \in FileIn(S \cup {a, e}) /\ fetch'.pc = "stream" /\ fetch'.n = fetch.n
          /\ fetch'.failed = fetch.failed
      BY <2>4, <3>1 DEF FileIn
    <3>3. fetch.n \in DOMAIN listing.parts
      BY <2>0, <2>1, <3>1, ListedParts DEF AtFile, FileIn
    <3>4. AtFile' /\ Behind'
      BY <2>0, <2>1, <3>2, <3>3 DEF AtFile, Behind
    <3> QED
      BY <2>1, <2>2, <3>4, UserKeeps
  <2> QED
    BY <2>1, <2>3, <2>4
<1>5. CASE StreamChunk
  <2>1. /\ fetch.pc = "stream"
        /\ UNCHANGED <<serverVars, listing, have, script, torn, verified, joining, restored, faults>>
        /\ fetch' \in {Missed, [fetch EXCEPT !.at = @ + 1]}
    BY <1>5 DEF StreamChunk
  <2>2. Room' /\ VerifiedIsListed'
    BY <2>1 DEF Room, VerifiedIsListed
  <2>3. CASE fetch' = Missed
    <3>1. AtFile' /\ Behind'
      BY <2>1, <2>3, GoesOn
    <3> QED
      BY <2>1, <2>2, <3>1, UserKeeps
  <2>4. CASE fetch' = [fetch EXCEPT !.at = @ + 1]
    <3>1. PICK S : fetch \in FileIn(S)
      BY DEF AtFile
    <3>2. fetch' \in FileIn(S \cup {fetch.at + 1}) /\ fetch'.pc = "stream" /\ fetch'.n = fetch.n
          /\ fetch'.failed = fetch.failed
      BY <2>1, <2>4, <3>1 DEF FileIn
    <3>3. AtFile' /\ Behind'
      BY <2>1, <3>2 DEF AtFile, Behind
    <3> QED
      BY <2>1, <2>2, <3>3, UserKeeps
  <2> QED
    BY <2>1, <2>3, <2>4
<1>6. CASE StreamEnd
  <2>1. /\ fetch.pc = "stream" /\ fetch.n \in DOMAIN listing.parts /\ listing # None /\ ~verified
        /\ UNCHANGED <<serverVars, listing, script, torn, verified, joining, restored, faults>>
        /\ \/ /\ have' = [have EXCEPT ![fetch.n] = partial[fetch.n]] /\ fetch' = NextFile
              /\ partial[fetch.n] = listing.parts[fetch.n].bytes
           \/ fetch' = Missed /\ have' = have
    BY <1>6 DEF StreamEnd, Accepted, SumsMatch, Listed, AtFile
  <2>2. fetch.n \in 1..MaxParts
    BY <2>1, ListedParts
  <2>3. \A k \in DOMAIN listing.parts : k \in 1..MaxParts
    BY <2>1, ListedParts
  <2>4. /\ \A k \in DOMAIN listing.parts : k # fetch.n => have'[k] = have[k]
        /\ fetch' # Missed => have'[fetch.n] = listing.parts[fetch.n].bytes
        /\ Room'
    BY <2>1, <2>2, <2>3 DEF Room
  <2>5. AtFile' /\ Behind'
    BY <2>1, <2>4, GoesOn
  <2>6. VerifiedIsListed'
    BY <2>1 DEF VerifiedIsListed
  <2> QED
    BY <2>1, <2>4, <2>5, <2>6, UserKeeps
<1>7. CASE FetchScript
  <2>1. /\ fetch.pc = "file" /\ fetch.n = Len(listing.parts) + 1 /\ listing # None
        /\ UNCHANGED <<serverVars, listing, have, partial, verified, joining, restored, faults>>
        /\ \/ fetch' = Missed /\ UNCHANGED <<script, torn>>
           \/ /\ fetch' = NextFile /\ torn' = None
              /\ \/ Current(listing.build) /\ script' = manifest[listing.build].file
                 \/ torn # <<>> /\ torn # None /\ script' = torn
    <3>1. listing # None
      BY <1>7 DEF FetchScript, AtScript, AtFile
    <3> DEFINE text == manifest[listing.build].file
               arrived == CASE ~Current(listing.build) -> None
                            [] Current(listing.build) /\ torn = None -> text
                            [] OTHER -> IF torn # <<>> /\ Count(torn) = Count(text)
                                        THEN torn ELSE None
    <3>2. IF arrived = None
          THEN fetch' = Missed /\ UNCHANGED <<script, torn>>
          ELSE fetch' = NextFile /\ script' = arrived /\ torn' = None
      BY <1>7 DEF FetchScript
    <3>3. arrived = None \/ (Current(listing.build) /\ arrived = text)
          \/ (torn # <<>> /\ torn # None /\ arrived = torn)
      OBVIOUS
    <3> HIDE DEF arrived
    <3> QED
      BY <1>7, <3>1, <3>2, <3>3 DEF FetchScript, AtScript
  <2>2. fetch.n \notin DOMAIN listing.parts
    BY <2>1, ListedParts
  <2>3. AtFile' /\ Behind'
    BY <2>1, <2>2, GoesOn
  <2>4. Scripts'
    BY <2>1, ListedParts DEF Scripts, Exports, Current
  <2>5. Room' /\ VerifiedIsListed' /\ Listing'
    BY <2>1 DEF Room, VerifiedIsListed, Listing, ListingOf
  <2>6. IInv'
    BY <2>1, ServerAlone
  <2> QED
    BY <2>3, <2>4, <2>5, <2>6
<1>8. CASE EndDownload
  <2>1. /\ fetch.pc = "file" /\ fetch.n = Len(listing.parts) + 2 /\ listing # None
        /\ verified' = ~fetch.failed /\ fetch' = AtRest
        /\ UNCHANGED <<serverVars, listing, have, partial, script, torn, joining, restored, faults>>
    BY <1>8 DEF EndDownload, AtFile
  <2>2. AtFile' /\ Behind' /\ Room'
    BY <2>1, AtRestIsFine DEF Room
  <2>3. \A k \in DOMAIN listing.parts : k < fetch.n
    BY <2>1, ListedParts
  <2>4. VerifiedIsListed'
    BY <2>1, <2>3 DEF VerifiedIsListed, Behind
  <2> QED
    BY <2>1, <2>2, <2>4, UserKeeps
<1>9. CASE Interrupt
  <2>1. /\ fetch.pc # "idle" /\ listing # None
        /\ UNCHANGED <<serverVars, listing, have, partial, script, verified, joining, restored>>
        /\ \/ fetch' = AtRest
           \/ fetch' = Missed
        /\ \/ torn' = torn
           \/ Current(listing.build) /\ torn' \in {<<>>, manifest[listing.build].file}
    BY <1>9 DEF Interrupt, AtFile
  <2>2. Scripts'
    BY <2>1, ListedParts DEF Scripts, Exports, Current
  <2>3. AtFile' /\ Behind'
    BY <2>1, AtRestIsFine, GoesOn
  <2>4. Room' /\ VerifiedIsListed' /\ Listing'
    BY <2>1 DEF Room, VerifiedIsListed, Listing, ListingOf
  <2>5. IInv'
    BY <2>1, ServerAlone
  <2> QED
    BY <2>2, <2>3, <2>4, <2>5
<1>10. ASSUME NEW n \in 1..MaxParts, Damage(n)
       PROVE  UInv'
  <2>1. /\ fetch.pc = "idle" /\ verified' = FALSE
        /\ \E bytes : have' = [have EXCEPT ![n] = bytes]
        /\ UNCHANGED <<serverVars, listing, partial, script, torn, fetch, joining, restored>>
    BY <1>10 DEF Damage
  <2>2. Room'
    BY <2>1 DEF Room
  <2>3. AtFile' /\ Behind' /\ VerifiedIsListed'
    BY <2>1 DEF AtFile, Behind, VerifiedIsListed
  <2> QED
    BY <2>1, <2>2, <2>3, UserKeeps
<1>11. CASE CheckParts \/ Join
  <2>1. fetch.pc # "idle" => FALSE
    BY <1>11 DEF CheckParts, Join, Quiet, AtFile
  <2>2. UNCHANGED <<serverVars, listing, have, partial, script, torn, fetch, verified, restored, faults>>
    BY <1>11 DEF CheckParts, Join
  <2>3. AtFile' /\ Behind' /\ Room' /\ VerifiedIsListed'
    BY <2>1, <2>2 DEF AtFile, Behind, Room, VerifiedIsListed
  <2> QED
    BY <2>2, <2>3, UserKeeps
<1>12. CASE AlreadyRestored
  <2>1. /\ fetch.pc = "idle" /\ verified' = FALSE
        /\ have' = [n \in 1..MaxParts |-> IF n \in DOMAIN Sums THEN None ELSE have[n]]
        /\ UNCHANGED <<serverVars, listing, partial, script, torn, fetch, joining, restored, faults>>
    BY <1>12 DEF AlreadyRestored, RemoveParts, Quiet
  <2>2. AtFile' /\ Behind' /\ Room' /\ VerifiedIsListed'
    BY <2>1 DEF AtFile, Behind, Room, VerifiedIsListed
  <2> QED
    BY <2>1, <2>2, UserKeeps
<1>13. ASSUME NEW remove \in BOOLEAN, Rename(remove)
       PROVE  UInv'
  <2>1. /\ fetch.pc = "idle"
        /\ UNCHANGED <<serverVars, listing, partial, script, torn, fetch, faults>>
        /\ restored' \in {restored, script}
        /\ \/ verified' = FALSE
              /\ have' = [n \in 1..MaxParts |-> IF n \in DOMAIN Sums THEN None ELSE have[n]]
           \/ UNCHANGED <<have, verified>>
    BY <1>13 DEF Rename, RemoveParts, IsOriginal, Original, AtFile
  <2>2. Scripts'
    BY <2>1 DEF Scripts
  <2>3. AtFile' /\ Behind'
    BY <2>1 DEF AtFile, Behind
  <2>4. Room'
    BY <2>1 DEF Room
  <2>5. VerifiedIsListed'
    BY <2>1 DEF VerifiedIsListed
  <2>6. Listing'
    BY <2>1 DEF Listing, ListingOf
  <2>7. IInv'
    BY <2>1, ServerAlone
  <2> QED
    BY <2>2, <2>3, <2>4, <2>5, <2>6, <2>7
<1> QED
  BY <1>1, <1>2, <1>3, <1>4, <1>5, <1>6, <1>7, <1>8, <1>9, <1>10, <1>11, <1>12, <1>13
     DEF User, Download, Assemble

\* The server and the user together.
LEMMA UserInductive == Spec => []UInv
<1>1. UInv /\ [Next]_vars => UInv'
  <2> SUFFICES ASSUME UInv, [Next]_vars PROVE UInv'
    OBVIOUS
  <2>1. CASE Server(Requests) /\ UNCHANGED userVars
    <3>1. IInv'
      BY <2>1, StepInv DEF UInv
    <3>2. Listing' /\ Scripts' /\ AtFile' /\ Behind' /\ Room' /\ VerifiedIsListed'
      BY <2>1 DEF UInv, userVars, Listing, ListingOf, Scripts, AtFile, Behind, Room, VerifiedIsListed
    <3> QED
      BY <3>1, <3>2 DEF UInv
  <2>2. CASE User
    BY <2>2, UserStep
  <2>3. CASE UNCHANGED vars
    <3>1. UNCHANGED serverVars
      BY <2>3 DEF vars, serverVars
    <3>2. Listing' /\ Scripts' /\ AtFile' /\ Behind' /\ Room' /\ VerifiedIsListed'
      BY <2>3 DEF vars, UInv, Listing, ListingOf, Scripts, AtFile, Behind, Room, VerifiedIsListed
    <3> QED
      BY <3>1, <3>2, ServerAlone DEF UInv
  <2> QED
    BY <2>1, <2>2, <2>3 DEF Next
<1> QED
  BY <1>1, UserInit, PTL DEF Spec

\* What the user has in the directory, and what is on its way to it.
UserTyped ==
    /\ status \in [Builds -> {"waiting", "exporting", "ready", "failed", "deleted"}]
    /\ have \in [1..MaxParts -> File] /\ partial \in [1..MaxParts -> File]
    /\ joining.pc \in {"idle", "checked", "joined"} /\ joining.file \in File
    /\ joining.pc # "idle" => script # None
    /\ verified \in BOOLEAN
    /\ faults \in 0..MaxFaults
    /\ IF fetch.pc = "idle" THEN fetch.n = 0 ELSE fetch.n <= Len(listing.parts) + 2
    /\ fetch.pc = "stream" => partial[fetch.n] \in Seq(Bytes) /\ fetch.at \in Nat

LEMMA TextsAreFiles == Text \subseteq File /\ None \in File /\ <<>> \in File
BY DEF Text, File, Bytes

LEMMA UserTypes ==
    ASSUME UInv, UserTyped
    PROVE  TypeOK
<1>1. archive \in File
  BY TextsAreFiles DEF UInv, IInv, Typed
<1>2. \A q \in Requests :
         /\ run[q].pc \in {"idle", "checked", "begin", "read", "store", "stored"}
         /\ run[q].build \in Builds \cup {None}
         /\ {run[q].before, run[q].read} \subseteq File
  <2>1. \A q \in Requests : run[q] \in RunType
    BY DEF UInv, IInv, Typed
  <2> QED
    BY <2>1, TextsAreFiles DEF RunType
<1>3. script \in File /\ torn \in File /\ restored \in File
  BY TextsAreFiles, FullIsBytes DEF UInv, Scripts, Exports
<1>4. /\ fetch.pc \in {"idle", "file", "stream"}
      /\ fetch.n \in IF fetch.pc = "idle" THEN {0} ELSE 1..(Len(listing.parts) + 2)
  BY DEF UInv, AtFile, FileIn, UserTyped
<1>5. job \in [Builds -> {"none", "running", "failed"}]
  BY DEF UInv, IInv, Typed
<1> QED
  BY <1>1, <1>2, <1>3, <1>4, <1>5 DEF UserTyped, TypeOK

LEMMA UserTypesStart ==
    ASSUME Init
    PROVE  UserTyped
<1>1. /\ status = [b \in Builds |-> IF b \in Exported THEN "ready" ELSE "waiting"]
      /\ have = [n \in 1..MaxParts |-> None] /\ partial = have
      /\ fetch.pc = "idle" /\ fetch.n = 0 /\ verified = FALSE /\ faults = 0
      /\ joining.pc = "idle" /\ joining.file = None
  BY DEF Init, ServerInit, Nothing, AtRest, Waiting
<1>2. have \in [1..MaxParts -> File] /\ partial \in [1..MaxParts -> File]
  BY <1>1, TextsAreFiles
<1>3. status \in [Builds -> {"waiting", "exporting", "ready", "failed", "deleted"}]
  BY <1>1
<1>4. joining.file \in File
  BY <1>1, TextsAreFiles
<1>5. faults \in 0..MaxFaults
  BY <1>1, FaultsAssumption
<1>6. verified \in BOOLEAN
  BY <1>1
<1> QED
  BY <1>1, <1>2, <1>3, <1>4, <1>5, <1>6 DEF UserTyped

\* The file after the one that download-all.sh is at.
LEMMA NextIs ==
    ASSUME AtFile, fetch' = NextFile \/ fetch' = Missed
    PROVE  fetch'.pc = "file" /\ fetch'.n = fetch.n + 1 /\ fetch.n \in Nat
<1>1. PICK S : fetch \in FileIn(S)
  BY DEF AtFile
<1>2. fetch.n \in Nat
  BY <1>1 DEF FileIn
<1>3. NextFile.pc = "file" /\ NextFile.n = fetch.n + 1
  BY <1>1, <1>2 DEF FileIn, NextFile
<1>4. Missed.pc = "file" /\ Missed.n = fetch.n + 1
  <2>1. Missed = [fetch EXCEPT !.pc = "file", !.n = fetch.n + 1, !.failed = TRUE]
    BY <1>1, <1>2 DEF FileIn, NextFile, Missed
  <2> QED
    BY <1>1, <1>2, <2>1 DEF FileIn
<1> QED
  BY <1>2, <1>3, <1>4

\* curl starts somewhere in the archive.
LEMMA OpensSomewhere ==
    ASSUME UInv, UserTyped, Current(listing.build), fetch.pc # "idle", fetch.n <= Len(listing.parts),
           NEW answer,
           answer = Ranged(Resume(fetch.n), manifest[listing.build].parts[fetch.n].size)
    PROVE  manifest[listing.build].parts[fetch.n].offset + answer.start \in Nat
<1> DEFINE b == listing.build
           n == fetch.n
           header == Resume(n)
           cut == PartsOf(Full(b), PartSize)
<1>1. listing # None /\ b \in Builds /\ n \in 1..Len(listing.parts) /\ n \in 1..MaxParts
  <2>1. listing # None /\ n >= 1 /\ \E S : fetch \in FileIn(S)
    BY DEF UInv, AtFile
  <2>2. n \in Nat
    BY <2>1 DEF FileIn
  <2> QED
    BY <2>1, <2>2, ListedParts DEF UInv
<1>2. manifest[b].parts = cut /\ listing.parts = cut
  <2>1. manifest[b].parts = cut
    BY <1>1 DEF UInv, IInv, Read, Current
  <2>2. PICK c \in Builds : listing = ListingOf(c)
    BY <1>1 DEF UInv, Listing
  <2> QED
    BY <2>1, <2>2 DEF ListingOf
<1>3. cut[n].offset \in Nat
  <2> DEFINE file == Full(b)
             S == Builds \X Nat
  <2>1. file \in Seq(S) /\ Len(file) = Length[b] /\ Len(file) \in Nat \ {0}
    BY <1>1, LengthAssumption DEF Full
  <2>2. n \in 1..Len(cut)
    BY <1>1, <1>2
  <2>3. Len(cut) = PartCount(Len(file), PartSize) /\ cut[n].offset = (n - 1) * PartSize
    <3> HIDE DEF S, n
    <3>1. file # <<>>
      BY <2>1
    <3> HIDE DEF file
    <3> QED
      BY <2>1, <2>2, <3>1, PartSizeAssumption, PartsAre DEF file
  <2>4. n - 1 \in Nat /\ PartSize \in Nat
    BY <1>1, PartSizeAssumption
  <2> HIDE DEF n
  <2> QED
    BY <2>3, <2>4, Product
<1>4. header = NoHeader \/ (header.first \in Nat /\ header.last = -1)
  <2>1. partial[n] \in File
    BY <1>1 DEF UserTyped
  <2>2. partial[n] \notin {None, <<>>} => Len(partial[n]) \in Nat
    BY <2>1 DEF File
  <2> QED
    BY <2>2 DEF Resume
<1>5. answer.start \in Nat
  <2> HIDE DEF header
  <2>1. answer = Ranged(header, manifest[b].parts[n].size)
    BY DEF header
  <2> HIDE DEF b, n
  <2>2. CASE header = NoHeader
    BY <2>1, <2>2 DEF Ranged
  <2>3. CASE header # NoHeader
    <3>1. header.first \in Nat /\ ~(header.first < 0)
      BY <1>4, <2>3
    <3>2. answer.start \in {0, header.first}
      BY <2>1, <2>3, <3>1 DEF Ranged
    <3> QED
      BY <3>1, <3>2
  <2> QED
    BY <2>2, <2>3
<1> QED
  BY <1>2, <1>3, <1>5

\* A function of files in which one is replaced.
LEMMA FilesStay ==
    ASSUME NEW f \in [1..MaxParts -> File], NEW n, NEW file \in File
    PROVE  [f EXCEPT ![n] = file] \in [1..MaxParts -> File]
OBVIOUS

\* The steps of the server.
LEMMA ServerTypes ==
    ASSUME UserTyped, [Server(Requests)]_serverVars, UNCHANGED userVars
    PROVE  UserTyped'
<1>1. status' \in [Builds -> {"waiting", "exporting", "ready", "failed", "deleted"}]
  <2>1. CASE UNCHANGED status
    BY <2>1 DEF UserTyped
  <2>2. CASE \E b \in Builds : ExportStart(b) \/ ExportEnd(b) \/ Delete(b)
    BY <2>2 DEF UserTyped, ExportStart, ExportEnd, Delete
  <2>3. CASE \/ UNCHANGED serverVars
             \/ \E b \in Builds : ExportChunk(b)
             \/ \E q \in Requests : Run(q) \/ \E b \in Builds : Check(q, b)
    <3>1. UNCHANGED status
      BY <2>3 DEF serverVars, ExportChunk, Run, Check, TakeJob, Begin, HashChunk, Compare, Store,
                  PopJob, Fail, Failed
    <3> QED
      BY <2>1, <3>1
  <2> QED
    BY <2>2, <2>3 DEF Server
<1>2. UNCHANGED <<have, partial, joining, script, verified, faults, fetch, listing>>
  BY DEF userVars
<1> QED
  BY <1>1, <1>2 DEF UserTyped

\* The steps of download-all.sh.
LEMMA DownloadTypes ==
    ASSUME UInv, UserTyped, Download \/ StartDownload
    PROVE  UserTyped'
<1>0. /\ UNCHANGED <<status, joining, faults, listing>>
      /\ have \in [1..MaxParts -> File] /\ partial \in [1..MaxParts -> File]
      /\ AtFile /\ UNCHANGED serverVars /\ verified \in BOOLEAN /\ joining.pc = "idle"
  BY DEF AtFile, AtPart, AtScript, Quiet, Download, StartDownload, AlreadyHere, OpenPart, StreamChunk, StreamEnd, FetchScript,
         EndDownload, serverVars, UserTyped, UInv
<1>1. fetch.pc # "idle" => /\ listing # None /\ fetch.n \in Nat /\ fetch.n >= 1
                           /\ Len(listing.parts) \in Nat
                           /\ DOMAIN listing.parts = 1..Len(listing.parts)
                           /\ Len(listing.parts) <= MaxParts /\ MaxParts \in Nat
  <2>1. \E S : fetch \in FileIn(S)
    BY <1>0 DEF AtFile
  <2> QED
    BY <2>1, ListedParts DEF UInv, AtFile, FileIn
<1> DEFINE Rest == /\ have' \in [1..MaxParts -> File] /\ partial' \in [1..MaxParts -> File]
                   /\ verified' \in BOOLEAN
           At == /\ IF fetch'.pc = "idle" THEN fetch'.n = 0
                    ELSE fetch'.n <= Len(listing.parts) + 2
                 /\ fetch'.pc = "stream" => partial'[fetch'.n] \in Seq(Bytes) /\ fetch'.at \in Nat
<1>2. Rest /\ At => UserTyped'
  BY <1>0 DEF UserTyped
<1>3. CASE StartDownload
  <2>1. fetch' = [AtRest EXCEPT !.pc = "file", !.n = 1] /\ verified' = FALSE /\ listing # None
        /\ UNCHANGED <<have, partial>>
    BY <1>3 DEF StartDownload
  <2>2. fetch'.pc = "file" /\ fetch'.n = 1
    BY <2>1 DEF AtRest
  <2>3. Len(listing.parts) \in Nat
    BY <2>1, ListedParts DEF UInv
  <2>4. Rest
    BY <1>0, <2>1
  <2>5. At
    BY <2>2, <2>3
  <2> QED
    BY <1>2, <2>4, <2>5
<1>4. CASE AlreadyHere \/ FetchScript
  <2>1. /\ fetch.pc = "file" /\ fetch.n <= Len(listing.parts) + 1
        /\ UNCHANGED <<have, partial, verified>> /\ (fetch' = NextFile \/ fetch' = Missed)
    <3>1. CASE AlreadyHere
      BY <1>1, <3>1 DEF AlreadyHere, AtPart, AtScript
    <3>2. CASE FetchScript
      BY <1>1, <3>2 DEF FetchScript, AtScript
    <3> QED
      BY <1>4, <3>1, <3>2
  <2>2. fetch'.pc = "file" /\ fetch'.n = fetch.n + 1 /\ fetch.n \in Nat
    BY <1>0, <2>1, NextIs
  <2> QED
    BY <1>0, <1>1, <1>2, <2>1, <2>2
<1>5. CASE OpenPart
  <2> DEFINE answer == Ranged(Resume(fetch.n), manifest[listing.build].parts[fetch.n].size)
             start == manifest[listing.build].parts[fetch.n].offset + answer.start
  <2>1. /\ fetch.pc = "file" /\ fetch.n <= Len(listing.parts)
        /\ IF ~Current(listing.build) THEN fetch' = Missed /\ UNCHANGED partial
           ELSE /\ fetch' = [fetch EXCEPT !.pc = "stream", !.at = start, !.end = start + answer.length]
                /\ partial' = IF partial[fetch.n] = None THEN [partial EXCEPT ![fetch.n] = <<>>]
                              ELSE partial
        /\ UNCHANGED <<have, verified>>
    BY <1>5 DEF OpenPart, AtPart
  <2>2. CASE ~Current(listing.build)
    <3>1. fetch'.pc = "file" /\ fetch'.n = fetch.n + 1 /\ fetch.n \in Nat
      BY <1>0, <2>1, <2>2, NextIs
    <3> QED
      BY <1>0, <1>1, <1>2, <2>1, <2>2, <3>1
  <2>3. CASE Current(listing.build)
    <3>1. start \in Nat
      BY <2>1, <2>3, OpensSomewhere
    <3> DEFINE e == start + answer.length
    <3>2. /\ fetch' = [fetch EXCEPT !.pc = "stream", !.at = start, !.end = e]
          /\ partial' = IF partial[fetch.n] = None THEN [partial EXCEPT ![fetch.n] = <<>>]
                        ELSE partial
      BY <2>1, <2>3
    <3> HIDE DEF start, e
    <3>3. fetch'.pc = "stream" /\ fetch'.n = fetch.n /\ fetch'.at = start
      BY <1>0, <3>2 DEF AtFile, FileIn
    <3>4. fetch.n \in 1..MaxParts
      BY <1>1, <2>1
    <3>5. partial' \in [1..MaxParts -> File]
      BY <1>0, <3>2, FilesStay, TextsAreFiles
    <3>6. partial'[fetch.n] \in Seq(Bytes)
      <4>1. <<>> \in Seq(Bytes) /\ (partial[fetch.n] # None => partial[fetch.n] \in Seq(Bytes))
        BY <1>0, <3>4 DEF File
      <4> QED
        BY <1>0, <3>2, <3>4, <4>1
    <3> QED
      BY <1>0, <1>1, <1>2, <2>1, <3>1, <3>3, <3>5, <3>6
  <2> QED
    BY <2>2, <2>3
<1>6. CASE StreamChunk
  <2>1. /\ fetch.pc = "stream" /\ fetch.n \in 1..MaxParts /\ fetch.n <= Len(listing.parts)
        /\ UNCHANGED <<have, verified>>
    BY <1>0, <1>1, <1>6 DEF StreamChunk, AtFile
  <2>2. CASE archive = None \/ fetch.at >= Len(archive)
    <3>1. fetch' = Missed /\ partial' = partial
      BY <1>6, <2>2 DEF StreamChunk
    <3>2. fetch'.pc = "file" /\ fetch'.n = fetch.n + 1 /\ fetch.n \in Nat
      BY <1>0, <3>1, NextIs
    <3> QED
      BY <1>0, <1>1, <1>2, <2>1, <3>1, <3>2
  <2>3. CASE ~(archive = None \/ fetch.at >= Len(archive))
    <3> DEFINE file == Append(partial[fetch.n], archive[fetch.at + 1])
    <3>1. /\ fetch' = [fetch EXCEPT !.at = fetch.at + 1]
          /\ partial' = [partial EXCEPT ![fetch.n] = file]
      BY <1>6, <2>3 DEF StreamChunk
    <3>2. partial[fetch.n] \in Seq(Bytes) /\ fetch.at \in Nat
      BY <1>0, <2>1 DEF UserTyped, File
    <3>3. archive[fetch.at + 1] \in Bytes
      <4>1. archive \in Text
        BY <2>3 DEF UInv, IInv, Typed
      <4>2. fetch.at + 1 \in 1..Len(archive)
        BY <2>3, <3>2, <4>1 DEF Text
      <4> QED
        BY <4>1, <4>2 DEF Text, Bytes
    <3>4. file \in Seq(Bytes)
      BY <3>2, <3>3
    <3>5. fetch'.pc = "stream" /\ fetch'.n = fetch.n /\ fetch'.at = fetch.at + 1
      BY <1>0, <2>1, <3>1 DEF AtFile, FileIn
    <3> HIDE DEF file
    <3>6. partial' \in [1..MaxParts -> File] /\ partial'[fetch.n] = file
      BY <1>0, <2>1, <3>1, <3>4, FilesStay DEF File
    <3> QED
      BY <1>0, <1>1, <1>2, <2>1, <3>2, <3>4, <3>5, <3>6
  <2> QED
    BY <2>2, <2>3
<1>7. CASE StreamEnd
  <2>1. /\ fetch.pc = "stream" /\ fetch.n \in 1..MaxParts /\ fetch.n <= Len(listing.parts)
        /\ partial' = [partial EXCEPT ![fetch.n] = None]
        /\ have' \in {have, [have EXCEPT ![fetch.n] = partial[fetch.n]]}
        /\ (fetch' = NextFile \/ fetch' = Missed) /\ UNCHANGED verified
    BY <1>0, <1>1, <1>7 DEF StreamEnd, AtFile
  <2>2. partial[fetch.n] \in File /\ None \in File
    BY <1>0, <2>1, TextsAreFiles
  <2>3. partial' \in [1..MaxParts -> File] /\ have' \in [1..MaxParts -> File]
    BY <1>0, <2>1, <2>2, FilesStay
  <2>4. fetch'.pc = "file" /\ fetch'.n = fetch.n + 1 /\ fetch.n \in Nat
    BY <1>0, <2>1, NextIs
  <2> QED
    BY <1>0, <1>1, <1>2, <2>1, <2>3, <2>4
<1>8. CASE EndDownload
  <2>1. fetch' = AtRest /\ verified' \in BOOLEAN /\ UNCHANGED <<have, partial>>
    BY <1>8 DEF EndDownload
  <2>2. fetch'.pc = "idle" /\ fetch'.n = 0
    BY <2>1 DEF AtRest
  <2> QED
    BY <1>0, <1>2, <2>1, <2>2
<1> QED
  BY <1>3, <1>4, <1>5, <1>6, <1>7, <1>8 DEF Download

\* What assemble-image.sh writes is bytes.
LEMMA JoinedIsFile ==
    ASSUME UInv, UserTyped, script # None, \A n \in DOMAIN Sums : have[n] # None
    PROVE  FlattenSeq([n \in DOMAIN Sums |-> have[n]]) \in File
<1>1. PICK b \in Builds : script = Full(b)
  BY DEF UInv, Scripts, Exports
<1>2. Sums = PartsOf(Full(b), PartSize)
  BY <1>1 DEF Sums
<1>3. /\ DOMAIN Sums = 1..Len(Sums) /\ Len(Sums) \in Nat
      /\ Len(Sums) <= MaxParts /\ MaxParts \in Nat
  <2>1. DOMAIN Sums = 1..Len(Sums) /\ Len(Sums) = Len(Plan(Length[b], PartSize))
    BY <1>2, ExportIsCut
  <2>2. Len(Plan(Length[b], PartSize)) \in 1..MaxParts /\ MaxParts \in Nat
    BY FewParts
  <2> QED
    BY <2>1, <2>2
<1>4. \A n \in DOMAIN Sums : have[n] \in Seq(Bytes)
  BY <1>3 DEF UserTyped, File
<1> DEFINE pieces == [n \in DOMAIN Sums |-> have[n]]
<1>5. pieces \in Seq(Seq(Bytes))
  BY <1>3, <1>4
<1> HIDE DEF pieces
<1> QED
  BY <1>5, FlattenedIsSeq DEF File, pieces

\* The steps of the rest: the listing, faults, assemble-image.sh.
LEMMA UserTypesStep ==
    ASSUME UInv, UserTyped, User
    PROVE  UserTyped'
<1>0. /\ UNCHANGED <<serverVars, status>>
      /\ have \in [1..MaxParts -> File] /\ partial \in [1..MaxParts -> File]
      /\ AtFile /\ verified \in BOOLEAN /\ faults \in 0..MaxFaults
      /\ joining.pc \in {"idle", "checked", "joined"} /\ joining.file \in File
      /\ joining.pc # "idle" => script # None
  BY DEF User, GetListing, StartDownload, Download, AlreadyHere, OpenPart, StreamChunk, StreamEnd,
         FetchScript, EndDownload, Interrupt, Damage, CheckParts, Join, AlreadyRestored, Rename,
         Assemble, serverVars, UserTyped, UInv
<1> DEFINE Rest == /\ have' \in [1..MaxParts -> File] /\ partial' \in [1..MaxParts -> File]
                   /\ joining'.pc \in {"idle", "checked", "joined"} /\ joining'.file \in File
                   /\ joining'.pc # "idle" => script' # None
                   /\ verified' \in BOOLEAN /\ faults' \in 0..MaxFaults
           At == /\ IF fetch'.pc = "idle" THEN fetch'.n = 0
                    ELSE fetch'.n <= Len(listing'.parts) + 2
                 /\ fetch'.pc = "stream" => partial'[fetch'.n] \in Seq(Bytes) /\ fetch'.at \in Nat
<1>1. Rest /\ At => UserTyped'
  BY <1>0 DEF UserTyped
<1>2. fetch.pc = "idle" /\ UNCHANGED fetch => At
  BY DEF UserTyped
<1>3. ASSUME have' = [k \in 1..MaxParts |-> IF k \in DOMAIN Sums THEN None ELSE have[k]]
      PROVE  have' \in [1..MaxParts -> File]
  BY <1>0, <1>3, TextsAreFiles
<1>4. CASE \E b \in Builds : GetListing(b)
  <2>1. fetch.pc = "idle" /\ verified' = FALSE
        /\ UNCHANGED <<have, partial, joining, script, faults, fetch>>
    BY <1>4 DEF GetListing, Quiet
  <2>2. Rest
    BY <1>0, <2>1
  <2> QED
    BY <1>1, <1>2, <2>1, <2>2
<1>5. CASE Download \/ StartDownload
  BY <1>5, DownloadTypes
<1>6. CASE Interrupt
  <2>1. /\ fetch.pc # "idle" /\ UNCHANGED <<have, partial, joining, script, verified, listing>>
        /\ \/ fetch' = AtRest
           \/ fetch.pc = "stream" /\ fetch' = Missed
        /\ faults' = faults + 1 /\ faults < MaxFaults
    BY <1>6 DEF Interrupt
  <2>2. Rest
    BY <1>0, <2>1, FaultsAssumption
  <2>3. CASE fetch' = AtRest
    <3>1. fetch'.pc = "idle" /\ fetch'.n = 0
      BY <2>3 DEF AtRest
    <3> QED
      BY <1>1, <2>2, <3>1
  <2>4. CASE fetch.pc = "stream" /\ fetch' = Missed
    <3>1. fetch'.pc = "file" /\ fetch'.n = fetch.n + 1 /\ fetch.n \in Nat
      BY <1>0, <2>4, NextIs
    <3>2. fetch.n <= Len(listing.parts) /\ Len(listing.parts) \in Nat
      BY <2>4, ListedParts DEF UInv, AtFile
    <3> QED
      BY <1>1, <2>1, <2>2, <3>1, <3>2
  <2> QED
    BY <2>1, <2>3, <2>4
<1>7. ASSUME NEW n \in 1..MaxParts, Damage(n)
      PROVE  UserTyped'
  <2>1. /\ fetch.pc = "idle" /\ verified' = FALSE /\ have[n] # None
        /\ \E bytes \in {None, [i \in DOMAIN have[n] |-> None]} : have' = [have EXCEPT ![n] = bytes]
        /\ UNCHANGED <<partial, joining, script, fetch>>
        /\ faults' = faults + 1 /\ faults < MaxFaults
    BY <1>7 DEF Damage
  <2>2. have[n] \in Seq(Bytes)
    BY <1>0, <2>1 DEF File
  <2>3. None \in File /\ [i \in DOMAIN have[n] |-> None] \in File
    BY <2>2 DEF File, Bytes
  <2>4. have' \in [1..MaxParts -> File]
    BY <1>0, <2>1, <2>3, FilesStay
  <2>5. verified' \in BOOLEAN
    BY <2>1
  <2>6. Rest
    BY <1>0, <2>1, <2>4, <2>5, FaultsAssumption
  <2> QED
    BY <1>1, <1>2, <2>1, <2>6
<1>8. CASE CheckParts \/ Join
  <2>1. UNCHANGED <<listing, have, partial, script, fetch, verified, faults>> /\ script # None
    BY <1>0, <1>8 DEF CheckParts, Join
  <2>2. fetch.pc = "idle"
    BY <1>0, <1>8 DEF CheckParts, Join, Quiet, AtFile
  <2>3. joining'.pc \in {"idle", "checked", "joined"} /\ joining'.file \in File
    <3>1. CASE joining' = [pc |-> "checked", file |-> None] \/ joining' = Waiting
      BY <3>1, TextsAreFiles DEF Waiting
    <3>2. CASE Join /\ joining' # Waiting
      <4> DEFINE joined == FlattenSeq([n \in DOMAIN Sums |-> have[n]])
      <4>1. joining' = [pc |-> "joined", file |-> joined] /\ \A n \in DOMAIN Sums : have[n] # None
        BY <3>2 DEF Join
      <4>2. joined \in File
        BY <2>1, <4>1, JoinedIsFile
      <4> HIDE DEF joined
      <4> QED
        BY <4>1, <4>2
    <3> QED
      BY <1>8, <3>1, <3>2 DEF CheckParts
  <2>4. Rest
    BY <1>0, <2>1, <2>3
  <2> QED
    BY <1>1, <1>2, <2>1, <2>2, <2>4
<1>9. CASE AlreadyRestored
  <2>1. fetch.pc = "idle" /\ verified' = FALSE
        /\ have' = [n \in 1..MaxParts |-> IF n \in DOMAIN Sums THEN None ELSE have[n]]
        /\ UNCHANGED <<partial, joining, script, faults, fetch>>
    BY <1>9 DEF AlreadyRestored, RemoveParts, Quiet
  <2>2. Rest
    BY <1>0, <1>3, <2>1
  <2> QED
    BY <1>1, <1>2, <2>1, <2>2
<1>10. ASSUME NEW remove \in BOOLEAN, Rename(remove)
       PROVE  UserTyped'
  <2>1. /\ fetch.pc = "idle" /\ joining' = Waiting /\ UNCHANGED <<partial, faults, fetch>>
        /\ \/ UNCHANGED <<have, verified>>
           \/ /\ have' = [n \in 1..MaxParts |-> IF n \in DOMAIN Sums THEN None ELSE have[n]]
              /\ verified' = FALSE
    BY <1>0, <1>10 DEF Rename, RemoveParts, AtFile
  <2>2. have' \in [1..MaxParts -> File] /\ verified' \in BOOLEAN
    BY <1>0, <1>3, <2>1
  <2>3. Rest
    BY <1>0, <2>1, <2>2, TextsAreFiles DEF Waiting
  <2> QED
    BY <1>1, <1>2, <2>1, <2>3
<1> QED
  BY <1>4, <1>5, <1>6, <1>7, <1>8, <1>9, <1>10 DEF User, Assemble

LEMMA TypesHold == Spec => []TypeOK
<1>1. UInv /\ UserTyped /\ [Next]_vars => UserTyped'
  <2>1. ASSUME UserTyped, (Server(Requests) /\ UNCHANGED userVars) \/ UNCHANGED vars
        PROVE  UserTyped'
    <3>1. [Server(Requests)]_serverVars /\ UNCHANGED userVars
      BY <2>1 DEF vars, serverVars, userVars
    <3> QED
      BY <2>1, <3>1, ServerTypes
  <2> QED
    BY <2>1, UserTypesStep DEF Next
<1>2. Init => UserTyped
  BY UserTypesStart
<1>3. UInv /\ UserTyped => TypeOK
  BY UserTypes
<1> QED
  BY <1>1, <1>2, <1>3, UserInductive, PTL DEF Spec

\* Whatever is replaced on the server, resumed from an older download, damaged
\* or interrupted: an archive that assemble-image.sh gives its name is the whole
\* export of one build.
THEOREM RestoresAnExport == Spec => []RestoredIsExported
<1>1. UInv => RestoredIsExported
  BY DEF UInv, Scripts, Exports, RestoredIsExported
<1> QED
  BY <1>1, UserInductive, PTL

\* When download-all.sh says that all is downloaded and verified, every part it
\* listed is there with the bytes it listed, until somebody takes them away.
THEOREM VerifiesItsListing == Spec => []VerifiedIsListed
<1>1. UInv => VerifiedIsListed
  BY DEF UInv
<1> QED
  BY <1>1, UserInductive, PTL
-----------------------------------------------------------------------------
(***************************************************************************)
(* The parts of a model folder: PartStream, as the scene "model"           *)
(***************************************************************************)
LEMMA SameFlatten == \A s : Stream!FlattenSeq(s) = FlattenSeq(s)
BY Zenon DEF Stream!FlattenSeq, FlattenSeq

\* The plan and the size of the layout, as PartStream names them.
LEMMA SamePlan == \A a, b : Stream!Plan(a, b) = Plan(a, b)
BY Zenon DEF Stream!Plan, Plan, Stream!Min, Min

LEMMA TarSize == \A a : Stream!LayoutSize(a) = a[Len(a)].offset + a[Len(a)].size
BY DEF Stream!LayoutSize, Stream!Last

\* Offsets are the sums of the sizes before them.
LEMMA OffsetsAdd ==
    ASSUME NEW pieces, NEW n \in Nat \ {0}, n = Len(pieces),
           \A k \in 1..n : pieces[k].size \in Nat
    PROVE  LET f == CHOOSE h : h = [k \in 1..Len(pieces) |->
                                IF k = 1 THEN 0 ELSE h[k - 1] + pieces[k - 1].size]
           IN  /\ f \in [1..n -> Nat]
               /\ \A k \in 1..n : f[k] = IF k = 1 THEN 0 ELSE f[k - 1] + pieces[k - 1].size
<1> DEFINE f == CHOOSE h : h = [k \in 1..Len(pieces) |->
                                IF k = 1 THEN 0 ELSE h[k - 1] + pieces[k - 1].size]
           Step(g, k) == IF k = 1 THEN 0 ELSE g[k - 1] + pieces[k - 1].size
           To(m) == \E g \in [1..m -> Nat] : \A i \in 1..m : g[i] = Step(g, i)
           Bad == {m \in 1..n : ~To(m)}
<1>1. CASE Bad # {}
  <2>1. Bad \subseteq Nat
    OBVIOUS
  <2> DEFINE m == CHOOSE m \in Bad : \A y \in Bad : m <= y
  <2>2. m \in Bad /\ \A y \in Bad : m <= y
    BY <1>1, <2>1, LeastNat
  <2> HIDE DEF m, Bad
  <2>3. m \in 1..n /\ ~To(m)
    BY <2>2 DEF Bad
  <2>4. CASE m = 1
    <3> DEFINE g == [i \in 1..1 |-> 0]
    <3>1. g \in [1..m -> Nat] /\ \A i \in 1..m : g[i] = Step(g, i)
      BY <2>3, <2>4
    <3> QED
      BY <2>3, <3>1
  <2>5. CASE m # 1
    <3>1. m - 1 \in 1..n /\ m - 1 \notin Bad
      BY <2>1, <2>2, <2>3, <2>5
    <3>2. PICK g \in [1..(m - 1) -> Nat] : \A i \in 1..(m - 1) : g[i] = Step(g, i)
      BY <3>1 DEF Bad
    <3> DEFINE h == [i \in 1..m |-> IF i = m THEN g[m - 1] + pieces[m - 1].size ELSE g[i]]
    <3>3. h \in [1..m -> Nat]
      <4>1. g[m - 1] \in Nat /\ pieces[m - 1].size \in Nat
        BY <2>3, <3>1
      <4>2. g[m - 1] + pieces[m - 1].size \in Nat
        BY <4>1
      <4>3. \A i \in 1..m : i # m => g[i] \in Nat
        BY <2>3
      <4> QED
        BY <4>2, <4>3
    <3>4. ASSUME NEW i \in 1..m
          PROVE  h[i] = Step(h, i)
      <4>1. CASE i = m
        <5>1. h[m - 1] = g[m - 1]
          BY <2>3, <2>5
        <5> QED
          BY <4>1, <5>1, <2>5
      <4>2. CASE i # m
        <5>1. i \in 1..(m - 1)
          BY <4>2, <2>3
        <5>2. i # 1 => h[i - 1] = g[i - 1]
          BY <5>1, <2>3
        <5> QED
          BY <3>2, <4>2, <5>1, <5>2
      <4> QED
        BY <4>1, <4>2
    <3> HIDE DEF h, Step
    <3> QED
      BY <2>3, <3>3, <3>4
  <2> QED
    BY <2>4, <2>5
<1>2. CASE Bad = {}
  <2>1. To(n)
    <3>1. n \in 1..n
      OBVIOUS
    <3> HIDE DEF To, f
    <3>2. \A m \in 1..n : To(m)
      BY <1>2, Zenon
    <3> QED
      BY <3>1, <3>2, Zenon
  <2>2. PICK g \in [1..n -> Nat] : \A i \in 1..n : g[i] = Step(g, i)
    BY <2>1
  <2> DEFINE Is(h) == h = [k \in 1..Len(pieces) |->
                                IF k = 1 THEN 0 ELSE h[k - 1] + pieces[k - 1].size]
  <2>3. Is(g)
    BY <2>2
  <2>4. f = CHOOSE h : Is(h)
    OBVIOUS
  <2>5. Is(f)
    BY <2>3, <2>4, Zenon
  <2> HIDE DEF f
  <2>6. \A k \in 1..n : f[k] = Step(f, k)
    BY <2>5
  <2>7. CASE \A k \in 1..n : f[k] = g[k]
    <3>1. f = g
      BY <2>2, <2>5, <2>7
    <3>2. f \in [1..n -> Nat] /\ \A k \in 1..n : f[k] = IF k = 1 THEN 0 ELSE f[k - 1] + pieces[k - 1].size
      BY <3>1, <2>2
    <3> QED
      BY <3>2, Zenon DEF f
  <2>8. CASE \E k \in 1..n : f[k] # g[k]
    <3> DEFINE T == {k \in 1..n : f[k] # g[k]}
    <3>1. T \subseteq Nat /\ T # {}
      BY <2>8
    <3> DEFINE m == CHOOSE m \in T : \A y \in T : m <= y
    <3>2. m \in T /\ \A y \in T : m <= y
      BY <3>1, LeastNat
    <3> HIDE DEF m
    <3>3. m \in 1..n /\ f[m] # g[m]
      BY <3>2
    <3>4. m # 1
      BY <3>3, <2>2, <2>6
    <3>5. m - 1 \in 1..n /\ m - 1 \notin T
      BY <3>2, <3>3, <3>4
    <3>6. f[m - 1] = g[m - 1]
      BY <3>5
    <3> QED
      BY <3>3, <3>4, <3>6, <2>2, <2>6
  <2> QED
    BY <2>7, <2>8
<1> QED
  BY <1>1, <1>2


SegmentType == [file : Nat, size : Nat, offset : Nat]

\* The tar of a folder has no gap and is not empty.
LEMMA LayoutFits ==
    ASSUME NEW folder \in Seq(Nat), NEW block \in Nat \ {0},
           NEW t, t = Stream!Layout(folder, block)
    PROVE  /\ t \in Seq(SegmentType) /\ Len(t) \in Nat \ {0}
           /\ t[1].offset = 0
           /\ \A k \in 1..(Len(t) - 1) : t[k + 1].offset = t[k].offset + t[k].size
           /\ t[Len(t)].size > 0
<1> DEFINE Memory(n) == [file |-> 0, size |-> n]
           PieceType == [file : Nat, size : Nat]
           Entry(f) == LET padding == (block - (folder[f] % block)) % block
                       IN  <<Memory(block), [file |-> f, size |-> folder[f]]>>
                           \o IF padding = 0 THEN <<>> ELSE <<Memory(padding)>>
           listed == [f \in 1..Len(folder) |-> Entry(f)]
           pieces == <<Memory(block)>> \o Stream!FlattenSeq(listed) \o <<Memory(2 * block)>>
           offset == CHOOSE h : h = [k \in 1..Len(pieces) |->
                                       IF k = 1 THEN 0 ELSE h[k - 1] + pieces[k - 1].size]
           n == Len(pieces)
<1>1. t = [k \in 1..n |->
             [file |-> pieces[k].file, size |-> pieces[k].size, offset |-> offset[k]]]
  BY DEF Stream!Layout
<1>2. listed \in Seq(Seq(PieceType))
  <2>1. ASSUME NEW f \in 1..Len(folder)
        PROVE  Entry(f) \in Seq(PieceType)
    <3> DEFINE padding == (block - (folder[f] % block)) % block
    <3>1. folder[f] \in Nat /\ padding \in Nat
      <4>1. folder[f] \in Nat
        OBVIOUS
      <4>2. folder[f] % block \in 0..(block - 1)
        BY <4>1
      <4>3. block - (folder[f] % block) \in Nat
        BY <4>2
      <4> QED
        BY <4>1, <4>3
    <3> HIDE DEF padding
    <3>2. Memory(block) \in PieceType /\ Memory(padding) \in PieceType
          /\ [file |-> f, size |-> folder[f]] \in PieceType
      BY <3>1
    <3>3. Entry(f) = <<Memory(block), [file |-> f, size |-> folder[f]]>>
                     \o IF padding = 0 THEN <<>> ELSE <<Memory(padding)>>
      BY DEF padding
    <3> HIDE DEF Memory, PieceType, Entry
    <3> QED
      BY <3>2, <3>3
  <2>2. Len(folder) \in Nat
    OBVIOUS
  <2> HIDE DEF Entry, PieceType
  <2> QED
    BY <2>1, <2>2
<1>3. /\ pieces \in Seq(PieceType) /\ n \in Nat \ {0}
      /\ pieces[n].size = 2 * block
  <2> DEFINE middle == Stream!FlattenSeq(listed)
  <2>1. middle \in Seq(PieceType)
    BY <1>2, SameFlatten, FlattenedIsSeq
  <2>2. Memory(block) \in PieceType /\ Memory(2 * block) \in PieceType
    OBVIOUS
  <2>3. Memory(2 * block).size = 2 * block
    OBVIOUS
  <2> HIDE DEF middle, Memory, PieceType
  <2>4. <<Memory(block)>> \o middle \in Seq(PieceType)
    BY <2>1, <2>2
  <2>5. /\ (<<Memory(block)>> \o middle) \o <<Memory(2 * block)>> \in Seq(PieceType)
        /\ Len((<<Memory(block)>> \o middle) \o <<Memory(2 * block)>>)
             = Len(<<Memory(block)>> \o middle) + 1
        /\ ((<<Memory(block)>> \o middle) \o <<Memory(2 * block)>>)
               [Len(<<Memory(block)>> \o middle) + 1] = Memory(2 * block)
    BY <2>2, <2>4
  <2>6. Len(<<Memory(block)>> \o middle) \in Nat
    BY <2>4
  <2> QED
    BY <2>3, <2>5, <2>6 DEF middle
<1> HIDE DEF pieces, n
<1>a. \A k \in 1..n : pieces[k].file \in Nat /\ pieces[k].size \in Nat
  <2> SUFFICES ASSUME NEW k \in 1..n
               PROVE  pieces[k].file \in Nat /\ pieces[k].size \in Nat
    OBVIOUS
  <2>1. pieces[k] \in PieceType
    <3> HIDE DEF PieceType
    <3> QED
      BY <1>3 DEF n
  <2> QED
    BY <2>1
<1>4. /\ offset \in [1..n -> Nat]
      /\ \A k \in 1..n : offset[k] = IF k = 1 THEN 0 ELSE offset[k - 1] + pieces[k - 1].size
  <2> QED
    BY <1>3, <1>a, OffsetsAdd DEF n
<1> HIDE DEF offset
<1>6. t \in Seq(SegmentType) /\ Len(t) = n
  BY <1>1, <1>3, <1>4, <1>a DEF SegmentType
<1>7. \A k \in 1..n : t[k].offset = offset[k] /\ t[k].size = pieces[k].size
  BY <1>1
<1>8. \A k \in 1..(n - 1) : t[k + 1].offset = t[k].offset + t[k].size
  <2> SUFFICES ASSUME NEW k \in 1..(n - 1)
               PROVE  t[k + 1].offset = t[k].offset + t[k].size
    OBVIOUS
  <2>1. k \in 1..n /\ k + 1 \in 1..n /\ k + 1 # 1 /\ (k + 1) - 1 = k
    BY <1>3
  <2> QED
    BY <2>1, <1>4, <1>7
<1>9. t[1].offset = 0 /\ t[n].size > 0
  <2>1. 1 \in 1..n /\ n \in 1..n
    BY <1>3
  <2>2. 2 * block > 0
    OBVIOUS
  <2> QED
    BY <1>3, <1>4, <1>7, <2>1, <2>2
<1> QED
  BY <1>3, <1>6, <1>8, <1>9
-----------------------------------------------------------------------------
(***************************************************************************)
(* The parts of a model folder: PartStream                                 *)
(***************************************************************************)
\* Where segment k begins; behind the last one the tar ends.
Offset(k) == IF k <= Len(tar) THEN tar[k].offset ELSE Stream!Total

\* The tar: segments without gaps, from 0 to its size.
TarInv ==
    /\ tar \in Seq(SegmentType) /\ Len(tar) \in Nat \ {0}
    /\ size \in Nat \ {0}
    /\ Offset(1) = 0
    /\ \A k \in 1..Len(tar) : Offset(k + 1) = tar[k].offset + tar[k].size
    /\ Stream!Total \in Nat \ {0}

\* Up to where the reader has read.
Position ==
    reader.given + IF Offset(reader.at) <= reader.offset THEN reader.offset
                   ELSE IF Offset(reader.at) <= reader.end THEN Offset(reader.at) ELSE reader.end

ReaderType == [offset : Nat, end : Nat, at : Nat \ {0}, given : Nat]

\* What is given of a segment is of one that the range meets, and not all of it.
ReaderInv ==
    /\ reader \in ReaderType
    /\ reader.offset <= reader.end /\ reader.end <= Stream!Total
    /\ reader.at <= Len(tar) + 1
    /\ reader.given > 0 =>
         /\ reader.at <= Len(tar) /\ ~Stream!PassedOver /\ Stream!Here.offset < reader.end
         /\ Position < Stream!To

\* Min and Max of two, as PartStream names them.
LEMMA MinIs == \A a, b \in Int : Stream!Min({a, b}) = IF a <= b THEN a ELSE b
BY DEF Stream!Min

LEMMA MaxIs == \A a, b \in Int : Stream!Max({a, b}) = IF a >= b THEN a ELSE b
BY DEF Stream!Max

\* The segment the reader is at.
LEMMA SegmentIs ==
    ASSUME TarInv, ReaderInv, reader.at <= Len(tar)
    PROVE  /\ Stream!Here \in SegmentType
           /\ Offset(reader.at) = Stream!Here.offset
           /\ Offset(reader.at + 1) = Stream!Here.offset + Stream!Here.size
           /\ reader.at \in 1..Len(tar)
<1>1. reader.at \in 1..Len(tar)
  BY DEF ReaderInv, ReaderType, TarInv
<1>2. tar[reader.at] \in SegmentType
  BY <1>1 DEF TarInv
<1> QED
  BY <1>1, <1>2 DEF TarInv, Offset, Stream!Here

\* A segment that is passed over moves the reader, and reads nothing.
LEMMA SkipReads ==
    ASSUME TarInv, ReaderInv, Stream!Skip, UNCHANGED tar
    PROVE  /\ ReaderInv' /\ Position' = Position
           /\ reader'.offset = reader.offset /\ reader'.end = reader.end
<1>1. reader.at <= Len(tar) /\ Stream!PassedOver
  BY DEF Stream!Skip, Stream!Exhausted, ReaderInv, ReaderType, TarInv
<1>2. reader.given = 0
  BY <1>1 DEF ReaderInv, ReaderType
<1>3. reader' = [reader EXCEPT !.at = reader.at + 1]
  BY DEF Stream!Skip
<1>4. /\ reader' \in ReaderType /\ reader'.at = reader.at + 1 /\ reader'.given = 0
      /\ reader'.offset = reader.offset /\ reader'.end = reader.end
  BY <1>2, <1>3 DEF ReaderInv, ReaderType
<1>5. Offset(reader.at)' = Offset(reader'.at) /\ Stream!Total' = Stream!Total
  BY DEF Offset, Stream!Total
<1>6. ReaderInv'
  BY <1>1, <1>4, <1>5, SegmentIs DEF ReaderInv
<1>7. Position' = Position
  <2>1. Stream!Here.offset + Stream!Here.size <= reader.offset \/ Stream!Here.size = 0
    BY <1>1 DEF Stream!PassedOver
  <2>2. Offset(reader'.at) = Offset(reader.at) + Stream!Here.size
        /\ Offset(reader.at) \in Nat /\ Stream!Here.size \in Nat
    BY <1>1, <1>4, SegmentIs DEF SegmentType
  <2> QED
    BY <1>1, <1>2, <1>4, <1>5, <2>1, <2>2, SegmentIs DEF Position, ReaderInv, ReaderType
<1> QED
  BY <1>4, <1>6, <1>7

\* Where a chunk of the segment begins and ends.
LEMMA ChunkFits ==
    ASSUME TarInv, ReaderInv, ~Stream!Exhausted, ~Stream!PassedOver
    PROVE  /\ reader.at \in 1..Len(tar)
           /\ Stream!From = Position /\ Position \in Nat
           /\ Stream!ChunkEnd \in Nat /\ Position <= Stream!ChunkEnd
           /\ Stream!ChunkEnd <= Stream!To
           /\ Stream!ChunkEnd # Stream!To => Position < Stream!ChunkEnd
           /\ Stream!To <= reader.end /\ Stream!To \in Nat
           /\ Stream!To = IF reader.end <= Offset(reader.at + 1) THEN reader.end
                          ELSE Offset(reader.at + 1)
           /\ reader.offset <= Position /\ reader.offset < Offset(reader.at + 1)
           /\ Stream!Here.offset < reader.end
<1>1. reader.at <= Len(tar) /\ Stream!Here.offset < reader.end
  <2>1. reader.at <= Len(tar)
    BY DEF Stream!Exhausted, ReaderInv, ReaderType, TarInv
  <2>2. Stream!Here.offset \in Nat /\ reader.end \in Nat
    BY <2>1, SegmentIs DEF SegmentType, ReaderInv, ReaderType
  <2> QED
    BY <2>1, <2>2 DEF Stream!Exhausted
<1>2. /\ Stream!Here \in SegmentType
      /\ Offset(reader.at) = Stream!Here.offset
      /\ Offset(reader.at + 1) = Stream!Here.offset + Stream!Here.size
      /\ reader.at \in 1..Len(tar)
  BY <1>1, SegmentIs
<1> DEFINE o == Stream!Here.offset
           z == Stream!Here.size
           lo == reader.offset
           hi == reader.end
           g == reader.given
<1>3. /\ o \in Nat /\ z \in Nat /\ lo \in Nat /\ hi \in Nat /\ g \in Nat /\ lo <= hi
      /\ o < hi /\ lo < o + z /\ z # 0
  BY <1>1, <1>2 DEF SegmentType, ReaderInv, ReaderType, Stream!PassedOver
<1>4. Stream!SegmentEnd = o + z /\ Stream!To = Stream!Min({hi, o + z})
      /\ Stream!From = Stream!Max({lo, o}) + g
  BY DEF Stream!To, Stream!WithinRange, Stream!SegmentEnd, Stream!From
<1>5. Position = g + IF o <= lo THEN lo ELSE IF o <= hi THEN o ELSE hi
  BY <1>2 DEF Position
<1>6. g > 0 => Position < Stream!To
  BY DEF ReaderInv
<1>7. Stream!ChunkEnd = IF Stream!Here.file = 0 THEN Stream!To
                        ELSE Stream!Min({Stream!To, Stream!From + ReadChunk})
  BY DEF Stream!ChunkEnd
<1> HIDE DEF o, z, lo, hi, g
<1>8. Stream!To = IF hi <= o + z THEN hi ELSE o + z
  BY <1>3, <1>4, MinIs
<1>9. Stream!From = Position /\ Position \in Nat /\ lo <= Position
  BY <1>3, <1>4, <1>5, MaxIs
<1>10. Stream!To \in Nat /\ Position <= Stream!To /\ Stream!To <= hi
  BY <1>3, <1>5, <1>6, <1>8
<1>11. \/ Stream!ChunkEnd = Stream!To
       \/ /\ Stream!ChunkEnd = Position + ReadChunk
          /\ Stream!ChunkEnd <= Stream!To
  BY <1>7, <1>9, <1>10, MinIs, StreamAssumption
<1>12. /\ Stream!ChunkEnd \in Nat /\ Position <= Stream!ChunkEnd
       /\ Stream!ChunkEnd <= Stream!To
       /\ Stream!ChunkEnd # Stream!To => Position < Stream!ChunkEnd
  BY <1>9, <1>10, <1>11, StreamAssumption
<1> QED
  BY <1>1, <1>2, <1>3, <1>8, <1>9, <1>10, <1>12 DEF o, z, lo, hi

\* A chunk that is yielded is read, up to its end.
LEMMA ChunkReads ==
    ASSUME TarInv, ReaderInv, ~Stream!Exhausted, ~Stream!PassedOver, Stream!Advance,
           UNCHANGED tar
    PROVE  /\ ReaderInv' /\ Position' = Stream!ChunkEnd
           /\ reader'.offset = reader.offset /\ reader'.end = reader.end
<1>1. /\ reader.at \in 1..Len(tar)
      /\ Stream!From = Position /\ Position \in Nat
      /\ Stream!ChunkEnd \in Nat /\ Position <= Stream!ChunkEnd
      /\ Stream!ChunkEnd <= Stream!To
      /\ Stream!ChunkEnd # Stream!To => Position < Stream!ChunkEnd
      /\ Stream!To <= reader.end /\ Stream!To \in Nat
      /\ Stream!To = IF reader.end <= Offset(reader.at + 1) THEN reader.end
                     ELSE Offset(reader.at + 1)
      /\ reader.offset <= Position /\ reader.offset < Offset(reader.at + 1)
      /\ Stream!Here.offset < reader.end
  BY ChunkFits
<1>2. /\ Stream!Here \in SegmentType
      /\ Offset(reader.at) = Stream!Here.offset
      /\ Offset(reader.at + 1) = Stream!Here.offset + Stream!Here.size
  BY <1>1, SegmentIs DEF ReaderInv, ReaderType, TarInv
<1>3. reader \in ReaderType /\ reader.offset <= reader.end /\ reader.end <= Stream!Total
  BY DEF ReaderInv
<1>4. \A k : Offset(k)' = Offset(k)
  BY DEF Offset, Stream!Total
<1>5. Stream!Total' = Stream!Total
  BY DEF Stream!Total
<1>6. CASE Stream!ChunkEnd = Stream!To
  <2>1. reader' = [reader EXCEPT !.at = reader.at + 1, !.given = 0]
    BY <1>6 DEF Stream!Advance
  <2>2. /\ reader' \in ReaderType /\ reader'.at = reader.at + 1 /\ reader'.given = 0
        /\ reader'.offset = reader.offset /\ reader'.end = reader.end
    <3>1. reader.at \in Nat \ {0} /\ reader.at + 1 \in Nat \ {0}
      BY <1>3 DEF ReaderType
    <3> DEFINE a == reader.at + 1
    <3>2. reader' = [reader EXCEPT !.at = a, !.given = 0] /\ a \in Nat \ {0} /\ 0 \in Nat
      BY <2>1, <3>1
    <3> HIDE DEF a
    <3>3. /\ reader' \in ReaderType /\ reader'.at = a /\ reader'.given = 0
          /\ reader'.offset = reader.offset /\ reader'.end = reader.end
      BY <1>3, <3>2 DEF ReaderType
    <3> QED
      BY <3>3 DEF a
  <2>3. ReaderInv'
    BY <1>1, <1>3, <1>5, <2>2 DEF ReaderInv, TarInv
  <2>4. Position' = reader'.given +
          IF Offset(reader'.at) <= reader'.offset THEN reader'.offset
          ELSE IF Offset(reader'.at) <= reader'.end THEN Offset(reader'.at) ELSE reader'.end
    BY DEF Position, Offset, Stream!Total
  <2>5. Offset(reader.at + 1) \in Nat /\ reader.offset \in Nat /\ reader.end \in Nat
    BY <1>2, <1>3 DEF SegmentType, ReaderType
  <2>6. Position' = Stream!To
    BY <1>1, <2>2, <2>4, <2>5
  <2> QED
    BY <2>2, <2>3, <2>6, <1>6
<1>7. CASE Stream!ChunkEnd # Stream!To
  <2> DEFINE more == reader.given + (Stream!ChunkEnd - Position)
  <2>1. reader' = [reader EXCEPT !.given = reader.given + Stream!ChunkEnd - Position]
    BY <1>1, <1>7 DEF Stream!Advance
  <2>2. more \in Nat /\ more > 0 /\ more = reader.given + Stream!ChunkEnd - Position
    BY <1>1, <1>3, <1>7 DEF ReaderType
  <2> HIDE DEF more
  <2>3. /\ reader' \in ReaderType /\ reader'.at = reader.at /\ reader'.given = more
        /\ reader'.offset = reader.offset /\ reader'.end = reader.end
    BY <1>3, <2>1, <2>2 DEF ReaderType
  <2>4. Position' = reader'.given +
          IF Offset(reader'.at) <= reader'.offset THEN reader'.offset
          ELSE IF Offset(reader'.at) <= reader'.end THEN Offset(reader'.at) ELSE reader'.end
    BY DEF Position, Offset, Stream!Total
  <2>5. Position' = Stream!ChunkEnd
    <3> DEFINE base == IF Offset(reader.at) <= reader.offset THEN reader.offset
                       ELSE IF Offset(reader.at) <= reader.end THEN Offset(reader.at) ELSE reader.end
    <3>1. Position = reader.given + base
      BY DEF Position
    <3>2. Position' = more + base
      BY <1>4, <2>3, <2>4
    <3>3. base \in Nat /\ reader.given \in Nat
      BY <1>2, <1>3 DEF ReaderType, SegmentType
    <3> HIDE DEF base
    <3>4. Stream!ChunkEnd \in Nat /\ Position \in Nat
      BY <1>1
    <3> QED
      BY <2>2, <3>1, <3>2, <3>3, <3>4
  <2>6. Stream!Here' = Stream!Here /\ Stream!To' = Stream!To
        /\ Stream!PassedOver' = Stream!PassedOver
    BY <2>3 DEF Stream!Here, Stream!To, Stream!WithinRange, Stream!SegmentEnd, Stream!PassedOver
  <2>7. ReaderInv'
    BY <1>1, <1>3, <1>5, <1>7, <2>2, <2>3, <2>5, <2>6 DEF ReaderInv, TarInv
  <2> QED
    BY <2>3, <2>5, <2>7
<1> QED
  BY <1>6, <1>7

\* The reader stays within its range.
LEMMA PositionIn ==
    ASSUME TarInv, ReaderInv
    PROVE  Position \in Nat /\ reader.offset <= Position /\ Position <= reader.end
<1>1. /\ reader.offset \in Nat /\ reader.end \in Nat /\ reader.given \in Nat
      /\ reader.offset <= reader.end
  BY DEF ReaderInv, ReaderType
<1>2. reader.at <= Len(tar) \/ reader.at = Len(tar) + 1
  BY DEF ReaderInv, ReaderType, TarInv
<1>3. CASE reader.at <= Len(tar)
  <2>1. Offset(reader.at) \in Nat /\ Stream!Here.size \in Nat
        /\ Offset(reader.at) = Stream!Here.offset
    BY <1>3, SegmentIs DEF SegmentType
  <2>2. CASE reader.given = 0
    BY <1>1, <2>1, <2>2 DEF Position
  <2>3. CASE reader.given > 0
    <3>1. Position < Stream!To
      BY <2>3 DEF ReaderInv
    <3>2. Stream!To = Stream!Min({reader.end, Stream!Here.offset + Stream!Here.size})
      BY DEF Stream!To, Stream!WithinRange, Stream!SegmentEnd
    <3>3. Stream!To <= reader.end /\ Stream!To \in Nat
      BY <1>1, <2>1, <3>2, MinIs
    <3>4. Position \in Nat /\ reader.offset <= Position
      BY <1>1, <2>1 DEF Position
    <3> QED
      BY <1>1, <3>1, <3>3, <3>4
  <2> QED
    BY <1>1, <2>2, <2>3
<1>4. CASE reader.at = Len(tar) + 1
  <2>1. reader.given = 0 /\ Offset(reader.at) = Stream!Total /\ Stream!Total \in Nat
    BY <1>1, <1>4 DEF ReaderInv, TarInv, Offset
  <2> QED
    BY <1>1, <2>1 DEF Position
<1> QED
  BY <1>2, <1>3, <1>4

\* A reader that has nothing left has read its range.
LEMMA ReadsAll ==
    ASSUME TarInv, ReaderInv, Stream!Exhausted
    PROVE  Position = reader.end /\ reader.given = 0
<1>1. reader \in ReaderType /\ reader.offset <= reader.end /\ reader.end <= Stream!Total
  BY DEF ReaderInv
<1>2. CASE reader.at > Len(tar)
  <2>1. reader.given = 0
    BY <1>1, <1>2 DEF ReaderInv, ReaderType, TarInv
  <2>2. Offset(reader.at) = Stream!Total
    BY <1>1, <1>2 DEF Offset, ReaderType, TarInv
  <2> QED
    BY <1>1, <2>1, <2>2 DEF Position, ReaderType, TarInv
<1>3. CASE ~(reader.at > Len(tar))
  <2>1. Stream!Here \in SegmentType /\ Offset(reader.at) = Stream!Here.offset
    BY <1>1, <1>3, SegmentIs DEF ReaderType, TarInv
  <2>2. Stream!Here.offset >= reader.end
    BY <1>3 DEF Stream!Exhausted
  <2>3. reader.given = 0
    BY <1>1, <2>1, <2>2 DEF ReaderInv, ReaderType, SegmentType
  <2> QED
    BY <1>1, <2>1, <2>2, <2>3 DEF Position, ReaderType, SegmentType
<1> QED
  BY <1>2, <1>3
-----------------------------------------------------------------------------
\* The bytes of the tar from a on.
Span(a, n) == [i \in 1..n |-> a + i - 1]

\* A span is a sequence of n bytes that follow each other.
LEMMA SpanIs ==
    ASSUME NEW a \in Int, NEW n \in Nat
    PROVE  /\ Span(a, n) \in Seq(Int) /\ Len(Span(a, n)) = n /\ DOMAIN Span(a, n) = 1..n
           /\ \A i \in 1..n : Span(a, n)[i] = a + i - 1
           /\ Span(a, n) = <<>> <=> n = 0
BY DEF Span

\* No bytes.
LEMMA SpanEmpty == \A a : Span(a, 0) = <<>> /\ Len(<<>>) = 0
BY DEF Span

\* A span and the one after it are a longer span.
LEMMA SpanJoined ==
    ASSUME NEW a \in Int, NEW n \in Nat, NEW m \in Nat
    PROVE  Span(a, n) \o Span(a + n, m) = Span(a, n + m)
<1> a + n \in Int /\ n + m \in Nat
  OBVIOUS
<1>a. /\ Span(a, n) \in Seq(Int) /\ Len(Span(a, n)) = n
      /\ \A i \in 1..n : Span(a, n)[i] = a + i - 1
  BY SpanIs
<1>b. /\ Span(a + n, m) \in Seq(Int) /\ Len(Span(a + n, m)) = m
      /\ \A i \in 1..m : Span(a + n, m)[i] = (a + n) + i - 1
  BY SpanIs
<1>c. /\ Span(a, n + m) \in Seq(Int) /\ Len(Span(a, n + m)) = n + m
      /\ \A i \in 1..(n + m) : Span(a, n + m)[i] = a + i - 1
  BY SpanIs
<1>1. /\ Span(a, n) \in Seq(Int) /\ Len(Span(a, n)) = n
      /\ Span(a + n, m) \in Seq(Int) /\ Len(Span(a + n, m)) = m
      /\ Span(a, n + m) \in Seq(Int) /\ Len(Span(a, n + m)) = n + m
  BY <1>a, <1>b, <1>c
<1>2. /\ \A i \in 1..n : Span(a, n)[i] = a + i - 1
      /\ \A i \in 1..m : Span(a + n, m)[i] = (a + n) + i - 1
      /\ \A i \in 1..(n + m) : Span(a, n + m)[i] = a + i - 1
  BY <1>a, <1>b, <1>c
<1> DEFINE joined == Span(a, n) \o Span(a + n, m)
<1>3. /\ joined \in Seq(Int) /\ Len(joined) = n + m
      /\ \A i \in 1..(n + m) : joined[i] = IF i <= n THEN Span(a, n)[i] ELSE Span(a + n, m)[i - n]
  <2> DEFINE s == Span(a, n)
             r == Span(a + n, m)
  <2>1. s \in Seq(Int) /\ Len(s) = n /\ r \in Seq(Int) /\ Len(r) = m
    BY <1>1
  <2> HIDE DEF s, r
  <2>2. /\ s \o r \in Seq(Int) /\ Len(s \o r) = Len(s) + Len(r)
        /\ \A i \in 1..(Len(s) + Len(r)) :
             (s \o r)[i] = IF i <= Len(s) THEN s[i] ELSE r[i - Len(s)]
    BY <2>1, ConcatProperties
  <2> QED
    BY <2>1, <2>2 DEF s, r
<1>4. ASSUME NEW i \in 1..(n + m)
      PROVE  joined[i] = Span(a, n + m)[i]
  <2>1. CASE i <= n
    BY <1>2, <1>3, <2>1
  <2>2. CASE ~(i <= n)
    <3>1. i - n \in 1..m
      BY <2>2
    <3> QED
      BY <1>2, <1>3, <2>2, <3>1
  <2> QED
    BY <2>1, <2>2
<1> HIDE DEF joined
<1>5. joined = Span(a, n + m)
  BY <1>1, <1>3, <1>4, SeqEqual
<1> QED
  BY <1>5 DEF joined

\* What is cut out of a span is a span.
LEMMA SpanCut ==
    ASSUME NEW a \in Int, NEW n \in Nat, NEW o \in 0..n, NEW e \in o..n
    PROVE  SubSeq(Span(a, n), o + 1, e) = Span(a + o, e - o)
<1> DEFINE s == Span(a, n)
           cut == SubSeq(s, o + 1, e)
<1>1. s \in Seq(Int) /\ Len(s) = n /\ \A i \in 1..n : s[i] = a + i - 1
  BY SpanIs
<1>2. \A i \in (o + 1)..e : s[i] \in Int
  BY <1>1
<1> HIDE DEF s
<1>3. /\ cut \in Seq(Int) /\ Len(cut) = e - o
      /\ \A i \in 1..(e - o) : cut[i] = s[o + i]
  <2>1. /\ SubSeq(s, o + 1, e) \in Seq(Int)
        /\ Len(SubSeq(s, o + 1, e)) = IF o + 1 <= e THEN e - (o + 1) + 1 ELSE 0
        /\ \A i \in 1..(e - (o + 1) + 1) : SubSeq(s, o + 1, e)[i] = s[(o + 1) + i - 1]
    BY <1>2, SubSeqProperties
  <2> QED
    BY <2>1
<1> HIDE DEF cut
<1>4. /\ Span(a + o, e - o) \in Seq(Int) /\ Len(Span(a + o, e - o)) = e - o
      /\ \A i \in 1..(e - o) : Span(a + o, e - o)[i] = a + o + i - 1
  <2>1. a + o \in Int /\ e - o \in Nat
    OBVIOUS
  <2> QED
    BY <2>1, SpanIs
<1>5. \A i \in 1..(e - o) : cut[i] = Span(a + o, e - o)[i]
  BY <1>1, <1>3, <1>4
<1>6. cut = Span(a + o, e - o)
  BY <1>3, <1>4, <1>5, SeqEqual
<1> QED
  BY <1>6 DEF cut, s

\* The bytes that fit into a part, and the rest of the chunk.
LEMMA SpanSliced ==
    ASSUME NEW a \in Int, NEW n \in Nat, NEW k \in 0..n
    PROVE  /\ Stream!Slice(Span(a, n), 0, k) = Span(a, k)
           /\ Stream!Slice(Span(a, n), k, n) = Span(a + k, n - k)
           /\ k = n => Stream!Slice(Span(a, n), k, Len(Span(a, n))) = <<>>
<1>1. Len(Span(a, n)) = n
  BY SpanIs
<1>2. Stream!Min({k, n}) = k /\ Stream!Min({n, n}) = n
  BY MinIs
<1>3. /\ Stream!Slice(Span(a, n), 0, k) = SubSeq(Span(a, n), 0 + 1, k)
      /\ Stream!Slice(Span(a, n), k, n) = SubSeq(Span(a, n), k + 1, n)
  BY <1>1, <1>2 DEF Stream!Slice
<1>4. SubSeq(Span(a, n), 0 + 1, k) = Span(a + 0, k - 0)
  <2>1. 0 \in 0..n /\ k \in 0..n
    OBVIOUS
  <2> QED
    BY <2>1, SpanCut
<1>5. SubSeq(Span(a, n), k + 1, n) = Span(a + k, n - k)
  <2>1. n \in k..n
    OBVIOUS
  <2> QED
    BY <2>1, SpanCut
<1>6. a + 0 = a /\ k - 0 = k
  OBVIOUS
<1>7. n - n = 0 /\ Span(a + n, 0) = <<>>
  BY SpanIs
<1> QED
  BY <1>1, <1>3, <1>4, <1>5, <1>6, <1>7
-----------------------------------------------------------------------------
NumberOfParts == PartCount(Stream!Total, size)
Base(i) == (i - 1) * size
SizeOf(i) == EndOf(i, NumberOfParts, Stream!Total, size) - Base(i)
PartAt(i) == [offset |-> Base(i), size |-> SizeOf(i), bytes |-> Span(Base(i), SizeOf(i))]

\* The ranges of hash_parts: they follow each other up to the end of the tar.
LEMMA RangesAre ==
    ASSUME TarInv
    PROVE  /\ NumberOfParts \in Nat \ {0}
           /\ Len(Stream!Ranges) = NumberOfParts
           /\ \A i \in 1..NumberOfParts :
                /\ Stream!Ranges[i].offset = Base(i) /\ Stream!Ranges[i].size = SizeOf(i)
                /\ Base(i) \in Nat /\ SizeOf(i) \in 1..size
                /\ i < NumberOfParts =>
                     SizeOf(i) = size /\ Base(i + 1) = Base(i) + size /\ Base(i + 1) < Stream!Total
                /\ i = NumberOfParts => Base(i) + SizeOf(i) = Stream!Total
                /\ Base(i) + SizeOf(i) <= Stream!Total
                /\ EndOf(i, NumberOfParts, Stream!Total, size) = Base(i) + SizeOf(i)
           /\ Base(1) = 0
<1> DEFINE total == Stream!Total
           n == NumberOfParts
<1>1. total \in Nat \ {0} /\ size \in Nat \ {0}
  BY DEF TarInv
<1> HIDE DEF total
<1>2. n = PartCount(total, size)
  BY DEF NumberOfParts, total
<1> HIDE DEF n
<1>3. /\ n \in Nat \ {0}
      /\ Plan(total, size) = [i \in 1..n |->
           [offset |-> (i - 1) * size,
            size |-> IF i < n THEN size ELSE total - (i - 1) * size]]
      /\ \A i \in 1..n : (i - 1) * size \in Nat /\ (i - 1) * size < total
      /\ \A i \in 1..n : i < n => i * size < total
      /\ total - (n - 1) * size \in 1..size
      /\ Len(Plan(total, size)) = n
  <2> DEFINE c == PartCount(total, size)
  <2>1. /\ c \in Nat \ {0}
        /\ Plan(total, size) = [i \in 1..c |->
             [offset |-> (i - 1) * size,
              size |-> IF i < c THEN size ELSE total - (i - 1) * size]]
        /\ \A i \in 1..c : (i - 1) * size \in Nat /\ (i - 1) * size < total
        /\ \A i \in 1..c : i < c => i * size < total
        /\ total - (c - 1) * size \in 1..size
        /\ Len(Plan(total, size)) = c
    BY <1>1, PlanIs
  <2>2. n = c
    BY <1>2
  <2> HIDE DEF c
  <2> QED
    BY <2>1, <2>2
<1>4. Stream!Ranges = Plan(total, size)
  BY SamePlan DEF Stream!Ranges, total
<1>5. Base(1) = 0
  <2>1. Base(1) = 0 * size
    BY DEF Base
  <2> QED
    BY <1>1, <2>1
<1>6. ASSUME NEW i \in 1..n
      PROVE  /\ Stream!Ranges[i].offset = Base(i) /\ Stream!Ranges[i].size = SizeOf(i)
             /\ Base(i) \in Nat /\ SizeOf(i) \in 1..size
             /\ i < n => SizeOf(i) = size /\ Base(i + 1) = Base(i) + size /\ Base(i + 1) < total
             /\ i = n => Base(i) + SizeOf(i) = total
             /\ Base(i) + SizeOf(i) <= total
             /\ EndOf(i, n, total, size) = Base(i) + SizeOf(i)
  <2>1. Base(i) \in Nat /\ Base(i) < total
    BY <1>3 DEF Base
  <2>2. Base(i + 1) = i * size /\ Base(i + 1) = Base(i) + size
    <3>1. (i + 1) - 1 = i
      OBVIOUS
    <3>2. i * size = (i - 1) * size + size
      BY <1>1, <1>3, Z3
    <3> QED
      BY <3>1, <3>2 DEF Base
  <2>3. SizeOf(i) = EndOf(i, n, total, size) - Base(i)
    BY DEF SizeOf, n, total
  <2>4. EndOf(i, n, total, size) = IF i < n THEN Base(i + 1) ELSE total
    BY <2>2 DEF EndOf
  <2>5. i < n => Base(i + 1) < total
    BY <1>3, <2>2
  <2>6. i = n => total - Base(i) \in 1..size
    BY <1>3 DEF Base
  <2>7. Stream!Ranges[i].offset = Base(i)
        /\ Stream!Ranges[i].size = IF i < n THEN size ELSE total - Base(i)
    BY <1>3, <1>4 DEF Base
  <2>8. i < n \/ i = n
    BY <1>3
  <2> QED
    BY <1>1, <2>1, <2>2, <2>3, <2>4, <2>5, <2>6, <2>7, <2>8
<1> QED
  BY <1>3, <1>4, <1>5, <1>6 DEF n, total

\* What is hashed so far is the beginning of the tar, and lies in the parts
\* that are closed and in the one that is open.
HashInv ==
    pc = "hash" =>
        /\ disk = "kept" /\ reader.offset = 0 /\ reader.end = Stream!Total
        /\ Len(whole) \in Nat /\ Len(view) \in Nat /\ Len(filled) \in Nat
        /\ whole = Span(0, Len(whole))
        /\ view = Span(Len(whole), Len(view))
        /\ filled = Span(Base(Len(parts) + 1), Len(filled))
        /\ Len(whole) + Len(view) = Position
        /\ Len(whole) = Base(Len(parts) + 1) + Len(filled)
        /\ Len(parts) < NumberOfParts
        /\ Len(parts) + 1 < NumberOfParts => Len(filled) < size

\* The parts that are closed are those of the plan; all of them, once hashed.
PartsInv ==
    /\ Len(parts) \in Nat
    /\ parts = [i \in 1..Len(parts) |-> PartAt(i)]
    /\ pc # "hash" => Len(parts) = NumberOfParts

\* A list of parts that gets the next one.
LEMMA OnePartMore ==
    ASSUME NEW m \in Nat, NEW s, s = [i \in 1..m |-> PartAt(i)]
    PROVE  /\ Len(s) = m
           /\ Append(s, PartAt(m + 1)) = [i \in 1..(m + 1) |-> PartAt(i)]
           /\ Len(Append(s, PartAt(m + 1))) = m + 1
<1> HIDE DEF PartAt
<1> DEFINE S == {PartAt(i) : i \in 1..(m + 1)}
           t == [i \in 1..(m + 1) |-> PartAt(i)]
<1>1. s \in Seq(S) /\ Len(s) = m /\ PartAt(m + 1) \in S
  OBVIOUS
<1>2. t \in Seq(S) /\ Len(t) = m + 1 /\ \A i \in 1..(m + 1) : t[i] = PartAt(i)
  OBVIOUS
<1> HIDE DEF S, t
<1>3. /\ Append(s, PartAt(m + 1)) \in Seq(S) /\ Len(Append(s, PartAt(m + 1))) = m + 1
      /\ \A i \in 1..m : Append(s, PartAt(m + 1))[i] = s[i]
      /\ Append(s, PartAt(m + 1))[m + 1] = PartAt(m + 1)
  BY <1>1, AppendProperties
<1>4. \A i \in 1..(m + 1) : Append(s, PartAt(m + 1))[i] = t[i]
  BY <1>2, <1>3
<1>5. Append(s, PartAt(m + 1)) = t
  BY <1>2, <1>3, <1>4, SeqEqual
<1> QED
  BY <1>1, <1>3, <1>5 DEF t

\* What does not concern the tar leaves it as it is.
LEMMA TarStays ==
    ASSUME TarInv, UNCHANGED <<tar, size>>
    PROVE  /\ TarInv' /\ Stream!Total' = Stream!Total /\ NumberOfParts' = NumberOfParts
           /\ \A i : Base(i)' = Base(i) /\ SizeOf(i)' = SizeOf(i) /\ PartAt(i)' = PartAt(i)
<1>1. Stream!Total' = Stream!Total
  BY DEF Stream!Total
<1>2. TarInv'
  BY DEF TarInv, Offset, Stream!Total
<1>3. NumberOfParts' = NumberOfParts
  BY <1>1 DEF NumberOfParts
<1>4. \A i : Base(i)' = Base(i) /\ SizeOf(i)' = SizeOf(i)
  BY <1>1, <1>3 DEF Base, SizeOf
<1>5. \A i : PartAt(i)' = PartAt(i)
  BY <1>4 DEF PartAt
<1> QED
  BY <1>1, <1>2, <1>3, <1>4, <1>5

\* The steps of hash_parts.
LEMMA HashSkips ==
    ASSUME TarInv, ReaderInv, HashInv, PartsInv, Stream!HashSkip
    PROVE  ReaderInv' /\ HashInv' /\ PartsInv'
<1>1. pc = "hash" /\ Stream!Skip
      /\ UNCHANGED <<tar, size, disk, view, filled, whole, parts, pc, asked, sent>>
  BY DEF Stream!HashSkip
<1>2. ReaderInv' /\ Position' = Position /\ reader'.offset = reader.offset /\ reader'.end = reader.end
  BY <1>1, SkipReads
<1>3. Stream!Total' = Stream!Total /\ NumberOfParts' = NumberOfParts
      /\ \A i : Base(i)' = Base(i) /\ PartAt(i)' = PartAt(i)
  BY <1>1, TarStays
<1>4. HashInv'
  BY <1>1, <1>2, <1>3 DEF HashInv, Base
<1>5. PartsInv'
  BY <1>1, <1>3 DEF PartsInv
<1> QED
  BY <1>2, <1>4, <1>5

\* A chunk, as long as the folder is kept.
LEMMA ChunkIs ==
    ASSUME TarInv, ReaderInv, ~Stream!Exhausted, ~Stream!PassedOver
    PROVE  /\ Stream!ChunkEnd - Position \in Nat
           /\ Stream!Chunk \in Seq(Int) /\ Len(Stream!Chunk) = Stream!ChunkEnd - Position
           /\ disk # "rewritten" => Stream!Chunk = Span(Position, Stream!ChunkEnd - Position)
<1> DEFINE n == Stream!ChunkEnd - Position
<1>1. Stream!From = Position /\ Position \in Nat /\ n \in Nat
  BY ChunkFits
<1> HIDE DEF n
<1>2. Stream!Chunk = [i \in 1..n |-> IF Stream!Here.file # 0 /\ disk = "rewritten"
                                     THEN -Position - i ELSE Position + i - 1]
  BY <1>1 DEF Stream!Chunk, n
<1>3. Stream!Chunk \in Seq(Int) /\ Len(Stream!Chunk) = n
  BY <1>1, <1>2
<1>4. disk # "rewritten" => Stream!Chunk = Span(Position, n)
  BY <1>2 DEF Span
<1> QED
  BY <1>1, <1>3, <1>4 DEF n

\* A chunk is read when the one before it is used up.
LEMMA HashReads ==
    ASSUME TarInv, ReaderInv, HashInv, PartsInv, Stream!HashChunk
    PROVE  ReaderInv' /\ HashInv' /\ PartsInv'
<1>1. /\ pc = "hash" /\ view = <<>> /\ ~Stream!Exhausted /\ ~Stream!PassedOver
      /\ view' = Stream!Chunk /\ Stream!Advance
      /\ UNCHANGED <<tar, size, disk, filled, whole, parts, pc, asked, sent>>
  BY DEF Stream!HashChunk
<1>2. /\ ReaderInv' /\ Position' = Stream!ChunkEnd
      /\ reader'.offset = reader.offset /\ reader'.end = reader.end
  BY <1>1, ChunkReads
<1>3. Stream!Total' = Stream!Total /\ NumberOfParts' = NumberOfParts
      /\ \A i : Base(i)' = Base(i) /\ PartAt(i)' = PartAt(i)
  BY <1>1, TarStays
<1>4. Len(view) = 0 /\ Len(whole) = Position /\ disk = "kept" /\ Position \in Nat
  BY <1>1, ChunkFits DEF HashInv
<1>5. /\ view' = Span(Len(whole), Stream!ChunkEnd - Position)
      /\ Len(view') = Stream!ChunkEnd - Position /\ Len(view') \in Nat
  BY <1>1, <1>4, ChunkIs
<1>6. Len(whole') + Len(view') = Position'
  <2>1. Len(whole') = Position /\ Position \in Nat
    BY <1>1, <1>4
  <2>2. Stream!ChunkEnd \in Nat
    BY <1>1, ChunkFits
  <2>3. Len(view') = Stream!ChunkEnd - Position
    BY <1>5
  <2> QED
    BY <1>2, <2>1, <2>2, <2>3
<1>7. HashInv'
  BY <1>1, <1>2, <1>3, <1>5, <1>6 DEF HashInv, Base
<1>8. PartsInv'
  BY <1>1, <1>3 DEF PartsInv
<1> QED
  BY <1>2, <1>7, <1>8

\* A part is what the plan says when its bytes are that cut of the tar.
LEMMA PartIs ==
    ASSUME TarInv, NEW i \in 1..NumberOfParts
    PROVE  Stream!Part(i, Span(Base(i), SizeOf(i))) = PartAt(i)
<1>1. Stream!Ranges[i].offset = Base(i) /\ SizeOf(i) \in Nat /\ Base(i) \in Int
  BY RangesAre DEF TarInv
<1>2. Len(Span(Base(i), SizeOf(i))) = SizeOf(i)
  BY <1>1, SpanIs
<1> QED
  BY <1>1, <1>2 DEF Stream!Part, PartAt

\* The inner loop: what fits goes to the open part, which is closed when it is
\* full, unless it is the last.
LEMMA HashTakes ==
    ASSUME TarInv, ReaderInv, HashInv, PartsInv, Stream!Take
    PROVE  ReaderInv' /\ HashInv' /\ PartsInv'
<1> DEFINE m == Len(parts)
           i == m + 1
           n == NumberOfParts
           w == Len(whole)
           v == Len(view)
           f == Len(filled)
           b == Base(i)
           room == SizeOf(i) - f
           take == IF v <= room THEN v ELSE room
           now == Span(b, f + take)
<1>1. /\ pc = "hash" /\ view # <<>>
      /\ UNCHANGED <<tar, size, disk, reader, pc, asked, sent>>
  BY DEF Stream!Take
<1>2. /\ disk = "kept" /\ reader.offset = 0 /\ reader.end = Stream!Total
      /\ w \in Nat /\ v \in Nat /\ f \in Nat
      /\ whole = Span(0, w) /\ view = Span(w, v) /\ filled = Span(b, f)
      /\ w + v = Position /\ w = b + f /\ m < n /\ (i < n => f < size)
  BY <1>1 DEF HashInv
<1>3. m \in Nat /\ i \in 1..n /\ n \in Nat /\ size \in Nat \ {0} /\ Stream!Total \in Nat
  BY <1>2, RangesAre DEF PartsInv, TarInv
<1>4. /\ Stream!Ranges[i].size = SizeOf(i) /\ b \in Nat /\ SizeOf(i) \in 1..size
      /\ Len(Stream!Ranges) = n
      /\ i < n => SizeOf(i) = size /\ Base(i + 1) = b + size
      /\ i = n => b + SizeOf(i) = Stream!Total
  BY <1>3, RangesAre
<1>5. Position <= Stream!Total
  BY <1>2, PositionIn
<1>6. ReaderInv' /\ Position' = Position
  BY <1>1 DEF ReaderInv, Position, Offset, Stream!Total, Stream!PassedOver, Stream!Here, Stream!To,
                Stream!WithinRange, Stream!SegmentEnd
<1>7. room \in Nat /\ take \in 0..v /\ take <= room
  BY <1>2, <1>3, <1>4, <1>5
<1>8. Stream!Min({v, Stream!Room(i)}) = take
  <2>1. Stream!Room(i) = room
    BY <1>4 DEF Stream!Room, Stream!RoomLeft
  <2>2. v \in Int /\ room \in Int
    BY <1>2, <1>7
  <2> HIDE DEF v, room
  <2> QED
    BY <2>1, <2>2, MinIs DEF take
<1> HIDE DEF w, v, f, b, room, take
<1>9. /\ whole' = whole \o Stream!Slice(view, 0, take)
      /\ view' = Stream!Slice(view, take, v)
      /\ LET bytes == filled \o Stream!Slice(view, 0, take)
         IN  IF Stream!FullPart(bytes)
             THEN parts' = Append(parts, Stream!Part(i, bytes)) /\ filled' = <<>>
             ELSE filled' = bytes /\ UNCHANGED parts
  BY <1>8 DEF Stream!Take, v
<1>10. /\ Stream!Slice(view, 0, take) = Span(w, take)
       /\ Stream!Slice(view, take, v) = Span(w + take, v - take)
  <2>1. w \in Int /\ v \in Nat /\ take \in 0..v /\ view = Span(w, v)
    BY <1>2, <1>7
  <2>2. /\ Stream!Slice(Span(w, v), 0, take) = Span(w, take)
        /\ Stream!Slice(Span(w, v), take, v) = Span(w + take, v - take)
    BY <2>1, SpanSliced
  <2> QED
    BY <2>1, <2>2
<1>11. whole \o Span(w, take) = Span(0, w + take)
  <2>1. 0 \in Int /\ w \in Nat /\ take \in Nat /\ 0 + w = w /\ whole = Span(0, w)
    BY <1>2, <1>7
  <2>2. Span(0, w) \o Span(0 + w, take) = Span(0, w + take)
    BY <2>1, SpanJoined
  <2> QED
    BY <2>1, <2>2
<1>12. filled \o Span(w, take) = now
  <2>1. b \in Int /\ f \in Nat /\ take \in Nat /\ b + f = w /\ filled = Span(b, f)
    BY <1>2, <1>4, <1>7
  <2>2. Span(b, f) \o Span(b + f, take) = Span(b, f + take)
    BY <2>1, SpanJoined
  <2> QED
    BY <2>1, <2>2
<1>13. /\ whole' = Span(0, w + take) /\ Len(whole') = w + take
       /\ view' = Span(w + take, v - take) /\ Len(view') = v - take
       /\ Len(now) = f + take
       /\ w + take \in Nat /\ v - take \in Nat /\ f + take \in Nat
       /\ (w + take) + (v - take) = Position
  <2>1. /\ w + take \in Nat /\ v - take \in Nat /\ f + take \in Nat
        /\ w + take \in Int /\ b \in Int /\ 0 \in Int
        /\ (w + take) + (v - take) = Position
    <3>1. w \in Nat /\ v \in Nat /\ f \in Nat /\ w + v = Position
      BY <1>2
    <3>2. b \in Nat /\ take \in 0..v
      BY <1>4, <1>7
    <3> QED
      BY <3>1, <3>2
  <2>2. /\ Len(Span(0, w + take)) = w + take
        /\ Len(Span(w + take, v - take)) = v - take
        /\ Len(Span(b, f + take)) = f + take
    BY <2>1, SpanIs
  <2>3. whole' = Span(0, w + take) /\ view' = Span(w + take, v - take)
    BY <1>9, <1>10, <1>11
  <2> QED
    BY <2>1, <2>2, <2>3
<1>14. IF f + take = SizeOf(i) /\ i < n
       THEN parts' = Append(parts, Stream!Part(i, now)) /\ filled' = <<>>
       ELSE filled' = now /\ UNCHANGED parts
  BY <1>4, <1>9, <1>10, <1>12, <1>13 DEF Stream!FullPart
<1>15. NumberOfParts' = n /\ Stream!Total' = Stream!Total
       /\ \A k : Base(k)' = Base(k) /\ PartAt(k)' = PartAt(k)
  BY <1>1, TarStays
<1> HIDE DEF n, now
<1>16. CASE f + take = SizeOf(i) /\ i < n
  <2>1. parts' = Append(parts, PartAt(i)) /\ filled' = <<>>
    BY <1>3, <1>14, <1>16, PartIs DEF n, now, b
  <2>2. Len(parts') = i /\ parts' = [k \in 1..i |-> PartAt(k)]
    BY <2>1, <1>3, OnePartMore DEF PartsInv
  <2>3. Len(filled') = 0 /\ filled' = Span(Base(i + 1), 0)
    BY <2>1, SpanEmpty
  <2>4. w + take = Base(i + 1) + 0 /\ Base(i + 1) \in Nat
    <3>1. w = b + f /\ f + take = size /\ Base(i + 1) = b + size
      BY <1>2, <1>4, <1>16
    <3>2. b \in Nat /\ f \in Nat /\ take \in Nat /\ size \in Nat
      BY <1>2, <1>3, <1>4, <1>7
    <3> QED
      BY <3>1, <3>2
  <2> DEFINE W == Len(whole')
             V == Len(view')
             F == Len(filled')
  <2>5. HashInv'
    <3>1. /\ disk' = "kept" /\ reader'.offset = 0 /\ reader'.end = Stream!Total'
          /\ W \in Nat /\ V \in Nat /\ F \in Nat
          /\ whole' = Span(0, W) /\ view' = Span(W, V) /\ filled' = Span(Base(i + 1), F)
          /\ W + V = Position'
          /\ W = Base(i + 1) + F
          /\ i < n /\ F < size
      <4>1. disk' = "kept" /\ reader'.offset = 0 /\ reader'.end = Stream!Total'
        BY <1>1, <1>2, <1>15
      <4>2. W = w + take /\ V = v - take /\ F = 0 /\ W \in Nat /\ V \in Nat
            /\ whole' = Span(0, w + take) /\ view' = Span(w + take, v - take)
            /\ filled' = Span(Base(i + 1), 0) /\ (w + take) + (v - take) = Position
        BY <1>13, <2>3
      <4>3. i < n /\ 0 < size /\ Position' = Position /\ w + take = Base(i + 1) + 0
        BY <1>3, <1>6, <1>16, <2>4
      <4> HIDE DEF W, V, F
      <4> QED
        BY <4>1, <4>2, <4>3
    <3> QED
      BY <3>1, <2>2, <1>1, <1>15 DEF HashInv, n, Base
  <2>6. PartsInv'
    BY <2>2, <1>1, <1>3, <1>15 DEF PartsInv
  <2> QED
    BY <1>6, <2>5, <2>6
<1>17. CASE ~(f + take = SizeOf(i) /\ i < n)
  <2>1. filled' = now /\ parts' = parts
    BY <1>14, <1>17
  <2>2. i < n => f + take < size
    BY <1>2, <1>4, <1>7, <1>17 DEF room
  <2>3. w + take = b + (f + take)
    BY <1>2, <1>4, <1>7
  <2> DEFINE W == Len(whole')
             V == Len(view')
             F == Len(filled')
  <2>5. HashInv'
    <3>1. /\ disk' = "kept" /\ reader'.offset = 0 /\ reader'.end = Stream!Total'
          /\ W \in Nat /\ V \in Nat /\ F \in Nat
          /\ whole' = Span(0, W) /\ view' = Span(W, V) /\ filled' = Span(b, F)
          /\ W + V = Position'
          /\ W = b + F
          /\ m < n /\ (i < n => F < size)
      BY <1>1, <1>2, <1>3, <1>6, <1>13, <1>15, <2>1, <2>2, <2>3 DEF now
    <3> QED
      BY <3>1, <2>1, <1>1, <1>15 DEF HashInv, n, b, Base
  <2>6. PartsInv'
    BY <2>1, <1>1, <1>3, <1>15 DEF PartsInv
  <2> QED
    BY <1>6, <2>5, <2>6
<1> QED
  BY <1>16, <1>17

\* At the end the last part is closed: it has what is left of the tar.
LEMMA HashStores ==
    ASSUME TarInv, ReaderInv, HashInv, PartsInv, Stream!Store
    PROVE  ReaderInv' /\ HashInv' /\ PartsInv'
<1> DEFINE m == Len(parts)
           i == m + 1
           b == Base(i)
           f == Len(filled)
<1>1. /\ pc = "hash" /\ view = <<>> /\ Stream!Exhausted /\ Len(whole) = Stream!Total
      /\ parts' = Append(parts, Stream!Part(i, filled)) /\ pc' = "stored"
      /\ UNCHANGED <<tar, size, disk, reader, view, filled, whole, asked, sent>>
  BY DEF Stream!Store
<1>2. /\ f \in Nat /\ filled = Span(b, f) /\ Stream!Total = b + f
      /\ m < NumberOfParts /\ (i < NumberOfParts => f < size)
  BY <1>1 DEF HashInv
<1>3. m \in Nat /\ i \in 1..NumberOfParts /\ NumberOfParts \in Nat /\ size \in Nat \ {0}
  BY <1>2, RangesAre DEF PartsInv, TarInv
<1>4. /\ b \in Nat /\ Stream!Total \in Nat
      /\ i < NumberOfParts => SizeOf(i) = size
      /\ b + SizeOf(i) <= Stream!Total /\ SizeOf(i) \in 1..size
      /\ i = NumberOfParts => b + SizeOf(i) = Stream!Total
  BY <1>3, RangesAre DEF TarInv
<1> HIDE DEF b, f
<1>5. i = NumberOfParts /\ f = SizeOf(i)
  BY <1>2, <1>3, <1>4
<1>6. parts' = Append(parts, PartAt(i))
  <2>1. Stream!Part(i, Span(Base(i), SizeOf(i))) = PartAt(i)
    BY <1>3, PartIs
  <2> QED
    BY <1>1, <1>2, <1>5, <2>1 DEF b
<1>7. Len(parts') = i /\ parts' = [k \in 1..i |-> PartAt(k)]
  BY <1>6, <1>3, OnePartMore DEF PartsInv
<1>8. NumberOfParts' = NumberOfParts /\ \A k : PartAt(k)' = PartAt(k)
  BY <1>1, TarStays
<1>9. ReaderInv'
  BY <1>1 DEF ReaderInv, Position, Offset, Stream!Total, Stream!PassedOver, Stream!Here, Stream!To,
                Stream!WithinRange, Stream!SegmentEnd
<1>10. HashInv'
  BY <1>1 DEF HashInv
<1>11. PartsInv'
  BY <1>3, <1>5, <1>7, <1>8 DEF PartsInv
<1> QED
  BY <1>9, <1>10, <1>11
-----------------------------------------------------------------------------
\* The part that is asked for, and what Ranged makes of the header.
AskedSize == parts[asked.part].size
Answer == Stream!Ranged(asked.header, AskedSize)

\* An answer that is under way has sent the range of the tar up to where the
\* reader is, as long as no file was changed.
ServeInv ==
    /\ pc \in Stream!PcS
    /\ pc \in {"hash", "stored"} => disk = "kept" /\ sent = <<>>
    /\ pc \in {"stream", "sent", "cut", "refused"} =>
         asked.part \in 1..Len(parts) /\ asked.header \in Stream!Headers(AskedSize)
    /\ pc = "refused" => Answer.status = 416
    /\ pc \in {"stream", "sent"} =>
         /\ Answer.status # 416
         /\ reader.offset = Base(asked.part) + Answer.start
         /\ reader.end = reader.offset + Answer.length
         /\ sent \in Seq(Int) /\ Position = reader.offset + Len(sent)
         /\ disk = "kept" => sent = Span(reader.offset, Len(sent))
    /\ pc = "sent" => Position = reader.end

\* The bytes of a part of n bytes that a header asks for.
WantedIn(header, n) ==
    {p \in 0..(n - 1) :
       \/ header = Stream!NoHeader
       \/ header.first >= 0 /\ p >= header.first /\ (header.last < 0 \/ p <= header.last)
       \/ header.first < 0 /\ p >= n - header.last}

\* _ranged answers the bytes that are asked for, and refuses only when there
\* are none: a prefix, a suffix, an open range, or no header.
LEMMA RangedIs ==
    ASSUME NEW n \in Nat \ {0}, NEW header \in Stream!Headers(n),
           NEW answer, answer = Stream!Ranged(header, n)
    PROVE  /\ answer.status = 416 => WantedIn(header, n) = {}
           /\ answer.status # 416 =>
                /\ answer.start \in Nat /\ answer.length \in Nat \ {0}
                /\ answer.start + answer.length <= n
                /\ WantedIn(header, n) = answer.start..(answer.start + answer.length - 1)
<1> DEFINE f == header.first
           l == header.last
           suffix == f < 0
           first == IF suffix THEN (IF n - l >= 0 THEN n - l ELSE 0) ELSE f
           last == IF ~suffix /\ l >= 0 THEN (IF l <= n - 1 THEN l ELSE n - 1) ELSE n - 1
           none == f = -1 /\ l = -1
<1>1. f \in -1..(n + 1) /\ l \in -1..(n + 1) /\ (header = Stream!NoHeader <=> none)
  BY DEF Stream!Headers, Stream!NoHeader
<1>2. /\ Stream!SuffixStart(l, n) = IF n - l >= 0 THEN n - l ELSE 0
      /\ Stream!Min({l, n - 1}) = IF l <= n - 1 THEN l ELSE n - 1
  <2> HIDE DEF f, l
  <2>1. n - l \in Int /\ n - 1 \in Int /\ l \in Int
    BY <1>1
  <2>2. Stream!Max({n - l, 0}) = IF n - l >= 0 THEN n - l ELSE 0
    BY <2>1, MaxIs
  <2> QED
    BY <2>1, <2>2, MinIs DEF Stream!SuffixStart, Stream!LastBytes
<1>3. WantedIn(header, n) =
        {p \in 0..(n - 1) : \/ none
                            \/ f >= 0 /\ p >= f /\ (l < 0 \/ p <= l)
                            \/ f < 0 /\ p >= n - l}
  BY <1>1 DEF WantedIn
<1>4. answer = CASE header = Stream!NoHeader -> [status |-> 200, start |-> 0, length |-> n]
                 [] header # Stream!NoHeader /\ (first >= n \/ first > last) ->
                      [status |-> 416, start |-> 0, length |-> 0]
                 [] OTHER -> [status |-> 206, start |-> first, length |-> last - first + 1]
  BY <1>2 DEF Stream!Ranged
<1> DEFINE W == WantedIn(header, n)
<1>5. CASE none
  <2>1. answer = [status |-> 200, start |-> 0, length |-> n]
    BY <1>1, <1>4, <1>5
  <2>2. W = 0..(n - 1)
    BY <1>3, <1>5
  <2> QED
    BY <2>1, <2>2
<1>6. CASE ~none /\ (first >= n \/ first > last)
  <2>1. answer = [status |-> 416, start |-> 0, length |-> 0]
    BY <1>1, <1>4, <1>6
  <2>2. W = {}
    <3> HIDE DEF f, l
    <3> QED
      BY <1>1, <1>3, <1>6
  <2> QED
    BY <2>1, <2>2
<1>7. CASE ~none /\ ~(first >= n \/ first > last)
  <2>1. answer = [status |-> 206, start |-> first, length |-> last - first + 1]
    BY <1>1, <1>4, <1>7
  <2>2. first \in Nat /\ last \in Nat /\ first <= last /\ last < n
    <3> HIDE DEF f, l
    <3> QED
      BY <1>1, <1>7
  <2>3. W = first..last
    <3> HIDE DEF f, l
    <3>1. \A p \in 0..(n - 1) :
            (\/ none
             \/ f >= 0 /\ p >= f /\ (l < 0 \/ p <= l)
             \/ f < 0 /\ p >= n - l) <=> first <= p /\ p <= last
      BY <1>1, <1>7
    <3> HIDE DEF first, last, none
    <3> QED
      BY <1>3, <2>2, <3>1
  <2> HIDE DEF first, last
  <2> QED
    BY <2>1, <2>2, <2>3
<1> QED
  BY <1>5, <1>6, <1>7

\* The inductive invariant of PartStream.
StreamInv == TarInv /\ ReaderInv /\ HashInv /\ PartsInv /\ ServeInv

\* The size of a part that is asked for, and where the answer lies in the tar.
LEMMA AskedIs ==
    ASSUME TarInv, PartsInv, NEW i \in 1..Len(parts), pc # "hash"
    PROVE  /\ i \in 1..NumberOfParts /\ i \in DOMAIN parts
           /\ parts[i] = PartAt(i) /\ parts[i].offset = Base(i) /\ parts[i].size = SizeOf(i)
           /\ SizeOf(i) \in Nat \ {0} /\ Base(i) \in Nat
           /\ Base(i) + SizeOf(i) <= Stream!Total
<1>1. i \in 1..NumberOfParts /\ parts[i] = PartAt(i)
  BY DEF PartsInv
<1>2. SizeOf(i) \in 1..size /\ Base(i) \in Nat /\ Base(i) + SizeOf(i) <= Stream!Total
  BY <1>1, RangesAre
<1>3. SizeOf(i) \in Nat \ {0}
  BY <1>2 DEF TarInv
<1>4. DOMAIN parts = 1..Len(parts)
  BY DEF PartsInv
<1> QED
  BY <1>1, <1>2, <1>3, <1>4 DEF PartAt

\* What an answer that is under way keeps.
LEMMA Asks ==
    ASSUME StreamInv, Stream!Ask
    PROVE  StreamInv'
<1>1. PICK i \in 1..Len(parts) : \E header \in Stream!Headers(parts[i].size) :
        LET answer == Stream!Ranged(header, parts[i].size)
            start  == parts[i].offset + answer.start
        IN  /\ asked' = [part |-> i, header |-> header]
            /\ IF answer.status = 416
               THEN pc' = "refused" /\ UNCHANGED reader
               ELSE pc' = "stream" /\ reader' = Stream!Read(start, start + answer.length)
  BY DEF Stream!Ask
<1>2. PICK header \in Stream!Headers(parts[i].size) :
        LET answer == Stream!Ranged(header, parts[i].size)
            start  == parts[i].offset + answer.start
        IN  /\ asked' = [part |-> i, header |-> header]
            /\ IF answer.status = 416
               THEN pc' = "refused" /\ UNCHANGED reader
               ELSE pc' = "stream" /\ reader' = Stream!Read(start, start + answer.length)
  BY <1>1
<1> DEFINE n == SizeOf(i)
           answer == Stream!Ranged(header, n)
           start == Base(i) + answer.start
<1>3. /\ pc = "stored" /\ disk = "kept" /\ sent = <<>>
      /\ UNCHANGED <<tar, size, disk, view, filled, whole, parts, sent>>
  BY DEF Stream!Ask, StreamInv, ServeInv
<1>4. TarInv /\ ReaderInv /\ PartsInv
  BY DEF StreamInv
<1>5. /\ i \in 1..NumberOfParts /\ parts[i].offset = Base(i) /\ parts[i].size = n
      /\ n \in Nat \ {0} /\ Base(i) \in Nat /\ Base(i) + n <= Stream!Total
  BY <1>3, <1>4, AskedIs
<1>6. /\ asked' = [part |-> i, header |-> header]
      /\ IF answer.status = 416
         THEN pc' = "refused" /\ UNCHANGED reader
         ELSE pc' = "stream" /\ reader' = Stream!Read(start, start + answer.length)
  BY <1>2, <1>5
<1>7. header \in Stream!Headers(n)
  BY <1>5
<1>8. /\ answer.status = 416 => WantedIn(header, n) = {}
      /\ answer.status # 416 =>
           /\ answer.start \in Nat /\ answer.length \in Nat \ {0}
           /\ answer.start + answer.length <= n
  BY <1>5, <1>7, RangedIs
<1>9. /\ TarInv' /\ Stream!Total' = Stream!Total /\ NumberOfParts' = NumberOfParts
      /\ \A k : Base(k)' = Base(k) /\ SizeOf(k)' = SizeOf(k) /\ PartAt(k)' = PartAt(k)
  BY <1>3, <1>4, TarStays
<1> HIDE DEF answer, n
<1>10. /\ PartsInv' /\ HashInv' /\ pc' \in {"refused", "stream"}
  BY <1>3, <1>4, <1>6, <1>9 DEF PartsInv, HashInv
<1>11. asked'.part = i /\ asked'.header = header
  BY <1>6
<1>12. AskedSize' = n /\ Answer' = answer
  <2>1. AskedSize' = n
    BY <1>3, <1>5, <1>11 DEF AskedSize
  <2> QED
    BY <1>11, <2>1 DEF Answer, answer
<1>13. /\ asked'.part \in 1..Len(parts') /\ asked'.header \in Stream!Headers(n)
  BY <1>3, <1>7, <1>11
<1>14. CASE answer.status = 416
  <2>1. pc' = "refused" /\ reader' = reader
    BY <1>6, <1>14
  <2>2. ReaderInv'
    BY <1>3, <1>4, <2>1 DEF ReaderInv, Position, Offset, Stream!Total, Stream!PassedOver,
         Stream!Here, Stream!To, Stream!WithinRange, Stream!SegmentEnd
  <2>3. ServeInv'
    BY <1>12, <1>13, <1>14, <2>1 DEF ServeInv, Stream!PcS
  <2> QED
    BY <1>9, <1>10, <2>2, <2>3 DEF StreamInv
<1>15. CASE answer.status # 416
  <2>1. pc' = "stream" /\ reader' = Stream!Read(start, start + answer.length)
    BY <1>6, <1>15
  <2>2. start \in Nat /\ start + answer.length <= Stream!Total /\ answer.length \in Nat
        /\ Stream!Total \in Nat
    BY <1>4, <1>5, <1>8, <1>15 DEF TarInv
  <2> HIDE DEF start
  <2>3. Stream!Min({Stream!Total, start + answer.length}) = start + answer.length
    BY <2>2, MinIs
  <2>4. /\ reader' \in ReaderType /\ reader'.offset = start /\ reader'.end = start + answer.length
        /\ reader'.at = 1 /\ reader'.given = 0
    BY <2>1, <2>2, <2>3 DEF Stream!Read, ReaderType
  <2>5. ReaderInv'
    BY <1>3, <1>4, <1>9, <2>2, <2>4 DEF ReaderInv, TarInv
  <2>6. Position' = start
    <3>1. Offset(1)' = 0
      BY <1>9 DEF TarInv
    <3>2. Offset(reader.at)' = 0
      BY <2>4, <3>1 DEF Offset
    <3> QED
      BY <2>2, <2>4, <3>2 DEF Position
  <2>7. reader'.offset = Base(asked.part)' + Answer'.start
        /\ reader'.end = reader'.offset + Answer'.length
    <3>1. Base(asked.part)' = Base(i)
      BY <1>3, <1>11 DEF Base
    <3> QED
      BY <1>12, <2>4, <3>1 DEF start
  <2>8. sent' = <<>> /\ sent' \in Seq(Int) /\ Len(sent') = 0 /\ Span(reader'.offset, Len(sent')) = <<>>
    BY <1>3, SpanEmpty
  <2>9. Position' = reader'.offset + Len(sent')
    BY <2>2, <2>4, <2>6, <2>8
  <2>10. ServeInv'
    BY <1>12, <1>13, <1>15, <2>1, <2>7, <2>8, <2>9 DEF ServeInv, Stream!PcS
  <2> QED
    BY <1>9, <1>10, <2>5, <2>10 DEF StreamInv
<1> QED
  BY <1>14, <1>15

\* What is asked for stays what it is while it is answered.
LEMMA AskedStays ==
    ASSUME StreamInv, UNCHANGED <<tar, size, parts, asked>>
    PROVE  /\ TarInv' /\ Stream!Total' = Stream!Total /\ NumberOfParts' = NumberOfParts
           /\ \A k : Base(k)' = Base(k) /\ PartAt(k)' = PartAt(k)
           /\ AskedSize' = AskedSize /\ Answer' = Answer
<1>1. /\ TarInv' /\ Stream!Total' = Stream!Total /\ NumberOfParts' = NumberOfParts
      /\ \A k : Base(k)' = Base(k) /\ PartAt(k)' = PartAt(k)
  BY TarStays DEF StreamInv
<1>2. AskedSize' = AskedSize /\ Answer' = Answer
  BY DEF AskedSize, Answer
<1> QED
  BY <1>1, <1>2

\* The steps of llm_model_file.
LEMMA StreamSkips ==
    ASSUME StreamInv, Stream!StreamSkip
    PROVE  StreamInv'
<1>1. pc = "stream" /\ Stream!Skip
      /\ UNCHANGED <<tar, size, disk, view, filled, whole, parts, pc, asked, sent>>
  BY DEF Stream!StreamSkip
<1>2. ReaderInv' /\ Position' = Position /\ reader'.offset = reader.offset /\ reader'.end = reader.end
  BY <1>1, SkipReads DEF StreamInv
<1>3. /\ TarInv' /\ NumberOfParts' = NumberOfParts /\ Answer' = Answer /\ AskedSize' = AskedSize
      /\ \A k : Base(k)' = Base(k) /\ PartAt(k)' = PartAt(k)
  BY <1>1, AskedStays
<1>4. PartsInv' /\ HashInv'
  BY <1>1, <1>3 DEF StreamInv, PartsInv, HashInv
<1>5. ServeInv'
  BY <1>1, <1>2, <1>3 DEF StreamInv, ServeInv
<1> QED
  BY <1>2, <1>3, <1>4, <1>5 DEF StreamInv

\* A chunk of the answer follows on the bytes that are sent.
LEMMA StreamReads ==
    ASSUME StreamInv, Stream!StreamChunk
    PROVE  StreamInv'
<1>1. /\ pc = "stream" /\ ~Stream!Exhausted /\ ~Stream!PassedOver
      /\ sent' = sent \o Stream!Chunk /\ Stream!Advance
      /\ UNCHANGED <<tar, size, disk, view, filled, whole, parts, pc, asked>>
  BY DEF Stream!StreamChunk
<1>2. /\ ReaderInv' /\ Position' = Stream!ChunkEnd
      /\ reader'.offset = reader.offset /\ reader'.end = reader.end
  BY <1>1, ChunkReads DEF StreamInv
<1>3. /\ TarInv' /\ NumberOfParts' = NumberOfParts /\ Answer' = Answer /\ AskedSize' = AskedSize
      /\ \A k : Base(k)' = Base(k) /\ PartAt(k)' = PartAt(k)
  BY <1>1, AskedStays
<1>4. PartsInv' /\ HashInv'
  BY <1>1, <1>3 DEF StreamInv, PartsInv, HashInv
<1> DEFINE c == Stream!ChunkEnd - Position
           o == reader.offset
           l == Len(sent)
           chunk == Stream!Chunk
<1>5. /\ c \in Nat /\ chunk \in Seq(Int) /\ Len(chunk) = c
      /\ disk # "rewritten" => chunk = Span(Position, c)
  BY <1>1, ChunkIs DEF StreamInv
<1>6. /\ o \in Nat /\ l \in Nat /\ sent \in Seq(Int) /\ Position = o + l
      /\ disk = "kept" => sent = Span(o, l)
  BY <1>1 DEF StreamInv, ServeInv, ReaderInv, ReaderType
<1>7. Stream!ChunkEnd = o + l + c
  <2>1. Stream!ChunkEnd \in Nat /\ Position \in Nat
    BY <1>1, ChunkFits DEF StreamInv
  <2> QED
    BY <1>6, <2>1
<1> HIDE DEF c, o, l, chunk
<1>8. sent' \in Seq(Int) /\ Len(sent') = l + c
  <2>1. Len(sent) = l /\ sent' = sent \o chunk
    BY <1>1 DEF l, chunk
  <2> QED
    BY <1>5, <1>6, <2>1, ConcatProperties
<1>9. disk = "kept" => sent' = Span(o, l + c)
  <2>1. o \in Int /\ l \in Nat /\ c \in Nat
    BY <1>5, <1>6
  <2>2. Span(o, l) \o Span(o + l, c) = Span(o, l + c)
    BY <2>1, SpanJoined
  <2> QED
    BY <1>1, <1>5, <1>6, <2>2 DEF chunk
<1>10. Position' = reader'.offset + Len(sent')
  BY <1>2, <1>5, <1>6, <1>7, <1>8 DEF o
<1>11. disk' = "kept" => sent' = Span(reader'.offset, Len(sent'))
  BY <1>1, <1>2, <1>8, <1>9 DEF o
<1>12. ServeInv'
  BY <1>1, <1>2, <1>3, <1>8, <1>10, <1>11 DEF StreamInv, ServeInv
<1> QED
  BY <1>2, <1>3, <1>4, <1>12 DEF StreamInv

\* The steps that end an answer, or change the disk under it, read nothing.
LEMMA ReaderStays ==
    ASSUME ReaderInv, UNCHANGED <<tar, reader>>
    PROVE  ReaderInv' /\ Position' = Position
BY DEF ReaderInv, Position, Offset, Stream!Total, Stream!PassedOver, Stream!Here, Stream!To,
       Stream!WithinRange, Stream!SegmentEnd

\* The end of an answer has all of its range; a broken one claims nothing.
LEMMA StreamEnds ==
    ASSUME StreamInv,
           \/ Stream!StreamCut \/ Stream!StreamEnd
           \/ \E how \in {"rewritten", "shorter"} : Stream!Change(how)
    PROVE  StreamInv'
<1>1. /\ pc = "stream"
      /\ UNCHANGED <<tar, size, reader, view, filled, whole, parts, asked, sent>>
      /\ \/ pc' = "cut" /\ UNCHANGED disk
         \/ pc' = "sent" /\ Stream!Exhausted /\ UNCHANGED disk
         \/ pc' = "stream" /\ disk' # "kept"
  BY DEF Stream!StreamCut, Stream!StreamEnd, Stream!Change
<1>2. ReaderInv' /\ Position' = Position
  BY <1>1, ReaderStays DEF StreamInv
<1>3. /\ TarInv' /\ NumberOfParts' = NumberOfParts /\ Answer' = Answer /\ AskedSize' = AskedSize
      /\ \A k : Base(k)' = Base(k) /\ PartAt(k)' = PartAt(k)
  BY <1>1, AskedStays
<1>4. PartsInv' /\ HashInv'
  BY <1>1, <1>3 DEF StreamInv, PartsInv, HashInv
<1>5. pc' = "sent" => Position = reader.end
  BY <1>1, ReadsAll DEF StreamInv
<1>6. ServeInv'
  BY <1>1, <1>2, <1>3, <1>5 DEF StreamInv, ServeInv, Stream!PcS
<1> QED
  BY <1>2, <1>3, <1>4, <1>6 DEF StreamInv

\* Each step of the stream keeps its invariant.
LEMMA StreamStep ==
    ASSUME StreamInv, Stream!Next
    PROVE  StreamInv'
<1>1. CASE Stream!HashSkip \/ Stream!HashChunk \/ Stream!Take \/ Stream!Store
  <2>1. pc = "hash" /\ pc' \in {"hash", "stored"} /\ UNCHANGED <<tar, size, disk, asked, sent>>
    BY <1>1 DEF Stream!HashSkip, Stream!HashChunk, Stream!Take, Stream!Store
  <2>2. ReaderInv' /\ HashInv' /\ PartsInv'
    BY <1>1, HashSkips, HashReads, HashTakes, HashStores DEF StreamInv
  <2>3. TarInv'
    BY <2>1, TarStays DEF StreamInv
  <2>4. ServeInv'
    BY <2>1 DEF StreamInv, ServeInv, Stream!PcS
  <2> QED
    BY <2>2, <2>3, <2>4 DEF StreamInv
<1>2. CASE Stream!Ask
  BY <1>2, Asks
<1>3. CASE Stream!StreamSkip
  BY <1>3, StreamSkips
<1>4. CASE Stream!StreamChunk
  BY <1>4, StreamReads
<1>5. CASE \/ Stream!StreamCut \/ Stream!StreamEnd
           \/ \E how \in {"rewritten", "shorter"} : Stream!Change(how)
  BY <1>5, StreamEnds
<1> QED
  BY <1>1, <1>2, <1>3, <1>4, <1>5 DEF Stream!Next, Stream!Server

\* hash_parts begins at the first byte, with nothing hashed.
LEMMA StreamStarts ==
    ASSUME Stream!Init
    PROVE  StreamInv
<1>1. PICK folder \in Folders : tar = Stream!Layout(folder, Block)
  BY DEF Stream!Init
<1>2. /\ size \in PartSizes /\ disk = "kept" /\ reader = Stream!Read(0, Stream!Total)
      /\ view = <<>> /\ filled = <<>> /\ whole = <<>> /\ parts = <<>> /\ pc = "hash" /\ sent = <<>>
  BY DEF Stream!Init
<1>3. folder \in Seq(Nat) /\ Block \in Nat \ {0} /\ size \in Nat \ {0}
  BY <1>2, StreamAssumption
<1>4. /\ tar \in Seq(SegmentType) /\ Len(tar) \in Nat \ {0}
      /\ tar[1].offset = 0
      /\ \A k \in 1..(Len(tar) - 1) : tar[k + 1].offset = tar[k].offset + tar[k].size
      /\ tar[Len(tar)].size > 0
  BY <1>1, <1>3, LayoutFits
<1>5. Stream!Total = tar[Len(tar)].offset + tar[Len(tar)].size /\ Stream!Total \in Nat \ {0}
  <2>1. Stream!Total = tar[Len(tar)].offset + tar[Len(tar)].size
    BY TarSize DEF Stream!Total
  <2>2. tar[Len(tar)] \in SegmentType
    BY <1>4
  <2>3. tar[Len(tar)].offset \in Nat /\ tar[Len(tar)].size \in Nat \ {0}
    BY <1>4, <2>2 DEF SegmentType
  <2> QED
    BY <2>1, <2>3
<1>6. TarInv
  <2>1. Offset(1) = 0
    BY <1>4 DEF Offset
  <2>2. ASSUME NEW k \in 1..Len(tar)
        PROVE  Offset(k + 1) = tar[k].offset + tar[k].size
    <3>1. CASE k = Len(tar)
      BY <1>4, <1>5, <3>1 DEF Offset
    <3>2. CASE k # Len(tar)
      <4>1. k \in 1..(Len(tar) - 1) /\ k + 1 <= Len(tar)
        BY <1>4, <3>2
      <4> QED
        BY <1>4, <4>1 DEF Offset
    <3> QED
      BY <3>1, <3>2
  <2> QED
    BY <1>3, <1>4, <1>5, <2>1, <2>2 DEF TarInv
<1>7. Stream!Min({Stream!Total, Stream!Total}) = Stream!Total
  <2>1. Stream!Total \in Int
    BY <1>5
  <2> QED
    BY <2>1, MinIs
<1>8. /\ reader \in ReaderType /\ reader.offset = 0 /\ reader.end = Stream!Total
      /\ reader.at = 1 /\ reader.given = 0
  BY <1>2, <1>5, <1>7 DEF Stream!Read, ReaderType
<1>9. ReaderInv
  BY <1>4, <1>5, <1>8 DEF ReaderInv
<1>10. Position = 0
  BY <1>6, <1>8 DEF Position, TarInv
<1>11. /\ Len(parts) = 0 /\ Len(whole) = 0 /\ Len(view) = 0 /\ Len(filled) = 0
       /\ NumberOfParts \in Nat \ {0} /\ Base(1) = 0 /\ 0 < size
  BY <1>2, <1>3, <1>6, RangesAre
<1>12. /\ whole = Span(0, 0) /\ view = Span(0, 0) /\ filled = Span(0, 0)
  BY <1>2, SpanEmpty
<1>13. HashInv
  BY <1>2, <1>8, <1>10, <1>11, <1>12 DEF HashInv
<1>14. PartsInv
  <2>1. parts = [i \in 1..0 |-> PartAt(i)]
    BY <1>2
  <2> QED
    BY <1>2, <1>11, <2>1 DEF PartsInv
<1>15. ServeInv
  BY <1>2 DEF ServeInv, Stream!PcS
<1> QED
  BY <1>6, <1>9, <1>13, <1>14, <1>15 DEF StreamInv

\* The parts that are closed are the tar.
LEMMA PartsMean ==
    ASSUME StreamInv
    PROVE  Stream!PartsAreTheTar
<1> SUFFICES ASSUME pc # "hash"
             PROVE  /\ Stream!FlattenSeq([i \in DOMAIN parts |-> parts[i].bytes])
                         = [i \in 1..Stream!Total |-> i - 1]
                    /\ \A i \in DOMAIN parts : parts[i].size <= size
                    /\ \A i \in DOMAIN parts : parts[i].size = size \/ i = Len(parts)
  BY DEF Stream!PartsAreTheTar
<1> DEFINE n == NumberOfParts
           bytes == Span(0, Stream!Total)
           total == Stream!Total
           cut(i) == SubSeq(bytes, (i - 1) * size + 1, EndOf(i, n, total, size))
<1>1. TarInv /\ PartsInv
  BY DEF StreamInv
<1>2. Len(parts) = n /\ parts = [i \in 1..n |-> PartAt(i)] /\ DOMAIN parts = 1..n
  BY <1>1 DEF PartsInv
<1>3. /\ n \in Nat \ {0}
      /\ \A i \in 1..n :
           /\ Base(i) \in Nat /\ SizeOf(i) \in 1..size
           /\ i < n => SizeOf(i) = size
           /\ Base(i) + SizeOf(i) <= total
           /\ EndOf(i, n, total, size) = Base(i) + SizeOf(i)
  BY <1>1, RangesAre
<1>4. total \in Nat \ {0} /\ size \in Nat \ {0} /\ n = PartCount(total, size)
  BY <1>1 DEF TarInv, NumberOfParts
<1>5. bytes \in Seq(Int) /\ Len(bytes) = total /\ bytes # <<>>
  <2>1. 0 \in Int /\ total \in Nat /\ total # 0
    BY <1>4
  <2> QED
    BY <2>1, SpanIs
<1> HIDE DEF n, total
<1>6. ASSUME NEW i \in 1..n
      PROVE  cut(i) = parts[i].bytes
  <2> DEFINE o == Base(i)
             e == Base(i) + SizeOf(i)
  <2>1. o \in 0..total /\ e \in o..total /\ e - o = SizeOf(i) /\ o + 0 = o
    BY <1>3, <1>4
  <2>2. SubSeq(Span(0, total), o + 1, e) = Span(0 + o, e - o)
    <3> HIDE DEF o, e
    <3>1. 0 \in Int /\ total \in Nat /\ o \in 0..total /\ e \in o..total
      BY <1>4, <2>1
    <3> QED
      BY <3>1, SpanCut
  <2>3. cut(i) = SubSeq(Span(0, total), o + 1, e)
    BY <1>3 DEF Base, total
  <2>4. Span(0 + o, e - o) = Span(o, SizeOf(i))
    BY <2>1
  <2>5. parts[i].bytes = Span(Base(i), SizeOf(i))
    BY <1>2 DEF PartAt
  <2> QED
    BY <2>2, <2>3, <2>4, <2>5
<1>7. FlattenSeq([i \in 1..n |-> cut(i)]) = bytes
  <2>1. n = PartCount(Len(bytes), size) /\ Len(bytes) = total
    BY <1>4, <1>5
  <2> HIDE DEF bytes
  <2>2. FlattenSeq([i \in 1..n |->
            SubSeq(bytes, (i - 1) * size + 1, EndOf(i, n, Len(bytes), size))]) = bytes
    BY <1>4, <1>5, <2>1, JoinedAgain
  <2> QED
    BY <2>1, <2>2
<1>8. [i \in 1..n |-> cut(i)] = [i \in DOMAIN parts |-> parts[i].bytes]
  <2> HIDE DEF cut
  <2> QED
    BY <1>2, <1>6
<1>9. bytes = [i \in 1..Stream!Total |-> i - 1]
  BY DEF Span
<1>10. Stream!FlattenSeq([i \in DOMAIN parts |-> parts[i].bytes]) = [i \in 1..Stream!Total |-> i - 1]
  <2> HIDE DEF bytes, cut
  <2> QED
    BY <1>7, <1>8, <1>9, SameFlatten
<1>11. ASSUME NEW i \in 1..n
       PROVE  parts[i].size <= size /\ (parts[i].size = size \/ i = Len(parts))
  BY <1>2, <1>3, <1>4 DEF PartAt
<1> QED
  BY <1>2, <1>10, <1>11

\* A range of n bytes from a on.
LEMMA Counted ==
    ASSUME NEW a \in Nat, NEW n \in Nat \ {0}
    PROVE  /\ Stream!Cardinality(a..(a + n - 1)) = n
           /\ Stream!Min(a..(a + n - 1)) = a
           /\ Stream!Max(a..(a + n - 1)) = a + n - 1
<1> DEFINE b == a + n - 1
<1>1. b \in Nat /\ a <= b /\ b - a + 1 = n
  OBVIOUS
<1> HIDE DEF b
<1>2. Cardinality(a..b) = n
  BY <1>1, FS_Interval
<1>3. Stream!Cardinality(a..b) = Cardinality(a..b)
  BY Zenon DEF Stream!Cardinality, Cardinality
<1>4. Stream!Min(a..b) = a
  BY <1>1 DEF Stream!Min
<1>5. Stream!Max(a..b) = b
  BY <1>1 DEF Stream!Max
<1> QED
  BY <1>2, <1>3, <1>4, <1>5 DEF b

\* An answer that is complete is what was asked for.
LEMMA ServeMeans ==
    ASSUME StreamInv
    PROVE  Stream!ServedIsHashed
<1> DEFINE i == asked.part
           n == AskedSize
           answer == Answer
           s == answer.start
           l == answer.length
<1>1. TarInv /\ PartsInv /\ ReaderInv /\ ServeInv
  BY DEF StreamInv
<1>2. CASE pc \in {"sent", "refused"}
  <2>1. i \in 1..Len(parts) /\ asked.header \in Stream!Headers(n)
    BY <1>1, <1>2 DEF ServeInv
  <2>2. parts[i] = PartAt(i) /\ n = SizeOf(i) /\ n \in Nat \ {0} /\ Base(i) \in Nat
    BY <1>1, <1>2, <2>1, AskedIs DEF AskedSize
  <2>3. Stream!Wanted = WantedIn(asked.header, n)
    BY DEF Stream!Wanted, WantedIn, AskedSize
  <2>4. answer = Stream!Ranged(asked.header, n)
    BY DEF Answer
  <2> HIDE DEF n, answer
  <2>5. /\ answer.status = 416 => Stream!Wanted = {}
        /\ answer.status # 416 =>
             /\ s \in Nat /\ l \in Nat \ {0} /\ s + l <= n
             /\ Stream!Wanted = s..(s + l - 1)
    BY <2>1, <2>2, <2>3, <2>4, RangedIs
  <2>6. CASE pc = "refused"
    <3>1. answer.status = 416
      BY <1>1, <2>6 DEF ServeInv, answer
    <3> QED
      BY <2>5, <2>6, <3>1 DEF Stream!ServedIsHashed
  <2>7. CASE pc = "sent"
    <3> DEFINE o == reader.offset
    <3>1. /\ answer.status # 416 /\ o = Base(i) + s /\ reader.end = o + l
          /\ Len(sent) \in Nat /\ Position = o + Len(sent) /\ Position = reader.end
          /\ disk = "kept" => sent = Span(o, Len(sent))
      BY <1>1, <2>7 DEF ServeInv, answer
    <3>2. /\ s \in Nat /\ l \in Nat \ {0} /\ s + l <= n /\ Stream!Wanted = s..(s + l - 1)
      BY <2>5, <3>1
    <3>3. o \in Nat
      BY <1>1 DEF ReaderInv, ReaderType
    <3> HIDE DEF s, l, o, i
    <3>4. Len(sent) = l
      BY <3>1, <3>2, <3>3
    <3>5. Stream!Cardinality(Stream!Wanted) = l /\ Stream!Min(Stream!Wanted) = s
          /\ Stream!Max(Stream!Wanted) = s + l - 1
      BY <3>2, Counted
    <3>6. Stream!Slice(parts[i].bytes, s, s + l) = Span(o, l)
      <4>1. parts[i].bytes = Span(Base(i), n)
        BY <2>2 DEF PartAt
      <4>2. Len(Span(Base(i), n)) = n
        BY <2>2, SpanIs
      <4>3. Stream!Min({s + l, n}) = s + l
        <5>1. s + l \in Int /\ n \in Int
          BY <2>2, <3>2
        <5> QED
          BY <3>2, <5>1, MinIs
      <4>4. SubSeq(Span(Base(i), n), s + 1, s + l) = Span(Base(i) + s, (s + l) - s)
        <5>1. Base(i) \in Int /\ n \in Nat /\ s \in 0..n /\ s + l \in s..n
          BY <2>2, <3>2
        <5> DEFINE e == s + l
        <5> HIDE DEF e
        <5>2. SubSeq(Span(Base(i), n), s + 1, e) = Span(Base(i) + s, e - s)
          BY <5>1, SpanCut DEF e
        <5> QED
          BY <5>2 DEF e
      <4>5. (s + l) - s = l
        BY <3>2
      <4> QED
        BY <3>1, <4>1, <4>2, <4>3, <4>4, <4>5 DEF Stream!Slice
    <3>7. (s + l - 1) + 1 = s + l
      BY <3>2
    <3>8. disk = "kept" =>
            sent = Stream!Slice(parts[i].bytes, Stream!Min(Stream!Wanted), Stream!Max(Stream!Wanted) + 1)
      BY <3>1, <3>4, <3>5, <3>6, <3>7
    <3> QED
      BY <2>7, <3>4, <3>5, <3>8 DEF Stream!ServedIsHashed, i
  <2> QED
    BY <1>2, <2>6, <2>7
<1>3. CASE pc \notin {"sent", "refused"}
  BY <1>3 DEF Stream!ServedIsHashed
<1> QED
  BY <1>2, <1>3

\* The steps of the other scenes.
LEMMA StreamStays ==
    ASSUME StreamInv, UNCHANGED streamVars
    PROVE  StreamInv'
<1>1. UNCHANGED <<tar, size, disk, reader, view, filled, whole, parts, pc, asked, sent>>
  BY DEF streamVars
<1>2. /\ TarInv' /\ NumberOfParts' = NumberOfParts /\ Answer' = Answer /\ AskedSize' = AskedSize
      /\ Stream!Total' = Stream!Total
      /\ \A k : Base(k)' = Base(k) /\ PartAt(k)' = PartAt(k)
  BY <1>1, AskedStays
<1>3. ReaderInv' /\ Position' = Position
  BY <1>1, ReaderStays DEF StreamInv
<1>4. PartsInv'
  BY <1>1, <1>2 DEF StreamInv, PartsInv
<1>5. HashInv'
  BY <1>1, <1>2, <1>3 DEF StreamInv, HashInv, Base
<1>6. ServeInv'
  BY <1>1, <1>2, <1>3 DEF StreamInv, ServeInv
<1> QED
  BY <1>2, <1>3, <1>4, <1>5, <1>6 DEF StreamInv

\* What nobody looks at once it is hashed keeps its type.
StreamTyped ==
    /\ size \in PartSizes
    /\ disk \in {"kept", "rewritten", "shorter"}
    /\ view \in Seq(Int) /\ filled \in Seq(Int) /\ whole \in Seq(Int) /\ sent \in Seq(Int)

LEMMA StreamTypesStart ==
    ASSUME Stream!Init
    PROVE  StreamTyped
BY DEF Stream!Init, StreamTyped

\* What is being hashed are spans of the tar.
LEMMA HashedAreSpans ==
    ASSUME TarInv', HashInv', PartsInv', pc' = "hash"
    PROVE  view' \in Seq(Int) /\ filled' \in Seq(Int) /\ whole' \in Seq(Int)
<1> DEFINE base == Base(Len(parts) + 1)'
<1>1. /\ Len(whole') \in Nat /\ Len(view') \in Nat /\ Len(filled') \in Nat
      /\ whole' = Span(0, Len(whole'))
      /\ view' = Span(Len(whole'), Len(view'))
      /\ filled' = Span(base, Len(filled'))
  BY DEF HashInv
<1>2. base \in Int
  <2>1. Len(parts') \in Nat /\ size' \in Nat
    BY DEF TarInv, PartsInv
  <2>2. base = Len(parts') * size'
    BY <2>1 DEF Base
  <2> QED
    BY <2>1, <2>2, Product
<1> HIDE DEF base
<1>3. /\ Span(0, Len(whole')) \in Seq(Int)
      /\ Span(Len(whole'), Len(view')) \in Seq(Int)
      /\ Span(base, Len(filled')) \in Seq(Int)
  BY <1>1, <1>2, SpanIs
<1> QED
  BY <1>1, <1>3

LEMMA StreamTypesStep ==
    ASSUME StreamInv, StreamInv', StreamTyped, Stream!Next \/ UNCHANGED streamVars
    PROVE  StreamTyped'
<1>1. CASE Stream!HashSkip \/ Stream!HashChunk \/ Stream!Take
  <2>1. pc' = "hash" /\ UNCHANGED <<size, disk, sent>>
    BY <1>1 DEF Stream!HashSkip, Stream!HashChunk, Stream!Take
  <2>2. view' \in Seq(Int) /\ filled' \in Seq(Int) /\ whole' \in Seq(Int)
    BY <2>1, HashedAreSpans DEF StreamInv
  <2> QED
    BY <2>1, <2>2 DEF StreamTyped
<1>2. CASE Stream!StreamChunk
  <2>1. pc' = "stream" /\ UNCHANGED <<size, disk, view, filled, whole>>
    BY <1>2 DEF Stream!StreamChunk
  <2>2. sent' \in Seq(Int)
    BY <2>1 DEF StreamInv, ServeInv
  <2> QED
    BY <2>1, <2>2 DEF StreamTyped
<1>3. CASE \/ Stream!Store \/ Stream!Ask \/ Stream!StreamSkip \/ Stream!StreamCut
           \/ Stream!StreamEnd \/ UNCHANGED streamVars
           \/ \E how \in {"rewritten", "shorter"} : Stream!Change(how)
  <2>1. disk' \in {disk, "rewritten", "shorter"} /\ UNCHANGED <<size, view, filled, whole, sent>>
    BY <1>3 DEF Stream!Store, Stream!Ask, Stream!StreamSkip, Stream!StreamCut, Stream!StreamEnd,
                Stream!Change, streamVars
  <2> QED
    BY <2>1 DEF StreamTyped
<1> QED
  BY <1>1, <1>2, <1>3 DEF Stream!Next, Stream!Server

\* A part that is closed is a part.
LEMMA StreamTypes ==
    ASSUME StreamInv, StreamTyped
    PROVE  Stream!TypeOK
<1>1. \A k \in DOMAIN tar : tar[k] \in [file : Nat, size : Nat, offset : Nat]
  <2>1. tar \in Seq(SegmentType)
    BY DEF StreamInv, TarInv
  <2>2. \A k \in DOMAIN tar : tar[k] \in SegmentType
    BY <2>1
  <2> QED
    BY <2>2 DEF SegmentType
<1>2. reader.offset \in 0..Stream!Total /\ reader.end \in 0..Stream!Total
      /\ reader.at \in 1..(Len(tar) + 1)
  BY DEF StreamInv, TarInv, ReaderInv, ReaderType
<1>3. ASSUME NEW i \in DOMAIN parts
      PROVE  parts[i] \in [offset : Nat, size : Nat, bytes : Seq(Int)]
  <2>1. DOMAIN parts = 1..Len(parts) /\ parts[i] = PartAt(i)
    BY DEF StreamInv, PartsInv
  <2>2. Len(parts) <= NumberOfParts
    BY RangesAre DEF StreamInv, HashInv, PartsInv
  <2>3. i \in 1..NumberOfParts
    BY <2>1, <2>2, RangesAre DEF StreamInv, PartsInv
  <2>4. Base(i) \in Nat /\ SizeOf(i) \in Nat
    BY <2>3, RangesAre DEF StreamInv, TarInv
  <2>5. Span(Base(i), SizeOf(i)) \in Seq(Int)
    BY <2>4, SpanIs
  <2> QED
    BY <2>1, <2>4, <2>5 DEF PartAt
<1>4. pc \in Stream!PcS
  BY DEF StreamInv, ServeInv
<1> QED
  BY <1>1, <1>2, <1>3, <1>4 DEF StreamTyped, Stream!TypeOK, Stream!Bytes

\* ... in its scene.
StreamSceneInv == scene = "model" => StreamInv /\ StreamTyped

\* The invariant of the stream, in its scene.
LEMMA StreamHolds == MCSafety => []StreamSceneInv
<1>1. MCInit => StreamSceneInv
  BY StreamStarts, StreamTypesStart DEF MCInit, StreamSceneInv
<1>2. StreamSceneInv /\ [MCNext]_all => StreamSceneInv'
  <2> SUFFICES ASSUME StreamSceneInv, [MCNext]_all, scene' = "model"
               PROVE  StreamInv' /\ StreamTyped'
    BY DEF StreamSceneInv
  <2>1. scene = "model" /\ (Stream!Next \/ UNCHANGED streamVars)
    BY DEF MCNext, all, SplitScene, DownloadScene, ModelScene, KitScene, BenchScene, TuiScene,
           FetchScene, MoveScene
  <2>2. StreamInv /\ StreamTyped
    BY <2>1 DEF StreamSceneInv
  <2>3. StreamInv'
    BY <2>1, <2>2, StreamStep, StreamStays
  <2> QED
    BY <2>1, <2>2, <2>3, StreamTypesStep
<1> QED
  BY <1>1, <1>2, PTL DEF MCSafety

(***************************************************************************)
(* The parts that hash_parts cuts from the tar of a model folder are the   *)
(* tar, whatever the files, the chunks of the reader and the part size,    *)
(* and only the last is smaller than configured (vtar.py, splitting.py).   *)
(***************************************************************************)
THEOREM CutsTheTar == MCSafety => []PartsAreTheTar
<1>1. StreamSceneInv => PartsAreTheTar
  BY PartsMean DEF StreamSceneInv, PartsAreTheTar
<1> QED
  BY <1>1, StreamHolds, PTL

(***************************************************************************)
(* A complete answer to any Range header has the bytes it asks for of the  *)
(* part that was hashed, unless a file of the folder was changed meanwhile,*)
(* and as many even then; a refused header asks for none (api._ranged).    *)
(***************************************************************************)
THEOREM ServesTheHashed == MCSafety => []ServedIsHashed
<1>1. StreamSceneInv => ServedIsHashed
  BY ServeMeans DEF StreamSceneInv, ServedIsHashed
<1> QED
  BY <1>1, StreamHolds, PTL

\* The scenes take no step of a split or a download but those of SplitDownload.
LEMMA ScenesSplit == MCSafety => Spec
<1>1. MCInit => Init
  BY DEF MCInit
<1>2. [MCNext]_all => [Next]_vars
  <2>1. Server({q1}) => Server(Requests)
    BY SceneAssumption DEF Server
  <2>2. ASSUME SplitScene \/ DownloadScene
        PROVE  Next
    BY <2>1, <2>2 DEF Next, SplitScene, DownloadScene
  <2>3. ASSUME ModelScene \/ KitScene \/ BenchScene \/ TuiScene \/ FetchScene \/ MoveScene
        PROVE  UNCHANGED vars
    BY <2>3 DEF ModelScene, KitScene, BenchScene, TuiScene, FetchScene, MoveScene
  <2>4. UNCHANGED all => UNCHANGED vars
    BY DEF all
  <2> QED
    BY <2>2, <2>3, <2>4 DEF MCNext
<1> QED
  BY <1>1, <1>2, PTL DEF MCSafety, Spec

(***************************************************************************)
(* The same in the scenes of MCOffline, next to everything else.           *)
(***************************************************************************)
THEOREM HoldInTheScenes ==
    MCSafety => [](OneRunPerBuild /\ OfferedIsOnDisk /\ RestoredIsExported /\ VerifiedIsListed)
<1>1. UInv => OneRunPerBuild /\ OfferedIsOnDisk
  BY AtMostOneRun, OnDisk DEF UInv
<1>2. UInv => RestoredIsExported /\ VerifiedIsListed
  BY DEF UInv, Scripts, Exports, RestoredIsExported
<1> QED
  BY <1>1, <1>2, ScenesSplit, UserInductive, PTL
=============================================================================
