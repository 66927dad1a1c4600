------------------------ MODULE BuildArtifactsProofs ------------------------
(***************************************************************************)
(* Scans and builds refer to each other, images are kept and scans are of  *)
(* their own image: for any number of builds, references that share        *)
(* archives, scans and restarts.                                           *)
(***************************************************************************)
EXTENDS BuildArtifacts, FiniteSetTheorems, TLAPS

ScanType == [state : ScanActive \cup {"none", "completed", "failed"},
             build : Builds \cup {None},
             source : {None, "existing", "verified", "temporary"},
             saw : Content, rivals : SUBSET Builds]
ReqType == [pc : {"idle", "checked", "scansgone", "looked", "unlinked", "removed"},
            build : Builds \cup {None}, paths : SUBSET Files, refs : SUBSET Refs]

\* The columns and the stage of each build.
RowTypes ==
    /\ status \in [Builds -> Rows \cup {"absent", "deleted"}]
    /\ ref \in [Builds -> Refs \cup {None}]
    /\ stage \in [Builds -> Writing \cup {"none", "building", "tail"}]
    /\ sum \in [Builds -> Content]
    /\ condemned \subseteq Builds
    /\ restarts \in 0 .. MaxRestarts

\* What is on disk and in the runtime.
DiskTypes ==
    /\ file \in [Files -> Content]
    /\ image \in [Refs -> Builds \cup {None}]

ScanTypes ==
    /\ scan \in [Scans -> ScanType]
    /\ scanQueue \subseteq Scans

ReqTypes == req \in [Requests -> ReqType]

Types == RowTypes /\ DiskTypes /\ ScanTypes /\ ReqTypes

LEMMA TypesAreTypeOK == Types => TypeOK
  BY DEF Types, RowTypes, DiskTypes, ScanTypes, ReqTypes, TypeOK, ScanType, ReqType

\* A build that is under way has a row and a reference, and its status says so.
Staged ==
    \A b \in Builds :
        /\ status[b] # "absent" => ref[b] \in Refs
        /\ stage[b] # "none" => status[b] # "absent"
        /\ stage[b] \in Writing \cup {"building"} => status[b] = "running"

\* Only a finished build is deleted, and it does not run again.
Condemned ==
    /\ \A q \in Requests : req[q].pc # "idle" => req[q].build \in condemned
    /\ \A b \in condemned : status[b] \in {"ready", "failed", "deleted"}

\* A scan row is of a finished build, and a queued scan was not begun.
Scanned ==
    /\ \A s \in Scans :
         scan[s].state # "none" => scan[s].build \in Builds /\ status[scan[s].build] = "ready"
    /\ \A s \in scanQueue : scan[s].state = "queued"

IInv == Types /\ Staged /\ Condemned /\ Scanned
-----------------------------------------------------------------------------
LEMMA InitInv == Init => IInv
<1> SUFFICES ASSUME Init PROVE IInv
  OBVIOUS
<1>1. RowTypes /\ DiskTypes
  BY WorkersAssumption DEF Init, RowTypes, DiskTypes, Content
<1>2. ScanTypes /\ ReqTypes
  <2>1. NoScan \in ScanType /\ NoReq \in ReqType
    BY DEF NoScan, ScanType, Content, NoReq, ReqType
  <2> QED
    BY <2>1 DEF Init, ScanTypes, ReqTypes
<1>3. Staged /\ Condemned /\ Scanned
  BY DEF Init, Staged, Condemned, Scanned, NoScan, NoReq, Writing
<1> QED
  BY <1>1, <1>2, <1>3 DEF IInv, Types

LEMMA ScanSteps ==
    ASSUME NEW r \in ScanType
    PROVE  /\ Failed(r) \in ScanType
           /\ \A x \in ScanActive \cup {"none", "completed", "failed"} :
                [r EXCEPT !.state = x] \in ScanType
           /\ \A v \in Content : [r EXCEPT !.saw = v] \in ScanType
           /\ \A v \in {None, "existing", "verified", "temporary"} :
                [r EXCEPT !.source = v] \in ScanType
           /\ \A v \in SUBSET Builds : [r EXCEPT !.rivals = v] \in ScanType
<1>1. Failed(r) \in ScanType
  BY DEF Failed, NoScan, ScanType, Content
<1> QED
  BY <1>1 DEF ScanType

LEMMA ReqSteps ==
    ASSUME NEW r \in ReqType
    PROVE  /\ NoReq \in ReqType
           /\ \A x \in {"idle", "checked", "scansgone", "looked", "unlinked", "removed"} :
                [r EXCEPT !.pc = x] \in ReqType
           /\ \A v \in Builds : [r EXCEPT !.build = v] \in ReqType
           /\ \A v \in SUBSET Files : [r EXCEPT !.paths = v] \in ReqType
           /\ \A v \in SUBSET Refs : [r EXCEPT !.refs = v] \in ReqType
<1>1. NoReq \in ReqType
  BY DEF NoReq, ReqType
<1> QED
  BY <1>1 DEF ReqType

LEMMA ArchiveType ==
    ASSUME IInv, NEW b \in Builds, status[b] # "absent"
    PROVE  ref[b] \in Refs /\ Archive(b) \in Files
  BY FileOfAssumption DEF IInv, Staged, Archive
-----------------------------------------------------------------------------
LEMMA CreateInv ==
    ASSUME IInv, NEW b \in Builds, NEW r \in Refs, Create(b, r)
    PROVE  IInv'
<1> USE DEF IInv, Types
<1>1. Types'
  BY DEF Create, RowTypes, DiskTypes, ScanTypes, ReqTypes, Rows, scanVars, reqVars
<1>2. Staged' /\ Condemned' /\ Scanned'
  BY DEF Create, RowTypes, Staged, Condemned, Scanned, Writing, scanVars, reqVars
<1> QED
  BY <1>1, <1>2

LEMMA StartInv ==
    ASSUME IInv, NEW b \in Builds, Start(b)
    PROVE  IInv'
<1> USE DEF IInv, Types
<1>1. RowTypes' /\ DiskTypes' /\ ReqTypes'
  BY DEF Start, Goto, RowTypes, DiskTypes, ReqTypes, Rows, reqVars
<1>2. ScanTypes'
  <2>1. ASSUME NEW s \in Scans
        PROVE  [scan[s] EXCEPT !.rivals = @ \cup {b}] \in ScanType
    BY ScanSteps DEF ScanTypes, ScanType
  <2> QED
    BY <2>1 DEF Start, ScanTypes
<1>3. \A s \in Scans : scan'[s].state = scan[s].state /\ scan'[s].build = scan[s].build
  BY DEF Start, ScanTypes, ScanType
<1>4. Staged' /\ Condemned'
  BY DEF Start, Goto, RowTypes, Staged, Condemned, Writing, reqVars
<1>5. Scanned'
  BY <1>3 DEF Start, RowTypes, ScanTypes, Scanned
<1> QED
  BY <1>1, <1>2, <1>4, <1>5

\* The steps of a running build after its first.
LEMMA RunInv ==
    ASSUME IInv, NEW b \in Builds,
           TagImage(b) \/ WriteBegin(b) \/ WriteEnd(b) \/ Hash(b) \/ Ready(b) \/ RunFails(b)
    PROVE  IInv'
<1> USE DEF IInv, Types
<1>1. stage[b] \in Writing \cup {"building"} /\ status[b] = "running"
  BY DEF TagImage, WriteBegin, WriteEnd, Hash, Ready, RunFails, Staged, Writing
<1>2. ref[b] \in Refs /\ Archive(b) \in Files
  BY <1>1, ArchiveType
<1>3. ScanTypes' /\ ReqTypes' /\ UNCHANGED <<scan, scanQueue, req, condemned, restarts, ref>>
  BY DEF TagImage, WriteBegin, WriteEnd, Hash, Ready, RunFails, ScanTypes, ReqTypes, scanVars,
         reqVars
<1>4. /\ stage' \in [Builds -> Writing \cup {"none", "building", "tail"}]
      /\ sum' \in [Builds -> Content]
      /\ status' \in [Builds -> Rows \cup {"absent", "deleted"}]
  BY <1>2 DEF TagImage, WriteBegin, WriteEnd, Hash, Ready, RunFails, Goto, RowTypes, DiskTypes,
              Rows, Writing, Content
<1>5. DiskTypes'
  BY <1>2 DEF TagImage, WriteBegin, WriteEnd, Hash, Ready, RunFails, DiskTypes, Content
<1>6. \/ status' = status /\ \E x \in Writing : stage' = [stage EXCEPT ![b] = x]
      \/ \E x \in {"none", "tail"}, y \in {"ready", "failed"} :
           stage' = [stage EXCEPT ![b] = x] /\ status' = [status EXCEPT ![b] = y]
  BY DEF TagImage, WriteBegin, WriteEnd, Hash, Ready, RunFails, Goto, Writing
<1>7. Staged' /\ Condemned' /\ Scanned'
  BY <1>1, <1>3, <1>6 DEF Staged, Condemned, Scanned, RowTypes, Writing
<1> QED
  BY <1>3, <1>4, <1>5, <1>7 DEF RowTypes

LEMMA NewScanInv ==
    ASSUME IInv, NEW s \in Scans, NEW b \in Builds, NewScan(s, b)
    PROVE  ScanTypes' /\ (UNCHANGED status => Scanned')
<1>1. ScanTypes'
  <2>1. [state |-> "queued", build |-> b, source |-> None, saw |-> None, rivals |-> {}]
          \in ScanType
    BY DEF ScanType, ScanActive, Content
  <2> QED
    BY <2>1 DEF NewScan, IInv, Types, ScanTypes
<1>2. ASSUME UNCHANGED status PROVE Scanned'
  BY <1>2 DEF NewScan, IInv, Types, ScanTypes, Scanned
<1> QED
  BY <1>1, <1>2

LEMMA AfterBuildInv ==
    ASSUME IInv, NEW b \in Builds, AfterBuild(b)
    PROVE  IInv'
<1> USE DEF IInv, Types
<1>1. RowTypes' /\ DiskTypes' /\ ReqTypes'
  BY DEF AfterBuild, Goto, RowTypes, DiskTypes, ReqTypes, reqVars
<1>2. Staged' /\ Condemned'
  BY DEF AfterBuild, Goto, RowTypes, Staged, Condemned, Writing, reqVars
<1>3. ScanTypes' /\ Scanned'
  <2>1. CASE \E s \in Scans : NewScan(s, b)
    BY <2>1, NewScanInv DEF AfterBuild
  <2>2. CASE UNCHANGED scanVars
    BY <2>2 DEF AfterBuild, scanVars, ScanTypes, Scanned
  <2> QED
    BY <2>1, <2>2 DEF AfterBuild
<1> QED
  BY <1>1, <1>2, <1>3

LEMMA RequestScanInv ==
    ASSUME IInv, NEW s \in Scans, NEW b \in Builds, RequestScan(s, b)
    PROVE  IInv'
<1> USE DEF IInv, Types
<1>1. RowTypes' /\ DiskTypes' /\ ReqTypes' /\ Staged' /\ Condemned'
  BY DEF RequestScan, RowTypes, DiskTypes, ReqTypes, Staged, Condemned, buildVars, reqVars
<1>2. ScanTypes' /\ Scanned'
  BY NewScanInv DEF RequestScan, buildVars
<1> QED
  BY <1>1, <1>2
-----------------------------------------------------------------------------
LEMMA RunScanInv ==
    ASSUME IInv, NEW s \in Scans, RunScan(s)
    PROVE  IInv'
<1> USE DEF IInv, Types
<1>1. /\ UNCHANGED <<buildVars, file, image, reqVars, restarts>>
      /\ scanQueue' \subseteq scanQueue
      /\ \E r \in ScanType :
           /\ scan' = [scan EXCEPT ![s] = r]
           /\ r.build = scan[s].build
           /\ scan[s].state # "none"
           /\ r.state = "queued" => s \notin scanQueue' /\ scan[s].state = "queued"
           /\ s \in scanQueue => s \notin scanQueue'
  <2>1. CASE TakeScan(s)
    <3> DEFINE R == {b \in Builds : stage[b] # "none"}
               r == [scan[s] EXCEPT !.state = "exporting", !.rivals = R]
    <3>1. r \in ScanType /\ r.build = scan[s].build /\ r.state = "exporting"
      BY DEF ScanTypes, ScanType, ScanActive
    <3>2. scan' = [scan EXCEPT ![s] = r] /\ scanQueue' = scanQueue \ {s}
      BY <2>1 DEF TakeScan
    <3>3. scan[s].state = "queued"
      BY <2>1 DEF TakeScan, Scanned
    <3> HIDE DEF r
    <3> QED
      BY <2>1, <3>1, <3>2, <3>3 DEF TakeScan
  <2>2. CASE ~TakeScan(s)
    <3>1. /\ scan[s].state \in {"exporting", "scanning"}
          /\ UNCHANGED <<buildVars, file, image, scanQueue, reqVars, restarts>>
      BY <2>2 DEF RunScan, UseExport, VerifyReference, CopyImage, Record, ScanFails, Becomes
    <3>2. s \notin scanQueue
      BY <3>1 DEF Scanned
    <3>3. \E r \in ScanType :
            /\ scan' = [scan EXCEPT ![s] = r]
            /\ r.build = scan[s].build
            /\ r.state # "queued"
      <4>1. CASE UseExport(s) \/ VerifyReference(s)
        <5>1. PICK f \in {"exporting", "scanning"}, v \in {"existing", "verified"} :
                scan' = [scan EXCEPT ![s].state = f, ![s].source = v]
          BY <4>1 DEF UseExport, VerifyReference, Becomes
        <5> DEFINE r == [scan[s] EXCEPT !.state = f, !.source = v]
        <5>2. r \in ScanType /\ r.build = scan[s].build /\ r.state = f
          BY DEF ScanTypes, ScanType, ScanActive
        <5>3. scan' = [scan EXCEPT ![s] = r]
          BY <5>1
        <5> HIDE DEF r
        <5> QED
          BY <5>2, <5>3
      <4>2. CASE CopyImage(s)
        <5> DEFINE v == image[ref[scan[s].build]]
                   r == [scan[s] EXCEPT !.state = "scanning", !.source = "temporary", !.saw = v]
        <5>1. scan[s].build \in Builds /\ status[scan[s].build] # "absent"
          BY <3>1 DEF Scanned
        <5>2. v \in Content
          BY <5>1, ArchiveType DEF DiskTypes, Content
        <5>3. r \in ScanType /\ r.build = scan[s].build /\ r.state = "scanning"
          BY <5>2 DEF ScanTypes, ScanType, ScanActive
        <5>4. scan' = [scan EXCEPT ![s] = r]
          BY <4>2 DEF CopyImage
        <5> HIDE DEF r
        <5> QED
          BY <5>3, <5>4
      <4>3. CASE Record(s)
        <5> DEFINE v == IF scan[s].source = "existing"
                        THEN file[Archive(scan[s].build)] ELSE scan[s].saw
                   r == [scan[s] EXCEPT !.state = "completed", !.saw = v]
        <5>1. scan[s].build \in Builds /\ status[scan[s].build] # "absent"
          BY <3>1 DEF Scanned
        <5>2. v \in Content
          BY <5>1, ArchiveType DEF DiskTypes, ScanTypes, ScanType
        <5>3. r \in ScanType /\ r.build = scan[s].build /\ r.state = "completed"
          BY <5>2 DEF ScanTypes, ScanType
        <5>4. scan' = [scan EXCEPT ![s] = r]
          BY <4>3 DEF Record
        <5> HIDE DEF r
        <5> QED
          BY <5>3, <5>4
      <4>4. CASE ScanFails(s)
        <5>1. Failed(scan[s]) \in ScanType
          BY ScanSteps DEF ScanTypes
        <5>2. Failed(scan[s]).build = scan[s].build /\ Failed(scan[s]).state = "failed"
          BY DEF Failed, NoScan
        <5> QED
          BY <4>4, <5>1, <5>2 DEF ScanFails
      <4> QED
        BY <2>2, <4>1, <4>2, <4>3, <4>4 DEF RunScan
    <3> QED
      BY <3>1, <3>2, <3>3
  <2> QED
    BY <2>1, <2>2
<1>2. RowTypes' /\ DiskTypes' /\ ReqTypes' /\ Staged' /\ Condemned'
  BY <1>1 DEF RowTypes, DiskTypes, ReqTypes, Staged, Condemned, buildVars, reqVars
<1>3. ScanTypes' /\ Scanned'
  <2>1. PICK r \in ScanType :
           /\ scan' = [scan EXCEPT ![s] = r]
           /\ r.build = scan[s].build
           /\ scan[s].state # "none"
           /\ r.state = "queued" => s \notin scanQueue' /\ scan[s].state = "queued"
           /\ s \in scanQueue => s \notin scanQueue'
    BY <1>1
  <2>2. ScanTypes'
    BY <1>1, <2>1 DEF ScanTypes
  <2>3. Scanned'
    BY <1>1, <2>1 DEF ScanTypes, Scanned, buildVars
  <2> QED
    BY <2>2, <2>3
<1> QED
  BY <1>2, <1>3
-----------------------------------------------------------------------------
LEMMA DeleteBeginInv ==
    ASSUME IInv, NEW q \in Requests, NEW b \in Builds, DeleteBegin(q, b)
    PROVE  IInv'
<1> USE DEF IInv, Types
<1>1. RowTypes' /\ DiskTypes' /\ ScanTypes' /\ Staged' /\ Scanned'
  BY DEF DeleteBegin, RowTypes, DiskTypes, ScanTypes, Staged, Scanned, buildVars, scanVars
<1>2. ReqTypes' /\ Condemned'
  <2> DEFINE r == [req[q] EXCEPT !.pc = "checked", !.build = b]
  <2>1. r \in ReqType /\ r.build = b
    BY DEF ReqTypes, ReqType
  <2>2. req' = [req EXCEPT ![q] = r]
    BY DEF DeleteBegin
  <2> HIDE DEF r
  <2> QED
    BY <2>1, <2>2 DEF DeleteBegin, ReqTypes, Condemned, buildVars
<1> QED
  BY <1>1, <1>2

\* A step of a request leaves its build where it is, or ends the request.
LEMMA RequestStep ==
    ASSUME IInv, NEW q \in Requests, DeleteBuild(q)
    PROVE  /\ req[q].pc # "idle" /\ req[q].build \in condemned
           /\ ReqTypes'
           /\ \/ req' = [req EXCEPT ![q] = NoReq]
              \/ \E r \in ReqType : req' = [req EXCEPT ![q] = r] /\ r.build = req[q].build
<1> USE DEF IInv, Types
<1>1. req[q] \in ReqType
  BY DEF ReqTypes
<1>2. req[q].pc # "idle"
  BY DEF DeleteBuild, DeleteScans, Look, Unlink, RemoveImage, DeleteRow, At
<1>3. \/ req' = [req EXCEPT ![q] = NoReq]
      \/ \E r \in ReqType : req' = [req EXCEPT ![q] = r] /\ r.build = req[q].build
  <2>1. ASSUME NEW from, NEW x \in {"idle", "checked", "scansgone", "looked", "unlinked", "removed"},
               At(q, from, x)
        PROVE  \E r \in ReqType : req' = [req EXCEPT ![q] = r] /\ r.build = req[q].build
    <3>1. [req[q] EXCEPT !.pc = x] \in ReqType /\ [req[q] EXCEPT !.pc = x].build = req[q].build
      BY <1>1 DEF ReqType
    <3> QED
      BY <2>1, <3>1 DEF At
  <2>2. CASE Look(q) /\ InTable(req[q].build)
    <3> DEFINE others == {c \in Builds \ {req[q].build} : InTable(c)}
               P == {Archive(c) : c \in {d \in others : status[d] = "ready"}}
               R == {ref[c] : c \in others}
               r == [req[q] EXCEPT !.pc = "looked", !.paths = P, !.refs = R]
    <3>1. P \subseteq Files /\ R \subseteq Refs
      BY ArchiveType DEF InTable, Rows
    <3>2. r \in ReqType /\ r.build = req[q].build
      BY <1>1, <3>1 DEF ReqType
    <3>3. req' = [req EXCEPT ![q] = r]
      BY <2>2 DEF Look
    <3> HIDE DEF r
    <3> QED
      BY <3>2, <3>3
  <2>3. CASE DeleteScans(q) \/ Unlink(q) \/ RemoveImage(q)
    BY <2>1, <2>3 DEF DeleteScans, Unlink, RemoveImage, Done
  <2>4. CASE Look(q) /\ ~InTable(req[q].build)
    BY <2>4 DEF Look, Done
  <2>5. CASE DeleteRow(q)
    BY <2>5 DEF DeleteRow, Done
  <2> HIDE DEF IInv, Types
  <2> QED
    BY <2>2, <2>3, <2>4, <2>5 DEF DeleteBuild
<1>4. ReqTypes'
  BY <1>3, ReqSteps, <1>1 DEF ReqTypes
<1> QED
  BY <1>2, <1>3, <1>4 DEF Condemned

LEMMA DeleteBuildInv ==
    ASSUME IInv, NEW q \in Requests, DeleteBuild(q)
    PROVE  IInv'
<1> USE DEF IInv, Types
<1> DEFINE b == req[q].build
<1>0. /\ req[q].pc # "idle" /\ b \in condemned /\ b \in Builds
      /\ status[b] \in {"ready", "failed", "deleted"}
  BY RequestStep DEF Condemned, RowTypes
<1>1. ReqTypes'
  BY RequestStep
<1>2. /\ UNCHANGED <<ref, stage, condemned, restarts, scanQueue>>
      /\ \/ UNCHANGED <<status, sum>>
         \/ /\ DeleteRow(q) /\ ScanRows(b) = {}
            /\ status' = [status EXCEPT ![b] = "deleted"] /\ sum' = [sum EXCEPT ![b] = None]
  BY DEF DeleteBuild, DeleteScans, Look, Unlink, RemoveImage, DeleteRow, buildVars, scanVars
<1>3. RowTypes' /\ Staged'
  BY <1>0, <1>2 DEF RowTypes, Staged, Content
<1>4. Condemned'
  <2>1. \A p \in Requests : req'[p].pc # "idle" => req'[p].build = req[p].build /\ req[p].pc # "idle"
    BY RequestStep DEF ReqTypes, NoReq
  <2> QED
    BY <1>0, <1>2, <2>1 DEF Condemned, RowTypes
<1>5. DiskTypes'
  <2>1. CASE Unlink(q)
    BY <2>1 DEF Unlink, DiskTypes, Content
  <2>2. CASE RemoveImage(q)
    BY <2>2 DEF RemoveImage, DiskTypes
  <2>3. CASE DeleteScans(q) \/ Look(q) \/ DeleteRow(q)
    BY <2>3 DEF DeleteScans, Look, DeleteRow, DiskTypes
  <2> QED
    BY <2>1, <2>2, <2>3 DEF DeleteBuild
<1>6. ScanTypes' /\ Scanned'
  <2>1. CASE DeleteScans(q) /\ scan' # scan
    <3> DEFINE gone == [NoScan EXCEPT !.build = b]
    <3>1. gone \in ScanType /\ gone.state = "none"
      BY <1>0 DEF NoScan, ScanType, Content
    <3>2. /\ \A s \in ScanRows(b) : scan[s].state \notin ScanActive
          /\ scan' = [s \in Scans |-> IF s \in ScanRows(b) THEN gone ELSE scan[s]]
          /\ UNCHANGED <<status, scanQueue>>
      BY <2>1 DEF DeleteScans, buildVars
    <3> HIDE DEF gone
    <3>3. \A s \in scanQueue : s \notin ScanRows(b)
      BY <3>2 DEF Scanned, ScanActive
    <3> QED
      BY <3>1, <3>2, <3>3 DEF ScanTypes, Scanned
  <2>2. CASE UNCHANGED scan /\ ~DeleteRow(q)
    BY <1>2, <2>2 DEF ScanTypes, Scanned
  <2>3. CASE DeleteRow(q)
    BY <1>2, <2>3 DEF DeleteRow, ScanRows, ScanTypes, Scanned, RowTypes, scanVars
  <2>4. DeleteScans(q) \/ UNCHANGED scan
    BY DEF DeleteBuild, Look, Unlink, RemoveImage, DeleteRow, scanVars
  <2> QED
    BY <2>1, <2>2, <2>3, <2>4
<1> QED
  BY <1>1, <1>3, <1>4, <1>5, <1>6

LEMMA RestartInv ==
    ASSUME IInv, Restart
    PROVE  IInv'
<1> USE DEF IInv, Types
<1>1. RowTypes' /\ DiskTypes'
  BY WorkersAssumption DEF Restart, RowTypes, DiskTypes, Rows, Content
<1>2. ReqTypes'
  BY DEF Restart, ReqTypes, NoReq, ReqType
<1>3. Staged' /\ Condemned'
  BY DEF Restart, RowTypes, Staged, Condemned, NoReq, Writing
<1>4. ScanTypes' /\ Scanned'
  <2>1. \A s \in Scans : Failed(scan[s]) \in ScanType /\ Failed(scan[s]).build = scan[s].build
    BY ScanSteps DEF ScanTypes, Failed, NoScan
  <2>2. ScanTypes'
    BY <2>1 DEF Restart, ScanTypes
  <2>3. \A s \in Scans : scan'[s].build = scan[s].build
                      /\ (scan'[s].state # "none" => scan[s].state # "none")
    BY <2>1 DEF Restart, ScanActive
  <2>4. Scanned'
    BY <2>3 DEF Restart, RowTypes, Scanned
  <2> QED
    BY <2>2, <2>4
<1> QED
  BY <1>1, <1>2, <1>3, <1>4

LEMMA StepInv == IInv /\ [Next]_vars => IInv'
<1> SUFFICES ASSUME IInv, [Next]_vars PROVE IInv'
  OBVIOUS
<1>1. CASE Next
  BY <1>1, CreateInv, StartInv, RunInv, AfterBuildInv, RequestScanInv, RunScanInv, DeleteBeginInv,
     DeleteBuildInv, RestartInv DEF Next, RunBuild
<1>2. CASE UNCHANGED vars
  BY <1>2 DEF vars, buildVars, scanVars, reqVars, IInv, Types, RowTypes, DiskTypes, ScanTypes,
              ReqTypes, Staged, Condemned, Scanned
<1> QED
  BY <1>1, <1>2

LEMMA Inductive == Spec => []IInv
  BY InitInv, StepInv, PTL DEF Spec

\* Every variable of the builds, files, images, scans and deletions has its type.
THEOREM TypeCorrect == Spec => []TypeOK
  BY Inductive, TypesAreTypeOK, PTL DEF IInv

\* No scan row outlives its build, and no build is gone while a scan of it is
\* under way: between any number of scan requests, deletions and restarts.
THEOREM EveryScanHasItsBuild == Spec => []ScansHaveTheirBuild
<1>1. IInv => ScansHaveTheirBuild
  BY DEF IInv, Scanned, ScansHaveTheirBuild, InTable, Rows
<1> QED
  BY <1>1, Inductive, PTL
-----------------------------------------------------------------------------
(***************************************************************************)
(* Images.  With one request at a time no build is requested while a       *)
(* deletion is under way, so what it looked at stays all there is; with    *)
(* two, a build requested after the look may share the image that goes.    *)
(***************************************************************************)
Kept ==
    /\ \A b \in Builds :
         b \notin condemned /\ (status[b] = "ready" \/ stage[b] \in Writing)
           => image[ref[b]] # None
    /\ \A q \in Requests, b \in Builds :
         req[q].pc \in {"looked", "unlinked"} /\ b # req[q].build /\ InTable(b)
           => ref[b] \in req[q].refs

LEMMA StepKeepsImages ==
    ASSUME \A p, q \in Requests : p = q, IInv, Kept, Next
    PROVE  Kept'
<1> USE DEF IInv, Types
<1>1. ASSUME NEW b \in Builds, NEW r \in Refs, Create(b, r)
      PROVE  Kept'
  <2>1. \A q \in Requests : req'[q].pc = "idle"
    BY <1>1 DEF Create, Free, reqVars
  <2>2. \A c \in Builds : /\ status'[c] = "ready" => status[c] = "ready" /\ ref'[c] = ref[c]
                          /\ stage'[c] \in Writing => stage[c] \in Writing /\ ref'[c] = ref[c]
    BY <1>1 DEF Create, RowTypes, Staged, Writing
  <2> QED
    BY <1>1, <2>1, <2>2 DEF Create, Kept, reqVars
<1>2. ASSUME NEW b \in Builds, RunBuild(b)
      PROVE  Kept'
  <2>1. /\ UNCHANGED <<ref, req, condemned>>
        /\ \A c \in Builds : InTable(c)' => InTable(c)
    BY <1>2 DEF RunBuild, Start, TagImage, WriteBegin, WriteEnd, Hash, Ready, AfterBuild, RunFails,
                InTable, RowTypes, Staged, Writing, Rows, reqVars
  <2>2. image' = image \/ image' = [image EXCEPT ![ref[b]] = b]
    BY <1>2 DEF RunBuild, Start, TagImage, WriteBegin, WriteEnd, Hash, Ready, AfterBuild, RunFails
  <2>3. \A c \in Builds : ref[c] \in Refs /\ image[ref[c]] # None => image'[ref[c]] # None
    BY <2>2, ContentAssumption DEF DiskTypes
  <2>4. ASSUME NEW c \in Builds, c \notin condemned,
               status'[c] = "ready" \/ stage'[c] \in Writing
        PROVE  image'[ref[c]] # None
    <3>1. CASE TagImage(b) /\ c = b
      <4>1. ref[b] \in Refs
        BY <3>1 DEF TagImage, Staged
      <4> QED
        BY <3>1, <4>1, ContentAssumption DEF TagImage, DiskTypes
    <3>2. CASE ~(TagImage(b) /\ c = b)
      <4>1. status[c] = "ready" \/ stage[c] \in Writing
        BY <1>2, <2>4, <3>2 DEF RunBuild, Start, TagImage, WriteBegin, WriteEnd, Hash, Ready,
                AfterBuild, RunFails, Goto, RowTypes, Writing
      <4>2. ref[c] \in Refs
        BY <4>1 DEF Staged, Writing
      <4> QED
        BY <2>3, <2>4, <4>1, <4>2 DEF Kept
    <3> QED
      BY <3>1, <3>2
  <2> QED
    BY <2>1, <2>4 DEF Kept
<1>3. CASE \/ \E s \in Scans, b \in Builds : RequestScan(s, b)
           \/ \E s \in Scans : RunScan(s)
  BY <1>3 DEF RequestScan, RunScan, TakeScan, UseExport, VerifyReference, CopyImage, Record,
              ScanFails, Becomes, buildVars, reqVars, Kept, InTable
<1>4. ASSUME NEW q \in Requests, NEW b \in Builds, DeleteBegin(q, b)
      PROVE  Kept'
  <2>1. req'[q].pc = "checked"
    BY <1>4 DEF DeleteBegin, ReqTypes, ReqType
  <2> QED
    BY <1>4, <2>1 DEF DeleteBegin, buildVars, Kept, ReqTypes, ReqType, InTable
<1>5. ASSUME NEW q \in Requests, DeleteBuild(q)
      PROVE  Kept'
  <2> DEFINE b == req[q].build
  <2>0. /\ UNCHANGED <<ref, stage, condemned>>
        /\ \A c \in Builds : /\ status'[c] = "ready" => status[c] = "ready"
                             /\ InTable(c)' => InTable(c)
    BY <1>5 DEF DeleteBuild, DeleteScans, Look, Unlink, RemoveImage, DeleteRow, buildVars, RowTypes,
                InTable, Rows
  <2>1. CASE Look(q)
    <3> DEFINE others == {c \in Builds \ {b} : InTable(c)}
               P == {Archive(c) : c \in {d \in others : status[d] = "ready"}}
               R == {ref[c] : c \in others}
    <3>0. \/ req' = [req EXCEPT ![q] = NoReq]
          \/ req' = [req EXCEPT ![q].pc = "looked", ![q].paths = P, ![q].refs = R]
      BY <2>1 DEF Look, Done
    <3>1. /\ req'[q].pc \in {"looked", "idle"}
          /\ req'[q].pc = "looked" => req'[q].build = b /\ req'[q].refs = R
      <4> HIDE DEF P, R
      <4> QED
        BY <3>0 DEF NoReq, ReqTypes, ReqType
    <3>2. \A c \in Builds : c # b /\ InTable(c) => ref[c] \in R
      OBVIOUS
    <3> HIDE DEF R
    <3> QED
      BY <2>0, <2>1, <3>1, <3>2 DEF Look, Kept
  <2>2. CASE Unlink(q)
    <3>1. /\ req[q].pc = "looked" /\ req'[q].build = b /\ req'[q].refs = req[q].refs
          /\ image' = image
      BY <2>2 DEF Unlink, At, ReqTypes, ReqType
    <3> QED
      BY <2>0, <3>1 DEF Kept
  <2>3. CASE RemoveImage(q)
    <3>1. req[q].pc = "unlinked" /\ req'[q].pc = "removed" /\ b \in condemned
      BY <2>3 DEF RemoveImage, At, ReqTypes, ReqType, Condemned
    <3>2. ASSUME NEW c \in Builds, c \notin condemned,
                 status[c] = "ready" \/ stage[c] \in Writing
          PROVE  image'[ref[c]] # None
      <4>1. InTable(c) /\ c # b /\ ref[c] \in Refs
        BY <3>1, <3>2 DEF InTable, Rows, Staged, Writing
      <4>2. ref[c] \in req[q].refs /\ image[ref[c]] # None
        BY <3>1, <3>2, <4>1 DEF Kept
      <4> QED
        BY <2>3, <4>1, <4>2 DEF RemoveImage, DiskTypes
    <3> QED
      BY <2>0, <3>1, <3>2 DEF Kept
  <2>4. CASE DeleteScans(q) \/ DeleteRow(q)
    <3>1. req'[q].pc \in {"idle", "scansgone"} /\ image' = image
      BY <2>4 DEF DeleteScans, DeleteRow, At, Done, NoReq, ReqTypes, ReqType
    <3> QED
      BY <2>0, <3>1 DEF Kept
  <2> QED
    BY <1>5, <2>1, <2>2, <2>3, <2>4 DEF DeleteBuild
<1>6. CASE Restart
  <2>1. \A c \in Builds : /\ status'[c] = "ready" => status[c] = "ready"
                          /\ stage'[c] \notin Writing
    BY <1>6 DEF Restart, RowTypes, Writing
  <2> QED
    BY <1>6, <2>1 DEF Restart, NoReq, Kept
<1> QED
  BY <1>1, <1>2, <1>3, <1>4, <1>5, <1>6 DEF Next

\* No deletion takes the image of a build that nobody asked to delete, as long
\* as requests come one at a time.
THEOREM ImagesAreKept ==
    ASSUME \A p, q \in Requests : p = q
    PROVE  Spec => []ImagesKept
<1>1. Init => Kept
  BY DEF Init, Kept, NoReq, Writing
<1>2. IInv /\ Kept /\ [Next]_vars => Kept'
  <2> SUFFICES ASSUME IInv, Kept, [Next]_vars PROVE Kept'
    OBVIOUS
  <2>1. CASE Next
    BY <2>1, StepKeepsImages
  <2>2. CASE UNCHANGED vars
    BY <2>2 DEF vars, buildVars, reqVars, Kept, InTable
  <2> QED
    BY <2>1, <2>2
<1>3. Kept => ImagesKept
  BY DEF Kept, ImagesKept
<1> QED
  BY <1>1, <1>2, <1>3, Inductive, PTL DEF Spec
-----------------------------------------------------------------------------
(***************************************************************************)
(* What a scan describes.  One build worker, so the image a build exports  *)
(* is its own; a digest, so the reference was compared.  What a scan finds *)
(* in place of its image was then written by a build beside it: a rival.   *)
(***************************************************************************)
Active == {b \in Builds : stage[b] # "none"}

Alone == \A b, c \in Active : b = c

Own ==
    \A b \in Builds :
        /\ stage[b] \in Writing => image[ref[b]] \in {b, None}
        /\ stage[b] = "written" => file[Archive(b)] \in {b, None}
        /\ status[b] = "ready" \/ stage[b] = "hashed" => sum[b] = b

\* What scan r may find, or have seen, in place of its image.
Expected(r, v) ==
    \/ v = r.build
    \/ v \in r.rivals
    \/ v = Torn /\ r.rivals # {}

Fits(r) ==
    /\ r.state \in {"exporting", "scanning"} =>
         /\ Active \subseteq r.rivals
         /\ r.source = "verified" => image[ref[r.build]] \in {r.build, None} \cup r.rivals
         /\ r.source = "existing" =>
              file[Archive(r.build)] = None \/ Expected(r, file[Archive(r.build)])
    /\ r.state = "scanning" /\ r.source # "existing" => Expected(r, r.saw)
    /\ r.state = "completed" => Expected(r, r.saw)
    /\ r.state = "queued" => r.source = None
    /\ r.source = "verified" => r.state # "scanning"

Rivals == \A s \in Scans : Fits(scan[s])

Faithful == Alone /\ Own /\ Rivals

LEMMA StepOwn ==
    ASSUME BuildWorkers = 1, IInv, Alone, Own, Next
    PROVE  Alone' /\ Own'
<1> USE DEF IInv, Types
<1>1. ASSUME NEW b \in Builds, NEW r \in Refs, Create(b, r)
      PROVE  Alone' /\ Own'
  <2>1. stage[b] = "none" /\ \A c \in Builds : c # b => ref'[c] = ref[c] /\ status'[c] = status[c]
    BY <1>1 DEF Create, Staged, RowTypes
  <2>2. status'[b] = "queued"
    BY <1>1 DEF Create, RowTypes
  <2> QED
    BY <1>1, <2>1, <2>2 DEF Create, Alone, Active, Own, Archive, Writing
<1>2. ASSUME NEW b \in Builds, Start(b)
      PROVE  Alone' /\ Own'
  <2>1. Active = {}
    <3>1. IsFiniteSet(Active)
      BY BuildsAssumption, FS_Subset DEF Active
    <3>2. Cardinality(Active) < 1 /\ Cardinality(Active) \in Nat
      BY <1>2, <3>1, FS_CardinalityType DEF Start, Active
    <3> QED
      BY <3>1, <3>2, FS_EmptySet
  <2>2. Alone'
    BY <1>2, <2>1 DEF Start, Goto, Alone, Active, RowTypes
  <2>3. \A c \in Builds : /\ stage'[c] \notin Writing
                          /\ status'[c] = "ready" => status[c] = "ready"
    BY <1>2, <2>1 DEF Start, Goto, Active, RowTypes, Writing
  <2> QED
    BY <1>2, <2>2, <2>3 DEF Start, Own, Writing
<1>3. ASSUME NEW b \in Builds, RunBuild(b), ~Start(b)
      PROVE  Alone' /\ Own'
  <2>0. /\ stage[b] # "none" /\ UNCHANGED ref
        /\ \A c \in Builds : c # b =>
             stage[c] = "none" /\ stage'[c] = "none" /\ status'[c] = status[c] /\ sum'[c] = sum[c]
    BY <1>3 DEF RunBuild, TagImage, WriteBegin, WriteEnd, Hash, Ready, AfterBuild, RunFails, Goto,
                RowTypes, Alone, Active, Writing
  <2>1. Alone'
    BY <2>0 DEF Alone, Active
  <2>2. \A c \in Builds : c # b /\ status'[c] = "ready" => sum'[c] = c
    BY <2>0 DEF Own
  <2>3. ref[b] \in Refs /\ Archive(b) \in Files
    BY <2>0, ArchiveType DEF Staged
  <2>4. /\ stage'[b] \in Writing => image'[ref[b]] \in {b, None}
        /\ stage'[b] = "written" => file'[Archive(b)] \in {b, None}
        /\ status'[b] = "ready" \/ stage'[b] = "hashed" => sum'[b] = b
    <3>1. CASE TagImage(b)
      BY <2>3, <3>1 DEF TagImage, Goto, Own, RowTypes, DiskTypes, Writing, Staged
    <3>2. CASE WriteBegin(b)
      BY <2>3, <3>2 DEF WriteBegin, Goto, Own, RowTypes, DiskTypes, Writing, Staged
    <3>3. CASE WriteEnd(b)
      BY <2>3, <3>3 DEF WriteEnd, Goto, Own, RowTypes, DiskTypes, Writing, Staged
    <3>4. CASE Hash(b)
      BY <2>3, <3>4 DEF Hash, Goto, Own, RowTypes, DiskTypes, Writing, Staged
    <3>5. CASE Ready(b)
      BY <2>3, <3>5 DEF Ready, Goto, Own, RowTypes, DiskTypes, Writing, Staged
    <3>6. CASE AfterBuild(b) \/ RunFails(b)
      BY <2>3, <3>6 DEF AfterBuild, RunFails, Goto, Own, RowTypes, DiskTypes, Writing, Staged
    <3> QED
      BY <1>3, <3>1, <3>2, <3>3, <3>4, <3>5, <3>6 DEF RunBuild
  <2> QED
    BY <2>0, <2>1, <2>2, <2>4 DEF Own, Archive, Writing
<1>4. CASE \/ \E s \in Scans, b \in Builds : RequestScan(s, b)
           \/ \E s \in Scans : RunScan(s)
           \/ \E q \in Requests, b \in Builds : DeleteBegin(q, b)
  <2>1. UNCHANGED <<buildVars, file, image>>
    BY <1>4 DEF RequestScan, RunScan, TakeScan, UseExport, VerifyReference, CopyImage, Record,
                ScanFails, Becomes, DeleteBegin
  <2> QED
    BY <2>1 DEF buildVars, Alone, Active, Own, Archive
<1>5. ASSUME NEW q \in Requests, DeleteBuild(q)
      PROVE  Alone' /\ Own'
  <2> DEFINE b == req[q].build
  <2>1. b \in Builds /\ status[b] \in {"ready", "failed", "deleted"}
    BY <1>5, RequestStep DEF Condemned, RowTypes
  <2>2. /\ UNCHANGED <<ref, stage>>
        /\ \/ UNCHANGED <<status, sum>>
           \/ /\ status' = [status EXCEPT ![b] = "deleted"]
              /\ sum' = [sum EXCEPT ![b] = None]
        /\ image' = image \/ image' = [image EXCEPT ![ref[b]] = None]
        /\ file' = file \/ \E F \in SUBSET Files :
                              file' = [f \in Files |-> IF f \in F THEN None ELSE file[f]]
    <3>1. CASE Unlink(q)
      <4> DEFINE F == {f \in Files : sum[b] # None /\ f = Archive(b) /\ f \notin req[q].paths}
      <4>1. file' = [f \in Files |-> IF f \in F THEN None ELSE file[f]]
        BY <3>1 DEF Unlink
      <4> QED
        BY <3>1, <4>1 DEF Unlink, buildVars
    <3>2. CASE ~Unlink(q)
      BY <1>5, <3>2 DEF DeleteBuild, DeleteScans, Look, RemoveImage, DeleteRow, buildVars
    <3> QED
      BY <3>1, <3>2
  <2>3. \A c \in Builds : ref[c] \in Refs =>
          image'[ref[c]] \in {image[ref[c]], None} /\ file'[Archive(c)] \in {file[Archive(c)], None}
    BY <2>2, FileOfAssumption DEF DiskTypes, Archive
  <2>4. \A c \in Builds : stage[c] \in Writing => ref[c] \in Refs /\ status[c] = "running"
    BY DEF Staged, Writing
  <2>5. \A c \in Builds : stage[c] = "hashed" \/ status'[c] = "ready" => sum'[c] = c
    <3>1. \A c \in Builds : stage[c] = "hashed" => status[c] = "running"
      BY <2>4 DEF Writing
    <3> QED
      BY <2>1, <2>2, <3>1 DEF Own, RowTypes
  <2>6. Alone'
    BY <2>2 DEF Alone, Active
  <2>7. \A c \in Builds : Archive(c)' = Archive(c)
    BY <2>2 DEF Archive
  <2>8. ASSUME NEW c \in Builds, stage[c] \in Writing
        PROVE  /\ image'[ref[c]] \in {c, None}
               /\ stage[c] = "written" => file'[Archive(c)] \in {c, None}
    BY <2>3, <2>4, <2>8 DEF Own
  <2> QED
    BY <2>2, <2>5, <2>6, <2>7, <2>8 DEF Own, Writing
<1>6. CASE Restart
  <2>1. \A c \in Builds : /\ stage'[c] = "none"
                          /\ status'[c] = "ready" => status[c] = "ready" /\ sum'[c] = sum[c]
    BY <1>6 DEF Restart, RowTypes
  <2> QED
    BY <2>1 DEF Alone, Active, Own, Writing
<1> QED
  BY <1>1, <1>2, <1>3, <1>4, <1>5, <1>6 DEF Next

\* What running builds write, and what deletions remove, is expected.
LEMMA WritesAreExpected ==
    ASSUME IInv, Rivals, NEW s \in Scans,
           scan'[s] = scan[s],
           Active' \subseteq Active,
           \A b \in Builds : status[b] # "absent" => ref'[b] = ref[b],
           \A r \in Refs : image'[r] \in {image[r], None} \cup Active,
           \A f \in Files : \/ file'[f] \in {file[f], None} \cup Active
                            \/ file'[f] = Torn /\ Active # {}
    PROVE  Fits(scan[s])'
<1> DEFINE r == scan[s]
           b == r.build
<1>0. scan'[s] = r /\ Fits(r)
  BY DEF Rivals
<1>1. ASSUME r.state \in {"exporting", "scanning"}
      PROVE  /\ Active' \subseteq r.rivals
             /\ r.source = "verified" => image'[ref'[b]] \in {b, None} \cup r.rivals
             /\ r.source = "existing" =>
                  file'[FileOf[ref'[b]]] = None \/ Expected(r, file'[FileOf[ref'[b]]])
  <2>1. b \in Builds /\ status[b] # "absent"
    BY <1>1 DEF IInv, Scanned
  <2>2. ref'[b] = ref[b] /\ ref[b] \in Refs /\ FileOf[ref[b]] \in Files
    BY <2>1, ArchiveType DEF Archive
  <2>3. Active \subseteq r.rivals
    BY <1>0, <1>1 DEF Fits
  <2>4. r.source = "verified" => image[ref[b]] \in {b, None} \cup r.rivals
    BY <1>0, <1>1 DEF Fits
  <2>5. r.source = "existing" => file[FileOf[ref[b]]] = None \/ Expected(r, file[FileOf[ref[b]]])
    BY <1>0, <1>1 DEF Fits, Archive
  <2>6. r.source = "existing" =>
          file'[FileOf[ref[b]]] = None \/ Expected(r, file'[FileOf[ref[b]]])
    BY <2>2, <2>3, <2>5 DEF Expected
  <2> QED
    BY <2>2, <2>3, <2>4, <2>6
<1> HIDE DEF r
<1> QED
  BY <1>0, <1>1 DEF Fits, Archive, Expected

LEMMA StepRivals ==
    ASSUME BuildWorkers = 1, HasDigest, IInv, Faithful, Next
    PROVE  Rivals'
<1> USE DEF IInv, Types, Faithful
<1>1. ASSUME UNCHANGED scan,
             Active' \subseteq Active,
             \A b \in Builds : status[b] # "absent" => ref'[b] = ref[b],
             \A r \in Refs : image'[r] \in {image[r], None} \cup Active,
             \A f \in Files : \/ file'[f] \in {file[f], None} \cup Active
                              \/ file'[f] = Torn /\ Active # {}
      PROVE  Rivals'
  BY <1>1, WritesAreExpected DEF Rivals
<1>2. ASSUME NEW b \in Builds, NEW r \in Refs, Create(b, r)
      PROVE  Rivals'
  BY <1>1, <1>2 DEF Create, Active, scanVars, RowTypes
<1>3. ASSUME NEW b \in Builds, Start(b)
      PROVE  Rivals'
  <2>0. Active' \subseteq Active \cup {b} /\ UNCHANGED <<ref, file, image>>
    BY <1>3 DEF Start, Goto, Active, RowTypes
  <2>1. ASSUME NEW s \in Scans
        PROVE  /\ scan'[s].state = scan[s].state /\ scan'[s].build = scan[s].build
               /\ scan'[s].source = scan[s].source /\ scan'[s].saw = scan[s].saw
               /\ scan'[s].rivals = IF scan[s].state \in ScanActive
                                    THEN scan[s].rivals \cup {b} ELSE scan[s].rivals
    BY <1>3 DEF Start, ScanTypes, ScanType
  <2>2. ASSUME NEW s \in Scans
        PROVE  Fits(scan[s])'
    <3>1. Fits(scan[s]) /\ \A c : Archive(c)' = Archive(c)
      BY <2>0 DEF Rivals, Archive
    <3>2. /\ scan[s].rivals \subseteq scan'[s].rivals
          /\ scan[s].rivals # {} => scan'[s].rivals # {}
          /\ scan[s].build = scan'[s].build
          /\ scan[s].state \in {"exporting", "scanning"} => b \in scan'[s].rivals
      BY <2>1 DEF ScanActive
    <3>3. \A v : Expected(scan[s], v) => Expected(scan'[s], v)
      <4> HIDE <2>1
      <4> QED
        BY <3>2 DEF Expected
    <3> QED
      BY <2>0, <2>1, <3>1, <3>2, <3>3 DEF Fits
  <2> QED
    BY <2>2 DEF Rivals
<1>4. ASSUME NEW b \in Builds, TagImage(b) \/ WriteBegin(b) \/ WriteEnd(b) \/ Hash(b) \/ Ready(b) \/ RunFails(b)
      PROVE  Rivals'
  <2>1. b \in Active /\ Active' \subseteq Active /\ UNCHANGED <<scan, ref>>
    BY <1>4 DEF TagImage, WriteBegin, WriteEnd, Hash, Ready, RunFails, Goto, Active, RowTypes,
                Writing, scanVars
  <2>2. \A r \in Refs : image'[r] \in {image[r], None} \cup Active
    BY <1>4, <2>1 DEF TagImage, WriteBegin, WriteEnd, Hash, Ready, RunFails, DiskTypes
  <2>3. ref[b] \in Refs /\ (stage[b] \in Writing => image[ref[b]] \in {b, None})
    BY <2>1 DEF Active, Staged, Own
  <2>4. \A f \in Files : \/ file'[f] \in {file[f], None} \cup Active
                         \/ file'[f] = Torn /\ Active # {}
    BY <1>4, <2>1, <2>3 DEF TagImage, WriteBegin, WriteEnd, Hash, Ready, RunFails, DiskTypes, Writing
  <2> QED
    BY <1>1, <2>1, <2>2, <2>4
<1>5. ASSUME NEW s \in Scans, NEW b \in Builds, NewScan(s, b), UNCHANGED <<ref, file, image>>,
             Active' \subseteq Active
      PROVE  Rivals'
  <2>1. /\ scan'[s].state = "queued" /\ scan'[s].source = None
        /\ \A t \in Scans : t # s => scan'[t] = scan[t]
    BY <1>5 DEF NewScan, ScanTypes
  <2>2. Fits(scan[s])'
    BY <2>1, ContentAssumption DEF Fits
  <2>3. ASSUME NEW t \in Scans, t # s
        PROVE  Fits(scan[t])'
    BY <1>5, <2>1, <2>3, WritesAreExpected
  <2> QED
    BY <2>2, <2>3 DEF Rivals
<1>6. ASSUME NEW b \in Builds, AfterBuild(b)
      PROVE  Rivals'
  <2>1. Active' \subseteq Active /\ UNCHANGED <<ref, file, image>>
    BY <1>6 DEF AfterBuild, Goto, Active, RowTypes
  <2> QED
    BY <1>1, <1>5, <1>6, <2>1 DEF AfterBuild, scanVars
<1>7. ASSUME NEW s \in Scans, NEW b \in Builds, RequestScan(s, b)
      PROVE  Rivals'
  BY <1>5, <1>7 DEF RequestScan, buildVars, Active
<1>8. ASSUME NEW s \in Scans, RunScan(s)
      PROVE  Rivals'
  <2> DEFINE b == scan[s].build
  <2>1. /\ UNCHANGED <<buildVars, file, image>>
        /\ \A t \in Scans : t # s => scan'[t] = scan[t]
    BY <1>8 DEF RunScan, TakeScan, UseExport, VerifyReference, CopyImage, Record, ScanFails, Becomes,
                ScanTypes
  <2>2. UNCHANGED <<stage, ref, file, image>> /\ Active' = Active
    BY <2>1 DEF buildVars, Active
  <2>4. s \in scanQueue => scan[s].state = "queued" /\ scan[s].source = None
    BY DEF Scanned, Rivals, Fits
  <2>5. scan[s].state # "none" => b \in Builds /\ status[b] = "ready" /\ sum[b] = b
    BY DEF Scanned, Own
  <2>6. Fits(scan[s])'
    <3>0. scan \in [Scans -> ScanType] /\ Fits(scan[s]) /\ \A c : Archive(c)' = Archive(c)
      BY <2>2 DEF ScanTypes, Rivals, Archive
    <3> HIDE DEF IInv, Types, Faithful
    <3>1. CASE TakeScan(s)
      <4>1. /\ scan'[s].state = "exporting" /\ scan'[s].rivals = Active
            /\ scan'[s].source = None
        BY <2>4, <3>0, <3>1 DEF TakeScan, Active, ScanType
      <4> QED
        BY <2>2, <4>1, ContentAssumption DEF Fits
    <3>2. CASE UseExport(s)
      <4>1. /\ scan[s].state = "exporting" /\ scan'[s].state = "scanning"
            /\ scan'[s].source = "existing" /\ scan'[s].build = b
            /\ scan'[s].rivals = scan[s].rivals
            /\ file[Archive(b)] = sum[b]
        BY <3>0, <3>2 DEF UseExport, Becomes, ScanType
      <4>2. file[FileOf[ref[b]]] = b
        BY <2>5, <4>1 DEF Archive
      <4> QED
        BY <2>2, <3>0, <4>1, <4>2, ContentAssumption DEF Archive, Expected, Fits
    <3>3. CASE VerifyReference(s)
      <4>1. /\ scan[s].state = "exporting" /\ scan'[s].state = "exporting"
            /\ scan'[s].source = "verified" /\ scan'[s].build = b
            /\ scan'[s].rivals = scan[s].rivals
            /\ image[ref[b]] = b
        BY <3>0, <3>3 DEF VerifyReference, Becomes, ScanType
      <4> QED
        BY <2>2, <3>0, <4>1, ContentAssumption DEF Fits
    <3>4. CASE CopyImage(s)
      <4>1. /\ scan[s].state = "exporting" /\ scan[s].source = "verified"
            /\ scan'[s].state = "scanning" /\ scan'[s].source = "temporary"
            /\ scan'[s].build = b /\ scan'[s].rivals = scan[s].rivals
            /\ scan'[s].saw = image[ref[b]] /\ image[ref[b]] # None
        BY <3>0, <3>4 DEF CopyImage, ScanType
      <4> QED
        BY <2>2, <3>0, <4>1, ContentAssumption DEF Expected, Fits
    <3>5. CASE Record(s)
      <4>1. /\ scan[s].state = "scanning" /\ scan'[s].state = "completed"
            /\ scan'[s].build = b /\ scan'[s].rivals = scan[s].rivals
            /\ scan'[s].source = scan[s].source
            /\ scan[s].source = "existing" =>
                 file[Archive(b)] # None /\ scan'[s].saw = file[Archive(b)]
            /\ scan[s].source # "existing" => scan'[s].saw = scan[s].saw
        BY <3>0, <3>5 DEF Record, ScanType
      <4> QED
        BY <2>2, <3>0, <4>1, ContentAssumption DEF Expected, Fits
    <3>6. CASE ScanFails(s)
      <4>1. scan'[s].state = "failed" /\ scan'[s].source = None
        BY <3>0, <3>6 DEF ScanFails, Failed, NoScan
      <4> QED
        BY <2>2, <4>1, ContentAssumption DEF Fits
    <3> QED
      BY <1>8, <3>1, <3>2, <3>3, <3>4, <3>5, <3>6 DEF RunScan
  <2> QED
    <3>1. ASSUME NEW t \in Scans, t # s
          PROVE  Fits(scan[t])'
      BY <2>1, <2>2, <3>1, WritesAreExpected
    <3> QED
      BY <2>6, <3>1 DEF Rivals
<1>9. ASSUME NEW q \in Requests, NEW b \in Builds, DeleteBegin(q, b)
      PROVE  Rivals'
  BY <1>1, <1>9 DEF DeleteBegin, buildVars, scanVars, Active
<1>10. ASSUME NEW q \in Requests, DeleteBuild(q)
       PROVE  Rivals'
  <2>1. Active' = Active /\ UNCHANGED ref
    BY <1>10 DEF DeleteBuild, DeleteScans, Look, Unlink, RemoveImage, DeleteRow, buildVars, Active
  <2>2. \A r \in Refs : image'[r] \in {image[r], None}
    BY <1>10 DEF DeleteBuild, DeleteScans, Look, Unlink, RemoveImage, DeleteRow, DiskTypes
  <2>3. \A f \in Files : file'[f] \in {file[f], None}
    BY <1>10 DEF DeleteBuild, DeleteScans, Look, Unlink, RemoveImage, DeleteRow, DiskTypes
  <2>4. \A s \in Scans : scan'[s] = scan[s] \/ (scan'[s].state = "none" /\ scan'[s].source = None)
    BY <1>10 DEF DeleteBuild, DeleteScans, Look, Unlink, RemoveImage, DeleteRow, NoScan, scanVars
  <2> QED
    BY <2>1, <2>2, <2>3, <2>4, WritesAreExpected, ContentAssumption DEF Rivals, Fits
<1>11. CASE Restart
  <2>1. Active' = {} /\ UNCHANGED <<ref, file, image>>
    BY <1>11 DEF Restart, Active
  <2>2. \A s \in Scans : scan'[s] = scan[s] \/ (scan'[s].state = "failed" /\ scan'[s].source = None)
    BY <1>11 DEF Restart, Failed, NoScan
  <2> QED
    BY <2>1, <2>2, WritesAreExpected, ContentAssumption DEF Rivals, Fits
<1> QED
  BY <1>2, <1>3, <1>4, <1>6, <1>7, <1>8, <1>9, <1>10, <1>11 DEF Next, RunBuild

\* A completed scan is of its own build's image, or of what a build wrote while
\* the scan ran: with one build worker and a runtime that names digests,
\* however many references share an archive.
THEOREM ScansAreOfTheirImage ==
    ASSUME BuildWorkers = 1, HasDigest
    PROVE  Spec => []ScansDescribeTheirImage
<1>1. Init => Faithful
  BY DEF Init, Faithful, Alone, Active, Own, Rivals, Fits, NoScan, Writing
<1>2. IInv /\ Faithful /\ [Next]_vars => Faithful'
  <2> SUFFICES ASSUME IInv, Faithful, [Next]_vars PROVE Faithful'
    OBVIOUS
  <2>1. CASE Next
    BY <2>1, StepOwn, StepRivals DEF Faithful
  <2>2. CASE UNCHANGED vars
    BY <2>2 DEF vars, buildVars, scanVars, Faithful, Alone, Active, Own, Rivals, Fits, Expected, Archive
  <2> QED
    BY <2>1, <2>2
<1>3. Faithful => ScansDescribeTheirImage
  BY DEF Faithful, Rivals, Fits, Expected, ScansDescribeTheirImage
<1> QED
  BY <1>1, <1>2, <1>3, Inductive, PTL DEF Spec
=============================================================================
