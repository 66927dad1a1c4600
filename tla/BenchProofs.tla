----------------------------- MODULE BenchProofs -----------------------------
(***************************************************************************)
(* Theorems about gpu-bench and its dashboard (BenchRun, BenchTui), in the *)
(* scenes of MCOffline that play them.  The invariants say what the code   *)
(* relies on without a word: which prompts were sent, by which thread;     *)
(* what of the results is on disk; which child belongs to which test.      *)
(* The last theorem puts together the types of every scene of MCOffline.   *)
(***************************************************************************)
EXTENDS OfflineProofs, SplitDownloadProofs, TLAPS

(***************************************************************************)
(* One run of gpu-bench.                                                   *)
(***************************************************************************)
TestPc == {"item", "measure"}
LlmPc == {"start", "loading", "level", "generate", "summarize", "cleanup", "grace"}
InTest == TestPc \cup LlmPc \cup {"guard"}
RunPc == {"next", "begin", "save", "rest", "done", "killed"} \cup InTest
ThreadType == [pc : {"done", "top", "take", "sent", "open"}, prompt : Nat]
RecordState == {"new", "sent", "ok", "error", "aborted"}

RunTyped ==
  /\ plan \in Seq(Tests)
  /\ at \in Nat \ {0} /\ item \in Nat /\ before \in Nat
  /\ main \in RunPc
  /\ raised \in {"none", "STOPPED", "FAILED", "UNAVAILABLE"}
  /\ stop \in BOOLEAN
  /\ entries \in Seq(EntryType)
  /\ results \in Seq(EntryType) \cup {None}
  /\ report \in Seq(EntryType) \cup {None}
  /\ next \in {"next", "rest", "done"}
  /\ child \in {"none", "running", "ready", "gone"} /\ stubborn \in BOOLEAN
  /\ gen \in [cursor : Nat, last : Nat, measured : BOOLEAN]
  /\ thread \in [Workers -> ThreadType]
  /\ record \in [Bench!Prompts -> RecordState]
  /\ sends \in [Bench!Prompts -> Nat]
  /\ told \in {"RUNNING", "PASSED", "FAILED", "STOPPED"}
  /\ outdated \in BOOLEAN

\* Where the run is in its plan.
Over == main = "done" \/ (main = "save" /\ next = "done")

RunPlace ==
  /\ Len(plan) > 0 /\ at <= Len(plan) + 1
  /\ main \in {"begin"} \cup InTest => at <= Len(plan)
  /\ main \in LlmPc => plan[at] = "llm"
  /\ main \in TestPc => plan[at] # "llm"
  /\ main \in LlmPc \cup {"item", "measure"} => item > 0
  /\ Over => at > Len(plan)

\* The children that run belong to where the run is.
RunChild ==
  /\ child \in {"running", "ready"} =>
       \/ main \in LlmPc \ {"start"}
       \/ main = "measure" /\ plan[at] = "nccl"
       \/ main = "killed" /\ stubborn
  /\ child = "ready" => plan[at] = "llm" \/ main = "killed"

Prefix(s, t) == Len(s) <= Len(t) /\ \A i \in 1 .. Len(s) : s[i] = t[i]

\* What is on disk.
RunSaved ==
  /\ before <= Len(entries)
  /\ results # None => Prefix(results, entries)
  /\ report # None => Prefix(report, entries)
  /\ main = "save" => results = None \/ outdated
  /\ main \notin {"save", "killed"} => results # None
  /\ main \in {"next", "begin", "rest", "done"} => outdated \/ results = entries
  /\ results # None /\ ~outdated => before <= Len(results)

\* Every test of the plan that is over has an entry.
Has(test) == \E i \in 1 .. Len(entries) : entries[i].test = test

RunCovers ==
  /\ \A i \in 1 .. (at - 1) : Has(plan[i])
  /\ main \in InTest =>
       /\ \A i \in (before + 1) .. Len(entries) : entries[i].test = plan[at]
       /\ item > 1 => Len(entries) > before
  /\ main \in {"cleanup", "grace", "guard"} /\ raised = "none" => item > 1
  /\ main \in InTest \ {"cleanup", "grace", "guard"} => raised = "none"

\* The prompts of the levels.
Sending(w) == thread[w].pc \in {"sent", "open"}

RunThreads ==
  /\ \A w \in Workers : Sending(w) =>
       /\ thread[w].prompt \in Bench!Prompts
       /\ record[thread[w].prompt] = "sent"
  /\ \A w, v \in Workers : Sending(w) /\ Sending(v) /\ thread[w].prompt = thread[v].prompt => w = v
  /\ \A p \in Bench!Prompts : record[p] = "sent" => \E w \in Workers : Sending(w) /\ thread[w].prompt = p
  /\ main \notin {"generate", "killed"} => \A w \in Workers : thread[w].pc = "done"
  /\ \A w \in Workers : thread[w].prompt \in Bench!Prompts \cup {0}

RunPrompts ==
  /\ gen.cursor > 0
  /\ \A p \in Bench!Prompts : sends[p] = (IF p < gen.cursor THEN 1 ELSE 0)
  /\ \A p \in Bench!Prompts : record[p] = "new" <=> p >= gen.cursor
  /\ ~stop => \A p \in Bench!Prompts : record[p] # "aborted"
  /\ gen.cursor <= gen.last + 1
  /\ main \in {"generate", "summarize"} =>
       /\ item <= Items["llm"]
       /\ gen.last = Bench!Warmed(item) + Warm + (IF gen.measured THEN Measured ELSE 0)
  /\ main = "level" /\ ~stop => gen.cursor = Bench!Warmed(item) + 1
  /\ main \in {"generate", "summarize"} /\ ~stop =>
       \A w \in Workers : thread[w].pc = "done" => gen.cursor > gen.last

RunFresh ==
  /\ \A i, j \in 1 .. Len(plan) : plan[i] = "llm" /\ plan[j] = "llm" => i = j
  /\ \A i \in 1 .. Len(plan) :
       /\ plan[i] = "llm"
       /\ at < i \/ (at = i /\ main \in {"next", "save", "begin", "start", "loading"})
       => gen.cursor = 1 /\ gen.last = 0
  /\ main \in {"start", "loading"} => item = 1

RunPassed ==
  \A i \in 1 .. Len(entries) :
    entries[i].status = "PASSED" /\ entries[i].level > 0 =>
      \A p \in Bench!MeasuredPrompts(entries[i].level) :
        p \in Bench!Prompts /\ record[p] \in {"ok", "error"} /\ sends[p] = 1

BenchInv ==
  /\ RunTyped /\ RunPlace /\ RunChild /\ RunSaved /\ RunCovers
  /\ RunThreads /\ RunPrompts /\ RunFresh /\ RunPassed

\* Entries, and what they are appended to.
LEMMA EntryIs ==
  ASSUME NEW t \in Tests, NEW what \in {"PASSED", "FAILED", "STOPPED", "SKIPPED", "UNAVAILABLE"}
  PROVE  /\ Bench!Entry(t, what) \in EntryType
         /\ Bench!Entry(t, what).test = t /\ Bench!Entry(t, what).status = what
         /\ Bench!Entry(t, what).level = 0
  BY DEF Bench!Entry, EntryType

LEMMA EntriesGrow ==
  ASSUME NEW list \in Seq(EntryType), NEW entry \in EntryType
  PROVE  /\ Append(list, entry) \in Seq(EntryType)
         /\ Len(Append(list, entry)) = Len(list) + 1
         /\ \A i \in 1 .. Len(list) : Append(list, entry)[i] = list[i]
         /\ Append(list, entry)[Len(list) + 1] = entry
  OBVIOUS

LEMMA TestIs ==
  ASSUME RunTyped, RunPlace, at <= Len(plan)
  PROVE  Bench!Test \in Tests /\ Bench!Test = plan[at]
  BY DEF RunTyped, RunPlace, Bench!Test

\* What a step of the main thread adds to the entries.
Added(statuses) ==
  \E what \in statuses :
    /\ entries' = Append(entries, Bench!Entry(plan[at], what))
    /\ entries' \in Seq(EntryType)
    /\ Len(entries') = Len(entries) + 1
    /\ \A i \in 1 .. Len(entries) : entries'[i] = entries[i]
    /\ LET new == entries'[Len(entries) + 1]
       IN  new.test = plan[at] /\ new.status = what /\ new.level = 0

AllStatus == {"PASSED", "FAILED", "STOPPED", "SKIPPED", "UNAVAILABLE"}

LEMMA AddedIs ==
  ASSUME RunTyped, RunPlace, at <= Len(plan), NEW what \in AllStatus,
         entries' = Append(entries, Bench!Entry(Bench!Test, what))
  PROVE  Added({what})
<1>1. plan[at] \in Tests /\ Bench!Test = plan[at] /\ entries \in Seq(EntryType)
  BY TestIs DEF RunTyped
<1>2. /\ Bench!Entry(plan[at], what) \in EntryType
      /\ Bench!Entry(plan[at], what).test = plan[at] /\ Bench!Entry(plan[at], what).status = what
      /\ Bench!Entry(plan[at], what).level = 0
  BY <1>1, EntryIs DEF AllStatus
<1> DEFINE new == Bench!Entry(plan[at], what)
<1>3. entries' = Append(entries, new)
  BY <1>1
<1>4. /\ entries' \in Seq(EntryType) /\ Len(entries') = Len(entries) + 1
      /\ \A i \in 1 .. Len(entries) : entries'[i] = entries[i]
      /\ entries'[Len(entries) + 1] = new
  <2> HIDE DEF new
  <2>1. new \in EntryType
    BY <1>2 DEF new
  <2> QED BY <1>1, <1>3, <2>1, EntriesGrow
<1> QED BY <1>2, <1>3, <1>4 DEF Added

LEMMA NextDoes ==
  ASSUME RunTyped, RunPlace, Bench!NextTest
  PROVE  /\ main = "next" /\ at <= Len(plan)
         /\ UNCHANGED <<plan, item, before, raised, stop, child, stubborn, gen, thread, shut, record,
                        sends, told, report, outdated>>
         /\ \/ /\ main' = "begin" /\ UNCHANGED <<entries, results, next, at>>
            \/ /\ Added(AllStatus \ {"PASSED"}) /\ results' = None /\ main' = "save" /\ next' = "next"
               /\ at' = at + 1
<1>1. CASE stop
  <2>1. entries' = Append(entries, Bench!Entry(Bench!Test, "STOPPED"))
    BY <1>1 DEF Bench!NextTest, Bench!Add
  <2>2. Added({"STOPPED"})
    BY <2>1, AddedIs DEF Bench!NextTest, AllStatus
  <2>3. Added(AllStatus \ {"PASSED"})
    BY <2>2 DEF Added, AllStatus
  <2> QED BY <1>1, <2>3 DEF Bench!NextTest, Bench!Add, Bench!SaveThen, Bench!childVars, Bench!genVars,
             Bench!reportVars
<1>2. CASE ~stop
  <2>1. CASE main' = "begin"
    BY <1>2, <2>1 DEF Bench!NextTest, Bench!Add, Bench!SaveThen, Bench!childVars, Bench!genVars,
             Bench!reportVars, Bench!resultVars
  <2>2. CASE main' # "begin"
    <3>1. PICK what \in {"SKIPPED", "UNAVAILABLE"} :
            entries' = Append(entries, Bench!Entry(Bench!Test, what))
      BY <1>2, <2>2 DEF Bench!NextTest, Bench!Add
    <3>2. Added({what})
      BY <3>1, AddedIs DEF Bench!NextTest, AllStatus
    <3>3. Added(AllStatus \ {"PASSED"})
      BY <3>2 DEF Added, AllStatus
    <3> QED BY <1>2, <2>2, <3>3 DEF Bench!NextTest, Bench!Add, Bench!SaveThen, Bench!childVars, Bench!genVars,
             Bench!reportVars
  <2> QED BY <2>1, <2>2
<1> QED BY <1>1, <1>2

LEMMA GuardDoes ==
  ASSUME RunTyped, RunPlace, Bench!Guard
  PROVE  /\ main = "guard" /\ at <= Len(plan) /\ at' = at + 1
         /\ results' = None /\ main' = "save"
         /\ UNCHANGED <<plan, item, before, raised, stop, child, stubborn, gen, thread, shut, record,
                        sends, told, report, outdated>>
         /\ \/ /\ raised = "none" \/ (raised = "STOPPED" /\ Len(entries) > before)
               /\ next' = (IF raised = "none" THEN "next" ELSE "rest")
               /\ UNCHANGED entries
            \/ /\ raised # "none"
               /\ Added(AllStatus \ {"PASSED"})
               /\ next' \in {"next", "rest"}
<1> USE DEF Bench!KeepThen, Bench!Kept, Bench!Add, Bench!SaveThen, Bench!childVars, Bench!genVars,
            Bench!reportVars
<1>1. main = "guard" /\ at <= Len(plan)
  BY DEF Bench!Guard, RunPlace, InTest
<1>2. CASE raised = "none" \/ (raised = "STOPPED" /\ Len(entries) > before)
  BY <1>1, <1>2 DEF Bench!Guard
<1>3. CASE ~(raised = "none" \/ (raised = "STOPPED" /\ Len(entries) > before))
  <2>1. entries' = Append(entries, Bench!Entry(Bench!Test, raised))
    BY <1>3 DEF Bench!Guard
  <2>2. raised \in AllStatus \ {"PASSED"}
    BY <1>3 DEF RunTyped, AllStatus
  <2>3. Added({raised})
    BY <1>1, <2>1, <2>2, AddedIs
  <2>4. Added(AllStatus \ {"PASSED"})
    BY <2>2, <2>3 DEF Added
  <2> QED BY <1>1, <1>3, <2>4 DEF Bench!Guard
<1> QED BY <1>2, <1>3

LEMMA RestDoes ==
  ASSUME RunTyped, RunPlace, Bench!Rest
  PROVE  /\ main = "rest" /\ at <= Len(plan) /\ at' = at + 1
         /\ results' = None /\ main' = "save" /\ next' = "rest"
         /\ UNCHANGED <<plan, item, before, raised, stop, child, stubborn, gen, thread, shut, record,
                        sends, told, report, outdated>>
         /\ Added({"STOPPED"})
<1>1. entries' = Append(entries, Bench!Entry(Bench!Test, "STOPPED"))
  BY DEF Bench!Rest, Bench!Add
<1>2. Added({"STOPPED"})
  BY <1>1, AddedIs DEF Bench!Rest, AllStatus
<1> QED BY <1>2 DEF Bench!Rest, Bench!Add, Bench!SaveThen, Bench!childVars, Bench!genVars,
             Bench!reportVars

LEMMA MeasureDoes ==
  ASSUME RunTyped, RunPlace, Bench!Measure
  PROVE  /\ main = "measure" /\ at <= Len(plan) /\ (plan[at] = "nccl" => child = "gone")
         /\ UNCHANGED <<plan, at, before, stop, results, next, child, stubborn, gen, thread, shut,
                        record, sends, told, report, outdated>>
         /\ \/ /\ Added({"PASSED", "FAILED"}) /\ item' = item + 1
               /\ main' = "item" /\ UNCHANGED raised
            \/ /\ Added({"STOPPED"}) /\ item' = item + 1
               /\ main' = "guard" /\ raised' = "STOPPED"
            \/ /\ main' = "guard" /\ raised' \in {"STOPPED", "UNAVAILABLE", "FAILED"}
               /\ UNCHANGED <<entries, item>>
<1> USE DEF Bench!Raise, Bench!Recorded, Bench!childVars, Bench!genVars, Bench!reportVars
<1>1. main = "measure" /\ at <= Len(plan) /\ Bench!Test = plan[at]
  BY TestIs DEF Bench!Measure, RunPlace, InTest, TestPc
<1>2. /\ plan[at] = "nccl" => child = "gone"
      /\ UNCHANGED <<plan, at, before, stop, results, next, child, stubborn, gen, thread, shut,
                     record, sends, told, report, outdated>>
  BY <1>1 DEF Bench!Measure
<1>3. \/ \E what \in {"PASSED", "FAILED"} :
           /\ entries' = Append(entries, Bench!Entry(Bench!Test, what))
           /\ item' = item + 1 /\ main' = "item" /\ UNCHANGED raised
      \/ /\ entries' = Append(entries, Bench!Entry(Bench!Test, "STOPPED"))
         /\ item' = item + 1 /\ main' = "guard" /\ raised' = "STOPPED"
      \/ /\ main' = "guard" /\ raised' \in {"STOPPED", "UNAVAILABLE", "FAILED"}
         /\ UNCHANGED <<entries, item>>
  BY DEF Bench!Measure
<1>4. \A what \in AllStatus :
        entries' = Append(entries, Bench!Entry(Bench!Test, what)) => Added({what})
  BY <1>1, AddedIs
<1>5. \A what \in {"PASSED", "FAILED"} : Added({what}) => Added({"PASSED", "FAILED"})
  BY DEF Added
<1> QED BY <1>1, <1>2, <1>3, <1>4, <1>5 DEF AllStatus

\* A worker that goes on.
LEMMA GoesIs ==
  ASSUME RunTyped, NEW w \in Workers, NEW where \in {"done", "top", "take", "sent", "open"},
         Bench!Goes(w, where)
  PROVE  /\ thread' \in [Workers -> ThreadType]
         /\ thread'[w].pc = where /\ thread'[w].prompt = thread[w].prompt
         /\ \A v \in Workers \ {w} : thread'[v] = thread[v]
  BY DEF RunTyped, ThreadType, Bench!Goes

EndStatus == {"ok", "error", "aborted"}

\* What a worker or an answer does: look at the flag, take a prompt, open its
\* connection, or end it.
Looks(w) ==
  /\ thread[w].pc = "top"
  /\ thread'[w].pc = (IF stop THEN "done" ELSE "take") /\ thread'[w].prompt = thread[w].prompt
  /\ UNCHANGED <<gen, record, sends>>

Finds(w) ==
  /\ thread[w].pc = "take" /\ gen.cursor > gen.last
  /\ thread'[w].pc = "done" /\ thread'[w].prompt = thread[w].prompt
  /\ UNCHANGED <<gen, record, sends>>

Takes(w) ==
  /\ thread[w].pc = "take" /\ gen.cursor <= gen.last
  /\ gen'.cursor = gen.cursor + 1 /\ gen'.last = gen.last /\ gen'.measured = gen.measured
  /\ gen' \in [cursor : Nat, last : Nat, measured : BOOLEAN]
  /\ thread'[w] = [pc |-> "sent", prompt |-> gen.cursor]
  /\ record' = [record EXCEPT ![gen.cursor] = "sent"]
  /\ sends' = [sends EXCEPT ![gen.cursor] = @ + 1]

Opens(w) ==
  /\ thread[w].pc = "sent" /\ thread'[w].pc = "open" /\ thread'[w].prompt = thread[w].prompt
  /\ UNCHANGED <<gen, record, sends>>

Closes(w) ==
  /\ Sending(w) /\ thread'[w].pc = "top" /\ thread'[w].prompt = thread[w].prompt
  /\ \E how \in EndStatus :
       /\ record' = [record EXCEPT ![thread[w].prompt] = how]
       /\ how = "aborted" => stop
  /\ UNCHANGED <<gen, sends>>

LEMMA WorkDoes ==
  ASSUME RunTyped, NEW w \in Workers, Bench!Work(w) \/ Bench!Answer(w)
  PROVE  /\ main = "generate"
         /\ UNCHANGED <<plan, at, item, before, main, raised, stop, entries, results, next, child,
                        stubborn, told, report, outdated>>
         /\ thread' \in [Workers -> ThreadType]
         /\ \A v \in Workers \ {w} : thread'[v] = thread[v]
         /\ Looks(w) \/ Finds(w) \/ Takes(w) \/ Opens(w) \/ Closes(w)
<1> USE DEF Bench!testVars, Bench!resultVars, Bench!childVars, Bench!reportVars
<1>1. CASE Bench!Look(w) /\ Bench!Work(w)
  <2>1. PICK where \in {"done", "take"} :
          Bench!Goes(w, where) /\ where = (IF stop THEN "done" ELSE "take")
    BY <1>1 DEF Bench!Look
  <2> QED BY <1>1, <2>1, GoesIs DEF Bench!Work, Bench!Look, Looks
<1>2. CASE Bench!Take(w) /\ Bench!Work(w) /\ gen.cursor > gen.last
  <2>1. Bench!Goes(w, "done")
    BY <1>2 DEF Bench!Take
  <2> QED BY <1>2, <2>1, GoesIs DEF Bench!Work, Bench!Take, Finds
<1>3. CASE Bench!Take(w) /\ Bench!Work(w) /\ ~(gen.cursor > gen.last)
  <2>1. /\ gen.cursor \in Nat /\ gen.last \in Nat
        /\ gen' = [gen EXCEPT !.cursor = @ + 1]
    BY <1>3 DEF Bench!Take, RunTyped
  <2>2. /\ gen'.cursor = gen.cursor + 1 /\ gen'.last = gen.last /\ gen'.measured = gen.measured
        /\ gen' \in [cursor : Nat, last : Nat, measured : BOOLEAN]
    <3>1. gen \in [cursor : Nat, last : Nat, measured : BOOLEAN]
      BY DEF RunTyped
    <3>2. gen' = [gen EXCEPT !.cursor = gen.cursor + 1] /\ gen.cursor + 1 \in Nat
      BY <2>1
    <3>3. gen' \in [cursor : Nat, last : Nat, measured : BOOLEAN]
      BY <3>1, <3>2
    <3>4. gen'.cursor = gen.cursor + 1 /\ gen'.last = gen.last
      BY <3>1, <3>2
    <3>5. gen'.measured = gen.measured
      BY <3>1, <3>2
    <3> QED BY <3>3, <3>4, <3>5
  <2>3. /\ thread' = [thread EXCEPT ![w] = [pc |-> "sent", prompt |-> gen.cursor]]
        /\ record' = [record EXCEPT ![gen.cursor] = "sent"]
        /\ sends' = [sends EXCEPT ![gen.cursor] = @ + 1]
    BY <1>3 DEF Bench!Take
  <2>4. /\ thread' \in [Workers -> ThreadType]
        /\ thread'[w] = [pc |-> "sent", prompt |-> gen.cursor]
        /\ \A v \in Workers \ {w} : thread'[v] = thread[v]
    BY <2>1, <2>3 DEF RunTyped, ThreadType
  <2> QED BY <1>3, <2>1, <2>2, <2>3, <2>4 DEF Bench!Work, Bench!Take, Takes
<1>4. CASE Bench!Register(w) /\ Bench!Work(w) /\ child # "gone"
  <2>1. Bench!Goes(w, "open")
    BY <1>4 DEF Bench!Register
  <2> QED BY <1>4, <2>1, GoesIs DEF Bench!Work, Bench!Register, Opens
<1>5. ASSUME NEW how \in EndStatus, Bench!Ends(w, how), Sending(w), how = "aborted" => stop,
             UNCHANGED <<gen, sends>>
      PROVE  /\ thread' \in [Workers -> ThreadType]
             /\ \A v \in Workers \ {w} : thread'[v] = thread[v]
             /\ Closes(w)
  <2>1. Bench!Goes(w, "top") /\ record' = [record EXCEPT ![thread[w].prompt] = how]
    BY <1>5 DEF Bench!Ends
  <2> QED BY <1>5, <2>1, GoesIs DEF Closes
<1>6. ASSUME Bench!Breaks(w), Sending(w), UNCHANGED <<gen, sends>>
      PROVE  /\ thread' \in [Workers -> ThreadType]
             /\ \A v \in Workers \ {w} : thread'[v] = thread[v]
             /\ Closes(w)
  BY <1>5, <1>6 DEF Bench!Breaks, EndStatus
<1>7. CASE Bench!Register(w) /\ Bench!Work(w) /\ child = "gone"
  BY <1>6, <1>7 DEF Bench!Work, Bench!Register, Sending
<1>8. CASE Bench!Broken(w) /\ Bench!Work(w)
  BY <1>6, <1>8 DEF Bench!Work, Bench!Broken, Sending
<1>9. CASE Bench!Answer(w)
  <2>1. PICK how \in {"ok", "error"} : Bench!Ends(w, how)
    BY <1>9 DEF Bench!Answer
  <2> QED BY <1>5, <1>9, <2>1 DEF Bench!Answer, Sending, EndStatus
<1> QED BY <1>1, <1>2, <1>3, <1>4, <1>7, <1>8, <1>9 DEF Bench!Work

\* The prompts of a level come after those of the levels before it.
LEMMA Products ==
  ASSUME NEW a \in Nat, NEW b \in Nat
  PROVE  a * b \in Nat
  OBVIOUS

LEMMA WarmedIs ==
  ASSUME NEW k \in Nat \ {0}
  PROVE  /\ Bench!Warmed(k) \in Nat
         /\ Bench!Warmed(k + 1) = Bench!Warmed(k) + Warm + Measured
         /\ Bench!Warmed(1) = 0
         /\ \A n \in Nat : k <= n => Bench!Warmed(k) + Warm + Measured <= n * (Warm + Measured)
<1> DEFINE batch == Warm + Measured
<1>1. batch \in Nat /\ Warm \in Nat /\ Measured \in Nat /\ k - 1 \in Nat
  BY BenchAssumption
<1>2. Bench!Warmed(k) = (k - 1) * batch /\ Bench!Warmed(k + 1) = ((k + 1) - 1) * batch
  BY DEF Bench!Warmed
<1>3. (k - 1) * batch \in Nat
  BY <1>1, Products
<1>4. ((k + 1) - 1) * batch = (k - 1) * batch + batch
  <2> HIDE DEF batch
  <2> QED BY <1>1
<1>5. Bench!Warmed(1) = 0
  <2>1. Bench!Warmed(1) = 0 * batch
    BY DEF Bench!Warmed
  <2> HIDE DEF batch
  <2> QED BY <1>1, <2>1
<1>6. ASSUME NEW n \in Nat, k <= n
      PROVE  (k - 1) * batch + batch <= n * batch
  <2> HIDE DEF batch
  <2>1. n - k \in Nat
    BY <1>6
  <2>2. (n - k) * batch \in Nat
    BY <1>1, <2>1, Products
  <2>3. n * batch = (n - k) * batch + ((k - 1) * batch + batch)
    BY <1>1, <1>6
  <2>4. n * batch \in Int /\ (k - 1) * batch + batch \in Int
    BY <1>1, <1>3
  <2> QED BY <2>2, <2>3, <2>4
<1> QED BY <1>1, <1>2, <1>3, <1>4, <1>5, <1>6

\* A level, or its warmup, begins.
Starts(from, to, measured) ==
  /\ gen' \in [cursor : Nat, last : Nat, measured : BOOLEAN]
  /\ gen'.cursor = from /\ gen'.last = to /\ (gen'.measured <=> measured)
  /\ thread' \in [Workers -> ThreadType]
  /\ \A w \in Workers : thread'[w].pc = "top" /\ thread'[w].prompt = 0

LEMMA ThreadsStart ==
  ASSUME NEW from \in Nat, NEW to \in Nat, NEW measured \in BOOLEAN,
         Bench!Threads(from, to, measured)
  PROVE  Starts(from, to, measured) /\ main' = "generate"
<1>1. gen' = [cursor |-> from, last |-> to, measured |-> measured]
  BY DEF Bench!Threads
<1>2. thread' = [w \in Workers |-> [pc |-> "top", prompt |-> 0]]
  BY DEF Bench!Threads
<1>3. main' = "generate"
  BY DEF Bench!Threads
<1>4. /\ thread' \in [Workers -> ThreadType]
      /\ \A w \in Workers : thread'[w].pc = "top" /\ thread'[w].prompt = 0
  BY <1>2 DEF ThreadType
<1>5. gen' \in [cursor : Nat, last : Nat, measured : BOOLEAN]
  BY <1>1
<1>6. gen'.cursor = from /\ gen'.last = to
  BY <1>1
<1>7. gen'.measured = measured
  BY <1>1, Zenon
<1> QED BY <1>3, <1>4, <1>5, <1>6, <1>7 DEF Starts

LEMMA BeginLevelDoes ==
  ASSUME RunTyped, RunPlace, Bench!BeginLevel
  PROVE  /\ main = "level"
         /\ UNCHANGED <<plan, at, item, before, stop, entries, results, next, child, stubborn, record,
                        sends, told, report, outdated>>
         /\ \/ item > Items["llm"] /\ main' = "cleanup" /\ UNCHANGED <<raised, gen, thread>>
            \/ main' = "cleanup" /\ raised' = "STOPPED" /\ UNCHANGED <<gen, thread>>
            \/ /\ item <= Items["llm"] /\ ~stop /\ main' = "generate" /\ UNCHANGED raised
               /\ Starts(Bench!Warmed(item) + 1, Bench!Warmed(item) + Warm, FALSE)
<1> USE DEF Bench!testVars, Bench!resultVars, Bench!childVars, Bench!reportVars, Bench!Raise
<1>1. item \in Nat \ {0} /\ Items["llm"] \in Nat /\ Warm \in Nat
  BY BenchAssumption DEF Bench!BeginLevel, RunTyped, RunPlace, LlmPc, Tests
<1>2. Bench!Warmed(item) + 1 \in Nat /\ Bench!Warmed(item) + Warm \in Nat
  BY <1>1, WarmedIs
<1>3. CASE ~(item > Items["llm"]) /\ ~stop
  <2>1. Bench!Threads(Bench!Warmed(item) + 1, Bench!Warmed(item) + Warm, FALSE) /\ UNCHANGED raised
    BY <1>3 DEF Bench!BeginLevel, Bench!PromptOffset, Bench!Offset
  <2>2. Starts(Bench!Warmed(item) + 1, Bench!Warmed(item) + Warm, FALSE) /\ main' = "generate"
    BY <1>2, <2>1, ThreadsStart
  <2>3. item <= Items["llm"]
    BY <1>1, <1>3
  <2>4. /\ main = "level"
        /\ UNCHANGED <<plan, at, item, before, stop, entries, results, next, child, stubborn, record,
                       sends, told, report, outdated>>
    BY DEF Bench!BeginLevel
  <2> QED BY <1>3, <2>1, <2>2, <2>3, <2>4
<1>4. CASE item > Items["llm"] \/ stop
  BY <1>4 DEF Bench!BeginLevel
<1> QED BY <1>3, <1>4

LEMMA EndWarmupDoes ==
  ASSUME RunTyped, RunPlace, Bench!EndWarmup
  PROVE  /\ main = "summarize" /\ ~gen.measured
         /\ UNCHANGED <<plan, at, item, before, stop, entries, results, next, child, stubborn, record,
                        sends, told, report, outdated>>
         /\ \/ main' = "cleanup" /\ raised' \in {"STOPPED", "FAILED"} /\ UNCHANGED <<gen, thread>>
            \/ /\ ~stop /\ main' = "generate" /\ UNCHANGED raised
               /\ Starts(Bench!Warmed(item) + Warm + 1, Bench!Warmed(item) + Warm + Measured, TRUE)
<1> USE DEF Bench!testVars, Bench!resultVars, Bench!childVars, Bench!reportVars, Bench!Raise
<1> DEFINE from == Bench!Warmed(item) + Warm + 1
           to == Bench!Warmed(item) + Warm + Measured
<1>1. item \in Nat \ {0} /\ Warm \in Nat /\ Measured \in Nat
  BY BenchAssumption DEF Bench!EndWarmup, RunTyped, RunPlace, LlmPc
<1>2. from \in Nat /\ to \in Nat
  BY <1>1, WarmedIs
<1>3. CASE Bench!Threads(from, to, TRUE) /\ ~stop /\ UNCHANGED raised
  <2>1. Starts(from, to, TRUE) /\ main' = "generate"
    BY <1>2, <1>3, ThreadsStart
  <2> QED BY <1>3, <2>1 DEF Bench!EndWarmup
<1>4. CASE main' = "cleanup" /\ raised' \in {"STOPPED", "FAILED"} /\ UNCHANGED <<gen, thread>>
  BY <1>4 DEF Bench!EndWarmup
<1> QED BY <1>3, <1>4 DEF Bench!EndWarmup, Bench!PromptOffset, Bench!Offset

LEMMA EndLevelDoes ==
  ASSUME RunTyped, Bench!EndLevel
  PROVE  /\ main = "summarize" /\ gen.measured
         /\ UNCHANGED <<plan, at, before, stop, results, next, child, stubborn, gen, thread, record,
                        sends, told, report, outdated>>
         /\ item' = item + 1
         /\ entries' \in Seq(EntryType) /\ Len(entries') = Len(entries) + 1
         /\ \A i \in 1 .. Len(entries) : entries'[i] = entries[i]
         /\ entries'[Len(entries) + 1].test = "llm"
         /\ entries'[Len(entries) + 1].level = item
         /\ entries'[Len(entries) + 1].status = "PASSED" => ~stop
         /\ \/ stop /\ main' = "cleanup" /\ raised' = "STOPPED"
            \/ ~stop /\ main' = "level" /\ UNCHANGED raised
<1> DEFINE ok == Bench!Cardinality({p \in Bench!MeasuredPrompts(item) : record[p] = "ok"})
           new == [test |-> "llm", status |-> Bench!LevelStatus(ok), level |-> item]
<1>1. entries' = Append(entries, new)
  BY DEF Bench!EndLevel
<1>2. /\ Bench!LevelStatus(ok) \in AllStatus
      /\ Bench!LevelStatus(ok) = "PASSED" => ~stop
  <2> HIDE DEF ok
  <2> QED BY DEF Bench!LevelStatus, Bench!Status, AllStatus
<1>3. /\ new \in EntryType
      /\ new.test = "llm" /\ new.level = item /\ new.status = Bench!LevelStatus(ok)
  <2> HIDE DEF ok
  <2>1. item \in Nat
    BY DEF RunTyped
  <2> QED BY <1>2, <2>1 DEF EntryType, Tests, AllStatus
<1>4. /\ entries' \in Seq(EntryType) /\ Len(entries') = Len(entries) + 1
      /\ \A i \in 1 .. Len(entries) : entries'[i] = entries[i]
      /\ entries'[Len(entries) + 1] = new
  <2>1. entries \in Seq(EntryType)
    BY DEF RunTyped
  <2> HIDE DEF new
  <2> QED BY <1>1, <1>3, <2>1, EntriesGrow
<1>5. /\ main = "summarize" /\ gen.measured /\ item' = item + 1
      /\ UNCHANGED <<plan, at, before, stop, results, next, child, stubborn, gen, thread, record,
                     sends, told, report, outdated>>
      /\ \/ stop /\ main' = "cleanup" /\ raised' = "STOPPED"
         \/ ~stop /\ main' = "level" /\ UNCHANGED raised
  BY DEF Bench!EndLevel, Bench!Raise, Bench!childVars, Bench!genVars, Bench!reportVars
<1> HIDE DEF new
<1> QED BY <1>2, <1>3, <1>4, <1>5

LEMMA RunTypedStep ==
  ASSUME BenchInv, Bench!RunNext
  PROVE  RunTyped'
<1>0. RunTyped /\ RunPlace /\ RunThreads
  BY DEF BenchInv
<1> USE DEF RunTyped, RunPc, InTest, TestPc, LlmPc
<1>1. CASE Bench!Begin
  BY <1>0, <1>1 DEF Bench!Begin,
     Bench!testVars, Bench!genVars, Bench!resultVars, Bench!childVars, Bench!reportVars
<1>2. CASE Bench!Finish
  BY <1>0, <1>2 DEF Bench!Finish, Bench!SaveThen,
     Bench!testVars, Bench!genVars, Bench!resultVars, Bench!childVars, Bench!reportVars
<1>3. CASE Bench!KillTool
  BY <1>0, <1>3 DEF Bench!KillTool,
     Bench!testVars, Bench!genVars, Bench!resultVars, Bench!childVars, Bench!reportVars
<1>4. CASE Bench!StartServer
  BY <1>0, <1>4 DEF Bench!StartServer, Bench!Raise,
     Bench!testVars, Bench!genVars, Bench!resultVars, Bench!childVars, Bench!reportVars
<1>5. CASE Bench!AwaitServer
  BY <1>0, <1>5 DEF Bench!AwaitServer, Bench!Raise,
     Bench!testVars, Bench!genVars, Bench!resultVars, Bench!childVars, Bench!reportVars
<1>6. CASE Bench!Terminate
  BY <1>0, <1>6 DEF Bench!Terminate,
     Bench!testVars, Bench!genVars, Bench!resultVars, Bench!childVars, Bench!reportVars
<1>7. CASE Bench!KillServer
  BY <1>0, <1>7 DEF Bench!KillServer,
     Bench!testVars, Bench!genVars, Bench!resultVars, Bench!childVars, Bench!reportVars
<1>8. CASE Bench!Tick
  BY <1>0, <1>8 DEF Bench!Tick,
     Bench!testVars, Bench!genVars, Bench!resultVars, Bench!childVars, Bench!reportVars
<1>9. CASE Bench!ChildMoves
  BY <1>0, <1>9 DEF Bench!ChildMoves,
     Bench!testVars, Bench!genVars, Bench!resultVars, Bench!childVars, Bench!reportVars
<1>10. CASE Bench!Signal
  BY <1>0, <1>10 DEF Bench!Signal,
     Bench!testVars, Bench!genVars, Bench!resultVars, Bench!childVars, Bench!reportVars
<1>11. CASE Bench!Killed
  BY <1>0, <1>11 DEF Bench!Killed, Bench!AfterParent, Bench!Obeys,
     Bench!testVars, Bench!genVars, Bench!resultVars, Bench!childVars, Bench!reportVars
<1>12. CASE Bench!LoadReport
  BY <1>0, <1>12 DEF Bench!LoadReport,
     Bench!testVars, Bench!genVars, Bench!resultVars, Bench!childVars, Bench!reportVars
<1>13. CASE Bench!WriteReport
  BY <1>0, <1>13 DEF Bench!WriteReport,
     Bench!testVars, Bench!genVars, Bench!resultVars, Bench!childVars, Bench!reportVars
<1>14. CASE Bench!BeginItem
  BY <1>0, <1>14 DEF Bench!BeginItem, Bench!Raise,
     Bench!testVars, Bench!genVars, Bench!resultVars, Bench!childVars, Bench!reportVars
<1>15. CASE Bench!Saved
  <2>1. /\ results' = entries /\ outdated' = FALSE /\ main' = next
        /\ UNCHANGED <<plan, at, item, before, raised, stop, entries, report, next, child, stubborn,
                       gen, thread, record, sends, told>>
    BY <1>0, <1>15 DEF Bench!Saved, Bench!testVars, Bench!genVars, Bench!childVars
  <2>2. main' \in RunPc /\ results' \in Seq(EntryType) \cup {None} /\ outdated' \in BOOLEAN
    BY <1>0, <2>1
  <2>3. UNCHANGED <<plan, at, item, before, raised, stop, entries, report, next, child, stubborn,
                    gen, thread, record, sends, told>>
    BY <2>1
  <2> QED BY <1>0, <2>2, <2>3
<1>16. CASE Bench!NextTest
  BY <1>0, <1>16, NextDoes DEF Added, AllStatus, Starts
<1>17. CASE Bench!Guard
  BY <1>0, <1>17, GuardDoes DEF Added, AllStatus, Starts
<1>18. CASE Bench!Rest
  <2>1. entries' \in Seq(EntryType)
    BY <1>0, <1>18, RestDoes DEF Added
  <2> QED BY <1>0, <1>18, <2>1, RestDoes
<1>19. CASE Bench!Measure
  <2>1. entries' \in Seq(EntryType) /\ item' \in Nat /\ main' \in {"item", "guard"}
        /\ raised' \in {"none", "STOPPED", "FAILED", "UNAVAILABLE"}
    BY <1>0, <1>19, MeasureDoes DEF Added
  <2> QED BY <1>0, <1>19, <2>1, MeasureDoes
<1>20. CASE Bench!BeginLevel
  BY <1>0, <1>20, BeginLevelDoes DEF Added, AllStatus, Starts
<1>21. CASE Bench!EndWarmup
  BY <1>0, <1>21, EndWarmupDoes DEF Added, AllStatus, Starts
<1>22. CASE Bench!EndLevel
  <2>1. item' \in Nat /\ main' \in {"cleanup", "level"} /\ raised' \in {"STOPPED", raised}
        /\ entries' \in Seq(EntryType)
    BY <1>0, <1>22, EndLevelDoes
  <2>2. main' \in RunPc /\ raised' \in {"none", "STOPPED", "FAILED", "UNAVAILABLE"}
    BY <1>0, <2>1
  <2> QED BY <1>0, <1>22, <2>1, <2>2, EndLevelDoes
<1>23. CASE \E w \in Workers : Bench!Work(w) \/ Bench!Answer(w)
  <2>1. PICK w \in Workers : Bench!Work(w) \/ Bench!Answer(w)
    BY <1>23
  <2>2. record' \in [Bench!Prompts -> RecordState] /\ sends' \in [Bench!Prompts -> Nat]
    <3>1. record \in [Bench!Prompts -> RecordState] /\ sends \in [Bench!Prompts -> Nat]
      BY <1>0
    <3>2. CASE Takes(w)
      <4>1. record' = [record EXCEPT ![gen.cursor] = "sent"] /\ "sent" \in RecordState
        BY <3>2 DEF Takes, RecordState
      <4>2. sends' = [sends EXCEPT ![gen.cursor] = @ + 1]
        BY <3>2 DEF Takes
      <4>3. CASE gen.cursor \in Bench!Prompts
        <5>1. sends[gen.cursor] + 1 \in Nat
          BY <3>1, <4>3
        <5> QED BY <3>1, <4>1, <4>2, <5>1
      <4>4. CASE gen.cursor \notin Bench!Prompts
        <5>1. sends' = sends /\ record' = record
          BY <3>1, <4>1, <4>2, <4>4
        <5> QED BY <3>1, <5>1
      <4> QED BY <4>3, <4>4
    <3>3. CASE Closes(w)
      <4>1. PICK how \in EndStatus : record' = [record EXCEPT ![thread[w].prompt] = how]
        BY <3>3 DEF Closes
      <4> QED BY <3>1, <3>3, <4>1 DEF Closes, EndStatus, RecordState
    <3>4. CASE Looks(w) \/ Finds(w) \/ Opens(w)
      BY <3>1, <3>4 DEF Looks, Finds, Opens
    <3> QED BY <1>0, <2>1, <3>2, <3>3, <3>4, WorkDoes
  <2>3. gen' \in [cursor : Nat, last : Nat, measured : BOOLEAN]
    BY <1>0, <2>1, WorkDoes DEF Looks, Finds, Takes, Opens, Closes
  <2> QED BY <1>0, <2>1, <2>2, <2>3, WorkDoes
<1> QED BY <1>1, <1>2, <1>3, <1>4, <1>5, <1>6, <1>7, <1>8, <1>9, <1>10, <1>11, <1>12, <1>13, <1>14, <1>15, <1>16, <1>17, <1>18, <1>19, <1>20, <1>21, <1>22, <1>23 DEF Bench!RunNext, Bench!Code, Bench!World, Bench!Main

\* The parts of the invariant, one after the other.
LEMMA RunPlaceStep ==
  ASSUME BenchInv, Bench!RunNext
  PROVE  RunPlace'
<1>0. RunTyped /\ RunPlace
  BY DEF BenchInv
<1> USE DEF RunTyped, Over, RunPc, InTest, TestPc, LlmPc, Bench!Test
<1>1. CASE Bench!KillTool \/ Bench!ChildMoves \/ Bench!Signal \/ Bench!LoadReport \/ Bench!WriteReport
           \/ \E w \in Workers : Bench!Work(w) \/ Bench!Answer(w)
  <2>1. UNCHANGED <<plan, at, main, item, next>>
    BY <1>0, <1>1, WorkDoes DEF Bench!KillTool, Bench!ChildMoves, Bench!Signal, Bench!LoadReport, Bench!WriteReport,
       Bench!testVars, Bench!genVars, Bench!resultVars, Bench!childVars, Bench!reportVars
  <2> QED BY <1>0, <2>1 DEF RunPlace
<1>2. CASE Bench!Saved
  BY <1>0, <1>2 DEF RunPlace, Bench!Saved,
     Bench!testVars, Bench!genVars, Bench!resultVars, Bench!childVars, Bench!reportVars
<1>3. CASE Bench!NextTest
  BY <1>0, <1>3, NextDoes DEF RunPlace
<1>4. CASE Bench!Begin
  BY <1>0, <1>4 DEF RunPlace, Bench!Begin,
     Bench!testVars, Bench!genVars, Bench!resultVars, Bench!childVars, Bench!reportVars
<1>5. CASE Bench!Guard
  BY <1>0, <1>5, GuardDoes DEF RunPlace
<1>6. CASE Bench!Rest
  BY <1>0, <1>6, RestDoes DEF RunPlace
<1>7. CASE Bench!Finish
  BY <1>0, <1>7 DEF RunPlace, Bench!Finish, Bench!SaveThen,
     Bench!testVars, Bench!genVars, Bench!resultVars, Bench!childVars, Bench!reportVars
<1>8. CASE Bench!BeginItem
  BY <1>0, <1>8 DEF RunPlace, Bench!BeginItem, Bench!Raise,
     Bench!testVars, Bench!genVars, Bench!resultVars, Bench!childVars, Bench!reportVars
<1>9. CASE Bench!Measure
  BY <1>0, <1>9, MeasureDoes DEF RunPlace
<1>10. CASE Bench!StartServer
  BY <1>0, <1>10 DEF RunPlace, Bench!StartServer, Bench!Raise,
     Bench!testVars, Bench!genVars, Bench!resultVars, Bench!childVars, Bench!reportVars
<1>11. CASE Bench!AwaitServer
  BY <1>0, <1>11 DEF RunPlace, Bench!AwaitServer, Bench!Raise,
     Bench!testVars, Bench!genVars, Bench!resultVars, Bench!childVars, Bench!reportVars
<1>12. CASE Bench!BeginLevel
  BY <1>0, <1>12, BeginLevelDoes DEF RunPlace
<1>13. CASE Bench!Tick
  BY <1>0, <1>13 DEF RunPlace, Bench!Tick,
     Bench!testVars, Bench!genVars, Bench!resultVars, Bench!childVars, Bench!reportVars
<1>14. CASE Bench!EndWarmup
  BY <1>0, <1>14, EndWarmupDoes DEF RunPlace
<1>15. CASE Bench!EndLevel
  BY <1>0, <1>15, EndLevelDoes DEF RunPlace
<1>16. CASE Bench!Terminate
  BY <1>0, <1>16 DEF RunPlace, Bench!Terminate,
     Bench!testVars, Bench!genVars, Bench!resultVars, Bench!childVars, Bench!reportVars
<1>17. CASE Bench!KillServer
  BY <1>0, <1>17 DEF RunPlace, Bench!KillServer,
     Bench!testVars, Bench!genVars, Bench!resultVars, Bench!childVars, Bench!reportVars
<1>18. CASE Bench!Killed
  BY <1>0, <1>18 DEF RunPlace, Bench!Killed, Bench!AfterParent, Bench!Obeys,
     Bench!testVars, Bench!genVars, Bench!resultVars, Bench!childVars, Bench!reportVars
<1> QED BY <1>1, <1>2, <1>3, <1>4, <1>5, <1>6, <1>7, <1>8, <1>9, <1>10, <1>11, <1>12, <1>13, <1>14, <1>15, <1>16, <1>17, <1>18
        DEF Bench!RunNext, Bench!Code, Bench!World, Bench!Main

LEMMA RunChildStep ==
  ASSUME BenchInv, Bench!RunNext
  PROVE  RunChild'
<1>0. RunTyped /\ RunPlace /\ RunChild
  BY DEF BenchInv
<1> USE DEF RunTyped, RunPlace, Over, RunPc, InTest, TestPc, LlmPc, Bench!Test
<1>1. CASE Bench!Signal \/ Bench!LoadReport \/ Bench!WriteReport
           \/ \E w \in Workers : Bench!Work(w) \/ Bench!Answer(w)
  <2>1. UNCHANGED <<plan, at, main, child, stubborn>>
    BY <1>0, <1>1, WorkDoes DEF Bench!Signal, Bench!LoadReport, Bench!WriteReport,
       Bench!testVars, Bench!genVars, Bench!resultVars, Bench!childVars, Bench!reportVars
  <2> QED BY <1>0, <2>1 DEF RunChild
<1>2. CASE Bench!Saved
  BY <1>0, <1>2 DEF RunChild, Bench!Saved,
     Bench!testVars, Bench!genVars, Bench!resultVars, Bench!childVars, Bench!reportVars
<1>3. CASE Bench!NextTest
  BY <1>0, <1>3, NextDoes DEF RunChild
<1>4. CASE Bench!Begin
  BY <1>0, <1>4 DEF RunChild, Bench!Begin,
     Bench!testVars, Bench!genVars, Bench!resultVars, Bench!childVars, Bench!reportVars
<1>5. CASE Bench!Guard
  BY <1>0, <1>5, GuardDoes DEF RunChild
<1>6. CASE Bench!Rest
  BY <1>0, <1>6, RestDoes DEF RunChild
<1>7. CASE Bench!Finish
  BY <1>0, <1>7 DEF RunChild, Bench!Finish, Bench!SaveThen,
     Bench!testVars, Bench!genVars, Bench!resultVars, Bench!childVars, Bench!reportVars
<1>8. CASE Bench!BeginItem
  BY <1>0, <1>8 DEF RunChild, Bench!BeginItem, Bench!Raise,
     Bench!testVars, Bench!genVars, Bench!resultVars, Bench!childVars, Bench!reportVars
<1>9. CASE Bench!Measure
  BY <1>0, <1>9, MeasureDoes DEF RunChild
<1>10. CASE Bench!KillTool
  BY <1>0, <1>10 DEF RunChild, Bench!KillTool,
     Bench!testVars, Bench!genVars, Bench!resultVars, Bench!childVars, Bench!reportVars
<1>11. CASE Bench!StartServer
  BY <1>0, <1>11 DEF RunChild, Bench!StartServer, Bench!Raise,
     Bench!testVars, Bench!genVars, Bench!resultVars, Bench!childVars, Bench!reportVars
<1>12. CASE Bench!AwaitServer
  BY <1>0, <1>12 DEF RunChild, Bench!AwaitServer, Bench!Raise,
     Bench!testVars, Bench!genVars, Bench!resultVars, Bench!childVars, Bench!reportVars
<1>13. CASE Bench!BeginLevel
  BY <1>0, <1>13, BeginLevelDoes DEF RunChild
<1>14. CASE Bench!Tick
  BY <1>0, <1>14 DEF RunChild, Bench!Tick,
     Bench!testVars, Bench!genVars, Bench!resultVars, Bench!childVars, Bench!reportVars
<1>15. CASE Bench!EndWarmup
  BY <1>0, <1>15, EndWarmupDoes DEF RunChild
<1>16. CASE Bench!EndLevel
  BY <1>0, <1>16, EndLevelDoes DEF RunChild
<1>17. CASE Bench!Terminate
  BY <1>0, <1>17 DEF RunChild, Bench!Terminate,
     Bench!testVars, Bench!genVars, Bench!resultVars, Bench!childVars, Bench!reportVars
<1>18. CASE Bench!KillServer
  BY <1>0, <1>18 DEF RunChild, Bench!KillServer,
     Bench!testVars, Bench!genVars, Bench!resultVars, Bench!childVars, Bench!reportVars
<1>19. CASE Bench!ChildMoves
  BY <1>0, <1>19 DEF RunChild, Bench!ChildMoves,
     Bench!testVars, Bench!genVars, Bench!resultVars, Bench!childVars, Bench!reportVars
<1>20. CASE Bench!Killed
  BY <1>0, <1>20 DEF RunChild, Bench!Killed, Bench!AfterParent, Bench!Obeys,
     Bench!testVars, Bench!genVars, Bench!resultVars, Bench!childVars, Bench!reportVars
<1> QED BY <1>1, <1>2, <1>3, <1>4, <1>5, <1>6, <1>7, <1>8, <1>9, <1>10, <1>11, <1>12, <1>13, <1>14, <1>15, <1>16, <1>17, <1>18, <1>19, <1>20
        DEF Bench!RunNext, Bench!Code, Bench!World, Bench!Main


\* Entries are only ever added.
LEMMA PrefixOfMore ==
  ASSUME RunTyped, entries' \in Seq(EntryType), Len(entries') >= Len(entries),
         \A i \in 1 .. Len(entries) : entries'[i] = entries[i],
         NEW list \in Seq(EntryType), Prefix(list, entries)
  PROVE  Prefix(list, entries')
<1>1. Len(list) \in Nat /\ Len(entries) \in Nat /\ Len(entries') \in Nat
  BY DEF RunTyped
<1> QED BY <1>1 DEF Prefix

LEMMA PrefixIsSame ==
  ASSUME NEW list \in Seq(EntryType), NEW longer \in Seq(EntryType), Prefix(list, longer),
         Len(longer) <= Len(list)
  PROVE  list = longer
  BY DEF Prefix

LEMMA EntriesAreNot ==
  None \notin Seq(EntryType)
  BY BenchAssumption DEF EntryType

LEMMA AddedGrows ==
  ASSUME RunTyped, NEW statuses, Added(statuses)
  PROVE  /\ entries' \in Seq(EntryType) /\ Len(entries') = Len(entries) + 1
         /\ \A i \in 1 .. Len(entries) : entries'[i] = entries[i]
         /\ entries'[Len(entries) + 1].test = plan[at]
         /\ entries'[Len(entries) + 1].level = 0
         /\ entries'[Len(entries) + 1].status \in statuses
  BY DEF Added

LEMMA RunSavedStep ==
  ASSUME BenchInv, Bench!RunNext
  PROVE  RunSaved'
<1>0. RunTyped /\ RunPlace /\ RunSaved
  BY DEF BenchInv
<1>1. CASE Bench!KillTool \/ Bench!ChildMoves \/ Bench!Signal
           \/ \E w \in Workers : Bench!Work(w) \/ Bench!Answer(w)
  <2>1. UNCHANGED <<before, entries, results, report, main, outdated>>
    BY <1>0, <1>1, WorkDoes DEF Bench!KillTool, Bench!ChildMoves, Bench!Signal,
       Bench!testVars, Bench!genVars, Bench!resultVars, Bench!childVars, Bench!reportVars
  <2> QED BY <1>0, <2>1 DEF RunSaved
<1>2. CASE Bench!Saved
  <2>1. /\ results' = entries /\ outdated' = FALSE /\ main' \in {"next", "rest", "done"}
        /\ UNCHANGED <<before, entries, report>>
    BY <1>0, <1>2 DEF Bench!Saved, Bench!testVars, RunTyped
  <2>2. Prefix(entries, entries)
    BY DEF RunTyped, Prefix
  <2> QED BY <1>0, <2>1, <2>2, EntriesAreNot DEF RunSaved, RunTyped
<1>3. CASE Bench!NextTest
  <2>1. /\ entries' \in Seq(EntryType) /\ Len(entries') >= Len(entries)
        /\ \A i \in 1 .. Len(entries) : entries'[i] = entries[i]
        /\ Len(entries) \in Nat /\ Len(entries') \in Nat /\ before \in Nat
    BY <1>0, <1>3, NextDoes, AddedGrows DEF RunTyped
  <2>2. /\ results # None => Prefix(results, entries')
        /\ report # None => Prefix(report, entries')
    BY <1>0, <2>1, PrefixOfMore DEF RunSaved, RunTyped
  <2> QED BY <1>0, <1>3, <2>1, <2>2, NextDoes DEF RunSaved, InTest, TestPc, LlmPc
<1>4. CASE Bench!Begin
  BY <1>0, <1>4 DEF RunSaved, RunTyped, InTest, TestPc, LlmPc, Bench!Begin,
     Bench!testVars, Bench!genVars, Bench!resultVars, Bench!childVars, Bench!reportVars
<1>5. CASE Bench!Guard
  <2>1. /\ entries' \in Seq(EntryType) /\ Len(entries') >= Len(entries)
        /\ \A i \in 1 .. Len(entries) : entries'[i] = entries[i]
        /\ Len(entries) \in Nat /\ Len(entries') \in Nat /\ before \in Nat
    BY <1>0, <1>5, GuardDoes, AddedGrows DEF RunTyped
  <2>2. /\ results # None => Prefix(results, entries')
        /\ report # None => Prefix(report, entries')
    BY <1>0, <2>1, PrefixOfMore DEF RunSaved, RunTyped
  <2> QED BY <1>0, <1>5, <2>1, <2>2, GuardDoes DEF RunSaved, InTest, TestPc, LlmPc
<1>6. CASE Bench!Rest
  <2>1. /\ entries' \in Seq(EntryType) /\ Len(entries') >= Len(entries)
        /\ \A i \in 1 .. Len(entries) : entries'[i] = entries[i]
        /\ Len(entries) \in Nat /\ Len(entries') \in Nat /\ before \in Nat
    BY <1>0, <1>6, RestDoes, AddedGrows DEF RunTyped
  <2>2. /\ results # None => Prefix(results, entries')
        /\ report # None => Prefix(report, entries')
    BY <1>0, <2>1, PrefixOfMore DEF RunSaved, RunTyped
  <2> QED BY <1>0, <1>6, <2>1, <2>2, RestDoes DEF RunSaved, InTest, TestPc, LlmPc
<1>7. CASE Bench!Finish
  BY <1>0, <1>7 DEF RunSaved, RunTyped, InTest, TestPc, LlmPc, Bench!Finish, Bench!SaveThen,
     Bench!testVars, Bench!genVars, Bench!resultVars, Bench!childVars, Bench!reportVars
<1>8. CASE Bench!BeginItem
  BY <1>0, <1>8 DEF RunSaved, RunTyped, InTest, TestPc, LlmPc, Bench!BeginItem, Bench!Raise,
     Bench!testVars, Bench!genVars, Bench!resultVars, Bench!childVars, Bench!reportVars
<1>9. CASE Bench!Measure
  <2>1. /\ entries' \in Seq(EntryType) /\ Len(entries') >= Len(entries)
        /\ \A i \in 1 .. Len(entries) : entries'[i] = entries[i]
        /\ Len(entries) \in Nat /\ Len(entries') \in Nat /\ before \in Nat
    BY <1>0, <1>9, MeasureDoes, AddedGrows DEF RunTyped
  <2>2. /\ results # None => Prefix(results, entries')
        /\ report # None => Prefix(report, entries')
    BY <1>0, <2>1, PrefixOfMore DEF RunSaved, RunTyped
  <2> QED BY <1>0, <1>9, <2>1, <2>2, MeasureDoes DEF RunSaved, InTest, TestPc, LlmPc
<1>10. CASE Bench!StartServer
  BY <1>0, <1>10 DEF RunSaved, RunTyped, InTest, TestPc, LlmPc, Bench!StartServer, Bench!Raise,
     Bench!testVars, Bench!genVars, Bench!resultVars, Bench!childVars, Bench!reportVars
<1>11. CASE Bench!AwaitServer
  BY <1>0, <1>11 DEF RunSaved, RunTyped, InTest, TestPc, LlmPc, Bench!AwaitServer, Bench!Raise,
     Bench!testVars, Bench!genVars, Bench!resultVars, Bench!childVars, Bench!reportVars
<1>12. CASE Bench!BeginLevel
  BY <1>0, <1>12, BeginLevelDoes DEF RunSaved
<1>13. CASE Bench!Tick
  BY <1>0, <1>13 DEF RunSaved, RunTyped, InTest, TestPc, LlmPc, Bench!Tick,
     Bench!testVars, Bench!genVars, Bench!resultVars, Bench!childVars, Bench!reportVars
<1>14. CASE Bench!EndWarmup
  BY <1>0, <1>14, EndWarmupDoes DEF RunSaved
<1>15. CASE Bench!EndLevel
  <2>1. /\ entries' \in Seq(EntryType) /\ Len(entries') >= Len(entries)
        /\ \A i \in 1 .. Len(entries) : entries'[i] = entries[i]
        /\ Len(entries) \in Nat /\ Len(entries') \in Nat /\ before \in Nat
    BY <1>0, <1>15, EndLevelDoes DEF RunTyped
  <2>2. /\ results # None => Prefix(results, entries')
        /\ report # None => Prefix(report, entries')
    BY <1>0, <2>1, PrefixOfMore DEF RunSaved, RunTyped
  <2> QED BY <1>0, <1>15, <2>1, <2>2, EndLevelDoes DEF RunSaved, InTest, TestPc, LlmPc
<1>16. CASE Bench!Terminate
  BY <1>0, <1>16 DEF RunSaved, RunTyped, InTest, TestPc, LlmPc, Bench!Terminate,
     Bench!testVars, Bench!genVars, Bench!resultVars, Bench!childVars, Bench!reportVars
<1>17. CASE Bench!KillServer
  BY <1>0, <1>17 DEF RunSaved, RunTyped, InTest, TestPc, LlmPc, Bench!KillServer,
     Bench!testVars, Bench!genVars, Bench!resultVars, Bench!childVars, Bench!reportVars
<1>18. CASE Bench!Killed
  BY <1>0, <1>18 DEF RunSaved, RunTyped, InTest, TestPc, LlmPc, Bench!Killed, Bench!AfterParent, Bench!Obeys,
     Bench!testVars, Bench!genVars, Bench!resultVars, Bench!childVars, Bench!reportVars
<1>19. CASE Bench!LoadReport
  BY <1>0, <1>19 DEF RunSaved, RunTyped, InTest, TestPc, LlmPc, Bench!LoadReport,
     Bench!testVars, Bench!genVars, Bench!resultVars, Bench!childVars, Bench!reportVars
<1>20. CASE Bench!WriteReport
  <2>1. /\ report # None /\ results' = report /\ report' = None
        /\ outdated' = (outdated \/ results = None \/ Len(report) < Len(results))
        /\ UNCHANGED <<before, entries, main>>
    BY <1>20 DEF Bench!WriteReport, Bench!testVars
  <2>2. ~outdated' => /\ results # None /\ results \in Seq(EntryType)
                      /\ Len(report) >= Len(results)
    <3>1. ~outdated' => results # None /\ ~(Len(report) < Len(results))
      BY <2>1, Zenon
    <3> QED BY <1>0, <2>1, <3>1 DEF RunTyped
  <2>3. ~outdated' /\ results = entries => report = entries
    BY <1>0, <2>1, <2>2, PrefixIsSame DEF RunSaved, RunTyped
  <2> QED BY <1>0, <2>1, <2>2, <2>3 DEF RunSaved, RunTyped
<1> QED BY <1>1, <1>2, <1>3, <1>4, <1>5, <1>6, <1>7, <1>8, <1>9, <1>10, <1>11, <1>12, <1>13, <1>14, <1>15, <1>16, <1>17, <1>18, <1>19, <1>20
        DEF Bench!RunNext, Bench!Code, Bench!World, Bench!Main


LEMMA HasStays ==
  ASSUME RunTyped, entries' \in Seq(EntryType), Len(entries') >= Len(entries),
         \A i \in 1 .. Len(entries) : entries'[i] = entries[i],
         NEW test, Has(test)
  PROVE  Has(test)'
<1>1. Len(entries) \in Nat /\ Len(entries') \in Nat
  BY DEF RunTyped
<1>2. PICK i \in 1 .. Len(entries) : entries[i].test = test
  BY DEF Has
<1>3. i \in 1 .. Len(entries') /\ entries'[i].test = test
  BY <1>1, <1>2
<1> QED BY <1>3 DEF Has

\* A test that leaves at least one entry is covered.
LEMMA TestIsCovered ==
  ASSUME RunTyped, RunSaved, RunCovers, main \in InTest, Len(entries) > before
  PROVE  Has(plan[at])
<1>1. Len(entries) \in (before + 1) .. Len(entries) /\ Len(entries) \in 1 .. Len(entries)
  BY DEF RunTyped
<1>2. entries[Len(entries)].test = plan[at]
  BY <1>1 DEF RunCovers
<1> QED BY <1>1, <1>2 DEF Has

\* The plan is covered up to the next test when this one leaves an entry.
LEMMA CoveredNext ==
  ASSUME RunTyped, RunPlace, RunCovers, at <= Len(plan), at' = at + 1, UNCHANGED plan,
         entries' \in Seq(EntryType), Len(entries') >= Len(entries),
         \A i \in 1 .. Len(entries) : entries'[i] = entries[i],
         NEW test, test = plan[at], Has(test)'
  PROVE  (\A i \in 1 .. (at - 1) : Has(plan[i]))'
<1> SUFFICES ASSUME NEW i \in 1 .. at
             PROVE  Has(plan[i])'
  BY DEF RunTyped
<1>1. CASE i = at
  BY <1>1 DEF Has
<1>2. CASE i # at
  <2>1. i \in 1 .. (at - 1)
    BY <1>2 DEF RunTyped
  <2>2. Has(plan[i])
    BY <2>1 DEF RunCovers
  <2>3. Has(plan[i])'
    BY <2>2, HasStays
  <2> QED BY <2>3
<1> QED BY <1>1, <1>2

LEMMA AddedCovers ==
  ASSUME RunTyped, RunPlace, RunCovers, at <= Len(plan), at' = at + 1, UNCHANGED plan,
         NEW statuses, Added(statuses)
  PROVE  (\A i \in 1 .. (at - 1) : Has(plan[i]))'
<1>1. /\ entries' \in Seq(EntryType) /\ Len(entries') = Len(entries) + 1
      /\ \A i \in 1 .. Len(entries) : entries'[i] = entries[i]
      /\ entries'[Len(entries) + 1].test = plan[at] /\ Len(entries) \in Nat
  BY AddedGrows DEF RunTyped
<1>2. Len(entries) + 1 \in 1 .. Len(entries')
  BY <1>1
<1> SUFFICES ASSUME NEW i \in 1 .. at
             PROVE  Has(plan[i])'
  BY DEF RunTyped
<1>3. CASE i = at
  BY <1>1, <1>2, <1>3 DEF Has
<1>4. CASE i # at
  <2>1. i \in 1 .. (at - 1)
    BY <1>4 DEF RunTyped
  <2>2. Has(plan[i])
    BY <2>1 DEF RunCovers
  <2> QED BY <1>1, <2>2, HasStays DEF Has
<1> QED BY <1>3, <1>4

\* The test under way adds an entry of its own.
LEMMA TestAdds ==
  ASSUME RunTyped, RunSaved, RunCovers, main \in InTest, UNCHANGED <<plan, at, before>>,
         entries' \in Seq(EntryType), Len(entries') = Len(entries) + 1,
         \A i \in 1 .. Len(entries) : entries'[i] = entries[i],
         entries'[Len(entries) + 1].test = plan[at]
  PROVE  /\ (\A i \in 1 .. (at - 1) : Has(plan[i]))'
         /\ (\A i \in (before + 1) .. Len(entries) : entries[i].test = plan[at])'
         /\ Len(entries') > before'
<1>1. Len(entries) \in Nat /\ before \in Nat /\ before <= Len(entries)
  BY DEF RunTyped, RunSaved
<1>2. (\A i \in 1 .. (at - 1) : Has(plan[i]))'
  BY <1>1, HasStays DEF RunCovers, Has
<1>3. (\A i \in (before + 1) .. Len(entries) : entries[i].test = plan[at])'
  BY <1>1 DEF RunCovers
<1> QED BY <1>1, <1>2, <1>3

LEMMA RunCoversStep ==
  ASSUME BenchInv, Bench!RunNext
  PROVE  RunCovers'
<1>0. RunTyped /\ RunPlace /\ RunSaved /\ RunCovers
  BY DEF BenchInv
<1>1. CASE Bench!KillTool \/ Bench!ChildMoves \/ Bench!Signal \/ Bench!LoadReport \/ Bench!WriteReport
           \/ \E w \in Workers : Bench!Work(w) \/ Bench!Answer(w)
  <2>1. UNCHANGED <<at, plan, entries, main, before, item, raised>>
    BY <1>0, <1>1, WorkDoes DEF Bench!KillTool, Bench!ChildMoves, Bench!Signal, Bench!LoadReport, Bench!WriteReport,
       Bench!testVars, Bench!genVars, Bench!resultVars, Bench!childVars, Bench!reportVars
  <2> QED BY <1>0, <2>1 DEF RunCovers, Has
<1>2. CASE Bench!Saved
  BY <1>0, <1>2 DEF RunCovers, Has, RunTyped, RunPc, InTest, TestPc, LlmPc, Bench!Saved,
     Bench!testVars, Bench!genVars, Bench!resultVars, Bench!childVars, Bench!reportVars
<1>3. CASE Bench!NextTest
  <2>1. CASE main' = "begin"
    BY <1>0, <1>3, <2>1, NextDoes DEF RunCovers, Has, InTest, TestPc, LlmPc
  <2>2. CASE main' # "begin"
    <3>1. /\ Added(AllStatus \ {"PASSED"}) /\ at' = at + 1 /\ at <= Len(plan) /\ UNCHANGED plan
          /\ main' = "save"
      BY <1>0, <1>3, <2>2, NextDoes
    <3>2. (\A i \in 1 .. (at - 1) : Has(plan[i]))'
      BY <1>0, <3>1, AddedCovers
    <3> QED BY <3>1, <3>2 DEF RunCovers, InTest, TestPc, LlmPc
  <2> QED BY <2>1, <2>2
<1>4. CASE Bench!Begin
  BY <1>0, <1>4 DEF RunCovers, Has, RunTyped, RunPc, InTest, TestPc, LlmPc, Bench!Begin,
     Bench!testVars, Bench!genVars, Bench!resultVars, Bench!childVars, Bench!reportVars
<1>5. CASE Bench!Guard
  <2>1. /\ at' = at + 1 /\ at <= Len(plan) /\ UNCHANGED plan /\ main' = "save" /\ main = "guard"
    BY <1>0, <1>5, GuardDoes
  <2>2. CASE raised # "none" /\ Added(AllStatus \ {"PASSED"})
    <3>1. (\A i \in 1 .. (at - 1) : Has(plan[i]))'
      BY <1>0, <2>1, <2>2, AddedCovers
    <3> QED BY <2>1, <3>1 DEF RunCovers, InTest, TestPc, LlmPc
  <2>3. CASE (raised = "none" \/ Len(entries) > before) /\ UNCHANGED entries
    <3>1. Len(entries) > before
      BY <1>0, <2>1, <2>3 DEF RunCovers, InTest
    <3>2. PICK test : test = plan[at] /\ Has(test)
      BY <1>0, <2>1, <3>1, TestIsCovered DEF InTest
    <3>3. Has(test)' /\ entries' \in Seq(EntryType) /\ Len(entries') >= Len(entries)
      BY <1>0, <2>3, <3>2 DEF RunTyped, Has
    <3>4. (\A i \in 1 .. (at - 1) : Has(plan[i]))'
      BY <1>0, <2>1, <2>3, <3>2, <3>3, CoveredNext
    <3> QED BY <2>1, <3>4 DEF RunCovers, InTest, TestPc, LlmPc
  <2> QED BY <1>0, <1>5, <2>2, <2>3, GuardDoes
<1>6. CASE Bench!Rest
  <2>1. /\ Added({"STOPPED"}) /\ at' = at + 1 /\ at <= Len(plan) /\ UNCHANGED plan
        /\ main' = "save"
    BY <1>0, <1>6, RestDoes
  <2>2. (\A i \in 1 .. (at - 1) : Has(plan[i]))'
    BY <1>0, <2>1, AddedCovers
  <2> QED BY <2>1, <2>2 DEF RunCovers, InTest, TestPc, LlmPc
<1>7. CASE Bench!Finish
  BY <1>0, <1>7 DEF RunCovers, Has, RunTyped, RunPc, InTest, TestPc, LlmPc, Bench!Finish, Bench!SaveThen,
     Bench!testVars, Bench!genVars, Bench!resultVars, Bench!childVars, Bench!reportVars
<1>8. CASE Bench!BeginItem
  <2>1. /\ UNCHANGED <<plan, at, before, item, entries>> /\ main = "item" /\ raised = "none"
        /\ \/ main' = "guard" /\ item > Items[plan[at]]
           \/ main' = "guard" /\ raised' = "STOPPED"
           \/ main' = "measure" /\ UNCHANGED raised
    BY <1>0, <1>8 DEF Bench!BeginItem, Bench!Raise, Bench!testVars, Bench!resultVars, Bench!Test,
       RunCovers, InTest, TestPc
  <2>2. plan[at] \in Tests /\ Items[plan[at]] \in Nat \ {0}
    BY <1>0, <2>1, TestIs, BenchAssumption DEF RunPlace, InTest, TestPc
  <2> QED BY <1>0, <2>1, <2>2 DEF RunCovers, RunTyped, Has, InTest, TestPc, LlmPc
<1>9. CASE Bench!Measure
  <2>1. main = "measure" /\ raised = "none" /\ UNCHANGED <<plan, at, before>>
    BY <1>0, <1>9, MeasureDoes DEF RunCovers, InTest, TestPc
  <2>2. CASE UNCHANGED <<entries, item>> /\ main' = "guard" /\ raised' # "none"
    BY <1>0, <2>1, <2>2 DEF RunCovers, Has, InTest, TestPc, LlmPc
  <2>3. ASSUME NEW statuses, Added(statuses), item' = item + 1,
               \/ main' = "item" /\ UNCHANGED raised
               \/ main' = "guard" /\ raised' = "STOPPED"
        PROVE  RunCovers'
    <3>1. /\ entries' \in Seq(EntryType) /\ Len(entries') = Len(entries) + 1
          /\ \A i \in 1 .. Len(entries) : entries'[i] = entries[i]
          /\ entries'[Len(entries) + 1].test = plan[at]
      BY <1>0, <2>3, AddedGrows
    <3>2. /\ (\A i \in 1 .. (at - 1) : Has(plan[i]))'
          /\ (\A i \in (before + 1) .. Len(entries) : entries[i].test = plan[at])'
          /\ Len(entries') > before'
      BY <1>0, <2>1, <3>1, TestAdds DEF InTest, TestPc
    <3> QED BY <2>1, <2>3, <3>2 DEF RunCovers, InTest, TestPc, LlmPc
  <2> QED BY <1>0, <1>9, <2>2, <2>3, MeasureDoes
<1>10. CASE Bench!StartServer
  BY <1>0, <1>10 DEF RunCovers, Has, RunTyped, RunPc, InTest, TestPc, LlmPc, Bench!StartServer, Bench!Raise,
     Bench!testVars, Bench!genVars, Bench!resultVars, Bench!childVars, Bench!reportVars
<1>11. CASE Bench!AwaitServer
  BY <1>0, <1>11 DEF RunCovers, Has, RunTyped, RunPc, InTest, TestPc, LlmPc, Bench!AwaitServer, Bench!Raise,
     Bench!testVars, Bench!genVars, Bench!resultVars, Bench!childVars, Bench!reportVars
<1>12. CASE Bench!BeginLevel
  <2>1. UNCHANGED <<plan, at, before, item, entries>> /\ main = "level" /\ raised = "none"
    BY <1>0, <1>12, BeginLevelDoes DEF RunCovers, InTest, LlmPc
  <2>2. Items["llm"] \in Nat \ {0} /\ item \in Nat
    BY <1>0, BenchAssumption DEF Tests, RunTyped
  <2>3. \/ main' = "cleanup" /\ raised' = "none" /\ item > 1
        \/ main' = "cleanup" /\ raised' = "STOPPED"
        \/ main' = "generate" /\ raised' = "none"
    <3>1. \/ main' = "cleanup" /\ raised' = raised /\ item > Items["llm"]
          \/ main' = "cleanup" /\ raised' = "STOPPED"
          \/ main' = "generate" /\ raised' = raised
      BY <1>0, <1>12, BeginLevelDoes
    <3> QED BY <2>1, <2>2, <3>1
  <2> QED BY <1>0, <2>1, <2>3 DEF RunCovers, Has, InTest, TestPc, LlmPc
<1>13. CASE Bench!Tick
  BY <1>0, <1>13 DEF RunCovers, Has, RunTyped, RunPc, InTest, TestPc, LlmPc, Bench!Tick,
     Bench!testVars, Bench!genVars, Bench!resultVars, Bench!childVars, Bench!reportVars
<1>14. CASE Bench!EndWarmup
  <2>1. UNCHANGED <<plan, at, before, item, entries>> /\ main = "summarize" /\ raised = "none"
    BY <1>0, <1>14, EndWarmupDoes DEF RunCovers, InTest, LlmPc
  <2> QED BY <1>0, <1>14, <2>1, EndWarmupDoes DEF RunCovers, Has, InTest, TestPc, LlmPc
<1>15. CASE Bench!EndLevel
  <2>1. /\ main = "summarize" /\ raised = "none" /\ UNCHANGED <<plan, at, before>>
        /\ plan[at] = "llm" /\ item' = item + 1 /\ item > 0 /\ item \in Nat
    BY <1>0, <1>15, EndLevelDoes DEF RunTyped, RunPlace, RunCovers, InTest, LlmPc
  <2>2. /\ (\A i \in 1 .. (at - 1) : Has(plan[i]))'
        /\ (\A i \in (before + 1) .. Len(entries) : entries[i].test = plan[at])'
        /\ Len(entries') > before'
    BY <1>0, <1>15, <2>1, EndLevelDoes, TestAdds DEF InTest, LlmPc
  <2> QED BY <1>0, <1>15, <2>1, <2>2, EndLevelDoes DEF RunCovers, InTest, TestPc, LlmPc
<1>16. CASE Bench!Terminate
  BY <1>0, <1>16 DEF RunCovers, Has, RunTyped, RunPc, InTest, TestPc, LlmPc, Bench!Terminate,
     Bench!testVars, Bench!genVars, Bench!resultVars, Bench!childVars, Bench!reportVars
<1>17. CASE Bench!KillServer
  BY <1>0, <1>17 DEF RunCovers, Has, RunTyped, RunPc, InTest, TestPc, LlmPc, Bench!KillServer,
     Bench!testVars, Bench!genVars, Bench!resultVars, Bench!childVars, Bench!reportVars
<1>18. CASE Bench!Killed
  BY <1>0, <1>18 DEF RunCovers, Has, RunTyped, RunPc, InTest, TestPc, LlmPc, Bench!Killed, Bench!AfterParent, Bench!Obeys,
     Bench!testVars, Bench!genVars, Bench!resultVars, Bench!childVars, Bench!reportVars
<1> QED BY <1>1, <1>2, <1>3, <1>4, <1>5, <1>6, <1>7, <1>8, <1>9, <1>10, <1>11, <1>12, <1>13, <1>14, <1>15, <1>16, <1>17, <1>18
        DEF Bench!RunNext, Bench!Code, Bench!World, Bench!Main


\* A prompt that is taken is one of the run's, and of a level that is left.
LEMMA CursorIsPrompt ==
  ASSUME RunTyped, RunPlace, RunPrompts, main \in {"generate", "summarize"}
  PROVE  /\ gen.cursor \in Nat /\ gen.last \in Nat /\ gen.cursor > 0
         /\ item \in Nat \ {0} /\ item <= Items["llm"]
         /\ gen.last <= Items["llm"] * (Warm + Measured)
         /\ \A p \in 1 .. gen.last : p \in Bench!Prompts
<1>1. item \in Nat \ {0} /\ item <= Items["llm"] /\ Items["llm"] \in Nat
  BY BenchAssumption DEF RunTyped, RunPlace, RunPrompts, LlmPc, Tests
<1>2. Bench!Warmed(item) + Warm + Measured <= Items["llm"] * (Warm + Measured)
  BY <1>1, WarmedIs
<1>3. Bench!Warmed(item) \in Nat /\ Warm \in Nat /\ Measured \in Nat
  BY <1>1, WarmedIs, BenchAssumption
<1>4. gen.cursor \in Nat /\ gen.last \in Nat /\ gen.cursor > 0
  BY DEF RunTyped, RunPrompts
<1>5. gen.last <= Bench!Warmed(item) + Warm + Measured
  BY <1>3 DEF RunPrompts
<1>6. Items["llm"] * (Warm + Measured) \in Nat
  BY <1>1, <1>3, Products
<1> DEFINE most == Items["llm"] * (Warm + Measured)
           until == Bench!Warmed(item) + Warm + Measured
<1>7. gen.last <= most
  <2>1. until \in Nat
    BY <1>3
  <2> HIDE DEF most, until
  <2> QED BY <1>2, <1>4, <1>5, <1>6, <2>1 DEF most, until
<1>8. Bench!Prompts = 1 .. most
  BY DEF Bench!Prompts
<1>9. \A p \in 1 .. gen.last : p \in 1 .. most
  <2> HIDE DEF most
  <2> QED BY <1>4, <1>6, <1>7 DEF most
<1> QED BY <1>1, <1>4, <1>7, <1>8, <1>9

LEMMA ThreadsWork ==
  ASSUME RunTyped, RunPlace, RunThreads, RunPrompts,
         NEW w \in Workers, Bench!Work(w) \/ Bench!Answer(w)
  PROVE  RunThreads'
<1>1. /\ main = "generate" /\ main' = main
      /\ thread' \in [Workers -> ThreadType]
      /\ \A v \in Workers \ {w} : thread'[v] = thread[v]
  BY WorkDoes
<1>2. CASE Looks(w) \/ Finds(w)
  <2>1. ~Sending(w) /\ (~Sending(w))' /\ thread'[w].prompt = thread[w].prompt /\ UNCHANGED record
    BY <1>2 DEF Looks, Finds, Sending
  <2> QED BY <1>1, <2>1 DEF RunThreads, Sending
<1>3. CASE Opens(w)
  <2>1. /\ Sending(w) /\ Sending(w)' /\ thread'[w].prompt = thread[w].prompt /\ UNCHANGED record
    BY <1>3 DEF Opens, Sending
  <2>2. \A v \in Workers : Sending(v)' <=> Sending(v)
    BY <1>1, <2>1 DEF Sending
  <2>3. \A v \in Workers : thread'[v].prompt = thread[v].prompt
    BY <1>1, <2>1
  <2> QED BY <1>1, <2>1, <2>2, <2>3 DEF RunThreads
<1>4. CASE Takes(w)
  <2> DEFINE p == gen.cursor
  <2>1. p \in Bench!Prompts /\ p \in Nat
    BY <1>1, <1>4, CursorIsPrompt DEF Takes
  <2>2. record[p] = "new"
    BY <2>1 DEF RunPrompts
  <2>3. record \in [Bench!Prompts -> RecordState]
    BY DEF RunTyped
  <2>4. /\ record'[p] = "sent"
        /\ \A q \in Bench!Prompts : q # p => record'[q] = record[q]
    BY <1>4, <2>1, <2>3 DEF Takes
  <2>5. ~Sending(w) /\ Sending(w)' /\ thread'[w].prompt = p
    BY <1>4 DEF Takes, Sending
  <2>6. \A v \in Workers \ {w} : Sending(v)' <=> Sending(v)
    BY <1>1 DEF Sending
  <2>7. \A v \in Workers \ {w} : Sending(v) =>
          thread[v].prompt \in Bench!Prompts /\ record[thread[v].prompt] = "sent"
          /\ thread[v].prompt # p
    BY <2>2 DEF RunThreads
  <2> HIDE DEF p
  <2>8. \A v \in Workers : Sending(v)' =>
          thread'[v].prompt \in Bench!Prompts /\ record'[thread'[v].prompt] = "sent"
    BY <1>1, <2>1, <2>4, <2>5, <2>6, <2>7
  <2>9. \A v, u \in Workers :
          Sending(v)' /\ Sending(u)' /\ thread'[v].prompt = thread'[u].prompt => v = u
    BY <1>1, <2>5, <2>6, <2>7 DEF RunThreads
  <2>10. \A q \in Bench!Prompts :
           record'[q] = "sent" => \E v \in Workers : Sending(v)' /\ thread'[v].prompt = q
    BY <1>1, <2>4, <2>5, <2>6 DEF RunThreads
  <2>11. \A v \in Workers : thread'[v].prompt \in Bench!Prompts \cup {0}
    BY <1>1, <2>1, <2>5 DEF RunThreads
  <2> QED BY <1>1, <2>8, <2>9, <2>10, <2>11 DEF RunThreads
<1>5. CASE Closes(w)
  <2> DEFINE p == thread[w].prompt
  <2>1. Sending(w) /\ (~Sending(w))' /\ thread'[w].prompt = p
    BY <1>5 DEF Closes, Sending
  <2>2. p \in Bench!Prompts
    BY <2>1 DEF RunThreads
  <2>3. record \in [Bench!Prompts -> RecordState]
    BY DEF RunTyped
  <2>4. /\ record'[p] # "sent"
        /\ \A q \in Bench!Prompts : q # p => record'[q] = record[q]
    BY <1>5, <2>2, <2>3 DEF Closes, EndStatus
  <2>5. \A v \in Workers \ {w} : Sending(v)' <=> Sending(v)
    BY <1>1 DEF Sending
  <2>6. \A v \in Workers \ {w} : Sending(v) =>
          thread[v].prompt \in Bench!Prompts /\ record[thread[v].prompt] = "sent"
          /\ thread[v].prompt # p
    BY <2>1 DEF RunThreads
  <2> HIDE DEF p
  <2>7. \A v \in Workers : Sending(v)' =>
          thread'[v].prompt \in Bench!Prompts /\ record'[thread'[v].prompt] = "sent"
    BY <1>1, <2>1, <2>4, <2>5, <2>6
  <2>8. \A v, u \in Workers :
          Sending(v)' /\ Sending(u)' /\ thread'[v].prompt = thread'[u].prompt => v = u
    BY <1>1, <2>1, <2>5 DEF RunThreads
  <2>9. \A q \in Bench!Prompts :
          record'[q] = "sent" => \E v \in Workers : Sending(v)' /\ thread'[v].prompt = q
    BY <1>1, <2>1, <2>4, <2>5 DEF RunThreads, p
  <2>10. \A v \in Workers : thread'[v].prompt \in Bench!Prompts \cup {0}
    BY <1>1, <2>1, <2>2 DEF RunThreads
  <2> QED BY <1>1, <2>7, <2>8, <2>9, <2>10 DEF RunThreads
<1> QED BY <1>2, <1>3, <1>4, <1>5, WorkDoes

\* A level starts when every request of the one before is over.
LEMMA ThreadsBegin ==
  ASSUME RunThreads, main \notin {"generate", "killed"}, main' = "generate", UNCHANGED record,
         NEW from, NEW to, NEW measured, Starts(from, to, measured)
  PROVE  RunThreads'
<1>1. \A p \in Bench!Prompts : record[p] # "sent"
  BY DEF RunThreads, Sending
<1>2. \A w \in Workers : (~Sending(w))' /\ thread'[w].prompt = 0
  BY DEF Starts, Sending
<1> QED BY <1>1, <1>2 DEF RunThreads

\* The other steps of the main thread find every thread done.
LEMMA ThreadsStay ==
  ASSUME RunThreads, UNCHANGED <<thread, record>>,
         \/ main' = main
         \/ main \notin {"generate", "killed"}
         \/ \A w \in Workers : thread[w].pc = "done"
         \/ main' = "killed"
  PROVE  RunThreads'
  BY DEF RunThreads, Sending

LEMMA RunThreadsStep ==
  ASSUME BenchInv, Bench!RunNext
  PROVE  RunThreads'
<1>0. RunTyped /\ RunPlace /\ RunThreads /\ RunPrompts
  BY DEF BenchInv
<1>1. CASE \E w \in Workers : Bench!Work(w) \/ Bench!Answer(w)
  BY <1>0, <1>1, ThreadsWork
<1>2. CASE Bench!BeginLevel
  BY <1>0, <1>2, BeginLevelDoes, ThreadsStay, ThreadsBegin
<1>3. CASE Bench!EndWarmup
  BY <1>0, <1>3, EndWarmupDoes, ThreadsStay, ThreadsBegin
<1>4. CASE Bench!Tick
  BY <1>0, <1>4, ThreadsStay DEF Bench!Tick, Bench!Alive
<1>5. CASE Bench!NextTest \/ Bench!Guard \/ Bench!Rest \/ Bench!Measure \/ Bench!EndLevel
  BY <1>0, <1>5, NextDoes, GuardDoes, RestDoes, MeasureDoes, EndLevelDoes, ThreadsStay
<1>6. CASE Bench!Saved \/ Bench!Begin \/ Bench!Finish \/ Bench!BeginItem \/ Bench!StartServer
           \/ Bench!AwaitServer \/ Bench!Terminate \/ Bench!KillServer
  <2>1. main \notin {"generate", "killed"} /\ UNCHANGED <<thread, record>>
    BY <1>6 DEF Bench!Saved, Bench!Begin, Bench!Finish, Bench!BeginItem, Bench!StartServer,
       Bench!AwaitServer, Bench!Terminate, Bench!KillServer, Bench!genVars
  <2> QED BY <1>0, <2>1, ThreadsStay
<1>7. CASE Bench!KillTool \/ Bench!ChildMoves \/ Bench!Signal \/ Bench!Killed \/ Bench!LoadReport
           \/ Bench!WriteReport
  <2>1. (main' = main \/ main' = "killed") /\ UNCHANGED <<thread, record>>
    BY <1>7 DEF Bench!KillTool, Bench!ChildMoves, Bench!Signal, Bench!Killed, Bench!LoadReport,
       Bench!WriteReport, Bench!genVars
  <2> QED BY <1>0, <2>1, ThreadsStay
<1> QED BY <1>1, <1>2, <1>3, <1>4, <1>5, <1>6, <1>7
        DEF Bench!RunNext, Bench!Code, Bench!World, Bench!Main


\* The prompts, when no request is sent and no level begins.
LEMMA PromptsStay ==
  ASSUME RunPrompts, UNCHANGED <<gen, record, sends, thread>>, stop => stop',
         \/ main' \notin {"generate", "summarize", "level"}
         \/ main' = main /\ item' = item
         \/ main = "generate" /\ main' = "summarize" /\ item' = item
         \/ main' = "level" /\ (~stop' => gen.cursor = Bench!Warmed(item') + 1)
  PROVE  RunPrompts'
<1>1. Bench!Warmed(item)' = Bench!Warmed(item')
  BY DEF Bench!Warmed
<1>2. /\ (gen.cursor > 0)'
      /\ (\A p \in Bench!Prompts : sends[p] = (IF p < gen.cursor THEN 1 ELSE 0))'
      /\ (\A p \in Bench!Prompts : record[p] = "new" <=> p >= gen.cursor)'
      /\ (~stop => \A p \in Bench!Prompts : record[p] # "aborted")'
      /\ (gen.cursor <= gen.last + 1)'
  BY DEF RunPrompts, Bench!Prompts
<1>3. main' \in {"generate", "summarize"} =>
        main \in {"generate", "summarize"} /\ item' = item
  OBVIOUS
<1>4. (main \in {"generate", "summarize"} =>
         /\ item <= Items["llm"]
         /\ gen.last = Bench!Warmed(item) + Warm + (IF gen.measured THEN Measured ELSE 0))'
  BY <1>1, <1>3 DEF RunPrompts
<1>5. (main = "level" /\ ~stop => gen.cursor = Bench!Warmed(item) + 1)'
  BY <1>1 DEF RunPrompts
<1>6. (main \in {"generate", "summarize"} /\ ~stop =>
         \A w \in Workers : thread[w].pc = "done" => gen.cursor > gen.last)'
  BY <1>3 DEF RunPrompts
<1> QED BY <1>2, <1>4, <1>5, <1>6 DEF RunPrompts

\* A level, or its measurement, begins with the prompt nobody has sent yet.
LEMMA PromptsBegin ==
  ASSUME RunTyped, RunPlace, RunPrompts, UNCHANGED <<record, sends, stop, item>>,
         ~stop, main' = "generate", item \in Nat \ {0}, item <= Items["llm"],
         NEW to \in Nat, NEW measured \in BOOLEAN, Starts(gen.cursor, to, measured),
         gen.cursor <= to + 1,
         to = Bench!Warmed(item) + Warm + (IF measured THEN Measured ELSE 0)
  PROVE  RunPrompts'
<1>1. /\ gen'.cursor = gen.cursor /\ gen'.last = to /\ (gen'.measured <=> measured)
      /\ \A w \in Workers : thread'[w].pc = "top"
  BY DEF Starts
<1>2. Bench!Warmed(item)' = Bench!Warmed(item)
  BY DEF Bench!Warmed
<1>3. (IF gen'.measured THEN Measured ELSE 0) = (IF measured THEN Measured ELSE 0)
  BY <1>1
<1>4. /\ (gen.cursor > 0)'
      /\ (\A p \in Bench!Prompts : sends[p] = (IF p < gen.cursor THEN 1 ELSE 0))'
      /\ (\A p \in Bench!Prompts : record[p] = "new" <=> p >= gen.cursor)'
      /\ (~stop => \A p \in Bench!Prompts : record[p] # "aborted")'
      /\ (gen.cursor <= gen.last + 1)'
  BY <1>1 DEF RunPrompts, Bench!Prompts
<1>5. (main \in {"generate", "summarize"} =>
         /\ item <= Items["llm"]
         /\ gen.last = Bench!Warmed(item) + Warm + (IF gen.measured THEN Measured ELSE 0))'
  BY <1>1, <1>2, <1>3
<1> QED BY <1>1, <1>4, <1>5 DEF RunPrompts

\* A level that nobody stopped was sent to its last prompt.
LEMMA LevelIsSent ==
  ASSUME RunTyped, RunPlace, RunThreads, RunPrompts, main = "summarize", ~stop
  PROVE  /\ gen.cursor = gen.last + 1
         /\ \A p \in Bench!Prompts : p <= gen.last => record[p] \in {"ok", "error"} /\ sends[p] = 1
<1>1. PICK w \in Workers : thread[w].pc = "done"
  BY BenchAssumption DEF RunThreads
<1>2. gen.cursor \in Nat /\ gen.last \in Nat /\ gen.cursor = gen.last + 1
  BY <1>1, CursorIsPrompt DEF RunPrompts
<1>3. \A p \in Bench!Prompts : p \in Nat
  <2> DEFINE most == Items["llm"] * (Warm + Measured)
  <2>1. most \in Nat
    BY Products, BenchAssumption DEF Tests
  <2>2. Bench!Prompts = 1 .. most
    BY DEF Bench!Prompts
  <2> HIDE DEF most
  <2> QED BY <2>1, <2>2
<1> SUFFICES ASSUME NEW p \in Bench!Prompts, p <= gen.last
             PROVE  record[p] \in {"ok", "error"} /\ sends[p] = 1
  BY <1>2
<1>4. p < gen.cursor /\ ~(p >= gen.cursor)
  BY <1>2, <1>3
<1>5. record[p] # "new" /\ sends[p] = 1 /\ record[p] # "aborted"
  BY <1>4 DEF RunPrompts
<1>6. record[p] # "sent"
  BY DEF RunThreads, Sending
<1> QED BY <1>5, <1>6 DEF RunTyped, RecordState

LEMMA PromptsWork ==
  ASSUME RunTyped, RunPlace, RunThreads, RunPrompts,
         NEW w \in Workers, Bench!Work(w) \/ Bench!Answer(w)
  PROVE  RunPrompts'
<1>1. /\ main = "generate" /\ UNCHANGED <<main, item, stop>>
      /\ \A v \in Workers \ {w} : thread'[v] = thread[v]
      /\ gen.cursor \in Nat /\ gen.last \in Nat /\ gen.cursor > 0
      /\ \A p \in 1 .. gen.last : p \in Bench!Prompts
  BY WorkDoes, CursorIsPrompt
<1>2. /\ record \in [Bench!Prompts -> RecordState] /\ sends \in [Bench!Prompts -> Nat]
      /\ \A p \in Bench!Prompts : p \in Nat
  <2> DEFINE most == Items["llm"] * (Warm + Measured)
  <2>1. most \in Nat
    BY Products, BenchAssumption DEF Tests
  <2>2. Bench!Prompts = 1 .. most
    BY DEF Bench!Prompts
  <2>3. \A p \in Bench!Prompts : p \in Nat
    <3> HIDE DEF most
    <3> QED BY <2>1, <2>2
  <2> QED BY <2>3 DEF RunTyped
<1>3. Bench!Warmed(item)' = Bench!Warmed(item) /\ Bench!Prompts' = Bench!Prompts
  BY <1>1 DEF Bench!Warmed, Bench!Prompts
<1>4. CASE UNCHANGED <<gen, record, sends>> /\ (~stop /\ thread'[w].pc = "done" => gen.cursor > gen.last)
  <2>1. (main \in {"generate", "summarize"} /\ ~stop =>
           \A v \in Workers : thread[v].pc = "done" => gen.cursor > gen.last)'
    BY <1>1, <1>4 DEF RunPrompts
  <2> QED BY <1>1, <1>3, <1>4, <2>1 DEF RunPrompts
<1>5. CASE Takes(w)
  <2> DEFINE p == gen.cursor
  <2>1. p \in Bench!Prompts /\ record[p] = "new" /\ sends[p] = 0
    BY <1>1, <1>5 DEF Takes, RunPrompts
  <2>2. /\ record'[p] = "sent" /\ sends'[p] = 1
        /\ \A q \in Bench!Prompts : q # p => record'[q] = record[q] /\ sends'[q] = sends[q]
    BY <1>2, <1>5, <2>1 DEF Takes
  <2>3. gen'.cursor = p + 1 /\ gen'.last = gen.last /\ (gen'.measured <=> gen.measured) /\ p <= gen.last
    BY <1>5 DEF Takes
  <2>4. thread'[w].pc = "sent"
    BY <1>5 DEF Takes
  <2> HIDE DEF p
  <2>5. p \in Nat /\ p > 0 /\ p = gen.cursor
    BY <1>1 DEF p
  <2>6. /\ (gen.cursor > 0)' /\ (gen.cursor <= gen.last + 1)'
        /\ (\A q \in Bench!Prompts : sends[q] = (IF q < gen.cursor THEN 1 ELSE 0))'
        /\ (\A q \in Bench!Prompts : record[q] = "new" <=> q >= gen.cursor)'
        /\ (~stop => \A q \in Bench!Prompts : record[q] # "aborted")'
    BY <1>1, <1>2, <1>3, <2>1, <2>2, <2>3, <2>5 DEF RunPrompts
  <2>7. (\A v \in Workers : ~stop /\ thread[v].pc = "done" => gen.cursor > gen.last)'
    BY <1>1, <2>3, <2>4, <2>5 DEF RunPrompts
  <2>8. (main \in {"generate", "summarize"} =>
         /\ item <= Items["llm"]
         /\ gen.last = Bench!Warmed(item) + Warm + (IF gen.measured THEN Measured ELSE 0))'
    BY <1>1, <1>3, <2>3 DEF RunPrompts
  <2> QED BY <1>1, <2>6, <2>7, <2>8 DEF RunPrompts
<1>6. CASE Closes(w)
  <2> DEFINE p == thread[w].prompt
  <2>1. p \in Bench!Prompts /\ record[p] = "sent"
    BY <1>6 DEF Closes, RunThreads
  <2>2. /\ record'[p] \in EndStatus /\ (record'[p] = "aborted" => stop)
        /\ \A q \in Bench!Prompts : q # p => record'[q] = record[q]
        /\ UNCHANGED <<gen, sends>> /\ thread'[w].pc = "top"
    BY <1>2, <1>6, <2>1 DEF Closes
  <2> HIDE DEF p
  <2>3. ~(p >= gen.cursor)
    BY <2>1 DEF RunPrompts
  <2>4. /\ (\A q \in Bench!Prompts : record[q] = "new" <=> q >= gen.cursor)'
        /\ (~stop => \A q \in Bench!Prompts : record[q] # "aborted")'
    BY <1>1, <1>2, <1>3, <2>1, <2>2, <2>3 DEF RunPrompts, EndStatus
  <2>5. (\A v \in Workers : ~stop /\ thread[v].pc = "done" => gen.cursor > gen.last)'
    BY <1>1, <2>2 DEF RunPrompts
  <2> QED BY <1>1, <1>3, <2>2, <2>4, <2>5 DEF RunPrompts
<1>7. Looks(w) => UNCHANGED <<gen, record, sends>> /\ (~stop => thread'[w].pc # "done")
  BY DEF Looks
<1>8. Finds(w) => UNCHANGED <<gen, record, sends>> /\ gen.cursor > gen.last
  BY DEF Finds
<1>9. Opens(w) => UNCHANGED <<gen, record, sends>> /\ thread'[w].pc # "done"
  BY DEF Opens
<1> QED BY <1>4, <1>5, <1>6, <1>7, <1>8, <1>9, WorkDoes

LEMMA RunPromptsStep ==
  ASSUME BenchInv, Bench!RunNext
  PROVE  RunPrompts'
<1>0. RunTyped /\ RunPlace /\ RunThreads /\ RunPrompts /\ RunFresh
  BY DEF BenchInv
<1>1. CASE \E w \in Workers : Bench!Work(w) \/ Bench!Answer(w)
  BY <1>0, <1>1, PromptsWork
<1>2. CASE Bench!BeginLevel
  <2>1. CASE main' = "cleanup"
    BY <1>0, <1>2, <2>1, BeginLevelDoes, PromptsStay
  <2>2. CASE main' # "cleanup"
    <3>0. item <= Items["llm"] /\ ~stop /\ main = "level"
      BY <1>0, <1>2, <2>2, BeginLevelDoes
    <3>1. item \in Nat \ {0} /\ item <= Items["llm"] /\ ~stop
      BY <1>0, <3>0 DEF RunTyped, RunPlace, LlmPc
    <3>2. gen.cursor = Bench!Warmed(item) + 1
      BY <1>0, <1>2, <3>1, BeginLevelDoes DEF RunPrompts
    <3>5. Bench!Warmed(item) \in Nat /\ Warm \in Nat
      BY <1>0, <3>1, WarmedIs, BenchAssumption
    <3>3. /\ Bench!Warmed(item) + Warm \in Nat
          /\ gen.cursor <= Bench!Warmed(item) + Warm + 1
          /\ Bench!Warmed(item) + Warm = Bench!Warmed(item) + Warm + 0
      BY <3>2, <3>5
    <3>4. /\ Starts(gen.cursor, Bench!Warmed(item) + Warm, FALSE) /\ main' = "generate"
          /\ UNCHANGED <<record, sends, stop, item>>
      BY <1>0, <1>2, <2>2, <3>2, BeginLevelDoes
    <3> QED BY <1>0, <3>1, <3>3, <3>4, PromptsBegin
  <2> QED BY <2>1, <2>2
<1>3. CASE Bench!EndWarmup
  <2>1. CASE main' = "cleanup"
    BY <1>0, <1>3, <2>1, EndWarmupDoes, PromptsStay
  <2>2. CASE main' # "cleanup"
    <3>1. /\ item \in Nat \ {0} /\ item <= Items["llm"] /\ ~stop /\ ~gen.measured
          /\ main = "summarize"
      BY <1>0, <1>3, <2>2, EndWarmupDoes, CursorIsPrompt
    <3>5. Bench!Warmed(item) \in Nat /\ Warm \in Nat /\ Measured \in Nat
      BY <1>0, <3>1, WarmedIs, BenchAssumption
    <3>6. gen.last = Bench!Warmed(item) + Warm + 0 /\ gen.cursor = gen.last + 1
      BY <1>0, <3>1, LevelIsSent DEF RunPrompts
    <3>2. gen.cursor = Bench!Warmed(item) + Warm + 1
      BY <3>5, <3>6
    <3>3. /\ Bench!Warmed(item) + Warm + Measured \in Nat
          /\ gen.cursor <= Bench!Warmed(item) + Warm + Measured + 1
      BY <3>2, <3>5
    <3>4. /\ Starts(gen.cursor, Bench!Warmed(item) + Warm + Measured, TRUE) /\ main' = "generate"
          /\ UNCHANGED <<record, sends, stop, item>>
      BY <1>0, <1>3, <2>2, <3>2, EndWarmupDoes
    <3> QED BY <1>0, <3>1, <3>3, <3>4, PromptsBegin
  <2> QED BY <2>1, <2>2
<1>4. CASE Bench!EndLevel
  <2>1. CASE main' = "cleanup"
    BY <1>0, <1>4, <2>1, EndLevelDoes, PromptsStay
  <2>2. CASE main' # "cleanup"
    <3>1. /\ item \in Nat \ {0} /\ ~stop /\ gen.measured /\ main = "summarize"
      BY <1>0, <1>4, <2>2, EndLevelDoes, CursorIsPrompt
    <3>2. gen.cursor = Bench!Warmed(item) + Warm + Measured + 1
      BY <1>0, <3>1, LevelIsSent, WarmedIs, BenchAssumption DEF RunPrompts
    <3>3. gen.cursor = Bench!Warmed(item + 1) + 1
      BY <1>0, <3>1, <3>2, WarmedIs, BenchAssumption
    <3> QED BY <1>0, <1>4, <2>2, <3>3, EndLevelDoes, PromptsStay
  <2> QED BY <2>1, <2>2
<1>5. CASE Bench!AwaitServer
  <2>1. CASE main' = "cleanup"
    BY <1>0, <1>5, <2>1, PromptsStay DEF Bench!AwaitServer, Bench!genVars
  <2>2. CASE main' # "cleanup"
    <3>1. /\ main = "loading" /\ main' = "level" /\ UNCHANGED <<gen, record, sends, thread, stop, item>>
      BY <1>5, <2>2 DEF Bench!AwaitServer, Bench!genVars, Bench!testVars, Bench!Raise
    <3>2. at \in 1 .. Len(plan) /\ plan[at] = "llm"
      BY <1>0, <3>1 DEF RunTyped, RunPlace, InTest, LlmPc
    <3>3. gen.cursor = 1 /\ item = 1
      BY <1>0, <3>1, <3>2 DEF RunFresh
    <3>4. Bench!Warmed(1) = 0
      BY <1>0, WarmedIs
    <3> QED BY <1>0, <3>1, <3>3, <3>4, PromptsStay
  <2> QED BY <2>1, <2>2
<1>6. CASE Bench!Tick
  BY <1>0, <1>6, PromptsStay DEF Bench!Tick, Bench!testVars
<1>7. CASE Bench!NextTest \/ Bench!Guard \/ Bench!Rest \/ Bench!Measure
  BY <1>0, <1>7, NextDoes, GuardDoes, RestDoes, MeasureDoes, PromptsStay
<1>8. CASE Bench!Saved \/ Bench!Begin \/ Bench!Finish \/ Bench!BeginItem \/ Bench!StartServer
           \/ Bench!Terminate \/ Bench!KillServer
  <2>1. /\ main' \notin {"generate", "summarize", "level"}
        /\ UNCHANGED <<gen, record, sends, thread, stop>>
    BY <1>0, <1>8 DEF Bench!Saved, Bench!Begin, Bench!Finish, Bench!BeginItem, Bench!StartServer,
       Bench!Terminate, Bench!KillServer, Bench!genVars, Bench!Raise, Bench!SaveThen, RunTyped
  <2> QED BY <1>0, <2>1, PromptsStay
<1>9. CASE Bench!KillTool \/ Bench!ChildMoves \/ Bench!Signal \/ Bench!Killed \/ Bench!LoadReport
           \/ Bench!WriteReport
  <2>1. /\ \/ main' = main /\ item' = item
           \/ main' = "killed"
        /\ UNCHANGED <<gen, record, sends, thread>> /\ (stop => stop')
    BY <1>9 DEF Bench!KillTool, Bench!ChildMoves, Bench!Signal, Bench!Killed, Bench!LoadReport,
       Bench!WriteReport, Bench!genVars, Bench!testVars
  <2> QED BY <1>0, <2>1, PromptsStay
<1> QED BY <1>1, <1>2, <1>3, <1>4, <1>5, <1>6, <1>7, <1>8, <1>9
        DEF Bench!RunNext, Bench!Code, Bench!World, Bench!Main

LEMMA RunFreshStep ==
  ASSUME BenchInv, Bench!RunNext
  PROVE  RunFresh'
<1>0. RunTyped /\ RunPlace /\ RunFresh
  BY DEF BenchInv
<1> DEFINE early == {"next", "save", "begin", "start", "loading"}
<1>1. ASSUME UNCHANGED <<plan, gen>>,
             \/ at' = at /\ (main' \in early => main \in early) /\ (main' \in {"start", "loading"} => item' = 1)
             \/ at' = at + 1 /\ main' \notin {"start", "loading"}
      PROVE  RunFresh'
  BY <1>0, <1>1 DEF RunFresh, RunTyped
<1>2. ASSUME UNCHANGED <<plan, at>>, main \in LlmPc, main' \notin early
      PROVE  RunFresh'
  <2>1. at \in 1 .. Len(plan) /\ plan[at] = "llm"
    BY <1>0, <1>2 DEF RunTyped, RunPlace, InTest
  <2>2. \A i \in 1 .. Len(plan) : plan[i] = "llm" => i = at
    BY <1>0, <2>1 DEF RunFresh
  <2> QED BY <1>0, <1>2, <2>1, <2>2 DEF RunFresh, RunTyped
<1>3. CASE \E w \in Workers : Bench!Work(w) \/ Bench!Answer(w)
  BY <1>0, <1>2, <1>3, WorkDoes DEF LlmPc
<1>4. CASE Bench!BeginLevel \/ Bench!EndWarmup \/ Bench!EndLevel
  BY <1>0, <1>2, <1>4, BeginLevelDoes, EndWarmupDoes, EndLevelDoes DEF LlmPc
<1>5. CASE Bench!NextTest \/ Bench!Guard \/ Bench!Rest \/ Bench!Measure
  BY <1>0, <1>1, <1>5, NextDoes, GuardDoes, RestDoes, MeasureDoes
<1>6. CASE Bench!Begin
  BY <1>0, <1>1, <1>6 DEF Bench!Begin, Bench!genVars
<1>7. CASE Bench!StartServer
  BY <1>0, <1>1, <1>7 DEF Bench!StartServer, Bench!genVars, Bench!testVars, Bench!Raise, RunFresh
<1>8. CASE Bench!Finish
  <2>1. at > Len(plan) /\ main' = "save" /\ UNCHANGED <<plan, at, item, gen>>
    BY <1>8 DEF Bench!Finish, Bench!SaveThen, Bench!testVars, Bench!genVars
  <2> QED BY <1>0, <2>1 DEF RunFresh, RunTyped
<1>9. CASE Bench!Saved \/ Bench!BeginItem \/ Bench!AwaitServer \/ Bench!Tick
           \/ Bench!Terminate \/ Bench!KillServer \/ Bench!KillTool \/ Bench!ChildMoves
           \/ Bench!Signal \/ Bench!Killed \/ Bench!LoadReport \/ Bench!WriteReport
  <2>1. /\ UNCHANGED <<plan, at, item, gen>>
        /\ main' = main \/ main' \notin early \/ (main = "save" /\ main' = next)
    BY <1>9 DEF Bench!Saved, Bench!BeginItem, Bench!AwaitServer, Bench!Tick, Bench!Terminate,
       Bench!KillServer, Bench!KillTool, Bench!ChildMoves, Bench!Signal, Bench!Killed,
       Bench!LoadReport, Bench!WriteReport, Bench!genVars, Bench!testVars, Bench!Raise
  <2> QED BY <1>0, <1>1, <2>1 DEF RunFresh, RunTyped
<1> QED BY <1>3, <1>4, <1>5, <1>6, <1>7, <1>8, <1>9
        DEF Bench!RunNext, Bench!Code, Bench!World, Bench!Main

\* What is called PASSED stays measured.
LEMMA PassedStays ==
  ASSUME RunPassed, UNCHANGED entries,
         \A p \in Bench!Prompts : record[p] \in {"ok", "error"} /\ sends[p] = 1 =>
                                    record'[p] \in {"ok", "error"} /\ sends'[p] = 1
  PROVE  RunPassed'
<1>1. Bench!Prompts' = Bench!Prompts
  BY DEF Bench!Prompts
<1>2. \A i \in 1 .. Len(entries) :
        Bench!MeasuredPrompts(entries[i].level)' = Bench!MeasuredPrompts(entries[i].level)
  BY DEF Bench!MeasuredPrompts, Bench!Offset, Bench!Warmed
<1> QED BY <1>1, <1>2 DEF RunPassed

LEMMA PassedGrows ==
  ASSUME RunTyped, RunPassed, UNCHANGED <<record, sends>>,
         Len(entries') = Len(entries) + 1,
         \A i \in 1 .. Len(entries) : entries'[i] = entries[i],
         LET new == entries'[Len(entries) + 1]
         IN  new.status = "PASSED" /\ new.level > 0 =>
               \A p \in Bench!MeasuredPrompts(new.level) :
                 p \in Bench!Prompts /\ record[p] \in {"ok", "error"} /\ sends[p] = 1
  PROVE  RunPassed'
<1>1. Bench!Prompts' = Bench!Prompts
  BY DEF Bench!Prompts
<1> DEFINE Measures(k) == \A p \in Bench!MeasuredPrompts(k) :
                            p \in Bench!Prompts /\ record[p] \in {"ok", "error"} /\ sends[p] = 1
<1>2. \A i \in 1 .. Len(entries) :
        entries[i].status = "PASSED" /\ entries[i].level > 0 => Measures(entries[i].level)
  BY DEF RunPassed
<1>3. LET new == entries'[Len(entries) + 1]
      IN  new.status = "PASSED" /\ new.level > 0 => Measures(new.level)
  OBVIOUS
<1>4. Len(entries) \in Nat
  BY DEF RunTyped
<1>5. \A i \in 1 .. Len(entries') :
        entries'[i].status = "PASSED" /\ entries'[i].level > 0 => Measures(entries'[i].level)
  <2> HIDE DEF Measures
  <2> QED BY <1>2, <1>3, <1>4
<1>6. \A k : Measures(k)' <=> Measures(k)
  BY <1>1 DEF Bench!MeasuredPrompts, Bench!Offset, Bench!Warmed
<1>7. RunPassed' <=> \A i \in 1 .. Len(entries') :
        entries'[i].status = "PASSED" /\ entries'[i].level > 0 =>
          \A p \in Bench!MeasuredPrompts(entries'[i].level) :
                 p \in Bench!Prompts /\ record'[p] \in {"ok", "error"} /\ sends'[p] = 1
  BY <1>1 DEF RunPassed, Bench!MeasuredPrompts, Bench!Offset, Bench!Warmed
<1> QED BY <1>5, <1>7

LEMMA AddedPasses ==
  ASSUME RunTyped, RunPassed, UNCHANGED <<record, sends>>, NEW statuses, Added(statuses)
  PROVE  RunPassed'
<1>1. /\ Len(entries') = Len(entries) + 1
      /\ \A i \in 1 .. Len(entries) : entries'[i] = entries[i]
      /\ entries'[Len(entries) + 1].level = 0
  BY DEF Added
<1> QED BY <1>1, PassedGrows

LEMMA LevelPasses ==
  ASSUME RunTyped, RunPlace, RunThreads, RunPrompts, RunPassed, Bench!EndLevel
  PROVE  RunPassed'
<1>1. /\ main = "summarize" /\ gen.measured /\ UNCHANGED <<record, sends>>
      /\ Len(entries') = Len(entries) + 1
      /\ \A i \in 1 .. Len(entries) : entries'[i] = entries[i]
      /\ entries'[Len(entries) + 1].level = item
      /\ entries'[Len(entries) + 1].status = "PASSED" => ~stop
  BY EndLevelDoes
<1>2. CASE stop
  BY <1>1, <1>2, PassedGrows
<1>3. CASE ~stop
  <2>1. item \in Nat \ {0}
    BY <1>1, CursorIsPrompt
  <2>2. Bench!Warmed(item) \in Nat /\ Warm \in Nat /\ Measured \in Nat
    BY <2>1, WarmedIs, BenchAssumption
  <2>3. gen.last = Bench!Warmed(item) + Warm + Measured
    BY <1>1 DEF RunPrompts
  <2>4. Bench!MeasuredPrompts(item) =
          (Bench!Warmed(item) + Warm + 1) .. (Bench!Warmed(item) + Warm + Measured)
    BY DEF Bench!MeasuredPrompts, Bench!Offset
  <2>5. \A p \in Bench!MeasuredPrompts(item) : p \in 1 .. gen.last /\ p <= gen.last
    BY <2>2, <2>3, <2>4
  <2>6. \A p \in 1 .. gen.last : p \in Bench!Prompts
    BY <1>1, CursorIsPrompt
  <2>7. \A p \in Bench!Prompts : p <= gen.last => record[p] \in {"ok", "error"} /\ sends[p] = 1
    BY <1>1, <1>3, LevelIsSent
  <2>8. \A p \in Bench!MeasuredPrompts(item) :
          p \in Bench!Prompts /\ record[p] \in {"ok", "error"} /\ sends[p] = 1
    BY <2>5, <2>6, <2>7
  <2> QED BY <1>1, <2>8, PassedGrows
<1> QED BY <1>2, <1>3

LEMMA WorkPasses ==
  ASSUME RunTyped, RunPlace, RunThreads, RunPrompts, RunPassed,
         NEW w \in Workers, Bench!Work(w) \/ Bench!Answer(w)
  PROVE  RunPassed'
<1>1. main = "generate" /\ UNCHANGED entries
  BY WorkDoes
<1>2. record \in [Bench!Prompts -> RecordState] /\ sends \in [Bench!Prompts -> Nat]
  BY DEF RunTyped
<1>3. CASE UNCHANGED <<record, sends>>
  BY <1>1, <1>3, PassedStays
<1>4. CASE Takes(w)
  <2>1. gen.cursor \in Bench!Prompts
    BY <1>1, <1>4, CursorIsPrompt DEF Takes
  <2>2. record[gen.cursor] = "new"
    BY <2>1, CursorIsPrompt, <1>1 DEF RunPrompts
  <2> DEFINE p == gen.cursor
  <2>3. \A q \in Bench!Prompts : q # p => record'[q] = record[q] /\ sends'[q] = sends[q]
    BY <1>2, <1>4, <2>1 DEF Takes
  <2> QED BY <1>1, <2>2, <2>3, PassedStays
<1>5. CASE Closes(w)
  <2> DEFINE p == thread[w].prompt
  <2>1. p \in Bench!Prompts /\ record[p] = "sent"
    BY <1>5 DEF Closes, RunThreads
  <2>2. UNCHANGED sends /\ \A q \in Bench!Prompts : q # p => record'[q] = record[q]
    BY <1>2, <1>5, <2>1 DEF Closes
  <2> QED BY <1>1, <2>1, <2>2, PassedStays
<1> QED BY <1>3, <1>4, <1>5, WorkDoes DEF Looks, Finds, Opens

LEMMA RunPassedStep ==
  ASSUME BenchInv, Bench!RunNext
  PROVE  RunPassed'
<1>0. RunTyped /\ RunPlace /\ RunThreads /\ RunPrompts /\ RunPassed
  BY DEF BenchInv
<1>1. CASE \E w \in Workers : Bench!Work(w) \/ Bench!Answer(w)
  BY <1>0, <1>1, WorkPasses
<1>2. CASE Bench!EndLevel
  BY <1>0, <1>2, LevelPasses
<1>3. CASE Bench!NextTest \/ Bench!Guard \/ Bench!Rest \/ Bench!Measure
  <2>1. UNCHANGED <<record, sends>> /\ (UNCHANGED entries \/ \E statuses : Added(statuses))
    BY <1>0, <1>3, NextDoes, GuardDoes, RestDoes, MeasureDoes
  <2> QED BY <1>0, <2>1, AddedPasses, PassedStays
<1>4. CASE Bench!BeginLevel \/ Bench!EndWarmup
  <2>1. UNCHANGED <<record, sends, entries>>
    BY <1>0, <1>4, BeginLevelDoes, EndWarmupDoes
  <2> QED BY <1>0, <2>1, PassedStays
<1>5. CASE Bench!Saved \/ Bench!Begin \/ Bench!Finish \/ Bench!BeginItem \/ Bench!StartServer
           \/ Bench!AwaitServer \/ Bench!Tick \/ Bench!Terminate \/ Bench!KillServer
  <2>1. UNCHANGED <<record, sends, entries>>
    BY <1>5 DEF Bench!Saved, Bench!Begin, Bench!Finish, Bench!BeginItem, Bench!StartServer,
       Bench!AwaitServer, Bench!Tick, Bench!Terminate, Bench!KillServer, Bench!genVars,
       Bench!resultVars
  <2> QED BY <1>0, <2>1, PassedStays
<1>6. CASE Bench!KillTool \/ Bench!ChildMoves \/ Bench!Signal \/ Bench!Killed \/ Bench!LoadReport
           \/ Bench!WriteReport
  <2>1. UNCHANGED <<record, sends, entries>>
    BY <1>6 DEF Bench!KillTool, Bench!ChildMoves, Bench!Signal, Bench!Killed, Bench!LoadReport,
       Bench!WriteReport, Bench!genVars, Bench!resultVars
  <2> QED BY <1>0, <2>1, PassedStays
<1> QED BY <1>1, <1>2, <1>3, <1>4, <1>5, <1>6
        DEF Bench!RunNext, Bench!Code, Bench!World, Bench!Main

\* The types are among what the invariant says.
LEMMA BenchTypes ==
  ASSUME BenchInv
  PROVE  Bench!RunTypeOK
<1>1. /\ at \in 1 .. (Len(plan) + 1) /\ item \in Nat /\ before \in 0 .. Len(entries)
      /\ raised \in {"none", "STOPPED", "FAILED", "UNAVAILABLE"}
      /\ stop \in BOOLEAN /\ stubborn \in BOOLEAN
      /\ child \in {"none", "running", "ready", "gone"}
      /\ told \in {"RUNNING", "PASSED", "FAILED", "STOPPED"}
  BY DEF BenchInv, RunTyped, RunPlace, RunSaved
<1>2. results = None \/ Bench!IsPrefix(results, entries)
  <2> SUFFICES ASSUME results # None PROVE Bench!IsPrefix(results, entries)
    OBVIOUS
  <2>1. results \in Seq(EntryType) /\ entries \in Seq(EntryType) /\ Prefix(results, entries)
    BY DEF BenchInv, RunTyped, RunSaved
  <2> DEFINE n == Len(results)
  <2>2. n \in Nat /\ n <= Len(entries) /\ \A i \in 1 .. n : results[i] = entries[i]
    BY <2>1 DEF Prefix
  <2>3. SubSeq(results, 1, n) = results /\ SubSeq(entries, 1, n) = results
    BY <2>1, <2>2
  <2> QED BY <2>1, <2>2, <2>3 DEF Bench!IsPrefix
<1>3. \A w \in Workers : thread[w].prompt \in Bench!Prompts \cup {0}
  BY DEF BenchInv, RunThreads
<1> QED BY <1>1, <1>2, <1>3 DEF Bench!RunTypeOK

LEMMA BenchStep ==
  ASSUME BenchInv, Bench!RunNext \/ UNCHANGED benchVars
  PROVE  BenchInv'
<1>1. CASE Bench!RunNext
  BY <1>1, RunTypedStep, RunPlaceStep, RunChildStep, RunSavedStep, RunCoversStep, RunThreadsStep,
     RunPromptsStep, RunFreshStep, RunPassedStep DEF BenchInv
<1>2. CASE UNCHANGED benchVars
  <2> USE <1>2 DEF benchVars, BenchInv
  <2>1. RunTyped'
    BY DEF RunTyped, Bench!Prompts
  <2>2. RunPlace' /\ RunChild' /\ RunSaved'
    BY DEF RunPlace, RunChild, RunSaved, Over, Prefix
  <2>3. RunCovers'
    BY DEF RunCovers, Has
  <2>4. RunThreads'
    BY ThreadsStay
  <2>5. RunPrompts'
    BY PromptsStay
  <2>6. RunFresh'
    BY DEF RunFresh
  <2>7. RunPassed'
    BY PassedStays
  <2> QED BY <2>1, <2>2, <2>3, <2>4, <2>5, <2>6, <2>7
<1> QED BY <1>1, <1>2

LEMMA BenchStarts ==
  ASSUME Bench!RunInit(Plans, {"PASSED", "FAILED"})
  PROVE  BenchInv
<1>1. /\ plan \in Seq(Tests) /\ Len(plan) \in 1 .. 2
      /\ \A i, j \in 1 .. Len(plan) : plan[i] = "llm" /\ plan[j] = "llm" => i = j
  <2>1. plan \in Plans
    BY DEF Bench!RunInit
  <2>2. \A t \in Tests : <<t>> \in Seq(Tests) /\ Len(<<t>>) = 1
    BY DEF Tests
  <2>3. /\ <<"compute", "nccl">> \in Seq(Tests) /\ Len(<<"compute", "nccl">>) = 2
        /\ <<"compute", "nccl">>[1] # "llm" /\ <<"compute", "nccl">>[2] # "llm"
    BY DEF Tests
  <2>4. CASE plan = <<"compute", "nccl">>
    BY <2>3, <2>4
  <2>5. CASE \E t \in Tests : plan = <<t>>
    BY <2>2, <2>5
  <2> QED BY <2>1, <2>4, <2>5 DEF Plans, Tests
<1>2. /\ at = 1 /\ item = 0 /\ before = 0 /\ main \in {"next", "begin"}
      /\ raised = "none" /\ stop = FALSE /\ results = entries /\ next = "next" /\ child = "none"
      /\ stubborn \in BOOLEAN
      /\ told = "RUNNING" /\ report = None /\ outdated = FALSE
      /\ thread = [w \in Workers |-> [pc |-> "done", prompt |-> 0]]
      /\ record = [p \in Bench!Prompts |-> "new"] /\ sends = [p \in Bench!Prompts |-> 0]
  BY DEF Bench!RunInit, Bench!Resting
<1>3. /\ entries \in Seq(EntryType)
      /\ \A i \in 1 .. Len(entries) : entries[i].level = 0
  <2>1. ASSUME NEW s \in {"PASSED", "FAILED"}
        PROVE  Bench!Entry("health", s) \in EntryType /\ Bench!Entry("health", s).level = 0
    BY DEF Bench!Entry, EntryType
  <2>2. ASSUME NEW s \in {"PASSED", "FAILED"}, entries = <<Bench!Entry("health", s)>>
        PROVE  entries \in Seq(EntryType) /\ \A i \in 1 .. Len(entries) : entries[i].level = 0
    <3> DEFINE new == Bench!Entry("health", s)
    <3>1. new \in EntryType /\ new.level = 0
      BY <2>1
    <3>2. entries = <<new>>
      BY <2>2
    <3> HIDE DEF new
    <3> QED BY <3>1, <3>2
  <2>3. \/ entries = <<>>
        \/ \E s \in {"PASSED", "FAILED"} : entries = <<Bench!Entry("health", s)>>
    BY Zenon DEF Bench!RunInit
  <2>4. CASE entries = <<>>
    <3>1. <<>> \in Seq(EntryType) /\ Len(<<>>) = 0
      OBVIOUS
    <3> QED BY <2>4, <3>1
  <2> QED BY <2>2, <2>3, <2>4
<1>4. gen = [cursor |-> 1, last |-> 0, measured |-> FALSE]
  BY DEF Bench!RunInit
<1>5. /\ gen \in [cursor : Nat, last : Nat, measured : BOOLEAN]
      /\ gen.cursor = 1 /\ gen.last = 0
  BY <1>4
<1>6. \A w \in Workers : thread[w].pc = "done" /\ thread[w].prompt = 0
  BY <1>2
<1>7. /\ thread \in [Workers -> ThreadType]
      /\ record \in [Bench!Prompts -> RecordState] /\ sends \in [Bench!Prompts -> Nat]
      /\ \A p \in Bench!Prompts : record[p] = "new" /\ sends[p] = 0
  BY <1>2 DEF ThreadType, RecordState
<1>8. \A p \in Bench!Prompts : p \in Nat /\ p >= 1
  <2> DEFINE most == Items["llm"] * (Warm + Measured)
  <2>1. most \in Nat
    BY Products, BenchAssumption DEF Tests
  <2>2. Bench!Prompts = 1 .. most
    BY DEF Bench!Prompts
  <2> HIDE DEF most
  <2> QED BY <2>1, <2>2
<1>9. RunTyped
  <2>1. main \in RunPc
    BY <1>2 DEF RunPc
  <2>2. results \in Seq(EntryType) \cup {None} /\ report \in Seq(EntryType) \cup {None}
    BY <1>2, <1>3
  <2>3. /\ at \in Nat \ {0} /\ item \in Nat /\ before \in Nat
        /\ raised \in {"none", "STOPPED", "FAILED", "UNAVAILABLE"}
        /\ next \in {"next", "rest", "done"}
        /\ child \in {"none", "running", "ready", "gone"}
        /\ told \in {"RUNNING", "PASSED", "FAILED", "STOPPED"}
    BY <1>2
  <2>5. stop \in BOOLEAN /\ stubborn \in BOOLEAN /\ outdated \in BOOLEAN
    BY <1>2, Zenon
  <2>4. plan \in Seq(Tests)
    BY <1>1
  <2> QED BY <1>3, <1>5, <1>7, <2>1, <2>2, <2>3, <2>4, <2>5 DEF RunTyped
<1>10. RunPlace
  <2>1. /\ main \notin LlmPc \cup {"item", "measure"} /\ main \notin TestPc /\ ~Over
    BY <1>2 DEF LlmPc, TestPc, Over
  <2>2. Len(plan) \in 1 .. 2 /\ at = 1
    BY <1>1, <1>2
  <2>3. Len(plan) > 0 /\ at <= Len(plan) + 1 /\ at <= Len(plan)
    BY <2>2
  <2> QED BY <2>1, <2>3 DEF RunPlace
<1>11. RunChild
  BY <1>2 DEF RunChild
<1>12. RunSaved
  <2>1. results # None => Prefix(results, entries)
    BY <1>2 DEF Prefix
  <2>2. results # None
    BY <1>2, <1>3, BenchAssumption DEF EntryType
  <2>3. Len(entries) \in Nat
    BY <1>3
  <2> QED BY <1>2, <2>1, <2>2, <2>3 DEF RunSaved
<1>13. RunCovers
  BY <1>2 DEF RunCovers, InTest, TestPc, LlmPc
<1>14. RunThreads
  BY <1>2, <1>6, <1>7 DEF RunThreads, Sending
<1>15. RunPrompts
  BY <1>2, <1>5, <1>7, <1>8 DEF RunPrompts
<1>16. RunFresh
  BY <1>1, <1>2, <1>5 DEF RunFresh
<1>17. RunPassed
  BY <1>3 DEF RunPassed
<1> QED BY <1>9, <1>10, <1>11, <1>12, <1>13, <1>14, <1>15, <1>16, <1>17 DEF BenchInv

LEMMA BenchMeans ==
  ASSUME BenchInv
  PROVE  Bench!PassedIsWhole /\ Bench!KeepsWhatItMeasured /\ Bench!NothingLeftBehind
<1>0. RunTyped /\ RunPlace /\ RunChild /\ RunSaved /\ RunCovers /\ RunPassed
  BY DEF BenchInv
<1>1. Bench!PassedIsWhole
  <2>1. DOMAIN entries = 1 .. Len(entries)
    BY <1>0 DEF RunTyped
  <2> QED BY <1>0, <2>1 DEF Bench!PassedIsWhole, RunPassed
<1>2. Bench!NothingLeftBehind
  BY <1>0 DEF Bench!NothingLeftBehind, RunChild, RunTyped, Bench!Living, LlmPc
<1>3. ASSUME results # None, ~outdated
      PROVE  Bench!IsPrefix(SubSeq(entries, 1, before), results)
  <2>1. /\ results \in Seq(EntryType) /\ entries \in Seq(EntryType) /\ before \in Nat
        /\ before <= Len(results) /\ Prefix(results, entries)
    BY <1>0, <1>3 DEF RunTyped, RunSaved
  <2> DEFINE first == SubSeq(entries, 1, before)
  <2>2. before <= Len(entries) /\ \A i \in 1 .. before : results[i] = entries[i]
    BY <2>1 DEF Prefix
  <2>3. /\ first \in Seq(EntryType) /\ Len(first) = before
        /\ \A i \in 1 .. before : first[i] = entries[i]
    BY <2>1, <2>2
  <2>4. /\ SubSeq(results, 1, before) \in Seq(EntryType) /\ Len(SubSeq(results, 1, before)) = before
        /\ \A i \in 1 .. before : SubSeq(results, 1, before)[i] = results[i]
    BY <2>1
  <2> HIDE DEF first
  <2>5. SubSeq(results, 1, before) = first
    BY <2>1, <2>2, <2>3, <2>4
  <2>6. Bench!IsPrefix(first, results)
    BY <2>1, <2>3, <2>5 DEF Bench!IsPrefix
  <2> QED BY <2>6 DEF first
<1>4. ASSUME main = "done"
      PROVE  /\ outdated \/ results = entries
             /\ Bench!ToSet(plan) \subseteq {entries[i].test : i \in DOMAIN entries}
  <2>1. outdated \/ results = entries
    BY <1>0, <1>4 DEF RunSaved
  <2>2. at = Len(plan) + 1 /\ plan \in Seq(Tests)
    BY <1>0, <1>4 DEF RunTyped, RunPlace, Over
  <2>3. \A i \in 1 .. Len(plan) : Has(plan[i])
    BY <1>0, <2>2 DEF RunCovers
  <2>4. Bench!ToSet(plan) = {plan[i] : i \in 1 .. Len(plan)}
    BY <2>2 DEF Bench!ToSet
  <2>5. DOMAIN entries = 1 .. Len(entries)
    BY <1>0 DEF RunTyped
  <2> QED BY <2>1, <2>3, <2>4, <2>5 DEF Has
<1> QED BY <1>1, <1>2, <1>3, <1>4 DEF Bench!KeepsWhatItMeasured

-----------------------------------------------------------------------------
(***************************************************************************)
(* The dashboard.  At most one job runs, the last one; and from the moment *)
(* the application is left, a stop of it is under way.                     *)
(***************************************************************************)
JobStates == {"none", "running", "ended"}
StopperType == [job : Nat, pc : {"over", "begin", "wait", "stopped"}]

TuiTyped ==
  /\ app \in {"open", "unmount", "gone"} /\ dialog \in {"none", "stop", "quit"}
  /\ shown \in 0 .. MaxJobs
  /\ process \in [Tui!Jobs -> JobStates]
  /\ signalled \in SUBSET Nat /\ stopping \in SUBSET Nat
  /\ label \in [Tui!Jobs -> {"RUNNING", "PASSED", "FAILED", "STOPPED"}]
  /\ listener \in [Tui!Jobs -> {"none", "reading", "over"}]
  /\ stopper \in [Tui!Threads -> StopperType]

OnlyTheLastRuns == \A j \in Tui!Jobs : process[j] = "running" => j = shown

StoppedBeforeLeft ==
  /\ app = "unmount" /\ Tui!Polled =>
       stopper["unmount"].job = shown /\ stopper["unmount"].pc \in {"begin", "wait"}
  /\ app = "gone" => ~Tui!Polled

TuiInv == TuiTyped /\ OnlyTheLastRuns /\ StoppedBeforeLeft

LEMMA TuiStarts ==
  ASSUME Tui!TuiInit
  PROVE  TuiInv
<1>1. /\ app = "open" /\ dialog = "none" /\ shown = 0
      /\ process = [j \in Tui!Jobs |-> "none"]
      /\ signalled = {} /\ stopping = {}
      /\ label = [j \in Tui!Jobs |-> "RUNNING"]
      /\ listener = [j \in Tui!Jobs |-> "none"]
      /\ stopper = [t \in Tui!Threads |-> Tui!Over]
  BY Zenon DEF Tui!TuiInit
<1>2. TuiTyped
  BY <1>1, JobsAssumption DEF TuiTyped, Tui!Over, StopperType, JobStates
<1>3. OnlyTheLastRuns /\ StoppedBeforeLeft
  BY <1>1 DEF OnlyTheLastRuns, StoppedBeforeLeft, Tui!Polled
<1> QED BY <1>2, <1>3 DEF TuiInv

\* A stop thread that goes on.
LEMMA StopperTo ==
  ASSUME TuiTyped, NEW t \in Tui!Threads, NEW there \in StopperType
  PROVE  /\ [stopper EXCEPT ![t] = there] \in [Tui!Threads -> StopperType]
         /\ [stopper EXCEPT ![t] = there][t] = there
         /\ \A u \in Tui!Threads \ {t} : [stopper EXCEPT ![t] = there][u] = stopper[u]
  BY DEF TuiTyped

LEMMA StopperGoes ==
  ASSUME TuiTyped, NEW t \in Tui!Threads, NEW where \in {"wait", "stopped"}, Tui!Goes(t, where)
  PROVE  /\ stopper' \in [Tui!Threads -> StopperType]
         /\ stopper'[t].job = stopper[t].job /\ stopper'[t].pc = where
         /\ \A u \in Tui!Threads \ {t} : stopper'[u] = stopper[u]
  BY DEF TuiTyped, StopperType, Tui!Goes

LEMMA TuiStartJob ==
  ASSUME TuiInv, Tui!StartJob
  PROVE  TuiInv'
<1>1. shown \in Nat /\ shown + 1 \in Tui!Jobs
  BY JobsAssumption DEF TuiInv, TuiTyped, Tui!StartJob, Tui!Jobs
<1>2. TuiTyped'
  BY <1>1, JobsAssumption DEF TuiInv, TuiTyped, Tui!StartJob, JobStates
<1>3. OnlyTheLastRuns'
  BY <1>1 DEF TuiInv, TuiTyped, OnlyTheLastRuns, Tui!StartJob, Tui!Running, Tui!Polled, Tui!Jobs
<1>4. StoppedBeforeLeft'
  BY DEF StoppedBeforeLeft, Tui!StartJob
<1> QED BY <1>2, <1>3, <1>4 DEF TuiInv

LEMMA TuiScreen ==
  ASSUME TuiInv,
         \/ \E what \in {"stop", "quit"} : Tui!Ask(what)
         \/ \E yes \in BOOLEAN : Tui!Answer(yes)
         \/ Tui!Exit \/ Tui!Leave
  PROVE  TuiInv'
<1>1. CASE \E what \in {"stop", "quit"} : Tui!Ask(what)
  BY <1>1 DEF TuiInv, TuiTyped, OnlyTheLastRuns, StoppedBeforeLeft, Tui!Ask, Tui!Polled,
     Tui!jobVars
<1>2. CASE \E yes \in BOOLEAN : Tui!Answer(yes)
  <2>1. /\ app = "open" /\ dialog' = "none" /\ UNCHANGED <<app, Tui!jobVars>>
        /\ \/ UNCHANGED stopper
           \/ /\ dialog \in Tui!Threads
              /\ stopper' = [stopper EXCEPT ![dialog] = [job |-> shown, pc |-> "begin"]]
    BY <1>2 DEF Tui!Answer, TuiInv, TuiTyped, Tui!Threads
  <2>2. [job |-> shown, pc |-> "begin"] \in StopperType
    BY DEF TuiInv, TuiTyped, StopperType
  <2>3. stopper' \in [Tui!Threads -> StopperType]
    BY <2>1, <2>2 DEF TuiInv, TuiTyped
  <2>4. TuiTyped'
    BY <2>1, <2>3 DEF TuiInv, TuiTyped, Tui!jobVars
  <2> QED BY <2>1, <2>4 DEF TuiInv, OnlyTheLastRuns, StoppedBeforeLeft, Tui!jobVars
<1>3. CASE Tui!Exit
  <2> DEFINE there == IF Tui!Polled THEN [job |-> shown, pc |-> "begin"] ELSE Tui!Over
  <2>1. there \in StopperType
    BY DEF TuiInv, TuiTyped, StopperType, Tui!Over
  <2>2. /\ app' = "unmount" /\ dialog' = "none" /\ UNCHANGED Tui!jobVars
        /\ stopper' = [stopper EXCEPT !["unmount"] = there] /\ "unmount" \in Tui!Threads
    BY <1>3 DEF Tui!Exit, Tui!Threads
  <2>3. stopper' \in [Tui!Threads -> StopperType] /\ stopper'["unmount"] = there
    <3> HIDE DEF there
    <3> QED BY <2>1, <2>2 DEF TuiInv, TuiTyped
  <2>4. TuiTyped'
    BY <2>2, <2>3 DEF TuiInv, TuiTyped, Tui!jobVars
  <2>5. OnlyTheLastRuns'
    BY <2>2 DEF TuiInv, OnlyTheLastRuns, Tui!jobVars
  <2>6. StoppedBeforeLeft'
    BY <2>2, <2>3 DEF StoppedBeforeLeft, Tui!Polled, Tui!jobVars
  <2> QED BY <2>4, <2>5, <2>6 DEF TuiInv
<1>4. CASE Tui!Leave
  BY <1>4 DEF TuiInv, TuiTyped, OnlyTheLastRuns, StoppedBeforeLeft, Tui!Leave, Tui!Polled,
     Tui!jobVars, Tui!Over
<1> QED BY <1>1, <1>2, <1>3, <1>4

LEMMA TuiStops ==
  ASSUME TuiInv, NEW t \in Tui!Threads,
         Tui!StopBegins(t) \/ Tui!StopWaits(t) \/ Tui!StopEnds(t)
  PROVE  TuiInv'
<1>1. CASE Tui!StopBegins(t)
  <2>1. PICK where \in {"wait", "stopped"} :
          /\ Tui!Goes(t, where)
          /\ where = "stopped" => process[stopper[t].job] # "running"
    BY <1>1 DEF Tui!StopBegins
  <2>2. /\ stopper' \in [Tui!Threads -> StopperType]
        /\ stopper'[t].job = stopper[t].job /\ stopper'[t].pc = where
        /\ \A u \in Tui!Threads \ {t} : stopper'[u] = stopper[u]
    BY <2>1, StopperGoes DEF TuiInv
  <2>3. /\ signalled' \in SUBSET Nat /\ stopping' \in SUBSET Nat
        /\ UNCHANGED <<app, dialog, shown, process, label, output, listener>>
    <3>1. stopper[t].job \in Nat /\ signalled \in SUBSET Nat /\ stopping \in SUBSET Nat
      BY DEF TuiInv, TuiTyped, StopperType
    <3>2. /\ stopping' = stopping \cup {stopper[t].job}
          /\ signalled' = signalled \cup {stopper[t].job} \/ signalled' = signalled
          /\ UNCHANGED <<app, dialog, shown, process, label, output, listener>>
      BY <1>1 DEF Tui!StopBegins
    <3> QED BY <3>1, <3>2
  <2>4. TuiTyped' /\ OnlyTheLastRuns'
    BY <2>2, <2>3 DEF TuiInv, TuiTyped, OnlyTheLastRuns
  <2>5. StoppedBeforeLeft'
    BY <2>1, <2>2, <2>3 DEF TuiInv, StoppedBeforeLeft, Tui!Polled, Tui!Threads
  <2> QED BY <2>4, <2>5 DEF TuiInv
<1>2. CASE Tui!StopWaits(t)
  <2>1. /\ Tui!Goes(t, "stopped")
        /\ process' = [process EXCEPT ![stopper[t].job] = "ended"]
        /\ UNCHANGED <<app, dialog, shown, signalled, label, stopping, output, listener>>
    BY <1>2 DEF Tui!StopWaits
  <2>2. /\ stopper' \in [Tui!Threads -> StopperType]
        /\ \A u \in Tui!Threads \ {t} : stopper'[u] = stopper[u]
    BY <2>1, StopperGoes DEF TuiInv
  <2>3. /\ process' \in [Tui!Jobs -> JobStates]
        /\ \A j \in Tui!Jobs :
             process'[j] = "running" => process[j] = "running" /\ j # stopper[t].job
    BY <2>1 DEF TuiInv, TuiTyped, JobStates
  <2>4. TuiTyped' /\ OnlyTheLastRuns'
    BY <2>1, <2>2, <2>3 DEF TuiInv, TuiTyped, OnlyTheLastRuns
  <2>5. Tui!Polled' => Tui!Polled /\ shown # stopper[t].job
    BY <2>1, <2>3 DEF TuiInv, TuiTyped, Tui!Polled, Tui!Jobs
  <2>6. StoppedBeforeLeft'
    BY <2>1, <2>2, <2>5 DEF TuiInv, StoppedBeforeLeft, Tui!Threads
  <2> QED BY <2>4, <2>6 DEF TuiInv
<1>3. CASE Tui!StopEnds(t)
  <2> DEFINE there == IF Tui!Polled THEN [job |-> shown, pc |-> "begin"] ELSE Tui!Over
  <2>1. there \in StopperType /\ Tui!Over \in StopperType
    BY DEF TuiInv, TuiTyped, StopperType, Tui!Over
  <2>2. CASE t = "quit" /\ app = "open"
    <3>1. /\ app' = "unmount" /\ dialog' = "none" /\ UNCHANGED Tui!jobVars
          /\ stopper' = [stopper EXCEPT !["quit"] = Tui!Over, !["unmount"] = there]
          /\ {"quit", "unmount"} \subseteq Tui!Threads
      BY <1>3, <2>2 DEF Tui!StopEnds, Tui!Threads
    <3>2. stopper' \in [Tui!Threads -> StopperType] /\ stopper'["unmount"] = there
      <4> HIDE DEF there
      <4> QED BY <2>1, <3>1 DEF TuiInv, TuiTyped
    <3>3. TuiTyped'
      BY <3>1, <3>2 DEF TuiInv, TuiTyped, Tui!jobVars
    <3>4. OnlyTheLastRuns'
      BY <3>1 DEF TuiInv, OnlyTheLastRuns, Tui!jobVars
    <3>5. StoppedBeforeLeft'
      BY <3>1, <3>2 DEF StoppedBeforeLeft, Tui!Polled, Tui!jobVars
    <3> QED BY <3>3, <3>4, <3>5 DEF TuiInv
  <2>3. CASE ~(t = "quit" /\ app = "open")
    <3>1. /\ stopper' = [stopper EXCEPT ![t] = Tui!Over]
          /\ stopper[t].pc = "stopped"
          /\ UNCHANGED <<app, dialog, Tui!jobVars>>
      BY <1>3, <2>3 DEF Tui!StopEnds
    <3>2. /\ stopper' \in [Tui!Threads -> StopperType]
          /\ \A u \in Tui!Threads \ {t} : stopper'[u] = stopper[u]
      BY <2>1, <3>1 DEF TuiInv, TuiTyped
    <3>3. TuiTyped'
      BY <3>1, <3>2 DEF TuiInv, TuiTyped, Tui!jobVars
    <3>4. OnlyTheLastRuns'
      BY <3>1 DEF TuiInv, OnlyTheLastRuns, Tui!jobVars
    <3>5. StoppedBeforeLeft'
      BY <3>1, <3>2 DEF TuiInv, StoppedBeforeLeft, Tui!Polled, Tui!jobVars, Tui!Threads
    <3> QED BY <3>3, <3>4, <3>5 DEF TuiInv
  <2> QED BY <2>2, <2>3
<1> QED BY <1>1, <1>2, <1>3

LEMMA TuiJobs ==
  ASSUME TuiInv, NEW j \in Tui!Jobs,
         Tui!Reports(j) \/ Tui!Ends(j) \/ Tui!ReadsDone(j) \/ Tui!ReadsEnd(j)
  PROVE  TuiInv'
<1>1. CASE Tui!Reports(j)
  BY <1>1 DEF TuiInv, TuiTyped, OnlyTheLastRuns, StoppedBeforeLeft, Tui!Polled, Tui!Reports
<1>2. CASE Tui!Ends(j)
  <2>1. /\ process' \in [Tui!Jobs -> JobStates]
        /\ \A k \in Tui!Jobs : process'[k] = "running" => process[k] = "running"
        /\ UNCHANGED <<app, dialog, shown, signalled, label, stopping, output, listener, stopper>>
    BY <1>2 DEF TuiInv, TuiTyped, JobStates, Tui!Ends
  <2>2. Tui!Polled' => Tui!Polled
    BY <2>1 DEF TuiInv, TuiTyped, Tui!Polled, Tui!Jobs
  <2> QED BY <2>1, <2>2 DEF TuiInv, TuiTyped, OnlyTheLastRuns, StoppedBeforeLeft
<1>3. CASE Tui!ReadsDone(j)
  BY <1>3 DEF TuiInv, TuiTyped, OnlyTheLastRuns, StoppedBeforeLeft, Tui!Polled, Tui!ReadsDone
<1>4. CASE Tui!ReadsEnd(j)
  BY <1>4 DEF TuiInv, TuiTyped, OnlyTheLastRuns, StoppedBeforeLeft, Tui!Polled, Tui!ReadsEnd
<1> QED BY <1>1, <1>2, <1>3, <1>4

LEMMA TuiMeans ==
  ASSUME TuiInv
  PROVE  Tui!NothingOutlivesTheApp
<1>1. \A j \in Tui!Jobs : process[j] = "running" => Tui!Polled
  BY DEF TuiInv, OnlyTheLastRuns, Tui!Polled, Tui!Jobs
<1> QED BY <1>1 DEF TuiInv, StoppedBeforeLeft, Tui!NothingOutlivesTheApp

LEMMA TuiStep ==
  ASSUME TuiInv, Tui!TuiNext \/ UNCHANGED tuiVars
  PROVE  TuiInv'
<1>1. CASE UNCHANGED tuiVars
  BY <1>1 DEF tuiVars, TuiInv, TuiTyped, OnlyTheLastRuns, StoppedBeforeLeft, Tui!Polled
<1>2. CASE Tui!StartJob
  BY <1>2, TuiStartJob
<1>3. CASE \/ \E what \in {"stop", "quit"} : Tui!Ask(what)
           \/ \E yes \in BOOLEAN : Tui!Answer(yes)
           \/ Tui!Exit \/ Tui!Leave
  BY <1>3, TuiScreen
<1>4. CASE \E t \in Tui!Threads : Tui!StopBegins(t) \/ Tui!StopWaits(t) \/ Tui!StopEnds(t)
  BY <1>4, TuiStops
<1>5. CASE \E j \in Tui!Jobs : \/ Tui!Reports(j) \/ Tui!Ends(j)
                               \/ Tui!ReadsDone(j) \/ Tui!ReadsEnd(j)
  BY <1>5, TuiJobs
<1> QED BY <1>1, <1>2, <1>3, <1>4, <1>5 DEF Tui!TuiNext

\* A thread that stops something stops a job, and a question is about one.
StopsAJob ==
  /\ dialog # "none" => shown \in Tui!Jobs
  /\ signalled \in SUBSET Tui!Jobs /\ stopping \in SUBSET Tui!Jobs
  /\ \A t \in Tui!Threads : stopper[t].pc # "over" => stopper[t].job \in Tui!Jobs

LEMMA TuiTypes ==
  ASSUME TuiInv, StopsAJob
  PROVE  Tui!TuiTypeOK
  BY DEF TuiInv, TuiTyped, StopsAJob, Tui!TuiTypeOK, JobStates

LEMMA TuiNamesStart ==
  ASSUME Tui!TuiInit
  PROVE  StopsAJob
<1>1. /\ dialog = "none" /\ signalled = {} /\ stopping = {}
      /\ stopper = [t \in Tui!Threads |-> Tui!Over]
  BY Zenon DEF Tui!TuiInit
<1>2. Tui!Over.pc = "over"
  BY DEF Tui!Over
<1> QED BY <1>1, <1>2 DEF StopsAJob

LEMMA TuiNames ==
  ASSUME TuiInv, StopsAJob, Tui!TuiNext \/ UNCHANGED tuiVars
  PROVE  StopsAJob'
<1>0. /\ dialog \in {"none", "stop", "quit"} /\ {"stop", "quit", "unmount"} = Tui!Threads
      /\ stopper \in [Tui!Threads -> StopperType] /\ shown \in 0 .. MaxJobs
      /\ Tui!Polled => shown \in Tui!Jobs
  BY JobsAssumption DEF TuiInv, TuiTyped, Tui!Threads, Tui!Polled, Tui!Jobs
<1>1. CASE \/ UNCHANGED tuiVars \/ Tui!Leave
           \/ \E j \in Tui!Jobs : \/ Tui!Reports(j) \/ Tui!Ends(j)
                                  \/ Tui!ReadsDone(j) \/ Tui!ReadsEnd(j)
  <2>1. UNCHANGED <<dialog, shown, signalled, stopping, stopper>>
    BY <1>1 DEF tuiVars, Tui!jobVars, Tui!Leave, Tui!Reports, Tui!Ends, Tui!ReadsDone, Tui!ReadsEnd
  <2> QED BY <2>1 DEF StopsAJob
<1>2. CASE Tui!StartJob
  <2>1. dialog' = "none" /\ UNCHANGED <<signalled, stopping, stopper>>
    BY <1>2 DEF Tui!StartJob
  <2> QED BY <2>1 DEF StopsAJob
<1>3. CASE \E what \in {"stop", "quit"} : Tui!Ask(what)
  <2>1. shown \in Tui!Jobs /\ UNCHANGED <<shown, signalled, stopping, stopper>>
    BY <1>0, <1>3 DEF Tui!Ask, Tui!jobVars
  <2> QED BY <2>1 DEF StopsAJob
<1>4. CASE \E yes \in BOOLEAN : Tui!Answer(yes)
  <2> DEFINE there == [job |-> shown, pc |-> "begin"]
  <2>1. /\ dialog' = "none" /\ shown \in Tui!Jobs /\ UNCHANGED <<shown, signalled, stopping>>
        /\ stopper' \in {stopper, [stopper EXCEPT ![dialog] = there]}
    BY <1>4 DEF Tui!Answer, Tui!jobVars, StopsAJob
  <2>2. there.job = shown
    OBVIOUS
  <2> HIDE DEF there
  <2>3. \A t \in Tui!Threads : stopper'[t] \in {stopper[t], there}
    BY <1>0, <2>1
  <2> QED BY <2>1, <2>2, <2>3 DEF StopsAJob
<1>5. CASE Tui!Exit \/ \E t \in Tui!Threads : Tui!StopEnds(t)
  <2> DEFINE there == IF Tui!Polled THEN [job |-> shown, pc |-> "begin"] ELSE Tui!Over
  <2>1. /\ dialog' \in {dialog, "none"} /\ UNCHANGED <<shown, signalled, stopping>>
        /\ \/ stopper' = [stopper EXCEPT !["unmount"] = there]
           \/ \E t \in Tui!Threads :
                \/ stopper' = [stopper EXCEPT ![t] = Tui!Over, !["unmount"] = there]
                \/ stopper' = [stopper EXCEPT ![t] = Tui!Over]
    BY <1>5 DEF Tui!Exit, Tui!StopEnds, Tui!jobVars
  <2>2. there.pc = "over" \/ there.job \in Tui!Jobs
    BY <1>0 DEF Tui!Over
  <2>3. Tui!Over.pc = "over"
    BY DEF Tui!Over
  <2> HIDE DEF there
  <2>4. \A t \in Tui!Threads : stopper'[t] \in {stopper[t], there, Tui!Over}
    BY <1>0, <2>1
  <2> QED BY <2>1, <2>2, <2>3, <2>4 DEF StopsAJob
<1>6. ASSUME NEW t \in Tui!Threads, Tui!StopBegins(t) \/ Tui!StopWaits(t)
      PROVE  StopsAJob'
  <2>1. /\ stopper[t].pc # "over" /\ UNCHANGED <<dialog, shown>>
        /\ signalled' \in {signalled, signalled \cup {stopper[t].job}}
        /\ stopping' \in {stopping, stopping \cup {stopper[t].job}}
        /\ \E where \in {"wait", "stopped"} : Tui!Goes(t, where)
    BY <1>6 DEF Tui!StopBegins, Tui!StopWaits
  <2>2. \A u \in Tui!Threads : stopper'[u].job = stopper[u].job /\
                               (u # t => stopper'[u].pc = stopper[u].pc)
    BY <1>0, <2>1 DEF Tui!Goes, StopperType
  <2>3. stopper[t].job \in Tui!Jobs
    BY <2>1 DEF StopsAJob
  <2> QED BY <2>1, <2>2, <2>3 DEF StopsAJob
<1> QED BY <1>1, <1>2, <1>3, <1>4, <1>5, <1>6 DEF Tui!TuiNext

-----------------------------------------------------------------------------
LEMMA BenchScenes ==
  ASSUME [MCNext]_all, scene = "bench"
  PROVE  Bench!RunNext \/ UNCHANGED benchVars
  BY DEF MCNext, all, SplitScene, DownloadScene, ModelScene, KitScene, BenchScene, TuiScene,
         FetchScene, MoveScene

LEMMA TuiScenes ==
  ASSUME [MCNext]_all, scene = "tui"
  PROVE  Tui!TuiNext \/ UNCHANGED tuiVars
  BY DEF MCNext, all, SplitScene, DownloadScene, ModelScene, KitScene, BenchScene, TuiScene,
         FetchScene, MoveScene

BenchSceneInv == scene = "bench" => BenchInv
TuiSceneInv == scene = "tui" => TuiInv /\ StopsAJob

LEMMA BenchHolds == MCSafety => []BenchSceneInv
<1>1. MCInit => BenchSceneInv
  BY BenchStarts DEF MCInit, BenchSceneInv
<1>2. BenchSceneInv /\ [MCNext]_all => BenchSceneInv'
  BY BenchStep, BenchScenes, SceneStays DEF BenchSceneInv
<1> QED BY <1>1, <1>2, PTL DEF MCSafety

LEMMA TuiHolds == MCSafety => []TuiSceneInv
<1>1. MCInit => TuiSceneInv
  BY TuiStarts, TuiNamesStart DEF MCInit, TuiSceneInv
<1>2. TuiSceneInv /\ [MCNext]_all => TuiSceneInv'
  BY TuiStep, TuiNames, TuiScenes, SceneStays DEF TuiSceneInv
<1> QED BY <1>1, <1>2, PTL DEF MCSafety

(***************************************************************************)
(* A level that is called PASSED was measured with all of its requests,    *)
(* each sent once and none cut off, whenever the signal comes              *)
(* (llm.py:605).                                                           *)
(***************************************************************************)
THEOREM PassedMeansMeasured == MCSafety => []PassedIsWhole
<1>1. BenchSceneInv => PassedIsWhole
  BY BenchMeans DEF BenchSceneInv, PassedIsWhole
<1> QED BY <1>1, BenchHolds, PTL

(***************************************************************************)
(* A run that was stopped or killed keeps what the tests before had        *)
(* measured, and one that ends has an entry for each test of its plan      *)
(* (docs/gpu-benchmark.md:350).                                            *)
(***************************************************************************)
THEOREM KeepsResults == MCSafety => []KeepsWhatItMeasured
<1>1. BenchSceneInv => KeepsWhatItMeasured
  BY BenchMeans DEF BenchSceneInv, KeepsWhatItMeasured
<1> QED BY <1>1, BenchHolds, PTL

(***************************************************************************)
(* Neither a server of a benchmark nor a benchmark of the dashboard        *)
(* outlives the program that started it, however that ends (jobs.py:4).    *)
(***************************************************************************)
THEOREM NothingRemains == MCSafety => []NothingLeftRunning
<1>1. BenchSceneInv /\ TuiSceneInv => NothingLeftRunning
  BY BenchMeans, TuiMeans DEF BenchSceneInv, TuiSceneInv, NothingLeftRunning
<1> QED BY <1>1, BenchHolds, TuiHolds, PTL

(***************************************************************************)
(* The variables of each scene have the types that its module gives them,  *)
(* for all of offline: the archive and its parts, the parts of a model, a  *)
(* kit on its host, the benchmark, its dashboard, and the client.          *)
(***************************************************************************)
THEOREM TypesInTheScenes == MCSafety => []TypesOK
<1>1. TypeOK /\ StreamSceneInv /\ KitSceneInv /\ BenchSceneInv /\ TuiSceneInv /\ FetchSceneInv
        => TypesOK
  BY StreamTypes, KitTypes, BenchTypes, TuiTypes, FetchMeans
     DEF StreamSceneInv, KitSceneInv, BenchSceneInv, TuiSceneInv, FetchSceneInv, TypesOK
<1>2. MCSafety => []TypeOK
  BY ScenesSplit, TypesHold, PTL
<1> QED
  BY <1>1, <1>2, StreamHolds, KitHolds, BenchHolds, TuiHolds, FetchHolds, PTL
=============================================================================
