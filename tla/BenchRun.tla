------------------------------ MODULE BenchRun ------------------------------
(***************************************************************************)
(* One run of gpu-bench (gpu_benchmark/runtime: cli.py, llm.py,            *)
(* benchmarks.py): the tests of the plan one after the other, each under   *)
(* _guard; vLLM or nccl-tests as a child process; the threads of the load  *)
(* generator; the results in benchmark.json.  A signal sets the stop flag, *)
(* at any moment, and every part looks at the flag for itself.             *)
(***************************************************************************)
EXTENDS Integers, SequencesExt

CONSTANTS
    Items,       \* of each test: its precisions, collectives or levels
    Workers,     \* threads of the load generator
    Warm,        \* warmup requests of a level
    Measured,    \* and measured requests
    Torn         \* a file that is being written

VARIABLES
    plan, at,    \* the tests of this run, the one it is at
    pc,          \* the main thread
    item,        \* of the test, with `before`: results when the test began
    before,
    raised,      \* what the test ended with: "none", "STOPPED", "FAILED", ...
    stop,        \* EMITTER.stop_event
    entries,     \* EMITTER.collected
    disk,        \* results in benchmark.json
    next,        \* where to go on after a save
    child,       \* "none", "running", "ready", "gone"
    stubborn,    \* it ignores SIGTERM
    gen,         \* LoadGenerator.run: next prompt, last prompt, measured or not
    thread,      \* of each worker: where it is, with which prompt
    shut,        \* prompts whose sockets are shut down
    record,      \* of each prompt: "new", "sent", "ok", "error" or "aborted"
    sends,       \* how often it was sent
    told,        \* the status the run ended with
    report,      \* what a report of this run has loaded, Torn when there is none
    outdated     \* the last writer of benchmark.json was a report, of older results

testVars == <<plan, at, item, before>>
genVars == <<gen, thread, shut, record, sends>>
runVars == <<plan, at, item, before, pc, raised, stop, entries, disk, next, child,
             stubborn, gen, thread, shut, record, sends, told, report, outdated>>
resultVars == <<entries, disk, next>>
childVars == <<child, stubborn>>
reportVars == <<report, outdated>>

Full == Len(plan) > 1
Test == plan[at]
Entry(test, status) == [test |-> test, status |-> status, level |-> 0]
Prompts == 1..(Items["llm"] * (Warm + Measured))
Resting == [pc |-> "done", prompt |-> 0]

\* A run directory of its own; full has its health entry first.
RunInit(plans, statuses) ==
    /\ plan \in plans
    /\ at = 1 /\ item = 0 /\ before = 0
    /\ pc = IF Full THEN "next" ELSE "begin"
    /\ raised = "none" /\ stop = FALSE
    /\ entries \in IF Full THEN {<<Entry("health", s)>> : s \in statuses} ELSE {<<>>}
    /\ disk = entries
    /\ next = "next"
    /\ child = "none" /\ stubborn \in BOOLEAN
    /\ gen = [cursor |-> 1, last |-> 0, measured |-> FALSE]
    /\ thread = [w \in Workers |-> Resting]
    /\ shut = {}
    /\ record = [p \in Prompts |-> "new"] /\ sends = [p \in Prompts |-> 0]
    /\ told = "RUNNING"
    /\ report = Torn /\ outdated = FALSE
-----------------------------------------------------------------------------
(***************************************************************************)
(* Session: add and save.  write_run rewrites the file in place.           *)
(***************************************************************************)
SaveThen(where) == disk' = Torn /\ pc' = "save" /\ next' = where

Add(entry, where) == entries' = Append(entries, entry) /\ SaveThen(where)

\* `finally: session.save()`.
Kept(where) == SaveThen(where)
Skipped(where) == pc' = where /\ UNCHANGED <<disk, next>>
KeepThen(where) == Kept(where)

Saved ==
    /\ pc = "save"
    /\ disk' = entries /\ outdated' = FALSE
    /\ pc' = next
    /\ UNCHANGED <<testVars, raised, stop, entries, next, childVars, genVars, told, report>>

(***************************************************************************)
(* run_full: a test after a stop, one that is left out, or one that begins.*)
(***************************************************************************)
NextTest ==
    /\ pc = "next" /\ Full /\ at <= Len(plan)
    /\ IF stop
       THEN Add(Entry(Test, "STOPPED"), "next") /\ at' = at + 1
       ELSE \/ /\ \E status \in {"SKIPPED", "UNAVAILABLE"} : Add(Entry(Test, status), "next")
               /\ at' = at + 1
            \/ pc' = "begin" /\ UNCHANGED <<resultVars, at>>
    /\ UNCHANGED <<plan, item, before, raised, stop, childVars, genVars, told, reportVars>>

Begin ==
    /\ pc = "begin"
    /\ before' = Len(entries) /\ item' = 1
    /\ raised' = "none"
    /\ pc' = IF Test = "llm" THEN "start" ELSE "item"
    /\ UNCHANGED <<plan, at, stop, resultVars, childVars, genVars, told, reportVars>>

\* What a test raises goes through its `finally`, if it has a server.
Raise(what, where) == raised' = what /\ pc' = where

(***************************************************************************)
(* _guard.  After a stop nothing is recorded when there is a result        *)
(* already, and the tests that are left are.                               *)
(***************************************************************************)
Guard ==
    /\ pc = "guard"
    /\ IF raised = "none" \/ (raised = "STOPPED" /\ Len(entries) > before)
       THEN KeepThen(IF raised = "none" THEN "next" ELSE "rest") /\ UNCHANGED entries
       ELSE Add(Entry(Test, raised), IF raised = "STOPPED" THEN "rest" ELSE "next")
    /\ at' = at + 1
    /\ UNCHANGED <<plan, item, before, raised, stop, childVars, genVars, told, reportVars>>

Rest ==
    /\ pc = "rest" /\ at <= Len(plan)
    /\ Add(Entry(Test, "STOPPED"), "rest")
    /\ at' = at + 1
    /\ UNCHANGED <<plan, item, before, raised, stop, childVars, genVars, told, reportVars>>

Statuses == {entries[i].status : i \in DOMAIN entries}

Finish ==
    /\ pc \in {"next", "rest"} /\ at > Len(plan)
    /\ told' = CASE "STOPPED" \in Statuses -> "STOPPED"
                 [] "STOPPED" \notin Statuses /\ "FAILED" \in Statuses -> "FAILED"
                 [] OTHER -> "PASSED"
    /\ SaveThen("done")
    /\ UNCHANGED <<testVars, raised, stop, entries, childVars, genVars, reportVars>>
-----------------------------------------------------------------------------
(***************************************************************************)
(* compute, memory, nccl, dist: check_stop, measure, record, the next one. *)
(* nccl-tests runs in a process group of its own.                          *)
(***************************************************************************)
BeginItem ==
    /\ pc = "item"
    /\ IF item > Items[Test] THEN pc' = "guard" /\ UNCHANGED <<raised, child>>
       ELSE IF stop THEN Raise("STOPPED", "guard") /\ UNCHANGED child
       ELSE /\ pc' = "measure"
            /\ child' = IF Test = "nccl" THEN "running" ELSE child
            /\ UNCHANGED raised
    /\ UNCHANGED <<testVars, stop, resultVars, stubborn, genVars, told, reportVars>>

Recorded(status) ==
    /\ entries' = Append(entries, Entry(Test, status))
    /\ item' = item + 1

\* The threads of compute notice the stop and record it; memory, which has
\* one entry at its end, and the collectives raise.  A look at the flag may
\* also come too early.
Measure ==
    /\ pc = "measure"
    /\ Test = "nccl" => child = "gone"
    /\ \/ /\ Test = "nccl" => ~stop
          /\ \E status \in {"PASSED", "FAILED"} : Recorded(status)
          /\ pc' = "item" /\ UNCHANGED raised
       \/ /\ stop
          /\ Raise("STOPPED", "guard")
          /\ IF Test = "compute" THEN Recorded("STOPPED") ELSE UNCHANGED <<entries, item>>
       \/ \* the binary is missing, CUDA fails, a time limit
          /\ Test = "nccl" => ~stop
          /\ \E what \in {"UNAVAILABLE", "FAILED"} : Raise(what, "guard")
          /\ UNCHANGED <<entries, item>>
    /\ UNCHANGED <<plan, at, before, stop, disk, next, childVars, genVars, told, reportVars>>

\* _run_streaming: the watcher ends the group; the output ends with it.
KillTool ==
    /\ pc = "measure" /\ child = "running" /\ stop
    /\ child' = "gone"
    /\ UNCHANGED <<testVars, pc, raised, stop, resultVars, stubborn, genVars, told,
                   reportVars>>
-----------------------------------------------------------------------------
(***************************************************************************)
(* llm.benchmark                                                           *)
(***************************************************************************)
\* The model is refused, or vLLM is started; the stop flag is not looked at.
StartServer ==
    /\ pc = "start"
    /\ \/ child' = "running" /\ pc' = "loading" /\ UNCHANGED raised
       \/ \E what \in {"UNAVAILABLE", "FAILED"} : Raise(what, "guard") /\ UNCHANGED child
    /\ UNCHANGED <<testVars, stop, resultVars, stubborn, genVars, told, reportVars>>

AwaitServer ==
    /\ pc = "loading"
    /\ \/ stop /\ Raise("STOPPED", "cleanup")
       \/ ~stop /\ child = "gone" /\ Raise("FAILED", "cleanup")
       \/ child = "running" /\ Raise("FAILED", "cleanup")    \* the deadline
       \/ ~stop /\ child = "ready" /\ pc' = "level" /\ UNCHANGED raised
    /\ UNCHANGED <<testVars, stop, resultVars, childVars, genVars, told, reportVars>>

Threads(from, to, measured) ==
    /\ gen' = [cursor |-> from, last |-> to, measured |-> measured]
    /\ thread' = [w \in Workers |-> [pc |-> "top", prompt |-> 0]]
    /\ shut' = {}
    /\ pc' = "generate"

\* The prompts before this level.
Warmed(level) == (level - 1) * (Warm + Measured)
Unwarmed(level) == (level - 1) * Measured
Offset(level) == Warmed(level)
PromptOffset == Offset(item)

BeginLevel ==
    /\ pc = "level"
    /\ IF item > Items["llm"] THEN pc' = "cleanup" /\ UNCHANGED <<raised, gen, thread, shut>>
       ELSE IF stop THEN Raise("STOPPED", "cleanup") /\ UNCHANGED <<gen, thread, shut>>
       ELSE Threads(PromptOffset + 1, PromptOffset + Warm, FALSE) /\ UNCHANGED raised
    /\ UNCHANGED <<testVars, stop, resultVars, childVars, record, sends, told, reportVars>>

\* The loop of LoadGenerator.run: while a thread lives, abort_all at a stop.
Alive == {w \in Workers : thread[w].pc # "done"}
Open == {thread[w].prompt : w \in {v \in Workers : thread[v].pc = "open"}}

EveryTick == Open
FirstTick == IF shut = {} THEN Open ELSE {}
Aborted == EveryTick

Tick ==
    /\ pc = "generate"
    /\ IF Alive = {} THEN pc' = "summarize" /\ UNCHANGED shut
       ELSE stop /\ ~(Aborted \subseteq shut) /\ shut' = shut \cup Aborted /\ UNCHANGED pc
    /\ UNCHANGED <<testVars, raised, stop, resultVars, childVars, gen, thread, record, sends,
                   told, reportVars>>

WarmPrompts(level) == (Offset(level) + 1)..(Offset(level) + Warm)
MeasuredPrompts(level) == (Offset(level) + Warm + 1)..(Offset(level) + Warm + Measured)

EndWarmup ==
    /\ pc = "summarize" /\ ~gen.measured
    /\ IF \A p \in WarmPrompts(item) : record[p] \in {"error", "aborted"}
       THEN Raise("FAILED", "cleanup") /\ UNCHANGED <<gen, thread, shut>>
       ELSE IF stop THEN Raise("STOPPED", "cleanup") /\ UNCHANGED <<gen, thread, shut>>
       ELSE /\ Threads(PromptOffset + Warm + 1, PromptOffset + Warm + Measured, TRUE)
            /\ UNCHANGED raised
    /\ UNCHANGED <<testVars, stop, resultVars, childVars, record, sends, told, reportVars>>

Status(ok) == IF stop THEN "STOPPED" ELSE IF ok > 0 THEN "PASSED" ELSE "FAILED"
StatusOfResults(ok) == IF ok > 0 THEN "PASSED" ELSE IF stop THEN "STOPPED" ELSE "FAILED"
LevelStatus(ok) == Status(ok)

EndLevel ==
    /\ pc = "summarize" /\ gen.measured
    /\ LET ok == Cardinality({p \in MeasuredPrompts(item) : record[p] = "ok"})
       IN  entries' = Append(entries,
                             [test |-> "llm", status |-> LevelStatus(ok), level |-> item])
    /\ item' = item + 1
    /\ IF stop THEN Raise("STOPPED", "cleanup") ELSE pc' = "level" /\ UNCHANGED raised
    /\ UNCHANGED <<plan, at, before, stop, disk, next, childVars, genVars, told, reportVars>>

\* server.stop in `finally`: SIGTERM, and SIGKILL after the grace.
Terminate ==
    /\ pc = "cleanup"
    /\ IF stubborn /\ child # "gone" THEN pc' = "grace" /\ UNCHANGED child
       ELSE pc' = "guard" /\ child' = "gone"
    /\ UNCHANGED <<testVars, raised, stop, resultVars, stubborn, genVars, told, reportVars>>

KillServer ==
    /\ pc = "grace"
    /\ child' = "gone" /\ pc' = "guard"
    /\ UNCHANGED <<testVars, raised, stop, resultVars, stubborn, genVars, told, reportVars>>

Main ==
    \/ Saved \/ NextTest \/ Begin \/ Guard \/ Rest \/ Finish
    \/ BeginItem \/ Measure \/ KillTool
    \/ StartServer \/ AwaitServer \/ BeginLevel \/ Tick \/ EndWarmup \/ EndLevel
    \/ Terminate \/ KillServer
-----------------------------------------------------------------------------
(***************************************************************************)
(* A worker: the flag, the next prompt under the lock, the request.        *)
(***************************************************************************)
Goes(w, where) == thread' = [thread EXCEPT ![w].pc = where]
Ends(w, status) ==
    /\ record' = [record EXCEPT ![thread[w].prompt] = status]
    /\ Goes(w, "top")

Breaks(w) == Ends(w, IF stop THEN "aborted" ELSE "error")

Look(w) ==
    /\ pc = "generate" /\ thread[w].pc = "top"
    /\ Goes(w, IF stop THEN "done" ELSE "take")
    /\ UNCHANGED <<gen, shut, record, sends>>

\* The request is sent; its socket is noted in the next step.
Take(w) ==
    /\ pc = "generate" /\ thread[w].pc = "take"
    /\ IF gen.cursor > gen.last THEN Goes(w, "done") /\ UNCHANGED <<gen, record, sends>>
       ELSE /\ gen' = [gen EXCEPT !.cursor = @ + 1]
            /\ thread' = [thread EXCEPT ![w] = [pc |-> "sent", prompt |-> gen.cursor]]
            /\ record' = [record EXCEPT ![gen.cursor] = "sent"]
            /\ sends' = [sends EXCEPT ![gen.cursor] = @ + 1]
    /\ UNCHANGED shut

Register(w) ==
    /\ pc = "generate" /\ thread[w].pc = "sent"
    /\ IF child = "gone" THEN Breaks(w) ELSE Goes(w, "open") /\ UNCHANGED record
    /\ UNCHANGED <<gen, shut, sends>>

\* The connection is shut down, or vLLM has gone.
Broken(w) ==
    /\ pc = "generate" /\ thread[w].pc = "open"
    /\ \/ thread[w].prompt \in shut
       \/ child = "gone"
    /\ Breaks(w)
    /\ UNCHANGED <<gen, shut, sends>>

Work(w) ==
    /\ Look(w) \/ Take(w) \/ Register(w) \/ Broken(w)
    /\ UNCHANGED <<testVars, pc, raised, stop, resultVars, childVars, told, reportVars>>

\* vLLM answers, or refuses; it need not.
Answer(w) ==
    /\ pc = "generate" /\ thread[w].pc = "open" /\ child = "ready"
    /\ \E status \in {"ok", "error"} : Ends(w, status)
    /\ UNCHANGED <<testVars, pc, raised, stop, resultVars, childVars, gen, shut, sends, told,
                   reportVars>>
-----------------------------------------------------------------------------
Living == pc \notin {"done", "killed"}

\* The child gets ready, or ends.
ChildMoves ==
    /\ Living
    /\ \/ child = "running" /\ Test = "llm" /\ child' = "ready"
       \/ child \in {"running", "ready"} /\ child' = "gone"
    /\ UNCHANGED <<testVars, pc, raised, stop, resultVars, stubborn, genVars, told,
                   reportVars>>

\* request_stop, on SIGINT and SIGTERM.
Signal ==
    /\ Living /\ ~stop
    /\ stop' = TRUE
    /\ UNCHANGED <<testVars, pc, raised, resultVars, childVars, genVars, told, reportVars>>

\* SIGKILL.  die_with_parent: the child gets SIGTERM.
Obeys == IF stubborn \/ child = "none" THEN child ELSE "gone"
Orphaned == child
AfterParent == Obeys

Killed ==
    /\ Living
    /\ pc' = "killed"
    /\ child' = AfterParent
    /\ UNCHANGED <<testVars, raised, stop, resultVars, stubborn, genVars, told, reportVars>>

(***************************************************************************)
(* `gpu-bench report` and the dashboard write the files of a run anew from *)
(* what they have loaded; the run may be under way.                        *)
(***************************************************************************)
LoadReport ==
    /\ report = Torn /\ disk # Torn
    /\ report' = disk
    /\ UNCHANGED <<testVars, pc, raised, stop, resultVars, childVars, genVars, told, outdated>>

WriteReport ==
    /\ report # Torn
    /\ disk' = report /\ outdated' = (outdated \/ disk = Torn \/ Len(report) < Len(disk))
    /\ report' = Torn
    /\ UNCHANGED <<testVars, pc, raised, stop, entries, next, childVars, genVars, told>>

Code == Main \/ \E w \in Workers : Work(w)
World ==
    \/ ChildMoves \/ Signal \/ Killed
    \/ LoadReport \/ WriteReport
    \/ \E w \in Workers : Answer(w)

RunNext == Code \/ World

\* The threads of this program go on; the child and the user need not.
RunFairness == WF_runVars(Main) /\ \A w \in Workers : WF_runVars(Work(w))
-----------------------------------------------------------------------------
RunTypeOK ==
    /\ at \in 1..(Len(plan) + 1) /\ item \in Nat /\ before \in 0..Len(entries)
    /\ raised \in {"none", "STOPPED", "FAILED", "UNAVAILABLE"}
    /\ stop \in BOOLEAN /\ stubborn \in BOOLEAN
    /\ child \in {"none", "running", "ready", "gone"}
    /\ disk = Torn \/ IsPrefix(disk, entries)
    /\ \A w \in Workers : thread[w].prompt \in Prompts \cup {0}
    /\ told \in {"RUNNING", "PASSED", "FAILED", "STOPPED"}

(***************************************************************************)
(* A level that is called PASSED was measured with all of its requests,    *)
(* each with a prompt nobody had sent before, and none of them was cut     *)
(* short: whenever the stop comes between the threads that obey it and the *)
(* loop that looks at it once more (llm.py:605).                           *)
(***************************************************************************)
PassedIsWhole ==
    \A i \in DOMAIN entries :
        entries[i].status = "PASSED" /\ entries[i].level > 0 =>
            \A p \in MeasuredPrompts(entries[i].level) :
                record[p] \in {"ok", "error"} /\ sends[p] = 1

(***************************************************************************)
(* "Results are saved as each test finishes, so a stopped or crashed run   *)
(* keeps what it measured" (docs/gpu-benchmark.md:350), unless the file is *)
(* just being written, or a report of older results was written last,      *)
(* which the next save makes good.                                         *)
(***************************************************************************)
KeepsWhatItMeasured ==
    /\ disk # Torn /\ ~outdated => IsPrefix(SubSeq(entries, 1, before), disk)
    /\ pc = "done" =>
         /\ outdated \/ disk = entries
         /\ ToSet(plan) \subseteq {entries[i].test : i \in DOMAIN entries}

(***************************************************************************)
(* Neither vLLM nor nccl-tests stays behind, however the program ends      *)
(* (jobs.py:5), but for one that ignores SIGTERM when the program is       *)
(* killed before it could kill it.                                         *)
(***************************************************************************)
NothingLeftBehind ==
    ~Living => child \in {"none", "gone"} \/ (stubborn /\ pc = "killed")

(***************************************************************************)
(* A stopped run must end, though vLLM never answers again: a request that *)
(* is sent while the others are cut off is cut off too (llm.py:399).       *)
(***************************************************************************)
StopPending == stop /\ Living

(***************************************************************************)
(* "Exit status: ... 130 when stopped" (docs/gpu-benchmark.md:382).        *)
(***************************************************************************)
StoppedIsTold == pc = "done" /\ raised = "STOPPED" => told = "STOPPED"
=============================================================================
