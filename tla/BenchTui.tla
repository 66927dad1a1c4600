------------------------------ MODULE BenchTui ------------------------------
(***************************************************************************)
(* The dashboard of gpu-bench (runtime/tui): it runs one benchmark at a    *)
(* time as a subprocess, the program of BenchRun.  One thread serves the   *)
(* screen; each job has a thread that reads its output, and each request   *)
(* to stop has one.  A job that was told to stop may take its time, or     *)
(* hang.                                                                   *)
(***************************************************************************)
EXTENDS Integers, FiniteSets

CONSTANT MaxJobs

VARIABLES
    app,       \* "open", "unmount" (exit was called), "gone"
    dialog,    \* "none", "stop", "quit": a question on the screen
    job,       \* number of the last job, 0 before the first
    process,   \* of each job: "none", "running", "ended"
    asked,     \* jobs whose process got SIGTERM
    status,    \* Job.status
    stopping,  \* Job.stopping
    output,    \* "run", "done" or "": what is left to be read before the end
    reader,    \* "none", "reading", "over"
    stopper    \* of each stop thread: the job, and where it is

jobVars == <<job, process, asked, status, stopping, output, reader>>
tuiVars == <<app, dialog, job, process, asked, status, stopping, output, reader, stopper>>

Jobs == 1..MaxJobs
Threads == {"stop", "quit", "unmount"}
Over == [job |-> 0, pc |-> "over"]

TuiInit ==
    /\ app = "open" /\ dialog = "none" /\ job = 0
    /\ process = [j \in Jobs |-> "none"]
    /\ asked = {} /\ stopping = {}
    /\ status = [j \in Jobs |-> "RUNNING"]
    /\ output = [j \in Jobs |-> ""]
    /\ reader = [j \in Jobs |-> "none"]
    /\ stopper = [t \in Threads |-> Over]

\* Job.running asks the process, not the status that the reader keeps.
Polled == job # 0 /\ process[job] = "running"
Believed == job # 0 /\ status[job] = "RUNNING"
Running == Polled
-----------------------------------------------------------------------------
\* start_job, and Job.start.
StartJob ==
    /\ app = "open" /\ dialog = "none"
    /\ ~Running
    /\ job < MaxJobs
    /\ job' = job + 1
    /\ process' = [process EXCEPT ![job + 1] = "running"]
    /\ reader' = [reader EXCEPT ![job + 1] = "reading"]
    /\ output' = [output EXCEPT ![job + 1] = "run"]
    /\ UNCHANGED <<app, dialog, asked, status, stopping, stopper>>

\* action_stop_job, action_quit_app: a question first.
Ask(what) ==
    /\ app = "open" /\ dialog = "none"
    /\ Polled
    /\ dialog' = what
    /\ UNCHANGED <<app, jobVars, stopper>>

\* The answer looks at the job again; quitting does not.
Answer(yes) ==
    /\ app = "open" /\ dialog # "none"
    /\ dialog' = "none"
    /\ IF yes /\ (dialog = "quit" \/ Polled) /\ stopper[dialog] = Over
       THEN stopper' = [stopper EXCEPT ![dialog] = [job |-> job, pc |-> "begin"]]
       ELSE UNCHANGED stopper
    /\ UNCHANGED <<app, jobVars>>

\* Quitting with nothing running, and Textual's own key to quit.
Exit ==
    /\ app = "open"
    /\ app' = "unmount" /\ dialog' = "none"
    /\ stopper' = [stopper EXCEPT !["unmount"] =
                      IF Polled THEN [job |-> job, pc |-> "begin"] ELSE Over]
    /\ UNCHANGED jobVars

\* on_unmount and run_tui return when their stop has.
Leave ==
    /\ app = "unmount" /\ stopper["unmount"] = Over
    /\ app' = "gone"
    /\ UNCHANGED <<dialog, jobVars, stopper>>
-----------------------------------------------------------------------------
(***************************************************************************)
(* Job.stop: SIGTERM to the group, a wait, SIGKILL.                        *)
(***************************************************************************)
Goes(t, where) == stopper' = [stopper EXCEPT ![t].pc = where]

StopBegins(t) ==
    LET j == stopper[t].job
    IN  /\ stopper[t].pc = "begin"
        /\ stopping' = stopping \cup {j}
        /\ IF process[j] = "running"
           THEN asked' = asked \cup {j} /\ Goes(t, "wait")
           ELSE Goes(t, "stopped") /\ UNCHANGED asked
        /\ UNCHANGED <<app, dialog, job, process, status, output, reader>>

StopWaits(t) ==
    /\ stopper[t].pc = "wait"
    /\ process' = [process EXCEPT ![stopper[t].job] = "ended"]    \* SIGKILL, if it still runs
    /\ Goes(t, "stopped")
    /\ UNCHANGED <<app, dialog, job, asked, status, stopping, output, reader>>

\* _quit_after_stop ends the app; the others are done.
StopEnds(t) ==
    /\ stopper[t].pc = "stopped"
    /\ IF t = "quit" /\ app = "open"
       THEN /\ app' = "unmount" /\ dialog' = "none"
            /\ stopper' = [stopper EXCEPT ![t] = Over, !["unmount"] =
                              IF Polled THEN [job |-> job, pc |-> "begin"] ELSE Over]
       ELSE stopper' = [stopper EXCEPT ![t] = Over] /\ UNCHANGED <<app, dialog>>
    /\ UNCHANGED jobVars
-----------------------------------------------------------------------------
\* The job reports its end, and ends after that.
Reports(j) ==
    /\ process[j] = "running" /\ output[j] = "run"
    /\ output' = [output EXCEPT ![j] = "done"]
    /\ UNCHANGED <<app, dialog, job, process, asked, status, stopping, reader, stopper>>

Ends(j) ==
    /\ process[j] = "running" /\ output[j] # "run"
    /\ process' = [process EXCEPT ![j] = "ended"]
    /\ UNCHANGED <<app, dialog, job, asked, status, stopping, output, reader, stopper>>

\* _read_stdout, the done event: the status is known before the end.
ReadsDone(j) ==
    /\ reader[j] = "reading" /\ output[j] = "done"
    /\ app # "gone"
    /\ output' = [output EXCEPT ![j] = ""]
    /\ status' = [status EXCEPT ![j] = IF j \in asked THEN "STOPPED" ELSE "PASSED"]
    /\ UNCHANGED <<app, dialog, job, process, asked, stopping, reader, stopper>>

\* The output is at its end, and so is the process.
ReadsEnd(j) ==
    /\ reader[j] = "reading" /\ output[j] # "done" /\ process[j] = "ended"
    /\ app # "gone"
    /\ reader' = [reader EXCEPT ![j] = "over"]
    /\ status' = [status EXCEPT ![j] =
                    IF @ # "RUNNING" THEN @ ELSE IF j \in stopping THEN "STOPPED" ELSE "FAILED"]
    /\ UNCHANGED <<app, dialog, job, process, asked, stopping, output, stopper>>

TuiNext ==
    \/ StartJob
    \/ \E what \in {"stop", "quit"} : Ask(what)
    \/ \E yes \in BOOLEAN : Answer(yes)
    \/ Exit \/ Leave
    \/ \E t \in Threads : StopBegins(t) \/ StopWaits(t) \/ StopEnds(t)
    \/ \E j \in Jobs : Reports(j) \/ Ends(j) \/ ReadsDone(j) \/ ReadsEnd(j)
-----------------------------------------------------------------------------
TuiTypeOK ==
    /\ app \in {"open", "unmount", "gone"} /\ dialog \in {"none", "stop", "quit"}
    /\ job \in 0..MaxJobs
    /\ process \in [Jobs -> {"none", "running", "ended"}]
    /\ asked \subseteq Jobs /\ stopping \subseteq Jobs
    /\ status \in [Jobs -> {"RUNNING", "PASSED", "FAILED", "STOPPED"}]
    /\ reader \in [Jobs -> {"none", "reading", "over"}]

(***************************************************************************)
(* "Stopping or quitting never leaves vLLM or nccl-tests behind"           *)
(* (jobs.py:4): no job outlives the dashboard, also when one is started    *)
(* while another is being stopped in order to quit.                        *)
(***************************************************************************)
NothingOutlivesTheApp == app = "gone" => \A j \in Jobs : process[j] # "running"
=============================================================================
