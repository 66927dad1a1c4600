----------------------------- MODULE ClientTui -----------------------------
(***************************************************************************)
(* The terminal interface of the client: a LogPanel that follows the build *)
(* the cursor is on, and a page that refreshes a job (a build, or its      *)
(* latest scan) while it is under way.  LayerSmithApp.run_api runs each    *)
(* read in a thread of its own and hands the result to the interface       *)
(* later; a newer read of the same group does not stop an older one.       *)
(***************************************************************************)
EXTENDS FollowLog

CONSTANTS
    Followers,   \* 1..n: each build shown anew takes the next
    EndedBefore, \* builds that have ended when the interface starts
    Threads,     \* 1..n: reads of a log under way at once
    Jobs,        \* "build", "scan"
    MaxLost      \* bound on answers that do not come

VARIABLES
    panel,       \* LogPanel: build, follower, busy
    plain,       \* what it shows of the build's log
    follower,    \* the LogFollower objects
    thread,      \* the reads under way
    spoiled,     \* history: followers read twice at once, or cut off in a read
    job,         \* state of the page's job on the server
    page,        \* what the page shows of it
    answers,     \* answers about it on their way to the interface
    losses

panelVars == <<panel, plain, follower, thread, spoiled>>
pageVars == <<job, page, answers>>
tuiVars == <<panelVars, pageVars, losses>>

Idle == [pc |-> "idle", follower |-> 0, lines |-> <<>>]
NoBuild == [build |-> None, follower |-> 0, busy |-> FALSE]
States == {"active", "finished", "unread"}

PanelTypeOK ==
    /\ panel.build \in Builds \cup {None} /\ panel.busy \in BOOLEAN
    /\ panel.follower \in Followers \cup {0}
    /\ \A t \in Threads : /\ thread[t].pc \in {"idle", "ask", "read", "failed"}
                          /\ thread[t].follower \in Followers \cup {0}
    /\ spoiled \subseteq Followers

PageTypeOK ==
    /\ job \in [Jobs -> {"active", "finished"}]
    /\ page \in [Jobs -> States \cup {None}]
    /\ answers \in [Jobs -> SUBSET States]
    /\ losses \in 0..MaxLost

PanelInit ==
    /\ ServerInit(Builds \ EndedBefore, EndedBefore)
    /\ panel = NoBuild /\ plain = <<>>
    /\ follower = [f \in Followers |-> None]
    /\ thread = [t \in Threads |-> Idle] /\ spoiled = {}

PageInit ==
    /\ job = [j \in Jobs |-> "active"]
    /\ page = [j \in Jobs |-> None] /\ answers = [j \in Jobs |-> {}]

TuiInit == PanelInit /\ PageInit /\ losses = 0

(***************************************************************************)
(* LogPanel                                                                *)
(***************************************************************************)
Reads(f) == {t \in Threads : thread[t].pc # "idle" /\ thread[t].follower = f}

\* poll() with a follower that is not finished and no read under way that the
\* panel knows of: a new thread.
StartRead(f) ==
    LET free == {t \in Threads : thread[t].pc = "idle"}
        t == Min(free) IN
      /\ free # {}
      /\ thread' = [thread EXCEPT ![t] = [Idle EXCEPT !.pc = "ask", !.follower = f]]
      /\ spoiled' = spoiled \cup (IF Reads(f) = {} THEN {} ELSE {f})

\* show_build, for the row the cursor moves to; a panel that is not on the
\* screen waits for its timer.
ShowBuild(b) ==
    LET f == Cardinality({g \in Followers : follower[g] # None}) + 1 IN
    /\ panel.build # b /\ f \in Followers
    /\ follower' = [follower EXCEPT ![f] = NewFollower(b)]
    /\ plain' = <<>>
    /\ \E visible \in BOOLEAN :
         /\ panel' = [build |-> b, follower |-> f, busy |-> visible]
         /\ IF visible THEN StartRead(f) ELSE UNCHANGED <<thread, spoiled>>
    /\ UNCHANGED <<serverVars, pageVars, losses>>

\* show_empty, for a project without a build.
ShowEmpty ==
    /\ panel.build # None
    /\ panel' = [panel EXCEPT !.build = None, !.follower = 0]
    /\ plain' = <<>>
    /\ UNCHANGED <<serverVars, follower, thread, spoiled, pageVars, losses>>

\* The timer, while the panel is on the screen.
Poll ==
    LET f == panel.follower IN
    /\ f # 0 /\ ~panel.busy /\ ~follower[f].finished
    /\ panel' = [panel EXCEPT !.busy = TRUE]
    /\ StartRead(f)
    /\ UNCHANGED <<serverVars, plain, follower, pageVars, losses>>

\* The thread: one answer of poll().  Another thread with the same follower
\* may have its own answer under way, hence spoiled.
Read(t) ==
    LET f == thread[t].follower IN
    /\ thread[t].pc = "ask" /\ status[follower[f].build] # "deleted"
    /\ \E a \in {Chunk(follower[f].build, follower[f].offset)} :
         /\ follower' = [follower EXCEPT ![f] = After(@, a)]
         /\ thread' = [thread EXCEPT
              ![t] = [pc |-> IF GoesOn(follower[f], a) THEN "ask" ELSE "read", follower |-> f,
                      lines |-> @.lines \o Lines(follower[f], a)]]
    /\ UNCHANGED <<serverVars, panel, plain, spoiled, pageVars, losses>>

\* The build is gone, or the connection is lost for all the attempts; what
\* earlier answers of this poll brought is lost with it.
Breaks(t) ==
    LET f == thread[t].follower IN
    /\ thread[t].pc = "ask"
    /\ \/ status[follower[f].build] = "deleted" /\ UNCHANGED losses
       \/ losses < MaxLost /\ losses' = losses + 1
    /\ thread' = [thread EXCEPT ![t].pc = "failed", ![t].lines = <<>>]
    /\ spoiled' = spoiled \cup (IF thread[t].lines = <<>> THEN {} ELSE {f})
    /\ UNCHANGED <<serverVars, panel, plain, follower, pageVars>>

\* Mutated: lines are shown whosever they are.
Anyones(t) == TRUE
\* The panel shows the lines of its own follower only.
Wanted(t) == thread[t].follower = panel.follower

\* _lines and failed: either way the panel is no longer busy.
Deliver(t) ==
    /\ thread[t].pc \in {"read", "failed"}
    /\ panel' = [panel EXCEPT !.busy = FALSE]
    /\ plain' = IF thread[t].pc = "read" /\ Wanted(t) THEN plain \o thread[t].lines ELSE plain
    /\ thread' = [thread EXCEPT ![t] = Idle]
    /\ UNCHANGED <<serverVars, follower, spoiled, pageVars, losses>>

(***************************************************************************)
(* BuildScreen                                                             *)
(***************************************************************************)
JobEnds(j) ==
    /\ job[j] = "active"
    /\ job' = [job EXCEPT ![j] = "finished"]
    /\ UNCHANGED <<serverVars, panelVars, page, answers, losses>>

\* A read of the job as it is; a failed read of the scans is an answer too.
Fetch(j) ==
    /\ \/ answers' = [answers EXCEPT ![j] = @ \cup {job[j]}] /\ UNCHANGED losses
       \/ /\ losses < MaxLost /\ losses' = losses + 1
          /\ answers' = IF j = "scan" THEN [answers EXCEPT ![j] = @ \cup {"unread"}] ELSE answers
    /\ UNCHANGED <<serverVars, panelVars, job, page>>

\* reload, by the user or when the page is opened.
Reload(j) == Fetch(j)

\* Mutated: the page is refreshed by its timer only after it was loaded anew.
TickedOnce(j) == page[j] = "active" /\ answers[j] = {} /\ job[j] = "active"
\* tick: while what the page shows is under way.
Ticks(j) == page[j] = "active"

Tick(j) == Ticks(j) /\ Fetch(j)

\* show, show_scans: answers arrive in any order.
Show(j) ==
    \E a \in answers[j] :
      /\ page' = [page EXCEPT ![j] = a]
      /\ answers' = [answers EXCEPT ![j] = @ \ {a}]
      /\ UNCHANGED <<serverVars, panelVars, job, losses>>

PanelNext ==
    \/ \E b \in Builds : ShowBuild(b)
    \/ ShowEmpty
    \/ Poll
    \/ \E t \in Threads : Read(t) \/ Breaks(t) \/ Deliver(t)
    \/ \E b \in Builds : ServerStep(b) /\ UNCHANGED tuiVars

PageNext == \E j \in Jobs : JobEnds(j) \/ Reload(j) \/ Tick(j) \/ Show(j)

TuiNext == PanelNext \/ PageNext

TuiFairness ==
    LET all == <<serverVars, tuiVars>> IN
    /\ WF_all(Poll)
    /\ \A t \in Threads : WF_all(Read(t) \/ Breaks(t) \/ Deliver(t))
    /\ \A b \in Builds : WF_all(Ends(b) /\ UNCHANGED tuiVars)
    /\ \A j \in Jobs : WF_all(Tick(j)) /\ WF_all(Show(j)) /\ WF_all(JobEnds(j))

(***************************************************************************)
(* Properties                                                              *)
(***************************************************************************)
\* Lines of a read that is not delivered yet.
Coming(f) ==
    IF \E t \in Threads : thread[t].follower = f
    THEN thread[CHOOSE t \in Threads : thread[t].follower = f].lines ELSE <<>>

\* "The title always names the project, build and version the lines belong
\* to": the panel shows the lines of its own build, all of them and once,
\* unless two threads read its follower at once or a read of several answers
\* broke off.
PanelShowsTheLog ==
    LET f == panel.follower IN
    /\ f # 0 /\ f \notin spoiled => ShowsTheLog(follower[f], plain \o Coming(f))
    /\ panel.build = None => plain = <<>>

\* A panel that stays on a build reads it to its end.
CaughtUp(f) ==
    panel.follower # f \/ follower[f].finished \/ status[follower[f].build] = "deleted"

PanelCatchesUp == \A f \in Followers : panel.follower = f ~> CaughtUp(f)

\* What the page shows as under way is refreshed until it is shown finished;
\* only a failed read of the scans ends that.
PageShowsTheEnd ==
    \A j \in Jobs : page[j] = "active" ~> page[j] \in {"finished", "unread"}
=============================================================================
