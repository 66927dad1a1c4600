---------------------------- MODULE MCLogStream ----------------------------
(***************************************************************************)
(* The log of a build and those who read it, for TLC: scenes that share no *)
(* state, of which a behaviour plays one.                                  *)
(*   "browse"   the worker and its browsers, step by step (LogStream)      *)
(*   "poll"     the worker and a poll, step by step (LogStream)            *)
(*   "command"  a command of the client that starts or follows a build     *)
(*   "panel"    the log panel of the terminal interface                    *)
(*   "page"     its page of a build                                        *)
(***************************************************************************)
EXTENDS LogStream

CONSTANTS r1, r2, f1, None, b1, b2, Kinds, Size, Newlines, Limit, TailBytes, Attempts, MaxLost,
          PanelSize, PanelNewlines, PanelLimit, PanelLost, Views, Threads

VARIABLES
    scene,
    row, bytes,
    kind, pc, tries, lost, reading, shown, started, exit, result, losses,
    panel, plain, follower, thread, spoiled, job, page, answers, failures

Jobs == {"build", "scan"}

Command == INSTANCE ClientCommand
             WITH Builds <- {b1, b2}, Mine <- b1, status <- row, written <- bytes, follower <- reading
Tui == INSTANCE ClientTui
         WITH Builds <- {b1, b2}, EndedBefore <- {b1},
              Size <- PanelSize, Newlines <- PanelNewlines, Limit <- PanelLimit,
              MaxLost <- PanelLost, Followers <- Views, status <- row, written <- bytes,
              losses <- failures

\* Logs, limits and bounds as the program has them; what is none of them is None.
FollowerType ==
    [build : {b1, b2}, from : Nat, offset : Nat \cup {None}, partial : Seq(Nat),
     finished : BOOLEAN, status : {"none", "running", "ready", "failed", "deleted", None}]

ASSUME ClientAssumption ==
    /\ Kinds \subseteq Command!AllKinds
    /\ Size \in Nat /\ Newlines \subseteq 1..Size
    /\ Limit \in Nat \ {0} /\ TailBytes \in Nat
    /\ Attempts \in Nat /\ MaxLost \in Nat
    /\ None \notin Int \cup FollowerType \cup {"none", "running", "ready", "failed", "deleted"}

ASSUME PanelAssumption ==
    /\ PanelSize \in Nat /\ PanelNewlines \subseteq 1..PanelSize
    /\ PanelLimit \in Nat \ {0} /\ PanelLost \in Nat
    /\ IsFiniteSet(Views) /\ Views = 1..Cardinality(Views)
    /\ Threads \subseteq Nat
    /\ None \notin {b1, b2}

serverVars == <<row, bytes>>
commandVars == <<kind, pc, tries, lost, reading, shown, started, exit, result, losses>>
tuiVars == <<panel, plain, follower, thread, spoiled, job, page, answers, failures>>
all == <<scene, vars, serverVars, commandVars, tuiVars>>
-----------------------------------------------------------------------------
\* The parts of the scenes that are not played, at rest.
NoLog == InitAt("over")

NoServer == row = [b \in {b1, b2} |-> None] /\ bytes = None

NoCommand ==
    /\ kind = None /\ pc = "done" /\ tries = None /\ lost = None /\ reading = None
    /\ shown = None /\ started = None /\ exit = None /\ result = None /\ losses = None

NoPanel ==
    /\ panel = [follower |-> 0] /\ plain = None /\ follower = None
    /\ thread = [t \in Threads |-> [pc |-> None]] /\ spoiled = None

NoPage == job = [j \in Jobs |-> None] /\ page = job /\ answers = [j \in Jobs |-> {}]

MCInit ==
    /\ failures = 0
    /\ \/ scene \in {"browse", "poll"} /\ Init /\ NoServer /\ NoCommand /\ NoPanel /\ NoPage
       \/ scene = "command" /\ NoLog /\ Command!CommandInit /\ NoPanel /\ NoPage
       \/ scene = "panel" /\ NoLog /\ NoCommand /\ Tui!PanelInit /\ NoPage
       \/ scene = "page" /\ NoLog /\ NoServer /\ NoCommand /\ NoPanel /\ Tui!PageInit

\* Browsers and polls see the build and not each other.
LogScene ==
    /\ scene \in {"browse", "poll"}
    /\ Next
    /\ IF scene = "browse" THEN UNCHANGED followVars ELSE UNCHANGED readerVars
    /\ UNCHANGED <<serverVars, commandVars, tuiVars, scene>>

CommandScene ==
    scene = "command" /\ Command!CommandNext /\ UNCHANGED <<vars, tuiVars, scene>>

\* The build that ended before may be deleted; the other one ends well.
PanelScene ==
    /\ scene = "panel"
    /\ Tui!PanelNext
    /\ row'[b2] \in {"running", "ready"}
    /\ UNCHANGED <<vars, commandVars, scene>>

PageScene ==
    scene = "page" /\ Tui!PageNext /\ UNCHANGED <<vars, commandVars, scene>>

MCNext == LogScene \/ CommandScene \/ PanelScene \/ PageScene

MCSafety == MCInit /\ [][MCNext]_all

MCSpec ==
    /\ MCSafety
    /\ Fairness
    /\ Command!CommandFairness
    /\ Tui!TuiFairness
-----------------------------------------------------------------------------
\* "The client never repeats a request that changes something"
\* (docs/client.md:415), and what its exit status says of a build is so.
ToldIsTrue == scene = "command" => Command!ToldIsTrue

\* What a client shows of a log is the log: lines of the build it names, whole,
\* once and without a gap, whatever answers are lost or late.
ShownIsTheLog ==
    /\ scene = "command" => Command!CommandTypeOK /\ Command!CommandShowsTheLog
    /\ scene = "panel" => Tui!PanelTypeOK /\ Tui!PanelShowsTheLog
    /\ scene = "page" => Tui!PageTypeOK

\* Every reader of a log reads to its end: connections, commands that follow a
\* build, the panel as long as it stays on a build, the page of a job.
EveryoneReadsToTheEnd ==
    /\ EveryReaderEnds
    /\ pc # "done" ~> pc = "done"
    /\ \A f \in Views : panel.follower = f ~> Tui!CaughtUp(f)
    /\ \A j \in Jobs : page[j] = "active" ~> page[j] \in {"finished", "unread"}
=============================================================================
