--------------------------- MODULE ClientCommand ---------------------------
(***************************************************************************)
(* One command of the client that starts or follows a build, over a        *)
(* connection that may be lost at any request: ApiClient.request, the      *)
(* operations of ops.py and the commands of cli.py, until the exit status. *)
(***************************************************************************)
EXTENDS FollowLog

CONSTANTS
    Kinds,       \* commands, of AllKinds
    Mine,        \* the build that a command starts, or that it names
    Attempts,    \* READ_ATTEMPTS
    MaxLost      \* bound on answers that do not come

VARIABLES
    kind, pc,    \* the command and where it is
    tries,       \* attempts of the request under way
    lost,        \* rounds since the connection was lost, up to two
    follower, shown,
    started,     \* builds the server started for this command
    exit,        \* the exit status
    result,      \* history: how the build ended and what its log was then
    losses

commandVars == <<kind, pc, tries, lost, follower, shown, started, exit, result, losses>>

\* build, build --wait, build --follow; builds wait --logs; builds logs,
\* builds logs --follow.
Starting == {"build", "wait", "follow"}
Reading == {"show", "logs"}
WithLog == {"follow", "reconnect", "show", "logs"}
AllKinds == Starting \cup Reading \cup {"reconnect"}

NoResult == [status |-> None, written |-> 0]

CommandTypeOK ==
    /\ kind \in AllKinds
    /\ pc \in {"project", "post", "log", "build", "last", "done"}
    /\ tries \in 0..Attempts /\ lost \in 0..2 /\ losses \in 0..MaxLost
    /\ started \in 0..MaxLost + 1
    /\ exit \in {None, 0, 1, 3, 4, 5, 6, 7, 9, 130}
    /\ follower.offset \in 0..Size \cup {None}

\* A round of waiting reads the log first, if it is asked for.
Round == IF kind \in WithLog THEN "log" ELSE "build"

CommandInit ==
    /\ kind \in Kinds
    /\ pc = IF kind \in Starting THEN "project" ELSE Round
    /\ tries = 0 /\ lost = 0 /\ losses = 0
    /\ follower = NewFollower(Mine) /\ shown = <<>>
    /\ started = 0 /\ exit = None /\ result = NoResult
    /\ ServerInit(IF kind \in Starting THEN {} ELSE {Mine}, {})

Exit(code) == exit' = code /\ pc' = "done"

\* After Unreachable: the wait goes on, for five minutes from the first loss.
KeepsWaiting ==
    /\ lost' = Min({2, lost + 1})
    /\ \/ pc' = Round /\ UNCHANGED exit
       \/ lost > 0 /\ Exit(3)

\* "project", "last" and `builds logs` alone do not wait for the connection.
Waits == pc \in {"log", "build"} /\ kind # "show"

\* Mutated: every request is repeated.
Repeated == TRUE
\* Reads are repeated, changes never.
Repeatable == pc # "post"

(***************************************************************************)
(* No answer: the connection failed, before the request was sent or after, *)
(* or a proxy answered for the server (502, 503, 504; 1, or 6 if it sent a *)
(* web page).  A change may have reached the server.                       *)
(***************************************************************************)
ReachesServer ==
    /\ pc = "post"
    /\ started' = started + 1
    /\ status' = [status EXCEPT ![Mine] = "running"]
    /\ UNCHANGED written

NeverArrives == UNCHANGED <<serverVars, started>>

LosesAnswer(why) ==
    /\ pc # "done" /\ losses < MaxLost
    /\ losses' = losses + 1
    /\ NeverArrives \/ (ReachesServer /\ why # "connect")
    /\ IF Repeatable /\ tries + 1 < Attempts
       THEN tries' = tries + 1 /\ UNCHANGED <<pc, exit, lost>>
       ELSE /\ tries' = 0
            /\ CASE why = "proxy" -> (\E code \in {1, 6} : Exit(code)) /\ UNCHANGED lost
                 [] why = "sent" /\ pc = "post" -> Exit(7) /\ UNCHANGED lost
                 [] OTHER -> IF Waits THEN KeepsWaiting ELSE Exit(3) /\ UNCHANGED lost
    /\ UNCHANGED <<kind, follower, shown, result>>

Loses == \E why \in {"connect", "sent", "proxy"} : LosesAnswer(why)

(***************************************************************************)
(* Answers                                                                 *)
(***************************************************************************)
Answered(from) == pc = from /\ tries' = 0 /\ UNCHANGED <<kind, result, losses>>

\* resolve_project
FindProject ==
    /\ Answered("project")
    /\ pc' = "post"
    /\ UNCHANGED <<serverVars, lost, follower, shown, started, exit>>

\* start_build: accepted, or refused (a version that exists, an active build).
Accepted ==
    /\ Answered("post")
    /\ ReachesServer
    /\ IF kind = "build" THEN Exit(0)
       ELSE pc' = Round /\ UNCHANGED exit
    /\ UNCHANGED <<lost, follower, shown>>

Refused ==
    /\ Answered("post")
    /\ Exit(4)
    /\ UNCHANGED <<serverVars, lost, follower, shown, started>>

Gone ==
    /\ Answered(pc)
    /\ pc \in {"log", "build", "last"} /\ status[Mine] = "deleted"
    /\ Exit(5)
    /\ UNCHANGED <<serverVars, lost, follower, shown, started>>

\* exit_for_build
Verdict(s) == Exit(IF s = "failed" THEN 9 ELSE 0)

\* One answer of poll(); its lines are printed at once.
ReadLog ==
    /\ Answered(pc)
    /\ pc \in {"log", "last"} /\ kind \in WithLog /\ status[Mine] # "deleted"
    /\ \E a \in {Chunk(Mine, follower.offset)} :
         /\ follower' = After(follower, a)
         /\ shown' = shown \o Lines(follower, a)
         /\ CASE GoesOn(follower, a) -> UNCHANGED <<pc, exit, lost>>
              [] ~GoesOn(follower, a) /\ pc = "last" ->
                   Verdict(a.status) /\ UNCHANGED lost
              [] ~GoesOn(follower, a) /\ kind = "show" -> Exit(0) /\ UNCHANGED lost
              [] ~GoesOn(follower, a) /\ kind = "logs" ->
                   /\ lost' = 0
                   /\ IF a.complete THEN Verdict(a.status) ELSE UNCHANGED <<pc, exit>>
              [] OTHER -> pc' = "build" /\ UNCHANGED <<exit, lost>>
    /\ UNCHANGED <<serverVars, started>>

\* wait_for_build: the record; when it is final, the rest of the log.
ReadBuild ==
    /\ Answered("build")
    /\ status[Mine] # "deleted"
    /\ lost' = 0
    /\ IF status[Mine] \in Ended
       THEN IF kind \in WithLog /\ ~follower.finished
            THEN pc' = "last" /\ UNCHANGED exit
            ELSE Verdict(status[Mine])
       ELSE pc' = Round /\ UNCHANGED exit
    /\ UNCHANGED <<serverVars, follower, shown, started>>

\* Ctrl+C
Interrupt ==
    /\ pc # "done"
    /\ Exit(130)
    /\ UNCHANGED <<serverVars, kind, tries, lost, follower, shown, started, result,
                   losses>>

Command ==
    FindProject \/ Accepted \/ Refused \/ Gone \/ ReadLog \/ ReadBuild

\* What the server does meanwhile.
Result == [status |-> status'[Mine], written |-> written[Mine]]

Server ==
    /\ pc # "done"
    /\ \/ Ends(Mine) /\ result' = Result
       \/ (Emit(Mine) \/ Delete(Mine)) /\ UNCHANGED result
    /\ UNCHANGED <<kind, pc, tries, lost, follower, shown, started, exit, losses>>

CommandNext == Command \/ Loses \/ Interrupt \/ Server

CommandSpec == CommandInit /\ [][CommandNext]_<<serverVars, commandVars>>

CommandFairness ==
    /\ WF_<<serverVars, commandVars>>(Command)
    /\ WF_<<serverVars, commandVars>>(Ends(Mine) /\ Server)

(***************************************************************************)
(* Properties                                                              *)
(***************************************************************************)
\* "The client never repeats a request that changes something"
\* (docs/client.md:415), and its exit status is true whatever was lost: a
\* build is only called finished, well or badly, when it is; 4, and 3 before
\* the build was accepted, mean that nothing was started.
ToldIsTrue ==
    /\ started <= 1
    /\ exit = 0 /\ kind \notin {"build", "show"} => result.status = "ready"
    /\ exit = 9 => result.status = "failed"
    /\ exit = 5 => status[Mine] = "deleted"
    /\ exit = 4 \/ (exit = 3 /\ kind = "build") => started = 0

\* A command that follows shows the log in whole lines without a gap or a
\* repetition over any lost answers, and the whole of what the build had
\* written when it ended, once it says how.
CommandShowsTheLog ==
    /\ ShowsTheLog(follower, shown) /\ OnlyWholeLines(follower, shown)
    /\ exit \in {0, 9} /\ kind \in {"follow", "reconnect", "logs"} =>
         follower.offset >= result.written

CommandEnds == pc # "done" ~> pc = "done"
=============================================================================
