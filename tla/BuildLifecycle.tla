--------------------------- MODULE BuildLifecycle ---------------------------
(***************************************************************************)
(* What LayerSmith promises about one build record, whoever drives it: the *)
(* record is created queued, walks forward through the pipeline, finishes  *)
(* ready or failed, and may then be deleted.  Nothing here says which      *)
(* thread does the work; BuildQueue does, and implements this module.      *)
(***************************************************************************)
EXTENDS BuildStates

CONSTANT Builds             \* identities of build records (uuid4 in models.py)

VARIABLE status             \* status[b]: the status column, or absent/deleted

Init == status = [b \in Builds |-> "absent"]

Create(b) ==
  /\ status[b] = "absent"
  /\ status' = [status EXCEPT ![b] = "queued"]

Begin(b) ==
  /\ status[b] = "queued"
  /\ status' = [status EXCEPT ![b] = "preparing"]

Advance(b) ==
  \E s \in After(status[b]) : status' = [status EXCEPT ![b] = s]

\* Reported failed by a worker, or by the next start of the program, which
\* fails every record it finds active in one transaction.  A ready build can
\* still be reported failed, by the last lines of the run that finished it.
Fail(S) ==
  /\ \A b \in S : status[b] \in Active \cup {"ready"}
  /\ status' = [b \in Builds |-> IF b \in S THEN "failed" ELSE status[b]]

Delete(b) ==
  /\ status[b] \in Finished
  /\ status' = [status EXCEPT ![b] = "deleted"]

Next ==
  \/ \E b \in Builds : Create(b) \/ Begin(b) \/ Advance(b) \/ Delete(b)
  \/ \E S \in SUBSET Builds : Fail(S)

Spec == Init /\ [][Next]_status
=============================================================================
