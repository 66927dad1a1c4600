---------------------------- MODULE BuildStates -----------------------------
(***************************************************************************)
(* The states of a build record: models.ACTIVE_STATES and the two finished *)
(* ones.  "absent" is a record not inserted yet, "deleted" one whose row   *)
(* is gone.  ("cancelled" is in models.BUILD_STATES but no code sets it.)  *)
(***************************************************************************)
Running  == {"preparing", "pulling", "building", "testing", "exporting"}
Active   == {"queued"} \cup Running
Finished == {"ready", "failed"}
Rows     == Active \cup Finished
Status   == {"absent", "deleted"} \cup Rows

\* The order in which BuildService.run sets the stages when nothing fails;
\* only recipes with checks pass through "testing".
Pipeline ==
  {<<"preparing", "pulling">>, <<"pulling", "building">>,
   <<"building", "testing">>, <<"building", "exporting">>,
   <<"testing", "exporting">>, <<"exporting", "ready">>}

After(s) == {t \in Running \cup {"ready"} : <<s, t>> \in Pipeline}
=============================================================================
