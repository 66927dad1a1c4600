-------------------------- MODULE MCModelDownloads --------------------------
(***************************************************************************)
(* Instances of ModelDownloads for TLC.                                    *)
(***************************************************************************)
EXTENDS ModelDownloads, TLC

CONSTANTS m1, m2, n1, n2, q1, q2
=============================================================================
