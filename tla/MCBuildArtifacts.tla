-------------------------- MODULE MCBuildArtifacts --------------------------
(***************************************************************************)
(* Instances of BuildArtifacts for TLC.                                    *)
(***************************************************************************)
EXTENDS BuildArtifacts

CONSTANTS b1, b2, b3, r1, r2, f1, s1, s2, q1

\* localhost/x/y and x-y: two references, one archive name.
OneArchive == [r \in Refs |-> f1]
=============================================================================
