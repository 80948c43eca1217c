------------------------ MODULE MCArtifactInspection ------------------------
(***************************************************************************)
(* Two calls, whose adapters may return either of two versions.            *)
(***************************************************************************)
EXTENDS ArtifactInspection
=============================================================================
