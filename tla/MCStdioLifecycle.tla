-------------------------- MODULE MCStdioLifecycle --------------------------
(***************************************************************************)
(* A regular file and one that is not; a credential fits into two bytes.   *)
(***************************************************************************)
EXTENDS StdioLifecycle
=============================================================================
