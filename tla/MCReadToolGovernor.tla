------------------------- MODULE MCReadToolGovernor -------------------------
(***************************************************************************)
(* Small instances of the read governor.  A principal, a client and an     *)
(* operation give three scopes for a map of two, so that scopes are        *)
(* evicted, recreated and refused.                                         *)
(***************************************************************************)
EXTENDS ReadToolGovernor, TLC

\* A success and a failure: enough where the code returned does not matter.
SuccessOrFailure == {[kind |-> "output", what |-> "withinBounds"],
                     [kind |-> "throw", what |-> "other"]}

CallSymmetry == Permutations(Calls)
=============================================================================
