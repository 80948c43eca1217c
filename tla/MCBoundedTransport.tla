------------------------ MODULE MCBoundedTransport ------------------------
(***************************************************************************)
(* The ceilings of the code, outputs on both sides of them, ids from one   *)
(* digit to one byte too long.                                             *)
(***************************************************************************)
EXTENDS BoundedTransport

\* Bytes counted on the serialized envelope and on the longest error of each family.
MCBareBytes == [t \in Tools |-> IF t = "memory" THEN 227 ELSE 240]
MCErrorBytes == [t \in Tools |-> IF t = "memory" THEN 229 ELSE 257]

\* What a run of n characters needs to reach b bytes with the id null.
Reaching(t, b, ch, n) ==
    [character |-> ch, count |-> n,
     rest |-> b - MCBareBytes[t] - NullIdBytes - n * jsonBytes(ch)]

\* Eight rows of 4,000 characters, or control characters among the lines of an artifact: at
\* the ceiling and one byte above it; and emoji that end 40 bytes below it.
MCOutputs ==
    [t \in Tools |->
       {Reaching(t, 65496, "emoji", 8000)}
       \cup {Reaching(t, b, IF t = "memory" THEN "plain" ELSE "control",
                            IF t = "memory" THEN 32000 ELSE 4800) : b \in {65536, 65537}}]
=============================================================================
