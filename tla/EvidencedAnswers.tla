-------------------------- MODULE EvidencedAnswers --------------------------
(***************************************************************************)
(* What the artifact registration promises (receiptJournal in              *)
(* ARTIFACT_STORAGE_CLOSURE_MANIFEST): an answer that is bound to a source *)
(* is given only after its receipt is durable, and only then do observers  *)
(* learn of it; a call that gives up says nothing, although its receipt    *)
(* may still become durable.                                               *)
(***************************************************************************)
CONSTANT Calls

VARIABLES
    answer,    \* "none", or what kind of answer each call got
    durable,   \* the calls whose receipt the journal holds
    observed   \* the calls whose receipt the observers were given

evidence == <<answer, durable, observed>>

EvidenceInit ==
    /\ answer = [c \in Calls |-> "none"]
    /\ durable = {}
    /\ observed = {}

\* The journal stores a receipt: before the answer, or late, after the call gave up.
Record(c) ==
    /\ c \notin durable
    /\ answer[c] \in {"none", "given up"}
    /\ durable' = durable \cup {c}
    /\ UNCHANGED <<answer, observed>>

\* A source-bound answer, success or error.
Deliver(c) ==
    /\ answer[c] = "none"
    /\ c \in durable
    /\ answer' = [answer EXCEPT ![c] = "evidenced"]
    /\ observed' = observed \cup {c}
    /\ UNCHANGED durable

\* An answer that is bound to no source: nothing was, or will be, recorded.
Refuse(c) ==
    /\ answer[c] = "none"
    /\ c \notin durable
    /\ answer' = [answer EXCEPT ![c] = "unevidenced"]
    /\ UNCHANGED <<durable, observed>>

\* The deadline, an abort, or a journal that did not acknowledge.
GiveUp(c) ==
    /\ answer[c] = "none"
    /\ answer' = [answer EXCEPT ![c] = "given up"]
    /\ UNCHANGED <<durable, observed>>

EvidenceNext ==
    \E c \in Calls : Record(c) \/ Deliver(c) \/ Refuse(c) \/ GiveUp(c)

EvidenceSpec == EvidenceInit /\ [][EvidenceNext]_evidence
=============================================================================
