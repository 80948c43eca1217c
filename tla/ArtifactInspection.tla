------------------------- MODULE ArtifactInspection -------------------------
(***************************************************************************)
(* A registered artifact operation: the inspector                          *)
(* (packages/server/src/artifact-inspector.ts) run behind the              *)
(* operation-scoped observer gate, the receipt journal and the deadline of *)
(* packages/server/src/artifact-mcp-registration.ts.                       *)
(*                                                                         *)
(* A step is a macrotask of the event loop: the settlement of one promise  *)
(* of an injected adapter, the deadline timer, or the arrival of a call,   *)
(* with the microtasks it causes.  The adapters have no cancellation seam, *)
(* so after a deadline the operation goes on in the background, behind a   *)
(* closed gate.                                                            *)
(***************************************************************************)
EXTENDS Naturals, Sequences, FiniteSets

CONSTANTS
    Calls,       \* tool calls the server receives
    Versions,    \* immutable object versions (objectVersionRef), with their bytes
    NoVersion    \* no source version was established

ASSUME InspectionAssumption ==
    /\ NoVersion \notin Versions
    /\ IsFiniteSet(Calls)

Operations == {"artifact_stat", "artifact_read_range", "artifact_read_lines",
               "artifact_read_heading", "artifact_search_exact"}

Errors == {"INVALID_REQUEST", "RESOURCE_UNAVAILABLE", "INTEGRITY_FAILURE", "UNSUPPORTED",
           "RESPONSE_LIMIT_EXCEEDED", "DEADLINE_EXCEEDED", "INTERNAL_ERROR"}
Classes == Errors \cup {"success"}

(***************************************************************************)
(* How an inspection concludes: the class of its output and of its event,  *)
(* and whether it emits a receipt before it.                               *)
(***************************************************************************)
Outcomes == [class : Classes, receipt : BOOLEAN]
Bare(classes) == [class : classes, receipt : {FALSE}]
Receipted(classes) == [class : classes, receipt : {TRUE}]

\* The checks an operation makes on the resolved record before it reads any byte.
\* artifact_stat never reads: its checks give its conclusion.
artifactStat == Receipted({"INTERNAL_ERROR", "RESPONSE_LIMIT_EXCEEDED", "success"})
RangeChecks == Receipted({"INTEGRITY_FAILURE", "RESPONSE_LIMIT_EXCEEDED"})
LinesChecks == Receipted({"UNSUPPORTED", "RESPONSE_LIMIT_EXCEEDED"})
HeadingChecks == Receipted({"UNSUPPORTED", "RESPONSE_LIMIT_EXCEEDED"})
SearchChecks == Receipted({"UNSUPPORTED", "RESOURCE_UNAVAILABLE", "RESPONSE_LIMIT_EXCEEDED"})

RecordChecks(operation) ==
    CASE operation = "artifact_stat"         -> artifactStat
      [] operation = "artifact_read_range"   -> RangeChecks
      [] operation = "artifact_read_lines"   -> LinesChecks
      [] operation = "artifact_read_heading" -> HeadingChecks
      [] operation = "artifact_search_exact" -> SearchChecks

ReadsBytes(operation) == operation # "artifact_stat"

\* What may become of bytes that the manifest of the record verifies.
artifactReadRange ==
    Receipted({"UNSUPPORTED", "RESPONSE_LIMIT_EXCEEDED", "INTERNAL_ERROR", "success"})
artifactReadLines ==
    Receipted({"INTEGRITY_FAILURE", "INVALID_REQUEST", "RESPONSE_LIMIT_EXCEEDED",
               "INTERNAL_ERROR", "success"})
artifactReadHeading ==
    Receipted({"INTEGRITY_FAILURE", "RESPONSE_LIMIT_EXCEEDED", "INTERNAL_ERROR", "success"})
      \cup Bare({"RESOURCE_UNAVAILABLE"})
artifactSearchExact ==
    Receipted({"INTEGRITY_FAILURE", "RESPONSE_LIMIT_EXCEEDED", "INTERNAL_ERROR", "success"})

VerifiedOutcomes(operation) ==
    CASE operation = "artifact_read_range"   -> artifactReadRange
      [] operation = "artifact_read_lines"   -> artifactReadLines
      [] operation = "artifact_read_heading" -> artifactReadHeading
      [] operation = "artifact_search_exact" -> artifactSearchExact

Receipts == [call : Calls, class : Classes, version : Versions]

VARIABLES
    phase,          \* how far the operation promise of each call got
    operation,      \* the tool called
    record,         \* the version the resolver authorized, NoVersion before
    bytes,          \* the version whose bytes the call read and verified
    outcome,        \* how the inspection concluded
    open, committed, receipts, events,   \* the observer gate of each call
    journal,        \* the receipts the journal holds durably
    output,         \* the class of what the call returned, "none" before
    journalFailure, \* the append failed while the call was open
    seenReceipts,   \* what the configured observers were given
    seenEvents,
    entryAborted    \* history: the request was cancelled before its handler ran

gate == <<open, committed, receipts, events>>
seen == <<seenReceipts, seenEvents>>
vars == <<phase, operation, record, bytes, outcome, gate, journal, output, journalFailure,
          seen, entryAborted>>

Pending == [class |-> "INTERNAL_ERROR", receipt |-> FALSE]

Init ==
    /\ phase = [c \in Calls |-> "idle"]
    /\ operation = [c \in Calls |-> "artifact_stat"]
    /\ record = [c \in Calls |-> NoVersion]
    /\ bytes = [c \in Calls |-> NoVersion]
    /\ outcome = [c \in Calls |-> Pending]
    /\ open = [c \in Calls |-> FALSE]
    /\ committed = [c \in Calls |-> FALSE]
    /\ receipts = [c \in Calls |-> <<>>]
    /\ events = [c \in Calls |-> <<>>]
    /\ journal = {}
    /\ output = [c \in Calls |-> "none"]
    /\ journalFailure = [c \in Calls |-> FALSE]
    /\ seenReceipts = [c \in Calls |-> <<>>]
    /\ seenEvents = [c \in Calls |-> <<>>]
    /\ entryAborted = [c \in Calls |-> FALSE]
-----------------------------------------------------------------------------
(***************************************************************************)
(* The gate.                                                               *)
(***************************************************************************)
close(c) ==
    /\ open' = [open EXCEPT ![c] = FALSE]
    /\ receipts' = [receipts EXCEPT ![c] = <<>>]
    /\ events' = [events EXCEPT ![c] = <<>>]

\* The call returns and, in the same macrotask, `finally` closes the gate.
Return(c, class) ==
    /\ output' = [output EXCEPT ![c] = class]
    /\ close(c)

\* Mutant: the deadline is returned and no event says so.
ReturnDeadlineSilently(c) ==
    /\ Return(c, "DEADLINE_EXCEEDED")
    /\ UNCHANGED <<committed, seenReceipts, seenEvents, journalFailure>>

\* The race is lost to the deadline or to the abort signal; registration emits the
\* one event.
ReturnDeadline(c) ==
    /\ Return(c, "DEADLINE_EXCEEDED")
    /\ seenEvents' = [seenEvents EXCEPT ![c] = Append(@, "DEADLINE_EXCEEDED")]
    /\ UNCHANGED <<committed, seenReceipts, journalFailure>>

\* Mutant: commit() forwards the events only.
CommitEventsOnly(c, class, bufferedReceipts, bufferedEvents) ==
    /\ committed' = [committed EXCEPT ![c] = TRUE]
    /\ seenEvents' = [seenEvents EXCEPT ![c] = @ \o bufferedEvents]
    /\ Return(c, class)
    /\ UNCHANGED <<seenReceipts, journalFailure>>

\* commit() once the receipt, if any, is acknowledged: the buffers go to the
\* observers, the receipt first, and the output wins the race.
CommitAndReturn(c, class, bufferedReceipts, bufferedEvents) ==
    /\ committed' = [committed EXCEPT ![c] = TRUE]
    /\ seenReceipts' = [seenReceipts EXCEPT ![c] = @ \o bufferedReceipts]
    /\ seenEvents' = [seenEvents EXCEPT ![c] = @ \o bufferedEvents]
    /\ Return(c, class)
    /\ UNCHANGED journalFailure

ReceiptOf(c, class, version) == [call |-> c, class |-> class, version |-> version]

\* Mutant: the receipt goes to the observers and to the journal at the same time.
ConcludeBeforeJournal(c, result, version) ==
    /\ outcome' = [outcome EXCEPT ![c] = result]
    /\ phase' = [phase EXCEPT ![c] = IF result.receipt THEN "appending" ELSE "ended"]
    /\ IF open[c]
         THEN CommitAndReturn(c, result.class,
                IF result.receipt THEN <<ReceiptOf(c, result.class, version)>> ELSE <<>>,
                <<result.class>>)
         ELSE UNCHANGED <<gate, output, journalFailure, seen>>

\* emitReceiptSafely and emitEventSafely, gated, then the call of commit(): nothing
\* is buffered behind a closed gate and commit() throws; a receipt is appended to
\* the journal; without one there is nothing to wait for.
Conclude(c, result, version) ==
    /\ outcome' = [outcome EXCEPT ![c] = result]
    /\ \/ /\ ~open[c]
          /\ phase' = [phase EXCEPT ![c] = "ended"]
          /\ UNCHANGED <<gate, output, journalFailure, seen>>
       \/ /\ open[c]
          /\ result.receipt
          /\ phase' = [phase EXCEPT ![c] = "appending"]
          /\ receipts' = [receipts EXCEPT ![c] = Append(@, ReceiptOf(c, result.class, version))]
          /\ events' = [events EXCEPT ![c] = Append(@, result.class)]
          /\ UNCHANGED <<open, committed, output, journalFailure, seen>>
       \/ /\ open[c]
          /\ ~result.receipt
          /\ phase' = [phase EXCEPT ![c] = "ended"]
          /\ CommitAndReturn(c, result.class, <<>>, <<result.class>>)
-----------------------------------------------------------------------------
(***************************************************************************)
(* A call arrives.  Its signal may be aborted already: the SDK handles the *)
(* cancellation before it calls the handler when both messages come in one *)
(* chunk.                                                                  *)
(***************************************************************************)
Arrive(c, tool, aborted) ==
    /\ phase[c] = "idle"
    /\ operation' = [operation EXCEPT ![c] = tool]
    /\ entryAborted' = [entryAborted EXCEPT ![c] = aborted]
    /\ UNCHANGED <<record, bytes, journal>>

\* The input is acceptable: the resolver is called, and the gate is open until the
\* race is decided.
Start(c, tool) ==
    /\ Arrive(c, tool, FALSE)
    /\ phase' = [phase EXCEPT ![c] = "resolving"]
    /\ open' = [open EXCEPT ![c] = TRUE]
    /\ UNCHANGED <<outcome, committed, receipts, events, output, journalFailure, seen>>

\* The same on an aborted signal: the operation starts, and the race is lost at once.
StartAborted(c, tool) ==
    /\ Arrive(c, tool, TRUE)
    /\ phase' = [phase EXCEPT ![c] = "resolving"]
    /\ ReturnDeadline(c)
    /\ UNCHANGED outcome

\* The input, the context or the clock is refused before any await.
LocalRefusals == Bare({"INVALID_REQUEST", "INTERNAL_ERROR"})

RefuseLocally(c, tool) ==
    /\ Arrive(c, tool, FALSE)
    /\ phase' = [phase EXCEPT ![c] = "ended"]
    /\ \E refusal \in LocalRefusals :
        /\ outcome' = [outcome EXCEPT ![c] = refusal]
        /\ CommitAndReturn(c, refusal.class, <<>>, <<refusal.class>>)

\* The same on an aborted signal.  The continuation that calls commit() is queued
\* before the one that resumes after the race, so the gate is still open when
\* commit() forwards the event; then the deadline is returned, with its own event.
RefuseLocallyAborted(c, tool) ==
    /\ Arrive(c, tool, TRUE)
    /\ phase' = [phase EXCEPT ![c] = "ended"]
    /\ \E refusal \in LocalRefusals :
        /\ outcome' = [outcome EXCEPT ![c] = refusal]
        /\ committed' = [committed EXCEPT ![c] = TRUE]
        /\ seenEvents' = [seenEvents EXCEPT
                            ![c] = @ \o <<refusal.class, "DEADLINE_EXCEEDED">>]
    /\ Return(c, "DEADLINE_EXCEEDED")
    /\ UNCHANGED <<seenReceipts, journalFailure>>

(***************************************************************************)
(* resolveArtifact settles without a usable record: it found none, an      *)
(* expired or an invalid one, threw, or found an inconsistent manifest.    *)
(***************************************************************************)
ResolveFails(c) ==
    /\ phase[c] = "resolving"
    /\ \/ /\ \E result \in Bare({"RESOURCE_UNAVAILABLE", "INTERNAL_ERROR"}) :
               Conclude(c, result, NoVersion)
          /\ UNCHANGED record
       \/ \E version \in Versions :     \* only a search reports the broken manifest
            /\ operation[c] = "artifact_search_exact"
            /\ record' = [record EXCEPT ![c] = version]
            /\ \E result \in Receipted({"INTEGRITY_FAILURE"}) : Conclude(c, result, version)
    /\ UNCHANGED <<operation, bytes, journal, entryAborted>>

\* An authorized record with a consistent manifest, refused by the operation's own
\* checks (or, for artifact_stat, answered from it).
ConcludeOnRecord(c) ==
    /\ phase[c] = "resolving"
    /\ \E version \in Versions, result \in RecordChecks(operation[c]) :
        /\ record' = [record EXCEPT ![c] = version]
        /\ Conclude(c, result, version)
    /\ UNCHANGED <<operation, bytes, journal, entryAborted>>

\* The checks pass and the one storage read of the call is issued, for the version of
\* the record; nothing asks whether the call has returned.
IssueRead(c) ==
    /\ phase[c] = "resolving"
    /\ ReadsBytes(operation[c])
    /\ \E version \in Versions : record' = [record EXCEPT ![c] = version]
    /\ phase' = [phase EXCEPT ![c] = "reading"]
    /\ UNCHANGED <<operation, bytes, outcome, gate, journal, output, journalFailure, seen,
                   entryAborted>>

\* What readVersionedRange may settle with: a failure, nothing, a result of the wrong
\* shape, or the bytes of some version under the reference of some version, all of
\* them or not.
ReadResults == [kind : {"throws", "null", "malformed"}]
                 \cup [kind : {"bytes"}, objectVersionRef : Versions, content : Versions,
                       complete : BOOLEAN]

\* Mutant: the reference is compared, the bytes are not verified.
VerifiesReferenceOnly(c, read) ==
    /\ read.objectVersionRef = record[c]
    /\ read.complete

\* Version, length and manifest (or Merkle) verification against the record.
Verifies(c, read) ==
    /\ read.objectVersionRef = record[c]
    /\ read.complete
    /\ read.content = record[c]

ReadFails(c) ==
    /\ phase[c] = "reading"
    /\ \E read \in ReadResults :
        \/ /\ read.kind \in {"throws", "malformed"}
           /\ \E result \in Receipted({"INTERNAL_ERROR"}) : Conclude(c, result, record[c])
        \/ /\ read.kind = "null"
           /\ \E result \in Bare({"RESOURCE_UNAVAILABLE"}) : Conclude(c, result, record[c])
        \/ /\ read.kind = "bytes"
           /\ ~Verifies(c, read)
           /\ \E result \in Receipted({"INTEGRITY_FAILURE"}) : Conclude(c, result, record[c])
    /\ UNCHANGED <<operation, record, bytes, journal, entryAborted>>

ReadVerified(c) ==
    /\ phase[c] = "reading"
    /\ \E read \in ReadResults :
        /\ read.kind = "bytes"
        /\ Verifies(c, read)
        /\ bytes' = [bytes EXCEPT ![c] = read.content]
    /\ \E result \in VerifiedOutcomes(operation[c]) : Conclude(c, result, record[c])
    /\ UNCHANGED <<operation, record, journal, entryAborted>>
-----------------------------------------------------------------------------
(***************************************************************************)
(* The journal, an injected adapter: it stores the receipt at some moment  *)
(* of the append, and answers at some later one, or fails before or after  *)
(* having stored it.                                                       *)
(***************************************************************************)
Store(c) ==
    /\ phase[c] = "appending"
    /\ journal' = journal \cup {ReceiptOf(c, outcome[c].class, record[c])}
    /\ journal' # journal
    /\ UNCHANGED <<phase, operation, record, bytes, outcome, gate, output, journalFailure, seen,
                   entryAborted>>

\* Mutant: commit() does not look at the gate after the append.
AcknowledgeLate(c) ==
    /\ phase[c] = "appending"
    /\ ReceiptOf(c, outcome[c].class, record[c]) \in journal
    /\ phase' = [phase EXCEPT ![c] = "ended"]
    /\ CommitAndReturn(c, outcome[c].class, receipts[c], events[c])
    /\ UNCHANGED <<operation, record, bytes, outcome, journal, entryAborted>>

\* An acknowledgement with the digest of the receipt, in time or late.
Acknowledge(c) ==
    /\ phase[c] = "appending"
    /\ ReceiptOf(c, outcome[c].class, record[c]) \in journal
    /\ phase' = [phase EXCEPT ![c] = "ended"]
    /\ \/ /\ open[c]
          /\ CommitAndReturn(c, outcome[c].class, receipts[c], events[c])
       \/ /\ ~open[c]
          /\ UNCHANGED <<gate, output, journalFailure, seen>>
    /\ UNCHANGED <<operation, record, bytes, outcome, journal, entryAborted>>

\* Mutant: the journal is best effort, its failure is ignored.
AppendFailsIgnored(c) ==
    /\ phase[c] = "appending"
    /\ open[c]
    /\ phase' = [phase EXCEPT ![c] = "ended"]
    /\ CommitAndReturn(c, outcome[c].class, receipts[c], events[c])
    /\ UNCHANGED <<operation, record, bytes, outcome, journal, entryAborted>>

\* Mutant: the buffered receipt is forwarded although the append failed.
AppendFailsForwarding(c) ==
    /\ phase[c] = "appending"
    /\ open[c]
    /\ phase' = [phase EXCEPT ![c] = "ended"]
    /\ journalFailure' = [journalFailure EXCEPT ![c] = TRUE]
    /\ seenReceipts' = [seenReceipts EXCEPT ![c] = receipts[c]]
    /\ seenEvents' = [seenEvents EXCEPT ![c] = Append(@, "INTERNAL_ERROR")]
    /\ Return(c, "INTERNAL_ERROR")
    /\ UNCHANGED <<committed, operation, record, bytes, outcome, journal, entryAborted>>

\* No acknowledgement, a malformed one, or one with another digest.
AppendFails(c) ==
    /\ phase[c] = "appending"
    /\ phase' = [phase EXCEPT ![c] = "ended"]
    /\ \/ /\ open[c]
          /\ journalFailure' = [journalFailure EXCEPT ![c] = TRUE]
          /\ seenEvents' = [seenEvents EXCEPT ![c] = Append(@, "INTERNAL_ERROR")]
          /\ Return(c, "INTERNAL_ERROR")
          /\ UNCHANGED <<committed, seenReceipts>>
       \/ /\ ~open[c]
          /\ UNCHANGED <<gate, output, journalFailure, seen>>
    /\ UNCHANGED <<operation, record, bytes, outcome, journal, entryAborted>>

\* Mutant: the deadline does not cover the append.
DeadlineBeforeAppend(c) ==
    /\ open[c]
    /\ phase[c] # "appending"
    /\ ReturnDeadline(c)
    /\ UNCHANGED <<phase, operation, record, bytes, outcome, journal, entryAborted>>

\* The 2,000 ms timer fires or the request is cancelled while the call is open.
Deadline(c) ==
    /\ open[c]
    /\ ReturnDeadline(c)
    /\ UNCHANGED <<phase, operation, record, bytes, outcome, journal, entryAborted>>

Next ==
    \/ \E c \in Calls, tool \in Operations : Start(c, tool)
    \/ \E c \in Calls, tool \in Operations : StartAborted(c, tool)
    \/ \E c \in Calls, tool \in Operations : RefuseLocally(c, tool)
    \/ \E c \in Calls, tool \in Operations : RefuseLocallyAborted(c, tool)
    \/ \E c \in Calls : ResolveFails(c)
    \/ \E c \in Calls : ConcludeOnRecord(c)
    \/ \E c \in Calls : IssueRead(c)
    \/ \E c \in Calls : ReadFails(c)
    \/ \E c \in Calls : ReadVerified(c)
    \/ \E c \in Calls : Store(c)
    \/ \E c \in Calls : Acknowledge(c)
    \/ \E c \in Calls : AppendFails(c)
    \/ \E c \in Calls : Deadline(c)

Spec == Init /\ [][Next]_vars

\* Only the timer of the race is fair: an adapter may never settle.
Fairness == \A c \in Calls : WF_vars(Deadline(c))

FairSpec == Spec /\ Fairness
-----------------------------------------------------------------------------
(***************************************************************************)
(* Properties.                                                             *)
(***************************************************************************)
MyReceipt(c) == ReceiptOf(c, outcome[c].class, record[c])

\* The variables hold values of their kinds.
TypeOK ==
    /\ phase \in [Calls -> {"idle", "resolving", "reading", "appending", "ended"}]
    /\ operation \in [Calls -> Operations]
    /\ record \in [Calls -> Versions \cup {NoVersion}]
    /\ bytes \in [Calls -> Versions \cup {NoVersion}]
    /\ outcome \in [Calls -> Outcomes]
    /\ open \in [Calls -> BOOLEAN]
    /\ committed \in [Calls -> BOOLEAN]
    /\ receipts \in [Calls -> Seq(Receipts)]
    /\ events \in [Calls -> Seq(Classes)]
    /\ journal \in SUBSET Receipts
    /\ output \in [Calls -> Classes \cup {"none"}]
    /\ journalFailure \in [Calls -> BOOLEAN]
    /\ seenReceipts \in [Calls -> Seq(Receipts)]
    /\ seenEvents \in [Calls -> Seq(Classes)]
    /\ entryAborted \in [Calls -> BOOLEAN]

\* An inspection that issued a receipt returns its own answer, success or error, only
\* after the journal holds that very receipt, of that class and of the version the
\* resolver authorized (commit() before `return operationOutput`).
EvidenceBeforeReturn ==
    \A c \in Calls :
        /\ output[c] \notin {"none", "DEADLINE_EXCEEDED"}
        /\ outcome[c].receipt
        /\ ~journalFailure[c]
        => /\ output[c] = outcome[c].class
           /\ MyReceipt(c) \in journal

\* A success that carries source bytes carries the bytes of the version its journaled
\* receipt names, whatever the storage adapter returned (failClosed, exact-version and
\* manifest verification).
SuccessIsSourceBound ==
    \A c \in Calls : output[c] = "success" =>
        /\ \E r \in journal : r = [call |-> c, class |-> "success", version |-> record[c]]
        /\ ReadsBytes(operation[c]) => bytes[c] = record[c]

\* Observers are given the receipt of a call once, only when the journal holds it and
\* the call returned what it attests; after a timeout, an abort or a journal failure
\* they are given none.
ObserversSeeAnsweredReceipts ==
    \A c \in Calls : seenReceipts[c] # <<>> =>
        /\ seenReceipts[c] = <<MyReceipt(c)>>
        /\ MyReceipt(c) \in journal
        /\ output[c] = outcome[c].class
        /\ ~journalFailure[c]

\* The journal holds at most one receipt per call, and one that no observer saw and no
\* answer attests only if the call is still open, timed out, was aborted, or was told
\* that the append failed (no retry; late journal success).
AtMostOneReceipt ==
    \A r \in journal :
        /\ r = MyReceipt(r.call)
        /\ \/ seenReceipts[r.call] = <<r>>
           \/ open[r.call]
           \/ output[r.call] = "DEADLINE_EXCEEDED"
           \/ journalFailure[r.call]

\* When a call has returned, the last event the observers got says what it returned,
\* and it is the only one unless the call was cancelled before its handler ran.
EventMatchesAnswer ==
    \A c \in Calls :
        /\ output[c] # "none" <=> seenEvents[c] # <<>>
        /\ output[c] # "none" =>
              /\ seenEvents[c][Len(seenEvents[c])] = output[c]
              /\ Len(seenEvents[c]) = 1 \/ entryAborted[c]

\* Once a call has returned, its answer stands, the observers learn nothing more of it,
\* and no append of its receipt begins (the closed gate; commit() throws).
ReturnIsFinal ==
    [][\A c \in Calls : output[c] # "none" =>
         /\ output'[c] = output[c]
         /\ seenReceipts'[c] = seenReceipts[c]
         /\ seenEvents'[c] = seenEvents[c]
         /\ phase'[c] = "appending" => phase[c] = "appending"
      ]_vars

\* docs/evidence/ISSUE_34_S5_EXACT_SEARCH_RECEIPT_JOURNAL.md, lines 77-78: a timeout or
\* an abort emits only the registration-level deadline event.
AbortEmitsOnlyDeadline ==
    \A c \in Calls :
        output[c] = "DEADLINE_EXCEEDED" => seenEvents[c] = <<"DEADLINE_EXCEEDED">>

\* Every call that starts is answered, whatever the adapters do (the deadline of
\* executeArtifactOperationWithDeadline).
CallsAreAnswered ==
    \A c \in Calls : phase[c] # "idle" ~> output[c] # "none"

\* A call that reads bytes or appends a receipt does so for an established version, and
\* only the operations that need bytes read them.
VersionEstablished ==
    \A c \in Calls :
        /\ phase[c] \in {"reading", "appending"} => record[c] \in Versions
        /\ phase[c] = "reading" => ReadsBytes(operation[c])

\* An inspection concludes once; a success has a receipt and, unless it is a stat, the
\* bytes of the version of the record.
SourceInv ==
    \A c \in Calls :
        /\ phase[c] \in {"idle", "resolving", "reading"} => outcome[c] = Pending
        /\ outcome[c].class = "success" =>
              outcome[c].receipt /\ (ReadsBytes(operation[c]) => bytes[c] = record[c])

\* A gate is open exactly while its call runs unanswered; it buffers the receipt only
\* while the append is under way, and forwards nothing before it closes.
GateInv ==
    \A c \in Calls :
        /\ open[c] <=> (phase[c] # "idle" /\ output[c] = "none")
        /\ phase[c] = "idle" => output[c] = "none"
        /\ open[c] => phase[c] # "ended"
        /\ output[c] = "none" => ~journalFailure[c] /\ seenReceipts[c] = <<>>
        /\ receipts[c] = IF open[c] /\ phase[c] = "appending" THEN <<MyReceipt(c)>> ELSE <<>>

\* The journal holds receipts of calls that reached their append, and no other.
JournalInv ==
    /\ \A c \in Calls : phase[c] = "appending" => outcome[c].receipt
    /\ \A r \in journal : /\ r = MyReceipt(r.call)
                          /\ phase[r.call] \in {"appending", "ended"}
                          /\ outcome[r.call].receipt

\* A call that answered for its inspection concluded it, with a journaled and forwarded
\* receipt if it issued one; a call that gave up forwarded none.
AnswerInv ==
    \A c \in Calls :
        /\ outcome[c].class # "DEADLINE_EXCEEDED"
        /\ output[c] = "DEADLINE_EXCEEDED" \/ journalFailure[c] => seenReceipts[c] = <<>>
        /\ journalFailure[c] => output[c] = "INTERNAL_ERROR" /\ phase[c] = "ended"
        /\ output[c] \notin {"none", "DEADLINE_EXCEEDED"} /\ ~journalFailure[c] =>
             /\ phase[c] = "ended"
             /\ output[c] = outcome[c].class
             /\ IF outcome[c].receipt
                  THEN MyReceipt(c) \in journal /\ seenReceipts[c] = <<MyReceipt(c)>>
                  ELSE seenReceipts[c] = <<>>

\* The five together: inductive with TypeOK, and enough for the evidence properties.
EvidenceInv == VersionEstablished /\ SourceInv /\ GateInv /\ JournalInv /\ AnswerInv

(***************************************************************************)
(* The promise of EvidencedAnswers.                                        *)
(***************************************************************************)
Answer(c) ==
    IF output[c] = "none" THEN "none"
    ELSE IF output[c] = "DEADLINE_EXCEEDED" \/ journalFailure[c] THEN "given up"
    ELSE IF outcome[c].receipt THEN "evidenced"
    ELSE "unevidenced"

Evidence == INSTANCE EvidencedAnswers WITH
    answer   <- [c \in Calls |-> Answer(c)],
    durable  <- {c \in Calls : \E r \in journal : r.call = c},
    observed <- {c \in Calls : seenReceipts[c] # <<>>}

\* The registration keeps the evidence promise: every step of it is a step of
\* EvidencedAnswers or leaves the evidence alone.
KeepsEvidencePromise == Evidence!EvidenceSpec
=============================================================================
