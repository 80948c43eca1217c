---------------------- MODULE ArtifactInspectionProofs ----------------------
(***************************************************************************)
(* Theorems about registered artifact operations, for every number of      *)
(* concurrent calls and every set of object versions.                      *)
(***************************************************************************)
EXTENDS ArtifactInspection, TLAPS

-----------------------------------------------------------------------------
(***************************************************************************)
(* Type correctness.                                                       *)
(***************************************************************************)

\* The conclusions of an operation are outcomes, and none is a deadline: only the
\* registration produces one.
LEMMA OutcomeTypes ==
    /\ \A classes \in SUBSET Classes : Bare(classes) \subseteq Outcomes
    /\ \A classes \in SUBSET Classes : Receipted(classes) \subseteq Outcomes
    /\ \A tool \in Operations : RecordChecks(tool) \subseteq Receipted(Classes \ {"DEADLINE_EXCEEDED"})
    /\ \A tool \in Operations : ReadsBytes(tool) =>
          VerifiedOutcomes(tool) \subseteq [class : Classes \ {"DEADLINE_EXCEEDED"}, receipt : BOOLEAN]
    /\ LocalRefusals \subseteq Bare(Classes \ {"DEADLINE_EXCEEDED"})
<1>1. \A classes \in SUBSET Classes : Bare(classes) \subseteq Outcomes
  BY DEF Bare, Outcomes
<1>2. \A classes \in SUBSET Classes : Receipted(classes) \subseteq Outcomes
  BY DEF Receipted, Outcomes
<1>3. ASSUME NEW tool \in Operations
      PROVE  RecordChecks(tool) \subseteq Receipted(Classes \ {"DEADLINE_EXCEEDED"})
  BY DEF Operations, RecordChecks, artifactStat, RangeChecks, LinesChecks, HeadingChecks,
         SearchChecks, Receipted, Classes, Errors
<1>4. ASSUME NEW tool \in Operations, ReadsBytes(tool)
      PROVE  VerifiedOutcomes(tool)
               \subseteq [class : Classes \ {"DEADLINE_EXCEEDED"}, receipt : BOOLEAN]
  BY <1>4 DEF Operations, ReadsBytes, VerifiedOutcomes, artifactReadRange, artifactReadLines,
         artifactReadHeading, artifactSearchExact, Receipted, Bare, Classes, Errors
<1>5. LocalRefusals \subseteq Bare(Classes \ {"DEADLINE_EXCEEDED"})
  BY DEF LocalRefusals, Bare, Classes, Errors
<1>6. QED
  BY <1>1, <1>2, <1>3, <1>4, <1>5

\* Closing the gate and returning keep the types.
LEMMA ReturnType ==
    ASSUME TypeOK, NEW c \in Calls, NEW class \in Classes, Return(c, class)
    PROVE  /\ open' \in [Calls -> BOOLEAN]
           /\ receipts' \in [Calls -> Seq(Receipts)]
           /\ events' \in [Calls -> Seq(Classes)]
           /\ output' \in [Calls -> Classes \cup {"none"}]
<1>1. <<>> \in Seq(Receipts) /\ <<>> \in Seq(Classes)
  OBVIOUS
<1>2. open' \in [Calls -> BOOLEAN]
  BY DEF TypeOK, Return, close
<1>3. receipts' \in [Calls -> Seq(Receipts)] /\ events' \in [Calls -> Seq(Classes)]
  BY <1>1 DEF TypeOK, Return, close
<1>4. output' \in [Calls -> Classes \cup {"none"}]
  BY DEF TypeOK, Return
<1>5. QED
  BY <1>2, <1>3, <1>4

\* What the deadline does to a call is well-typed.
LEMMA DeadlineType ==
    ASSUME TypeOK, NEW c \in Calls, ReturnDeadline(c)
    PROVE  /\ open' \in [Calls -> BOOLEAN]
           /\ committed' \in [Calls -> BOOLEAN]
           /\ receipts' \in [Calls -> Seq(Receipts)]
           /\ events' \in [Calls -> Seq(Classes)]
           /\ output' \in [Calls -> Classes \cup {"none"}]
           /\ journalFailure' \in [Calls -> BOOLEAN]
           /\ seenReceipts' \in [Calls -> Seq(Receipts)]
           /\ seenEvents' \in [Calls -> Seq(Classes)]
<1>1. "DEADLINE_EXCEEDED" \in Classes
  BY DEF Classes, Errors
<1>2. Return(c, "DEADLINE_EXCEEDED")
  BY DEF ReturnDeadline
<1>3. seenEvents[c] \in Seq(Classes)
  BY DEF TypeOK
<1>4. Append(seenEvents[c], "DEADLINE_EXCEEDED") \in Seq(Classes)
  BY <1>1, <1>3
<1>5. seenEvents' \in [Calls -> Seq(Classes)]
  BY <1>4 DEF TypeOK, ReturnDeadline
<1>6. committed' \in [Calls -> BOOLEAN] /\ journalFailure' \in [Calls -> BOOLEAN]
      /\ seenReceipts' \in [Calls -> Seq(Receipts)]
  BY DEF TypeOK, ReturnDeadline
<1>7. QED
  BY <1>1, <1>2, <1>5, <1>6, ReturnType

\* What commit() forwards is well-typed.
LEMMA CommitType ==
    ASSUME TypeOK, NEW c \in Calls, NEW class \in Classes, NEW rs \in Seq(Receipts),
           NEW es \in Seq(Classes), CommitAndReturn(c, class, rs, es)
    PROVE  /\ open' \in [Calls -> BOOLEAN]
           /\ committed' \in [Calls -> BOOLEAN]
           /\ receipts' \in [Calls -> Seq(Receipts)]
           /\ events' \in [Calls -> Seq(Classes)]
           /\ output' \in [Calls -> Classes \cup {"none"}]
           /\ journalFailure' \in [Calls -> BOOLEAN]
           /\ seenReceipts' \in [Calls -> Seq(Receipts)]
           /\ seenEvents' \in [Calls -> Seq(Classes)]
<1>1. Return(c, class)
  BY DEF CommitAndReturn
<1>2. seenEvents[c] \o es \in Seq(Classes) /\ seenReceipts[c] \o rs \in Seq(Receipts)
  BY DEF TypeOK
<1>3. seenEvents' \in [Calls -> Seq(Classes)]
  BY <1>2 DEF TypeOK, CommitAndReturn
<1>4. seenReceipts' \in [Calls -> Seq(Receipts)]
  BY <1>2 DEF TypeOK, CommitAndReturn
<1>5. committed' \in [Calls -> BOOLEAN] /\ journalFailure' \in [Calls -> BOOLEAN]
  BY DEF TypeOK, CommitAndReturn
<1>6. QED
  BY <1>1, <1>3, <1>4, <1>5, ReturnType

\* What the end of an inspection does is well-typed.
LEMMA ConcludeType ==
    ASSUME TypeOK, NEW c \in Calls, NEW result \in Outcomes, NEW version,
           result.receipt => version \in Versions, Conclude(c, result, version)
    PROVE  /\ phase' \in [Calls -> {"idle", "resolving", "reading", "appending", "ended"}]
           /\ outcome' \in [Calls -> Outcomes]
           /\ open' \in [Calls -> BOOLEAN]
           /\ committed' \in [Calls -> BOOLEAN]
           /\ receipts' \in [Calls -> Seq(Receipts)]
           /\ events' \in [Calls -> Seq(Classes)]
           /\ output' \in [Calls -> Classes \cup {"none"}]
           /\ journalFailure' \in [Calls -> BOOLEAN]
           /\ seenReceipts' \in [Calls -> Seq(Receipts)]
           /\ seenEvents' \in [Calls -> Seq(Classes)]
<1>1. outcome' \in [Calls -> Outcomes]
  BY DEF TypeOK, Conclude
<1>2. phase' \in [Calls -> {"idle", "resolving", "reading", "appending", "ended"}]
  BY DEF TypeOK, Conclude
<1>3. result.class \in Classes /\ result.receipt \in BOOLEAN
  BY DEF Outcomes
<1>4. CASE ~open[c]
  BY <1>1, <1>2, <1>4 DEF Conclude, TypeOK, gate, seen
<1>5. CASE open[c] /\ result.receipt
  <2>1. ReceiptOf(c, result.class, version) \in Receipts
    BY <1>3, <1>5 DEF ReceiptOf, Receipts
  <2>2. /\ receipts[c] \in Seq(Receipts) /\ events[c] \in Seq(Classes)
        /\ Append(receipts[c], ReceiptOf(c, result.class, version)) \in Seq(Receipts)
        /\ Append(events[c], result.class) \in Seq(Classes)
    BY <1>3, <2>1 DEF TypeOK
  <2>3. /\ receipts' = [receipts EXCEPT ![c] = Append(@, ReceiptOf(c, result.class, version))]
        /\ events' = [events EXCEPT ![c] = Append(@, result.class)]
        /\ UNCHANGED <<open, committed, output, journalFailure, seen>>
    BY <1>5 DEF Conclude
  <2>4. receipts' \in [Calls -> Seq(Receipts)]
    BY <2>2, <2>3 DEF TypeOK
  <2>5. events' \in [Calls -> Seq(Classes)]
    BY <2>2, <2>3 DEF TypeOK
  <2>6. QED
    BY <1>1, <1>2, <2>3, <2>4, <2>5 DEF TypeOK, seen
<1>6. CASE open[c] /\ ~result.receipt
  <2>1. CommitAndReturn(c, result.class, <<>>, <<result.class>>)
    BY <1>6 DEF Conclude
  <2>2. <<>> \in Seq(Receipts) /\ <<result.class>> \in Seq(Classes)
    BY <1>3
  <2>3. QED
    BY <1>1, <1>2, <1>3, <2>1, <2>2, CommitType
<1>7. QED
  BY <1>3, <1>4, <1>5, <1>6

\* Types need to know that bytes are read, and receipts appended, for a version.
LEMMA TypeStep ==
    ASSUME TypeOK, VersionEstablished, [Next]_vars
    PROVE  TypeOK'
<1>0. ASSUME NEW c \in Calls, NEW tool \in Operations, NEW aborted \in BOOLEAN,
             Arrive(c, tool, aborted)
      PROVE  /\ operation' \in [Calls -> Operations]
             /\ entryAborted' \in [Calls -> BOOLEAN]
             /\ record' \in [Calls -> Versions \cup {NoVersion}]
             /\ bytes' \in [Calls -> Versions \cup {NoVersion}]
             /\ journal' \in SUBSET Receipts
  BY <1>0 DEF Arrive, TypeOK
<1>1. ASSUME NEW c \in Calls, NEW tool \in Operations, Start(c, tool)
      PROVE  TypeOK'
  <2>1. Arrive(c, tool, FALSE)
    BY <1>1 DEF Start
  <2>2. phase' \in [Calls -> {"idle", "resolving", "reading", "appending", "ended"}]
        /\ open' \in [Calls -> BOOLEAN]
    BY <1>1 DEF Start, TypeOK
  <2>3. QED
    BY <1>0, <1>1, <2>1, <2>2 DEF Start, TypeOK, seen
<1>2. ASSUME NEW c \in Calls, NEW tool \in Operations, StartAborted(c, tool)
      PROVE  TypeOK'
  <2>1. Arrive(c, tool, TRUE) /\ ReturnDeadline(c)
    BY <1>2 DEF StartAborted
  <2>2. phase' \in [Calls -> {"idle", "resolving", "reading", "appending", "ended"}]
    BY <1>2 DEF StartAborted, TypeOK
  <2>3. outcome' \in [Calls -> Outcomes]
    BY <1>2 DEF StartAborted, TypeOK
  <2>4. QED
    BY <1>0, <2>1, <2>2, <2>3, DeadlineType DEF TypeOK
<1>3. ASSUME NEW c \in Calls, NEW tool \in Operations, RefuseLocally(c, tool)
      PROVE  TypeOK'
  <2>1. Arrive(c, tool, FALSE)
    BY <1>3 DEF RefuseLocally
  <2>2. PICK refusal \in LocalRefusals :
           /\ outcome' = [outcome EXCEPT ![c] = refusal]
           /\ CommitAndReturn(c, refusal.class, <<>>, <<refusal.class>>)
    BY <1>3 DEF RefuseLocally
  <2>3. refusal \in Outcomes /\ refusal.class \in Classes
    BY OutcomeTypes DEF LocalRefusals, Bare, Outcomes, Classes, Errors
  <2>4. <<>> \in Seq(Receipts) /\ <<refusal.class>> \in Seq(Classes)
    BY <2>3
  <2>5. phase' \in [Calls -> {"idle", "resolving", "reading", "appending", "ended"}]
        /\ outcome' \in [Calls -> Outcomes]
    BY <1>3, <2>2, <2>3 DEF RefuseLocally, TypeOK
  <2>6. QED
    BY <1>0, <2>1, <2>2, <2>3, <2>4, <2>5, CommitType DEF TypeOK
<1>4. ASSUME NEW c \in Calls, NEW tool \in Operations, RefuseLocallyAborted(c, tool)
      PROVE  TypeOK'
  <2>1. Arrive(c, tool, TRUE) /\ Return(c, "DEADLINE_EXCEEDED")
    BY <1>4 DEF RefuseLocallyAborted
  <2>2. PICK refusal \in LocalRefusals :
           /\ outcome' = [outcome EXCEPT ![c] = refusal]
           /\ committed' = [committed EXCEPT ![c] = TRUE]
           /\ seenEvents' = [seenEvents EXCEPT
                               ![c] = @ \o <<refusal.class, "DEADLINE_EXCEEDED">>]
    BY <1>4 DEF RefuseLocallyAborted
  <2>3. refusal \in Outcomes /\ refusal.class \in Classes
    BY OutcomeTypes DEF LocalRefusals, Bare, Outcomes, Classes, Errors
  <2>4. "DEADLINE_EXCEEDED" \in Classes
    BY DEF Classes, Errors
  <2>5. seenEvents[c] \o <<refusal.class, "DEADLINE_EXCEEDED">> \in Seq(Classes)
    BY <2>3, <2>4 DEF TypeOK
  <2>6. seenEvents' \in [Calls -> Seq(Classes)]
    BY <2>2, <2>5 DEF TypeOK
  <2>7. phase' \in [Calls -> {"idle", "resolving", "reading", "appending", "ended"}]
        /\ outcome' \in [Calls -> Outcomes]
    BY <1>4, <2>2, <2>3 DEF RefuseLocallyAborted, TypeOK
  <2>8. committed' \in [Calls -> BOOLEAN] /\ journalFailure' \in [Calls -> BOOLEAN]
        /\ seenReceipts' \in [Calls -> Seq(Receipts)]
    BY <1>4, <2>2 DEF RefuseLocallyAborted, TypeOK
  <2>9. QED
    BY <1>0, <2>1, <2>4, <2>6, <2>7, <2>8, ReturnType DEF TypeOK
<1>5. ASSUME NEW c \in Calls, NEW result \in Outcomes, NEW version,
             result.receipt => version \in Versions, Conclude(c, result, version),
             record' \in [Calls -> Versions \cup {NoVersion}],
             bytes' \in [Calls -> Versions \cup {NoVersion}],
             UNCHANGED <<operation, journal, entryAborted>>
      PROVE  TypeOK'
  BY <1>5, ConcludeType DEF TypeOK
<1>6. ASSUME NEW c \in Calls, ResolveFails(c)
      PROVE  TypeOK'
  <2>1. CASE record' = record
             /\ \E result \in Bare({"RESOURCE_UNAVAILABLE", "INTERNAL_ERROR"}) :
                  Conclude(c, result, NoVersion)
    <3>1. PICK result \in Bare({"RESOURCE_UNAVAILABLE", "INTERNAL_ERROR"}) :
             Conclude(c, result, NoVersion)
      BY <2>1
    <3>2. result \in Outcomes /\ ~result.receipt
      BY DEF Bare, Outcomes, Classes, Errors
    <3>3. QED
      BY <1>5, <1>6, <2>1, <3>1, <3>2 DEF ResolveFails, TypeOK
  <2>2. CASE \E version \in Versions :
               /\ record' = [record EXCEPT ![c] = version]
               /\ \E result \in Receipted({"INTEGRITY_FAILURE"}) : Conclude(c, result, version)
    <3>1. PICK version \in Versions, result \in Receipted({"INTEGRITY_FAILURE"}) :
             record' = [record EXCEPT ![c] = version] /\ Conclude(c, result, version)
      BY <2>2
    <3>2. result \in Outcomes
      BY DEF Receipted, Outcomes, Classes, Errors
    <3>3. record' \in [Calls -> Versions \cup {NoVersion}]
      BY <3>1 DEF TypeOK
    <3>4. QED
      BY <1>5, <1>6, <3>1, <3>2, <3>3 DEF ResolveFails, TypeOK
  <2>3. QED
    BY <1>6, <2>1, <2>2 DEF ResolveFails
<1>7. ASSUME NEW c \in Calls, ConcludeOnRecord(c)
      PROVE  TypeOK'
  <2>1. PICK version \in Versions, result \in RecordChecks(operation[c]) :
           record' = [record EXCEPT ![c] = version] /\ Conclude(c, result, version)
    BY <1>7 DEF ConcludeOnRecord
  <2>2. result \in Outcomes
    <3>1. operation[c] \in Operations
      BY DEF TypeOK
    <3>2. result \in Receipted(Classes \ {"DEADLINE_EXCEEDED"})
      BY <3>1, OutcomeTypes
    <3>3. QED
      BY <3>2 DEF Receipted, Outcomes
  <2>3. record' \in [Calls -> Versions \cup {NoVersion}]
    BY <2>1 DEF TypeOK
  <2>4. QED
    BY <1>5, <1>7, <2>1, <2>2, <2>3 DEF ConcludeOnRecord, TypeOK
<1>8. ASSUME NEW c \in Calls, IssueRead(c)
      PROVE  TypeOK'
  <2>1. record' \in [Calls -> Versions \cup {NoVersion}]
    BY <1>8 DEF IssueRead, TypeOK
  <2>2. phase' \in [Calls -> {"idle", "resolving", "reading", "appending", "ended"}]
    BY <1>8 DEF IssueRead, TypeOK
  <2>3. QED
    BY <1>8, <2>1, <2>2 DEF IssueRead, TypeOK, gate, seen
<1>9. ASSUME NEW c \in Calls, ReadFails(c)
      PROVE  TypeOK'
  <2>0. record[c] \in Versions
    BY <1>9 DEF ReadFails, VersionEstablished
  <2>1. PICK result \in Receipted({"INTERNAL_ERROR", "INTEGRITY_FAILURE"})
                           \cup Bare({"RESOURCE_UNAVAILABLE"}) : Conclude(c, result, record[c])
    BY <1>9 DEF ReadFails, Receipted, Bare
  <2>2. result \in Outcomes
    BY DEF Receipted, Bare, Outcomes, Classes, Errors
  <2>3. QED
    BY <1>5, <1>9, <2>0, <2>1, <2>2 DEF ReadFails, TypeOK
<1>10. ASSUME NEW c \in Calls, ReadVerified(c)
       PROVE  TypeOK'
  <2>1. record[c] \in Versions /\ operation[c] \in Operations
    BY <1>10 DEF ReadVerified, VersionEstablished, TypeOK
  <2>2. PICK read \in ReadResults : bytes' = [bytes EXCEPT ![c] = read.content]
                                   /\ read.content = record[c]
    BY <1>10 DEF ReadVerified, Verifies
  <2>3. bytes' \in [Calls -> Versions \cup {NoVersion}]
    BY <2>1, <2>2 DEF TypeOK
  <2>4. PICK result \in VerifiedOutcomes(operation[c]) : Conclude(c, result, record[c])
    BY <1>10 DEF ReadVerified
  <2>5. ReadsBytes(operation[c])
    BY <1>10 DEF ReadVerified, VersionEstablished
  <2>6. result \in Outcomes
    BY <2>1, <2>5, OutcomeTypes DEF Outcomes
  <2>7. QED
    BY <1>5, <1>10, <2>1, <2>3, <2>4, <2>6 DEF ReadVerified, TypeOK
<1>11. ASSUME NEW c \in Calls, Store(c)
       PROVE  TypeOK'
  <2>1. record[c] \in Versions /\ outcome[c].class \in Classes
    BY <1>11 DEF Store, VersionEstablished, TypeOK, Outcomes
  <2>2. ReceiptOf(c, outcome[c].class, record[c]) \in Receipts
    BY <2>1 DEF ReceiptOf, Receipts
  <2>3. journal' \in SUBSET Receipts
    BY <1>11, <2>2 DEF Store, TypeOK
  <2>4. QED
    BY <1>11, <2>3 DEF Store, TypeOK, gate, seen
<1>12. ASSUME NEW c \in Calls, Acknowledge(c)
       PROVE  TypeOK'
  <2>1. phase' \in [Calls -> {"idle", "resolving", "reading", "appending", "ended"}]
    BY <1>12 DEF Acknowledge, TypeOK
  <2>2. outcome[c].class \in Classes /\ receipts[c] \in Seq(Receipts) /\ events[c] \in Seq(Classes)
    BY DEF TypeOK, Outcomes
  <2>3. CASE CommitAndReturn(c, outcome[c].class, receipts[c], events[c])
    BY <1>12, <2>1, <2>2, <2>3, CommitType DEF Acknowledge, TypeOK
  <2>4. CASE UNCHANGED <<gate, output, journalFailure, seen>>
    BY <1>12, <2>1, <2>4 DEF Acknowledge, TypeOK, gate, seen
  <2>5. QED
    BY <1>12, <2>3, <2>4 DEF Acknowledge
<1>13. ASSUME NEW c \in Calls, AppendFails(c)
       PROVE  TypeOK'
  <2>1. phase' \in [Calls -> {"idle", "resolving", "reading", "appending", "ended"}]
    BY <1>13 DEF AppendFails, TypeOK
  <2>2. CASE Return(c, "INTERNAL_ERROR") /\ UNCHANGED <<committed, seenReceipts>>
             /\ journalFailure' = [journalFailure EXCEPT ![c] = TRUE]
             /\ seenEvents' = [seenEvents EXCEPT ![c] = Append(@, "INTERNAL_ERROR")]
    <3>1. "INTERNAL_ERROR" \in Classes
      BY DEF Classes, Errors
    <3>2. Append(seenEvents[c], "INTERNAL_ERROR") \in Seq(Classes)
      BY <3>1 DEF TypeOK
    <3>3. seenEvents' \in [Calls -> Seq(Classes)]
      BY <2>2, <3>2 DEF TypeOK
    <3>4. journalFailure' \in [Calls -> BOOLEAN]
      BY <2>2 DEF TypeOK
    <3>5. QED
      BY <1>13, <2>1, <2>2, <3>1, <3>3, <3>4, ReturnType DEF AppendFails, TypeOK
  <2>3. CASE UNCHANGED <<gate, output, journalFailure, seen>>
    BY <1>13, <2>1, <2>3 DEF AppendFails, TypeOK, gate, seen
  <2>4. QED
    BY <1>13, <2>2, <2>3 DEF AppendFails
<1>14. ASSUME NEW c \in Calls, Deadline(c)
       PROVE  TypeOK'
  BY <1>14, DeadlineType DEF Deadline, TypeOK
<1>15. CASE UNCHANGED vars
  BY <1>15 DEF TypeOK, vars, gate, seen
<1>16. QED
  BY <1>1, <1>2, <1>3, <1>4, <1>6, <1>7, <1>8, <1>9, <1>10, <1>11, <1>12, <1>13, <1>14, <1>15
  DEF Next

-----------------------------------------------------------------------------
(***************************************************************************)
(* The evidence invariant, call by call.  A step is a step of one call; it *)
(* leaves the state of the others alone, and adds to the journal at most a *)
(* receipt of its own.                                                     *)
(***************************************************************************)

\* The parts of the invariant that speak of one call.
CallInv(c) ==
    /\ phase[c] \in {"reading", "appending"} => record[c] \in Versions
    /\ phase[c] = "reading" => ReadsBytes(operation[c])
    /\ phase[c] \in {"idle", "resolving", "reading"} => outcome[c] = Pending
    /\ outcome[c].class = "success" =>
          outcome[c].receipt /\ (ReadsBytes(operation[c]) => bytes[c] = record[c])
    /\ open[c] <=> (phase[c] # "idle" /\ output[c] = "none")
    /\ phase[c] = "idle" => output[c] = "none"
    /\ open[c] => phase[c] # "ended"
    /\ output[c] = "none" => ~journalFailure[c] /\ seenReceipts[c] = <<>>
    /\ receipts[c] = IF open[c] /\ phase[c] = "appending" THEN <<MyReceipt(c)>> ELSE <<>>
    /\ phase[c] = "appending" => outcome[c].receipt
    /\ outcome[c].class # "DEADLINE_EXCEEDED"
    /\ output[c] = "DEADLINE_EXCEEDED" \/ journalFailure[c] => seenReceipts[c] = <<>>
    /\ journalFailure[c] => output[c] = "INTERNAL_ERROR" /\ phase[c] = "ended"
    /\ output[c] \notin {"none", "DEADLINE_EXCEEDED"} /\ ~journalFailure[c] =>
         /\ phase[c] = "ended"
         /\ output[c] = outcome[c].class
         /\ IF outcome[c].receipt
              THEN MyReceipt(c) \in journal /\ seenReceipts[c] = <<MyReceipt(c)>>
              ELSE seenReceipts[c] = <<>>

\* What the journal holds of one call.
JournalAt(c) ==
    \A r \in journal : r.call = c => /\ r = MyReceipt(c)
                                    /\ phase[c] \in {"appending", "ended"}
                                    /\ outcome[c].receipt

\* The state of call d is left alone.
Same(d) ==
    /\ phase'[d] = phase[d]
    /\ operation'[d] = operation[d]
    /\ record'[d] = record[d]
    /\ bytes'[d] = bytes[d]
    /\ outcome'[d] = outcome[d]
    /\ open'[d] = open[d]
    /\ receipts'[d] = receipts[d]
    /\ output'[d] = output[d]
    /\ journalFailure'[d] = journalFailure[d]
    /\ seenReceipts'[d] = seenReceipts[d]
    /\ seenEvents'[d] = seenEvents[d]

\* A call that has returned keeps its answer, and its conclusion unless it gave up.
Final(c) ==
    output[c] # "none" =>
        /\ output'[c] = output[c]
        /\ journalFailure'[c] = journalFailure[c]
        /\ seenReceipts'[c] = seenReceipts[c]
        /\ seenEvents'[c] = seenEvents[c]
        /\ phase'[c] = "appending" => phase[c] = "appending"
        /\ output[c] # "DEADLINE_EXCEEDED" => outcome'[c] = outcome[c]

\* A step of call c.
StepOf(c) ==
    /\ \A d \in Calls \ {c} : Same(d)
    /\ journal \subseteq journal'
    /\ \A r \in journal' : r \in journal \/ r.call = c
    /\ journal' # journal => Store(c)
    /\ Final(c)

\* The invariant is the conjunction of its parts for every call.
LEMMA ByCall ==
    journal \in SUBSET Receipts =>
        (EvidenceInv <=> \A c \in Calls : CallInv(c) /\ JournalAt(c))
<1> SUFFICES ASSUME journal \in SUBSET Receipts
             PROVE  EvidenceInv <=> \A c \in Calls : CallInv(c) /\ JournalAt(c)
  OBVIOUS
<1>1. ASSUME EvidenceInv, NEW c \in Calls
      PROVE  CallInv(c) /\ JournalAt(c)
  <2>1. CallInv(c)
    BY <1>1 DEF EvidenceInv, VersionEstablished, SourceInv, GateInv, JournalInv, AnswerInv, CallInv
  <2>2. JournalAt(c)
    BY <1>1 DEF EvidenceInv, JournalInv, JournalAt
  <2>3. QED
    BY <2>1, <2>2
<1>2. ASSUME \A c \in Calls : CallInv(c) /\ JournalAt(c)
      PROVE  EvidenceInv
  <2>1. VersionEstablished /\ SourceInv
    BY <1>2 DEF CallInv, VersionEstablished, SourceInv
  <2>2. GateInv
    BY <1>2 DEF CallInv, GateInv
  <2>3. AnswerInv
    BY <1>2 DEF CallInv, AnswerInv
  <2>4. JournalInv
    <3>1. \A c \in Calls : phase[c] = "appending" => outcome[c].receipt
      BY <1>2 DEF CallInv
    <3>2. ASSUME NEW r \in journal
          PROVE  /\ r = MyReceipt(r.call)
                 /\ phase[r.call] \in {"appending", "ended"}
                 /\ outcome[r.call].receipt
      <4>1. r.call \in Calls
        BY DEF Receipts
      <4>2. QED
        BY <1>2, <4>1 DEF JournalAt
    <3>3. QED
      BY <3>1, <3>2 DEF JournalInv
  <2>5. QED
    BY <2>1, <2>2, <2>3, <2>4 DEF EvidenceInv
<1>3. QED
  BY <1>1, <1>2

\* The same of the next state.
LEMMA ByCallNext ==
    (journal \in SUBSET Receipts =>
        (EvidenceInv <=> \A c \in Calls : CallInv(c) /\ JournalAt(c)))'
BY ByCall, PTL

\* A step of one call preserves what the invariant says of the others.
LEMMA OtherCalls ==
    ASSUME NEW c \in Calls, NEW d \in Calls \ {c}, StepOf(c), CallInv(d), JournalAt(d)
    PROVE  CallInv(d)' /\ JournalAt(d)'
<1>1. Same(d) /\ journal \subseteq journal'
  BY DEF StepOf
<1>2. MyReceipt(d)' = MyReceipt(d)
  BY <1>1 DEF Same, MyReceipt, ReceiptOf
<1>3. CallInv(d)'
  BY <1>1, <1>2 DEF Same, CallInv, Pending
<1>4. JournalAt(d)'
  BY <1>1, <1>2 DEF Same, StepOf, JournalAt
<1>5. QED
  BY <1>3, <1>4

\* So it is enough to look at the call that steps.
LEMMA OneCall ==
    ASSUME TypeOK, TypeOK', EvidenceInv, NEW c \in Calls, StepOf(c), CallInv(c)', JournalAt(c)'
    PROVE  EvidenceInv'
<1>1. journal \in SUBSET Receipts /\ journal' \in SUBSET Receipts
  BY DEF TypeOK
<1>2. ASSUME NEW d \in Calls
      PROVE  CallInv(d)' /\ JournalAt(d)'
  <2>1. CASE d = c
    BY <2>1
  <2>2. CASE d # c
    BY <1>1, <2>2, ByCall, OtherCalls
  <2>3. QED
    BY <2>1, <2>2
<1>3. QED
  BY <1>1, <1>2, ByCallNext

\* A call that returns and closes its gate leaves the gates of the others alone.
LEMMA ReturnEffect ==
    ASSUME TypeOK, NEW c \in Calls, NEW class, Return(c, class)
    PROVE  /\ open'[c] = FALSE /\ receipts'[c] = <<>> /\ output'[c] = class
           /\ \A d \in Calls \ {c} : /\ open'[d] = open[d]
                                     /\ receipts'[d] = receipts[d]
                                     /\ output'[d] = output[d]
BY DEF Return, close, TypeOK

\* So does one that commits; it forwards what it buffered.
LEMMA CommitEffect ==
    ASSUME TypeOK, NEW c \in Calls, NEW class, NEW rs, NEW es, CommitAndReturn(c, class, rs, es)
    PROVE  /\ open'[c] = FALSE /\ receipts'[c] = <<>> /\ output'[c] = class
           /\ seenReceipts'[c] = seenReceipts[c] \o rs
           /\ journalFailure' = journalFailure
           /\ \A d \in Calls \ {c} : /\ open'[d] = open[d]
                                     /\ receipts'[d] = receipts[d]
                                     /\ output'[d] = output[d]
                                     /\ seenReceipts'[d] = seenReceipts[d]
                                     /\ seenEvents'[d] = seenEvents[d]
<1>1. Return(c, class)
  BY DEF CommitAndReturn
<1>2. /\ seenReceipts'[c] = seenReceipts[c] \o rs
      /\ \A d \in Calls \ {c} : seenReceipts'[d] = seenReceipts[d]
                                /\ seenEvents'[d] = seenEvents[d]
      /\ journalFailure' = journalFailure
  BY DEF CommitAndReturn, TypeOK
<1>3. QED
  BY <1>1, <1>2, ReturnEffect

\* An inspection that concludes leaves the other calls alone.
LEMMA ConcludeOthers ==
    ASSUME TypeOK, NEW c \in Calls, NEW result \in Outcomes, NEW version,
           Conclude(c, result, version), NEW d \in Calls \ {c}
    PROVE  /\ phase'[d] = phase[d] /\ outcome'[d] = outcome[d]
           /\ open'[d] = open[d] /\ receipts'[d] = receipts[d] /\ output'[d] = output[d]
           /\ journalFailure'[d] = journalFailure[d] /\ seenReceipts'[d] = seenReceipts[d]
           /\ seenEvents'[d] = seenEvents[d]
<1>1. phase'[d] = phase[d] /\ outcome'[d] = outcome[d]
  BY DEF Conclude, TypeOK
<1>2. CASE ~open[c]
  BY <1>1, <1>2 DEF Conclude, gate, seen
<1>3. CASE open[c] /\ result.receipt
  BY <1>1, <1>3 DEF Conclude, TypeOK, seen
<1>4. CASE open[c] /\ ~result.receipt
  <2>1. CommitAndReturn(c, result.class, <<>>, <<result.class>>)
    BY <1>4 DEF Conclude
  <2>2. QED
    BY <1>1, <2>1, CommitEffect
<1>5. result.receipt \in BOOLEAN
  BY DEF Outcomes
<1>6. QED
  BY <1>2, <1>3, <1>4, <1>5

\* The call itself ends, or goes on to append the receipt it has just buffered.
LEMMA ConcludeCall ==
    ASSUME TypeOK, TypeOK', NEW c \in Calls, NEW result \in Outcomes, NEW version,
           Conclude(c, result, version),
           phase[c] \in {"resolving", "reading"},
           result.class # "DEADLINE_EXCEEDED",
           result.receipt => version \in Versions /\ record'[c] = version,
           result.class = "success" =>
               result.receipt /\ (ReadsBytes(operation'[c]) => bytes'[c] = record'[c]),
           journal' = journal,
           CallInv(c), JournalAt(c)
    PROVE  CallInv(c)' /\ JournalAt(c)' /\ Final(c)
<1>0. Final(c)
  <2>1. CASE output[c] # "none"
    <3>1. ~open[c] /\ output[c] = "DEADLINE_EXCEEDED"
      BY <2>1 DEF CallInv
    <3>2. QED
      BY <3>1 DEF Final, Conclude, TypeOK, gate, seen
  <2>2. QED
    BY <2>1 DEF Final
<1>1. outcome'[c] = result
  BY DEF Conclude, TypeOK
<1>2. JournalAt(c)'
  <2>1. \A r \in journal : r.call # c
    BY DEF JournalAt
  <2>2. QED
    BY <2>1 DEF JournalAt
<1>3. CASE ~open[c]
  <2>1. /\ phase'[c] = "ended"
        /\ open' = open /\ receipts' = receipts /\ output' = output
        /\ journalFailure' = journalFailure /\ seenReceipts' = seenReceipts
    BY <1>3 DEF Conclude, TypeOK, gate, seen
  <2>2. output[c] = "DEADLINE_EXCEEDED" /\ ~journalFailure[c]
    BY <1>3 DEF CallInv
  <2>3. CallInv(c)'
    BY <1>1, <1>3, <2>1, <2>2 DEF CallInv
  <2>4. QED
    BY <1>0, <1>2, <2>3
<1>4. CASE open[c] /\ result.receipt
  <2>1. /\ phase'[c] = "appending"
        /\ receipts'[c] = Append(receipts[c], ReceiptOf(c, result.class, version))
        /\ open' = open /\ output' = output
        /\ journalFailure' = journalFailure /\ seenReceipts' = seenReceipts
    BY <1>4 DEF Conclude, TypeOK, seen
  <2>2. receipts[c] = <<>>
    BY <1>4 DEF CallInv
  <2>3. receipts'[c] = <<ReceiptOf(c, result.class, version)>>
    BY <2>1, <2>2
  <2>4. MyReceipt(c)' = ReceiptOf(c, result.class, version)
    BY <1>1, <1>4 DEF MyReceipt, ReceiptOf
  <2>5. output[c] = "none" /\ ~journalFailure[c] /\ seenReceipts[c] = <<>>
    BY <1>4 DEF CallInv
  <2>6. CallInv(c)'
    BY <1>1, <1>4, <2>1, <2>3, <2>4, <2>5 DEF CallInv
  <2>7. QED
    BY <1>0, <1>2, <2>6
<1>5. CASE open[c] /\ ~result.receipt
  <2>1. CommitAndReturn(c, result.class, <<>>, <<result.class>>)
    BY <1>5 DEF Conclude
  <2>2. phase'[c] = "ended"
    BY <1>5 DEF Conclude, TypeOK
  <2>3. output[c] = "none" /\ ~journalFailure[c] /\ seenReceipts[c] = <<>>
    BY <1>5 DEF CallInv
  <2>4. /\ open'[c] = FALSE /\ receipts'[c] = <<>> /\ output'[c] = result.class
        /\ seenReceipts'[c] = seenReceipts[c] \o <<>>
        /\ journalFailure' = journalFailure
    BY <2>1 DEF CommitAndReturn, Return, close, TypeOK
  <2>5. seenReceipts'[c] = <<>>
    BY <2>3, <2>4
  <2>6. result.class # "none"
    BY DEF Outcomes, Classes, Errors
  <2>7. CallInv(c)'
    BY <1>1, <1>5, <2>2, <2>3, <2>4, <2>5, <2>6 DEF CallInv
  <2>8. QED
    BY <1>0, <1>2, <2>7
<1>6. result.receipt \in BOOLEAN
  BY DEF Outcomes
<1>7. QED
  BY <1>3, <1>4, <1>5, <1>6

\* A step in which the inspection of c concludes on settled facts.
LEMMA ConcludeStep ==
    ASSUME TypeOK, TypeOK', EvidenceInv, NEW c \in Calls, NEW result \in Outcomes, NEW version,
           Conclude(c, result, version),
           phase[c] \in {"resolving", "reading"},
           result.class # "DEADLINE_EXCEEDED",
           result.receipt => version \in Versions /\ record'[c] = version,
           result.class = "success" =>
               result.receipt /\ (ReadsBytes(operation'[c]) => bytes'[c] = record'[c]),
           journal' = journal, operation' = operation,
           \A d \in Calls \ {c} : record'[d] = record[d] /\ bytes'[d] = bytes[d]
    PROVE  EvidenceInv' /\ StepOf(c)
<1>1. CallInv(c) /\ JournalAt(c)
  BY ByCall DEF TypeOK
<1>2. CallInv(c)' /\ JournalAt(c)' /\ Final(c)
  BY <1>1, ConcludeCall
<1>3. ASSUME NEW d \in Calls \ {c}
      PROVE  Same(d)
  BY <1>3, ConcludeOthers DEF Same
<1>4. StepOf(c)
  BY <1>2, <1>3 DEF StepOf
<1>5. QED
  BY <1>2, <1>4, OneCall

\* A call that arrives, and may return at once without a receipt.
LEMMA ArriveStep ==
    ASSUME TypeOK, TypeOK', EvidenceInv, NEW c \in Calls, NEW tool, NEW aborted,
           Arrive(c, tool, aborted),
           \A d \in Calls \ {c} : /\ phase'[d] = phase[d] /\ outcome'[d] = outcome[d]
                                  /\ open'[d] = open[d] /\ receipts'[d] = receipts[d]
                                  /\ output'[d] = output[d] /\ seenEvents'[d] = seenEvents[d],
           journalFailure' = journalFailure, seenReceipts' = seenReceipts,
           phase[c] = "idle" /\ CallInv(c) => CallInv(c)'
    PROVE  EvidenceInv' /\ StepOf(c)
<1>1. CallInv(c) /\ JournalAt(c)
  BY ByCall DEF TypeOK
<1>2. phase[c] = "idle" /\ journal' = journal
  BY DEF Arrive
<1>3. JournalAt(c)'
  BY <1>1, <1>2 DEF JournalAt
<1>4. Final(c)
  BY <1>1, <1>2 DEF Final, CallInv
<1>5. \A d \in Calls \ {c} : /\ operation'[d] = operation[d]
                            /\ record'[d] = record[d]
                            /\ bytes'[d] = bytes[d]
  BY DEF Arrive, TypeOK
<1>6. StepOf(c)
  BY <1>2, <1>4, <1>5 DEF StepOf, Same
<1>7. QED
  BY <1>1, <1>2, <1>3, <1>6, OneCall

\* Every step is a step of one call, and keeps the invariant.
LEMMA EvidenceStep ==
    ASSUME TypeOK, TypeOK', EvidenceInv, Next
    PROVE  EvidenceInv' /\ \E c \in Calls : StepOf(c)
<1>0. \A c \in Calls : CallInv(c) /\ JournalAt(c)
  BY ByCall DEF TypeOK
<1>1. ASSUME NEW c \in Calls, NEW tool \in Operations, Start(c, tool)
      PROVE  EvidenceInv' /\ StepOf(c)
  <2>1. Arrive(c, tool, FALSE)
    BY <1>1 DEF Start
  <2>2. /\ phase'[c] = "resolving" /\ open'[c] = TRUE
        /\ outcome' = outcome /\ receipts' = receipts /\ output' = output
        /\ journalFailure' = journalFailure /\ seenReceipts' = seenReceipts
        /\ seenEvents' = seenEvents
    BY <1>1 DEF Start, TypeOK, seen
  <2>3. \A d \in Calls \ {c} : phase'[d] = phase[d] /\ open'[d] = open[d]
    BY <1>1 DEF Start, TypeOK
  <2>4. phase[c] = "idle" /\ CallInv(c) => CallInv(c)'
    BY <2>2 DEF CallInv, Pending
  <2>5. QED
    BY <2>1, <2>2, <2>3, <2>4, ArriveStep
<1>2. ASSUME NEW c \in Calls, NEW tool \in Operations, StartAborted(c, tool)
      PROVE  EvidenceInv' /\ StepOf(c)
  <2>1. Arrive(c, tool, TRUE)
    BY <1>2 DEF StartAborted
  <2>2. /\ phase'[c] = "resolving" /\ open'[c] = FALSE /\ receipts'[c] = <<>>
        /\ output'[c] = "DEADLINE_EXCEEDED"
        /\ outcome' = outcome
        /\ journalFailure' = journalFailure /\ seenReceipts' = seenReceipts
    BY <1>2 DEF StartAborted, ReturnDeadline, Return, close, TypeOK
  <2>3. \A d \in Calls \ {c} : /\ phase'[d] = phase[d]
                              /\ open'[d] = open[d] /\ receipts'[d] = receipts[d]
                              /\ output'[d] = output[d] /\ seenEvents'[d] = seenEvents[d]
    BY <1>2 DEF StartAborted, ReturnDeadline, Return, close, TypeOK
  <2>4. phase[c] = "idle" /\ CallInv(c) => CallInv(c)'
    BY <2>2 DEF CallInv, Pending
  <2>5. QED
    BY <2>1, <2>2, <2>3, <2>4, ArriveStep
<1>3. ASSUME NEW c \in Calls, NEW tool \in Operations, RefuseLocally(c, tool)
      PROVE  EvidenceInv' /\ StepOf(c)
  <2>1. Arrive(c, tool, FALSE)
    BY <1>3 DEF RefuseLocally
  <2>2. PICK refusal \in LocalRefusals :
           /\ outcome' = [outcome EXCEPT ![c] = refusal]
           /\ CommitAndReturn(c, refusal.class, <<>>, <<refusal.class>>)
    BY <1>3 DEF RefuseLocally
  <2>3. refusal.class \in {"INVALID_REQUEST", "INTERNAL_ERROR"} /\ ~refusal.receipt
    BY DEF LocalRefusals, Bare
  <2>4. /\ phase'[c] = "ended" /\ open'[c] = FALSE /\ receipts'[c] = <<>>
        /\ output'[c] = refusal.class
        /\ outcome'[c] = refusal /\ journalFailure' = journalFailure
    BY <1>3, <2>2 DEF RefuseLocally, CommitAndReturn, Return, close, TypeOK
  <2>5. seenReceipts' = seenReceipts
    <3>1. seenReceipts[c] \in Seq(Receipts)
      BY DEF TypeOK
    <3>2. seenReceipts[c] \o <<>> = seenReceipts[c]
      BY <3>1
    <3>3. seenReceipts' = [seenReceipts EXCEPT ![c] = seenReceipts[c] \o <<>>]
      BY <2>2 DEF CommitAndReturn
    <3>4. QED
      BY <3>2, <3>3 DEF TypeOK
  <2>6. \A d \in Calls \ {c} : /\ phase'[d] = phase[d] /\ outcome'[d] = outcome[d]
                              /\ open'[d] = open[d] /\ receipts'[d] = receipts[d]
                              /\ output'[d] = output[d] /\ seenEvents'[d] = seenEvents[d]
    BY <1>3, <2>2 DEF RefuseLocally, CommitAndReturn, Return, close, TypeOK
  <2>7. phase[c] = "idle" /\ CallInv(c) => CallInv(c)'
    BY <2>3, <2>4, <2>5 DEF CallInv
  <2>8. QED
    BY <2>1, <2>4, <2>5, <2>6, <2>7, ArriveStep
<1>4. ASSUME NEW c \in Calls, NEW tool \in Operations, RefuseLocallyAborted(c, tool)
      PROVE  EvidenceInv' /\ StepOf(c)
  <2>1. Arrive(c, tool, TRUE)
    BY <1>4 DEF RefuseLocallyAborted
  <2>2. PICK refusal \in LocalRefusals : outcome' = [outcome EXCEPT ![c] = refusal]
    BY <1>4 DEF RefuseLocallyAborted
  <2>3. refusal.class \in {"INVALID_REQUEST", "INTERNAL_ERROR"} /\ ~refusal.receipt
    BY DEF LocalRefusals, Bare
  <2>4. /\ phase'[c] = "ended" /\ open'[c] = FALSE /\ receipts'[c] = <<>>
        /\ output'[c] = "DEADLINE_EXCEEDED"
        /\ outcome'[c] = refusal
        /\ journalFailure' = journalFailure /\ seenReceipts' = seenReceipts
    BY <1>4, <2>2 DEF RefuseLocallyAborted, Return, close, TypeOK
  <2>5. \A d \in Calls \ {c} : /\ phase'[d] = phase[d] /\ outcome'[d] = outcome[d]
                              /\ open'[d] = open[d] /\ receipts'[d] = receipts[d]
                              /\ output'[d] = output[d] /\ seenEvents'[d] = seenEvents[d]
    BY <1>4, <2>2 DEF RefuseLocallyAborted, Return, close, TypeOK
  <2>6. phase[c] = "idle" /\ CallInv(c) => CallInv(c)'
    BY <2>3, <2>4 DEF CallInv
  <2>7. QED
    BY <2>1, <2>4, <2>5, <2>6, ArriveStep
<1>5. ASSUME NEW c \in Calls, ResolveFails(c)
      PROVE  EvidenceInv' /\ StepOf(c)
  <2>1. /\ phase[c] = "resolving" /\ operation' = operation /\ bytes' = bytes
        /\ journal' = journal
    BY <1>5 DEF ResolveFails
  <2>2. CASE record' = record
             /\ \E result \in Bare({"RESOURCE_UNAVAILABLE", "INTERNAL_ERROR"}) :
                  Conclude(c, result, NoVersion)
    <3>1. PICK result \in Bare({"RESOURCE_UNAVAILABLE", "INTERNAL_ERROR"}) :
             Conclude(c, result, NoVersion)
      BY <2>2
    <3>2. /\ result \in Outcomes /\ ~result.receipt
          /\ result.class \in {"RESOURCE_UNAVAILABLE", "INTERNAL_ERROR"}
      BY DEF Bare, Outcomes, Classes, Errors
    <3>3. QED
      BY <2>1, <2>2, <3>1, <3>2, ConcludeStep
  <2>3. CASE \E version \in Versions :
               /\ record' = [record EXCEPT ![c] = version]
               /\ \E result \in Receipted({"INTEGRITY_FAILURE"}) : Conclude(c, result, version)
    <3>1. PICK version \in Versions, result \in Receipted({"INTEGRITY_FAILURE"}) :
             record' = [record EXCEPT ![c] = version] /\ Conclude(c, result, version)
      BY <2>3
    <3>2. result \in Outcomes /\ result.class = "INTEGRITY_FAILURE"
      BY DEF Receipted, Outcomes, Classes, Errors
    <3>3. record'[c] = version /\ \A d \in Calls \ {c} : record'[d] = record[d]
      BY <3>1 DEF TypeOK
    <3>4. QED
      BY <2>1, <3>1, <3>2, <3>3, ConcludeStep
  <2>4. QED
    BY <1>5, <2>2, <2>3 DEF ResolveFails
<1>6. ASSUME NEW c \in Calls, ConcludeOnRecord(c)
      PROVE  EvidenceInv' /\ StepOf(c)
  <2>1. /\ phase[c] = "resolving" /\ operation' = operation /\ bytes' = bytes
        /\ journal' = journal
    BY <1>6 DEF ConcludeOnRecord
  <2>2. PICK version \in Versions, result \in RecordChecks(operation[c]) :
           record' = [record EXCEPT ![c] = version] /\ Conclude(c, result, version)
    BY <1>6 DEF ConcludeOnRecord
  <2>3. operation[c] \in Operations
    BY DEF TypeOK
  <2>4. /\ result \in Outcomes /\ result.receipt
        /\ result.class # "DEADLINE_EXCEEDED"
    <3>1. result \in Receipted(Classes \ {"DEADLINE_EXCEEDED"})
      BY <2>3, OutcomeTypes
    <3>2. QED
      BY <3>1 DEF Receipted, Outcomes
  <2>5. ReadsBytes(operation[c]) => result.class # "success"
    BY <2>3 DEF RecordChecks, artifactStat, RangeChecks, LinesChecks, HeadingChecks,
         SearchChecks, ReadsBytes, Receipted, Operations
  <2>6. record'[c] = version /\ \A d \in Calls \ {c} : record'[d] = record[d]
    BY <2>2 DEF TypeOK
  <2>7. QED
    BY <2>1, <2>2, <2>4, <2>5, <2>6, ConcludeStep
<1>7. ASSUME NEW c \in Calls, IssueRead(c)
      PROVE  EvidenceInv' /\ StepOf(c)
  <2>1. PICK version \in Versions : record' = [record EXCEPT ![c] = version]
    BY <1>7 DEF IssueRead
  <2>2. /\ phase[c] = "resolving" /\ phase'[c] = "reading" /\ record'[c] \in Versions
        /\ ReadsBytes(operation[c])
        /\ \A d \in Calls \ {c} : phase'[d] = phase[d] /\ record'[d] = record[d]
    BY <1>7, <2>1 DEF IssueRead, TypeOK
  <2>3. /\ operation' = operation /\ bytes' = bytes /\ outcome' = outcome
        /\ open' = open /\ receipts' = receipts /\ journal' = journal
        /\ output' = output /\ journalFailure' = journalFailure
        /\ seenReceipts' = seenReceipts /\ seenEvents' = seenEvents
    BY <1>7 DEF IssueRead, gate, seen
  <2>4. /\ outcome[c] = Pending /\ output[c] \in {"none", "DEADLINE_EXCEEDED"}
        /\ ~journalFailure[c] /\ seenReceipts[c] = <<>> /\ receipts[c] = <<>>
        /\ open[c] <=> output[c] = "none"
    BY <1>0, <2>2 DEF CallInv
  <2>5. CallInv(c)'
    <3>1. outcome'[c] = Pending /\ Pending.class = "INTERNAL_ERROR"
      BY <2>3, <2>4 DEF Pending
    <3>2. QED
      BY <2>2, <2>3, <2>4, <3>1 DEF CallInv
  <2>6. JournalAt(c)'
    BY <1>0, <2>2, <2>3 DEF JournalAt
  <2>7. StepOf(c)
    BY <2>2, <2>3 DEF StepOf, Same, Final
  <2>8. QED
    BY <2>5, <2>6, <2>7, OneCall
<1>8. ASSUME NEW c \in Calls, ReadFails(c)
      PROVE  EvidenceInv' /\ StepOf(c)
  <2>1. /\ phase[c] = "reading" /\ operation' = operation /\ record' = record
        /\ bytes' = bytes /\ journal' = journal
    BY <1>8 DEF ReadFails
  <2>2. PICK result \in Receipted({"INTERNAL_ERROR", "INTEGRITY_FAILURE"})
                           \cup Bare({"RESOURCE_UNAVAILABLE"}) : Conclude(c, result, record[c])
    BY <1>8 DEF ReadFails, Receipted, Bare
  <2>3. /\ result \in Outcomes
        /\ result.class \in {"INTERNAL_ERROR", "INTEGRITY_FAILURE", "RESOURCE_UNAVAILABLE"}
    BY DEF Receipted, Bare, Outcomes, Classes, Errors
  <2>4. record[c] \in Versions
    BY <1>0, <2>1 DEF CallInv
  <2>5. QED
    BY <2>1, <2>2, <2>3, <2>4, ConcludeStep
<1>9. ASSUME NEW c \in Calls, ReadVerified(c)
      PROVE  EvidenceInv' /\ StepOf(c)
  <2>1. /\ phase[c] = "reading" /\ operation' = operation /\ record' = record
        /\ journal' = journal
    BY <1>9 DEF ReadVerified
  <2>2. PICK read \in ReadResults : bytes' = [bytes EXCEPT ![c] = read.content]
                                   /\ read.content = record[c]
    BY <1>9 DEF ReadVerified, Verifies
  <2>3. bytes'[c] = record[c] /\ \A d \in Calls \ {c} : bytes'[d] = bytes[d]
    BY <2>2 DEF TypeOK
  <2>4. PICK result \in VerifiedOutcomes(operation[c]) : Conclude(c, result, record[c])
    BY <1>9 DEF ReadVerified
  <2>5. record[c] \in Versions /\ ReadsBytes(operation[c]) /\ operation[c] \in Operations
    BY <1>0, <2>1 DEF CallInv, TypeOK
  <2>6. result \in Outcomes /\ result.class # "DEADLINE_EXCEEDED"
    BY <2>5, OutcomeTypes DEF Outcomes
  <2>7. result.class = "success" => result.receipt
    BY <2>5 DEF Operations, ReadsBytes, VerifiedOutcomes, artifactReadRange, artifactReadLines,
                artifactReadHeading, artifactSearchExact, Receipted, Bare
  <2>8. QED
    BY <2>1, <2>3, <2>4, <2>5, <2>6, <2>7, ConcludeStep
<1>10. ASSUME NEW c \in Calls, Store(c)
       PROVE  EvidenceInv' /\ StepOf(c)
  <2>1. /\ phase' = phase /\ operation' = operation /\ record' = record /\ bytes' = bytes
        /\ outcome' = outcome /\ open' = open /\ receipts' = receipts
        /\ output' = output /\ journalFailure' = journalFailure
        /\ seenReceipts' = seenReceipts /\ seenEvents' = seenEvents
    BY <1>10 DEF Store, gate, seen
  <2>2. /\ phase[c] = "appending"
        /\ journal' = journal \cup {MyReceipt(c)}
    BY <1>10 DEF Store, MyReceipt
  <2>3. MyReceipt(c)' = MyReceipt(c)
    BY <2>1 DEF MyReceipt, ReceiptOf
  <2>4. MyReceipt(c).call = c
    BY DEF MyReceipt, ReceiptOf
  <2>5. CallInv(c)'
    BY <1>0, <2>1, <2>2, <2>3 DEF CallInv, Pending
  <2>6. JournalAt(c)'
    <3>1. outcome[c].receipt
      BY <1>0, <2>2 DEF CallInv
    <3>2. ASSUME NEW r \in journal', r.call = c
          PROVE  r = MyReceipt(c)
      BY <1>0, <2>2, <3>2 DEF JournalAt
    <3>3. QED
      BY <2>1, <2>2, <2>3, <3>1, <3>2 DEF JournalAt
  <2>7. StepOf(c)
    BY <1>10, <2>1, <2>2, <2>4 DEF StepOf, Same, Final
  <2>8. QED
    BY <2>5, <2>6, <2>7, OneCall
<1>11. ASSUME NEW c \in Calls,
              phase[c] = "appending", ~open[c], phase' = [phase EXCEPT ![c] = "ended"],
              UNCHANGED <<gate, output, journalFailure, seen>>,
              UNCHANGED <<operation, record, bytes, outcome, journal, entryAborted>>
       PROVE  EvidenceInv' /\ StepOf(c)
  <2>1. /\ operation' = operation /\ record' = record /\ bytes' = bytes
        /\ outcome' = outcome /\ open' = open /\ receipts' = receipts /\ journal' = journal
        /\ output' = output /\ journalFailure' = journalFailure
        /\ seenReceipts' = seenReceipts /\ seenEvents' = seenEvents
    BY <1>11 DEF gate, seen
  <2>2. phase'[c] = "ended" /\ \A d \in Calls \ {c} : phase'[d] = phase[d]
    BY <1>11 DEF TypeOK
  <2>3. MyReceipt(c)' = MyReceipt(c)
    BY <2>1 DEF MyReceipt, ReceiptOf
  <2>4. CallInv(c)'
    BY <1>0, <1>11, <2>1, <2>2, <2>3 DEF CallInv
  <2>5. JournalAt(c)'
    BY <1>0, <2>1, <2>2, <2>3 DEF JournalAt
  <2>6. StepOf(c)
    BY <2>1, <2>2 DEF StepOf, Same, Final
  <2>7. QED
    BY <2>4, <2>5, <2>6, OneCall
<1>12. ASSUME NEW c \in Calls, Acknowledge(c)
       PROVE  EvidenceInv' /\ StepOf(c)
  <2>1. CASE ~open[c]
    BY <1>11, <1>12, <2>1 DEF Acknowledge
  <2>2. CASE open[c]
    <3>1. /\ phase[c] = "appending" /\ MyReceipt(c) \in journal
          /\ operation' = operation /\ record' = record /\ bytes' = bytes
          /\ outcome' = outcome /\ journal' = journal
      BY <1>12 DEF Acknowledge, MyReceipt
    <3>2. phase'[c] = "ended" /\ \A d \in Calls \ {c} : phase'[d] = phase[d]
      BY <1>12 DEF Acknowledge, TypeOK
    <3>3. CommitAndReturn(c, outcome[c].class, receipts[c], events[c])
      BY <1>12, <2>2 DEF Acknowledge
    <3>4. /\ output[c] = "none" /\ ~journalFailure[c] /\ seenReceipts[c] = <<>>
          /\ receipts[c] = <<MyReceipt(c)>> /\ outcome[c].receipt
      BY <1>0, <2>2, <3>1 DEF CallInv
    <3>5. /\ open'[c] = FALSE /\ receipts'[c] = <<>> /\ output'[c] = outcome[c].class
          /\ seenReceipts'[c] = seenReceipts[c] \o receipts[c]
          /\ journalFailure' = journalFailure
          /\ \A d \in Calls \ {c} : /\ open'[d] = open[d] /\ receipts'[d] = receipts[d]
                                    /\ output'[d] = output[d]
                                    /\ seenReceipts'[d] = seenReceipts[d]
                                    /\ seenEvents'[d] = seenEvents[d]
      BY <3>3 DEF CommitAndReturn, Return, close, TypeOK
    <3>6. seenReceipts'[c] = <<MyReceipt(c)>>
      <4>1. <<>> \o <<MyReceipt(c)>> = <<MyReceipt(c)>>
        OBVIOUS
      <4>2. QED
        BY <3>4, <3>5, <4>1
    <3>7. MyReceipt(c)' = MyReceipt(c)
      BY <3>1 DEF MyReceipt, ReceiptOf
    <3>8. outcome[c].class \notin {"none", "DEADLINE_EXCEEDED"}
      BY <1>0 DEF CallInv, TypeOK, Outcomes, Classes, Errors
    <3>9. CallInv(c)'
      BY <1>0, <3>1, <3>2, <3>4, <3>5, <3>6, <3>7, <3>8 DEF CallInv
    <3>10. JournalAt(c)'
      BY <1>0, <3>1, <3>2, <3>7 DEF JournalAt
    <3>11. StepOf(c)
      BY <3>1, <3>2, <3>4, <3>5 DEF StepOf, Same, Final
    <3>12. QED
      BY <3>9, <3>10, <3>11, OneCall
  <2>3. QED
    BY <2>1, <2>2
<1>13. ASSUME NEW c \in Calls, AppendFails(c)
       PROVE  EvidenceInv' /\ StepOf(c)
  <2>1. CASE ~open[c]
    BY <1>11, <1>13, <2>1 DEF AppendFails
  <2>2. CASE open[c]
    <3>1. /\ phase[c] = "appending"
          /\ operation' = operation /\ record' = record /\ bytes' = bytes
          /\ outcome' = outcome /\ journal' = journal
      BY <1>13 DEF AppendFails
    <3>2. phase'[c] = "ended" /\ \A d \in Calls \ {c} : phase'[d] = phase[d]
      BY <1>13 DEF AppendFails, TypeOK
    <3>3. output[c] = "none" /\ ~journalFailure[c] /\ seenReceipts[c] = <<>>
      BY <1>0, <2>2, <3>1 DEF CallInv
    <3>4. /\ open'[c] = FALSE /\ receipts'[c] = <<>> /\ output'[c] = "INTERNAL_ERROR"
          /\ journalFailure'[c] = TRUE /\ seenReceipts' = seenReceipts
      BY <1>13, <2>2 DEF AppendFails, Return, close, TypeOK
    <3>5. \A d \in Calls \ {c} : /\ open'[d] = open[d] /\ receipts'[d] = receipts[d]
                                /\ output'[d] = output[d] /\ seenEvents'[d] = seenEvents[d]
                                /\ journalFailure'[d] = journalFailure[d]
      BY <1>13, <2>2 DEF AppendFails, Return, close, TypeOK
    <3>6. MyReceipt(c)' = MyReceipt(c)
      BY <3>1 DEF MyReceipt, ReceiptOf
    <3>7. CallInv(c)'
      BY <1>0, <3>1, <3>2, <3>3, <3>4 DEF CallInv
    <3>8. JournalAt(c)'
      BY <1>0, <3>1, <3>2, <3>6 DEF JournalAt
    <3>9. StepOf(c)
      BY <3>1, <3>2, <3>3, <3>4, <3>5 DEF StepOf, Same, Final
    <3>10. QED
      BY <3>7, <3>8, <3>9, OneCall
  <2>3. QED
    BY <2>1, <2>2
<1>14. ASSUME NEW c \in Calls, Deadline(c)
       PROVE  EvidenceInv' /\ StepOf(c)
  <2>1. /\ open[c] /\ phase' = phase /\ operation' = operation /\ record' = record
        /\ bytes' = bytes /\ outcome' = outcome /\ journal' = journal
    BY <1>14 DEF Deadline
  <2>2. output[c] = "none" /\ ~journalFailure[c] /\ seenReceipts[c] = <<>> /\ phase[c] # "idle"
    BY <1>0, <2>1 DEF CallInv
  <2>3. /\ open'[c] = FALSE /\ receipts'[c] = <<>> /\ output'[c] = "DEADLINE_EXCEEDED"
        /\ journalFailure' = journalFailure /\ seenReceipts' = seenReceipts
    BY <1>14 DEF Deadline, ReturnDeadline, Return, close, TypeOK
  <2>4. \A d \in Calls \ {c} : /\ open'[d] = open[d] /\ receipts'[d] = receipts[d]
                              /\ output'[d] = output[d] /\ seenEvents'[d] = seenEvents[d]
    BY <1>14 DEF Deadline, ReturnDeadline, Return, close, TypeOK
  <2>5. MyReceipt(c)' = MyReceipt(c)
    BY <2>1 DEF MyReceipt, ReceiptOf
  <2>6. CallInv(c)'
    BY <1>0, <2>1, <2>2, <2>3 DEF CallInv, Pending
  <2>7. JournalAt(c)'
    BY <1>0, <2>1, <2>5 DEF JournalAt
  <2>8. StepOf(c)
    BY <2>1, <2>2, <2>3, <2>4 DEF StepOf, Same, Final
  <2>9. QED
    BY <2>6, <2>7, <2>8, OneCall
<1>15. QED
  BY <1>1, <1>2, <1>3, <1>4, <1>5, <1>6, <1>7, <1>8, <1>9, <1>10, <1>12, <1>13, <1>14 DEF Next

\* What is inductive: the types and the evidence invariant.
IInv == TypeOK /\ EvidenceInv

\* No call has started, nothing is journaled.
LEMMA InitIInv == Init => IInv
<1> SUFFICES ASSUME Init PROVE IInv
  OBVIOUS
<1>1. TypeOK
  <2>1. Pending \in Outcomes
    BY DEF Pending, Outcomes, Classes, Errors
  <2>2. <<>> \in Seq(Receipts) /\ <<>> \in Seq(Classes)
    OBVIOUS
  <2>3. QED
    BY <2>1, <2>2 DEF Init, TypeOK, Operations
<1>2. ASSUME NEW c \in Calls
      PROVE  CallInv(c) /\ JournalAt(c)
  <2>1. /\ phase[c] = "idle" /\ outcome[c] = Pending /\ open[c] = FALSE /\ receipts[c] = <<>>
        /\ output[c] = "none" /\ journalFailure[c] = FALSE /\ seenReceipts[c] = <<>>
        /\ journal = {}
    BY DEF Init
  <2>2. Pending.class = "INTERNAL_ERROR"
    BY DEF Pending
  <2>3. QED
    BY <2>1, <2>2 DEF CallInv, JournalAt
<1>3. QED
  BY <1>1, <1>2, ByCall DEF TypeOK, IInv

\* Steps that change nothing keep it too.
LEMMA StepIInv == IInv /\ [Next]_vars => IInv'
<1> SUFFICES ASSUME IInv, [Next]_vars PROVE IInv'
  OBVIOUS
<1>1. TypeOK'
  BY TypeStep DEF IInv, EvidenceInv
<1>2. CASE Next
  BY <1>1, <1>2, EvidenceStep DEF IInv
<1>3. CASE UNCHANGED vars
  BY <1>1, <1>3 DEF IInv, EvidenceInv, VersionEstablished, SourceInv, GateInv, JournalInv,
                    AnswerInv, MyReceipt, ReceiptOf, Pending, vars, gate, seen
<1>4. QED
  BY <1>2, <1>3

\* The inductive invariant holds in every reachable state.
LEMMA Inductive == Spec => []IInv
<1>1. QED
  BY InitIInv, StepIInv, PTL DEF Spec

\* The variables always hold values of their kinds, whatever the adapters return and
\* whenever the deadline strikes.
THEOREM TypeCorrect == Spec => []TypeOK
<1>1. IInv => TypeOK
  BY DEF IInv
<1>2. QED
  BY <1>1, Inductive, PTL

\* The evidence invariant holds of any number of concurrent operations.
THEOREM EvidenceKept == Spec => []EvidenceInv
<1>1. IInv => EvidenceInv
  BY DEF IInv
<1>2. QED
  BY <1>1, Inductive, PTL

\* commit() before `return operationOutput`: no answer that issued a receipt is given
\* before the journal holds that receipt.
THEOREM ReceiptDurableBeforeReturn == Spec => []EvidenceBeforeReturn
<1>1. EvidenceInv => EvidenceBeforeReturn
  BY DEF EvidenceInv, AnswerInv, EvidenceBeforeReturn
<1>2. QED
  BY <1>1, EvidenceKept, PTL

\* A success is bound to a journaled receipt and to the bytes of its version, whatever
\* the storage adapter returned.
THEOREM SuccessSourceBound == Spec => []SuccessIsSourceBound
<1>1. EvidenceInv => SuccessIsSourceBound
  <2> SUFFICES ASSUME EvidenceInv, NEW c \in Calls, output[c] = "success"
               PROVE  /\ \E r \in journal :
                           r = [call |-> c, class |-> "success", version |-> record[c]]
                      /\ ReadsBytes(operation[c]) => bytes[c] = record[c]
    BY DEF SuccessIsSourceBound
  <2>1. ~journalFailure[c]
    BY DEF EvidenceInv, AnswerInv
  <2>2. outcome[c].class = "success"
    BY <2>1 DEF EvidenceInv, AnswerInv
  <2>3. outcome[c].receipt /\ (ReadsBytes(operation[c]) => bytes[c] = record[c])
    BY <2>2 DEF EvidenceInv, SourceInv
  <2>4. MyReceipt(c) \in journal
    BY <2>1, <2>3 DEF EvidenceInv, AnswerInv
  <2>5. QED
    BY <2>2, <2>3, <2>4 DEF MyReceipt, ReceiptOf
<1>2. QED
  BY <1>1, EvidenceKept, PTL

\* Observers are given the journaled receipt of an answered call, and no other.
THEOREM ObserversTold == Spec => []ObserversSeeAnsweredReceipts
<1>1. EvidenceInv => ObserversSeeAnsweredReceipts
  <2> SUFFICES ASSUME EvidenceInv, NEW c \in Calls, seenReceipts[c] # <<>>
               PROVE  /\ seenReceipts[c] = <<MyReceipt(c)>>
                      /\ MyReceipt(c) \in journal
                      /\ output[c] = outcome[c].class
                      /\ ~journalFailure[c]
    BY DEF ObserversSeeAnsweredReceipts
  <2>1. output[c] \notin {"none", "DEADLINE_EXCEEDED"} /\ ~journalFailure[c]
    BY DEF EvidenceInv, GateInv, AnswerInv
  <2>2. QED
    BY <2>1 DEF EvidenceInv, AnswerInv
<1>2. QED
  BY <1>1, EvidenceKept, PTL

\* The journal holds at most one receipt per call, attested by its answer unless the
\* call is open or gave up.
THEOREM OneReceiptPerCall == Spec => []AtMostOneReceipt
<1>1. IInv => AtMostOneReceipt
  <2> SUFFICES ASSUME IInv, NEW r \in journal
               PROVE  /\ r = MyReceipt(r.call)
                      /\ \/ seenReceipts[r.call] = <<r>>
                         \/ open[r.call]
                         \/ output[r.call] = "DEADLINE_EXCEEDED"
                         \/ journalFailure[r.call]
    BY DEF AtMostOneReceipt
  <2>1. r.call \in Calls
    BY DEF IInv, TypeOK, Receipts
  <2>2. /\ r = MyReceipt(r.call) /\ phase[r.call] \in {"appending", "ended"}
        /\ outcome[r.call].receipt
    BY DEF IInv, EvidenceInv, JournalInv
  <2>3. CASE output[r.call] = "none"
    BY <2>1, <2>2, <2>3 DEF IInv, EvidenceInv, GateInv
  <2>4. CASE output[r.call] \notin {"none", "DEADLINE_EXCEEDED"} /\ ~journalFailure[r.call]
    BY <2>1, <2>2, <2>4 DEF IInv, EvidenceInv, AnswerInv
  <2>5. journalFailure[r.call] \in BOOLEAN
    BY <2>1 DEF IInv, TypeOK
  <2>6. QED
    BY <2>2, <2>3, <2>4, <2>5
<1>2. QED
  BY <1>1, Inductive, PTL

\* After a call has returned, nothing it still does in the background is seen.
THEOREM AnswersAreFinal == Spec => ReturnIsFinal
<1>1. ASSUME IInv, IInv', [Next]_vars, NEW d \in Calls, output[d] # "none"
      PROVE  /\ output'[d] = output[d]
             /\ seenReceipts'[d] = seenReceipts[d]
             /\ seenEvents'[d] = seenEvents[d]
             /\ phase'[d] = "appending" => phase[d] = "appending"
  <2>1. CASE Next
    <3>1. PICK c \in Calls : StepOf(c)
      BY <1>1, <2>1, EvidenceStep DEF IInv
    <3>2. CASE c = d
      BY <1>1, <3>1, <3>2 DEF StepOf, Final
    <3>3. CASE c # d
      BY <3>1, <3>3 DEF StepOf, Same
    <3>4. QED
      BY <3>2, <3>3
  <2>2. CASE UNCHANGED vars
    BY <2>2 DEF vars, seen
  <2>3. QED
    BY <1>1, <2>1, <2>2
<1>2. IInv /\ IInv' /\ [Next]_vars =>
        [\A c \in Calls : output[c] # "none" =>
           /\ output'[c] = output[c]
           /\ seenReceipts'[c] = seenReceipts[c]
           /\ seenEvents'[c] = seenEvents[c]
           /\ phase'[c] = "appending" => phase[c] = "appending"]_vars
  BY <1>1
<1>3. QED
  BY <1>2, Inductive, PTL DEF Spec, ReturnIsFinal

-----------------------------------------------------------------------------
(***************************************************************************)
(* Events.                                                                 *)
(***************************************************************************)

\* What the observers and the gate hold of the events of a call: nothing was forwarded
\* before the answer; then its class was, alone or after the refusal of a request that was
\* cancelled before its handler ran; the event of a receipt waits while it is appended.
EventAt(c) ==
    /\ events[c] = IF open[c] /\ phase[c] = "appending" THEN <<outcome[c].class>> ELSE <<>>
    /\ output[c] = "none" => seenEvents[c] = <<>>
    /\ output[c] # "none" =>
         \/ seenEvents[c] = <<output[c]>>
         \/ entryAborted[c] /\ \E class \in Classes : seenEvents[c] = <<class, output[c]>>

EventInv == \A c \in Calls : EventAt(c)

\* The events of call d are left alone.
SameEvents(d) ==
    /\ events'[d] = events[d]
    /\ open'[d] = open[d]
    /\ phase'[d] = phase[d]
    /\ outcome'[d] = outcome[d]
    /\ output'[d] = output[d]
    /\ seenEvents'[d] = seenEvents[d]
    /\ entryAborted'[d] = entryAborted[d]

\* It is enough to look at the call that steps.
LEMMA EventsOfOneCall ==
    ASSUME EventInv, NEW c \in Calls, \A d \in Calls \ {c} : SameEvents(d), EventAt(c)'
    PROVE  EventInv'
<1>1. ASSUME NEW d \in Calls \ {c} PROVE EventAt(d)'
  <2>1. EventAt(d) /\ SameEvents(d)
    BY DEF EventInv
  <2>2. QED
    BY <2>1 DEF EventAt, SameEvents
<1>2. QED
  BY <1>1 DEF EventInv

\* A call that returns closes its gate, and touches no other.
LEMMA ReturnCloses ==
    ASSUME TypeOK, NEW c \in Calls, NEW class, Return(c, class)
    PROVE  /\ open'[c] = FALSE /\ events'[c] = <<>> /\ output'[c] = class
           /\ \A d \in Calls \ {c} :
                open'[d] = open[d] /\ events'[d] = events[d] /\ output'[d] = output[d]
<1>1. open'[c] = FALSE /\ \A d \in Calls \ {c} : open'[d] = open[d]
  BY DEF Return, close, TypeOK
<1>2. events'[c] = <<>> /\ \A d \in Calls \ {c} : events'[d] = events[d]
  BY DEF Return, close, TypeOK
<1>3. output'[c] = class /\ \A d \in Calls \ {c} : output'[d] = output[d]
  BY DEF Return, TypeOK
<1>4. QED
  BY <1>1, <1>2, <1>3

\* A call that returns with one event, its class.
LEMMA OneEvent ==
    ASSUME TypeOK, EventInv, NEW c \in Calls, NEW class \in Classes, output[c] = "none",
           Return(c, class),
           \/ seenEvents' = [seenEvents EXCEPT ![c] = Append(@, class)]
           \/ seenEvents' = [seenEvents EXCEPT ![c] = @ \o <<class>>]
    PROVE  EventAt(c)' /\ \A d \in Calls \ {c} : /\ open'[d] = open[d] /\ events'[d] = events[d]
                                                /\ output'[d] = output[d]
                                                /\ seenEvents'[d] = seenEvents[d]
<1>1. seenEvents[c] = <<>>
  BY DEF EventInv, EventAt
<1>2. Append(<<>>, class) = <<class>> /\ <<>> \o <<class>> = <<class>>
  OBVIOUS
<1>3. seenEvents'[c] = <<class>> /\ \A d \in Calls \ {c} : seenEvents'[d] = seenEvents[d]
  BY <1>1, <1>2 DEF TypeOK
<1>4. class # "none"
  BY DEF Classes, Errors
<1>5. QED
  BY <1>3, <1>4, ReturnCloses DEF EventAt

\* The end of an inspection keeps the events in order.
LEMMA ConcludeEvents ==
    ASSUME IInv, EventInv, NEW c \in Calls, NEW result \in Outcomes, NEW version,
           phase[c] \in {"resolving", "reading"}, Conclude(c, result, version),
           entryAborted' = entryAborted
    PROVE  EventInv'
<1>0. TypeOK /\ CallInv(c)
  <2>1. TypeOK /\ EvidenceInv
    BY DEF IInv
  <2>2. QED
    BY <2>1, ByCall DEF TypeOK
<1>1. /\ outcome'[c] = result
      /\ \A d \in Calls \ {c} : outcome'[d] = outcome[d]
  BY <1>0 DEF Conclude, TypeOK
<1>2. result.class \in Classes /\ result.receipt \in BOOLEAN
  BY DEF Outcomes
<1>3. EventAt(c)
  BY DEF EventInv
<1>4. CASE ~open[c]
  <2>1. /\ phase'[c] = "ended" /\ \A d \in Calls \ {c} : phase'[d] = phase[d]
        /\ open' = open /\ events' = events /\ output' = output /\ seenEvents' = seenEvents
    BY <1>0, <1>4 DEF Conclude, TypeOK, gate, seen
  <2>2. EventAt(c)'
    BY <1>3, <1>4, <2>1 DEF EventAt
  <2>3. \A d \in Calls \ {c} : SameEvents(d)
    BY <1>1, <2>1 DEF SameEvents
  <2>4. QED
    BY <2>2, <2>3, EventsOfOneCall
<1>5. CASE open[c] /\ result.receipt
  <2>1. /\ phase' = [phase EXCEPT ![c] = "appending"]
        /\ events' = [events EXCEPT ![c] = Append(@, result.class)]
        /\ open' = open /\ output' = output /\ seenEvents' = seenEvents
    BY <1>5 DEF Conclude, seen
  <2>2. phase'[c] = "appending" /\ \A d \in Calls \ {c} : phase'[d] = phase[d]
    BY <1>0, <2>1 DEF TypeOK
  <2>3. events[c] = <<>>
    BY <1>3 DEF EventAt
  <2>4. Append(<<>>, result.class) = <<result.class>>
    OBVIOUS
  <2>5. events'[c] = <<result.class>> /\ \A d \in Calls \ {c} : events'[d] = events[d]
    BY <1>0, <2>1, <2>3, <2>4 DEF TypeOK
  <2>6. EventAt(c)'
    BY <1>1, <1>3, <1>5, <2>1, <2>2, <2>5 DEF EventAt
  <2>7. \A d \in Calls \ {c} : SameEvents(d)
    BY <1>1, <2>1, <2>2, <2>5 DEF SameEvents
  <2>8. QED
    BY <2>6, <2>7, EventsOfOneCall
<1>6. CASE open[c] /\ ~result.receipt
  <2>1. /\ phase' = [phase EXCEPT ![c] = "ended"]
        /\ CommitAndReturn(c, result.class, <<>>, <<result.class>>)
    BY <1>6 DEF Conclude
  <2>2. \A d \in Calls \ {c} : phase'[d] = phase[d]
    BY <1>0, <2>1 DEF TypeOK
  <2>3. output[c] = "none"
    BY <1>0, <1>6 DEF CallInv
  <2>4. /\ Return(c, result.class)
        /\ seenEvents' = [seenEvents EXCEPT ![c] = @ \o <<result.class>>]
    BY <2>1 DEF CommitAndReturn
  <2>5. EventAt(c)' /\ \A d \in Calls \ {c} : /\ open'[d] = open[d] /\ events'[d] = events[d]
                                             /\ output'[d] = output[d]
                                             /\ seenEvents'[d] = seenEvents[d]
    BY <1>0, <1>2, <2>3, <2>4, OneEvent
  <2>6. \A d \in Calls \ {c} : SameEvents(d)
    BY <1>1, <2>2, <2>5 DEF SameEvents
  <2>7. QED
    BY <2>5, <2>6, EventsOfOneCall
<1>7. QED
  BY <1>2, <1>4, <1>5, <1>6

\* Every step keeps the events in order.
LEMMA EventStep == IInv /\ EventInv /\ Next => EventInv'
<1> SUFFICES ASSUME IInv, EventInv, Next PROVE EventInv'
  OBVIOUS
<1>0. TypeOK /\ \A c \in Calls : CallInv(c) /\ EventAt(c)
  <2>1. TypeOK /\ EvidenceInv
    BY DEF IInv
  <2>2. QED
    BY <2>1, ByCall DEF TypeOK, EventInv
<1>a. ASSUME NEW c \in Calls, NEW tool, NEW aborted, Arrive(c, tool, aborted)
      PROVE  /\ phase[c] = "idle" /\ output[c] = "none" /\ open[c] = FALSE
             /\ entryAborted'[c] = aborted
             /\ \A d \in Calls \ {c} : entryAborted'[d] = entryAborted[d]
  <2>1. phase[c] = "idle"
    BY <1>a DEF Arrive
  <2>2. output[c] = "none" /\ open[c] = FALSE
    BY <1>0, <2>1 DEF CallInv, TypeOK
  <2>3. QED
    BY <1>0, <1>a, <2>1, <2>2 DEF Arrive, TypeOK
<1>1. ASSUME NEW c \in Calls, NEW tool \in Operations, Start(c, tool)
      PROVE  EventInv'
  <2>1. Arrive(c, tool, FALSE)
    BY <1>1 DEF Start
  <2>2. /\ phase'[c] = "resolving" /\ \A d \in Calls \ {c} : phase'[d] = phase[d]
        /\ open'[c] = TRUE /\ \A d \in Calls \ {c} : open'[d] = open[d]
    BY <1>0, <1>1 DEF Start, TypeOK
  <2>3. outcome' = outcome /\ events' = events /\ output' = output /\ seenEvents' = seenEvents
    BY <1>1 DEF Start, seen
  <2>4. EventAt(c)'
    BY <1>0, <1>a, <2>1, <2>2, <2>3 DEF EventAt
  <2>5. \A d \in Calls \ {c} : SameEvents(d)
    BY <1>a, <2>1, <2>2, <2>3 DEF SameEvents
  <2>6. QED
    BY <2>4, <2>5, EventsOfOneCall
<1>2. ASSUME NEW c \in Calls, NEW tool \in Operations, StartAborted(c, tool)
      PROVE  EventInv'
  <2>1. Arrive(c, tool, TRUE) /\ Return(c, "DEADLINE_EXCEEDED")
        /\ seenEvents' = [seenEvents EXCEPT ![c] = Append(@, "DEADLINE_EXCEEDED")]
        /\ outcome' = outcome
    BY <1>2 DEF StartAborted, ReturnDeadline
  <2>2. \A d \in Calls \ {c} : phase'[d] = phase[d]
    BY <1>0, <1>2 DEF StartAborted, TypeOK
  <2>3. "DEADLINE_EXCEEDED" \in Classes
    BY DEF Classes, Errors
  <2>4. output[c] = "none" /\ \A d \in Calls \ {c} : entryAborted'[d] = entryAborted[d]
    BY <1>a, <2>1
  <2>5. EventAt(c)' /\ \A d \in Calls \ {c} : /\ open'[d] = open[d] /\ events'[d] = events[d]
                                             /\ output'[d] = output[d]
                                             /\ seenEvents'[d] = seenEvents[d]
    BY <1>0, <2>1, <2>3, <2>4, OneEvent
  <2>6. \A d \in Calls \ {c} : SameEvents(d)
    BY <2>1, <2>2, <2>4, <2>5 DEF SameEvents
  <2>7. QED
    BY <2>5, <2>6, EventsOfOneCall
<1>3. ASSUME NEW c \in Calls, NEW tool \in Operations, RefuseLocally(c, tool)
      PROVE  EventInv'
  <2>1. Arrive(c, tool, FALSE)
    BY <1>3 DEF RefuseLocally
  <2>2. PICK refusal \in LocalRefusals :
           /\ outcome' = [outcome EXCEPT ![c] = refusal]
           /\ CommitAndReturn(c, refusal.class, <<>>, <<refusal.class>>)
    BY <1>3 DEF RefuseLocally
  <2>3. refusal.class \in Classes
    BY DEF LocalRefusals, Bare, Classes, Errors
  <2>4. /\ \A d \in Calls \ {c} : phase'[d] = phase[d]
        /\ \A d \in Calls \ {c} : outcome'[d] = outcome[d]
    BY <1>0, <1>3, <2>2 DEF RefuseLocally, TypeOK
  <2>5. output[c] = "none" /\ \A d \in Calls \ {c} : entryAborted'[d] = entryAborted[d]
    BY <1>a, <2>1
  <2>6. /\ Return(c, refusal.class)
        /\ seenEvents' = [seenEvents EXCEPT ![c] = @ \o <<refusal.class>>]
    BY <2>2 DEF CommitAndReturn
  <2>7. EventAt(c)' /\ \A d \in Calls \ {c} : /\ open'[d] = open[d] /\ events'[d] = events[d]
                                             /\ output'[d] = output[d]
                                             /\ seenEvents'[d] = seenEvents[d]
    BY <1>0, <2>3, <2>5, <2>6, OneEvent
  <2>8. \A d \in Calls \ {c} : SameEvents(d)
    BY <2>4, <2>5, <2>7 DEF SameEvents
  <2>9. QED
    BY <2>7, <2>8, EventsOfOneCall
<1>4. ASSUME NEW c \in Calls, NEW tool \in Operations, RefuseLocallyAborted(c, tool)
      PROVE  EventInv'
  <2>1. Arrive(c, tool, TRUE) /\ Return(c, "DEADLINE_EXCEEDED")
    BY <1>4 DEF RefuseLocallyAborted
  <2>2. PICK refusal \in LocalRefusals :
           /\ outcome' = [outcome EXCEPT ![c] = refusal]
           /\ seenEvents' = [seenEvents EXCEPT
                               ![c] = @ \o <<refusal.class, "DEADLINE_EXCEEDED">>]
    BY <1>4 DEF RefuseLocallyAborted
  <2>3. refusal.class \in Classes
    BY DEF LocalRefusals, Bare, Classes, Errors
  <2>4. /\ \A d \in Calls \ {c} : phase'[d] = phase[d]
        /\ \A d \in Calls \ {c} : outcome'[d] = outcome[d]
    BY <1>0, <1>4, <2>2 DEF RefuseLocallyAborted, TypeOK
  <2>5. /\ output[c] = "none" /\ entryAborted'[c] = TRUE
        /\ \A d \in Calls \ {c} : entryAborted'[d] = entryAborted[d]
    BY <1>a, <2>1
  <2>6. seenEvents[c] = <<>>
    BY <1>0, <2>5 DEF EventAt
  <2>7. <<>> \o <<refusal.class, "DEADLINE_EXCEEDED">> = <<refusal.class, "DEADLINE_EXCEEDED">>
    OBVIOUS
  <2>8. /\ seenEvents'[c] = <<refusal.class, "DEADLINE_EXCEEDED">>
        /\ \A d \in Calls \ {c} : seenEvents'[d] = seenEvents[d]
    BY <1>0, <2>2, <2>6, <2>7 DEF TypeOK
  <2>9. /\ open'[c] = FALSE /\ events'[c] = <<>> /\ output'[c] = "DEADLINE_EXCEEDED"
        /\ \A d \in Calls \ {c} :
             open'[d] = open[d] /\ events'[d] = events[d] /\ output'[d] = output[d]
    BY <1>0, <2>1, ReturnCloses
  <2>10. EventAt(c)'
    BY <2>3, <2>5, <2>8, <2>9 DEF EventAt
  <2>11. \A d \in Calls \ {c} : SameEvents(d)
    BY <2>4, <2>5, <2>8, <2>9 DEF SameEvents
  <2>12. QED
    BY <2>10, <2>11, EventsOfOneCall
<1>5. ASSUME NEW c \in Calls, ResolveFails(c)
      PROVE  EventInv'
  <2>1. PICK result \in Bare({"RESOURCE_UNAVAILABLE", "INTERNAL_ERROR"})
                           \cup Receipted({"INTEGRITY_FAILURE"}),
             version \in Versions \cup {NoVersion} : Conclude(c, result, version)
    BY <1>5 DEF ResolveFails
  <2>2. result \in Outcomes
    BY DEF Bare, Receipted, Outcomes, Classes, Errors
  <2>3. phase[c] = "resolving" /\ entryAborted' = entryAborted
    BY <1>5 DEF ResolveFails
  <2>4. QED
    BY <2>1, <2>2, <2>3, ConcludeEvents
<1>6. ASSUME NEW c \in Calls, ConcludeOnRecord(c)
      PROVE  EventInv'
  <2>1. PICK version \in Versions, result \in RecordChecks(operation[c]) :
           Conclude(c, result, version)
    BY <1>6 DEF ConcludeOnRecord
  <2>2. operation[c] \in Operations
    BY <1>0 DEF TypeOK
  <2>3. result \in Receipted(Classes \ {"DEADLINE_EXCEEDED"})
    BY <2>2, OutcomeTypes
  <2>4. result \in Outcomes
    BY <2>3 DEF Receipted, Outcomes
  <2>5. phase[c] = "resolving" /\ entryAborted' = entryAborted
    BY <1>6 DEF ConcludeOnRecord
  <2>6. QED
    BY <2>1, <2>4, <2>5, ConcludeEvents
<1>7. ASSUME NEW c \in Calls, IssueRead(c)
      PROVE  EventInv'
  <2>1. /\ phase[c] = "resolving" /\ outcome' = outcome /\ open' = open /\ events' = events
        /\ output' = output /\ seenEvents' = seenEvents /\ entryAborted' = entryAborted
    BY <1>7 DEF IssueRead, gate, seen
  <2>2. phase'[c] = "reading" /\ \A d \in Calls \ {c} : phase'[d] = phase[d]
    BY <1>0, <1>7 DEF IssueRead, TypeOK
  <2>3. EventAt(c)'
    BY <1>0, <2>1, <2>2 DEF EventAt
  <2>4. \A d \in Calls \ {c} : SameEvents(d)
    BY <2>1, <2>2 DEF SameEvents
  <2>5. QED
    BY <2>3, <2>4, EventsOfOneCall
<1>8. ASSUME NEW c \in Calls, ReadFails(c)
      PROVE  EventInv'
  <2>1. PICK result \in Receipted({"INTERNAL_ERROR", "INTEGRITY_FAILURE"})
                           \cup Bare({"RESOURCE_UNAVAILABLE"}) : Conclude(c, result, record[c])
    BY <1>8 DEF ReadFails, Receipted, Bare
  <2>2. result \in Outcomes
    BY DEF Bare, Receipted, Outcomes, Classes, Errors
  <2>3. phase[c] = "reading" /\ entryAborted' = entryAborted
    BY <1>8 DEF ReadFails
  <2>4. QED
    BY <2>1, <2>2, <2>3, ConcludeEvents
<1>9. ASSUME NEW c \in Calls, ReadVerified(c)
      PROVE  EventInv'
  <2>1. PICK result \in VerifiedOutcomes(operation[c]) : Conclude(c, result, record[c])
    BY <1>9 DEF ReadVerified
  <2>2. phase[c] = "reading" /\ entryAborted' = entryAborted
    BY <1>9 DEF ReadVerified
  <2>3. ReadsBytes(operation[c]) /\ operation[c] \in Operations
    BY <1>0, <2>2 DEF CallInv, TypeOK
  <2>4. result \in Outcomes
    BY <2>3, OutcomeTypes DEF Outcomes
  <2>5. QED
    BY <2>1, <2>2, <2>4, ConcludeEvents
<1>10. ASSUME NEW c \in Calls, Store(c)
       PROVE  EventInv'
  <2>1. /\ phase' = phase /\ outcome' = outcome /\ open' = open /\ events' = events
        /\ output' = output /\ seenEvents' = seenEvents /\ entryAborted' = entryAborted
    BY <1>10 DEF Store, gate, seen
  <2>2. QED
    BY <2>1 DEF EventInv, EventAt
<1>11. ASSUME NEW c \in Calls, Acknowledge(c) \/ AppendFails(c), ~open[c]
       PROVE  EventInv'
  <2>1. /\ outcome' = outcome /\ open' = open /\ events' = events
        /\ output' = output /\ seenEvents' = seenEvents /\ entryAborted' = entryAborted
    BY <1>11 DEF Acknowledge, AppendFails, gate, seen
  <2>2. phase'[c] = "ended" /\ \A d \in Calls \ {c} : phase'[d] = phase[d]
    BY <1>0, <1>11 DEF Acknowledge, AppendFails, TypeOK
  <2>3. EventAt(c)'
    BY <1>0, <1>11, <2>1, <2>2 DEF EventAt
  <2>4. \A d \in Calls \ {c} : SameEvents(d)
    BY <2>1, <2>2 DEF SameEvents
  <2>5. QED
    BY <2>3, <2>4, EventsOfOneCall
<1>12. ASSUME NEW c \in Calls, Acknowledge(c) \/ AppendFails(c) \/ Deadline(c), open[c]
       PROVE  EventInv'
  <2>1. output[c] = "none" /\ outcome[c].class \in Classes
    BY <1>0, <1>12 DEF CallInv, TypeOK, Outcomes
  <2>2. outcome' = outcome /\ entryAborted' = entryAborted
    BY <1>12 DEF Acknowledge, AppendFails, Deadline
  <2>3. \A d \in Calls \ {c} : phase'[d] = phase[d]
    BY <1>0, <1>12 DEF Acknowledge, AppendFails, Deadline, TypeOK
  <2>4. \E class \in Classes :
           /\ Return(c, class)
           /\ \/ seenEvents' = [seenEvents EXCEPT ![c] = Append(@, class)]
              \/ seenEvents' = [seenEvents EXCEPT ![c] = @ \o <<class>>]
    <3>1. CASE Acknowledge(c)
      <4>1. events[c] = <<outcome[c].class>>
        BY <1>0, <1>12, <3>1 DEF EventAt, Acknowledge
      <4>2. CommitAndReturn(c, outcome[c].class, receipts[c], events[c])
        BY <1>12, <3>1 DEF Acknowledge
      <4>3. QED
        BY <2>1, <4>1, <4>2 DEF CommitAndReturn
    <3>2. CASE AppendFails(c)
      BY <1>12, <3>2 DEF AppendFails, Classes, Errors
    <3>3. CASE Deadline(c)
      BY <3>3 DEF Deadline, ReturnDeadline, Classes, Errors
    <3>4. QED
      BY <1>12, <3>1, <3>2, <3>3
  <2>5. EventAt(c)' /\ \A d \in Calls \ {c} : /\ open'[d] = open[d] /\ events'[d] = events[d]
                                             /\ output'[d] = output[d]
                                             /\ seenEvents'[d] = seenEvents[d]
    BY <1>0, <2>1, <2>4, OneEvent
  <2>6. \A d \in Calls \ {c} : SameEvents(d)
    BY <2>2, <2>3, <2>5 DEF SameEvents
  <2>7. QED
    BY <2>5, <2>6, EventsOfOneCall
<1>13. ASSUME NEW c \in Calls, Acknowledge(c) \/ AppendFails(c) \/ Deadline(c)
       PROVE  EventInv'
  BY <1>11, <1>12, <1>13 DEF Deadline
<1>14. QED
  BY <1>1, <1>2, <1>3, <1>4, <1>5, <1>6, <1>7, <1>8, <1>9, <1>10, <1>13 DEF Next

\* The last event says what was returned, and it is the only one unless the request was
\* cancelled before its handler ran: for any number of calls and versions.
THEOREM EventsMatch == Spec => []EventMatchesAnswer
<1>1. Init => EventInv
  BY DEF Init, EventInv, EventAt
<1>2. IInv /\ EventInv /\ [Next]_vars => EventInv'
  <2>1. EventInv /\ UNCHANGED vars => EventInv'
    BY DEF EventInv, EventAt, vars, gate, seen
  <2>2. QED
    BY <2>1, EventStep
<1>3. EventInv => EventMatchesAnswer
  <2> SUFFICES ASSUME EventInv, NEW c \in Calls
               PROVE  /\ output[c] # "none" <=> seenEvents[c] # <<>>
                      /\ output[c] # "none" =>
                           /\ seenEvents[c][Len(seenEvents[c])] = output[c]
                           /\ Len(seenEvents[c]) = 1 \/ entryAborted[c]
    BY DEF EventMatchesAnswer
  <2>1. EventAt(c)
    BY DEF EventInv
  <2>2. CASE output[c] = "none"
    BY <2>1, <2>2 DEF EventAt
  <2>3. CASE output[c] # "none" /\ seenEvents[c] = <<output[c]>>
    BY <2>3
  <2>4. CASE output[c] # "none" /\ entryAborted[c]
             /\ \E class \in Classes : seenEvents[c] = <<class, output[c]>>
    BY <2>4
  <2>5. QED
    BY <2>1, <2>2, <2>3, <2>4 DEF EventAt
<1>4. QED
  BY <1>1, <1>2, <1>3, Inductive, PTL DEF Spec

-----------------------------------------------------------------------------
(***************************************************************************)
(* The registration implements EvidencedAnswers.                           *)
(***************************************************************************)

\* The mapped variables.
answers == [c \in Calls |-> Answer(c)]
recorded == {c \in Calls : \E r \in journal : r.call = c}
told == {c \in Calls : seenReceipts[c] # <<>>}

\* Nothing is answered, recorded or told at first.
LEMMA EvidenceInitially == Init => Evidence!EvidenceInit
<1> SUFFICES ASSUME Init PROVE Evidence!EvidenceInit
  OBVIOUS
<1>1. \A c \in Calls : Answer(c) = "none"
  BY DEF Init, Answer
<1>2. recorded = {} /\ told = {}
  BY DEF Init, recorded, told
<1>3. QED
  BY <1>1, <1>2 DEF Evidence!EvidenceInit, recorded, told

\* A step of a call does nothing to the answers and receipts of the others.
LEMMA EvidenceOfOthers ==
    ASSUME NEW c \in Calls, StepOf(c), NEW d \in Calls \ {c}
    PROVE  /\ Answer(d)' = Answer(d)
           /\ d \in recorded' <=> d \in recorded
           /\ d \in told' <=> d \in told
<1>1. Same(d)
  BY DEF StepOf
<1>2. Answer(d)' = Answer(d)
  BY <1>1 DEF Same, Answer
<1>3. d \in told' <=> d \in told
  BY <1>1 DEF Same, told
<1>4. d \in recorded' <=> d \in recorded
  BY DEF StepOf, recorded
<1>5. QED
  BY <1>2, <1>3, <1>4

\* If they stay the same for the call that steps as well, the step is a stutter.
LEMMA EvidenceStutter ==
    ASSUME NEW c \in Calls, StepOf(c), Answer(c)' = Answer(c),
           c \in recorded' <=> c \in recorded, c \in told' <=> c \in told
    PROVE  answers' = answers /\ recorded' = recorded /\ told' = told
<1>1. \A d \in Calls : /\ Answer(d)' = Answer(d)
                       /\ d \in recorded' <=> d \in recorded
                       /\ d \in told' <=> d \in told
  BY EvidenceOfOthers
<1>2. answers' = answers
  BY <1>1 DEF answers
<1>3. recorded' = recorded
  <2>1. recorded \subseteq Calls /\ recorded' \subseteq Calls
    BY DEF recorded
  <2>2. QED
    BY <1>1, <2>1
<1>4. told' = told
  <2>1. told \subseteq Calls /\ told' \subseteq Calls
    BY DEF told
  <2>2. QED
    BY <1>1, <2>1
<1>5. QED
  BY <1>2, <1>3, <1>4

\* What the invariant says of the evidence of one call.
LEMMA EvidenceAt ==
    ASSUME NEW c \in Calls, CallInv(c), JournalAt(c)
    PROVE  /\ Answer(c) = "evidenced" => c \in recorded /\ c \in told
           /\ Answer(c) # "evidenced" => c \notin told
           /\ Answer(c) = "unevidenced" => c \notin recorded
<1>1. MyReceipt(c).call = c
  BY DEF MyReceipt, ReceiptOf
<1>2. ASSUME Answer(c) = "evidenced"
      PROVE  c \in recorded /\ c \in told
  <2>1. /\ output[c] \notin {"none", "DEADLINE_EXCEEDED"} /\ ~journalFailure[c]
        /\ outcome[c].receipt
    BY <1>2 DEF Answer
  <2>2. MyReceipt(c) \in journal /\ seenReceipts[c] = <<MyReceipt(c)>>
    BY <2>1 DEF CallInv
  <2>3. <<MyReceipt(c)>> # <<>>
    OBVIOUS
  <2>4. QED
    BY <1>1, <2>2, <2>3 DEF recorded, told
<1>3. ASSUME Answer(c) # "evidenced"
      PROVE  c \notin told
  BY <1>3 DEF Answer, CallInv, told
<1>4. ASSUME Answer(c) = "unevidenced"
      PROVE  c \notin recorded
  BY <1>4 DEF Answer, JournalAt, recorded
<1>5. QED
  BY <1>2, <1>3, <1>4

\* The same of the next state.
LEMMA EvidenceAtNext ==
    ASSUME NEW c \in Calls, CallInv(c)', JournalAt(c)'
    PROVE  /\ Answer(c)' = "evidenced" => c \in recorded' /\ c \in told'
           /\ Answer(c)' # "evidenced" => c \notin told'
           /\ Answer(c)' = "unevidenced" => c \notin recorded'
<1>1. MyReceipt(c)'.call = c
  BY DEF MyReceipt, ReceiptOf
<1>2. ASSUME Answer(c)' = "evidenced"
      PROVE  c \in recorded' /\ c \in told'
  <2>1. /\ output'[c] \notin {"none", "DEADLINE_EXCEEDED"} /\ ~journalFailure'[c]
        /\ outcome'[c].receipt
    BY <1>2 DEF Answer
  <2>2. MyReceipt(c)' \in journal' /\ seenReceipts'[c] = <<MyReceipt(c)'>>
    BY <2>1 DEF CallInv
  <2>3. <<MyReceipt(c)'>> # <<>>
    OBVIOUS
  <2>4. QED
    BY <1>1, <2>2, <2>3 DEF recorded, told
<1>3. ASSUME Answer(c)' # "evidenced"
      PROVE  c \notin told'
  BY <1>3 DEF Answer, CallInv, told
<1>4. ASSUME Answer(c)' = "unevidenced"
      PROVE  c \notin recorded'
  BY <1>4 DEF Answer, JournalAt, recorded
<1>5. QED
  BY <1>2, <1>3, <1>4

\* A step of a call records its receipt, answers it, or leaves the evidence alone.
LEMMA EvidenceSimulation ==
    ASSUME TypeOK, TypeOK', EvidenceInv, EvidenceInv', NEW c \in Calls, StepOf(c)
    PROVE  \/ Evidence!Record(c) \/ Evidence!Deliver(c) \/ Evidence!Refuse(c) \/ Evidence!GiveUp(c)
           \/ answers' = answers /\ recorded' = recorded /\ told' = told
<1>1. CallInv(c) /\ JournalAt(c)
  BY ByCall DEF TypeOK
<1>2. CallInv(c)' /\ JournalAt(c)'
  BY ByCallNext DEF TypeOK
<1>3. /\ Answer(c) \in {"none", "given up", "evidenced", "unevidenced"}
      /\ Answer(c)' \in {"none", "given up", "evidenced", "unevidenced"}
  BY DEF Answer
<1>4. /\ answers \in [Calls -> {"none", "given up", "evidenced", "unevidenced"}]
      /\ \A d \in Calls : answers[d] = Answer(d) /\ answers'[d] = Answer(d)'
  BY DEF answers, Answer
<1>5. CASE journal' # journal
  <2>1. Store(c)
    BY <1>5 DEF StepOf
  <2>2. /\ phase[c] = "appending" /\ output' = output /\ outcome' = outcome
        /\ journalFailure' = journalFailure /\ seenReceipts' = seenReceipts
        /\ journal' = journal \cup {MyReceipt(c)} /\ MyReceipt(c) \notin journal
    BY <1>5, <2>1 DEF Store, seen, MyReceipt
  <2>3. answers' = answers /\ told' = told
    BY <2>2 DEF answers, Answer, told
  <2>4. MyReceipt(c).call = c
    BY DEF MyReceipt, ReceiptOf
  <2>5. c \notin recorded
    BY <1>1, <2>2 DEF JournalAt, recorded
  <2>6. recorded' = recorded \cup {c}
    BY <2>2, <2>4 DEF recorded
  <2>7. Answer(c) \in {"none", "given up"}
    BY <1>1, <2>2 DEF CallInv, Answer
  <2>8. Evidence!Record(c)
    BY <1>4, <2>3, <2>5, <2>6, <2>7 DEF Evidence!Record, answers, recorded, told
  <2>9. QED
    BY <2>8
<1>6. CASE journal' = journal /\ output[c] # "none"
  <2>1. /\ output'[c] = output[c] /\ journalFailure'[c] = journalFailure[c]
        /\ seenReceipts'[c] = seenReceipts[c]
        /\ output[c] # "DEADLINE_EXCEEDED" => outcome'[c] = outcome[c]
    BY <1>6 DEF StepOf, Final
  <2>2. Answer(c)' = Answer(c)
    BY <1>6, <2>1 DEF Answer
  <2>3. (c \in recorded' <=> c \in recorded) /\ (c \in told' <=> c \in told)
    BY <1>6, <2>1 DEF recorded, told
  <2>4. QED
    BY <2>2, <2>3, EvidenceStutter
<1>7. CASE journal' = journal /\ output[c] = "none"
  <2>1. Answer(c) = "none" /\ c \notin told
    BY <1>1, <1>7, EvidenceAt DEF Answer
  <2>2. recorded' = recorded
    BY <1>7 DEF recorded
  <2>3. answers' = [answers EXCEPT ![c] = Answer(c)']
    BY <1>4, EvidenceOfOthers DEF answers
  <2>4. told' = IF Answer(c)' = "evidenced" THEN told \cup {c} ELSE told
    <3>1. told \subseteq Calls /\ told' \subseteq Calls
      BY DEF told
    <3>2. c \in told' <=> Answer(c)' = "evidenced"
      BY <1>2, EvidenceAtNext
    <3>3. \A d \in Calls \ {c} : d \in told' <=> d \in told
      BY EvidenceOfOthers
    <3>4. QED
      BY <2>1, <3>1, <3>2, <3>3
  <2>5. CASE Answer(c)' = "none"
    BY <2>1, <2>2, <2>3, <2>4, <2>5, <1>4
  <2>6. CASE Answer(c)' = "given up"
    <3>1. Evidence!GiveUp(c)
      BY <1>4, <2>1, <2>2, <2>3, <2>4, <2>6 DEF Evidence!GiveUp, answers, recorded, told
    <3>2. QED
      BY <3>1
  <2>7. CASE Answer(c)' = "evidenced"
    <3>1. c \in recorded
      BY <1>2, <2>2, <2>7, EvidenceAtNext
    <3>2. Evidence!Deliver(c)
      BY <1>4, <2>1, <2>2, <2>3, <2>4, <2>7, <3>1 DEF Evidence!Deliver, answers, recorded, told
    <3>3. QED
      BY <3>2
  <2>8. CASE Answer(c)' = "unevidenced"
    <3>1. c \notin recorded
      BY <1>2, <2>2, <2>8, EvidenceAtNext
    <3>2. Evidence!Refuse(c)
      BY <1>4, <2>1, <2>2, <2>3, <2>4, <2>8, <3>1 DEF Evidence!Refuse, answers, recorded, told
    <3>3. QED
      BY <3>2
  <2>9. QED
    BY <1>3, <2>5, <2>6, <2>7, <2>8
<1>8. QED
  BY <1>5, <1>6, <1>7

\* The registration, its gate, its deadline and its journal together keep the promise of
\* EvidencedAnswers: a source-bound answer and what observers learn of it come only after
\* its receipt is durable.
THEOREM KeepsPromise == Spec => KeepsEvidencePromise
<1>1. ASSUME IInv, IInv', [Next]_vars
      PROVE  [Evidence!EvidenceNext]_(Evidence!evidence)
  <2>1. CASE Next
    <3>1. PICK c \in Calls : StepOf(c)
      BY <1>1, <2>1, EvidenceStep DEF IInv
    <3>2. \/ Evidence!Record(c) \/ Evidence!Deliver(c) \/ Evidence!Refuse(c) \/ Evidence!GiveUp(c)
          \/ answers' = answers /\ recorded' = recorded /\ told' = told
      BY <1>1, <3>1, EvidenceSimulation DEF IInv
    <3>3. QED
      BY <3>2 DEF Evidence!EvidenceNext, Evidence!evidence, answers, recorded, told
  <2>2. CASE UNCHANGED vars
    <3>1. answers' = answers /\ recorded' = recorded /\ told' = told
      BY <2>2 DEF vars, seen, answers, Answer, recorded, told
    <3>2. QED
      BY <3>1 DEF Evidence!evidence, answers, recorded, told
  <2>3. QED
    BY <1>1, <2>1, <2>2
<1>2. QED
  BY <1>1, EvidenceInitially, Inductive, PTL DEF Spec, KeepsEvidencePromise, Evidence!EvidenceSpec
=============================================================================
