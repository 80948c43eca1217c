----------------------- MODULE BoundedTransportProofs -----------------------
(***************************************************************************)
(* The process and its frames, proved for any files, calls, ids, outputs   *)
(* and ceilings.  First the process of StdioLifecycle by itself: the       *)
(* credential it serves with, the file that comes from and the one close   *)
(* of the server.  Then the frames: the process goes on as before, and no  *)
(* answer of a memory tool is over the ceiling.                            *)
(***************************************************************************)
EXTENDS BoundedTransport, TLAPS

-----------------------------------------------------------------------------
(***************************************************************************)
(* The process.  Its safety properties are not inductive: which file is in *)
(* use depends on how far startup got (Progress), and the one close on the *)
(* listeners that are left (ClosesOnce).                                   *)
(***************************************************************************)

\* How far startup got says what the loader holds: an open file while it is checked and
\* read, a credential from the last read on.
Progress ==
    /\ stage \in {"checking", "reading"} => handle \in Files
    /\ stage = "reading" => handle \in checked
    /\ stage \in {"new", "opening", "checking", "reading"} => credential = NoFile
    /\ stage \in {"parsing", "verifying"} => credential # NoFile
    /\ stage \in {"new", "opening", "checking", "reading", "parsing", "verifying", "abandoning",
                  "failed"} =>
         listening = {} /\ shutdown = "none"
    /\ stage = "failed" => ~ready
    /\ stage \in {"new", "opening", "checking", "reading", "parsing", "verifying", "abandoning"} =>
         ~ready /\ exitCode = 0
    /\ stage = "failed" => exitCode = 1
    /\ stage = "serving" => ready /\ (exitCode = 1 <=> shutdown = "failed")

\* The inductive invariant: the safety properties with what startup has established.
IInv == /\ TypeOK
        /\ Progress
        /\ ServesCheckedCredential
        /\ BodyIsWhole
        /\ FileIsClosed
        /\ ExitCodeTellsFailure
        /\ ClosesOnce

\* A process that has just started holds no file and no credential.
LEMMA InitIInv == Init => IInv
<1> SUFFICES ASSUME Init PROVE IInv
  OBVIOUS
<1> USE LifecycleAssumption DEF Init
<1>1. /\ path \in Files \cup {NoFile}
      /\ secure \in [Files -> BOOLEAN]
      /\ size \in [Files -> 0..MaxSize]
  BY Zenon
<1>2. /\ changes \in 0..MaxChanges
      /\ length \in 0..bufferLength
      /\ exitCode \in 0..1
      /\ closes \in 0..1
      /\ sizeAtEnd \in 0..MaxSize
  BY DEF bufferLength
<1>3. /\ handle \in Files \cup {NoFile}
      /\ credential \in Files \cup {NoFile}
      /\ verified \in Files \cup {NoFile}
      /\ checked \subseteq Files
      /\ listening \subseteq Signals
      /\ stage \in {"new", "abandoning", "serving"} \cup Loading \cup Over
      /\ shutdown \in {"none", "pending", "done", "failed"}
  BY Zenon
<1>4. /\ revoked \in BOOLEAN /\ ready \in BOOLEAN /\ connected \in BOOLEAN
      /\ rejected \in BOOLEAN /\ reused \in BOOLEAN
  BY Zenon
<1>5. TypeOK
  BY <1>1, <1>2, <1>3, <1>4, Zenon DEF TypeOK
<1>6. Progress
  BY DEF Progress
<1>7. ServesCheckedCredential /\ BodyIsWhole /\ FileIsClosed
  BY DEF ServesCheckedCredential, BodyIsWhole, FileIsClosed
<1>8. ExitCodeTellsFailure /\ ClosesOnce
  BY DEF ExitCodeTellsFailure, ClosesOnce
<1> QED
  BY <1>5, <1>6, <1>7, <1>8 DEF IInv

\* What the properties speak of is left alone by what others do to files.
LEMMA FilesStep ==
    ASSUME IInv, Replace \/ \E f \in Files : Chmod(f) \/ Grow(f)
    PROVE  IInv'
<1> USE LifecycleAssumption
<1>1. /\ UNCHANGED <<stage, handle, length, credential, checked, sizeAtEnd>>
      /\ UNCHANGED <<verified, revoked, rejected, reused, ready, connected>>
      /\ UNCHANGED <<listening, shutdown, closes, exitCode>>
      /\ changes' \in 0..MaxChanges
  BY DEF IInv, TypeOK, Replace, Chmod, Grow, Change, loader, session, service, closing
<1>2. path' \in Files \cup {NoFile}
  BY DEF IInv, TypeOK, Replace, Chmod, Grow
<1>3. secure' \in [Files -> BOOLEAN]
  <2>1. secure \in [Files -> BOOLEAN]
    BY DEF IInv, TypeOK
  <2>2. CASE UNCHANGED secure
    BY <2>1, <2>2
  <2>3. ASSUME NEW f \in Files, Chmod(f)
        PROVE  secure' \in [Files -> BOOLEAN]
    BY <2>1, <2>3, Zenon DEF Chmod
  <2> QED
    BY <2>2, <2>3 DEF Replace, Grow
<1>4. size' \in [Files -> 0..MaxSize]
  <2>1. size \in [Files -> 0..MaxSize]
    BY DEF IInv, TypeOK
  <2>2. CASE UNCHANGED size
    BY <2>1, <2>2
  <2>3. ASSUME NEW f \in Files, Grow(f)
        PROVE  size' \in [Files -> 0..MaxSize]
    <3>1. size[f] + 1 \in 0..MaxSize
      BY <2>1, <2>3 DEF Grow
    <3> QED
      BY <2>1, <2>3, <3>1 DEF Grow
  <2> QED
    BY <2>2, <2>3 DEF Replace, Chmod
<1>5. TypeOK'
  BY <1>1, <1>2, <1>3, <1>4 DEF IInv, TypeOK, bufferLength
<1>6. Progress' /\ ServesCheckedCredential' /\ BodyIsWhole' /\ FileIsClosed'
        /\ ExitCodeTellsFailure' /\ ClosesOnce'
  BY <1>1 DEF IInv, Progress, ServesCheckedCredential, BodyIsWhole, FileIsClosed,
              ExitCodeTellsFailure, ClosesOnce
<1> QED
  BY <1>5, <1>6 DEF IInv

\* Startup fails, with the file closed or never opened.
LEMMA FailStep ==
    ASSUME IInv, Refuse \/ OpenFails \/ CheckFails \/ ReadFails \/ ParseFails \/ VerifyFails
                   \/ VerifyTimesOut \/ Abandon
    PROVE  IInv'
<1> USE LifecycleAssumption
<1>1. /\ UNCHANGED <<path, secure, size, changes, length, credential, checked, sizeAtEnd>>
      /\ UNCHANGED <<verified, revoked, rejected, reused, ready, connected>>
      /\ UNCHANGED <<listening, shutdown, closes>>
      /\ stage' = "failed" /\ exitCode' = 1
      /\ stage \in {"new", "opening", "checking", "reading", "parsing", "verifying", "abandoning"}
  BY DEF Refuse, OpenFails, CheckFails, ReadFails, ParseFails, VerifyFails, VerifyTimesOut,
         Abandon, Fail, CloseAndFail, files, loader, session, service, closing
<1>2. handle' = NoFile
  BY DEF IInv, TypeOK, FileIsClosed, Refuse, OpenFails, CheckFails, ReadFails, ParseFails,
         VerifyFails, VerifyTimesOut, Abandon, CloseAndFail, loader
<1>3. TypeOK'
  BY <1>1, <1>2 DEF IInv, TypeOK, Loading, Over, bufferLength
<1>4. Progress' /\ ServesCheckedCredential' /\ BodyIsWhole' /\ FileIsClosed'
        /\ ExitCodeTellsFailure' /\ ClosesOnce'
  BY <1>1, <1>2 DEF IInv, Progress, ServesCheckedCredential, BodyIsWhole, FileIsClosed,
                    ExitCodeTellsFailure, ClosesOnce
<1> QED
  BY <1>3, <1>4 DEF IInv

\* The loader goes on: the file that is opened is the one that is checked and read.
LEMMA LoadStep ==
    ASSUME IInv, Launch \/ Open \/ Check \/ Read \/ ReadAll \/ Parse
    PROVE  IInv'
<1> USE LifecycleAssumption
<1>1. /\ UNCHANGED <<path, secure, size, changes>>
      /\ UNCHANGED <<verified, revoked, rejected, reused, ready, connected>>
      /\ UNCHANGED <<listening, shutdown, closes, exitCode>>
  BY DEF Launch, Open, Check, Read, ReadAll, Parse, files, loader, session, service, closing
<1>2. CASE Launch \/ Parse
  <2>1. UNCHANGED <<handle, length, credential, checked, sizeAtEnd>>
    BY <1>2 DEF Launch, Parse, loader
  <2>2. \/ stage = "new" /\ stage' = "opening"
        \/ stage = "parsing" /\ stage' = "verifying"
    BY <1>2 DEF Launch, Parse
  <2>3. TypeOK'
    BY <1>1, <2>1, <2>2 DEF IInv, TypeOK, Loading, Over, bufferLength
  <2>4. Progress' /\ ServesCheckedCredential' /\ BodyIsWhole' /\ FileIsClosed'
          /\ ExitCodeTellsFailure' /\ ClosesOnce'
    BY <1>1, <2>1, <2>2 DEF IInv, Progress, ServesCheckedCredential, BodyIsWhole, FileIsClosed,
                            ExitCodeTellsFailure, ClosesOnce
  <2> QED
    BY <2>3, <2>4 DEF IInv
<1>3. CASE Open
  <2>1. /\ stage = "opening" /\ stage' = "checking"
        /\ handle' \in Files
        /\ UNCHANGED <<length, credential, checked, sizeAtEnd>>
    BY <1>3 DEF Open, IInv, TypeOK
  <2>2. TypeOK'
    BY <1>1, <2>1 DEF IInv, TypeOK, Loading, Over, bufferLength
  <2>3. Progress' /\ ServesCheckedCredential' /\ BodyIsWhole' /\ FileIsClosed'
          /\ ExitCodeTellsFailure' /\ ClosesOnce'
    BY <1>1, <2>1 DEF IInv, Progress, ServesCheckedCredential, BodyIsWhole, FileIsClosed,
                      ExitCodeTellsFailure, ClosesOnce
  <2> QED
    BY <2>2, <2>3 DEF IInv
<1>4. CASE Check
  <2>1. /\ stage = "checking" /\ stage' = "reading"
        /\ UNCHANGED <<handle, length, credential, sizeAtEnd>>
    BY <1>4 DEF Check
  <2>2. checked' \subseteq Files /\ handle \in checked'
    BY <1>4 DEF Check, Passes
  <2>3. TypeOK'
    BY <1>1, <2>1, <2>2 DEF IInv, TypeOK, Loading, Over, bufferLength
  <2>4. Progress' /\ ServesCheckedCredential' /\ BodyIsWhole' /\ FileIsClosed'
          /\ ExitCodeTellsFailure' /\ ClosesOnce'
    BY <1>1, <2>1, <2>2 DEF IInv, Progress, ServesCheckedCredential, BodyIsWhole, FileIsClosed,
                            ExitCodeTellsFailure, ClosesOnce
  <2> QED
    BY <2>3, <2>4 DEF IInv
<1>5. CASE Read
  <2>1. /\ stage = "reading"
        /\ UNCHANGED <<stage, handle, credential, checked, sizeAtEnd>>
    BY <1>5 DEF Read
  <2>2. length' \in 0..bufferLength
    BY <1>5 DEF Read, IInv, TypeOK, bufferLength
  <2>3. TypeOK'
    BY <1>1, <2>1, <2>2 DEF IInv, TypeOK
  <2>4. Progress' /\ ServesCheckedCredential' /\ BodyIsWhole' /\ FileIsClosed'
          /\ ExitCodeTellsFailure' /\ ClosesOnce'
    BY <1>1, <2>1 DEF IInv, Progress, ServesCheckedCredential, BodyIsWhole, FileIsClosed,
                      ExitCodeTellsFailure, ClosesOnce
  <2> QED
    BY <2>3, <2>4 DEF IInv
<1>6. CASE ReadAll
  <2>1. /\ stage = "reading" /\ stage' = "parsing"
        /\ handle' = NoFile
        /\ credential' = handle
        /\ UNCHANGED <<length, checked>>
    BY <1>6 DEF ReadAll
  <2>2. handle \in Files /\ handle \in checked
    BY <2>1 DEF IInv, Progress
  <2>3. /\ sizeAtEnd' \in 0..MaxSize
        /\ sizeAtEnd' <= length
        /\ length <= MAX_CREDENTIAL_BYTES
    BY <1>6, <2>2 DEF ReadAll, IInv, TypeOK, bufferLength
  <2>4. TypeOK'
    BY <1>1, <2>1, <2>2, <2>3 DEF IInv, TypeOK, Loading, Over, bufferLength
  <2>5. Progress' /\ ServesCheckedCredential' /\ BodyIsWhole' /\ FileIsClosed'
          /\ ExitCodeTellsFailure' /\ ClosesOnce'
    BY <1>1, <2>1, <2>2, <2>3 DEF IInv, Progress, ServesCheckedCredential, BodyIsWhole,
                                  FileIsClosed, ExitCodeTellsFailure, ClosesOnce
  <2> QED
    BY <2>4, <2>5 DEF IInv
<1> QED
  BY <1>2, <1>3, <1>4, <1>5, <1>6

\* Upstream confirms the token that was read, and the server is served or given up.
LEMMA ServeStep ==
    ASSUME IInv, Serve \/ ServeFails
    PROVE  IInv'
<1> USE LifecycleAssumption
<1>1. /\ UNCHANGED <<path, secure, size, changes, handle, length, credential, checked, sizeAtEnd>>
      /\ UNCHANGED <<revoked, rejected, reused, shutdown, closes, exitCode>>
      /\ stage = "verifying"
      /\ verified' = credential
      /\ \/ stage' = "serving" /\ ready' = TRUE /\ connected' = TRUE /\ listening' = Signals
         \/ stage' = "abandoning" /\ ready' = ready /\ connected' = connected
                                 /\ listening' = listening
  BY DEF Serve, ServeFails, Verify, files, loader, service, closing
<1>2. TypeOK'
  BY <1>1 DEF IInv, TypeOK, Loading, Over, bufferLength
<1>3. Progress' /\ ServesCheckedCredential' /\ BodyIsWhole' /\ FileIsClosed'
        /\ ExitCodeTellsFailure' /\ ClosesOnce'
  BY <1>1 DEF IInv, TypeOK, Progress, ServesCheckedCredential, BodyIsWhole, FileIsClosed,
              ExitCodeTellsFailure, ClosesOnce
<1> QED
  BY <1>2, <1>3 DEF IInv

\* Tool calls, a closing transport and a revoked token leave the credential alone.
LEMMA SessionStep ==
    ASSUME IInv, CallUpstream \/ TransportCloses \/ Revoke
    PROVE  IInv'
<1> USE LifecycleAssumption
<1>1. /\ UNCHANGED <<path, secure, size, changes, handle, length, credential, checked, sizeAtEnd>>
      /\ UNCHANGED <<stage, verified, ready, listening, shutdown, closes, exitCode>>
  BY DEF CallUpstream, TransportCloses, Revoke, files, loader, session, service, closing
<1>2. /\ revoked' \in BOOLEAN /\ connected' \in BOOLEAN
      /\ rejected' \in BOOLEAN /\ reused' \in BOOLEAN
  BY Zenon DEF IInv, TypeOK, CallUpstream, TransportCloses, Revoke, session, service
<1>3. TypeOK'
  BY <1>1, <1>2 DEF IInv, TypeOK, bufferLength
<1>4. Progress' /\ ServesCheckedCredential' /\ BodyIsWhole' /\ FileIsClosed'
        /\ ExitCodeTellsFailure' /\ ClosesOnce'
  BY <1>1 DEF IInv, Progress, ServesCheckedCredential, BodyIsWhole, FileIsClosed,
              ExitCodeTellsFailure, ClosesOnce
<1> QED
  BY <1>3, <1>4 DEF IInv

\* Signals and the end of the process.
LEMMA CloseStep ==
    ASSUME IInv, CloseSettles \/ Exit \/ \E s \in Signals : Shutdown(s) \/ Kill(s)
    PROVE  IInv'
<1> USE LifecycleAssumption
<1>1. /\ UNCHANGED <<path, secure, size, changes, handle, length, credential, checked, sizeAtEnd>>
      /\ UNCHANGED <<verified, revoked, rejected, reused, ready>>
  BY DEF CloseSettles, Exit, Shutdown, Kill, files, loader, session, service
<1>2. CASE CloseSettles
  <2>1. /\ stage = "serving" /\ stage' = stage
        /\ shutdown = "pending"
        /\ connected' = FALSE
        /\ listening' = listening /\ closes' = closes
    BY <1>2 DEF CloseSettles
  <2>2. \/ shutdown' = "done" /\ exitCode' = exitCode
        \/ shutdown' = "failed" /\ exitCode' = 1
    BY <1>2 DEF CloseSettles, closeSettles
  <2>3. TypeOK'
    <3>1. connected' \in BOOLEAN
      BY <2>1, Zenon
    <3>2. shutdown' \in {"none", "pending", "done", "failed"} /\ exitCode' \in 0..1
      BY <2>2 DEF IInv, TypeOK
    <3>3. stage' = stage /\ listening' = listening /\ closes' = closes
      BY <2>1
    <3> QED
      BY <1>1, <3>1, <3>2, <3>3 DEF IInv, TypeOK, bufferLength
  <2>4. Progress' /\ ServesCheckedCredential' /\ BodyIsWhole' /\ FileIsClosed'
          /\ ExitCodeTellsFailure' /\ ClosesOnce'
    BY <1>1, <2>1, <2>2 DEF IInv, Progress, ServesCheckedCredential, BodyIsWhole, FileIsClosed,
                            ExitCodeTellsFailure, ClosesOnce
  <2> QED
    BY <2>3, <2>4 DEF IInv
<1>3. CASE Exit
  <2>1. /\ stage \in {"failed", "serving"} /\ stage' = "exited"
        /\ connected' = connected /\ exitCode' = exitCode
        /\ listening' = listening /\ shutdown' = shutdown /\ closes' = closes
    BY <1>3 DEF Exit, service, closing
  <2>2. TypeOK'
    BY <1>1, <2>1 DEF IInv, TypeOK, Loading, Over, bufferLength
  <2>3. Progress' /\ ServesCheckedCredential' /\ BodyIsWhole' /\ FileIsClosed' /\ ClosesOnce'
    BY <1>1, <2>1 DEF IInv, Progress, ServesCheckedCredential, BodyIsWhole, FileIsClosed,
                      ClosesOnce
  <2>4. ExitCodeTellsFailure'
    BY <1>1, <2>1 DEF IInv, Progress, ExitCodeTellsFailure
  <2> QED
    BY <2>2, <2>3, <2>4 DEF IInv
<1>4. ASSUME NEW s \in Signals, Kill(s)
      PROVE  IInv'
  <2>1. /\ stage' = "killed"
        /\ connected' = connected /\ exitCode' = exitCode
        /\ listening' = listening /\ shutdown' = shutdown /\ closes' = closes
    BY <1>4 DEF Kill, service, closing
  <2>2. TypeOK'
    BY <1>1, <2>1 DEF IInv, TypeOK, Loading, Over, bufferLength
  <2>3. Progress' /\ ServesCheckedCredential' /\ BodyIsWhole' /\ FileIsClosed'
          /\ ExitCodeTellsFailure' /\ ClosesOnce'
    BY <1>1, <2>1 DEF IInv, Progress, ServesCheckedCredential, BodyIsWhole, FileIsClosed,
                      ExitCodeTellsFailure, ClosesOnce
  <2> QED
    BY <2>2, <2>3 DEF IInv
<1>5. ASSUME NEW s \in Signals, Shutdown(s)
      PROVE  IInv'
  <2>1. /\ stage = "serving" /\ stage' = stage
        /\ connected' = connected /\ exitCode' = exitCode
        /\ s \in listening /\ listening' = listening \ {s}
    BY <1>5 DEF Shutdown, service
  <2>2. \/ shutdown = "none" /\ shutdown' = "pending" /\ closes' = closes + 1
        \/ shutdown # "none" /\ shutdown' = shutdown /\ closes' = closes
    BY <1>5 DEF Shutdown, closeOnce
  <2>3. closes' \in 0..1
    BY <2>2 DEF IInv, TypeOK, ClosesOnce
  <2>4. TypeOK'
    BY <1>1, <2>1, <2>2, <2>3 DEF IInv, TypeOK, Loading, Over, bufferLength
  <2>5. Progress' /\ ServesCheckedCredential' /\ BodyIsWhole' /\ FileIsClosed'
          /\ ExitCodeTellsFailure'
    BY <1>1, <2>1, <2>2 DEF IInv, Progress, ServesCheckedCredential, BodyIsWhole, FileIsClosed,
                            ExitCodeTellsFailure
  <2>6. listening' # Signals
    BY <2>1
  <2>7. ClosesOnce'
    BY <2>2, <2>3, <2>6 DEF IInv, TypeOK, ClosesOnce
  <2> QED
    BY <2>4, <2>5, <2>7 DEF IInv
<1> QED
  BY <1>2, <1>3, <1>4, <1>5

\* Every step of the process and of others keeps the invariant.
LEMMA StepIInv == IInv /\ [Next]_vars => IInv'
<1> SUFFICES ASSUME IInv, [Next]_vars PROVE IInv'
  OBVIOUS
<1>1. CASE UNCHANGED vars
  BY <1>1 DEF vars, files, loader, session, service, closing, IInv, TypeOK, Progress,
              ServesCheckedCredential, BodyIsWhole, FileIsClosed, ExitCodeTellsFailure,
              ClosesOnce, bufferLength
<1>2. CASE Startup
  BY <1>2, FailStep, LoadStep, ServeStep DEF Startup
<1>3. CASE CallUpstream \/ TransportCloses \/ Revoke
  BY <1>3, SessionStep
<1>4. CASE CloseSettles \/ Exit \/ \E s \in Signals : Shutdown(s) \/ Kill(s)
  BY <1>4, CloseStep
<1>5. CASE Replace \/ \E f \in Files : Chmod(f) \/ Grow(f)
  BY <1>5, FilesStep
<1> QED
  BY <1>1, <1>2, <1>3, <1>4, <1>5 DEF Next

\* The inductive invariant holds in every reachable state.
LEMMA Inductive == Spec => []IInv
  BY InitIInv, StepIInv, PTL DEF Spec
-----------------------------------------------------------------------------
\* TypeOK holds always.
THEOREM TypeCorrect == Spec => []TypeOK
<1>1. IInv => TypeOK
  BY DEF IInv
<1> QED
  BY <1>1, Inductive, PTL

\* The credentials in use come from the file that was checked, and upstream confirmed
\* their token before the process served, however files change in between.
THEOREM CredentialChecked == Spec => []ServesCheckedCredential
<1>1. IInv => ServesCheckedCredential
  BY DEF IInv
<1> QED
  BY <1>1, Inductive, PTL

\* No part of a growing file passes for a credential.
THEOREM BodyWhole == Spec => []BodyIsWhole
<1>1. IInv => BodyIsWhole
  BY DEF IInv
<1> QED
  BY <1>1, Inductive, PTL

\* The credential file is closed on every way out of the loader.
THEOREM FileClosed == Spec => []FileIsClosed
<1>1. IInv => FileIsClosed
  BY DEF IInv
<1> QED
  BY <1>1, Inductive, PTL

\* The exit code of a process that ends by itself tells whether startup or its close failed.
THEOREM ExitCodeHonest == Spec => []ExitCodeTellsFailure
<1>1. IInv => ExitCodeTellsFailure
  BY DEF IInv
<1> QED
  BY <1>1, Inductive, PTL

\* Signals close the server at most once.
THEOREM OneClose == Spec => []ClosesOnce
<1>1. IInv => ClosesOnce
  BY DEF IInv
<1> QED
  BY <1>1, Inductive, PTL

-----------------------------------------------------------------------------
(***************************************************************************)
(* The inductive invariant.  A dispatched id is short enough for an error  *)
(* (the check of the request), a success was measured with that id (the    *)
(* check of the governor), and a call that has not started has no verdict. *)
(***************************************************************************)
CallInv(c) ==
    /\ call[c] = "none" => verdict[c] = "none"
    /\ call[c] = "working" => id[c] > 0 /\ id[c] <= MAX_REQUEST_ID_BYTES
    /\ tool[c] = "memory" =>
         /\ call[c] # "refused"
         /\ verdict[c] = "success" => wire[c] <= MAX_RESPONSE_BYTES
         /\ verdict[c] = "RESPONSE_LIMIT_EXCEEDED" =>
              wire[c] + NullIdBytes - 1 > MAX_RESPONSE_BYTES

FrameInv == TrafficOK /\ \A c \in Calls : CallInv(c)

\* The sizes that are measured are natural numbers.
LEMMA SizesAreNatural ==
    /\ \A t \in Tools : \A o \in Outputs[t] : outputBytes(o) \in Nat
    /\ \A t \in Tools, i \in Nat, b \in Nat : responseByteLength(t, i, b) \in Nat
    /\ \A t \in Tools : ErrorBytes[t] \in Nat
PROOF
  <1>1. ASSUME NEW t \in Tools, NEW o \in Outputs[t] PROVE outputBytes(o) \in Nat
    <2>1. o \in OutputShape
      BY TransportAssumption DEF Tools
    <2>2. o.count \in Nat /\ o.rest \in Nat /\ o.character \in Characters
      BY <2>1 DEF OutputShape
    <2>3. jsonBytes(o.character) \in Nat
      BY <2>2 DEF jsonBytes, Characters
    <2>4. o.count * jsonBytes(o.character) \in Nat
      BY <2>2, <2>3
    <2> QED
      BY <2>2, <2>4 DEF outputBytes
  <1>2. ASSUME NEW t \in Tools, NEW i \in Nat, NEW b \in Nat
        PROVE  responseByteLength(t, i, b) \in Nat
    BY TransportAssumption DEF responseByteLength
  <1> QED
    BY <1>1, <1>2, TransportAssumption

\* Every step of the composition is a step of the process or leaves it alone: the frames
\* add to StdioLifecycle, and take nothing away.
LEMMA WireStepIsProcessStep == WireNext => [Next]_vars
PROOF
  <1> SUFFICES ASSUME WireNext PROVE [Next]_vars
    OBVIOUS
  <1>1. CASE ProcessStep
    BY <1>1 DEF ProcessStep
  <1>2. ASSUME NEW c \in Calls, NEW t, NEW i, NEW bytes, Receive(c, t, i, bytes)
        PROVE  UNCHANGED vars
    BY <1>2 DEF Receive
  <1>3. ASSUME NEW c \in Calls, NEW i, NEW bytes, DropRequest(c, i, bytes)
        PROVE  Next
    BY <1>3 DEF DropRequest, Next
  <1>4. ASSUME NEW c \in Calls, NEW o, Succeed(c, o) \/ ExceedLimit(c, o)
        PROVE  UNCHANGED vars
    BY <1>4 DEF Succeed, ExceedLimit, Decide
  <1>5. ASSUME NEW c \in Calls, FailCall(c) \/ Send(c) \/ Lose(c)
        PROVE  UNCHANGED vars
    BY <1>5 DEF FailCall, Decide, Send, Lose
  <1>6. ASSUME NEW c \in Calls, RefuseFrame(c)
        PROVE  Next
    BY <1>6 DEF RefuseFrame, Next
  <1> QED
    BY <1>1, <1>2, <1>3, <1>4, <1>5, <1>6 DEF WireNext

\* Nothing has been asked or answered at the start.
LEMMA FramesInit == WireInit => FrameInv
PROOF
  BY TransportAssumption DEF WireInit, FrameInv, TrafficOK, CallInv, Tools

\* A step that leaves the frames alone keeps what is known of them.
LEMMA FramesStutter == FrameInv /\ UNCHANGED traffic => FrameInv'
PROOF
  <1> SUFFICES ASSUME FrameInv, UNCHANGED traffic PROVE FrameInv'
    OBVIOUS
  <1>1. TrafficOK'
    BY DEF FrameInv, TrafficOK, traffic
  <1>2. ASSUME NEW c \in Calls PROVE CallInv(c)'
    <2>1. CallInv(c)
      BY DEF FrameInv
    <2> QED
      BY <2>1 DEF CallInv, traffic
  <1> QED
    BY <1>1, <1>2 DEF FrameInv

\* An error of any tool fits with any id that is dispatched.
LEMMA ErrorsFit ==
    ASSUME NEW t \in Tools, NEW i \in Nat, i <= MAX_REQUEST_ID_BYTES
    PROVE  responseByteLength(t, i, ErrorBytes[t]) <= MAX_RESPONSE_BYTES
PROOF
  BY TransportAssumption DEF responseByteLength

\* A request is dispatched only with an id within its ceiling, or not at all.
LEMMA RequestsKeep ==
    ASSUME FrameInv, NEW c \in Calls, NEW i \in RequestIds, NEW bytes \in RequestBytes,
           \/ \E t \in Tools : Receive(c, t, i, bytes)
           \/ DropRequest(c, i, bytes)
    PROVE  FrameInv'
PROOF
  <1>1. i \in Nat /\ i > 0
    BY TransportAssumption
  <1>2. CASE \E t \in Tools : Receive(c, t, i, bytes)
    <2>1. PICK t \in Tools : Receive(c, t, i, bytes)
      BY <1>2
    <2>2. i <= MAX_REQUEST_ID_BYTES /\ call[c] = "none"
      BY <2>1 DEF Receive, frameIsBounded
    <2>3. /\ call' = [call EXCEPT ![c] = "working"]
          /\ tool' = [tool EXCEPT ![c] = t]
          /\ id' = [id EXCEPT ![c] = i]
          /\ verdict' = verdict /\ wire' = wire
      BY <2>1 DEF Receive, Set
    <2>4. TrafficOK'
      BY <2>3, <1>1 DEF FrameInv, TrafficOK
    <2>5. ASSUME NEW d \in Calls PROVE CallInv(d)'
      <3>1. CallInv(d)
        BY DEF FrameInv
      <3>2. CASE d = c
        BY <3>1, <3>2, <2>2, <2>3, <1>1 DEF CallInv, FrameInv, TrafficOK
      <3>3. CASE d # c
        BY <3>1, <3>3, <2>3 DEF CallInv, FrameInv, TrafficOK
      <3> QED
        BY <3>2, <3>3
    <2> QED
      BY <2>4, <2>5 DEF FrameInv
  <1>3. CASE DropRequest(c, i, bytes)
    <2>1. /\ call[c] = "none"
          /\ call' = [call EXCEPT ![c] = "dropped"]
          /\ tool' = tool /\ id' = id /\ verdict' = verdict /\ wire' = wire
      BY <1>3 DEF DropRequest, Set
    <2>2. TrafficOK'
      BY <2>1 DEF FrameInv, TrafficOK
    <2>3. ASSUME NEW d \in Calls PROVE CallInv(d)'
      <3>1. CallInv(d)
        BY DEF FrameInv
      <3> QED
        BY <3>1, <2>1 DEF CallInv, FrameInv, TrafficOK
    <2> QED
      BY <2>2, <2>3 DEF FrameInv
  <1> QED
    BY <1>2, <1>3

\* A verdict that agrees with the bytes it was reached on keeps the invariant.
LEMMA VerdictKeeps ==
    ASSUME FrameInv, NEW c \in Calls, NEW b \in Nat,
           NEW answer \in {"success", "RESPONSE_LIMIT_EXCEEDED", "error"},
           Decide(c, answer, b),
           tool[c] = "memory" /\ answer = "success" =>
             responseByteLength(tool[c], id[c], b) <= MAX_RESPONSE_BYTES,
           tool[c] = "memory" /\ answer = "RESPONSE_LIMIT_EXCEEDED" =>
             responseByteLength(tool[c], id[c], b) + NullIdBytes - 1 > MAX_RESPONSE_BYTES
    PROVE  FrameInv'
PROOF
  <1> DEFINE n == responseByteLength(tool[c], id[c], b)
  <1>1. n \in Nat
    BY SizesAreNatural DEF FrameInv, TrafficOK
  <1>2. /\ call[c] = "working"
        /\ verdict' = [verdict EXCEPT ![c] = answer]
        /\ wire' = [wire EXCEPT ![c] = n]
        /\ call' = call /\ tool' = tool /\ id' = id
    BY DEF Decide, Set
  <1> HIDE DEF n
  <1>3. TrafficOK'
    BY <1>1, <1>2 DEF FrameInv, TrafficOK
  <1>4. /\ tool[c] = "memory" /\ answer = "success" => n <= MAX_RESPONSE_BYTES
        /\ tool[c] = "memory" /\ answer = "RESPONSE_LIMIT_EXCEEDED" =>
             n + NullIdBytes - 1 > MAX_RESPONSE_BYTES
    BY DEF n
  <1>5. ASSUME NEW d \in Calls PROVE CallInv(d)'
    <2>1. CallInv(d)
      BY DEF FrameInv
    <2>2. CASE d = c
      BY <2>1, <2>2, <1>1, <1>2, <1>4 DEF CallInv, FrameInv, TrafficOK
    <2>3. CASE d # c
      BY <2>1, <2>3, <1>2 DEF CallInv, FrameInv, TrafficOK
    <2> QED
      BY <2>2, <2>3
  <1> QED
    BY <1>3, <1>5 DEF FrameInv

\* The verdicts agree with the bytes: the governor counts the id of the request, and an
\* output that is refused is over the ceiling with the id null or with that id.
LEMMA VerdictsKeep ==
    ASSUME FrameInv, NEW c \in Calls,
           \/ \E o \in Outputs[tool[c]] : Succeed(c, o) \/ ExceedLimit(c, o)
           \/ FailCall(c)
    PROVE  FrameInv'
PROOF
  <1>1. /\ tool[c] \in Tools /\ id[c] \in Nat
        /\ call[c] = "working" => id[c] > 0
    BY DEF FrameInv, TrafficOK, CallInv
  <1>2. BareBytes[tool[c]] \in Nat /\ MAX_RESPONSE_BYTES \in Nat
    BY <1>1, TransportAssumption
  <1>3. ASSUME NEW o \in Outputs[tool[c]], Succeed(c, o) PROVE FrameInv'
    <2>1. outputBytes(o) \in Nat
      BY <1>1, SizesAreNatural
    <2>2. Decide(c, "success", outputBytes(o))
      BY <1>3 DEF Succeed
    <2>3. tool[c] = "memory" =>
            responseByteLength(tool[c], id[c], outputBytes(o)) <= MAX_RESPONSE_BYTES
      BY <1>3 DEF Succeed, withinLimitOfGovernor
    <2> QED
      BY <2>1, <2>2, <2>3, VerdictKeeps
  <1>4. ASSUME NEW o \in Outputs[tool[c]], ExceedLimit(c, o) PROVE FrameInv'
    <2>1. outputBytes(o) \in Nat
      BY <1>1, SizesAreNatural
    <2>2. Decide(c, "RESPONSE_LIMIT_EXCEEDED", outputBytes(o)) /\ call[c] = "working"
      BY <1>4 DEF ExceedLimit, Decide
    <2>3. responseByteLength(tool[c], id[c], outputBytes(o)) + NullIdBytes - 1
            > MAX_RESPONSE_BYTES
      BY <1>1, <1>2, <1>4, <2>1, <2>2
      DEF ExceedLimit, withinMinimumWireResponseByteLimit, withinLimitOfGovernor,
          responseByteLength, NullIdBytes
    <2> QED
      BY <2>1, <2>2, <2>3, VerdictKeeps
  <1>5. ASSUME FailCall(c) PROVE FrameInv'
    <2>1. ErrorBytes[tool[c]] \in Nat
      BY <1>1, SizesAreNatural
    <2>2. Decide(c, "error", ErrorBytes[tool[c]])
      BY <1>5 DEF FailCall
    <2> QED
      BY <2>1, <2>2, VerdictKeeps
  <1> QED
    BY <1>3, <1>4, <1>5

\* The answer of a memory tool is never refused: it is a success that was measured, or an
\* error, and both fit.
LEMMA DeliveryKeeps ==
    ASSUME FrameInv, NEW c \in Calls, Send(c) \/ RefuseFrame(c) \/ Lose(c)
    PROVE  FrameInv'
PROOF
  <1> USE DEF FrameInv, TrafficOK
  <1>1. CallInv(c)
    OBVIOUS
  <1>2. PICK outcome \in {"sent", "refused", "lost"} :
          /\ call[c] = "working"
          /\ call' = [call EXCEPT ![c] = outcome]
          /\ tool' = tool /\ id' = id /\ verdict' = verdict /\ wire' = wire
          /\ outcome = "refused" => RefuseFrame(c)
    BY DEF Send, RefuseFrame, Lose, Set
  <1>3. id[c] \in Nat /\ id[c] <= MAX_REQUEST_ID_BYTES /\ tool[c] \in Tools
    BY <1>1, <1>2 DEF CallInv
  <1>4. ASSUME tool[c] = "memory", RefuseFrame(c) PROVE FALSE
    <2>1. ~frameIsBounded(frameBytes(c), id[c])
      BY <1>4 DEF RefuseFrame
    <2>2. frameBytes(c) <= MAX_RESPONSE_BYTES
      <3>1. CASE verdict[c] = "success"
        BY <3>1, <1>1, <1>4 DEF frameBytes, CallInv
      <3>2. CASE verdict[c] # "success"
        BY <3>2, <1>3, ErrorsFit DEF frameBytes
      <3> QED
        BY <3>1, <3>2
    <2> QED
      BY <2>1, <2>2, <1>3 DEF frameIsBounded
  <1>5. TrafficOK'
    BY <1>2
  <1>6. ASSUME NEW d \in Calls PROVE CallInv(d)'
    <2>1. CallInv(d)
      OBVIOUS
    <2>2. CASE d = c
      BY <2>1, <2>2, <1>2, <1>4 DEF CallInv
    <2>3. CASE d # c
      BY <2>1, <2>3, <1>2 DEF CallInv
    <2> QED
      BY <2>2, <2>3
  <1> QED
    BY <1>5, <1>6

\* Every step keeps the invariant.
LEMMA FramesStep == FrameInv /\ [WireNext]_wireVars => FrameInv'
PROOF
  <1> SUFFICES ASSUME FrameInv, [WireNext]_wireVars PROVE FrameInv'
    OBVIOUS
  <1>1. CASE ProcessStep
    BY <1>1, FramesStutter DEF ProcessStep
  <1>2. CASE UNCHANGED wireVars
    BY <1>2, FramesStutter DEF wireVars
  <1>3. ASSUME NEW c \in Calls, NEW t \in Tools, NEW i \in RequestIds,
               NEW bytes \in RequestBytes, Receive(c, t, i, bytes)
        PROVE  FrameInv'
    BY <1>3, RequestsKeep
  <1>4. ASSUME NEW c \in Calls, NEW i \in RequestIds, NEW bytes \in RequestBytes,
               DropRequest(c, i, bytes)
        PROVE  FrameInv'
    BY <1>4, RequestsKeep
  <1>5. ASSUME NEW c \in Calls, NEW o \in Outputs[tool[c]], Succeed(c, o) \/ ExceedLimit(c, o)
        PROVE  FrameInv'
    BY <1>5, VerdictsKeep
  <1>6. ASSUME NEW c \in Calls, FailCall(c) PROVE FrameInv'
    BY <1>6, VerdictsKeep
  <1>7. ASSUME NEW c \in Calls, Send(c) \/ RefuseFrame(c) \/ Lose(c) PROVE FrameInv'
    BY <1>7, DeliveryKeeps
  <1> QED
    BY <1>1, <1>2, <1>3, <1>4, <1>5, <1>6, <1>7 DEF WireNext

\* The inductive invariant holds throughout.
LEMMA FramesInductive == WireSpec => []FrameInv
PROOF
  BY FramesInit, FramesStep, PTL DEF WireSpec

\* The variables of the frames hold values of their kinds, for any calls and sizes.
THEOREM TrafficTyped == WireSpec => []TrafficOK
PROOF
  <1>1. FrameInv => TrafficOK
    BY DEF FrameInv
  <1> QED
    BY <1>1, FramesInductive, PTL

\* No answer of a memory tool closes the transport, whatever ids callers choose and
\* whatever the tools find (BoundedReadOnlyTransport.send against the governor's check).
THEOREM ReadToolAnswersFitTheorem == WireSpec => []ReadToolAnswersFit
PROOF
  <1>1. FrameInv => ReadToolAnswersFit
    BY DEF FrameInv, CallInv, ReadToolAnswersFit
  <1> QED
    BY <1>1, FramesInductive, PTL

\* A memory tool withholds an answer only at the ceiling, to within three bytes.
THEOREM WithheldOnlyAtCeilingTheorem == WireSpec => []WithheldOnlyAtCeiling
PROOF
  <1>1. FrameInv => WithheldOnlyAtCeiling
    BY DEF FrameInv, CallInv, WithheldOnlyAtCeiling
  <1> QED
    BY <1>1, FramesInductive, PTL

\* The serving process with its frames is a StdioLifecycle.
THEOREM FramesKeepLifecycle == WireSpec => Spec
PROOF
  <1>1. WireInit => Init
    BY DEF WireInit
  <1>2. [WireNext]_wireVars => [Next]_vars
    BY WireStepIsProcessStep DEF wireVars
  <1> QED
    BY <1>1, <1>2, PTL DEF WireSpec, Spec

\* So what was proved of the process holds while it answers calls: it serves with checked
\* credentials read whole, closes once, and its exit code tells.
THEOREM LifecycleSafeWithFrames ==
    WireSpec => [](ServesCheckedCredential /\ BodyIsWhole /\ ExitCodeTellsFailure /\ ClosesOnce)
PROOF
  BY FramesKeepLifecycle, CredentialChecked, BodyWhole, ExitCodeHonest, OneClose, PTL
=============================================================================
