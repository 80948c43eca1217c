--------------------------- MODULE StdioLifecycle ---------------------------
(***************************************************************************)
(* The life of the server process (packages/server/src/stdio-startup.ts):  *)
(* the credential file is opened, checked, read and closed                 *)
(* (local-credential-loader.ts), its token is verified upstream            *)
(* (createReadOnlyServer of server.ts), the server is served on stdio, and *)
(* signals shut it down.                                                   *)
(*                                                                         *)
(* A step is the settlement of one await with the code up to the next one. *)
(* Between two steps others may replace the file at the path, change its   *)
(* mode, append to it, revoke the token, or send signals.                  *)
(***************************************************************************)
EXTENDS Naturals

CONSTANTS
    Files,                  \* files (inodes) that may be found at the path
    Regular,                \* the regular files among them
    NoFile,                 \* nothing that open() opens: no file, or a symbolic link
    MAX_CREDENTIAL_BYTES,
    MaxSize,                \* files do not grow beyond this (bound of the model)
    MaxChanges              \* how often files change (bound of the model)

ASSUME LifecycleAssumption ==
    /\ Regular \subseteq Files
    /\ NoFile \notin Files
    /\ MAX_CREDENTIAL_BYTES \in Nat
    /\ MaxSize \in Nat
    /\ MaxChanges \in Nat

Signals == {"SIGINT", "SIGTERM"}

VARIABLES
    path,        \* what the configured path names
    secure,      \* whether each file is the user's own, without group or other bits
    size,        \* of each file
    changes,
    stage,       \* where the process stands
    handle,      \* the file the loader has open
    length,      \* bytes read so far
    credential,  \* the file the credentials in use come from
    verified,    \* the file whose token upstream confirmed
    revoked,     \* the token in use was revoked
    ready,       \* the process has said that it is ready
    connected,   \* the stdio transport is open
    listening,   \* the signals that have a listener
    shutdown,    \* the shared close: "none", "pending", "done" or "failed"
    exitCode,
    closes,      \* history: how often handle.close() was called
    checked,     \* history: the files whose metadata passed the checks
    sizeAtEnd,   \* history: the size of the file when the last read settled
    rejected,    \* history: a tool call learned that the token was refused
    reused       \* history: the token was sent upstream after that

files == <<path, secure, size, changes>>
loader == <<handle, length, credential, checked, sizeAtEnd>>
session == <<verified, revoked, rejected, reused>>
service == <<ready, connected>>
closing == <<listening, shutdown, closes>>
vars == <<files, stage, loader, session, service, closing, exitCode>>

Loading == {"opening", "checking", "reading", "parsing", "verifying"}
Over == {"failed", "exited", "killed"}

Init ==
    /\ path \in Files \cup {NoFile}
    /\ secure \in [Files -> BOOLEAN]
    /\ size \in [Files -> 0..MaxSize]
    /\ changes = 0
    /\ stage = "new"
    /\ handle = NoFile
    /\ length = 0
    /\ credential = NoFile
    /\ verified = NoFile
    /\ revoked = FALSE
    /\ ready = FALSE
    /\ connected = FALSE
    /\ listening = {}
    /\ shutdown = "none"
    /\ exitCode = 0
    /\ closes = 0
    /\ checked = {}
    /\ sizeAtEnd = 0
    /\ rejected = FALSE
    /\ reused = FALSE

\* Startup fails: the message is generic, the exit code is 1, no listener is registered.
Fail ==
    /\ stage' = "failed"
    /\ exitCode' = 1

\* An unsupported platform, an argument, or a missing setting.
Refuse ==
    /\ stage = "new"
    /\ Fail
    /\ UNCHANGED <<files, loader, session, service, closing>>

Launch ==
    /\ stage = "new"
    /\ stage' = "opening"
    /\ UNCHANGED <<files, loader, session, service, closing, exitCode>>

OpenFails ==
    /\ stage = "opening"
    /\ Fail
    /\ UNCHANGED <<files, loader, session, service, closing>>

Open ==
    /\ stage = "opening"
    /\ path # NoFile
    /\ handle' = path
    /\ stage' = "checking"
    /\ UNCHANGED <<files, length, credential, checked, sizeAtEnd, session, service,
                   closing, exitCode>>

\* Mutant: the metadata is taken from the path.
PassesAtPath(f) == path \in Regular /\ size[path] <= MAX_CREDENTIAL_BYTES /\ secure[path]

\* The checks on the metadata of the open file.
Passes(f) == f \in Regular /\ size[f] <= MAX_CREDENTIAL_BYTES /\ secure[f]

\* `finally` closes the file, whatever happened, and the error is thrown on.
CloseAndFail ==
    /\ handle' = NoFile
    /\ Fail

\* A check fails, or the metadata cannot be read.
CheckFails ==
    /\ stage = "checking"
    /\ CloseAndFail
    /\ UNCHANGED <<files, length, credential, checked, sizeAtEnd, session, service, closing>>

Check ==
    /\ stage = "checking"
    /\ Passes(handle)
    /\ stage' = "reading"
    /\ checked' = {f \in Regular : secure[f]}
    /\ UNCHANGED <<files, handle, length, credential, sizeAtEnd, session, service, closing,
                   exitCode>>

\* Mutant: the buffer has no byte to detect a file that has grown.
bufferExactly == MAX_CREDENTIAL_BYTES

bufferLength == MAX_CREDENTIAL_BYTES + 1

\* A read returns some of the bytes that fit into the buffer.
Read ==
    /\ stage = "reading"
    /\ \E n \in 1..bufferLength :
        /\ length + n <= bufferLength
        /\ length + n <= size[handle]
        /\ length' = length + n
    /\ UNCHANGED <<files, stage, handle, credential, checked, sizeAtEnd, session, service,
                   closing,
                   exitCode>>

\* The loop is over: the end of the file is reached or the buffer is full.  A body that
\* fits is kept, and the file is closed.
ReadAll ==
    /\ stage = "reading"
    /\ length >= size[handle] \/ length = bufferLength
    /\ length <= MAX_CREDENTIAL_BYTES
    /\ credential' = handle
    /\ sizeAtEnd' = size[handle]
    /\ handle' = NoFile
    /\ stage' = "parsing"
    /\ UNCHANGED <<files, length, checked, session, service, closing, exitCode>>

\* A read fails, or there are more bytes than fit.
ReadFails ==
    /\ stage = "reading"
    /\ CloseAndFail
    /\ UNCHANGED <<files, length, credential, checked, sizeAtEnd, session, service, closing>>

\* The body is no credential document, its token has expired, or the client refuses the
\* origin.
ParseFails ==
    /\ stage = "parsing"
    /\ Fail
    /\ UNCHANGED <<files, loader, session, service, closing>>

\* The client is created, and the token is sent for verification.
Parse ==
    /\ stage = "parsing"
    /\ length > 0
    /\ stage' = "verifying"
    /\ UNCHANGED <<files, loader, session, service, closing, exitCode>>
-----------------------------------------------------------------------------
\* verifyUserIdentity fails: a refusal, a redirect, a malformed answer, the network.
VerifyFails ==
    /\ stage = "verifying"
    /\ Fail
    /\ UNCHANGED <<files, loader, session, service, closing>>

\* Mutant: the timer does not abort the request.
VerifyNeverTimesOut ==
    /\ stage = "verifying"
    /\ UNCHANGED vars

VerifyTimesOut ==
    /\ stage = "verifying"
    /\ Fail
    /\ UNCHANGED <<files, loader, session, service, closing>>

\* Upstream confirms the token.
Verify ==
    /\ stage = "verifying"
    /\ ~revoked
    /\ verified' = credential

\* The server is created and served: the process is ready and listens to both signals.
Serve ==
    /\ Verify
    /\ stage' = "serving"
    /\ ready' = TRUE
    /\ connected' = TRUE
    /\ listening' = Signals
    /\ UNCHANGED <<files, loader, revoked, rejected, reused, shutdown, closes, exitCode>>

\* serveStdio throws: the server is closed, then startup fails.
ServeFails ==
    /\ Verify
    /\ stage' = "abandoning"
    /\ UNCHANGED <<files, loader, revoked, rejected, reused, service, closing, exitCode>>

Abandon ==
    /\ stage = "abandoning"
    /\ Fail
    /\ UNCHANGED <<files, loader, session, service, closing>>

(***************************************************************************)
(* A data tool sends the token upstream.  A refusal is an upstream status  *)
(* like any other: nothing remembers it.                                   *)
(***************************************************************************)
CallUpstream ==
    /\ stage = "serving"
    /\ connected
    /\ reused' = (reused \/ rejected)
    /\ rejected' = (rejected \/ revoked)
    /\ UNCHANGED <<files, stage, loader, verified, revoked, service, closing, exitCode>>

\* The peer ends, or a frame in either direction exceeds the bound: the transport closes.
TransportCloses ==
    /\ stage = "serving"
    /\ connected
    /\ connected' = FALSE
    /\ UNCHANGED <<files, stage, loader, session, ready, closing, exitCode>>

\* Mutant: every signal closes the server.
closeAgain ==
    /\ shutdown' = "pending"
    /\ closes' = closes + 1

\* createIdempotentShutdown: the first signal closes the server, the others share that.
closeOnce ==
    IF shutdown = "none"
      THEN shutdown' = "pending" /\ closes' = closes + 1
      ELSE UNCHANGED <<shutdown, closes>>

\* A signal with a listener, which `once` removes.
Shutdown(s) ==
    /\ stage = "serving"
    /\ s \in listening
    /\ listening' = listening \ {s}
    /\ closeOnce
    /\ UNCHANGED <<files, stage, loader, session, service, exitCode>>

\* A signal without a listener has its default effect.
Kill(s) ==
    /\ stage \notin Over
    /\ s \notin listening
    /\ stage' = "killed"
    /\ UNCHANGED <<files, loader, session, service, closing, exitCode>>

\* Mutant: a failing close is forgotten.
closeSettlesQuietly ==
    /\ shutdown' \in {"done", "failed"}
    /\ UNCHANGED exitCode

closeSettles ==
    \/ shutdown' = "done" /\ UNCHANGED exitCode
    \/ shutdown' = "failed" /\ exitCode' = 1

CloseSettles ==
    /\ stage = "serving"
    /\ shutdown = "pending"
    /\ closeSettles
    /\ connected' = FALSE
    /\ UNCHANGED <<files, stage, loader, session, ready, listening, closes>>

\* Nothing is left to do: the process ends by itself.
Exit ==
    /\ stage = "failed" \/ (stage = "serving" /\ ~connected /\ shutdown # "pending")
    /\ stage' = "exited"
    /\ UNCHANGED <<files, loader, session, service, closing, exitCode>>
-----------------------------------------------------------------------------
(***************************************************************************)
(* What others do.                                                         *)
(***************************************************************************)
Change ==
    /\ changes < MaxChanges
    /\ stage \in Loading
    /\ changes' = changes + 1
    /\ UNCHANGED <<stage, loader, session, service, closing, exitCode>>

Replace ==
    /\ Change
    /\ path' \in Files \cup {NoFile}
    /\ UNCHANGED <<secure, size>>

Chmod(f) ==
    /\ Change
    /\ secure' = [secure EXCEPT ![f] = ~@]
    /\ UNCHANGED <<path, size>>

Grow(f) ==
    /\ Change
    /\ size[f] < MaxSize
    /\ size' = [size EXCEPT ![f] = @ + 1]
    /\ UNCHANGED <<path, secure>>

Revoke ==
    /\ credential # NoFile
    /\ stage \notin Over
    /\ ~revoked
    /\ revoked' = TRUE
    /\ UNCHANGED <<files, stage, loader, verified, rejected, reused, service, closing,
                   exitCode>>

Startup ==
    \/ Refuse \/ Launch \/ OpenFails \/ Open \/ CheckFails \/ Check
    \/ Read \/ ReadAll \/ ReadFails \/ ParseFails \/ Parse
    \/ VerifyFails \/ VerifyTimesOut \/ Serve \/ ServeFails \/ Abandon

Next ==
    \/ Startup
    \/ CallUpstream \/ TransportCloses \/ CloseSettles \/ Exit
    \/ \E s \in Signals : Shutdown(s) \/ Kill(s)
    \/ Replace \/ Revoke
    \/ \E f \in Files : Chmod(f) \/ Grow(f)

Spec == Init /\ [][Next]_vars

(***************************************************************************)
(* File operations settle, and verifyUserIdentity has a timer; upstream    *)
(* may never answer.                                                       *)
(***************************************************************************)
Fairness ==
    /\ WF_vars(Open \/ OpenFails)
    /\ WF_vars(Check \/ CheckFails)
    /\ WF_vars(Read \/ ReadAll \/ ReadFails)
    /\ WF_vars(Parse \/ ParseFails)
    /\ WF_vars(VerifyTimesOut)

FairSpec == Spec /\ Fairness
-----------------------------------------------------------------------------
(***************************************************************************)
(* Properties.                                                             *)
(***************************************************************************)

\* The variables hold values of their kinds.
TypeOK ==
    /\ path \in Files \cup {NoFile}
    /\ secure \in [Files -> BOOLEAN]
    /\ size \in [Files -> 0..MaxSize]
    /\ changes \in 0..MaxChanges
    /\ stage \in {"new", "abandoning", "serving"} \cup Loading \cup Over
    /\ handle \in Files \cup {NoFile}
    /\ length \in 0..bufferLength
    /\ credential \in Files \cup {NoFile}
    /\ verified \in Files \cup {NoFile}
    /\ revoked \in BOOLEAN
    /\ ready \in BOOLEAN
    /\ connected \in BOOLEAN
    /\ listening \subseteq Signals
    /\ shutdown \in {"none", "pending", "done", "failed"}
    /\ exitCode \in 0..1
    /\ closes \in 0..1
    /\ checked \subseteq Files
    /\ sizeAtEnd \in 0..MaxSize
    /\ rejected \in BOOLEAN
    /\ reused \in BOOLEAN

\* docs/evidence/ISSUE_13_FIXED_CLIENT.md: path replacement is no way around the checks.
\* The credentials in use were read from a file that was regular and private when it was
\* checked, whatever the path named before or since, and upstream confirmed their token
\* before the process served anything (createServer before serveStdio).
ServesCheckedCredential ==
    /\ credential # NoFile => credential \in checked
    /\ stage \in {"serving", "abandoning"} => credential # NoFile /\ verified = credential

\* A file that grows while it is read is not accepted in part: the body is all there was
\* up to the last read, and within the bound.
BodyIsWhole ==
    credential # NoFile => sizeAtEnd <= length /\ length <= MAX_CREDENTIAL_BYTES

\* The loader has its file open from open() to the last read only, however it ends.
FileIsClosed == handle # NoFile => stage \in {"checking", "reading", "killed"}

\* A process that ends by itself reports failure exactly if startup or the close failed.
ExitCodeTellsFailure ==
    stage = "exited" => (exitCode = 1 <=> ~ready \/ shutdown = "failed")

\* The handle is closed once, however many signals arrive in whatever order, and only
\* after a signal whose listener is used up.
ClosesOnce ==
    /\ closes <= 1
    /\ closes = 1 <=> shutdown # "none"
    /\ closes = 1 => listening # Signals

\* docs/evidence/ISSUE_18_OPERATOR_RELEASE.md, lines 139-140: "Repeated signals share one
\* close operation."  No signal ends the process while that close is under way.
RepeatedSignalsShareClose == stage = "killed" => shutdown # "pending"

\* docs/decisions/0003-local-credential-and-protocol-policy.md, lines 90-92: once a
\* downstream refusal has shown that the credential is revoked, "data tools must no longer
\* be served with that credential".
RefusedCredentialNotServed == ~reused

\* Startup ends: the process serves, fails, or is killed, although upstream may be silent.
StartupEnds == stage = "opening" ~> stage \notin Loading
=============================================================================
