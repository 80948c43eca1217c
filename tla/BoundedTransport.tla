-------------------------- MODULE BoundedTransport --------------------------
(***************************************************************************)
(* The frames of the serving process: BoundedReadOnlyTransport of          *)
(* packages/server/src/server.ts around the stdio transport of             *)
(* StdioLifecycle, and the checks of a tool's answer against the same      *)
(* ceiling (read-tool-governor.ts, contracts/read-tools.ts and             *)
(* artifact-inspection.ts).  Several calls share the transport: a frame    *)
(* over the ceiling closes it for all of them.                             *)
(*                                                                         *)
(* A request id is the number of its bytes as JSON; an output is a run of  *)
(* characters of one class and the bytes of its other fields.              *)
(***************************************************************************)
EXTENDS StdioLifecycle

CONSTANTS
    Calls,                  \* tool calls
    RequestIds,             \* bytes of the request ids callers choose
    RequestBytes,           \* bytes of the rest of a request frame
    Outputs,                \* what the tools of each family may find
    BareBytes,              \* bytes of a response frame around its id and its output
    ErrorBytes,             \* bytes an error output adds at most
    MAX_RESPONSE_BYTES,
    MAX_REQUEST_ID_BYTES

Tools == {"memory", "artifact"}
Characters == {"plain", "quote", "control", "emoji"}
OutputShape == [character : Characters, count : Nat, rest : Nat]

ASSUME TransportAssumption ==
    /\ RequestIds \subseteq Nat \ {0}
    /\ RequestBytes \subseteq Nat
    /\ Outputs \in [Tools -> SUBSET OutputShape]
    /\ BareBytes \in [Tools -> Nat]
    /\ ErrorBytes \in [Tools -> Nat]
    /\ MAX_RESPONSE_BYTES \in Nat
    /\ MAX_REQUEST_ID_BYTES \in Nat
    /\ \A t \in Tools :
         BareBytes[t] + MAX_REQUEST_ID_BYTES + ErrorBytes[t] <= MAX_RESPONSE_BYTES

VARIABLES
    call,      \* "none", "dropped", "working", "sent", "refused" or "lost"
    tool,      \* the family of the tool that was called
    id,        \* bytes of the request id
    verdict,   \* "none", "success" or "RESPONSE_LIMIT_EXCEEDED", or another "error"
    wire       \* history: bytes of the frame that carries what the tool found

traffic == <<call, tool, id, verdict, wire>>
wireVars == <<vars, traffic>>

WireInit ==
    /\ Init
    /\ call = [c \in Calls |-> "none"]
    /\ tool = [c \in Calls |-> "memory"]
    /\ id = [c \in Calls |-> 0]
    /\ verdict = [c \in Calls |-> "none"]
    /\ wire = [c \in Calls |-> 0]
-----------------------------------------------------------------------------
\* Bytes of one character in structuredContent, where it is written as JSON, and in the
\* text, which is JSON within a JSON string (\u0001, then \\u0001).
jsonBytes(character) ==
    CASE character = "plain" -> 1 + 1
      [] character = "quote" -> 2 + 4
      [] character = "control" -> 6 + 7
      [] character = "emoji" -> 4 + 4

outputBytes(o) == o.count * jsonBytes(o.character) + o.rest

\* readToolWireResponseByteLength and artifactInspectionResponseByteLength: one renderer
\* for what is measured and what is sent.
responseByteLength(t, i, bytes) == BareBytes[t] + i + bytes

NullIdBytes == 4

\* Mutant: room is left for the longest request id.
reservesLongestId(t, bytes) ==
    responseByteLength(t, MAX_REQUEST_ID_BYTES, bytes) <= MAX_RESPONSE_BYTES

\* The tool, and its output schema, measure with the id null.
withinMinimumWireResponseByteLimit(t, bytes) ==
    responseByteLength(t, NullIdBytes, bytes) <= MAX_RESPONSE_BYTES

\* Mutant: the governor measures with the id null.
withinLimitWithoutId(t, i, bytes) ==
    t = "memory" => responseByteLength(t, NullIdBytes, bytes) <= MAX_RESPONSE_BYTES

\* The governor measures the answer of a memory tool again, with the id of the request;
\* nothing does so for an artifact tool.
withinLimitOfGovernor(t, i, bytes) ==
    t = "memory" => responseByteLength(t, i, bytes) <= MAX_RESPONSE_BYTES

frameIsBounded(bytes, i) == bytes <= MAX_RESPONSE_BYTES /\ i <= MAX_REQUEST_ID_BYTES
-----------------------------------------------------------------------------
Set(f, c, value) == [f EXCEPT ![c] = value]

\* A request arrives, and is dispatched.
Receive(c, t, i, bytes) ==
    /\ stage = "serving"
    /\ connected
    /\ call[c] = "none"
    /\ frameIsBounded(bytes + i, i)
    /\ call' = Set(call, c, "working")
    /\ tool' = Set(tool, c, t)
    /\ id' = Set(id, c, i)
    /\ UNCHANGED <<vars, verdict, wire>>

\* A request over a ceiling is not dispatched: the transport is closed.
DropRequest(c, i, bytes) ==
    /\ call[c] = "none"
    /\ ~frameIsBounded(bytes + i, i)
    /\ TransportCloses
    /\ call' = Set(call, c, "dropped")
    /\ UNCHANGED <<tool, id, verdict, wire>>

\* The tool is done: its answer, and the bytes of the output that states it.
Decide(c, answer, bytes) ==
    /\ stage = "serving"
    /\ call[c] = "working"
    /\ verdict[c] = "none"
    /\ verdict' = Set(verdict, c, answer)
    /\ wire' = Set(wire, c, responseByteLength(tool[c], id[c], bytes))
    /\ UNCHANGED <<vars, call, tool, id>>

\* What it found fits.
Succeed(c, o) ==
    /\ withinMinimumWireResponseByteLimit(tool[c], outputBytes(o))
    /\ withinLimitOfGovernor(tool[c], id[c], outputBytes(o))
    /\ Decide(c, "success", outputBytes(o))

\* What it found is too long: the answer says so.
ExceedLimit(c, o) ==
    /\ \/ ~withinMinimumWireResponseByteLimit(tool[c], outputBytes(o))
       \/ ~withinLimitOfGovernor(tool[c], id[c], outputBytes(o))
    /\ Decide(c, "RESPONSE_LIMIT_EXCEEDED", outputBytes(o))

\* It fails otherwise.
FailCall(c) == Decide(c, "error", ErrorBytes[tool[c]])

\* The frame that is sent.
frameBytes(c) ==
    IF verdict[c] = "success"
      THEN wire[c]
      ELSE responseByteLength(tool[c], id[c], ErrorBytes[tool[c]])

Send(c) ==
    /\ stage = "serving"
    /\ connected
    /\ call[c] = "working"
    /\ verdict[c] # "none"
    /\ frameIsBounded(frameBytes(c), id[c])
    /\ call' = Set(call, c, "sent")
    /\ UNCHANGED <<vars, tool, id, verdict, wire>>

\* The answer is over the ceiling: the transport is closed, and the answer is not sent.
RefuseFrame(c) ==
    /\ call[c] = "working"
    /\ verdict[c] # "none"
    /\ ~frameIsBounded(frameBytes(c), id[c])
    /\ TransportCloses
    /\ call' = Set(call, c, "refused")
    /\ UNCHANGED <<tool, id, verdict, wire>>

\* The transport has been closed under a call.
Lose(c) ==
    /\ stage = "serving"
    /\ ~connected
    /\ call[c] = "working"
    /\ call' = Set(call, c, "lost")
    /\ UNCHANGED <<vars, tool, id, verdict, wire>>

\* A step of the process that is not about a frame.  It does not end by itself while the
\* timer of a call is pending.
ProcessStep ==
    /\ Next
    /\ Exit => \A c \in Calls : call[c] # "working"
    /\ UNCHANGED traffic

WireNext ==
    \/ ProcessStep
    \/ \E c \in Calls :
        \/ \E t \in Tools, i \in RequestIds, bytes \in RequestBytes : Receive(c, t, i, bytes)
        \/ \E i \in RequestIds, bytes \in RequestBytes : DropRequest(c, i, bytes)
        \/ \E o \in Outputs[tool[c]] : Succeed(c, o)
        \/ \E o \in Outputs[tool[c]] : ExceedLimit(c, o)
        \/ FailCall(c)
        \/ Send(c)
        \/ RefuseFrame(c)
        \/ Lose(c)

WireSpec == WireInit /\ [][WireNext]_wireVars

WireFairSpec == WireSpec /\ Fairness
-----------------------------------------------------------------------------
(***************************************************************************)
(* Properties.                                                             *)
(***************************************************************************)

\* The variables of the frames hold values of their kinds.
TrafficOK ==
    /\ call \in [Calls -> {"none", "dropped", "working", "sent", "refused", "lost"}]
    /\ tool \in [Calls -> Tools]
    /\ id \in [Calls -> Nat]
    /\ verdict \in [Calls -> {"none", "success", "RESPONSE_LIMIT_EXCEEDED", "error"}]
    /\ wire \in [Calls -> Nat]

\* docs/FEATURES.md, lines 49-53: an answer that is too long is "a bounded
\* RESPONSE_LIMIT_EXCEEDED result instead of an oversized success frame".  No answer of a
\* memory tool closes the transport under the other calls, whatever the request id: ids
\* that are dispatched leave room for an error, and the governor counts the id.
ReadToolAnswersFit == \A c \in Calls : tool[c] = "memory" => call[c] # "refused"

\* A memory tool withholds an answer as too long only if its frame would be over the
\* ceiling, but for the three bytes by which null is longer than the shortest id.
WithheldOnlyAtCeiling ==
    \A c \in Calls : tool[c] = "memory" /\ verdict[c] = "RESPONSE_LIMIT_EXCEEDED" =>
        wire[c] + NullIdBytes - 1 > MAX_RESPONSE_BYTES

\* packages/contracts/src/artifact-inspection.ts, lines 378-379: the check of the output
\* schemas is "Conservative: measures the complete envelope at the minimum/null-ID size".
\* A success that passed it is one that the transport sends.
ArtifactAnswersFit == \A c \in Calls : tool[c] = "artifact" => call[c] # "refused"
=============================================================================
