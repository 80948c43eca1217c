# A TLA+ development of the Supabase user MCP server

The repository is a read-only MCP server: one process per user reads a credential file,
verifies the user's token against Supabase Auth, and serves tools on stdio that read the
user's memories through PostgREST functions and inspect artifacts through injected
adapters.  Nothing is written to the database by the server; what makes it hard is
everything that happens between two awaits.  This directory models those parts in TLA+,
checks them with TLC on small instances and proves the most important properties with
TLAPS for every value of the constants.

Source paths below are relative to `src/packages/server/src/` unless they start with
`docs/` or `supabase/`.

## 1. Inventory

| Component | State | Operations | What is hard | What makes it correct |
|---|---|---|---|---|
| Read-tool governor (`read-tool-governor.ts`) | map of limiter states by scope (module global), per state: active count, window timestamps, last touch; per call: abort signal | admit or deny, abort at the deadline, classify what the tool settled with, release | calls of many scopes interleave while the bounded map evicts scopes; the slot is released through an object obtained earlier | slots and windows exact across eviction; ceilings; only idle LRU entries go; every admitted call settles |
| Artifact registration (`artifact-mcp-registration.ts`) | per call: deadline timer, observer gate (open, committed, buffers) | race of operation, deadline and cancellation; commit; close | late settlement behind a lost race; cancellation before the handler runs | answer, receipt, journal and observers agree |
| Artifact inspector (`artifact-inspector.ts`) | none across awaits but the resolved record and the read bytes | five tools: stat, range, lines, heading, exact search | the storage adapter may return another version; the object or its record changes between resolution and read | a success holds bytes of the registered source, the ones asked for; an integrity failure has a cause |
| Receipt journal (`artifact-receipt-journal.ts`) | the adapter's durable receipts | append, acknowledgement | stored and then failed; late acknowledgement | evidence before return; one receipt per call |
| Memory store and RPC (`supabase/migrations/*`) | rows, authority rows | list, search, get, on one snapshot each | rows and authority change between the requests of a caller | capability predicate and row policy on every read |
| `memory_list_recent`, `memory_search` | none (cursors are with the caller) | one page | cursor of a row that changed, collation against code units, `has_more` | no repetition, steady rows exactly once, walks end |
| `memory_retrieve` (`defensive-retrieval.ts`) | one promise per retrieval, its abort signal | search, normalized search, get | three requests on three snapshots, the deadline between any of them | answers are true of a snapshot the caller was entitled to |
| Fixed client (`fixed-supabase-client.ts`) | token, keys (constant) | RPC request, identity verification | timeouts, refusals | bounded time; failure classes |
| Stdio lifecycle (`stdio-startup.ts`, `local-credential-loader.ts`, `server.ts`) | open file, credential, listeners, shared close, exit code | load, verify, serve, shut down | the file changes between open, stat and read; signals at any time | serves only a checked, confirmed credential; one close; honest exit code |
| Chunk manifest (`artifact-chunk-manifest.ts`) | none; three loops over levels and proof nodes | build the tree, build a proof, verify a proof | odd widths, forged positions, self-declared counts | what verifies is included; what was built verifies |
| Text index (`artifact-text-index.ts`) | none | lines, fences, headings, identifiers, indexed reads | LF, CRLF and lone CR, nested fences, colliding slugs | agrees with a reference definition |
| Frames (`server.ts`: `BoundedReadOnlyTransport`) | calls under way, their ids and answers | admit or drop a request, send or refuse an answer | a frame over the ceiling closes the transport under every other call; an answer is measured before it meets its id | answers fit their frames |
| Schemas and bounds (`packages/contracts/src/`) | none | measured responses, cross-field refinements | an answer its own schema refuses | candidates satisfy their schemas |
| Policies, access matrix, session capabilities | none | constants and parsers | | not modelled |
| Revocation audit, artifact tables, storage policy (SQL) | rows no server code uses yet | policies | | not modelled |
| Probes, calibration, leak gate | none at run time | release tooling | | not modelled |

How they interact: the process of *Stdio lifecycle* creates the fixed client and the
server; every data tool is called through the *governor*, which passes an abort signal;
list, search and retrieve call the *client*, which calls the *RPC functions*; artifact
tools are called through their *registration*, whose adapters (resolver, storage, journal)
and observers are injected, and whose answers the *inspector* computes with the *text
index* and the *chunk manifest*.  Requests arrive and answers leave through the *frames*.
Calls share the governor's map and the transport in memory; the journal and the database
are shared through their services.

`PROJECT.json` lists the hazards behind the properties, each at its line.

## 2. Modules

| Module | Models | Proofs |
|---|---|---|
| `ReadToolGovernor` | the governor | `ReadToolGovernorProofs` |
| `ArtifactInspection` | registration, gate, inspector, journal | `ArtifactInspectionProofs` |
| `EvidencedAnswers` | abstract specification of the registration: an answer is evidenced before it is delivered | refined by `ArtifactInspection` |
| `MemoryStore` | rows, authority and the three RPC functions; no Next of its own, used by the two below | `MemoryStoreProofs` |
| `MemoryPagination` | a caller that follows cursors, over `MemoryStore` | `MemoryPaginationProofs` |
| `DefensiveRetrieval` | `memory_retrieve` over `MemoryStore` and the client | `DefensiveRetrievalProofs` |
| `StdioLifecycle` | the process | in `BoundedTransportProofs` |
| `BoundedTransport` | the frames and the calls in flight, over `StdioLifecycle` | `BoundedTransportProofs` |
| `MerkleProof` | manifest, proof and verification | `MerkleProofProofs` |
| `TextIndex` | the text index, each loop a function of the number of its iterations; no state, used by the next | in `ArtifactContentProofs` |
| `ArtifactContent` | what the five inspections compute on record and bytes, over `TextIndex` | `ArtifactContentProofs` |
| `MC*` | the instances for TLC | |

Operators whose comment begins with "Mutant:" are slips the code could plausibly have
made.  No specification uses them; replacing the definition that follows by them must
break the property named in `PROJECT.json`, which is how each property is shown to say
something about the code.

### ReadToolGovernor

A step is one synchronous stretch of `createReadToolExecutor`: from the call to its
admission or denial (`RejectInvalid`, `RejectExhausted`, `RejectWindow`,
`RejectConcurrency`, `Admit`), the timer (`Abort`), and from the settlement of `execute`
to the return (`Settle`).  `limiterStates` is the Map; a limiter state is an object named
by the call that created it, so that a call that holds an object which has left the map
is visible.  `getLimiterState` is the creation with eviction, `Live` and `WindowHasRoom`
are `enforceWindow`.

Kept although surprising: a call denied for concurrency has consumed window budget; a
slot is held until `execute` settles, not until the deadline; a tool that returns rows
after its abort is a success; a client timeout thrown without an abort is an
`INTERNAL_ERROR`; evicting an idle scope forgets its window.  Abstracted: one policy for
all executors, a monotone clock read once per step, ties of the LRU order broken either
way, argument digests and event payloads left out.

### ArtifactInspection and EvidencedAnswers

`phase` is where the operation promise of a call stands: idle, resolving, reading,
appending or ended; `output` is what the race returned, perhaps earlier.  Each await is one step
(`Start`, `ResolveFails`, `ConcludeOnRecord`, `IssueRead`, `ReadFails`, `ReadVerified`,
`Store`, `Acknowledge`, `AppendFails`), and the operation goes on behind a lost race: the
code has no cancellation seam.  `Deadline` is the timer or a cancellation.  A request that
is cancelled before its handler runs enters by `StartAborted` or `RefuseLocallyAborted`,
where the order of microtasks decides.  `close` and `CommitAndReturn` are the observer
gate.

What an operation computes is a set of possible conclusions per tool (`artifactStat`,
`RangeChecks`, `artifactReadRange`, ...): every class the code can end with at that await,
with or without a receipt; which one it is on given bytes is the subject of
`ArtifactContent`.  Digests are the identity of what they digest; receipts built
by the inspector satisfy the schema; adapters are external and may answer anything.  The
journal may hold a receipt of a call that returned `DEADLINE_EXCEEDED` or
`INTERNAL_ERROR`: the properties say exactly when.

`EvidencedAnswers` has three variables (the answer, the durable receipts, the observed
receipts) and four actions per call (`Record`, `Deliver`, `Refuse`, `GiveUp`).
`KeepsEvidencePromise` is the refinement, with `answer`, `durable` and `observed` computed
from `output`, `journal` and `seenReceipts`.

### MemoryStore, MemoryPagination, DefensiveRetrieval

The RPC functions are `STABLE`: a call sees one snapshot, so it is one evaluation of
`page`, `has_more`, `next_tokens` or `authorized_memory_get` on the state.  Between calls
anybody may insert, delete, edit or change authority, `MaxChanges` times.  A row keeps its
workspace; the text of a query occurs in a row's title, its content or nowhere (`Places`);
cursor tokens carry the key of their row and an md5 without collisions; `created_at`
strings compare like their times.  `MemoryPagination` takes a page per step; a page whose
answer is lost is asked for again with the same cursor, which changes nothing.
`CodeUnits` is the order in which the server compares ids, which the database's collation
need not agree with.  `docs/FEATURES.md` (line 138) says that cursors cannot change tenant,
principal, filters or sort direction.  For filters this holds in the weak sense only: a
cursor carries none, so it cannot change them, but nothing ties it to those it was issued
under either, and a caller may go on under other ones (`ChangeFilters`); `steady` is then the
rows that pass all of them.  Upstream failures of a page are not actions of their own: the
caller, told `INVALID_REQUEST` or any other error of the client, asks again or stops.

`DefensiveRetrieval` separates the evaluation of a request upstream (`EvaluateSearch`,
`EvaluateGet`, `UpstreamFails`, at any time while it is in flight) from its settlement
(`SearchAgain`, `SearchDecides`, `GetCandidate`, `GetSettles`, `RequestFailed`) and from
the race around them (`Abort`).  The client's failures are a set (`UpstreamFailures`).  The
database refuses a cursor with status 400, which becomes `INVALID_REQUEST`; but the client
takes any 400 for that, of the get too, and a `nextCursor` it cannot read as well, so a
request that the database accepted may still be answered with `INVALID_REQUEST`.
`AcceptedCursorNotRefused` is therefore about the verdicts of the database and not about the
answer: no search of a call makes it refuse a cursor it has accepted.  Whether an answer exceeds
the wire length is a free choice.  The check of the request id, before any state, is left
out.

### StdioLifecycle

A step is the settlement of one await with the code up to the next; the close awaited by
`finally` is folded into the step before it.  `path` is what the configured path names,
`handle` the file that is open: the loader works on the handle and others on the path.  A
credential is named by the file it came from and its body by its length.  Files are
replaced, grow and change their mode between any two steps; rewriting or truncating in
place is not modelled.  Whether a body parses is a free choice.  `Serve` is
`createReadOnlyServer` after verification, `serveStdio` and the registration of both
signal listeners, which are one synchronous stretch.  A signal without a listener has its
default effect (`Kill`), before startup is over and after `process.once` has removed it.
`Exit` is the event loop running empty.  The transport is open or closed; `CallUpstream`
is any data tool that sends the token.

### BoundedTransport

`WireNext` is a step of the process (`ProcessStep`) or of one call: `Receive` or
`DropRequest`, then `Succeed`, `ExceedLimit` or `FailCall`, then `Send`, `RefuseFrame` or
`Lose`.  Frames are counted in bytes with the ceilings of the code (65,536 and 1,024).  An
id is the number of its bytes as JSON, and what a tool found is a run of characters of one
class: text is written twice into a frame, once as JSON (`structuredContent`) and once as
JSON inside a JSON string, so a plain character takes 2 bytes, a quote 6, a control
character 13 and one of four UTF-8 bytes 8 (`jsonBytes`).  The measures are the ones of the code: the
output schemas measure with the id `null`, the governor measures memory answers again with
the id of the request, and the transport measures the frame.  `BareBytes` and `ErrorBytes`
were counted on the serialized envelope and on the longest error.  `wire` is a history
variable: the frame that what was found would have needed.

### MerkleProof

Each loop iteration is a step: `BuildLevel`, `ProveNode`, `WalkNode`.  SHA-256 is a
constructor, with the domain prefixes of the code as tags, so equal digests mean equal
inputs.  Between building and verifying, `Presentations` hands the verifier any bytes and
any proof.  A proof declares its own source length and chunk count, which nothing but its
caller compares with a manifest: `VerifiedIsIncluded` is about a proof whose count is the
manifest's, as the inspector's are.  `DepthAssumption` says that the logarithm of the code
counts halvings; TLC evaluates it up to the code's bound of 4,096 chunks.  Hexadecimal
syntax and the freezing of objects are left out.

### TextIndex and ArtifactContent

A byte is a name from a small alphabet; `"C3"`, `"A9"` is the one code point of two bytes,
`tick` and `tilde` are the fence markers.  `TextIndex` has line table, fence and heading
parsing, slugs and identifiers, and the two indexed reads.  A loop of the code is its body
(`scanStep`, `slugStep`, `headingStep`, `searchStep`) and the function from the number of
iterations to the state after them (`scanAfter`, `slugAfter`, `headingsAfter`,
`searchAfter`).  `ArtifactContent` is one call of a tool (`Resolve`, `Fetch`, `Conclude` and
their failures) against an object that is overwritten or removed (`OverwriteObject`,
`RemoveObject`) and a record one field of which is wrong (`MiswriteRecord`), at any point.  The
checks come in the order of the code, and a candidate answer is parsed with its schema
(`Validated`).  A record over `MAX_CALIBRATION_SOURCE_BYTES` or `MAX_CHUNK_COUNT`, which the
registry may hold, is refused like an inconsistent one (`MetadataValid`), consistent and
untouched as it may be.  Proof node lists are not carried: the theorems of `MerkleProof` are why a
chunk may be verified by its digests and a root may be a term over the leaves.  Whether an
answer is too long as JSON is a free choice here (`ConcludeTooLong`) and counted in
`BoundedTransport`.  Kept although surprising: `artifact_read_range` reports the record's
`sourceSha256` without having read the whole source, so `SuccessIsSourceBytes` claims that
digest only for the tools that have.

## 3. Runs

| Run | Instance | Distinct states | Shows |
|---|---|---|---|
| `governor` | 4 calls, 3 scopes, map of 2, window of 2 | 933,585 | slot and window accounting, ceilings, eviction, exhaustion |
| `governor_live` | 2 calls, every way to settle | 6,098 | admitted calls settle |
| `artifact` | 2 calls, 2 versions | 697,225 | evidence properties, the refinement, every call is answered |
| `artifact_abort` | 1 call | violation | finding 1 |
| `pagination` | 3 rows, 2 workspaces, 2 changes, pages of 1 or 2, filters that change | 153,574 | no repetition, steady rows exactly once, walks end |
| `retrieval` | 2 rows, both forms of a query, with and without a cursor, 2 changes | 1,408,758 | answers are true of a snapshot; retrievals return |
| `stdio` | a regular file and a directory, 2 changes, 2 bytes, one call with frames at the ceiling | 1,716,208 | credential, close, exit code, startup ends, answers fit |
| `stdio_signals` | 1 file | violation | finding 2 |
| `stdio_revoked` | 1 file | violation | finding 3 |
| `frame_ids` | 2 calls, a numeric id and a UUID | violation | finding 4 |
| `merkle` | all sources of up to 6 bytes, chunks of 1 and 2, one alteration of a proof | 142,214 | exactly the included chunks verify |
| `content` | plain, Markdown and fenced sources of up to four lines, one a byte and one a chunk over the ceilings | 913,201 | answers against reference definitions |

Why the bounds are enough to be interesting: three scopes for a map of two force eviction,
re-creation and refusal, and a fourth call lets a recreated scope meet its former holder;
time runs over the whole window, so timestamps expire; two calls are all that the evidence
properties relate, and two versions are what an adapter can confuse; three rows and pages
of one give a first, a middle and a last page, with ties of `created_at` and both orders
of ids; two changes are a deletion and an insertion of one row, or a change on either side
of a request; two retrievals share only the store, which they never write, so one is
enough; a file may grow past the limit of two bytes (`MaxSize` is three) before, while and
after it is read; five and six chunks give trees of four levels with odd widths among the leaves and above;
outputs lie at the ceiling, 40 bytes below it and one above it, and ids have one byte, the
allowed maximum and one more.  In `stdio` one call meets every state of the process; what
several calls do to one another (a refused frame loses the others) is in `frame_ids`, whose
world of files is still, and in the theorems, which are about any number of calls.  In
`content` each bound of the inspector is small enough to be exceeded.
`CHECK_DEADLOCK FALSE` everywhere: calls, walks and the process are finite and really
end.  Symmetry is used in the `governor` run only, which checks no liveness.

The type invariants of `ReadToolGovernor`, `ArtifactInspection`, `StdioLifecycle` and
`BoundedTransport` are theorems and not part of a run.

**Fairness.** Only what the code or its runtime guarantees: timers fire (`Abort`,
`Deadline`, `VerifyTimesOut`); an aborted `execute` settles (`SettleAborted`: the signal is
handed to `fetch`, which rejects); a caller goes on with its cursors in `WalksEnd` (that is
what the property is about); local file operations settle.  Upstream, the resolver, the
storage and the journal may stay silent for ever.  The clock of the governor is monotone,
which `Date.now` does not promise: a step back only delays admission.

## 4. Proofs

All theorems hold for every value of the constants under the modules' assumptions
(`GovernorAssumption`, `InspectionAssumption`, `LifecycleAssumption`, `TransportAssumption`,
`StoreAssumption`, `PaginationAssumption`, `RetrievalAssumption`, `BoundsAssumption`,
`DepthAssumption`, `TextIndexBounds`, `ContentBounds`, `ContentShape`: natural bounds, absent
values outside the sets, finitely many calls where they are counted, a ceiling that leaves
room for an error with the longest id, a normal form of queries that is its own normal form,
requests that the input schemas admit, and a source that may be searched being no longer
than a range).

**Governor.** `ConcurrencyBound` is not inductive: that a scope runs no more calls than its
ceiling rests on the counter being the number of its running calls, which survives eviction
only because a busy object is never evicted.  `SlotInv` says this in four parts: an
object in the map was created by a call of its scope (`OwnObjects`), what a running call holds is
still what the map has for its scope (`HeldObjectsTracked`), the counter is the cardinality
of the running calls (`SlotAccounting`), and unused objects are fresh (`FreshObjects`).
`WindowInv` does the same for the window: every charge that is still recent is recorded.
From these: `SlotsAccounted`, `ConcurrencyBounded`, `TrackingBounded`, `WindowRecorded`,
`WindowBudgeted`, `EvictionSafe` and `FreshScopeDenial` (the last two are action
properties).

**Artifacts.** `EvidenceInv` relates, per call, phase, gate, journal and answer: what
version is established when (`VersionEstablished`, `SourceInv`), that a
gate is open exactly while its call is unanswered and holds a receipt exactly while that
is appended (`GateInv`), whose receipts the journal holds
(`JournalInv`), and what an answer implies (`AnswerInv`).  A step touches one call, so its
preservation is proved for that call (`OneCall`) and for the others at once
(`OtherCalls`).  It yields the four evidence theorems, `AnswersAreFinal` and, by step
simulation, `KeepsPromise`: `Spec => Evidence!EvidenceSpec`.  `EventInv` follows the events of
a call through the gate: one is buffered exactly while its receipt is appended behind an open
gate, and nothing is forwarded before the answer; `EventsMatch` is `EventMatchesAnswer`.

**Pagination.** Rows are compared with the cursor by the key it was issued with (`After`), not
by that of the row it names, which may have been deleted and inserted anew.  `IInv` says per
walk that all a list has returned lies at or before its cursor (`ListInv`), and that a steady
row has been returned exactly if it does not come after the cursor (`SteadyInv`).  The order of
rows is strict and total (`StrictOrder`), a page is an initial part of what remains
(`PageIsInitial`, by counting; both in `MemoryStoreProofs`), and while the row of the cursor is eligible the two comparisons
agree (`AnchorIsCursor`); so a page moves the boundary and nothing else does.
`ListsRepeatNothing`, `SteadyOnce` and the action property `FailuresAreCollation` follow.

**Retrieval.** The rows of an answer were read in one snapshot, the answer is given in a later
state, and the property speaks of the snapshots (`searched`, `readable`).  `IInv` therefore
carries what is known at each await: the number of requests made so far (`Counted`), that the race is over exactly if the abort has fired (`Raced`), that a
second search follows an accepted first one that found nothing and has no cursor to be
refused (`Progress`), that a page on
its way agrees with the snapshot of its search (`Replied`), and what an answer given implies (`Told`).
A page without rows leaves nothing eligible behind it (`PageHasFirst`), and a page without
cursor leaves nothing after it (`PageLeavesRest`); that is what makes `scoped_no_match` and
`found` true.  The other retrievals of a step are untouched (`SameKeeps`).  It yields
`AnswersTrue`, `NoMatchTrue`, `CursorNotRefused` and the action property `AnswersOnce`.

**Content.** Three arguments are behind the six theorems of `ArtifactContentProofs`.

*What a success holds.*  A record that passes the checks made before anything is read
agrees with the artifact in length, chunk size, chunk count and leaf digests (`Sound`), though
perhaps not in its source digest or its raw chunk digests.  So a chunk that verifies is the
chunk of the source at its position (`VerifiedChunk`, `PositionRight`), and bytes that verify
as a whole are the source (`VerifiedSource`).  What the text tools return is a slice of these
wherever the index says, hence `BytesAreTheSource`.  That the index is also *right* is a loop
invariant each: the table of lines covers what has been scanned without gap, each line ending
in its newline (`Table`, `ScanInv`), and the hits of a search are the leftmost matches up to
its offset, the line cursor standing at a line that begins no later (`SearchInv`).  They give
`LinesAsAsked` and `HitsAsRead`, whose reference definitions count line feeds and matches in
the source and know nothing of the loops.

*What a heading is addressed by.*  `HeadingsAsAddressed` relates the scan for headings to a
reference that knows lines only by line feeds and fences only by their lines, in four steps.
Newlines: the offset of `scanLines` never stands between a CR of the line under way and the
LF after it (`NewlinesInv`), so the content of a line in the table is the reference's
(`ContentOfTable`) and both read the same text.  Fences: after each line either no fence is
open and every line that opened one has its closing line, or exactly the last opener has none
and its fence is the one the scan carries (`FenceInv`); so being outside a fence is what the
reference says (`OutsideFences`), its recursive definition of openers has one solution, the
lines at which the scan enters a fence (`OpenersAre`), and the heading lines agree
(`HeadingLinesAre`).  Identifiers: the decimal digits of different numbers differ and contain
no hyphen (`DigitsDiffer`), so what follows the last hyphen tells two candidates with suffixes
apart, however much of the slug is cut off (`TriedDiffer`), and among one more candidates than
identifiers in use one is new (`NewId`).  Together: the headings after k lines are those of the
heading lines up to k, each with the place of its line, and no two share an identifier
(`AddressedTo`); the answer is then the content of the line the identifier leads to.

*Why a call fails.*  The artifact's own record passes its checks unless it is over a ceiling
(`WithinCeilings`), its own chunks and its own bytes verify (`OwnRecord`, `OwnChunk`, `OwnSource`), chunks that follow one another satisfy the
schema of an answer (`WellPlaced`, `CandidateFits`), and the index of valid text passes the
consistency check it is read under (`IndexHolds`; `HeadingsInv` places headings on
lines of the table).  `CauseInv` says what has survived to the conclusion: the record is the
registry's, it has passed the first checks, and of an untouched object exactly the part asked
for was read.  So `FailuresHaveACause` and `SchemasFit`.

All need induction over the iterations of a loop.  The library's induction theorems take a
predicate and cannot be used; a set of naturals serves instead: `LeastNatural` is
`WellFoundedInduction`'s minimum in a set, and `SetInduction` follows from it.  The loop
functions are recursive functions, defined by CHOOSE; `ScanIs`, `SearchIs`, `HeadingsIs` and
`DigitsIs` show that they exist and satisfy their equations, again with sets of naturals.
For loops over the states of a set this is done once, with the iteration as a function of the
state (`LoopRuns`, `LoopStays`).

**Lifecycle.** `IInv` adds to the properties how far startup got (`Progress`): a file being
read has passed its checks, a credential exists from the last read on, listeners exist only
while serving, and the exit code is 1 exactly when something failed.

**Frames.** `FrameInv` says of each call that a dispatched id leaves room for an error,
that a success of a memory tool was measured with that id, and that a call that has not
started has no verdict.  `ReadToolAnswersFitTheorem` and `WithheldOnlyAtCeilingTheorem`
follow.  `FramesKeepLifecycle` is the composition: every step of `WireNext` is a step of
`StdioLifecycle` or leaves it alone, `WireSpec => Spec`, so what was proved of the process
holds while it answers calls (`LifecycleSafeWithFrames`).

**Merkle proofs.** `TreeInv` has three parts: the widths halve down to one (`Shape`), every
level is the hash of the one below (`Hashed`), and the walk stands at a node of the level it
has reached, the depth still to go being the logarithm of its width (`Walked`).  The heart
of `Walked` is an implication that each step of the walk preserves: *if* the digest reached
is the tree's at this node, then the bytes are the chunk's.  Injectivity of `parentDigest`
carries it up one level, and at the root its premise is what the verifier compares.  So
inclusion needs no induction over the tree as data, the steps of the walk are the induction.
`OwnProofVerifiesTheorem` needs a second invariant (`HonestInv`): the proof nodes recorded
so far are the siblings on the path.

**Only model-checked.** The liveness properties: fairness and `ENABLED` are beyond the
prover.  Every invariant of the passing runs is stated by a theorem.  No module declares a
RECURSIVE operator.

## 5. Findings

1. **A cancelled request may emit two events** (`artifact_abort`).
   `docs/evidence/ISSUE_34_S5_EXACT_SEARCH_RECEIPT_JOURNAL.md` (lines 77-78) promises only
   the `DEADLINE_EXCEEDED` event.  When the request is cancelled before its handler runs
   and the inspector refuses it before any await, the commit of the refusal runs before the
   gate closes, and its event is forwarded too.
2. **A repeated signal does not share the close** (`stdio_signals`).
   `docs/evidence/ISSUE_18_OPERATOR_RELEASE.md` (lines 139-140).  `process.once` removes
   the listener; the same signal again kills the process while the close is pending.
   Different signals do share it (`ClosesOnce`).
3. **A refused token stays in service** (`stdio_revoked`).
   `docs/decisions/0003-local-credential-and-protocol-policy.md` (lines 90-92).  A 401 or
   403 of a data call is an upstream status like any other, and the next call sends the
   token again.
4. **A successful artifact answer may close the connection** (`frame_ids`).
   `packages/contracts/src/artifact-inspection.ts` (lines 378-379) calls the measure with a
   null id "Conservative".  It is the most lenient one, and nothing measures an artifact
   answer again with its id: an answer of 65,536 bytes with the id `null` is 65,570 with a
   UUID, and the transport closes instead of sending it, after the receipt was journaled as
   a success.  Memory tools are measured again (`ReadToolAnswersFit`).
   `docs/evidence/ISSUE_34_S2_FIXED_INSPECTOR.md` (lines 282-284) takes the ceiling for
   unreachable, from characters of four bytes; control characters reach it.

## 6. Not modelled

- Field syntax of the schemas (patterns, lengths, hexadecimal digests) and formatting: no
  property tells the values apart.  The bounds that a request or an answer can meet are in
  the component modules.
- Dispatch, framing of JSON-RPC and cancellation messages: they belong to the MCP SDK.
- Session capabilities, the access matrix of `authorization.ts`, the local credential
  policy and the write containment contracts: constants, schemas and static parsers without
  state.
- Artifact tables, storage policy and audit table: no server code reads or writes them.
- Probes, calibration and the leak gate: release tooling.
- Rewriting a credential file in place, and a clock that jumps (section 3).

## 7. Order of the work, and what is left

Done, in this order: governor and its proofs; artifact registration, its abstract
specification and its proofs; store, pagination and retrieval; process lifecycle and its
proofs; chunk manifest and its proofs; text index and the content of the inspections;
frames over the lifecycle and their proofs; filters that change between pages and the
proofs of pagination; the proofs of retrieval and of the content of the inspections, headings
last.

Left: no invariant that is checked is without a theorem.  What could be added is in section 6.

## 8. Running

    tlc -workers 2 -config MCReadToolGovernor.cfg MCReadToolGovernor
    tlapm ReadToolGovernorProofs.tla
