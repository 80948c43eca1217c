--------------------------- MODULE ArtifactContent ---------------------------
(***************************************************************************)
(* What the five artifact tools answer, byte by byte                       *)
(* (packages/server/src/artifact-inspector.ts with artifact-text-index.ts, *)
(* the manifest checks of artifact-chunk-manifest.ts and the output        *)
(* schemas of packages/contracts/src/artifact-inspection.ts).              *)
(*                                                                         *)
(* One call resolves the registry record, reads the object from storage    *)
(* and concludes.  Between these awaits the object may be overwritten,     *)
(* with or without a new version, cut short or removed, and the record may *)
(* have a field that is wrong.  Receipts, deadlines and events are in      *)
(* ArtifactInspection; the tree of digests is in MerkleProof, whose        *)
(* theorems are why a chunk is verified here by its own digests and a root *)
(* is a term over all the leaves.                                          *)
(***************************************************************************)
EXTENDS TextIndex

CONSTANTS
    Artifacts,                     \* what is registered: source, mediaType, chunkSize, hashesRef
    Requests(_),                   \* the calls a client makes of a source
    Alterations(_),                \* the bytes an object may be overwritten with
    ALLOWED_CHUNK_SIZES,
    MAX_RANGE_BYTES,
    MAX_COVERING_FETCH_BYTES,
    MAX_LINE_SOURCE_SCAN_BYTES,
    MAX_EXACT_SEARCH_SOURCE_BYTES,
    MAX_VERIFIED_CHUNKS_PER_READ,
    MAX_INLINE_CHUNK_HASHES,
    MAX_CALIBRATION_SOURCE_BYTES,  \* ceilings of a record
    MAX_CHUNK_COUNT

ARTIFACT_INSPECTION_TOOLS == {"artifact_stat", "artifact_read_range", "artifact_read_lines",
                              "artifact_read_heading", "artifact_search_exact"}

ASSUME ContentBounds ==
    /\ ALLOWED_CHUNK_SIZES \subseteq Nat \ {0}
    /\ {MAX_RANGE_BYTES, MAX_COVERING_FETCH_BYTES, MAX_LINE_SOURCE_SCAN_BYTES,
        MAX_EXACT_SEARCH_SOURCE_BYTES, MAX_VERIFIED_CHUNKS_PER_READ,
        MAX_INLINE_CHUNK_HASHES, MAX_CALIBRATION_SOURCE_BYTES, MAX_CHUNK_COUNT} \subseteq Nat
    /\ MAX_EXACT_SEARCH_SOURCE_BYTES <= MAX_RANGE_BYTES
    /\ MAX_VERIFIED_CHUNKS_PER_READ > 0

ASSUME ContentShape ==
    \A a \in Artifacts :
        /\ a.source \in Seq(STRING)
        /\ a.chunkSize \in ALLOWED_CHUNK_SIZES
        /\ Alterations(a.source) \subseteq Seq(STRING)
        /\ \A call \in Requests(a.source) :
             /\ call.tool \in ARTIFACT_INSPECTION_TOOLS
             /\ call.tool = "artifact_read_range" =>
                  call.offset \in Nat /\ call.length \in 1..MAX_RANGE_BYTES
             /\ call.tool = "artifact_read_lines" => {call.startLine, call.count} \subseteq Nat \ {0}
             /\ call.tool = "artifact_search_exact" =>
                  call.query \in Seq(STRING) \ {<<>>} /\ call.maxHits \in Nat \ {0}

VARIABLES
    artifact,    \* what was registered
    registry,    \* the record the registry returns
    stored,      \* the object in storage: its version, 0 if there is none, and its bytes
    phase,       \* which await the call is at
    request,
    record,      \* the record the call resolved
    fetched,     \* what the read of storage returned
    answer

vars == <<artifact, registry, stored, phase, request, record, fetched, answer>>
-----------------------------------------------------------------------------
(***************************************************************************)
(* Records and manifests.  Digests are terms, equal only for equal bytes.  *)
(***************************************************************************)
rawDigest(bytes) == <<"raw", bytes>>
merkleLeafDigest(bytes) == <<"leaf", bytes>>
merkleRootOf(leaves) == <<"root", leaves>>
floorDiv(a, b) == a \div b
least(a, b) == IF a < b THEN a ELSE b

chunkCountOf(byteLength, chunkSize) == (byteLength + chunkSize - 1) \div chunkSize

\* The chunk at an index of the manifest built from a record.
chunkAt(r, i) ==
    [chunkIndex |-> i, byteStart |-> i * r.chunkSize,
     byteLength |-> IF i = r.chunkCount - 1 THEN r.byteLength - i * r.chunkSize ELSE r.chunkSize]

\* The record a registry keeps for an artifact.
RecordOf(a) ==
    LET count == chunkCountOf(Len(a.source), a.chunkSize)
        chunk(i) == Slice(a.source, (i - 1) * a.chunkSize,
                          least(a.chunkSize, Len(a.source) - (i - 1) * a.chunkSize))
        leaves == [i \in 1..count |-> merkleLeafDigest(chunk(i))]
    IN  [objectVersionRef |-> 1, sourceSha256 |-> rawDigest(a.source),
         byteLength |-> Len(a.source), chunkSize |-> a.chunkSize, chunkCount |-> count,
         chunkSha256s |-> [i \in 1..count |-> rawDigest(chunk(i))],
         merkleLeafSha256s |-> leaves, merkleRoot |-> merkleRootOf(leaves),
         mediaType |-> a.mediaType, chunkHashesRef |-> a.hashesRef]

\* validateAuthorizedArtifactRecord.  The registry may hold records over the ceilings.
MetadataValid(r) ==
    /\ r.byteLength <= MAX_CALIBRATION_SOURCE_BYTES
    /\ r.chunkSize \in ALLOWED_CHUNK_SIZES
    /\ r.chunkCount <= MAX_CHUNK_COUNT
    /\ r.chunkCount = chunkCountOf(r.byteLength, r.chunkSize)
    /\ Len(r.chunkSha256s) = r.chunkCount
    /\ Len(r.merkleLeafSha256s) = r.chunkCount

\* validateManifestConsistency: the leaves close to the root.
ManifestConsistent(r) == r.merkleRoot = merkleRootOf(r.merkleLeafSha256s)

\* Mutant: the digests of a chunk are not compared.
chunkHasLength(r, i, bytes) == Len(bytes) = chunkAt(r, i).byteLength

\* A chunk verifies by its own proof.
chunkVerifies(r, i, bytes) ==
    /\ Len(bytes) = chunkAt(r, i).byteLength
    /\ rawDigest(bytes) = r.chunkSha256s[i + 1]
    /\ merkleLeafDigest(bytes) = r.merkleLeafSha256s[i + 1]

ChunkBytes(r, i, bytes, origin) ==
    Slice(bytes, chunkAt(r, i).byteStart - origin, chunkAt(r, i).byteLength)

verifyArtifactSourceManifest(bytes, r) ==
    /\ Len(bytes) = r.byteLength
    /\ rawDigest(bytes) = r.sourceSha256
    /\ \A i \in 0..(r.chunkCount - 1) : chunkVerifies(r, i, ChunkBytes(r, i, bytes, 0))
    /\ merkleRootOf([i \in 1..r.chunkCount |->
                       merkleLeafDigest(ChunkBytes(r, i - 1, bytes, 0))]) = r.merkleRoot

\* buildAndVerifyCoveringChunks, of bytes that begin at an offset of the source.
CoveringVerified(r, first, last, bytes, origin) ==
    \A i \in first..last : chunkVerifies(r, i, ChunkBytes(r, i, bytes, origin))
-----------------------------------------------------------------------------
(***************************************************************************)
(* Answers and the schemas a candidate answer is parsed with.              *)
(***************************************************************************)
Empty == [class |-> "none", data |-> <<>>, offset |-> 0, length |-> 0, first |-> 0, last |-> -1,
          chunks |-> <<>>, sourceSha256 |-> <<>>, digest |-> <<>>, lineCount |-> 0, hits |-> <<>>]

Denied(code) == [Empty EXCEPT !.class = code]

\* A candidate: the bytes returned, where they are in the source and the chunks that cover them.
Candidate(r, data, offset, length, first, last) ==
    [Empty EXCEPT !.class = "success", !.data = data, !.offset = offset, !.length = length,
                  !.first = first, !.last = last,
                  !.chunks = [k \in 1..(last - first + 1) |-> chunkAt(r, first + k - 1)],
                  !.sourceSha256 = r.sourceSha256, !.digest = rawDigest(data)]

PartialReadIntegritySchema(c, r) ==
    LET head == c.chunks[1]
        final == c.chunks[Len(c.chunks)]
        end == final.byteStart + final.byteLength
    IN  /\ Len(c.chunks) \in 1..MAX_VERIFIED_CHUNKS_PER_READ
        /\ r.chunkCount > 0
        /\ c.first <= c.last
        /\ c.offset \in Nat /\ c.length \in 0..MAX_RANGE_BYTES
        /\ \A k \in 1..Len(c.chunks) :
             /\ c.chunks[k].chunkIndex < r.chunkCount
             /\ c.chunks[k].byteLength >= 1
             /\ IF c.chunks[k].chunkIndex = r.chunkCount - 1
                THEN c.chunks[k].byteLength <= r.chunkSize
                ELSE c.chunks[k].byteLength = r.chunkSize
        /\ \A k \in 2..Len(c.chunks) :
             /\ c.chunks[k].chunkIndex = c.chunks[k - 1].chunkIndex + 1
             /\ c.chunks[k].byteStart = c.chunks[k - 1].byteStart + c.chunks[k - 1].byteLength
        /\ head.chunkIndex = c.first /\ final.chunkIndex = c.last
        /\ c.offset >= head.byteStart /\ c.offset + c.length <= end
        /\ request.tool = "artifact_read_range" =>
             request.offset >= head.byteStart /\ request.offset + request.length <= end

bindReturnedDataToIntegrity(c) == Len(c.data) = c.length /\ rawDigest(c.data) = c.digest

\* Each hit has the bytes of its snippet, and hits follow one another inside the chunks.
ArtifactSearchHitsSchema(c) ==
    LET final == c.chunks[Len(c.chunks)]
    IN  /\ \A k \in DOMAIN c.hits :
             /\ c.hits[k].length >= 1
             /\ c.hits[k].length = Len(c.hits[k].snippet)
             /\ c.hits[k].lineNumber >= 1
             /\ c.hits[k].offset >= c.chunks[1].byteStart
             /\ c.hits[k].offset + c.hits[k].length <= final.byteStart + final.byteLength
        /\ \A k \in 2..Len(c.hits) :
             c.hits[k].offset >= c.hits[k - 1].offset + c.hits[k - 1].length

Validated(c, r) ==
    IF /\ PartialReadIntegritySchema(c, r)
       /\ IF request.tool = "artifact_search_exact" THEN ArtifactSearchHitsSchema(c)
          ELSE bindReturnedDataToIntegrity(c)
    THEN c ELSE Denied("INTERNAL_ERROR")

\* Whatever else an index throws is internal, like a heading that is not there.
mapArtifactTextIndexError(code) ==
    CASE code = "UNSUPPORTED_MEDIA_TYPE" -> "UNSUPPORTED"
      [] code \in {"SOURCE_TOO_LARGE", "TOO_MANY_LINES", "TOO_MANY_HEADINGS",
                   "RESPONSE_LIMIT_EXCEEDED"} -> "RESPONSE_LIMIT_EXCEEDED"
      [] code \in {"SOURCE_MISMATCH", "INCONSISTENT_INDEX", "INVALID_UTF8"} -> "INTEGRITY_FAILURE"
      [] code = "INVALID_LINE_RANGE" -> "INVALID_REQUEST"
      [] OTHER -> "INTERNAL_ERROR"
-----------------------------------------------------------------------------
(***************************************************************************)
(* artifactStat.                                                           *)
(***************************************************************************)
artifactStat(r) ==
    LET inline == r.chunkCount <= MAX_INLINE_CHUNK_HASHES
        SourceIntegrityMetadataSchema ==
          IF r.byteLength = 0 THEN r.chunkCount = 0 /\ inline
          ELSE /\ r.chunkCount > 0
               /\ inline => Len(r.chunkSha256s) = r.chunkCount
               /\ r.byteLength \in (r.chunkSize * (r.chunkCount - 1) + 1)..(r.chunkSize * r.chunkCount)
    IN  IF ~inline /\ ~r.chunkHashesRef THEN Denied("INTERNAL_ERROR")
        ELSE IF ~SourceIntegrityMetadataSchema THEN Denied("INTERNAL_ERROR")
        ELSE [Empty EXCEPT !.class = "success", !.sourceSha256 = r.sourceSha256]

(***************************************************************************)
(* artifactReadRange.                                                      *)
(***************************************************************************)
\* Mutant: the end of the source is taken as past it.
reachesEnd(r) == request.offset + request.length >= r.byteLength

PastTheEnd(r) == request.offset >= r.byteLength \/ request.offset + request.length > r.byteLength

CoveringRange(r) ==
    LET first == floorDiv(request.offset, r.chunkSize)
        last == floorDiv(request.offset + request.length - 1, r.chunkSize)
    IN  [first |-> first, last |-> last, offset |-> first * r.chunkSize,
         length |-> least((last + 1) * r.chunkSize, r.byteLength) - first * r.chunkSize]

artifactReadRange(r, bytes) ==
    LET covering == CoveringRange(r)
        data == Slice(bytes, request.offset - covering.offset, request.length)
    IN  IF Len(bytes) # covering.length THEN Denied("INTEGRITY_FAILURE")
        ELSE IF ~CoveringVerified(r, covering.first, covering.last, bytes, covering.offset)
        THEN Denied("INTEGRITY_FAILURE")
        ELSE IF covering.last - covering.first + 1 > MAX_VERIFIED_CHUNKS_PER_READ
        THEN Denied("RESPONSE_LIMIT_EXCEEDED")
        ELSE IF ~IsUtf8(data) THEN Denied("UNSUPPORTED")
        ELSE Validated(Candidate(r, data, request.offset, request.length,
                                 covering.first, covering.last), r)

\* The part lines and headings have in common: a range of the whole verified source.
ReturnRange(r, bytes, data, offset, length) ==
    LET first == floorDiv(offset, r.chunkSize)
        last == floorDiv(offset + length - 1, r.chunkSize)
    IN  IF length > MAX_RANGE_BYTES THEN Denied("RESPONSE_LIMIT_EXCEEDED")
        ELSE IF ~CoveringVerified(r, first, last, bytes, 0) THEN Denied("INTEGRITY_FAILURE")
        ELSE IF last - first + 1 > MAX_VERIFIED_CHUNKS_PER_READ
        THEN Denied("RESPONSE_LIMIT_EXCEEDED")
        ELSE Validated(Candidate(r, data, offset, length, first, last), r)

(***************************************************************************)
(* artifactReadLines.  The index is what buildArtifactTextIndex returned.  *)
(***************************************************************************)
artifactReadLines(r, bytes, index) ==
    LET total == Len(index.lines)
        count == least(request.count, total - request.startLine + 1)
        start == index.lines[request.startLine].byteStart
        length == LineEnd(index.lines[request.startLine + count - 1]) - start
        last == r.chunkCount - 1
        Counted(returned) ==
          IF returned.class = "success" THEN [returned EXCEPT !.lineCount = count] ELSE returned
        Returned(read) ==
          IF read.error # "none" THEN Denied(mapArtifactTextIndexError(read.error))
          ELSE Counted(ReturnRange(r, bytes, read.text, start, length))
    IN  IF ~verifyArtifactSourceManifest(bytes, r) THEN Denied("INTEGRITY_FAILURE")
        ELSE IF index.error # "none" THEN Denied(mapArtifactTextIndexError(index.error))
        ELSE IF request.startLine > total
        THEN IF r.chunkCount = 0 THEN Denied("INVALID_REQUEST")
             ELSE IF ~CoveringVerified(r, last, last, bytes, 0) THEN Denied("INTEGRITY_FAILURE")
             ELSE Validated(Candidate(r, <<>>, r.byteLength, 0, last, last), r)
        ELSE Returned(readIndexedLines(bytes, index, request.startLine, count))

(***************************************************************************)
(* artifactReadHeading.                                                    *)
(***************************************************************************)
artifactReadHeading(r, bytes, index) ==
    LET heading == index.headings[Min(HeadingAt(index, request.headingId))]
        Returned(read) ==
          IF read.error = "INVALID_HEADING_ID" THEN Denied("RESOURCE_UNAVAILABLE")
          ELSE IF read.error # "none" THEN Denied(mapArtifactTextIndexError(read.error))
          ELSE ReturnRange(r, bytes, read.text, heading.byteStart, heading.byteLength)
    IN  IF ~verifyArtifactSourceManifest(bytes, r) THEN Denied("INTEGRITY_FAILURE")
        ELSE IF index.error # "none" THEN Denied(mapArtifactTextIndexError(index.error))
        ELSE Returned(readIndexedHeading(bytes, index, request.headingId))

(***************************************************************************)
(* artifactSearchExact.                                                    *)
(***************************************************************************)
\* Buffer.indexOf: the offsets from some offset on where the query stands.
MatchesFrom(bytes, query, offset) ==
    {o \in offset..(Len(bytes) - Len(query)) : Slice(bytes, o, Len(query)) = query}

\* Mutant: the search goes on inside the match.
insideMatch(offset, query) == offset + 1

afterMatch(offset, query) == offset + Len(query)

\* Mutant: a match at the start of a line is given to the line before.
startsBefore(line, offset) == line.byteStart < offset

startsBy(line, offset) == line.byteStart <= offset

\* The index of the line the loop has reached when it comes to a match.
lineReached(lines, lineIndex, offset) ==
    Max({lineIndex} \cup {k \in lineIndex..(Len(lines) - 1) :
                            \A j \in (lineIndex + 1)..k : startsBy(lines[j + 1], offset)})

\* One iteration: the next match, if there is one, with the number of its line.
searchStep(bytes, lines, query, search) ==
    LET matches == MatchesFrom(bytes, query, search.offset)
        at == Min(matches)
        reached == lineReached(lines, search.lineIndex, at)
    IN  IF matches = {} THEN search
        ELSE [hits |-> Append(search.hits,
                         [offset |-> at, length |-> Len(query), snippet |-> query,
                          lineNumber |-> lines[reached + 1].lineNumber]),
              offset |-> afterMatch(at, query), lineIndex |-> reached]

searchAfter(bytes, lines, query, maxHits) ==
    LET after[k \in 0..maxHits] ==
          IF k = 0 THEN [hits |-> <<>>, offset |-> 0, lineIndex |-> 0]
          ELSE searchStep(bytes, lines, query, after[k - 1])
    IN  after

exactHits(bytes, lines, query, maxHits) == searchAfter(bytes, lines, query, maxHits)[maxHits].hits

artifactSearchExact(r, bytes, index) ==
    LET last == r.chunkCount - 1
    IN  IF ~verifyArtifactSourceManifest(bytes, r) THEN Denied("INTEGRITY_FAILURE")
        ELSE IF index.error # "none" THEN Denied(mapArtifactTextIndexError(index.error))
        ELSE IF ~CoveringVerified(r, 0, last, bytes, 0) THEN Denied("INTEGRITY_FAILURE")
        ELSE Validated([Candidate(r, <<>>, 0, r.byteLength, 0, last)
                          EXCEPT !.digest = rawDigest(bytes),
                                 !.hits = exactHits(bytes, index.lines, request.query,
                                                    request.maxHits)], r)
-----------------------------------------------------------------------------
(***************************************************************************)
(* A call, and what happens to the artifact meanwhile.                     *)
(***************************************************************************)
NoRecord == <<>>
Nothing == [version |-> 0, bytes |-> <<>>]
Published == [version |-> 1, bytes |-> artifact.source]

Init ==
    /\ artifact \in Artifacts
    /\ registry = RecordOf(artifact)
    /\ stored = Published
    /\ phase = "called"
    /\ request \in Requests(artifact.source)
    /\ record = NoRecord
    /\ fetched = Nothing
    /\ answer = Empty

OverwriteObject ==
    /\ phase # "answered"
    /\ stored = Published
    /\ \E bytes \in Alterations(artifact.source), version \in {1, 2} :
         stored' = [version |-> version, bytes |-> bytes]
    /\ UNCHANGED <<artifact, registry, phase, request, record, fetched, answer>>

RemoveObject ==
    /\ phase # "answered"
    /\ stored = Published
    /\ stored' = Nothing
    /\ UNCHANGED <<artifact, registry, phase, request, record, fetched, answer>>

\* A record with one field that is not the artifact's.
MiswriteRecord ==
    /\ phase = "called"
    /\ registry = RecordOf(artifact)
    /\ \/ registry' = [registry EXCEPT !.sourceSha256 = rawDigest(<<"other">>)]
       \/ registry' = [registry EXCEPT !.merkleRoot = merkleRootOf(<<merkleLeafDigest(<<"other">>)>>)]
       \/ registry' = [registry EXCEPT !.byteLength = @ + registry.chunkSize]
       \/ \E i \in DOMAIN registry.chunkSha256s :
            \/ registry' = [registry EXCEPT !.chunkSha256s[i] = rawDigest(<<"other">>)]
            \/ registry' = [registry EXCEPT !.merkleLeafSha256s[i] = merkleLeafDigest(<<"other">>)]
    /\ UNCHANGED <<artifact, stored, phase, request, record, fetched, answer>>

\* What a tool denies before it reads storage, "none" if nothing.
DeniedUnread(r) ==
    LET markdown == r.mediaType = "text/markdown"
        text == markdown \/ r.mediaType = "text/plain"
    IN  CASE request.tool = "artifact_read_range" ->
               IF PastTheEnd(r) THEN "INTEGRITY_FAILURE"
               ELSE IF CoveringRange(r).length > MAX_COVERING_FETCH_BYTES
               THEN "RESPONSE_LIMIT_EXCEEDED" ELSE "none"
          [] request.tool = "artifact_read_lines" ->
               IF ~text THEN "UNSUPPORTED"
               ELSE IF r.byteLength > MAX_LINE_SOURCE_SCAN_BYTES
               THEN "RESPONSE_LIMIT_EXCEEDED" ELSE "none"
          [] request.tool = "artifact_read_heading" ->
               IF ~markdown THEN "UNSUPPORTED"
               ELSE IF r.byteLength > MAX_LINE_SOURCE_SCAN_BYTES
               THEN "RESPONSE_LIMIT_EXCEEDED" ELSE "none"
          [] request.tool = "artifact_search_exact" ->
               IF ~text THEN "UNSUPPORTED"
               ELSE IF r.byteLength = 0 THEN "RESOURCE_UNAVAILABLE"
               ELSE IF r.byteLength > MAX_EXACT_SEARCH_SOURCE_BYTES
                       \/ r.chunkCount > MAX_VERIFIED_CHUNKS_PER_READ
               THEN "RESPONSE_LIMIT_EXCEEDED" ELSE "none"

\* resolveArtifact
Resolve ==
    /\ phase = "called"
    /\ MetadataValid(registry) /\ ManifestConsistent(registry)
    /\ record' = registry
    /\ phase' = "resolved"
    /\ UNCHANGED <<artifact, registry, stored, request, fetched, answer>>

ResolveFails ==
    /\ phase = "called"
    /\ ~(MetadataValid(registry) /\ ManifestConsistent(registry))
    /\ answer' = Denied(IF request.tool = "artifact_search_exact" /\ MetadataValid(registry)
                        THEN "INTEGRITY_FAILURE" ELSE "INTERNAL_ERROR")
    /\ phase' = "answered"
    /\ UNCHANGED <<artifact, registry, stored, request, record, fetched>>

AnswerUnread ==
    /\ phase = "resolved"
    /\ IF request.tool = "artifact_stat" THEN answer' = artifactStat(record)
       ELSE DeniedUnread(record) # "none" /\ answer' = Denied(DeniedUnread(record))
    /\ phase' = "answered"
    /\ UNCHANGED <<artifact, registry, stored, request, record, fetched>>

\* What a tool reads of an object: the part of the range that is there, with the version.
readVersionedRange(r, object) ==
    LET range == IF request.tool = "artifact_read_range" THEN CoveringRange(r)
                 ELSE [offset |-> 0, length |-> r.byteLength]
        end == least(range.offset + range.length, Len(object.bytes))
    IN  [object EXCEPT !.bytes = SubSeq(@, range.offset + 1, end)]

Fetch ==
    /\ phase = "resolved"
    /\ request.tool # "artifact_stat" /\ DeniedUnread(record) = "none"
    /\ fetched' = readVersionedRange(record, stored)
    /\ phase' = "fetched"
    /\ UNCHANGED <<artifact, registry, stored, request, record, answer>>

WithIndex(r, bytes, index) ==
    CASE request.tool = "artifact_read_lines" -> artifactReadLines(r, bytes, index)
      [] request.tool = "artifact_read_heading" -> artifactReadHeading(r, bytes, index)
      [] request.tool = "artifact_search_exact" -> artifactSearchExact(r, bytes, index)

Conclusion ==
    IF fetched.version = 0 THEN Denied("RESOURCE_UNAVAILABLE")
    ELSE IF fetched.version # record.objectVersionRef THEN Denied("INTEGRITY_FAILURE")
    ELSE IF request.tool = "artifact_read_range" THEN artifactReadRange(record, fetched.bytes)
    ELSE WithIndex(record, fetched.bytes, buildArtifactTextIndex(fetched.bytes, record.mediaType))

Conclude ==
    /\ phase = "fetched"
    /\ answer' = Conclusion
    /\ phase' = "answered"
    /\ UNCHANGED <<artifact, registry, stored, request, record, fetched>>

\* The response that would be sent is over the limit of the wire.
ConcludeTooLong ==
    /\ phase = "fetched"
    /\ Conclusion.class = "success"
    /\ answer' = Denied("RESPONSE_LIMIT_EXCEEDED")
    /\ phase' = "answered"
    /\ UNCHANGED <<artifact, registry, stored, request, record, fetched>>

Next ==
    \/ OverwriteObject
    \/ RemoveObject
    \/ MiswriteRecord
    \/ Resolve
    \/ ResolveFails
    \/ AnswerUnread
    \/ Fetch
    \/ Conclude
    \/ ConcludeTooLong

Spec == Init /\ [][Next]_vars
-----------------------------------------------------------------------------
(***************************************************************************)
(* Properties.                                                             *)
(***************************************************************************)
Succeeded(tool) == request.tool = tool /\ answer.class = "success"

WholeSourceTools == {"artifact_read_lines", "artifact_read_heading", "artifact_search_exact"}

\* Whatever happens to the object and to the record, the bytes of a successful answer are those
\* of the registered source at the range it names, inside the chunks it says were verified; and
\* a tool that reads the whole source reports the digest of the registered source.
SuccessIsSourceBytes ==
    answer.class = "success" /\ request.tool # "artifact_stat" =>
        /\ request.tool # "artifact_search_exact" =>
             answer.data = Slice(artifact.source, answer.offset, answer.length)
        /\ \A i \in answer.offset..(answer.offset + answer.length - 1) :
             i \div artifact.chunkSize \in answer.first..answer.last
        /\ request.tool \in WholeSourceTools =>
             answer.sourceSha256 = rawDigest(artifact.source)

\* The number of the line a byte is in: one more than the line feeds before it.
LineOf(source, i) == 1 + Cardinality({j \in 1..(i - 1) : source[j] = "LF"})

LinesOf(source, first, last) ==
    LET within == {i \in 1..Len(source) : LineOf(source, i) \in first..last}
    IN  IF within = {} THEN <<>> ELSE SubSeq(source, Min(within), Max(within))

\* artifact_read_lines returns the bytes of the lines asked for that exist, with their newlines,
\* and counts them: a line ends at a line feed, and a carriage return is content unless a line
\* feed follows it.
LinesAreTheLines ==
    Succeeded("artifact_read_lines") =>
        LET last == least(request.startLine + request.count - 1,
                          LineOf(artifact.source, Len(artifact.source)))
        IN  /\ answer.data = LinesOf(artifact.source, request.startLine, last)
            /\ answer.lineCount = Cardinality(request.startLine..last)

\* The text of line k without its newline, from the definition of lines above.
ContentOf(source, k) ==
    LET line == LinesOf(source, k, k)
        n == Len(line)
        newline == IF line[n] # "LF" THEN 0 ELSE IF n > 1 /\ line[n - 1] = "CR" THEN 2 ELSE 1
    IN  SubSeq(line, 1, n - newline)

\* The lines that open a fence: not inside an earlier one, that is, every earlier opener has
\* its closing line in between.
Openers(source) ==
    LET text(k) == decode(ContentOf(source, k))
        Opens[k \in 1..LineOf(source, Len(source))] ==
          /\ parseFence(text(k)) # NoFence
          /\ \A o \in 1..(k - 1) :
               Opens[o] => \E m \in (o + 1)..(k - 1) : isClosingFence(text(m), parseFence(text(o)))
    IN  {k \in 1..LineOf(source, Len(source)) : Opens[k]}

\* The lines that are headings: outside every fence.
HeadingLines(source) ==
    LET text(k) == decode(ContentOf(source, k))
    IN  {k \in 1..LineOf(source, Len(source)) :
           /\ parseAtxHeading(text(k)) # NoHeading
           /\ k \notin Openers(source)
           /\ \A o \in Openers(source) :
                o < k => \E m \in (o + 1)..(k - 1) : isClosingFence(text(m), parseFence(text(o)))}

\* An identifier addresses one heading, every heading outside the code fences has one, and
\* artifact_read_heading returns the line of the heading its identifier addresses.
HeadingsAreAddressed ==
    Succeeded("artifact_read_heading") =>
        \E headings \in {buildArtifactTextIndex(artifact.source, "text/markdown").headings} :
          /\ Cardinality({headings[k].headingId : k \in DOMAIN headings}) = Len(headings)
          /\ {headings[k].lineNumber : k \in DOMAIN headings} = HeadingLines(artifact.source)
          /\ \E k \in DOMAIN headings :
               /\ headings[k].headingId = request.headingId
               /\ answer.data = ContentOf(artifact.source, headings[k].lineNumber)

\* artifact_search_exact returns the matches a reader finds from left to right without overlap,
\* none left out before the limit, each with the number of the line it begins in.
HitsAreLeftmost ==
    Succeeded("artifact_search_exact") =>
        LET n == Len(answer.hits)
            from(k) == IF k = 1 THEN 0 ELSE answer.hits[k - 1].offset + Len(request.query)
            matches == {o \in 0..(Len(artifact.source) - Len(request.query)) :
                          Slice(artifact.source, o, Len(request.query)) = request.query}
        IN  /\ \A k \in 1..n :
                 /\ answer.hits[k].offset \in matches
                 /\ \A o \in matches : o < from(k) \/ o >= answer.hits[k].offset
                 /\ answer.hits[k].offset >= from(k)
                 /\ answer.hits[k].lineNumber = LineOf(artifact.source, answer.hits[k].offset + 1)
            /\ n < request.maxHits => \A o \in matches : o < from(n + 1)

Unaltered == registry = RecordOf(artifact) /\ stored = Published

\* INTEGRITY_FAILURE is not raised by chance: an object and a record nobody touched give it only
\* for a range past the end of the source or a text that is not UTF-8.
IntegrityFailureHasACause ==
    answer.class = "INTEGRITY_FAILURE" /\ Unaltered =>
        \/ /\ request.tool = "artifact_read_range"
           /\ request.offset + request.length > Len(artifact.source)
        \/ request.tool \in WholeSourceTools /\ ~IsUtf8(artifact.source)

\* The source and its chunks are under the ceilings of a record.
WithinCeilings ==
    /\ Len(artifact.source) <= MAX_CALIBRATION_SOURCE_BYTES
    /\ chunkCountOf(Len(artifact.source), artifact.chunkSize) <= MAX_CHUNK_COUNT

\* The output schemas never turn down what a tool has put together: INTERNAL_ERROR comes from a
\* record that is not the artifact's, from a source over the ceilings of a record, or from one
\* that has too many chunks to list and no reference.
CandidatesFitTheSchema ==
    answer.class = "INTERNAL_ERROR" =>
        \/ registry # RecordOf(artifact)
        \/ ~WithinCeilings
        \/ /\ request.tool = "artifact_stat"
           /\ record.chunkCount > MAX_INLINE_CHUNK_HASHES /\ ~record.chunkHashesRef
=============================================================================
