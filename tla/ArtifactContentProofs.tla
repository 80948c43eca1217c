------------------------ MODULE ArtifactContentProofs ------------------------
(***************************************************************************)
(* What an inspection returns, proved for sources of any length, any chunk *)
(* size, any overwriting of the object and any wrong field of the record:  *)
(* the bytes of a success are the source's, the lines, the headings and    *)
(* the hits are those a reader of the source finds, a heading has an       *)
(* identifier of its own, an integrity failure has a cause, and no schema  *)
(* turns down what a tool put together.                                    *)
(***************************************************************************)
EXTENDS ArtifactContent, FiniteSetTheorems, SequenceTheorems, WellFoundedInduction, TLAPS

-----------------------------------------------------------------------------
(***************************************************************************)
(* Chunks and positions.                                                   *)
(***************************************************************************)

\* The quotient by a chunk size is the chunk a position is in.
LEMMA Quotient ==
    ASSUME NEW n \in Int, NEW d \in Nat \ {0}
    PROVE  /\ n \div d \in Int
           /\ (n \div d) * d <= n
           /\ n < (n \div d) * d + d
OBVIOUS

\* A multiple grows with its factor.
LEMMA Multiples ==
    ASSUME NEW p \in Int, NEW q \in Int, NEW d \in Nat \ {0}
    PROVE  /\ p * d \in Int
           /\ p < q => p * d + d <= q * d
           /\ p * d < q * d => p < q
OBVIOUS

\* The quotient is monotone.
LEMMA QuotientMonotone ==
    ASSUME NEW m \in Int, NEW n \in Int, NEW d \in Nat \ {0}, m <= n
    PROVE  m \div d <= n \div d
<1> DEFINE a == m \div d
           b == n \div d
<1>1. a \in Int /\ b \in Int /\ a * d <= m /\ n < b * d + d
  BY Quotient
<1>2. b + 1 \in Int /\ (b + 1) * d = b * d + d
  BY <1>1
<1> HIDE DEF a, b
<1>3. a * d \in Int /\ b * d \in Int
  BY <1>1, Multiples
<1>4. a * d < (b + 1) * d
  BY <1>1, <1>2, <1>3
<1>5. a < b + 1
  BY <1>1, <1>2, <1>4, Multiples
<1>6. a <= b
  BY <1>1, <1>5
<1>7. QED
  BY <1>6 DEF a, b

\* The last chunk is the only one that may be short, and it is not empty.
LEMMA CountIs ==
    ASSUME NEW n \in Nat, NEW d \in Nat \ {0}
    PROVE  /\ chunkCountOf(n, d) \in Nat
           /\ n <= chunkCountOf(n, d) * d
           /\ chunkCountOf(n, d) * d < n + d
<1> DEFINE m == n + d - 1
           q == m \div d
<1>1. m \in Nat /\ q \in Int /\ q * d <= m /\ m < q * d + d
  BY Quotient
<1>2. chunkCountOf(n, d) = q
  BY DEF chunkCountOf
<1>3. q * d \in Int /\ 0 * d = 0 /\ (q + 1) * d = q * d + d
  BY <1>1
<1> HIDE DEF q
<1>4. q >= 0
  <2>1. 0 * d < (q + 1) * d
    BY <1>1, <1>3
  <2>2. 0 < q + 1
    BY <1>1, <2>1, Multiples
  <2>3. QED
    BY <1>1, <2>2
<1>5. QED
  BY <1>1, <1>2, <1>3, <1>4

\* A position of the source is in one of its chunks.
LEMMA InsideSource ==
    ASSUME NEW n \in Nat, NEW d \in Nat \ {0}, NEW p \in Nat, p < n
    PROVE  p \div d \in 0..(chunkCountOf(n, d) - 1)
<1> DEFINE count == chunkCountOf(n, d)
           i == p \div d
<1>1. i \in Int /\ i * d <= p /\ p < i * d + d
  BY Quotient
<1>2. count \in Nat /\ n <= count * d
  BY CountIs
<1> HIDE DEF i, count
<1>3. i * d \in Int /\ count * d \in Int /\ (i + 1) * d = i * d + d /\ 0 * d = 0
  BY <1>1, <1>2
<1>4. i * d < count * d /\ 0 * d < (i + 1) * d
  BY <1>1, <1>2, <1>3
<1>5. i < count /\ 0 < i + 1
  BY <1>1, <1>2, <1>4, Multiples
<1>6. i \in 0..(count - 1)
  BY <1>1, <1>2, <1>5
<1>7. QED
  BY <1>6 DEF i, count

\* One more chunk size is one more chunk.
LEMMA CountGrows ==
    ASSUME NEW n \in Nat, NEW d \in Nat \ {0}
    PROVE  chunkCountOf(n + d, d) # chunkCountOf(n, d)
<1>1. n + d <= chunkCountOf(n + d, d) * d
  BY CountIs
<1>2. chunkCountOf(n, d) \in Nat /\ chunkCountOf(n, d) * d < n + d
  BY CountIs
<1>3. QED
  BY <1>1, <1>2

-----------------------------------------------------------------------------
(***************************************************************************)
(* Slices.                                                                 *)
(***************************************************************************)

\* The elements of a slice.
LEMMA SliceIs ==
    ASSUME NEW s \in Seq(STRING), NEW start \in Int, NEW length \in Nat
    PROVE  /\ Len(Slice(s, start, length)) = length
           /\ \A k \in 1..length : Slice(s, start, length)[k] = s[start + k]
           /\ Slice(s, start, length) = [k \in 1..length |-> s[start + k]]
BY DEF Slice

\* One of them.
LEMMA SliceAt ==
    ASSUME NEW s \in Seq(STRING), NEW start \in Int, NEW length \in Nat, NEW k \in 1..length
    PROVE  Slice(s, start, length)[k] = s[start + k]
BY SliceIs

-----------------------------------------------------------------------------
(***************************************************************************)
(* The inductive invariant.                                                *)
(***************************************************************************)

\* A record that agrees with the artifact where a read relies on it.  Its digests of the source
\* and of the raw chunks may still be wrong.
Sound(r) ==
    /\ r.byteLength = Len(artifact.source)
    /\ r.chunkSize = artifact.chunkSize
    /\ r.chunkCount = chunkCountOf(Len(artifact.source), artifact.chunkSize)
    /\ r.merkleLeafSha256s = RecordOf(artifact).merkleLeafSha256s

\* The object in storage, or what a read of it returned.
Objects == [version : 0..2, bytes : Seq(STRING)]

\* The inductive invariant: a record that passes the checks is sound, what was read is an object,
\* and a success is right.
IInv ==
    /\ artifact \in Artifacts
    /\ request \in Requests(artifact.source)
    /\ phase \in {"called", "resolved", "fetched", "answered"}
    /\ stored \in Objects
    /\ MetadataValid(registry) /\ ManifestConsistent(registry) => Sound(registry)
    /\ phase \in {"resolved", "fetched"} => Sound(record)
    /\ phase = "fetched" => /\ fetched \in Objects
                            /\ request.tool \in ARTIFACT_INSPECTION_TOOLS \ {"artifact_stat"}
                            /\ request.tool = "artifact_read_range" => ~PastTheEnd(record)
    /\ SuccessIsSourceBytes

\* The source of a registered artifact.
LEMMA SourceTyped ==
    ASSUME artifact \in Artifacts
    PROVE  /\ artifact.source \in Seq(STRING)
           /\ Len(artifact.source) \in Nat
           /\ artifact.chunkSize \in Nat \ {0}
<1>1. artifact.source \in Seq(STRING) /\ artifact.chunkSize \in ALLOWED_CHUNK_SIZES
  BY ContentShape
<1>2. Len(artifact.source) \in Nat
  BY <1>1
<1>3. artifact.chunkSize \in Nat \ {0}
  BY <1>1, ContentBounds
<1>4. QED
  BY <1>1, <1>2, <1>3

\* Where a chunk lies in the source.
LEMMA ChunkLies ==
    ASSUME artifact \in Artifacts, NEW r, Sound(r), NEW i \in 0..(r.chunkCount - 1)
    PROVE  /\ i * artifact.chunkSize \in Nat
           /\ chunkAt(r, i).byteStart = i * artifact.chunkSize
           /\ chunkAt(r, i).byteLength \in Nat
           /\ chunkAt(r, i).byteLength =
                least(artifact.chunkSize, Len(artifact.source) - i * artifact.chunkSize)
<1> DEFINE n == Len(artifact.source)
           d == artifact.chunkSize
           count == chunkCountOf(n, d)
<1>1. n \in Nat /\ d \in Nat \ {0}
  BY SourceTyped
<1>2. count \in Nat /\ n <= count * d /\ count * d < n + d
  BY <1>1, CountIs
<1>3. r.byteLength = n /\ r.chunkSize = d /\ r.chunkCount = count
  BY DEF Sound
<1> HIDE DEF n, d, count
<1>4. i \in Nat /\ i < count
  BY <1>2, <1>3
<1>5. i * d \in Nat /\ count * d \in Nat
  BY <1>1, <1>2, <1>4
<1>6. chunkAt(r, i).byteStart = i * d
  BY <1>3 DEF chunkAt
<1>7. chunkAt(r, i).byteLength = IF i = count - 1 THEN n - i * d ELSE d
  BY <1>3 DEF chunkAt
<1>8. CASE i = count - 1
  <2>1. i * d + d = count * d
    BY <1>1, <1>2, <1>4, <1>8
  <2>2. n - i * d <= d /\ n - i * d >= 0
    BY <1>1, <1>2, <1>5, <2>1
  <2>3. least(d, n - i * d) = n - i * d
    BY <1>1, <1>5, <2>2 DEF least
  <2>4. QED
    BY <1>1, <1>5, <1>6, <1>7, <1>8, <2>2, <2>3 DEF n, d
<1>9. CASE i # count - 1
  <2>1. i + 1 < count /\ i + 1 \in Int
    BY <1>2, <1>4, <1>9
  <2>2. (i + 1) * d + d <= count * d
    BY <1>1, <1>2, <2>1, Multiples
  <2>3. (i + 1) * d = i * d + d
    BY <1>1, <1>4
  <2>4. d <= n - i * d
    BY <1>1, <1>2, <1>5, <2>2, <2>3
  <2>5. least(d, n - i * d) = d
    BY <1>1, <1>5, <2>4 DEF least
  <2>6. QED
    BY <1>1, <1>5, <1>6, <1>7, <1>9, <2>5 DEF n, d
<1>10. QED
  BY <1>8, <1>9

\* What a tool reads of the object is a range of natural numbers.
LEMMA RangeTyped ==
    ASSUME artifact \in Artifacts, request \in Requests(artifact.source), NEW r, Sound(r), NEW range,
           range = IF request.tool = "artifact_read_range" THEN CoveringRange(r)
                   ELSE [offset |-> 0, length |-> r.byteLength]
    PROVE  range.offset \in Nat /\ range.length \in Int
<1> DEFINE n == Len(artifact.source)
           d == artifact.chunkSize
<1>1. n \in Nat /\ d \in Nat \ {0} /\ r.byteLength = n /\ r.chunkSize = d
  BY SourceTyped DEF Sound
<1>2. CASE request.tool = "artifact_read_range"
  <2> DEFINE first == request.offset \div d
             final == (request.offset + request.length - 1) \div d
  <2>1. request.offset \in Nat /\ request.length \in Nat \ {0}
    BY <1>2, ContentShape
  <2>2. request.offset \in Int /\ request.offset + request.length - 1 \in Int
    BY <2>1
  <2>3. first \in Int /\ request.offset < first * d + d /\ final \in Int
    BY <1>1, <2>2, Quotient, Zenon
  <2>4. /\ range.offset = first * d
        /\ range.length = least((final + 1) * d, n) - first * d
    BY <1>1, <1>2 DEF CoveringRange, floorDiv
  <2> HIDE DEF first, final, n, d
  <2>5. first >= 0
    <3>1. 0 * d < (first + 1) * d
      BY <1>1, <2>1, <2>3
    <3>2. 0 < first + 1
      BY <1>1, <2>3, <3>1, Multiples
    <3>3. QED
      BY <2>3, <3>2
  <2>6. first * d \in Nat /\ (final + 1) * d \in Int
    BY <1>1, <2>3, <2>5
  <2>7. QED
    BY <1>1, <2>4, <2>6 DEF least
<1>3. CASE request.tool # "artifact_read_range"
  BY <1>1, <1>3
<1>4. QED
  BY <1>2, <1>3

\* What verifies as a chunk is that chunk of the source: its leaf digest is the artifact's.
LEMMA VerifiedChunk ==
    ASSUME artifact \in Artifacts, NEW r, Sound(r), NEW i \in 0..(r.chunkCount - 1), NEW bytes,
           chunkVerifies(r, i, bytes)
    PROVE  bytes = Slice(artifact.source, chunkAt(r, i).byteStart, chunkAt(r, i).byteLength)
<1> DEFINE count == chunkCountOf(Len(artifact.source), artifact.chunkSize)
           part == Slice(artifact.source, i * artifact.chunkSize,
                         least(artifact.chunkSize, Len(artifact.source) - i * artifact.chunkSize))
<1>1. count \in Nat /\ r.chunkCount = count
  BY SourceTyped, CountIs DEF Sound
<1>2. i \in Nat /\ i + 1 \in 1..count /\ (i + 1) - 1 = i
  BY <1>1
<1>3. r.merkleLeafSha256s[i + 1] = merkleLeafDigest(part)
  BY <1>2 DEF Sound, RecordOf
<1>4. merkleLeafDigest(bytes) = merkleLeafDigest(part)
  BY <1>3 DEF chunkVerifies
<1>5. bytes = part
  BY <1>4 DEF merkleLeafDigest
<1>6. QED
  BY <1>5, ChunkLies

\* A verified chunk puts every byte it covers in its place.
LEMMA PositionRight ==
    ASSUME artifact \in Artifacts, NEW r, Sound(r), NEW bytes \in Seq(STRING), NEW origin \in Int,
           NEW p \in Nat, p < Len(artifact.source), NEW i, i = p \div artifact.chunkSize,
           chunkVerifies(r, i, ChunkBytes(r, i, bytes, origin))
    PROVE  bytes[p - origin + 1] = artifact.source[p + 1]
<1> DEFINE n == Len(artifact.source)
           d == artifact.chunkSize
           count == chunkCountOf(n, d)
           length == chunkAt(r, i).byteLength
<1>1. n \in Nat /\ d \in Nat \ {0} /\ artifact.source \in Seq(STRING)
  BY SourceTyped
<1>2. i \in Int /\ i * d <= p /\ p < i * d + d
  <2>1. p \in Int
    OBVIOUS
  <2>2. QED
    BY <1>1, <2>1, Quotient, Zenon
<1>3. count \in Nat /\ n <= count * d /\ r.chunkCount = count
  BY <1>1, CountIs DEF Sound
<1>4. i \in 0..(count - 1)
  BY <1>1, InsideSource
<1>5. /\ i * d \in Nat /\ chunkAt(r, i).byteStart = i * d /\ length \in Nat
      /\ length = least(d, n - i * d)
  BY <1>3, <1>4, ChunkLies
<1>6. ChunkBytes(r, i, bytes, origin) = Slice(bytes, i * d - origin, length)
  BY <1>5 DEF ChunkBytes
<1>7. Slice(bytes, i * d - origin, length) = Slice(artifact.source, i * d, length)
  BY <1>3, <1>4, <1>5, <1>6, VerifiedChunk
<1> HIDE DEF count, length
<1>8. p - i * d + 1 \in 1..length
  <2>1. p < n
    OBVIOUS
  <2> DEFINE start == i * d
  <2>2. start \in Nat /\ start <= p /\ p < start + d /\ length = least(d, n - start)
    BY <1>2, <1>5
  <2> HIDE DEF start, n, d
  <2>3. p - start + 1 \in 1..length
    BY <1>1, <1>5, <2>1, <2>2 DEF least
  <2>4. QED
    BY <2>3 DEF start, d
<1>9. Slice(bytes, i * d - origin, length)[p - i * d + 1] = bytes[(i * d - origin) + (p - i * d + 1)]
  <2> DEFINE from == i * d - origin
             k == p - i * d + 1
  <2>1. from \in Int /\ length \in Nat /\ k \in 1..length
    BY <1>5, <1>8
  <2> HIDE DEF from, k
  <2>2. Slice(bytes, from, length)[k] = bytes[from + k]
    BY <2>1, SliceAt, Zenon
  <2>3. QED
    BY <2>2 DEF from, k
<1>10. Slice(artifact.source, i * d, length)[p - i * d + 1]
         = artifact.source[i * d + (p - i * d + 1)]
  <2> DEFINE start == i * d
             q == p - start + 1
             source == artifact.source
  <2>1. start \in Int /\ q \in 1..length /\ source \in Seq(STRING) /\ length \in Nat
    BY <1>1, <1>5, <1>8
  <2> HIDE DEF start, q, source
  <2>2. Slice(source, start, length)[q] = source[start + q]
    BY <2>1, SliceAt
  <2>3. QED
    BY <2>2, Zenon DEF start, q, source
<1>11. /\ (i * d - origin) + (p - i * d + 1) = p - origin + 1
       /\ i * d + (p - i * d + 1) = p + 1
  BY <1>5
<1>12. QED
  BY <1>7, <1>9, <1>10, <1>11

\* A source that verifies as a whole is the registered one.
LEMMA VerifiedSource ==
    ASSUME artifact \in Artifacts, NEW r, Sound(r), NEW bytes \in Seq(STRING),
           verifyArtifactSourceManifest(bytes, r)
    PROVE  bytes = artifact.source /\ r.sourceSha256 = rawDigest(artifact.source)
<1> DEFINE n == Len(artifact.source)
           d == artifact.chunkSize
           count == chunkCountOf(n, d)
<1>1. n \in Nat /\ d \in Nat \ {0} /\ artifact.source \in Seq(STRING)
  BY SourceTyped
<1>2. count \in Nat /\ n <= count * d /\ r.chunkCount = count
  BY <1>1, CountIs DEF Sound
<1>3. Len(bytes) = n /\ rawDigest(bytes) = r.sourceSha256
  BY DEF verifyArtifactSourceManifest, Sound
<1>4. CoveringVerified(r, 0, count - 1, bytes, 0)
  BY <1>2 DEF verifyArtifactSourceManifest, CoveringVerified
<1>5. ASSUME NEW k \in 1..n PROVE bytes[k] = artifact.source[k]
  <2>1. k - 1 \in Nat /\ k - 1 < n
    BY <1>1
  <2>2. (k - 1) \div d \in 0..(count - 1)
    BY <1>1, <2>1, InsideSource
  <2> DEFINE p == k - 1
  <2>3. p \in Nat /\ p < n /\ p \div d \in 0..(count - 1)
    BY <2>1, <2>2
  <2> HIDE DEF p
  <2>4. bytes[p - 0 + 1] = artifact.source[p + 1]
    <3>1. chunkVerifies(r, p \div d, ChunkBytes(r, p \div d, bytes, 0))
      BY <1>4, <2>3 DEF CoveringVerified
    <3>2. QED
      <4>1. 0 \in Int
        OBVIOUS
      <4>2. QED
        BY <2>3, <3>1, <4>1, PositionRight, Zenon
  <2>5. p - 0 + 1 = k /\ p + 1 = k
    BY <1>1 DEF p
  <2>6. QED
    BY <2>4, <2>5
<1>6. bytes = artifact.source
  BY <1>1, <1>3, <1>5
<1>7. QED
  BY <1>3, <1>6

-----------------------------------------------------------------------------
(***************************************************************************)
(* Answers.                                                                *)
(***************************************************************************)

\* Every byte of the range an answer names is in a chunk it says was verified.
Covers(a) ==
    \A i \in a.offset..(a.offset + a.length - 1) : i \div artifact.chunkSize \in a.first..a.last

\* What SuccessIsSourceBytes says of a successful answer.
Right(a) ==
    /\ request.tool # "artifact_search_exact" =>
         a.data = Slice(artifact.source, a.offset, a.length)
    /\ Covers(a)
    /\ request.tool \in WholeSourceTools => a.sourceSha256 = rawDigest(artifact.source)

\* A denial has the class it was made with.
LEMMA DeniedIs == \A code : Denied(code).class = code
BY DEF Denied, Empty

\* No error of the index becomes a success.
LEMMA IndexErrorDenied == \A code : Denied(mapArtifactTextIndexError(code)).class # "success"
<1>1. \A code : mapArtifactTextIndexError(code) # "success"
  BY DEF mapArtifactTextIndexError
<1>2. QED
  BY <1>1, DeniedIs

\* The fields of a candidate.
LEMMA CandidateIs ==
    ASSUME NEW r, NEW data, NEW offset, NEW length, NEW first, NEW last
    PROVE  /\ Candidate(r, data, offset, length, first, last).data = data
           /\ Candidate(r, data, offset, length, first, last).offset = offset
           /\ Candidate(r, data, offset, length, first, last).length = length
           /\ Candidate(r, data, offset, length, first, last).first = first
           /\ Candidate(r, data, offset, length, first, last).last = last
           /\ Candidate(r, data, offset, length, first, last).sourceSha256 = r.sourceSha256
BY DEF Candidate, Empty

\* What passes its schema is the candidate, at a range of natural numbers.
LEMMA ValidatedIs ==
    ASSUME NEW c, NEW r, Validated(c, r).class = "success"
    PROVE  Validated(c, r) = c /\ c.offset \in Nat /\ c.length \in Nat
<1>1. Denied("INTERNAL_ERROR").class # "success"
  BY DeniedIs
<1>2. Validated(c, r) = c /\ PartialReadIntegritySchema(c, r)
  BY <1>1 DEF Validated
<1>3. c.offset \in Nat /\ c.length \in 0..MAX_RANGE_BYTES
  BY <1>2 DEF PartialReadIntegritySchema
<1>4. QED
  BY <1>2, <1>3, ContentBounds

\* The chunks of the first and the last byte of a range cover it.
LEMMA QuotientsCover ==
    ASSUME NEW offset \in Nat, NEW length \in Nat, NEW d \in Nat \ {0},
           NEW i \in offset..(offset + length - 1)
    PROVE  i \div d \in floorDiv(offset, d)..floorDiv(offset + length - 1, d)
<1>1. i \in Int /\ offset \in Int /\ offset + length - 1 \in Int
  OBVIOUS
<1>2. offset \div d <= i \div d /\ i \div d <= (offset + length - 1) \div d
  BY <1>1, QuotientMonotone
<1>3. offset \div d \in Int /\ i \div d \in Int /\ (offset + length - 1) \div d \in Int
  BY <1>1, Quotient
<1>4. QED
  BY <1>2, <1>3 DEF floorDiv

\* artifact_read_range: the covering chunks verify, so each byte asked for is in its place.
LEMMA RangeRight ==
    ASSUME artifact \in Artifacts, NEW r, Sound(r), NEW bytes \in Seq(STRING), ~PastTheEnd(r),
           request.tool = "artifact_read_range",
           artifactReadRange(r, bytes).class = "success"
    PROVE  Right(artifactReadRange(r, bytes))
<1> DEFINE covering == CoveringRange(r)
           data == Slice(bytes, request.offset - covering.offset, request.length)
           c == Candidate(r, data, request.offset, request.length, covering.first, covering.last)
           n == Len(artifact.source)
           d == artifact.chunkSize
<1>1. /\ CoveringVerified(r, covering.first, covering.last, bytes, covering.offset)
      /\ artifactReadRange(r, bytes) = Validated(c, r)
  BY DeniedIs DEF artifactReadRange
<1>2. artifactReadRange(r, bytes) = c /\ c.offset \in Nat /\ c.length \in Nat
  BY <1>1, ValidatedIs
<1>3. /\ c.data = data /\ c.offset = request.offset /\ c.length = request.length
      /\ c.first = covering.first /\ c.last = covering.last
  BY CandidateIs
<1>4. request.offset \in Nat /\ request.length \in Nat
  BY <1>2, <1>3
<1>5. n \in Nat /\ d \in Nat \ {0} /\ artifact.source \in Seq(STRING)
  BY SourceTyped
<1>6. /\ r.chunkSize = d /\ r.byteLength = n
      /\ covering.first = floorDiv(request.offset, d)
      /\ covering.last = floorDiv(request.offset + request.length - 1, d)
      /\ covering.offset = floorDiv(request.offset, d) * d
  BY DEF Sound, CoveringRange
<1>7. request.offset + request.length <= n
  BY <1>4, <1>5, <1>6 DEF PastTheEnd
<1>8. covering.offset \in Int
  BY <1>4, <1>5, <1>6, Quotient DEF floorDiv
<1>9. Covers(c)
  <2>1. ASSUME NEW i \in request.offset..(request.offset + request.length - 1)
        PROVE  i \div d \in covering.first..covering.last
    BY <1>4, <1>5, <1>6, QuotientsCover
  <2>2. QED
    BY <1>3, <2>1 DEF Covers
<1> HIDE DEF c, covering
<1>10. ASSUME NEW k \in 1..request.length
       PROVE  bytes[(request.offset - covering.offset) + k] = artifact.source[request.offset + k]
  <2> DEFINE p == request.offset + k - 1
             i == p \div d
  <2>1. /\ p \in Nat /\ p < n /\ p \in request.offset..(request.offset + request.length - 1)
        /\ p - covering.offset + 1 = (request.offset - covering.offset) + k
        /\ p + 1 = request.offset + k
    <3> DEFINE at == request.offset
               length == request.length
               from == covering.offset
    <3>1. at \in Nat /\ length \in Nat /\ from \in Int /\ at + length <= n /\ k \in 1..length
      BY <1>4, <1>7, <1>8
    <3> HIDE DEF at, length, from, n
    <3>2. at + k - 1 \in Nat /\ at + k - 1 < n /\ at + k - 1 \in at..(at + length - 1)
      BY <1>5, <3>1
    <3>3. (at + k - 1) - from + 1 = (at - from) + k /\ (at + k - 1) + 1 = at + k
      BY <3>1
    <3>4. QED
      BY <3>2, <3>3 DEF at, length, from
  <2> HIDE DEF p
  <2>2. i \in covering.first..covering.last
    BY <1>3, <1>9, <2>1 DEF Covers
  <2>3. chunkVerifies(r, i, ChunkBytes(r, i, bytes, covering.offset))
    BY <1>1, <2>2 DEF CoveringVerified
  <2>4. bytes[p - covering.offset + 1] = artifact.source[p + 1]
    BY <1>8, <2>1, <2>3, PositionRight, Zenon
  <2>5. QED
    BY <2>1, <2>4
<1>11. data = Slice(artifact.source, request.offset, request.length)
  <2>1. request.offset - covering.offset \in Int /\ request.offset \in Int
    BY <1>4, <1>8
  <2> DEFINE from == request.offset - covering.offset
             at == request.offset
             length == request.length
             source == artifact.source
  <2>2. /\ from \in Int /\ at \in Int /\ length \in Nat /\ source \in Seq(STRING)
        /\ \A k \in 1..length : bytes[from + k] = source[at + k]
    BY <1>4, <1>5, <1>10, <2>1
  <2> HIDE DEF from, at, length, source
  <2>3. Slice(bytes, from, length) = Slice(source, at, length)
    <3>1. Slice(bytes, from, length) = [k \in 1..length |-> bytes[from + k]]
      BY <2>2, SliceIs, Zenon
    <3>2. Slice(source, at, length) = [k \in 1..length |-> source[at + k]]
      BY <2>2, SliceIs, Zenon
    <3>3. [k \in 1..length |-> bytes[from + k]] = [k \in 1..length |-> source[at + k]]
      BY <2>2, Zenon
    <3>4. QED
      BY <3>1, <3>2, <3>3, Zenon
  <2>4. QED
    BY <2>3 DEF from, at, length, source
<1>12. QED
  BY <1>2, <1>3, <1>9, <1>11 DEF Right, WholeSourceTools

\* A range of the whole verified source.
LEMMA ReturnedRight ==
    ASSUME artifact \in Artifacts, NEW r, Sound(r), NEW bytes, NEW offset, NEW length, NEW data,
           data = Slice(artifact.source, offset, length),
           ReturnRange(r, bytes, data, offset, length).class = "success"
    PROVE  /\ ReturnRange(r, bytes, data, offset, length).data =
                Slice(artifact.source, ReturnRange(r, bytes, data, offset, length).offset,
                      ReturnRange(r, bytes, data, offset, length).length)
           /\ Covers(ReturnRange(r, bytes, data, offset, length))
           /\ ReturnRange(r, bytes, data, offset, length).sourceSha256 = r.sourceSha256
<1> DEFINE d == artifact.chunkSize
           first == floorDiv(offset, d)
           last == floorDiv(offset + length - 1, d)
           c == Candidate(r, data, offset, length, first, last)
<1>1. r.chunkSize = d /\ d \in Nat \ {0}
  BY SourceTyped DEF Sound
<1>2. ReturnRange(r, bytes, data, offset, length) = Validated(c, r)
  BY <1>1, DeniedIs DEF ReturnRange
<1>3. ReturnRange(r, bytes, data, offset, length) = c /\ c.offset \in Nat /\ c.length \in Nat
  BY <1>2, ValidatedIs
<1>4. /\ c.data = data /\ c.offset = offset /\ c.length = length
      /\ c.first = first /\ c.last = last /\ c.sourceSha256 = r.sourceSha256
  BY CandidateIs
<1>5. offset \in Nat /\ length \in Nat
  BY <1>3, <1>4
<1>6. Covers(c)
  <2>1. ASSUME NEW i \in offset..(offset + length - 1) PROVE i \div d \in first..last
    BY <1>1, <1>5, QuotientsCover
  <2>2. QED
    BY <1>4, <2>1 DEF Covers
<1> HIDE DEF c
<1>7. QED
  BY <1>3, <1>4, <1>6

\* artifact_read_lines: the lines are a slice of the source wherever the index puts them.
LEMMA LinesRight ==
    ASSUME artifact \in Artifacts, NEW r, Sound(r), NEW bytes \in Seq(STRING), NEW index,
           request.tool = "artifact_read_lines",
           artifactReadLines(r, bytes, index).class = "success"
    PROVE  Right(artifactReadLines(r, bytes, index))
<1> DEFINE total == Len(index.lines)
           count == least(request.count, total - request.startLine + 1)
           start == index.lines[request.startLine].byteStart
           length == LineEnd(index.lines[request.startLine + count - 1]) - start
           read == readIndexedLines(bytes, index, request.startLine, count)
           returned == ReturnRange(r, bytes, read.text, start, length)
           last == r.chunkCount - 1
           c == Candidate(r, <<>>, r.byteLength, 0, last, last)
<1>1. verifyArtifactSourceManifest(bytes, r)
  BY DeniedIs DEF artifactReadLines
<1>2. bytes = artifact.source /\ r.sourceSha256 = rawDigest(artifact.source)
  BY <1>1, VerifiedSource
<1>3. CASE request.startLine > total
  <2>1. artifactReadLines(r, bytes, index) = Validated(c, r)
    BY <1>1, <1>3, DeniedIs, IndexErrorDenied DEF artifactReadLines
  <2>2. artifactReadLines(r, bytes, index) = c
    BY <2>1, ValidatedIs
  <2>3. /\ c.data = <<>> /\ c.offset = r.byteLength /\ c.length = 0
        /\ c.first = last /\ c.last = last /\ c.sourceSha256 = r.sourceSha256
    BY CandidateIs
  <2>4. r.byteLength \in Nat /\ artifact.source \in Seq(STRING)
    BY SourceTyped DEF Sound
  <2>5. Slice(artifact.source, r.byteLength, 0) = <<>>
    BY <2>4 DEF Slice
  <2>6. r.byteLength..(r.byteLength + 0 - 1) = {}
    BY <2>4
  <2> HIDE DEF c
  <2>7. Covers(c)
    BY <2>3, <2>6 DEF Covers
  <2>8. QED
    BY <1>2, <2>2, <2>3, <2>5, <2>7 DEF Right
<1>4. CASE ~(request.startLine > total)
  <2>1. /\ read.error = "none" /\ returned.class = "success"
        /\ artifactReadLines(r, bytes, index) = [returned EXCEPT !.lineCount = count]
    BY <1>1, <1>4, DeniedIs, IndexErrorDenied DEF artifactReadLines
  <2>2. read.text = Slice(bytes, start, length)
    BY <2>1 DEF readIndexedLines, readUnless, untrustedRead, NoText
  <2> HIDE DEF read, start, length
  <2>3. /\ returned.data = Slice(artifact.source, returned.offset, returned.length)
        /\ Covers(returned)
        /\ returned.sourceSha256 = r.sourceSha256
    BY <1>2, <2>1, <2>2, ReturnedRight
  <2>4. QED
    BY <1>2, <2>1, <2>3 DEF Right, Covers
<1>5. QED
  BY <1>3, <1>4

\* artifact_read_heading: so is the line of a heading.
LEMMA HeadingRight ==
    ASSUME artifact \in Artifacts, NEW r, Sound(r), NEW bytes \in Seq(STRING), NEW index,
           request.tool = "artifact_read_heading",
           artifactReadHeading(r, bytes, index).class = "success"
    PROVE  Right(artifactReadHeading(r, bytes, index))
<1> DEFINE heading == index.headings[Min(HeadingAt(index, request.headingId))]
           start == heading.byteStart
           length == heading.byteLength
           read == readIndexedHeading(bytes, index, request.headingId)
           returned == ReturnRange(r, bytes, read.text, start, length)
<1>1. verifyArtifactSourceManifest(bytes, r)
  BY DeniedIs DEF artifactReadHeading
<1>2. bytes = artifact.source /\ r.sourceSha256 = rawDigest(artifact.source)
  BY <1>1, VerifiedSource
<1>3. /\ read.error = "none" /\ returned.class = "success"
      /\ artifactReadHeading(r, bytes, index) = returned
  BY <1>1, DeniedIs, IndexErrorDenied DEF artifactReadHeading
<1>4. read.text = Slice(bytes, start, length)
  BY <1>3 DEF readIndexedHeading, readUnless, untrustedRead, NoText
<1> HIDE DEF read, start, length
<1>5. /\ returned.data = Slice(artifact.source, returned.offset, returned.length)
      /\ Covers(returned)
      /\ returned.sourceSha256 = r.sourceSha256
  BY <1>2, <1>3, <1>4, ReturnedRight
<1>6. QED
  BY <1>2, <1>3, <1>5 DEF Right

\* artifact_search_exact: the whole source is covered by all its chunks.
LEMMA SearchRight ==
    ASSUME artifact \in Artifacts, NEW r, Sound(r), NEW bytes \in Seq(STRING), NEW index,
           request.tool = "artifact_search_exact",
           artifactSearchExact(r, bytes, index).class = "success"
    PROVE  Right(artifactSearchExact(r, bytes, index))
<1> DEFINE last == r.chunkCount - 1
           c == Candidate(r, <<>>, 0, r.byteLength, 0, last)
           hits == exactHits(bytes, index.lines, request.query, request.maxHits)
           e == [c EXCEPT !.digest = rawDigest(bytes), !.hits = hits]
<1>1. verifyArtifactSourceManifest(bytes, r)
  BY DeniedIs DEF artifactSearchExact
<1>2. r.sourceSha256 = rawDigest(artifact.source)
  BY <1>1, VerifiedSource
<1>3. artifactSearchExact(r, bytes, index) = Validated(e, r)
  BY <1>1, DeniedIs, IndexErrorDenied DEF artifactSearchExact
<1>4. artifactSearchExact(r, bytes, index) = e
  BY <1>3, ValidatedIs
<1>5. /\ e.offset = 0 /\ e.length = r.byteLength /\ e.first = 0 /\ e.last = last
      /\ e.sourceSha256 = r.sourceSha256
  BY DEF Candidate, Empty
<1> HIDE DEF e
<1>6. Covers(e)
  <2> DEFINE n == Len(artifact.source)
             d == artifact.chunkSize
  <2>1. n \in Nat /\ d \in Nat \ {0}
    BY SourceTyped
  <2>2. r.byteLength = n /\ last = chunkCountOf(n, d) - 1
    BY DEF Sound
  <2>3. ASSUME NEW i \in 0..(0 + n - 1) PROVE i \div d \in 0..last
    <3>1. i \in Nat /\ i < n
      BY <2>1
    <3>2. i \div d \in 0..(chunkCountOf(n, d) - 1)
      BY <2>1, <3>1, InsideSource
    <3>3. QED
      BY <2>2, <3>2
  <2>4. QED
    BY <1>5, <2>2, <2>3 DEF Covers
<1>7. QED
  BY <1>2, <1>4, <1>5, <1>6 DEF Right

-----------------------------------------------------------------------------
(***************************************************************************)
(* The bytes of a success.                                                 *)
(***************************************************************************)

\* The record of an artifact is sound.
LEMMA RecordSound == Sound(RecordOf(artifact))
BY DEF Sound, RecordOf

\* A record with a field that is not the artifact's is sound if it passes the two checks: a wrong
\* length gives another count of chunks, and wrong leaves do not close to the root.
LEMMA MiswrittenSound ==
    ASSUME artifact \in Artifacts, MiswriteRecord,
           MetadataValid(registry') /\ ManifestConsistent(registry')
    PROVE  Sound(registry')
<1> DEFINE rec == RecordOf(artifact)
           n == Len(artifact.source)
           d == artifact.chunkSize
<1>1. /\ registry = rec
      /\ rec.byteLength = n /\ rec.chunkSize = d /\ rec.chunkCount = chunkCountOf(n, d)
      /\ rec.merkleRoot = merkleRootOf(rec.merkleLeafSha256s)
  BY DEF MiswriteRecord, RecordOf
<1>2. Sound(rec)
  BY RecordSound
<1>3. DOMAIN rec = {"objectVersionRef", "sourceSha256", "byteLength", "chunkSize", "chunkCount",
                    "chunkSha256s", "merkleLeafSha256s", "merkleRoot", "mediaType",
                    "chunkHashesRef"}
  BY DEF RecordOf
<1> HIDE DEF rec
<1>4. CASE registry' = [rec EXCEPT !.sourceSha256 = rawDigest(<<"other">>)]
  BY <1>2, <1>3, <1>4 DEF Sound
<1>5. CASE registry' = [rec EXCEPT !.merkleRoot = merkleRootOf(<<merkleLeafDigest(<<"other">>)>>)]
  BY <1>2, <1>3, <1>5 DEF Sound
<1>6. CASE registry' = [rec EXCEPT !.byteLength = @ + rec.chunkSize]
  <2>1. /\ registry'.byteLength = n + d /\ registry'.chunkSize = d
        /\ registry'.chunkCount = chunkCountOf(n, d)
    BY <1>1, <1>3, <1>6
  <2>2. chunkCountOf(n + d, d) = chunkCountOf(n, d)
    BY <2>1 DEF MetadataValid
  <2>3. QED
    BY <2>2, CountGrows, SourceTyped
<1>7. ASSUME NEW i, registry' = [rec EXCEPT !.chunkSha256s[i] = rawDigest(<<"other">>)]
      PROVE  Sound(registry')
  BY <1>2, <1>3, <1>7 DEF Sound
<1>8. ASSUME NEW i, registry' = [rec EXCEPT !.merkleLeafSha256s[i] = merkleLeafDigest(<<"other">>)]
      PROVE  Sound(registry')
  <2>1. /\ registry'.byteLength = rec.byteLength /\ registry'.chunkSize = rec.chunkSize
        /\ registry'.chunkCount = rec.chunkCount /\ registry'.merkleRoot = rec.merkleRoot
    BY <1>3, <1>8
  <2>2. merkleRootOf(registry'.merkleLeafSha256s) = merkleRootOf(rec.merkleLeafSha256s)
    BY <1>1, <2>1 DEF ManifestConsistent
  <2>3. registry'.merkleLeafSha256s = rec.merkleLeafSha256s
    BY <2>2 DEF merkleRootOf
  <2>4. QED
    BY <1>2, <2>1, <2>3 DEF Sound
<1>9. QED
  BY <1>1, <1>4, <1>5, <1>6, <1>7, <1>8 DEF MiswriteRecord

\* A call begins with the record and the object of the artifact.
LEMMA InitIInv == Init => IInv
<1> SUFFICES ASSUME Init PROVE IInv
  OBVIOUS
<1>1. stored \in Objects
  BY SourceTyped DEF Init, Published, Objects
<1>2. Sound(registry)
  BY RecordSound DEF Init
<1>3. answer.class # "success"
  BY DEF Init, Empty
<1>4. QED
  BY <1>1, <1>2, <1>3 DEF Init, IInv, SuccessIsSourceBytes

\* What is concluded from the bytes is right.
LEMMA ConclusionRight ==
    ASSUME IInv, phase = "fetched", Conclusion.class = "success"
    PROVE  Right(Conclusion)
<1>1. /\ artifact \in Artifacts /\ Sound(record) /\ fetched \in Objects
      /\ request.tool \in ARTIFACT_INSPECTION_TOOLS \ {"artifact_stat"}
      /\ request.tool = "artifact_read_range" => ~PastTheEnd(record)
  BY DEF IInv
<1>2. fetched.bytes \in Seq(STRING)
  BY <1>1 DEF Objects
<1> DEFINE index == buildArtifactTextIndex(fetched.bytes, record.mediaType)
<1>3. Conclusion = IF request.tool = "artifact_read_range"
                   THEN artifactReadRange(record, fetched.bytes)
                   ELSE WithIndex(record, fetched.bytes, index)
  BY DeniedIs DEF Conclusion
<1> HIDE DEF index
<1>4. CASE request.tool = "artifact_read_range"
  BY <1>1, <1>2, <1>3, <1>4, RangeRight
<1>5. CASE request.tool = "artifact_read_lines"
  <2>1. Conclusion = artifactReadLines(record, fetched.bytes, index)
    BY <1>3, <1>5 DEF WithIndex
  <2>2. QED
    BY <1>1, <1>2, <1>5, <2>1, LinesRight
<1>6. CASE request.tool = "artifact_read_heading"
  <2>1. Conclusion = artifactReadHeading(record, fetched.bytes, index)
    BY <1>3, <1>6 DEF WithIndex
  <2>2. QED
    BY <1>1, <1>2, <1>6, <2>1, HeadingRight
<1>7. CASE request.tool = "artifact_search_exact"
  <2>1. Conclusion = artifactSearchExact(record, fetched.bytes, index)
    BY <1>3, <1>7 DEF WithIndex
  <2>2. QED
    BY <1>1, <1>2, <1>7, <2>1, SearchRight
<1>8. QED
  BY <1>1, <1>4, <1>5, <1>6, <1>7 DEF ARTIFACT_INSPECTION_TOOLS

\* Every step keeps the invariant.
LEMMA StepIInv == IInv /\ [Next]_vars => IInv'
<1> SUFFICES ASSUME IInv, [Next]_vars PROVE IInv'
  OBVIOUS
<1>1. /\ artifact \in Artifacts /\ request \in Requests(artifact.source) /\ stored \in Objects
      /\ artifact.source \in Seq(STRING)
  BY SourceTyped DEF IInv
<1>2. request.tool \in ARTIFACT_INSPECTION_TOOLS
  BY <1>1, ContentShape
<1>3. ASSUME UNCHANGED <<artifact, registry, phase, request, record, fetched, answer>>,
             stored' \in Objects
      PROVE  IInv'
  BY <1>3 DEF IInv, Sound, MetadataValid, ManifestConsistent, PastTheEnd, SuccessIsSourceBytes
<1>4. CASE OverwriteObject
  <2>1. PICK bytes \in Alterations(artifact.source), version \in {1, 2} :
          stored' = [version |-> version, bytes |-> bytes]
    BY <1>4 DEF OverwriteObject
  <2>2. bytes \in Seq(STRING)
    BY <1>1, <2>1, ContentShape
  <2>3. stored' \in Objects
    BY <2>1, <2>2 DEF Objects
  <2>4. QED
    BY <1>3, <1>4, <2>3 DEF OverwriteObject
<1>5. CASE RemoveObject
  <2>1. stored' \in Objects
    BY <1>5 DEF RemoveObject, Nothing, Objects
  <2>2. QED
    BY <1>3, <1>5, <2>1 DEF RemoveObject
<1>6. CASE MiswriteRecord
  <2>1. UNCHANGED <<artifact, stored, phase, request, record, fetched, answer>>
    BY <1>6 DEF MiswriteRecord
  <2>2. MetadataValid(registry') /\ ManifestConsistent(registry') => Sound(registry')
    BY <1>1, <1>6, MiswrittenSound
  <2>3. (MetadataValid(registry) /\ ManifestConsistent(registry) => Sound(registry))'
    BY <2>1, <2>2 DEF Sound, MetadataValid, ManifestConsistent
  <2>4. phase = "called"
    BY <1>6 DEF MiswriteRecord
  <2>5. SuccessIsSourceBytes'
    BY <2>1 DEF IInv, SuccessIsSourceBytes
  <2>6. QED
    BY <1>1, <2>1, <2>3, <2>4, <2>5 DEF IInv
<1>7. ASSUME UNCHANGED <<artifact, registry, stored, request>>
      PROVE  /\ (artifact \in Artifacts)' /\ (request \in Requests(artifact.source))'
             /\ (stored \in Objects)'
             /\ (MetadataValid(registry) /\ ManifestConsistent(registry) => Sound(registry))'
  BY <1>1, <1>7 DEF IInv, Sound, MetadataValid, ManifestConsistent
<1>8. CASE Resolve
  <2>1. /\ UNCHANGED <<artifact, registry, stored, request, fetched, answer>>
        /\ phase' = "resolved" /\ record' = registry
    BY <1>8 DEF Resolve
  <2>2. Sound(registry)
    BY <1>8 DEF Resolve, IInv
  <2>3. Sound(record)'
    BY <2>1, <2>2 DEF Sound
  <2>4. SuccessIsSourceBytes'
    BY <2>1 DEF IInv, SuccessIsSourceBytes
  <2>5. QED
    BY <1>7, <2>1, <2>3, <2>4 DEF IInv
<1>9. ASSUME UNCHANGED <<artifact, registry, stored, request, record, fetched>>,
             phase' = "answered",
             answer'.class = "success" /\ request.tool # "artifact_stat" => Right(answer')
      PROVE  IInv'
  <2>1. SuccessIsSourceBytes'
    BY <1>9 DEF Right, Covers, SuccessIsSourceBytes
  <2>2. QED
    BY <1>7, <1>9, <2>1 DEF IInv
<1>10. CASE ResolveFails
  <2>1. answer'.class # "success"
    BY <1>10, DeniedIs DEF ResolveFails
  <2>2. QED
    BY <1>9, <1>10, <2>1 DEF ResolveFails
<1>11. CASE AnswerUnread
  <2>1. request.tool # "artifact_stat" => answer'.class # "success"
    <3>1. request.tool # "artifact_stat" => DeniedUnread(record) # "success"
      BY <1>2 DEF DeniedUnread, ARTIFACT_INSPECTION_TOOLS
    <3>2. QED
      BY <1>11, <3>1, DeniedIs DEF AnswerUnread
  <2>2. QED
    BY <1>9, <1>11, <2>1 DEF AnswerUnread
<1>12. CASE Fetch
  <2>1. /\ UNCHANGED <<artifact, registry, stored, request, record, answer>>
        /\ phase = "resolved" /\ phase' = "fetched"
        /\ request.tool # "artifact_stat" /\ DeniedUnread(record) = "none"
    BY <1>12 DEF Fetch
  <2>2. request.tool = "artifact_read_range" => ~PastTheEnd(record)
    BY <2>1 DEF DeniedUnread
  <2>3. fetched' \in Objects
    <3> DEFINE range == IF request.tool = "artifact_read_range" THEN CoveringRange(record)
                        ELSE [offset |-> 0, length |-> record.byteLength]
               end == least(range.offset + range.length, Len(stored.bytes))
               part == SubSeq(stored.bytes, range.offset + 1, end)
    <3>1. fetched' = [stored EXCEPT !.bytes = part]
      BY <1>12 DEF Fetch, readVersionedRange
    <3>2. Sound(record)
      BY <2>1 DEF IInv
    <3>3. range.offset \in Nat /\ range.length \in Int
      BY <1>1, <3>2, RangeTyped
    <3>4. stored.bytes \in Seq(STRING) /\ stored.version \in 0..2 /\ Len(stored.bytes) \in Nat
      BY <1>1 DEF Objects
    <3>5. end \in Int /\ end <= Len(stored.bytes)
      BY <3>3, <3>4 DEF least
    <3>6. part \in Seq(STRING)
      <4> HIDE DEF range, end
      <4>1. QED
        BY <3>3, <3>4, <3>5
    <3> HIDE DEF part
    <3>7. QED
      BY <1>1, <3>1, <3>6 DEF Objects
  <2>4. Sound(record)' /\ SuccessIsSourceBytes'
    BY <2>1 DEF IInv, Sound, SuccessIsSourceBytes
  <2>5. (request.tool = "artifact_read_range" => ~PastTheEnd(record))'
    BY <2>1, <2>2 DEF PastTheEnd
  <2>6. QED
    BY <1>2, <1>7, <2>1, <2>3, <2>4, <2>5 DEF IInv
<1>13. CASE Conclude
  BY <1>9, <1>13, ConclusionRight DEF Conclude
<1>14. CASE ConcludeTooLong
  <2>1. answer'.class # "success"
    BY <1>14, DeniedIs DEF ConcludeTooLong
  <2>2. QED
    BY <1>9, <1>14, <2>1 DEF ConcludeTooLong
<1>15. CASE UNCHANGED vars
  BY <1>1, <1>3, <1>15 DEF vars
<1>16. QED
  BY <1>4, <1>5, <1>6, <1>8, <1>10, <1>11, <1>12, <1>13, <1>14, <1>15 DEF Next

\* What is known of the call holds in every state.
LEMMA Inductive == Spec => []IInv
<1>1. Init => IInv
  BY InitIInv
<1>2. IInv /\ [Next]_vars => IInv'
  BY StepIInv
<1>3. QED
  BY <1>1, <1>2, PTL DEF Spec

\* Whatever happens to the object and to the record, a success holds bytes of the registered
\* source, from the range it names, inside the chunks it says were verified.
THEOREM BytesAreTheSource == Spec => []SuccessIsSourceBytes
<1>1. IInv => SuccessIsSourceBytes
  BY DEF IInv
<1>2. QED
  BY <1>1, Inductive, PTL

-----------------------------------------------------------------------------
(***************************************************************************)
(* Loops.  A set of naturals stands for the induction hypothesis.          *)
(***************************************************************************)

\* A set of natural numbers has a least element.
LEMMA LeastNatural ==
    ASSUME NEW T, T \subseteq Nat, T # {}
    PROVE  \E n \in T : \A m \in T : n <= m
<1>1. PICK n \in T : \A m \in T : ~(<<m, n>> \in OpToRel(<, Nat))
  BY NatLessThanWellFounded, WFMin
<1>2. \A m \in T : ~(m < n)
  BY <1>1 DEF OpToRel
<1>3. QED
  BY <1>2

\* A set with zero and the successor of each of its members has every natural number.
LEMMA SetInduction ==
    ASSUME NEW T, 0 \in T, \A n \in Nat : n \in T => n + 1 \in T
    PROVE  Nat \subseteq T
<1> DEFINE U == {n \in Nat : n \notin T}
<1>1. SUFFICES ASSUME U # {} PROVE FALSE
  OBVIOUS
<1>2. PICK n \in U : \A m \in U : n <= m
  BY <1>1, LeastNatural
<1>3. n \in Nat /\ n # 0 /\ n - 1 \in Nat
  BY <1>2
<1>4. n - 1 \notin U
  BY <1>2, <1>3
<1>5. n - 1 \in T
  BY <1>3, <1>4
<1>6. n - 1 + 1 = n
  BY <1>3
<1>7. QED
  BY <1>3, <1>5, <1>6

\* Where the loop of scanLines starts.
ScanStart == [lines |-> <<>>, start |-> 0, offset |-> 0]

\* The loop of scanLines exists, and is what its definition says.
LEMMA ScanIs ==
    ASSUME NEW source, Len(source) \in Nat
    PROVE  /\ scanAfter(source)[0] = ScanStart
           /\ \A k \in 1..Len(source) :
                scanAfter(source)[k] =
                  scanStep(source, scanAfter(source)[k - 1])
<1> DEFINE Is(g, n) == g = [k \in 0..n |-> IF k = 0 THEN ScanStart
                                          ELSE scanStep(source, g[k - 1])]
           T == {n \in Nat : \E g : Is(g, n)}
           f == scanAfter(source)
<1>1. 0 \in T
  <2> DEFINE h == [k \in 0..0 |-> ScanStart]
  <2>1. Is(h, 0)
    OBVIOUS
  <2>2. QED
    BY <2>1
<1>2. ASSUME NEW n \in Nat, n \in T PROVE n + 1 \in T
  <2>1. PICK g : Is(g, n)
    BY <1>2
  <2> DEFINE h == [k \in 0..(n + 1) |->
                     IF k = n + 1 THEN scanStep(source, g[n]) ELSE g[k]]
  <2>2. ASSUME NEW k \in 0..(n + 1)
        PROVE  h[k] = IF k = 0 THEN ScanStart ELSE scanStep(source, h[k - 1])
    <3>1. CASE k = n + 1
      <4>1. k - 1 = n /\ n \in 0..(n + 1) /\ k # 0 /\ n # n + 1
        BY <3>1
      <4>2. h[n] = g[n]
        BY <4>1
      <4>3. QED
        BY <3>1, <4>1, <4>2
    <3>2. CASE k # n + 1
      <4>1. k \in 0..n /\ h[k] = g[k]
        BY <3>2
      <4>2. k # 0 => k - 1 \in 0..(n + 1) /\ k - 1 # n + 1
        BY <4>1
      <4>3. k # 0 => h[k - 1] = g[k - 1]
        BY <4>2
      <4>4. g[k] = IF k = 0 THEN ScanStart ELSE scanStep(source, g[k - 1])
        BY <2>1, <4>1
      <4> HIDE DEF h
      <4>5. QED
        BY <4>1, <4>3, <4>4
    <3>3. QED
      BY <3>1, <3>2
  <2>3. h = [k \in 0..(n + 1) |-> h[k]]
    OBVIOUS
  <2> HIDE DEF h
  <2>4. Is(h, n + 1)
    BY <2>2, <2>3
  <2>5. QED
    BY <2>4
<1> HIDE DEF T
<1>3. Len(source) \in T
  BY <1>1, <1>2, SetInduction
<1>4. \E g : Is(g, Len(source))
  BY <1>3 DEF T
<1>5. Is(f, Len(source))
  BY <1>4, Zenon DEF scanAfter, ScanStart
<1> HIDE DEF f
<1>6. f[0] = ScanStart
  BY <1>5
<1>7. ASSUME NEW k \in 1..Len(source) PROVE f[k] = scanStep(source, f[k - 1])
  <2>1. k \in 0..Len(source) /\ k # 0
    OBVIOUS
  <2>2. QED
    BY <1>5, <2>1
<1>8. QED
  BY <1>6, <1>7 DEF f

\* Where the search starts.
SearchStart == [hits |-> <<>>, offset |-> 0, lineIndex |-> 0]

\* So does the loop of the search.
LEMMA SearchIs ==
    ASSUME NEW bytes, NEW lines, NEW query, NEW maxHits \in Nat
    PROVE  /\ searchAfter(bytes, lines, query, maxHits)[0] = SearchStart
           /\ \A k \in 1..maxHits :
                searchAfter(bytes, lines, query, maxHits)[k] =
                  searchStep(bytes, lines, query, searchAfter(bytes, lines, query, maxHits)[k - 1])
<1> DEFINE Is(g, n) == g = [k \in 0..n |-> IF k = 0 THEN SearchStart
                                          ELSE searchStep(bytes, lines, query, g[k - 1])]
           T == {n \in Nat : \E g : Is(g, n)}
           f == searchAfter(bytes, lines, query, maxHits)
<1>1. 0 \in T
  <2> DEFINE h == [k \in 0..0 |-> SearchStart]
  <2>1. Is(h, 0)
    OBVIOUS
  <2>2. QED
    BY <2>1
<1>2. ASSUME NEW n \in Nat, n \in T PROVE n + 1 \in T
  <2>1. PICK g : Is(g, n)
    BY <1>2
  <2> DEFINE h == [k \in 0..(n + 1) |->
                     IF k = n + 1 THEN searchStep(bytes, lines, query, g[n]) ELSE g[k]]
  <2>2. ASSUME NEW k \in 0..(n + 1)
        PROVE  h[k] = IF k = 0 THEN SearchStart ELSE searchStep(bytes, lines, query, h[k - 1])
    <3>1. CASE k = n + 1
      <4>1. k - 1 = n /\ n \in 0..(n + 1) /\ k # 0 /\ n # n + 1
        BY <3>1
      <4>2. h[n] = g[n]
        BY <4>1
      <4>3. QED
        BY <3>1, <4>1, <4>2
    <3>2. CASE k # n + 1
      <4>1. k \in 0..n /\ h[k] = g[k]
        BY <3>2
      <4>2. k # 0 => k - 1 \in 0..(n + 1) /\ k - 1 # n + 1
        BY <4>1
      <4>3. k # 0 => h[k - 1] = g[k - 1]
        BY <4>2
      <4>4. g[k] = IF k = 0 THEN SearchStart ELSE searchStep(bytes, lines, query, g[k - 1])
        BY <2>1, <4>1
      <4> HIDE DEF h
      <4>5. QED
        BY <4>1, <4>3, <4>4
    <3>3. QED
      BY <3>1, <3>2
  <2>3. h = [k \in 0..(n + 1) |-> h[k]]
    OBVIOUS
  <2> HIDE DEF h
  <2>4. Is(h, n + 1)
    BY <2>2, <2>3
  <2>5. QED
    BY <2>4
<1> HIDE DEF T
<1>3. maxHits \in T
  BY <1>1, <1>2, SetInduction
<1>4. \E g : Is(g, maxHits)
  BY <1>3 DEF T
<1>5. Is(f, maxHits)
  BY <1>4, Zenon DEF searchAfter, SearchStart
<1> HIDE DEF f
<1>6. f[0] = SearchStart
  BY <1>5
<1>7. ASSUME NEW k \in 1..maxHits PROVE f[k] = searchStep(bytes, lines, query, f[k - 1])
  <2>1. k \in 0..maxHits /\ k # 0
    OBVIOUS
  <2>2. QED
    BY <1>5, <2>1
<1>8. QED
  BY <1>6, <1>7 DEF f

\* Where the scan for headings starts.
HeadingsStart == [fence |-> NoFence, headings |-> <<>>, error |-> "none"]

\* And the loop of scanHeadings.
LEMMA HeadingsIs ==
    ASSUME NEW source, NEW lines, Len(lines) \in Nat
    PROVE  /\ headingsAfter(source, lines)[0] = HeadingsStart
           /\ \A k \in 1..Len(lines) :
                headingsAfter(source, lines)[k] =
                  headingStep(source, headingsAfter(source, lines)[k - 1], lines[k])
<1> DEFINE Is(g, n) == g = [k \in 0..n |-> IF k = 0 THEN HeadingsStart
                                          ELSE headingStep(source, g[k - 1], lines[k])]
           T == {n \in Nat : \E g : Is(g, n)}
           f == headingsAfter(source, lines)
<1>1. 0 \in T
  <2> DEFINE h == [k \in 0..0 |-> HeadingsStart]
  <2>1. Is(h, 0)
    OBVIOUS
  <2>2. QED
    BY <2>1
<1>2. ASSUME NEW n \in Nat, n \in T PROVE n + 1 \in T
  <2>1. PICK g : Is(g, n)
    BY <1>2
  <2> DEFINE h == [k \in 0..(n + 1) |->
                     IF k = n + 1 THEN headingStep(source, g[n], lines[n + 1]) ELSE g[k]]
  <2>2. ASSUME NEW k \in 0..(n + 1)
        PROVE  h[k] = IF k = 0 THEN HeadingsStart ELSE headingStep(source, h[k - 1], lines[k])
    <3>1. CASE k = n + 1
      <4>1. k - 1 = n /\ n \in 0..(n + 1) /\ k # 0 /\ n # n + 1
        BY <3>1
      <4>2. h[n] = g[n]
        BY <4>1
      <4>3. QED
        BY <3>1, <4>1, <4>2
    <3>2. CASE k # n + 1
      <4>1. k \in 0..n /\ h[k] = g[k]
        BY <3>2
      <4>2. k # 0 => k - 1 \in 0..(n + 1) /\ k - 1 # n + 1
        BY <4>1
      <4>3. k # 0 => h[k - 1] = g[k - 1]
        BY <4>2
      <4>4. g[k] = IF k = 0 THEN HeadingsStart ELSE headingStep(source, g[k - 1], lines[k])
        BY <2>1, <4>1
      <4> HIDE DEF h
      <4>5. QED
        BY <4>1, <4>3, <4>4
    <3>3. QED
      BY <3>1, <3>2
  <2>3. h = [k \in 0..(n + 1) |-> h[k]]
    OBVIOUS
  <2> HIDE DEF h
  <2>4. Is(h, n + 1)
    BY <2>2, <2>3
  <2>5. QED
    BY <2>4
<1> HIDE DEF T
<1>3. Len(lines) \in T
  BY <1>1, <1>2, SetInduction
<1>4. \E g : Is(g, Len(lines))
  BY <1>3 DEF T
<1>5. Is(f, Len(lines))
  BY <1>4, Zenon DEF headingsAfter, HeadingsStart
<1> HIDE DEF f
<1>6. f[0] = HeadingsStart
  BY <1>5
<1>7. ASSUME NEW k \in 1..Len(lines) PROVE f[k] = headingStep(source, f[k - 1], lines[k])
  <2>1. k \in 0..Len(lines) /\ k # 0
    OBVIOUS
  <2>2. QED
    BY <1>5, <2>1
<1>8. QED
  BY <1>6, <1>7 DEF f

-----------------------------------------------------------------------------
(***************************************************************************)
(* Lines.                                                                  *)
(***************************************************************************)

\* The number of the line goes up after a line feed and nowhere else.
LEMMA LineNumbers ==
    ASSUME NEW source \in Seq(STRING)
    PROVE  /\ LineOf(source, 1) = 1
           /\ \A p \in 1..Len(source) :
                /\ LineOf(source, p) \in Nat
                /\ LineOf(source, p + 1) = LineOf(source, p) + IF source[p] = "LF" THEN 1 ELSE 0
<1>1. LineOf(source, 1) = 1
  <2>1. {j \in 1..(1 - 1) : source[j] = "LF"} = {}
    OBVIOUS
  <2>2. QED
    BY <2>1, FS_EmptySet DEF LineOf
<1>2. ASSUME NEW p \in 1..Len(source)
      PROVE  /\ LineOf(source, p) \in Nat
             /\ LineOf(source, p + 1) = LineOf(source, p) + IF source[p] = "LF" THEN 1 ELSE 0
  <2> DEFINE S == {j \in 1..(p - 1) : source[j] = "LF"}
             S1 == {j \in 1..((p + 1) - 1) : source[j] = "LF"}
  <2>1. IsFiniteSet(S) /\ Cardinality(S) \in Nat
    <3>1. IsFiniteSet(1..(p - 1)) /\ S \in SUBSET (1..(p - 1))
      BY FS_Interval
    <3>2. IsFiniteSet(S)
      BY <3>1, FS_Subset
    <3>3. QED
      BY <3>2, FS_CardinalityType
  <2>2. LineOf(source, p) = 1 + Cardinality(S) /\ LineOf(source, p + 1) = 1 + Cardinality(S1)
    BY DEF LineOf
  <2>3. CASE source[p] = "LF"
    <3>1. S1 = S \cup {p} /\ p \notin S
      BY <2>3
    <3>2. Cardinality(S1) = Cardinality(S) + 1
      BY <2>1, <3>1, FS_AddElement
    <3>3. QED
      BY <2>1, <2>2, <2>3, <3>2
  <2>4. CASE source[p] # "LF"
    <3>1. S1 = S
      BY <2>4
    <3>2. Cardinality(S1) = Cardinality(S)
      BY <3>1
    <3> HIDE DEF S, S1
    <3>3. QED
      BY <2>1, <2>2, <2>4, <3>2
  <2>5. QED
    BY <2>3, <2>4
<1>3. QED
  BY <1>1, <1>2

\* The entries of a table of lines.
LineRecords ==
    [lineNumber : Nat, byteStart : Nat, contentByteLength : Nat, newlineByteLength : 0..2]

\* What a line of the table says: its number, where it begins, and that it has the bytes of that
\* number and at least one of them.
LineInv(source, lines, j) ==
    /\ lines[j].lineNumber = j
    /\ lines[j].byteStart = IF j = 1 THEN 0 ELSE LineEnd(lines[j - 1])
    /\ lines[j].byteStart < LineEnd(lines[j])
    /\ \A p \in (lines[j].byteStart + 1)..LineEnd(lines[j]) : LineOf(source, p) = j

\* The table of the lines before an offset.
Table(source, lines, end) ==
    /\ lines \in Seq(LineRecords)
    /\ end \in 0..Len(source)
    /\ end = IF Len(lines) = 0 THEN 0 ELSE LineEnd(lines[Len(lines)])
    /\ \A j \in 1..Len(lines) : LineInv(source, lines, j)

\* A line that begins where the table ends makes it longer.
LEMMA TableGrows ==
    ASSUME NEW source, Len(source) \in Nat, NEW lines, NEW start, Table(source, lines, start),
           NEW end \in Nat, NEW newline \in 0..2, start <= end,
           start < end + newline, end + newline <= Len(source),
           \A p \in (start + 1)..(end + newline) : LineOf(source, p) = Len(lines) + 1
    PROVE  Table(source, Append(lines, Line(Len(lines) + 1, start, end, newline)), end + newline)
<1> DEFINE m == Len(lines)
           line == Line(m + 1, start, end, newline)
           longer == Append(lines, line)
<1>1. m \in Nat /\ start \in Nat /\ lines \in Seq(LineRecords)
  BY DEF Table
<1>2. /\ line \in LineRecords /\ line.lineNumber = m + 1 /\ line.byteStart = start
      /\ LineEnd(line) = end + newline
  BY <1>1 DEF Line, LineRecords, LineEnd
<1> HIDE DEF line
<1>3. /\ longer \in Seq(LineRecords) /\ Len(longer) = m + 1 /\ longer[m + 1] = line
      /\ \A j \in 1..m : longer[j] = lines[j]
  BY <1>1, <1>2
<1> HIDE DEF longer
<1>4. ASSUME NEW j \in 1..m PROVE LineInv(source, longer, j)
  <2>1. longer[j] = lines[j] /\ (j # 1 => longer[j - 1] = lines[j - 1])
    BY <1>1, <1>3
  <2>2. LineInv(source, lines, j)
    BY DEF Table
  <2>3. QED
    BY <2>1, <2>2 DEF LineInv
<1>5. LineInv(source, longer, m + 1)
  <2>1. start = IF m + 1 = 1 THEN 0 ELSE LineEnd(longer[(m + 1) - 1])
    <3>1. CASE m = 0
      BY <3>1 DEF Table
    <3>2. CASE m # 0
      <4>1. (m + 1) - 1 = m /\ m \in 1..m /\ m + 1 # 1
        BY <1>1, <3>2
      <4>2. QED
        BY <1>3, <3>2, <4>1 DEF Table
    <3>3. QED
      BY <3>1, <3>2
  <2>2. QED
    BY <1>2, <1>3, <2>1 DEF LineInv
<1>6. ASSUME NEW j \in 1..(m + 1) PROVE LineInv(source, longer, j)
  <2>1. j \in 1..m \/ j = m + 1
    BY <1>1
  <2>2. QED
    BY <1>4, <1>5, <2>1
<1>7. /\ end + newline \in 0..Len(source)
      /\ end + newline = IF Len(longer) = 0 THEN 0 ELSE LineEnd(longer[Len(longer)])
  BY <1>1, <1>2, <1>3
<1>8. QED
  BY <1>3, <1>6, <1>7 DEF Table, longer, line

\* The state of the loop: the table up to the line under way, which has no line feed yet.
ScanInv(source, scan) ==
    /\ scan \in [lines : Seq(LineRecords), start : Nat, offset : Nat]
    /\ scan.start <= scan.offset /\ scan.offset <= Len(source)
    /\ Table(source, scan.lines, scan.start)
    /\ \A p \in (scan.start + 1)..(scan.offset + 1) : LineOf(source, p) = Len(scan.lines) + 1

\* An iteration keeps it, and gets on unless the source is at its end.
LEMMA ScanStepKeeps ==
    ASSUME NEW source \in Seq(STRING), NEW scan, ScanInv(source, scan)
    PROVE  /\ ScanInv(source, scanStep(source, scan))
           /\ IF scan.offset = Len(source) THEN scanStep(source, scan).offset = Len(source)
              ELSE scanStep(source, scan).offset >= scan.offset + 1
<1> DEFINE n == Len(source)
           m == Len(scan.lines)
           start == scan.start
           offset == scan.offset
           newline == newlineAt(source, offset)
           next == offset + newline
<1>1. /\ n \in Nat /\ m \in Nat /\ start \in Nat /\ offset \in Nat /\ start <= offset /\ offset <= n
      /\ scan.lines \in Seq(LineRecords)
  BY DEF ScanInv
<1>2. /\ Table(source, scan.lines, start)
      /\ \A p \in (start + 1)..(offset + 1) : LineOf(source, p) = m + 1
  BY DEF ScanInv
<1>3. CASE offset = n
  BY <1>1, <1>3 DEF scanStep
<1>4. CASE offset # n
  <2>1. offset + 1 \in 1..n /\ offset + 1 \in (start + 1)..(offset + 1)
    BY <1>1, <1>4
  <2>2. /\ LineOf(source, offset + 1) = m + 1
        /\ LineOf(source, (offset + 1) + 1) = (m + 1) + IF source[offset + 1] = "LF" THEN 1 ELSE 0
    BY <1>2, <2>1, LineNumbers
  <2>3. (offset + 1) + 1 = offset + 2
    BY <1>1
  <2>4. CASE newline = 0
    <3>1. scanStep(source, scan) = [scan EXCEPT !.offset = @ + 1]
      BY <1>4, <2>4 DEF scanStep
    <3>2. source[offset + 1] # "LF"
      BY <2>4 DEF newlineAt
    <3>3. LineOf(source, offset + 2) = m + 1
      BY <1>1, <2>2, <2>3, <3>2
    <3>4. ASSUME NEW p \in (start + 1)..((offset + 1) + 1) PROVE LineOf(source, p) = m + 1
      <4>1. p \in (start + 1)..(offset + 1) \/ p = offset + 2
        BY <1>1
      <4>2. QED
        BY <1>2, <3>3, <4>1
    <3>5. /\ scanStep(source, scan) \in [lines : Seq(LineRecords), start : Nat, offset : Nat]
          /\ scanStep(source, scan).lines = scan.lines
          /\ scanStep(source, scan).start = start
          /\ scanStep(source, scan).offset = offset + 1
      BY <1>1, <3>1 DEF ScanInv
    <3>6. offset + 1 <= n /\ start <= offset + 1
      BY <1>1, <2>1
    <3>7. QED
      BY <1>1, <1>2, <1>4, <3>4, <3>5, <3>6 DEF ScanInv
  <2>5. CASE newline # 0
    <3> DEFINE line == Line(m + 1, start, offset, newline)
    <3>1. scanStep(source, scan) = [lines |-> Append(scan.lines, line), start |-> next, offset |-> next]
      BY <1>4, <2>5 DEF scanStep
    <3>2. /\ newline \in 1..2 /\ next <= n /\ next \in Nat
          /\ \A p \in (start + 1)..next : LineOf(source, p) = m + 1
          /\ LineOf(source, next + 1) = m + 2
      <4>1. CASE source[offset + 1] = "LF"
        <5>1. newline = 1 /\ next = offset + 1
          BY <4>1 DEF newlineAt
        <5>2. LineOf(source, next + 1) = m + 2
          BY <1>1, <2>2, <4>1, <5>1
        <5> HIDE DEF newline, next
        <5>3. QED
          BY <1>1, <1>2, <2>1, <5>1, <5>2
      <4>2. CASE source[offset + 1] # "LF"
        <5>1. newline = 2 /\ offset + 1 < n /\ source[offset + 2] = "LF"
          BY <2>5, <4>2 DEF newlineAt
        <5>2. offset + 2 \in 1..n
          BY <1>1, <5>1
        <5>3. LineOf(source, offset + 2) = m + 1
          BY <1>1, <2>2, <2>3, <4>2
        <5>4. LineOf(source, (offset + 2) + 1) = (m + 1) + 1
          BY <5>1, <5>2, <5>3, LineNumbers
        <5> HIDE DEF newline
        <5>5. next = offset + 2 /\ (m + 1) + 1 = m + 2
          BY <1>1, <5>1
        <5>6. ASSUME NEW p \in (start + 1)..(offset + 2) PROVE LineOf(source, p) = m + 1
          <6>1. p \in (start + 1)..(offset + 1) \/ p = offset + 2
            BY <1>1
          <6>2. QED
            BY <1>2, <5>3, <6>1
        <5> HIDE DEF next
        <5>7. QED
          BY <1>1, <5>1, <5>2, <5>4, <5>5, <5>6
      <4>3. QED
        BY <4>1, <4>2
    <3> HIDE DEF newline
    <3>3. Table(source, Append(scan.lines, line), next)
      <4>1. newline \in 0..2 /\ start < offset + newline
        BY <1>1, <3>2
      <4>2. QED
        BY <1>1, <1>2, <3>2, <4>1, TableGrows
    <3>4. Append(scan.lines, line) \in Seq(LineRecords) /\ Len(Append(scan.lines, line)) = m + 1
      <4>1. line \in LineRecords
        BY <1>1, <3>2 DEF Line, LineRecords
      <4>2. QED
        BY <1>1, <4>1
    <3> DEFINE longer == Append(scan.lines, line)
    <3> HIDE DEF line, next, longer
    <3>5. /\ scanStep(source, scan) = [lines |-> longer, start |-> next, offset |-> next]
          /\ longer \in Seq(LineRecords) /\ Len(longer) = m + 1 /\ Table(source, longer, next)
      BY <3>1, <3>3, <3>4 DEF longer
    <3>6. next >= offset + 1
      BY <1>1, <3>2 DEF next
    <3>7. \A p \in (next + 1)..(next + 1) : LineOf(source, p) = (m + 1) + 1
      <4>1. \A p \in (next + 1)..(next + 1) : p = next + 1
        BY <3>2
      <4>2. (m + 1) + 1 = m + 2
        BY <1>1
      <4>3. QED
        BY <3>2, <4>1, <4>2
    <3>8. QED
      BY <1>1, <1>4, <3>2, <3>5, <3>6, <3>7 DEF ScanInv
  <2>6. QED
    BY <2>4, <2>5
<1>5. QED
  BY <1>3, <1>4

\* Where the loop of scanLines starts it holds.
LEMMA ScanStarts ==
    ASSUME NEW source \in Seq(STRING)
    PROVE  ScanInv(source, ScanStart)
<1>1. ScanStart \in [lines : Seq(LineRecords), start : Nat, offset : Nat]
  BY DEF ScanStart
<1>2. Table(source, <<>>, 0)
  BY DEF Table
<1>3. \A p \in (0 + 1)..(0 + 1) : LineOf(source, p) = 0 + 1
  <2>1. \A p \in (0 + 1)..(0 + 1) : p = 1
    OBVIOUS
  <2>2. QED
    BY <2>1, LineNumbers
<1>4. ScanStart.lines = <<>> /\ Len(<<>>) = 0 /\ ScanStart.start = 0 /\ ScanStart.offset = 0
  BY DEF ScanStart
<1>5. QED
  BY <1>1, <1>2, <1>3, <1>4 DEF ScanInv

\* The loop of scanLines ends at the end of the source with the table of all lines it has closed.
LEMMA ScanEnds ==
    ASSUME NEW source \in Seq(STRING)
    PROVE  LET scan == scanAfter(source)[Len(source)]
           IN  ScanInv(source, scan) /\ scan.offset = Len(source)
<1> DEFINE n == Len(source)
           f == scanAfter(source)
           T == {k \in Nat : k <= n => ScanInv(source, f[k]) /\ (f[k].offset >= k \/ f[k].offset = n)}
<1>1. n \in Nat
  OBVIOUS
<1>2. f[0] = ScanStart /\ \A k \in 1..n : f[k] = scanStep(source, f[k - 1])
  BY <1>1, ScanIs
<1> HIDE DEF f
<1>3. 0 \in T
  <2>1. ScanInv(source, ScanStart) /\ ScanStart.offset = 0
    BY ScanStarts DEF ScanStart
  <2>2. QED
    BY <1>2, <2>1
<1>4. ASSUME NEW k \in Nat, k \in T PROVE k + 1 \in T
  <2>1. SUFFICES ASSUME k + 1 <= n
                 PROVE  /\ ScanInv(source, f[k + 1])
                        /\ f[k + 1].offset >= k + 1 \/ f[k + 1].offset = n
    OBVIOUS
  <2>2. k + 1 \in 1..n /\ k <= n /\ (k + 1) - 1 = k
    BY <1>1, <2>1
  <2>3. ScanInv(source, f[k]) /\ (f[k].offset >= k \/ f[k].offset = n)
    BY <1>4, <2>2
  <2>4. f[k + 1] = scanStep(source, f[k])
    BY <1>2, <2>2
  <2>5. /\ ScanInv(source, f[k + 1])
        /\ IF f[k].offset = n THEN f[k + 1].offset = n ELSE f[k + 1].offset >= f[k].offset + 1
    BY <2>3, <2>4, ScanStepKeeps
  <2>6. f[k].offset \in Nat /\ f[k + 1].offset \in Nat
    BY <2>3, <2>5 DEF ScanInv
  <2>7. QED
    BY <1>1, <2>3, <2>5, <2>6
<1> HIDE DEF T
<1>5. n \in T
  BY <1>1, <1>3, <1>4, SetInduction
<1>6. ScanInv(source, f[n]) /\ (f[n].offset >= n \/ f[n].offset = n)
  BY <1>1, <1>5 DEF T
<1>7. f[n].offset \in Nat /\ f[n].offset <= n
  BY <1>6 DEF ScanInv
<1>8. f[n].offset = n
  BY <1>1, <1>6, <1>7
<1>9. QED
  BY <1>6, <1>8 DEF f

\* scanLines returns the table of all lines of the source.
LEMMA ScannedLines ==
    ASSUME NEW source \in Seq(STRING)
    PROVE  Table(source, scanLines(source), Len(source))
<1> DEFINE n == Len(source)
           scan == scanAfter(source)[n]
           m == Len(scan.lines)
<1>1. ScanInv(source, scan) /\ scan.offset = n
  BY ScanEnds
<1>2. scanLines(source) = IF scan.start < n THEN Append(scan.lines, Line(m + 1, scan.start, n, 0))
                          ELSE scan.lines
  BY DEF scanLines
<1> HIDE DEF scan
<1>3. /\ n \in Nat /\ scan.start \in Nat /\ scan.start <= n /\ Table(source, scan.lines, scan.start)
      /\ \A p \in (scan.start + 1)..(n + 1) : LineOf(source, p) = m + 1
  BY <1>1 DEF ScanInv
<1>4. CASE scan.start < n
  <2>1. \A p \in (scan.start + 1)..(n + 0) : LineOf(source, p) = m + 1
    BY <1>3
  <2>2. 0 \in 0..2 /\ scan.start < n + 0 /\ n + 0 <= n /\ n + 0 = n
    BY <1>3, <1>4
  <2>3. Table(source, Append(scan.lines, Line(m + 1, scan.start, n, 0)), n + 0)
    BY <1>3, <2>1, <2>2, TableGrows
  <2>4. QED
    BY <1>2, <1>4, <2>2, <2>3
<1>5. CASE ~(scan.start < n)
  <2>1. scan.start = n
    BY <1>3, <1>5
  <2>2. QED
    BY <1>2, <1>3, <1>5, <2>1
<1>6. QED
  BY <1>4, <1>5

\* Lines follow one another.
LEMMA LinesInOrder ==
    ASSUME NEW source, NEW lines, NEW end, Table(source, lines, end), Len(source) \in Nat,
           NEW i \in 1..Len(lines), NEW j \in 1..Len(lines), i < j
    PROVE  LineEnd(lines[i]) <= lines[j].byteStart
<1> DEFINE m == Len(lines)
           T == {d \in Nat : i + 1 + d <= m => LineEnd(lines[i]) <= lines[i + 1 + d].byteStart}
<1>1. m \in Nat /\ lines \in Seq(LineRecords) /\ i \in Nat /\ j \in Nat
  BY DEF Table
<1>2. ASSUME NEW k \in 1..m
      PROVE  /\ lines[k].byteStart \in Nat /\ LineEnd(lines[k]) \in Nat
             /\ lines[k].byteStart < LineEnd(lines[k])
             /\ k # 1 => lines[k].byteStart = LineEnd(lines[k - 1])
  <2>1. lines[k] \in LineRecords
    BY <1>1
  <2>2. lines[k].byteStart \in Nat /\ LineEnd(lines[k]) \in Nat
    BY <2>1 DEF LineRecords, LineEnd
  <2>3. LineInv(source, lines, k)
    BY DEF Table
  <2>4. QED
    BY <2>2, <2>3 DEF LineInv
<1>3. 0 \in T
  <2>1. SUFFICES ASSUME i + 1 <= m PROVE LineEnd(lines[i]) <= lines[i + 1].byteStart
    BY <1>1
  <2>2. i + 1 \in 1..m /\ i + 1 # 1 /\ (i + 1) - 1 = i
    BY <1>1, <2>1
  <2>3. lines[i + 1].byteStart = LineEnd(lines[(i + 1) - 1])
    BY <1>2, <2>2
  <2>4. lines[i + 1].byteStart = LineEnd(lines[i]) /\ LineEnd(lines[i]) \in Nat
    BY <1>2, <2>2, <2>3
  <2>5. QED
    BY <2>4
<1>4. ASSUME NEW d \in Nat, d \in T PROVE d + 1 \in T
  <2>1. SUFFICES ASSUME i + 1 + (d + 1) <= m
                 PROVE  LineEnd(lines[i]) <= lines[i + 1 + (d + 1)].byteStart
    OBVIOUS
  <2> DEFINE k == i + 1 + d
  <2>2. k \in 1..m /\ k + 1 \in 1..m /\ k + 1 # 1 /\ (k + 1) - 1 = k /\ k + 1 = i + 1 + (d + 1) /\ k <= m
    BY <1>1, <2>1
  <2>3. LineEnd(lines[i]) <= lines[k].byteStart
    BY <1>4, <2>2
  <2> HIDE DEF k
  <2>4. lines[k + 1].byteStart = LineEnd(lines[k])
    BY <1>2, <2>2
  <2>5. LineEnd(lines[i]) <= lines[k + 1].byteStart
    <3>1. /\ LineEnd(lines[i]) \in Nat /\ lines[k].byteStart \in Nat /\ LineEnd(lines[k]) \in Nat
          /\ lines[k].byteStart < LineEnd(lines[k])
      BY <1>2, <2>2
    <3>2. QED
      BY <2>3, <2>4, <3>1
  <2>6. QED
    BY <2>2, <2>5
<1> HIDE DEF T
<1>5. j - (i + 1) \in T
  <2>1. j - (i + 1) \in Nat
    BY <1>1
  <2>2. QED
    BY <1>3, <1>4, <2>1, SetInduction
<1>6. i + 1 + (j - (i + 1)) = j /\ j <= m
  BY <1>1
<1>7. QED
  BY <1>5, <1>6 DEF T

\* The first and the last of an interval.
LEMMA EndsOfInterval ==
    ASSUME NEW a \in Int, NEW b \in Int, a <= b
    PROVE  Min(a..b) = a /\ Max(a..b) = b
<1>1. a \in a..b /\ \A y \in a..b : a <= y
  OBVIOUS
<1>2. b \in a..b /\ \A y \in a..b : b >= y
  OBVIOUS
<1>3. \A x \in a..b : (\A y \in a..b : x <= y) => x = a
  BY <1>1
<1>4. \A x \in a..b : (\A y \in a..b : x >= y) => x = b
  BY <1>2
<1>5. Min(a..b) = a
  BY <1>1, <1>3 DEF Min
<1>6. Max(a..b) = b
  BY <1>2, <1>4 DEF Max
<1>7. QED
  BY <1>5, <1>6

\* A line of the table, in numbers.
LEMMA LineTyped ==
    ASSUME NEW source, NEW lines, NEW end, Table(source, lines, end), NEW k \in 1..Len(lines)
    PROVE  /\ lines[k].byteStart \in Nat /\ LineEnd(lines[k]) \in Nat
           /\ lines[k].byteStart < LineEnd(lines[k])
           /\ lines[k].lineNumber = k
           /\ k = 1 => lines[k].byteStart = 0
           /\ k # 1 => lines[k].byteStart = LineEnd(lines[k - 1])
           /\ \A p \in (lines[k].byteStart + 1)..LineEnd(lines[k]) : LineOf(source, p) = k
<1>1. lines[k] \in LineRecords
  BY DEF Table
<1>2. lines[k].byteStart \in Nat /\ LineEnd(lines[k]) \in Nat
  BY <1>1 DEF LineRecords, LineEnd
<1>3. LineInv(source, lines, k)
  BY DEF Table
<1>4. QED
  BY <1>2, <1>3 DEF LineInv

\* The table leaves no byte out: each is in the line of its number.
LEMMA ByteInLine ==
    ASSUME NEW source, Len(source) \in Nat, NEW lines, NEW end, Table(source, lines, end),
           NEW p \in 1..end
    PROVE  /\ LineOf(source, p) \in 1..Len(lines)
           /\ p \in (lines[LineOf(source, p)].byteStart + 1)..LineEnd(lines[LineOf(source, p)])
<1> DEFINE m == Len(lines)
           T == {j \in 1..m : p <= LineEnd(lines[j])}
<1>1. m \in Nat /\ end \in Nat /\ m # 0 /\ end = LineEnd(lines[m])
  BY DEF Table
<1>2. m \in T
  BY <1>1
<1>3. T \subseteq Nat /\ T # {}
  BY <1>2
<1>4. PICK j \in T : \A i \in T : j <= i
  BY <1>3, LeastNatural
<1>5. /\ j \in 1..m /\ p <= LineEnd(lines[j]) /\ lines[j].byteStart \in Nat
      /\ LineEnd(lines[j]) \in Nat
  BY <1>4, LineTyped
<1>6. lines[j].byteStart < p
  <2>1. CASE j = 1
    <3>1. lines[j].byteStart = 0
      BY <1>5, <2>1, LineTyped
    <3>2. QED
      BY <3>1, <1>1
  <2>2. CASE j # 1
    <3>1. j - 1 \in 1..m /\ ~(j <= j - 1)
      BY <1>1, <1>5, <2>2
    <3>2. j - 1 \notin T
      BY <1>4, <3>1
    <3>3. ~(p <= LineEnd(lines[j - 1]))
      BY <3>1, <3>2
    <3>4. LineEnd(lines[j - 1]) \in Nat /\ lines[j].byteStart = LineEnd(lines[j - 1])
      BY <1>5, <2>2, <3>1, LineTyped
    <3>5. QED
      BY <1>1, <3>3, <3>4
  <2>3. QED
    BY <2>1, <2>2
<1>7. p \in (lines[j].byteStart + 1)..LineEnd(lines[j])
  BY <1>1, <1>5, <1>6
<1>8. LineOf(source, p) = j
  BY <1>5, <1>7, LineTyped
<1>9. QED
  BY <1>5, <1>7, <1>8

\* The bytes whose number is in an interval of lines are those of the lines.
LEMMA LinesWithin ==
    ASSUME NEW source \in Seq(STRING), NEW lines, Table(source, lines, Len(source)),
           NEW first \in 1..Len(lines), NEW final \in first..Len(lines)
    PROVE  /\ lines[first].byteStart < LineEnd(lines[final])
           /\ LineEnd(lines[final]) <= Len(source)
           /\ {i \in 1..Len(source) : LineOf(source, i) \in first..final}
                = (lines[first].byteStart + 1)..LineEnd(lines[final])
<1> DEFINE n == Len(source)
           m == Len(lines)
           start == lines[first].byteStart
           end == LineEnd(lines[final])
<1>1. n \in Nat /\ m \in Nat /\ final \in 1..m /\ first <= final /\ first \in Nat /\ final \in Nat
  BY DEF Table
<1>2. /\ start \in Nat /\ end \in Nat /\ LineEnd(lines[first]) \in Nat
      /\ lines[final].byteStart \in Nat /\ start < LineEnd(lines[first])
      /\ lines[final].byteStart < end
  BY <1>1, LineTyped
<1>3. ASSUME NEW i \in 1..m, NEW j \in 1..m, i < j PROVE LineEnd(lines[i]) <= lines[j].byteStart
  BY <1>1, <1>3, LinesInOrder
<1>4. start < end
  <2>1. CASE first = final
    BY <1>2, <2>1
  <2>2. CASE first # final
    <3>1. LineEnd(lines[first]) <= lines[final].byteStart
      BY <1>1, <1>3, <2>2
    <3>2. QED
      BY <1>2, <3>1
  <2>3. QED
    BY <2>1, <2>2
<1>5. end <= n
  <2>1. n = LineEnd(lines[m]) /\ m \in 1..m /\ LineEnd(lines[m]) \in Nat
        /\ lines[m].byteStart \in Nat /\ lines[m].byteStart < LineEnd(lines[m])
    BY <1>1, LineTyped DEF Table
  <2>2. CASE final = m
    BY <2>1, <2>2
  <2>3. CASE final # m
    <3>1. end <= lines[m].byteStart
      BY <1>1, <1>3, <2>1, <2>3
    <3>2. QED
      BY <1>2, <2>1, <3>1
  <2>4. QED
    BY <2>2, <2>3
<1>6. ASSUME NEW i \in 1..n
      PROVE  LineOf(source, i) \in first..final <=> i \in (start + 1)..end
  <2> DEFINE j == LineOf(source, i)
  <2>1. j \in 1..m /\ i \in (lines[j].byteStart + 1)..LineEnd(lines[j])
    BY <1>1, ByteInLine
  <2> HIDE DEF j
  <2>2. lines[j].byteStart \in Nat /\ LineEnd(lines[j]) \in Nat
    BY <2>1, LineTyped
  <2>3. lines[j].byteStart < i /\ i <= LineEnd(lines[j]) /\ i \in Nat
    BY <1>1, <2>1, <2>2
  <2>4. CASE j < first
    <3>1. LineEnd(lines[j]) <= start
      BY <1>1, <1>3, <2>1, <2>4
    <3>2. ~(i \in (start + 1)..end)
      BY <1>2, <2>2, <2>3, <3>1
    <3>3. j \notin first..final
      BY <1>1, <2>1, <2>4
    <3>4. QED
      BY <3>2, <3>3 DEF j
  <2>5. CASE j > final
    <3>1. end <= lines[j].byteStart
      BY <1>1, <1>3, <2>1, <2>5
    <3>2. ~(i \in (start + 1)..end)
      BY <1>2, <2>2, <2>3, <3>1
    <3>3. j \notin first..final
      BY <1>1, <2>1, <2>5
    <3>4. QED
      BY <3>2, <3>3 DEF j
  <2>6. CASE j \in first..final
    <3>1. start <= lines[j].byteStart
      <4>1. CASE j = first
        BY <1>2, <4>1
      <4>2. CASE j # first
        <5>1. LineEnd(lines[first]) <= lines[j].byteStart
          BY <1>1, <1>3, <2>1, <2>6, <4>2
        <5> DEFINE x == LineEnd(lines[first])
                   y == lines[j].byteStart
        <5>2. x \in Nat /\ y \in Nat /\ start \in Nat /\ x <= y /\ start < x
          BY <1>2, <2>2, <5>1, Zenon
        <5> HIDE DEF x, y, start
        <5>3. start <= y
          BY <5>2
        <5>4. QED
          BY <5>3 DEF y
      <4>3. QED
        BY <4>1, <4>2
    <3>2. LineEnd(lines[j]) <= end
      <4>1. CASE j = final
        BY <1>2, <4>1
      <4>2. CASE j # final
        <5>1. LineEnd(lines[j]) <= lines[final].byteStart
          BY <1>1, <1>3, <2>1, <2>6, <4>2
        <5> DEFINE x == LineEnd(lines[j])
                   y == lines[final].byteStart
        <5>2. x \in Nat /\ y \in Nat /\ end \in Nat /\ x <= y /\ y < end
          BY <1>2, <2>2, <5>1, Zenon
        <5> HIDE DEF x, y, end
        <5>3. x <= end
          BY <5>2
        <5>4. QED
          BY <5>3 DEF x
      <4>3. QED
        BY <4>1, <4>2
    <3>3. i \in (start + 1)..end
      <4> DEFINE x == lines[j].byteStart
                 y == LineEnd(lines[j])
      <4>1. /\ start \in Nat /\ end \in Nat /\ x \in Nat /\ y \in Nat /\ i \in Nat
            /\ start <= x /\ x < i /\ i <= y /\ y <= end
        BY <1>2, <2>2, <2>3, <3>1, <3>2, Zenon
      <4> HIDE DEF x, y, start, end
      <4>2. QED
        BY <4>1
    <3>4. QED
      BY <2>6, <3>3 DEF j
  <2>7. QED
    BY <1>1, <2>1, <2>4, <2>5, <2>6
<1> HIDE DEF start, end
<1>7. (start + 1)..end \subseteq 1..n
  BY <1>1, <1>2, <1>5 DEF start, end
<1>8. {i \in 1..n : LineOf(source, i) \in first..final} = (start + 1)..end
  BY <1>6, <1>7
<1>9. QED
  BY <1>4, <1>5, <1>8 DEF start, end

\* The reference definition of the lines, in terms of the table.
LEMMA LinesOfTable ==
    ASSUME NEW source \in Seq(STRING), NEW lines, Table(source, lines, Len(source)),
           NEW first \in 1..Len(lines), NEW final \in first..Len(lines)
    PROVE  LinesOf(source, first, final)
             = Slice(source, lines[first].byteStart,
                     LineEnd(lines[final]) - lines[first].byteStart)
<1> DEFINE start == lines[first].byteStart
           end == LineEnd(lines[final])
           within == {i \in 1..Len(source) : LineOf(source, i) \in first..final}
<1>1. final \in 1..Len(lines)
  BY DEF Table
<1>2. start \in Nat /\ end \in Nat
  BY <1>1, LineTyped
<1>3. start < end /\ within = (start + 1)..end
  BY LinesWithin
<1> HIDE DEF start, end
<1>4. start + 1 \in Int /\ end \in Int /\ start + 1 <= end /\ start + (end - start) = end
  BY <1>2, <1>3
<1>5. Min((start + 1)..end) = start + 1 /\ Max((start + 1)..end) = end /\ (start + 1)..end # {}
  BY <1>4, EndsOfInterval
<1>6. Min(within) = start + 1 /\ Max(within) = end /\ within # {}
  BY <1>3, <1>5
<1>7. LinesOf(source, first, final) = SubSeq(source, start + 1, end)
  BY <1>6 DEF LinesOf
<1>8. QED
  BY <1>4, <1>7 DEF Slice, start, end

\* An index without an error has the lines of its bytes, and the headings that were scanned
\* without an error.
LEMMA BuiltIndex ==
    ASSUME NEW bytes, NEW mediaType, NEW index, index = buildArtifactTextIndex(bytes, mediaType),
           index.error = "none"
    PROVE  LET scanned == scanHeadings(bytes, IF mediaType = "text/plain" THEN <<>> ELSE scanLines(bytes))
           IN  /\ scanned.error = "none"
               /\ ~(Len(bytes) > MAX_TEXT_INDEX_BYTES)
               /\ IsUtf8(bytes)
               /\ index = [error |-> "none", source |-> bytes, mediaType |-> mediaType,
                           lines |-> scanLines(bytes), headings |-> scanned.headings]
BY DEF buildArtifactTextIndex, NoIndex

\* The lines of a verified source.
LEMMA SourceTable ==
    ASSUME artifact \in Artifacts, NEW r, Sound(r), NEW bytes \in Seq(STRING), NEW index,
           index = buildArtifactTextIndex(bytes, r.mediaType), index.error = "none",
           verifyArtifactSourceManifest(bytes, r)
    PROVE  /\ bytes = artifact.source
           /\ Table(artifact.source, index.lines, Len(artifact.source))
<1>1. bytes = artifact.source
  BY VerifiedSource
<1>2. index.lines = scanLines(bytes)
  BY BuiltIndex
<1>3. Table(bytes, scanLines(bytes), Len(bytes))
  BY ScannedLines
<1>4. QED
  BY <1>1, <1>2, <1>3

\* The last byte is in the last line.
LEMMA LastLine ==
    ASSUME NEW source, Len(source) \in Nat \ {0}, NEW lines, Table(source, lines, Len(source))
    PROVE  Len(lines) \in Nat \ {0} /\ LineOf(source, Len(source)) = Len(lines)
<1> DEFINE n == Len(source)
           m == Len(lines)
<1>1. m \in Nat /\ m # 0 /\ n = LineEnd(lines[m])
  BY DEF Table
<1>2. m \in 1..m
  BY <1>1
<1>3. lines[m].byteStart \in Nat /\ lines[m].byteStart < LineEnd(lines[m])
  BY <1>2, LineTyped
<1>4. n \in (lines[m].byteStart + 1)..LineEnd(lines[m])
  BY <1>1, <1>3
<1>5. LineOf(source, n) = m
  BY <1>2, <1>4, LineTyped
<1>6. QED
  BY <1>1, <1>5

\* What LinesAreTheLines says of a successful answer.
LinesTrue(a) ==
    LET last == least(request.startLine + request.count - 1,
                      LineOf(artifact.source, Len(artifact.source)))
    IN  /\ a.data = LinesOf(artifact.source, request.startLine, last)
        /\ a.lineCount = Cardinality(request.startLine..last)

\* What ReturnRange returns.
LEMMA ReturnedIs ==
    ASSUME NEW r, NEW bytes, NEW data, NEW offset, NEW length,
           ReturnRange(r, bytes, data, offset, length).class = "success"
    PROVE  LET c == Candidate(r, data, offset, length, floorDiv(offset, r.chunkSize),
                              floorDiv(offset + length - 1, r.chunkSize))
           IN  /\ ReturnRange(r, bytes, data, offset, length) = c
               /\ c.data = data /\ c.offset = offset /\ c.length = length
<1> DEFINE c == Candidate(r, data, offset, length, floorDiv(offset, r.chunkSize),
                          floorDiv(offset + length - 1, r.chunkSize))
<1>1. ReturnRange(r, bytes, data, offset, length) = Validated(c, r)
  BY DeniedIs DEF ReturnRange
<1>2. ReturnRange(r, bytes, data, offset, length) = c
  BY <1>1, ValidatedIs
<1>3. QED
  BY <1>2, CandidateIs

\* artifact_read_lines returns the lines asked for.
LEMMA ReadLinesTrue ==
    ASSUME artifact \in Artifacts, request \in Requests(artifact.source), NEW r, Sound(r),
           NEW bytes \in Seq(STRING), NEW index, index = buildArtifactTextIndex(bytes, r.mediaType),
           request.tool = "artifact_read_lines",
           artifactReadLines(r, bytes, index).class = "success"
    PROVE  LinesTrue(artifactReadLines(r, bytes, index))
<1> DEFINE source == artifact.source
           n == Len(source)
           lines == index.lines
           total == Len(lines)
           from == request.startLine
           count == least(request.count, total - from + 1)
           start == lines[from].byteStart
           length == LineEnd(lines[from + count - 1]) - start
           read == readIndexedLines(bytes, index, from, count)
           returned == ReturnRange(r, bytes, read.text, start, length)
           chunk == r.chunkCount - 1
           c == Candidate(r, <<>>, r.byteLength, 0, chunk, chunk)
           final == least(from + request.count - 1, LineOf(source, n))
<1>1. verifyArtifactSourceManifest(bytes, r) /\ index.error = "none"
  BY DeniedIs, IndexErrorDenied DEF artifactReadLines
<1>2. bytes = source /\ Table(source, lines, n)
  BY <1>1, SourceTable
<1>3. source \in Seq(STRING) /\ n \in Nat /\ total \in Nat
  BY <1>2, SourceTyped DEF Table
<1>4. from \in Nat \ {0} /\ request.count \in Nat \ {0}
  BY ContentShape
<1>5. CASE from > total
  <2>1. artifactReadLines(r, bytes, index) = Validated(c, r) /\ r.chunkCount # 0
    BY <1>1, <1>5, DeniedIs, IndexErrorDenied DEF artifactReadLines
  <2>2. artifactReadLines(r, bytes, index) = c
    BY <2>1, ValidatedIs
  <2>3. c.data = <<>> /\ c.lineCount = 0
    BY DEF Candidate, Empty
  <2>4. n # 0
    <3>1. SUFFICES ASSUME n = 0 PROVE FALSE
      OBVIOUS
    <3> DEFINE d == artifact.chunkSize
               q == chunkCountOf(0, d)
    <3>2. d \in Nat \ {0} /\ 0 \in Nat
      BY SourceTyped
    <3>3. q \in Nat /\ q * d < 0 + d
      BY <3>2, CountIs
    <3>4. q # 0
      BY <2>1, <3>1 DEF Sound
    <3> HIDE DEF q, d
    <3>5. QED
      BY <3>2, <3>3, <3>4
  <2>5. LineOf(source, n) = total
    BY <1>2, <1>3, <2>4, LastLine
  <2>6. final = total /\ from..final = {}
    <3>1. final = least(from + request.count - 1, total)
      BY <2>5
    <3> DEFINE k == request.count
    <3>2. final = least(from + k - 1, total) /\ k \in Nat \ {0}
      BY <1>4, <3>1
    <3> HIDE DEF final, from, total, k
    <3>3. QED
      BY <1>3, <1>4, <1>5, <3>2 DEF least
  <2>7. LinesOf(source, from, final) = <<>>
    BY <2>6 DEF LinesOf
  <2>8. Cardinality(from..final) = 0
    BY <2>6, FS_EmptySet
  <2> HIDE DEF c
  <2>9. QED
    BY <2>2, <2>3, <2>7, <2>8 DEF LinesTrue
<1>6. CASE ~(from > total)
  <2>1. /\ read.error = "none" /\ returned.class = "success"
        /\ artifactReadLines(r, bytes, index) = [returned EXCEPT !.lineCount = count]
    BY <1>1, <1>6, DeniedIs, IndexErrorDenied DEF artifactReadLines
  <2>2. read.text = Slice(bytes, start, length)
    BY <2>1 DEF readIndexedLines, readUnless, untrustedRead, NoText
  <2>3. returned.data = Slice(source, start, length)
    <3> HIDE DEF read, start, length
    <3>1. QED
      BY <1>2, <2>1, <2>2, ReturnedIs
  <2>4. "lineCount" \in DOMAIN returned
    <3> HIDE DEF read, start, length
    <3>1. returned = Candidate(r, read.text, start, length, floorDiv(start, r.chunkSize),
                               floorDiv(start + length - 1, r.chunkSize))
      BY <2>1, ReturnedIs
    <3>2. QED
      BY <3>1 DEF Candidate, Empty
  <2> HIDE DEF returned
  <2>5. /\ artifactReadLines(r, bytes, index).data = Slice(source, start, length)
        /\ artifactReadLines(r, bytes, index).lineCount = count
    <3> HIDE DEF start, length, count
    <3>1. QED
      BY <2>1, <2>3, <2>4
  <2>6. n # 0
    <3>1. total \in 1..total /\ n = LineEnd(lines[total])
      BY <1>2, <1>3, <1>4, <1>6 DEF Table
    <3>2. LineEnd(lines[total]) \in Nat /\ lines[total].byteStart \in Nat
          /\ lines[total].byteStart < LineEnd(lines[total])
      BY <1>2, <3>1, LineTyped
    <3>3. QED
      BY <3>1, <3>2
  <2>7. LineOf(source, n) = total
    BY <1>2, <1>3, <2>6, LastLine
  <2>8. /\ from + count - 1 = final /\ from \in 1..total /\ final \in from..total
        /\ count = final - from + 1
    <3> DEFINE k == request.count
    <3>1. final = least(from + k - 1, total) /\ k \in Nat \ {0} /\ count = least(k, total - from + 1)
      BY <1>4, <2>7
    <3> HIDE DEF final, from, total, k, count
    <3>2. QED
      BY <1>3, <1>4, <1>6, <3>1 DEF least
  <2>9. LinesOf(source, from, final) = Slice(source, start, LineEnd(lines[final]) - start)
    <3>1. /\ source \in Seq(STRING) /\ Table(source, lines, Len(source))
          /\ from \in 1..Len(lines) /\ final \in from..Len(lines)
      BY <1>2, <1>3, <2>8, Zenon
    <3> HIDE DEF source, lines, from, final
    <3>2. QED
      BY <3>1, LinesOfTable, Zenon
  <2>10. Cardinality(from..final) = count
    <3>1. from \in Int /\ final \in Int /\ ~(from > final)
      BY <1>4, <1>3, <2>8
    <3> HIDE DEF from, final
    <3>2. QED
      BY <2>8, <3>1, FS_Interval
  <2>11. length = LineEnd(lines[final]) - start
    BY <2>8
  <2> HIDE DEF length, start, count
  <2>12. QED
    BY <2>5, <2>9, <2>10, <2>11 DEF LinesTrue
<1>7. QED
  BY <1>5, <1>6

\* A step that changes the answer gives the conclusion or a denial, or is artifact_stat's.
LEMMA AnswerStep ==
    ASSUME IInv, [Next]_vars
    PROVE  /\ artifact' = artifact /\ request' = request
           /\ \/ answer' = answer
              \/ answer'.class # "success"
              \/ request.tool = "artifact_stat"
              \/ phase = "fetched" /\ answer' = Conclusion
<1>1. request.tool \in ARTIFACT_INSPECTION_TOOLS
  BY ContentShape DEF IInv
<1>2. request.tool # "artifact_stat" => DeniedUnread(record) # "success"
  BY <1>1 DEF DeniedUnread, ARTIFACT_INSPECTION_TOOLS
<1>3. CASE OverwriteObject \/ RemoveObject \/ MiswriteRecord
  BY <1>3 DEF OverwriteObject, RemoveObject, MiswriteRecord
<1>4. CASE Resolve \/ Fetch
  BY <1>4 DEF Resolve, Fetch
<1>5. CASE ResolveFails
  BY <1>5, DeniedIs DEF ResolveFails
<1>6. CASE AnswerUnread
  BY <1>2, <1>6, DeniedIs DEF AnswerUnread
<1>7. CASE Conclude
  BY <1>7 DEF Conclude
<1>8. CASE ConcludeTooLong
  BY <1>8, DeniedIs DEF ConcludeTooLong
<1>9. CASE UNCHANGED vars
  BY <1>9 DEF vars
<1>10. QED
  BY <1>3, <1>4, <1>5, <1>6, <1>7, <1>8, <1>9 DEF Next

\* A successful conclusion of a tool that reads the whole source.
LEMMA ConclusionIs ==
    ASSUME IInv, phase = "fetched", Conclusion.class = "success",
           request.tool # "artifact_read_range"
    PROVE  LET index == buildArtifactTextIndex(fetched.bytes, record.mediaType)
           IN  /\ Conclusion = WithIndex(record, fetched.bytes, index)
               /\ fetched.bytes \in Seq(STRING) /\ Sound(record) /\ artifact \in Artifacts
               /\ request \in Requests(artifact.source)
<1>1. fetched \in Objects /\ Sound(record) /\ artifact \in Artifacts /\ request \in Requests(artifact.source)
  BY DEF IInv
<1>2. fetched.bytes \in Seq(STRING)
  BY <1>1 DEF Objects
<1>3. QED
  BY <1>1, <1>2, DeniedIs DEF Conclusion

\* artifact_read_lines returns the bytes of the lines asked for that exist, and counts them.
THEOREM LinesAsAsked == Spec => []LinesAreTheLines
<1>1. Init => LinesAreTheLines
  BY DEF Init, Empty, LinesAreTheLines, Succeeded
<1>2. IInv /\ LinesAreTheLines /\ [Next]_vars => LinesAreTheLines'
  <2> SUFFICES ASSUME IInv, LinesAreTheLines, [Next]_vars, Succeeded("artifact_read_lines")'
               PROVE  LinesTrue(answer)'
    BY DEF LinesAreTheLines, LinesTrue
  <2>1. artifact' = artifact /\ request' = request
    BY AnswerStep
  <2>2. request.tool = "artifact_read_lines" /\ answer'.class = "success"
    BY <2>1 DEF Succeeded
  <2>3. CASE answer' = answer
    BY <2>1, <2>2, <2>3 DEF LinesAreTheLines, LinesTrue, Succeeded
  <2>4. CASE phase = "fetched" /\ answer' = Conclusion
    <3> DEFINE index == buildArtifactTextIndex(fetched.bytes, record.mediaType)
    <3>1. /\ Conclusion = WithIndex(record, fetched.bytes, index)
          /\ fetched.bytes \in Seq(STRING) /\ Sound(record) /\ artifact \in Artifacts
          /\ request \in Requests(artifact.source)
      BY <2>2, <2>4, ConclusionIs
    <3>2. answer' = artifactReadLines(record, fetched.bytes, index)
      BY <2>2, <2>4, <3>1 DEF WithIndex
    <3>3. LinesTrue(answer')
      BY <2>2, <3>1, <3>2, ReadLinesTrue
    <3>4. QED
      BY <2>1, <3>3 DEF LinesTrue
  <2>5. QED
    BY <2>2, <2>3, <2>4, AnswerStep
<1>3. QED
  BY <1>1, <1>2, Inductive, PTL DEF Spec

-----------------------------------------------------------------------------
(***************************************************************************)
(* Hits.                                                                   *)
(***************************************************************************)
\* A set of natural numbers below a bound has a greatest element.
LEMMA GreatestNatural ==
    ASSUME NEW T, T \subseteq Nat, T # {}, NEW b \in Nat, \A t \in T : t <= b
    PROVE  \E n \in T : \A m \in T : n >= m
<1> DEFINE U == {b - t : t \in T}
<1>1. U \subseteq Nat /\ U # {}
  <2>1. \A t \in T : t \in Nat /\ t <= b /\ b - t \in Nat
    OBVIOUS
  <2>2. QED
    BY <2>1
<1>2. PICK u \in U : \A v \in U : u <= v
  BY <1>1, LeastNatural
<1>3. PICK n \in T : u = b - n
  BY <1>2
<1>4. ASSUME NEW m \in T PROVE n >= m
  <2>1. b - m \in U
    OBVIOUS
  <2>2. b - n <= b - m
    BY <1>2, <1>3, <2>1
  <2>3. n \in Nat /\ m \in Nat
    BY <1>3
  <2>4. QED
    BY <2>2, <2>3
<1>5. QED
  BY <1>4

\* Min and Max are in the set, at its ends.
LEMMA MinIs ==
    ASSUME NEW T, T \subseteq Nat, T # {}
    PROVE  Min(T) \in T /\ \A m \in T : Min(T) <= m
<1>1. \E n \in T : \A m \in T : n <= m
  BY LeastNatural
<1>2. QED
  BY <1>1 DEF Min

\* The same for the other end.
LEMMA MaxIs ==
    ASSUME NEW T, T \subseteq Nat, T # {}, NEW b \in Nat, \A t \in T : t <= b
    PROVE  Max(T) \in T /\ \A m \in T : Max(T) >= m
<1>1. \E n \in T : \A m \in T : n >= m
  BY GreatestNatural
<1>2. QED
  BY <1>1 DEF Max

\* The line the search has reached is the one of the match.
LEMMA ReachedLine ==
    ASSUME NEW source, Len(source) \in Nat, NEW lines, Table(source, lines, Len(source)),
           NEW lineIndex \in Nat, lineIndex < Len(lines), NEW at \in Nat, at < Len(source),
           lines[lineIndex + 1].byteStart <= at
    PROVE  LET reached == lineReached(lines, lineIndex, at)
           IN  /\ reached \in Nat /\ reached < Len(lines)
               /\ lines[reached + 1].byteStart <= at
               /\ lines[reached + 1].lineNumber = LineOf(source, at + 1)
<1> DEFINE n == Len(source)
           m == Len(lines)
           K == {k \in lineIndex..(m - 1) :
                   \A j \in (lineIndex + 1)..k : startsBy(lines[j + 1], at)}
           T == {lineIndex} \cup K
           reached == lineReached(lines, lineIndex, at)
<1>1. m \in Nat
  BY DEF Table
<1>2. T \subseteq Nat /\ T # {} /\ m - 1 \in Nat /\ \A t \in T : t <= m - 1
  BY <1>1
<1>3. reached = Max(T)
  BY DEF lineReached
<1>4. reached \in T /\ \A t \in T : reached >= t
  BY <1>2, <1>3, MaxIs
<1> HIDE DEF reached
<1>5. reached \in lineIndex..(m - 1) /\ \A j \in (lineIndex + 1)..reached : startsBy(lines[j + 1], at)
  <2>1. CASE reached = lineIndex
    BY <1>1, <2>1
  <2>2. CASE reached \in K
    BY <2>2
  <2>3. QED
    BY <1>4, <2>1, <2>2
<1>6. reached \in Nat /\ reached < m /\ reached >= lineIndex
  BY <1>1, <1>5
<1>7. lines[reached + 1].byteStart <= at
  <2>1. CASE reached = lineIndex
    BY <2>1
  <2>2. CASE reached # lineIndex
    <3>1. reached \in (lineIndex + 1)..reached
      BY <1>6, <2>2
    <3>2. QED
      BY <1>5, <3>1 DEF startsBy
  <2>3. QED
    BY <2>1, <2>2
<1>8. reached + 1 \in 1..m
  BY <1>1, <1>6
<1>9. at < LineEnd(lines[reached + 1])
  <2>1. CASE reached + 1 = m
    <3>1. n = LineEnd(lines[m])
      BY <1>1, <1>6, <2>1 DEF Table
    <3>2. QED
      BY <2>1, <3>1
  <2>2. CASE reached + 1 # m
    <3>1. reached + 1 \in lineIndex..(m - 1) /\ ~(reached >= reached + 1)
      BY <1>1, <1>6, <2>2
    <3>2. reached + 1 \notin K
      BY <1>4, <3>1
    <3>3. PICK j \in (lineIndex + 1)..(reached + 1) : ~startsBy(lines[j + 1], at)
      BY <3>1, <3>2
    <3>4. j = reached + 1
      <4>1. j \notin (lineIndex + 1)..reached
        BY <1>5, <3>3
      <4>2. QED
        BY <1>6, <3>3, <4>1
    <3>5. ~(lines[(reached + 1) + 1].byteStart <= at)
      BY <3>3, <3>4 DEF startsBy
    <3>6. /\ (reached + 1) + 1 \in 1..m /\ (reached + 1) + 1 # 1
          /\ ((reached + 1) + 1) - 1 = reached + 1
      BY <1>1, <1>6, <2>2
    <3>7. /\ lines[(reached + 1) + 1].byteStart \in Nat
          /\ lines[(reached + 1) + 1].byteStart = LineEnd(lines[((reached + 1) + 1) - 1])
      BY <3>6, LineTyped
    <3>8. lines[(reached + 1) + 1].byteStart = LineEnd(lines[reached + 1])
      BY <3>6, <3>7
    <3>9. QED
      BY <3>5, <3>7, <3>8
  <2>3. QED
    BY <2>1, <2>2
<1>10. at + 1 \in (lines[reached + 1].byteStart + 1)..LineEnd(lines[reached + 1])
  <2>1. lines[reached + 1].byteStart \in Nat /\ LineEnd(lines[reached + 1]) \in Nat
    BY <1>8, LineTyped
  <2>2. QED
    BY <1>7, <1>9, <2>1
<1>11. LineOf(source, at + 1) = reached + 1 /\ lines[reached + 1].lineNumber = reached + 1
  BY <1>8, <1>10, LineTyped
<1>12. QED
  BY <1>6, <1>7, <1>11 DEF reached

\* The hits of a search.
Hits == [offset : Nat, length : Nat, snippet : Seq(STRING), lineNumber : Nat]

\* The offsets where a query stands.
MatchesIn(source, query) ==
    {o \in 0..(Len(source) - Len(query)) : Slice(source, o, Len(query)) = query}

\* Where the search for a hit begins.
From(hits, query, k) == IF k = 1 THEN 0 ELSE hits[k - 1].offset + Len(query)

\* A hit is the first match from there on, in its line.
HitInv(source, query, hits, k) ==
    /\ hits[k].offset \in MatchesIn(source, query)
    /\ \A o \in MatchesIn(source, query) : o < From(hits, query, k) \/ o >= hits[k].offset
    /\ hits[k].offset >= From(hits, query, k)
    /\ hits[k].lineNumber = LineOf(source, hits[k].offset + 1)
    /\ hits[k].length = Len(query) /\ hits[k].snippet = query

\* The state of the search.
SearchInv(source, lines, query, search) ==
    /\ search \in [hits : Seq(Hits), offset : Nat, lineIndex : Nat]
    /\ search.offset = From(search.hits, query, Len(search.hits) + 1)
    /\ Len(source) # 0 => /\ search.lineIndex < Len(lines)
                          /\ lines[search.lineIndex + 1].byteStart <= search.offset
    /\ \A k \in 1..Len(search.hits) : HitInv(source, query, search.hits, k)

\* An iteration keeps it, and finds a hit if there is one.
LEMMA SearchStepKeeps ==
    ASSUME NEW source \in Seq(STRING), NEW lines, Table(source, lines, Len(source)),
           NEW query \in Seq(STRING), query # <<>>, NEW search, SearchInv(source, lines, query, search)
    PROVE  LET next == searchStep(source, lines, query, search)
           IN  /\ SearchInv(source, lines, query, next)
               /\ IF MatchesFrom(source, query, search.offset) = {} THEN next = search
                  ELSE Len(next.hits) = Len(search.hits) + 1
<1> DEFINE n == Len(source)
           q == Len(query)
           hits == search.hits
           m == Len(hits)
           offset == search.offset
           matches == MatchesFrom(source, query, offset)
           at == Min(matches)
           reached == lineReached(lines, search.lineIndex, at)
           next == searchStep(source, lines, query, search)
<1>1. /\ n \in Nat /\ q \in Nat /\ q # 0 /\ m \in Nat /\ offset \in Nat /\ hits \in Seq(Hits)
      /\ search.lineIndex \in Nat
  BY DEF SearchInv
<1>2. CASE matches = {}
  BY <1>2 DEF searchStep
<1>3. CASE matches # {}
  <2>1. matches \subseteq Nat
    BY <1>1 DEF MatchesFrom
  <2>2. at \in matches /\ \A o \in matches : at <= o
    BY <1>3, <2>1, MinIs
  <2> HIDE DEF at
  <2>3. at \in Nat /\ offset <= at /\ at <= n - q /\ Slice(source, at, q) = query
    BY <1>1, <2>2 DEF MatchesFrom
  <2>4. at < n /\ n # 0
    BY <1>1, <2>3
  <2>5. /\ search.lineIndex < Len(lines) /\ lines[search.lineIndex + 1].byteStart <= at
    <3>1. search.lineIndex < Len(lines) /\ lines[search.lineIndex + 1].byteStart <= offset
      BY <2>4 DEF SearchInv
    <3>2. search.lineIndex + 1 \in 1..Len(lines)
      <4>1. Len(lines) \in Nat
        BY DEF Table
      <4>2. QED
        BY <1>1, <3>1, <4>1
    <3>3. lines[search.lineIndex + 1].byteStart \in Nat
      BY <3>2, LineTyped
    <3>4. QED
      BY <1>1, <2>3, <3>1, <3>3
  <2>6. /\ reached \in Nat /\ reached < Len(lines) /\ lines[reached + 1].byteStart <= at
        /\ lines[reached + 1].lineNumber = LineOf(source, at + 1)
    BY <1>1, <2>3, <2>4, <2>5, ReachedLine
  <2> HIDE DEF reached
  <2> DEFINE hit == [offset |-> at, length |-> q, snippet |-> query,
                     lineNumber |-> lines[reached + 1].lineNumber]
             longer == Append(hits, hit)
  <2>7. next = [hits |-> longer, offset |-> at + q, lineIndex |-> reached]
    BY <1>3 DEF searchStep, afterMatch, at, reached
  <2>8. hit \in Hits
    <3>1. reached + 1 \in 1..Len(lines)
      <4>1. Len(lines) \in Nat
        BY DEF Table
      <4>2. QED
        BY <2>6, <4>1
    <3>2. lines[reached + 1].lineNumber = reached + 1
      BY <3>1, LineTyped
    <3>3. lines[reached + 1].lineNumber \in Nat
      BY <2>6, <3>2
    <3>4. QED
      BY <1>1, <2>3, <3>3 DEF Hits
  <2>9. /\ hit.offset = at /\ hit.length = q /\ hit.snippet = query
        /\ hit.lineNumber = LineOf(source, at + 1)
    BY <2>6
  <2> HIDE DEF hit
  <2>10. /\ longer \in Seq(Hits) /\ Len(longer) = m + 1 /\ longer[m + 1] = hit
         /\ \A k \in 1..m : longer[k] = hits[k]
    BY <1>1, <2>8
  <2> HIDE DEF longer
  <2>11. ASSUME NEW k \in 1..m PROVE HitInv(source, query, longer, k)
    <3>1. HitInv(source, query, hits, k)
      BY DEF SearchInv
    <3>2. longer[k] = hits[k] /\ From(longer, query, k) = From(hits, query, k)
      <4>1. k # 1 => k - 1 \in 1..m
        BY <1>1
      <4>2. QED
        BY <2>10, <4>1 DEF From
    <3>3. QED
      BY <3>1, <3>2 DEF HitInv
  <2>12. HitInv(source, query, longer, m + 1)
    <3>1. From(longer, query, m + 1) = offset
      <4>1. (m + 1) - 1 = m /\ (m + 1 # 1 => m \in 1..m)
        BY <1>1
      <4>2. From(longer, query, m + 1) = From(hits, query, m + 1)
        BY <2>10, <4>1 DEF From
      <4>3. QED
        BY <4>2 DEF SearchInv
    <3>2. at \in MatchesIn(source, query)
      BY <1>1, <2>3 DEF MatchesIn
    <3>3. ASSUME NEW o \in MatchesIn(source, query) PROVE o < offset \/ o >= at
      <4>1. o \in 0..(n - q) /\ Slice(source, o, q) = query
        BY DEF MatchesIn
      <4>2. ~(o < offset) => o \in matches
        BY <1>1, <4>1 DEF MatchesFrom
      <4>3. o \in matches => at <= o
        BY <2>2
      <4>4. o \in Int
        BY <1>1, <4>1
      <4>5. QED
        BY <1>1, <2>3, <4>2, <4>3, <4>4
    <3>4. at >= offset
      BY <1>1, <2>3
    <3>5. QED
      BY <2>9, <2>10, <3>1, <3>2, <3>3, <3>4 DEF HitInv
  <2>13. ASSUME NEW k \in 1..(m + 1) PROVE HitInv(source, query, longer, k)
    <3>1. k \in 1..m \/ k = m + 1
      BY <1>1
    <3>2. QED
      BY <2>11, <2>12, <3>1
  <2>14. at + q = From(longer, query, (m + 1) + 1)
    <3>1. ((m + 1) + 1) - 1 = m + 1 /\ (m + 1) + 1 # 1
      BY <1>1
    <3>2. QED
      BY <2>9, <2>10, <3>1 DEF From
  <2>15. at + q \in Nat /\ lines[reached + 1].byteStart <= at + q
    <3>1. reached + 1 \in 1..Len(lines)
      <4>1. Len(lines) \in Nat
        BY DEF Table
      <4>2. QED
        BY <2>6, <4>1
    <3>2. lines[reached + 1].byteStart \in Nat
      BY <3>1, LineTyped
    <3>3. QED
      BY <1>1, <2>3, <2>6, <3>2
  <2>16. SearchInv(source, lines, query, next)
    BY <1>1, <2>6, <2>7, <2>10, <2>13, <2>14, <2>15 DEF SearchInv
  <2>17. Len(next.hits) = m + 1
    BY <2>7, <2>10
  <2> HIDE DEF next
  <2>18. QED
    BY <1>3, <2>16, <2>17 DEF next
<1>4. QED
  BY <1>2, <1>3

\* The search ends with every match before the limit.
LEMMA SearchEnds ==
    ASSUME NEW source \in Seq(STRING), NEW lines, Table(source, lines, Len(source)),
           NEW query \in Seq(STRING), query # <<>>, NEW maxHits \in Nat
    PROVE  LET search == searchAfter(source, lines, query, maxHits)[maxHits]
           IN  /\ SearchInv(source, lines, query, search)
               /\ Len(search.hits) <= maxHits
               /\ Len(search.hits) < maxHits => MatchesFrom(source, query, search.offset) = {}
<1> DEFINE f == searchAfter(source, lines, query, maxHits)
           Done(k) == /\ SearchInv(source, lines, query, f[k])
                      /\ Len(f[k].hits) <= k
                      /\ Len(f[k].hits) < k => MatchesFrom(source, query, f[k].offset) = {}
           T == {k \in Nat : k <= maxHits => Done(k)}
<1>1. f[0] = SearchStart /\ \A k \in 1..maxHits : f[k] = searchStep(source, lines, query, f[k - 1])
  BY SearchIs, Zenon
<1> HIDE DEF f
<1>2. 0 \in T
  <2>1. /\ SearchStart \in [hits : Seq(Hits), offset : Nat, lineIndex : Nat]
        /\ SearchStart.hits = <<>> /\ Len(<<>>) = 0 /\ SearchStart.offset = 0
        /\ SearchStart.lineIndex = 0
    BY DEF SearchStart
  <2>2. From(<<>>, query, 0 + 1) = 0
    BY DEF From
  <2>3. ASSUME Len(source) # 0 PROVE 0 < Len(lines) /\ lines[0 + 1].byteStart <= 0
    <3>1. Len(lines) \in Nat /\ Len(lines) # 0
      BY <2>3 DEF Table
    <3>2. 1 \in 1..Len(lines)
      BY <3>1
    <3>3. lines[1].byteStart = 0
      BY <3>2, LineTyped
    <3>4. QED
      BY <3>1, <3>3
  <2>4. SearchInv(source, lines, query, SearchStart)
    BY <2>1, <2>2, <2>3 DEF SearchInv
  <2>5. QED
    BY <1>1, <2>1, <2>4
<1>3. ASSUME NEW k \in Nat, k \in T PROVE k + 1 \in T
  <2>1. SUFFICES ASSUME k + 1 <= maxHits PROVE Done(k + 1)
    OBVIOUS
  <2>2. k + 1 \in 1..maxHits /\ k <= maxHits /\ (k + 1) - 1 = k
    BY <2>1
  <2>3. Done(k)
    BY <1>3, <2>2
  <2>4. f[k + 1] = searchStep(source, lines, query, f[k])
    BY <1>1, <2>2
  <2>5. /\ SearchInv(source, lines, query, f[k + 1])
        /\ IF MatchesFrom(source, query, f[k].offset) = {} THEN f[k + 1] = f[k]
           ELSE Len(f[k + 1].hits) = Len(f[k].hits) + 1
    <3> DEFINE next == searchStep(source, lines, query, f[k])
    <3>1. /\ SearchInv(source, lines, query, next)
          /\ IF MatchesFrom(source, query, f[k].offset) = {} THEN next = f[k]
             ELSE Len(next.hits) = Len(f[k].hits) + 1
      BY <2>3, SearchStepKeeps, Zenon
    <3> HIDE DEF next
    <3>2. QED
      BY <2>4, <3>1 DEF next
  <2>6. Len(f[k].hits) \in Nat /\ Len(f[k + 1].hits) \in Nat
    BY <2>3, <2>5 DEF SearchInv
  <2>7. CASE MatchesFrom(source, query, f[k].offset) = {}
    BY <2>3, <2>5, <2>6, <2>7
  <2>8. CASE MatchesFrom(source, query, f[k].offset) # {}
    BY <2>3, <2>5, <2>6, <2>8
  <2>9. QED
    BY <2>7, <2>8
<1> HIDE DEF T
<1>4. maxHits \in T
  BY <1>2, <1>3, SetInduction
<1>5. Done(maxHits)
  BY <1>4 DEF T
<1>6. QED
  BY <1>5 DEF f

\* What HitsAreLeftmost says of the hits of a successful answer.
HitsTrue(a) ==
    LET n == Len(a.hits)
        from(k) == IF k = 1 THEN 0 ELSE a.hits[k - 1].offset + Len(request.query)
        matches == {o \in 0..(Len(artifact.source) - Len(request.query)) :
                      Slice(artifact.source, o, Len(request.query)) = request.query}
    IN  /\ \A k \in 1..n :
             /\ a.hits[k].offset \in matches
             /\ \A o \in matches : o < from(k) \/ o >= a.hits[k].offset
             /\ a.hits[k].offset >= from(k)
             /\ a.hits[k].lineNumber = LineOf(artifact.source, a.hits[k].offset + 1)
        /\ n < request.maxHits => \A o \in matches : o < from(n + 1)

\* artifact_search_exact returns the hits of the loop.
LEMMA SearchIsLoop ==
    ASSUME artifact \in Artifacts, NEW r, Sound(r), NEW bytes \in Seq(STRING), NEW index,
           request.tool = "artifact_search_exact",
           artifactSearchExact(r, bytes, index).class = "success"
    PROVE  /\ verifyArtifactSourceManifest(bytes, r) /\ index.error = "none"
           /\ artifactSearchExact(r, bytes, index).hits
                = exactHits(bytes, index.lines, request.query, request.maxHits)
<1> DEFINE last == r.chunkCount - 1
           c == Candidate(r, <<>>, 0, r.byteLength, 0, last)
           hits == exactHits(bytes, index.lines, request.query, request.maxHits)
           e == [c EXCEPT !.digest = rawDigest(bytes), !.hits = hits]
<1>1. verifyArtifactSourceManifest(bytes, r) /\ index.error = "none"
  BY DeniedIs, IndexErrorDenied DEF artifactSearchExact
<1>2. artifactSearchExact(r, bytes, index) = Validated(e, r)
  BY <1>1, DeniedIs, IndexErrorDenied DEF artifactSearchExact
<1>3. artifactSearchExact(r, bytes, index) = e
  BY <1>2, ValidatedIs
<1>4. e.hits = hits
  BY DEF Candidate, Empty
<1>5. QED
  BY <1>1, <1>3, <1>4

\* So they are the leftmost ones.
LEMMA SearchTrue ==
    ASSUME artifact \in Artifacts, request \in Requests(artifact.source), NEW r, Sound(r),
           NEW bytes \in Seq(STRING), NEW index, index = buildArtifactTextIndex(bytes, r.mediaType),
           request.tool = "artifact_search_exact",
           artifactSearchExact(r, bytes, index).class = "success"
    PROVE  HitsTrue(artifactSearchExact(r, bytes, index))
<1> DEFINE source == artifact.source
           a == artifactSearchExact(r, bytes, index)
           query == request.query
           maxHits == request.maxHits
           lines == index.lines
           search == searchAfter(source, lines, query, maxHits)[maxHits]
           hits == search.hits
           m == Len(hits)
<1>1. /\ verifyArtifactSourceManifest(bytes, r) /\ index.error = "none"
      /\ a.hits = exactHits(bytes, lines, query, maxHits)
  BY SearchIsLoop
<1>2. bytes = source /\ Table(source, lines, Len(source))
  BY <1>1, SourceTable
<1>3. source \in Seq(STRING) /\ query \in Seq(STRING) /\ query # <<>> /\ maxHits \in Nat
  BY SourceTyped, ContentShape
<1>4. a.hits = hits
  BY <1>1, <1>2 DEF exactHits
<1>5. /\ SearchInv(source, lines, query, search) /\ m <= maxHits
      /\ m < maxHits => MatchesFrom(source, query, search.offset) = {}
  BY <1>2, <1>3, SearchEnds, Zenon
<1> HIDE DEF a, search, source, query, maxHits, lines
<1>6. ASSUME NEW k \in 1..m PROVE HitInv(source, query, hits, k)
  BY <1>5 DEF SearchInv
<1>7. ASSUME m < maxHits, NEW o \in MatchesIn(source, query) PROVE o < From(hits, query, m + 1)
  <2>1. search.offset = From(hits, query, m + 1) /\ search.offset \in Nat
    BY <1>5 DEF SearchInv
  <2>2. o \in 0..(Len(source) - Len(query)) /\ Slice(source, o, Len(query)) = query
    BY DEF MatchesIn
  <2>3. Len(source) \in Nat /\ Len(query) \in Nat
    BY <1>3
  <2>4. o \notin MatchesFrom(source, query, search.offset)
    BY <1>5, <1>7
  <2>5. o < search.offset
    BY <2>1, <2>2, <2>3, <2>4 DEF MatchesFrom
  <2>6. QED
    BY <2>1, <2>5
<1>8. /\ \A k \in 1..m :
           /\ hits[k].offset \in MatchesIn(source, query)
           /\ \A o \in MatchesIn(source, query) : o < From(hits, query, k) \/ o >= hits[k].offset
           /\ hits[k].offset >= From(hits, query, k)
           /\ hits[k].lineNumber = LineOf(source, hits[k].offset + 1)
      /\ m < maxHits => \A o \in MatchesIn(source, query) : o < From(hits, query, m + 1)
  BY <1>6, <1>7 DEF HitInv
<1> HIDE DEF hits
<1>9. HitsTrue(a)
  BY <1>4, <1>8, Zenon DEF HitsTrue, MatchesIn, From, source, query, maxHits
<1>10. QED
  BY <1>9 DEF a, source, query, maxHits, lines

\* artifact_search_exact returns the matches from left to right without overlap, each with the
\* number of its line, and leaves none out before the limit.
THEOREM HitsAsRead == Spec => []HitsAreLeftmost
<1>1. Init => HitsAreLeftmost
  BY DEF Init, Empty, HitsAreLeftmost, Succeeded
<1>2. IInv /\ HitsAreLeftmost /\ [Next]_vars => HitsAreLeftmost'
  <2> SUFFICES ASSUME IInv, HitsAreLeftmost, [Next]_vars, Succeeded("artifact_search_exact")'
               PROVE  HitsTrue(answer)'
    BY DEF HitsAreLeftmost, HitsTrue
  <2>1. artifact' = artifact /\ request' = request
    BY AnswerStep
  <2>2. request.tool = "artifact_search_exact" /\ answer'.class = "success"
    BY <2>1 DEF Succeeded
  <2>3. CASE answer' = answer
    <3>1. HitsTrue(answer)
      BY <2>2, <2>3 DEF HitsAreLeftmost, HitsTrue, Succeeded
    <3>2. QED
      BY <2>1, <2>3, <3>1 DEF HitsTrue
  <2>4. CASE phase = "fetched" /\ answer' = Conclusion
    <3> DEFINE index == buildArtifactTextIndex(fetched.bytes, record.mediaType)
    <3>1. /\ Conclusion = WithIndex(record, fetched.bytes, index)
          /\ fetched.bytes \in Seq(STRING) /\ Sound(record) /\ artifact \in Artifacts
          /\ request \in Requests(artifact.source)
      BY <2>2, <2>4, ConclusionIs
    <3>2. answer' = artifactSearchExact(record, fetched.bytes, index)
      BY <2>2, <2>4, <3>1 DEF WithIndex
    <3>3. HitsTrue(answer')
      BY <2>2, <3>1, <3>2, SearchTrue
    <3>4. QED
      BY <2>1, <3>3 DEF HitsTrue
  <2>5. QED
    BY <2>2, <2>3, <2>4, AnswerStep
<1>3. QED
  BY <1>1, <1>2, Inductive, PTL DEF Spec

-----------------------------------------------------------------------------
(***************************************************************************)
(* Headings.                                                               *)
(***************************************************************************)

\* No bytes decode to no text.
LEMMA DecodeNothing == decode(<<>>) = <<>>
<1> DEFINE Is(g) == g = [k \in 0..Len(<<>>) |->
                           IF k = 0 THEN <<>>
                           ELSE IF <<>>[k] = "A9" THEN g[k - 1]
                           ELSE Append(g[k - 1], <<>>[k])]
           f == CHOOSE g : Is(g)
<1>1. Len(<<>>) = 0
  OBVIOUS
<1>2. \E g : Is(g)
  <2> DEFINE h == [k \in 0..0 |-> <<>>]
  <2>1. h = [k \in 0..0 |-> IF k = 0 THEN <<>>
                            ELSE IF <<>>[k] = "A9" THEN h[k - 1]
                            ELSE Append(h[k - 1], <<>>[k])]
    OBVIOUS
  <2>2. Is(h)
    BY <1>1, <2>1
  <2>3. QED
    BY <2>2
<1>3. Is(f)
  BY <1>2, Zenon
<1>4. decode(<<>>) = f[Len(<<>>)]
  BY DEF decode
<1> HIDE DEF f
<1>5. f[0] = <<>>
  BY <1>1, <1>3
<1>6. QED
  BY <1>1, <1>4, <1>5

\* There is no heading in no text.
LEMMA NoHeadingInNothing == parseAtxHeading(<<>>) = NoHeading
<1>1. Len(<<>>) = 0
  OBVIOUS
<1>2. {j \in 1..Len(<<>>) : <<>>[j] # " "} = {}
  BY <1>1
<1>3. countLeadingSpaces(<<>>) = 0
  BY <1>1, <1>2 DEF countLeadingSpaces, RunLength
<1>4. MarkerAt(<<>>, {"#"}) = 0
  BY <1>1, <1>3 DEF MarkerAt
<1>5. ~(MarkerAt(<<>>, {"#"}) > 0)
  BY <1>4
<1>6. QED
  BY <1>5, Zenon DEF parseAtxHeading

\* How the scan for headings may end.
ScanErrors == {"none", "RESPONSE_LIMIT_EXCEEDED", "TOO_MANY_HEADINGS"}

\* A heading is the content of a line, and not empty.
HeadingInv(lines, heading) ==
    \E j \in 1..Len(lines) :
        /\ heading.byteStart = lines[j].byteStart
        /\ heading.byteLength = lines[j].contentByteLength
        /\ lines[j].contentByteLength # 0

\* The state of the scan for headings.
HeadingsInv(lines, scan) ==
    /\ scan = [fence |-> scan.fence, headings |-> scan.headings, error |-> scan.error]
    /\ scan.error \in ScanErrors
    /\ \E S : scan.headings \in Seq(S)
    /\ \A k \in 1..Len(scan.headings) : HeadingInv(lines, scan.headings[k])

\* A line adds at most itself.
LEMMA HeadingStepKeeps ==
    ASSUME NEW source \in Seq(STRING), NEW lines, lines \in Seq(LineRecords), NEW scan,
           HeadingsInv(lines, scan), NEW j \in 1..Len(lines)
    PROVE  HeadingsInv(lines, headingStep(source, scan, lines[j]))
<1> DEFINE line == lines[j]
           next == headingStep(source, scan, line)
           text == LineText(source, line)
           heading == parseAtxHeading(text)
           id == nextHeadingId(headingSlug(heading.rawText),
                               {scan.headings[k].headingId : k \in DOMAIN scan.headings})
           new == [headingId |-> id, level |-> heading.level,
                   lineNumber |-> line.lineNumber, byteStart |-> line.byteStart,
                   byteLength |-> line.contentByteLength]
           longer == Append(scan.headings, new)
<1>1. \/ next = scan
      \/ next = [scan EXCEPT !.fence = fenceAfter(@, text)]
      \/ next = [scan EXCEPT !.error = "RESPONSE_LIMIT_EXCEEDED"]
      \/ next = [scan EXCEPT !.error = "TOO_MANY_HEADINGS"]
      \/ heading # NoHeading /\ next = [scan EXCEPT !.headings = longer]
  BY Zenon DEF headingStep
<1>2. /\ scan = [fence |-> scan.fence, headings |-> scan.headings, error |-> scan.error]
      /\ scan.error \in ScanErrors
      /\ \A k \in 1..Len(scan.headings) : HeadingInv(lines, scan.headings[k])
  BY DEF HeadingsInv
<1>3. PICK S : scan.headings \in Seq(S)
  BY DEF HeadingsInv
<1>4. new.byteStart = line.byteStart /\ new.byteLength = line.contentByteLength
  OBVIOUS
<1> HIDE DEF next, new, text
<1>6. ASSUME next.headings = scan.headings, next.error \in ScanErrors,
             next = [fence |-> next.fence, headings |-> next.headings, error |-> next.error]
      PROVE  HeadingsInv(lines, next)
  BY <1>2, <1>3, <1>6 DEF HeadingsInv
<1>7. ASSUME next = [scan EXCEPT !.fence = fenceAfter(@, text)]
      PROVE  HeadingsInv(lines, next)
  <2> DEFINE fence == fenceAfter(scan.fence, text)
  <2> HIDE DEF fence
  <2>1. next = [scan EXCEPT !.fence = fence]
    BY <1>7 DEF fence
  <2>2. next = [fence |-> fence, headings |-> scan.headings, error |-> scan.error]
    BY <1>2, <2>1
  <2>3. next.headings = scan.headings /\ next.error = scan.error /\ next.fence = fence
    BY <2>2
  <2>4. next = [fence |-> next.fence, headings |-> next.headings, error |-> next.error]
    BY <2>2, <2>3
  <2>5. QED
    BY <1>2, <1>6, <2>3, <2>4
<1>8. ASSUME NEW error \in ScanErrors, next = [scan EXCEPT !.error = error]
      PROVE  HeadingsInv(lines, next)
  <2>1. next = [fence |-> scan.fence, headings |-> scan.headings, error |-> error]
    BY <1>2, <1>8
  <2>2. next.headings = scan.headings /\ next.error = error /\ next.fence = scan.fence
    BY <2>1
  <2>3. next = [fence |-> next.fence, headings |-> next.headings, error |-> next.error]
    BY <2>1, <2>2
  <2>4. QED
    BY <1>6, <1>8, <2>2, <2>3
<1>9. ASSUME heading # NoHeading, next = [scan EXCEPT !.headings = longer]
      PROVE  HeadingsInv(lines, next)
  <2>1. line.contentByteLength # 0
    <3>1. SUFFICES ASSUME line.contentByteLength = 0 PROVE FALSE
      OBVIOUS
    <3>2. line.byteStart \in Nat
      <4>1. line \in LineRecords
        OBVIOUS
      <4>2. QED
        BY <4>1 DEF LineRecords
    <3>3. Slice(source, line.byteStart, 0) = <<>>
      BY <3>2 DEF Slice
    <3>4. text = <<>>
      BY <3>1, <3>3, DecodeNothing DEF LineText, text
    <3>5. QED
      BY <1>9, <3>4, NoHeadingInNothing
  <2> DEFINE m == Len(scan.headings)
  <2> HIDE DEF heading, line
  <2>2. /\ longer \in Seq(S \cup {new}) /\ m \in Nat /\ Len(longer) = m + 1 /\ longer[m + 1] = new
        /\ \A k \in 1..m : longer[k] = scan.headings[k]
    <3>1. scan.headings \in Seq(S \cup {new})
      BY <1>3
    <3>2. QED
      BY <3>1
  <2> HIDE DEF longer
  <2>3. next = [fence |-> scan.fence, headings |-> longer, error |-> scan.error]
    BY <1>2, <1>9
  <2>4. HeadingInv(lines, new)
    BY <1>4, <2>1 DEF HeadingInv, line
  <2>5. ASSUME NEW k \in 1..(m + 1) PROVE HeadingInv(lines, longer[k])
    <3>1. k \in 1..m \/ k = m + 1
      BY <2>2
    <3>2. QED
      BY <1>2, <2>2, <2>4, <3>1
  <2>6. next.headings = longer /\ next.error = scan.error /\ next.fence = scan.fence
    BY <2>3
  <2>7. next = [fence |-> next.fence, headings |-> next.headings, error |-> next.error]
    BY <2>3, <2>6
  <2>8. \E U : next.headings \in Seq(U)
    BY <2>2, <2>6
  <2>9. \A k \in 1..Len(next.headings) : HeadingInv(lines, next.headings[k])
    BY <2>2, <2>5, <2>6
  <2>10. next.error \in ScanErrors
    BY <1>2, <2>6
  <2>11. QED
    BY <2>7, <2>8, <2>9, <2>10 DEF HeadingsInv
<1>10. HeadingsInv(lines, next)
  <2>1. "RESPONSE_LIMIT_EXCEEDED" \in ScanErrors /\ "TOO_MANY_HEADINGS" \in ScanErrors
    BY DEF ScanErrors
  <2>2. next = scan => HeadingsInv(lines, next)
    BY Zenon
  <2>3. QED
    <3>1. next = [scan EXCEPT !.error = "RESPONSE_LIMIT_EXCEEDED"] => HeadingsInv(lines, next)
      BY <1>8, <2>1
    <3>2. next = [scan EXCEPT !.error = "TOO_MANY_HEADINGS"] => HeadingsInv(lines, next)
      BY <1>8, <2>1
    <3>3. QED
      BY <1>1, <1>7, <1>9, <2>2, <3>1, <3>2, Zenon DEF next
<1>11. QED
  BY <1>10 DEF next

\* What is scanned are contents of lines, and the errors are those of two bounds.
LEMMA ScannedHeadings ==
    ASSUME NEW source \in Seq(STRING), NEW lines, lines \in Seq(LineRecords)
    PROVE  HeadingsInv(lines, scanHeadings(source, lines))
<1> DEFINE f == headingsAfter(source, lines)
           n == Len(lines)
           T == {k \in Nat : k <= n => HeadingsInv(lines, f[k])}
<1>1. n \in Nat
  OBVIOUS
<1>2. f[0] = HeadingsStart /\ \A k \in 1..n : f[k] = headingStep(source, f[k - 1], lines[k])
  BY <1>1, HeadingsIs, Zenon
<1> HIDE DEF f
<1>3. 0 \in T
  <2>1. /\ HeadingsStart = [fence |-> HeadingsStart.fence, headings |-> HeadingsStart.headings,
                            error |-> HeadingsStart.error]
        /\ HeadingsStart.error = "none" /\ HeadingsStart.headings = <<>>
    BY DEF HeadingsStart
  <2>2. <<>> \in Seq({}) /\ Len(<<>>) = 0 /\ 1..0 = {}
    OBVIOUS
  <2>3. HeadingsInv(lines, HeadingsStart)
    BY <2>1, <2>2 DEF HeadingsInv, ScanErrors
  <2>4. QED
    BY <1>2, <2>3
<1>4. ASSUME NEW k \in Nat, k \in T PROVE k + 1 \in T
  <2>1. SUFFICES ASSUME k + 1 <= n PROVE HeadingsInv(lines, f[k + 1])
    OBVIOUS
  <2>2. k + 1 \in 1..n /\ k <= n /\ (k + 1) - 1 = k
    BY <1>1, <2>1
  <2>3. HeadingsInv(lines, f[k])
    BY <1>4, <2>2
  <2>4. f[k + 1] = headingStep(source, f[k], lines[k + 1])
    BY <1>2, <2>2
  <2>5. QED
    BY <2>2, <2>3, <2>4, HeadingStepKeeps
<1> HIDE DEF T
<1>5. n \in T
  BY <1>1, <1>3, <1>4, SetInduction
<1>6. HeadingsInv(lines, f[n])
  BY <1>1, <1>5 DEF T
<1>7. QED
  BY <1>6 DEF f, scanHeadings

-----------------------------------------------------------------------------
(***************************************************************************)
(* What the artifact's own record gives, and the candidates of the tools.  *)
(***************************************************************************)
\* The numbers of a chunk of a sound record.
LEMMA ChunkFits ==
    ASSUME artifact \in Artifacts, NEW r, Sound(r), NEW i \in 0..(r.chunkCount - 1)
    PROVE  /\ chunkAt(r, i).chunkIndex = i
           /\ chunkAt(r, i).byteStart = i * artifact.chunkSize
           /\ chunkAt(r, i).byteLength \in 1..artifact.chunkSize
           /\ i # r.chunkCount - 1 => chunkAt(r, i).byteLength = artifact.chunkSize
           /\ chunkAt(r, i).byteStart + chunkAt(r, i).byteLength
                = least((i + 1) * artifact.chunkSize, Len(artifact.source))
<1> DEFINE n == Len(artifact.source)
           d == artifact.chunkSize
           count == chunkCountOf(n, d)
           c == chunkAt(r, i)
<1>1. n \in Nat /\ d \in Nat \ {0}
  BY SourceTyped
<1>2. count \in Nat /\ count * d < n + d
  BY <1>1, CountIs
<1>3. r.chunkSize = d /\ r.chunkCount = count
  BY DEF Sound
<1>4. c.chunkIndex = i /\ (i # r.chunkCount - 1 => c.byteLength = d)
  BY <1>3 DEF chunkAt
<1>5. i * d \in Nat /\ c.byteStart = i * d /\ c.byteLength = least(d, n - i * d)
  BY ChunkLies
<1> HIDE DEF n, d, count, c
<1>6. i \in Int /\ i < count /\ count \in Int
  BY <1>2, <1>3
<1>7. i * d + d <= count * d
  BY <1>1, <1>6, Multiples
<1>8. count * d \in Int
  BY <1>1, <1>2
<1>9. n - i * d >= 1
  BY <1>1, <1>2, <1>5, <1>7, <1>8
<1>10. c.byteLength \in 1..d
  BY <1>1, <1>5, <1>9 DEF least
<1>11. (i + 1) * d = i * d + d
  BY <1>1, <1>6
<1>12. c.byteStart + c.byteLength = least(i * d + d, n)
  BY <1>1, <1>5 DEF least
<1>13. QED
  BY <1>4, <1>5, <1>10, <1>11, <1>12 DEF c, d, n

\* A candidate whose chunks follow one another and hold its range, which for artifact_read_range
\* is the one asked for.
WellPlaced(r, c) ==
    /\ c.first \in Nat /\ c.last \in Nat /\ c.first <= c.last /\ c.last < r.chunkCount
    /\ c.last - c.first + 1 <= MAX_VERIFIED_CHUNKS_PER_READ
    /\ c.offset \in Nat /\ c.length \in 0..MAX_RANGE_BYTES
    /\ c.first * artifact.chunkSize <= c.offset
    /\ c.offset + c.length <= least((c.last + 1) * artifact.chunkSize, Len(artifact.source))
    /\ c.chunks = [k \in 1..(c.last - c.first + 1) |-> chunkAt(r, c.first + k - 1)]
    /\ request.tool = "artifact_read_range" =>
         request.offset = c.offset /\ request.length = c.length

\* Its schema accepts it.
LEMMA CandidateFits ==
    ASSUME artifact \in Artifacts, NEW r, Sound(r), NEW c, WellPlaced(r, c)
    PROVE  PartialReadIntegritySchema(c, r)
<1> DEFINE first == c.first
           last == c.last
           offset == c.offset
           length == c.length
<1>0. /\ first \in Nat /\ last \in Nat /\ first <= last /\ last < r.chunkCount
      /\ last - first + 1 <= MAX_VERIFIED_CHUNKS_PER_READ
      /\ offset \in Nat /\ length \in 0..MAX_RANGE_BYTES
      /\ first * artifact.chunkSize <= offset
      /\ offset + length <= least((last + 1) * artifact.chunkSize, Len(artifact.source))
      /\ c.first = first /\ c.last = last /\ c.offset = offset /\ c.length = length
      /\ c.chunks = [k \in 1..(last - first + 1) |-> chunkAt(r, first + k - 1)]
      /\ request.tool = "artifact_read_range" =>
           request.offset = offset /\ request.length = length
  BY DEF WellPlaced
<1> HIDE DEF first, last, offset, length
<1> USE <1>0
<1> DEFINE n == Len(artifact.source)
           d == artifact.chunkSize
           count == r.chunkCount
           m == last - first + 1
           head == c.chunks[1]
           final == c.chunks[m]
<1>1. n \in Nat /\ d \in Nat \ {0} /\ r.chunkSize = d /\ count \in Nat
  BY SourceTyped, CountIs DEF Sound
<1>2. MAX_VERIFIED_CHUNKS_PER_READ \in Nat /\ MAX_RANGE_BYTES \in Nat
  BY ContentBounds
<1>3. Len(c.chunks) = m /\ m \in 1..MAX_VERIFIED_CHUNKS_PER_READ
  BY <1>2
<1>4. ASSUME NEW k \in 1..m
      PROVE  /\ c.chunks[k] = chunkAt(r, first + k - 1)
             /\ first + k - 1 \in 0..(count - 1)
  <2>1. last < count /\ m = last - first + 1
    BY <1>0
  <2> HIDE DEF count, m
  <2>2. first + k - 1 \in 0..(count - 1)
    BY <1>0, <1>1, <1>3, <2>1
  <2>3. c.chunks = [j \in 1..m |-> chunkAt(r, first + j - 1)]
    BY <1>0, <2>1, Zenon
  <2>4. QED
    BY <2>2, <2>3, Zenon
<1> HIDE DEF n, d, count, m
<1>5. ASSUME NEW k \in 1..m
      PROVE  /\ c.chunks[k].chunkIndex = first + k - 1
             /\ c.chunks[k].byteStart = (first + k - 1) * d
             /\ c.chunks[k].byteLength \in 1..d
             /\ first + k - 1 # count - 1 => c.chunks[k].byteLength = d
             /\ c.chunks[k].byteStart + c.chunks[k].byteLength = least((first + k) * d, n)
             /\ first + k - 1 < count
  <2> DEFINE i == first + k - 1
  <2>1. c.chunks[k] = chunkAt(r, i) /\ i \in 0..(r.chunkCount - 1)
    BY <1>4 DEF count
  <2>2. i + 1 = first + k /\ i < count
    <3>1. first \in Int /\ k \in Int
      BY <1>0, <1>1
    <3>2. i \in 0..(count - 1)
      BY <2>1 DEF count
    <3> HIDE <1>0
    <3>3. i + 1 = first + k
      BY <3>1
    <3> HIDE DEF i
    <3>4. QED
      BY <1>1, <3>2, <3>3
  <2> HIDE DEF i
  <2>3. /\ chunkAt(r, i).chunkIndex = i
        /\ chunkAt(r, i).byteStart = i * artifact.chunkSize
        /\ chunkAt(r, i).byteLength \in 1..artifact.chunkSize
        /\ i # r.chunkCount - 1 => chunkAt(r, i).byteLength = artifact.chunkSize
        /\ chunkAt(r, i).byteStart + chunkAt(r, i).byteLength
             = least((i + 1) * artifact.chunkSize, Len(artifact.source))
    BY <2>1, ChunkFits, Zenon
  <2>4. /\ c.chunks[k].chunkIndex = i
        /\ c.chunks[k].byteStart = i * d
        /\ c.chunks[k].byteLength \in 1..d
        /\ i # count - 1 => c.chunks[k].byteLength = d
        /\ c.chunks[k].byteStart + c.chunks[k].byteLength = least((first + k) * d, n)
        /\ i < count
    BY <2>1, <2>2, <2>3, Zenon DEF d, n, count
  <2>5. QED
    BY <2>4, Zenon DEF i
<1>6. ASSUME NEW k \in 1..m
      PROVE  /\ c.chunks[k].chunkIndex < count
             /\ c.chunks[k].byteLength >= 1
             /\ IF c.chunks[k].chunkIndex = count - 1
                THEN c.chunks[k].byteLength <= d ELSE c.chunks[k].byteLength = d
  <2>1. /\ c.chunks[k].chunkIndex = first + k - 1
        /\ c.chunks[k].byteLength \in 1..d
        /\ first + k - 1 # count - 1 => c.chunks[k].byteLength = d
        /\ first + k - 1 < count
    BY <1>5
  <2>2. m \in Nat /\ k \in Int
    BY <1>3
  <2>3. first + k - 1 \in Int
    BY <2>2
  <2> DEFINE i == c.chunks[k].chunkIndex
             b == c.chunks[k].byteLength
  <2>4. i \in Int /\ i < count /\ b \in 1..d /\ (i # count - 1 => b = d)
    BY <2>1, <2>3
  <2> HIDE DEF i, b
  <2>5. b >= 1 /\ IF i = count - 1 THEN b <= d ELSE b = d
    BY <1>1, <2>4
  <2>6. QED
    BY <2>4, <2>5 DEF i, b
<1>7. ASSUME NEW k \in 2..m
      PROVE  /\ c.chunks[k].chunkIndex = c.chunks[k - 1].chunkIndex + 1
             /\ c.chunks[k].byteStart = c.chunks[k - 1].byteStart + c.chunks[k - 1].byteLength
  <2> DEFINE j == k - 1
  <2>1. m \in Nat
    BY <1>3
  <2>2. k \in 1..m /\ j \in 1..m /\ k \in Int
    BY <2>1
  <2>3. c.chunks[k].chunkIndex = first + k - 1 /\ c.chunks[k].byteStart = (first + k - 1) * d
        /\ first + k - 1 < count
    BY <1>5, <2>2
  <2>4. /\ c.chunks[j].chunkIndex = first + j - 1
        /\ c.chunks[j].byteStart = (first + j - 1) * d
        /\ first + j - 1 # count - 1 => c.chunks[j].byteLength = d
    BY <1>5, <2>2
  <2>5. first + j - 1 # count - 1 /\ (first + k - 1) = (first + j - 1) + 1
    <3>1. count \in Int /\ k \in Int /\ first \in Int /\ first + k - 1 < count
      BY <1>1, <2>2, <2>3
    <3>2. QED
      BY <3>1
  <2> DEFINE q == first + j - 1
  <2>6. q \in Int /\ first + k - 1 = q + 1
    BY <2>2, <2>5
  <2> HIDE DEF q
  <2>7. (q + 1) * d = q * d + d
    BY <1>1, <2>6
  <2>8. c.chunks[j].chunkIndex = q /\ c.chunks[j].byteStart = q * d /\ c.chunks[j].byteLength = d
    BY <2>4, <2>5 DEF q
  <2>9. c.chunks[k].chunkIndex = q + 1 /\ c.chunks[k].byteStart = (q + 1) * d
    BY <2>3, <2>6
  <2>10. c.chunks[k].chunkIndex = c.chunks[j].chunkIndex + 1
    BY <2>8, <2>9
  <2>11. c.chunks[k].byteStart = c.chunks[j].byteStart + c.chunks[j].byteLength
    BY <2>7, <2>8, <2>9
  <2>12. QED
    BY <2>10, <2>11
<1>8. /\ head.chunkIndex = first /\ head.byteStart = first * d
      /\ final.chunkIndex = last
      /\ final.byteStart + final.byteLength = least((last + 1) * d, n)
  <2>1. 1 \in 1..m /\ m \in 1..m /\ first + 1 - 1 = first /\ first + m - 1 = last
        /\ first + m = last + 1
    BY <1>3 DEF m
  <2> HIDE DEF head, final
  <2>2. head.chunkIndex = first + 1 - 1 /\ head.byteStart = (first + 1 - 1) * d
    BY <1>5, <2>1 DEF head
  <2>3. /\ final.chunkIndex = first + m - 1
        /\ final.byteStart + final.byteLength = least((first + m) * d, n)
    BY <1>5, <2>1 DEF final
  <2>4. QED
    BY <2>1, <2>2, <2>3
<1>9. /\ c.offset >= head.byteStart
      /\ c.offset + c.length <= final.byteStart + final.byteLength
  <2> HIDE DEF head, final
  <2>1. first * d <= offset /\ offset + length <= least((last + 1) * d, n)
    BY DEF d, n
  <2>2. QED
    BY <1>1, <1>8, <2>1
<1>10. request.tool = "artifact_read_range" =>
         request.offset >= head.byteStart
         /\ request.offset + request.length <= final.byteStart + final.byteLength
  <2> HIDE DEF head, final
  <2>1. QED
    BY <1>9
<1>11. r.chunkCount > 0 /\ c.first <= c.last /\ c.offset \in Nat /\ c.length \in 0..MAX_RANGE_BYTES
  BY <1>1 DEF count
<1> HIDE DEF head, final
<1>12. c.chunks[Len(c.chunks)] = final /\ c.chunks[1] = head
  BY <1>3 DEF head, final
<1>13. QED
  BY <1>1, <1>3, <1>6, <1>7, <1>8, <1>9, <1>10, <1>11, <1>12, Zenon
  DEF PartialReadIntegritySchema, count

\* The chunks of a range inside the source.
LEMMA RangeCovered ==
    ASSUME artifact \in Artifacts, NEW r, Sound(r),
           NEW offset \in Nat, NEW length \in Nat \ {0}, offset + length <= Len(artifact.source),
           NEW first, first = floorDiv(offset, r.chunkSize),
           NEW last, last = floorDiv(offset + length - 1, r.chunkSize)
    PROVE  /\ first \in Nat /\ last \in Nat /\ first <= last /\ last < r.chunkCount
           /\ first * artifact.chunkSize <= offset
           /\ offset + length <= least((last + 1) * artifact.chunkSize, Len(artifact.source))
<1> DEFINE n == Len(artifact.source)
           d == artifact.chunkSize
           end == offset + length - 1
           count == chunkCountOf(n, d)
<1>1. n \in Nat /\ d \in Nat \ {0} /\ r.chunkSize = d /\ r.chunkCount = count
  BY SourceTyped DEF Sound
<1>2. count \in Nat
  BY <1>1, CountIs
<1>3. first = offset \div d /\ last = end \div d
  BY <1>1 DEF floorDiv
<1>4. end \in Nat /\ offset <= end /\ end < n /\ offset < n /\ offset + length = end + 1
  BY <1>1
<1> HIDE DEF n, d, end, count
<1>5. first \in 0..(count - 1) /\ last \in 0..(count - 1)
  BY <1>1, <1>3, <1>4, InsideSource, Zenon DEF count
<1>6. first <= last
  <2>1. offset \in Int /\ end \in Int
    BY <1>4
  <2>2. offset \div d <= end \div d
    BY <1>1, <1>4, <2>1, QuotientMonotone, Zenon
  <2>3. QED
    BY <1>3, <2>2
<1>7. first * d <= offset /\ end < last * d + d
  <2>1. offset \in Int /\ end \in Int
    BY <1>4
  <2>2. (offset \div d) * d <= offset
    BY <1>1, <2>1, Quotient, Zenon
  <2>3. end < (end \div d) * d + d
    BY <1>1, <2>1, Quotient, Zenon
  <2>4. QED
    BY <1>3, <2>2, <2>3
<1>8. first \in Nat /\ last \in Nat /\ last < count
  BY <1>2, <1>5
<1>9. (last + 1) * d = last * d + d /\ last * d \in Int
  BY <1>1, <1>8
<1>10. offset + length <= least((last + 1) * d, n)
  BY <1>1, <1>4, <1>7, <1>9 DEF least
<1>11. QED
  BY <1>1, <1>6, <1>7, <1>8, <1>10 DEF d, n

\* Validated turns nothing down that fits.
LEMMA ValidatedFits ==
    ASSUME NEW r, NEW c, PartialReadIntegritySchema(c, r),
           IF request.tool = "artifact_search_exact" THEN ArtifactSearchHitsSchema(c)
           ELSE bindReturnedDataToIntegrity(c)
    PROVE  Validated(c, r) = c
BY Zenon DEF Validated

\* The other fields of a candidate.
LEMMA CandidateHas ==
    ASSUME NEW r, NEW data, NEW offset, NEW length, NEW first, NEW last
    PROVE  /\ Candidate(r, data, offset, length, first, last).class = "success"
           /\ Candidate(r, data, offset, length, first, last).chunks
                = [k \in 1..(last - first + 1) |-> chunkAt(r, first + k - 1)]
           /\ Candidate(r, data, offset, length, first, last).digest = rawDigest(data)
BY DEF Candidate, Empty

\* The record of the artifact passes the checks of a record, unless it is over a ceiling.
LEMMA OwnRecord ==
    ASSUME artifact \in Artifacts, NEW r, r = RecordOf(artifact)
    PROVE  /\ WithinCeilings => MetadataValid(r)
           /\ ManifestConsistent(r) /\ Sound(r)
           /\ r.objectVersionRef = 1 /\ r.mediaType = artifact.mediaType
           /\ r.sourceSha256 = rawDigest(artifact.source)
           /\ Len(r.chunkSha256s) = r.chunkCount
<1> DEFINE count == chunkCountOf(Len(artifact.source), artifact.chunkSize)
<1>1. count \in Nat
  BY SourceTyped, CountIs
<1>2. artifact.chunkSize \in ALLOWED_CHUNK_SIZES
  BY ContentShape
<1>3. Len(r.chunkSha256s) = count /\ Len(r.merkleLeafSha256s) = count
  <2> HIDE DEF count
  <2>1. QED
    BY <1>1 DEF RecordOf, count
<1>4. r.chunkCount = count /\ r.chunkSize = artifact.chunkSize /\ r.byteLength = Len(artifact.source)
  BY DEF RecordOf
<1>5. WithinCeilings => MetadataValid(r)
  BY <1>2, <1>3, <1>4 DEF MetadataValid, WithinCeilings
<1>6. ManifestConsistent(r)
  BY DEF ManifestConsistent, RecordOf
<1>7. r.objectVersionRef = 1 /\ r.mediaType = artifact.mediaType
      /\ r.sourceSha256 = rawDigest(artifact.source)
  BY DEF RecordOf
<1>8. QED
  BY <1>3, <1>4, <1>5, <1>6, <1>7, RecordSound

\* Its chunks verify.
LEMMA OwnChunk ==
    ASSUME artifact \in Artifacts, NEW r, r = RecordOf(artifact), NEW i \in 0..(r.chunkCount - 1)
    PROVE  /\ chunkVerifies(r, i, Slice(artifact.source, chunkAt(r, i).byteStart,
                                        chunkAt(r, i).byteLength))
           /\ r.merkleLeafSha256s[i + 1] =
                merkleLeafDigest(Slice(artifact.source, chunkAt(r, i).byteStart,
                                       chunkAt(r, i).byteLength))
<1> DEFINE source == artifact.source
           n == Len(source)
           d == artifact.chunkSize
           count == chunkCountOf(n, d)
           size == least(d, n - i * d)
           part == Slice(source, i * d, size)
<1>1. Sound(r) /\ r.chunkCount = count
  BY RecordSound DEF Sound
<1>2. count \in Nat /\ source \in Seq(STRING)
  BY SourceTyped, CountIs
<1>3. i \in Nat /\ i + 1 \in 1..count /\ (i + 1) - 1 = i
  BY <1>1, <1>2
<1>4. i * d \in Nat /\ chunkAt(r, i).byteStart = i * d /\ chunkAt(r, i).byteLength = size
      /\ size \in Nat
  BY <1>1, ChunkLies
<1>5. r.chunkSha256s[i + 1] = rawDigest(part) /\ r.merkleLeafSha256s[i + 1] = merkleLeafDigest(part)
  BY <1>3 DEF RecordOf
<1>6. Len(part) = size
  <2>1. i * d \in Int
    BY <1>4
  <2> HIDE DEF size, d
  <2>2. QED
    BY <1>2, <1>4, <2>1, SliceIs
<1> HIDE DEF part, size
<1>7. QED
  BY <1>4, <1>5, <1>6 DEF chunkVerifies, part

\* Wherever the bytes begin, if they are the source's.
LEMMA OwnChunksIn ==
    ASSUME artifact \in Artifacts, NEW r, r = RecordOf(artifact), NEW bytes \in Seq(STRING),
           NEW origin \in Int, NEW i \in 0..(r.chunkCount - 1),
           \A k \in 1..chunkAt(r, i).byteLength :
             bytes[chunkAt(r, i).byteStart - origin + k] = artifact.source[chunkAt(r, i).byteStart + k]
    PROVE  /\ chunkVerifies(r, i, ChunkBytes(r, i, bytes, origin))
           /\ r.merkleLeafSha256s[i + 1] = merkleLeafDigest(ChunkBytes(r, i, bytes, origin))
<1> DEFINE start == chunkAt(r, i).byteStart
           length == chunkAt(r, i).byteLength
           source == artifact.source
<1>1. start \in Nat /\ length \in Nat
  BY RecordSound, ChunkLies
<1>2. source \in Seq(STRING)
  BY SourceTyped
<1>3. \A k \in 1..length : bytes[(start - origin) + k] = source[start + k]
  OBVIOUS
<1>4. start - origin \in Int /\ start \in Int
  BY <1>1
<1>5. ChunkBytes(r, i, bytes, origin) = Slice(bytes, start - origin, length)
  BY DEF ChunkBytes
<1>6. chunkVerifies(r, i, Slice(source, start, length))
      /\ r.merkleLeafSha256s[i + 1] = merkleLeafDigest(Slice(source, start, length))
  BY OwnChunk
<1> HIDE DEF start, length, source
<1> DEFINE from == start - origin
<1>7. from \in Int /\ \A k \in 1..length : bytes[from + k] = source[start + k]
  BY <1>3, <1>4
<1>8. ChunkBytes(r, i, bytes, origin) = Slice(bytes, from, length)
  BY <1>5
<1> HIDE DEF from
<1>9. Slice(bytes, from, length) = Slice(source, start, length)
  <2>1. Slice(bytes, from, length) = [k \in 1..length |-> bytes[from + k]]
    BY <1>1, <1>7, SliceIs
  <2>2. Slice(source, start, length) = [k \in 1..length |-> source[start + k]]
    BY <1>1, <1>2, <1>4, SliceIs
  <2>3. QED
    BY <1>7, <2>1, <2>2
<1>10. QED
  BY <1>6, <1>8, <1>9

\* The source verifies, as a whole and chunk by chunk.
LEMMA OwnSource ==
    ASSUME artifact \in Artifacts, NEW r, r = RecordOf(artifact)
    PROVE  /\ verifyArtifactSourceManifest(artifact.source, r)
           /\ \A first \in Nat, last \in Int :
                last < r.chunkCount => CoveringVerified(r, first, last, artifact.source, 0)
<1> DEFINE source == artifact.source
           count == r.chunkCount
<1>1. source \in Seq(STRING) /\ count \in Nat
  BY SourceTyped, CountIs, RecordSound DEF Sound
<1>2. ASSUME NEW i \in 0..(count - 1)
      PROVE  /\ chunkVerifies(r, i, ChunkBytes(r, i, source, 0))
             /\ r.merkleLeafSha256s[i + 1] = merkleLeafDigest(ChunkBytes(r, i, source, 0))
  <2>1. chunkAt(r, i).byteStart \in Nat
    BY RecordSound, ChunkLies
  <2>2. chunkAt(r, i).byteStart - 0 = chunkAt(r, i).byteStart
    BY <2>1
  <2>3. \A k \in 1..chunkAt(r, i).byteLength :
          source[chunkAt(r, i).byteStart - 0 + k] = source[chunkAt(r, i).byteStart + k]
    BY <2>2
  <2>4. 0 \in Int /\ i \in 0..(r.chunkCount - 1)
    OBVIOUS
  <2>5. QED
    BY <1>1, <2>3, <2>4, OwnChunksIn, Zenon
<1>3. Len(source) = r.byteLength /\ rawDigest(source) = r.sourceSha256
      /\ r.merkleRoot = merkleRootOf(r.merkleLeafSha256s)
  BY DEF RecordOf
<1>4. [i \in 1..count |-> merkleLeafDigest(ChunkBytes(r, i - 1, source, 0))] = r.merkleLeafSha256s
  <2> DEFINE leaves == [i \in 1..count |-> merkleLeafDigest(ChunkBytes(r, i - 1, source, 0))]
             digest(i) == merkleLeafDigest(Slice(source, (i - 1) * artifact.chunkSize,
                            least(artifact.chunkSize, Len(source) - (i - 1) * artifact.chunkSize)))
  <2>1. r.merkleLeafSha256s = [i \in 1..count |-> digest(i)]
    BY DEF RecordOf
  <2> HIDE DEF digest
  <2>2. ASSUME NEW i \in 1..count PROVE leaves[i] = r.merkleLeafSha256s[i]
    <3>1. i - 1 \in 0..(count - 1) /\ (i - 1) + 1 = i
      BY <1>1
    <3>2. r.merkleLeafSha256s[(i - 1) + 1] = merkleLeafDigest(ChunkBytes(r, i - 1, source, 0))
      BY <1>2, <3>1
    <3>3. QED
      BY <3>1, <3>2
  <2> HIDE DEF count, source
  <2>3. QED
    BY <2>1, <2>2
<1>5. verifyArtifactSourceManifest(source, r)
  BY <1>2, <1>3, <1>4 DEF verifyArtifactSourceManifest
<1>6. ASSUME NEW first \in Nat, NEW last \in Int, last < count
      PROVE  CoveringVerified(r, first, last, source, 0)
  <2>1. ASSUME NEW i \in first..last PROVE i \in 0..(count - 1)
    BY <1>1, <1>6, <2>1
  <2>2. QED
    BY <1>2, <2>1 DEF CoveringVerified
<1>7. QED
  BY <1>5, <1>6

-----------------------------------------------------------------------------
(***************************************************************************)
(* The denials of each tool, for the artifact's own record.                *)
(***************************************************************************)
\* A range of the source is returned unless it is too long.
LEMMA ReturnFits ==
    ASSUME artifact \in Artifacts, NEW r, r = RecordOf(artifact),
           NEW offset \in Nat, NEW length \in Nat \ {0}, offset + length <= Len(artifact.source),
           NEW data, Len(data) = length,
           request.tool \in {"artifact_read_lines", "artifact_read_heading"}
    PROVE  ReturnRange(r, artifact.source, data, offset, length).class
             \in {"success", "RESPONSE_LIMIT_EXCEEDED"}
<1> DEFINE source == artifact.source
           first == floorDiv(offset, r.chunkSize)
           last == floorDiv(offset + length - 1, r.chunkSize)
           c == Candidate(r, data, offset, length, first, last)
           returned == ReturnRange(r, source, data, offset, length)
<1>1. Sound(r)
  BY RecordSound
<1>2. /\ first \in Nat /\ last \in Nat /\ first <= last /\ last < r.chunkCount
      /\ first * artifact.chunkSize <= offset
      /\ offset + length <= least((last + 1) * artifact.chunkSize, Len(source))
  BY <1>1, RangeCovered, Zenon
<1>3. CoveringVerified(r, first, last, source, 0)
  <2> HIDE DEF first, last
  <2>1. last \in Int
    BY <1>2
  <2>2. QED
    BY <1>2, <2>1, OwnSource, Zenon
<1>4. returned.class = "RESPONSE_LIMIT_EXCEEDED"
      \/ /\ ~(length > MAX_RANGE_BYTES) /\ ~(last - first + 1 > MAX_VERIFIED_CHUNKS_PER_READ)
         /\ returned = Validated(c, r)
  BY <1>3, DeniedIs DEF ReturnRange
<1>5. ASSUME ~(length > MAX_RANGE_BYTES), ~(last - first + 1 > MAX_VERIFIED_CHUNKS_PER_READ)
      PROVE  Validated(c, r).class = "success"
  <2> HIDE DEF first, last
  <2>1. /\ c.first = first /\ c.last = last /\ c.offset = offset /\ c.length = length
        /\ c.data = data /\ c.digest = rawDigest(data) /\ c.class = "success"
        /\ c.chunks = [k \in 1..(last - first + 1) |-> chunkAt(r, first + k - 1)]
    <3>1. /\ c.first = first /\ c.last = last /\ c.offset = offset /\ c.length = length
          /\ c.data = data
      BY CandidateIs
    <3>2. /\ c.digest = rawDigest(data) /\ c.class = "success"
          /\ c.chunks = [k \in 1..(last - first + 1) |-> chunkAt(r, first + k - 1)]
      BY CandidateHas
    <3>3. QED
      BY <3>1, <3>2
  <2> HIDE DEF c
  <2>2. length \in 0..MAX_RANGE_BYTES /\ last - first + 1 <= MAX_VERIFIED_CHUNKS_PER_READ
    BY <1>2, <1>5, ContentBounds
  <2>3. request.tool # "artifact_read_range" /\ request.tool # "artifact_search_exact"
    OBVIOUS
  <2>4. PartialReadIntegritySchema(c, r)
    <3>1. WellPlaced(r, c)
      BY <1>2, <2>1, <2>2, <2>3, Zenon DEF WellPlaced
    <3>2. QED
      BY <1>1, <3>1, CandidateFits, Zenon
  <2>5. bindReturnedDataToIntegrity(c)
    BY <2>1 DEF bindReturnedDataToIntegrity
  <2>6. Validated(c, r) = c
    BY <2>3, <2>4, <2>5, ValidatedFits
  <2>7. QED
    BY <2>1, <2>6
<1> HIDE DEF c, first, last
<1>6. QED
  BY <1>4, <1>5

\* The errors a built index may have.
BuildErrors == {"none", "UNSUPPORTED_MEDIA_TYPE", "SOURCE_TOO_LARGE", "INVALID_UTF8",
                "TOO_MANY_LINES", "RESPONSE_LIMIT_EXCEEDED", "TOO_MANY_HEADINGS"}

\* buildArtifactTextIndex throws no other, and INVALID_UTF8 for bytes that are not UTF-8.
LEMMA BuiltError ==
    ASSUME NEW bytes \in Seq(STRING), NEW mediaType
    PROVE  /\ buildArtifactTextIndex(bytes, mediaType).error \in BuildErrors
           /\ buildArtifactTextIndex(bytes, mediaType).error = "INVALID_UTF8" => ~IsUtf8(bytes)
<1> DEFINE lines == scanLines(bytes)
           given == IF mediaType = "text/plain" THEN <<>> ELSE lines
           scanned == scanHeadings(bytes, given)
           index == buildArtifactTextIndex(bytes, mediaType)
<1>1. lines \in Seq(LineRecords)
  BY ScannedLines DEF Table
<1>2. given \in Seq(LineRecords)
  BY <1>1
<1> HIDE DEF given
<1>3. HeadingsInv(given, scanned)
  BY <1>2, ScannedHeadings
<1>4. scanned.error \in ScanErrors
  BY <1>3 DEF HeadingsInv
<1> HIDE DEF scanned
<1>5. \/ index = NoIndex("UNSUPPORTED_MEDIA_TYPE")
      \/ index = NoIndex("SOURCE_TOO_LARGE")
      \/ index = NoIndex("INVALID_UTF8") /\ ~IsUtf8(bytes)
      \/ index = NoIndex("TOO_MANY_LINES")
      \/ index = NoIndex(scanned.error)
      \/ index = [error |-> "none", source |-> bytes, mediaType |-> mediaType,
                  lines |-> lines, headings |-> scanned.headings]
  BY Zenon DEF buildArtifactTextIndex, given, scanned
<1>6. /\ \A code : NoIndex(code).error = code
      /\ [error |-> "none", source |-> bytes, mediaType |-> mediaType,
          lines |-> lines, headings |-> scanned.headings].error = "none"
  BY DEF NoIndex
<1> HIDE DEF index, lines
<1>7. \/ index.error = "UNSUPPORTED_MEDIA_TYPE" \/ index.error = "SOURCE_TOO_LARGE"
      \/ index.error = "INVALID_UTF8" /\ ~IsUtf8(bytes)
      \/ index.error = "TOO_MANY_LINES" \/ index.error = scanned.error \/ index.error = "none"
  BY <1>5, <1>6, Zenon
<1>8. QED
  BY <1>4, <1>7 DEF ScanErrors, BuildErrors, index

\* How the errors of a built index are answered.
LEMMA BuiltErrorDenied ==
    ASSUME NEW code \in BuildErrors, code # "none"
    PROVE  /\ Denied(mapArtifactTextIndexError(code)).class # "INTERNAL_ERROR"
           /\ Denied(mapArtifactTextIndexError(code)).class = "INTEGRITY_FAILURE" =>
                code = "INVALID_UTF8"
<1>1. /\ mapArtifactTextIndexError(code) # "INTERNAL_ERROR"
      /\ mapArtifactTextIndexError(code) = "INTEGRITY_FAILURE" => code = "INVALID_UTF8"
  BY DEF mapArtifactTextIndexError, BuildErrors
<1>2. QED
  BY <1>1, DeniedIs

\* The index that is rebuilt for a read is the one that was built.
LEMMA IndexHolds ==
    ASSUME NEW bytes, NEW mediaType, NEW index, index = buildArtifactTextIndex(bytes, mediaType),
           index.error = "none"
    PROVE  IndexError(bytes, index) = "none"
<1> DEFINE scanned == scanHeadings(bytes, IF mediaType = "text/plain" THEN <<>> ELSE scanLines(bytes))
<1>1. /\ ~(Len(bytes) > MAX_TEXT_INDEX_BYTES) /\ IsUtf8(bytes)
      /\ index = [error |-> "none", source |-> bytes, mediaType |-> mediaType,
                  lines |-> scanLines(bytes), headings |-> scanned.headings]
  BY BuiltIndex, Zenon
<1> HIDE DEF scanned
<1>2. index.source = bytes /\ index.mediaType = mediaType
  BY <1>1
<1>3. index = buildArtifactTextIndex(bytes, index.mediaType)
  BY <1>2
<1>4. QED
  BY <1>1, <1>2, <1>3, Zenon DEF IndexError

\* What the two properties say of the answer of a tool that reads the whole source.
Fits(a, bytes) ==
    /\ a.class # "INTERNAL_ERROR"
    /\ a.class = "INTEGRITY_FAILURE" /\ bytes = artifact.source => ~IsUtf8(artifact.source)

\* The checks these tools share: only altered bytes and invalid text are turned down.
LEMMA SourceFits ==
    ASSUME artifact \in Artifacts, NEW r, r = RecordOf(artifact), NEW bytes \in Seq(STRING),
           NEW index, index = buildArtifactTextIndex(bytes, r.mediaType), NEW a,
           \/ ~verifyArtifactSourceManifest(bytes, r) /\ a = Denied("INTEGRITY_FAILURE")
           \/ index.error # "none" /\ a = Denied(mapArtifactTextIndexError(index.error))
    PROVE  Fits(a, bytes)
<1>1. ~verifyArtifactSourceManifest(bytes, r) => bytes # artifact.source
  BY OwnSource
<1>2. index.error \in BuildErrors /\ (index.error = "INVALID_UTF8" => ~IsUtf8(bytes))
  BY BuiltError
<1>3. CASE ~verifyArtifactSourceManifest(bytes, r) /\ a = Denied("INTEGRITY_FAILURE")
  BY <1>1, <1>3, DeniedIs DEF Fits
<1>4. CASE index.error # "none" /\ a = Denied(mapArtifactTextIndexError(index.error))
  BY <1>2, <1>4, BuiltErrorDenied DEF Fits
<1>5. QED
  BY <1>3, <1>4

\* artifact_read_lines.
LEMMA LinesFit ==
    ASSUME artifact \in Artifacts, request \in Requests(artifact.source), NEW r,
           r = RecordOf(artifact), NEW bytes \in Seq(STRING),
           NEW index, index = buildArtifactTextIndex(bytes, r.mediaType),
           request.tool = "artifact_read_lines"
    PROVE  Fits(artifactReadLines(r, bytes, index), bytes)
<1> DEFINE source == artifact.source
           n == Len(source)
           d == artifact.chunkSize
           lines == index.lines
           total == Len(lines)
           from == request.startLine
           count == least(request.count, total - from + 1)
           start == lines[from].byteStart
           length == LineEnd(lines[from + count - 1]) - start
           read == readIndexedLines(bytes, index, from, count)
           returned == ReturnRange(r, bytes, read.text, start, length)
           chunk == r.chunkCount - 1
           c == Candidate(r, <<>>, r.byteLength, 0, chunk, chunk)
           a == artifactReadLines(r, bytes, index)
<1>1. Sound(r)
  BY RecordSound
<1>2. from \in Nat \ {0} /\ request.count \in Nat \ {0}
  BY ContentShape
<1>3. CASE ~verifyArtifactSourceManifest(bytes, r) \/ index.error # "none"
  <2>1. \/ ~verifyArtifactSourceManifest(bytes, r) /\ a = Denied("INTEGRITY_FAILURE")
        \/ index.error # "none" /\ a = Denied(mapArtifactTextIndexError(index.error))
    BY <1>3, Zenon DEF artifactReadLines
  <2> HIDE DEF a
  <2>2. QED
    BY <2>1, SourceFits DEF a
<1>4. CASE verifyArtifactSourceManifest(bytes, r) /\ index.error = "none"
  <2>1. bytes = source /\ Table(source, lines, n)
    BY <1>1, <1>4, SourceTable
  <2>2. source \in Seq(STRING) /\ n \in Nat /\ total \in Nat /\ d \in Nat \ {0}
    BY <2>1, SourceTyped DEF Table
  <2>3. CASE from > total
    <3>1. CASE r.chunkCount = 0
      <4>1. a = Denied("INVALID_REQUEST")
        BY <1>4, <2>3, <3>1 DEF artifactReadLines
      <4>2. QED
        BY <4>1, DeniedIs DEF Fits
    <3>2. CASE r.chunkCount # 0
      <4>1. r.chunkCount \in Nat /\ r.byteLength = n
        BY <1>1, SourceTyped, CountIs DEF Sound
      <4>2. chunk \in Nat /\ chunk < r.chunkCount /\ chunk \in 0..(r.chunkCount - 1)
            /\ chunk - chunk + 1 = 1 /\ chunk \in Int
        BY <3>2, <4>1
      <4>3. CoveringVerified(r, chunk, chunk, bytes, 0)
        <5> HIDE DEF chunk
        <5>1. QED
          BY <2>1, <4>2, OwnSource
      <4>4. a = Validated(c, r)
        BY <1>4, <2>3, <3>2, <4>3 DEF artifactReadLines
      <4> HIDE DEF chunk
      <4>5. /\ c.first = chunk /\ c.last = chunk /\ c.offset = r.byteLength /\ c.length = 0
            /\ c.data = <<>>
        BY CandidateIs
      <4>6. /\ c.digest = rawDigest(<<>>) /\ c.class = "success"
            /\ c.chunks = [k \in 1..(chunk - chunk + 1) |-> chunkAt(r, chunk + k - 1)]
        BY CandidateHas
      <4> HIDE DEF c
      <4>7. chunk * d <= n /\ n + 0 <= least((chunk + 1) * d, n)
        <5>1. chunkAt(r, chunk).byteStart = chunk * d
              /\ chunkAt(r, chunk).byteLength \in 1..d
              /\ chunkAt(r, chunk).byteStart + chunkAt(r, chunk).byteLength = least((chunk + 1) * d, n)
          BY <1>1, <4>2, ChunkFits
        <5>2. n <= r.chunkCount * d
          BY <1>1, <2>2, CountIs DEF Sound
        <5>3. r.chunkCount = chunk + 1
          BY <4>1 DEF chunk
        <5> DEFINE s == chunk * d
                   e == (chunk + 1) * d
                   b == chunkAt(r, chunk).byteLength
        <5>4. s \in Int /\ e \in Int
          BY <2>2, <4>2
        <5>5. b \in 1..d /\ s + b = least(e, n) /\ n <= e
          BY <5>1, <5>2, <5>3
        <5> HIDE DEF s, e, b, n, d
        <5>6. s <= n /\ n + 0 <= least(e, n)
          BY <2>2, <5>4, <5>5 DEF least
        <5>7. QED
          BY <5>6 DEF s, e
      <4>8. WellPlaced(r, c)
        <5>1. 0 \in 0..MAX_RANGE_BYTES /\ 1 <= MAX_VERIFIED_CHUNKS_PER_READ
          BY ContentBounds
        <5>2. chunk <= chunk
          BY <4>2
        <5>3. c.offset = n /\ request.tool # "artifact_read_range"
          BY <4>1, <4>5
        <5>4. c.last - c.first + 1 <= MAX_VERIFIED_CHUNKS_PER_READ
          BY <4>2, <4>5, <5>1
        <5>5. QED
          BY <2>2, <4>2, <4>5, <4>6, <4>7, <5>1, <5>2, <5>3, <5>4, Zenon DEF WellPlaced
      <4>9. PartialReadIntegritySchema(c, r)
        BY <1>1, <4>8, CandidateFits
      <4>10. bindReturnedDataToIntegrity(c)
        BY <4>5, <4>6 DEF bindReturnedDataToIntegrity
      <4>11. Validated(c, r) = c
        BY <4>9, <4>10, ValidatedFits
      <4>12. QED
        BY <4>4, <4>6, <4>11 DEF Fits
    <3>3. QED
      BY <3>1, <3>2
  <2>4. CASE ~(from > total)
    <3> DEFINE final == from + count - 1
               Counted == IF returned.class = "success"
                          THEN [returned EXCEPT !.lineCount = count] ELSE returned
    <3>1. a = IF read.error # "none" THEN Denied(mapArtifactTextIndexError(read.error)) ELSE Counted
      BY <1>4, <2>4, Zenon DEF artifactReadLines
    <3>2. from \in 1..total /\ count \in Nat \ {0} /\ final \in from..total
      <4> DEFINE k == request.count
      <4>1. k \in Nat \ {0} /\ count = least(k, total - from + 1)
        BY <1>2
      <4>2. final = from + count - 1
        OBVIOUS
      <4> HIDE DEF k, count, from, total, final
      <4>3. QED
        BY <1>2, <2>2, <2>4, <4>1, <4>2 DEF least
    <3>3. IndexError(bytes, index) = "none"
      BY <1>4, IndexHolds
    <3>4. \/ read.error = "RESPONSE_LIMIT_EXCEEDED"
          \/ read.error = "none" /\ read.text = Slice(bytes, start, length)
      <4>1. ~(from < 1 \/ count < 1) /\ ~(final > total)
        <5> HIDE DEF from, count, total, final
        <5>1. QED
          BY <2>2, <3>2
      <4> HIDE DEF from, count
      <4>2. read = IF count > MAX_LINE_READ_COUNT THEN NoText("RESPONSE_LIMIT_EXCEEDED")
                   ELSE untrustedRead(Slice(bytes, start, length))
        BY <3>3, <4>1, Zenon DEF readIndexedLines, readUnless
      <4> HIDE DEF read, start, length
      <4>3. QED
        BY <4>2 DEF untrustedRead, NoText
    <3>5. start \in Nat /\ length \in Nat \ {0} /\ start + length <= n
      <4>1. /\ lines[from].byteStart < LineEnd(lines[final])
            /\ LineEnd(lines[final]) <= Len(source)
        <5> HIDE DEF from, count, total, final, lines, source
        <5>1. from \in 1..Len(lines) /\ final \in from..Len(lines)
          BY <3>2 DEF total
        <5>2. QED
          BY <2>1, <2>2, <5>1, LinesWithin DEF n
      <4>2. lines[from].byteStart \in Nat /\ final \in 1..total
        <5> HIDE DEF count, total, final, lines, source
        <5>1. from \in 1..Len(lines)
          BY <3>2 DEF total
        <5>2. lines[from].byteStart \in Nat
          BY <2>1, <5>1, LineTyped
        <5>3. QED
          BY <2>2, <3>2, <5>2
      <4>3. LineEnd(lines[final]) \in Nat
        <5> HIDE DEF final, lines, source
        <5>1. QED
          BY <2>1, <4>2, LineTyped
      <4>4. start = lines[from].byteStart /\ length = LineEnd(lines[final]) - start
        OBVIOUS
      <4> DEFINE e == LineEnd(lines[final])
      <4> HIDE DEF start, length, e, n
      <4>5. e \in Nat /\ start \in Nat /\ start < e /\ e <= n /\ length = e - start
        BY <4>1, <4>2, <4>3, <4>4 DEF e, n, start
      <4>6. QED
        BY <2>2, <4>5
    <3> HIDE DEF read, start, length, count
    <3>6. CASE read.error = "RESPONSE_LIMIT_EXCEEDED"
      <4>1. a = Denied(mapArtifactTextIndexError("RESPONSE_LIMIT_EXCEEDED"))
        BY <3>1, <3>6
      <4>2. mapArtifactTextIndexError("RESPONSE_LIMIT_EXCEEDED") = "RESPONSE_LIMIT_EXCEEDED"
        BY DEF mapArtifactTextIndexError
      <4>3. QED
        BY <4>1, <4>2, DeniedIs DEF Fits
    <3>7. CASE read.error = "none" /\ read.text = Slice(bytes, start, length)
      <4>1. Len(read.text) = length
        <5>1. start \in Int /\ length \in Nat
          BY <3>5
        <5>2. QED
          BY <2>1, <2>2, <3>7, <5>1, SliceIs
      <4>2. returned.class \in {"success", "RESPONSE_LIMIT_EXCEEDED"}
        <5> DEFINE data == read.text
        <5>1. Len(data) = length /\ request.tool \in {"artifact_read_lines", "artifact_read_heading"}
          BY <4>1
        <5> HIDE DEF data
        <5>2. ReturnRange(r, source, data, start, length).class \in {"success", "RESPONSE_LIMIT_EXCEEDED"}
          BY <3>5, <5>1, ReturnFits, Zenon
        <5>3. QED
          BY <2>1, <5>2 DEF data
      <4> HIDE DEF returned
      <4>3. a = Counted
        BY <3>1, <3>7
      <4>4. CASE returned.class = "success"
        <5>1. "success" = Counted.class
          BY <4>4
        <5>2. QED
          BY <4>3, <5>1 DEF Fits
      <4>5. CASE returned.class # "success"
        BY <4>2, <4>3, <4>5 DEF Fits
      <4>6. QED
        BY <4>4, <4>5
    <3>8. QED
      BY <3>4, <3>6, <3>7
  <2>5. QED
    BY <2>3, <2>4
<1>5. QED
  BY <1>3, <1>4

\* A heading of the index is a range of the source, and not empty.
LEMMA HeadingPlaced ==
    ASSUME NEW source \in Seq(STRING), NEW mediaType, NEW index,
           index = buildArtifactTextIndex(source, mediaType), index.error = "none",
           NEW id, HeadingAt(index, id) # {},
           NEW heading, heading = index.headings[Min(HeadingAt(index, id))]
    PROVE  /\ heading.byteStart \in Nat /\ heading.byteLength \in Nat \ {0}
           /\ heading.byteStart + heading.byteLength <= Len(source)
<1> DEFINE lines == scanLines(source)
           given == IF mediaType = "text/plain" THEN <<>> ELSE lines
           scanned == scanHeadings(source, given)
           k == Min(HeadingAt(index, id))
           n == Len(source)
<1>1. index.headings = scanned.headings
  <2>1. index = [error |-> "none", source |-> source, mediaType |-> mediaType,
                 lines |-> scanLines(source), headings |-> scanned.headings]
    BY BuiltIndex, Zenon
  <2> HIDE DEF scanned
  <2>2. QED
    BY <2>1
<1>2. Table(source, lines, n) /\ lines \in Seq(LineRecords) /\ n \in Nat
  BY ScannedLines DEF Table
<1> HIDE DEF lines
<1>3. given \in Seq(LineRecords) /\ (given = <<>> \/ given = lines)
  BY <1>2
<1> HIDE DEF given
<1>4. HeadingsInv(given, scanned)
  BY <1>3, ScannedHeadings
<1>5. /\ \E S : scanned.headings \in Seq(S)
      /\ \A j \in 1..Len(scanned.headings) : HeadingInv(given, scanned.headings[j])
  BY <1>4 DEF HeadingsInv
<1> HIDE DEF scanned
<1>6. DOMAIN index.headings = 1..Len(scanned.headings) /\ Len(scanned.headings) \in Nat
  BY <1>1, <1>5
<1>7. HeadingAt(index, id) \subseteq 1..Len(scanned.headings) /\ HeadingAt(index, id) \subseteq Nat
  <2>1. HeadingAt(index, id) \subseteq DOMAIN index.headings
    BY DEF HeadingAt
  <2>2. QED
    BY <1>6, <2>1
<1>8. k \in 1..Len(scanned.headings)
  BY <1>7, MinIs
<1>9. HeadingInv(given, heading)
  <2>1. heading = index.headings[k]
    OBVIOUS
  <2> HIDE DEF k
  <2>2. QED
    BY <1>1, <1>5, <1>8, <2>1
<1>10. PICK j \in 1..Len(given) : /\ heading.byteStart = given[j].byteStart
                                  /\ heading.byteLength = given[j].contentByteLength
                                  /\ given[j].contentByteLength # 0
  BY <1>9 DEF HeadingInv
<1>11. given = lines /\ j \in 1..Len(lines)
  <2>1. Len(<<>>) = 0 /\ 1..0 = {}
    OBVIOUS
  <2>2. given # <<>>
    BY <1>10, <2>1
  <2>3. QED
    BY <1>3, <1>10, <2>2
<1>12. /\ lines[j].byteStart \in Nat /\ lines[j].contentByteLength \in Nat
       /\ lines[j].newlineByteLength \in 0..2
  <2>1. lines[j] \in LineRecords
    BY <1>2, <1>11
  <2>2. QED
    BY <2>1 DEF LineRecords
<1>13. LineEnd(lines[j]) <= n
  <2>1. Len(lines) \in Nat /\ j \in j..Len(lines)
    BY <1>2, <1>11
  <2>2. QED
    BY <1>2, <1>11, <2>1, LinesWithin DEF n
<1>14. lines[j].byteStart + lines[j].contentByteLength <= n
  <2> DEFINE s == lines[j].byteStart
             b == lines[j].contentByteLength
             w == lines[j].newlineByteLength
  <2>1. s + b + w <= n
    BY <1>13 DEF LineEnd
  <2>2. s \in Nat /\ b \in Nat /\ w \in Nat
    BY <1>12
  <2> HIDE DEF s, b, w, n
  <2>3. s + b <= n
    BY <1>2, <2>1, <2>2
  <2>4. QED
    BY <2>3 DEF s, b
<1>15. heading.byteStart \in Nat /\ heading.byteLength \in Nat \ {0}
       /\ heading.byteStart + heading.byteLength <= n
  BY <1>10, <1>11, <1>12, <1>14
<1>16. QED
  BY <1>15

\* artifact_read_heading.
LEMMA HeadingFits ==
    ASSUME artifact \in Artifacts, NEW r, r = RecordOf(artifact), NEW bytes \in Seq(STRING),
           NEW index, index = buildArtifactTextIndex(bytes, r.mediaType),
           request.tool = "artifact_read_heading"
    PROVE  Fits(artifactReadHeading(r, bytes, index), bytes)
<1> DEFINE source == artifact.source
           id == request.headingId
           heading == index.headings[Min(HeadingAt(index, id))]
           start == heading.byteStart
           length == heading.byteLength
           read == readIndexedHeading(bytes, index, id)
           returned == ReturnRange(r, bytes, read.text, start, length)
           a == artifactReadHeading(r, bytes, index)
<1>1. Sound(r)
  BY RecordSound
<1>2. CASE ~verifyArtifactSourceManifest(bytes, r) \/ index.error # "none"
  <2>1. \/ ~verifyArtifactSourceManifest(bytes, r) /\ a = Denied("INTEGRITY_FAILURE")
        \/ index.error # "none" /\ a = Denied(mapArtifactTextIndexError(index.error))
    BY <1>2, Zenon DEF artifactReadHeading
  <2> HIDE DEF a
  <2>2. QED
    BY <2>1, SourceFits DEF a
<1>3. CASE verifyArtifactSourceManifest(bytes, r) /\ index.error = "none"
  <2>1. bytes = source /\ source \in Seq(STRING)
    BY <1>1, <1>3, SourceTable, SourceTyped
  <2>2. a = IF read.error = "INVALID_HEADING_ID" THEN Denied("RESOURCE_UNAVAILABLE")
            ELSE IF read.error # "none" THEN Denied(mapArtifactTextIndexError(read.error))
            ELSE returned
    BY <1>3, Zenon DEF artifactReadHeading
  <2>3. IndexError(bytes, index) = "none"
    BY <1>3, IndexHolds
  <2>4. \/ read.error = "INVALID_HEADING_ID"
        \/ read.error = "RESPONSE_LIMIT_EXCEEDED"
        \/ /\ read.error = "none" /\ read.text = Slice(bytes, start, length)
           /\ HeadingAt(index, id) # {}
    <3> HIDE DEF id
    <3>1. read = IF HeadingAt(index, id) = {} THEN NoText("INVALID_HEADING_ID")
                 ELSE untrustedRead(Slice(bytes, start, length))
      BY <2>3, Zenon DEF readIndexedHeading, readUnless
    <3> HIDE DEF read, start, length
    <3>2. QED
      BY <3>1 DEF untrustedRead, NoText
  <2> HIDE DEF read, a
  <2>5. CASE read.error = "INVALID_HEADING_ID"
    BY <2>2, <2>5, DeniedIs DEF Fits, a
  <2>6. CASE read.error = "RESPONSE_LIMIT_EXCEEDED"
    <3>1. a = Denied(mapArtifactTextIndexError("RESPONSE_LIMIT_EXCEEDED"))
      BY <2>2, <2>6
    <3>2. mapArtifactTextIndexError("RESPONSE_LIMIT_EXCEEDED") = "RESPONSE_LIMIT_EXCEEDED"
      BY DEF mapArtifactTextIndexError
    <3>3. QED
      BY <3>1, <3>2, DeniedIs DEF Fits, a
  <2>7. CASE /\ read.error = "none" /\ read.text = Slice(bytes, start, length)
             /\ HeadingAt(index, id) # {}
    <3>1. start \in Nat /\ length \in Nat \ {0} /\ start + length <= Len(source)
      <4> DEFINE mediaType == r.mediaType
      <4> HIDE DEF id, mediaType, source
      <4>1. index = buildArtifactTextIndex(source, mediaType) /\ HeadingAt(index, id) # {}
        BY <2>1, <2>7 DEF mediaType
      <4>2. index.error = "none" /\ source \in Seq(STRING)
        BY <1>3, <2>1
      <4>3. heading = index.headings[Min(HeadingAt(index, id))]
        OBVIOUS
      <4> HIDE DEF heading
      <4>4. /\ heading.byteStart \in Nat /\ heading.byteLength \in Nat \ {0}
            /\ heading.byteStart + heading.byteLength <= Len(source)
        BY <4>1, <4>2, <4>3, HeadingPlaced, Zenon
      <4>5. QED
        BY <4>4
    <3> HIDE DEF start, length
    <3>2. Len(read.text) = length
      <4>1. start \in Int /\ length \in Nat
        BY <3>1
      <4>2. Len(Slice(bytes, start, length)) = length
        BY <4>1, SliceIs
      <4>3. QED
        BY <2>7, <4>2, Zenon
    <3>3. returned.class \in {"success", "RESPONSE_LIMIT_EXCEEDED"}
      <4> DEFINE data == read.text
      <4>1. Len(data) = length /\ request.tool \in {"artifact_read_lines", "artifact_read_heading"}
        BY <3>2
      <4> HIDE DEF data
      <4>2. ReturnRange(r, source, data, start, length).class \in {"success", "RESPONSE_LIMIT_EXCEEDED"}
        BY <3>1, <4>1, ReturnFits, Zenon
      <4>3. QED
        BY <2>1, <4>2 DEF data
    <3>4. a = returned
      BY <2>2, <2>7
    <3> HIDE DEF returned
    <3>5. QED
      BY <3>3, <3>4 DEF Fits, a
  <2>8. QED
    BY <2>4, <2>5, <2>6, <2>7
<1>4. QED
  BY <1>2, <1>3

\* What the schema asks of the hits in a source of some length.
HitsIn(hits, length) ==
    /\ DOMAIN hits = 1..Len(hits)
    /\ \A k \in 1..Len(hits) :
         /\ hits[k].length >= 1
         /\ hits[k].length = Len(hits[k].snippet)
         /\ hits[k].lineNumber >= 1
         /\ hits[k].offset >= 0
         /\ hits[k].offset + hits[k].length <= length
    /\ \A k \in 2..Len(hits) :
         hits[k].offset >= hits[k - 1].offset + hits[k - 1].length

\* The loop of the search finds such hits.
LEMMA HitsFit ==
    ASSUME NEW source \in Seq(STRING), NEW lines, Table(source, lines, Len(source)),
           NEW query \in Seq(STRING), query # <<>>, NEW maxHits \in Nat,
           NEW hits, hits = exactHits(source, lines, query, maxHits)
    PROVE  HitsIn(hits, Len(source))
<1> DEFINE search == searchAfter(source, lines, query, maxHits)[maxHits]
           n == Len(source)
           q == Len(query)
           m == Len(hits)
<1>1. hits = search.hits
  BY DEF exactHits
<1>2. SearchInv(source, lines, query, search)
  BY SearchEnds, Zenon
<1> HIDE DEF search
<1>3. hits \in Seq(Hits) /\ \A k \in 1..m : HitInv(source, query, hits, k)
  BY <1>1, <1>2 DEF SearchInv
<1>4. n \in Nat /\ q \in Nat \ {0} /\ m \in Nat /\ DOMAIN hits = 1..m
  BY <1>3
<1>5. ASSUME NEW k \in 1..m
      PROVE  /\ hits[k].length = q /\ hits[k].snippet = query
             /\ hits[k].offset \in 0..(n - q)
             /\ hits[k].lineNumber = LineOf(source, hits[k].offset + 1)
             /\ hits[k].offset >= From(hits, query, k)
  <2>1. HitInv(source, query, hits, k)
    BY <1>3
  <2>2. QED
    BY <2>1 DEF HitInv, MatchesIn
<1>6. ASSUME NEW k \in 1..m
      PROVE  /\ hits[k].length >= 1 /\ hits[k].length = Len(hits[k].snippet)
             /\ hits[k].lineNumber >= 1 /\ hits[k].offset >= 0
             /\ hits[k].offset + hits[k].length <= n
  <2> DEFINE o == hits[k].offset
  <2>1. o \in 0..(n - q) /\ hits[k].length = q /\ hits[k].snippet = query
    BY <1>5
  <2>2. hits[k].lineNumber = LineOf(source, o + 1)
    BY <1>5
  <2> HIDE DEF o, n, q
  <2>3. o + 1 \in 1..n /\ o >= 0 /\ o + q <= n /\ q >= 1
    BY <1>4, <2>1
  <2>4. LineOf(source, o + 1) \in 1..Len(lines)
    <3>1. Len(source) \in Nat /\ o + 1 \in 1..Len(source)
      BY <2>3 DEF n
    <3>2. QED
      BY <3>1, ByteInLine
  <2>5. Len(lines) \in Nat
    BY DEF Table
  <2>6. hits[k].lineNumber >= 1
    BY <2>2, <2>4, <2>5
  <2>7. hits[k].length = Len(hits[k].snippet)
    BY <2>1 DEF q
  <2>8. QED
    BY <2>1, <2>3, <2>6, <2>7 DEF o
<1>7. ASSUME NEW k \in 2..m PROVE hits[k].offset >= hits[k - 1].offset + hits[k - 1].length
  <2>1. k \in 1..m /\ k - 1 \in 1..m /\ k # 1
    BY <1>4
  <2>2. hits[k].offset >= From(hits, query, k)
    BY <1>5, <2>1
  <2>3. From(hits, query, k) = hits[k - 1].offset + q
    BY <2>1 DEF From
  <2>4. hits[k - 1].length = q
    BY <1>5, <2>1
  <2>5. QED
    BY <2>2, <2>3, <2>4
<1>8. QED
  BY <1>4, <1>6, <1>7 DEF HitsIn

\* artifact_search_exact, of a source that is not empty and within its bounds.
LEMMA SearchFits ==
    ASSUME artifact \in Artifacts, request \in Requests(artifact.source), NEW r,
           r = RecordOf(artifact), NEW bytes \in Seq(STRING),
           NEW index, index = buildArtifactTextIndex(bytes, r.mediaType),
           request.tool = "artifact_search_exact", DeniedUnread(r) = "none"
    PROVE  Fits(artifactSearchExact(r, bytes, index), bytes)
<1> DEFINE source == artifact.source
           n == Len(source)
           d == artifact.chunkSize
           count == r.chunkCount
           last == count - 1
           c == Candidate(r, <<>>, 0, r.byteLength, 0, last)
           hits == exactHits(bytes, index.lines, request.query, request.maxHits)
           e == [c EXCEPT !.digest = rawDigest(bytes), !.hits = hits]
           a == artifactSearchExact(r, bytes, index)
<1>1. Sound(r)
  BY RecordSound
<1>2. CASE ~verifyArtifactSourceManifest(bytes, r) \/ index.error # "none"
  <2>1. \/ ~verifyArtifactSourceManifest(bytes, r) /\ a = Denied("INTEGRITY_FAILURE")
        \/ index.error # "none" /\ a = Denied(mapArtifactTextIndexError(index.error))
    BY <1>2, Zenon DEF artifactSearchExact
  <2> HIDE DEF a
  <2>2. QED
    BY <2>1, SourceFits DEF a
<1>3. CASE verifyArtifactSourceManifest(bytes, r) /\ index.error = "none"
  <2>1. bytes = source /\ Table(source, index.lines, n)
    BY <1>1, <1>3, SourceTable
  <2>2. /\ source \in Seq(STRING) /\ n \in Nat /\ d \in Nat \ {0} /\ r.byteLength = n
        /\ count \in Nat /\ n <= count * d /\ count * d < n + d
    BY <1>1, SourceTyped, CountIs DEF Sound
  <2>3. /\ r.byteLength # 0 /\ ~(r.byteLength > MAX_EXACT_SEARCH_SOURCE_BYTES)
        /\ ~(count > MAX_VERIFIED_CHUNKS_PER_READ)
    BY DEF DeniedUnread
  <2> HIDE DEF n, d, count
  <2>4. /\ n \in 0..MAX_RANGE_BYTES /\ count <= MAX_VERIFIED_CHUNKS_PER_READ /\ n # 0
    <3>1. /\ MAX_EXACT_SEARCH_SOURCE_BYTES \in Nat /\ MAX_RANGE_BYTES \in Nat
          /\ MAX_VERIFIED_CHUNKS_PER_READ \in Nat /\ MAX_EXACT_SEARCH_SOURCE_BYTES <= MAX_RANGE_BYTES
      BY ContentBounds
    <3>2. QED
      BY <2>2, <2>3, <3>1
  <2>5. count # 0
    BY <2>2, <2>4
  <2>6. last \in Nat /\ last < count /\ last - 0 + 1 = count /\ 0 <= last /\ last \in Int
        /\ last + 1 = count /\ last \in 0..(count - 1)
    BY <2>2, <2>5
  <2>7. CoveringVerified(r, 0, last, bytes, 0)
    <3> HIDE DEF last
    <3>1. 0 \in Nat /\ last < r.chunkCount
      BY <2>6 DEF count
    <3>2. QED
      BY <2>1, <2>6, <3>1, OwnSource
  <2>8. a = Validated(e, r)
    BY <1>3, <2>7, Zenon DEF artifactSearchExact, count
  <2> HIDE DEF last, a, hits
  <2>9. /\ e.first = 0 /\ e.last = last /\ e.offset = 0 /\ e.length = r.byteLength
        /\ e.class = "success" /\ e.hits = hits
        /\ e.chunks = [k \in 1..(last - 0 + 1) |-> chunkAt(r, 0 + k - 1)]
    BY DEF Candidate, Empty
  <2> HIDE DEF e
  <2>10. WellPlaced(r, e)
    <3>1. 0 * d <= 0 /\ 0 + n <= least((last + 1) * d, n)
      BY <2>2, <2>6 DEF least
    <3>2. e.length = n /\ request.tool # "artifact_read_range" /\ 0 \in Nat
      BY <2>2, <2>9
    <3>3. last - 0 + 1 <= MAX_VERIFIED_CHUNKS_PER_READ /\ last < r.chunkCount
      BY <2>4, <2>6 DEF count
    <3>4. QED
      BY <2>4, <2>6, <2>9, <3>1, <3>2, <3>3, Zenon DEF WellPlaced, n, d
  <2>11. PartialReadIntegritySchema(e, r)
    BY <1>1, <2>10, CandidateFits
  <2>12. ArtifactSearchHitsSchema(e)
    <3>1. Len(e.chunks) = count /\ e.chunks[1] = chunkAt(r, 0) /\ e.chunks[count] = chunkAt(r, last)
      <4>1. e.chunks = [k \in 1..count |-> chunkAt(r, 0 + k - 1)]
        BY <2>6, <2>9
      <4>2. 1 \in 1..count /\ count \in 1..count /\ 0 + 1 - 1 = 0 /\ 0 + count - 1 = last
        BY <2>2, <2>5 DEF last
      <4>3. QED
        BY <2>2, <4>1, <4>2
    <3>2. /\ chunkAt(r, 0).byteStart = 0
          /\ chunkAt(r, last).byteStart + chunkAt(r, last).byteLength = n
      <4>1. 0 \in 0..(r.chunkCount - 1) /\ last \in 0..(r.chunkCount - 1)
        BY <2>2, <2>5, <2>6 DEF count
      <4>2. chunkAt(r, 0).byteStart = 0 * d
        BY <1>1, <4>1, ChunkFits DEF d
      <4>3. chunkAt(r, last).byteStart + chunkAt(r, last).byteLength = least((last + 1) * d, n)
        BY <1>1, <4>1, ChunkFits DEF d, n
      <4>4. least((last + 1) * d, n) = n /\ 0 * d = 0
        BY <2>2, <2>6 DEF least
      <4>5. QED
        BY <4>2, <4>3, <4>4
    <3>3. /\ request.query \in Seq(STRING) /\ request.query # <<>> /\ request.maxHits \in Nat
          /\ hits = exactHits(source, index.lines, request.query, request.maxHits)
      BY <2>1, ContentShape DEF hits
    <3>4. HitsIn(hits, n)
      <4> DEFINE lines == index.lines
                 query == request.query
                 maxHits == request.maxHits
      <4>1. /\ Table(source, lines, Len(source)) /\ source \in Seq(STRING)
            /\ query \in Seq(STRING) /\ query # <<>> /\ maxHits \in Nat
            /\ hits = exactHits(source, lines, query, maxHits)
        BY <2>1, <2>2, <3>3 DEF n
      <4> HIDE DEF lines, query, maxHits, source
      <4>2. HitsIn(hits, Len(source))
        BY <4>1, HitsFit, Zenon
      <4>3. QED
        BY <4>2 DEF n
    <3>5. /\ e.chunks[1].byteStart = 0
          /\ e.chunks[Len(e.chunks)].byteStart + e.chunks[Len(e.chunks)].byteLength = n
      BY <3>1, <3>2, Zenon
    <3>6. HitsIn(e.hits, n)
      BY <2>9, <3>4, Zenon
    <3>7. QED
      BY <3>5, <3>6, Zenon DEF ArtifactSearchHitsSchema, HitsIn
  <2>13. Validated(e, r) = e
    BY <2>11, <2>12, ValidatedFits
  <2>14. QED
    BY <2>8, <2>9, <2>13 DEF Fits, a
<1>4. QED
  BY <1>2, <1>3

\* The covering range of a range inside the source, in numbers.
LEMMA CoveringIs ==
    ASSUME artifact \in Artifacts, request \in Requests(artifact.source), NEW r, Sound(r),
           ~PastTheEnd(r), request.tool = "artifact_read_range", NEW v, v = CoveringRange(r)
    PROVE  /\ request.offset \in Nat /\ request.length \in 1..MAX_RANGE_BYTES
           /\ v.first \in Nat /\ v.last \in Nat /\ v.first <= v.last /\ v.last < r.chunkCount
           /\ v.first * artifact.chunkSize <= request.offset
           /\ request.offset + request.length
                <= least((v.last + 1) * artifact.chunkSize, Len(artifact.source))
           /\ v.offset = v.first * artifact.chunkSize
           /\ v.length = least((v.last + 1) * artifact.chunkSize, Len(artifact.source)) - v.offset
           /\ v.offset \in Nat /\ v.length \in Nat
<1> DEFINE n == Len(artifact.source)
           d == artifact.chunkSize
           offset == request.offset
           length == request.length
           first == floorDiv(offset, r.chunkSize)
           last == floorDiv(offset + length - 1, r.chunkSize)
<1>1. offset \in Nat /\ length \in 1..MAX_RANGE_BYTES
  BY ContentShape
<1>2. n \in Nat /\ d \in Nat \ {0} /\ r.byteLength = n /\ r.chunkSize = d
  BY SourceTyped DEF Sound
<1>3. length \in Nat \ {0} /\ offset + length <= n
  <2>1. ~(offset + length > n)
    BY <1>2 DEF PastTheEnd
  <2>2. MAX_RANGE_BYTES \in Nat
    BY ContentBounds
  <2> HIDE DEF offset, length, n
  <2>3. QED
    BY <1>1, <1>2, <2>1, <2>2
<1>4. /\ v.first = first /\ v.last = last /\ v.offset = first * d
      /\ v.length = least((last + 1) * d, n) - first * d
  <2>1. v = [first |-> first, last |-> last, offset |-> first * r.chunkSize,
             length |-> least((last + 1) * r.chunkSize, r.byteLength) - first * r.chunkSize]
    BY DEF CoveringRange
  <2> HIDE DEF first, last
  <2>2. QED
    BY <1>2, <2>1
<1>5. /\ first \in Nat /\ last \in Nat /\ first <= last /\ last < r.chunkCount
      /\ first * d <= offset /\ offset + length <= least((last + 1) * d, n)
  <2> DEFINE f == first
             l == last
  <2>1. f = floorDiv(offset, r.chunkSize) /\ l = floorDiv(offset + length - 1, r.chunkSize)
    OBVIOUS
  <2>2. offset + length <= Len(artifact.source)
    BY <1>3
  <2> HIDE DEF f, l, offset, length
  <2>3. /\ f \in Nat /\ l \in Nat /\ f <= l /\ l < r.chunkCount
        /\ f * artifact.chunkSize <= offset
        /\ offset + length <= least((l + 1) * artifact.chunkSize, Len(artifact.source))
    BY <1>1, <1>3, <2>1, <2>2, RangeCovered, Zenon
  <2>4. QED
    BY <2>3 DEF f, l, offset, length
<1> HIDE DEF first, last, n, d, offset, length
<1>6. first * d \in Nat /\ (last + 1) * d \in Nat
  BY <1>2, <1>5
<1>7. v.offset \in Nat /\ v.length \in Nat
  <2> DEFINE s == first * d
             e == (last + 1) * d
  <2>1. s \in Nat /\ e \in Nat /\ s <= offset /\ offset + length <= least(e, n)
        /\ v.offset = s /\ v.length = least(e, n) - s
    BY <1>4, <1>5, <1>6
  <2> HIDE DEF s, e
  <2>2. QED
    BY <1>1, <1>2, <1>3, <2>1 DEF least
<1>8. QED
  BY <1>1, <1>4, <1>5, <1>7 DEF n, d, offset, length

\* artifact_read_range, of a range inside the source.
LEMMA RangeFits ==
    ASSUME artifact \in Artifacts, request \in Requests(artifact.source), NEW r,
           r = RecordOf(artifact), NEW bytes \in Seq(STRING), ~PastTheEnd(r),
           request.tool = "artifact_read_range"
    PROVE  /\ artifactReadRange(r, bytes).class # "INTERNAL_ERROR"
           /\ bytes = Slice(artifact.source, CoveringRange(r).offset, CoveringRange(r).length) =>
                artifactReadRange(r, bytes).class # "INTEGRITY_FAILURE"
<1> DEFINE source == artifact.source
           n == Len(source)
           d == artifact.chunkSize
           offset == request.offset
           length == request.length
           v == CoveringRange(r)
           first == v.first
           last == v.last
           data == Slice(bytes, offset - v.offset, length)
           c == Candidate(r, data, offset, length, first, last)
           a == artifactReadRange(r, bytes)
<1>1. Sound(r)
  BY RecordSound
<1>2. /\ offset \in Nat /\ length \in 1..MAX_RANGE_BYTES
      /\ first \in Nat /\ last \in Nat /\ first <= last /\ last < r.chunkCount
      /\ first * d <= offset
      /\ offset + length <= least((last + 1) * d, n)
      /\ v.offset = first * d
      /\ v.length = least((last + 1) * d, n) - v.offset
      /\ v.offset \in Nat /\ v.length \in Nat
  BY <1>1, CoveringIs, Zenon
<1>3. n \in Nat /\ d \in Nat \ {0} /\ source \in Seq(STRING) /\ MAX_RANGE_BYTES \in Nat
      /\ r.chunkCount \in Nat
  BY <1>1, SourceTyped, CountIs, ContentBounds DEF Sound
<1>4. a = IF Len(bytes) # v.length THEN Denied("INTEGRITY_FAILURE")
          ELSE IF ~CoveringVerified(r, first, last, bytes, v.offset) THEN Denied("INTEGRITY_FAILURE")
          ELSE IF last - first + 1 > MAX_VERIFIED_CHUNKS_PER_READ
          THEN Denied("RESPONSE_LIMIT_EXCEEDED")
          ELSE IF ~IsUtf8(data) THEN Denied("UNSUPPORTED")
          ELSE Validated(c, r)
  BY Zenon DEF artifactReadRange
<1> HIDE DEF v, a, offset, length
<1>5. ASSUME ~(last - first + 1 > MAX_VERIFIED_CHUNKS_PER_READ)
      PROVE  Validated(c, r).class = "success"
  <2> HIDE DEF first, last
  <2>1. Len(data) = length
    <3>1. offset - v.offset \in Int /\ length \in Nat
      BY <1>2, <1>3
    <3>2. QED
      BY <3>1, SliceIs
  <2> HIDE DEF data
  <2>2. /\ c.first = first /\ c.last = last /\ c.offset = offset /\ c.length = length
        /\ c.data = data
    BY CandidateIs
  <2>3. /\ c.digest = rawDigest(data) /\ c.class = "success"
        /\ c.chunks = [k \in 1..(last - first + 1) |-> chunkAt(r, first + k - 1)]
    BY CandidateHas
  <2> HIDE DEF c
  <2>4. length \in 0..MAX_RANGE_BYTES /\ last - first + 1 <= MAX_VERIFIED_CHUNKS_PER_READ
    BY <1>2, <1>3, <1>5, ContentBounds
  <2>5. request.offset = c.offset /\ request.length = c.length
    BY <2>2 DEF offset, length
  <2>6. WellPlaced(r, c)
    BY <1>2, <2>2, <2>3, <2>4, <2>5, Zenon DEF WellPlaced
  <2>7. PartialReadIntegritySchema(c, r)
    BY <1>1, <2>6, CandidateFits
  <2>8. bindReturnedDataToIntegrity(c)
    BY <2>1, <2>2, <2>3 DEF bindReturnedDataToIntegrity
  <2>9. Validated(c, r) = c
    BY <2>7, <2>8, ValidatedFits
  <2>10. QED
    BY <2>3, <2>9
<1>6. ASSUME bytes = Slice(source, v.offset, v.length)
      PROVE  Len(bytes) = v.length /\ CoveringVerified(r, first, last, bytes, v.offset)
  <2> DEFINE from == v.offset
             size == v.length
  <2>1. from \in Int /\ from \in Nat /\ size \in Nat
    BY <1>2
  <2>2. bytes = Slice(source, from, size)
    BY <1>6
  <2>3. size = least((last + 1) * d, n) - from /\ from = first * d
    BY <1>2
  <2> HIDE DEF from, size, first, last
  <2>4. Len(bytes) = size /\ \A k \in 1..size : bytes[k] = source[from + k]
    <3>1. source \in Seq(STRING) /\ from \in Int /\ size \in Nat
      BY <1>3, <2>1, Zenon
    <3> HIDE DEF source
    <3>2. /\ Len(Slice(source, from, size)) = size
          /\ \A k \in 1..size : Slice(source, from, size)[k] = source[from + k]
      BY <3>1, SliceIs, Zenon
    <3>3. QED
      BY <2>2, <3>2, Zenon
  <2>5. ASSUME NEW i \in first..last
        PROVE  chunkVerifies(r, i, ChunkBytes(r, i, bytes, from))
    <3> DEFINE s == chunkAt(r, i).byteStart
               b == chunkAt(r, i).byteLength
    <3>1. i \in 0..(r.chunkCount - 1) /\ i \in Int /\ i <= last /\ first <= i
      BY <1>2, <1>3
    <3>2. s = i * d /\ b \in 1..d /\ s + b = least((i + 1) * d, n)
      BY <1>1, <3>1, ChunkFits
    <3> HIDE DEF d, s, b
    <3>3. first \in Int /\ last \in Int /\ i + 1 \in Int /\ last + 1 \in Int
      BY <1>2, <3>1
    <3>4. /\ first * d \in Int /\ i * d \in Int
          /\ (i + 1) * d \in Int /\ (last + 1) * d \in Int
      BY <1>3, <3>1, <3>3
    <3>5. first * d <= i * d
      <4>1. CASE first < i
        <5>1. first * d + d <= i * d
          BY <1>3, <3>1, <3>3, <4>1, Multiples
        <5>2. QED
          BY <1>3, <3>4, <5>1
      <4>2. CASE first = i
        BY <3>4, <4>2
      <4>3. QED
        BY <3>1, <3>3, <4>1, <4>2
    <3>6. (i + 1) * d <= (last + 1) * d
      <4> DEFINE x == i + 1
                 y == last + 1
      <4>1. x \in Int /\ y \in Int /\ (x < y \/ x = y) /\ x * d \in Int /\ y * d \in Int
        BY <3>1, <3>3, <3>4
      <4> HIDE DEF x, y
      <4>2. CASE x < y
        <5>1. x * d + d <= y * d
          BY <1>3, <4>1, <4>2, Multiples
        <5>2. QED
          BY <1>3, <4>1, <5>1 DEF x, y
      <4>3. CASE x = y
        BY <4>1, <4>3 DEF x, y
      <4>4. QED
        BY <4>1, <4>2, <4>3
    <3> DEFINE p == i * d
               q == (i + 1) * d
               t == (last + 1) * d
    <3>7. /\ p \in Int /\ q \in Int /\ t \in Int /\ from <= p /\ q <= t /\ s = p /\ b \in 1..d
          /\ s + b = least(q, n) /\ size = least(t, n) - from
      <4>1. from <= i * d
        BY <2>3, <3>5
      <4>2. QED
        BY <2>3, <3>2, <3>4, <3>6, <4>1, Zenon
    <3> HIDE DEF p, q, t, n
    <3>8. s - from >= 0 /\ s - from + b <= size /\ s \in Int /\ b \in Nat
      BY <1>3, <2>1, <3>7 DEF least
    <3>9. ASSUME NEW k \in 1..b PROVE bytes[s - from + k] = source[s + k]
      <4>1. s - from + k \in 1..size /\ from + (s - from + k) = s + k
        BY <2>1, <3>8
      <4>2. bytes[s - from + k] = source[from + (s - from + k)]
        BY <2>4, <4>1
      <4>3. QED
        BY <4>1, <4>2
    <3>10. \A k \in 1..chunkAt(r, i).byteLength :
            bytes[chunkAt(r, i).byteStart - from + k] = artifact.source[chunkAt(r, i).byteStart + k]
      BY <3>9 DEF s, b
    <3>11. QED
      BY <2>1, <3>1, <3>10, OwnChunksIn, Zenon
  <2>6. CoveringVerified(r, first, last, bytes, from)
    BY <2>5 DEF CoveringVerified
  <2>7. QED
    BY <2>4, <2>6 DEF from, size
<1> HIDE DEF c, data, first, last
<1>7. a.class # "INTERNAL_ERROR"
  BY <1>4, <1>5, DeniedIs
<1>8. ASSUME bytes = Slice(source, v.offset, v.length) PROVE a.class # "INTEGRITY_FAILURE"
  BY <1>4, <1>5, <1>6, <1>8, DeniedIs
<1>9. QED
  BY <1>7, <1>8 DEF a, v

\* artifact_stat.
LEMMA StatFits ==
    ASSUME artifact \in Artifacts, NEW r, r = RecordOf(artifact)
    PROVE  /\ artifactStat(r).class \in {"success", "INTERNAL_ERROR"}
           /\ artifactStat(r).class = "INTERNAL_ERROR" =>
                r.chunkCount > MAX_INLINE_CHUNK_HASHES /\ ~r.chunkHashesRef
<1> DEFINE n == Len(artifact.source)
           d == artifact.chunkSize
           count == chunkCountOf(n, d)
           inline == r.chunkCount <= MAX_INLINE_CHUNK_HASHES
           schema == IF r.byteLength = 0 THEN r.chunkCount = 0 /\ inline
                     ELSE /\ r.chunkCount > 0
                          /\ inline => Len(r.chunkSha256s) = r.chunkCount
                          /\ r.byteLength \in (r.chunkSize * (r.chunkCount - 1) + 1)
                                               ..(r.chunkSize * r.chunkCount)
<1>1. /\ n \in Nat /\ d \in Nat \ {0} /\ count \in Nat
      /\ n <= count * d /\ count * d < n + d
  BY SourceTyped, CountIs
<1>2. /\ r.byteLength = n /\ r.chunkSize = d /\ r.chunkCount = count
      /\ Len(r.chunkSha256s) = r.chunkCount
  BY OwnRecord DEF Sound
<1>3. MAX_INLINE_CHUNK_HASHES \in Nat
  BY ContentBounds
<1> HIDE DEF n, d, count
<1>4. ASSUME n = 0 PROVE schema
  <2>1. count * d < 1 * d /\ count \in Int /\ 1 \in Int
    BY <1>1, <1>4
  <2>2. count < 1
    BY <1>1, <2>1, Multiples
  <2>3. count = 0
    BY <1>1, <2>2
  <2>4. QED
    BY <1>2, <1>3, <1>4, <2>3
<1>5. ASSUME n # 0 PROVE schema
  <2>1. count # 0
    BY <1>1, <1>5
  <2>2. d * (count - 1) = count * d - d /\ d * count = count * d /\ count * d \in Int
    BY <1>1
  <2> DEFINE p == count * d
             low == d * (count - 1)
             high == d * count
  <2>3. p \in Int /\ low = p - d /\ high = p /\ n <= p /\ p < n + d
    BY <1>1, <2>2
  <2> HIDE DEF p, low, high
  <2>4. n \in (low + 1)..high
    BY <1>1, <2>3
  <2>5. count > 0
    BY <1>1, <2>1
  <2>6. QED
    BY <1>2, <1>5, <2>4, <2>5 DEF low, high
<1>6. schema
  BY <1>4, <1>5
<1>7. artifactStat(r) = IF ~inline /\ ~r.chunkHashesRef THEN Denied("INTERNAL_ERROR")
                        ELSE [Empty EXCEPT !.class = "success", !.sourceSha256 = r.sourceSha256]
  BY <1>6, Zenon DEF artifactStat
<1>8. [Empty EXCEPT !.class = "success", !.sourceSha256 = r.sourceSha256].class = "success"
  BY DEF Empty
<1>9. inline \/ r.chunkCount > MAX_INLINE_CHUNK_HASHES
  BY <1>1, <1>2, <1>3
<1> HIDE DEF inline, schema
<1>10. QED
  BY <1>7, <1>8, <1>9, DeniedIs

\* What is denied before storage is read.
LEMMA UnreadFits ==
    ASSUME artifact \in Artifacts, request \in Requests(artifact.source), NEW r,
           r = RecordOf(artifact), request.tool # "artifact_stat"
    PROVE  /\ DeniedUnread(r) # "INTERNAL_ERROR"
           /\ DeniedUnread(r) = "INTEGRITY_FAILURE" =>
                /\ request.tool = "artifact_read_range"
                /\ request.offset + request.length > Len(artifact.source)
<1>1. request.tool \in ARTIFACT_INSPECTION_TOOLS
  BY ContentShape
<1>2. /\ DeniedUnread(r) # "INTERNAL_ERROR"
      /\ DeniedUnread(r) = "INTEGRITY_FAILURE" =>
           request.tool = "artifact_read_range" /\ PastTheEnd(r)
  BY <1>1 DEF DeniedUnread, ARTIFACT_INSPECTION_TOOLS
<1>3. ASSUME request.tool = "artifact_read_range", PastTheEnd(r)
      PROVE  request.offset + request.length > Len(artifact.source)
  <2> DEFINE offset == request.offset
             length == request.length
             n == Len(artifact.source)
  <2>1. offset \in Nat /\ length \in 1..MAX_RANGE_BYTES /\ n \in Nat /\ MAX_RANGE_BYTES \in Nat
    BY <1>3, ContentShape, ContentBounds, SourceTyped
  <2>2. r.byteLength = n
    BY RecordSound DEF Sound
  <2>3. offset >= n \/ offset + length > n
    BY <1>3, <2>2 DEF PastTheEnd
  <2> HIDE DEF offset, length, n
  <2>4. offset + length > n
    BY <2>1, <2>3
  <2>5. QED
    BY <2>4 DEF offset, length, n
<1>4. QED
  BY <1>2, <1>3

\* What a read of the published object returns: the covering range, or the source.
LEMMA PublishedRead ==
    ASSUME artifact \in Artifacts, request \in Requests(artifact.source), NEW r, Sound(r),
           request.tool = "artifact_read_range" => ~PastTheEnd(r)
    PROVE  /\ readVersionedRange(r, Published).version = 1
           /\ readVersionedRange(r, Published).bytes =
                IF request.tool = "artifact_read_range"
                THEN Slice(artifact.source, CoveringRange(r).offset, CoveringRange(r).length)
                ELSE artifact.source
<1> DEFINE source == artifact.source
           n == Len(source)
           range == IF request.tool = "artifact_read_range" THEN CoveringRange(r)
                    ELSE [offset |-> 0, length |-> r.byteLength]
           from == range.offset
           size == range.length
           end == least(from + size, n)
           read == readVersionedRange(r, Published)
<1>1. source \in Seq(STRING) /\ n \in Nat /\ r.byteLength = n
  BY SourceTyped DEF Sound
<1>2. read = [Published EXCEPT !.bytes = SubSeq(@, from + 1, least(from + size, Len(Published.bytes)))]
  BY Zenon DEF readVersionedRange
<1>3. Published = [version |-> 1, bytes |-> source]
  BY DEF Published
<1> HIDE DEF from, size, read
<1>4. read.version = 1 /\ read.bytes = SubSeq(source, from + 1, end)
  BY <1>2, <1>3
<1>5. CASE request.tool = "artifact_read_range"
  <2> DEFINE v == CoveringRange(r)
             d == artifact.chunkSize
             t == (v.last + 1) * d
  <2>1. v.offset \in Nat /\ v.length \in Nat /\ v.length = least(t, n) - v.offset /\ v.last \in Nat
    BY <1>5, CoveringIs, Zenon
  <2>2. from = v.offset /\ size = v.length
    BY <1>5 DEF from, size
  <2>3. t \in Int
    <3>1. d \in Nat
      BY SourceTyped
    <3> HIDE DEF d, v
    <3>2. QED
      BY <2>1, <3>1
  <2> HIDE DEF v, t, n
  <2>4. from + size = least(t, n) /\ from \in Nat /\ size \in Nat
    BY <1>1, <2>1, <2>2, <2>3 DEF least
  <2>5. end = from + size
    BY <1>1, <2>3, <2>4 DEF least
  <2>6. read.bytes = Slice(source, from, size)
    BY <1>4, <2>5 DEF Slice
  <2>7. QED
    BY <1>4, <1>5, <2>2, <2>6 DEF v, read
<1>6. CASE request.tool # "artifact_read_range"
  <2>1. from = 0 /\ size = n
    BY <1>1, <1>6 DEF from, size
  <2>2. end = n /\ from + 1 = 1
    <3> HIDE DEF n
    <3>1. QED
      BY <1>1, <2>1 DEF least
  <2>3. SubSeq(source, 1, n) = source
    BY <1>1
  <2>4. read.bytes = source
    BY <1>4, <2>2, <2>3
  <2>5. QED
    BY <1>4, <1>6, <2>4 DEF read
<1>7. QED
  BY <1>5, <1>6

-----------------------------------------------------------------------------
(***************************************************************************)
(* Why a call fails.                                                       *)
(***************************************************************************)
\* What a call holds between its steps: the record of the registry, which passed the checks
\* before the read, of an object nobody touched the part that was asked for, and no answer yet.
CauseInv ==
    /\ phase \in {"resolved", "fetched"} => record = registry
    /\ phase = "fetched" => DeniedUnread(record) = "none"
    /\ phase = "fetched" /\ stored = Published => fetched = readVersionedRange(record, Published)
    /\ phase # "answered" => answer.class = "none"

\* The conclusion of a call under the artifact's own record.
LEMMA ConclusionFits ==
    ASSUME IInv, CauseInv, phase = "fetched", registry = RecordOf(artifact)
    PROVE  /\ Conclusion.class # "INTERNAL_ERROR"
           /\ stored = Published /\ Conclusion.class = "INTEGRITY_FAILURE" =>
                request.tool \in WholeSourceTools /\ ~IsUtf8(artifact.source)
<1> DEFINE bytes == fetched.bytes
           mediaType == record.mediaType
           index == buildArtifactTextIndex(bytes, mediaType)
<1>1. /\ artifact \in Artifacts /\ request \in Requests(artifact.source)
      /\ request.tool \in ARTIFACT_INSPECTION_TOOLS \ {"artifact_stat"}
      /\ fetched \in Objects
      /\ request.tool = "artifact_read_range" => ~PastTheEnd(record)
  BY DEF IInv
<1>2. record = RecordOf(artifact) /\ DeniedUnread(record) = "none"
  BY DEF CauseInv
<1>3. bytes \in Seq(STRING)
  BY <1>1 DEF Objects
<1>4. /\ Sound(record) /\ record.objectVersionRef = 1
  BY <1>1, <1>2, OwnRecord
<1>5. stored = Published =>
        /\ fetched.version = 1
        /\ bytes = IF request.tool = "artifact_read_range"
                   THEN Slice(artifact.source, CoveringRange(record).offset,
                              CoveringRange(record).length)
                   ELSE artifact.source
  <2>1. /\ readVersionedRange(record, Published).version = 1
        /\ readVersionedRange(record, Published).bytes =
             IF request.tool = "artifact_read_range"
             THEN Slice(artifact.source, CoveringRange(record).offset, CoveringRange(record).length)
             ELSE artifact.source
    BY <1>1, <1>4, PublishedRead, Zenon
  <2>2. stored = Published => fetched = readVersionedRange(record, Published)
    BY DEF CauseInv
  <2>3. QED
    BY <2>1, <2>2, Zenon
<1>6. CASE fetched.version = 0 \/ fetched.version # record.objectVersionRef
  <2>1. Conclusion \in {Denied("RESOURCE_UNAVAILABLE"), Denied("INTEGRITY_FAILURE")}
    BY <1>6 DEF Conclusion
  <2>2. stored # Published
    BY <1>4, <1>5, <1>6
  <2>3. QED
    BY <2>1, <2>2, DeniedIs
<1>7. CASE ~(fetched.version = 0 \/ fetched.version # record.objectVersionRef)
  <2>1. Conclusion = IF request.tool = "artifact_read_range" THEN artifactReadRange(record, bytes)
                     ELSE WithIndex(record, bytes, index)
    BY <1>7, Zenon DEF Conclusion
  <2> HIDE DEF index, bytes
  <2>2. CASE request.tool = "artifact_read_range"
    <3>1. Conclusion = artifactReadRange(record, bytes)
      BY <2>1, <2>2
    <3>2. /\ artifactReadRange(record, bytes).class # "INTERNAL_ERROR"
          /\ bytes = Slice(artifact.source, CoveringRange(record).offset,
                           CoveringRange(record).length) =>
               artifactReadRange(record, bytes).class # "INTEGRITY_FAILURE"
      BY <1>1, <1>2, <1>3, <2>2, RangeFits, Zenon
    <3>3. QED
      BY <1>5, <2>2, <3>1, <3>2, Zenon
  <2>3. CASE request.tool # "artifact_read_range"
    <3>1. request.tool \in WholeSourceTools
      BY <1>1, <2>3 DEF ARTIFACT_INSPECTION_TOOLS, WholeSourceTools
    <3>2. index = buildArtifactTextIndex(bytes, record.mediaType)
      BY DEF index
    <3>3. Fits(Conclusion, bytes)
      <4>1. CASE request.tool = "artifact_read_lines"
        <5>1. Conclusion = artifactReadLines(record, bytes, index)
          BY <2>1, <4>1 DEF WithIndex
        <5>2. Fits(artifactReadLines(record, bytes, index), bytes)
          BY <1>1, <1>2, <1>3, <3>2, <4>1, LinesFit
        <5>3. QED
          BY <5>1, <5>2
      <4>2. CASE request.tool = "artifact_read_heading"
        <5>1. Conclusion = artifactReadHeading(record, bytes, index)
          BY <2>1, <4>2 DEF WithIndex
        <5>2. Fits(artifactReadHeading(record, bytes, index), bytes)
          BY <1>1, <1>2, <1>3, <3>2, <4>2, HeadingFits
        <5>3. QED
          BY <5>1, <5>2
      <4>3. CASE request.tool = "artifact_search_exact"
        <5>1. Conclusion = artifactSearchExact(record, bytes, index)
          BY <2>1, <4>3 DEF WithIndex
        <5>2. Fits(artifactSearchExact(record, bytes, index), bytes)
          BY <1>1, <1>2, <1>3, <3>2, <4>3, SearchFits
        <5>3. QED
          BY <5>1, <5>2
      <4>4. QED
        BY <3>1, <4>1, <4>2, <4>3 DEF WholeSourceTools
    <3>4. stored = Published => bytes = artifact.source
      BY <1>5, <2>3, Zenon
    <3>5. QED
      BY <3>1, <3>3, <3>4 DEF Fits
  <2>4. QED
    BY <2>2, <2>3
<1>8. QED
  BY <1>6, <1>7

\* It holds from the beginning, and no step breaks it.
LEMMA CauseInductive == Spec => []CauseInv
<1>1. Init => CauseInv
  BY DEF Init, CauseInv, Empty
<1>2. IInv /\ CauseInv /\ [Next]_vars => CauseInv'
  <2> SUFFICES ASSUME IInv, CauseInv, [Next]_vars PROVE CauseInv'
    OBVIOUS
  <2>1. ASSUME artifact' = artifact, request' = request, record' = record, registry' = registry,
               fetched' = fetched, phase' = phase, answer' = answer,
               stored' = Published => stored = Published
        PROVE  CauseInv'
    BY <2>1 DEF CauseInv, Published, DeniedUnread, PastTheEnd, CoveringRange, readVersionedRange
  <2>2. CASE OverwriteObject
    BY <2>1, <2>2 DEF OverwriteObject, Published
  <2>3. CASE RemoveObject
    BY <2>1, <2>3 DEF RemoveObject, Published
  <2>4. CASE MiswriteRecord
    BY <2>4 DEF MiswriteRecord, CauseInv
  <2>5. CASE Resolve
    BY <2>5 DEF Resolve, CauseInv
  <2>6. CASE ResolveFails \/ AnswerUnread \/ Conclude \/ ConcludeTooLong
    BY <2>6 DEF ResolveFails, AnswerUnread, Conclude, ConcludeTooLong, CauseInv
  <2>7. CASE Fetch
    <3>1. /\ phase = "resolved" /\ DeniedUnread(record) = "none"
          /\ fetched' = readVersionedRange(record, stored) /\ phase' = "fetched"
          /\ artifact' = artifact /\ request' = request /\ record' = record /\ registry' = registry
          /\ stored' = stored /\ answer' = answer
      BY <2>7 DEF Fetch
    <3>2. record = registry
      BY <3>1 DEF CauseInv
    <3>3. Published' = Published
      BY <3>1 DEF Published
    <3>4. DeniedUnread(record)' = "none"
      BY <3>1 DEF DeniedUnread, PastTheEnd, CoveringRange
    <3>5. readVersionedRange(record, Published)' = readVersionedRange(record, Published)
      BY <3>1, <3>3 DEF readVersionedRange, CoveringRange
    <3>6. QED
      BY <3>1, <3>2, <3>3, <3>4, <3>5 DEF CauseInv
  <2>8. CASE UNCHANGED vars
    BY <2>1, <2>8 DEF vars, Published
  <2>9. QED
    BY <2>2, <2>3, <2>4, <2>5, <2>6, <2>7, <2>8 DEF Next
<1>3. QED
  BY <1>1, <1>2, Inductive, PTL DEF Spec

\* INTEGRITY_FAILURE for an object and a record nobody touched is a range past the end of the
\* source or a text that is not UTF-8.
THEOREM FailuresHaveACause == Spec => []IntegrityFailureHasACause
<1> DEFINE Cause == \/ /\ request.tool = "artifact_read_range"
                       /\ request.offset + request.length > Len(artifact.source)
                    \/ request.tool \in WholeSourceTools /\ ~IsUtf8(artifact.source)
<1>1. Init => IntegrityFailureHasACause
  BY DEF Init, Empty, IntegrityFailureHasACause
<1>2. IInv /\ CauseInv /\ IntegrityFailureHasACause /\ [Next]_vars => IntegrityFailureHasACause'
  <2> SUFFICES ASSUME IInv, CauseInv, IntegrityFailureHasACause, [Next]_vars,
                      answer'.class = "INTEGRITY_FAILURE", Unaltered'
               PROVE  Cause'
    BY DEF IntegrityFailureHasACause
  <2>1. artifact' = artifact /\ request' = request
    BY AnswerStep
  <2>2. registry' = RecordOf(artifact) /\ stored' = Published
    BY <2>1 DEF Unaltered, Published, RecordOf
  <2>3. SUFFICES Cause
    BY <2>1
  <2>4. artifact \in Artifacts /\ request \in Requests(artifact.source)
    BY DEF IInv
  <2>5. ASSUME answer' = answer, registry = RecordOf(artifact), stored = Published PROVE Cause
    BY <2>5 DEF IntegrityFailureHasACause, Unaltered
  <2>6. CASE OverwriteObject \/ RemoveObject \/ MiswriteRecord
    BY <2>2, <2>5, <2>6 DEF OverwriteObject, RemoveObject, MiswriteRecord
  <2>7. CASE Resolve \/ Fetch
    BY <2>2, <2>5, <2>7 DEF Resolve, Fetch
  <2>8. CASE ResolveFails
    <3>1. registry = RecordOf(artifact) /\ ~(MetadataValid(registry) /\ ManifestConsistent(registry))
      BY <2>2, <2>8 DEF ResolveFails
    <3>2. ManifestConsistent(registry)
      BY <2>4, <3>1, OwnRecord
    <3>3. answer' = Denied("INTERNAL_ERROR")
      BY <2>8, <3>1, <3>2 DEF ResolveFails
    <3>4. QED
      BY <3>3, DeniedIs
  <2>9. CASE AnswerUnread
    <3>1. registry = RecordOf(artifact) /\ phase = "resolved"
      BY <2>2, <2>9 DEF AnswerUnread
    <3>2. record = RecordOf(artifact)
      BY <3>1 DEF CauseInv
    <3>3. CASE request.tool = "artifact_stat"
      <4>1. answer' = artifactStat(record)
        BY <2>9, <3>3 DEF AnswerUnread
      <4>2. QED
        BY <2>4, <3>2, <4>1, StatFits
    <3>4. CASE request.tool # "artifact_stat"
      <4>1. answer' = Denied(DeniedUnread(record))
        BY <2>9, <3>4 DEF AnswerUnread
      <4>2. DeniedUnread(record) = "INTEGRITY_FAILURE"
        BY <4>1, DeniedIs
      <4>3. QED
        BY <2>4, <3>2, <3>4, <4>2, UnreadFits
    <3>5. QED
      BY <3>3, <3>4
  <2>10. CASE Conclude
    <3>1. /\ answer' = Conclusion /\ phase = "fetched"
          /\ registry = RecordOf(artifact) /\ stored = Published
      BY <2>2, <2>10 DEF Conclude
    <3>2. QED
      BY <3>1, ConclusionFits
  <2>11. CASE ConcludeTooLong
    BY <2>11, DeniedIs DEF ConcludeTooLong
  <2>12. CASE UNCHANGED vars
    BY <2>2, <2>5, <2>12 DEF vars
  <2>13. QED
    BY <2>6, <2>7, <2>8, <2>9, <2>10, <2>11, <2>12 DEF Next
<1>3. QED
  BY <1>1, <1>2, Inductive, CauseInductive, PTL DEF Spec

\* The output schemas accept every answer a tool has put together from the artifact's own record,
\* whatever the object holds: a record over a ceiling is refused before, and artifact_stat alone
\* may have no answer to give.
THEOREM SchemasFit == Spec => []CandidatesFitTheSchema
<1> DEFINE Cause == \/ ~WithinCeilings
                    \/ /\ request.tool = "artifact_stat"
                       /\ record.chunkCount > MAX_INLINE_CHUNK_HASHES /\ ~record.chunkHashesRef
<1>1. Init => CandidatesFitTheSchema
  BY DEF Init, Empty, CandidatesFitTheSchema
<1>2. IInv /\ CauseInv /\ CandidatesFitTheSchema /\ [Next]_vars => CandidatesFitTheSchema'
  <2> SUFFICES ASSUME IInv, CauseInv, CandidatesFitTheSchema, [Next]_vars,
                      answer'.class = "INTERNAL_ERROR", (registry = RecordOf(artifact))'
               PROVE  Cause'
    BY DEF CandidatesFitTheSchema
  <2>1. artifact' = artifact /\ request' = request
    BY AnswerStep
  <2>2. registry' = RecordOf(artifact)
    BY <2>1 DEF RecordOf
  <2>3. artifact \in Artifacts /\ request \in Requests(artifact.source)
    BY DEF IInv
  <2>4. ASSUME answer' = answer, registry = RecordOf(artifact), record' = record PROVE Cause'
    BY <2>1, <2>4 DEF CandidatesFitTheSchema, WithinCeilings
  <2>5. CASE OverwriteObject \/ RemoveObject \/ MiswriteRecord
    BY <2>2, <2>4, <2>5 DEF OverwriteObject, RemoveObject, MiswriteRecord
  <2>6. CASE Resolve
    <3>1. phase = "called" /\ answer' = answer
      BY <2>6 DEF Resolve
    <3>2. answer'.class = "none"
      BY <3>1 DEF CauseInv
    <3>3. QED
      BY <3>2
  <2>7. CASE Fetch
    BY <2>2, <2>4, <2>7 DEF Fetch
  <2>8. CASE ResolveFails
    <3>1. registry = RecordOf(artifact) /\ ~(MetadataValid(registry) /\ ManifestConsistent(registry))
      BY <2>2, <2>8 DEF ResolveFails
    <3>2. ~WithinCeilings
      BY <2>3, <3>1, OwnRecord
    <3>3. QED
      BY <2>1, <3>2 DEF WithinCeilings
  <2>9. CASE AnswerUnread
    <3>1. registry = RecordOf(artifact) /\ phase = "resolved" /\ record' = record
      BY <2>2, <2>9 DEF AnswerUnread
    <3>2. record = RecordOf(artifact)
      BY <3>1 DEF CauseInv
    <3>3. CASE request.tool = "artifact_stat"
      <4>1. answer' = artifactStat(record)
        BY <2>9, <3>3 DEF AnswerUnread
      <4>2. QED
        BY <2>1, <2>3, <3>1, <3>2, <3>3, <4>1, StatFits
    <3>4. CASE request.tool # "artifact_stat"
      <4>1. answer' = Denied(DeniedUnread(record))
        BY <2>9, <3>4 DEF AnswerUnread
      <4>2. DeniedUnread(record) = "INTERNAL_ERROR"
        BY <4>1, DeniedIs
      <4>3. QED
        BY <2>3, <3>2, <3>4, <4>2, UnreadFits
    <3>5. QED
      BY <3>3, <3>4
  <2>10. CASE Conclude
    <3>1. answer' = Conclusion /\ phase = "fetched" /\ registry = RecordOf(artifact)
      BY <2>2, <2>10 DEF Conclude
    <3>2. QED
      BY <3>1, ConclusionFits
  <2>11. CASE ConcludeTooLong
    BY <2>11, DeniedIs DEF ConcludeTooLong
  <2>12. CASE UNCHANGED vars
    BY <2>2, <2>4, <2>12 DEF vars
  <2>13. QED
    BY <2>5, <2>6, <2>7, <2>8, <2>9, <2>10, <2>11, <2>12 DEF Next
<1>3. QED
  BY <1>1, <1>2, Inductive, CauseInductive, PTL DEF Spec

-----------------------------------------------------------------------------
(***************************************************************************)
(* Identifiers of headings: numbers have different digits, the candidates  *)
(* for an identifier differ from the second on, and one of them is new.    *)
(***************************************************************************)

\* The names of the digits.
DigitNames == {"0", "1", "2", "3", "4", "5", "6", "7", "8", "9"}

\* Ten digits have ten names, none of them a hyphen.
LEMMA DigitIs ==
    /\ \A d \in 0..9 : Digit(d) \in DigitNames
    /\ \A d, e \in 0..9 : Digit(d) = Digit(e) => d = e
    /\ "-" \notin DigitNames
<1>1. /\ Digit(0) = "0" /\ Digit(1) = "1" /\ Digit(2) = "2" /\ Digit(3) = "3" /\ Digit(4) = "4"
      /\ Digit(5) = "5" /\ Digit(6) = "6" /\ Digit(7) = "7" /\ Digit(8) = "8" /\ Digit(9) = "9"
  BY DEF Digit
<1>2. \A d \in 0..9 : d \in {0, 1, 2, 3, 4, 5, 6, 7, 8, 9}
  OBVIOUS
<1>3. "-" \notin DigitNames
  BY DEF DigitNames
<1>4. \A d \in 0..9 : Digit(d) \in DigitNames
  BY <1>1, <1>2 DEF DigitNames
<1>5. \A d, e \in 0..9 : Digit(d) = Digit(e) => d = e
  BY <1>1, <1>2
<1>6. QED
  BY <1>3, <1>4, <1>5

\* Division by ten.
LEMMA Tenth ==
    ASSUME NEW n \in Nat
    PROVE  /\ n \div 10 \in Nat /\ n % 10 \in 0..9 /\ n = 10 * (n \div 10) + (n % 10)
           /\ n >= 10 => n \div 10 < n
OBVIOUS

\* One step of the definition of the digits.
DigitsOf(g, n) ==
    IF n < 10 THEN <<Digit(n)>> ELSE Append(g[n \div 10], Digit(n % 10))

\* The equations of digits, which is a recursive function on all natural numbers.
LEMMA DigitsIs == \A n \in Nat : digits[n] = DigitsOf(digits, n)
<1> DEFINE Is(g, n) == g = [k \in 0..n |-> DigitsOf(g, k)]
           T == {n \in Nat : \E g : Is(g, n)}
<1>1. 0 \in T
  <2> DEFINE h == [k \in 0..0 |-> <<Digit(0)>>]
  <2>1. ASSUME NEW k \in 0..0 PROVE h[k] = DigitsOf(h, k)
    BY DEF DigitsOf
  <2>2. Is(h, 0)
    BY <2>1
  <2>3. QED
    BY <2>2
<1>2. ASSUME NEW n \in Nat, n \in T PROVE n + 1 \in T
  <2>1. PICK g : Is(g, n)
    BY <1>2
  <2> DEFINE h == [k \in 0..(n + 1) |-> IF k = n + 1 THEN DigitsOf(g, n + 1) ELSE g[k]]
  <2>2. ASSUME NEW k \in 0..(n + 1) PROVE h[k] = DigitsOf(h, k)
    <3>1. k >= 10 => k \div 10 \in 0..n /\ h[k \div 10] = g[k \div 10]
      BY Tenth
    <3>2. DigitsOf(h, k) = DigitsOf(g, k)
      BY <3>1 DEF DigitsOf
    <3>3. CASE k = n + 1
      BY <3>2, <3>3
    <3>4. CASE k # n + 1
      <4>1. k \in 0..n /\ h[k] = g[k]
        BY <3>4
      <4>2. g[k] = DigitsOf(g, k)
        BY <2>1, <4>1
      <4>3. QED
        BY <3>2, <4>1, <4>2
    <3>5. QED
      BY <3>3, <3>4
  <2>3. h = [k \in 0..(n + 1) |-> h[k]]
    OBVIOUS
  <2> HIDE DEF h
  <2>4. Is(h, n + 1)
    BY <2>2, <2>3
  <2>5. QED
    BY <2>4
<1>3. ASSUME NEW n \in Nat PROVE \E g : Is(g, n)
  <2> HIDE DEF T
  <2>1. n \in T
    BY <1>1, <1>2, SetInduction
  <2>2. QED
    BY <2>1 DEF T
<1>4. ASSUME NEW n \in Nat, NEW m \in Nat, n <= m, NEW g, NEW h, Is(g, n), Is(h, m)
      PROVE  \A k \in 0..n : g[k] = h[k]
  <2> DEFINE U == {k \in 0..n : g[k] # h[k]}
  <2>1. SUFFICES ASSUME U # {} PROVE FALSE
    OBVIOUS
  <2>2. U \subseteq Nat
    OBVIOUS
  <2>3. PICK k \in U : \A j \in U : k <= j
    BY <2>1, <2>2, LeastNatural
  <2>4. k \in 0..n /\ k \in 0..m /\ g[k] = DigitsOf(g, k) /\ h[k] = DigitsOf(h, k)
    <3>1. k \in 0..n /\ k \in 0..m
      BY <1>4
    <3>2. g[k] = DigitsOf(g, k)
      BY <1>4, <3>1
    <3>3. h[k] = DigitsOf(h, k)
      BY <1>4, <3>1
    <3>4. QED
      BY <3>1, <3>2, <3>3
  <2>5. k >= 10 => k \div 10 \in 0..n /\ k \div 10 < k
    BY <2>4, Tenth
  <2>6. k >= 10 => g[k \div 10] = h[k \div 10]
    BY <2>3, <2>4, <2>5
  <2>7. g[k] = h[k]
    BY <2>4, <2>6 DEF DigitsOf
  <2>8. QED
    BY <2>3, <2>7
<1> DEFINE first == [n \in Nat |-> CHOOSE g : Is(g, n)]
           whole == [n \in Nat |-> first[n][n]]
<1>5. ASSUME NEW n \in Nat PROVE Is(first[n], n)
  <2>1. first[n] = CHOOSE g : Is(g, n)
    OBVIOUS
  <2> HIDE DEF Is, first
  <2>2. QED
    BY <1>3, <2>1
<1>6. ASSUME NEW n \in Nat PROVE whole[n] = DigitsOf(whole, n)
  <2> HIDE DEF first
  <2>1. whole[n] = DigitsOf(first[n], n)
    <3>1. n \in 0..n /\ whole[n] = first[n][n]
      OBVIOUS
    <3>2. QED
      BY <1>5, <3>1
  <2>2. n >= 10 => whole[n \div 10] = first[n][n \div 10]
    <3>1. SUFFICES ASSUME n >= 10 PROVE whole[n \div 10] = first[n][n \div 10]
      OBVIOUS
    <3> DEFINE q == n \div 10
    <3>2. q \in Nat /\ q <= n /\ q \in 0..q
      BY <3>1, Tenth
    <3> HIDE DEF q, Is
    <3>3. first[q][q] = first[n][q]
      BY <1>4, <1>5, <3>2
    <3>4. whole[q] = first[q][q]
      BY <3>2
    <3>5. QED
      BY <3>3, <3>4 DEF q
  <2> HIDE DEF whole
  <2>3. QED
    BY <2>1, <2>2 DEF DigitsOf
<1>7. whole = [n \in Nat |-> IF n < 10 THEN <<Digit(n)>> ELSE Append(whole[n \div 10], Digit(n % 10))]
  <2>1. whole = [n \in Nat |-> whole[n]]
    OBVIOUS
  <2> HIDE DEF whole
  <2>2. QED
    BY <1>6, <2>1 DEF DigitsOf
<1> HIDE DEF whole
<1>8. digits = [n \in Nat |-> IF n < 10 THEN <<Digit(n)>> ELSE Append(digits[n \div 10], Digit(n % 10))]
  BY <1>7, Zenon DEF digits
<1>9. QED
  BY <1>8 DEF DigitsOf

\* The digits of a number are digits, at least one.
LEMMA DigitsTyped ==
    ASSUME NEW n \in Nat
    PROVE  digits[n] \in Seq(DigitNames) /\ Len(digits[n]) \in Nat \ {0}
<1> DEFINE U == {k \in Nat : digits[k] \notin Seq(DigitNames)}
<1>1. U = {}
  <2>1. SUFFICES ASSUME U # {} PROVE FALSE
    OBVIOUS
  <2>2. PICK k \in U : \A j \in U : k <= j
    BY <2>1, LeastNatural
  <2>3. k \in Nat /\ digits[k] = DigitsOf(digits, k)
    BY DigitsIs
  <2>4. CASE k < 10
    <3>1. digits[k] = <<Digit(k)>> /\ Digit(k) \in DigitNames
      BY <2>3, <2>4, DigitIs DEF DigitsOf
    <3> DEFINE digit == Digit(k)
    <3> HIDE DEF digit
    <3>2. <<digit>> \in Seq(DigitNames)
      BY <3>1 DEF digit
    <3>3. QED
      BY <2>2, <3>1, <3>2 DEF digit
  <2>5. CASE k >= 10
    <3>1. k \div 10 \in Nat /\ k \div 10 < k /\ k % 10 \in 0..9
      BY <2>3, <2>5, Tenth
    <3>2. digits[k \div 10] \in Seq(DigitNames)
      BY <2>2, <3>1
    <3>3. digits[k] = Append(digits[k \div 10], Digit(k % 10))
      BY <2>3, <2>5 DEF DigitsOf
    <3>4. Digit(k % 10) \in DigitNames
      BY <3>1, DigitIs
    <3> DEFINE tenth == digits[k \div 10]
               digit == Digit(k % 10)
    <3> HIDE DEF tenth, digit
    <3>5. Append(tenth, digit) \in Seq(DigitNames)
      BY <3>2, <3>4, AppendProperties DEF tenth, digit
    <3>6. QED
      BY <2>2, <3>3, <3>5 DEF tenth, digit
  <2>6. QED
    BY <2>3, <2>4, <2>5
<1>2. \A k \in Nat : digits[k] \in Seq(DigitNames)
  BY <1>1
<1>3. digits[n] # <<>>
  <2>1. digits[n] = DigitsOf(digits, n)
    BY DigitsIs
  <2>2. CASE n < 10
    BY <2>1, <2>2 DEF DigitsOf
  <2>3. CASE n >= 10
    <3>1. n \div 10 \in Nat /\ Digit(n % 10) \in DigitNames
      BY <2>3, Tenth, DigitIs
    <3>2. digits[n \div 10] \in Seq(DigitNames)
      BY <1>2, <3>1
    <3>3. digits[n] = Append(digits[n \div 10], Digit(n % 10))
      BY <2>1, <2>3 DEF DigitsOf
    <3> DEFINE tenth == digits[n \div 10]
               digit == Digit(n % 10)
    <3> HIDE DEF tenth, digit
    <3>4. Append(tenth, digit) # <<>>
      BY <3>1, <3>2, AppendProperties DEF tenth, digit
    <3>5. QED
      BY <3>3, <3>4 DEF tenth, digit
  <2>4. QED
    BY <2>2, <2>3
<1>4. QED
  BY <1>2, <1>3

\* Numbers with the same digits are the same.
LEMMA DigitsDiffer ==
    ASSUME NEW m \in Nat, NEW n \in Nat, digits[m] = digits[n]
    PROVE  m = n
<1> DEFINE U == {k \in Nat : \E j \in Nat : j # k /\ digits[j] = digits[k]}
<1>1. SUFFICES ASSUME U # {} PROVE FALSE
  OBVIOUS
<1>2. PICK k \in U : \A i \in U : k <= i
  BY <1>1, LeastNatural
<1>3. PICK j \in Nat : j # k /\ digits[j] = digits[k]
  OBVIOUS
<1>4. k \in Nat /\ j \in U /\ k <= j
  BY <1>2, <1>3
<1>5. digits[k] = DigitsOf(digits, k) /\ digits[j] = DigitsOf(digits, j)
  BY <1>4, DigitsIs
<1> HIDE DEF U
<1> DEFINE a == digits[k \div 10]
           b == digits[j \div 10]
<1>6. /\ k \div 10 \in Nat /\ k % 10 \in 0..9 /\ k = 10 * (k \div 10) + (k % 10)
      /\ j \div 10 \in Nat /\ j % 10 \in 0..9 /\ j = 10 * (j \div 10) + (j % 10)
      /\ k >= 10 => k \div 10 < k
  BY <1>4, Tenth
<1>7. /\ a \in Seq(DigitNames) /\ Len(a) \in Nat \ {0} /\ Digit(k % 10) \in DigitNames
      /\ b \in Seq(DigitNames) /\ Len(b) \in Nat \ {0} /\ Digit(j % 10) \in DigitNames
  BY <1>6, DigitsTyped, DigitIs
<1>8. CASE j < 10
  <2>1. k < 10 /\ k \in 0..9 /\ j \in 0..9
    BY <1>4, <1>8
  <2>2. <<Digit(j)>> = <<Digit(k)>>
    BY <1>3, <1>5, <1>8, <2>1 DEF DigitsOf
  <2>3. Digit(j) = Digit(k)
    BY <2>2
  <2>4. QED
    BY <1>3, <2>1, <2>3, DigitIs
<1>9. CASE j >= 10 /\ k < 10
  <2>1. Append(b, Digit(j % 10)) = <<Digit(k)>>
    <3>1. ~(j < 10)
      BY <1>9
    <3>2. DigitsOf(digits, j) = Append(b, Digit(j % 10)) /\ DigitsOf(digits, k) = <<Digit(k)>>
      BY <1>9, <3>1, Zenon DEF DigitsOf
    <3>3. QED
      BY <1>3, <1>5, <3>2, Zenon
  <2>2. Len(Append(b, Digit(j % 10))) = Len(b) + 1 /\ Len(<<Digit(k)>>) = 1
    BY <1>7, AppendProperties
  <2>3. Len(b) + 1 = 1
    BY <2>1, <2>2
  <2>4. QED
    BY <1>7, <2>3
<1>10. CASE j >= 10 /\ k >= 10
  <2>1. Append(b, Digit(j % 10)) = Append(a, Digit(k % 10))
    <3>1. ~(j < 10) /\ ~(k < 10)
      BY <1>4, <1>10
    <3>2. /\ DigitsOf(digits, j) = Append(b, Digit(j % 10))
          /\ DigitsOf(digits, k) = Append(a, Digit(k % 10))
      BY <3>1, Zenon DEF DigitsOf
    <3>3. QED
      BY <1>3, <1>5, <3>2, Zenon
  <2> DEFINE dj == Digit(j % 10)
             dk == Digit(k % 10)
  <2> HIDE DEF a, b, dj, dk
  <2>2. a = b /\ dj = dk
    <3>1. Append(b, dj) = Append(a, dk)
      BY <2>1 DEF dj, dk
    <3>2. dj \in DigitNames /\ dk \in DigitNames /\ a \in Seq(DigitNames) /\ b \in Seq(DigitNames)
      BY <1>7 DEF dj, dk
    <3>3. QED
      BY <3>1, <3>2, AppendInjective
  <2>3. j % 10 = k % 10
    BY <1>6, <2>2, DigitIs DEF dj, dk
  <2>4. j \div 10 # k \div 10
    BY <1>3, <1>6, <2>3
  <2>5. k \div 10 \in U
    BY <1>6, <2>2, <2>4 DEF U, a, b
  <2>6. k <= k \div 10
    BY <1>2, <2>5
  <2>7. QED
    BY <1>4, <1>6, <1>10, <2>6
<1>11. QED
  BY <1>4, <1>8, <1>9, <1>10

\* A text ends in a hyphen and these digits.
EndsIn(x, d) ==
    /\ Len(x) \in Nat /\ Len(d) \in Nat /\ Len(d) < Len(x)
    /\ x[Len(x) - Len(d)] = "-"
    /\ \A i \in 1..Len(d) : x[Len(x) - Len(d) + i] = d[i]

\* The shorter of two endings would have its hyphen among the digits of the longer one.
LEMMA NoLongerEnd ==
    ASSUME NEW x, NEW d \in Seq(DigitNames), NEW e \in Seq(DigitNames), EndsIn(x, d), EndsIn(x, e)
    PROVE  ~(Len(d) < Len(e))
<1> SUFFICES ASSUME Len(d) < Len(e) PROVE FALSE
  OBVIOUS
<1> DEFINE i == Len(e) - Len(d)
<1>1. Len(x) \in Nat /\ Len(d) \in Nat /\ Len(e) \in Nat
  BY DEF EndsIn
<1>2. i \in 1..Len(e) /\ Len(x) - Len(e) + i = Len(x) - Len(d)
  BY <1>1
<1> HIDE DEF i
<1>3. x[Len(x) - Len(d)] = e[i]
  BY <1>2 DEF EndsIn
<1>4. e[i] = "-"
  BY <1>3 DEF EndsIn
<1>5. e[i] \in DigitNames
  BY <1>2
<1>6. QED
  BY <1>4, <1>5, DigitIs

\* So a text ends in one number only.
LEMMA OneEnd ==
    ASSUME NEW x, NEW d \in Seq(DigitNames), NEW e \in Seq(DigitNames), EndsIn(x, d), EndsIn(x, e)
    PROVE  d = e
<1>1. Len(d) \in Nat /\ Len(e) \in Nat
  BY DEF EndsIn
<1>2. ~(Len(d) < Len(e)) /\ ~(Len(e) < Len(d))
  BY NoLongerEnd
<1>3. Len(d) = Len(e)
  BY <1>1, <1>2
<1>4. ASSUME NEW i \in 1..Len(d) PROVE d[i] = e[i]
  <2>1. x[Len(x) - Len(d) + i] = d[i]
    BY DEF EndsIn
  <2>2. x[Len(x) - Len(e) + i] = e[i]
    BY <1>3 DEF EndsIn
  <2>3. QED
    BY <1>3, <2>1, <2>2
<1>5. QED
  BY <1>3, <1>4, SeqEqual

\* The n-th identifier that is tried for a slug.
Tried(slug, n) ==
    IF n = 1 THEN prefix(slug, MAX_HEADING_ID_LENGTH)
    ELSE prefix(slug, MAX_HEADING_ID_LENGTH - Len(<<"-">> \o digits[n])) \o (<<"-">> \o digits[n])

\* The beginning of a slug is text.
LEMMA PrefixTyped ==
    ASSUME NEW S, NEW slug \in Seq(S), NEW n \in Int
    PROVE  prefix(slug, n) \in Seq(S)
<1> DEFINE m == IF n < Len(slug) THEN n ELSE Len(slug)
<1>1. m \in Int /\ m <= Len(slug) /\ 1 \in Int
  OBVIOUS
<1>2. prefix(slug, n) = SubSeq(slug, 1, m)
  BY DEF prefix
<1> HIDE DEF m
<1>3. \A i \in 1..m : slug[i] \in S
  BY <1>1
<1>4. SubSeq(slug, 1, m) \in Seq(S)
  BY <1>1, <1>3, SubSeqProperties
<1>5. QED
  BY <1>2, <1>4

\* Where the characters of a concatenation come from.
LEMMA Joined ==
    ASSUME NEW S, NEW s \in Seq(S), NEW t \in Seq(S)
    PROVE  /\ s \o t \in Seq(S) /\ Len(s) \in Nat /\ Len(t) \in Nat
           /\ Len(s \o t) = Len(s) + Len(t)
           /\ \A i \in 1..Len(s) : (s \o t)[i] = s[i]
           /\ \A i \in 1..Len(t) : (s \o t)[Len(s) + i] = t[i]
<1> DEFINE x == s \o t
<1>1. /\ x \in Seq(S) /\ Len(x) = Len(s) + Len(t)
      /\ \A i \in 1..(Len(s) + Len(t)) : x[i] = IF i <= Len(s) THEN s[i] ELSE t[i - Len(s)]
  BY ConcatProperties
<1> HIDE DEF x
<1>2. Len(s) \in Nat /\ Len(t) \in Nat
  OBVIOUS
<1>3. ASSUME NEW i \in 1..Len(s) PROVE x[i] = s[i]
  BY <1>1, <1>2
<1>4. ASSUME NEW i \in 1..Len(t) PROVE x[Len(s) + i] = t[i]
  <2>1. /\ Len(s) + i \in 1..(Len(s) + Len(t)) /\ ~(Len(s) + i <= Len(s))
        /\ (Len(s) + i) - Len(s) = i
    BY <1>2
  <2>2. QED
    BY <1>1, <2>1
<1>5. QED
  BY <1>1, <1>2, <1>3, <1>4 DEF x

\* From the second on they end in their number.
LEMMA TriedEnds ==
    ASSUME NEW S, NEW slug \in Seq(S), NEW n \in Nat, n > 1
    PROVE  EndsIn(Tried(slug, n), digits[n])
<1> DEFINE C == S \cup DigitNames \cup {"-"}
           d == digits[n]
           hyphen == <<"-">>
           suffix == hyphen \o d
           front == prefix(slug, MAX_HEADING_ID_LENGTH - Len(suffix))
           x == front \o suffix
<1>1. d \in Seq(DigitNames) /\ d \in Seq(C) /\ Len(d) \in Nat
  <2>1. d \in Seq(DigitNames)
    BY DigitsTyped
  <2> HIDE DEF d
  <2>2. d \in Seq(C)
    BY <2>1, SeqMonotonic
  <2>3. QED
    BY <2>1, <2>2
<1> HIDE DEF d
<1>2. /\ suffix \in Seq(C) /\ Len(suffix) = 1 + Len(d) /\ suffix[1] = "-"
      /\ \A i \in 1..Len(d) : suffix[1 + i] = d[i]
  <2>1. hyphen \in Seq(C) /\ Len(hyphen) = 1 /\ hyphen[1] = "-" /\ 1 \in 1..1
    OBVIOUS
  <2> HIDE DEF hyphen
  <2>2. /\ suffix \in Seq(C) /\ Len(suffix) = Len(hyphen) + Len(d)
        /\ \A i \in 1..Len(hyphen) : suffix[i] = hyphen[i]
        /\ \A i \in 1..Len(d) : suffix[Len(hyphen) + i] = d[i]
    BY <1>1, <2>1, Joined, SMTT(30)
  <2> HIDE DEF suffix, C
  <2>3. QED
    BY <2>1, <2>2
<1> HIDE DEF suffix
<1>3. front \in Seq(C) /\ Len(front) \in Nat
  <2>1. MAX_HEADING_ID_LENGTH \in Nat
    BY TextIndexBounds
  <2>2. MAX_HEADING_ID_LENGTH - Len(suffix) \in Int
    BY <1>1, <1>2, <2>1
  <2>3. front \in Seq(C)
    <3>1. slug \in Seq(C)
      BY SeqMonotonic
    <3>2. QED
      BY <2>2, <3>1, PrefixTyped
  <2> HIDE DEF front
  <2>4. QED
    BY <2>3
<1> HIDE DEF front
<1>4. /\ Len(x) = Len(front) + Len(suffix)
      /\ \A i \in 1..Len(suffix) : x[Len(front) + i] = suffix[i]
  <2> HIDE DEF C
  <2>1. front \in Seq(C) /\ suffix \in Seq(C)
    BY <1>2, <1>3
  <2>2. QED
    BY <2>1, Joined
<1>5. Tried(slug, n) = x
  <2>1. n # 1
    OBVIOUS
  <2>2. QED
    BY <2>1, Zenon DEF Tried, x, front, suffix, d
<1> HIDE DEF x
<1>6. Len(x) \in Nat /\ Len(d) < Len(x) /\ Len(x) - Len(d) = Len(front) + 1
  BY <1>1, <1>2, <1>3, <1>4
<1>7. x[Len(front) + 1] = "-"
  <2>1. 1 \in 1..Len(suffix)
    BY <1>1, <1>2
  <2>2. QED
    BY <1>2, <1>4, <2>1
<1>8. ASSUME NEW i \in 1..Len(d) PROVE x[Len(x) - Len(d) + i] = d[i]
  <2>1. 1 + i \in 1..Len(suffix) /\ Len(x) - Len(d) + i = Len(front) + (1 + i)
    <3>1. i \in Nat /\ 1 <= i /\ i <= Len(d)
      BY <1>1
    <3>2. QED
      <4>1. 1 + i \in 1..Len(suffix)
        BY <1>1, <1>2, <3>1
      <4>2. Len(x) - Len(d) + i = Len(front) + (1 + i)
        BY <1>3, <1>6, <3>1
      <4>3. QED
        BY <4>1, <4>2
  <2>2. QED
    BY <1>2, <1>4, <2>1
<1>9. EndsIn(x, d)
  BY <1>1, <1>6, <1>7, <1>8 DEF EndsIn
<1>10. QED
  BY <1>5, <1>9 DEF d

\* So they differ from the second on.
LEMMA TriedDiffer ==
    ASSUME NEW S, NEW slug \in Seq(S), NEW m \in Nat, NEW n \in Nat, m > 1, n > 1,
           Tried(slug, m) = Tried(slug, n)
    PROVE  m = n
<1>1. EndsIn(Tried(slug, m), digits[m]) /\ EndsIn(Tried(slug, n), digits[n])
  BY TriedEnds
<1>2. digits[m] \in Seq(DigitNames) /\ digits[n] \in Seq(DigitNames)
  BY DigitsTyped
<1>3. digits[m] = digits[n]
  BY <1>1, <1>2, OneEnd, Zenon
<1>4. QED
  BY <1>3, DigitsDiffer

\* nextHeadingId finds an identifier that is not in use.
LEMMA NewId ==
    ASSUME NEW S, NEW slug \in Seq(S), NEW used, IsFiniteSet(used)
    PROVE  nextHeadingId(slug, used) \notin used
<1> DEFINE c == Cardinality(used)
           R == 2..(c + 2)
           f == [n \in R |-> Tried(slug, n)]
           Free == {n \in 1..(c + 2) : Tried(slug, n) \notin used}
<1>1. c \in Nat
  BY FS_CardinalityType
<1>2. IsFiniteSet(R) /\ Cardinality(R) = c + 1
  <2> DEFINE e == c + 2
  <2>0. e = c + 2
    OBVIOUS
  <2> HIDE DEF c, e
  <2>1. 2 \in Int /\ e \in Int /\ ~(2 > e) /\ e - 2 + 1 = c + 1
    BY <1>1, <2>0
  <2>2. IsFiniteSet(2..e) /\ Cardinality(2..e) = IF 2 > e THEN 0 ELSE e - 2 + 1
    BY <2>1, FS_Interval, Zenon
  <2>3. QED
    BY <2>0, <2>1, <2>2
<1>3. Free # {}
  <2>1. SUFFICES ASSUME Free = {} PROVE FALSE
    OBVIOUS
  <2> HIDE DEF c
  <2>2. \A n \in R : n \in 1..(c + 2) /\ n \in Nat /\ n > 1
    BY <1>1
  <2>3. f \in [R -> used]
    BY <2>1, <2>2
  <2>4. Cardinality(used) < Cardinality(R)
    BY <1>1, <1>2 DEF c
  <2> HIDE DEF R, f
  <2>5. PICK m \in R, n \in R : m # n /\ f[m] = f[n]
    BY <1>2, <2>3, <2>4, FS_PigeonHole
  <2>6. Tried(slug, m) = Tried(slug, n)
    BY <2>5 DEF f
  <2>7. QED
    BY <2>2, <2>5, <2>6, TriedDiffer
<1>4. Free \subseteq Nat
  BY <1>1
<1>5. PICK n \in Free : \A m \in Free : n <= m
  BY <1>3, <1>4, LeastNatural
<1>6. n \in 1..(c + 2) /\ Tried(slug, n) \notin used
  OBVIOUS
<1>7. ASSUME NEW m \in 1..(n - 1) PROVE Tried(slug, m) \in used
  <2> HIDE DEF c
  <2>1. m \in 1..(c + 2) /\ ~(n <= m)
    BY <1>1, <1>6
  <2>2. QED
    BY <1>5, <2>1
<1> DEFINE Chosen(k) == /\ Tried(slug, k) \notin used
                        /\ \A m \in 1..(k - 1) : Tried(slug, m) \in used
           k0 == CHOOSE k \in 1..(c + 2) : Chosen(k)
<1>8. Chosen(n)
  BY <1>6, <1>7
<1>9. nextHeadingId(slug, used) = Tried(slug, k0)
  BY DEF nextHeadingId, Tried
<1> HIDE DEF Chosen
<1>10. Chosen(k0)
  BY <1>6, <1>8
<1>11. Tried(slug, k0) \notin used
  BY <1>10 DEF Chosen
<1>12. QED
  BY <1>9, <1>11

-----------------------------------------------------------------------------
(***************************************************************************)
(* Loops over text: what is decoded, and what a slug and a heading are.    *)
(***************************************************************************)

\* What the start of a loop is in and every iteration stays in.
LEMMA LoopStays ==
    ASSUME NEW S, NEW n \in Nat, NEW f, f[0] \in S, \A k \in 1..n : f[k - 1] \in S => f[k] \in S
    PROVE  \A k \in 0..n : f[k] \in S
<1> DEFINE T == {k \in Nat : k <= n => f[k] \in S}
<1>1. 0 \in T
  OBVIOUS
<1>2. ASSUME NEW k \in Nat, k \in T PROVE k + 1 \in T
  <2>1. SUFFICES ASSUME k + 1 <= n PROVE f[k + 1] \in S
    OBVIOUS
  <2>2. k + 1 \in 1..n /\ k <= n /\ (k + 1) - 1 = k
    BY <2>1
  <2>3. f[k] \in S
    BY <1>2, <2>2
  <2>4. QED
    BY <2>2, <2>3
<1> HIDE DEF T
<1>3. Nat \subseteq T
  BY <1>1, <1>2, SetInduction
<1>4. QED
  BY <1>3 DEF T

\* The states of a loop after each number of iterations.
Runs(g, S, start, n, step) ==
    g \in [0..n -> S] /\ g[0] = start /\ \A k \in 1..n : g[k] = step[<<g[k - 1], k>>]

\* A loop over states of a set has a state after each iteration.
LEMMA LoopRuns ==
    ASSUME NEW S, NEW start \in S, NEW n \in Nat, NEW step, step \in [S \X (1..n) -> S]
    PROVE  \E g : Runs(g, S, start, n, step)
<1> DEFINE T == {m \in Nat : m <= n => \E g : Runs(g, S, start, m, step)}
<1>1. 0 \in T
  <2> DEFINE h == [k \in 0..0 |-> start]
  <2>1. Runs(h, S, start, 0, step)
    BY DEF Runs
  <2>2. QED
    BY <2>1
<1>2. ASSUME NEW m \in Nat, m \in T PROVE m + 1 \in T
  <2>1. SUFFICES ASSUME m + 1 <= n PROVE \E g : Runs(g, S, start, m + 1, step)
    OBVIOUS
  <2>2. PICK g : Runs(g, S, start, m, step)
    BY <1>2, <2>1
  <2> DEFINE h == [k \in 0..(m + 1) |-> IF k = m + 1 THEN step[<<g[m], m + 1>>] ELSE g[k]]
  <2>3. g[m] \in S /\ <<g[m], m + 1>> \in S \X (1..n)
    BY <2>1, <2>2 DEF Runs
  <2>4. h \in [0..(m + 1) -> S]
    <3>1. step[<<g[m], m + 1>>] \in S
      BY <2>3
    <3>2. ASSUME NEW k \in 0..(m + 1), k # m + 1 PROVE g[k] \in S
      BY <2>2, <3>2 DEF Runs
    <3>3. QED
      BY <3>1, <3>2
  <2>5. h[0] = start
    BY <2>2 DEF Runs
  <2>6. ASSUME NEW k \in 1..(m + 1) PROVE h[k] = step[<<h[k - 1], k>>]
    <3>1. CASE k = m + 1
      <4>1. k - 1 = m /\ m \in 0..(m + 1) /\ m # m + 1 /\ k \in 0..(m + 1)
        BY <3>1
      <4>2. h[k] = step[<<g[m], m + 1>>] /\ h[m] = g[m]
        BY <3>1, <4>1
      <4> HIDE DEF h
      <4>3. QED
        BY <3>1, <4>1, <4>2
    <3>2. CASE k # m + 1
      <4>1. k \in 1..m /\ k - 1 \in 0..(m + 1) /\ k - 1 # m + 1 /\ k \in 0..(m + 1)
        BY <3>2
      <4>2. h[k] = g[k] /\ h[k - 1] = g[k - 1]
        BY <3>2, <4>1
      <4>3. g[k] = step[<<g[k - 1], k>>]
        BY <2>2, <4>1 DEF Runs
      <4> HIDE DEF h
      <4>4. QED
        BY <4>2, <4>3
    <3>3. QED
      BY <3>1, <3>2
  <2> HIDE DEF h
  <2>7. Runs(h, S, start, m + 1, step)
    BY <2>4, <2>5, <2>6 DEF Runs
  <2>8. QED
    BY <2>7
<1> HIDE DEF T
<1>3. n \in T
  BY <1>1, <1>2, SetInduction
<1>4. \E g : Runs(g, S, start, n, step)
  BY <1>3 DEF T
<1>5. QED
  BY <1>4

\* Bytes that are text are decoded to text.
LEMMA DecodeTyped ==
    ASSUME NEW bytes \in Seq(STRING)
    PROVE  decode(bytes) \in Seq(STRING)
<1> DEFINE n == Len(bytes)
           Is(g) == g = [k \in 0..n |-> IF k = 0 THEN <<>>
                                        ELSE IF bytes[k] = "A9" THEN g[k - 1]
                                        ELSE Append(g[k - 1], bytes[k])]
           f == CHOOSE g : Is(g)
           S == Seq(STRING)
           next(s, k) == IF bytes[k] = "A9" THEN s ELSE Append(s, bytes[k])
           step == [x \in S \X (1..n) |-> next(x[1], x[2])]
<1>1. n \in Nat /\ <<>> \in S
  OBVIOUS
<1>2. ASSUME NEW s \in S, NEW k \in 1..n PROVE next(s, k) \in S
  <2>1. bytes[k] \in STRING
    OBVIOUS
  <2>2. Append(s, bytes[k]) \in S
    BY <2>1, AppendProperties
  <2>3. QED
    BY <2>2
<1> HIDE DEF next
<1>3. step \in [S \X (1..n) -> S]
  BY <1>2
<1>4. PICK g : g \in [0..n -> S] /\ g[0] = <<>> /\ \A k \in 1..n : g[k] = step[<<g[k - 1], k>>]
  <2> HIDE DEF step, S, n
  <2>1. \E g : Runs(g, S, <<>>, n, step)
    BY <1>1, <1>3, LoopRuns, Zenon
  <2>2. QED
    BY <2>1 DEF Runs
<1>5. ASSUME NEW k \in 0..n
      PROVE  g[k] = IF k = 0 THEN <<>> ELSE IF bytes[k] = "A9" THEN g[k - 1]
                                       ELSE Append(g[k - 1], bytes[k])
  <2>1. CASE k = 0
    BY <1>4, <2>1
  <2>2. CASE k # 0
    <3>1. k \in 1..n /\ k - 1 \in 0..n
      BY <1>1, <2>2
    <3>2. g[k] = next(g[k - 1], k)
      BY <1>4, <3>1
    <3>3. QED
      BY <2>2, <3>2 DEF next
  <2>3. QED
    BY <2>1, <2>2
<1>6. Is(g)
  <2>1. g = [k \in 0..n |-> g[k]]
    BY <1>4
  <2>2. QED
    BY <1>5, <2>1
<1>7. Is(f)
  BY <1>6, Zenon
<1>8. decode(bytes) = f[n]
  BY DEF decode
<1> HIDE DEF f
<1>9. f[0] \in S
  BY <1>1, <1>7
<1>10. ASSUME NEW k \in 1..n, f[k - 1] \in S PROVE f[k] \in S
  <2>1. k \in 0..n /\ k # 0
    OBVIOUS
  <2>2. f[k] = next(f[k - 1], k)
    BY <1>7, <2>1 DEF next
  <2>3. QED
    BY <1>2, <1>10, <2>2
<1>11. f[n] \in S
  <2> HIDE DEF S, n
  <2>1. \A k \in 0..n : f[k] \in S
    BY <1>1, <1>9, <1>10, LoopStays
  <2>2. QED
    BY <1>1, <2>1
<1>12. QED
  BY <1>8, <1>11

\* The characters of slugs.
SlugNames == Alphanumeric \cup {"u", "-", "e", "9", "h", "a", "d", "i", "n", "g"}

\* The states of the loop of headingSlug.
SlugStates == [slug : Seq(SlugNames), separator : BOOLEAN]

\* A character adds characters of slugs.
LEMMA SlugStepTyped ==
    ASSUME NEW acc \in SlugStates, NEW c
    PROVE  slugStep(acc, c) \in SlugStates
<1> DEFINE token == IF c = "C3" THEN <<"u", "-", "-", "e", "9", "-", "-">> ELSE <<lower(c)>>
           joint == IF acc.separator /\ acc.slug # <<>> THEN <<"-">> ELSE <<>>
<1>1. acc.slug \in Seq(SlugNames) /\ acc.separator \in BOOLEAN
      /\ acc = [slug |-> acc.slug, separator |-> acc.separator]
  BY DEF SlugStates
<1>2. "u" \in SlugNames /\ "-" \in SlugNames /\ "e" \in SlugNames /\ "9" \in SlugNames
  BY DEF SlugNames
<1>3. joint \in Seq(SlugNames)
  BY <1>2
<1>4. CASE c = "C3" \/ lower(c) \in Alphanumeric
  <2>1. token \in Seq(SlugNames)
    <3>1. CASE c = "C3"
      <4>1. <<"u", "-", "-", "e", "9", "-", "-">> \in Seq(SlugNames)
        BY <1>2
      <4>2. QED
        BY <3>1, <4>1
    <3>2. CASE c # "C3"
      <4> DEFINE l == lower(c)
      <4>1. l \in SlugNames
        BY <1>4, <3>2 DEF SlugNames
      <4> HIDE DEF l
      <4>2. <<l>> \in Seq(SlugNames)
        BY <4>1
      <4>3. QED
        BY <3>2, <4>2 DEF l
    <3>3. QED
      BY <3>1, <3>2
  <2>2. slugStep(acc, c) = [slug |-> acc.slug \o joint \o token, separator |-> FALSE]
    BY <1>4, Zenon DEF slugStep
  <2> HIDE DEF token, joint
  <2>3. acc.slug \o joint \o token \in Seq(SlugNames)
    BY <1>1, <1>3, <2>1
  <2>4. QED
    BY <2>2, <2>3 DEF SlugStates
<1>5. CASE ~(c = "C3" \/ lower(c) \in Alphanumeric)
  <2>1. slugStep(acc, c) = [acc EXCEPT !.separator = TRUE]
    BY <1>5, Zenon DEF slugStep
  <2>2. QED
    BY <1>1, <2>1 DEF SlugStates
<1>6. QED
  BY <1>4, <1>5

\* A slug is text, of whatever text it is made.
LEMMA SlugTyped ==
    ASSUME NEW text, Len(text) \in Nat
    PROVE  headingSlug(text) \in Seq(SlugNames)
<1> DEFINE n == Len(text)
           start == [slug |-> <<>>, separator |-> FALSE]
           Is(g) == g = [k \in 0..n |-> IF k = 0 THEN start ELSE slugStep(g[k - 1], text[k])]
           f == slugAfter(text)
           step == [x \in SlugStates \X (1..n) |-> slugStep(x[1], text[x[2]])]
<1>1. start \in SlugStates
  BY DEF SlugStates
<1>2. step \in [SlugStates \X (1..n) -> SlugStates]
  BY SlugStepTyped
<1>3. PICK g : /\ g \in [0..n -> SlugStates] /\ g[0] = start
               /\ \A k \in 1..n : g[k] = step[<<g[k - 1], k>>]
  <2> HIDE DEF step, start, n
  <2>1. n \in Nat
    BY DEF n
  <2>2. \E g : Runs(g, SlugStates, start, n, step)
    BY <1>1, <1>2, <2>1, LoopRuns, Zenon
  <2>3. QED
    BY <2>2 DEF Runs
<1> HIDE DEF start
<1>4. ASSUME NEW k \in 0..n
      PROVE  g[k] = IF k = 0 THEN start ELSE slugStep(g[k - 1], text[k])
  <2>1. CASE k = 0
    BY <1>3, <2>1
  <2>2. CASE k # 0
    <3>1. k \in 1..n /\ k - 1 \in 0..n
      BY <2>2
    <3>2. g[k] = step[<<g[k - 1], k>>] /\ <<g[k - 1], k>> \in SlugStates \X (1..n)
      BY <1>3, <3>1
    <3>3. g[k] = slugStep(g[k - 1], text[k])
      BY <3>2
    <3>4. QED
      BY <2>2, <3>3
  <2>3. QED
    BY <2>1, <2>2
<1>5. Is(g)
  <2>1. g = [k \in 0..n |-> g[k]]
    BY <1>3
  <2>2. QED
    BY <1>4, <2>1
<1>6. Is(f)
  BY <1>5, Zenon DEF slugAfter, start
<1> HIDE DEF f
<1>7. f[0] \in SlugStates
  BY <1>1, <1>6
<1>8. ASSUME NEW k \in 1..n, f[k - 1] \in SlugStates PROVE f[k] \in SlugStates
  <2>1. k \in 0..n /\ k # 0
    OBVIOUS
  <2>2. f[k] = slugStep(f[k - 1], text[k])
    BY <1>6, <2>1
  <2>3. QED
    BY <1>8, <2>2, SlugStepTyped
<1>9. f[n] \in SlugStates
  <2>1. n \in Nat
    OBVIOUS
  <2> HIDE DEF n
  <2>2. \A k \in 0..n : f[k] \in SlugStates
    BY <1>7, <1>8, <2>1, LoopStays
  <2>3. QED
    BY <2>1, <2>2
<1>10. f[n].slug \in Seq(SlugNames)
  BY <1>9 DEF SlugStates
<1>11. <<"h", "e", "a", "d", "i", "n", "g">> \in Seq(SlugNames)
  <2>1. /\ "h" \in SlugNames /\ "e" \in SlugNames /\ "a" \in SlugNames /\ "d" \in SlugNames
        /\ "i" \in SlugNames /\ "n" \in SlugNames /\ "g" \in SlugNames
    BY DEF SlugNames
  <2>2. QED
    BY <2>1
<1>12. QED
  BY <1>10, <1>11 DEF headingSlug, f

\* A run of a character ends with the text at the latest.
LEMMA RunTyped ==
    ASSUME NEW text, Len(text) \in Nat, NEW i \in 1..(Len(text) + 1), NEW c
    PROVE  RunLength(text, i, c) \in Nat
<1> DEFINE n == Len(text)
           stops == {j \in i..n : text[j] # c}
           stop == Min(stops)
<1>1. stops \subseteq Nat /\ n \in Nat /\ i \in Nat /\ i <= n + 1
  OBVIOUS
<1>2. stops # {} => stop \in stops
  BY <1>1, MinIs
<1>3. stops # {} => stop \in Nat /\ stop >= i
  <2> HIDE DEF stop
  <2>1. QED
    BY <1>1, <1>2
<1> HIDE DEF stop
<1>4. CASE stops = {}
  <2>1. RunLength(text, i, c) = n + 1 - i
    BY <1>4 DEF RunLength
  <2>2. QED
    BY <1>1, <2>1
<1>5. CASE stops # {}
  <2>1. RunLength(text, i, c) = stop - i
    BY <1>5 DEF RunLength, stop
  <2>2. QED
    BY <1>1, <1>3, <1>5, <2>1
<1>6. QED
  BY <1>4, <1>5

\* A marker stands in the text.
LEMMA MarkerTyped ==
    ASSUME NEW text, Len(text) \in Nat, NEW markers
    PROVE  MarkerAt(text, markers) \in 0..Len(text)
<1> DEFINE p == countLeadingSpaces(text) + 1
<1>1. p \in Nat \ {0}
  <2>1. 1 \in 1..(Len(text) + 1)
    OBVIOUS
  <2>2. RunLength(text, 1, " ") \in Nat
    BY <2>1, RunTyped
  <2> DEFINE s == RunLength(text, 1, " ")
  <2>3. p = s + 1
    BY DEF countLeadingSpaces
  <2> HIDE DEF s, p
  <2>4. s \in Nat
    BY <2>2 DEF s
  <2>5. QED
    BY <2>3, <2>4
<1> HIDE DEF p
<1>2. MarkerAt(text, markers) = IF p <= 4 /\ p <= Len(text) /\ text[p] \in markers THEN p ELSE 0
  BY DEF MarkerAt, p
<1>3. QED
  BY <1>1, <1>2

\* What is left of a heading is a sequence.
LEMMA RawTyped ==
    ASSUME NEW text \in Seq(STRING), parseAtxHeading(text) # NoHeading
    PROVE  Len(parseAtxHeading(text).rawText) \in Nat
<1> DEFINE n == Len(text)
           p == MarkerAt(text, {"#"})
           level == RunLength(text, p, "#")
           rest == SubSeq(text, p + level + 1, n)
           raw == withoutClosingHashes(rest)
<1>1. n \in Nat /\ p \in 0..n
  BY MarkerTyped
<1>2. p > 0 /\ p + level <= n /\ parseAtxHeading(text) = [level |-> level, rawText |-> raw]
  BY Zenon DEF parseAtxHeading
<1> HIDE DEF p
<1>3. p \in 1..(n + 1)
  BY <1>1, <1>2
<1>4. level \in Nat
  BY <1>3, RunTyped
<1> HIDE DEF level, n
<1>5. p + level + 1 \in Int /\ n \in Int
  BY <1>1, <1>4
<1>6. rest \in Seq(STRING)
  <2>1. \A i \in (p + level + 1)..n : text[i] \in STRING
    BY <1>1, <1>4 DEF n
  <2>2. QED
    BY <1>5, <2>1, SubSeqProperties
<1> HIDE DEF rest
<1>7. Len(raw) \in Nat
  <2> DEFINE closings == {i \in 1..Len(rest) : \E j \in i..Len(rest), k \in (i + 1)..Len(rest) :
                            /\ j < k
                            /\ \A m \in i..j : rest[m] \in Whitespace
                            /\ \A m \in (j + 1)..k : rest[m] = "#"
                            /\ \A m \in (k + 1)..Len(rest) : rest[m] \in Whitespace}
             e == Min(closings)
  <2>1. raw = IF closings = {} THEN rest ELSE SubSeq(rest, 1, e - 1)
    BY DEF withoutClosingHashes
  <2>2. closings \subseteq 1..Len(rest) /\ Len(rest) \in Nat
    BY <1>6
  <2> HIDE DEF closings
  <2>3. closings # {} => e \in 1..Len(rest)
    <3>1. closings \subseteq Nat
      BY <2>2
    <3>2. closings # {} => e \in closings
      BY <3>1, MinIs
    <3>3. QED
      BY <2>2, <3>2
  <2> HIDE DEF e, raw
  <2>4. CASE closings = {}
    BY <2>1, <2>2, <2>4
  <2>5. CASE closings # {}
    <3>1. e \in 1..Len(rest) /\ 1 \in Int /\ e - 1 \in Int /\ raw = SubSeq(rest, 1, e - 1)
      <4>1. e \in 1..Len(rest) /\ raw = SubSeq(rest, 1, e - 1)
        BY <2>1, <2>3, <2>5, Zenon
      <4>2. e \in Int
        BY <2>2, <4>1
      <4>3. QED
        BY <4>1, <4>2
    <3>2. \A i \in 1..(e - 1) : rest[i] \in STRING
      <4>1. \A i \in 1..(e - 1) : i \in 1..Len(rest)
        BY <2>2, <3>1
      <4>2. QED
        BY <1>6, <4>1
    <3>3. SubSeq(rest, 1, e - 1) \in Seq(STRING)
      BY <3>1, <3>2, SubSeqProperties
    <3>4. QED
      BY <3>1, <3>3
  <2>6. QED
    BY <2>4, <2>5
<1> HIDE DEF raw
<1>8. QED
  BY <1>2, <1>7

-----------------------------------------------------------------------------
(***************************************************************************)
(* Newlines: the text of a line in the index is that of the reference.     *)
(***************************************************************************)

\* The newline of a line is what its last bytes say.
NewlineInv(source, line) ==
    LET end == LineEnd(line)
    IN  line.newlineByteLength =
          IF source[end] # "LF" THEN 0
          ELSE IF end - line.byteStart > 1 /\ source[end - 1] = "CR" THEN 2 ELSE 1

\* The loop has found every newline before its offset, and has not stopped inside one.
NewlinesInv(source, scan) ==
    /\ \A j \in 1..Len(scan.lines) : NewlineInv(source, scan.lines[j])
    /\ scan.start < scan.offset /\ scan.offset < Len(source) =>
         ~(source[scan.offset] = "CR" /\ source[scan.offset + 1] = "LF")

\* An iteration keeps it.
LEMMA NewlineStep ==
    ASSUME NEW source \in Seq(STRING), NEW scan, ScanInv(source, scan), NewlinesInv(source, scan)
    PROVE  NewlinesInv(source, scanStep(source, scan))
<1> DEFINE n == Len(source)
           m == Len(scan.lines)
           start == scan.start
           offset == scan.offset
           newline == newlineAt(source, offset)
           next == offset + newline
<1>1. /\ n \in Nat /\ m \in Nat /\ start \in Nat /\ offset \in Nat /\ start <= offset /\ offset <= n
      /\ scan.lines \in Seq(LineRecords)
      /\ scan \in [lines : Seq(LineRecords), start : Nat, offset : Nat]
  BY DEF ScanInv
<1>2. /\ \A j \in 1..m : NewlineInv(source, scan.lines[j])
      /\ start < offset /\ offset < n => ~(source[offset] = "CR" /\ source[offset + 1] = "LF")
  BY DEF NewlinesInv
<1>3. CASE offset = n
  BY <1>3 DEF scanStep
<1>4. CASE offset # n /\ newline = 0
  <2>1. scanStep(source, scan) = [scan EXCEPT !.offset = @ + 1]
    BY <1>4 DEF scanStep
  <2>2. /\ scanStep(source, scan).lines = scan.lines
        /\ scanStep(source, scan).offset = offset + 1
    BY <1>1, <2>1
  <2>3. ~(source[offset + 1] = "CR" /\ offset + 1 < n /\ source[offset + 2] = "LF")
    BY <1>4 DEF newlineAt
  <2>4. (offset + 1) + 1 = offset + 2
    BY <1>1
  <2>5. QED
    BY <1>2, <2>2, <2>3, <2>4 DEF NewlinesInv
<1>5. CASE offset # n /\ newline # 0
  <2> DEFINE line == Line(m + 1, start, offset, newline)
             longer == Append(scan.lines, line)
  <2>1. scanStep(source, scan) = [lines |-> longer, start |-> next, offset |-> next]
    BY <1>5 DEF scanStep
  <2>2. newline \in 1..2
    BY <1>5 DEF newlineAt
  <2>3. NewlineInv(source, line)
    <3>1. /\ line.byteStart = start /\ line.newlineByteLength = newline
          /\ LineEnd(line) = start + (offset - start) + newline
      BY DEF Line, LineEnd
    <3>2. CASE source[offset + 1] = "LF"
      <4>1. newline = 1
        BY <3>2 DEF newlineAt
      <4> HIDE DEF line, newline
      <4>2. LineEnd(line) = offset + 1
        BY <1>1, <3>1, <4>1
      <4>3. (offset + 1) - start > 1 => start < offset /\ offset < n
        BY <1>1, <1>5
      <4>4. (offset + 1) - 1 = offset
        BY <1>1
      <4>5. ~((offset + 1) - start > 1 /\ source[(offset + 1) - 1] = "CR")
        BY <1>2, <3>2, <4>3, <4>4
      <4>6. QED
        BY <3>1, <3>2, <4>1, <4>2, <4>5 DEF NewlineInv
    <3>3. CASE source[offset + 1] # "LF"
      <4>1. newline = 2 /\ source[offset + 1] = "CR" /\ source[offset + 2] = "LF"
        BY <1>5, <3>3 DEF newlineAt
      <4> HIDE DEF line, newline
      <4>2. LineEnd(line) = offset + 2
        BY <1>1, <3>1, <4>1
      <4>3. (offset + 2) - start > 1 /\ (offset + 2) - 1 = offset + 1
        BY <1>1
      <4>4. QED
        BY <3>1, <4>1, <4>2, <4>3 DEF NewlineInv
    <3>4. QED
      BY <3>2, <3>3
  <2>4. line \in LineRecords
    BY <1>1, <2>2 DEF Line, LineRecords
  <2> HIDE DEF line, newline
  <2>5. /\ Len(longer) = m + 1 /\ longer[m + 1] = line /\ \A j \in 1..m : longer[j] = scan.lines[j]
    BY <1>1, <2>4
  <2> HIDE DEF longer
  <2>6. ASSUME NEW j \in 1..(m + 1) PROVE NewlineInv(source, longer[j])
    <3>1. j \in 1..m \/ j = m + 1
      BY <1>1
    <3>2. QED
      BY <1>2, <2>3, <2>5, <3>1
  <2>7. /\ scanStep(source, scan).lines = longer
        /\ scanStep(source, scan).start = next /\ scanStep(source, scan).offset = next
    BY <2>1
  <2>8. next \in Nat
    BY <1>1, <2>2
  <2> HIDE DEF next
  <2>9. ~(next < next)
    BY <2>8
  <2>10. QED
    BY <2>5, <2>6, <2>7, <2>9 DEF NewlinesInv
<1>6. QED
  BY <1>3, <1>4, <1>5

\* The newlines of all lines.
LEMMA ScannedNewlines ==
    ASSUME NEW source \in Seq(STRING)
    PROVE  \A j \in 1..Len(scanLines(source)) : NewlineInv(source, scanLines(source)[j])
<1> DEFINE n == Len(source)
           f == scanAfter(source)
           T == {k \in Nat : k <= n => ScanInv(source, f[k]) /\ NewlinesInv(source, f[k])}
           scan == f[n]
           m == Len(scan.lines)
<1>1. n \in Nat
  OBVIOUS
<1>2. f[0] = ScanStart /\ \A k \in 1..n : f[k] = scanStep(source, f[k - 1])
  BY <1>1, ScanIs
<1>3. ScanInv(source, scan) /\ scan.offset = n
  BY ScanEnds
<1>4. scanLines(source) = IF scan.start < n THEN Append(scan.lines, Line(m + 1, scan.start, n, 0))
                          ELSE scan.lines
  BY DEF scanLines
<1> HIDE DEF f
<1>5. 0 \in T
  <2>1. ScanInv(source, ScanStart)
    BY ScanStarts
  <2>2. NewlinesInv(source, ScanStart)
    <3>1. ScanStart.lines = <<>> /\ Len(<<>>) = 0 /\ 1..0 = {} /\ ScanStart.start = 0
          /\ ScanStart.offset = 0 /\ ~(0 < 0)
      BY DEF ScanStart
    <3>2. QED
      BY <3>1 DEF NewlinesInv
  <2>3. QED
    BY <1>2, <2>1, <2>2
<1>6. ASSUME NEW k \in Nat, k \in T PROVE k + 1 \in T
  <2>1. SUFFICES ASSUME k + 1 <= n PROVE ScanInv(source, f[k + 1]) /\ NewlinesInv(source, f[k + 1])
    OBVIOUS
  <2>2. k + 1 \in 1..n /\ k <= n /\ (k + 1) - 1 = k
    BY <1>1, <2>1
  <2>3. ScanInv(source, f[k]) /\ NewlinesInv(source, f[k])
    BY <1>6, <2>2
  <2>4. f[k + 1] = scanStep(source, f[k])
    BY <1>2, <2>2
  <2>5. QED
    BY <2>3, <2>4, ScanStepKeeps, NewlineStep
<1> HIDE DEF T
<1>7. n \in T
  BY <1>1, <1>5, <1>6, SetInduction
<1>8. NewlinesInv(source, scan)
  BY <1>1, <1>7 DEF T
<1>9. /\ scan.start \in Nat /\ scan.start <= n /\ scan.lines \in Seq(LineRecords) /\ m \in Nat
      /\ \A p \in (scan.start + 1)..(n + 1) : LineOf(source, p) = m + 1
  BY <1>3 DEF ScanInv
<1>10. \A j \in 1..m : NewlineInv(source, scan.lines[j])
  BY <1>8 DEF NewlinesInv
<1> HIDE DEF scan
<1>11. CASE scan.start < n
  <2> DEFINE line == Line(m + 1, scan.start, n, 0)
             longer == Append(scan.lines, line)
  <2>1. n \in 1..n /\ n \in (scan.start + 1)..(n + 1) /\ n + 1 \in (scan.start + 1)..(n + 1)
    BY <1>1, <1>9, <1>11
  <2>2. LineOf(source, n) = m + 1 /\ LineOf(source, n + 1) = m + 1
    BY <1>9, <2>1
  <2>3. LineOf(source, n + 1) = LineOf(source, n) + IF source[n] = "LF" THEN 1 ELSE 0
    BY <2>1, LineNumbers
  <2>4. source[n] # "LF"
    <3>1. SUFFICES ASSUME source[n] = "LF" PROVE FALSE
      OBVIOUS
    <3>2. m + 1 = (m + 1) + 1
      BY <2>2, <2>3, <3>1
    <3> HIDE DEF m
    <3>3. QED
      BY <1>9, <3>2
  <2>5. /\ line.newlineByteLength = 0 /\ LineEnd(line) = scan.start + (n - scan.start) + 0
        /\ line \in LineRecords
    BY <1>1, <1>9, <1>11 DEF Line, LineEnd, LineRecords
  <2>6. LineEnd(line) = n
    BY <1>1, <1>9, <2>5
  <2> HIDE DEF line
  <2>7. NewlineInv(source, line)
    BY <2>4, <2>5, <2>6 DEF NewlineInv
  <2>8. /\ Len(longer) = m + 1 /\ longer[m + 1] = line /\ \A j \in 1..m : longer[j] = scan.lines[j]
    BY <1>9, <2>5
  <2> HIDE DEF longer
  <2>9. ASSUME NEW j \in 1..(m + 1) PROVE NewlineInv(source, longer[j])
    <3>1. j \in 1..m \/ j = m + 1
      BY <1>9
    <3>2. QED
      BY <1>10, <2>7, <2>8, <3>1
  <2>10. scanLines(source) = longer
    BY <1>4, <1>11 DEF longer, line
  <2>11. QED
    BY <2>8, <2>9, <2>10
<1>12. CASE ~(scan.start < n)
  BY <1>4, <1>10, <1>12
<1>13. QED
  BY <1>11, <1>12

\* The reference definition of the text of a line, in terms of the lines scanned.
LEMMA ContentOfTable ==
    ASSUME NEW source \in Seq(STRING), NEW lines, lines = scanLines(source),
           NEW k \in 1..Len(lines)
    PROVE  ContentOf(source, k) = Slice(source, lines[k].byteStart, lines[k].contentByteLength)
<1> DEFINE s == lines[k].byteStart
           b == lines[k].contentByteLength
           w == lines[k].newlineByteLength
           e == LineEnd(lines[k])
           line == LinesOf(source, k, k)
           n == Len(line)
           N == Len(source)
<1>1. Table(source, lines, N) /\ NewlineInv(source, lines[k])
  BY ScannedLines, ScannedNewlines
<1>2. lines \in Seq(LineRecords) /\ N \in Nat
  BY <1>1 DEF Table
<1>3. s \in Nat /\ b \in Nat /\ w \in 0..2 /\ e = s + b + w
  <2>1. lines[k] \in LineRecords
    BY <1>2
  <2>2. QED
    BY <2>1 DEF LineRecords, LineEnd
<1>4. k \in k..Len(lines)
  BY <1>2
<1>5. s < e /\ e <= N
  BY <1>1, <1>4, LinesWithin
<1>6. line = Slice(source, s, e - s)
  BY <1>1, <1>4, LinesOfTable
<1>7. w = IF source[e] # "LF" THEN 0 ELSE IF e - s > 1 /\ source[e - 1] = "CR" THEN 2 ELSE 1
  BY <1>1 DEF NewlineInv
<1>8. ContentOf(source, k) =
        SubSeq(line, 1, n - (IF line[n] # "LF" THEN 0 ELSE IF n > 1 /\ line[n - 1] = "CR" THEN 2 ELSE 1))
  BY Zenon DEF ContentOf
<1> HIDE DEF s, b, w, e, line, N
<1>9. line = SubSeq(source, s + 1, e) /\ s + (e - s) = e
  BY <1>3, <1>6 DEF Slice
<1>10. /\ line \in Seq(STRING) /\ n = e - s /\ n \in Nat /\ n >= 1
       /\ \A i \in 1..n : line[i] = source[s + i]
  <2>1. s + 1 \in 1..(N + 1) /\ e \in s..N /\ N = Len(source) /\ e \in Nat
    BY <1>2, <1>3, <1>5 DEF N
  <2>2. line \in Seq(STRING) /\ Len(line) = e - s
    BY <1>3, <1>5, <1>9, <2>1
  <2>3. n = e - s /\ n \in Nat /\ n >= 1
    BY <1>3, <1>5, <2>1, <2>2
  <2>4. ASSUME NEW i \in 1..n PROVE line[i] = source[s + i]
    <3>1. i \in 1..(e - s)
      BY <2>3
    <3>2. QED
      BY <1>3, <1>5, <1>9, <2>1, <3>1
  <2>5. QED
    BY <2>2, <2>3, <2>4
<1>11. line[n] = source[e] /\ (n > 1 => line[n - 1] = source[e - 1])
  <2>1. n \in 1..n /\ s + n = e
    BY <1>3, <1>10
  <2>2. n > 1 => n - 1 \in 1..n /\ s + (n - 1) = e - 1
    BY <1>3, <1>10
  <2>3. QED
    BY <1>10, <2>1, <2>2
<1>12. ContentOf(source, k) = SubSeq(line, 1, n - w)
  BY <1>7, <1>8, <1>10, <1>11
<1>13. n - w = b
  BY <1>3, <1>10
<1>14. SubSeq(line, 1, b) = SubSeq(source, s + 1, s + b)
  <2> DEFINE x == SubSeq(line, 1, b)
             y == SubSeq(source, s + 1, s + b)
  <2>1. b <= n /\ s + b <= N /\ N = Len(source)
    BY <1>2, <1>3, <1>5, <1>10 DEF N
  <2>2. x \in Seq(STRING) /\ Len(x) = b /\ \A i \in 1..b : x[i] = line[i]
    BY <1>3, <1>10, <2>1
  <2>3. y \in Seq(STRING) /\ Len(y) = b /\ \A i \in 1..b : y[i] = source[s + i]
    <3>1. s \in Int /\ y = Slice(source, s, b)
      BY <1>3 DEF Slice
    <3> HIDE DEF y
    <3>2. Len(y) = b /\ \A i \in 1..b : y[i] = source[s + i]
      BY <1>3, <3>1, SliceIs
    <3>3. y \in Seq(STRING)
      BY <1>3, <2>1 DEF y
    <3>4. QED
      BY <3>2, <3>3
  <2>4. ASSUME NEW i \in 1..b PROVE x[i] = y[i]
    <3>1. i \in 1..n
      BY <1>3, <1>10, <2>1
    <3>2. QED
      BY <1>10, <2>2, <2>3, <3>1
  <2> HIDE DEF x, y
  <2>5. x = y
    BY <2>2, <2>3, <2>4, SeqEqual
  <2>6. QED
    BY <2>5 DEF x, y
<1>15. QED
  BY <1>12, <1>13, <1>14 DEF Slice, s, b

-----------------------------------------------------------------------------
(***************************************************************************)
(* Fences: the scan is outside them where the reference is.                *)
(***************************************************************************)

\* The text of a line, from the reference definition of lines.
Text(source, k) == decode(ContentOf(source, k))

\* The fence that line o opens has its closing line by line k.
ClosedBy(source, o, k) ==
    \E m \in (o + 1)..k : isClosingFence(Text(source, m), parseFence(Text(source, o)))

\* The fences open after each line, as the scan follows them.
FencesRun(source, fence, n) ==
    /\ fence[0] = NoFence
    /\ \A k \in 1..n : fence[k] = fenceAfter(fence[k - 1], Text(source, k))

\* A line opens a fence.
OpensAt(source, fence, k) == fence[k - 1] = NoFence /\ parseFence(Text(source, k)) # NoFence

\* Every fence opened by line k, but that of line o, is closed.
OthersClosed(source, fence, o, k) ==
    \A p \in 1..k : p # o /\ OpensAt(source, fence, p) => ClosedBy(source, p, k)

\* After line k no fence is open and all are closed, or the last one opened is open and the
\* others are closed.
FenceInv(source, fence, k) ==
    \/ fence[k] = NoFence /\ OthersClosed(source, fence, 0, k)
    \/ \E o \in 1..k : /\ OpensAt(source, fence, o)
                       /\ fence[k] = parseFence(Text(source, o))
                       /\ ~ClosedBy(source, o, k)
                       /\ OthersClosed(source, fence, o, k)

\* What is closed stays closed.
LEMMA StaysClosed ==
    ASSUME NEW source, NEW o \in Nat, NEW k \in Nat
    PROVE  /\ ClosedBy(source, o, k) => ClosedBy(source, o, k + 1)
           /\ o <= k => (ClosedBy(source, o, k + 1) <=>
                           \/ ClosedBy(source, o, k)
                           \/ isClosingFence(Text(source, k + 1), parseFence(Text(source, o))))
           /\ ~ClosedBy(source, k, k)
<1>1. \A m \in (o + 1)..k : m \in (o + 1)..(k + 1)
  OBVIOUS
<1>2. o <= k => k + 1 \in (o + 1)..(k + 1) /\ \A m \in (o + 1)..(k + 1) : m \in (o + 1)..k \/ m = k + 1
  OBVIOUS
<1>3. (k + 1)..k = {}
  OBVIOUS
<1>4. ClosedBy(source, o, k) => ClosedBy(source, o, k + 1)
  BY <1>1, Zenon DEF ClosedBy
<1>5. ASSUME o <= k
      PROVE  ClosedBy(source, o, k + 1) <=>
                \/ ClosedBy(source, o, k)
                \/ isClosingFence(Text(source, k + 1), parseFence(Text(source, o)))
  BY <1>1, <1>2, <1>5, Zenon DEF ClosedBy
<1>6. ~ClosedBy(source, k, k)
  BY <1>3, Zenon DEF ClosedBy
<1>7. QED
  BY <1>4, <1>5, <1>6, Zenon

\* A line keeps it.
LEMMA FenceStep ==
    ASSUME NEW source, NEW fence, NEW n \in Nat, FencesRun(source, fence, n), NEW k \in Nat,
           k + 1 <= n, FenceInv(source, fence, k)
    PROVE  FenceInv(source, fence, k + 1)
<1>1. k + 1 \in 1..n /\ (k + 1) - 1 = k /\ k + 1 \in 1..(k + 1) /\ 0 # k + 1 /\ k + 1 \in Nat
  OBVIOUS
<1>2. fence[k + 1] = fenceAfter(fence[k], Text(source, k + 1))
  BY <1>1 DEF FencesRun
<1>3. OpensAt(source, fence, k + 1) <=>
        fence[k] = NoFence /\ parseFence(Text(source, k + 1)) # NoFence
  BY <1>1 DEF OpensAt
<1>4. ASSUME NEW p \in 1..(k + 1), p # k + 1 PROVE p \in 1..k /\ p \in Nat
  BY <1>4
<1>5. ASSUME NEW o, OthersClosed(source, fence, o, k), NEW p \in 1..(k + 1), p # k + 1, p # o,
             OpensAt(source, fence, p)
      PROVE  ClosedBy(source, p, k + 1)
  <2>1. p \in 1..k /\ p \in Nat
    BY <1>4, <1>5
  <2>2. ClosedBy(source, p, k)
    BY <1>5, <2>1, Zenon DEF OthersClosed
  <2>3. QED
    BY <2>1, <2>2, StaysClosed, Zenon
<1>6. CASE fence[k] = NoFence /\ OthersClosed(source, fence, 0, k)
  <2>1. fence[k + 1] = parseFence(Text(source, k + 1))
    BY <1>2, <1>6, Zenon DEF fenceAfter
  <2>2. ASSUME NEW p \in 1..(k + 1), p # k + 1, OpensAt(source, fence, p)
        PROVE  ClosedBy(source, p, k + 1)
    <3>1. p # 0
      OBVIOUS
    <3>2. QED
      BY <1>5, <1>6, <2>2, <3>1, Zenon
  <2>3. CASE parseFence(Text(source, k + 1)) = NoFence
    <3>1. ~OpensAt(source, fence, k + 1)
      BY <1>3, <2>3, Zenon
    <3>2. OthersClosed(source, fence, 0, k + 1)
      BY <2>2, <3>1, Zenon DEF OthersClosed
    <3>3. QED
      BY <2>1, <2>3, <3>2, Zenon DEF FenceInv
  <2>4. CASE parseFence(Text(source, k + 1)) # NoFence
    <3>1. OpensAt(source, fence, k + 1)
      BY <1>3, <1>6, <2>4, Zenon
    <3>2. OthersClosed(source, fence, k + 1, k + 1)
      BY <2>2, Zenon DEF OthersClosed
    <3>3. ~ClosedBy(source, k + 1, k + 1)
      BY <1>1, StaysClosed, Zenon
    <3>4. QED
      BY <1>1, <2>1, <3>1, <3>2, <3>3, Zenon DEF FenceInv
  <2>5. QED
    BY <2>3, <2>4, Zenon
<1>7. ASSUME NEW o \in 1..k, OpensAt(source, fence, o), fence[k] = parseFence(Text(source, o)),
             ~ClosedBy(source, o, k), OthersClosed(source, fence, o, k)
      PROVE  FenceInv(source, fence, k + 1)
  <2>1. fence[k] # NoFence /\ ~OpensAt(source, fence, k + 1)
    BY <1>3, <1>7, Zenon DEF OpensAt
  <2>2. o \in Nat /\ o <= k /\ o \in 1..(k + 1) /\ o # k + 1 /\ k \in Nat
    OBVIOUS
  <2>3. ASSUME NEW p \in 1..(k + 1), p # o, OpensAt(source, fence, p)
        PROVE  ClosedBy(source, p, k + 1)
    <3>1. p # k + 1
      BY <2>1, <2>3, Zenon
    <3>2. QED
      BY <1>5, <1>7, <2>3, <3>1, Zenon
  <2>4. CASE isClosingFence(Text(source, k + 1), parseFence(Text(source, o)))
    <3>1. fence[k + 1] = NoFence
      BY <1>2, <1>7, <2>1, <2>4, Zenon DEF fenceAfter
    <3>2. ClosedBy(source, o, k + 1)
      BY <2>2, <2>4, StaysClosed, Zenon
    <3>3. OthersClosed(source, fence, 0, k + 1)
      BY <2>3, <3>2, Zenon DEF OthersClosed
    <3>4. QED
      BY <3>1, <3>3, Zenon DEF FenceInv
  <2>5. CASE ~isClosingFence(Text(source, k + 1), parseFence(Text(source, o)))
    <3>1. fence[k + 1] = parseFence(Text(source, o))
      BY <1>2, <1>7, <2>1, <2>5, Zenon DEF fenceAfter
    <3>2. ~ClosedBy(source, o, k + 1)
      BY <1>7, <2>2, <2>5, StaysClosed, Zenon
    <3>3. OthersClosed(source, fence, o, k + 1)
      BY <2>3, Zenon DEF OthersClosed
    <3>4. QED
      BY <1>7, <2>2, <3>1, <3>2, <3>3, Zenon DEF FenceInv
  <2>6. QED
    BY <2>4, <2>5, Zenon
<1>8. QED
  BY <1>6, <1>7, Zenon DEF FenceInv

\* No fence is open after a line if and only if every fence opened by it is closed.
LEMMA OutsideFences ==
    ASSUME NEW source, NEW fence, NEW n \in Nat, FencesRun(source, fence, n), NEW k \in 0..n
    PROVE  fence[k] = NoFence <=>
             \A o \in 1..k : OpensAt(source, fence, o) => ClosedBy(source, o, k)
<1> DEFINE T == {j \in Nat : j <= n => FenceInv(source, fence, j)}
<1>1. 0 \in T
  <2>1. 1..0 = {} /\ 0 \in Nat
    OBVIOUS
  <2>2. fence[0] = NoFence
    BY Zenon DEF FencesRun
  <2>3. FenceInv(source, fence, 0)
    BY <2>1, <2>2, Zenon DEF FenceInv, OthersClosed
  <2>4. QED
    BY <2>1, <2>3, Zenon
<1>2. ASSUME NEW j \in Nat, j \in T PROVE j + 1 \in T
  <2>1. SUFFICES ASSUME j + 1 <= n PROVE FenceInv(source, fence, j + 1)
    OBVIOUS
  <2>2. j <= n
    BY <2>1
  <2>3. FenceInv(source, fence, j)
    BY <1>2, <2>2, Zenon
  <2>4. QED
    BY <2>1, <2>3, FenceStep, Zenon
<1> HIDE DEF T
<1>3. k \in Nat /\ k <= n
  OBVIOUS
<1>4. k \in T
  BY <1>1, <1>2, <1>3, SetInduction
<1>5. FenceInv(source, fence, k)
  BY <1>3, <1>4, Zenon DEF T
<1>6. ASSUME fence[k] = NoFence, NEW o \in 1..k, OpensAt(source, fence, o) PROVE ClosedBy(source, o, k)
  <2>1. OthersClosed(source, fence, 0, k)
    BY <1>5, <1>6, Zenon DEF FenceInv, OpensAt
  <2>2. o # 0
    OBVIOUS
  <2>3. QED
    BY <1>6, <2>1, <2>2, Zenon DEF OthersClosed
<1>7. ASSUME \A o \in 1..k : OpensAt(source, fence, o) => ClosedBy(source, o, k)
      PROVE  fence[k] = NoFence
  BY <1>5, <1>7, Zenon DEF FenceInv
<1>8. QED
  BY <1>6, <1>7, Zenon

\* The equation that defines the lines that open a fence.
OpensIs(source, opens, n) ==
    opens = [k \in 1..n |->
               /\ parseFence(Text(source, k)) # NoFence
               /\ \A o \in 1..(k - 1) : opens[o] => ClosedBy(source, o, k - 1)]

\* It has one solution: the lines at which the scan enters a fence.
LEMMA OpenersAre ==
    ASSUME NEW source, NEW fence, NEW n \in Nat, FencesRun(source, fence, n),
           LineOf(source, Len(source)) = n
    PROVE  Openers(source) = {k \in 1..n : OpensAt(source, fence, k)}
<1> DEFINE O == [k \in 1..n |-> OpensAt(source, fence, k)]
           f == CHOOSE g : OpensIs(source, g, n)
<1>1. ASSUME NEW k \in 1..n
      PROVE  OpensAt(source, fence, k) <=>
               /\ parseFence(Text(source, k)) # NoFence
               /\ \A o \in 1..(k - 1) : OpensAt(source, fence, o) => ClosedBy(source, o, k - 1)
  <2>1. k - 1 \in 0..n
    OBVIOUS
  <2>2. QED
    BY <2>1, OutsideFences, Zenon DEF OpensAt
<1>2. OpensIs(source, O, n)
  <2>1. ASSUME NEW k \in 1..n
        PROVE  O[k] = (/\ parseFence(Text(source, k)) # NoFence
                       /\ \A o \in 1..(k - 1) : O[o] => ClosedBy(source, o, k - 1))
    <3>1. \A o \in 1..(k - 1) : o \in 1..n
      OBVIOUS
    <3>2. O[k] = OpensAt(source, fence, k) /\ \A o \in 1..(k - 1) : O[o] = OpensAt(source, fence, o)
      BY <3>1, Zenon
    <3>3. OpensAt(source, fence, k) = (/\ parseFence(Text(source, k)) # NoFence
               /\ \A o \in 1..(k - 1) : OpensAt(source, fence, o) => ClosedBy(source, o, k - 1))
      BY <1>1, Zenon DEF OpensAt
    <3> HIDE DEF O
    <3>4. (\A o \in 1..(k - 1) : O[o] => ClosedBy(source, o, k - 1)) <=>
          (\A o \in 1..(k - 1) : OpensAt(source, fence, o) => ClosedBy(source, o, k - 1))
      BY <3>2, Zenon
    <3>5. QED
      BY <3>2, <3>3, <3>4, Zenon
  <2>2. O = [k \in 1..n |-> O[k]]
    BY Zenon
  <2> HIDE DEF O
  <2>3. QED
    BY <2>1, <2>2, Zenon DEF OpensIs
<1>3. OpensIs(source, f, n)
  BY <1>2, Zenon
<1> HIDE DEF O
<1>4. Openers(source) = {k \in 1..n : f[k]}
  BY Zenon DEF Openers, OpensIs, Text, ClosedBy
<1> HIDE DEF f
<1>5. ASSUME NEW k \in 1..n
      PROVE  f[k] <=> /\ parseFence(Text(source, k)) # NoFence
                      /\ \A o \in 1..(k - 1) : f[o] => ClosedBy(source, o, k - 1)
  BY <1>3, <1>5, Zenon DEF OpensIs
<1> DEFINE U == {k \in 1..n : ~(f[k] <=> OpensAt(source, fence, k))}
<1>6. U = {}
  <2>1. SUFFICES ASSUME U # {} PROVE FALSE
    BY Zenon
  <2>2. U \subseteq Nat
    OBVIOUS
  <2>3. PICK k \in U : \A j \in U : k <= j
    BY <2>1, <2>2, LeastNatural, Zenon
  <2>4. k \in 1..n /\ ~(f[k] <=> OpensAt(source, fence, k))
    BY <2>3, Zenon
  <2>5. ASSUME NEW o \in 1..(k - 1) PROVE o \in 1..n /\ ~(k <= o)
    BY <2>4
  <2>6. ASSUME NEW o \in 1..(k - 1) PROVE f[o] <=> OpensAt(source, fence, o)
    BY <2>3, <2>5, Zenon
  <2>7. QED
    BY <1>1, <1>5, <2>4, <2>6, Zenon
<1>7. \A k \in 1..n : f[k] <=> OpensAt(source, fence, k)
  BY <1>6, Zenon
<1>8. QED
  BY <1>4, <1>7, Zenon

\* And the lines that are headings are those the scan sees outside the fences.
LEMMA HeadingLinesAre ==
    ASSUME NEW source, NEW fence, NEW n \in Nat, FencesRun(source, fence, n),
           LineOf(source, Len(source)) = n
    PROVE  HeadingLines(source) =
             {k \in 1..n : /\ fence[k - 1] = NoFence
                           /\ parseFence(Text(source, k)) = NoFence
                           /\ parseAtxHeading(Text(source, k)) # NoHeading}
<1>1. Openers(source) = {k \in 1..n : OpensAt(source, fence, k)}
  BY OpenersAre, Zenon
<1>2. HeadingLines(source) =
        {k \in 1..n : /\ parseAtxHeading(Text(source, k)) # NoHeading
                      /\ k \notin Openers(source)
                      /\ \A o \in Openers(source) : o < k => ClosedBy(source, o, k - 1)}
  BY Zenon DEF HeadingLines, Text, ClosedBy
<1>3. ASSUME NEW k \in 1..n
      PROVE  fence[k - 1] = NoFence <=>
               \A o \in Openers(source) : o < k => ClosedBy(source, o, k - 1)
  <2>1. k - 1 \in 0..n
    OBVIOUS
  <2>2. \A o \in 1..n : o < k <=> o \in 1..(k - 1)
    OBVIOUS
  <2>3. \A o \in 1..(k - 1) : o \in 1..n
    OBVIOUS
  <2>4. fence[k - 1] = NoFence <=>
          \A o \in 1..(k - 1) : OpensAt(source, fence, o) => ClosedBy(source, o, k - 1)
    BY <2>1, OutsideFences, Zenon
  <2>5. QED
    BY <1>1, <2>2, <2>3, <2>4, Zenon
<1>4. ASSUME NEW k \in 1..n
      PROVE  fence[k - 1] = NoFence => (k \notin Openers(source) <=> parseFence(Text(source, k)) = NoFence)
  BY <1>1, Zenon DEF OpensAt
<1>5. ASSUME NEW k \in 1..n
      PROVE  (/\ parseAtxHeading(Text(source, k)) # NoHeading
              /\ k \notin Openers(source)
              /\ \A o \in Openers(source) : o < k => ClosedBy(source, o, k - 1))
             <=> (/\ fence[k - 1] = NoFence
                  /\ parseFence(Text(source, k)) = NoFence
                  /\ parseAtxHeading(Text(source, k)) # NoHeading)
  BY <1>3, <1>4, Zenon
<1>6. QED
  BY <1>2, <1>5, Zenon

-----------------------------------------------------------------------------
(***************************************************************************)
(* Headings: those outside the fences, each with an identifier of its own. *)
(***************************************************************************)

\* The identifiers of headings.
Ids(headings) == {headings[k].headingId : k \in DOMAIN headings}

\* Two headings have two identifiers.
IdsDiffer(headings) ==
    \A i, j \in DOMAIN headings : headings[i].headingId = headings[j].headingId => i = j

\* There are finitely many, and as many as headings if they differ.
LEMMA CountIds ==
    ASSUME NEW headings, NEW S, headings \in Seq(S)
    PROVE  /\ IsFiniteSet(Ids(headings))
           /\ IdsDiffer(headings) => Cardinality(Ids(headings)) = Len(headings)
<1> DEFINE m == Len(headings)
           D == 1..m
           f == [k \in D |-> headings[k].headingId]
<1>1. m \in Nat /\ DOMAIN headings = D
  OBVIOUS
<1>2. IsFiniteSet(D) /\ Cardinality(D) = m
  <2> HIDE DEF m
  <2>1. 1 \in Int /\ m \in Int
    BY <1>1
  <2>2. IsFiniteSet(1..m) /\ Cardinality(1..m) = IF 1 > m THEN 0 ELSE m - 1 + 1
    BY <2>1, FS_Interval
  <2>3. QED
    BY <1>1, <2>2
<1> HIDE DEF D
<1>3. f \in Surjection(D, Ids(headings))
  <2>1. Ids(headings) = {headings[k].headingId : k \in D}
    BY <1>1 DEF Ids
  <2>2. QED
    BY <2>1 DEF Surjection
<1>4. /\ IsFiniteSet(Ids(headings))
      /\ Cardinality(Ids(headings)) = Cardinality(D) <=> f \in Injection(D, Ids(headings))
  BY <1>2, <1>3, FS_Surjection
<1>5. ASSUME IdsDiffer(headings) PROVE f \in Injection(D, Ids(headings))
  <2>1. f \in [D -> Ids(headings)]
    BY <1>3 DEF Surjection
  <2>2. \A i, j \in D : f[i] = f[j] => i = j
    BY <1>1, <1>5 DEF IdsDiffer
  <2>3. QED
    BY <2>1, <2>2 DEF Injection, IsInjective
<1>6. QED
  BY <1>2, <1>4, <1>5

\* The line of a heading the scan comes to.
HeadingSeen(source, fence, k) ==
    /\ fence[k - 1] = NoFence
    /\ parseFence(Text(source, k)) = NoFence
    /\ parseAtxHeading(Text(source, k)) # NoHeading

\* The heading a line adds.
NewHeading(headings, text, line) ==
    [headingId |-> nextHeadingId(headingSlug(parseAtxHeading(text).rawText), Ids(headings)),
     level |-> parseAtxHeading(text).level,
     lineNumber |-> line.lineNumber, byteStart |-> line.byteStart,
     byteLength |-> line.contentByteLength]

\* The state of the scan is a record.
Shaped(scan) == scan = [fence |-> scan.fence, headings |-> scan.headings, error |-> scan.error]

\* What a line does to a scan that goes on without an error.
GoesOn(scan, next, text, line) ==
    /\ scan.error = "none"
    /\ next.fence = fenceAfter(scan.fence, text)
    /\ IF /\ scan.fence = NoFence /\ parseFence(text) = NoFence
          /\ parseAtxHeading(text) # NoHeading
       THEN next.headings = Append(scan.headings, NewHeading(scan.headings, text, line))
       ELSE next.headings = scan.headings

\* One iteration of the scan for headings.
LEMMA HeadingStepIs ==
    ASSUME NEW source, NEW scan, Shaped(scan), NEW line,
           headingStep(source, scan, line).error = "none"
    PROVE  GoesOn(scan, headingStep(source, scan, line), LineText(source, line), line)
<1> DEFINE text == LineText(source, line)
           next == headingStep(source, scan, line)
           heading == parseAtxHeading(text)
           new == NewHeading(scan.headings, text, line)
           longer == Append(scan.headings, new)
           fence == fenceAfter(scan.fence, text)
<1>1. scan = [fence |-> scan.fence, headings |-> scan.headings, error |-> scan.error]
  BY DEF Shaped
<1>2. next = IF scan.error # "none" THEN scan
             ELSE IF scan.fence # NoFence \/ parseFence(text) # NoFence
             THEN [scan EXCEPT !.fence = fenceAfter(@, text)]
             ELSE IF heading = NoHeading THEN scan
             ELSE IF Len(heading.rawText) > MAX_HEADING_TEXT_CHARS
             THEN [scan EXCEPT !.error = "RESPONSE_LIMIT_EXCEEDED"]
             ELSE IF Len(scan.headings) = MAX_TEXT_INDEX_HEADINGS
             THEN [scan EXCEPT !.error = "TOO_MANY_HEADINGS"]
             ELSE [scan EXCEPT !.headings = Append(@, new)]
  BY Zenon DEF headingStep, NewHeading, Ids
<1>3. next.error = "none"
  OBVIOUS
<1>4. /\ [scan EXCEPT !.fence = fenceAfter(@, text)] =
           [fence |-> fence, headings |-> scan.headings, error |-> scan.error]
      /\ [scan EXCEPT !.headings = Append(@, new)] =
           [fence |-> scan.fence, headings |-> longer, error |-> scan.error]
      /\ [scan EXCEPT !.error = "RESPONSE_LIMIT_EXCEEDED"].error = "RESPONSE_LIMIT_EXCEEDED"
      /\ [scan EXCEPT !.error = "TOO_MANY_HEADINGS"].error = "TOO_MANY_HEADINGS"
  <2> HIDE DEF text, new
  <2>1. [scan EXCEPT !.fence = fenceAfter(@, text)] = [scan EXCEPT !.fence = fence]
    OBVIOUS
  <2>2. [scan EXCEPT !.headings = Append(@, new)] = [scan EXCEPT !.headings = longer]
    OBVIOUS
  <2> HIDE DEF fence, longer
  <2>3. QED
    BY <1>1, <2>1, <2>2
<1>5. scan.fence = NoFence /\ parseFence(text) = NoFence => fence = scan.fence
  BY Zenon DEF fenceAfter
<1> HIDE DEF next, text, heading, new, longer, fence
<1>6. scan.error = "none"
  BY <1>2, <1>3, Zenon
<1>7. CASE scan.fence # NoFence \/ parseFence(text) # NoFence
  <2>1. next = [fence |-> fence, headings |-> scan.headings, error |-> scan.error]
    BY <1>2, <1>4, <1>6, <1>7, Zenon
  <2>2. next.fence = fence /\ next.headings = scan.headings
    BY <2>1
  <2>3. QED
    BY <1>6, <1>7, <2>2, Zenon DEF GoesOn, next, text, fence
<1>8. CASE scan.fence = NoFence /\ parseFence(text) = NoFence /\ heading = NoHeading
  <2>1. next = scan
    BY <1>2, <1>6, <1>8, Zenon
  <2>2. QED
    BY <1>5, <1>6, <1>8, <2>1, Zenon DEF GoesOn, next, text, fence, heading
<1>9. CASE scan.fence = NoFence /\ parseFence(text) = NoFence /\ heading # NoHeading
  <2>1. "RESPONSE_LIMIT_EXCEEDED" # "none" /\ "TOO_MANY_HEADINGS" # "none"
    OBVIOUS
  <2>2. next = [fence |-> scan.fence, headings |-> longer, error |-> scan.error]
    BY <1>2, <1>3, <1>4, <1>6, <1>9, <2>1, Zenon
  <2>3. next.fence = scan.fence /\ next.headings = longer
    BY <2>2
  <2>4. QED
    BY <1>5, <1>6, <1>9, <2>3, Zenon DEF GoesOn, next, text, fence, heading, longer, new
<1>10. QED
  BY <1>7, <1>8, <1>9, Zenon

\* A heading is the content of line j.
HeadingAtLine(lines, heading, j) ==
    /\ heading.lineNumber = j
    /\ heading.byteStart = lines[j].byteStart
    /\ heading.byteLength = lines[j].contentByteLength

\* The headings of the first k lines: where they are, which they are, and that their
\* identifiers differ.
AddressedTo(source, lines, fence, headings, k) ==
    /\ \E S : headings \in Seq(S)
    /\ \A i \in DOMAIN headings : \E j \in 1..k : HeadingAtLine(lines, headings[i], j)
    /\ {headings[i].lineNumber : i \in DOMAIN headings} = {j \in 1..k : HeadingSeen(source, fence, j)}
    /\ IdsDiffer(headings)

\* A line that is no heading leaves them.
LEMMA AddressedSame ==
    ASSUME NEW source, NEW lines, NEW fence, NEW headings, NEW k \in Nat,
           AddressedTo(source, lines, fence, headings, k), ~HeadingSeen(source, fence, k + 1)
    PROVE  AddressedTo(source, lines, fence, headings, k + 1)
<1>1. \A j \in 1..k : j \in 1..(k + 1)
  OBVIOUS
<1>2. \A j \in 1..(k + 1) : j \in 1..k \/ j = k + 1
  OBVIOUS
<1>3. {j \in 1..(k + 1) : HeadingSeen(source, fence, j)} = {j \in 1..k : HeadingSeen(source, fence, j)}
  BY <1>1, <1>2, Zenon
<1>4. QED
  BY <1>1, <1>3, Zenon DEF AddressedTo

\* A heading with a new identifier is added to them.
LEMMA AddressedLonger ==
    ASSUME NEW source, NEW lines, NEW fence, NEW headings, NEW k \in Nat,
           AddressedTo(source, lines, fence, headings, k), HeadingSeen(source, fence, k + 1),
           NEW new, HeadingAtLine(lines, new, k + 1), new.headingId \notin Ids(headings)
    PROVE  AddressedTo(source, lines, fence, Append(headings, new), k + 1)
<1> DEFINE m == Len(headings)
           longer == Append(headings, new)
<1>1. PICK S : headings \in Seq(S)
  BY DEF AddressedTo
<1>2. m \in Nat /\ DOMAIN headings = 1..m
  BY <1>1
<1>3. /\ longer \in Seq(S \cup {new}) /\ DOMAIN longer = 1..(m + 1) /\ longer[m + 1] = new
      /\ \A i \in 1..m : longer[i] = headings[i]
  <2>1. headings \in Seq(S \cup {new})
    BY <1>1
  <2>2. QED
    BY <2>1
<1> HIDE DEF longer, m
<1>4. /\ \A i \in 1..m : i \in 1..(m + 1) /\ i # m + 1
      /\ m + 1 \in 1..(m + 1)
      /\ \A i \in 1..(m + 1) : i \in 1..m \/ i = m + 1
      /\ \A j \in 1..k : j \in 1..(k + 1) 
      /\ k + 1 \in 1..(k + 1)
      /\ \A j \in 1..(k + 1) : j \in 1..k \/ j = k + 1
  BY <1>2
<1>5. \A i \in DOMAIN longer : \E j \in 1..(k + 1) : HeadingAtLine(lines, longer[i], j)
  <2>1. SUFFICES ASSUME NEW i \in 1..(m + 1)
                 PROVE  \E j \in 1..(k + 1) : HeadingAtLine(lines, longer[i], j)
    BY <1>3, Zenon
  <2>2. CASE i \in 1..m
    BY <1>2, <1>3, <1>4, <2>2, Zenon DEF AddressedTo
  <2>3. CASE i = m + 1
    BY <1>3, <1>4, <2>3, Zenon
  <2>4. QED
    BY <1>4, <2>2, <2>3, Zenon
<1>6. {longer[i].lineNumber : i \in DOMAIN longer} = {j \in 1..(k + 1) : HeadingSeen(source, fence, j)}
  <2>1. {longer[i].lineNumber : i \in 1..(m + 1)} = {headings[i].lineNumber : i \in 1..m} \cup {new.lineNumber}
    BY <1>3, <1>4, Zenon
  <2>2. {headings[i].lineNumber : i \in 1..m} = {j \in 1..k : HeadingSeen(source, fence, j)}
    BY <1>2, Zenon DEF AddressedTo
  <2>3. new.lineNumber = k + 1
    BY DEF HeadingAtLine
  <2>4. {j \in 1..(k + 1) : HeadingSeen(source, fence, j)} =
          {j \in 1..k : HeadingSeen(source, fence, j)} \cup {k + 1}
    BY <1>4, Zenon
  <2>5. QED
    BY <1>3, <2>1, <2>2, <2>3, <2>4, Zenon
<1>7. IdsDiffer(longer)
  <2>1. SUFFICES ASSUME NEW i \in 1..(m + 1), NEW j \in 1..(m + 1),
                        longer[i].headingId = longer[j].headingId
                 PROVE  i = j
    BY <1>3, Zenon DEF IdsDiffer
  <2>2. \A p \in 1..m : longer[p].headingId \in Ids(headings)
    BY <1>2, <1>3, Zenon DEF Ids
  <2>3. longer[m + 1].headingId \notin Ids(headings)
    BY <1>3, Zenon
  <2>4. CASE i \in 1..m /\ j \in 1..m
    BY <1>2, <1>3, <2>1, <2>4, Zenon DEF IdsDiffer, AddressedTo
  <2>5. QED
    BY <1>4, <2>1, <2>2, <2>3, <2>4, Zenon
<1>8. QED
  BY <1>3, <1>5, <1>6, <1>7, Zenon DEF AddressedTo, longer

\* Without an error at the end there was none before.
LEMMA NoErrorBefore ==
    ASSUME NEW source \in Seq(STRING), NEW lines, lines \in Seq(LineRecords),
           scanHeadings(source, lines).error = "none", NEW k \in 0..Len(lines)
    PROVE  LET scan == headingsAfter(source, lines)[k] IN Shaped(scan) /\ scan.error = "none"
<1> DEFINE f == headingsAfter(source, lines)
           n == Len(lines)
           Fine(j) == /\ HeadingsInv(lines, f[j])
                      /\ f[j].error = "none" => \A i \in 0..j : f[i].error = "none"
           T == {j \in Nat : j <= n => Fine(j)}
<1>1. n \in Nat
  OBVIOUS
<1>2. f[0] = HeadingsStart /\ \A j \in 1..n : f[j] = headingStep(source, f[j - 1], lines[j])
  BY <1>1, HeadingsIs, Zenon
<1>3. f[n].error = "none"
  BY DEF scanHeadings
<1> HIDE DEF f
<1>4. 0 \in T
  <2>1. /\ HeadingsStart = [fence |-> HeadingsStart.fence, headings |-> HeadingsStart.headings,
                            error |-> HeadingsStart.error]
        /\ HeadingsStart.error = "none" /\ HeadingsStart.headings = <<>>
    BY DEF HeadingsStart
  <2>2. <<>> \in Seq({}) /\ Len(<<>>) = 0 /\ 1..0 = {}
    OBVIOUS
  <2>3. HeadingsInv(lines, HeadingsStart)
    BY <2>1, <2>2 DEF HeadingsInv, ScanErrors
  <2>4. \A i \in 0..0 : i = 0
    OBVIOUS
  <2>5. Fine(0)
    BY <1>2, <2>3, <2>4
  <2>6. QED
    BY <2>5
<1>5. ASSUME NEW j \in Nat, j \in T PROVE j + 1 \in T
  <2>1. SUFFICES ASSUME j + 1 <= n PROVE Fine(j + 1)
    OBVIOUS
  <2>2. j + 1 \in 1..n /\ j <= n /\ (j + 1) - 1 = j
    BY <1>1, <2>1
  <2>3. Fine(j)
    BY <1>5, <2>2
  <2>4. f[j + 1] = headingStep(source, f[j], lines[j + 1])
    BY <1>2, <2>2
  <2>5. HeadingsInv(lines, f[j + 1])
    BY <2>2, <2>3, <2>4, HeadingStepKeeps
  <2>6. Shaped(f[j])
    BY <2>3 DEF HeadingsInv, Shaped
  <2>7. ASSUME f[j + 1].error = "none" PROVE f[j].error = "none"
    <3> DEFINE scan == f[j]
               line == lines[j + 1]
    <3>1. headingStep(source, scan, line).error = "none" /\ Shaped(scan)
      BY <2>4, <2>6, <2>7, Zenon
    <3> HIDE DEF scan, line
    <3>2. GoesOn(scan, headingStep(source, scan, line), LineText(source, line), line)
      BY <3>1, HeadingStepIs, Zenon
    <3>3. QED
      BY <3>2, Zenon DEF GoesOn, scan
  <2>8. \A i \in 0..(j + 1) : i \in 0..j \/ i = j + 1
    OBVIOUS
  <2>9. QED
    BY <2>3, <2>5, <2>7, <2>8
<1> HIDE DEF T, Fine
<1>6. Nat \subseteq T
  BY <1>4, <1>5, SetInduction
<1>7. k \in Nat /\ k <= n /\ n <= n /\ k \in 0..n
  BY <1>1
<1>8. Fine(k) /\ Fine(n)
  BY <1>1, <1>6, <1>7 DEF T
<1>9. f[k].error = "none" /\ Shaped(f[k])
  BY <1>3, <1>7, <1>8 DEF Fine, HeadingsInv, Shaped
<1>10. QED
  BY <1>9 DEF f

\* The content of a line is a part of the source.
LEMMA LineBytes ==
    ASSUME NEW source \in Seq(STRING), NEW lines, Table(source, lines, Len(source)),
           NEW j \in 1..Len(lines)
    PROVE  Slice(source, lines[j].byteStart, lines[j].contentByteLength) \in Seq(STRING)
<1> DEFINE s == lines[j].byteStart
           b == lines[j].contentByteLength
           w == lines[j].newlineByteLength
           n == Len(source)
<1>1. lines \in Seq(LineRecords) /\ n \in Nat
  BY DEF Table
<1>2. s \in Nat /\ b \in Nat /\ w \in 0..2 /\ LineEnd(lines[j]) = s + b + w
  <2>1. lines[j] \in LineRecords
    BY <1>1
  <2>2. QED
    BY <2>1 DEF LineRecords, LineEnd
<1>3. LineEnd(lines[j]) <= n
  <2>1. j \in j..Len(lines)
    BY <1>1
  <2>2. QED
    BY <2>1, LinesWithin DEF n
<1> HIDE DEF s, b, w
<1>4. s + b <= n
  BY <1>1, <1>2, <1>3
<1>5. SubSeq(source, s + 1, s + b) \in Seq(STRING)
  BY <1>1, <1>2, <1>4
<1>6. QED
  BY <1>5 DEF Slice, s, b

\* The fences of a scan.
FencesOf(source, lines) ==
    [k \in 0..Len(lines) |-> headingsAfter(source, lines)[k].fence]

\* A scan without an error sees the headings outside the fences, and gives each an identifier.
LEMMA ScannedAddressed ==
    ASSUME NEW source \in Seq(STRING), NEW lines, lines = scanLines(source),
           scanHeadings(source, lines).error = "none"
    PROVE  /\ FencesRun(source, FencesOf(source, lines), Len(lines))
           /\ AddressedTo(source, lines, FencesOf(source, lines),
                          scanHeadings(source, lines).headings, Len(lines))
<1> DEFINE f == headingsAfter(source, lines)
           n == Len(lines)
           fence == FencesOf(source, lines)
           T == {j \in Nat : j <= n => AddressedTo(source, lines, fence, f[j].headings, j)}
<1>1. Table(source, lines, Len(source))
  BY ScannedLines
<1>2. n \in Nat /\ lines \in Seq(LineRecords)
  BY <1>1 DEF Table
<1>3. f[0] = HeadingsStart /\ \A j \in 1..n : f[j] = headingStep(source, f[j - 1], lines[j])
  BY <1>2, HeadingsIs, Zenon
<1>4. ASSUME NEW j \in 0..n PROVE Shaped(f[j]) /\ f[j].error = "none" /\ fence[j] = f[j].fence
  <2>1. Shaped(f[j]) /\ f[j].error = "none"
    BY <1>2, NoErrorBefore, Zenon
  <2>2. fence[j] = f[j].fence
    BY Zenon DEF FencesOf
  <2>3. QED
    BY <2>1, <2>2, Zenon
<1>5. ASSUME NEW j \in 1..n PROVE Text(source, j) = LineText(source, lines[j])
  BY ContentOfTable, Zenon DEF Text, LineText
<1>6. scanHeadings(source, lines) = f[n]
  BY DEF scanHeadings
<1> HIDE DEF f, fence
<1>7. ASSUME NEW j \in 1..n
      PROVE  /\ fence[j] = fenceAfter(fence[j - 1], Text(source, j))
             /\ IF HeadingSeen(source, fence, j)
                THEN f[j].headings = Append(f[j - 1].headings,
                                            NewHeading(f[j - 1].headings, Text(source, j), lines[j]))
                ELSE f[j].headings = f[j - 1].headings
  <2>1. j - 1 \in 0..n /\ j \in 0..n
    BY <1>2
  <2>2. /\ Shaped(f[j - 1]) /\ f[j - 1].fence = fence[j - 1]
        /\ f[j].error = "none" /\ f[j].fence = fence[j] /\ f[j] = headingStep(source, f[j - 1], lines[j])
    BY <1>3, <1>4, <2>1, Zenon
  <2> DEFINE scan == f[j - 1]
             line == lines[j]
             text == LineText(source, line)
  <2>3. headingStep(source, scan, line).error = "none" /\ Shaped(scan)
    BY <2>2, Zenon
  <2> HIDE DEF scan, line
  <2>4. GoesOn(scan, headingStep(source, scan, line), text, line)
    BY <2>3, HeadingStepIs, Zenon
  <2>5. text = Text(source, j)
    BY <1>5, Zenon DEF line
  <2>6. f[j] = headingStep(source, scan, line) /\ scan.fence = fence[j - 1]
    BY <2>2, Zenon DEF scan, line
  <2> HIDE DEF text
  <2>7. /\ fence[j] = fenceAfter(fence[j - 1], text)
        /\ IF HeadingSeen(source, fence, j)
           THEN f[j].headings = Append(scan.headings, NewHeading(scan.headings, text, line))
           ELSE f[j].headings = scan.headings
    BY <2>2, <2>4, <2>5, <2>6, Zenon DEF HeadingSeen, GoesOn
  <2>8. QED
    BY <2>5, <2>7, Zenon DEF scan, line
<1>8. FencesRun(source, fence, n)
  <2>1. 0 \in 0..n
    BY <1>2
  <2>2. fence[0] = NoFence
    <3>1. fence[0] = HeadingsStart.fence
      BY <1>3, <1>4, <2>1, Zenon
    <3>2. HeadingsStart.fence = NoFence
      BY DEF HeadingsStart
    <3>3. QED
      BY <3>1, <3>2, Zenon
  <2>3. QED
    BY <1>7, <2>2, Zenon DEF FencesRun
<1>9. 0 \in T
  <2>1. <<>> \in Seq({}) /\ DOMAIN <<>> = {} /\ 1..0 = {} /\ 0 \in Nat
    OBVIOUS
  <2>2. AddressedTo(source, lines, fence, <<>>, 0)
    BY <2>1, Zenon DEF AddressedTo, IdsDiffer
  <2>3. f[0].headings = <<>>
    BY <1>3 DEF HeadingsStart
  <2>4. QED
    BY <2>1, <2>2, <2>3, Zenon
<1>10. ASSUME NEW j \in Nat, j \in T PROVE j + 1 \in T
  <2>1. SUFFICES ASSUME j + 1 <= n PROVE AddressedTo(source, lines, fence, f[j + 1].headings, j + 1)
    OBVIOUS
  <2>2. j + 1 \in 1..n /\ j <= n /\ (j + 1) - 1 = j
    BY <1>2, <2>1
  <2> DEFINE headings == f[j].headings
             text == Text(source, j + 1)
             line == lines[j + 1]
             new == NewHeading(headings, text, line)
  <2>3. AddressedTo(source, lines, fence, headings, j)
    BY <1>10, <2>2, Zenon
  <2>4. IF HeadingSeen(source, fence, j + 1) THEN f[j + 1].headings = Append(headings, new)
        ELSE f[j + 1].headings = headings
    <3>1. IF HeadingSeen(source, fence, j + 1)
          THEN f[j + 1].headings = Append(f[(j + 1) - 1].headings,
                                          NewHeading(f[(j + 1) - 1].headings, text, line))
          ELSE f[j + 1].headings = f[(j + 1) - 1].headings
      BY <1>7, <2>2, Zenon
    <3>2. f[(j + 1) - 1] = f[j]
      BY <2>2, Zenon
    <3>3. QED
      BY <3>1, <3>2, Zenon
  <2> HIDE DEF headings
  <2>5. CASE ~HeadingSeen(source, fence, j + 1)
    <3>1. AddressedTo(source, lines, fence, headings, j + 1)
      BY <2>3, <2>5, AddressedSame, Zenon
    <3>2. QED
      BY <2>4, <2>5, <3>1, Zenon
  <2>6. CASE HeadingSeen(source, fence, j + 1)
    <3>1. HeadingAtLine(lines, new, j + 1)
      <4>1. line.lineNumber = j + 1
        BY <1>1, <2>2, LineTyped
      <4>2. /\ new.lineNumber = line.lineNumber /\ new.byteStart = line.byteStart
            /\ new.byteLength = line.contentByteLength
        BY DEF NewHeading
      <4>3. QED
        BY <4>1, <4>2 DEF HeadingAtLine
    <3>2. new.headingId \notin Ids(headings)
      <4> DEFINE slug == headingSlug(parseAtxHeading(text).rawText)
                 used == Ids(headings)
      <4>1. text \in Seq(STRING)
        <5> DEFINE bytes == Slice(source, line.byteStart, line.contentByteLength)
        <5>1. text = decode(bytes)
          BY <1>5, <2>2, Zenon DEF LineText
        <5>2. bytes \in Seq(STRING)
          BY <1>1, <2>2, LineBytes
        <5> HIDE DEF bytes, text
        <5>3. QED
          BY <5>1, <5>2, DecodeTyped, Zenon
      <4>2. parseAtxHeading(text) # NoHeading
        BY <2>6, Zenon DEF HeadingSeen
      <4> HIDE DEF text
      <4>3. slug \in Seq(SlugNames)
        <5>1. Len(parseAtxHeading(text).rawText) \in Nat
          BY <4>1, <4>2, RawTyped, Zenon
        <5>2. QED
          BY <5>1, SlugTyped, Zenon
      <4>4. IsFiniteSet(used)
        <5>1. PICK S : headings \in Seq(S)
          BY <2>3, Zenon DEF AddressedTo
        <5>2. QED
          BY <5>1, CountIds, Zenon
      <4>5. new.headingId = nextHeadingId(slug, used)
        BY DEF NewHeading
      <4> HIDE DEF slug, used
      <4>6. nextHeadingId(slug, used) \notin used
        BY <4>3, <4>4, NewId, Zenon
      <4>7. QED
        BY <4>5, <4>6, Zenon DEF used
    <3> HIDE DEF new
    <3>3. AddressedTo(source, lines, fence, Append(headings, new), j + 1)
      BY <2>3, <2>6, <3>1, <3>2, AddressedLonger, Zenon
    <3>4. f[j + 1].headings = Append(headings, new)
      BY <2>4, <2>6, Zenon
    <3>5. QED
      BY <3>3, <3>4, Zenon
  <2>7. QED
    BY <2>5, <2>6, Zenon
<1> HIDE DEF T
<1>11. n \in T
  BY <1>2, <1>9, <1>10, SetInduction
<1>12. n <= n
  BY <1>2
<1>13. AddressedTo(source, lines, fence, f[n].headings, n)
  BY <1>2, <1>11, <1>12, Zenon DEF T
<1>14. QED
  BY <1>6, <1>8, <1>13, Zenon DEF fence

\* What HeadingsAreAddressed says of the headings of a source and of the bytes returned for an
\* identifier.
HeadingsTrue(source, headings, id, data) ==
    /\ Cardinality({headings[k].headingId : k \in DOMAIN headings}) = Len(headings)
    /\ {headings[k].lineNumber : k \in DOMAIN headings} = HeadingLines(source)
    /\ \E k \in DOMAIN headings :
         /\ headings[k].headingId = id
         /\ data = ContentOf(source, headings[k].lineNumber)

\* The headings of an index: each line that is a heading outside the fences, addressed by an
\* identifier of its own, which leads to its content.
LEMMA IndexAddresses ==
    ASSUME NEW source \in Seq(STRING), NEW index, NEW id,
           index = buildArtifactTextIndex(source, "text/markdown"), index.error = "none",
           HeadingAt(index, id) # {},
           NEW heading, heading = index.headings[Min(HeadingAt(index, id))]
    PROVE  HeadingsTrue(source, index.headings, id,
                        Slice(source, heading.byteStart, heading.byteLength))
<1> DEFINE lines == scanLines(source)
           n == Len(lines)
           N == Len(source)
           scanned == scanHeadings(source, lines)
           headings == index.headings
           fence == FencesOf(source, lines)
           k == Min(HeadingAt(index, id))
<1>1. scanned.error = "none" /\ headings = scanned.headings
  <2> DEFINE given == IF "text/markdown" = "text/plain" THEN <<>> ELSE scanLines(source)
  <2>1. given = lines
    OBVIOUS
  <2> HIDE DEF given
  <2>2. /\ scanHeadings(source, given).error = "none"
        /\ index = [error |-> "none", source |-> source, mediaType |-> "text/markdown",
                    lines |-> scanLines(source), headings |-> scanHeadings(source, given).headings]
    BY BuiltIndex, Zenon DEF given
  <2>3. /\ scanned.error = "none"
        /\ index = [error |-> "none", source |-> source, mediaType |-> "text/markdown",
                    lines |-> lines, headings |-> scanned.headings]
    BY <2>1, <2>2, Zenon
  <2> HIDE DEF scanned, lines
  <2>4. QED
    BY <2>3
<1>2. Table(source, lines, N) /\ N \in Nat
  BY ScannedLines
<1>3. n \in Nat /\ lines \in Seq(LineRecords)
  BY <1>2 DEF Table
<1>4. FencesRun(source, fence, n) /\ AddressedTo(source, lines, fence, headings, n)
  <2>1. lines = scanLines(source)
    OBVIOUS
  <2> HIDE DEF lines
  <2>2. QED
    BY <1>1, <2>1, ScannedAddressed, Zenon
<1> HIDE DEF scanned, fence, headings
<1>5. PICK S : headings \in Seq(S)
  BY <1>4, Zenon DEF AddressedTo
<1>6. DOMAIN headings = 1..Len(headings) /\ Len(headings) \in Nat
  BY <1>5
<1>7. k \in DOMAIN headings /\ headings[k].headingId = id /\ heading = headings[k]
  <2>1. HeadingAt(index, id) = {i \in DOMAIN headings : headings[i].headingId = id}
    BY Zenon DEF HeadingAt, headings
  <2>2. HeadingAt(index, id) \subseteq Nat
    BY <1>6, <2>1
  <2>3. k \in HeadingAt(index, id)
    BY <2>2, MinIs
  <2>4. heading = headings[k]
    BY Zenon DEF headings
  <2> HIDE DEF k
  <2>5. QED
    BY <2>1, <2>3, <2>4, Zenon
<1> HIDE DEF k
<1>8. PICK j \in 1..n : HeadingAtLine(lines, headings[k], j)
  BY <1>4, <1>7, Zenon DEF AddressedTo
<1>9. N # 0
  <2>1. n \in 1..n /\ N = LineEnd(lines[n])
    <3>1. n \in 1..n /\ n # 0
      BY <1>3, <1>8
    <3>2. QED
      BY <1>2, <3>1 DEF Table
  <2>2. /\ LineEnd(lines[n]) \in Nat /\ lines[n].byteStart \in Nat
        /\ lines[n].byteStart < LineEnd(lines[n])
    BY <1>2, <2>1, LineTyped
  <2> HIDE DEF N
  <2>3. QED
    BY <2>1, <2>2
<1>10. LineOf(source, N) = n
  BY <1>2, <1>9, LastLine
<1>11. {headings[i].lineNumber : i \in DOMAIN headings} = HeadingLines(source)
  <2>1. HeadingLines(source) = {i \in 1..n : HeadingSeen(source, fence, i)}
    BY <1>3, <1>4, <1>10, HeadingLinesAre, Zenon DEF HeadingSeen
  <2>2. QED
    BY <1>4, <2>1, Zenon DEF AddressedTo
<1>12. Cardinality({headings[i].headingId : i \in DOMAIN headings}) = Len(headings)
  <2>1. IdsDiffer(headings)
    BY <1>4, Zenon DEF AddressedTo
  <2>2. Cardinality(Ids(headings)) = Len(headings)
    BY <1>5, <2>1, CountIds, Zenon
  <2>3. QED
    BY <2>2, Zenon DEF Ids
<1>13. Slice(source, heading.byteStart, heading.byteLength) = ContentOf(source, headings[k].lineNumber)
  <2>1. /\ headings[k].lineNumber = j /\ heading.byteStart = lines[j].byteStart
        /\ heading.byteLength = lines[j].contentByteLength
    BY <1>7, <1>8 DEF HeadingAtLine
  <2>2. ContentOf(source, j) = Slice(source, lines[j].byteStart, lines[j].contentByteLength)
    BY ContentOfTable, Zenon
  <2>3. QED
    BY <2>1, <2>2, Zenon
<1>14. QED
  BY <1>7, <1>11, <1>12, <1>13, Zenon DEF HeadingsTrue, headings

\* Plain text has no headings.
LEMMA PlainHasNone ==
    ASSUME NEW source, NEW index, index = buildArtifactTextIndex(source, "text/plain"),
           index.error = "none"
    PROVE  \A id : HeadingAt(index, id) = {}
<1> DEFINE scanned == scanHeadings(source, <<>>)
<1>1. Len(<<>>) = 0 /\ DOMAIN <<>> = {} /\ 0 \in Nat
  OBVIOUS
<1>2. headingsAfter(source, <<>>)[0] = HeadingsStart
  <2> DEFINE none == <<>>
  <2>1. Len(none) \in Nat
    OBVIOUS
  <2> HIDE DEF none
  <2>2. headingsAfter(source, none)[0] = HeadingsStart
    BY <2>1, HeadingsIs, Zenon
  <2>3. QED
    BY <2>2 DEF none
<1>3. scanned.headings = <<>>
  <2>1. scanned = HeadingsStart
    BY <1>1, <1>2, Zenon DEF scanHeadings
  <2>2. QED
    BY <2>1 DEF HeadingsStart
<1>4. index.headings = scanned.headings
  <2> DEFINE given == IF "text/plain" = "text/plain" THEN <<>> ELSE scanLines(source)
  <2>1. given = <<>>
    OBVIOUS
  <2> HIDE DEF given
  <2>2. index = [error |-> "none", source |-> source, mediaType |-> "text/plain",
                 lines |-> scanLines(source), headings |-> scanHeadings(source, given).headings]
    BY BuiltIndex, Zenon DEF given
  <2>3. QED
    BY <2>1, <2>2
<1>5. QED
  BY <1>1, <1>3, <1>4 DEF HeadingAt

\* artifact_read_heading returns the content of the heading its identifier addresses.
LEMMA ReadHeadingTrue ==
    ASSUME artifact \in Artifacts, NEW r, Sound(r), NEW bytes \in Seq(STRING), NEW index,
           index = buildArtifactTextIndex(bytes, r.mediaType),
           artifactReadHeading(r, bytes, index).class = "success"
    PROVE  HeadingsTrue(artifact.source,
                        buildArtifactTextIndex(artifact.source, "text/markdown").headings,
                        request.headingId, artifactReadHeading(r, bytes, index).data)
<1> DEFINE source == artifact.source
           mediaType == r.mediaType
           id == request.headingId
           heading == index.headings[Min(HeadingAt(index, id))]
           start == heading.byteStart
           length == heading.byteLength
           read == readIndexedHeading(bytes, index, id)
           returned == ReturnRange(r, bytes, read.text, start, length)
<1>1. verifyArtifactSourceManifest(bytes, r) /\ index.error = "none"
  BY DeniedIs, IndexErrorDenied DEF artifactReadHeading
<1>2. bytes = source /\ source \in Seq(STRING)
  BY <1>1, SourceTable, SourceTyped
<1>3. /\ read.error = "none" /\ returned.class = "success"
      /\ artifactReadHeading(r, bytes, index) = returned
  BY <1>1, DeniedIs, IndexErrorDenied DEF artifactReadHeading
<1>4. HeadingAt(index, id) # {} /\ read.text = Slice(bytes, start, length)
  <2>1. IndexError(bytes, index) = "none"
    BY <1>1, IndexHolds
  <2>2. read = IF HeadingAt(index, id) = {} THEN NoText("INVALID_HEADING_ID")
               ELSE untrustedRead(Slice(bytes, start, length))
    <3> HIDE DEF id
    <3>1. QED
      BY <2>1, Zenon DEF readIndexedHeading, readUnless
  <2> HIDE DEF read, start, length
  <2>3. QED
    BY <1>3, <2>2 DEF untrustedRead, NoText
<1> HIDE DEF read
<1>5. returned.data = Slice(source, start, length)
  <2> HIDE DEF start, length
  <2>1. QED
    BY <1>2, <1>3, <1>4, ReturnedIs
<1> HIDE DEF returned
<1>6. index = buildArtifactTextIndex(source, mediaType)
  BY <1>2
<1> HIDE DEF source, mediaType, id
<1>7. mediaType \in {"text/plain", "text/markdown"}
  <2>1. SUFFICES ASSUME mediaType \notin {"text/plain", "text/markdown"} PROVE FALSE
    OBVIOUS
  <2>2. index = NoIndex("UNSUPPORTED_MEDIA_TYPE")
    BY <1>6, <2>1, Zenon DEF buildArtifactTextIndex
  <2>3. QED
    BY <1>1, <2>2 DEF NoIndex
<1>8. mediaType # "text/plain"
  BY <1>1, <1>4, <1>6, PlainHasNone, Zenon
<1>9. index = buildArtifactTextIndex(source, "text/markdown")
  BY <1>6, <1>7, <1>8
<1>10. HeadingsTrue(source, index.headings, id, Slice(source, start, length))
  <2>1. heading = index.headings[Min(HeadingAt(index, id))]
    OBVIOUS
  <2> HIDE DEF heading
  <2>2. QED
    BY <1>1, <1>2, <1>4, <1>9, <2>1, IndexAddresses, Zenon
<1>11. HeadingsTrue(source, index.headings, id, artifactReadHeading(r, bytes, index).data)
  <2> HIDE DEF start, length
  <2>1. artifactReadHeading(r, bytes, index).data = Slice(source, start, length)
    BY <1>3, <1>5
  <2>2. QED
    BY <1>10, <2>1, Zenon
<1>12. QED
  BY <1>9, <1>11 DEF source, id

\* An identifier addresses one heading, every heading outside the code fences has one, and
\* artifact_read_heading returns the line of the heading its identifier addresses.
THEOREM HeadingsAsAddressed == Spec => []HeadingsAreAddressed
<1> DEFINE Of(a) == HeadingsTrue(artifact.source,
                                 buildArtifactTextIndex(artifact.source, "text/markdown").headings,
                                 request.headingId, a.data)
<1>1. HeadingsAreAddressed <=> (Succeeded("artifact_read_heading") => Of(answer))
  BY Zenon DEF HeadingsAreAddressed, HeadingsTrue
<1>2. Init => HeadingsAreAddressed
  BY DEF Init, Empty, HeadingsAreAddressed, Succeeded
<1>3. IInv /\ HeadingsAreAddressed /\ [Next]_vars => HeadingsAreAddressed'
  <2> SUFFICES ASSUME IInv, HeadingsAreAddressed, [Next]_vars PROVE HeadingsAreAddressed'
    OBVIOUS
  <2>1. artifact' = artifact /\ request' = request
    BY AnswerStep
  <2>2. ASSUME Succeeded("artifact_read_heading")' PROVE Of(answer')
    <3>1. request.tool = "artifact_read_heading" /\ answer'.class = "success"
      BY <2>1, <2>2 DEF Succeeded
    <3>2. CASE answer' = answer
      <4>1. Succeeded("artifact_read_heading")
        BY <3>1, <3>2 DEF Succeeded
      <4>2. Of(answer)
        BY <1>1, <4>1, Zenon
      <4>3. QED
        BY <3>2, <4>2, Zenon
    <3>3. CASE phase = "fetched" /\ answer' = Conclusion
      <4> DEFINE index == buildArtifactTextIndex(fetched.bytes, record.mediaType)
      <4>1. /\ Conclusion = WithIndex(record, fetched.bytes, index)
            /\ fetched.bytes \in Seq(STRING) /\ Sound(record) /\ artifact \in Artifacts
            /\ request \in Requests(artifact.source)
        BY <3>1, <3>3, ConclusionIs
      <4>2. answer' = artifactReadHeading(record, fetched.bytes, index)
        BY <3>1, <3>3, <4>1 DEF WithIndex
      <4>3. QED
        BY <3>1, <4>1, <4>2, ReadHeadingTrue, Zenon
    <3>4. QED
      BY <3>1, <3>2, <3>3, AnswerStep
  <2>3. Succeeded("artifact_read_heading")' => Of(answer)'
    BY <2>1, <2>2, Zenon
  <2>4. QED
    BY <2>1, <2>3 DEF HeadingsAreAddressed, HeadingsTrue
<1>4. QED
  BY <1>2, <1>3, Inductive, PTL DEF Spec
=============================================================================
