---------------------------- MODULE MCMerkleProof ----------------------------
(***************************************************************************)
(* Up to six chunks of one or two bytes.  The bounds on counts are those   *)
(* of the code.                                                            *)
(***************************************************************************)
EXTENDS MerkleProof

SmallSources == UNION {[1..n -> Bytes] : n \in 0..6}
ChunkContents == UNION {[1..n -> Bytes] : n \in 1..2}

\* Digests a sibling may be replaced by: a leaf, or a node of two equal leaves.
Digests == LET leaves == {merkleLeafDigest(<<x>>) : x \in Bytes}
           IN leaves \cup {parentDigest(d, d) : d \in leaves}

\* The built proof with one field, or one group of fields that are checked against each
\* other, changed.
Rehashed(p, bytes) == [p EXCEPT !.chunkSha256 = rawDigest(bytes),
                                !.merkleLeafSha256 = merkleLeafDigest(bytes)]
Moved(p, i) == [p EXCEPT !.chunkIndex = i, !.byteStart = i * p.chunkSize,
                         !.byteLength = IF i = p.totalChunkCount - 1
                                        THEN p.sourceByteLength - i * p.chunkSize ELSE p.chunkSize]
Resized(p, n) == [p EXCEPT !.sourceByteLength = n, !.totalChunkCount = ceilDiv(n, p.chunkSize)]
Replaced(p, k, d) == [p EXCEPT !.sibling = [@ EXCEPT ![k] = d]]
Turned(p, k) == [p EXCEPT !.position = [@ EXCEPT ![k] = IF @ = "left" THEN "right" ELSE "left"]]
Cut(p) == [p EXCEPT !.depth = @ - 1]

AnyPresentation(bytes, p) ==
    {<<bytes, p>>}
      \cup {<<b, p>> : b \in ChunkContents}
      \cup {<<b, Rehashed(p, b)>> : b \in ChunkContents}
      \cup {<<b, [p EXCEPT !.chunkSha256 = rawDigest(b)]>> : b \in ChunkContents}
      \cup {<<bytes, Moved(p, i)>> : i \in 0..(p.totalChunkCount - 1)}
      \cup {<<bytes, Resized(p, n)>> : n \in 1..7}
      \cup {<<bytes, Moved(Resized(p, n), 2)>> : n \in 1..7}
      \cup {<<bytes, Replaced(p, k, d)>> : k \in 0..(p.depth - 1), d \in Digests}
      \cup {<<bytes, Turned(p, k)>> : k \in 0..(p.depth - 1)}
      \cup {<<bytes, Cut(p)>>}
=============================================================================
