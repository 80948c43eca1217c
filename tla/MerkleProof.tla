----------------------------- MODULE MerkleProof -----------------------------
(***************************************************************************)
(* Chunk manifests and Merkle inclusion proofs                             *)
(* (packages/server/src/artifact-chunk-manifest.ts): a source is cut into  *)
(* chunks and hashed into a tree, a proof is built for one chunk, and a    *)
(* verifier walks a proof that may be another one than was built.          *)
(*                                                                         *)
(* The three loops of the code are the actions BuildLevel, ProveNode and   *)
(* WalkNode, one iteration a step.  Arrays keep their zero-based indices.  *)
(* SHA-256 is a term built from what is hashed: two digests are equal only *)
(* if the inputs are, and the prefixes 0x00, 0x01 and 0x02 keep leaves,    *)
(* inner nodes and the empty root apart.                                   *)
(***************************************************************************)
EXTENDS Integers, Sequences

CONSTANTS
    Bytes,
    Sources,                      \* contents of artifacts, as sequences of bytes
    AskedChunkSizes,              \* chunk sizes a caller may ask for
    ALLOWED_CHUNK_SIZES,
    MAX_CALIBRATION_SOURCE_BYTES,
    MAX_CHUNK_COUNT,
    MAX_MERKLE_PROOF_DEPTH,
    Presentations(_, _)           \* what a verifier may be handed, given the built proof
                                  \* and its chunk, as <<chunkBytes, proof>>

rawDigest(bytes) == <<"raw", bytes>>
merkleLeafDigest(bytes) == <<"leaf", bytes>>
parentDigest(left, right) == <<"node", left, right>>
EMPTY_MERKLE_ROOT_DIGEST == <<"empty">>

ceilDiv(a, b) == (a + b - 1) \div b
half(n) == (n + 1) \div 2

\* Math.ceil(Math.log2(count))
expectedProofDepthFor(count) ==
    IF count <= 1 THEN 0
    ELSE CHOOSE d \in 1..MAX_MERKLE_PROOF_DEPTH : 2^(d - 1) < count /\ count <= 2^d

ASSUME BoundsAssumption ==
    /\ Sources \subseteq Seq(Bytes)
    /\ ALLOWED_CHUNK_SIZES \subseteq Nat \ {0}
    /\ MAX_CHUNK_COUNT \in Nat \ {0}
    /\ MAX_CALIBRATION_SOURCE_BYTES \in Nat
    /\ MAX_MERKLE_PROOF_DEPTH \in Nat

\* The logarithm counts the halvings, up to the largest chunk count.
ASSUME DepthAssumption ==
    \A n \in 1..MAX_CHUNK_COUNT :
        /\ expectedProofDepthFor(n) \in 0..MAX_MERKLE_PROOF_DEPTH
        /\ n > 1 => expectedProofDepthFor(n) = 1 + expectedProofDepthFor(half(n))

VARIABLES
    phase,       \* where the three functions stand
    source,
    chunkSize,
    height,      \* the index of the last level built
    widths,      \* widths[l] is the number of nodes of level l
    levels,      \* levels[l][i] is the digest of node i of level l
    target,      \* the chunk to prove
    depth,       \* proof nodes built so far
    path,        \* path[l] is the index at level l on the way up to the root
    position,    \* the proof nodes: on which side the sibling is
    sibling,     \* and its digest
    chunkBytes,  \* what the verifier is handed
    proof,
    step,        \* proof nodes walked so far
    current, index, width

tree == <<source, chunkSize, height, widths, levels>>
built == <<target, depth, path, position, sibling>>
handed == <<chunkBytes, proof>>
walk == <<step, current, index, width>>
vars == <<phase, tree, built, handed, walk>>

None == <<>>
chunkCount == ceilDiv(Len(source), chunkSize)
chunkBytesAt(i) ==
    SubSeq(source, i * chunkSize + 1,
           IF (i + 1) * chunkSize < Len(source) THEN (i + 1) * chunkSize ELSE Len(source))
chunkByteLength(i) == IF i = chunkCount - 1 THEN Len(source) - i * chunkSize ELSE chunkSize
merkleRoot == levels[height][0]

Init ==
    /\ phase = "start"
    /\ source \in Sources
    /\ chunkSize \in AskedChunkSizes
    /\ height = 0
    /\ widths = [l \in 0..0 |-> 0]
    /\ levels = [l \in 0..0 |-> None]
    /\ target = 0 /\ depth = 0 /\ path = [l \in 0..0 |-> 0]
    /\ position = None /\ sibling = None
    /\ chunkBytes = None /\ proof = None
    /\ step = 0 /\ current = None /\ index = 0 /\ width = 0

(***************************************************************************)
(* buildArtifactChunkManifest: bounds, the leaves, then buildMerkleLevels. *)
(***************************************************************************)
SourceAdmitted ==
    /\ chunkSize \in ALLOWED_CHUNK_SIZES
    /\ Len(source) <= MAX_CALIBRATION_SOURCE_BYTES
    /\ chunkCount <= MAX_CHUNK_COUNT

RefuseSource ==
    /\ phase = "start"
    /\ ~SourceAdmitted
    /\ phase' = "unbuilt"
    /\ UNCHANGED <<tree, built, handed, walk>>

HashLeaves ==
    /\ phase = "start"
    /\ SourceAdmitted
    /\ IF chunkCount = 0
         THEN /\ widths' = [l \in 0..0 |-> 1]
              /\ levels' = [l \in 0..0 |-> [i \in 0..0 |-> EMPTY_MERKLE_ROOT_DIGEST]]
         ELSE /\ widths' = [l \in 0..0 |-> chunkCount]
              /\ levels' = [l \in 0..0 |->
                              [i \in 0..(chunkCount - 1) |-> merkleLeafDigest(chunkBytesAt(i))]]
    /\ phase' = "building"
    /\ UNCHANGED <<source, chunkSize, height, built, handed, walk>>

\* The right child of node i above a level of n nodes: the odd last node has itself.
RightChild(level, n, i) == IF 2 * i + 1 < n THEN level[2 * i + 1] ELSE level[2 * i]

BuildLevel ==
    /\ phase = "building"
    /\ widths[height] > 1
    /\ height' = height + 1
    /\ widths' = [l \in 0..(height + 1) |-> IF l <= height THEN widths[l] ELSE half(widths[height])]
    /\ levels' = [l \in 0..(height + 1) |->
                    IF l <= height THEN levels[l]
                    ELSE [i \in 0..(half(widths[height]) - 1) |->
                            parentDigest(levels[height][2 * i],
                                         RightChild(levels[height], widths[height], i))]]
    /\ UNCHANGED <<phase, source, chunkSize, built, handed, walk>>

(***************************************************************************)
(* buildArtifactChunkProof, with buildProofNodesFromLevels.                *)
(***************************************************************************)
RefuseIndex ==
    /\ phase = "building"
    /\ widths[height] = 1
    /\ \E i \in {-1, chunkCount} : target' = i
    /\ phase' = "unbuilt"
    /\ UNCHANGED <<tree, depth, path, position, sibling, handed, walk>>

StartProof ==
    /\ phase = "building"
    /\ widths[height] = 1
    /\ \E i \in 0..(chunkCount - 1) : target' = i /\ path' = [l \in 0..0 |-> i]
    /\ phase' = "proving"
    /\ UNCHANGED <<tree, depth, position, sibling, handed, walk>>

SiblingOf(level, n, i) ==
    IF i % 2 = 1 THEN level[i - 1] ELSE IF i + 1 < n THEN level[i + 1] ELSE level[i]

SideOf(i) == IF i % 2 = 1 THEN "left" ELSE "right"

ProveNode ==
    /\ phase = "proving"
    /\ depth < height
    /\ position' = [k \in 0..depth |-> IF k < depth THEN position[k] ELSE SideOf(path[depth])]
    /\ sibling' = [k \in 0..depth |->
                     IF k < depth THEN sibling[k]
                     ELSE SiblingOf(levels[depth], widths[depth], path[depth])]
    /\ depth' = depth + 1
    /\ path' = [l \in 0..(depth + 1) |-> IF l <= depth THEN path[l] ELSE path[depth] \div 2]
    /\ UNCHANGED <<phase, tree, target, handed, walk>>

ProofBuilt ==
    [sourceByteLength |-> Len(source), chunkSize |-> chunkSize, totalChunkCount |-> chunkCount,
     chunkIndex |-> target, byteStart |-> target * chunkSize,
     byteLength |-> chunkByteLength(target),
     chunkSha256 |-> rawDigest(chunkBytesAt(target)),
     merkleLeafSha256 |-> merkleLeafDigest(chunkBytesAt(target)),
     depth |-> depth, position |-> position, sibling |-> sibling]

(***************************************************************************)
(* verifyArtifactChunkProof, of bytes and a proof that reach the verifier. *)
(***************************************************************************)
Present ==
    /\ phase = "proving"
    /\ depth = height
    /\ \E presentation \in Presentations(chunkBytesAt(target), ProofBuilt) :
         chunkBytes' = presentation[1] /\ proof' = presentation[2]
    /\ phase' = "presented"
    /\ UNCHANGED <<tree, built, walk>>

assertProofShapeConsistent ==
    /\ proof.chunkSize \in ALLOWED_CHUNK_SIZES
    /\ proof.depth <= MAX_MERKLE_PROOF_DEPTH
    /\ proof.sourceByteLength \in 1..MAX_CALIBRATION_SOURCE_BYTES
    /\ proof.totalChunkCount \in 1..MAX_CHUNK_COUNT
    /\ proof.totalChunkCount = ceilDiv(proof.sourceByteLength, proof.chunkSize)
    /\ proof.chunkIndex \in 0..(proof.totalChunkCount - 1)
    /\ proof.byteStart = proof.chunkIndex * proof.chunkSize
    /\ proof.byteLength = IF proof.chunkIndex = proof.totalChunkCount - 1
                          THEN proof.sourceByteLength - proof.byteStart ELSE proof.chunkSize
    /\ proof.byteLength \in 1..proof.chunkSize
    /\ proof.depth = expectedProofDepthFor(proof.totalChunkCount)

BytesMatch ==
    /\ Len(chunkBytes) = proof.byteLength
    /\ rawDigest(chunkBytes) = proof.chunkSha256
    /\ merkleLeafDigest(chunkBytes) = proof.merkleLeafSha256

RefuseShape ==
    /\ phase = "presented"
    /\ ~assertProofShapeConsistent
    /\ phase' = "refused"
    /\ UNCHANGED <<tree, built, handed, walk>>

RejectBytes ==
    /\ phase = "presented"
    /\ assertProofShapeConsistent
    /\ ~BytesMatch
    /\ phase' = "rejected"
    /\ UNCHANGED <<tree, built, handed, walk>>

StartWalk ==
    /\ phase = "presented"
    /\ assertProofShapeConsistent
    /\ BytesMatch
    /\ current' = merkleLeafDigest(chunkBytes)
    /\ index' = proof.chunkIndex
    /\ width' = proof.totalChunkCount
    /\ step' = 0
    /\ phase' = "walking"
    /\ UNCHANGED <<tree, built, handed>>

\* Mutant: Math.floor in place of Math.ceil.
flooredWidth(w) == w \div 2

widthAbove(w) == half(w)

isOddWidthDuplicateStep == width % 2 = 1 /\ index = width - 1

\* Mutant: the side is taken from the node.
AnySide == TRUE

\* Mutant: no sibling is accepted at the odd last node.
NodeIsNeverDuplicate ==
    /\ ~isOddWidthDuplicateStep
    /\ proof.position[step] = SideOf(index)

\* The node of the proof is the one the position in the tree calls for.
NodeIsCanonical ==
    IF isOddWidthDuplicateStep
    THEN proof.position[step] = "right" /\ proof.sibling[step] = current
    ELSE proof.position[step] = SideOf(index)

WalkNode ==
    /\ phase = "walking"
    /\ step < proof.depth
    /\ NodeIsCanonical
    /\ current' = IF proof.position[step] = "left" THEN parentDigest(proof.sibling[step], current)
                  ELSE parentDigest(current, proof.sibling[step])
    /\ index' = index \div 2
    /\ width' = widthAbove(width)
    /\ step' = step + 1
    /\ UNCHANGED <<phase, tree, built, handed>>

RejectNode ==
    /\ phase = "walking"
    /\ step < proof.depth
    /\ ~NodeIsCanonical
    /\ phase' = "rejected"
    /\ UNCHANGED <<tree, built, handed, walk>>

EndWalk ==
    /\ phase = "walking"
    /\ step = proof.depth
    /\ phase' = IF width = 1 /\ current = merkleRoot THEN "accepted" ELSE "rejected"
    /\ UNCHANGED <<tree, built, handed, walk>>

Next ==
    \/ RefuseSource
    \/ HashLeaves
    \/ BuildLevel
    \/ RefuseIndex
    \/ StartProof
    \/ ProveNode
    \/ Present
    \/ RefuseShape
    \/ RejectBytes
    \/ StartWalk
    \/ WalkNode
    \/ RejectNode
    \/ EndWalk

Spec == Init /\ [][Next]_vars
-----------------------------------------------------------------------------
(***************************************************************************)
(* Properties.                                                             *)
(***************************************************************************)

\* verifyArtifactChunkProof: a proof that is accepted under the root of a manifest with its
\* chunk count shows that the bytes are that chunk, whatever else of it was altered.
VerifiedIsIncluded ==
    phase = "accepted" /\ proof.totalChunkCount = chunkCount =>
        chunkBytes = chunkBytesAt(proof.chunkIndex)

\* The proof buildArtifactChunkProof returns is accepted with the bytes of its chunk.
OwnProofVerifies ==
    phase \in {"refused", "rejected"} =>
        chunkBytes # chunkBytesAt(target) \/ proof # ProofBuilt

\* "Structural safety net: the depth check above should already make this unreachable": the
\* walk of a proof of the expected depth ends at a level of one node, for every chunk count.
SafetyNetUnreachable == phase = "walking" /\ step = proof.depth => width = 1
=============================================================================
