-------------------------- MODULE MerkleProofProofs --------------------------
(***************************************************************************)
(* What MerkleProof checks for sources of six bytes, proved for every      *)
(* source, chunk size and presented proof.                                 *)
(*                                                                         *)
(* The loops of the code are steps of the specification, so an invariant   *)
(* over the levels built and the nodes walked takes the place of an        *)
(* induction on the depth of the tree.                                     *)
(***************************************************************************)
EXTENDS MerkleProof, TLAPS

(***************************************************************************)
(* Arithmetic of the tree.                                                 *)
(***************************************************************************)

\* A level of n > 1 nodes has at least one and fewer than n nodes above it.
LEMMA HalfShrinks ==
    ASSUME NEW n \in Nat, n > 1
    PROVE  half(n) \in Nat /\ half(n) >= 1 /\ half(n) < n
BY DEF half

\* Half of an index of a level is an index of the level above.
LEMMA HalfIndex ==
    ASSUME NEW n \in Nat, n >= 1, NEW i \in 0..(n - 1)
    PROVE  i \div 2 \in 0..(half(n) - 1)
BY DEF half

\* The expected depth of a level is one more than that of the level above it.
LEMMA DepthAbove ==
    ASSUME NEW n \in Nat, n > 1, n <= MAX_CHUNK_COUNT
    PROVE  /\ expectedProofDepthFor(n) \in Nat
           /\ expectedProofDepthFor(half(n)) \in Nat
           /\ expectedProofDepthFor(n) = 1 + expectedProofDepthFor(half(n))
<1>1. n \in 1..MAX_CHUNK_COUNT
  BY BoundsAssumption
<1>2. half(n) \in 1..MAX_CHUNK_COUNT
  BY HalfShrinks, BoundsAssumption
<1>3. /\ expectedProofDepthFor(n) \in 0..MAX_MERKLE_PROOF_DEPTH
      /\ expectedProofDepthFor(half(n)) \in 0..MAX_MERKLE_PROOF_DEPTH
      /\ expectedProofDepthFor(n) = 1 + expectedProofDepthFor(half(n))
  BY <1>1, <1>2, DepthAssumption
<1> QED
  BY <1>3, BoundsAssumption

\* A tree of one node needs no proof.
LEMMA DepthOfOne == expectedProofDepthFor(1) = 0
BY DEF expectedProofDepthFor

\* The digest of an inner node determines its children.
LEMMA ParentInjective ==
    ASSUME NEW a, NEW b, NEW c, NEW d, parentDigest(a, b) = parentDigest(c, d)
    PROVE  a = c /\ b = d
BY DEF parentDigest

\* The digest of a leaf determines its bytes.
LEMMA LeafInjective ==
    ASSUME NEW a, NEW b, merkleLeafDigest(a) = merkleLeafDigest(b)
    PROVE  a = b
BY DEF merkleLeafDigest

(***************************************************************************)
(* The inductive invariant: the shape of the tree, what its digests are,   *)
(* and how far the walk of a presented proof agrees with it.               *)
(***************************************************************************)
Grown == phase \notin {"start", "unbuilt"}
Complete == phase \in {"proving", "presented", "walking", "accepted", "rejected", "refused"}

\* The values of the counters and the widths of the levels.
Shape ==
    /\ source \in Sources
    /\ height \in Nat
    /\ DOMAIN widths = 0..height
    /\ \A l \in 0..height : widths[l] \in Nat
    /\ Grown => /\ chunkSize \in ALLOWED_CHUNK_SIZES
                /\ Len(source) <= MAX_CALIBRATION_SOURCE_BYTES
                /\ chunkCount \in Nat
                /\ chunkCount <= MAX_CHUNK_COUNT
                /\ \A l \in 0..height : widths[l] >= 1 /\ widths[l] <= MAX_CHUNK_COUNT
                /\ chunkCount > 0 => widths[0] = chunkCount
                /\ \A l \in 0..height : l < height =>
                     widths[l] > 1 /\ widths[l + 1] = half(widths[l])
    /\ phase = "start" => height = 0
    /\ Complete => widths[height] = 1

\* Every node above the leaves is the digest of its two children.
Hashed ==
    Grown =>
        /\ chunkCount > 0 => \A i \in 0..(chunkCount - 1) :
                               levels[0][i] = merkleLeafDigest(chunkBytesAt(i))
        /\ \A l \in 0..height : l < height =>
             \A i \in 0..(half(widths[l]) - 1) :
               levels[l + 1][i] = parentDigest(levels[l][2 * i], RightChild(levels[l], widths[l], i))

\* The walk is at a node of the level it has reached.  If the proof declares the chunk
\* count of the manifest, agreeing with the tree there means having the bytes of the chunk.
Walked ==
    phase \in {"walking", "accepted"} =>
        /\ assertProofShapeConsistent
        /\ step \in Nat /\ step <= proof.depth
        /\ width \in Nat /\ width >= 1 /\ width <= MAX_CHUNK_COUNT
        /\ index \in 0..(width - 1)
        /\ expectedProofDepthFor(width) \in Nat
        /\ expectedProofDepthFor(width) + step = proof.depth
        /\ proof.totalChunkCount = chunkCount =>
             /\ step <= height
             /\ width = widths[step]
             /\ current = levels[step][index] => chunkBytes = chunkBytesAt(proof.chunkIndex)
        /\ phase = "accepted" => step = proof.depth /\ width = 1 /\ current = merkleRoot

TreeInv == Shape /\ Hashed /\ Walked
-----------------------------------------------------------------------------
\* In the initial state nothing is built.
LEMMA InitTree == Init => TreeInv
<1> SUFFICES ASSUME Init PROVE TreeInv
  OBVIOUS
<1>1. Shape
  BY DEF Init, Shape, Grown, Complete
<1>2. Hashed
  BY DEF Init, Hashed, Grown
<1>3. Walked
  BY DEF Init, Walked
<1> QED
  BY <1>1, <1>2, <1>3 DEF TreeInv

\* A step that leaves the source and the levels alone and does not begin or complete the
\* tree leaves Shape and Hashed alone.
LEMMA TreeKept ==
    ASSUME TreeInv, UNCHANGED tree,
           Grown' => Grown, Complete' => Complete \/ (Grown /\ widths[height] = 1),
           phase' # "start"
    PROVE  Shape' /\ Hashed'
<1>1. /\ source' = source /\ chunkSize' = chunkSize /\ height' = height
      /\ widths' = widths /\ levels' = levels
  BY DEF tree
<1>2. chunkCount' = chunkCount
  BY <1>1 DEF chunkCount
<1>3. \A i : chunkBytesAt(i)' = chunkBytesAt(i)
  BY <1>1 DEF chunkBytesAt
<1>4. Shape'
  BY <1>1, <1>2 DEF TreeInv, Shape, ceilDiv
<1>5. Hashed'
  BY <1>1, <1>2, <1>3 DEF TreeInv, Hashed
<1> QED
  BY <1>4, <1>5

\* Hashing the leaves begins the tree.
LEMMA HashLeavesTree == TreeInv /\ HashLeaves => Shape' /\ Hashed'
<1> SUFFICES ASSUME TreeInv, HashLeaves PROVE Shape' /\ Hashed'
  OBVIOUS
<1>1. /\ source' = source /\ chunkSize' = chunkSize /\ height' = height /\ height = 0
      /\ phase' = "building"
      /\ SourceAdmitted
      /\ source \in Sources
  BY DEF HashLeaves, TreeInv, Shape
<1>2. chunkCount' = chunkCount /\ \A i : chunkBytesAt(i)' = chunkBytesAt(i)
  BY <1>1 DEF chunkCount, chunkBytesAt
<1>3. Len(source) \in Nat /\ chunkSize \in Nat /\ chunkSize # 0
  BY <1>1, BoundsAssumption DEF SourceAdmitted
<1>4. chunkCount \in Nat
  BY <1>3 DEF chunkCount, ceilDiv
<1>5. CASE chunkCount = 0
  <2>1. widths' = [l \in 0..0 |-> 1]
    BY <1>5 DEF HashLeaves
  <2>2. Shape'
    BY <1>1, <1>2, <1>4, <1>5, <2>1, BoundsAssumption DEF Shape, Grown, Complete, SourceAdmitted
  <2>3. Hashed'
    BY <1>1, <1>2, <1>5 DEF Hashed
  <2> QED
    BY <2>2, <2>3
<1>6. CASE chunkCount # 0
  <2>1. /\ widths' = [l \in 0..0 |-> chunkCount]
        /\ levels' = [l \in 0..0 |->
                        [i \in 0..(chunkCount - 1) |-> merkleLeafDigest(chunkBytesAt(i))]]
    BY <1>6 DEF HashLeaves
  <2>2. Shape'
    BY <1>1, <1>2, <1>4, <1>6, <2>1, BoundsAssumption DEF Shape, Grown, Complete, SourceAdmitted
  <2>3. levels'[0] = [i \in 0..(chunkCount - 1) |-> merkleLeafDigest(chunkBytesAt(i))]
    BY <2>1
  <2>4. \A i \in 0..(chunkCount - 1) : levels'[0][i] = merkleLeafDigest(chunkBytesAt(i))
    BY <2>3
  <2>5. Hashed'
    BY <1>1, <1>2, <2>4 DEF Hashed
  <2> QED
    BY <2>2, <2>5
<1> QED
  BY <1>5, <1>6

\* A new level halves the width and hashes the nodes of the level below in pairs.
LEMMA BuildLevelTree == TreeInv /\ BuildLevel => Shape' /\ Hashed'
<1> SUFFICES ASSUME TreeInv, BuildLevel PROVE Shape' /\ Hashed'
  OBVIOUS
<1>1. /\ source' = source /\ chunkSize' = chunkSize /\ height' = height + 1
      /\ phase' = phase /\ phase = "building"
      /\ widths[height] > 1
      /\ widths' = [l \in 0..(height + 1) |->
                      IF l <= height THEN widths[l] ELSE half(widths[height])]
  BY DEF BuildLevel
<1>2. chunkCount' = chunkCount /\ \A i : chunkBytesAt(i)' = chunkBytesAt(i)
  BY <1>1 DEF chunkCount, chunkBytesAt
<1>3. Grown /\ height \in Nat /\ widths[height] \in Nat /\ widths[height] <= MAX_CHUNK_COUNT
  BY <1>1 DEF TreeInv, Shape, Grown
<1>4. half(widths[height]) \in Nat /\ half(widths[height]) >= 1
      /\ half(widths[height]) <= MAX_CHUNK_COUNT
  BY <1>1, <1>3, HalfShrinks, BoundsAssumption
<1>5. /\ \A l \in 0..height : widths'[l] = widths[l]
      /\ widths'[height + 1] = half(widths[height])
  BY <1>1, <1>3
<1>6. Shape'
  <2>1. DOMAIN widths' = 0..height'
    BY <1>1
  <2>2. \A l \in 0..height' : /\ widths'[l] \in Nat
                              /\ widths'[l] >= 1
                              /\ widths'[l] <= MAX_CHUNK_COUNT
    BY <1>1, <1>3, <1>4, <1>5 DEF TreeInv, Shape
  <2>3. \A l \in 0..height' : l < height' =>
          widths'[l] > 1 /\ widths'[l + 1] = half(widths'[l])
    <3> SUFFICES ASSUME NEW l \in 0..height', l < height'
                 PROVE  widths'[l] > 1 /\ widths'[l + 1] = half(widths'[l])
      OBVIOUS
    <3>1. CASE l = height
      BY <1>1, <1>3, <1>5, <3>1
    <3>2. CASE l # height
      <4>1. l \in 0..height /\ l < height /\ l + 1 \in 0..height
        BY <1>1, <1>3, <3>2
      <4>2. widths[l] > 1 /\ widths[l + 1] = half(widths[l])
        BY <4>1, <1>3 DEF TreeInv, Shape
      <4> QED
        BY <4>1, <4>2, <1>5
    <3> QED
      BY <3>1, <3>2
  <2>4. widths'[0] = widths[0]
    BY <1>3, <1>5
  <2> QED
    BY <1>1, <1>2, <1>3, <2>1, <2>2, <2>3, <2>4 DEF TreeInv, Shape, Grown, Complete
<1>7. /\ \A l \in 0..height : levels'[l] = levels[l]
      /\ levels'[height + 1] =
           [i \in 0..(half(widths[height]) - 1) |->
              parentDigest(levels[height][2 * i],
                           RightChild(levels[height], widths[height], i))]
  BY <1>3 DEF BuildLevel
<1>8. Hashed'
  <2>1. ASSUME chunkCount' > 0
        PROVE  \A i \in 0..(chunkCount' - 1) : levels'[0][i] = merkleLeafDigest(chunkBytesAt(i))'
    BY <1>2, <1>3, <1>7, <2>1 DEF TreeInv, Hashed
  <2>2. ASSUME NEW l \in 0..height', l < height', NEW i \in 0..(half(widths'[l]) - 1)
        PROVE  levels'[l + 1][i] =
                 parentDigest(levels'[l][2 * i], RightChild(levels'[l], widths'[l], i))
    <3>1. CASE l = height
      <4>1. levels'[height] = levels[height] /\ widths'[height] = widths[height]
        BY <1>3, <1>5, <1>7
      <4>2. i \in 0..(half(widths[height]) - 1)
        BY <2>2, <3>1, <4>1
      <4>3. levels'[height + 1][i] =
              parentDigest(levels[height][2 * i], RightChild(levels[height], widths[height], i))
        BY <1>7, <4>2
      <4> QED
        BY <3>1, <4>1, <4>3
    <3>2. CASE l # height
      <4>1. l \in 0..height /\ l < height /\ l + 1 \in 0..height
        BY <1>1, <1>3, <2>2, <3>2
      <4>2. i \in 0..(half(widths[l]) - 1)
        BY <4>1, <1>5, <2>2
      <4>3. levels[l + 1][i] =
              parentDigest(levels[l][2 * i], RightChild(levels[l], widths[l], i))
        BY <4>1, <4>2, <1>3 DEF TreeInv, Hashed
      <4> QED
        BY <4>1, <4>3, <1>5, <1>7
    <3> QED
      BY <3>1, <3>2
  <2> QED
    BY <2>1, <2>2, Zenon DEF Hashed, merkleLeafDigest, parentDigest, RightChild
<1> QED
  BY <1>6, <1>8

\* A step that changes neither the walk nor what it is compared with.
LEMMA WalkKept ==
    ASSUME TreeInv, UNCHANGED <<tree, handed, walk>>,
           phase' \in {"walking", "accepted"} => phase' = phase
    PROVE  Walked'
<1>1. /\ source' = source /\ chunkSize' = chunkSize /\ height' = height
      /\ widths' = widths /\ levels' = levels
      /\ chunkBytes' = chunkBytes /\ proof' = proof
      /\ step' = step /\ current' = current /\ index' = index /\ width' = width
  BY DEF tree, handed, walk
<1>2. chunkCount' = chunkCount /\ \A i : chunkBytesAt(i)' = chunkBytesAt(i)
  BY <1>1 DEF chunkCount, chunkBytesAt
<1>3. merkleRoot' = merkleRoot
  BY <1>1 DEF merkleRoot
<1>4. assertProofShapeConsistent' = assertProofShapeConsistent
  BY <1>1 DEF assertProofShapeConsistent
<1> QED
  BY <1>1, <1>2, <1>3, <1>4 DEF TreeInv, Walked

\* A walk begins at the leaf that the proof declares.
LEMMA StartWalkWalked == TreeInv /\ StartWalk => Walked'
<1> SUFFICES ASSUME TreeInv, StartWalk PROVE Walked'
  OBVIOUS
<1>1. /\ source' = source /\ chunkSize' = chunkSize /\ height' = height
      /\ widths' = widths /\ levels' = levels
      /\ chunkBytes' = chunkBytes /\ proof' = proof
      /\ step' = 0 /\ current' = merkleLeafDigest(chunkBytes)
      /\ index' = proof.chunkIndex /\ width' = proof.totalChunkCount
      /\ phase = "presented" /\ phase' = "walking"
      /\ assertProofShapeConsistent
  BY DEF StartWalk, tree, handed
<1>2. chunkCount' = chunkCount /\ \A i : chunkBytesAt(i)' = chunkBytesAt(i)
  BY <1>1 DEF chunkCount, chunkBytesAt
<1>3. assertProofShapeConsistent'
  BY <1>1 DEF assertProofShapeConsistent
<1>4. /\ proof.totalChunkCount \in 1..MAX_CHUNK_COUNT
      /\ proof.chunkIndex \in 0..(proof.totalChunkCount - 1)
      /\ proof.depth = expectedProofDepthFor(proof.totalChunkCount)
  BY <1>1 DEF assertProofShapeConsistent
<1>5. expectedProofDepthFor(proof.totalChunkCount) \in Nat
  BY <1>4, DepthAssumption, BoundsAssumption
<1>6. ASSUME proof.totalChunkCount = chunkCount
      PROVE  /\ 0 <= height
             /\ proof.totalChunkCount = widths[0]
             /\ merkleLeafDigest(chunkBytes) = levels[0][proof.chunkIndex] =>
                  chunkBytes = chunkBytesAt(proof.chunkIndex)
  <2>1. Grown /\ height \in Nat /\ chunkCount \in Nat /\ chunkCount > 0
    BY <1>1, <1>4, <1>6, BoundsAssumption DEF TreeInv, Shape, Grown
  <2>2. widths[0] = chunkCount
    BY <2>1 DEF TreeInv, Shape
  <2>3. levels[0][proof.chunkIndex] = merkleLeafDigest(chunkBytesAt(proof.chunkIndex))
    BY <1>4, <1>6, <2>1 DEF TreeInv, Hashed
  <2> QED
    BY <1>6, <2>1, <2>2, <2>3, LeafInjective
<1> QED
  BY <1>1, <1>2, <1>3, <1>4, <1>5, <1>6, BoundsAssumption DEF Walked

\* Walking a canonical node: if the parents agree, the nodes below them did.
LEMMA WalkNodeWalked == TreeInv /\ WalkNode => Walked'
<1> SUFFICES ASSUME TreeInv, WalkNode PROVE Walked'
  OBVIOUS
<1>1. /\ source' = source /\ chunkSize' = chunkSize /\ height' = height
      /\ widths' = widths /\ levels' = levels
      /\ chunkBytes' = chunkBytes /\ proof' = proof
      /\ step' = step + 1 /\ index' = index \div 2 /\ width' = half(width)
      /\ phase = "walking" /\ phase' = "walking"
      /\ step < proof.depth /\ NodeIsCanonical
  BY DEF WalkNode, tree, handed, widthAbove
<1>2. chunkCount' = chunkCount /\ \A i : chunkBytesAt(i)' = chunkBytesAt(i)
  BY <1>1 DEF chunkCount, chunkBytesAt
<1>3. /\ assertProofShapeConsistent
      /\ step \in Nat /\ step <= proof.depth
      /\ width \in Nat /\ width >= 1 /\ width <= MAX_CHUNK_COUNT
      /\ index \in 0..(width - 1)
      /\ expectedProofDepthFor(width) \in Nat
      /\ expectedProofDepthFor(width) + step = proof.depth
  BY <1>1 DEF TreeInv, Walked
<1>4. assertProofShapeConsistent'
  BY <1>1, <1>3 DEF assertProofShapeConsistent
<1>5. width > 1
  BY <1>1, <1>3, DepthOfOne
<1>6. /\ half(width) \in Nat /\ half(width) >= 1 /\ half(width) <= MAX_CHUNK_COUNT
      /\ index \div 2 \in 0..(half(width) - 1)
  BY <1>3, <1>5, HalfShrinks, HalfIndex, BoundsAssumption
<1>7. /\ expectedProofDepthFor(half(width)) \in Nat
      /\ expectedProofDepthFor(half(width)) + (step + 1) = proof.depth
  BY <1>3, <1>5, DepthAbove
<1>8. step + 1 <= proof.depth
  BY <1>7, <1>3
<1>9. ASSUME proof.totalChunkCount = chunkCount
      PROVE  /\ step + 1 <= height
             /\ half(width) = widths[step + 1]
             /\ current' = levels[step + 1][index \div 2] =>
                  chunkBytes = chunkBytesAt(proof.chunkIndex)
  <2>1. /\ step <= height /\ width = widths[step]
        /\ current = levels[step][index] => chunkBytes = chunkBytesAt(proof.chunkIndex)
    BY <1>1, <1>9 DEF TreeInv, Walked
  <2>2. Grown /\ height \in Nat /\ widths[height] = 1
    BY <1>1 DEF TreeInv, Shape, Grown, Complete
  <2>3. step < height /\ step \in 0..height
    BY <1>3, <1>5, <2>1, <2>2
  <2>4. widths[step + 1] = half(widths[step])
    BY <2>2, <2>3 DEF TreeInv, Shape
  <2>5. levels[step + 1][index \div 2] =
          parentDigest(levels[step][2 * (index \div 2)],
                       RightChild(levels[step], width, index \div 2))
    BY <1>6, <2>1, <2>2, <2>3 DEF TreeInv, Hashed
  <2>6. ASSUME current' = levels[step + 1][index \div 2]
        PROVE  current = levels[step][index]
    <3>1. CASE index % 2 = 1
      <4>1. ~isOddWidthDuplicateStep
        BY <1>3, <3>1 DEF isOddWidthDuplicateStep
      <4>2. proof.position[step] = "left"
        BY <1>1, <3>1, <4>1 DEF NodeIsCanonical, SideOf
      <4>3. current' = parentDigest(proof.sibling[step], current)
        BY <4>2 DEF WalkNode
      <4>4. 2 * (index \div 2) + 1 = index /\ index < width
        BY <1>3, <3>1
      <4>5. RightChild(levels[step], width, index \div 2) = levels[step][index]
        BY <4>4 DEF RightChild
      <4> QED
        BY <2>5, <2>6, <4>3, <4>5, ParentInjective
    <3>2. CASE index % 2 # 1
      <4>1. proof.position[step] = "right"
        BY <1>1, <3>2 DEF NodeIsCanonical, SideOf
      <4>2. current' = parentDigest(current, proof.sibling[step])
        BY <4>1 DEF WalkNode
      <4>3. 2 * (index \div 2) = index
        BY <1>3, <3>2
      <4>4. levels[step + 1][index \div 2] =
              parentDigest(levels[step][index], RightChild(levels[step], width, index \div 2))
        BY <2>5, <4>3
      <4>5. parentDigest(current, proof.sibling[step]) =
              parentDigest(levels[step][index], RightChild(levels[step], width, index \div 2))
        BY <2>6, <4>2, <4>4
      <4> QED
        BY <4>5, ParentInjective
    <3> QED
      BY <3>1, <3>2
  <2>7. current' = levels[step + 1][index \div 2] => chunkBytes = chunkBytesAt(proof.chunkIndex)
    BY <2>1, <2>6
  <2>8. step + 1 <= height /\ half(width) = widths[step + 1]
    BY <1>3, <2>1, <2>2, <2>3, <2>4
  <2> QED
    BY <2>7, <2>8
<1> QED
  BY <1>1, <1>2, <1>4, <1>6, <1>7, <1>8, <1>9, <1>3 DEF Walked

\* A walk is accepted at the root.
LEMMA EndWalkWalked == TreeInv /\ EndWalk => Walked'
<1> SUFFICES ASSUME TreeInv, EndWalk PROVE Walked'
  OBVIOUS
<1>1. /\ source' = source /\ chunkSize' = chunkSize /\ height' = height
      /\ widths' = widths /\ levels' = levels
      /\ chunkBytes' = chunkBytes /\ proof' = proof
      /\ step' = step /\ current' = current /\ index' = index /\ width' = width
      /\ phase = "walking" /\ step = proof.depth
      /\ phase' = "accepted" => width = 1 /\ current = merkleRoot
      /\ phase' # "walking"
  BY DEF EndWalk, tree, handed, walk
<1>2. chunkCount' = chunkCount /\ \A i : chunkBytesAt(i)' = chunkBytesAt(i)
  BY <1>1 DEF chunkCount, chunkBytesAt
<1>3. merkleRoot' = merkleRoot
  BY <1>1 DEF merkleRoot
<1>4. assertProofShapeConsistent' = assertProofShapeConsistent
  BY <1>1 DEF assertProofShapeConsistent
<1> QED
  BY <1>1, <1>2, <1>3, <1>4 DEF TreeInv, Walked

\* No step breaks the invariant.
LEMMA NextTree == TreeInv /\ [Next]_vars => TreeInv'
<1> SUFFICES ASSUME TreeInv, [Next]_vars PROVE TreeInv'
  OBVIOUS
<1> USE DEF Grown, Complete
<1>1. CASE RefuseSource
  <2>1. Shape' /\ Hashed'
    BY <1>1, TreeKept DEF RefuseSource
  <2>2. Walked'
    BY <1>1, WalkKept DEF RefuseSource
  <2> QED BY <2>1, <2>2 DEF TreeInv
<1>2. CASE HashLeaves
  <2>1. Shape' /\ Hashed'
    BY <1>2, HashLeavesTree
  <2>2. Walked'
    BY <1>2 DEF HashLeaves, Walked
  <2> QED BY <2>1, <2>2 DEF TreeInv
<1>3. CASE BuildLevel
  <2>1. Shape' /\ Hashed'
    BY <1>3, BuildLevelTree
  <2>2. Walked'
    BY <1>3 DEF BuildLevel, Walked
  <2> QED BY <2>1, <2>2 DEF TreeInv
<1>4. CASE RefuseIndex
  <2>1. Shape' /\ Hashed'
    BY <1>4, TreeKept DEF RefuseIndex
  <2>2. Walked'
    BY <1>4 DEF RefuseIndex, Walked
  <2> QED BY <2>1, <2>2 DEF TreeInv
<1>5. CASE StartProof
  <2>1. Shape' /\ Hashed'
    BY <1>5, TreeKept DEF StartProof
  <2>2. Walked'
    BY <1>5 DEF StartProof, Walked
  <2> QED BY <2>1, <2>2 DEF TreeInv
<1>6. CASE ProveNode
  <2>1. Shape' /\ Hashed'
    BY <1>6, TreeKept DEF ProveNode
  <2>2. Walked'
    BY <1>6 DEF ProveNode, Walked
  <2> QED BY <2>1, <2>2 DEF TreeInv
<1>7. CASE Present
  <2>1. Shape' /\ Hashed'
    BY <1>7, TreeKept DEF Present
  <2>2. Walked'
    BY <1>7 DEF Present, Walked
  <2> QED BY <2>1, <2>2 DEF TreeInv
<1>8. CASE RefuseShape
  <2>1. Shape' /\ Hashed'
    BY <1>8, TreeKept DEF RefuseShape
  <2>2. Walked'
    BY <1>8 DEF RefuseShape, Walked
  <2> QED BY <2>1, <2>2 DEF TreeInv
<1>9. CASE RejectBytes
  <2>1. Shape' /\ Hashed'
    BY <1>9, TreeKept DEF RejectBytes
  <2>2. Walked'
    BY <1>9 DEF RejectBytes, Walked
  <2> QED BY <2>1, <2>2 DEF TreeInv
<1>10. CASE StartWalk
  <2>1. Shape' /\ Hashed'
    BY <1>10, TreeKept DEF StartWalk
  <2>2. Walked'
    BY <1>10, StartWalkWalked
  <2> QED BY <2>1, <2>2 DEF TreeInv
<1>11. CASE WalkNode
  <2>1. Shape' /\ Hashed'
    BY <1>11, TreeKept DEF WalkNode
  <2>2. Walked'
    BY <1>11, WalkNodeWalked
  <2> QED BY <2>1, <2>2 DEF TreeInv
<1>12. CASE RejectNode
  <2>1. Shape' /\ Hashed'
    BY <1>12, TreeKept DEF RejectNode
  <2>2. Walked'
    BY <1>12 DEF RejectNode, Walked
  <2> QED BY <2>1, <2>2 DEF TreeInv
<1>13. CASE EndWalk
  <2>1. Shape' /\ Hashed'
    BY <1>13, TreeKept DEF EndWalk
  <2>2. Walked'
    BY <1>13, EndWalkWalked
  <2> QED BY <2>1, <2>2 DEF TreeInv
<1>14. CASE UNCHANGED vars
  <2>1. UNCHANGED <<tree, handed, walk>> /\ phase' = phase
    BY <1>14 DEF vars
  <2>2. Walked'
    BY <2>1, WalkKept
  <2>3. /\ source' = source /\ chunkSize' = chunkSize /\ height' = height
        /\ widths' = widths /\ levels' = levels
    BY <2>1 DEF tree
  <2>4. chunkCount' = chunkCount /\ \A i : chunkBytesAt(i)' = chunkBytesAt(i)
    BY <2>3 DEF chunkCount, chunkBytesAt
  <2>5. Shape'
    BY <2>1, <2>3, <2>4 DEF TreeInv, Shape
  <2>6. Hashed'
    BY <2>1, <2>3, <2>4 DEF TreeInv, Hashed
  <2> QED BY <2>2, <2>5, <2>6 DEF TreeInv
<1> QED
  BY <1>1, <1>2, <1>3, <1>4, <1>5, <1>6, <1>7, <1>8, <1>9, <1>10, <1>11, <1>12, <1>13, <1>14
  DEF Next

\* The invariant of the tree and the walk.
THEOREM TreeInvariant == Spec => []TreeInv
<1>1. Init => TreeInv
  BY InitTree
<1>2. TreeInv /\ [Next]_vars => TreeInv'
  BY NextTree
<1> QED
  BY <1>1, <1>2, PTL DEF Spec

\* verifyArtifactChunkProof is sound: an accepted proof that declares the manifest's chunk
\* count is for the bytes of that chunk, for every source, chunk size and proof.
THEOREM VerifiedIsIncludedTheorem == Spec => []VerifiedIsIncluded
<1>1. TreeInv => VerifiedIsIncluded
  <2> SUFFICES ASSUME TreeInv, phase = "accepted", proof.totalChunkCount = chunkCount
               PROVE  chunkBytes = chunkBytesAt(proof.chunkIndex)
    BY DEF VerifiedIsIncluded
  <2>1. /\ step \in Nat /\ step <= height /\ width = 1 /\ width = widths[step]
        /\ index \in 0..(width - 1)
        /\ current = merkleRoot
        /\ current = levels[step][index] => chunkBytes = chunkBytesAt(proof.chunkIndex)
    BY DEF TreeInv, Walked
  <2>2. Grown /\ height \in Nat
    BY DEF TreeInv, Shape, Grown
  <2>3. step = height
    BY <2>1, <2>2 DEF TreeInv, Shape
  <2>4. index = 0
    BY <2>1
  <2> QED
    BY <2>1, <2>3, <2>4 DEF merkleRoot
<1> QED
  BY <1>1, TreeInvariant, PTL

\* "The depth check above should already make this unreachable": the walk of a proof of the
\* expected depth ends at a level of one node.
THEOREM SafetyNetUnreachableTheorem == Spec => []SafetyNetUnreachable
<1>1. TreeInv => SafetyNetUnreachable
  <2> SUFFICES ASSUME TreeInv, phase = "walking", step = proof.depth
               PROVE  width = 1
    BY DEF SafetyNetUnreachable
  <2>1. /\ step \in Nat /\ width \in Nat /\ width >= 1 /\ width <= MAX_CHUNK_COUNT
        /\ expectedProofDepthFor(width) \in Nat
        /\ expectedProofDepthFor(width) + step = proof.depth
    BY DEF TreeInv, Walked
  <2>2. expectedProofDepthFor(width) = 0
    BY <2>1
  <2>3. CASE width > 1
    BY <2>1, <2>2, <2>3, DepthAbove
  <2> QED
    BY <2>1, <2>3
<1> QED
  BY <1>1, TreeInvariant, PTL
-----------------------------------------------------------------------------
(***************************************************************************)
(* Completeness: the proof that was built is accepted.                     *)
(***************************************************************************)

\* Cutting a source into chunks leaves a last chunk that is not empty and not too long.
LEMMA Geometry ==
    ASSUME NEW l \in Nat, NEW s \in Nat, s >= 1
    PROVE  /\ ceilDiv(l, s) \in Nat
           /\ l <= ceilDiv(l, s) * s
           /\ ceilDiv(l, s) >= 1 => (ceilDiv(l, s) - 1) * s < l
<1> DEFINE a == l + s - 1
           n == a \div s
<1>1. a \in Nat
  OBVIOUS
<1>2. n \in Nat /\ n * s <= a /\ a < n * s + s
  BY <1>1
<1>3. (n - 1) * s = n * s - s
  BY <1>2
<1> QED
  BY <1>2, <1>3 DEF ceilDiv

\* Chunks before the last are full: they end before the source does.
LEMMA FullChunks ==
    ASSUME NEW n \in Nat, NEW s \in Nat, NEW l \in Nat, NEW i \in Nat,
           i + 1 < n, (n - 1) * s < l
    PROVE  i * s \in Nat /\ (i + 1) * s = i * s + s /\ (i + 1) * s < l
<1>1. \E k \in Nat : n - 1 = (i + 1) + k
  <2>1. n - 1 - (i + 1) \in Nat
    OBVIOUS
  <2> WITNESS n - 1 - (i + 1) \in Nat
  <2> QED OBVIOUS
<1>2. PICK k \in Nat : n - 1 = (i + 1) + k
  BY <1>1
<1>3. (n - 1) * s = (i + 1) * s + k * s
  BY <1>2
<1>4. k * s \in Nat /\ i * s \in Nat /\ (i + 1) * s = i * s + s
  OBVIOUS
<1> QED
  BY <1>3, <1>4

\* Each level takes one from the depth.
Deepens ==
    Grown => \A l \in 0..height :
               /\ expectedProofDepthFor(widths[l]) \in Nat
               /\ expectedProofDepthFor(widths[l]) + l = expectedProofDepthFor(widths[0])

\* What the proof loop has recorded.
Nodes ==
    Complete =>
         /\ target \in 0..(chunkCount - 1)
         /\ depth \in Nat /\ depth <= height
         /\ path[0] = target
         /\ \A l \in 0..depth : path[l] \in 0..(widths[l] - 1)
         /\ \A l \in 0..depth : l < depth =>
              /\ path[l + 1] = path[l] \div 2
              /\ position[l] = SideOf(path[l])
              /\ sibling[l] = SiblingOf(levels[l], widths[l], path[l])
         /\ phase # "proving" => depth = height

Unproved == phase \in {"start", "building"} => depth = 0

Recorded == Deepens /\ Nodes /\ Unproved

Honest == chunkBytes = chunkBytesAt(target) /\ proof = ProofBuilt

\* The walk of the built proof passes through the tree along its path.
OnPath ==
    phase \in {"walking", "accepted"} /\ Honest =>
        /\ index = path[step]
        /\ current = levels[step][index]

HonestInv == TreeInv /\ Recorded /\ OnPath /\ OwnProofVerifies

\* The built proof has a consistent shape, and its chunk the length and digests it declares.
LEMMA BuiltShape ==
    ASSUME HonestInv, phase = "presented", Honest
    PROVE  assertProofShapeConsistent /\ BytesMatch
<1>1. /\ Grown /\ Complete
      /\ chunkSize \in ALLOWED_CHUNK_SIZES /\ Len(source) <= MAX_CALIBRATION_SOURCE_BYTES
      /\ source \in Sources
      /\ chunkCount \in Nat /\ chunkCount <= MAX_CHUNK_COUNT
      /\ height \in Nat /\ widths[height] = 1
      /\ target \in 0..(chunkCount - 1) /\ depth = height
  BY DEF HonestInv, TreeInv, Shape, Recorded, Deepens, Nodes, Grown, Complete
<1>2. /\ source \in Seq(Bytes) /\ Len(source) \in Nat
      /\ chunkSize \in Nat /\ chunkSize >= 1
  BY <1>1, BoundsAssumption
<1>3. chunkCount >= 1 /\ target \in Nat /\ target < chunkCount
  BY <1>1
<1>4. Len(source) <= chunkCount * chunkSize /\ (chunkCount - 1) * chunkSize < Len(source)
  BY <1>2, <1>3, Geometry DEF chunkCount
<1>5. /\ target * chunkSize \in Nat
      /\ chunkByteLength(target) \in 1..chunkSize
      /\ Len(chunkBytesAt(target)) = chunkByteLength(target)
  <2>1. CASE target = chunkCount - 1
    <3>1. chunkCount * chunkSize = (chunkCount - 1) * chunkSize + chunkSize
      BY <1>1, <1>2
    <3>2. (chunkCount - 1) * chunkSize \in Nat
      BY <1>1, <1>2, <1>3
    <3>3. chunkByteLength(target) = Len(source) - (chunkCount - 1) * chunkSize
      BY <2>1 DEF chunkByteLength
    <3>4. chunkBytesAt(target) = SubSeq(source, (chunkCount - 1) * chunkSize + 1, Len(source))
      <4>1. target + 1 = chunkCount
        BY <1>1, <2>1
      <4>2. (target + 1) * chunkSize = chunkCount * chunkSize
        BY <4>1
      <4>3. ~((target + 1) * chunkSize < Len(source))
        BY <4>2, <3>1, <3>2, <1>2, <1>4
      <4> QED
        BY <2>1, <4>3 DEF chunkBytesAt
    <3>5. Len(chunkBytesAt(target)) = Len(source) - (chunkCount - 1) * chunkSize
      BY <3>2, <3>4, <1>2, <1>4
    <3> QED
      BY <1>2, <1>4, <2>1, <3>1, <3>2, <3>3, <3>5
  <2>2. CASE target # chunkCount - 1
    <3>1. /\ target * chunkSize \in Nat
          /\ (target + 1) * chunkSize = target * chunkSize + chunkSize
          /\ (target + 1) * chunkSize < Len(source)
      BY <1>1, <1>2, <1>3, <1>4, <2>2, FullChunks
    <3>2. chunkByteLength(target) = chunkSize
      BY <2>2 DEF chunkByteLength
    <3>3. chunkBytesAt(target) =
            SubSeq(source, target * chunkSize + 1, target * chunkSize + chunkSize)
      BY <3>1 DEF chunkBytesAt
    <3>4. Len(chunkBytesAt(target)) = chunkSize
      BY <3>1, <3>3, <1>2
    <3> QED
      BY <1>2, <3>1, <3>2, <3>4
  <2> QED
    BY <2>1, <2>2
<1>6. /\ chunkBytes = chunkBytesAt(target)
      /\ proof.sourceByteLength = Len(source)
      /\ proof.chunkSize = chunkSize
      /\ proof.totalChunkCount = chunkCount
      /\ proof.chunkIndex = target
      /\ proof.byteStart = target * chunkSize
      /\ proof.byteLength = chunkByteLength(target)
      /\ proof.chunkSha256 = rawDigest(chunkBytesAt(target))
      /\ proof.merkleLeafSha256 = merkleLeafDigest(chunkBytesAt(target))
      /\ proof.depth = depth
  BY DEF Honest, ProofBuilt
<1>7. depth = expectedProofDepthFor(chunkCount) /\ depth <= MAX_MERKLE_PROOF_DEPTH
  <2>1. widths[0] = chunkCount
    BY <1>1, <1>3 DEF HonestInv, TreeInv, Shape
  <2>2. expectedProofDepthFor(widths[height]) + height = expectedProofDepthFor(widths[0])
    BY <1>1 DEF HonestInv, Recorded, Deepens, Nodes, Unproved
  <2>3. expectedProofDepthFor(chunkCount) = height
    BY <1>1, <2>1, <2>2, DepthOfOne
  <2>4. expectedProofDepthFor(chunkCount) \in 0..MAX_MERKLE_PROOF_DEPTH
    BY <1>1, <1>3, DepthAssumption, BoundsAssumption
  <2> QED
    BY <1>1, <2>3, <2>4, BoundsAssumption
<1>8. Len(source) >= 1
  BY <1>2, <1>3, <1>4, <1>1
<1>9. assertProofShapeConsistent
  <2>1. proof.byteLength = IF proof.chunkIndex = proof.totalChunkCount - 1
                           THEN proof.sourceByteLength - proof.byteStart ELSE proof.chunkSize
    BY <1>6 DEF chunkByteLength
  <2>2. proof.totalChunkCount = ceilDiv(proof.sourceByteLength, proof.chunkSize)
    BY <1>6 DEF chunkCount
  <2>3. proof.sourceByteLength \in 1..MAX_CALIBRATION_SOURCE_BYTES
    BY <1>1, <1>2, <1>6, <1>8, BoundsAssumption
  <2>4. proof.totalChunkCount \in 1..MAX_CHUNK_COUNT
    BY <1>1, <1>3, <1>6, BoundsAssumption
  <2> QED
    BY <1>1, <1>5, <1>6, <1>7, <2>1, <2>2, <2>3, <2>4 DEF assertProofShapeConsistent
<1>10. BytesMatch
  BY <1>5, <1>6 DEF BytesMatch
<1> QED
  BY <1>9, <1>10

\* Facts about a walk of the built proof.
LEMMA HonestWalk ==
    ASSUME HonestInv, phase = "walking", Honest
    PROVE  /\ proof.totalChunkCount = chunkCount /\ proof.depth = depth /\ depth = height
           /\ proof.position = position /\ proof.sibling = sibling
           /\ step \in Nat /\ step <= height /\ height \in Nat
           /\ width = widths[step] /\ width \in Nat /\ width >= 1
           /\ index = path[step] /\ index \in 0..(width - 1)
           /\ current = levels[step][index]
<1>1. /\ proof.totalChunkCount = chunkCount /\ proof.depth = depth
      /\ proof.position = position /\ proof.sibling = sibling
  BY DEF Honest, ProofBuilt
<1>2. depth = height /\ height \in Nat
  BY DEF HonestInv, TreeInv, Shape, Recorded, Deepens, Nodes, Complete
<1>3. index = path[step] /\ current = levels[step][index]
  BY DEF HonestInv, OnPath
<1> QED
  BY <1>1, <1>2, <1>3 DEF HonestInv, TreeInv, Walked

\* Every node of the built proof is the one the walk calls for.
LEMMA HonestNodes ==
    ASSUME HonestInv, phase = "walking", Honest, step < proof.depth
    PROVE  NodeIsCanonical
<1>1. /\ step \in 0..depth /\ step < depth /\ step \in Nat
      /\ proof.position[step] = position[step] /\ proof.sibling[step] = sibling[step]
      /\ width = widths[step] /\ width \in Nat
      /\ index = path[step] /\ index \in 0..(width - 1)
      /\ current = levels[step][index]
  BY HonestWalk
<1>2. position[step] = SideOf(index) /\ sibling[step] = SiblingOf(levels[step], width, index)
  BY <1>1 DEF HonestInv, Recorded, Nodes, Complete
<1>3. CASE isOddWidthDuplicateStep
  <2>1. index % 2 # 1 /\ ~(index + 1 < width)
    BY <1>1, <1>3 DEF isOddWidthDuplicateStep
  <2>2. SiblingOf(levels[step], width, index) = levels[step][index]
    BY <2>1 DEF SiblingOf
  <2> QED
    BY <1>1, <1>2, <1>3, <2>1, <2>2 DEF NodeIsCanonical, SideOf
<1>4. CASE ~isOddWidthDuplicateStep
  BY <1>1, <1>2, <1>4 DEF NodeIsCanonical
<1> QED
  BY <1>3, <1>4

\* Walking a node of the built proof stays on its path.
LEMMA WalkNodeOnPath ==
    ASSUME HonestInv, WalkNode, Honest
    PROVE  /\ index' = path[step + 1]
           /\ current' = levels[step + 1][index \div 2]
<1>0. phase = "walking" /\ step < proof.depth
  BY DEF WalkNode
<1>1. /\ step \in 0..depth /\ step < depth /\ step \in Nat /\ height \in Nat /\ depth = height
      /\ proof.position[step] = position[step] /\ proof.sibling[step] = sibling[step]
      /\ width = widths[step] /\ width \in Nat /\ width >= 1
      /\ index = path[step] /\ index \in 0..(width - 1)
      /\ current = levels[step][index]
  BY <1>0, HonestWalk
<1>2. /\ position[step] = SideOf(index) /\ sibling[step] = SiblingOf(levels[step], width, index)
      /\ path[step + 1] = index \div 2
  BY <1>0, <1>1 DEF HonestInv, Recorded, Nodes, Complete
<1>3. index' = path[step + 1]
  BY <1>2 DEF WalkNode
<1>4. Grown
  BY <1>0 DEF Grown
<1>5. levels[step + 1][index \div 2] =
        parentDigest(levels[step][2 * (index \div 2)],
                     RightChild(levels[step], width, index \div 2))
  <2>1. index \div 2 \in 0..(half(width) - 1)
    BY <1>1, HalfIndex
  <2> QED
    BY <1>1, <1>4, <2>1 DEF HonestInv, TreeInv, Hashed
<1>6. current' = IF proof.position[step] = "left" THEN parentDigest(proof.sibling[step], current)
                 ELSE parentDigest(current, proof.sibling[step])
  BY DEF WalkNode
<1>7. CASE index % 2 = 1
  <2>1. 2 * (index \div 2) = index - 1 /\ 2 * (index \div 2) + 1 = index /\ index < width
    BY <1>1, <1>7
  <2>2. RightChild(levels[step], width, index \div 2) = levels[step][index]
    BY <2>1 DEF RightChild
  <2>3. sibling[step] = levels[step][index - 1] /\ position[step] = "left"
    BY <1>2, <1>7 DEF SiblingOf, SideOf
  <2>4. current' = parentDigest(levels[step][index - 1], levels[step][index])
    BY <1>1, <1>6, <2>3
  <2> QED
    BY <1>3, <1>5, <2>1, <2>2, <2>4
<1>8. CASE index % 2 # 1
  <2>1. 2 * (index \div 2) = index
    BY <1>1, <1>8
  <2>2. sibling[step] = RightChild(levels[step], width, index \div 2)
    BY <1>2, <1>8, <2>1 DEF SiblingOf, RightChild
  <2>3. position[step] = "right"
    BY <1>2, <1>8 DEF SideOf
  <2>4. current' = parentDigest(levels[step][index], sibling[step])
    BY <1>1, <1>6, <2>3
  <2> QED
    BY <1>3, <1>5, <2>1, <2>2, <2>4
<1> QED
  BY <1>7, <1>8

\* The walk of the built proof ends at the root.
LEMMA HonestEnd ==
    ASSUME HonestInv, phase = "walking", Honest, step = proof.depth
    PROVE  width = 1 /\ current = merkleRoot
<1>1. /\ step = height /\ width = widths[step] /\ index \in 0..(width - 1)
      /\ current = levels[step][index]
  BY HonestWalk
<1>2. widths[height] = 1
  BY DEF HonestInv, TreeInv, Shape, Complete
<1>3. index = 0
  BY <1>1, <1>2
<1> QED
  BY <1>1, <1>2, <1>3 DEF merkleRoot

\* A step that keeps the tree and the built proof keeps what they record.
LEMMA RecordedKept ==
    ASSUME HonestInv, UNCHANGED <<tree, built>>,
           Grown' => Grown, Complete' => Complete,
           Complete' /\ phase' # "proving" => depth = height,
           phase' \notin {"start", "building"}
    PROVE  Recorded'
<1>1. /\ source' = source /\ chunkSize' = chunkSize /\ height' = height
      /\ widths' = widths /\ levels' = levels
      /\ target' = target /\ depth' = depth /\ path' = path
      /\ position' = position /\ sibling' = sibling
  BY DEF tree, built
<1>2. chunkCount' = chunkCount
  BY <1>1 DEF chunkCount
<1> QED
  BY <1>1, <1>2 DEF HonestInv, Recorded, Deepens, Nodes, Unproved

\* A step that keeps the tree, the built proof and what was handed over keeps its honesty.
LEMMA HonestKept ==
    ASSUME UNCHANGED <<tree, built, handed>>
    PROVE  Honest' = Honest
<1>1. /\ source' = source /\ chunkSize' = chunkSize /\ chunkBytes' = chunkBytes /\ proof' = proof
      /\ target' = target /\ depth' = depth /\ position' = position /\ sibling' = sibling
  BY DEF tree, built, handed
<1>2. chunkCount' = chunkCount /\ chunkBytesAt(target)' = chunkBytesAt(target)
  BY <1>1 DEF chunkCount, chunkBytesAt
<1>3. chunkByteLength(target)' = chunkByteLength(target)
  BY <1>1, <1>2 DEF chunkByteLength
<1>4. ProofBuilt' = ProofBuilt
  BY <1>1, <1>2, <1>3 DEF ProofBuilt, rawDigest, merkleLeafDigest
<1> QED
  BY <1>1, <1>2, <1>4 DEF Honest

\* The leaves are a tree of one level.
LEMMA HashLeavesRecorded == HonestInv /\ HashLeaves => Recorded'
<1> SUFFICES ASSUME HonestInv, HashLeaves PROVE Recorded'
  OBVIOUS
<1>1. Shape' /\ height' = 0 /\ phase' = "building"
  BY HashLeavesTree DEF HonestInv, TreeInv, Shape, HashLeaves
<1>2. widths'[0] \in 1..MAX_CHUNK_COUNT
  BY <1>1, BoundsAssumption DEF Shape, Grown
<1>3. expectedProofDepthFor(widths'[0]) \in Nat
  BY <1>2, DepthAssumption, BoundsAssumption
<1>4. depth' = 0
  BY DEF HonestInv, Recorded, Unproved, HashLeaves, built
<1> QED
  BY <1>1, <1>3, <1>4 DEF Recorded, Deepens, Nodes, Unproved, Grown, Complete, expectedProofDepthFor

\* A new level takes one from the depth that is left.
LEMMA BuildLevelRecorded == HonestInv /\ BuildLevel => Recorded'
<1> SUFFICES ASSUME HonestInv, BuildLevel PROVE Recorded'
  OBVIOUS
<1>1. /\ height' = height + 1 /\ phase' = "building" /\ phase = "building"
      /\ widths[height] > 1
      /\ widths' = [l \in 0..(height + 1) |->
                      IF l <= height THEN widths[l] ELSE half(widths[height])]
  BY DEF BuildLevel
<1>2. Grown /\ height \in Nat /\ widths[height] \in Nat /\ widths[height] <= MAX_CHUNK_COUNT
  BY <1>1 DEF HonestInv, TreeInv, Shape, Grown
<1>3. /\ \A l \in 0..height : widths'[l] = widths[l]
      /\ widths'[height + 1] = half(widths[height])
      /\ widths'[0] = widths[0]
  BY <1>1, <1>2
<1>4. /\ expectedProofDepthFor(half(widths[height])) \in Nat
      /\ expectedProofDepthFor(widths[height]) = 1 + expectedProofDepthFor(half(widths[height]))
  BY <1>1, <1>2, DepthAbove
<1>5. ASSUME NEW l \in 0..(height + 1)
      PROVE  /\ expectedProofDepthFor(widths'[l]) \in Nat
             /\ expectedProofDepthFor(widths'[l]) + l = expectedProofDepthFor(widths'[0])
  <2>1. CASE l = height + 1
    <3>1. expectedProofDepthFor(widths[height]) + height = expectedProofDepthFor(widths[0])
      BY <1>2 DEF HonestInv, Recorded, Deepens, Nodes, Unproved
    <3>2. expectedProofDepthFor(half(widths[height])) + (height + 1) =
            expectedProofDepthFor(widths[0])
      BY <1>2, <1>4, <3>1
    <3> QED
      BY <1>3, <1>4, <2>1, <3>2
  <2>2. CASE l # height + 1
    <3>1. l \in 0..height
      BY <1>2, <2>2
    <3>2. /\ expectedProofDepthFor(widths[l]) \in Nat
          /\ expectedProofDepthFor(widths[l]) + l = expectedProofDepthFor(widths[0])
      BY <1>2, <3>1 DEF HonestInv, Recorded, Deepens, Nodes, Unproved
    <3> QED
      BY <1>3, <3>1, <3>2
  <2> QED
    BY <2>1, <2>2
<1>6. depth' = 0
  BY <1>1 DEF HonestInv, Recorded, Unproved, BuildLevel, built
<1> QED
  BY <1>1, <1>5, <1>6 DEF Recorded, Deepens, Nodes, Unproved, Complete, expectedProofDepthFor

\* The proof loop begins at the chunk.
LEMMA StartProofRecorded == HonestInv /\ StartProof => Recorded'
<1> SUFFICES ASSUME HonestInv, StartProof PROVE Recorded'
  OBVIOUS
<1>1. /\ source' = source /\ chunkSize' = chunkSize /\ height' = height
      /\ widths' = widths /\ levels' = levels /\ depth' = depth
      /\ phase = "building" /\ phase' = "proving"
  BY DEF StartProof, tree
<1>2. PICK i \in 0..(chunkCount - 1) : target' = i /\ path' = [l \in 0..0 |-> i]
  BY DEF StartProof
<1>3. chunkCount' = chunkCount
  BY <1>1 DEF chunkCount
<1>4. /\ Grown /\ height \in Nat /\ chunkCount \in Nat
      /\ chunkCount > 0 => widths[0] = chunkCount
  BY <1>1 DEF HonestInv, TreeInv, Shape, Grown
<1>5. widths[0] = chunkCount
  BY <1>2, <1>4
<1>6. path'[0] = i
  BY <1>2
<1>7. depth = 0
  BY <1>1 DEF HonestInv, Recorded, Unproved
<1>8. Deepens'
  BY <1>1, <1>4 DEF HonestInv, Recorded, Deepens
<1>9. Nodes'
  BY <1>1, <1>2, <1>3, <1>4, <1>5, <1>6, <1>7 DEF Nodes
<1> QED
  BY <1>1, <1>8, <1>9 DEF Recorded, Unproved

\* Each iteration of the proof loop records the sibling and goes to the parent.
LEMMA ProveNodeRecorded == HonestInv /\ ProveNode => Recorded'
<1> SUFFICES ASSUME HonestInv, ProveNode PROVE Recorded'
  OBVIOUS
<1>1. /\ source' = source /\ chunkSize' = chunkSize /\ height' = height
      /\ widths' = widths /\ levels' = levels /\ target' = target
      /\ depth' = depth + 1 /\ depth < height
      /\ phase = "proving" /\ phase' = "proving"
      /\ position' = [k \in 0..depth |-> IF k < depth THEN position[k] ELSE SideOf(path[depth])]
      /\ sibling' = [k \in 0..depth |->
                       IF k < depth THEN sibling[k]
                       ELSE SiblingOf(levels[depth], widths[depth], path[depth])]
      /\ path' = [l \in 0..(depth + 1) |-> IF l <= depth THEN path[l] ELSE path[depth] \div 2]
  BY DEF ProveNode, tree
<1>2. chunkCount' = chunkCount
  BY <1>1 DEF chunkCount
<1>3. /\ Grown /\ Complete /\ height \in Nat
      /\ depth \in Nat /\ target \in 0..(chunkCount - 1) /\ path[0] = target
      /\ \A l \in 0..depth : path[l] \in 0..(widths[l] - 1)
      /\ \A l \in 0..height : widths[l] \in Nat /\ widths[l] >= 1
      /\ \A l \in 0..height : l < height => widths[l + 1] = half(widths[l])
  BY <1>1 DEF HonestInv, TreeInv, Shape, Recorded, Deepens, Nodes, Grown, Complete
<1>4. /\ \A l \in 0..depth : path'[l] = path[l]
      /\ path'[depth + 1] = path[depth] \div 2
  BY <1>1, <1>3
<1>5. \A l \in 0..(depth + 1) : path'[l] \in 0..(widths[l] - 1)
  <2>1. path[depth] \div 2 \in 0..(widths[depth + 1] - 1)
    <3>1. /\ depth \in 0..height /\ widths[depth] \in Nat /\ widths[depth] >= 1
          /\ path[depth] \in 0..(widths[depth] - 1)
          /\ widths[depth + 1] = half(widths[depth])
      BY <1>1, <1>3
    <3> QED
      BY <3>1, HalfIndex
  <2> QED
    BY <1>3, <1>4, <2>1
<1>6. ASSUME NEW l \in 0..(depth + 1), l < depth + 1
      PROVE  /\ path'[l + 1] = path'[l] \div 2
             /\ position'[l] = SideOf(path'[l])
             /\ sibling'[l] = SiblingOf(levels[l], widths[l], path'[l])
  <2>1. CASE l = depth
    <3>1. path'[depth] = path[depth]
      BY <1>3, <1>4
    <3>2. position'[depth] = SideOf(path[depth])
          /\ sibling'[depth] = SiblingOf(levels[depth], widths[depth], path[depth])
      BY <1>1, <1>3
    <3> QED
      BY <1>4, <2>1, <3>1, <3>2
  <2>2. CASE l # depth
    <3>1. l \in 0..depth /\ l < depth /\ l + 1 \in 0..depth
      BY <1>3, <1>6, <2>2
    <3>2. /\ path[l + 1] = path[l] \div 2
          /\ position[l] = SideOf(path[l])
          /\ sibling[l] = SiblingOf(levels[l], widths[l], path[l])
      BY <1>3, <3>1 DEF HonestInv, Recorded, Deepens, Nodes, Unproved
    <3>3. path'[l] = path[l] /\ path'[l + 1] = path[l + 1]
      BY <1>4, <3>1
    <3>4. position'[l] = position[l] /\ sibling'[l] = sibling[l]
      BY <1>1, <3>1
    <3> QED
      BY <3>2, <3>3, <3>4
  <2> QED
    BY <2>1, <2>2
<1>7. path'[0] = target
  BY <1>3, <1>4
<1>8. depth + 1 \in Nat /\ depth + 1 <= height
  BY <1>1, <1>3
<1>9. Deepens'
  BY <1>1, <1>3 DEF HonestInv, Recorded, Deepens
<1>10. Nodes'
  BY <1>1, <1>2, <1>3, <1>5, <1>6, <1>7, <1>8 DEF Nodes
<1> QED
  BY <1>1, <1>9, <1>10 DEF Recorded, Unproved

\* Nothing is recorded in the initial state.
LEMMA InitHonest == Init => HonestInv
<1> SUFFICES ASSUME Init PROVE HonestInv
  OBVIOUS
<1>1. phase = "start" /\ depth = 0
  BY DEF Init
<1> QED
  BY <1>1, InitTree DEF HonestInv, Recorded, Deepens, Nodes, Unproved, OnPath, OwnProofVerifies,
                        Grown, Complete

\* A step that keeps everything but the phase keeps the invariant, if a proof that is turned
\* down was not the built one.
LEMMA PhaseStepHonest ==
    ASSUME HonestInv, TreeInv', Complete, UNCHANGED <<tree, built, handed, walk>>,
           phase' \in {"accepted", "rejected", "refused"}, phase # "proving",
           phase' = "accepted" => phase = "walking",
           phase' # "accepted" => ~Honest
    PROVE  HonestInv'
<1>1. UNCHANGED <<tree, built>> /\ UNCHANGED <<tree, built, handed>>
  OBVIOUS
<1>2. depth = height
  BY DEF HonestInv, Recorded, Nodes
<1>3. Recorded'
  BY <1>1, <1>2, RecordedKept DEF Grown, Complete
<1>4. Honest' = Honest
  BY <1>1, HonestKept
<1>5. step' = step /\ current' = current /\ index' = index /\ path' = path /\ levels' = levels
  BY DEF walk, tree, built
<1>6. OnPath'
  BY <1>4, <1>5 DEF HonestInv, OnPath
<1>7. OwnProofVerifies'
  BY <1>4 DEF Honest, OwnProofVerifies
<1> QED
  BY <1>3, <1>6, <1>7 DEF HonestInv

\* Every step keeps the invariant.
LEMMA NextHonest == HonestInv /\ [Next]_vars => HonestInv'
<1> SUFFICES ASSUME HonestInv, [Next]_vars PROVE HonestInv'
  OBVIOUS
<1>0. TreeInv'
  BY NextTree DEF HonestInv
<1>1. CASE RefuseSource
  <2>1. phase' = "unbuilt"
    BY <1>1 DEF RefuseSource
  <2> QED
    BY <1>0, <2>1 DEF HonestInv, Recorded, Deepens, Nodes, Unproved, OnPath, OwnProofVerifies,
                      Grown, Complete
<1>2. CASE HashLeaves
  <2>1. phase' = "building"
    BY <1>2 DEF HashLeaves
  <2> QED
    BY <1>0, <1>2, <2>1, HashLeavesRecorded DEF HonestInv, OnPath, OwnProofVerifies
<1>3. CASE BuildLevel
  <2>1. phase' = "building"
    BY <1>3 DEF BuildLevel
  <2> QED
    BY <1>0, <1>3, <2>1, BuildLevelRecorded DEF HonestInv, OnPath, OwnProofVerifies
<1>4. CASE RefuseIndex
  <2>1. phase' = "unbuilt"
    BY <1>4 DEF RefuseIndex
  <2> QED
    BY <1>0, <2>1 DEF HonestInv, Recorded, Deepens, Nodes, Unproved, OnPath, OwnProofVerifies,
                      Grown, Complete
<1>5. CASE StartProof
  <2>1. phase' = "proving"
    BY <1>5 DEF StartProof
  <2> QED
    BY <1>0, <1>5, <2>1, StartProofRecorded DEF HonestInv, OnPath, OwnProofVerifies
<1>6. CASE ProveNode
  <2>1. phase' = "proving"
    BY <1>6 DEF ProveNode
  <2> QED
    BY <1>0, <1>6, <2>1, ProveNodeRecorded DEF HonestInv, OnPath, OwnProofVerifies
<1>7. CASE Present
  <2>1. phase = "proving" /\ phase' = "presented" /\ depth = height /\ UNCHANGED <<tree, built>>
    BY <1>7 DEF Present
  <2>2. Recorded'
    BY <2>1, RecordedKept DEF Grown, Complete
  <2> QED
    BY <1>0, <2>1, <2>2 DEF HonestInv, OnPath, OwnProofVerifies
<1>8. CASE RefuseShape
  <2>1. phase = "presented" /\ phase' = "refused" /\ ~assertProofShapeConsistent
        /\ UNCHANGED <<tree, built, handed, walk>>
    BY <1>8 DEF RefuseShape
  <2>2. ~Honest
    BY <2>1, BuiltShape
  <2> QED
    BY <1>0, <2>1, <2>2, PhaseStepHonest DEF Complete
<1>9. CASE RejectBytes
  <2>1. phase = "presented" /\ phase' = "rejected" /\ ~BytesMatch
        /\ UNCHANGED <<tree, built, handed, walk>>
    BY <1>9 DEF RejectBytes
  <2>2. ~Honest
    BY <2>1, BuiltShape
  <2> QED
    BY <1>0, <2>1, <2>2, PhaseStepHonest DEF Complete
<1>10. CASE StartWalk
  <2>1. /\ phase = "presented" /\ phase' = "walking"
        /\ current' = merkleLeafDigest(chunkBytes) /\ index' = proof.chunkIndex /\ step' = 0
        /\ UNCHANGED <<tree, built, handed>> /\ UNCHANGED <<tree, built>>
    BY <1>10 DEF StartWalk
  <2>2. depth = height /\ path[0] = target /\ target \in 0..(chunkCount - 1)
    BY <2>1 DEF HonestInv, Recorded, Nodes, Complete
  <2>3. Recorded'
    BY <2>1, <2>2, RecordedKept DEF Grown, Complete
  <2>4. Honest' = Honest
    BY <2>1, HonestKept
  <2>5. path' = path /\ levels' = levels
    BY <2>1 DEF tree, built
  <2>6. ASSUME Honest PROVE index' = path[0] /\ current' = levels[0][index']
    <3>1. proof.chunkIndex = target /\ chunkBytes = chunkBytesAt(target)
      BY <2>6 DEF Honest, ProofBuilt
    <3>2. chunkCount \in Nat
      BY <2>1 DEF HonestInv, TreeInv, Shape, Grown
    <3>3. levels[0][target] = merkleLeafDigest(chunkBytesAt(target))
      BY <2>1, <2>2, <3>2 DEF HonestInv, TreeInv, Hashed, Grown
    <3> QED
      BY <2>1, <2>2, <3>1, <3>3
  <2>7. OnPath'
    BY <2>1, <2>4, <2>5, <2>6 DEF OnPath
  <2> QED
    BY <1>0, <2>1, <2>3, <2>7 DEF HonestInv, OwnProofVerifies
<1>11. CASE WalkNode
  <2>1. /\ phase = "walking" /\ phase' = "walking" /\ step' = step + 1 /\ index' = index \div 2
        /\ UNCHANGED <<tree, built, handed>> /\ UNCHANGED <<tree, built>>
    BY <1>11 DEF WalkNode
  <2>2. depth = height
    BY <2>1 DEF HonestInv, Recorded, Nodes, Complete
  <2>3. Recorded'
    BY <2>1, <2>2, RecordedKept DEF Grown, Complete
  <2>4. Honest' = Honest
    BY <2>1, HonestKept
  <2>5. path' = path /\ levels' = levels
    BY <2>1 DEF tree, built
  <2>6. Honest => index' = path[step + 1] /\ current' = levels[step + 1][index \div 2]
    BY <1>11, WalkNodeOnPath
  <2>7. OnPath'
    BY <2>1, <2>4, <2>5, <2>6 DEF OnPath
  <2> QED
    BY <1>0, <2>1, <2>3, <2>7 DEF HonestInv, OwnProofVerifies
<1>12. CASE RejectNode
  <2>1. phase = "walking" /\ phase' = "rejected" /\ step < proof.depth /\ ~NodeIsCanonical
        /\ UNCHANGED <<tree, built, handed, walk>>
    BY <1>12 DEF RejectNode
  <2>2. ~Honest
    BY <2>1, HonestNodes
  <2> QED
    BY <1>0, <2>1, <2>2, PhaseStepHonest DEF Complete
<1>13. CASE EndWalk
  <2>1. /\ phase = "walking" /\ step = proof.depth
        /\ phase' = IF width = 1 /\ current = merkleRoot THEN "accepted" ELSE "rejected"
        /\ UNCHANGED <<tree, built, handed, walk>>
    BY <1>13 DEF EndWalk
  <2>2. Honest => width = 1 /\ current = merkleRoot
    BY <2>1, HonestEnd
  <2>3. phase' # "accepted" => ~Honest
    BY <2>1, <2>2
  <2>4. phase' \in {"accepted", "rejected", "refused"}
    BY <2>1
  <2> QED
    BY <1>0, <2>1, <2>3, <2>4, PhaseStepHonest DEF Complete
<1>14. CASE UNCHANGED vars
  <2>1. /\ phase' = phase /\ UNCHANGED <<tree, built>> /\ UNCHANGED <<tree, built, handed>>
        /\ step' = step /\ current' = current /\ index' = index
    BY <1>14 DEF vars, walk
  <2>2. /\ source' = source /\ chunkSize' = chunkSize /\ height' = height
        /\ widths' = widths /\ levels' = levels
        /\ target' = target /\ depth' = depth /\ path' = path
        /\ position' = position /\ sibling' = sibling
    BY <2>1 DEF tree, built
  <2>3. chunkCount' = chunkCount
    BY <2>2 DEF chunkCount
  <2>4. Recorded'
    BY <2>1, <2>2, <2>3 DEF HonestInv, Recorded, Deepens, Nodes, Unproved, Grown, Complete
  <2>5. Honest' = Honest
    BY <2>1, HonestKept
  <2>6. OnPath'
    BY <2>1, <2>2, <2>5 DEF HonestInv, OnPath
  <2>7. OwnProofVerifies'
    BY <2>1, <2>5 DEF HonestInv, OwnProofVerifies, Honest
  <2> QED
    BY <1>0, <2>4, <2>6, <2>7 DEF HonestInv
<1> QED
  BY <1>1, <1>2, <1>3, <1>4, <1>5, <1>6, <1>7, <1>8, <1>9, <1>10, <1>11, <1>12, <1>13, <1>14
  DEF Next

\* Completeness of the walk: a proof that verifyArtifactChunkProof turns down is not the one
\* buildArtifactChunkProof returned for these bytes, for every source and chunk size.
THEOREM OwnProofVerifiesTheorem == Spec => []OwnProofVerifies
<1>1. Spec => []HonestInv
  BY InitHonest, NextHonest, PTL DEF Spec
<1>2. HonestInv => OwnProofVerifies
  BY DEF HonestInv
<1> QED
  BY <1>1, <1>2, PTL
=============================================================================
