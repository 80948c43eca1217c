------------------------------ MODULE TextIndex ------------------------------
(***************************************************************************)
(* The text index of an artifact                                           *)
(* (packages/server/src/artifact-text-index.ts): lines, Markdown headings  *)
(* outside code fences, and the identifiers headings are addressed by.     *)
(*                                                                         *)
(* A byte is its character.  LF, CR, tab, backtick and tilde have names,   *)
(* and the bytes "C3" and "A9" are one code point in two bytes, the only   *)
(* one beyond ASCII.  Offsets into a source are zero-based, as in the      *)
(* code.  A loop is a function of the number of its iterations to its      *)
(* state; iterations after its end change nothing.                         *)
(***************************************************************************)
EXTENDS Integers, Sequences, FiniteSets, SequencesExt

CONSTANTS
    MAX_TEXT_INDEX_BYTES,
    MAX_TEXT_INDEX_LINES,
    MAX_TEXT_INDEX_HEADINGS,
    MAX_HEADING_LEVEL,
    MAX_HEADING_TEXT_CHARS,
    MAX_HEADING_ID_LENGTH,
    MAX_LINE_READ_COUNT,
    MAX_TEXT_READ_BYTES

ASSUME TextIndexBounds ==
    {MAX_TEXT_INDEX_BYTES, MAX_TEXT_INDEX_LINES, MAX_TEXT_INDEX_HEADINGS, MAX_HEADING_LEVEL,
     MAX_HEADING_TEXT_CHARS, MAX_HEADING_ID_LENGTH, MAX_LINE_READ_COUNT,
     MAX_TEXT_READ_BYTES} \subseteq Nat

\* source.subarray(start, start + length)
Slice(source, start, length) == SubSeq(source, start + 1, start + length)

\* What the fatal decoder accepts: a lead byte where and only where its continuation follows.
IsUtf8(bytes) ==
    /\ \A i \in 1..Len(bytes) : bytes[i] = "C3" => i < Len(bytes) /\ bytes[i + 1] = "A9"
    /\ \A i \in 1..Len(bytes) : bytes[i] = "A9" => i > 1 /\ bytes[i - 1] = "C3"

\* The characters of valid bytes; "C3" stands for its code point.
decode(bytes) ==
    LET after[k \in 0..Len(bytes)] ==
          IF k = 0 THEN <<>>
          ELSE IF bytes[k] = "A9" THEN after[k - 1]
          ELSE Append(after[k - 1], bytes[k])
    IN  after[Len(bytes)]
-----------------------------------------------------------------------------
(***************************************************************************)
(* scanLines.                                                              *)
(***************************************************************************)
Line(lineNumber, start, end, newline) ==
    [lineNumber |-> lineNumber, byteStart |-> start, contentByteLength |-> end - start,
     newlineByteLength |-> newline]

\* Mutant: a lone CR ends a line.
anyNewlineAt(source, offset) ==
    IF source[offset + 1] \in {"LF", "CR"} THEN 1 ELSE 0

\* The length of the newline at an offset, zero if there is none.
newlineAt(source, offset) ==
    IF source[offset + 1] = "LF" THEN 1
    ELSE IF source[offset + 1] = "CR" /\ offset + 1 < Len(source) /\ source[offset + 2] = "LF"
         THEN 2
         ELSE 0

\* One iteration: the line that ends at the offset is added, or the offset moves on.
scanStep(source, scan) ==
    LET newline == newlineAt(source, scan.offset)
        next == scan.offset + newline
    IN  IF scan.offset = Len(source) THEN scan
        ELSE IF newline = 0 THEN [scan EXCEPT !.offset = @ + 1]
        ELSE [lines |-> Append(scan.lines, Line(Len(scan.lines) + 1, scan.start, scan.offset, newline)),
              start |-> next, offset |-> next]

scanAfter(source) ==
    LET after[k \in 0..Len(source)] ==
          IF k = 0 THEN [lines |-> <<>>, start |-> 0, offset |-> 0]
          ELSE scanStep(source, after[k - 1])
    IN  after

\* The lines of the loop, and what is left without a newline.
scanLines(source) ==
    LET n == Len(source)
        scan == scanAfter(source)[n]
    IN  IF scan.start < n
        THEN Append(scan.lines, Line(Len(scan.lines) + 1, scan.start, n, 0))
        ELSE scan.lines
-----------------------------------------------------------------------------
(***************************************************************************)
(* Fences and headings of a line of text.                                  *)
(***************************************************************************)
\* How often c stands in a row from position i on.
RunLength(text, i, c) ==
    LET stops == {j \in i..Len(text) : text[j] # c}
    IN  (IF stops = {} THEN Len(text) + 1 ELSE Min(stops)) - i

countLeadingSpaces(text) == RunLength(text, 1, " ")

\* The position of the first character that is no space, if the line is not indented code.
MarkerAt(text, markers) ==
    LET p == countLeadingSpaces(text) + 1
    IN  IF p <= 4 /\ p <= Len(text) /\ text[p] \in markers THEN p ELSE 0

NoFence == [marker |-> "none", length |-> 0]

parseFence(text) ==
    LET p == MarkerAt(text, {"tick", "tilde"})
    IN  IF p > 0 /\ RunLength(text, p, text[p]) >= 3
        THEN [marker |-> text[p], length |-> RunLength(text, p, text[p])]
        ELSE NoFence

isClosingFence(text, opening) ==
    LET p == MarkerAt(text, {opening.marker})
        run == RunLength(text, p, opening.marker)
    IN  /\ p > 0
        /\ run >= opening.length
        /\ \A i \in (p + run)..Len(text) : text[i] \in {" ", "TAB"}

Whitespace == {" ", "TAB", "CR"}

\* The run of hashes after whitespace that closes a heading is cut off.  What is before the
\* leftmost match does not end in whitespace, so trimEnd has nothing left to do.
withoutClosingHashes(text) ==
    LET closings == {i \in 1..Len(text) : \E j \in i..Len(text), k \in (i + 1)..Len(text) :
                       /\ j < k
                       /\ \A m \in i..j : text[m] \in Whitespace
                       /\ \A m \in (j + 1)..k : text[m] = "#"
                       /\ \A m \in (k + 1)..Len(text) : text[m] \in Whitespace}
    IN  IF closings = {} THEN text ELSE SubSeq(text, 1, Min(closings) - 1)

NoHeading == [level |-> 0, rawText |-> <<>>]

parseAtxHeading(text) ==
    LET p == MarkerAt(text, {"#"})
        level == RunLength(text, p, "#")
    IN  IF p > 0 /\ level <= MAX_HEADING_LEVEL /\ p + level <= Len(text)
             /\ text[p + level] = " "
        THEN [level |-> level,
              rawText |-> withoutClosingHashes(SubSeq(text, p + level + 1, Len(text)))]
        ELSE NoHeading
-----------------------------------------------------------------------------
(***************************************************************************)
(* Heading identifiers, as sequences of characters.                        *)
(***************************************************************************)
lower(c) == IF c = "A" THEN "a" ELSE c
Alphanumeric == {"a", "b", "2"}

\* One character: a token of the slug, after a hyphen if something was left out before it.
slugStep(acc, c) ==
    LET token == IF c = "C3" THEN <<"u", "-", "-", "e", "9", "-", "-">> ELSE <<lower(c)>>
        joint == IF acc.separator /\ acc.slug # <<>> THEN <<"-">> ELSE <<>>
    IN  IF c = "C3" \/ lower(c) \in Alphanumeric
        THEN [slug |-> acc.slug \o joint \o token, separator |-> FALSE]
        ELSE [acc EXCEPT !.separator = TRUE]

slugAfter(text) ==
    LET after[k \in 0..Len(text)] ==
          IF k = 0 THEN [slug |-> <<>>, separator |-> FALSE]
          ELSE slugStep(after[k - 1], text[k])
    IN  after

\* normalizedHeadingText, then headingSlug.  Trimming and collapsing whitespace is what the
\* separator of the slug does anyway.
headingSlug(rawText) ==
    LET slug == slugAfter(rawText)[Len(rawText)].slug
    IN  IF slug = <<>> THEN <<"h", "e", "a", "d", "i", "n", "g">> ELSE slug

prefix(slug, n) == SubSeq(slug, 1, IF n < Len(slug) THEN n ELSE Len(slug))

\* The decimal digits of a number.
Digit(d) == <<"0", "1", "2", "3", "4", "5", "6", "7", "8", "9">>[d + 1]

digits[n \in Nat] ==
    IF n < 10 THEN <<Digit(n)>> ELSE Append(digits[n \div 10], Digit(n % 10))

\* The slug, or the slug with the least suffix that makes it new.  The candidates from the
\* second on differ, and the first may be one of them if it is cut off.
nextHeadingId(slug, used) ==
    LET suffix(n) == <<"-">> \o digits[n]
        candidate(n) == IF n = 1 THEN prefix(slug, MAX_HEADING_ID_LENGTH)
                        ELSE prefix(slug, MAX_HEADING_ID_LENGTH - Len(suffix(n))) \o suffix(n)
    IN  candidate(CHOOSE n \in 1..(Cardinality(used) + 2) :
                    /\ candidate(n) \notin used
                    /\ \A m \in 1..(n - 1) : candidate(m) \in used)

LineText(source, line) == decode(Slice(source, line.byteStart, line.contentByteLength))

\* Mutant: any fence line ends a fence.
toggledFence(fence, text) ==
    IF parseFence(text) = NoFence THEN fence
    ELSE IF fence = NoFence THEN parseFence(text)
    ELSE NoFence

\* The fence that is open after a line.
fenceAfter(fence, text) ==
    IF fence = NoFence THEN parseFence(text)
    ELSE IF isClosingFence(text, fence) THEN NoFence
    ELSE fence

\* One line: fences are followed, and the first line over a bound ends the scan with its error.
headingStep(source, scan, line) ==
    LET text == LineText(source, line)
        heading == parseAtxHeading(text)
        id == nextHeadingId(headingSlug(heading.rawText),
                            {scan.headings[k].headingId : k \in DOMAIN scan.headings})
    IN  IF scan.error # "none" THEN scan
        ELSE IF scan.fence # NoFence \/ parseFence(text) # NoFence
        THEN [scan EXCEPT !.fence = fenceAfter(@, text)]
        ELSE IF heading = NoHeading THEN scan
        ELSE IF Len(heading.rawText) > MAX_HEADING_TEXT_CHARS
        THEN [scan EXCEPT !.error = "RESPONSE_LIMIT_EXCEEDED"]
        ELSE IF Len(scan.headings) = MAX_TEXT_INDEX_HEADINGS
        THEN [scan EXCEPT !.error = "TOO_MANY_HEADINGS"]
        ELSE [scan EXCEPT !.headings =
                Append(@, [headingId |-> id, level |-> heading.level,
                           lineNumber |-> line.lineNumber, byteStart |-> line.byteStart,
                           byteLength |-> line.contentByteLength])]

headingsAfter(source, lines) ==
    LET after[k \in 0..Len(lines)] ==
          IF k = 0 THEN [fence |-> NoFence, headings |-> <<>>, error |-> "none"]
          ELSE headingStep(source, after[k - 1], lines[k])
    IN  after

\* Of no lines for text/plain.
scanHeadings(source, lines) == headingsAfter(source, lines)[Len(lines)]
-----------------------------------------------------------------------------
(***************************************************************************)
(* buildArtifactTextIndex and the two reads.  A result carries the code of *)
(* the error that was thrown, or "none".                                   *)
(***************************************************************************)
NoIndex(code) == [error |-> code, source |-> <<>>, mediaType |-> "none",
                  lines |-> <<>>, headings |-> <<>>]

buildArtifactTextIndex(bytes, mediaType) ==
    IF mediaType \notin {"text/plain", "text/markdown"} THEN NoIndex("UNSUPPORTED_MEDIA_TYPE")
    ELSE IF Len(bytes) > MAX_TEXT_INDEX_BYTES THEN NoIndex("SOURCE_TOO_LARGE")
    ELSE IF ~IsUtf8(bytes) THEN NoIndex("INVALID_UTF8")
    ELSE LET lines == scanLines(bytes)
             Index(scanned) ==
               IF scanned.error # "none" THEN NoIndex(scanned.error)
               ELSE [error |-> "none", source |-> bytes, mediaType |-> mediaType,
                     lines |-> lines, headings |-> scanned.headings]
         IN  IF Len(lines) > MAX_TEXT_INDEX_LINES THEN NoIndex("TOO_MANY_LINES")
             ELSE Index(scanHeadings(bytes, IF mediaType = "text/plain" THEN <<>> ELSE lines))

\* assertReadBytes and assertConsistentIndex: the index is rebuilt and compared.
IndexError(bytes, index) ==
    IF Len(bytes) > MAX_TEXT_INDEX_BYTES THEN "SOURCE_TOO_LARGE"
    ELSE IF ~IsUtf8(bytes) THEN "INVALID_UTF8"
    ELSE IF index.source # bytes THEN "SOURCE_MISMATCH"
    ELSE IF index # buildArtifactTextIndex(bytes, index.mediaType) THEN "INCONSISTENT_INDEX"
    ELSE "none"

NoText(code) == [error |-> code, text |-> <<>>]

\* The text, unless the index was turned down.
readUnless(error, read) == IF error = "none" THEN read ELSE NoText(error)

untrustedRead(bytes) ==
    IF Len(bytes) > MAX_TEXT_READ_BYTES THEN NoText("RESPONSE_LIMIT_EXCEEDED")
    ELSE [error |-> "none", text |-> bytes]

LineEnd(line) == line.byteStart + line.contentByteLength + line.newlineByteLength

readIndexedLines(bytes, index, startLine, count) ==
    LET endLine == startLine + count - 1
        start == index.lines[startLine].byteStart
    IN  readUnless(IndexError(bytes, index),
          IF startLine < 1 \/ count < 1 THEN NoText("INVALID_LINE_RANGE")
          ELSE IF count > MAX_LINE_READ_COUNT THEN NoText("RESPONSE_LIMIT_EXCEEDED")
          ELSE IF endLine > Len(index.lines) THEN NoText("INVALID_LINE_RANGE")
          ELSE untrustedRead(Slice(bytes, start, LineEnd(index.lines[endLine]) - start)))

HeadingAt(index, headingId) ==
    {k \in DOMAIN index.headings : index.headings[k].headingId = headingId}

readIndexedHeading(bytes, index, headingId) ==
    LET heading == index.headings[Min(HeadingAt(index, headingId))]
    IN  readUnless(IndexError(bytes, index),
          IF HeadingAt(index, headingId) = {} THEN NoText("INVALID_HEADING_ID")
          ELSE untrustedRead(Slice(bytes, heading.byteStart, heading.byteLength)))
=============================================================================
