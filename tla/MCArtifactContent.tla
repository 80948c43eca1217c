-------------------------- MODULE MCArtifactContent --------------------------
(***************************************************************************)
(* Sources of up to three lines.  The lines have each newline, a lone      *)
(* carriage return, a code point of two bytes and half of one, headings    *)
(* whose slugs collide with each other and with a suffixed one, and fences *)
(* of both markers and two lengths.                                        *)
(***************************************************************************)
EXTENDS ArtifactContent

Plain == {<<"a", "LF">>, <<"a", "CR", "LF">>, <<"a", "CR", "b", "LF">>, <<"LF">>,
          <<"a", "a", "a", "LF">>}
Accents == {<<"C3", "A9", "LF">>, <<"A9", "LF">>}
HeadA == <<"#", " ", "a", "LF">>
Heads == {HeadA, <<" ", "#", " ", "A", " ", "#", "LF">>, <<"#", " ", "a", "-", "2", "LF">>,
          <<"#", " ", "C3", "A9", "CR", "LF">>, <<"#", "a", "LF">>}
Ticks == <<"tick", "tick", "tick">>
Fences == {Ticks \o <<"LF">>, Ticks \o <<"tick", "LF">>, Ticks \o <<" ", "CR", "LF">>,
           Ticks \o <<"b", "LF">>, <<"tilde", "tilde", "tilde", "LF">>}

Unterminated(source) == SubSeq(source, 1, Len(source) - 1)

PlainSources ==
    LET two == {FlattenSeq(s) : s \in [1..2 -> Plain \cup Accents]}
    IN  {<<>>} \cup two \cup {Unterminated(s) : s \in two}
HeadingSources ==
    {FlattenSeq(s) : s \in [1..3 -> Heads]} \cup {<<"A9">> \o HeadA, HeadA \o HeadA \o HeadA \o HeadA}
FencedSources ==
    {FlattenSeq(<<f, HeadA, g, HeadA>>) : f \in Fences \cup {<<"LF">>}, g \in Fences}

\* One byte more than a record may have, and a chunk more with shorter chunks.
OversizedSources == {<<"a">> \o FlattenSeq([k \in 1..3 |-> <<"#", " ", "a", "-", "2", " ", "LF">>])}
ManyChunks == {FlattenSeq([k \in 1..7 |-> <<"a", "LF">>])}

MCArtifacts ==
    [source : PlainSources \cup ManyChunks, mediaType : {"text/plain"}, chunkSize : {2}, hashesRef : {FALSE}]
    \cup [source : HeadingSources \cup FencedSources \cup OversizedSources, mediaType : {"text/markdown"},
          chunkSize : {4}, hashesRef : {TRUE}]
    \cup [source : {<<"a", "b">>}, mediaType : {"image/png"}, chunkSize : {2}, hashesRef : {FALSE}]

MCAlterations(source) ==
    IF source = <<>> \/ Len(source) > 6 THEN {}
    ELSE {[source EXCEPT ![Len(source)] = "b"], Unterminated(source)}

MCRequests(source) ==
    LET n == Len(source)
    IN  [tool : {"artifact_stat"}]
        \cup [tool : {"artifact_read_range"}, offset : {0, 1, n - 2} \cap Nat, length : {1, 2, 8}]
        \cup [tool : {"artifact_read_lines"}, startLine : 1..4, count : {1, 2}]
        \cup [tool : {"artifact_read_heading"},
              headingId : {<<"a">>, <<"a", "-", "2">>, <<"a", "-", "3">>, <<"a", "-", "2", "-", "2">>,
                           <<"u", "-", "-", "e", "9", "-", "-">>}]
        \cup [tool : {"artifact_search_exact"},
              query : {<<"a">>, <<"a", "a">>, <<"C3", "A9">>, <<"a", "LF", "a">>}, maxHits : {1, 3}]
=============================================================================
