--------------------------- MODULE MCEventStream ---------------------------
(* Instance of EventStream for TLC: every text of up to MaxLines lines,    *)
(* whatever their endings.                                                 *)
EXTENDS EventStream, SequencesExt

CONSTANT MaxLines   \* bound on the lines of a text

LineTexts == {<<>>, <<"data", Colon, "v">>, <<"event", Colon, "bundle">>, <<Colon, "keepalive">>}
Endings == {<<LF>>, <<CR>>, <<CR, LF>>}

MCStreams ==
  {FlattenSeq(s) : s \in UNION {[1 .. n -> {l \o e : l \in LineTexts, e \in Endings}] : n \in 0 .. MaxLines}}

=============================================================================
