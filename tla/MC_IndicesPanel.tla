--------------------------- MODULE MC_IndicesPanel ---------------------------
(* Two indices; the JSON buffer and fields are not touched by this view. *)
EXTENDS IndicesPanel

CONSTANTS a, b, f1

MCIndices == {a, b}
MCFields == {f1}
MCJsons == {""}
MCQueryTexts == {""}
MCEmptyQuery == ""

=============================================================================
