---------------------------- MODULE MC_AppContext ----------------------------
(* Two indices, two fields, and one non-empty JSON buffer besides "". *)
EXTENDS AppContext

CONSTANTS i1, i2, f1, f2

MCIndices == {i1, i2}
MCFields == {f1, f2}
MCJsons == {"", "doc"}
MCQueryTexts == {""}
MCEmptyQuery == ""

=============================================================================
