---------------------------- MODULE MC_FieldsPanel ---------------------------
EXTENDS FieldsPanel

CONSTANTS a, b, f1

MCIndices == {a, b}
MCFields == {f1}
MCJsons == {""}
MCQueryTexts == {""}
MCEmptyQuery == ""

====
