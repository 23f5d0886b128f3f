---------------------------- MODULE MC_IngestPanel ---------------------------
EXTENDS IngestPanel

CONSTANTS a, b, f1

MCIndices == {a, b}
MCFields == {f1}
MCSample == [i \in MCIndices |-> IF i = a THEN "sample_a" ELSE "sample_b"]
MCJsons == {"", "bad", "doc", "doc_pretty", "sample_a", "sample_b"}
MCQueryTexts == {""}
MCEmptyQuery == ""

====
