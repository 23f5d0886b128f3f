---------------------------- MODULE MC_QueryPanel ----------------------------
EXTENDS QueryPanel

CONSTANTS a, b, f1, o1, o2

MCIndices == {a, b}
MCFields == {f1}
MCJsons == {""}
MCOps == {o1, o2}
MCEmptyQuery == [invalid |-> FALSE]
MCQueryTexts == {MCEmptyQuery, [invalid |-> TRUE]}
                    \cup [query : MCOps \cup {"", "none"}, pretty : BOOLEAN]

====
