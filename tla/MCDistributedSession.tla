------------------------- MODULE MCDistributedSession -------------------------
\* Model checking instance: one program that makes every call and loads three
\* times.  Ranks of unequal precision or split are given good checkpoints, equal
\* ranks every pair of headers, bodies and, for the first load, step counts.
EXTENDS DistributedSession

MCProgram ==
  <<"construct", "capture", "load", "advance", "loadFile", "advance", "load", "advance",
    "snapshot">>

MCFile(header, body, taken) == [header |-> header, body |-> body, clock |-> taken]

MCFirst == {MCFile(FALSE, "good", 3), MCFile(TRUE, "good", 3), MCFile(TRUE, "good", 7),
            MCFile(TRUE, "state", 3), MCFile(TRUE, "probes", 3)}
MCSecond == {MCFile(TRUE, "good", 3), MCFile(TRUE, "state", 3), MCFile(TRUE, "probes", 7)}
MCThird == {MCFile(FALSE, "good", 7), MCFile(TRUE, "good", 7), MCFile(TRUE, "state", 7)}

MCLoads(a, b, c) == [k \in Loads |-> IF k = 3 THEN a ELSE IF k = 5 THEN b ELSE c]
MCGood == MCLoads(MCFile(TRUE, "good", 3), MCFile(TRUE, "good", 3), MCFile(TRUE, "good", 7))

MCRank(precision, split, file) == [precision |-> precision, split |-> split, file |-> file]

MCSessions ==
  [Ranks -> {MCRank("single", 1, MCLoads(a, b, c)) : a \in MCFirst, b \in MCSecond, c \in MCThird}]
    \cup [Ranks -> {MCRank(p, s, MCGood) : p \in {"single", "double"}, s \in {1, 2}}]
=============================================================================
