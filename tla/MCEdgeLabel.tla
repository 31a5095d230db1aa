---------------------------- MODULE MCEdgeLabel -----------------------------
(* Images for TLC.  Patterns: every choice of a pattern for each of the five *)
(* upper rows of the four left columns, of at most eight pixels in all.      *)
(* Tees: up to three shapes of a bar and a foot, which the trimming leaves   *)
(* as wide as they are, so that boxes are merged.                            *)
EXTENDS EdgeLabel

MCPatterns == {{}, {0, 1, 2}, {1, 2, 3}, {0, 3}, {2}}

MCDraw(rows) == {p \in Pixels : p[1] \in DOMAIN rows /\ p[2] \in rows[p[1]]}

MCPatternImages ==
  {i \in {MCDraw(r) : r \in [0 .. 4 -> MCPatterns]} : Cardinality(i) <= 8}

MCTee(p) == {<<p[1], p[2] + x>> : x \in 0 .. 2} \cup {<<p[1] + 1, p[2] + 1>>}

MCTees == {<<0, 4>>, <<1, 0>>, <<3, 0>>, <<3, 4>>, <<5, 1>>, <<6, 4>>}

MCTeeImages ==
  {UNION {MCTee(p) : p \in t} : t \in {t \in SUBSET MCTees : Cardinality(t) <= 3}}

MCImages == MCPatternImages \cup MCTeeImages
=============================================================================
