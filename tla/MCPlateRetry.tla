---------------------------- MODULE MCPlateRetry ----------------------------
(* Two thresholds, of which the first is the usual one, and images in      *)
(* which up to two settings show digits and up to one shows a box.         *)
EXTENDS PlateRetry, FiniteSets

CONSTANT Other  \* a second pair of thresholds

MCThresholds == <<Usual, Other>>

\* The settings the loops begin and end with, and those FindLinesByEdge_HDS
\* adds to them.
Telling == {<<0, Usual>>, <<0, Other>>, <<1, Usual>>, <<2, Other>>, <<3, Usual>>, <<3, Fine>>}

MCImages ==
  [digits : {d \in SUBSET Telling : Cardinality(d) <= 2},
   box : {b \in SUBSET (Telling \ {<<0, Other>>}) : Cardinality(b) <= 1}]
=============================================================================
