----------------------------- MODULE MCBoxLines -----------------------------
(* Pieces for TLC: a base with three strokes above it, each of three columns *)
(* and standing on a foot, in four positions of the image's sides, so that   *)
(* every side of the box is met with every stroke; thin lines; and a dot.    *)
EXTENDS BoxLines, FiniteSetsExt

(* The row of a stroke in each column, 9 for none.                           *)
MCLevel == {<<0, 0, 0>>, <<1, 1, 1>>, <<2, 2, 2>>}
MCSlanted == {<<0, 1, 2>>, <<2, 1, 0>>, <<0, 1, 1>>, <<1, 1, 0>>}
MCZigzag == {<<0, 1, 0>>, <<1, 0, 1>>, <<1, 2, 1>>}
MCShort == {<<0, 0, 9>>, <<0, 9, 0>>, <<9, 9, 1>>, <<9, 0, 0>>, <<2, 9, 2>>, <<9, 9, 9>>}
MCFew == {<<0, 0, 0>>, <<1, 0, 1>>, <<0, 1, 2>>, <<0, 0, 9>>, <<9, 9, 1>>, <<2, 9, 2>>}

MCBase == 5

MCStroke(s, left) ==
  UNION {IF s[c] = 9 THEN {}
         ELSE IF c = 1 \/ s[c - 1] = 9 THEN {<<r, left + c - 1>> : r \in s[c] .. MCBase}
         ELSE {<<s[c], left + c - 1>>} : c \in 1 .. 3}

MCPiece(s, t, u) ==
  MCStroke(s, 0) \cup MCStroke(t, 3) \cup MCStroke(u, 6)
    \cup {<<MCBase, c>> : c \in 0 .. 8}

MCFlip(i) == {<<Rows - 1 - p[1], p[2]>> : p \in i}
MCTurn(i) == {<<p[2], p[1]>> : p \in i}
MCTurnFlip(i) == {<<p[2], Cols - 1 - p[1]>> : p \in i}

(* At the image's last column and row, with an arm to its first column.      *)
MCWide(i) ==
  {<<p[2] + 1, Cols - 1 - p[1]>> : p \in i} \cup {<<6, c>> : c \in 0 .. Cols - 1 - MCBase}

MCStrokes == MCLevel \cup MCSlanted \cup MCZigzag \cup MCShort

MCUpright == {MCPiece(s, t, u) : s, t \in MCStrokes, u \in MCFew}

MCRise(steps, c) == Cardinality({b \in steps : b < c})
MCThin ==
  {{<<r + d * MCRise(steps, c), o + c>> : c \in 0 .. 4} :
     r \in 4 .. 5, o \in 0 .. 2, d \in {-1, 1}, steps \in SUBSET (0 .. 3)}

MCImages ==
  {{<<4, 4>>}} \cup MCThin \cup {MCTurn(i) : i \in MCThin}
    \cup UNION {{i, MCFlip(i), MCTurn(i), MCTurnFlip(i), MCWide(i)} : i \in MCUpright}

MCEdge(i) ==
  [pixels |-> i, sx |-> Min({p[2] : p \in i}), ex |-> Max({p[2] : p \in i}),
   sy |-> Min({p[1] : p \in i}), ey |-> Max({p[1] : p \in i})]

MCPieces == {MCEdge(i) : i \in MCImages}
=============================================================================
