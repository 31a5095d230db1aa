--------------------------- MODULE MCPlateSearch ---------------------------
(* Up to six candidates, 42 pixels high unless they lean on the limits of  *)
(* a digit's height, at a pitch of 30 pixels; lists of two.                *)
EXTENDS PlateSearch

MCMaxBlobs == 6
MCMaxSaved == 2
MCMinHeight == 32
MCMaxHeight == 56

Blob(x, y, w, h) == [sx |-> x, ex |-> x + w - 1, sy |-> y, ey |-> y + h - 1, cx |-> (2 * x + w - 1) \div 2]

\* A digit at place `p` from the right, as it may be labelled: level, leaning,
\* wide, narrow, low, high, too high, or not at all.
Shapes(p) ==
  LET x == 200 - 30 * p
  IN {Blob(x, 50, 20, 42), Blob(x, 58, 20, 42), Blob(x, 50, 26, 42), Blob(x + 10, 50, 6, 42),
      Blob(x, 50, 20, 33), Blob(x, 50, 20, 57), Blob(x, 50, 20, 58)}

\* The second labelling of the digit at place 3: trimmed on the left, wide, or
\* too low for a digit.
Doubles == {[Blob(110, 50, 20, 42) EXCEPT !.cx = 118], Blob(106, 50, 26, 42), Blob(110, 50, 20, 20)}

\* Wide digits, of which the leftmost makes the four too long.
Long == <<Blob(195, 54, 28, 33), Blob(163, 50, 28, 42), Blob(121, 50, 28, 42),
          Blob(119, 50, 28, 42), Blob(92, 50, 28, 42), Blob(79, 50, 28, 42)>>

\* A seventh digit, which is not looked at any more.
TooMany == Append(Long, Blob(230, 54, 28, 33))

MCEdgeTables ==
  {Long, TooMany} \cup
  {<<a, b, c, d, e, f>> : a \in {Blob(200, 50, 20, 42), Blob(210, 50, 6, 42)},
                          b \in Shapes(1), c \in Shapes(2), d \in Shapes(3),
                          e \in {Blob(80, 50, 20, 42), Blob(80, 58, 20, 42)}, f \in Doubles}
==============================================================================
