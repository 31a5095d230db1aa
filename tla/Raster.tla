------------------------------- MODULE Raster -------------------------------
(* The edge image of the plate detector as a set of pixels <<row, column>>   *)
(* (dte_m[row][column] = 255), its neighbours in eight directions, the order *)
(* in which rows and columns are read, and its connected pieces.             *)
EXTENDS Integers

CONSTANTS Rows, Cols

ASSUME RasterAssumption == Rows \in Nat /\ Cols \in Nat

Pixels == (0 .. Rows - 1) \X (0 .. Cols - 1)

Near(p, q) == p[1] - q[1] \in -1 .. 1 /\ p[2] - q[2] \in -1 .. 1

Before(p, q) == p[1] < q[1] \/ (p[1] = q[1] /\ p[2] < q[2])

(* No step to a neighbour leads from S to a pixel of the image outside S.    *)
Closed(S, image) == \A p \in S, q \in image : Near(p, q) => q \in S

ClosedSets(image) == {S \in SUBSET image : Closed(S, image)}

(* The pixels that every closed set around p contains: those a chain of      *)
(* neighbours joins to p.                                                    *)
Component(p, image) ==
  LET around == {S \in ClosedSets(image) : p \in S}
  IN  {q \in image : \A S \in around : q \in S}
=============================================================================
