----------------------------- MODULE Labelling ------------------------------
(* What LabelEdges promises: the pieces of the edge image are numbered one   *)
(* by one, each as a whole, in the order in which their first pixels are     *)
(* read, until MaxLines of them have a number.                               *)
EXTENDS Raster, Sequences

CONSTANTS Images, MaxLines

VARIABLES image, lines

Numbered == UNION {lines[k] : k \in 1 .. Len(lines)}

Init == image \in Images /\ lines = << >>

(* lines' # lines follows from the rest: it spares TLC the piece's search *)
(* in a step that numbers none.                                              *)
Number ==
  /\ lines' # lines
  /\ Len(lines) < MaxLines
  /\ \E p \in image \ Numbered :
       /\ \A q \in image \ Numbered : ~Before(q, p)
       /\ lines' = Append(lines, Component(p, image))
  /\ UNCHANGED image

Spec == Init /\ [][Number]_<<image, lines>>
=============================================================================
