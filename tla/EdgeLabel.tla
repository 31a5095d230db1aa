----------------------------- MODULE EdgeLabel ------------------------------
(* CCarNumDetect::LabelEdges: the pixels of an edge image get the number of  *)
(* the connected line they are on, found by a recursive search, and a table  *)
(* keeps the box of every line; then the boxes are measured, thin columns at *)
(* their sides are cut off (AdjustBlob), and boxes that continue one another *)
(* are merged (RearrangeBlob).  One call of LabelEdges is one behaviour.     *)
(*                                                                           *)
(* A sequence counts from 1: index k here is index k - 1 of m_EdgeTable, and *)
(* flag 0 is the code's -1.  Len(table) is m_nEdgeCount, m_nBlobIndex + 1.   *)
(* The recursion is a stack of frames, each with the pixel of its call and   *)
(* the direction it searches next.                                           *)
EXTENDS Raster, Sequences, FiniteSets

CONSTANTS
  Images,          \* the edge images LabelEdges may be given
  MaxLines,        \* MAX_EDGE_LINES
  MinCharHeight,   \* min_char_height, a setting of the test dialog
  MaxCharHeight    \* max_char_height, a setting of the test dialog

ASSUME EdgeAssumption ==
  /\ Images \subseteq SUBSET Pixels
  /\ MaxLines \in Nat \ {0}
  /\ MinCharHeight \in Nat /\ MaxCharHeight \in Nat

VARIABLES image, flag, table, cursor, stack, pc, index

vars == <<image, flag, table, cursor, stack, pc, index>>

\* Faulty variant: the pixel to the right of the first one is not searched.
AroundHalf == << <<0, -1>>, <<-1, -1>>, <<-1, 0>>, <<-1, 1>>,
                 <<1, -1>>, <<1, 1>>, <<1, 0>>, <<1, -1>> >>

(* The eight calls of LabelEdges and the eight of recurSearch, in order.     *)
Around == << <<0, -1>>, <<-1, -1>>, <<-1, 0>>, <<-1, 1>>,
             <<0, 1>>, <<1, 1>>, <<1, 0>>, <<1, -1>> >>
\* Faulty variant: one diagonal is searched twice, another one never.
OnwardTwice == << <<1, 0>>, <<-1, 0>>, <<0, -1>>, <<1, -1>>,
                  <<-1, -1>>, <<1, 1>>, <<1, 1>>, <<0, 1>> >>

Onward == << <<1, 0>>, <<-1, 0>>, <<0, -1>>, <<1, -1>>,
             <<-1, -1>>, <<1, 1>>, <<-1, 1>>, <<0, 1>> >>

Directions(depth) == IF depth = 1 THEN Around ELSE Onward

Call(depth, p, k) ==
  LET d == Directions(depth)[k] IN <<p[1] + d[1], p[2] + d[2]>>

Top == stack[Len(stack)]
Target == Call(Len(stack), Top.at, Top.next)

Lower(a, b) == IF a < b THEN a ELSE b
Higher(a, b) == IF a > b THEN a ELSE b

(* The entry of a line whose first pixel is p.  width, height and cx keep    *)
(* what an earlier image left there until Measure sets them, and nothing     *)
(* reads them before.                                                        *)
NewBox(p, k) ==
  [sx |-> p[2], ex |-> p[2], sy |-> p[1], ey |-> p[1], sy_x |-> p[2],
   ey_x |-> p[2], bx |-> p[2], by |-> p[1], pixel_num |-> k,
   width |-> 0, height |-> 0, cx |-> 0]

\* Faulty variant: the columns of the top and bottom row are not kept up.
StretchedOnly(b, p) ==
  [b EXCEPT !.sy = Lower(@, p[1]), !.ey = Higher(@, p[1]),
            !.sx = Lower(@, p[2]), !.ex = Higher(@, p[2])]

(* The box with the pixel p of its line added.                               *)
Stretched(b, p) ==
  [b EXCEPT !.sy = Lower(@, p[1]), !.ey = Higher(@, p[1]),
            !.sx = Lower(@, p[2]), !.ex = Higher(@, p[2]),
            !.sy_x = IF p[1] < b.sy THEN p[2] ELSE @,
            !.ey_x = IF p[1] > b.ey THEN p[2] ELSE @]

Init ==
  /\ image \in Images
  /\ flag = [p \in Pixels |-> 0]
  /\ table = << >>
  /\ cursor = <<0, 0>>
  /\ stack = << >>
  /\ pc = "scan"
  /\ index = 1

-----------------------------------------------------------------------------
(* The scan.                                                                 *)

New(p) == p \in image /\ flag[p] = 0

Scanning == pc = "scan" /\ stack = << >> /\ cursor[1] < Rows

\* Faulty variant: every second column is looked at.
RightByTwo(p) == <<p[1], p[2] + 2>>

Right(p) == <<p[1], p[2] + 1>>
RowBelow(p) == <<p[1] + 1, 0>>

PassPixel ==
  /\ Scanning /\ cursor[2] < Cols /\ ~New(cursor)
  /\ cursor' = Right(cursor)
  /\ UNCHANGED <<image, flag, table, stack, pc, index>>

EndRow ==
  /\ Scanning /\ cursor[2] = Cols
  /\ cursor' = RowBelow(cursor)
  /\ UNCHANGED <<image, flag, table, stack, pc, index>>

(* The table is full: the break leaves the loop over this row's columns.     *)
TableFull ==
  /\ Scanning /\ cursor[2] < Cols /\ New(cursor)
  /\ Len(table) >= MaxLines
  /\ cursor' = RowBelow(cursor)
  /\ UNCHANGED <<image, flag, table, stack, pc, index>>

StartLine ==
  /\ Scanning /\ cursor[2] < Cols /\ New(cursor)
  /\ Len(table) < MaxLines
  /\ table' = Append(table, NewBox(cursor, Len(table) + 1))
  /\ flag' = [flag EXCEPT ![cursor] = Len(table) + 1]
  /\ stack' = <<[at |-> cursor, next |-> 1]>>
  /\ cursor' = Right(cursor)
  /\ UNCHANGED <<image, pc, index>>

(* recurSearch, called for a new pixel of the line ...                       *)
Join ==
  /\ stack # << >> /\ Top.next <= 8
  /\ New(Target)
  /\ flag' = [flag EXCEPT ![Target] = Len(table)]
  /\ table' = [table EXCEPT ![Len(table)] = Stretched(@, Target)]
  /\ stack' = Append([stack EXCEPT ![Len(stack)].next = @ + 1],
                     [at |-> Target, next |-> 1])
  /\ UNCHANGED <<image, cursor, pc, index>>

(* ... and for a pixel outside the image, on no edge or visited before.      *)
Refuse ==
  /\ stack # << >> /\ Top.next <= 8
  /\ ~New(Target)
  /\ stack' = [stack EXCEPT ![Len(stack)].next = @ + 1]
  /\ UNCHANGED <<image, flag, table, cursor, pc, index>>

Return ==
  /\ stack # << >> /\ Top.next > 8
  /\ stack' = SubSeq(stack, 1, Len(stack) - 1)
  /\ UNCHANGED <<image, flag, table, cursor, pc, index>>

EndScan ==
  /\ pc = "scan" /\ stack = << >> /\ cursor[1] = Rows
  /\ pc' = "measure"
  /\ UNCHANGED <<image, flag, table, cursor, stack, index>>

-----------------------------------------------------------------------------
(* Measuring and trimming the boxes.                                         *)

Measured(b) ==
  [b EXCEPT !.width = b.ex - b.sx + 1, !.height = b.ey - b.sy + 1,
            !.cx = (b.ex + b.sx) \div 2]

(* At most one pixel of the line is in column x of its box.                  *)
Thin(b, x) ==
  Cardinality({y \in b.sy .. b.ey : flag[<<y, x>>] = b.pixel_num}) <= 1

(* A thin column is cut off when the next one is thin too, three at most.    *)
LeftCut(b) ==
  Cardinality({x \in b.sx + 1 .. Lower(b.sx + 3, b.ex) :
                 \A c \in b.sx .. x : Thin(b, c)})
RightCut(b) ==
  Cardinality({x \in Higher(b.ex - 3, b.sx) .. b.ex - 1 :
                 \A c \in x .. b.ex : Thin(b, c)})

CutLeft(b) == [b EXCEPT !.sx = @ + LeftCut(b), !.width = @ - LeftCut(b)]
CutRight(b) == [b EXCEPT !.ex = @ - RightCut(b), !.width = @ - RightCut(b)]

AdjustBlob(b) ==
  IF b.height > 50 \/ b.width > 100 THEN b ELSE CutRight(CutLeft(b))

Measure ==
  /\ pc = "measure" /\ index <= Len(table)
  /\ table' = [table EXCEPT ![index] = AdjustBlob(Measured(@))]
  /\ index' = index + 1
  /\ UNCHANGED <<image, flag, cursor, stack, pc>>

EndMeasure ==
  /\ pc = "measure" /\ index > Len(table)
  /\ pc' = "merge" /\ index' = 1
  /\ UNCHANGED <<image, flag, table, cursor, stack>>

-----------------------------------------------------------------------------
(* Merging: one action per box p, which takes in the first fitting q.        *)

Alongside(p, q) ==
  p.sx - q.sx \in -2 .. 2 /\ p.ex - q.ex \in -2 .. 2

JointHeight(p, q) == Higher(p.ey, q.ey) - Lower(p.sy, q.sy) + 1

Fits(p, q) ==
  /\ Alongside(p, q)
  /\ JointHeight(p, q) > MinCharHeight /\ JointHeight(p, q) < MaxCharHeight
  /\ IF p.sy < q.sy THEN q.sy - p.ey <= 2 ELSE p.sy - q.ey <= 2

\* Faulty variant: width and height stay those of p.
JoinedOldSize(p, q) ==
  [p EXCEPT !.sx = Lower(@, q.sx), !.ex = Higher(@, q.ex),
            !.sy = Lower(@, q.sy), !.ey = Higher(@, q.ey)]

Joined(p, q) ==
  LET sx == Lower(p.sx, q.sx)  ex == Higher(p.ex, q.ex)
      sy == Lower(p.sy, q.sy)  ey == Higher(p.ey, q.ey)
  IN  [p EXCEPT !.sx = sx, !.ex = ex, !.sy = sy, !.ey = ey,
                !.width = ex - sx + 1, !.height = ey - sy + 1]

Emptied(q) == [q EXCEPT !.sx = 0, !.ex = 0, !.sy = 0, !.ey = 0,
                        !.width = 0, !.height = 0]

Partners(i) ==
  {j \in i + 1 .. Len(table) :
     /\ table[i].width \in 3 .. 50
     /\ Fits(table[i], table[j])}

Merge ==
  /\ pc = "merge" /\ index < Len(table)
  /\ \E j \in Partners(index) :
       /\ \A k \in Partners(index) : j <= k
       /\ table' = [table EXCEPT ![index] = Joined(@, table[j]),
                                 ![j] = Emptied(@)]
  /\ index' = index + 1
  /\ UNCHANGED <<image, flag, cursor, stack, pc>>

MergeNone ==
  /\ pc = "merge" /\ index < Len(table)
  /\ Partners(index) = {}
  /\ index' = index + 1
  /\ UNCHANGED <<image, flag, table, cursor, stack, pc>>

EndMerge ==
  /\ pc = "merge" /\ index >= Len(table)
  /\ pc' = "done"
  /\ UNCHANGED <<image, flag, table, cursor, stack, index>>

Next ==
  \/ PassPixel \/ EndRow \/ TableFull \/ StartLine
  \/ Join \/ Refuse \/ Return \/ EndScan
  \/ Measure \/ EndMeasure
  \/ Merge \/ MergeNone \/ EndMerge

Spec == Init /\ [][Next]_vars
-----------------------------------------------------------------------------
(* Properties.                                                               *)

Blob(k) == {p \in image : flag[p] = k}

(* The lines whose search has ended.                                         *)
Finished == IF stack = << >> THEN Len(table) ELSE Len(table) - 1
Lines == [k \in 1 .. Finished |-> Blob(k)]

Box == [sx : Int, ex : Int, sy : Int, ey : Int, sy_x : Int, ey_x : Int,
        bx : Int, by : Int, pixel_num : Int,
        width : Int, height : Int, cx : Int]

(* The variables have their types, a pixel's number is in the table, and the *)
(* recursion, while it runs, is on pixels and has a line to write to.        *)
LabelTypeOK ==
  /\ image \in SUBSET Pixels
  /\ table \in Seq(Box) /\ Len(table) <= MaxLines
  /\ flag \in [Pixels -> 0 .. Len(table)]
  /\ cursor \in (0 .. Rows) \X (0 .. Cols)
  /\ stack \in Seq([at : Pixels, next : 1 .. 9])
  /\ stack # << >> => table # << >>
  /\ pc \in {"scan", "measure", "merge", "done"}
  /\ index \in Nat \ {0}

(* When LabelEdges returns, two numbered pixels have the same number exactly *)
(* when a chain of neighbours joins them, whatever the directions' order and *)
(* wherever the table's limit cut the scan off.                              *)
LabelsAreComponents ==
  pc = "done" =>
    LET closed == ClosedSets(image)
    IN  \A p, q \in {r \in image : flag[r] # 0} :
          flag[p] = flag[q] <=> \A S \in closed : p \in S => q \in S

(* LabelEdges numbers one whole piece after the other, in reading order.     *)
L == INSTANCE Labelling WITH lines <- Lines
ImplementsLabelling == L!Spec

(* Until a box is measured it is the bounding box of the pixels its line has *)
(* so far, and sy_x, ey_x are columns in which the line has a pixel in its   *)
(* top and bottom row.                                                       *)
BoxIsTight ==
  \A k \in 1 .. Len(table) :
    LET b == table[k] IN
    pc = "scan" \/ (pc = "measure" /\ k >= index) =>
      /\ \A p \in Blob(k) : p[1] \in b.sy .. b.ey /\ p[2] \in b.sx .. b.ex
      /\ \E p \in Blob(k) : p[2] = b.sx
      /\ \E p \in Blob(k) : p[2] = b.ex
      /\ <<b.sy, b.sy_x>> \in Blob(k) /\ <<b.ey, b.ey_x>> \in Blob(k)

(* A box that was measured and not merged away.                              *)
Live(k) == table[k].width > 0

(* After trimming and merging, every numbered pixel is in a live box that is *)
(* as wide and high as it says, or in the three columns beside it.  cx is    *)
(* computed before that and never again, yet the code compares it with the   *)
(* edges of other boxes: it may leave its own box by two columns to the left *)
(* and one to the right, never by more.                                      *)
PixelsCovered ==
  pc = "done" =>
    /\ \A p \in {r \in image : flag[r] # 0} :
         \E k \in {k \in 1 .. Len(table) : Live(k)} :
           LET b == table[k] IN
           /\ p[1] \in b.sy .. b.ey /\ p[2] \in b.sx - 3 .. b.ex + 3
           /\ b.width = b.ex - b.sx + 1 /\ b.height = b.ey - b.sy + 1
    /\ \A k \in {k \in 1 .. Len(table) : Live(k)} :
         table[k].cx \in table[k].sx - 2 .. table[k].ex + 1
=============================================================================
