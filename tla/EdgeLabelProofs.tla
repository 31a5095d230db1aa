-------------------------- MODULE EdgeLabelProofs ---------------------------
(* What the recursive search numbers, for images of any size, any limit of   *)
(* the table and any character heights.                                      *)
(*                                                                           *)
(* The argument: a numbered pixel has numbered all its neighbours, but for   *)
(* those a frame of the recursion has still to call.  So when the stack is   *)
(* empty the pixels of one number are closed, and a chain cannot leave them; *)
(* and every pixel was reached by a chain from the first pixel of its line.  *)
EXTENDS EdgeLabel, FiniteSetTheorems, TLAPS

USE EdgeAssumption, RasterAssumption

-----------------------------------------------------------------------------
(* Neighbours and chains.                                                    *)

(* A pixel is a row and a column.                                            *)
LEMMA PixelParts ==
  ASSUME NEW p \in Pixels
  PROVE  p[1] \in Int /\ p[2] \in Int /\ p = <<p[1], p[2]>>
BY DEF Pixels

(* Both lists of eight directions reach every neighbour.                     *)
LEMMA EveryDirection ==
  ASSUME NEW p \in Pixels, NEW q \in Pixels, Near(p, q), p # q, NEW depth \in Nat
  PROVE  \E k \in 1 .. 8 : q = Call(depth, p, k)
<1>1. p[1] \in Int /\ p[2] \in Int /\ q[1] \in Int /\ q[2] \in Int
  BY PixelParts
<1>2. p = <<p[1], p[2]>> /\ q = <<q[1], q[2]>>
  BY PixelParts
<1> DEFINE y == q[1] - p[1]  x == q[2] - p[2]
<1>3. y \in {-1, 0, 1} /\ x \in {-1, 0, 1} /\ ~(y = 0 /\ x = 0)
  BY <1>1, <1>2 DEF Near
<1>4. q = <<p[1] + y, p[2] + x>>
  BY <1>1, <1>2
<1>5. \E k \in 1 .. 8 : Directions(depth)[k] = <<y, x>>
  <2>1. CASE depth = 1
    <3>1. \E k \in 1 .. 8 : Around[k] = <<y, x>>
      BY <1>3 DEF Around
    <3> QED BY <2>1, <3>1 DEF Directions
  <2>2. CASE depth # 1
    <3>1. \E k \in 1 .. 8 : Onward[k] = <<y, x>>
      BY <1>3 DEF Onward
    <3> QED BY <2>2, <3>1 DEF Directions
  <2> QED BY <2>1, <2>2
<1>6. PICK k \in 1 .. 8 : Directions(depth)[k] = <<y, x>>
  BY <1>5
<1>7. Call(depth, p, k) = <<p[1] + y, p[2] + x>>
  BY <1>6 DEF Call
<1> QED BY <1>4, <1>7

(* A call goes to a neighbour.                                               *)
LEMMA CallsNeighbour ==
  ASSUME NEW p \in Pixels, NEW depth \in Nat, NEW k \in 1 .. 8
  PROVE  Near(p, Call(depth, p, k)) /\ Near(Call(depth, p, k), p)
<1>1. p[1] \in Int /\ p[2] \in Int
  BY PixelParts
<1>2. Directions(depth)[k][1] \in -1 .. 1 /\ Directions(depth)[k][2] \in -1 .. 1
  BY DEF Directions, Around, Onward
<1> QED BY <1>1, <1>2 DEF Near, Call

LEMMA NearSymmetric ==
  ASSUME NEW p \in Pixels, NEW q \in Pixels, Near(p, q)
  PROVE  Near(q, p)
BY PixelParts DEF Near

(* q is in every closed set that p is in.                                    *)
Linked(p, q) == \A S \in ClosedSets(image) : p \in S => q \in S

LEMMA LinkedOnward ==
  ASSUME NEW p \in image, NEW q \in image, NEW r \in image,
         Linked(p, q), Near(q, r)
  PROVE  Linked(p, r)
BY DEF Linked, ClosedSets, Closed

(* Two pixels linked to the same one are linked to each other: what a closed *)
(* set leaves of the image is closed.                                        *)
LEMMA LinkedTogether ==
  ASSUME image \subseteq Pixels,
         NEW s \in image, NEW p \in image, NEW q \in image,
         Linked(s, p), Linked(s, q)
  PROVE  Linked(p, q)
<1> SUFFICES ASSUME NEW S \in ClosedSets(image), p \in S
             PROVE  q \in S
  BY DEF Linked
<1>1. S \subseteq image /\ Closed(S, image)
  BY DEF ClosedSets
<1>2. Closed(image \ S, image)
  <2> SUFFICES ASSUME NEW a \in image \ S, NEW b \in image, Near(a, b), b \in S
               PROVE  FALSE
    BY DEF Closed
  <2>1. Near(b, a)
    BY NearSymmetric
  <2> QED BY <1>1, <2>1 DEF Closed
<1>3. image \ S \in ClosedSets(image)
  BY <1>2 DEF ClosedSets
<1>4. s \in S
  BY <1>3 DEF Linked
<1> QED BY <1>4 DEF Linked

-----------------------------------------------------------------------------
(* Type correctness.                                                         *)

(* The cuts are numbers of columns.                                          *)
LEMMA CutsAreNumbers ==
  ASSUME NEW b \in Box
  PROVE  LeftCut(b) \in Nat /\ RightCut(b) \in Nat
<1> DEFINE left == b.sx + 1 .. Lower(b.sx + 3, b.ex)
           right == Higher(b.ex - 3, b.sx) .. b.ex - 1
           leftThin == {x \in left : \A c \in b.sx .. x : Thin(b, c)}
           rightThin == {x \in right : \A c \in x .. b.ex : Thin(b, c)}
<1>1. b.sx \in Int /\ b.ex \in Int
  BY DEF Box
<1>2. IsFiniteSet(left) /\ IsFiniteSet(right)
  <2>1. /\ b.sx + 1 \in Int /\ Lower(b.sx + 3, b.ex) \in Int
        /\ Higher(b.ex - 3, b.sx) \in Int /\ b.ex - 1 \in Int
    BY <1>1 DEF Lower, Higher
  <2> QED BY <2>1, FS_Interval
<1>3. leftThin \in SUBSET left /\ rightThin \in SUBSET right
  OBVIOUS
<1>4. IsFiniteSet(leftThin) /\ IsFiniteSet(rightThin)
  <2> HIDE DEF left, right, leftThin, rightThin
  <2> QED BY <1>2, <1>3, FS_Subset
<1>5. Cardinality(leftThin) \in Nat /\ Cardinality(rightThin) \in Nat
  <2> HIDE DEF leftThin, rightThin
  <2> QED BY <1>4, FS_CardinalityType
<1> QED BY <1>5 DEF LeftCut, RightCut

(* A box stays one with numbers put in its fields.                           *)
LEMMA BoxWith ==
  ASSUME NEW b \in Box, NEW u \in Int, NEW v \in Int, NEW w \in Int
  PROVE  /\ [b EXCEPT !.width = u, !.height = v, !.cx = w] \in Box
         /\ [b EXCEPT !.sx = u, !.width = v] \in Box
         /\ [b EXCEPT !.ex = u, !.width = v] \in Box
BY DEF Box

LEMMA BoxAt ==
  ASSUME NEW b \in Box, NEW u \in Int, NEW v \in Int, NEW w \in Int,
         NEW x \in Int, NEW y \in Int, NEW z \in Int
  PROVE  [b EXCEPT !.sx = u, !.ex = v, !.sy = w, !.ey = x, !.width = y,
                   !.height = z] \in Box
BY DEF Box

(* Every operation on a box makes a box.                                     *)
LEMMA BoxesStayBoxes ==
  ASSUME NEW b \in Box, NEW q \in Box
  PROVE  /\ \A p \in Pixels : Stretched(b, p) \in Box
         /\ AdjustBlob(Measured(b)) \in Box
         /\ Joined(b, q) \in Box /\ Emptied(b) \in Box
<1>1. \A p \in Pixels : Stretched(b, p) \in Box
  <2> TAKE p \in Pixels
  <2>1. p[1] \in Int /\ p[2] \in Int
    BY PixelParts
  <2> QED BY <2>1 DEF Stretched, Box, Lower, Higher
<1>2. \A c \in Box : CutLeft(c) \in Box /\ CutRight(c) \in Box
  <2> TAKE c \in Box
  <2>1. LeftCut(c) \in Nat /\ RightCut(c) \in Nat
    BY CutsAreNumbers
  <2>2. /\ c.sx + LeftCut(c) \in Int /\ c.width - LeftCut(c) \in Int
        /\ c.ex - RightCut(c) \in Int /\ c.width - RightCut(c) \in Int
    BY <2>1 DEF Box
  <2> QED BY <2>2, BoxWith DEF CutLeft, CutRight
<1>3. Measured(b) \in Box
  <2>1. /\ b.ex - b.sx + 1 \in Int /\ b.ey - b.sy + 1 \in Int
        /\ (b.ex + b.sx) \div 2 \in Int
    BY DEF Box
  <2> QED BY <2>1, BoxWith DEF Measured
<1>4. AdjustBlob(Measured(b)) \in Box
  BY <1>2, <1>3 DEF AdjustBlob
<1>5. Joined(b, q) \in Box
  <2> DEFINE sx == Lower(b.sx, q.sx)  ex == Higher(b.ex, q.ex)
             sy == Lower(b.sy, q.sy)  ey == Higher(b.ey, q.ey)
  <2>1. sx \in Int /\ ex \in Int /\ sy \in Int /\ ey \in Int
    BY DEF Box, Lower, Higher
  <2>2. Joined(b, q) = [b EXCEPT !.sx = sx, !.ex = ex, !.sy = sy, !.ey = ey,
                                 !.width = ex - sx + 1, !.height = ey - sy + 1]
    BY DEF Joined
  <2> HIDE DEF sx, ex, sy, ey
  <2>3. ex - sx + 1 \in Int /\ ey - sy + 1 \in Int
    BY <2>1
  <2>4. [b EXCEPT !.sx = sx, !.ex = ex, !.sy = sy, !.ey = ey,
                  !.width = ex - sx + 1, !.height = ey - sy + 1] \in Box
    <3> DEFINE w == ex - sx + 1  h == ey - sy + 1
    <3>1. w \in Int /\ h \in Int
      BY <2>3
    <3> HIDE DEF w, h
    <3>2. [b EXCEPT !.sx = sx, !.ex = ex, !.sy = sy, !.ey = ey,
                    !.width = w, !.height = h] \in Box
      BY <2>1, <3>1, BoxAt, Zenon
    <3> QED BY <3>2 DEF w, h
  <2> QED BY <2>2, <2>4
<1>6. Emptied(b) \in Box
  <2>1. 0 \in Int
    OBVIOUS
  <2> QED BY <2>1, BoxAt, Zenon DEF Emptied
<1> QED BY <1>1, <1>4, <1>5, <1>6

LEMMA NewBoxIsBox ==
  ASSUME NEW p \in Pixels, NEW k \in Nat
  PROVE  NewBox(p, k) \in Box
BY PixelParts DEF NewBox, Box

(* Frame, the stack's top and the pixel that it calls.                       *)
Frame == [at : Pixels, next : 1 .. 9]

LEMMA TopIsFrame ==
  ASSUME stack \in Seq(Frame), stack # << >>
  PROVE  Len(stack) \in Nat \ {0} /\ Top \in Frame
BY DEF Top

(* The scan, the recursion and the loops over the table keep to the image    *)
(* and to the table.                                                         *)
THEOREM LabelTypeCorrect == Spec => []LabelTypeOK
<1>1. Init => LabelTypeOK
  BY DEF Init, LabelTypeOK
<1>2. LabelTypeOK /\ [Next]_vars => LabelTypeOK'
  <2> SUFFICES ASSUME LabelTypeOK, [Next]_vars
               PROVE  LabelTypeOK'
    OBVIOUS
  <2>0. /\ Len(table) \in Nat /\ image \subseteq Pixels
        /\ stack \in Seq(Frame)
    BY DEF LabelTypeOK, Frame
  <2>00. Len(table) \in 0 .. MaxLines
    BY DEF LabelTypeOK
  <2>1. CASE PassPixel
    BY <2>1 DEF PassPixel, LabelTypeOK, Right, Scanning
  <2>2. CASE EndRow
    BY <2>2 DEF EndRow, LabelTypeOK, RowBelow, Scanning
  <2>3. CASE TableFull
    BY <2>3 DEF TableFull, LabelTypeOK, RowBelow, Scanning
  <2>4. CASE StartLine
    <3>1. cursor \in Pixels
      BY <2>0, <2>4 DEF StartLine, New
    <3>2. /\ table' \in Seq(Box) /\ Len(table') = Len(table) + 1
          /\ Len(table') <= MaxLines
      BY <2>0, <2>4, <3>1, NewBoxIsBox DEF StartLine, LabelTypeOK
    <3>3. flag' \in [Pixels -> 0 .. Len(table')]
      BY <2>0, <2>4, <3>1, <3>2 DEF StartLine, LabelTypeOK
    <3>4. cursor' \in (0 .. Rows) \X (0 .. Cols)
      BY <2>4 DEF StartLine, LabelTypeOK, Right, Scanning
    <3>5. stack' \in Seq([at : Pixels, next : 1 .. 9])
      BY <2>4, <3>1 DEF StartLine
    <3>6. table' # << >>
      BY <2>0, <3>2
    <3> QED BY <2>4, <3>2, <3>3, <3>4, <3>5, <3>6 DEF StartLine, LabelTypeOK
  <2>5. CASE Join
    <3>1. Target \in Pixels
      BY <2>0, <2>5 DEF Join, New
    <3>2. table' \in Seq(Box) /\ Len(table') = Len(table)
      <4>1. Len(table) \in 1 .. Len(table) /\ table[Len(table)] \in Box
        BY <2>0, <2>5 DEF Join, LabelTypeOK
      <4>2. Stretched(table[Len(table)], Target) \in Box
        BY <3>1, <4>1, BoxesStayBoxes
      <4> QED BY <2>0, <2>5, <4>1, <4>2 DEF Join, LabelTypeOK
    <3>3. flag' \in [Pixels -> 0 .. Len(table')]
      BY <2>0, <2>5, <3>1, <3>2 DEF Join, LabelTypeOK
    <3>4. stack' \in Seq([at : Pixels, next : 1 .. 9])
      <4> DEFINE s == [stack EXCEPT ![Len(stack)].next = @ + 1]
      <4>1. Top \in Frame /\ Len(stack) \in Nat \ {0} /\ Top.next <= 8
        BY <2>0, <2>5, TopIsFrame DEF Join
      <4>2. s \in Seq(Frame)
        BY <2>0, <4>1 DEF Frame, Top
      <4>3. [at |-> Target, next |-> 1] \in Frame
        BY <3>1 DEF Frame
      <4>4. stack' = Append(s, [at |-> Target, next |-> 1])
        BY <2>5 DEF Join
      <4> HIDE DEF s
      <4> QED BY <4>2, <4>3, <4>4 DEF Frame
    <3>5. table' # << >>
      BY <2>0, <2>5, <3>2 DEF Join, LabelTypeOK
    <3> QED BY <2>5, <3>2, <3>3, <3>4, <3>5 DEF Join, LabelTypeOK
  <2>6. CASE Refuse
    <3>1. Top \in Frame /\ Len(stack) \in Nat \ {0} /\ Top.next <= 8
      BY <2>0, <2>6, TopIsFrame DEF Refuse
    <3>2. stack' \in Seq(Frame)
      BY <2>0, <2>6, <3>1 DEF Refuse, Frame, Top
    <3> QED BY <2>6, <3>2 DEF Refuse, LabelTypeOK, Frame
  <2>7. CASE Return
    <3>1. Len(stack) \in Nat \ {0}
      BY <2>0, <2>7, TopIsFrame DEF Return
    <3>2. stack' \in Seq(Frame)
      BY <2>0, <2>7, <3>1 DEF Return
    <3> QED BY <2>7, <3>2 DEF Return, LabelTypeOK, Frame
  <2>8. CASE EndScan
    BY <2>8 DEF EndScan, LabelTypeOK
  <2>9. CASE Measure
    <3>1. table' \in Seq(Box) /\ Len(table') = Len(table)
      <4>1. index \in 1 .. Len(table) /\ table[index] \in Box
        BY <2>0, <2>9 DEF Measure, LabelTypeOK
      <4>2. AdjustBlob(Measured(table[index])) \in Box
        BY <4>1, BoxesStayBoxes
      <4> QED BY <2>0, <2>9, <4>1, <4>2 DEF Measure, LabelTypeOK
    <3> QED BY <2>9, <3>1 DEF Measure, LabelTypeOK
  <2>10. CASE EndMeasure
    BY <2>10 DEF EndMeasure, LabelTypeOK
  <2>11. CASE Merge
    <3>1. PICK j \in Partners(index) :
            table' = [table EXCEPT ![index] = Joined(@, table[j]), ![j] = Emptied(@)]
      BY <2>11 DEF Merge
    <3>2. j \in 1 .. Len(table)
      BY <2>0, <3>1 DEF Partners, LabelTypeOK
    <3>3. table' \in Seq(Box) /\ Len(table') = Len(table)
      <4>1. index \in 1 .. Len(table) /\ index # j
        BY <2>0, <2>11, <3>1 DEF Merge, LabelTypeOK, Partners
      <4>2. table[index] \in Box /\ table[j] \in Box
        BY <3>2, <4>1 DEF LabelTypeOK
      <4>3. Joined(table[index], table[j]) \in Box /\ Emptied(table[j]) \in Box
        BY <4>2, BoxesStayBoxes
      <4> QED BY <2>0, <3>1, <3>2, <4>1, <4>3 DEF LabelTypeOK
    <3> QED BY <2>11, <3>3 DEF Merge, LabelTypeOK
  <2>12. CASE MergeNone
    BY <2>12 DEF MergeNone, LabelTypeOK
  <2>13. CASE EndMerge
    BY <2>13 DEF EndMerge, LabelTypeOK
  <2>14. CASE UNCHANGED vars
    BY <2>14 DEF vars, LabelTypeOK
  <2> QED BY <2>1, <2>2, <2>3, <2>4, <2>5, <2>6, <2>7, <2>8, <2>9, <2>10, <2>11,
             <2>12, <2>13, <2>14 DEF Next
<1> QED BY <1>1, <1>2, PTL DEF Spec

-----------------------------------------------------------------------------
(* The invariant of the search.                                              *)

(* The first pixel of a line.                                                *)
Start(k) == <<table[k].by, table[k].bx>>

(* A frame for p has still to call q.                                        *)
Pending(p, q) ==
  \E d \in 1 .. Len(stack) :
    /\ stack[d].at = p
    /\ \E k \in stack[d].next .. 8 : q = Call(d, p, k)

SearchingLast == \A d \in 1 .. Len(stack) : flag[stack[d].at] = Len(table)
OnImage == \A p \in Pixels : flag[p] # 0 => p \in image
StartsNumbered ==
  \A k \in 1 .. Len(table) : Start(k) \in image /\ flag[Start(k)] = k
Reached == \A p \in image : flag[p] # 0 => Linked(Start(flag[p]), p)
Explored ==
  \A p, q \in image :
    flag[p] # 0 /\ Near(p, q) => flag[q] = flag[p] \/ Pending(p, q)

(* What is above or left of the cursor is numbered, unless the table is      *)
(* full; what is before the first pixel of a line has a smaller number.      *)
ScannedNumbered ==
  \A q \in image : Before(q, cursor) => flag[q] # 0 \/ Len(table) >= MaxLines
StartsFirst ==
  \A k \in 1 .. Len(table) : \A q \in image :
    Before(q, Start(k)) => flag[q] \in 1 .. k - 1

StackScans == stack # << >> => pc = "scan"

LinesInv ==
  /\ StackScans /\ SearchingLast /\ OnImage /\ StartsNumbered /\ Reached
  /\ Explored /\ ScannedNumbered /\ StartsFirst

(* No numbered pixel has a neighbour with another number.                    *)
LEMMA NumbersApart ==
  ASSUME LabelTypeOK, LinesInv, NEW p \in image, NEW q \in image, Near(p, q),
         flag[p] # 0, flag[q] # 0
  PROVE  flag[p] = flag[q]
<1>1. p \in Pixels /\ q \in Pixels
  BY DEF LabelTypeOK
<1>2. Near(q, p)
  BY <1>1, NearSymmetric
<1>3. flag[q] = flag[p] \/ flag[p] = Len(table)
  BY DEF LinesInv, Explored, Pending, SearchingLast
<1>4. flag[q] = flag[p] \/ flag[q] = Len(table)
  BY <1>2 DEF LinesInv, Explored, Pending, SearchingLast
<1> QED BY <1>3, <1>4

(* The cursor moves on by one pixel or to the next row.                      *)
LEMMA BeforeNext ==
  ASSUME cursor \in (0 .. Rows) \X (0 .. Cols), NEW q \in Pixels
  PROVE  /\ Before(q, Right(cursor)) => Before(q, cursor) \/ q = cursor
         /\ cursor[2] = Cols /\ Before(q, RowBelow(cursor)) => Before(q, cursor)
<1>1. q[1] \in Int /\ q[2] \in 0 .. Cols - 1 /\ q = <<q[1], q[2]>>
  BY DEF Pixels
<1>2. /\ cursor[1] \in Int /\ cursor[2] \in Int
      /\ cursor = <<cursor[1], cursor[2]>>
  OBVIOUS
<1> QED BY <1>1, <1>2 DEF Before, Right, RowBelow

(* A step that leaves image, numbers, table and stack alone and keeps what   *)
(* is said of the cursor.                                                    *)
LEMMA OnlyCursorMoves ==
  ASSUME LinesInv, UNCHANGED <<image, flag, table, stack>>,
         stack # << >> => pc' = "scan",
         ScannedNumbered'
  PROVE  LinesInv'
<1>1. StackScans' /\ SearchingLast' /\ OnImage' /\ StartsNumbered'
  BY DEF LinesInv, StackScans, SearchingLast, OnImage, StartsNumbered, Start
<1>2. Reached'
  BY DEF LinesInv, Reached, Linked, Start
<1>3. Explored' /\ StartsFirst'
  BY DEF LinesInv, Explored, Pending, StartsFirst, Start
<1> QED BY <1>1, <1>2, <1>3 DEF LinesInv

(* A step that changes only what the boxes measure, after the search.        *)
LEMMA OnlyBoxesChange ==
  ASSUME LabelTypeOK, LinesInv, UNCHANGED <<image, flag, cursor, stack>>,
         stack = << >>,
         Len(table') = Len(table),
         \A k \in 1 .. Len(table) : table'[k].bx = table[k].bx /\ table'[k].by = table[k].by
  PROVE  LinesInv'
<1>1. \A k \in 1 .. Len(table) : Start(k)' = Start(k)
  BY DEF Start
<1>2. \A p \in image : flag[p] # 0 => flag[p] \in 1 .. Len(table)
  BY DEF LabelTypeOK
<1>3. StackScans' /\ SearchingLast' /\ OnImage' /\ ScannedNumbered'
  BY DEF LinesInv, StackScans, SearchingLast, OnImage, ScannedNumbered
<1>4. StartsNumbered' /\ StartsFirst'
  BY <1>1 DEF LinesInv, StartsNumbered, StartsFirst
<1>5. Reached'
  <2> SUFFICES ASSUME NEW p \in image, NEW k, k = flag[p], k # 0
               PROVE  Linked(Start(k)', p)
    BY DEF Reached, Linked
  <2> QED BY <1>1, <1>2 DEF LinesInv, Reached
<1>6. Explored'
  BY DEF LinesInv, Explored, Pending
<1> QED BY <1>3, <1>4, <1>5, <1>6 DEF LinesInv

(* A new line begins at a pixel none of whose neighbours has a number.       *)
LEMMA StartLineKeeps ==
  ASSUME LabelTypeOK, LinesInv, StartLine
  PROVE  LinesInv'
<1>0. PICK n : n = Len(table) + 1
  OBVIOUS
<1>1. /\ stack = << >> /\ pc = "scan" /\ cursor \in image /\ flag[cursor] = 0
      /\ image \subseteq Pixels /\ cursor \in Pixels /\ Len(table) \in Nat
      /\ Len(table) < MaxLines /\ MaxLines \in Nat /\ n \in Nat
  BY <1>0 DEF StartLine, Scanning, New, LabelTypeOK
<1>2. /\ Len(table') = n /\ \A k \in 1 .. Len(table) : table'[k] = table[k]
      /\ table'[n] = NewBox(cursor, n)
  BY <1>0, <1>1 DEF StartLine, LabelTypeOK
<1>3. flag'[cursor] = n /\ \A p \in Pixels \ {cursor} : flag'[p] = flag[p]
  BY <1>0, <1>1 DEF StartLine, LabelTypeOK
<1>4. stack' = <<[at |-> cursor, next |-> 1]>>
  BY DEF StartLine
<1>5. \A p \in Pixels : flag[p] \in 0 .. Len(table)
  BY DEF LabelTypeOK
<1>6. image' = image /\ pc' = pc /\ cursor' = Right(cursor)
  BY DEF StartLine
<1>7. Start(n)' = cursor /\ \A k \in 1 .. Len(table) : Start(k)' = Start(k)
  <2>1. cursor = <<cursor[1], cursor[2]>>
    BY <1>1, PixelParts
  <2> QED BY <1>2, <2>1 DEF Start, NewBox
<1>8. \A k \in 1 .. Len(table) : Start(k) # cursor
  BY <1>1 DEF LinesInv, StartsNumbered
<1>9. StackScans' /\ SearchingLast' /\ OnImage'
  BY <1>1, <1>2, <1>3, <1>4, <1>6 DEF LinesInv, StackScans, SearchingLast, OnImage
<1>10. StartsNumbered'
  <2> SUFFICES ASSUME NEW k \in 1 .. n
               PROVE  Start(k)' \in image /\ flag'[Start(k)'] = k
    BY <1>2, <1>6 DEF StartsNumbered
  <2>1. CASE k = n
    BY <1>1, <1>3, <1>7, <2>1
  <2>2. CASE k \in 1 .. Len(table)
    BY <1>1, <1>3, <1>7, <1>8, <2>2 DEF LinesInv, StartsNumbered
  <2> QED BY <1>0, <1>1, <2>1, <2>2
<1>11. Reached'
  <2> SUFFICES ASSUME NEW p \in image, NEW k, k = flag'[p], k # 0
               PROVE  Linked(Start(k)', p)
    BY <1>6 DEF Reached, Linked
  <2>1. CASE p = cursor
    BY <1>3, <1>7, <2>1 DEF Linked
  <2>2. CASE p # cursor
    <3>1. k = flag[p] /\ k \in 1 .. Len(table)
      BY <1>1, <1>3, <1>5, <2>2
    <3>2. Linked(Start(k), p)
      BY <3>1 DEF LinesInv, Reached
    <3> QED BY <1>7, <3>1, <3>2
  <2> QED BY <2>1, <2>2
<1>12. Explored'
  <2> SUFFICES ASSUME NEW p \in image, NEW q \in image, flag'[p] # 0, Near(p, q)
               PROVE  flag'[q] = flag'[p] \/ Pending(p, q)'
    BY <1>6 DEF Explored
  <2>1. CASE p = cursor /\ q = cursor
    BY <2>1
  <2>2. CASE p = cursor /\ q # cursor
    <3>1. PICK k \in 1 .. 8 : q = Call(1, p, k)
      BY <1>1, <2>2, EveryDirection
    <3> QED BY <1>4, <2>2, <3>1 DEF Pending
  <2>3. CASE p # cursor
    <3>1. flag[q] = flag[p] /\ flag[p] # 0
      BY <1>1, <1>3, <2>3 DEF LinesInv, Explored, Pending
    <3>2. q # cursor
      BY <1>1, <3>1
    <3> QED BY <1>1, <1>3, <2>3, <3>1, <3>2
  <2> QED BY <2>1, <2>2, <2>3
<1>13. ScannedNumbered'
  <2> SUFFICES ASSUME NEW q \in image, Before(q, Right(cursor))
               PROVE  flag'[q] # 0
    BY <1>6 DEF ScannedNumbered
  <2>1. Before(q, cursor) \/ q = cursor
    BY <1>1, BeforeNext DEF LabelTypeOK
  <2>2. CASE q = cursor
    BY <1>0, <1>1, <1>3, <2>2
  <2>3. CASE q # cursor
    <3>1. flag[q] # 0
      BY <1>1, <2>1, <2>3 DEF LinesInv, ScannedNumbered
    <3> QED BY <1>1, <1>3, <2>3, <3>1
  <2> QED BY <2>2, <2>3
<1>14. StartsFirst'
  <2> SUFFICES ASSUME NEW k \in 1 .. n, NEW q \in image, Before(q, Start(k)')
               PROVE  flag'[q] \in 1 .. k - 1
    BY <1>2, <1>6 DEF StartsFirst
  <2>1. CASE k = n
    <3>1. Before(q, cursor)
      BY <1>7, <2>1
    <3>2. q # cursor
      BY <1>1, <3>1, PixelParts DEF Before
    <3>3. flag[q] # 0
      BY <1>1, <3>1 DEF LinesInv, ScannedNumbered
    <3>4. flag'[q] = flag[q] /\ flag[q] \in 0 .. Len(table)
      BY <1>1, <1>3, <1>5, <3>2
    <3> QED BY <1>0, <1>1, <2>1, <3>3, <3>4
  <2>2. CASE k \in 1 .. Len(table)
    <3>1. flag[q] \in 1 .. k - 1
      BY <1>7, <2>2 DEF LinesInv, StartsFirst
    <3>2. q # cursor
      BY <1>1, <3>1
    <3> QED BY <1>1, <1>3, <3>1, <3>2
  <2> QED BY <1>0, <1>1, <2>1, <2>2
<1> QED BY <1>9, <1>10, <1>11, <1>12, <1>13, <1>14 DEF LinesInv

(* The top frame calls the pixel it adds to its line: a neighbour of a pixel *)
(* with the line's number, and no other frame had it to call with another.   *)
LEMMA JoinKeeps ==
  ASSUME LabelTypeOK, LinesInv, Join
  PROVE  LinesInv'
<1>0. PICK n, m, t : n = Len(table) /\ m = Len(stack) /\ t = Target
  OBVIOUS
<1>1. /\ image \subseteq Pixels /\ t \in image /\ flag[t] = 0 /\ t \in Pixels
      /\ n \in Nat \ {0} /\ m \in Nat \ {0} /\ stack \in Seq(Frame)
      /\ stack[m] \in Frame /\ stack[m].next \in 1 .. 8
      /\ stack[m].at \in Pixels
  <2>1. stack \in Seq(Frame) /\ stack # << >> /\ Top.next <= 8
    BY DEF LabelTypeOK, Join, Frame
  <2>2. Len(stack) \in Nat \ {0} /\ Top \in Frame
    BY <2>1, TopIsFrame
  <2>3. Top.next \in 1 .. 8 /\ Top.at \in Pixels
    BY <2>1, <2>2 DEF Frame
  <2> QED BY <1>0, <2>1, <2>2, <2>3 DEF LabelTypeOK, Join, New, Top
<1>2. /\ Len(table') = n /\ n = Len(table)
      /\ \A k \in 1 .. n : table'[k].bx = table[k].bx /\ table'[k].by = table[k].by
  <2>1. table \in Seq(Box) /\ table[n] \in Box
    BY <1>0, <1>1 DEF LabelTypeOK
  <2> DEFINE b == Stretched(table[n], t)
  <2>2. b.bx = table[n].bx /\ b.by = table[n].by
    BY <2>1 DEF Stretched, Box
  <2>3. table' = [table EXCEPT ![n] = b]
    BY <1>0 DEF Join
  <2> HIDE DEF b
  <2>4. Len(table') = n /\ table'[n] = b /\ \A k \in 1 .. n - 1 : table'[k] = table[k]
    BY <1>0, <1>1, <2>1, <2>3
  <2> QED BY <1>0, <1>1, <2>2, <2>4
<1>3. flag'[t] = n /\ \A p \in Pixels \ {t} : flag'[p] = flag[p]
  BY <1>0, <1>1 DEF Join, LabelTypeOK
<1>4. /\ Len(stack') = m + 1 /\ m = Len(stack)
      /\ stack'[m + 1] = [at |-> t, next |-> 1]
      /\ \A d \in 1 .. m : stack'[d].at = stack[d].at
      /\ \A d \in 1 .. m - 1 : stack'[d].next = stack[d].next
      /\ stack'[m].next = stack[m].next + 1
  <2> DEFINE s == [stack EXCEPT ![m].next = @ + 1]
  <2>1. stack' = Append(s, [at |-> t, next |-> 1])
    BY <1>0 DEF Join
  <2>2. /\ s \in Seq(Frame) /\ Len(s) = m
        /\ \A d \in 1 .. m : s[d].at = stack[d].at
        /\ \A d \in 1 .. m - 1 : s[d].next = stack[d].next
        /\ s[m].next = stack[m].next + 1
    BY <1>0, <1>1 DEF Frame
  <2> HIDE DEF s
  <2> QED BY <1>0, <1>1, <2>1, <2>2
<1>5. image' = image /\ pc' = pc /\ cursor' = cursor
  BY DEF Join
<1>6. \A k \in 1 .. n : Start(k)' = Start(k)
  BY <1>2 DEF Start
<1>7. flag[stack[m].at] = n /\ stack[m].at \in image
  BY <1>0, <1>1 DEF LinesInv, SearchingLast, OnImage
<1>8. \A k \in 1 .. n : Start(k) \in image /\ flag[Start(k)] = k /\ Start(k) # t
  BY <1>0, <1>1 DEF LinesInv, StartsNumbered
<1>9. \A p \in Pixels : flag[p] \in 0 .. n
  BY <1>0 DEF LabelTypeOK
<1>10. Near(stack[m].at, t)
  BY <1>0, <1>1, CallsNeighbour DEF Target, Top
<1>11. StackScans' /\ OnImage' /\ StartsNumbered'
  <2>1. StackScans'
    BY <1>5 DEF LinesInv, StackScans, Join
  <2>2. OnImage'
    BY <1>1, <1>3, <1>5 DEF LinesInv, OnImage
  <2>3. StartsNumbered'
    BY <1>1, <1>2, <1>3, <1>5, <1>6, <1>8 DEF StartsNumbered
  <2> QED BY <2>1, <2>2, <2>3
<1>12. SearchingLast'
  <2> SUFFICES ASSUME NEW d \in 1 .. m + 1
               PROVE  flag'[stack'[d].at] = n
    BY <1>2, <1>4 DEF SearchingLast
  <2>1. CASE d = m + 1
    BY <1>3, <1>4, <2>1
  <2>2. CASE d \in 1 .. m
    <3>1. stack[d] \in Frame
      BY <1>1, <1>4, <2>2
    <3>2. stack[d].at \in Pixels
      BY <3>1 DEF Frame
    <3>3. flag[stack[d].at] = n
      BY <1>2, <1>4, <2>2 DEF LinesInv, SearchingLast
    <3> QED BY <1>1, <1>3, <1>4, <2>2, <3>2, <3>3
  <2> QED BY <1>1, <2>1, <2>2
<1>13. Reached'
  <2> SUFFICES ASSUME NEW p \in image, NEW k, k = flag'[p], k # 0
               PROVE  Linked(Start(k)', p)
    BY <1>5 DEF Reached, Linked
  <2>1. CASE p = t
    <3>1. Linked(Start(n), stack[m].at)
      BY <1>1, <1>7 DEF LinesInv, Reached
    <3>2. Start(n) \in image
      BY <1>1, <1>8
    <3>3. Linked(Start(n), t)
      BY <1>1, <1>7, <1>10, <3>1, <3>2, LinkedOnward
    <3> QED BY <1>1, <1>3, <1>6, <2>1, <3>3
  <2>2. CASE p # t
    <3>1. k = flag[p] /\ k \in 1 .. n
      BY <1>1, <1>3, <1>9, <2>2
    <3>2. Linked(Start(k), p)
      BY <3>1 DEF LinesInv, Reached
    <3> QED BY <1>6, <3>1, <3>2
  <2> QED BY <2>1, <2>2
<1>14. Explored'
  <2> SUFFICES ASSUME NEW p \in image, NEW q \in image, flag'[p] # 0, Near(p, q),
                      flag'[q] # flag'[p]
               PROVE  \E d \in 1 .. m + 1 :
                        /\ stack'[d].at = p
                        /\ \E k \in stack'[d].next .. 8 : q = Call(d, p, k)
    BY <1>4, <1>5 DEF Explored, Pending
  <2>1. CASE p = t
    <3>1. PICK k \in 1 .. 8 : q = Call(m + 1, p, k)
      BY <1>1, <2>1, EveryDirection
    <3> QED BY <1>1, <1>4, <2>1, <3>1
  <2>2. CASE p # t
    <3>1. flag'[p] = flag[p] /\ flag[p] # 0
      BY <1>1, <1>3, <2>2
    <3>2. flag[q] # flag[p]
      BY <1>1, <1>3, <3>1
    <3>3. Pending(p, q)
      BY <3>1, <3>2 DEF LinesInv, Explored
    <3>4. PICK d \in 1 .. m : /\ stack[d].at = p
                              /\ \E k \in stack[d].next .. 8 : q = Call(d, p, k)
      BY <1>4, <3>3 DEF Pending
    <3>5. PICK k \in stack[d].next .. 8 : q = Call(d, p, k)
      BY <3>4
    <3>6. CASE d < m
      <4>1. stack'[d].at = p /\ stack'[d].next = stack[d].next
        BY <1>1, <1>4, <3>4, <3>6
      <4> QED BY <1>1, <3>5, <4>1
    <3>7. CASE d = m /\ k = stack[m].next
      <4>1. q = t
        BY <1>0, <3>4, <3>5, <3>7 DEF Target, Top
      <4> QED BY <1>3, <1>7, <3>1, <3>4, <3>7, <4>1
    <3>8. CASE d = m /\ k # stack[m].next
      <4>1. k \in stack'[m].next .. 8
        BY <1>1, <1>4, <3>5, <3>8
      <4>2. stack'[m].at = p
        BY <1>1, <1>4, <3>4, <3>8
      <4> QED BY <1>1, <3>5, <3>8, <4>1, <4>2
    <3> QED BY <1>1, <3>6, <3>7, <3>8
  <2> QED BY <2>1, <2>2
<1>15. ScannedNumbered'
  <2> SUFFICES ASSUME NEW q \in image, Before(q, cursor), ~(n >= MaxLines)
               PROVE  flag'[q] # 0
    BY <1>2, <1>5 DEF ScannedNumbered
  <2>1. flag[q] # 0
    BY <1>2 DEF LinesInv, ScannedNumbered
  <2> QED BY <1>1, <1>3, <2>1
<1>16. StartsFirst'
  <2> SUFFICES ASSUME NEW k \in 1 .. n, NEW q \in image, Before(q, Start(k))
               PROVE  flag'[q] \in 1 .. k - 1
    BY <1>2, <1>5, <1>6 DEF StartsFirst
  <2>1. flag[q] \in 1 .. k - 1
    BY <1>2 DEF LinesInv, StartsFirst
  <2> QED BY <1>1, <1>3, <2>1
<1> QED BY <1>11, <1>12, <1>13, <1>14, <1>15, <1>16 DEF LinesInv

(* What the top frame need not add has the line's number already.            *)
LEMMA RefuseKeeps ==
  ASSUME LabelTypeOK, LinesInv, Refuse
  PROVE  LinesInv'
<1>0. PICK m : m = Len(stack)
  OBVIOUS
<1>1. /\ image \subseteq Pixels /\ m \in Nat \ {0} /\ stack \in Seq(Frame)
      /\ stack[m] \in Frame /\ stack[m].next \in 1 .. 8
      /\ stack[m].at \in Pixels
  <2>1. stack \in Seq(Frame) /\ stack # << >> /\ Top.next <= 8
    BY DEF LabelTypeOK, Refuse, Frame
  <2>2. Len(stack) \in Nat \ {0} /\ Top \in Frame
    BY <2>1, TopIsFrame
  <2>3. Top.next \in 1 .. 8 /\ Top.at \in Pixels
    BY <2>1, <2>2 DEF Frame
  <2> QED BY <1>0, <2>1, <2>2, <2>3 DEF LabelTypeOK, Top
<1>2. /\ Len(stack') = m /\ m = Len(stack)
      /\ \A d \in 1 .. m : stack'[d].at = stack[d].at
      /\ \A d \in 1 .. m - 1 : stack'[d].next = stack[d].next
      /\ stack'[m].next = stack[m].next + 1
  BY <1>0, <1>1 DEF Refuse, Frame
<1>3. UNCHANGED <<image, flag, table, cursor, pc>>
  BY DEF Refuse
<1>4. /\ OnImage' /\ StartsNumbered' /\ ScannedNumbered' /\ StartsFirst'
  BY <1>3 DEF LinesInv, OnImage, StartsNumbered, Start, ScannedNumbered, StartsFirst
<1>5. StackScans' /\ SearchingLast'
  BY <1>2, <1>3 DEF LinesInv, StackScans, SearchingLast, Refuse
<1>6. Reached'
  BY <1>3 DEF LinesInv, Reached, Start, Linked
<1>7. Explored'
  <2> SUFFICES ASSUME NEW p \in image, NEW q \in image, flag[p] # 0, Near(p, q),
                      flag[q] # flag[p]
               PROVE  \E d \in 1 .. m :
                        /\ stack'[d].at = p
                        /\ \E k \in stack'[d].next .. 8 : q = Call(d, p, k)
    BY <1>2, <1>3 DEF Explored, Pending
  <2>1. Pending(p, q)
    BY DEF LinesInv, Explored
  <2>2. PICK d \in 1 .. m : /\ stack[d].at = p
                            /\ \E k \in stack[d].next .. 8 : q = Call(d, p, k)
    BY <1>2, <2>1 DEF Pending
  <2>3. PICK k \in stack[d].next .. 8 : q = Call(d, p, k)
    BY <2>2
  <2>4. CASE d < m
    <3>1. stack'[d].at = p /\ stack'[d].next = stack[d].next
      BY <1>1, <1>2, <2>2, <2>4
    <3> QED BY <1>1, <2>3, <3>1
  <2>5. CASE d = m /\ k = stack[m].next
    <3>1. q = Target
      BY <1>0, <2>2, <2>3, <2>5 DEF Target, Top
    <3>2. flag[q] # 0
      BY <3>1 DEF Refuse, New
    <3>3. flag[q] = flag[p]
      BY <3>2, NumbersApart
    <3> QED BY <3>3
  <2>6. CASE d = m /\ k # stack[m].next
    <3>1. k \in stack'[m].next .. 8
      BY <1>1, <1>2, <2>3, <2>6
    <3>2. stack'[m].at = p
      BY <1>1, <1>2, <2>2, <2>6
    <3> QED BY <1>1, <2>3, <2>6, <3>1, <3>2
  <2> QED BY <1>1, <2>4, <2>5, <2>6
<1> QED BY <1>4, <1>5, <1>6, <1>7 DEF LinesInv

(* A frame that returns has nothing left to call.                            *)
LEMMA ReturnKeeps ==
  ASSUME LabelTypeOK, LinesInv, Return
  PROVE  LinesInv'
<1>0. PICK m : m = Len(stack)
  OBVIOUS
<1>1. /\ m \in Nat \ {0} /\ stack \in Seq(Frame)
      /\ stack[m] \in Frame /\ stack[m].next = 9
  <2>1. stack \in Seq(Frame) /\ stack # << >> /\ Top.next > 8
    BY DEF LabelTypeOK, Return, Frame
  <2>2. Len(stack) \in Nat \ {0} /\ Top \in Frame
    BY <2>1, TopIsFrame
  <2>3. Top.next = 9
    BY <2>1, <2>2 DEF Frame
  <2> QED BY <1>0, <2>1, <2>2, <2>3 DEF Top
<1>2. /\ Len(stack') = m - 1 /\ m = Len(stack)
      /\ \A d \in 1 .. m - 1 : stack'[d] = stack[d]
  BY <1>0, <1>1 DEF Return
<1>3. UNCHANGED <<image, flag, table, cursor, pc>>
  BY DEF Return
<1>4. /\ OnImage' /\ StartsNumbered' /\ ScannedNumbered' /\ StartsFirst'
  BY <1>3 DEF LinesInv, OnImage, StartsNumbered, Start, ScannedNumbered, StartsFirst
<1>5. StackScans' /\ SearchingLast'
  BY <1>1, <1>2, <1>3 DEF LinesInv, StackScans, SearchingLast, Return
<1>6. Reached'
  BY <1>3 DEF LinesInv, Reached, Start, Linked
<1>7. Explored'
  <2> SUFFICES ASSUME NEW p \in image, NEW q \in image, flag[p] # 0, Near(p, q),
                      flag[q] # flag[p]
               PROVE  \E d \in 1 .. m - 1 :
                        /\ stack'[d].at = p
                        /\ \E k \in stack'[d].next .. 8 : q = Call(d, p, k)
    BY <1>2, <1>3 DEF Explored, Pending
  <2>1. Pending(p, q)
    BY DEF LinesInv, Explored
  <2>2. PICK d \in 1 .. m : /\ stack[d].at = p
                            /\ \E k \in stack[d].next .. 8 : q = Call(d, p, k)
    BY <1>2, <2>1 DEF Pending
  <2>3. d # m
    BY <1>1, <2>2
  <2> QED BY <1>1, <1>2, <2>2, <2>3
<1> QED BY <1>4, <1>5, <1>6, <1>7 DEF LinesInv

(* Measuring and trimming leave a line's first pixel alone.                  *)
LEMMA TrimmedStart ==
  ASSUME NEW b \in Box
  PROVE  LET a == AdjustBlob(Measured(b)) IN a.bx = b.bx /\ a.by = b.by
<1>1. \A c \in Box : LeftCut(c) \in Nat /\ RightCut(c) \in Nat
  BY CutsAreNumbers
<1>2. \A c \in Box : /\ CutLeft(c) \in Box /\ CutLeft(c).bx = c.bx /\ CutLeft(c).by = c.by
                     /\ CutRight(c).bx = c.bx /\ CutRight(c).by = c.by
  <2> TAKE c \in Box
  <2>1. /\ c.sx + LeftCut(c) \in Int /\ c.width - LeftCut(c) \in Int
    BY <1>1 DEF Box
  <2>2. CutLeft(c) \in Box
    BY <2>1, BoxWith DEF CutLeft
  <2> QED BY <2>2 DEF CutLeft, CutRight, Box
<1>3. Measured(b) \in Box /\ Measured(b).bx = b.bx /\ Measured(b).by = b.by
  <2>1. /\ b.ex - b.sx + 1 \in Int /\ b.ey - b.sy + 1 \in Int
        /\ (b.ex + b.sx) \div 2 \in Int
    BY DEF Box
  <2>2. Measured(b) \in Box
    BY <2>1, BoxWith DEF Measured
  <2> QED BY <2>2 DEF Measured, Box
<1> QED BY <1>2, <1>3 DEF AdjustBlob

(* Every step of the scan, the search and the work on the boxes keeps what a *)
(* numbered pixel has explored and where a line begins.                      *)
THEOREM LinesInvariance == Spec => []LinesInv
<1>1. Init => LinesInv
  <2> SUFFICES ASSUME Init PROVE LinesInv
    OBVIOUS
  <2>1. image \subseteq Pixels /\ flag = [p \in Pixels |-> 0] /\ Len(table) = 0
    BY DEF Init
  <2>2. \A q \in image : ~Before(q, cursor)
    BY <2>1 DEF Init, Before, Pixels
  <2> QED BY <2>1, <2>2 DEF Init, LinesInv, StackScans, SearchingLast, OnImage,
             StartsNumbered, Reached, Explored, ScannedNumbered, StartsFirst
<1>2. LabelTypeOK /\ LabelTypeOK' /\ LinesInv /\ [Next]_vars => LinesInv'
  <2> SUFFICES ASSUME LabelTypeOK, LabelTypeOK', LinesInv, [Next]_vars
               PROVE  LinesInv'
    OBVIOUS
  <2>0. image \subseteq Pixels /\ cursor \in (0 .. Rows) \X (0 .. Cols)
    BY DEF LabelTypeOK
  <2>1. CASE PassPixel
    <3>1. \A q \in image : Before(q, Right(cursor)) => Before(q, cursor) \/ q = cursor
      BY <2>0, BeforeNext
    <3>2. ScannedNumbered'
      BY <2>1, <3>1 DEF PassPixel, New, LinesInv, ScannedNumbered
    <3> QED BY <2>1, <3>2, OnlyCursorMoves DEF PassPixel, Scanning
  <2>2. CASE EndRow
    <3>1. \A q \in image : Before(q, RowBelow(cursor)) => Before(q, cursor)
      BY <2>0, <2>2, BeforeNext DEF EndRow
    <3>2. ScannedNumbered'
      BY <2>2, <3>1 DEF EndRow, LinesInv, ScannedNumbered
    <3> QED BY <2>2, <3>2, OnlyCursorMoves DEF EndRow, Scanning
  <2>3. CASE TableFull
    <3>1. ScannedNumbered'
      BY <2>3 DEF TableFull, ScannedNumbered
    <3> QED BY <2>3, <3>1, OnlyCursorMoves DEF TableFull, Scanning
  <2>4. CASE StartLine
    BY <2>4, StartLineKeeps
  <2>5. CASE Join
    BY <2>5, JoinKeeps
  <2>6. CASE Refuse
    BY <2>6, RefuseKeeps
  <2>7. CASE Return
    BY <2>7, ReturnKeeps
  <2>8. CASE EndScan
    <3>1. ScannedNumbered'
      BY <2>8 DEF EndScan, LinesInv, ScannedNumbered
    <3> QED BY <2>8, <3>1, OnlyCursorMoves DEF EndScan
  <2>9. CASE Measure \/ EndMeasure \/ Merge \/ MergeNone \/ EndMerge
    <3>0. pc # "scan"
      BY <2>9 DEF Measure, EndMeasure, Merge, MergeNone, EndMerge
    <3>1. stack = << >> /\ table \in Seq(Box) /\ index \in Nat
      BY <3>0 DEF LinesInv, StackScans, LabelTypeOK
    <3>2. UNCHANGED <<image, flag, cursor, stack>>
      BY <2>9 DEF Measure, EndMeasure, Merge, MergeNone, EndMerge
    <3>3. CASE Measure
      <4> DEFINE b == AdjustBlob(Measured(table[index]))
      <4>1. table[index] \in Box /\ index \in 1 .. Len(table)
        BY <3>1, <3>3 DEF Measure, LabelTypeOK
      <4>2. b.bx = table[index].bx /\ b.by = table[index].by
        BY <4>1, TrimmedStart
      <4>3. table' = [table EXCEPT ![index] = b]
        BY <3>3 DEF Measure
      <4> HIDE DEF b
      <4>4. /\ Len(table') = Len(table)
            /\ \A k \in 1 .. Len(table) :
                 table'[k].bx = table[k].bx /\ table'[k].by = table[k].by
        BY <3>1, <4>1, <4>2, <4>3
      <4> QED BY <3>1, <3>2, <4>4, OnlyBoxesChange
    <3>4. CASE Merge
      <4>1. PICK j \in Partners(index) :
              table' = [table EXCEPT ![index] = Joined(@, table[j]), ![j] = Emptied(@)]
        BY <3>4 DEF Merge
      <4>2. j \in 1 .. Len(table) /\ index \in 1 .. Len(table) /\ index # j
        BY <3>1, <3>4, <4>1 DEF Partners, Merge, LabelTypeOK
      <4>3. table[index] \in Box /\ table[j] \in Box
        BY <3>1, <4>2
      <4> DEFINE b == Joined(table[index], table[j])  e == Emptied(table[j])
      <4>4. /\ b.bx = table[index].bx /\ b.by = table[index].by
            /\ e.bx = table[j].bx /\ e.by = table[j].by
        BY <4>3 DEF Joined, Emptied, Box
      <4>5. table' = [table EXCEPT ![index] = b, ![j] = e]
        BY <4>1
      <4> HIDE DEF b, e
      <4>6. /\ Len(table') = Len(table)
            /\ \A k \in 1 .. Len(table) :
                 table'[k].bx = table[k].bx /\ table'[k].by = table[k].by
        BY <3>1, <4>2, <4>4, <4>5
      <4> QED BY <3>1, <3>2, <4>6, OnlyBoxesChange
    <3>5. CASE EndMeasure \/ MergeNone \/ EndMerge
      <4>1. table' = table
        BY <3>5 DEF EndMeasure, MergeNone, EndMerge
      <4> QED BY <3>1, <3>2, <4>1, OnlyBoxesChange
    <3> QED BY <2>9, <3>3, <3>4, <3>5
  <2>10. CASE UNCHANGED vars
    <3>1. ScannedNumbered'
      BY <2>10 DEF vars, LinesInv, ScannedNumbered
    <3> QED BY <2>10, <3>1, OnlyCursorMoves DEF vars, LinesInv, StackScans
  <2> QED BY <2>1, <2>2, <2>3, <2>4, <2>5, <2>6, <2>7, <2>8, <2>9, <2>10 DEF Next
<1> QED BY <1>1, <1>2, LabelTypeCorrect, PTL DEF Spec

-----------------------------------------------------------------------------
(* What LabelEdges returns.                                                  *)

(* With no search under way the pixels of one number are closed.             *)
LEMMA BlobsClosed ==
  ASSUME LinesInv, stack = << >>, NEW k, k # 0
  PROVE  Blob(k) \in ClosedSets(image)
BY DEF LinesInv, Explored, Pending, Blob, ClosedSets, Closed

(* Two pixels have one number exactly when a chain of neighbours joins them, *)
(* in every image and wherever the table's limit cut the scan off.           *)
THEOREM LabelsCorrect == Spec => []LabelsAreComponents
<1>1. LabelTypeOK /\ LinesInv => LabelsAreComponents
  <2> SUFFICES ASSUME LabelTypeOK, LinesInv, pc = "done",
                      NEW p \in image, NEW q \in image, flag[p] # 0, flag[q] # 0
               PROVE  flag[p] = flag[q] <=> Linked(p, q)
    BY DEF LabelsAreComponents, Linked
  <2>1. stack = << >> /\ image \subseteq Pixels
    BY DEF LinesInv, StackScans, LabelTypeOK
  <2>2. ASSUME flag[p] = flag[q]
        PROVE  Linked(p, q)
    <3>1. Linked(Start(flag[p]), p) /\ Linked(Start(flag[p]), q)
      BY <2>2 DEF LinesInv, Reached
    <3>2. Start(flag[p]) \in image
      <4>1. flag[p] \in 1 .. Len(table)
        BY <2>1 DEF LabelTypeOK
      <4> QED BY <4>1 DEF LinesInv, StartsNumbered
    <3> QED BY <2>1, <3>1, <3>2, LinkedTogether
  <2>3. ASSUME Linked(p, q)
        PROVE  flag[p] = flag[q]
    <3>1. Blob(flag[p]) \in ClosedSets(image)
      BY <2>1, BlobsClosed
    <3>2. q \in Blob(flag[p])
      BY <2>3, <3>1 DEF Linked, Blob
    <3> QED BY <3>2 DEF Blob
  <2> QED BY <2>2, <2>3
<1> QED BY <1>1, LabelTypeCorrect, LinesInvariance, PTL

(* The pieces stay as they are while no search ends.                         *)
LEMMA SameLines ==
  ASSUME image' = image, Finished' = Finished,
         \A k \in 1 .. Finished : Blob(k)' = Blob(k)
  PROVE  Lines' = Lines
BY DEF Lines

LEMMA FinishedIsNat ==
  ASSUME LabelTypeOK
  PROVE  Finished \in Nat /\ Finished <= Len(table)
<1>1. table \in Seq(Box) /\ Len(table) \in Nat
  BY DEF LabelTypeOK
<1>2. stack # << >> => Len(table) # 0
  BY <1>1 DEF LabelTypeOK
<1> QED BY <1>1, <1>2 DEF Finished

(* The search of a line ends when its first frame returns: then the line is  *)
(* the piece of the first pixel that no earlier line has.                    *)
LEMMA LineEnds ==
  ASSUME LabelTypeOK, LinesInv, LinesInv', Return, Len(stack) = 1
  PROVE  L!Number
<1>0. PICK n : n = Len(table)
  OBVIOUS
<1>1. /\ image \subseteq Pixels /\ n \in Nat \ {0} /\ n <= MaxLines
      /\ MaxLines \in Nat
      /\ flag \in [Pixels -> 0 .. n] /\ stack # << >> /\ stack' = << >>
  <2>1. stack # << >> /\ stack' = << >>
    BY DEF Return, LabelTypeOK
  <2> QED BY <1>0, <2>1, FinishedIsNat DEF LabelTypeOK, Finished
<1>2. UNCHANGED <<image, flag, table>>
  BY DEF Return
<1>3. Finished = n - 1 /\ Finished' = n
  BY <1>0, <1>1, <1>2 DEF Finished
<1>4. /\ Lines = [k \in 1 .. n - 1 |-> Blob(k)]
      /\ Lines' = [k \in 1 .. n |-> Blob(k)]
  BY <1>2, <1>3 DEF Lines, Blob
<1>5. Lines' = Append(Lines, Blob(n)) /\ Len(Lines) = n - 1 /\ Len(Lines') = n
  BY <1>1, <1>4
<1>6. L!Numbered = {r \in image : flag[r] \in 1 .. n - 1}
  <2>0. \A k \in 1 .. n - 1 : Lines[k] = Blob(k)
    BY <1>4
  <2>1. L!Numbered = UNION {Blob(k) : k \in 1 .. n - 1}
    <3>1. L!Numbered = UNION {Lines[k] : k \in 1 .. n - 1}
      BY <1>5 DEF L!Numbered
    <3>2. {Lines[k] : k \in 1 .. n - 1} = {Blob(k) : k \in 1 .. n - 1}
      BY <2>0
    <3> QED BY <3>1, <3>2
  <2> QED BY <2>1 DEF Blob
<1> DEFINE p == Start(n)
<1>7. p \in image /\ flag[p] = n /\ \A q \in image : Before(q, p) => flag[q] \in 1 .. n - 1
  BY <1>0, <1>1 DEF LinesInv, StartsNumbered, StartsFirst
<1>8. p \in image \ L!Numbered
  BY <1>1, <1>6, <1>7
<1>9. \A q \in image \ L!Numbered : ~L!Before(q, p)
  BY <1>6, <1>7 DEF L!Before, Before
<1>10. L!ClosedSets(image) = ClosedSets(image)
  BY DEF L!ClosedSets, ClosedSets, L!Closed, Closed, L!Near, Near
<1>11. L!Component(p, image) = Blob(n)
  <2>1. L!Component(p, image) = {q \in image : Linked(p, q)}
    BY <1>10 DEF L!Component, Linked
  <2>2. \A q \in Blob(n) : Linked(p, q)
    BY <1>1 DEF LinesInv, Reached, Blob
  <2>3. Blob(n) \in ClosedSets(image)
    <3>1. \A a, b \in image : flag[a] # 0 /\ Near(a, b) => flag[b] = flag[a]
      BY <1>1, <1>2 DEF LinesInv, Explored, Pending
    <3> QED BY <1>1, <3>1 DEF Blob, ClosedSets, Closed
  <2>4. \A q \in image : Linked(p, q) => q \in Blob(n)
    BY <1>7, <2>3 DEF Linked, Blob
  <2> QED BY <2>1, <2>2, <2>4 DEF Blob
<1>12. Lines' = Append(Lines, L!Component(p, image))
  BY <1>5, <1>11
<1>13. Lines' # Lines /\ Len(Lines) < MaxLines
  BY <1>1, <1>5
<1> HIDE DEF p
<1> QED BY <1>2, <1>8, <1>9, <1>12, <1>13 DEF L!Number

(* LabelEdges implements the numbering of whole pieces in reading order: the *)
(* return of a line's first call is the abstract step, all others stutter.   *)
THEOREM LabelEdgesImplementsLabelling == Spec => ImplementsLabelling
<1>1. Init => L!Init
  BY DEF Init, L!Init, Lines, Finished
<1>2. /\ LabelTypeOK /\ LabelTypeOK' /\ LinesInv /\ LinesInv' /\ [Next]_vars
      => [L!Number]_<<image, Lines>>
  <2> SUFFICES ASSUME LabelTypeOK, LabelTypeOK', LinesInv, LinesInv', [Next]_vars
               PROVE  L!Number \/ (image' = image /\ Lines' = Lines)
    OBVIOUS
  <2>0. /\ image \subseteq Pixels /\ Len(table) \in Nat
        /\ table \in Seq(Box) /\ stack \in Seq(Frame)
        /\ flag \in [Pixels -> 0 .. Len(table)]
        /\ Finished \in Nat /\ Finished <= Len(table)
    <3>1. Finished \in Nat /\ Finished <= Len(table)
      BY FinishedIsNat
    <3>2. image \in SUBSET Pixels /\ table \in Seq(Box)
          /\ flag \in [Pixels -> 0 .. Len(table)]
      BY DEF LabelTypeOK
    <3>3. stack \in Seq(Frame)
      BY DEF LabelTypeOK, Frame
    <3>4. image \subseteq Pixels /\ Len(table) \in Nat
      BY <3>2
    <3> QED BY <3>1, <3>2, <3>3, <3>4
  <2>1. CASE StartLine
    <3>1. Finished' = Finished /\ Finished = Len(table) /\ image' = image
      BY <2>0, <2>1 DEF StartLine, Scanning, Finished
    <3>2. \A k \in 1 .. Finished : Blob(k)' = Blob(k)
      <4> TAKE k \in 1 .. Finished
      <4>1. cursor \in Pixels /\ flag[cursor] = 0
        BY <2>0, <2>1 DEF StartLine, New
      <4>2. \A r \in Pixels : flag'[r] = k <=> flag[r] = k
        BY <2>0, <2>1, <3>1, <4>1 DEF StartLine
      <4> QED BY <2>0, <3>1, <4>2 DEF Blob
    <3> QED BY <3>1, <3>2, SameLines
  <2>2. CASE Join
    <3>1. image' = image /\ Finished = Len(table) - 1 /\ Finished' = Finished
      <4>1. stack' # << >>
        BY <2>0, <2>2 DEF Join
      <4>2. Len(table') = Len(table)
        BY <2>0, <2>2 DEF Join
      <4> QED BY <2>2, <4>1, <4>2 DEF Join, Finished
    <3>2. \A k \in 1 .. Finished : Blob(k)' = Blob(k)
      <4> TAKE k \in 1 .. Finished
      <4>1. Target \in Pixels /\ flag[Target] = 0
        BY <2>0, <2>2 DEF Join, New
      <4>2. \A r \in Pixels : flag'[r] = k <=> flag[r] = k
        BY <2>0, <2>2, <3>1, <4>1 DEF Join
      <4> QED BY <2>0, <3>1, <4>2 DEF Blob
    <3> QED BY <3>1, <3>2, SameLines
  <2>3. CASE Return
    <3>1. CASE Len(stack) = 1
      BY <2>3, <3>1, LineEnds
    <3>2. CASE Len(stack) # 1
      <4>1. stack # << >> /\ stack' # << >>
        <5>1. stack # << >> /\ Len(stack) \in Nat \ {0}
          BY <2>0, <2>3, TopIsFrame DEF Return
        <5>2. PICK m : m = Len(stack)
          OBVIOUS
        <5>3. Len(stack') = m - 1 /\ m # 1
          BY <2>0, <2>3, <3>2, <5>1, <5>2 DEF Return
        <5> QED BY <5>1, <5>2, <5>3
      <4>2. image' = image /\ flag' = flag /\ Finished' = Finished
        BY <2>3, <4>1 DEF Return, Finished
      <4> QED BY <4>2, SameLines DEF Blob
    <3> QED BY <3>1, <3>2
  <2>4. CASE Refuse
    <3>1. stack' # << >> /\ stack # << >>
      <4>1. Len(stack') = Len(stack) /\ Len(stack) # 0
        BY <2>0, <2>4 DEF Refuse
      <4> QED BY <4>1
    <3>2. image' = image /\ flag' = flag /\ Finished' = Finished
      BY <2>4, <3>1 DEF Refuse, Finished
    <3> QED BY <3>2, SameLines DEF Blob
  <2>5. CASE PassPixel \/ EndRow \/ TableFull \/ EndScan \/ EndMeasure
             \/ MergeNone \/ EndMerge \/ UNCHANGED vars
    <3>1. UNCHANGED <<image, flag, table, stack>>
      BY <2>5 DEF PassPixel, EndRow, TableFull, EndScan, EndMeasure, MergeNone,
                  EndMerge, vars
    <3> QED BY <3>1, SameLines DEF Blob, Finished
  <2>6. CASE Measure \/ Merge
    <3>1. UNCHANGED <<image, flag, stack>>
      BY <2>6 DEF Measure, Merge
    <3>2. Len(table') = Len(table)
      <4>1. CASE Measure
        BY <2>0, <4>1 DEF Measure
      <4>2. CASE Merge
        <5>1. PICK j \in Partners(index) :
                table' = [table EXCEPT ![index] = Joined(@, table[j]), ![j] = Emptied(@)]
          BY <4>2 DEF Merge
        <5> QED BY <2>0, <5>1
      <4> QED BY <2>6, <4>1, <4>2
    <3> QED BY <3>1, <3>2, SameLines DEF Blob, Finished
  <2> QED BY <2>1, <2>2, <2>3, <2>4, <2>5, <2>6 DEF Next
<1> QED BY <1>1, <1>2, LabelTypeCorrect, LinesInvariance, PTL
     DEF Spec, ImplementsLabelling, L!Spec

-----------------------------------------------------------------------------
(* The boxes while the image is labelled.                                    *)

(* The box b bounds the pixels S, and its sides and corners are of S.        *)
Bounds(b, S) ==
  /\ \A p \in S : p[1] \in b.sy .. b.ey /\ p[2] \in b.sx .. b.ex
  /\ \E p \in S : p[2] = b.sx
  /\ \E p \in S : p[2] = b.ex
  /\ <<b.sy, b.sy_x>> \in S /\ <<b.ey, b.ey_x>> \in S

LEMMA NewBoxBounds ==
  ASSUME NEW p \in Pixels, NEW k
  PROVE  Bounds(NewBox(p, k), {p})
BY PixelParts DEF Bounds, NewBox

(* A box that bounds a line bounds it with one more pixel after Stretched.   *)
LEMMA StretchedBounds ==
  ASSUME NEW b \in Box, NEW S \in SUBSET Pixels, Bounds(b, S), NEW t \in Pixels
  PROVE  Bounds(Stretched(b, t), S \cup {t})
<1> DEFINE c == Stretched(b, t)
<1>1. /\ t[1] \in Int /\ t[2] \in Int /\ t = <<t[1], t[2]>>
      /\ b.sx \in Int /\ b.ex \in Int /\ b.sy \in Int /\ b.ey \in Int
  BY PixelParts DEF Box
<1>2. /\ c.sy = Lower(b.sy, t[1]) /\ c.ey = Higher(b.ey, t[1])
      /\ c.sx = Lower(b.sx, t[2]) /\ c.ex = Higher(b.ex, t[2])
      /\ c.sy_x = (IF t[1] < b.sy THEN t[2] ELSE b.sy_x)
      /\ c.ey_x = (IF t[1] > b.ey THEN t[2] ELSE b.ey_x)
  BY DEF Stretched, Box
<1> HIDE DEF c
<1>3. \A p \in S \cup {t} : p[1] \in c.sy .. c.ey /\ p[2] \in c.sx .. c.ex
  <2> TAKE p \in S \cup {t}
  <2>1. CASE p = t
    <3>1. \E q \in S : q[1] \in b.sy .. b.ey /\ q[2] \in b.sx .. b.ex
      BY DEF Bounds
    <3>2. b.sy <= b.ey /\ b.sx <= b.ex
      BY <1>1, <3>1
    <3> QED BY <1>1, <1>2, <2>1, <3>2 DEF Lower, Higher
  <2>2. CASE p \in S
    <3>1. p[1] \in b.sy .. b.ey /\ p[2] \in b.sx .. b.ex
      BY <2>2 DEF Bounds
    <3> QED BY <1>1, <1>2, <3>1 DEF Lower, Higher
  <2> QED BY <2>1, <2>2
<1>4. (\E p \in S \cup {t} : p[2] = c.sx) /\ (\E p \in S \cup {t} : p[2] = c.ex)
  BY <1>2 DEF Bounds, Lower, Higher
<1>5. <<c.sy, c.sy_x>> \in S \cup {t} /\ <<c.ey, c.ey_x>> \in S \cup {t}
  <2>1. <<c.sy, c.sy_x>> = (IF t[1] < b.sy THEN t ELSE <<b.sy, b.sy_x>>)
    BY <1>1, <1>2 DEF Lower
  <2>2. <<c.ey, c.ey_x>> = (IF t[1] > b.ey THEN t ELSE <<b.ey, b.ey_x>>)
    BY <1>1, <1>2 DEF Higher
  <2> QED BY <2>1, <2>2 DEF Bounds
<1> QED BY <1>3, <1>4, <1>5 DEF Bounds, c

(* The boxes that are not measured yet bound their lines.                    *)
Unmeasured(k) == pc = "scan" \/ (pc = "measure" /\ k >= index)
Tight == \A k \in 1 .. Len(table) : Unmeasured(k) => Bounds(table[k], Blob(k))

(* Until it is measured a box is the bounding box of what its line has so    *)
(* far, for every image and whatever the directions' order.                  *)
THEOREM BoxesAreTight == Spec => []BoxIsTight
<1> USE DEF Tight, Unmeasured
<1>1. Init => Tight
  BY DEF Init
<1>2. LabelTypeOK /\ LinesInv /\ Tight /\ [Next]_vars => Tight'
  <2> SUFFICES ASSUME LabelTypeOK, LinesInv, Tight, [Next]_vars
               PROVE  Tight'
    OBVIOUS
  <2>0. /\ table \in Seq(Box) /\ Len(table) \in Nat /\ image \subseteq Pixels
        /\ index \in Nat
    BY DEF LabelTypeOK
  <2>1. CASE StartLine
    <3>1. PICK n : n = Len(table) + 1
      OBVIOUS
    <3>2. /\ cursor \in image /\ cursor \in Pixels /\ pc = "scan" /\ image' = image
      BY <2>0, <2>1 DEF StartLine, Scanning, New
    <3>3. /\ flag'[cursor] = n /\ flag[cursor] = 0
          /\ \A p \in Pixels \ {cursor} : flag'[p] = flag[p]
      BY <2>1, <3>1, <3>2 DEF StartLine, New, LabelTypeOK
    <3>4. /\ Len(table') = n /\ table'[n] = NewBox(cursor, n)
          /\ \A k \in 1 .. Len(table) : table'[k] = table[k]
      BY <2>0, <2>1, <3>1 DEF StartLine
    <3>5. Blob(n)' = {cursor}
      <4>1. \A p \in image : flag[p] # n
        BY <2>0, <3>1 DEF LabelTypeOK
      <4> QED BY <2>0, <3>2, <3>3, <4>1 DEF Blob
    <3>6. \A k \in 1 .. Len(table) : Blob(k)' = Blob(k)
      <4>1. \A k \in 1 .. Len(table) : k # n /\ k # 0
        BY <2>0, <3>1
      <4> QED BY <2>0, <3>2, <3>3, <4>1 DEF Blob
    <3>7. Bounds(NewBox(cursor, n), {cursor})
      BY <3>2, NewBoxBounds
    <3>8. \A k \in 1 .. n : k = n \/ k \in 1 .. Len(table)
      BY <2>0, <3>1
    <3>9. \A k \in 1 .. n : Bounds(table'[k], Blob(k)')
      BY <3>2, <3>4, <3>5, <3>6, <3>7, <3>8
    <3> QED BY <3>4, <3>9 DEF Bounds, Blob
  <2>2. CASE Join
    <3>1. PICK n, t : n = Len(table) /\ t = Target
      OBVIOUS
    <3>2. /\ t \in image /\ t \in Pixels /\ pc = "scan" /\ image' = image /\ n \in 1 .. Len(table)
      BY <2>0, <2>2, <3>1 DEF Join, New, LinesInv, StackScans, LabelTypeOK
    <3>3. /\ flag'[t] = n /\ flag[t] = 0
          /\ \A p \in Pixels \ {t} : flag'[p] = flag[p]
      BY <2>2, <3>1, <3>2 DEF Join, New, LabelTypeOK
    <3>4. table[n] \in Box
      BY <2>0, <3>2
    <3>5. /\ Len(table') = n /\ table'[n] = Stretched(table[n], t)
          /\ \A k \in 1 .. n - 1 : table'[k] = table[k]
      <4> DEFINE b == Stretched(table[n], t)
      <4>1. table' = [table EXCEPT ![n] = b]
        BY <2>2, <3>1 DEF Join
      <4> HIDE DEF b
      <4>2. Len(table') = n /\ table'[n] = b /\ \A k \in 1 .. n - 1 : table'[k] = table[k]
        BY <2>0, <3>1, <3>2, <4>1
      <4> QED BY <4>2 DEF b
    <3>6. Blob(n)' = Blob(n) \cup {t}
      BY <2>0, <3>2, <3>3 DEF Blob
    <3>7. \A k \in 1 .. n - 1 : Blob(k)' = Blob(k)
      <4>1. \A k \in 1 .. n - 1 : k # n /\ k # 0
        BY <3>2
      <4> QED BY <2>0, <3>2, <3>3, <4>1 DEF Blob
    <3>8. Bounds(table'[n], Blob(n)')
      <4>1. Bounds(table[n], Blob(n)) /\ Blob(n) \in SUBSET Pixels
        BY <2>0, <3>2 DEF Blob
      <4>2. Bounds(Stretched(table[n], t), Blob(n) \cup {t})
        BY <3>2, <3>4, <4>1, StretchedBounds
      <4> QED BY <3>5, <3>6, <4>2
    <3>9. \A k \in 1 .. n : Bounds(table'[k], Blob(k)')
      <4> TAKE k \in 1 .. n
      <4>1. CASE k \in 1 .. n - 1
        BY <3>1, <3>2, <3>5, <3>7, <4>1
      <4> QED BY <3>2, <3>8, <4>1
    <3> QED BY <3>5, <3>9 DEF Bounds, Blob
  <2>3. CASE Measure
    <3>1. /\ pc = "measure" /\ pc' = pc /\ image' = image /\ flag' = flag
          /\ index' = index + 1 /\ Len(table') = Len(table)
          /\ \A k \in 1 .. Len(table) : k # index => table'[k] = table[k]
      BY <2>0, <2>3 DEF Measure
    <3> QED BY <2>0, <3>1 DEF Bounds, Blob
  <2>4. CASE EndScan
    BY <2>4 DEF EndScan, Bounds, Blob
  <2>5. CASE EndMeasure \/ Merge \/ MergeNone \/ EndMerge
    BY <2>5 DEF EndMeasure, Merge, MergeNone, EndMerge
  <2>6. CASE PassPixel \/ EndRow \/ TableFull \/ Refuse \/ Return \/ UNCHANGED vars
    BY <2>6 DEF PassPixel, EndRow, TableFull, Refuse, Return, vars, Bounds, Blob
  <2> QED BY <2>1, <2>2, <2>3, <2>4, <2>5, <2>6 DEF Next
<1>3. Tight => BoxIsTight
  BY DEF BoxIsTight, Bounds
<1> QED BY <1>1, <1>2, <1>3, LabelTypeCorrect, LinesInvariance, PTL DEF Spec

-----------------------------------------------------------------------------
(* The boxes after trimming and merging.                                     *)

(* The box has the width, the height and, but for the trimmed columns, the   *)
(* centre it says.                                                           *)
Shaped(b) ==
  /\ b.width = b.ex - b.sx + 1 /\ b.height = b.ey - b.sy + 1
  /\ b.cx \in b.sx - 2 .. b.ex + 1

Covers(b, p) == p[1] \in b.sy .. b.ey /\ p[2] \in b.sx - 3 .. b.ex + 3

(* At most three columns are cut off, and never the last one.                *)
LEMMA CutsAreSmall ==
  ASSUME NEW b \in Box, b.sx <= b.ex
  PROVE  /\ LeftCut(b) \in Nat /\ LeftCut(b) <= 3 /\ LeftCut(b) <= b.ex - b.sx
         /\ RightCut(b) \in Nat /\ RightCut(b) <= 3 /\ RightCut(b) <= b.ex - b.sx
<1> DEFINE left == b.sx + 1 .. Lower(b.sx + 3, b.ex)
           right == Higher(b.ex - 3, b.sx) .. b.ex - 1
           leftThin == {x \in left : \A c \in b.sx .. x : Thin(b, c)}
           rightThin == {x \in right : \A c \in x .. b.ex : Thin(b, c)}
<1>1. b.sx \in Int /\ b.ex \in Int
  BY DEF Box
<1>2. /\ IsFiniteSet(left) /\ Cardinality(left) <= 3 /\ Cardinality(left) <= b.ex - b.sx
      /\ Cardinality(left) \in Nat
  <2>1. PICK u : u = Lower(b.sx + 3, b.ex)
    OBVIOUS
  <2>2. u \in Int /\ u <= b.sx + 3 /\ u <= b.ex /\ b.sx <= u
    BY <1>1, <2>1 DEF Lower
  <2>3. /\ IsFiniteSet(b.sx + 1 .. u)
        /\ Cardinality(b.sx + 1 .. u) = IF b.sx + 1 > u THEN 0 ELSE u - (b.sx + 1) + 1
    <3>1. b.sx + 1 \in Int
      BY <1>1
    <3> QED BY <2>2, <3>1, FS_Interval
  <2> QED BY <1>1, <2>1, <2>2, <2>3
<1>3. /\ IsFiniteSet(right) /\ Cardinality(right) <= 3 /\ Cardinality(right) <= b.ex - b.sx
      /\ Cardinality(right) \in Nat
  <2>1. PICK u : u = Higher(b.ex - 3, b.sx)
    OBVIOUS
  <2>2. u \in Int /\ u >= b.ex - 3 /\ u >= b.sx /\ u <= b.ex
    BY <1>1, <2>1 DEF Higher
  <2>3. /\ IsFiniteSet(u .. b.ex - 1)
        /\ Cardinality(u .. b.ex - 1) = IF u > b.ex - 1 THEN 0 ELSE b.ex - 1 - u + 1
    <3>1. b.ex - 1 \in Int
      BY <1>1
    <3> QED BY <2>2, <3>1, FS_Interval
  <2> QED BY <1>1, <2>1, <2>2, <2>3
<1>4. leftThin \in SUBSET left /\ rightThin \in SUBSET right
  OBVIOUS
<1>5. Cardinality(leftThin) <= Cardinality(left) /\ Cardinality(rightThin) <= Cardinality(right)
  <2> HIDE DEF left, right, leftThin, rightThin
  <2> QED BY <1>2, <1>3, <1>4, FS_Subset
<1>6. LeftCut(b) = Cardinality(leftThin) /\ RightCut(b) = Cardinality(rightThin)
  BY DEF LeftCut, RightCut
<1>7. LeftCut(b) \in Nat /\ RightCut(b) \in Nat
  BY CutsAreNumbers
<1> HIDE DEF left, right, leftThin, rightThin
<1> QED BY <1>1, <1>2, <1>3, <1>5, <1>6, <1>7

(* A box that is measured and trimmed covers what it bounded.                *)
LEMMA TrimmedCovers ==
  ASSUME NEW b \in Box, NEW S \in SUBSET Pixels, Bounds(b, S)
  PROVE  LET a == AdjustBlob(Measured(b))
         IN  a.width > 0 /\ Shaped(a) /\ \A p \in S : Covers(a, p)
<1>1. /\ b.sx \in Int /\ b.ex \in Int /\ b.sy \in Int /\ b.ey \in Int
      /\ b.sx <= b.ex /\ b.sy <= b.ey
  <2>1. /\ b.sx \in Int /\ b.ex \in Int /\ b.sy \in Int /\ b.ey \in Int
    BY DEF Box
  <2>2. \E q \in S : q[1] \in b.sy .. b.ey /\ q[2] \in b.sx .. b.ex
    BY DEF Bounds
  <2> QED BY <2>1, <2>2
<1> DEFINE m == Measured(b)
           c == CutLeft(m)
           d == CutRight(c)
<1>2. /\ m \in Box /\ m.sx = b.sx /\ m.ex = b.ex /\ m.sy = b.sy /\ m.ey = b.ey
      /\ m.width = b.ex - b.sx + 1 /\ m.height = b.ey - b.sy + 1
      /\ m.cx = (b.ex + b.sx) \div 2
  <2>1. /\ b.ex - b.sx + 1 \in Int /\ b.ey - b.sy + 1 \in Int
        /\ (b.ex + b.sx) \div 2 \in Int
    BY <1>1
  <2>2. m \in Box
    BY <2>1, BoxWith DEF Measured
  <2> QED BY <2>2 DEF Measured, Box
<1>3. m.cx \in Int /\ 2 * m.cx <= b.ex + b.sx /\ b.ex + b.sx <= 2 * m.cx + 1
  BY <1>1, <1>2
<1> HIDE DEF m
<1>4. PICK l : /\ l = LeftCut(m) /\ l \in Nat /\ l <= 3 /\ l <= b.ex - b.sx
  BY <1>1, <1>2, CutsAreSmall
<1>5. /\ c \in Box /\ c.sx = b.sx + l /\ c.ex = b.ex /\ c.sy = b.sy /\ c.ey = b.ey
      /\ c.width = b.ex - b.sx + 1 - l /\ c.height = m.height /\ c.cx = m.cx
  <2>1. PICK u, v : u = m.sx + l /\ v = m.width - l
    OBVIOUS
  <2>2. u \in Int /\ v \in Int
    BY <1>1, <1>2, <1>4, <2>1
  <2>3. c = [m EXCEPT !.sx = u, !.width = v]
    BY <1>4, <2>1 DEF CutLeft
  <2> HIDE DEF c
  <2>4. /\ c \in Box /\ c.sx = u /\ c.ex = m.ex /\ c.sy = m.sy /\ c.ey = m.ey
        /\ c.width = v /\ c.height = m.height /\ c.cx = m.cx
    <3>1. m \in Box
      BY <1>2
    <3> QED BY <2>2, <2>3, <3>1 DEF Box
  <2> QED BY <1>1, <1>2, <1>4, <2>1, <2>2, <2>4
<1> HIDE DEF c
<1>6. PICK r : /\ r = RightCut(c) /\ r \in Nat /\ r <= 3 /\ r <= b.ex - (b.sx + l)
  <2>1. c.sx <= c.ex
    BY <1>1, <1>4, <1>5
  <2> QED BY <1>5, <2>1, CutsAreSmall
<1>7. /\ d.sx = b.sx + l /\ d.ex = b.ex - r /\ d.sy = b.sy /\ d.ey = b.ey
      /\ d.width = b.ex - b.sx + 1 - l - r /\ d.height = m.height /\ d.cx = m.cx
  <2>1. PICK u, v : u = c.ex - r /\ v = c.width - r
    OBVIOUS
  <2>2. u \in Int /\ v \in Int
    BY <1>1, <1>4, <1>5, <1>6, <2>1
  <2>3. d = [c EXCEPT !.ex = u, !.width = v]
    BY <1>6, <2>1 DEF CutRight
  <2> HIDE DEF d
  <2>4. /\ d.sx = c.sx /\ d.ex = u /\ d.sy = c.sy /\ d.ey = c.ey
        /\ d.width = v /\ d.height = c.height /\ d.cx = c.cx
    <3>1. c \in Box
      BY <1>5
    <3> QED BY <2>2, <2>3, <3>1 DEF Box
  <2> QED BY <1>1, <1>4, <1>5, <1>6, <2>1, <2>2, <2>4
<1> HIDE DEF d
<1>8. AdjustBlob(m) = m \/ AdjustBlob(m) = d
  BY DEF AdjustBlob, c, d
<1>9. \A p \in S : /\ p[1] \in b.sy .. b.ey /\ p[2] \in b.sx .. b.ex
                    /\ p[1] \in Int /\ p[2] \in Int
  BY PixelParts DEF Bounds
<1>10. m.width > 0 /\ Shaped(m) /\ \A p \in S : Covers(m, p)
  BY <1>1, <1>2, <1>3, <1>9 DEF Shaped, Covers
<1>11. d.width > 0 /\ Shaped(d) /\ \A p \in S : Covers(d, p)
  <2>1. d.width > 0 /\ \A p \in S : Covers(d, p)
    BY <1>1, <1>4, <1>6, <1>7, <1>9 DEF Covers
  <2>2. d.cx \in d.sx - 2 .. d.ex + 1
    BY <1>1, <1>3, <1>4, <1>6, <1>7
  <2>3. Shaped(d)
    BY <1>1, <1>2, <1>4, <1>6, <1>7, <2>2 DEF Shaped
  <2> QED BY <2>1, <2>3
<1> QED BY <1>8, <1>10, <1>11 DEF m

(* While the boxes are measured those before index cover their lines;        *)
(* afterwards every numbered pixel is covered by a live box.                 *)
MeasuredCover ==
  pc = "measure" =>
    \A k \in 1 .. Len(table) : k < index =>
      Live(k) /\ Shaped(table[k]) /\ \A p \in Blob(k) : Covers(table[k], p)
LiveShaped == \A k \in 1 .. Len(table) : Live(k) => Shaped(table[k])
LiveCover ==
  \A p \in image : flag[p] # 0 =>
    \E k \in 1 .. Len(table) : Live(k) /\ Covers(table[k], p)
CoverInv ==
  /\ pc = "scan" => index = 1
  /\ MeasuredCover
  /\ pc \in {"merge", "done"} => LiveShaped /\ LiveCover

(* A merge keeps every pixel covered: the box that takes another in covers   *)
(* what either covered.                                                      *)
LEMMA MergeKeeps ==
  ASSUME LabelTypeOK, LiveShaped, LiveCover, Merge
  PROVE  LiveShaped' /\ LiveCover'
<1>1. /\ table \in Seq(Box) /\ Len(table) \in Nat /\ index \in Nat \ {0}
      /\ image \subseteq Pixels /\ UNCHANGED <<image, flag>>
  BY DEF LabelTypeOK, Merge
<1>2. PICK j \in Partners(index) :
        table' = [table EXCEPT ![index] = Joined(@, table[j]), ![j] = Emptied(@)]
  BY DEF Merge
<1>3. PICK i : i = index
  OBVIOUS
<1>4. /\ i \in 1 .. Len(table) /\ j \in 1 .. Len(table) /\ i # j
      /\ table[i].width \in 3 .. 50
  BY <1>1, <1>2, <1>3 DEF Partners, Merge
<1>5. PICK a, c : a = table[i] /\ c = table[j]
  OBVIOUS
<1>6. /\ a \in Box /\ c \in Box
  BY <1>1, <1>4, <1>5
<1>7. PICK b, e : b = Joined(a, c) /\ e = Emptied(c)
  OBVIOUS
<1>8. /\ Len(table') = Len(table) /\ table'[i] = b /\ table'[j] = e
      /\ \A k \in 1 .. Len(table) : k # i /\ k # j => table'[k] = table[k]
  <2>1. table' = [table EXCEPT ![i] = b, ![j] = e]
    BY <1>2, <1>3, <1>4, <1>5, <1>7
  <2> QED BY <1>1, <1>4, <2>1
<1>9. /\ a.sx \in Int /\ a.ex \in Int /\ a.sy \in Int /\ a.ey \in Int /\ a.cx \in Int
      /\ c.sx \in Int /\ c.ex \in Int /\ c.sy \in Int /\ c.ey \in Int
  BY <1>6 DEF Box
<1>10. /\ b.sx = Lower(a.sx, c.sx) /\ b.ex = Higher(a.ex, c.ex)
       /\ b.sy = Lower(a.sy, c.sy) /\ b.ey = Higher(a.ey, c.ey)
       /\ b.width = Higher(a.ex, c.ex) - Lower(a.sx, c.sx) + 1
       /\ b.height = Higher(a.ey, c.ey) - Lower(a.sy, c.sy) + 1
       /\ b.cx = a.cx
  BY <1>6, <1>7 DEF Joined, Box
<1>11. e.width = 0
  BY <1>6, <1>7 DEF Emptied, Box
<1>12. Shaped(a) /\ a.sx <= a.ex
  <2>1. a.width \in Int /\ a.width \in 3 .. 50
    BY <1>4, <1>5, <1>6 DEF Box
  <2>2. a.width > 0
    BY <2>1
  <2>3. Shaped(a)
    <3>1. table[i].width > 0 => Shaped(table[i])
      BY <1>4 DEF LiveShaped, Live
    <3> QED BY <1>5, <2>2, <3>1
  <2>4. a.width = a.ex - a.sx + 1
    BY <2>3 DEF Shaped
  <2> QED BY <1>9, <2>2, <2>3, <2>4
<1>13. b.width > 0 /\ Shaped(b)
  BY <1>9, <1>10, <1>12 DEF Shaped, Lower, Higher
<1>14. ASSUME NEW p \in Pixels, Covers(a, p) \/ Covers(c, p)
       PROVE  Covers(b, p)
  <2>1. p[1] \in Int /\ p[2] \in Int
    BY PixelParts
  <2> QED BY <1>9, <1>10, <1>14, <2>1 DEF Covers, Lower, Higher
<1>15. LiveShaped'
  <2> SUFFICES ASSUME NEW k \in 1 .. Len(table), table'[k].width > 0
               PROVE  Shaped(table'[k])
    BY <1>8 DEF LiveShaped, Live, Shaped
  <2>1. k # j
    BY <1>8, <1>11
  <2>2. CASE k = i
    BY <1>8, <1>13, <2>2
  <2>3. CASE k # i
    BY <1>8, <2>1, <2>3 DEF LiveShaped, Live
  <2> QED BY <2>2, <2>3
<1>16. LiveCover'
  <2> SUFFICES ASSUME NEW p \in image, flag[p] # 0
               PROVE  \E k \in 1 .. Len(table) : table'[k].width > 0 /\ Covers(table'[k], p)
    BY <1>1, <1>8 DEF LiveCover, Live, Covers
  <2>1. PICK k \in 1 .. Len(table) : table[k].width > 0 /\ Covers(table[k], p)
    BY DEF LiveCover, Live
  <2>2. CASE k = i \/ k = j
    <3>1. Covers(b, p)
      BY <1>1, <1>5, <1>14, <2>1, <2>2
    <3> QED BY <1>4, <1>8, <1>13, <3>1
  <2>3. CASE k # i /\ k # j
    BY <1>8, <2>1, <2>3
  <2> QED BY <2>2, <2>3
<1> QED BY <1>15, <1>16

(* No pixel is lost by trimming and merging, although the centres are stale  *)
(* and emptied boxes can be merged again.                                    *)
THEOREM PixelsStayCovered == Spec => []PixelsCovered
<1>1. Init => CoverInv
  BY DEF Init, CoverInv, MeasuredCover
<1>2. LabelTypeOK /\ LabelTypeOK' /\ LinesInv /\ BoxIsTight /\ CoverInv /\ [Next]_vars
        => CoverInv'
  <2> SUFFICES ASSUME LabelTypeOK, LabelTypeOK', LinesInv, BoxIsTight, CoverInv, [Next]_vars
               PROVE  CoverInv'
    OBVIOUS
  <2>0. /\ table \in Seq(Box) /\ Len(table) \in Nat /\ index \in Nat \ {0}
        /\ image \subseteq Pixels /\ Tight
        /\ \A p \in image : flag[p] \in 0 .. Len(table)
    <3>1. /\ table \in Seq(Box) /\ index \in Nat \ {0} /\ image \subseteq Pixels
          /\ flag \in [Pixels -> 0 .. Len(table)]
      BY DEF LabelTypeOK
    <3>2. Len(table) \in Nat
      BY <3>1
    <3>3. Tight
      BY DEF BoxIsTight, Tight, Unmeasured, Bounds
    <3>4. \A p \in image : flag[p] \in 0 .. Len(table)
      BY <3>1
    <3> QED BY <3>1, <3>2, <3>3, <3>4
  <2>1. CASE PassPixel \/ EndRow \/ TableFull \/ StartLine \/ Join \/ Refuse \/ Return
    <3>1. pc = "scan" /\ pc' = "scan" /\ index' = index
      BY <2>1 DEF PassPixel, EndRow, TableFull, StartLine, Join, Refuse, Return, Scanning,
         LinesInv, StackScans
    <3> QED BY <3>1 DEF CoverInv, MeasuredCover
  <2>2. CASE EndScan
    <3>1. pc' = "measure" /\ index' = 1
      BY <2>2 DEF EndScan, CoverInv
    <3>2. \A k \in 1 .. Len(table') : ~(k < 1)
      BY <2>0, <2>2 DEF EndScan
    <3> QED BY <3>1, <3>2 DEF CoverInv, MeasuredCover
  <2>3. CASE Measure
    <3>1. PICK i : i = index
      OBVIOUS
    <3>2. PICK b : b = AdjustBlob(Measured(table[i]))
      OBVIOUS
    <3>3. /\ pc = "measure" /\ pc' = pc /\ image' = image /\ flag' = flag
          /\ index' = i + 1 /\ i \in 1 .. Len(table)
          /\ Len(table') = Len(table) /\ table'[i] = b
          /\ \A k \in 1 .. Len(table) : k # i => table'[k] = table[k]
      BY <2>0, <2>3, <3>1, <3>2 DEF Measure
    <3>4. b.width > 0 /\ Shaped(b) /\ \A p \in Blob(i) : Covers(b, p)
      <4>1. table[i] \in Box /\ Bounds(table[i], Blob(i)) /\ Blob(i) \in SUBSET Pixels
        <5>1. table[i] \in Box
          BY <2>0, <3>3
        <5>2. Unmeasured(i)
          BY <2>0, <3>1, <3>3 DEF Unmeasured
        <5>3. Bounds(table[i], Blob(i))
          BY <2>0, <3>3, <5>2 DEF Tight
        <5>4. Blob(i) \in SUBSET Pixels
          BY <2>0 DEF Blob
        <5> QED BY <5>1, <5>3, <5>4
      <4> QED BY <3>2, <4>1, TrimmedCovers
    <3>5. \A k \in 1 .. Len(table) : k < i + 1 =>
            table'[k].width > 0 /\ Shaped(table'[k]) /\ \A p \in Blob(k) : Covers(table'[k], p)
      <4> SUFFICES ASSUME NEW k \in 1 .. Len(table), k < i + 1
                   PROVE  /\ table'[k].width > 0 /\ Shaped(table'[k])
                          /\ \A p \in Blob(k) : Covers(table'[k], p)
        OBVIOUS
      <4>1. CASE k = i
        BY <3>3, <3>4, <4>1
      <4>2. CASE k # i
        <5>1. k < index
          BY <2>0, <3>1, <4>2
        <5> QED BY <3>3, <4>2, <5>1 DEF CoverInv, MeasuredCover, Live
      <4> QED BY <4>1, <4>2
    <3>6. MeasuredCover'
      BY <3>3, <3>5 DEF MeasuredCover, Live, Shaped, Covers, Blob
    <3> QED BY <3>3, <3>6 DEF CoverInv
  <2>4. CASE EndMeasure
    <3>1. /\ pc = "measure" /\ index > Len(table) /\ pc' = "merge"
          /\ UNCHANGED <<image, flag, table>>
      BY <2>4 DEF EndMeasure
    <3>2. \A k \in 1 .. Len(table) :
            Live(k) /\ Shaped(table[k]) /\ \A p \in Blob(k) : Covers(table[k], p)
      BY <2>0, <3>1 DEF CoverInv, MeasuredCover
    <3>3. LiveShaped
      BY <3>2 DEF LiveShaped
    <3>4. LiveCover
      <4> SUFFICES ASSUME NEW p \in image, flag[p] # 0
                   PROVE  \E k \in 1 .. Len(table) : Live(k) /\ Covers(table[k], p)
        BY DEF LiveCover
      <4>1. flag[p] \in 1 .. Len(table) /\ p \in Blob(flag[p])
        BY <2>0 DEF Blob
      <4> QED BY <3>2, <4>1
    <3> QED BY <3>1, <3>3, <3>4 DEF CoverInv, MeasuredCover, LiveShaped, LiveCover, Live,
         Shaped, Covers
  <2>5. CASE Merge
    <3>1. pc = "merge" /\ pc' = pc
      BY <2>5 DEF Merge
    <3>2. LiveShaped' /\ LiveCover'
      BY <2>5, <3>1, MergeKeeps DEF CoverInv
    <3> QED BY <3>1, <3>2 DEF CoverInv, MeasuredCover
  <2>6. CASE MergeNone \/ EndMerge
    <3>1. pc = "merge" /\ pc' \in {"merge", "done"} /\ UNCHANGED <<image, flag, table>>
      BY <2>6 DEF MergeNone, EndMerge
    <3> QED BY <3>1 DEF CoverInv, MeasuredCover, LiveShaped, LiveCover, Live, Shaped, Covers
  <2>7. CASE UNCHANGED vars
    BY <2>7 DEF vars, CoverInv, MeasuredCover, LiveShaped, LiveCover, Live, Shaped, Covers, Blob
  <2> QED BY <2>1, <2>2, <2>3, <2>4, <2>5, <2>6, <2>7 DEF Next
<1>3. CoverInv => PixelsCovered
  BY DEF CoverInv, PixelsCovered, LiveShaped, LiveCover, Shaped, Covers
<1> QED BY <1>1, <1>2, <1>3, LabelTypeCorrect, LinesInvariance, BoxesAreTight, PTL DEF Spec
=============================================================================
