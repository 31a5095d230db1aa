------------------------------ MODULE BoxLines ------------------------------
(* The first loop of FindLinesByEdge_HDS_sub, for one line of the edge image *)
(* (a piece): find_blob_hori_line follows it along its upper and its lower   *)
(* side, find_blob_vert_line along its left and its right; then two lines of *)
(* a piece that are too close to be two sides of a plate are made one.       *)
(*                                                                           *)
(* The two functions are the same but for the axes and four places, which    *)
(* are marked.  A place on a side is a position along it (x of a horizontal  *)
(* line) and one across it (y), counted as in the image.  The tables line_sx *)
(* to line_ey and sv_lines_count are `saved`, the entries below sv_lines,    *)
(* and `cur`, the entry that is being written; later ones are still 0.       *)
(*                                                                           *)
(* Not modelled: the angles and the lines' extensions to the image's edge    *)
(* (getAngle), and line_count and line_type_id, which change together with   *)
(* the lines.                                                                *)
EXTENDS Raster, Sequences

CONSTANTS
  Pieces,       \* entries of m_EdgeTable with the pixels that have their number
  Limit,        \* the length of the tables, 50
  Long,         \* th_HORILINE_CONTINUE_PIXELS and th_VERTLINE_CONTINUE_PIXELS
  MinX, MaxX, MinY, MaxY,  \* EdgeLineMinX, ...
  SameRows, SameCols,      \* the distances, 50 and 150, of lines that are one
  None

ASSUME PiecesAssumption ==
  \A e \in Pieces :
    /\ e.pixels \subseteq Pixels
    /\ {e.sx, e.ex} \subseteq 0 .. Cols - 1 /\ {e.sy, e.ey} \subseteq 0 .. Rows - 1
    /\ e.sx <= e.ex /\ e.sy <= e.ey
(* A table entry; `via` is history: the places across it, one per position.  *)
Line == [sa : Nat, sc : Int, ea : Int, ec : Int, count : Nat, via : Seq(Int)]

ASSUME NoneAssumption == None \notin Line
ASSUME LimitsAssumption == Limit \in Nat \ {0} /\ Long \in Nat \ {0, 1}

VARIABLES
  edge,       \* the piece
  side, pc,
  outer, at,  \* the outer and the inner loop's position along the side
  pos,        \* cur_y_pos, cur_x_pos
  minus, plus, \* down_count and up_count, left_count and right_count
  saved, cur,
  found       \* up_line, down_line, left_line, right_line

follow == <<outer, at, pos, minus, plus, saved, cur>>
vars == <<edge, side, pc, follow, found>>

Sides == <<"up", "down", "left", "right">>
Name == Sides[side]
Horizontal == Name \in {"up", "down"}

Start == IF Horizontal THEN edge.sx ELSE edge.sy
End == IF Horizontal THEN edge.ex ELSE edge.ey
Low == IF Horizontal THEN edge.sy ELSE edge.sx
High == IF Horizontal THEN edge.ey ELSE edge.ex
Mid == Low + (High - Low) \div 2
Across == IF Horizontal THEN Rows ELSE Cols

IsPixel(a, c) == (IF Horizontal THEN <<c, a>> ELSE <<a, c>>) \in edge.pixels

(* flag_m is not checked: right of its last column are the first pixels of   *)
(* the next row, and below its last row is whatever follows in memory, which *)
(* may have the piece's number (at the places `wild`) or not.                *)
Reads(a, c, wild) ==
  IF Horizontal \/ c < Cols THEN IsPixel(a, c)
  ELSE IF a + c \div Cols < Rows
       THEN <<a + c \div Cols, c % Cols>> \in edge.pixels
       ELSE c \in wild

Wild == IF Horizontal THEN {{}} ELSE SUBSET (Cols .. pos + 1)

(* The direction looked at first is up for a horizontal line and right for a *)
(* vertical one.  Of the guards that keep cur_x_pos and cur_y_pos inside the *)
(* image that to the right, `cur_x_pos-1 < m_nSCR_WIDTH`, is always true.    *)
FirstWay == IF Horizontal THEN -1 ELSE 1
OnFirstWay(wild) ==
  (Horizontal => pos > 0) /\ Reads(at, pos + FirstWay, wild)
OnSecondWay(wild) ==
  (IF Horizontal THEN pos + 1 < Rows ELSE pos > 0) /\ Reads(at, pos - FirstWay, wild)

(* The first pixel from the side, in its half of the box; -1 if there is none. *)
StartAt(a) ==
  IF Name \in {"up", "left"}
  THEN LET C == {c \in Low .. Mid : IsPixel(a, c)}
       IN  IF C = {} THEN -1 ELSE CHOOSE c \in C : \A d \in C : c <= d
  ELSE LET C == {c \in Mid .. High : IsPixel(a, c)}
       IN  IF C = {} THEN -1 ELSE CHOOSE c \in C : \A d \in C : c >= d

Empty == [sa |-> 0, sc |-> 0, ea |-> 0, ec |-> 0, count |-> 0, via |-> << >>]

Init ==
  /\ edge \in Pieces
  /\ found = [s \in {"up", "down", "left", "right"} |-> None]
  /\ side = 1 /\ pc = "size" /\ outer = 0 /\ at = 0 /\ pos = 0
  /\ minus = 0 /\ plus = 0 /\ saved = << >> /\ cur = Empty

-----------------------------------------------------------------------------
(* The sides, one after the other.                                           *)

Width == edge.ex - edge.sx + 1
Height == edge.ey - edge.sy + 1

Begin(s) ==
  /\ side' = s /\ pc' = "seek"
  /\ outer' = (IF s <= 2 THEN edge.sx ELSE edge.sy)
  /\ saved' = << >> /\ cur' = Empty

(* One of the two extents has to be in its range.                            *)
CheckSize ==
  /\ pc = "size"
  /\ IF Height \notin MinY .. MaxY /\ Width \notin MinX .. MaxX
     THEN pc' = "done" /\ UNCHANGED <<side, outer, saved, cur>>
     ELSE Begin(1)
  /\ UNCHANGED <<edge, at, pos, minus, plus, found>>

NextSide ==
  IF side < 4 THEN Begin(side + 1)
  ELSE pc' = "rows" /\ UNCHANGED <<side, outer, saved, cur>>

(* A line's start in a table entry, whose end is left as it was.             *)
Begun(entry, a, c, places) ==
  [sa |-> a, sc |-> c, ea |-> entry.ea, ec |-> entry.ec,
   count |-> Len(places), via |-> places]

(* A line starts at a with the first pixel from the side, if there is one.   *)
Restart(a, entry) ==
  LET c == StartAt(a) IN
  IF c = -1
  THEN cur' = Begun(entry, a, c, << >>) /\ UNCHANGED <<pos, minus, plus>>
  ELSE cur' = Begun(entry, a, c, <<c>>) /\ pos' = c /\ minus' = 0 /\ plus' = 0

(* 1.1: the outer loop, until it finds a start.                              *)
Seek ==
  /\ pc = "seek" /\ outer <= End
  /\ Restart(outer, cur)
  /\ IF StartAt(outer) = -1
     THEN outer' = outer + 1 /\ UNCHANGED <<pc, at>>
     ELSE pc' = "follow" /\ at' = outer + 1 /\ UNCHANGED outer
  /\ UNCHANGED <<edge, side, saved, found>>

SeekEnds ==
  /\ pc = "seek" /\ outer > End
  /\ NextSide
  /\ UNCHANGED <<edge, at, pos, minus, plus, found>>

-----------------------------------------------------------------------------
(* 1.2: the inner loop, one action per branch.                               *)

Following == pc = "follow" /\ at <= End

Extended(c) ==
  [sa |-> cur.sa, sc |-> cur.sc, ea |-> at, ec |-> c,
   count |-> cur.count + 1, via |-> Append(cur.via, c)]

Advance == at' = at + 1 /\ UNCHANGED <<edge, side, outer, found>>

(* No start was found since the line broke off.                              *)
SeekOn ==
  /\ cur.sc = -1
  /\ Restart(at, cur)
  /\ Advance /\ UNCHANGED <<pc, saved>>

Extend(c, m, p) ==
  /\ cur' = Extended(c) /\ pos' = c /\ minus' = m /\ plus' = p
  /\ Advance /\ UNCHANGED <<pc, saved>>

(* Before a new start a line that is long enough is saved and the next entry *)
(* taken; a shorter line's entry is used again.  With the last entry of the  *)
(* tables the loop is left.                                                  *)
IsLong == cur.count >= Long
Kept == IF IsLong THEN Append(saved, cur) ELSE saved
Entry == IF IsLong THEN Empty ELSE cur
\* Faulty variant: the last entry is not the last.
FullLate == IsLong /\ Len(Kept) > Limit

Full == IsLong /\ Len(Kept) >= Limit

Leave == pc' = "close" /\ UNCHANGED <<cur, pos, minus, plus>>

BeginAt(c) ==
  /\ cur' = Begun(Entry, at, c, <<c>>)
  /\ pos' = c /\ minus' = 0 /\ plus' = 0

SaveAndBegin(c) ==
  /\ saved' = Kept
  /\ IF Full THEN Leave ELSE BeginAt(c) /\ UNCHANGED pc
  /\ Advance

Turned(wild) == cur.sc # -1 /\ ~Reads(at, pos, wild)

Straight(wild) ==
  /\ cur.sc # -1 /\ Reads(at, pos, wild)
  /\ Extend(pos, minus, plus)

(* down_count and up_count, or right_count and left_count.                   *)
FirstCount == IF Horizontal THEN minus ELSE plus
SecondCount == IF Horizontal THEN plus ELSE minus

\* Faulty variant: a step across the side does not move the line's position.
ExtendCountingOnly(c, f, s) ==
  /\ cur' = Extended(c)
  /\ minus' = (IF Horizontal THEN f ELSE s) /\ plus' = (IF Horizontal THEN s ELSE f)
  /\ Advance /\ UNCHANGED <<pos, pc, saved>>

ExtendCounting(c, f, s) ==
  IF Horizontal THEN Extend(c, f, s) ELSE Extend(c, s, f)

\* Faulty variant: the vertical function, too, goes on from the start.
StepBackToStart ==
  /\ cur' = Extended(pos + FirstWay) /\ pos' = cur.sc
  /\ minus' = (IF Horizontal THEN minus + 1 ELSE minus - 1)
  /\ plus' = (IF Horizontal THEN plus - 1 ELSE plus + 1)
  /\ Advance /\ UNCHANGED <<pc, saved>>

(* Back after a single step the other way.  The horizontal function goes on  *)
(* from the row where the line started (line_sy), not from where it is.      *)
StepBack ==
  IF Horizontal
  THEN /\ cur' = Extended(pos - 1) /\ pos' = cur.sc
       /\ minus' = minus + 1 /\ plus' = plus - 1
       /\ Advance /\ UNCHANGED <<pc, saved>>
  ELSE Extend(pos + 1, minus - 1, plus + 1)

GoFirstWay(wild) ==
  /\ Turned(wild) /\ OnFirstWay(wild)
  /\ \/ /\ SecondCount = 0
        /\ ExtendCounting(pos + FirstWay, FirstCount + 1, 0)
     \/ /\ SecondCount > 0 /\ OnSecondWay(wild)
        /\ ExtendCounting(pos - FirstWay, FirstCount + 1, SecondCount + 1)
     \/ /\ SecondCount = 1 /\ ~OnSecondWay(wild)
        /\ StepBack
     \/ /\ SecondCount > 1 /\ ~OnSecondWay(wild)
        /\ SaveAndBegin(pos + FirstWay)

(* There is no pixel the first way, so its test is not repeated here.        *)
GoSecondWay(wild) ==
  /\ Turned(wild) /\ ~OnFirstWay(wild) /\ OnSecondWay(wild)
  /\ \/ /\ FirstCount <= 1
        /\ ExtendCounting(pos - FirstWay, 0, SecondCount + 1)
     \/ /\ FirstCount > 1
        /\ SaveAndBegin(pos - FirstWay)

BrokenOff(wild) == Turned(wild) /\ ~OnFirstWay(wild) /\ ~OnSecondWay(wild)

(* A pixel one position ahead bridges a gap; here row or column 0 is left    *)
(* out.                                                                      *)
PixelAhead(wild) ==
  /\ at + 1 <= End
  /\ \/ Reads(at + 1, pos, wild)
     \/ pos - 1 > 0 /\ Reads(at + 1, pos - 1, wild)
     \/ pos + 1 < Across /\ Reads(at + 1, pos + 1, wild)

Bridge(wild) ==
  /\ BrokenOff(wild) /\ PixelAhead(wild)
  /\ Extend(pos, minus, plus)

BreakOff(wild) ==
  /\ BrokenOff(wild) /\ ~PixelAhead(wild)
  /\ saved' = Kept
  /\ IF Full THEN Leave ELSE Restart(at, Entry) /\ UNCHANGED pc
  /\ Advance

Follow ==
  /\ Following
  /\ \/ SeekOn
     \/ \E wild \in Wild :
          \/ Straight(wild) \/ GoFirstWay(wild) \/ GoSecondWay(wild)
          \/ Bridge(wild) \/ BreakOff(wild)

FollowEnds ==
  /\ pc = "follow" /\ at > End
  /\ pc' = "close"
  /\ UNCHANGED <<edge, side, follow, found>>

-----------------------------------------------------------------------------
Abs(n) == IF n < 0 THEN -n ELSE n

Length(l) == Abs(l.ea - l.sa)

(* The entry in use when the loop ends is taken if it has an end, 0 being    *)
(* none.                                                                     *)
Candidates ==
  IF Len(saved) < Limit /\ cur.ea # 0 /\ cur.ec # 0 /\ cur.count > 0
  THEN Append(saved, cur) ELSE saved

Longest(lines) ==
  {k \in 1 .. Len(lines) :
     \A j \in 1 .. Len(lines) :
       Length(lines[j]) < Length(lines[k]) \/ (Length(lines[j]) = Length(lines[k]) /\ j >= k)}

(* The first of the longest lines; without one the outer loop goes on.       *)
Close ==
  /\ pc = "close"
  /\ IF \A k \in 1 .. Len(Candidates) : Length(Candidates[k]) = 0
     THEN /\ pc' = "seek" /\ outer' = outer + 1 /\ saved' = Candidates
          /\ cur' = (IF saved' = saved THEN cur ELSE Empty)
          /\ UNCHANGED <<side, found>>
     ELSE /\ \E k \in Longest(Candidates) :
               found' = [found EXCEPT ![Name] = Candidates[k]]
          /\ NextSide
  /\ UNCHANGED <<edge, at, pos, minus, plus>>

-----------------------------------------------------------------------------
(* Lines that are one.                                                       *)

Has(s) == found[s] # None

(* Halfway down or along a line, with C's division towards 0.                *)
Middle(l) ==
  LET d == l.ea - l.sa IN l.sa + (IF d < 0 THEN -((-d) \div 2) ELSE d \div 2)

Apart(k, l) == Abs(k.sc - l.sc) + Abs(k.ec - l.ec)

(* Upper and lower line with at least one vertical line.                     *)
MergeRows ==
  /\ pc = "rows" /\ pc' = "cols"
  /\ IF /\ Has("up") /\ Has("down") /\ (Has("left") \/ Has("right"))
        /\ Apart(found["up"], found["down"]) < SameRows
     THEN LET beside == IF Has("left") THEN found["left"] ELSE found["right"]
          IN  found' = [found EXCEPT ![IF found["up"].sc < Middle(beside)
                                       THEN "down" ELSE "up"] = None]
     ELSE UNCHANGED found
  /\ UNCHANGED <<edge, side, follow>>

(* Left and right line with at least one horizontal line.                    *)
MergeCols ==
  /\ pc = "cols" /\ pc' = "done"
  /\ IF /\ Has("left") /\ Has("right") /\ (Has("up") \/ Has("down"))
        /\ Apart(found["left"], found["right"]) < SameCols
     THEN LET above == IF Has("up") THEN found["up"] ELSE found["down"]
          IN  found' = [found EXCEPT ![IF found["left"].sc <= Middle(above)
                                       THEN "right" ELSE "left"] = None]
     ELSE UNCHANGED found
  /\ UNCHANGED <<edge, side, follow>>

Next ==
  \/ CheckSize \/ Seek \/ SeekEnds
  \/ Follow \/ FollowEnds
  \/ Close \/ MergeRows \/ MergeCols

Spec == Init /\ [][Next]_vars
-----------------------------------------------------------------------------
(* Properties.                                                               *)

(* While a line is followed the entry being written is in the tables: the    *)
(* check of the limit sits in three of the branches of the inner loop only,  *)
(* and the outer loop does not reset sv_lines.                               *)
TablesHold == pc \in {"seek", "follow"} => Len(saved) < Limit

IsHorizontal(s) == s \in {"up", "down"}
LastOf(s) == IF IsHorizontal(s) THEN edge.ex ELSE edge.ey

On(s, a, c) == (IF IsHorizontal(s) THEN <<c, a>> ELSE <<a, c>>) \in edge.pixels

(* From its start to its end the line has, at every position along the side, *)
(* a pixel of the piece, or one next to it a position ahead; from one        *)
(* position to the next it moves by one across the side, by two at most      *)
(* after a horizontal line's step back.  Beyond the image's last column the  *)
(* function reads pixels of other rows.                                      *)
Touching(s, l) ==
  /\ Len(l.via) = l.ea - l.sa + 1
  /\ \A k \in 1 .. Len(l.via) :
       /\ \/ On(s, l.sa + k - 1, l.via[k])
          \/ \E c \in l.via[k] - 1 .. l.via[k] + 1 : On(s, l.sa + k, c)
          \/ ~IsHorizontal(s) /\ l.via[k] >= Cols
       /\ k > 1 => Abs(l.via[k] - l.via[k - 1]) <= (IF IsHorizontal(s) THEN 2 ELSE 1)

(* The line of a side is one that was followed, from left to right or from   *)
(* top to bottom; or its end is one left by a line given up before, and then *)
(* it starts in the last column or row of the box.                           *)
FollowedOrStale ==
  \A s \in DOMAIN found : found[s] # None =>
    LET l == found[s]
    IN  IF l.ea > l.sa THEN Touching(s, l) ELSE l.sa = LastOf(s) /\ l.count = 1

(* The places of a side, and the half of the box it is looked for in.        *)
FirstOf(s) == IF IsHorizontal(s) THEN edge.sx ELSE edge.sy
AcrossOf(s) == IF IsHorizontal(s) THEN Rows ELSE Cols
HalfOf(s) ==
  LET low == IF IsHorizontal(s) THEN edge.sy ELSE edge.sx
      high == IF IsHorizontal(s) THEN edge.ey ELSE edge.ex
      mid == low + (high - low) \div 2
  IN  IF s \in {"up", "left"} THEN low .. mid ELSE mid .. high

(* The line along a side, if the piece has one pixel at each position.       *)
PixelsAt(s, a) == {c \in 0 .. AcrossOf(s) - 1 : On(s, a, c)}
LineOf(s) == [a \in FirstOf(s) .. LastOf(s) |-> CHOOSE c \in PixelsAt(s, a) : TRUE]
Starts(s) == {a \in FirstOf(s) .. LastOf(s) - 1 : LineOf(s)[a] \in HalfOf(s)}

Slanted(s, d) ==
  \A a \in FirstOf(s) .. LastOf(s) - 1 : LineOf(s)[a + 1] - LineOf(s)[a] \in {0, d}

(* Row and column 0 are taken for no end, and beyond the last column pixels  *)
(* of the next row are read.                                                 *)
Thin(s) ==
  /\ FirstOf(s) < LastOf(s)
  /\ \A a \in FirstOf(s) .. LastOf(s) : PixelsAt(s, a) = {LineOf(s)[a]}
  /\ \E d \in {-1, 1} : Slanted(s, d)
  /\ Starts(s) # {} /\ LineOf(s)[LastOf(s)] # 0
  /\ IsHorizontal(s) \/ \A a \in FirstOf(s) .. LastOf(s) : LineOf(s)[a] # Cols - 1

WholeLine(s, l) ==
  /\ l.sa \in Starts(s) /\ \A a \in Starts(s) : l.sa <= a
  /\ l.sc = LineOf(s)[l.sa]
  /\ l.ea = LastOf(s) /\ l.ec = LineOf(s)[l.ea]

(* A thin line, with one pixel at each position along a side and straight or *)
(* slanted one way, is followed whole, from the first of its pixels in the   *)
(* side's half of the box to the last one: no count of steps, saved entry or *)
(* outer round breaks it.                                                    *)
ThinLineWhole ==
  pc = "rows" =>
    \A s \in DOMAIN found : Thin(s) => found[s] # None /\ WholeLine(s, found[s])
=============================================================================
