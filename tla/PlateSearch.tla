----------------------------- MODULE PlateSearch -----------------------------
(***************************************************************************)
(* CCarNumDetect::GetPlateRectFromEdges: the four digits of a number plate *)
(* among the labelled edges of an image.  GetNumberCandidates picks the    *)
(* blobs of a digit's size and sorts them from right to left, QuadSearch   *)
(* looks for four that fit together, and of the successes the one furthest *)
(* to the right is chosen.  Every caller passes only_check_4_or_5 = false, *)
(* so that mode is left out.                                               *)
(*                                                                         *)
(* Fractions are compared exactly, in tenths and hundredths; the products  *)
(* of the code round to the same side.  The quotient w_h does not: it is a *)
(* float compared with doubles, so that exactly 0.3 counts as more than    *)
(* 0.3 and exactly 0.9 as less than 0.9.                                   *)
(***************************************************************************)
EXTENDS QuadSearch, FiniteSets, FiniteSetsExt

CONSTANTS
  EdgeTables,  \* the contents of m_EdgeTable that LabelEdges may leave
  MinHeight,   \* min_char_height
  MaxHeight    \* max_char_height

ASSUME TablesAssumption ==
  EdgeTables \subseteq Seq([sx : Int, ex : Int, sy : Int, ey : Int, cx : Int])

VARIABLES
  edges,  \* m_EdgeTable
  cand,   \* the `index` fields of tmp_blob
  chosen  \* found_arr, once it is chosen

plateVars == <<vars, edges, cand, chosen>>

\* A blob's box, and the centre `cx` that was computed before AdjustBlob
\* trimmed the box.
width(b) == b.ex - b.sx + 1
height(b) == b.ey - b.sy + 1

------------------------------------------------------------------------------
(* The conditions.  Each is the set of blobs of `f`, numbered 0 to 3 from  *)
(* the right, at which the code's loop would break; the least is blamed.   *)

\* Blobs must not contain one another, and a blob is not much lower than
\* the one to its right.
check_3(f) ==
  {s \in 1..3 : f[s-1].cx <= f[s].ex \/ height(f[s-1]) - height(f[s]) >= 8}

\* The digit one: w_h <= 0.3.
LooksLikeOne(b) == 10 * width(b) < 3 * height(b)

MaxGap(a, b) ==
  IF LooksLikeOne(a) /\ LooksLikeOne(b) THEN 55
  ELSE IF LooksLikeOne(a) \/ LooksLikeOne(b) THEN 45 ELSE 40

equidistance(f) ==
  {s \in 1..3 :
     LET gap == 100 * (f[s-1].sx - f[s].ex - 1)
         h == height(f[s-1])
     IN \/ gap >= MaxGap(f[s-1], f[s]) * h
        \/ (LooksLikeOne(f[s-1]) \/ LooksLikeOne(f[s])) /\ gap < 5 * h}

MaxWidth(f) == Max({width(f[s]) : s \in 0..3})

\* The two parts of check_5_condition: much narrower than the widest; too
\* far up or down from the blob to the right.
check_5_width(f) == {s \in 0..3 : 15 * MaxWidth(f) >= 100 * width(f[s])}

Apart(x, y) == IF x < y THEN y - x ELSE x - y
check_5_level(f) ==
  {s \in 1..3 :
     \E d \in {Apart(f[s].sy, f[s-1].sy), Apart(f[s].ey, f[s-1].ey)} :
       10 * d >= 4 * MaxWidth(f) \/ 10 * d > 2 * height(f[s-1])}

check_6(f) ==
  IF f[0].ex - f[3].sx + 1 < 4 * height(f[0]) THEN {} ELSE {3}

\* check_3_4_5_6_condition: the first condition that fails decides.
CheckWith(conditions) ==
  LET failed == {c \in 1..Len(conditions) : conditions[c] # {}}
  IN IF failed = {} THEN 4 ELSE -Min(conditions[Min(failed)])

\* Faulty variant: check_6 blames the wrong loop.
CheckBlamesSpan(f) ==
  CheckWith(<<check_3(f), equidistance(f), check_5_width(f), check_5_level(f),
              IF check_6(f) = {} THEN {} ELSE {1}>>)

CheckConditions(f) ==
  CheckWith(<<check_3(f), equidistance(f), check_5_width(f), check_5_level(f), check_6(f)>>)

------------------------------------------------------------------------------
\* GetNumberCandidates: blobs of the height of a digit that are not too wide.
Eligible(t, first_run) ==
  {e \in DOMAIN t :
     /\ height(t[e]) > MinHeight
     /\ height(t[e]) < MaxHeight + (IF first_run THEN 0 ELSE 2)
     /\ 10 * width(t[e]) <= 9 * height(t[e])}

\* The first of them, up to MaxBlobs, at which the scan of the table stops.
Kept(t, first_run) ==
  LET E == Eligible(t, first_run)
      scanned == Max({b \in 0..Len(t) : Cardinality(E \cap 1..b) <= MaxBlobs})
  IN E \cap 1..scanned

\* qsort by descending sx.  It does not say how it orders equal ones.
Sorted(t, E) ==
  LET orders[S \in SUBSET E] ==
        IF S = {} THEN {<<>>}
        ELSE UNION {{Append(c, e) : c \in orders[S \ {e}]} :
                      e \in {x \in S : \A y \in S : t[x].sx <= t[y].sx}}
  IN orders[E]

\* The four blobs that the counters in `q` stand for.
Four(t, c, q) == [s \in 0..3 |-> t[c[q[s + 1] + 1]]]

GetNumberCandidates(first_run) ==
  /\ n = Cardinality(Kept(edges, first_run))
  /\ cand \in Sorted(edges, Kept(edges, first_run))
  /\ check = [q \in Quads |->
                IF q[4] < n THEN CheckConditions(Four(edges, cand, q)) ELSE 0]

PlateInit ==
  /\ edges \in EdgeTables
  /\ \E first_run \in BOOLEAN : GetNumberCandidates(first_run)
  /\ pc = "i" /\ i = 0 /\ j = 0 /\ k = 0 /\ l = 0
  /\ found_count = 0 /\ saved = <<>>
  /\ chosen = <<>>

get_check_cond == Next /\ UNCHANGED <<edges, cand, chosen>>

\* The right edge of the rightmost digit of `q`.
Right(q) == edges[cand[q[1] + 1]].ex

\* The first of the successes that reach furthest to the right.
Choose ==
  /\ pc = "done" /\ saved # <<>> /\ chosen = <<>>
  /\ \E s \in 1..Len(saved) :
       /\ \A t \in 1..Len(saved) :
            Right(saved[t]) <= Right(saved[s]) /\ (t < s => Right(saved[t]) < Right(saved[s]))
       /\ chosen' = saved[s]
  /\ UNCHANGED <<vars, edges, cand>>

PlateNext == get_check_cond \/ Choose

PlateSpec == PlateInit /\ [][PlateNext]_plateVars

------------------------------------------------------------------------------
(* Properties.                                                             *)

SameWidth ==
  \A c, d \in 1..n : width(edges[cand[c]]) = width(edges[cand[d]])

\* Among candidates of one width no pruning loses a plate: the list is full, or
\* holds every four that pass all conditions.
SameWidthFindsAll ==
  pc = "done" /\ SameWidth => Len(saved) = MaxSaved \/ Successes \subseteq Found
==============================================================================
