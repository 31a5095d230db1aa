--------------------------- MODULE BoxLinesProofs ---------------------------
(* The tables and the lines of a side, for images and pieces of any size and *)
(* any length of the tables.                                                 *)
(*                                                                           *)
(* The argument: while a line is followed, the entry being written has one   *)
(* place for every position since its start, each on the piece or before a   *)
(* pixel of it; and the position is where the last place is, or one beside   *)
(* it after a step back, which only a line that has made no more than one    *)
(* step can take.  So a saved line is whole; and an entry with one pixel,    *)
(* whose end may be an older one's, is only looked at when the side has been *)
(* followed to its end.                                                      *)
(*                                                                           *)
(* A thin line has one pixel to go on with at each position, so one branch   *)
(* of the inner loop at most is met; and as it is slanted one way, the count *)
(* of the steps the other way stays 0, which keeps the branches out that end *)
(* a line.                                                                   *)
EXTENDS BoxLines, WellFoundedInduction, TLAPS

-----------------------------------------------------------------------------
(* The invariant.                                                            *)

Places == Seq(Int)

LinesTypeOK ==
  /\ edge \in Pieces /\ side \in 1 .. 4
  /\ pc \in {"size", "seek", "follow", "close", "rows", "cols", "done"}
  /\ outer \in Nat /\ at \in Nat /\ pos \in Int /\ minus \in Nat /\ plus \in Nat
  /\ saved \in Seq(Line) /\ cur \in Line
  /\ found \in [{"up", "down", "left", "right"} -> Line \cup {None}]

(* A pixel of the piece, or one next to it a position ahead.                 *)
OnPiece(s, a, c) ==
  \/ On(s, a, c)
  \/ \E d \in c - 1 .. c + 1 : On(s, a + 1, d)
  \/ ~IsHorizontal(s) /\ c >= Cols

Reach(s) == IF IsHorizontal(s) THEN 2 ELSE 1

(* v are places of a line that starts at position a.                         *)
Chain(s, a, v) ==
  \A k \in 1 .. Len(v) :
    /\ OnPiece(s, a + k - 1, v[k])
    /\ k > 1 => Abs(v[k] - v[k - 1]) <= Reach(s)

(* From the last place to where the line goes on, and the steps since its    *)
(* start as far as a step back needs them.                                   *)
GoesOn(s, l, p, m, q) ==
  LET last == l.via[Len(l.via)]
  IN  IF IsHorizontal(s)
      THEN /\ last \in p - 1 .. p
           /\ q = 1 => m = 0 /\ p - l.sc \in 0 .. 1
           /\ q = 0 /\ m = 0 => p = l.sc
           /\ q = 0 /\ m = 1 => p - l.sc \in -1 .. 0
      ELSE last = p

(* The entry being written, when position a is the next.                     *)
Written(s, l, a, p, m, q) ==
  /\ l.sc # -1 => l.count >= 1
  /\ l.count >= 1 =>
       /\ l.count = Len(l.via) /\ Len(l.via) = a - l.sa
       /\ Chain(s, l.sa, l.via)
       /\ GoesOn(s, l, p, m, q)
  /\ l.count >= 2 => l.ea = a - 1
  /\ l.count <= 1 /\ l.ec # 0 => l.ea < LastOf(s)

Whole(s, l) == l.ea > l.sa /\ Touching(s, l)

SavedWhole ==
  /\ Len(saved) <= Limit
  /\ \A k \in 1 .. Len(saved) : Whole(Name, saved[k])

SeekingFromStart ==
  pc = "seek" => saved = << >> /\ (cur.ec # 0 => cur.ea < End)

CurWritten ==
  pc \in {"follow", "close"} /\ Len(saved) < Limit =>
    /\ at \in 1 .. End + 1 /\ (pc = "close" => at = End + 1)
    /\ Written(Name, cur, at, pos, minus, plus)

LinesInv ==
  /\ LinesTypeOK /\ TablesHold /\ SavedWhole /\ SeekingFromStart /\ CurWritten
  /\ FollowedOrStale

-----------------------------------------------------------------------------
(* Sides and places.                                                         *)

LEMMA SideNames ==
  ASSUME side \in 1 .. 4
  PROVE  /\ Name \in {"up", "down", "left", "right"}
         /\ Horizontal <=> IsHorizontal(Name)
         /\ End = LastOf(Name)
BY DEF Name, Sides, Horizontal, IsHorizontal, End, LastOf

(* The box of a piece lies in the image.                                     *)
LEMMA BoxBounds ==
  ASSUME edge \in Pieces
  PROVE  /\ Start \in Nat /\ End \in Nat /\ Low \in Nat /\ High \in Nat
         /\ Start <= End /\ Low <= High
         /\ Mid \in Low .. High
         /\ edge.sx \in Nat /\ edge.sy \in Nat /\ edge.ex \in Nat /\ edge.ey \in Nat
<1>1. /\ edge.sx \in Nat /\ edge.sy \in Nat /\ edge.ex \in Nat /\ edge.ey \in Nat
      /\ edge.sx <= edge.ex /\ edge.sy <= edge.ey
  BY RasterAssumption, PiecesAssumption
<1>2. /\ Start \in Nat /\ End \in Nat /\ Low \in Nat /\ High \in Nat
      /\ Start <= End /\ Low <= High
  BY <1>1 DEF Start, End, Low, High
<1>3. Mid \in Low .. High
  BY <1>2 DEF Mid
<1> QED BY <1>1, <1>2, <1>3

LEMMA LeastNumber ==
  ASSUME NEW T \in SUBSET Nat, T # {}
  PROVE  \E x \in T : \A y \in T : x <= y
<1>1. PICK x \in T : \A y \in T : <<y, x>> \notin OpToRel(<, Nat)
  BY NatLessThanWellFounded, WFMin
<1>2. \A y \in T : ~(y < x)
  BY <1>1 DEF OpToRel
<1> QED BY <1>2

LEMMA GreatestBelow ==
  ASSUME NEW n \in Nat, NEW T \in SUBSET (0 .. n), T # {}
  PROVE  \E x \in T : \A y \in T : x >= y
<1> DEFINE U == {n - y : y \in T}
<1>1. U \in SUBSET Nat /\ U # {}
  <2>1. PICK t \in T : TRUE
    OBVIOUS
  <2>2. n - t \in U
    BY <2>1
  <2> QED BY <2>2
<1>2. PICK u \in U : \A w \in U : u <= w
  <2> HIDE DEF U
  <2> QED BY <1>1, LeastNumber
<1>3. PICK x \in T : u = n - x
  BY <1>2
<1>4. \A y \in T : n - x <= n - y
  BY <1>2, <1>3
<1> QED BY <1>4

(* A line starts on a pixel of the piece.                                    *)
LEMMA StartOnPiece ==
  ASSUME edge \in Pieces, side \in 1 .. 4, NEW a \in Nat
  PROVE  /\ StartAt(a) \in Int
         /\ StartAt(a) # -1 => On(Name, a, StartAt(a))
<1>1. /\ Low \in Nat /\ High \in Nat /\ Mid \in Low .. High
  BY BoxBounds
<1>2. CASE Name \in {"up", "left"}
  <2> DEFINE C == {c \in Low .. Mid : IsPixel(a, c)}
  <2>1. CASE C = {}
    BY <1>2, <2>1 DEF StartAt
  <2>2. CASE C # {}
    <3>1. C \in SUBSET Nat
      BY <1>1
    <3>2. \E c \in C : \A d \in C : c <= d
      <4> HIDE DEF C
      <4> QED BY <2>2, <3>1, LeastNumber
    <3>3. StartAt(a) = CHOOSE c \in C : \A d \in C : c <= d
      BY <1>2, <2>2 DEF StartAt
    <3>4. StartAt(a) \in C
      <4> HIDE DEF C
      <4> QED BY <3>2, <3>3
    <3> QED BY <3>1, <3>4, SideNames DEF IsPixel, On
  <2> QED BY <2>1, <2>2
<1>3. CASE Name \notin {"up", "left"}
  <2> DEFINE C == {c \in Mid .. High : IsPixel(a, c)}
  <2>1. CASE C = {}
    BY <1>3, <2>1 DEF StartAt
  <2>2. CASE C # {}
    <3>1. C \in SUBSET (0 .. High)
      BY <1>1
    <3>2. \E c \in C : \A d \in C : c >= d
      <4> HIDE DEF C
      <4> QED BY <1>1, <2>2, <3>1, GreatestBelow
    <3>3. StartAt(a) = CHOOSE c \in C : \A d \in C : c >= d
      BY <1>3, <2>2 DEF StartAt
    <3>4. StartAt(a) \in C
      <4> HIDE DEF C
      <4> QED BY <3>2, <3>3
    <3> QED BY <1>1, <3>1, <3>4, SideNames DEF IsPixel, On
  <2> QED BY <2>1, <2>2
<1> QED BY <1>2, <1>3

(* What the function reads is a pixel of the piece, or beyond the image.     *)
LEMMA ReadsPiece ==
  ASSUME side \in 1 .. 4, NEW a \in Int, NEW c \in Int, NEW wild, Reads(a, c, wild)
  PROVE  On(Name, a, c) \/ (~IsHorizontal(Name) /\ c >= Cols)
<1>1. CASE Horizontal \/ c < Cols
  BY <1>1, SideNames, RasterAssumption DEF Reads, IsPixel, On
<1>2. CASE ~(Horizontal \/ c < Cols)
  BY <1>2, SideNames, RasterAssumption
<1> QED BY <1>1, <1>2

-----------------------------------------------------------------------------
(* The entry being written.                                                  *)

LEMMA BegunEntry ==
  ASSUME NEW entry \in Line, NEW a \in Nat, NEW c \in Int, NEW v \in Places
  PROVE  LET l == Begun(entry, a, c, v)
         IN  /\ l \in Line
             /\ l.sa = a /\ l.sc = c /\ l.count = Len(v) /\ l.via = v
             /\ l.ea = entry.ea /\ l.ec = entry.ec
<1>1. entry.ea \in Int /\ entry.ec \in Int /\ Len(v) \in Nat
  BY DEF Line, Places
<1> QED BY <1>1 DEF Begun, Line, Places

LEMMA ExtendedEntry ==
  ASSUME cur \in Line, at \in Int, NEW c \in Int
  PROVE  LET l == Extended(c)
         IN  /\ l \in Line
             /\ l.sa = cur.sa /\ l.sc = cur.sc /\ l.ea = at /\ l.ec = c
             /\ l.count = cur.count + 1 /\ l.via = Append(cur.via, c)
<1>1. /\ cur.sa \in Nat /\ cur.sc \in Int /\ cur.count \in Nat
      /\ Append(cur.via, c) \in Places
  BY DEF Line, Places
<1> QED BY <1>1 DEF Extended, Line

(* A line with one place, in an entry whose end is none or before the last   *)
(* position.                                                                 *)
LEMMA StartWritten ==
  ASSUME LinesTypeOK, NEW a \in Nat, NEW c \in Int, OnPiece(Name, a, c),
         NEW entry \in Line, entry.ec # 0 => entry.ea < End
  PROVE  LET l == Begun(entry, a, c, <<c>>)
         IN  l \in Line /\ Written(Name, l, a + 1, c, 0, 0)
<1> DEFINE l == Begun(entry, a, c, <<c>>)
<1>0. End = LastOf(Name)
  BY SideNames DEF LinesTypeOK
<1>1. /\ l \in Line
      /\ l.sa = a /\ l.sc = c /\ l.count = 1 /\ l.via = <<c>>
      /\ l.ea = entry.ea /\ l.ec = entry.ec
  <2>1. <<c>> \in Places /\ Len(<<c>>) = 1
    BY DEF Places
  <2>2. a \in Nat
    OBVIOUS
  <2>3. /\ l \in Line
        /\ l.sa = a /\ l.sc = c /\ l.count = Len(<<c>>) /\ l.via = <<c>>
        /\ l.ea = entry.ea /\ l.ec = entry.ec
    <3> DEFINE v == <<c>>
    <3>1. v \in Places
      BY <2>1
    <3> HIDE DEF v
    <3>2. /\ Begun(entry, a, c, v) \in Line
          /\ Begun(entry, a, c, v).sa = a /\ Begun(entry, a, c, v).sc = c
          /\ Begun(entry, a, c, v).count = Len(v) /\ Begun(entry, a, c, v).via = v
          /\ Begun(entry, a, c, v).ea = entry.ea /\ Begun(entry, a, c, v).ec = entry.ec
      BY <2>2, <3>1, BegunEntry
    <3> QED BY <3>2 DEF v
  <2> HIDE DEF l
  <2> QED BY <2>1, <2>3
<1> HIDE DEF l
<1>3. Len(l.via) = 1 /\ l.via[1] = c
  BY <1>1
<1>4. Chain(Name, l.sa, l.via)
  BY <1>1, <1>3 DEF Chain
<1>5. GoesOn(Name, l, c, 0, 0)
  BY <1>1, <1>3 DEF GoesOn
<1>6. Written(Name, l, a + 1, c, 0, 0)
  BY <1>0, <1>1, <1>3, <1>4, <1>5 DEF Written
<1> QED BY <1>1, <1>6 DEF l

(* Restart either finds a start or leaves the entry without one.             *)
LEMMA RestartWritten ==
  ASSUME LinesTypeOK, NEW a \in Nat, NEW entry \in Line,
         entry.ec # 0 => entry.ea < End, Restart(a, entry)
  PROVE  /\ cur' \in Line /\ pos' \in Int /\ minus' \in Nat /\ plus' \in Nat
         /\ Written(Name, cur', a + 1, pos', minus', plus')
<1> DEFINE c == StartAt(a)
<1>0. End = LastOf(Name)
  BY SideNames DEF LinesTypeOK
<1>1. c \in Int /\ (c # -1 => OnPiece(Name, a, c))
  BY StartOnPiece DEF LinesTypeOK, OnPiece
<1>2. CASE c = -1
  <2>1. /\ cur' = Begun(entry, a, -1, << >>)
        /\ UNCHANGED <<pos, minus, plus>>
    BY <1>2 DEF Restart
  <2>3. /\ cur' \in Line
        /\ cur'.sc = -1 /\ cur'.count = 0 /\ cur'.ea = entry.ea /\ cur'.ec = entry.ec
    <3>1. << >> \in Places /\ Len(<< >>) = 0
      BY DEF Places
    <3>2. /\ Begun(entry, a, -1, << >>) \in Line
          /\ Begun(entry, a, -1, << >>).sc = -1
          /\ Begun(entry, a, -1, << >>).count = Len(<< >>)
          /\ Begun(entry, a, -1, << >>).ea = entry.ea
          /\ Begun(entry, a, -1, << >>).ec = entry.ec
      <4>1. a \in Nat /\ -1 \in Int
        OBVIOUS
      <4> QED BY <3>1, <4>1, BegunEntry
    <3> QED BY <2>1, <3>1, <3>2
  <2>4. Written(Name, cur', a + 1, pos', minus', plus')
    BY <1>0, <2>3 DEF Written
  <2> QED BY <2>1, <2>3, <2>4 DEF LinesTypeOK
<1>3. CASE c # -1
  <2>1. /\ cur' = Begun(entry, a, c, <<c>>)
        /\ pos' = c /\ minus' = 0 /\ plus' = 0
    BY <1>3 DEF Restart
  <2>2. cur' \in Line /\ Written(Name, cur', a + 1, c, 0, 0)
    <3> HIDE DEF c
    <3> QED BY <1>1, <1>3, <2>1, StartWritten
  <2> QED BY <1>1, <2>1, <2>2
<1> QED BY <1>2, <1>3

LEMMA LongerWritten ==
  ASSUME NEW s, NEW l, NEW a \in Int, NEW p, NEW m, NEW q,
         l.count \in Nat, l.count >= 2, l.ea = a - 1,
         l.count = Len(l.via), Len(l.via) = a - l.sa,
         Chain(s, l.sa, l.via), GoesOn(s, l, p, m, q)
  PROVE  Written(s, l, a, p, m, q)
BY DEF Written

(* An entry with one more place.                                             *)
LEMMA ExtendWritten ==
  ASSUME LinesTypeOK, Written(Name, cur, at, pos, minus, plus), cur.sc # -1,
         NEW c \in pos - 1 .. pos + 1, OnPiece(Name, at, c),
         NEW p \in Int, NEW m \in Nat, NEW q \in Nat,
         IF IsHorizontal(Name)
         THEN /\ c \in p - 1 .. p
              /\ q = 1 => m = 0 /\ p - cur.sc \in 0 .. 1
              /\ q = 0 /\ m = 0 => p = cur.sc
              /\ q = 0 /\ m = 1 => p - cur.sc \in -1 .. 0
         ELSE c = p
  PROVE  Extended(c) \in Line /\ Written(Name, Extended(c), at + 1, p, m, q)
<1> DEFINE l == Extended(c)
<1>0. at \in Nat /\ pos \in Int /\ c \in Int /\ cur \in Line /\ cur.via \in Seq(Int)
  BY DEF LinesTypeOK, Line, Places
<1>1. /\ l.sa = cur.sa /\ l.sc = cur.sc /\ l.ea = at /\ l.ec = c
      /\ l.count = cur.count + 1 /\ l.via = Append(cur.via, c)
      /\ l \in Line
  BY <1>0, ExtendedEntry
<1>2. /\ cur.count >= 1 /\ cur.count = Len(cur.via) /\ Len(cur.via) = at - cur.sa
      /\ Chain(Name, cur.sa, cur.via) /\ GoesOn(Name, cur, pos, minus, plus)
  BY DEF Written
<1>3. Len(cur.via) \in Nat /\ cur.sa \in Int /\ cur.count \in Nat
  BY <1>0 DEF Line
<1>4. /\ Len(l.via) = Len(cur.via) + 1 /\ l.via[Len(l.via)] = c
      /\ \A k \in 1 .. Len(cur.via) : l.via[k] = cur.via[k]
  BY <1>0, <1>1, <1>3
<1>5. Abs(c - cur.via[Len(cur.via)]) <= Reach(Name)
  <2>1. cur.via[Len(cur.via)] \in Int
    BY <1>0, <1>2, <1>3
  <2> QED BY <1>0, <1>2, <2>1 DEF GoesOn, Reach, Abs
<1> HIDE DEF l
<1>6. Chain(Name, l.sa, l.via)
  <2> SUFFICES ASSUME NEW k \in 1 .. Len(l.via)
               PROVE  /\ OnPiece(Name, l.sa + k - 1, l.via[k])
                      /\ k > 1 => Abs(l.via[k] - l.via[k - 1]) <= Reach(Name)
    BY DEF Chain
  <2>1. CASE k = Len(l.via)
    <3>1. l.sa + k - 1 = at /\ l.via[k] = c
      BY <1>0, <1>1, <1>2, <1>3, <1>4, <2>1
    <3>2. k - 1 = Len(cur.via) /\ Len(cur.via) \in 1 .. Len(cur.via)
      BY <1>2, <1>3, <1>4, <2>1
    <3>3. l.via[k - 1] = cur.via[Len(cur.via)]
      BY <1>4, <3>2
    <3> QED BY <1>5, <3>1, <3>3
  <2>2. CASE k # Len(l.via)
    <3>1. k \in 1 .. Len(cur.via) /\ l.via[k] = cur.via[k]
      BY <1>3, <1>4, <2>2
    <3>2. k > 1 => l.via[k - 1] = cur.via[k - 1]
      BY <1>3, <1>4, <3>1
    <3> QED BY <1>1, <1>2, <3>1, <3>2 DEF Chain
  <2> QED BY <2>1, <2>2
<1>7. GoesOn(Name, l, p, m, q)
  BY <1>1, <1>4 DEF GoesOn
<1>8. Len(l.via) = at + 1 - l.sa /\ l.count = Len(l.via) /\ l.count >= 2
  BY <1>0, <1>1, <1>2, <1>3, <1>4
<1>9. Written(Name, l, at + 1, p, m, q)
  <2>1. l.ea = (at + 1) - 1 /\ at + 1 \in Int /\ l.count \in Nat
    BY <1>0, <1>1, <1>3
  <2> DEFINE next == at + 1
  <2>2. next \in Int /\ l.ea = next - 1 /\ Len(l.via) = next - l.sa
    BY <1>0, <1>1, <1>3, <1>8
  <2>3. Written(Name, l, next, p, m, q)
    <3> HIDE DEF next
    <3> QED BY <1>6, <1>7, <1>8, <2>1, <2>2, LongerWritten
  <2> QED BY <2>3
<1> QED BY <1>1, <1>9 DEF l

(* A chain as long as the line is what FollowedOrStale asks for.             *)
LEMMA ChainTouches ==
  ASSUME NEW s, NEW l \in Line, Chain(s, l.sa, l.via), Len(l.via) = l.ea - l.sa + 1
  PROVE  Touching(s, l)
<1>1. l.sa \in Nat /\ l.ea \in Int /\ Len(l.via) \in Nat
  BY DEF Line, Places
<1>2. ASSUME NEW k \in 1 .. Len(l.via)
      PROVE  /\ \/ On(s, l.sa + k - 1, l.via[k])
                \/ \E c \in l.via[k] - 1 .. l.via[k] + 1 : On(s, l.sa + k, c)
                \/ ~IsHorizontal(s) /\ l.via[k] >= Cols
             /\ k > 1 => Abs(l.via[k] - l.via[k - 1]) <= (IF IsHorizontal(s) THEN 2 ELSE 1)
  <2>1. /\ OnPiece(s, l.sa + k - 1, l.via[k])
        /\ k > 1 => Abs(l.via[k] - l.via[k - 1]) <= Reach(s)
    BY DEF Chain
  <2>2. l.sa + k - 1 + 1 = l.sa + k
    BY <1>1
  <2> QED BY <2>1, <2>2 DEF OnPiece, Reach
<1> QED BY <1>2 DEF Touching

(* A long line is whole when it is saved, and the entry the next one starts  *)
(* in has no end or an earlier one.                                          *)
LEMMA KeptWhole ==
  ASSUME LinesInv, Following, cur.sc # -1
  PROVE  /\ Kept \in Seq(Line) /\ Len(Kept) <= Limit
         /\ \A k \in 1 .. Len(Kept) : Whole(Name, Kept[k])
         /\ Full => Len(Kept) >= Limit
         /\ ~Full => Len(Kept) < Limit
         /\ Entry \in Line /\ (Entry.ec # 0 => Entry.ea < End)
<1>0. /\ pc = "follow" /\ Len(saved) < Limit /\ Len(saved) \in Nat
      /\ saved \in Seq(Line) /\ cur \in Line /\ at \in Nat /\ at <= End
      /\ edge \in Pieces /\ side \in 1 .. 4
  BY DEF LinesInv, TablesHold, Following, LinesTypeOK
<1>1. Written(Name, cur, at, pos, minus, plus)
  BY <1>0 DEF LinesInv, CurWritten
<1>2. End \in Nat /\ End = LastOf(Name)
  BY <1>0, BoxBounds, SideNames
<1>3. CASE IsLong
  <2>0. Kept = Append(saved, cur) /\ Entry = Empty
    BY <1>3 DEF Kept, Entry
  <2>1. cur.count >= 2
    BY <1>0, <1>3, LimitsAssumption DEF IsLong, Line
  <2>2. /\ cur.count \in Nat /\ cur.sa \in Int /\ cur.ea = at - 1
        /\ cur.count = Len(cur.via) /\ Len(cur.via) = at - cur.sa
        /\ Chain(Name, cur.sa, cur.via)
    BY <1>0, <1>1, <2>1 DEF Written, Line
  <2>3. cur.ea > cur.sa /\ Len(cur.via) = cur.ea - cur.sa + 1
    BY <1>0, <2>1, <2>2
  <2>4. Whole(Name, cur)
    BY <1>0, <2>2, <2>3, ChainTouches DEF Whole
  <2>5. /\ Kept \in Seq(Line) /\ Len(Kept) = Len(saved) + 1
        /\ \A k \in 1 .. Len(saved) : Kept[k] = saved[k]
        /\ Kept[Len(saved) + 1] = cur
    BY <1>0, <2>0
  <2>6. \A k \in 1 .. Len(Kept) : Whole(Name, Kept[k])
    <3> TAKE k \in 1 .. Len(Kept)
    <3>1. CASE k = Len(saved) + 1
      BY <2>4, <2>5, <3>1
    <3>2. CASE k # Len(saved) + 1
      <4>1. k \in 1 .. Len(saved)
        BY <1>0, <2>5, <3>2
      <4> QED BY <2>5, <4>1 DEF LinesInv, SavedWhole
    <3> QED BY <3>1, <3>2
  <2>7. Entry \in Line /\ Entry.ec = 0
    BY <2>0 DEF Empty, Line, Places
  <2>8. (Full => Len(Kept) >= Limit) /\ (~Full => Len(Kept) < Limit)
    BY <1>0, <1>3, <2>5, LimitsAssumption DEF Full
  <2>9. Len(Kept) <= Limit
    BY <1>0, <2>5, LimitsAssumption
  <2> QED BY <2>5, <2>6, <2>7, <2>8, <2>9
<1>4. CASE ~IsLong
  <2>1. Kept = saved /\ Entry = cur /\ ~Full
    BY <1>4 DEF Kept, Entry, Full
  <2>2. cur.ec # 0 => cur.ea < End
    BY <1>0, <1>1, <1>2 DEF Written, Line
  <2> QED BY <1>0, <2>1, <2>2 DEF LinesInv, SavedWhole
<1> QED BY <1>3, <1>4

-----------------------------------------------------------------------------
(* The steps.                                                                *)

(* The found lines stay what they are while the piece is the same.           *)
LEMMA FoundStays ==
  ASSUME FollowedOrStale, UNCHANGED <<edge, found>>
  PROVE  FollowedOrStale'
BY DEF FollowedOrStale, LastOf, Touching, On

LEMMA SavedStays ==
  ASSUME UNCHANGED <<edge, side>>, Len(saved') <= Limit,
         \A k \in 1 .. Len(saved') : Whole(Name, saved'[k])
  PROVE  SavedWhole'
BY DEF SavedWhole, Whole, Touching, On, Name

LEMMA WrittenStays ==
  ASSUME UNCHANGED <<edge, side>>,
         Written(Name, cur', at', pos', minus', plus')
  PROVE  Written(Name, cur, at, pos, minus, plus)'
BY DEF Written, Chain, OnPiece, On, Name, GoesOn, LastOf

LEMMA GoingOn ==
  ASSUME LinesInv, Following, Advance, pc' = "follow",
         saved' \in Seq(Line), Len(saved') < Limit,
         \A k \in 1 .. Len(saved') : Whole(Name, saved'[k]),
         cur' \in Line, pos' \in Int, minus' \in Nat, plus' \in Nat,
         Written(Name, cur', at + 1, pos', minus', plus')
  PROVE  LinesInv'
<1>0. /\ edge \in Pieces /\ side \in 1 .. 4 /\ at \in Nat /\ at <= End
      /\ UNCHANGED <<edge, side, outer, found>> /\ at' = at + 1
      /\ Len(saved') \in Nat /\ Limit \in Nat
  BY LimitsAssumption DEF LinesInv, LinesTypeOK, Following, Advance
<1>1. LinesTypeOK'
  BY <1>0 DEF LinesInv, LinesTypeOK
<1>2. TablesHold' /\ SeekingFromStart'
  BY DEF TablesHold, SeekingFromStart
<1>3. SavedWhole'
  <2>1. Len(saved') <= Limit
    BY <1>0
  <2> QED BY <1>0, <2>1, SavedStays
<1>4. CurWritten'
  <2>1. End \in Nat /\ End' = End
    BY <1>0, BoxBounds DEF End, Horizontal, Name
  <2>2. at' \in 1 .. End' + 1
    BY <1>0, <2>1
  <2>3. Written(Name, cur, at, pos, minus, plus)'
    BY <1>0, WrittenStays
  <2> QED BY <2>2, <2>3 DEF CurWritten
<1>5. FollowedOrStale'
  BY <1>0, FoundStays DEF LinesInv
<1> QED BY <1>1, <1>2, <1>3, <1>4, <1>5 DEF LinesInv

(* The tables are full.                                                      *)
LEMMA LeavingFull ==
  ASSUME LinesInv, Following, Advance, cur.sc # -1, saved' = Kept, Full, Leave
  PROVE  LinesInv'
<1>0. /\ at \in Nat /\ UNCHANGED <<edge, side, outer, found, cur, pos, minus, plus>>
      /\ at' = at + 1 /\ pc' = "close"
  BY DEF LinesInv, LinesTypeOK, Following, Advance, Leave
<1>1. /\ saved' \in Seq(Line) /\ Len(saved') <= Limit /\ Len(saved') >= Limit
      /\ \A k \in 1 .. Len(saved') : Whole(Name, saved'[k])
  BY KeptWhole
<1>2. LinesTypeOK'
  BY <1>0, <1>1 DEF LinesInv, LinesTypeOK
<1>3. TablesHold' /\ SeekingFromStart'
  BY <1>0 DEF TablesHold, SeekingFromStart
<1>4. SavedWhole'
  BY <1>0, <1>1, SavedStays
<1>5. CurWritten'
  <2>1. ~(Len(saved') < Limit)
    <3>1. Len(saved') \in Nat /\ Limit \in Nat
      BY <1>1, LimitsAssumption
    <3> QED BY <1>1, <3>1
  <2> QED BY <2>1 DEF CurWritten
<1>6. FollowedOrStale'
  BY <1>0, FoundStays DEF LinesInv
<1> QED BY <1>2, <1>3, <1>4, <1>5, <1>6 DEF LinesInv

(* What a branch of the inner loop starts from.                              *)
LEMMA FollowFrom ==
  ASSUME LinesInv, Following
  PROVE  /\ LinesTypeOK /\ pc = "follow" /\ side \in 1 .. 4 /\ edge \in Pieces
         /\ at \in Nat /\ at <= End /\ End \in Nat /\ End = LastOf(Name)
         /\ pos \in Int /\ minus \in Nat /\ plus \in Nat
         /\ saved \in Seq(Line) /\ Len(saved) < Limit /\ cur \in Line
         /\ \A k \in 1 .. Len(saved) : Whole(Name, saved[k])
         /\ Written(Name, cur, at, pos, minus, plus)
         /\ cur.ec # 0 => cur.ea < End
<1>1. /\ LinesTypeOK /\ pc = "follow" /\ side \in 1 .. 4 /\ edge \in Pieces
      /\ at \in Nat /\ at <= End
      /\ pos \in Int /\ minus \in Nat /\ plus \in Nat
      /\ saved \in Seq(Line) /\ Len(saved) < Limit /\ cur \in Line
      /\ \A k \in 1 .. Len(saved) : Whole(Name, saved[k])
  BY DEF LinesInv, LinesTypeOK, Following, TablesHold, SavedWhole
<1>2. End \in Nat /\ End = LastOf(Name)
  BY <1>1, BoxBounds, SideNames
<1>3. Written(Name, cur, at, pos, minus, plus)
  BY <1>1 DEF LinesInv, CurWritten
<1>4. cur.ec # 0 => cur.ea < End
  BY <1>1, <1>2, <1>3 DEF Written, Line
<1> QED BY <1>1, <1>2, <1>3, <1>4

LEMMA SeekOnStep ==
  ASSUME LinesInv, Following, SeekOn
  PROVE  LinesInv'
<1>1. Restart(at, cur) /\ Advance /\ UNCHANGED <<pc, saved>>
  BY DEF SeekOn
<1>2. /\ cur' \in Line /\ pos' \in Int /\ minus' \in Nat /\ plus' \in Nat
      /\ Written(Name, cur', at + 1, pos', minus', plus')
  BY <1>1, FollowFrom, RestartWritten
<1> QED BY <1>1, <1>2, FollowFrom, GoingOn

(* The line goes on at c, and is then at p with m and q steps.               *)
LEMMA ExtendStep ==
  ASSUME LinesInv, Following, cur.sc # -1,
         NEW c \in pos - 1 .. pos + 1, OnPiece(Name, at, c),
         NEW p \in Int, NEW m \in Nat, NEW q \in Nat,
         IF IsHorizontal(Name)
         THEN /\ c \in p - 1 .. p
              /\ q = 1 => m = 0 /\ p - cur.sc \in 0 .. 1
              /\ q = 0 /\ m = 0 => p = cur.sc
              /\ q = 0 /\ m = 1 => p - cur.sc \in -1 .. 0
         ELSE c = p,
         cur' = Extended(c), pos' = p, minus' = m, plus' = q,
         Advance, UNCHANGED <<pc, saved>>
  PROVE  LinesInv'
<1>1. Extended(c) \in Line /\ Written(Name, Extended(c), at + 1, p, m, q)
  BY FollowFrom, ExtendWritten
<1> QED BY <1>1, FollowFrom, GoingOn

LEMMA SaveAndBeginStep ==
  ASSUME LinesInv, Following, cur.sc # -1, NEW c \in Int, OnPiece(Name, at, c),
         SaveAndBegin(c)
  PROVE  LinesInv'
<1>0. saved' = Kept /\ Advance
  BY DEF SaveAndBegin
<1>1. CASE Full
  BY <1>0, <1>1, LeavingFull DEF SaveAndBegin
<1>2. CASE ~Full
  <2>1. BeginAt(c) /\ pc' = pc
    BY <1>2 DEF SaveAndBegin
  <2>2. Begun(Entry, at, c, <<c>>) \in Line
        /\ Written(Name, Begun(Entry, at, c, <<c>>), at + 1, c, 0, 0)
    BY FollowFrom, KeptWhole, StartWritten
  <2>3. /\ cur' = Begun(Entry, at, c, <<c>>)
        /\ pos' = c /\ minus' = 0 /\ plus' = 0
    BY <2>1 DEF BeginAt
  <2>4. pc' = "follow"
    BY <2>1, FollowFrom
  <2> QED BY <1>0, <1>2, <2>2, <2>3, <2>4, KeptWhole, GoingOn
<1> QED BY <1>1, <1>2

LEMMA BreakOffStep ==
  ASSUME LinesInv, Following, NEW wild, BreakOff(wild)
  PROVE  LinesInv'
<1>0. saved' = Kept /\ Advance /\ cur.sc # -1
  BY DEF BreakOff, BrokenOff, Turned
<1>1. CASE Full
  BY <1>0, <1>1, LeavingFull DEF BreakOff
<1>2. CASE ~Full
  <2>1. Restart(at, Entry) /\ pc' = pc
    BY <1>2 DEF BreakOff
  <2>2. /\ cur' \in Line /\ pos' \in Int /\ minus' \in Nat /\ plus' \in Nat
        /\ Written(Name, cur', at + 1, pos', minus', plus')
    BY <1>0, <2>1, FollowFrom, KeptWhole, RestartWritten
  <2>3. pc' = "follow"
    BY <2>1, FollowFrom
  <2> QED BY <1>0, <1>2, <2>2, <2>3, KeptWhole, GoingOn
<1> QED BY <1>1, <1>2

(* A line that is being followed has its steps counted since its start.      *)
LEMMA StepsSoFar ==
  ASSUME LinesInv, Following, cur.sc # -1
  PROVE  /\ cur.sc \in Int /\ pos \in Int /\ minus \in Nat /\ plus \in Nat
         /\ Horizontal <=> IsHorizontal(Name)
         /\ Horizontal =>
              /\ plus = 1 => minus = 0 /\ pos - cur.sc \in 0 .. 1
              /\ plus = 0 /\ minus = 0 => pos = cur.sc
              /\ plus = 0 /\ minus = 1 => pos - cur.sc \in -1 .. 0
<1>1. /\ cur.sc \in Int /\ pos \in Int /\ minus \in Nat /\ plus \in Nat
      /\ Horizontal <=> IsHorizontal(Name)
  BY FollowFrom, SideNames DEF Line
<1>2. GoesOn(Name, cur, pos, minus, plus)
  BY FollowFrom DEF Written
<1> QED BY <1>1, <1>2 DEF GoesOn

(* A pixel read at this position, or around this one a position ahead.       *)
LEMMA OnOrAhead ==
  ASSUME LinesInv, Following, NEW wild, NEW c \in Int
  PROVE  /\ Reads(at, c, wild) => OnPiece(Name, at, c)
         /\ (\/ Reads(at + 1, c, wild)
             \/ Reads(at + 1, c - 1, wild)
             \/ c + 1 < Across /\ Reads(at + 1, c + 1, wild))
            => OnPiece(Name, at, c)
<1>1. at \in Int /\ at + 1 \in Int /\ side \in 1 .. 4 /\ Cols \in Nat
  BY FollowFrom, RasterAssumption
<1>2. c - 1 \in Int /\ c + 1 \in Int
  OBVIOUS
<1>3. ASSUME Reads(at, c, wild)
      PROVE  OnPiece(Name, at, c)
  BY <1>1, <1>3, ReadsPiece DEF OnPiece
<1>4. ASSUME NEW d \in {c - 1, c, c + 1}, Reads(at + 1, d, wild),
             d = c + 1 => d < Across
      PROVE  OnPiece(Name, at, c)
  <2>1. d \in Int /\ d \in c - 1 .. c + 1
    OBVIOUS
  <2>2. On(Name, at + 1, d) \/ (~IsHorizontal(Name) /\ d >= Cols)
    BY <1>1, <1>4, <2>1, ReadsPiece
  <2>3. CASE On(Name, at + 1, d)
    BY <2>1, <2>3 DEF OnPiece
  <2>4. CASE ~IsHorizontal(Name) /\ d >= Cols
    <3>1. Across = Cols
      BY <1>1, <2>4, SideNames DEF Across
    <3>2. c >= Cols
      BY <1>1, <1>4, <2>1, <2>4, <3>1
    <3> QED BY <2>4, <3>2 DEF OnPiece
  <2> QED BY <2>2, <2>3, <2>4
<1>5. ASSUME Reads(at + 1, c, wild) PROVE OnPiece(Name, at, c)
  <2>1. c # c + 1
    OBVIOUS
  <2> QED BY <1>4, <1>5, <2>1
<1>6. ASSUME Reads(at + 1, c - 1, wild) PROVE OnPiece(Name, at, c)
  <2>1. c - 1 # c + 1
    OBVIOUS
  <2> QED BY <1>4, <1>6, <2>1
<1>7. ASSUME c + 1 < Across, Reads(at + 1, c + 1, wild) PROVE OnPiece(Name, at, c)
  BY <1>4, <1>7
<1> QED BY <1>3, <1>5, <1>6, <1>7

LEMMA StayStep ==
  ASSUME LinesInv, Following, cur.sc # -1, OnPiece(Name, at, pos),
         Extend(pos, minus, plus)
  PROVE  LinesInv'
<1>1. /\ cur' = Extended(pos) /\ pos' = pos /\ minus' = minus /\ plus' = plus
      /\ Advance /\ UNCHANGED <<pc, saved>>
  BY DEF Extend
<1>2. pos \in pos - 1 .. pos + 1
  BY StepsSoFar
<1> QED BY <1>1, <1>2, StepsSoFar, ExtendStep

LEMMA StraightStep ==
  ASSUME LinesInv, Following, NEW wild, Straight(wild)
  PROVE  LinesInv'
<1>1. cur.sc # -1 /\ Reads(at, pos, wild) /\ Extend(pos, minus, plus)
  BY DEF Straight
<1>2. OnPiece(Name, at, pos)
  BY <1>1, FollowFrom, OnOrAhead
<1> QED BY <1>1, <1>2, StayStep

LEMMA BridgeStep ==
  ASSUME LinesInv, Following, NEW wild, Bridge(wild)
  PROVE  LinesInv'
<1>1. cur.sc # -1 /\ PixelAhead(wild) /\ Extend(pos, minus, plus)
  BY DEF Bridge, BrokenOff, Turned
<1>2. OnPiece(Name, at, pos)
  BY <1>1, FollowFrom, OnOrAhead DEF PixelAhead
<1> QED BY <1>1, <1>2, StayStep

(* What a step across needs: the counts of a horizontal line are those of    *)
(* the code, FirstCount up and SecondCount down.                             *)
LEMMA CountingStep ==
  ASSUME LinesInv, Following, cur.sc # -1,
         NEW c \in pos - 1 .. pos + 1, OnPiece(Name, at, c),
         NEW f \in Nat, NEW s \in Nat, ExtendCounting(c, f, s),
         Horizontal => /\ s = 1 => f = 0 /\ c - cur.sc \in 0 .. 1
                       /\ s = 0 /\ f = 0 => c = cur.sc
                       /\ s = 0 /\ f = 1 => c - cur.sc \in -1 .. 0
  PROVE  LinesInv'
<1>0. c \in Int /\ (Horizontal <=> IsHorizontal(Name))
  BY StepsSoFar
<1>1. CASE Horizontal
  <2>1. /\ cur' = Extended(c) /\ pos' = c /\ minus' = f /\ plus' = s
        /\ Advance /\ UNCHANGED <<pc, saved>>
    BY <1>1 DEF ExtendCounting, Extend
  <2>2. c \in c - 1 .. c
    BY <1>0
  <2> QED BY <1>0, <1>1, <2>1, <2>2, ExtendStep
<1>2. CASE ~Horizontal
  <2>1. /\ cur' = Extended(c) /\ pos' = c /\ minus' = s /\ plus' = f
        /\ Advance /\ UNCHANGED <<pc, saved>>
    BY <1>2 DEF ExtendCounting, Extend
  <2> QED BY <1>0, <1>2, <2>1, ExtendStep
<1> QED BY <1>1, <1>2

LEMMA StepBackStep ==
  ASSUME LinesInv, Following, cur.sc # -1, SecondCount = 1,
         OnPiece(Name, at, pos + FirstWay), StepBack
  PROVE  LinesInv'
<1>0. /\ cur.sc \in Int /\ pos \in Int /\ minus \in Nat /\ plus \in Nat
      /\ Horizontal <=> IsHorizontal(Name)
  BY StepsSoFar
<1>1. CASE Horizontal
  <2>1. /\ cur' = Extended(pos - 1) /\ pos' = cur.sc
        /\ minus' = minus + 1 /\ plus' = plus - 1
        /\ Advance /\ UNCHANGED <<pc, saved>>
    BY <1>1 DEF StepBack
  <2>2. plus = 1 /\ minus = 0 /\ pos - cur.sc \in 0 .. 1
    BY <1>1, StepsSoFar DEF SecondCount
  <2>3. minus' = 1 /\ plus' = 0 /\ pos + FirstWay = pos - 1
    BY <1>0, <1>1, <2>1, <2>2 DEF FirstWay
  <2>4. /\ pos - 1 \in pos - 1 .. pos + 1 /\ pos - 1 \in cur.sc - 1 .. cur.sc
        /\ cur.sc - cur.sc \in -1 .. 0
    BY <1>0, <2>2
  <2>5. OnPiece(Name, at, pos - 1)
    BY <2>3
  <2> QED BY <1>0, <1>1, <2>1, <2>3, <2>4, <2>5, ExtendStep
<1>2. CASE ~Horizontal
  <2>1. /\ cur' = Extended(pos + 1) /\ pos' = pos + 1
        /\ minus' = minus - 1 /\ plus' = plus + 1
        /\ Advance /\ UNCHANGED <<pc, saved>>
    BY <1>2 DEF StepBack, Extend
  <2>2. minus - 1 \in Nat /\ plus + 1 \in Nat /\ pos + FirstWay = pos + 1
    BY <1>0, <1>2 DEF SecondCount, FirstWay
  <2>3. pos + 1 \in pos - 1 .. pos + 1 /\ pos + 1 \in Int
    BY <1>0
  <2>4. OnPiece(Name, at, pos + 1)
    BY <2>2
  <2> QED BY <1>0, <1>2, <2>1, <2>2, <2>3, <2>4, ExtendStep
<1> QED BY <1>1, <1>2

LEMMA GoFirstWayStep ==
  ASSUME LinesInv, Following, NEW wild, GoFirstWay(wild)
  PROVE  LinesInv'
<1>0. /\ cur.sc # -1 /\ OnFirstWay(wild)
      /\ cur.sc \in Int /\ pos \in Int /\ minus \in Nat /\ plus \in Nat
      /\ FirstWay \in {-1, 1}
  BY StepsSoFar DEF GoFirstWay, Turned, FirstWay
<1>1. /\ FirstCount \in Nat /\ SecondCount \in Nat
      /\ pos + FirstWay \in pos - 1 .. pos + 1
      /\ pos - FirstWay \in pos - 1 .. pos + 1
  BY <1>0 DEF FirstCount, SecondCount
<1>2. OnPiece(Name, at, pos + FirstWay)
  BY <1>0, <1>1, OnOrAhead DEF OnFirstWay
<1>3. CASE SecondCount = 0 /\ ExtendCounting(pos + FirstWay, FirstCount + 1, 0)
  <2>1. FirstCount + 1 \in Nat /\ FirstCount + 1 # 0
    BY <1>1
  <2>2. Horizontal /\ FirstCount + 1 = 1 => pos + FirstWay - cur.sc \in -1 .. 0
    <3> SUFFICES ASSUME Horizontal, FirstCount + 1 = 1
                 PROVE  pos + FirstWay - cur.sc \in -1 .. 0
      OBVIOUS
    <3>1. minus = 0 /\ plus = 0 /\ FirstWay = -1
      BY <1>0, <1>3 DEF FirstCount, SecondCount, FirstWay
    <3>2. pos = cur.sc
      BY <1>0, <3>1, StepsSoFar
    <3> QED BY <1>0, <3>1, <3>2
  <2> QED BY <1>0, <1>1, <1>2, <1>3, <2>1, <2>2, CountingStep
<1>4. CASE /\ SecondCount > 0 /\ OnSecondWay(wild)
           /\ ExtendCounting(pos - FirstWay, FirstCount + 1, SecondCount + 1)
  <2>1. /\ FirstCount + 1 \in Nat /\ SecondCount + 1 \in Nat
        /\ SecondCount + 1 # 0 /\ SecondCount + 1 # 1
    BY <1>1, <1>4
  <2>2. OnPiece(Name, at, pos - FirstWay)
    BY <1>1, <1>4, OnOrAhead DEF OnSecondWay
  <2> QED BY <1>0, <1>1, <1>4, <2>1, <2>2, CountingStep
<1>5. CASE SecondCount = 1 /\ StepBack
  BY <1>0, <1>2, <1>5, StepBackStep
<1>6. CASE SaveAndBegin(pos + FirstWay)
  BY <1>0, <1>1, <1>2, <1>6, SaveAndBeginStep
<1> QED BY <1>3, <1>4, <1>5, <1>6 DEF GoFirstWay

LEMMA GoSecondWayStep ==
  ASSUME LinesInv, Following, NEW wild, GoSecondWay(wild)
  PROVE  LinesInv'
<1>0. /\ cur.sc # -1 /\ OnSecondWay(wild)
      /\ cur.sc \in Int /\ pos \in Int /\ minus \in Nat /\ plus \in Nat
      /\ FirstWay \in {-1, 1}
  BY StepsSoFar DEF GoSecondWay, Turned, FirstWay
<1>1. /\ FirstCount \in Nat /\ SecondCount \in Nat
      /\ pos - FirstWay \in pos - 1 .. pos + 1
  BY <1>0 DEF FirstCount, SecondCount
<1>2. OnPiece(Name, at, pos - FirstWay)
  BY <1>0, <1>1, OnOrAhead DEF OnSecondWay
<1>3. CASE FirstCount <= 1 /\ ExtendCounting(pos - FirstWay, 0, SecondCount + 1)
  <2>1. SecondCount + 1 \in Nat /\ SecondCount + 1 # 0
    BY <1>1
  <2>2. Horizontal /\ SecondCount + 1 = 1 => pos - FirstWay - cur.sc \in 0 .. 1
    <3> SUFFICES ASSUME Horizontal, SecondCount + 1 = 1
                 PROVE  pos - FirstWay - cur.sc \in 0 .. 1
      OBVIOUS
    <3>1. minus \in {0, 1} /\ plus = 0 /\ FirstWay = -1
      BY <1>0, <1>3 DEF FirstCount, SecondCount, FirstWay
    <3>2. pos - cur.sc \in -1 .. 0
      BY <1>0, <3>1, StepsSoFar
    <3> QED BY <1>0, <3>1, <3>2
  <2> QED BY <1>0, <1>1, <1>2, <1>3, <2>1, <2>2, CountingStep
<1>4. CASE SaveAndBegin(pos - FirstWay)
  BY <1>0, <1>1, <1>2, <1>4, SaveAndBeginStep
<1> QED BY <1>3, <1>4 DEF GoSecondWay

LEMMA FollowStep ==
  ASSUME LinesInv, Follow
  PROVE  LinesInv'
BY SeekOnStep, StraightStep, GoFirstWayStep, GoSecondWayStep, BridgeStep, BreakOffStep
   DEF Follow

(* A side is begun with empty tables.                                        *)
LEMMA BeginStep ==
  ASSUME LinesInv, NEW n \in 1 .. 4, Begin(n), UNCHANGED <<edge, at, pos, minus, plus>>,
         found' \in [{"up", "down", "left", "right"} -> Line \cup {None}],
         FollowedOrStale'
  PROVE  LinesInv'
<1>0. /\ side' = n /\ pc' = "seek" /\ saved' = << >> /\ cur' = Empty
      /\ outer' \in {edge.sx, edge.sy} /\ LinesTypeOK /\ edge \in Pieces
  BY DEF Begin, LinesInv, LinesTypeOK
<1>1. Empty \in Line /\ Empty.ec = 0 /\ << >> \in Seq(Line) /\ Len(<< >>) = 0
  BY DEF Empty, Line, Places
<1>2. LinesTypeOK'
  BY <1>0, <1>1, BoxBounds DEF LinesTypeOK
<1>3. TablesHold' /\ SavedWhole'
  BY <1>0, <1>1, LimitsAssumption DEF TablesHold, SavedWhole
<1>4. SeekingFromStart' /\ CurWritten'
  BY <1>0, <1>1 DEF SeekingFromStart, CurWritten
<1> QED BY <1>2, <1>3, <1>4 DEF LinesInv

LEMMA NextSideStep ==
  ASSUME LinesInv, NextSide, UNCHANGED <<edge, at, pos, minus, plus>>,
         found' \in [{"up", "down", "left", "right"} -> Line \cup {None}],
         FollowedOrStale'
  PROVE  LinesInv'
<1>0. LinesTypeOK /\ side \in 1 .. 4
  BY DEF LinesInv, LinesTypeOK
<1>1. CASE side < 4
  <2>1. Begin(side + 1) /\ side + 1 \in 1 .. 4
    BY <1>0, <1>1 DEF NextSide
  <2> QED BY <2>1, BeginStep
<1>2. CASE ~(side < 4)
  <2>1. pc' = "rows" /\ UNCHANGED <<side, outer, saved, cur>>
    BY <1>2 DEF NextSide
  <2>2. LinesTypeOK'
    BY <1>0, <2>1 DEF LinesTypeOK
  <2>3. TablesHold' /\ SeekingFromStart' /\ CurWritten'
    BY <2>1 DEF TablesHold, SeekingFromStart, CurWritten
  <2>4. SavedWhole'
    BY <2>1, SavedStays DEF LinesInv, SavedWhole
  <2> QED BY <2>2, <2>3, <2>4 DEF LinesInv
<1> QED BY <1>1, <1>2

LEMMA CheckSizeStep ==
  ASSUME LinesInv, CheckSize
  PROVE  LinesInv'
<1>0. /\ UNCHANGED <<edge, at, pos, minus, plus, found>>
      /\ FollowedOrStale' /\ LinesTypeOK
      /\ found' \in [{"up", "down", "left", "right"} -> Line \cup {None}]
  BY FoundStays DEF CheckSize, LinesInv, LinesTypeOK
<1>1. CASE Begin(1)
  BY <1>0, <1>1, BeginStep
<1>2. CASE pc' = "done" /\ UNCHANGED <<side, outer, saved, cur>>
  <2>1. LinesTypeOK'
    BY <1>0, <1>2 DEF LinesTypeOK
  <2>2. TablesHold' /\ SeekingFromStart' /\ CurWritten'
    BY <1>2 DEF TablesHold, SeekingFromStart, CurWritten
  <2>3. SavedWhole'
    BY <1>0, <1>2, SavedStays DEF LinesInv, SavedWhole
  <2> QED BY <1>0, <2>1, <2>2, <2>3 DEF LinesInv
<1> QED BY <1>1, <1>2 DEF CheckSize

(* A start of the outer loop: nothing is saved then.                         *)
LEMMA SeekStep ==
  ASSUME LinesInv, Seek
  PROVE  LinesInv'
<1>0. /\ pc = "seek" /\ outer <= End /\ outer \in Nat /\ Restart(outer, cur)
      /\ UNCHANGED <<edge, side, saved, found>> /\ LinesTypeOK
      /\ edge \in Pieces /\ side \in 1 .. 4
      /\ saved = << >> /\ (cur.ec # 0 => cur.ea < End) /\ cur \in Line
  BY DEF Seek, LinesInv, LinesTypeOK, SeekingFromStart
<1>1. /\ cur' \in Line /\ pos' \in Int /\ minus' \in Nat /\ plus' \in Nat
      /\ Written(Name, cur', outer + 1, pos', minus', plus')
  BY <1>0, RestartWritten
<1>2. End \in Nat /\ End = LastOf(Name) /\ UNCHANGED <<End, Name>>
  BY <1>0, BoxBounds, SideNames DEF End, Horizontal, Name
<1>3. SavedWhole'
  BY <1>0, SavedStays DEF LinesInv, SavedWhole
<1>4. FollowedOrStale'
  BY <1>0, FoundStays DEF LinesInv
<1>5. Len(saved') = 0 /\ 0 < Limit
  BY <1>0, LimitsAssumption
<1>6. CASE StartAt(outer) = -1
  <2>1. outer' = outer + 1 /\ UNCHANGED <<pc, at>>
    BY <1>6 DEF Seek
  <2>2. LinesTypeOK'
    BY <1>0, <1>1, <2>1 DEF LinesTypeOK
  <2>3. cur'.ec # 0 => cur'.ea < End
    <3>1. cur' = Begun(cur, outer, -1, << >>)
      BY <1>0, <1>6 DEF Restart
    <3> QED BY <1>0, <3>1 DEF Begun
  <2>4. TablesHold' /\ SeekingFromStart' /\ CurWritten'
    BY <1>0, <1>2, <1>5, <2>1, <2>3 DEF TablesHold, SeekingFromStart, CurWritten
  <2> QED BY <1>3, <1>4, <2>2, <2>4 DEF LinesInv
<1>7. CASE StartAt(outer) # -1
  <2>1. pc' = "follow" /\ at' = outer + 1 /\ UNCHANGED outer
    BY <1>7 DEF Seek
  <2>2. LinesTypeOK'
    BY <1>0, <1>1, <2>1 DEF LinesTypeOK
  <2>3. TablesHold' /\ SeekingFromStart'
    BY <1>5, <2>1 DEF TablesHold, SeekingFromStart
  <2>4. CurWritten'
    <3>1. Written(Name, cur', at', pos', minus', plus')
      BY <1>1, <2>1
    <3>2. Written(Name, cur, at, pos, minus, plus)'
      BY <1>0, <3>1, WrittenStays
    <3>3. at' \in 1 .. End' + 1
      BY <1>0, <1>2, <2>1
    <3> QED BY <2>1, <3>2, <3>3 DEF CurWritten
  <2> QED BY <1>3, <1>4, <2>2, <2>3, <2>4 DEF LinesInv
<1> QED BY <1>6, <1>7

LEMMA SeekEndsStep ==
  ASSUME LinesInv, SeekEnds
  PROVE  LinesInv'
<1>1. /\ NextSide /\ UNCHANGED <<edge, at, pos, minus, plus, found>>
      /\ FollowedOrStale' /\ LinesTypeOK
      /\ found' \in [{"up", "down", "left", "right"} -> Line \cup {None}]
  BY FoundStays DEF SeekEnds, LinesInv, LinesTypeOK
<1> QED BY <1>1, NextSideStep

LEMMA FollowEndsStep ==
  ASSUME LinesInv, FollowEnds
  PROVE  LinesInv'
<1>0. /\ pc = "follow" /\ at > End /\ pc' = "close"
      /\ UNCHANGED <<edge, side, outer, at, pos, minus, plus, saved, cur, found>>
      /\ LinesTypeOK /\ edge \in Pieces /\ side \in 1 .. 4 /\ at \in Nat
  BY DEF FollowEnds, follow, LinesInv, LinesTypeOK
<1>1. LinesTypeOK' /\ TablesHold' /\ SeekingFromStart'
  BY <1>0 DEF LinesTypeOK, TablesHold, SeekingFromStart
<1>2. SavedWhole' /\ FollowedOrStale'
  BY <1>0, SavedStays, FoundStays DEF LinesInv, SavedWhole
<1>3. CurWritten'
  <2>1. End \in Nat /\ End' = End
    BY <1>0, BoxBounds DEF End, Horizontal, Name
  <2>2. at \in 1 .. End + 1 /\ Written(Name, cur, at, pos, minus, plus)
    BY <1>0 DEF LinesInv, CurWritten, TablesHold
  <2>3. Written(Name, cur, at, pos, minus, plus)'
    BY <1>0, <2>2, WrittenStays
  <2>4. at' = End' + 1 /\ at' \in 1 .. End' + 1
    BY <1>0, <2>1, <2>2
  <2> QED BY <2>3, <2>4 DEF CurWritten
<1> QED BY <1>1, <1>2, <1>3 DEF LinesInv

(* What may become the line of a side.                                       *)
Fine(s, l) == IF l.ea > l.sa THEN Touching(s, l) ELSE l.sa = LastOf(s) /\ l.count = 1

LEMMA WholeFine ==
  ASSUME NEW s, NEW l \in Line, Whole(s, l)
  PROVE  Fine(s, l) /\ Length(l) # 0
<1>1. l.ea \in Int /\ l.sa \in Int
  BY DEF Line
<1> QED BY <1>1 DEF Whole, Fine, Length, Abs

(* The entry in use when the side has been followed to its end.              *)
LEMMA LastEntry ==
  ASSUME LinesInv, pc = "close", Len(saved) < Limit
  PROVE  /\ cur.ea # 0 /\ cur.ec # 0 /\ cur.count > 0
            => Fine(Name, cur) /\ Length(cur) # 0
         /\ ~(cur.ea # 0 /\ cur.ec # 0 /\ cur.count > 0)
            => (cur.ec # 0 => cur.ea < End)
<1>0. /\ edge \in Pieces /\ side \in 1 .. 4 /\ cur \in Line
      /\ at = End + 1 /\ Written(Name, cur, at, pos, minus, plus)
  BY DEF LinesInv, LinesTypeOK, CurWritten
<1>1. End \in Nat /\ End = LastOf(Name)
  BY <1>0, BoxBounds, SideNames
<1>2. /\ cur.sa \in Nat /\ cur.ea \in Int /\ cur.ec \in Int /\ cur.count \in Nat
  BY <1>0 DEF Line
<1>3. /\ cur.count >= 1 => /\ cur.count = Len(cur.via) /\ Len(cur.via) = at - cur.sa
                           /\ Chain(Name, cur.sa, cur.via)
      /\ cur.count >= 2 => cur.ea = at - 1
      /\ cur.count <= 1 /\ cur.ec # 0 => cur.ea < End
  BY <1>0, <1>1 DEF Written
<1>4. CASE cur.count >= 2
  <2>1. cur.ea > cur.sa /\ Len(cur.via) = cur.ea - cur.sa + 1
    BY <1>0, <1>1, <1>2, <1>3, <1>4
  <2>0. Chain(Name, cur.sa, cur.via)
    BY <1>2, <1>3, <1>4
  <2>2. Whole(Name, cur)
    <3>1. Touching(Name, cur)
      BY <1>0, <2>0, <2>1, ChainTouches
    <3> QED BY <2>1, <3>1 DEF Whole
  <2>3. cur.ea # 0
    BY <1>2, <2>1
  <2> QED BY <1>0, <1>2, <1>4, <2>2, <2>3, WholeFine
<1>5. CASE cur.count = 1
  <2>0. 1 = at - cur.sa /\ at = End + 1
    <3>1. cur.count >= 1
      BY <1>5
    <3>2. cur.count = Len(cur.via) /\ Len(cur.via) = at - cur.sa
      BY <1>3, <3>1
    <3> QED BY <1>0, <1>5, <3>2
  <2>1. cur.sa = End
    BY <1>1, <1>2, <2>0
  <2>2. ASSUME cur.ec # 0
        PROVE  Fine(Name, cur) /\ Length(cur) # 0 /\ cur.ea < End
    <3>1. cur.ea < End
      BY <1>2, <1>3, <1>5, <2>2
    <3> QED BY <1>1, <1>2, <1>5, <2>1, <3>1 DEF Fine, Length, Abs
  <2> QED BY <2>2
<1>6. CASE cur.count = 0
  BY <1>2, <1>3, <1>6
<1> QED BY <1>2, <1>4, <1>5, <1>6

LEMMA CandidatesFine ==
  ASSUME LinesInv, pc = "close"
  PROVE  /\ Candidates \in Seq(Line)
         /\ \A k \in 1 .. Len(Candidates) :
              Fine(Name, Candidates[k]) /\ Length(Candidates[k]) # 0
         /\ Len(Candidates) = 0 =>
              /\ saved = << >> /\ Candidates = saved
              /\ cur.ec # 0 => cur.ea < End
<1>0. /\ saved \in Seq(Line) /\ cur \in Line /\ Len(saved) \in Nat /\ Limit \in Nat \ {0}
  BY LimitsAssumption DEF LinesInv, LinesTypeOK
<1>1. \A k \in 1 .. Len(saved) : Fine(Name, saved[k]) /\ Length(saved[k]) # 0
  BY <1>0, WholeFine DEF LinesInv, SavedWhole
<1> DEFINE used == cur.ea # 0 /\ cur.ec # 0 /\ cur.count > 0
<1>2. CASE Len(saved) < Limit /\ used
  <2>1. Candidates = Append(saved, cur)
    BY <1>2 DEF Candidates
  <2>2. Fine(Name, cur) /\ Length(cur) # 0
    BY <1>2, LastEntry
  <2>3. /\ Candidates \in Seq(Line) /\ Len(Candidates) = Len(saved) + 1
        /\ \A k \in 1 .. Len(saved) : Candidates[k] = saved[k]
        /\ Candidates[Len(saved) + 1] = cur
    BY <1>0, <2>1
  <2>4. ASSUME NEW k \in 1 .. Len(Candidates)
        PROVE  Fine(Name, Candidates[k]) /\ Length(Candidates[k]) # 0
    <3>1. CASE k = Len(saved) + 1
      BY <2>2, <2>3, <3>1
    <3>2. CASE k # Len(saved) + 1
      <4>1. k \in 1 .. Len(saved)
        BY <1>0, <2>3, <3>2
      <4> QED BY <1>1, <2>3, <4>1
    <3> QED BY <3>1, <3>2
  <2> QED BY <1>0, <2>3, <2>4
<1>3. CASE ~(Len(saved) < Limit /\ used)
  <2>1. Candidates = saved
    BY <1>3 DEF Candidates
  <2>2. ASSUME Len(saved) = 0
        PROVE  saved = << >> /\ (cur.ec # 0 => cur.ea < End)
    <3>1. Len(saved) < Limit /\ saved = << >>
      BY <1>0, <2>2
    <3> QED BY <1>3, <3>1, LastEntry
  <2> QED BY <1>0, <1>1, <2>1, <2>2
<1> QED BY <1>2, <1>3

LEMMA CloseStep ==
  ASSUME LinesInv, Close
  PROVE  LinesInv'
<1>0. /\ pc = "close" /\ UNCHANGED <<edge, at, pos, minus, plus>> /\ LinesTypeOK
      /\ edge \in Pieces /\ side \in 1 .. 4 /\ outer \in Nat /\ cur \in Line
      /\ saved \in Seq(Line) /\ FollowedOrStale
      /\ found \in [{"up", "down", "left", "right"} -> Line \cup {None}]
  BY DEF Close, LinesInv, LinesTypeOK
<1>1. Len(Candidates) \in Nat
  BY <1>0, CandidatesFine
<1>2. CASE \A k \in 1 .. Len(Candidates) : Length(Candidates[k]) = 0
  <2>1. Len(Candidates) = 0
    <3> SUFFICES ASSUME Len(Candidates) # 0 PROVE FALSE
      OBVIOUS
    <3>1. 1 \in 1 .. Len(Candidates)
      BY <1>1
    <3> QED BY <1>0, <1>2, <3>1, CandidatesFine
  <2>2. saved = << >> /\ Candidates = saved /\ (cur.ec # 0 => cur.ea < End)
    BY <1>0, <2>1, CandidatesFine
  <2>3. /\ pc' = "seek" /\ outer' = outer + 1 /\ saved' = Candidates
        /\ cur' = (IF saved' = saved THEN cur ELSE Empty)
        /\ UNCHANGED <<side, found>>
    BY <1>2 DEF Close
  <2>4. saved' = saved /\ cur' = cur /\ End' = End
    BY <1>0, <2>2, <2>3 DEF End, Horizontal, Name
  <2>5. LinesTypeOK'
    BY <1>0, <2>3, <2>4 DEF LinesTypeOK
  <2>6. TablesHold' /\ SeekingFromStart' /\ CurWritten'
    BY <2>2, <2>3, <2>4, LimitsAssumption DEF TablesHold, SeekingFromStart, CurWritten
  <2>7. SavedWhole'
    BY <1>0, <2>3, <2>4, SavedStays DEF LinesInv, SavedWhole
  <2>8. FollowedOrStale'
    BY <1>0, <2>3, FoundStays
  <2> QED BY <2>5, <2>6, <2>7, <2>8 DEF LinesInv
<1>3. CASE ~ \A k \in 1 .. Len(Candidates) : Length(Candidates[k]) = 0
  <2>1. NextSide /\ \E k \in Longest(Candidates) :
                      found' = [found EXCEPT ![Name] = Candidates[k]]
    BY <1>3 DEF Close
  <2>2. PICK k \in 1 .. Len(Candidates) : found' = [found EXCEPT ![Name] = Candidates[k]]
    BY <2>1 DEF Longest
  <2>3. Candidates[k] \in Line /\ Fine(Name, Candidates[k])
    BY <1>0, <2>2, CandidatesFine
  <2>4. Name \in {"up", "down", "left", "right"}
    BY <1>0, SideNames
  <2>5. found' \in [{"up", "down", "left", "right"} -> Line \cup {None}]
    BY <1>0, <2>2, <2>3
  <2>6. FollowedOrStale'
    <3> SUFFICES ASSUME NEW s \in {"up", "down", "left", "right"}, found'[s] # None
                 PROVE  Fine(s, found[s])'
      BY <2>5 DEF FollowedOrStale, Fine
    <3>1. Fine(s, found'[s])
      <4>1. CASE s = Name
        BY <1>0, <2>2, <2>3, <2>4, <4>1
      <4>2. CASE s # Name
        <5>1. found'[s] = found[s]
          BY <1>0, <2>2, <2>4, <4>2
        <5> QED BY <1>0, <5>1 DEF FollowedOrStale, Fine
      <4> QED BY <4>1, <4>2
    <3> QED BY <1>0, <3>1 DEF Fine, Touching, On, LastOf
  <2> QED BY <1>0, <2>1, <2>5, <2>6, NextSideStep
<1> QED BY <1>2, <1>3

LEMMA MergeStep ==
  ASSUME LinesInv, MergeRows \/ MergeCols
  PROVE  LinesInv'
<1>0. /\ UNCHANGED <<edge, side, outer, at, pos, minus, plus, saved, cur>>
      /\ pc' \in {"cols", "done"} /\ LinesTypeOK /\ FollowedOrStale
      /\ found \in [{"up", "down", "left", "right"} -> Line \cup {None}]
  BY DEF MergeRows, MergeCols, follow, LinesInv, LinesTypeOK
<1>1. \/ UNCHANGED found
      \/ \E s \in {"up", "down", "left", "right"} : found' = [found EXCEPT ![s] = None]
  BY DEF MergeRows, MergeCols
<1>2. /\ found' \in [{"up", "down", "left", "right"} -> Line \cup {None}]
      /\ \A s \in {"up", "down", "left", "right"} : found'[s] \in {found[s], None}
  BY <1>0, <1>1
<1>3. FollowedOrStale'
  <2> SUFFICES ASSUME NEW s \in {"up", "down", "left", "right"}, found'[s] # None
               PROVE  Fine(s, found[s])'
    BY <1>2 DEF FollowedOrStale, Fine
  <2>1. found'[s] = found[s]
    BY <1>2
  <2>2. Fine(s, found'[s])
    BY <1>0, <2>1 DEF FollowedOrStale, Fine
  <2> QED BY <1>0, <2>2 DEF Fine, Touching, On, LastOf
<1>4. LinesTypeOK' /\ TablesHold' /\ SeekingFromStart' /\ CurWritten'
  BY <1>0, <1>2 DEF LinesTypeOK, TablesHold, SeekingFromStart, CurWritten
<1>5. SavedWhole'
  BY <1>0, SavedStays DEF LinesInv, SavedWhole
<1> QED BY <1>3, <1>4, <1>5 DEF LinesInv

-----------------------------------------------------------------------------
(* The theorems.                                                             *)

LEMMA LinesInit == Init => LinesInv
<1> SUFFICES ASSUME Init PROVE LinesInv
  OBVIOUS
<1>1. /\ edge \in Pieces /\ pc = "size" /\ side = 1 /\ saved = << >> /\ cur = Empty
      /\ found = [s \in {"up", "down", "left", "right"} |-> None]
      /\ outer = 0 /\ at = 0 /\ pos = 0 /\ minus = 0 /\ plus = 0
  BY DEF Init
<1>2. Empty \in Line
  BY DEF Empty, Line, Places
<1>3. LinesTypeOK
  BY <1>1, <1>2 DEF LinesTypeOK
<1>4. TablesHold /\ SeekingFromStart /\ CurWritten /\ FollowedOrStale
  BY <1>1 DEF TablesHold, SeekingFromStart, CurWritten, FollowedOrStale
<1>5. SavedWhole
  BY <1>1, LimitsAssumption DEF SavedWhole
<1> QED BY <1>3, <1>4, <1>5 DEF LinesInv

(* The invariant: types, the tables' limit, and what saved lines, the entry  *)
(* being written and the lines found are.                                    *)
THEOREM LinesInvariance == Spec => []LinesInv
<1>1. LinesInv /\ [Next]_vars => LinesInv'
  <2> SUFFICES ASSUME LinesInv, [Next]_vars PROVE LinesInv'
    OBVIOUS
  <2>1. CASE Next
    BY <2>1, CheckSizeStep, SeekStep, SeekEndsStep, FollowStep, FollowEndsStep,
       CloseStep, MergeStep DEF Next
  <2>2. CASE UNCHANGED vars
    <3>1. UNCHANGED <<edge, side, pc, outer, at, pos, minus, plus, saved, cur, found>>
      BY <2>2 DEF vars, follow
    <3>2. LinesTypeOK' /\ TablesHold' /\ FollowedOrStale'
      BY <3>1, FoundStays DEF LinesInv, LinesTypeOK, TablesHold
    <3>3. SavedWhole'
      BY <3>1, SavedStays DEF LinesInv, SavedWhole
    <3>4. SeekingFromStart'
      BY <3>1 DEF LinesInv, SeekingFromStart, End, Horizontal, Name
    <3>5. CurWritten'
      <4> SUFFICES ASSUME pc \in {"follow", "close"}, Len(saved) < Limit
                   PROVE  /\ at' \in 1 .. End' + 1 /\ (pc' = "close" => at' = End' + 1)
                          /\ Written(Name, cur, at, pos, minus, plus)'
        BY <3>1 DEF CurWritten
      <4>1. at \in 1 .. End + 1 /\ (pc = "close" => at = End + 1)
        BY DEF LinesInv, CurWritten
      <4>2. Written(Name, cur', at', pos', minus', plus')
        BY <3>1 DEF LinesInv, CurWritten
      <4>3. End' = End
        BY <3>1 DEF End, Horizontal, Name
      <4> QED BY <3>1, <4>1, <4>2, <4>3, WrittenStays
    <3> QED BY <3>2, <3>3, <3>4, <3>5 DEF LinesInv
  <2> QED BY <2>1, <2>2
<1> QED BY LinesInit, <1>1, PTL DEF Spec

(* No entry past the tables is ever written, although the limit is checked   *)
(* in three branches only and the outer loop goes on with sv_lines as it is. *)
THEOREM TablesNeverOverrun == Spec => []TablesHold
<1>1. LinesInv => TablesHold
  BY DEF LinesInv
<1> QED BY LinesInvariance, <1>1, PTL

(* Every line found was followed on the piece from its start to its end, or  *)
(* it is a pixel in the last column or row with the end of an older line.    *)
THEOREM LinesFollowed == Spec => []FollowedOrStale
<1>1. LinesInv => FollowedOrStale
  BY DEF LinesInv
<1> QED BY LinesInvariance, <1>1, PTL

-----------------------------------------------------------------------------
(* Thin lines.                                                               *)

(* The entry of a thin line, when position a is the next: the position is    *)
(* its pixel there, and of the steps only those of its way were made.        *)
ThinSoFar(s, l, a, p, m, q) ==
  /\ l.sa \in Starts(s) /\ \A b \in Starts(s) : l.sa <= b
  /\ l.sc = LineOf(s)[l.sa]
  /\ a \in l.sa + 1 .. LastOf(s) + 1
  /\ p = LineOf(s)[a - 1]
  /\ a > l.sa + 1 => l.ea = a - 1 /\ l.ec = p
  /\ Slanted(s, 1) => m = 0
  /\ Slanted(s, -1) => q = 0

ThinSeek ==
  pc = "seek" /\ Thin(Name) => /\ outer >= FirstOf(Name)
                               /\ \A a \in Starts(Name) : outer <= a

ThinFollow ==
  pc \in {"follow", "close"} /\ Thin(Name) =>
    saved = << >> /\ ThinSoFar(Name, cur, at, pos, minus, plus)

ThinFound ==
  /\ pc = "size" => side = 1
  /\ pc \notin {"cols", "done"} =>
       \A i \in 1 .. 4 : (i < side \/ pc = "rows") /\ Thin(Sides[i])
         => found[Sides[i]] # None /\ WholeLine(Sides[i], found[Sides[i]])

ThinInv == ThinSeek /\ ThinFollow /\ ThinFound

(* A thin line's pixel at position a is the only one there.                  *)
OnlyPixel(a, t) ==
  /\ t \in 0 .. Across - 1 /\ (~Horizontal => t < Cols - 1)
  /\ \A c \in 0 .. Across - 1 : \A wild : Reads(a, c, wild) <=> c = t

LEMMA SideIs ==
  ASSUME edge \in Pieces, side \in 1 .. 4
  PROVE  /\ FirstOf(Name) = Start /\ LastOf(Name) = End /\ AcrossOf(Name) = Across
         /\ HalfOf(Name) = IF Name \in {"up", "left"} THEN Low .. Mid ELSE Mid .. High
         /\ \A a, c : IsPixel(a, c) <=> On(Name, a, c)
         /\ Across \in Nat /\ 0 .. High \subseteq 0 .. Across - 1
         /\ Start \in Nat /\ End \in Nat /\ Low \in Nat /\ High \in Nat /\ Mid \in Low .. High
<1>1. Horizontal <=> IsHorizontal(Name)
  BY SideNames
<1>2. /\ FirstOf(Name) = Start /\ LastOf(Name) = End /\ AcrossOf(Name) = Across
      /\ HalfOf(Name) = IF Name \in {"up", "left"} THEN Low .. Mid ELSE Mid .. High
      /\ \A a, c : IsPixel(a, c) <=> On(Name, a, c)
  BY <1>1 DEF FirstOf, Start, LastOf, End, AcrossOf, Across, HalfOf, Low, High, Mid, IsPixel, On
<1>3. Across \in Nat /\ High \in 0 .. Across - 1
  BY RasterAssumption, PiecesAssumption DEF Across, High
<1>4. Start \in Nat /\ End \in Nat /\ Low \in Nat /\ High \in Nat /\ Mid \in Low .. High
  BY BoxBounds
<1> QED BY <1>2, <1>3, <1>4

LEMMA ThinPixel ==
  ASSUME edge \in Pieces, side \in 1 .. 4, Thin(Name), NEW a \in Start .. End
  PROVE  OnlyPixel(a, LineOf(Name)[a])
<1> DEFINE t == LineOf(Name)[a]
<1>1. /\ PixelsAt(Name, a) = {t}
      /\ IsHorizontal(Name) \/ t # Cols - 1
  BY SideIs DEF Thin
<1>2. t \in PixelsAt(Name, a)
  BY <1>1
<1> HIDE DEF t
<1>3. t \in 0 .. Across - 1
  BY <1>2, SideIs DEF PixelsAt
<1>4. Horizontal <=> IsHorizontal(Name)
  BY SideNames
<1>5. ~Horizontal => t < Cols - 1 /\ Across = Cols
  BY <1>1, <1>3, <1>4, RasterAssumption DEF Across
<1>6. ASSUME NEW c \in 0 .. Across - 1, NEW wild
      PROVE  Reads(a, c, wild) <=> c = t
  <2>1. Horizontal \/ c < Cols
    BY <1>5, RasterAssumption
  <2>2. Reads(a, c, wild) <=> On(Name, a, c)
    BY <2>1, SideIs DEF Reads
  <2>3. On(Name, a, c) <=> c \in PixelsAt(Name, a)
    BY SideIs DEF PixelsAt
  <2> QED BY <2>2, <2>3, <1>1
<1> QED BY <1>3, <1>5, <1>6 DEF OnlyPixel, t

(* A thin line is found where it is in the side's half.                      *)
LEMMA ThinStart ==
  ASSUME edge \in Pieces, side \in 1 .. 4, Thin(Name), NEW a \in Start .. End
  PROVE  StartAt(a) = IF LineOf(Name)[a] \in HalfOf(Name) THEN LineOf(Name)[a] ELSE -1
<1> DEFINE t == LineOf(Name)[a]
           C == {c \in HalfOf(Name) : IsPixel(a, c)}
<1>1. PixelsAt(Name, a) = {t}
  BY SideIs DEF Thin
<1> HIDE DEF t
<1>2. HalfOf(Name) \subseteq 0 .. Across - 1
  BY SideIs
<1>3. \A c \in HalfOf(Name) : IsPixel(a, c) <=> c = t
  <2> TAKE c \in HalfOf(Name)
  <2>1. c \in 0 .. AcrossOf(Name) - 1
    BY <1>2, SideIs
  <2>2. IsPixel(a, c) <=> c \in PixelsAt(Name, a)
    BY <2>1, SideIs DEF PixelsAt
  <2> QED BY <2>2, <1>1
<1>4. C = IF t \in HalfOf(Name) THEN {t} ELSE {}
  BY <1>3
<1>5. t \in HalfOf(Name) => t \in Int
  BY <1>2, SideIs
<1>6. StartAt(a) = IF C = {} THEN -1
                   ELSE IF Name \in {"up", "left"} THEN CHOOSE c \in C : \A d \in C : c <= d
                   ELSE CHOOSE c \in C : \A d \in C : c >= d
  <2>1. CASE Name \in {"up", "left"}
    <3>1. HalfOf(Name) = Low .. Mid
      BY <2>1, SideIs
    <3> QED BY <2>1, <3>1 DEF StartAt
  <2>2. CASE Name \notin {"up", "left"}
    <3>1. HalfOf(Name) = Mid .. High
      BY <2>2, SideIs
    <3> QED BY <2>2, <3>1 DEF StartAt
  <2> QED BY <2>1, <2>2
<1>7. CASE t \in HalfOf(Name)
  <2>1. C = {t} /\ t \in Int
    BY <1>4, <1>5, <1>7
  <2> HIDE DEF C
  <2>2. (CHOOSE c \in C : \A d \in C : c <= d) = t /\ (CHOOSE c \in C : \A d \in C : c >= d) = t
    BY <2>1
  <2> QED BY <2>1, <2>2, <1>6, <1>7 DEF t
<1>8. CASE t \notin HalfOf(Name)
  BY <1>4, <1>6, <1>8 DEF t
<1> QED BY <1>7, <1>8

(* The line along a side is the piece's.                                     *)
LEMMA PixelsStay ==
  ASSUME UNCHANGED edge
  PROVE  \A s, a : PixelsAt(s, a)' = PixelsAt(s, a)
BY DEF PixelsAt, On, IsHorizontal, AcrossOf

LEMMA LineStays ==
  ASSUME UNCHANGED edge
  PROVE  \A s : /\ FirstOf(s)' = FirstOf(s) /\ LastOf(s)' = LastOf(s)
               /\ LineOf(s)' = LineOf(s) /\ HalfOf(s)' = HalfOf(s)
<1>1. \A s : /\ FirstOf(s)' = FirstOf(s) /\ LastOf(s)' = LastOf(s) /\ HalfOf(s)' = HalfOf(s)
  BY DEF FirstOf, LastOf, HalfOf, IsHorizontal
<1>2. ASSUME NEW s PROVE LineOf(s)' = LineOf(s)
  BY <1>1, PixelsStay DEF LineOf
<1> QED BY <1>1, <1>2

LEMMA ThinStays ==
  ASSUME UNCHANGED edge
  PROVE  \A s : Thin(s)' = Thin(s)
BY PixelsStay, LineStays DEF Thin, Starts, Slanted, IsHorizontal

LEMMA ThinSeekStays ==
  ASSUME UNCHANGED edge,
         pc' = "seek" /\ Thin(Sides[side']) =>
           /\ outer' >= FirstOf(Sides[side'])
           /\ \A a \in Starts(Sides[side']) : outer' <= a
  PROVE  ThinSeek'
BY ThinStays, LineStays DEF ThinSeek, Name, Starts

LEMMA ThinFollowStays ==
  ASSUME UNCHANGED edge,
         pc' \in {"follow", "close"} /\ Thin(Sides[side']) =>
           saved' = << >> /\ ThinSoFar(Sides[side'], cur', at', pos', minus', plus')
  PROVE  ThinFollow'
BY ThinStays, LineStays DEF ThinFollow, ThinSoFar, Name, Starts, Slanted

LEMMA ThinFoundStays ==
  ASSUME UNCHANGED edge,
         pc' = "size" => side' = 1,
         pc' \notin {"cols", "done"} =>
           \A i \in 1 .. 4 : (i < side' \/ pc' = "rows") /\ Thin(Sides[i])
             => found'[Sides[i]] # None /\ WholeLine(Sides[i], found'[Sides[i]])
  PROVE  ThinFound'
BY ThinStays, LineStays DEF ThinFound, WholeLine, Starts

(* A line that does not change its side.                                     *)
LEMMA FoundStaysWhole ==
  ASSUME ThinFound, pc \notin {"size", "cols", "done", "rows"},
         pc' \notin {"size", "cols", "done", "rows"}, UNCHANGED <<edge, side, found>>
  PROVE  ThinFound'
BY ThinFoundStays DEF ThinFound

(* The positions of a thin line's side.                                      *)
LEMMA ThinSide ==
  ASSUME edge \in Pieces, side \in 1 .. 4, Thin(Name)
  PROVE  /\ FirstOf(Name) \in Nat /\ LastOf(Name) \in Nat /\ FirstOf(Name) < LastOf(Name)
         /\ FirstOf(Name) = Start /\ LastOf(Name) = End
         /\ Starts(Name) # {} /\ Starts(Name) \subseteq Start .. End - 1
         /\ \A a \in Start .. End : LineOf(Name)[a] \in Nat /\ OnlyPixel(a, LineOf(Name)[a])
         /\ LineOf(Name)[End] # 0
<1>1. /\ FirstOf(Name) \in Nat /\ LastOf(Name) \in Nat /\ FirstOf(Name) < LastOf(Name)
      /\ FirstOf(Name) = Start /\ LastOf(Name) = End
      /\ Starts(Name) # {} /\ Starts(Name) \subseteq Start .. End - 1
      /\ LineOf(Name)[End] # 0
  BY SideIs DEF Thin, Starts
<1>2. ASSUME NEW a \in Start .. End
      PROVE  LineOf(Name)[a] \in Nat /\ OnlyPixel(a, LineOf(Name)[a])
  <2>1. OnlyPixel(a, LineOf(Name)[a])
    BY ThinPixel
  <2>2. LineOf(Name)[a] \in Nat
    BY <2>1 DEF OnlyPixel
  <2> QED BY <2>1, <2>2
<1> QED BY <1>1, <1>2

(* The start of a line in the first position where it can be found.          *)
LEMMA ThinSeekStep ==
  ASSUME LinesInv, ThinInv, Seek
  PROVE  ThinInv'
<1>0. /\ pc = "seek" /\ outer <= End /\ outer \in Nat /\ Restart(outer, cur)
      /\ UNCHANGED <<edge, side, saved, found>>
      /\ edge \in Pieces /\ side \in 1 .. 4 /\ saved = << >> /\ cur \in Line
  BY DEF Seek, LinesInv, LinesTypeOK, SeekingFromStart
<1>1. pc' \in {"seek", "follow"}
  BY <1>0 DEF Seek
<1>2. ThinFound'
  BY <1>0, <1>1, FoundStaysWhole DEF ThinInv
<1>3. ASSUME Thin(Name)
      PROVE  /\ outer \in Start .. End
             /\ \A a \in Starts(Name) : outer <= a
             /\ outer \in Starts(Name) <=> outer < End /\ StartAt(outer) # -1
             /\ StartAt(outer) # -1 => StartAt(outer) = LineOf(Name)[outer]
             /\ outer < End
  <2>1. /\ outer >= FirstOf(Name) /\ \A a \in Starts(Name) : outer <= a
    BY <1>0, <1>3 DEF ThinInv, ThinSeek
  <2>2. outer \in Start .. End /\ outer < End
    <3>1. PICK a \in Starts(Name) : outer <= a
      BY <1>0, <1>3, <2>1, ThinSide
    <3>2. a \in Start .. End - 1 /\ Start \in Nat /\ End \in Nat
      BY <1>0, <1>3, <3>1, ThinSide
    <3> QED BY <1>0, <1>3, <2>1, <3>1, <3>2, ThinSide
  <2>3. LineOf(Name)[outer] \in Nat
    BY <1>0, <1>3, <2>2, ThinSide
  <2>4. StartAt(outer) = IF LineOf(Name)[outer] \in HalfOf(Name) THEN LineOf(Name)[outer] ELSE -1
    BY <1>0, <1>3, <2>2, ThinStart
  <2>5. outer \in Starts(Name) <=> LineOf(Name)[outer] \in HalfOf(Name)
    <3>1. outer \in FirstOf(Name) .. LastOf(Name) - 1
      BY <1>0, <1>3, <2>2, ThinSide
    <3> QED BY <3>1 DEF Starts
  <2> QED BY <2>1, <2>2, <2>3, <2>4, <2>5
<1>4. ThinSeek'
  <2> SUFFICES ASSUME pc' = "seek", Thin(Name)
               PROVE  outer' >= FirstOf(Name) /\ \A a \in Starts(Name) : outer' <= a
    BY <1>0, ThinSeekStays DEF Name
  <2>1. StartAt(outer) = -1 /\ outer' = outer + 1
    BY <1>0 DEF Seek
  <2>2. \A a \in Starts(Name) : outer <= a /\ outer # a /\ a \in Nat
    BY <1>0, <1>3, <2>1, ThinSide
  <2> QED BY <1>0, <1>3, <2>1, <2>2, ThinSide
<1>5. ThinFollow'
  <2> SUFFICES ASSUME pc' \in {"follow", "close"}, Thin(Name)
               PROVE  saved' = << >> /\ ThinSoFar(Name, cur', at', pos', minus', plus')
    BY <1>0, ThinFollowStays DEF Name
  <2>1. StartAt(outer) # -1 /\ at' = outer + 1
    BY <1>0 DEF Seek
  <2> DEFINE t == StartAt(outer)
  <2>2. cur' = Begun(cur, outer, t, <<t>>) /\ pos' = t /\ minus' = 0 /\ plus' = 0
    BY <1>0, <2>1 DEF Restart
  <2>3. cur'.sa = outer /\ cur'.sc = t
    BY <2>2 DEF Begun
  <2>4. /\ outer \in Starts(Name) /\ \A b \in Starts(Name) : outer <= b
        /\ t = LineOf(Name)[outer] /\ outer < End
    BY <1>3, <2>1
  <2>5. at' \in outer + 1 .. LastOf(Name) + 1 /\ at' - 1 = outer
    BY <1>0, <2>1, <2>4, ThinSide
  <2> HIDE DEF t
  <2> QED BY <1>0, <2>1, <2>2, <2>3, <2>4, <2>5 DEF ThinSoFar
<1> QED BY <1>2, <1>4, <1>5 DEF ThinInv

(* The next pixel of a thin line that is being followed is where the line    *)
(* is, or beside it in the one direction in which it is slanted.             *)
LEMMA ThinNext ==
  ASSUME LinesInv, ThinInv, Following, Thin(Name)
  PROVE  /\ saved = << >> /\ ThinSoFar(Name, cur, at, pos, minus, plus)
         /\ cur.sc # -1 /\ cur.sa \in Nat /\ at \in cur.sa + 1 .. End
         /\ pos \in 0 .. Across - 1 /\ (~Horizontal => pos < Cols - 1)
         /\ OnlyPixel(at, LineOf(Name)[at])
         /\ LineOf(Name)[at] - pos \in {-1, 0, 1}
         /\ LineOf(Name)[at] - pos = 1 => Slanted(Name, 1) /\ ~Slanted(Name, -1)
         /\ LineOf(Name)[at] - pos = -1 => Slanted(Name, -1) /\ ~Slanted(Name, 1)
<1> DEFINE t == LineOf(Name)[at]
<1>0. /\ edge \in Pieces /\ side \in 1 .. 4 /\ at \in Nat /\ at <= End
      /\ pc = "follow" /\ Start \in Nat /\ End \in Nat
  BY FollowFrom, BoxBounds
<1>1. saved = << >> /\ ThinSoFar(Name, cur, at, pos, minus, plus)
  BY <1>0 DEF ThinInv, ThinFollow
<1>2. cur.sa \in Start .. End - 1 /\ at \in cur.sa + 1 .. End + 1
  BY <1>0, <1>1, ThinSide DEF ThinSoFar
<1>3. /\ cur.sa \in Nat /\ at \in cur.sa + 1 .. End
      /\ at \in Start .. End /\ at - 1 \in Start .. End - 1 /\ at - 1 \in Start .. End
      /\ cur.sa \in Start .. End
  BY <1>0, <1>2
<1>4. cur.sc # -1
  <2>1. cur.sc = LineOf(Name)[cur.sa]
    BY <1>1 DEF ThinSoFar
  <2> QED BY <1>0, <1>3, <2>1, ThinSide
<1>5. /\ OnlyPixel(at, t) /\ OnlyPixel(at - 1, pos)
  BY <1>0, <1>1, <1>3, ThinSide DEF ThinSoFar
<1>6. /\ pos \in 0 .. Across - 1 /\ (~Horizontal => pos < Cols - 1)
      /\ pos \in Int /\ t \in Int
  BY <1>5 DEF OnlyPixel
<1>7. \A d : Slanted(Name, d) => t - pos \in {0, d}
  <2>1. at - 1 \in FirstOf(Name) .. LastOf(Name) - 1 /\ (at - 1) + 1 = at
    BY <1>0, <1>3, ThinSide
  <2>2. pos = LineOf(Name)[at - 1]
    BY <1>1 DEF ThinSoFar
  <2> QED BY <2>1, <2>2 DEF Slanted
<1>8. Slanted(Name, 1) \/ Slanted(Name, -1)
  BY DEF Thin
<1>9. t - pos \in {-1, 0, 1}
  BY <1>7, <1>8
<1>10. t - pos = 1 => Slanted(Name, 1) /\ ~Slanted(Name, -1)
  <2> HIDE DEF t
  <2> QED BY <1>7, <1>8
<1>11. t - pos = -1 => Slanted(Name, -1) /\ ~Slanted(Name, 1)
  <2> HIDE DEF t
  <2> QED BY <1>7, <1>8
<1> QED BY <1>1, <1>3, <1>4, <1>5, <1>6, <1>9, <1>10, <1>11

(* So exactly one of the inner loop's tests is met.                          *)
LEMMA ThinReads ==
  ASSUME LinesInv, ThinInv, Following, Thin(Name), NEW wild
  PROVE  /\ Reads(at, pos, wild) <=> LineOf(Name)[at] = pos
         /\ OnFirstWay(wild) <=> LineOf(Name)[at] = pos + FirstWay
         /\ OnSecondWay(wild) <=> LineOf(Name)[at] = pos - FirstWay
<1> DEFINE t == LineOf(Name)[at]
<1>1. /\ pos \in 0 .. Across - 1 /\ (~Horizontal => pos < Cols - 1)
      /\ OnlyPixel(at, t)
  BY ThinNext
<1> HIDE DEF t
<1>2. /\ t \in 0 .. Across - 1
      /\ \A c \in 0 .. Across - 1 : Reads(at, c, wild) <=> c = t
  BY <1>1 DEF OnlyPixel
<1>3. Across \in Nat /\ Cols \in Nat /\ Rows \in Nat
  BY RasterAssumption DEF Across
<1>4. CASE Horizontal
  <2>1. FirstWay = -1 /\ Across = Rows
    BY <1>4 DEF FirstWay, Across
  <2>2. OnFirstWay(wild) <=> pos > 0 /\ Reads(at, pos - 1, wild)
    BY <1>1, <1>3, <1>4, <2>1 DEF OnFirstWay
  <2>3. OnSecondWay(wild) <=> pos + 1 < Rows /\ Reads(at, pos + 1, wild)
    <3>1. pos - FirstWay = pos + 1
      BY <1>1, <1>3, <2>1
    <3> QED BY <1>4, <3>1 DEF OnSecondWay
  <2>4. pos + FirstWay = pos - 1 /\ pos - FirstWay = pos + 1
    BY <1>1, <1>3, <2>1
  <2> QED BY <1>1, <1>2, <1>3, <2>1, <2>2, <2>3, <2>4 DEF t
<1>5. CASE ~Horizontal
  <2>1. FirstWay = 1 /\ Across = Cols
    BY <1>5 DEF FirstWay, Across
  <2>2. OnFirstWay(wild) <=> Reads(at, pos + 1, wild)
    BY <1>5, <2>1 DEF OnFirstWay
  <2>3. OnSecondWay(wild) <=> pos > 0 /\ Reads(at, pos - 1, wild)
    BY <1>5, <2>1 DEF OnSecondWay
  <2>4. pos + FirstWay = pos + 1 /\ pos - FirstWay = pos - 1
    BY <1>1, <1>3, <2>1
  <2> QED BY <1>1, <1>2, <1>3, <1>5, <2>1, <2>2, <2>3, <2>4 DEF t
<1> QED BY <1>4, <1>5

(* It goes on with its pixel, and none of the steps against its way.         *)
LEMMA ThinExtend ==
  ASSUME LinesInv, ThinInv, Following, Thin(Name), NEW m, NEW q,
         Extend(LineOf(Name)[at], m, q),
         Slanted(Name, 1) => m = 0, Slanted(Name, -1) => q = 0
  PROVE  saved' = << >> /\ ThinSoFar(Name, cur', at', pos', minus', plus')
<1> DEFINE t == LineOf(Name)[at]
<1>0. /\ saved = << >> /\ ThinSoFar(Name, cur, at, pos, minus, plus)
      /\ cur.sa \in Nat /\ at \in cur.sa + 1 .. End /\ End = LastOf(Name) /\ End \in Nat
  BY ThinNext, FollowFrom
<1>1. /\ cur' = Extended(t) /\ pos' = t /\ minus' = m /\ plus' = q
      /\ at' = at + 1 /\ saved' = saved
  BY DEF Extend, Advance
<1>2. cur'.sa = cur.sa /\ cur'.sc = cur.sc /\ cur'.ea = at /\ cur'.ec = t
  BY <1>1 DEF Extended
<1>3. at' \in cur.sa + 1 .. LastOf(Name) + 1 /\ at' - 1 = at
  BY <1>0, <1>1
<1>4. /\ cur.sa \in Starts(Name) /\ \A b \in Starts(Name) : cur.sa <= b
      /\ cur.sc = LineOf(Name)[cur.sa]
  BY <1>0 DEF ThinSoFar
<1>5. t = LineOf(Name)[at]
  OBVIOUS
<1> HIDE DEF t
<1> QED BY <1>0, <1>1, <1>2, <1>3, <1>4, <1>5 DEF ThinSoFar

LEMMA ThinGoesOn ==
  ASSUME LinesInv, ThinInv, Following, Follow, Thin(Name)
  PROVE  saved' = << >> /\ ThinSoFar(Name, cur', at', pos', minus', plus')
<1> DEFINE t == LineOf(Name)[at]
<1>1. /\ ThinSoFar(Name, cur, at, pos, minus, plus) /\ cur.sc # -1
      /\ pos \in Int /\ t - pos \in {-1, 0, 1} /\ t \in Int
      /\ t - pos = 1 => Slanted(Name, 1) /\ ~Slanted(Name, -1)
      /\ t - pos = -1 => Slanted(Name, -1) /\ ~Slanted(Name, 1)
  BY ThinNext DEF OnlyPixel
<1>2. /\ Slanted(Name, 1) => minus = 0
      /\ Slanted(Name, -1) => plus = 0
  BY <1>1 DEF ThinSoFar
<1>3. PICK wild : \/ Straight(wild) \/ GoFirstWay(wild) \/ GoSecondWay(wild)
                  \/ Bridge(wild) \/ BreakOff(wild)
  BY <1>1 DEF Follow, SeekOn
<1>4. /\ Reads(at, pos, wild) <=> t = pos
      /\ OnFirstWay(wild) <=> t = pos + FirstWay
      /\ OnSecondWay(wild) <=> t = pos - FirstWay
  BY ThinReads
<1>5. FirstWay = IF Horizontal THEN -1 ELSE 1
  BY DEF FirstWay
<1> HIDE DEF t
<1>6. ~BrokenOff(wild)
  BY <1>1, <1>4, <1>5 DEF BrokenOff, Turned
<1>7. CASE Straight(wild)
  <2>1. t = pos /\ Extend(t, minus, plus)
    BY <1>4, <1>7 DEF Straight
  <2> QED BY <1>2, <2>1, ThinExtend DEF t
<1>8. CASE GoFirstWay(wild)
  <2>1. t = pos + FirstWay
    BY <1>4, <1>8 DEF GoFirstWay
  <2>2. SecondCount = 0 /\ ~OnSecondWay(wild)
    BY <1>1, <1>2, <1>4, <1>5, <2>1 DEF SecondCount
  <2>3. ExtendCounting(t, FirstCount + 1, 0)
    BY <1>8, <2>1, <2>2 DEF GoFirstWay
  <2>4. CASE Horizontal
    <3>1. Extend(t, FirstCount + 1, 0) /\ ~Slanted(Name, 1)
      BY <1>1, <1>5, <2>1, <2>3, <2>4 DEF ExtendCounting
    <3> QED BY <3>1, ThinExtend DEF t
  <2>5. CASE ~Horizontal
    <3>1. Extend(t, 0, FirstCount + 1) /\ ~Slanted(Name, -1)
      BY <1>1, <1>5, <2>1, <2>3, <2>5 DEF ExtendCounting
    <3> QED BY <3>1, ThinExtend DEF t
  <2> QED BY <2>4, <2>5
<1>9. CASE GoSecondWay(wild)
  <2>1. t = pos - FirstWay
    BY <1>4, <1>9 DEF GoSecondWay
  <2>2. FirstCount = 0
    BY <1>1, <1>2, <1>5, <2>1 DEF FirstCount
  <2>3. ExtendCounting(t, 0, SecondCount + 1)
    BY <1>9, <2>1, <2>2 DEF GoSecondWay
  <2>4. CASE Horizontal
    <3>1. Extend(t, 0, SecondCount + 1) /\ ~Slanted(Name, -1)
      BY <1>1, <1>5, <2>1, <2>3, <2>4 DEF ExtendCounting
    <3> QED BY <3>1, ThinExtend DEF t
  <2>5. CASE ~Horizontal
    <3>1. Extend(t, SecondCount + 1, 0) /\ ~Slanted(Name, 1)
      BY <1>1, <1>5, <2>1, <2>3, <2>5 DEF ExtendCounting
    <3> QED BY <3>1, ThinExtend DEF t
  <2> QED BY <2>4, <2>5
<1> QED BY <1>3, <1>6, <1>7, <1>8, <1>9 DEF Bridge, BreakOff

LEMMA FollowAdvances ==
  ASSUME Follow
  PROVE  Following /\ Advance /\ pc' \in {pc, "close"}
<1>1. PICK wild : SeekOn \/ Straight(wild) \/ GoFirstWay(wild) \/ GoSecondWay(wild)
                    \/ Bridge(wild) \/ BreakOff(wild)
  BY DEF Follow
<1>2. CASE SeekOn
  BY <1>2 DEF SeekOn, Follow
<1>3. CASE Straight(wild) \/ Bridge(wild)
  BY <1>3 DEF Straight, Bridge, Extend, Follow
<1>4. CASE BreakOff(wild)
  BY <1>4 DEF BreakOff, Leave, Follow
<1>5. CASE GoFirstWay(wild) \/ GoSecondWay(wild)
  <2>1. \/ \E c, f, s : ExtendCounting(c, f, s)
        \/ StepBack \/ \E c : SaveAndBegin(c)
    BY <1>5 DEF GoFirstWay, GoSecondWay
  <2> QED BY <2>1 DEF ExtendCounting, Extend, StepBack, SaveAndBegin, Leave, Follow
<1> QED BY <1>1, <1>2, <1>3, <1>4, <1>5

LEMMA ThinFollowStep ==
  ASSUME LinesInv, ThinInv, Follow
  PROVE  ThinInv'
<1>1. /\ Following /\ UNCHANGED <<edge, side, outer, found>>
      /\ pc = "follow" /\ pc' \in {"follow", "close"}
  BY FollowAdvances DEF Advance, Following
<1>2. ThinFound'
  BY <1>1, FoundStaysWhole DEF ThinInv
<1>3. ThinSeek'
  BY <1>1 DEF ThinSeek
<1>4. ThinFollow'
  BY <1>1, ThinGoesOn, ThinFollowStays DEF Name
<1> QED BY <1>2, <1>3, <1>4 DEF ThinInv

LEMMA ThinFollowEndsStep ==
  ASSUME LinesInv, ThinInv, FollowEnds
  PROVE  ThinInv'
<1>1. /\ pc = "follow" /\ pc' = "close"
      /\ UNCHANGED <<edge, side, outer, at, pos, minus, plus, saved, cur, found>>
  BY DEF FollowEnds, follow
<1>2. ThinFound'
  BY <1>1, FoundStaysWhole DEF ThinInv
<1>3. ThinSeek'
  BY <1>1 DEF ThinSeek
<1>4. ThinFollow'
  BY <1>1, ThinFollowStays DEF ThinInv, ThinFollow, Name
<1> QED BY <1>2, <1>3, <1>4 DEF ThinInv

(* A side is begun at the first position of its box.                         *)
LEMMA ThinBegin ==
  ASSUME edge \in Pieces, NEW n \in 1 .. 4, Begin(n), UNCHANGED edge
  PROVE  ThinSeek' /\ ThinFollow'
<1>1. side' = n /\ pc' = "seek" /\ outer' = FirstOf(Sides[n])
  BY DEF Begin, FirstOf, IsHorizontal, Sides
<1>2. ASSUME Thin(Sides[n])
      PROVE  /\ outer' >= FirstOf(Sides[n])
             /\ \A a \in Starts(Sides[n]) : outer' <= a
  <2>1. FirstOf(Sides[n]) \in Nat /\ LastOf(Sides[n]) \in Nat
    BY BoxBounds DEF FirstOf, LastOf
  <2> QED BY <1>1, <2>1 DEF Starts
<1>3. ThinSeek'
  BY <1>1, <1>2, ThinSeekStays
<1> QED BY <1>1, <1>3 DEF ThinFollow

(* When a side is left, its line has been found if it is thin.               *)
LEMMA ThinNextSide ==
  ASSUME LinesInv, ThinFound, pc \in {"seek", "close"}, NextSide, UNCHANGED edge,
         \A i \in 1 .. 4 : i < side => found'[Sides[i]] = found[Sides[i]],
         Thin(Name) => found'[Name] # None /\ WholeLine(Name, found'[Name])
  PROVE  ThinInv'
<1>0. edge \in Pieces /\ side \in 1 .. 4
  BY DEF LinesInv, LinesTypeOK
<1>1. ASSUME NEW i \in 1 .. side, Thin(Sides[i])
      PROVE  found'[Sides[i]] # None /\ WholeLine(Sides[i], found'[Sides[i]])
  <2>1. CASE i < side
    BY <1>0, <1>1, <2>1 DEF ThinFound
  <2>2. CASE i = side
    BY <1>1, <2>2 DEF Name
  <2> QED BY <1>0, <2>1, <2>2
<1>2. CASE side < 4
  <2>1. Begin(side + 1) /\ side + 1 \in 1 .. 4
    BY <1>0, <1>2 DEF NextSide
  <2>2. ThinSeek' /\ ThinFollow'
    BY <1>0, <2>1, ThinBegin
  <2>3. side' = side + 1 /\ pc' = "seek"
    BY <2>1 DEF Begin
  <2>4. ThinFound'
    BY <1>0, <1>1, <2>3, ThinFoundStays
  <2> QED BY <2>2, <2>4 DEF ThinInv
<1>3. CASE ~(side < 4)
  <2>1. side = 4 /\ pc' = "rows"
    BY <1>0, <1>3 DEF NextSide
  <2>2. ThinFound'
    BY <1>1, <2>1, ThinFoundStays
  <2> QED BY <2>1, <2>2 DEF ThinInv, ThinSeek, ThinFollow
<1> QED BY <1>2, <1>3

LEMMA ThinCheckSizeStep ==
  ASSUME LinesInv, ThinInv, CheckSize
  PROVE  ThinInv'
<1>0. edge \in Pieces /\ pc = "size" /\ UNCHANGED <<edge, found>>
  BY DEF CheckSize, LinesInv, LinesTypeOK
<1>1. CASE Begin(1)
  <2>1. ThinSeek' /\ ThinFollow'
    BY <1>0, <1>1, ThinBegin
  <2>2. ThinFound'
    BY <1>0, <1>1, ThinFoundStays DEF Begin
  <2> QED BY <2>1, <2>2 DEF ThinInv
<1>2. CASE pc' = "done"
  BY <1>2 DEF ThinInv, ThinSeek, ThinFollow, ThinFound
<1> QED BY <1>1, <1>2 DEF CheckSize

(* The outer loop does not run past a thin line.                             *)
LEMMA ThinSeekEndsStep ==
  ASSUME LinesInv, ThinInv, SeekEnds
  PROVE  ThinInv'
<1>0. /\ edge \in Pieces /\ side \in 1 .. 4 /\ outer \in Nat /\ pc = "seek" /\ outer > End
      /\ NextSide /\ UNCHANGED <<edge, found>>
  BY DEF SeekEnds, LinesInv, LinesTypeOK
<1>1. ~Thin(Name)
  <2> SUFFICES ASSUME Thin(Name) PROVE FALSE
    OBVIOUS
  <2>1. \A a \in Starts(Name) : outer <= a
    BY <1>0 DEF ThinInv, ThinSeek
  <2> QED BY <1>0, <2>1, ThinSide
<1> QED BY <1>0, <1>1, ThinNextSide DEF ThinInv

(* A thin line is the only candidate, and no line of no length.              *)
LEMMA ThinCandidate ==
  ASSUME LinesInv, ThinInv, pc = "close", Thin(Name)
  PROVE  Candidates = <<cur>> /\ Length(cur) # 0 /\ WholeLine(Name, cur)
<1>0. /\ edge \in Pieces /\ side \in 1 .. 4 /\ cur \in Line /\ End \in Nat /\ Start \in Nat
      /\ saved = << >> /\ ThinSoFar(Name, cur, at, pos, minus, plus)
      /\ Limit \in Nat /\ Limit > 0
  BY BoxBounds, LimitsAssumption DEF LinesInv, LinesTypeOK, ThinInv, ThinFollow
<1>1. /\ at = End + 1 /\ Written(Name, cur, at, pos, minus, plus)
  BY <1>0 DEF LinesInv, CurWritten
<1>2. cur.sa \in Start .. End - 1
  BY <1>0, ThinSide DEF ThinSoFar
<1>3. cur.ea = End /\ cur.ec = pos /\ pos = LineOf(Name)[End]
  <2>1. at > cur.sa + 1 /\ at - 1 = End
    BY <1>0, <1>1, <1>2
  <2> QED BY <1>0, <2>1 DEF ThinSoFar
<1>4. cur.ea # 0 /\ cur.ec # 0
  BY <1>0, <1>2, <1>3, ThinSide
<1>5. cur.count > 0
  <2>1. cur.sc = LineOf(Name)[cur.sa] /\ cur.sa \in Start .. End
    BY <1>0, <1>2 DEF ThinSoFar
  <2>2. cur.sc # -1
    BY <1>0, <2>1, ThinSide
  <2> QED BY <1>0, <1>1, <2>2 DEF Written, Line
<1>6. Candidates = <<cur>>
  BY <1>0, <1>4, <1>5 DEF Candidates
<1>7. Length(cur) # 0
  BY <1>0, <1>2, <1>3 DEF Length, Abs
<1>8. WholeLine(Name, cur)
  BY <1>0, <1>3, ThinSide DEF WholeLine, ThinSoFar
<1> QED BY <1>6, <1>7, <1>8

LEMMA ThinCloseStep ==
  ASSUME LinesInv, ThinInv, Close
  PROVE  ThinInv'
<1>0. /\ pc = "close" /\ UNCHANGED edge /\ edge \in Pieces /\ side \in 1 .. 4
      /\ cur \in Line /\ found \in [{"up", "down", "left", "right"} -> Line \cup {None}]
  BY DEF Close, LinesInv, LinesTypeOK
<1>1. CASE \A k \in 1 .. Len(Candidates) : Length(Candidates[k]) = 0
  <2>1. pc' = "seek" /\ UNCHANGED <<side, found>>
    BY <1>1 DEF Close
  <2>2. ~Thin(Name)
    <3> SUFFICES ASSUME Thin(Name) PROVE FALSE
      OBVIOUS
    <3>1. 1 \in 1 .. Len(<<cur>>) /\ <<cur>>[1] = cur
      OBVIOUS
    <3> QED BY <1>0, <1>1, <3>1, ThinCandidate
  <2>3. ThinSeek'
    BY <1>0, <2>1, <2>2, ThinSeekStays DEF Name
  <2>4. ThinFound'
    BY <1>0, <2>1, FoundStaysWhole DEF ThinInv
  <2> QED BY <2>1, <2>3, <2>4 DEF ThinInv, ThinFollow
<1>2. CASE ~ \A k \in 1 .. Len(Candidates) : Length(Candidates[k]) = 0
  <2>1. NextSide
    BY <1>2 DEF Close
  <2>2. PICK k \in 1 .. Len(Candidates) : found' = [found EXCEPT ![Name] = Candidates[k]]
    BY <1>2 DEF Close, Longest
  <2>3. Name \in {"up", "down", "left", "right"}
    BY <1>0, SideNames
  <2>4. \A i \in 1 .. 4 : i < side => found'[Sides[i]] = found[Sides[i]]
    BY <1>0, <2>2 DEF Name, Sides
  <2>5. ASSUME Thin(Name)
        PROVE  found'[Name] # None /\ WholeLine(Name, found'[Name])
    <3>1. Candidates = <<cur>> /\ WholeLine(Name, cur)
      BY <1>0, <2>5, ThinCandidate
    <3>2. k = 1 /\ Candidates[k] = cur
      BY <2>2, <3>1
    <3>3. found'[Name] = cur
      BY <1>0, <2>2, <2>3, <3>2
    <3> QED BY <1>0, <3>1, <3>3, NoneAssumption
  <2> QED BY <1>0, <2>1, <2>4, <2>5, ThinNextSide DEF ThinInv
<1> QED BY <1>1, <1>2

(* The invariant of thin lines: where the outer loop is, the line so far,    *)
(* and the lines of the sides that are done.                                 *)
THEOREM ThinInvariance == Spec => []ThinInv
<1>1. Init => ThinInv
  BY DEF Init, ThinInv, ThinSeek, ThinFollow, ThinFound
<1>2. LinesInv /\ ThinInv /\ [Next]_vars => ThinInv'
  <2> SUFFICES ASSUME LinesInv, ThinInv, [Next]_vars PROVE ThinInv'
    OBVIOUS
  <2>1. CASE MergeRows \/ MergeCols
    BY <2>1 DEF MergeRows, MergeCols, ThinInv, ThinSeek, ThinFollow, ThinFound
  <2>2. CASE UNCHANGED vars
    <3>1. UNCHANGED <<edge, side, pc, outer, at, pos, minus, plus, saved, cur, found>>
      BY <2>2 DEF vars, follow
    <3>2. ThinSeek' /\ ThinFollow'
      BY <3>1, ThinSeekStays, ThinFollowStays DEF ThinInv, ThinSeek, ThinFollow, Name
    <3>3. ThinFound'
      BY <3>1, ThinFoundStays DEF ThinInv, ThinFound
    <3> QED BY <3>2, <3>3 DEF ThinInv
  <2> QED BY <2>1, <2>2, ThinCheckSizeStep, ThinSeekStep, ThinSeekEndsStep, ThinFollowStep,
             ThinFollowEndsStep, ThinCloseStep DEF Next
<1> QED BY <1>1, <1>2, LinesInvariance, PTL DEF Spec

(* A thin line along a side, straight or slanted one way, is found whole:    *)
(* from the first of its pixels in the side's half of the box to its last.   *)
THEOREM ThinLinesWhole == Spec => []ThinLineWhole
<1>1. LinesInv /\ ThinInv => ThinLineWhole
  <2> SUFFICES ASSUME LinesInv, ThinInv, pc = "rows", NEW s \in DOMAIN found, Thin(s)
               PROVE  found[s] # None /\ WholeLine(s, found[s])
    BY DEF ThinLineWhole
  <2>1. s \in {"up", "down", "left", "right"}
    BY DEF LinesInv, LinesTypeOK
  <2>2. PICK i \in 1 .. 4 : s = Sides[i]
    BY <2>1 DEF Sides
  <2> QED BY <2>2 DEF ThinInv, ThinFound
<1> QED BY <1>1, LinesInvariance, ThinInvariance, PTL
=============================================================================
