--------------------------- MODULE TestTreeProofs ----------------------------
(* TestTree over any tree of folders with any number of images.              *)
(*                                                                           *)
(* The argument: an entry is still to come if it is left in an open folder   *)
(* or in a folder below a folder left in one.  Open folders are never below  *)
(* one that is to come, because every folder has one parent and none is      *)
(* below itself; so an entry that was walked never comes again, and one that *)
(* is in reach and does not come any more was walked.                        *)
EXTENDS TestTree, FiniteSetTheorems, SequenceTheorems, WellFoundedInduction, TLAPS

USE TreeAssumption, NamesAssumption

-----------------------------------------------------------------------------
(* The folders in reach.                                                     *)

\* The folders from which the walk does not lead out.
WalkClosed(S) == \A s \in Folders \ Fail : Parent[s] \in S => s \in S

\* To be reached is to be in every closed set that has the start.
LEMMA ReachedByAll ==
  ASSUME NEW d \in Folders, NEW e \in Folders
  PROVE  e \in Reached(d) <=>
           \A S \in SUBSET Folders : d \in S /\ WalkClosed(S) => e \in S
BY DEF Reached, WalkClosed

\* A folder is in its own reach, and so are the folders in those in reach.
LEMMA ReachedFolders ==
  ASSUME NEW d \in Folders
  PROVE  /\ Reached(d) \in SUBSET Folders /\ d \in Reached(d)
         /\ WalkClosed(Reached(d))
<1>1. Reached(d) \in SUBSET Folders /\ d \in Reached(d)
  BY DEF Reached
<1>2. ASSUME NEW s \in Folders \ Fail, Parent[s] \in Reached(d)
      PROVE  s \in Reached(d)
  <2>1. \A S \in SUBSET Folders : d \in S /\ WalkClosed(S) => Parent[s] \in S
    BY <1>1, <1>2, ReachedByAll
  <2>2. \A S \in SUBSET Folders : d \in S /\ WalkClosed(S) => s \in S
    BY <2>1 DEF WalkClosed
  <2> QED BY <2>2, ReachedByAll
<1> QED BY <1>1, <1>2 DEF WalkClosed

\* What a folder in reach reaches is in reach.
LEMMA ReachedFurther ==
  ASSUME NEW d \in Folders, NEW e \in Reached(d)
  PROVE  Reached(e) \subseteq Reached(d)
<1>1. e \in Folders /\ Reached(d) \in SUBSET Folders /\ WalkClosed(Reached(d))
  BY ReachedFolders
<1>2. Reached(e) \in SUBSET Folders
  BY <1>1, ReachedFolders
<1> QED BY <1>1, <1>2, ReachedByAll

\* A folder in reach is the first, or it is reached through its parent.
LEMMA ReachedFromParent ==
  ASSUME NEW d \in Folders, NEW e \in Reached(d), e # d
  PROVE  e \notin Fail /\ Parent[e] \in Reached(d)
<1>1. e \in Folders /\ Reached(d) \in SUBSET Folders
      /\ d \in Reached(d) /\ WalkClosed(Reached(d))
  BY ReachedFolders
<1> SUFFICES ASSUME e \in Fail \/ Parent[e] \notin Reached(d)
             PROVE  FALSE
  OBVIOUS
<1> DEFINE S == Reached(d) \ {e}
<1>2. S \in SUBSET Folders /\ d \in S
  BY <1>1
<1>3. WalkClosed(S)
  BY <1>1 DEF WalkClosed
<1>4. e \in S
  <2> HIDE DEF S
  <2> QED BY <1>1, <1>2, <1>3, ReachedByAll
<1> QED BY <1>4

\* A folder in reach is the first, or in reach of one of its folders.
LEMMA ReachedThroughChild ==
  ASSUME NEW d \in Folders, NEW e \in Reached(d), e # d
  PROVE  \E c \in Folders \ Fail : Parent[c] = d /\ e \in Reached(c)
<1> DEFINE S == {d} \cup {x \in Folders : \E c \in Folders \ Fail : Parent[c] = d /\ x \in Reached(c)}
<1>1. S \in SUBSET Folders /\ d \in S
  OBVIOUS
<1>2. WalkClosed(S)
  <2> SUFFICES ASSUME NEW s \in Folders \ Fail, Parent[s] \in S
               PROVE  s \in S
    BY DEF WalkClosed
  <2>1. CASE Parent[s] = d
    BY <2>1, ReachedFolders
  <2>2. CASE Parent[s] # d
    <3>1. PICK c \in Folders \ Fail : Parent[c] = d /\ Parent[s] \in Reached(c)
      BY <2>2
    <3>2. s \in Reached(c)
      BY <3>1, ReachedFolders DEF WalkClosed
    <3> QED BY <3>1, <3>2
  <2> QED BY <2>1, <2>2
<1>3. e \in S
  <2>1. e \in Folders
    BY ReachedFolders
  <2> HIDE DEF S
  <2> QED BY <1>1, <1>2, <2>1, ReachedByAll
<1> QED BY <1>3

\* No folder is in reach of one of its own folders.
LEMMA NeverBack ==
  ASSUME NEW d \in Folders, NEW c \in Folders \ Fail, Parent[c] = d
  PROVE  d \notin Reached(c)
<1> SUFFICES ASSUME d \in Reached(c)
             PROVE  FALSE
  OBVIOUS
<1> DEFINE S == {e \in Reached(c) : d \in Reached(e)}
<1>1. S \in SUBSET Folders /\ d \in S
  BY ReachedFolders
<1>2. \A e \in S : Parent[e] \in S
  <2> TAKE e \in S
  <2>1. CASE e = c
    BY <1>1, <2>1
  <2>2. CASE e # c
    <3>1. e \in Folders \ Fail /\ Parent[e] \in Reached(c)
      BY <2>2, ReachedFromParent, ReachedFolders
    <3>2. Parent[e] \in Folders
      BY <3>1, ReachedFolders
    <3>3. e \in Reached(Parent[e])
      BY <3>1, <3>2, ReachedFolders DEF WalkClosed
    <3>4. Reached(e) \subseteq Reached(Parent[e])
      BY <3>2, <3>3, ReachedFurther
    <3> QED BY <3>1, <3>4
  <2> QED BY <2>1, <2>2
<1> HIDE DEF S
<1> QED BY <1>1, <1>2, NoCycleAssumption

-----------------------------------------------------------------------------
(* The number of a result file.                                              *)

\* A set of numbers that is not empty has a least one.
LEMMA LeastNumber ==
  ASSUME NEW S \in SUBSET Nat, S # {}
  PROVE  \E n \in S : \A m \in S : n <= m
<1>1. PICK n \in S : \A m \in S : <<m, n>> \notin OpToRel(<, Nat)
  BY NatLessThanWellFounded, WFMin
<1>2. \A m \in S : ~(m < n)
  BY <1>1 DEF OpToRel
<1> QED BY <1>2

\* A number that is used is passed over: the file that is written is new.
LEMMA UnusedIsNew ==
  ASSUME NEW d \in Folders, IsFiniteSet(Texts)
  PROVE  /\ FirstUnused(d) \notin Texts /\ FirstUnused(d) \in Folders \X Nat
         /\ FirstUnused(d)[1] = d
<1> DEFINE N == Cardinality(Texts)
           free == {n \in 0 .. N : <<d, n>> \notin Texts}
<1>1. N \in Nat
  BY FS_CardinalityType
<1>2. free # {}
  <2> SUFFICES ASSUME \A n \in 0 .. N : <<d, n>> \in Texts
               PROVE  FALSE
    OBVIOUS
  <2> DEFINE g == [n \in 0 .. N |-> <<d, n>>]
  <2>1. g \in Injection(0 .. N, Texts)
    BY DEF Injection, IsInjective
  <2>2. IsFiniteSet(0 .. N) /\ Cardinality(0 .. N) = N + 1
    <3>1. N - 0 + 1 = N + 1 /\ 0 \in Int /\ N \in Int /\ 0 <= N
      BY <1>1
    <3> HIDE DEF N
    <3>2. IsFiniteSet(0 .. N) /\ Cardinality(0 .. N) = IF 0 > N THEN 0 ELSE N - 0 + 1
      BY <3>1, FS_Interval
    <3> QED BY <3>1, <3>2
  <2> HIDE DEF g
  <2>3. Cardinality(0 .. N) <= Cardinality(Texts)
    BY <2>1, FS_Injection DEF ExistsInjection
  <2> HIDE DEF N
  <2>4. Cardinality(Texts) = N
    BY DEF N
  <2> QED BY <1>1, <2>2, <2>3, <2>4
<1>3. PICK n \in free : \A m \in free : n <= m
  <2>1. free \in SUBSET Nat
    BY <1>1
  <2> HIDE DEF free
  <2> QED BY <1>2, <2>1, LeastNumber
<1> DEFINE W == {<<d, k>> : k \in 0 .. Cardinality(Texts)} \ Texts
           First(t) == \A k \in 0 .. t[2] - 1 : <<d, k>> \in Texts
<1>4. <<d, n>> \in W /\ First(<<d, n>>)
  <2>1. <<d, n>> \in W
    OBVIOUS
  <2>2. \A k \in 0 .. n - 1 : <<d, k>> \in Texts
    BY <1>1, <1>3
  <2> QED BY <2>1, <2>2
<1>5. FirstUnused(d) = CHOOSE t \in W : First(t)
  BY DEF FirstUnused
<1>6. FirstUnused(d) \in W
  <2> HIDE DEF W, First
  <2> QED BY <1>4, <1>5
<1>7. PICK k \in 0 .. N : FirstUnused(d) = <<d, k>> /\ <<d, k>> \notin Texts
  BY <1>6
<1> QED BY <1>1, <1>7

-----------------------------------------------------------------------------
(* Types.                                                                    *)

USE DEF Texts

ResultFile == Folders \X Nat
Line == [of : Images \cup ResultFile, ok : BOOLEAN]
Frame == [path : Folders, left : SUBSET (Folders \cup Images \cup Texts)]

TreeTypeOK ==
  /\ where \in [Images -> Folders]
  /\ Texts \in SUBSET ResultFile /\ IsFiniteSet(Texts)
  /\ shows \in SUBSET Images
  /\ src \in Images \cup {None}
  /\ success_count \in Nat /\ fail_count \in Nat
  /\ stack \in Seq(Frame) /\ (f = None => stack = << >>)
  /\ f \in Texts \cup {None} /\ (f # None => texts[f] \in Seq(Line))

\* A file of the folders below a folder's entries.
LEMMA EntriesTyped ==
  ASSUME TreeTypeOK, NEW d \in Folders
  PROVE  Entries(d) \in SUBSET (Folders \cup Images \cup Texts)
BY DEF Entries, TreeTypeOK

\* What TestFile leaves behind.
LEMMA Tested ==
  ASSUME TreeTypeOK, NEW e \in Images \cup Texts, TestFile(e)
  PROVE  /\ src' \in Images \cup {None} /\ DOMAIN texts' = Texts
         /\ success_count' \in Nat /\ fail_count' \in Nat
         /\ \A t \in Texts \ {f} : texts'[t] = texts[t]
         /\ f # None => texts'[f] \in Seq(Line)
<1>1. src' \in Images \cup {None}
  BY DEF TestFile, TreeTypeOK
<1>2. CASE src' = None
  BY <1>1, <1>2 DEF TestFile, TreeTypeOK, counts
<1>3. CASE src' # None
  <2>1. success_count' \in Nat /\ fail_count' \in Nat
    BY <1>3 DEF TestFile, TreeTypeOK
  <2>2. texts' = [t \in Texts |->
                    IF t = f THEN Append(texts[t], [of |-> e, ok |-> src' \in shows]) ELSE texts[t]]
    BY <1>3 DEF TestFile
  <2>3. ASSUME f # None PROVE texts'[f] \in Seq(Line)
    <3>1. f \in Texts /\ texts[f] \in Seq(Line)
      BY <2>3 DEF TreeTypeOK
    <3>2. e \in Images \cup ResultFile
      BY DEF TreeTypeOK
    <3>3. [of |-> e, ok |-> src' \in shows] \in Line
      <4>1. (src' \in shows) \in BOOLEAN
        OBVIOUS
      <4> QED BY <3>2, <4>1 DEF Line
    <3> QED BY <2>2, <3>1, <3>3
  <2> QED BY <1>1, <2>1, <2>2, <2>3
<1> QED BY <1>2, <1>3

\* While the walk is under way, the innermost folder and what is left in it.
LEMMA TopTyped ==
  ASSUME TreeTypeOK, stack # << >>
  PROVE  /\ f # None /\ stack \in Seq(Frame) /\ Len(stack) \in Nat \ {0}
         /\ Top \in Frame /\ Top.left \in SUBSET (Folders \cup Images \cup Texts)
<1>1. f # None /\ stack \in Seq(Frame)
  BY DEF TreeTypeOK
<1>2. Len(stack) \in Nat \ {0}
  BY <1>1
<1>3. Top \in Frame
  BY <1>1, <1>2 DEF Top
<1> QED BY <1>1, <1>2, <1>3 DEF Frame

\* The variables of the walk keep their types.
THEOREM TreeTypeCorrect == Spec => []TreeTypeOK
<1>1. Init => TreeTypeOK
  <2> SUFFICES ASSUME Init PROVE TreeTypeOK
    OBVIOUS
  <2>1. Texts = {} /\ IsFiniteSet(Texts)
    BY FS_EmptySet DEF Init
  <2> QED BY <2>1 DEF Init, TreeTypeOK
<1>2. TreeTypeOK /\ [Next]_vars => TreeTypeOK'
  <2> SUFFICES ASSUME TreeTypeOK, [Next]_vars
               PROVE  TreeTypeOK'
    OBVIOUS
  <2>1. ASSUME NEW file \in Images \cup Texts, SelectFile(file)
        PROVE  TreeTypeOK'
    <3>1. f = None /\ f' = f /\ UNCHANGED <<where, shows, stack>> /\ TestFile(file)
      BY <2>1 DEF SelectFile, Idle
    <3>2. stack' \in Seq(Frame')
      BY <3>1 DEF TreeTypeOK
    <3> QED BY <3>1, <3>2, Tested DEF TreeTypeOK
  <2>2. ASSUME NEW t \in Texts, DeleteText(t)
        PROVE  TreeTypeOK'
    <3>1. f = None /\ UNCHANGED <<where, shows, src, counts, stack, f>>
          /\ Texts' = Texts \ {t}
      BY <2>2 DEF DeleteText, Idle
    <3>2. IsFiniteSet(Texts \ {t})
      BY FS_RemoveElement DEF TreeTypeOK
    <3>3. stack' \in Seq(Frame')
      BY <3>1 DEF TreeTypeOK
    <3> QED BY <3>1, <3>2, <3>3 DEF TreeTypeOK, counts
  <2>3. CASE ChangeOptions
    BY <2>3 DEF ChangeOptions, TreeTypeOK, counts, Frame
  <2>4. CASE TestTreeRefused
    BY <2>4 DEF TestTreeRefused, TreeTypeOK, Frame
  <2>5. ASSUME NEW path \in Folders, TestTreeStart(path)
        PROVE  TreeTypeOK'
    <3>1. /\ f' = FirstUnused(path) /\ UNCHANGED <<where, shows, src>>
          /\ success_count' = 0 /\ fail_count' = 0
          /\ texts' = [t \in Texts \cup {f'} |-> IF t = f' THEN << >> ELSE texts[t]]
          /\ stack' = <<[path |-> path, left |-> Entries(path) \cup {f'}]>>
      BY <2>5 DEF TestTreeStart
    <3>2. f' \in ResultFile
      BY <3>1, UnusedIsNew DEF TreeTypeOK, ResultFile
    <3>3. f' # None
      BY <3>2 DEF ResultFile
    <3>4. Texts' = Texts \cup {f'} /\ texts'[f'] = << >>
      BY <3>1
    <3>5. IsFiniteSet(Texts')
      BY <3>4, FS_AddElement DEF TreeTypeOK
    <3>6. [path |-> path, left |-> Entries(path) \cup {f'}] \in Frame'
      BY <3>4, EntriesTyped DEF Frame
    <3>7. stack' \in Seq(Frame')
      BY <3>1, <3>6
    <3> QED BY <3>1, <3>2, <3>3, <3>4, <3>5, <3>7 DEF TreeTypeOK
  <2>6. CASE Walk
    <3>1. PICK e \in Top.left : WalkFile(e) \/ EnterFolder(e) \/ PassFail(e)
      BY <2>6 DEF Walk
    <3>2. /\ stack # << >> /\ f # None /\ Len(stack) \in Nat \ {0}
          /\ Top \in Frame /\ Top.left \ {e} \in SUBSET (Folders \cup Images \cup Texts)
      BY <2>6, TopTyped DEF Walk
    <3>3. Past(e) \in Seq(Frame)
      <4>1. [Top EXCEPT !.left = @ \ {e}] \in Frame
        BY <3>2 DEF Frame
      <4>2. stack \in Seq(Frame)
        BY DEF TreeTypeOK
      <4> QED BY <3>2, <4>1, <4>2 DEF Past, Top
    <3>4. CASE WalkFile(e)
      <4>1. e \in Images \cup Texts
        BY <3>1, <3>2, <3>4 DEF WalkFile, Frame, TreeTypeOK
      <4>2. UNCHANGED <<where, shows, f>> /\ stack' = Past(e) /\ TestFile(e)
        BY <3>4 DEF WalkFile
      <4> QED BY <3>2, <3>3, <4>1, <4>2, Tested DEF TreeTypeOK, Frame
    <3>5. CASE EnterFolder(e)
      <4>1. e \in Folders /\ UNCHANGED <<where, texts, shows, src, counts, f>>
            /\ stack' = Append(Past(e), [path |-> e, left |-> Entries(e)])
        BY <3>5 DEF EnterFolder
      <4>2. [path |-> e, left |-> Entries(e)] \in Frame
        BY <4>1, EntriesTyped DEF Frame
      <4>3. stack' \in Seq(Frame)
        BY <3>3, <4>1, <4>2
      <4> QED BY <3>2, <4>1, <4>3 DEF TreeTypeOK, counts, Frame
    <3>6. CASE PassFail(e)
      BY <3>2, <3>3, <3>6 DEF PassFail, TreeTypeOK, counts, Frame
    <3> QED BY <3>1, <3>4, <3>5, <3>6
  <2>7. CASE LeaveFolder
    <3>1. SubSeq(stack, 1, Len(stack) - 1) \in Seq(Frame) /\ f # None
      BY <2>7 DEF LeaveFolder, TreeTypeOK
    <3> QED BY <2>7, <3>1 DEF LeaveFolder, TreeTypeOK, counts, Frame
  <2>8. CASE Finish
    <3>1. /\ f' = None /\ stack' = << >> /\ DOMAIN texts' = Texts
          /\ UNCHANGED <<where, shows, src, counts>>
      BY <2>8 DEF Finish
    <3> QED BY <3>1 DEF TreeTypeOK, counts, Frame
  <2>9. CASE UNCHANGED vars
    BY <2>9 DEF vars, TreeTypeOK, counts, Frame
  <2> QED BY <2>1, <2>2, <2>3, <2>4, <2>5, <2>6, <2>7, <2>8, <2>9 DEF Next
<1> QED BY <1>1, <1>2, PTL DEF Spec

-----------------------------------------------------------------------------
(* Result files.                                                             *)

\* No step changes a result file of an earlier run.
THEOREM EarlierResultsKept == Spec => ResultsKept
<1> DEFINE Kept == \A t \in Texts \ {f} : t \in DOMAIN texts' => texts'[t] = texts[t]
<1>1. TreeTypeOK /\ [Next]_vars => Kept \/ UNCHANGED vars
  <2> SUFFICES ASSUME TreeTypeOK, Next
               PROVE  Kept
    OBVIOUS
  <2>1. ASSUME NEW file \in Images \cup Texts, SelectFile(file)
        PROVE  Kept
    BY <2>1, Tested DEF SelectFile
  <2>2. ASSUME NEW t \in Texts, DeleteText(t)
        PROVE  Kept
    BY <2>2 DEF DeleteText
  <2>3. CASE ChangeOptions \/ TestTreeRefused \/ LeaveFolder
    BY <2>3 DEF ChangeOptions, TestTreeRefused, LeaveFolder
  <2>4. ASSUME NEW path \in Folders, TestTreeStart(path)
        PROVE  Kept
    <3>1. FirstUnused(path) \notin Texts
      BY UnusedIsNew DEF TreeTypeOK
    <3> QED BY <2>4, <3>1 DEF TestTreeStart
  <2>5. CASE Walk
    <3>1. PICK e \in Top.left : WalkFile(e) \/ EnterFolder(e) \/ PassFail(e)
      BY <2>5 DEF Walk
    <3>2. CASE WalkFile(e)
      <4>1. e \in Images \cup Texts
        BY <2>5, <3>1, <3>2, TopTyped DEF WalkFile, Walk
      <4> QED BY <3>2, <4>1, Tested DEF WalkFile
    <3>3. CASE EnterFolder(e) \/ PassFail(e)
      BY <3>3 DEF EnterFolder, PassFail
    <3> QED BY <3>1, <3>2, <3>3
  <2>6. CASE Finish
    BY <2>6 DEF Finish
  <2> QED BY <2>1, <2>2, <2>3, <2>4, <2>5, <2>6 DEF Next
<1> QED BY <1>1, TreeTypeCorrect, PTL DEF Spec, ResultsKept

-----------------------------------------------------------------------------
(* Totals.                                                                   *)

Passes(s) == {k \in DOMAIN s : IsLine(s[k]) /\ s[k].ok}
Failures(s) == {k \in DOMAIN s : IsLine(s[k]) /\ ~s[k].ok}

\* One line more is one success or one failure more.
LEMMA LineCounts ==
  ASSUME NEW X, NEW s \in Seq([of : X, ok : BOOLEAN]), NEW l \in [of : X, ok : BOOLEAN]
  PROVE  LET t == Append(s, l) IN
         /\ Cardinality(Passes(t)) = Cardinality(Passes(s)) + (IF l.ok THEN 1 ELSE 0)
         /\ Cardinality(Failures(t)) = Cardinality(Failures(s)) + (IF l.ok THEN 0 ELSE 1)
<1> DEFINE t == Append(s, l)
           n == Len(s)
<1>1. /\ n \in Nat /\ DOMAIN s = 1 .. n /\ DOMAIN t = 1 .. n + 1 /\ t[n + 1] = l
      /\ \A k \in 1 .. n : t[k] = s[k] /\ IsLine(s[k])
      /\ IsLine(l)
  <2>1. /\ n \in Nat /\ DOMAIN s = 1 .. n /\ DOMAIN t = 1 .. n + 1 /\ t[n + 1] = l
        /\ \A k \in 1 .. n : t[k] = s[k]
    OBVIOUS
  <2>2. \A r \in [of : X, ok : BOOLEAN] : IsLine(r)
    BY DEF IsLine
  <2>3. \A k \in 1 .. n : s[k] \in [of : X, ok : BOOLEAN]
    <3> DEFINE R == [of : X, ok : BOOLEAN]
    <3>1. s \in Seq(R)
      OBVIOUS
    <3> HIDE DEF R
    <3>2. \A k \in 1 .. n : s[k] \in R
      BY <3>1
    <3> QED BY <3>2 DEF R
  <2> HIDE DEF n, t
  <2> QED BY <2>1, <2>2, <2>3
<1> HIDE DEF t, n
<1>2. IsFiniteSet(1 .. n)
  <2>1. 1 \in Int /\ n \in Int
    BY <1>1
  <2> QED BY <2>1, FS_Interval
<1>3. /\ Passes(s) \in SUBSET (1 .. n) /\ Failures(s) \in SUBSET (1 .. n)
  BY <1>1 DEF Passes, Failures
<1>4. IsFiniteSet(Passes(s)) /\ IsFiniteSet(Failures(s))
  BY <1>2, <1>3, FS_Subset
<1>5. n + 1 \notin Passes(s) /\ n + 1 \notin Failures(s)
  BY <1>1, <1>3
<1>6. CASE l.ok
  <2>1. Passes(t) = Passes(s) \cup {n + 1} /\ Failures(t) = Failures(s)
    BY <1>1, <1>6 DEF Passes, Failures
  <2>2. Cardinality(Passes(s) \cup {n + 1}) = Cardinality(Passes(s)) + 1
    BY <1>4, <1>5, FS_AddElement
  <2>3. Cardinality(Failures(s)) \in Nat
    BY <1>4, FS_CardinalityType
  <2> QED BY <1>6, <2>1, <2>2, <2>3 DEF t
<1>7. CASE ~l.ok
  <2>1. Failures(t) = Failures(s) \cup {n + 1} /\ Passes(t) = Passes(s)
    BY <1>1, <1>7 DEF Passes, Failures
  <2>2. Cardinality(Failures(s) \cup {n + 1}) = Cardinality(Failures(s)) + 1
    BY <1>4, <1>5, FS_AddElement
  <2>3. Cardinality(Passes(s)) \in Nat
    BY <1>4, FS_CardinalityType
  <2> QED BY <1>7, <2>1, <2>2, <2>3 DEF t
<1> QED BY <1>6, <1>7

\* A finished file ends with the numbers of its lines; in the file that is
\* being written the counters have them so far.
Totalled(s) ==
  /\ s[Len(s)].success = Cardinality(Passes(s))
  /\ s[Len(s)].fail = Cardinality(Failures(s))
CountInv ==
  /\ \A t \in Texts \ {f} : Totalled(texts[t])
  /\ f # None => /\ success_count = Cardinality(Passes(texts[f]))
                 /\ fail_count = Cardinality(Failures(texts[f]))

LEMMA CountInvAfter ==
  ASSUME \A t \in Texts' \ {f'} : Totalled(texts'[t]),
         f' # None => /\ success_count' = Cardinality(Passes(texts'[f']))
                     /\ fail_count' = Cardinality(Failures(texts'[f']))
  PROVE  CountInv'
BY DEF CountInv, Totalled, Passes, Failures, IsLine

\* The totals of every result file are those of its lines, whatever was
\* tested before and between.
THEOREM TotalsCount == Spec => []TotalsAreTheLines
<1>1. Init => CountInv
  BY DEF Init, CountInv
<1>2. TreeTypeOK /\ CountInv /\ [Next]_vars => CountInv'
  <2> SUFFICES ASSUME TreeTypeOK, CountInv, [Next]_vars
               PROVE  CountInv'
    OBVIOUS
  <2>1. ASSUME NEW file \in Images \cup Texts, SelectFile(file)
        PROVE  CountInv'
    <3>1. f = None /\ f' = f /\ TestFile(file)
      BY <2>1 DEF SelectFile, Idle
    <3>2. DOMAIN texts' = Texts /\ \A t \in Texts \ {f} : texts'[t] = texts[t]
      BY <3>1, Tested
    <3> QED BY <3>1, <3>2, CountInvAfter DEF CountInv
  <2>2. ASSUME NEW t \in Texts, DeleteText(t)
        PROVE  CountInv'
    BY <2>2, CountInvAfter DEF DeleteText, Idle, CountInv
  <2>3. CASE ChangeOptions \/ TestTreeRefused
    BY <2>3, CountInvAfter DEF ChangeOptions, TestTreeRefused, Idle, CountInv, counts
  <2>4. ASSUME NEW path \in Folders, TestTreeStart(path)
        PROVE  CountInv'
    <3>1. f' \notin Texts /\ f = None
      BY <2>4, UnusedIsNew DEF TreeTypeOK, TestTreeStart, Idle
    <3>2. /\ success_count' = 0 /\ fail_count' = 0
          /\ texts' = [t \in Texts \cup {f'} |-> IF t = f' THEN << >> ELSE texts[t]]
      BY <2>4 DEF TestTreeStart
    <3>3. texts'[f'] = << >> /\ \A t \in Texts' \ {f'} : t \in Texts \ {f} /\ texts'[t] = texts[t]
      <4>1. None \notin Texts
        BY DEF TreeTypeOK, ResultFile
      <4> QED BY <3>1, <3>2, <4>1
    <3>4. Cardinality(Passes(<< >>)) = 0 /\ Cardinality(Failures(<< >>)) = 0
      <4>1. Passes(<< >>) = {} /\ Failures(<< >>) = {}
        BY DEF Passes, Failures
      <4> QED BY <4>1, FS_EmptySet
    <3>5. \A t \in Texts' \ {f'} : Totalled(texts'[t])
      BY <3>3 DEF CountInv
    <3> QED BY <3>2, <3>3, <3>4, <3>5, CountInvAfter DEF CountInv
  <2>5. CASE Walk
    <3>1. PICK e \in Top.left : WalkFile(e) \/ EnterFolder(e) \/ PassFail(e)
      BY <2>5 DEF Walk
    <3>2. CASE WalkFile(e)
      <4>1. e \in Images \cup Texts /\ f # None
        BY <2>5, <3>1, <3>2, TopTyped DEF WalkFile, Walk
      <4>2. TestFile(e) /\ f' = f
        BY <3>2 DEF WalkFile
      <4>3. f \in Texts /\ texts[f] \in Seq(Line)
        BY <4>1 DEF TreeTypeOK
      <4>4. CASE src' = None
        BY <4>2, <4>4, CountInvAfter DEF TestFile, counts, CountInv
      <4>5. CASE src' # None
        <5> DEFINE l == [of |-> e, ok |-> src' \in shows]
        <5>1. /\ DOMAIN texts' = Texts /\ texts'[f] = Append(texts[f], l)
              /\ \A t \in Texts \ {f} : texts'[t] = texts[t]
          BY <4>2, <4>3, <4>5 DEF TestFile
        <5>2. /\ success_count' = success_count + (IF l.ok THEN 1 ELSE 0)
              /\ fail_count' = fail_count + (IF l.ok THEN 0 ELSE 1)
          <6>1. CASE src' \in shows
            BY <4>2, <4>5, <6>1 DEF TestFile, TreeTypeOK
          <6>2. CASE src' \notin shows
            BY <4>2, <4>5, <6>2 DEF TestFile, TreeTypeOK
          <6> QED BY <6>1, <6>2
        <5>3. l \in Line
          BY <4>1 DEF Line, TreeTypeOK
        <5> HIDE DEF l
        <5>4. /\ Cardinality(Passes(texts'[f])) = Cardinality(Passes(texts[f])) + (IF l.ok THEN 1 ELSE 0)
              /\ Cardinality(Failures(texts'[f])) = Cardinality(Failures(texts[f])) + (IF l.ok THEN 0 ELSE 1)
          <6> DEFINE X == Images \cup ResultFile
          <6>1. texts[f] \in Seq([of : X, ok : BOOLEAN]) /\ l \in [of : X, ok : BOOLEAN]
            BY <4>3, <5>3 DEF Line
          <6> HIDE DEF X
          <6> QED BY <5>1, <6>1, LineCounts
        <5>5. /\ success_count' = Cardinality(Passes(texts'[f]))
              /\ fail_count' = Cardinality(Failures(texts'[f]))
          BY <4>1, <5>2, <5>4 DEF CountInv
        <5> QED BY <4>2, <5>1, <5>5, CountInvAfter DEF CountInv
      <4> QED BY <4>4, <4>5
    <3>3. CASE EnterFolder(e) \/ PassFail(e)
      BY <3>3, CountInvAfter DEF EnterFolder, PassFail, counts, CountInv
    <3> QED BY <3>1, <3>2, <3>3
  <2>6. CASE LeaveFolder \/ UNCHANGED vars
    BY <2>6, CountInvAfter DEF LeaveFolder, vars, counts, CountInv
  <2>7. CASE Finish
    <3> DEFINE total == [success |-> success_count, fail |-> fail_count]
    <3>1. f # None /\ f \in Texts /\ texts[f] \in Seq(Line) /\ f' = None
      BY <2>7 DEF Finish, Idle, TreeTypeOK
    <3>2. texts' = [texts EXCEPT ![f] = Append(@, total)]
      BY <2>7 DEF Finish
    <3>3. Totalled(Append(texts[f], total))
      <4> DEFINE s == texts[f]
                 u == Append(s, total)
      <4>1. /\ Len(u) = Len(s) + 1 /\ u[Len(u)] = total /\ DOMAIN u = 1 .. Len(s) + 1
            /\ DOMAIN s = 1 .. Len(s) /\ Len(s) \in Nat
            /\ \A k \in 1 .. Len(s) : u[k] = s[k]
        BY <3>1
      <4>2. ~IsLine(total)
        BY DEF IsLine
      <4>3. total.success = success_count /\ total.fail = fail_count
        OBVIOUS
      <4>4. success_count = Cardinality(Passes(s)) /\ fail_count = Cardinality(Failures(s))
        BY <3>1 DEF CountInv
      <4> HIDE DEF s, u, total
      <4>5. Passes(u) = Passes(s) /\ Failures(u) = Failures(s)
        BY <4>1, <4>2 DEF Passes, Failures
      <4> QED BY <4>1, <4>3, <4>4, <4>5 DEF Totalled, u, s
    <3>4. \A t \in Texts : texts'[t] = IF t = f THEN Append(texts[f], total) ELSE texts[t]
      BY <3>1, <3>2
    <3>5. Texts' = Texts
      BY <3>2
    <3> HIDE DEF total
    <3>6. \A t \in Texts : Totalled(texts'[t])
      BY <3>3, <3>4 DEF CountInv
    <3> QED BY <3>1, <3>5, <3>6, CountInvAfter DEF CountInv
  <2> QED BY <2>1, <2>2, <2>3, <2>4, <2>5, <2>6, <2>7 DEF Next
<1>3. CountInv => TotalsAreTheLines
  <2> SUFFICES ASSUME CountInv, NEW t \in Texts \ {f}
               PROVE  LET total == texts[t][Len(texts[t])] IN
                      /\ total.success = Cardinality({k \in Lines(t) : texts[t][k].ok})
                      /\ total.fail = Cardinality({k \in Lines(t) : ~texts[t][k].ok})
    BY DEF TotalsAreTheLines
  <2>1. /\ {k \in Lines(t) : texts[t][k].ok} = Passes(texts[t])
        /\ {k \in Lines(t) : ~texts[t][k].ok} = Failures(texts[t])
    BY DEF Lines, Passes, Failures
  <2> QED BY <2>1 DEF CountInv, Totalled
<1> QED BY <1>1, <1>2, <1>3, TreeTypeCorrect, PTL DEF Spec

-----------------------------------------------------------------------------
(* The walk.                                                                 *)

HomeOf(x) == IF x \in Images THEN where[x] ELSE x[1]

\* The folders the walk st will enter.
Below(st) ==
  {d \in Folders : \E k \in 1 .. Len(st) : \E c \in Folders \ Fail :
     c \in st[k].left /\ d \in Reached(c)}

\* The file x is out of the walk's reach, or it is still to come.
Unwalked(st, x) ==
  \/ HomeOf(x) \notin Reached(f[1])
  \/ HomeOf(x) \in Below(st)
  \/ \E k \in 1 .. Len(st) : x \in st[k].left

\* The open folders are different ones and will not be entered again; what
\* is left in them is in them.
Place(st) ==
  \A k \in 1 .. Len(st) :
    /\ st[k].path \in Reached(f[1]) /\ st[k].path \notin Below(st)
    /\ \A x \in st[k].left :
         st[k].path = IF x \in Folders THEN Parent[x] ELSE HomeOf(x)
    /\ \A l \in 1 .. Len(st) : st[k].path = st[l].path => k = l

\* The walk st2 is st without the entry e of the innermost folder.
Without(st, st2, e) ==
  /\ Len(st2) = Len(st)
  /\ \A k \in 1 .. Len(st) :
       /\ st2[k].path = st[k].path
       /\ st2[k].left = IF k = Len(st) THEN st[k].left \ {e} ELSE st[k].left

\* The walk past an entry has lost that entry and nothing else.
LEMMA PastIsWithout ==
  ASSUME TreeTypeOK, stack # << >>, NEW e
  PROVE  Past(e) \in Seq(Frame) /\ Without(stack, Past(e), e)
<1>1. /\ stack \in Seq(Frame) /\ Len(stack) \in Nat \ {0} /\ Top \in Frame
      /\ Top = stack[Len(stack)]
  BY TopTyped DEF Top
<1> DEFINE g == [Top EXCEPT !.left = @ \ {e}]
<1>2. g \in Frame /\ g.path = Top.path /\ g.left = Top.left \ {e}
  BY <1>1 DEF Frame
<1>3. Past(e) = [stack EXCEPT ![Len(stack)] = g]
  BY <1>1 DEF Past
<1> HIDE DEF g
<1>4. /\ Past(e) \in Seq(Frame) /\ Len(Past(e)) = Len(stack)
      /\ \A k \in 1 .. Len(stack) : Past(e)[k] = IF k = Len(stack) THEN g ELSE stack[k]
  BY <1>1, <1>2, <1>3
<1> QED BY <1>1, <1>2, <1>4 DEF Without

\* A file that is walked does not come again, and nothing else changes.
LEMMA FileWalked ==
  ASSUME TreeTypeOK, NEW st \in Seq(Frame), Len(st) > 0, Place(st),
         NEW st2, NEW e \in st[Len(st)].left, e \notin Folders, Without(st, st2, e)
  PROVE  /\ Place(st2) /\ Unwalked(st, e) /\ ~Unwalked(st2, e)
         /\ \A x : x # e => (Unwalked(st2, x) <=> Unwalked(st, x))
<1>1. Len(st) \in 1 .. Len(st) /\ Len(st2) = Len(st)
  BY DEF Without
<1>2. Below(st2) = Below(st)
  BY <1>1 DEF Below, Without
<1>3. Place(st2)
  BY <1>1, <1>2 DEF Place, Without
<1>4. Unwalked(st, e)
  BY <1>1 DEF Unwalked
<1>5. ~Unwalked(st2, e)
  <2>1. HomeOf(e) = st[Len(st)].path
    BY <1>1 DEF Place
  <2>2. HomeOf(e) \in Reached(f[1]) /\ HomeOf(e) \notin Below(st2)
    BY <1>1, <1>2, <2>1 DEF Place
  <2>3. \A k \in 1 .. Len(st) : e \notin st2[k].left
    BY <1>1, <2>1 DEF Place, Without
  <2> QED BY <1>1, <2>2, <2>3 DEF Unwalked
<1>6. \A x : x # e => (Unwalked(st2, x) <=> Unwalked(st, x))
  BY <1>1, <1>2 DEF Unwalked, Without
<1> QED BY <1>3, <1>4, <1>5, <1>6

\* Passing over a folder called Fail changes nothing.
LEMMA FailPassed ==
  ASSUME TreeTypeOK, NEW st \in Seq(Frame), Len(st) > 0, Place(st),
         NEW st2, NEW e \in Fail, Without(st, st2, e)
  PROVE  /\ Place(st2)
         /\ \A x \in Images \cup Texts : Unwalked(st2, x) <=> Unwalked(st, x)
<1>1. Len(st) \in 1 .. Len(st) /\ Len(st2) = Len(st)
  BY DEF Without
<1>2. Below(st2) = Below(st)
  BY <1>1 DEF Below, Without
<1>3. \A x \in Images \cup Texts : x # e
  BY DEF TreeTypeOK, ResultFile
<1> QED BY <1>1, <1>2, <1>3 DEF Place, Unwalked, Without

\* A folder that is left was empty.
LEMMA FolderLeft ==
  ASSUME TreeTypeOK, NEW st \in Seq(Frame), Len(st) > 0, Place(st),
         st[Len(st)].left = {}
  PROVE  LET st2 == SubSeq(st, 1, Len(st) - 1) IN
         Place(st2) /\ \A x : Unwalked(st2, x) <=> Unwalked(st, x)
<1> DEFINE st2 == SubSeq(st, 1, Len(st) - 1)
<1>1. /\ Len(st) \in Nat \ {0} /\ Len(st2) = Len(st) - 1
      /\ \A k \in 1 .. Len(st) - 1 : st2[k] = st[k]
  <2>1. Len(st) \in Nat \ {0}
    OBVIOUS
  <2>2. Len(st2) = Len(st) - 1
    <3> DEFINE m == Len(st) - 1
    <3>1. /\ 1 \in Int /\ m \in Int /\ \A i \in 1 .. m : st[i] \in Frame
          /\ (IF 1 <= m THEN m - 1 + 1 ELSE 0) = Len(st) - 1
      <4>1. m \in Nat /\ m = Len(st) - 1
        BY <2>1
      <4>2. \A i \in 1 .. Len(st) : st[i] \in Frame
        OBVIOUS
      <4>3. \A i \in 1 .. m : i \in 1 .. Len(st)
        BY <2>1
      <4> HIDE DEF m
      <4>4. (IF 1 <= m THEN m - 1 + 1 ELSE 0) = m
        <5>1. CASE m = 0
          BY <5>1
        <5>2. CASE m # 0
          <6>1. m \in Nat \ {0}
            BY <4>1, <5>2
          <6>2. \A q \in Nat \ {0} : 1 <= q /\ q - 1 + 1 = q
            OBVIOUS
          <6>3. 1 <= m /\ m - 1 + 1 = m
            BY ONLY <6>1, <6>2
          <6> QED BY <6>3
        <5> QED BY <5>1, <5>2
      <4> QED BY <4>1, <4>2, <4>3, <4>4
    <3> HIDE DEF m
    <3>2. Len(SubSeq(st, 1, m)) = IF 1 <= m THEN m - 1 + 1 ELSE 0
      BY <3>1, SubSeqProperties
    <3> QED BY <3>1, <3>2 DEF m
  <2>3. \A k \in 1 .. Len(st) - 1 : st2[k] = st[k]
    BY <2>1
  <2> QED BY <2>1, <2>2, <2>3
<1> HIDE DEF st2
<1>2. Below(st2) = Below(st)
  BY <1>1 DEF Below
<1>3. Place(st2)
  BY <1>1, <1>2 DEF Place
<1>4. \A x : Unwalked(st2, x) <=> Unwalked(st, x)
  BY <1>1, <1>2 DEF Unwalked
<1> QED BY <1>3, <1>4 DEF st2

\* A folder that is entered has in it what was to come in it, and below it.
LEMMA FolderEntered ==
  ASSUME TreeTypeOK, f # None, NEW st \in Seq(Frame), Len(st) > 0, Place(st),
         NEW st1 \in Seq(Frame), NEW e \in Folders \ Fail, e \in st[Len(st)].left,
         Without(st, st1, e), NEW g, g.path = e, g.left = Entries(e)
  PROVE  LET st2 == Append(st1, g) IN
         /\ Place(st2)
         /\ \A x \in Images \cup Texts : Unwalked(st2, x) <=> Unwalked(st, x)
<1> DEFINE st2 == Append(st1, g)
           n == Len(st)
<1>1. /\ n \in Nat \ {0} /\ Len(st2) = n + 1 /\ st2[n + 1] = g
      /\ \A k \in 1 .. n : /\ st2[k].path = st[k].path
                           /\ st2[k].left = IF k = n THEN st[k].left \ {e} ELSE st[k].left
  <2>1. n \in Nat \ {0} /\ Len(st1) = n
    BY DEF Without
  <2>2. Len(st2) = n + 1 /\ st2[n + 1] = g /\ \A k \in 1 .. n : st2[k] = st1[k]
    BY <2>1
  <2> QED BY <2>1, <2>2 DEF Without
<1>2. /\ Parent[e] = st[n].path /\ e \in Reached(e) /\ e \in Below(st)
      /\ Reached(e) \subseteq Below(st)
  <2>1. Parent[e] = st[n].path
    BY <1>1 DEF Place
  <2>2. e \in Reached(e) /\ Reached(e) \in SUBSET Folders
    BY ReachedFolders
  <2>3. Reached(e) \subseteq Below(st)
    BY <1>1, <2>2 DEF Below
  <2> QED BY <2>1, <2>2, <2>3
<1> HIDE DEF st2
<1>3. \A c \in Folders : c \in g.left <=> Parent[c] = e
  BY DEF Entries, TreeTypeOK, ResultFile
<1>4. \A x \in Images \cup Texts : x \in g.left <=> HomeOf(x) = e
  BY DEF Entries, TreeTypeOK, ResultFile, HomeOf
<1>5. ASSUME NEW d \in Below(st), d # e
      PROVE  d \in Below(st2)
  <2>1. PICK k \in 1 .. n : \E c \in Folders \ Fail : c \in st[k].left /\ d \in Reached(c)
    BY DEF Below
  <2>2. PICK c \in Folders \ Fail : c \in st[k].left /\ d \in Reached(c)
    BY <2>1
  <2>3. d \in Folders /\ k \in 1 .. Len(st2)
    BY <1>1 DEF Below
  <2>4. CASE c = e
    <3>1. PICK b \in Folders \ Fail : Parent[b] = e /\ d \in Reached(b)
      BY <1>5, <2>2, <2>4, ReachedThroughChild
    <3>2. b \in st2[n + 1].left /\ n + 1 \in 1 .. Len(st2)
      BY <1>1, <1>3, <3>1
    <3> QED BY <2>3, <3>1, <3>2 DEF Below
  <2>5. CASE c # e
    <3>1. c \in st2[k].left
      BY <1>1, <2>2, <2>5
    <3> QED BY <2>2, <2>3, <3>1 DEF Below
  <2> QED BY <2>4, <2>5
<1>6. ASSUME NEW d \in Below(st2)
      PROVE  d \in Below(st) /\ d # e
  <2>1. PICK k \in 1 .. n + 1 : \E c \in Folders \ Fail : c \in st2[k].left /\ d \in Reached(c)
    BY <1>1 DEF Below
  <2>2. PICK c \in Folders \ Fail : c \in st2[k].left /\ d \in Reached(c)
    BY <2>1
  <2>3. d \in Folders
    BY DEF Below
  <2>4. Parent[e] \in Reached(c) => Parent[e] \in Below(st)
    <3>1. CASE k = n + 1
      <4>1. c \in Reached(e)
        BY <1>1, <1>2, <1>3, <2>2, <3>1, ReachedFolders DEF WalkClosed
      <4> QED BY <1>2, <4>1, ReachedFurther
    <3>2. CASE k # n + 1
      <4>1. k \in 1 .. n /\ c \in st[k].left
        <5>1. k \in 1 .. n
          BY <1>1, <3>2
        <5> QED BY <1>1, <2>2, <5>1
      <4>2. Reached(c) \in SUBSET Folders
        BY ReachedFolders
      <4> QED BY <4>1, <4>2 DEF Below
    <3> QED BY <3>1, <3>2
  <2>5. Parent[e] \notin Below(st) /\ Parent[e] \notin Reached(c)
    <3>1. Parent[e] \notin Below(st)
      BY <1>1, <1>2 DEF Place
    <3> QED BY <2>4, <3>1
  <2>6. c # e
    <3>1. CASE k = n + 1
      <4>1. Parent[c] = e
        BY <1>1, <1>3, <2>2, <3>1
      <4>2. ASSUME c = e PROVE FALSE
        BY <1>2, <2>5, <4>1, <4>2
      <4> QED BY <4>2
    <3>2. CASE k # n + 1
      <4> SUFFICES ASSUME c = e PROVE FALSE
        OBVIOUS
      <4>1. k \in 1 .. n /\ k # n /\ e \in st[k].left
        <5>1. k \in 1 .. n
          BY <1>1, <3>2
        <5> QED BY <1>1, <2>2, <5>1
      <4>2. Parent[e] = st[k].path
        BY <4>1 DEF Place
      <4> QED BY <1>1, <1>2, <4>1, <4>2 DEF Place
    <3> QED BY <3>1, <3>2
  <2>7. d # e
    <3> SUFFICES ASSUME d = e PROVE FALSE
      OBVIOUS
    <3>1. Parent[e] \in Reached(c)
      BY <2>2, <2>6, ReachedFromParent
    <3> QED BY <2>5, <3>1
  <2>8. d \in Below(st)
    <3>1. CASE k = n + 1
      <4>1. c \in Reached(e)
        BY <1>1, <1>2, <1>3, <2>2, <3>1, ReachedFolders DEF WalkClosed
      <4> QED BY <1>2, <2>2, <4>1, ReachedFurther
    <3>2. CASE k # n + 1
      <4>1. k \in 1 .. n /\ c \in st[k].left
        <5>1. k \in 1 .. n
          BY <1>1, <3>2
        <5> QED BY <1>1, <2>2, <5>1
      <4> QED BY <2>2, <2>3, <4>1 DEF Below
    <3> QED BY <3>1, <3>2
  <2> QED BY <2>7, <2>8
<1>7. e \in Reached(f[1]) /\ f[1] \in Folders
  <2>1. st[n].path \in Reached(f[1])
    BY <1>1 DEF Place
  <2>2. f[1] \in Folders
    BY DEF TreeTypeOK, ResultFile
  <2> QED BY <1>2, <2>1, <2>2, ReachedFolders DEF WalkClosed
<1>8. Place(st2)
  <2> SUFFICES ASSUME NEW k \in 1 .. n + 1
               PROVE  /\ st2[k].path \in Reached(f[1]) /\ st2[k].path \notin Below(st2)
                      /\ \A x \in st2[k].left :
                           st2[k].path = IF x \in Folders THEN Parent[x] ELSE HomeOf(x)
                      /\ \A l \in 1 .. n + 1 : st2[k].path = st2[l].path => k = l
    BY <1>1 DEF Place
  <2>1. \A l \in 1 .. n : st2[l].path # e /\ st2[l].path \notin Below(st2)
    BY <1>1, <1>2, <1>6 DEF Place
  <2>2. e \notin Below(st2)
    BY <1>6
  <2>3. CASE k = n + 1
    <3>1. st2[k].path = e
      BY <1>1, <2>3
    <3>2. \A x \in g.left : e = IF x \in Folders THEN Parent[x] ELSE HomeOf(x)
      <4>1. g.left \in SUBSET (Folders \cup Images \cup Texts)
        BY EntriesTyped
      <4> QED BY <1>3, <1>4, <4>1
    <3> QED BY <1>1, <1>7, <2>1, <2>2, <2>3, <3>1, <3>2
  <2>4. CASE k # n + 1
    <3>1. k \in 1 .. n
      BY <1>1, <2>4
    <3>2. \A x \in st2[k].left : x \in st[k].left
      BY <1>1, <3>1
    <3>3. \A x \in st2[k].left :
            st2[k].path = IF x \in Folders THEN Parent[x] ELSE HomeOf(x)
      BY <1>1, <3>1, <3>2 DEF Place
    <3>4. \A l \in 1 .. n + 1 : st2[k].path = st2[l].path => k = l
      <4> TAKE l \in 1 .. n + 1
      <4>1. CASE l = n + 1
        BY <1>1, <2>1, <3>1, <4>1
      <4>2. CASE l # n + 1
        <5>1. l \in 1 .. n
          BY <1>1, <4>2
        <5> QED BY <1>1, <3>1, <5>1 DEF Place
      <4> QED BY <4>1, <4>2
    <3>5. st2[k].path \in Reached(f[1]) /\ st2[k].path \notin Below(st2)
      BY <1>1, <2>1, <3>1 DEF Place
    <3> QED BY <3>3, <3>4, <3>5
  <2> QED BY <2>3, <2>4
<1>9. ASSUME NEW x \in Images \cup Texts
      PROVE  Unwalked(st2, x) <=> Unwalked(st, x)
  <2>1. x # e
    BY DEF TreeTypeOK, ResultFile
  <2>2. (\E k \in 1 .. Len(st2) : x \in st2[k].left)
          <=> (\E k \in 1 .. n : x \in st[k].left) \/ HomeOf(x) = e
    <3>1. \A k \in 1 .. n : x \in st2[k].left <=> x \in st[k].left
      BY <1>1, <2>1
    <3>2. x \in st2[n + 1].left <=> HomeOf(x) = e
      BY <1>1, <1>4
    <3>3. \A k \in 1 .. Len(st2) : k \in 1 .. n \/ k = n + 1
      BY <1>1
    <3>4. n + 1 \in 1 .. Len(st2) /\ \A k \in 1 .. n : k \in 1 .. Len(st2)
      BY <1>1
    <3> HIDE DEF n
    <3> QED BY <3>1, <3>2, <3>3, <3>4
  <2> QED BY <1>2, <1>5, <1>6, <2>2 DEF Unwalked
<1> QED BY <1>8, <1>9 DEF st2

\* At the start everything in reach is to come.
LEMMA WalkStarts ==
  ASSUME TreeTypeOK', NEW d \in Folders, f'[1] = d,
         NEW g, g.path = d, g.left = (Entries(d))', stack' = <<g>>
  PROVE  (Place(stack))' /\ \A x \in Images \cup Texts' : (Unwalked(stack, x))'
<1>1. Len(stack') = 1 /\ stack'[1] = g /\ 1 .. Len(stack') = {1}
  OBVIOUS
<1>2. \A c \in Folders : c \in g.left <=> Parent[c] = d
  BY DEF Entries, TreeTypeOK, ResultFile
<1>3. \A x \in Images \cup Texts' : x \in g.left <=> (HomeOf(x))' = d
  BY DEF Entries, TreeTypeOK, ResultFile, HomeOf
<1>4. d \notin (Below(stack))'
  <2> SUFFICES ASSUME d \in (Below(stack))' PROVE FALSE
    OBVIOUS
  <2>1. PICK c \in Folders \ Fail : c \in g.left /\ d \in Reached(c)
    BY <1>1 DEF Below
  <2> QED BY <1>2, <2>1, NeverBack
<1>5. (Place(stack))'
  <2>1. g.left \in SUBSET (Folders \cup Images \cup Texts')
    BY DEF Entries, TreeTypeOK
  <2>2. d \in Reached(f'[1])
    BY ReachedFolders
  <2> QED BY <1>1, <1>2, <1>3, <1>4, <2>1, <2>2 DEF Place
<1>6. ASSUME NEW x \in Images \cup Texts'
      PROVE  (Unwalked(stack, x))'
  <2>1. CASE (HomeOf(x))' = d
    BY <1>1, <1>3, <2>1 DEF Unwalked
  <2>2. CASE (HomeOf(x))' # d /\ (HomeOf(x))' \in Reached(d)
    <3>1. PICK c \in Folders \ Fail : Parent[c] = d /\ (HomeOf(x))' \in Reached(c)
      BY <2>2, ReachedThroughChild
    <3>2. (HomeOf(x))' \in Folders
      BY <2>2, ReachedFolders
    <3> QED BY <1>1, <1>2, <3>1, <3>2 DEF Unwalked, Below
  <2>3. CASE (HomeOf(x))' \notin Reached(d)
    BY <2>3 DEF Unwalked
  <2> QED BY <2>1, <2>2, <2>3
<1> QED BY <1>5, <1>6

-----------------------------------------------------------------------------
(* The lines.                                                                *)

\* The sequence s of lines has exactly one about x.
Once(s, x) ==
  \E k \in 1 .. Len(s) : s[k].of = x /\ \A l \in 1 .. Len(s) : s[l].of = x => l = k

\* The detector has had an image since the walk began, as far as s tells.
HadImage(s, held) == IF s = << >> THEN held # None ELSE s[1].of \in Texts

\* What the lines s have of the walk st, when the detector holds an image.
Recorded(st, s, held) ==
  /\ \A x \in Images \cup Texts : Unwalked(st, x) => \A k \in 1 .. Len(s) : s[k].of # x
  /\ \A i \in Images : ~Unwalked(st, i) => Once(s, i)
  /\ HadImage(s, held) => \A t \in Texts : ~Unwalked(st, t) => Once(s, t)
  /\ \A k \in 1 .. Len(s) : s[k].of \in Images => (s[k].ok <=> s[k].of \in shows)
  /\ s # << >> => (s[Len(s)].ok <=> held \in shows)
  /\ \A k \in 2 .. Len(s) : s[k].of \in Texts => (s[k].ok <=> s[k - 1].ok)

WalkInv ==
  f # None => /\ Place(stack) /\ Recorded(stack, texts[f], src)
              /\ src = None => texts[f] = << >>

\* A line about a file that was walked.
LEMMA LineAdded ==
  ASSUME TreeTypeOK, NEW st, NEW s \in Seq(Line), NEW held, Recorded(st, s, held),
         NEW st2, NEW e \in Images \cup Texts, NEW held2, held2 # None,
         held2 = IF e \in Images THEN e ELSE held,
         Unwalked(st, e), ~Unwalked(st2, e),
         \A x : x # e => (Unwalked(st2, x) <=> Unwalked(st, x)),
         NEW l \in Line, l.of = e, l.ok <=> held2 \in shows
  PROVE  Recorded(st2, Append(s, l), held2)
<1> DEFINE u == Append(s, l)
           n == Len(s)
<1>1. n \in Nat /\ Len(u) = n + 1 /\ u[n + 1] = l /\ \A k \in 1 .. n : u[k] = s[k]
  OBVIOUS
<1>2. u # << >> /\ (s = << >> <=> n = 0)
  BY <1>1
<1>3. \A k \in 1 .. n + 1 : k = n + 1 \/ k \in 1 .. n
  BY <1>1
<1>4. \A k \in 1 .. n : k \in 1 .. n + 1 /\ k # n + 1
  BY <1>1
<1>5. n + 1 \in 1 .. n + 1
  BY <1>1
<1> HIDE DEF u
<1>6. \A k \in 1 .. n : s[k].of # e
  BY DEF Recorded
<1> HIDE DEF n
<1>7. Once(u, e)
  BY <1>1, <1>3, <1>5, <1>6 DEF Once
<1>8. ASSUME NEW x, x # e, Once(s, x)
      PROVE  Once(u, x)
  <2>1. PICK k \in 1 .. n : s[k].of = x /\ \A m \in 1 .. n : s[m].of = x => m = k
    BY <1>8 DEF Once, n
  <2>2. k \in 1 .. n + 1 /\ u[k].of = x
    BY <1>1, <1>4, <2>1
  <2>3. ASSUME NEW m \in 1 .. n + 1, u[m].of = x
        PROVE  m = k
    <3>1. m # n + 1
      BY <1>1, <1>8, <2>3
    <3>2. m \in 1 .. n
      BY <1>3, <3>1
    <3> QED BY <1>1, <2>1, <2>3, <3>2
  <2> QED BY <1>1, <2>2, <2>3 DEF Once
<1>9. \A x \in Images \cup Texts : Unwalked(st2, x) => \A k \in 1 .. Len(u) : u[k].of # x
  <2> SUFFICES ASSUME NEW x \in Images \cup Texts, Unwalked(st2, x), NEW k \in 1 .. n + 1
               PROVE  u[k].of # x
    BY <1>1
  <2>1. x # e /\ Unwalked(st, x)
    OBVIOUS
  <2>2. \A m \in 1 .. n : s[m].of # x
    BY <2>1 DEF Recorded, n
  <2> QED BY <1>1, <1>3, <2>1, <2>2
<1>10. \A i \in Images : ~Unwalked(st2, i) => Once(u, i)
  BY <1>7, <1>8 DEF Recorded
<1>11. HadImage(u, held2) => \A t \in Texts : ~Unwalked(st2, t) => Once(u, t)
  <2> SUFFICES ASSUME u[1].of \in Texts, NEW t \in Texts, ~Unwalked(st2, t), t # e
               PROVE  Once(u, t)
    BY <1>2, <1>7 DEF HadImage
  <2>1. HadImage(s, held)
    <3>1. CASE s = << >>
      <4>1. u[1] = l
        BY <1>1, <1>2, <3>1
      <4>2. e \notin Images
        BY <4>1 DEF TreeTypeOK, ResultFile
      <4> QED BY <3>1, <4>2 DEF HadImage
    <3>2. CASE s # << >>
      <4>1. u[1] = s[1]
        BY <1>1, <1>2, <3>2
      <4> QED BY <3>2, <4>1 DEF HadImage
    <3> QED BY <3>1, <3>2
  <2>2. Once(s, t)
    BY <2>1 DEF Recorded
  <2> QED BY <1>8, <2>2
<1>12. \A k \in 1 .. Len(u) : u[k].of \in Images => (u[k].ok <=> u[k].of \in shows)
  <2> SUFFICES ASSUME NEW k \in 1 .. n + 1, u[k].of \in Images
               PROVE  u[k].ok <=> u[k].of \in shows
    BY <1>1
  <2>1. CASE k = n + 1
    BY <1>1, <2>1
  <2>2. CASE k \in 1 .. n
    <3>1. u[k] = s[k] /\ (s[k].of \in Images => (s[k].ok <=> s[k].of \in shows))
      BY <1>1, <2>2 DEF Recorded, n
    <3> QED BY <3>1
  <2> QED BY <1>3, <2>1, <2>2
<1>13. u[Len(u)].ok <=> held2 \in shows
  BY <1>1
<1>14. \A k \in 2 .. Len(u) : u[k].of \in Texts => (u[k].ok <=> u[k - 1].ok)
  <2> SUFFICES ASSUME NEW k \in 2 .. n + 1, u[k].of \in Texts
               PROVE  u[k].ok <=> u[k - 1].ok
    BY <1>1
  <2>1. k - 1 \in 1 .. n /\ u[k - 1] = s[k - 1]
    BY <1>1
  <2>2. CASE k = n + 1
    <3>1. e \notin Images /\ held2 = held
      BY <1>1, <2>2 DEF TreeTypeOK, ResultFile
    <3>2. s # << >> /\ k - 1 = n
      BY <1>1, <1>2, <2>1, <2>2
    <3>3. s[n].ok <=> held \in shows
      BY <3>2 DEF Recorded, n
    <3> QED BY <1>1, <2>1, <2>2, <3>1, <3>2, <3>3
  <2>3. CASE k # n + 1
    <3>1. k \in 2 .. n /\ k \in 1 .. n
      BY <1>1, <2>3
    <3>2. s[k].of \in Texts => (s[k].ok <=> s[k - 1].ok)
      BY <3>1 DEF Recorded, n
    <3> QED BY <1>1, <2>1, <3>1, <3>2
  <2> QED BY <2>2, <2>3
<1> QED BY <1>9, <1>10, <1>11, <1>12, <1>13, <1>14 DEF Recorded, u

\* A step that walks no file leaves the record true.
LEMMA SameRecord ==
  ASSUME NEW st, NEW st2, NEW s, NEW held, Recorded(st, s, held),
         \A x \in Images \cup Texts : Unwalked(st2, x) <=> Unwalked(st, x)
  PROVE  Recorded(st2, s, held)
BY DEF Recorded

\* The invariant after a step, in terms of what the step sets.
LEMMA WalkInvAfter ==
  ASSUME UNCHANGED <<where, shows, f>>, DOMAIN texts' = Texts,
         Place(stack'), Recorded(stack', texts'[f], src'),
         src' = None => texts'[f] = << >>
  PROVE  WalkInv'
<1>1. (Below(stack))' = Below(stack')
  BY DEF Below
<1>2. \A x : (HomeOf(x))' = HomeOf(x)
  BY DEF HomeOf
<1>3. (Place(stack))'
  BY <1>1, <1>2 DEF Place
<1>4. \A x : (Unwalked(stack, x))' <=> Unwalked(stack', x)
  BY <1>1, <1>2 DEF Unwalked
<1>5. texts'[f'] = texts'[f]
  OBVIOUS
<1>6. (HadImage(texts[f], src))' <=> HadImage(texts'[f], src')
  BY <1>5 DEF HadImage
<1>7. \A x : (Once(texts[f], x))' <=> Once(texts'[f], x)
  BY <1>5 DEF Once
<1>8. (Recorded(stack, texts[f], src))'
  BY <1>4, <1>5, <1>6, <1>7 DEF Recorded
<1> QED BY <1>3, <1>8 DEF WalkInv

\* The walk's invariant: what is recorded is what was walked.
THEOREM WalkInvariance == Spec => []WalkInv
<1>1. Init => WalkInv
  BY DEF Init, WalkInv
<1>2. TreeTypeOK /\ TreeTypeOK' /\ WalkInv /\ [Next]_vars => WalkInv'
  <2> SUFFICES ASSUME TreeTypeOK, TreeTypeOK', WalkInv, [Next]_vars
               PROVE  WalkInv'
    OBVIOUS
  <2>1. CASE f' = None
    BY <2>1 DEF WalkInv
  <2>2. ASSUME NEW path \in Folders, TestTreeStart(path)
        PROVE  WalkInv'
    <3>1. PICK g : g = [path |-> path, left |-> Entries(path) \cup {f'}]
      OBVIOUS
    <3>2. /\ f' = FirstUnused(path) /\ stack' = <<g>> /\ texts'[f'] = << >>
          /\ Texts' = Texts \cup {f'} /\ UNCHANGED <<where, shows, src>>
      BY <2>2, <3>1 DEF TestTreeStart
    <3>3. f'[1] = path /\ f' \in ResultFile
      BY <3>2, UnusedIsNew DEF TreeTypeOK, ResultFile
    <3>4. g.path = path /\ g.left = (Entries(path))'
      BY <3>1, <3>2, <3>3 DEF Entries
    <3>5. (Place(stack))' /\ \A x \in Images \cup Texts' : (Unwalked(stack, x))'
      BY <3>2, <3>3, <3>4, WalkStarts
    <3>6. (Recorded(stack, texts[f], src))'
      BY <3>2, <3>5 DEF Recorded, HadImage
    <3> QED BY <3>2, <3>5, <3>6 DEF WalkInv
  <2>3. CASE Walk /\ f # None
    <3>1. PICK e \in Top.left : WalkFile(e) \/ EnterFolder(e) \/ PassFail(e)
      BY <2>3 DEF Walk
    <3>2. /\ stack \in Seq(Frame) /\ Len(stack) > 0 /\ stack # << >> /\ Top = stack[Len(stack)]
          /\ Place(stack) /\ Recorded(stack, texts[f], src)
          /\ (src = None => texts[f] = << >>)
          /\ e \in Folders \cup Images \cup Texts
          /\ f \in Texts /\ texts[f] \in Seq(Line)
      <4>1. stack # << >> /\ f \in Texts /\ texts[f] \in Seq(Line)
        BY <2>3 DEF Walk, TreeTypeOK
      <4>2. stack \in Seq(Frame) /\ Len(stack) > 0 /\ e \in Folders \cup Images \cup Texts
        BY <3>1, <4>1, TopTyped
      <4> QED BY <2>3, <4>1, <4>2 DEF WalkInv, Top
    <3>3. Past(e) \in Seq(Frame) /\ Without(stack, Past(e), e)
      BY <3>2, PastIsWithout
    <3>4. CASE WalkFile(e)
      <4>1. /\ e \in Images \cup Texts /\ e \notin Folders /\ TestFile(e)
            /\ stack' = Past(e) /\ UNCHANGED <<where, shows, f>>
        BY <3>2, <3>4 DEF WalkFile
      <4>2. /\ Place(stack') /\ Unwalked(stack, e) /\ ~Unwalked(stack', e)
            /\ \A x : x # e => (Unwalked(stack', x) <=> Unwalked(stack, x))
        BY <3>1, <3>2, <3>3, <4>1, FileWalked
      <4>3. CASE src' = None
        <5>1. UNCHANGED texts /\ src' = src /\ e \in Texts
          BY <4>1, <4>3 DEF TestFile, TreeTypeOK
        <5>2. texts[f] = << >>
          BY <3>2, <4>3, <5>1
        <5>3. Recorded(stack', << >>, src)
          <6>1. ~HadImage(<< >>, src)
            BY <4>3, <5>1 DEF HadImage
          <6>2. e \notin Images
            BY <5>1 DEF TreeTypeOK, ResultFile
          <6>3. \A i \in Images : Unwalked(stack', i)
            BY <3>2, <4>2, <5>2, <6>2 DEF Recorded, Once
          <6> QED BY <6>1, <6>3 DEF Recorded
        <5> QED BY <4>1, <4>2, <5>1, <5>2, <5>3, WalkInvAfter
      <4>4. CASE src' # None
        <5> DEFINE l == [of |-> e, ok |-> src' \in shows]
        <5>1. src' = (IF e \in Images THEN e ELSE src) /\ DOMAIN texts' = Texts
              /\ texts'[f] = Append(texts[f], l)
          BY <3>2, <4>1, <4>4 DEF TestFile
        <5>2. l \in Line /\ l.of = e /\ (l.ok <=> src' \in shows)
          <6>1. l \in Line
            BY <4>1 DEF Line, TreeTypeOK
          <6>2. l.of = e /\ l.ok = (src' \in shows)
            OBVIOUS
          <6> QED BY <6>1, <6>2
        <5> HIDE DEF l
        <5>3. Recorded(stack', Append(texts[f], l), src')
          BY <3>2, <4>1, <4>2, <4>4, <5>1, <5>2, LineAdded
        <5> QED BY <4>1, <4>2, <4>4, <5>1, <5>3, WalkInvAfter
      <4> QED BY <4>3, <4>4
    <3>5. CASE EnterFolder(e)
      <4> DEFINE g == [path |-> e, left |-> Entries(e)]
      <4>1. /\ e \in Folders \ Fail /\ stack' = Append(Past(e), g)
            /\ UNCHANGED <<where, shows, f, texts, src>>
        BY <3>5 DEF EnterFolder
      <4>2. g.path = e /\ g.left = Entries(e)
        OBVIOUS
      <4> HIDE DEF g
      <4>3. /\ Place(stack')
            /\ \A x \in Images \cup Texts : Unwalked(stack', x) <=> Unwalked(stack, x)
        BY <2>3, <3>1, <3>2, <3>3, <4>1, <4>2, FolderEntered
      <4>4. Recorded(stack', texts'[f], src')
        BY <3>2, <4>1, <4>3, SameRecord
      <4> QED BY <3>2, <4>1, <4>3, <4>4, WalkInvAfter
    <3>6. CASE PassFail(e)
      <4>1. /\ e \in Fail /\ stack' = Past(e) /\ UNCHANGED <<where, shows, f, texts, src>>
        BY <3>6 DEF PassFail
      <4>2. /\ Place(stack')
            /\ \A x \in Images \cup Texts : Unwalked(stack', x) <=> Unwalked(stack, x)
        BY <3>2, <3>3, <4>1, FailPassed
      <4>3. Recorded(stack', texts'[f], src')
        BY <3>2, <4>1, <4>2, SameRecord
      <4> QED BY <3>2, <4>1, <4>2, <4>3, WalkInvAfter
    <3> QED BY <3>1, <3>4, <3>5, <3>6
  <2>4. CASE LeaveFolder /\ f # None
    <3>1. /\ stack # << >> /\ Top.left = {} /\ stack' = SubSeq(stack, 1, Len(stack) - 1)
          /\ UNCHANGED <<where, shows, f, texts, src>>
      BY <2>4 DEF LeaveFolder
    <3>2. /\ stack \in Seq(Frame) /\ Len(stack) > 0 /\ stack[Len(stack)].left = {}
          /\ Place(stack) /\ Recorded(stack, texts[f], src)
          /\ (src = None => texts[f] = << >>)
      BY <2>4, <3>1, TopTyped DEF Top, WalkInv
    <3>3. /\ Place(stack') /\ \A x : Unwalked(stack', x) <=> Unwalked(stack, x)
      BY <3>1, <3>2, FolderLeft
    <3>4. Recorded(stack', texts'[f], src')
      BY <3>1, <3>2, <3>3, SameRecord
    <3> QED BY <3>1, <3>2, <3>3, <3>4, WalkInvAfter
  <2>5. ASSUME NEW file \in Images \cup Texts, SelectFile(file)
        PROVE  f' = None
    BY <2>5 DEF SelectFile, Idle
  <2>6. ASSUME NEW t \in Texts, DeleteText(t)
        PROVE  f' = None
    BY <2>6 DEF DeleteText, Idle
  <2>7. CASE ChangeOptions \/ TestTreeRefused \/ Finish
    BY <2>1, <2>7 DEF ChangeOptions, TestTreeRefused, Finish, Idle
  <2>8. CASE UNCHANGED vars
    <3>1. UNCHANGED <<where, texts, shows, src, stack, f>>
      BY <2>8 DEF vars
    <3>2. CASE f # None
      BY <3>1, <3>2, WalkInvAfter DEF WalkInv
    <3>3. CASE f = None
      BY <3>1, <3>3 DEF WalkInv
    <3> QED BY <3>2, <3>3
  <2>9. CASE f = None /\ (Walk \/ LeaveFolder)
    BY <2>9 DEF Walk, LeaveFolder, TreeTypeOK
  <2> QED BY <2>1, <2>2, <2>3, <2>4, <2>5, <2>6, <2>7, <2>8, <2>9 DEF Next
<1> QED BY <1>1, <1>2, TreeTypeCorrect, PTL DEF Spec

\* The lines about a file, when it has exactly one.
LEMMA OneLine ==
  ASSUME TreeTypeOK, f # None, NEW x, Once(texts[f], x)
  PROVE  \E k \in Lines(f) : LinesOf(f, x) = {k} /\ texts[f][k].of = x
<1> DEFINE s == texts[f]
<1>1. s \in Seq(Line) /\ DOMAIN s = 1 .. Len(s)
  BY DEF TreeTypeOK
<1>2. \A k \in 1 .. Len(s) : IsLine(s[k])
  <2> HIDE DEF s
  <2>1. \A l \in Line : IsLine(l)
    BY DEF IsLine, Line
  <2>2. \A k \in 1 .. Len(s) : s[k] \in Line
    BY <1>1
  <2> QED BY <2>1, <2>2
<1>3. Lines(f) = 1 .. Len(s)
  BY <1>1, <1>2 DEF Lines
<1>4. PICK k \in 1 .. Len(s) :
        s[k].of = x /\ \A l \in 1 .. Len(s) : s[l].of = x => l = k
  BY DEF Once
<1>5. LinesOf(f, x) = {k}
  BY <1>3, <1>4 DEF LinesOf
<1> QED BY <1>3, <1>4, <1>5

\* When the walk has ended, a file is walked if its folder is in reach.
LEMMA WalkEnded ==
  ASSUME stack = << >>, NEW x
  PROVE  Unwalked(stack, x) <=> HomeOf(x) \notin Reached(f[1])
<1>1. 1 .. Len(stack) = {}
  OBVIOUS
<1> QED BY <1>1 DEF Unwalked, Below

\* When a walk has ended every image in a folder it reaches has exactly one
\* line, with the detector's result for that image, and no other image has one.
THEOREM ImagesOnce == Spec => []EveryImageOnce
<1>1. TreeTypeOK /\ WalkInv => EveryImageOnce
  <2> SUFFICES ASSUME TreeTypeOK, WalkInv, f # None, stack = << >>, NEW i \in Images
               PROVE  IF where[i] \in Reached(f[1])
                        THEN \E k \in Lines(f) : /\ LinesOf(f, i) = {k}
                                                 /\ texts[f][k].ok = (i \in shows)
                        ELSE LinesOf(f, i) = {}
    BY DEF EveryImageOnce, Idle
  <2>1. Recorded(stack, texts[f], src) /\ texts[f] \in Seq(Line)
    BY DEF WalkInv, TreeTypeOK
  <2>2. Unwalked(stack, i) <=> where[i] \notin Reached(f[1])
    BY WalkEnded DEF HomeOf
  <2>3. CASE where[i] \in Reached(f[1])
    <3>1. Once(texts[f], i)
      BY <2>1, <2>2, <2>3 DEF Recorded
    <3>2. PICK k \in Lines(f) : LinesOf(f, i) = {k} /\ texts[f][k].of = i
      BY <3>1, OneLine
    <3>3. k \in 1 .. Len(texts[f])
      BY <2>1 DEF Lines
    <3>4. texts[f][k].ok <=> i \in shows
      BY <2>1, <3>2, <3>3 DEF Recorded
    <3>5. texts[f][k].ok \in BOOLEAN
      <4>1. texts[f][k] \in Line
        BY <2>1, <3>3
      <4> QED BY <4>1 DEF Line
    <3>6. texts[f][k].ok = (i \in shows)
      BY <3>4, <3>5
    <3> QED BY <2>3, <3>2, <3>6
  <2>4. CASE where[i] \notin Reached(f[1])
    <3>1. \A k \in 1 .. Len(texts[f]) : texts[f][k].of # i
      BY <2>1, <2>2, <2>4 DEF Recorded
    <3>2. Lines(f) \in SUBSET (1 .. Len(texts[f]))
      BY <2>1 DEF Lines
    <3> QED BY <2>4, <3>1, <3>2 DEF LinesOf
  <2> QED BY <2>3, <2>4
<1> QED BY <1>1, TreeTypeCorrect, WalkInvariance, PTL

\* The line of a result file repeats the line before it; and when the first
\* line is about a result file, every result file in reach has a line.
THEOREM ResultFilesTested == Spec => []ResultsAreTested
<1>1. TreeTypeOK /\ WalkInv => ResultsAreTested
  <2> SUFFICES ASSUME TreeTypeOK, WalkInv, f # None, texts[f] # << >>
               PROVE  /\ \A t \in Texts : \A k \in LinesOf(f, t) \ {1} :
                           texts[f][k].ok = texts[f][k - 1].ok
                      /\ stack = << >> /\ texts[f][1].of \in Texts =>
                           \A t \in Texts : t[1] \in Reached(f[1]) =>
                             Cardinality(LinesOf(f, t)) = 1
    BY DEF ResultsAreTested, Idle
  <2>1. Recorded(stack, texts[f], src) /\ texts[f] \in Seq(Line)
    BY DEF WalkInv, TreeTypeOK
  <2>2. ASSUME NEW t \in Texts, NEW k \in LinesOf(f, t) \ {1}
        PROVE  texts[f][k].ok = texts[f][k - 1].ok
    <3>1. k \in 1 .. Len(texts[f]) /\ texts[f][k].of = t
      BY <2>1 DEF LinesOf, Lines
    <3>2. k \in 2 .. Len(texts[f]) /\ k - 1 \in 1 .. Len(texts[f])
      BY <2>1, <3>1
    <3>3. texts[f][k].ok <=> texts[f][k - 1].ok
      BY <2>1, <3>1, <3>2 DEF Recorded
    <3>4. texts[f][k].ok \in BOOLEAN /\ texts[f][k - 1].ok \in BOOLEAN
      <4>1. \A m \in 1 .. Len(texts[f]) : texts[f][m] \in Line
        BY <2>1
      <4>2. texts[f][k] \in Line /\ texts[f][k - 1] \in Line
        BY <3>1, <3>2, <4>1
      <4> QED BY <4>2 DEF Line
    <3> QED BY <3>3, <3>4
  <2>3. ASSUME stack = << >>, texts[f][1].of \in Texts,
               NEW t \in Texts, t[1] \in Reached(f[1])
        PROVE  Cardinality(LinesOf(f, t)) = 1
    <3>1. HadImage(texts[f], src)
      BY <2>3 DEF HadImage
    <3>2. HomeOf(t) = t[1]
      BY NamesAssumption DEF HomeOf, TreeTypeOK, ResultFile
    <3>3. ~Unwalked(stack, t)
      BY <2>3, <3>2, WalkEnded
    <3>4. Once(texts[f], t)
      BY <2>1, <3>1, <3>3 DEF Recorded
    <3>5. PICK k \in Lines(f) : LinesOf(f, t) = {k}
      BY <3>4, OneLine
    <3> QED BY <3>5, FS_Singleton
  <2> QED BY <2>2, <2>3
<1> QED BY <1>1, TreeTypeCorrect, WalkInvariance, PTL
=============================================================================
