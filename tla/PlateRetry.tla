----------------------------- MODULE PlateRetry -----------------------------
(***************************************************************************)
(* How CICUMANView has CCarNumDetect look for a plate: GetNumberArea blurs *)
(* the image and detects its edges under one setting after the other, and  *)
(* what it then looks for depends on nPlateType: 1, four digits; 3, lines  *)
(* (an experiment that never succeeds); 4, FindLinesByEdge_HDS, a box of   *)
(* lines, or digits, under further settings.  The other plate types use    *)
(* other recognisers.                                                      *)
(*                                                                         *)
(* LabelEdges fills m_EdgeTable anew for every setting, so the members     *)
(* that refer to it are stale after the next labelling; we represent them  *)
(* by the setting whose labelling they refer to.  An image is represented  *)
(* by the settings under which PlateSearch finds digits and under which    *)
(* the lines make a box; the same setting always finds the same.           *)
(*                                                                         *)
(* Not modelled: bApplyFFT, a kernel_size other than the usual 3, and an   *)
(* empty table of thresholds, with which no setting is tried.              *)
(***************************************************************************)
EXTENDS Integers, Sequences

CONSTANTS
  Images,       \* images, as the settings that find something in them
  Thresholds,   \* canny_th_min and canny_th_max, of length canny_th_cnt
  Usual, Fine,  \* the thresholds 60/180 and 5/15
  Broken,       \* a file that is no image
  None,         \* -1, or an empty Mat
  Old,          \* a labelling of an earlier call, or an uninitialized member
  Tried         \* the last four blobs that were tried and failed

Cannys == {Thresholds[t] : t \in 1..Len(Thresholds)} \cup {Usual, Fine}
Settings == (0..3) \X Cannys

ASSUME ThresholdsAssumption == Thresholds \in Seq(Cannys) /\ Thresholds # <<>>
ASSUME ImagesAssumption == Images \subseteq [digits : SUBSET Settings, box : SUBSET Settings]
ASSUME NamesAssumption ==
  /\ {Broken, None} \cap Images = {}
  /\ {None, Old, Tried} \cap Settings = {}
  /\ None \notin {Old, Tried}

VARIABLES
  nPlateType, nBlurType,  \* options of the test dialog
  caller,                 \* "HDS" or "HDS2", the ProcessOneNote that is running
  src,                    \* the image in the detector
  stage,
  blur_index, th_index,   \* the loops of GetNumberArea; th_index counts from 1
  try,                    \* the attempts at a box, 1 to 3
  labelled,               \* the labelling in m_EdgeTable
  found_arr,              \* the labelling found_arr refers to, or None, Tried
  box,                    \* the labelling of the box, None if the index is -1
  ret

options == <<nPlateType, nBlurType>>
call == <<caller, src>>
loops == <<blur_index, th_index, try>>
tables == <<labelled, found_arr, box>>
retryVars == <<options, call, stage, loops, tables, ret>>

PlateTypes == {1, 3, 4}
BlurTypes == {0, 1, 2}

RetryInit ==
  /\ nPlateType \in PlateTypes /\ nBlurType \in BlurTypes
  /\ caller = "HDS" /\ src = None /\ stage = "idle"
  /\ blur_index = 0 /\ th_index = 1 /\ try = 1
  /\ labelled = Old /\ found_arr = Old /\ box = Old /\ ret = 0

------------------------------------------------------------------------------
(* The callers.                                                            *)

\* OnCbnSelchangePlateType and OnCbnSelchangeBlurType.
ChangeOptions ==
  /\ stage = "idle"
  /\ nPlateType' \in PlateTypes /\ nBlurType' \in BlurTypes
  /\ UNCHANGED <<call, stage, loops, tables, ret>>

\* HDS2 always asks for the normal blur.
BlurType(c) == IF c = "HDS2" THEN 0 ELSE nBlurType
BlurStart(c) == IF BlurType(c) = 1 THEN 1 ELSE 0
BlurEnd(c) == IF BlurType(c) = 0 THEN 1 ELSE 4

\* ProcessOneNote_<c> on an image: GetNumberArea is entered, unless the
\* detector has none.
Enter(c, m) ==
  /\ caller' = c /\ src' = m
  /\ IF m = None
       THEN UNCHANGED <<stage, blur_index, ret>>
       ELSE stage' = "round" /\ blur_index' = BlurStart(c) /\ ret' = 0
  /\ UNCHANGED <<options, th_index, try, tables>>

\* A file that cannot be read leaves the image of an earlier call in the
\* detector, and the caller is not told.
OpenSrcImageFile(f) == IF f = Broken THEN src ELSE f

TestFile(f) ==
  /\ stage = "idle"
  /\ Enter(IF nPlateType = 4 THEN "HDS2" ELSE "HDS", OpenSrcImageFile(f))

\* TestSelection passes what was dragged over to ProcessOneNote_HDS, for every
\* plate type; nothing, if nothing was.
TestSelection(m) ==
  /\ stage = "idle"
  /\ Enter("HDS", m)

\* At the end of the call its result is shown; the tables outlive it.
Aged(x) == IF x \in Settings THEN Old ELSE x
Report ==
  /\ stage = "report" /\ stage' = "idle"
  /\ labelled' = Aged(labelled) /\ found_arr' = Aged(found_arr) /\ box' = Aged(box)
  /\ blur_index' = 0 /\ th_index' = 1 /\ try' = 1
  /\ UNCHANGED <<options, call, ret>>

------------------------------------------------------------------------------
(* GetNumberArea.                                                          *)

Current == <<blur_index, Thresholds[th_index]>>

\* `break` out of the loop over thresholds, or its end.
NextBlur ==
  /\ th_index' = 1
  /\ IF blur_index + 1 < BlurEnd(caller)
       THEN stage' = "round" /\ blur_index' = blur_index + 1
       ELSE stage' = "return" /\ UNCHANGED blur_index

\* Faulty variant: a failure leaves the loop over the thresholds.
NextSettingBreaks == NextBlur

NextSetting ==
  IF th_index < Len(Thresholds)
    THEN th_index' = th_index + 1 /\ UNCHANGED <<stage, blur_index>>
    ELSE NextBlur

\* Type 1: GetPlateRectFromEdges; get_check_cond leaves in found_arr the last
\* four blobs that it tried, if there were four.
TryDigits ==
  /\ stage = "round" /\ nPlateType = 1
  /\ labelled' = Current
  /\ IF Current \in src.digits
       THEN /\ found_arr' = Current /\ ret' = 1
            /\ stage' = "return" /\ UNCHANGED <<blur_index, th_index>>
       ELSE found_arr' \in {Tried, found_arr} /\ ret' = -1 /\ NextSetting
  /\ UNCHANGED <<options, call, try, box>>

\* Type 3: FindLinesByEdge, and `break`; ret is not set.
TryLines ==
  /\ stage = "round" /\ nPlateType = 3
  /\ labelled' = Current
  /\ NextBlur
  /\ UNCHANGED <<options, call, try, found_arr, box, ret>>

\* Type 4: FindLinesByEdge_HDS, and `break`.
TryHDS ==
  /\ stage = "round" /\ nPlateType = 4
  /\ labelled' = Current
  /\ stage' = "box" /\ try' = 1
  /\ UNCHANGED <<options, call, blur_index, th_index, found_arr, box, ret>>

\* GetNumberArea returns 0 for every failure.
Return ==
  /\ stage = "return" /\ stage' = "report"
  /\ ret' = (IF ret = 1 THEN 1 ELSE 0)
  /\ UNCHANGED <<options, call, loops, tables>>

------------------------------------------------------------------------------
(* FindLinesByEdge_HDS.                                                    *)

BoxSetting(t) == IF t = 1 THEN labelled ELSE IF t = 2 THEN <<3, Usual>> ELSE <<3, Fine>>

\* Digits first, then FindLinesByEdge_HDS_sub: a box, which has to contain one
\* of them if there are any.  Three settings at most.
FindBox ==
  /\ stage = "box"
  /\ labelled' = BoxSetting(try)
  /\ found_arr' = (IF labelled' \in src.digits THEN labelled' ELSE None)
  /\ IF labelled' \in src.box THEN box' = labelled' /\ ret' = 1 ELSE box' = None /\ ret' = -1
  /\ IF ret' = 1 \/ try = 3
       THEN stage' = "numbers" /\ UNCHANGED try
       ELSE try' = try + 1 /\ UNCHANGED stage
  /\ UNCHANGED <<options, call, blur_index, th_index>>

First == <<1, Usual>>
Second == <<3, Usual>>

\* Faulty variants: the failure does not reset found_arr; the result is that
\* of the box alone.
FindNumbersUnmarked ==
  /\ stage = "numbers"
  /\ labelled' = (IF First \in src.digits THEN First ELSE Second)
  /\ found_arr' = (IF labelled' \in src.digits THEN labelled' ELSE Tried)
  /\ ret' = (IF labelled' \in src.digits THEN 1 ELSE ret)
  /\ IF ret' = 1 THEN stage' = "return" /\ UNCHANGED <<blur_index, th_index>> ELSE NextBlur
  /\ UNCHANGED <<options, call, try, box>>
FindNumbersIgnored ==
  /\ stage = "numbers"
  /\ labelled' = (IF First \in src.digits THEN First ELSE Second)
  /\ found_arr' = (IF labelled' \in src.digits THEN labelled' ELSE None)
  /\ IF ret = 1 THEN stage' = "return" /\ UNCHANGED <<blur_index, th_index>> ELSE NextBlur
  /\ UNCHANGED <<options, call, try, box, ret>>

\* `if (found_arr[0] = -1)` forgets the digits at hand and is always true:
\* digits are looked for again under two settings, and they are a success.
FindNumbers ==
  /\ stage = "numbers"
  /\ labelled' = (IF First \in src.digits THEN First ELSE Second)
  /\ found_arr' = (IF labelled' \in src.digits THEN labelled' ELSE None)
  /\ ret' = (IF labelled' \in src.digits THEN 1 ELSE ret)
  /\ IF ret' = 1 THEN stage' = "return" /\ UNCHANGED <<blur_index, th_index>> ELSE NextBlur
  /\ UNCHANGED <<options, call, try, box>>

Detect == TryDigits \/ TryLines \/ TryHDS \/ FindBox \/ FindNumbers \/ Return \/ Report

RetryNext ==
  \/ \E f \in Images \cup {Broken} : TestFile(f)
  \/ \E m \in Images \cup {None} : TestSelection(m)
  \/ ChangeOptions
  \/ Detect

RetrySpec == RetryInit /\ [][RetryNext]_retryVars

------------------------------------------------------------------------------
(* Properties.                                                             *)

\* Every variable stays in the set of values the code can give it; no loop
\* leaves its table of settings.
RetryTypeOK ==
  /\ nPlateType \in PlateTypes /\ nBlurType \in BlurTypes
  /\ caller \in {"HDS", "HDS2"} /\ src \in Images \cup {None}
  /\ stage \in {"idle", "round", "box", "numbers", "return", "report"}
  /\ blur_index \in 0..3 /\ th_index \in 1..Len(Thresholds) /\ try \in 1..3
  /\ labelled \in Settings \cup {Old} /\ found_arr \in Settings \cup {None, Old, Tried}
  /\ box \in Settings \cup {None, Old} /\ ret \in {-1, 0, 1}

\* ProcessOneNote_HDS reads found_arr after every success, HDS2 when there is
\* no box, and DrawEdgeLines_HDS whenever it is not -1.
NumbersRead ==
  /\ stage = "report"
  /\ \/ ret = 1 /\ (caller = "HDS" \/ box = None)
     \/ nPlateType = 4 /\ found_arr # None

\* After as many as twenty labellings, what is read through found_arr are four
\* digits of the labelling that m_EdgeTable holds now, not of one before it
\* and not a combination that failed.  The one exception is a selection tested
\* with plate type 4, for which a box alone is a success.
NumbersCurrent ==
  NumbersRead /\ ~(caller = "HDS" /\ nPlateType = 4 /\ found_arr = None) =>
    found_arr = labelled /\ labelled \in src.digits

BlurRange == BlurStart(caller)..(BlurEnd(caller) - 1)

\* Type 1 succeeds with the first of the settings that shows the digits, and
\* fails only when none does.
FirstSettingWins ==
  stage = "report" /\ nPlateType = 1 =>
    LET range == {s \in BlurRange \X (1..Len(Thresholds)) :
                    <<s[1], Thresholds[s[2]]>> \in src.digits}
        here == <<blur_index, th_index>>
    IN IF ret = 1
         THEN /\ here \in range
              /\ \A s \in range :
                   \/ here[1] < s[1]
                   \/ here[1] = s[1] /\ here[2] <= s[2]
         ELSE range = {}

\* The result of a call of type 4 is told in three places: what it returns, the
\* box's index, by which the caller takes a success for one of a box or of digits,
\* and found_arr, which is drawn after a failure, too.  However many attempts were
\* made, they agree: a success leaves a box or digits, a failure leaves neither, and
\* a box is one of this image.  Nor is anything missed that is looked for however
\* many rounds there are: boxes of the first round, digits of the last two settings.
SuccessLeavesResult ==
  stage = "report" /\ nPlateType = 4 =>
    /\ ret = 1 <=> box # None \/ found_arr # None
    /\ box # None => box \in src.box
    /\ \/ {<<BlurStart(caller), Thresholds[1]>>, <<3, Usual>>, <<3, Fine>>} \cap src.box # {}
       \/ {First, Second} \cap src.digits # {}
       => ret = 1

\* CarNumDetect.cpp:3318 looks for digits again `if there are no number blobs
\* at this moment`, and 3348 wants `to return success if number blobs are
\* found`: digits that the last attempt at a box has found are a success.
NumbersAtHandKept ==
  stage = "report" /\ nPlateType = 4 /\ ret # 1 => <<3, Fine>> \notin src.digits
==============================================================================
