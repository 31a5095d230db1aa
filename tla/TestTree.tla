------------------------------- MODULE TestTree -------------------------------
(* CICUMANView::TestTree: the detector is run on every file below the folder *)
(* that the window's title names, and the results go to the first unused     *)
(* test_<n>.txt of that same folder.  So the walk meets its own result file  *)
(* and those of earlier runs, which are no images: OpenSrcImageFile leaves   *)
(* the detector the image before, and that is tested once more.              *)
(*                                                                           *)
(* Between the runs single files are selected, which are tested at once,     *)
(* options are changed and result files deleted.  During a run the thread of *)
(* the window walks and handles no message.                                  *)
(*                                                                           *)
(* A file is an image or a pair of the folder and the number of a result     *)
(* file; the walk passes over `test.txt`, a name this version never gives.   *)
(* Not modelled: the plate types 0, 2 and 5, with recognisers of their own.  *)
EXTENDS Integers, Sequences, FiniteSets

CONSTANTS
  Folders,    \* the folders
  Parent,     \* the folder a folder is in, None at the top
  Fail,       \* the folders called `Fail`, in small letters or large
  Images,     \* the files imread can read
  None,       \* an empty Mat, no file, no folder
  MaxTexts,   \* bound: result files that exist at a time
  MaxCount    \* bound: the counters when a single file is tested

ASSUME TreeAssumption ==
  /\ Parent \in [Folders -> Folders \cup {None}]
  /\ Fail \subseteq Folders
  /\ None \notin Folders \cup Images
  /\ MaxTexts \in Nat /\ MaxCount \in Nat

(* A folder, an image and a result file are different things, and no folder  *)
(* is below itself.                                                          *)
ASSUME NamesAssumption ==
  /\ Folders \cap Images = {}
  /\ \A x \in Folders \cup Images \cup {None} : x \notin Folders \X Nat
ASSUME NoCycleAssumption ==
  \A S \in SUBSET Folders : S # {} => \E s \in S : Parent[s] \notin S

VARIABLES
  where,      \* the folder of each image
  texts,      \* the result files with their lines
  shows,      \* the images the detector succeeds with under the options set
  src,        \* carNumDetect.src
  success_count, fail_count,
  stack,      \* the walk's open folders with the entries still to come
  f           \* the result file that is open for writing

counts == <<success_count, fail_count>>
vars == <<where, texts, shows, src, counts, stack, f>>

Texts == DOMAIN texts
Idle == f = None

Init ==
  /\ where \in [Images -> Folders]
  /\ texts = << >>
  /\ shows \in SUBSET Images
  /\ src = None /\ success_count = 0 /\ fail_count = 0
  /\ stack = << >> /\ f = None

-----------------------------------------------------------------------------
\* Faulty variant: a file that cannot be read counts as a failure.
TestFileFailed(file) ==
  /\ src' = IF file \in Images THEN file ELSE src
  /\ IF src' = None
       THEN UNCHANGED <<texts, counts>>
       ELSE /\ success_count' = success_count + (IF file \in shows THEN 1 ELSE 0)
            /\ fail_count' = fail_count + (IF file \in shows THEN 0 ELSE 1)
            /\ texts' = [t \in Texts |->
                           IF t = f THEN Append(texts[t], [of |-> file, ok |-> file \in shows])
                                    ELSE texts[t]]

(* ProcessOneNote_HDS and HDS2: of a file that cannot be read the image      *)
(* before is tested; the result is counted, and in a run it has a line.      *)
TestFile(file) ==
  /\ src' = IF file \in Images THEN file ELSE src
  /\ IF src' = None
       THEN UNCHANGED <<texts, counts>>
       ELSE /\ success_count' = success_count + (IF src' \in shows THEN 1 ELSE 0)
            /\ fail_count' = fail_count + (IF src' \in shows THEN 0 ELSE 1)
            /\ texts' = [t \in Texts |->
                           IF t = f THEN Append(texts[t], [of |-> file, ok |-> src' \in shows])
                                    ELSE texts[t]]

-----------------------------------------------------------------------------
(* Between the runs.                                                         *)

(* SetPathName, called when a file of the folder pane is selected.           *)
SelectFile(file) ==
  /\ Idle /\ success_count + fail_count < MaxCount
  /\ TestFile(file)
  /\ UNCHANGED <<where, shows, stack, f>>

(* GetDataFromControl and the handlers of the options.                       *)
ChangeOptions ==
  /\ Idle
  /\ shows' \in SUBSET Images
  /\ UNCHANGED <<where, texts, src, counts, stack, f>>

DeleteText(t) ==
  /\ Idle
  /\ texts' = [u \in Texts \ {t} |-> texts[u]]
  /\ UNCHANGED <<where, shows, src, counts, stack, f>>

-----------------------------------------------------------------------------
(* A run.                                                                    *)

Entries(d) ==
  {s \in Folders : Parent[s] = d}
    \cup {i \in Images : where[i] = d}
    \cup {t \in Texts : t[1] = d}

(* The window's title names a file and no folder, or no result file can be   *)
(* written: a message, and the counters stay reset.                          *)
TestTreeRefused ==
  /\ Idle
  /\ success_count' = 0 /\ fail_count' = 0
  /\ UNCHANGED <<where, texts, shows, src, stack, f>>

\* Faulty variant: the number is that of the files there are.
NextNumber(d) == <<d, Cardinality({t \in Texts : t[1] = d})>>

(* The first test_<n>.txt that cannot be opened for reading.                 *)
FirstUnused(d) ==
  CHOOSE t \in {<<d, n>> : n \in 0 .. Cardinality(Texts)} \ Texts :
    \A n \in 0 .. t[2] - 1 : <<d, n>> \in Texts

\* Faulty variant: the counters go on from the runs and tests before.
TestTreeStartCounting(path) ==
  /\ Idle /\ Cardinality(Texts) < MaxTexts
  /\ f' = FirstUnused(path)
  /\ texts' = [t \in Texts \cup {f'} |-> IF t = f' THEN << >> ELSE texts[t]]
  /\ stack' = <<[path |-> path, left |-> Entries(path) \cup {f'}]>>
  /\ UNCHANGED <<where, shows, src, counts>>

TestTreeStart(path) ==
  /\ Idle /\ Cardinality(Texts) < MaxTexts
  /\ success_count' = 0 /\ fail_count' = 0
  /\ f' = FirstUnused(path)
  /\ texts' = [t \in Texts \cup {f'} |-> IF t = f' THEN << >> ELSE texts[t]]
  /\ stack' = <<[path |-> path, left |-> Entries(path) \cup {f'}]>>
  /\ UNCHANGED <<where, shows, src>>

Top == stack[Len(stack)]

(* The stack when the walk is past the entry e.                              *)
Past(e) == [stack EXCEPT ![Len(stack)].left = @ \ {e}]

WalkFile(e) ==
  /\ e \notin Folders
  /\ TestFile(e)
  /\ stack' = Past(e)
  /\ UNCHANGED <<where, shows, f>>

\* Faulty variant: the walk goes into every folder.
EnterEveryFolder(e) ==
  /\ e \in Folders
  /\ stack' = Append(Past(e), [path |-> e, left |-> Entries(e)])
  /\ UNCHANGED <<where, texts, shows, src, counts, f>>

EnterFolder(e) ==
  /\ e \in Folders \ Fail
  /\ stack' = Append(Past(e), [path |-> e, left |-> Entries(e)])
  /\ UNCHANGED <<where, texts, shows, src, counts, f>>

PassFail(e) ==
  /\ e \in Fail
  /\ stack' = Past(e)
  /\ UNCHANGED <<where, texts, shows, src, counts, f>>

LeaveFolder ==
  /\ stack # << >> /\ Top.left = {}
  /\ stack' = SubSeq(stack, 1, Len(stack) - 1)
  /\ UNCHANGED <<where, texts, shows, src, counts, f>>

(* FindNextFile: an entry whose order is the file system's.                  *)
Walk ==
  /\ stack # << >>
  /\ \E e \in Top.left : WalkFile(e) \/ EnterFolder(e) \/ PassFail(e)

(* The totals are written below the lines and the file is closed.            *)
Finish ==
  /\ ~Idle /\ stack = << >>
  /\ texts' = [texts EXCEPT ![f] = Append(@, [success |-> success_count, fail |-> fail_count])]
  /\ f' = None
  /\ UNCHANGED <<where, shows, src, counts, stack>>

Next ==
  \/ \E file \in Images \cup Texts : SelectFile(file)
  \/ \E t \in Texts : DeleteText(t)
  \/ ChangeOptions
  \/ TestTreeRefused
  \/ \E path \in Folders : TestTreeStart(path)
  \/ Walk \/ LeaveFolder \/ Finish

Spec == Init /\ [][Next]_vars
-----------------------------------------------------------------------------
(* Properties.                                                               *)

IsLine(x) == "of" \in DOMAIN x
Lines(t) == {k \in DOMAIN texts[t] : IsLine(texts[t][k])}
LinesOf(t, file) == {k \in Lines(t) : texts[t][k].of = file}

(* The folders the walk from d reaches: d, whatever it is called, and below  *)
(* it every folder that is not called, or below one called, `Fail`.          *)
Reached(d) ==
  {e \in Folders : \A S \in SUBSET Folders :
     d \in S /\ (\A s \in Folders \ Fail : Parent[s] \in S => s \in S) => e \in S}

(* When a walk has ended every image in a folder it reaches has exactly one  *)
(* line, with what the detector makes of this image and of no other, and the *)
(* images elsewhere have none.                                               *)
EveryImageOnce ==
  ~Idle /\ stack = << >> =>
    \A i \in Images :
      IF where[i] \in Reached(f[1])
        THEN \E k \in Lines(f) : /\ LinesOf(f, i) = {k}
                                 /\ texts[f][k].ok = (i \in shows)
        ELSE LinesOf(f, i) = {}

(* A result file is an input of the runs that follow and of its own.  Its    *)
(* line repeats the line before it, whatever that was about; and if a file's *)
(* first line is about a result file, the detector had an image from before, *)
(* and every result file in reach has a line: a second run over the same     *)
(* tree counts one file more.                                                *)
ResultsAreTested ==
  ~Idle /\ texts[f] # << >> =>
    /\ \A t \in Texts : \A k \in LinesOf(f, t) \ {1} :
         texts[f][k].ok = texts[f][k - 1].ok
    /\ stack = << >> /\ texts[f][1].of \in Texts =>
         \A t \in Texts : t[1] \in Reached(f[1]) => Cardinality(LinesOf(f, t)) = 1

(* The totals below a finished file are the numbers of its own lines, of     *)
(* each kind, whatever was tested before.                                    *)
TotalsAreTheLines ==
  \A t \in Texts \ {f} :
    \E total \in {texts[t][Len(texts[t])]} :
      /\ total.success = Cardinality({k \in Lines(t) : texts[t][k].ok})
      /\ total.fail = Cardinality({k \in Lines(t) : ~texts[t][k].ok})

(* No run and no test changes a result file of a run before, also when files *)
(* between them were deleted.                                                *)
ResultsKept ==
  [][\A t \in Texts \ {f} : t \in DOMAIN texts' => texts'[t] = texts[t]]_vars
=============================================================================
