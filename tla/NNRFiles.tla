------------------------------ MODULE NNRFiles ------------------------------
(***************************************************************************)
(* The NNR tool between its files: samples are collected from a folder     *)
(* (OnBnClickedButtonFind, OnButtonMakeNtf) and loaded (LoadTrainData); a  *)
(* network is built for their counts, its weights are saved and loaded     *)
(* again, in the same session or, the files being all that is left, in     *)
(* another one.  What the files hold is in SampleFile and WeightFile.      *)
(*                                                                         *)
(* NNRTraining has what goes on between the handlers.  Here a handler is   *)
(* one step, no training runs, and the accesses outside an array that it   *)
(* finds are left out: weights are saved only by sizes the network has.    *)
(* The older .ntf format, which the tool reads but no longer writes, is    *)
(* left out, and so are the file paths kept per sample.                    *)
(***************************************************************************)
EXTENDS SampleFile, WeightFile

CONSTANTS
  Folders,       \* records: a name, and a sequence of classes, of file sizes each
  WeightPlace,   \* the folder of the weight file, one more such record
  HiddenCounts,  \* records: a first and a second hidden count the user may type
  Details,       \* what the last decimal of trained weights leaves out
  None

\* WriteNumber2Bytes notes that 65535 is the limit of what it can write; no
\* class has more files, and no file is longer.
ASSUME FoldersAssumption ==
  \A f \in Folders \cup {WeightPlace} :
    /\ f.classes \in Seq(Seq(0..(TwoBytes - 1))) /\ Len(f.classes) <= MaxClass
    /\ \A c \in 1..Len(f.classes) : Len(f.classes[c]) < TwoBytes
ASSUME InputsAssumption ==
  /\ Details \subseteq 0..9
  /\ HiddenCounts \subseteq [first : Nat \ {0}, second : Nat \ {0}]

VARIABLES
  folder,     \* NNRFolder and what is in it
  registry,   \* the folder and the first hidden count the registry keeps
  selGroups,  \* m_Edit_Sel_GroupNum
  inputNode,  \* m_EditInputNode, the expected size of a file
  ntf,        \* the sample file on disk: its bytes, and what it was made from
  counts,     \* m_Edit_ClassNum, m_Edit_GroupNum, m_Edit_InputNodeNum
  data,       \* m_pTrainData; <<>> if it is NULL
  source,     \* history: the file `data` was loaded from
  names,      \* ClassName
  options,    \* m_Edit_ETA, m_Edit_Momentum, m_SelectActivation
  hidden,     \* m_Edit_FirstHiddenNode, m_Edit_SecondHiddenNode
  net,        \* the network, of either kind
  flag,       \* m_WeightLoadFlag
  wtf         \* the weight file on disk: its text, and what it was saved from

found == <<selGroups, inputNode>>
samples == <<counts, data, source, names>>
weights == <<options, hidden, net, flag>>
vars == <<folder, registry, found, ntf, samples, weights, wtf>>

NoCounts == [classes |-> 0, groups |-> 0, input |-> 0]
Logistic == <<40, 47, 0>>  \* LOGIST_ETA and LOGIST_ALPHA; the values are not important
Hyperbolic == <<10, 50, 1>>

Init ==
  /\ folder \in Folders /\ registry = [folder |-> folder, first |-> 0]
  /\ selGroups = 0 /\ inputNode = 0
  /\ counts = NoCounts /\ data = <<>> /\ source = None
  /\ names = [c \in 1..MaxClass |-> None]
  /\ options = Logistic /\ hidden = [first |-> 0, second |-> 0]
  /\ net = None /\ flag = FALSE
  /\ ntf = None /\ wtf = None

\* The program is closed and started again: all that is left are the files and
\* the registry.
Restart ==
  /\ folder' = registry.folder
  /\ selGroups' = 0 /\ inputNode' = 0
  /\ counts' = NoCounts /\ data' = <<>> /\ source' = None
  /\ names' = [c \in 1..MaxClass |-> None]
  /\ options' = Logistic /\ hidden' = [first |-> registry.first, second |-> 0]
  /\ net' = None /\ flag' = FALSE
  /\ UNCHANGED <<registry, ntf, wtf>>

\* RegSetNNRFolder.
Register == registry' = [folder |-> folder', first |-> hidden'.first]

------------------------------------------------------------------------------
(* Samples.                                                                *)

OnButtonPathSelect ==
  /\ folder' \in Folders
  /\ UNCHANGED <<found, ntf, samples, weights, wtf>>
  /\ Register

\* The most files of a class, and the size of the last file of all.  Both are
\* kept when another folder is chosen.
OnBnClickedButtonFind ==
  LET files == FlattenSeq(folder.classes)
  IN  /\ selGroups' = Max({0} \cup {Len(folder.classes[c]) : c \in 1..Len(folder.classes)})
      /\ inputNode' = IF files = <<>> THEN inputNode ELSE Last(files)
      /\ UNCHANGED <<folder, registry, ntf, samples, weights, wtf>>

\* The names of the classes overwrite those of the loaded samples.
OnButtonMakeNtf ==
  LET made == ClassNames(folder, selGroups, inputNode)
  IN  /\ selGroups > 0
      /\ ntf' = [bytes |-> MakeNtf(folder, selGroups, inputNode),
                 failed |-> FailsAt(folder, selGroups, inputNode) # 0,
                 folder |-> folder, groups |-> selGroups, expected |-> inputNode]
      /\ names' = [c \in 1..MaxClass |-> IF c <= Len(made) THEN made[c] ELSE names[c]]
      /\ UNCHANGED <<folder, registry, found, counts, data, source, weights, wtf>>

\* Faulty variant: the class names are not read.
LoadTrainDataKeepsNames ==
  LET c == Counts(ntf.bytes)
  IN  /\ ntf # None
      /\ counts' = c /\ folder' = ntf.folder
      /\ IF Loadable(ntf.bytes)
         THEN data' = SamplesOf(ntf.bytes, c) /\ source' = ntf
         ELSE data' = <<>> /\ source' = None
      /\ UNCHANGED <<names, registry, found, ntf, weights, wtf>>

\* A file that is refused leaves its counts, and no samples.  The folder is
\* from then on the one the file was made from.
LoadTrainData ==
  LET c == Counts(ntf.bytes)
  IN  /\ ntf # None
      /\ counts' = c /\ folder' = ntf.folder
      /\ IF Loadable(ntf.bytes)
         THEN /\ data' = SamplesOf(ntf.bytes, c)
              /\ source' = ntf
              /\ names' = [n \in 1..MaxClass |->
                             IF n <= c.classes THEN NamesOf(ntf.bytes, c)[n] ELSE names[n]]
         ELSE data' = <<>> /\ source' = None /\ UNCHANGED names
      /\ UNCHANGED <<registry, found, ntf, weights, wtf>>

------------------------------------------------------------------------------
(* Weights.                                                                *)

\* The sizes in the edit boxes, with the hidden counts `h`.
SizesWith(h) == [input |-> counts.input, class |-> counts.classes,
                 first |-> h.first, second |-> h.second]
Sizes == SizesWith(hidden)

\* Rows and columns, without the bias, of the layers of a network.
Layers(kind, s) ==
  IF kind = "one" THEN <<<<s.first, s.input>>, <<s.class, s.first>>>>
  ELSE <<<<s.first, s.input>>, <<s.second, s.first>>, <<s.class, s.second>>>>

\* Training may leave any weights; these tell the elements of a network apart.
Trained(kind, s, detail) ==
  LET dims == Layers(kind, s)
  IN  [l \in 1..Len(dims) |-> [i \in 1..dims[l][1] |-> [j \in 1..(dims[l][2] + 1) |->
         1000 * l + 100 * i + 10 * j + detail]]]

\* OnRadioLogistic and OnRadioHyperbolic.
OnRadio ==
  /\ options' \in {Logistic, Hyperbolic}
  /\ UNCHANGED <<folder, registry, found, ntf, samples, hidden, net, flag, wtf>>

\* OnButtonRun up to InitNNR, with one or two hidden layers, and the training
\* that follows.  With m_WeightLoadFlag set the network that is there is trained
\* further.  ETA and momentum are those of the radio button or those loaded: what
\* a user types over them is saved and loaded like the rest.
InitNNR ==
  /\ data # <<>>
  /\ \E kind \in {"one", "two"}, detail \in Details :
       IF flag
       THEN /\ net # None /\ net.kind = kind
            /\ net' = [net EXCEPT !.w = Trained(kind, net.sizes, detail)]
            /\ hidden' \in HiddenCounts \cup {hidden}
            /\ UNCHANGED flag
       ELSE /\ hidden' \in HiddenCounts \cup {hidden} /\ hidden'.first # 0
            /\ kind = "two" => hidden'.second # 0
            /\ LET s == SizesWith(hidden')
               IN  net' = [kind |-> kind, sizes |-> s, w |-> Trained(kind, s, detail)]
            /\ flag' = TRUE
  /\ UNCHANGED <<folder, found, ntf, samples, options, wtf>>
  /\ Register

\* OnButtonWeightsave, with the kind of the network selected: all its sizes
\* are taken from the edit boxes, which may have changed since it was built.
OnButtonWeightsave ==
  /\ net # None
  /\ \A size \in DOMAIN net.sizes : Sizes[size] <= net.sizes[size]
  /\ wtf' = [text |-> IF net.kind = "one" THEN SaveOne(net.w, Sizes, options)
                      ELSE SaveTwo(net.w, Sizes, options),
             net |-> net, sizes |-> Sizes, options |-> options]
  /\ flag' = TRUE
  /\ UNCHANGED <<folder, registry, found, ntf, samples, options, hidden, net>>

\* OnButtonWeighthoad: the networks are destroyed before the file is chosen,
\* and the flag is set whether or not the load completes.
OnButtonWeighthoad ==
  LET none == Loaded("failed", <<0, 0, options[3]>>, 0, 0, <<>>)
      Take(r) ==
        /\ options' = r.options
        /\ hidden' = [first |-> r.first, second |-> r.second]
        /\ net' = IF r.kind = "failed" THEN None
                  ELSE [kind |-> r.kind, sizes |-> SizesWith(hidden'), w |-> r.w]
  IN  /\ \/ Take(none) /\ UNCHANGED folder
         \/ /\ wtf # None
            /\ Take(WeightLoad(wtf.text, counts.input, counts.classes, options[3]))
            /\ folder' = WeightPlace
      /\ flag' = TRUE
      /\ UNCHANGED <<registry, found, ntf, samples, wtf>>

Next ==
  \/ Restart
  \/ OnButtonPathSelect \/ OnBnClickedButtonFind \/ OnButtonMakeNtf
  \/ LoadTrainData
  \/ OnRadio \/ InitNNR \/ OnButtonWeightsave \/ OnButtonWeighthoad

Spec == Init /\ [][Next]_vars

\* A careful user deals with folders only while no samples are loaded (the
\* samples and the class names would no longer agree) and, to bound the
\* number of states, before weights are saved.
CarefulNext ==
  \/ /\ data = <<>> /\ wtf = None
     /\ OnButtonPathSelect \/ OnBnClickedButtonFind \/ OnButtonMakeNtf
  \/ Restart \/ LoadTrainData
  \/ OnRadio \/ InitNNR \/ OnButtonWeightsave \/ OnButtonWeighthoad
CarefulSpec == Init /\ [][CarefulNext]_vars

------------------------------------------------------------------------------
(* Properties.                                                             *)

\* The files of a class a sample file could be made from.
Taken(f, c) ==
  {i \in 1..Len(f.folder.classes[c]) :
     \A k \in 1..i : f.folder.classes[c][k] = f.expected}

\* What LoadTrainData has loaded are the samples of the folder the file was
\* made from, by class and group: each class has samples of its own files
\* only, and where files are missing, those that are there are used equally
\* often, up to one (WriteSubPathClassToSample fills up).
SamplesAreTheFolders ==
  source # None =>
    /\ counts = [classes |-> Len(source.folder.classes), groups |-> source.groups,
                 input |-> source.expected]
    /\ \A c \in 1..counts.classes :
         LET uses(i) == Cardinality({g \in 1..counts.groups :
                                       data[g][c] = <<source.folder.name, c, i>>})
             taken == {i \in Taken(source, c) : i <= counts.groups}
         IN  /\ \A g \in 1..counts.groups :
                  \E i \in taken : data[g][c] = <<source.folder.name, c, i>>
             /\ \A i, j \in taken : uses(i) - uses(j) \in -1..1

\* A file can be loaded exactly if its making was reported as finished and it
\* keeps within the limits that only LoadTrainData checks: after bError
\* OnButtonMakeNtf writes counts and names as for a complete file, and they
\* must not make an incomplete one pass.
LoadsIffFinished ==
  ntf # None =>
    (Loadable(ntf.bytes) <=>
       /\ ~ntf.failed
       /\ ntf.groups <= MaxGroup /\ ntf.expected <= MaxInput)

\* The class names, which SaveIqFile writes beside the weights, are those of
\* the loaded samples, also in a session that has not made the file.
NamesOfSamples ==
  source # None =>
    \A c \in 1..counts.classes : names[c] = <<source.folder.name, c>>

\* Saved by the sizes of its network, which a change of the boxes or of the
\* samples since it was built can prevent.
Faithful == wtf # None /\ wtf.sizes = wtf.net.sizes

\* The weights and options as a file can express them.
RoundedWeights(w) == [l \in DOMAIN w |-> [i \in DOMAIN w[l] |-> [j \in DOMAIN w[l][i] |->
                        Printed(w[l][i][j])]]]

\* The weights of one hidden layer come back from the file as %f has printed
\* them, every one in its place, with the hidden count and the options: what
\* OneHiddenWeightSave writes is what WeightLoad and LoadOneHiddenWeight read.
\* More hidden nodes than the reader allows, or a network for no class at all,
\* are saved all the same, and refused.
OneHiddenRestored ==
  (Faithful /\ wtf.net.kind = "one") =>
    LET r == WeightLoad(wtf.text, wtf.sizes.input, wtf.sizes.class, 0)
    IN  IF wtf.sizes.first <= MaxHidden /\ wtf.sizes.class # 0
        THEN /\ r.kind = "one" /\ r.first = wtf.sizes.first
             /\ r.w = RoundedWeights(wtf.net.w)
             /\ r.options = <<Printed(wtf.options[1]), Printed(wtf.options[2]), wtf.options[3]>>
        ELSE r.kind = "failed"

\* A weight file that ends early, up to its last two items, is refused: no
\* network is built of a part of its weights (the checks of nCount_Tile and of
\* the semicolon in the loaders).
TruncatedRefused ==
  wtf # None =>
    \A n \in 0..(Len(wtf.text) - 2) :
      WeightLoad(SubSeq(wtf.text, 1, n), wtf.sizes.input, wtf.sizes.class, 0).kind = "failed"

\* What OnButtonWeightsave has saved can be loaded again.  It does not hold:
\* TwoHiddenWeightSave writes two lines of header where WeightLoad reads three,
\* so the reader skips the first layer's declaration with the third.
SavedWeightsReload ==
  Faithful => WeightLoad(wtf.text, wtf.sizes.input, wtf.sizes.class, 0).kind = wtf.net.kind
=============================================================================
