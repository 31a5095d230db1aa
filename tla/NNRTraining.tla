---------------------------- MODULE NNRTraining ----------------------------
(***************************************************************************)
(* The training session of the NNR tool: the state of CNNRView that its    *)
(* button handlers and its timer handler share.                            *)
(*                                                                         *)
(* Everything runs in one thread, but not one handler after the other: a   *)
(* message box or file dialog runs the message loop, and a live timer      *)
(* calls OnTimer from there, in the middle of the handler that opened it.  *)
(* The main window is disabled meanwhile, so no button can be pressed.     *)
(* `dialog` is the stack of handlers that wait for a dialog to be closed.  *)
(*                                                                         *)
(* Not kept: the error values (a comparison with them has either outcome), *)
(* hidden-node counts and the weights.  Class and input-node count are one *)
(* size, `shape`.  An access through a null pointer or past an array's     *)
(* bounds ends the program: `crashed`.                                     *)
(***************************************************************************)
EXTENDS Integers, Sequences, FiniteSets

CONSTANTS
  One, Two,   \* SELECTONEHIDDEN, SELECTTWOHIDDEN; also the timers' numbers
  MaxGroups,  \* MAX_GROUP
  MaxShape,   \* MAX_CLASS and MAX_INPUT_NODE
  None        \* a null pointer; no layer selected

ASSUME LayerAssumption == One # Two /\ None \notin {One, Two}
ASSUME BoundAssumption == /\ MaxGroups \in Nat \ {0} /\ MaxShape \in Nat \ {0}
                          /\ None \notin Nat

VARIABLES
  active,   \* m_ActiveFlag
  flag,     \* m_WeightLoadFlag
  layer,    \* m_SelectLayer
  net,      \* m_pNeuralOneHidden and m_pNeuralTwoHidden: the shape they were built for
  data,     \* m_pTrainData: None or the sizes it was allocated with
  groups,   \* m_Edit_GroupNum
  shape,    \* m_Edit_ClassNum and m_Edit_InputNodeNum
  box,      \* what the edit boxes of groups and shape show
  pos,      \* m_GroupNum
  timer,    \* the timers that are set
  runOn,    \* IDC_BUTTON_RUN is enabled
  stopOn,   \* IDC_BUTTON_STOP is enabled
  dialog,   \* open dialogs, innermost first
  crashed,  \* the program has made an invalid access
  lost,     \* history: a network was overwritten without being destroyed
  conduct   \* history: how carefully the user has acted so far

sizeVars == <<data, groups, shape, box>>
buttonVars == <<runOn, stopOn>>
netVars == <<flag, layer, net, lost>>
vars == <<active, netVars, sizeVars, pos, timer, buttonVars, dialog, crashed, conduct>>

Layers == {One, Two}
Sizes == [groups : 0..(MaxGroups + 1), shape : 0..(MaxShape + 1)]
Waiting == {"pickSamples", "samplesLoaded", "pickWeights", "weightsOne", "weightsTwo",
            "save", "conviq", "oneConv", "oneLimit", "conv", "convThenLimit", "limit"}

Init ==
  /\ active = FALSE /\ flag = FALSE /\ layer = None
  /\ net = [l \in Layers |-> None] /\ data = None
  /\ groups = 0 /\ shape = 0 /\ box = [groups |-> 0, shape |-> 0]
  /\ pos = 0 /\ timer = {} /\ runOn = TRUE /\ stopOn = TRUE
  /\ dialog = <<>> /\ crashed = FALSE /\ lost = FALSE /\ conduct = "careful"

\* The main window takes input.
Idle == dialog = <<>> /\ ~crashed

\* The innermost dialog is `d`, and the user closes it.
Closing(d) == ~crashed /\ dialog # <<>> /\ Head(dialog) = d

Open(d) == dialog' = <<d>> \o dialog
Close == dialog' = Tail(dialog)
Replace(d) == dialog' = <<d>> \o Tail(dialog)

\* UpdateData(true) and UpdateData(false).
ReadControls ==
  groups' = box.groups /\ shape' = box.shape /\ UNCHANGED <<box, data>>
ShowControls == box' = [groups |-> groups, shape |-> shape]

\* A careful user knows the program: does not type over the sizes, runs only
\* with samples the network fits, saves only a network that is there, and
\* after Stop waits for Run to come back before loading anything.  "limit":
\* such a user, and a two-layer training passed the average limit, which no
\* user can prevent.
Careful(condition) == conduct' = IF condition THEN conduct ELSE "any"

Crash ==
  /\ crashed' = TRUE
  /\ UNCHANGED <<active, netVars, sizeVars, pos, timer, buttonVars, dialog,
                 conduct>>

\* What saving the weights of layer `l` reads: the network, by the sizes in
\* the members.
SaveInvalid(l) == IF net[l] = None THEN TRUE ELSE shape > net[l]

------------------------------------------------------------------------------
(* Edit boxes.                                                             *)

\* The boxes of the group, class and input-node numbers can be typed into.
TypeSizes ==
  /\ Idle
  /\ box' \in [groups : 0..MaxGroups, shape : 0..MaxShape]
  /\ Careful(FALSE)
  /\ UNCHANGED <<active, netVars, data, groups, shape, pos, timer, buttonVars,
                 dialog, crashed>>

\* Typing into the average limit reads every box, also while training; so do
\* the buttons that choose a folder and make a sample file.
OnEnChangeEditAverageLimit ==
  /\ Idle /\ ReadControls
  /\ UNCHANGED <<active, netVars, pos, timer, buttonVars, dialog, crashed, conduct>>

\* The activation is chosen with the radio buttons, or files are counted with
\* OnBnClickedButtonFind: every member is shown, also while training.
OnRadio ==
  /\ Idle /\ ShowControls
  /\ UNCHANGED <<active, netVars, data, groups, shape, pos, timer, buttonVars,
                 dialog, crashed, conduct>>

------------------------------------------------------------------------------
(* Run and Stop.                                                           *)

\* InitOneHiddenLayer and InitTwoHiddenLayer, for the sizes the boxes show.
InitLayer(l) ==
  /\ net' = [net EXCEPT ![l] = box.shape]
  /\ lost' = (lost \/ net[l] # None)

\* Faulty variant: the flag is not set.
InitNNRNoFlag(l) ==
  /\ IF flag THEN UNCHANGED <<net, lost>> ELSE InitLayer(l)
  /\ timer' = timer \cup {l}
  /\ pos' = 0
  /\ active' = TRUE /\ runOn' = FALSE /\ UNCHANGED flag

\* InitNNR, when its checks of the numbers in the boxes pass.
InitNNR(l) ==
  /\ IF flag THEN UNCHANGED <<net, lost>> ELSE InitLayer(l)
  /\ flag' = TRUE
  /\ timer' = timer \cup {l}
  /\ pos' = 0
  /\ active' = TRUE /\ runOn' = FALSE

\* A layer that cannot be trained is chosen, a number in a box is out of
\* range, or training starts.
OnButtonRun ==
  /\ Idle /\ runOn /\ ~active /\ ReadControls
  /\ \/ UNCHANGED <<active, flag, layer, net, lost, timer, pos, runOn>>
     \/ \E l \in Layers :
          /\ layer' = l
          /\ InitNNR(l) \/ UNCHANGED <<active, flag, net, lost, timer, pos, runOn>>
  /\ Careful(timer' # timer => data # None /\ net'[layer'] = data.shape)
  /\ UNCHANGED <<stopOn, dialog, crashed>>

OnButtonStop ==
  /\ Idle /\ stopOn
  /\ active' = FALSE /\ stopOn' = FALSE
  /\ UNCHANGED <<netVars, sizeVars, pos, timer, runOn, dialog, crashed, conduct>>

------------------------------------------------------------------------------
(* OnTimer.                                                                *)

\* One hidden layer: a tick trains a whole epoch.  `conv` and `limit` are the
\* outcomes of the two comparisons of the average error; with no groups it is
\* not a number and both fail.  SaveIqFile runs before the limit's message.
TickOne(conv, limit) ==
  /\ ~crashed /\ One \in timer
  /\ groups = 0 => ~conv /\ ~limit
  /\ IF \/ net[One] = None
        \/ groups > 0 /\ (IF data = None THEN TRUE
                          ELSE groups > data.groups \/ net[One] > data.shape)
        \/ ~conv /\ limit /\ SaveInvalid(One)
       THEN Crash
       ELSE IF conv \/ limit
       THEN /\ timer' = timer \ {One} /\ pos' = groups
            /\ ShowControls
            /\ Open(IF conv THEN "oneConv" ELSE "oneLimit")
            /\ UNCHANGED <<active, netVars, data, groups, shape, buttonVars,
                           crashed, conduct>>
       ELSE /\ pos' = 0
            /\ ShowControls
            /\ timer' = IF active THEN timer ELSE timer \ {One}
            /\ runOn' = (runOn \/ ~active)
            /\ UNCHANGED <<active, netVars, data, groups, shape, stopOn, dialog,
                           crashed, conduct>>

\* A dialog that offers to save the weights of layer `l` is closed.
SaveFails(l) == SaveInvalid(l) /\ Crash

\* OneHiddenWeightSave's dialog and "Running Complete" are one wait, or
\* "Limit Exceeded" is closed.  `break`: neither m_ActiveFlag nor m_GroupNum
\* is reset.
OneDone ==
  \/ Closing("oneConv") /\ SaveFails(One)
  \/ /\ Closing("oneConv") \/ Closing("oneLimit")
     /\ Close
     /\ runOn' = TRUE
     /\ UNCHANGED <<active, netVars, sizeVars, pos, timer, stopOn, crashed,
                    conduct>>

\* Faulty variants: Run comes back although training goes on; Stop is not
\* looked at; the sample number runs on.
EpochEndsRunBack ==
  /\ pos' = 0
  /\ timer' = IF active THEN timer ELSE timer \ {Two}
  /\ runOn' = TRUE
EpochEndsUnstopped == pos' = 0 /\ UNCHANGED <<timer, runOn>>
EpochEndsNumberKept ==
  /\ pos' = groups
  /\ timer' = IF active THEN timer ELSE timer \ {Two}
  /\ runOn' = (runOn \/ ~active)

\* The end of an epoch of two hidden layers.
EpochEnds ==
  /\ pos' = 0
  /\ timer' = IF active THEN timer ELSE timer \ {Two}
  /\ runOn' = (runOn \/ ~active)

\* Two hidden layers: a tick trains one group.  At convergence the timer is
\* killed before the dialogs; at the average limit KillTimer is given the
\* other timer's number, which is not set.
TickTwo(conv, limit) ==
  /\ ~crashed /\ Two \in timer
  /\ IF \/ net[Two] = None
        \/ IF data = None THEN TRUE ELSE pos >= data.groups \/ net[Two] > data.shape
       THEN Crash
       ELSE IF pos + 1 # groups
       THEN /\ pos' = pos + 1
            /\ UNCHANGED <<active, netVars, sizeVars, timer, buttonVars, dialog,
                           crashed, conduct>>
       ELSE IF conv \/ limit
       THEN /\ pos' = pos + 1
            /\ timer' = IF conv THEN timer \ {Two} ELSE timer \ {One}
            /\ ShowControls
            /\ Open(IF conv /\ limit THEN "convThenLimit" ELSE IF conv THEN "conv" ELSE "limit")
            /\ conduct' = IF limit /\ conduct = "careful" THEN "limit" ELSE conduct
            /\ UNCHANGED <<active, netVars, data, groups, shape, buttonVars,
                           crashed>>
       ELSE /\ EpochEnds
            /\ ShowControls
            /\ UNCHANGED <<active, netVars, data, groups, shape, stopOn, dialog,
                           crashed, conduct>>

\* "Running Complete", then TwoHiddenWeightSave.
TwoConverged ==
  /\ Closing("conv")
  /\ \/ SaveFails(Two)
     \/ /\ Close /\ EpochEnds
        /\ UNCHANGED <<active, netVars, sizeVars, stopOn, crashed, conduct>>

TwoConvergedPastLimit ==
  /\ Closing("convThenLimit")
  /\ \/ SaveFails(Two)
     \/ /\ Replace("limit")
        /\ timer' = timer \ {One}
        /\ UNCHANGED <<active, netVars, sizeVars, pos, buttonVars, crashed,
                       conduct>>

\* "Limit Exceeded", then SaveIqFile, which reads the other network.
TwoPastLimit ==
  /\ Closing("limit")
  /\ IF SaveInvalid(One)
       THEN Crash
       ELSE /\ Close /\ EpochEnds
            /\ UNCHANGED <<active, netVars, sizeVars, stopOn, crashed, conduct>>

------------------------------------------------------------------------------
(* Samples.                                                                *)

OnButtonSampleload ==
  /\ Idle /\ ~active
  /\ Open("pickSamples")
  /\ Careful(timer = {})
  /\ UNCHANGED <<active, netVars, sizeVars, pos, timer, buttonVars, crashed>>

\* The dialog is cancelled, or the chosen file cannot be read.
SamplesNotRead ==
  /\ Closing("pickSamples") /\ Close
  /\ ShowControls \/ UNCHANGED box
  /\ UNCHANGED <<active, netVars, data, groups, shape, pos, timer, buttonVars,
                 crashed, conduct>>

\* DeleteTrainData frees by the sizes in the members.
DeleteInvalid ==
  data # None /\ (groups > data.groups \/ (groups > 0 /\ shape > data.shape))

\* Faulty variants: the limits are not checked; a bad file leaves the old
\* samples in place.
SamplesReadUnlimited(g, s) ==
  /\ Closing("pickSamples") /\ ~DeleteInvalid
  /\ groups' = g /\ shape' = s /\ ShowControls
  /\ data' = [groups |-> g, shape |-> s]
  /\ Replace("samplesLoaded")
  /\ UNCHANGED <<active, netVars, pos, timer, buttonVars, crashed, conduct>>
SamplesReadKeepsOld(g, s) ==
  /\ Closing("pickSamples") /\ ~DeleteInvalid
  /\ groups' = g /\ shape' = s /\ ShowControls
  /\ \/ UNCHANGED data /\ Close
     \/ /\ g <= MaxGroups /\ s <= MaxShape
        /\ data' = [groups |-> g, shape |-> s]
        /\ Replace("samplesLoaded")
  /\ UNCHANGED <<active, netVars, pos, timer, buttonVars, crashed, conduct>>

\* A file is read whose trailer announces `g` groups of shape `s`.  The
\* sizes are taken over before they are checked, and a file that does not
\* match its trailer leaves them so.
SamplesRead(g, s) ==
  /\ Closing("pickSamples")
  /\ IF DeleteInvalid
       THEN Crash
       ELSE /\ groups' = g /\ shape' = s
            /\ ShowControls
            /\ \/ data' = None /\ Close
               \/ /\ g <= MaxGroups /\ s <= MaxShape
                  /\ data' = [groups |-> g, shape |-> s]
                  /\ Replace("samplesLoaded")
            /\ UNCHANGED <<active, netVars, pos, timer, buttonVars, crashed,
                           conduct>>

\* "Data Load Complete", then the values are scaled.
SamplesLoaded ==
  /\ Closing("samplesLoaded") /\ Close
  /\ ShowControls
  /\ UNCHANGED <<active, netVars, data, groups, shape, pos, timer, buttonVars,
                 crashed, conduct>>

------------------------------------------------------------------------------
(* Weights.                                                                *)

\* Both networks are destroyed before the file is chosen.
OnButtonWeighthoad ==
  /\ Idle /\ ~active
  /\ net' = [l \in Layers |-> None]
  /\ Open("pickWeights")
  /\ Careful(timer = {})
  /\ UNCHANGED <<active, flag, layer, lost, sizeVars, pos, timer, buttonVars,
                 crashed>>

\* WeightLoad returns early: cancelled, unreadable, wrong format, or for
\* another number of input nodes or classes.  The flag is set all the same.
WeightsNotLoaded ==
  /\ Closing("pickWeights") /\ Close
  /\ flag' = TRUE
  /\ ShowControls \/ UNCHANGED box
  /\ UNCHANGED <<active, layer, net, lost, data, groups, shape, pos, timer,
                 buttonVars, crashed, conduct>>

\* "Weight Data Load Complete" for a file of one or of two hidden layers.
WeightsRead ==
  /\ Closing("pickWeights")
  /\ Replace("weightsOne") \/ Replace("weightsTwo")
  /\ ShowControls
  /\ UNCHANGED <<active, netVars, data, groups, shape, pos, timer, buttonVars,
                 crashed, conduct>>

WeightsLoaded(l) ==
  /\ Closing(IF l = One THEN "weightsOne" ELSE "weightsTwo") /\ Close
  /\ layer' = l
  /\ net' = [net EXCEPT ![l] = shape]
  /\ lost' = (lost \/ net[l] # None)
  /\ flag' = TRUE
  /\ ShowControls
  /\ UNCHANGED <<active, data, groups, shape, pos, timer, buttonVars, crashed,
                 conduct>>

\* OnButtonWeightsave is not refused while training.
OnButtonWeightsave ==
  /\ Idle
  /\ IF layer = None
       THEN flag' = TRUE /\ UNCHANGED dialog
       ELSE Open("save") /\ UNCHANGED flag
  /\ Careful(IF layer = None THEN FALSE ELSE net[layer] = shape)
  /\ UNCHANGED <<active, layer, net, lost, sizeVars, pos, timer, buttonVars,
                 crashed>>

WeightsSaved ==
  /\ Closing("save")
  /\ \/ SaveFails(layer)
     \/ /\ Close /\ flag' = TRUE
        /\ UNCHANGED <<active, layer, net, lost, sizeVars, pos, timer, buttonVars,
                       crashed, conduct>>

OnButtonConviq ==
  /\ Idle /\ Open("conviq")
  /\ Careful(net[One] = shape)
  /\ UNCHANGED <<active, netVars, sizeVars, pos, timer, buttonVars, crashed>>

IqSaved ==
  /\ Closing("conviq")
  /\ \/ SaveFails(One)
     \/ Close /\ UNCHANGED <<active, netVars, sizeVars, pos, timer, buttonVars,
                             crashed, conduct>>

\* The network of one hidden layer, running or not, judges the files below a
\* folder that have the size in the boxes, if there are any; its arrays have
\* the size of the network.
OnButtonPathResult ==
  /\ Idle
  /\ Careful(net[One] = box.shape)
  /\ \/ net[One] # None /\ ReadControls /\ UNCHANGED crashed
     \/ /\ IF net[One] = None THEN TRUE ELSE box.shape < net[One]
        /\ crashed' = TRUE /\ UNCHANGED sizeVars
  /\ UNCHANGED <<active, netVars, pos, timer, buttonVars, dialog>>

------------------------------------------------------------------------------
Outcomes == {<<TRUE, TRUE>>, <<TRUE, FALSE>>, <<FALSE, TRUE>>, <<FALSE, FALSE>>}

Tick ==
  \E o \in Outcomes :
    \/ TickOne(o[1], o[2])
    \/ TickTwo(o[1], o[2])

Answer ==
  \/ OneDone \/ TwoConverged \/ TwoConvergedPastLimit \/ TwoPastLimit
  \/ SamplesNotRead \/ SamplesLoaded
  \/ \E g \in 1..(MaxGroups + 1), s \in 1..(MaxShape + 1) : SamplesRead(g, s)
  \/ WeightsNotLoaded \/ WeightsRead \/ WeightsSaved \/ IqSaved
  \/ \E l \in Layers : WeightsLoaded(l)

Next ==
  \/ Tick \/ Answer
  \/ TypeSizes \/ OnEnChangeEditAverageLimit \/ OnRadio
  \/ OnButtonRun \/ OnButtonStop
  \/ OnButtonSampleload \/ OnButtonWeighthoad \/ OnButtonWeightsave \/ OnButtonConviq
  \/ OnButtonPathResult

Spec == Init /\ [][Next]_vars

\* Windows delivers WM_TIMER of a live timer whenever the message loop runs.
\* No user has to press or to close anything.
FairSpec == Spec /\ WF_vars(Tick)

------------------------------------------------------------------------------
(* Properties.                                                             *)

\* Every variable stays in the set of values the code can give it.
TypeOK ==
  /\ active \in BOOLEAN /\ flag \in BOOLEAN /\ layer \in Layers \cup {None}
  /\ net \in [Layers -> 0..(MaxShape + 1) \cup {None}]
  /\ data \in [groups : 1..MaxGroups, shape : 1..MaxShape] \cup {None}
  /\ groups \in 0..(MaxGroups + 1) /\ shape \in 0..(MaxShape + 1) /\ box \in Sizes
  /\ pos \in 0..(MaxGroups + 1) /\ timer \subseteq Layers
  /\ runOn \in BOOLEAN /\ stopOn \in BOOLEAN
  /\ dialog \in Seq(Waiting) /\ crashed \in BOOLEAN /\ lost \in BOOLEAN
  /\ conduct \in {"careful", "limit", "any"}

\* Two trainings never run at once, and Run is not offered while one does,
\* although Run comes back on five different paths of OnTimer and the flag
\* and the timers disagree on some of them.
OneTraining == Cardinality(timer) <= 1 /\ (timer # {} => ~runOn)

\* A network that is there is destroyed before its pointer is overwritten.
\* This rests on m_WeightLoadFlag, which both layers share.
NetworkNotLost == ~lost

\* Stop takes effect: a timer whose training was stopped is killed at the end
\* of an epoch, unless the program dies first.
StopTakesEffect == ~active /\ timer # {} ~> timer = {} \/ crashed

\* A careful user never makes the program access what is not there.
NoCrash == conduct = "careful" => ~crashed

\* NNRView.cpp:91: m_GroupNum tells `which sample is being sent`.  While the
\* two-layer timer is live it numbers a sample that is loaded, if the user is
\* careful.
SampleNumberValid == conduct # "any" => (Two \in timer => pos < groups)

\* For a careful user the samples have, outside of the loading dialogs, the
\* sizes that the handlers take from the edit boxes.
SizesMatchSamples ==
  conduct = "careful" /\ data # None /\ dialog = <<>> =>
    data = [groups |-> groups, shape |-> shape] /\ box = data
==============================================================================
