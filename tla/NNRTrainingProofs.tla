------------------------- MODULE NNRTrainingProofs --------------------------
(***************************************************************************)
(* Proofs about the training session: whatever the user does, one training *)
(* runs at a time and no network is lost; a user who acts with care never  *)
(* makes the program access what is not there.                             *)
(***************************************************************************)
EXTENDS NNRTraining, FiniteSetTheorems, TLAPS

\* The handlers that wait for a dialog.
Shown(waiting) == {waiting[i] : i \in 1..Len(waiting)}

SampleDialogs == {"pickSamples", "samplesLoaded"}
WeightDialogs == {"pickWeights", "weightsOne", "weightsTwo"}
LoadDialogs == SampleDialogs \cup WeightDialogs
Ended == {"oneConv", "oneLimit", "conv", "convThenLimit"}

\* One timer at most; the dialogs that end a training appear when its timer is
\* gone, but that of the average limit of two layers.
TimerInv ==
  /\ timer \in {{}, {One}, {Two}}
  /\ timer # {} => ~runOn
  /\ Shown(dialog) \cap Ended # {} => timer = {}
  /\ "limit" \in Shown(dialog) => timer \subseteq {Two}

SessionInv == TypeOK /\ TimerInv

\* No network is there while weights are loaded, nor before the flag is set.
NetworkInv ==
  /\ ~lost
  /\ ~flag => \A l \in Layers : net[l] = None
  /\ Shown(dialog) \cap WeightDialogs # {} =>
       Len(dialog) = 1 /\ \A l \in Layers : net[l] = None

\* What care keeps: the sizes are those of the samples, a timer has samples and
\* a network of their shape, and what a dialog offers to save is there.
SamplesKept ==
  data # None =>
    /\ groups = data.groups /\ shape = data.shape
    /\ "samplesLoaded" \notin Shown(dialog) => box = data
TimerFed ==
  timer # {} =>
    /\ data # None
    /\ \A l \in timer : net[l] = shape
    /\ Two \in timer => pos < groups
DialogsKept ==
  /\ Shown(dialog) \cap LoadDialogs # {} =>
       timer = {} /\ Len(dialog) = 1
  /\ "save" \in Shown(dialog) => layer # None /\ net[layer] = shape
  /\ Shown(dialog) \cap {"conviq", "oneConv"} # {} => net[One] = shape
  /\ "conv" \in Shown(dialog) => net[Two] = shape
  /\ Shown(dialog) \cap {"limit", "convThenLimit"} = {}
Care == ~crashed /\ SamplesKept /\ TimerFed /\ DialogsKept
CareInv == conduct = "careful" => Care

\* The three ways in which a handler moves the stack of dialogs.
LEMMA Pushed ==
  ASSUME NEW S, NEW w \in Seq(S), NEW d \in S
  PROVE  /\ <<d>> \o w \in Seq(S) /\ Len(<<d>> \o w) = Len(w) + 1
         /\ Shown(<<d>> \o w) = Shown(w) \cup {d}
<1>1. /\ <<d>> \o w \in Seq(S) /\ Len(<<d>> \o w) = Len(w) + 1
      /\ (<<d>> \o w)[1] = d
      /\ \A i \in 1..Len(w) : (<<d>> \o w)[i + 1] = w[i]
      /\ \A i \in 2..(Len(w) + 1) : (<<d>> \o w)[i] = w[i - 1]
  OBVIOUS
<1>2. PICK n \in Nat : n = Len(w)
  OBVIOUS
<1>3. ASSUME NEW x \in Shown(<<d>> \o w) PROVE x \in Shown(w) \cup {d}
  <2>1. PICK i \in 1..(n + 1) : x = (<<d>> \o w)[i]
    BY <1>1, <1>2, <1>3 DEF Shown
  <2>2. i = 1 \/ (i \in 2..(n + 1) /\ i - 1 \in 1..n)
    BY <1>2, <2>1
  <2> QED BY <1>1, <1>2, <2>1, <2>2 DEF Shown
<1>4. ASSUME NEW x \in Shown(w) \cup {d} PROVE x \in Shown(<<d>> \o w)
  <2>1. CASE x = d
    <3>1. 1 \in 1..Len(<<d>> \o w)
      BY <1>1, <1>2
    <3> QED BY <1>1, <2>1, <3>1 DEF Shown
  <2>2. CASE x \in Shown(w)
    <3>1. PICK i \in 1..n : x = w[i]
      BY <1>2, <2>2 DEF Shown
    <3>2. i + 1 \in 1..Len(<<d>> \o w)
      BY <1>1, <1>2
    <3> QED BY <1>1, <1>2, <3>1, <3>2 DEF Shown
  <2> QED BY <1>4, <2>1, <2>2
<1> QED BY <1>1, <1>3, <1>4

LEMMA Popped ==
  ASSUME NEW S, NEW w \in Seq(S), w # <<>>
  PROVE  /\ Tail(w) \in Seq(S) /\ Len(Tail(w)) = Len(w) - 1
         /\ Len(w) \in Nat \ {0} /\ Len(w) = 1 => Tail(w) = <<>>
         /\ Shown(Tail(w)) \subseteq Shown(w)
         /\ Head(w) \in Shown(w)
<1>1. PICK n \in Nat \ {0} : n = Len(w)
  OBVIOUS
<1>2. /\ Tail(w) \in Seq(S) /\ Len(Tail(w)) = n - 1
      /\ \A i \in 1..(n - 1) : Tail(w)[i] = w[i + 1] /\ i + 1 \in 1..n
      /\ Head(w) = w[1] /\ 1 \in 1..n
  BY <1>1
<1> QED BY <1>1, <1>2 DEF Shown

LEMMA Replaced ==
  ASSUME NEW S, NEW w \in Seq(S), w # <<>>, NEW d \in S
  PROVE  /\ <<d>> \o Tail(w) \in Seq(S) /\ Len(<<d>> \o Tail(w)) = Len(w)
         /\ Shown(<<d>> \o Tail(w)) \subseteq Shown(w) \cup {d}
<1>1. PICK t : t = Tail(w)
  OBVIOUS
<1>2. t \in Seq(S) /\ Len(t) = Len(w) - 1 /\ Len(w) \in Nat /\ Shown(t) \subseteq Shown(w)
  BY <1>1, Popped
<1>3. /\ <<d>> \o t \in Seq(S) /\ Len(<<d>> \o t) = Len(t) + 1
      /\ Shown(<<d>> \o t) = Shown(t) \cup {d}
  BY <1>2, Pushed
<1> QED BY <1>1, <1>2, <1>3

LEMMA Nothing == Shown(<<>>) = {} /\ Len(<<>>) = 0
BY DEF Shown

\* When the only dialog is exchanged.
LEMMA OneReplaced ==
  ASSUME NEW S, NEW w \in Seq(S), Len(w) = 1, NEW d \in S
  PROVE  /\ Len(<<d>> \o Tail(w)) = 1
         /\ Shown(<<d>> \o Tail(w)) = {d}
<1>1. PICK t : t = Tail(w)
  OBVIOUS
<1>2. t \in Seq(S)
  BY <1>1
<1>3. Len(<<d>> \o t) = Len(t) + 1 /\ Shown(<<d>> \o t) = Shown(t) \cup {d}
  BY <1>2, Pushed
<1>4. Shown(t) = {} /\ Len(t) = 0
  <2>1. t = <<>>
    BY <1>1, Nothing, Popped
  <2> QED BY <2>1, Nothing
<1> QED BY <1>1, <1>3, <1>4

\* What each does to the stack of a state.
LEMMA Opened ==
  ASSUME NEW d \in Waiting, dialog \in Seq(Waiting), Open(d)
  PROVE  /\ dialog' \in Seq(Waiting) /\ Len(dialog') = Len(dialog) + 1
         /\ Shown(dialog') = Shown(dialog) \cup {d}
BY Pushed DEF Open

LEMMA Closed ==
  ASSUME NEW d, dialog \in Seq(Waiting), Closing(d), Close
  PROVE  /\ dialog' \in Seq(Waiting) /\ Len(dialog') = Len(dialog) - 1
         /\ Len(dialog) \in Nat \ {0} /\ Len(dialog) = 1 => dialog' = <<>>
         /\ Shown(dialog') \subseteq Shown(dialog) /\ d \in Shown(dialog)
BY Popped DEF Close, Closing

LEMMA Exchanged ==
  ASSUME NEW d, NEW e \in Waiting, dialog \in Seq(Waiting), Closing(d), Replace(e)
  PROVE  /\ dialog' \in Seq(Waiting) /\ Len(dialog') = Len(dialog)
         /\ Shown(dialog') \subseteq Shown(dialog) \cup {e} /\ d \in Shown(dialog)
BY Popped, Replaced DEF Replace, Closing

LEMMA ClosingShown ==
  ASSUME NEW d, dialog \in Seq(Waiting), Closing(d)
  PROVE  ~crashed /\ d \in Shown(dialog) /\ dialog # <<>>
BY Popped DEF Closing

\* The outcomes of OnTimer's two branches.
LEMMA TickOneOutcomes ==
  ASSUME active \in BOOLEAN, runOn \in BOOLEAN,
         NEW c \in BOOLEAN, NEW m \in BOOLEAN, TickOne(c, m)
  PROVE  /\ One \in timer /\ ~crashed
         /\ \/ /\ Crash
               /\ \/ net[One] = None
                  \/ groups > 0 /\ (data = None \/ groups > data.groups \/ net[One] > data.shape)
                  \/ SaveInvalid(One)
            \/ /\ net[One] # None /\ ShowControls
               /\ UNCHANGED <<active, netVars, data, groups, shape, stopOn,
                              crashed, conduct>>
               /\ \/ /\ \E d \in {"oneConv", "oneLimit"} : Open(d)
                     /\ timer' = timer \ {One} /\ pos' = groups /\ runOn' = runOn
                  \/ /\ dialog' = dialog /\ pos' = 0
                     /\ timer' \in {timer, timer \ {One}}
                     /\ runOn' \in BOOLEAN /\ (runOn' => runOn \/ ~active)
                     /\ ~active => timer' = timer \ {One}
<1>1. One \in timer /\ ~crashed
  BY DEF TickOne
<1>2. CASE \/ net[One] = None
           \/ groups > 0 /\ (IF data = None THEN TRUE
                             ELSE groups > data.groups \/ net[One] > data.shape)
           \/ ~c /\ m /\ SaveInvalid(One)
  BY <1>1, <1>2 DEF TickOne
<1>3. CASE ~(\/ net[One] = None
             \/ groups > 0 /\ (IF data = None THEN TRUE
                               ELSE groups > data.groups \/ net[One] > data.shape)
             \/ ~c /\ m /\ SaveInvalid(One))
  <2>1. CASE c \/ m
    BY <1>1, <1>3, <2>1 DEF TickOne, netVars, buttonVars
  <2>2. CASE ~(c \/ m)
    BY <1>1, <1>3, <2>2 DEF TickOne, netVars, buttonVars
  <2> QED BY <2>1, <2>2
<1> QED BY <1>2, <1>3

LEMMA EpochEndsOutcomes ==
  ASSUME active \in BOOLEAN, runOn \in BOOLEAN, EpochEnds
  PROVE  /\ pos' = 0 /\ runOn' \in BOOLEAN
         /\ timer' \in {timer, timer \ {Two}}
         /\ ~active => timer' = timer \ {Two}
         /\ runOn' => runOn \/ ~active
BY DEF EpochEnds

LEMMA TickTwoOutcomes ==
  ASSUME NEW c \in BOOLEAN, NEW m \in BOOLEAN, TickTwo(c, m)
  PROVE  /\ Two \in timer /\ ~crashed
         /\ \/ /\ Crash
               /\ \/ net[Two] = None \/ data = None
                  \/ pos >= data.groups \/ net[Two] > data.shape
            \/ /\ net[Two] # None /\ data # None /\ ~(pos >= data.groups)
               /\ UNCHANGED <<active, netVars, data, groups, shape, stopOn,
                              crashed>>
               /\ \/ /\ pos' = pos + 1 /\ pos + 1 # groups
                     /\ UNCHANGED <<box, timer, runOn, dialog, conduct>>
                  \/ /\ \E d \in {"conv", "convThenLimit"} : Open(d) /\ (d = "convThenLimit" => m)
                     /\ timer' = timer \ {Two} /\ pos' = pos + 1 /\ runOn' = runOn
                     /\ ShowControls
                     /\ conduct' = IF m /\ conduct = "careful" THEN "limit" ELSE conduct
                  \/ /\ Open("limit") /\ m
                     /\ timer' = timer \ {One} /\ pos' = pos + 1 /\ runOn' = runOn
                     /\ ShowControls
                     /\ conduct' = IF m /\ conduct = "careful" THEN "limit" ELSE conduct
                  \/ EpochEnds /\ ShowControls /\ UNCHANGED <<dialog, conduct>>
<1>1. Two \in timer /\ ~crashed
  BY DEF TickTwo
<1>2. CASE \/ net[Two] = None
           \/ IF data = None THEN TRUE ELSE pos >= data.groups \/ net[Two] > data.shape
  BY <1>1, <1>2 DEF TickTwo
<1>3. CASE ~(\/ net[Two] = None
             \/ IF data = None THEN TRUE ELSE pos >= data.groups \/ net[Two] > data.shape)
  <2>1. CASE pos + 1 # groups
    BY <1>1, <1>3, <2>1 DEF TickTwo, netVars, sizeVars, buttonVars
  <2>2. CASE pos + 1 = groups /\ c
    BY <1>1, <1>3, <2>2 DEF TickTwo, netVars, sizeVars, buttonVars
  <2>3. CASE pos + 1 = groups /\ ~c /\ m
    BY <1>1, <1>3, <2>3 DEF TickTwo, netVars, sizeVars, buttonVars
  <2>4. CASE pos + 1 = groups /\ ~c /\ ~m
    BY <1>1, <1>3, <2>4 DEF TickTwo, netVars, sizeVars, buttonVars
  <2> QED BY <2>1, <2>2, <2>3, <2>4
<1> QED BY <1>2, <1>3

\* The actions of the session, one by one.
LEMMA Steps ==
  ASSUME Next
  PROVE  \/ \E c, m \in BOOLEAN : TickOne(c, m) \/ TickTwo(c, m)
         \/ OneDone \/ TwoConverged \/ TwoConvergedPastLimit \/ TwoPastLimit
         \/ SamplesNotRead \/ SamplesLoaded
         \/ \E g \in 1..(MaxGroups + 1), s \in 1..(MaxShape + 1) : SamplesRead(g, s)
         \/ WeightsNotLoaded \/ WeightsRead \/ WeightsSaved \/ IqSaved
         \/ \E l \in Layers : WeightsLoaded(l)
         \/ TypeSizes \/ OnEnChangeEditAverageLimit \/ OnButtonRun \/ OnButtonStop
         \/ OnButtonSampleload \/ OnButtonWeighthoad \/ OnButtonWeightsave \/ OnButtonConviq
         \/ OnRadio \/ OnButtonPathResult
<1>1. CASE Tick
  <2>1. PICK o \in Outcomes : TickOne(o[1], o[2]) \/ TickTwo(o[1], o[2])
    BY <1>1 DEF Tick
  <2>2. o[1] \in BOOLEAN /\ o[2] \in BOOLEAN
    <3>1. o[1] = TRUE \/ o[1] = FALSE
      BY <2>1 DEF Outcomes
    <3>2. o[2] = TRUE \/ o[2] = FALSE
      BY <2>1 DEF Outcomes
    <3> QED BY <3>1, <3>2
  <2> QED BY <2>1, <2>2
<1>2. CASE Answer
  BY <1>2 DEF Answer
<1> QED BY <1>1, <1>2 DEF Next

\* Every step keeps the types.
LEMMA TypeStep == TypeOK /\ [Next]_vars => TypeOK'
<1> SUFFICES ASSUME TypeOK, [Next]_vars PROVE TypeOK'
  OBVIOUS
<1> USE LayerAssumption, BoundAssumption
<1>1. ASSUME NEW c \in BOOLEAN, NEW m \in BOOLEAN, TickOne(c, m)
      PROVE  TypeOK'
  <2>1. /\ active \in BOOLEAN /\ runOn \in BOOLEAN /\ dialog \in Seq(Waiting)
        /\ {"oneConv", "oneLimit"} \subseteq Waiting
    BY DEF TypeOK, Waiting
  <2>2. CASE Crash
    BY <2>2 DEF TypeOK, Crash, netVars, sizeVars, buttonVars
  <2>3. CASE ~Crash
    <3>1. dialog' \in Seq(Waiting)
      BY <1>1, <2>1, <2>3, TickOneOutcomes, Opened
    <3>2. /\ pos' \in {0, groups} /\ timer' \subseteq timer /\ runOn' \in BOOLEAN
          /\ UNCHANGED <<active, netVars, data, groups, shape, stopOn, crashed,
                         conduct>>
          /\ ShowControls
      BY <1>1, <2>1, <2>3, TickOneOutcomes
    <3> QED BY <3>1, <3>2 DEF TypeOK, Sizes, ShowControls, netVars
  <2> QED BY <2>2, <2>3
<1>2. ASSUME NEW c \in BOOLEAN, NEW m \in BOOLEAN, TickTwo(c, m)
      PROVE  TypeOK'
  <2>1. /\ active \in BOOLEAN /\ runOn \in BOOLEAN /\ dialog \in Seq(Waiting)
        /\ {"conv", "convThenLimit", "limit"} \subseteq Waiting
    BY DEF TypeOK, Waiting
  <2>2. CASE Crash
    BY <2>2 DEF TypeOK, Crash, netVars, sizeVars, buttonVars
  <2>3. CASE ~Crash
    <3>1. dialog' \in Seq(Waiting)
      BY <1>2, <2>1, <2>3, TickTwoOutcomes, Opened
    <3>2. /\ pos' \in {0, pos + 1} /\ timer' \subseteq timer /\ runOn' \in BOOLEAN
          /\ UNCHANGED <<active, netVars, data, groups, shape, stopOn, crashed>>
          /\ ShowControls \/ box' = box
          /\ data # None /\ ~(pos >= data.groups)
          /\ conduct' \in {conduct, "limit"}
      BY <1>2, <2>1, <2>3, TickTwoOutcomes, EpochEndsOutcomes
    <3>3. pos' \in 0..(MaxGroups + 1)
      BY <3>2 DEF TypeOK
    <3> QED BY <3>1, <3>2, <3>3 DEF TypeOK, Sizes, ShowControls, netVars
  <2> QED BY <2>2, <2>3
<1>3. CASE OneDone
  <2>1. dialog' \in Seq(Waiting)
    BY <1>3, Closed
       DEF TypeOK, Waiting, OneDone, SaveFails, Crash, netVars, sizeVars, buttonVars
  <2> QED BY <1>3, Closed, <2>1
     DEF TypeOK, Sizes, OneDone, SaveFails, Crash, netVars, sizeVars, buttonVars
<1>4. CASE TwoConverged
  <2>1. CASE Crash
    BY <2>1 DEF TypeOK, Crash, netVars, sizeVars, buttonVars
  <2>2. CASE ~Crash
    <3>1. Close /\ EpochEnds /\ UNCHANGED <<active, netVars, sizeVars, stopOn,
                                            crashed, conduct>>
      BY <1>4, <2>2 DEF TwoConverged, SaveFails
    <3>2. dialog' \in Seq(Waiting)
      BY <1>4, <3>1, Closed DEF TypeOK, TwoConverged
    <3>3. active \in BOOLEAN /\ runOn \in BOOLEAN
      BY DEF TypeOK
    <3>4. pos' = 0 /\ runOn' \in BOOLEAN /\ timer' \subseteq timer
      BY <3>1, <3>3, EpochEndsOutcomes
    <3> QED BY <3>1, <3>2, <3>4 DEF TypeOK, netVars, sizeVars
  <2> QED BY <2>1, <2>2
<1>5. CASE TwoConvergedPastLimit
  <2>1. dialog' \in Seq(Waiting)
    BY <1>5, Exchanged
       DEF TypeOK, Waiting, TwoConvergedPastLimit, SaveFails, Crash, netVars,
           sizeVars, buttonVars
  <2> QED BY <1>5, Exchanged, <2>1
     DEF TypeOK, Sizes, TwoConvergedPastLimit, SaveFails, Crash, netVars, sizeVars,
         buttonVars
<1>6. CASE TwoPastLimit
  <2>1. CASE Crash
    BY <2>1 DEF TypeOK, Crash, netVars, sizeVars, buttonVars
  <2>2. CASE ~Crash
    <3>1. Close /\ EpochEnds /\ UNCHANGED <<active, netVars, sizeVars, stopOn,
                                            crashed, conduct>>
      BY <1>6, <2>2 DEF TwoPastLimit, SaveFails
    <3>2. dialog' \in Seq(Waiting)
      BY <1>6, <3>1, Closed DEF TypeOK, TwoPastLimit
    <3>3. active \in BOOLEAN /\ runOn \in BOOLEAN
      BY DEF TypeOK
    <3>4. pos' = 0 /\ runOn' \in BOOLEAN /\ timer' \subseteq timer
      BY <3>1, <3>3, EpochEndsOutcomes
    <3> QED BY <3>1, <3>2, <3>4 DEF TypeOK, netVars, sizeVars
  <2> QED BY <2>1, <2>2
<1>7. CASE SamplesNotRead
  <2>1. dialog' \in Seq(Waiting)
    BY <1>7, Closed
       DEF TypeOK, Waiting, SamplesNotRead, ShowControls, netVars, sizeVars,
           buttonVars
  <2> QED BY <1>7, Closed, <2>1
     DEF TypeOK, Sizes, SamplesNotRead, ShowControls, netVars, sizeVars, buttonVars
<1>8. CASE SamplesLoaded
  <2>1. dialog' \in Seq(Waiting)
    BY <1>8, Closed
       DEF TypeOK, Waiting, SamplesLoaded, ShowControls, netVars, sizeVars,
           buttonVars
  <2> QED BY <1>8, Closed, <2>1
     DEF TypeOK, Sizes, SamplesLoaded, ShowControls, netVars, sizeVars, buttonVars
<1>9. ASSUME NEW g \in 1..(MaxGroups + 1), NEW s \in 1..(MaxShape + 1), SamplesRead(g, s)
      PROVE  TypeOK'
  <2>1. CASE Crash
    BY <2>1 DEF TypeOK, Crash, netVars, sizeVars, buttonVars
  <2>2. CASE ~Crash
    <3>1. dialog' \in Seq(Waiting)
      BY <1>9, <2>2, Closed, Exchanged DEF TypeOK, Waiting, SamplesRead
    <3>2. data' \in [groups : 1..MaxGroups, shape : 1..MaxShape] \cup {None}
      BY <1>9, <2>2 DEF SamplesRead
    <3>3. /\ groups' = g /\ shape' = s /\ ShowControls
          /\ UNCHANGED <<active, netVars, pos, timer, buttonVars, crashed, conduct>>
      BY <1>9, <2>2 DEF SamplesRead
    <3> QED BY <1>9, <3>1, <3>2, <3>3
       DEF TypeOK, Sizes, ShowControls, netVars, buttonVars
  <2> QED BY <2>1, <2>2
<1>10. CASE WeightsNotLoaded
  <2>1. dialog' \in Seq(Waiting)
    BY <1>10, Closed
       DEF TypeOK, Waiting, WeightsNotLoaded, ShowControls, netVars, sizeVars,
           buttonVars
  <2> QED BY <1>10, Closed, <2>1
     DEF TypeOK, Sizes, WeightsNotLoaded, ShowControls, netVars, sizeVars,
         buttonVars
<1>11. CASE WeightsRead
  <2>1. dialog' \in Seq(Waiting)
    BY <1>11, Exchanged
       DEF TypeOK, Waiting, WeightsRead, ShowControls, netVars, sizeVars, buttonVars
  <2> QED BY <1>11, Exchanged, <2>1
     DEF TypeOK, Sizes, WeightsRead, ShowControls, netVars, sizeVars, buttonVars
<1>12. CASE WeightsSaved
  <2>1. dialog' \in Seq(Waiting)
    BY <1>12, Closed
       DEF TypeOK, Waiting, WeightsSaved, SaveFails, Crash, netVars, sizeVars,
           buttonVars
  <2> QED BY <1>12, Closed, <2>1
     DEF TypeOK, Sizes, WeightsSaved, SaveFails, Crash, netVars, sizeVars,
         buttonVars
<1>13. CASE IqSaved
  <2>1. dialog' \in Seq(Waiting)
    BY <1>13, Closed
       DEF TypeOK, Waiting, IqSaved, SaveFails, Crash, netVars, sizeVars, buttonVars
  <2> QED BY <1>13, Closed, <2>1
     DEF TypeOK, Sizes, IqSaved, SaveFails, Crash, netVars, sizeVars, buttonVars
<1>14. ASSUME NEW l \in Layers, WeightsLoaded(l)
      PROVE  TypeOK'
  <2>1. dialog' \in Seq(Waiting)
    BY <1>14, Closed
       DEF TypeOK, Waiting, WeightsLoaded, ShowControls, netVars, sizeVars,
           buttonVars
  <2> QED BY <1>14, Closed, <2>1
     DEF TypeOK, Sizes, WeightsLoaded, ShowControls, netVars, sizeVars, buttonVars
<1>15. CASE TypeSizes
  BY <1>15
     DEF TypeOK, Sizes, TypeSizes, Careful, Idle, netVars, sizeVars, buttonVars
<1>16. CASE OnEnChangeEditAverageLimit
  BY <1>16
     DEF TypeOK, Sizes, OnEnChangeEditAverageLimit, ReadControls, Idle, netVars,
         sizeVars, buttonVars
<1>17. CASE OnButtonRun
  <2>1. /\ groups' \in 0..(MaxGroups + 1) /\ shape' \in 0..(MaxShape + 1)
        /\ UNCHANGED <<box, data, stopOn, dialog, crashed>>
        /\ conduct' \in {conduct, "any"}
    BY <1>17 DEF TypeOK, Sizes, OnButtonRun, ReadControls, Careful
  <2>2. CASE UNCHANGED <<active, flag, layer, net, lost, timer, pos, runOn>>
    BY <2>1, <2>2 DEF TypeOK, Sizes
  <2>3. ASSUME NEW l \in Layers, layer' = l,
               InitNNR(l) \/ UNCHANGED <<active, flag, net, lost, timer, pos,
                                         runOn>>
        PROVE  TypeOK'
    <3>1. CASE UNCHANGED <<active, flag, net, lost, timer, pos, runOn>>
      BY <2>1, <2>3, <3>1 DEF TypeOK, Sizes
    <3>2. CASE InitNNR(l)
      <4>1. net' \in [Layers -> 0..(MaxShape + 1) \cup {None}]
        BY <3>2 DEF TypeOK, Sizes, InitNNR, InitLayer
      <4>2. lost' \in BOOLEAN
        <5>1. lost' = lost \/ lost' = (lost \/ net[l] # None)
          BY <3>2 DEF InitNNR, InitLayer
        <5> QED BY <5>1 DEF TypeOK
      <4>3. /\ flag' = TRUE /\ timer' = timer \cup {l} /\ pos' = 0
            /\ active' = TRUE /\ runOn' = FALSE
        BY <3>2 DEF InitNNR
      <4>4. /\ active' \in BOOLEAN /\ flag' \in BOOLEAN /\ runOn' \in BOOLEAN
            /\ stopOn' \in BOOLEAN /\ crashed' \in BOOLEAN
        BY <2>1, <4>3 DEF TypeOK
      <4>5. timer' \subseteq Layers /\ pos' \in 0..(MaxGroups + 1)
        BY <4>3 DEF TypeOK
      <4> QED BY <2>1, <2>3, <4>1, <4>2, <4>4, <4>5 DEF TypeOK, Sizes
    <3> QED BY <2>3, <3>1, <3>2
  <2> QED BY <1>17, <2>2, <2>3 DEF OnButtonRun
<1>18. CASE OnButtonStop
  BY <1>18 DEF TypeOK, Sizes, OnButtonStop, Idle, netVars, sizeVars, buttonVars
<1>19. CASE OnButtonSampleload
  <2>1. dialog' \in Seq(Waiting)
    BY <1>19, Opened
       DEF TypeOK, Waiting, OnButtonSampleload, Careful, Idle, netVars, sizeVars,
           buttonVars
  <2> QED BY <1>19, Opened, <2>1
     DEF TypeOK, Sizes, OnButtonSampleload, Careful, Idle, netVars, sizeVars,
         buttonVars
<1>20. CASE OnButtonWeighthoad
  <2>1. dialog' \in Seq(Waiting)
    BY <1>20, Opened
       DEF TypeOK, Waiting, OnButtonWeighthoad, Careful, Idle, netVars, sizeVars,
           buttonVars
  <2> QED BY <1>20, Opened, <2>1
     DEF TypeOK, Sizes, OnButtonWeighthoad, Careful, Idle, netVars, sizeVars,
         buttonVars
<1>21. CASE OnButtonWeightsave
  <2>1. dialog' \in Seq(Waiting)
    BY <1>21, Opened
       DEF TypeOK, Waiting, OnButtonWeightsave, Careful, Idle, netVars, sizeVars,
           buttonVars
  <2> QED BY <1>21, Opened, <2>1
     DEF TypeOK, Sizes, OnButtonWeightsave, Careful, Idle, netVars, sizeVars,
         buttonVars
<1>22. CASE OnButtonConviq
  <2>1. dialog' \in Seq(Waiting)
    BY <1>22, Opened
       DEF TypeOK, Waiting, OnButtonConviq, Careful, Idle, netVars, sizeVars,
           buttonVars
  <2> QED BY <1>22, Opened, <2>1
     DEF TypeOK, Sizes, OnButtonConviq, Careful, Idle, netVars, sizeVars, buttonVars
<1>23. CASE UNCHANGED vars
  BY <1>23 DEF TypeOK, Sizes, vars, netVars, sizeVars, buttonVars
<1>24. CASE OnRadio
  BY <1>24
     DEF TypeOK, Sizes, OnRadio, ShowControls, Idle, netVars, buttonVars
<1>25. CASE OnButtonPathResult
  BY <1>25
     DEF TypeOK, Sizes, OnButtonPathResult, Careful, ReadControls, Idle, netVars,
         sizeVars, buttonVars
<1> QED BY <1>1, <1>2, <1>3, <1>4, <1>5, <1>6, <1>7, <1>8, <1>9, <1>10, <1>11,
          <1>12, <1>13, <1>14, <1>15, <1>16, <1>17, <1>18, <1>19, <1>20, <1>21,
          <1>22, <1>23, <1>24, <1>25, Steps

\* The dialogs that do not end a training.
Plain == Waiting \ (Ended \cup {"limit"})

\* What a step keeps that leaves the timer and Run alone and ends no training.
LEMMA TimerKept ==
  ASSUME TimerInv, UNCHANGED <<timer, runOn>>,
                               Shown(dialog') \subseteq Shown(dialog) \cup Plain
  PROVE  TimerInv'
BY DEF TimerInv, Plain, Ended, Waiting

\* One training at a time is kept by every step.
LEMMA TimerStep == SessionInv /\ [Next]_vars => TimerInv'
<1> SUFFICES ASSUME SessionInv, [Next]_vars PROVE TimerInv'
  OBVIOUS
<1> USE LayerAssumption
<1>0. /\ TimerInv /\ dialog \in Seq(Waiting) /\ timer \subseteq {One, Two}
      /\ active \in BOOLEAN /\ runOn \in BOOLEAN
  BY DEF SessionInv, TypeOK, Layers
<1>1. ASSUME NEW c \in BOOLEAN, NEW m \in BOOLEAN, TickOne(c, m)
      PROVE  TimerInv'
  <2>1. One \in timer /\ timer = {One} /\ ~runOn
    BY <1>0, <1>1, TickOneOutcomes DEF TimerInv
  <2>2. CASE Crash
    BY <1>0, <2>2, TimerKept DEF Crash, buttonVars
  <2>3. CASE \E d \in {"oneConv", "oneLimit"} : Open(d) /\ timer' = timer \ {One}
    <3>1. PICK d \in {"oneConv", "oneLimit"} : Open(d)
      BY <2>3
    <3>2. Shown(dialog') = Shown(dialog) \cup {d} /\ timer' = {}
      BY <1>0, <2>1, <2>3, <3>1, Opened DEF Waiting
    <3> QED BY <3>2 DEF TimerInv
  <2>4. CASE /\ dialog' = dialog /\ timer' \in {timer, timer \ {One}}
             /\ runOn' => runOn \/ ~active
             /\ ~active => timer' = timer \ {One}
    BY <1>0, <2>1, <2>4 DEF TimerInv
  <2> QED BY <1>0, <1>1, <2>2, <2>3, <2>4, TickOneOutcomes
<1>2. ASSUME NEW c \in BOOLEAN, NEW m \in BOOLEAN, TickTwo(c, m)
      PROVE  TimerInv'
  <2>1. Two \in timer /\ timer = {Two} /\ ~runOn
    BY <1>0, <1>2, TickTwoOutcomes DEF TimerInv
  <2>2. CASE Crash
    BY <1>0, <2>2, TimerKept DEF Crash, buttonVars
  <2>3. CASE UNCHANGED <<timer, runOn, dialog>>
    BY <1>0, <2>3, TimerKept
  <2>4. CASE \E d \in {"conv", "convThenLimit"} : Open(d) /\ timer' = timer \ {Two}
    <3>1. PICK d \in {"conv", "convThenLimit"} : Open(d)
      BY <2>4
    <3>2. Shown(dialog') = Shown(dialog) \cup {d} /\ timer' = {}
      BY <1>0, <2>1, <2>4, <3>1, Opened DEF Waiting
    <3> QED BY <3>2 DEF TimerInv
  <2>5. CASE Open("limit") /\ timer' = timer \ {One} /\ runOn' = runOn
    <3>1. Shown(dialog') = Shown(dialog) \cup {"limit"} /\ timer' = timer
      BY <1>0, <2>1, <2>5, Opened DEF Waiting
    <3> QED BY <1>0, <2>1, <2>5, <3>1 DEF TimerInv, Ended
  <2>6. CASE EpochEnds /\ UNCHANGED dialog
    <3>1. /\ timer' \in {timer, timer \ {Two}} /\ (runOn' => runOn \/ ~active)
          /\ ~active => timer' = timer \ {Two}
      BY <1>0, <2>6, EpochEndsOutcomes
    <3> QED BY <1>0, <2>1, <2>6, <3>1 DEF TimerInv
  <2> QED BY <1>0, <1>2, <2>2, <2>3, <2>4, <2>5, <2>6, TickTwoOutcomes
<1>3. CASE OneDone
  <2>1. CASE Crash
    BY <1>0, <2>1, TimerKept DEF Crash, buttonVars
  <2>2. CASE ~Crash
    <3>1. /\ Closing("oneConv") \/ Closing("oneLimit")
          /\ Close /\ UNCHANGED timer
      BY <1>3, <2>2 DEF OneDone, SaveFails
    <3>2. /\ Shown(dialog') \subseteq Shown(dialog)
          /\ "oneConv" \in Shown(dialog) \/ "oneLimit" \in Shown(dialog)
      BY <1>0, <3>1, Closed
    <3>3. timer = {}
      BY <1>0, <3>2 DEF TimerInv, Ended
    <3> QED BY <3>1, <3>3 DEF TimerInv
  <2> QED BY <2>1, <2>2
<1>4. CASE TwoConverged
  <2>1. CASE Crash
    BY <1>0, <2>1, TimerKept DEF Crash, buttonVars
  <2>2. CASE ~Crash
    <3>1. Closing("conv") /\ Close /\ EpochEnds
      BY <1>4, <2>2 DEF TwoConverged, SaveFails
    <3>2. Shown(dialog') \subseteq Shown(dialog) /\ "conv" \in Shown(dialog)
      BY <1>0, <3>1, Closed
    <3>3. /\ timer' \in {timer, timer \ {Two}} /\ (runOn' => runOn \/ ~active)
          /\ ~active => timer' = timer \ {Two}
      BY <1>0, <3>1, EpochEndsOutcomes
    <3>4. timer = {} \/ timer = {Two}
      BY <1>0, <3>2 DEF TimerInv, Ended
    <3> QED BY <1>0, <3>2, <3>3, <3>4 DEF TimerInv
  <2> QED BY <2>1, <2>2
<1>5. CASE TwoConvergedPastLimit
  <2>1. CASE Crash
    BY <1>0, <2>1, TimerKept DEF Crash, buttonVars
  <2>2. CASE ~Crash
    <3>1. /\ Closing("convThenLimit") /\ Replace("limit") /\ timer' = timer \ {One}
      BY <1>5, <2>2 DEF TwoConvergedPastLimit, SaveFails
    <3>2. "convThenLimit" \in Shown(dialog)
      BY <1>0, <3>1, ClosingShown
    <3>3. timer = {} /\ timer' = {}
      BY <1>0, <3>1, <3>2 DEF TimerInv, Ended
    <3> QED BY <3>3 DEF TimerInv
  <2> QED BY <2>1, <2>2
<1>6. CASE TwoPastLimit
  <2>1. CASE Crash
    BY <1>0, <2>1, TimerKept DEF Crash, buttonVars
  <2>2. CASE ~Crash
    <3>1. Closing("limit") /\ Close /\ EpochEnds
      BY <1>6, <2>2 DEF TwoPastLimit, SaveFails
    <3>2. Shown(dialog') \subseteq Shown(dialog) /\ "limit" \in Shown(dialog)
      BY <1>0, <3>1, Closed
    <3>3. /\ timer' \in {timer, timer \ {Two}} /\ (runOn' => runOn \/ ~active)
          /\ ~active => timer' = timer \ {Two}
      BY <1>0, <3>1, EpochEndsOutcomes
    <3>4. timer = {} \/ timer = {Two}
      BY <1>0, <3>2 DEF TimerInv, Ended
    <3> QED BY <1>0, <3>2, <3>3, <3>4 DEF TimerInv
  <2> QED BY <2>1, <2>2
<1>7. CASE SamplesNotRead
  <2>1. UNCHANGED <<timer,
                    runOn>> /\ Shown(dialog') \subseteq Shown(dialog) \cup Plain
    BY <1>0, <1>7, Closed
       DEF Plain, Ended, Waiting, SamplesNotRead, ShowControls, buttonVars
  <2> QED BY <1>0, <2>1, TimerKept
<1>8. CASE SamplesLoaded
  <2>1. UNCHANGED <<timer,
                    runOn>> /\ Shown(dialog') \subseteq Shown(dialog) \cup Plain
    BY <1>0, <1>8, Closed
       DEF Plain, Ended, Waiting, SamplesLoaded, ShowControls, buttonVars
  <2> QED BY <1>0, <2>1, TimerKept
<1>9. ASSUME NEW g \in 1..(MaxGroups + 1), NEW s \in 1..(MaxShape + 1), SamplesRead(g, s)
      PROVE  TimerInv'
  <2>1. UNCHANGED <<timer, runOn>>
    BY <1>9 DEF SamplesRead, Crash, buttonVars
  <2>2. Shown(dialog') \subseteq Shown(dialog) \cup {"samplesLoaded"}
    BY <1>0, <1>9, Closed, Exchanged DEF SamplesRead, Crash, Waiting
  <2> QED BY <1>0, <2>1, <2>2, TimerKept DEF Plain, Ended, Waiting
<1>10. CASE WeightsNotLoaded
  <2>1. UNCHANGED <<timer,
                    runOn>> /\ Shown(dialog') \subseteq Shown(dialog) \cup Plain
    BY <1>0, <1>10, Closed
       DEF Plain, Ended, Waiting, WeightsNotLoaded, ShowControls, buttonVars
  <2> QED BY <1>0, <2>1, TimerKept
<1>11. CASE WeightsRead
  <2>1. UNCHANGED <<timer,
                    runOn>> /\ Shown(dialog') \subseteq Shown(dialog) \cup Plain
    BY <1>0, <1>11, Exchanged
       DEF Plain, Ended, Waiting, WeightsRead, ShowControls, buttonVars
  <2> QED BY <1>0, <2>1, TimerKept
<1>12. CASE WeightsSaved
  <2>1. UNCHANGED <<timer,
                    runOn>> /\ Shown(dialog') \subseteq Shown(dialog) \cup Plain
    BY <1>0, <1>12, Closed
       DEF Plain, Ended, Waiting, WeightsSaved, SaveFails, Crash, buttonVars
  <2> QED BY <1>0, <2>1, TimerKept
<1>13. CASE IqSaved
  <2>1. UNCHANGED <<timer,
                    runOn>> /\ Shown(dialog') \subseteq Shown(dialog) \cup Plain
    BY <1>0, <1>13, Closed
       DEF Plain, Ended, Waiting, IqSaved, SaveFails, Crash, buttonVars
  <2> QED BY <1>0, <2>1, TimerKept
<1>14. ASSUME NEW l \in Layers, WeightsLoaded(l)
      PROVE  TimerInv'
  <2>1. UNCHANGED <<timer,
                    runOn>> /\ Shown(dialog') \subseteq Shown(dialog) \cup Plain
    BY <1>0, <1>14, Closed
       DEF Plain, Ended, Waiting, WeightsLoaded, ShowControls, buttonVars
  <2> QED BY <1>0, <2>1, TimerKept
<1>15. CASE TypeSizes
  <2>1. UNCHANGED <<timer,
                    runOn>> /\ Shown(dialog') \subseteq Shown(dialog) \cup Plain
    BY <1>0, <1>15 DEF Plain, Ended, Waiting, TypeSizes, Careful, Idle, buttonVars
  <2> QED BY <1>0, <2>1, TimerKept
<1>16. CASE OnEnChangeEditAverageLimit
  <2>1. UNCHANGED <<timer,
                    runOn>> /\ Shown(dialog') \subseteq Shown(dialog) \cup Plain
    BY <1>0, <1>16
       DEF Plain, Ended, Waiting, OnEnChangeEditAverageLimit, ReadControls, Idle,
           buttonVars
  <2> QED BY <1>0, <2>1, TimerKept
<1>17. CASE OnButtonRun
  <2>1. runOn /\ timer = {} /\ dialog' = <<>>
    BY <1>0, <1>17 DEF OnButtonRun, Idle, TimerInv
  <2>2. Shown(dialog') = {}
    BY <2>1, Nothing
  <2>3. timer' = {} \/ (runOn' = FALSE /\ \E l \in Layers : timer' = {l})
    <3>1. CASE UNCHANGED timer
      BY <2>1, <3>1
    <3>2. CASE \E l \in Layers : InitNNR(l)
      BY <2>1, <3>2 DEF InitNNR
    <3> QED BY <1>17, <3>1, <3>2 DEF OnButtonRun
  <2> QED BY <2>2, <2>3 DEF TimerInv, Layers
<1>18. CASE OnButtonStop
  <2>1. UNCHANGED <<timer,
                    runOn>> /\ Shown(dialog') \subseteq Shown(dialog) \cup Plain
    BY <1>0, <1>18 DEF Plain, Ended, Waiting, OnButtonStop, Idle, buttonVars
  <2> QED BY <1>0, <2>1, TimerKept
<1>19. CASE OnButtonSampleload
  <2>1. UNCHANGED <<timer,
                    runOn>> /\ Shown(dialog') \subseteq Shown(dialog) \cup Plain
    BY <1>0, <1>19, Opened
       DEF Plain, Ended, Waiting, OnButtonSampleload, Careful, Idle, buttonVars
  <2> QED BY <1>0, <2>1, TimerKept
<1>20. CASE OnButtonWeighthoad
  <2>1. UNCHANGED <<timer,
                    runOn>> /\ Shown(dialog') \subseteq Shown(dialog) \cup Plain
    BY <1>0, <1>20, Opened
       DEF Plain, Ended, Waiting, OnButtonWeighthoad, Careful, Idle, buttonVars
  <2> QED BY <1>0, <2>1, TimerKept
<1>21. CASE OnButtonWeightsave
  <2>1. UNCHANGED <<timer,
                    runOn>> /\ Shown(dialog') \subseteq Shown(dialog) \cup Plain
    BY <1>0, <1>21, Opened
       DEF Plain, Ended, Waiting, OnButtonWeightsave, Careful, Idle, buttonVars
  <2> QED BY <1>0, <2>1, TimerKept
<1>22. CASE OnButtonConviq
  <2>1. UNCHANGED <<timer,
                    runOn>> /\ Shown(dialog') \subseteq Shown(dialog) \cup Plain
    BY <1>0, <1>22, Opened
       DEF Plain, Ended, Waiting, OnButtonConviq, Careful, Idle, buttonVars
  <2> QED BY <1>0, <2>1, TimerKept
<1>23. CASE UNCHANGED vars
  <2>1. UNCHANGED <<timer,
                    runOn>> /\ Shown(dialog') \subseteq Shown(dialog) \cup Plain
    BY <1>0, <1>23 DEF Plain, Ended, Waiting, vars, buttonVars
  <2> QED BY <1>0, <2>1, TimerKept
<1>24. CASE OnRadio
  <2>1. /\ UNCHANGED <<timer, runOn>>
        /\ Shown(dialog') \subseteq Shown(dialog) \cup Plain
    BY <1>0, <1>24 DEF Plain, Ended, Waiting, OnRadio, buttonVars
  <2> QED BY <1>0, <2>1, TimerKept
<1>25. CASE OnButtonPathResult
  <2>1. /\ UNCHANGED <<timer, runOn>>
        /\ Shown(dialog') \subseteq Shown(dialog) \cup Plain
    BY <1>0, <1>25 DEF Plain, Ended, Waiting, OnButtonPathResult, buttonVars
  <2> QED BY <1>0, <2>1, TimerKept
<1> QED BY <1>1, <1>2, <1>3, <1>4, <1>5, <1>6, <1>7, <1>8, <1>9, <1>10, <1>11,
          <1>12, <1>13, <1>14, <1>15, <1>16, <1>17, <1>18, <1>19, <1>20, <1>21,
          <1>22, <1>23, <1>24, <1>25, Steps

\* What a step keeps that leaves the networks and the dialogs alone, or only
\* closes or exchanges a dialog.
LEMMA NetworkKept ==
  ASSUME NetworkInv, UNCHANGED <<flag, net, lost>>,
         \/ Shown(dialog') \cap WeightDialogs = {}
         \/ /\ Shown(dialog') \subseteq Shown(dialog) \cup (Waiting \ WeightDialogs)
            /\ Len(dialog') = Len(dialog)
  PROVE  NetworkInv'
BY DEF NetworkInv

\* Loading weights is the outermost wait: when a dialog is closed none of its
\* dialogs is left.
LEMMA WeightsOver ==
  ASSUME NEW d, NetworkInv, dialog \in Seq(Waiting), Closing(d), Close
  PROVE  Shown(dialog') \cap WeightDialogs = {}
<1>1. /\ Shown(dialog') \subseteq Shown(dialog)
      /\ Len(dialog) = 1 => dialog' = <<>>
  BY Closed
<1> QED BY <1>1, Nothing DEF NetworkInv

\* No network is lost, whatever the step.
LEMMA NetworkStep == SessionInv /\ NetworkInv /\ [Next]_vars => NetworkInv'
<1> SUFFICES ASSUME SessionInv, NetworkInv, [Next]_vars PROVE NetworkInv'
  OBVIOUS
<1> USE LayerAssumption
<1>0. dialog \in Seq(Waiting) /\ active \in BOOLEAN /\ runOn \in BOOLEAN
  BY DEF SessionInv, TypeOK
<1>c. ASSUME Crash PROVE NetworkInv'
  BY <1>0, <1>c, NetworkKept DEF Crash, netVars
<1>d. ASSUME UNCHANGED <<flag, net, lost, dialog>> PROVE NetworkInv'
  BY <1>0, <1>d, NetworkKept
<1>1. ASSUME NEW c \in BOOLEAN, NEW m \in BOOLEAN, TickOne(c, m)
      PROVE  NetworkInv'
  <2>1. CASE Crash
    BY <1>c, <2>1
  <2>2. CASE ~Crash
    <3>1. /\ net[One] # None /\ UNCHANGED netVars
          /\ dialog' = dialog \/ \E d \in {"oneConv", "oneLimit"} : Open(d)
      BY <1>0, <1>1, <2>2, TickOneOutcomes
    <3>2. Shown(dialog) \cap WeightDialogs = {}
      BY <3>1 DEF NetworkInv, Layers
    <3>3. CASE dialog' = dialog
      BY <1>d, <3>1, <3>3 DEF netVars
    <3>4. ASSUME NEW d \in {"oneConv", "oneLimit"}, Open(d)
          PROVE  Shown(dialog') \cap WeightDialogs = {}
      BY <1>0, <3>2, <3>4, Opened DEF Waiting, WeightDialogs
    <3> QED BY <3>1, <3>3, <3>4, NetworkKept DEF netVars
  <2> QED BY <2>1, <2>2
<1>2. ASSUME NEW c \in BOOLEAN, NEW m \in BOOLEAN, TickTwo(c, m)
      PROVE  NetworkInv'
  <2>1. CASE Crash
    BY <1>c, <2>1
  <2>2. CASE ~Crash
    <3>1. /\ net[Two] # None /\ UNCHANGED netVars
          /\ dialog' = dialog \/ \E d \in {"conv", "convThenLimit", "limit"} : Open(d)
      BY <1>0, <1>2, <2>2, TickTwoOutcomes
    <3>2. Shown(dialog) \cap WeightDialogs = {}
      BY <3>1 DEF NetworkInv, Layers
    <3>3. CASE dialog' = dialog
      BY <1>d, <3>1, <3>3 DEF netVars
    <3>4. ASSUME NEW d \in {"conv", "convThenLimit", "limit"}, Open(d)
          PROVE  Shown(dialog') \cap WeightDialogs = {}
      BY <1>0, <3>2, <3>4, Opened DEF Waiting, WeightDialogs
    <3> QED BY <3>1, <3>3, <3>4, NetworkKept DEF netVars
  <2> QED BY <2>1, <2>2
<1>3. CASE OneDone
  <2>1. CASE ~Crash
    <3>1. (\E d \in {"oneConv", "oneLimit"} : Closing(d)) /\ Close /\ UNCHANGED netVars
      BY <1>3, <2>1 DEF OneDone, SaveFails
    <3>2. Shown(dialog') \cap WeightDialogs = {}
      BY <1>0, <3>1, WeightsOver
    <3> QED BY <3>1, <3>2, NetworkKept DEF netVars
  <2> QED BY <1>c, <2>1
<1>4. CASE TwoConverged
  <2>1. CASE ~Crash
    <3>1. (\E d \in {"conv"} : Closing(d)) /\ Close /\ UNCHANGED netVars
      BY <1>4, <2>1 DEF TwoConverged, SaveFails
    <3>2. Shown(dialog') \cap WeightDialogs = {}
      BY <1>0, <3>1, WeightsOver
    <3> QED BY <3>1, <3>2, NetworkKept DEF netVars
  <2> QED BY <1>c, <2>1
<1>5. CASE TwoConvergedPastLimit
  <2>1. CASE ~Crash
    <3>1. Closing("convThenLimit") /\ Replace("limit") /\ UNCHANGED netVars
      BY <1>5, <2>1 DEF TwoConvergedPastLimit, SaveFails
    <3>2. /\ Shown(dialog') \subseteq Shown(dialog) \cup {"limit"}
          /\ Len(dialog') = Len(dialog)
      BY <1>0, <3>1, Exchanged DEF Waiting
    <3> QED BY <3>1, <3>2, NetworkKept DEF netVars, Waiting, WeightDialogs
  <2> QED BY <1>c, <2>1
<1>6. CASE TwoPastLimit
  <2>1. CASE ~Crash
    <3>1. (\E d \in {"limit"} : Closing(d)) /\ Close /\ UNCHANGED netVars
      BY <1>6, <2>1 DEF TwoPastLimit, SaveFails
    <3>2. Shown(dialog') \cap WeightDialogs = {}
      BY <1>0, <3>1, WeightsOver
    <3> QED BY <3>1, <3>2, NetworkKept DEF netVars
  <2> QED BY <1>c, <2>1
<1>7. CASE SamplesNotRead
  <2>1. (\E d \in {"pickSamples"} : Closing(d)) /\ Close /\ UNCHANGED netVars
    BY <1>7 DEF SamplesNotRead
  <2>2. Shown(dialog') \cap WeightDialogs = {}
    BY <1>0, <2>1, WeightsOver
  <2> QED BY <2>1, <2>2, NetworkKept DEF netVars
<1>8. CASE SamplesLoaded
  <2>1. (\E d \in {"samplesLoaded"} : Closing(d)) /\ Close /\ UNCHANGED netVars
    BY <1>8 DEF SamplesLoaded
  <2>2. Shown(dialog') \cap WeightDialogs = {}
    BY <1>0, <2>1, WeightsOver
  <2> QED BY <2>1, <2>2, NetworkKept DEF netVars
<1>9. ASSUME NEW g \in 1..(MaxGroups + 1), NEW s \in 1..(MaxShape + 1), SamplesRead(g, s)
      PROVE  NetworkInv'
  <2>1. CASE ~Crash /\ Close
    <3>1. Shown(dialog') \cap WeightDialogs = {} /\ UNCHANGED netVars
      BY <1>0, <1>9, <2>1, WeightsOver DEF SamplesRead
    <3> QED BY <3>1, NetworkKept DEF netVars
  <2>2. CASE ~Crash /\ ~Close
    <3>1. Closing("pickSamples") /\ Replace("samplesLoaded") /\ UNCHANGED netVars
      BY <1>9, <2>2 DEF SamplesRead
    <3>2. /\ Shown(dialog') \subseteq Shown(dialog) \cup {"samplesLoaded"}
          /\ Len(dialog') = Len(dialog)
      BY <1>0, <3>1, Exchanged DEF Waiting
    <3> QED BY <3>1, <3>2, NetworkKept DEF netVars, Waiting, WeightDialogs
  <2> QED BY <1>c, <2>1, <2>2
<1>10. CASE WeightsNotLoaded
  <2>1. Closing("pickWeights") /\ Close /\ flag' = TRUE /\ UNCHANGED <<net, lost>>
    BY <1>10 DEF WeightsNotLoaded
  <2>2. Shown(dialog') \cap WeightDialogs = {}
    BY <1>0, <2>1, WeightsOver
  <2> QED BY <2>1, <2>2 DEF NetworkInv
<1>11. CASE WeightsRead
  <2>1. \E d \in {"weightsOne", "weightsTwo"} : Replace(d)
    BY <1>11 DEF WeightsRead
  <2>2. "pickWeights" \in Shown(dialog) /\ Len(dialog') = Len(dialog)
    BY <1>0, <1>11, <2>1, Exchanged DEF WeightsRead, Waiting
  <2>3. UNCHANGED <<flag, net, lost>>
    BY <1>11 DEF WeightsRead, netVars
  <2> QED BY <2>2, <2>3 DEF NetworkInv, WeightDialogs
<1>12. CASE WeightsSaved
  <2>1. CASE ~Crash
    <3>1. Closing("save") /\ Close /\ flag' = TRUE /\ UNCHANGED <<net, lost>>
      BY <1>12, <2>1 DEF WeightsSaved, SaveFails
    <3>2. Shown(dialog') \cap WeightDialogs = {}
      BY <1>0, <3>1, WeightsOver
    <3> QED BY <3>1, <3>2 DEF NetworkInv
  <2> QED BY <1>c, <2>1
<1>13. CASE IqSaved
  <2>1. CASE ~Crash
    <3>1. (\E d \in {"conviq"} : Closing(d)) /\ Close /\ UNCHANGED netVars
      BY <1>13, <2>1 DEF IqSaved, SaveFails
    <3>2. Shown(dialog') \cap WeightDialogs = {}
      BY <1>0, <3>1, WeightsOver
    <3> QED BY <3>1, <3>2, NetworkKept DEF netVars
  <2> QED BY <1>c, <2>1
<1>14. ASSUME NEW l \in Layers, WeightsLoaded(l)
      PROVE  NetworkInv'
  <2>1. PICK d \in WeightDialogs : Closing(d) /\ Close
    BY <1>14 DEF WeightsLoaded, WeightDialogs
  <2>2. d \in Shown(dialog) /\ Shown(dialog') \cap WeightDialogs = {}
    BY <1>0, <2>1, Closed, WeightsOver
  <2>3. net[l] = None
    BY <2>2 DEF NetworkInv
  <2>4. lost' = (lost \/ net[l] # None) /\ flag' = TRUE
    BY <1>14 DEF WeightsLoaded
  <2>5. ~lost'
    BY <2>3, <2>4 DEF NetworkInv
  <2> QED BY <2>2, <2>4, <2>5 DEF NetworkInv
<1>15. CASE TypeSizes
  BY <1>d, <1>15 DEF TypeSizes, netVars
<1>16. CASE OnEnChangeEditAverageLimit
  BY <1>d, <1>16 DEF OnEnChangeEditAverageLimit, netVars
<1>17. CASE OnButtonRun
  <2>1. dialog' = dialog /\ Shown(dialog') = {}
    BY <1>17, Nothing DEF OnButtonRun, Idle
  <2>2. CASE UNCHANGED <<flag, net, lost>>
    BY <1>d, <2>1, <2>2
  <2>3. ASSUME NEW l \in Layers, InitNNR(l) PROVE NetworkInv'
    <3>1. flag' = TRUE
      BY <2>3 DEF InitNNR
    <3>2. lost' = lost \/ (lost' = (lost \/ net[l] # None) /\ net[l] = None)
      BY <2>3 DEF InitNNR, InitLayer, NetworkInv
    <3>3. ~lost'
      BY <3>2 DEF NetworkInv
    <3> QED BY <2>1, <3>1, <3>3 DEF NetworkInv
  <2> QED BY <1>17, <2>2, <2>3 DEF OnButtonRun
<1>18. CASE OnButtonStop
  BY <1>d, <1>18 DEF OnButtonStop, netVars
<1>19. CASE OnButtonSampleload
  <2>1. /\ dialog = <<>> /\ Open("pickSamples") /\ UNCHANGED netVars
    BY <1>19 DEF OnButtonSampleload, Idle
  <2>2. Shown(dialog') = {"pickSamples"}
    BY <1>0, <2>1, Opened, Nothing DEF Waiting
  <2> QED BY <2>1, <2>2, NetworkKept DEF netVars, WeightDialogs
<1>20. CASE OnButtonWeighthoad
  <2>1. /\ dialog = <<>> /\ Open("pickWeights")
        /\ net' = [l \in Layers |-> None] /\ UNCHANGED <<flag, lost>>
    BY <1>20 DEF OnButtonWeighthoad, Idle
  <2>2. Len(dialog') = 1
    BY <1>0, <2>1, Opened, Nothing DEF Waiting
  <2> QED BY <2>1, <2>2 DEF NetworkInv
<1>21. CASE OnButtonWeightsave
  <2>1. dialog = <<>> /\ UNCHANGED <<net, lost>> /\ (flag' = TRUE \/ UNCHANGED flag)
    BY <1>21 DEF OnButtonWeightsave, Idle
  <2>2. Shown(dialog') \subseteq {"save"}
    BY <1>0, <1>21, <2>1, Opened, Nothing DEF OnButtonWeightsave, Waiting
  <2> QED BY <2>1, <2>2 DEF NetworkInv, WeightDialogs
<1>22. CASE OnButtonConviq
  <2>1. /\ dialog = <<>> /\ Open("conviq") /\ UNCHANGED netVars
    BY <1>22 DEF OnButtonConviq, Idle
  <2>2. Shown(dialog') = {"conviq"}
    BY <1>0, <2>1, Opened, Nothing DEF Waiting
  <2> QED BY <2>1, <2>2, NetworkKept DEF netVars, WeightDialogs
<1>23. CASE UNCHANGED vars
  BY <1>d, <1>23 DEF vars, netVars
<1>24. CASE OnRadio
  BY <1>d, <1>24 DEF OnRadio, netVars
<1>25. CASE OnButtonPathResult
  BY <1>d, <1>25 DEF OnButtonPathResult, netVars
<1> QED BY <1>1, <1>2, <1>3, <1>4, <1>5, <1>6, <1>7, <1>8, <1>9, <1>10, <1>11,
          <1>12, <1>13, <1>14, <1>15, <1>16, <1>17, <1>18, <1>19, <1>20, <1>21,
          <1>22, <1>23, <1>24, <1>25, Steps

\* What saving reads of a network of the shape in the members is there.
LEMMA SaveSound ==
  ASSUME TypeOK, NEW l \in Layers, net[l] = shape
  PROVE  ~SaveInvalid(l)
BY BoundAssumption DEF TypeOK, SaveInvalid

\* The parts of care that a step keeps.
LEMMA SamplesShown ==
  ASSUME TypeOK, SamplesKept, UNCHANGED <<data, groups, shape>>, ShowControls
  PROVE  SamplesKept'
<1> SUFFICES ASSUME data # None PROVE box' = data
  BY DEF SamplesKept
<1>1. data \in [groups : 1..MaxGroups, shape : 1..MaxShape]
  BY DEF TypeOK
<1>2. data = [groups |-> data.groups, shape |-> data.shape]
  BY <1>1
<1> QED BY <1>2 DEF SamplesKept, ShowControls

LEMMA SamplesStay ==
  ASSUME SamplesKept, UNCHANGED <<data, groups, shape, box>>,
         "samplesLoaded" \in Shown(dialog) => "samplesLoaded" \in Shown(dialog')
  PROVE  SamplesKept'
BY DEF SamplesKept

LEMMA FedStays ==
  ASSUME TimerFed, timer' \subseteq timer, UNCHANGED <<data, net, shape, groups>>,
         Two \in timer' => pos' < groups
  PROVE  TimerFed'
BY DEF TimerFed

LEMMA DialogsStay ==
  ASSUME DialogsKept, timer' \subseteq timer, UNCHANGED <<layer, net, shape>>,
         Shown(dialog') \subseteq Shown(dialog),
         Len(dialog') = Len(dialog) \/ Shown(dialog') \cap LoadDialogs = {}
  PROVE  DialogsKept'
BY DEF DialogsKept

LEMMA LoadsOver ==
  ASSUME NEW d, DialogsKept, dialog \in Seq(Waiting), Closing(d), Close
  PROVE  /\ Shown(dialog') \cap LoadDialogs = {}
         /\ Shown(dialog') \subseteq Shown(dialog) /\ d \in Shown(dialog)
         /\ d \in LoadDialogs => dialog' = <<>> /\ timer = {}
<1>1. /\ Shown(dialog') \subseteq Shown(dialog) /\ d \in Shown(dialog)
      /\ Len(dialog) = 1 => dialog' = <<>>
  BY Closed
<1> QED BY <1>1, Nothing DEF DialogsKept

LEMMA OnlyLoaded ==
  ASSUME NEW d, DialogsKept, dialog \in Seq(Waiting), Closing(d), d # "samplesLoaded"
  PROVE  "samplesLoaded" \notin Shown(dialog)
<1> SUFFICES ASSUME "samplesLoaded" \in Shown(dialog) PROVE FALSE
  OBVIOUS
<1>1. Len(dialog) = 1
  BY DEF DialogsKept, LoadDialogs, SampleDialogs
<1>2. \A e \in Shown(dialog) : e = Head(dialog)
  BY <1>1 DEF Shown
<1> QED BY <1>2 DEF Closing

\* Nothing of the session changes but for a dialog that is closed.
LEMMA CareAfterClosing ==
  ASSUME NEW d, TypeOK, Care, Closing(d), Close, ~crashed',
         UNCHANGED <<netVars, data, groups, shape, pos>>,
         ShowControls \/ (UNCHANGED box /\ d # "samplesLoaded"), timer' = timer
  PROVE  Care'
<1>1. dialog \in Seq(Waiting) /\ DialogsKept
  BY DEF TypeOK, Care
<1>2. /\ Shown(dialog') \cap LoadDialogs = {} /\ Shown(dialog') \subseteq Shown(dialog)
      /\ d \in Shown(dialog)
      /\ d \in LoadDialogs => dialog' = <<>> /\ timer = {}
  BY <1>1, LoadsOver
<1>3. SamplesKept'
  <2>1. CASE ShowControls
    BY <2>1, SamplesShown DEF Care
  <2>2. CASE UNCHANGED box /\ d # "samplesLoaded"
    <3>1. "samplesLoaded" \notin Shown(dialog)
      BY <1>1, <2>2, OnlyLoaded
    <3> QED BY <2>2, <3>1, SamplesStay DEF Care
  <2> QED BY <2>1, <2>2
<1>4. TimerFed'
  BY FedStays DEF Care, TimerFed, netVars
<1>5. DialogsKept'
  BY <1>2, DialogsStay DEF Care, netVars
<1> QED BY <1>3, <1>4, <1>5 DEF Care

\* No step makes a user careful again.
LEMMA CarefulBefore ==
  ASSUME [Next]_vars, conduct' = "careful"
  PROVE  conduct = "careful"
<1>1. CASE UNCHANGED vars
  BY <1>1 DEF vars
<1>2. ASSUME NEW c \in BOOLEAN, NEW m \in BOOLEAN, TickOne(c, m)
      PROVE  conduct = "careful"
  BY <1>2 DEF TickOne, Crash
<1>3. ASSUME NEW c \in BOOLEAN, NEW m \in BOOLEAN, TickTwo(c, m)
      PROVE  conduct = "careful"
  BY <1>3 DEF TickTwo, Crash
<1>4. CASE OneDone
  BY <1>4 DEF OneDone, SaveFails, Crash
<1>5. CASE TwoConverged
  BY <1>5 DEF TwoConverged, SaveFails, Crash
<1>6. CASE TwoConvergedPastLimit
  BY <1>6 DEF TwoConvergedPastLimit, SaveFails, Crash
<1>7. CASE TwoPastLimit
  BY <1>7 DEF TwoPastLimit, Crash
<1>8. CASE SamplesNotRead
  BY <1>8 DEF SamplesNotRead, ShowControls
<1>9. CASE SamplesLoaded
  BY <1>9 DEF SamplesLoaded, ShowControls
<1>10. ASSUME NEW g \in 1..(MaxGroups + 1), NEW s \in 1..(MaxShape + 1), SamplesRead(g, s)
      PROVE  conduct = "careful"
  BY <1>10 DEF SamplesRead, Crash, ShowControls
<1>11. CASE WeightsNotLoaded
  BY <1>11 DEF WeightsNotLoaded, ShowControls
<1>12. CASE WeightsRead
  BY <1>12 DEF WeightsRead, ShowControls
<1>13. CASE WeightsSaved
  BY <1>13 DEF WeightsSaved, SaveFails, Crash
<1>14. CASE IqSaved
  BY <1>14 DEF IqSaved, SaveFails, Crash
<1>15. ASSUME NEW l \in Layers, WeightsLoaded(l)
      PROVE  conduct = "careful"
  BY <1>15 DEF WeightsLoaded, ShowControls
<1>16. CASE TypeSizes
  BY <1>16 DEF TypeSizes, Careful, Idle
<1>17. CASE OnEnChangeEditAverageLimit
  BY <1>17 DEF OnEnChangeEditAverageLimit, ReadControls, Idle
<1>18. CASE OnButtonRun
  BY <1>18 DEF OnButtonRun, ReadControls, InitNNR, InitLayer, Careful, Idle
<1>19. CASE OnButtonStop
  BY <1>19 DEF OnButtonStop, Idle
<1>20. CASE OnButtonSampleload
  BY <1>20 DEF OnButtonSampleload, Careful, Idle
<1>21. CASE OnButtonWeighthoad
  BY <1>21 DEF OnButtonWeighthoad, Careful, Idle
<1>22. CASE OnButtonWeightsave
  BY <1>22 DEF OnButtonWeightsave, Careful, Idle
<1>23. CASE OnButtonConviq
  BY <1>23 DEF OnButtonConviq, Careful, Idle
<1>24. CASE OnRadio
  BY <1>24 DEF OnRadio
<1>25. CASE OnButtonPathResult
  BY <1>25 DEF OnButtonPathResult, Careful
<1> QED BY <1>1, <1>2, <1>3, <1>4, <1>5, <1>6, <1>7, <1>8, <1>9, <1>10, <1>11,
          <1>12, <1>13, <1>14, <1>15, <1>16, <1>17, <1>18, <1>19, <1>20, <1>21,
          <1>22, <1>23, <1>24, <1>25, Steps

\* A careful user's step keeps what care keeps.
LEMMA CareStep == SessionInv /\ CareInv /\ [Next]_vars => CareInv'
<1> SUFFICES ASSUME SessionInv, CareInv, [Next]_vars, conduct' = "careful" PROVE Care'
  BY DEF CareInv
<1> USE LayerAssumption, BoundAssumption
<1>0. /\ TypeOK /\ TimerInv /\ conduct = "careful" /\ Care
      /\ dialog \in Seq(Waiting) /\ active \in BOOLEAN /\ runOn \in BOOLEAN
  BY CarefulBefore DEF SessionInv, CareInv, TypeOK
<1>a. /\ ~crashed /\ SamplesKept /\ TimerFed /\ DialogsKept
      /\ groups \in Nat /\ shape \in Nat /\ pos \in Nat /\ None \notin Nat
      /\ data # None => data.groups \in Nat \ {0} /\ data.shape \in Nat
  <2>1. data # None => data \in [groups : 1..MaxGroups, shape : 1..MaxShape]
    BY <1>0 DEF TypeOK
  <2>2. data # None => data.groups \in 1..MaxGroups /\ data.shape \in 1..MaxShape
    BY <2>1
  <2> QED BY <1>0, <2>2 DEF Care, TypeOK
<1>b. timer # {} =>
        /\ data # None /\ groups = data.groups /\ groups > 0 /\ shape = data.shape
        /\ \A l \in timer : net[l] = shape /\ net[l] # None
        /\ Shown(dialog) \cap LoadDialogs = {}
  BY <1>a DEF TimerFed, SamplesKept, DialogsKept
<1>1. ASSUME NEW c \in BOOLEAN, NEW m \in BOOLEAN, TickOne(c, m)
      PROVE  Care'
  <2>1. One \in timer /\ timer = {One}
    BY <1>0, <1>1, TickOneOutcomes DEF TimerInv
  <2>2. net[One] = shape /\ ~SaveInvalid(One)
    BY <1>0, <1>b, <2>1, SaveSound DEF Layers
  <2>3. ~Crash
    <3>1. net[One] # None /\ data # None /\ groups = data.groups /\ net[One] = data.shape
      BY <1>b, <2>1, <2>2
    <3>2. ~(groups > data.groups) /\ ~(net[One] > data.shape)
      BY <1>a, <3>1
    <3> QED BY <1>0, <1>1, <2>2, <3>1, <3>2, TickOneOutcomes DEF Crash
  <2>4. /\ ShowControls /\ timer' \subseteq {One}
        /\ UNCHANGED <<layer, net, data, groups, shape, crashed>>
        /\ dialog' = dialog \/ \E d \in {"oneConv", "oneLimit"} : Open(d)
    BY <1>0, <1>1, <2>1, <2>3, TickOneOutcomes DEF netVars
  <2>5. SamplesKept'
    BY <1>0, <1>a, <2>4, SamplesShown
  <2>6. TimerFed'
    BY <1>a, <2>1, <2>4, FedStays
  <2>7. DialogsKept'
    <3>1. CASE dialog' = dialog
      BY <1>a, <2>1, <2>4, <3>1, DialogsStay
    <3>2. ASSUME NEW d \in {"oneConv", "oneLimit"}, Open(d) PROVE DialogsKept'
      <4>1. Shown(dialog') = Shown(dialog) \cup {d}
        BY <1>0, <3>2, Opened DEF Waiting
      <4>2. Shown(dialog') \cap LoadDialogs = {}
        BY <1>b, <2>1, <3>2, <4>1 DEF LoadDialogs, SampleDialogs, WeightDialogs
      <4> QED BY <1>a, <2>2, <2>4, <3>2, <4>1, <4>2 DEF DialogsKept
    <3> QED BY <2>4, <3>1, <3>2
  <2> QED BY <1>a, <2>4, <2>5, <2>6, <2>7 DEF Care
<1>2. ASSUME NEW c \in BOOLEAN, NEW m \in BOOLEAN, TickTwo(c, m)
      PROVE  Care'
  <2>1. Two \in timer /\ timer = {Two}
    BY <1>0, <1>2, TickTwoOutcomes DEF TimerInv
  <2>2. net[Two] = shape /\ pos < groups
    BY <1>a, <2>1 DEF TimerFed
  <2>3. ~Crash
    <3>1. net[Two] # None /\ data # None /\ groups = data.groups /\ net[Two] = data.shape
      BY <1>b, <2>1, <2>2
    <3>2. ~(pos >= data.groups) /\ ~(net[Two] > data.shape)
      BY <1>a, <2>2, <3>1
    <3> QED BY <1>0, <1>2, <3>1, <3>2, TickTwoOutcomes DEF Crash
  <2>4. /\ UNCHANGED <<layer, net, data, groups, shape, crashed>>
        /\ \/ /\ pos' = pos + 1 /\ pos + 1 # groups
              /\ UNCHANGED <<box, timer, dialog>>
           \/ Open("conv") /\ timer' = timer \ {Two} /\ ShowControls
           \/ EpochEnds /\ ShowControls /\ UNCHANGED dialog
    <3>1. conduct' # "limit"
      OBVIOUS
    <3> QED BY <1>0, <1>2, <2>3, <3>1, TickTwoOutcomes DEF netVars
  <2>5. CASE pos' = pos + 1 /\ pos + 1 # groups /\ UNCHANGED <<box, timer, dialog>>
    <3>1. SamplesKept' /\ DialogsKept'
      BY <1>a, <2>4, <2>5, SamplesStay, DialogsStay
    <3>2. pos' < groups
      BY <1>a, <2>2, <2>5
    <3>3. TimerFed'
      BY <1>a, <2>4, <2>5, <3>2, FedStays
    <3> QED BY <1>a, <2>4, <3>1, <3>3 DEF Care
  <2>6. CASE Open("conv") /\ timer' = timer \ {Two} /\ ShowControls
    <3>1. Shown(dialog') = Shown(dialog) \cup {"conv"} /\ timer' = {}
      BY <1>0, <2>1, <2>6, Opened DEF Waiting
    <3>2. Shown(dialog') \cap LoadDialogs = {}
      BY <1>b, <2>1, <3>1 DEF LoadDialogs, SampleDialogs, WeightDialogs
    <3>3. DialogsKept'
      BY <1>a, <2>2, <2>4, <3>1, <3>2 DEF DialogsKept
    <3>4. SamplesKept' /\ TimerFed'
      BY <1>0, <1>a, <2>4, <2>6, <3>1, SamplesShown DEF TimerFed
    <3> QED BY <1>a, <2>4, <3>3, <3>4 DEF Care
  <2>7. CASE EpochEnds /\ ShowControls /\ UNCHANGED dialog
    <3>1. pos' = 0 /\ timer' \subseteq timer
      BY <1>0, <2>7, EpochEndsOutcomes
    <3>2. SamplesKept' /\ DialogsKept'
      BY <1>0, <1>a, <2>4, <2>7, <3>1, SamplesShown, DialogsStay
    <3>3. TimerFed'
      BY <1>a, <1>b, <2>1, <2>4, <3>1, FedStays
    <3> QED BY <1>a, <2>4, <3>2, <3>3 DEF Care
  <2> QED BY <2>4, <2>5, <2>6, <2>7
<1>3. CASE OneDone
  <2>1. (Closing("oneConv") \/ Closing("oneLimit")) /\ (Closing("oneConv") => ~SaveFails(One))
    <3>1. Closing("oneConv") => net[One] = shape
      BY <1>0, <1>a, ClosingShown DEF DialogsKept
    <3>2. Closing("oneConv") => ~SaveInvalid(One)
      BY <1>0, <3>1, SaveSound DEF Layers
    <3> QED BY <1>3, <3>2 DEF OneDone, SaveFails
  <2>2. Close /\ UNCHANGED <<netVars, sizeVars, pos, timer, crashed>>
    BY <1>3, <2>1 DEF OneDone
  <2> QED BY <1>0, <1>a, <2>1, <2>2, CareAfterClosing DEF sizeVars
<1>4. CASE TwoConverged
  <2>1. Closing("conv") /\ "conv" \in Shown(dialog)
    BY <1>0, <1>4, ClosingShown DEF TwoConverged
  <2>2. net[Two] = shape /\ timer = {} /\ ~SaveInvalid(Two)
    BY <1>0, <1>a, <2>1, SaveSound DEF DialogsKept, TimerInv, Ended, Layers
  <2>3. Close /\ EpochEnds /\ UNCHANGED <<netVars, sizeVars, crashed>>
    BY <1>4, <2>2 DEF TwoConverged, SaveFails
  <2>4. timer' = {}
    BY <1>0, <2>2, <2>3, EpochEndsOutcomes
  <2>5. /\ Shown(dialog') \cap LoadDialogs = {}
        /\ Shown(dialog') \subseteq Shown(dialog)
    BY <1>0, <1>a, <2>1, <2>3, LoadsOver
  <2>6. DialogsKept'
    BY <1>a, <2>3, <2>4, <2>5, DialogsStay DEF netVars, sizeVars
  <2>7. "samplesLoaded" \notin Shown(dialog)
    BY <1>0, <1>a, <2>1, OnlyLoaded
  <2>8. SamplesKept'
    BY <1>a, <2>3, <2>7, SamplesStay DEF sizeVars
  <2> QED BY <1>a, <2>3, <2>4, <2>6, <2>8 DEF Care, TimerFed
<1>5. CASE TwoConvergedPastLimit
  BY <1>0, <1>5, <1>a, ClosingShown DEF TwoConvergedPastLimit, DialogsKept
<1>6. CASE TwoPastLimit
  BY <1>0, <1>6, <1>a, ClosingShown DEF TwoPastLimit, DialogsKept
<1>7. CASE SamplesNotRead
  <2>1. /\ Closing("pickSamples") /\ Close /\ (ShowControls \/ UNCHANGED box)
        /\ UNCHANGED <<netVars, data, groups, shape, pos, timer, crashed>>
    BY <1>7 DEF SamplesNotRead
  <2> QED BY <1>0, <1>a, <2>1, CareAfterClosing
<1>8. CASE SamplesLoaded
  <2>1. /\ Closing("samplesLoaded") /\ Close /\ ShowControls
        /\ UNCHANGED <<netVars, data, groups, shape, pos, timer, crashed>>
    BY <1>8 DEF SamplesLoaded
  <2> QED BY <1>0, <1>a, <2>1, CareAfterClosing
<1>9. ASSUME NEW g \in 1..(MaxGroups + 1), NEW s \in 1..(MaxShape + 1), SamplesRead(g, s)
      PROVE  Care'
  <2>1. ~DeleteInvalid
    BY <1>a DEF DeleteInvalid, SamplesKept
  <2>2. /\ Closing("pickSamples") /\ groups' = g /\ shape' = s
        /\ \/ data' = None /\ Close
           \/ data' = [groups |-> g, shape |-> s] /\ Replace("samplesLoaded")
        /\ UNCHANGED <<netVars, pos, timer, crashed>>
    BY <1>9, <2>1 DEF SamplesRead
  <2>3. "pickSamples" \in Shown(dialog) /\ timer = {} /\ Len(dialog) = 1
    BY <1>0, <1>a, <2>2, ClosingShown DEF DialogsKept, LoadDialogs, SampleDialogs
  <2>4. CASE data' = None /\ Close
    <3>1. dialog' = <<>>
      BY <1>0, <2>2, <2>3, <2>4, Closed
    <3>2. Shown(dialog') = {}
      BY <3>1, Nothing
    <3> QED BY <1>a, <2>2, <2>3, <2>4, <3>2
       DEF Care, SamplesKept, TimerFed, DialogsKept
  <2>5. CASE data' = [groups |-> g, shape |-> s] /\ Replace("samplesLoaded")
    <3>1. Len(dialog') = 1 /\ Shown(dialog') = {"samplesLoaded"}
      BY <1>0, <2>3, <2>5, OneReplaced DEF Replace, Waiting
    <3> QED BY <1>a, <2>2, <2>3, <2>5, <3>1
       DEF Care, SamplesKept, TimerFed, DialogsKept
  <2> QED BY <2>2, <2>4, <2>5
<1>10. CASE WeightsNotLoaded
  <2>1. /\ Closing("pickWeights") /\ Close /\ (ShowControls \/ UNCHANGED box)
        /\ UNCHANGED <<layer, net, data, groups, shape, pos, timer, crashed>>
    BY <1>10 DEF WeightsNotLoaded
  <2>2. dialog' = <<>> /\ timer = {} /\ Shown(dialog') = {}
    BY <1>0, <1>a, <2>1, LoadsOver, Nothing DEF LoadDialogs, WeightDialogs
  <2>3. SamplesKept'
    <3>1. CASE ShowControls
      BY <1>0, <1>a, <2>1, <3>1, SamplesShown
    <3>2. CASE UNCHANGED box
      <4>1. "samplesLoaded" \notin Shown(dialog)
        BY <1>0, <1>a, <2>1, OnlyLoaded
      <4> QED BY <1>a, <2>1, <3>2, <4>1, SamplesStay
    <3> QED BY <2>1, <3>1, <3>2
  <2> QED BY <1>a, <2>1, <2>2, <2>3 DEF Care, TimerFed, DialogsKept
<1>11. CASE WeightsRead
  <2>1. /\ Closing("pickWeights") /\ ShowControls
        /\ UNCHANGED <<netVars, data, groups, shape, pos, timer, crashed>>
    BY <1>11 DEF WeightsRead
  <2>2. PICK d \in {"weightsOne", "weightsTwo"} : Replace(d)
    BY <1>11 DEF WeightsRead
  <2>3. "pickWeights" \in Shown(dialog) /\ timer = {} /\ Len(dialog) = 1
    BY <1>0, <1>a, <2>1, ClosingShown DEF DialogsKept, LoadDialogs, WeightDialogs
  <2>4. Len(dialog') = 1 /\ Shown(dialog') = {d}
    BY <1>0, <2>2, <2>3, OneReplaced DEF Replace, Waiting
  <2>5. SamplesKept'
    BY <1>0, <1>a, <2>1, SamplesShown
  <2> QED BY <1>a, <2>1, <2>2, <2>3, <2>4, <2>5 DEF Care, TimerFed, DialogsKept
<1>12. CASE WeightsSaved
  <2>1. Closing("save") /\ "save" \in Shown(dialog)
    BY <1>0, <1>12, ClosingShown DEF WeightsSaved
  <2>2. layer \in Layers /\ net[layer] = shape
    BY <1>0, <1>a, <2>1 DEF DialogsKept, TypeOK
  <2>3. ~SaveInvalid(layer)
    BY <1>0, <2>2, SaveSound
  <2>4. Close /\ UNCHANGED <<layer, net, sizeVars, pos, timer, crashed>>
    BY <1>12, <2>3 DEF WeightsSaved, SaveFails
  <2>5. /\ Shown(dialog') \cap LoadDialogs = {}
        /\ Shown(dialog') \subseteq Shown(dialog)
    BY <1>0, <1>a, <2>1, <2>4, LoadsOver
  <2>6. DialogsKept' /\ TimerFed'
    BY <1>a, <2>4, <2>5, DialogsStay, FedStays DEF sizeVars, TimerFed
  <2>7. "samplesLoaded" \notin Shown(dialog)
    BY <1>0, <1>a, <2>1, OnlyLoaded
  <2>8. SamplesKept'
    BY <1>a, <2>4, <2>7, SamplesStay DEF sizeVars
  <2> QED BY <1>a, <2>4, <2>6, <2>8 DEF Care
<1>13. CASE IqSaved
  <2>1. Closing("conviq") /\ "conviq" \in Shown(dialog)
    BY <1>0, <1>13, ClosingShown DEF IqSaved
  <2>2. net[One] = shape /\ ~SaveInvalid(One)
    BY <1>0, <1>a, <2>1, SaveSound DEF DialogsKept, Layers
  <2>3. Close /\ UNCHANGED <<netVars, sizeVars, pos, timer, crashed>>
    BY <1>13, <2>2 DEF IqSaved, SaveFails
  <2> QED BY <1>0, <1>a, <2>1, <2>3, CareAfterClosing DEF sizeVars
<1>14. ASSUME NEW l \in Layers, WeightsLoaded(l)
      PROVE  Care'
  <2>1. PICK d \in WeightDialogs : Closing(d) /\ Close
    BY <1>14 DEF WeightsLoaded, WeightDialogs
  <2>2. dialog' = <<>> /\ timer = {} /\ Shown(dialog') = {}
    BY <1>0, <1>a, <2>1, LoadsOver, Nothing DEF LoadDialogs, WeightDialogs
  <2>3. ShowControls /\ UNCHANGED <<data, groups, shape, pos, timer, crashed>>
    BY <1>14 DEF WeightsLoaded
  <2>4. SamplesKept'
    BY <1>0, <1>a, <2>3, SamplesShown
  <2> QED BY <1>a, <2>2, <2>3, <2>4 DEF Care, TimerFed, DialogsKept
<1>15. CASE TypeSizes
  BY <1>0, <1>15 DEF TypeSizes, Careful
<1>16. CASE OnEnChangeEditAverageLimit
  <2>1. /\ dialog = <<>> /\ UNCHANGED <<netVars, pos, timer, dialog, crashed>>
        /\ groups' = box.groups /\ shape' = box.shape /\ UNCHANGED <<box, data>>
    BY <1>16 DEF OnEnChangeEditAverageLimit, ReadControls, Idle
  <2>2. Shown(dialog) = {}
    BY <2>1, Nothing
  <2>3. data # None => groups' = groups /\ shape' = shape
    BY <1>a, <2>1, <2>2 DEF SamplesKept
  <2>4. SamplesKept' /\ TimerFed'
    BY <1>a, <1>b, <2>1, <2>2, <2>3 DEF SamplesKept, TimerFed, netVars
  <2> QED BY <1>a, <2>1, <2>2, <2>4 DEF Care, DialogsKept
<1>17. CASE OnButtonRun
  <2>1. /\ dialog = <<>> /\ runOn /\ UNCHANGED <<dialog, crashed>>
        /\ groups' = box.groups /\ shape' = box.shape /\ UNCHANGED <<box, data>>
        /\ timer' # timer => data # None /\ net'[layer'] = data.shape
    BY <1>17 DEF OnButtonRun, ReadControls, Idle, Careful
  <2>2. Shown(dialog) = {} /\ timer = {}
    BY <1>0, <2>1, Nothing DEF TimerInv
  <2>3. data # None => groups' = groups /\ shape' = shape
    BY <1>a, <2>1, <2>2 DEF SamplesKept
  <2>4. SamplesKept' /\ DialogsKept'
    BY <1>a, <2>1, <2>2, <2>3 DEF SamplesKept, DialogsKept
  <2>5. timer' = {} \/ (timer' = {layer'} /\ pos' = 0)
    BY <1>17, <2>2 DEF OnButtonRun, InitNNR
  <2>6. TimerFed'
    <3>1. CASE timer' = {}
      BY <3>1 DEF TimerFed
    <3>2. CASE timer' = {layer'} /\ pos' = 0
      <4>1. data # None /\ net'[layer'] = data.shape
        BY <2>1, <2>2, <3>2
      <4>2. shape' = data.shape /\ 0 < groups' /\ data' = data
        BY <1>a, <2>1, <2>3, <4>1 DEF SamplesKept
      <4> QED BY <3>2, <4>1, <4>2 DEF TimerFed
    <3> QED BY <2>5, <3>1, <3>2
  <2> QED BY <1>a, <2>1, <2>4, <2>6 DEF Care
<1>18. CASE OnButtonStop
  <2>1. UNCHANGED <<netVars, sizeVars, pos, timer, dialog, crashed>>
    BY <1>18 DEF OnButtonStop
  <2> QED BY <1>a, <2>1
       DEF Care, SamplesKept, TimerFed, DialogsKept, netVars, sizeVars
<1>19. CASE OnButtonSampleload
  <2>1. /\ dialog = <<>> /\ Open("pickSamples") /\ timer = {}
        /\ UNCHANGED <<netVars, sizeVars, pos, timer, crashed>>
    BY <1>19 DEF OnButtonSampleload, Idle, Careful
  <2>2. Shown(dialog') = {"pickSamples"} /\ Len(dialog') = 1
    BY <1>0, <2>1, Opened, Nothing DEF Waiting
  <2>3. SamplesKept'
    BY <1>a, <2>1, <2>2, SamplesStay, Nothing DEF sizeVars
  <2> QED BY <1>a, <2>1, <2>2, <2>3 DEF Care, TimerFed, DialogsKept, netVars
<1>20. CASE OnButtonWeighthoad
  <2>1. /\ dialog = <<>> /\ Open("pickWeights") /\ timer = {}
        /\ UNCHANGED <<layer, sizeVars, pos, timer, crashed>>
    BY <1>20 DEF OnButtonWeighthoad, Idle, Careful
  <2>2. Shown(dialog') = {"pickWeights"} /\ Len(dialog') = 1
    BY <1>0, <2>1, Opened, Nothing DEF Waiting
  <2>3. SamplesKept'
    BY <1>a, <2>1, <2>2, SamplesStay, Nothing DEF sizeVars
  <2> QED BY <1>a, <2>1, <2>2, <2>3 DEF Care, TimerFed, DialogsKept
<1>21. CASE OnButtonWeightsave
  <2>1. /\ dialog = <<>> /\ layer # None /\ net[layer] = shape /\ Open("save")
        /\ UNCHANGED <<layer, net, sizeVars, pos, timer, crashed>>
    BY <1>21 DEF OnButtonWeightsave, Idle, Careful
  <2>2. Shown(dialog') = {"save"} /\ Len(dialog') = 1
    BY <1>0, <2>1, Opened, Nothing DEF Waiting
  <2>3. SamplesKept' /\ TimerFed'
    BY <1>a, <2>1, <2>2, SamplesStay, Nothing DEF sizeVars, TimerFed
  <2> QED BY <1>a, <2>1, <2>2, <2>3
       DEF Care, DialogsKept, LoadDialogs, SampleDialogs, WeightDialogs, sizeVars
<1>22. CASE OnButtonConviq
  <2>1. /\ dialog = <<>> /\ net[One] = shape /\ Open("conviq")
        /\ UNCHANGED <<netVars, sizeVars, pos, timer, crashed>>
    BY <1>22 DEF OnButtonConviq, Idle, Careful
  <2>2. Shown(dialog') = {"conviq"} /\ Len(dialog') = 1
    BY <1>0, <2>1, Opened, Nothing DEF Waiting
  <2>3. SamplesKept' /\ TimerFed'
    BY <1>a, <2>1, <2>2, SamplesStay, Nothing DEF netVars, sizeVars, TimerFed
  <2> QED BY <1>a, <2>1, <2>2, <2>3
       DEF Care, DialogsKept, LoadDialogs, SampleDialogs, WeightDialogs, netVars, sizeVars
<1>23. CASE UNCHANGED vars
  BY <1>a, <1>23
       DEF Care, SamplesKept, TimerFed, DialogsKept, vars, netVars, sizeVars
<1>24. CASE OnRadio
  <2>1. /\ ShowControls
        /\ UNCHANGED <<netVars, data, groups, shape, pos, timer, dialog, crashed>>
    BY <1>24 DEF OnRadio
  <2>2. SamplesKept'
    BY <1>0, <1>a, <2>1, SamplesShown
  <2> QED BY <1>a, <2>1, <2>2 DEF Care, TimerFed, DialogsKept, netVars
<1>25. CASE OnButtonPathResult
  <2>1. dialog = <<>> /\ net[One] = box.shape /\ box.shape \in Nat
    BY <1>0, <1>25 DEF OnButtonPathResult, Idle, Careful, TypeOK, Sizes
  <2>2. net[One] # None /\ ~(box.shape < net[One])
    BY <1>a, <2>1
  <2>3. /\ UNCHANGED <<netVars, pos, timer, dialog, crashed>>
        /\ groups' = box.groups /\ shape' = box.shape /\ UNCHANGED <<box, data>>
    BY <1>25, <2>2 DEF OnButtonPathResult, ReadControls
  <2>4. Shown(dialog) = {}
    BY <2>1, Nothing
  <2>5. data # None => groups' = groups /\ shape' = shape
    BY <1>a, <2>1, <2>3, <2>4 DEF SamplesKept
  <2>6. SamplesKept' /\ TimerFed'
    BY <1>a, <1>b, <2>3, <2>4, <2>5 DEF SamplesKept, TimerFed, netVars
  <2> QED BY <1>a, <2>3, <2>4, <2>6 DEF Care, DialogsKept
<1> QED BY <1>1, <1>2, <1>3, <1>4, <1>5, <1>6, <1>7, <1>8, <1>9, <1>10, <1>11,
          <1>12, <1>13, <1>14, <1>15, <1>16, <1>17, <1>18, <1>19, <1>20, <1>21,
          <1>22, <1>23, <1>24, <1>25, Steps

------------------------------------------------------------------------------
\* The strengthened invariant holds at first, and every step keeps it.
THEOREM SessionInvariance == Spec => [](SessionInv /\ NetworkInv /\ CareInv)
<1>1. Init => SessionInv /\ NetworkInv /\ CareInv
  <2> SUFFICES ASSUME Init PROVE SessionInv /\ NetworkInv /\ CareInv
    OBVIOUS
  <2>1. TypeOK
    <3>1. /\ net \in [Layers -> 0..(MaxShape + 1) \cup {None}] /\ box \in Sizes
          /\ groups \in 0..(MaxGroups + 1) /\ shape \in 0..(MaxShape + 1)
          /\ pos \in 0..(MaxGroups + 1)
      BY BoundAssumption DEF Init, Sizes
    <3>2. dialog \in Seq(Waiting)
      BY DEF Init
    <3>3. /\ active \in BOOLEAN /\ flag \in BOOLEAN /\ runOn \in BOOLEAN
          /\ stopOn \in BOOLEAN /\ crashed \in BOOLEAN /\ lost \in BOOLEAN
      BY DEF Init
    <3> QED BY <3>1, <3>2, <3>3 DEF Init, TypeOK
  <2>2. Shown(dialog) = {} /\ timer = {} /\ ~lost /\ ~crashed /\ data = None
        /\ \A l \in Layers : net[l] = None
    BY Nothing DEF Init
  <2> QED BY <2>1, <2>2
       DEF SessionInv, TimerInv, NetworkInv, CareInv, Care, SamplesKept, TimerFed, DialogsKept
<1>2. SessionInv /\ NetworkInv /\ CareInv /\ [Next]_vars
        => (SessionInv /\ NetworkInv /\ CareInv)'
  BY TypeStep, TimerStep, NetworkStep, CareStep DEF SessionInv
<1> QED BY <1>1, <1>2, PTL DEF Spec

\* Every variable of the training session stays in the set of values that the
\* code can give it, whatever the limits and whatever the user does.
THEOREM SessionTypeCorrect == Spec => []TypeOK
<1>1. SessionInv => TypeOK
  BY DEF SessionInv
<1> QED BY <1>1, SessionInvariance, PTL

\* Never two trainings, and Run is not offered during one, wherever ticks fall
\* between and inside the handlers.
THEOREM OneTrainingAtATime == Spec => []OneTraining
<1>1. SessionInv => OneTraining
  BY FS_EmptySet, FS_Singleton DEF SessionInv, TimerInv, OneTraining
<1> QED BY <1>1, SessionInvariance, PTL

\* No handler overwrites a network that is there without destroying it.
THEOREM NoNetworkLost == Spec => []NetworkNotLost
<1>1. NetworkInv => NetworkNotLost
  BY DEF NetworkInv, NetworkNotLost
<1> QED BY <1>1, SessionInvariance, PTL

\* A careful user never makes a handler access what is not there.
THEOREM CareIsEnough == Spec => []NoCrash
<1>1. CareInv => NoCrash
  BY DEF CareInv, Care, NoCrash
<1> QED BY <1>1, SessionInvariance, PTL

\* With a careful user the samples have the sizes the handlers take from the
\* edit boxes whenever the window takes input.
THEOREM SizesStay == Spec => []SizesMatchSamples
<1>1. SessionInv /\ CareInv => SizesMatchSamples
  <2> SUFFICES ASSUME SessionInv, CareInv, conduct = "careful", data # None, dialog = <<>>
               PROVE  data = [groups |-> groups, shape |-> shape] /\ box = data
    BY DEF SizesMatchSamples
  <2>1. groups = data.groups /\ shape = data.shape /\ box = data
    BY Nothing DEF CareInv, Care, SamplesKept
  <2>2. data \in [groups : 1..MaxGroups, shape : 1..MaxShape]
    BY DEF SessionInv, TypeOK
  <2> QED BY <2>1, <2>2
<1> QED BY <1>1, SessionInvariance, PTL
=============================================================================
