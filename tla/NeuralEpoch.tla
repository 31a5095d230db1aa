---------------------------- MODULE NeuralEpoch -----------------------------
(* Training seen from inside a timer tick: OnTimer gives the samples of a    *)
(* group to WeightTranningFunc, which changes the weights for one class      *)
(* after the other with a ring of former changes as momentum and measures    *)
(* the errors; when all groups were given the errors are reported in two     *)
(* edit boxes.  UpdateData(true), which other handlers call, reads those     *)
(* boxes back into the sums.  A network with one hidden layer draws the      *)
(* order of the classes with rand() and is given every group in one tick;    *)
(* one with two takes the classes as they come, is given one group a tick    *)
(* and does not report the largest error.                                    *)
(*                                                                           *)
(* Weights and errors are not computed: a weight change is known by the call *)
(* of WeightTranningFunc and the class it is due to and by how often it has  *)
(* been multiplied by m_ALPHA since, an error is any member of Errors, and   *)
(* the average is known by the calls whose errors are in it.                 *)
(* Classes and groups count from 0, as in the code.                          *)
EXTENDS Integers, Sequences, FiniteSets, SequencesExt

CONSTANTS
  Classes,    \* m_InputClassNum
  Groups,     \* m_Edit_GroupNum
  MomNum,     \* m_MomentumNum, 20 in InitOneHiddenLayer and InitTwoHiddenLayer
  RandMax,    \* RAND_MAX
  Errors,     \* what CalculatePowFunc may return
  One, Two,   \* SELECTONEHIDDEN and SELECTTWOHIDDEN
  MaxEpochs   \* bound on the reports of a behaviour

ASSUME EpochAssumption ==
  /\ Classes \in Nat \ {0} /\ Groups \in Nat \ {0} /\ MomNum \in Nat \ {0}
  /\ RandMax \in Nat /\ Classes <= RandMax + 1
  /\ Errors \in SUBSET Nat /\ Errors # {}
  /\ One # Two
  /\ MaxEpochs \in Nat

VARIABLES
  built,     \* m_WeightLoadFlag: there is a network
  running,   \* the timer is set
  active,    \* m_ActiveFlag
  stopOn,    \* IDC_BUTTON_STOP is enabled
  runOn,     \* IDC_BUTTON_RUN is enabled
  layer,     \* m_SelectLayer; any before there is a network
  pc,        \* "idle", or what the tick is about to do
  group,     \* m_GroupNum
  order,     \* pSelectClass, as far as it is drawn
  ring,      \* m_pHiddenMomWeight and m_pOutputMomWeight: where a row is from
  point,     \* m_MomentumPoint
  calls,     \* calls of WeightTranningFunc since InitMomentum
  netMax,    \* m_MaxError and m_MaxErrorPos of the network
  max,       \* m_Edit_MaximumError, m_MaxErrorGroup and m_MaxErrorClass
  average,   \* m_Edit_AverageError: the calls whose errors are in it
  boxes,     \* what the boxes of the two errors show
  epochs,    \* reports so far
  seen,      \* history: the errors of this tick, by group and class
  carried    \* history: the sums were kept or read back from the boxes

netVars == <<ring, point, calls, netMax>>
buttonVars == <<built, running, active, stopOn, runOn, layer>>
vars == <<buttonVars, pc, group, order, netVars, max, average, boxes,
          epochs, seen, carried>>

Class == 0 .. Classes - 1
Group == 0 .. Groups - 1

NoChange == [call |-> 0, class |-> 0, age |-> 0]

Init ==
  /\ built = FALSE /\ running = FALSE /\ active = FALSE
  /\ stopOn = TRUE /\ runOn = TRUE /\ layer \in {One, Two}
  /\ pc = "idle"
  /\ group = 0 /\ order = << >>
  /\ ring = [r \in 0 .. MomNum - 1 |-> NoChange] /\ point = 0 /\ calls = 0
  /\ netMax = [error |-> 0, class |-> 0]
  /\ max = [error |-> 0, group |-> 0, class |-> 0] /\ average = {}
  /\ boxes = [max |-> 0, average |-> {}]
  /\ epochs = 0 /\ seen = << >> /\ carried = FALSE

-----------------------------------------------------------------------------
(* Between the ticks.                                                        *)

(* UpdateData(true) and UpdateData(false).                                   *)
ReadBoxes ==
  /\ max' = [max EXCEPT !.error = boxes.max]
  /\ average' = boxes.average
  /\ carried' = (carried \/ boxes # [max |-> max.error, average |-> average])

ShowBoxes == boxes' = [max |-> max.error, average |-> average]

(* InitMomentum, and the constructor's m_MaxError.                           *)
InitNetwork ==
  /\ ring' = [r \in 0 .. MomNum - 1 |-> NoChange]
  /\ point' = 0 /\ calls' = 0
  /\ netMax' = [error |-> 0, class |-> 0]

(* A network that is there is trained on; the user did not choose the other  *)
(* number of layers for it (NNRTraining follows those who do).               *)
OnButtonRun ==
  /\ pc = "idle" /\ ~active /\ runOn
  /\ ReadBoxes
  /\ IF built THEN UNCHANGED <<netVars,
                               layer>> ELSE InitNetwork /\ layer' \in {One, Two}
  /\ built' = TRUE /\ running' = TRUE /\ active' = TRUE /\ runOn' = FALSE /\ group' = 0
  /\ UNCHANGED <<stopOn, pc, order, boxes, epochs, seen>>

OnButtonStop ==
  /\ pc = "idle" /\ stopOn
  /\ active' = FALSE /\ stopOn' = FALSE
  /\ UNCHANGED <<built, running, runOn, layer, pc, group, order, netVars, max,
                 average,
                 boxes, epochs, seen, carried>>

OnEnChangeEditAverageLimit ==
  /\ pc = "idle" /\ ReadBoxes
  /\ UNCHANGED <<buttonVars, pc, group, order, netVars, boxes, epochs, seen>>

(* OnRadioLogistic and OnRadioHyperbolic.                                    *)
OnRadio ==
  /\ pc = "idle" /\ ShowBoxes
  /\ UNCHANGED <<buttonVars, pc, group, order, netVars, max, average, epochs, seen,
                 carried>>

(* OnButtonWeighthoad, when LoadOneHiddenWeight reads the file: the network  *)
(* is destroyed, and InitOneHiddenLayer builds the next one.  (A load that   *)
(* fails, one while the timer is set, and files of networks with two hidden  *)
(* layers are in NNRTraining and WeightFile.)                                *)
OnButtonWeighthoad ==
  /\ pc = "idle" /\ ~running /\ ~active
  /\ ShowBoxes /\ InitNetwork /\ built' = TRUE /\ layer' = One
  /\ UNCHANGED <<running, active, stopOn, runOn, pc, group, order, max, average,
                 epochs,
                 seen, carried>>

(* LoadSampleData or LoadSampleGroupData for the first group of the tick.    *)
OnTimer ==
  /\ pc = "idle" /\ running /\ epochs < MaxEpochs
  /\ pc' = "train" /\ group' = IF layer = One THEN 0 ELSE group
  /\ seen' = << >>
  /\ UNCHANGED <<buttonVars, order, netVars, max, average, boxes, epochs, carried>>

-----------------------------------------------------------------------------
(* WeightTranningFunc for the samples of one group.                          *)

\* Faulty variant: only the row at the point is weakened.
ChangedOnePlace(rows, class) ==
  [rows EXCEPT ![point] = [call |-> calls + 1, class |-> class, age |-> 0]]

(* The weights are changed for a class: every row is weakened and added, the *)
(* row at the point then holds the change itself.                            *)
Changed(rows, class) ==
  [[r \in DOMAIN rows |-> [rows[r] EXCEPT !.age = IF rows[r].call = 0 THEN 0 ELSE @ + 1]]
     EXCEPT ![point] = [call |-> calls + 1, class |-> class, age |-> 0]]

\* Faulty variant: the last class is never drawn.
DrawnBelow(n) == n % (Classes - 1)

(* The class drawn when rand() returns n.                                    *)
Drawn(n) == n % Classes

(* The class is the next one of the group.                                   *)
TrainOn(class) ==
  /\ order' = Append(order, class)
  /\ ring' = Changed(ring, class)
  /\ UNCHANGED <<buttonVars, pc, group, point, calls, netMax, max, average, boxes,
                 epochs,
                 seen, carried>>

\* Faulty variant: a class drawn before is taken again.
TrainAny(n) ==
  /\ pc = "train" /\ layer = One /\ Len(order) < Classes
  /\ TrainOn(Drawn(n))

(* One hidden layer: rand() returns n, and its class is trained if it was    *)
(* not drawn before; if it was, nothing changes and rand() is called again.  *)
Train(n) ==
  /\ pc = "train" /\ layer = One /\ Len(order) < Classes
  /\ Drawn(n) \notin ToSet(order)
  /\ TrainOn(Drawn(n))

(* Two hidden layers: one class after the other.                             *)
TrainNext ==
  /\ pc = "train" /\ layer = Two /\ Len(order) < Classes
  /\ TrainOn(Len(order))

\* Faulty variant: the point does not come back to the first row.
AdvancePast == point + 1

Advance == IF point + 1 = MomNum THEN 0 ELSE point + 1

(* AveragePowFunc: m_MaxError is not reset, and a later equal error does not *)
(* take its place.                                                           *)
Largest(errors) ==
  LET worst == {c \in Class : /\ netMax.error < errors[c]
                              /\ \A k \in Class : errors[k] <= errors[c]}
      first == CHOOSE c \in worst : \A k \in worst : c <= k
  IN  IF worst = {} THEN netMax ELSE [error |-> errors[first], class |-> first]

(* The end of WeightTranningFunc; OnTimer adds its errors to the sum.        *)
EndOfCall ==
  /\ pc = "train" /\ Len(order) = Classes
  /\ average' = average \cup {calls + 1}
  /\ point' = Advance /\ calls' = calls + 1 /\ order' = << >>
  /\ group' = group + 1
  /\ UNCHANGED <<buttonVars, ring, boxes, epochs, carried>>

(* One hidden layer: the largest error is kept, and the next group follows   *)
(* at once.                                                                  *)
EvaluateOne ==
  /\ layer = One /\ EndOfCall
  /\ \E errors \in [Class -> Errors] :
       /\ seen' = Append(seen, errors)
       /\ netMax' = Largest(errors)
  /\ max' = IF max.error < netMax'.error
              THEN [error |-> netMax'.error, group |-> group, class |-> netMax'.class]
              ELSE max
  /\ pc' = IF group + 1 = Groups THEN "report" ELSE "train"

(* Two hidden layers: the next group is given in the next tick.              *)
EvaluateTwo ==
  /\ layer = Two /\ EndOfCall
  /\ pc' = IF group + 1 = Groups THEN "report" ELSE "idle"
  /\ UNCHANGED <<max, netMax, seen>>

\* Faulty variant: m_MaxError of the network is kept.
ForgetShown == max' = [max EXCEPT !.error = 0] /\ UNCHANGED netMax

(* The report's resets.                                                      *)
Forget ==
  /\ max' = [max EXCEPT !.error = 0]
  /\ netMax' = [netMax EXCEPT !.error = 0]

Shown ==
  /\ pc = "report" /\ pc' = "idle"
  /\ ShowBoxes /\ epochs' = epochs + 1
  /\ UNCHANGED <<built, active, stopOn, layer, order, ring, point, calls, seen>>

(* The timer goes on, or is killed and the Run button enabled.               *)
GoesOn(on) == running' = on /\ runOn' = ~on

(* The errors are shown; training converged or passed the limit and ends at  *)
(* once, m_Edit_AverageError and m_ActiveFlag left as they are, or it goes   *)
(* on unless Stop was pressed.                                               *)
ReportOne ==
  /\ layer = One /\ Shown /\ Forget
  /\ \/ GoesOn(FALSE) /\ carried' = TRUE /\ UNCHANGED <<average, group>>
     \/ GoesOn(active) /\ carried' = FALSE /\ average' = {} /\ group' = 0

(* The sum is reset at convergence too, but Run is only enabled if Stop was  *)
(* pressed.  (What a passed limit does, which kills the other timer, is in   *)
(* NNRTraining.)                                                             *)
ReportTwo ==
  /\ layer = Two /\ Shown
  /\ carried' = FALSE /\ average' = {} /\ group' = 0
  /\ \/ running' = FALSE /\ runOn' = ~active
     \/ GoesOn(active)
  /\ UNCHANGED <<max, netMax>>

Next ==
  \/ OnButtonRun \/ OnButtonStop \/ OnEnChangeEditAverageLimit \/ OnRadio
  \/ OnButtonWeighthoad
  \/ OnTimer \/ EvaluateOne \/ EvaluateTwo \/ ReportOne \/ ReportTwo
  \/ TrainNext
  \/ \E n \in 0 .. RandMax : Train(n)

(* A tick runs to its end in its thread, and rand() returns every number     *)
(* again and again.                                                          *)
Fairness ==
  /\ WF_vars(EvaluateOne) /\ WF_vars(EvaluateTwo) /\ WF_vars(TrainNext)
  /\ WF_vars(ReportOne) /\ WF_vars(ReportTwo)
  /\ \A n \in 0 .. RandMax : SF_vars(Train(n))

Spec == Init /\ [][Next]_vars /\ Fairness

-----------------------------------------------------------------------------
(* Properties.                                                               *)

Change == [call : Nat, class : Class, age : Nat]

(* The variables have their types; the point is in the ring.                 *)
EpochTypeOK ==
  /\ built \in BOOLEAN /\ running \in BOOLEAN
  /\ active \in BOOLEAN /\ stopOn \in BOOLEAN
  /\ runOn \in BOOLEAN /\ layer \in {One, Two}
  /\ pc \in {"idle", "train", "report"}
  /\ group \in 0 .. Groups /\ order \in Seq(Class)
  /\ ring \in [0 .. MomNum - 1 -> Change] /\ point \in 0 .. MomNum - 1
  /\ calls \in Nat
  /\ netMax \in [error : Nat, class : Class]
  /\ max \in [error : Nat, group : Group, class : Class]
  /\ average \in SUBSET Nat
  /\ boxes \in [max : Nat, average : SUBSET Nat]
  /\ epochs \in Nat /\ seen \in Seq([Class -> Nat])
  /\ carried \in BOOLEAN

(* Every class has a place in the order of a group, and one only.            *)
EveryClassOnce ==
  /\ \A i, j \in 1 .. Len(order) : i # j => order[i] # order[j]
  /\ Len(order) = Classes => ToSet(order) = Class

(* Between the groups the ring holds the changes of the last calls, one row  *)
(* a call: the row d places before the point is from d calls ago, from the   *)
(* class trained last in it, and was weakened once for every class since.    *)
RingHoldsLastCalls ==
  order = << >> =>
    \A d \in 1 .. MomNum :
      LET row == ring[(point - d) % MomNum] IN
      IF d > calls THEN row = NoChange
      ELSE row.call = calls + 1 - d /\ row.age = (d - 1) * Classes

(* No error of the tick is larger, and none before it is as large.           *)
FirstWorst(g, c) ==
  /\ \A i \in 1 .. Len(seen), k \in Class : seen[i][k] <= seen[g + 1][c]
  /\ \A i \in 1 .. Len(seen), k \in Class :
       i < g + 1 \/ (i = g + 1 /\ k < c) => seen[i][k] < seen[g + 1][c]

(* What is about to be reported is the errors of the last Groups calls, no   *)
(* more and no fewer, and for one hidden layer the place of the largest one. *)
(* Excepted are the reports after a training that converged, which leaves    *)
(* its average in the sum, and after a handler that read an earlier report   *)
(* back from the boxes: between two ticks of one epoch that loses the groups *)
(* trained before.                                                           *)
ReportIsOfThisEpoch ==
  pc = "report" /\ ~carried =>
    /\ average = calls - Groups + 1 .. calls
    /\ layer = One => /\ \A i \in 1 .. Len(seen), k \in Class : seen[i][k] <= max.error
                      /\ max.error # 0 => /\ seen[max.group + 1][max.class] = max.error
                                          /\ FirstWorst(max.group, max.class)

(* A tick that began comes to its end: the draws do not go on for ever.      *)
TickEnds == pc = "train" ~> pc = "idle"
=============================================================================
