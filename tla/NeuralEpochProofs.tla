------------------------- MODULE NeuralEpochProofs --------------------------
(* Training from inside a timer tick, for any number of classes, groups,     *)
(* momentum rows and reports, any RAND_MAX and any errors.                   *)
(*                                                                           *)
(* The argument: while a group is trained every row of the ring has the age  *)
(* it has between the groups and one more for every class taken so far, but  *)
(* for the row at the point; and unless the sums were kept or read back from *)
(* the boxes, the calls in the average are the last ones, one for each group *)
(* the epoch is past, and the network's and the dialog's largest error agree.*)
EXTENDS NeuralEpoch, FiniteSetTheorems, WellFoundedInduction, TLAPS

USE EpochAssumption

-----------------------------------------------------------------------------
(* Least and greatest.                                                       *)

LEMMA LeastNumber ==
  ASSUME NEW T \in SUBSET Nat, T # {}
  PROVE  \E x \in T : \A y \in T : x <= y
<1>1. PICK x \in T : \A y \in T : <<y, x>> \notin OpToRel(<, Nat)
  BY NatLessThanWellFounded, WFMin
<1>2. \A y \in T : ~(y < x)
  BY <1>1 DEF OpToRel
<1> QED BY <1>2

(* Among the errors of all classes there is a largest one.                   *)
LEMMA GreatestError ==
  ASSUME NEW errors \in [Class -> Nat]
  PROVE  \E c \in Class : \A k \in Class : errors[k] <= errors[c]
<1> DEFINE without == {m \in Class : ~ \E c \in 0 .. m :
                                         \A k \in 0 .. m : errors[k] <= errors[c]}
<1>1. without = {}
  <2> SUFFICES ASSUME without # {} PROVE FALSE
    OBVIOUS
  <2>1. without \in SUBSET Nat
    BY DEF Class
  <2>2. PICK m \in without : \A y \in without : m <= y
    <3> HIDE DEF without
    <3> QED BY <2>1, LeastNumber
  <2>3. m \in Nat /\ m < Classes /\ \A k \in 0 .. m : errors[k] \in Nat
    BY <2>2 DEF Class
  <2>4. m # 0
    <3>1. CASE m = 0
      <4>1. \A k \in 0 .. m : errors[k] <= errors[0]
        BY <2>3, <3>1
      <4> QED BY <2>2, <3>1, <4>1
    <3> QED BY <3>1
  <2>5. m - 1 \in Class /\ m - 1 \notin without
    <3>1. m - 1 \in Nat /\ m - 1 < Classes /\ ~(m <= m - 1)
      BY <2>3, <2>4
    <3>2. m - 1 \in Class
      BY <3>1 DEF Class
    <3> HIDE DEF without
    <3> QED BY <2>2, <3>1, <3>2
  <2>6. PICK c \in 0 .. m - 1 : \A k \in 0 .. m - 1 : errors[k] <= errors[c]
    BY <2>5
  <2>7. errors[m] \in Nat /\ errors[c] \in Nat
    BY <2>3, <2>6
  <2>8. CASE errors[m] <= errors[c]
    <3>1. \A k \in 0 .. m : errors[k] <= errors[c]
      BY <2>3, <2>6, <2>8
    <3>2. c \in 0 .. m
      BY <2>3, <2>6
    <3> QED BY <2>2, <3>1, <3>2
  <2>9. CASE errors[c] < errors[m]
    <3>1. \A k \in 0 .. m : errors[k] <= errors[m]
      BY <2>3, <2>6, <2>7, <2>9
    <3>2. m \in 0 .. m
      BY <2>3
    <3> QED BY <2>2, <3>1, <3>2
  <2> QED BY <2>7, <2>8, <2>9
<1>2. Classes - 1 \in Class /\ Class = 0 .. Classes - 1
  BY DEF Class
<1>3. PICK c \in 0 .. Classes - 1 : \A k \in 0 .. Classes - 1 : errors[k] <= errors[c]
  BY <1>1, <1>2
<1> QED BY <1>2, <1>3

Maximum == [error : Nat, class : Class]

(* AveragePowFunc leaves the largest error there has been; if it is a new    *)
(* one, it is the error of the first class that has it.                      *)
LEMMA LargestIsLargest ==
  ASSUME NEW errors \in [Class -> Nat], netMax \in Maximum
  PROVE  LET m == Largest(errors) IN
         /\ m \in Maximum
         /\ netMax.error <= m.error /\ \A k \in Class : errors[k] <= m.error
         /\ \/ m = netMax
            \/ /\ netMax.error < m.error /\ errors[m.class] = m.error
               /\ \A k \in Class : k < m.class => errors[k] < m.error
<1> DEFINE worst == {c \in Class : /\ netMax.error < errors[c]
                                   /\ \A k \in Class : errors[k] <= errors[c]}
           first == CHOOSE c \in worst : \A k \in worst : c <= k
<1>1. Largest(errors) = IF worst = {} THEN netMax
                        ELSE [error |-> errors[first], class |-> first]
  BY DEF Largest
<1>2. PICK top \in Class : \A k \in Class : errors[k] <= errors[top]
  BY GreatestError
<1>3. netMax.error \in Nat /\ \A k \in Class : errors[k] \in Nat
  BY DEF Maximum
<1>4. CASE worst = {}
  <2>1. ~(netMax.error < errors[top])
    BY <1>2, <1>4
  <2>2. \A k \in Class : errors[k] <= netMax.error
    BY <1>2, <1>3, <2>1
  <2> QED BY <1>1, <1>3, <1>4, <2>2
<1>5. CASE worst # {}
  <2>1. worst \in SUBSET Nat
    BY DEF Class
  <2>2. first \in worst /\ \A k \in worst : first <= k
    <3> HIDE DEF worst
    <3>1. \E c \in worst : \A k \in worst : c <= k
      BY <1>5, <2>1, LeastNumber
    <3> QED BY <3>1
  <2> HIDE DEF first
  <2>3. first \in Class /\ netMax.error < errors[first]
        /\ \A k \in Class : errors[k] <= errors[first]
    BY <2>2
  <2>4. \A k \in Class : k < first => errors[k] < errors[first]
    <3> SUFFICES ASSUME NEW k \in Class, k < first, ~(errors[k] < errors[first])
                 PROVE  FALSE
      OBVIOUS
    <3>1. errors[k] = errors[first]
      BY <1>3, <2>3
    <3>2. k \in worst
      BY <2>3, <3>1
    <3> QED BY <2>1, <2>2, <3>2
  <2>5. Largest(errors) = [error |-> errors[first], class |-> first]
    BY <1>1, <1>5
  <2> QED BY <1>3, <2>3, <2>4, <2>5 DEF Maximum
<1> QED BY <1>4, <1>5

-----------------------------------------------------------------------------
(* Type correctness.                                                         *)

(* How far the tick has come; no class is taken between the ticks, and the   *)
(* ticks are those of the timer.  A network with two hidden layers is one    *)
(* that was not there before, and its epoch begins with the first group.     *)
Stages ==
  /\ pc = "train" => group < Groups
  /\ pc = "report" => group = Groups
  /\ layer = One /\ pc # "idle" => group = Len(seen)
  /\ pc # "train" => order = << >>
  /\ pc # "idle" => running
  /\ running => built /\ ~runOn
  /\ layer = Two => max.error = 0 /\ boxes.max = 0
  /\ ~built => max.error = 0 /\ boxes.max = 0
  /\ layer = Two /\ pc = "idle" => group < Groups
  /\ layer = Two /\ ~running => group = 0

LEMMA NetworkInitialized ==
  ASSUME InitNetwork
  PROVE  /\ ring' \in [0 .. MomNum - 1 -> Change] /\ point' \in 0 .. MomNum - 1
         /\ calls' \in Nat /\ netMax' \in Maximum
BY DEF InitNetwork, NoChange, Change, Maximum, Class

(* What a call for the next group leaves.                                    *)
LEMMA CallEnded ==
  ASSUME EpochTypeOK, Stages, EndOfCall
  PROVE  /\ point' \in 0 .. MomNum - 1 /\ calls' \in Nat
         /\ average' \in SUBSET Nat /\ order' \in Seq(Class) /\ order' = << >>
         /\ group \in Group /\ group' = group + 1 /\ group' \in 0 .. Groups
BY DEF EndOfCall, Advance, EpochTypeOK, Stages, Group

(* A class is taken.                                                         *)
LEMMA ClassTaken ==
  ASSUME EpochTypeOK, NEW c \in Class, TrainOn(c)
  PROVE  order' \in Seq(Class) /\ ring' \in [0 .. MomNum - 1 -> Change]
<1>1. order' \in Seq(Class)
  BY DEF TrainOn, EpochTypeOK
<1> DEFINE older == [r \in DOMAIN ring |->
              [ring[r] EXCEPT !.age = IF ring[r].call = 0 THEN 0 ELSE @ + 1]]
           now == [call |-> calls + 1, class |-> c, age |-> 0]
<1>2. older \in [0 .. MomNum - 1 -> Change]
  <2>1. \A r \in 0 .. MomNum - 1 : older[r] \in Change
    <3> TAKE r \in 0 .. MomNum - 1
    <3>1. ring[r] \in Change /\ DOMAIN ring = 0 .. MomNum - 1
      BY DEF EpochTypeOK
    <3>2. ring[r].age + 1 \in Nat
      BY <3>1 DEF Change
    <3> QED BY <3>1, <3>2 DEF Change
  <2> QED BY <2>1 DEF EpochTypeOK
<1>3. now \in Change
  BY DEF EpochTypeOK, Change
<1>4. ring' = [older EXCEPT ![point] = now]
  BY DEF TrainOn, Changed
<1> HIDE DEF older, now
<1> QED BY <1>1, <1>2, <1>3, <1>4

LEMMA DrawnIsClass ==
  ASSUME NEW n \in 0 .. RandMax
  PROVE  Drawn(n) \in Class
BY DEF Drawn, Class

LEMMA ClassIsTaken ==
  ASSUME EpochTypeOK
  PROVE  /\ \A n \in 0 .. RandMax :
              Train(n) => \E c \in Class : /\ TrainOn(c) /\ pc = "train"
                                          /\ c \notin ToSet(order)
         /\ TrainNext => TrainOn(Len(order)) /\ Len(order) \in Class /\ pc = "train"
<1>1. Len(order) \in Nat
  BY DEF EpochTypeOK
<1> QED BY <1>1, DrawnIsClass DEF Train, TrainNext, Class

(* The handlers, the calls and the reports keep to the classes, the groups   *)
(* and the rows of the ring.                                                 *)
THEOREM EpochTypeCorrect == Spec => [](EpochTypeOK /\ Stages)
<1>1. Init => EpochTypeOK /\ Stages
  <2> SUFFICES ASSUME Init PROVE EpochTypeOK /\ Stages
    OBVIOUS
  <2>1. 0 \in Class /\ 0 \in Group /\ 0 \in 0 .. Groups /\ 0 \in 0 .. MomNum - 1
    BY DEF Class, Group
  <2>2. NoChange \in Change
    BY <2>1 DEF NoChange, Change
  <2>3. ring \in [0 .. MomNum - 1 -> Change] /\ point \in 0 .. MomNum - 1 /\ calls \in Nat
    BY <2>1, <2>2 DEF Init
  <2>4. /\ netMax \in [error : Nat, class : Class]
        /\ max \in [error : Nat, group : Group, class : Class]
        /\ boxes \in [max : Nat, average : SUBSET Nat]
    BY <2>1 DEF Init
  <2>5. /\ built \in BOOLEAN /\ running \in BOOLEAN /\ active \in BOOLEAN
        /\ stopOn \in BOOLEAN /\ carried \in BOOLEAN /\ runOn \in BOOLEAN
        /\ layer \in {One, Two}
    BY DEF Init
  <2>6. order \in Seq(Class) /\ seen \in Seq([Class -> Nat]) /\ average \in SUBSET Nat
    BY DEF Init
  <2>7. group \in 0 .. Groups /\ epochs \in Nat
    BY DEF Init
  <2>8. /\ pc = "idle" /\ order = << >> /\ ~running /\ group = 0
        /\ max.error = 0 /\ boxes.max = 0
    BY DEF Init
  <2> QED BY <2>3, <2>4, <2>5, <2>6, <2>7, <2>8 DEF EpochTypeOK, Stages
<1>2. EpochTypeOK /\ Stages /\ [Next]_vars => EpochTypeOK' /\ Stages'
  <2> SUFFICES ASSUME EpochTypeOK, Stages, [Next]_vars
               PROVE  EpochTypeOK' /\ Stages'
    OBVIOUS
  <2> USE DEF Maximum
  <2>0. /\ max \in [error : Nat, group : Group, class : Class]
        /\ boxes \in [max : Nat, average : SUBSET Nat]
    BY DEF EpochTypeOK
  <2>1. CASE OnButtonRun
    <3>1. /\ ring' \in [0 .. MomNum - 1 -> Change] /\ point' \in 0 .. MomNum - 1
          /\ calls' \in Nat /\ netMax' \in Maximum
      BY <2>1, NetworkInitialized DEF OnButtonRun, EpochTypeOK, netVars
    <3>2. /\ max' \in [error : Nat, group : Group, class : Class]
          /\ average' \in SUBSET Nat /\ carried' \in BOOLEAN /\ max'.error = boxes.max
      BY <2>0, <2>1 DEF OnButtonRun, ReadBoxes, EpochTypeOK
    <3>3. /\ built' /\ running' /\ active' /\ ~runOn' /\ group' = 0
          /\ built' \in BOOLEAN /\ running' \in BOOLEAN /\ active' \in BOOLEAN
          /\ runOn' \in BOOLEAN /\ layer' \in {One, Two}
          /\ layer' = Two => layer = Two \/ ~built
      BY <2>1 DEF OnButtonRun, EpochTypeOK
    <3>4. /\ UNCHANGED <<stopOn, pc, order, boxes, epochs, seen>> /\ pc = "idle"
      BY <2>1 DEF OnButtonRun
    <3>5. 0 \in 0 .. Groups /\ 0 < Groups
      OBVIOUS
    <3>6. EpochTypeOK'
      BY <3>1, <3>2, <3>3, <3>4, <3>5 DEF EpochTypeOK
    <3> QED BY <3>2, <3>3, <3>4, <3>5, <3>6 DEF Stages
  <2>2. CASE OnButtonStop
    BY <2>2 DEF OnButtonStop, EpochTypeOK, Stages, netVars
  <2>3. CASE OnEnChangeEditAverageLimit
    <3>1. /\ max' \in [error : Nat, group : Group, class : Class]
          /\ average' \in SUBSET Nat /\ carried' \in BOOLEAN /\ max'.error = boxes.max
      BY <2>0, <2>3 DEF OnEnChangeEditAverageLimit, ReadBoxes, EpochTypeOK
    <3> QED BY <2>3, <3>1
       DEF OnEnChangeEditAverageLimit, EpochTypeOK, Stages, netVars,
                              buttonVars
  <2>4. CASE OnRadio
    <3>1. boxes' \in [max : Nat, average : SUBSET Nat] /\ boxes'.max = max.error
      BY <2>0, <2>4 DEF OnRadio, ShowBoxes, EpochTypeOK
    <3> QED BY <2>4, <3>1 DEF OnRadio, EpochTypeOK, Stages, netVars, buttonVars
  <2>5. CASE OnButtonWeighthoad
    <3>1. /\ ring' \in [0 .. MomNum - 1 -> Change] /\ point' \in 0 .. MomNum - 1
          /\ calls' \in Nat /\ netMax' \in Maximum
      BY <2>5, NetworkInitialized DEF OnButtonWeighthoad
    <3>2. boxes' \in [max : Nat, average : SUBSET Nat]
      BY <2>5 DEF OnButtonWeighthoad, ShowBoxes, EpochTypeOK
    <3>3. One # Two
      OBVIOUS
    <3> QED BY <2>5, <3>1, <3>2, <3>3 DEF OnButtonWeighthoad, EpochTypeOK, Stages
  <2>6. CASE OnTimer
    <3>1. /\ pc' = "train" /\ group' = (IF layer = One THEN 0 ELSE group) /\ seen' = << >>
          /\ running /\ pc = "idle"
          /\ UNCHANGED <<buttonVars, order, netVars, max, average, boxes, epochs,
                         carried>>
      BY <2>6 DEF OnTimer
    <3>2. group' \in 0 .. Groups /\ group' < Groups
      BY <3>1 DEF EpochTypeOK, Stages
    <3>3. seen' \in Seq([Class -> Nat]) /\ Len(seen') = 0
      BY <3>1
    <3>4. EpochTypeOK'
      BY <3>1, <3>2, <3>3 DEF EpochTypeOK, netVars, buttonVars
    <3>5. layer = One => group' = 0
      BY <3>1
    <3> QED BY <3>1, <3>2, <3>3, <3>4, <3>5 DEF Stages, netVars, buttonVars
  <2>7. ASSUME NEW c \in Class, TrainOn(c), pc = "train"
        PROVE  EpochTypeOK' /\ Stages'
    BY <2>7, ClassTaken DEF TrainOn, EpochTypeOK, Stages, buttonVars
  <2>8. CASE EvaluateOne
    <3>1. PICK errors \in [Class -> Errors] :
            seen' = Append(seen, errors) /\ netMax' = Largest(errors)
      BY <2>8 DEF EvaluateOne
    <3>2. errors \in [Class -> Nat]
      BY <3>1
    <3>3. netMax' \in Maximum
      BY <3>1, <3>2, LargestIsLargest DEF EpochTypeOK
    <3>4. seen' \in Seq([Class -> Nat]) /\ Len(seen') = Len(seen) + 1
      BY <3>1, <3>2 DEF EpochTypeOK
    <3>5. /\ layer = One /\ EndOfCall /\ pc = "train" /\ group = Len(seen)
          /\ UNCHANGED <<buttonVars, ring, boxes, epochs, carried>>
      BY <2>8 DEF EvaluateOne, EndOfCall, Stages
    <3>6. /\ point' \in 0 .. MomNum - 1 /\ calls' \in Nat
          /\ average' \in SUBSET Nat /\ order' \in Seq(Class) /\ order' = << >>
          /\ group \in Group /\ group' = group + 1 /\ group' \in 0 .. Groups
      BY <3>5, CallEnded
    <3>7. max' \in [error : Nat, group : Group, class : Class]
      BY <2>0, <2>8, <3>3, <3>6 DEF EvaluateOne
    <3>8. /\ pc' \in {"train", "report"}
          /\ pc' = "train" => group' < Groups
          /\ pc' = "report" => group' = Groups
      BY <2>8, <3>6 DEF EvaluateOne, Group
    <3>9. EpochTypeOK'
      BY <3>3, <3>4, <3>5, <3>6, <3>7, <3>8 DEF EpochTypeOK, buttonVars
    <3>10. built /\ running /\ ~runOn /\ One # Two
      BY <3>5 DEF Stages
    <3> QED BY <3>4, <3>5, <3>6, <3>8, <3>9, <3>10 DEF Stages, buttonVars
  <2>9. CASE EvaluateTwo
    <3>1. /\ layer = Two /\ EndOfCall /\ pc = "train"
          /\ UNCHANGED <<buttonVars, ring, boxes, epochs, carried, max, netMax,
                         seen>>
      BY <2>9 DEF EvaluateTwo, EndOfCall
    <3>2. /\ point' \in 0 .. MomNum - 1 /\ calls' \in Nat
          /\ average' \in SUBSET Nat /\ order' \in Seq(Class) /\ order' = << >>
          /\ group \in Group /\ group' = group + 1 /\ group' \in 0 .. Groups
      BY <3>1, CallEnded
    <3>3. /\ pc' \in {"idle", "report"}
          /\ pc' = "idle" => group' < Groups
          /\ pc' = "report" => group' = Groups
      BY <2>9, <3>2 DEF EvaluateTwo, Group
    <3>4. EpochTypeOK'
      BY <3>1, <3>2, <3>3 DEF EpochTypeOK, buttonVars
    <3>5. /\ built /\ running /\ ~runOn /\ One # Two
          /\ max.error = 0 /\ boxes.max = 0
      BY <3>1 DEF Stages
    <3> QED BY <3>1, <3>2, <3>3, <3>4, <3>5 DEF Stages, buttonVars
  <2>10. CASE ReportOne
    <3>1. /\ max' \in [error : Nat, group : Group, class : Class]
          /\ netMax' \in Maximum
      BY <2>0, <2>10 DEF ReportOne, Forget, EpochTypeOK
    <3>2. boxes' \in [max : Nat, average : SUBSET Nat] /\ epochs' \in Nat
      BY <2>0, <2>10 DEF ReportOne, Shown, ShowBoxes, EpochTypeOK
    <3>3. /\ average' \in SUBSET Nat /\ carried' \in BOOLEAN /\ running' \in BOOLEAN
          /\ group' \in 0 .. Groups /\ runOn' \in BOOLEAN
          /\ running' => ~runOn'
      <4>0. /\ average \in SUBSET Nat /\ group \in 0 .. Groups /\ active \in BOOLEAN
            /\ 0 \in 0 .. Groups /\ {} \in SUBSET Nat
        BY DEF EpochTypeOK
      <4>1. CASE GoesOn(FALSE) /\ carried' = TRUE /\ UNCHANGED <<average, group>>
        BY <4>0, <4>1, Zenon DEF GoesOn
      <4>2. CASE GoesOn(active) /\ carried' = FALSE /\ average' = {} /\ group' = 0
        BY <4>0, <4>2, Zenon DEF GoesOn
      <4> QED BY <2>10, <4>1, <4>2 DEF ReportOne
    <3>4. /\ layer = One /\ pc = "report" /\ pc' = "idle"
          /\ UNCHANGED <<built, active, stopOn, layer, order, ring, point, calls,
                         seen>>
      BY <2>10 DEF ReportOne, Shown
    <3>5. EpochTypeOK'
      BY <3>1, <3>2, <3>3, <3>4 DEF EpochTypeOK
    <3>6. built /\ One # Two /\ order = << >>
      BY <3>4 DEF Stages
    <3> QED BY <3>3, <3>4, <3>5, <3>6 DEF Stages
  <2>11. CASE ReportTwo
    <3>1. /\ boxes' = [max |-> max.error, average |-> average] /\ epochs' \in Nat
          /\ average' = {} /\ group' = 0 /\ carried' = FALSE
          /\ layer = Two /\ pc = "report" /\ pc' = "idle"
          /\ UNCHANGED <<built, active, stopOn, layer, order, ring, point, calls,
                         seen,
                         max, netMax>>
      BY <2>11 DEF ReportTwo, Shown, ShowBoxes, EpochTypeOK
    <3>2. boxes' \in [max : Nat, average : SUBSET Nat] /\ boxes'.max = max.error
      BY <2>0, <3>1 DEF EpochTypeOK
    <3>3. /\ running' \in BOOLEAN /\ runOn' \in BOOLEAN
          /\ running' => ~runOn'
      <4>0. active \in BOOLEAN
        BY DEF EpochTypeOK
      <4>1. CASE running' = FALSE /\ runOn' = ~active
        BY <4>0, <4>1, Zenon
      <4>2. CASE GoesOn(active)
        BY <4>0, <4>2, Zenon DEF GoesOn
      <4> QED BY <2>11, <4>1, <4>2 DEF ReportTwo
    <3>4. 0 \in 0 .. Groups /\ 0 < Groups /\ {} \in SUBSET Nat
      OBVIOUS
    <3>5. EpochTypeOK'
      BY <3>1, <3>2, <3>3, <3>4 DEF EpochTypeOK
    <3>6. built /\ One # Two /\ order = << >> /\ max.error = 0
      BY <3>1 DEF Stages
    <3> QED BY <3>1, <3>2, <3>3, <3>4, <3>5, <3>6 DEF Stages
  <2>12. CASE UNCHANGED vars
    BY <2>12 DEF vars, buttonVars, netVars, EpochTypeOK, Stages
  <2>13. CASE \E c \in Class : TrainOn(c) /\ pc = "train"
    BY <2>7, <2>13
  <2> QED BY <2>1, <2>2, <2>3, <2>4, <2>5, <2>6, <2>8, <2>9, <2>10, <2>11, <2>12,
             <2>13,
             ClassIsTaken DEF Next
<1> QED BY <1>1, <1>2, PTL DEF Spec

-----------------------------------------------------------------------------
(* The order of the classes.                                                 *)

Counted ==
  /\ IsFiniteSet(ToSet(order)) /\ Cardinality(ToSet(order)) = Len(order)
  /\ \A i, j \in 1 .. Len(order) : i # j => order[i] # order[j]

(* A network with two hidden layers takes the classes as they come.          *)
InTurn == layer = Two => \A i \in 1 .. Len(order) : order[i] = i - 1

(* Only taking a class and the end of a group change the order.              *)
LEMMA OrderKept ==
  ASSUME Stages, [Next]_vars
  PROVE  \/ UNCHANGED <<order, layer>>
         \/ order' = << >>
         \/ \E n \in 0 .. RandMax : Train(n)
         \/ TrainNext
<1>1. CASE OnButtonRun \/ OnButtonWeighthoad
  BY <1>1 DEF OnButtonRun, OnButtonWeighthoad, Stages
<1>2. CASE EvaluateOne \/ EvaluateTwo
  BY <1>2 DEF EvaluateOne, EvaluateTwo, EndOfCall
<1>3. CASE \/ OnButtonStop \/ OnEnChangeEditAverageLimit \/ OnRadio \/ OnTimer
           \/ ReportOne \/ ReportTwo \/ UNCHANGED vars
  BY <1>3
     DEF vars, buttonVars, OnButtonStop, OnEnChangeEditAverageLimit, OnRadio,
         OnTimer,
              ReportOne, ReportTwo, Shown
<1> QED BY <1>1, <1>2, <1>3 DEF Next

(* A class that was not in the order is counted with the others.             *)
LEMMA CountedOn ==
  ASSUME EpochTypeOK, Counted, NEW c \in Class, c \notin ToSet(order), TrainOn(c)
  PROVE  Counted'
<1>1. order \in Seq(Class) /\ order' = Append(order, c)
  BY DEF TrainOn, EpochTypeOK
<1>2. /\ Len(order) \in Nat /\ Len(order') = Len(order) + 1
      /\ order'[Len(order) + 1] = c
      /\ \A i \in 1 .. Len(order) : order'[i] = order[i]
  BY <1>1
<1>3. DOMAIN order = 1 .. Len(order) /\ DOMAIN order' = 1 .. Len(order) + 1
  BY <1>1, <1>2
<1>4. ToSet(order') = ToSet(order) \cup {c}
  BY <1>2, <1>3 DEF ToSet
<1>5. \A i \in 1 .. Len(order) : order[i] # c
  BY <1>3 DEF ToSet
<1>6. IsFiniteSet(ToSet(order')) /\ Cardinality(ToSet(order')) = Len(order) + 1
  <2> DEFINE drawn == ToSet(order)
  <2>1. IsFiniteSet(drawn) /\ Cardinality(drawn) = Len(order) /\ c \notin drawn
    BY DEF Counted
  <2>2. ToSet(order') = drawn \cup {c}
    BY <1>4
  <2> HIDE DEF drawn
  <2>3. IsFiniteSet(drawn \cup {c}) /\ Cardinality(drawn \cup {c}) = Len(order) + 1
    BY <2>1, FS_AddElement
  <2> QED BY <2>2, <2>3
<1>7. \A i, j \in 1 .. Len(order') : i # j => order'[i] # order'[j]
  BY <1>2, <1>5 DEF Counted
<1> QED BY <1>2, <1>6, <1>7 DEF Counted

(* In every group every class is trained once.                               *)
THEOREM DrawsAreAPermutation == Spec => []EveryClassOnce
<1>1. Init => Counted /\ InTurn
  <2> SUFFICES ASSUME Init PROVE Counted /\ InTurn
    OBVIOUS
  <2>1. order = << >> /\ ToSet(order) = {}
    BY DEF Init, ToSet
  <2> QED BY <2>1, FS_EmptySet DEF Counted, InTurn
<1>2. EpochTypeOK /\ Stages /\ Counted /\ InTurn /\ [Next]_vars => Counted' /\ InTurn'
  <2> SUFFICES ASSUME EpochTypeOK, Stages, Counted, InTurn, [Next]_vars
               PROVE  Counted' /\ InTurn'
    OBVIOUS
  <2>1. CASE UNCHANGED <<order, layer>>
    BY <2>1 DEF Counted, InTurn, ToSet
  <2>2. CASE order' = << >>
    <3>1. ToSet(order') = {} /\ Len(order') = 0
      BY <2>2 DEF ToSet
    <3>2. IsFiniteSet(ToSet(order')) /\ Cardinality(ToSet(order')) = 0
      BY <3>1, FS_EmptySet, Zenon
    <3> QED BY <3>1, <3>2 DEF Counted, InTurn
  <2>3. ASSUME NEW n \in 0 .. RandMax, Train(n)
        PROVE  Counted' /\ InTurn'
    <3>1. PICK c \in Class : TrainOn(c) /\ c \notin ToSet(order)
      BY <2>3, ClassIsTaken
    <3>2. layer = One /\ layer' = layer /\ One # Two
      BY <2>3, <3>1 DEF Train, TrainOn, buttonVars
    <3> QED BY <3>1, <3>2, CountedOn DEF InTurn
  <2>4. CASE TrainNext
    <3>1. TrainOn(Len(order)) /\ Len(order) \in Class /\ layer = Two
      BY <2>4, ClassIsTaken DEF TrainNext
    <3>2. order \in Seq(Class) /\ order' = Append(order, Len(order)) /\ layer' = layer
      BY <3>1 DEF TrainOn, EpochTypeOK, buttonVars
    <3>3. \A i \in 1 .. Len(order) : order[i] = i - 1
      BY <3>1 DEF InTurn
    <3>4. Len(order) \notin ToSet(order)
      BY <3>2, <3>3 DEF ToSet
    <3>5. InTurn'
      BY <3>2, <3>3 DEF InTurn
    <3> QED BY <3>1, <3>4, <3>5, CountedOn
  <2> QED BY <2>1, <2>2, <2>3, <2>4, OrderKept
<1>3. EpochTypeOK /\ Counted => EveryClassOnce
  <2> SUFFICES ASSUME EpochTypeOK, Counted, Len(order) = Classes
               PROVE  ToSet(order) = Class
    BY DEF EveryClassOnce, Counted
  <2>1. IsFiniteSet(Class) /\ Cardinality(Class) = Classes
    <3>1. IsFiniteSet(0 .. Classes - 1) /\ Cardinality(0 .. Classes - 1) = Classes
      BY FS_Interval
    <3> QED BY <3>1 DEF Class
  <2>2. ToSet(order) \in SUBSET Class
    BY DEF EpochTypeOK, ToSet
  <2> QED BY <2>1, <2>2, FS_Subset DEF Counted
<1> QED BY <1>1, <1>2, <1>3, EpochTypeCorrect, PTL DEF Spec

-----------------------------------------------------------------------------
(* The momentum ring.                                                        *)

(* How many calls ago the row r was the row at the point p.                  *)
Ago(p, r) == IF r < p THEN p - r ELSE p - r + MomNum

RowsInv ==
  \A r \in 0 .. MomNum - 1 :
    IF r = point /\ order # << >>
    THEN ring[r].call = calls + 1 /\ ring[r].age = 0
    ELSE IF Ago(point, r) > calls THEN ring[r] = NoChange
    ELSE /\ ring[r].call = calls + 1 - Ago(point, r)
         /\ ring[r].age = (Ago(point, r) - 1) * Classes + Len(order)

(* The subscript of the property is the row with that distance.              *)
LEMMA AgoIsRemainder ==
  ASSUME NEW p \in 0 .. MomNum - 1, NEW d \in 1 .. MomNum
  PROVE  (p - d) % MomNum \in 0 .. MomNum - 1 /\ Ago(p, (p - d) % MomNum) = d
<1>1. CASE d <= p
  <2>1. p - d \in 0 .. MomNum - 1 /\ (p - d) % MomNum = p - d
    BY <1>1
  <2> QED BY <2>1 DEF Ago
<1>2. CASE p < d
  <2>1. p - d + MomNum \in 0 .. MomNum - 1
    BY <1>2
  <2>2. (p - d) % MomNum = p - d + MomNum
    BY <1>2, <2>1
  <2> QED BY <1>2, <2>1, <2>2 DEF Ago
<1> QED BY <1>1, <1>2

(* One call more.                                                            *)
LEMMA OneMore ==
  ASSUME NEW a \in Nat
  PROVE  (a + 1) * Classes = a * Classes + Classes /\ a * Classes \in Nat
OBVIOUS

(* Between two groups the ring holds the last calls in their order, each     *)
(* weakened once for every class trained after it.                           *)
THEOREM MomentumOfLastCalls == Spec => []RingHoldsLastCalls
<1>1. Init => RowsInv
  <2> SUFFICES ASSUME Init, NEW r \in 0 .. MomNum - 1
               PROVE  Ago(point, r) > calls /\ ring[r] = NoChange /\ order = << >>
    BY DEF RowsInv
  <2> QED BY DEF Init, Ago
<1>2. EpochTypeOK /\ Stages /\ RowsInv /\ [Next]_vars => RowsInv'
  <2> SUFFICES ASSUME EpochTypeOK, Stages, RowsInv, [Next]_vars
               PROVE  RowsInv'
    OBVIOUS
  <2>0. /\ ring \in [0 .. MomNum - 1 -> Change] /\ point \in 0 .. MomNum - 1
        /\ calls \in Nat /\ order \in Seq(Class)
    BY DEF EpochTypeOK
  <2>1. CASE UNCHANGED <<ring, point, calls, order>>
    BY <2>1 DEF RowsInv, Ago
  <2>2. ASSUME InitNetwork, order' = order, pc = "idle"
        PROVE  RowsInv'
    <3>1. order' = << >> /\ point' = 0 /\ calls' = 0
      BY <2>2 DEF Stages, InitNetwork
    <3> SUFFICES ASSUME NEW r \in 0 .. MomNum - 1
                 PROVE  Ago(point', r) > calls' /\ ring'[r] = NoChange
      BY <3>1 DEF RowsInv, Ago
    <3> QED BY <2>2, <3>1 DEF InitNetwork, Ago
  <2>3. ASSUME NEW c \in Class, TrainOn(c)
        PROVE  RowsInv'
    <3>1. point' = point /\ calls' = calls /\ order' = Append(order, c)
      BY <2>3 DEF TrainOn
    <3>2. order' # << >> /\ Len(order') = Len(order) + 1 /\ Len(order) \in Nat
      BY <2>0, <3>1
    <3>3. ring'[point].call = calls + 1 /\ ring'[point].age = 0
      BY <2>0, <2>3 DEF TrainOn, Changed
    <3>4. \A r \in (0 .. MomNum - 1) \ {point} :
            ring'[r] = [ring[r] EXCEPT !.age = IF ring[r].call = 0 THEN 0 ELSE @ + 1]
      BY <2>0, <2>3 DEF TrainOn, Changed
    <3> SUFFICES ASSUME NEW r \in (0 .. MomNum - 1) \ {point}
                 PROVE  IF Ago(point, r) > calls THEN ring'[r] = NoChange
                        ELSE /\ ring'[r].call = calls + 1 - Ago(point, r)
                             /\ ring'[r].age = (Ago(point, r) - 1) * Classes + Len(order')
      BY <2>0, <3>1, <3>2, <3>3 DEF RowsInv, Ago
    <3>5. ring[r] \in Change /\ Ago(point, r) \in Nat \ {0}
      BY <2>0 DEF Ago
    <3>6. CASE Ago(point, r) > calls
      <4>1. ring[r] = NoChange
        BY <3>6 DEF RowsInv
      <4> QED BY <3>4, <3>6, <4>1 DEF NoChange
    <3>7. CASE ~(Ago(point, r) > calls)
      <4>1. /\ ring[r].call = calls + 1 - Ago(point, r)
            /\ ring[r].age = (Ago(point, r) - 1) * Classes + Len(order)
        BY <3>7 DEF RowsInv
      <4>2. ring[r].call # 0
        BY <2>0, <3>5, <3>7, <4>1
      <4>3. ring'[r].call = ring[r].call /\ ring'[r].age = ring[r].age + 1
        BY <3>4, <3>5, <4>2 DEF Change
      <4>4. (Ago(point, r) - 1) * Classes \in Nat
        BY <3>5, OneMore
      <4> QED BY <3>2, <3>7, <4>1, <4>3, <4>4
    <3> QED BY <3>6, <3>7
  <2>4. CASE EndOfCall
    <3>1. /\ ring' = ring /\ calls' = calls + 1 /\ order' = << >>
          /\ point' = Advance /\ Len(order) = Classes /\ order # << >>
      BY <2>0, <2>4 DEF EndOfCall
    <3> SUFFICES ASSUME NEW r \in 0 .. MomNum - 1
                 PROVE  IF Ago(point', r) > calls' THEN ring[r] = NoChange
                        ELSE /\ ring[r].call = calls' + 1 - Ago(point', r)
                             /\ ring[r].age = (Ago(point', r) - 1) * Classes
      <4>1. \A r \in 0 .. MomNum - 1 : (Ago(point', r) - 1) * Classes \in Int
        BY <2>0, <3>1 DEF Ago, Advance
      <4> QED BY <3>1, <4>1 DEF RowsInv, Ago
    <3>2. CASE r = point
      <4>1. Ago(point', r) = 1
        BY <2>0, <3>1, <3>2 DEF Ago, Advance
      <4> QED BY <2>0, <3>1, <3>2, <4>1 DEF RowsInv
    <3>3. CASE r # point
      <4>1. Ago(point', r) = Ago(point, r) + 1 /\ Ago(point, r) \in Nat \ {0}
        BY <2>0, <3>1, <3>3 DEF Ago, Advance
      <4>2. IF Ago(point, r) > calls THEN ring[r] = NoChange
            ELSE /\ ring[r].call = calls + 1 - Ago(point, r)
                 /\ ring[r].age = (Ago(point, r) - 1) * Classes + Classes
        BY <3>1, <3>3 DEF RowsInv
      <4>3. (Ago(point, r) - 1) * Classes + Classes = (Ago(point', r) - 1) * Classes
        <5> DEFINE a == Ago(point, r) - 1
        <5>1. a \in Nat /\ Ago(point', r) - 1 = a + 1
          BY <4>1
        <5> HIDE DEF a
        <5>2. (a + 1) * Classes = a * Classes + Classes
          BY <5>1, OneMore
        <5> QED BY <5>1, <5>2 DEF a
      <4> QED BY <2>0, <3>1, <4>1, <4>2, <4>3
    <3> QED BY <3>2, <3>3
  <2>5. CASE OnButtonRun
    <3>1. CASE built
      BY <2>1, <2>5, <3>1 DEF OnButtonRun, netVars
    <3>2. CASE ~built
      BY <2>2, <2>5, <3>2 DEF OnButtonRun
    <3> QED BY <3>1, <3>2
  <2>6. CASE OnButtonWeighthoad
    BY <2>2, <2>6 DEF OnButtonWeighthoad
  <2>7. CASE OnButtonStop \/ OnEnChangeEditAverageLimit \/ OnRadio \/ OnTimer
             \/ ReportOne \/ ReportTwo \/ UNCHANGED vars
    BY <2>1, <2>7 DEF OnButtonStop, OnEnChangeEditAverageLimit, OnRadio, OnTimer,
                      ReportOne, ReportTwo, Shown, vars, netVars
  <2>8. CASE EvaluateOne \/ EvaluateTwo
    BY <2>4, <2>8 DEF EvaluateOne, EvaluateTwo
  <2> QED BY <2>3, <2>5, <2>6, <2>7, <2>8, ClassIsTaken DEF Next
<1>3. EpochTypeOK /\ RowsInv => RingHoldsLastCalls
  <2> SUFFICES ASSUME EpochTypeOK, RowsInv, order = << >>, NEW d \in 1 .. MomNum
               PROVE  LET row == ring[(point - d) % MomNum] IN
                      IF d > calls THEN row = NoChange
                      ELSE row.call = calls + 1 - d /\ row.age = (d - 1) * Classes
    BY DEF RingHoldsLastCalls
  <2>1. point \in 0 .. MomNum - 1
    BY DEF EpochTypeOK
  <2>2. PICK r \in 0 .. MomNum - 1 : r = (point - d) % MomNum /\ Ago(point, r) = d
    BY <2>1, AgoIsRemainder
  <2>3. d - 1 \in Nat /\ (d - 1) * Classes \in Nat
    BY OneMore
  <2>4. Len(order) = 0
    OBVIOUS
  <2> QED BY <2>2, <2>3, <2>4 DEF RowsInv
<1> QED BY <1>1, <1>2, <1>3, EpochTypeCorrect, PTL DEF Spec

-----------------------------------------------------------------------------
(* The report.                                                               *)

(* The errors of the tick that are in the largest error.                     *)
WorstSoFar ==
  /\ \A i \in 1 .. Len(seen), k \in Class : seen[i][k] <= max.error
  /\ max.error # 0 => /\ max.group + 1 \in 1 .. Len(seen)
                      /\ seen[max.group + 1][max.class] = max.error
                      /\ FirstWorst(max.group, max.class)

(* The groups of the epoch that are trained.                                 *)
Past == IF layer = One /\ pc = "idle" THEN 0 ELSE group

(* Unless they were kept or read back, the sums are those of the groups that *)
(* are trained, and between two ticks there is no largest error.             *)
SumsInv ==
  /\ pc = "idle" \/ layer = Two => netMax.error = 0
  /\ ~carried => /\ average = calls - Past + 1 .. calls
                 /\ pc = "idle" => max.error = 0
                 /\ layer = One /\ pc # "idle" => netMax.error = max.error /\ WorstSoFar

(* One call more in the sum.                                                 *)
LEMMA OneCallMore ==
  ASSUME NEW n \in Nat, NEW k \in Nat
  PROVE  (n - k + 1 .. n) \cup {n + 1} = n + 1 - (k + 1) + 1 .. n + 1
OBVIOUS

LEMMA CallIsAdded ==
  ASSUME EpochTypeOK, SumsInv, EndOfCall, ~carried
  PROVE  average' = calls' - group' + 1 .. calls'
<1>1. /\ average = calls - group + 1 .. calls /\ average' = average \cup {calls + 1}
      /\ calls' = calls + 1 /\ group' = group + 1
  BY DEF SumsInv, EndOfCall, Past
<1>2. calls \in Nat /\ group \in Nat
  BY DEF EpochTypeOK
<1> QED BY <1>1, <1>2, OneCallMore

(* The errors of one more group.                                             *)
LEMMA EvaluateKeepsSums ==
  ASSUME EpochTypeOK, Stages, SumsInv, EvaluateOne
  PROVE  SumsInv'
<1>0. /\ layer = One /\ layer' = One /\ One # Two /\ pc' # "idle" /\ carried' = carried
      /\ EndOfCall /\ pc = "train"
  BY DEF EvaluateOne, EndOfCall, buttonVars
<1> SUFFICES ASSUME ~carried
             PROVE  netMax'.error = max'.error /\ WorstSoFar'
  BY <1>0, CallIsAdded DEF SumsInv, Past
<1>1. PICK errors \in [Class -> Errors] :
        seen' = Append(seen, errors) /\ netMax' = Largest(errors)
  BY DEF EvaluateOne
<1>2. /\ errors \in [Class -> Nat] /\ seen \in Seq([Class -> Nat]) /\ netMax \in Maximum
      /\ max \in [error : Nat, group : Group, class : Class]
  BY <1>1 DEF EpochTypeOK, Maximum
<1>3. PICK n \in Nat : n = Len(seen)
  BY <1>2
<1>4. /\ Len(seen') = n + 1 /\ seen'[n + 1] = errors
      /\ \A i \in 1 .. n : seen'[i] = seen[i] /\ seen[i] \in [Class -> Nat]
  BY <1>1, <1>2, <1>3
<1>5. group = n
  BY <1>0, <1>3 DEF Stages
<1>6. netMax.error = max.error /\ WorstSoFar
  BY <1>0 DEF SumsInv
<1> DEFINE m == Largest(errors)
<1>8. /\ m \in Maximum
      /\ netMax.error <= m.error /\ \A k \in Class : errors[k] <= m.error
      /\ \/ m = netMax
         \/ /\ netMax.error < m.error /\ errors[m.class] = m.error
            /\ \A k \in Class : k < m.class => errors[k] < m.error
  BY <1>2, LargestIsLargest
<1>9. netMax' = m
  BY <1>1
<1>10. max' = IF max.error < m.error
                THEN [error |-> m.error, group |-> n, class |-> m.class] ELSE max
  BY <1>5, <1>9 DEF EvaluateOne
<1> HIDE DEF m
<1>11. max.error \in Nat /\ m.error \in Nat /\ m.class \in Class /\ max.class \in Class
       /\ max.group \in Nat
  BY <1>2, <1>8 DEF Maximum, Group
<1>12. netMax'.error = max'.error
  BY <1>6, <1>8, <1>9, <1>10, <1>11
<1>13. \A i \in 1 .. n, k \in Class : seen[i][k] <= max.error /\ seen[i][k] \in Nat
  BY <1>3, <1>4, <1>6 DEF WorstSoFar
<1>14. \A k \in Class : errors[k] \in Nat
  BY <1>2
<1>15. CASE m = netMax
  <2>1. max' = max
    BY <1>6, <1>10, <1>11, <1>15
  <2>2. \A i \in 1 .. n + 1, k \in Class : seen'[i][k] <= max.error
    <3> TAKE i \in 1 .. n + 1, k \in Class
    <3>1. CASE i = n + 1
      BY <1>4, <1>6, <1>8, <1>15, <3>1
    <3>2. CASE i \in 1 .. n
      BY <1>4, <1>13, <3>2
    <3> QED BY <1>3, <3>1, <3>2
  <2>3. ASSUME max.error # 0
        PROVE  /\ max.group + 1 \in 1 .. n + 1
               /\ seen'[max.group + 1][max.class] = max.error
               /\ \A i \in 1 .. n + 1, k \in Class :
                    i < max.group + 1 \/ (i = max.group + 1 /\ k < max.class)
                    => seen'[i][k] < max.error
    <3>1. /\ max.group + 1 \in 1 .. n
          /\ seen[max.group + 1][max.class] = max.error
          /\ \A i \in 1 .. n, k \in Class :
               i < max.group + 1 \/ (i = max.group + 1 /\ k < max.class)
               => seen[i][k] < max.error
      BY <1>3, <1>6, <2>3 DEF WorstSoFar, FirstWorst
    <3>2. \A i \in 1 .. n + 1 : i < max.group + 1 \/ i = max.group + 1 => i \in 1 .. n
      BY <1>3, <1>11, <3>1
    <3> QED BY <1>3, <1>4, <3>1, <3>2
  <2> QED BY <1>4, <1>12, <2>1, <2>2, <2>3 DEF WorstSoFar, FirstWorst
<1>16. CASE m # netMax
  <2>1. max' = [error |-> m.error, group |-> n, class |-> m.class] /\ max.error < m.error
    BY <1>6, <1>8, <1>10, <1>16
  <2>2. \A i \in 1 .. n + 1, k \in Class : seen'[i][k] <= m.error
    <3> TAKE i \in 1 .. n + 1, k \in Class
    <3>1. CASE i = n + 1
      BY <1>4, <1>8, <3>1
    <3>2. CASE i \in 1 .. n
      BY <1>4, <1>11, <1>13, <2>1, <3>2
    <3> QED BY <1>3, <3>1, <3>2
  <2>3. seen'[n + 1][m.class] = m.error
    BY <1>4, <1>8, <1>16
  <2>4. \A i \in 1 .. n + 1, k \in Class :
          i < n + 1 \/ (i = n + 1 /\ k < m.class) => seen'[i][k] < m.error
    <3> TAKE i \in 1 .. n + 1, k \in Class
    <3>1. CASE i = n + 1
      BY <1>3, <1>4, <1>8, <1>16, <3>1
    <3>2. CASE i \in 1 .. n
      BY <1>4, <1>11, <1>13, <2>1, <3>2
    <3> QED BY <1>3, <3>1, <3>2
  <2> QED BY <1>3, <1>4, <1>12, <2>1, <2>2, <2>3, <2>4 DEF WorstSoFar, FirstWorst
<1> QED BY <1>15, <1>16

(* Unless they were kept or read back from the boxes, the errors in a report *)
(* are those of its own epoch, all of them.                                  *)
THEOREM ReportsOwnErrors == Spec => []ReportIsOfThisEpoch
<1>1. Init => SumsInv
  <2> SUFFICES ASSUME Init PROVE SumsInv
    OBVIOUS
  <2>1. /\ average = {} /\ calls = 0 /\ group = 0 /\ max.error = 0 /\ netMax.error = 0
        /\ pc = "idle"
    BY DEF Init
  <2>2. calls - Past + 1 .. calls = {}
    BY <2>1 DEF Past
  <2> QED BY <2>1, <2>2 DEF SumsInv
<1>2. EpochTypeOK /\ Stages /\ SumsInv /\ [Next]_vars => SumsInv'
  <2> SUFFICES ASSUME EpochTypeOK, Stages, SumsInv, [Next]_vars
               PROVE  SumsInv'
    OBVIOUS
  <2>0. /\ calls \in Nat /\ group \in Nat /\ One # Two
        /\ max \in [error : Nat, group : Group, class : Class]
        /\ netMax \in [error : Nat, class : Class]
    BY DEF EpochTypeOK
  <2>1. ASSUME ReadBoxes, ~carried'
        PROVE  ~carried /\ average' = average /\ max'.error = max.error
    <3>1. ~carried /\ boxes = [max |-> max.error, average |-> average]
      BY <2>1 DEF ReadBoxes
    <3>2. average' = average /\ max' = [max EXCEPT !.error = max.error]
      BY <2>1, <3>1 DEF ReadBoxes
    <3> QED BY <2>0, <3>1, <3>2
  <2>2. \A n \in Nat : n - 0 + 1 .. n = {}
    OBVIOUS
  <2>3. ~running /\ pc = "idle" => Past = 0
    BY DEF Past, Stages, EpochTypeOK
  <2>4. CASE OnButtonRun
    <3>1. /\ ReadBoxes /\ pc = "idle" /\ pc' = "idle" /\ ~running /\ group' = 0
          /\ calls' \in Nat
      BY <2>4, <2>0 DEF OnButtonRun, Stages, netVars, InitNetwork
    <3>2. netMax'.error = 0
      BY <2>4 DEF OnButtonRun, netVars, InitNetwork, SumsInv
    <3>3. ASSUME ~carried'
          PROVE  average' = {} /\ max'.error = 0
      <4>1. ~carried /\ average' = average /\ max'.error = max.error
        BY <2>1, <3>1, <3>3
      <4> QED BY <2>0, <2>2, <2>3, <3>1, <4>1 DEF SumsInv
    <3>4. Past' = 0
      BY <3>1 DEF Past
    <3>5. calls' - Past' + 1 .. calls' = {}
      BY <2>2, <3>1, <3>4
    <3> QED BY <3>1, <3>2, <3>3, <3>5 DEF SumsInv
  <2>5. CASE OnEnChangeEditAverageLimit
    <3>1. /\ ReadBoxes /\ pc = "idle"
          /\ UNCHANGED <<pc, layer, group, calls, netMax>>
      BY <2>5 DEF OnEnChangeEditAverageLimit, netVars, buttonVars
    <3>2. Past' = Past
      BY <3>1 DEF Past
    <3> QED BY <2>1, <3>1, <3>2 DEF SumsInv
  <2>6. CASE OnButtonStop \/ OnRadio \/ UNCHANGED vars
    <3>1. UNCHANGED <<pc, layer, group, calls, netMax, max, average, seen, carried>>
      BY <2>6 DEF OnButtonStop, OnRadio, vars, netVars, buttonVars
    <3> QED BY <3>1 DEF SumsInv, Past, WorstSoFar, FirstWorst
  <2>7. CASE OnButtonWeighthoad
    <3>1. /\ pc = "idle" /\ ~running /\ layer' = One /\ calls' = 0 /\ netMax'.error = 0
          /\ UNCHANGED <<pc, max, average, carried>>
      BY <2>7 DEF OnButtonWeighthoad, InitNetwork
    <3>2. Past' = 0 /\ calls' - Past' + 1 .. calls' = {}
      BY <2>2, <3>1 DEF Past
    <3>3. ~carried => average = {}
      BY <2>0, <2>2, <2>3, <3>1 DEF SumsInv
    <3> QED BY <3>1, <3>2, <3>3 DEF SumsInv
  <2>8. CASE OnTimer
    <3>1. /\ pc = "idle" /\ pc' = "train" /\ seen' = << >>
          /\ group' = (IF layer = One THEN 0 ELSE group)
          /\ UNCHANGED <<layer, calls, netMax, max, average, carried>>
      BY <2>8 DEF OnTimer, netVars, buttonVars
    <3>2. Past' = Past
      BY <3>1 DEF Past
    <3> QED BY <3>1, <3>2 DEF SumsInv, WorstSoFar
  <2>9. ASSUME NEW c \in Class, TrainOn(c)
        PROVE  SumsInv'
    <3>1. UNCHANGED <<pc, layer, group, calls, netMax, max, average, seen, carried>>
      BY <2>9 DEF TrainOn, buttonVars
    <3> QED BY <3>1 DEF SumsInv, Past, WorstSoFar, FirstWorst
  <2>10. CASE EvaluateOne
    BY <2>10, EvaluateKeepsSums
  <2>11. CASE EvaluateTwo
    <3>1. /\ layer = Two /\ EndOfCall /\ UNCHANGED <<layer, max, netMax, carried>>
          /\ pc = "train"
      BY <2>11 DEF EvaluateTwo, EndOfCall, buttonVars
    <3>2. max.error = 0
      BY <3>1 DEF Stages
    <3>3. Past' = group'
      BY <2>0, <3>1 DEF Past
    <3> QED BY <2>0, <3>1, <3>2, <3>3, CallIsAdded DEF SumsInv
  <2>12. CASE ReportOne
    <3>1. max'.error = 0 /\ netMax'.error = 0 /\ pc' = "idle" /\ calls' = calls /\ layer' = One
      BY <2>0, <2>12 DEF ReportOne, Shown, Forget
    <3>2. carried' = TRUE \/ average' = {}
      BY <2>12 DEF ReportOne
    <3>3. calls' - Past' + 1 .. calls' = {}
      BY <2>0, <2>2, <3>1 DEF Past
    <3> QED BY <3>1, <3>2, <3>3 DEF SumsInv
  <2>13. CASE ReportTwo
    <3>1. /\ layer = Two /\ pc' = "idle" /\ group' = 0 /\ average' = {}
          /\ UNCHANGED <<calls, layer, max, netMax>>
      BY <2>13 DEF ReportTwo, Shown
    <3>2. max.error = 0
      BY <3>1 DEF Stages
    <3>3. calls' - Past' + 1 .. calls' = {}
      BY <2>0, <2>2, <3>1 DEF Past
    <3> QED BY <3>1, <3>2, <3>3 DEF SumsInv
  <2> QED BY <2>4, <2>5, <2>6, <2>7, <2>8, <2>9, <2>10, <2>11, <2>12, <2>13,
             ClassIsTaken
          DEF Next
<1>3. Stages /\ SumsInv => ReportIsOfThisEpoch
  BY DEF Stages, SumsInv, WorstSoFar, ReportIsOfThisEpoch, Past
<1> QED BY <1>1, <1>2, <1>3, EpochTypeCorrect, PTL DEF Spec
=============================================================================
