----------------------------- MODULE PlateProofs -----------------------------
(***************************************************************************)
(* Plate detection: what the digit search returns, for any number of       *)
(* candidates, any limit of the list and any check, and what follows for   *)
(* the conditions of the code, for any blobs; and then what GetNumberArea  *)
(* returns, for any images and any table of thresholds.                    *)
(*                                                                         *)
(* The argument for the search keeps track of Passed, the candidates the   *)
(* loops will not visit any more.  While a loop runs these are the ones    *)
(* before its counters; when it has ended it depends on found_count how    *)
(* much of the enclosing loops is passed as well.  Everything in the list  *)
(* is passed, and what is passed and succeeds is in the list.              *)
(*                                                                         *)
(* The invariant of the retries follows the rounds: which settings are     *)
(* known to show nothing by the time the loops have come to the current    *)
(* one, what the result so far stands for, and that found_arr has been     *)
(* renewed since the last labelling.                                       *)
(***************************************************************************)
EXTENDS PlateSearch, PlateRetry, TLAPS, FiniteSetTheorems, WellFoundedInduction

\* The candidates before counters of which the first two, three or all have
\* the values given.
Before2(q, a, b) == q[1] < a \/ (q[1] = a /\ q[2] < b)
Before3(q, a, b, c) == Before2(q, a, b) \/ (q[1] = a /\ q[2] = b /\ q[3] < c)
Before4(q, a, b, c, d) ==
  Before3(q, a, b, c) \/ (q[1] = a /\ q[2] = b /\ q[3] = c /\ q[4] < d)

\* What is passed after an inner loop has ended with found_count.
PassedBy(q) ==
  \/ found_count = 0 /\ q[1] <= i
  \/ found_count = -1 /\ Before2(q, i, j + 1)
  \/ found_count = -2 /\ Before3(q, i, j, k + 1)
  \/ found_count = 4 /\ Before4(q, i, j, k, l + 1)

Passed(q) ==
  \/ pc = "i" /\ q[1] < i
  \/ pc = "j" /\ Before2(q, i, j)
  \/ pc = "k" /\ Before3(q, i, j, k)
  \/ pc = "l" /\ Before4(q, i, j, k, l)
  \/ pc \in {"afterL", "afterK", "afterJ"} /\ PassedBy(q)
  \/ pc = "done" /\ (Len(saved) = MaxSaved => Before4(q, i, j, k, l + 1))

\* The counters are nested, and found_count has the one value that the loop
\* whose head or exit is reached can find in it.
KFound == IF k = j + 1 THEN 0 ELSE -1
LoopInv ==
  /\ pc = "i" => found_count = 0
  /\ pc = "j" => found_count = 0 /\ i < n /\ i < j
  /\ pc = "k" => found_count = KFound /\ i < j /\ j < k /\ j < n
  /\ pc = "l" => /\ i < j /\ j < k /\ k < l /\ k < n
                 /\ found_count = IF l = k + 1 THEN KFound ELSE -2
  /\ pc = "afterL" => found_count \in {4, 0, -1, -2} /\ i < j /\ j < k /\ k < n
  /\ pc = "afterK" => found_count \in {4, 0, -1} /\ i < j /\ j < n
  /\ pc = "afterJ" => found_count \in {4, 0} /\ i < n
  /\ pc # "done" => (found_count = 4 <=> Len(saved) = MaxSaved)

FoundPassed == \A s \in 1..Len(saved) : Passed(saved[s])
PassedFound == PruneSound => \A q \in Successes : Passed(q) => q \in Found

IInv == SearchTypeOK /\ LoopInv /\ SavedInOrder /\ FoundPassed /\ PassedFound

USE MaxBlobsAssumption, MaxSavedAssumption

\* The parts of four candidates are numbers in ascending order.
LEMMA QuadParts ==
  ASSUME NEW q \in Quads
  PROVE  /\ q = <<q[1], q[2], q[3], q[4]>>
         /\ q[1] \in Blobs /\ q[2] \in Blobs /\ q[3] \in Blobs /\ q[4] \in Blobs
         /\ q[1] < q[2] /\ q[2] < q[3] /\ q[3] < q[4]
BY DEF Quads, Blobs

\* Nested counters below n are four candidates.
LEMMA CountersAreCandidates ==
  ASSUME n \in 0..MaxBlobs, i \in Nat, j \in Nat, k \in Nat, l \in Nat,
         i < j, j < k, k < l, l < n
  PROVE  counters \in Candidates
BY DEF Candidates, Quads, Blobs, counters

\* The first part of the invariant holds initially ...
LEMMA LoopInit == Init => SearchTypeOK /\ LoopInv
BY DEF Init, SearchTypeOK, LoopInv, Codes

\* ... and every step of a loop preserves it.
LEMMA LoopStep ==
  ASSUME SearchTypeOK, LoopInv, [Next]_vars
  PROVE  SearchTypeOK' /\ LoopInv'
<1> USE DEF SearchTypeOK, LoopInv, KFound, Codes
<1>1. CASE LoopI
  BY <1>1 DEF LoopI, input
<1>2. CASE LoopJ
  BY <1>2 DEF LoopJ, input
<1>3. CASE LoopK
  BY <1>3 DEF LoopK, input
<1>4. CASE LoopL
  BY <1>4 DEF LoopL, input, counters
<1>5. CASE Success
  <2>1. counters \in Quads
    BY <1>5, CountersAreCandidates DEF Success, Candidates
  <2>2. saved' \in Seq(Quads) /\ Len(saved') = Len(saved) + 1
    BY <1>5, <2>1 DEF Success
  <2>3. Len(saved) < MaxSaved
    BY <1>5 DEF Success
  <2> QED
    BY <1>5, <2>2, <2>3 DEF Success, input
<1>6. CASE Failure
  <2>1. check[counters] \in Codes
    BY <1>6, CountersAreCandidates DEF Failure, Candidates
  <2> QED
    BY <1>6, <2>1 DEF Failure, input
<1>7. CASE AfterL
  BY <1>7 DEF AfterL, input
<1>8. CASE AfterK
  BY <1>8 DEF AfterK, input
<1>9. CASE AfterJ
  BY <1>9 DEF AfterJ, input
<1>10. CASE UNCHANGED vars
  BY <1>10 DEF vars, input, counters
<1> QED
  BY <1>1, <1>2, <1>3, <1>4, <1>5, <1>6, <1>7, <1>8, <1>9, <1>10 DEF Next

\* Whatever step is taken, nothing is visited again; and a step that saves
\* nothing passes no candidates that succeed, if failures blame what is at fault.
LEMMA PassedStep ==
  ASSUME SearchTypeOK, LoopInv, Next, ~Success, NEW q \in Candidates
  PROVE  /\ Passed(q) => Passed(q)'
         /\ PruneSound /\ q \in Successes /\ Passed(q)' => Passed(q)
<1> USE DEF Passed, PassedBy, Before2, Before3, Before4
<1>0. /\ q[1] \in Nat /\ q[2] \in Nat /\ q[3] \in Nat /\ q[4] \in Nat
      /\ q[1] < q[2] /\ q[2] < q[3] /\ q[3] < q[4] /\ q[4] < n
  BY QuadParts DEF Candidates, Blobs
<1>00. i \in Nat /\ j \in Nat /\ k \in Nat /\ l \in Nat /\ n \in Nat
  BY DEF SearchTypeOK
<1>1. CASE LoopI
  <2>1. /\ pc = "i" /\ i' = i /\ saved' = saved /\ Len(saved) # MaxSaved
        /\ \/ pc' = "j" /\ j' = i + 1
           \/ i >= n /\ pc' = "done"
    BY <1>00, <1>1 DEF LoopI, LoopInv
  <2> QED
    BY <1>0, <1>00, <2>1
<1>2. CASE LoopJ
  <2>1. /\ pc = "j" /\ i' = i /\ j' = j /\ found_count' = 0
        /\ \/ pc' = "k" /\ k' = j + 1
           \/ j >= n /\ pc' = "afterJ"
    BY <1>2, <1>00 DEF LoopJ, LoopInv, SearchTypeOK
  <2> QED
    BY <1>0, <1>00, <2>1
<1>3. CASE LoopK
  <2>1. /\ pc = "k" /\ i' = i /\ j' = j /\ k' = k /\ j < k
        /\ \/ pc' = "l" /\ l' = k + 1
           \/ k >= n /\ pc' = "afterK" /\ found_count' = KFound
    BY <1>3, <1>00 DEF LoopK, LoopInv, SearchTypeOK
  <2> QED
    BY <1>0, <1>00, <2>1 DEF KFound
<1>4. CASE LoopL
  <2>1. /\ pc = "l" /\ i' = i /\ j' = j /\ k' = k /\ j < k /\ k < l /\ l >= n
        /\ pc' = "afterL" /\ found_count' = IF l = k + 1 THEN KFound ELSE -2
    BY <1>4, <1>00 DEF LoopL, LoopInv, SearchTypeOK, counters
  <2> QED
    BY <1>0, <1>00, <2>1 DEF KFound
<1>6. CASE Failure
  <2>1. counters \in Candidates
    BY <1>6, CountersAreCandidates DEF Failure, SearchTypeOK, LoopInv
  <2>2. check[counters] \in {0, -1, -2, -3}
    BY <1>6, <2>1 DEF Failure, Candidates, SearchTypeOK, Codes
  <2>3. PruneSound /\ q \in Successes => ~Blamed(check[counters], q, counters)
    BY <1>6, <2>1 DEF Failure, PruneSound, Successes
  <2>4. CASE check[counters] = -3
    <3>1. PruneSound /\ q \in Successes =>
            ~(q[1] = i /\ q[2] = j /\ q[3] = k /\ q[4] = l)
      BY <2>3, <2>4 DEF Blamed, counters
    <3>2. /\ pc = "l" /\ pc' = "l" /\ i' = i /\ j' = j /\ k' = k /\ l' = l + 1
      BY <1>6, <2>4 DEF Failure
    <3> QED
      BY <1>0, <1>00, <3>1, <3>2
  <2>5. CASE check[counters] # -3
    <3>1. PruneSound /\ q \in Successes =>
            \/ q[1] # i
            \/ check[counters] <= -1 /\ q[2] # j
            \/ check[counters] <= -2 /\ q[3] # k
      BY <2>2, <2>3, <2>5 DEF Blamed, counters
    <3>2. /\ pc = "l" /\ pc' = "afterL" /\ i' = i /\ j' = j /\ k' = k
          /\ found_count' = check[counters]
      BY <1>6, <2>5 DEF Failure
    <3> QED
      BY <1>0, <1>00, <2>2, <2>5, <3>1, <3>2
  <2> QED
    BY <2>4, <2>5
<1>7. CASE AfterL
  <2>1. /\ pc = "afterL" /\ i' = i /\ j' = j /\ l' = l
        /\ \/ found_count = -2 /\ pc' = "k" /\ k' = k + 1
           \/ pc' = "afterK" /\ k' = k /\ found_count' = found_count
    BY <1>7 DEF AfterL
  <2> QED
    BY <1>0, <1>00, <2>1
<1>8. CASE AfterK
  <2>1. /\ pc = "afterK" /\ i' = i /\ k' = k /\ l' = l
        /\ \/ found_count = -1 /\ pc' = "j" /\ j' = j + 1
           \/ pc' = "afterJ" /\ j' = j /\ found_count' = found_count
    BY <1>8 DEF AfterK
  <2> QED
    BY <1>0, <1>00, <2>1
<1>9. CASE AfterJ
  <2>1. /\ pc = "afterJ" /\ j' = j /\ k' = k /\ l' = l /\ saved' = saved
        /\ \/ found_count = 4 /\ Len(saved) = MaxSaved /\ pc' = "done" /\ i' = i
           \/ found_count = 0 /\ pc' = "i" /\ i' = i + 1
    BY <1>9 DEF AfterJ, LoopInv
  <2> QED
    BY <1>0, <1>00, <2>1
<1> QED
  BY <1>1, <1>2, <1>3, <1>4, <1>6, <1>7, <1>8, <1>9 DEF Next

\* A step that saves passes the candidates it saves, and no others.
LEMMA PassedSuccess ==
  ASSUME SearchTypeOK, LoopInv, Success, NEW q \in Candidates
  PROVE  Passed(q)' <=> Passed(q) \/ q = counters
<1>0. /\ q = <<q[1], q[2], q[3], q[4]>>
      /\ q[1] \in Nat /\ q[2] \in Nat /\ q[3] \in Nat /\ q[4] \in Nat
  BY QuadParts DEF Candidates, Blobs
<1>1. q = counters <=> q[1] = i /\ q[2] = j /\ q[3] = k /\ q[4] = l
  BY <1>0 DEF counters
<1>2. /\ pc = "l" /\ i' = i /\ j' = j /\ k' = k
      /\ \/ found_count' = 4 /\ pc' = "afterL" /\ l' = l
         \/ found_count' = -2 /\ pc' = "l" /\ l' = l + 1
  BY DEF Success
<1>3. i \in Nat /\ j \in Nat /\ k \in Nat /\ l \in Nat
  BY DEF SearchTypeOK
<1>4. Passed(q) <=> Before4(q, i, j, k, l)
  BY <1>2 DEF Passed
<1>5. Passed(q)' <=> Before4(q, i, j, k, l + 1)
  BY <1>2, <1>3 DEF Passed, PassedBy, Before2, Before3, Before4
<1>6. Before4(q, i, j, k, l + 1) <=>
        Before4(q, i, j, k, l) \/ (q[1] = i /\ q[2] = j /\ q[3] = k /\ q[4] = l)
  BY <1>0, <1>3 DEF Before4
<1> QED
  BY <1>1, <1>4, <1>5, <1>6

\* The second part of the invariant, about the list.
ListInv == SavedInOrder /\ FoundPassed /\ PassedFound

LEMMA ListInit == Init => ListInv
<1> SUFFICES ASSUME Init PROVE ListInv
  OBVIOUS
<1>1. SavedInOrder /\ FoundPassed
  BY DEF Init, SavedInOrder, FoundPassed, Found
<1>2. \A q \in Candidates : ~Passed(q)
  BY QuadParts DEF Init, Passed, Candidates, Blobs
<1> QED
  BY <1>1, <1>2 DEF ListInv, PassedFound, Successes

\* A step that saves nothing.
LEMMA ListStepSame ==
  ASSUME IInv, Next, ~Success
  PROVE  ListInv'
<1>1. UNCHANGED <<input, saved>>
  BY DEF Next, LoopI, LoopJ, LoopK, LoopL, Failure, AfterL, AfterK, AfterJ
<1>2. /\ Candidates' = Candidates /\ Successes' = Successes /\ Found' = Found
      /\ PruneSound' <=> PruneSound
  BY <1>1 DEF input, Candidates, Successes, Found, PruneSound
<1>3. SavedInOrder'
  BY <1>1, <1>2 DEF IInv, SavedInOrder
<1>4. \A q \in Candidates : /\ Passed(q) => Passed(q)'
                            /\ PruneSound /\ q \in Successes /\ Passed(q)' => Passed(q)
  BY PassedStep DEF IInv
<1>5. FoundPassed'
  <2> SUFFICES ASSUME NEW s \in 1..Len(saved) PROVE Passed(saved[s])'
    BY <1>1 DEF FoundPassed
  <2>1. saved[s] \in Candidates
    BY DEF IInv, SavedInOrder, Found, Successes
  <2>2. Passed(saved[s])
    BY DEF IInv, FoundPassed
  <2> QED
    BY <1>1, <1>4, <2>1, <2>2
<1>6. PassedFound'
  BY <1>2, <1>4 DEF IInv, PassedFound, Successes
<1> QED
  BY <1>3, <1>5, <1>6 DEF ListInv

\* A step that saves.  What was found is passed, hence comes before the
\* counters, so that the list stays in order.
LEMMA ListStepSuccess ==
  ASSUME IInv, Success
  PROVE  ListInv'
<1>1. /\ counters \in Successes /\ UNCHANGED input
      /\ saved' = Append(saved, counters) /\ saved \in Seq(Quads)
  BY CountersAreCandidates DEF IInv, Success, SearchTypeOK, LoopInv, Successes
<1>2. /\ Candidates' = Candidates /\ Successes' = Successes
      /\ PruneSound' <=> PruneSound
  BY <1>1 DEF input, Candidates, Successes, PruneSound
<1>3. counters \in Quads
  BY <1>1 DEF Successes, Candidates
<1>4. /\ Len(saved') = Len(saved) + 1 /\ Len(saved) \in Nat
      /\ saved'[Len(saved) + 1] = counters
      /\ \A s \in 1..Len(saved) : saved'[s] = saved[s]
  BY <1>1, <1>3
<1>5. Found' = Found \cup {counters}
  BY <1>4 DEF Found
<1>6. \A q \in Candidates : Passed(q)' <=> Passed(q) \/ q = counters
  BY PassedSuccess DEF IInv
<1>7. \A s \in 1..Len(saved) : saved[s] \in Successes /\ Passed(saved[s])
  BY DEF IInv, SavedInOrder, Found, FoundPassed
<1>8. \A q \in Candidates : Passed(q) => Before(q, counters)
  BY QuadParts DEF Success, Passed, Before, Before2, Before3, Before4, counters, Candidates
<1>9. SavedInOrder'
  <2>1. Found' \subseteq Successes'
    BY <1>1, <1>2, <1>5 DEF IInv, SavedInOrder
  <2>2. \A s, t \in 1..Len(saved') : s < t => Before(saved'[s], saved'[t])
    <3> SUFFICES ASSUME NEW s \in 1..Len(saved'), NEW t \in 1..Len(saved'), s < t
                 PROVE  Before(saved'[s], saved'[t])
      OBVIOUS
    <3>1. CASE t = Len(saved) + 1
      BY <1>4, <1>7, <1>8, <3>1 DEF Successes
    <3>2. CASE t # Len(saved) + 1
      BY <1>4, <3>2 DEF IInv, SavedInOrder
    <3> QED
      BY <3>1, <3>2
  <2> QED
    BY <2>1, <2>2 DEF SavedInOrder, Before
<1>10. FoundPassed'
  <2>1. \A s \in 1..Len(saved') :
          saved'[s] \in Candidates /\ (Passed(saved'[s]) \/ saved'[s] = counters)
    BY <1>1, <1>4, <1>7 DEF Successes
  <2> QED
    BY <1>6, <2>1 DEF FoundPassed, Passed, PassedBy, Before2, Before3, Before4
<1>11. PassedFound'
  BY <1>2, <1>5, <1>6 DEF IInv, PassedFound, Successes
<1> QED
  BY <1>9, <1>10, <1>11 DEF ListInv

LEMMA InvStep ==
  ASSUME IInv, [Next]_vars
  PROVE  IInv'
<1>1. SearchTypeOK' /\ LoopInv'
  BY LoopStep DEF IInv
<1>2. CASE Success
  BY <1>1, <1>2, ListStepSuccess DEF IInv, ListInv
<1>3. CASE Next /\ ~Success
  BY <1>1, <1>3, ListStepSame DEF IInv, ListInv
<1>4. CASE UNCHANGED vars
  BY <1>1, <1>4 DEF IInv, SavedInOrder, FoundPassed, PassedFound, Passed, PassedBy, Found,
     Successes, Candidates, PruneSound, vars, input, counters, Before2, Before3, Before4
<1> QED
  BY <1>2, <1>3, <1>4

\* The inductive invariant holds in every reachable state.
THEOREM SearchInvariance == Spec => []IInv
<1>1. Init => IInv
  BY LoopInit, ListInit DEF IInv, ListInv
<1>2. IInv /\ [Next]_vars => IInv'
  BY InvStep
<1> QED
  BY <1>1, <1>2, PTL DEF Spec

\* The counters stay within the candidates, and the list never gets longer
\* than sv_found_arr.
THEOREM SearchTypeCorrect == Spec => []SearchTypeOK
<1>1. IInv => SearchTypeOK
  BY DEF IInv
<1> QED
  BY <1>1, SearchInvariance, PTL

\* Whatever the check returns, the list holds successes, in order, each once.
THEOREM ListInOrder == Spec => []SavedInOrder
<1>1. IInv => SavedInOrder
  BY DEF IInv
<1> QED
  BY <1>1, SearchInvariance, PTL

\* If failures blame only what is at fault, the pruned search returns what the
\* exhaustive one would: the first MaxSaved successes.
THEOREM PruningLosesNothing == Spec => []NoneSkipped
<1>1. IInv => NoneSkipped
  <2> SUFFICES ASSUME IInv, pc = "done", PruneSound, NEW q \in Successes \ Found
               PROVE  Len(saved) = MaxSaved /\ \A p \in Found : Before(p, q)
    BY DEF NoneSkipped
  <2>1. ~Passed(q)
    BY DEF IInv, PassedFound
  <2>2. Len(saved) = MaxSaved /\ ~Before4(q, i, j, k, l + 1)
    BY <2>1 DEF Passed
  <2>3. SUFFICES ASSUME NEW p \in Found PROVE Before(p, q)
    BY <2>2
  <2>4. p \in Candidates /\ Before4(p, i, j, k, l + 1)
    BY <2>2 DEF IInv, FoundPassed, Found, SavedInOrder, Successes, Passed
  <2>5. q \in Candidates
    BY DEF Successes
  <2>6. /\ p \in Quads /\ q \in Quads /\ i \in Nat /\ j \in Nat /\ k \in Nat /\ l \in Nat
    BY <2>4, <2>5 DEF Candidates, IInv, SearchTypeOK
  <2>7. p # q
    OBVIOUS
  <2> QED
    BY <2>2, <2>4, <2>6, <2>7, QuadParts DEF Before, Before2, Before3, Before4, Blobs
<1> QED
  BY <1>1, SearchInvariance, PTL

------------------------------------------------------------------------------
(* The search with the conditions of the code.                             *)

USE TablesAssumption

LEMMA LeastNumber ==
  ASSUME NEW T \in SUBSET Nat, T # {}
  PROVE  Min(T) \in T /\ \A y \in T : Min(T) <= y
<1>1. PICK x \in T : \A y \in T : <<y, x>> \notin OpToRel(<, Nat)
  BY NatLessThanWellFounded, WFMin
<1>2. \A y \in T : ~(y < x)
  BY <1>1 DEF OpToRel
<1>3. \A y \in T : x <= y
  BY <1>2
<1> QED
  BY <1>3 DEF Min

LEMMA GreatestNumber ==
  ASSUME NEW N \in Nat, NEW T \in SUBSET (0..N), T # {}
  PROVE  Max(T) \in T
<1> DEFINE U == {N - y : y \in T}
<1>1. U \in SUBSET Nat /\ U # {}
  <2>1. PICK t \in T : TRUE
    OBVIOUS
  <2>2. N - t \in U
    BY <2>1
  <2> QED BY <2>2
<1>2. Min(U) \in U /\ \A w \in U : Min(U) <= w
  <2> HIDE DEF U
  <2> QED BY <1>1, LeastNumber
<1>3. PICK x \in T : Min(U) = N - x
  BY <1>2
<1>4. \A y \in T : N - x <= N - y
  BY <1>2, <1>3
<1>5. \A y \in T : x >= y
  BY <1>4
<1> QED
  BY <1>5 DEF Max

Conditions(f) ==
  <<check_3(f), equidistance(f), check_5_width(f), check_5_level(f), check_6(f)>>

\* The check succeeds if no condition fails, and blames a blob at which one
\* fails otherwise.
LEMMA CheckBlames ==
  ASSUME NEW f
  PROVE  \/ CheckConditions(f) = 4 /\ \A c \in 1..5 : Conditions(f)[c] = {}
         \/ \E c \in 1..5 : \E s \in Conditions(f)[c] :
              s \in 0..3 /\ CheckConditions(f) = -s
<1> DEFINE failed == {c \in 1..Len(Conditions(f)) : Conditions(f)[c] # {}}
<1>1. Len(Conditions(f)) = 5
  BY DEF Conditions
<1>2. \A c \in 1..5 : Conditions(f)[c] \in SUBSET (0..3)
  BY DEF Conditions, check_3, equidistance, check_5_width, check_5_level, check_6
<1>3. CheckConditions(f) = IF failed = {} THEN 4 ELSE -Min(Conditions(f)[Min(failed)])
  BY DEF CheckConditions, CheckWith, Conditions
<1>4. CASE failed = {}
  BY <1>1, <1>3, <1>4
<1>5. CASE failed # {}
  <2>1. failed \in SUBSET Nat
    BY <1>1
  <2>2. Min(failed) \in failed
    <3> HIDE DEF failed
    <3> QED BY <1>5, <2>1, LeastNumber
  <2>3. /\ Min(failed) \in 1..5 /\ Conditions(f)[Min(failed)] # {}
    BY <1>1, <2>2
  <2>4. Conditions(f)[Min(failed)] \in SUBSET (0..3)
    BY <1>2, <2>3
  <2>5. Conditions(f)[Min(failed)] \in SUBSET Nat
    <3> HIDE DEF failed
    <3> QED BY <2>4
  <2>6. Min(Conditions(f)[Min(failed)]) \in Conditions(f)[Min(failed)]
    BY <2>3, <2>5, LeastNumber
  <2> HIDE DEF failed
  <2> QED
    BY <1>3, <1>5, <2>3, <2>4, <2>6
<1> QED
  BY <1>4, <1>5

\* Among blobs of one width a condition that fails at a blob fails wherever
\* the blobs up to it are the same.
LEMMA BlameHolds ==
  ASSUME NEW w, NEW f, NEW g,
         \A s \in 0..3 : width(f[s]) = w /\ width(g[s]) = w,
         NEW c \in 1..5, NEW s \in Conditions(f)[c], s \in 0..3,
         \A r \in 0..s : g[r] = f[r]
  PROVE  Conditions(g)[c] # {}
<1>1. {width(f[r]) : r \in 0..3} = {w} /\ {width(g[r]) : r \in 0..3} = {w}
  OBVIOUS
<1>2. MaxWidth(f) = MaxWidth(g)
  BY <1>1 DEF MaxWidth
<1>3. g[s] = f[s] /\ (s # 0 => g[s-1] = f[s-1])
  OBVIOUS
<1>4. CASE c = 1
  <2>1. s \in check_3(f)
    BY <1>4 DEF Conditions
  <2>2. s \in check_3(g)
    BY <1>3, <2>1 DEF check_3
  <2> QED BY <1>4, <2>2 DEF Conditions
<1>5. CASE c = 2
  <2>1. s \in equidistance(f)
    BY <1>5 DEF Conditions
  <2>2. s \in equidistance(g)
    BY <1>3, <2>1 DEF equidistance
  <2> QED BY <1>5, <2>2 DEF Conditions
<1>6. CASE c = 3
  <2>1. s \in check_5_width(f)
    BY <1>6 DEF Conditions
  <2>2. s \in check_5_width(g)
    BY <1>2, <1>3, <2>1 DEF check_5_width
  <2> QED BY <1>6, <2>2 DEF Conditions
<1>7. CASE c = 4
  <2>1. s \in check_5_level(f)
    BY <1>7 DEF Conditions
  <2>2. s \in check_5_level(g)
    BY <1>2, <1>3, <2>1 DEF check_5_level
  <2> QED BY <1>7, <2>2 DEF Conditions
<1>8. CASE c = 5
  <2>1. s \in check_6(f)
    BY <1>8 DEF Conditions
  <2>2. s = 3 /\ g[0] = f[0] /\ g[3] = f[3]
    BY <2>1 DEF check_6
  <2>3. s \in check_6(g)
    BY <2>1, <2>2 DEF check_6
  <2> QED BY <1>8, <2>3 DEF Conditions
<1> QED
  BY <1>4, <1>5, <1>6, <1>7, <1>8

\* What an image's candidates are never changes during the search.
CheckInv ==
  check = [q \in Quads |->
             IF q[4] < n THEN CheckConditions(Four(edges, cand, q)) ELSE 0]

\* The search of the code is a search by some check: what is proved for any
\* check holds for it.
THEOREM PlateSearchIsSearch == PlateSpec => Spec /\ []CheckInv
<1>1. PlateInit => Init /\ CheckInv
  <2> SUFFICES ASSUME PlateInit PROVE Init /\ CheckInv
    OBVIOUS
  <2>1. PICK first_run \in BOOLEAN : GetNumberCandidates(first_run)
    BY DEF PlateInit
  <2>2. CheckInv
    BY <2>1 DEF GetNumberCandidates, CheckInv
  <2>3. check \in [Quads -> Codes]
    <3> SUFFICES ASSUME NEW q \in Quads, q[4] < n
                 PROVE  CheckConditions(Four(edges, cand, q)) \in Codes
      BY <2>2 DEF CheckInv, Codes
    <3> QED
      BY CheckBlames DEF Codes
  <2>4. n \in 0..MaxBlobs
    <3> DEFINE E == Eligible(edges, first_run)
               fits == {b \in 0..Len(edges) : Cardinality(E \cap 1..b) <= MaxBlobs}
    <3>1. Len(edges) \in Nat
      BY DEF PlateInit
    <3>2. \A b \in Nat : IsFiniteSet(E \cap 1..b) /\ Cardinality(E \cap 1..b) \in Nat
      <4> TAKE b \in Nat
      <4> HIDE DEF E
      <4>1. IsFiniteSet(1..b)
        BY FS_Interval
      <4>2. IsFiniteSet(E \cap 1..b)
        BY <4>1, FS_Intersection
      <4> QED BY <4>2, FS_CardinalityType
    <3>3. E \cap 1..0 = {}
      OBVIOUS
    <3>4. 0 \in fits
      <4>1. Cardinality(E \cap 1..0) = 0
        BY <3>3, FS_EmptySet
      <4> QED BY <3>1, <4>1
    <3>5. Max(fits) \in fits
      <4> HIDE DEF fits
      <4> QED BY <3>1, <3>4, GreatestNumber DEF fits
    <3>6. n = Cardinality(E \cap 1..Max(fits))
      BY <2>1 DEF GetNumberCandidates, Kept
    <3>7. Max(fits) \in Nat /\ Cardinality(E \cap 1..Max(fits)) <= MaxBlobs
      <4>1. \A b \in fits : b \in Nat /\ Cardinality(E \cap 1..b) <= MaxBlobs
        BY <3>1
      <4> HIDE DEF E, fits
      <4> QED BY <3>5, <4>1
    <3> HIDE DEF E, fits
    <3>8. Cardinality(E \cap 1..Max(fits)) \in Nat
      BY <3>2, <3>7
    <3> QED
      BY <3>6, <3>7, <3>8
  <2> QED
    BY <2>2, <2>3, <2>4 DEF PlateInit, Init
<1>2. CheckInv /\ [PlateNext]_plateVars => [Next]_vars /\ CheckInv'
  <2> SUFFICES ASSUME CheckInv, [PlateNext]_plateVars PROVE [Next]_vars /\ CheckInv'
    OBVIOUS
  <2>1. CASE get_check_cond
    <3>1. Next /\ UNCHANGED <<input, edges, cand>>
      BY <2>1 DEF get_check_cond, Next, LoopI, LoopJ, LoopK, LoopL, Success, Failure,
        AfterL, AfterK, AfterJ
    <3> QED BY <3>1 DEF CheckInv, input
  <2>2. CASE Choose \/ UNCHANGED plateVars
    <3>1. UNCHANGED <<vars, edges, cand>>
      BY <2>2 DEF Choose, plateVars
    <3> QED BY <3>1 DEF CheckInv, vars, input
  <2> QED
    BY <2>1, <2>2 DEF PlateNext
<1> QED
  BY <1>1, <1>2, PTL DEF PlateSpec, Spec

\* Among candidates of one width a failure blames only what is at fault: each
\* condition then depends on blobs up to the one blamed, the width of the widest
\* being everybody's.
LEMMA SameWidthPrunesSoundly ==
  ASSUME SearchTypeOK, CheckInv, SameWidth
  PROVE  PruneSound
<1> SUFFICES ASSUME NEW p \in Candidates, NEW q \in Candidates,
                    check[q] # 4, Blamed(check[q], p, q)
             PROVE  check[p] # 4
  BY DEF PruneSound
<1> DEFINE f == Four(edges, cand, q)
           g == Four(edges, cand, p)
<1>1. check[q] = CheckConditions(f) /\ check[p] = CheckConditions(g)
  BY DEF CheckInv, Candidates
<1>0. PICK c \in 1..5 : \E s \in Conditions(f)[c] : s \in 0..3 /\ check[q] = -s
  BY <1>1, CheckBlames
<1>2. PICK s \in Conditions(f)[c] : s \in 0..3 /\ check[q] = -s
  BY <1>0
<1>3. \A r \in 0..s : g[r] = f[r]
  <2>1. \A r \in 0..s : p[r + 1] = q[r + 1]
    <3> TAKE r \in 0..s
    <3>1. r \in {0, 1, 2, 3} /\ check[q] <= -r
      BY <1>2
    <3> QED BY <3>1 DEF Blamed
  <2> QED
    BY <1>2, <2>1 DEF Four
<1>4. PICK w : \A d \in 1..n : width(edges[cand[d]]) = w
  BY DEF SameWidth
<1>5. \A r \in 0..3 : p[r + 1] + 1 \in 1..n /\ q[r + 1] + 1 \in 1..n
  <2>1. \A x \in Candidates : \A r \in 0..3 : x[r + 1] + 1 \in 1..n
    <3> TAKE x \in Candidates
    <3> TAKE r \in 0..3
    <3>1. /\ x \in Quads /\ x[4] < n /\ n \in Nat
      BY DEF Candidates, SearchTypeOK
    <3>2. /\ x[1] \in Nat /\ x[2] \in Nat /\ x[3] \in Nat /\ x[4] \in Nat
          /\ x[1] < x[2] /\ x[2] < x[3] /\ x[3] < x[4]
      BY <3>1, QuadParts DEF Blobs
    <3>3. /\ x[1] + 1 \in 1..n /\ x[2] + 1 \in 1..n
          /\ x[3] + 1 \in 1..n /\ x[4] + 1 \in 1..n
      BY <3>1, <3>2
    <3>4. r + 1 \in {1, 2, 3, 4}
      OBVIOUS
    <3> QED BY <3>3, <3>4
  <2> QED BY <2>1
<1>6. \A r \in 0..3 : width(f[r]) = w /\ width(g[r]) = w
  BY <1>4, <1>5 DEF Four
<1>7. Conditions(g)[c] # {}
  <2> HIDE DEF f, g
  <2> QED BY <1>2, <1>3, <1>6, BlameHolds
<1> QED
  BY <1>1, <1>7, CheckBlames

\* Among candidates of one width the list is full or holds every plate, for any
\* blobs and any number of them.
THEOREM SameWidthLosesNothing == PlateSpec => []SameWidthFindsAll
<1>1. IInv /\ NoneSkipped /\ CheckInv => SameWidthFindsAll
  <2> SUFFICES ASSUME IInv, NoneSkipped, CheckInv, pc = "done", SameWidth,
                      Len(saved) # MaxSaved
               PROVE  Successes \subseteq Found
    BY DEF SameWidthFindsAll
  <2>1. PruneSound
    BY SameWidthPrunesSoundly DEF IInv
  <2> QED
    BY <2>1 DEF NoneSkipped
<1> QED
  BY <1>1, PlateSearchIsSearch, SearchInvariance, PruningLosesNothing, PTL

------------------------------------------------------------------------------
(* The retries.                                                            *)

Third == <<3, Fine>>
Ended == stage \in {"return", "report"}

\* The plate type decides which part of the code runs, on which image.
CallInv ==
  /\ stage = "idle" => th_index = 1
  /\ stage # "idle" =>
       /\ src \in Images /\ blur_index \in BlurRange
       /\ caller = "HDS2" => nPlateType = 4
       /\ nPlateType = 4 => th_index = 1
  /\ stage = "round" => ret # 1
  /\ stage \in {"box", "numbers"} => nPlateType = 4
  /\ stage = "box" => labelled \in Settings
  /\ Ended /\ nPlateType = 3 => ret # 1

\* Type 1: the settings before the current one show no digits, the current one
\* does if it is a success.
Earlier(b, t) == b < blur_index \/ (b = blur_index /\ t < th_index)
DigitsInv ==
  nPlateType = 1 =>
    /\ stage = "round" \/ (Ended /\ ret = 1) =>
         \A b \in BlurRange, t \in 1..Len(Thresholds) :
           Earlier(b, t) => <<b, Thresholds[t]>> \notin src.digits
    /\ Ended /\ ret = 1 => found_arr = labelled /\ labelled = Current /\ Current \in src.digits
    /\ Ended /\ ret # 1 =>
         \A b \in BlurRange, t \in 1..Len(Thresholds) : <<b, Thresholds[t]>> \notin src.digits

\* Type 4: no earlier round showed a box, nor have the attempts of this one;
\* and after a round without success the two last settings show no digits.
RoundSetting == <<blur_index, Thresholds[1]>>
NoBoxBefore == \A b \in BlurRange : b < blur_index => <<b, Thresholds[1]>> \notin src.box
NothingFound == {Second, Third} \cap src.box = {} /\ {First, Second} \cap src.digits = {}
BoxInv ==
  nPlateType = 4 =>
    /\ stage # "idle" => NoBoxBefore
    /\ stage = "round" /\ blur_index > BlurStart(caller) => NothingFound
    /\ stage = "box" =>
         /\ IF try = 1 THEN labelled = RoundSetting ELSE RoundSetting \notin src.box
         /\ try = 3 => Second \notin src.box
    /\ stage = "numbers" =>
         /\ ret = 1 => box \in src.box /\ box \in {RoundSetting, Second, Third}
         /\ ret # 1 => box = None /\ {RoundSetting, Second, Third} \cap src.box = {}
    /\ Ended =>
         /\ box # None => box \in src.box /\ box \in {RoundSetting, Second, Third}
         /\ box = None => {RoundSetting, Second, Third} \cap src.box = {}
         /\ ret = 1 <=> box # None \/ {First, Second} \cap src.digits # {}
         /\ ret # 1 => \A b \in BlurRange : <<b, Thresholds[1]>> \notin src.box

\* Type 4: after the last attempts found_arr is -1 or renewed; renewed only by a
\* success.
FoundInv ==
  Ended /\ nPlateType = 4 =>
    /\ found_arr # None => ret = 1 /\ found_arr = labelled /\ labelled \in src.digits
    /\ ret = 1 /\ box = None => found_arr # None

RetryInv == RetryTypeOK /\ CallInv /\ DigitsInv /\ BoxInv /\ FoundInv
USE DEF PlateTypes, BlurTypes

\* The thresholds are among those that make a setting.
LEMMA ThresholdSettings ==
  /\ Len(Thresholds) \in Nat /\ Len(Thresholds) >= 1
  /\ \A b \in 0..3, t \in 1..Len(Thresholds) : <<b, Thresholds[t]>> \in Settings
  /\ First \in Settings /\ Second \in Settings /\ Third \in Settings
PROOF
  <1>1. Len(Thresholds) \in Nat /\ Len(Thresholds) >= 1
    BY ThresholdsAssumption
  <1>2. \A t \in 1..Len(Thresholds) : Thresholds[t] \in Cannys
    BY <1>1, ThresholdsAssumption DEF Cannys
  <1>3. Usual \in Cannys /\ Fine \in Cannys
    BY DEF Cannys
  <1>4. QED
    BY <1>1, <1>2, <1>3 DEF Settings, First, Second, Third

\* The rounds of a call are among the four blurs, the first one included.
LEMMA BlurBounds ==
  ASSUME RetryTypeOK, NEW c \in {"HDS", "HDS2"}
  PROVE  /\ BlurStart(c) \in 0..1 /\ BlurEnd(c) \in {1, 4} /\ BlurStart(c) < BlurEnd(c)
PROOF
  BY DEF RetryTypeOK, BlurStart, BlurEnd, BlurType

\* The two ways on from a round that failed.
LEMMA NextBlurStep ==
  ASSUME RetryTypeOK, blur_index \in BlurRange, NextBlur
  PROVE  /\ th_index' = 1
         /\ \/ stage' = "round" /\ blur_index' = blur_index + 1 /\ blur_index' \in BlurRange
            \/ stage' = "return" /\ blur_index' = blur_index /\ blur_index = BlurEnd(caller) - 1
PROOF
  <1>1. caller \in {"HDS", "HDS2"}
    BY DEF RetryTypeOK
  <1>2. BlurStart(caller) \in 0..1 /\ BlurEnd(caller) \in {1, 4}
    BY <1>1, BlurBounds
  <1>3. QED
    BY <1>2 DEF NextBlur, BlurRange

------------------------------------------------------------------------------
(* Type correctness.                                                       *)

\* The constructor leaves the indices anywhere; Old stands for them.
LEMMA TypeInit == RetryInit => RetryTypeOK
PROOF
  BY ThresholdSettings DEF RetryInit, RetryTypeOK

\* Two actions enter GetNumberArea, with any image or none.
LEMMA EnterType ==
  ASSUME RetryTypeOK, NEW c \in {"HDS", "HDS2"}, NEW m \in Images \cup {None}, Enter(c, m)
  PROVE  RetryTypeOK'
PROOF
  <1>1. BlurStart(c) \in 0..1
    BY BlurBounds
  <1>2. blur_index' \in 0..3 /\ ret' \in {-1, 0, 1} /\ stage' \in {stage, "round"}
    BY <1>1 DEF Enter, RetryTypeOK
  <1>3. QED
    BY <1>2 DEF Enter, RetryTypeOK, options, tables

\* The loop over the blurs stays within its four.
LEMMA NextBlurType ==
  ASSUME RetryTypeOK, blur_index \in BlurRange, NextBlur
  PROVE  stage' \in {"round", "return"} /\ blur_index' \in 0..3 /\ th_index' \in 1..Len(Thresholds)
PROOF
  <1>1. BlurStart(caller) \in 0..1 /\ BlurEnd(caller) \in {1, 4}
    BY BlurBounds DEF RetryTypeOK
  <1>2. QED
    BY <1>1, NextBlurStep, ThresholdSettings DEF BlurRange

\* No step leaves the types.  CallInv is needed for FindBox, which measures the
\* labelling it is given.
LEMMA TypeStep == RetryTypeOK /\ CallInv /\ [RetryNext]_retryVars => RetryTypeOK'
PROOF
  <1> SUFFICES ASSUME RetryTypeOK, CallInv, [RetryNext]_retryVars
               PROVE  RetryTypeOK'
    OBVIOUS
  <1> USE ThresholdSettings
  <1>1. ASSUME NEW f \in Images \cup {Broken}, TestFile(f)
        PROVE  RetryTypeOK'
    BY <1>1, EnterType DEF TestFile, OpenSrcImageFile, RetryTypeOK
  <1>2. ASSUME NEW m \in Images \cup {None}, TestSelection(m)
        PROVE  RetryTypeOK'
    BY <1>2, EnterType DEF TestSelection
  <1>3. CASE ChangeOptions
    BY <1>3 DEF ChangeOptions, RetryTypeOK, call, loops, tables
  <1>4. CASE TryDigits
    <2>1. Current \in Settings /\ blur_index \in BlurRange
      BY <1>4 DEF TryDigits, Current, RetryTypeOK, CallInv
    <2>2. NextSetting =>
            stage' \in {stage, "round", "return"} /\ blur_index' \in 0..3 /\ th_index' \in 1..Len(Thresholds)
      BY <2>1, NextBlurType DEF NextSetting, RetryTypeOK
    <2>3. QED
      BY <1>4, <2>1, <2>2 DEF TryDigits, RetryTypeOK, options, call
  <1>5. CASE TryLines
    <2>1. Current \in Settings /\ blur_index \in BlurRange
      BY <1>5 DEF TryLines, Current, RetryTypeOK, CallInv
    <2>2. QED
      BY <1>5, <2>1, NextBlurType DEF TryLines, RetryTypeOK, options, call
  <1>6. CASE TryHDS
    <2>1. Current \in Settings
      BY <1>6 DEF TryHDS, Current, RetryTypeOK
    <2>2. QED
      BY <1>6, <2>1 DEF TryHDS, RetryTypeOK, options, call
  <1>7. CASE FindBox
    <2>1. labelled' \in Settings
      BY <1>7 DEF FindBox, BoxSetting, CallInv, Second, Third
    <2>2. try' \in 1..3 /\ stage' \in {"box", "numbers"}
      BY <1>7 DEF FindBox, RetryTypeOK
    <2>3. QED
      BY <1>7, <2>1, <2>2 DEF FindBox, RetryTypeOK, options, call
  <1>8. CASE FindNumbers
    <2>1. labelled' \in Settings
      BY <1>8 DEF FindNumbers
    <2>2. blur_index \in BlurRange
      BY <1>8 DEF FindNumbers, CallInv
    <2>3. stage' \in {"round", "return"} /\ blur_index' \in 0..3 /\ th_index' \in 1..Len(Thresholds)
      BY <1>8, <2>2, NextBlurType DEF FindNumbers, RetryTypeOK
    <2>4. QED
      BY <1>8, <2>1, <2>3 DEF FindNumbers, RetryTypeOK, options, call
  <1>9. CASE Return \/ Report
    BY <1>9 DEF Return, Report, RetryTypeOK, options, call, loops, tables, Aged
  <1>10. CASE UNCHANGED retryVars
    BY <1>10 DEF retryVars, options, call, loops, tables, RetryTypeOK
  <1>11. QED
    BY <1>1, <1>2, <1>3, <1>4, <1>5, <1>6, <1>7, <1>8, <1>9, <1>10 DEF RetryNext, Detect

------------------------------------------------------------------------------
(* The invariant.                                                          *)

Facts == CallInv /\ DigitsInv /\ BoxInv /\ FoundInv

\* While a call runs neither the options nor the image changes, hence not the
\* range of its rounds.
LEMMA RangeStays ==
  UNCHANGED <<options, call>> =>
    /\ BlurRange' = BlurRange /\ BlurStart(caller)' = BlurStart(caller)
    /\ src' = src /\ nPlateType' = nPlateType /\ caller' = caller
PROOF
  BY DEF options, call, BlurRange, BlurStart, BlurEnd, BlurType

\* Between calls nothing is claimed.
LEMMA IdleStep ==
  ASSUME Facts, stage = "idle", stage' = "idle", UNCHANGED th_index
  PROVE  Facts'
PROOF
  BY DEF Facts, CallInv, DigitsInv, BoxInv, FoundInv, Ended

\* At the first round there is no earlier one.
LEMMA EnterStep ==
  ASSUME RetryInv, stage = "idle", NEW c \in {"HDS", "HDS2"}, NEW m \in Images \cup {None},
         Enter(c, m), c = "HDS2" => nPlateType = 4
  PROVE  Facts'
PROOF
  <1>1. CASE m = None
    BY <1>1, IdleStep DEF Enter, RetryInv, Facts
  <1>2. CASE m # None
    <2>1. /\ stage' = "round" /\ caller' = c /\ src' = m /\ src' \in Images /\ th_index' = 1
          /\ blur_index' = BlurStart(c) /\ ret' = 0
          /\ nPlateType' = nPlateType /\ nBlurType' = nBlurType
      BY <1>2 DEF Enter, RetryInv, CallInv, options
    <2>2. BlurRange' = BlurStart(c)..(BlurEnd(c) - 1) /\ BlurStart(caller)' = BlurStart(c)
      BY <2>1 DEF BlurRange, BlurStart, BlurEnd, BlurType
    <2>3. BlurStart(c) \in 0..1 /\ BlurEnd(c) \in {1, 4} /\ BlurStart(c) < BlurEnd(c)
      BY BlurBounds DEF RetryInv
    <2>4. CallInv'
      BY <2>1, <2>2, <2>3 DEF CallInv, Ended
    <2>5. DigitsInv'
      BY <2>1, <2>2, <2>3 DEF DigitsInv, Earlier, Ended
    <2>6. BoxInv'
      BY <2>1, <2>2, <2>3 DEF BoxInv, NoBoxBefore, Ended
    <2>7. FoundInv'
      BY <2>1 DEF FoundInv, Ended
    <2>8. QED
      BY <2>4, <2>5, <2>6, <2>7 DEF Facts
  <1>3. QED
    BY <1>1, <1>2

\* Type 1: the setting that failed is added to those that show nothing.
LEMMA TryDigitsStep == ASSUME RetryInv, TryDigits PROVE Facts'
PROOF
  <1> USE DEF RetryInv
  <1>1. /\ stage = "round" /\ nPlateType = 1 /\ ret # 1 /\ labelled' = Current
        /\ src \in Images /\ blur_index \in BlurRange
        /\ caller # "HDS2"
    BY DEF TryDigits, CallInv
  <1>2. /\ BlurRange' = BlurRange /\ src' = src /\ nPlateType' = 1 /\ caller' = caller
    BY <1>1, RangeStays DEF TryDigits
  <1>3. /\ blur_index \in 0..3 /\ th_index \in 1..Len(Thresholds) /\ Len(Thresholds) \in Nat
        /\ BlurRange \subseteq Int
        /\ \A b \in BlurRange : b < BlurEnd(caller)
    BY BlurBounds, ThresholdSettings DEF RetryTypeOK, BlurRange
  <1>4. \A b \in BlurRange, t \in 1..Len(Thresholds) :
          Earlier(b, t) => <<b, Thresholds[t]>> \notin src.digits
    BY <1>1 DEF DigitsInv
  <1>5. CASE Current \in src.digits
    <2>1. /\ found_arr' = Current /\ ret' = 1 /\ stage' = "return"
          /\ blur_index' = blur_index /\ th_index' = th_index
      BY <1>5 DEF TryDigits
    <2>2. DigitsInv'
      BY <1>1, <1>2, <1>4, <1>5, <2>1 DEF DigitsInv, Earlier, Ended, Current
    <2>3. CallInv' /\ BoxInv' /\ FoundInv'
      BY <1>1, <1>2, <2>1 DEF CallInv, BoxInv, FoundInv, Ended
    <2>4. QED
      BY <2>2, <2>3 DEF Facts
  <1>6. CASE Current \notin src.digits
    <2>1. ret' = -1 /\ NextSetting
      BY <1>6 DEF TryDigits
    <2>2. \A b \in BlurRange, t \in 1..Len(Thresholds) :
            Earlier(b, t) \/ (b = blur_index /\ t = th_index) => <<b, Thresholds[t]>> \notin src.digits
      BY <1>4, <1>6 DEF Current
    <2>3. CASE th_index < Len(Thresholds)
      <3>1. th_index' = th_index + 1 /\ stage' = "round" /\ blur_index' = blur_index
        BY <1>1, <2>1, <2>3 DEF NextSetting
      <3>2. \A b \in BlurRange, t \in 1..Len(Thresholds) :
              Earlier(b, t)' => Earlier(b, t) \/ (b = blur_index /\ t = th_index)
        BY <1>3, <3>1 DEF Earlier
      <3>3. DigitsInv'
        BY <1>2, <2>1, <2>2, <3>1, <3>2 DEF DigitsInv, Ended
      <3>4. CallInv' /\ BoxInv' /\ FoundInv'
        BY <1>1, <1>2, <2>1, <3>1 DEF CallInv, BoxInv, FoundInv, Ended
      <3>5. QED
        BY <3>3, <3>4 DEF Facts
    <2>4. CASE th_index = Len(Thresholds)
      <3>1. NextBlur
        BY <2>1, <2>4 DEF NextSetting
      <3>2. /\ th_index' = 1
            /\ \/ stage' = "round" /\ blur_index' = blur_index + 1 /\ blur_index' \in BlurRange
               \/ stage' = "return" /\ blur_index' = blur_index /\ blur_index = BlurEnd(caller) - 1
        BY <1>1, <3>1, NextBlurStep
      <3>3. CallInv' /\ BoxInv' /\ FoundInv'
        BY <1>1, <1>2, <2>1, <3>2 DEF CallInv, BoxInv, FoundInv, Ended
      <3>4. CASE stage' = "round"
        <4>1. \A b \in BlurRange, t \in 1..Len(Thresholds) :
                Earlier(b, t)' => Earlier(b, t) \/ (b = blur_index /\ t = th_index)
          BY <1>3, <2>4, <3>2, <3>4 DEF Earlier
        <4>2. QED
          BY <1>2, <2>1, <2>2, <3>3, <3>4, <4>1 DEF DigitsInv, Ended, Facts
      <3>5. CASE stage' = "return"
        <4>1. \A b \in BlurRange, t \in 1..Len(Thresholds) :
                Earlier(b, t) \/ (b = blur_index /\ t = th_index)
          BY <1>3, <2>4, <3>2, <3>5, BlurBounds DEF Earlier, RetryTypeOK
        <4>2. QED
          BY <1>2, <2>1, <2>2, <3>3, <3>5, <4>1 DEF DigitsInv, Ended, Facts
      <3>6. QED
        BY <3>2, <3>4, <3>5
    <2>5. QED
      BY <1>3, <2>3, <2>4
  <1>7. QED
    BY <1>5, <1>6

\* Type 3 never succeeds.
LEMMA TryLinesStep == ASSUME RetryInv, TryLines PROVE Facts'
PROOF
  <1>1. /\ stage = "round" /\ nPlateType = 3 /\ ret' = ret /\ ret # 1 /\ NextBlur
        /\ src \in Images /\ blur_index \in BlurRange
        /\ caller # "HDS2"
    BY DEF RetryInv, TryLines, CallInv
  <1>2. BlurRange' = BlurRange /\ src' = src /\ nPlateType' = 3 /\ caller' = caller
    BY <1>1, RangeStays DEF TryLines
  <1>3. stage' \in {"round", "return"} /\ blur_index' \in BlurRange
    BY <1>1, NextBlurStep DEF RetryInv
  <1>4. QED
    BY <1>1, <1>2, <1>3 DEF Facts, CallInv, DigitsInv, BoxInv, FoundInv, Ended

\* The first attempt at a box uses the labelling of the round.
LEMMA TryHDSStep == ASSUME RetryInv, TryHDS PROVE Facts'
PROOF
  <1>1. /\ stage = "round" /\ nPlateType = 4 /\ stage' = "box" /\ try' = 1 /\ labelled' = Current
        /\ src \in Images /\ blur_index \in BlurRange /\ th_index = 1 /\ NoBoxBefore
        /\ UNCHANGED <<blur_index, th_index>>
    BY DEF RetryInv, TryHDS, CallInv, BoxInv
  <1>2. BlurRange' = BlurRange /\ src' = src /\ nPlateType' = 4 /\ caller' = caller
    BY <1>1, RangeStays DEF TryHDS
  <1>3. Current = RoundSetting /\ Current \in Settings /\ RoundSetting' = RoundSetting
    BY <1>1, ThresholdSettings DEF Current, RoundSetting, RetryInv, RetryTypeOK
  <1>4. NoBoxBefore'
    BY <1>1, <1>2 DEF NoBoxBefore
  <1>5. QED
    BY <1>1, <1>2, <1>3, <1>4 DEF Facts, CallInv, DigitsInv, BoxInv, FoundInv, Ended

\* A box or digits that an image shows are a setting, which None is not.
LEMMA ShownSettings ==
  \A m \in Images : m.box \subseteq Settings /\ m.digits \subseteq Settings /\ None \notin Settings
PROOF
  BY ImagesAssumption, NamesAssumption

\* An attempt at a box is the round's own setting, the second or the third one.
LEMMA FindBoxStep == ASSUME RetryInv, FindBox PROVE Facts'
PROOF
  <1>1. /\ stage = "box" /\ nPlateType = 4 /\ try \in 1..3 /\ labelled \in Settings
        /\ src \in Images /\ blur_index \in BlurRange /\ th_index = 1 /\ NoBoxBefore
        /\ IF try = 1 THEN labelled = RoundSetting ELSE RoundSetting \notin src.box
        /\ try = 3 => Second \notin src.box
        /\ UNCHANGED <<blur_index, th_index>>
    BY DEF RetryInv, FindBox, CallInv, BoxInv, RetryTypeOK
  <1>2. BlurRange' = BlurRange /\ src' = src /\ nPlateType' = 4 /\ caller' = caller
    BY <1>1, RangeStays DEF FindBox
  <1>3. NoBoxBefore' /\ RoundSetting' = RoundSetting
    BY <1>1, <1>2 DEF NoBoxBefore, RoundSetting
  <1>4. /\ labelled' \in Settings
        /\ try = 1 => labelled' = RoundSetting
        /\ try = 2 => labelled' = Second
        /\ try = 3 => labelled' = Third
    BY <1>1, ThresholdSettings DEF FindBox, BoxSetting, Second, Third
  <1>5. CASE labelled' \in src.box
    <2>1. box' = labelled' /\ ret' = 1 /\ stage' = "numbers"
      BY <1>5 DEF FindBox
    <2>2. box' \in {RoundSetting, Second, Third}
      BY <1>1, <1>4, <2>1
    <2>3. QED
      BY <1>1, <1>2, <1>3, <1>4, <1>5, <2>1, <2>2 DEF Facts, CallInv, DigitsInv, BoxInv, FoundInv, Ended
  <1>6. CASE labelled' \notin src.box
    <2>1. box' = None /\ ret' = -1
      BY <1>6 DEF FindBox
    <2>2. CASE try = 3
      <3>1. stage' = "numbers" /\ {RoundSetting, Second, Third} \cap src.box = {}
        BY <1>1, <1>4, <1>6, <2>1, <2>2 DEF FindBox
      <3>2. QED
        BY <1>1, <1>2, <1>3, <1>4, <2>1, <3>1 DEF Facts, CallInv, DigitsInv, BoxInv, FoundInv, Ended
    <2>3. CASE try # 3
      <3>1. stage' = "box" /\ try' = try + 1 /\ RoundSetting \notin src.box /\ (try' = 3 => Second \notin src.box)
        BY <1>1, <1>4, <1>6, <2>1, <2>3 DEF FindBox
      <3>2. QED
        BY <1>1, <1>2, <1>3, <1>4, <2>1, <3>1 DEF Facts, CallInv, DigitsInv, BoxInv, FoundInv, Ended
    <2>4. QED
      BY <2>2, <2>3
  <1>7. QED
    BY <1>5, <1>6

\* What the round ends with: the result of the box is known, that of the digits
\* is added, and if both have failed one more round is known to show nothing.
LEMMA FindNumbersStep == ASSUME RetryInv, FindNumbers PROVE Facts'
PROOF
  <1>1. /\ stage = "numbers" /\ nPlateType = 4 /\ box' = box
        /\ src \in Images /\ blur_index \in BlurRange /\ th_index = 1 /\ NoBoxBefore
        /\ ret = 1 => box \in src.box /\ box \in {RoundSetting, Second, Third}
        /\ ret # 1 => box = None /\ {RoundSetting, Second, Third} \cap src.box = {}
    BY DEF RetryInv, FindNumbers, CallInv, BoxInv
  <1>2. BlurRange' = BlurRange /\ src' = src /\ nPlateType' = 4 /\ caller' = caller
        /\ BlurStart(caller)' = BlurStart(caller)
    BY <1>1, RangeStays DEF FindNumbers
  <1>3. ret = 1 <=> box # None
    BY <1>1, ShownSettings
  <1>4. /\ labelled' \in src.digits <=> {First, Second} \cap src.digits # {}
        /\ ret' = 1 <=> ret = 1 \/ labelled' \in src.digits
        /\ found_arr' # None => found_arr' = labelled' /\ labelled' \in src.digits
        /\ labelled' \in src.digits => found_arr' = labelled'
    BY DEF FindNumbers
  <1>5. FoundInv'
    BY <1>1, <1>2, <1>3, <1>4, ShownSettings DEF FoundInv
  <1>6. CASE ret' = 1
    <2>1. stage' = "return" /\ UNCHANGED <<blur_index, th_index>>
      BY <1>6 DEF FindNumbers
    <2>2. NoBoxBefore' /\ RoundSetting' = RoundSetting
      BY <1>1, <1>2, <2>1 DEF NoBoxBefore, RoundSetting
    <2>3. BoxInv'
      BY <1>1, <1>2, <1>3, <1>4, <1>6, <2>1, <2>2 DEF BoxInv, Ended
    <2>4. CallInv' /\ DigitsInv'
      BY <1>1, <1>2, <2>1 DEF CallInv, DigitsInv, Ended, RetryInv
    <2>5. QED
      BY <1>5, <2>3, <2>4 DEF Facts
  <1>7. CASE ret' # 1
    <2>1. /\ ret # 1 /\ box = None /\ NothingFound /\ RoundSetting \notin src.box
          /\ {RoundSetting, Second, Third} \cap src.box = {} /\ NextBlur
      BY <1>1, <1>4, <1>7 DEF FindNumbers, NothingFound
    <2>2. /\ th_index' = 1
          /\ \/ stage' = "round" /\ blur_index' = blur_index + 1 /\ blur_index' \in BlurRange
             \/ stage' = "return" /\ blur_index' = blur_index /\ blur_index = BlurEnd(caller) - 1
      BY <1>1, <2>1, NextBlurStep DEF RetryInv
    <2>3. CallInv' /\ DigitsInv'
      BY <1>1, <1>2, <1>7, <2>2 DEF CallInv, DigitsInv, Ended, RetryInv
    <2>4. BlurRange \subseteq Int /\ BlurStart(caller) \in Int /\ BlurEnd(caller) \in Int
      BY BlurBounds DEF BlurRange, RetryInv, RetryTypeOK
    <2>5. CASE stage' = "round"
      <3>1. NoBoxBefore' /\ NothingFound'
        BY <1>1, <1>2, <2>1, <2>2, <2>4, <2>5 DEF NoBoxBefore, NothingFound, RoundSetting
      <3>2. QED
        BY <1>2, <1>5, <2>3, <2>5, <3>1 DEF Facts, BoxInv, Ended
    <2>6. CASE stage' = "return"
      <3>1. NoBoxBefore' /\ RoundSetting' = RoundSetting
        BY <1>1, <1>2, <2>2, <2>6 DEF NoBoxBefore, RoundSetting
      <3>2. \A b \in BlurRange : <<b, Thresholds[1]>> \notin src.box
        BY <1>1, <2>1, <2>2, <2>4, <2>6 DEF NoBoxBefore, RoundSetting, BlurRange
      <3>3. BoxInv'
        BY <1>1, <1>2, <1>4, <1>7, <2>1, <2>6, <3>1, <3>2 DEF BoxInv, Ended
      <3>4. QED
        BY <1>5, <2>3, <3>3 DEF Facts
    <2>7. QED
      BY <2>2, <2>5, <2>6
  <1>8. QED
    BY <1>6, <1>7

\* Returning 0 for -1 changes neither a success nor a failure.
LEMMA ReturnStep == ASSUME RetryInv, Return PROVE Facts'
PROOF
  <1>1. /\ stage = "return" /\ stage' = "report"
        /\ ret' = 1 <=> ret = 1
        /\ UNCHANGED <<blur_index, th_index, labelled, found_arr, box>>
    BY DEF Return, loops, tables
  <1>2. BlurRange' = BlurRange /\ src' = src /\ nPlateType' = nPlateType /\ caller' = caller
    BY RangeStays DEF Return
  <1>3. NoBoxBefore' = NoBoxBefore /\ RoundSetting' = RoundSetting
    BY <1>1, <1>2 DEF NoBoxBefore, RoundSetting
  <1>4. CallInv' /\ FoundInv'
    BY <1>1, <1>2 DEF RetryInv, CallInv, FoundInv, Ended
  <1>5. DigitsInv'
    BY <1>1, <1>2 DEF RetryInv, DigitsInv, Ended, Earlier, Current
  <1>6. BoxInv'
    BY <1>1, <1>2, <1>3 DEF RetryInv, BoxInv, Ended
  <1>7. QED
    BY <1>4, <1>5, <1>6 DEF Facts

\* Before the first call the invariant claims nothing but the types.
LEMMA RetryInvInit == RetryInit => RetryInv
PROOF
  BY TypeInit DEF RetryInit, RetryInv, CallInv, DigitsInv, BoxInv, FoundInv, Ended

\* Every step keeps the invariant.
LEMMA RetryInvStep == RetryInv /\ [RetryNext]_retryVars => RetryInv'
PROOF
  <1> SUFFICES ASSUME RetryInv, [RetryNext]_retryVars
               PROVE  Facts'
    BY TypeStep DEF RetryInv, Facts
  <1>2. ASSUME NEW f \in Images \cup {Broken}, TestFile(f)
        PROVE  Facts'
    <2>1. src \in Images \cup {None}
      BY DEF RetryInv, RetryTypeOK
    <2>2. CASE nPlateType = 4
      BY <1>2, <2>1, <2>2, EnterStep DEF TestFile, OpenSrcImageFile
    <2>3. CASE nPlateType # 4
      BY <1>2, <2>1, <2>3, EnterStep DEF TestFile, OpenSrcImageFile
    <2>4. QED
      BY <2>2, <2>3
  <1>3. ASSUME NEW m \in Images \cup {None}, TestSelection(m)
        PROVE  Facts'
    BY <1>3, EnterStep DEF TestSelection
  <1>4. CASE ChangeOptions
    BY <1>4, IdleStep DEF ChangeOptions, loops, RetryInv, Facts
  <1>5. CASE Report
    BY <1>5 DEF Report, Facts, CallInv, DigitsInv, BoxInv, FoundInv, Ended
  <1>6. CASE UNCHANGED retryVars
    BY <1>6 DEF retryVars, options, call, loops, tables, RetryInv, Facts, CallInv, DigitsInv, BoxInv, FoundInv,
      Ended, BlurRange, BlurStart, BlurEnd, BlurType, Earlier, Current, RoundSetting, NoBoxBefore, NothingFound
  <1>7. QED
    BY <1>2, <1>3, <1>4, <1>5, <1>6, TryDigitsStep, TryLinesStep, TryHDSStep, FindBoxStep,
      FindNumbersStep, ReturnStep DEF RetryNext, Detect

------------------------------------------------------------------------------
(* What the callers can rely on.                                           *)

\* Every variable of the retries keeps to its values, whatever the images,
\* and the loops never leave the table of thresholds.
THEOREM RetryTypeCorrect == RetrySpec => []RetryTypeOK
PROOF
  <1>1. RetryInv => RetryTypeOK
    BY DEF RetryInv
  <1>2. QED
    BY <1>1, RetryInvInit, RetryInvStep, PTL DEF RetrySpec

\* What is read through found_arr after a call are four digits of the labelling
\* that m_EdgeTable holds, but for a selection tested with plate type 4.
THEOREM NumbersAreCurrent == RetrySpec => []NumbersCurrent
PROOF
  <1>1. RetryInv => NumbersCurrent
    <2> SUFFICES ASSUME RetryInv, NumbersRead, ~(caller = "HDS" /\ nPlateType = 4 /\ found_arr = None)
                 PROVE  found_arr = labelled /\ labelled \in src.digits
      BY DEF NumbersCurrent
    <2>1. Ended /\ src \in Images /\ caller \in {"HDS", "HDS2"} /\ nPlateType \in {1, 3, 4}
      BY DEF NumbersRead, Ended, RetryInv, CallInv, RetryTypeOK
    <2>2. CASE nPlateType = 1
      BY <2>1, <2>2 DEF NumbersRead, RetryInv, DigitsInv, CallInv
    <2>3. CASE nPlateType = 3
      BY <2>1, <2>3 DEF NumbersRead, RetryInv, CallInv
    <2>4. CASE nPlateType = 4
      <3>1. found_arr # None
        BY <2>1, <2>4 DEF NumbersRead, RetryInv, FoundInv
      <3>2. QED
        BY <2>1, <2>4, <3>1 DEF RetryInv, FoundInv
    <2>5. QED
      BY <2>1, <2>2, <2>3, <2>4
  <1>2. QED
    BY <1>1, RetryInvInit, RetryInvStep, PTL DEF RetrySpec

\* With plate type 1 the first setting that shows digits is the one that is
\* used, and a failure means that none shows any.
THEOREM FirstWins == RetrySpec => []FirstSettingWins
PROOF
  <1>1. RetryInv => FirstSettingWins
    <2> SUFFICES ASSUME RetryInv, stage = "report", nPlateType = 1
                 PROVE  FirstSettingWins
      BY DEF FirstSettingWins
    <2> DEFINE range == {s \in BlurRange \X (1..Len(Thresholds)) :
                           <<s[1], Thresholds[s[2]]>> \in src.digits}
               here == <<blur_index, th_index>>
    <2>1. /\ blur_index \in BlurRange /\ blur_index \in Int /\ BlurRange \subseteq Int
          /\ th_index \in 1..Len(Thresholds) /\ Len(Thresholds) \in Nat
      BY ThresholdSettings DEF RetryInv, CallInv, RetryTypeOK, BlurRange
    <2>2. CASE ret = 1
      <3>1. \A b \in BlurRange, t \in 1..Len(Thresholds) :
              Earlier(b, t) => <<b, Thresholds[t]>> \notin src.digits
        BY <2>2 DEF RetryInv, DigitsInv, Ended
      <3>2. Current \in src.digits
        BY <2>2 DEF RetryInv, DigitsInv, Ended
      <3>3. here \in range
        BY <2>1, <3>2 DEF Current
      <3>4. \A s \in range : here[1] < s[1] \/ (here[1] = s[1] /\ here[2] <= s[2])
        <4> SUFFICES ASSUME NEW s \in range
                     PROVE  here[1] < s[1] \/ (here[1] = s[1] /\ here[2] <= s[2])
          OBVIOUS
        <4>1. s[1] \in BlurRange /\ s[2] \in 1..Len(Thresholds) /\ <<s[1], Thresholds[s[2]]>> \in src.digits
          OBVIOUS
        <4>2. ~Earlier(s[1], s[2])
          BY <3>1, <4>1
        <4>3. s[1] \in Int
          BY <2>1, <4>1
        <4>4. s[2] \in Int /\ th_index \in Int
          BY <2>1, <4>1
        <4>5. QED
          BY <2>1, <4>2, <4>3, <4>4 DEF Earlier
      <3>5. QED
        BY <2>2, <3>3, <3>4 DEF FirstSettingWins
    <2>3. CASE ret # 1
      <3>1. range = {}
        BY <2>3 DEF RetryInv, DigitsInv, Ended
      <3>2. QED
        BY <2>3, <3>1 DEF FirstSettingWins
    <2>4. QED
      BY <2>2, <2>3
  <1>2. QED
    BY <1>1, RetryInvInit, RetryInvStep, PTL DEF RetrySpec

\* With plate type 4 a call returns success exactly if it leaves a box or digits,
\* the box is one of its image, and no box of the first round or of the two further
\* attempts and no digits of the last two settings are missed.
THEOREM SuccessMeans == RetrySpec => []SuccessLeavesResult
PROOF
  <1>1. RetryInv => SuccessLeavesResult
    <2> SUFFICES ASSUME RetryInv, stage = "report", nPlateType = 4
                 PROVE  SuccessLeavesResult
      BY DEF SuccessLeavesResult
    <2>1. Ended /\ caller \in {"HDS", "HDS2"} /\ RetryTypeOK
      BY DEF Ended, RetryInv, RetryTypeOK
    <2>2. /\ box # None => box \in src.box
          /\ box = None => {RoundSetting, Second, Third} \cap src.box = {}
          /\ ret = 1 <=> box # None \/ {First, Second} \cap src.digits # {}
          /\ ret # 1 => \A b \in BlurRange : <<b, Thresholds[1]>> \notin src.box
      BY <2>1 DEF RetryInv, BoxInv
    <2>3. /\ found_arr # None => ret = 1
          /\ ret = 1 /\ box = None => found_arr # None
      BY <2>1 DEF RetryInv, FoundInv
    <2>4. ret = 1 <=> box # None \/ found_arr # None
      BY <2>2, <2>3
    <2>5. ret # 1 => {Second, Third} \cap src.box = {} /\ {First, Second} \cap src.digits = {}
      BY <2>2
    <2>6. BlurStart(caller) \in BlurRange
      BY <2>1, BlurBounds DEF BlurRange
    <2>7. ret # 1 => <<BlurStart(caller), Thresholds[1]>> \notin src.box
      BY <2>2, <2>6
    <2>8. QED
      BY <2>2, <2>4, <2>5, <2>7 DEF SuccessLeavesResult, Second, Third
  <1>2. QED
    BY <1>1, RetryInvInit, RetryInvStep, PTL DEF RetrySpec
=============================================================================
