----------------------------- MODULE QuadSearch -----------------------------
(***************************************************************************)
(* CCarNumDetect::get_check_cond, the search for the four digits of a      *)
(* number plate among the candidate blobs: four nested loops over the      *)
(* candidates, sorted from right to left, that stop after MaxSaved         *)
(* successes.                                                              *)
(*                                                                         *)
(* The check of four candidates says more than yes or no.  4 is a success; *)
(* -3, -2, -1 and 0 name the loop that has to move on: a pair of blobs     *)
(* that do not fit together fails with all that could follow them.  The    *)
(* code carries this number outwards in found_count, which every loop      *)
(* tests and rewrites when the loop inside it ends, also when that loop    *)
(* has not run at all and found_count is left from an earlier round.       *)
(*                                                                         *)
(* Here the check is any function of the four candidates; the module       *)
(* PlateSearch gives it the conditions of the code.                        *)
(***************************************************************************)
EXTENDS Integers, Sequences

CONSTANTS
  MaxBlobs,  \* candidates; the code has MAX_EDGE_CANDIDATE
  MaxSaved   \* rows of sv_found_arr

ASSUME MaxBlobsAssumption == MaxBlobs \in Nat
ASSUME MaxSavedAssumption == MaxSaved \in Nat \ {0}

VARIABLES
  n,           \* blobCandidateCount
  check,       \* what check_3_4_5_6_condition returns
  pc,          \* the loop at whose head control is, or whose exit it has reached
  i, j, k, l,  \* the loops' counters
  found_count,
  saved        \* the rows of sv_found_arr that are in use

input == <<n, check>>
counters == <<i, j, k, l>>
vars == <<input, pc, counters, found_count, saved>>

Blobs == 0..(MaxBlobs - 1)
Quads == {q \in Blobs \X Blobs \X Blobs \X Blobs : q[1] < q[2] /\ q[2] < q[3] /\ q[3] < q[4]}
Codes == {4, 0, -1, -2, -3}

Init ==
  /\ n \in 0..MaxBlobs
  /\ check \in [Quads -> Codes]
  /\ pc = "i" /\ i = 0 /\ j = 0 /\ k = 0 /\ l = 0
  /\ found_count = 0 /\ saved = <<>>

\* The heads of the three outer loops.
LoopI ==
  /\ pc = "i"
  /\ IF i < n THEN pc' = "j" /\ j' = i + 1 ELSE pc' = "done" /\ UNCHANGED j
  /\ UNCHANGED <<input, i, k, l, found_count, saved>>

LoopJ ==
  /\ pc = "j"
  /\ IF j < n THEN pc' = "k" /\ k' = j + 1 ELSE pc' = "afterJ" /\ UNCHANGED k
  /\ UNCHANGED <<input, i, j, l, found_count, saved>>

LoopK ==
  /\ pc = "k"
  /\ IF k < n THEN pc' = "l" /\ l' = k + 1 ELSE pc' = "afterK" /\ UNCHANGED l
  /\ UNCHANGED <<input, i, j, k, found_count, saved>>

\* Faulty variant: the loop does not move on after a success.
SuccessStays ==
  /\ pc = "l" /\ l < n /\ check[counters] = 4
  /\ saved' = Append(saved, counters)
  /\ IF Len(saved') >= MaxSaved
       THEN found_count' = 4 /\ pc' = "afterL"
       ELSE found_count' = -2 /\ UNCHANGED pc
  /\ UNCHANGED <<input, counters>>

\* A success is saved and the innermost loop goes on, unless the list is full.
Success ==
  /\ pc = "l" /\ l < n /\ check[counters] = 4
  /\ saved' = Append(saved, counters)
  /\ IF Len(saved') >= MaxSaved
       THEN found_count' = 4 /\ pc' = "afterL" /\ UNCHANGED l
       ELSE found_count' = -2 /\ l' = l + 1 /\ UNCHANGED pc
  /\ UNCHANGED <<input, i, j, k>>

\* Faulty variant: a failure that the next blob may mend leaves the loop.
FailureLeaves ==
  /\ pc = "l" /\ l < n /\ check[counters] # 4
  /\ found_count' = (IF check[counters] = -3 THEN -2 ELSE check[counters])
  /\ pc' = "afterL"
  /\ UNCHANGED <<input, counters, saved>>

\* -3 moves the innermost loop on; any other failure leaves it.
Failure ==
  /\ pc = "l" /\ l < n /\ check[counters] # 4
  /\ IF check[counters] = -3
       THEN found_count' = -2 /\ l' = l + 1 /\ UNCHANGED pc
       ELSE found_count' = check[counters] /\ pc' = "afterL" /\ UNCHANGED l
  /\ UNCHANGED <<input, i, j, k, saved>>

LoopL ==
  /\ pc = "l" /\ l >= n
  /\ pc' = "afterL"
  /\ UNCHANGED <<input, counters, found_count, saved>>

\* The tests after each inner loop.  4, a full list, leaves them all.
AfterL ==
  /\ pc = "afterL"
  /\ IF found_count = -2
       THEN found_count' = -1 /\ k' = k + 1 /\ pc' = "k"
       ELSE pc' = "afterK" /\ UNCHANGED <<found_count, k>>
  /\ UNCHANGED <<input, i, j, l, saved>>

AfterK ==
  /\ pc = "afterK"
  /\ IF found_count = -1
       THEN found_count' = 0 /\ j' = j + 1 /\ pc' = "j"
       ELSE pc' = "afterJ" /\ UNCHANGED <<found_count, j>>
  /\ UNCHANGED <<input, i, k, l, saved>>

\* Faulty variant: the outermost loop also goes on after a full list.
AfterJGoesOn ==
  /\ pc = "afterJ"
  /\ i' = i + 1 /\ pc' = "i"
  /\ UNCHANGED <<input, j, k, l, found_count, saved>>

AfterJ ==
  /\ pc = "afterJ"
  /\ IF found_count = 4
       THEN pc' = "done" /\ UNCHANGED i
       ELSE i' = i + 1 /\ pc' = "i"
  /\ UNCHANGED <<input, j, k, l, found_count, saved>>

Next ==
  \/ LoopI \/ LoopJ \/ LoopK \/ LoopL \/ Success \/ Failure
  \/ AfterL \/ AfterK \/ AfterJ

Spec == Init /\ [][Next]_vars

------------------------------------------------------------------------------
(* Properties.                                                             *)

\* Every variable stays in the set of values the code can give it; no counter
\* passes the number of candidates, and sv_found_arr does not overflow.
SearchTypeOK ==
  /\ n \in 0..MaxBlobs /\ check \in [Quads -> Codes]
  /\ pc \in {"i", "j", "k", "l", "afterL", "afterK", "afterJ", "done"}
  /\ i \in 0..n /\ j \in 0..n /\ k \in 0..n /\ l \in 0..n
  /\ found_count \in Codes
  /\ saved \in Seq(Quads) /\ Len(saved) <= MaxSaved

\* `p` comes before `q` in the order in which the loops visit them.
Before(p, q) ==
  \/ p[1] < q[1]
  \/ p[1] = q[1] /\ p[2] < q[2]
  \/ p[1] = q[1] /\ p[2] = q[2] /\ p[3] < q[3]
  \/ p[1] = q[1] /\ p[2] = q[2] /\ p[3] = q[3] /\ p[4] < q[4]

\* `p` begins with as many of the candidates of `q` as the code `c` blames.
Blamed(c, p, q) ==
  /\ p[1] = q[1]
  /\ c <= -1 => p[2] = q[2]
  /\ c <= -2 => p[3] = q[3]
  /\ c <= -3 => p[4] = q[4]

Candidates == {q \in Quads : q[4] < n}
Successes == {q \in Candidates : check[q] = 4}
Found == {saved[s] : s \in 1..Len(saved)}

\* The candidates a failure blames fail with whatever follows them.
PruneSound ==
  \A p, q \in Candidates : check[q] # 4 /\ Blamed(check[q], p, q) => check[p] # 4

\* The list holds successes only, each once, in the order of the loops,
\* whatever the check returns.
SavedInOrder ==
  /\ Found \subseteq Successes
  /\ \A s, t \in 1..Len(saved) : s < t => Before(saved[s], saved[t])

\* If failures blame only what is at fault, the pruning loses nothing: at the
\* end the list holds every success, or it is full and every success that is
\* missing comes after all that are in it.
NoneSkipped ==
  pc = "done" /\ PruneSound =>
    \A q \in Successes \ Found :
      Len(saved) = MaxSaved /\ \A p \in Found : Before(p, q)
==============================================================================
