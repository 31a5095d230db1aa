---------------------------- MODULE DebugMailbox ----------------------------
(***************************************************************************)
(* What the debug channel promises: a FIFO mailbox of dumps.  Dumps carry  *)
(* the numbers 0, 1, 2, ... in the order they were accepted; they are      *)
(* handed out in that order, each at most once and none skipped.           *)
(*                                                                         *)
(* The code has no test for a full ring, so the promise is limited: it     *)
(* ends when Size dumps have been accepted and not handed out.             *)
(***************************************************************************)
EXTENDS Integers, Sequences

CONSTANT Size

VARIABLES
  accepted, \* dumps accepted so far
  handed,   \* dumps handed out, in order
  void      \* the promise has ended

vars == <<accepted, handed, void>>

Init == accepted = 0 /\ handed = <<>> /\ void = FALSE

Accept ==
  /\ ~void /\ accepted - Len(handed) < Size - 1
  /\ accepted' = accepted + 1
  /\ UNCHANGED <<handed, void>>

HandOut ==
  /\ ~void /\ Len(handed) < accepted
  /\ handed' = Append(handed, Len(handed))
  /\ UNCHANGED <<accepted, void>>

Overflow ==
  /\ ~void /\ accepted - Len(handed) = Size - 1
  /\ void' = TRUE /\ accepted' = 0 /\ handed' = <<>>

Next == Accept \/ HandOut \/ Overflow

Spec == Init /\ [][Next]_vars
==============================================================================
