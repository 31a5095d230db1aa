--------------------------- MODULE DebugIPCProofs ---------------------------
(***************************************************************************)
(* Proofs about the debug channel, for every ring size, queue limit and    *)
(* number of dumps.                                                        *)
(***************************************************************************)
EXTENDS DebugIPC, TLAPS

------------------------------------------------------------------------------
(* Facts about remainders that the ring's index arithmetic rests on, for   *)
(* every modulus.                                                          *)

\* A natural number is its quotient times the modulus, plus its remainder.
LEMMA DivMod ==
  ASSUME NEW a \in Nat, NEW n \in Nat \ {0}
  PROVE  /\ a = n * (a \div n) + (a % n)
         /\ a % n \in 0..(n - 1)
         /\ a \div n \in Nat
OBVIOUS

\* Multiples of n are at least n apart.
LEMMA MultiplesApart ==
  ASSUME NEW p \in Nat, NEW q \in Nat, NEW n \in Nat \ {0}, p < q
  PROVE  n * q >= n * p + n
<1>1. PICK d \in Nat : q = p + 1 + d
  <2>1. q - p - 1 \in Nat
    OBVIOUS
  <2>2. q = p + 1 + (q - p - 1)
    OBVIOUS
  <2> QED BY <2>1, <2>2
<1>2. n * q = n * p + n + n * d
  BY <1>1
<1>3. n * d \in Nat /\ n * p \in Nat
  BY <1>1
<1> QED BY <1>2, <1>3

\* The remainder is the only number below n that leaves a multiple of n.
LEMMA RemainderUnique ==
  ASSUME NEW x \in Nat, NEW q \in Nat, NEW n \in Nat \ {0},
         NEW r \in 0..(n - 1), x = n * q + r
  PROVE  x % n = r
<1> DEFINE p == x \div n
<1>1. x = n * p + (x % n) /\ x % n \in 0..(n - 1) /\ p \in Nat
  BY DivMod
<1> HIDE DEF p
<1>2. n * p \in Nat /\ n * q \in Nat
  BY <1>1
<1>3. ~(p < q)
  BY <1>1, <1>2, MultiplesApart
<1>4. ~(q < p)
  BY <1>1, <1>2, MultiplesApart
<1>5. p = q
  BY <1>1, <1>3, <1>4
<1> QED BY <1>1, <1>2, <1>5

\* Advancing a wrapped index is wrapping the advanced index.
LEMMA WrapStep ==
  ASSUME NEW a \in Nat, NEW n \in Nat \ {0}
  PROVE  ((a % n) + 1) % n = (a + 1) % n
<1> DEFINE q == a \div n
           r == a % n
<1>1. a = n * q + r /\ r \in 0..(n - 1) /\ q \in Nat
  BY DivMod
<1> HIDE DEF q, r
<1>2. CASE r + 1 < n
  <2>1. (a + 1) % n = r + 1
    BY <1>1, <1>2, RemainderUnique
  <2>2. (r + 1) % n = r + 1
    BY <1>1, <1>2
  <2> QED BY <2>1, <2>2 DEF r
<1>3. CASE r + 1 = n
  <2>1. a + 1 = n * (q + 1) + 0
    BY <1>1, <1>3
  <2>2. (a + 1) % n = 0
    BY <1>1, <2>1, RemainderUnique
  <2>3. (r + 1) % n = 0
    BY <1>3
  <2> QED BY <2>2, <2>3 DEF r
<1> QED BY <1>1, <1>2, <1>3

\* Numbers less than n apart wrap to different indices.
LEMMA WrapDistinct ==
  ASSUME NEW a \in Nat, NEW b \in Nat, NEW n \in Nat \ {0}, a < b, b - a < n
  PROVE  a % n # b % n
<1> SUFFICES ASSUME a % n = b % n
             PROVE  FALSE
  OBVIOUS
<1> DEFINE p == a \div n
           q == b \div n
           r == a % n
<1>1. a = n * p + r /\ p \in Nat /\ r \in 0..(n - 1)
  BY DivMod
<1>2. b = n * q + r /\ q \in Nat
  BY DivMod
<1> HIDE DEF p, q, r
<1>3. n * p \in Nat /\ n * q \in Nat
  BY <1>1, <1>2
<1>4. p # q
  BY <1>1, <1>2
<1>5. ~(p < q)
  BY <1>1, <1>2, <1>3, MultiplesApart
<1>6. ~(q < p)
  BY <1>1, <1>2, <1>3, MultiplesApart
<1> QED BY <1>1, <1>2, <1>4, <1>5, <1>6

------------------------------------------------------------------------------
(* The channel.                                                            *)

USE SizeAssumption, QueueLimitAssumption, MaxBlocksAssumption, NoBlockAssumption

\* The worker's block is not yet in the ring, OnOcr's is no longer in it.
WorkerHolds == wpc \in {"storePtr", "storeLen", "advanceHead"}
OcrHolds == gpc \in {"handle", "free"}

\* The indices are the history counters, wrapped; this survives an overflow.
IndexInv ==
  /\ IPCHead = put % Size
  /\ IPCTail = Len(got) % Size
  /\ nalloc = put + (IF WorkerHolds THEN 1 ELSE 0)
  /\ WorkerHolds => ptr = put

\* What the slots, the locals of both threads and the heap hold until the
\* ring overflows.
WorkerInv ==
  /\ wpc \in {"storeLen", "advanceHead"} => Slot[put % Size] = put
  /\ wpc = "advanceHead" => SlotLen[put % Size] = put
RingInv ==
  /\ Len(got) <= put /\ put - Len(got) < Size
  /\ \A b \in Unread : Slot[b % Size] = b /\ SlotLen[b % Size] = b
OcrInv ==
  /\ gpc \in {"loadPtr", "loadLen", "advanceTail"} => Len(got) < put
  /\ gpc \in {"loadLen", "advanceTail"} => gptr = Len(got)
  /\ gpc = "advanceTail" => glen = Len(got)
  /\ OcrHolds => Len(got) > 0 /\ gptr = Len(got) - 1 /\ glen = gptr
HeapInv ==
  /\ freed = 0..(Len(got) - (IF OcrHolds THEN 2 ELSE 1))
  /\ ~misused

SafeInv == ~wrapped => WorkerInv /\ RingInv /\ OcrInv /\ HeapInv

IInv == TypeOK /\ IndexInv /\ SafeInv
------------------------------------------------------------------------------
(* Type correctness.                                                       *)

LEMMA SizePositive == Size \in Nat \ {0}
BY SizeAssumption

\* Every variable of the channel keeps its type: in particular both indices
\* stay inside the ring.
THEOREM TypeCorrect == Spec => []TypeOK
<1>1. Init => TypeOK
  <2>1. Init => frame \in BOOLEAN /\ misused \in BOOLEAN /\ wrapped \in BOOLEAN
    BY Zenon DEF Init
  <2> QED BY <2>1 DEF Init, TypeOK, Block, Slots
<1>2. TypeOK /\ [Next]_vars => TypeOK'
  <2> SUFFICES ASSUME TypeOK, [Next]_vars
               PROVE  TypeOK'
    OBVIOUS
  <2> USE DEF TypeOK, Block, Slots, workerVars, ringVars, guiVars, heapVars, logVars
  <2>1. CASE ClientConnect
    BY <2>1 DEF ClientConnect
  <2>2. CASE ClientWrite
    BY <2>2 DEF ClientWrite
  <2>3. CASE CreatePipe
    BY <2>3 DEF CreatePipe
  <2>4. CASE ConnectNamedPipe
    BY <2>4 DEF ConnectNamedPipe
  <2>5. CASE Accept
    BY <2>5 DEF Accept
  <2>6. CASE ReadDump
    BY <2>6 DEF ReadDump
  <2>7. CASE ReadNothing
    BY <2>7 DEF ReadNothing
  <2>8. CASE StorePtr
    BY <2>8 DEF StorePtr
  <2>9. CASE StoreLen
    BY <2>9 DEF StoreLen
  <2>10. CASE AdvanceHead
    BY SizePositive, <2>10 DEF AdvanceHead
  <2>11. CASE Post
    BY <2>11 DEF Post
  <2>12. CASE Answer
    BY <2>12 DEF Answer
  <2>13. CASE Disconnect
    BY <2>13 DEF Disconnect
  <2>14. CASE Dispatch
    BY <2>14 DEF Dispatch
  <2>15. CASE CheckEmpty
    BY <2>15 DEF CheckEmpty
  <2>16. CASE LoadPtr
    BY <2>16 DEF LoadPtr
  <2>17. CASE LoadLen
    BY <2>17 DEF LoadLen
  <2>18. CASE AdvanceTail
    BY SizePositive, <2>18 DEF AdvanceTail
  <2>19. CASE HandleDump
    BY <2>19 DEF HandleDump
  <2>20. CASE FreeDump
    BY <2>20 DEF FreeDump
  <2>21. CASE OnFileClose
    <3>1. frame' \in BOOLEAN
      BY <2>21, Zenon DEF OnFileClose
    <3> QED BY <2>21, <3>1 DEF OnFileClose
  <2>22. CASE UNCHANGED vars
    BY <2>22 DEF vars
  <2> QED
    BY <2>1, <2>2, <2>3, <2>4, <2>5, <2>6, <2>7, <2>8, <2>9, <2>10, <2>11, <2>12, <2>13, <2>14, <2>15, <2>16, <2>17, <2>18, <2>19, <2>20, <2>21, <2>22
       DEF Next, Worker, OnOcr
<1> QED BY <1>1, <1>2, PTL DEF Spec
------------------------------------------------------------------------------
(* The inductive invariant.                                                *)

LEMMA InitInv == Init => IndexInv /\ SafeInv
BY SizePositive DEF Init, IndexInv, SafeInv, WorkerInv, RingInv, OcrInv, HeapInv,
   WorkerHolds, OcrHolds, Unread, Slots, Block

\* No step disturbs the relation of the indices to the history counters.
LEMMA IndexStep == TypeOK /\ IndexInv /\ [Next]_vars => IndexInv'
<1> SUFFICES ASSUME TypeOK, IndexInv, [Next]_vars
             PROVE  IndexInv'
  OBVIOUS
<1> USE DEF IndexInv, WorkerHolds, workerVars, ringVars, guiVars, heapVars, logVars
<1>0. put \in Nat /\ got \in Seq(Block) /\ Len(got) \in Nat /\ nalloc \in Nat
  BY DEF TypeOK
<1>1. CASE ClientConnect
  BY <1>0, <1>1 DEF ClientConnect
<1>2. CASE ClientWrite
  BY <1>0, <1>2 DEF ClientWrite
<1>3. CASE CreatePipe
  BY <1>0, <1>3 DEF CreatePipe
<1>4. CASE ConnectNamedPipe
  BY <1>0, <1>4 DEF ConnectNamedPipe
<1>5. CASE Accept
  BY <1>0, <1>5 DEF Accept
<1>6. CASE ReadDump
  BY <1>0, <1>6 DEF ReadDump
<1>7. CASE ReadNothing
  BY <1>0, <1>7 DEF ReadNothing
<1>8. CASE StorePtr
  BY <1>0, <1>8 DEF StorePtr
<1>9. CASE StoreLen
  BY <1>0, <1>9 DEF StoreLen
<1>10. CASE AdvanceHead
  <2>1. ((put % Size) + 1) % Size = (put + 1) % Size
    BY <1>0, SizePositive, WrapStep
  <2> QED BY <1>0, <1>10, <2>1 DEF AdvanceHead
<1>11. CASE Post
  BY <1>0, <1>11 DEF Post
<1>12. CASE Answer
  BY <1>0, <1>12 DEF Answer
<1>13. CASE Disconnect
  BY <1>0, <1>13 DEF Disconnect
<1>14. CASE Dispatch
  BY <1>0, <1>14 DEF Dispatch
<1>15. CASE CheckEmpty
  BY <1>0, <1>15 DEF CheckEmpty
<1>16. CASE LoadPtr
  BY <1>0, <1>16 DEF LoadPtr
<1>17. CASE LoadLen
  BY <1>0, <1>17 DEF LoadLen
<1>18. CASE AdvanceTail
  <2>1. ((Len(got) % Size) + 1) % Size = (Len(got) + 1) % Size
    BY <1>0, SizePositive, WrapStep
  <2>2. Len(got') = Len(got) + 1
    BY <1>0, <1>18 DEF AdvanceTail, TypeOK
  <2> QED BY <1>0, <1>18, <2>1, <2>2 DEF AdvanceTail
<1>19. CASE HandleDump
  BY <1>0, <1>19 DEF HandleDump
<1>20. CASE FreeDump
  BY <1>0, <1>20 DEF FreeDump
<1>21. CASE OnFileClose
  BY <1>0, <1>21 DEF OnFileClose
<1>22. CASE UNCHANGED vars
  BY <1>22 DEF vars
<1> QED
  BY <1>1, <1>2, <1>3, <1>4, <1>5, <1>6, <1>7, <1>8, <1>9, <1>10, <1>11, <1>12, <1>13, <1>14, <1>15, <1>16, <1>17, <1>18, <1>19, <1>20, <1>21, <1>22
     DEF Next, Worker, OnOcr

\* Until the ring overflows, no step disturbs what the slots, the locals and
\* the heap hold.
LEMMA SafeStep == TypeOK /\ IndexInv /\ SafeInv /\ [Next]_vars => SafeInv'
<1> SUFFICES ASSUME TypeOK, IndexInv, SafeInv, [Next]_vars, ~wrapped'
             PROVE  (WorkerInv /\ RingInv /\ OcrInv /\ HeapInv)'
  BY DEF SafeInv
<1> USE DEF IndexInv, WorkerInv, RingInv, OcrInv, HeapInv, WorkerHolds, OcrHolds, Unread,
            workerVars, ringVars, guiVars, heapVars, logVars
<1>0. put \in Nat /\ got \in Seq(Block) /\ Len(got) \in Nat /\ nalloc \in Nat
  BY DEF TypeOK
<1>1. CASE ClientConnect
  BY <1>0, <1>1 DEF ClientConnect, SafeInv
<1>2. CASE ClientWrite
  BY <1>0, <1>2 DEF ClientWrite, SafeInv
<1>3. CASE CreatePipe
  BY <1>0, <1>3 DEF CreatePipe, SafeInv
<1>4. CASE ConnectNamedPipe
  BY <1>0, <1>4 DEF ConnectNamedPipe, SafeInv
<1>5. CASE Accept
  BY <1>0, <1>5 DEF Accept, SafeInv
<1>6. CASE ReadDump
  BY <1>0, <1>6 DEF ReadDump, SafeInv
<1>7. CASE ReadNothing
  BY <1>0, <1>7 DEF ReadNothing, SafeInv
<1>8. CASE StorePtr
  <2>1. \A b \in Unread : b % Size # put % Size
    BY <1>0, <1>8, SizePositive, WrapDistinct DEF StorePtr, SafeInv
  <2>2. \A b \in Unread : b % Size \in Slots
    BY <1>0, SizePositive DEF Slots
  <2>3. put % Size \in Slots
    BY <1>0, SizePositive DEF Slots
  <2>4. /\ Slot'[put % Size] = put
        /\ \A b \in Unread : Slot'[b % Size] = Slot[b % Size]
    BY <1>0, <1>8, <2>1, <2>2, <2>3 DEF StorePtr, TypeOK
  <2>5. WorkerInv' /\ RingInv'
    BY <1>0, <1>8, <2>1, <2>4 DEF StorePtr, SafeInv
  <2>6. OcrInv' /\ HeapInv'
    BY <1>0, <1>8 DEF StorePtr, SafeInv
  <2> QED BY <2>5, <2>6
<1>9. CASE StoreLen
  <2>1. \A b \in Unread : b % Size # put % Size
    BY <1>0, <1>9, SizePositive, WrapDistinct DEF StoreLen, SafeInv
  <2>2. \A b \in Unread : b % Size \in Slots
    BY <1>0, SizePositive DEF Slots
  <2>3. put % Size \in Slots
    BY <1>0, SizePositive DEF Slots
  <2>4. /\ SlotLen'[put % Size] = put
        /\ \A b \in Unread : SlotLen'[b % Size] = SlotLen[b % Size]
    BY <1>0, <1>9, <2>1, <2>2, <2>3 DEF StoreLen, TypeOK
  <2>5. WorkerInv' /\ RingInv'
    BY <1>0, <1>9, <2>1, <2>4 DEF StoreLen, SafeInv
  <2>6. OcrInv' /\ HeapInv'
    BY <1>0, <1>9 DEF StoreLen, SafeInv
  <2> QED BY <2>5, <2>6
<1>10. CASE AdvanceHead
  <2>1. ~wrapped /\ put' - Len(got) # Size
    BY <1>10, Zenon DEF AdvanceHead
  <2>2. put - Len(got) < Size - 1
    <3>1. put - Len(got) < Size
      BY <2>1, Zenon DEF SafeInv
    <3>2. put' = put + 1
      BY <1>10 DEF AdvanceHead
    <3> QED BY ONLY <1>0, <2>1, <3>1, <3>2, SizePositive
  <2>3. RingInv'
    <3>1. put' = put + 1 /\ UNCHANGED <<got, Slot, SlotLen>>
      BY <1>10 DEF AdvanceHead
    <3>2. Slot[put % Size] = put /\ SlotLen[put % Size] = put
      BY <1>10, <2>1 DEF AdvanceHead, SafeInv
    <3>3. Len(got) <= put /\ \A b \in Unread : Slot[b % Size] = b /\ SlotLen[b % Size] = b
      BY <2>1, Zenon DEF SafeInv
    <3>4. Unread' \subseteq Unread \cup {put}
      BY <1>0, <3>1
    <3> QED BY <1>0, <2>2, <3>1, <3>2, <3>3, <3>4
  <2>4. WorkerInv' /\ OcrInv' /\ HeapInv'
    BY <1>0, <1>10, <2>1 DEF AdvanceHead, SafeInv
  <2> QED BY <2>3, <2>4
<1>11. CASE Post
  BY <1>0, <1>11 DEF Post, SafeInv
<1>12. CASE Answer
  BY <1>0, <1>12 DEF Answer, SafeInv
<1>13. CASE Disconnect
  BY <1>0, <1>13 DEF Disconnect, SafeInv
<1>14. CASE Dispatch
  BY <1>0, <1>14 DEF Dispatch, SafeInv
<1>15. CASE CheckEmpty
  BY <1>0, <1>15 DEF CheckEmpty, SafeInv
<1>16. CASE LoadPtr
  BY <1>0, <1>16 DEF LoadPtr, SafeInv
<1>17. CASE LoadLen
  BY <1>0, <1>17 DEF LoadLen, SafeInv
<1>18. CASE AdvanceTail
  BY <1>0, <1>18 DEF AdvanceTail, SafeInv
<1>19. CASE HandleDump
  <2>1. ~wrapped
    BY <1>19 DEF HandleDump
  <2>2. gptr \notin freed /\ ~misused
    BY <1>0, <1>19, <2>1 DEF HandleDump, SafeInv
  <2>3. ~misused'
    BY <1>19, <2>2, Zenon DEF HandleDump
  <2> QED BY <1>0, <1>19, <2>1, <2>3 DEF HandleDump, SafeInv
<1>20. CASE FreeDump
  <2>1. ~wrapped
    BY <1>20 DEF FreeDump
  <2>2. gptr \notin freed /\ ~misused
    BY <1>0, <1>20, <2>1 DEF FreeDump, SafeInv
  <2>3. ~misused'
    BY <1>20, <2>2, Zenon DEF FreeDump
  <2>4. freed' = 0..(Len(got) - 1)
    BY <1>0, <1>20, <2>1 DEF FreeDump, SafeInv
  <2> QED BY <1>0, <1>20, <2>1, <2>3, <2>4 DEF FreeDump, SafeInv
<1>21. CASE OnFileClose
  BY <1>0, <1>21 DEF OnFileClose, SafeInv
<1>22. CASE UNCHANGED vars
  BY <1>22 DEF vars, SafeInv
<1> QED
  BY <1>1, <1>2, <1>3, <1>4, <1>5, <1>6, <1>7, <1>8, <1>9, <1>10, <1>11, <1>12, <1>13, <1>14, <1>15, <1>16, <1>17, <1>18, <1>19, <1>20, <1>21, <1>22
     DEF Next, Worker, OnOcr
\* The conjunction that is inductive is an invariant of the channel.
THEOREM Invariance == Spec => []IInv
<1>1. Init /\ TypeOK => IInv
  BY InitInv DEF IInv
<1>2. IInv /\ TypeOK' /\ [Next]_vars => IInv'
  BY IndexStep, SafeStep DEF IInv
<1> QED BY <1>1, <1>2, TypeCorrect, PTL DEF Spec

------------------------------------------------------------------------------
(* What a reader cares about.                                              *)

\* Until the ring overflows, the slots from IPCTail to IPCHead hold exactly
\* the unread dumps, in order, with their lengths, however the loads and
\* stores of the two threads interleave.
THEOREM RingSafe == Spec => []RingHoldsUnread
<1>1. IInv => RingHoldsUnread
  BY DEF IInv, SafeInv, RingInv, RingHoldsUnread
<1> QED BY <1>1, Invariance, PTL

\* Until the ring overflows, GetDebugIPCPtr returns the pointer and the
\* length of one dump.
THEOREM PairsMatch == Spec => []PtrMatchesLen
<1>1. IInv => PtrMatchesLen
  BY DEF IInv, SafeInv, OcrInv, OcrHolds, PtrMatchesLen
<1> QED BY <1>1, Invariance, PTL

\* Until the ring overflows, no block is read or freed after it was freed.
THEOREM HeapSafe == Spec => []NoBlockMisused
<1>1. IInv => NoBlockMisused
  BY DEF IInv, SafeInv, HeapInv, NoBlockMisused
<1> QED BY <1>1, Invariance, PTL

\* Until the ring overflows, every block has an owner that will free it.
THEOREM NothingLeaks == Spec => []NoBlockLeaked
<1>1. IInv => NoBlockLeaked
  <2> SUFFICES ASSUME IInv, ~wrapped
               PROVE  NoBlockLeaked
    BY DEF NoBlockLeaked
  <2>1. /\ put \in Nat /\ got \in Seq(Block) /\ Len(got) \in Nat /\ Len(got) <= put
        /\ freed = 0..(Len(got) - (IF OcrHolds THEN 2 ELSE 1))
        /\ OcrHolds => Len(got) > 0 /\ gptr = Len(got) - 1
        /\ nalloc = put + (IF WorkerHolds THEN 1 ELSE 0)
        /\ WorkerHolds => ptr = put
    BY DEF IInv, TypeOK, IndexInv, SafeInv, RingInv, OcrInv, HeapInv
  <2>2. 0..(Len(got) - 1) = freed \cup (IF OcrHolds THEN {gptr} ELSE {})
    BY <2>1
  <2>3. 0..(nalloc - 1) = 0..(put - 1) \cup (IF WorkerHolds THEN {ptr} ELSE {})
    BY <2>1
  <2>4. 0..(put - 1) = 0..(Len(got) - 1) \cup Unread
    BY <2>1 DEF Unread
  <2> QED BY <2>2, <2>3, <2>4 DEF NoBlockLeaked, OcrHolds, WorkerHolds
<1> QED BY <1>1, Invariance, PTL

\* What makes NoLostWakeup inductive: a command is accepted for dumps that are
\* already in the ring.
WakeInv == heard <= put /\ NoLostWakeup

\* A drain that ends leaves nothing behind: the indices meet only when every dump
\* has been taken, until the ring overflows.
LEMMA DrainEndsEmpty ==
  ASSUME IInv, ~wrapped, IPCHead = IPCTail
  PROVE  put = Len(got)
<1>1. put \in Nat /\ Len(got) \in Nat
  BY DEF IInv, TypeOK
<1>2. Len(got) <= put /\ put - Len(got) < Size /\ put % Size = Len(got) % Size
  BY DEF IInv, IndexInv, SafeInv, RingInv
<1>3. ~(Len(got) < put)
  BY <1>1, <1>2, SizePositive, WrapDistinct
<1> QED BY <1>1, <1>2, <1>3

\* PostMessage may refuse any command.  Still, when no command is queued and no
\* drain runs, the dumps put before the last accepted command have been taken; and
\* after an overflow the ring is empty if the last command was accepted.
THEOREM WakeupKept == Spec => []NoLostWakeup
<1>1. Init => WakeInv
  BY DEF Init, WakeInv, NoLostWakeup
<1>2. IInv /\ WakeInv /\ [Next]_vars => WakeInv'
  <2> SUFFICES ASSUME IInv, WakeInv, [Next]_vars
               PROVE  WakeInv'
    OBVIOUS
  <2> USE DEF WakeInv, NoLostWakeup, workerVars, ringVars, guiVars, heapVars, logVars
  <2>0. /\ posted \in 0..QueueLimit /\ put \in Nat /\ heard \in Nat
        /\ got \in Seq(Block) /\ Len(got) \in Nat
    BY DEF IInv, TypeOK
  <2>1. CASE ClientConnect
    BY <2>0, <2>1 DEF ClientConnect
  <2>2. CASE ClientWrite
    BY <2>0, <2>2 DEF ClientWrite
  <2>3. CASE CreatePipe
    BY <2>0, <2>3 DEF CreatePipe
  <2>4. CASE ConnectNamedPipe
    BY <2>0, <2>4 DEF ConnectNamedPipe
  <2>5. CASE Accept
    BY <2>0, <2>5 DEF Accept
  <2>6. CASE ReadDump
    BY <2>0, <2>6 DEF ReadDump
  <2>7. CASE ReadNothing
    BY <2>0, <2>7 DEF ReadNothing
  <2>8. CASE StorePtr
    BY <2>0, <2>8 DEF StorePtr
  <2>9. CASE StoreLen
    BY <2>0, <2>9 DEF StoreLen
  <2>10. CASE AdvanceHead
    <3>1. put' = put + 1 /\ heard' = heard /\ heard' # put' /\ heard' <= put'
      BY <2>0, <2>10 DEF AdvanceHead
    <3>2. ~wrapped' => ~wrapped
      BY <2>10, Zenon DEF AdvanceHead
    <3> QED BY <2>0, <2>10, <3>1, <3>2 DEF AdvanceHead
  <2>11. CASE Post
    <3>1. CASE posted' = posted + 1 /\ heard' = put
      BY <2>0, <2>11, <3>1 DEF Post
    <3>2. CASE UNCHANGED <<posted, heard>>
      BY <2>0, <2>11, <3>2 DEF Post
    <3> QED BY <2>11, <3>1, <3>2 DEF Post
  <2>12. CASE Answer
    BY <2>0, <2>12 DEF Answer
  <2>13. CASE Disconnect
    BY <2>0, <2>13 DEF Disconnect
  <2>14. CASE Dispatch
    BY <2>0, <2>14 DEF Dispatch
  <2>15. CASE CheckEmpty
    <3>1. CASE IPCHead = IPCTail
      <4>1. ~wrapped => heard <= Len(got)
        BY <2>0, <3>1, DrainEndsEmpty
      <4> QED BY <2>0, <2>15, <3>1, <4>1 DEF CheckEmpty
    <3>2. CASE IPCHead # IPCTail
      BY <2>0, <2>15, <3>2 DEF CheckEmpty
    <3> QED BY <3>1, <3>2
  <2>16. CASE LoadPtr
    BY <2>0, <2>16 DEF LoadPtr
  <2>17. CASE LoadLen
    BY <2>0, <2>17 DEF LoadLen
  <2>18. CASE AdvanceTail
    BY <2>0, <2>18 DEF AdvanceTail
  <2>19. CASE HandleDump
    BY <2>0, <2>19 DEF HandleDump
  <2>20. CASE FreeDump
    BY <2>0, <2>20 DEF FreeDump
  <2>21. CASE OnFileClose
    BY <2>0, <2>21 DEF OnFileClose
  <2>22. CASE UNCHANGED vars
    BY <2>22 DEF vars
  <2> QED
    BY <2>1, <2>2, <2>3, <2>4, <2>5, <2>6, <2>7, <2>8, <2>9, <2>10, <2>11, <2>12, <2>13, <2>14, <2>15, <2>16, <2>17, <2>18, <2>19, <2>20, <2>21, <2>22
       DEF Next, Worker, OnOcr
<1>3. WakeInv => NoLostWakeup
  BY DEF WakeInv
<1> QED BY <1>1, <1>2, <1>3, Invariance, PTL DEF Spec

\* The channel implements the mailbox of its capacity: first in first out,
\* nothing skipped and nothing handed out twice, until Size dumps are unread.
THEOREM Refinement == Spec => ImplementsMailbox
<1>1. Init => Mailbox!Init
  BY DEF Init, Mailbox!Init
<1>2. IInv /\ [Next]_vars => [Mailbox!Next]_(Mailbox!vars)
  <2> SUFFICES ASSUME IInv, [Next]_vars
               PROVE  [Mailbox!Next]_(Mailbox!vars)
    OBVIOUS
  <2> USE DEF workerVars, ringVars, guiVars, heapVars, logVars
  <2>1. ASSUME UNCHANGED <<put, got, wrapped>>
        PROVE  UNCHANGED Mailbox!vars
    BY <2>1 DEF Mailbox!vars
  <2>2. CASE AdvanceHead
    <3>1. CASE wrapped
      <4>1. wrapped'
        BY <2>2, <3>1, Zenon DEF AdvanceHead
      <4> QED BY <3>1, <4>1 DEF Mailbox!vars
    <3>2. CASE ~wrapped /\ wrapped'
      <4>1. put' - Len(got) = Size /\ put' = put + 1
        BY <2>2, <3>2, Zenon DEF AdvanceHead
      <4>2. put - Len(got) = Size - 1
        BY <4>1, SizePositive DEF IInv, TypeOK
      <4>3. Mailbox!Overflow
        BY <3>2, <4>2 DEF Mailbox!Overflow
      <4> QED BY <4>3 DEF Mailbox!Next
    <3>3. CASE ~wrapped /\ ~wrapped'
      <4>1. put' - Len(got) # Size /\ put' = put + 1 /\ got' = got
        BY <2>2, <3>3, Zenon DEF AdvanceHead
      <4>2. put - Len(got) < Size
        BY <3>3 DEF IInv, SafeInv, RingInv
      <4>3. put - Len(got) < Size - 1
        BY <4>1, <4>2, SizePositive DEF IInv, TypeOK
      <4>4. Mailbox!Accept
        <5>1. wrapped' = wrapped
          <6>1. wrapped \in BOOLEAN /\ wrapped' \in BOOLEAN
            BY <2>2, Zenon DEF IInv, TypeOK, AdvanceHead
          <6> QED BY <3>3, <6>1, Zenon
        <5>2. (IF wrapped' THEN 0 ELSE put') = (IF wrapped THEN 0 ELSE put) + 1
          BY <3>3, <4>1
        <5>3. (IF wrapped' THEN <<>> ELSE got') = (IF wrapped THEN <<>> ELSE got)
          BY <3>3, <4>1
        <5> QED BY <3>3, <4>3, <5>1, <5>2, <5>3 DEF Mailbox!Accept
      <4> QED BY <4>4 DEF Mailbox!Next
    <3> QED BY <3>1, <3>2, <3>3
  <2>3. CASE AdvanceTail
    <3>1. CASE wrapped
      BY <2>3, <3>1 DEF AdvanceTail, Mailbox!vars
    <3>2. CASE ~wrapped
      <4>1. gptr = Len(got) /\ Len(got) < put
        BY <2>3, <3>2 DEF IInv, SafeInv, OcrInv, AdvanceTail
      <4>2. ~wrapped' /\ put' = put /\ got' = Append(got, gptr)
        BY <2>3, <3>2 DEF AdvanceTail
      <4>3. Mailbox!HandOut
        <5>1. wrapped' = wrapped
          BY <2>3 DEF AdvanceTail
        <5>2. (IF wrapped' THEN <<>> ELSE got')
                = Append(IF wrapped THEN <<>> ELSE got, Len(IF wrapped THEN <<>> ELSE got))
          BY <3>2, <4>1, <4>2
        <5> QED BY <3>2, <4>1, <4>2, <5>1, <5>2 DEF Mailbox!HandOut
      <4> QED BY <4>3 DEF Mailbox!Next
    <3> QED BY <3>1, <3>2
  <2>4. CASE ClientConnect \/ ClientWrite \/ OnFileClose \/ Dispatch
    BY <2>1, <2>4 DEF ClientConnect, ClientWrite, OnFileClose, Dispatch
  <2>5. CASE CreatePipe \/ ConnectNamedPipe \/ Accept \/ ReadDump \/ ReadNothing
    BY <2>1, <2>5 DEF CreatePipe, ConnectNamedPipe, Accept, ReadDump, ReadNothing
  <2>6. CASE StorePtr \/ StoreLen \/ Post \/ Answer \/ Disconnect
    BY <2>1, <2>6 DEF StorePtr, StoreLen, Post, Answer, Disconnect
  <2>7. CASE CheckEmpty \/ LoadPtr \/ LoadLen \/ HandleDump \/ FreeDump
    BY <2>1, <2>7 DEF CheckEmpty, LoadPtr, LoadLen, HandleDump, FreeDump
  <2>8. CASE UNCHANGED vars
    BY <2>1, <2>8 DEF vars
  <2> QED BY <2>2, <2>3, <2>4, <2>5, <2>6, <2>7, <2>8 DEF Next, Worker, OnOcr
<1> QED BY <1>1, <1>2, Invariance, PTL DEF Spec, ImplementsMailbox, Mailbox!Spec
==============================================================================
