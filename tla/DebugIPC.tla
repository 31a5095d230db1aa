------------------------------ MODULE DebugIPC ------------------------------
(***************************************************************************)
(* The debug channel of NoteBuilderFrame.  Instrumented programs (external *)
(* clients) write image dumps into a named pipe.  A worker thread,         *)
(* WinDebugWait, copies every dump into a heap block, puts the block into  *)
(* a ring of DEBUG_IPC_SIZE slots, posts a command to the main frame and   *)
(* answers the client.  The GUI thread handles the command by draining the *)
(* ring (CMainFrame::OnOcr calling GetDebugIPCPtr).                        *)
(*                                                                         *)
(* The ring's indices and slots are plain variables that both threads use  *)
(* without a lock.  Each load or store of a shared variable is a step of   *)
(* its own here.  The build targets x86, which keeps the stores of one     *)
(* thread in order; we assume the compiler emits them in program order.    *)
(*                                                                         *)
(* Blocks are numbered 0, 1, 2, ... in the order the worker allocates      *)
(* them.  A slot's length is represented by the block it was stored for.   *)
(***************************************************************************)
EXTENDS Integers, Sequences

CONSTANTS
  Size,        \* DEBUG_IPC_SIZE
  QueueLimit,  \* commands a thread's queue holds at most, other messages taking none of it
  MaxBlocks,   \* bound: dumps the clients write
  NoBlock      \* a slot or a local variable that was never written

ASSUME SizeAssumption == Size \in Nat /\ Size > 1
ASSUME QueueLimitAssumption == QueueLimit \in Nat
ASSUME MaxBlocksAssumption == MaxBlocks \in Nat
ASSUME NoBlockAssumption == NoBlock \notin Nat

VARIABLES
  wpc,     \* the worker thread's control point
  ptr,     \* the worker's local `ptr`
  pipe,    \* the pipe instance and the message in it
  Slot,    \* DebugIPCPtr
  SlotLen, \* DebugIPCLen
  IPCHead, \* DebugIPCHead, written by the worker
  IPCTail, \* DebugIPCTail, written by the GUI thread
  posted,  \* ID_DEBUG_IPC commands in the GUI thread's queue
  frame,   \* the main frame window exists
  gpc,     \* the GUI thread's control point inside OnOcr
  gptr,    \* OnOcr's `ptr`
  glen,    \* OnOcr's `len`
  nalloc,  \* history: blocks allocated so far
  freed,   \* history: blocks given to LocalFree
  misused, \* history: a block was read or freed after it was freed
  put,     \* history: times IPCHead was advanced
  got,     \* history: blocks returned by GetDebugIPCPtr, in order
  heard,   \* history: `put` when PostMessage last accepted a command
  wrapped  \* history: IPCHead has caught up with IPCTail from behind

workerVars == <<wpc, ptr, pipe>>
ringVars == <<Slot, SlotLen, IPCHead, IPCTail>>
guiVars == <<posted, frame, gpc, gptr, glen>>
heapVars == <<nalloc, freed, misused>>
logVars == <<put, got, heard, wrapped>>
vars == <<workerVars, ringVars, guiVars, heapVars, logVars>>

Slots == 0..(Size - 1)
Block == Nat \cup {NoBlock}

Init ==
  /\ wpc = "create" /\ ptr = NoBlock /\ pipe = "none"
  /\ Slot = [i \in Slots |-> NoBlock]
  /\ SlotLen = [i \in Slots |-> NoBlock]
  /\ IPCHead = 0 /\ IPCTail = 0
  /\ posted = 0 /\ frame = TRUE
  /\ gpc = "idle" /\ gptr = NoBlock /\ glen = NoBlock
  /\ nalloc = 0 /\ freed = {} /\ misused = FALSE
  /\ put = 0 /\ got = <<>> /\ heard = 0 /\ wrapped = FALSE

------------------------------------------------------------------------------
(* The pipe's other end: programs outside this repository.                 *)

\* A client can connect to an instance that was just created, and to one
\* that ConnectNamedPipe has put in listening state, not to one that
\* DisconnectNamedPipe has just closed.
ClientConnect ==
  /\ pipe \in {"created", "listening"}
  /\ pipe' = "open"
  /\ UNCHANGED <<wpc, ptr, ringVars, guiVars, heapVars, logVars>>

\* The client writes a dump ReadFile can deliver, or one it cannot (empty,
\* or longer than rbuf), or goes away.
ClientWrite ==
  /\ pipe = "open"
  /\ \/ nalloc < MaxBlocks /\ pipe' = "dump"
     \/ pipe' = "unreadable"
  /\ UNCHANGED <<wpc, ptr, ringVars, guiVars, heapVars, logVars>>

------------------------------------------------------------------------------
(* The worker thread.                                                      *)

CreatePipe ==
  /\ wpc = "create" /\ wpc' = "connect"
  /\ pipe' \in {"created", "invalid"}
  /\ UNCHANGED <<ptr, ringVars, guiVars, heapVars, logVars>>

\* ConnectNamedPipe waits for a client of a listening instance.  It fails
\* for an invalid handle and, with ERROR_PIPE_CONNECTED, for an instance a
\* client has already opened; the code leaves its loop in both cases.
ConnectNamedPipe ==
  /\ wpc = "connect"
  /\ IF pipe \in {"created", "closed"}
       THEN wpc' = "accept" /\ pipe' = "listening"
       ELSE wpc' = "exited" /\ UNCHANGED pipe
  /\ UNCHANGED <<ptr, ringVars, guiVars, heapVars, logVars>>

Accept ==
  /\ wpc = "accept" /\ pipe # "listening"
  /\ wpc' = "read"
  /\ UNCHANGED <<ptr, pipe, ringVars, guiVars, heapVars, logVars>>

\* ReadFile, and the copy of what it read into a new block.
ReadDump ==
  /\ wpc = "read" /\ pipe = "dump"
  /\ wpc' = "storePtr" /\ ptr' = nalloc /\ nalloc' = nalloc + 1
  /\ pipe' = "read"
  /\ UNCHANGED <<ringVars, guiVars, freed, misused, logVars>>

ReadNothing ==
  /\ wpc = "read" /\ pipe = "unreadable"
  /\ wpc' = "disconnect"
  /\ UNCHANGED <<ptr, pipe, ringVars, guiVars, heapVars, logVars>>

\* Faulty variant: the index is advanced without storing the length.
StorePtrSkipsLen ==
  /\ wpc = "storePtr" /\ wpc' = "advanceHead"
  /\ Slot' = [Slot EXCEPT ![IPCHead] = ptr]
  /\ UNCHANGED <<ptr, pipe, SlotLen, IPCHead, IPCTail, guiVars, heapVars, logVars>>

StorePtr ==
  /\ wpc = "storePtr" /\ wpc' = "storeLen"
  /\ Slot' = [Slot EXCEPT ![IPCHead] = ptr]
  /\ UNCHANGED <<ptr, pipe, SlotLen, IPCHead, IPCTail, guiVars, heapVars, logVars>>

StoreLen ==
  /\ wpc = "storeLen" /\ wpc' = "advanceHead"
  /\ SlotLen' = [SlotLen EXCEPT ![IPCHead] = ptr]
  /\ UNCHANGED <<ptr, pipe, Slot, IPCHead, IPCTail, guiVars, heapVars, logVars>>

\* Faulty variants, for checking that the properties notice them: the index
\* is not wrapped; it is wrapped one slot early.
AdvanceHeadUnwrapped ==
  /\ wpc = "advanceHead" /\ wpc' = "post"
  /\ IPCHead' = IPCHead + 1
  /\ put' = put + 1
  /\ wrapped' = (wrapped \/ put' - Len(got) = Size)
  /\ UNCHANGED <<ptr, pipe, Slot, SlotLen, IPCTail, guiVars, heapVars, got,
                 heard>>
AdvanceHeadWrapsEarly ==
  /\ wpc = "advanceHead" /\ wpc' = "post"
  /\ IPCHead' = (IPCHead + 1) % (Size - 1)
  /\ put' = put + 1
  /\ wrapped' = (wrapped \/ put' - Len(got) = Size)
  /\ UNCHANGED <<ptr, pipe, Slot, SlotLen, IPCTail, guiVars, heapVars, got,
                 heard>>

\* Nothing compares IPCHead with IPCTail before it moves.
AdvanceHead ==
  /\ wpc = "advanceHead" /\ wpc' = "post"
  /\ IPCHead' = (IPCHead + 1) % Size
  /\ put' = put + 1
  /\ wrapped' = (wrapped \/ put' - Len(got) = Size)
  /\ UNCHANGED <<ptr, pipe, Slot, SlotLen, IPCTail, guiVars, heapVars, got,
                 heard>>

\* PostMessage refuses the command when the window is gone or the queue of the
\* GUI thread is full, which messages of any kind make it: it may refuse although
\* no command is queued.  The result is not looked at.
Post ==
  /\ wpc = "post" /\ wpc' = "answer"
  /\ \/ /\ frame /\ posted < QueueLimit
        /\ posted' = posted + 1 /\ heard' = put
     \/ UNCHANGED <<posted, heard>>
  /\ UNCHANGED <<ptr, pipe, ringVars, frame, gpc, gptr, glen, heapVars, put, got, wrapped>>

\* WriteFile(hPipe, "A"); its result is not looked at either.
Answer ==
  /\ wpc = "answer" /\ wpc' = "disconnect"
  /\ pipe' = "answered"
  /\ UNCHANGED <<ptr, ringVars, guiVars, heapVars, logVars>>

\* Faulty variant: every client gets a pipe instance of its own.
DisconnectRecreates ==
  /\ wpc = "disconnect" /\ wpc' = "create"
  /\ pipe' = "none"
  /\ UNCHANGED <<ptr, ringVars, guiVars, heapVars, logVars>>

Disconnect ==
  /\ wpc = "disconnect" /\ wpc' = "connect"
  /\ pipe' = "closed"
  /\ UNCHANGED <<ptr, ringVars, guiVars, heapVars, logVars>>

Worker ==
  \/ CreatePipe \/ ConnectNamedPipe \/ Accept \/ ReadDump \/ ReadNothing
  \/ StorePtr \/ StoreLen \/ AdvanceHead \/ Post \/ Answer \/ Disconnect

------------------------------------------------------------------------------
(* The GUI thread.                                                         *)

\* The message loop dispatches ID_DEBUG_IPC to OnOcr.
Dispatch ==
  /\ gpc = "idle" /\ posted > 0
  /\ gpc' = "check" /\ posted' = posted - 1
  /\ UNCHANGED <<workerVars, ringVars, frame, gptr, glen, heapVars, logVars>>

\* GetDebugIPCPtr: return 0 iff the indices are equal.
CheckEmpty ==
  /\ gpc = "check"
  /\ gpc' = IF IPCHead = IPCTail THEN "idle" ELSE "loadPtr"
  /\ UNCHANGED <<workerVars, ringVars, posted, frame, gptr, glen, heapVars, logVars>>

LoadPtr ==
  /\ gpc = "loadPtr" /\ gpc' = "loadLen"
  /\ gptr' = Slot[IPCTail]
  /\ UNCHANGED <<workerVars, ringVars, posted, frame, glen, heapVars, logVars>>

LoadLen ==
  /\ gpc = "loadLen" /\ gpc' = "advanceTail"
  /\ glen' = SlotLen[IPCTail]
  /\ UNCHANGED <<workerVars, ringVars, posted, frame, gptr, heapVars, logVars>>

\* Faulty variant: the dump is returned and stays in the ring.
AdvanceTailForgotten ==
  /\ gpc = "advanceTail" /\ gpc' = "handle"
  /\ got' = Append(got, gptr)
  /\ UNCHANGED <<workerVars, ringVars, posted, frame, gptr, glen, heapVars,
                 put, heard, wrapped>>

AdvanceTail ==
  /\ gpc = "advanceTail" /\ gpc' = "handle"
  /\ IPCTail' = (IPCTail + 1) % Size
  /\ got' = Append(got, gptr)
  /\ UNCHANGED <<workerVars, Slot, SlotLen, IPCHead, posted, frame, gptr, glen,
                 heapVars, put, heard, wrapped>>

\* GetIPCDataHeader reads the block.
HandleDump ==
  /\ gpc = "handle" /\ gpc' = "free"
  /\ misused' = (misused \/ gptr \in freed)
  /\ UNCHANGED <<workerVars, ringVars, posted, frame, gptr, glen, nalloc, freed,
                 logVars>>

\* Faulty variants: the block is not freed; one command handles one dump.
FreeDumpForgotten ==
  /\ gpc = "free" /\ gpc' = "check"
  /\ UNCHANGED <<workerVars, ringVars, posted, frame, gptr, glen, heapVars, logVars>>
FreeDumpAndStop ==
  /\ gpc = "free" /\ gpc' = "idle"
  /\ freed' = freed \cup {gptr}
  /\ misused' = (misused \/ gptr \in freed)
  /\ UNCHANGED <<workerVars, ringVars, posted, frame, gptr, glen, nalloc, logVars>>

\* LocalFree, and round the loop.
FreeDump ==
  /\ gpc = "free" /\ gpc' = "check"
  /\ freed' = freed \cup {gptr}
  /\ misused' = (misused \/ gptr \in freed)
  /\ UNCHANGED <<workerVars, ringVars, posted, frame, gptr, glen, nalloc, logVars>>

\* CMainFrame::OnFileClose.  OnOcr pumps no messages, so the window is never
\* destroyed inside it.  It is the main window: the message loop ends with it and
\* the process soon after.  The worker is not told, and may go on until then.
OnFileClose ==
  /\ frame /\ gpc = "idle"
  /\ frame' = FALSE /\ posted' = 0
  /\ UNCHANGED <<workerVars, ringVars, gpc, gptr, glen, heapVars, logVars>>

OnOcr ==
  \/ CheckEmpty \/ LoadPtr \/ LoadLen \/ AdvanceTail \/ HandleDump \/ FreeDump

Next == ClientConnect \/ ClientWrite \/ Worker \/ Dispatch \/ OnOcr \/ OnFileClose

Spec == Init /\ [][Next]_vars

\* The scheduler runs a thread that has something to do, and the message loop
\* takes a posted command.  No client has to connect, or to write, and once the
\* frame is closed the process may end with the worker at any of its steps.
Fairness == WF_vars(frame /\ Worker) /\ WF_vars(Dispatch) /\ WF_vars(OnOcr)

FairSpec == Spec /\ Fairness

------------------------------------------------------------------------------
(* Properties.                                                             *)

\* Every variable stays in the set of values the code can give it.
TypeOK ==
  /\ wpc \in {"create", "connect", "accept", "read", "storePtr", "storeLen",
              "advanceHead", "post", "answer", "disconnect", "exited"}
  /\ ptr \in Block
  /\ pipe \in {"none", "invalid", "created", "listening", "open", "dump",
               "unreadable", "read", "answered", "closed"}
  /\ Slot \in [Slots -> Block] /\ SlotLen \in [Slots -> Block]
  /\ IPCHead \in Slots /\ IPCTail \in Slots
  /\ posted \in 0..QueueLimit /\ frame \in BOOLEAN
  /\ gpc \in {"idle", "check", "loadPtr", "loadLen", "advanceTail", "handle",
              "free"}
  /\ gptr \in Block /\ glen \in Block
  /\ nalloc \in Nat /\ freed \subseteq Block /\ misused \in BOOLEAN
  /\ put \in Nat /\ got \in Seq(Block) /\ heard \in Nat /\ wrapped \in BOOLEAN

\* The dumps that are in the ring and that no GetDebugIPCPtr has returned.
Unread == Len(got)..(put - 1)

\* Until the ring overflows, the slots from IPCTail up to IPCHead hold exactly the
\* unread dumps, oldest first, each with its own length: the worker's stores
\* never touch a slot the GUI thread has still to read, whatever the order in
\* which the two threads' loads and stores interleave.
RingHoldsUnread ==
  ~wrapped => \A b \in Unread : Slot[b % Size] = b /\ SlotLen[b % Size] = b

\* Until the ring overflows, the pointer and the length GetDebugIPCPtr hands
\* to OnOcr belong to the same dump.
PtrMatchesLen ==
  ~wrapped /\ gpc \in {"advanceTail", "handle", "free"} => gptr = glen

\* Until the ring overflows, OnOcr neither reads nor frees a block that was
\* freed before.
NoBlockMisused == ~wrapped => ~misused

\* Until the ring overflows, no block is lost: each is in the worker's hands,
\* in the ring, in OnOcr's hands, or has been freed.
NoBlockLeaked ==
  ~wrapped => 0..(nalloc - 1) =
    freed \cup Unread
          \cup (IF wpc \in {"storePtr", "storeLen", "advanceHead"} THEN {ptr} ELSE {})
          \cup (IF gpc \in {"handle", "free"} THEN {gptr} ELSE {})

\* One accepted command is enough for all dumps before it.  When, with the frame
\* there, no command is queued and no drain runs, every dump that was put before
\* the last accepted command has been taken: what is left in the ring are dumps
\* whose own command was refused, and no command after theirs was accepted.  A
\* command that finds the ring drained, or several for one dump, do no harm.
\* After an overflow an accepted last command still leaves the ring empty.
NoLostWakeup ==
  frame /\ posted = 0 /\ gpc = "idle" =>
    /\ ~wrapped => heard <= Len(got)
    /\ heard = put => IPCHead = IPCTail

\* The channel is a FIFO mailbox for as long as a mailbox of Size slots is
\* told no more than it can hold.
Mailbox == INSTANCE DebugMailbox WITH
  accepted <- IF wrapped THEN 0 ELSE put,
  handed <- IF wrapped THEN <<>> ELSE got,
  void <- wrapped

ImplementsMailbox == Mailbox!Spec

\* Every dump is freed in the end if its command, or any later one, is accepted,
\* unless the ring overflows or the frame is closed first.
EveryDumpHandled ==
  \A b \in 0..(MaxBlocks - 1) : heard > b ~> (b \in freed \/ wrapped \/ ~frame)

\* A client that has written a dump is answered, unless the frame is closed first:
\* a client of a worker that has come past ConnectNamedPipe, whatever becomes of
\* the command, and every client after the first dump wherever the worker is.
\* Only before that can a client come too early and end the worker.
EveryClientAnswered ==
  pipe = "dump" /\ (wpc \in {"accept", "read"} \/ put > 0)
    ~> (pipe = "answered" \/ ~frame)
==============================================================================
