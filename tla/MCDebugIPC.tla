----------------------------- MODULE MCDebugIPC -----------------------------
(* A ring of four slots, a queue of two and seven dumps.                   *)
EXTENDS DebugIPC

MCSize == 4
MCQueueLimit == 2
MCMaxBlocks == 7
==============================================================================
