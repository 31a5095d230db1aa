----------------------------- MODULE MCNNRFiles -----------------------------
(* Folders of two classes of unequal length, of one class or none, with a class *)
(* that has no file of the expected size, the first or the last, and with  *)
(* an unreadable file among others.                                        *)
EXTENDS NNRFiles

Folder(name, classes) == [name |-> name, classes |-> classes]

MCFolders ==
  {Folder(1, <<<<1, 1>>, <<1, 1, 1, 1>>>>), Folder(2, <<<<2>>>>),
   Folder(3, <<<<1>>, <<2, 1>>>>), Folder(4, <<<<1, 0, 1, 1, 1>>>>),
   Folder(5, <<<<2, 1>>>>), Folder(6, <<>>)}

MCWeightPlace == Folder(0, <<>>)

MCHidden == {[first |-> 2, second |-> 1], [first |-> 3, second |-> 2]}
MCSmallHidden == {[first |-> 2, second |-> 1]}
=============================================================================
