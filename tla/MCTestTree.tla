----------------------------- MODULE MCTestTree ------------------------------
(* A chain of two folders below the top, the upper one called `Fail`: tests  *)
(* may begin at, above and below it.                                         *)
EXTENDS TestTree, TLC

CONSTANTS Root, FailFolder, Deep

MCFolders == {Root, FailFolder, Deep}
MCParent == [d \in MCFolders |->
  IF d = Root THEN None ELSE IF d = FailFolder THEN Root ELSE FailFolder]
MCFail == {FailFolder}
MCSymmetry == Permutations(Images)
=============================================================================
