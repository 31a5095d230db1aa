--------------------------- MODULE MCNNRTraining ---------------------------
(* Files of up to two groups and of two shapes are accepted; one more is  *)
(* too many.                                                                 *)
EXTENDS NNRTraining

MCMaxGroups == 2
MCMaxShape == 2
==============================================================================
