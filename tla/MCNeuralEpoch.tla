--------------------------- MODULE MCNeuralEpoch ----------------------------
EXTENDS NeuralEpoch

MCErrors == {0, 1, 2}
=============================================================================
