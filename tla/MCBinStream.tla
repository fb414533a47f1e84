---------------------------- MODULE MCBinStream -----------------------------
EXTENDS BinStream

Models2 == {InitModel(26, 35, 8), InitModel(51, 8, 0)}
Strings == {<<16, 257>>, <<16, 65535>>, <<11, 0>>}
=============================================================================
