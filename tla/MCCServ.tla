------------------------------ MODULE MCCServ ------------------------------
EXTENDS CServProps, TLC

Alike == Permutations(Conns)
=============================================================================
