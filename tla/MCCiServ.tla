------------------------------ MODULE MCCiServ ------------------------------
EXTENDS CiServProps, TLC

CONSTANT FdLimit
MCFds == 1..FdLimit

Alike == Permutations(Clients)
=============================================================================
