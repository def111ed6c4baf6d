------------------------------ MODULE MCFServ ------------------------------
(***************************************************************************)
(* Instances of FServ for TLC.  Descriptor numbers start at 1, as if main  *)
(* held only stdin: the listening socket and the standard streams are      *)
(* constants of every run and take no number of FdLimit.                   *)
(***************************************************************************)
EXTENDS FServProps, TLC

CONSTANTS FdLimit, InodeLimit, RecordLimit

MCFds == 1..FdLimit
MCInodes == 1..InodeLimit

(* Bounds what is explored after a mishap: one kind of mishap in a         *)
(* behaviour, short tables, and no name that cannot be opened.             *)
OneMishap ==
  \/ mishaps = {}
  \/ /\ Cardinality(mishaps) = 1
     /\ \A i \in Inodes : Len(disk[i]) <= RecordLimit
     /\ \A c \in Clients : frame[c].file \notin Unopenable

Alike == Permutations(Clients)
=============================================================================
