---------------------------- MODULE FileRegistry ----------------------------
(***************************************************************************)
(* What the file server promises its clients about descriptors: one        *)
(* registry of open files, shared by all of them.  A file name is entered  *)
(* at most once, with the descriptor it was opened on; closing a           *)
(* descriptor removes the entries that carry it; a restart empties it.     *)
(* No interleaving, no lock and no table file: every operation is atomic.  *)
(* Who may ask for a removal and when the server restarts is left open, so *)
(* what an implementation shows is mainly what it adds.                    *)
(***************************************************************************)
EXTENDS Integers

CONSTANTS Files,      \* file names clients may open
          Fds         \* descriptor numbers the process may be given

VARIABLE reg          \* the registry: a set of entries

Entry == [name : Files, fd : Fds \cup {-1}]

Register(f, k) ==
  /\ \A e \in reg : e.name # f
  /\ reg' = reg \cup {[name |-> f, fd |-> k]}

Deregister(k) == reg' = {e \in reg : e.fd # k}

Reset == reg' = {}

Init == reg = {}

Next == \/ \E f \in Files, k \in Fds \cup {-1} : Register(f, k)
        \/ \E k \in Fds \cup {-1} : Deregister(k)
        \/ Reset

Spec == Init /\ [][Next]_reg

TypeOK == reg \subseteq Entry

NameOnce == \A e1, e2 \in reg : e1.name = e2.name => e1 = e2
=============================================================================
