----------------------------- MODULE FServProps -----------------------------
(***************************************************************************)
(* What the file server guarantees, and on which condition.  Nothing in    *)
(* fserv.cc orders a FCLOSE with respect to any other table operation,     *)
(* checks for a full descriptor table inside descriptor.cc, or clears a    *)
(* cache file left by a dead process; the history variable mishaps records *)
(* these three events, and most guarantees hold until the first of them.   *)
(***************************************************************************)
EXTENDS FServ

TypeOK ==
  /\ up \in BOOLEAN
  /\ pc \in [Clients -> Places]
  /\ frame \in [Clients -> Frame]
  /\ lock \in Clients \cup {None}
  /\ fds \in [Fds -> Objects]
  /\ table \in Inodes \cup {None}
  /\ cache \in Inodes \cup {None}
  /\ disk \in [Inodes -> Seq(Record)]
  /\ mishaps \subseteq {"overlap", "emfile", "torn"}

Calm == mishaps = {}

RecordsOf(i) == {disk[i][n] : n \in DOMAIN disk[i]}

(* The registry the two files stand for: between the remove() and the      *)
(* rename() of a FCLOSE it is the cache.                                   *)
RegView == IF table # None THEN RecordsOf(table)
           ELSE IF cache # None THEN RecordsOf(cache)
           ELSE {}

Registry == INSTANCE FileRegistry WITH reg <- RegView

-----------------------------------------------------------------------------
(* The trylock protects exactly the FOPEN that got it: between its trylock *)
(* and its unlock (fserv.cc:113-137) no other thread is in one of the      *)
(* steps that read or extend the table for a FOPEN.  Holds after every     *)
(* mishap, crash and restart.                                              *)
OpensExclude ==
  \A c \in Clients : pc[c] \in OpenSteps => lock = c

(* The lock is never left behind: its owner is inside its FOPEN, on its    *)
(* way to the reply that unlocks it, or has lost the table and spins.      *)
LockHeldInside ==
  lock # None => pc[lock] \in OpenSteps \cup {"reply", "spin"}

(* Until a mishap every record of the table (descriptor.cc:62, 94-117)     *)
(* tells the truth: its descriptor is open on the named file, or is the -1 *)
(* that write_descriptor stored for a name that could not be opened; and a *)
(* name is recorded once.  A FCLOSE takes the record out of the registry   *)
(* before it closes the descriptor, so this holds inside one as well.      *)
RecordsTrue ==
  up /\ Calm =>
    \A r \in RegView :
      /\ \/ r.fd # -1 /\ fds[r.fd] = Data(r.name)
         \/ r.fd = -1 /\ r.name \in Unopenable
      /\ \A q \in RegView : q.name = r.name => q = r

(* Until a mishap no descriptor leaks: one that is open on a file is in    *)
(* the registry, is about to be written there by the FOPEN that created    *)
(* it, or is about to be closed by the FCLOSE that removed it.             *)
NoLeak ==
  up /\ Calm =>
    \A k \in Fds : \A f \in Files : fds[k] = Data(f) =>
      \/ [name |-> f, fd |-> k] \in RegView
      \/ \E c \in Clients : /\ pc[c] \in {"wd_open", "wd_write"}
                            /\ frame[c].fp = k
      \/ \E c \in Clients : /\ pc[c] \in {"del_rename", "del_close"}
                            /\ frame[c].found /\ frame[c].id = k

(* Until a mishap what FOPEN answers (fserv.cc:121-136) is still so when   *)
(* it is sent: OK n, and n is open on the file and recorded; ERR n, and n  *)
(* is open on that file already, or the name cannot be opened.             *)
AnswersTrue ==
  \A c \in Clients :
    LET fr == frame[c] IN
    Calm /\ pc[c] = "reply" /\ fr.op = "FOPEN" =>
      /\ fr.ans.kind = "OK" =>
           /\ fds[fr.ans.n] = Data(fr.file)
           /\ [name |-> fr.file, fd |-> fr.ans.n] \in RegView
      /\ fr.ans.kind = "ERR" =>
           \/ fr.ans.n # -1 /\ fds[fr.ans.n] = Data(fr.file)
           \/ fr.ans.n = -1 /\ fr.file \in Unopenable

(* A client that is told "OK n" (fserv.cc:121-125) owns an open, recorded  *)
(* descriptor when nobody sends FCLOSE, also after the descriptor table    *)
(* has been full or the process has been restarted.                        *)
OkTrue ==
  \A c \in Clients :
    LET fr == frame[c] IN
    pc[c] = "reply" /\ fr.op = "FOPEN" /\ fr.ans.kind = "OK" =>
      /\ fds[fr.ans.n] = Data(fr.file)
      /\ [name |-> fr.file, fd |-> fr.ans.n] \in RegView

(* A cache file outlives the FCLOSE that writes it only if the process     *)
(* died inside it (descriptor.cc:123-156): then the next FCLOSE renames    *)
(* the remains over the table.                                             *)
CacheInsideClose ==
  Calm /\ up /\ cache # None => \E c \in Clients : InClose(c)

(* Until a mishap every step of the server is one step of the registry or  *)
(* none: one record is added, when its name is new, or all those of one    *)
(* descriptor go, or all there are.  Which descriptor, and when, is not    *)
(* said here but by RecordsTrue and NoLeak.                                *)
RegistryStep == [][mishaps' # {} \/ Registry!Next]_RegView

(* Every request is answered, unless a mishap or the end of the process    *)
(* intervenes.                                                             *)
Busy(c) == pc[c] \notin {"off", "idle"}

Answered == \A c \in Clients : Busy(c) ~> ~Busy(c) \/ ~Calm

-----------------------------------------------------------------------------
(* With clients that never send FCLOSE the server implements the registry, *)
(* whatever else goes wrong.                                               *)
RegistrySpec == Registry!Spec
=============================================================================
