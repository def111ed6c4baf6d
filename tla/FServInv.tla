------------------------------ MODULE FServInv ------------------------------
(***************************************************************************)
(* The inductive invariants of the file server: what is true between any   *)
(* two system calls, of every thread at its place in FOPEN or FCLOSE, and  *)
(* makes the properties of FServProps follow.                              *)
(***************************************************************************)
EXTENDS FServProps

-----------------------------------------------------------------------------
(* What holds whatever happens.                                            *)

(* A FOPEN in progress has a file name, which create_file and              *)
(* write_descriptor use.                                                   *)
Named == \A c \in Clients : pc[c] \in OpenSteps => frame[c].file \in Files

(* The callees' variables that a request has not set yet.                  *)
Blank ==
  \A c \in Clients :
    LET fr == frame[c] IN
    /\ pc[c] \in {"off", "idle"} => fr = NoFrame
    /\ pc[c] \in OpenSteps => fr.op = "FOPEN"
    /\ pc[c] \in CloseSteps => fr.op = "FCLOSE id x"
    /\ pc[c] \in {"chk_open", "chk_scan", "create"} => fr.fp = -1
    /\ pc[c] \in {"del_src", "del_dst"} => fr.rd = 0 /\ fr.wr = 0 /\ ~fr.found

(* A FOPEN that answers OK or ERR still has the lock.                      *)
AnswerLocks ==
  \A c \in Clients :
    pc[c] = "reply" /\ frame[c].op = "FOPEN"
      /\ frame[c].ans.kind \in {"OK", "ERR"} => lock = c

(* A process that has ended has no threads and no descriptors.             *)
DownClean ==
  ~up => /\ \A c \in Clients : pc[c] = "off"
         /\ \A k \in Fds : fds[k] = Free

(* An inode with records is one of the two files, or still open.           *)
Referenced ==
  \A i \in Inodes :
    disk[i] # <<>> => i \in {table, cache} \/ \E k \in Fds : fds[k] = Meta(i)

Tidy == /\ TypeOK /\ Named /\ OpensExclude /\ LockHeldInside
        /\ Blank /\ AnswerLocks /\ DownClean /\ Referenced

-----------------------------------------------------------------------------
(* What holds until the first mishap.                                      *)

(* A FCLOSE is alone: no FOPEN has the lock, no other FCLOSE runs.         *)
CloseAlone ==
  \A c \in Clients :
    InClose(c) => lock = None /\ \A d \in Clients : InClose(d) => d = c

(* The two directory entries, as the FCLOSE in progress has left them.     *)
TwoFiles ==
  /\ cache # None
       <=> \E c \in Clients : pc[c] \in {"del_copy", "del_remove", "del_rename"}
  /\ up => (table = None <=> \E c \in Clients : pc[c] = "del_rename")
  /\ cache # None => cache # table

(* The descriptors through which a thread reads or writes the table and    *)
(* the cache are descriptors of these two files.                           *)
ThroughTable(c) ==
  LET fr == frame[c] IN
  /\ pc[c] \in {"chk_scan", "wd_write", "del_dst", "del_copy"} =>
       fr.src \in Fds /\ fds[fr.src] = Meta(table)
  /\ pc[c] = "del_copy" => fr.dst \in Fds /\ fds[fr.dst] = Meta(cache)

(* What create_file returned is open on the name, or the name cannot be    *)
(* opened; and check_descriptor did not find the name in the table.        *)
Creating(c) ==
  LET fr == frame[c] IN
  /\ pc[c] \in {"wd_open", "wd_write"} =>
       \/ fr.fp \in Fds /\ fds[fr.fp] = Data(fr.file)
       \/ fr.fp = -1 /\ fr.file \in Unopenable
  /\ pc[c] \in {"create", "wd_open", "wd_write"} =>
       \A r \in RecordsOf(table) : r.name # fr.file

(* The records of the first n that do not carry the identifier.            *)
Kept(recs, n, id) == {recs[m] : m \in {j \in 1..n : recs[j].fd # id}}

(* The copying loop: what the cache holds is what it should of the part of *)
(* the table that has been read, and both offsets are where they should be.*)
Copying(c) ==
  LET fr == frame[c] IN
  /\ pc[c] = "del_copy" =>
       /\ fr.rd <= Len(disk[table]) /\ fr.wr = Len(disk[cache])
       /\ RecordsOf(cache) = Kept(disk[table], fr.rd, fr.id)
       /\ fr.found <=> \E n \in 1..fr.rd : disk[table][n].fd = fr.id
  /\ pc[c] = "del_remove" =>
       /\ RecordsOf(cache) = {r \in RecordsOf(table) : r.fd # fr.id}
       /\ fr.found <=> \E r \in RecordsOf(table) : r.fd = fr.id

(* Between rename and close() the registry no longer has the identifier,   *)
(* and what is to be closed is a file.                                     *)
Closing(c) ==
  LET fr == frame[c] IN
  /\ pc[c] = "del_rename" => fr.gone
  /\ pc[c] = "del_close" => fr.found
  /\ pc[c] \in {"del_rename", "del_close"} => \A r \in RegView : r.fd # fr.id
  /\ pc[c] \in {"del_rename", "del_close"} /\ fr.id \in Fds =>
       (fr.found <=> \E f \in Files : fds[fr.id] = Data(f))

(* The answer of a FOPEN is true.                                          *)
Truthful(c) ==
  LET fr == frame[c] IN
  pc[c] = "reply" /\ fr.op = "FOPEN" =>
    /\ fr.ans.kind = "OK" =>
         /\ fr.ans.n \in Fds /\ fds[fr.ans.n] = Data(fr.file)
         /\ [name |-> fr.file, fd |-> fr.ans.n] \in RegView
    /\ fr.ans.kind = "ERR" =>
         \/ fr.ans.n \in Fds /\ fds[fr.ans.n] = Data(fr.file)
         \/ fr.ans.n = -1 /\ fr.file \in Unopenable

Sound(c) == ThroughTable(c) /\ Creating(c) /\ Copying(c) /\ Closing(c)
            /\ Truthful(c)

(* Everything a FOPEN or a FCLOSE relies on, at each of its system calls.  *)
Orderly == /\ CloseAlone /\ TwoFiles /\ RecordsTrue /\ NoLeak
           /\ \A c \in Clients : Sound(c)

(* It holds until the first mishap (descriptor.cc:43-162,                  *)
(* fserv.cc:103-158).                                                      *)
Undisturbed == Calm => Orderly
=============================================================================
