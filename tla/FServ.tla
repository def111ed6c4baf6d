------------------------------- MODULE FServ -------------------------------
(***************************************************************************)
(* The file server (file_server/fserv.cc) and the descriptor table it      *)
(* keeps in the file file_table (file_server/descriptor.cc).               *)
(*                                                                         *)
(* One detached thread serves each connection.  FOPEN runs under a mutex   *)
(* taken with pthread_mutex_trylock; FCLOSE rewrites the table through     *)
(* file_table_cache and takes no lock.  The unit of interleaving is the    *)
(* system call; the kernel's descriptor table, the two directory entries   *)
(* and the inodes behind them are state of the model, so that a removed    *)
(* table that a thread still reads, or a descriptor number that is closed  *)
(* and given out again, behave as they do on the machine.                  *)
(***************************************************************************)
EXTENDS Integers, Sequences, FiniteSets

CONSTANTS
  Clients,      \* connections, each with the thread that serves it
  Closers,      \* the clients that send FCLOSE
  Files,        \* names clients give to FOPEN
  Unopenable,   \* the names open() refuses (a directory, no permission)
  Fds,          \* descriptor numbers left to the process below its limit
  Inodes,       \* inodes the two table files can occupy
  None

ASSUME ConstantsOK ==
  /\ Closers \subseteq Clients
  /\ Unopenable \subseteq Files
  /\ Fds \subseteq Nat \ {0}
  /\ Inodes \subseteq Nat
  /\ None \notin Clients \cup Files \cup Inodes

VARIABLES
  up,       \* the server process runs
  pc,       \* where each client's thread is
  frame,    \* the local variables of do_client and of its callees
  lock,     \* pthread_mutex_t lock: its owner, or None
  fds,      \* the process's descriptor table
  table,    \* inode of the directory entry file_table, or None
  cache,    \* inode of the directory entry file_table_cache, or None
  disk,     \* the records each inode holds
  mishaps   \* history: what has happened that the code does not guard against

vars == <<up, pc, frame, lock, fds, table, cache, disk, mishaps>>

Numbers == Fds \cup {-1}

Record == [name : Files, fd : Numbers]

Free    == [kind |-> "free", of |-> None]
Sock(c) == [kind |-> "socket", of |-> c]
Data(f) == [kind |-> "data", of |-> f]
Meta(i) == [kind |-> "meta", of |-> i]

Objects == {Free} \cup {Sock(c) : c \in Clients} \cup {Data(f) : f \in Files}
                  \cup {Meta(i) : i \in Inodes}

Said(kind, n) == [kind |-> kind, n |-> n]
Silence == Said("none", 0)

Answer == [kind : {"none", "OK", "FAIL", "ERR"}, n : Numbers \cup {0}]

(* fp: what create_file returned; src, dst: the descriptors of the table   *)
(* and of the cache; rd, wr: records read and written through them.        *)
Frame == [op : {"none", "FOPEN", "FCLOSE id", "FCLOSE id x"},
          file : Files \cup {None}, id : Numbers, fp : Numbers,
          src : Numbers, dst : Numbers, rd : Nat, wr : Nat,
          found : BOOLEAN, gone : BOOLEAN, ans : Answer]

NoFrame == [op |-> "none", file |-> None, id |-> -1, fp |-> -1, src |-> -1,
            dst |-> -1, rd |-> 0, wr |-> 0, found |-> FALSE, gone |-> FALSE,
            ans |-> Silence]

OpenSteps  == {"chk_open", "chk_scan", "create", "wd_open", "wd_write"}
CloseSteps == {"del_src", "del_dst", "del_copy", "del_remove", "del_rename",
               "del_close"}
Places == OpenSteps \cup CloseSteps \cup {"off", "idle", "reply", "spin"}

InClose(c) == pc[c] \in CloseSteps

-----------------------------------------------------------------------------
(* The kernel: open() gives the lowest free number, and an inode lives as  *)
(* long as a directory entry or a descriptor refers to it.                 *)

Lowest(k) == fds[k] = Free /\ \A j \in Fds : fds[j] = Free => k <= j
Exhausted == \A k \in Fds : fds[k] # Free

Fresh(i) ==
  LET unused(j) == table # j /\ cache # j /\ \A k \in Fds : fds[k] # Meta(j)
  IN  unused(i) /\ \A j \in Inodes : unused(j) => i <= j

Closed(ks) == [k \in Fds |-> IF k \in ks THEN Free ELSE fds[k]]

Reclaimed(d, t, ca, f) ==
  [i \in Inodes |-> IF i \in {t, ca} \/ \E k \in Fds : f[k] = Meta(i)
                    THEN d[i] ELSE <<>>]

Goto(c, p) == pc' = [pc EXCEPT ![c] = p]

(* The answer is ready; the callees' variables are dead.                   *)
Finish(c, answer) ==
  /\ Goto(c, "reply")
  /\ frame' = [frame EXCEPT ![c] =
       [NoFrame EXCEPT !.op = frame[c].op, !.file = frame[c].file,
                       !.id = frame[c].id, !.ans = answer]]

(* The thread loops for ever and looks at nothing it has.                  *)
Spin(c) ==
  /\ Goto(c, "spin")
  /\ frame' = [frame EXCEPT ![c] = NoFrame]

Note(set) == mishaps' = mishaps \cup set

(* open() of the inode i returns k: the lowest free number, or -1 when     *)
(* there is no such file or no number is left.                             *)
OpenMeta(i, k) ==
  \/ /\ i # None /\ k \in Fds /\ Lowest(k)
     /\ fds' = [fds EXCEPT ![k] = Meta(i)]
     /\ UNCHANGED mishaps
  \/ /\ i = None \/ Exhausted
     /\ k = -1
     /\ Note(IF Exhausted THEN {"emfile"} ELSE {})
     /\ UNCHANGED fds

-----------------------------------------------------------------------------
(* The process: main, clear_descriptor, initiate_descriptor, accept.       *)

Init ==
  /\ up = FALSE
  /\ pc = [c \in Clients |-> "off"]
  /\ frame = [c \in Clients |-> NoFrame]
  /\ lock = None
  /\ fds = [k \in Fds |-> Free]
  /\ table = None
  /\ cache = None
  /\ disk = [i \in Inodes |-> <<>>]
  /\ mishaps = {}

(* The old file_table is removed and an empty one created; nothing touches *)
(* a file_table_cache that an earlier process left behind.                 *)
Start ==
  /\ ~up
  /\ up' = TRUE
  /\ \E i \in Inodes : Fresh(i) /\ table' = i
  /\ disk' = [Reclaimed(disk, table', cache, fds) EXCEPT ![table'] = <<>>]
  /\ UNCHANGED <<pc, frame, lock, fds, cache, mishaps>>

(* The process ends: its threads, its mutex and its descriptors are gone,  *)
(* the files stay.  It is torn when it leaves a half-written cache.        *)
Die ==
  /\ up' = FALSE
  /\ pc' = [c \in Clients |-> "off"]
  /\ frame' = [c \in Clients |-> NoFrame]
  /\ lock' = None
  /\ fds' = [k \in Fds |-> Free]
  /\ disk' = Reclaimed(disk, table, cache, fds')
  /\ Note(IF cache # None THEN {"torn"} ELSE {})
  /\ UNCHANGED <<table, cache>>

(* A kill, a fault in any thread, or SIGPIPE from a send.                  *)
Crash == up /\ Die

Accept(c) ==
  /\ up /\ pc[c] = "off"
  /\ \E k \in Fds : Lowest(k) /\ fds' = [fds EXCEPT ![k] = Sock(c)]
  /\ Goto(c, "idle")
  /\ UNCHANGED <<up, frame, lock, table, cache, disk, mishaps>>

(* accept() failing with anything but EINTR makes main return.             *)
AcceptFails ==
  /\ up /\ Exhausted
  /\ \E c \in Clients : pc[c] = "off"
  /\ Die

-----------------------------------------------------------------------------
(* Requests.  A thread reads the next one only from its own socket.        *)

Listening(c) == pc[c] = "idle" /\ \E k \in Fds : fds[k] = Sock(c)

(* "quit" or end of file: the socket is closed, opened files are not.      *)
Quit(c) ==
  /\ Listening(c)
  /\ fds' = Closed({k \in Fds : fds[k] = Sock(c)})
  /\ Goto(c, "off")
  /\ UNCHANGED <<up, frame, lock, table, cache, disk, mishaps>>

(* A variation of Fopen: the result of trylock is not looked at.           *)
FopenUnguarded(c, f) ==
  /\ Listening(c)
  /\ lock' = c
  /\ Goto(c, "chk_open")
  /\ frame' = [frame EXCEPT ![c] =
       [@ EXCEPT !.op = "FOPEN", !.file = f]]
  /\ Note(IF \E d \in Clients : InClose(d) THEN {"overlap"} ELSE {})
  /\ UNCHANGED <<up, fds, table, cache, disk>>

Fopen(c, f) ==
  /\ Listening(c)
  /\ \/ /\ lock = None
        /\ lock' = c
        /\ Goto(c, "chk_open")
        /\ frame' = [frame EXCEPT ![c] =
             [@ EXCEPT !.op = "FOPEN", !.file = f]]
        /\ Note(IF \E d \in Clients : InClose(d) THEN {"overlap"} ELSE {})
     \/ /\ lock # None
        /\ Goto(c, "reply")
        /\ frame' = [frame EXCEPT ![c] =
             [@ EXCEPT !.op = "FOPEN", !.file = f, !.ans = Said("FAIL", 0)]]
        /\ UNCHANGED <<lock, mishaps>>
  /\ UNCHANGED <<up, fds, table, cache, disk>>

(* FCLOSE wants three tokens.                                              *)
Fclose(c, n) ==
  /\ Listening(c) /\ c \in Closers
  /\ Goto(c, "del_src")
  /\ frame' = [frame EXCEPT ![c] =
       [@ EXCEPT !.op = "FCLOSE id x", !.id = n]]
  /\ Note(IF lock # None \/ \E d \in Clients : InClose(d)
          THEN {"overlap"} ELSE {})
  /\ UNCHANGED <<up, lock, fds, table, cache, disk>>

(* A variation of FcloseImproper: the request falls through to the last    *)
(* branch, which acknowledges what it does not know.                       *)
FcloseUnknown(c, n) ==
  /\ Listening(c) /\ c \in Closers
  /\ Goto(c, "reply")
  /\ frame' = [frame EXCEPT ![c] =
       [@ EXCEPT !.op = "FCLOSE id", !.id = n, !.ans = Said("ACK", 0)]]
  /\ UNCHANGED <<up, lock, fds, table, cache, disk, mishaps>>

FcloseImproper(c, n) ==
  /\ Listening(c) /\ c \in Closers
  /\ Goto(c, "reply")
  /\ frame' = [frame EXCEPT ![c] =
       [@ EXCEPT !.op = "FCLOSE id", !.id = n, !.ans = Said("FAIL", 0)]]
  /\ UNCHANGED <<up, lock, fds, table, cache, disk, mishaps>>

(* A variation of Reply: the unlock of fserv.cc:137 is missing.            *)
ReplyLocked(c) ==
  /\ pc[c] = "reply"
  /\ Goto(c, "idle")
  /\ frame' = [frame EXCEPT ![c] = NoFrame]
  /\ UNCHANGED <<up, lock, fds, table, cache, disk, mishaps>>

(* send(), and for a FOPEN that got the lock pthread_mutex_unlock().       *)
Reply(c) ==
  /\ pc[c] = "reply"
  /\ Goto(c, "idle")
  /\ lock' = IF lock = c THEN None ELSE lock
  /\ frame' = [frame EXCEPT ![c] = NoFrame]
  /\ UNCHANGED <<up, fds, table, cache, disk, mishaps>>

-----------------------------------------------------------------------------
(* FOPEN under the lock: check_descriptor, create_file, write_descriptor.  *)

ChkOpen(c) ==
  /\ pc[c] = "chk_open"
  /\ \E k \in Numbers : /\ OpenMeta(table, k)
                        /\ frame' = [frame EXCEPT ![c].src = k]
  /\ Goto(c, "chk_scan")
  /\ UNCHANGED <<up, lock, table, cache, disk>>

(* A variation of ChkScan: only the first record is looked at.             *)
ChkScanFirst(c) ==
  LET k == frame[c].src
      recs == disk[fds[k].of]
      hit == recs # <<>> /\ recs[1].name = frame[c].file
  IN  /\ pc[c] = "chk_scan"
      /\ k # -1 /\ fds[k].kind = "meta"
      /\ IF hit THEN Finish(c, Said("ERR", recs[1].fd))
                ELSE /\ Goto(c, "create")
                     /\ frame' = [frame EXCEPT ![c].src = -1]
      /\ fds' = Closed({k})
      /\ disk' = Reclaimed(disk, table, cache, fds')
      /\ UNCHANGED <<up, lock, table, cache, mishaps>>

(* Reading stops at the first record of that name, whose descriptor is     *)
(* returned; the end of the file returns 0, "not open".                    *)
ChkScan(c) ==
  LET k == frame[c].src
      recs == disk[fds[k].of]
      hit(n) == /\ recs[n].name = frame[c].file
                /\ \A m \in 1..(n-1) : recs[m].name # frame[c].file
  IN  /\ pc[c] = "chk_scan"
      /\ k # -1 /\ fds[k].kind = "meta"
      /\ \/ \E n \in DOMAIN recs :
              hit(n) /\ Finish(c, Said("ERR", recs[n].fd))
         \/ /\ \A n \in DOMAIN recs : recs[n].name # frame[c].file
            /\ Goto(c, "create")
            /\ frame' = [frame EXCEPT ![c].src = -1]
      /\ fds' = Closed({k})
      /\ disk' = Reclaimed(disk, table, cache, fds')
      /\ UNCHANGED <<up, lock, table, cache, mishaps>>

(* read() on a descriptor that is not the table's returns -1 for ever and  *)
(* the loop works on a buffer nobody has written: the process faults (see  *)
(* Crash), or the leftovers of a record match and its number is answered,  *)
(* or it spins.  (Leftovers of anything else than a record, with 0 for a   *)
(* number, would have the name created; no record holds 0.)                *)
ChkLost(c) ==
  /\ pc[c] = "chk_scan"
  /\ \/ frame[c].src = -1
     \/ frame[c].src # -1 /\ fds[frame[c].src].kind # "meta"
  /\ \/ \E n \in Fds \cup {-1} : Finish(c, Said("ERR", n))
     \/ Spin(c)
  /\ UNCHANGED <<up, lock, fds, table, cache, disk, mishaps>>

Create(c) ==
  /\ pc[c] = "create"
  /\ LET f == frame[c].file IN
     \/ /\ f \notin Unopenable
        /\ \E k \in Fds : /\ Lowest(k)
                          /\ fds' = [fds EXCEPT ![k] = Data(f)]
                          /\ frame' = [frame EXCEPT ![c].fp = k]
        /\ UNCHANGED mishaps
     \/ /\ f \in Unopenable \/ Exhausted
        /\ Note(IF Exhausted THEN {"emfile"} ELSE {})
        /\ UNCHANGED <<fds, frame>>
  /\ Goto(c, "wd_open")
  /\ UNCHANGED <<up, lock, table, cache, disk>>

WdOpen(c) ==
  /\ pc[c] = "wd_open"
  /\ \E k \in Numbers : /\ OpenMeta(table, k)
                        /\ frame' = [frame EXCEPT ![c].src = k]
  /\ Goto(c, "wd_write")
  /\ UNCHANGED <<up, lock, table, cache, disk>>

(* A variation of WdWrite: the answer depends on create_file alone.        *)
WdWriteBlind(c) ==
  LET k == frame[c].src
      fp == frame[c].fp
      rec == [name |-> frame[c].file, fd |-> fp]
      written == IF k # -1 /\ fds[k].kind = "meta"
                 THEN [disk EXCEPT ![fds[k].of] = Append(@, rec)] ELSE disk
  IN  /\ pc[c] = "wd_write"
      /\ fds' = Closed({k})
      /\ disk' = Reclaimed(written, table, cache, fds')
      /\ Finish(c, IF fp # -1 THEN Said("OK", fp) ELSE Said("FAIL", 0))
      /\ UNCHANGED <<up, lock, table, cache, mishaps>>

(* The record is appended whether or not create_file succeeded; when the   *)
(* table cannot be opened fp stays open and nothing records it.            *)
WdWrite(c) ==
  LET k == frame[c].src
      fp == frame[c].fp
      rec == [name |-> frame[c].file, fd |-> fp]
      i == fds[k].of
      written == IF fds[k].kind = "meta"
                 THEN [disk EXCEPT ![i] = Append(@, rec)] ELSE disk
  IN  /\ pc[c] = "wd_write"
      /\ \/ /\ k = -1
            /\ Finish(c, Said("FAIL", 0))
            /\ UNCHANGED <<fds, disk>>
         \/ /\ k # -1
            /\ fds' = Closed({k})
            /\ disk' = Reclaimed(written, table, cache, fds')
            /\ Finish(c, IF fp # -1 THEN Said("OK", fp) ELSE Said("FAIL", 0))
      /\ UNCHANGED <<up, lock, table, cache, mishaps>>

-----------------------------------------------------------------------------
(* FCLOSE: delete_descriptor, with no lock.                                *)

DelSrc(c) ==
  /\ pc[c] = "del_src"
  /\ \E k \in Numbers : /\ OpenMeta(table, k)
                        /\ frame' = [frame EXCEPT ![c].src = k]
  /\ Goto(c, "del_dst")
  /\ UNCHANGED <<up, lock, table, cache, disk>>

(* O_CREAT without O_TRUNC: an existing cache keeps its records.           *)
DelDst(c) ==
  /\ pc[c] = "del_dst"
  /\ \/ cache # None /\ UNCHANGED cache
     \/ cache = None /\ ~Exhausted /\ \E i \in Inodes : Fresh(i) /\ cache' = i
     \/ cache = None /\ Exhausted /\ UNCHANGED cache
  /\ \E k \in Numbers : /\ OpenMeta(cache', k)
                        /\ frame' = [frame EXCEPT ![c].dst = k]
  /\ Goto(c, "del_copy")
  /\ UNCHANGED <<up, lock, table, disk>>

WriteAt(recs, n, r) ==
  IF n <= Len(recs) THEN [recs EXCEPT ![n] = r] ELSE Append(recs, r)

(* Two variations of DelCopy: the record that is found is copied as well;  *)
(* and the loop does not get past it.                                      *)
DelCopyAll(c) ==
  LET fr == frame[c]
      recs == disk[fds[fr.src].of]
      r == recs[fr.rd + 1]
      i == fds[fr.dst].of
  IN  /\ pc[c] = "del_copy"
      /\ fr.src # -1 /\ fds[fr.src].kind = "meta"
      /\ fr.rd < Len(recs)
      /\ frame' = [frame EXCEPT ![c] =
           [fr EXCEPT !.rd = @ + 1, !.wr = @ + 1,
                      !.found = @ \/ r.fd = fr.id]]
      /\ disk' = IF fr.dst # -1 /\ fds[fr.dst].kind = "meta"
                 THEN [disk EXCEPT ![i] = WriteAt(@, fr.wr + 1, r)] ELSE disk
      /\ UNCHANGED <<up, pc, lock, fds, table, cache, mishaps>>

DelCopyStuck(c) ==
  LET fr == frame[c]
      recs == disk[fds[fr.src].of]
      r == recs[fr.rd + 1]
      i == fds[fr.dst].of
  IN  /\ pc[c] = "del_copy"
      /\ fr.src # -1 /\ fds[fr.src].kind = "meta"
      /\ fr.rd < Len(recs)
      /\ \/ /\ r.fd = fr.id
            /\ frame' = [frame EXCEPT ![c].found = TRUE]
            /\ UNCHANGED disk
         \/ /\ r.fd # fr.id
            /\ frame' = [frame EXCEPT ![c] =
                 [fr EXCEPT !.rd = @ + 1, !.wr = @ + 1]]
            /\ disk' = IF fr.dst # -1 /\ fds[fr.dst].kind = "meta"
                       THEN [disk EXCEPT ![i] = WriteAt(@, fr.wr + 1, r)]
                       ELSE disk
      /\ UNCHANGED <<up, pc, lock, fds, table, cache, mishaps>>

(* One turn of the loop: a record that carries the identifier is dropped,  *)
(* any other is written to the cache at the thread's own offset.           *)
DelCopy(c) ==
  LET fr == frame[c]
      recs == disk[fds[fr.src].of]
      r == recs[fr.rd + 1]
      writable == fr.dst # -1 /\ fds[fr.dst].kind = "meta"
      i == fds[fr.dst].of
  IN  /\ pc[c] = "del_copy"
      /\ fr.src # -1 /\ fds[fr.src].kind = "meta"
      /\ fr.rd < Len(recs)
      /\ \/ /\ r.fd = fr.id
            /\ frame' = [frame EXCEPT ![c] =
                 [fr EXCEPT !.rd = @ + 1, !.found = TRUE]]
            /\ UNCHANGED disk
         \/ /\ r.fd # fr.id
            /\ frame' = [frame EXCEPT ![c] =
                 [fr EXCEPT !.rd = @ + 1, !.wr = @ + 1]]
            /\ disk' = IF writable
                       THEN [disk EXCEPT ![i] = WriteAt(@, fr.wr + 1, r)]
                       ELSE disk
      /\ UNCHANGED <<up, pc, lock, fds, table, cache, mishaps>>

DelCopyEnd(c) ==
  LET fr == frame[c]
  IN  /\ pc[c] = "del_copy"
      /\ fr.src # -1 /\ fds[fr.src].kind = "meta"
      /\ fr.rd >= Len(disk[fds[fr.src].of])
      /\ fds' = Closed({fr.src, fr.dst})
      /\ disk' = Reclaimed(disk, table, cache, fds')
      /\ Goto(c, "del_remove")
      /\ frame' = [frame EXCEPT ![c] =
           [fr EXCEPT !.src = -1, !.dst = -1, !.rd = 0, !.wr = 0]]
      /\ UNCHANGED <<up, lock, table, cache, mishaps>>

(* The same endless loop as in ChkLost; the garbage it writes to the cache *)
(* while it spins is left out.                                             *)
DelLost(c) ==
  /\ pc[c] = "del_copy"
  /\ \/ frame[c].src = -1
     \/ frame[c].src # -1 /\ fds[frame[c].src].kind # "meta"
  /\ Spin(c)
  /\ UNCHANGED <<up, lock, fds, table, cache, disk, mishaps>>

DelRemove(c) ==
  /\ pc[c] = "del_remove"
  /\ frame' = [frame EXCEPT ![c].gone = (table # None)]
  /\ table' = None
  /\ disk' = Reclaimed(disk, None, cache, fds)
  /\ Goto(c, "del_rename")
  /\ UNCHANGED <<up, lock, fds, cache, mishaps>>

(* A variation of DelRename: nothing is renamed unless the record was      *)
(* found.                                                                  *)
DelRenameFound(c) ==
  /\ pc[c] = "del_rename"
  /\ \/ /\ frame[c].found /\ cache # None
        /\ table' = cache
        /\ cache' = None
        /\ disk' = Reclaimed(disk, table', None, fds)
     \/ /\ ~frame[c].found \/ cache = None
        /\ UNCHANGED <<table, cache, disk>>
  /\ IF frame[c].found /\ frame[c].gone /\ cache # None
     THEN Goto(c, "del_close") /\ UNCHANGED frame
     ELSE Finish(c, Said("ERR", -1))
  /\ UNCHANGED <<up, lock, fds, mishaps>>

DelRename(c) ==
  /\ pc[c] = "del_rename"
  /\ \/ /\ cache # None
        /\ table' = cache
        /\ cache' = None
        /\ disk' = Reclaimed(disk, table', None, fds)
     \/ /\ cache = None
        /\ UNCHANGED <<table, cache, disk>>
  /\ IF frame[c].found /\ frame[c].gone /\ cache # None
     THEN Goto(c, "del_close") /\ UNCHANGED frame
     ELSE Finish(c, Said("ERR", -1))
  /\ UNCHANGED <<up, lock, fds, mishaps>>

(* A variation of DelClose: the record is gone, the descriptor stays open. *)
DelCloseNot(c) ==
  /\ pc[c] = "del_close"
  /\ Finish(c, Said("OK", 0))
  /\ UNCHANGED <<up, lock, fds, table, cache, disk, mishaps>>

DelClose(c) ==
  /\ pc[c] = "del_close"
  /\ fds' = Closed({frame[c].id})
  /\ disk' = Reclaimed(disk, table, cache, fds')
  /\ Finish(c, Said("OK", 0))
  /\ UNCHANGED <<up, lock, table, cache, mishaps>>

-----------------------------------------------------------------------------
(* What a thread does by itself once it has read a request.                *)
FopenStep(c) == ChkOpen(c) \/ ChkScan(c) \/ ChkLost(c) \/ Create(c)
                \/ WdOpen(c) \/ WdWrite(c)

FcloseStep(c) == DelSrc(c) \/ DelDst(c) \/ DelCopy(c) \/ DelCopyEnd(c)
                 \/ DelLost(c) \/ DelRemove(c) \/ DelRename(c) \/ DelClose(c)

Serve(c) == FopenStep(c) \/ FcloseStep(c) \/ Reply(c)

(* A line that is no command, or FOPEN without a name, is answered and     *)
(* changes nothing; FREAD, FWRITE and FSEEK are not modelled.              *)
Request(c) == \/ Quit(c)
              \/ \E f \in Files : Fopen(c, f)
              \/ \E n \in Numbers : Fclose(c, n) \/ FcloseImproper(c, n)

Next == \/ Start \/ Crash \/ AcceptFails
        \/ \E c \in Clients : Accept(c) \/ Request(c) \/ Serve(c)

Spec == Init /\ [][Next]_vars

(* A runnable thread is scheduled; clients owe the server nothing, and     *)
(* nobody is obliged to restart it.                                        *)
FairSpec == Spec /\ \A c \in Clients : WF_vars(Serve(c))
=============================================================================
