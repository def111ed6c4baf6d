---------------------------- MODULE FServProofs ----------------------------
(***************************************************************************)
(* Proofs about the file server for any number of clients, files,          *)
(* descriptors and inodes.                                                 *)
(***************************************************************************)
EXTENDS FServInv, SequenceTheorems, TLAPS

(* Every value a frame is given by an action of the server is a frame.     *)
LEMMA NoFrameType == NoFrame \in Frame
BY DEF NoFrame, Frame, Numbers, Answer, Silence, Said

(* So is a frame in which an action changes some of the variables.         *)
LEMMA NumberFieldType ==
  ASSUME NEW fr \in Frame, NEW k \in Numbers
  PROVE  /\ [fr EXCEPT !.src = k] \in Frame
         /\ [fr EXCEPT !.dst = k] \in Frame
         /\ [fr EXCEPT !.fp = k] \in Frame
<1>1. [fr EXCEPT !.src = k] \in Frame
  BY DEF Frame
<1>2. [fr EXCEPT !.dst = k] \in Frame
  BY DEF Frame
<1>3. [fr EXCEPT !.fp = k] \in Frame
  BY DEF Frame
<1>. QED  BY <1>1, <1>2, <1>3

LEMMA CountFieldType ==
  ASSUME NEW fr \in Frame
  PROVE  /\ [fr EXCEPT !.rd = @ + 1, !.found = TRUE] \in Frame
         /\ [fr EXCEPT !.rd = @ + 1, !.wr = @ + 1] \in Frame
<1>0. fr.rd \in Nat /\ fr.wr \in Nat
  BY DEF Frame
<1>1. fr.rd + 1 \in Nat /\ fr.wr + 1 \in Nat
  BY <1>0
<1>2. [fr EXCEPT !.rd = @ + 1, !.found = TRUE] \in Frame
  BY <1>1 DEF Frame
<1>3. [fr EXCEPT !.rd = @ + 1, !.wr = @ + 1] \in Frame
  BY <1>1 DEF Frame
<1>. QED  BY <1>2, <1>3

LEMMA ResetFieldType ==
  ASSUME NEW fr \in Frame
  PROVE  [fr EXCEPT !.src = -1, !.dst = -1, !.rd = 0, !.wr = 0] \in Frame
<1>1. -1 \in Numbers
  BY DEF Numbers
<1>. QED  BY <1>1 DEF Frame

LEMMA GoneFieldType ==
  ASSUME NEW fr \in Frame, NEW b \in BOOLEAN
  PROVE  [fr EXCEPT !.gone = b] \in Frame
BY DEF Frame

LEMMA FopenFrameType ==
  ASSUME NEW fr \in Frame, NEW f \in Files
  PROVE  /\ [fr EXCEPT !.op = "FOPEN", !.file = f] \in Frame
         /\ [fr EXCEPT !.op = "FOPEN", !.file = f, !.ans = Said("FAIL", 0)]
              \in Frame
<1>1. Said("FAIL", 0) \in Answer
  BY DEF Said, Answer
<1>2. [fr EXCEPT !.op = "FOPEN", !.file = f] \in Frame
  BY DEF Frame
<1>3. [fr EXCEPT !.op = "FOPEN", !.file = f, !.ans = Said("FAIL", 0)] \in Frame
  BY <1>1 DEF Frame
<1>. QED  BY <1>2, <1>3

LEMMA FcloseFrameType ==
  ASSUME NEW fr \in Frame, NEW n \in Numbers
  PROVE  /\ [fr EXCEPT !.op = "FCLOSE id x", !.id = n] \in Frame
         /\ [fr EXCEPT !.op = "FCLOSE id", !.id = n, !.ans = Said("FAIL", 0)]
              \in Frame
<1>1. Said("FAIL", 0) \in Answer
  BY DEF Said, Answer
<1>2. [fr EXCEPT !.op = "FCLOSE id x", !.id = n] \in Frame
  BY DEF Frame
<1>3. [fr EXCEPT !.op = "FCLOSE id", !.id = n, !.ans = Said("FAIL", 0)] \in Frame
  BY <1>1 DEF Frame
<1>. QED  BY <1>2, <1>3

(* The table's own descriptors, when they are what they seem, lead to an   *)
(* inode whose records are well formed.                                    *)
LEMMA MetaType ==
  ASSUME TypeOK, NEW k \in Fds, fds[k].kind = "meta"
  PROVE  fds[k].of \in Inodes /\ disk[fds[k].of] \in Seq(Record)
BY DEF TypeOK, Objects, Free, Sock, Data, Meta

(* An inode that nothing refers to is emptied; the others are as they were.*)
LEMMA ReclaimedType ==
  ASSUME NEW d \in [Inodes -> Seq(Record)], NEW t, NEW ca, NEW f
  PROVE  Reclaimed(d, t, ca, f) \in [Inodes -> Seq(Record)]
BY DEF Reclaimed

LEMMA ClosedType ==
  ASSUME TypeOK, NEW ks
  PROVE  Closed(ks) \in [Fds -> Objects]
BY DEF TypeOK, Closed, Objects

(* write() within a file or at its end keeps it a sequence of records.     *)
LEMMA WriteAtType ==
  ASSUME NEW recs \in Seq(Record), NEW n \in Nat \ {0}, NEW r \in Record
  PROVE  WriteAt(recs, n, r) \in Seq(Record)
<1>1. CASE n <= Len(recs)
  BY <1>1, ExceptSeq DEF WriteAt
<1>2. CASE ~(n <= Len(recs))
  BY <1>2, AppendProperties DEF WriteAt
<1>. QED  BY <1>1, <1>2

LEMMA FinishType ==
  ASSUME TypeOK, NEW c \in Clients, NEW answer \in Answer, Finish(c, answer)
  PROVE  pc' \in [Clients -> Places] /\ frame' \in [Clients -> Frame]
BY NoFrameType DEF TypeOK, Finish, Goto, Places, Frame, NoFrame

LEMMA SpinType ==
  ASSUME TypeOK, NEW c \in Clients, Spin(c)
  PROVE  pc' \in [Clients -> Places] /\ frame' \in [Clients -> Frame]
BY NoFrameType DEF TypeOK, Spin, Goto, Places

LEMMA GotoType ==
  ASSUME TypeOK, NEW c \in Clients, NEW p \in Places, Goto(c, p)
  PROVE  pc' \in [Clients -> Places]
BY DEF TypeOK, Goto

LEMMA OpenMetaType ==
  ASSUME TypeOK, NEW i \in Inodes \cup {None}, NEW k \in Numbers,
         OpenMeta(i, k)
  PROVE  /\ fds' \in [Fds -> Objects]
         /\ mishaps' \subseteq {"overlap", "emfile", "torn"}
BY DEF TypeOK, OpenMeta, Note, Objects, Meta

(* The mishap notes of an action are mishaps.                              *)
LEMMA NoteType ==
  ASSUME TypeOK, NEW set \in SUBSET {"overlap", "emfile", "torn"}, Note(set)
  PROVE  mishaps' \subseteq {"overlap", "emfile", "torn"}
BY DEF TypeOK, Note

-----------------------------------------------------------------------------
(* The type invariant, one lemma per part of the next-state relation.      *)

LEMMA StartType == ASSUME TypeOK, Start PROVE TypeOK'
<1>1. PICK i \in Inodes : table' = i
  BY DEF Start
<1>2. disk' \in [Inodes -> Seq(Record)]
  <2>1. Reclaimed(disk, table', cache, fds) \in [Inodes -> Seq(Record)]
    BY ReclaimedType DEF TypeOK
  <2>2. <<>> \in Seq(Record)
    BY EmptySeq
  <2>. QED  BY <2>1, <2>2 DEF Start
<1>. QED  BY <1>1, <1>2 DEF TypeOK, Start

LEMMA DieType == ASSUME TypeOK, Die PROVE TypeOK'
<1>1. pc' \in [Clients -> Places]
  BY DEF Die, Places
<1>2. frame' \in [Clients -> Frame]
  BY NoFrameType DEF Die
<1>3. fds' \in [Fds -> Objects]
  BY DEF Die, Objects
<1>4. disk' \in [Inodes -> Seq(Record)]
  BY ReclaimedType DEF TypeOK, Die
<1>5. mishaps' \subseteq {"overlap", "emfile", "torn"}
  BY NoteType DEF Die
<1>. QED  BY <1>1, <1>2, <1>3, <1>4, <1>5 DEF TypeOK, Die

LEMMA AcceptType ==
  ASSUME TypeOK, NEW c \in Clients, Accept(c) PROVE TypeOK'
<1>1. fds' \in [Fds -> Objects]
  BY DEF TypeOK, Accept, Objects
<1>2. pc' \in [Clients -> Places]
  BY GotoType DEF Accept, Places
<1>. QED  BY <1>1, <1>2 DEF TypeOK, Accept

LEMMA RequestType ==
  ASSUME TypeOK, NEW c \in Clients, Request(c) PROVE TypeOK'
<1>1. CASE Quit(c)
  <2>1. fds' \in [Fds -> Objects]
    BY <1>1, ClosedType DEF Quit
  <2>2. pc' \in [Clients -> Places]
    BY <1>1, GotoType DEF Quit, Places
  <2>. QED  BY <1>1, <2>1, <2>2 DEF TypeOK, Quit
<1>2. ASSUME NEW f \in Files, Fopen(c, f) PROVE TypeOK'
  <2>1. pc' \in [Clients -> Places]
    BY <1>2, GotoType DEF Fopen, Places, OpenSteps
  <2>2. frame' \in [Clients -> Frame]
    <3>1. frame[c] \in Frame
      BY DEF TypeOK
    <3>2. CASE frame' = [frame EXCEPT ![c] =
                           [@ EXCEPT !.op = "FOPEN", !.file = f]]
      BY <3>1, <3>2, FopenFrameType DEF TypeOK
    <3>3. CASE frame' = [frame EXCEPT ![c] =
                [@ EXCEPT !.op = "FOPEN", !.file = f, !.ans = Said("FAIL", 0)]]
      BY <3>1, <3>3, FopenFrameType DEF TypeOK
    <3>. QED  BY <1>2, <3>2, <3>3 DEF Fopen
  <2>3. mishaps' \subseteq {"overlap", "emfile", "torn"}
    BY <1>2 DEF TypeOK, Fopen, Note
  <2>. QED  BY <1>2, <2>1, <2>2, <2>3 DEF TypeOK, Fopen
<1>3. ASSUME NEW n \in Numbers, Fclose(c, n) PROVE TypeOK'
  <2>1. pc' \in [Clients -> Places]
    BY <1>3, GotoType DEF Fclose, Places, CloseSteps
  <2>2. frame' \in [Clients -> Frame]
    BY <1>3, FcloseFrameType DEF TypeOK, Fclose
  <2>3. mishaps' \subseteq {"overlap", "emfile", "torn"}
    BY <1>3 DEF TypeOK, Fclose, Note
  <2>. QED  BY <1>3, <2>1, <2>2, <2>3 DEF TypeOK, Fclose
<1>4. ASSUME NEW n \in Numbers, FcloseImproper(c, n) PROVE TypeOK'
  <2>1. pc' \in [Clients -> Places]
    BY <1>4, GotoType DEF FcloseImproper, Places
  <2>2. frame' \in [Clients -> Frame]
    BY <1>4, FcloseFrameType DEF TypeOK, FcloseImproper
  <2>. QED  BY <1>4, <2>1, <2>2 DEF TypeOK, FcloseImproper
<1>. QED  BY <1>1, <1>2, <1>3, <1>4 DEF Request

LEMMA FopenStepType ==
  ASSUME TypeOK, Named, NEW c \in Clients, FopenStep(c) PROVE TypeOK'
<1>1. CASE ChkOpen(c)
  <2>1. PICK k \in Numbers : /\ OpenMeta(table, k)
                             /\ frame' = [frame EXCEPT ![c].src = k]
    BY <1>1 DEF ChkOpen
  <2>2. frame' \in [Clients -> Frame]
    BY <2>1, NumberFieldType DEF TypeOK
  <2>3. pc' \in [Clients -> Places]
    BY <1>1, GotoType DEF ChkOpen, Places, OpenSteps
  <2>. QED  BY <1>1, <2>1, <2>2, <2>3, OpenMetaType DEF TypeOK, ChkOpen
<1>2. CASE ChkScan(c)
  <2>. DEFINE k == frame[c].src
              recs == disk[fds[k].of]
  <2>1. k \in Fds
    BY <1>2 DEF ChkScan, TypeOK, Frame, Numbers
  <2>2. recs \in Seq(Record)
    BY <1>2, <2>1, MetaType DEF ChkScan
  <2>3. pc' \in [Clients -> Places] /\ frame' \in [Clients -> Frame]
    <3>1. CASE \E n \in DOMAIN recs : Finish(c, Said("ERR", recs[n].fd))
      <4>1. PICK n \in DOMAIN recs : Finish(c, Said("ERR", recs[n].fd))
        BY <3>1
      <4>2. recs[n] \in Record
        BY <2>2, <4>1, LenProperties, ElementOfSeq
      <4>3. Said("ERR", recs[n].fd) \in Answer
        BY <4>2 DEF Said, Answer, Record
      <4>. QED  BY <4>1, <4>3, FinishType
    <3>2. CASE /\ Goto(c, "create")
               /\ frame' = [frame EXCEPT ![c].src = -1]
      BY <3>2, GotoType, NumberFieldType DEF TypeOK, Numbers, Places, OpenSteps
    <3>. QED  BY <1>2, <3>1, <3>2 DEF ChkScan
  <2>4. fds' \in [Fds -> Objects]
    BY <1>2, ClosedType DEF ChkScan
  <2>5. disk' \in [Inodes -> Seq(Record)]
    BY <1>2, ReclaimedType DEF ChkScan, TypeOK
  <2>. QED  BY <1>2, <2>3, <2>4, <2>5 DEF TypeOK, ChkScan
<1>3. CASE ChkLost(c)
  <2>1. \A n \in Fds \cup {-1} : Said("ERR", n) \in Answer
    BY DEF Said, Answer, Numbers
  <2>2. pc' \in [Clients -> Places] /\ frame' \in [Clients -> Frame]
    BY <1>3, <2>1, FinishType, SpinType DEF ChkLost
  <2>. QED  BY <1>3, <2>2 DEF TypeOK, ChkLost
<1>4. CASE Create(c)
  <2>1. pc' \in [Clients -> Places]
    BY <1>4, GotoType DEF Create, Places, OpenSteps
  <2>2. frame[c].file \in Files
    BY <1>4 DEF Named, Create, OpenSteps
  <2>3. ASSUME NEW k \in Fds,
               fds' = [fds EXCEPT ![k] = Data(frame[c].file)],
               frame' = [frame EXCEPT ![c].fp = k],
               UNCHANGED mishaps
        PROVE  TypeOK'
    <3>1. fds' \in [Fds -> Objects]
      BY <2>2, <2>3 DEF TypeOK, Objects
    <3>2. frame' \in [Clients -> Frame]
      BY <2>3, NumberFieldType DEF TypeOK, Numbers
    <3>. QED  BY <1>4, <2>1, <2>3, <3>1, <3>2 DEF TypeOK, Create
  <2>4. CASE /\ Note(IF Exhausted THEN {"emfile"} ELSE {})
             /\ UNCHANGED <<fds, frame>>
    BY <1>4, <2>1, <2>4 DEF TypeOK, Create, Note
  <2>. QED  BY <1>4, <2>3, <2>4 DEF Create
<1>5. CASE WdOpen(c)
  <2>1. PICK k \in Numbers : /\ OpenMeta(table, k)
                             /\ frame' = [frame EXCEPT ![c].src = k]
    BY <1>5 DEF WdOpen
  <2>2. frame' \in [Clients -> Frame]
    BY <2>1, NumberFieldType DEF TypeOK
  <2>3. pc' \in [Clients -> Places]
    BY <1>5, GotoType DEF WdOpen, Places, OpenSteps
  <2>. QED  BY <1>5, <2>1, <2>2, <2>3, OpenMetaType DEF TypeOK, WdOpen
<1>6. CASE WdWrite(c)
  <2>. DEFINE k == frame[c].src
              fp == frame[c].fp
              rec == [name |-> frame[c].file, fd |-> fp]
              written == IF fds[k].kind = "meta"
                         THEN [disk EXCEPT ![fds[k].of] = Append(@, rec)]
                         ELSE disk
  <2>1. /\ Said("FAIL", 0) \in Answer
        /\ Said("OK", fp) \in Answer
    BY DEF TypeOK, Frame, Said, Answer, Numbers
  <2>2. pc' \in [Clients -> Places] /\ frame' \in [Clients -> Frame]
    BY <1>6, <2>1, FinishType DEF WdWrite
  <2>3. CASE k = -1
    BY <1>6, <2>2, <2>3 DEF WdWrite, TypeOK
  <2>4. CASE k # -1
    <3>1. k \in Fds
      BY <2>4 DEF TypeOK, Frame, Numbers
    <3>2. rec \in Record
      BY <1>6 DEF Named, WdWrite, OpenSteps, TypeOK, Frame, Record
    <3>3. written \in [Inodes -> Seq(Record)]
      BY <3>1, <3>2, MetaType, AppendProperties DEF TypeOK
    <3>4. fds' = Closed({k}) /\ disk' = Reclaimed(written, table, cache, fds')
      BY <1>6, <2>4 DEF WdWrite
    <3>. HIDE DEF written
    <3>5. fds' \in [Fds -> Objects] /\ disk' \in [Inodes -> Seq(Record)]
      BY <3>3, <3>4, ClosedType, ReclaimedType
    <3>. QED  BY <1>6, <2>2, <3>5 DEF TypeOK, WdWrite
  <2>. QED  BY <2>3, <2>4
<1>. QED  BY <1>1, <1>2, <1>3, <1>4, <1>5, <1>6 DEF FopenStep

LEMMA FcloseStepType ==
  ASSUME TypeOK, NEW c \in Clients, FcloseStep(c) PROVE TypeOK'
<1>. DEFINE fr == frame[c]
<1>0. fr \in Frame /\ fr.rd \in Nat /\ fr.wr \in Nat
  BY DEF TypeOK, Frame
<1>1. CASE DelSrc(c)
  <2>1. PICK k \in Numbers : /\ OpenMeta(table, k)
                             /\ frame' = [frame EXCEPT ![c].src = k]
    BY <1>1 DEF DelSrc
  <2>2. frame' \in [Clients -> Frame]
    BY <2>1, NumberFieldType DEF TypeOK
  <2>3. pc' \in [Clients -> Places]
    BY <1>1, GotoType DEF DelSrc, Places, CloseSteps
  <2>. QED  BY <1>1, <2>1, <2>2, <2>3, OpenMetaType DEF TypeOK, DelSrc
<1>2. CASE DelDst(c)
  <2>1. PICK k \in Numbers : /\ OpenMeta(cache', k)
                             /\ frame' = [frame EXCEPT ![c].dst = k]
    BY <1>2 DEF DelDst
  <2>2. cache' \in Inodes \cup {None}
    BY <1>2 DEF TypeOK, DelDst
  <2>3. frame' \in [Clients -> Frame]
    BY <2>1, NumberFieldType DEF TypeOK
  <2>4. pc' \in [Clients -> Places]
    BY <1>2, GotoType DEF DelDst, Places, CloseSteps
  <2>. QED  BY <1>2, <2>1, <2>2, <2>3, <2>4, OpenMetaType DEF TypeOK, DelDst
<1>3. CASE DelCopy(c)
  <2>. DEFINE recs == disk[fds[fr.src].of]
              r == recs[fr.rd + 1]
              i == fds[fr.dst].of
  <2>1. frame' \in [Clients -> Frame]
    BY <1>0, <1>3, CountFieldType DEF TypeOK, DelCopy
  <2>2. recs \in Seq(Record)
    <3>1. fr.src \in Fds
      BY <1>0, <1>3 DEF DelCopy, Frame, Numbers
    <3>. QED  BY <1>3, <3>1, MetaType DEF DelCopy
  <2>3. r \in Record
    <3>1. fr.rd + 1 \in 1..Len(recs)
      BY <1>0, <1>3, <2>2, LenProperties DEF DelCopy
    <3>. QED  BY <2>2, <3>1, ElementOfSeq
  <2>4. CASE disk' = disk
    BY <1>3, <2>1, <2>4 DEF TypeOK, DelCopy
  <2>5. CASE /\ fr.dst # -1 /\ fds[fr.dst].kind = "meta"
             /\ disk' = [disk EXCEPT ![i] = WriteAt(@, fr.wr + 1, r)]
    <3>1. i \in Inodes /\ disk[i] \in Seq(Record)
      <4>1. fr.dst \in Fds
        BY <1>0, <2>5 DEF Frame, Numbers
      <4>. QED  BY <2>5, <4>1, MetaType
    <3>2. WriteAt(disk[i], fr.wr + 1, r) \in Seq(Record)
      <4>1. fr.wr + 1 \in Nat \ {0}
        BY <1>0
      <4>. HIDE DEF fr, r, i
      <4>. QED  BY <2>3, <3>1, <4>1, WriteAtType
    <3>3. disk' \in [Inodes -> Seq(Record)]
      BY <2>5, <3>1, <3>2 DEF TypeOK
    <3>. QED  BY <1>3, <2>1, <3>3 DEF TypeOK, DelCopy
  <2>. QED  BY <1>3, <2>4, <2>5 DEF DelCopy
<1>4. CASE DelCopyEnd(c)
  <2>1. frame' \in [Clients -> Frame]
    BY <1>0, <1>4, ResetFieldType DEF TypeOK, DelCopyEnd
  <2>2. pc' \in [Clients -> Places]
    BY <1>4, GotoType DEF DelCopyEnd, Places, CloseSteps
  <2>3. fds' \in [Fds -> Objects] /\ disk' \in [Inodes -> Seq(Record)]
    BY <1>4, ClosedType, ReclaimedType DEF TypeOK, DelCopyEnd
  <2>. QED  BY <1>4, <2>1, <2>2, <2>3 DEF TypeOK, DelCopyEnd
<1>5. CASE DelLost(c)
  BY <1>5, SpinType DEF TypeOK, DelLost
<1>6. CASE DelRemove(c)
  <2>1. frame' \in [Clients -> Frame]
    BY <1>0, <1>6, GoneFieldType DEF TypeOK, DelRemove
  <2>2. pc' \in [Clients -> Places]
    BY <1>6, GotoType DEF DelRemove, Places, CloseSteps
  <2>3. disk' \in [Inodes -> Seq(Record)]
    BY <1>6, ReclaimedType DEF TypeOK, DelRemove
  <2>. QED  BY <1>6, <2>1, <2>2, <2>3 DEF TypeOK, DelRemove
<1>7. CASE DelRename(c)
  <2>1. Said("ERR", -1) \in Answer
    BY DEF Said, Answer, Numbers
  <2>2. pc' \in [Clients -> Places] /\ frame' \in [Clients -> Frame]
    <3>1. CASE Goto(c, "del_close") /\ UNCHANGED frame
      BY <3>1, GotoType DEF TypeOK, Places, CloseSteps
    <3>. QED  BY <1>7, <2>1, <3>1, FinishType DEF DelRename
  <2>3. disk' \in [Inodes -> Seq(Record)]
    BY <1>7, ReclaimedType DEF TypeOK, DelRename
  <2>4. table' \in Inodes \cup {None} /\ cache' \in Inodes \cup {None}
    BY <1>7 DEF TypeOK, DelRename
  <2>. QED  BY <1>7, <2>2, <2>3, <2>4 DEF TypeOK, DelRename
<1>8. CASE DelClose(c)
  <2>1. Said("OK", 0) \in Answer
    BY DEF Said, Answer
  <2>2. pc' \in [Clients -> Places] /\ frame' \in [Clients -> Frame]
    BY <1>8, <2>1, FinishType DEF DelClose
  <2>3. fds' \in [Fds -> Objects] /\ disk' \in [Inodes -> Seq(Record)]
    BY <1>8, ClosedType, ReclaimedType DEF TypeOK, DelClose
  <2>. QED  BY <1>8, <2>2, <2>3 DEF TypeOK, DelClose
<1>. QED  BY <1>1, <1>2, <1>3, <1>4, <1>5, <1>6, <1>7, <1>8 DEF FcloseStep

LEMMA ReplyType == ASSUME TypeOK, NEW c \in Clients, Reply(c) PROVE TypeOK'
<1>1. pc' \in [Clients -> Places]
  BY GotoType DEF Reply, Places
<1>2. frame' \in [Clients -> Frame]
  BY NoFrameType DEF TypeOK, Reply
<1>. QED  BY <1>1, <1>2 DEF TypeOK, Reply

LEMMA NextType == ASSUME TypeOK, Named, [Next]_vars PROVE TypeOK'
<1>1. CASE UNCHANGED vars
  BY <1>1 DEF TypeOK, vars
<1>2. CASE Crash \/ AcceptFails
  BY <1>2, DieType DEF Crash, AcceptFails
<1>. QED  BY <1>1, <1>2, StartType, AcceptType, RequestType, FopenStepType,
             FcloseStepType, ReplyType DEF Next, Serve

(* What a step does to the places, by the client that takes it.            *)
LEMMA OthersStay ==
  ASSUME TypeOK, NEW c \in Clients,
         Accept(c) \/ Request(c) \/ Serve(c)
  PROVE  \A d \in Clients \ {c} : pc'[d] = pc[d] /\ frame'[d] = frame[d]
<1>1. CASE Accept(c) \/ Request(c) \/ Reply(c)
  BY <1>1 DEF TypeOK, Accept, Request, Quit, Fopen, Fclose, FcloseImproper,
              Reply, Goto
<1>2. CASE FopenStep(c)
  BY <1>2 DEF TypeOK, FopenStep, ChkOpen, ChkScan, ChkLost, Create, WdOpen,
              WdWrite, Goto, Finish, Spin
<1>3. CASE FcloseStep(c)
  BY <1>3 DEF TypeOK, FcloseStep, DelSrc, DelDst, DelCopy, DelCopyEnd,
              DelLost, DelRemove, DelRename, DelClose, Goto, Finish, Spin
<1>. QED  BY <1>1, <1>2, <1>3 DEF Serve

(* Where the thread that takes a step is after it: a thread is inside a    *)
(* FOPEN only if it was, or if it has just taken the lock; a FOPEN that    *)
(* leaves without the reply that unlocks has lost the table.               *)
LEMMA OwnStep ==
  ASSUME TypeOK, NEW c \in Clients
  PROVE  /\ Accept(c) => pc[c] = "off" /\ pc'[c] = "idle" /\ lock' = lock
         /\ Request(c) => /\ pc[c] = "idle"
                         /\ \/ pc'[c] \notin OpenSteps /\ lock' = lock
                            \/ /\ pc'[c] \in OpenSteps
                               /\ lock = None /\ lock' = c
         /\ FopenStep(c) => /\ pc[c] \in OpenSteps
                           /\ pc'[c] \in OpenSteps \cup {"reply", "spin"}
                           /\ lock' = lock
         /\ FcloseStep(c) => /\ pc[c] \in CloseSteps
                            /\ pc'[c] \in CloseSteps \cup {"reply", "spin"}
                            /\ lock' = lock
         /\ Reply(c) => /\ pc[c] = "reply" /\ pc'[c] = "idle"
                       /\ lock' = IF lock = c THEN None ELSE lock
<1>1. Accept(c) => pc[c] = "off" /\ pc'[c] = "idle" /\ lock' = lock
  BY DEF TypeOK, Accept, Goto
<1>2. Request(c) => /\ pc[c] = "idle"
                    /\ \/ pc'[c] \notin OpenSteps /\ lock' = lock
                       \/ pc'[c] \in OpenSteps /\ lock = None /\ lock' = c
  BY DEF TypeOK, Request, Quit, Fopen, Fclose, FcloseImproper, Goto,
         Listening, OpenSteps
<1>3. FopenStep(c) => /\ pc[c] \in OpenSteps
                      /\ pc'[c] \in OpenSteps \cup {"reply", "spin"}
                      /\ lock' = lock
  BY DEF TypeOK, FopenStep, ChkOpen, ChkScan, ChkLost, Create, WdOpen,
         WdWrite, Goto, Finish, Spin, OpenSteps
<1>4. FcloseStep(c) => /\ pc[c] \in CloseSteps
                       /\ pc'[c] \in CloseSteps \cup {"reply", "spin"}
                       /\ lock' = lock
  BY DEF TypeOK, FcloseStep, DelSrc, DelDst, DelCopy, DelCopyEnd, DelLost,
         DelRemove, DelRename, DelClose, Goto, Finish, Spin, CloseSteps
<1>5. Reply(c) => /\ pc[c] = "reply" /\ pc'[c] = "idle"
                  /\ lock' = IF lock = c THEN None ELSE lock
  BY DEF TypeOK, Reply, Goto
<1>. QED  BY <1>1, <1>2, <1>3, <1>4, <1>5

LEMMA NextNamed == ASSUME TypeOK, Named, [Next]_vars PROVE Named'
<1>1. CASE UNCHANGED vars
  BY <1>1 DEF Named, vars
<1>2. CASE Start
  BY <1>2 DEF Named, Start
<1>3. CASE Crash \/ AcceptFails
  BY <1>3 DEF Named, Crash, AcceptFails, Die, OpenSteps
<1>4. ASSUME NEW c \in Clients, Accept(c) \/ Request(c) \/ Serve(c)
      PROVE  Named'
  <2>1. \A d \in Clients \ {c} : pc'[d] \in OpenSteps => frame'[d].file \in Files
    BY <1>4, OthersStay DEF Named
  <2>2. pc'[c] \in OpenSteps => frame'[c].file \in Files
    <3>1. CASE Accept(c) \/ Reply(c) \/ FcloseStep(c)
      BY <3>1, OwnStep DEF OpenSteps, CloseSteps
    <3>2. CASE Request(c)
      <4>1. CASE \E f \in Files : Fopen(c, f)
        <5>1. PICK f \in Files : Fopen(c, f)
          BY <4>1
        <5>2. CASE lock = None
          <6>1. frame'[c] = [frame[c] EXCEPT !.op = "FOPEN", !.file = f]
            BY <5>1, <5>2 DEF Fopen, TypeOK
          <6>2. frame[c] \in Frame
            BY DEF TypeOK
          <6>3. [frame[c] EXCEPT !.op = "FOPEN", !.file = f].file = f
            BY <6>2 DEF Frame
          <6>. QED  BY <6>1, <6>3
        <5>3. CASE lock # None
          BY <5>1, <5>3 DEF Fopen, TypeOK, Goto, OpenSteps
        <5>. QED  BY <5>2, <5>3
      <4>2. CASE Quit(c) \/ \E n \in Numbers : Fclose(c, n) \/ FcloseImproper(c, n)
        BY <4>2 DEF TypeOK, Quit, Fclose, FcloseImproper, Goto, OpenSteps
      <4>. QED  BY <3>2, <4>1, <4>2 DEF Request
    <3>3. CASE FopenStep(c)
      <4>1. frame[c] \in Frame /\ frame[c].file \in Files
        BY <3>3, OwnStep DEF Named, TypeOK
      <4>2. CASE pc'[c] \in OpenSteps
        <5>1. \/ frame'[c] = frame[c]
              \/ \E k \in Numbers : \/ frame'[c] = [frame[c] EXCEPT !.src = k]
                                    \/ frame'[c] = [frame[c] EXCEPT !.fp = k]
          BY <3>3, <4>2 DEF TypeOK, FopenStep, ChkOpen, ChkScan, ChkLost, Create,
             WdOpen, WdWrite, Goto, Finish, Spin, OpenSteps, Numbers
        <5>. QED  BY <4>1, <5>1 DEF Frame
      <4>. QED  BY <4>2
    <3>. QED  BY <1>4, <3>1, <3>2, <3>3 DEF Serve
  <2>. QED  BY <2>1, <2>2 DEF Named
<1>. QED  BY <1>1, <1>2, <1>3, <1>4 DEF Next

(* Every variable keeps its type: in particular the table stays a          *)
(* sequence of whole records, and every number a thread works with is a    *)
(* descriptor or -1 (descriptor.cc).                                       *)
THEOREM TypeCorrect == Spec => []TypeOK
<1>1. Init => TypeOK /\ Named
  <2>1. <<>> \in Seq(Record)
    BY EmptySeq
  <2>. QED  BY <2>1, NoFrameType DEF Init, TypeOK, Named, Places, Objects,
                                     OpenSteps
<1>2. TypeOK /\ Named /\ [Next]_vars => (TypeOK /\ Named)'
  BY NextType, NextNamed
<1>. QED  BY <1>1, <1>2, PTL DEF Spec

-----------------------------------------------------------------------------
(* The lock.                                                               *)

LEMMA NextLock ==
  ASSUME TypeOK, OpensExclude, LockHeldInside, [Next]_vars
  PROVE  OpensExclude' /\ LockHeldInside'
<1>1. CASE UNCHANGED vars
  BY <1>1 DEF OpensExclude, LockHeldInside, vars
<1>2. CASE Start
  BY <1>2 DEF OpensExclude, LockHeldInside, Start
<1>3. CASE Crash \/ AcceptFails
  BY <1>3 DEF OpensExclude, LockHeldInside, Crash, AcceptFails, Die, OpenSteps
<1>4. ASSUME NEW c \in Clients, Accept(c) \/ Request(c) \/ Serve(c)
      PROVE  OpensExclude' /\ LockHeldInside'
  <2>1. None \notin Clients
    BY ConstantsOK DEF ConstantsOK
  <2>2. CASE Accept(c) \/ Reply(c) \/ FcloseStep(c)
    BY <2>1, <2>2, OthersStay, OwnStep
       DEF OpensExclude, LockHeldInside, OpenSteps, CloseSteps, TypeOK, Serve
  <2>3. CASE Request(c)
    BY <2>1, <2>3, OthersStay, OwnStep
       DEF OpensExclude, LockHeldInside, OpenSteps, TypeOK
  <2>4. CASE FopenStep(c)
    BY <2>1, <2>4, OthersStay, OwnStep
       DEF OpensExclude, LockHeldInside, OpenSteps, TypeOK, Serve
  <2>. QED  BY <1>4, <2>2, <2>3, <2>4 DEF Serve
<1>. QED  BY <1>1, <1>2, <1>3, <1>4 DEF Next

LEMMA InitLock == Init => OpensExclude /\ LockHeldInside
BY DEF Init, OpensExclude, LockHeldInside, OpenSteps

(* Two FOPENs never interleave, whatever else happens: the trylock of      *)
(* fserv.cc:113 protects check, creation and record of a name together.    *)
THEOREM OpensAreExclusive == Spec => []OpensExclude
<1>1. TypeOK /\ OpensExclude /\ LockHeldInside /\ [Next]_vars
        => (OpensExclude /\ LockHeldInside)'
  BY NextLock
<1>. QED  BY InitLock, TypeCorrect, <1>1, PTL DEF Spec

(* The mutex is never abandoned by a thread that goes on to its next       *)
(* request (fserv.cc:113-137).                                             *)
THEOREM LockIsHeldInside == Spec => []LockHeldInside
<1>1. TypeOK /\ OpensExclude /\ LockHeldInside /\ [Next]_vars
        => (OpensExclude /\ LockHeldInside)'
  BY NextLock
<1>. QED  BY InitLock, TypeCorrect, <1>1, PTL DEF Spec

-----------------------------------------------------------------------------
(* Without FCLOSE the server implements the registry.  What holds then:    *)
(* the table is there while the server runs, no cache ever appears, the    *)
(* descriptor a FOPEN scans or appends through is the table's, and a FOPEN *)
(* past its check has a name that is not recorded.                         *)
NoCloses == \A c \in Clients : pc[c] \notin CloseSteps

TableThere == cache = None /\ (up => table # None)

UpServes == \A c \in Clients : pc[c] # "off" => up

OnTable == \A c \in Clients :
  pc[c] \in {"chk_scan", "wd_write"} /\ frame[c].src # -1 =>
    fds[frame[c].src] = Meta(table)

NewName == \A c \in Clients :
  pc[c] \in {"create", "wd_open", "wd_write"} =>
    \A r \in RecordsOf(table) : r.name # frame[c].file

OpenInv == /\ TypeOK /\ Named /\ OpensExclude /\ LockHeldInside
           /\ NoCloses /\ TableThere /\ UpServes /\ OnTable /\ NewName

(* The records of the table survive a reclaim.                             *)
LEMMA TableKept ==
  ASSUME TypeOK, table \in Inodes, NEW d \in [Inodes -> Seq(Record)], NEW f,
         disk' = Reclaimed(d, table, cache, f)
  PROVE  disk'[table] = d[table]
BY DEF Reclaimed

(* Adding a record to the table adds it to the set of its records.         *)
LEMMA AppendRecord ==
  ASSUME NEW recs \in Seq(Record), NEW r \in Record
  PROVE  {Append(recs, r)[n] : n \in DOMAIN Append(recs, r)}
           = {recs[n] : n \in DOMAIN recs} \cup {r}
<1>1. /\ Len(recs) \in Nat
      /\ Append(recs, r) \in Seq(Record)
      /\ Len(Append(recs, r)) = Len(recs) + 1
      /\ \A n \in 1..Len(recs) : Append(recs, r)[n] = recs[n]
      /\ Append(recs, r)[Len(recs) + 1] = r
  BY LenProperties, AppendProperties
<1>2. DOMAIN recs = 1..Len(recs) /\ DOMAIN Append(recs, r) = 1..(Len(recs) + 1)
  BY <1>1, LenProperties
<1>. QED  BY <1>1, <1>2

(* write_descriptor through a descriptor of the table records the name.    *)
LEMMA WdWriteRecords ==
  ASSUME TypeOK, Named, table \in Inodes, NEW c \in Clients, WdWrite(c),
         frame[c].src \in Fds, fds[frame[c].src] = Meta(table)
  PROVE  RecordsOf(table)' = RecordsOf(table)
                     \cup {[name |-> frame[c].file, fd |-> frame[c].fp]}
<1>. DEFINE rec == [name |-> frame[c].file, fd |-> frame[c].fp]
            written == [disk EXCEPT ![table] = Append(@, rec)]
<1>1. fds[frame[c].src].kind = "meta" /\ fds[frame[c].src].of = table
  BY DEF Meta
<1>2. rec \in Record
  BY DEF Record, Named, WdWrite, OpenSteps, TypeOK, Frame
<1>3. written \in [Inodes -> Seq(Record)] /\ disk[table] \in Seq(Record)
  BY <1>2, AppendProperties DEF TypeOK
<1>4. disk' = Reclaimed(written, table, cache, fds') /\ table' = table
  <2>1. frame[c].src # -1
    BY ConstantsOK DEF ConstantsOK
  <2>. QED  BY <1>1, <2>1 DEF WdWrite
<1>5. disk'[table] = Append(disk[table], rec)
  <2>1. disk'[table] = written[table]
    <3>. HIDE DEF written
    <3>. QED  BY <1>3, <1>4 DEF Reclaimed
  <2>. QED  BY <2>1 DEF TypeOK
<1>6. table' = table
  BY <1>4
<1>. HIDE DEF rec
<1>7. RecordsOf(table)' = RecordsOf(table) \cup {rec}
  <2>1. disk[table] \in Seq(Record)
    BY <1>3
  <2>2. {Append(disk[table], rec)[n] : n \in DOMAIN Append(disk[table], rec)}
          = {disk[table][n] : n \in DOMAIN disk[table]} \cup {rec}
    BY <1>2, <2>1, AppendRecord
  <2>3. RecordsOf(table)' = {disk'[table'][n] : n \in DOMAIN disk'[table']}
    BY DEF RecordsOf
  <2>. QED  BY <1>5, <1>6, <2>2, <2>3 DEF RecordsOf
<1>. QED  BY <1>7 DEF rec

(* A step that keeps the table and its records keeps the registry, and     *)
(* what a thread knows about the table if it keeps the thread as well.     *)
LEMMA SameView ==
  ASSUME cache = None, UNCHANGED <<table, cache>>,
         table # None => disk'[table] = disk[table]
  PROVE  RegView' = RegView
BY DEF RegView, RecordsOf

LEMMA RestStep ==
  ASSUME Closers = {}, OpenInv, NEW c \in Clients,
         Accept(c) \/ Request(c) \/ Reply(c)
  PROVE  /\ UNCHANGED <<up, table, cache, disk>>
         /\ NoCloses' /\ UpServes' /\ OnTable' /\ NewName'
<1>1. /\ UNCHANGED <<up, table, cache, disk>>
      /\ pc'[c] \in {"idle", "reply", "off", "chk_open"}
      /\ up
  BY DEF OpenInv, TypeOK, UpServes, Accept, Request, Quit, Fopen, Fclose,
         FcloseImproper, Reply, Goto, Listening
<1>2. \A d \in Clients \ {c} : pc'[d] = pc[d] /\ frame'[d] = frame[d]
  BY OthersStay DEF OpenInv, Serve
<1>3. NoCloses' /\ UpServes'
  BY <1>1, <1>2 DEF OpenInv, NoCloses, UpServes, CloseSteps
<1>4. NewName'
  BY <1>1, <1>2 DEF OpenInv, NewName, RecordsOf
<1>5. \A k \in Fds : fds[k] = Meta(table) => fds'[k] = fds[k]
  <2>1. Meta(table) # Free /\ Meta(table) # Sock(c)
    BY DEF Meta, Free, Sock
  <2>. QED  BY <2>1 DEF OpenInv, TypeOK, Accept, Request, Quit, Fopen, Fclose,
                   FcloseImproper, Reply, Lowest, Closed
<1>6. OnTable'
  <2>1. \A d \in Clients : frame[d].src \in Numbers
    BY DEF OpenInv, TypeOK, Frame
  <2>2. ASSUME NEW d \in Clients, pc'[d] \in {"chk_scan", "wd_write"},
               frame'[d].src # -1
        PROVE  fds'[frame'[d].src] = Meta(table)'
    <3>1. d # c
      BY <1>1, <2>2
    <3>2. frame[d].src \in Fds /\ fds[frame[d].src] = Meta(table)
      BY <1>2, <2>1, <2>2, <3>1 DEF OpenInv, OnTable, Numbers
    <3>. QED  BY <1>1, <1>2, <1>5, <3>1, <3>2 DEF Meta
  <2>. QED  BY <2>2 DEF OnTable
<1>. QED  BY <1>1, <1>3, <1>4, <1>6

(* During a FOPEN the other threads are not in one, so what the invariant  *)
(* says of a thread's descriptor and name concerns this one alone.         *)
LEMMA OnlyOpener ==
  ASSUME OpenInv, NEW c \in Clients, FopenStep(c)
  PROVE  /\ \A d \in Clients \ {c} : pc'[d] \notin OpenSteps \cup CloseSteps
         /\ up /\ table \in Inodes
         /\ pc'[c] \notin CloseSteps /\ UNCHANGED <<up, table, cache>>
<1>1. \A d \in Clients \ {c} : pc[d] \notin OpenSteps \cup CloseSteps
  BY OwnStep DEF OpenInv, OpensExclude, NoCloses
<1>2. \A d \in Clients \ {c} : pc'[d] = pc[d]
  BY OthersStay DEF OpenInv, Serve
<1>3. up
  BY OwnStep DEF OpenInv, UpServes, OpenSteps
<1>4. pc'[c] \notin CloseSteps
  BY OwnStep DEF OpenInv, OpenSteps, CloseSteps
<1>5. UNCHANGED <<up, table, cache>>
  BY DEF FopenStep, ChkOpen, ChkScan, ChkLost, Create, WdOpen, WdWrite
<1>. QED  BY <1>1, <1>2, <1>3, <1>4, <1>5 DEF OpenInv, TableThere, TypeOK

(* One step of a FOPEN: only WdWrite changes the registry, and it enters a *)
(* name that is not there.                                                 *)
LEMMA OpenerStep ==
  ASSUME OpenInv, NEW c \in Clients, FopenStep(c)
  PROVE  /\ pc'[c] \in {"chk_scan", "wd_write"} /\ frame'[c].src # -1 =>
              fds'[frame'[c].src] = Meta(table)
         /\ pc'[c] \in {"create", "wd_open", "wd_write"} =>
              \A r \in RecordsOf(table)' : r.name # frame'[c].file
         /\ [Registry!Next]_RegView
<1>. DEFINE k == frame[c].src
<1>0. /\ table \in Inodes /\ table # None /\ UNCHANGED <<table, cache>>
      /\ cache = None /\ TypeOK /\ frame[c] \in Frame /\ k \in Numbers
      /\ frame[c].file \in Files
  BY OnlyOpener, OwnStep, ConstantsOK
     DEF OpenInv, TableThere, TypeOK, Frame, Named, ConstantsOK
<1>1. CASE ChkOpen(c) \/ WdOpen(c)
  <2>1. PICK j \in Numbers : /\ OpenMeta(table, j)
                             /\ frame' = [frame EXCEPT ![c].src = j]
    BY <1>1 DEF ChkOpen, WdOpen
  <2>2. frame'[c].src = j /\ frame'[c].file = frame[c].file
    BY <1>0, <2>1 DEF TypeOK, Frame
  <2>3. j # -1 => fds'[j] = Meta(table)
    BY <1>0, <2>1 DEF OpenMeta, TypeOK, Numbers
  <2>4. disk' = disk /\ pc'[c] = IF pc[c] = "chk_open" THEN "chk_scan" ELSE "wd_write"
    BY <1>0, <1>1 DEF ChkOpen, WdOpen, Goto, TypeOK
  <2>5. RegView' = RegView
    BY <1>0, <2>4, SameView
  <2>6. pc'[c] = "wd_write" => \A r \in RecordsOf(table)' : r.name # frame'[c].file
    BY <1>0, <1>1, <2>2, <2>4 DEF OpenInv, NewName, RecordsOf, ChkOpen, WdOpen
  <2>. QED  BY <1>0, <2>2, <2>3, <2>4, <2>5, <2>6
<1>2. CASE ChkScan(c)
  <2>1. k \in Fds /\ fds[k] = Meta(table)
    BY <1>0, <1>2 DEF ChkScan, OpenInv, OnTable, Numbers
  <2>2. disk'[table] = disk[table]
    BY <1>0, <1>2, TableKept DEF ChkScan, TypeOK
  <2>3. RegView' = RegView
    BY <1>0, <2>2, SameView
  <2>4. CASE pc'[c] = "reply"
    BY <2>3, <2>4
  <2>5. CASE /\ \A n \in DOMAIN disk[fds[k].of] :
                   disk[fds[k].of][n].name # frame[c].file
             /\ pc'[c] = "create"
             /\ frame' = [frame EXCEPT ![c].src = -1]
    <3>1. frame'[c].file = frame[c].file
      BY <1>0, <2>5 DEF TypeOK, Frame
    <3>2. \A r \in RecordsOf(table)' : r.name # frame'[c].file
      BY <1>0, <2>1, <2>2, <2>5, <3>1 DEF RecordsOf, Meta
    <3>. QED  BY <2>3, <2>5, <3>2
  <2>. QED  BY <1>0, <1>2, <2>4, <2>5 DEF ChkScan, Finish, Goto, TypeOK
<1>3. CASE ChkLost(c)
  <2>1. pc'[c] \in {"reply", "spin"} /\ disk' = disk
    BY <1>0, <1>3 DEF ChkLost, Finish, Spin, Goto, TypeOK
  <2>. QED  BY <1>0, <2>1, SameView
<1>4. CASE Create(c)
  <2>1. pc'[c] = "wd_open" /\ pc[c] = "create" /\ disk' = disk
    BY <1>0, <1>4 DEF Create, Goto, TypeOK
  <2>2. frame'[c].file = frame[c].file
    <3>1. \/ frame'[c] = frame[c]
          \/ \E j \in Fds : frame'[c] = [frame[c] EXCEPT !.fp = j]
      BY <1>0, <1>4 DEF Create, TypeOK
    <3>. QED  BY <1>0, <3>1 DEF Frame
  <2>3. \A r \in RecordsOf(table)' : r.name # frame'[c].file
    BY <1>0, <2>1, <2>2 DEF OpenInv, NewName, RecordsOf
  <2>. QED  BY <1>0, <2>1, <2>3, SameView
<1>5. CASE WdWrite(c)
  <2>. DEFINE rec == [name |-> frame[c].file, fd |-> frame[c].fp]
  <2>1. pc'[c] = "reply"
    BY <1>0, <1>5 DEF WdWrite, Finish, Goto, TypeOK
  <2>2. CASE k = -1
    BY <1>0, <1>5, <2>1, <2>2, SameView DEF WdWrite
  <2>3. CASE k # -1
    <3>1. k \in Fds /\ fds[k] = Meta(table)
      BY <1>0, <1>5, <2>3 DEF WdWrite, OpenInv, OnTable, Numbers
    <3>2. RecordsOf(table)' = RecordsOf(table) \cup {rec}
      BY <1>0, <1>5, <3>1, WdWriteRecords DEF OpenInv
    <3>3. RegView = RecordsOf(table) /\ RegView' = RecordsOf(table)'
      BY <1>0 DEF RegView, RecordsOf
    <3>7. RegView' = RegView \cup {rec}
      BY <3>2, <3>3
    <3>8. \A r \in RegView : r.name # frame[c].file
      BY <1>0, <1>5 DEF OpenInv, NewName, WdWrite, RegView
    <3>9. Registry!Register(frame[c].file, frame[c].fp)
      BY <3>7, <3>8 DEF Registry!Register
    <3>. QED  BY <1>0, <2>1, <3>9 DEF Registry!Next, Frame, Numbers
  <2>. QED  BY <2>2, <2>3
<1>. QED  BY <1>1, <1>2, <1>3, <1>4, <1>5 DEF FopenStep

LEMMA DieStep ==
  ASSUME OpenInv, Die
  PROVE  /\ NoCloses' /\ TableThere' /\ UpServes' /\ OnTable' /\ NewName'
         /\ RegView' = RegView
<1>1. \A d \in Clients : pc'[d] = "off"
  BY DEF Die
<1>2. table # None => disk'[table] = disk[table]
  BY TableKept DEF OpenInv, TypeOK, Die
<1>3. cache = None /\ UNCHANGED <<table, cache>> /\ ~up'
  BY DEF OpenInv, TableThere, Die
<1>4. RegView' = RegView
  BY <1>2, <1>3, SameView
<1>. QED  BY <1>1, <1>3, <1>4 DEF NoCloses, TableThere, UpServes, OnTable,
                                  NewName, CloseSteps

LEMMA StartStep ==
  ASSUME OpenInv, Start
  PROVE  /\ NoCloses' /\ TableThere' /\ UpServes' /\ OnTable' /\ NewName'
         /\ RegView' = {}
<1>1. \A d \in Clients : pc'[d] = "off"
  BY DEF OpenInv, UpServes, Start
<1>2. cache' = None /\ table' \in Inodes /\ table' # None /\ up'
  BY ConstantsOK DEF OpenInv, TableThere, Start, ConstantsOK
<1>3. disk'[table'] = <<>>
  <2>1. Reclaimed(disk, table', cache, fds) \in [Inodes -> Seq(Record)]
    BY ReclaimedType DEF OpenInv, TypeOK
  <2>. QED  BY <1>2, <2>1 DEF Start
<1>4. RegView' = {}
  BY <1>2, <1>3 DEF RegView, RecordsOf
<1>. QED  BY <1>1, <1>2, <1>4 DEF NoCloses, TableThere, UpServes, OnTable,
                                  NewName, CloseSteps

LEMMA OpenInvStep ==
  ASSUME Closers = {}, OpenInv, [Next]_vars
  PROVE  OpenInv' /\ [Registry!Next]_RegView
<1>0. TypeOK' /\ Named' /\ OpensExclude' /\ LockHeldInside'
  BY NextType, NextNamed, NextLock DEF OpenInv
<1>1. CASE UNCHANGED vars
  BY <1>0, <1>1 DEF OpenInv, vars, NoCloses, TableThere, UpServes, OnTable,
                    NewName, RegView, RecordsOf
<1>2. CASE Start
  BY <1>0, <1>2, StartStep DEF OpenInv, Registry!Next, Registry!Reset
<1>3. CASE Crash \/ AcceptFails
  BY <1>0, <1>3, DieStep DEF OpenInv, Crash, AcceptFails
<1>4. ASSUME NEW c \in Clients, Accept(c) \/ Request(c) \/ Reply(c)
      PROVE  OpenInv' /\ [Registry!Next]_RegView
  <2>1. /\ UNCHANGED <<up, table, cache, disk>>
        /\ NoCloses' /\ UpServes' /\ OnTable' /\ NewName'
    BY <1>4, RestStep
  <2>. QED  BY <1>0, <2>1, SameView DEF OpenInv, TableThere
<1>5. ASSUME NEW c \in Clients, FopenStep(c)
      PROVE  OpenInv' /\ [Registry!Next]_RegView
  <2>1. /\ \A d \in Clients \ {c} : pc'[d] \notin OpenSteps \cup CloseSteps
        /\ up /\ pc'[c] \notin CloseSteps /\ UNCHANGED <<up, table, cache>>
    BY <1>5, OnlyOpener
  <2>2. NoCloses' /\ TableThere' /\ UpServes'
    BY <2>1 DEF OpenInv, NoCloses, TableThere, UpServes
  <2>3. OnTable' /\ NewName'
    BY <1>5, <2>1, OpenerStep DEF OnTable, NewName, OpenSteps, Meta
  <2>. QED  BY <1>0, <1>5, <2>2, <2>3, OpenerStep DEF OpenInv
<1>6. ASSUME NEW c \in Clients, FcloseStep(c)
      PROVE  FALSE
  BY <1>6, OwnStep DEF OpenInv, NoCloses
<1>. QED  BY <1>1, <1>2, <1>3, <1>4, <1>5, <1>6 DEF Next, Serve

(* With clients that do not send FCLOSE the server implements the registry *)
(* of FileRegistry: whatever threads interleave, however full the          *)
(* descriptor table is and however often the process restarts, a name is   *)
(* entered at most once at a time, by one atomic step (fserv.cc:103-147,   *)
(* descriptor.cc:43-117).                                                  *)
THEOREM OpenServerImplementsRegistry ==
  ASSUME Closers = {}
  PROVE  Spec => RegistrySpec
<1>1. Init => OpenInv /\ Registry!Init
  <2>1. <<>> \in Seq(Record)
    BY EmptySeq
  <2>2. Init => TypeOK /\ Named
    BY <2>1, NoFrameType DEF Init, TypeOK, Named, Places, Objects, OpenSteps
  <2>. QED  BY <2>2, InitLock DEF Init, OpenInv, NoCloses, TableThere, UpServes,
               OnTable, NewName, CloseSteps, RegView, Registry!Init
<1>2. OpenInv /\ [Next]_vars => OpenInv' /\ [Registry!Next]_RegView
  BY OpenInvStep
<1>. QED  BY <1>1, <1>2, PTL DEF Spec, RegistrySpec, Registry!Spec
=============================================================================
