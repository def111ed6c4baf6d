-------------------------- MODULE FServCalmProofs --------------------------
(***************************************************************************)
(* Proofs about the file server with clients that send FCLOSE: everything  *)
(* it promises holds until the first mishap.                               *)
(***************************************************************************)
EXTENDS FServProofs

(* What the fields of a frame are after the assignments of an action.      *)
LEMMA SrcField ==
  ASSUME NEW fr \in Frame, NEW k \in Numbers, NEW g, g = [fr EXCEPT !.src = k]
  PROVE  /\ g.src = k /\ g.op = fr.op /\ g.file = fr.file /\ g.id = fr.id
         /\ g.fp = fr.fp /\ g.dst = fr.dst /\ g.rd = fr.rd /\ g.wr = fr.wr
         /\ g.found = fr.found /\ g.gone = fr.gone /\ g.ans = fr.ans
BY DEF Frame

LEMMA DstField ==
  ASSUME NEW fr \in Frame, NEW k \in Numbers, NEW g, g = [fr EXCEPT !.dst = k]
  PROVE  /\ g.src = fr.src /\ g.op = fr.op /\ g.file = fr.file /\ g.id = fr.id
         /\ g.fp = fr.fp /\ g.dst = k /\ g.rd = fr.rd /\ g.wr = fr.wr
         /\ g.found = fr.found /\ g.gone = fr.gone /\ g.ans = fr.ans
BY DEF Frame

LEMMA FpField ==
  ASSUME NEW fr \in Frame, NEW k \in Numbers, NEW g, g = [fr EXCEPT !.fp = k]
  PROVE  /\ g.src = fr.src /\ g.op = fr.op /\ g.file = fr.file /\ g.id = fr.id
         /\ g.fp = k /\ g.dst = fr.dst /\ g.rd = fr.rd /\ g.wr = fr.wr
         /\ g.found = fr.found /\ g.gone = fr.gone /\ g.ans = fr.ans
BY DEF Frame

LEMMA GoneField ==
  ASSUME NEW fr \in Frame, NEW b \in BOOLEAN, NEW g, g = [fr EXCEPT !.gone = b]
  PROVE  /\ g.src = fr.src /\ g.op = fr.op /\ g.file = fr.file /\ g.id = fr.id
         /\ g.fp = fr.fp /\ g.dst = fr.dst /\ g.rd = fr.rd /\ g.wr = fr.wr
         /\ g.found = fr.found /\ (g.gone <=> b) /\ g.ans = fr.ans
BY DEF Frame

LEMMA DropField ==
  ASSUME NEW fr \in Frame, NEW g, g = [fr EXCEPT !.rd = @ + 1, !.found = TRUE]
  PROVE  /\ g.src = fr.src /\ g.op = fr.op /\ g.file = fr.file /\ g.id = fr.id
         /\ g.fp = fr.fp /\ g.dst = fr.dst /\ g.rd = fr.rd + 1 /\ g.wr = fr.wr
         /\ g.found /\ g.gone = fr.gone /\ g.ans = fr.ans
BY DEF Frame

LEMMA CopyField ==
  ASSUME NEW fr \in Frame, NEW g, g = [fr EXCEPT !.rd = @ + 1, !.wr = @ + 1]
  PROVE  /\ g.src = fr.src /\ g.op = fr.op /\ g.file = fr.file /\ g.id = fr.id
         /\ g.fp = fr.fp /\ g.dst = fr.dst /\ g.rd = fr.rd + 1
         /\ g.wr = fr.wr + 1 /\ g.found = fr.found /\ g.gone = fr.gone
         /\ g.ans = fr.ans
BY DEF Frame

LEMMA ResetField ==
  ASSUME NEW fr \in Frame,
         NEW g, g = [fr EXCEPT !.src = -1, !.dst = -1, !.rd = 0, !.wr = 0]
  PROVE  /\ g.op = fr.op /\ g.file = fr.file /\ g.id = fr.id
         /\ g.fp = fr.fp /\ g.found = fr.found /\ g.gone = fr.gone
         /\ g.ans = fr.ans
BY DEF Frame

LEMMA FinishField ==
  ASSUME TypeOK, NEW c \in Clients, NEW answer, Finish(c, answer)
  PROVE  /\ pc'[c] = "reply"
         /\ frame'[c].op = frame[c].op /\ frame'[c].file = frame[c].file
         /\ frame'[c].id = frame[c].id /\ frame'[c].ans = answer
BY DEF TypeOK, Finish, Goto, NoFrame

(* A request gives the thread a frame of which only the request is set.    *)
LEMMA RequestField ==
  ASSUME TypeOK, Blank, NEW c \in Clients, Request(c)
  PROVE  LET fr == frame'[c] IN
         \/ Quit(c) /\ pc'[c] = "off" /\ fr = NoFrame
         \/ /\ pc'[c] = "chk_open" /\ lock = None /\ lock' = c /\ fr.op = "FOPEN"
            /\ fr.fp = -1 /\ mishaps' = mishaps \cup
                 (IF \E d \in Clients : InClose(d) THEN {"overlap"} ELSE {})
         \/ pc'[c] = "reply" /\ lock' = lock /\ fr.ans.kind = "FAIL"
         \/ /\ pc'[c] = "del_src" /\ lock' = lock /\ fr.op = "FCLOSE id x"
            /\ fr.rd = 0 /\ fr.wr = 0 /\ ~fr.found
            /\ mishaps' = mishaps \cup
                 (IF lock # None \/ \E d \in Clients : InClose(d)
                  THEN {"overlap"} ELSE {})
<1>0. frame[c] = NoFrame /\ pc[c] = "idle"
  BY OwnStep DEF Blank
<1>1. CASE Quit(c)
  BY <1>0, <1>1 DEF Quit, TypeOK, Goto
<1>2. ASSUME NEW f \in Files, Fopen(c, f), lock = None
      PROVE  /\ pc'[c] = "chk_open" /\ lock' = c
             /\ frame'[c].op = "FOPEN" /\ frame'[c].fp = -1
             /\ mishaps' = mishaps \cup
                  (IF \E d \in Clients : InClose(d) THEN {"overlap"} ELSE {})
  <2>1. frame'[c] = [NoFrame EXCEPT !.op = "FOPEN", !.file = f]
    BY <1>0, <1>2 DEF Fopen, TypeOK
  <2>2. frame'[c].op = "FOPEN" /\ frame'[c].fp = -1
    BY <2>1 DEF NoFrame
  <2>. QED  BY <1>2, <2>2 DEF Fopen, TypeOK, Goto, Note
<1>3. ASSUME NEW f \in Files, Fopen(c, f), lock # None
      PROVE  pc'[c] = "reply" /\ lock' = lock /\ frame'[c].ans.kind = "FAIL"
  <2>1. frame'[c] = [NoFrame EXCEPT !.op = "FOPEN", !.file = f,
                                    !.ans = Said("FAIL", 0)]
    BY <1>0, <1>3 DEF Fopen, TypeOK
  <2>2. frame'[c].ans.kind = "FAIL"
    BY <2>1 DEF NoFrame, Said
  <2>. QED  BY <1>3, <2>2 DEF Fopen, TypeOK, Goto
<1>4. ASSUME NEW n \in Numbers, Fclose(c, n)
      PROVE  /\ pc'[c] = "del_src" /\ lock' = lock
             /\ frame'[c].op = "FCLOSE id x" /\ frame'[c].rd = 0
             /\ frame'[c].wr = 0 /\ ~frame'[c].found
             /\ mishaps' = mishaps \cup
                  (IF lock # None \/ \E d \in Clients : InClose(d)
                   THEN {"overlap"} ELSE {})
  <2>1. frame'[c] = [NoFrame EXCEPT !.op = "FCLOSE id x", !.id = n]
    BY <1>0, <1>4 DEF Fclose, TypeOK
  <2>2. /\ frame'[c].op = "FCLOSE id x" /\ frame'[c].rd = 0
        /\ frame'[c].wr = 0 /\ ~frame'[c].found
    BY <2>1 DEF NoFrame
  <2>. QED  BY <1>4, <2>2 DEF Fclose, TypeOK, Goto, Note
<1>5. ASSUME NEW n \in Numbers, FcloseImproper(c, n)
      PROVE  pc'[c] = "reply" /\ lock' = lock /\ frame'[c].ans.kind = "FAIL"
  <2>1. frame'[c] = [NoFrame EXCEPT !.op = "FCLOSE id", !.id = n,
                                    !.ans = Said("FAIL", 0)]
    BY <1>0, <1>5 DEF FcloseImproper, TypeOK
  <2>2. frame'[c].ans.kind = "FAIL"
    BY <2>1 DEF NoFrame, Said
  <2>. QED  BY <1>5, <2>2 DEF FcloseImproper, TypeOK, Goto
<1>6. CASE \E f \in Files : Fopen(c, f)
  BY <1>2, <1>3, <1>6
<1>7. CASE \E n \in Numbers : Fclose(c, n) \/ FcloseImproper(c, n)
  BY <1>4, <1>5, <1>7
<1>. QED  BY <1>1, <1>6, <1>7 DEF Request

(* What a step of a FOPEN leaves alone in the frame.                       *)
LEMMA OpenerFrame ==
  ASSUME TypeOK, NEW c \in Clients, FopenStep(c)
  PROVE  /\ pc'[c] # "spin" => /\ frame'[c].op = frame[c].op
                              /\ frame'[c].file = frame[c].file
         /\ pc'[c] \in {"chk_scan", "create"} =>
              /\ pc[c] \in {"chk_open", "chk_scan"}
              /\ frame'[c].fp = frame[c].fp
         /\ pc'[c] # "chk_open"
<1>0. frame[c] \in Frame
  BY DEF TypeOK
<1>1. CASE ChkOpen(c)
  <2>1. PICK k \in Numbers : frame' = [frame EXCEPT ![c].src = k]
    BY <1>1 DEF ChkOpen
  <2>2. frame'[c] = [frame[c] EXCEPT !.src = k]
    BY <2>1 DEF TypeOK
  <2>3. pc[c] = "chk_open" /\ pc'[c] = "chk_scan"
    BY <1>1 DEF ChkOpen, TypeOK, Goto
  <2>. QED  BY <1>0, <2>2, <2>3, SrcField
<1>2. CASE ChkScan(c)
  <2>1. CASE Goto(c, "create") /\ frame' = [frame EXCEPT ![c].src = -1]
    <3>1. frame'[c] = [frame[c] EXCEPT !.src = -1] /\ -1 \in Numbers
      BY <2>1 DEF TypeOK, Numbers
    <3>2. pc[c] = "chk_scan" /\ pc'[c] = "create"
      BY <1>2, <2>1 DEF ChkScan, TypeOK, Goto
    <3>. QED  BY <1>0, <3>1, <3>2, SrcField
  <2>2. CASE \E answer : Finish(c, answer)
    BY <2>2, FinishField
  <2>. QED  BY <1>2, <2>1, <2>2 DEF ChkScan
<1>3. CASE ChkLost(c)
  <2>1. CASE \E answer : Finish(c, answer)
    BY <2>1, FinishField
  <2>2. CASE Spin(c)
    BY <2>2 DEF Spin, Goto, TypeOK
  <2>. QED  BY <1>3, <2>1, <2>2 DEF ChkLost
<1>4. CASE Create(c)
  <2>1. pc'[c] = "wd_open"
    BY <1>4 DEF Create, TypeOK, Goto
  <2>2. \/ frame'[c] = frame[c]
        \/ \E k \in Fds : frame'[c] = [frame[c] EXCEPT !.fp = k]
    BY <1>4 DEF Create, TypeOK
  <2>3. ASSUME NEW k \in Fds, frame'[c] = [frame[c] EXCEPT !.fp = k]
        PROVE  frame'[c].op = frame[c].op /\ frame'[c].file = frame[c].file
    <3>1. k \in Numbers
      BY DEF Numbers
    <3>. QED  BY <1>0, <2>3, <3>1, FpField
  <2>. QED  BY <2>1, <2>2, <2>3
<1>5. CASE WdOpen(c)
  <2>1. PICK k \in Numbers : frame' = [frame EXCEPT ![c].src = k]
    BY <1>5 DEF WdOpen
  <2>2. frame'[c] = [frame[c] EXCEPT !.src = k]
    BY <2>1 DEF TypeOK
  <2>3. pc'[c] = "wd_write"
    BY <1>5 DEF WdOpen, TypeOK, Goto
  <2>. QED  BY <1>0, <2>2, <2>3, SrcField
<1>6. CASE WdWrite(c)
  BY <1>6, FinishField DEF WdWrite
<1>. QED  BY <1>1, <1>2, <1>3, <1>4, <1>5, <1>6 DEF FopenStep

(* The same of a FCLOSE.                                                   *)
LEMMA CloserFrame ==
  ASSUME TypeOK, NEW c \in Clients, FcloseStep(c)
  PROVE  /\ pc'[c] # "spin" => /\ frame'[c].op = frame[c].op
                              /\ frame'[c].id = frame[c].id
         /\ pc'[c] = "del_dst" =>
              /\ pc[c] = "del_src" /\ frame'[c].rd = frame[c].rd
              /\ frame'[c].wr = frame[c].wr /\ frame'[c].found = frame[c].found
         /\ pc'[c] # "del_src"
<1>0. frame[c] \in Frame
  BY DEF TypeOK
<1>1. CASE DelSrc(c)
  <2>1. PICK k \in Numbers : frame' = [frame EXCEPT ![c].src = k]
    BY <1>1 DEF DelSrc
  <2>2. frame'[c] = [frame[c] EXCEPT !.src = k]
    BY <2>1 DEF TypeOK
  <2>3. pc[c] = "del_src" /\ pc'[c] = "del_dst"
    BY <1>1 DEF DelSrc, TypeOK, Goto
  <2>. QED  BY <1>0, <2>2, <2>3, SrcField
<1>2. CASE DelDst(c)
  <2>1. PICK k \in Numbers : frame' = [frame EXCEPT ![c].dst = k]
    BY <1>2 DEF DelDst
  <2>2. frame'[c] = [frame[c] EXCEPT !.dst = k]
    BY <2>1 DEF TypeOK
  <2>3. pc'[c] = "del_copy"
    BY <1>2 DEF DelDst, TypeOK, Goto
  <2>. QED  BY <1>0, <2>2, <2>3, DstField
<1>3. CASE DelCopy(c)
  <2>1. pc'[c] = "del_copy"
    BY <1>3 DEF DelCopy
  <2>2. \/ frame'[c] = [frame[c] EXCEPT !.rd = @ + 1, !.found = TRUE]
        \/ frame'[c] = [frame[c] EXCEPT !.rd = @ + 1, !.wr = @ + 1]
    BY <1>3 DEF DelCopy, TypeOK
  <2>3. CASE frame'[c] = [frame[c] EXCEPT !.rd = @ + 1, !.found = TRUE]
    BY <1>0, <2>1, <2>3, DropField
  <2>4. CASE frame'[c] = [frame[c] EXCEPT !.rd = @ + 1, !.wr = @ + 1]
    BY <1>0, <2>1, <2>4, CopyField
  <2>. QED  BY <2>2, <2>3, <2>4
<1>4. CASE DelCopyEnd(c)
  <2>1. pc'[c] = "del_remove"
    BY <1>4 DEF DelCopyEnd, TypeOK, Goto
  <2>2. frame'[c] = [frame[c] EXCEPT !.src = -1, !.dst = -1, !.rd = 0, !.wr = 0]
    BY <1>4 DEF DelCopyEnd, TypeOK
  <2>. QED  BY <1>0, <2>1, <2>2, ResetField
<1>5. CASE DelLost(c)
  BY <1>5 DEF DelLost, Spin, Goto, TypeOK
<1>6. CASE DelRemove(c)
  <2>1. pc'[c] = "del_rename"
    BY <1>6 DEF DelRemove, TypeOK, Goto
  <2>2. frame'[c] = [frame[c] EXCEPT !.gone = (table # None)]
    BY <1>6 DEF DelRemove, TypeOK
  <2>. QED  BY <1>0, <2>1, <2>2, GoneField
<1>7. CASE DelRename(c)
  <2>1. CASE Goto(c, "del_close") /\ UNCHANGED frame
    BY <2>1 DEF Goto, TypeOK
  <2>2. CASE \E answer : Finish(c, answer)
    BY <2>2, FinishField
  <2>. QED  BY <1>7, <2>1, <2>2 DEF DelRename
<1>8. CASE DelClose(c)
  BY <1>8, FinishField DEF DelClose
<1>. QED  BY <1>1, <1>2, <1>3, <1>4, <1>5, <1>6, <1>7, <1>8 DEF FcloseStep

LEMMA BlankStep == ASSUME TypeOK, Blank, [Next]_vars PROVE Blank'
<1>1. CASE UNCHANGED vars
  BY <1>1 DEF vars, Blank
<1>2. CASE Start
  BY <1>2 DEF Start, Blank
<1>3. CASE Crash \/ AcceptFails
  BY <1>3 DEF Crash, AcceptFails, Die, Blank, OpenSteps, CloseSteps
<1>4. ASSUME NEW c \in Clients, Accept(c) \/ Request(c) \/ Serve(c)
      PROVE  Blank'
  <2>. DEFINE B(d) == LET fr == frame[d] IN
         /\ pc[d] \in {"off", "idle"} => fr = NoFrame
         /\ pc[d] \in OpenSteps => fr.op = "FOPEN"
         /\ pc[d] \in CloseSteps => fr.op = "FCLOSE id x"
         /\ pc[d] \in {"chk_open", "chk_scan", "create"} => fr.fp = -1
         /\ pc[d] \in {"del_src", "del_dst"} => fr.rd = 0 /\ fr.wr = 0 /\ ~fr.found
  <2>1. \A d \in Clients : B(d)
    BY DEF Blank
  <2>2. ASSUME NEW d \in Clients \ {c} PROVE B(d)'
    BY <1>4, <2>1, <2>2, OthersStay
  <2>3. B(c)'
    <3>1. CASE Accept(c)
      BY <2>1, <3>1 DEF Accept, Goto, TypeOK, OpenSteps, CloseSteps
    <3>2. CASE Request(c)
      BY <3>2, RequestField DEF OpenSteps, CloseSteps
    <3>3. CASE Reply(c)
      BY <3>3 DEF Reply, Goto, TypeOK, OpenSteps, CloseSteps
    <3>4. CASE FopenStep(c)
      BY <2>1, <3>4, OwnStep, OpenerFrame DEF OpenSteps, CloseSteps
    <3>5. CASE FcloseStep(c)
      BY <2>1, <3>5, OwnStep, CloserFrame DEF OpenSteps, CloseSteps
    <3>. QED  BY <1>4, <3>1, <3>2, <3>3, <3>4, <3>5 DEF Serve
  <2>4. \A d \in Clients : B(d)'
    BY <2>2, <2>3
  <2>. QED  BY <2>4 DEF Blank
<1>. QED  BY <1>1, <1>2, <1>3, <1>4 DEF Next

LEMMA AnswerLocksStep ==
  ASSUME TypeOK, OpensExclude, Blank, AnswerLocks, [Next]_vars
  PROVE  AnswerLocks'
<1>0. None \notin Clients
  BY ConstantsOK DEF ConstantsOK
<1>1. CASE UNCHANGED vars
  BY <1>1 DEF vars, AnswerLocks
<1>2. CASE Start
  BY <1>2 DEF Start, AnswerLocks
<1>3. CASE Crash \/ AcceptFails
  BY <1>3 DEF Crash, AcceptFails, Die, AnswerLocks
<1>4. ASSUME NEW c \in Clients, Accept(c) \/ Request(c) \/ Serve(c),
             NEW d \in Clients, pc'[d] = "reply", frame'[d].op = "FOPEN",
             frame'[d].ans.kind \in {"OK", "ERR"}
      PROVE  lock' = d
  <2>1. CASE d # c
    <3>1. lock = d
      BY <1>4, <2>1, OthersStay DEF AnswerLocks
    <3>2. lock' = lock \/ lock = None \/ lock = c
      BY <1>4, OwnStep DEF Serve
    <3>3. lock = c => lock' = lock
      BY <1>0, <2>1, <3>1
    <3>. QED  BY <1>0, <2>1, <3>1, <3>2, <3>3
  <2>2. CASE d = c
    <3>1. CASE Accept(c) \/ Reply(c)
      BY <1>4, <2>2, <3>1, OwnStep
    <3>2. CASE Request(c)
      BY <1>4, <2>2, <3>2, RequestField
    <3>3. CASE FopenStep(c)
      BY <1>4, <2>2, <3>3, OwnStep DEF OpensExclude
    <3>4. CASE FcloseStep(c)
      BY <1>4, <2>2, <3>4, OwnStep, CloserFrame DEF Blank
    <3>. QED  BY <1>4, <3>1, <3>2, <3>3, <3>4 DEF Serve
  <2>. QED  BY <2>1, <2>2
<1>. QED  BY <1>1, <1>2, <1>3, <1>4 DEF Next, AnswerLocks

(* A thread's step does not start or end the process.                      *)
LEMMA UpStays ==
  ASSUME NEW c \in Clients, Accept(c) \/ Request(c) \/ Serve(c)
  PROVE  up' = up
<1>1. CASE Accept(c) \/ Request(c) \/ Reply(c)
  BY <1>1 DEF Accept, Request, Quit, Fopen, Fclose, FcloseImproper, Reply
<1>2. CASE FopenStep(c)
  BY <1>2 DEF FopenStep, ChkOpen, ChkScan, ChkLost, Create, WdOpen, WdWrite
<1>3. CASE FcloseStep(c)
  BY <1>3 DEF FcloseStep, DelSrc, DelDst, DelCopy, DelCopyEnd, DelLost,
              DelRemove, DelRename, DelClose
<1>. QED  BY <1>1, <1>2, <1>3 DEF Serve

LEMMA ServingIsUp ==
  ASSUME TypeOK, DownClean, NEW c \in Clients,
         Accept(c) \/ Request(c) \/ Serve(c)
  PROVE  up
<1>1. Accept(c) => up
  BY DEF Accept
<1>2. Request(c) \/ Serve(c) => pc[c] # "off"
  BY OwnStep DEF Serve, OpenSteps, CloseSteps
<1>. QED  BY <1>1, <1>2 DEF DownClean

LEMMA DownCleanStep ==
  ASSUME TypeOK, DownClean, [Next]_vars PROVE DownClean'
<1>1. CASE UNCHANGED vars
  BY <1>1 DEF vars, DownClean
<1>2. CASE Start
  BY <1>2 DEF Start, DownClean
<1>3. CASE Crash \/ AcceptFails
  BY <1>3 DEF Crash, AcceptFails, Die, DownClean
<1>4. ASSUME NEW c \in Clients, Accept(c) \/ Request(c) \/ Serve(c)
      PROVE  DownClean'
  BY <1>4, UpStays, ServingIsUp DEF DownClean
<1>. QED  BY <1>1, <1>2, <1>3, <1>4 DEF Next

-----------------------------------------------------------------------------
(* Inodes.                                                                 *)

(* What reclaims leaves records only in what is referred to.               *)
LEMMA ReclaimRefers ==
  ASSUME NEW d, disk' = Reclaimed(d, table', cache', fds')
  PROVE  Referenced'
BY DEF Reclaimed, Referenced

(* What drops no reference keeps every inode referred to.                  *)
LEMMA KeepRefers ==
  ASSUME Referenced, disk' = disk, table' = table,
         cache' = cache \/ cache = None,
         \A k \in Fds : fds[k].kind = "meta" => fds'[k] = fds[k]
  PROVE  Referenced'
<1>1. None \notin Inodes
  BY ConstantsOK DEF ConstantsOK
<1>2. \A i : Meta(i).kind = "meta"
  BY DEF Meta
<1>. QED  BY <1>1, <1>2 DEF Referenced

LEMMA MetaIs ==
  ASSUME TypeOK, NEW k \in Fds, fds[k].kind = "meta"
  PROVE  fds[k] = Meta(fds[k].of)
<1>1. \E i \in Inodes : fds[k] = Meta(i)
  BY DEF TypeOK, Objects, Free, Sock, Data
<1>. QED  BY <1>1 DEF Meta

(* A descriptor on an inode is closed only where it is meant to be.        *)
LEMMA OpenMetaKeeps ==
  ASSUME TypeOK, NEW i, NEW k, OpenMeta(i, k)
  PROVE  /\ \A j \in Fds : fds[j] # Free => fds'[j] = fds[j]
         /\ \A j \in Fds : fds'[j] # Meta(i) => fds'[j] = fds[j]
BY DEF OpenMeta, TypeOK, Lowest

LEMMA RestKeeps ==
  ASSUME TypeOK, NEW c \in Clients, Accept(c) \/ Request(c) \/ Reply(c)
  PROVE  /\ UNCHANGED <<up, table, cache, disk>>
         /\ \A k \in Fds : fds[k].kind \in {"meta", "data"} => fds'[k] = fds[k]
         /\ \A k \in Fds : fds'[k].kind \in {"meta", "data"} => fds'[k] = fds[k]
<1>1. CASE Accept(c)
  BY <1>1 DEF Accept, Lowest, TypeOK, Free, Sock
<1>2. CASE Quit(c)
  BY <1>2 DEF Quit, Closed, TypeOK, Free, Sock
<1>3. CASE Reply(c) \/ UNCHANGED <<up, table, cache, disk, fds>>
  BY <1>3 DEF Reply
<1>. QED  BY <1>1, <1>2, <1>3 DEF Request, Fopen, Fclose, FcloseImproper

LEMMA ReferencedStep ==
  ASSUME TypeOK, Referenced, [Next]_vars PROVE Referenced'
<1>0. Free.kind # "meta"
  BY DEF Free
<1>1. CASE UNCHANGED vars
  BY <1>1 DEF vars, Referenced
<1>2. CASE Start
  <2>1. disk' = [Reclaimed(disk, table', cache', fds') EXCEPT ![table'] = <<>>]
    BY <1>2 DEF Start
  <2>2. ASSUME NEW i \in Inodes, disk'[i] # <<>>
        PROVE  i \in {table', cache'} \/ \E k \in Fds : fds'[k] = Meta(i)
    BY <2>1, <2>2 DEF Reclaimed
  <2>. QED  BY <2>2 DEF Referenced
<1>3. CASE Crash \/ AcceptFails
  <2>1. disk' = Reclaimed(disk, table', cache', fds')
    BY <1>3 DEF Crash, AcceptFails, Die
  <2>. QED  BY <2>1, ReclaimRefers
<1>4. ASSUME NEW c \in Clients, Accept(c) \/ Request(c) \/ Reply(c)
      PROVE  Referenced'
  BY <1>4, RestKeeps, KeepRefers
<1>5. ASSUME NEW c \in Clients, FopenStep(c)
      PROVE  Referenced'
  <2>1. CASE ChkOpen(c) \/ WdOpen(c)
    BY <1>0, <2>1, OpenMetaKeeps, KeepRefers DEF ChkOpen, WdOpen
  <2>2. CASE ChkScan(c)
    BY <2>2, ReclaimRefers DEF ChkScan
  <2>3. CASE ChkLost(c)
    BY <2>3, KeepRefers DEF ChkLost
  <2>4. CASE Create(c)
    BY <1>0, <2>4, KeepRefers DEF Create, Lowest, TypeOK
  <2>5. CASE WdWrite(c)
    BY <2>5, ReclaimRefers, KeepRefers DEF WdWrite
  <2>. QED  BY <1>5, <2>1, <2>2, <2>3, <2>4, <2>5 DEF FopenStep
<1>6. ASSUME NEW c \in Clients, FcloseStep(c)
      PROVE  Referenced'
  <2>1. CASE DelSrc(c)
    BY <1>0, <2>1, OpenMetaKeeps, KeepRefers DEF DelSrc
  <2>2. CASE DelDst(c)
    BY <1>0, <2>2, OpenMetaKeeps, KeepRefers DEF DelDst
  <2>3. CASE DelCopy(c)
    <3>. DEFINE fr == frame[c]
                i == fds[fr.dst].of
    <3>1. CASE disk' = disk
      BY <2>3, <3>1, KeepRefers DEF DelCopy
    <3>2. CASE \E recs : /\ fr.dst # -1 /\ fds[fr.dst].kind = "meta"
                         /\ disk' = [disk EXCEPT ![i] = recs]
      <4>1. fr.dst \in Fds
        BY <3>2 DEF TypeOK, Frame, Numbers
      <4>2. fds[fr.dst] = Meta(i)
        BY <3>2, <4>1, MetaIs
      <4>3. UNCHANGED <<table, cache, fds>>
        BY <2>3 DEF DelCopy
      <4>4. \A j \in Inodes : j # i => disk'[j] = disk[j]
        BY <3>2 DEF TypeOK
      <4>. QED  BY <4>1, <4>2, <4>3, <4>4 DEF Referenced
    <3>. QED  BY <2>3, <3>1, <3>2 DEF DelCopy
  <2>4. CASE DelCopyEnd(c)
    BY <2>4, ReclaimRefers DEF DelCopyEnd
  <2>5. CASE DelLost(c)
    BY <2>5, KeepRefers DEF DelLost
  <2>6. CASE DelRemove(c)
    BY <2>6, ReclaimRefers DEF DelRemove
  <2>7. CASE DelRename(c)
    BY <2>7, ReclaimRefers, KeepRefers DEF DelRename
  <2>8. CASE DelClose(c)
    BY <2>8, ReclaimRefers DEF DelClose
  <2>. QED  BY <1>6, <2>1, <2>2, <2>3, <2>4, <2>5, <2>6, <2>7, <2>8 DEF FcloseStep
<1>. QED  BY <1>1, <1>2, <1>3, <1>4, <1>5, <1>6 DEF Next, Serve

LEMMA TidyInit == Init => Tidy
<1>1. <<>> \in Seq(Record)
  BY EmptySeq
<1>2. Init => TypeOK /\ Named
  BY <1>1, NoFrameType DEF Init, TypeOK, Named, Places, Objects, OpenSteps
<1>3. Init => Blank /\ AnswerLocks /\ DownClean /\ Referenced
  BY DEF Init, Blank, AnswerLocks, DownClean, Referenced, OpenSteps, CloseSteps
<1>. QED  BY <1>2, <1>3, InitLock DEF Tidy

LEMMA TidyStep == ASSUME Tidy, [Next]_vars PROVE Tidy'
BY NextType, NextNamed, NextLock, BlankStep, AnswerLocksStep, DownCleanStep,
   ReferencedStep DEF Tidy

-----------------------------------------------------------------------------
(* The steps that neither read nor change the two files.                   *)

(* A mishap is never forgotten.                                            *)
LEMMA CalmBefore == ASSUME [Next]_vars, Calm' PROVE Calm
<1>1. CASE UNCHANGED vars
  BY <1>1 DEF vars, Calm
<1>2. CASE Start \/ Crash \/ AcceptFails
  BY <1>2 DEF Start, Crash, AcceptFails, Die, Note, Calm
<1>3. ASSUME NEW c \in Clients, Accept(c) \/ Request(c) \/ Reply(c)
      PROVE  Calm
  BY <1>3 DEF Accept, Request, Quit, Fopen, Fclose, FcloseImproper, Reply,
              Note, Calm
<1>4. ASSUME NEW c \in Clients, FopenStep(c)
      PROVE  Calm
  BY <1>4 DEF FopenStep, ChkOpen, ChkScan, ChkLost, Create, WdOpen, WdWrite,
              OpenMeta, Note, Calm
<1>5. ASSUME NEW c \in Clients, FcloseStep(c)
      PROVE  Calm
  BY <1>5 DEF FcloseStep, DelSrc, DelDst, DelCopy, DelCopyEnd, DelLost,
              DelRemove, DelRename, DelClose, OpenMeta, Note, Calm
<1>. QED  BY <1>1, <1>2, <1>3, <1>4, <1>5 DEF Next, Serve

(* The registry is that of the directory entries and their inodes.         *)
LEMMA KeptView ==
  ASSUME UNCHANGED <<table, cache>>,
         table # None => disk'[table] = disk[table],
         cache # None => disk'[cache] = disk[cache]
  PROVE  RegView' = RegView
BY DEF RegView, RecordsOf

(* Nothing is asked of a thread that is not inside a request, or that is   *)
(* to say FAIL.                                                            *)
LEMMA IdleIsSound ==
  ASSUME NEW c \in Clients,
         \/ pc'[c] \in {"off", "idle", "chk_open", "del_src", "spin"}
         \/ pc'[c] = "reply" /\ frame'[c].op # "FOPEN"
         \/ pc'[c] = "reply" /\ frame'[c].ans.kind \notin {"OK", "ERR"}
  PROVE  Sound(c)'
BY DEF Sound, ThroughTable, Creating, Copying, Closing, Truthful

LEMMA DieCalm ==
  ASSUME Tidy, Orderly, Die, Calm'
  PROVE  Orderly' /\ RegView' = RegView
<1>1. cache = None /\ UNCHANGED <<table, cache>> /\ ~up'
  BY DEF Die, Note, Calm
<1>2. \A c \in Clients : pc'[c] = "off"
  BY DEF Die
<1>3. RegView' = RegView
  <2>1. table # None => disk'[table] = disk[table]
    BY TableKept DEF Tidy, TypeOK, Die
  <2>. QED  BY <1>1, <2>1, KeptView
<1>4. \A c \in Clients : Sound(c)'
  BY <1>2, IdleIsSound
<1>5. CloseAlone' /\ TwoFiles' /\ RecordsTrue' /\ NoLeak'
  BY <1>1, <1>2 DEF CloseAlone, TwoFiles, RecordsTrue, NoLeak, InClose,
                    CloseSteps
<1>. QED  BY <1>3, <1>4, <1>5 DEF Orderly

LEMMA StartCalm ==
  ASSUME Tidy, Orderly, Start
  PROVE  Orderly' /\ RegView' = {}
<1>1. \A c \in Clients : pc'[c] = "off"
  BY DEF Start, Tidy, DownClean
<1>2. \A k \in Fds : fds'[k] = Free
  BY DEF Start, Tidy, DownClean
<1>3. cache' = None /\ table' \in Inodes /\ table' # None
  BY <1>1, ConstantsOK DEF Start, Orderly, TwoFiles, ConstantsOK
<1>4. disk'[table'] = <<>>
  <2>1. Reclaimed(disk, table', cache, fds) \in [Inodes -> Seq(Record)]
    BY ReclaimedType DEF Tidy, TypeOK
  <2>. QED  BY <1>3, <2>1 DEF Start
<1>5. RegView' = {}
  BY <1>3, <1>4 DEF RegView, RecordsOf
<1>6. \A c \in Clients : Sound(c)'
  BY <1>1, IdleIsSound
<1>7. CloseAlone' /\ TwoFiles'
  BY <1>1, <1>3 DEF CloseAlone, TwoFiles, InClose, CloseSteps
<1>8. RecordsTrue' /\ NoLeak'
  BY <1>2, <1>5 DEF RecordsTrue, NoLeak, Free, Data
<1>. QED  BY <1>5, <1>6, <1>7, <1>8 DEF Orderly

(* A thread keeps what it relies on while others come, go, ask and answer. *)
LEMMA StaysSound ==
  ASSUME TypeOK, NEW d \in Clients, Sound(d), pc'[d] = pc[d],
         frame'[d] = frame[d], UNCHANGED <<table, cache, disk>>,
         \A k \in Fds : fds[k].kind \in {"meta", "data"} => fds'[k] = fds[k],
         \A k \in Fds : fds'[k].kind \in {"meta", "data"} => fds'[k] = fds[k]
  PROVE  Sound(d)'
<1>0. /\ \A i : Meta(i)' = Meta(i) /\ Meta(i).kind = "meta"
      /\ \A f : Data(f)' = Data(f) /\ Data(f).kind = "data"
  BY DEF Meta, Data
<1>1. /\ \A i : RecordsOf(i)' = RecordsOf(i)
      /\ RegView' = RegView
  BY DEF RecordsOf, RegView
<1>2. ThroughTable(d)'
  BY <1>0 DEF Sound, ThroughTable
<1>3. Creating(d)'
  BY <1>0, <1>1 DEF Sound, Creating
<1>4. Copying(d)'
  BY <1>1 DEF Sound, Copying, Kept
<1>5. Closing(d)'
  BY <1>0, <1>1 DEF Sound, Closing
<1>6. Truthful(d)'
  BY <1>0, <1>1 DEF Sound, Truthful
<1>. QED  BY <1>2, <1>3, <1>4, <1>5, <1>6 DEF Sound

LEMMA RecordsAreRecords ==
  ASSUME TypeOK, NEW i \in Inodes
  PROVE  /\ disk[i] \in Seq(Record) /\ Len(disk[i]) \in Nat
         /\ DOMAIN disk[i] = 1..Len(disk[i])
         /\ \A n \in 1..Len(disk[i]) : disk[i][n] \in Record
         /\ RecordsOf(i) \subseteq Record
<1>1. disk[i] \in Seq(Record)
  BY DEF TypeOK
<1>2. Len(disk[i]) \in Nat /\ DOMAIN disk[i] = 1..Len(disk[i])
  BY <1>1, LenProperties
<1>3. \A n \in 1..Len(disk[i]) : disk[i][n] \in Record
  BY <1>1, ElementOfSeq
<1>. QED  BY <1>1, <1>2, <1>3 DEF RecordsOf

LEMMA ViewIsRecords == ASSUME TypeOK PROVE RegView \subseteq Record
BY RecordsAreRecords DEF RegView, TypeOK

LEMMA RestCalm ==
  ASSUME Tidy, Orderly, Calm, Calm', NEW c \in Clients,
         Accept(c) \/ Request(c) \/ Reply(c)
  PROVE  Orderly' /\ RegView' = RegView
<1>1. /\ UNCHANGED <<up, table, cache, disk>>
      /\ \A k \in Fds : fds[k].kind \in {"meta", "data"} => fds'[k] = fds[k]
      /\ \A k \in Fds : fds'[k].kind \in {"meta", "data"} => fds'[k] = fds[k]
  BY RestKeeps DEF Tidy
<1>2. \A d \in Clients \ {c} : pc'[d] = pc[d] /\ frame'[d] = frame[d]
  BY OthersStay DEF Tidy, Serve
<1>3. RegView' = RegView
  BY <1>1, KeptView
<1>4. /\ pc[c] \in {"off", "idle", "reply"}
      /\ \/ pc'[c] \in {"off", "idle"}
         \/ /\ pc'[c] = "reply" /\ frame'[c].ans.kind = "FAIL"
         \/ /\ pc'[c] = "chk_open"
            /\ \A d \in Clients : ~InClose(d)
         \/ /\ pc'[c] = "del_src" /\ lock = None
            /\ \A d \in Clients : ~InClose(d)
      /\ \/ lock' = lock
         \/ lock' = None
         \/ \A d \in Clients : ~InClose(d)
  <2>1. CASE Accept(c) \/ Reply(c)
    BY <2>1, OwnStep DEF Tidy
  <2>2. CASE Request(c)
    <3>1. pc[c] = "idle"
      BY <2>2, OwnStep DEF Tidy
    <3>2. Quit(c) => lock' = lock
      BY DEF Quit
    <3>3. \A S : Calm /\ Calm' /\ mishaps' = mishaps \cup S => S = {}
      BY DEF Calm
    <3>. QED  BY <2>2, <3>1, <3>2, <3>3, RequestField DEF Tidy
  <2>. QED  BY <2>1, <2>2
<1>5. \A d \in Clients : Sound(d)'
  <2>1. Sound(c)'
    BY <1>4, IdleIsSound
  <2>2. ASSUME NEW d \in Clients \ {c} PROVE Sound(d)'
    BY <1>1, <1>2, StaysSound DEF Tidy, Orderly
  <2>. QED  BY <2>1, <2>2
<1>6. CloseAlone'
  <2>1. ASSUME NEW d \in Clients, InClose(d)'
        PROVE  lock' = None /\ \A e \in Clients : InClose(e)' => e = d
    <3>1. CASE d = c
      <4>1. pc'[c] = "del_src" /\ lock = None /\ \A e \in Clients : ~InClose(e)
        BY <1>4, <2>1, <3>1 DEF InClose, CloseSteps
      <4>2. lock' = lock
        BY <4>1, OwnStep DEF Tidy, OpenSteps
      <4>. QED  BY <1>2, <3>1, <4>1, <4>2 DEF InClose
    <3>2. CASE d # c
      <4>1. InClose(d) /\ lock = None /\ \A e \in Clients : InClose(e) => e = d
        BY <1>2, <2>1, <3>2 DEF InClose, Orderly, CloseAlone
      <4>2. lock' = None /\ ~InClose(c)'
        BY <1>4, <4>1 DEF InClose, CloseSteps
      <4>. QED  BY <1>2, <4>1, <4>2 DEF InClose
    <3>. QED  BY <3>1, <3>2
  <2>. QED  BY <2>1 DEF CloseAlone
<1>7. TwoFiles'
  <2>1. \A d \in Clients : \A p \in {"del_copy", "del_remove", "del_rename"} :
          pc'[d] = p <=> pc[d] = p
    BY <1>2, <1>4
  <2>. QED  BY <1>1, <2>1 DEF Orderly, TwoFiles
<1>8. RecordsTrue'
  <2>1. \A r \in RegView : r.fd # -1 => r.fd \in Fds
    BY ViewIsRecords DEF Tidy, Record, Numbers
  <2>2. \A f : Data(f)' = Data(f) /\ Data(f).kind = "data"
    BY DEF Data
  <2>3. \A r \in RegView : r.fd # -1 /\ fds[r.fd] = Data(r.name) =>
                             fds'[r.fd] = Data(r.name)
    BY <1>1, <2>1, <2>2
  <2>. QED  BY <1>1, <1>3, <2>2, <2>3 DEF Orderly, RecordsTrue
<1>9. NoLeak'
  <2>1. ASSUME NEW k \in Fds, NEW f \in Files, fds'[k] = Data(f), up'
        PROVE  \/ [name |-> f, fd |-> k] \in RegView'
               \/ \E d \in Clients : /\ pc'[d] \in {"wd_open", "wd_write"}
                                     /\ frame'[d].fp = k
               \/ \E d \in Clients : /\ pc'[d] \in {"del_rename", "del_close"}
                                     /\ frame'[d].found /\ frame'[d].id = k
    <3>1. fds[k] = Data(f) /\ up
      BY <1>1, <2>1 DEF Data
    <3>2. CASE [name |-> f, fd |-> k] \in RegView
      BY <1>3, <3>2
    <3>3. ASSUME NEW d \in Clients, pc[d] \in {"wd_open", "wd_write"},
                 frame[d].fp = k
          PROVE  pc'[d] \in {"wd_open", "wd_write"} /\ frame'[d].fp = k
      BY <1>2, <1>4, <3>3
    <3>4. ASSUME NEW d \in Clients, pc[d] \in {"del_rename", "del_close"},
                 frame[d].found, frame[d].id = k
          PROVE  /\ pc'[d] \in {"del_rename", "del_close"}
                 /\ frame'[d].found /\ frame'[d].id = k
      BY <1>2, <1>4, <3>4
    <3>. QED  BY <3>1, <3>2, <3>3, <3>4 DEF Orderly, NoLeak
  <2>. QED  BY <2>1 DEF NoLeak, Data
<1>. QED  BY <1>3, <1>5, <1>6, <1>7, <1>8, <1>9 DEF Orderly

-----------------------------------------------------------------------------
(* The steps of a FOPEN.                                                   *)

(* The thread that takes it works alone, on the table.                     *)
LEMMA OpenerAlone ==
  ASSUME Tidy, Orderly, NEW c \in Clients, FopenStep(c)
  PROVE  /\ lock = c /\ up /\ up' /\ table \in Inodes /\ table # None
         /\ cache = None /\ UNCHANGED <<table, cache>>
         /\ \A d \in Clients : ~InClose(d) /\ ~InClose(d)'
         /\ \A d \in Clients \ {c} :
              /\ pc[d] \notin OpenSteps
              /\ pc'[d] = pc[d] /\ frame'[d] = frame[d] /\ Sound(d)'
         /\ CloseAlone' /\ TwoFiles'
         /\ frame[c] \in Frame /\ frame[c].op = "FOPEN"
         /\ frame[c].file \in Files
         /\ RegView = RecordsOf(table) /\ RegView' = RecordsOf(table)'
<1>0. None \notin Clients /\ None \notin Inodes
  BY ConstantsOK DEF ConstantsOK
<1>1. pc[c] \in OpenSteps /\ pc'[c] \in OpenSteps \cup {"reply", "spin"}
  BY OwnStep DEF Tidy
<1>2. lock = c /\ frame[c].op = "FOPEN" /\ frame[c].file \in Files
  BY <1>1 DEF Tidy, OpensExclude, Blank, Named
<1>3. up /\ up'
  BY ServingIsUp, UpStays DEF Tidy, Serve
<1>4. \A d \in Clients : ~InClose(d)
  BY <1>0, <1>2 DEF Orderly, CloseAlone
<1>5. cache = None /\ table # None /\ table \in Inodes
  BY <1>3, <1>4 DEF Orderly, TwoFiles, InClose, CloseSteps, Tidy, TypeOK
<1>6. UNCHANGED <<table, cache>>
  BY DEF FopenStep, ChkOpen, ChkScan, ChkLost, Create, WdOpen, WdWrite
<1>7. \A d \in Clients \ {c} : pc'[d] = pc[d] /\ frame'[d] = frame[d]
  BY OthersStay DEF Tidy, Serve
<1>8. \A d \in Clients : ~InClose(d)'
  BY <1>1, <1>4, <1>7 DEF InClose, OpenSteps, CloseSteps
<1>9. ASSUME NEW d \in Clients \ {c}
      PROVE  pc[d] \notin OpenSteps /\ Sound(d)'
  <2>1. pc[d] \notin OpenSteps /\ pc[d] \notin CloseSteps /\ pc[d] \in Places
    BY <1>2, <1>4 DEF InClose, Tidy, OpensExclude, TypeOK
  <2>2. /\ pc[d] \in {"off", "idle", "reply", "spin"}
        /\ pc[d] = "reply" /\ frame[d].op = "FOPEN"
             => frame[d].ans.kind \notin {"OK", "ERR"}
    BY <1>2, <2>1 DEF Places, Tidy, AnswerLocks
  <2>3. pc'[d] = pc[d] /\ frame'[d] = frame[d]
    BY <1>7
  <2>. QED  BY <2>1, <2>2, <2>3, IdleIsSound
<1>10. CloseAlone' /\ TwoFiles'
  BY <1>3, <1>5, <1>6, <1>8 DEF CloseAlone, TwoFiles, InClose, CloseSteps
<1>11. frame[c] \in Frame
  BY DEF Tidy, TypeOK
<1>12. RegView = RecordsOf(table) /\ RegView' = RecordsOf(table)'
  BY <1>5, <1>6 DEF RegView, RecordsOf
<1>. QED  BY <1>2, <1>3, <1>4, <1>5, <1>6, <1>7, <1>8, <1>9, <1>10, <1>11, <1>12

(* open() of the table succeeds while no descriptor is wanting.            *)
LEMMA OpenMetaCalm ==
  ASSUME TypeOK, NEW i \in Inodes \cup {None}, i # None, NEW k \in Numbers,
         OpenMeta(i, k), Calm'
  PROVE  /\ k \in Fds /\ fds[k] = Free /\ fds'[k] = Meta(i)
         /\ \A j \in Fds : j # k => fds'[j] = fds[j]
<1>1. ~(k = -1 /\ Exhausted /\ Note({"emfile"}))
  BY DEF Note, Calm
<1>. QED  BY <1>1 DEF OpenMeta, Lowest, TypeOK

(* Records stay true while the files they name stay open.                  *)
LEMMA RecordsStayTrue ==
  ASSUME TypeOK, RecordsTrue, Calm, up, RegView' \subseteq RegView,
         \A r \in RegView' : r.fd \in Fds /\ fds[r.fd].kind = "data"
                               => fds'[r.fd] = fds[r.fd]
  PROVE  RecordsTrue'
<1>1. \A r \in RegView : r.fd # -1 => r.fd \in Fds
  BY ViewIsRecords DEF Record, Numbers
<1>2. \A f : Data(f)' = Data(f) /\ Data(f).kind = "data"
  BY DEF Data
<1>3. ASSUME NEW r \in RegView'
      PROVE  /\ \/ r.fd # -1 /\ fds'[r.fd] = Data(r.name)
                \/ r.fd = -1 /\ r.name \in Unopenable
             /\ \A q \in RegView' : q.name = r.name => q = r
  BY <1>1, <1>2 DEF RecordsTrue
<1>. QED  BY <1>2, <1>3 DEF RecordsTrue

(* No descriptor on a file is lost as long as the one that create_file     *)
(* returned is kept or recorded.                                           *)
LEMMA OpenerLeaksNot ==
  ASSUME Tidy, Orderly, Calm, NEW c \in Clients, FopenStep(c),
         RegView \subseteq RegView',
         \A j \in Fds, f \in Files : fds'[j] = Data(f) =>
           \/ fds[j] = Data(f)
           \/ pc'[c] \in {"wd_open", "wd_write"} /\ frame'[c].fp = j,
         pc[c] \in {"wd_open", "wd_write"} =>
           \/ /\ pc'[c] \in {"wd_open", "wd_write"}
              /\ frame'[c].fp = frame[c].fp
           \/ \A j \in Fds, f \in Files :
                fds'[j] = Data(f) /\ frame[c].fp = j =>
                  [name |-> f, fd |-> j] \in RegView'
  PROVE  NoLeak'
<1>1. ASSUME NEW j \in Fds, NEW f \in Files, fds'[j] = Data(f)
      PROVE  \/ [name |-> f, fd |-> j] \in RegView'
             \/ pc'[c] \in {"wd_open", "wd_write"} /\ frame'[c].fp = j
  <2>1. CASE fds[j] # Data(f)
    BY <1>1, <2>1
  <2>2. CASE [name |-> f, fd |-> j] \in RegView
    BY <2>2
  <2>3. ASSUME NEW d \in Clients, pc[d] \in {"wd_open", "wd_write"},
               frame[d].fp = j
        PROVE  \/ [name |-> f, fd |-> j] \in RegView'
               \/ pc'[c] \in {"wd_open", "wd_write"} /\ frame'[c].fp = j
    <3>1. d = c
      BY <2>3, OpenerAlone DEF OpenSteps
    <3>. QED  BY <1>1, <2>3, <3>1
  <2>. QED  BY <2>1, <2>2, <2>3, OpenerAlone
            DEF Orderly, NoLeak, InClose, CloseSteps
<1>2. \A f : Data(f)' = Data(f)
  BY DEF Data
<1>. QED  BY <1>1, <1>2 DEF NoLeak

LEMMA OpenTableCalm ==
  ASSUME Tidy, Orderly, Calm, Calm', NEW c \in Clients,
         FopenStep(c), ChkOpen(c) \/ WdOpen(c)
  PROVE  Orderly' /\ RegView' = RegView
<1>0. TypeOK /\ RecordsTrue /\ NoLeak /\ Sound(c)
  BY DEF Tidy, Orderly
<1>1. PICK k \in Numbers : /\ OpenMeta(table, k)
                           /\ frame' = [frame EXCEPT ![c].src = k]
  BY DEF ChkOpen, WdOpen
<1>2. /\ k \in Fds /\ fds[k] = Free /\ fds'[k] = Meta(table)
      /\ \A j \in Fds : j # k => fds'[j] = fds[j]
  BY <1>0, <1>1, OpenerAlone, OpenMetaCalm
<1>3. /\ frame'[c].src = k /\ frame'[c].file = frame[c].file
      /\ frame'[c].fp = frame[c].fp
  <2>1. frame[c] \in Frame /\ frame'[c] = [frame[c] EXCEPT !.src = k]
    BY <1>0, <1>1 DEF TypeOK
  <2>. QED  BY <2>1, SrcField
<1>4. /\ UNCHANGED <<table, disk>>
      /\ \/ pc[c] = "chk_open" /\ pc'[c] = "chk_scan"
         \/ pc[c] = "wd_open" /\ pc'[c] = "wd_write"
  BY <1>0 DEF ChkOpen, WdOpen, Goto, TypeOK
<1>5. RegView' = RegView
  BY <1>4, OpenerAlone DEF RecordsOf
<1>6. /\ \A f : Data(f)' = Data(f) /\ Data(f).kind = "data"
      /\ \A i : Meta(i)' = Meta(i) /\ Meta(i).kind = "meta"
      /\ Free.kind = "free"
  BY DEF Data, Meta, Free
<1>7. RecordsTrue'
  BY <1>0, <1>2, <1>5, <1>6, OpenerAlone, RecordsStayTrue
<1>8. Sound(c)'
  <2>1. ThroughTable(c)'
    BY <1>2, <1>3, <1>4, <1>6 DEF ThroughTable
  <2>2. Creating(c)'
    BY <1>0, <1>2, <1>3, <1>4, <1>6 DEF Sound, Creating, RecordsOf
  <2>3. Copying(c)' /\ Closing(c)' /\ Truthful(c)'
    BY <1>4 DEF Copying, Closing, Truthful
  <2>. QED  BY <2>1, <2>2, <2>3 DEF Sound
<1>9. NoLeak'
  BY <1>2, <1>3, <1>4, <1>5, <1>6, OpenerLeaksNot
<1>. QED  BY <1>5, <1>7, <1>8, <1>9, OpenerAlone DEF Orderly

LEMMA ChkScanCalm ==
  ASSUME Tidy, Orderly, Calm, NEW c \in Clients, FopenStep(c), ChkScan(c)
  PROVE  Orderly' /\ RegView' = RegView
<1>. DEFINE k == frame[c].src
            recs == disk[fds[k].of]
<1>0. TypeOK /\ RecordsTrue /\ Sound(c) /\ pc[c] = "chk_scan"
  BY DEF Tidy, Orderly, ChkScan
<1>1. k \in Fds /\ fds[k] = Meta(table)
  BY <1>0 DEF Sound, ThroughTable
<1>2. /\ \A f : Data(f)' = Data(f) /\ Data(f).kind = "data"
      /\ Meta(table).kind = "meta" /\ Meta(table).of = table
      /\ Free.kind = "free"
  BY DEF Data, Meta, Free
<1>3. /\ \A j \in Fds : fds[j].kind = "data" => fds'[j] = fds[j]
      /\ \A j \in Fds : fds'[j].kind = "data" => fds'[j] = fds[j]
  BY <1>1, <1>2 DEF ChkScan, Closed
<1>4. disk'[table] = disk[table]
  <2>1. disk' = Reclaimed(disk, table, cache, fds')
    BY DEF ChkScan
  <2>. QED  BY <1>0, <2>1, OpenerAlone, TableKept DEF TypeOK
<1>5. RegView' = RegView
  BY <1>4, OpenerAlone, KeptView
<1>6. RecordsTrue'
  BY <1>0, <1>3, <1>5, OpenerAlone, RecordsStayTrue
<1>7. NoLeak'
  BY <1>0, <1>2, <1>3, <1>5, OpenerLeaksNot
<1>8. Sound(c)'
  <2>0. ASSUME NEW r \in RegView
        PROVE  \/ r.fd \in Fds /\ fds'[r.fd] = Data(r.name)
               \/ r.fd = -1 /\ r.name \in Unopenable
    <3>1. r.fd # -1 => r.fd \in Fds
      BY <1>0, ViewIsRecords DEF Record, Numbers
    <3>2. \/ r.fd # -1 /\ fds[r.fd] = Data(r.name)
          \/ r.fd = -1 /\ r.name \in Unopenable
      BY <1>0, OpenerAlone DEF RecordsTrue
    <3>. QED  BY <1>2, <1>3, <3>1, <3>2
  <2>1. ASSUME NEW n \in DOMAIN recs, recs[n].name = frame[c].file,
               Finish(c, Said("ERR", recs[n].fd))
        PROVE  Sound(c)'
    <3>1. recs[n] \in RegView
      BY <1>1, <1>2, OpenerAlone DEF RecordsOf
    <3>3. \/ recs[n].fd \in Fds /\ fds'[recs[n].fd] = Data(frame[c].file)
          \/ recs[n].fd = -1 /\ frame[c].file \in Unopenable
      BY <2>0, <2>1, <3>1
    <3>4. /\ pc'[c] = "reply" /\ frame'[c].file = frame[c].file
          /\ frame'[c].ans = Said("ERR", recs[n].fd)
      BY <1>0, <2>1, FinishField
    <3>5. frame'[c].ans.kind = "ERR" /\ frame'[c].ans.n = recs[n].fd
      BY <3>4 DEF Said
    <3>6. Truthful(c)'
      BY <1>2, <3>3, <3>4, <3>5 DEF Truthful
    <3>. QED  BY <3>4, <3>6 DEF Sound, ThroughTable, Creating, Copying, Closing
  <2>2. CASE /\ \A n \in DOMAIN recs : recs[n].name # frame[c].file
             /\ Goto(c, "create")
             /\ frame' = [frame EXCEPT ![c].src = -1]
    <3>1. pc'[c] = "create" /\ frame'[c] = [frame[c] EXCEPT !.src = -1]
      BY <1>0, <2>2 DEF Goto, TypeOK
    <3>2. frame'[c].file = frame[c].file
      <4>1. -1 \in Numbers
        BY DEF Numbers
      <4>. QED  BY <3>1, <4>1, OpenerAlone, SrcField
    <3>3. \A r \in RecordsOf(table)' : r.name # frame'[c].file
      BY <1>1, <1>2, <1>5, <2>2, <3>2, OpenerAlone DEF RecordsOf
    <3>4. Creating(c)'
      BY <3>1, <3>3 DEF Creating
    <3>. QED  BY <3>1, <3>4 DEF Sound, ThroughTable, Copying, Closing, Truthful
  <2>. QED  BY <2>1, <2>2 DEF ChkScan
<1>. QED  BY <1>5, <1>6, <1>7, <1>8, OpenerAlone DEF Orderly

(* The scan never meets a descriptor that is not the table's.              *)
LEMMA ChkLostCalm ==
  ASSUME Orderly, NEW c \in Clients PROVE ~ChkLost(c)
<1>1. pc[c] = "chk_scan" => frame[c].src \in Fds /\ fds[frame[c].src] = Meta(table)
  BY DEF Orderly, Sound, ThroughTable
<1>2. frame[c].src \in Fds => frame[c].src # -1
  BY ConstantsOK DEF ConstantsOK
<1>. QED  BY <1>1, <1>2 DEF ChkLost, Meta

LEMMA CreateCalm ==
  ASSUME Tidy, Orderly, Calm, Calm', NEW c \in Clients, FopenStep(c), Create(c)
  PROVE  Orderly' /\ RegView' = RegView
<1>0. TypeOK /\ RecordsTrue /\ Sound(c) /\ pc[c] = "create" /\ frame[c].fp = -1
  BY DEF Tidy, Blank, Orderly, Create
<1>1. UNCHANGED <<table, disk>> /\ pc'[c] = "wd_open"
  BY <1>0 DEF Create, Goto, TypeOK
<1>2. RegView' = RegView
  BY <1>1, OpenerAlone DEF RecordsOf
<1>3. /\ \A f : Data(f)' = Data(f) /\ Data(f).kind = "data"
      /\ Free.kind = "free"
  BY DEF Data, Free
<1>4. \/ \E k \in Fds : /\ fds[k] = Free
                        /\ fds' = [fds EXCEPT ![k] = Data(frame[c].file)]
                        /\ frame'[c] = [frame[c] EXCEPT !.fp = k]
      \/ frame[c].file \in Unopenable /\ UNCHANGED <<fds, frame>>
  <2>1. ~Note({"emfile"})
    BY DEF Note, Calm
  <2>2. ASSUME NEW k \in Fds, Lowest(k), frame' = [frame EXCEPT ![c].fp = k]
        PROVE  fds[k] = Free /\ frame'[c] = [frame[c] EXCEPT !.fp = k]
    BY <1>0, <2>2 DEF Lowest, TypeOK
  <2>3. CASE \E k \in Fds : /\ Lowest(k)
                            /\ fds' = [fds EXCEPT ![k] = Data(frame[c].file)]
                            /\ frame' = [frame EXCEPT ![c].fp = k]
    BY <2>2, <2>3
  <2>4. CASE /\ frame[c].file \in Unopenable \/ Exhausted
             /\ Note(IF Exhausted THEN {"emfile"} ELSE {})
             /\ UNCHANGED <<fds, frame>>
    BY <2>1, <2>4
  <2>. QED  BY <2>3, <2>4 DEF Create
<1>5. /\ frame'[c].file = frame[c].file
      /\ \/ frame'[c].fp \in Fds /\ fds'[frame'[c].fp] = Data(frame'[c].file)
         \/ frame'[c].fp = -1 /\ frame'[c].file \in Unopenable
      /\ \A j \in Fds : fds[j].kind = "data" => fds'[j] = fds[j]
      /\ \A j \in Fds : fds'[j].kind = "data" =>
           fds'[j] = fds[j] \/ frame'[c].fp = j
  <2>1. ASSUME NEW k \in Fds, fds[k] = Free,
               fds' = [fds EXCEPT ![k] = Data(frame[c].file)],
               frame'[c] = [frame[c] EXCEPT !.fp = k]
        PROVE  /\ frame'[c].file = frame[c].file /\ frame'[c].fp = k
               /\ fds'[k] = Data(frame[c].file)
               /\ \A j \in Fds : j # k => fds'[j] = fds[j]
    <3>1. k \in Numbers
      BY DEF Numbers
    <3>2. frame'[c].file = frame[c].file /\ frame'[c].fp = k
      BY <2>1, <3>1, OpenerAlone, FpField
    <3>. QED  BY <1>0, <2>1, <3>2 DEF TypeOK
  <2>2. CASE frame[c].file \in Unopenable /\ UNCHANGED <<fds, frame>>
    BY <1>0, <2>2
  <2>. QED  BY <1>3, <1>4, <2>1, <2>2
<1>6. RecordsTrue'
  BY <1>0, <1>2, <1>5, OpenerAlone, RecordsStayTrue
<1>7. NoLeak'
  <2>1. \A j \in Fds, f \in Files : fds'[j] = Data(f) =>
          fds[j] = Data(f) \/ frame'[c].fp = j
    BY <1>3, <1>5
  <2>. QED  BY <1>0, <1>1, <1>2, <2>1, OpenerLeaksNot
<1>8. Sound(c)'
  <2>1. \A r \in RecordsOf(table)' : r.name # frame'[c].file
    BY <1>0, <1>2, <1>5, OpenerAlone DEF Sound, Creating
  <2>2. Creating(c)'
    BY <1>1, <1>3, <1>5, <2>1 DEF Creating
  <2>. QED  BY <1>1, <2>2 DEF Sound, ThroughTable, Copying, Closing, Truthful
<1>. QED  BY <1>2, <1>6, <1>7, <1>8, OpenerAlone DEF Orderly

(* write_descriptor registers the name with what create_file returned.     *)
LEMMA WdWriteCalm ==
  ASSUME Tidy, Orderly, Calm, NEW c \in Clients, FopenStep(c), WdWrite(c)
  PROVE  Orderly' /\ Registry!Register(frame[c].file, frame[c].fp)
<1>. DEFINE k == frame[c].src
            rec == [name |-> frame[c].file, fd |-> frame[c].fp]
<1>0. /\ TypeOK /\ Named /\ RecordsTrue /\ NoLeak /\ Sound(c)
      /\ pc[c] = "wd_write"
  BY DEF Tidy, Orderly, WdWrite
<1>1. k \in Fds /\ k # -1 /\ fds[k] = Meta(table)
  BY <1>0, ConstantsOK DEF Sound, ThroughTable, ConstantsOK
<1>2. /\ \A f : Data(f)' = Data(f) /\ Data(f).kind = "data"
      /\ Meta(table).kind = "meta" /\ Free.kind = "free"
  BY DEF Data, Meta, Free
<1>3. /\ fds' = Closed({k})
      /\ Finish(c, IF frame[c].fp # -1 THEN Said("OK", frame[c].fp)
                   ELSE Said("FAIL", 0))
  BY <1>1 DEF WdWrite
<1>4. /\ \A j \in Fds : fds[j].kind = "data" => fds'[j] = fds[j]
      /\ \A j \in Fds : fds'[j].kind = "data" => fds'[j] = fds[j]
  BY <1>1, <1>2, <1>3 DEF Closed
<1>5. RegView' = RegView \cup {rec}
  BY <1>0, <1>1, OpenerAlone, WdWriteRecords
<1>6. \A r \in RegView : r.name # rec.name
  BY <1>0, OpenerAlone DEF Sound, Creating
<1>7. \/ rec.fd \in Fds /\ rec.fd # -1 /\ fds[rec.fd] = Data(rec.name)
      \/ rec.fd = -1 /\ rec.name \in Unopenable
  BY <1>0, ConstantsOK DEF Sound, Creating, ConstantsOK
<1>8. RecordsTrue'
  <2>1. \A r \in RegView : r.fd # -1 => r.fd \in Fds
    BY <1>0, ViewIsRecords DEF Record, Numbers
  <2>2. ASSUME NEW r \in RegView'
        PROVE  \/ r.fd # -1 /\ fds'[r.fd] = Data(r.name)
               \/ r.fd = -1 /\ r.name \in Unopenable
    <3>1. CASE r \in RegView
      <4>1. \/ r.fd # -1 /\ fds[r.fd] = Data(r.name)
            \/ r.fd = -1 /\ r.name \in Unopenable
        BY <1>0, <3>1, OpenerAlone DEF RecordsTrue
      <4>. QED  BY <1>2, <1>4, <2>1, <3>1, <4>1
    <3>2. CASE r = rec
      BY <1>2, <1>4, <1>7, <3>2
    <3>. QED  BY <1>5, <2>2, <3>1, <3>2
  <2>3. ASSUME NEW r \in RegView', NEW q \in RegView', q.name = r.name
        PROVE  q = r
    <3>1. CASE r \in RegView /\ q \in RegView
      BY <1>0, <2>3, <3>1, OpenerAlone DEF RecordsTrue
    <3>. HIDE DEF rec
    <3>. QED  BY <1>5, <1>6, <2>3, <3>1
  <2>. QED  BY <1>2, <2>2, <2>3 DEF RecordsTrue
<1>9. NoLeak'
  <2>1. \A j \in Fds, f \in Files : fds'[j] = Data(f) => fds[j] = Data(f)
    BY <1>2, <1>4
  <2>2. ASSUME NEW j \in Fds, NEW f \in Files, fds'[j] = Data(f), rec.fd = j
        PROVE  [name |-> f, fd |-> j] \in RegView'
    <3>1. Data(rec.name) = Data(f)
      BY <1>7, <2>1, <2>2, ConstantsOK DEF ConstantsOK
    <3>2. rec.name = f
      BY <3>1 DEF Data
    <3>. QED  BY <1>5, <2>2, <3>2
  <2>3. \A j \in Fds, f \in Files : fds'[j] = Data(f) /\ frame[c].fp = j =>
          [name |-> f, fd |-> j] \in RegView'
    BY <2>2
  <2>4. RegView \subseteq RegView'
    BY <1>5
  <2>. QED  BY <2>1, <2>3, <2>4, OpenerLeaksNot
<1>10. Sound(c)'
  <2>1. /\ pc'[c] = "reply" /\ frame'[c].file = frame[c].file
        /\ frame'[c].ans = IF frame[c].fp # -1 THEN Said("OK", frame[c].fp)
                           ELSE Said("FAIL", 0)
    BY <1>0, <1>3, FinishField
  <2>2. CASE frame[c].fp # -1
    <3>1. frame'[c].ans.kind = "OK" /\ frame'[c].ans.n = frame[c].fp
      BY <2>1, <2>2 DEF Said
    <3>2. frame[c].fp \in Fds /\ fds'[frame[c].fp] = Data(frame[c].file)
      BY <1>2, <1>4, <1>7, <2>2
    <3>3. Truthful(c)'
      BY <1>2, <1>5, <2>1, <3>1, <3>2 DEF Truthful
    <3>. QED  BY <2>1, <3>3 DEF Sound, ThroughTable, Creating, Copying, Closing
  <2>3. CASE frame[c].fp = -1
    <3>1. frame'[c].ans.kind = "FAIL"
      BY <2>1, <2>3 DEF Said
    <3>. QED  BY <2>1, <3>1, IdleIsSound
  <2>. QED  BY <2>2, <2>3
<1>11. Registry!Register(frame[c].file, frame[c].fp)
  BY <1>5, <1>6 DEF Registry!Register
<1>. QED  BY <1>8, <1>9, <1>10, <1>11, OpenerAlone DEF Orderly

LEMMA OpenerCalm ==
  ASSUME Tidy, Orderly, Calm, Calm', NEW c \in Clients, FopenStep(c)
  PROVE  Orderly' /\ [Registry!Next]_RegView
<1>1. CASE WdWrite(c)
  <2>1. frame[c].file \in Files /\ frame[c].fp \in Fds \cup {-1}
    BY OpenerAlone DEF Frame, Numbers
  <2>. QED  BY <1>1, <2>1, WdWriteCalm DEF Registry!Next
<1>. QED  BY <1>1, OpenTableCalm, ChkScanCalm, ChkLostCalm, CreateCalm
          DEF FopenStep

-----------------------------------------------------------------------------
(* The steps of a FCLOSE.                                                  *)

(* What is kept of one more record, of none, and of all.                   *)
LEMMA KeptMore ==
  ASSUME NEW recs, NEW n \in Nat, NEW id
  PROVE  Kept(recs, n + 1, id) =
           Kept(recs, n, id) \cup
             (IF recs[n + 1].fd # id THEN {recs[n + 1]} ELSE {})
<1>1. 1..(n + 1) = (1..n) \cup {n + 1}
  OBVIOUS
<1>. QED  BY <1>1 DEF Kept

LEMMA KeptNone ==
  ASSUME NEW recs, NEW id PROVE Kept(recs, 0, id) = {}
<1>1. 1..0 = {}
  OBVIOUS
<1>. QED  BY <1>1 DEF Kept

LEMMA KeptAll ==
  ASSUME TypeOK, NEW i \in Inodes, NEW id
  PROVE  Kept(disk[i], Len(disk[i]), id) = {r \in RecordsOf(i) : r.fd # id}
<1>1. DOMAIN disk[i] = 1..Len(disk[i])
  BY RecordsAreRecords
<1>. QED  BY <1>1 DEF Kept, RecordsOf

(* The thread that takes it is the only one inside a request.              *)
LEMMA CloserAlone ==
  ASSUME Tidy, Orderly, NEW c \in Clients, FcloseStep(c)
  PROVE  /\ up /\ up'
         /\ pc[c] \in CloseSteps /\ pc'[c] \in CloseSteps \cup {"reply", "spin"}
         /\ \A d \in Clients : pc[d] \notin OpenSteps
         /\ \A d \in Clients \ {c} :
              /\ pc[d] \notin CloseSteps
              /\ pc'[d] = pc[d] /\ frame'[d] = frame[d] /\ Sound(d)'
         /\ CloseAlone'
         /\ frame[c] \in Frame
         /\ pc'[c] # "spin" => frame'[c].id = frame[c].id
         /\ pc'[c] \in {"reply", "spin"} => Sound(c)'
         /\ cache # None <=> pc[c] \in {"del_copy", "del_remove", "del_rename"}
         /\ table = None <=> pc[c] = "del_rename"
         /\ cache # None => cache # table
         /\ table # None => RegView = RecordsOf(table)
<1>0. None \notin Clients
  BY ConstantsOK DEF ConstantsOK
<1>1. /\ pc[c] \in CloseSteps /\ pc'[c] \in CloseSteps \cup {"reply", "spin"}
      /\ lock' = lock
  BY OwnStep DEF Tidy
<1>2. lock = None /\ \A d \in Clients : InClose(d) => d = c
  BY <1>1 DEF Orderly, CloseAlone, InClose
<1>3. up /\ up'
  BY ServingIsUp, UpStays DEF Tidy, Serve
<1>4. \A d \in Clients : pc[d] \notin OpenSteps
  BY <1>0, <1>2 DEF Tidy, OpensExclude
<1>5. \A d \in Clients \ {c} :
        pc[d] \notin CloseSteps /\ pc'[d] = pc[d] /\ frame'[d] = frame[d]
  BY <1>2, OthersStay DEF InClose, Tidy, Serve
<1>6. ASSUME NEW d \in Clients \ {c} PROVE Sound(d)'
  <2>1. /\ pc[d] \in {"off", "idle", "reply", "spin"}
        /\ pc[d] = "reply" /\ frame[d].op = "FOPEN"
             => frame[d].ans.kind \notin {"OK", "ERR"}
    BY <1>0, <1>2, <1>4, <1>5 DEF Places, Tidy, TypeOK, AnswerLocks
  <2>. QED  BY <1>5, <2>1, IdleIsSound
<1>7. CloseAlone'
  BY <1>1, <1>2, <1>5 DEF CloseAlone, InClose
<1>8. pc'[c] \in {"reply", "spin"} => Sound(c)'
  BY <1>1, CloserFrame, IdleIsSound DEF Tidy, Blank
<1>9. pc'[c] # "spin" => frame'[c].id = frame[c].id
  BY CloserFrame DEF Tidy
<1>10. /\ cache # None <=> pc[c] \in {"del_copy", "del_remove", "del_rename"}
       /\ table = None <=> pc[c] = "del_rename"
       /\ cache # None => cache # table
  BY <1>3, <1>5 DEF Orderly, TwoFiles, CloseSteps
<1>11. frame[c] \in Frame /\ (table # None => RegView = RecordsOf(table))
  BY DEF Tidy, TypeOK, RegView
<1>. QED  BY <1>1, <1>3, <1>4, <1>5, <1>6, <1>7, <1>8, <1>9, <1>10, <1>11

LEMMA CloserFiles ==
  ASSUME Tidy, Orderly, NEW c \in Clients, FcloseStep(c),
         cache' # None <=> pc'[c] \in {"del_copy", "del_remove", "del_rename"},
         table' = None <=> pc'[c] = "del_rename",
         cache' # None => cache' # table'
  PROVE  TwoFiles'
BY CloserAlone DEF TwoFiles, CloseSteps

(* No descriptor on a file is lost as long as the identifier that leaves   *)
(* the registry is closed.                                                 *)
LEMMA CloserLeaksNot ==
  ASSUME Tidy, Orderly, Calm, NEW c \in Clients, FcloseStep(c),
         \A j \in Fds, f \in Files : fds'[j] = Data(f) =>
           /\ fds[j] = Data(f)
           /\ [name |-> f, fd |-> j] \in RegView =>
                \/ [name |-> f, fd |-> j] \in RegView'
                \/ /\ pc'[c] \in {"del_rename", "del_close"}
                   /\ frame'[c].found /\ frame'[c].id = j
           /\ pc[c] \in {"del_rename", "del_close"} /\ frame[c].found
                /\ frame[c].id = j =>
                     /\ pc'[c] \in {"del_rename", "del_close"}
                     /\ frame'[c].found
  PROVE  NoLeak'
<1>1. ASSUME NEW j \in Fds, NEW f \in Files, fds'[j] = Data(f)
      PROVE  \/ [name |-> f, fd |-> j] \in RegView'
             \/ /\ pc'[c] \in {"del_rename", "del_close"}
                /\ frame'[c].found /\ frame'[c].id = j
  <2>1. \/ [name |-> f, fd |-> j] \in RegView
        \/ /\ pc[c] \in {"del_rename", "del_close"}
           /\ frame[c].found /\ frame[c].id = j
    BY <1>1, CloserAlone DEF Orderly, NoLeak, OpenSteps, CloseSteps
  <2>. QED  BY <1>1, <2>1, CloserAlone
<1>2. \A f : Data(f)' = Data(f)
  BY DEF Data
<1>. QED  BY <1>1, <1>2 DEF NoLeak

LEMMA DelSrcCalm ==
  ASSUME Tidy, Orderly, Calm, Calm', NEW c \in Clients,
         FcloseStep(c), DelSrc(c)
  PROVE  Orderly' /\ RegView' = RegView
<1>0. TypeOK /\ RecordsTrue
  BY DEF Tidy, Orderly
<1>1. /\ pc[c] = "del_src" /\ pc'[c] = "del_dst"
      /\ UNCHANGED <<table, cache, disk>>
  BY <1>0 DEF DelSrc, Goto, TypeOK
<1>2. PICK k \in Numbers : /\ OpenMeta(table, k)
                           /\ frame' = [frame EXCEPT ![c].src = k]
  BY DEF DelSrc
<1>3. table # None /\ table \in Inodes \cup {None}
  BY <1>0, <1>1, CloserAlone DEF TypeOK
<1>4. /\ k \in Fds /\ fds[k] = Free /\ fds'[k] = Meta(table)
      /\ \A j \in Fds : j # k => fds'[j] = fds[j]
  BY <1>0, <1>2, <1>3, OpenMetaCalm
<1>5. frame'[c].src = k
  BY <1>0, <1>2 DEF TypeOK, Frame
<1>6. RegView' = RegView
  BY <1>1, KeptView
<1>7. /\ \A f : Data(f)' = Data(f) /\ Data(f).kind = "data"
      /\ \A i : Meta(i)' = Meta(i) /\ Meta(i).kind = "meta"
      /\ Free.kind = "free"
  BY DEF Data, Meta, Free
<1>8. RecordsTrue'
  BY <1>0, <1>4, <1>6, <1>7, CloserAlone, RecordsStayTrue
<1>9. NoLeak'
  BY <1>1, <1>4, <1>6, <1>7, CloserLeaksNot
<1>10. TwoFiles'
  BY <1>1, CloserAlone, CloserFiles
<1>11. Sound(c)'
  BY <1>1, <1>4, <1>5, <1>7
     DEF Sound, ThroughTable, Creating, Copying, Closing, Truthful
<1>. QED  BY <1>6, <1>8, <1>9, <1>10, <1>11, CloserAlone DEF Orderly

LEMMA DelDstCalm ==
  ASSUME Tidy, Orderly, Calm, Calm', NEW c \in Clients,
         FcloseStep(c), DelDst(c)
  PROVE  Orderly' /\ RegView' = RegView
<1>0. TypeOK /\ RecordsTrue /\ Referenced /\ Sound(c)
  BY DEF Tidy, Orderly
<1>1. /\ pc[c] = "del_dst" /\ pc'[c] = "del_copy"
      /\ UNCHANGED <<table, disk>>
  BY <1>0 DEF DelDst, Goto, TypeOK
<1>2. cache = None /\ table # None /\ table \in Inodes
  BY <1>0, <1>1, CloserAlone DEF TypeOK
<1>3. PICK k \in Numbers : /\ OpenMeta(cache', k)
                           /\ frame' = [frame EXCEPT ![c].dst = k]
  BY DEF DelDst
<1>4. PICK i \in Inodes : Fresh(i) /\ cache' = i
  <2>1. ~(OpenMeta(None, k) /\ Exhausted)
    <3>1. ~Note({"emfile"})
      BY DEF Note, Calm
    <3>. QED  BY <3>1 DEF OpenMeta
  <2>. QED  BY <1>2, <1>3, <2>1 DEF DelDst
<1>5. i # None /\ i # table /\ \A j \in Fds : fds[j] # Meta(i)
  BY <1>4, ConstantsOK DEF Fresh, ConstantsOK
<1>6. /\ k \in Fds /\ fds[k] = Free /\ fds'[k] = Meta(i)
      /\ \A j \in Fds : j # k => fds'[j] = fds[j]
  BY <1>0, <1>3, <1>4, <1>5, OpenMetaCalm
<1>7. /\ frame'[c].src = frame[c].src /\ frame'[c].dst = k
      /\ frame'[c].rd = frame[c].rd /\ frame'[c].wr = frame[c].wr
      /\ frame'[c].found = frame[c].found /\ frame'[c].id = frame[c].id
  <2>1. frame'[c] = [frame[c] EXCEPT !.dst = k]
    BY <1>0, <1>3 DEF TypeOK
  <2>. QED  BY <2>1, CloserAlone, DstField
<1>8. frame[c].rd = 0 /\ frame[c].wr = 0 /\ ~frame[c].found
  BY <1>1 DEF Tidy, Blank
<1>9. /\ \A f : Data(f)' = Data(f) /\ Data(f).kind = "data"
      /\ \A n : Meta(n)' = Meta(n) /\ Meta(n).kind = "meta"
      /\ Free.kind = "free"
  BY DEF Data, Meta, Free
<1>10. RegView' = RegView
  BY <1>1, <1>2 DEF RegView, RecordsOf
<1>11. RecordsTrue'
  BY <1>0, <1>6, <1>9, <1>10, CloserAlone, RecordsStayTrue
<1>12. NoLeak'
  BY <1>1, <1>6, <1>9, <1>10, CloserLeaksNot
<1>13. TwoFiles'
  BY <1>1, <1>2, <1>4, <1>5, CloserFiles
<1>14. ThroughTable(c)'
  <2>1. frame[c].src \in Fds /\ fds[frame[c].src] = Meta(table)
    BY <1>0, <1>1 DEF Sound, ThroughTable
  <2>2. frame[c].src # k
    BY <1>6, <1>9, <2>1
  <2>. QED  BY <1>1, <1>4, <1>6, <1>7, <1>9, <2>1, <2>2 DEF ThroughTable
<1>15. Copying(c)'
  <2>1. disk[i] = <<>>
    BY <1>0, <1>2, <1>5 DEF Referenced
  <2>2. RecordsOf(cache)' = {} /\ Len(disk'[cache']) = 0
    BY <1>1, <1>4, <2>1 DEF RecordsOf
  <2>3. Kept(disk'[table'], 0, frame'[c].id) = {}
    BY KeptNone
  <2>4. 0 <= Len(disk'[table'])
    BY <1>0, <1>1, <1>2, RecordsAreRecords
  <2>5. ~\E n \in 1..0 : disk'[table'][n].fd = frame'[c].id
    OBVIOUS
  <2>. QED  BY <1>1, <1>7, <1>8, <2>2, <2>3, <2>4, <2>5 DEF Copying, Kept
<1>16. Sound(c)'
  BY <1>1, <1>14, <1>15 DEF Sound, Creating, Closing, Truthful
<1>. QED  BY <1>10, <1>11, <1>12, <1>13, <1>16, CloserAlone DEF Orderly

(* The copying loop never meets a descriptor that is not the table's.      *)
LEMMA CopyFacts ==
  ASSUME Tidy, Orderly, NEW c \in Clients, FcloseStep(c), pc[c] = "del_copy"
  PROVE  LET fr == frame[c] IN
         /\ fr.src \in Fds /\ fr.src # -1 /\ fds[fr.src] = Meta(table)
         /\ fds[fr.src].kind = "meta" /\ fds[fr.src].of = table
         /\ fr.dst \in Fds /\ fr.dst # -1 /\ fds[fr.dst] = Meta(cache)
         /\ fds[fr.dst].kind = "meta" /\ fds[fr.dst].of = cache
         /\ table \in Inodes /\ table # None
         /\ cache \in Inodes /\ cache # None /\ cache # table
         /\ fr.rd \in Nat /\ fr.wr \in Nat
         /\ fr.rd <= Len(disk[table]) /\ fr.wr = Len(disk[cache])
         /\ RecordsOf(cache) = Kept(disk[table], fr.rd, fr.id)
         /\ fr.found <=> \E n \in 1..fr.rd : disk[table][n].fd = fr.id
<1>1. Sound(c) /\ frame[c] \in Frame /\ TypeOK
  BY DEF Orderly, Tidy, TypeOK
<1>2. table # None /\ cache # None /\ cache # table
  BY CloserAlone
<1>3. table \in Inodes /\ cache \in Inodes
  BY <1>1, <1>2 DEF TypeOK
<1>4. /\ frame[c].src \in Fds /\ fds[frame[c].src] = Meta(table)
      /\ frame[c].dst \in Fds /\ fds[frame[c].dst] = Meta(cache)
  BY <1>1 DEF Sound, ThroughTable
<1>5. frame[c].src # -1 /\ frame[c].dst # -1
  BY <1>4, ConstantsOK DEF ConstantsOK
<1>6. \A i : Meta(i).kind = "meta" /\ Meta(i).of = i
  BY DEF Meta
<1>7. frame[c].rd \in Nat /\ frame[c].wr \in Nat
  BY <1>1 DEF Frame
<1>. QED  BY <1>1, <1>2, <1>3, <1>4, <1>5, <1>6, <1>7 DEF Sound, Copying

LEMMA DelLostCalm ==
  ASSUME Tidy, Orderly, NEW c \in Clients, FcloseStep(c) PROVE ~DelLost(c)
BY CopyFacts DEF DelLost

(* One turn of the loop: the next record is left out if it carries the     *)
(* identifier, and is written at the end of the cache if it does not.      *)
LEMMA DelCopyCalm ==
  ASSUME Tidy, Orderly, Calm, NEW c \in Clients, FcloseStep(c), DelCopy(c)
  PROVE  Orderly' /\ RegView' = RegView
<1>. DEFINE fr == frame[c]
            recs == disk[table]
            r == recs[fr.rd + 1]
<1>0. /\ TypeOK /\ RecordsTrue /\ Sound(c) /\ pc[c] = "del_copy"
      /\ fr \in Frame
  BY DEF Tidy, Orderly, DelCopy, TypeOK
<1>1. /\ fr.src # -1 /\ fds[fr.src].of = table /\ fds[fr.src].kind = "meta"
      /\ fr.dst # -1 /\ fds[fr.dst].of = cache /\ fds[fr.dst].kind = "meta"
      /\ table \in Inodes /\ table # None
      /\ cache \in Inodes /\ cache # None /\ cache # table
      /\ fr.rd \in Nat /\ fr.wr \in Nat
  BY <1>0, CopyFacts
<1>2. /\ fr.rd <= Len(recs) /\ fr.wr = Len(disk[cache])
      /\ RecordsOf(cache) = Kept(recs, fr.rd, fr.id)
      /\ fr.found <=> \E n \in 1..fr.rd : recs[n].fd = fr.id
  BY <1>0, CopyFacts
<1>3. /\ UNCHANGED <<pc, fds, table, cache>>
      /\ fr.rd < Len(recs)
      /\ \/ /\ r.fd = fr.id
            /\ frame' = [frame EXCEPT ![c] =
                 [fr EXCEPT !.rd = @ + 1, !.found = TRUE]]
            /\ UNCHANGED disk
         \/ /\ r.fd # fr.id
            /\ frame' = [frame EXCEPT ![c] =
                 [fr EXCEPT !.rd = @ + 1, !.wr = @ + 1]]
            /\ disk' = [disk EXCEPT ![cache] = WriteAt(@, fr.wr + 1, r)]
  BY <1>1 DEF DelCopy
<1>4. /\ recs \in Seq(Record) /\ Len(recs) \in Nat
      /\ disk[cache] \in Seq(Record) /\ Len(disk[cache]) \in Nat
  BY <1>0, <1>1, RecordsAreRecords
<1>5. fr.rd + 1 \in 1..Len(recs) /\ r \in Record
  <2>1. fr.rd + 1 \in 1..Len(recs)
    BY <1>1, <1>3, <1>4
  <2>. QED  BY <1>0, <1>1, <2>1, RecordsAreRecords
<1>6. 1..(fr.rd + 1) = (1..fr.rd) \cup {fr.rd + 1}
  BY <1>1
<1>7. /\ frame'[c].src = fr.src /\ frame'[c].dst = fr.dst
      /\ frame'[c].id = fr.id /\ frame'[c].rd = fr.rd + 1
      /\ disk'[table] = recs
      /\ frame'[c].wr = Len(disk'[cache])
      /\ RecordsOf(cache)' = Kept(recs, fr.rd + 1, fr.id)
      /\ frame'[c].found <=> \E n \in 1..(fr.rd + 1) : recs[n].fd = fr.id
  <2>0. Kept(recs, fr.rd + 1, fr.id) = Kept(recs, fr.rd, fr.id) \cup
          (IF r.fd # fr.id THEN {r} ELSE {})
    <3>1. fr.rd \in Nat
      BY <1>1
    <3>. HIDE DEF fr, recs
    <3>. QED  BY <3>1, KeptMore
  <2>1. CASE /\ r.fd = fr.id
             /\ frame' = [frame EXCEPT ![c] =
                  [fr EXCEPT !.rd = @ + 1, !.found = TRUE]]
             /\ UNCHANGED disk
    <3>1. frame'[c] = [fr EXCEPT !.rd = @ + 1, !.found = TRUE]
      BY <1>0, <2>1 DEF TypeOK
    <3>2. /\ frame'[c].src = fr.src /\ frame'[c].dst = fr.dst
          /\ frame'[c].id = fr.id /\ frame'[c].rd = fr.rd + 1
          /\ frame'[c].wr = fr.wr /\ frame'[c].found
      <4>. HIDE DEF fr
      <4>. QED  BY <1>0, <3>1, DropField
    <3>3. RecordsOf(cache)' = RecordsOf(cache)
      BY <1>3, <2>1 DEF RecordsOf
    <3>4. Kept(recs, fr.rd + 1, fr.id) = Kept(recs, fr.rd, fr.id)
      BY <2>0, <2>1
    <3>5. \E n \in 1..(fr.rd + 1) : recs[n].fd = fr.id
      BY <1>6, <2>1
    <3>. QED  BY <1>2, <2>1, <3>2, <3>3, <3>4, <3>5
  <2>2. CASE /\ r.fd # fr.id
             /\ frame' = [frame EXCEPT ![c] =
                  [fr EXCEPT !.rd = @ + 1, !.wr = @ + 1]]
             /\ disk' = [disk EXCEPT ![cache] = WriteAt(@, fr.wr + 1, r)]
    <3>1. frame'[c] = [fr EXCEPT !.rd = @ + 1, !.wr = @ + 1]
      BY <1>0, <2>2 DEF TypeOK
    <3>2. /\ frame'[c].src = fr.src /\ frame'[c].dst = fr.dst
          /\ frame'[c].id = fr.id /\ frame'[c].rd = fr.rd + 1
          /\ frame'[c].wr = fr.wr + 1 /\ frame'[c].found = fr.found
      <4>. HIDE DEF fr
      <4>. QED  BY <1>0, <3>1, CopyField
    <3>3. ~(fr.wr + 1 <= Len(disk[cache]))
      BY <1>1, <1>2
    <3>4. disk'[table] = recs /\ disk'[cache] = Append(disk[cache], r)
      BY <1>0, <1>1, <2>2, <3>3 DEF WriteAt, TypeOK
    <3>5. Len(disk'[cache]) = Len(disk[cache]) + 1
      BY <1>4, <1>5, <3>4, AppendProperties
    <3>6. RecordsOf(cache)' = RecordsOf(cache) \cup {r}
      <4>1. {Append(disk[cache], r)[n] : n \in DOMAIN Append(disk[cache], r)}
              = {disk[cache][n] : n \in DOMAIN disk[cache]} \cup {r}
        <5>. HIDE DEF r
        <5>. QED  BY <1>4, <1>5, AppendRecord
      <4>. QED  BY <1>3, <3>4, <4>1 DEF RecordsOf
    <3>7. Kept(recs, fr.rd + 1, fr.id) = Kept(recs, fr.rd, fr.id) \cup {r}
      BY <2>0, <2>2
    <3>8. (\E n \in 1..(fr.rd + 1) : recs[n].fd = fr.id)
            <=> \E n \in 1..fr.rd : recs[n].fd = fr.id
      BY <1>6, <2>2
    <3>9. RecordsOf(cache)' = Kept(recs, fr.rd + 1, fr.id)
      BY <1>2, <3>6, <3>7
    <3>. QED  BY <1>2, <3>2, <3>4, <3>5, <3>8, <3>9
  <2>. QED  BY <1>3, <2>1, <2>2
<1>8. RegView' = RegView
  BY <1>1, <1>3, <1>7 DEF RegView, RecordsOf
<1>9. Sound(c)'
  <2>1. ThroughTable(c)'
    BY <1>0, <1>3, <1>7 DEF Sound, ThroughTable, Meta
  <2>2. fr.rd + 1 <= Len(recs)
    BY <1>1, <1>3, <1>4
  <2>3. Copying(c)'
    BY <1>0, <1>3, <1>7, <2>2 DEF Copying, Kept
  <2>. QED  BY <1>0, <1>3, <2>1, <2>3 DEF Sound, Creating, Closing, Truthful
<1>10. RecordsTrue' /\ TwoFiles'
  BY <1>0, <1>3, <1>8, CloserAlone, RecordsStayTrue, CloserFiles
<1>11. NoLeak'
  BY <1>0, <1>3, <1>8, CloserLeaksNot
<1>. QED  BY <1>8, <1>9, <1>10, <1>11, CloserAlone DEF Orderly

LEMMA DelCopyEndCalm ==
  ASSUME Tidy, Orderly, Calm, NEW c \in Clients, FcloseStep(c), DelCopyEnd(c)
  PROVE  Orderly' /\ RegView' = RegView
<1>. DEFINE fr == frame[c]
<1>0. TypeOK /\ RecordsTrue /\ pc[c] = "del_copy" /\ pc'[c] = "del_remove"
  BY DEF Tidy, Orderly, DelCopyEnd, Goto, TypeOK
<1>1. /\ fr.src \in Fds /\ fds[fr.src].of = table /\ fds[fr.src].kind = "meta"
      /\ fr.dst \in Fds /\ fds[fr.dst].kind = "meta"
      /\ table \in Inodes /\ table # None
      /\ cache \in Inodes /\ cache # None /\ cache # table
      /\ fr.rd \in Nat /\ fr.rd <= Len(disk[table])
      /\ RecordsOf(cache) = Kept(disk[table], fr.rd, fr.id)
      /\ fr.found <=> \E n \in 1..fr.rd : disk[table][n].fd = fr.id
  BY <1>0, CopyFacts
<1>2. fr.rd = Len(disk[table])
  BY <1>0, <1>1, RecordsAreRecords DEF DelCopyEnd
<1>3. UNCHANGED <<table, cache>>
  BY DEF DelCopyEnd
<1>4. disk'[table] = disk[table] /\ disk'[cache] = disk[cache]
  BY <1>1 DEF DelCopyEnd, Reclaimed
<1>5. RegView' = RegView
  BY <1>3, <1>4, KeptView
<1>6. /\ \A f : Data(f)' = Data(f) /\ Data(f).kind = "data"
      /\ Free.kind = "free"
  BY DEF Data, Free
<1>7. /\ \A j \in Fds : fds[j].kind = "data" => fds'[j] = fds[j]
      /\ \A j \in Fds : fds'[j].kind = "data" => fds'[j] = fds[j]
  BY <1>1, <1>6 DEF DelCopyEnd, Closed
<1>8. RecordsTrue'
  BY <1>0, <1>5, <1>7, CloserAlone, RecordsStayTrue
<1>9. NoLeak'
  BY <1>0, <1>5, <1>6, <1>7, CloserLeaksNot
<1>10. TwoFiles'
  BY <1>0, <1>1, <1>3, CloserFiles
<1>11. Sound(c)'
  <2>1. frame'[c] = [fr EXCEPT !.src = -1, !.dst = -1, !.rd = 0, !.wr = 0]
    BY <1>0 DEF DelCopyEnd, TypeOK
  <2>2. frame'[c].id = fr.id /\ frame'[c].found = fr.found
    <3>1. fr \in Frame
      BY CloserAlone
    <3>. HIDE DEF fr
    <3>. QED  BY <2>1, <3>1, ResetField
  <2>3. RecordsOf(table)' = RecordsOf(table) /\ RecordsOf(cache)' = RecordsOf(cache)
    BY <1>3, <1>4 DEF RecordsOf
  <2>4. RecordsOf(cache) = {r \in RecordsOf(table) : r.fd # fr.id}
    BY <1>0, <1>1, <1>2, KeptAll
  <2>5. fr.found <=> \E r \in RecordsOf(table) : r.fd = fr.id
    BY <1>0, <1>1, <1>2, RecordsAreRecords DEF RecordsOf
  <2>6. Copying(c)'
    BY <1>0, <2>2, <2>3, <2>4, <2>5 DEF Copying
  <2>. QED  BY <1>0, <2>6 DEF Sound, ThroughTable, Creating, Closing, Truthful
<1>. QED  BY <1>5, <1>8, <1>9, <1>10, <1>11, CloserAlone DEF Orderly

(* The remove() is the step at which the registry loses the identifier:    *)
(* from then on it is what the cache holds.                                *)
LEMMA DelRemoveCalm ==
  ASSUME Tidy, Orderly, Calm, NEW c \in Clients, FcloseStep(c), DelRemove(c)
  PROVE  Orderly' /\ Registry!Deregister(frame[c].id)
<1>. DEFINE fr == frame[c]
<1>0. /\ TypeOK /\ RecordsTrue /\ NoLeak /\ Sound(c)
      /\ pc[c] = "del_remove" /\ pc'[c] = "del_rename"
  BY DEF Tidy, Orderly, DelRemove, Goto, TypeOK
<1>1. table # None /\ cache # None /\ cache \in Inodes
  BY <1>0, CloserAlone DEF TypeOK
<1>2. /\ RecordsOf(cache) = {r \in RecordsOf(table) : r.fd # fr.id}
      /\ fr.found <=> \E r \in RecordsOf(table) : r.fd = fr.id
  BY <1>0 DEF Sound, Copying
<1>3. table' = None /\ UNCHANGED <<cache, fds>>
  BY DEF DelRemove
<1>4. disk'[cache] = disk[cache]
  BY <1>1 DEF DelRemove, Reclaimed
<1>5. RegView = RecordsOf(table) /\ RegView' = RecordsOf(cache)
  BY <1>1, <1>3, <1>4 DEF RegView, RecordsOf
<1>6. RegView' = {r \in RegView : r.fd # fr.id}
  BY <1>2, <1>5
<1>7. frame'[c].id = fr.id /\ frame'[c].found = fr.found /\ frame'[c].gone
  <2>1. frame'[c] = [fr EXCEPT !.gone = (table # None)]
    BY <1>0 DEF DelRemove, TypeOK
  <2>2. fr \in Frame
    BY CloserAlone
  <2>3. frame'[c] = [fr EXCEPT !.gone = TRUE]
    BY <1>1, <2>1
  <2>. HIDE DEF fr
  <2>. QED  BY <2>2, <2>3, GoneField
<1>8. \A f : Data(f)' = Data(f)
  BY DEF Data
<1>9. RecordsTrue'
  BY <1>0, <1>3, <1>6, CloserAlone, RecordsStayTrue
<1>10. NoLeak'
  <2>1. ASSUME NEW j \in Fds, NEW f \in Files,
               [name |-> f, fd |-> j] \in RegView
        PROVE  \/ [name |-> f, fd |-> j] \in RegView'
               \/ fr.found /\ fr.id = j
    BY <1>2, <1>5, <1>6, <2>1
  <2>. QED  BY <1>0, <1>3, <1>7, <2>1, CloserLeaksNot
<1>11. TwoFiles'
  BY <1>0, <1>1, <1>3, CloserFiles
<1>12. Sound(c)'
  <2>1. ASSUME fr.id \in Fds
        PROVE  fr.found <=> \E f \in Files : fds[fr.id] = Data(f)
    <3>1. ASSUME fr.found PROVE \E f \in Files : fds[fr.id] = Data(f)
      <4>1. PICK r \in RegView : r.fd = fr.id
        BY <1>2, <1>5, <3>1
      <4>2. fr.id # -1 /\ r.name \in Files
        BY <1>0, <2>1, ViewIsRecords, ConstantsOK DEF Record, ConstantsOK
      <4>. QED  BY <1>0, <4>1, <4>2, CloserAlone DEF RecordsTrue
    <3>2. ASSUME NEW f \in Files, fds[fr.id] = Data(f) PROVE fr.found
      <4>1. [name |-> f, fd |-> fr.id] \in RegView
        BY <1>0, <2>1, <3>2, CloserAlone DEF NoLeak, OpenSteps, CloseSteps
      <4>. QED  BY <1>2, <1>5, <4>1
    <3>. QED  BY <3>1, <3>2
  <2>2. Closing(c)'
    BY <1>0, <1>3, <1>6, <1>7, <1>8, <2>1 DEF Closing
  <2>. QED  BY <1>0, <2>2 DEF Sound, ThroughTable, Creating, Copying, Truthful
<1>13. Registry!Deregister(fr.id)
  BY <1>6 DEF Registry!Deregister
<1>. QED  BY <1>9, <1>10, <1>11, <1>12, <1>13, CloserAlone DEF Orderly

LEMMA DelRenameCalm ==
  ASSUME Tidy, Orderly, Calm, NEW c \in Clients, FcloseStep(c), DelRename(c)
  PROVE  Orderly' /\ RegView' = RegView
<1>. DEFINE fr == frame[c]
<1>0. /\ TypeOK /\ RecordsTrue /\ NoLeak /\ Sound(c)
      /\ pc[c] = "del_rename" /\ fr.gone
  BY DEF Tidy, Orderly, DelRename, Sound, Closing
<1>1. table = None /\ cache # None /\ cache \in Inodes
  BY <1>0, CloserAlone DEF TypeOK
<1>2. table' = cache /\ cache' = None /\ UNCHANGED fds
  BY <1>1 DEF DelRename
<1>3. disk'[table'] = disk[cache]
  BY <1>1 DEF DelRename, Reclaimed
<1>4. RegView' = RegView
  BY <1>1, <1>2, <1>3 DEF RegView, RecordsOf
<1>5. \/ fr.found /\ pc'[c] = "del_close" /\ frame'[c] = fr
      \/ ~fr.found /\ pc'[c] = "reply"
  <2>1. CASE fr.found
    BY <1>0, <1>1, <2>1 DEF DelRename, Goto, TypeOK
  <2>2. CASE ~fr.found
    BY <1>0, <2>2, FinishField DEF DelRename
  <2>. QED  BY <2>1, <2>2
<1>6. \A f : Data(f)' = Data(f)
  BY DEF Data
<1>7. RecordsTrue'
  BY <1>0, <1>2, <1>4, CloserAlone, RecordsStayTrue
<1>8. NoLeak'
  BY <1>2, <1>4, <1>5, CloserLeaksNot
<1>9. TwoFiles'
  BY <1>1, <1>2, <1>5, CloserFiles
<1>10. Sound(c)'
  <2>1. CASE fr.found
    <3>1. Closing(c)'
      BY <1>0, <1>2, <1>4, <1>5, <1>6, <2>1 DEF Sound, Closing
    <3>. QED  BY <1>5, <2>1, <3>1
              DEF Sound, ThroughTable, Creating, Copying, Truthful
  <2>2. CASE ~fr.found
    BY <1>5, <2>2, CloserAlone
  <2>. QED  BY <2>1, <2>2
<1>. QED  BY <1>4, <1>7, <1>8, <1>9, <1>10, CloserAlone DEF Orderly

LEMMA DelCloseCalm ==
  ASSUME Tidy, Orderly, Calm, NEW c \in Clients, FcloseStep(c), DelClose(c)
  PROVE  Orderly' /\ RegView' = RegView
<1>. DEFINE fr == frame[c]
<1>0. /\ TypeOK /\ RecordsTrue /\ NoLeak /\ Sound(c)
      /\ pc[c] = "del_close" /\ pc'[c] = "reply"
  BY FinishField DEF Tidy, Orderly, DelClose
<1>1. table # None /\ table \in Inodes /\ cache = None
  BY <1>0, CloserAlone DEF TypeOK
<1>2. \A r \in RegView : r.fd # fr.id
  BY <1>0 DEF Sound, Closing
<1>3. UNCHANGED <<table, cache>> /\ disk'[table] = disk[table]
  BY <1>1 DEF DelClose, Reclaimed
<1>4. RegView' = RegView
  BY <1>1, <1>3, KeptView
<1>5. /\ \A j \in Fds : j # fr.id => fds'[j] = fds[j]
      /\ \A j \in Fds : j = fr.id => fds'[j] = Free
  BY DEF DelClose, Closed
<1>6. \A f : Data(f) # Free
  BY DEF Data, Free
<1>7. RecordsTrue'
  BY <1>0, <1>2, <1>4, <1>5, CloserAlone, RecordsStayTrue
<1>8. NoLeak'
  BY <1>4, <1>5, <1>6, CloserLeaksNot
<1>9. TwoFiles'
  BY <1>0, <1>1, <1>3, CloserFiles
<1>10. Sound(c)'
  BY <1>0, CloserAlone
<1>. QED  BY <1>4, <1>7, <1>8, <1>9, <1>10, CloserAlone DEF Orderly

LEMMA CloserCalm ==
  ASSUME Tidy, Orderly, Calm, Calm', NEW c \in Clients, FcloseStep(c)
  PROVE  Orderly' /\ [Registry!Next]_RegView
<1>1. CASE DelRemove(c)
  <2>1. frame[c].id \in Fds \cup {-1}
    BY CloserAlone DEF Frame, Numbers
  <2>. QED  BY <1>1, <2>1, DelRemoveCalm DEF Registry!Next
<1>. QED  BY <1>1, DelSrcCalm, DelDstCalm, DelCopyCalm, DelCopyEndCalm,
             DelLostCalm, DelRenameCalm, DelCloseCalm DEF FcloseStep

-----------------------------------------------------------------------------
(* The theorems.                                                           *)

LEMMA CalmInit == Init => Undisturbed
<1>1. Init => CloseAlone /\ TwoFiles /\ RecordsTrue /\ NoLeak
  BY DEF Init, CloseAlone, TwoFiles, RecordsTrue, NoLeak, InClose, CloseSteps
<1>2. Init => \A c \in Clients : Sound(c)
  BY DEF Init, Sound, ThroughTable, Creating, Copying, Closing, Truthful
<1>. QED  BY <1>1, <1>2 DEF Undisturbed, Orderly

LEMMA CalmStep ==
  ASSUME Tidy, Undisturbed, [Next]_vars, Calm'
  PROVE  Orderly' /\ [Registry!Next]_RegView
<1>1. Calm /\ Orderly
  BY CalmBefore DEF Undisturbed
<1>2. CASE UNCHANGED vars
  <2>1. \A i : RecordsOf(i)' = RecordsOf(i)
    BY <1>2 DEF vars, RecordsOf
  <2>2. RegView' = RegView
    BY <1>2, <2>1 DEF vars, RegView
  <2>3. \A c \in Clients : Sound(c)'
    BY <1>1, <1>2, StaysSound DEF vars, Tidy, Orderly
  <2>4. CloseAlone' /\ TwoFiles' /\ RecordsTrue' /\ NoLeak'
    BY <1>1, <1>2, <2>2 DEF vars, Orderly, CloseAlone, TwoFiles, RecordsTrue,
       NoLeak, InClose, Calm, Data
  <2>. QED  BY <2>2, <2>3, <2>4 DEF Orderly
<1>3. CASE Start
  BY <1>1, <1>3, StartCalm DEF Registry!Next, Registry!Reset
<1>4. CASE Crash \/ AcceptFails
  BY <1>1, <1>4, DieCalm DEF Crash, AcceptFails
<1>. QED  BY <1>1, <1>2, <1>3, <1>4, RestCalm, OpenerCalm, CloserCalm
          DEF Next, Serve

(* The inductive invariant: Tidy always, Orderly until the first mishap    *)
(* (fserv.cc:103-158, descriptor.cc:43-162).                               *)
THEOREM UndisturbedHolds == Spec => [](Tidy /\ Undisturbed)
<1>1. Init => Tidy /\ Undisturbed
  BY TidyInit, CalmInit
<1>2. Tidy /\ Undisturbed /\ [Next]_vars => (Tidy /\ Undisturbed)'
  BY TidyStep, CalmStep DEF Undisturbed
<1>. QED  BY <1>1, <1>2, PTL DEF Spec

(* Until a mishap every record of the table is true and names are recorded *)
(* once, inside a FOPEN and inside a FCLOSE as well (descriptor.cc:62,     *)
(* 94-162).                                                                *)
THEOREM RecordsStayHonest == Spec => []RecordsTrue
<1>1. Undisturbed => RecordsTrue
  BY DEF Undisturbed, Orderly, RecordsTrue
<1>. QED  BY <1>1, UndisturbedHolds, PTL

(* Until a mishap no descriptor on a file is lost (fserv.cc:103-158).      *)
THEOREM DescriptorsDoNotLeak == Spec => []NoLeak
<1>1. Undisturbed => NoLeak
  BY DEF Undisturbed, Orderly, NoLeak
<1>. QED  BY <1>1, UndisturbedHolds, PTL

(* Until a mishap the answer of a FOPEN is true when it is sent            *)
(* (fserv.cc:121-137).                                                     *)
THEOREM AnswersAreTrue == Spec => []AnswersTrue
<1>1. Undisturbed => AnswersTrue
  <2>1. -1 \notin Fds
    BY ConstantsOK DEF ConstantsOK
  <2>. QED  BY <2>1 DEF Undisturbed, Orderly, Sound, Truthful, AnswersTrue
<1>. QED  BY <1>1, UndisturbedHolds, PTL

(* Until a mishap a cache file is the work of a FCLOSE in progress         *)
(* (descriptor.cc:123-156).                                                *)
THEOREM CacheIsTransient == Spec => []CacheInsideClose
<1>1. Undisturbed => CacheInsideClose
  BY DEF Undisturbed, Orderly, TwoFiles, CacheInsideClose, InClose, CloseSteps
<1>. QED  BY <1>1, UndisturbedHolds, PTL

(* Until a mishap the server with FCLOSE, too, implements the registry:    *)
(* whatever threads interleave, every system call is one atomic operation  *)
(* of FileRegistry or invisible (fserv.cc:103-158, descriptor.cc:43-162).  *)
THEOREM ServerStepsAreRegistrySteps == Spec => RegistryStep
<1>1. Tidy /\ Undisturbed /\ [Next]_vars => [mishaps' # {} \/ Registry!Next]_RegView
  BY CalmStep DEF Calm
<1>. QED  BY <1>1, UndisturbedHolds, PTL DEF Spec, RegistryStep

-----------------------------------------------------------------------------
(* Without FCLOSE an OK is true after a mishap as well.                    *)

FpOpen(c) ==
  LET fr == frame[c] IN
  pc[c] \in {"wd_open", "wd_write"} /\ fr.fp # -1 =>
    fr.fp \in Fds /\ fds[fr.fp] = Data(fr.file)

OkSound(c) ==
  LET fr == frame[c] IN
  pc[c] = "reply" /\ fr.op = "FOPEN" /\ fr.ans.kind = "OK" =>
    /\ fr.ans.n \in Fds /\ fds[fr.ans.n] = Data(fr.file)
    /\ [name |-> fr.file, fd |-> fr.ans.n] \in RegView

OkInv == OpenInv /\ Blank /\ \A c \in Clients : FpOpen(c) /\ OkSound(c)

LEMMA IdleIsOk ==
  ASSUME NEW c \in Clients,
         \/ pc'[c] \notin {"wd_open", "wd_write", "reply"}
         \/ pc'[c] = "reply" /\ frame'[c].ans.kind # "OK"
  PROVE  FpOpen(c)' /\ OkSound(c)'
BY DEF FpOpen, OkSound

LEMMA StaysOk ==
  ASSUME TypeOK, NEW d \in Clients, FpOpen(d), OkSound(d), pc'[d] = pc[d],
         frame'[d] = frame[d], RegView \subseteq RegView',
         \A k \in Fds : fds[k].kind = "data" => fds'[k] = fds[k]
  PROVE  FpOpen(d)' /\ OkSound(d)'
<1>1. \A f : Data(f)' = Data(f) /\ Data(f).kind = "data"
  BY DEF Data
<1>. QED  BY <1>1 DEF FpOpen, OkSound

(* A FOPEN forgets no record and closes no file.                           *)
LEMMA OpenerKeeps ==
  ASSUME OpenInv, NEW c \in Clients, FopenStep(c)
  PROVE  /\ RegView \subseteq RegView'
         /\ \A k \in Fds : fds[k].kind = "data" => fds'[k] = fds[k]
         /\ WdWrite(c) /\ frame[c].src # -1 =>
              [name |-> frame[c].file, fd |-> frame[c].fp] \in RegView'
<1>0. /\ TypeOK /\ Named /\ table \in Inodes /\ table # None
      /\ cache = None /\ UNCHANGED <<table, cache>>
      /\ RegView = RecordsOf(table) /\ RegView' = RecordsOf(table)'
  BY OnlyOpener, ConstantsOK
     DEF OpenInv, TableThere, RegView, RecordsOf, ConstantsOK
<1>1. Free.kind # "data" /\ Meta(table).kind # "data"
  BY DEF Free, Meta
<1>2. CASE ChkOpen(c) \/ WdOpen(c)
  <2>1. disk' = disk /\ \A k \in Fds : fds[k] # Free => fds'[k] = fds[k]
    BY <1>0, <1>2, OpenMetaKeeps DEF ChkOpen, WdOpen
  <2>2. RegView' = RegView
    BY <1>0, <2>1, KeptView
  <2>. QED  BY <1>1, <1>2, <2>1, <2>2 DEF ChkOpen, WdOpen, WdWrite
<1>3. CASE ChkScan(c)
  <2>1. disk' = Reclaimed(disk, table, cache, fds')
    BY <1>3 DEF ChkScan
  <2>2. disk'[table] = disk[table]
    BY <1>0, <2>1, TableKept DEF TypeOK
  <2>3. RegView' = RegView
    BY <1>0, <2>2, KeptView
  <2>. QED  BY <1>1, <1>3, <2>3 DEF ChkScan, Closed, WdWrite
<1>4. CASE ChkLost(c)
  <2>1. RegView' = RegView
    BY <1>0, <1>4, KeptView DEF ChkLost
  <2>. QED  BY <1>4, <2>1 DEF ChkLost, WdWrite
<1>5. CASE Create(c)
  <2>1. RegView' = RegView
    BY <1>0, <1>5, KeptView DEF Create
  <2>. QED  BY <1>0, <1>1, <1>5, <2>1 DEF Create, Lowest, TypeOK, WdWrite
<1>6. CASE WdWrite(c)
  <2>1. CASE frame[c].src = -1
    <3>1. UNCHANGED <<fds, disk>>
      BY <1>6, <2>1 DEF WdWrite
    <3>. QED  BY <1>0, <2>1, <3>1, KeptView
  <2>2. CASE frame[c].src # -1
    <3>1. frame[c].src \in Fds /\ fds[frame[c].src] = Meta(table)
      BY <1>0, <1>6, <2>2 DEF OpenInv, OnTable, WdWrite, TypeOK, Frame, Numbers
    <3>2. RegView' = RegView
                 \cup {[name |-> frame[c].file, fd |-> frame[c].fp]}
      BY <1>0, <1>6, <3>1, WdWriteRecords
    <3>3. fds' = Closed({frame[c].src})
      BY <1>6, <2>2 DEF WdWrite
    <3>. QED  BY <1>1, <3>1, <3>2, <3>3 DEF Closed
  <2>. QED  BY <2>1, <2>2
<1>. QED  BY <1>2, <1>3, <1>4, <1>5, <1>6 DEF FopenStep

(* What create_file returned is kept until it is recorded and answered.    *)
LEMMA OpenerOk ==
  ASSUME OkInv, NEW c \in Clients, FopenStep(c)
  PROVE  FpOpen(c)' /\ OkSound(c)'
<1>0. /\ OpenInv /\ TypeOK /\ FpOpen(c) /\ frame[c] \in Frame
      /\ \A k \in Fds : fds[k].kind = "data" => fds'[k] = fds[k]
      /\ \A f : Data(f)' = Data(f) /\ Data(f).kind = "data"
  BY OpenerKeeps DEF OkInv, OpenInv, TypeOK, Data
<1>a. ASSUME NEW n, Finish(c, Said("ERR", n))
      PROVE  FpOpen(c)' /\ OkSound(c)'
  <2>1. pc'[c] = "reply" /\ frame'[c].ans = Said("ERR", n)
    BY <1>0, <1>a, FinishField
  <2>2. frame'[c].ans.kind = "ERR"
    BY <2>1 DEF Said
  <2>. QED  BY <2>1, <2>2, IdleIsOk
<1>b. ASSUME pc'[c] \in {"chk_scan", "create", "spin"}
      PROVE  FpOpen(c)' /\ OkSound(c)'
  BY <1>b, IdleIsOk
<1>1. CASE ChkOpen(c)
  BY <1>0, <1>1, <1>b DEF ChkOpen, Goto, TypeOK
<1>2. CASE ChkScan(c) \/ ChkLost(c)
  <2>1. \/ Goto(c, "create") \/ Goto(c, "spin")
        \/ \E n : Finish(c, Said("ERR", n))
    BY <1>2 DEF ChkScan, ChkLost, Spin
  <2>. QED  BY <1>0, <1>a, <1>b, <2>1 DEF Goto, TypeOK
<1>3. CASE Create(c)
  <2>1. pc'[c] = "wd_open" /\ frame[c].fp = -1
    BY <1>0, <1>3 DEF Create, Goto, TypeOK, OkInv, Blank
  <2>2. ASSUME NEW k \in Fds, fds' = [fds EXCEPT ![k] = Data(frame[c].file)],
               frame' = [frame EXCEPT ![c].fp = k]
        PROVE  FpOpen(c)'
    <3>1. frame'[c] = [frame[c] EXCEPT !.fp = k] /\ k \in Numbers
      BY <1>0, <2>2 DEF TypeOK, Numbers
    <3>2. frame'[c].fp = k /\ frame'[c].file = frame[c].file
      BY <1>0, <3>1, FpField
    <3>3. fds'[k] = Data(frame[c].file)
      BY <1>0, <2>2 DEF TypeOK
    <3>. QED  BY <1>0, <3>2, <3>3 DEF FpOpen
  <2>3. ASSUME UNCHANGED <<fds, frame>>
        PROVE  FpOpen(c)'
    <3>1. frame'[c].fp = -1
      BY <2>1, <2>3
    <3>. QED  BY <3>1 DEF FpOpen
  <2>4. FpOpen(c)'
    BY <1>3, <2>2, <2>3 DEF Create
  <2>. QED  BY <2>1, <2>4 DEF OkSound
<1>4. CASE WdOpen(c)
  <2>1. PICK k \in Numbers : frame' = [frame EXCEPT ![c].src = k]
    BY <1>4 DEF WdOpen
  <2>2. frame'[c] = [frame[c] EXCEPT !.src = k]
    BY <1>0, <2>1 DEF TypeOK
  <2>3. frame'[c].fp = frame[c].fp /\ frame'[c].file = frame[c].file
    BY <1>0, <2>2, SrcField
  <2>4. pc[c] = "wd_open" /\ pc'[c] = "wd_write"
    BY <1>0, <1>4 DEF WdOpen, Goto, TypeOK
  <2>. QED  BY <1>0, <2>3, <2>4 DEF FpOpen, OkSound
<1>5. CASE WdWrite(c)
  <2>1. CASE frame[c].src # -1 /\ frame[c].fp # -1
    <3>1. Finish(c, Said("OK", frame[c].fp)) /\ pc[c] = "wd_write"
      BY <1>5, <2>1 DEF WdWrite
    <3>2. /\ pc'[c] = "reply" /\ frame'[c].file = frame[c].file
          /\ frame'[c].ans = Said("OK", frame[c].fp)
      BY <1>0, <3>1, FinishField
    <3>3. frame'[c].ans.n = frame[c].fp
      BY <3>2 DEF Said
    <3>4. /\ frame[c].fp \in Fds /\ fds'[frame[c].fp] = Data(frame[c].file)
          /\ [name |-> frame[c].file, fd |-> frame[c].fp] \in RegView'
      BY <1>0, <1>5, <2>1, <3>1, OpenerKeeps DEF FpOpen
    <3>. QED  BY <1>0, <3>2, <3>3, <3>4 DEF FpOpen, OkSound
  <2>2. CASE frame[c].src = -1 \/ frame[c].fp = -1
    <3>1. Finish(c, Said("FAIL", 0))
      BY <1>5, <2>2 DEF WdWrite
    <3>2. pc'[c] = "reply" /\ frame'[c].ans = Said("FAIL", 0)
      BY <1>0, <3>1, FinishField
    <3>. QED  BY <3>2, IdleIsOk DEF Said
  <2>. QED  BY <2>1, <2>2
<1>. QED  BY <1>1, <1>2, <1>3, <1>4, <1>5 DEF FopenStep

LEMMA OkInvStep ==
  ASSUME Closers = {}, OkInv, [Next]_vars PROVE OkInv'
<1>0. OpenInv /\ TypeOK /\ Blank /\ OpenInv' /\ Blank'
  BY OpenInvStep, BlankStep DEF OkInv, OpenInv
<1>1. CASE UNCHANGED vars
  <2>1. RegView' = RegView
    BY <1>1, KeptView DEF vars
  <2>2. \A d \in Clients : FpOpen(d)' /\ OkSound(d)'
    BY <1>0, <1>1, <2>1, StaysOk DEF vars, OkInv
  <2>. QED  BY <1>0, <2>2 DEF OkInv
<1>2. CASE Start \/ Crash \/ AcceptFails
  <2>1. \A d \in Clients : pc'[d] = "off"
    BY <1>0, <1>2 DEF OpenInv, UpServes, Start, Crash, AcceptFails, Die
  <2>. QED  BY <1>0, <2>1, IdleIsOk DEF OkInv
<1>3. ASSUME NEW c \in Clients, Accept(c) \/ Request(c) \/ Reply(c)
      PROVE  OkInv'
  <2>1. /\ UNCHANGED <<table, cache, disk>>
        /\ \A k \in Fds : fds[k].kind = "data" => fds'[k] = fds[k]
    BY <1>0, <1>3, RestKeeps
  <2>2. RegView' = RegView
    BY <2>1, KeptView
  <2>3. \A d \in Clients \ {c} : pc'[d] = pc[d] /\ frame'[d] = frame[d]
    BY <1>0, <1>3, OthersStay DEF Serve
  <2>4. \/ pc'[c] \notin {"wd_open", "wd_write", "reply"}
        \/ pc'[c] = "reply" /\ frame'[c].ans.kind # "OK"
    BY <1>0, <1>3, OwnStep, RequestField
  <2>5. \A d \in Clients : FpOpen(d)' /\ OkSound(d)'
    BY <1>0, <2>1, <2>2, <2>3, <2>4, IdleIsOk, StaysOk DEF OkInv
  <2>. QED  BY <1>0, <2>5 DEF OkInv
<1>4. ASSUME NEW c \in Clients, FopenStep(c)
      PROVE  OkInv'
  <2>1. \A d \in Clients \ {c} : pc'[d] = pc[d] /\ frame'[d] = frame[d]
    BY <1>0, <1>4, OthersStay DEF Serve
  <2>2. \A d \in Clients \ {c} : FpOpen(d)' /\ OkSound(d)'
    BY <1>0, <1>4, <2>1, OpenerKeeps, StaysOk DEF OkInv
  <2>3. FpOpen(c)' /\ OkSound(c)'
    BY <1>4, OpenerOk
  <2>. QED  BY <1>0, <2>2, <2>3 DEF OkInv
<1>5. ASSUME NEW c \in Clients, FcloseStep(c)
      PROVE  FALSE
  BY <1>0, <1>5, OwnStep DEF OpenInv, NoCloses
<1>. QED  BY <1>1, <1>2, <1>3, <1>4, <1>5 DEF Next, Serve

(* With clients that do not send FCLOSE the client that is told OK n owns  *)
(* an open and recorded descriptor, also after the descriptor table has    *)
(* been full or the process restarted (fserv.cc:121-125).                  *)
THEOREM OkIsTrue ==
  ASSUME Closers = {}
  PROVE  Spec => []OkTrue
<1>1. Init => OkInv
  <2>1. Init => TypeOK /\ Named /\ OpensExclude /\ LockHeldInside /\ Blank
    BY TidyInit DEF Tidy
  <2>. QED  BY <2>1 DEF Init, OkInv, OpenInv, NoCloses, TableThere, UpServes,
               OnTable, NewName, CloseSteps, FpOpen, OkSound
<1>2. OkInv /\ [Next]_vars => OkInv'
  BY OkInvStep
<1>3. OkInv => OkTrue
  BY DEF OkInv, OkSound, OkTrue
<1>. QED  BY <1>1, <1>2, <1>3, PTL DEF Spec
=============================================================================
