---------------------------- MODULE RsShellProofs ----------------------------
(***************************************************************************)
(* Theorems about the remote shell and its server, for any number of       *)
(* shells, processes and connections.                                      *)
(***************************************************************************)
EXTENDS RsShellProps, QueueLemmas

-----------------------------------------------------------------------------
(* Types: the pieces actions are made of.                                  *)

LEMMA FreeType == Free \in Connections
BY DEF Free, Connections, Ends

LEMMA SettleType == ASSUME NEW r \in Connections PROVE Settle(r) \in Connections
BY FreeType DEF Settle

LEMMA ShutType ==
  ASSUME NEW r \in Connections, NEW p PROVE Shut(r, p) \in Connections
<1>. DEFINE s == IF r.sock # "open" THEN r.sock
                 ELSE IF r.holders = {p} THEN Closed(r) ELSE "fin"
<1>1. s \in Ends
  BY DEF Connections, Closed, Ends
<1>. HIDE DEF s
<1>2. [r EXCEPT !.holders = r.holders \ {p}, !.sock = s] \in Connections
  BY <1>1 DEF Connections
<1>. QED  BY <1>2, SettleType DEF Shut, s

LEMMA LeftByType ==
  ASSUME NEW r \in Connections, NEW p PROVE LeftBy(r, p) \in Connections
<1>. DEFINE s == IF r.sock = "open" /\ r.holders = {p} THEN Closed(r) ELSE r.sock
<1>1. s \in Ends
  BY DEF Connections, Closed, Ends
<1>. HIDE DEF s
<1>2. [r EXCEPT !.holders = r.holders \ {p}, !.sock = s] \in Connections
  BY <1>1 DEF Connections
<1>. QED  BY <1>2, SettleType DEF LeftBy, s

LEMMA FreshType == Fresh \in Processes
BY DEF Fresh, Processes, Places

LEMMA EndedType ==
  ASSUME TypeOK, NEW p \in Procs, NEW q \in Procs
  PROVE  Ended(q, p) \in Processes
<1>1. proc[p] \in Processes /\ proc[q] \in Processes
  BY DEF TypeOK
<1>. DEFINE j == IF proc[p].job \in {"running", "orphan"} THEN "orphan" ELSE "none"
            z == IF proc[p].parent = NoProc THEN "none" ELSE "zombie"
            o == IF proc[q].pc = "zombie" THEN "none" ELSE proc[q].pc
<1>2. z \in Places /\ j \in {"none", "running", "done", "orphan"}
  BY DEF Places
<1>3. o \in Places
  BY <1>1 DEF Processes, Places
<1>. HIDE DEF j, z, o
<1>4. [Fresh EXCEPT !.no = proc[p].no, !.parent = proc[p].parent,
         !.job = j, !.pc = z] \in Processes
  BY <1>1, <1>2, FreshType DEF Processes
<1>5. [proc[q] EXCEPT !.parent = NoProc, !.pc = o] \in Processes
  BY <1>1, <1>3 DEF Processes
<1>6. [proc[q] EXCEPT !.pending = TRUE] \in Processes
  BY <1>1 DEF Processes
<1>. QED  BY <1>1, <1>4, <1>5, <1>6 DEF Ended, j, z, o

LEMMA EndType ==
  ASSUME TypeOK, NEW p \in Procs, End(p)
  PROVE  conn' \in [Conns -> Connections] /\ proc' \in [Procs -> Processes]
<1>1. \A q \in Procs : Ended(q, p) \in Processes
  BY EndedType
<1>2. \A c \in Conns : LeftBy(conn[c], p) \in Connections
  BY LeftByType DEF TypeOK
<1>. QED  BY <1>1, <1>2 DEF End

(* A process that changes: what its record becomes is typed.               *)
LEMMA GoesType ==
  ASSUME TypeOK, NEW p \in Procs, NEW place \in Places, Goes(p, place)
  PROVE  proc' \in [Procs -> Processes]
<1>1. [proc[p] EXCEPT !.pc = place] \in Processes
  BY DEF TypeOK, Processes
<1>. QED  BY <1>1 DEF TypeOK, Goes

LEMMA ClosePortType ==
  ASSUME TypeOK, NEW p \in Procs, ClosePort(p)
  PROVE  conn' \in [Conns -> Connections]
<1>1. proc[p].sd \in Conns \cup {NoConn}
  BY DEF TypeOK, Processes
<1>2. CASE proc[p].sd = NoConn
  BY <1>2 DEF ClosePort, TypeOK
<1>3. CASE proc[p].sd \in Conns
  <2>1. Shut(conn[proc[p].sd], p) \in Connections
    BY <1>3, ShutType DEF TypeOK
  <2>2. conn' = [conn EXCEPT ![proc[p].sd] = Shut(conn[proc[p].sd], p)]
    BY <1>3, ServerConstantsOK DEF ClosePort, ServerConstantsOK
  <2>. QED  BY <2>1, <2>2, <1>3 DEF TypeOK
<1>. QED  BY <1>1, <1>2, <1>3

LEMMA ConnectType ==
  ASSUME TypeOK, NEW c \in Conns, NEW p \in Procs, Connect(c, p)
  PROVE  /\ up' \in BOOLEAN /\ served' \in Conns \cup {NoConn}
         /\ queue' \in Seq(Conns) /\ Len(queue') <= Backlog
         /\ conn' \in [Conns -> Connections]
<1>1. Append(queue, c) \in Seq(Conns) /\ Len(Append(queue, c)) = Len(queue) + 1
  BY AppendProperties DEF TypeOK
<1>2. [Free EXCEPT !.sock = "open", !.srv = "open", !.holders = {p}] \in Connections
  BY FreeType DEF Connections, Ends
<1>3. Len(queue) \in Nat /\ Backlog \in Nat
  BY LenProperties, ServerConstantsOK DEF TypeOK, ServerConstantsOK
<1>. QED  BY <1>1, <1>2, <1>3 DEF TypeOK, Connect, Connectable

(* What is sent, and what goes nowhere.                                    *)
LEMMA PutsType ==
  ASSUME TypeOK, NEW p \in Procs, NEW pieces \in Seq(Pieces), Puts(p, pieces)
  PROVE  conn' \in [Conns -> Connections]
<1>. DEFINE c == proc[p].sd
<1>1. c \in Conns /\ conn[c] \in Connections
  BY DEF TypeOK, Processes, Puts
<1>2. conn' = [conn EXCEPT ![c].inbox = @ \o pieces]
  BY DEF Puts
<1>. HIDE DEF c
<1>3. conn[c].inbox \o pieces \in Seq(Pieces)
  BY <1>1, ConcatProperties DEF Connections
<1>4. [conn[c] EXCEPT !.inbox = conn[c].inbox \o pieces] \in Connections
  BY <1>1, <1>3 DEF Connections
<1>. QED  BY <1>1, <1>2, <1>4 DEF TypeOK

LEMMA NowhereType ==
  ASSUME TypeOK, NEW p \in Procs, Nowhere(p)
  PROVE  conn' \in [Conns -> Connections]
<1>. DEFINE c == proc[p].sd
<1>1. CASE c = NoConn /\ UNCHANGED conn
  BY <1>1 DEF TypeOK
<1>2. CASE c # NoConn /\ conn' = [conn EXCEPT ![c].srv = IF @ = "fin" THEN "rst" ELSE @]
  <2>1. c \in Conns /\ conn[c] \in Connections
    BY <1>2 DEF TypeOK, Processes
  <2>. HIDE DEF c
  <2>2. [conn[c] EXCEPT !.srv = IF conn[c].srv = "fin" THEN "rst" ELSE conn[c].srv]
          \in Connections
    BY <2>1 DEF Connections, Ends
  <2>. QED  BY <1>2, <2>1, <2>2 DEF TypeOK
<1>. QED  BY <1>1, <1>2 DEF Nowhere

(* A sequence is its first pieces and the rest.                            *)
LEMMA FirstAndRest ==
  ASSUME NEW S, NEW s \in Seq(S), NEW n \in DOMAIN s
  PROVE  /\ SubSeq(s, 1, n) \in Seq(S) /\ Rest(s, n) \in Seq(S)
         /\ SubSeq(s, 1, n) \o Rest(s, n) = s
<1>1. /\ Len(s) \in Nat /\ DOMAIN s = 1..Len(s) /\ n \in 1..Len(s)
      /\ \A i \in 1..Len(s) : s[i] \in S
  BY LenProperties, ElementOfSeq
<1>. DEFINE a == SubSeq(s, 1, n)
            b == SubSeq(s, n + 1, Len(s))
<1>2. /\ a \in Seq(S) /\ Len(a) = n
      /\ \A i \in 1..n : a[i] = s[i]
  <2>1. /\ a \in Seq(S) /\ Len(a) = IF 1 <= n THEN n - 1 + 1 ELSE 0
        /\ \A i \in 1..(n - 1 + 1) : a[i] = s[1 + i - 1]
    BY <1>1, SubSeqProperties
  <2>. HIDE DEF a
  <2>. QED  BY <1>1, <2>1
<1>3. /\ b \in Seq(S) /\ Len(b) = Len(s) - n
      /\ \A i \in 1..(Len(s) - n) : b[i] = s[n + i]
  <2>1. n + 1 \in Int /\ Len(s) \in Int /\ \A i \in (n + 1)..Len(s) : s[i] \in S
    BY <1>1
  <2>2. /\ b \in Seq(S)
        /\ Len(b) = IF n + 1 <= Len(s) THEN Len(s) - (n + 1) + 1 ELSE 0
        /\ \A i \in 1..(Len(s) - (n + 1) + 1) : b[i] = s[n + 1 + i - 1]
    BY <2>1, SubSeqProperties
  <2>. HIDE DEF b
  <2>3. \A i \in 1..(Len(s) - n) : n + 1 + i - 1 = n + i
    BY <1>1
  <2>4. Len(s) - (n + 1) + 1 = Len(s) - n
    BY <1>1
  <2>5. Len(b) = Len(s) - n
    BY <1>1, <2>2
  <2>. QED  BY <2>2, <2>3, <2>4, <2>5
<1>. HIDE DEF a, b
<1>4. /\ a \o b \in Seq(S) /\ Len(a \o b) = Len(a) + Len(b)
      /\ \A i \in 1..(Len(a) + Len(b)) :
           (a \o b)[i] = IF i <= Len(a) THEN a[i] ELSE b[i - Len(a)]
  BY <1>2, <1>3, ConcatProperties
<1>a. Len(a) + Len(b) = Len(s) /\ Len(a) = n
  BY <1>1, <1>2, <1>3
<1>5. ASSUME NEW i \in 1..Len(s)
      PROVE  (a \o b)[i] = s[i]
  <2>1. CASE i <= n
    <3>1. i \in 1..n /\ i \in 1..(Len(a) + Len(b))
      BY <1>1, <1>a, <2>1
    <3>2. (a \o b)[i] = a[i]
      BY <1>4, <1>a, <2>1, <3>1
    <3>. QED  BY <1>2, <3>1, <3>2
  <2>2. CASE ~(i <= n)
    <3>1. i - n \in 1..(Len(s) - n) /\ n + (i - n) = i
      BY <1>1, <2>2
    <3>2. i \in 1..(Len(a) + Len(b)) /\ ~(i <= Len(a))
      BY <1>a, <2>2
    <3>3. (a \o b)[i] = b[i - n]
      BY <1>4, <1>a, <3>2
    <3>. QED  BY <1>3, <3>1, <3>3
  <2>. QED  BY <2>1, <2>2
<1>6. a \o b = s
  BY <1>4, <1>5, <1>a, SeqEqual
<1>. QED  BY <1>2, <1>3, <1>6 DEF Rest, a, b

-----------------------------------------------------------------------------
(* The server's actions keep the types.                                    *)

LEMMA DieType ==
  ASSUME TypeOK, Die
  PROVE  /\ up' \in BOOLEAN /\ served' \in Conns \cup {NoConn}
         /\ queue' \in Seq(Conns) /\ Len(queue') <= Backlog
         /\ conn' \in [Conns -> Connections]
<1>1. ASSUME NEW c \in Conns, NEW s \in Ends
      PROVE  [conn[c] EXCEPT !.inbox = <<>>, !.srv = s] \in Connections
  <2>1. conn[c] \in Connections /\ <<>> \in Seq(Pieces)
    BY DEF TypeOK
  <2>. QED  BY <2>1 DEF Connections
<1>2. ASSUME NEW c \in Conns
      PROVE  Settle([conn[c] EXCEPT !.inbox = <<>>,
               !.srv = IF c = served /\ conn[c].inbox = <<>>
                       THEN "fin" ELSE "rst"]) \in Connections
  <2>1. (IF c = served /\ conn[c].inbox = <<>> THEN "fin" ELSE "rst") \in Ends
    BY DEF Ends
  <2>. QED  BY <1>1, <2>1, SettleType
<1>3. <<>> \in Seq(Conns) /\ Len(<<>>) = 0
  OBVIOUS
<1>4. conn' \in [Conns -> Connections]
  BY <1>2 DEF TypeOK, Die
<1>5. queue' = <<>> /\ served' = NoConn /\ up' = FALSE
  BY DEF Die
<1>6. queue' \in Seq(Conns) /\ Len(queue') = 0
  BY <1>3, <1>5
<1>7. Len(queue') <= Backlog
  BY <1>6, ServerConstantsOK DEF ServerConstantsOK
<1>. QED  BY <1>4, <1>5, <1>6, <1>7

LEMMA ReleaseType ==
  ASSUME TypeOK, served \in Conns, NEW how \in {"fin", "rst"}, Release(how)
  PROVE  /\ served' \in Conns \cup {NoConn}
         /\ conn' \in [Conns -> Connections]
<1>1. /\ conn[served] \in Connections /\ <<>> \in Seq(Pieces)
      /\ how \in Ends
  BY DEF TypeOK, Ends
<1>2. [conn[served] EXCEPT !.srv = how, !.inbox = <<>>] \in Connections
  BY <1>1 DEF Connections
<1>. QED  BY <1>2, SettleType DEF TypeOK, Release

LEMMA ServerType ==
  ASSUME TypeOK, ServerNext /\ UNCHANGED proc
  PROVE  TypeOK'
<1>1. served # NoConn => served \in Conns
  BY DEF TypeOK
<1>2. CASE Accept
  <2>1. Head(queue) \in Conns /\ Tail(queue) \in Seq(Conns)
        /\ Len(Tail(queue)) = Len(queue) - 1 /\ Len(queue) \in Nat
    BY <1>2, HeadTailProperties, LenProperties DEF TypeOK, Accept
  <2>. QED  BY <1>2, <2>1, ServerConstantsOK DEF TypeOK, Accept, ServerConstantsOK
<1>3. CASE Answer
  <2>1. PICK n \in DOMAIN conn[served].inbox :
          /\ served # NoConn /\ UNCHANGED serverVars
          /\ conn' = [conn EXCEPT
                ![served].inbox = Rest(@, n),
                ![served].answers = @ \o SubSeq(conn[served].inbox, 1, n)]
    BY <1>3 DEF Answer, Serving
  <2>2. conn[served] \in Connections /\ served \in Conns
    BY <1>1, <2>1 DEF TypeOK
  <2>3. /\ Rest(conn[served].inbox, n) \in Seq(Pieces)
        /\ SubSeq(conn[served].inbox, 1, n) \in Seq(Pieces)
    BY <2>2, FirstAndRest DEF Connections
  <2>4. conn[served].answers \o SubSeq(conn[served].inbox, 1, n) \in Seq(Pieces)
    BY <2>2, <2>3, ConcatProperties DEF Connections
  <2>5. [conn[served] EXCEPT !.inbox = Rest(conn[served].inbox, n),
           !.answers = conn[served].answers
                         \o SubSeq(conn[served].inbox, 1, n)] \in Connections
    BY <2>2, <2>3, <2>4 DEF Connections
  <2>. QED  BY <2>1, <2>2, <2>5 DEF TypeOK, serverVars
<1>4. CASE Die
  BY <1>4, DieType DEF TypeOK
<1>5. ASSUME NEW how \in {"fin", "rst"}, Release(how), served # NoConn
      PROVE  TypeOK'
  BY <1>1, <1>5, ReleaseType DEF TypeOK, Release
<1>7. ASSUME NEW n \in DOMAIN conn[served].inbox, served # NoConn,
             NEW how \in {conn[served].sock, "rst"}, UNCHANGED serverVars,
             conn' = [conn EXCEPT ![served].inbox = Rest(@, n), ![served].sock = how]
      PROVE  TypeOK'
  <2>1. conn[served] \in Connections /\ served \in Conns
    BY <1>1, <1>7 DEF TypeOK
  <2>2. Rest(conn[served].inbox, n) \in Seq(Pieces) /\ how \in Ends
    BY <1>7, <2>1, FirstAndRest DEF Connections, Ends
  <2>3. [conn[served] EXCEPT !.inbox = Rest(conn[served].inbox, n), !.sock = how]
          \in Connections
    BY <2>1, <2>2 DEF Connections
  <2>. QED  BY <1>7, <2>1, <2>3 DEF TypeOK, serverVars
<1>6. CASE Start
  BY <1>6 DEF TypeOK, Start
<1>. QED
  BY <1>2, <1>3, <1>4, <1>5, <1>6, <1>7
     DEF ServerNext, Serve, AnswerGone, AcceptFails, Quit, Eof, Broken, Serving

-----------------------------------------------------------------------------
(* The shells' actions keep the types.                                     *)

LEMMA SameServerType ==
  ASSUME TypeOK, UNCHANGED serverVars, conn' \in [Conns -> Connections],
         proc' \in [Procs -> Processes]
  PROVE  TypeOK'
BY DEF TypeOK, serverVars

LEMMA HoldersType ==
  ASSUME TypeOK, NEW p \in Procs,
         NEW more \in SUBSET (Procs \cup {JobOf(q) : q \in Procs}),
         conn' = [c \in Conns |-> [conn[c] EXCEPT !.holders =
                    IF p \in conn[c].holders THEN conn[c].holders \cup more
                    ELSE conn[c].holders]]
  PROVE  conn' \in [Conns -> Connections]
<1>1. ASSUME NEW c \in Conns
      PROVE  [conn[c] EXCEPT !.holders =
                IF p \in conn[c].holders THEN conn[c].holders \cup more
                ELSE conn[c].holders] \in Connections
  <2>1. conn[c] \in Connections
    BY DEF TypeOK
  <2>2. (IF p \in conn[c].holders THEN conn[c].holders \cup more
         ELSE conn[c].holders) \in SUBSET (Procs \cup {JobOf(q) : q \in Procs})
    BY <2>1 DEF Connections
  <2>. QED  BY <2>1, <2>2 DEF Connections
<1>. QED  BY <1>1

LEMMA CommandType == ASSUME TypeOK, NEW p \in Procs, Command(p) PROVE TypeOK'
<1>. USE DEF Places
<1>0. proc[p] \in Processes
  BY DEF TypeOK
<1>1. CASE OneShot(p)
  <2>1. PICK c \in Conns : /\ Connect(c, p)
                           /\ proc' = [proc EXCEPT ![p].sd = c, ![p].pc = "send"]
    BY <1>1 DEF OneShot
  <2>2. [proc[p] EXCEPT !.sd = c, !.pc = "send"] \in Processes
    BY <1>0 DEF Processes
  <2>3. proc' \in [Procs -> Processes]
    BY <2>1, <2>2 DEF TypeOK
  <2>. QED  BY <2>1, <2>3, ConnectType DEF TypeOK
<1>2. CASE KeptRequest(p)
  BY <1>2, GoesType, SameServerType DEF KeptRequest, TypeOK
<1>3. CASE KeepAlive(p)
  <2>1. PICK c \in Conns : /\ Connect(c, p)
                           /\ proc' = [proc EXCEPT ![p].sd = c, ![p].pc = "hello",
                                                   ![p].keepalive = TRUE]
    BY <1>3 DEF KeepAlive
  <2>2. [proc[p] EXCEPT !.sd = c, !.pc = "hello", !.keepalive = TRUE] \in Processes
    BY <1>0 DEF Processes
  <2>3. proc' \in [Procs -> Processes]
    BY <2>1, <2>2 DEF TypeOK
  <2>. QED  BY <2>1, <2>3, ConnectType DEF TypeOK
<1>4. CASE Refused(p) \/ Exit(p)
  BY <1>4, EndType, SameServerType DEF Refused, Exit
<1>5. CASE CloseKept(p)
  <2>1. [proc[p] EXCEPT !.keepalive = FALSE, !.sd = NoConn] \in Processes
    BY <1>0 DEF Processes
  <2>2. proc' \in [Procs -> Processes]
    BY <1>5, <2>1 DEF CloseKept, TypeOK
  <2>. QED  BY <1>5, <2>2, ClosePortType, SameServerType DEF CloseKept
<1>6. CASE RunIt(p)
  <2>1. [proc[p] EXCEPT !.pc = "run", !.disp = "block"] \in Processes
    BY <1>0 DEF Processes
  <2>. QED  BY <1>6, <2>1, SameServerType DEF RunIt, TypeOK
<1>7. CASE More(p)
  BY <1>7, GoesType, SameServerType DEF More, TypeOK
<1>8. CASE Job(p)
  <2>1. [proc[p] EXCEPT !.job = "running"] \in Processes
    BY <1>0 DEF Processes
  <2>2. proc' \in [Procs -> Processes]
    BY <1>8, <2>1 DEF Job, TypeOK
  <2>3. conn' \in [Conns -> Connections]
    <3>. DEFINE more == {JobOf(p)}
    <3>1. more \in SUBSET (Procs \cup {JobOf(q) : q \in Procs})
      OBVIOUS
    <3>2. conn' = [c \in Conns |-> [conn[c] EXCEPT !.holders =
                     IF p \in conn[c].holders THEN conn[c].holders \cup more
                     ELSE conn[c].holders]]
      BY <1>8 DEF Job
    <3>. HIDE DEF more
    <3>. QED  BY <3>1, <3>2, HoldersType
  <2>. QED  BY <1>8, <2>2, <2>3, SameServerType DEF Job
<1>9. CASE Background(p)
  <2>1. PICK q \in Spares, r \in Spares :
           LET child == [Fresh EXCEPT !.keepalive = proc[p].keepalive,
                          !.sd = proc[p].sd, !.disp = "block"]
           IN /\ proc' = [proc EXCEPT
                   ![q] = [child EXCEPT !.pc = "wait", !.parent = p],
                   ![r] = [child EXCEPT !.bg = TRUE, !.parent = q,
                             !.pc = IF proc[p].keepalive THEN "send" ELSE "connect"]]
              /\ conn' = [c \in Conns |-> [conn[c] EXCEPT !.holders =
                     IF p \in conn[c].holders THEN conn[c].holders \cup {q, r}
                     ELSE conn[c].holders]]
    BY <1>9 DEF Background
  <2>. DEFINE child == [Fresh EXCEPT !.keepalive = proc[p].keepalive,
                          !.sd = proc[p].sd, !.disp = "block"]
              z == IF proc[p].keepalive THEN "send" ELSE "connect"
  <2>2. q \in Procs /\ r \in Procs
    BY DEF Procs
  <2>3. child \in Processes
    BY <1>0, FreshType DEF Processes
  <2>. HIDE DEF child
  <2>4. z \in Places
    OBVIOUS
  <2>. HIDE DEF z, Places
  <2>5. /\ [child EXCEPT !.pc = "wait", !.parent = p] \in Processes
        /\ [child EXCEPT !.bg = TRUE, !.parent = q, !.pc = z] \in Processes
    <3>1. [child EXCEPT !.pc = "wait", !.parent = p] \in Processes
      <4>1. "wait" \in Places
        BY DEF Places
      <4>. QED  BY <2>3, <4>1 DEF Processes
    <3>2. [child EXCEPT !.bg = TRUE, !.parent = q, !.pc = z] \in Processes
      BY <2>2, <2>3, <2>4 DEF Processes
    <3>. QED  BY <3>1, <3>2
  <2>6. proc' \in [Procs -> Processes]
    BY <2>1, <2>2, <2>5 DEF TypeOK, child, z
  <2>7. conn' \in [Conns -> Connections]
    <3>1. {q, r} \in SUBSET (Procs \cup {JobOf(a) : a \in Procs})
      BY <2>2
    <3>. QED  BY <2>1, <3>1, HoldersType
  <2>. QED  BY <1>9, <2>6, <2>7, SameServerType DEF Background
<1>10. CASE BackgroundFails(p)
  <2>1. PICK q \in Spares :
           /\ proc' = [proc EXCEPT ![q] = [Fresh EXCEPT !.parent = p,
                         !.keepalive = proc[p].keepalive, !.sd = proc[p].sd]]
           /\ conn' = [c \in Conns |-> [conn[c] EXCEPT !.holders =
                  IF p \in conn[c].holders THEN conn[c].holders \cup {q}
                  ELSE conn[c].holders]]
    BY <1>10 DEF BackgroundFails
  <2>2. q \in Procs
    BY DEF Procs
  <2>. HIDE DEF Places
  <2>3. [Fresh EXCEPT !.parent = p, !.keepalive = proc[p].keepalive,
                      !.sd = proc[p].sd] \in Processes
    BY <1>0, FreshType DEF Processes
  <2>4. proc' \in [Procs -> Processes]
    BY <2>1, <2>3 DEF TypeOK
  <2>5. conn' \in [Conns -> Connections]
    BY <2>1, <2>2, HoldersType
  <2>. QED  BY <1>10, <2>4, <2>5, SameServerType DEF BackgroundFails
<1>. QED
  BY <1>1, <1>2, <1>3, <1>4, <1>5, <1>6, <1>7, <1>8, <1>9, <1>10 DEF Command

LEMMA StepType == ASSUME TypeOK, NEW p \in Procs, Step(p) PROVE TypeOK'
<1>. USE DEF Places
<1>0. proc[p] \in Processes
  BY DEF TypeOK
<1>. DEFINE done == IF proc[p].bg THEN "bgdone" ELSE "prompt"
<1>a. done \in Places
  OBVIOUS
<1>1. CASE BgConnect(p)
  <2>1. PICK c \in Conns \cup {NoConn} :
          proc' = [proc EXCEPT ![p].sd = c, ![p].pc = "send"]
    BY <1>1 DEF BgConnect
  <2>a. [proc[p] EXCEPT !.sd = c, !.pc = "send"] \in Processes
    BY <1>0 DEF Processes
  <2>2. proc' \in [Procs -> Processes]
    BY <2>1, <2>a DEF TypeOK
  <2>. QED  BY <1>1, <2>2, ConnectType, SameServerType DEF BgConnect, TypeOK
<1>b. ASSUME NEW place \in {"eol", "recv"}, Goes(p, place), UNCHANGED serverVars,
             Nowhere(p) \/ \E pieces \in Seq(Pieces) : Puts(p, pieces)
      PROVE  TypeOK'
  BY <1>b, GoesType, PutsType, NowhereType, SameServerType
<1>c. ASSUME Killed(p), UNCHANGED serverVars
      PROVE  TypeOK'
  BY <1>c, EndType, SameServerType DEF Killed
<1>2. ASSUME NEW text \in {"line", "quit"}, SendText(p, text)
      PROVE  TypeOK'
  <2>. DEFINE m == Piece(p, proc[p].no + 1, text)
  <2>1. CASE /\ Puts(p, <<m>>)
             /\ proc' = [proc EXCEPT ![p].pc = "eol", ![p].no = @ + 1]
    <3>1. m \in Pieces
      BY <1>0 DEF Piece, Pieces, Processes
    <3>. HIDE DEF m
    <3>2. <<m>> \in Seq(Pieces)
      BY <3>1
    <3>3. "eol" \in Places /\ proc[p].no + 1 \in Nat
      BY <1>0 DEF Processes
    <3>. HIDE DEF Places
    <3>4. [proc[p] EXCEPT !.pc = "eol", !.no = proc[p].no + 1] \in Processes
      BY <1>0, <3>3 DEF Processes
    <3>5. proc' \in [Procs -> Processes]
      BY <2>1, <3>4 DEF TypeOK
    <3>. QED  BY <1>2, <2>1, <3>2, <3>5, PutsType, SameServerType DEF SendText
  <2>. QED  BY <1>2, <1>b, <1>c, <2>1 DEF SendText
<1>12. CASE SendEnd(p)
  <2>. DEFINE m == Piece(p, proc[p].no, "eol")
  <2>1. m \in Pieces
    BY <1>0 DEF Piece, Pieces, Processes
  <2>2. SendEnd(p) => \/ Puts(p, <<m>>) /\ Goes(p, "recv")
                      \/ Nowhere(p) /\ Goes(p, "recv")
                      \/ Killed(p)
    BY DEF SendEnd
  <2>. HIDE DEF m
  <2>3. <<m>> \in Seq(Pieces)
    BY <2>1
  <2>. QED  BY <1>12, <1>b, <1>c, <2>2, <2>3 DEF SendEnd
<1>3. CASE Receive(p)
  <2>. DEFINE c == proc[p].sd
  <2>1. c \in Conns /\ conn[c] \in Connections
    BY <1>0, <1>3 DEF Processes, TypeOK, Receive
  <2>. HIDE DEF c
  <2>2. Tail(conn[c].answers) \in Seq(Pieces)
    BY <1>3, <2>1, HeadTailProperties DEF Receive, Connections, c
  <2>3. [conn[c] EXCEPT !.answers = Tail(conn[c].answers)] \in Connections
    BY <2>1, <2>2 DEF Connections
  <2>. QED  BY <1>3, <2>1, <2>3, SameServerType DEF Receive, TypeOK, c
<1>4. CASE Timeout(p)
  <2>1. CASE proc[p].bg \/ proc[p].keepalive
    <3>1. Goes(p, done) /\ UNCHANGED conn
      BY <1>4, <2>1 DEF Timeout
    <3>. QED  BY <1>4, <1>a, <3>1, GoesType, SameServerType DEF Timeout, TypeOK
  <2>2. CASE ~(proc[p].bg \/ proc[p].keepalive)
    <3>1. [proc[p] EXCEPT !.pc = "prompt", !.sd = NoConn] \in Processes
      BY <1>0 DEF Processes
    <3>2. proc' \in [Procs -> Processes]
      BY <1>4, <2>2, <3>1 DEF Timeout, TypeOK
    <3>. QED  BY <1>4, <2>2, <3>2, ClosePortType, SameServerType DEF Timeout
  <2>. QED  BY <2>1, <2>2
<1>5. CASE StreamEnds(p)
  <2>1. CASE proc[p].bg
    <3>1. [proc[p] EXCEPT !.sd = NoConn] \in Processes
      BY <1>0 DEF Processes
    <3>2. proc' \in [Procs -> Processes]
      BY <1>5, <2>1, <3>1 DEF StreamEnds, TypeOK
    <3>. QED  BY <1>5, <2>1, <3>2, ClosePortType, SameServerType DEF StreamEnds
  <2>2. CASE ~proc[p].bg
    <3>1. \A q \in Procs : Ended(q, p) \in Processes
      BY EndedType
    <3>2. \A d \in Conns : /\ LeftBy(conn[d], p) \in Connections
                           /\ Shut(conn[d], p) \in Connections
      BY LeftByType, ShutType DEF TypeOK
    <3>. QED  BY <1>5, <2>2, <3>1, <3>2, SameServerType DEF StreamEnds
  <2>. QED  BY <2>1, <2>2
<1>6. CASE ReceiveFails(p)
  <2>1. [proc[p] EXCEPT !.sd = NoConn, !.pc = done] \in Processes
    BY <1>0, <1>a DEF Processes
  <2>2. proc' \in [Procs -> Processes]
    BY <1>6, <2>1 DEF ReceiveFails, TypeOK
  <2>. QED  BY <1>6, <2>2, ClosePortType, SameServerType DEF ReceiveFails
<1>7. CASE BgDone(p)
  <2>1. [proc[p] EXCEPT !.pc = "prompt", !.bg = FALSE] \in Processes
    BY <1>0 DEF Processes
  <2>. QED  BY <1>7, <2>1, EndType, SameServerType DEF BgDone, TypeOK
<1>8. CASE Waited(p)
  <2>1. PICK r \in Procs :
          proc' = [proc EXCEPT ![r].pc = "none", ![r].parent = NoProc,
                     ![p].pc = "prompt", ![p].disp = "reap", ![p].pending = FALSE]
    BY <1>8 DEF Waited
  <2>2. ASSUME NEW x \in Processes
        PROVE  /\ [x EXCEPT !.pc = "none", !.parent = NoProc] \in Processes
               /\ [x EXCEPT !.pc = "prompt", !.disp = "reap",
                            !.pending = FALSE] \in Processes
    <3>1. "none" \in Places /\ "prompt" \in Places
      OBVIOUS
    <3>. HIDE DEF Places
    <3>2. [x EXCEPT !.pc = "none", !.parent = NoProc] \in Processes
      BY <3>1 DEF Processes
    <3>3. [x EXCEPT !.pc = "prompt", !.disp = "reap", !.pending = FALSE] \in Processes
      BY <3>1 DEF Processes
    <3>. QED  BY <3>2, <3>3
  <2>. DEFINE f == [proc EXCEPT ![r].pc = "none", ![r].parent = NoProc]
  <2>3. f \in [Procs -> Processes]
    BY <2>2 DEF TypeOK
  <2>4. proc' = [f EXCEPT ![p].pc = "prompt", ![p].disp = "reap", ![p].pending = FALSE]
    BY <2>1
  <2>. HIDE DEF f
  <2>5. proc' \in [Procs -> Processes]
    BY <2>2, <2>3, <2>4
  <2>. QED  BY <1>8, <2>5, SameServerType DEF Waited, TypeOK
<1>9. CASE TakeSignal(p)
  <2>1. PICK place \in Places :
          proc' = [proc EXCEPT ![p].pc = place, ![p].pending = FALSE,
                               ![p].handler = proc[p].disp = "reap"]
    <3>1. proc[p].pc \in Places
      BY <1>0 DEF Processes
    <3>2. {proc[p].pc} \cup (IF Silent(p) THEN {"fail"} ELSE {}) \subseteq Places
      BY <3>1 DEF Places
    <3>. QED  BY <1>9, <3>2 DEF TakeSignal
  <2>2. \A h \in BOOLEAN :
          [proc[p] EXCEPT !.pc = place, !.pending = FALSE, !.handler = h] \in Processes
    BY <1>0 DEF Processes
  <2>3. (proc[p].disp = "reap") \in BOOLEAN
    OBVIOUS
  <2>4. proc' \in [Procs -> Processes]
    BY <2>1, <2>2, <2>3 DEF TypeOK
  <2>. QED  BY <1>9, <2>4, SameServerType DEF TakeSignal, TypeOK
<1>10. CASE Reap(p)
  <2>1. ASSUME NEW x \in Processes
        PROVE  /\ [x EXCEPT !.pc = "none", !.parent = NoProc] \in Processes
               /\ [x EXCEPT !.job = IF x.job = "done" THEN "none" ELSE x.job] \in Processes
    <3>1. (IF x.job = "done" THEN "none" ELSE x.job) \in {"none", "running", "done", "orphan"}
      BY DEF Processes
    <3>. QED  BY <3>1 DEF Processes
  <2>2. ASSUME NEW q \in Procs
        PROVE  (CASE q = p -> [proc[p] EXCEPT !.job = IF @ = "done" THEN "none" ELSE @]
                  [] q # p /\ Child(q, p) /\ proc[q].pc = "zombie" ->
                       [proc[q] EXCEPT !.pc = "none", !.parent = NoProc]
                  [] OTHER -> proc[q]) \in Processes
    BY <2>1 DEF TypeOK
  <2>3. proc' \in [Procs -> Processes]
    BY <1>10, <2>2 DEF Reap
  <2>. QED  BY <1>10, <2>3, SameServerType DEF Reap, TypeOK
<1>11. CASE HandlerReturns(p)
  <2>1. [proc[p] EXCEPT !.handler = FALSE] \in Processes
    BY <1>0 DEF Processes
  <2>. QED  BY <1>11, <2>1, SameServerType DEF HandlerReturns, TypeOK
<1>. QED
  BY <1>1, <1>2, <1>3, <1>4, <1>5, <1>6, <1>7, <1>8, <1>9, <1>10, <1>11, <1>12
     DEF Step

LEMMA NextType == ASSUME TypeOK, [Next]_vars PROVE TypeOK'
<1>1. ASSUME NEW p \in Procs, StartShell(p)
      PROVE  TypeOK'
  <2>1. [Fresh EXCEPT !.no = proc[p].no, !.job = proc[p].job] \in Processes
    BY FreshType DEF TypeOK, Processes
  <2>. QED  BY <1>1, <2>1, SameServerType DEF StartShell, TypeOK
<1>2. ASSUME NEW p \in Procs, RunEnds(p) \/ MoreEnds(p)
      PROVE  TypeOK'
  <2>0. proc[p] \in Processes /\ "prompt" \in Places
    BY DEF TypeOK, Places
  <2>1. /\ [proc[p] EXCEPT !.pc = "prompt", !.disp = "reap"] \in Processes
        /\ [proc[p] EXCEPT !.pc = "prompt"] \in Processes
    BY <2>0 DEF Processes
  <2>. QED  BY <1>2, <2>1, SameServerType DEF RunEnds, MoreEnds, Goes, TypeOK
<1>3. ASSUME NEW p \in Procs, JobEnds(p)
      PROVE  TypeOK'
  <2>1. /\ [proc[p] EXCEPT !.job = "done", !.pending = TRUE] \in Processes
        /\ [proc[p] EXCEPT !.job = "none"] \in Processes
    BY DEF TypeOK, Processes
  <2>2. proc' \in [Procs -> Processes]
    BY <1>3, <2>1 DEF JobEnds, TypeOK
  <2>3. \A c \in Conns : LeftBy(conn[c], JobOf(p)) \in Connections
    BY LeftByType DEF TypeOK
  <2>4. conn' \in [Conns -> Connections]
    BY <1>3, <2>3 DEF JobEnds
  <2>. QED  BY <1>3, <2>2, <2>4, SameServerType DEF JobEnds
<1>4. CASE UNCHANGED vars
  BY <1>4 DEF TypeOK, vars
<1>. QED
  BY <1>1, <1>2, <1>3, <1>4, ServerType, CommandType, StepType DEF Next

LEMMA InitType == Init => TypeOK
<1>1. <<>> \in Seq(Conns) /\ Len(<<>>) = 0
  OBVIOUS
<1>2. [Fresh EXCEPT !.pc = "spare"] \in Processes
  BY FreshType DEF Processes, Places
<1>. QED
  BY <1>1, <1>2, FreshType, FreeType, ServerConstantsOK
     DEF Init, ServerInit, TypeOK, ServerConstantsOK

(* Every variable keeps its type, and the queue its bound.                 *)
THEOREM TypeCorrect == Spec => []TypeOK
BY InitType, NextType, PTL DEF Spec

-----------------------------------------------------------------------------
(* The server's end of the connections.                                    *)

LEMMA SettleSrv ==
  ASSUME NEW r \in Connections
  PROVE  Settle(r).srv = "open" <=> r.srv = "open"
BY DEF Settle, Free

LEMMA ShutSrv ==
  ASSUME NEW r \in Connections, NEW p
  PROVE  Shut(r, p).srv = "open" <=> r.srv = "open"
<1>. DEFINE t == IF r.sock # "open" THEN r.sock
                 ELSE IF r.holders = {p} THEN Closed(r) ELSE "fin"
            s == [r EXCEPT !.holders = r.holders \ {p}, !.sock = t]
<1>1. s \in Connections /\ s.srv = r.srv
  BY DEF Connections, Closed, Ends
<1>. HIDE DEF s
<1>2. Settle(s).srv = "open" <=> s.srv = "open"
  BY <1>1, SettleSrv
<1>. QED  BY <1>1, <1>2 DEF Shut, s

LEMMA LeftBySrv ==
  ASSUME NEW r \in Connections, NEW p
  PROVE  LeftBy(r, p).srv = "open" <=> r.srv = "open"
<1>. DEFINE t == IF r.sock = "open" /\ r.holders = {p} THEN Closed(r) ELSE r.sock
            s == [r EXCEPT !.holders = r.holders \ {p}, !.sock = t]
<1>1. s \in Connections /\ s.srv = r.srv
  BY DEF Connections, Closed, Ends
<1>. HIDE DEF s
<1>2. Settle(s).srv = "open" <=> s.srv = "open"
  BY <1>1, SettleSrv
<1>. QED  BY <1>1, <1>2 DEF LeftBy, s

(* What a client does without connecting.                                  *)
SameLine ==
  /\ UNCHANGED serverVars
  /\ \A c \in Conns : conn'[c].srv = "open" <=> conn[c].srv = "open"

LEMMA ClosePortSrv ==
  ASSUME TypeOK, NEW p \in Procs, ClosePort(p)
  PROVE  \A c \in Conns : conn'[c].srv = "open" <=> conn[c].srv = "open"
BY ShutSrv DEF TypeOK, ClosePort

LEMMA EndSrv ==
  ASSUME TypeOK, NEW p \in Procs, End(p)
  PROVE  \A c \in Conns : conn'[c].srv = "open" <=> conn[c].srv = "open"
BY LeftBySrv DEF TypeOK, End

LEMMA ShareSrv ==
  ASSUME TypeOK, NEW p, NEW more,
         conn' = [c \in Conns |-> [conn[c] EXCEPT !.holders =
                    IF p \in conn[c].holders THEN conn[c].holders \cup more
                    ELSE conn[c].holders]]
  PROVE  \A c \in Conns : conn'[c].srv = "open" <=> conn[c].srv = "open"
BY DEF TypeOK, Connections

(* A client connects, or leaves the server's line as it is.                *)
LEMMA CommandSrv ==
  ASSUME TypeOK, NEW p \in Procs, Command(p)
  PROVE  SameLine \/ \E c \in Conns : Connect(c, p)
<1>1. CASE OneShot(p) \/ KeepAlive(p)
  BY <1>1 DEF OneShot, KeepAlive
<1>2. CASE KeptRequest(p) \/ RunIt(p) \/ More(p)
  BY <1>2 DEF KeptRequest, RunIt, More, SameLine
<1>3. CASE Refused(p) \/ Exit(p)
  BY <1>3, EndSrv DEF Refused, Exit, SameLine
<1>4. CASE CloseKept(p)
  BY <1>4, ClosePortSrv DEF CloseKept, SameLine
<1>5. CASE Job(p)
  BY <1>5, ShareSrv DEF Job, SameLine
<1>6. CASE Background(p)
  <2>1. PICK q \in Spares, r \in Spares :
          conn' = [c \in Conns |-> [conn[c] EXCEPT !.holders =
                     IF p \in conn[c].holders THEN conn[c].holders \cup {q, r}
                     ELSE conn[c].holders]]
    BY <1>6 DEF Background
  <2>2. \A c \in Conns : conn'[c].srv = "open" <=> conn[c].srv = "open"
    BY <2>1, ShareSrv
  <2>. QED  BY <1>6, <2>2 DEF Background, SameLine
<1>7. CASE BackgroundFails(p)
  <2>1. PICK q \in Spares :
          conn' = [c \in Conns |-> [conn[c] EXCEPT !.holders =
                     IF p \in conn[c].holders THEN conn[c].holders \cup {q}
                     ELSE conn[c].holders]]
    BY <1>7 DEF BackgroundFails
  <2>2. \A c \in Conns : conn'[c].srv = "open" <=> conn[c].srv = "open"
    BY <2>1, ShareSrv
  <2>. QED  BY <1>7, <2>2 DEF BackgroundFails, SameLine
<1>. QED  BY <1>1, <1>2, <1>3, <1>4, <1>5, <1>6, <1>7 DEF Command

LEMMA StepSrv ==
  ASSUME TypeOK, NEW p \in Procs, Step(p)
  PROVE  SameLine \/ \E c \in Conns : Connect(c, p)
<1>1. CASE BgConnect(p)
  BY <1>1 DEF BgConnect, SameLine
<1>2. ASSUME SendEnd(p) \/ \E text \in {"line", "quit"} : SendText(p, text)
      PROVE  SameLine
  <2>1. CASE End(p)
    BY <1>2, <2>1, EndSrv DEF SendText, SendEnd, SameLine
  <2>2. ASSUME Nowhere(p) \/ \E pieces : Puts(p, pieces)
        PROVE  \A c \in Conns : conn'[c].srv = "open" <=> conn[c].srv = "open"
    <3>1. CASE Nowhere(p)
      BY <3>1 DEF Nowhere, TypeOK, Connections
    <3>2. CASE \E pieces : Puts(p, pieces)
      BY <3>2 DEF Puts, TypeOK, Connections
    <3>. QED  BY <2>2, <3>1, <3>2
  <2>. QED  BY <1>2, <2>1, <2>2 DEF SendText, SendEnd, Killed, SameLine
<1>3. CASE Receive(p)
  BY <1>3 DEF Receive, SameLine, TypeOK, Connections
<1>4. CASE Timeout(p) \/ ReceiveFails(p)
  BY <1>4, ClosePortSrv DEF Timeout, ReceiveFails, SameLine
<1>5. CASE StreamEnds(p)
  BY <1>5, ClosePortSrv, ShutSrv, LeftBySrv DEF StreamEnds, SameLine, TypeOK
<1>6. CASE BgDone(p)
  <2>1. CASE UNCHANGED conn
    BY <1>6, <2>1 DEF BgDone, SameLine
  <2>2. CASE End(p)
    BY <1>6, <2>2, EndSrv DEF BgDone, SameLine
  <2>. QED  BY <1>6, <2>1, <2>2 DEF BgDone
<1>7. CASE Waited(p) \/ TakeSignal(p) \/ Reap(p) \/ HandlerReturns(p)
  BY <1>7 DEF Waited, TakeSignal, Reap, HandlerReturns, SameLine
<1>. QED
  BY <1>1, <1>2, <1>3, <1>4, <1>5, <1>6, <1>7 DEF Step

LEMMA ClientSrv ==
  ASSUME TypeOK, NEW p \in Procs,
         \/ StartShell(p) \/ Command(p) \/ Step(p)
         \/ RunEnds(p) \/ MoreEnds(p) \/ JobEnds(p)
  PROVE  SameLine \/ \E c \in Conns : Connect(c, p)
<1>1. CASE StartShell(p) \/ RunEnds(p) \/ MoreEnds(p)
  BY <1>1 DEF StartShell, RunEnds, MoreEnds, SameLine
<1>2. CASE JobEnds(p)
  BY <1>2, LeftBySrv DEF JobEnds, SameLine, TypeOK
<1>. QED  BY <1>1, <1>2, CommandSrv, StepSrv

-----------------------------------------------------------------------------
(* The queue and the served connection, in the words of QueueLemmas.       *)
LEMMA InLine ==
  QueuedOrServed <=>
    /\ \A c \in Conns : conn[c].srv = "open" <=> Among(queue, c) \/ served = c
    /\ Once(queue)
    /\ served # NoConn => ~Among(queue, served)
BY DEF QueuedOrServed, Queued, Among, Once

LEMMA ConnectInLine ==
  ASSUME TypeOK, QueuedOrServed, NEW c \in Conns, NEW p, Connect(c, p)
  PROVE  QueuedOrServed'
<1>1. ~Among(queue, c) /\ served # c
  BY InLine DEF Connect, Free
<1>2. /\ \A d : Among(queue', d) <=> Among(queue, d) \/ d = c
      /\ Once(queue')
  BY <1>1, InLine, Joined DEF Connect, TypeOK
<1>3. \A d \in Conns : conn'[d].srv = IF d = c THEN "open" ELSE conn[d].srv
  BY DEF Connect, Free, TypeOK
<1>4. served' = served
  BY DEF Connect
<1>5. QueuedOrServed' <=>
        /\ \A d \in Conns : conn'[d].srv = "open" <=> Among(queue', d) \/ served' = d
        /\ Once(queue')
        /\ served' # NoConn => ~Among(queue', served')
  BY DEF QueuedOrServed, Queued, Among, Once
<1>. QED  BY <1>1, <1>2, <1>3, <1>4, <1>5, InLine

LEMMA ServerInLine ==
  ASSUME TypeOK, QueuedOrServed, ServerNext /\ UNCHANGED proc
  PROVE  QueuedOrServed'
<1>0. QueuedOrServed' <=>
        /\ \A d \in Conns : conn'[d].srv = "open" <=> Among(queue', d) \/ served' = d
        /\ Once(queue')
        /\ served' # NoConn => ~Among(queue', served')
  BY DEF QueuedOrServed, Queued, Among, Once
<1>1. served # NoConn => served \in Conns
  BY DEF TypeOK
<1>2. CASE Accept
  <2>1. /\ Among(queue, Head(queue)) /\ Once(queue')
        /\ \A d : Among(queue', d) <=> Among(queue, d) /\ d # Head(queue)
    BY <1>2, InLine, Left DEF Accept, TypeOK
  <2>2. served' = Head(queue) /\ conn' = conn /\ served = NoConn
    BY <1>2 DEF Accept
  <2>. QED  BY <1>0, <2>1, <2>2, InLine, ServerConstantsOK DEF ServerConstantsOK
<1>3. ASSUME UNCHANGED serverVars,
             \A d \in Conns : conn'[d].srv = conn[d].srv
      PROVE  QueuedOrServed'
  <2>1. queue' = queue /\ served' = served
    BY <1>3 DEF serverVars
  <2>. QED  BY <1>0, <1>3, <2>1, InLine
<1>7. CASE Answer
  <2>1. \A d \in Conns : conn'[d].srv = conn[d].srv
    BY <1>7 DEF Answer, TypeOK, Connections
  <2>. QED  BY <1>3, <1>7, <2>1 DEF Answer
<1>8. CASE AnswerGone /\ ~Die
  <2>1. PICK n \in DOMAIN conn[served].inbox, how \in {conn[served].sock, "rst"} :
          /\ conn' = [conn EXCEPT ![served].inbox = Rest(@, n), ![served].sock = how]
          /\ UNCHANGED serverVars
    BY <1>8 DEF AnswerGone
  <2>. DEFINE x == Rest(conn[served].inbox, n)
  <2>2. conn' = [conn EXCEPT ![served] = [@ EXCEPT !.inbox = x, !.sock = how]]
    BY <2>1
  <2>. HIDE DEF x
  <2>3. \A d \in Conns : conn'[d].srv = conn[d].srv
    BY <2>2 DEF TypeOK, Connections
  <2>. QED  BY <1>3, <2>1, <2>3
<1>4. CASE Die
  <2>1. ASSUME NEW d \in Conns
        PROVE  conn'[d].srv # "open"
    <3>1. CASE conn[d].srv # "open"
      BY <1>4, <3>1 DEF Die
    <3>2. CASE conn[d].srv = "open"
      <4>. DEFINE x == IF d = served /\ conn[d].inbox = <<>> THEN "fin" ELSE "rst"
                  s == [conn[d] EXCEPT !.inbox = <<>>, !.srv = x]
      <4>1. conn'[d] = Settle(s)
        BY <1>4, <3>2 DEF Die
      <4>2. s.srv = x /\ x # "open"
        BY DEF TypeOK, Connections
      <4>. HIDE DEF s, x
      <4>. QED  BY <4>1, <4>2 DEF Settle, Free
    <3>. QED  BY <3>1, <3>2
  <2>2. queue' = <<>> /\ served' = NoConn
    BY <1>4 DEF Die
  <2>3. Once(queue') /\ \A d : ~Among(queue', d)
    BY <2>2 DEF Once, Among
  <2>. QED  BY <1>0, <2>1, <2>2, <2>3, ServerConstantsOK DEF ServerConstantsOK
<1>5. ASSUME NEW how \in {"fin", "rst"}, Release(how), served # NoConn
      PROVE  QueuedOrServed'
  <2>. DEFINE s == [conn[served] EXCEPT !.srv = how, !.inbox = <<>>]
  <2>1. conn'[served] = Settle(s) /\ \A d \in Conns \ {served} : conn'[d] = conn[d]
    BY <1>1, <1>5 DEF Release, TypeOK
  <2>2. s.srv \in {"fin", "rst"}
    BY <1>1, <1>5 DEF TypeOK, Connections
  <2>. HIDE DEF s
  <2>3. conn'[served].srv # "open"
    BY <2>1, <2>2 DEF Settle, Free
  <2>4. queue' = queue /\ served' = NoConn
    BY <1>5 DEF Release
  <2>. QED
    BY <1>0, <1>1, <1>5, <2>1, <2>3, <2>4, InLine, ServerConstantsOK
       DEF ServerConstantsOK
<1>6. CASE Start
  <2>1. conn' = conn /\ queue' = queue /\ served' = served
    BY <1>6 DEF Start
  <2>. QED  BY <1>0, <2>1, InLine
<1>. QED
  BY <1>2, <1>4, <1>5, <1>6, <1>7, <1>8
     DEF ServerNext, Serve, AcceptFails, Quit, Eof, Broken, Serving

LEMMA InLineNext ==
  ASSUME TypeOK, QueuedOrServed, [Next]_vars
  PROVE  QueuedOrServed'
<1>1. CASE SameLine \/ UNCHANGED vars
  <2>1. queue' = queue /\ served' = served
    BY <1>1 DEF SameLine, serverVars, vars
  <2>2. \A c \in Conns : conn'[c].srv = "open" <=> conn[c].srv = "open"
    BY <1>1 DEF SameLine, vars
  <2>. QED  BY <2>1, <2>2 DEF QueuedOrServed, Queued
<1>. QED
  BY <1>1, ServerInLine, ClientSrv, ConnectInLine DEF Next

LEMMA InLineInit == Init => QueuedOrServed
BY ServerConstantsOK
   DEF Init, ServerInit, QueuedOrServed, Queued, Free, ServerConstantsOK

(* Nobody's connection is forgotten or accepted twice by the iterative     *)
(* server (iserv.cc:55-68), whatever the shells and their children do.     *)
THEOREM NobodyForgotten == Spec => []QueuedOrServed
BY InitType, NextType, InLineInit, InLineNext, PTL DEF Spec

-----------------------------------------------------------------------------
(* The holders of a connection: a set of living processes and of running   *)
(* local commands.                                                         *)
Living == {p \in Procs : Alive(p)}

Working == {p \in Procs : proc[p].job \in {"running", "orphan"}}

HeldBy(r, living, working) ==
  /\ r.sock = "open" => r.holders # {}
  /\ r.holders \cap Procs \subseteq living
  /\ \A p \in Procs : JobOf(p) \in r.holders => p \in working

(* An open end is somebody's, and no process uses a descriptor that is not *)
(* its own.                                                                *)
HeldOpen ==
  /\ \A c \in Conns : HeldBy(conn[c], Living, Working)
  /\ \A p \in Procs : proc[p].sd # NoConn => p \in conn[proc[p].sd].holders

LEMMA HeldOpenPartsNext ==
  HeldOpen' <=>
    /\ \A c \in Conns : HeldBy(conn'[c], Living', Working')
    /\ \A p \in Procs : proc'[p].sd # NoConn => p \in conn'[proc'[p].sd].holders
BY DEF HeldOpen

LEMMA SettleHolders ==
  ASSUME NEW r \in Connections, NEW a, NEW j, HeldBy(r, a, j)
  PROVE  HeldBy(Settle(r), a, j) /\ Settle(r).holders = r.holders
BY DEF HeldBy, Settle, Free, Connections

LEMMA ShutHolders ==
  ASSUME NEW r \in Connections, NEW a, NEW j, HeldBy(r, a, j), NEW p
  PROVE  HeldBy(Shut(r, p), a, j) /\ Shut(r, p).holders = r.holders \ {p}
<1>. DEFINE t == IF r.sock # "open" THEN r.sock
                 ELSE IF r.holders = {p} THEN Closed(r) ELSE "fin"
            s == [r EXCEPT !.holders = r.holders \ {p}, !.sock = t]
<1>1. s \in Connections /\ s.holders = r.holders \ {p} /\ s.sock # "open"
  BY DEF Connections, Closed, Ends
<1>. HIDE DEF s
<1>2. HeldBy(s, a, j)
  BY <1>1 DEF HeldBy
<1>. QED  BY <1>1, <1>2, SettleHolders DEF Shut, s

LEMMA LeftByHolders ==
  ASSUME NEW r \in Connections, NEW a, NEW j, HeldBy(r, a, j), NEW p
  PROVE  HeldBy(LeftBy(r, p), a, j) /\ LeftBy(r, p).holders = r.holders \ {p}
<1>. DEFINE t == IF r.sock = "open" /\ r.holders = {p} THEN Closed(r) ELSE r.sock
            s == [r EXCEPT !.holders = r.holders \ {p}, !.sock = t]
<1>1. /\ s \in Connections /\ s.holders = r.holders \ {p}
      /\ s.sock = "open" => r.sock = "open" /\ r.holders # {p}
  BY DEF Connections, Closed, Ends
<1>. HIDE DEF s
<1>2. HeldBy(s, a, j)
  BY <1>1 DEF HeldBy
<1>3. CASE p \in r.holders
  BY <1>1, <1>2, <1>3, SettleHolders DEF LeftBy, s
<1>4. CASE p \notin r.holders
  BY <1>4 DEF LeftBy
<1>. QED  BY <1>3, <1>4

(* Who ends is held by nothing, and does not keep a connection held.       *)
LEMMA HeldLess ==
  ASSUME NEW r, NEW a, NEW j, NEW b, NEW k, HeldBy(r, a, j),
         \A p \in r.holders : p \in a => p \in b,
         \A p \in Procs : JobOf(p) \in r.holders /\ p \in j => p \in k
  PROVE  HeldBy(r, b, k)
BY DEF HeldBy

(* A step that leaves the holders and the clients' ends as they are.       *)
LEMMA SameHolders ==
  ASSUME TypeOK, HeldOpen,
         \A c \in Conns : /\ conn'[c].holders = conn[c].holders
                          /\ conn'[c].sock = conn[c].sock,
         Living \subseteq Living', Working \subseteq Working',
         \A p \in Procs : proc'[p].sd \in {proc[p].sd, NoConn}
  PROVE  HeldOpen'
<1>1. \A c \in Conns : HeldBy(conn'[c], Living', Working')
  BY DEF HeldOpen, HeldBy
<1>2. \A p \in Procs : proc[p].sd \in Conns \cup {NoConn}
  BY DEF TypeOK, Processes
<1>3. \A p \in Procs : proc'[p].sd # NoConn => p \in conn'[proc'[p].sd].holders
  BY <1>2 DEF HeldOpen
<1>. QED  BY <1>1, <1>3, HeldOpenPartsNext

(* A step in which p gives up descriptors.                                 *)
LEMMA FewerHolders ==
  ASSUME TypeOK, HeldOpen, NEW p \in Procs,
         \A c \in Conns : /\ HeldBy(conn'[c], Living, Working)
                          /\ \/ conn'[c].holders = conn[c].holders \ {p}
                             \/ conn'[c].holders = conn[c].holders /\ p \in Living',
         Living \ {p} \subseteq Living', Working \subseteq Working',
         proc'[p].sd = NoConn,
         \A q \in Procs : q # p => proc'[q].sd = proc[q].sd
  PROVE  HeldOpen'
<1>1. ASSUME NEW c \in Conns
      PROVE  HeldBy(conn'[c], Living', Working')
  <2>1. \A q \in conn'[c].holders : q \in Living => q \in Living'
    OBVIOUS
  <2>. QED  BY <2>1, HeldLess
<1>2. \A q \in Procs : proc[q].sd \in Conns \cup {NoConn}
  BY DEF TypeOK, Processes
<1>3. \A q \in Procs : proc'[q].sd # NoConn => q \in conn'[proc'[q].sd].holders
  BY <1>2 DEF HeldOpen
<1>. QED  BY <1>1, <1>3, HeldOpenPartsNext

(* What the end of p is to the other processes.                            *)
LEMMA EndedOthers ==
  ASSUME TypeOK, NEW p \in Procs, proc' = [q \in Procs |-> Ended(q, p)]
  PROVE  /\ Living \ {p} \subseteq Living' /\ Working \subseteq Working'
         /\ proc'[p].sd = NoConn
         /\ \A q \in Procs : q # p => proc'[q].sd = proc[q].sd
<1>1. /\ proc[p] \in Processes
      /\ proc'[p].sd = NoConn
      /\ proc[p].job \in {"running", "orphan"} => proc'[p].job = "orphan"
  BY DEF Ended, Fresh, TypeOK
<1>2. ASSUME NEW q \in Procs, q # p
      PROVE  /\ proc'[q].sd = proc[q].sd /\ proc'[q].job = proc[q].job
             /\ \/ proc'[q].pc = proc[q].pc
                \/ proc[q].pc = "zombie"
  <2>1. proc[q] \in Processes /\ proc'[q] = Ended(q, p)
    BY DEF TypeOK
  <2>. QED  BY <1>2, <2>1 DEF Ended, Processes
<1>. QED  BY <1>1, <1>2 DEF Living, Working, Alive

LEMMA EndHolders ==
  ASSUME TypeOK, HeldOpen, NEW p \in Procs, End(p)
  PROVE  HeldOpen'
<1>1. \A c \in Conns : /\ HeldBy(conn'[c], Living, Working)
                       /\ conn'[c].holders = conn[c].holders \ {p}
  BY LeftByHolders DEF HeldOpen, End, TypeOK
<1>2. proc' = [q \in Procs |-> Ended(q, p)]
  BY DEF End
<1>. QED  BY <1>1, <1>2, EndedOthers, FewerHolders

LEMMA ClosePortHolders ==
  ASSUME TypeOK, HeldOpen, NEW p \in Procs, ClosePort(p),
         NEW r, proc' = [proc EXCEPT ![p] = r], r.sd = NoConn,
         r.pc \notin {"spare", "none", "zombie"}, r.job = proc[p].job
  PROVE  HeldOpen'
<1>1. \A c \in Conns :
         /\ HeldBy(conn'[c], Living, Working)
         /\ conn'[c].holders \in {conn[c].holders, conn[c].holders \ {p}}
  BY ShutHolders DEF HeldOpen, ClosePort, TypeOK
<1>2. /\ proc'[p] = r
      /\ \A q \in Procs : q # p => proc'[q] = proc[q]
  BY DEF TypeOK
<1>3. Living \subseteq Living' /\ p \in Living' /\ Working \subseteq Working'
  BY <1>2 DEF Living, Working, Alive
<1>. QED  BY <1>1, <1>2, <1>3, FewerHolders

(* A new connection is nobody's before.                                    *)
LEMMA ConnectHolders ==
  ASSUME TypeOK, HeldOpen, NEW c \in Conns, NEW p \in Procs, Connect(c, p),
         NEW r, proc' = [proc EXCEPT ![p] = r], r.sd = c,
         r.pc \notin {"spare", "none", "zombie"}, r.job = proc[p].job
  PROVE  HeldOpen'
<1>1. /\ proc'[p] = r
      /\ \A q \in Procs : q # p => proc'[q] = proc[q]
  BY DEF TypeOK
<1>2. Living \subseteq Living' /\ p \in Living' /\ Working \subseteq Working'
  BY <1>1 DEF Living, Working, Alive
<1>3. /\ conn[c].holders = {}
      /\ conn'[c].holders = {p} /\ conn'[c].sock = "open"
      /\ \A d \in Conns : d # c => conn'[d] = conn[d]
  BY DEF Connect, Free, TypeOK
<1>4. HeldBy(conn'[c], Living', Working')
  <2>1. \A q \in Procs : JobOf(q) # p
    BY ShellConstantsOK DEF ShellConstantsOK
  <2>. QED  BY <1>2, <1>3, <2>1 DEF HeldBy
<1>5. \A d \in Conns : HeldBy(conn'[d], Living', Working')
  BY <1>2, <1>3, <1>4 DEF HeldOpen, HeldBy
<1>6. \A q \in Procs : proc[q].sd \in Conns \cup {NoConn}
  BY DEF TypeOK, Processes
<1>7. \A q \in Procs : proc'[q].sd # NoConn => q \in conn'[proc'[q].sd].holders
  BY <1>1, <1>3, <1>6 DEF HeldOpen
<1>. QED  BY <1>5, <1>7, HeldOpenPartsNext

LEMMA ServerHolders ==
  ASSUME TypeOK, HeldOpen, ServerNext /\ UNCHANGED proc
  PROVE  HeldOpen'
<1>1. ASSUME NEW c \in Conns
      PROVE  HeldBy(conn'[c], Living, Working) /\ conn'[c].holders = conn[c].holders
  <2>0. HeldBy(conn[c], Living, Working) /\ conn[c] \in Connections
    BY DEF HeldOpen, TypeOK
  <2>a. ASSUME NEW s \in Ends
        PROVE  LET r == Settle([conn[c] EXCEPT !.inbox = <<>>, !.srv = s])
               IN HeldBy(r, Living, Working) /\ r.holders = conn[c].holders
    <3>. DEFINE r == [conn[c] EXCEPT !.inbox = <<>>, !.srv = s]
    <3>0. <<>> \in Seq(Pieces)
      OBVIOUS
    <3>1. r \in Connections /\ r.sock = conn[c].sock /\ r.holders = conn[c].holders
      BY <2>0, <2>a, <3>0 DEF Connections
    <3>2. HeldBy(r, Living, Working)
      BY <2>0, <3>1 DEF HeldBy
    <3>. HIDE DEF r
    <3>3. HeldBy(Settle(r), Living, Working) /\ Settle(r).holders = r.holders
      BY <3>1, <3>2, SettleHolders
    <3>. QED  BY <3>1, <3>3 DEF r
  <2>1. CASE Accept \/ Start
    BY <2>0, <2>1 DEF Accept, Start
  <2>2. CASE Answer
    <3>1. conn'[c].sock = conn[c].sock /\ conn'[c].holders = conn[c].holders
      BY <2>0, <2>2 DEF Answer, TypeOK, Connections
    <3>. QED  BY <2>0, <3>1 DEF HeldBy
  <2>5. CASE AnswerGone /\ ~Die
    <3>1. PICK n \in DOMAIN conn[served].inbox, how \in {conn[served].sock, "rst"} :
            /\ conn[served].sock # "open"
            /\ conn' = [conn EXCEPT ![served].inbox = Rest(@, n), ![served].sock = how]
      BY <2>5 DEF AnswerGone
    <3>. DEFINE x == Rest(conn[served].inbox, n)
    <3>2. conn' = [conn EXCEPT ![served] = [@ EXCEPT !.inbox = x, !.sock = how]]
      BY <3>1
    <3>. HIDE DEF x
    <3>3. /\ conn'[c].holders = conn[c].holders
          /\ conn'[c].sock = conn[c].sock \/ conn'[c].sock # "open"
      BY <2>0, <3>1, <3>2 DEF TypeOK, Connections
    <3>. QED  BY <2>0, <3>3 DEF HeldBy
  <2>3. CASE Die
    <3>. DEFINE e == IF c = served /\ conn[c].inbox = <<>> THEN "fin" ELSE "rst"
    <3>1. e \in Ends
      BY DEF Ends
    <3>2. conn'[c] = IF conn[c].srv # "open" THEN conn[c]
                     ELSE Settle([conn[c] EXCEPT !.inbox = <<>>, !.srv = e])
      BY <2>3 DEF Die
    <3>. HIDE DEF e
    <3>. QED  BY <2>0, <2>a, <3>1, <3>2
  <2>4. ASSUME NEW how \in {"fin", "rst"}, Release(how)
        PROVE  /\ HeldBy(conn'[c], Living, Working)
               /\ conn'[c].holders = conn[c].holders
    <3>1. conn'[c] = IF c = served
                     THEN Settle([conn[c] EXCEPT !.srv = how, !.inbox = <<>>])
                     ELSE conn[c]
      BY <2>4 DEF Release, TypeOK
    <3>2. how \in Ends
      BY DEF Ends
    <3>3. [conn[c] EXCEPT !.srv = how, !.inbox = <<>>]
            = [conn[c] EXCEPT !.inbox = <<>>, !.srv = how]
      BY <2>0 DEF Connections
    <3>. QED  BY <2>0, <2>a, <3>1, <3>2, <3>3
  <2>. QED
    BY <2>1, <2>2, <2>3, <2>4, <2>5
       DEF ServerNext, Serve, AcceptFails, Quit, Eof, Broken
<1>2. proc' = proc /\ Living' = Living /\ Working' = Working
  BY DEF Living, Working, Alive
<1>3. \A p \in Procs : proc[p].sd \in Conns \cup {NoConn}
  BY DEF TypeOK, Processes
<1>4. \A p \in Procs : proc'[p].sd # NoConn => p \in conn'[proc'[p].sd].holders
  BY <1>1, <1>2, <1>3 DEF HeldOpen
<1>. QED  BY <1>1, <1>2, <1>4, HeldOpenPartsNext

(* One process goes on with its connection, and alive.                     *)
LEMMA GoesHolders ==
  ASSUME TypeOK, HeldOpen, NEW p \in Procs,
         \A c \in Conns : /\ conn'[c].holders = conn[c].holders
                          /\ conn'[c].sock = conn[c].sock,
         NEW r, proc' = [proc EXCEPT ![p] = r], r.sd \in {proc[p].sd, NoConn},
         Alive(p) => r.pc \notin {"spare", "none", "zombie"},
         proc[p].job \in {"running", "orphan"} => r.job = proc[p].job
  PROVE  HeldOpen'
<1>1. /\ proc'[p] = r
      /\ \A q \in Procs : q # p => proc'[q] = proc[q]
  BY DEF TypeOK
<1>2. Living \subseteq Living' /\ Working \subseteq Working'
  BY <1>1 DEF Living, Working, Alive
<1>. QED  BY <1>1, <1>2, SameHolders

LEMMA JobHolders ==
  ASSUME TypeOK, HeldOpen, NEW p \in Procs, Job(p)
  PROVE  HeldOpen'
<1>1. /\ proc'[p].job = "running" /\ proc'[p].pc = proc[p].pc
      /\ proc'[p].sd = proc[p].sd
      /\ \A q \in Procs : q # p => proc'[q] = proc[q]
  <2>1. proc[p] \in Processes
    BY DEF TypeOK
  <2>. QED  BY <2>1 DEF TypeOK, Processes, Job
<1>2. Living \subseteq Living' /\ Working \subseteq Working' /\ p \in Working'
  BY <1>1 DEF Living, Working, Alive
<1>3. ASSUME NEW c \in Conns
      PROVE  /\ HeldBy(conn'[c], Living', Working')
             /\ conn[c].holders \subseteq conn'[c].holders
  <2>1. /\ conn'[c].sock = conn[c].sock
        /\ conn'[c].holders = IF p \in conn[c].holders
                              THEN conn[c].holders \cup {JobOf(p)}
                              ELSE conn[c].holders
    BY DEF Job, TypeOK, Connections
  <2>2. JobOf(p) \notin Procs /\ \A q \in Procs : JobOf(q) = JobOf(p) => q = p
    BY ShellConstantsOK DEF ShellConstantsOK, JobOf
  <2>3. HeldBy(conn[c], Living, Working)
    BY DEF HeldOpen
  <2>. QED  BY <1>2, <2>1, <2>2, <2>3 DEF HeldBy
<1>4. \A q \in Procs : proc[q].sd \in Conns \cup {NoConn}
  BY DEF TypeOK, Processes
<1>5. \A q \in Procs : proc'[q].sd # NoConn => q \in conn'[proc'[q].sd].holders
  BY <1>1, <1>3, <1>4 DEF HeldOpen
<1>. QED  BY <1>3, <1>5, HeldOpenPartsNext

LEMMA JobEndsHolders ==
  ASSUME TypeOK, HeldOpen, NEW p \in Procs, JobEnds(p)
  PROVE  HeldOpen'
<1>1. /\ proc'[p].pc = proc[p].pc /\ proc'[p].sd = proc[p].sd
      /\ \A q \in Procs : q # p => proc'[q] = proc[q]
  <2>1. proc[p] \in Processes
    BY DEF TypeOK
  <2>. QED  BY <2>1 DEF TypeOK, Processes, JobEnds
<1>2. Living \subseteq Living' /\ Working \ {p} \subseteq Working'
  BY <1>1 DEF Living, Working, Alive
<1>3. ASSUME NEW c \in Conns
      PROVE  /\ HeldBy(conn'[c], Living', Working')
             /\ conn'[c].holders = conn[c].holders \ {JobOf(p)}
  <2>1. /\ HeldBy(conn'[c], Living, Working)
        /\ conn'[c].holders = conn[c].holders \ {JobOf(p)}
    BY LeftByHolders DEF HeldOpen, JobEnds, TypeOK
  <2>2. \A q \in Procs : JobOf(q) \in conn'[c].holders /\ q \in Working
                          => q \in Working'
    BY <1>2, <2>1
  <2>. QED  BY <1>2, <2>1, <2>2, HeldLess
<1>4. \A q \in Procs : proc[q].sd \in Conns \cup {NoConn}
  BY DEF TypeOK, Processes
<1>5. \A q \in Procs : q # JobOf(p)
  BY ShellConstantsOK DEF ShellConstantsOK
<1>6. \A q \in Procs : proc'[q].sd # NoConn => q \in conn'[proc'[q].sd].holders
  BY <1>1, <1>3, <1>4, <1>5 DEF HeldOpen
<1>. QED  BY <1>3, <1>6, HeldOpenPartsNext

(* A name not given to a process yet has no local command.                 *)
SparesIdle == \A p \in Procs : proc[p].pc = "spare" => proc[p].job = "none"

(* Steps that change the process p only, and do not make it a spare.       *)
LEMMA IdleOthers ==
  ASSUME TypeOK, SparesIdle, NEW p \in Procs,
         \A q \in Procs : q # p => /\ proc'[q].job = proc[q].job
                                   /\ proc'[q].pc = "spare" => proc[q].pc = "spare",
         proc'[p].pc = "spare" => proc'[p].job = "none"
  PROVE  SparesIdle'
<1>1. ASSUME NEW q \in Procs, proc'[q].pc = "spare"
      PROVE  proc'[q].job = "none"
  BY <1>1 DEF SparesIdle
<1>. QED  BY <1>1 DEF SparesIdle

LEMMA IdleAlone ==
  ASSUME TypeOK, SparesIdle, NEW p \in Procs, NEW r,
         proc' = [proc EXCEPT ![p] = r], r.pc = "spare" => r.job = "none"
  PROVE  SparesIdle'
BY DEF SparesIdle, TypeOK

LEMMA EndedIdle ==
  ASSUME TypeOK, SparesIdle, NEW p \in Procs, proc' = [q \in Procs |-> Ended(q, p)]
  PROVE  SparesIdle'
<1>1. proc[p] \in Processes /\ proc'[p].pc # "spare"
  BY DEF Ended, Fresh, TypeOK
<1>2. ASSUME NEW q \in Procs, q # p
      PROVE  /\ proc'[q].job = proc[q].job
             /\ proc'[q].pc = "spare" => proc[q].pc = "spare"
  <2>1. proc[q] \in Processes /\ proc'[q] = Ended(q, p)
    BY DEF TypeOK
  <2>. QED  BY <1>2, <2>1 DEF Ended, Processes
<1>. QED  BY <1>1, <1>2, IdleOthers

LEMMA BackgroundHolders ==
  ASSUME TypeOK, HeldOpen, SparesIdle, NEW p \in Procs, Background(p)
  PROVE  HeldOpen'
<1>. DEFINE child == [Fresh EXCEPT !.keepalive = proc[p].keepalive,
                        !.sd = proc[p].sd, !.disp = "block"]
            z == IF proc[p].keepalive THEN "send" ELSE "connect"
<1>1. PICK q \in Spares, r \in Spares :
        /\ q # r /\ proc[q].pc = "spare" /\ proc[r].pc = "spare"
        /\ proc' = [proc EXCEPT
             ![q] = [child EXCEPT !.pc = "wait", !.parent = p],
             ![r] = [child EXCEPT !.bg = TRUE, !.parent = q, !.pc = z]]
        /\ conn' = [c \in Conns |-> [conn[c] EXCEPT !.holders =
                     IF p \in conn[c].holders THEN conn[c].holders \cup {q, r}
                     ELSE conn[c].holders]]
  BY DEF Background
<1>2. q \in Procs /\ r \in Procs /\ p # q /\ p # r
  BY <1>1 DEF Procs, Background, At
<1>3. /\ proc'[q] = [child EXCEPT !.pc = "wait", !.parent = p]
      /\ proc'[r] = [child EXCEPT !.bg = TRUE, !.parent = q, !.pc = z]
      /\ \A x \in Procs : x # q /\ x # r => proc'[x] = proc[x]
  BY <1>1, <1>2 DEF TypeOK
<1>4. /\ proc'[q].pc = "wait" /\ proc'[q].sd = proc[p].sd
      /\ proc'[r].pc \in {"send", "connect"} /\ proc'[r].sd = proc[p].sd
  BY <1>3 DEF Fresh
<1>5. \A c \in Conns : q \notin conn[c].holders /\ r \notin conn[c].holders
  BY <1>1, <1>2 DEF HeldOpen, HeldBy, Living, Alive
<1>6. Living \subseteq Living' /\ q \in Living' /\ r \in Living'
  BY <1>1, <1>2, <1>3, <1>4 DEF Living, Alive
<1>7. ASSUME NEW c \in Conns
      PROVE  /\ HeldBy(conn'[c], Living', Working')
             /\ conn'[c].holders = IF p \in conn[c].holders
                                   THEN conn[c].holders \cup {q, r}
                                   ELSE conn[c].holders
  <2>1. /\ conn'[c].sock = conn[c].sock
        /\ conn'[c].holders = IF p \in conn[c].holders
                              THEN conn[c].holders \cup {q, r}
                              ELSE conn[c].holders
    BY <1>1 DEF TypeOK, Connections
  <2>2. HeldBy(conn[c], Living, Working)
    BY DEF HeldOpen
  <2>3. \A x \in Procs : JobOf(x) # q /\ JobOf(x) # r
    BY <1>2, ShellConstantsOK DEF ShellConstantsOK
  <2>4. Working \subseteq Working'
    BY <1>1, <1>2, <1>3 DEF Working, SparesIdle
  <2>. QED  BY <1>6, <2>1, <2>2, <2>3, <2>4 DEF HeldBy
<1>8. \A x \in Procs : proc[x].sd \in Conns \cup {NoConn}
  BY DEF TypeOK, Processes
<1>9. \A x \in Procs : proc'[x].sd # NoConn => x \in conn'[proc'[x].sd].holders
  <2>. SUFFICES ASSUME NEW x \in Procs, proc'[x].sd # NoConn
                PROVE  x \in conn'[proc'[x].sd].holders
    OBVIOUS
  <2>1. CASE x = q \/ x = r
    <3>1. proc'[x].sd = proc[p].sd /\ proc[p].sd \in Conns
      BY <1>4, <1>8, <2>1
    <3>. QED  BY <1>7, <2>1, <3>1 DEF HeldOpen
  <2>2. CASE x # q /\ x # r
    <3>1. proc'[x].sd = proc[x].sd /\ proc[x].sd \in Conns
      BY <1>3, <1>8, <2>2
    <3>. QED  BY <1>7, <3>1 DEF HeldOpen
  <2>. QED  BY <2>1, <2>2
<1>. QED  BY <1>7, <1>9, HeldOpenPartsNext

LEMMA BackgroundFailsHolders ==
  ASSUME TypeOK, HeldOpen, SparesIdle, NEW p \in Procs, BackgroundFails(p)
  PROVE  HeldOpen' /\ SparesIdle'
<1>. DEFINE child == [Fresh EXCEPT !.parent = p,
                        !.keepalive = proc[p].keepalive, !.sd = proc[p].sd]
<1>1. PICK q \in Spares :
        /\ proc[q].pc = "spare"
        /\ proc' = [proc EXCEPT ![q] = child]
        /\ conn' = [c \in Conns |-> [conn[c] EXCEPT !.holders =
                     IF p \in conn[c].holders THEN conn[c].holders \cup {q}
                     ELSE conn[c].holders]]
  BY DEF BackgroundFails
<1>2. q \in Procs /\ p # q
  BY <1>1 DEF Procs, BackgroundFails, At
<1>3. child.pc = "prompt" /\ child.sd = proc[p].sd
  BY DEF Fresh
<1>. HIDE DEF child
<1>4. /\ proc'[q].pc = "prompt" /\ proc'[q].sd = proc[p].sd
      /\ \A x \in Procs : x # q => proc'[x] = proc[x]
  BY <1>1, <1>2, <1>3 DEF TypeOK
<1>5. SparesIdle'
  BY <1>4 DEF SparesIdle
<1>6. Living \subseteq Living' /\ q \in Living' /\ Working \subseteq Working'
  BY <1>1, <1>2, <1>4 DEF Living, Alive, Working, SparesIdle
<1>7. ASSUME NEW c \in Conns
      PROVE  /\ HeldBy(conn'[c], Living', Working')
             /\ conn'[c].holders = IF p \in conn[c].holders
                                   THEN conn[c].holders \cup {q}
                                   ELSE conn[c].holders
  <2>1. /\ conn'[c].sock = conn[c].sock
        /\ conn'[c].holders = IF p \in conn[c].holders
                              THEN conn[c].holders \cup {q}
                              ELSE conn[c].holders
    BY <1>1 DEF TypeOK, Connections
  <2>2. HeldBy(conn[c], Living, Working)
    BY DEF HeldOpen
  <2>3. \A x \in Procs : JobOf(x) # q
    BY <1>2, ShellConstantsOK DEF ShellConstantsOK
  <2>. QED  BY <1>6, <2>1, <2>2, <2>3 DEF HeldBy
<1>8. \A x \in Procs : proc[x].sd \in Conns \cup {NoConn}
  BY DEF TypeOK, Processes
<1>9. \A x \in Procs : proc'[x].sd # NoConn => x \in conn'[proc'[x].sd].holders
  <2>. SUFFICES ASSUME NEW x \in Procs, proc'[x].sd # NoConn
                PROVE  x \in conn'[proc'[x].sd].holders
    OBVIOUS
  <2>1. CASE x = q
    <3>1. proc'[x].sd = proc[p].sd /\ proc[p].sd \in Conns
      BY <1>4, <1>8, <2>1
    <3>. QED  BY <1>7, <2>1, <3>1 DEF HeldOpen
  <2>2. CASE x # q
    <3>1. proc'[x].sd = proc[x].sd /\ proc[x].sd \in Conns
      BY <1>4, <1>8, <2>2
    <3>. QED  BY <1>7, <3>1 DEF HeldOpen
  <2>. QED  BY <2>1, <2>2
<1>. QED  BY <1>5, <1>7, <1>9, HeldOpenPartsNext

LEMMA CommandHolders ==
  ASSUME TypeOK, HeldOpen, SparesIdle, NEW p \in Procs, Command(p)
  PROVE  HeldOpen' /\ SparesIdle'
<1>0. proc[p] \in Processes
  BY DEF TypeOK
<1>1. CASE OneShot(p) \/ KeepAlive(p)
  <2>1. ASSUME NEW c \in Conns, Connect(c, p), NEW r,
               proc' = [proc EXCEPT ![p] = r],
               r.sd = c, r.pc \in {"send", "hello"}, r.job = proc[p].job
        PROVE  HeldOpen' /\ SparesIdle'
    BY <2>1, ConnectHolders, IdleAlone
  <2>2. CASE OneShot(p)
    <3>1. PICK c \in Conns : /\ Connect(c, p)
                             /\ proc' = [proc EXCEPT ![p].sd = c, ![p].pc = "send"]
      BY <2>2 DEF OneShot
    <3>. DEFINE r == [proc[p] EXCEPT !.sd = c, !.pc = "send"]
    <3>2. r.sd = c /\ r.pc = "send" /\ r.job = proc[p].job
      BY <1>0 DEF Processes
    <3>3. proc' = [proc EXCEPT ![p] = r]
      BY <3>1
    <3>. HIDE DEF r
    <3>. QED  BY <2>1, <3>1, <3>2, <3>3
  <2>3. CASE KeepAlive(p)
    <3>1. PICK c \in Conns : /\ Connect(c, p)
                             /\ proc' = [proc EXCEPT ![p].sd = c, ![p].pc = "hello",
                                                     ![p].keepalive = TRUE]
      BY <2>3 DEF KeepAlive
    <3>. DEFINE r == [proc[p] EXCEPT !.sd = c, !.pc = "hello", !.keepalive = TRUE]
    <3>2. r.sd = c /\ r.pc = "hello" /\ r.job = proc[p].job
      BY <1>0 DEF Processes
    <3>3. proc' = [proc EXCEPT ![p] = r]
      BY <3>1
    <3>. HIDE DEF r
    <3>. QED  BY <2>1, <3>1, <3>2, <3>3
  <2>. QED  BY <1>1, <2>2, <2>3
<1>2. CASE KeptRequest(p) \/ More(p)
  <2>1. PICK k \in {"send", "more"} : proc' = [proc EXCEPT ![p] = [@ EXCEPT !.pc = k]]
    BY <1>2 DEF KeptRequest, More, Goes
  <2>. DEFINE r == [proc[p] EXCEPT !.pc = k]
  <2>2. r.sd = proc[p].sd /\ r.pc = k /\ r.job = proc[p].job
    BY <1>0 DEF Processes
  <2>3. proc' = [proc EXCEPT ![p] = r] /\ conn' = conn
    BY <1>2, <2>1 DEF KeptRequest, More
  <2>. HIDE DEF r
  <2>. QED  BY <2>2, <2>3, GoesHolders, IdleAlone
<1>3. CASE RunIt(p)
  <2>. DEFINE r == [proc[p] EXCEPT !.pc = "run", !.disp = "block"]
  <2>1. r.sd = proc[p].sd /\ r.pc = "run" /\ r.job = proc[p].job
    BY <1>0 DEF Processes
  <2>2. proc' = [proc EXCEPT ![p] = r] /\ conn' = conn
    BY <1>3 DEF RunIt
  <2>. HIDE DEF r
  <2>. QED  BY <2>1, <2>2, GoesHolders, IdleAlone
<1>4. CASE Refused(p) \/ Exit(p)
  <2>1. End(p)
    BY <1>4 DEF Refused, Exit
  <2>. QED  BY <2>1, EndHolders, EndedIdle DEF End
<1>5. CASE CloseKept(p)
  <2>. DEFINE r == [proc[p] EXCEPT !.keepalive = FALSE, !.sd = NoConn]
  <2>1. r.sd = NoConn /\ r.pc = "prompt" /\ r.job = proc[p].job
    BY <1>0, <1>5 DEF Processes, CloseKept, At
  <2>2. proc' = [proc EXCEPT ![p] = r] /\ ClosePort(p)
    BY <1>5 DEF CloseKept
  <2>. HIDE DEF r
  <2>. QED  BY <2>1, <2>2, ClosePortHolders, IdleAlone
<1>6. CASE Job(p)
  <2>. DEFINE r == [proc[p] EXCEPT !.job = "running"]
  <2>1. r.pc = "prompt" /\ proc' = [proc EXCEPT ![p] = r]
    BY <1>0, <1>6 DEF Processes, Job, At
  <2>. HIDE DEF r
  <2>. QED  BY <1>6, <2>1, JobHolders, IdleAlone
<1>7. CASE Background(p)
  <2>. DEFINE child == [Fresh EXCEPT !.keepalive = proc[p].keepalive,
                          !.sd = proc[p].sd, !.disp = "block"]
              x == [child EXCEPT !.pc = "wait", !.parent = p]
              y(q) == [child EXCEPT !.bg = TRUE, !.parent = q,
                         !.pc = IF proc[p].keepalive THEN "send" ELSE "connect"]
  <2>1. PICK q \in Spares, r \in Spares : proc' = [proc EXCEPT ![q] = x, ![r] = y(q)]
    BY <1>7 DEF Background
  <2>2. q \in Procs /\ r \in Procs
    BY DEF Procs
  <2>3. x.pc # "spare" /\ y(q).pc # "spare"
    BY DEF Fresh
  <2>. HIDE DEF x, y
  <2>4. SparesIdle'
    BY <2>1, <2>2, <2>3 DEF SparesIdle, TypeOK
  <2>. QED  BY <1>7, <2>4, BackgroundHolders
<1>. QED
  BY <1>1, <1>2, <1>3, <1>4, <1>5, <1>6, <1>7, BackgroundFailsHolders DEF Command

LEMMA StepHolders ==
  ASSUME TypeOK, HeldOpen, SparesIdle, NEW p \in Procs, Step(p)
  PROVE  HeldOpen' /\ SparesIdle'
<1>0. proc[p] \in Processes
  BY DEF TypeOK
<1>a. ASSUME NEW r, proc' = [proc EXCEPT ![p] = r], ClosePort(p), r.sd = NoConn,
             r.pc \in {"prompt", "recv", "bgdone"}, r.job = proc[p].job
      PROVE  HeldOpen' /\ SparesIdle'
  BY <1>a, ClosePortHolders, IdleAlone
<1>b. ASSUME NEW r, proc' = [proc EXCEPT ![p] = r],
             \A c \in Conns : conn'[c].holders = conn[c].holders
                             /\ conn'[c].sock = conn[c].sock,
             r.sd \in {proc[p].sd, NoConn}, r.job = proc[p].job,
             Alive(p), r.pc \notin {"spare", "none", "zombie"}
      PROVE  HeldOpen' /\ SparesIdle'
  BY <1>b, GoesHolders, IdleAlone
<1>c. ASSUME End(p)
      PROVE  HeldOpen' /\ SparesIdle'
  BY <1>c, EndHolders, EndedIdle DEF End
<1>d. ASSUME NEW k \in {"prompt", "eol", "recv", "bgdone"}, Goes(p, k), Alive(p),
             \A c \in Conns : conn'[c].holders = conn[c].holders
                             /\ conn'[c].sock = conn[c].sock
      PROVE  HeldOpen' /\ SparesIdle'
  <2>. DEFINE r == [proc[p] EXCEPT !.pc = k]
  <2>1. proc' = [proc EXCEPT ![p] = r] /\ r.sd = proc[p].sd
        /\ r.job = proc[p].job /\ r.pc = k
    BY <1>0, <1>d DEF Goes, Processes
  <2>. HIDE DEF r
  <2>. QED  BY <1>b, <1>d, <2>1
<1>1. CASE BgConnect(p)
  <2>1. PICK c \in Conns \cup {NoConn} :
          /\ proc' = [proc EXCEPT ![p].sd = c, ![p].pc = "send"]
          /\ \/ c \in Conns /\ Connect(c, p)
             \/ c = NoConn /\ UNCHANGED conn
    BY <1>1 DEF BgConnect
  <2>. DEFINE r == [proc[p] EXCEPT !.sd = c, !.pc = "send"]
  <2>2. proc' = [proc EXCEPT ![p] = r] /\ r.sd = c
        /\ r.job = proc[p].job /\ r.pc = "send"
    BY <1>0, <2>1 DEF Processes
  <2>3. Alive(p)
    BY <1>1 DEF BgConnect, At, Alive
  <2>. HIDE DEF r
  <2>4. CASE c \in Conns /\ Connect(c, p)
    BY <2>2, <2>4, ConnectHolders, IdleAlone
  <2>5. CASE c = NoConn /\ UNCHANGED conn
    BY <1>b, <2>2, <2>3, <2>5
  <2>. QED  BY <2>1, <2>4, <2>5
<1>e. ASSUME Nowhere(p) \/ \E pieces : Puts(p, pieces)
      PROVE  \A d \in Conns : conn'[d].holders = conn[d].holders
                             /\ conn'[d].sock = conn[d].sock
  <2>1. CASE Nowhere(p)
    <3>1. CASE conn' = conn
      BY <3>1
    <3>2. ASSUME NEW e, conn' = [conn EXCEPT ![proc[p].sd] = [@ EXCEPT !.srv = e]]
          PROVE  \A d \in Conns : conn'[d].holders = conn[d].holders
                                 /\ conn'[d].sock = conn[d].sock
      BY <3>2 DEF TypeOK, Connections
    <3>. DEFINE e == IF conn[proc[p].sd].srv = "fin" THEN "rst"
                     ELSE conn[proc[p].sd].srv
    <3>3. conn' = conn \/ conn' = [conn EXCEPT ![proc[p].sd] = [@ EXCEPT !.srv = e]]
      BY <2>1 DEF Nowhere
    <3>. HIDE DEF e
    <3>. QED  BY <3>1, <3>2, <3>3
  <2>2. CASE \E pieces : Puts(p, pieces)
    BY <2>2 DEF Puts, TypeOK, Connections
  <2>. QED  BY <1>e, <2>1, <2>2
<1>2. ASSUME NEW text \in {"line", "quit"}, SendText(p, text)
      PROVE  HeldOpen' /\ SparesIdle'
  <2>. DEFINE m == Piece(p, proc[p].no + 1, text)
  <2>0. Alive(p)
    BY <1>2 DEF SendText, At, Alive
  <2>1. CASE Nowhere(p) /\ Goes(p, "eol")
    BY <1>d, <1>e, <2>0, <2>1
  <2>2. CASE Killed(p)
    BY <1>c, <2>2 DEF Killed
  <2>3. CASE /\ Puts(p, <<m>>)
             /\ proc' = [proc EXCEPT ![p].pc = "eol", ![p].no = @ + 1]
    <3>. DEFINE r == [proc[p] EXCEPT !.pc = "eol", !.no = proc[p].no + 1]
    <3>1. proc' = [proc EXCEPT ![p] = r] /\ r.sd = proc[p].sd
          /\ r.job = proc[p].job /\ r.pc = "eol"
      BY <1>0, <2>3 DEF Processes
    <3>. HIDE DEF r, m
    <3>2. \A d \in Conns : conn'[d].holders = conn[d].holders
                           /\ conn'[d].sock = conn[d].sock
      BY <1>e, <2>3
    <3>. QED  BY <1>b, <2>0, <3>1, <3>2
  <2>. QED  BY <1>2, <2>1, <2>2, <2>3 DEF SendText
<1>12. CASE SendEnd(p)
  <2>1. Alive(p)
    BY <1>12 DEF SendEnd, At, Alive
  <2>2. CASE End(p)
    BY <1>c, <2>2
  <2>3. CASE Goes(p, "recv") /\ (Nowhere(p) \/ \E pieces : Puts(p, pieces))
    BY <1>d, <1>e, <2>1, <2>3
  <2>. QED  BY <1>12, <2>2, <2>3 DEF SendEnd, Killed
<1>3. CASE Receive(p)
  <2>1. \A d \in Conns : conn'[d].holders = conn[d].holders
                         /\ conn'[d].sock = conn[d].sock
    BY <1>3 DEF TypeOK, Connections, Receive
  <2>2. proc' = proc
    BY <1>3 DEF Receive
  <2>3. Living' = Living /\ Working' = Working /\ SparesIdle'
    BY <2>2 DEF Living, Working, Alive, SparesIdle
  <2>. QED  BY <2>1, <2>2, <2>3, SameHolders
<1>4. CASE Timeout(p)
  <2>0. Alive(p)
    BY <1>4 DEF Timeout, Silent, At, Alive
  <2>1. CASE proc[p].bg \/ proc[p].keepalive
    BY <1>4, <1>d, <2>0, <2>1 DEF Timeout
  <2>2. CASE ~(proc[p].bg \/ proc[p].keepalive)
    <3>. DEFINE r == [proc[p] EXCEPT !.pc = "prompt", !.sd = NoConn]
    <3>1. proc' = [proc EXCEPT ![p] = r] /\ r.sd = NoConn
          /\ r.job = proc[p].job /\ r.pc = "prompt"
      BY <1>0, <1>4, <2>2 DEF Timeout, Processes
    <3>2. ClosePort(p)
      BY <1>4, <2>2 DEF Timeout
    <3>. HIDE DEF r
    <3>. QED  BY <1>a, <3>1, <3>2
  <2>. QED  BY <2>1, <2>2
<1>5. CASE StreamEnds(p)
  <2>1. CASE proc[p].bg
    <3>. DEFINE r == [proc[p] EXCEPT !.sd = NoConn]
    <3>1. proc' = [proc EXCEPT ![p] = r] /\ r.sd = NoConn
          /\ r.job = proc[p].job /\ r.pc = "recv"
      BY <1>0, <1>5, <2>1 DEF StreamEnds, Silent, At, Processes
    <3>2. ClosePort(p)
      BY <1>5, <2>1 DEF StreamEnds
    <3>. HIDE DEF r
    <3>. QED  BY <1>a, <3>1, <3>2
  <2>2. CASE ~proc[p].bg
    <3>1. /\ proc' = [q \in Procs |-> Ended(q, p)]
          /\ conn' = [d \in Conns |-> IF d = proc[p].sd THEN Shut(conn[d], p)
                                      ELSE LeftBy(conn[d], p)]
      BY <1>5, <2>2 DEF StreamEnds
    <3>2. \A d \in Conns : /\ HeldBy(conn'[d], Living, Working)
                           /\ conn'[d].holders = conn[d].holders \ {p}
      BY <3>1, ShutHolders, LeftByHolders DEF HeldOpen, TypeOK
    <3>. QED  BY <3>1, <3>2, EndedOthers, FewerHolders, EndedIdle
  <2>. QED  BY <2>1, <2>2
<1>6. CASE ReceiveFails(p)
  <2>. DEFINE r == [proc[p] EXCEPT !.sd = NoConn,
                      !.pc = IF proc[p].bg THEN "bgdone" ELSE "prompt"]
  <2>1. proc' = [proc EXCEPT ![p] = r] /\ r.sd = NoConn
        /\ r.job = proc[p].job /\ r.pc \in {"prompt", "bgdone"}
    BY <1>0, <1>6 DEF ReceiveFails, Processes
  <2>2. ClosePort(p)
    BY <1>6 DEF ReceiveFails
  <2>. HIDE DEF r
  <2>. QED  BY <1>a, <2>1, <2>2
<1>7. CASE BgDone(p)
  <2>1. CASE End(p)
    BY <1>c, <2>1
  <2>2. CASE /\ proc' = [proc EXCEPT ![p].pc = "prompt", ![p].bg = FALSE]
             /\ UNCHANGED conn
    <3>. DEFINE r == [proc[p] EXCEPT !.pc = "prompt", !.bg = FALSE]
    <3>1. proc' = [proc EXCEPT ![p] = r] /\ r.sd = proc[p].sd
          /\ r.job = proc[p].job /\ r.pc = "prompt" /\ Alive(p)
      BY <1>0, <1>7, <2>2 DEF BgDone, Processes, At, Alive
    <3>. HIDE DEF r
    <3>. QED  BY <1>b, <2>2, <3>1
  <2>. QED  BY <1>7, <2>1, <2>2 DEF BgDone
<1>8. CASE Waited(p)
  <2>1. PICK r \in Procs :
          /\ proc[r].pc = "zombie"
          /\ proc' = [proc EXCEPT ![r].pc = "none", ![r].parent = NoProc,
                     ![p].pc = "prompt", ![p].disp = "reap", ![p].pending = FALSE]
    BY <1>8 DEF Waited
  <2>2. /\ proc[p].pc = "wait" /\ conn' = conn
        /\ proc[r] \in Processes
    BY <1>8 DEF Waited, At, TypeOK
  <2>3. ASSUME NEW q \in Procs
        PROVE  /\ proc'[q].sd = proc[q].sd /\ proc'[q].job = proc[q].job
               /\ proc'[q].pc = IF q = r THEN "none"
                                ELSE IF q = p THEN "prompt" ELSE proc[q].pc
    <3>1. proc[q] \in Processes
      BY DEF TypeOK
    <3>2. CASE q = r
      BY <2>1, <2>2, <3>1, <3>2 DEF TypeOK, Processes
    <3>3. CASE q = p
      BY <2>1, <2>2, <3>1, <3>3 DEF TypeOK, Processes
    <3>4. CASE q # r /\ q # p
      BY <2>1, <3>4 DEF TypeOK
    <3>. QED  BY <3>2, <3>3, <3>4, <2>1, <2>2
  <2>4. Living \subseteq Living'
    <3>1. ASSUME NEW q \in Procs, proc[q].pc \notin {"spare", "none", "zombie"}
          PROVE  proc'[q].pc \notin {"spare", "none", "zombie"}
      <4>1. q # r /\ proc'[q].pc \in {"prompt", proc[q].pc}
        BY <2>1, <2>3, <3>1
      <4>. QED  BY <3>1, <4>1
    <3>. QED  BY <3>1 DEF Living, Alive
  <2>5. Working \subseteq Working'
    BY <2>3 DEF Working
  <2>6. SparesIdle'
    <3>1. ASSUME NEW q \in Procs, proc'[q].pc = "spare"
          PROVE  proc'[q].job = "none"
      BY <2>3, <3>1 DEF SparesIdle
    <3>. QED  BY <3>1 DEF SparesIdle
  <2>. QED  BY <2>2, <2>3, <2>4, <2>5, <2>6, SameHolders
<1>9. CASE TakeSignal(p)
  <2>1. PICK place \in {proc[p].pc, "fail"} :
          proc' = [proc EXCEPT ![p].pc = place, ![p].pending = FALSE,
                               ![p].handler = proc[p].disp = "reap"]
    BY <1>9 DEF TakeSignal
  <2>. DEFINE r == [proc[p] EXCEPT !.pc = place, !.pending = FALSE,
                      !.handler = proc[p].disp = "reap"]
  <2>2. proc' = [proc EXCEPT ![p] = r] /\ r.sd = proc[p].sd
        /\ r.job = proc[p].job /\ r.pc = place
    BY <1>0, <2>1 DEF Processes
  <2>3. Alive(p) /\ conn' = conn
    BY <1>9 DEF TakeSignal
  <2>4. place \notin {"spare", "none", "zombie"}
    BY <2>1, <2>3 DEF Alive
  <2>. HIDE DEF r
  <2>. QED  BY <1>b, <2>2, <2>3, <2>4
<1>10. CASE Reap(p)
  <2>1. ASSUME NEW q \in Procs
        PROVE  /\ proc'[q].sd = proc[q].sd
               /\ proc'[q].job \in {proc[q].job, "none"}
               /\ proc[q].job \in {"running", "orphan"} => proc'[q].job = proc[q].job
               /\ \/ proc'[q].pc = proc[q].pc
                  \/ proc[q].pc = "zombie" /\ proc'[q].pc = "none"
    <3>1. proc[q] \in Processes
      BY DEF TypeOK
    <3>2. proc'[q] = CASE q = p -> [proc[p] EXCEPT !.job = IF @ = "done" THEN "none" ELSE @]
                       [] q # p /\ Child(q, p) /\ proc[q].pc = "zombie" ->
                            [proc[q] EXCEPT !.pc = "none", !.parent = NoProc]
                       [] OTHER -> proc[q]
      BY <1>10 DEF Reap
    <3>3. CASE q = p
      BY <3>1, <3>2, <3>3 DEF Processes
    <3>4. CASE q # p
      BY <3>1, <3>2, <3>4 DEF Processes
    <3>. QED  BY <3>3, <3>4
  <2>2. Living \subseteq Living' /\ Working \subseteq Working' /\ SparesIdle'
    BY <2>1 DEF Living, Working, Alive, SparesIdle
  <2>3. conn' = conn
    BY <1>10 DEF Reap
  <2>. QED  BY <2>1, <2>2, <2>3, SameHolders
<1>11. CASE HandlerReturns(p)
  <2>1. ASSUME NEW q \in Procs
        PROVE  /\ proc'[q].sd = proc[q].sd /\ proc'[q].job = proc[q].job
               /\ proc'[q].pc = proc[q].pc
    BY <1>11 DEF HandlerReturns, TypeOK, Processes
  <2>2. Living \subseteq Living' /\ Working \subseteq Working' /\ SparesIdle'
    BY <2>1 DEF Living, Working, Alive, SparesIdle
  <2>3. conn' = conn
    BY <1>11 DEF HandlerReturns
  <2>. QED  BY <2>1, <2>2, <2>3, SameHolders
<1>. QED
  BY <1>1, <1>2, <1>3, <1>4, <1>5, <1>6, <1>7, <1>8, <1>9, <1>10, <1>11, <1>12
     DEF Step

LEMMA HoldersNext ==
  ASSUME TypeOK, HeldOpen, SparesIdle, [Next]_vars
  PROVE  HeldOpen' /\ SparesIdle'
<1>1. CASE ServerNext /\ UNCHANGED proc
  BY <1>1, ServerHolders DEF SparesIdle
<1>2. ASSUME NEW p \in Procs, StartShell(p)
      PROVE  HeldOpen' /\ SparesIdle'
  <2>. DEFINE r == [Fresh EXCEPT !.no = proc[p].no, !.job = proc[p].job]
  <2>1. proc' = [proc EXCEPT ![p] = r] /\ conn' = conn
    BY <1>2 DEF StartShell
  <2>2. r.sd = NoConn /\ r.pc = "prompt" /\ r.job = proc[p].job
    BY DEF Fresh
  <2>. HIDE DEF r
  <2>. QED  BY <2>1, <2>2, GoesHolders, IdleAlone
<1>3. ASSUME NEW p \in Procs, RunEnds(p) \/ MoreEnds(p)
      PROVE  HeldOpen' /\ SparesIdle'
  <2>0. proc[p] \in Processes
    BY DEF TypeOK
  <2>1. CASE RunEnds(p)
    <3>. DEFINE r == [proc[p] EXCEPT !.pc = "prompt", !.disp = "reap"]
    <3>1. proc' = [proc EXCEPT ![p] = r] /\ conn' = conn
      BY <2>1 DEF RunEnds
    <3>2. r.sd = proc[p].sd /\ r.pc = "prompt" /\ r.job = proc[p].job
      BY <2>0 DEF Processes
    <3>. HIDE DEF r
    <3>. QED  BY <3>1, <3>2, GoesHolders, IdleAlone
  <2>2. CASE MoreEnds(p)
    <3>. DEFINE r == [proc[p] EXCEPT !.pc = "prompt"]
    <3>1. proc' = [proc EXCEPT ![p] = r] /\ conn' = conn
      BY <2>2 DEF MoreEnds, Goes
    <3>2. r.sd = proc[p].sd /\ r.pc = "prompt" /\ r.job = proc[p].job
      BY <2>0 DEF Processes
    <3>. HIDE DEF r
    <3>. QED  BY <3>1, <3>2, GoesHolders, IdleAlone
  <2>. QED  BY <1>3, <2>1, <2>2
<1>4. ASSUME NEW p \in Procs, JobEnds(p)
      PROVE  HeldOpen' /\ SparesIdle'
  <2>0. proc[p] \in Processes
    BY DEF TypeOK
  <2>1. PICK r : /\ proc' = [proc EXCEPT ![p] = r]
                 /\ r.pc = proc[p].pc
                 /\ proc[p].job # "none"
    <3>1. CASE proc' = [proc EXCEPT ![p].job = "done", ![p].pending = TRUE]
      <4>. DEFINE r == [proc[p] EXCEPT !.job = "done", !.pending = TRUE]
      <4>1. proc' = [proc EXCEPT ![p] = r] /\ r.pc = proc[p].pc
        BY <2>0, <3>1 DEF Processes
      <4>. HIDE DEF r
      <4>. QED  BY <1>4, <4>1 DEF JobEnds
    <3>2. CASE proc' = [proc EXCEPT ![p].job = "none"]
      <4>. DEFINE r == [proc[p] EXCEPT !.job = "none"]
      <4>1. proc' = [proc EXCEPT ![p] = r] /\ r.pc = proc[p].pc
        BY <2>0, <3>2 DEF Processes
      <4>. HIDE DEF r
      <4>. QED  BY <1>4, <4>1 DEF JobEnds
    <3>. QED  BY <1>4, <3>1, <3>2 DEF JobEnds
  <2>2. SparesIdle'
    BY <2>1, IdleAlone DEF SparesIdle
  <2>. QED  BY <1>4, <2>2, JobEndsHolders
<1>5. CASE UNCHANGED vars
  BY <1>5 DEF vars, HeldOpen, SparesIdle, Alive, Living, Working
<1>. QED
  BY <1>1, <1>2, <1>3, <1>4, <1>5, CommandHolders, StepHolders DEF Next

LEMMA HoldersInit == Init => HeldOpen /\ SparesIdle
BY DEF Init, ServerInit, HeldOpen, HeldBy, SparesIdle, Free, Fresh

-----------------------------------------------------------------------------
(* A shell that a user has started: it is never bgServer's child, and at   *)
(* the prompt it has a connection only if it keeps one.                    *)
Shell(r) ==
  /\ ~r.bg
  /\ r.pc \notin {"spare", "connect", "wait", "bgdone"}
  /\ r.pc \in {"prompt", "run", "more"} /\ ~r.keepalive => r.sd = NoConn

UserShells == \A p \in Shells : Shell(proc[p])

(* What a step does to such a shell.                                       *)
Keeps(p) ==
  \A c \in Conns :
    proc[p].sd = c /\ proc'[p].sd # c
      /\ p \in conn[c].holders /\ p \in conn'[c].holders
    => proc[p].keepalive /\ proc'[p].keepalive /\ proc'[p].pc = "hello"

LEMMA SameShell ==
  ASSUME NEW p \in Shells, Shell(proc[p]), proc'[p].sd = proc[p].sd,
         proc'[p].bg = proc[p].bg, proc'[p].keepalive = proc[p].keepalive,
         \/ proc'[p].pc = proc[p].pc
         \/ proc'[p].pc \in {"none", "zombie", "eol", "recv", "fail"}
         \/ proc'[p].pc \in {"run", "more"} /\ proc[p].pc = "prompt"
         \/ proc'[p].pc = "prompt" /\ proc[p].pc \in {"run", "more"}
         \/ proc'[p].pc \in {"prompt", "send"} /\ proc[p].keepalive
  PROVE  Shell(proc'[p]) /\ Keeps(p)
BY DEF Shell, Keeps

LEMMA ShellLeaves ==
  ASSUME TypeOK, NEW p \in Shells, Shell(proc[p]), proc'[p].sd = NoConn,
         ~proc'[p].bg, proc'[p].pc \in {"prompt", "none", "zombie"},
         proc[p].sd # NoConn => p \notin conn'[proc[p].sd].holders
  PROVE  Shell(proc'[p]) /\ Keeps(p)
BY DEF Shell, Keeps, TypeOK, Processes

(* What it does to the shells that do not take it.                         *)
Untouched(a) ==
  \A p \in Shells : p # a =>
    /\ proc'[p].sd = proc[p].sd /\ proc'[p].bg = proc[p].bg
    /\ proc'[p].keepalive = proc[p].keepalive
    /\ proc'[p].pc \in {proc[p].pc, "none"}

LEMMA OneTouched ==
  ASSUME TypeOK, NEW a \in Procs, NEW r, proc' = [proc EXCEPT ![a] = r]
  PROVE  Untouched(a) /\ proc'[a] = r
BY DEF Untouched, TypeOK, Procs

LEMMA EndedChild ==
  ASSUME NEW q, NEW a, q # a, proc[q].parent = a
  PROVE  \/ Ended(q, a) = [proc[q] EXCEPT !.parent = NoProc,
                              !.pc = IF @ = "zombie" THEN "none" ELSE @]
         \/ Ended(q, a) = [proc[q] EXCEPT !.pending = TRUE]
BY DEF Ended

LEMMA EndedUntouched ==
  ASSUME TypeOK, NEW a \in Procs, proc' = [q \in Procs |-> Ended(q, a)]
  PROVE  /\ Untouched(a) /\ proc'[a].sd = NoConn /\ ~proc'[a].bg
         /\ proc'[a].pc \in {"none", "zombie"}
<1>1. ASSUME NEW q \in Shells, q # a
      PROVE  /\ proc'[q].sd = proc[q].sd /\ proc'[q].bg = proc[q].bg
             /\ proc'[q].keepalive = proc[q].keepalive
             /\ proc'[q].pc \in {proc[q].pc, "none"}
  <2>1. q \in Procs
    BY DEF Procs
  <2>2. proc[q] \in Processes /\ proc'[q] = Ended(q, a)
    BY <2>1 DEF TypeOK
  <2>3. CASE proc[q].parent = a
    <3>. DEFINE z == IF proc[q].pc = "zombie" THEN "none" ELSE proc[q].pc
                r == [proc[q] EXCEPT !.parent = NoProc, !.pc = z]
                t == [proc[q] EXCEPT !.pending = TRUE]
    <3>1. z \in {proc[q].pc, "none"}
      OBVIOUS
    <3>2. Ended(q, a) = r \/ Ended(q, a) = t
      BY <1>1, <2>3, EndedChild
    <3>. HIDE DEF z
    <3>3. /\ r.sd = proc[q].sd /\ r.bg = proc[q].bg
          /\ r.keepalive = proc[q].keepalive /\ r.pc = z
      BY <2>2 DEF Processes
    <3>4. /\ t.sd = proc[q].sd /\ t.bg = proc[q].bg
          /\ t.keepalive = proc[q].keepalive /\ t.pc = proc[q].pc
      BY <2>2 DEF Processes
    <3>. HIDE DEF r, t
    <3>. QED  BY <2>2, <3>1, <3>2, <3>3, <3>4
  <2>4. CASE proc[q].parent # a /\ q = proc[a].parent
    <3>. DEFINE r == [proc[q] EXCEPT !.pending = TRUE]
    <3>1. /\ r.sd = proc[q].sd /\ r.bg = proc[q].bg
          /\ r.keepalive = proc[q].keepalive /\ r.pc = proc[q].pc
      BY <2>2 DEF Processes
    <3>2. Ended(q, a) = r
      BY <1>1, <2>4 DEF Ended
    <3>. HIDE DEF r
    <3>. QED  BY <2>2, <3>1, <3>2
  <2>5. CASE proc[q].parent # a /\ q # proc[a].parent
    BY <1>1, <2>2, <2>5 DEF Ended
  <2>. QED  BY <2>3, <2>4, <2>5
<1>2. proc'[a].sd = NoConn /\ ~proc'[a].bg /\ proc'[a].pc \in {"none", "zombie"}
  BY DEF Ended, Fresh
<1>. QED  BY <1>1, <1>2 DEF Untouched

LEMMA EndShell ==
  ASSUME TypeOK, HeldOpen, NEW a \in Procs, End(a)
  PROVE  /\ Untouched(a)
         /\ a \in Shells /\ Shell(proc[a]) => Shell(proc'[a]) /\ Keeps(a)
<1>1. \A c \in Conns : conn'[c].holders = conn[c].holders \ {a}
  BY LeftByHolders DEF HeldOpen, End, TypeOK
<1>2. proc[a].sd \in Conns \cup {NoConn}
  BY DEF TypeOK, Processes
<1>. QED  BY <1>1, <1>2, EndedUntouched, ShellLeaves DEF End

LEMMA ClosePortShell ==
  ASSUME TypeOK, HeldOpen, NEW a \in Procs, ClosePort(a)
  PROVE  proc[a].sd # NoConn => a \notin conn'[proc[a].sd].holders
<1>1. proc[a].sd \in Conns \cup {NoConn}
  BY DEF TypeOK, Processes
<1>. QED  BY <1>1, ShutHolders DEF HeldOpen, ClosePort, TypeOK

LEMMA CommandShell ==
  ASSUME TypeOK, HeldOpen, NEW a \in Procs, Command(a)
  PROVE  /\ Untouched(a)
         /\ a \in Shells /\ Shell(proc[a]) => Shell(proc'[a]) /\ Keeps(a)
<1>0. proc[a] \in Processes
  BY DEF TypeOK
<1>1. CASE OneShot(a)
  <2>1. PICK c \in Conns : proc' = [proc EXCEPT ![a].sd = c, ![a].pc = "send"]
    BY <1>1 DEF OneShot
  <2>. DEFINE r == [proc[a] EXCEPT !.sd = c, !.pc = "send"]
  <2>2. /\ proc' = [proc EXCEPT ![a] = r]
        /\ r.pc = "send" /\ r.bg = proc[a].bg
    BY <1>0, <2>1 DEF Processes
  <2>. HIDE DEF r
  <2>3. Shell(proc[a]) => proc[a].sd = NoConn
    BY <1>1 DEF OneShot, At, Shell
  <2>. QED
    BY <2>2, <2>3, OneTouched, ServerConstantsOK
       DEF Shell, Keeps, ServerConstantsOK
<1>2. CASE KeepAlive(a)
  <2>1. PICK c \in Conns : proc' = [proc EXCEPT ![a].sd = c, ![a].pc = "hello",
                                                ![a].keepalive = TRUE]
    BY <1>2 DEF KeepAlive
  <2>. DEFINE r == [proc[a] EXCEPT !.sd = c, !.pc = "hello", !.keepalive = TRUE]
  <2>2. /\ proc' = [proc EXCEPT ![a] = r]
        /\ r.pc = "hello" /\ r.bg = proc[a].bg /\ r.keepalive
    BY <1>0, <2>1 DEF Processes
  <2>. HIDE DEF r
  <2>3. Shell(proc[a]) => proc[a].keepalive \/ proc[a].sd = NoConn
    BY <1>2 DEF KeepAlive, At, Shell
  <2>. QED
    BY <2>2, <2>3, OneTouched, ServerConstantsOK
       DEF Shell, Keeps, ServerConstantsOK
<1>3. CASE KeptRequest(a)
  <2>. DEFINE r == [proc[a] EXCEPT !.pc = "send"]
  <2>1. /\ proc' = [proc EXCEPT ![a] = r] /\ r.sd = proc[a].sd /\ r.pc = "send"
        /\ r.bg = proc[a].bg /\ r.keepalive = proc[a].keepalive
    BY <1>0, <1>3 DEF KeptRequest, Goes, Processes
  <2>. HIDE DEF r
  <2>2. proc[a].pc = "prompt" /\ proc[a].keepalive
    BY <1>3 DEF KeptRequest, At
  <2>. QED  BY <2>1, <2>2, OneTouched, SameShell
<1>7. CASE RunIt(a)
  <2>. DEFINE r == [proc[a] EXCEPT !.pc = "run", !.disp = "block"]
  <2>1. /\ proc' = [proc EXCEPT ![a] = r] /\ r.sd = proc[a].sd /\ r.pc = "run"
        /\ r.bg = proc[a].bg /\ r.keepalive = proc[a].keepalive
    BY <1>0, <1>7 DEF RunIt, Processes
  <2>. HIDE DEF r
  <2>2. proc[a].pc = "prompt"
    BY <1>7 DEF RunIt, At
  <2>. QED  BY <2>1, <2>2, OneTouched, SameShell
<1>8. CASE More(a)
  <2>. DEFINE r == [proc[a] EXCEPT !.pc = "more"]
  <2>1. /\ proc' = [proc EXCEPT ![a] = r] /\ r.sd = proc[a].sd /\ r.pc = "more"
        /\ r.bg = proc[a].bg /\ r.keepalive = proc[a].keepalive
    BY <1>0, <1>8 DEF More, Goes, Processes
  <2>. HIDE DEF r
  <2>2. proc[a].pc = "prompt"
    BY <1>8 DEF More, At
  <2>. QED  BY <2>1, <2>2, OneTouched, SameShell
<1>9. CASE Job(a)
  <2>. DEFINE r == [proc[a] EXCEPT !.job = "running"]
  <2>1. /\ proc' = [proc EXCEPT ![a] = r] /\ r.sd = proc[a].sd /\ r.pc = "prompt"
        /\ r.bg = proc[a].bg /\ r.keepalive = proc[a].keepalive
    BY <1>0, <1>9 DEF Job, At, Processes
  <2>. HIDE DEF r
  <2>2. proc[a].pc = "prompt"
    BY <1>9 DEF Job, At
  <2>. QED  BY <2>1, <2>2, OneTouched, SameShell
<1>4. CASE Refused(a) \/ Exit(a)
  BY <1>4, EndShell DEF Refused, Exit
<1>5. CASE CloseKept(a)
  <2>. DEFINE r == [proc[a] EXCEPT !.keepalive = FALSE, !.sd = NoConn]
  <2>1. /\ proc' = [proc EXCEPT ![a] = r]
        /\ r.sd = NoConn /\ r.pc = "prompt" /\ r.bg = proc[a].bg
    BY <1>0, <1>5 DEF CloseKept, At, Processes
  <2>. HIDE DEF r
  <2>2. proc[a].sd # NoConn => a \notin conn'[proc[a].sd].holders
    BY <1>5, ClosePortShell DEF CloseKept
  <2>. QED  BY <2>1, <2>2, OneTouched, ShellLeaves DEF Shell
<1>6. CASE Background(a) \/ BackgroundFails(a)
  <2>1. proc[a].pc = "prompt"
    BY <1>6 DEF Background, BackgroundFails, At
  <2>2. \A p \in Shells : proc'[p] = proc[p]
    <3>1. \A p \in Shells : p \in Procs /\ p \notin Spares
      BY ShellConstantsOK DEF ShellConstantsOK, Procs
    <3>2. CASE Background(a)
      <4>. DEFINE child == [Fresh EXCEPT !.keepalive = proc[a].keepalive,
                              !.sd = proc[a].sd, !.disp = "block"]
                  x == [child EXCEPT !.pc = "wait", !.parent = a]
                  y(q) == [child EXCEPT !.bg = TRUE, !.parent = q,
                             !.pc = IF proc[a].keepalive THEN "send" ELSE "connect"]
      <4>1. PICK q \in Spares, r \in Spares :
              proc' = [proc EXCEPT ![q] = x, ![r] = y(q)]
        BY <3>2 DEF Background
      <4>. HIDE DEF x, y
      <4>. QED  BY <3>1, <4>1 DEF TypeOK
    <3>3. CASE BackgroundFails(a)
      <4>. DEFINE x == [Fresh EXCEPT !.parent = a,
                          !.keepalive = proc[a].keepalive, !.sd = proc[a].sd]
      <4>1. PICK q \in Spares : proc' = [proc EXCEPT ![q] = x]
        BY <3>3 DEF BackgroundFails
      <4>. HIDE DEF x
      <4>. QED  BY <3>1, <4>1 DEF TypeOK
    <3>. QED  BY <1>6, <3>2, <3>3
  <2>. QED  BY <2>2 DEF Untouched, Keeps
<1>. QED
  BY <1>1, <1>2, <1>3, <1>4, <1>5, <1>6, <1>7, <1>8, <1>9 DEF Command

LEMMA StepShell ==
  ASSUME TypeOK, HeldOpen, NEW a \in Procs, Step(a)
  PROVE  /\ Untouched(a)
         /\ a \in Shells /\ Shell(proc[a]) => Shell(proc'[a]) /\ Keeps(a)
<1>0. proc[a] \in Processes
  BY DEF TypeOK
<1>a. ASSUME NEW r, proc' = [proc EXCEPT ![a] = r], ClosePort(a), r.sd = NoConn,
             r.bg = proc[a].bg,
             r.pc = IF proc[a].bg THEN "bgdone" ELSE "prompt"
      PROVE  /\ Untouched(a)
             /\ a \in Shells /\ Shell(proc[a]) => Shell(proc'[a]) /\ Keeps(a)
  BY <1>a, ClosePortShell, OneTouched, ShellLeaves DEF Shell
<1>b. ASSUME NEW r, proc' = [proc EXCEPT ![a] = r], r.sd = proc[a].sd,
             r.bg = proc[a].bg, r.keepalive = proc[a].keepalive,
             \/ r.pc = proc[a].pc \/ r.pc \in {"eol", "recv", "fail"}
             \/ r.pc = "prompt" /\ proc[a].keepalive
      PROVE  /\ Untouched(a)
             /\ a \in Shells /\ Shell(proc[a]) => Shell(proc'[a]) /\ Keeps(a)
  BY <1>b, OneTouched, SameShell
<1>c. ASSUME NEW k \in {"prompt", "eol", "recv"}, Goes(a, k),
             k = "prompt" => proc[a].keepalive
      PROVE  /\ Untouched(a)
             /\ a \in Shells /\ Shell(proc[a]) => Shell(proc'[a]) /\ Keeps(a)
  <2>. DEFINE r == [proc[a] EXCEPT !.pc = k]
  <2>1. /\ proc' = [proc EXCEPT ![a] = r] /\ r.sd = proc[a].sd /\ r.pc = k
        /\ r.bg = proc[a].bg /\ r.keepalive = proc[a].keepalive
    BY <1>0, <1>c DEF Goes, Processes
  <2>. HIDE DEF r
  <2>. QED  BY <1>b, <1>c, <2>1
<1>d. ASSUME NEW r, proc' = [proc EXCEPT ![a] = r], proc[a].bg \/ proc[a].pc \in {"connect", "bgdone"}
      PROVE  /\ Untouched(a)
             /\ a \in Shells /\ Shell(proc[a]) => Shell(proc'[a]) /\ Keeps(a)
  BY <1>d, OneTouched DEF Shell
<1>1. CASE BgConnect(a)
  <2>1. \E r : proc' = [proc EXCEPT ![a] = r]
    BY <1>1 DEF BgConnect
  <2>. QED  BY <1>1, <1>d, <2>1 DEF BgConnect, At
<1>2. ASSUME SendEnd(a) \/ \E text \in {"line", "quit"} : SendText(a, text)
      PROVE  /\ Untouched(a)
             /\ a \in Shells /\ Shell(proc[a]) => Shell(proc'[a]) /\ Keeps(a)
  <2>1. CASE End(a)
    BY <2>1, EndShell
  <2>2. CASE \E k \in {"eol", "recv"} : Goes(a, k)
    BY <1>c, <2>2
  <2>3. CASE proc' = [proc EXCEPT ![a].pc = "eol", ![a].no = @ + 1]
    <3>. DEFINE r == [proc[a] EXCEPT !.pc = "eol", !.no = proc[a].no + 1]
    <3>1. /\ proc' = [proc EXCEPT ![a] = r] /\ r.sd = proc[a].sd /\ r.pc = "eol"
          /\ r.bg = proc[a].bg /\ r.keepalive = proc[a].keepalive
      BY <1>0, <2>3 DEF Processes
    <3>. HIDE DEF r
    <3>. QED  BY <1>b, <3>1
  <2>. QED  BY <1>2, <2>1, <2>2, <2>3 DEF SendEnd, SendText, Killed
<1>3. CASE Receive(a)
  BY <1>3 DEF Receive, Untouched, Keeps
<1>4. CASE Timeout(a)
  <2>1. CASE proc[a].bg
    <3>1. \E r : proc' = [proc EXCEPT ![a] = r]
      BY <1>4, <2>1 DEF Timeout, Goes
    <3>. QED  BY <1>d, <2>1, <3>1
  <2>2. CASE ~proc[a].bg /\ proc[a].keepalive
    BY <1>4, <1>c, <2>2 DEF Timeout
  <2>3. CASE ~proc[a].bg /\ ~proc[a].keepalive
    <3>. DEFINE r == [proc[a] EXCEPT !.pc = "prompt", !.sd = NoConn]
    <3>1. /\ proc' = [proc EXCEPT ![a] = r] /\ r.sd = NoConn
          /\ r.bg = proc[a].bg /\ r.pc = "prompt" /\ ClosePort(a)
      BY <1>0, <1>4, <2>3 DEF Timeout, Processes
    <3>. HIDE DEF r
    <3>. QED  BY <1>a, <2>3, <3>1
  <2>. QED  BY <2>1, <2>2, <2>3
<1>5. CASE StreamEnds(a)
  <2>1. CASE proc[a].bg
    <3>1. \E r : proc' = [proc EXCEPT ![a] = r]
      BY <1>5, <2>1 DEF StreamEnds
    <3>. QED  BY <1>d, <2>1, <3>1
  <2>2. CASE ~proc[a].bg
    <3>1. /\ proc' = [q \in Procs |-> Ended(q, a)]
          /\ conn' = [d \in Conns |-> IF d = proc[a].sd THEN Shut(conn[d], a)
                                      ELSE LeftBy(conn[d], a)]
      BY <1>5, <2>2 DEF StreamEnds
    <3>2. \A d \in Conns : conn'[d].holders = conn[d].holders \ {a}
      BY <3>1, ShutHolders, LeftByHolders DEF HeldOpen, TypeOK
    <3>3. proc[a].sd \in Conns \cup {NoConn}
      BY <1>0 DEF Processes
    <3>. QED  BY <3>1, <3>2, <3>3, EndedUntouched, ShellLeaves
  <2>. QED  BY <2>1, <2>2
<1>6. CASE ReceiveFails(a)
  <2>. DEFINE r == [proc[a] EXCEPT !.sd = NoConn,
                      !.pc = IF proc[a].bg THEN "bgdone" ELSE "prompt"]
  <2>1. /\ proc' = [proc EXCEPT ![a] = r] /\ r.sd = NoConn /\ r.bg = proc[a].bg
        /\ r.pc = IF proc[a].bg THEN "bgdone" ELSE "prompt"
    BY <1>0, <1>6 DEF ReceiveFails, Processes
  <2>2. ClosePort(a)
    BY <1>6 DEF ReceiveFails
  <2>. HIDE DEF r
  <2>. QED  BY <1>a, <2>1, <2>2
<1>7. CASE BgDone(a)
  <2>1. CASE End(a)
    BY <2>1, EndShell
  <2>2. CASE proc' = [proc EXCEPT ![a].pc = "prompt", ![a].bg = FALSE]
    <3>1. \E r : proc' = [proc EXCEPT ![a] = r]
      BY <2>2
    <3>. QED  BY <1>7, <1>d, <3>1 DEF BgDone, At
  <2>. QED  BY <1>7, <2>1, <2>2 DEF BgDone
<1>8. CASE Waited(a)
  <2>1. PICK r \in Procs :
          proc' = [proc EXCEPT ![r].pc = "none", ![r].parent = NoProc,
                     ![a].pc = "prompt", ![a].disp = "reap", ![a].pending = FALSE]
    BY <1>8 DEF Waited
  <2>2. ASSUME NEW q \in Procs, q # a
        PROVE  /\ proc'[q].sd = proc[q].sd /\ proc'[q].bg = proc[q].bg
               /\ proc'[q].keepalive = proc[q].keepalive
               /\ proc'[q].pc \in {proc[q].pc, "none"}
    <3>1. proc[q] \in Processes
      BY DEF TypeOK
    <3>. QED  BY <2>1, <2>2, <3>1 DEF TypeOK, Processes
  <2>. QED  BY <1>8, <2>2 DEF Waited, At, Untouched, Procs, Shell
<1>9. CASE TakeSignal(a)
  <2>1. PICK place \in {proc[a].pc, "fail"} :
          proc' = [proc EXCEPT ![a].pc = place, ![a].pending = FALSE,
                               ![a].handler = proc[a].disp = "reap"]
    BY <1>9 DEF TakeSignal
  <2>. DEFINE r == [proc[a] EXCEPT !.pc = place, !.pending = FALSE,
                      !.handler = proc[a].disp = "reap"]
  <2>2. /\ proc' = [proc EXCEPT ![a] = r] /\ r.sd = proc[a].sd /\ r.pc = place
        /\ r.bg = proc[a].bg /\ r.keepalive = proc[a].keepalive
    BY <1>0, <2>1 DEF Processes
  <2>. HIDE DEF r
  <2>. QED  BY <1>b, <2>1, <2>2
<1>10. CASE Reap(a)
  <2>1. ASSUME NEW q \in Procs
        PROVE  /\ proc'[q].sd = proc[q].sd /\ proc'[q].bg = proc[q].bg
               /\ proc'[q].keepalive = proc[q].keepalive
               /\ proc'[q].pc \in {proc[q].pc, "none"}
    <3>1. proc[q] \in Processes
      BY DEF TypeOK
    <3>2. proc'[q] = CASE q = a -> [proc[a] EXCEPT !.job = IF @ = "done" THEN "none" ELSE @]
                       [] q # a /\ Child(q, a) /\ proc[q].pc = "zombie" ->
                            [proc[q] EXCEPT !.pc = "none", !.parent = NoProc]
                       [] OTHER -> proc[q]
      BY <1>10 DEF Reap
    <3>3. CASE q = a
      BY <3>1, <3>2, <3>3 DEF Processes
    <3>4. CASE q # a
      BY <3>1, <3>2, <3>4 DEF Processes
    <3>. QED  BY <3>3, <3>4
  <2>2. Untouched(a)
    BY <2>1 DEF Untouched, Procs
  <2>. QED  BY <2>1, <2>2, SameShell
<1>11. CASE HandlerReturns(a)
  <2>. DEFINE r == [proc[a] EXCEPT !.handler = FALSE]
  <2>1. /\ proc' = [proc EXCEPT ![a] = r] /\ r.sd = proc[a].sd
        /\ r.pc = proc[a].pc
        /\ r.bg = proc[a].bg /\ r.keepalive = proc[a].keepalive
    BY <1>0, <1>11 DEF HandlerReturns, Processes
  <2>. HIDE DEF r
  <2>. QED  BY <1>b, <2>1
<1>. QED
  BY <1>1, <1>2, <1>3, <1>4, <1>5, <1>6, <1>7, <1>8, <1>9, <1>10, <1>11 DEF Step

LEMMA ShellsNext ==
  ASSUME TypeOK, HeldOpen, UserShells, [Next]_vars
  PROVE  UserShells' /\ \A p \in Shells : Keeps(p)
<1>0. \A p \in Shells : p \in Procs /\ Shell(proc[p])
  BY DEF UserShells, Procs
<1>1. ASSUME NEW a \in Procs, Untouched(a),
             a \in Shells /\ Shell(proc[a]) => Shell(proc'[a]) /\ Keeps(a)
      PROVE  UserShells' /\ \A p \in Shells : Keeps(p)
  <2>1. \A p \in Shells : p # a => Shell(proc'[p]) /\ Keeps(p)
    BY <1>0, <1>1, SameShell DEF Untouched
  <2>2. \A p \in Shells : Shell(proc'[p]) /\ Keeps(p)
    BY <1>0, <1>1, <2>1
  <2>. QED  BY <2>2 DEF UserShells
<1>2. CASE UNCHANGED proc
  BY <1>2 DEF UserShells, Keeps
<1>3. ASSUME NEW a \in Procs, StartShell(a)
      PROVE  UserShells' /\ \A p \in Shells : Keeps(p)
  <2>. DEFINE r == [Fresh EXCEPT !.no = proc[a].no, !.job = proc[a].job]
  <2>1. /\ proc' = [proc EXCEPT ![a] = r] /\ conn' = conn
        /\ r.sd = NoConn /\ r.pc = "prompt" /\ ~r.bg
    BY <1>3 DEF StartShell, Fresh
  <2>. HIDE DEF r
  <2>2. ~Alive(a) /\ proc[a].sd \in Conns \cup {NoConn}
    BY <1>3 DEF StartShell, Alive, TypeOK, Processes
  <2>3. proc[a].sd # NoConn => a \notin conn'[proc[a].sd].holders
    <3>1. ASSUME proc[a].sd \in Conns
          PROVE  conn[proc[a].sd].holders \cap Procs \subseteq Living
      BY <3>1 DEF HeldOpen, HeldBy
    <3>2. a \notin Living
      BY <2>2 DEF Living
    <3>. QED  BY <2>1, <2>2, <3>1, <3>2
  <2>4. Untouched(a) /\ proc'[a] = r
    BY <2>1, OneTouched
  <2>5. a \in Shells /\ Shell(proc[a]) => Shell(proc'[a]) /\ Keeps(a)
    BY <2>1, <2>3, <2>4, ShellLeaves
  <2>. QED  BY <1>1, <2>4, <2>5
<1>4. ASSUME NEW a \in Procs, NEW r, proc' = [proc EXCEPT ![a] = r],
             r.sd = proc[a].sd, r.bg = proc[a].bg, r.keepalive = proc[a].keepalive,
             \/ r.pc = proc[a].pc
             \/ r.pc = "prompt" /\ proc[a].pc \in {"run", "more"}
      PROVE  UserShells' /\ \A p \in Shells : Keeps(p)
  BY <1>1, <1>4, OneTouched, SameShell
<1>5. ASSUME NEW a \in Procs, RunEnds(a)
      PROVE  UserShells' /\ \A p \in Shells : Keeps(p)
  <2>. DEFINE r == [proc[a] EXCEPT !.pc = "prompt", !.disp = "reap"]
  <2>1. /\ proc' = [proc EXCEPT ![a] = r] /\ r.sd = proc[a].sd
        /\ r.bg = proc[a].bg /\ r.keepalive = proc[a].keepalive
        /\ r.pc = "prompt" /\ proc[a].pc = "run"
    BY <1>5 DEF RunEnds, At, TypeOK, Processes
  <2>. HIDE DEF r
  <2>. QED  BY <1>4, <2>1
<1>6. ASSUME NEW a \in Procs, MoreEnds(a)
      PROVE  UserShells' /\ \A p \in Shells : Keeps(p)
  <2>. DEFINE r == [proc[a] EXCEPT !.pc = "prompt"]
  <2>1. /\ proc' = [proc EXCEPT ![a] = r] /\ r.sd = proc[a].sd
        /\ r.bg = proc[a].bg /\ r.keepalive = proc[a].keepalive
        /\ r.pc = "prompt" /\ proc[a].pc = "more"
    BY <1>6 DEF MoreEnds, Goes, At, TypeOK, Processes
  <2>. HIDE DEF r
  <2>. QED  BY <1>4, <2>1
<1>7. ASSUME NEW a \in Procs, JobEnds(a)
      PROVE  UserShells' /\ \A p \in Shells : Keeps(p)
  <2>1. PICK j \in {"done", "none"}, b \in BOOLEAN :
          proc' = [proc EXCEPT ![a] = [@ EXCEPT !.job = j, !.pending = b]]
    <3>1. CASE proc' = [proc EXCEPT ![a].job = "none"]
      <4>1. proc' = [proc EXCEPT ![a] = [@ EXCEPT !.job = "none",
                                           !.pending = proc[a].pending]]
        BY <3>1 DEF TypeOK, Processes
      <4>. QED  BY <4>1 DEF TypeOK, Processes
    <3>. QED  BY <1>7, <3>1 DEF JobEnds
  <2>. DEFINE r == [proc[a] EXCEPT !.job = j, !.pending = b]
  <2>2. /\ proc' = [proc EXCEPT ![a] = r] /\ r.sd = proc[a].sd
        /\ r.bg = proc[a].bg /\ r.keepalive = proc[a].keepalive
        /\ r.pc = proc[a].pc
    BY <2>1 DEF TypeOK, Processes
  <2>. HIDE DEF r
  <2>. QED  BY <1>4, <2>2
<1>. QED
  BY <1>1, <1>2, <1>3, <1>5, <1>6, <1>7, CommandShell, StepShell DEF Next, vars

LEMMA ShellsInit == Init => UserShells
BY DEF Init, UserShells, Shell, Fresh, Procs

(* A shell that a user has started closes what it has opened before it     *)
(* opens another connection, unless it is told to keep one while it keeps  *)
(* one (rsshell.cc:198, 314), whatever commands in the background do with  *)
(* the descriptors it has given them.                                      *)
THEOREM NothingForgotten == Spec => NoneForgotten
<1>1. Init => TypeOK /\ HeldOpen /\ SparesIdle /\ UserShells
  BY InitType, HoldersInit, ShellsInit
<1>2. TypeOK /\ HeldOpen /\ SparesIdle /\ UserShells /\ [Next]_vars
        => (TypeOK /\ HeldOpen /\ SparesIdle /\ UserShells)'
  BY NextType, HoldersNext, ShellsNext
<1>3. TypeOK /\ HeldOpen /\ UserShells /\ [Next]_vars
        => [\A p \in Shells, c \in Conns :
              proc[p].sd = c /\ proc'[p].sd # c
                /\ p \in conn[c].holders /\ p \in conn'[c].holders
              => proc[p].keepalive /\ proc'[p].keepalive /\ proc'[p].pc = "hello"]_vars
  BY ShellsNext DEF Keeps
<1>. QED  BY <1>1, <1>2, <1>3, PTL DEF Spec, NoneForgotten

-----------------------------------------------------------------------------
(* What pieces do to a connection.                                         *)

LEMMA ComingType ==
  ASSUME TypeOK, NEW c \in Conns
  PROVE  /\ conn[c].answers \in Seq(Pieces) /\ conn[c].inbox \in Seq(Pieces)
         /\ Coming(c) \in Seq(Pieces)
<1>1. conn[c].answers \in Seq(Pieces) /\ conn[c].inbox \in Seq(Pieces)
  BY DEF TypeOK, Connections
<1>. QED  BY <1>1, ConcatProperties DEF Coming

(* Pieces are put behind what is to come.                                  *)
LEMMA PutsComing ==
  ASSUME TypeOK, NEW a \in Procs, NEW c \in Conns, proc[a].sd = c,
         NEW m \in Pieces, Puts(a, <<m>>)
  PROVE  /\ Open(c)
         /\ Coming(c)' = Append(Coming(c), m)
         /\ conn'[c].holders = conn[c].holders
         /\ conn'[c].sock = conn[c].sock /\ conn'[c].srv = conn[c].srv
         /\ \A d \in Conns : d # c => conn'[d] = conn[d]
<1>. DEFINE s == <<m>>
<1>1. Open(c) /\ conn' = [conn EXCEPT ![c].inbox = @ \o s]
  BY DEF Puts
<1>2. s \in Seq(Pieces) /\ \A t \in Seq(Pieces) : t \o s = Append(t, m)
  OBVIOUS
<1>3. Coming(c) \in Seq(Pieces) /\ conn[c].answers \in Seq(Pieces)
      /\ conn[c].inbox \in Seq(Pieces)
  BY <1>1, ComingType
<1>. HIDE DEF s
<1>4. /\ conn'[c].inbox = conn[c].inbox \o s
      /\ conn'[c].answers = conn[c].answers
      /\ conn'[c].holders = conn[c].holders
      /\ conn'[c].sock = conn[c].sock /\ conn'[c].srv = conn[c].srv
      /\ \A d \in Conns : d # c => conn'[d] = conn[d]
  BY <1>1 DEF TypeOK, Connections
<1>5. \A x, y \in Seq(Pieces) : (x \o y) \o s = x \o (y \o s)
  BY <1>2, ConcatAssociative
<1>6. Coming(c)' = Coming(c) \o s
  <2>1. Coming(c)' = conn[c].answers \o (conn[c].inbox \o s)
    BY <1>4 DEF Coming
  <2>2. (conn[c].answers \o conn[c].inbox) \o s
          = conn[c].answers \o (conn[c].inbox \o s)
    BY <1>3, <1>5
  <2>. QED  BY <2>1, <2>2 DEF Coming
<1>. QED  BY <1>1, <1>2, <1>3, <1>4, <1>6

LEMMA NowhereComing ==
  ASSUME TypeOK, NEW a \in Procs, Nowhere(a), NEW d \in Conns
  PROVE  /\ conn'[d].answers = conn[d].answers
         /\ conn'[d].inbox = conn[d].inbox
         /\ conn'[d].holders = conn[d].holders
         /\ conn'[d].sock = conn[d].sock
         /\ conn'[d].srv = "open" <=> conn[d].srv = "open"
<1>1. CASE UNCHANGED conn
  BY <1>1
<1>2. CASE proc[a].sd # NoConn
           /\ conn' = [conn EXCEPT ![proc[a].sd].srv = IF @ = "fin" THEN "rst" ELSE @]
  <2>1. proc[a].sd \in Conns /\ conn[d] \in Connections
    BY <1>2 DEF TypeOK, Processes
  <2>. DEFINE x == IF conn[d].srv = "fin" THEN "rst" ELSE conn[d].srv
              r == [conn[d] EXCEPT !.srv = x]
  <2>2. /\ r.answers = conn[d].answers /\ r.inbox = conn[d].inbox
        /\ r.holders = conn[d].holders /\ r.sock = conn[d].sock
        /\ r.srv = "open" <=> conn[d].srv = "open"
    BY <2>1 DEF Connections
  <2>3. conn'[d] \in {conn[d], r}
    BY <1>2, <2>1 DEF TypeOK
  <2>. HIDE DEF r
  <2>. QED  BY <2>2, <2>3
<1>. QED  BY <1>1, <1>2 DEF Nowhere

(* The first answer is taken away.                                         *)
LEMMA TailOfBoth ==
  ASSUME NEW a \in Seq(Pieces), NEW b \in Seq(Pieces), a # <<>>
  PROVE  /\ a \o b # <<>> /\ a \o b \in Seq(Pieces)
         /\ Tail(a) \o b = Tail(a \o b)
<1>1. /\ a \o b \in Seq(Pieces) /\ Tail(a) \o b \in Seq(Pieces)
      /\ Len(a \o b) = Len(a) + Len(b) /\ Len(a) > 0
      /\ Len(Tail(a) \o b) = Len(a) - 1 + Len(b)
  OBVIOUS
<1>2. a \o b # <<>> /\ Tail(a \o b) \in Seq(Pieces)
      /\ Len(Tail(a \o b)) = Len(a) - 1 + Len(b)
  BY <1>1
<1>3. ASSUME NEW n \in 1..(Len(a) - 1 + Len(b))
      PROVE  (Tail(a) \o b)[n] = Tail(a \o b)[n]
  OBVIOUS
<1>. QED  BY <1>1, <1>2, <1>3

LEMMA ReceiveComing ==
  ASSUME TypeOK, NEW a \in Procs, NEW c \in Conns, proc[a].sd = c, Receive(a)
  PROVE  /\ Coming(c) # <<>>
         /\ Coming(c)' = Tail(Coming(c))
         /\ conn'[c].holders = conn[c].holders
         /\ conn'[c].sock = conn[c].sock /\ conn'[c].srv = conn[c].srv
         /\ \A d \in Conns : d # c => conn'[d] = conn[d]
<1>. DEFINE x == conn[c].answers
            y == conn[c].inbox
<1>1. x # <<>> /\ conn' = [conn EXCEPT ![c].answers = Tail(@)]
  BY DEF Receive
<1>2. /\ conn'[c].inbox = y /\ conn'[c].answers = Tail(x)
      /\ conn'[c].holders = conn[c].holders
      /\ conn'[c].sock = conn[c].sock /\ conn'[c].srv = conn[c].srv
      /\ \A d \in Conns : d # c => conn'[d] = conn[d]
  BY <1>1 DEF TypeOK, Connections
<1>3. x \in Seq(Pieces) /\ y \in Seq(Pieces)
  BY <1>1, ComingType
<1>4. Coming(c) = x \o y /\ Coming(c)' = Tail(x) \o y
  BY <1>2 DEF Coming
<1>. HIDE DEF x, y
<1>5. x \o y # <<>> /\ Tail(x) \o y = Tail(x \o y)
  BY <1>1, <1>3, TailOfBoth
<1>. QED  BY <1>1, <1>2, <1>4, <1>5

(* What is answered stays to come.                                         *)
LEMMA AnswerComing ==
  ASSUME TypeOK, NEW c \in Conns, served = c, Answer
  PROVE  /\ Coming(c)' = Coming(c)
         /\ conn'[c].holders = conn[c].holders
         /\ conn'[c].sock = conn[c].sock /\ conn'[c].srv = conn[c].srv
         /\ \A d \in Conns : d # c => conn'[d] = conn[d]
<1>. DEFINE x == conn[c].answers
            y == conn[c].inbox
            u(n) == SubSeq(y, 1, n)
            v(n) == Rest(y, n)
<1>1. PICK n \in DOMAIN y :
        conn' = [conn EXCEPT ![c].inbox = v(n), ![c].answers = x \o u(n)]
  BY DEF Answer
<1>2. /\ conn'[c].inbox = v(n) /\ conn'[c].answers = x \o u(n)
      /\ conn'[c].holders = conn[c].holders
      /\ conn'[c].sock = conn[c].sock /\ conn'[c].srv = conn[c].srv
      /\ \A d \in Conns : d # c => conn'[d] = conn[d]
  BY <1>1 DEF TypeOK, Connections
<1>3. x \in Seq(Pieces) /\ y \in Seq(Pieces)
  BY ComingType
<1>4. Coming(c) = x \o y /\ Coming(c)' = (x \o u(n)) \o v(n)
  BY <1>2 DEF Coming
<1>. HIDE DEF x, y
<1>5. u(n) \in Seq(Pieces) /\ v(n) \in Seq(Pieces) /\ u(n) \o v(n) = y
  BY <1>3, FirstAndRest
<1>. HIDE DEF u, v
<1>6. \A r, s \in Seq(Pieces) : (x \o r) \o s = x \o (r \o s)
  BY <1>3, ConcatAssociative
<1>. QED  BY <1>2, <1>4, <1>5, <1>6

-----------------------------------------------------------------------------
(* A process with a request on a connection of its own: it is the only one *)
(* that has it, and all there is on it is the line under way, as far as it *)
(* has been sent.                                                          *)
Alone(p) ==
  /\ proc[p].pc \in {"hello", "send", "eol", "recv", "fail"}
  /\ proc[p].sd # NoConn /\ ~proc[p].keepalive

UnderWay(s, p, r) ==
  /\ \A n \in DOMAIN s :
       /\ s[n].by = p /\ s[n].no = r.no
       /\ IF IsEnd(s[n]) THEN n = Len(s) ELSE n = 1
  /\ r.pc \in {"hello", "send"} => s = <<>>
  /\ r.pc = "eol" => \A n \in DOMAIN s : ~IsEnd(s[n])

OwnConn(p) ==
  Alone(p) =>
    /\ \A q \in Procs : q \in conn[proc[p].sd].holders => q = p
    /\ UnderWay(Coming(proc[p].sd), p, proc[p])

EachOwn == \A p \in Procs : OwnConn(p)

LEMMA OwnAnswers == ASSUME TypeOK, EachOwn PROVE OwnAnswerOnly
BY DEF OwnAnswerOnly, EachOwn, OwnConn, Alone, UnderWay

LEMMA UnderWayEmpty == ASSUME NEW p, NEW r PROVE UnderWay(<<>>, p, r)
BY DEF UnderWay

(* Some of it is received, or lost.                                        *)
LEMMA UnderWayLess ==
  ASSUME NEW x \in Seq(Pieces), NEW y \in Seq(Pieces), NEW z \in Seq(Pieces),
         NEW p, NEW r, UnderWay(x \o (y \o z), p, r)
  PROVE  UnderWay(x \o z, p, r)
<1>. DEFINE w == y \o z
            s == x \o w
            t == x \o z
<1>1. /\ Len(x) \in Nat /\ Len(y) \in Nat /\ Len(z) \in Nat
      /\ DOMAIN x = 1..Len(x) /\ DOMAIN y = 1..Len(y) /\ DOMAIN z = 1..Len(z)
  BY LenProperties
<1>2. /\ w \in Seq(Pieces) /\ Len(w) = Len(y) + Len(z)
      /\ \A i \in 1..(Len(y) + Len(z)) :
           w[i] = IF i <= Len(y) THEN y[i] ELSE z[i - Len(y)]
  BY ConcatProperties
<1>. HIDE DEF w
<1>a. w \in Seq(Pieces)
  BY <1>2
<1>3. /\ s \in Seq(Pieces) /\ Len(s) = Len(x) + Len(w)
      /\ \A i \in 1..(Len(x) + Len(w)) :
           s[i] = IF i <= Len(x) THEN x[i] ELSE w[i - Len(x)]
  BY <1>a, ConcatProperties
<1>4. /\ t \in Seq(Pieces) /\ Len(t) = Len(x) + Len(z)
      /\ \A i \in 1..(Len(x) + Len(z)) :
           t[i] = IF i <= Len(x) THEN x[i] ELSE z[i - Len(x)]
  BY ConcatProperties
<1>. HIDE DEF s, t
<1>5. DOMAIN s = 1..Len(s) /\ DOMAIN t = 1..Len(t)
  BY <1>3, <1>4, LenProperties
<1>6. UnderWay(s, p, r)
  BY DEF s, w
<1>7. ASSUME NEW j \in DOMAIN t
      PROVE  \E i \in DOMAIN s : /\ t[j] = s[i] /\ j <= i
                                 /\ Len(t) - j <= Len(s) - i
  <2>1. CASE j <= Len(x)
    <3>1. j \in 1..Len(s) /\ j \in 1..(Len(x) + Len(w)) /\ j \in 1..(Len(x) + Len(z))
      BY <1>1, <1>2, <1>3, <1>4, <1>5, <2>1
    <3>2. t[j] = x[j] /\ s[j] = x[j]
      BY <1>3, <1>4, <2>1, <3>1
    <3>3. Len(t) - j <= Len(s) - j
      BY <1>1, <1>2, <1>3, <1>4, <3>1
    <3>. QED  BY <1>5, <3>1, <3>2, <3>3
  <2>2. CASE ~(j <= Len(x))
    <3>. DEFINE i == j + Len(y)
    <3>0. j \in Nat /\ j <= Len(x) + Len(z)
      BY <1>1, <1>4, <1>5
    <3>1. /\ i \in 1..(Len(x) + Len(w)) /\ ~(i <= Len(x))
          /\ i - Len(x) \in 1..(Len(y) + Len(z)) /\ ~(i - Len(x) <= Len(y))
          /\ i - Len(x) - Len(y) = j - Len(x)
      BY <1>1, <1>2, <2>2, <3>0
    <3>2. s[i] = w[i - Len(x)]
      BY <1>3, <3>1
    <3>3. w[i - Len(x)] = z[i - Len(x) - Len(y)]
      BY <1>2, <3>1
    <3>4. t[j] = z[j - Len(x)]
      BY <1>4, <1>5, <2>2
    <3>5. j <= i /\ Len(t) - j <= Len(s) - i
      BY <1>1, <1>2, <1>3, <1>4, <3>0
    <3>6. t[j] = s[i] /\ i \in DOMAIN s
      BY <1>3, <1>5, <3>1, <3>2, <3>3, <3>4
    <3>. QED  BY <3>5, <3>6
  <2>. QED  BY <2>1, <2>2
<1>8. ASSUME NEW j \in DOMAIN t
      PROVE  /\ t[j].by = p /\ t[j].no = r.no
             /\ IF IsEnd(t[j]) THEN j = Len(t) ELSE j = 1
             /\ r.pc = "eol" => ~IsEnd(t[j])
  <2>1. PICK i \in DOMAIN s : t[j] = s[i] /\ j <= i /\ Len(t) - j <= Len(s) - i
    BY <1>7
  <2>2. /\ s[i].by = p /\ s[i].no = r.no
        /\ IF IsEnd(s[i]) THEN i = Len(s) ELSE i = 1
        /\ r.pc = "eol" => ~IsEnd(s[i])
    BY <1>6 DEF UnderWay
  <2>3. /\ i \in Nat /\ j \in Nat /\ j >= 1 /\ j <= Len(t)
        /\ Len(s) \in Nat /\ Len(t) \in Nat
    BY <1>1, <1>2, <1>3, <1>4, <1>5
  <2>4. CASE IsEnd(s[i])
    <3>1. j = Len(t)
      BY <2>1, <2>2, <2>3, <2>4
    <3>. QED  BY <2>1, <2>2, <2>4, <3>1
  <2>5. CASE ~IsEnd(s[i])
    <3>1. j = 1
      BY <2>1, <2>2, <2>3, <2>5
    <3>. QED  BY <2>1, <2>2, <2>5, <3>1
  <2>. QED  BY <2>4, <2>5
<1>9. ASSUME s = <<>>
      PROVE  t = <<>>
  <2>1. DOMAIN t = {}
    <3>1. DOMAIN s = {}
      BY <1>9
    <3>2. \A j \in DOMAIN t : \E i \in DOMAIN s : t[j] = s[i]
      BY <1>7
    <3>. QED  BY <3>1, <3>2
  <2>2. Len(t) \in Nat
    BY <1>1, <1>4
  <2>3. Len(t) = 0
    BY <1>5, <2>1, <2>2
  <2>. QED  BY <1>4, <2>3, EmptySeq
<1>10. UnderWay(t, p, r)
  BY <1>6, <1>8, <1>9 DEF UnderWay
<1>. QED  BY <1>10 DEF t

LEMMA UnderWayTail ==
  ASSUME NEW s \in Seq(Pieces), s # <<>>, NEW p, NEW r, UnderWay(s, p, r)
  PROVE  UnderWay(Tail(s), p, r)
<1>. DEFINE h == <<Head(s)>>
            t == Tail(s)
            e == <<>>
<1>1. h \in Seq(Pieces) /\ t \in Seq(Pieces) /\ h \o t = s
  OBVIOUS
<1>2. e \in Seq(Pieces)
  OBVIOUS
<1>. HIDE DEF h, t
<1>3. e \o (h \o t) = s /\ e \o t = t
  BY <1>1, ConcatEmptySeq
<1>. HIDE DEF e
<1>4. UnderWay(e \o (h \o t), p, r)
  BY <1>3
<1>5. UnderWay(e \o t, p, r)
  BY <1>1, <1>2, <1>4, UnderWayLess
<1>. QED  BY <1>3, <1>5 DEF t

(* The end of the line is sent.                                            *)
LEMMA UnderWayEnd ==
  ASSUME NEW s \in Seq(Pieces), NEW p, NEW r, UnderWay(s, p, r), r.pc = "eol",
         NEW m \in Pieces, m.by = p, m.no = r.no, IsEnd(m),
         NEW q, q.pc = "recv", q.no = r.no
  PROVE  UnderWay(Append(s, m), p, q)
<1>. DEFINE t == Append(s, m)
<1>1. /\ Len(s) \in Nat /\ DOMAIN s = 1..Len(s)
      /\ Len(t) = Len(s) + 1 /\ DOMAIN t = 1..Len(t)
      /\ t[Len(s) + 1] = m /\ \A i \in 1..Len(s) : t[i] = s[i]
  BY LenProperties, AppendProperties
<1>. HIDE DEF t
<1>2. ASSUME NEW n \in DOMAIN t
      PROVE  /\ t[n].by = p /\ t[n].no = q.no
             /\ IF IsEnd(t[n]) THEN n = Len(t) ELSE n = 1
  <2>1. CASE n = Len(s) + 1
    BY <1>1, <2>1
  <2>2. CASE n # Len(s) + 1
    <3>1. n \in DOMAIN s /\ t[n] = s[n]
      BY <1>1, <2>2, SMTT(30)
    <3>. QED  BY <3>1 DEF UnderWay
  <2>. QED  BY <2>1, <2>2
<1>. QED  BY <1>2 DEF UnderWay, t

(* What a step leaves to a process that goes on with its request.          *)
LEMMA KeepsOwn ==
  ASSUME NEW p \in Procs, OwnConn(p),
         Alone(p)' =>
           /\ Alone(p)
           /\ proc'[p].sd = proc[p].sd /\ proc'[p].no = proc[p].no
           /\ proc'[p].pc \in {"hello", "send", "eol"} => proc'[p].pc = proc[p].pc
           /\ conn'[proc[p].sd].holders \subseteq conn[proc[p].sd].holders
           /\ conn'[proc[p].sd].answers = conn[proc[p].sd].answers
           /\ conn'[proc[p].sd].inbox = conn[proc[p].sd].inbox
  PROVE  OwnConn(p)'
BY DEF OwnConn, UnderWay, Coming

(* What a step of process a leaves to the others.                          *)
TheirsKept(a) ==
  \A c \in Conns :
    a \notin conn[c].holders /\ (\E q \in Procs : q \in conn[c].holders) =>
      /\ conn'[c].holders \subseteq conn[c].holders
      /\ conn'[c].answers = conn[c].answers
      /\ conn'[c].inbox = conn[c].inbox

OthersKept(a) ==
  \A q \in Procs :
    q # a /\ proc'[q].pc \in {"hello", "send", "eol", "recv", "fail"}
          /\ ~proc'[q].keepalive =>
      /\ proc'[q].pc = proc[q].pc /\ proc'[q].sd = proc[q].sd
      /\ proc'[q].no = proc[q].no /\ proc'[q].keepalive = proc[q].keepalive

(* All that others have is unchanged when only a's connection is.          *)
LEMMA TheirsAlone ==
  ASSUME NEW a, NEW c, a \in conn[c].holders,
         \A d \in Conns : d # c => conn'[d] = conn[d]
  PROVE  TheirsKept(a)
BY DEF TheirsKept

LEMMA OthersOwn ==
  ASSUME TypeOK, HeldOpen, EachOwn, NEW a \in Procs, TheirsKept(a), OthersKept(a),
         NEW p \in Procs, p # a
  PROVE  OwnConn(p)'
<1>. SUFFICES ASSUME Alone(p)'
              PROVE  OwnConn(p)'
  BY DEF OwnConn
<1>1. /\ Alone(p) /\ proc'[p].sd = proc[p].sd /\ proc'[p].no = proc[p].no
      /\ proc'[p].pc = proc[p].pc
  BY DEF OthersKept, Alone
<1>2. proc[p].sd \in Conns
  BY <1>1 DEF TypeOK, Processes, Alone
<1>3. p \in conn[proc[p].sd].holders /\ a \notin conn[proc[p].sd].holders
  BY <1>1 DEF HeldOpen, EachOwn, OwnConn, Alone
<1>. QED  BY <1>1, <1>2, <1>3, KeepsOwn DEF TheirsKept, EachOwn

LEMMA AloneKept ==
  ASSUME TypeOK, NEW a \in Procs, NEW r, proc' = [proc EXCEPT ![a] = r]
  PROVE  OthersKept(a) /\ proc'[a] = r
BY DEF TypeOK, OthersKept

LEMMA EndedKept ==
  ASSUME TypeOK, NEW a \in Procs, proc' = [q \in Procs |-> Ended(q, a)]
  PROVE  OthersKept(a) /\ ~Alone(a)'
<1>1. ASSUME NEW q \in Procs, q # a
      PROVE  /\ proc'[q].sd = proc[q].sd /\ proc'[q].no = proc[q].no
             /\ proc'[q].keepalive = proc[q].keepalive
             /\ proc'[q].pc \in {proc[q].pc, "none"}
  <2>1. proc[q] \in Processes /\ proc'[q] = Ended(q, a)
    BY DEF TypeOK
  <2>. QED  BY <1>1, <2>1 DEF Ended, Processes
<1>2. proc'[a].sd = NoConn
  BY DEF Ended, Fresh
<1>. QED  BY <1>1, <1>2 DEF OthersKept, Alone

LEMMA ConnectKept ==
  ASSUME TypeOK, NEW a \in Procs, NEW c \in Conns, Connect(c, a)
  PROVE  TheirsKept(a)
BY DEF TypeOK, Connect, Free, TheirsKept

LEMMA ClosePortKept ==
  ASSUME TypeOK, HeldOpen, NEW a \in Procs, ClosePort(a)
  PROVE  TheirsKept(a)
<1>1. proc[a].sd # NoConn => proc[a].sd \in Conns /\ a \in conn[proc[a].sd].holders
  BY DEF HeldOpen, TypeOK, Processes
<1>. QED  BY <1>1 DEF ClosePort, TheirsKept, TypeOK

LEMMA EndConnKept ==
  ASSUME TypeOK, NEW a \in Procs, End(a)
  PROVE  TheirsKept(a)
BY DEF End, TheirsKept, TypeOK, LeftBy

(* A process that has just connected.                                      *)
LEMMA NewOwn ==
  ASSUME TypeOK, HeldOpen, NEW a \in Procs, NEW c \in Conns, Connect(c, a),
         proc'[a].sd = c, proc'[a].pc = "send" \/ proc'[a].keepalive
  PROVE  OwnConn(a)'
<1>1. /\ conn'[c].holders = {a} /\ conn'[c].answers = <<>>
      /\ conn'[c].inbox = <<>>
  BY DEF Connect, Free, TypeOK
<1>2. Coming(c)' = <<>>
  BY <1>1 DEF Coming
<1>. QED  BY <1>1, <1>2, UnderWayEmpty DEF OwnConn, Alone, Coming

LEMMA CommandOwn ==
  ASSUME TypeOK, HeldOpen, EachOwn, NEW a \in Procs, Command(a)
  PROVE  TheirsKept(a) /\ OthersKept(a) /\ OwnConn(a)'
<1>0. proc[a] \in Processes
  BY DEF TypeOK
<1>1. CASE OneShot(a)
  <2>1. PICK c \in Conns : /\ Connect(c, a)
                           /\ proc' = [proc EXCEPT ![a].sd = c, ![a].pc = "send"]
    BY <1>1 DEF OneShot
  <2>2. proc'[a].sd = c /\ proc'[a].pc = "send"
    BY <1>0, <2>1 DEF TypeOK, Processes
  <2>3. OthersKept(a)
    BY <2>1 DEF OthersKept, TypeOK
  <2>. QED  BY <2>1, <2>2, <2>3, ConnectKept, NewOwn
<1>2. CASE KeepAlive(a)
  <2>1. PICK c \in Conns : /\ Connect(c, a)
                           /\ proc' = [proc EXCEPT ![a].sd = c, ![a].pc = "hello",
                                                   ![a].keepalive = TRUE]
    BY <1>2 DEF KeepAlive
  <2>2. proc'[a].sd = c /\ proc'[a].keepalive
    BY <1>0, <2>1 DEF TypeOK, Processes
  <2>3. OthersKept(a)
    BY <2>1 DEF OthersKept, TypeOK
  <2>. QED  BY <2>1, <2>2, <2>3, ConnectKept, NewOwn
<1>3. CASE KeptRequest(a)
  <2>1. /\ conn' = conn /\ proc' = [proc EXCEPT ![a].pc = "send"]
        /\ proc[a].keepalive
    BY <1>3 DEF KeptRequest, Goes
  <2>2. proc'[a].keepalive
    BY <1>0, <2>1 DEF TypeOK, Processes
  <2>3. OthersKept(a)
    BY <2>1 DEF OthersKept, TypeOK
  <2>. QED  BY <2>1, <2>2, <2>3 DEF TheirsKept, OwnConn, Alone
<1>4. CASE RunIt(a) \/ More(a)
  <2>1. conn' = conn /\ proc'[a].pc \in {"run", "more"}
    BY <1>0, <1>4 DEF RunIt, More, Goes, TypeOK, Processes
  <2>2. OthersKept(a)
    BY <1>4 DEF RunIt, More, Goes, TypeOK, OthersKept
  <2>. QED  BY <2>1, <2>2 DEF TheirsKept, OwnConn, Alone
<1>5. CASE Refused(a) \/ Exit(a)
  <2>1. End(a) /\ proc' = [q \in Procs |-> Ended(q, a)]
    BY <1>5 DEF Refused, Exit, End
  <2>. QED  BY <2>1, EndConnKept, EndedKept DEF OwnConn
<1>6. CASE CloseKept(a)
  <2>1. ClosePort(a) /\ proc'[a].sd = NoConn
    BY <1>0, <1>6 DEF CloseKept, TypeOK, Processes
  <2>2. OthersKept(a)
    BY <1>6 DEF CloseKept, TypeOK, OthersKept
  <2>. QED  BY <2>1, <2>2, ClosePortKept DEF OwnConn, Alone
<1>7. CASE Job(a)
  <2>1. proc'[a].pc = "prompt"
    BY <1>0, <1>7 DEF Job, At, TypeOK, Processes
  <2>2. OthersKept(a)
    BY <1>7 DEF Job, TypeOK, OthersKept
  <2>3. TheirsKept(a)
    BY <1>7 DEF Job, TypeOK, Connections, TheirsKept
  <2>. QED  BY <2>1, <2>2, <2>3 DEF OwnConn, Alone
<1>8. CASE Background(a)
  <2>. DEFINE child == [Fresh EXCEPT !.keepalive = proc[a].keepalive,
                          !.sd = proc[a].sd, !.disp = "block"]
              x == [child EXCEPT !.pc = "wait", !.parent = a]
              y(q) == [child EXCEPT !.bg = TRUE, !.parent = q,
                         !.pc = IF proc[a].keepalive THEN "send" ELSE "connect"]
  <2>1. PICK q \in Spares, r \in Spares :
          /\ proc[q].pc = "spare" /\ proc[r].pc = "spare"
          /\ proc' = [proc EXCEPT ![q] = x, ![r] = y(q)]
          /\ conn' = [c \in Conns |-> [conn[c] EXCEPT !.holders =
                       IF a \in conn[c].holders THEN conn[c].holders \cup {q, r}
                       ELSE conn[c].holders]]
    BY <1>8 DEF Background
  <2>2. q \in Procs /\ r \in Procs /\ a # q /\ a # r
    BY <1>8, <2>1 DEF Procs, Background, At
  <2>3. x.pc = "wait" /\ (y(q).pc \in {"hello", "send", "eol", "recv", "fail"} => y(q).keepalive)
    BY <1>0 DEF Fresh, Processes
  <2>4. TheirsKept(a)
    BY <2>1 DEF TypeOK, Connections, TheirsKept
  <2>. HIDE DEF x, y
  <2>5. OthersKept(a) /\ proc'[a] = proc[a]
    BY <2>1, <2>2, <2>3 DEF TypeOK, OthersKept
  <2>6. ~Alone(a)'
    BY <1>8, <2>5 DEF Background, At, Alone
  <2>. QED  BY <2>4, <2>5, <2>6 DEF OwnConn
<1>9. CASE BackgroundFails(a)
  <2>. DEFINE x == [Fresh EXCEPT !.parent = a,
                      !.keepalive = proc[a].keepalive, !.sd = proc[a].sd]
  <2>1. PICK q \in Spares :
          /\ proc[q].pc = "spare"
          /\ proc' = [proc EXCEPT ![q] = x]
          /\ conn' = [c \in Conns |-> [conn[c] EXCEPT !.holders =
                       IF a \in conn[c].holders THEN conn[c].holders \cup {q}
                       ELSE conn[c].holders]]
    BY <1>9 DEF BackgroundFails
  <2>2. q \in Procs /\ a # q
    BY <1>9, <2>1 DEF Procs, BackgroundFails, At
  <2>3. x.pc = "prompt"
    BY DEF Fresh
  <2>4. TheirsKept(a)
    BY <2>1 DEF TypeOK, Connections, TheirsKept
  <2>. HIDE DEF x
  <2>5. OthersKept(a) /\ proc'[a] = proc[a]
    BY <2>1, <2>2, <2>3 DEF TypeOK, OthersKept
  <2>6. ~Alone(a)'
    BY <1>9, <2>5 DEF BackgroundFails, At, Alone
  <2>. QED  BY <2>4, <2>5, <2>6 DEF OwnConn
<1>. QED
  BY <1>1, <1>2, <1>3, <1>4, <1>5, <1>6, <1>7, <1>8, <1>9 DEF Command

LEMMA StepOwn ==
  ASSUME TypeOK, HeldOpen, EachOwn, NEW a \in Procs, Step(a)
  PROVE  TheirsKept(a) /\ OthersKept(a) /\ OwnConn(a)'
<1>0. proc[a] \in Processes /\ OwnConn(a)
  BY DEF TypeOK, EachOwn
<1>a. proc[a].sd # NoConn => proc[a].sd \in Conns /\ a \in conn[proc[a].sd].holders
  BY DEF HeldOpen, TypeOK, Processes
<1>b. \A c \in Conns : proc[a].sd = c => a \in conn[c].holders
  BY <1>a, ServerConstantsOK DEF ServerConstantsOK
<1>c. ASSUME End(a)
      PROVE  TheirsKept(a) /\ OthersKept(a) /\ OwnConn(a)'
  BY <1>c, EndConnKept, EndedKept DEF OwnConn, End
<1>d. ASSUME ClosePort(a), NEW r, proc' = [proc EXCEPT ![a] = r], r.sd = NoConn
      PROVE  TheirsKept(a) /\ OthersKept(a) /\ OwnConn(a)'
  BY <1>d, ClosePortKept, AloneKept DEF OwnConn, Alone
<1>1. CASE BgConnect(a)
  <2>1. PICK c \in Conns \cup {NoConn} :
          /\ proc' = [proc EXCEPT ![a].sd = c, ![a].pc = "send"]
          /\ \/ c \in Conns /\ Connect(c, a)
             \/ c = NoConn /\ UNCHANGED conn
    BY <1>1 DEF BgConnect
  <2>2. proc'[a].sd = c /\ proc'[a].pc = "send"
    BY <1>0, <2>1 DEF TypeOK, Processes
  <2>3. OthersKept(a)
    BY <2>1 DEF OthersKept, TypeOK
  <2>4. CASE c \in Conns /\ Connect(c, a)
    BY <2>2, <2>3, <2>4, ConnectKept, NewOwn
  <2>5. CASE c = NoConn /\ UNCHANGED conn
    BY <2>2, <2>3, <2>5 DEF TheirsKept, OwnConn, Alone
  <2>. QED  BY <2>1, <2>4, <2>5
<1>2. ASSUME NEW text \in {"line", "quit"}, SendText(a, text)
      PROVE  TheirsKept(a) /\ OthersKept(a) /\ OwnConn(a)'
  <2>. DEFINE m == Piece(a, proc[a].no + 1, text)
  <2>0. proc[a].pc \in {"hello", "send"}
    BY <1>2 DEF SendText, At
  <2>1. CASE Nowhere(a) /\ Goes(a, "eol")
    <3>. DEFINE r == [proc[a] EXCEPT !.pc = "eol"]
    <3>1. /\ proc' = [proc EXCEPT ![a] = r] /\ r.pc = "eol" /\ r.sd = proc[a].sd
          /\ r.no = proc[a].no /\ r.keepalive = proc[a].keepalive
      BY <1>0, <2>1 DEF Goes, Processes
    <3>. HIDE DEF r
    <3>2. OthersKept(a) /\ proc'[a] = r
      BY <3>1, AloneKept
    <3>3. TheirsKept(a)
      BY <2>1, NowhereComing DEF TheirsKept
    <3>4. ASSUME Alone(a)'
          PROVE  OwnConn(a)'
      <4>1. Alone(a) /\ proc[a].sd \in Conns
        BY <2>0, <3>1, <3>2, <3>4, <1>a DEF Alone
      <4>2. /\ Coming(proc[a].sd) = <<>>
            /\ \A q \in Procs : q \in conn[proc[a].sd].holders => q = a
        BY <1>0, <2>0, <4>1 DEF OwnConn, UnderWay
      <4>3. /\ conn'[proc[a].sd].holders = conn[proc[a].sd].holders
            /\ Coming(proc[a].sd)' = Coming(proc[a].sd)
        BY <2>1, <3>1, <3>2, <4>1, NowhereComing DEF Coming
      <4>4. UnderWay(Coming(proc[a].sd)', a, proc'[a])
        BY <4>2, <4>3, UnderWayEmpty
      <4>. QED  BY <3>1, <3>2, <4>2, <4>3, <4>4 DEF OwnConn
    <3>. QED  BY <3>2, <3>3, <3>4 DEF OwnConn
  <2>2. CASE End(a)
    BY <1>c, <2>2
  <2>3. CASE /\ Puts(a, <<m>>)
             /\ proc' = [proc EXCEPT ![a].pc = "eol", ![a].no = @ + 1]
    <3>. DEFINE r == [proc[a] EXCEPT !.pc = "eol", !.no = proc[a].no + 1]
    <3>0. PICK c \in Conns : c = proc[a].sd
      BY <1>a, <2>3 DEF Puts
    <3>1. /\ m \in Pieces /\ m.by = a /\ m.no = proc[a].no + 1 /\ ~IsEnd(m)
      BY <1>0, <1>2 DEF Pieces, Piece, Processes, IsEnd
    <3>2. /\ proc' = [proc EXCEPT ![a] = r] /\ r.pc = "eol" /\ r.no = m.no
          /\ r.sd = proc[a].sd /\ r.keepalive = proc[a].keepalive
      BY <1>0, <2>3, <3>1 DEF Processes
    <3>. HIDE DEF m, r
    <3>3. OthersKept(a) /\ proc'[a] = r
      BY <3>2, AloneKept
    <3>4. /\ Coming(c)' = Append(Coming(c), m)
          /\ conn'[c].holders = conn[c].holders
          /\ \A d \in Conns : d # c => conn'[d] = conn[d]
      BY <2>3, <3>0, <3>1, PutsComing
    <3>5. TheirsKept(a)
      <4>1. a \in conn[c].holders
        BY <1>b, <3>0
      <4>. QED  BY <3>4, <4>1, TheirsAlone
    <3>6. ASSUME Alone(a)'
          PROVE  OwnConn(a)'
      <4>1. Alone(a)
        BY <2>0, <3>2, <3>3, <3>6 DEF Alone
      <4>2. /\ Coming(c) = <<>>
            /\ \A q \in Procs : q \in conn[c].holders => q = a
        BY <1>0, <2>0, <3>0, <4>1 DEF OwnConn, UnderWay
      <4>3. UnderWay(Append(<<>>, m), a, r)
        BY <3>1, <3>2 DEF UnderWay
      <4>4. UnderWay(Coming(c)', a, r)
        BY <3>4, <4>2, <4>3
      <4>. QED  BY <3>0, <3>2, <3>3, <3>4, <4>2, <4>4 DEF OwnConn, Coming
    <3>. QED  BY <3>3, <3>5, <3>6 DEF OwnConn
  <2>. QED  BY <1>2, <2>1, <2>2, <2>3 DEF SendText, Killed
<1>12. CASE SendEnd(a)
  <2>. DEFINE m == Piece(a, proc[a].no, "eol")
              r == [proc[a] EXCEPT !.pc = "recv"]
  <2>0. proc[a].pc = "eol"
    BY <1>12 DEF SendEnd, At
  <2>2. CASE End(a)
    BY <1>c, <2>2
  <2>3. CASE (Nowhere(a) \/ Puts(a, <<m>>)) /\ Goes(a, "recv")
    <3>1. m \in Pieces /\ m.by = a /\ m.no = proc[a].no /\ IsEnd(m)
      BY <1>0 DEF Pieces, Piece, Processes, IsEnd
    <3>2. /\ proc' = [proc EXCEPT ![a] = r] /\ r.pc = "recv"
          /\ r.no = proc[a].no /\ r.sd = proc[a].sd
          /\ r.keepalive = proc[a].keepalive
      BY <1>0, <2>3 DEF Goes, Processes
    <3>. HIDE DEF m, r
    <3>3. OthersKept(a) /\ proc'[a] = r
      BY <3>2, AloneKept
    <3>4. CASE Nowhere(a)
      <4>1. TheirsKept(a)
        BY <3>4, NowhereComing DEF TheirsKept
      <4>2. OwnConn(a)'
        BY <1>0, <1>a, <2>0, <3>2, <3>3, <3>4, NowhereComing, KeepsOwn DEF Alone
      <4>. QED  BY <3>3, <4>1, <4>2
    <3>5. CASE Puts(a, <<m>>)
      <4>0. PICK c \in Conns : c = proc[a].sd
        BY <1>a, <3>5 DEF Puts
      <4>1. /\ Coming(c)' = Append(Coming(c), m)
            /\ conn'[c].holders = conn[c].holders
            /\ \A d \in Conns : d # c => conn'[d] = conn[d]
        BY <3>1, <3>5, <4>0, PutsComing
      <4>2. TheirsKept(a)
        <5>1. a \in conn[c].holders
          BY <1>b, <4>0
        <5>. QED  BY <4>1, <5>1, TheirsAlone
      <4>3. ASSUME Alone(a)'
            PROVE  OwnConn(a)'
        <5>1. Alone(a)
          BY <2>0, <3>2, <3>3, <4>3 DEF Alone
        <5>2. /\ UnderWay(Coming(c), a, proc[a])
              /\ \A q \in Procs : q \in conn[c].holders => q = a
          BY <1>0, <4>0, <5>1 DEF OwnConn
        <5>3. Coming(c) \in Seq(Pieces)
          BY ComingType
        <5>4. UnderWay(Append(Coming(c), m), a, r)
          BY <2>0, <3>1, <3>2, <5>2, <5>3, UnderWayEnd
        <5>5. UnderWay(Coming(c)', a, r)
          BY <4>1, <5>4
        <5>. QED  BY <3>2, <3>3, <4>0, <4>1, <5>2, <5>5 DEF OwnConn, Coming
      <4>. QED  BY <3>3, <4>2, <4>3 DEF OwnConn
    <3>. QED  BY <2>3, <3>4, <3>5
  <2>. QED  BY <1>12, <2>2, <2>3 DEF SendEnd, Killed
<1>3. CASE Receive(a)
  <2>0. PICK c \in Conns : c = proc[a].sd
    BY <1>3, <1>a DEF Receive
  <2>1. /\ Coming(c) # <<>> /\ Coming(c)' = Tail(Coming(c))
        /\ conn'[c].holders = conn[c].holders
        /\ \A d \in Conns : d # c => conn'[d] = conn[d]
    BY <1>3, <2>0, ReceiveComing
  <2>2. proc' = proc
    BY <1>3 DEF Receive
  <2>4. TheirsKept(a) /\ OthersKept(a)
    <3>1. a \in conn[c].holders
      BY <1>b, <2>0
    <3>. QED  BY <2>1, <2>2, <3>1, TheirsAlone DEF OthersKept
  <2>5. ASSUME Alone(a)
        PROVE  OwnConn(a)'
    <3>1. /\ UnderWay(Coming(c), a, proc[a])
          /\ \A q \in Procs : q \in conn[c].holders => q = a
      BY <1>0, <2>0, <2>5 DEF OwnConn
    <3>2. Coming(c) \in Seq(Pieces)
      BY ComingType
    <3>3. UnderWay(Coming(c)', a, proc[a])
      BY <2>1, <3>1, <3>2, UnderWayTail
    <3>. QED  BY <2>0, <2>1, <2>2, <3>1, <3>3 DEF OwnConn, Coming
  <2>6. ASSUME ~Alone(a)
        PROVE  OwnConn(a)'
    <3>1. ~Alone(a)'
      BY <2>2, <2>6 DEF Alone
    <3>. QED  BY <3>1 DEF OwnConn
  <2>. QED  BY <2>4, <2>5, <2>6
<1>4. CASE Timeout(a)
  <2>1. CASE proc[a].bg \/ proc[a].keepalive
    <3>1. PICK k \in {"prompt", "bgdone"} : Goes(a, k) /\ UNCHANGED conn
      BY <1>4, <2>1 DEF Timeout
    <3>2. proc'[a].pc = k
      BY <1>0, <3>1 DEF Goes, TypeOK, Processes
    <3>3. OthersKept(a)
      BY <3>1 DEF Goes, TypeOK, OthersKept
    <3>. QED  BY <3>1, <3>2, <3>3 DEF TheirsKept, OwnConn, Alone
  <2>2. CASE ~(proc[a].bg \/ proc[a].keepalive)
    <3>. DEFINE r == [proc[a] EXCEPT !.pc = "prompt", !.sd = NoConn]
    <3>1. proc' = [proc EXCEPT ![a] = r] /\ r.sd = NoConn /\ ClosePort(a)
      BY <1>0, <1>4, <2>2 DEF Timeout, Processes
    <3>. HIDE DEF r
    <3>. QED  BY <1>d, <3>1
  <2>. QED  BY <2>1, <2>2
<1>5. CASE StreamEnds(a)
  <2>1. CASE proc[a].bg
    <3>. DEFINE r == [proc[a] EXCEPT !.sd = NoConn]
    <3>1. proc' = [proc EXCEPT ![a] = r] /\ r.sd = NoConn /\ ClosePort(a)
      BY <1>0, <1>5, <2>1 DEF StreamEnds, Processes
    <3>. HIDE DEF r
    <3>. QED  BY <1>d, <3>1
  <2>2. CASE ~proc[a].bg
    <3>1. /\ proc' = [q \in Procs |-> Ended(q, a)]
          /\ conn' = [d \in Conns |-> IF d = proc[a].sd THEN Shut(conn[d], a)
                                      ELSE LeftBy(conn[d], a)]
          /\ proc[a].sd # NoConn
      BY <1>5, <2>2 DEF StreamEnds, Silent
    <3>2. TheirsKept(a)
      BY <1>a, <3>1 DEF TheirsKept, TypeOK, LeftBy
    <3>. QED  BY <3>1, <3>2, EndedKept DEF OwnConn
  <2>. QED  BY <2>1, <2>2
<1>6. CASE ReceiveFails(a)
  <2>. DEFINE r == [proc[a] EXCEPT !.sd = NoConn,
                      !.pc = IF proc[a].bg THEN "bgdone" ELSE "prompt"]
  <2>1. proc' = [proc EXCEPT ![a] = r] /\ r.sd = NoConn /\ ClosePort(a)
    BY <1>0, <1>6 DEF ReceiveFails, Processes
  <2>. HIDE DEF r
  <2>. QED  BY <1>d, <2>1
<1>7. CASE BgDone(a)
  <2>1. CASE End(a)
    BY <1>c, <2>1
  <2>2. CASE /\ proc' = [proc EXCEPT ![a].pc = "prompt", ![a].bg = FALSE]
             /\ UNCHANGED conn
    <3>1. proc'[a].pc = "prompt"
      BY <1>0, <2>2 DEF TypeOK, Processes
    <3>2. OthersKept(a)
      BY <2>2 DEF TypeOK, OthersKept
    <3>. QED  BY <2>2, <3>1, <3>2 DEF TheirsKept, OwnConn, Alone
  <2>. QED  BY <1>7, <2>1, <2>2 DEF BgDone
<1>8. CASE Waited(a)
  <2>1. PICK r \in Procs :
          /\ proc[r].pc = "zombie"
          /\ proc' = [proc EXCEPT ![r].pc = "none", ![r].parent = NoProc,
                     ![a].pc = "prompt", ![a].disp = "reap", ![a].pending = FALSE]
    BY <1>8 DEF Waited
  <2>2. conn' = conn /\ r # a
    BY <1>8, <2>1 DEF Waited, At
  <2>3. proc'[a].pc = "prompt" /\ proc'[r].pc = "none"
    BY <2>1, <2>2 DEF TypeOK, Processes
  <2>4. OthersKept(a)
    BY <2>1, <2>2, <2>3 DEF TypeOK, OthersKept
  <2>. QED  BY <2>2, <2>3, <2>4 DEF TheirsKept, OwnConn, Alone
<1>9. CASE TakeSignal(a)
  <2>1. PICK place \in {proc[a].pc} \cup (IF Silent(a) THEN {"fail"} ELSE {}) :
          proc' = [proc EXCEPT ![a].pc = place, ![a].pending = FALSE,
                               ![a].handler = proc[a].disp = "reap"]
    BY <1>9 DEF TakeSignal
  <2>2. /\ proc'[a].pc = place /\ proc'[a].sd = proc[a].sd
        /\ proc'[a].no = proc[a].no /\ proc'[a].keepalive = proc[a].keepalive
    BY <1>0, <2>1 DEF TypeOK, Processes
  <2>3. conn' = conn
    BY <1>9 DEF TakeSignal
  <2>4. OthersKept(a)
    BY <2>1 DEF TypeOK, OthersKept
  <2>5. place = proc[a].pc \/ (place = "fail" /\ proc[a].pc = "recv")
    BY <2>1 DEF Silent, At
  <2>6. OwnConn(a)'
    BY <1>0, <2>2, <2>3, <2>5, KeepsOwn DEF Alone
  <2>. QED  BY <2>3, <2>4, <2>6 DEF TheirsKept
<1>10. CASE Reap(a)
  <2>1. ASSUME NEW q \in Procs
        PROVE  /\ proc'[q].sd = proc[q].sd /\ proc'[q].no = proc[q].no
               /\ proc'[q].keepalive = proc[q].keepalive
               /\ proc'[q].pc \in {proc[q].pc, "none"}
    <3>1. proc[q] \in Processes
      BY DEF TypeOK
    <3>2. proc'[q] = CASE q = a -> [proc[a] EXCEPT !.job = IF @ = "done" THEN "none" ELSE @]
                       [] q # a /\ Child(q, a) /\ proc[q].pc = "zombie" ->
                            [proc[q] EXCEPT !.pc = "none", !.parent = NoProc]
                       [] OTHER -> proc[q]
      BY <1>10 DEF Reap
    <3>3. CASE q = a
      BY <3>1, <3>2, <3>3 DEF Processes
    <3>4. CASE q # a
      BY <3>1, <3>2, <3>4 DEF Processes
    <3>. QED  BY <3>3, <3>4
  <2>2. conn' = conn
    BY <1>10 DEF Reap
  <2>3. OthersKept(a)
    BY <2>1 DEF OthersKept
  <2>4. OwnConn(a)'
    BY <1>0, <2>1, <2>2, KeepsOwn DEF Alone
  <2>. QED  BY <2>2, <2>3, <2>4 DEF TheirsKept
<1>11. CASE HandlerReturns(a)
  <2>1. conn' = conn /\ OthersKept(a)
    BY <1>11 DEF HandlerReturns, TypeOK, OthersKept
  <2>2. /\ proc'[a].sd = proc[a].sd /\ proc'[a].no = proc[a].no
        /\ proc'[a].keepalive = proc[a].keepalive /\ proc'[a].pc = proc[a].pc
    BY <1>0, <1>11 DEF HandlerReturns, TypeOK, Processes
  <2>3. OwnConn(a)'
    BY <1>0, <2>1, <2>2, KeepsOwn DEF Alone
  <2>. QED  BY <2>1, <2>3 DEF TheirsKept
<1>. QED
  BY <1>1, <1>2, <1>3, <1>4, <1>5, <1>6, <1>7, <1>8, <1>9, <1>10, <1>11, <1>12
     DEF Step

(* The server answers, or throws away what it has not read.                *)
LEMMA ServerOwn ==
  ASSUME TypeOK, EachOwn, ServerNext /\ UNCHANGED proc, NEW p \in Procs
  PROVE  OwnConn(p)'
<1>. SUFFICES ASSUME Alone(p)
              PROVE  OwnConn(p)'
  BY DEF OwnConn, Alone
<1>0. PICK c \in Conns : c = proc[p].sd
  BY DEF Alone, TypeOK, Processes
<1>1. conn[c] \in Connections
  BY DEF TypeOK
<1>2. /\ \A q \in Procs : q \in conn[c].holders => q = p
      /\ UnderWay(Coming(c), p, proc[p])
  BY <1>0 DEF EachOwn, OwnConn
<1>a. /\ conn[c].answers \in Seq(Pieces) /\ conn[c].inbox \in Seq(Pieces)
      /\ Coming(c) = conn[c].answers \o conn[c].inbox
  BY ComingType DEF Coming
<1>3. ASSUME /\ conn'[c].holders \subseteq conn[c].holders
             /\ UnderWay(Coming(c)', p, proc[p])
      PROVE  OwnConn(p)'
  BY <1>0, <1>2, <1>3 DEF OwnConn, Coming
<1>4. ASSUME NEW s \in Ends, conn'[c] = Settle([conn[c] EXCEPT !.inbox = <<>>, !.srv = s])
      PROVE  OwnConn(p)'
  <2>. DEFINE r == [conn[c] EXCEPT !.inbox = <<>>, !.srv = s]
              x == conn[c].answers
              y == conn[c].inbox
              e == <<>>
  <2>1. /\ r.inbox = e /\ r.answers = x
        /\ r.holders = conn[c].holders
    BY <1>1 DEF Connections
  <2>2. conn'[c] \in {r, Free}
    BY <1>4 DEF Settle
  <2>. HIDE DEF r
  <2>3. CASE conn'[c] = Free
    <3>1. Coming(c)' = <<>> /\ conn'[c].holders = {}
      BY <2>3 DEF Free, Coming
    <3>. QED  BY <1>3, <3>1, UnderWayEmpty
  <2>4. CASE conn'[c] = r
    <3>1. x \in Seq(Pieces) /\ y \in Seq(Pieces) /\ e \in Seq(Pieces)
          /\ UnderWay(x \o y, p, proc[p])
      BY <1>2, <1>a
    <3>2. Coming(c)' = x \o e
      BY <2>1, <2>4 DEF Coming
    <3>. HIDE DEF x, y, e
    <3>3. y \o e = y
      BY <3>1, ConcatEmptySeq DEF e
    <3>4. UnderWay(x \o (y \o e), p, proc[p])
      BY <3>1, <3>3
    <3>5. UnderWay(x \o e, p, proc[p])
      BY <3>1, <3>4, UnderWayLess
    <3>. QED  BY <1>3, <2>1, <2>4, <3>2, <3>5
  <2>. QED  BY <2>2, <2>3, <2>4
<1>5. ASSUME conn'[c] = conn[c]
      PROVE  OwnConn(p)'
  <2>1. Coming(c)' = Coming(c)
    BY <1>5 DEF Coming
  <2>. QED  BY <1>2, <1>3, <1>5, <2>1
<1>6. CASE Accept \/ Start
  BY <1>5, <1>6 DEF Accept, Start
<1>7. CASE Answer
  <2>1. CASE served # c
    BY <1>5, <1>7, <2>1 DEF Answer, TypeOK
  <2>2. CASE served = c
    BY <1>2, <1>3, <1>7, <2>2, AnswerComing
  <2>. QED  BY <2>1, <2>2
<1>8. CASE Die
  <2>. DEFINE e == IF c = served /\ conn[c].inbox = <<>> THEN "fin" ELSE "rst"
  <2>1. e \in Ends
    BY DEF Ends
  <2>2. conn'[c] = IF conn[c].srv # "open" THEN conn[c]
                   ELSE Settle([conn[c] EXCEPT !.inbox = <<>>, !.srv = e])
    BY <1>1, <1>8 DEF Die
  <2>. HIDE DEF e
  <2>. QED  BY <1>4, <1>5, <2>1, <2>2
<1>9. ASSUME NEW how \in {"fin", "rst"}, Release(how)
      PROVE  OwnConn(p)'
  <2>1. conn'[c] = IF c = served
                   THEN Settle([conn[c] EXCEPT !.srv = how, !.inbox = <<>>])
                   ELSE conn[c]
    BY <1>1, <1>9 DEF Release, TypeOK
  <2>2. how \in Ends
    BY DEF Ends
  <2>3. [conn[c] EXCEPT !.srv = how, !.inbox = <<>>]
          = [conn[c] EXCEPT !.inbox = <<>>, !.srv = how]
    BY <1>1 DEF Connections
  <2>. QED  BY <1>4, <1>5, <2>1, <2>2, <2>3
<1>10. ASSUME NEW n \in DOMAIN conn[served].inbox, NEW how,
              conn' = [conn EXCEPT ![served].inbox = Rest(@, n), ![served].sock = how]
       PROVE  OwnConn(p)'
  <2>1. CASE served # c
    BY <1>1, <1>5, <1>10, <2>1 DEF TypeOK
  <2>2. CASE served = c
    <3>. DEFINE x == conn[c].answers
                y == conn[c].inbox
                u == SubSeq(y, 1, n)
                v == Rest(y, n)
    <3>1. /\ conn'[c].inbox = v /\ conn'[c].answers = x
          /\ conn'[c].holders = conn[c].holders
      BY <1>1, <1>10, <2>2 DEF TypeOK, Connections
    <3>2. Coming(c)' = x \o v
      BY <3>1 DEF Coming
    <3>3. x \in Seq(Pieces) /\ y \in Seq(Pieces) /\ n \in DOMAIN y
          /\ UnderWay(x \o y, p, proc[p])
      BY <1>2, <1>a, <2>2
    <3>. HIDE DEF x, y
    <3>4. u \in Seq(Pieces) /\ v \in Seq(Pieces) /\ u \o v = y
      BY <3>3, FirstAndRest
    <3>. HIDE DEF u, v
    <3>5. UnderWay(x \o (u \o v), p, proc[p])
      BY <3>3, <3>4
    <3>6. UnderWay(x \o v, p, proc[p])
      BY <3>3, <3>4, <3>5, UnderWayLess
    <3>. QED  BY <1>3, <3>1, <3>2, <3>6
  <2>. QED  BY <2>1, <2>2
<1>. QED
  BY <1>6, <1>7, <1>8, <1>9, <1>10
     DEF ServerNext, Serve, AnswerGone, AcceptFails, Quit, Eof, Broken

LEMMA OwnNext ==
  ASSUME TypeOK, HeldOpen, EachOwn, [Next]_vars
  PROVE  EachOwn'
<1>1. CASE ServerNext /\ UNCHANGED proc
  BY <1>1, ServerOwn DEF EachOwn
<1>2. ASSUME NEW a \in Procs, TheirsKept(a), OthersKept(a), OwnConn(a)'
      PROVE  EachOwn'
  <2>1. \A p \in Procs : OwnConn(p)'
    BY <1>2, OthersOwn
  <2>. QED  BY <2>1 DEF EachOwn
<1>3. ASSUME NEW a \in Procs, StartShell(a)
      PROVE  EachOwn'
  <2>1. conn' = conn /\ OthersKept(a)
    BY <1>3 DEF StartShell, OthersKept, TypeOK
  <2>2. proc'[a].pc = "prompt"
    BY <1>3 DEF StartShell, Fresh, TypeOK
  <2>. QED  BY <1>2, <2>1, <2>2 DEF TheirsKept, OwnConn, Alone
<1>4. ASSUME NEW a \in Procs, RunEnds(a) \/ MoreEnds(a)
      PROVE  EachOwn'
  <2>0. proc[a] \in Processes
    BY DEF TypeOK
  <2>1. conn' = conn /\ OthersKept(a)
    BY <1>4 DEF RunEnds, MoreEnds, Goes, OthersKept, TypeOK
  <2>2. proc'[a].pc = "prompt"
    BY <2>0, <1>4 DEF RunEnds, MoreEnds, Goes, TypeOK, Processes
  <2>. QED  BY <1>2, <2>1, <2>2 DEF TheirsKept, OwnConn, Alone
<1>5. ASSUME NEW a \in Procs, JobEnds(a)
      PROVE  EachOwn'
  <2>0. proc[a] \in Processes /\ \A q \in Procs : q # JobOf(a)
    BY ShellConstantsOK DEF TypeOK, ShellConstantsOK
  <2>1. OthersKept(a)
    BY <1>5 DEF JobEnds, OthersKept, TypeOK
  <2>2. /\ proc'[a].pc = proc[a].pc /\ proc'[a].sd = proc[a].sd
        /\ proc'[a].no = proc[a].no /\ proc'[a].keepalive = proc[a].keepalive
    BY <2>0, <1>5 DEF JobEnds, TypeOK, Processes
  <2>3. ASSUME NEW c \in Conns, NEW q \in Procs, q \in conn[c].holders
        PROVE  /\ conn'[c].holders \subseteq conn[c].holders
               /\ conn'[c].answers = conn[c].answers
               /\ conn'[c].inbox = conn[c].inbox
    <3>1. conn'[c] = LeftBy(conn[c], JobOf(a)) /\ conn[c] \in Connections
      BY <1>5 DEF JobEnds, TypeOK
    <3>. DEFINE r == conn[c]
                t == IF r.sock = "open" /\ r.holders = {JobOf(a)}
                     THEN Closed(r) ELSE r.sock
                s == [r EXCEPT !.holders = r.holders \ {JobOf(a)}, !.sock = t]
    <3>2. s.holders = r.holders \ {JobOf(a)} /\ s.answers = r.answers
          /\ s.inbox = r.inbox
      BY <3>1 DEF Connections
    <3>3. s.holders # {}
      BY <2>0, <2>3, <3>2
    <3>. HIDE DEF s
    <3>4. Settle(s) = s
      BY <3>3 DEF Settle
    <3>5. conn'[c] \in {r, Settle(s)}
      BY <3>1 DEF LeftBy, s
    <3>. QED  BY <3>2, <3>4, <3>5
  <2>4. TheirsKept(a)
    BY <2>3 DEF TheirsKept
  <2>5. Alone(a) => proc[a].sd \in Conns /\ a \in conn[proc[a].sd].holders
    BY <2>0 DEF Alone, HeldOpen, Processes
  <2>6. OwnConn(a)'
    BY <2>2, <2>3, <2>5, KeepsOwn DEF Alone, EachOwn
  <2>. QED  BY <1>2, <2>1, <2>4, <2>6
<1>6. CASE UNCHANGED vars
  <2>1. conn' = conn /\ proc' = proc
    BY <1>6 DEF vars
  <2>2. \A p \in Procs : OwnConn(p)'
    BY <2>1, KeepsOwn DEF EachOwn, Alone
  <2>. QED  BY <2>2 DEF EachOwn
<1>. QED
  BY <1>1, <1>2, <1>3, <1>4, <1>5, <1>6, CommandOwn, StepOwn DEF Next

LEMMA OwnInit == Init => EachOwn
BY DEF Init, EachOwn, OwnConn, Alone, Fresh

(* A command on a connection of its own is never sent the answer to        *)
(* another one, late or not (rsshell.cc:328-346), in any process.          *)
THEOREM NoForeignAnswer == Spec => []OwnAnswerOnly
<1>1. Init => TypeOK /\ HeldOpen /\ SparesIdle /\ EachOwn
  BY InitType, HoldersInit, OwnInit
<1>2. TypeOK /\ HeldOpen /\ SparesIdle /\ EachOwn /\ [Next]_vars
        => (TypeOK /\ HeldOpen /\ SparesIdle /\ EachOwn)'
  BY NextType, HoldersNext, OwnNext
<1>3. TypeOK /\ EachOwn => OwnAnswerOnly
  BY OwnAnswers
<1>. QED  BY <1>1, <1>2, <1>3, PTL DEF Spec

-----------------------------------------------------------------------------
(* That answers come in the order of what was sent, whoever shares the     *)
(* connection and whatever is late.                                        *)

(* What sending and receiving do to what is to come.                       *)

(* What is received first may be taken away.                               *)
LEMMA InOrderTail ==
  ASSUME NEW s \in Seq(Pieces), s # <<>>, NEW p, NEW last, InOrder(s, p, last)
  PROVE  InOrder(Tail(s), p, last)
<1>. DEFINE t == Tail(s)
<1>1. /\ t \in Seq(Pieces) /\ Len(t) = Len(s) - 1 /\ DOMAIN t = 1..Len(t)
      /\ \A n \in 1..Len(t) : t[n] = s[n + 1]
  OBVIOUS
<1>2. Len(s) \in Nat /\ DOMAIN s = 1..Len(s)
  OBVIOUS
<1>. HIDE DEF t
<1>. SUFFICES ASSUME NEW n \in 1..Len(t), t[n].by = p
     PROVE  \/ /\ Place(t[n]) = last
               /\ \A k \in 1..Len(t) : n < k => t[k].by # p
            \/ \E m \in 1..Len(t) :
                 /\ n < m /\ t[m].by = p /\ Place(t[m]) = Place(t[n]) + 1
                 /\ \A k \in 1..Len(t) : n < k /\ k < m => t[k].by # p
  BY <1>1 DEF InOrder, t
<1>3. n + 1 \in 1..Len(s) /\ s[n + 1].by = p
  BY <1>1, <1>2
<1>4. CASE /\ Place(s[n + 1]) = last
           /\ \A k \in 1..Len(s) : n + 1 < k => s[k].by # p
  <2>1. ASSUME NEW k \in 1..Len(t), n < k
        PROVE  t[k].by # p
    <3>1. k + 1 \in 1..Len(s) /\ n + 1 < k + 1
      BY <1>1, <1>2, <2>1
    <3>. QED  BY <1>1, <1>4, <3>1
  <2>. QED  BY <1>1, <1>4, <2>1
<1>5. ASSUME NEW m \in 1..Len(s), n + 1 < m, s[m].by = p,
             Place(s[m]) = Place(s[n + 1]) + 1,
             \A k \in 1..Len(s) : n + 1 < k /\ k < m => s[k].by # p
      PROVE  \E j \in 1..Len(t) :
               /\ n < j /\ t[j].by = p /\ Place(t[j]) = Place(t[n]) + 1
               /\ \A k \in 1..Len(t) : n < k /\ k < j => t[k].by # p
  <2>1. m - 1 \in 1..Len(t) /\ n < m - 1 /\ t[m - 1] = s[m]
    BY <1>1, <1>2, <1>5
  <2>2. ASSUME NEW k \in 1..Len(t), n < k, k < m - 1
        PROVE  t[k].by # p
    <3>1. k + 1 \in 1..Len(s) /\ n + 1 < k + 1 /\ k + 1 < m
      BY <1>1, <1>2, <2>2
    <3>. QED  BY <1>1, <1>5, <3>1
  <2>3. t[m - 1].by = p /\ Place(t[m - 1]) = Place(t[n]) + 1
    BY <1>1, <1>5, <2>1
  <2>. QED  BY <2>1, <2>2, <2>3
<1>6. \/ /\ Place(s[n + 1]) = last
         /\ \A k \in 1..Len(s) : n + 1 < k => s[k].by # p
      \/ \E m \in 1..Len(s) :
           /\ n + 1 < m /\ s[m].by = p /\ Place(s[m]) = Place(s[n + 1]) + 1
           /\ \A k \in 1..Len(s) : n + 1 < k /\ k < m => s[k].by # p
  BY <1>2, <1>3 DEF InOrder
<1>. QED  BY <1>4, <1>5, <1>6

(* The next piece of p's is sent.                                          *)
LEMMA InOrderNext ==
  ASSUME NEW s \in Seq(Pieces), NEW p, NEW last \in Nat, InOrder(s, p, last),
         NEW r \in Pieces, r.by = p, Place(r) = last + 1
  PROVE  InOrder(Append(s, r), p, last + 1)
<1>. DEFINE t == Append(s, r)
<1>1. /\ Len(t) = Len(s) + 1 /\ DOMAIN t = 1..Len(t) /\ t[Len(t)] = r
      /\ \A n \in 1..Len(s) : t[n] = s[n]
  OBVIOUS
<1>2. Len(s) \in Nat /\ DOMAIN s = 1..Len(s)
  OBVIOUS
<1>. HIDE DEF t
<1>. SUFFICES ASSUME NEW n \in 1..Len(t), t[n].by = p
     PROVE  \/ /\ Place(t[n]) = last + 1
               /\ \A k \in 1..Len(t) : n < k => t[k].by # p
            \/ \E m \in 1..Len(t) :
                 /\ n < m /\ t[m].by = p /\ Place(t[m]) = Place(t[n]) + 1
                 /\ \A k \in 1..Len(t) : n < k /\ k < m => t[k].by # p
  BY <1>1 DEF InOrder, t
<1>3. CASE n = Len(t)
  BY <1>1, <1>2, <1>3
<1>4. CASE n # Len(t)
  <2>1. n \in 1..Len(s) /\ s[n].by = p
    BY <1>1, <1>2, <1>4
  <2>2. CASE /\ Place(s[n]) = last
             /\ \A k \in 1..Len(s) : n < k => s[k].by # p
    <3>1. Len(t) \in 1..Len(t) /\ n < Len(t) /\ t[Len(t)].by = p
          /\ Place(t[Len(t)]) = Place(t[n]) + 1
      BY <1>1, <1>2, <2>1, <2>2
    <3>2. \A k \in 1..Len(t) : n < k /\ k < Len(t) => t[k].by # p
      BY <1>1, <1>2, <2>2
    <3>. QED  BY <3>1, <3>2
  <2>3. ASSUME NEW m \in 1..Len(s), n < m, s[m].by = p, Place(s[m]) = Place(s[n]) + 1,
               \A k \in 1..Len(s) : n < k /\ k < m => s[k].by # p
        PROVE  \E j \in 1..Len(t) :
                 /\ n < j /\ t[j].by = p /\ Place(t[j]) = Place(t[n]) + 1
                 /\ \A k \in 1..Len(t) : n < k /\ k < j => t[k].by # p
    <3>1. m \in 1..Len(t) /\ t[m] = s[m] /\ t[n] = s[n]
      BY <1>1, <1>2, <2>1
    <3>2. \A k \in 1..Len(t) : n < k /\ k < m => t[k].by # p
      BY <1>1, <1>2, <2>3
    <3>. QED  BY <2>3, <3>1, <3>2
  <2>4. \/ /\ Place(s[n]) = last
           /\ \A k \in 1..Len(s) : n < k => s[k].by # p
        \/ \E m \in 1..Len(s) :
             /\ n < m /\ s[m].by = p /\ Place(s[m]) = Place(s[n]) + 1
             /\ \A k \in 1..Len(s) : n < k /\ k < m => s[k].by # p
    BY <1>2, <2>1 DEF InOrder
  <2>. QED  BY <2>2, <2>3, <2>4
<1>. QED  BY <1>3, <1>4

(* A piece of another process is sent.                                     *)
LEMMA InOrderOther ==
  ASSUME NEW s \in Seq(Pieces), NEW p, NEW last, InOrder(s, p, last),
         NEW r \in Pieces, r.by # p
  PROVE  InOrder(Append(s, r), p, last)
<1>. DEFINE t == Append(s, r)
<1>1. /\ Len(t) = Len(s) + 1 /\ DOMAIN t = 1..Len(t) /\ t[Len(t)] = r
      /\ \A n \in 1..Len(s) : t[n] = s[n]
  OBVIOUS
<1>2. Len(s) \in Nat /\ DOMAIN s = 1..Len(s)
  OBVIOUS
<1>. HIDE DEF t
<1>. SUFFICES ASSUME NEW n \in 1..Len(t), t[n].by = p
     PROVE  \/ /\ Place(t[n]) = last
               /\ \A k \in 1..Len(t) : n < k => t[k].by # p
            \/ \E m \in 1..Len(t) :
                 /\ n < m /\ t[m].by = p /\ Place(t[m]) = Place(t[n]) + 1
                 /\ \A k \in 1..Len(t) : n < k /\ k < m => t[k].by # p
  BY <1>1 DEF InOrder, t
<1>3. n \in 1..Len(s) /\ s[n].by = p
  BY <1>1, <1>2
<1>4. CASE /\ Place(s[n]) = last
           /\ \A k \in 1..Len(s) : n < k => s[k].by # p
  BY <1>1, <1>2, <1>3, <1>4
<1>5. ASSUME NEW m \in 1..Len(s), n < m, s[m].by = p, Place(s[m]) = Place(s[n]) + 1,
             \A k \in 1..Len(s) : n < k /\ k < m => s[k].by # p
      PROVE  \E j \in 1..Len(t) :
               /\ n < j /\ t[j].by = p /\ Place(t[j]) = Place(t[n]) + 1
               /\ \A k \in 1..Len(t) : n < k /\ k < j => t[k].by # p
  <2>1. m \in 1..Len(t) /\ t[m] = s[m] /\ t[n] = s[n]
    BY <1>1, <1>2, <1>3
  <2>2. \A k \in 1..Len(t) : n < k /\ k < m => t[k].by # p
    BY <1>1, <1>2, <1>5
  <2>. QED  BY <1>5, <2>1, <2>2
<1>. QED  BY <1>2, <1>3, <1>4, <1>5 DEF InOrder

(* Whoever has sent nothing is in order.                                   *)
LEMMA InOrderNone ==
  ASSUME NEW s \in Seq(Pieces), NEW p, NEW last,
         \A n \in DOMAIN s : s[n].by # p
  PROVE  InOrder(s, p, last)
BY DEF InOrder

LEMMA InOrderEmpty ==
  ASSUME NEW p, NEW last
  PROVE  InOrder(<<>>, p, last)
BY DEF InOrder

-----------------------------------------------------------------------------
(* The inductive invariant: InStep, and nothing that is to come is about a *)
(* process that has not been forked.                                       *)
Untraced ==
  \A p \in Procs, c \in Conns :
    proc[p].pc = "spare" /\ Open(c) =>
      \A n \in DOMAIN Coming(c) : Coming(c)[n].by # p

(* A step that sends nothing: of what is to come at most the first is      *)
(* taken, or a connection is new, and no process takes over a connection   *)
(* unless it is new or the process is.                                     *)
NothingSent(c) ==
  Open(c)' =>
    \/ Coming(c)' = <<>>
    \/ /\ Open(c)
       /\ \/ Coming(c)' = Coming(c)
          \/ Coming(c) # <<>> /\ Coming(c)' = Tail(Coming(c))

NothingTaken(p) ==
  /\ proc'[p].pc = "spare" => proc[p].pc = "spare"
  /\ \/ proc'[p].sd = NoConn
     \/ /\ proc'[p].sd = proc[p].sd /\ proc'[p].no = proc[p].no
        /\ proc'[p].pc = "eol" <=> proc[p].pc = "eol"
     \/ proc[p].pc = "spare"
     \/ conn'[proc'[p].sd].sock # "open" \/ conn'[proc'[p].sd].srv # "open"
     \/ conn'[proc'[p].sd].answers = <<>> /\ conn'[proc'[p].sd].inbox = <<>>

Quiet == /\ \A c \in Conns : NothingSent(c)
         /\ \A p \in Procs : NothingTaken(p)

LEMMA QuietStep ==
  ASSUME TypeOK, TypeOK', InStep, Untraced, Quiet
  PROVE  (InStep /\ Untraced)'
<1>1. ASSUME NEW p \in Procs, NEW d \in Conns, d = proc'[p].sd, Open(d)'
      PROVE  InOrder(Coming(d)', p, LastPlace(p)')
  <2>1. d # NoConn
    BY ServerConstantsOK DEF ServerConstantsOK
  <2>2. Coming(d) \in Seq(Pieces)
    BY ComingType
  <2>3. Coming(d)' = <<>> => InOrder(Coming(d)', p, LastPlace(p)')
    BY InOrderEmpty
  <2>4. \/ Coming(d)' = <<>>
        \/ /\ Open(d)
           /\ \/ Coming(d)' = Coming(d)
              \/ Coming(d) # <<>> /\ Coming(d)' = Tail(Coming(d))
    BY <1>1 DEF Quiet, NothingSent
  <2>5. ASSUME Open(d) => InOrder(Coming(d), p, LastPlace(p)')
        PROVE  InOrder(Coming(d)', p, LastPlace(p)')
    BY <2>2, <2>3, <2>4, <2>5, InOrderTail
  <2>6. CASE /\ d = proc[p].sd /\ proc'[p].no = proc[p].no
             /\ proc'[p].pc = "eol" <=> proc[p].pc = "eol"
    <3>1. LastPlace(p)' = LastPlace(p)
      BY <2>6 DEF LastPlace
    <3>2. Open(d) => InOrder(Coming(d), p, LastPlace(p))
      BY <2>1, <2>6 DEF InStep
    <3>. QED  BY <2>5, <3>1, <3>2
  <2>7. CASE proc[p].pc = "spare"
    <3>1. Open(d) => \A n \in DOMAIN Coming(d) : Coming(d)[n].by # p
      BY <2>7 DEF Untraced
    <3>2. Open(d) => InOrder(Coming(d), p, LastPlace(p)')
      BY <2>2, <3>1, InOrderNone
    <3>. QED  BY <2>5, <3>2
  <2>8. CASE conn'[d].answers = <<>> /\ conn'[d].inbox = <<>>
    <3>1. Coming(d)' = <<>>
      BY <2>8 DEF Coming
    <3>. QED  BY <2>3, <3>1
  <2>9. conn'[d].sock = "open" /\ conn'[d].srv = "open"
    BY <1>1 DEF Open
  <2>. QED  BY <1>1, <2>1, <2>6, <2>7, <2>8, <2>9 DEF Quiet, NothingTaken
<1>2. ASSUME NEW p \in Procs, NEW c \in Conns, proc'[p].pc = "spare", Open(c)'
      PROVE  \A n \in DOMAIN Coming(c)' : Coming(c)'[n].by # p
  <2>1. proc[p].pc = "spare"
    BY <1>2 DEF Quiet, NothingTaken
  <2>2. Coming(c) \in Seq(Pieces)
    BY ComingType
  <2>3. Open(c) => \A n \in DOMAIN Coming(c) : Coming(c)[n].by # p
    BY <2>1 DEF Untraced
  <2>4. Coming(c)' = <<>> \/ /\ Open(c)
                             /\ \/ Coming(c)' = Coming(c)
                                \/ Coming(c) # <<>> /\ Coming(c)' = Tail(Coming(c))
    BY <1>2 DEF Quiet, NothingSent
  <2>. DEFINE s == Coming(c)
  <2>5. ASSUME s \in Seq(Pieces), s # <<>>, \A n \in DOMAIN s : s[n].by # p
        PROVE  \A n \in DOMAIN Tail(s) : Tail(s)[n].by # p
    <3>. HIDE DEF s
    <3>. QED  BY <2>5
  <2>. QED  BY <2>2, <2>3, <2>4, <2>5
<1>3. \A p \in Procs : proc'[p].sd # NoConn => \E d \in Conns : d = proc'[p].sd
  BY DEF TypeOK, Processes
<1>4. InStep'
  BY <1>1, <1>3 DEF InStep
<1>. QED  BY <1>2, <1>4 DEF Untraced

-----------------------------------------------------------------------------
(* The ends of connections and of processes.                               *)

(* What is to come from a connection stays as it is as long as both sides  *)
(* have it.                                                                *)
SameWords(new, old) ==
  new.sock = "open" /\ new.srv = "open" =>
    /\ old.sock = "open" /\ old.srv = "open"
    /\ new.answers = old.answers /\ new.inbox = old.inbox

LEMMA SettleWords == ASSUME NEW r PROVE SameWords(Settle(r), r)
BY DEF SameWords, Settle, Free

LEMMA ShutWords ==
  ASSUME NEW r \in Connections, NEW p
  PROVE  SameWords(Shut(r, p), r)
<1>. DEFINE t == IF r.sock # "open" THEN r.sock
                 ELSE IF r.holders = {p} THEN Closed(r) ELSE "fin"
            s == [r EXCEPT !.holders = r.holders \ {p}, !.sock = t]
<1>1. t # "open"
  BY DEF Closed
<1>2. s.sock = t
  BY DEF Connections
<1>3. Shut(r, p) = Settle(s)
  BY DEF Shut
<1>. HIDE DEF s, t
<1>. QED  BY <1>1, <1>2, <1>3 DEF Settle, Free, SameWords

LEMMA LeftByWords ==
  ASSUME NEW r \in Connections, NEW p
  PROVE  SameWords(LeftBy(r, p), r)
<1>. DEFINE t == IF r.sock = "open" /\ r.holders = {p} THEN Closed(r) ELSE r.sock
            s == [r EXCEPT !.holders = r.holders \ {p}, !.sock = t]
<1>1. t = "open" => r.sock = "open"
  OBVIOUS
<1>2. /\ s.srv = r.srv /\ s.answers = r.answers /\ s.inbox = r.inbox
      /\ s.sock = t
  BY DEF Connections
<1>3. LeftBy(r, p) \in {r, Settle(s)}
  BY DEF LeftBy
<1>. HIDE DEF s, t
<1>. QED  BY <1>1, <1>2, <1>3, SettleWords DEF SameWords

LEMMA WordsKept ==
  ASSUME NEW c \in Conns, SameWords(conn'[c], conn[c])
  PROVE  NothingSent(c)
BY DEF SameWords, NothingSent, Coming, Open

LEMMA ConnKept ==
  ASSUME conn' = conn
  PROVE  \A c \in Conns : NothingSent(c)
BY DEF NothingSent, Coming, Open

LEMMA ClosePortQuiet ==
  ASSUME TypeOK, NEW a \in Procs, ClosePort(a)
  PROVE  \A c \in Conns : NothingSent(c)
<1>1. ASSUME NEW c \in Conns
      PROVE  SameWords(conn'[c], conn[c])
  <2>1. conn[c] \in Connections /\ conn'[c] \in {conn[c], Shut(conn[c], a)}
    BY DEF ClosePort, TypeOK
  <2>. QED  BY <2>1, ShutWords DEF SameWords
<1>. QED  BY <1>1, WordsKept

LEMMA LeftQuiet ==
  ASSUME TypeOK, NEW x, conn' = [c \in Conns |-> LeftBy(conn[c], x)]
  PROVE  \A c \in Conns : NothingSent(c)
BY LeftByWords, WordsKept DEF TypeOK

LEMMA SharedQuiet ==
  ASSUME TypeOK, NEW a, NEW more,
         conn' = [c \in Conns |-> [conn[c] EXCEPT !.holders =
                    IF a \in conn[c].holders THEN conn[c].holders \cup more
                    ELSE conn[c].holders]]
  PROVE  \A c \in Conns : NothingSent(c)
<1>1. \A c \in Conns : SameWords(conn'[c], conn[c])
  BY DEF TypeOK, Connections, SameWords
<1>. QED  BY <1>1, WordsKept

(* A new connection.                                                       *)
LEMMA ConnectQuiet ==
  ASSUME TypeOK, NEW d \in Conns, NEW a, Connect(d, a)
  PROVE  /\ \A c \in Conns : NothingSent(c)
         /\ conn'[d].answers = <<>> /\ conn'[d].inbox = <<>>
<1>1. conn'[d].answers = <<>> /\ conn'[d].inbox = <<>>
  BY DEF Connect, Free, TypeOK
<1>2. Coming(d)' = <<>>
  BY <1>1 DEF Coming
<1>3. ASSUME NEW c \in Conns, c # d
      PROVE  conn'[c] = conn[c]
  BY <1>3 DEF Connect, TypeOK
<1>4. ASSUME NEW c \in Conns, c # d
      PROVE  NothingSent(c)
  BY <1>3, <1>4, WordsKept DEF SameWords
<1>. QED  BY <1>1, <1>2, <1>4 DEF NothingSent

LEMMA OneTaken ==
  ASSUME NEW a \in Procs, NothingTaken(a),
         \A p \in Procs : p # a => proc'[p] = proc[p]
  PROVE  \A p \in Procs : NothingTaken(p)
BY DEF NothingTaken

LEMMA EndedQuiet ==
  ASSUME TypeOK, NEW a \in Procs, Alive(a), proc' = [q \in Procs |-> Ended(q, a)]
  PROVE  \A p \in Procs : NothingTaken(p)
<1>. SUFFICES ASSUME NEW p \in Procs
              PROVE  NothingTaken(p)
  OBVIOUS
<1>1. proc[p] \in Processes /\ proc'[p] = Ended(p, a)
  BY DEF TypeOK
<1>2. CASE p = a
  BY <1>1, <1>2 DEF Ended, Fresh, NothingTaken
<1>3. CASE p # a
  BY <1>1, <1>3 DEF Ended, NothingTaken, Processes
<1>. QED  BY <1>2, <1>3

LEMMA EndQuiet ==
  ASSUME TypeOK, NEW a \in Procs, Alive(a), End(a)
  PROVE  Quiet
BY EndedQuiet, LeftQuiet DEF End, Quiet

-----------------------------------------------------------------------------
(* No command sends anything.                                              *)
LEMMA CommandQuiet ==
  ASSUME TypeOK, NEW a \in Procs, Command(a)
  PROVE  Quiet
<1>0. proc[a] \in Processes
  BY DEF TypeOK
<1>1. CASE OneShot(a) \/ KeepAlive(a)
  <2>1. PICK c \in Conns :
          /\ Connect(c, a)
          /\ \/ proc' = [proc EXCEPT ![a].sd = c, ![a].pc = "send"]
             \/ proc' = [proc EXCEPT ![a].sd = c, ![a].pc = "hello",
                                     ![a].keepalive = TRUE]
    BY <1>1 DEF OneShot, KeepAlive
  <2>2. proc'[a].sd = c /\ proc'[a].pc \in {"send", "hello"}
    BY <1>0, <2>1 DEF TypeOK, Processes
  <2>3. NothingTaken(a)
    BY <2>1, <2>2, ConnectQuiet DEF NothingTaken
  <2>4. \A p \in Procs : p # a => proc'[p] = proc[p]
    BY <2>1 DEF TypeOK
  <2>. QED  BY <2>1, <2>3, <2>4, ConnectQuiet, OneTaken DEF Quiet
<1>2. CASE KeptRequest(a) \/ RunIt(a) \/ More(a)
  <2>1. /\ conn' = conn
        /\ proc'[a].pc \notin {"spare", "eol"} /\ proc[a].pc = "prompt"
        /\ proc'[a].sd = proc[a].sd /\ proc'[a].no = proc[a].no
    BY <1>0, <1>2 DEF KeptRequest, RunIt, More, At, Goes, TypeOK, Processes
  <2>2. \A p \in Procs : p # a => proc'[p] = proc[p]
    BY <1>2 DEF KeptRequest, RunIt, More, Goes, TypeOK
  <2>. QED  BY <2>1, <2>2, ConnKept, OneTaken DEF Quiet, NothingTaken
<1>3. CASE Refused(a) \/ Exit(a)
  BY <1>3, EndQuiet DEF Refused, Exit, At, Alive
<1>4. CASE CloseKept(a)
  <2>1. ClosePort(a) /\ proc'[a].sd = NoConn /\ proc'[a].pc = proc[a].pc
    BY <1>0, <1>4 DEF CloseKept, TypeOK, Processes
  <2>2. \A p \in Procs : p # a => proc'[p] = proc[p]
    BY <1>4 DEF CloseKept, TypeOK
  <2>. QED  BY <2>1, <2>2, ClosePortQuiet, OneTaken DEF Quiet, NothingTaken
<1>5. CASE Job(a)
  <2>1. proc'[a].pc = proc[a].pc /\ proc'[a].sd = proc[a].sd
        /\ proc'[a].no = proc[a].no
    BY <1>0, <1>5 DEF Job, TypeOK, Processes
  <2>2. \A p \in Procs : p # a => proc'[p] = proc[p]
    BY <1>5 DEF Job, TypeOK
  <2>3. \A c \in Conns : NothingSent(c)
    BY <1>5, SharedQuiet DEF Job
  <2>. QED  BY <2>1, <2>2, <2>3, OneTaken DEF Quiet, NothingTaken
<1>6. CASE Background(a)
  <2>. DEFINE child == [Fresh EXCEPT !.keepalive = proc[a].keepalive,
                          !.sd = proc[a].sd, !.disp = "block"]
              x == [child EXCEPT !.pc = "wait", !.parent = a]
              y(q) == [child EXCEPT !.bg = TRUE, !.parent = q,
                         !.pc = IF proc[a].keepalive THEN "send" ELSE "connect"]
  <2>1. PICK q \in Spares, r \in Spares :
          /\ proc[q].pc = "spare" /\ proc[r].pc = "spare"
          /\ proc' = [proc EXCEPT ![q] = x, ![r] = y(q)]
          /\ conn' = [c \in Conns |-> [conn[c] EXCEPT !.holders =
                       IF a \in conn[c].holders THEN conn[c].holders \cup {q, r}
                       ELSE conn[c].holders]]
    BY <1>6 DEF Background
  <2>2. \A c \in Conns : NothingSent(c)
    BY <2>1, SharedQuiet
  <2>. HIDE DEF x, y
  <2>3. \A p \in Procs : proc'[p] = proc[p] \/ proc[p].pc = "spare"
    BY <2>1 DEF TypeOK
  <2>. QED  BY <2>2, <2>3 DEF Quiet, NothingTaken
<1>7. CASE BackgroundFails(a)
  <2>. DEFINE x == [Fresh EXCEPT !.parent = a,
                      !.keepalive = proc[a].keepalive, !.sd = proc[a].sd]
  <2>1. PICK q \in Spares :
          /\ proc[q].pc = "spare"
          /\ proc' = [proc EXCEPT ![q] = x]
          /\ conn' = [c \in Conns |-> [conn[c] EXCEPT !.holders =
                       IF a \in conn[c].holders THEN conn[c].holders \cup {q}
                       ELSE conn[c].holders]]
    BY <1>7 DEF BackgroundFails
  <2>2. \A c \in Conns : NothingSent(c)
    BY <2>1, SharedQuiet
  <2>. HIDE DEF x
  <2>3. \A p \in Procs : proc'[p] = proc[p] \/ proc[p].pc = "spare"
    BY <2>1 DEF TypeOK
  <2>. QED  BY <2>2, <2>3 DEF Quiet, NothingTaken
<1>. QED
  BY <1>1, <1>2, <1>3, <1>4, <1>5, <1>6, <1>7 DEF Command

(* The next piece of a's is on its way.                                    *)
Adds(a) ==
  /\ \E m \in Pieces : /\ m.by = a /\ Place(m) = LastPlace(a) + 1
                       /\ Puts(a, <<m>>)
  /\ LastPlace(a)' = LastPlace(a) + 1
  /\ proc'[a].sd = proc[a].sd /\ proc'[a].pc # "spare"
  /\ \A p \in Procs : p # a => proc'[p] = proc[p]

(* What goes nowhere counts for no open connection.                        *)
LEMMA NowhereQuiet ==
  ASSUME TypeOK, NEW a \in Procs, NEW place, place # "spare",
         Nowhere(a), Goes(a, place)
  PROVE  Quiet
<1>0. proc[a] \in Processes
  BY DEF TypeOK
<1>1. /\ proc'[a].sd = proc[a].sd /\ proc'[a].pc = place
      /\ \A p \in Procs : p # a => proc'[p] = proc[p]
  BY <1>0 DEF Goes, TypeOK, Processes
<1>2. \A c \in Conns : SameWords(conn'[c], conn[c])
  BY NowhereComing DEF SameWords
<1>3. ASSUME proc[a].sd # NoConn
      PROVE  conn'[proc[a].sd].sock # "open" \/ conn'[proc[a].sd].srv # "open"
  <2>1. PICK c \in Conns : c = proc[a].sd
    BY <1>0, <1>3 DEF Processes
  <2>. QED  BY <1>3, <2>1, NowhereComing DEF Nowhere, Open
<1>4. NothingTaken(a)
  BY <1>1, <1>3 DEF NothingTaken
<1>. QED  BY <1>1, <1>2, <1>4, WordsKept, OneTaken DEF Quiet

LEMMA StepQuiet ==
  ASSUME TypeOK, NEW a \in Procs, Step(a)
  PROVE  Quiet \/ Adds(a)
<1>0. proc[a] \in Processes
  BY DEF TypeOK
<1>a. ASSUME ClosePort(a), NEW r, r.sd = NoConn, r.pc # "spare",
             proc' = [proc EXCEPT ![a] = r]
      PROVE  Quiet
  <2>1. proc'[a] = r /\ \A p \in Procs : p # a => proc'[p] = proc[p]
    BY <1>a DEF TypeOK
  <2>2. NothingTaken(a)
    BY <1>a, <2>1 DEF NothingTaken
  <2>. QED  BY <1>a, <2>1, <2>2, ClosePortQuiet, OneTaken DEF Quiet
<1>b. ASSUME conn' = conn, \A p \in Procs : p # a => proc'[p] = proc[p],
             proc'[a].pc # "spare", proc'[a].sd = proc[a].sd,
             proc'[a].no = proc[a].no, proc'[a].pc = "eol" <=> proc[a].pc = "eol"
      PROVE  Quiet
  BY <1>b, ConnKept, OneTaken DEF Quiet, NothingTaken
<1>1. CASE BgConnect(a)
  <2>1. PICK c \in Conns \cup {NoConn} :
          /\ proc' = [proc EXCEPT ![a].sd = c, ![a].pc = "send"]
          /\ \/ c \in Conns /\ Connect(c, a)
             \/ c = NoConn /\ UNCHANGED conn
    BY <1>1 DEF BgConnect
  <2>2. proc'[a].sd = c /\ proc'[a].pc = "send"
    BY <1>0, <2>1 DEF TypeOK, Processes
  <2>3. \A p \in Procs : p # a => proc'[p] = proc[p]
    BY <2>1 DEF TypeOK
  <2>4. NothingTaken(a)
    BY <2>1, <2>2, ConnectQuiet DEF NothingTaken
  <2>5. \A d \in Conns : NothingSent(d)
    BY <2>1, ConnectQuiet, ConnKept
  <2>. QED  BY <2>3, <2>4, <2>5, OneTaken DEF Quiet
<1>2. ASSUME NEW text \in {"line", "quit"}, SendText(a, text)
      PROVE  Quiet \/ Adds(a)
  <2>. DEFINE m == Piece(a, proc[a].no + 1, text)
  <2>0. proc[a].pc \in {"send", "hello"} /\ Alive(a)
    BY <1>2 DEF SendText, At, Alive
  <2>1. CASE Nowhere(a) /\ Goes(a, "eol")
    BY <2>1, NowhereQuiet
  <2>2. CASE End(a)
    BY <2>0, <2>2, EndQuiet
  <2>3. CASE /\ Puts(a, <<m>>)
             /\ proc' = [proc EXCEPT ![a].pc = "eol", ![a].no = @ + 1]
    <3>1. /\ m \in Pieces /\ m.by = a /\ Place(m) = 2 * (proc[a].no + 1)
      BY <1>0, <1>2 DEF Pieces, Piece, Processes, Place
    <3>2. /\ proc'[a].pc = "eol" /\ proc'[a].no = proc[a].no + 1
          /\ proc'[a].sd = proc[a].sd
          /\ \A p \in Procs : p # a => proc'[p] = proc[p]
      BY <1>0, <2>3 DEF TypeOK, Processes
    <3>3. proc[a].no \in Nat
      BY <1>0 DEF Processes
    <3>. HIDE DEF m
    <3>4. LastPlace(a) = 2 * proc[a].no + 1 /\ LastPlace(a)' = 2 * (proc[a].no + 1)
      BY <2>0, <3>2, <3>3 DEF LastPlace
    <3>5. 2 * proc[a].no + 1 + 1 = 2 * (proc[a].no + 1)
      BY <3>3
    <3>. QED  BY <2>3, <3>1, <3>2, <3>4, <3>5 DEF Adds
  <2>. QED  BY <1>2, <2>1, <2>2, <2>3 DEF SendText, Killed
<1>12. CASE SendEnd(a)
  <2>. DEFINE m == Piece(a, proc[a].no, "eol")
  <2>0. proc[a].pc = "eol" /\ Alive(a)
    BY <1>12 DEF SendEnd, At, Alive
  <2>1. CASE Nowhere(a) /\ Goes(a, "recv")
    BY <2>1, NowhereQuiet
  <2>2. CASE End(a)
    BY <2>0, <2>2, EndQuiet
  <2>3. CASE Puts(a, <<m>>) /\ Goes(a, "recv")
    <3>1. /\ m \in Pieces /\ m.by = a /\ Place(m) = 2 * proc[a].no + 1
      BY <1>0 DEF Pieces, Piece, Processes, Place
    <3>2. /\ proc'[a].pc = "recv" /\ proc'[a].no = proc[a].no
          /\ proc'[a].sd = proc[a].sd
          /\ \A p \in Procs : p # a => proc'[p] = proc[p]
      BY <1>0, <2>3 DEF Goes, TypeOK, Processes
    <3>3. proc[a].no \in Nat
      BY <1>0 DEF Processes
    <3>. HIDE DEF m
    <3>4. LastPlace(a) = 2 * proc[a].no /\ LastPlace(a)' = 2 * proc[a].no + 1
      BY <2>0, <3>2, <3>3 DEF LastPlace
    <3>. QED  BY <2>3, <3>1, <3>2, <3>4 DEF Adds
  <2>. QED  BY <1>12, <2>1, <2>2, <2>3 DEF SendEnd, Killed
<1>3. CASE Receive(a)
  <2>0. PICK c \in Conns : c = proc[a].sd
    BY <1>0, <1>3 DEF Receive, Processes
  <2>1. /\ Coming(c) # <<>> /\ Coming(c)' = Tail(Coming(c))
        /\ conn'[c].sock = conn[c].sock /\ conn'[c].srv = conn[c].srv
        /\ \A d \in Conns : d # c => conn'[d] = conn[d]
    BY <1>3, <2>0, ReceiveComing
  <2>2. proc' = proc
    BY <1>3 DEF Receive
  <2>3. NothingSent(c)
    BY <2>1 DEF NothingSent, Open
  <2>4. \A d \in Conns : NothingSent(d)
    BY <2>1, <2>3, WordsKept DEF SameWords
  <2>. QED  BY <2>2, <2>4 DEF Quiet, NothingTaken
<1>4. CASE Timeout(a)
  <2>1. CASE proc[a].bg \/ proc[a].keepalive
    <3>1. PICK k \in {"prompt", "bgdone"} : Goes(a, k) /\ UNCHANGED conn
      BY <1>4, <2>1 DEF Timeout
    <3>2. proc[a].pc = "recv"
      BY <1>4 DEF Timeout, Silent, At
    <3>3. /\ proc'[a].pc = k /\ proc'[a].sd = proc[a].sd
          /\ proc'[a].no = proc[a].no
          /\ \A p \in Procs : p # a => proc'[p] = proc[p]
      BY <1>0, <3>1 DEF Goes, TypeOK, Processes
    <3>. QED  BY <1>b, <3>1, <3>2, <3>3
  <2>2. CASE ~(proc[a].bg \/ proc[a].keepalive)
    <3>. DEFINE r == [proc[a] EXCEPT !.pc = "prompt", !.sd = NoConn]
    <3>1. /\ proc' = [proc EXCEPT ![a] = r] /\ r.sd = NoConn /\ r.pc = "prompt"
          /\ ClosePort(a)
      BY <1>0, <1>4, <2>2 DEF Timeout, Processes
    <3>. HIDE DEF r
    <3>. QED  BY <1>a, <3>1
  <2>. QED  BY <2>1, <2>2
<1>5. CASE StreamEnds(a)
  <2>0. proc[a].pc = "recv" /\ Alive(a)
    BY <1>5 DEF StreamEnds, Silent, At, Alive
  <2>1. CASE proc[a].bg
    <3>. DEFINE r == [proc[a] EXCEPT !.sd = NoConn]
    <3>1. /\ proc' = [proc EXCEPT ![a] = r] /\ r.sd = NoConn /\ r.pc = "recv"
          /\ ClosePort(a)
      BY <1>0, <1>5, <2>0, <2>1 DEF StreamEnds, Processes
    <3>. HIDE DEF r
    <3>. QED  BY <1>a, <3>1
  <2>2. CASE ~proc[a].bg
    <3>1. /\ proc' = [q \in Procs |-> Ended(q, a)]
          /\ conn' = [d \in Conns |-> IF d = proc[a].sd THEN Shut(conn[d], a)
                                      ELSE LeftBy(conn[d], a)]
      BY <1>5, <2>2 DEF StreamEnds
    <3>2. \A d \in Conns : SameWords(conn'[d], conn[d])
      BY <3>1, ShutWords, LeftByWords DEF TypeOK
    <3>. QED  BY <2>0, <3>1, <3>2, WordsKept, EndedQuiet DEF Quiet
  <2>. QED  BY <2>1, <2>2
<1>6. CASE ReceiveFails(a)
  <2>. DEFINE r == [proc[a] EXCEPT !.sd = NoConn,
                      !.pc = IF proc[a].bg THEN "bgdone" ELSE "prompt"]
  <2>1. /\ proc' = [proc EXCEPT ![a] = r] /\ r.sd = NoConn /\ r.pc # "spare"
        /\ ClosePort(a)
    BY <1>0, <1>6 DEF ReceiveFails, Processes
  <2>. HIDE DEF r
  <2>. QED  BY <1>a, <2>1
<1>7. CASE BgDone(a)
  <2>1. CASE End(a)
    BY <1>7, <2>1, EndQuiet DEF BgDone, At, Alive
  <2>2. CASE /\ proc' = [proc EXCEPT ![a].pc = "prompt", ![a].bg = FALSE]
             /\ UNCHANGED conn
    <3>1. proc[a].pc = "bgdone"
      BY <1>7 DEF BgDone, At
    <3>2. /\ proc'[a].pc = "prompt" /\ proc'[a].sd = proc[a].sd
          /\ proc'[a].no = proc[a].no
          /\ \A p \in Procs : p # a => proc'[p] = proc[p]
      BY <1>0, <2>2 DEF TypeOK, Processes
    <3>. QED  BY <1>b, <2>2, <3>1, <3>2
  <2>. QED  BY <1>7, <2>1, <2>2 DEF BgDone
<1>8. CASE Waited(a)
  <2>1. PICK r \in Procs :
          /\ proc[r].pc = "zombie"
          /\ proc' = [proc EXCEPT ![r].pc = "none", ![r].parent = NoProc,
                     ![a].pc = "prompt", ![a].disp = "reap", ![a].pending = FALSE]
    BY <1>8 DEF Waited
  <2>2. conn' = conn /\ r # a
    BY <1>8, <2>1 DEF Waited, At
  <2>3. ASSUME NEW p \in Procs
        PROVE  /\ proc'[p].sd = proc[p].sd /\ proc'[p].no = proc[p].no
               /\ proc'[p].pc # "spare" \/ proc'[p].pc = proc[p].pc
               /\ proc'[p].pc = "eol" <=> proc[p].pc = "eol"
    <3>1. proc[p] \in Processes /\ proc[a].pc = "wait"
      BY <1>8 DEF TypeOK, Waited, At
    <3>2. CASE p = r
      BY <2>1, <2>2, <3>1, <3>2 DEF TypeOK, Processes
    <3>3. CASE p = a
      BY <2>1, <2>2, <3>1, <3>3 DEF TypeOK, Processes
    <3>4. CASE p # a /\ p # r
      BY <2>1, <2>2, <3>4 DEF TypeOK
    <3>. QED  BY <3>2, <3>3, <3>4
  <2>. QED  BY <2>2, <2>3, ConnKept DEF Quiet, NothingTaken
<1>9. CASE TakeSignal(a)
  <2>1. PICK place \in {proc[a].pc} \cup (IF Silent(a) THEN {"fail"} ELSE {}) :
          proc' = [proc EXCEPT ![a].pc = place, ![a].pending = FALSE,
                               ![a].handler = proc[a].disp = "reap"]
    BY <1>9 DEF TakeSignal
  <2>2. /\ proc'[a].pc = place /\ proc'[a].sd = proc[a].sd
        /\ proc'[a].no = proc[a].no
        /\ \A p \in Procs : p # a => proc'[p] = proc[p]
    BY <1>0, <2>1 DEF TypeOK, Processes
  <2>3. /\ conn' = conn /\ place # "spare"
        /\ place = "eol" <=> proc[a].pc = "eol"
    BY <1>9, <2>1 DEF TakeSignal, Alive, Silent, At
  <2>. QED  BY <1>b, <2>2, <2>3
<1>10. CASE Reap(a)
  <2>1. ASSUME NEW q \in Procs
        PROVE  /\ proc'[q].sd = proc[q].sd /\ proc'[q].no = proc[q].no
               /\ \/ proc'[q].pc = proc[q].pc
                  \/ proc'[q].pc = "none" /\ proc[q].pc = "zombie"
    <3>1. proc[q] \in Processes
      BY DEF TypeOK
    <3>2. proc'[q] = CASE q = a -> [proc[a] EXCEPT !.job = IF @ = "done" THEN "none" ELSE @]
                       [] q # a /\ Child(q, a) /\ proc[q].pc = "zombie" ->
                            [proc[q] EXCEPT !.pc = "none", !.parent = NoProc]
                       [] OTHER -> proc[q]
      BY <1>10 DEF Reap
    <3>3. CASE q = a
      BY <3>1, <3>2, <3>3 DEF Processes
    <3>4. CASE q # a
      BY <3>1, <3>2, <3>4 DEF Processes
    <3>. QED  BY <3>3, <3>4
  <2>2. conn' = conn
    BY <1>10 DEF Reap
  <2>. QED  BY <2>1, <2>2, ConnKept DEF Quiet, NothingTaken
<1>11. CASE HandlerReturns(a)
  <2>1. /\ conn' = conn /\ proc'[a].pc = proc[a].pc
        /\ proc'[a].sd = proc[a].sd /\ proc'[a].no = proc[a].no
    BY <1>0, <1>11 DEF HandlerReturns, TypeOK, Processes
  <2>2. \A p \in Procs : p # a => proc'[p] = proc[p]
    BY <1>11 DEF HandlerReturns, TypeOK
  <2>. QED  BY <2>1, <2>2, ConnKept, OneTaken DEF Quiet, NothingTaken
<1>. QED
  BY <1>1, <1>2, <1>3, <1>4, <1>5, <1>6, <1>7, <1>8, <1>9, <1>10, <1>11, <1>12
     DEF Step

(* A piece is sent: it is the next of its process, and nobody else's.      *)
LEMMA AddStep ==
  ASSUME TypeOK, TypeOK', InStep, Untraced, NEW a \in Procs, Adds(a)
  PROVE  (InStep /\ Untraced)'
<1>0. proc[a] \in Processes
  BY DEF TypeOK
<1>1. PICK m \in Pieces : /\ m.by = a /\ Place(m) = LastPlace(a) + 1
                          /\ Puts(a, <<m>>)
  BY DEF Adds
<1>2. PICK c \in Conns : c = proc[a].sd
  BY <1>0, <1>1 DEF Puts, Processes
<1>3. /\ Open(c) /\ Coming(c)' = Append(Coming(c), m)
      /\ conn'[c].sock = conn[c].sock /\ conn'[c].srv = conn[c].srv
      /\ \A d \in Conns : d # c => conn'[d] = conn[d]
  BY <1>1, <1>2, PutsComing
<1>4. /\ proc'[a].sd = c /\ LastPlace(a)' = LastPlace(a) + 1
      /\ proc'[a].pc # "spare"
      /\ \A p \in Procs : p # a => proc'[p] = proc[p]
  BY <1>2 DEF Adds
<1>5. \A d \in Conns : /\ Coming(d) \in Seq(Pieces)
                       /\ Open(d)' => Open(d)
                       /\ d # c => Coming(d)' = Coming(d)
  BY <1>3, ComingType DEF Coming, Open
<1>6. LastPlace(a) \in Nat
  BY <1>0 DEF LastPlace, Processes
<1>7. ASSUME NEW p \in Procs, NEW d \in Conns, d = proc'[p].sd, Open(d)'
      PROVE  InOrder(Coming(d)', p, LastPlace(p)')
  <2>0. d # NoConn /\ Open(d)
    BY <1>5, <1>7, ServerConstantsOK DEF ServerConstantsOK
  <2>1. CASE p = a
    <3>1. d = c /\ InOrder(Coming(c), a, LastPlace(a))
      BY <1>2, <1>4, <1>7, <2>0, <2>1 DEF InStep
    <3>2. InOrder(Append(Coming(c), m), a, LastPlace(a) + 1)
      BY <1>1, <1>5, <1>6, <3>1, InOrderNext
    <3>. QED  BY <1>3, <1>4, <2>1, <3>1, <3>2
  <2>2. CASE p # a
    <3>1. d = proc[p].sd /\ LastPlace(p)' = LastPlace(p)
      BY <1>4, <1>7, <2>2 DEF LastPlace
    <3>2. InOrder(Coming(d), p, LastPlace(p))
      BY <2>0, <3>1 DEF InStep
    <3>3. CASE d = c
      BY <1>1, <1>3, <1>5, <2>2, <3>1, <3>2, <3>3, InOrderOther
    <3>4. CASE d # c
      BY <1>5, <3>1, <3>2, <3>4
    <3>. QED  BY <3>3, <3>4
  <2>. QED  BY <2>1, <2>2
<1>8. ASSUME NEW p \in Procs, NEW d \in Conns, proc'[p].pc = "spare", Open(d)'
      PROVE  \A n \in DOMAIN Coming(d)' : Coming(d)'[n].by # p
  <2>1. p # a /\ proc[p].pc = "spare" /\ Open(d)
    BY <1>4, <1>5, <1>8
  <2>2. \A n \in DOMAIN Coming(d) : Coming(d)[n].by # p
    BY <2>1 DEF Untraced
  <2>3. CASE d = c
    <3>. DEFINE s == Coming(c)
    <3>1. ASSUME s \in Seq(Pieces), \A n \in DOMAIN s : s[n].by # p
          PROVE  \A n \in DOMAIN Append(s, m) : Append(s, m)[n].by # p
      <4>. HIDE DEF s
      <4>. QED  BY <1>1, <2>1, <3>1
    <3>. QED  BY <1>3, <1>5, <2>2, <2>3, <3>1
  <2>. QED  BY <1>5, <2>2, <2>3
<1>9. \A p \in Procs : proc'[p].sd # NoConn => \E d \in Conns : d = proc'[p].sd
  BY DEF TypeOK, Processes
<1>10. InStep'
  BY <1>7, <1>9 DEF InStep
<1>. QED  BY <1>8, <1>10 DEF Untraced

(* The server moves pieces from the inbox to the answers, or gives the     *)
(* connection up.                                                          *)
LEMMA ServerQuiet ==
  ASSUME TypeOK, ServerNext /\ UNCHANGED proc
  PROVE  Quiet
<1>0. ASSUME \A d \in Conns : NothingSent(d)
      PROVE  Quiet
  BY <1>0 DEF Quiet, NothingTaken
<1>1. CASE Accept \/ Start
  BY <1>0, <1>1, ConnKept DEF Accept, Start
<1>2. CASE Answer
  <2>1. PICK c \in Conns : c = served
    BY <1>2 DEF Answer, Serving, TypeOK
  <2>2. /\ Coming(c)' = Coming(c)
        /\ conn'[c].sock = conn[c].sock /\ conn'[c].srv = conn[c].srv
        /\ \A d \in Conns : d # c => conn'[d] = conn[d]
    BY <1>2, <2>1, AnswerComing
  <2>3. NothingSent(c)
    BY <2>2 DEF NothingSent, Open
  <2>4. \A d \in Conns : NothingSent(d)
    BY <2>2, <2>3, WordsKept DEF SameWords
  <2>. QED  BY <1>0, <2>4
<1>3. CASE Die
  <2>1. ASSUME NEW d \in Conns
        PROVE  SameWords(conn'[d], conn[d])
    <3>1. CASE conn[d].srv # "open"
      BY <1>3, <3>1 DEF Die, SameWords
    <3>2. CASE conn[d].srv = "open"
      <4>. DEFINE x == IF d = served /\ conn[d].inbox = <<>> THEN "fin" ELSE "rst"
                  s == [conn[d] EXCEPT !.inbox = <<>>, !.srv = x]
      <4>1. conn'[d] = Settle(s)
        BY <1>3, <3>2 DEF Die
      <4>2. s.srv = x /\ x # "open"
        BY DEF TypeOK, Connections
      <4>. HIDE DEF s, x
      <4>. QED  BY <4>1, <4>2 DEF Settle, Free, SameWords
    <3>. QED  BY <3>1, <3>2
  <2>. QED  BY <1>0, <2>1, WordsKept
<1>4. ASSUME NEW how \in {"fin", "rst"}, Release(how)
      PROVE  Quiet
  <2>1. ASSUME NEW d \in Conns
        PROVE  SameWords(conn'[d], conn[d])
    <3>. DEFINE s == [conn[d] EXCEPT !.srv = how, !.inbox = <<>>]
    <3>1. conn'[d] = IF d = served THEN Settle(s) ELSE conn[d]
      BY <1>4 DEF Release, TypeOK
    <3>2. s.srv = how
      BY DEF TypeOK, Connections
    <3>. HIDE DEF s
    <3>. QED  BY <3>1, <3>2 DEF Settle, Free, SameWords
  <2>. QED  BY <1>0, <2>1, WordsKept
<1>5. ASSUME NEW n, NEW how, how # "open",
             conn' = [conn EXCEPT ![served].inbox = Rest(@, n), ![served].sock = how]
      PROVE  Quiet
  <2>1. ASSUME NEW d \in Conns
        PROVE  SameWords(conn'[d], conn[d])
    <3>. DEFINE s == [conn[d] EXCEPT !.inbox = Rest(conn[d].inbox, n), !.sock = how]
    <3>1. conn'[d] \in {conn[d], s}
      BY <1>5 DEF TypeOK
    <3>2. s.sock = how
      BY DEF TypeOK, Connections
    <3>. HIDE DEF s
    <3>. QED  BY <1>5, <3>1, <3>2 DEF SameWords
  <2>. QED  BY <1>0, <2>1, WordsKept
<1>6. CASE AnswerGone
  <2>1. CASE Die
    BY <1>3, <2>1
  <2>2. CASE ~Die
    <3>1. PICK n \in DOMAIN conn[served].inbox :
            \E how \in {conn[served].sock, "rst"} :
              /\ how # "open"
              /\ conn' = [conn EXCEPT ![served].inbox = Rest(@, n),
                                      ![served].sock = how]
      BY <1>6, <2>2 DEF AnswerGone
    <3>. QED  BY <1>5, <3>1
  <2>. QED  BY <2>1, <2>2
<1>. QED
  BY <1>1, <1>2, <1>3, <1>4, <1>6
     DEF ServerNext, Serve, AcceptFails, Quit, Eof, Broken

-----------------------------------------------------------------------------
LEMMA InStepNext ==
  ASSUME TypeOK, InStep, Untraced, [Next]_vars
  PROVE  (InStep /\ Untraced)'
<1>0. TypeOK'
  BY NextType
<1>1. ASSUME Quiet
      PROVE  (InStep /\ Untraced)'
  BY <1>0, <1>1, QuietStep
<1>2. ASSUME NEW a \in Procs, StartShell(a)
      PROVE  Quiet
  <2>1. conn' = conn /\ proc'[a].sd = NoConn /\ proc'[a].pc = "prompt"
    BY <1>2 DEF StartShell, Fresh, TypeOK
  <2>2. \A p \in Procs : p # a => proc'[p] = proc[p]
    BY <1>2 DEF StartShell, TypeOK
  <2>. QED  BY <2>1, <2>2, ConnKept, OneTaken DEF Quiet, NothingTaken
<1>3. ASSUME NEW a \in Procs, RunEnds(a) \/ MoreEnds(a)
      PROVE  Quiet
  <2>1. proc[a] \in Processes
    BY DEF TypeOK
  <2>2. /\ conn' = conn /\ proc[a].pc # "eol" /\ proc'[a].pc = "prompt"
        /\ proc'[a].sd = proc[a].sd /\ proc'[a].no = proc[a].no
        /\ \A p \in Procs : p # a => proc'[p] = proc[p]
    BY <1>3, <2>1 DEF RunEnds, MoreEnds, At, Goes, TypeOK, Processes
  <2>. QED  BY <2>2, ConnKept, OneTaken DEF Quiet, NothingTaken
<1>4. ASSUME NEW a \in Procs, JobEnds(a)
      PROVE  Quiet
  <2>1. proc[a] \in Processes
    BY DEF TypeOK
  <2>2. /\ proc'[a].pc = proc[a].pc /\ proc'[a].sd = proc[a].sd
        /\ proc'[a].no = proc[a].no
        /\ \A p \in Procs : p # a => proc'[p] = proc[p]
    BY <1>4, <2>1 DEF JobEnds, TypeOK, Processes
  <2>3. \A c \in Conns : NothingSent(c)
    BY <1>4, LeftQuiet DEF JobEnds
  <2>. QED  BY <2>2, <2>3, OneTaken DEF Quiet, NothingTaken
<1>5. CASE UNCHANGED vars
  <2>1. conn' = conn /\ proc' = proc
    BY <1>5 DEF vars
  <2>. QED  BY <1>1, <2>1, ConnKept DEF Quiet, NothingTaken
<1>. QED
  BY <1>0, <1>1, <1>2, <1>3, <1>4, <1>5,
     ServerQuiet, CommandQuiet, StepQuiet, AddStep DEF Next

LEMMA InStepInit == Init => InStep /\ Untraced
BY DEF Init, ServerInit, Free, Fresh, InStep, Untraced, Open

(* What comes back to a process are its last commands with their ends, in  *)
(* the order it sent them and without a gap, whatever is late, in parts or *)
(* joined with what the processes that share its connection send, as long  *)
(* as neither side has given it up (rsshell.cc:327-346, 368-388, 413-414). *)
THEOREM AnswersInStep == Spec => []InStep
<1>1. Init => TypeOK /\ InStep /\ Untraced
  BY InitType, InStepInit
<1>2. TypeOK /\ InStep /\ Untraced /\ [Next]_vars => (TypeOK /\ InStep /\ Untraced)'
  BY NextType, InStepNext
<1>. QED  BY <1>1, <1>2, PTL DEF Spec
=============================================================================
