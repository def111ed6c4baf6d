---------------------------- MODULE RsShellProps ----------------------------
(***************************************************************************)
(* What the remote shell and the iterative server give their users.        *)
(***************************************************************************)
EXTENDS RsShell

Pieces == [by : Procs, no : Nat, text : {"line", "quit", "eol"}]

Ends == {"away", "open", "fin", "rst"}

Connections ==
  [sock : Ends, srv : Ends, inbox : Seq(Pieces), answers : Seq(Pieces),
   holders : SUBSET (Procs \cup {JobOf(p) : p \in Procs})]

Places == {"spare", "none", "zombie", "prompt", "connect", "hello", "send",
           "eol", "recv", "fail", "bgdone", "wait", "run", "more"}

Processes ==
  [pc : Places, keepalive : BOOLEAN, sd : Conns \cup {NoConn}, no : Nat,
   bg : BOOLEAN, disp : {"reap", "block"}, pending : BOOLEAN,
   handler : BOOLEAN, parent : Procs \cup {NoProc},
   job : {"none", "running", "done", "orphan"}]

TypeOK ==
  /\ up \in BOOLEAN
  /\ served \in Conns \cup {NoConn}
  /\ queue \in Seq(Conns) /\ Len(queue) <= Backlog
  /\ conn \in [Conns -> Connections]
  /\ proc \in [Procs -> Processes]

-----------------------------------------------------------------------------
Queued(c) == \E n \in DOMAIN queue : queue[n] = c

(* Every connection the server has not given up is in its queue, once, or  *)
(* served (iserv.cc:55-68): none is forgotten open, none accepted twice,   *)
(* and none survives the server.                                           *)
QueuedOrServed ==
  /\ \A c \in Conns : conn[c].srv = "open" <=> Queued(c) \/ served = c
  /\ \A m, n \in DOMAIN queue : queue[m] = queue[n] => m = n
  /\ served # NoConn => ~Queued(served)

(* A shell that a user has started loses track of no connection it has     *)
(* open (rsshell.cc:198, 314): a command's own is closed before the next   *)
(* one connects, after a timeout, a failure or "! close", and only a       *)
(* second "! keepalive" leaves one behind.                                 *)
NoneForgotten == [][
  \A p \in Shells, c \in Conns :
    proc[p].sd = c /\ proc'[p].sd # c
      /\ p \in conn[c].holders /\ p \in conn'[c].holders
    => proc[p].keepalive /\ proc'[p].keepalive /\ proc'[p].pc = "hello"]_vars

-----------------------------------------------------------------------------
(* What is still to come from connection c: what the server has sent back, *)
(* then what it has not read or not answered.                              *)
Coming(c) == conn[c].answers \o conn[c].inbox

(* The place of a piece among those its process sends.                     *)
Place(piece) == 2 * piece.no + (IF piece.text = "eol" THEN 1 ELSE 0)

(* That of the last piece p has sent.                                      *)
LastPlace(p) == 2 * proc[p].no + (IF proc[p].pc = "eol" THEN 0 ELSE 1)

(* Of what is to come, p's are its pieces up to the last, without a gap:   *)
(* each is the last one, or p's next is the one sent next.                 *)
InOrder(s, p, last) ==
  \A n \in DOMAIN s : s[n].by = p =>
    \/ /\ Place(s[n]) = last
       /\ \A k \in DOMAIN s : n < k => s[k].by # p
    \/ \E m \in DOMAIN s :
         /\ n < m /\ s[m].by = p /\ Place(s[m]) = Place(s[n]) + 1
         /\ \A k \in DOMAIN s : n < k /\ k < m => s[k].by # p

(* What comes back to a process on its connection are its last commands    *)
(* with their ends, in the order it sent them (rsshell.cc:327-346, 368-388,*)
(* 413-414): after a timeout an answer may come late and in parts, for a   *)
(* later command, and commands of processes that share the connection may  *)
(* meet in one line; but of each nothing is skipped, repeated or overtaken *)
(* as long as neither side has given up the connection.                    *)
InStep == \A p \in Procs :
  LET c == proc[p].sd IN
  c # NoConn /\ Open(c) => InOrder(Coming(c), p, LastPlace(p))

(* Whoever does not keep the connection is never sent an answer that is    *)
(* late, another's or joined with one: all there is on it is the one line  *)
(* under way.                                                              *)
OwnAnswerOnly == \A p \in Procs :
  LET c == proc[p].sd IN
  proc[p].pc \in {"eol", "recv", "fail"} /\ c # NoConn /\ ~proc[p].keepalive =>
    \A n \in DOMAIN Coming(c) :
      LET piece == Coming(c)[n] IN
      /\ piece.by = p /\ piece.no = proc[p].no
      /\ IF IsEnd(piece) THEN n = Len(Coming(c)) ELSE n = 1

-----------------------------------------------------------------------------
(* Every request comes to an end for the process that makes it, answered   *)
(* or not (the timeout, tcp-utils.cc:110-123), unless the process stays in *)
(* its signal handler.                                                     *)
PromptReturns == \A p \in Procs :
  proc[p].pc \in {"hello", "send", "eol", "recv", "fail"}
    ~> \/ proc[p].pc \notin {"hello", "send", "eol", "recv", "fail"}
       \/ []proc[p].handler

(* The served connection is one somebody has chosen to keep, or has lost   *)
(* track of.                                                               *)
Kept ==
  /\ served # NoConn /\ conn[served].sock = "open"
  /\ \E p \in conn[served].holders :
       p \in Procs => proc[p].keepalive \/ proc[p].sd # served

(* A connection that waits for its accept is accepted (or the server       *)
(* ends), unless the one that is served is kept for ever: a command on a   *)
(* connection of its own gives it up whatever comes (rsshell.cc:328-346).  *)
QueueServed == \A c \in Conns : Queued(c) ~> ~Queued(c) \/ []Kept
=============================================================================
