------------------------------- MODULE RsShell -------------------------------
(***************************************************************************)
(* The remote shell (rsshell.cc) as a client of the iterative server: a    *)
(* shell connects for each command and waits half a second at a time for   *)
(* an answer, or keeps one connection; a command sent in the background is *)
(* handed to two forked processes, which go on as shells when it is done.  *)
(* Processes share what they inherit: the kept connection, the descriptors *)
(* and the disposition of SIGCHLD.                                         *)
(***************************************************************************)
EXTENDS IServ

CONSTANTS
  Shells,       \* the shells users have started
  Spares,       \* names for the processes that shells fork and that go on
                \* as shells
  MaxAsked,     \* bound on the requests each process makes
  Typed,        \* the kinds of commands typed to each process
  NoProc

Procs == Shells \cup Spares

(* The process of p's local background command.                            *)
JobOf(p) == <<p, "job">>

ASSUME ShellConstantsOK ==
  /\ Shells \cap Spares = {}
  /\ NoProc \notin Procs
  /\ \A p \in Procs : JobOf(p) \notin Procs
  /\ MaxAsked \in [Procs -> Nat]

VARIABLE proc   \* the processes, see Fresh

vars == <<up, served, queue, conn, proc>>

(* pc is where the process is: at the prompt; connecting, sending (a       *)
(* command, "hello" for the line "! keepalive", then the end of line,      *)
(* "eol") or receiving for a request; about to handle                      *)
(* a failed receive; waiting for the background request's process, for a   *)
(* local command or for the user of "more"; ended and not waited for.  no  *)
(* counts the requests made, bg is set inside bgServer's child, disp is    *)
(* the disposition of SIGCHLD, job the local background command, an        *)
(* "orphan" when its shell has ended.                                      *)
Fresh == [pc |-> "prompt", keepalive |-> FALSE, sd |-> NoConn, no |-> 0,
          bg |-> FALSE, disp |-> "reap", pending |-> FALSE, handler |-> FALSE,
          parent |-> NoProc, job |-> "none"]

Alive(p) == proc[p].pc \notin {"spare", "none", "zombie"}

(* A process inside its signal handler does nothing else.                  *)
At(p, place) == proc[p].pc = place /\ ~proc[p].handler

Goes(p, place) == proc' = [proc EXCEPT ![p].pc = place]

Init ==
  /\ ServerInit
  /\ proc = [p \in Procs |->
               IF p \in Shells THEN Fresh ELSE [Fresh EXCEPT !.pc = "spare"]]

-----------------------------------------------------------------------------
(* The end of a process, by exit or by a signal: descriptors are closed,   *)
(* the parent is told, children are left to init.                          *)
Ended(q, p) ==
  CASE q = p ->
         [Fresh EXCEPT !.no = proc[p].no, !.parent = proc[p].parent,
            !.job = IF proc[p].job \in {"running", "orphan"}
                    THEN "orphan" ELSE "none",
            !.pc = IF proc[p].parent = NoProc THEN "none" ELSE "zombie"]
    [] q # p /\ proc[q].parent = p ->
         [proc[q] EXCEPT !.parent = NoProc,
            !.pc = IF @ = "zombie" THEN "none" ELSE @]
    [] q # p /\ q = proc[p].parent -> [proc[q] EXCEPT !.pending = TRUE]
    [] OTHER -> proc[q]

End(p) ==
  /\ proc' = [q \in Procs |-> Ended(q, p)]
  /\ conn' = [c \in Conns |-> LeftBy(conn[c], p)]

(* A user starts the shell again; the numbers of its requests go on.       *)
StartShell(p) ==
  /\ p \in Shells /\ proc[p].pc = "none"
  /\ proc' = [proc EXCEPT ![p] = [Fresh EXCEPT !.no = proc[p].no, !.job = proc[p].job]]
  /\ UNCHANGED <<serverVars, conn>>

-----------------------------------------------------------------------------
(* Commands typed at the prompt.                                           *)

MayAsk(p) == proc[p].no < MaxAsked[p]

(* A command for the server: a connection of its own ...                   *)
OneShot(p) ==
  /\ At(p, "prompt") /\ "request" \in Typed[p]
  /\ ~proc[p].keepalive /\ MayAsk(p)
  /\ \E c \in Conns :
       /\ Connect(c, p)
       /\ proc' = [proc EXCEPT ![p].sd = c, ![p].pc = "send"]

(* ... or the one that is kept, open or not.                               *)
KeptRequest(p) ==
  /\ At(p, "prompt") /\ "request" \in Typed[p]
  /\ proc[p].keepalive /\ MayAsk(p)
  /\ Goes(p, "send")
  /\ UNCHANGED <<serverVars, conn>>

(* "! keepalive" connects, and is then sent as a request itself.  The      *)
(* descriptor of an earlier one is forgotten, not closed.                  *)
KeepAlive(p) ==
  /\ At(p, "prompt") /\ "keepalive" \in Typed[p] /\ MayAsk(p)
  /\ \E c \in Conns :
       /\ Connect(c, p)
       /\ proc' = [proc EXCEPT ![p].sd = c, ![p].pc = "hello",
                               ![p].keepalive = TRUE]

(* Neither gets a connection, and main returns.                            *)
Refused(p) ==
  /\ At(p, "prompt") /\ ~Connectable /\ MayAsk(p)
  /\ \/ "keepalive" \in Typed[p]
     \/ "request" \in Typed[p] /\ ~proc[p].keepalive
  /\ End(p)
  /\ UNCHANGED serverVars

(* closePort on the process's descriptor, which may be closed already.     *)
ClosePort(p) ==
  LET c == proc[p].sd IN
  conn' = IF c # NoConn THEN [conn EXCEPT ![c] = Shut(@, p)] ELSE conn

CloseKept(p) ==
  /\ At(p, "prompt") /\ "close" \in Typed[p] /\ proc[p].keepalive
  /\ ClosePort(p)
  /\ proc' = [proc EXCEPT ![p].keepalive = FALSE, ![p].sd = NoConn]
  /\ UNCHANGED serverVars

(* "! command": run_it inhibits the handler and waits.                     *)
RunIt(p) ==
  /\ At(p, "prompt") /\ "local" \in Typed[p]
  /\ proc' = [proc EXCEPT ![p].pc = "run", ![p].disp = "block"]
  /\ UNCHANGED <<serverVars, conn>>

RunEnds(p) ==
  /\ At(p, "run")
  /\ proc' = [proc EXCEPT ![p].pc = "prompt", ![p].disp = "reap"]
  /\ UNCHANGED <<serverVars, conn>>

(* "! more": a page, then the user's word, until the file or the user's    *)
(* patience ends.                                                          *)
More(p) ==
  /\ At(p, "prompt") /\ "more" \in Typed[p]
  /\ Goes(p, "more")
  /\ UNCHANGED <<serverVars, conn>>

MoreEnds(p) ==
  /\ At(p, "more")
  /\ Goes(p, "prompt")
  /\ UNCHANGED <<serverVars, conn>>

(* "! & command": a child that runs the command, with all it inherits, and *)
(* ends (one at a time, a bound).                                          *)
Job(p) ==
  /\ At(p, "prompt") /\ "job" \in Typed[p] /\ proc[p].job = "none"
  /\ proc' = [proc EXCEPT ![p].job = "running"]
  /\ conn' = [c \in Conns |-> [conn[c] EXCEPT !.holders =
                 IF p \in @ THEN @ \cup {JobOf(p)} ELSE @]]
  /\ UNCHANGED serverVars

JobEnds(p) ==
  /\ \/ /\ proc[p].job = "running"
        /\ proc' = [proc EXCEPT ![p].job = "done", ![p].pending = TRUE]
     \/ /\ proc[p].job = "orphan"
        /\ proc' = [proc EXCEPT ![p].job = "none"]
  /\ conn' = [c \in Conns |-> LeftBy(conn[c], JobOf(p))]
  /\ UNCHANGED serverVars

(* "& command": main forks q, which calls bgServer and forks r there; r    *)
(* makes the request and q waits for r, SIGCHLD inhibited in both.         *)
Background(p) ==
  /\ At(p, "prompt") /\ "background" \in Typed[p]
  /\ \E q, r \in Spares :
       /\ q # r /\ proc[q].pc = "spare" /\ proc[r].pc = "spare"
       /\ LET child == [Fresh EXCEPT !.keepalive = proc[p].keepalive,
                          !.sd = proc[p].sd, !.disp = "block"]
          IN proc' = [proc EXCEPT
               ![q] = [child EXCEPT !.pc = "wait", !.parent = p],
               ![r] = [child EXCEPT !.bg = TRUE, !.parent = q,
                         !.pc = IF proc[p].keepalive THEN "send" ELSE "connect"]]
       /\ conn' = [c \in Conns |-> [conn[c] EXCEPT !.holders =
                     IF p \in @ THEN @ \cup {q, r} ELSE @]]
  /\ UNCHANGED serverVars

(* The fork in bgServer fails: waitpid(-1) finds no child of q's, and q    *)
(* goes on as a shell.  (When main's fails nothing happens.)               *)
BackgroundFails(p) ==
  /\ At(p, "prompt") /\ "background" \in Typed[p]
  /\ \E q \in Spares :
       /\ proc[q].pc = "spare"
       /\ proc' = [proc EXCEPT ![q] = [Fresh EXCEPT !.parent = p,
                      !.keepalive = proc[p].keepalive, !.sd = proc[p].sd]]
       /\ conn' = [c \in Conns |-> [conn[c] EXCEPT !.holders =
                     IF p \in @ THEN @ \cup {q} ELSE @]]
  /\ UNCHANGED serverVars

(* "! exit", or the end of the input.                                      *)
Exit(p) ==
  At(p, "prompt") /\ "exit" \in Typed[p] /\ End(p) /\ UNCHANGED serverVars

-----------------------------------------------------------------------------
(* A request under way.                                                    *)

(* bgServer without a kept connection.  A refusal is only printed.         *)
BgConnect(p) ==
  /\ At(p, "connect")
  /\ \/ \E c \in Conns : Connect(c, p) /\ proc' = [proc EXCEPT
                           ![p].sd = c, ![p].pc = "send"]
     \/ ~Connectable /\ UNCHANGED <<serverVars, conn>> /\ proc' =
                           [proc EXCEPT ![p].sd = NoConn, ![p].pc = "send"]

Open(c) == conn[c].sock = "open" /\ conn[c].srv = "open"

(* The two sends of sendData put a piece into the connection; others that  *)
(* have it may send between them.                                          *)
Piece(p, n, text) == [by |-> p, no |-> n, text |-> text]

Puts(p, pieces) ==
  LET c == proc[p].sd IN
  c # NoConn /\ Open(c) /\ conn' = [conn EXCEPT ![c].inbox = @ \o pieces]

(* What is sent on a closed descriptor goes nowhere, and nobody looks; on  *)
(* a connection that one of the sides has given up, too, and the server's  *)
(* side resets it if it had closed it; or the process is killed by SIGPIPE.*)
Nowhere(p) ==
  LET c == proc[p].sd IN
  \/ c = NoConn /\ UNCHANGED conn
  \/ /\ c # NoConn /\ ~Open(c)
     /\ conn' = [conn EXCEPT ![c].srv = IF @ = "fin" THEN "rst" ELSE @]

Killed(p) == proc[p].sd # NoConn /\ ~Open(proc[p].sd) /\ End(p)

SendText(p, text) ==
  /\ At(p, "send") \/ (At(p, "hello") /\ text = "line")
  /\ \/ /\ Puts(p, <<Piece(p, proc[p].no + 1, text)>>)
        /\ proc' = [proc EXCEPT ![p].pc = "eol", ![p].no = @ + 1]
     \/ Nowhere(p) /\ Goes(p, "eol")
     \/ Killed(p)
  /\ UNCHANGED serverVars

(* A variation of SendEnd: the command still has the end of line that was  *)
(* typed.                                                                  *)
SendUnstripped(p) ==
  LET end == Piece(p, proc[p].no, "eol") IN
  /\ At(p, "eol")
  /\ Puts(p, <<end, end>>) /\ Goes(p, "recv")
  /\ UNCHANGED serverVars

SendEnd(p) ==
  /\ At(p, "eol")
  /\ \/ Puts(p, <<Piece(p, proc[p].no, "eol")>>) /\ Goes(p, "recv")
     \/ Nowhere(p) /\ Goes(p, "recv")
     \/ Killed(p)
  /\ UNCHANGED serverVars

(* recv_nonblock returns what is there, a piece or (in as many steps)      *)
(* several; it is printed and the loop goes on.                            *)
Receive(p) ==
  LET c == proc[p].sd IN
  /\ At(p, "recv") /\ c # NoConn /\ conn[c].answers # <<>>
  /\ conn' = [conn EXCEPT ![c].answers = Tail(@)]
  /\ UNCHANGED <<serverVars, proc>>

Silent(p) ==
  At(p, "recv") /\ proc[p].sd # NoConn /\ conn[proc[p].sd].answers = <<>>

(* Two variations of Timeout: there is none before the server has taken    *)
(* the connection; a foreground command leaves its connection as bgServer  *)
(* does.                                                                   *)
TimeoutServed(p) ==
  /\ Silent(p) /\ Open(proc[p].sd) /\ served = proc[p].sd
  /\ Goes(p, "prompt")
  /\ UNCHANGED <<serverVars, conn>>

TimeoutKeeps(p) ==
  /\ Silent(p) /\ Open(proc[p].sd)
  /\ Goes(p, IF proc[p].bg THEN "bgdone" ELSE "prompt")
  /\ UNCHANGED <<serverVars, conn>>

(* Half a second without data (recv_nodata): only a foreground command on  *)
(* a connection of its own closes it.                                      *)
Timeout(p) ==
  /\ Silent(p) /\ Open(proc[p].sd)
  /\ IF proc[p].bg \/ proc[p].keepalive
     THEN /\ Goes(p, IF proc[p].bg THEN "bgdone" ELSE "prompt")
          /\ UNCHANGED conn
     ELSE /\ ClosePort(p)
          /\ proc' = [proc EXCEPT ![p].pc = "prompt", ![p].sd = NoConn]
  /\ UNCHANGED serverVars

(* recv returns 0: main closes the port and returns; bgServer closes it    *)
(* and goes on to receive from the closed descriptor.                      *)
StreamEnds(p) ==
  LET c == proc[p].sd IN
  /\ Silent(p) /\ ~Open(c)
  /\ IF proc[p].bg
     THEN ClosePort(p) /\ proc' = [proc EXCEPT ![p].sd = NoConn]
     ELSE /\ proc' = [q \in Procs |-> Ended(q, p)]
          /\ conn' = [d \in Conns |->
               IF d = c THEN Shut(conn[d], p) ELSE LeftBy(conn[d], p)]
  /\ UNCHANGED serverVars

(* recv_nonblock returns -1: the descriptor is closed, the connection was  *)
(* reset, or a signal came during the poll.  (After a refused BgConnect    *)
(* there is no descriptor and poll times out, to the same effect.)  The    *)
(* command is over, and with it the connection; keepalive is left as it    *)
(* is, and sd too, a number that is not in use before the next connect.    *)
ReceiveFails(p) ==
  LET c == proc[p].sd IN
  /\ \/ At(p, "fail")
     \/ At(p, "recv") /\ c = NoConn
     \/ Silent(p) /\ (conn[c].sock # "open" \/ conn[c].srv = "rst")
  /\ ClosePort(p)
  /\ proc' = [proc EXCEPT ![p].sd = NoConn,
                          ![p].pc = IF proc[p].bg THEN "bgdone" ELSE "prompt"]
  /\ UNCHANGED serverVars

(* bgServer's child comes to the end of a function without a return        *)
(* statement: it goes on in main as a shell, or it ends there.             *)
BgDone(p) ==
  /\ At(p, "bgdone")
  /\ \/ /\ proc' = [proc EXCEPT ![p].pc = "prompt", ![p].bg = FALSE]
        /\ UNCHANGED conn
     \/ End(p)
  /\ UNCHANGED serverVars

(* bgServer returns in the process that waited, and main prints and goes   *)
(* on to the prompt there.                                                 *)
Waited(p) ==
  /\ At(p, "wait")
  /\ \E r \in Procs :
       /\ proc[r].parent = p /\ proc[r].pc = "zombie"
       /\ proc' = [proc EXCEPT ![r].pc = "none", ![r].parent = NoProc,
                      ![p].pc = "prompt", ![p].disp = "reap", ![p].pending = FALSE]
  /\ UNCHANGED <<serverVars, conn>>

-----------------------------------------------------------------------------
(* SIGCHLD.  A poll that waits is interrupted and not started again;       *)
(* block_zombie_reaper does nothing else.                                  *)
TakeSignal(p) ==
  /\ Alive(p) /\ proc[p].pending /\ ~proc[p].handler
  /\ \E place \in {proc[p].pc} \cup (IF Silent(p) THEN {"fail"} ELSE {}) :
       proc' = [proc EXCEPT ![p].pc = place, ![p].pending = FALSE,
                            ![p].handler = proc[p].disp = "reap"]
  /\ UNCHANGED <<serverVars, conn>>

Child(q, p) == proc[q].parent = p

(* zombie_reaper: waitpid collects what has ended ...                      *)
Reap(p) ==
  /\ proc[p].handler
  /\ proc[p].job = "done" \/ \E q \in Procs : Child(q, p) /\ proc[q].pc = "zombie"
  /\ proc' = [q \in Procs |->
       CASE q = p -> [proc[p] EXCEPT !.job = IF @ = "done" THEN "none" ELSE @]
         [] q # p /\ Child(q, p) /\ proc[q].pc = "zombie" ->
              [proc[q] EXCEPT !.pc = "none", !.parent = NoProc]
         [] OTHER -> proc[q]]
  /\ UNCHANGED <<serverVars, conn>>

(* ... and returns 0 as long as a child is alive: the loop ends with the   *)
(* last child.                                                             *)
HandlerReturns(p) ==
  /\ proc[p].handler
  /\ proc[p].job \in {"none", "orphan"} /\ ~\E q \in Procs : Child(q, p)
  /\ proc' = [proc EXCEPT ![p].handler = FALSE]
  /\ UNCHANGED <<serverVars, conn>>

-----------------------------------------------------------------------------
Command(p) ==
  \/ OneShot(p) \/ KeptRequest(p) \/ KeepAlive(p) \/ Refused(p)
  \/ CloseKept(p) \/ RunIt(p) \/ More(p) \/ Job(p) \/ Background(p)
  \/ BackgroundFails(p) \/ Exit(p)

(* What a process does by itself.                                          *)
Step(p) ==
  \/ BgConnect(p) \/ (\E text \in {"line", "quit"} : SendText(p, text))
  \/ SendEnd(p) \/ Receive(p) \/ Timeout(p) \/ StreamEnds(p) \/ ReceiveFails(p)
  \/ BgDone(p) \/ Waited(p)
  \/ TakeSignal(p) \/ Reap(p) \/ HandlerReturns(p)

Next ==
  \/ ServerNext /\ UNCHANGED proc
  \/ \E p \in Procs :
       \/ StartShell(p) \/ Command(p) \/ Step(p)
       \/ RunEnds(p) \/ MoreEnds(p) \/ JobEnds(p)

Spec == Init /\ [][Next]_vars

(* The server and the processes run on; that a user types, or a local      *)
(* command ends, is not assumed.                                           *)
Fairness ==
  /\ WF_vars(Serve /\ UNCHANGED proc)
  /\ \A p \in Procs : WF_vars(Step(p))

FairSpec == Spec /\ Fairness
=============================================================================
