------------------------------- MODULE CServ -------------------------------
(***************************************************************************)
(* The forking server (shell_server/cserv.cc): the parent accepts and      *)
(* forks, each child serves one connection, and the handler of SIGCHLD     *)
(* interrupts the parent between any two of its system calls to reap.      *)
(* Which process holds which connection open is state of the model: a      *)
(* connection ends when the last process closes it.                        *)
(***************************************************************************)
EXTENDS Naturals, Sequences, FiniteSets

CONSTANTS
  Conns,        \* connections; one is used again when nothing is left of it
  Parent,       \* the process that listens
  MaxFds,       \* connections a process may have open
  Backlog,      \* qlen, the length of the listen queue
  InboxLimit,   \* bound on what a client sends ahead
  None

ASSUME ConstantsOK ==
  /\ Parent \notin Conns /\ None \notin Conns
  /\ MaxFds \in Nat /\ Backlog \in Nat /\ InboxLimit \in Nat

VARIABLES
  up,           \* the parent runs
  parent,       \* "accept", "fork" or "close": what main calls next
  ssock,        \* the connection main works on, or None
  handler,      \* cleanup_zombies is running
  sigchld,      \* a SIGCHLD is pending
  opened,       \* the connections each process has open
  unforked,     \* history: connections for which fork failed
  child,        \* the process forked for each connection
  queue,        \* connections waiting for an accept
  sock,         \* what the client has done with each connection
  inbox,        \* the lines each connection holds unread
  eof           \* connections whose client has been sent end of file

parentVars == <<up, parent, ssock, handler, unforked>>

vars == <<parentVars, sigchld, opened, child, queue, sock, inbox, eof>>

Lines == {"line", "quit"}

Procs == Conns \cup {Parent}

Queued(c) == \E n \in DOMAIN queue : queue[n] = c

Init ==
  /\ up = FALSE
  /\ parent = "accept"
  /\ ssock = None
  /\ handler = FALSE
  /\ sigchld = FALSE
  /\ opened = [p \in Procs |-> {}]
  /\ unforked = {}
  /\ child = [c \in Conns |-> "none"]
  /\ queue = <<>>
  /\ sock = [c \in Conns |-> "away"]
  /\ inbox = [c \in Conns |-> <<>>]
  /\ eof = {}

-----------------------------------------------------------------------------
(* The clients.                                                            *)

Connect(c) ==
  /\ up /\ sock[c] = "away" /\ child[c] = "none" /\ Len(queue) < Backlog
  /\ sock' = [sock EXCEPT ![c] = "open"]
  /\ queue' = Append(queue, c)
  /\ UNCHANGED <<parentVars, sigchld, opened, child, inbox, eof>>

Send(c, line) ==
  /\ sock[c] = "open" /\ Len(inbox[c]) < InboxLimit
  /\ inbox' = [inbox EXCEPT ![c] = Append(@, line)]
  /\ UNCHANGED <<parentVars, sigchld, opened, child, queue, sock, eof>>

Fin(c) ==
  /\ sock[c] = "open"
  /\ sock' = [sock EXCEPT ![c] = "fin"]
  /\ UNCHANGED <<parentVars, sigchld, opened, child, queue, inbox, eof>>

(* A client that is killed, or closes with an answer unread.               *)
Abort(c) ==
  /\ sock[c] \in {"open", "fin"}
  /\ sock' = [sock EXCEPT ![c] = "rst"]
  /\ UNCHANGED <<parentVars, sigchld, opened, child, queue, inbox, eof>>

-----------------------------------------------------------------------------
(* The kernel: a connection that no process has open any more is over.     *)
HeldIn(o, c) == \E p \in Procs : c \in o[p]

Over(o) == {c \in Conns : HeldIn(opened, c) /\ ~HeldIn(o, c)}

(* The processes' descriptors become o; told have been sent end of file.   *)
LetGo(o, told) ==
  /\ opened' = o
  /\ sock' = [c \in Conns |-> IF c \in Over(o) THEN "away" ELSE sock[c]]
  /\ inbox' = [c \in Conns |-> IF c \in Over(o) THEN <<>> ELSE inbox[c]]
  /\ eof' = (eof \cup told) \ Over(o)
  /\ unforked' = unforked \ Over(o)

-----------------------------------------------------------------------------
(* The parent.                                                             *)

(* passivesocket does not ask for the address to be reused: bind fails as  *)
(* long as a child of an earlier parent has a connection.                  *)
Start ==
  /\ ~up
  /\ \A c \in Conns : child[c] = "none"
  /\ up' = TRUE
  /\ UNCHANGED <<parent, ssock, handler, unforked, sigchld, opened, child,
                 queue, sock, inbox, eof>>

(* The parent ends: nobody accepts the connections in the queue, the       *)
(* children go on and are reaped by init.                                  *)
Die ==
  /\ up' = FALSE
  /\ parent' = "accept"
  /\ ssock' = None
  /\ handler' = FALSE
  /\ sigchld' = FALSE
  /\ queue' = <<>>
  /\ child' = [c \in Conns |-> IF child[c] = "zombie" THEN "none"
                                                      ELSE child[c]]
  /\ LET o == [opened EXCEPT ![Parent] = {}]
         ended == {c \in Conns : Queued(c)} \cup Over(o)
     IN  /\ opened' = o
         /\ sock' = [c \in Conns |-> IF c \in ended THEN "away" ELSE sock[c]]
         /\ inbox' = [c \in Conns |-> IF c \in ended THEN <<>> ELSE inbox[c]]
         /\ eof' = eof \ ended
         /\ unforked' = unforked \ ended

Crash == up /\ Die

Running(place) == up /\ ~handler /\ parent = place

Accept ==
  /\ Running("accept")
  /\ queue # <<>> /\ Cardinality(opened[Parent]) < MaxFds
  /\ ssock' = Head(queue)
  /\ queue' = Tail(queue)
  /\ opened' = [opened EXCEPT ![Parent] = @ \cup {Head(queue)}]
  /\ parent' = "fork"
  /\ UNCHANGED <<up, handler, unforked, sigchld, child, sock, inbox, eof>>

(* No descriptor left: accept fails and main returns.                      *)
AcceptFails ==
  /\ Running("accept")
  /\ Cardinality(opened[Parent]) >= MaxFds
  /\ Die

(* The child has what its parent has open, and closes msock.  When fork    *)
(* fails main goes on with the connection open.                            *)
Fork ==
  /\ Running("fork")
  /\ \/ /\ child' = [child EXCEPT ![ssock] = "serving"]
        /\ opened' = [opened EXCEPT ![ssock] = opened[Parent]]
        /\ parent' = "close"
        /\ UNCHANGED <<ssock, unforked>>
     \/ /\ unforked' = unforked \cup {ssock}
        /\ ssock' = None
        /\ parent' = "accept"
        /\ UNCHANGED <<child, opened>>
  /\ UNCHANGED <<up, handler, sigchld, queue, sock, inbox, eof>>

(* Two variations of Close: the connection stays open in the parent; main  *)
(* goes on with the old value of ssock.                                    *)
CloseForgotten ==
  /\ Running("close")
  /\ ssock' = None
  /\ parent' = "accept"
  /\ UNCHANGED <<up, handler, unforked, sigchld, opened, child, queue, sock,
                 inbox, eof>>

CloseStale ==
  /\ Running("close")
  /\ LetGo([opened EXCEPT ![Parent] = @ \ {ssock}], {})
  /\ parent' = "accept"
  /\ UNCHANGED <<up, ssock, handler, sigchld, child, queue>>

Close ==
  /\ Running("close")
  /\ LetGo([opened EXCEPT ![Parent] = @ \ {ssock}], {})
  /\ ssock' = None
  /\ parent' = "accept"
  /\ UNCHANGED <<up, handler, sigchld, child, queue>>

(* The signal arrives between two calls of main or interrupts accept; it   *)
(* is blocked while its handler runs.                                      *)
Signal ==
  /\ up /\ sigchld /\ ~handler
  /\ handler' = TRUE
  /\ sigchld' = FALSE
  /\ UNCHANGED <<up, parent, ssock, unforked, opened, child, queue, sock,
                 inbox, eof>>

(* waitpid returns the number of a zombie.                                 *)
Reap(c) ==
  /\ handler /\ child[c] = "zombie"
  /\ child' = [child EXCEPT ![c] = "none"]
  /\ UNCHANGED <<parentVars, sigchld, opened, queue, sock, inbox, eof>>

(* Two variations of ReapEnd: the handler returns after any call; the loop *)
(* runs as long as waitpid does not return 0.                              *)
ReapOnce ==
  /\ handler
  /\ handler' = FALSE
  /\ UNCHANGED <<up, parent, ssock, unforked, sigchld, opened, child, queue,
                 sock, inbox, eof>>

ReapUntilZero ==
  /\ handler /\ \A c \in Conns : child[c] # "zombie"
  /\ \E c \in Conns : child[c] = "serving"
  /\ handler' = FALSE
  /\ UNCHANGED <<up, parent, ssock, unforked, sigchld, opened, child, queue,
                 sock, inbox, eof>>

(* waitpid returns -1 when there are no children; as long as one is alive  *)
(* it returns 0 and the handler calls it again.                            *)
ReapEnd ==
  /\ handler /\ \A c \in Conns : child[c] = "none"
  /\ handler' = FALSE
  /\ UNCHANGED <<up, parent, ssock, unforked, sigchld, opened, child, queue,
                 sock, inbox, eof>>

-----------------------------------------------------------------------------
(* A child: do_client, close, exit.                                        *)

(* The child is gone, having told its client so or not.                    *)
Exit(c, told) ==
  /\ LetGo([opened EXCEPT ![c] = {}], told)
  /\ child' = [child EXCEPT ![c] = IF up THEN "zombie" ELSE "none"]
  /\ sigchld' = up
  /\ UNCHANGED <<up, parent, ssock, handler, queue>>

Answer(c) ==
  /\ child[c] = "serving"
  /\ inbox[c] # <<>> /\ Head(inbox[c]) = "line"
  /\ sock[c] # "rst"
  /\ inbox' = [inbox EXCEPT ![c] = Tail(@)]
  /\ \/ UNCHANGED sock
     \/ sock[c] = "fin" /\ sock' = [sock EXCEPT ![c] = "rst"]
  /\ UNCHANGED <<parentVars, sigchld, opened, child, queue, eof>>

(* The second send to a client that has gone raises SIGPIPE.  A reset with *)
(* nothing to read makes readline return -1, which do_client takes for a   *)
(* line.                                                                   *)
Killed(c) ==
  /\ child[c] = "serving"
  /\ \/ inbox[c] # <<>> /\ Head(inbox[c]) = "line" /\ sock[c] # "open"
     \/ inbox[c] = <<>> /\ sock[c] = "rst"
  /\ Exit(c, {})

(* A variation of Finish: no shutdown.                                     *)
FinishSilent(c) ==
  /\ child[c] = "serving"
  /\ \/ inbox[c] # <<>> /\ Head(inbox[c]) = "quit"
     \/ inbox[c] = <<>> /\ sock[c] # "open"
  /\ Exit(c, {})

(* "quit", also one that an earlier call has left in req when readline     *)
(* returns -1, or end of file.                                             *)
Finish(c) ==
  /\ child[c] = "serving"
  /\ \/ inbox[c] # <<>> /\ Head(inbox[c]) = "quit"
     \/ inbox[c] = <<>> /\ sock[c] # "open"
  /\ Exit(c, {c})

-----------------------------------------------------------------------------
Main == Accept \/ AcceptFails \/ Fork \/ Close \/ Signal \/ ReapEnd
        \/ \E c \in Conns : Reap(c)

Serve(c) == Answer(c) \/ Killed(c) \/ Finish(c)

Client(c) == Connect(c) \/ Fin(c) \/ Abort(c) \/ \E l \in Lines : Send(c, l)

Next == Start \/ Crash \/ Main \/ \E c \in Conns : Serve(c) \/ Client(c)

Spec == Init /\ [][Next]_vars

(* The parent and every child are scheduled.                               *)
FairSpec == Spec /\ WF_vars(Main) /\ \A c \in Conns : WF_vars(Serve(c))
=============================================================================
