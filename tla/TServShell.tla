----------------------------- MODULE TServShell -----------------------------
(***************************************************************************)
(* The threaded shell server (shell/tservshell.cc).  Main accepts and      *)
(* starts a thread per connection; a thread runs each line it reads in a   *)
(* child, whose output it takes from a pipe, and answers with a status.    *)
(* All threads share the parameter they are started with, the status texts *)
(* and the disposition of SIGCHLD, whose handler reaps any child.          *)
(***************************************************************************)
EXTENDS Naturals, Sequences, FiniteSets

CONSTANTS
  Clients,      \* client programs, each with at most one connection
  Threads,      \* bound on the threads there are at once
  Main,         \* the thread that accepts
  Jobs,         \* bound on the background commands there are at once
  Fds,          \* descriptor numbers left to the process for connections
  PipeLimit,    \* descriptors left to the process for pipes
  Backlog,      \* qlen, the length of the listen queue
  InboxLimit,   \* bound on what a client sends ahead
  Sent,         \* the lines each client sends
  Closing,      \* the clients that may close their connections
  Resetting,    \* the clients that may reset their connections
  None

(* "good" and "bad" are commands that succeed and fail, "flood" one that   *)
(* writes more than a read and a pipe hold; "bg" is a command behind "&".  *)
Commands == {"good", "bad", "flood"}
Lines    == Commands \cup {"bg", "empty", "CPRINT", "CPRINTF", "quit"}

ASSUME ConstantsOK ==
  /\ Main \notin Threads /\ Jobs \cap (Threads \cup {Main}) = {}
  /\ None \notin Clients \cup Lines \cup Threads
  /\ Fds \subseteq Nat \ {0} /\ Fds # {}
  /\ IsFiniteSet(Threads)
  /\ Sent \in [Clients -> SUBSET Lines]
  /\ PipeLimit \in Nat /\ Backlog \in Nat /\ InboxLimit \in Nat

VARIABLES
  up,             \* the server runs
  arg,            \* arg.sd, the variable of main's each thread is pointed to
  output, status_output,
  pc, sd, req, status,          \* each thread: where it is, which, req, and
                                \* what waitpid told it
  pipes,          \* descriptors of pipes the process has open
  kid,            \* the children: that of each thread's command, and jobs
  holds,          \* the pipes (by thread) each child can write to
  filled,         \* the pipes with something in them
  sigchld,        \* the disposition of SIGCHLD
  pending,        \* a SIGCHLD is pending
  reaping,        \* the threads in zombie_reaper
  fds,            \* the process's descriptors: the connection, or None
  queue,          \* connections waiting for an accept
  sock,           \* what the kernel knows of each connection
  inbox,          \* the lines each connection holds unread
  mishaps         \* history: "param", "overlap", "stolen"

texts   == <<output, status_output>>
frames  == <<pc, sd, req, status>>
procs   == <<kid, holds, filled>>
signals == <<sigchld, pending, reaping>>
net     == <<fds, queue, sock, inbox>>

vars == <<up, arg, texts, frames, pipes, procs, signals, net, mishaps>>

Kids == Threads \cup Jobs

Text(t, what) == [of |-> t, what |-> what]

NoInput == Text(None, "ERR")

Init ==
  /\ up = TRUE
  /\ arg = CHOOSE k \in Fds : TRUE
  /\ output = NoInput /\ status_output = NoInput
  /\ pc = [t \in Threads |-> "none"]
  /\ sd = [t \in Threads |-> CHOOSE k \in Fds : TRUE]
  /\ req = [t \in Threads |-> None]
  /\ status = [t \in Threads |-> "OK"]
  /\ pipes = 0
  /\ kid = [k \in Kids |-> "none"]
  /\ holds = [k \in Kids |-> {}]
  /\ filled = {}
  /\ sigchld = "default" /\ pending = FALSE /\ reaping = {}
  /\ fds = [k \in Fds |-> None]
  /\ queue = <<>>
  /\ sock = [c \in Clients |-> "away"]
  /\ inbox = [c \in Clients |-> <<>>]
  /\ mishaps = {}

(* The process ends and everything with it.                                *)
Die ==
  /\ up /\ up' = FALSE
  /\ arg' = CHOOSE k \in Fds : TRUE
  /\ output' = NoInput /\ status_output' = NoInput
  /\ pc' = [t \in Threads |-> "none"]
  /\ sd' = [t \in Threads |-> CHOOSE k \in Fds : TRUE]
  /\ req' = [t \in Threads |-> None]
  /\ status' = [t \in Threads |-> "OK"]
  /\ pipes' = 0
  /\ kid' = [k \in Kids |-> "none"]
  /\ holds' = [k \in Kids |-> {}]
  /\ filled' = {}
  /\ sigchld' = "default" /\ pending' = FALSE /\ reaping' = {}
  /\ fds' = [k \in Fds |-> None]
  /\ queue' = <<>>
  /\ sock' = [c \in Clients |-> "away"]
  /\ inbox' = [c \in Clients |-> <<>>]
  /\ mishaps' = {}

-----------------------------------------------------------------------------
(* The clients.                                                            *)

Own == <<up, arg, texts, frames, pipes, procs, signals, fds, mishaps>>

Connect(c) ==
  /\ up /\ sock[c] = "away" /\ Len(queue) < Backlog
  /\ sock' = [sock EXCEPT ![c] = "open"]
  /\ queue' = Append(queue, c)
  /\ UNCHANGED <<Own, inbox>>

Send(c, line) ==
  /\ up /\ sock[c] = "open" /\ Len(inbox[c]) < InboxLimit
  /\ inbox' = [inbox EXCEPT ![c] = Append(@, line)]
  /\ UNCHANGED <<Own, queue, sock>>

Fin(c) ==
  /\ up /\ c \in Closing /\ sock[c] = "open"
  /\ sock' = [sock EXCEPT ![c] = "fin"]
  /\ UNCHANGED <<Own, queue, inbox>>

(* A client that is killed, or closes with an answer unread.               *)
Abort(c) ==
  /\ up /\ c \in Resetting /\ sock[c] \in {"open", "fin"}
  /\ sock' = [sock EXCEPT ![c] = "rst"]
  /\ UNCHANGED <<Own, queue, inbox>>

-----------------------------------------------------------------------------
(* Main.                                                                   *)

Lowest(k) == fds[k] = None /\ \A j \in Fds : fds[j] = None => k <= j

(* The new thread is pointed to a variable that is written again at the    *)
(* next accept, whether it has been read or not.                           *)
Accept(t) ==
  /\ up /\ Main \notin reaping /\ queue # <<>> /\ pc[t] = "none"
  /\ \E k \in Fds : /\ Lowest(k)
                    /\ fds' = [fds EXCEPT ![k] = Head(queue)]
                    /\ arg' = k
  /\ queue' = Tail(queue)
  /\ pc' = [pc EXCEPT ![t] = "start"]
  /\ mishaps' = mishaps \cup {m \in {"param"} :
                                \E u \in Threads : pc[u] = "start"}
  /\ UNCHANGED <<up, texts, sd, req, status, pipes, procs, signals, sock,
                 inbox>>

(* No descriptor, no memory or no thread left: main returns.               *)
AcceptFails == up /\ Main \notin reaping /\ queue # <<>> /\ Die

-----------------------------------------------------------------------------
(* A thread: do_client.                                                    *)

At(t, place) == up /\ t \notin reaping /\ pc[t] = place

Conn(t) == fds[sd[t]]

Begin(t) ==
  /\ At(t, "start")
  /\ sd' = [sd EXCEPT ![t] = arg]
  /\ pc' = [pc EXCEPT ![t] = "read"]
  /\ UNCHANGED <<up, arg, texts, req, status, pipes, procs, signals, net,
                 mishaps>>

(* readline: the next line.  When it returns -1, because the connection    *)
(* was reset or another thread has closed the descriptor, do_client takes  *)
(* what is in req for a line: the previous one, or anything.               *)
Fresh(t) == Conn(t) # None /\ inbox[Conn(t)] # <<>>

Stale(t) == Conn(t) # None => inbox[Conn(t)] = <<>> /\ sock[Conn(t)] = "rst"

Took(t, line) ==
  /\ At(t, "read")
  /\ \/ Fresh(t) /\ line = Head(inbox[Conn(t)])
     \/ Stale(t) /\ req[t] \in {None, line}

Reads(t, line) ==
  /\ Took(t, line)
  /\ req' = [req EXCEPT ![t] = line]
  /\ inbox' = IF Fresh(t) THEN [inbox EXCEPT ![Conn(t)] = Tail(@)] ELSE inbox

(* shutdown, close and the end of the thread.                              *)
Leave(t) ==
  LET c == Conn(t) IN
  /\ fds' = [fds EXCEPT ![sd[t]] = None]
  /\ sock' = [d \in Clients |-> IF d = c THEN "away" ELSE sock[d]]
  /\ inbox' = [d \in Clients |-> IF d = c THEN <<>> ELSE inbox[d]]
  /\ pc' = [pc EXCEPT ![t] = "none"]
  /\ req' = [req EXCEPT ![t] = None]
  /\ UNCHANGED <<up, arg, texts, sd, status, pipes, procs, signals, queue,
                 mishaps>>

QuitOpen(t) ==
  /\ Took(t, "quit")
  /\ pc' = [pc EXCEPT ![t] = "none"]
  /\ req' = [req EXCEPT ![t] = None]
  /\ UNCHANGED <<up, arg, texts, sd, status, pipes, procs, signals, net,
                 mishaps>>

Quit(t) == Took(t, "quit") /\ Leave(t)

Eof(t) ==
  /\ At(t, "read")
  /\ Conn(t) # None /\ inbox[Conn(t)] = <<>> /\ sock[Conn(t)] = "fin"
  /\ Leave(t)

(* A text is written while another thread is about to use it.              *)
Overlap(t) == {m \in {"overlap"} :
                 \E u \in Threads \ {t} : pc[u] \in {"print", "tell", "copy", "send"}}

Empty(t) ==
  /\ Reads(t, "empty")
  /\ status_output' = Text(t, "ERR")
  /\ pc' = [pc EXCEPT ![t] = "copy"]
  /\ mishaps' = mishaps \cup Overlap(t)
  /\ UNCHANGED <<up, arg, output, sd, status, pipes, procs, signals, fds,
                 queue, sock>>

Cprint(t) ==
  /\ Reads(t, "CPRINT")
  /\ output' = status_output
  /\ pc' = [pc EXCEPT ![t] = "print"]
  /\ mishaps' = mishaps \cup Overlap(t)
  /\ UNCHANGED <<up, arg, status_output, sd, status, pipes, procs, signals,
                 fds, queue, sock>>

(* send() to a client that is going may make it reset the connection.      *)
Sends(t) ==
  LET c == Conn(t) IN
  \/ UNCHANGED sock /\ (c # None => sock[c] # "rst")
  \/ c # None /\ sock[c] = "fin" /\ sock' = [sock EXCEPT ![c] = "rst"]

(* A second send to a client that has gone raises SIGPIPE.                 *)
SendKills(t) ==
  /\ At(t, "print") \/ At(t, "tell") \/ At(t, "send")
  /\ Conn(t) # None /\ sock[Conn(t)] \in {"fin", "rst"}
  /\ Die

ShowSilent(t) ==
  /\ At(t, "print") /\ Sends(t)
  /\ pc' = [pc EXCEPT ![t] = "copy"]
  /\ UNCHANGED <<up, arg, texts, sd, req, status, pipes, procs, signals, fds,
                 queue, inbox, mishaps>>

Show(t) ==
  /\ At(t, "print") /\ Sends(t)
  /\ status_output' = Text(t, "OK")
  /\ pc' = [pc EXCEPT ![t] = "copy"]
  /\ mishaps' = mishaps \cup Overlap(t)
  /\ UNCHANGED <<up, arg, output, sd, req, status, pipes, procs, signals, fds,
                 queue, inbox>>

(* What it sends is what the texts are; then it goes on to the answer.     *)
Cprintf(t) ==
  /\ Reads(t, "CPRINTF")
  /\ pc' = [pc EXCEPT ![t] = "tell"]
  /\ UNCHANGED <<up, arg, texts, sd, status, pipes, procs, signals, fds,
                 queue, sock, mishaps>>

Tell(t) ==
  /\ At(t, "tell") /\ Sends(t)
  /\ pc' = [pc EXCEPT ![t] = "copy"]
  /\ UNCHANGED <<up, arg, texts, sd, req, status, pipes, procs, signals, fds,
                 queue, inbox, mishaps>>

-----------------------------------------------------------------------------
(* Commands.                                                               *)

(* The pipes whose write end this process has open at a fork.              *)
Writable == {t \in Threads : pc[t] \in {"piped", "forked"}}

(* The thread goes on; the copy of the process runs the command, and what  *)
(* it writes into its texts is lost.  When fork fails nothing happens.     *)
Background(t) ==
  /\ Fresh(t) /\ Reads(t, "bg")
  /\ \/ \E j \in Jobs : /\ kid[j] = "none"
                        /\ kid' = [kid EXCEPT ![j] = "run"]
                        /\ holds' = [holds EXCEPT ![j] = Writable]
     \/ UNCHANGED <<kid, holds>>
  /\ UNCHANGED <<up, arg, texts, pc, sd, status, pipes, filled, signals, fds,
                 queue, sock, mishaps>>

(* An earlier call has cut "& command" down to "&": real_com is null.      *)
BackgroundStale(t) ==
  At(t, "read") /\ Stale(t) /\ req[t] \in {None, "bg"} /\ Die

PipeUnchecked(t) ==
  /\ \E line \in Commands : Reads(t, line)
  /\ sigchld' = "block"
  /\ pipes' = pipes + 2
  /\ filled' = filled \ {t}
  /\ pc' = [pc EXCEPT ![t] = "piped"]
  /\ UNCHANGED <<up, arg, texts, sd, status, kid, holds, pending, reaping,
                 fds, queue, sock, mishaps>>

(* signal and pipe of run_it.                                              *)
Pipe(t) ==
  /\ \E line \in Commands : Reads(t, line)
  /\ sigchld' = "block"
  /\ pipes + 2 <= PipeLimit
  /\ pipes' = pipes + 2
  /\ filled' = filled \ {t}
  /\ pc' = [pc EXCEPT ![t] = "piped"]
  /\ UNCHANGED <<up, arg, texts, sd, status, kid, holds, pending, reaping,
                 fds, queue, sock, mishaps>>

(* fork.  The child has the thread's pipe, and those that other threads    *)
(* have opened and not closed yet, whose children may have this one.       *)
Fork(t) ==
  /\ At(t, "piped")
  /\ kid' = [kid EXCEPT ![t] = "run"]
  /\ holds' = [holds EXCEPT ![t] = Writable]
  /\ pc' = [pc EXCEPT ![t] = "forked"]
  /\ UNCHANGED <<up, arg, texts, sd, req, status, pipes, filled, signals, net,
                 mishaps>>

(* die("pipe") or die("fork").                                             *)
RunFails(t) ==
  ((\E line \in Commands : Took(t, line)) \/ At(t, "piped")) /\ Die

(* close(link[1]); link[0] stays open.                                     *)
CloseLink(t) ==
  /\ At(t, "forked")
  /\ pipes' = pipes - 1
  /\ pc' = [pc EXCEPT ![t] = "link"]
  /\ UNCHANGED <<up, arg, texts, sd, req, status, procs, signals, net, mishaps>>

ReadUnclosed(t) ==
  /\ At(t, "link")
  /\ t \in filled
  /\ filled' = filled \ {t}
  /\ pc' = [pc EXCEPT ![t] = "wait"]
  /\ UNCHANGED <<up, arg, texts, sd, req, status, pipes, kid, holds, signals,
                 net, mishaps>>

(* The one read of the pipe: something, or end of file when nobody can     *)
(* write to it any more.                                                   *)
ReadLink(t) ==
  /\ At(t, "link")
  /\ t \in filled \/ \A k \in Kids : t \notin holds[k]
  /\ filled' = filled \ {t}
  /\ pc' = [pc EXCEPT ![t] = "wait"]
  /\ UNCHANGED <<up, arg, texts, sd, req, status, pipes, kid, holds, signals,
                 net, mishaps>>

WaitNot(t) ==
  /\ At(t, "wait")
  /\ kid' = [kid EXCEPT ![t] = IF @ = "zombie" THEN "none" ELSE @]
  /\ sigchld' = "reap"
  /\ pc' = [pc EXCEPT ![t] = "note"]
  /\ UNCHANGED <<up, arg, texts, sd, req, status, pipes, holds, filled,
                 pending, reaping, net, mishaps>>

WaitEarly(t) ==
  /\ At(t, "wait") /\ kid[t] \in {"zombie", "none"}
  /\ kid' = [kid EXCEPT ![t] = "none"]
  /\ sigchld' = IF req[t] = "bad" THEN sigchld ELSE "reap"
  /\ pc' = [pc EXCEPT ![t] = "note"]
  /\ UNCHANGED <<up, arg, texts, sd, req, status, pipes, holds, filled,
                 pending, reaping, net, mishaps>>

(* waitpid and signal.  If the handler was first, waitpid fails and leaves *)
(* status 0.                                                               *)
Wait(t) ==
  /\ At(t, "wait")
  /\ \/ /\ kid[t] = "zombie"
        /\ status' = [status EXCEPT ![t] = IF req[t] = "bad" THEN "FAIL"
                                                             ELSE "OK"]
     \/ /\ kid[t] = "none"
        /\ status' = [status EXCEPT ![t] = "OK"]
  /\ kid' = [kid EXCEPT ![t] = "none"]
  /\ sigchld' = "reap"
  /\ pc' = [pc EXCEPT ![t] = "note"]
  /\ UNCHANGED <<up, arg, texts, sd, req, pipes, holds, filled, pending,
                 reaping, net, mishaps>>

Note(t) ==
  /\ At(t, "note")
  /\ status_output' = Text(t, status[t])
  /\ status' = [status EXCEPT ![t] = "OK"]
  /\ pc' = [pc EXCEPT ![t] = "copy"]
  /\ mishaps' = mishaps \cup Overlap(t)
  /\ UNCHANGED <<up, arg, output, sd, req, pipes, procs, signals, net>>

-----------------------------------------------------------------------------
(* The answer.                                                             *)

Copy(t) ==
  /\ At(t, "copy")
  /\ output' = status_output
  /\ pc' = [pc EXCEPT ![t] = "send"]
  /\ mishaps' = mishaps \cup Overlap(t)
  /\ UNCHANGED <<up, arg, status_output, sd, req, status, pipes, procs,
                 signals, net>>

Answer(t) ==
  /\ At(t, "send") /\ Sends(t)
  /\ pc' = [pc EXCEPT ![t] = "read"]
  /\ UNCHANGED <<up, arg, texts, sd, req, status, pipes, procs, signals, fds,
                 queue, inbox, mishaps>>

-----------------------------------------------------------------------------
(* Children and signals.                                                   *)

(* What a child writes later is not read.                                  *)
KidWrites(t) ==
  /\ up /\ kid[t] = "run"
  /\ pc[t] \in {"forked", "link"} /\ t \notin filled
  /\ filled' = filled \cup {t}
  /\ UNCHANGED <<up, arg, texts, frames, pipes, kid, holds, signals, net,
                 mishaps>>

(* A child that floods its pipe does not end: nobody reads on.             *)
KidEnds(k) ==
  /\ up /\ kid[k] = "run"
  /\ k \in Threads => req[k] # "flood"
  /\ kid' = [kid EXCEPT ![k] = "zombie"]
  /\ holds' = [holds EXCEPT ![k] = {}]
  /\ pending' = (sigchld # "default")
  /\ UNCHANGED <<up, arg, texts, frames, pipes, filled, sigchld, reaping, net,
                 mishaps>>

(* Any thread may get the signal; it does not get another one meanwhile.   *)
Signal(p) ==
  /\ up /\ pending /\ p \notin reaping
  /\ p # Main => pc[p] # "none"
  /\ pending' = FALSE
  /\ reaping' = IF sigchld = "reap" THEN reaping \cup {p} ELSE reaping
  /\ UNCHANGED <<up, arg, texts, frames, pipes, procs, sigchld, net, mishaps>>

(* waitpid(-1) in zombie_reaper takes any child, also one that its thread  *)
(* is waiting for.                                                         *)
Reap(k) ==
  /\ up /\ reaping # {} /\ kid[k] = "zombie"
  /\ kid' = [kid EXCEPT ![k] = "none"]
  /\ mishaps' = mishaps \cup {m \in {"stolen"} : k \in Threads}
  /\ UNCHANGED <<up, arg, texts, frames, pipes, holds, filled, signals, net>>

(* No children: waitpid returns -1.                                        *)
ReapEnd(p) ==
  /\ up /\ p \in reaping /\ \A k \in Kids : kid[k] = "none"
  /\ reaping' = reaping \ {p}
  /\ UNCHANGED <<up, arg, texts, frames, pipes, procs, sigchld, pending, net,
                 mishaps>>

-----------------------------------------------------------------------------
Serve(t) == \/ Begin(t) \/ Quit(t) \/ Eof(t) \/ Empty(t) \/ Cprint(t)
            \/ Show(t) \/ Cprintf(t) \/ Tell(t)
            \/ Background(t) \/ BackgroundStale(t)
            \/ Pipe(t) \/ Fork(t) \/ RunFails(t)
            \/ CloseLink(t) \/ ReadLink(t) \/ Wait(t) \/ Note(t)
            \/ Copy(t) \/ Answer(t) \/ SendKills(t)

System == \/ \E p \in Threads \cup {Main} : Signal(p) \/ ReapEnd(p)
          \/ \E k \in Kids : KidEnds(k) \/ Reap(k)

Client(c) == Connect(c) \/ Fin(c) \/ Abort(c) \/ \E l \in Sent[c] : Send(c, l)

Next == \/ \E t \in Threads : Accept(t) \/ Serve(t) \/ KidWrites(t)
        \/ AcceptFails \/ System \/ Die
        \/ \E c \in Clients : Client(c)

Spec == Init /\ [][Next]_vars

(* Every thread outside the handler is scheduled, and every command that  *)
(* can end does; of the handler itself nothing is assumed.                 *)
FairSpec ==
  /\ Spec
  /\ \A t \in Threads : WF_vars(Serve(t))
  /\ \A k \in Kids : WF_vars(KidEnds(k))
=============================================================================
