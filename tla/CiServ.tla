------------------------------- MODULE CiServ -------------------------------
(***************************************************************************)
(* The poll server (ciserv.cc): one thread, one array of pollfd entries.   *)
(* A turn of its loop is a poll(), which records what is readable, and     *)
(* then one of three things: the request of the first entry found          *)
(* readable, a new connection, or nothing.  Clients go on sending, closing *)
(* and connecting between the poll and what is done about it.              *)
(***************************************************************************)
EXTENDS Integers, Sequences, FiniteSets

CONSTANTS
  Clients,      \* client programs, each with at most one connection
  MaxClients,   \* max_clients
  Fds,          \* descriptor numbers left to the process
  Backlog,      \* qlen, the length of the listen queue
  InboxLimit,   \* bound on what a client sends ahead
  None

ASSUME ConstantsOK ==
  /\ MaxClients \in Nat \ {0}
  /\ Fds \subseteq Nat \ {0}
  /\ Backlog \in Nat /\ InboxLimit \in Nat
  /\ None \notin Clients

VARIABLES
  up,           \* the server runs
  pc,           \* "poll", "pick" or "run": where main and do_client are
  which,        \* do_client's parameter
  asker,        \* history: the client whose request is being run
  socks,        \* the descriptors in the array, from entry 1
  open_socks,   \* entries in use, the master's included
  ready,        \* the entries the last poll found to have revents = POLLIN,
                \* 0 for the master socket; empty once they are acted upon
  fds,          \* the process's descriptors: the connection, or None
  queue,        \* connections waiting for an accept
  sock,         \* what the kernel knows of each connection
  inbox         \* the lines each connection holds unread; the last may be
                \* a "half", a line without its end

vars == <<up, pc, which, asker, socks, open_socks, ready, fds, queue, sock,
          inbox>>

serverVars == <<pc, which, asker, socks, open_socks, ready, fds>>

Lines == {"command", "quit"}

Slots == 1..MaxClients
Used  == 1..(open_socks - 1)

Holder(i) == IF socks[i] = -1 THEN None ELSE fds[socks[i]]

-----------------------------------------------------------------------------
(* A process that has just set up its master socket, and a network in      *)
(* which nobody has connected to it yet.                                   *)
Init ==
  /\ up = TRUE
  /\ pc = "poll"
  /\ which = 1
  /\ asker = None
  /\ socks = [i \in Slots |-> -1]
  /\ open_socks = 1
  /\ ready = {}
  /\ fds = [k \in Fds |-> None]
  /\ queue = <<>>
  /\ sock = [c \in Clients |-> "away"]
  /\ inbox = [c \in Clients |-> <<>>]

(* The process ends and its connections with it; the state it leaves is    *)
(* the one the next process finds.                                         *)
Die ==
  /\ up' = FALSE
  /\ pc' = "poll"
  /\ which' = 1
  /\ asker' = None
  /\ socks' = [i \in Slots |-> -1]
  /\ open_socks' = 1
  /\ ready' = {}
  /\ fds' = [k \in Fds |-> None]
  /\ queue' = <<>>
  /\ sock' = [c \in Clients |-> "away"]
  /\ inbox' = [c \in Clients |-> <<>>]

Crash == up /\ Die

Start == ~up /\ up' = TRUE /\ UNCHANGED <<serverVars, queue, sock, inbox>>

-----------------------------------------------------------------------------
(* The clients.                                                            *)

Connect(c) ==
  /\ up /\ sock[c] = "away" /\ Len(queue) < Backlog
  /\ sock' = [sock EXCEPT ![c] = "open"]
  /\ queue' = Append(queue, c)
  /\ UNCHANGED <<up, serverVars, inbox>>

Waiting(c) == inbox[c] # <<>> /\ inbox[c][Len(inbox[c])] = "half"

Send(c, line) ==
  /\ sock[c] = "open" /\ Len(inbox[c]) < InboxLimit /\ ~Waiting(c)
  /\ inbox' = [inbox EXCEPT ![c] = Append(@, line)]
  /\ UNCHANGED <<up, serverVars, queue, sock>>

(* The end of a line of which a half was sent before.                      *)
SendRest(c, line) ==
  /\ sock[c] = "open" /\ Waiting(c)
  /\ inbox' = [inbox EXCEPT ![c][Len(inbox[c])] = line]
  /\ UNCHANGED <<up, serverVars, queue, sock>>

(* close() by a client that has read all it was sent, or shutdown().       *)
Fin(c) ==
  /\ sock[c] = "open"
  /\ sock' = [sock EXCEPT ![c] = "fin"]
  /\ UNCHANGED <<up, serverVars, queue, inbox>>

(* A client that is killed, or closes with an answer unread.               *)
Abort(c) ==
  /\ sock[c] \in {"open", "fin"}
  /\ sock' = [sock EXCEPT ![c] = "rst"]
  /\ UNCHANGED <<up, serverVars, queue, inbox>>

-----------------------------------------------------------------------------
(* The server.                                                             *)

Readable(c) == c # None /\ (inbox[c] # <<>> \/ sock[c] = "fin")

(* poll() over the entries in use.  A connection that was reset shows      *)
(* POLLIN | POLLERR | POLLHUP, which is not POLLIN.                        *)
Poll ==
  /\ up /\ pc = "poll"
  /\ ready' = {i \in Used : Readable(Holder(i)) /\ sock[Holder(i)] # "rst"}
              \cup {i \in {0} : queue # <<>>}
  /\ pc' = "pick"
  /\ UNCHANGED <<up, which, asker, socks, open_socks, fds, queue, sock, inbox>>

(* A variation of First: the entries are searched from the last one.       *)
FirstFromTop(i) ==
  i \in ready \ {0} /\ \A j \in ready : j <= i

First(i) == i \in ready \ {0} /\ \A j \in ready \ {0} : i <= j

(* Three variations of DeleteSocket: the shift stops one entry early;      *)
(* nothing is shifted; the descriptor is not closed.                       *)
DeleteShort(i) ==
  /\ fds' = [fds EXCEPT ![socks[i]] = None]
  /\ socks' = [j \in Slots |-> IF i <= j /\ j + 2 \in Used
                               THEN socks[j + 1] ELSE socks[j]]
  /\ open_socks' = open_socks - 1
  /\ sock' = [sock EXCEPT ![Holder(i)] = "away"]

DeleteUnshifted(i) ==
  /\ fds' = [fds EXCEPT ![socks[i]] = None]
  /\ open_socks' = open_socks - 1
  /\ sock' = [sock EXCEPT ![Holder(i)] = "away"]
  /\ UNCHANGED socks

DeleteUnclosed(i) ==
  /\ socks' = [j \in Slots |-> IF i <= j /\ j + 1 \in Used
                               THEN socks[j + 1] ELSE socks[j]]
  /\ open_socks' = open_socks - 1
  /\ sock' = [sock EXCEPT ![Holder(i)] = "away"]
  /\ UNCHANGED fds

(* delete_socket(i) for an entry in use.                                   *)
DeleteSocket(i) ==
  LET c == Holder(i) IN
  /\ fds' = [fds EXCEPT ![socks[i]] = None]
  /\ socks' = [j \in Slots |-> IF i <= j /\ j + 1 \in Used
                               THEN socks[j + 1] ELSE socks[j]]
  /\ open_socks' = open_socks - 1
  /\ sock' = [sock EXCEPT ![c] = "away"]

(* What readline leaves in req: the next line, or half a line that ends    *)
(* with the connection.  When the connection is reset before that, it      *)
(* returns -1, which do_client takes for a line: whatever is in req, from  *)
(* an earlier call, is the request.  A half line of a client that is still *)
(* there is waited for.                                                    *)
InReq(c, line) ==
  \/ inbox[c] # <<>> /\ Head(inbox[c]) # "half" /\ line = Head(inbox[c])
  \/ inbox[c] = <<"half">> /\ sock[c] # "open"
  \/ inbox[c] = <<>> /\ sock[c] = "rst"

Read(c) == IF inbox[c] = <<>> THEN <<>> ELSE Tail(inbox[c])

(* do_client up to run_it.  "quit" takes the client out of the array and   *)
(* then goes on like any other line.                                       *)
ReadLine(i, line) ==
  LET c == Holder(i) IN
  /\ up /\ pc = "pick" /\ First(i)
  /\ InReq(c, line)
  /\ which' = i
  /\ asker' = c
  /\ pc' = "run"
  /\ ready' = {}
  /\ \/ /\ line = "quit"
        /\ DeleteSocket(i)
        /\ inbox' = [inbox EXCEPT ![c] = <<>>]
     \/ /\ line = "command"
        /\ inbox' = [inbox EXCEPT ![c] = Read(c)]
        /\ UNCHANGED <<fds, socks, open_socks, sock>>
  /\ UNCHANGED <<up, queue>>

(* End of file.                                                            *)
ReadEof(i) ==
  /\ up /\ pc = "pick" /\ First(i)
  /\ inbox[Holder(i)] = <<>> /\ sock[Holder(i)] = "fin"
  /\ DeleteSocket(i)
  /\ pc' = "poll"
  /\ ready' = {}
  /\ UNCHANGED <<up, which, asker, queue, inbox>>

(* run_it has waited for the command; its answer goes to whatever entry    *)
(* which denotes by now.  An entry past the used ones holds a closed       *)
(* descriptor, and the sends fail; a client that is going may reset the    *)
(* connection in return.                                                   *)
Reply ==
  LET c == Holder(which) IN
  /\ up /\ pc = "run"
  /\ \/ c = None /\ UNCHANGED sock
     \/ c # None /\ sock[c] # "rst" /\ UNCHANGED sock
     \/ c # None /\ sock[c] = "fin" /\ sock' = [sock EXCEPT ![c] = "rst"]
  /\ pc' = "poll"
  /\ asker' = None
  /\ which' = 1
  /\ UNCHANGED <<up, socks, open_socks, ready, fds, queue, inbox>>

(* An answer is three sends: the second one to a peer that has gone raises *)
(* SIGPIPE, which nothing handles.                                         *)
ReplyKills ==
  LET c == Holder(which) IN
  /\ up /\ pc = "run"
  /\ c # None /\ sock[c] \in {"fin", "rst"}
  /\ Die

Lowest(k) == fds[k] = None /\ \A j \in Fds : fds[j] = None => k <= j

(* A variation of AcceptNew: the room is counted one too many.             *)
AcceptOne ==
  /\ up /\ pc = "pick" /\ ready = {0}
  /\ open_socks <= MaxClients
  /\ \E k \in Fds : /\ Lowest(k)
                    /\ fds' = [fds EXCEPT ![k] = Head(queue)]
                    /\ socks' = [socks EXCEPT ![open_socks] = k]
  /\ open_socks' = open_socks + 1
  /\ queue' = Tail(queue)
  /\ pc' = "poll"
  /\ ready' = {}
  /\ UNCHANGED <<up, which, asker, sock, inbox>>

(* accept_new.  When accept() fails (no descriptor or no memory left, here *)
(* or in the system) the entry keeps -1 and is not counted, and the client *)
(* stays in the queue.                                                     *)
AcceptNew ==
  /\ up /\ pc = "pick" /\ ready = {0}
  /\ open_socks < MaxClients
  /\ \/ /\ \E k \in Fds : /\ Lowest(k)
                          /\ fds' = [fds EXCEPT ![k] = Head(queue)]
                          /\ socks' = [socks EXCEPT ![open_socks] = k]
        /\ open_socks' = open_socks + 1
        /\ queue' = Tail(queue)
     \/ /\ socks' = [socks EXCEPT ![open_socks] = -1]
        /\ UNCHANGED <<open_socks, fds, queue>>
  /\ pc' = "poll"
  /\ ready' = {}
  /\ UNCHANGED <<up, which, asker, sock, inbox>>

(* Nobody has anything to say, or there is no room.                        *)
Again ==
  /\ up /\ pc = "pick"
  /\ \/ ready = {}
     \/ ready = {0} /\ open_socks >= MaxClients
  /\ pc' = "poll"
  /\ ready' = {}
  /\ UNCHANGED <<up, which, asker, socks, open_socks, fds, queue, sock, inbox>>

Serve == Poll \/ AcceptNew \/ Again \/ Reply \/ ReplyKills
         \/ \E i \in Slots : ReadEof(i) \/ \E l \in Lines : ReadLine(i, l)

Client(c) == \/ Connect(c) \/ Fin(c) \/ Abort(c)
             \/ \E l \in Lines \cup {"half"} : Send(c, l)
             \/ \E l \in Lines : SendRest(c, l)

Next == Crash \/ Start \/ Serve \/ \E c \in Clients : Client(c)

Spec == Init /\ [][Next]_vars

(* The loop goes on, and every command ends.                               *)
FairSpec == Spec /\ WF_vars(Serve)
=============================================================================
