-------------------------------- MODULE IServ --------------------------------
(***************************************************************************)
(* The iterative server (iserv.cc) and the connections it shares with its  *)
(* clients: accept one client, answer its lines until it has closed or     *)
(* asked to quit, accept the next.  A connection has two ends, and either  *)
(* may be given up with something unread in it; what the other end then    *)
(* finds is what decides whether it goes on, stops or is killed.           *)
(***************************************************************************)
EXTENDS Integers, Sequences, FiniteSets

CONSTANTS
  Conns,        \* the connections there are sockets for at one time
  Backlog,      \* qlen, the length of the listen queue
  NoConn

ASSUME ServerConstantsOK ==
  /\ NoConn \notin Conns
  /\ Backlog \in Nat

VARIABLES
  up,           \* the server runs
  served,       \* the connection do_client is called with, or NoConn
  queue,        \* connections waiting for an accept
  conn          \* the connections, see Free

serverVars == <<up, served, queue>>

(* The client's end of a connection: "away", "open", "fin" (shut down, or  *)
(* closed with nothing unread), "rst" (closed with something unread); and  *)
(* so for the server's end.  holders are the client processes that have a  *)
(* descriptor for it.  What is under way, inbox to the server and answers  *)
(* back, is in pieces: a command, or the end of line sent behind it.       *)
Free == [sock |-> "away", srv |-> "away", inbox |-> <<>>, answers |-> <<>>,
         holders |-> {}]

(* A connection that both sides have closed is no more.                    *)
Settle(r) == IF r.holders = {} /\ r.srv # "open" THEN Free ELSE r

ServerInit ==
  /\ up = TRUE
  /\ served = NoConn
  /\ queue = <<>>
  /\ conn = [c \in Conns |-> Free]

-----------------------------------------------------------------------------
(* What a client does to a connection.                                     *)

(* A variation of Connectable: the queue has room for everybody.           *)
ConnectableAlways == up /\ \E c \in Conns : conn[c] = Free

(* connectbyport: the kernel completes the connection as long as the       *)
(* queue has room; without a socket it fails, too.                         *)
Connectable == up /\ Len(queue) < Backlog /\ \E c \in Conns : conn[c] = Free

Connect(c, p) ==
  /\ Connectable /\ conn[c] = Free
  /\ conn' = [conn EXCEPT ![c] = [Free EXCEPT !.sock = "open", !.srv = "open",
                                              !.holders = {p}]]
  /\ queue' = Append(queue, c)
  /\ UNCHANGED <<up, served>>

(* What becomes of the client's end when p gives up its descriptor for it, *)
(* the last one: a reset if something is left unread.                      *)
Closed(r) == IF r.answers # <<>> THEN "rst" ELSE "fin"

(* closePort: the connection is shut down for whoever else holds it, too.  *)
Shut(r, p) ==
  Settle([r EXCEPT !.holders = @ \ {p},
                 !.sock = IF r.sock # "open" THEN @
                          ELSE IF r.holders = {p} THEN Closed(r) ELSE "fin"])

(* The descriptor of a process that ends: no shutdown.                     *)
LeftBy(r, p) ==
  IF p \notin r.holders THEN r
  ELSE Settle([r EXCEPT !.holders = @ \ {p},
                 !.sock = IF r.sock = "open" /\ r.holders = {p}
                          THEN Closed(r) ELSE @])

-----------------------------------------------------------------------------
(* The server.                                                             *)

Serving == up /\ served # NoConn

IsEnd(piece) == piece.text = "eol"

(* do_client sends the first n pieces of its inbox back: the commands of a *)
(* line that has come to its end, or to that of the stream; or the end of  *)
(* a line whose commands it has sent.  What is sent by several processes   *)
(* may meet in one line.                                                   *)
Sends(n) ==
  LET in == conn[served].inbox IN
  \/ n = 1 /\ IsEnd(in[1])
  \/ /\ \A m \in 1..n : ~IsEnd(in[m])
     /\ \/ n + 1 \in DOMAIN in /\ IsEnd(in[n + 1])
        \/ n = Len(in) /\ conn[served].sock = "fin"

IsQuit(n) == n = 1 /\ conn[served].inbox[1].text = "quit"

Rest(s, n) == SubSeq(s, n + 1, Len(s))

(* A variation of Release: main does not close the connection.             *)
ReleaseOpen(how) ==
  /\ how = "fin"
  /\ conn' = [conn EXCEPT ![served].inbox = <<>>]
  /\ served' = NoConn
  /\ UNCHANGED <<up, queue>>

(* do_client returns, main closes the connection.                          *)
Release(how) ==
  /\ conn' = [conn EXCEPT ![served] =
                Settle([@ EXCEPT !.srv = how, !.inbox = <<>>])]
  /\ served' = NoConn
  /\ UNCHANGED <<up, queue>>

(* The process ends: clients find the end of the stream, or a reset if     *)
(* they have not been accepted or what they sent has not been read.        *)
Die ==
  /\ up' = FALSE /\ served' = NoConn /\ queue' = <<>>
  /\ conn' = [c \in Conns |->
       IF conn[c].srv # "open" THEN conn[c]
       ELSE Settle([conn[c] EXCEPT !.inbox = <<>>,
              !.srv = IF c = served /\ conn[c].inbox = <<>>
                      THEN "fin" ELSE "rst"])]

Accept ==
  /\ up /\ served = NoConn /\ queue # <<>>
  /\ served' = Head(queue) /\ queue' = Tail(queue)
  /\ UNCHANGED <<up, conn>>

(* A variation of Answer: readline reads ahead, and what is behind the     *)
(* line is lost.                                                           *)
AnswerBlock ==
  Serving /\ \E n \in DOMAIN conn[served].inbox :
    /\ Sends(n) /\ ~IsQuit(n) /\ conn[served].sock = "open"
    /\ conn' = [conn EXCEPT
                  ![served].inbox = IF IsEnd(@[n]) THEN <<>>
                                    ELSE SubSeq(@, n + 1, n + 1),
                  ![served].answers = @ \o SubSeq(conn[served].inbox, 1, n)]
    /\ UNCHANGED serverVars

(* "ACK: " and the line, then its end.                                     *)
Answer ==
  Serving /\ \E n \in DOMAIN conn[served].inbox :
    /\ Sends(n) /\ ~IsQuit(n) /\ conn[served].sock = "open"
    /\ conn' = [conn EXCEPT
                  ![served].inbox = Rest(@, n),
                  ![served].answers = @ \o SubSeq(conn[served].inbox, 1, n)]
    /\ UNCHANGED serverVars

(* The same when the client is no longer there: a send raises SIGPIPE, or  *)
(* goes nowhere and may have the client's side reset the connection.       *)
AnswerGone ==
  Serving /\ \E n \in DOMAIN conn[served].inbox :
    /\ Sends(n) /\ ~IsQuit(n) /\ conn[served].sock # "open"
    /\ \/ Die
       \/ /\ \E how \in {conn[served].sock, "rst"} :
               conn' = [conn EXCEPT ![served].inbox = Rest(@, n),
                                    ![served].sock = how]
          /\ UNCHANGED serverVars

(* Two pieces make the line "quit"; with more, something stays unread and  *)
(* the end of the stream may be followed by a reset.                       *)
Quit ==
  Serving /\ \E n \in DOMAIN conn[served].inbox :
    /\ Sends(n) /\ IsQuit(n)
    /\ Release("fin") \/ (Len(conn[served].inbox) > 2 /\ Release("rst"))

(* readline finds the end of the stream.                                   *)
Eof ==
  /\ Serving /\ conn[served].inbox = <<>> /\ conn[served].sock = "fin"
  /\ Release("fin")

(* After a reset readline returns -1, which is not recv_nodata: whatever   *)
(* req holds is taken for a request, "quit" by chance or one to answer.    *)
Broken ==
  /\ Serving /\ conn[served].sock = "rst"
  /\ \A n \in DOMAIN conn[served].inbox : ~Sends(n)
  /\ Release("fin") \/ Die

AcceptFails == up /\ served = NoConn /\ queue # <<>> /\ Die

(* main again.  Connections of the last run may still have a client.       *)
Start ==
  /\ ~up
  /\ up' = TRUE
  /\ UNCHANGED <<served, queue, conn>>

Serve == Accept \/ Answer \/ AnswerGone \/ Quit \/ Eof \/ Broken

ServerNext == Serve \/ AcceptFails \/ Start
=============================================================================
