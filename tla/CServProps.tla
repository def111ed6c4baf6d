----------------------------- MODULE CServProps -----------------------------
(***************************************************************************)
(* What the forking server guarantees.                                     *)
(***************************************************************************)
EXTENDS CServ

TypeOK ==
  /\ up \in BOOLEAN
  /\ parent \in {"accept", "fork", "close"}
  /\ ssock \in Conns \cup {None}
  /\ parent = "accept" <=> ssock = None
  /\ handler \in BOOLEAN
  /\ sigchld \in BOOLEAN
  /\ opened \in [Procs -> SUBSET Conns]
  /\ unforked \subseteq Conns
  /\ child \in [Conns -> {"none", "serving", "zombie"}]
  /\ queue \in Seq(Conns)
  /\ sock \in [Conns -> {"away", "open", "fin", "rst"}]
  /\ inbox \in [Conns -> Seq(Lines)]
  /\ eof \subseteq Conns

-----------------------------------------------------------------------------
(* No child dies unnoticed (cserv.cc:53-58, 75): a zombie is there only    *)
(* while a SIGCHLD is pending or its handler, which reaps until nothing is *)
(* left, is running; signals that arrive together are delivered once.      *)
ZombieNoticed ==
  (\E c \in Conns : child[c] = "zombie") => sigchld \/ handler

(* Whose connection is open where (cserv.cc:86-97): the parent has the one *)
(* it is handing over and those for which fork failed; a child has its own *)
(* and inherits nothing but the latter.                                    *)
Holdings ==
  /\ opened[Parent] \subseteq {ssock} \cup unforked
  /\ \A c \in Conns : /\ opened[c] \subseteq {c} \cup unforked
                      /\ opened[c] # {} => child[c] = "serving"

(* Nobody is left without a server or a word (cserv.cc:30-46, 79-97): a    *)
(* connected client waits to be accepted, is being accepted, is served,    *)
(* has been sent end of file, or is one for which fork failed.  The child  *)
(* may be gone while the parent, busy in the handler, has not closed its   *)
(* copy.                                                                   *)
Attended ==
  \A c \in Conns : sock[c] = "open" =>
    \/ Queued(c)
    \/ parent = "fork" /\ ssock = c
    \/ child[c] = "serving"
    \/ c \in eof
    \/ c \in unforked

(* Every zombie is reaped.                                                 *)
Reaped == \A c \in Conns : child[c] = "zombie" ~> child[c] = "none"

(* A client in the queue is accepted if the server goes on and the clients *)
(* before it leave: only a child that serves for ever keeps it there.      *)
Accepted(c) == ~Queued(c) \/ ~up

QueueServed == \A c \in Conns :
  Queued(c) ~> Accepted(c) \/ [](\E d \in Conns : child[d] = "serving")

-----------------------------------------------------------------------------
(* "Simple concurrent" server (cserv.cc:2), not one "that serves one       *)
(* client at a time" (cserv.cc:9): a client in the queue is accepted       *)
(* whether or not others are being served.                                 *)
AcceptsWhileServing == \A c \in Conns : Queued(c) ~> Accepted(c)
=============================================================================
