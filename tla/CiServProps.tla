----------------------------- MODULE CiServProps -----------------------------
(***************************************************************************)
(* What the poll server guarantees its clients.                            *)
(***************************************************************************)
EXTENDS CiServ

TypeOK ==
  /\ up \in BOOLEAN
  /\ pc \in {"poll", "pick", "run"}
  /\ which \in Slots
  /\ asker \in Clients \cup {None}
  /\ socks \in [Slots -> Fds \cup {-1}]
  /\ open_socks \in 1..MaxClients
  /\ ready \subseteq 0..MaxClients
  /\ fds \in [Fds -> Clients \cup {None}]
  /\ queue \in Seq(Clients)
  /\ sock \in [Clients -> {"away", "open", "fin", "rst"}]
  /\ inbox \in [Clients -> Seq(Lines \cup {"half"})]

-----------------------------------------------------------------------------
(* The array and the process's descriptors agree (ciserv.cc:64-109): every *)
(* entry in use holds a descriptor that is open, no two the same one, and  *)
(* every open descriptor is held by an entry: shifting the entries loses   *)
(* no client, and no connection is left open that nobody polls.            *)
EntriesSound ==
  up =>
    /\ \A i \in Used : Holder(i) # None
    /\ \A i, j \in Used : socks[i] = socks[j] => i = j
    /\ \A k \in Fds : fds[k] # None => \E i \in Used : socks[i] = k

(* A connection waits for its accept or is polled, never both: a client is *)
(* not accepted twice.                                                     *)
QueuedOrServed ==
  up => \A c \in Clients :
    Cardinality({n \in DOMAIN queue : queue[n] = c})
      + Cardinality({k \in Fds : fds[k] = c})
      = IF sock[c] = "away" THEN 0 ELSE 1

(* The entries in use, as clients in order.                                *)
Line == IF up THEN [i \in Used |-> Holder(i)] ELSE <<>>

Arrivals == INSTANCE ClientLine WITH line <- Line, Room <- MaxClients - 1

(* The array with its shifting entries is a line of clients in order of    *)
(* arrival (the order in which they are served).                           *)
ArrivalOrder == Arrivals!Spec

(* The loop waits in readline for the rest of somebody's line.             *)
Stalled == up /\ pc = "pick" /\ \E i \in Used :
  First(i) /\ inbox[Holder(i)] = <<"half">> /\ sock[Holder(i)] = "open"

(* The client in the first entry is served however much the others send    *)
(* (ciserv.cc:234: the search starts from 1): what it has sent is read,    *)
(* unless its connection is reset, the server ends, or some client sends   *)
(* half a line and never the rest.                                         *)
FirstReadable == up /\ open_socks > 1 /\ Readable(Holder(1))

FirstServed == \A c \in Clients, n \in 1..InboxLimit :
  FirstReadable /\ Holder(1) = c /\ Len(inbox[c]) = n
    ~> \/ Len(inbox[c]) < n \/ sock[c] \in {"rst", "away"} \/ ~up
       \/ Holder(1) # c
       \/ []Stalled

-----------------------------------------------------------------------------
(* do_client "receives a request for client i and responds to it"          *)
(* (ciserv.cc:112): the answer to a request goes to who made it.           *)
AnswersAsker == pc = "run" => Holder(which) \in {asker, None}
=============================================================================
