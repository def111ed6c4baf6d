---------------------------- MODULE CServProofs ----------------------------
(***************************************************************************)
(* Theorems about the forking server, for any number of connections.       *)
(***************************************************************************)
EXTENDS CServProps, QueueLemmas

(* Holdings is not inductive: a connection that is accepted must be one    *)
(* that no process has open yet, and nothing is left of one that is away.  *)
Apart ==
  /\ \A m, n \in DOMAIN queue : queue[m] = queue[n] => m = n
  /\ \A c \in Conns : Queued(c) => ~HeldIn(opened, c) /\ child[c] = "none"
  /\ \A c \in Conns : sock[c] = "away" => ~Queued(c) /\ ~HeldIn(opened, c)

(* What is on record about a connection is about one that is still open.   *)
Recorded ==
  /\ \A c \in unforked \cup eof : HeldIn(opened, c)
  /\ \A c \in Conns : child[c] = "serving" => c \in opened[c]

(* The connection between accept and close is open in the parent, between  *)
(* accept and fork only there.                                             *)
InHand ==
  /\ parent # "accept" => ssock \in opened[Parent]
  /\ parent = "fork" => ssock \notin unforked /\ child[ssock] = "none"

(* A parent that has ended has no children.                                *)
Childless == ~up => \A c \in Conns : child[c] # "zombie"

-----------------------------------------------------------------------------
(* Types.                                                                  *)

LEMMA LetGoType ==
  ASSUME TypeOK, NEW o \in [Procs -> SUBSET Conns],
         NEW told \in SUBSET Conns, LetGo(o, told)
  PROVE  /\ opened' \in [Procs -> SUBSET Conns]
         /\ sock' \in [Conns -> {"away", "open", "fin", "rst"}]
         /\ inbox' \in [Conns -> Seq(Lines)]
         /\ eof' \subseteq Conns
         /\ unforked' \subseteq Conns
BY DEF TypeOK, LetGo

LEMMA ClientType == ASSUME TypeOK, NEW c \in Conns, Client(c) PROVE TypeOK'
<1>1. CASE Connect(c)
  <2>1. Append(queue, c) \in Seq(Conns)
    BY AppendProperties DEF TypeOK
  <2>. QED  BY <1>1, <2>1 DEF TypeOK, Connect, parentVars
<1>2. ASSUME NEW line \in Lines, Send(c, line)
      PROVE  TypeOK'
  <2>1. Append(inbox[c], line) \in Seq(Lines)
    BY AppendProperties DEF TypeOK
  <2>. QED  BY <1>2, <2>1 DEF TypeOK, Send, parentVars
<1>3. CASE Fin(c) \/ Abort(c)
  BY <1>3 DEF TypeOK, Fin, Abort, parentVars
<1>. QED  BY <1>1, <1>2, <1>3 DEF Client

LEMMA DieType == ASSUME TypeOK, Die PROVE TypeOK'
<1>1. <<>> \in Seq(Conns) /\ <<>> \in Seq(Lines)
  OBVIOUS
<1>. QED  BY <1>1 DEF TypeOK, Die, Procs

LEMMA MainType == ASSUME TypeOK, Main PROVE TypeOK'
<1>1. CASE Accept
  <2>1. Head(queue) \in Conns /\ Tail(queue) \in Seq(Conns)
    BY <1>1, HeadTailProperties DEF TypeOK, Accept
  <2>. QED  BY <1>1, <2>1, ConstantsOK DEF TypeOK, Accept, Procs, ConstantsOK
<1>2. CASE AcceptFails
  BY <1>2, DieType DEF AcceptFails
<1>3. CASE Fork
  <2>1. ssock \in Conns
    BY <1>3 DEF TypeOK, Fork, Running
  <2>2. opened[Parent] \subseteq Conns
    BY DEF TypeOK, Procs
  <2>3. CASE /\ child' = [child EXCEPT ![ssock] = "serving"]
             /\ opened' = [opened EXCEPT ![ssock] = opened[Parent]]
             /\ parent' = "close"
             /\ UNCHANGED <<ssock, unforked>>
    BY <1>3, <2>1, <2>2, <2>3, ConstantsOK DEF TypeOK, Fork, Procs, ConstantsOK
  <2>4. CASE /\ unforked' = unforked \cup {ssock}
             /\ ssock' = None
             /\ parent' = "accept"
             /\ UNCHANGED <<child, opened>>
    BY <1>3, <2>1, <2>4 DEF TypeOK, Fork
  <2>. QED  BY <1>3, <2>3, <2>4 DEF Fork
<1>4. CASE Close
  <2>. DEFINE o == [opened EXCEPT ![Parent] = @ \ {ssock}]
  <2>1. o \in [Procs -> SUBSET Conns]
    BY DEF TypeOK, Procs
  <2>2. LetGo(o, {})
    BY <1>4 DEF Close
  <2>. HIDE DEF o
  <2>3. /\ opened' \in [Procs -> SUBSET Conns]
        /\ sock' \in [Conns -> {"away", "open", "fin", "rst"}]
        /\ inbox' \in [Conns -> Seq(Lines)]
        /\ eof' \subseteq Conns
        /\ unforked' \subseteq Conns
    BY <2>1, <2>2, LetGoType
  <2>. QED  BY <1>4, <2>3 DEF TypeOK, Close
<1>5. CASE Signal \/ ReapEnd \/ \E c \in Conns : Reap(c)
  BY <1>5 DEF TypeOK, Signal, ReapEnd, Reap, parentVars
<1>. QED  BY <1>1, <1>2, <1>3, <1>4, <1>5 DEF Main

LEMMA ServeType == ASSUME TypeOK, NEW c \in Conns, Serve(c) PROVE TypeOK'
<1>1. ASSUME NEW told \in SUBSET Conns, Exit(c, told)
      PROVE  TypeOK'
  <2>1. [opened EXCEPT ![c] = {}] \in [Procs -> SUBSET Conns]
    BY DEF TypeOK, Procs
  <2>. QED  BY <1>1, <2>1, LetGoType DEF TypeOK, Exit
<1>2. CASE Answer(c)
  <2>1. Tail(inbox[c]) \in Seq(Lines)
    BY <1>2, HeadTailProperties DEF TypeOK, Answer
  <2>. QED  BY <1>2, <2>1 DEF TypeOK, Answer, parentVars
<1>. QED  BY <1>1, <1>2 DEF Serve, Killed, Finish

LEMMA NextType == ASSUME TypeOK, [Next]_vars PROVE TypeOK'
<1>1. CASE Start
  BY <1>1 DEF TypeOK, Start
<1>2. CASE Crash
  BY <1>2, DieType DEF Crash
<1>3. CASE UNCHANGED vars
  BY <1>3 DEF TypeOK, vars, parentVars
<1>. QED  BY <1>1, <1>2, <1>3, MainType, ServeType, ClientType DEF Next

LEMMA InitType == Init => TypeOK
<1>1. <<>> \in Seq(Conns) /\ <<>> \in Seq(Lines)
  OBVIOUS
<1>. QED  BY <1>1 DEF Init, TypeOK, Procs

(* Every variable of the forking server keeps its type; in particular main *)
(* has a connection in hand exactly between accept and close.              *)
THEOREM TypeCorrect == Spec => []TypeOK
BY InitType, NextType, PTL DEF Spec

-----------------------------------------------------------------------------
(* The queue.                                                              *)

LEMMA QueueJoined ==
  ASSUME TypeOK, Apart, NEW c \in Conns, ~Queued(c), queue' = Append(queue, c)
  PROVE  /\ \A d \in Conns : Queued(d)' <=> Queued(d) \/ d = c
         /\ \A m, n \in DOMAIN queue' : queue'[m] = queue'[n] => m = n
<1>1. queue \in Seq(Conns) /\ Once(queue) /\ ~Among(queue, c)
  BY DEF TypeOK, Apart, Queued, Among, Once
<1>2. /\ \A d \in Conns : Among(queue', d) <=> Among(queue, d) \/ d = c
      /\ Once(queue')
  BY <1>1, Joined
<1>. QED  BY <1>2 DEF Queued, Among, Once

LEMMA QueueLeft ==
  ASSUME TypeOK, Apart, queue # <<>>, queue' = Tail(queue)
  PROVE  /\ Head(queue) \in Conns /\ Queued(Head(queue))
         /\ \A d \in Conns : Queued(d)' <=> Queued(d) /\ d # Head(queue)
         /\ \A m, n \in DOMAIN queue' : queue'[m] = queue'[n] => m = n
<1>1. queue \in Seq(Conns) /\ Once(queue)
  BY DEF TypeOK, Apart, Once
<1>2. /\ Head(queue) \in Conns /\ Among(queue, Head(queue))
      /\ \A d \in Conns : Among(queue', d) <=>
                          Among(queue, d) /\ d # Head(queue)
      /\ Once(queue')
  BY <1>1, Left
<1>. QED  BY <1>2 DEF Queued, Among, Once

(* Closing descriptors takes nothing away from a connection that is still  *)
(* open somewhere.                                                         *)
LEMMA LetGoKeeps ==
  ASSUME TypeOK, Apart, Recorded,
         NEW o \in [Procs -> SUBSET Conns], NEW told \in SUBSET Conns,
         \A p \in Procs : o[p] \subseteq opened[p],
         \A c \in told : HeldIn(opened, c),
         LetGo(o, told), UNCHANGED queue
  PROVE  /\ opened' = o
         /\ \A c \in Conns : Queued(c)' <=> Queued(c)
         /\ \A c \in Conns : HeldIn(opened, c)' => HeldIn(opened, c)
         /\ \A c \in Conns : sock'[c] = "away" =>
              ~Queued(c) /\ ~HeldIn(opened, c)'
         /\ \A c \in Conns : sock'[c] = "open" => sock[c] = "open"
         /\ \A c \in unforked' \cup eof' : HeldIn(opened, c)'
         /\ \A p \in Procs : o[p] \cap unforked \subseteq unforked'
         /\ \A c \in Conns : sock'[c] = "open" =>
              /\ c \in eof \cup told => c \in eof'
              /\ c \in unforked => c \in unforked'
         /\ unforked' \subseteq unforked
<1>1. opened' = o
  BY DEF LetGo
<1>2. \A c \in Conns : Queued(c)' <=> Queued(c)
  BY DEF Queued
<1>3. \A c \in Conns : HeldIn(opened, c)' <=> HeldIn(o, c)
  BY <1>1 DEF HeldIn
<1>4. \A c \in Conns : HeldIn(o, c) => HeldIn(opened, c)
  BY DEF HeldIn
<1>5. \A c \in Conns : /\ sock'[c] = IF c \in Over(o) THEN "away" ELSE sock[c]
                       /\ c \in Over(o) <=> HeldIn(opened, c) /\ ~HeldIn(o, c)
  BY DEF LetGo, Over
<1>6. \A c \in Conns : sock'[c] = "away" => ~Queued(c) /\ ~HeldIn(o, c)
  BY <1>4, <1>5 DEF Apart
<1>7. eof' = (eof \cup told) \ Over(o) /\ unforked' = unforked \ Over(o)
  BY DEF LetGo
<1>8. \A c \in unforked' \cup eof' : c \in Conns /\ HeldIn(o, c)
  BY <1>5, <1>7 DEF Recorded, TypeOK
<1>9. \A p \in Procs : o[p] \cap unforked \subseteq unforked'
  BY <1>5, <1>7 DEF HeldIn
<1>. QED  BY <1>1, <1>2, <1>3, <1>4, <1>5, <1>6, <1>7, <1>8, <1>9

-----------------------------------------------------------------------------
(* The inductive invariant.                                                *)

Facts == Holdings /\ ZombieNoticed /\ Attended /\ Apart /\ Recorded
         /\ InHand /\ Childless

LEMMA ClientInv == ASSUME TypeOK, Facts, NEW c \in Conns, Client(c)
                   PROVE  Facts'
<1>1. /\ UNCHANGED <<parentVars, sigchld, opened, child, eof>>
      /\ \A d \in Conns : HeldIn(opened, d)' = HeldIn(opened, d)
  <2>1. UNCHANGED <<parentVars, sigchld, opened, child, eof>>
    BY DEF Client, Connect, Send, Fin, Abort
  <2>. QED  BY <2>1 DEF HeldIn
<1>2. Holdings' /\ ZombieNoticed' /\ Recorded' /\ InHand' /\ Childless'
  BY <1>1 DEF Facts, Holdings, ZombieNoticed, Recorded, InHand, Childless,
              parentVars
<1>3. CASE Connect(c)
  <2>1. ~Queued(c) /\ ~HeldIn(opened, c)
    BY <1>3 DEF Connect, Facts, Apart
  <2>2. /\ \A d \in Conns : Queued(d)' <=> Queued(d) \/ d = c
        /\ \A m, n \in DOMAIN queue' : queue'[m] = queue'[n] => m = n
    BY <1>3, <2>1, QueueJoined DEF Connect, Facts
  <2>3. sock' = [sock EXCEPT ![c] = "open"] /\ child[c] = "none"
    BY <1>3 DEF Connect
  <2>4. Apart'
    BY <1>1, <2>1, <2>2, <2>3 DEF Apart, Facts, TypeOK
  <2>5. Attended'
    BY <1>1, <2>2, <2>3 DEF Attended, Facts, TypeOK, parentVars
  <2>. QED  BY <1>2, <2>4, <2>5 DEF Facts
<1>4. CASE Fin(c) \/ Abort(c) \/ \E line \in Lines : Send(c, line)
  <2>1. /\ \A d \in Conns : Queued(d)' <=> Queued(d)
        /\ queue' = queue
    BY <1>4 DEF Fin, Abort, Send, Queued
  <2>2. \A d \in Conns : /\ sock'[d] = "away" => sock[d] = "away"
                         /\ sock'[d] = "open" => sock[d] = "open"
    BY <1>4 DEF Fin, Abort, Send, TypeOK
  <2>3. Apart'
    BY <1>1, <2>1, <2>2 DEF Apart, Facts
  <2>4. Attended'
    BY <1>1, <2>1, <2>2 DEF Attended, Facts, parentVars
  <2>. QED  BY <1>2, <2>3, <2>4 DEF Facts
<1>. QED  BY <1>3, <1>4 DEF Client

LEMMA AcceptInv == ASSUME TypeOK, Facts, Accept PROVE Facts'
<1>. DEFINE h == Head(queue)
<1>1. /\ h \in Conns /\ Queued(h)
      /\ \A d \in Conns : Queued(d)' <=> Queued(d) /\ d # h
      /\ \A m, n \in DOMAIN queue' : queue'[m] = queue'[n] => m = n
  BY QueueLeft DEF Accept, Facts
<1>2. /\ ~HeldIn(opened, h) /\ child[h] = "none" /\ h \notin unforked
      /\ sock[h] # "away"
  BY <1>1 DEF Facts, Apart, Recorded
<1>3. /\ opened' = [opened EXCEPT ![Parent] = @ \cup {h}]
      /\ ssock' = h /\ parent' = "fork" /\ parent = "accept" /\ ssock = None
      /\ UNCHANGED <<up, handler, unforked, sigchld, child, sock, eof>>
  BY DEF Accept, Running, TypeOK
<1>4. /\ opened'[Parent] = opened[Parent] \cup {h}
      /\ \A d \in Conns : opened'[d] = opened[d]
  BY <1>3, ConstantsOK DEF TypeOK, Procs, ConstantsOK
<1>5. \A d \in Conns : HeldIn(opened, d)' <=> HeldIn(opened, d) \/ d = h
  BY <1>4 DEF HeldIn, Procs
<1>6. Holdings'
  <2>1. None \notin Conns /\ opened[Parent] \subseteq unforked
    BY <1>3, ConstantsOK DEF Facts, Holdings, ConstantsOK, TypeOK, Procs
  <2>. QED  BY <1>3, <1>4, <2>1 DEF Facts, Holdings
<1>7. Attended'
  BY <1>1, <1>3 DEF Facts, Attended
<1>8. Apart'
  BY <1>1, <1>2, <1>3, <1>5 DEF Facts, Apart
<1>9. Recorded' /\ InHand'
  BY <1>2, <1>3, <1>4, <1>5 DEF Facts, Recorded, InHand, TypeOK
<1>10. ZombieNoticed' /\ Childless'
  BY <1>3 DEF Facts, ZombieNoticed, Childless
<1>. QED  BY <1>6, <1>7, <1>8, <1>9, <1>10 DEF Facts

LEMMA ForkInv == ASSUME TypeOK, Facts, Fork PROVE Facts'
<1>1. /\ ssock \in Conns /\ parent = "fork" /\ ssock \in opened[Parent]
      /\ ssock \notin unforked /\ child[ssock] = "none"
      /\ UNCHANGED <<up, handler, sigchld, queue, sock, eof>>
  BY DEF Fork, Running, TypeOK, Facts, InHand
<1>2. \A d \in Conns : Queued(d)' <=> Queued(d)
  BY <1>1 DEF Queued
<1>3. HeldIn(opened, ssock) /\ ~Queued(ssock)
  BY <1>1 DEF Facts, Apart, HeldIn, Procs
<1>4. CASE /\ child' = [child EXCEPT ![ssock] = "serving"]
           /\ opened' = [opened EXCEPT ![ssock] = opened[Parent]]
           /\ parent' = "close"
           /\ UNCHANGED <<ssock, unforked>>
  <2>1. /\ opened[ssock] = {}
        /\ opened'[ssock] = opened[Parent]
        /\ \A p \in Procs \ {ssock} : opened'[p] = opened[p]
        /\ opened'[Parent] = opened[Parent]
    BY <1>1, <1>4, ConstantsOK DEF TypeOK, Procs, ConstantsOK, Facts, Holdings
  <2>2. \A d \in Conns : HeldIn(opened, d)' <=> HeldIn(opened, d)
    BY <2>1 DEF HeldIn, Procs
  <2>3. child'[ssock] = "serving" /\ \A d \in Conns \ {ssock} : child'[d] = child[d]
    BY <1>1, <1>4 DEF TypeOK
  <2>4. Holdings'
    BY <1>1, <1>4, <2>1, <2>3 DEF Facts, Holdings, Procs
  <2>5. Attended' /\ ZombieNoticed' /\ Childless'
    BY <1>1, <1>2, <1>4, <2>3 DEF Facts, Attended, ZombieNoticed, Childless
  <2>6. Apart'
    BY <1>1, <1>2, <1>3, <2>2, <2>3 DEF Facts, Apart
  <2>7. Recorded' /\ InHand'
    BY <1>1, <1>4, <2>1, <2>2, <2>3 DEF Facts, Recorded, InHand, TypeOK, Procs
  <2>. QED  BY <2>4, <2>5, <2>6, <2>7 DEF Facts
<1>5. CASE /\ unforked' = unforked \cup {ssock}
           /\ ssock' = None
           /\ parent' = "accept"
           /\ UNCHANGED <<child, opened>>
  <2>1. \A d \in Conns : HeldIn(opened, d)' <=> HeldIn(opened, d)
    BY <1>5 DEF HeldIn
  <2>2. Holdings'
    BY <1>5 DEF Facts, Holdings
  <2>3. Attended' /\ ZombieNoticed' /\ Childless'
    BY <1>1, <1>2, <1>5 DEF Facts, Attended, ZombieNoticed, Childless
  <2>4. Apart'
    BY <1>1, <1>2, <1>5, <2>1 DEF Facts, Apart
  <2>5. Recorded' /\ InHand'
    BY <1>1, <1>3, <1>5, <2>1 DEF Facts, Recorded, InHand, TypeOK
  <2>. QED  BY <2>2, <2>3, <2>4, <2>5 DEF Facts
<1>. QED  BY <1>4, <1>5 DEF Fork

LEMMA CloseInv == ASSUME TypeOK, Facts, Close PROVE Facts'
<1>. DEFINE o == [opened EXCEPT ![Parent] = @ \ {ssock}]
<1>1. /\ o \in [Procs -> SUBSET Conns]
      /\ o[Parent] = opened[Parent] \ {ssock}
      /\ \A d \in Conns : o[d] = opened[d]
      /\ \A p \in Procs : o[p] \subseteq opened[p]
  BY ConstantsOK DEF TypeOK, Procs, ConstantsOK
<1>2. /\ LetGo(o, {}) /\ ssock' = None /\ parent' = "accept"
      /\ parent = "close"
      /\ UNCHANGED <<up, handler, sigchld, child, queue>>
  BY DEF Close, Running
<1>. HIDE DEF o
<1>3. /\ opened' = o
      /\ \A c \in Conns : Queued(c)' <=> Queued(c)
      /\ \A c \in Conns : HeldIn(opened, c)' => HeldIn(opened, c)
      /\ \A c \in Conns : sock'[c] = "away" =>
           ~Queued(c) /\ ~HeldIn(opened, c)'
      /\ \A c \in Conns : sock'[c] = "open" => sock[c] = "open"
      /\ \A c \in unforked' \cup eof' : HeldIn(opened, c)'
      /\ \A p \in Procs : o[p] \cap unforked \subseteq unforked'
      /\ \A c \in Conns : sock'[c] = "open" =>
           (c \in eof => c \in eof') /\ (c \in unforked => c \in unforked')
  BY <1>1, <1>2, LetGoKeeps DEF Facts
<1>4. Holdings'
  BY <1>1, <1>2, <1>3 DEF Facts, Holdings, Procs
<1>5. Attended' /\ ZombieNoticed' /\ Childless'
  BY <1>2, <1>3 DEF Facts, Attended, ZombieNoticed, Childless
<1>6. Apart'
  BY <1>2, <1>3 DEF Facts, Apart
<1>7. Recorded' /\ InHand'
  BY <1>1, <1>2, <1>3 DEF Facts, Recorded, InHand
<1>. QED  BY <1>4, <1>5, <1>6, <1>7 DEF Facts

LEMMA ExitInv ==
  ASSUME TypeOK, Facts, NEW c \in Conns, NEW told \in SUBSET {c},
         child[c] = "serving", c \in told \/ sock[c] # "open", Exit(c, told)
  PROVE  Facts'
<1>. DEFINE o == [opened EXCEPT ![c] = {}]
<1>1. /\ o \in [Procs -> SUBSET Conns]
      /\ o[c] = {} /\ \A p \in Procs \ {c} : o[p] = opened[p]
      /\ o[Parent] = opened[Parent]
      /\ \A p \in Procs : o[p] \subseteq opened[p]
  BY ConstantsOK DEF TypeOK, Procs, ConstantsOK
<1>2. /\ LetGo(o, told)
      /\ child' = [child EXCEPT ![c] = IF up THEN "zombie" ELSE "none"]
      /\ sigchld' = up
      /\ UNCHANGED <<up, parent, ssock, handler, queue>>
  BY DEF Exit
<1>. HIDE DEF o
<1>3. HeldIn(opened, c) /\ ~Queued(c)
  BY DEF Facts, Recorded, Apart, HeldIn, Procs
<1>4. /\ opened' = o
      /\ \A d \in Conns : Queued(d)' <=> Queued(d)
      /\ \A d \in Conns : HeldIn(opened, d)' => HeldIn(opened, d)
      /\ \A d \in Conns : sock'[d] = "away" =>
           ~Queued(d) /\ ~HeldIn(opened, d)'
      /\ \A d \in Conns : sock'[d] = "open" => sock[d] = "open"
      /\ \A d \in unforked' \cup eof' : HeldIn(opened, d)'
      /\ \A p \in Procs : o[p] \cap unforked \subseteq unforked'
      /\ \A d \in Conns : sock'[d] = "open" =>
           /\ d \in eof \cup told => d \in eof'
           /\ d \in unforked => d \in unforked'
      /\ unforked' \subseteq unforked
  <2>1. told \in SUBSET Conns /\ \A d \in told : HeldIn(opened, d)
    BY <1>3
  <2>2. queue' = queue
    BY <1>2
  <2>3. Apart /\ Recorded
    BY DEF Facts
  <2>. QED  BY <1>1, <1>2, <2>1, <2>2, <2>3, LetGoKeeps
<1>5. /\ child'[c] = IF up THEN "zombie" ELSE "none"
      /\ \A d \in Conns \ {c} : child'[d] = child[d]
  BY <1>2 DEF TypeOK
<1>6. Holdings'
  BY <1>1, <1>2, <1>4, <1>5 DEF Facts, Holdings, Procs
<1>7. ZombieNoticed' /\ Childless'
  BY <1>2, <1>5 DEF Facts, ZombieNoticed, Childless
<1>8. Attended'
  BY <1>2, <1>4, <1>5 DEF Facts, Attended
<1>9. Apart'
  BY <1>2, <1>3, <1>4, <1>5 DEF Facts, Apart
<1>10. Recorded' /\ InHand'
  <2>1. \A d \in Conns : child'[d] = "serving" => d # c
    BY <1>5
  <2>2. Recorded'
    BY <1>1, <1>4, <1>5, <2>1 DEF Facts, Recorded, Procs
  <2>3. InHand'
    BY <1>1, <1>2, <1>4, <1>5 DEF Facts, InHand, TypeOK, Procs
  <2>. QED  BY <2>2, <2>3
<1>. QED  BY <1>6, <1>7, <1>8, <1>9, <1>10 DEF Facts

LEMMA ServeInv == ASSUME TypeOK, Facts, NEW c \in Conns, Serve(c)
                  PROVE  Facts'
<1>1. CASE Answer(c)
  <2>1. /\ UNCHANGED <<parentVars, sigchld, opened, child, queue, eof>>
        /\ \A d \in Conns : /\ Queued(d)' <=> Queued(d)
                            /\ HeldIn(opened, d)' <=> HeldIn(opened, d)
    BY <1>1 DEF Answer, Queued, HeldIn
  <2>2. \A d \in Conns : /\ sock'[d] = "away" => sock[d] = "away"
                         /\ sock'[d] = "open" => sock[d] = "open"
    BY <1>1 DEF Answer, TypeOK
  <2>3. Holdings' /\ ZombieNoticed' /\ Recorded' /\ InHand' /\ Childless'
    BY <2>1 DEF Facts, Holdings, ZombieNoticed, Recorded, InHand, Childless,
                parentVars
  <2>4. Apart' /\ Attended'
    BY <2>1, <2>2 DEF Facts, Apart, Attended, parentVars
  <2>. QED  BY <2>3, <2>4 DEF Facts
<1>2. CASE Killed(c)
  <2>1. {} \in SUBSET {c} /\ child[c] = "serving" /\ sock[c] # "open"
        /\ Exit(c, {})
    BY <1>2 DEF Killed
  <2>. QED  BY <2>1, ExitInv
<1>3. CASE Finish(c)
  <2>1. {c} \in SUBSET {c} /\ child[c] = "serving" /\ Exit(c, {c})
    BY <1>3 DEF Finish
  <2>. QED  BY <2>1, ExitInv
<1>. QED  BY <1>1, <1>2, <1>3 DEF Serve

LEMMA DieInv == ASSUME TypeOK, Facts, Die PROVE Facts'
<1>. DEFINE o == [opened EXCEPT ![Parent] = {}]
            ended == {c \in Conns : Queued(c)} \cup Over(o)
<1>1. /\ o[Parent] = {} /\ \A d \in Conns : o[d] = opened[d]
  BY ConstantsOK DEF TypeOK, Procs, ConstantsOK
<1>2. /\ opened' = o /\ up' = FALSE /\ parent' = "accept" /\ ssock' = None
      /\ handler' = FALSE /\ queue' = <<>>
      /\ eof' = eof \ ended /\ unforked' = unforked \ ended
      /\ \A d \in Conns : /\ child'[d] = IF child[d] = "zombie" THEN "none"
                                         ELSE child[d]
                          /\ sock'[d] = IF d \in ended THEN "away" ELSE sock[d]
  BY DEF Die
<1>3. \A d \in Conns :
        /\ d \in ended <=> Queued(d) \/ (HeldIn(opened, d) /\ ~HeldIn(o, d))
        /\ HeldIn(o, d) => HeldIn(opened, d)
  BY <1>1 DEF Over, HeldIn, Procs
<1>. HIDE DEF o, ended
<1>4. /\ \A d \in Conns : HeldIn(opened, d)' <=> HeldIn(o, d)
      /\ \A d \in Conns : ~Queued(d)'
  BY <1>2 DEF HeldIn, Queued
<1>5. \A d \in Conns, x \in Conns : x \in opened[d] => HeldIn(o, x)
  BY <1>1 DEF HeldIn, Procs
<1>6. \A d \in Conns : d \in unforked \cup eof => ~Queued(d)
  BY DEF Facts, Recorded, Apart
<1>7. Holdings'
  <2>1. \A d \in Conns : opened[d] \subseteq Conns
    BY DEF TypeOK, Procs
  <2>2. ASSUME NEW d \in Conns, NEW x \in opened[d], x \in unforked
        PROVE  x \in unforked'
    <3>1. x \in Conns
      BY <2>1
    <3>2. HeldIn(o, x) /\ ~Queued(x)
      BY <1>5, <1>6, <2>2, <3>1
    <3>3. x \notin ended
      BY <1>3, <3>1, <3>2
    <3>. QED  BY <1>2, <2>2, <3>3
  <2>. QED  BY <1>1, <1>2, <2>2 DEF Facts, Holdings
<1>8. ZombieNoticed' /\ Childless' /\ InHand'
  BY <1>2 DEF ZombieNoticed, Childless, InHand
<1>9. Attended'
  <2>1. ASSUME NEW d \in Conns, sock'[d] = "open"
        PROVE  child'[d] = "serving" \/ d \in eof' \/ d \in unforked'
    <3>1. d \notin ended /\ sock[d] = "open" /\ ~Queued(d)
      BY <1>2, <1>3, <2>1
    <3>2. CASE parent = "fork" /\ ssock = d
      <4>1. HeldIn(opened, d) /\ d \notin unforked
        BY <3>2 DEF Facts, InHand, HeldIn, Procs
      <4>2. PICK e \in Conns : d \in opened[e]
        BY <1>1, <1>3, <3>1, <4>1 DEF HeldIn, Procs
      <4>3. child[d] = "serving"
        BY <4>1, <4>2 DEF Facts, Holdings
      <4>. QED  BY <1>2, <4>3
    <3>. QED  BY <1>2, <3>1, <3>2 DEF Facts, Attended
  <2>. QED  BY <2>1 DEF Attended
<1>10. Apart'
  BY <1>2, <1>3, <1>4 DEF Facts, Apart
<1>11. Recorded'
  <2>1. \A d \in unforked' \cup eof' : HeldIn(opened, d)'
    BY <1>2, <1>3, <1>4 DEF Facts, Recorded, TypeOK
  <2>2. \A d \in Conns : child'[d] = "serving" => d \in opened'[d]
    BY <1>1, <1>2 DEF Facts, Recorded
  <2>. QED  BY <2>1, <2>2 DEF Recorded
<1>. QED  BY <1>7, <1>8, <1>9, <1>10, <1>11 DEF Facts

LEMMA SignalInv ==
  ASSUME TypeOK, Facts, Signal \/ ReapEnd \/ Start \/ \E c \in Conns : Reap(c)
  PROVE  Facts'
<1>1. /\ UNCHANGED <<parent, ssock, unforked, opened, queue, sock, eof>>
      /\ \A d \in Conns : /\ Queued(d)' <=> Queued(d)
                          /\ HeldIn(opened, d)' <=> HeldIn(opened, d)
  BY DEF Signal, ReapEnd, Start, Reap, Queued, HeldIn, parentVars
<1>2. \A d \in Conns : \/ child'[d] = child[d]
                       \/ child[d] = "zombie" /\ child'[d] = "none"
  BY DEF Signal, ReapEnd, Start, Reap, TypeOK
<1>3. ZombieNoticed' /\ Childless'
  BY DEF Signal, ReapEnd, Start, Reap, TypeOK, Facts, ZombieNoticed, Childless,
         parentVars
<1>4. Holdings' /\ Attended'
  BY <1>1, <1>2 DEF Facts, Holdings, Attended
<1>5. Apart' /\ Recorded' /\ InHand'
  <2>1. parent = "fork" => ssock \in Conns
    BY DEF TypeOK
  <2>. QED  BY <1>1, <1>2, <2>1 DEF Facts, Apart, Recorded, InHand
<1>. QED  BY <1>3, <1>4, <1>5 DEF Facts

LEMMA NextInv == ASSUME TypeOK, Facts, [Next]_vars PROVE Facts'
<1>1. CASE UNCHANGED vars
  BY <1>1 DEF vars, parentVars, Facts, Holdings, ZombieNoticed, Attended, Apart,
              Recorded, InHand, Childless, Queued, HeldIn
<1>2. CASE Crash \/ AcceptFails
  BY <1>2, DieInv DEF Crash, AcceptFails
<1>. QED  BY <1>1, <1>2, ClientInv, AcceptInv, ForkInv, CloseInv, ServeInv,
             SignalInv DEF Next, Main

LEMMA InitInv == Init => Facts
BY ConstantsOK DEF Init, Facts, Holdings, ZombieNoticed, Attended, Apart, Recorded,
       InHand, Childless, Queued, HeldIn, Procs

LEMMA AllFacts == Spec => []Facts
<1>1. TypeOK /\ Facts /\ [Next]_vars => TypeOK' /\ Facts'
  BY NextType, NextInv
<1>. QED  BY <1>1, InitType, InitInv, PTL DEF Spec

(* A child that has died is reaped or about to be, by a pending signal or  *)
(* the running handler (cserv.cc:53-58), however many die at once.         *)
THEOREM NoZombieUnnoticed == Spec => []ZombieNoticed
<1>1. Facts => ZombieNoticed
  BY DEF Facts
<1>. QED  BY <1>1, AllFacts, PTL

(* No process keeps a connection that is not its own, but for those whose  *)
(* fork failed (cserv.cc:85-97).                                           *)
THEOREM ConnectionsHeldByOwners == Spec => []Holdings
<1>1. Facts => Holdings
  BY DEF Facts
<1>. QED  BY <1>1, AllFacts, PTL

(* Every connected client is waiting, served, told of the end, or one for  *)
(* which fork failed, wherever the signal interrupts the parent and even   *)
(* after the parent has died.                                              *)
THEOREM ClientsAttended == Spec => []Attended
<1>1. Facts => Attended
  BY DEF Facts
<1>. QED  BY <1>1, AllFacts, PTL
=============================================================================
