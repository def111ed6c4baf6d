---------------------------- MODULE CiServProofs ----------------------------
(***************************************************************************)
(* Theorems about the poll server, for any number of clients, entries and  *)
(* descriptors.                                                            *)
(***************************************************************************)
EXTENDS CiServProps, QueueLemmas, FiniteSetTheorems

Queued(c) == Among(queue, c)

Served(c) == \E k \in Fds : fds[k] = c

(* The entries the last poll found readable are acted upon before the      *)
(* array changes, and a waiting connection stays until it is accepted.     *)
Polled ==
  /\ ready \subseteq 0..(open_socks - 1)
  /\ pc # "pick" => ready = {}
  /\ 0 \in ready => queue # <<>>

(* A server that has ended has left nothing behind.                        *)
Ended == ~up => open_socks = 1 /\ queue = <<>> /\ pc = "poll"

(* EntriesSound, also while the server is down.                            *)
Entries ==
  /\ \A i \in Used : socks[i] \in Fds /\ fds[socks[i]] # None
  /\ \A i, j \in Used : socks[i] = socks[j] => i = j
  /\ \A k \in Fds : fds[k] # None => \E i \in Used : socks[i] = k

(* A connection is in one place: queued once, or served on one descriptor. *)
OnePlace ==
  /\ Once(queue)
  /\ \A k, l \in Fds : fds[k] # None /\ fds[k] = fds[l] => k = l
  /\ \A c \in Clients : Queued(c) => ~Served(c)
  /\ \A c \in Clients : sock[c] = "away" <=> ~Queued(c) /\ ~Served(c)

Facts == Polled /\ Ended /\ Entries /\ OnePlace

-----------------------------------------------------------------------------
(* The array.                                                              *)

LEMMA HolderOfUsed ==
  ASSUME TypeOK, Entries, NEW i \in Used
  PROVE  /\ socks[i] \in Fds
         /\ Holder(i) = fds[socks[i]]
         /\ Holder(i) \in Clients
<1>1. socks[i] \in Fds /\ fds[socks[i]] # None
  BY DEF Entries
<1>2. socks[i] # -1
  BY <1>1, ConstantsOK DEF ConstantsOK
<1>3. Holder(i) = fds[socks[i]]
  BY <1>2 DEF Holder
<1>. QED  BY <1>1, <1>3 DEF TypeOK

(* Taking an entry out leaves the others in order, each with its           *)
(* descriptor.                                                             *)
LEMMA Shifted ==
  ASSUME TypeOK, Entries, NEW i \in Used, DeleteSocket(i)
  PROVE  /\ open_socks' = open_socks - 1
         /\ open_socks' \in 1..MaxClients
         /\ socks' \in [Slots -> Fds \cup {-1}]
         /\ fds' \in [Fds -> Clients \cup {None}]
         /\ sock' \in [Clients -> {"away", "open", "fin", "rst"}]
         /\ \A j \in Used : j < i => socks'[j] = socks[j]
         /\ \A j \in Used : i <= j /\ j + 1 \in Used => socks'[j] = socks[j + 1]
         /\ Holder(i) \in Clients
         /\ sock' = [sock EXCEPT ![Holder(i)] = "away"]
         /\ \A k \in Fds : fds'[k] = IF k = socks[i] THEN None ELSE fds[k]
<1>1. /\ open_socks \in 1..MaxClients /\ MaxClients \in Nat
      /\ Used = 1..(open_socks - 1) /\ Slots = 1..MaxClients
      /\ socks \in [Slots -> Fds \cup {-1}]
      /\ fds \in [Fds -> Clients \cup {None}]
  BY ConstantsOK DEF TypeOK, Used, Slots, ConstantsOK
<1>2. socks[i] \in Fds /\ Holder(i) = fds[socks[i]] /\ Holder(i) \in Clients
  BY <1>1, HolderOfUsed
<1>3. /\ fds' = [fds EXCEPT ![socks[i]] = None]
      /\ socks' = [j \in Slots |-> IF i <= j /\ j + 1 \in Used
                                   THEN socks[j + 1] ELSE socks[j]]
      /\ open_socks' = open_socks - 1
      /\ sock' = [sock EXCEPT ![Holder(i)] = "away"]
  BY DEF DeleteSocket
<1>4. socks' \in [Slots -> Fds \cup {-1}]
  BY <1>1, <1>3
<1>5. /\ fds' \in [Fds -> Clients \cup {None}]
      /\ \A k \in Fds : fds'[k] = IF k = socks[i] THEN None ELSE fds[k]
  BY <1>1, <1>2, <1>3
<1>6. open_socks' \in 1..MaxClients
  BY <1>1, <1>3
<1>7. \A j \in Used : /\ j < i => socks'[j] = socks[j]
                      /\ i <= j /\ j + 1 \in Used => socks'[j] = socks[j + 1]
  BY <1>1, <1>3
<1>. QED  BY <1>2, <1>3, <1>4, <1>5, <1>6, <1>7 DEF TypeOK

LEMMA ShiftedEntries ==
  ASSUME TypeOK, Entries, OnePlace, NEW i \in Used, DeleteSocket(i),
         UNCHANGED queue
  PROVE  Entries' /\ OnePlace'
<1>1. /\ Used = 1..(open_socks - 1) /\ Used' = 1..(open_socks - 2)
      /\ open_socks \in Nat /\ open_socks - 1 \in Nat
  BY Shifted, ConstantsOK DEF Used, TypeOK, ConstantsOK
<1>2. \A j \in Used' : socks'[j] = IF j < i THEN socks[j] ELSE socks[j + 1]
  BY <1>1, Shifted
<1>3. \A j \in Used' : /\ j \in Used /\ j + 1 \in Used
                       /\ socks'[j] \in Fds /\ socks'[j] # socks[i]
  BY <1>1, <1>2 DEF Entries
<1>4. \A j \in Used' : fds'[socks'[j]] # None
  BY <1>2, <1>3, Shifted DEF Entries
<1>5. \A j, l \in Used' : socks'[j] = socks'[l] => j = l
  BY <1>1, <1>2, <1>3 DEF Entries
<1>6. ASSUME NEW k \in Fds, fds'[k] # None
      PROVE  \E j \in Used' : socks'[j] = k
  <2>1. k # socks[i] /\ fds[k] # None
    BY <1>6, Shifted
  <2>2. PICK j \in Used : socks[j] = k
    BY <2>1 DEF Entries
  <2>3. CASE j < i
    BY <1>1, <1>2, <2>2, <2>3
  <2>4. CASE i < j
    <3>1. j - 1 \in Used' /\ ~(j - 1 < i) /\ j - 1 + 1 = j
      BY <1>1, <2>4
    <3>. QED  BY <1>2, <2>2, <3>1
  <2>. QED  BY <1>1, <2>1, <2>2, <2>3, <2>4
<1>7. OnePlace'
  <2>1. \A c \in Clients : Queued(c)' <=> Queued(c)
    BY DEF Queued
  <2>2. \A c \in Clients : Served(c)' <=> Served(c) /\ c # Holder(i)
    <3>1. ASSUME NEW c \in Clients, NEW k \in Fds, fds'[k] = c
          PROVE  fds[k] = c /\ c # Holder(i)
      <4>1. c # None
        BY ConstantsOK DEF ConstantsOK
      <4>2. k # socks[i] /\ fds[k] = c
        BY <3>1, <4>1, Shifted
      <4>. QED  BY <4>1, <4>2, HolderOfUsed DEF OnePlace
    <3>2. ASSUME NEW c \in Clients, NEW k \in Fds, fds[k] = c, c # Holder(i)
          PROVE  fds'[k] = c
      BY <3>2, HolderOfUsed, Shifted
    <3>. QED  BY <3>1, <3>2 DEF Served
  <2>3. ~Queued(Holder(i))
    BY HolderOfUsed DEF OnePlace, Served
  <2>4. \A c \in Clients : sock'[c] = "away" <=> sock[c] = "away" \/ c = Holder(i)
    BY Shifted DEF TypeOK
  <2>5. \A k, l \in Fds : fds'[k] # None /\ fds'[k] = fds'[l] => k = l
    BY Shifted DEF OnePlace
  <2>. QED  BY <2>1, <2>2, <2>3, <2>4, <2>5 DEF OnePlace
<1>. QED  BY <1>3, <1>4, <1>5, <1>6, <1>7 DEF Entries

-----------------------------------------------------------------------------
(* Types.                                                                  *)

Items == Lines \cup {"half"}

LEMMA ClientType == ASSUME TypeOK, NEW c \in Clients, Client(c) PROVE TypeOK'
<1>1. CASE Connect(c)
  <2>1. Append(queue, c) \in Seq(Clients)
    BY AppendProperties DEF TypeOK
  <2>. QED  BY <1>1, <2>1 DEF TypeOK, Connect, serverVars
<1>2. ASSUME NEW line \in Items, Send(c, line)
      PROVE  TypeOK'
  <2>1. Append(inbox[c], line) \in Seq(Items)
    BY AppendProperties DEF TypeOK, Items
  <2>. QED  BY <1>2, <2>1 DEF TypeOK, Send, serverVars, Items
<1>3. ASSUME NEW line \in Lines, SendRest(c, line)
      PROVE  TypeOK'
  <2>1. /\ inbox[c] \in Seq(Items) /\ inbox[c] # <<>> /\ line \in Items
        /\ inbox' = [inbox EXCEPT ![c][Len(inbox[c])] = line]
    BY <1>3 DEF TypeOK, SendRest, Waiting, Items
  <2>2. Len(inbox[c]) \in 1..Len(inbox[c])
    BY <2>1, EmptySeq, LenProperties
  <2>3. [inbox[c] EXCEPT ![Len(inbox[c])] = line] \in Seq(Items)
    BY <2>1, <2>2, ExceptSeq
  <2>4. inbox' \in [Clients -> Seq(Items)]
    BY <2>1, <2>3 DEF TypeOK, Items
  <2>. QED  BY <1>3, <2>4 DEF TypeOK, SendRest, serverVars, Items
<1>4. CASE Fin(c) \/ Abort(c)
  BY <1>4 DEF TypeOK, Fin, Abort, serverVars
<1>. QED  BY <1>1, <1>2, <1>3, <1>4 DEF Client, Items

LEMMA DieType == ASSUME TypeOK, Die PROVE TypeOK'
<1>1. /\ <<>> \in Seq(Clients) /\ <<>> \in Seq(Lines \cup {"half"})
      /\ 1 \in Slots /\ 1 \in 1..MaxClients
  BY ConstantsOK DEF Slots, ConstantsOK
<1>. QED  BY <1>1 DEF TypeOK, Die

LEMMA NextType == ASSUME TypeOK, Entries, Polled, [Next]_vars PROVE TypeOK'
<1>0. /\ MaxClients \in Nat /\ open_socks \in 1..MaxClients
      /\ Slots = 1..MaxClients /\ Used = 1..(open_socks - 1)
      /\ 1 \in Slots /\ {} \subseteq 0..MaxClients
  BY ConstantsOK DEF TypeOK, Slots, Used, ConstantsOK
<1>1. CASE Start \/ UNCHANGED vars
  BY <1>1 DEF TypeOK, Start, vars, serverVars
<1>2. CASE Crash \/ \E i \in Slots : ReplyKills
  BY <1>2, DieType DEF Crash, ReplyKills
<1>3. CASE Poll
  <2>1. ready' \subseteq 0..MaxClients
    BY <1>0, <1>3 DEF Poll
  <2>. QED  BY <1>3, <2>1 DEF TypeOK, Poll
<1>4. CASE AcceptNew
  <2>1. open_socks + 1 \in 1..MaxClients /\ queue # <<>>
    BY <1>0, <1>4 DEF AcceptNew, Polled
  <2>2. Head(queue) \in Clients /\ Tail(queue) \in Seq(Clients)
    BY <2>1, HeadTailProperties DEF TypeOK
  <2>3. \A k \in Fds \cup {-1} :
          [socks EXCEPT ![open_socks] = k] \in [Slots -> Fds \cup {-1}]
    BY <1>0 DEF TypeOK
  <2>4. socks' \in [Slots -> Fds \cup {-1}]
    BY <1>4, <2>3 DEF AcceptNew
  <2>5. fds' \in [Fds -> Clients \cup {None}] /\ queue' \in Seq(Clients)
    BY <1>4, <2>2 DEF TypeOK, AcceptNew
  <2>6. open_socks' \in 1..MaxClients /\ ready' \subseteq 0..MaxClients
    BY <1>0, <1>4, <2>1 DEF AcceptNew
  <2>. QED  BY <1>4, <2>4, <2>5, <2>6 DEF TypeOK, AcceptNew
<1>5. CASE Again
  BY <1>0, <1>5 DEF TypeOK, Again
<1>6. CASE Reply
  <2>1. sock' \in [Clients -> {"away", "open", "fin", "rst"}]
    BY <1>6 DEF TypeOK, Reply
  <2>. QED  BY <1>0, <1>6, <2>1 DEF TypeOK, Reply
<1>7. ASSUME NEW i \in Slots, NEW line \in Lines, ReadLine(i, line)
      PROVE  TypeOK'
  <2>1. i \in Used
    BY <1>0, <1>7 DEF ReadLine, First, Polled
  <2>2. Holder(i) \in Clients
    BY <2>1, HolderOfUsed
  <2>3. CASE /\ line = "quit" /\ DeleteSocket(i)
             /\ inbox' = [inbox EXCEPT ![Holder(i)] = <<>>]
    <3>1. <<>> \in Seq(Lines \cup {"half"})
      OBVIOUS
    <3>. QED  BY <1>0, <1>7, <2>1, <2>2, <2>3, <3>1, Shifted DEF TypeOK, ReadLine
  <2>4. CASE /\ inbox' = [inbox EXCEPT ![Holder(i)] = Read(Holder(i))]
             /\ UNCHANGED <<fds, socks, open_socks, sock>>
    <3>1. Read(Holder(i)) \in Seq(Lines \cup {"half"})
      BY <2>2, HeadTailProperties, EmptySeq DEF Read, TypeOK
    <3>. QED  BY <1>0, <1>7, <2>2, <2>4, <3>1 DEF TypeOK, ReadLine
  <2>. QED  BY <1>7, <2>3, <2>4 DEF ReadLine
<1>8. ASSUME NEW i \in Slots, ReadEof(i)
      PROVE  TypeOK'
  <2>1. i \in Used
    BY <1>0, <1>8 DEF ReadEof, First, Polled
  <2>. QED  BY <1>0, <1>8, <2>1, Shifted DEF TypeOK, ReadEof
<1>. QED  BY <1>0, <1>1, <1>2, <1>3, <1>4, <1>5, <1>6, <1>7, <1>8, ClientType
          DEF Next, Serve

-----------------------------------------------------------------------------
(* The inductive invariant.                                                *)

LEMMA ClientFacts ==
  ASSUME TypeOK, Facts, NEW c \in Clients, Client(c)
  PROVE  Facts'
<1>1. /\ UNCHANGED <<up, serverVars>>
      /\ Used' = Used /\ \A d \in Clients : Served(d)' <=> Served(d)
  <2>1. UNCHANGED <<up, serverVars>>
    BY DEF Client, Connect, Send, SendRest, Fin, Abort
  <2>. QED  BY <2>1 DEF Served, Used, serverVars
<1>2. Entries'
  BY <1>1 DEF Facts, Entries, serverVars
<1>3. CASE Connect(c)
  <2>1. /\ ~Queued(c) /\ ~Served(c) /\ up
        /\ queue' = Append(queue, c) /\ sock' = [sock EXCEPT ![c] = "open"]
    BY <1>3 DEF Facts, OnePlace, Connect
  <2>2. /\ \A d \in Clients : Queued(d)' <=> Queued(d) \/ d = c
        /\ Once(queue')
    BY <2>1, Joined DEF Facts, OnePlace, TypeOK, Queued
  <2>3. queue' # <<>>
    BY <2>1, AppendProperties, LenProperties, EmptySeq DEF TypeOK
  <2>4. OnePlace'
    BY <1>1, <2>1, <2>2 DEF Facts, OnePlace, TypeOK, serverVars
  <2>5. Polled' /\ Ended'
    BY <1>1, <2>1, <2>3 DEF Facts, Polled, Ended, serverVars
  <2>. QED  BY <1>2, <2>4, <2>5 DEF Facts
<1>4. CASE \/ Fin(c) \/ Abort(c) \/ \E line \in Items : Send(c, line)
           \/ \E line \in Lines : SendRest(c, line)
  <2>1. /\ queue' = queue
        /\ \A d \in Clients : /\ Queued(d)' <=> Queued(d)
                              /\ sock'[d] = "away" <=> sock[d] = "away"
    BY <1>4 DEF Fin, Abort, Send, SendRest, Queued, TypeOK
  <2>2. OnePlace'
    BY <1>1, <2>1 DEF Facts, OnePlace, serverVars
  <2>3. Polled' /\ Ended'
    BY <1>1, <2>1 DEF Facts, Polled, Ended, serverVars
  <2>. QED  BY <1>2, <2>2, <2>3 DEF Facts
<1>. QED  BY <1>3, <1>4 DEF Client, Items

LEMMA DieFacts == ASSUME TypeOK, Die PROVE Facts'
<1>1. /\ open_socks' = 1 /\ queue' = <<>> /\ pc' = "poll" /\ ready' = {}
      /\ \A k \in Fds : fds'[k] = None
      /\ \A c \in Clients : sock'[c] = "away"
  BY DEF Die
<1>2. Used' = {}
  BY <1>1 DEF Used
<1>3. Once(queue') /\ \A c \in Clients : ~Queued(c)' /\ ~Served(c)'
  BY <1>1, ConstantsOK DEF Queued, Served, Among, Once, ConstantsOK
<1>. QED  BY <1>1, <1>2, <1>3 DEF Facts, Polled, Ended, Entries, OnePlace

(* A newcomer gets the entry after the last and a descriptor of its own.   *)
LEMMA AcceptFacts == ASSUME TypeOK, Facts, AcceptNew PROVE Facts'
<1>0. /\ open_socks \in 1..MaxClients /\ MaxClients \in Nat
      /\ open_socks < MaxClients /\ open_socks \in Slots
      /\ Used = 1..(open_socks - 1) /\ queue # <<>> /\ up
      /\ pc' = "poll" /\ ready' = {} /\ up' = up /\ sock' = sock
      /\ \A k \in Fds : k # -1
  BY ConstantsOK DEF TypeOK, Slots, Used, AcceptNew, Facts, Polled, ConstantsOK
<1>1. CASE /\ socks' = [socks EXCEPT ![open_socks] = -1]
           /\ UNCHANGED <<open_socks, fds, queue>>
  <2>1. /\ Used' = Used /\ \A i \in Used : socks'[i] = socks[i]
        /\ \A c \in Clients : /\ Queued(c)' <=> Queued(c)
                              /\ Served(c)' <=> Served(c)
    BY <1>0, <1>1 DEF Used, Queued, Served, TypeOK
  <2>2. Entries'
    BY <1>1, <2>1 DEF Facts, Entries
  <2>3. Polled' /\ Ended' /\ OnePlace'
    BY <1>0, <1>1, <2>1 DEF Facts, Polled, Ended, OnePlace
  <2>. QED  BY <2>2, <2>3 DEF Facts
<1>2. CASE /\ \E k \in Fds : /\ Lowest(k)
                             /\ fds' = [fds EXCEPT ![k] = Head(queue)]
                             /\ socks' = [socks EXCEPT ![open_socks] = k]
           /\ open_socks' = open_socks + 1
           /\ queue' = Tail(queue)
  <2>. DEFINE h == Head(queue)
  <2>1. PICK k \in Fds : /\ fds[k] = None
                         /\ fds' = [fds EXCEPT ![k] = h]
                         /\ socks' = [socks EXCEPT ![open_socks] = k]
    BY <1>2 DEF Lowest
  <2>2. /\ h \in Clients /\ h # None /\ Queued(h)
        /\ \A d \in Clients : Queued(d)' <=> Queued(d) /\ d # h
        /\ Once(queue')
    BY <1>0, <1>2, Left, ConstantsOK
       DEF Facts, OnePlace, TypeOK, Queued, ConstantsOK
  <2>3. /\ Used' = 1..open_socks /\ open_socks \in Nat
        /\ \A i \in Used' : i \in Used \/ i = open_socks
        /\ open_socks \notin Used
    BY <1>0, <1>2 DEF Used
  <2>4. /\ socks'[open_socks] = k
        /\ \A i \in Used : socks'[i] = socks[i] /\ socks'[i] # k
        /\ \A l \in Fds : fds'[l] = IF l = k THEN h ELSE fds[l]
    BY <1>0, <2>1, <2>3 DEF TypeOK, Facts, Entries, Used, Slots
  <2>5. Entries'
    <3>1. \A i \in Used' : socks'[i] \in Fds /\ fds'[socks'[i]] # None
      BY <2>2, <2>3, <2>4 DEF Facts, Entries
    <3>2. \A i, j \in Used' : socks'[i] = socks'[j] => i = j
      BY <2>3, <2>4 DEF Facts, Entries
    <3>3. ASSUME NEW l \in Fds, fds'[l] # None
          PROVE  \E i \in Used' : socks'[i] = l
      <4>1. CASE l = k
        BY <1>0, <2>3, <2>4, <4>1
      <4>2. CASE l # k
        <5>1. PICK i \in Used : socks[i] = l
          BY <2>4, <3>3, <4>2 DEF Facts, Entries
        <5>2. i \in Used'
          BY <1>0, <2>3
        <5>. QED  BY <2>4, <5>1, <5>2
      <4>. QED  BY <4>1, <4>2
    <3>. QED  BY <3>1, <3>2, <3>3 DEF Entries
  <2>6. OnePlace'
    <3>1. \A d \in Clients : Served(d)' <=> Served(d) \/ d = h
      BY <2>1, <2>2, <2>4, ConstantsOK DEF Served, ConstantsOK
    <3>2. ~Served(h) /\ sock[h] # "away"
      BY <2>2 DEF Facts, OnePlace
    <3>3. \A l, m \in Fds : fds'[l] # None /\ fds'[l] = fds'[m] => l = m
      BY <2>2, <2>4, <3>2 DEF Facts, OnePlace, Served
    <3>. QED  BY <1>0, <2>2, <3>1, <3>2, <3>3 DEF Facts, OnePlace
  <2>7. Polled' /\ Ended'
    BY <1>0 DEF Polled, Ended
  <2>. QED  BY <2>5, <2>6, <2>7 DEF Facts
<1>. QED  BY <1>1, <1>2 DEF AcceptNew

(* Steps that leave the array, the descriptors and the queue alone, and    *)
(* take no connection away.                                                *)
LEMMA StillFacts ==
  ASSUME TypeOK, Facts,
         UNCHANGED <<socks, open_socks, fds, queue>>,
         \A c \in Clients : sock'[c] = "away" <=> sock[c] = "away"
  PROVE  Entries' /\ OnePlace'
<1>1. /\ Used' = Used
      /\ \A c \in Clients : /\ Queued(c)' <=> Queued(c)
                            /\ Served(c)' <=> Served(c)
  BY DEF Used, Queued, Served
<1>. QED  BY <1>1 DEF Facts, Entries, OnePlace

LEMMA ReadFacts ==
  ASSUME TypeOK, Facts, NEW i \in Slots,
         ReadEof(i) \/ \E line \in Lines : ReadLine(i, line)
  PROVE  Facts'
<1>0. First(i) /\ up /\ up' = up /\ queue' = queue /\ ready' = {}
  BY DEF ReadEof, ReadLine
<1>1. i \in Used /\ MaxClients \in Nat
  <2>1. open_socks \in Nat /\ MaxClients \in Nat /\ i \in Nat \ {0}
    BY ConstantsOK DEF TypeOK, Slots, ConstantsOK
  <2>. QED  BY <1>0, <2>1 DEF First, Facts, Polled, Used
<1>2. Polled' /\ Ended'
  BY <1>0 DEF Polled, Ended
<1>3. CASE DeleteSocket(i)
  BY <1>0, <1>1, <1>2, <1>3, ShiftedEntries DEF Facts
<1>4. CASE UNCHANGED <<fds, socks, open_socks, sock>>
  BY <1>0, <1>2, <1>4, StillFacts DEF Facts
<1>. QED  BY <1>3, <1>4 DEF ReadEof, ReadLine

LEMMA NextFacts == ASSUME TypeOK, Facts, [Next]_vars PROVE Facts'
<1>0. open_socks \in 1..MaxClients /\ MaxClients \in Nat
  BY ConstantsOK DEF TypeOK, ConstantsOK
<1>1. CASE Poll
  <2>1. ready' \subseteq 0..(open_socks - 1) /\ (0 \in ready' => queue # <<>>)
    BY <1>0, <1>1 DEF Poll, Used
  <2>2. Entries' /\ OnePlace'
    BY <1>1, StillFacts DEF Poll
  <2>3. Polled' /\ Ended'
    BY <1>1, <2>1 DEF Poll, Polled, Ended
  <2>. QED  BY <2>2, <2>3 DEF Facts
<1>2. CASE Again \/ Start
  <2>1. Entries' /\ OnePlace'
    BY <1>2, StillFacts DEF Again, Start, serverVars
  <2>2. Polled' /\ Ended'
    BY <1>0, <1>2 DEF Again, Start, serverVars, Facts, Polled, Ended
  <2>. QED  BY <2>1, <2>2 DEF Facts
<1>3. CASE Reply
  <2>1. \A c \in Clients : sock'[c] = "away" <=> sock[c] = "away"
    BY <1>3 DEF Reply, TypeOK
  <2>2. Entries' /\ OnePlace'
    BY <1>3, <2>1, StillFacts DEF Reply
  <2>3. Polled' /\ Ended'
    BY <1>0, <1>3 DEF Reply, Facts, Polled, Ended
  <2>. QED  BY <2>2, <2>3 DEF Facts
<1>4. CASE UNCHANGED vars
  <2>1. Entries' /\ OnePlace'
    BY <1>4, StillFacts DEF vars
  <2>. QED  BY <1>4, <2>1 DEF vars, Facts, Polled, Ended
<1>5. CASE Crash \/ ReplyKills
  BY <1>5, DieFacts DEF Crash, ReplyKills
<1>. QED  BY <1>1, <1>2, <1>3, <1>4, <1>5, AcceptFacts, ReadFacts, ClientFacts
          DEF Next, Serve

LEMMA InitHolds == Init => TypeOK /\ Facts
<1>. SUFFICES ASSUME Init PROVE TypeOK /\ Facts
  OBVIOUS
<1>1. /\ <<>> \in Seq(Clients) /\ <<>> \in Seq(Lines \cup {"half"})
      /\ 1 \in Slots /\ 1 \in 1..MaxClients
  BY ConstantsOK DEF Slots, ConstantsOK
<1>2. TypeOK
  BY <1>1 DEF TypeOK, Init
<1>3. /\ Used = {}
      /\ Once(queue) /\ \A c \in Clients : ~Queued(c) /\ ~Served(c)
  BY ConstantsOK DEF Init, Used, Queued, Served, Among, Once, ConstantsOK
<1>4. Entries
  BY <1>3 DEF Init, Entries
<1>5. OnePlace
  BY <1>3 DEF Init, OnePlace
<1>6. Polled /\ Ended
  BY DEF Init, Polled, Ended
<1>. QED  BY <1>2, <1>4, <1>5, <1>6 DEF Facts

LEMMA Invariant == Spec => [](TypeOK /\ Facts)
<1>1. TypeOK /\ Facts /\ [Next]_vars => TypeOK' /\ Facts'
  BY NextType, NextFacts DEF Facts
<1>. QED  BY <1>1, InitHolds, PTL DEF Spec

-----------------------------------------------------------------------------
(* Every variable of the poll server keeps its type; in particular the     *)
(* number of entries stays within the array, and the array holds           *)
(* descriptors of the process only.                                        *)
THEOREM TypeCorrect == Spec => []TypeOK
BY Invariant, PTL

(* The entries in use and the open descriptors agree, whatever clients     *)
(* were taken out of the array and in whatever order                       *)
(* (delete_socket, accept_new).                                            *)
THEOREM ArrayAgrees == Spec => []EntriesSound
<1>1. TypeOK /\ Facts => EntriesSound
  <2>. SUFFICES ASSUME TypeOK, Facts PROVE EntriesSound
    OBVIOUS
  <2>1. \A i \in Used : Holder(i) # None
    BY HolderOfUsed, ConstantsOK DEF Facts, ConstantsOK
  <2>. QED  BY <2>1 DEF Facts, Entries, EntriesSound
<1>. QED  BY <1>1, Invariant, PTL

(* A connection waits for its accept once or is polled on one descriptor,  *)
(* never both, and nothing is left of a client that was taken out          *)
(* (accept_new, delete_socket).                                            *)
THEOREM OnePlaceEach == Spec => []QueuedOrServed
<1>1. TypeOK /\ Facts => QueuedOrServed
  <2>. SUFFICES ASSUME TypeOK, Facts, NEW c \in Clients
                PROVE  Cardinality({n \in DOMAIN queue : queue[n] = c})
                         + Cardinality({k \in Fds : fds[k] = c})
                         = IF sock[c] = "away" THEN 0 ELSE 1
    BY DEF QueuedOrServed
  <2>. DEFINE q == {n \in DOMAIN queue : queue[n] = c}
              f == {k \in Fds : fds[k] = c}
  <2>1. /\ Queued(c) => \E n : q = {n}
        /\ ~Queued(c) => q = {}
    BY DEF Facts, OnePlace, Queued, Among, Once
  <2>2. /\ Served(c) => \E k : f = {k}
        /\ ~Served(c) => f = {}
    <3>1. c # None
      BY ConstantsOK DEF ConstantsOK
    <3>2. \A k, l \in Fds : fds[k] = c /\ fds[l] = c => k = l
      BY <3>1 DEF Facts, OnePlace
    <3>3. ASSUME NEW k \in Fds, fds[k] = c
          PROVE  f = {k}
      BY <3>2, <3>3
    <3>. QED  BY <3>3 DEF Served
  <2>3. /\ Queued(c) => ~Served(c)
        /\ sock[c] = "away" <=> ~Queued(c) /\ ~Served(c)
    BY DEF Facts, OnePlace
  <2>. HIDE DEF q, f
  <2>4. /\ Cardinality(q) = IF Queued(c) THEN 1 ELSE 0
        /\ Cardinality(f) = IF Served(c) THEN 1 ELSE 0
    BY <2>1, <2>2, FS_EmptySet, FS_Singleton
  <2>5. Cardinality(q) + Cardinality(f) = IF sock[c] = "away" THEN 0 ELSE 1
    BY <2>3, <2>4
  <2>. QED  BY <2>5 DEF q, f
<1>. QED  BY <1>1, Invariant, PTL

-----------------------------------------------------------------------------
(* The array as a line of clients.                                         *)

LineIs ==
  /\ Line \in Seq(Clients)
  /\ Len(Line) = open_socks - 1
  /\ \A i \in Used : Line[i] = Holder(i)

LEMMA LineOfArray == TypeOK /\ Facts => LineIs
<1>. SUFFICES ASSUME TypeOK, Facts PROVE LineIs
  OBVIOUS
<1>1. open_socks - 1 \in Nat /\ Used = 1..(open_socks - 1)
  BY ConstantsOK DEF TypeOK, Used, ConstantsOK
<1>2. CASE up
  <2>1. Line = [i \in 1..(open_socks - 1) |-> Holder(i)]
    BY <1>1, <1>2 DEF Line
  <2>2. \A i \in 1..(open_socks - 1) : Holder(i) \in Clients
    BY <1>1, HolderOfUsed DEF Facts
  <2>. QED  BY <1>1, <2>1, <2>2, IsASeq DEF LineIs
<1>3. CASE ~up
  <2>1. Line = <<>> /\ Used = {} /\ open_socks = 1
    BY <1>1, <1>3 DEF Line, Facts, Ended
  <2>. QED  BY <2>1, EmptySeq DEF LineIs
<1>. QED  BY <1>2, <1>3

(* Two lines that are the entries of the same array are the same.          *)
LEMMA LineStays ==
  ASSUME LineIs, LineIs', open_socks \in Nat \ {0}, open_socks' = open_socks,
         \A i \in Used : Holder(i)' = Holder(i)
  PROVE  Line' = Line
<1>1. /\ Line \in Seq(Clients) /\ Line' \in Seq(Clients)
      /\ Len(Line') = Len(Line)
      /\ Used = 1..Len(Line) /\ Used' = 1..Len(Line)
  BY DEF LineIs, Used
<1>2. \A i \in 1..Len(Line) : Line'[i] = Line[i]
  BY <1>1 DEF LineIs
<1>. QED  BY <1>1, <1>2, SeqEqual

LEMMA Removed ==
  ASSUME NEW S, NEW s \in Seq(S), NEW t \in Seq(S), NEW n \in 1..Len(s),
         Len(t) = Len(s) - 1,
         \A j \in 1..(Len(s) - 1) : t[j] = IF j < n THEN s[j] ELSE s[j + 1]
  PROVE  t = Arrivals!RemoveAt(s, n)
<1>. DEFINE a == SubSeq(s, 1, n - 1)
            b == SubSeq(s, n + 1, Len(s))
<1>1. Len(s) \in Nat /\ n \in Nat
  BY LenProperties
<1>2. /\ a \in Seq(S) /\ Len(a) = n - 1
      /\ \A j \in 1..(n - 1) : a[j] = s[j]
  BY <1>1, SubSeqProperties
<1>3. /\ b \in Seq(S) /\ Len(b) = Len(s) - n
      /\ \A j \in 1..(Len(s) - n) : b[j] = s[n + j]
  BY <1>1, SubSeqProperties
<1>. HIDE DEF a, b
<1>4. /\ a \o b \in Seq(S) /\ Len(a \o b) = Len(s) - 1
      /\ \A j \in 1..(Len(s) - 1) :
           (a \o b)[j] = IF j < n THEN s[j] ELSE s[j + 1]
  <2>1. \A j \in 1..(Len(s) - 1) :
          (a \o b)[j] = IF j <= n - 1 THEN a[j] ELSE b[j - (n - 1)]
    <3>1. a \in Seq(S) /\ b \in Seq(S)
      BY <1>2, <1>3
    <3>2. \A j \in 1..(Len(a) + Len(b)) :
            (a \o b)[j] = IF j <= Len(a) THEN a[j] ELSE b[j - Len(a)]
      BY <3>1, ConcatProperties
    <3>3. Len(a) = n - 1 /\ Len(a) + Len(b) = Len(s) - 1
      BY <1>1, <1>2, <1>3
    <3>. QED  BY <3>2, <3>3
  <2>2. \A j \in 1..(Len(s) - 1) :
          (a \o b)[j] = IF j < n THEN s[j] ELSE s[j + 1]
    <3>1. ASSUME NEW j \in 1..(Len(s) - 1), ~(j < n)
          PROVE  j - (n - 1) \in 1..(Len(s) - n) /\ n + (j - (n - 1)) = j + 1
      BY <1>1, <3>1
    <3>. QED  BY <1>1, <1>2, <1>3, <2>1, <3>1
  <2>3. a \o b \in Seq(S) /\ Len(a \o b) = Len(a) + Len(b)
    BY <1>2, <1>3, ConcatProperties
  <2>4. Len(a) + Len(b) = Len(s) - 1
    BY <1>1, <1>2, <1>3
  <2>. QED  BY <2>2, <2>3, <2>4
<1>5. t = a \o b
  BY <1>1, <1>4, SeqEqual
<1>. QED  BY <1>5 DEF a, b, Arrivals!RemoveAt

LEMMA LineMoves ==
  ASSUME TypeOK, Facts, [Next]_vars, LineIs, LineIs'
  PROVE  [Arrivals!Next]_Line
<1>0. /\ open_socks \in 1..MaxClients /\ MaxClients \in Nat
      /\ open_socks \in Nat \ {0}
      /\ Used = 1..(open_socks - 1) /\ DOMAIN Line = Used
      /\ DOMAIN Line = 1..Len(Line)
  BY ConstantsOK, LenProperties DEF TypeOK, Used, LineIs, ConstantsOK
<1>1. CASE /\ UNCHANGED <<open_socks, fds>>
           /\ \A i \in Used : socks'[i] = socks[i]
  BY <1>0, <1>1, LineStays DEF Holder
<1>2. CASE Die
  BY <1>2 DEF Die, Line, Arrivals!Next, Arrivals!Dismiss
<1>3. ASSUME NEW i \in Used, DeleteSocket(i)
      PROVE  Arrivals!Leave(i)
  <2>1. /\ open_socks' = open_socks - 1
        /\ Used' = 1..(open_socks - 2)
        /\ \A j \in Used' : /\ j \in Used /\ j + 1 \in Used
                            /\ socks'[j] = IF j < i THEN socks[j]
                                                    ELSE socks[j + 1]
    BY <1>0, <1>3, Shifted DEF Used, Facts
  <2>2. \A j \in Used' : Holder(j)' = IF j < i THEN Holder(j) ELSE Holder(j + 1)
    <3>1. \A j \in Used : j # i => socks[j] # socks[i]
      BY <1>3 DEF Facts, Entries
    <3>2. ASSUME NEW j \in Used'
          PROVE  \E l \in Used : /\ l = (IF j < i THEN j ELSE j + 1)
                                 /\ l # i /\ socks'[j] = socks[l]
      BY <1>0, <2>1
    <3>3. ASSUME NEW j \in Used', NEW l \in Used, l # i, socks'[j] = socks[l]
          PROVE  Holder(j)' = Holder(l)
      <4>1. /\ socks[l] \in Fds /\ socks[l] # -1 /\ socks[l] # socks[i]
            /\ Holder(l) = fds[socks[l]]
        BY <3>1, <3>3, HolderOfUsed, ConstantsOK DEF Facts, ConstantsOK
      <4>2. fds'[socks[l]] = fds[socks[l]]
        BY <1>3, <4>1, Shifted DEF Facts
      <4>. QED  BY <3>3, <4>1, <4>2 DEF Holder
    <3>. QED  BY <3>2, <3>3
  <2>3. /\ Len(Line') = Len(Line) - 1 /\ i \in 1..Len(Line)
        /\ \A j \in 1..(Len(Line) - 1) :
             Line'[j] = IF j < i THEN Line[j] ELSE Line[j + 1]
    BY <1>0, <2>1, <2>2 DEF LineIs
  <2>4. Line' = Arrivals!RemoveAt(Line, i)
    BY <2>3, Removed DEF LineIs
  <2>. QED  BY <2>4 DEF Arrivals!Leave
<1>4. CASE AcceptNew
  <2>1. CASE /\ socks' = [socks EXCEPT ![open_socks] = -1]
             /\ UNCHANGED <<open_socks, fds, queue>>
    <3>1. \A i \in Used : socks'[i] = socks[i]
      BY <1>0, <2>1 DEF TypeOK
    <3>. QED  BY <1>1, <2>1, <3>1
  <2>2. CASE /\ \E k \in Fds : /\ Lowest(k)
                               /\ fds' = [fds EXCEPT ![k] = Head(queue)]
                               /\ socks' = [socks EXCEPT ![open_socks] = k]
             /\ open_socks' = open_socks + 1
             /\ queue' = Tail(queue)
    <3>. DEFINE h == Head(queue)
    <3>1. PICK k \in Fds : /\ fds[k] = None
                           /\ fds' = [fds EXCEPT ![k] = h]
                           /\ socks' = [socks EXCEPT ![open_socks] = k]
      BY <2>2 DEF Lowest
    <3>2. h \in Clients /\ ~Served(h) /\ queue # <<>>
      <4>1. queue # <<>> /\ queue \in Seq(Clients)
        BY <1>4 DEF AcceptNew, Facts, Polled, TypeOK
      <4>. QED  BY <4>1, Left DEF Facts, OnePlace, Queued
    <3>. HIDE DEF h
    <3>3. ~Arrivals!Contains(Line, h)
      <4>1. \A i \in Used : Line[i] # h
        BY <3>2, HolderOfUsed DEF LineIs, Served, Facts
      <4>. QED  BY <1>0, <4>1 DEF Arrivals!Contains
    <3>4. Len(Line) < MaxClients - 1
      BY <1>0, <1>4 DEF AcceptNew, LineIs
    <3>5. /\ open_socks \in Slots /\ Used' = 1..open_socks
          /\ open_socks \in Used' /\ \A k2 \in Fds : k2 # -1
      BY <1>0, <2>2, ConstantsOK DEF Slots, Used, ConstantsOK
    <3>6. \A i \in Used' : i = open_socks => Holder(i)' = h
      <4>1. socks'[open_socks] = k /\ fds'[k] = h
        BY <3>1, <3>5 DEF TypeOK
      <4>. QED  BY <3>5, <4>1 DEF Holder
    <3>7. \A i \in Used : Holder(i)' = Holder(i)
      <4>1. ASSUME NEW i \in Used
            PROVE  Holder(i)' = Holder(i)
        <5>1. /\ socks[i] \in Fds /\ fds[socks[i]] # None
              /\ Holder(i) = fds[socks[i]] /\ i # open_socks
          BY <1>0, HolderOfUsed DEF Facts, Entries
        <5>2. socks'[i] = socks[i] /\ fds'[socks[i]] = fds[socks[i]]
          BY <3>1, <5>1 DEF TypeOK
        <5>. QED  BY <5>1, <5>2, <3>5 DEF Holder
      <4>. QED  BY <4>1
    <3>8. Line' = Append(Line, h)
      <4>1. /\ Line \in Seq(Clients) /\ Line' \in Seq(Clients)
            /\ Len(Line) = open_socks - 1 /\ Len(Line') = open_socks
        BY <1>0, <2>2 DEF LineIs
      <4>2. /\ Append(Line, h) \in Seq(Clients)
            /\ Len(Append(Line, h)) = open_socks
            /\ Append(Line, h)[open_socks] = h
            /\ \A i \in Used : Append(Line, h)[i] = Line[i]
        BY <1>0, <3>2, <4>1, AppendProperties
      <4>3. \A i \in Used : Line'[i] = Line[i]
        BY <1>0, <3>5, <3>7 DEF LineIs
      <4>4. Line'[open_socks] = h
        BY <3>5, <3>6 DEF LineIs
      <4>5. \A i \in 1..open_socks : i \in Used \/ i = open_socks
        BY <1>0
      <4>6. \A i \in 1..Len(Line') : Line'[i] = Append(Line, h)[i]
        BY <4>1, <4>2, <4>3, <4>4, <4>5
      <4>. QED  BY <4>1, <4>2, <4>6, SeqEqual
    <3>9. Arrivals!Join(h)
      BY <3>3, <3>4, <3>8 DEF Arrivals!Join
    <3>. QED  BY <3>2, <3>9 DEF Arrivals!Next
  <2>. QED  BY <1>4, <2>1, <2>2 DEF AcceptNew
<1>5. ASSUME NEW i \in Slots,
             ReadEof(i) \/ \E line \in Lines : ReadLine(i, line)
      PROVE  [Arrivals!Next]_Line
  <2>1. i \in Used
    <3>1. First(i) /\ i \in Nat \ {0}
      BY <1>5 DEF ReadEof, ReadLine, Slots
    <3>. QED  BY <1>0, <3>1 DEF First, Facts, Polled
  <2>2. CASE DeleteSocket(i)
    BY <1>0, <1>3, <2>1, <2>2 DEF Arrivals!Next
  <2>3. CASE UNCHANGED <<fds, socks, open_socks, sock>>
    BY <1>1, <2>3
  <2>. QED  BY <1>5, <2>2, <2>3 DEF ReadEof, ReadLine
<1>6. CASE Poll \/ Again \/ Reply
  BY <1>1, <1>6 DEF Poll, Again, Reply
<1>7. CASE \/ Start \/ UNCHANGED vars \/ \E c \in Clients : Client(c)
  <2>1. UNCHANGED <<open_socks, fds, socks>>
    BY <1>7 DEF Start, vars, serverVars, Client, Connect, Send, SendRest, Fin,
                Abort
  <2>. QED  BY <1>1, <2>1
<1>. QED  BY <1>2, <1>4, <1>5, <1>6, <1>7 DEF Next, Serve, Crash, ReplyKills

(* Whatever is polled, accepted, taken out and shifted, the array is a     *)
(* line of clients in order of arrival, each once, of at most              *)
(* MaxClients - 1: entry by entry the poll server refines ClientLine.      *)
THEOREM ArrayIsLine == Spec => ArrivalOrder
<1>1. Init => Arrivals!Init
  <2>. SUFFICES ASSUME Init PROVE Arrivals!Init
    OBVIOUS
  <2>1. LineIs /\ Len(Line) = 0
    BY InitHolds, LineOfArray DEF LineIs, Init
  <2>. QED  BY <2>1, EmptySeq DEF LineIs, Arrivals!Init
<1>2. TypeOK /\ Facts /\ [Next]_vars /\ LineIs /\ LineIs' => [Arrivals!Next]_Line
  BY LineMoves
<1>. QED  BY <1>1, <1>2, LineOfArray, Invariant, PTL
          DEF Spec, ArrivalOrder, Arrivals!Spec
=============================================================================
