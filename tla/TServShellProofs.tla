--------------------------- MODULE TServShellProofs ---------------------------
(***************************************************************************)
(* Theorems about the threaded shell server, for any number of clients,    *)
(* threads, background commands and descriptors.                           *)
(***************************************************************************)
EXTENDS TServShellProps, FiniteSetTheorems, SequenceTheorems, TLAPS

-----------------------------------------------------------------------------
(* Types.                                                                  *)

LEMMA DescriptorType == (CHOOSE k \in Fds : TRUE) \in Fds
BY ConstantsOK DEF ConstantsOK

LEMMA TextType ==
  /\ NoInput \in Texts
  /\ \A t \in Threads : \A w \in {"OK", "FAIL", "ERR"} : Text(t, w) \in Texts
BY DEF NoInput, Text, Texts

LEMMA OverlapType == \A t \in Threads : Overlap(t) \subseteq {"overlap"}
BY DEF Overlap

(* Each command has opened two descriptors, and the thread that has not    *)
(* closed its end yet still has them (tservshell.cc:53-74).                *)
PipesCounted == 2 * Cardinality(Writable) <= pipes

LEMMA WritableFinite ==
  /\ IsFiniteSet(Writable) /\ Cardinality(Writable) \in Nat
  /\ IsFiniteSet(Writable') /\ Cardinality(Writable') \in Nat
BY ConstantsOK, FS_Subset, FS_CardinalityType DEF ConstantsOK, Writable

LEMMA SamePipes ==
  ASSUME PipesCounted, pipes' = pipes,
         \A t \in Threads :
           pc'[t] \in {"piped", "forked"} <=> pc[t] \in {"piped", "forked"}
  PROVE  PipesCounted'
<1>1. Writable' = Writable
  BY DEF Writable
<1>. QED  BY <1>1 DEF PipesCounted

LEMMA MorePipes ==
  ASSUME TypeOK, PipesCounted, NEW t \in Threads, pipes' = pipes + 2,
         pc[t] \notin {"piped", "forked"}, pc' = [pc EXCEPT ![t] = "piped"]
  PROVE  PipesCounted'
<1>1. Writable' = Writable \cup {t} /\ t \notin Writable
  BY DEF Writable, TypeOK
<1>2. Cardinality(Writable') = Cardinality(Writable) + 1
  BY <1>1, WritableFinite, FS_AddElement
<1>. QED  BY <1>2, WritableFinite DEF PipesCounted, TypeOK

LEMMA FewerPipes ==
  ASSUME TypeOK, PipesCounted, NEW t \in Threads, pipes' = pipes - 1,
         pc[t] = "forked", pc' = [pc EXCEPT ![t] = "link"]
  PROVE  PipesCounted' /\ pipes' \in 0..PipeLimit
<1>1. Writable' = Writable \ {t} /\ t \in Writable
  BY DEF Writable, TypeOK
<1>2. Cardinality(Writable') = Cardinality(Writable) - 1
  BY <1>1, WritableFinite, FS_RemoveElement
<1>. QED
  BY <1>2, WritableFinite, ConstantsOK DEF PipesCounted, TypeOK, ConstantsOK

LEMMA DieType == ASSUME TypeOK, Die PROVE TypeOK' /\ PipesCounted'
<1>0. /\ None \notin Clients \cup Lines \cup Threads /\ PipeLimit \in Nat
      /\ <<>> \in Seq(Clients) /\ <<>> \in Seq(Lines)
  BY ConstantsOK DEF ConstantsOK
<1>1. arg' \in Fds /\ sd' \in [Threads -> Fds]
  BY DescriptorType DEF Die
<1>2. output' \in Texts /\ status_output' \in Texts
  BY TextType DEF Die
<1>u. up' \in BOOLEAN
  BY DEF Die
<1>3. /\ pc' \in [Threads -> {"none", "start", "read", "print", "tell",
                              "piped", "forked", "link", "wait", "note",
                              "copy", "send"}]
      /\ req' \in [Threads -> Lines \cup {None}]
      /\ status' \in [Threads -> {"OK", "FAIL"}]
      /\ pipes' \in 0..PipeLimit
  BY <1>0 DEF Die
<1>4. /\ kid' \in [Kids -> {"none", "run", "zombie"}]
      /\ holds' \in [Kids -> SUBSET Threads]
      /\ filled' \subseteq Threads
      /\ sigchld' \in {"default", "block", "reap"}
      /\ pending' \in BOOLEAN
      /\ reaping' \subseteq Threads \cup {Main}
  BY DEF Die
<1>5. /\ fds' \in [Fds -> Clients \cup {None}]
      /\ queue' \in Seq(Clients)
      /\ sock' \in [Clients -> {"away", "open", "fin", "rst"}]
      /\ inbox' \in [Clients -> Seq(Lines)]
      /\ mishaps' \subseteq {"param", "overlap", "stolen"}
  BY <1>0 DEF Die
<1>6. TypeOK'
  BY <1>u, <1>1, <1>2, <1>3, <1>4, <1>5 DEF TypeOK
<1>7. Writable' = {} /\ pipes' = 0
  BY DEF Die, Writable
<1>. QED  BY <1>6, <1>7, FS_EmptySet DEF PipesCounted

LEMMA InitTypes == Init => TypeOK /\ PipesCounted
<1>. SUFFICES ASSUME Init PROVE TypeOK /\ PipesCounted
  OBVIOUS
<1>0. /\ None \notin Clients \cup Lines \cup Threads /\ PipeLimit \in Nat
      /\ <<>> \in Seq(Clients) /\ <<>> \in Seq(Lines)
  BY ConstantsOK DEF ConstantsOK
<1>1. arg \in Fds /\ sd \in [Threads -> Fds]
  BY DescriptorType DEF Init
<1>2. output \in Texts /\ status_output \in Texts
  BY TextType DEF Init
<1>u. up \in BOOLEAN
  BY DEF Init
<1>3. /\ pc \in [Threads -> {"none", "start", "read", "print", "tell",
                              "piped", "forked", "link", "wait", "note",
                              "copy", "send"}]
      /\ req \in [Threads -> Lines \cup {None}]
      /\ status \in [Threads -> {"OK", "FAIL"}]
      /\ pipes \in 0..PipeLimit
  BY <1>0 DEF Init
<1>4. /\ kid \in [Kids -> {"none", "run", "zombie"}]
      /\ holds \in [Kids -> SUBSET Threads]
      /\ filled \subseteq Threads
      /\ sigchld \in {"default", "block", "reap"}
      /\ pending \in BOOLEAN
      /\ reaping \subseteq Threads \cup {Main}
  BY DEF Init
<1>5. /\ fds \in [Fds -> Clients \cup {None}]
      /\ queue \in Seq(Clients)
      /\ sock \in [Clients -> {"away", "open", "fin", "rst"}]
      /\ inbox \in [Clients -> Seq(Lines)]
      /\ mishaps \subseteq {"param", "overlap", "stolen"}
  BY <1>0 DEF Init
<1>6. TypeOK
  BY <1>u, <1>1, <1>2, <1>3, <1>4, <1>5 DEF TypeOK
<1>7. Writable = {} /\ pipes = 0
  BY DEF Init, Writable
<1>. QED  BY <1>6, <1>7, FS_EmptySet DEF PipesCounted

LEMMA ClientType ==
  ASSUME TypeOK, PipesCounted, NEW c \in Clients, Client(c)
  PROVE  TypeOK' /\ PipesCounted'
<1>. USE DEF TypeOK, Own, texts, frames, procs, signals
<1>1. CASE Connect(c)
  <2>1. Append(queue, c) \in Seq(Clients)
    BY AppendProperties
  <2>. QED  BY <1>1, <2>1, SamePipes DEF Connect
<1>2. ASSUME NEW line \in Sent[c], Send(c, line)
      PROVE  TypeOK' /\ PipesCounted'
  <2>1. line \in Lines
    BY ConstantsOK DEF ConstantsOK
  <2>2. Append(inbox[c], line) \in Seq(Lines)
    BY <2>1, AppendProperties
  <2>. QED  BY <1>2, <2>2, SamePipes DEF Send
<1>3. CASE Fin(c) \/ Abort(c)
  BY <1>3, SamePipes DEF Fin, Abort
<1>. QED  BY <1>1, <1>2, <1>3 DEF Client

LEMMA SystemType ==
  ASSUME TypeOK, PipesCounted, System
  PROVE  TypeOK' /\ PipesCounted'
<1>. USE DEF TypeOK, texts, frames, procs, signals, net
<1>1. ASSUME NEW p \in Threads \cup {Main}, Signal(p) \/ ReapEnd(p)
      PROVE  TypeOK' /\ PipesCounted'
  BY <1>1, SamePipes DEF Signal, ReapEnd
<1>2. ASSUME NEW k \in Kids, KidEnds(k) \/ Reap(k)
      PROVE  TypeOK' /\ PipesCounted'
  BY <1>2, SamePipes DEF KidEnds, Reap
<1>. QED  BY <1>1, <1>2 DEF System

LEMMA AcceptType ==
  ASSUME TypeOK, PipesCounted, NEW t \in Threads, Accept(t)
  PROVE  TypeOK' /\ PipesCounted'
<1>. USE DEF TypeOK, texts, procs, signals
<1>1. Head(queue) \in Clients /\ Tail(queue) \in Seq(Clients)
  BY HeadTailProperties DEF Accept
<1>2. PICK k \in Fds : fds' = [fds EXCEPT ![k] = Head(queue)] /\ arg' = k
  BY DEF Accept
<1>. QED  BY <1>1, <1>2, SamePipes DEF Accept

(* readline leaves req a line and the inboxes sequences of lines.          *)
LEMMA ReadsType ==
  ASSUME TypeOK, NEW t \in Threads, NEW line \in Lines, Reads(t, line)
  PROVE  /\ req' \in [Threads -> Lines \cup {None}]
         /\ inbox' \in [Clients -> Seq(Lines)]
         /\ up /\ pc[t] = "read"
<1>1. ASSUME Fresh(t)
      PROVE  Conn(t) \in Clients /\ Tail(inbox[Conn(t)]) \in Seq(Lines)
  <2>1. Conn(t) \in Clients /\ inbox[Conn(t)] # <<>>
    BY <1>1 DEF Fresh, Conn, TypeOK
  <2>. QED  BY <2>1, HeadTailProperties DEF TypeOK
<1>. QED  BY <1>1 DEF Reads, Took, At, TypeOK

LEMMA ServeType ==
  ASSUME TypeOK, PipesCounted, NEW t \in Threads, Serve(t)
  PROVE  TypeOK' /\ PipesCounted'
<1>. USE DEF At
<1>1. CASE \/ Begin(t) \/ Show(t) \/ Tell(t) \/ Note(t) \/ Copy(t)
           \/ Answer(t)
  <2>. USE DEF TypeOK, texts, frames, procs, signals, net
  <2>1. CASE Begin(t)
    BY <2>1, SamePipes DEF Begin
  <2>2. CASE Show(t)
    <3>1. sock' \in [Clients -> {"away", "open", "fin", "rst"}]
      BY <2>2 DEF Show, Sends, Conn
    <3>. QED  BY <2>2, <3>1, SamePipes, TextType, OverlapType DEF Show
  <2>3. CASE Note(t)
    BY <2>3, SamePipes, TextType, OverlapType DEF Note
  <2>4. CASE Copy(t)
    BY <2>4, SamePipes, OverlapType DEF Copy
  <2>5. CASE Answer(t)
    BY <2>5, SamePipes DEF Answer, Sends, Conn
  <2>6. CASE Tell(t)
    BY <2>6, SamePipes DEF Tell, Sends, Conn
  <2>. QED  BY <1>1, <2>1, <2>2, <2>3, <2>4, <2>5, <2>6
<1>2. CASE Quit(t) \/ Eof(t)
  <2>1. Leave(t) /\ pc[t] = "read"
    BY <1>2 DEF Quit, Eof, Took
  <2>2. <<>> \in Seq(Lines)
    OBVIOUS
  <2>. USE DEF TypeOK, texts, procs, signals
  <2>. QED  BY <2>1, <2>2, SamePipes DEF Leave
<1>3. CASE Empty(t) \/ Cprint(t) \/ Cprintf(t)
  <2>1. PICK line \in Lines : Reads(t, line)
    BY <1>3 DEF Empty, Cprint, Cprintf, Lines
  <2>2. /\ req' \in [Threads -> Lines \cup {None}]
        /\ inbox' \in [Clients -> Seq(Lines)]
        /\ up /\ pc[t] = "read"
    BY <2>1, ReadsType
  <2>. USE DEF TypeOK, texts, procs, signals
  <2>3. CASE Empty(t)
    BY <2>2, <2>3, SamePipes, TextType, OverlapType DEF Empty
  <2>4. CASE Cprint(t)
    BY <2>2, <2>4, SamePipes, OverlapType DEF Cprint
  <2>5. CASE Cprintf(t)
    BY <2>2, <2>5, SamePipes DEF Cprintf
  <2>. QED  BY <1>3, <2>3, <2>4, <2>5
<1>4. CASE Background(t)
  <2>1. /\ req' \in [Threads -> Lines \cup {None}]
        /\ inbox' \in [Clients -> Seq(Lines)]
    BY <1>4, ReadsType DEF Background, Lines
  <2>2. /\ kid' \in [Kids -> {"none", "run", "zombie"}]
        /\ holds' \in [Kids -> SUBSET Threads]
    <3>1. CASE UNCHANGED <<kid, holds>>
      BY <3>1 DEF TypeOK
    <3>2. ASSUME NEW j \in Jobs, kid' = [kid EXCEPT ![j] = "run"],
                 holds' = [holds EXCEPT ![j] = Writable]
          PROVE  /\ kid' \in [Kids -> {"none", "run", "zombie"}]
                 /\ holds' \in [Kids -> SUBSET Threads]
      BY <3>2 DEF TypeOK, Writable
    <3>. QED  BY <1>4, <3>1, <3>2 DEF Background
  <2>. USE DEF TypeOK, texts, procs, signals
  <2>. QED  BY <1>4, <2>1, <2>2, SamePipes DEF Background
<1>5. CASE Pipe(t)
  <2>1. PICK line \in Lines : Reads(t, line)
    BY <1>5 DEF Pipe, Lines
  <2>2. /\ req' \in [Threads -> Lines \cup {None}]
        /\ inbox' \in [Clients -> Seq(Lines)]
        /\ up /\ pc[t] = "read"
    BY <2>1, ReadsType
  <2>4. pipes' \in 0..PipeLimit
    BY <1>5, ConstantsOK DEF Pipe, TypeOK, ConstantsOK
  <2>5. PipesCounted'
    BY <1>5, <2>2, MorePipes DEF Pipe
  <2>. USE DEF TypeOK, texts
  <2>. QED  BY <1>5, <2>2, <2>4, <2>5 DEF Pipe
<1>10. CASE Fork(t)
  <2>1. /\ kid' \in [Kids -> {"none", "run", "zombie"}]
        /\ holds' \in [Kids -> SUBSET Threads]
    BY <1>10 DEF Fork, TypeOK, Writable, Kids
  <2>. USE DEF TypeOK, texts, signals, net
  <2>. QED  BY <1>10, <2>1, SamePipes DEF Fork
<1>6. CASE CloseLink(t)
  <2>1. PipesCounted' /\ pipes' \in 0..PipeLimit
    BY <1>6, FewerPipes DEF CloseLink
  <2>. USE DEF TypeOK, texts, procs, signals, net
  <2>. QED  BY <1>6, <2>1 DEF CloseLink
<1>7. CASE ReadLink(t)
  <2>. USE DEF TypeOK, texts, procs, signals, net
  <2>. QED  BY <1>7, SamePipes DEF ReadLink
<1>8. CASE Wait(t)
  <2>. USE DEF TypeOK, texts, procs, signals, net, Kids
  <2>. QED  BY <1>8, SamePipes DEF Wait
<1>9. CASE BackgroundStale(t) \/ RunFails(t) \/ SendKills(t)
  BY <1>9, DieType DEF BackgroundStale, RunFails, SendKills
<1>. QED
  BY <1>1, <1>2, <1>3, <1>4, <1>5, <1>6, <1>7, <1>8, <1>9, <1>10 DEF Serve

LEMMA NextTypes ==
  ASSUME TypeOK, PipesCounted, [Next]_vars
  PROVE  TypeOK' /\ PipesCounted'
<1>1. ASSUME NEW t \in Threads, KidWrites(t)
      PROVE  TypeOK' /\ PipesCounted'
  <2>. USE DEF TypeOK, texts, frames, signals, net
  <2>. QED  BY <1>1, SamePipes DEF KidWrites
<1>2. CASE UNCHANGED vars
  <2>. USE DEF TypeOK, vars, texts, frames, procs, signals, net
  <2>. QED  BY <1>2, SamePipes
<1>. QED
  BY <1>1, <1>2, AcceptType, ServeType, DieType, SystemType, ClientType
     DEF Next, AcceptFails

(* Every variable keeps its type; in particular the descriptors of pipes   *)
(* (tservshell.cc:53-74) stay within what the process has, and are never   *)
(* fewer than what it still has to close.                                  *)
THEOREM TypeCorrect == Spec => []TypeOK
BY InitTypes, NextTypes, PTL DEF Spec

-----------------------------------------------------------------------------
(* Children and the disposition of SIGCHLD.                                *)
Runs(t)  == pc[t] \in Forked
Pipes(t) == pc[t] = "piped"

Tidy == CommandsReaped /\ HandlerRestored

LEMMA SameRuns ==
  ASSUME Tidy, sigchld' = sigchld,
         \A t \in Threads : /\ Runs(t)' <=> Runs(t)
                            /\ Pipes(t)' <=> Pipes(t)
                            /\ kid[t] = "none" => kid'[t] = "none"
  PROVE  Tidy'
BY DEF Tidy, CommandsReaped, HandlerRestored, Runs, Pipes

(* Anything that leaves children, signals and running commands alone.      *)
LEMMA QuietServe ==
  ASSUME TypeOK, Tidy, NEW t \in Threads,
         \/ Begin(t) \/ Quit(t) \/ Eof(t) \/ Empty(t) \/ Cprint(t)
         \/ Show(t) \/ Cprintf(t) \/ Tell(t) \/ CloseLink(t) \/ ReadLink(t)
         \/ Note(t) \/ Copy(t) \/ Answer(t)
  PROVE  Tidy'
<1>. USE DEF At, TypeOK, texts, frames, procs, signals, net, Runs, Pipes, Forked
<1>1. CASE Begin(t)
  BY <1>1, SameRuns DEF Begin
<1>2. CASE Quit(t) \/ Eof(t)
  <2>1. Leave(t) /\ pc[t] = "read"
    BY <1>2 DEF Quit, Eof, Took
  <2>. QED  BY <2>1, SameRuns DEF Leave
<1>3. CASE Empty(t) \/ Cprint(t) \/ Cprintf(t)
  <2>1. pc[t] = "read"
    BY <1>3 DEF Empty, Cprint, Cprintf, Reads, Took
  <2>2. CASE Empty(t)
    BY <2>1, <2>2, SameRuns DEF Empty
  <2>3. CASE Cprint(t)
    BY <2>1, <2>3, SameRuns DEF Cprint
  <2>4. CASE Cprintf(t)
    BY <2>1, <2>4, SameRuns DEF Cprintf
  <2>. QED  BY <1>3, <2>2, <2>3, <2>4
<1>4. CASE Show(t)
  BY <1>4, SameRuns DEF Show
<1>5. CASE CloseLink(t)
  BY <1>5, SameRuns DEF CloseLink
<1>6. CASE ReadLink(t)
  BY <1>6, SameRuns DEF ReadLink
<1>7. CASE Note(t)
  BY <1>7, SameRuns DEF Note
<1>8. CASE Copy(t)
  BY <1>8, SameRuns DEF Copy
<1>9. CASE Answer(t)
  BY <1>9, SameRuns DEF Answer
<1>10. CASE Tell(t)
  BY <1>10, SameRuns DEF Tell
<1>. QED
  BY <1>1, <1>2, <1>3, <1>4, <1>5, <1>6, <1>7, <1>8, <1>9, <1>10

LEMMA TidyDie == ASSUME Die PROVE Tidy'
BY DEF Die, Tidy, CommandsReaped, HandlerRestored, Kids, Forked

LEMMA TidyNext ==
  ASSUME TypeOK, Tidy, [Next]_vars
  PROVE  Tidy'
<1>1. ASSUME NEW t \in Threads, Accept(t)
      PROVE  Tidy'
  <2>. USE DEF TypeOK, texts, procs, signals, Runs, Pipes, Forked
  <2>. QED  BY <1>1, SameRuns DEF Accept
<1>2. ASSUME NEW t \in Threads, Background(t)
      PROVE  Tidy'
  <2>1. \A u \in Threads : kid'[u] = kid[u]
    <3>1. CASE kid' = kid
      BY <3>1
    <3>2. ASSUME NEW j \in Jobs, kid' = [kid EXCEPT ![j] = "run"]
          PROVE  \A u \in Threads : kid'[u] = kid[u]
      BY <3>2, ConstantsOK DEF TypeOK, ConstantsOK
    <3>. QED  BY <1>2, <3>1, <3>2 DEF Background
  <2>. QED  BY <1>2, <2>1, SameRuns DEF Background, signals, Runs, Pipes
<1>3. ASSUME NEW t \in Threads, Pipe(t) \/ Fork(t)
      PROVE  Tidy'
  <2>. USE DEF Tidy, CommandsReaped, HandlerRestored, TypeOK, Kids, Forked
  <2>1. CASE Pipe(t)
    <3>1. /\ pc'[t] = "piped" /\ pc[t] = "read" /\ kid' = kid
          /\ \A u \in Threads : u # t => pc'[u] = pc[u]
      BY <2>1 DEF Pipe, Reads, Took, At
    <3>. QED  BY <3>1
  <2>2. CASE Fork(t)
    <3>1. /\ pc'[t] = "forked" /\ sigchld' = sigchld
          /\ \A u \in Threads : u # t => pc'[u] = pc[u] /\ kid'[u] = kid[u]
      BY <2>2 DEF Fork, signals
    <3>. QED  BY <3>1
  <2>. QED  BY <1>3, <2>1, <2>2
<1>4. ASSUME NEW t \in Threads, Wait(t)
      PROVE  Tidy'
  <2>1. /\ kid'[t] = "none" /\ sigchld' = "reap"
        /\ \A u \in Threads : u # t => pc'[u] = pc[u] /\ kid'[u] = kid[u]
    BY <1>4 DEF Wait, TypeOK, Kids
  <2>. QED  BY <2>1 DEF Tidy, CommandsReaped, HandlerRestored, Forked
<1>5. ASSUME NEW t \in Threads,
             BackgroundStale(t) \/ RunFails(t) \/ SendKills(t)
      PROVE  Tidy'
  BY <1>5, TidyDie DEF BackgroundStale, RunFails, SendKills
<1>6. ASSUME NEW t \in Threads, KidWrites(t)
      PROVE  Tidy'
  BY <1>6, SameRuns DEF KidWrites, frames, signals, Runs, Pipes
<1>7. ASSUME NEW p \in Threads \cup {Main}, Signal(p) \/ ReapEnd(p)
      PROVE  Tidy'
  BY <1>7, SameRuns DEF Signal, ReapEnd, frames, procs, Runs, Pipes
<1>8. ASSUME NEW k \in Kids, KidEnds(k) \/ Reap(k)
      PROVE  Tidy'
  <2>. USE DEF frames, signals, Runs, Pipes, TypeOK
  <2>1. CASE KidEnds(k)
    BY <2>1, SameRuns DEF KidEnds
  <2>2. CASE Reap(k)
    BY <2>2, SameRuns DEF Reap
  <2>. QED  BY <1>8, <2>1, <2>2
<1>9. ASSUME NEW c \in Clients, Client(c)
      PROVE  Tidy'
  BY <1>9, SameRuns
     DEF Client, Connect, Send, Fin, Abort, Own, frames, procs, signals, Runs,
         Pipes
<1>10. CASE UNCHANGED vars
  BY <1>10, SameRuns DEF vars, frames, procs, signals, Runs, Pipes
<1>. QED
  BY <1>1, <1>2, <1>3, <1>4, <1>5, <1>6, <1>7, <1>8, <1>9, <1>10,
     QuietServe, TidyDie DEF Next, Serve, System, AcceptFails

LEMMA TidyInit == Init => Tidy
BY DEF Init, Tidy, CommandsReaped, HandlerRestored, Kids

LEMMA TidyAlways == Spec => []Tidy
BY InitTypes, TidyInit, NextTypes, TidyNext, PTL DEF Spec

(* However signals and threads interleave, a command's child is gone when  *)
(* its thread goes on (tservshell.cc:39, 96), ...                          *)
THEOREM ChildrenGone == Spec => []CommandsReaped
<1>1. Tidy => CommandsReaped
  BY DEF Tidy
<1>. QED  BY <1>1, TidyAlways, PTL

(* ... and the handler is back when no thread runs a command               *)
(* (tservshell.cc:47, 98).                                                 *)
THEOREM HandlerBack == Spec => []HandlerRestored
<1>1. Tidy => HandlerRestored
  BY DEF Tidy
<1>. QED  BY <1>1, TidyAlways, PTL

-----------------------------------------------------------------------------
(* Threads and connections.                                                *)
Busy(t) == pc[t] \notin {"none", "start"}

LEMMA SameServes ==
  ASSUME OneThreadEach, mishaps \subseteq mishaps', fds' = fds, arg' = arg,
         sd' = sd,
         \A t \in Threads : /\ Busy(t)' <=> Busy(t)
                            /\ pc'[t] = "start" <=> pc[t] = "start"
  PROVE  OneThreadEach'
<1>1. \A t \in Threads, k \in Fds : Serves(t, k)' <=> Serves(t, k)
  BY DEF Serves, Busy
<1>. QED  BY <1>1 DEF OneThreadEach

LEMMA BusyServe ==
  ASSUME TypeOK, OneThreadEach, NEW t \in Threads,
         \/ Empty(t) \/ Cprint(t) \/ Show(t) \/ Cprintf(t) \/ Background(t)
         \/ Tell(t) \/ Pipe(t) \/ Fork(t) \/ CloseLink(t) \/ ReadLink(t)
         \/ Wait(t) \/ Note(t) \/ Copy(t) \/ Answer(t)
  PROVE  OneThreadEach'
<1>. USE DEF At, TypeOK, texts, frames, procs, signals, net, Busy
<1>1. CASE Empty(t) \/ Cprint(t) \/ Cprintf(t) \/ Pipe(t) \/ Background(t)
  <2>1. pc[t] = "read"
    BY <1>1 DEF Empty, Cprint, Cprintf, Pipe, Background, Reads, Took
  <2>2. CASE Empty(t)
    BY <2>1, <2>2, SameServes DEF Empty
  <2>3. CASE Cprint(t)
    BY <2>1, <2>3, SameServes DEF Cprint
  <2>4. CASE Cprintf(t)
    BY <2>1, <2>4, SameServes DEF Cprintf
  <2>5. CASE Pipe(t)
    BY <2>1, <2>5, SameServes DEF Pipe
  <2>6. CASE Background(t)
    BY <2>1, <2>6, SameServes DEF Background
  <2>. QED  BY <1>1, <2>2, <2>3, <2>4, <2>5, <2>6
<1>2. CASE Show(t)
  BY <1>2, SameServes DEF Show
<1>3. CASE CloseLink(t)
  BY <1>3, SameServes DEF CloseLink
<1>4. CASE ReadLink(t)
  BY <1>4, SameServes DEF ReadLink
<1>5. CASE Wait(t)
  BY <1>5, SameServes DEF Wait
<1>6. CASE Note(t)
  BY <1>6, SameServes DEF Note
<1>7. CASE Copy(t)
  BY <1>7, SameServes DEF Copy
<1>8. CASE Answer(t)
  BY <1>8, SameServes DEF Answer
<1>9. CASE Tell(t)
  BY <1>9, SameServes DEF Tell
<1>10. CASE Fork(t)
  BY <1>10, SameServes DEF Fork
<1>. QED
  BY <1>1, <1>2, <1>3, <1>4, <1>5, <1>6, <1>7, <1>8, <1>9, <1>10

LEMMA AcceptServes ==
  ASSUME TypeOK, OneThreadEach, NEW t \in Threads, Accept(t)
  PROVE  OneThreadEach'
<1>. SUFFICES ASSUME "param" \notin mishaps'
              PROVE  OneThreadEach'
  BY DEF OneThreadEach
<1>1. /\ "param" \notin mishaps
      /\ \A u \in Threads : pc[u] # "start"
  BY DEF Accept
<1>2. PICK k \in Fds : /\ fds[k] = None /\ arg' = k
                       /\ fds' = [fds EXCEPT ![k] = Head(queue)]
  BY DEF Accept, Lowest
<1>3. Head(queue) # None
  BY HeadTailProperties, ConstantsOK DEF Accept, TypeOK, ConstantsOK
<1>4. /\ sd' = sd /\ pc[t] = "none" /\ pc' = [pc EXCEPT ![t] = "start"]
  BY DEF Accept
<1>5. \A j \in Fds : Serves(t, j)' <=> j = k
  BY <1>2, <1>4 DEF Serves, TypeOK
<1>6. \A j \in Fds : \A u \in Threads : u # t => (Serves(u, j)' <=> Serves(u, j))
  BY <1>1, <1>4 DEF Serves, TypeOK
<1>7. \A u \in Threads : ~Serves(u, k)
  BY <1>1, <1>2 DEF OneThreadEach
<1>8. \A j \in Fds : ~Serves(t, j)
  BY <1>4 DEF Serves
<1>9. ASSUME NEW j \in Fds
      PROVE  fds'[j] # None <=> \E u \in Threads : Serves(u, j)'
  <2>1. CASE j = k
    BY <1>2, <1>3, <1>5, <2>1 DEF TypeOK
  <2>2. CASE j # k
    <3>1. fds'[j] = fds[j]
      BY <1>2, <2>2 DEF TypeOK
    <3>2. fds[j] # None <=> \E u \in Threads : Serves(u, j)
      BY <1>1 DEF OneThreadEach
    <3>. QED  BY <1>5, <1>6, <1>8, <2>2, <3>1, <3>2
  <2>. QED  BY <2>1, <2>2
<1>10. ASSUME NEW j \in Fds, NEW u \in Threads, NEW v \in Threads,
              Serves(u, j)', Serves(v, j)'
       PROVE  u = v
  BY <1>1, <1>5, <1>6, <1>7, <1>10 DEF OneThreadEach
<1>. QED  BY <1>9, <1>10 DEF OneThreadEach

LEMMA LeaveServes ==
  ASSUME TypeOK, OneThreadEach, NEW t \in Threads, Leave(t), pc[t] = "read"
  PROVE  OneThreadEach'
<1>. SUFFICES ASSUME "param" \notin mishaps'
              PROVE  OneThreadEach'
  BY DEF OneThreadEach
<1>1. /\ "param" \notin mishaps
      /\ sd' = sd /\ arg' = arg
      /\ fds' = [fds EXCEPT ![sd[t]] = None]
      /\ pc' = [pc EXCEPT ![t] = "none"]
  BY DEF Leave
<1>2. sd[t] \in Fds /\ Serves(t, sd[t])
  BY DEF TypeOK, Serves
<1>3. \A u \in Threads : Serves(u, sd[t]) => u = t
  BY <1>1, <1>2 DEF OneThreadEach
<1>4. \A j \in Fds : \A u \in Threads : Serves(u, j)' <=> Serves(u, j) /\ u # t
  BY <1>1 DEF Serves, TypeOK
<1>5. ASSUME NEW j \in Fds
      PROVE  fds'[j] # None <=> \E u \in Threads : Serves(u, j)'
  <2>1. CASE j = sd[t]
    BY <1>1, <1>2, <1>3, <1>4, <2>1 DEF TypeOK
  <2>2. CASE j # sd[t]
    <3>1. fds'[j] = fds[j] /\ ~Serves(t, j)
      BY <1>1, <2>2 DEF TypeOK, Serves
    <3>2. fds[j] # None <=> \E u \in Threads : Serves(u, j)
      BY <1>1 DEF OneThreadEach
    <3>. QED  BY <1>4, <3>1, <3>2
  <2>. QED  BY <2>1, <2>2
<1>6. ASSUME NEW j \in Fds, NEW u \in Threads, NEW v \in Threads,
             Serves(u, j)', Serves(v, j)'
      PROVE  u = v
  BY <1>1, <1>4, <1>6 DEF OneThreadEach
<1>. QED  BY <1>5, <1>6 DEF OneThreadEach

LEMMA DieServes == ASSUME Die PROVE OneThreadEach'
BY DEF Die, OneThreadEach, Serves

LEMMA NextServes ==
  ASSUME TypeOK, OneThreadEach, [Next]_vars
  PROVE  OneThreadEach'
<1>1. ASSUME NEW t \in Threads, Begin(t)
      PROVE  OneThreadEach'
  <2>1. /\ pc[t] = "start" /\ arg' = arg /\ fds' = fds /\ mishaps' = mishaps
        /\ sd' = [sd EXCEPT ![t] = arg] /\ pc' = [pc EXCEPT ![t] = "read"]
    BY <1>1 DEF Begin, At, net
  <2>2. \A u \in Threads, k \in Fds : Serves(u, k)' <=> Serves(u, k)
    BY <2>1 DEF Serves, TypeOK
  <2>. QED  BY <2>1, <2>2 DEF OneThreadEach
<1>2. ASSUME NEW t \in Threads, Quit(t) \/ Eof(t)
      PROVE  OneThreadEach'
  BY <1>2, LeaveServes DEF Quit, Eof, Took, At
<1>3. ASSUME NEW t \in Threads,
             BackgroundStale(t) \/ RunFails(t) \/ SendKills(t)
      PROVE  OneThreadEach'
  BY <1>3, DieServes DEF BackgroundStale, RunFails, SendKills
<1>4. ASSUME NEW t \in Threads, KidWrites(t)
      PROVE  OneThreadEach'
  BY <1>4, SameServes DEF KidWrites, frames, net, Busy
<1>5. ASSUME NEW p \in Threads \cup {Main}, Signal(p) \/ ReapEnd(p)
      PROVE  OneThreadEach'
  BY <1>5, SameServes DEF Signal, ReapEnd, frames, net, Busy
<1>6. ASSUME NEW k \in Kids, KidEnds(k) \/ Reap(k)
      PROVE  OneThreadEach'
  BY <1>6, SameServes DEF KidEnds, Reap, frames, net, Busy
<1>7. ASSUME NEW c \in Clients, Client(c)
      PROVE  OneThreadEach'
  BY <1>7, SameServes DEF Client, Connect, Send, Fin, Abort, Own, frames, Busy
<1>8. CASE UNCHANGED vars
  BY <1>8, SameServes DEF vars, frames, net, Busy
<1>. QED
  BY <1>1, <1>2, <1>3, <1>4, <1>5, <1>6, <1>7, <1>8, AcceptServes, BusyServe,
     DieServes DEF Next, Serve, System, AcceptFails

LEMMA InitServes == Init => OneThreadEach
BY DEF Init, OneThreadEach, Serves

(* Connections and threads correspond one to one (tservshell.cc:225,       *)
(* 255-264), up to the first accept that comes before the last thread has  *)
(* read its parameter.                                                     *)
THEOREM ThreadPerConnection == Spec => []OneThreadEach
BY InitTypes, InitServes, NextTypes, NextServes, PTL DEF Spec

-----------------------------------------------------------------------------
(* What a thread knows of its line on the way to its answer.               *)
Judged(t) == req[t] \in {"good", "bad", "flood", "empty", "CPRINT"}

OnCourse(t) ==
  /\ pc[t] \in Forked \cup {"piped", "note"} => req[t] \in Commands
  /\ pc[t] \in Forked => kid[t] # "none"
  /\ pc[t] = "note" => status[t] = Verdict[req[t]]
  /\ pc[t] = "print" => req[t] = "CPRINT"
  /\ pc[t] = "tell" => req[t] = "CPRINTF"
  /\ pc[t] = "copy" /\ Judged(t) => status_output = Text(t, Verdict[req[t]])
  /\ pc[t] = "send" /\ Judged(t) => output = Text(t, Verdict[req[t]])

Course == mishaps = {} => \A t \in Threads : OnCourse(t)

LEMMA Verdicts ==
  /\ DOMAIN Verdict = {"good", "bad", "flood", "empty", "CPRINT"}
  /\ Verdict["good"] = "OK" /\ Verdict["flood"] = "OK" /\ Verdict["bad"] = "FAIL"
  /\ Verdict["empty"] = "ERR" /\ Verdict["CPRINT"] = "OK"
BY DEF Verdict

LEMMA CourseVerdict == Course => OwnVerdict
BY Verdicts DEF Course, OnCourse, Judged, OwnVerdict

LEMMA SameCourse ==
  ASSUME Course, mishaps \subseteq mishaps', UNCHANGED texts, UNCHANGED frames,
         mishaps' = {} => \A t \in Threads : kid[t] # "none" => kid'[t] # "none"
  PROVE  Course'
BY DEF Course, OnCourse, Judged, texts, frames, Forked

(* A step of thread t: nobody else is about to use the texts it writes.    *)
LEMMA OneCourse ==
  ASSUME Course, NEW t \in Threads, mishaps \subseteq mishaps',
         \A u \in Threads : u # t => /\ pc'[u] = pc[u] /\ req'[u] = req[u]
                                     /\ status'[u] = status[u] /\ kid'[u] = kid[u],
         UNCHANGED texts \/ mishaps' = mishaps \cup Overlap(t),
         mishaps' = {} /\ OnCourse(t) => OnCourse(t)'
  PROVE  Course'
<1>. SUFFICES ASSUME mishaps' = {}
              PROVE  \A u \in Threads : OnCourse(u)'
  BY DEF Course
<1>1. mishaps = {} /\ \A u \in Threads : OnCourse(u)
  BY DEF Course
<1>2. ASSUME NEW u \in Threads, u # t
      PROVE  OnCourse(u)'
  <2>1. /\ pc'[u] = pc[u] /\ req'[u] = req[u]
        /\ status'[u] = status[u] /\ kid'[u] = kid[u] /\ OnCourse(u)
    BY <1>1, <1>2
  <2>2. CASE UNCHANGED texts
    BY <2>1, <2>2 DEF OnCourse, Judged, texts
  <2>3. CASE mishaps' = mishaps \cup Overlap(t)
    <3>1. pc[u] \notin {"print", "tell", "copy", "send"}
      BY <1>2, <2>3 DEF Overlap
    <3>. QED  BY <2>1, <3>1 DEF OnCourse, Judged
  <2>. QED  BY <2>2, <2>3
<1>. QED  BY <1>1, <1>2

LEMMA ServeCourse ==
  ASSUME TypeOK, Course, NEW t \in Threads,
         \/ Begin(t) \/ Quit(t) \/ Eof(t) \/ Empty(t) \/ Cprint(t)
         \/ Show(t) \/ Cprintf(t) \/ Tell(t) \/ Background(t) \/ Pipe(t)
         \/ Fork(t) \/ CloseLink(t) \/ ReadLink(t) \/ Wait(t) \/ Note(t) \/ Copy(t) \/ Answer(t)
  PROVE  Course'
<1>. USE DEF At, TypeOK, texts, frames, procs, signals, net, OnCourse, Judged, Forked
<1>1. CASE Begin(t)
  BY <1>1, OneCourse DEF Begin
<1>2. CASE Quit(t) \/ Eof(t)
  <2>1. Leave(t) /\ pc[t] = "read"
    BY <1>2 DEF Quit, Eof, Took
  <2>. QED  BY <2>1, OneCourse DEF Leave
<1>3. CASE Empty(t)
  BY <1>3, OneCourse, Verdicts DEF Empty, Reads, Took
<1>4. CASE Cprint(t)
  BY <1>4, OneCourse, Verdicts DEF Cprint, Reads, Took
<1>5. CASE Show(t)
  BY <1>5, OneCourse, Verdicts DEF Show
<1>6. CASE Cprintf(t)
  BY <1>6, OneCourse, Verdicts DEF Cprintf, Reads, Took
<1>7. CASE Background(t)
  <2>1. \A u \in Threads : kid'[u] = kid[u]
    <3>1. CASE kid' = kid
      BY <3>1
    <3>2. ASSUME NEW j \in Jobs, kid' = [kid EXCEPT ![j] = "run"]
          PROVE  \A u \in Threads : kid'[u] = kid[u]
      BY <3>2, ConstantsOK DEF ConstantsOK
    <3>. QED  BY <1>7, <3>1, <3>2 DEF Background
  <2>2. pc[t] = "read" /\ req' = [req EXCEPT ![t] = "bg"]
    BY <1>7 DEF Background, Reads, Took
  <2>. QED  BY <1>7, <2>1, <2>2, OneCourse DEF Background
<1>8. CASE Pipe(t)
  <2>1. PICK line \in Commands : req' = [req EXCEPT ![t] = line]
    BY <1>8 DEF Pipe, Reads
  <2>. QED  BY <1>8, <2>1, OneCourse DEF Pipe
<1>15. CASE Fork(t)
  BY <1>15, OneCourse DEF Fork, Kids
<1>16. CASE Tell(t)
  BY <1>16, OneCourse DEF Tell
<1>9. CASE CloseLink(t)
  BY <1>9, OneCourse DEF CloseLink
<1>10. CASE ReadLink(t)
  BY <1>10, OneCourse DEF ReadLink
<1>11. CASE Wait(t)
  <2>1. /\ pc[t] = "wait" /\ pc' = [pc EXCEPT ![t] = "note"] /\ req' = req
        /\ mishaps' = mishaps /\ UNCHANGED texts
        /\ \A u \in Threads : u # t => /\ status'[u] = status[u]
                                       /\ kid'[u] = kid[u]
    BY <1>11 DEF Wait, Kids
  <2>2. OnCourse(t) => status'[t] = Verdict[req[t]]
    BY <1>11, Verdicts DEF Wait, Commands
  <2>. QED  BY <2>1, <2>2, OneCourse
<1>12. CASE Note(t)
  BY <1>12, OneCourse DEF Note
<1>13. CASE Copy(t)
  BY <1>13, OneCourse DEF Copy
<1>14. CASE Answer(t)
  BY <1>14, OneCourse DEF Answer
<1>. QED
  BY <1>1, <1>2, <1>3, <1>4, <1>5, <1>6, <1>7, <1>8, <1>9, <1>10, <1>11, <1>12,
     <1>13, <1>14, <1>15, <1>16

LEMMA CourseDie == ASSUME Die PROVE Course'
BY DEF Die, Course, OnCourse, Forked

LEMMA CourseNext ==
  ASSUME TypeOK, Course, [Next]_vars
  PROVE  Course'
<1>1. ASSUME NEW t \in Threads, Accept(t)
      PROVE  Course'
  <2>. USE DEF TypeOK, texts, procs, OnCourse, Forked
  <2>1. /\ mishaps \subseteq mishaps' /\ UNCHANGED texts
        /\ pc[t] = "none" /\ pc' = [pc EXCEPT ![t] = "start"]
        /\ req' = req /\ status' = status /\ kid' = kid
    BY <1>1 DEF Accept
  <2>. QED  BY <2>1, OneCourse
<1>2. ASSUME NEW t \in Threads,
             BackgroundStale(t) \/ RunFails(t) \/ SendKills(t)
      PROVE  Course'
  BY <1>2, CourseDie DEF BackgroundStale, RunFails, SendKills
<1>3. ASSUME NEW t \in Threads, KidWrites(t)
      PROVE  Course'
  BY <1>3, SameCourse DEF KidWrites
<1>4. ASSUME NEW p \in Threads \cup {Main}, Signal(p) \/ ReapEnd(p)
      PROVE  Course'
  BY <1>4, SameCourse DEF Signal, ReapEnd, procs
<1>5. ASSUME NEW k \in Kids, KidEnds(k)
      PROVE  Course'
  BY <1>5, SameCourse DEF KidEnds, TypeOK
<1>6. ASSUME NEW k \in Kids, Reap(k)
      PROVE  Course'
  <2>1. mishaps' = {} => k \notin Threads
    BY <1>6 DEF Reap
  <2>. QED  BY <1>6, <2>1, SameCourse DEF Reap, TypeOK
<1>7. ASSUME NEW c \in Clients, Client(c)
      PROVE  Course'
  BY <1>7, SameCourse DEF Client, Connect, Send, Fin, Abort, Own, procs
<1>8. CASE UNCHANGED vars
  BY <1>8, SameCourse DEF vars, procs
<1>. QED
  BY <1>1, <1>2, <1>3, <1>4, <1>5, <1>6, <1>7, <1>8, ServeCourse, CourseDie
     DEF Next, Serve, System, AcceptFails

LEMMA CourseInit == Init => Course
BY DEF Init, Course, OnCourse, Forked

(* A thread sends the verdict on its own line (tservshell.cc:160-204) up   *)
(* to the first use of a text that another thread needs, or the first      *)
(* child that the handler takes from its thread.                           *)
THEOREM OwnVerdictSent == Spec => []OwnVerdict
BY InitTypes, CourseInit, NextTypes, CourseNext, CourseVerdict, PTL DEF Spec
=============================================================================
