-------------------------- MODULE TServShellProps --------------------------
(***************************************************************************)
(* What the threaded shell server guarantees, and until which mishap.      *)
(***************************************************************************)
EXTENDS TServShell

Texts == [of : Threads \cup {None}, what : {"OK", "FAIL", "ERR"}]

TypeOK ==
  /\ up \in BOOLEAN
  /\ arg \in Fds
  /\ output \in Texts /\ status_output \in Texts
  /\ pc \in [Threads -> {"none", "start", "read", "print", "tell", "piped",
                         "forked", "link", "wait", "note", "copy", "send"}]
  /\ sd \in [Threads -> Fds]
  /\ req \in [Threads -> Lines \cup {None}]
  /\ status \in [Threads -> {"OK", "FAIL"}]
  /\ pipes \in 0..PipeLimit
  /\ kid \in [Kids -> {"none", "run", "zombie"}]
  /\ holds \in [Kids -> SUBSET Threads]
  /\ filled \subseteq Threads
  /\ sigchld \in {"default", "block", "reap"}
  /\ pending \in BOOLEAN
  /\ reaping \subseteq Threads \cup {Main}
  /\ fds \in [Fds -> Clients \cup {None}]
  /\ queue \in Seq(Clients)
  /\ sock \in [Clients -> {"away", "open", "fin", "rst"}]
  /\ inbox \in [Clients -> Seq(Lines)]
  /\ mishaps \subseteq {"param", "overlap", "stolen"}

-----------------------------------------------------------------------------
(* The descriptor a thread serves, also one that has not read it yet.      *)
Serves(t, k) == \/ pc[t] = "start" /\ arg = k
                \/ pc[t] \notin {"none", "start"} /\ sd[t] = k

(* Every open connection has exactly one thread and every thread an open   *)
(* connection (tservshell.cc:225, 255-264), until main accepts the next    *)
(* one before the last thread has read its parameter.                      *)
OneThreadEach ==
  "param" \notin mishaps =>
    /\ \A k \in Fds : fds[k] # None <=> \E t \in Threads : Serves(t, k)
    /\ \A k \in Fds, t, u \in Threads : Serves(t, k) /\ Serves(u, k) => t = u

(* The verdict on a line, as far as it has one.                            *)
Verdict == [good |-> "OK", flood |-> "OK", bad |-> "FAIL", empty |-> "ERR",
            CPRINT |-> "OK"]

(* What is sent is the verdict on the thread's own line                    *)
(* (tservshell.cc:160-204), until two threads use the texts at the same    *)
(* time or a child is taken by the handler.                                *)
OwnVerdict ==
  mishaps = {} =>
    \A t \in Threads : pc[t] = "send" /\ req[t] \in DOMAIN Verdict =>
      output = Text(t, Verdict[req[t]])

(* Where a thread is that has a command's child to wait for.               *)
Forked == {"forked", "link", "wait"}

(* A command's child is gone by the time its status is noted, whoever      *)
(* reaped it (tservshell.cc:39, 96): commands leave no zombie behind, and  *)
(* no child is still writing when its thread goes on.                      *)
CommandsReaped ==
  \A t \in Threads :
    pc[t] \notin Forked => kid[t] = "none"

(* The handler is restored (tservshell.cc:47, 98): SIGCHLD is ignored only *)
(* while some thread runs a command, however their commands overlap.       *)
HandlerRestored ==
  sigchld = "block" =>
    \E t \in Threads : pc[t] \in Forked \cup {"piped"}

(* The end of thread t's pipe is kept off by another thread's child, which *)
(* has inherited it and is stuck, writing what nobody reads.               *)
Flooded(t) ==
  \E u \in Threads \ {t} : kid[u] = "run" /\ req[u] = "flood" /\ t \in holds[u]

(* A command that does not flood its pipe is answered (tservshell.cc:47-98,*)
(* 185-204), unless the server ends or the handler keeps interrupting its  *)
(* thread: its pipe comes to an end although other threads' children have  *)
(* it and its own child has theirs, all but those that flood.              *)
Answered ==
  \A t \in Threads :
    pc[t] = "piped" /\ req[t] # "flood"
      ~> pc[t] \in {"read", "none"} \/ ~up \/ []<>(t \in reaping) \/ []Flooded(t)

-----------------------------------------------------------------------------
(* "we really want to wait for children so we inhibit the normal handling  *)
(* of SIGCHLD" (tservshell.cc:45): a command's child is reaped by the      *)
(* thread that waits for it, which learns its status.                      *)
WaitsForChild ==
  \A t \in Threads : pc[t] = "note" /\ req[t] = "bad" => status[t] = "FAIL"
=============================================================================
