# Verification of the shell and file servers

TLA+ modules, TLC configurations and TLAPS proofs about the programs of this
repository: a family of TCP servers (poll loop, fork per client, thread per
client, one client at a time), a remote shell client that talks to them, and a
multithreaded file server that keeps a table of open descriptors in a file.

Run `tlc -workers 2 -config X.cfg M` for a run of the table below and
`tlapm M.tla` for the proofs, with M one of `FServProofs`, `FServCalmProofs`,
`CiServProofs`, `CServProofs`, `TServShellProofs`, `RsShellProofs`,
`LineInputProofs` and `QueueLemmas`.

## 1. The system

| Component | Source | State | Operations | How it interacts | What is hard |
|---|---|---|---|---|---|
| File server | `file_server/fserv.cc` | a thread per connection, `pthread_mutex_t lock`, the process's descriptors | accept, `quit`, FOPEN, FREAD, FWRITE, FSEEK, FCLOSE, restart | threads share descriptors and the table file; clients name descriptors by number | only FOPEN locks; descriptor numbers are reused; table full or unreadable |
| Descriptor table | `file_server/descriptor.cc` | `file_table`, `file_table_cache` | clear/initiate, check, write, delete | called by every thread, each call opens the file by name | read-copy-remove-rename without a lock; EOF and error loops; a cache left by a dead process |
| Poll server | `ciserv.cc` | `socks[]`, `open_socks` | poll, `do_client`, `delete_socket`, `accept_new`, `run_it` | clients send, close and reset between poll and read | shifting an array that is being indexed; `revents == POLLIN`; one blocking read stops everybody; SIGPIPE |
| Poll shell server | `shell_server/ciserv.cc` | as `ciserv.cc` | as `ciserv.cc`, commands through `popen` | | |
| Forking server | `shell_server/cserv.cc` | parent, children, pending SIGCHLD | accept, fork, serve, reap in the handler | the handler interrupts the parent anywhere | the handler loops while any child lives; failing fork |
| Iterative server | `shell_server/iserv.cc` | one connection | accept, echo, close | one client at a time | the queue behind a client that stays; answering one that has gone |
| Threaded shell server | `shell/tservshell.cc` | globals `buffer`, `output`, `status_output`, a shared thread parameter | accept, CPRINT, run a command in a child with a pipe | threads share every global | the parameter overwritten before it is read; output of one client sent to another; pipe full |
| Poll shell with CPRINT | `shell/ciservshell.cc` | as both of the above | | does not compile (`continue` outside a loop, line 260) | |
| Remote shell | `rsshell.cc` | `sd`, `keepalive`, the disposition of SIGCHLD, forked processes that go on as shells | local and remote commands, in the foreground and the background, `! keepalive`, `! close`, timeouts | talks to a server; its children share its connection | a late answer taken for the next one; a connection shut down by one process for all that share it; a signal that looks like a broken connection |
| Sockets library | `tcp-utils.cc` | none | `readline`, `recv_nonblock`, connect/listen helpers | used by all | half a line at end of file, -1 taken for a line |
| Tokenizer | `tokenize.cc` | none | `str_tokenize` | used by all | trailing blanks, tokens that are never terminated |

What makes each correct: a name is registered once and with a descriptor that
is open on it; opens exclude one another and never leave the lock behind; every
connection is served by one party, in order, and its answers go to it; no
descriptor, connection or child is forgotten; everything asked is answered.

## 2. The modules

| Module | Models | Correspondence |
|---|---|---|
| `FileRegistry` | abstract: what clients are promised about descriptors | a set of (name, descriptor) entries with atomic register, deregister and reset |
| `FServ` | `fserv.cc`, `descriptor.cc` | one action per system call of a thread (below) |
| `FServProps` | properties of `FServ`, refinement mapping to `FileRegistry` | |
| `MCFServ` | the instances checked by TLC | |
| `FServInv` | the inductive invariants of `FServ` | what every thread relies on at each of its system calls |
| `FServProofs` | theorems about `FServ`: types, the lock, the refinement without FCLOSE | |
| `FServCalmProofs` | theorems about `FServ` with FCLOSE, until a mishap | |
| `ClientLine` | abstract: clients stand in a line in order of arrival | join at the end, leave from anywhere, dismiss all |
| `CiServ` | `ciserv.cc` | one action per step of the poll loop, one per thing a client does |
| `CiServProps` | properties of `CiServ`, refinement mapping to `ClientLine` | |
| `MCCiServ` | the instances checked by TLC | |
| `CiServProofs` | theorems about `CiServ` | |
| `CServ` | `shell_server/cserv.cc` | one action per step of the parent, of its signal handler and of a child |
| `CServProps`, `MCCServ`, `CServProofs` | properties, instance and theorems of `CServ` | |
| `LineInput`, `LineInputProps` | `readline`, `str_tokenize` and how `do_client` uses them | one action per byte read, and per byte `str_tokenize` passes |
| `MCLineInput` | the instance checked by TLC: what an uninitialised buffer holds | |
| `LineInputProofs` | theorems about `LineInput` | |
| `QueueLemmas` | what joining and leaving a queue without duplicates preserves | used by the proofs of three servers |
| `TServShell` | `shell/tservshell.cc` | one action per step of main, of a thread, of a child and of the handler |
| `TServShellProps`, `MCTServShell`, `TServShellProofs` | properties, instances and theorems of `TServShell` | |
| `IServ` | `shell_server/iserv.cc` and the connections it has with its clients | one action per step of the server; operators for what a client does to a connection |
| `RsShell` | `rsshell.cc`, composed with `IServ` | one action per command, per step of a request, per signal and per end of a process |
| `RsShellProps`, `MCRsShell`, `RsShellProofs` | properties, instances and theorems of `RsShell` with `IServ` | |

### The file server

A client's thread is at `pc[c]`, its C variables are the fields of `frame[c]`
(`fp` is what `create_file` returned, `src`/`dst` are the descriptors on which
the callee reads and writes the table and the cache, `rd`/`wr` the records read
and written through them). The kernel is part of the model, because the
behaviours that matter depend on it: `fds` is the process's descriptor table
(lowest free number first), `table` and `cache` are the two directory entries,
`disk` the records of each inode. A table that was removed while a thread still
reads it stays readable; a number that was closed is given out again.

The unit of interleaving is the system call; a thread's reads of one record
between two calls that others can observe are one step with it.
`FOPEN` is `Fopen` (trylock), `ChkOpen`, `ChkScan` (`check_descriptor`),
`Create` (`create_file`), `WdOpen`, `WdWrite` (`write_descriptor`), `Reply`
(send and unlock). `FCLOSE` is `Fclose`, `DelSrc`, `DelDst`, `DelCopy` once per
record, `DelCopyEnd`, `DelRemove`, `DelRename` (`delete_descriptor`),
`DelClose`, `Reply`. `ChkLost` and `DelLost` are the loops that a failed
`read()` never leaves. `Start` is `clear_descriptor` with the new table,
`Crash` the end of the process by a signal or a kill, `AcceptFails` the
`return` of `main` when `accept` fails.

Nothing in the code orders a FCLOSE with respect to other table operations, checks for a
full descriptor table inside `descriptor.cc`, or removes a cache file left by a dead
process. A history variable, `mishaps`, records these three events (`overlap`, `emfile`,
`torn`). The properties that say "until a mishap" (`RecordsTrue`, `NoLeak`,
`AnswersTrue`, `CacheInsideClose`, `RegistryStep`, `Answered`) are conditional on it:
that a FCLOSE may overlap a FOPEN or another FCLOSE, that a number may be closed during
the FOPEN that reports it, and that a torn cache may come back as the table are races
the model has and these properties do not refute. `OpensExclude`, `LockHeldInside` and,
without FCLOSE, `OkTrue` and `RegistrySpec` are claimed after every mishap.
`RegistryStep` and `RegistrySpec` constrain what is added to the registry more than what
goes: `FileRegistry` lets the records of any descriptor go at any time, and all of them.
Which go, and when, is what `RecordsTrue` and `NoLeak` say.

`ChkLost` stands for a scan whose `read()` fails: the bytes it then compares are those
of an uninitialised array (`descriptor.cc:102-113`). An `ERR` with a number is the one
way out of the loop that is modelled; -1 would be possible as well. Unknown
commands and usage errors change no state and are left out.

### The poll server

`socks`, `open_socks` and `which` are the program's variables; `ready` is the
set of entries whose `revents` is exactly `POLLIN`; `fds`, `queue`, `sock` and
`inbox` are the kernel's side of the connections: which connection a descriptor
number means, who waits for an accept, whether a peer is there, has closed, or
has reset the connection, and what has arrived unread (the last line may be a
`half`, a line without its end, for which `readline` waits). Between `Poll` and
the step that acts on it clients go on. `ReadLine` is `do_client` up to
`run_it`; `Reply` comes after the command has ended, and sends to whatever
entry `which` denotes by then. `DeleteSocket` is one operator, because nothing
in this single-threaded process runs between its assignments.

### The forking server

A connection and the child that serves it have one name. `opened[p]` is the set
of connections process `p` (the parent, or a child) has open; a connection is
over when nobody has it open, and its name may then be used again. `Accept`,
`Fork`, `Close` are the three steps of the parent's loop; `Signal` may interrupt
it between any two of them, also between `fork` and `close(ssock)`, and the
parent then stays in the handler through `Reap` until `ReapEnd`, that is until
`waitpid` returns -1 because there is no child at all. `sigchld` is one pending
bit, as signals of one kind are not counted. A child gets copies of everything
its parent has open at the fork, those of earlier failed forks included.
`unforked` are the connections whose fork has failed; main goes on and forgets
them. `Answer`, `Killed`, `Finish`, `Exit` are a child: `shutdown` in `Finish`
tells the client even while others hold the connection.

Assumed: fork and the child's `close(msock)` are one step; a new process cannot
bind the port while children of the old one hold connections; a client that
sends half a line blocks only its own child.

### The threaded shell server

`arg` is the loop-local variable of `main` each thread is started with, read in
`Begin`. `output` and `status_output` are the global texts, each reduced to
whose verdict it is and which (`OK`, `FAIL`, `ERR`). A thread runs a command in
`Pipe` (signal, pipe), `Fork`, `CloseLink`, `ReadLink`, `Wait` (waitpid, signal),
`Note` (sprintf into `status_output`), `Copy` (strcpy to `output`), `Answer`.
`CPRINT` is `Cprint` and `Show`, with the sends before its text is replaced; `CPRINTF`,
the two sends of lines 130-131, is `Cprintf` and `Tell`. Each of them, like `Answer`,
may be the second send to a client that has gone, which kills the server (`SendKills`).
`holds[k]` are the pipes child `k` can write to: its own and those whose write
end this process had open when it was forked (`Writable`). Another thread may be between
its `pipe` and its `fork` then, so that two children may hold each other's pipes. The read
returns when something is in the pipe or nobody holds it. `sigchld` is the
disposition of SIGCHLD, `pending` the signal, `reaping` the threads (or main)
inside `zombie_reaper`, whose `waitpid(-1)` takes anybody's child. When
`readline` fails, `Stale` lets the thread take for a line the one it had, or
anything if it had none. A thread whose parameter was overwritten serves
another's descriptor, which its twin may close and `main` may give out again.

`mishaps` records the events nothing in the code prevents: `param` (an accept
before the last thread has read its parameter), `overlap` (a text is written
while another thread is about to use one), `stolen` (the handler takes the
child of a command). `OneThreadEach` and `OwnVerdict` are claimed until they
happen, and say nothing of the races themselves; `CommandsReaped`, `HandlerRestored` and
`Answered` do not mention them.

Abstracted: the descriptor numbers of pipes (only counted, `PipeLimit`); what a
command prints, hence `buffer`; the text of requests. A thread that is blocked in
`read` while its twin closes the descriptor, and `&` with no command after it,
are not modelled. The process does not restart. The comment on lines 22-23 says
that an empty request ends the connection; in the code, and in `Empty`, it is
answered.

### The remote shell and the iterative server

`RsShell` extends `IServ`: the two programs are one system. A connection `conn[c]` has
two ends, `sock` (the client's) and `srv` (the server's), each `open`, `fin` (shut down,
or closed with nothing unread) or `rst` (closed with something unread); `inbox` is what
the server has not read, `answers` what the client's side has not received, and
`holders` the processes with a descriptor for it. Both are in pieces: a command, or the
end of line behind it, because `sendData` sends the two by themselves
(`rsshell.cc:413-414`). What the kernel does at either end decides what the program at
the other finds: `recv` returns 0 or -1, `send` succeeds or raises SIGPIPE. `Shut` is
`closePort`, whose `shutdown` takes the connection away from everybody who shares it;
`LeftBy` is a descriptor that merely goes with its process.

The server is `Accept`, `Answer`, `Quit`, `Eof`, and what happens when the client
has gone: `AnswerGone` (one of its three sends raises SIGPIPE and ends the server, or
all go nowhere and it lives on) and `Broken` (`readline` returns -1, and whatever is in
`req` is taken for a line). `Sends(n)` says which pieces are sent back in one step: the
commands of a line, of which there are several when processes that share the connection
have sent theirs before the end of line of either, and the line behind is then empty;
or an end of line. "ACK: " goes with the piece behind it. `Quit` with something behind
the line leaves it unread, and may reset the connection (`Release`). `Die` tells every
connection of the end, `Start` is main again.

`proc[p]` is a process of the shell: `pc` where it is, `sd` and `keepalive` the
program's variables, `disp` and `pending` SIGCHLD, `handler` that it is inside
`zombie_reaper`, `parent` and `job` its place among the processes. `OneShot`,
`KeptRequest`, `KeepAlive`, `Refused`, `CloseKept`, `RunIt`, `More`, `Job`, `Background`
and `Exit` are what is typed at the prompt. A request goes through `SendText` and
`SendEnd`, the two sends of `sendData`, between which others may send on the same
connection, and then `Receive`, `Timeout`, `StreamEnds` or `ReceiveFails`, one for each
thing `recv_nonblock` can return. A send puts its piece into the connection (`Puts`),
goes nowhere (`Nowhere`: the descriptor is closed, or an end of the connection has been
given up), or kills the process (`Killed`). `Receive` takes one piece; `recv_nonblock`
returns what is there, and the loop that calls it takes in one turn or in several what
`Receive` takes in several, so part of an answer and more than one are both there.
`Timeout` is enabled whenever there is no answer: half a second may be shorter than
anything the server does. `Background` is the two forks of a `&` request; both processes
inherit the connection, and both go on as shells, the inner one after `BgDone`:
`bgServer` has no return statement on that path, which is undefined behaviour, and is
modelled as a shell that goes on or a process that ends. `BackgroundFails` is a second
fork that fails, after which the first process goes on as a shell at once; when main's
own fork fails nothing changes. `TakeSignal` delivers SIGCHLD: a receive under way fails
(`poll` returns EINTR, and the caller takes -1 for a broken connection), and the handler
stays until there is no child left at all.

A process's numbers and the kernel's descriptors are abstracted: `sd` names a
connection, or `NoConn` when it is closed. The program goes on with the closed number
(lines 378-382), which is not given out again before the next connect replaces it, as
`closePort` is followed by the end of the command. One local background job per process
at a time. The fork of `run_it` is assumed to succeed (line 298), and joined lines to
fit into 255 bytes: where they would be cut is `LineInput`'s matter.

`InStep` is about a connection neither end of which has been given up: `Place` numbers
the pieces a process sends, and those still to come are its last ones, without a gap,
whatever lines they have met in. It does not say that a line is one process's: on a
shared connection it need not be. `OwnAnswerOnly` does, for a connection that is not
kept. `NoneForgotten` is about the shells that users start: they forget a connection
they have open only in a second `! keepalive`. A background request does leave its
connection open (`closePort` is commented out there), which no property denies.

### Lines and words

`LineInput` is what the servers do with the bytes of one connection: the peer sends,
closes or resets at any time (`Sends`, `Ends`); `Store`, `EndOfLine`, `HalfLine`,
`NoData` and `Fails` are the turns and the returns of `readline`; `Parse` is the call of
`str_tokenize`, whose loops are `InWord`, `EndWord`, `SkipBlank` and `NextWord`: it puts
NULs into `req` and enters the places of tokens in `com_tok`, until `Tokenized`; `Run`
is the command and its answer. `req` is an uninitialised local of `do_client`, which is
called for each line: `Run` may leave it as it is or replace it by any buffer of the
constant `Junk`, with a NUL in it or without one. `com_tok` is an array of `max / 2 + 2`
pointers (129, where `max` is 255) that start as null pointers and are never reset.
`str_tokenize` is not told that number; `TokensFit` says that it need not be. The peer
may send any byte, a NUL too; the text that is run then ends there, and the words are
those before it. After a failure (-1, which is not `recv_nodata`; `Fails`) the text that
is run is the bytes read so far over whatever was in the buffer. When no NUL is among
these, `strcmp` and `strlen` run out of it (`Runaway`), and what happens then is
"undefined", where the model stops. `TypeOK` claims that only a failed `readline` can
lead there; that a failed one does not is not so. The other modules have lines as
members of small sets; this one is what that abstraction rests on, and its run what
makes plain where it ends: a line of exactly `max` bytes is followed by an empty one, a
half line before the end of the stream is a line, and an empty line or a leading blank
gives an empty first token, which is then the command.

## 3. The runs

| Run | Question | Bounds and why they suffice |
|---|---|---|
| `fserv` | Until a mishap: is the table a true registry without leaks, are answers true, is every step a registry step, is every request answered? And after it: do FOPENs exclude one another, is the lock never left behind? | 2 clients of which one sends FCLOSE (two concurrent FCLOSEs are a mishap already), an openable and an unopenable name, 4 descriptors: 2 sockets, a file and the table, so that with one client less there is room for a FCLOSE, and with both its second open can fail. After a mishap, one kind of it per behaviour, tables of at most 1 record and openable names only; what is claimed there is also proved without bounds. |
| `fserv_open` | Without FCLOSE, does the server refine `FileRegistry`, through crashes, restarts and a full descriptor table? | 3 clients, 2 names, 4 descriptors: three sockets and one left, so that every open can fail. |
| `ci_line` | Is the array a line of clients in order of arrival, one entry per descriptor, nobody both queued and polled? Does the first entry get served whatever the others send? | 3 clients, room for 2, so that the array is full and a client waits outside, and a removal shifts an entry (the shift of any number is proved); queue of 1; accept may fail at any time. |
| `lines` | Are lines returned as they were sent, and run with their own words, is there always room for these, and is it only after a failed `readline` that anything behind the buffer is read? | Streams of at most 6 bytes over two letters, the blank, the end of line and the NUL, a buffer of 4 which is, before each line, what it was, zeros, letters without a NUL, or the rest of a text (`MCJunk`): lines shorter than, as long as and longer than the buffer, two words with two blanks between them, several lines one after another, every way to end inside and between lines. What is claimed is also proved for lines and buffers of any length. |
| `ci_quit` | *Violated*: the answer goes to the client that asked. | After `quit` the entry denotes the next client. |
| `cserv` | Does every zombie have a signal or a running handler; is every client queued, in hand, served or told; are zombies reaped and the queue served? | 2 connections, 2 descriptors for the parent so that failed forks use them up and accept fails. The safety part is proved for any number. |
| `cserv_wait` | *Violated*: a client is accepted while another is served. | After one child has ended, the handler waits for all the others. |
| `tserv_mix` | Does every connection have a thread of its own, and is it sent the verdict on its own line? | 2 clients, one with background commands and a reset, after which its thread may take any line for read, a command or `quit` too, and one with a failing command, `CPRINT`, `CPRINTF`, empty lines and a close; 2 descriptors, pipes for one command. Exploration stops at the first mishap, on which both are conditional. |
| `tserv_live` | Do overlapping commands leave no zombie and no disposition behind, and are they answered? | 2 clients, one with a failing command and one with a command that floods its pipe; pipes for two at a time (each command needs two descriptors and leaves one open). So one's child may hold the other's pipe, stuck or not. No state is left out, those after mishaps neither. |
| `tserv_reap` | *Violated*: a thread waits for its own child and learns its status. | The handler takes the child, and the failure is noted as a success. |
| `rs_line` | Does every command give the prompt back, and is a waiting connection accepted unless the served one is kept for ever? | 2 shells, one with one-shot and kept requests, `! close`, local commands and `more`, the other with one-shot requests, 2 connections, queue of 1, so that one shell waits behind the other, times out there, and is answered when it has gone; 2 requests each. No background commands: with children, the handler may hold a shell for ever, which `PromptReturns` excepts. |
| `rs_back` | Is every connection of the server queued or served, is none a shell has open forgotten, is what comes on one in step with what was asked, and is a one-shot command sent its own answer only? | 1 shell with kept and other requests, background requests and local jobs, and the 2 processes they fork (`! close` is in `rs_line`); 2 connections, queue of 1. The shell makes 2 requests, the forked ones the background request they are for, so that a late answer, a request of a child on the shared connection and a further one meet, in one line too; at the prompt the forked ones only exit. The proofs are for any number of requests of every process. |

`CHECK_DEADLOCK FALSE` in the runs of `FServ`, `CiServ`, `CServ` and `TServShell`, since a
server with no client and nobody to restart it may stop, and of `LineInput`, which ends
with its connection. The runs of `RsShell`
check for deadlock.

Three runs refute what the repository says of itself:

* `ci_quit`: `ciserv.cc:112` "Receives a request for client i and responds to it" --
  after a quit it is another client that is answered.
* `cserv_wait`: `cserv.cc:2` "Simple concurrent client", against "the purely
  iterative one" in lines 8-9 -- after one child has ended nobody is accepted until
  all have.
* `tserv_reap`: `tservshell.cc:45` "we really want to wait for children" -- the
  handler takes the child, and the failure is noted as a success.

Met while modelling, part of the models, and not given runs of their own: an
entry of the poll server whose connection was reset polls as
`POLLIN|POLLERR|POLLHUP`, which is not `POLLIN`, and is never released (`ciserv.cc:234`
against lines 3-5); the poll server takes 99 clients, not `max_clients`, since
`open_socks` counts the master (`ciserv.cc:34-35, 88`); the iterative server is
killed when it answers a client that has gone (`iserv.cc:4-5`); servers answer an
empty request although their comments say that it ends the connection
(`iserv.cc:16-17`, `tservshell.cc:22-23`); what the poll server returns "prefixed by
the string ACK" (`ciserv.cc:2-3`) is not the line but its first word, as
`str_tokenize` has cut it by then.

### Fairness

`FServ!FairSpec` assumes weak fairness of each thread's own steps (`WF_vars(Serve(c))`):
a runnable POSIX thread is scheduled, and system calls on local files return. Nothing is
assumed of clients, of restarts or of accept. `CiServ!FairSpec` assumes weak fairness of
the one loop (`WF_vars(Serve)`): the process is scheduled and every command it waits for
ends. A `readline` that waits for the rest of a line is not a step, so no fairness hides
that wait. `CServ!FairSpec` assumes it of the parent (`Main`, handler included) and of
each child's own steps; a child whose client sends for ever need not end, which is the
exception `QueueServed` makes. `TServShell!FairSpec` assumes it of each thread outside
the handler and of the end of each command that does not flood its pipe; of the handler
nothing is assumed, and `Answered` excepts a thread that is in it again and again.
`RsShell!FairSpec` assumes weak fairness of the server's `Serve` and of each process's
own `Step`; that a user types, or that a local command or job ends, is not assumed, nor
that `accept` fails or does not.

## 4. The proofs

`FServProofs` holds for any sets of clients, files, descriptors and inodes.

* `TypeCorrect` (`Spec => []TypeOK`). `TypeOK` is not inductive: the record
  `write_descriptor` appends contains the name of the FOPEN in progress, so
  `Named` (a thread inside a FOPEN has a file name) is proved with it.
* `OpensAreExclusive` and `LockIsHeldInside`: the two parts of the lock
  argument imply each other's preservation; `OwnStep` and `OthersStay` say
  where a step takes its own thread and that it leaves the others alone. They
  need no condition: they hold after every mishap, crash and restart.
* `OpenServerImplementsRegistry`: if no client sends FCLOSE, the server refines
  `FileRegistry`. The inductive invariant `OpenInv` adds to the above that the
  table is there whenever the process is up and nothing is in the cache
  (`TableThere`), that a thread that reads or appends holds a descriptor of this
  very table (`OnTable`), and that a name that `check_descriptor` has not found
  is still not there when `write_descriptor` enters it (`NewName`); this is
  where exclusion is used.

`FServCalmProofs` is about clients that do send FCLOSE, and rests on the invariants
of `FServInv`, which `UndisturbedHolds` proves.

* `Tidy` holds always: besides the types and the lock, that a process that is down
  has no descriptors, that a thread that answers OK or ERR still has the lock, that
  the fields of a frame its request has not set are blank, and that an inode with
  records is the table, the cache, or still open in somebody's hands (`Referenced`):
  a new table or cache starts empty only because of this.
* `Undisturbed` says what holds until the first mishap. `RecordsTrue` and `NoLeak`
  are parts of it; they are far from inductive. A FCLOSE is alone (`CloseAlone`); the
  table and the cache are there exactly when its steps say so (`TwoFiles`); every
  thread reads and writes through descriptors of these very files (`ThroughTable`);
  a FOPEN creates what is not recorded (`Creating`); and the copying loop has in the
  cache exactly the records of the table it has read, without the one that is
  deleted (`Copying`, `Closing`). The last is the loop invariant that makes the
  rename one step of the registry.
* `RecordsStayHonest`, `DescriptorsDoNotLeak`, `AnswersAreTrue`, `CacheIsTransient`
  follow in every state, and `ServerStepsAreRegistrySteps` of every step.
* `OkIsTrue` holds after mishaps, too, if nobody sends FCLOSE: to `OpenInv` it adds that
  what `create_file` returned is open on the name (`FpOpen`), and that what a thread has
  put into its answer is so (`OkSound`).

`CiServProofs` holds for any sets of clients and descriptors and any length of
the array.

* `TypeCorrect`, `ArrayAgrees` (`EntriesSound`) and `OnePlaceEach`
  (`QueuedOrServed`) rest on one invariant, `Facts`: what `poll` has reported and
  has not been acted on is still an entry in use, or a connection that still
  waits (`Polled`), a server that has ended has left nothing behind (`Ended`),
  entries in use and open descriptors are in bijection (`Entries`), and a client
  is once in the queue or once among the descriptors (`OnePlace`). Types are not
  inductive alone: `delete_socket` indexes the array with an entry of the last
  poll, so `TypeOK` needs `Polled` and `Entries`. `Shifted` and
  `ShiftedEntries` say what the loop of `delete_socket` does to the array.
* `ArrayIsLine`: `CiServ` refines `ClientLine`. `LineIs` identifies the entries in
  use with a sequence of clients; `Removed` shows that `delete_socket` removes one
  position from it and keeps the order of the rest.

`CServProofs` holds for any set of connections and any number of descriptors.
`TypeOK` is inductive (`TypeCorrect`); `NoZombieUnnoticed`, `ConnectionsHeldByOwners`
and `ClientsAttended` rest on `Facts`, the three properties together with `Apart`
(the queue has no duplicates, and no process has a queued connection open),
`Recorded` (what is unforked or has been sent end of file is open somewhere, and
a serving child has its connection open), `InHand` (the connection between accept
and close is open in the parent, and between accept and fork has no child) and
`Childless` (a parent that has ended has no zombie). None of the three is
inductive alone: a connection that is accepted must be one no process has open
yet, which is what `Apart` says.

`TServShellProofs` holds for any finite set of threads and any sets of clients and
descriptors (of which there is at least one).

* `TypeCorrect`. Types are inductive once pipes are counted: `PipesCounted` says
  that a process has at least the two descriptors open of every pipe it has still to
  close (`Writable`), so that a command's end never counts below zero.
* `ChildrenGone` (`CommandsReaped`) and `HandlerBack` (`HandlerRestored`) are proved
  together as `Tidy`: the step that lets a thread go on is the `waitpid` that finds
  its child gone, whoever took it, and the same step restores the handler.
* `ThreadPerConnection` (`OneThreadEach`) is inductive as it stands, given the types:
  descriptor and thread are freed in one step, and the only step that breaks the
  correspondence is the accept that the mishap `param` records.
* `OwnVerdictSent` (`OwnVerdict`) rests on `Course`: what each of the places a thread
  goes through has established (a command in `req`, a child that is there, the status
  of its own line, the right text in `status_output`, then in `output`).

`RsShellProofs` holds for any sets of shells, spare processes and connections and any
bounds on the queue and on requests.

* `TypeCorrect`: `TypeOK` is inductive.
* `NobodyForgotten` (`QueuedOrServed`): inductive with the types. `CommandSrv` and
  `StepSrv` reduce all that clients do to one fact: whatever they do to a
  connection leaves the server's end as it is.
* `HeldOpen`, with `SparesIdle`, is an invariant about the kernel's side that the others
  rest on and no run checks: an end that is open is held by somebody, and nobody holds
  anything but living processes and jobs that run.
* `NothingForgotten` (`NoneForgotten`) rests on `UserShells`: at each place of a shell
  that a user has started, whether it keeps a connection and whether it may still have
  one open (`Shell`). A shell at the prompt that keeps nothing has none, which is why the
  next connect forgets none.
* `NoForeignAnswer` (`OwnAnswerOnly`) is far from inductive. `EachOwn` says that while
  a process without a kept connection has a request under way, nobody else has
  its connection (`Alone`), and what is on it are pieces of the one line it has sent
  (`UnderWay`): nothing before the first send, the command without its end before the
  second, and any rest of the two afterwards.
* `AnswersInStep` (`InStep`): `Quiet` says what a step that sends nothing may do to a
  connection and to a process (take the first of what is to come, clear it, or begin a
  connection or a process), `Adds` is the step that puts a piece into an open
  connection, whoever has sent what before it, and every step of either
  program is one of the two. `InStep` is inductive under both together with `Untraced`: a
  process name that is not in use is named by nothing that is still to come, or a
  process forked later would find answers to requests it never made.

`LineInputProofs` holds for streams, lines and buffers of any length, and any set of
letters.

* `TypeCorrect`, for any contents of an uninitialised buffer (`Junk` is any set of
  buffers), rests on `Parsable`: a line that `readline` has returned has its NUL in the
  buffer. The buffer of a failed one need not, and `Parse` is then enabled only if it has;
  otherwise `Runaway` leads to "undefined", and `ending` is "error" there.
* `LinesArrive` (`LinesAsSent`) rests on `Reading` (the buffer holds the bytes of the
  stream from where the line begins) and `Reached` (after a line, the next one begins at
  the place reached). `WholeStays` shows that a line that was returned stays what it
  is, whatever the peer sends next: only an open stream grows, and then no line was
  ended by its end.
* `TokensAreTheWords` (`TokensAreWords`) and `TokensAlwaysFit` (`TokensFit`) rest on
  `Cutting`, the invariant of the two loops of `str_tokenize`: which blanks are NULs by
  now (`Overwritten`, the first of each run of blanks), which words are entered, and in
  their order (`Entered`), that each of them has been ended or goes on to the place
  reached, and that twice the number of tokens is at most the bytes passed and two.
  The last is why 129 pointers do for 255 bytes.

Assumptions on constants are named in the modules that declare them. Two of them
are there for the proofs: jobs and processes have different names (`ShellConstantsOK`),
and threads are finite and descriptors not empty (`TServShell!ConstantsOK`).

Of the properties the runs check, all are proved but the liveness properties (`Answered`,
twice, `FirstServed`, `Reaped`, `QueueServed`, twice, `PromptReturns`), which are
model-checked only: this prover does neither fairness nor ENABLED.

Two definitions have the form they have because of the proofs. `str_tokenize` is the loop
of the code, one byte a step, with the array it fills, and not a function of the line, of
which only induction could say anything. `InStep` speaks of places in the sequence of what
is to come on a connection, and not of that sequence filtered by process, for the same
reason.

## 5. What is not modelled, and what is assumed

* Records of the table are values, read and written whole (99-byte `read`s and
  `write`s on a local file). `create_file` is assumed to build its path in zeroed
  memory (`malloc` without initialisation, `fserv.cc:263`).
* A thread that spins on a failed `read` writes garbage into the cache while it
  spins; this is left out. `errno` and process numbers are abstracted.
* FREAD, FWRITE and FSEEK are not there. They are single system calls on whatever
  number the client names: on the descriptor of a file they change its contents
  and its position, which nothing else in the server looks at; on the table's own
  descriptor, or on another client's socket, they change bytes within records and
  requests, and the model has neither. A client of the model uses the numbers it
  has been told for FCLOSE only.
* `send`, unlock and the way back to `readline` are one step of `FServ`.
* `poll` failing is covered by `Crash`. The memory a failed accept leaks is not
  modelled. The text of commands and answers is not modelled, nor is what
  a command does with its arguments: `com_tok` is not terminated in `ciserv.cc:134`, so
  that tokens of longer, earlier requests follow those of this one.
* Of the remote shell: what is printed and paged, the size of the terminal, the
  configuration file and its values.
* Of the sockets library: looking up hosts and services, and `controlsocket`, which no
  program calls.
* `shell_server/ciserv.cc` is the poll server again, with `popen` in place of
  `run_it`; its connection table is line for line that of `CiServ`.
  `shell/ciservshell.cc` does not compile; `file_server/trials` is not built.

## 6. Plan

Done: the file server's registry, the poll server, the forking server, the threaded
shell server, the remote shell with the iterative server, lines and words; proofs of every
safety property the runs check. Left:

1. FREAD, FWRITE and FSEEK on file descriptors, with contents and positions, in a
   module over `FileRegistry`.
2. The poll shell server's `do_client`, which runs the line with `popen`, as a variant of
   the one in `CiServ`.
3. Proofs: an abstract specification of a connection that `LineInput` implements, so
   that the lines of the other modules are those of the stream by a theorem.
