------------------------------ MODULE LineInput ------------------------------
(***************************************************************************)
(* How the servers read requests: readline takes bytes off a connection    *)
(* one at a time while the peer goes on sending (tcp-utils.cc),            *)
(* str_tokenize cuts the line into words in place (tokenize.cc), and       *)
(* do_client, called for each line with a buffer nobody has written, runs  *)
(* it (ciserv.cc).  That one of the lines may be "quit" is left to CiServ.  *)
(***************************************************************************)
EXTENDS Integers, Sequences, FiniteSetsExt

CONSTANTS
  Letters,      \* the bytes of words
  max,          \* readline's parameter
  Junk,         \* what an uninitialised buffer may hold
  StreamLimit   \* bound on what the peer sends

Eol == "eol"
Blank == "blank"
Nul == "nul"
Bytes == Letters \cup {Blank, Eol, Nul}

(* do_client's req has room for max bytes and a NUL.                       *)
Buffers == [1..(max + 1) -> Bytes]

ASSUME BoundsOK ==
  /\ max \in Nat \ {0} /\ StreamLimit \in Nat
  /\ Letters \cap {Eol, Blank, Nul} = {}
  /\ Junk \subseteq Buffers

(* The length of com_tok: 129, where max is 255.                           *)
TokRoom == max \div 2 + 2

VARIABLES
  stream,       \* what the peer has sent
  ending,       \* "open"; "eof", closed; "error", reset
  pos,          \* how much of it has been read
  pc,           \* "read", "parse", "run": where do_client is; "cut", "skip":
                \* in the outer or in the inner loop of str_tokenize; or
                \* "done", "killed", or "undefined": behind the buffer
  i,            \* readline's counter
  req,          \* do_client's buffer
  at,           \* str_tokenize's i, counted from 1
  com_tok,      \* the places in req where tokens begin, 0 for a null pointer
  num_tok,
  lines,        \* history: the lines readline has returned, each with its
                \* place in the stream and its bytes
  line          \* history: the text last given to str_tokenize

peer == <<stream, ending>>
tokens == <<at, com_tok, num_tok, line>>
vars == <<peer, pos, pc, i, req, tokens, lines>>

(* The C string at place p of a buffer.                                    *)
CString(r, p) == SubSeq(r, p, Min({k \in p..Len(r) : r[k] = Nul}) - 1)

(* There is a NUL in a buffer.                                             *)
Ended(r) == \E k \in 1..Len(r) : r[k] = Nul

Init ==
  /\ stream = <<>> /\ ending = "open" /\ pos = 0
  /\ pc = "read" /\ i = 0
  /\ req \in Junk
  /\ at = 1 /\ com_tok = [t \in 1..TokRoom |-> 0] /\ num_tok = 0
  /\ lines = <<>> /\ line = <<>>

-----------------------------------------------------------------------------
(* The peer.                                                               *)
Sends(b) ==
  /\ ending = "open" /\ Len(stream) < StreamLimit
  /\ stream' = Append(stream, b)
  /\ UNCHANGED <<ending, pos, pc, i, req, tokens, lines>>

Ends(how) ==
  /\ ending = "open"
  /\ ending' = how
  /\ UNCHANGED <<stream, pos, pc, i, req, tokens, lines>>

-----------------------------------------------------------------------------
(* readline: one byte a turn.  It waits when there is none.                *)
Arrived == pc = "read" /\ pos < Len(stream)
Drained == pc = "read" /\ pos = Len(stream)
tmp == stream[pos + 1]

(* A variation of Returns: no NUL behind a line that fills the buffer.     *)
ReturnsOpen(r, n) ==
  /\ req' = IF n < max THEN [r EXCEPT ![n + 1] = Nul] ELSE r
  /\ lines' = Append(lines, [from |-> pos - i + 1, text |-> SubSeq(r, 1, n)])
  /\ i' = 0
  /\ pc' = "parse"

(* It returns n bytes of the buffer r as a line, which may have a NUL      *)
(* among them.                                                             *)
Returns(r, n) ==
  /\ req' = [r EXCEPT ![n + 1] = Nul]
  /\ lines' = Append(lines, [from |-> pos - i + 1, text |-> SubSeq(r, 1, n)])
  /\ i' = 0
  /\ pc' = "parse"

(* buf[i] = tmp; the loop ends with the max-th byte.                       *)
Store ==
  /\ Arrived /\ tmp # Eol
  /\ pos' = pos + 1
  /\ LET r == [req EXCEPT ![i + 1] = tmp] IN
     IF i + 1 < max THEN req' = r /\ i' = i + 1 /\ UNCHANGED <<pc, lines>>
                    ELSE Returns(r, max)
  /\ UNCHANGED <<peer, tokens>>

EndOfLine ==
  /\ Arrived /\ tmp = Eol
  /\ pos' = pos + 1
  /\ Returns(req, i)
  /\ UNCHANGED <<peer, tokens>>

(* A variation of HalfLine: the line is lost.                              *)
HalfLineLost ==
  /\ Drained /\ ending = "eof" /\ i > 0
  /\ pc' = "done"
  /\ UNCHANGED <<peer, pos, i, req, tokens, lines>>

(* The stream ends inside a line, which is returned ...                    *)
HalfLine ==
  /\ Drained /\ ending = "eof" /\ i > 0
  /\ Returns(req, i)
  /\ UNCHANGED <<peer, pos, tokens>>

(* ... or before one: recv_nodata, and do_client returns.                  *)
NoData ==
  /\ Drained /\ ending = "eof" /\ i = 0
  /\ pc' = "done"
  /\ UNCHANGED <<peer, pos, i, req, tokens, lines>>

(* -1 is not recv_nodata: do_client goes on with what is in req, bytes of  *)
(* this line over what was there.                                          *)
Fails ==
  /\ Drained /\ ending = "error"
  /\ pc' = "parse" /\ i' = 0
  /\ UNCHANGED <<peer, pos, req, tokens, lines>>

-----------------------------------------------------------------------------
(* do_client calls str_tokenize with the string in req and its length,     *)
(* which is that of line from now on.  The first token begins with it.     *)
Parse ==
  /\ pc = "parse" /\ Ended(req)
  /\ line' = CString(req, 1)
  /\ com_tok' = [com_tok EXCEPT ![1] = 1] /\ num_tok' = 1
  /\ at' = 1
  /\ pc' = "cut"
  /\ UNCHANGED <<peer, pos, i, req, lines>>

(* strcmp and strlen run past the end of the buffer: anything may follow.  *)
Runaway ==
  /\ pc = "parse" /\ ~Ended(req)
  /\ pc' = "undefined"
  /\ UNCHANGED <<peer, pos, i, req, tokens, lines>>

Within(loop) == pc = loop /\ at <= Len(line)

(* The bytes of a word are passed over ...                                 *)
InWord ==
  /\ Within("cut") /\ req[at] # Blank
  /\ at' = at + 1
  /\ UNCHANGED <<peer, pos, pc, i, req, com_tok, num_tok, line, lines>>

(* ... the blank behind it is overwritten ...                              *)
EndWord ==
  /\ Within("cut") /\ req[at] = Blank
  /\ req' = [req EXCEPT ![at] = Nul]
  /\ at' = at + 1
  /\ pc' = "skip"
  /\ UNCHANGED <<peer, pos, i, com_tok, num_tok, line, lines>>

(* ... and those that follow are passed over ...                           *)
SkipBlank ==
  /\ Within("skip") /\ req[at] = Blank
  /\ at' = at + 1
  /\ UNCHANGED <<peer, pos, pc, i, req, com_tok, num_tok, line, lines>>

Enter(k) ==
  /\ com_tok' = [com_tok EXCEPT ![num_tok + 1] = k]
  /\ num_tok' = num_tok + 1

(* Two variations of NextWord: blanks are not skipped; a byte that is left *)
(* over is a token, too.                                                   *)
NextWordAtOnce ==
  /\ Within("skip")
  /\ Enter(at)
  /\ pc' = "cut"
  /\ UNCHANGED <<peer, pos, i, req, at, line, lines>>

NextWordOrEnd ==
  /\ pc = "skip" /\ at <= Len(line) + 1 /\ req[at] # Blank
  /\ Enter(at)
  /\ pc' = "cut"
  /\ UNCHANGED <<peer, pos, i, req, at, line, lines>>

(* ... up to the next word.  The tokens of this line are entered from the  *)
(* front of com_tok; nothing marks their end.                              *)
NextWord ==
  /\ Within("skip") /\ req[at] # Blank
  /\ Enter(at)
  /\ pc' = "cut"
  /\ UNCHANGED <<peer, pos, i, req, at, line, lines>>

Tokenized ==
  /\ pc \in {"cut", "skip"} /\ at > Len(line)
  /\ pc' = "run"
  /\ UNCHANGED <<peer, pos, i, req, tokens, lines>>

(* The command is run and answered with three sends, which a reset turns   *)
(* into a SIGPIPE for certain and a close may.  The next call of do_client *)
(* has a buffer of its own, often where the last one was.                  *)
Run ==
  /\ pc = "run"
  /\ \/ ending # "error" /\ pc' = "read" /\ req' \in Junk \cup {req}
     \/ ending # "open" /\ pc' = "killed" /\ UNCHANGED req
  /\ UNCHANGED <<peer, pos, i, tokens, lines>>

-----------------------------------------------------------------------------
Tokenize == InWord \/ EndWord \/ SkipBlank \/ NextWord \/ Tokenized

Serve ==
  \/ Store \/ EndOfLine \/ HalfLine \/ NoData \/ Fails
  \/ Parse \/ Runaway \/ Tokenize \/ Run

Next ==
  \/ \E b \in Bytes : Sends(b)
  \/ \E how \in {"eof", "error"} : Ends(how)
  \/ Serve

Spec == Init /\ [][Next]_vars
=============================================================================
