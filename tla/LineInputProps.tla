--------------------------- MODULE LineInputProps ---------------------------
(***************************************************************************)
(* What arrives of the lines and words that are sent.                      *)
(***************************************************************************)
EXTENDS LineInput

Text == Seq(Bytes \ {Nul})
Lines == [from : Nat \ {0}, text : Seq(Bytes \ {Eol})]

(* readline's counter, str_tokenize's and the tokens stay in their ranges; *)
(* and whoever looks for the end of the string in req looks behind req     *)
(* only when the connection has failed (tcp-utils.cc:129-147,              *)
(* ciserv.cc:119-134), although nothing was in req before.                 *)
TypeOK ==
  /\ stream \in Seq(Bytes) /\ ending \in {"open", "eof", "error"}
  /\ pos \in 0..Len(stream)
  /\ pc \in {"read", "parse", "cut", "skip", "run", "done", "killed", "undefined"}
  /\ pc = "undefined" => ending = "error"
  /\ i \in 0..(max - 1)
  /\ req \in Buffers
  /\ at \in 1..(max + 1)
  /\ com_tok \in [1..TokRoom -> 0..max] /\ num_tok \in 0..TokRoom
  /\ lines \in Seq(Lines)
  /\ line \in Text /\ Len(line) <= max

-----------------------------------------------------------------------------
(* The place in the stream behind the first n lines: behind the end of     *)
(* line, unless a line is as long as the buffer or the last of a stream.   *)
Behind(n) ==
  IF n = 0 THEN 1
  ELSE LET l == lines[n]
           end == l.from + Len(l.text)
       IN IF Len(l.text) < max /\ end <= Len(stream) THEN end + 1 ELSE end

(* Lines arrive whole, in order and once each (tcp-utils.cc:125-147): each *)
(* begins where the one before it ends, is what the stream has there, and  *)
(* ends with max bytes, at an end of line or, not being empty, with the    *)
(* stream; the next one is what is being read; and do_client returns at    *)
(* the end only.                                                           *)
LinesAsSent ==
  /\ \A n \in DOMAIN lines :
       LET l == lines[n]
           end == l.from + Len(l.text)
       IN
       /\ l.from = Behind(n - 1) /\ end <= Len(stream) + 1
       /\ l.text = SubSeq(stream, l.from, end - 1)
       /\ \/ Len(l.text) = max
          \/ Len(l.text) < max /\ end <= Len(stream) /\ stream[end] = Eol
          \/ /\ 0 < Len(l.text) /\ Len(l.text) < max
             /\ end = Len(stream) + 1 /\ ending = "eof"
  /\ pc \in {"read", "done"} => pos - i + 1 = Behind(Len(lines))
  /\ pc = "done" => pos = Len(stream) /\ i = 0

-----------------------------------------------------------------------------
(* The words of a line: the first one, empty before a leading blank or in  *)
(* an empty line, and then whatever stands between blanks.                 *)
WordStarts ==
  {1} \cup {k \in 2..Len(line) : line[k] # Blank /\ line[k - 1] = Blank}

(* A command is run with the words of the text in its buffer as its first  *)
(* arguments, in their order, however many blanks stand between and behind *)
(* them (tokenize.cc:8-29, ciserv.cc:133-136), though com_tok and req hold *)
(* what earlier lines left behind.                                         *)
TokensAreWords ==
  pc = "run" =>
    /\ {com_tok[t] : t \in 1..num_tok} = WordStarts
    /\ \A t, u \in 1..num_tok : t < u => com_tok[t] < com_tok[u]
    /\ \A k \in WordStarts : \E end \in k..(Len(line) + 1) :
         /\ CString(req, k) = SubSeq(line, k, end - 1)
         /\ \A m \in k..(end - 1) : line[m] # Blank
         /\ end = Len(line) + 1 \/ line[end] = Blank

(* The 129 pointers of com_tok are enough for the words of a line of 255   *)
(* bytes, however they stand (ciserv.cc:53, 118-134), with one to spare.   *)
TokensFit == num_tok < TokRoom
=============================================================================
