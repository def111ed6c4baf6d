--------------------------- MODULE LineInputProofs ---------------------------
(***************************************************************************)
(* Theorems about readline and str_tokenize, for lines, words and buffers  *)
(* of any length.                                                          *)
(***************************************************************************)
EXTENDS LineInputProps, SequenceTheorems, WellFoundedInduction, TLAPS

-----------------------------------------------------------------------------
(* The inductive invariant.                                                *)

(* A string in the buffer begins at place p and has its NUL at j.          *)
EndsAt(r, p, j) == r[j] = Nul /\ \A k \in p..(j - 1) : r[k] # Nul

(* There is one to parse, unless the connection has failed.                *)
Parsable == pc = "parse" /\ ending # "error" => Ended(req)

(* What of the line has been read is in the buffer.                        *)
Reading ==
  /\ pc = "read" =>
       i <= pos /\ \A k \in 1..i : req[k] = stream[pos - i + k] /\ req[k] # Eol
  /\ pc # "read" => i = 0

(* After a line, unless the connection has failed since, the next one      *)
(* begins at the place reached; do_client returns from a closed one only.  *)
Reached ==
  /\ pc \in {"parse", "cut", "skip", "run"} /\ ending # "error" =>
       pos + 1 = Behind(Len(lines))
  /\ pc = "done" => ending = "eof"

(* str_tokenize has come to place at: which blanks are overwritten, ...    *)
RunStart(l, k) == l[k] = Blank /\ (k > 1 => l[k - 1] # Blank)

Overwritten ==
  /\ at <= Len(line) + 1 /\ req[Len(line) + 1] = Nul
  /\ \A k \in 1..Len(line) :
       req[k] = IF k < at /\ RunStart(line, k) THEN Nul ELSE line[k]

(* ... which words are entered, ...                                        *)
WordStart(l, k) == k \in 2..Len(l) /\ l[k] # Blank /\ l[k - 1] = Blank

Entered ==
  /\ num_tok > 0 /\ com_tok[1] = 1
  /\ \A t \in 2..num_tok : WordStart(line, com_tok[t])
  /\ \A t \in 1..num_tok : com_tok[t] <= at
  /\ \A k \in 1..(at - 1) : WordStart(line, k) => \E t \in 2..num_tok : com_tok[t] = k
  /\ \A t, u \in 1..num_tok : t < u => com_tok[t] < com_tok[u]

(* ... and that the blank after a word is behind it, or the word goes on.  *)
InWordOf(l, k, e) == \A m \in k..e : l[m] # Blank

Stopped(l, k, a) == \E e \in k..(a - 1) : l[e] = Blank /\ InWordOf(l, k, e - 1)

InTheWord ==
  /\ \A t \in 1..num_tok : Stopped(line, com_tok[t], at) \/ InWordOf(line, com_tok[t], at - 1)
  /\ \/ at > 1 => line[at - 1] # Blank
     \/ WordStart(line, at) /\ com_tok[num_tok] = at
  /\ 2 * num_tok <= at + IF com_tok[num_tok] = at THEN 2 ELSE 1

BetweenWords ==
  /\ \A t \in 1..num_tok : Stopped(line, com_tok[t], at) /\ com_tok[t] < at
  /\ at > 1 /\ line[at - 1] = Blank
  /\ 2 * num_tok <= at

AtTheEnd ==
  /\ at = Len(line) + 1
  /\ \A t \in 1..num_tok : Stopped(line, com_tok[t], at) \/ InWordOf(line, com_tok[t], at - 1)
  /\ 2 * num_tok <= Len(line) + 2

Cutting ==
  /\ pc \in {"cut", "skip", "run"} => Overwritten /\ Entered
  /\ pc = "cut" => InTheWord
  /\ pc = "skip" => BetweenWords
  /\ pc = "run" => AtTheEnd

LineInv ==
  TypeOK /\ TokensFit /\ Parsable /\ Reading /\ LinesAsSent /\ Reached /\ Cutting

-----------------------------------------------------------------------------
(* Strings in buffers.                                                     *)
LEMMA BufferIs ==
  ASSUME NEW r \in Buffers
  PROVE  /\ max \in Nat \ {0} /\ r \in Seq(Bytes) /\ Len(r) = max + 1
         /\ \A q \in 1..(max + 1), b \in Bytes : [r EXCEPT ![q] = b] \in Buffers
         /\ Nul \in Bytes /\ Nul # Eol /\ Nul # Blank
BY BoundsOK DEF BoundsOK, Buffers, Bytes, Nul, Eol, Blank

LEMMA CStringIs ==
  ASSUME NEW r \in Buffers, NEW p \in 1..(max + 1), NEW j \in p..(max + 1),
         EndsAt(r, p, j)
  PROVE  /\ CString(r, p) = SubSeq(r, p, j - 1)
         /\ CString(r, p) \in Text /\ Len(CString(r, p)) = j - p
         /\ \A k \in 1..(j - p) : CString(r, p)[k] = r[p + k - 1]
<1>. DEFINE Nuls == {k \in p..Len(r) : r[k] = Nul}
<1>1. max + 1 \in Nat /\ r \in Seq(Bytes) /\ Len(r) = max + 1
  BY BufferIs
<1>2. j \in Nuls /\ \A k \in Nuls : j <= k
  BY <1>1 DEF EndsAt
<1>3. Min(Nuls) = j
  <2>. HIDE DEF Nuls
  <2>1. \A k \in Nuls : k \in Int
    BY <1>1 DEF Nuls
  <2>2. \A x \in Nuls : (\A y \in Nuls : x <= y) => x = j
    BY <1>2, <2>1
  <2>3. (CHOOSE x \in Nuls : \A y \in Nuls : x <= y) = j
    BY <1>2, <2>2
  <2>. QED  BY <2>3 DEF Min
<1>4. CString(r, p) = SubSeq(r, p, j - 1)
  BY <1>3 DEF CString
<1>5. \A k \in p..(j - 1) : r[k] \in Bytes \ {Nul}
  BY <1>1 DEF Buffers, EndsAt
<1>6. /\ Len(SubSeq(r, p, j - 1)) = j - p
      /\ SubSeq(r, p, j - 1) \in Seq(Bytes \ {Nul})
      /\ \A k \in 1..(j - p) : SubSeq(r, p, j - 1)[k] = r[p + k - 1]
  BY <1>1, <1>5, SubSeqProperties
<1>. QED  BY <1>4, <1>6 DEF Text

(* The first NUL of a buffer that has one.                                 *)
LEMMA FirstNul ==
  ASSUME NEW r \in Buffers, Ended(r)
  PROVE  \E j \in 1..(max + 1) : EndsAt(r, 1, j)
<1>1. PICK k \in 1..(max + 1) : r[k] = Nul
  BY BufferIs DEF Ended
<1>. DEFINE S == {m \in Nat : m \in 1..(max + 1) /\ r[m] = Nul}
<1>2. S \subseteq Nat /\ S # {}
  BY <1>1
<1>3. \E j \in S : \A m \in S : ~ (<<m, j>> \in OpToRel(<, Nat))
  <2>. HIDE DEF S
  <2>. QED  BY <1>2, WFMin, NatLessThanWellFounded
<1>4. PICK j \in S : \A m \in S : ~ (<<m, j>> \in OpToRel(<, Nat))
  BY <1>3
<1>5. \A m \in S : ~ (m < j)
  BY <1>2, <1>4 DEF OpToRel
<1>6. \A m \in 1..(j - 1) : r[m] # Nul
  BY <1>5, BufferIs
<1>. QED  BY <1>6 DEF EndsAt

LEMMA Half ==
  /\ TokRoom \in Nat /\ TokRoom > 1
  /\ \A n \in Nat : 2 * n <= max + 2 <=> n < TokRoom
BY BoundsOK DEF BoundsOK, TokRoom

-----------------------------------------------------------------------------
(* The returns of readline.                                                *)
(* n bytes of a line are in the buffer r, from the place the line has in   *)
(* the stream.                                                             *)
Holds(r, n) ==
  /\ r \in Buffers
  /\ n \in 0..max /\ i <= pos /\ pos - i + n <= Len(stream)
  /\ \A k \in 1..n : r[k] = stream[pos - i + k] /\ r[k] # Eol

LEMMA ReturnsLine ==
  ASSUME TypeOK, NEW r, NEW n, Holds(r, n), Returns(r, n)
  PROVE  /\ req' \in Buffers /\ Ended(req)'
         /\ i' = 0 /\ pc' = "parse"
         /\ \E l \in Lines :
              /\ lines' = Append(lines, l)
              /\ l.from = pos - i + 1 /\ Len(l.text) = n
              /\ \A k \in 1..n : l.text[k] = stream[l.from + k - 1]
<1>0. /\ max \in Nat /\ n \in Nat /\ n <= max /\ i \in Nat /\ pos \in Nat
      /\ Len(stream) \in Nat /\ r \in Seq(Bytes) /\ Len(r) = max + 1
  BY BoundsOK, BufferIs DEF BoundsOK, Holds, TypeOK
<1>1. req' \in Buffers /\ req'[n + 1] = Nul
  <2>1. n + 1 \in 1..(max + 1)
    BY <1>0
  <2>. QED  BY <2>1, BufferIs DEF Holds, Returns, Buffers
<1>2. Ended(req)'
  <2>1. n + 1 \in 1..Len(req')
    BY <1>0, <1>1, BufferIs
  <2>. QED  BY <1>1, <2>1 DEF Ended
<1>. DEFINE t == SubSeq(r, 1, n)
<1>3. /\ t \in Seq(Bytes \ {Eol}) /\ Len(t) = n
      /\ \A k \in 1..n : t[k] = r[k]
  <2>1. \A k \in 1..n : r[k] \in Bytes \ {Eol}
    BY <1>0 DEF Holds, Buffers
  <2>. QED  BY <1>0, <2>1, SubSeqProperties
<1>. HIDE DEF t
<1>. DEFINE l == [from |-> pos - i + 1, text |-> t]
<1>4. l \in Lines /\ l.from = pos - i + 1 /\ l.text = t
  BY <1>0, <1>3 DEF Lines, Holds
<1>5. lines' = Append(lines, l) /\ i' = 0 /\ pc' = "parse"
  BY DEF Returns, t
<1>. HIDE DEF l
<1>6. ASSUME NEW k \in 1..n
      PROVE  l.text[k] = stream[l.from + k - 1]
  <2>1. l.from + k - 1 = pos - i + k
    BY <1>0, <1>4
  <2>2. l.text[k] = r[k]
    BY <1>3, <1>4
  <2>. QED  BY <2>1, <2>2 DEF Holds
<1>. QED  BY <1>1, <1>2, <1>3, <1>4, <1>5, <1>6

(* What readline returns with, at each of its returns.                     *)
LEMMA StoreHolds ==
  ASSUME TypeOK, Reading, Store
  PROVE  LET r == [req EXCEPT ![i + 1] = tmp] IN
         /\ r \in Buffers
         /\ i <= pos /\ pos - i + (i + 1) <= Len(stream)
         /\ \A k \in 1..(i + 1) : r[k] = stream[pos - i + k] /\ r[k] # Eol
<1>. DEFINE r == [req EXCEPT ![i + 1] = tmp]
<1>0. /\ max \in Nat /\ i \in Nat /\ i < max /\ pos \in Nat /\ Len(stream) \in Nat
      /\ pos < Len(stream) /\ req \in Buffers
  BY BoundsOK DEF BoundsOK, TypeOK, Store, Arrived
<1>1. tmp \in Bytes /\ tmp # Eol
  <2>1. pos + 1 \in 1..Len(stream)
    BY <1>0
  <2>. QED  BY <2>1, ElementOfSeq DEF TypeOK, Store, tmp
<1>2. r \in Buffers
  <2>1. i + 1 \in 1..(max + 1)
    BY <1>0
  <2>. QED  BY <1>0, <1>1, <2>1, BufferIs
<1>3. r[i + 1] = tmp /\ \A k \in 1..(max + 1) : k # i + 1 => r[k] = req[k]
  BY <1>0 DEF Buffers
<1>. HIDE DEF r
<1>4. i <= pos /\ \A k \in 1..i : req[k] = stream[pos - i + k] /\ req[k] # Eol
  BY DEF Reading, Store, Arrived
<1>5. ASSUME NEW k \in 1..(i + 1)
      PROVE  r[k] = stream[pos - i + k] /\ r[k] # Eol
  <2>1. CASE k = i + 1
    <3>1. pos - i + k = pos + 1
      BY <1>0, <2>1
    <3>. QED  BY <1>1, <1>3, <2>1, <3>1 DEF tmp
  <2>2. CASE k # i + 1
    <3>1. k \in 1..i /\ k \in 1..(max + 1)
      BY <1>0, <2>2
    <3>. QED  BY <1>3, <1>4, <2>2, <3>1
  <2>. QED  BY <2>1, <2>2
<1>6. pos - i + (i + 1) <= Len(stream)
  BY <1>0
<1>. QED  BY <1>2, <1>4, <1>5, <1>6 DEF r

LEMMA LineHolds ==
  ASSUME TypeOK, Reading, EndOfLine \/ HalfLine
  PROVE  Holds(req, i) /\ Returns(req, i)
<1>1. pc = "read"
  BY DEF EndOfLine, HalfLine, Arrived, Drained
<1>2. Returns(req, i)
  BY DEF EndOfLine, HalfLine
<1>3. /\ max \in Nat \ {0} /\ req \in Buffers /\ pos \in 0..Len(stream) /\ i \in 0..(max - 1)
      /\ Len(stream) \in Nat
  BY BoundsOK DEF BoundsOK, TypeOK
<1>. QED  BY <1>1, <1>2, <1>3 DEF Reading, Holds

-----------------------------------------------------------------------------
(* Types, and a string to parse.                                           *)
PeerType == stream \in Seq(Bytes) /\ ending \in {"open", "eof", "error"}

ReadType ==
  /\ pos \in 0..Len(stream) /\ i \in 0..(max - 1)
  /\ pc \in {"read", "parse", "cut", "skip", "run", "done", "killed", "undefined"}
  /\ pc = "undefined" => ending = "error"
  /\ req \in Buffers /\ Parsable
  /\ lines \in Seq(Lines)

TokenType ==
  /\ at \in 1..(max + 1)
  /\ com_tok \in [1..TokRoom -> 0..max] /\ num_tok \in Nat /\ num_tok < TokRoom
  /\ line \in Text /\ Len(line) <= max

LEMMA TypeParts ==
  /\ TypeOK /\ TokensFit /\ Parsable <=> PeerType /\ ReadType /\ TokenType
  /\ (TypeOK /\ TokensFit /\ Parsable)'
       <=> (PeerType /\ ReadType /\ TokenType)'
<1>1. TypeOK /\ TokensFit /\ Parsable <=> PeerType /\ ReadType /\ TokenType
  BY Half DEF TypeOK, TokensFit, PeerType, ReadType, TokenType
<1>2. (TypeOK /\ TokensFit /\ Parsable)'
        <=> (PeerType /\ ReadType /\ TokenType)'
  BY Half DEF TypeOK, TokensFit, PeerType, ReadType, TokenType
<1>. QED  BY <1>1, <1>2

LEMMA PeerNext ==
  ASSUME PeerType, ReadType,
         (\E b \in Bytes : Sends(b)) \/ (\E how \in {"eof", "error"} : Ends(how))
  PROVE  PeerType' /\ ReadType'
<1>1. UNCHANGED <<pos, pc, i, req, lines>>
  BY DEF Sends, Ends
<1>2. ASSUME NEW b \in Bytes, Sends(b)
      PROVE  PeerType' /\ Len(stream') = Len(stream) + 1
  BY <1>2 DEF PeerType, Sends
<1>3. ASSUME NEW how \in {"eof", "error"}, Ends(how)
      PROVE  PeerType' /\ Len(stream') = Len(stream)
  BY <1>3 DEF PeerType, Ends
<1>4. PeerType' /\ 0..Len(stream) \subseteq 0..Len(stream') /\ ending = "open"
  BY <1>2, <1>3 DEF PeerType, Sends, Ends
<1>. QED  BY <1>1, <1>4 DEF ReadType, Parsable

LEMMA ReadNext ==
  ASSUME TypeOK, Reading,
         Store \/ EndOfLine \/ HalfLine \/ NoData \/ Fails
  PROVE  ReadType'
<1>0. /\ max \in Nat \ {0} /\ i \in Nat /\ i < max /\ pos \in Nat /\ Len(stream) \in Nat
      /\ req \in Buffers /\ lines \in Seq(Lines) /\ stream' = stream
  BY BoundsOK DEF BoundsOK, TypeOK, Store, EndOfLine, HalfLine, NoData, Fails, peer
<1>1. ASSUME NEW r, NEW n, Holds(r, n), Returns(r, n), pos' \in 0..Len(stream)
      PROVE  ReadType'
  <2>1. /\ req' \in Buffers /\ Ended(req)'
        /\ i' = 0 /\ pc' = "parse"
        /\ \E l \in Lines : lines' = Append(lines, l)
    BY <1>1, ReturnsLine
  <2>2. lines' \in Seq(Lines)
    BY <1>0, <2>1
  <2>. QED  BY <1>0, <1>1, <2>1, <2>2 DEF ReadType, Parsable
<1>2. CASE Store
  <2>. DEFINE r == [req EXCEPT ![i + 1] = tmp]
  <2>1. /\ r \in Buffers
        /\ i <= pos /\ pos - i + (i + 1) <= Len(stream)
        /\ \A k \in 1..(i + 1) : r[k] = stream[pos - i + k] /\ r[k] # Eol
    BY <1>2, StoreHolds
  <2>2. pos' \in 0..Len(stream)
    BY <1>0, <1>2 DEF Store, Arrived
  <2>3. \/ i + 1 < max /\ req' = r /\ i' = i + 1 /\ UNCHANGED <<pc, lines>>
        \/ i + 1 = max /\ Returns(r, max)
    BY <1>0, <1>2 DEF Store
  <2>. HIDE DEF r
  <2>4. CASE i + 1 < max /\ req' = r /\ i' = i + 1 /\ UNCHANGED <<pc, lines>>
    <3>1. pc' = "read"
      BY <1>2, <2>4 DEF Store, Arrived
    <3>. QED  BY <1>0, <2>1, <2>2, <2>4, <3>1 DEF ReadType, Parsable
  <2>5. CASE i + 1 = max /\ Returns(r, max)
    <3>1. Holds(r, max)
      BY <1>0, <2>1, <2>5 DEF Holds
    <3>. QED  BY <1>1, <2>2, <2>5, <3>1
  <2>. QED  BY <2>3, <2>4, <2>5
<1>3. CASE EndOfLine \/ HalfLine
  <2>1. pos' \in 0..Len(stream)
    BY <1>0, <1>3 DEF EndOfLine, HalfLine, Arrived, Drained
  <2>. QED  BY <1>1, <1>3, <2>1, LineHolds
<1>4. CASE NoData \/ Fails
  BY <1>0, <1>4 DEF NoData, Fails, ReadType, TypeOK, Parsable, peer
<1>. QED  BY <1>2, <1>3, <1>4

LEMMA ParseNext ==
  ASSUME TypeOK, TokensFit, Parse
  PROVE  /\ TokenType'
         /\ EndsAt(req, 1, Len(line') + 1)
         /\ \A k \in 1..Len(line') : line'[k] = req[k]
<1>0. 1 \in 1..(max + 1) /\ max \in Nat \ {0} /\ req \in Buffers
  BY BoundsOK DEF BoundsOK, TypeOK
<1>1. PICK j \in 1..(max + 1) : EndsAt(req, 1, j)
  BY <1>0, FirstNul DEF Parse
<1>2. /\ line' \in Text /\ Len(line') = j - 1
      /\ \A k \in 1..(j - 1) : line'[k] = req[k]
  <2>1. line' = CString(req, 1) /\ j \in 1..(max + 1)
    BY DEF Parse
  <2>2. /\ CString(req, 1) \in Text /\ Len(CString(req, 1)) = j - 1
        /\ \A k \in 1..(j - 1) : CString(req, 1)[k] = req[1 + k - 1]
    BY <1>0, <1>1, <2>1, CStringIs
  <2>3. \A k \in 1..(j - 1) : 1 + k - 1 = k
    BY <2>1
  <2>. QED  BY <2>1, <2>2, <2>3
<1>3. at' = 1 /\ num_tok' = 1 /\ com_tok' \in [1..TokRoom -> 0..max]
  <2>1. 1 \in 0..max /\ com_tok \in [1..TokRoom -> 0..max]
    BY <1>0 DEF TypeOK
  <2>. QED  BY <2>1 DEF Parse
<1>4. Len(line') + 1 = j /\ EndsAt(req, 1, j)
  BY <1>0, <1>1, <1>2
<1>5. TokenType'
  BY <1>0, <1>2, <1>3, Half DEF TokenType
<1>. QED  BY <1>2, <1>4, <1>5

LEMMA TokenizeNext ==
  ASSUME TypeOK, TokensFit, Parsable, Cutting, Tokenize \/ Run
  PROVE  ReadType' /\ TokenType'
<1>0. /\ max \in Nat \ {0} /\ at \in Nat /\ num_tok \in Nat /\ Len(line) \in Nat
      /\ Len(line) <= max
  BY BoundsOK, Half DEF BoundsOK, TypeOK, Text
<1>1. ReadType /\ TokenType
  BY TypeParts
<1>2. UNCHANGED <<peer, pos, i, lines>> /\ pc' \in {"read", "cut", "skip", "run", "killed"}
  BY <1>1 DEF Tokenize, InWord, EndWord, SkipBlank, NextWord, Tokenized, Run,
       Within, ReadType
<1>3. CASE InWord \/ EndWord \/ SkipBlank
  <2>1. at' = at + 1 /\ at \in 1..max /\ UNCHANGED <<com_tok, num_tok, line>>
    BY <1>0, <1>1, <1>3 DEF InWord, EndWord, SkipBlank, Within, TokenType
  <2>2. req' = req \/ req' = [req EXCEPT ![at] = Nul]
    BY <1>3 DEF InWord, EndWord, SkipBlank
  <2>3. req' \in Buffers
    <3>1. at \in 1..(max + 1)
      BY <1>0, <2>1
    <3>. QED  BY <1>1, <2>2, <3>1, BufferIs DEF ReadType
  <2>. QED  BY <1>0, <1>1, <1>2, <2>1, <2>3 DEF ReadType, TokenType, Parsable, peer
<1>4. CASE NextWord
  <2>1. at' = at /\ UNCHANGED <<req, line>> /\ at \in 1..max /\ Enter(at)
    BY <1>0, <1>1, <1>4 DEF NextWord, Within, TokenType
  <2>2. 2 * num_tok <= at
    BY <1>4 DEF NextWord, Within, Cutting, BetweenWords
  <2>3. 2 * (num_tok + 1) <= max + 2
    BY <1>0, <2>1, <2>2
  <2>4. num_tok + 1 < TokRoom
    BY <1>0, <2>3, Half
  <2>5. com_tok' \in [1..TokRoom -> 0..max]
    <3>1. at \in 0..max /\ com_tok \in [1..TokRoom -> 0..max]
      BY <1>0, <1>1, <2>1 DEF TokenType
    <3>. QED  BY <2>1, <3>1 DEF Enter
  <2>. QED
    BY <1>0, <1>1, <1>2, <2>1, <2>4, <2>5 DEF ReadType, TokenType, Parsable, peer, Enter
<1>5. CASE Tokenized \/ Run
  <2>1. req' \in Buffers
    BY <1>1, <1>5, BoundsOK DEF Tokenized, Run, ReadType, BoundsOK
  <2>. QED
    BY <1>1, <1>2, <1>5, <2>1 DEF Tokenized, Run, tokens, peer, ReadType, TokenType, Parsable
<1>. QED  BY <1>3, <1>4, <1>5 DEF Tokenize

LEMMA TypeNext ==
  ASSUME LineInv, [Next]_vars
  PROVE  (TypeOK /\ TokensFit /\ Parsable)'
<1>0. TypeOK /\ TokensFit /\ Parsable /\ Reading /\ Cutting
  BY DEF LineInv
<1>1. PeerType /\ ReadType /\ TokenType
  BY <1>0, TypeParts
<1>2. CASE (\E b \in Bytes : Sends(b)) \/ (\E how \in {"eof", "error"} : Ends(how))
  <2>1. TokenType'
    BY <1>1, <1>2 DEF Sends, Ends, tokens, TokenType
  <2>. QED  BY <1>1, <1>2, <2>1, PeerNext, TypeParts
<1>3. CASE Store \/ EndOfLine \/ HalfLine \/ NoData \/ Fails
  <2>1. PeerType' /\ TokenType'
    BY <1>1, <1>3 DEF Store, EndOfLine, HalfLine, NoData, Fails, peer, tokens,
         PeerType, TokenType
  <2>. QED  BY <1>0, <1>3, <2>1, ReadNext, TypeParts
<1>4. CASE Parse
  <2>1. PeerType' /\ ReadType'
    BY <1>1, <1>4 DEF Parse, peer, PeerType, ReadType, Parsable
  <2>. QED  BY <1>0, <1>4, <2>1, ParseNext, TypeParts
<1>7. CASE Runaway
  <2>1. ending = "error"
    BY <1>0, <1>7 DEF Runaway, Parsable
  <2>2. PeerType' /\ ReadType' /\ TokenType'
    BY <1>1, <1>7, <2>1 DEF Runaway, peer, tokens, PeerType, ReadType, TokenType, Parsable
  <2>. QED  BY <2>2, TypeParts
<1>5. CASE Tokenize \/ Run
  <2>1. PeerType'
    BY <1>1, <1>5 DEF Tokenize, InWord, EndWord, SkipBlank, NextWord, Tokenized, Run,
         peer, PeerType
  <2>. QED  BY <1>0, <1>5, <2>1, TokenizeNext, TypeParts
<1>6. CASE UNCHANGED vars
  BY <1>1, <1>6, TypeParts DEF vars, peer, tokens, PeerType, ReadType, TokenType, Parsable
<1>. QED  BY <1>2, <1>3, <1>4, <1>5, <1>6, <1>7 DEF Next, Serve

-----------------------------------------------------------------------------
(* The buffer holds what has been read of the line.                        *)
LEMMA ReadingNext ==
  ASSUME LineInv, [Next]_vars
  PROVE  Reading'
<1>0. /\ TypeOK /\ Reading /\ i \in Nat /\ pos \in Nat
      /\ pos <= Len(stream) /\ stream \in Seq(Bytes) /\ max \in Nat
  BY BoundsOK DEF BoundsOK, LineInv, TypeOK
<1>1. ASSUME NEW b \in Bytes, Sends(b)
      PROVE  Reading'
  <2>1. \A k \in 1..Len(stream) : stream'[k] = stream[k]
    BY <1>0, <1>1 DEF Sends
  <2>2. \A k \in 1..i : i <= pos => pos - i + k \in 1..Len(stream)
    BY <1>0
  <2>. QED  BY <1>0, <1>1, <2>1, <2>2 DEF Sends, Reading
<1>2. CASE Store
  <2>. DEFINE r == [req EXCEPT ![i + 1] = tmp]
  <2>1. \A k \in 1..(i + 1) : r[k] = stream[pos - i + k] /\ r[k] # Eol
    BY <1>0, <1>2, StoreHolds
  <2>2. \/ req' = r /\ i' = i + 1 /\ pc' = pc
        \/ pc' = "parse" /\ i' = 0
    BY <1>2 DEF Store, Returns
  <2>3. pos' = pos + 1 /\ stream' = stream /\ pc = "read" /\ i <= pos
    BY <1>0, <1>2 DEF Store, Arrived, peer, Reading
  <2>. HIDE DEF r
  <2>4. pos' - (i + 1) = pos - i
    BY <1>0, <2>3
  <2>5. ASSUME req' = r, i' = i + 1, pc' = pc, NEW k \in 1..i'
        PROVE  req'[k] = stream'[pos' - i' + k] /\ req'[k] # Eol
    BY <2>1, <2>3, <2>4, <2>5
  <2>6. req' = r /\ i' = i + 1 /\ pc' = pc => i' <= pos'
    BY <1>0, <2>3
  <2>. QED  BY <2>2, <2>3, <2>5, <2>6 DEF Reading
<1>3. CASE EndOfLine \/ HalfLine \/ Fails
  BY <1>0, <1>3 DEF EndOfLine, HalfLine, Fails, Returns, Reading
<1>4. CASE \/ NoData \/ Parse \/ Runaway \/ Run \/ UNCHANGED vars
           \/ \E how \in {"eof", "error"} : Ends(how)
  BY <1>0, <1>4 DEF NoData, Parse, Runaway, Run, Ends, vars, peer, Reading, Drained
<1>5. CASE Tokenize
  <2>1. pc # "read" /\ pc' # "read" /\ i' = i
    BY <1>5 DEF Tokenize, InWord, EndWord, SkipBlank, NextWord, Tokenized, Within
  <2>. QED  BY <1>0, <2>1 DEF Reading
<1>. QED  BY <1>1, <1>2, <1>3, <1>4, <1>5 DEF Next, Serve

-----------------------------------------------------------------------------
(* The lines that have been returned.  What they are in a stream s that    *)
(* ended as e says, and which place is behind one.                         *)
End(l) == l.from + Len(l.text)

Whole(l, s, e) ==
  /\ End(l) <= Len(s) + 1
  /\ \A k \in 1..Len(l.text) : l.text[k] = s[l.from + k - 1]
  /\ \/ Len(l.text) = max
     \/ Len(l.text) < max /\ End(l) <= Len(s) /\ s[End(l)] = Eol
     \/ 0 < Len(l.text) /\ Len(l.text) < max /\ End(l) = Len(s) + 1 /\ e = "eof"

After(l, s) == IF Len(l.text) < max /\ End(l) <= Len(s) THEN End(l) + 1 ELSE End(l)

Chained(n) == lines[n].from = Behind(n - 1)

LEMMA LineParts ==
  ASSUME NEW l \in Lines
  PROVE  /\ l.from \in Nat \ {0} /\ Len(l.text) \in Nat /\ End(l) \in Nat \ {0}
         /\ l.text \in Seq(Bytes)
<1>1. l.from \in Nat \ {0} /\ l.text \in Seq(Bytes \ {Eol})
  BY DEF Lines
<1>2. l.text \in Seq(Bytes) /\ Len(l.text) \in Nat
  BY <1>1, SeqMonotonic
<1>. QED  BY <1>1, <1>2 DEF End

(* A piece of n elements of a sequence.                                    *)
LEMMA Piece ==
  ASSUME NEW S, NEW s, NEW m \in Int, NEW n \in Nat,
         \A k \in m..(m + n - 1) : s[k] \in S
  PROVE  /\ SubSeq(s, m, m + n - 1) \in Seq(S) /\ Len(SubSeq(s, m, m + n - 1)) = n
         /\ \A k \in 1..n : SubSeq(s, m, m + n - 1)[k] = s[m + k - 1]
<1>. DEFINE e == m + n - 1
<1>1. e \in Int /\ e - m + 1 = n /\ (m <= e \/ n = 0)
  OBVIOUS
<1>2. \A k \in m..e : s[k] \in S
  OBVIOUS
<1>. HIDE DEF e
<1>3. /\ SubSeq(s, m, e) \in Seq(S)
      /\ Len(SubSeq(s, m, e)) = IF m <= e THEN e - m + 1 ELSE 0
      /\ \A k \in 1..(e - m + 1) : SubSeq(s, m, e)[k] = s[m + k - 1]
  BY <1>1, <1>2, SubSeqProperties
<1>4. Len(SubSeq(s, m, e)) = n
  BY <1>1, <1>3
<1>. QED  BY <1>1, <1>3, <1>4 DEF e

LEMMA TextIs ==
  ASSUME NEW s \in Seq(Bytes), NEW l \in Lines, End(l) <= Len(s) + 1
  PROVE  l.text = SubSeq(s, l.from, End(l) - 1)
           <=> \A k \in 1..Len(l.text) : l.text[k] = s[l.from + k - 1]
<1>. DEFINE t == l.text
            m == l.from
            n == Len(t)
            u == SubSeq(s, m, m + n - 1)
<1>1. /\ t \in Seq(Bytes) /\ m \in Nat /\ m > 0 /\ n \in Nat /\ Len(t) = n
      /\ m \in Int /\ Len(s) \in Nat /\ m + n <= Len(s) + 1
  BY LineParts DEF End
<1>. HIDE DEF t, m, n
<1>2. \A k \in m..(m + n - 1) : s[k] \in Bytes
  <2>1. ASSUME NEW k \in m..(m + n - 1)
        PROVE  s[k] \in Bytes
    <3>1. k \in 1..Len(s)
      BY <1>1
    <3>. QED  BY <3>1, ElementOfSeq
  <2>. QED  BY <2>1
<1>3. /\ u \in Seq(Bytes) /\ Len(u) = n
      /\ \A k \in 1..n : u[k] = s[m + k - 1]
  BY <1>1, <1>2, Piece
<1>. HIDE DEF u
<1>4. t = u <=> \A k \in 1..n : t[k] = s[m + k - 1]
  <2>1. ASSUME \A k \in 1..n : t[k] = s[m + k - 1]
        PROVE  t = u
    <3>1. /\ t \in Seq(Bytes) /\ u \in Seq(Bytes)
          /\ Len(t) = Len(u) /\ \A k \in 1..Len(t) : t[k] = u[k]
      BY <1>1, <1>3, <2>1
    <3>2. \A v \in Seq(Bytes) :
            Len(t) = Len(v) /\ (\A k \in 1..Len(t) : t[k] = v[k]) => t = v
      BY <3>1, SeqEqual
    <3>. QED  BY <3>1, <3>2
  <2>2. ASSUME t = u
        PROVE  \A k \in 1..n : t[k] = s[m + k - 1]
    BY <1>3, <2>2
  <2>. QED  BY <2>1, <2>2
<1>5. End(l) - 1 = m + n - 1
  <2>1. End(l) = m + n
    BY DEF t, m, n, End
  <2>. QED  BY <1>1, <2>1
<1>6. u = SubSeq(s, l.from, End(l) - 1)
  BY <1>5 DEF m, u
<1>. QED  BY <1>4, <1>6 DEF t, m, n

LEMMA LineElement ==
  ASSUME NEW ls \in Seq(Lines)
  PROVE  /\ Len(ls) \in Nat /\ DOMAIN ls = 1..Len(ls)
         /\ \A n \in 1..Len(ls) : ls[n] \in Lines
<1>1. Len(ls) \in Nat /\ DOMAIN ls = 1..Len(ls)
  BY LenProperties
<1>2. \A n \in 1..Len(ls) : ls[n] \in Lines
  BY ElementOfSeq
<1>. QED  BY <1>1, <1>2

(* LinesAsSent in these terms.                                             *)
Sent ==
  /\ \A n \in 1..Len(lines) : Whole(lines[n], stream, ending) /\ Chained(n)
  /\ pc \in {"read", "done"} => pos - i + 1 = Behind(Len(lines))
  /\ pc = "done" => pos = Len(stream) /\ i = 0

LEMMA SentIs ==
  ASSUME stream \in Seq(Bytes), lines \in Seq(Lines)
  PROVE  LinesAsSent <=> Sent
<1>1. DOMAIN lines = 1..Len(lines) /\ \A n \in 1..Len(lines) : lines[n] \in Lines
  BY LineElement
<1>2. ASSUME NEW n \in 1..Len(lines)
      PROVE  (Whole(lines[n], stream, ending) /\ Chained(n))
               <=> LET l == lines[n]
                       end == l.from + Len(l.text)
                   IN
                   /\ l.from = Behind(n - 1) /\ end <= Len(stream) + 1
                   /\ l.text = SubSeq(stream, l.from, end - 1)
                   /\ \/ Len(l.text) = max
                      \/ Len(l.text) < max /\ end <= Len(stream) /\ stream[end] = Eol
                      \/ /\ 0 < Len(l.text) /\ Len(l.text) < max
                         /\ end = Len(stream) + 1 /\ ending = "eof"
  <2>1. lines[n] \in Lines
    BY <1>1
  <2>2. End(lines[n]) <= Len(stream) + 1 =>
          (lines[n].text = SubSeq(stream, lines[n].from, End(lines[n]) - 1)
             <=> \A k \in 1..Len(lines[n].text) :
                   lines[n].text[k] = stream[lines[n].from + k - 1])
    BY <2>1, TextIs
  <2>. QED  BY <2>2 DEF Whole, Chained, End
<1>. QED  BY <1>1, <1>2 DEF LinesAsSent, Sent

(* What the peer does next changes nothing of this.                        *)
Goes(s, e, t, f) ==
  /\ s \in Seq(Bytes) /\ t \in Seq(Bytes)
  /\ \/ t = s /\ f = e
     \/ /\ e = "open" /\ Len(s) <= Len(t)
        /\ \A k \in 1..Len(s) : t[k] = s[k]

LEMMA WholeStays ==
  ASSUME NEW s, NEW e, NEW t, NEW f, Goes(s, e, t, f), NEW l \in Lines, Whole(l, s, e)
  PROVE  Whole(l, t, f) /\ After(l, t) = After(l, s)
<1>1. CASE t = s /\ f = e
  BY <1>1
<1>2. CASE /\ e = "open" /\ Len(s) <= Len(t)
           /\ \A k \in 1..Len(s) : t[k] = s[k]
  <2>1. /\ l.from \in Nat \ {0} /\ Len(l.text) \in Nat
        /\ End(l) = l.from + Len(l.text) /\ Len(s) \in Nat /\ Len(t) \in Nat
        /\ max \in Nat
    BY LineParts, BoundsOK DEF End, Goes, BoundsOK
  <2>2. /\ End(l) <= Len(s) + 1
        /\ \/ Len(l.text) = max
           \/ Len(l.text) < max /\ End(l) <= Len(s) /\ s[End(l)] = Eol
    BY <1>2 DEF Whole
  <2>3. ASSUME NEW k \in 1..Len(l.text)
        PROVE  l.text[k] = t[l.from + k - 1]
    <3>1. l.from + k - 1 \in 1..Len(s)
      BY <2>1, <2>2
    <3>. QED  BY <1>2, <3>1 DEF Whole
  <2>4. \/ Len(l.text) = max
        \/ Len(l.text) < max /\ End(l) <= Len(t) /\ t[End(l)] = Eol
    BY <1>2, <2>1, <2>2
  <2>5. End(l) <= Len(t) + 1 /\ (Len(l.text) < max => End(l) <= Len(s))
    BY <1>2, <2>1, <2>2
  <2>6. After(l, t) = After(l, s)
    BY <1>2, <2>1, <2>5 DEF After
  <2>. QED  BY <2>3, <2>4, <2>5, <2>6 DEF Whole
<1>. QED  BY <1>1, <1>2 DEF Goes

LEMMA BehindIs ==
  /\ Behind(0) = 1
  /\ \A n \in Nat \ {0} : Behind(n) = After(lines[n], stream)
BY DEF Behind, After, End

LEMMA BehindIsNext ==
  /\ Behind(0)' = 1
  /\ \A n \in Nat \ {0} : Behind(n)' = After(lines'[n], stream')
BY DEF Behind, After, End

LEMMA SentStays ==
  ASSUME Sent, Goes(stream, ending, stream', ending'),
         lines \in Seq(Lines), \A n \in 1..Len(lines) : lines'[n] = lines[n]
  PROVE  /\ \A n \in 0..Len(lines) : Behind(n)' = Behind(n)
         /\ \A n \in 1..Len(lines) : Whole(lines'[n], stream', ending') /\ Chained(n)'
<1>1. Len(lines) \in Nat /\ \A n \in 1..Len(lines) : lines[n] \in Lines
  BY LineElement
<1>2. ASSUME NEW n \in 1..Len(lines)
      PROVE  /\ Whole(lines'[n], stream', ending')
             /\ After(lines'[n], stream') = After(lines[n], stream)
  <2>1. lines[n] \in Lines /\ Whole(lines[n], stream, ending) /\ lines'[n] = lines[n]
    BY <1>1 DEF Sent
  <2>. QED  BY <2>1, WholeStays
<1>3. ASSUME NEW n \in 0..Len(lines)
      PROVE  Behind(n)' = Behind(n)
  <2>1. CASE n = 0
    BY <2>1, BehindIs, BehindIsNext
  <2>2. CASE n # 0
    <3>1. n \in 1..Len(lines) /\ n \in Nat \ {0}
      BY <1>1, <2>2
    <3>. QED  BY <1>2, <3>1, BehindIs, BehindIsNext
  <2>. QED  BY <2>1, <2>2
<1>4. ASSUME NEW n \in 1..Len(lines)
      PROVE  Chained(n)'
  <2>1. n - 1 \in 0..Len(lines)
    BY <1>1
  <2>2. lines[n].from = Behind(n - 1) /\ Behind(n - 1)' = Behind(n - 1)
    BY <1>3, <2>1 DEF Sent, Chained
  <2>. QED  BY <2>2 DEF Chained
<1>. QED  BY <1>2, <1>3, <1>4

(* A line is added that begins where the last one ends.                    *)
LEMMA LineAdded ==
  ASSUME TypeOK, Sent, UNCHANGED peer,
         NEW l \in Lines, lines' = Append(lines, l), pc' = "parse",
         Whole(l, stream, ending), l.from = Behind(Len(lines)),
         pos' + 1 = After(l, stream)
  PROVE  Sent' /\ Reached'
<1>0. /\ stream' = stream /\ ending' = ending /\ stream \in Seq(Bytes)
      /\ lines \in Seq(Lines) /\ Len(lines) \in Nat
  BY LineElement DEF peer, TypeOK
<1>1. /\ Len(lines') = Len(lines) + 1 /\ lines'[Len(lines) + 1] = l
      /\ \A n \in 1..Len(lines) : lines'[n] = lines[n]
  BY <1>0
<1>2. /\ \A n \in 0..Len(lines) : Behind(n)' = Behind(n)
      /\ \A n \in 1..Len(lines) : Whole(lines'[n], stream', ending') /\ Chained(n)'
  <2>1. Goes(stream, ending, stream', ending')
    BY <1>0 DEF Goes
  <2>. QED  BY <1>0, <1>1, <2>1, SentStays
<1>3. Whole(lines'[Len(lines) + 1], stream', ending')
  BY <1>0, <1>1
<1>4. \A n \in Nat : n = Len(lines) + 1 => Chained(n)'
  <2>1. Len(lines) + 1 - 1 = Len(lines) /\ Len(lines) \in 0..Len(lines)
    BY <1>0
  <2>2. ASSUME NEW n \in Nat, n = Len(lines) + 1
        PROVE  Chained(n)'
    <3>1. n - 1 = Len(lines) /\ n - 1 \in 0..Len(lines)
      BY <2>1, <2>2
    <3>2. Behind(n - 1)' = Behind(n - 1)
      BY <1>2, <3>1
    <3>. QED  BY <1>1, <2>2, <3>1, <3>2 DEF Chained
  <2>. QED  BY <2>2
<1>5. ASSUME NEW n \in 1..Len(lines')
      PROVE  Whole(lines'[n], stream', ending') /\ Chained(n)'
  <2>1. CASE n \in 1..Len(lines)
    BY <1>2, <2>1
  <2>2. CASE n = Len(lines) + 1
    BY <1>0, <1>3, <1>4, <2>2
  <2>. QED  BY <1>0, <1>1, <1>5, <2>1, <2>2
<1>6. \A n \in Nat : n = Len(lines') => Behind(n)' = pos' + 1
  BY <1>0, <1>1, BehindIsNext
<1>7. Behind(Len(lines))' = pos' + 1
  <2>1. PICK n \in Nat : n = Len(lines')
    BY <1>0, <1>1
  <2>2. Behind(n)' = pos' + 1
    BY <1>6, <2>1
  <2>. QED  BY <2>1, <2>2 DEF Behind
<1>. QED  BY <1>5, <1>7 DEF Sent, Reached

(* No line is added.                                                       *)
LEMMA NoneAdded ==
  ASSUME TypeOK, Sent, UNCHANGED lines, Goes(stream, ending, stream', ending')
  PROVE  /\ \A n \in 1..Len(lines') : Whole(lines'[n], stream', ending') /\ Chained(n)'
         /\ Behind(Len(lines))' = Behind(Len(lines))
<1>0. lines' = lines /\ lines \in Seq(Lines) /\ Len(lines) \in Nat
  BY LineElement DEF TypeOK
<1>1. /\ \A n \in 0..Len(lines) : Behind(n)' = Behind(n)
      /\ \A n \in 1..Len(lines) : Whole(lines'[n], stream', ending') /\ Chained(n)'
  BY <1>0, SentStays
<1>2. Behind(Len(lines))' = Behind(Len(lines))
  <2>1. PICK n \in Nat : n = Len(lines)
    BY <1>0
  <2>2. Behind(n)' = Behind(n)
    BY <1>0, <1>1, <2>1
  <2>. QED  BY <1>0, <2>1, <2>2 DEF Behind
<1>. QED  BY <1>0, <1>1, <1>2

LEMMA PeerGoes ==
  ASSUME TypeOK, [Next]_vars
  PROVE  Goes(stream, ending, stream', ending')
<1>0. stream \in Seq(Bytes)
  BY DEF TypeOK
<1>1. ASSUME NEW b \in Bytes, Sends(b)
      PROVE  Goes(stream, ending, stream', ending')
  BY <1>0, <1>1 DEF Sends, Goes
<1>2. ASSUME NEW how, Ends(how)
      PROVE  Goes(stream, ending, stream', ending')
  BY <1>0, <1>2 DEF Ends, Goes
<1>3. ASSUME UNCHANGED peer
      PROVE  Goes(stream, ending, stream', ending')
  BY <1>0, <1>3 DEF peer, Goes
<1>4. Serve \/ UNCHANGED vars => UNCHANGED peer
  BY DEF vars, Serve, Store, EndOfLine, HalfLine, NoData, Fails, Parse, Runaway, Tokenize,
       InWord, EndWord, SkipBlank, NextWord, Tokenized, Run
<1>. QED  BY <1>1, <1>2, <1>3, <1>4 DEF Next

LEMMA StoreSent ==
  ASSUME TypeOK, Reading, Sent, Reached, Store
  PROVE  Sent' /\ Reached'
<1>0. /\ pc = "read" /\ pos' = pos + 1 /\ UNCHANGED peer
      /\ max \in Nat \ {0} /\ i \in Nat /\ i < max /\ pos \in Nat /\ Len(stream) \in Nat
      /\ pos < Len(stream) /\ i <= pos
      /\ pos - i + 1 = Behind(Len(lines))
  BY BoundsOK DEF BoundsOK, TypeOK, Store, Arrived, Reading, Sent
<1>. DEFINE r == [req EXCEPT ![i + 1] = tmp]
<1>1. /\ r \in Buffers
      /\ i <= pos /\ pos - i + (i + 1) <= Len(stream)
      /\ \A k \in 1..(i + 1) : r[k] = stream[pos - i + k] /\ r[k] # Eol
  BY StoreHolds
<1>2. \/ i + 1 < max /\ i' = i + 1 /\ UNCHANGED <<pc, lines>>
      \/ i + 1 = max /\ Returns(r, max)
  BY <1>0 DEF Store
<1>. HIDE DEF r
<1>3. CASE i + 1 < max /\ i' = i + 1 /\ UNCHANGED <<pc, lines>>
  <2>1. Goes(stream, ending, stream', ending')
    BY <1>0 DEF TypeOK, peer, Goes
  <2>2. /\ \A n \in 1..Len(lines') : Whole(lines'[n], stream', ending') /\ Chained(n)'
        /\ Behind(Len(lines))' = Behind(Len(lines))
    BY <1>3, <2>1, NoneAdded
  <2>3. pos' - i' + 1 = pos - i + 1 /\ pc' = "read"
    BY <1>0, <1>3
  <2>. QED  BY <1>0, <2>2, <2>3 DEF Sent, Reached
<1>4. CASE i + 1 = max /\ Returns(r, max)
  <2>1. Holds(r, max)
    BY <1>0, <1>1, <1>4 DEF Holds
  <2>2. PICK l \in Lines :
          /\ lines' = Append(lines, l)
          /\ l.from = pos - i + 1 /\ Len(l.text) = max
          /\ \A k \in 1..max : l.text[k] = stream[l.from + k - 1]
    BY <1>4, <2>1, ReturnsLine
  <2>3. End(l) = pos + 2
    BY <1>0, <1>4, <2>2 DEF End
  <2>4. Whole(l, stream, ending)
    BY <1>0, <2>2, <2>3 DEF Whole
  <2>5. pos' + 1 = After(l, stream)
    BY <1>0, <2>2, <2>3 DEF After
  <2>6. pc' = "parse"
    BY <1>4 DEF Returns
  <2>. QED  BY <1>0, <2>2, <2>4, <2>5, <2>6, LineAdded
<1>. QED  BY <1>2, <1>3, <1>4

LEMMA LineEndSent ==
  ASSUME TypeOK, Reading, Sent, EndOfLine \/ HalfLine
  PROVE  Sent' /\ Reached'
<1>0. /\ pc = "read" /\ UNCHANGED peer
      /\ max \in Nat \ {0} /\ i \in Nat /\ i < max /\ pos \in Nat /\ Len(stream) \in Nat
      /\ i <= pos /\ pos - i + 1 = Behind(Len(lines))
  BY BoundsOK DEF BoundsOK, TypeOK, EndOfLine, HalfLine, Arrived, Drained, Reading, Sent
<1>1. Holds(req, i) /\ Returns(req, i)
  BY LineHolds
<1>2. PICK l \in Lines :
        /\ lines' = Append(lines, l)
        /\ l.from = pos - i + 1 /\ Len(l.text) = i
        /\ \A k \in 1..i : l.text[k] = stream[l.from + k - 1]
  BY <1>1, ReturnsLine
<1>3. End(l) = pos + 1 /\ pc' = "parse"
  BY <1>0, <1>1, <1>2 DEF End, Returns
<1>4. Whole(l, stream, ending) /\ pos' + 1 = After(l, stream)
  <2>1. CASE EndOfLine
    <3>1. pos < Len(stream) /\ stream[pos + 1] = Eol /\ pos' = pos + 1
      BY <1>0, <2>1 DEF EndOfLine, Arrived, tmp, TypeOK
    <3>. QED  BY <1>0, <1>2, <1>3, <3>1 DEF Whole, After
  <2>2. CASE HalfLine
    <3>1. pos = Len(stream) /\ ending = "eof" /\ 0 < i /\ pos' = pos
      BY <1>0, <2>2 DEF HalfLine, Drained
    <3>. QED  BY <1>0, <1>2, <1>3, <3>1 DEF Whole, After
  <2>. QED  BY <2>1, <2>2
<1>. QED  BY <1>0, <1>2, <1>3, <1>4, LineAdded

LEMMA SentNext ==
  ASSUME LineInv, [Next]_vars
  PROVE  Sent' /\ Reached'
<1>0. /\ TypeOK /\ Reading /\ Reached /\ Sent
      /\ Goes(stream, ending, stream', ending')
  <2>1. TypeOK /\ Reading /\ Reached /\ LinesAsSent
    BY DEF LineInv
  <2>2. stream \in Seq(Bytes) /\ lines \in Seq(Lines)
    BY <2>1 DEF TypeOK
  <2>. QED  BY <2>1, <2>2, SentIs, PeerGoes
<1>1. ASSUME UNCHANGED lines
      PROVE  /\ \A n \in 1..Len(lines') : Whole(lines'[n], stream', ending') /\ Chained(n)'
             /\ Behind(Len(lines))' = Behind(Len(lines))
  BY <1>0, <1>1, NoneAdded
<1>2. CASE (\E b \in Bytes : Sends(b)) \/ (\E how \in {"eof", "error"} : Ends(how))
  <2>1. /\ UNCHANGED <<lines, pc, pos, i>> /\ ending = "open"
    BY <1>2 DEF Sends, Ends
  <2>2. pc # "done" /\ pc' # "done"
    BY <1>0, <2>1 DEF Reached
  <2>. QED  BY <1>0, <1>1, <2>1, <2>2 DEF Sent, Reached
<1>3. CASE NoData \/ Fails
  <2>1. UNCHANGED <<lines, pos, stream, ending>> /\ pc = "read" /\ pos = Len(stream)
    BY <1>3 DEF NoData, Fails, Drained, peer
  <2>2. \/ ending = "eof" /\ i = 0 /\ pc' = "done" /\ i' = i
        \/ ending = "error" /\ pc' = "parse"
    BY <1>3 DEF NoData, Fails
  <2>. QED  BY <1>0, <1>1, <2>1, <2>2 DEF Sent, Reached
<1>4. CASE Parse \/ Runaway \/ Tokenize
  <2>1. /\ UNCHANGED <<lines, pos, ending>>
        /\ pc \in {"parse", "cut", "skip", "run"}
        /\ pc' \in {"parse", "cut", "skip", "run", "undefined"}
    BY <1>4 DEF Parse, Runaway, Tokenize, InWord, EndWord, SkipBlank, NextWord, Tokenized, Within, peer
  <2>. QED  BY <1>0, <1>1, <2>1 DEF Sent, Reached
<1>5. CASE Run
  <2>1. /\ UNCHANGED <<lines, pos, i, ending>> /\ pc = "run"
        /\ \/ ending # "error" /\ pc' = "read"
           \/ pc' = "killed"
    BY <1>5 DEF Run, peer
  <2>2. i = 0 /\ pos \in Nat
    BY <1>0, <2>1 DEF Reading, TypeOK
  <2>. QED  BY <1>0, <1>1, <2>1, <2>2 DEF Sent, Reached
<1>6. CASE UNCHANGED vars
  <2>1. UNCHANGED <<lines, pos, i, pc, ending, stream>>
    BY <1>6 DEF vars, peer
  <2>. QED  BY <1>0, <1>1, <2>1 DEF Sent, Reached
<1>. QED
  BY <1>0, <1>2, <1>3, <1>4, <1>5, <1>6, StoreSent, LineEndSent DEF Next, Serve

-----------------------------------------------------------------------------
(* The loop of str_tokenize.                                               *)
LEMMA CutTypes ==
  ASSUME TypeOK, Overwritten, Entered
  PROVE  /\ Len(line) \in Nat /\ Len(line) <= max /\ max \in Nat /\ at \in Nat
         /\ at > 0 /\ at <= Len(line) + 1 /\ num_tok \in Nat /\ num_tok > 0
         /\ req \in [1..(max + 1) -> Bytes]
         /\ \A k \in 1..Len(line) : line[k] \in Bytes /\ line[k] # Nul
         /\ num_tok <= TokRoom /\ TokRoom \in Nat
         /\ com_tok \in [1..TokRoom -> 0..max]
         /\ \A t \in 1..num_tok : com_tok[t] \in Nat /\ com_tok[t] <= at /\ com_tok[t] > 0
<1>1. line \in Seq(Bytes \ {Nul}) /\ Len(line) \in Nat
  BY DEF TypeOK, Text
<1>2. \A k \in 1..Len(line) : line[k] \in Bytes \ {Nul}
  BY <1>1, ElementOfSeq
<1>3. \A k \in 1..Len(line) : line[k] \in Bytes /\ line[k] # Nul
  BY <1>2
<1>4. /\ max \in Nat /\ TokRoom \in Nat /\ at \in Nat /\ at > 0 /\ at <= Len(line) + 1
      /\ num_tok \in Nat /\ num_tok > 0 /\ num_tok <= TokRoom
      /\ com_tok \in [1..TokRoom -> 0..max]
  BY BoundsOK, Half DEF BoundsOK, TypeOK, Overwritten, Entered
<1>5. ASSUME NEW t \in 1..num_tok
      PROVE  com_tok[t] \in Nat /\ com_tok[t] <= at /\ com_tok[t] > 0
  <2>1. com_tok[t] \in Nat /\ com_tok[t] <= at
    BY <1>4 DEF Entered
  <2>2. t = 1 \/ t \in 2..num_tok
    BY <1>4
  <2>. QED  BY <1>4, <2>1, <2>2 DEF Entered, WordStart
<1>6. req \in [1..(max + 1) -> Bytes] /\ Len(line) <= max
  BY DEF TypeOK, Buffers
<1>. QED  BY <1>1, <1>2, <1>3, <1>4, <1>5, <1>6

(* What was in req[at] is still there.                                     *)
LEMMA ByteAt ==
  ASSUME TypeOK, Overwritten, Entered, at <= Len(line)
  PROVE  req[at] = line[at]
<1>1. at \in 1..Len(line) /\ ~ (at < at)
  BY CutTypes
<1>. QED  BY <1>1 DEF Overwritten

(* A word entered at the place reached is not the first one.               *)
LEMMA EnteredAt ==
  ASSUME TypeOK, Overwritten, Entered, NEW t \in 1..num_tok, com_tok[t] = at
  PROVE  WordStart(line, at) \/ (at = 1 /\ num_tok = 1)
<1>1. CASE t = 1
  <2>1. at = 1
    BY <1>1 DEF Entered
  <2>2. \A u \in 2..num_tok : com_tok[u] > 1 /\ com_tok[u] <= at
    BY CutTypes DEF Entered, WordStart
  <2>3. num_tok = 1
    <3>1. /\ num_tok \in Nat /\ 1 <= num_tok
          /\ \A u \in 1..num_tok : com_tok[u] \in Nat
      BY CutTypes
    <3>. QED  BY <2>1, <2>2, <3>1
  <2>. QED  BY <2>1, <2>3
<1>2. CASE t # 1
  BY <1>2, CutTypes DEF Entered
<1>. QED  BY <1>1, <1>2

LEMMA InWordCuts ==
  ASSUME TypeOK, Overwritten, Entered, InTheWord, InWord
  PROVE  (Overwritten /\ Entered /\ InTheWord)'
<1>0. /\ UNCHANGED <<req, com_tok, num_tok, line>> /\ at' = at + 1 /\ at <= Len(line)
      /\ line[at] # Blank /\ at \in Nat
  BY ByteAt, CutTypes DEF InWord, Within
<1>1. Overwritten'
  BY <1>0, CutTypes DEF Overwritten, RunStart
<1>2. Entered'
  <2>1. WordStart(line, at) => com_tok[num_tok] = at /\ num_tok \in 2..num_tok
    <3>1. ASSUME WordStart(line, at)
          PROVE  com_tok[num_tok] = at /\ num_tok \in 2..num_tok
      <4>1. com_tok[num_tok] = at
        BY <3>1 DEF InTheWord, WordStart
      <4>2. num_tok # 1
        BY <3>1, <4>1 DEF Entered, WordStart
      <4>. QED  BY <4>1, <4>2, CutTypes
    <3>. QED  BY <3>1
  <2>2. ASSUME NEW k \in 1..at, WordStart(line, k)
        PROVE  \E t \in 2..num_tok : com_tok[t] = k
    <3>0. at \in Nat /\ num_tok \in Nat
      BY CutTypes
    <3>1. CASE k = at
      BY <2>1, <2>2, <3>1
    <3>2. CASE k # at
      <4>1. k \in 1..(at - 1)
        BY <3>0, <3>2
      <4>. QED  BY <2>2, <4>1 DEF Entered
    <3>. QED  BY <3>1, <3>2
  <2>3. (\A t \in 1..num_tok : com_tok[t] <= at + 1) /\ at + 1 - 1 = at
    BY CutTypes
  <2>4. /\ num_tok' > 0 /\ com_tok'[1] = 1
        /\ \A t \in 2..num_tok' : WordStart(line', com_tok'[t])
        /\ \A t, u \in 1..num_tok' : t < u => com_tok'[t] < com_tok'[u]
    BY <1>0 DEF Entered
  <2>5. \A t \in 1..num_tok' : com_tok'[t] <= at'
    BY <1>0, <2>3
  <2>6. \A k \in 1..(at' - 1) :
          WordStart(line', k) => \E t \in 2..num_tok' : com_tok'[t] = k
    BY <1>0, <2>2, <2>3
  <2>. QED  BY <2>4, <2>5, <2>6 DEF Entered
<1>3. InTheWord'
  <2>1. ASSUME NEW t \in 1..num_tok
        PROVE  \/ Stopped(line, com_tok[t], at + 1)
               \/ InWordOf(line, com_tok[t], at)
    <3>1. CASE Stopped(line, com_tok[t], at)
      BY <3>1, CutTypes DEF Stopped
    <3>2. CASE InWordOf(line, com_tok[t], at - 1)
      BY <1>0, <3>2, CutTypes DEF InWordOf
    <3>. QED  BY <3>1, <3>2 DEF InTheWord
  <2>2. 2 * num_tok <= at + 1 + 1
    BY CutTypes DEF InTheWord
  <2>3. at + 1 - 1 = at /\ com_tok[num_tok] # at + 1
    BY CutTypes
  <2>4. \A t \in 1..num_tok' :
          Stopped(line', com_tok'[t], at') \/ InWordOf(line', com_tok'[t], at' - 1)
    BY <1>0, <2>1, <2>3
  <2>5. /\ line'[at' - 1] # Blank
        /\ 2 * num_tok' <= at' + IF com_tok'[num_tok'] = at' THEN 2 ELSE 1
    BY <1>0, <2>2, <2>3
  <2>. QED  BY <2>4, <2>5 DEF InTheWord
<1>. QED  BY <1>1, <1>2, <1>3

(* A blank at the place reached begins no word.                            *)
LEMMA EnteredPast ==
  ASSUME TypeOK, Overwritten, Entered, line[at] = Blank, at <= Len(line),
         UNCHANGED <<com_tok, num_tok, line>>, at' = at + 1
  PROVE  Entered'
<1>0. at \in Nat /\ at + 1 - 1 = at /\ \A t \in 1..num_tok : com_tok[t] \in Nat
  BY CutTypes
<1>1. \A k \in 1..at : WordStart(line, k) => k \in 1..(at - 1)
  BY <1>0 DEF WordStart
<1>2. \A k \in 1..(at' - 1) :
        WordStart(line', k) => \E t \in 2..num_tok' : com_tok'[t] = k
  BY <1>0, <1>1 DEF Entered
<1>3. \A t \in 1..num_tok' : com_tok'[t] <= at'
  BY <1>0 DEF Entered
<1>4. /\ num_tok' > 0 /\ com_tok'[1] = 1
      /\ \A t \in 2..num_tok' : WordStart(line', com_tok'[t])
      /\ \A t, u \in 1..num_tok' : t < u => com_tok'[t] < com_tok'[u]
  BY DEF Entered
<1>. QED  BY <1>2, <1>3, <1>4 DEF Entered

LEMMA EndWordCuts ==
  ASSUME TypeOK, Overwritten, Entered, InTheWord, EndWord
  PROVE  (Overwritten /\ Entered /\ BetweenWords)'
<1>0. /\ UNCHANGED <<com_tok, num_tok, line>> /\ at' = at + 1 /\ at <= Len(line)
      /\ line[at] = Blank /\ req' = [req EXCEPT ![at] = Nul] /\ at \in Nat /\ at > 0
  BY ByteAt, CutTypes DEF EndWord, Within
<1>1. RunStart(line, at)
  BY <1>0 DEF InTheWord, WordStart, RunStart
<1>2. Overwritten'
  <2>1. Len(line) \in Nat /\ Len(line) <= max /\ max \in Nat
    BY CutTypes
  <2>2. req'[at] = Nul /\ \A k \in 1..(max + 1) : k # at => req'[k] = req[k]
    BY <1>0, CutTypes
  <2>3. req'[Len(line) + 1] = Nul
    BY <1>0, <2>1, <2>2 DEF Overwritten
  <2>4. ASSUME NEW k \in 1..Len(line)
        PROVE  req'[k] = IF k < at + 1 /\ RunStart(line, k) THEN Nul ELSE line[k]
    <3>1. CASE k = at
      BY <1>0, <1>1, <2>2, <3>1
    <3>2. CASE k # at
      <4>1. req'[k] = IF k < at /\ RunStart(line, k) THEN Nul ELSE line[k]
        BY <2>1, <2>2, <3>2 DEF Overwritten
      <4>2. k < at <=> k < at + 1
        BY <1>0, <3>2
      <4>. QED  BY <4>1, <4>2
    <3>. QED  BY <3>1, <3>2
  <2>. QED  BY <1>0, <2>1, <2>3, <2>4 DEF Overwritten
<1>3. Entered'
  BY <1>0, EnteredPast
<1>4. BetweenWords'
  <2>1. ASSUME NEW t \in 1..num_tok
        PROVE  Stopped(line, com_tok[t], at + 1) /\ com_tok[t] < at + 1
    <3>1. com_tok[t] \in Nat /\ com_tok[t] <= at
      BY CutTypes
    <3>2. CASE Stopped(line, com_tok[t], at)
      BY <1>0, <3>1, <3>2 DEF Stopped
    <3>3. CASE InWordOf(line, com_tok[t], at - 1)
      BY <1>0, <3>1, <3>3 DEF Stopped
    <3>. QED  BY <3>2, <3>3 DEF InTheWord
  <2>2. 2 * num_tok <= at + 1
    <3>1. CASE com_tok[num_tok] = at
      <4>1. ~ WordStart(line, at)
        BY <1>0 DEF WordStart
      <4>2. num_tok \in 1..num_tok
        BY CutTypes
      <4>3. at = 1 /\ num_tok = 1
        BY <3>1, <4>1, <4>2, EnteredAt
      <4>. QED  BY <4>3
    <3>2. CASE com_tok[num_tok] # at
      BY <3>2 DEF InTheWord
    <3>. QED  BY <3>1, <3>2
  <2>3. at' > 1 /\ line'[at' - 1] = Blank /\ 2 * num_tok' <= at'
    BY <1>0, <2>2
  <2>4. \A t \in 1..num_tok' : Stopped(line', com_tok'[t], at') /\ com_tok'[t] < at'
    BY <1>0, <2>1
  <2>. QED  BY <2>3, <2>4 DEF BetweenWords
<1>. QED  BY <1>2, <1>3, <1>4

LEMMA SkipBlankCuts ==
  ASSUME TypeOK, Overwritten, Entered, BetweenWords, SkipBlank
  PROVE  (Overwritten /\ Entered /\ BetweenWords)'
<1>0. /\ UNCHANGED <<req, com_tok, num_tok, line>> /\ at' = at + 1 /\ at <= Len(line)
      /\ line[at] = Blank /\ at \in Nat /\ at > 1 /\ line[at - 1] = Blank
      /\ Len(line) \in Nat /\ num_tok \in Nat
  BY ByteAt, CutTypes DEF SkipBlank, Within, BetweenWords
<1>1. ~ RunStart(line, at)
  BY <1>0 DEF RunStart
<1>2. Overwritten'
  <2>1. ASSUME NEW k \in 1..Len(line)
        PROVE  req[k] = IF k < at + 1 /\ RunStart(line, k) THEN Nul ELSE line[k]
    <3>1. CASE k = at
      BY <1>0, <1>1, <3>1 DEF Overwritten
    <3>2. CASE k # at
      <4>1. k < at <=> k < at + 1
        BY <1>0, <3>2
      <4>. QED  BY <4>1 DEF Overwritten
    <3>. QED  BY <3>1, <3>2
  <2>2. at + 1 <= Len(line) + 1 /\ req[Len(line) + 1] = Nul
    BY <1>0 DEF Overwritten
  <2>. QED  BY <1>0, <2>1, <2>2 DEF Overwritten
<1>3. Entered'
  BY <1>0, EnteredPast
<1>4. BetweenWords'
  <2>1. ASSUME NEW t \in 1..num_tok
        PROVE  Stopped(line, com_tok[t], at + 1) /\ com_tok[t] < at + 1
    <3>1. com_tok[t] \in Nat /\ Stopped(line, com_tok[t], at) /\ com_tok[t] < at
      BY CutTypes DEF BetweenWords
    <3>. QED  BY <1>0, <3>1 DEF Stopped
  <2>2. 2 * num_tok <= at + 1
    BY <1>0 DEF BetweenWords
  <2>3. at' > 1 /\ line'[at' - 1] = Blank /\ 2 * num_tok' <= at'
    BY <1>0, <2>2
  <2>4. \A t \in 1..num_tok' : Stopped(line', com_tok'[t], at') /\ com_tok'[t] < at'
    BY <1>0, <2>1
  <2>. QED  BY <2>3, <2>4 DEF BetweenWords
<1>. QED  BY <1>2, <1>3, <1>4

LEMMA NextWordCuts ==
  ASSUME TypeOK, Overwritten, Entered, BetweenWords, NextWord
  PROVE  (Overwritten /\ Entered /\ InTheWord)'
<1>0. /\ UNCHANGED <<req, at, line>> /\ at <= Len(line) /\ at \in Nat /\ num_tok \in Nat
      /\ line[at] # Blank /\ at > 1 /\ line[at - 1] = Blank
      /\ num_tok' = num_tok + 1 /\ com_tok' = [com_tok EXCEPT ![num_tok + 1] = at]
      /\ Len(line) \in Nat /\ num_tok > 0
  BY ByteAt, CutTypes DEF NextWord, Within, BetweenWords, Enter
<1>1. num_tok + 1 \in 1..TokRoom /\ 2 * (num_tok + 1) <= at + 2
  <2>1. 2 * num_tok <= max /\ max \in Nat
    BY <1>0, CutTypes DEF BetweenWords
  <2>2. num_tok < TokRoom
    BY <1>0, <2>1, Half
  <2>. QED  BY <1>0, <2>2, CutTypes DEF BetweenWords
<1>2. /\ com_tok'[num_tok + 1] = at
      /\ \A t \in 1..num_tok : com_tok'[t] = com_tok[t] /\ com_tok[t] < at
  <2>1. com_tok \in [1..TokRoom -> 0..max] /\ num_tok <= TokRoom /\ TokRoom \in Nat
    BY CutTypes
  <2>. QED  BY <1>0, <1>1, <2>1 DEF BetweenWords
<1>3. WordStart(line, at)
  BY <1>0 DEF WordStart
<1>4. Overwritten'
  BY <1>0 DEF Overwritten
<1>5. Entered'
  <2>1. num_tok' > 0 /\ com_tok'[1] = 1
    BY <1>0, <1>2 DEF Entered
  <2>2. ASSUME NEW t \in 1..num_tok'
        PROVE  /\ com_tok'[t] <= at'
               /\ t > 1 => WordStart(line', com_tok'[t])
    <3>1. CASE t = num_tok + 1
      BY <1>0, <1>2, <1>3, <3>1
    <3>2. CASE t # num_tok + 1
      <4>1. t \in 1..num_tok /\ (t > 1 => t \in 2..num_tok)
        BY <1>0, <3>2
      <4>2. com_tok[t] \in Nat
        BY <4>1, CutTypes
      <4>. QED  BY <1>0, <1>2, <4>1, <4>2 DEF Entered
    <3>. QED  BY <3>1, <3>2
  <2>3. \A k \in 1..(at' - 1) :
          WordStart(line', k) => \E t \in 2..num_tok' : com_tok'[t] = k
    BY <1>0, <1>2 DEF Entered
  <2>4. ASSUME NEW t \in 1..num_tok', NEW u \in 1..num_tok', t < u
        PROVE  com_tok'[t] < com_tok'[u]
    <3>1. t \in 1..num_tok
      BY <1>0, <2>4
    <3>2. CASE u = num_tok + 1
      BY <1>2, <3>1, <3>2
    <3>3. CASE u # num_tok + 1
      <4>1. u \in 1..num_tok
        BY <1>0, <3>3
      <4>. QED  BY <1>2, <2>4, <3>1, <4>1 DEF Entered
    <3>. QED  BY <3>2, <3>3
  <2>5. \A t \in 2..num_tok' : WordStart(line', com_tok'[t])
    BY <1>0, <2>2
  <2>. QED  BY <2>1, <2>2, <2>3, <2>4, <2>5 DEF Entered
<1>6. InTheWord'
  <2>1. ASSUME NEW t \in 1..num_tok'
        PROVE  Stopped(line', com_tok'[t], at') \/ InWordOf(line', com_tok'[t], at' - 1)
    <3>1. CASE t = num_tok + 1
      BY <1>0, <1>2, <3>1 DEF InWordOf
    <3>2. CASE t # num_tok + 1
      <4>1. t \in 1..num_tok
        BY <1>0, <3>2
      <4>. QED  BY <1>0, <1>2, <4>1 DEF BetweenWords
    <3>. QED  BY <3>1, <3>2
  <2>2. com_tok'[num_tok'] = at' /\ WordStart(line', at')
    BY <1>0, <1>2, <1>3
  <2>3. 2 * num_tok' <= at' + 2
    BY <1>0, <1>1
  <2>. QED  BY <2>1, <2>2, <2>3 DEF InTheWord
<1>. QED  BY <1>4, <1>5, <1>6

LEMMA TokenizedCuts ==
  ASSUME TypeOK, Overwritten, Entered, InTheWord \/ BetweenWords, Tokenized
  PROVE  (Overwritten /\ Entered /\ AtTheEnd)'
<1>0. /\ UNCHANGED <<req, at, com_tok, num_tok, line>> /\ at = Len(line) + 1 /\ at \in Nat
      /\ num_tok \in Nat /\ num_tok \in 1..num_tok /\ Len(line) \in Nat
  BY CutTypes DEF Tokenized, tokens
<1>1. Overwritten' /\ Entered'
  BY <1>0 DEF Overwritten, Entered
<1>2. 2 * num_tok <= Len(line) + 2
  <2>1. CASE InTheWord
    <3>1. CASE com_tok[num_tok] = at
      <4>1. ~ WordStart(line, at)
        BY <1>0 DEF WordStart
      <4>2. num_tok = 1
        BY <1>0, <3>1, <4>1, EnteredAt
      <4>. QED  BY <1>0, <4>2
    <3>2. CASE com_tok[num_tok] # at
      BY <1>0, <2>1, <3>2 DEF InTheWord
    <3>. QED  BY <3>1, <3>2
  <2>2. CASE BetweenWords
    BY <1>0, <2>2 DEF BetweenWords
  <2>. QED  BY <2>1, <2>2
<1>3. \A t \in 1..num_tok' :
        Stopped(line', com_tok'[t], at') \/ InWordOf(line', com_tok'[t], at' - 1)
  BY <1>0 DEF InTheWord, BetweenWords
<1>4. at' = Len(line') + 1 /\ 2 * num_tok' <= Len(line') + 2
  BY <1>0, <1>2
<1>. QED  BY <1>1, <1>3, <1>4 DEF AtTheEnd

LEMMA ParseCuts ==
  ASSUME TypeOK, TokensFit, Parse
  PROVE  (Overwritten /\ Entered /\ InTheWord)'
<1>0. /\ at' = 1 /\ num_tok' = 1 /\ UNCHANGED req
      /\ com_tok' = [com_tok EXCEPT ![1] = 1]
  BY DEF Parse
<1>1. com_tok'[1] = 1
  <2>1. 1 \in 1..TokRoom
    BY Half
  <2>. QED  BY <1>0, <2>1 DEF TypeOK
<1>2. EndsAt(req, 1, Len(line') + 1) /\ \A k \in 1..Len(line') : line'[k] = req[k]
  BY ParseNext
<1>3. Len(line') \in Nat
  BY ParseNext DEF TokenType, Text
<1>4. Overwritten'
  <2>1. at' <= Len(line') + 1 /\ req'[Len(line') + 1] = Nul
    BY <1>0, <1>2, <1>3 DEF EndsAt
  <2>2. \A k \in 1..Len(line') :
          req'[k] = IF k < at' /\ RunStart(line', k) THEN Nul ELSE line'[k]
    BY <1>0, <1>2, <1>3
  <2>. QED  BY <2>1, <2>2 DEF Overwritten
<1>5. Entered'
  BY <1>0, <1>1 DEF Entered
<1>6. InTheWord'
  BY <1>0, <1>1 DEF InTheWord, InWordOf
<1>. QED  BY <1>4, <1>5, <1>6

LEMMA CuttingNext ==
  ASSUME LineInv, [Next]_vars
  PROVE  Cutting'
<1>0. TypeOK /\ TokensFit /\ Cutting
  BY DEF LineInv
<1>1. CASE \/ Store \/ EndOfLine \/ HalfLine \/ NoData \/ Fails \/ Runaway \/ Run
  <2>1. pc' \notin {"cut", "skip", "run"}
    BY <1>1 DEF Store, EndOfLine, HalfLine, NoData, Fails, Runaway, Run, Returns, Arrived
  <2>. QED  BY <2>1 DEF Cutting
<1>2. CASE \/ \E b \in Bytes : Sends(b)
           \/ \E how \in {"eof", "error"} : Ends(how)
           \/ UNCHANGED vars
  <2>1. UNCHANGED <<pc, req, at, com_tok, num_tok, line>>
    BY <1>2 DEF Sends, Ends, vars, tokens
  <2>. QED
    BY <1>0, <2>1 DEF Cutting, Overwritten, Entered, InTheWord, BetweenWords, AtTheEnd
<1>3. CASE Parse
  <2>1. pc' = "cut"
    BY <1>3 DEF Parse
  <2>. QED  BY <1>0, <1>3, <2>1, ParseCuts DEF Cutting
<1>4. CASE InWord
  <2>1. pc = "cut" /\ pc' = "cut"
    BY <1>4 DEF InWord, Within
  <2>. QED  BY <1>0, <1>4, <2>1, InWordCuts DEF Cutting
<1>5. CASE EndWord
  <2>1. pc = "cut" /\ pc' = "skip"
    BY <1>5 DEF EndWord, Within
  <2>. QED  BY <1>0, <1>5, <2>1, EndWordCuts DEF Cutting
<1>6. CASE SkipBlank
  <2>1. pc = "skip" /\ pc' = "skip"
    BY <1>6 DEF SkipBlank, Within
  <2>. QED  BY <1>0, <1>6, <2>1, SkipBlankCuts DEF Cutting
<1>7. CASE NextWord
  <2>1. pc = "skip" /\ pc' = "cut"
    BY <1>7 DEF NextWord, Within
  <2>. QED  BY <1>0, <1>7, <2>1, NextWordCuts DEF Cutting
<1>8. CASE Tokenized
  <2>1. pc \in {"cut", "skip"} /\ pc' = "run"
    BY <1>8 DEF Tokenized
  <2>. QED  BY <1>0, <1>8, <2>1, TokenizedCuts DEF Cutting
<1>. QED
  BY <1>1, <1>2, <1>3, <1>4, <1>5, <1>6, <1>7, <1>8 DEF Next, Serve, Tokenize

-----------------------------------------------------------------------------
(* The invariant holds in every state.                                     *)
LEMMA LineInit == Init => LineInv
<1>. SUFFICES ASSUME Init PROVE LineInv
  OBVIOUS
<1>0. max \in Nat \ {0} /\ req \in Buffers
  BY BoundsOK DEF BoundsOK, Init
<1>3. Parsable
  BY DEF Init, Parsable
<1>4. TypeOK
  <2>1. com_tok \in [1..TokRoom -> 0..max] /\ num_tok \in 0..TokRoom
    BY <1>0, Half DEF Init
  <2>2. stream \in Seq(Bytes) /\ Len(stream) = 0 /\ line \in Text /\ Len(line) = 0
        /\ lines \in Seq(Lines)
    BY DEF Init, Text
  <2>. QED  BY <1>0, <2>1, <2>2 DEF Init, TypeOK
<1>5. TokensFit
  BY Half DEF Init, TokensFit
<1>6. Reading
  BY DEF Init, Reading
<1>7. LinesAsSent /\ Reached
  <2>1. Len(lines) = 0 /\ DOMAIN lines = {}
    BY DEF Init
  <2>2. Behind(Len(lines)) = 1
    BY <2>1 DEF Behind
  <2>. QED  BY <2>1, <2>2 DEF Init, LinesAsSent, Reached
<1>8. Cutting
  BY DEF Init, Cutting
<1>. QED  BY <1>3, <1>4, <1>5, <1>6, <1>7, <1>8 DEF LineInv

LEMMA LineStep == LineInv /\ [Next]_vars => LineInv'
<1>. SUFFICES ASSUME LineInv, [Next]_vars PROVE LineInv'
  OBVIOUS
<1>1. (TypeOK /\ TokensFit /\ Parsable)'
  BY TypeNext
<1>2. LinesAsSent' /\ Reached'
  <2>1. stream' \in Seq(Bytes) /\ lines' \in Seq(Lines)
    BY <1>1 DEF TypeOK
  <2>2. (stream \in Seq(Bytes) /\ lines \in Seq(Lines) => (LinesAsSent <=> Sent))'
    BY SentIs, PTL
  <2>. QED  BY <2>1, <2>2, SentNext
<1>. QED  BY <1>1, <1>2, ReadingNext, CuttingNext DEF LineInv

(* What readline has stored, what it has returned and how far str_tokenize *)
(* has come are right in every state.                                      *)
THEOREM LineInvHolds == Spec => []LineInv
BY LineInit, LineStep, PTL DEF Spec

(* The counters and the places of the tokens stay in their ranges, so      *)
(* readline never writes behind max bytes and a NUL (tcp-utils.cc:129-147);*)
(* and whatever the buffer held before, the string in it ends inside it    *)
(* unless the connection has failed (ciserv.cc:119-134).                   *)
THEOREM TypeCorrect == Spec => []TypeOK
<1>1. LineInv => TypeOK
  BY DEF LineInv
<1>. QED  BY <1>1, LineInvHolds, PTL

(* Lines arrive whole, in order and once each, whatever their length and   *)
(* the buffer's, and however the stream ends (tcp-utils.cc:125-147).       *)
THEOREM LinesArrive == Spec => []LinesAsSent
<1>1. LineInv => LinesAsSent
  BY DEF LineInv
<1>. QED  BY <1>1, LineInvHolds, PTL

(* str_tokenize never writes behind the end of com_tok (tokenize.cc:20,    *)
(* ciserv.cc:53), although nobody tells it how long that is.               *)
THEOREM TokensAlwaysFit == Spec => []TokensFit
<1>1. LineInv => TokensFit
  BY DEF LineInv
<1>. QED  BY <1>1, LineInvHolds, PTL

-----------------------------------------------------------------------------
(* The word that begins at a place str_tokenize has entered.               *)
LEMMA WordAt ==
  ASSUME TypeOK, Overwritten, Entered, AtTheEnd, NEW t \in 1..num_tok
  PROVE  \E end \in com_tok[t]..(Len(line) + 1) :
           /\ CString(req, com_tok[t]) = SubSeq(line, com_tok[t], end - 1)
           /\ \A m \in com_tok[t]..(end - 1) : line[m] # Blank
           /\ end = Len(line) + 1 \/ line[end] = Blank
<1>. DEFINE k == com_tok[t]
<1>0. /\ k \in Nat /\ k > 0 /\ k <= at /\ at = Len(line) + 1 /\ Len(line) \in Nat
      /\ Len(line) <= max /\ max \in Nat /\ req \in Buffers
      /\ line \in Seq(Bytes \ {Nul})
      /\ k = 1 \/ WordStart(line, k)
  <2>1. t = 1 \/ t \in 2..num_tok
    BY CutTypes
  <2>2. k = 1 \/ WordStart(line, k)
    BY <2>1 DEF Entered
  <2>. QED  BY <2>2, CutTypes DEF AtTheEnd, TypeOK, Text
<1>. HIDE DEF k
<1>1. PICK end \in k..(Len(line) + 1) :
        /\ InWordOf(line, k, end - 1)
        /\ \/ end = Len(line) + 1
           \/ end <= Len(line) /\ line[end] = Blank
  <2>1. CASE Stopped(line, k, at)
    <3>1. PICK e \in k..(at - 1) : line[e] = Blank /\ InWordOf(line, k, e - 1)
      BY <2>1 DEF Stopped
    <3>2. e \in k..(Len(line) + 1) /\ e <= Len(line)
      BY <1>0
    <3>. QED  BY <3>1, <3>2
  <2>2. CASE InWordOf(line, k, at - 1)
    BY <1>0, <2>2
  <2>. QED  BY <2>1, <2>2 DEF AtTheEnd, k
<1>2. req[end] = Nul
  <2>1. CASE end = Len(line) + 1
    BY <2>1 DEF Overwritten
  <2>2. CASE end <= Len(line) /\ line[end] = Blank
    <3>1. end > 1 => line[end - 1] # Blank
      <4>1. CASE end = k
        BY <1>0, <2>2, <4>1 DEF WordStart
      <4>2. CASE end # k
        <5>1. end - 1 \in k..(end - 1)
          BY <1>0, <4>2
        <5>. QED  BY <1>1, <5>1 DEF InWordOf
      <4>. QED  BY <4>1, <4>2
    <3>2. end \in 1..Len(line) /\ end < at
      BY <1>0, <2>2
    <3>3. RunStart(line, end)
      BY <2>2, <3>1 DEF RunStart
    <3>. QED  BY <3>2, <3>3 DEF Overwritten
  <2>. QED  BY <1>1, <2>1, <2>2
<1>3. ASSUME NEW m \in k..(end - 1)
      PROVE  m \in 1..Len(line) /\ line[m] # Blank /\ req[m] = line[m] /\ req[m] # Nul
  <2>1. m \in 1..Len(line)
    BY <1>0
  <2>2. line[m] # Blank
    BY <1>1 DEF InWordOf
  <2>3. req[m] = line[m]
    BY <2>1, <2>2 DEF Overwritten, RunStart
  <2>. QED  BY <2>1, <2>2, <2>3, CutTypes
<1>4. EndsAt(req, k, end)
  BY <1>2, <1>3 DEF EndsAt
<1>5. /\ k \in 1..(max + 1) /\ end \in k..(max + 1)
      /\ end - k \in Nat /\ k \in Int /\ end - 1 \in Int
  BY <1>0
<1>6. /\ CString(req, k) \in Text /\ Len(CString(req, k)) = end - k
      /\ \A m \in 1..(end - k) : CString(req, k)[m] = req[k + m - 1]
  BY <1>0, <1>4, <1>5, CStringIs
<1>7. CString(req, k) = SubSeq(line, k, end - 1)
  <2>. DEFINE u == SubSeq(line, k, end - 1)
  <2>1. \A m \in k..(end - 1) : line[m] \in Bytes \ {Nul}
    BY <1>0, <1>3, ElementOfSeq
  <2>2. /\ u \in Seq(Bytes \ {Nul})
        /\ Len(u) = IF k <= end - 1 THEN end - 1 - k + 1 ELSE 0
        /\ \A m \in 1..(end - 1 - k + 1) : u[m] = line[k + m - 1]
    BY <1>5, <2>1, SubSeqProperties
  <2>. HIDE DEF u
  <2>3. Len(u) = end - k /\ end - 1 - k + 1 = end - k
    BY <1>0, <2>2
  <2>4. \A m \in 1..(end - k) : CString(req, k)[m] = u[m]
    <3>1. ASSUME NEW m \in 1..(end - k)
          PROVE  CString(req, k)[m] = u[m]
      <4>1. k + m - 1 \in k..(end - 1)
        BY <1>0
      <4>. QED  BY <1>3, <1>6, <2>2, <2>3, <4>1
    <3>. QED  BY <3>1
  <2>5. CString(req, k) \in Seq(Bytes \ {Nul})
    BY <1>6 DEF Text
  <2>6. CString(req, k) = u
    BY <1>6, <2>2, <2>3, <2>4, <2>5, SeqEqual
  <2>. QED  BY <2>6 DEF u
<1>. QED  BY <1>1, <1>3, <1>7 DEF k

(* A command is run with the words of its own line, in their order, and    *)
(* each of them ends where the word ends (tokenize.cc:8-29).               *)
THEOREM TokensAreTheWords == Spec => []TokensAreWords
<1>1. LineInv => TokensAreWords
  <2>. SUFFICES ASSUME LineInv, pc = "run"
                PROVE  /\ {com_tok[t] : t \in 1..num_tok} = WordStarts
                       /\ \A t, u \in 1..num_tok : t < u => com_tok[t] < com_tok[u]
                       /\ \A k \in WordStarts : \E end \in k..(Len(line) + 1) :
                            /\ CString(req, k) = SubSeq(line, k, end - 1)
                            /\ \A m \in k..(end - 1) : line[m] # Blank
                            /\ end = Len(line) + 1 \/ line[end] = Blank
    BY DEF TokensAreWords
  <2>1. TypeOK /\ Overwritten /\ Entered /\ AtTheEnd
    BY DEF LineInv, Cutting
  <2>2. ASSUME NEW t \in 1..num_tok
        PROVE  com_tok[t] \in WordStarts
    <3>1. t = 1 \/ t \in 2..num_tok
      BY <2>1, CutTypes
    <3>. QED  BY <2>1, <3>1 DEF Entered, WordStart, WordStarts
  <2>3. ASSUME NEW k \in WordStarts
        PROVE  \E t \in 1..num_tok : com_tok[t] = k
    <3>0. num_tok \in Nat /\ num_tok > 0 /\ Len(line) \in Nat
      BY <2>1, CutTypes
    <3>1. CASE k = 1
      BY <2>1, <3>0, <3>1 DEF Entered
    <3>2. CASE k # 1
      <4>1. WordStart(line, k) /\ k \in 1..(at - 1)
        BY <2>1, <3>0, <3>2 DEF WordStarts, WordStart, AtTheEnd
      <4>2. PICK t \in 2..num_tok : com_tok[t] = k
        BY <2>1, <4>1 DEF Entered
      <4>. QED  BY <3>0, <4>2
    <3>. QED  BY <3>1, <3>2
  <2>4. {com_tok[t] : t \in 1..num_tok} = WordStarts
    BY <2>2, <2>3
  <2>5. \A t, u \in 1..num_tok : t < u => com_tok[t] < com_tok[u]
    BY <2>1 DEF Entered
  <2>6. ASSUME NEW k \in WordStarts
        PROVE  \E end \in k..(Len(line) + 1) :
                 /\ CString(req, k) = SubSeq(line, k, end - 1)
                 /\ \A m \in k..(end - 1) : line[m] # Blank
                 /\ end = Len(line) + 1 \/ line[end] = Blank
    <3>1. PICK t \in 1..num_tok : com_tok[t] = k
      BY <2>3
    <3>. QED  BY <2>1, <3>1, WordAt
  <2>. QED  BY <2>4, <2>5, <2>6
<1>. QED  BY <1>1, LineInvHolds, PTL
=============================================================================
