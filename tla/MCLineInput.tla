----------------------------- MODULE MCLineInput -----------------------------
EXTENDS LineInputProps

(* A buffer of zeros, one of letters, and the rest of an earlier text.     *)
CONSTANT Rest
MCJunk ==
  {[k \in 1..(max + 1) |-> Nul], [k \in 1..(max + 1) |-> Rest],
   [k \in 1..(max + 1) |-> IF k = 2 THEN Blank ELSE IF k = max THEN Nul ELSE Rest]}
=============================================================================
