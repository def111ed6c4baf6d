----------------------------- MODULE ClientLine -----------------------------
(***************************************************************************)
(* What a poll server promises about its clients: they stand in a line in  *)
(* the order in which they were accepted, each once; one who leaves makes  *)
(* the others move up.  No descriptors, no array, no poll.                 *)
(***************************************************************************)
EXTENDS Naturals, SequencesExt

CONSTANTS Clients, Room       \* Room: how many may stand in the line

VARIABLE line

Join(c) == /\ Len(line) < Room
           /\ ~Contains(line, c)
           /\ line' = Append(line, c)

Leave(n) == line' = RemoveAt(line, n)

Dismiss == line' = <<>>

Init == line = <<>>

Next == \/ \E c \in Clients : Join(c)
        \/ \E n \in DOMAIN line : Leave(n)
        \/ Dismiss

Spec == Init /\ [][Next]_line
=============================================================================
