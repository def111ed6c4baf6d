---------------------------- MODULE MCTServShell ----------------------------
EXTENDS TServShellProps, TLC

CONSTANTS c1, c2

(* c1 may reset its connection, and its thread then take any line for read. *)
SentMix == c1 :> {"bg"} @@ c2 :> {"bad", "CPRINT", "CPRINTF", "empty"}

SentFlood == c1 :> {"bad"} @@ c2 :> {"flood"}

SentBad == c1 :> {"bad"} @@ c2 :> {"bad"}

Bounded == mishaps = {}

Alike == Permutations(Threads)
=============================================================================
