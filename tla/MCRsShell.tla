------------------------------ MODULE MCRsShell ------------------------------
EXTENDS RsShellProps, TLC

(* Some processes are given every command, the others a few.               *)
CONSTANTS Ample, Commands, Few
MCTyped == [p \in Procs |-> IF p \in Ample THEN Commands ELSE Few]

CONSTANTS Many, One
MCMaxAsked == [p \in Procs |-> IF p \in Ample THEN Many ELSE One]

Alike == Permutations(Conns) \cup Permutations(Spares)
=============================================================================
