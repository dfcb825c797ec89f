------------------------- MODULE MCConsoleAccounts -------------------------
(* Two usernames and two requests at once; a session is idle after two     *)
(* ticks and over after three.                                             *)
EXTENDS ConsoleAccounts, TLC

CONSTANTS u1, u2, r1, r2

Alike == Permutations(Requests) \cup Permutations(Users)
=============================================================================
