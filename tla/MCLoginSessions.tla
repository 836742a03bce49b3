--------------------------- MODULE MCLoginSessions ---------------------------
(***************************************************************************)
(* LoginSessions with two requests at a time, the first of which find no   *)
(* settings row, two sessions that live one tick of two, an API token, and *)
(* the default password and another one.                                   *)
(***************************************************************************)
EXTENDS LoginSessions, TLC

\* Puma's threads are interchangeable, and so are random tokens.
Symmetric == Permutations(Threads) \union Permutations(Tokens)
=============================================================================
