-------------------------- MODULE MCTerminalStream --------------------------
(***************************************************************************)
(* TerminalStream on a small instance: the cap is passed by the last chunk *)
(* the shell may print, and a tab may leave and return without a bound.    *)
(***************************************************************************)
EXTENDS TerminalStream, TLC

\* Browser tabs are interchangeable.
Symmetric == Permutations(Clients)
=============================================================================
