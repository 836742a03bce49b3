------------------------- MODULE MCTerminalSessions -------------------------
(***************************************************************************)
(* TerminalSessions on a small instance.  The sessions bound how often a   *)
(* shell is opened; restarts are not bounded (they come back to states     *)
(* already seen).                                                          *)
(***************************************************************************)
EXTENDS TerminalSessions, TLC

\* Threads, sessions and VMs are interchangeable in the safety runs.
Symmetric == Permutations(Threads) \union Permutations(SessionIds)
=============================================================================
