---------------------------- MODULE SessionLedger ----------------------------
(***************************************************************************)
(* What the session registry promises, whatever threads do in between: an  *)
(* id is opened at most once, a session that ended never comes back to     *)
(* life, an id taken off the list never returns to it, and a restart of    *)
(* the server leaves nothing listed and nothing alive.  TerminalSessions   *)
(* implements it.                                                          *)
(***************************************************************************)
CONSTANT Ids

VARIABLES
  opened,  \* ids that were ever opened
  listed,  \* ids a client can find
  over     \* sessions that have ended

ledger == <<opened, listed, over>>

Init == opened = {} /\ listed = {} /\ over = {}

Open(s) ==
  /\ s \notin opened
  /\ opened' = opened \union {s}
  /\ listed' = listed \union {s}
  /\ UNCHANGED over

End(s) ==
  /\ s \in opened \ over
  /\ over' = over \union {s}
  /\ UNCHANGED <<opened, listed>>

Remove(s) ==
  /\ s \in listed
  /\ listed' = listed \ {s}
  /\ UNCHANGED <<opened, over>>

Restart ==
  /\ listed' = {}
  /\ over' = opened
  /\ UNCHANGED opened

Next ==
  \/ \E s \in Ids : Open(s) \/ End(s) \/ Remove(s)
  \/ Restart

Spec == Init /\ [][Next]_ledger
=============================================================================
