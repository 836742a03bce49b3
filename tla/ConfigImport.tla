---------------------------- MODULE ConfigImport ----------------------------
(***************************************************************************)
(* What the import from the Go version promises to those who look at the   *)
(* tables, whatever happens to the task on its way: config.json comes in   *)
(* at once; it gives a row only to keys it names, with what it says of     *)
(* them, keeps every row it finds but those it always replaces, and leaves *)
(* no assignment to a group that is not there.  Lines of events.jsonl come *)
(* after it.  Migration implements it.                                     *)
(***************************************************************************)
CONSTANTS
  Keys,      \* of rows
  From,      \* the values that the file gives each key, {} for one it does not name
  Replaced,  \* keys whose rows are replaced every time
  Free,      \* values of an assignment that name no group
  Mine,      \* what a user writes
  NoRow

VARIABLES
  db,        \* the rows
  imported,  \* config.json has been imported
  events     \* lines of events.jsonl that have been

tables == <<db, imported, events>>

Init == db = [k \in Keys |-> NoRow] /\ ~ imported /\ events = {}

Comes(k) ==
  IF From[k] # {} /\ (db[k] = NoRow \/ k \in Replaced)
    THEN db'[k] \in From[k]
    ELSE db'[k] = db[k]

\* The group of an assignment that has come is there.
HasGroup(k) ==
  k[1] = "vm_assignments" /\ db'[k] # db[k] =>
    db'[k] \in Free \/ <<"groups", db'[k]>> \in {g \in Keys : db'[g] # NoRow}

Import ==
  /\ imported' /\ UNCHANGED events
  /\ DOMAIN db' = Keys
  /\ \A k \in Keys : Comes(k) /\ HasGroup(k)

Log(line) ==
  /\ imported
  /\ events' = events \union {line}
  /\ UNCHANGED <<db, imported>>

\* The user's own additions, edits and deletions
Write(k, x) ==
  /\ db' = [db EXCEPT ![k] = x]
  /\ UNCHANGED <<imported, events>>

Next ==
  \/ \E k \in Keys : Write(k, Mine) \/ Write(k, NoRow)
  \/ \E line \in events' : Log(line)
  \/ Import

Spec == Init /\ [][Next]_tables
=============================================================================
