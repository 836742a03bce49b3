------------------------------ MODULE Migration ------------------------------
(***************************************************************************)
(* rails db:migrate_from_go_config (lib/tasks/migrate_from_go.rake): the   *)
(* import of the Go version's config.json, in one transaction, and then of *)
(* its events.jsonl, line by line without one.  The task may crash or stop *)
(* on a record the models refuse, and is then run again, while the web     *)
(* application goes on and its user edits what was imported.               *)
(***************************************************************************)
EXTENDS Naturals, Sequences

CONSTANTS
  Config,   \* the records of config.json in the order of the task, each with
            \* its table, id, value, and the rows a unique name clashes with
  Logs,     \* what events.jsonl may be: sequences of lines "event", "blank",
            \* "skipped" (no JSON, or refused by a validation) and "null" (a
            \* column that may not be null is)
  Refused,  \* what may be wrong with the file: a set of sets of indices of
            \* records that a validation refuses
  Own,      \* keys of rows that the web application may add
  Mine,     \* a value that the user gave a row
  Ungrouped,\* an assignment without a group
  Marked,   \* an assignment that marks a template
  MaxRuns,  \* a bound: runs of the task
  NoRow

Key(r) == <<r.table, r.id>>
RowKeys == {Key(Config[i]) : i \in DOMAIN Config} \union Own
Values == {Config[i].value : i \in DOMAIN Config} \union {Mine, Ungrouped, Marked}

ASSUME ConfigOK ==
  /\ MaxRuns \in Nat
  /\ Config \in Seq({Config[i] : i \in DOMAIN Config})
  /\ Logs \subseteq Seq({"event", "blank", "skipped", "null"})
  /\ NoRow \notin Values \union [RowKeys -> Values \union {NoRow}]
  /\ \A i \in DOMAIN Config : Config[i].value # Mine /\ Config[i].clash \subseteq RowKeys

\* Tables with one row, which every run writes
Singletons == {"settings", "vm_defaults"}

\* Tables the web application has forms for; tokens are minted and revoked only.
Edited == Singletons \union {"profiles", "schedules", "webhooks"}
Listed == {"profiles", "schedules", "webhooks", "api_tokens"}

VARIABLES
  db,        \* the committed rows: a value for every key, or NoRow
  tx,        \* the rows as the open transaction sees them, or NoRow
  events,    \* lines of events.jsonl with a row in events
  refused,   \* the records of config.json that are refused
  lines,     \* events.jsonl
  step,      \* "idle", "config" (in the transaction) or "events"
  at,        \* the record or the line that comes next
  runs,      \* runs started
  committed, \* history: a transaction was committed
  removed,   \* history: keys of rows the user deleted
  said       \* history: a run ended with "Migration complete"

files == <<refused, lines>>
task == <<step, at, runs>>
past == <<committed, removed, said>>
importVars == <<db, tx, events, files, task, past>>

ImportTypeOK ==
  /\ db \in [RowKeys -> Values \union {NoRow}]
  /\ tx \in [RowKeys -> Values \union {NoRow}] \union {NoRow}
  /\ tx # NoRow <=> step = "config"
  /\ events \subseteq DOMAIN lines
  /\ refused \in Refused /\ lines \in Logs
  /\ step \in {"idle", "config", "events"}
  /\ step = "config" => at \in 1 .. Len(Config) + 1
  /\ step = "events" => at \in 1 .. Len(lines) + 1
  /\ runs \in 0 .. MaxRuns
  /\ committed \in BOOLEAN /\ removed \subseteq RowKeys /\ said \in BOOLEAN

ImportInit ==
  /\ db = [k \in RowKeys |-> NoRow]
  /\ tx = NoRow
  /\ events = {}
  /\ refused \in Refused /\ lines \in Logs
  /\ step = "idle" /\ at = 1 /\ runs = 0
  /\ committed = FALSE /\ removed = {} /\ said = FALSE

-----------------------------------------------------------------------------
(* The transaction.                                                        *)

\* config.json is read and the transaction begins.
Start ==
  /\ step = "idle" /\ runs < MaxRuns
  /\ step' = "config" /\ at' = 1 /\ runs' = runs + 1
  /\ tx' = db
  /\ UNCHANGED <<db, events, files, past>>

\* Mutant: the group is not looked up.
Created_AnyGroup(r) == r.value

\* What a created row holds; the group of an assignment is looked up by name.
Created(r) ==
  IF r.table # "vm_assignments" \/ r.value = Marked THEN r.value
  ELSE IF <<"groups", r.value>> \in {k \in RowKeys : tx[k] # NoRow} THEN r.value
  ELSE Ungrouped

\* Mutant: a row that is there is updated, too.
Imported_Update(r) == Created(r)

\* find_or_create_by!, or the update! of the only row
Imported(r) ==
  IF r.table \in Singletons \/ tx[Key(r)] = NoRow THEN Created(r) ELSE tx[Key(r)]

\* A refused record raises where it is written, and so does a taken name.
Raises(i) ==
  LET r == Config[i] IN
  /\ r.table \in Singletons \/ tx[Key(r)] = NoRow
  /\ i \in refused \/ \E k \in r.clash : tx[k] # NoRow

ImportRecord ==
  /\ step = "config" /\ at <= Len(Config)
  /\ ~ Raises(at)
  /\ tx' = [tx EXCEPT ![Key(Config[at])] = Imported(Config[at])]
  /\ at' = at + 1
  /\ UNCHANGED <<db, events, files, step, runs, past>>

\* Mutant: no transaction around the import.
Undone_Not == IF step = "config" THEN tx ELSE db

Undone == db

\* The exception leaves the transaction and ends the task; so does a crash,
\* between any two statements.
RollBack ==
  /\ step = "config" /\ at <= Len(Config)
  /\ Raises(at)
  /\ step' = "idle" /\ tx' = NoRow
  /\ db' = Undone
  /\ UNCHANGED <<events, files, at, runs, past>>

Crash ==
  /\ step # "idle"
  /\ step' = "idle" /\ tx' = NoRow
  /\ db' = Undone
  /\ UNCHANGED <<events, files, at, runs, past>>

Commit ==
  /\ step = "config" /\ at = Len(Config) + 1
  /\ db' = tx
  /\ tx' = NoRow
  /\ step' = "events" /\ at' = 1
  /\ committed' = TRUE
  /\ UNCHANGED <<events, files, runs, removed, said>>

-----------------------------------------------------------------------------
(* The events.                                                             *)

\* Mutant: the line after a skipped one is skipped, too.
AfterSkip_Two == at + 2

\* Mutant: the first skipped line ends the import.
AfterSkip_Break == Len(lines) + 1

AfterSkip == at + 1

\* Event.find_or_create_by!
ImportLine ==
  /\ step = "events" /\ at <= Len(lines)
  /\ lines[at] = "event"
  /\ events' = events \union {at}
  /\ at' = at + 1
  /\ UNCHANGED <<db, tx, files, step, runs, past>>

\* next, or the rescue inside the loop
SkipLine ==
  /\ step = "events" /\ at <= Len(lines)
  /\ lines[at] \in {"blank", "skipped"}
  /\ at' = AfterSkip
  /\ UNCHANGED <<db, tx, events, files, step, runs, past>>

\* NotNullViolation is not rescued: the task ends here.
LineAborts ==
  /\ step = "events" /\ at <= Len(lines)
  /\ lines[at] = "null"
  /\ step' = "idle"
  /\ UNCHANGED <<db, tx, events, files, at, runs, past>>

\* "Migration complete."
Finish ==
  /\ step = "events" /\ at = Len(lines) + 1
  /\ step' = "idle"
  /\ said' = TRUE
  /\ UNCHANGED <<db, tx, events, files, at, runs, committed, removed>>

-----------------------------------------------------------------------------
(* The web application, whose writes wait while a transaction is open.     *)

\* create, with an id_slug of its own, or the first || create! of the settings
AddRow(k) ==
  /\ tx = NoRow /\ k \in Own /\ db[k] = NoRow
  /\ db' = [db EXCEPT ![k] = Mine]
  /\ UNCHANGED <<tx, events, files, task, past>>

\* update
SaveRow(k) ==
  /\ tx = NoRow /\ k[1] \in Edited /\ db[k] # NoRow
  /\ db' = [db EXCEPT ![k] = Mine]
  /\ UNCHANGED <<tx, events, files, task, past>>

\* destroy
RemoveRow(k) ==
  /\ tx = NoRow /\ k[1] \in Listed /\ db[k] # NoRow
  /\ db' = [db EXCEPT ![k] = NoRow]
  /\ removed' = removed \union {k}
  /\ UNCHANGED <<tx, events, files, task, committed, said>>

Task ==
  \/ Start \/ ImportRecord \/ RollBack \/ Commit
  \/ ImportLine \/ SkipLine \/ LineAborts \/ Finish

ImportNext ==
  \/ Task
  \/ Crash
  \/ \E k \in RowKeys : AddRow(k) \/ SaveRow(k) \/ RemoveRow(k)

ImportSpec == ImportInit /\ [][ImportNext]_importVars

-----------------------------------------------------------------------------
(* Properties.                                                             *)

Wanted == {i \in DOMAIN lines : lines[i] = "event"}

\* config.json is imported as a whole or not at all, whatever crashes and
\* refused records come between: rows it names are there for all of them (but
\* what the user deleted), or none holds a value that came from it.
AllOrNothing ==
  IF committed
    THEN \A i \in DOMAIN Config : db[Key(Config[i])] # NoRow \/ Key(Config[i]) \in removed
    ELSE \A k \in RowKeys : db[k] \in {NoRow, Mine}

\* Another run keeps what the user did to rows since: it writes no row that is
\* there, except the settings and the defaults.
EditsKept ==
  [][\A k \in RowKeys :
       db[k] = Mine /\ k[1] \notin Singletons => db'[k] \in {Mine, NoRow}]_importVars

\* A run that ends with "Migration complete" leaves nothing behind: the config
\* is in, and every usable line of events.jsonl, those after a skipped one and
\* those an earlier run had imported before it crashed included.
CompleteIsComplete ==
  said => committed /\ Wanted \subseteq events

-----------------------------------------------------------------------------
(* What others see of the import.                                          *)

\* What config.json says of a key; an assignment may lose its group.
Offered ==
  [k \in RowKeys |->
     LET named == {i \in DOMAIN Config : Key(Config[i]) = k}
     IN {Config[i].value : i \in named}
          \union {u \in {Ungrouped} : /\ k[1] = "vm_assignments"
                                      /\ \E i \in named : Config[i].value # Marked}]

Single == {k \in RowKeys : k[1] \in Singletons}

Promise == INSTANCE ConfigImport
  WITH Keys <- RowKeys, From <- Offered, Replaced <- Single,
       Free <- {Ungrouped, Marked}, imported <- committed

\* The transaction comes in as one step, which keeps the rows it finds and
\* leaves no assignment without its group; everything else the task does, its
\* crashes and refused records included, is not seen, or logs a line.
ImportsAtOnce == Promise!Spec
=============================================================================
