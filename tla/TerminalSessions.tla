-------------------------- MODULE TerminalSessions --------------------------
(***************************************************************************)
(* The life of the PTY shell sessions that Puma keeps in its memory        *)
(* (app/services/terminals/session.rb): the process-global SESSIONS hash,  *)
(* the SESSIONS_MUTEX that guards it, the request threads that open, list, *)
(* attach to and kill sessions (shell_sessions_controller.rb and           *)
(* VmsController#console), each session's reader thread, and the job that  *)
(* reaps idle sessions (reap_idle_sessions_job.rb).                        *)
(*                                                                         *)
(* A step is the code between two points where another thread can run: a   *)
(* lock, a system call, or the end of a request.  What a session prints is *)
(* the business of TerminalStream; here only the facts of it that end a    *)
(* session appear.                                                         *)
(***************************************************************************)
EXTENDS Naturals, FiniteSets

CONSTANTS
  VMs,          \* names of the VMs multipass knows
  SessionIds,   \* the values SecureRandom.hex(16) returns, each used once
  Threads,      \* Puma's request threads
  Reaper,       \* the thread that runs Terminals::ReapIdleSessionsJob
  Nobody,       \* SESSIONS_MUTEX is not held
  None,         \* Ruby's nil: no VM, no session
  ReaperInPuma  \* the job runs in the process that owns the sessions.  No
                \* configuration of the repository does so: bin/jobs is a
                \* process of its own, and so is what the Puma plugin of
                \* Solid Queue forks.  TRUE adds the reaper's steps, as a
                \* console's perform_now or an async queue would

ASSUME ConstantsOK ==
  /\ IsFiniteSet(SessionIds)
  /\ Reaper \notin Threads
  /\ Nobody \notin Threads \union {Reaper}
  /\ None \notin VMs \union SessionIds
  /\ ReaperInPuma \in BOOLEAN

VARIABLES
  SESSIONS,  \* the ids in the SESSIONS hash of the Puma process
  order,     \* insertion order of the hash; 0 for an id never inserted
  mutex,     \* the thread that holds SESSIONS_MUTEX, or Nobody
  vm,        \* @vm_name; None while the id has not been used
  closed,    \* @closed
  master,    \* @master, the PTY's controlling side; only a start or a kill
             \* under way sees @slave, which goes the same way
  shell,     \* the spawned process; "none" is @pid = nil, "termed" a process
             \* whose group was sent TERM, "late" a running one whose @pid
             \* was not there yet when kill looked for it
  reader,    \* @reader_thread; "crashed" is ended by an error of its own
  expired,   \* listed sessions created more than IDLE_TTL ago
  pc,        \* where each thread is
  at,        \* the session each thread works on
  via,       \* the request each thread serves
  audit,     \* the Event rows about shells: <<action, session>>
  cursor     \* the reaper's position in SESSIONS.each

session == <<vm, closed, master, shell, reader>>
registry == <<SESSIONS, order, mutex>>
control == <<pc, at, via>>
vars == <<registry, session, expired, control, audit, cursor>>

Workers == Threads \union {Reaper}

IO == {"nil", "open", "closed"}

Steps == {"idle", "register", "pty", "spawn", "reader",
          "lock", "kill", "close", "next", "delete", "error"}

TypeOK ==
  /\ SESSIONS \subseteq SessionIds
  /\ order \in [SessionIds -> Nat]
  /\ mutex \in Workers \union {Nobody}
  /\ vm \in [SessionIds -> VMs \union {None}]
  /\ closed \in [SessionIds -> BOOLEAN]
  /\ master \in [SessionIds -> IO]
  /\ shell \in [SessionIds -> {"none", "running", "late", "termed", "exited"}]
  /\ reader \in [SessionIds -> {"none", "running", "crashed", "dead"}]
  /\ expired \subseteq SessionIds
  /\ pc \in [Workers -> Steps]
  /\ at \in [Workers -> SessionIds \union {None}]
  /\ via \in [Workers -> {"none", "create", "console", "destroy"}]
  /\ audit \subseteq {"open_shell", "close_shell"} \X SessionIds
  /\ cursor \in Nat

Init ==
  /\ SESSIONS = {}
  /\ order = [s \in SessionIds |-> 0]
  /\ mutex = Nobody
  /\ vm = [s \in SessionIds |-> None]
  /\ closed = [s \in SessionIds |-> FALSE]
  /\ master = [s \in SessionIds |-> "nil"]
  /\ shell = [s \in SessionIds |-> "none"]
  /\ reader = [s \in SessionIds |-> "none"]
  /\ expired = {}
  /\ pc = [t \in Workers |-> "idle"]
  /\ at = [t \in Workers |-> None]
  /\ via = [t \in Workers |-> "none"]
  /\ audit = {}
  /\ cursor = 0

-----------------------------------------------------------------------------
(* The mutex, the hash and @closed.                                        *)

MutexFree == mutex = Nobody

\* Mutant: an error path leaves the mutex locked.
Unlock_Forgotten == UNCHANGED mutex

Unlock == mutex' = Nobody

\* SESSIONS.delete(s)
Unlist(s) ==
  /\ SESSIONS' = SESSIONS \ {s}
  /\ expired' = expired \ {s}

\* Mutant: @closed = true is missing.
Close_Forgotten(s) == UNCHANGED closed

\* @closed = true
Close(s) == closed' = [closed EXCEPT ![s] = TRUE]

-----------------------------------------------------------------------------
(* Requests.  Puma's router and the login check leave no trace here.       *)

\* A thread has answered its request and goes back to the pool.
Finish(t) ==
  /\ pc' = [pc EXCEPT ![t] = "idle"]
  /\ at' = [at EXCEPT ![t] = None]
  /\ via' = [via EXCEPT ![t] = "none"]

\* A thread's request raised, and is to be answered with a 500.
Fail(t) ==
  /\ pc' = [pc EXCEPT ![t] = "error"]
  /\ at' = [at EXCEPT ![t] = None]
  /\ UNCHANGED via

\* A thread begins request r on session s at step l.
Begin(t, r, s, l) ==
  /\ pc' = [pc EXCEPT ![t] = l]
  /\ at' = [at EXCEPT ![t] = s]
  /\ via' = [via EXCEPT ![t] = r]

\* The 500 is written.
Respond(t) ==
  /\ pc[t] = "error"
  /\ Finish(t)
  /\ UNCHANGED <<registry, session, expired, audit, cursor>>

\* A thread goes on with step l of its request.
Goto(t, l) ==
  /\ pc' = [pc EXCEPT ![t] = l]
  /\ UNCHANGED via

\* Mutant: the id is not random, and comes back once it is off the list.
Fresh_Unlisted(s) == s \notin SESSIONS

Fresh(s) == vm[s] = None

\* Session.new under a fresh SecureRandom.hex(16)
NewSession(t, r, v) ==
  \E s \in SessionIds :
    /\ Fresh(s)
    /\ vm' = [vm EXCEPT ![s] = v]
    /\ Begin(t, r, s, "register")

\* POST /vms/:name/shell_sessions, past require_running_vm: a VM that multipass
\* info, asked now, does not call Running gets a 409, and nothing changes.
CreateRequest(t, v) ==
  /\ pc[t] = "idle"
  /\ NewSession(t, "create", v)
  /\ UNCHANGED <<registry, closed, master, shell, reader, expired, audit,
                 cursor>>

\* GET /vms/:name/console, whatever the state of the VM, when for_vm finds no
\* session: else it attaches to the oldest one, and nothing changes.
ConsoleRequest(t, v) ==
  /\ pc[t] = "idle"
  /\ MutexFree
  /\ ~ \E s \in SESSIONS : vm[s] = v
  /\ NewSession(t, "console", v)
  /\ UNCHANGED <<registry, closed, master, shell, reader, expired, audit,
                 cursor>>

\* DELETE /vms/:name/shell_sessions/:id for an id that was listed once
DestroyRequest(t, s) ==
  /\ pc[t] = "idle"
  /\ order[s] > 0
  /\ Begin(t, "destroy", s, "lock")
  /\ UNCHANGED <<registry, session, expired, audit, cursor>>

-----------------------------------------------------------------------------
(* Session.open and Session#start.                                         *)

\* The reaper is inside SESSIONS.each of this process, where Ruby refuses
\* new keys.
Iterating == ReaperInPuma /\ pc[Reaper] # "idle"

\* Every session is inserted once, so counting them numbers them.
NextOrder == 1 + Cardinality({s \in SessionIds : order[s] > 0})

\* SESSIONS_MUTEX.synchronize { SESSIONS[session_id] = sess }
Register(t) ==
  /\ pc[t] = "register"
  /\ MutexFree
  /\ \/ /\ ~ Iterating
        /\ SESSIONS' = SESSIONS \union {at[t]}
        /\ order' = [order EXCEPT ![at[t]] = NextOrder]
        /\ Goto(t, "pty")
        /\ UNCHANGED at
     \/ /\ Iterating
        /\ Fail(t)
        /\ UNCHANGED <<SESSIONS, order>>
  /\ UNCHANGED <<mutex, session, expired, audit, cursor>>

\* PTY.open; a failure is answered with a 500 and leaves the entry behind.
PtyOpen(t) ==
  /\ pc[t] = "pty"
  /\ \/ /\ master' = [master EXCEPT ![at[t]] = "open"]
        /\ Goto(t, "spawn")
        /\ UNCHANGED at
     \/ /\ Fail(t)
        /\ UNCHANGED master
  /\ UNCHANGED <<registry, vm, closed, shell, reader,
                 expired, audit, cursor>>

\* @pid = spawn("multipass", "shell", ...) on the slave side, up to the
\* assignment.  A kill may come in between: before the call it closes @slave,
\* and spawn raises; during the call it finds no @pid.
Spawn(t) ==
  /\ pc[t] = "spawn"
  /\ \/ /\ shell' = [shell EXCEPT ![at[t]] =
                       IF closed[at[t]] THEN "late" ELSE "running"]
        /\ Goto(t, "reader")
        /\ UNCHANGED at
     \/ /\ Fail(t)
        /\ UNCHANGED shell
  /\ UNCHANGED <<registry, vm, closed, master, reader,
                 expired, audit, cursor>>

\* @slave.close, the reader's Thread.new, and the end of the request; only
\* the create action writes an Event.
StartReader(t) ==
  /\ pc[t] = "reader"
  /\ reader' = [reader EXCEPT ![at[t]] = "running"]
  /\ audit' = IF via[t] = "create"
                THEN audit \union {<<"open_shell", at[t]>>} ELSE audit
  /\ Finish(t)
  /\ UNCHANGED <<registry, vm, closed, master, shell,
                 expired, cursor>>

-----------------------------------------------------------------------------
(* Session.kill and Session#kill.                                          *)

\* Mutant: a session that has ended is not found.
Found_OnlyOpen(s) == s \in SESSIONS /\ ~ closed[s]

Found(s) == s \in SESSIONS

\* SESSIONS_MUTEX.synchronize { SESSIONS.delete(session_id)&.kill }: the
\* mutex stays held while the session is killed.
KillLock(t) ==
  /\ pc[t] = "lock"
  /\ MutexFree
  /\ \/ /\ Found(at[t])
        /\ mutex' = t
        /\ Unlist(at[t])
        /\ Goto(t, "kill")
        /\ UNCHANGED <<at, audit>>
     \/ /\ ~ Found(at[t])
        /\ audit' = audit \union {<<"close_shell", at[t]>>}
        /\ Finish(t)
        /\ UNCHANGED <<mutex, SESSIONS, expired>>
  /\ UNCHANGED <<order, session, cursor>>

\* Mutant: only a session whose reader runs is taken to have a shell.
Signalled_OnlyRead(s) ==
  ~ closed[s] /\ shell[s] = "running" /\ reader[s] = "running"

\* Process.kill("TERM", -@pid) if @pid, past the early return
Signalled(s) == ~ closed[s] /\ shell[s] = "running"

\* Up to the ensure: nothing at all when @closed, else the reader is killed
\* and TERM sent to the process group if there is a pid.
KillBody(t) ==
  /\ pc[t] = "kill"
  /\ Goto(t, "close")
  /\ Close(at[t])
  /\ reader' = IF ~ closed[at[t]] /\ reader[at[t]] = "running"
                 THEN [reader EXCEPT ![at[t]] = "dead"] ELSE reader
  /\ shell' = IF Signalled(at[t])
                THEN [shell EXCEPT ![at[t]] = "termed"] ELSE shell
  /\ UNCHANGED <<registry, vm, master, expired, at, audit, cursor>>

Shut(io) == IF io = "open" THEN "closed" ELSE io

\* The ensure.  A request thread already holds SESSIONS_MUTEX: locking it
\* again raises ThreadError, which releases the outer lock and is answered
\* with a 500, past the Event.  The reaper goes on to delete the entry.
KillClose(t) ==
  /\ pc[t] = "close"
  /\ master' = [master EXCEPT ![at[t]] = Shut(@)]
  /\ \/ /\ mutex = t
        /\ Unlock
        /\ Fail(t)
     \/ /\ mutex # t
        /\ Goto(t, "delete")
        /\ UNCHANGED <<mutex, at>>
  /\ UNCHANGED <<SESSIONS, order, vm, closed, shell, reader,
                 expired, audit, cursor>>

\* SESSIONS_MUTEX.synchronize { SESSIONS.delete(@session_id) }
KillDelete(t) ==
  /\ pc[t] = "delete"
  /\ MutexFree
  /\ Unlist(at[t])
  /\ pc' = [pc EXCEPT ![t] = "next"]
  /\ at' = [at EXCEPT ![t] = None]
  /\ UNCHANGED <<order, mutex, session, via, audit, cursor>>

-----------------------------------------------------------------------------
(* ReapIdleSessionsJob#perform: SESSIONS.each without the mutex.           *)

\* What the constant SESSIONS holds in the job's own process: nothing, in
\* every configuration of the repository
Visible == IF ReaperInPuma THEN SESSIONS ELSE {}

Unvisited == {s \in Visible : order[s] > cursor}

ReapStart ==
  /\ pc[Reaper] = "idle"
  /\ Visible # {}
  /\ pc' = [pc EXCEPT ![Reaper] = "next"]
  /\ cursor' = 0
  /\ UNCHANGED <<registry, session, expired, at, via,
                 audit>>

\* The subscriber count asks the pubsub server for a method it lacks, and
\* "rescue 0" makes it 0: only the age of the session counts.
ReapVisit ==
  /\ pc[Reaper] = "next"
  /\ \E s \in Unvisited :
       /\ \A r \in Unvisited : order[s] <= order[r]
       /\ cursor' = order[s]
       /\ \/ /\ s \in expired
             /\ pc' = [pc EXCEPT ![Reaper] = "kill"]
             /\ at' = [at EXCEPT ![Reaper] = s]
          \/ /\ s \notin expired
             /\ UNCHANGED <<pc, at>>
  /\ UNCHANGED <<registry, session, expired, via, audit>>

ReapEnd ==
  /\ pc[Reaper] = "next"
  /\ Unvisited = {}
  /\ pc' = [pc EXCEPT ![Reaper] = "idle"]
  /\ cursor' = 0
  /\ UNCHANGED <<registry, session, expired, at, via,
                 audit>>

-----------------------------------------------------------------------------
(* The reader thread.                                                      *)

\* Mutant: only @closed ends the loop.
LoopOver_OnlyClosed(s) == closed[s]

LoopOver(s) == shell[s] = "exited" \/ closed[s]

\* Once the shell has exited or @closed is set, the loop ends; the ensure
\* sets @closed.  The entry in SESSIONS stays.
ReaderEnds(s) ==
  /\ reader[s] = "running"
  /\ LoopOver(s)
  /\ reader' = [reader EXCEPT ![s] = "dead"]
  /\ Close(s)
  /\ UNCHANGED <<registry, vm, master, shell, expired,
                 control, audit, cursor>>

\* A StandardError in the loop: append_scrollback raises TypeError when the
\* scrollback outgrows its cap (TerminalStream).  The shell is left running.
ReaderCrashes(s) ==
  /\ reader[s] = "running"
  /\ shell[s] = "running"
  /\ ~ closed[s]
  /\ reader' = [reader EXCEPT ![s] = "crashed"]
  /\ Close(s)
  /\ UNCHANGED <<registry, vm, master, shell, expired,
                 control, audit, cursor>>

-----------------------------------------------------------------------------
(* The world around them.                                                  *)

\* The user types exit, TERM arrives, or the VM goes away.
ShellExits(s) ==
  /\ shell[s] \in {"running", "late", "termed"}
  /\ shell' = [shell EXCEPT ![s] = "exited"]
  /\ UNCHANGED <<registry, vm, closed, master, reader,
                 expired, control, audit, cursor>>

\* IDLE_TTL passes since created_at.
Expire(s) ==
  /\ s \in SESSIONS \ expired
  /\ expired' = expired \union {s}
  /\ UNCHANGED <<registry, session, control, audit, cursor>>

\* systemd restarts multipass-webui.service: the hash, the threads and the
\* descriptors go, the shells are killed with the unit's control group, and
\* requests under way get no answer.  The Event rows stay.
PumaRestarts ==
  /\ SESSIONS # {} \/ \E t \in Threads : pc[t] # "idle"
  /\ SESSIONS' = {}
  /\ mutex' = Nobody
  /\ closed' = [s \in SessionIds |-> closed[s] \/ order[s] > 0]
  /\ master' = [s \in SessionIds |-> Shut(master[s])]
  /\ shell' = [s \in SessionIds |->
                 IF shell[s] = "none" THEN "none" ELSE "exited"]
  /\ reader' = [s \in SessionIds |->
                  IF reader[s] = "running" THEN "dead" ELSE reader[s]]
  /\ pc' = [t \in Workers |-> "idle"]
  /\ at' = [t \in Workers |-> None]
  /\ via' = [t \in Workers |-> "none"]
  /\ expired' = {}
  /\ cursor' = 0
  /\ UNCHANGED <<order, vm, audit>>

-----------------------------------------------------------------------------
Step(t) ==
  \/ Register(t)
  \/ PtyOpen(t)
  \/ Spawn(t)
  \/ StartReader(t)
  \/ KillLock(t)
  \/ KillBody(t)
  \/ KillClose(t)
  \/ KillDelete(t)
  \/ Respond(t)

Request(t) ==
  \/ \E v \in VMs : CreateRequest(t, v) \/ ConsoleRequest(t, v)
  \/ \E s \in SessionIds : DestroyRequest(t, s)

Reap == ReapStart \/ ReapVisit \/ ReapEnd

Environment ==
  \/ \E s \in SessionIds : ShellExits(s) \/ Expire(s)
  \/ PumaRestarts

Next ==
  \/ \E t \in Threads : Request(t)
  \/ \E t \in Workers : Step(t)
  \/ Reap
  \/ \E s \in SessionIds : ReaderEnds(s) \/ ReaderCrashes(s)
  \/ Environment

Spec == Init /\ [][Next]_vars

\* Ruby schedules every runnable thread, and an unlock wakes the thread that
\* waits longest, so a thread that finds the mutex free again and again gets
\* it.  Users and shells promise nothing.
Fairness ==
  /\ \A t \in Workers : SF_vars(Step(t))
  /\ WF_vars(Reap)
  /\ \A s \in SessionIds : WF_vars(ReaderEnds(s))

FairSpec == Spec /\ Fairness

-----------------------------------------------------------------------------
(* Properties that hold.                                                   *)

Opened == {s \in SessionIds : order[s] > 0}
Over == {s \in SessionIds : closed[s]}
Killing(t) == pc[t] \in {"kill", "close"}

\* SESSIONS_MUTEX is held exactly by the one request that is in the middle of
\* Session.kill; no request ever leaves it locked behind itself.
MutexHeldByKiller ==
  \A t \in Workers : mutex = t <=> (t \in Threads /\ Killing(t))

\* A session that left the hash, where no client can reach it again, is about
\* to be killed, or it is closed and its shell is gone or was sent TERM.  kill
\* leaves a shell running in two cases only: its reader had crashed, which
\* makes @closed true and kill return at once, or its @pid was assigned after
\* kill had looked for it.
RemovedIsKilled ==
  \A s \in Opened \ SESSIONS :
    \/ \E t \in Threads : pc[t] = "kill" /\ at[t] = s
    \/ /\ closed[s]
       /\ shell[s] = "running" => reader[s] = "crashed"

\* The reader never reads from a master that kill has closed under it: kill
\* sets @closed first.
LiveReaderHasMaster ==
  \A s \in SessionIds :
    reader[s] = "running" /\ ~ closed[s] => master[s] = "open"

\* The audit trail says open_shell only of a session whose shell was spawned,
\* and close_shell only of one that no client can find any more.
AuditIsTrue ==
  \A s \in SessionIds :
    /\ <<"open_shell", s>> \in audit => shell[s] # "none"
    /\ <<"close_shell", s>> \in audit => s \notin SESSIONS

\* The registry keeps the promises of SessionLedger.
Ledger == INSTANCE SessionLedger
            WITH Ids <- SessionIds, opened <- Opened, listed <- SESSIONS,
                 over <- Over
KeepsLedger == Ledger!Spec

\* Every request that waits for SESSIONS_MUTEX or works on a session is
\* answered: a kill does not leave the mutex locked.
RequestsAnswered == \A t \in Threads : pc[t] # "idle" ~> pc[t] = "idle"

\* A request to kill a session, whatever other kills, opens and restarts come
\* between and although it is answered with an error, ends it: the session is
\* closed and off the hash.
KillTakesEffect ==
  \A t \in Threads, s \in SessionIds :
    pc[t] = "lock" /\ at[t] = s ~> closed[s] /\ s \notin SESSIONS

\* When the shell exits, its reader notices and closes the session.
ExitNoticed ==
  \A s \in SessionIds :
    shell[s] = "exited" /\ reader[s] = "running" ~> closed[s] /\ reader[s] = "dead"

-----------------------------------------------------------------------------
(* Properties the code does not keep; see "findings" in the README.        *)

\* A request to kill a session is answered, as the request spec expects, with
\* 200 and not with an error.
KillReplied ==
  \A t \in Threads : via[t] = "destroy" => pc[t] # "error"
=============================================================================
