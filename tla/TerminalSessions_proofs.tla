----------------------- MODULE TerminalSessions_proofs -----------------------
(***************************************************************************)
(* Proofs about TerminalSessions, for any number of threads, sessions and  *)
(* VMs, and wherever the reaper runs.  The invariant is built in three     *)
(* layers: types, who is where, and what a session is like; each is        *)
(* preserved by every action given those before it.                        *)
(***************************************************************************)
EXTENDS TerminalSessions, FiniteSetTheorems, TLAPS

-----------------------------------------------------------------------------
(* Layer 1: types.                                                         *)

Busy == {"register", "pty", "spawn", "reader", "lock", "kill", "close", "delete"}

\* A thread between the first and the last step of a request has a session.
BusyHasSession == \A t \in Workers : pc[t] \in Busy => at[t] \in SessionIds

Inv1 == TypeOK /\ BusyHasSession

LEMMA NextOrderPositive ==
  ASSUME TypeOK
  PROVE  NextOrder \in Nat /\ NextOrder > 0
<1> DEFINE Used == {s \in SessionIds : order[s] > 0}
<1>1. IsFiniteSet(SessionIds)
  BY ConstantsOK
<1>2. IsFiniteSet(Used)
  BY <1>1, FS_Subset
<1>3. Cardinality(Used) \in Nat
  BY <1>2, FS_CardinalityType
<1> QED BY <1>3 DEF NextOrder

LEMMA Inv1Init == Init => Inv1
BY ConstantsOK DEF Init, Inv1, TypeOK, BusyHasSession, Workers, IO, Steps, Busy

LEMMA Inv1Step ==
  ASSUME Inv1, [Next]_vars
  PROVE  Inv1'
<1> USE ConstantsOK DEF Inv1, TypeOK, BusyHasSession, Workers, IO, Steps, Busy,
        session, registry, control, MutexFree, Unlock, Unlist, Close, Goto,
        Finish, Fail, Begin
<1>1. ASSUME NEW t \in Threads, Request(t) PROVE Inv1'
  <2>1. ASSUME NEW v \in VMs, CreateRequest(t, v) PROVE Inv1'
    BY <2>1 DEF CreateRequest, NewSession, Fresh
  <2>2. ASSUME NEW v \in VMs, ConsoleRequest(t, v) PROVE Inv1'
    BY <2>2 DEF ConsoleRequest, NewSession, Fresh
  <2>3. ASSUME NEW s \in SessionIds, DestroyRequest(t, s) PROVE Inv1'
    BY <2>3 DEF DestroyRequest
  <2> QED BY <1>1, <2>1, <2>2, <2>3 DEF Request
<1>2. ASSUME NEW t \in Workers, Step(t) PROVE Inv1'
  <2>1. CASE Register(t)
    BY <2>1, NextOrderPositive DEF Register
  <2>2. CASE PtyOpen(t)
    BY <2>2 DEF PtyOpen
  <2>3. CASE Spawn(t)
    BY <2>3 DEF Spawn
  <2>4. CASE StartReader(t)
    BY <2>4 DEF StartReader
  <2>5. CASE KillLock(t)
    BY <2>5 DEF KillLock, Found
  <2>6. CASE KillBody(t)
    BY <2>6 DEF KillBody, Signalled
  <2>7. CASE KillClose(t)
    BY <2>7 DEF KillClose, Shut
  <2>8. CASE KillDelete(t)
    BY <2>8 DEF KillDelete
  <2>9. CASE Respond(t)
    BY <2>9 DEF Respond
  <2> QED BY <1>2, <2>1, <2>2, <2>3, <2>4, <2>5, <2>6, <2>7, <2>8, <2>9 DEF Step
<1>3. CASE Reap
  <2>1. CASE ReapStart
    BY <2>1 DEF ReapStart
  <2>2. CASE ReapVisit
    BY <2>2 DEF ReapVisit, Unvisited, Visible
  <2>3. CASE ReapEnd
    BY <2>3 DEF ReapEnd
  <2> QED BY <1>3, <2>1, <2>2, <2>3 DEF Reap
<1>4. ASSUME NEW s \in SessionIds, ReaderEnds(s) \/ ReaderCrashes(s) PROVE Inv1'
  <2>1. CASE ReaderEnds(s)
    BY <2>1 DEF ReaderEnds
  <2>2. CASE ReaderCrashes(s)
    BY <2>2 DEF ReaderCrashes
  <2> QED BY <1>4, <2>1, <2>2
<1>5. CASE Environment
  <2>1. ASSUME NEW s \in SessionIds, ShellExits(s) PROVE Inv1'
    BY <2>1 DEF ShellExits
  <2>2. ASSUME NEW s \in SessionIds, Expire(s) PROVE Inv1'
    BY <2>2 DEF Expire
  <2>3. CASE PumaRestarts
    BY <2>3 DEF PumaRestarts, Shut
  <2> QED BY <1>5, <2>1, <2>2, <2>3 DEF Environment
<1>6. CASE UNCHANGED vars
  BY <1>6 DEF vars
<1> QED BY <1>1, <1>2, <1>3, <1>4, <1>5, <1>6 DEF Next

\* Every variable keeps its type in every behaviour.
THEOREM TypeCorrect == Spec => []TypeOK
<1>1. Inv1 => TypeOK
  BY DEF Inv1
<1> QED BY <1>1, Inv1Init, Inv1Step, PTL DEF Spec

-----------------------------------------------------------------------------
(* Layer 2: who can be where.                                              *)

\* Only request threads open sessions and answer; only the reaper iterates.
Places ==
  \A t \in Workers :
    /\ pc[t] \in {"register", "pty", "spawn", "reader", "lock",
                 "error"} => t \in Threads
    /\ pc[t] \in {"next", "delete"} => t = Reaper

Inv2 == Places /\ MutexHeldByKiller

LEMMA Inv2Init == Init => Inv2
BY ConstantsOK DEF Init, Inv2, Places, MutexHeldByKiller, Killing, Workers

LEMMA Inv2Step ==
  ASSUME Inv1, Inv2, [Next]_vars
  PROVE  Inv2'
<1> USE ConstantsOK DEF Inv1, TypeOK, BusyHasSession, Workers, Steps, Busy, Inv2,
        Places, MutexHeldByKiller, Killing, session, registry, control, MutexFree, Unlock, Unlist, Close, Goto,
        Finish, Fail, Begin
<1>1. ASSUME NEW t \in Threads, Request(t) PROVE Inv2'
  <2>1. ASSUME NEW v \in VMs, CreateRequest(t, v) PROVE Inv2'
    BY <2>1 DEF CreateRequest, NewSession, Fresh
  <2>2. ASSUME NEW v \in VMs, ConsoleRequest(t, v) PROVE Inv2'
    BY <2>2 DEF ConsoleRequest, NewSession, Fresh
  <2>3. ASSUME NEW s \in SessionIds, DestroyRequest(t, s) PROVE Inv2'
    BY <2>3 DEF DestroyRequest
  <2> QED BY <1>1, <2>1, <2>2, <2>3 DEF Request
<1>2. ASSUME NEW t \in Workers, Step(t) PROVE Inv2'
  <2>1. CASE Register(t)
    BY <2>1, NextOrderPositive DEF Register
  <2>2. CASE PtyOpen(t)
    BY <2>2 DEF PtyOpen
  <2>3. CASE Spawn(t)
    BY <2>3 DEF Spawn
  <2>4. CASE StartReader(t)
    BY <2>4 DEF StartReader
  <2>5. CASE KillLock(t)
    BY <2>5 DEF KillLock, Found
  <2>6. CASE KillBody(t)
    BY <2>6 DEF KillBody, Signalled
  <2>7. CASE KillClose(t)
    BY <2>7 DEF KillClose, Shut
  <2>8. CASE KillDelete(t)
    BY <2>8 DEF KillDelete
  <2>9. CASE Respond(t)
    BY <2>9 DEF Respond
  <2> QED BY <1>2, <2>1, <2>2, <2>3, <2>4, <2>5, <2>6, <2>7, <2>8, <2>9 DEF Step
<1>3. CASE Reap
  <2>1. CASE ReapStart
    BY <2>1 DEF ReapStart
  <2>2. CASE ReapVisit
    BY <2>2 DEF ReapVisit, Unvisited, Visible
  <2>3. CASE ReapEnd
    BY <2>3 DEF ReapEnd
  <2> QED BY <1>3, <2>1, <2>2, <2>3 DEF Reap
<1>4. ASSUME NEW s \in SessionIds, ReaderEnds(s) \/ ReaderCrashes(s) PROVE Inv2'
  <2>1. CASE ReaderEnds(s)
    BY <2>1 DEF ReaderEnds
  <2>2. CASE ReaderCrashes(s)
    BY <2>2 DEF ReaderCrashes
  <2> QED BY <1>4, <2>1, <2>2
<1>5. CASE Environment
  <2>1. ASSUME NEW s \in SessionIds, ShellExits(s) PROVE Inv2'
    BY <2>1 DEF ShellExits
  <2>2. ASSUME NEW s \in SessionIds, Expire(s) PROVE Inv2'
    BY <2>2 DEF Expire
  <2>3. CASE PumaRestarts
    BY <2>3 DEF PumaRestarts, Shut
  <2> QED BY <1>5, <2>1, <2>2, <2>3 DEF Environment
<1>6. CASE UNCHANGED vars
  BY <1>6 DEF vars
<1> QED BY <1>1, <1>2, <1>3, <1>4, <1>5, <1>6 DEF Next

\* SESSIONS_MUTEX is held exactly by the request that is killing a session.
THEOREM MutexHeldByKillerAlways == Spec => []MutexHeldByKiller
<1>1. Inv2 => MutexHeldByKiller
  BY DEF Inv2
<1> QED BY <1>1, Inv1Init, Inv1Step, Inv2Init, Inv2Step, PTL DEF Spec

-----------------------------------------------------------------------------
(* Layer 3: what a session is like.                                        *)

\* Only a registered session is listed, closed or read; a used id is never
\* fresh again.
Registered ==
  \A s \in SessionIds :
    /\ s \in SESSIONS \/ closed[s] \/ reader[s] # "none" => order[s] > 0
    /\ order[s] > 0 => vm[s] # None

Opening == {"register", "pty", "spawn", "reader"}

\* The session a thread works on: not yet in the hash while it registers, in
\* it or past it later, with a master unless a kill came in between, unread
\* until it is opened, and closed once the kill's body is done.
AtSession ==
  \A t \in Workers :
    /\ pc[t] = "register" => vm[at[t]] # None /\ order[at[t]] = 0
    /\ pc[t] \in Busy \ {"register"} => order[at[t]] > 0
    /\ pc[t] \in {"spawn", "reader"} => closed[at[t]] \/ master[at[t]] = "open"
    /\ pc[t] \in Opening => reader[at[t]] = "none"
    /\ pc[t] \in {"close", "delete"} => closed[at[t]]

\* Two threads never open the same session.
OpeningApart ==
  \A t, u \in Workers :
    pc[t] \in Opening /\ pc[u] \in Opening /\ t # u => at[t] # at[u]

\* A shell that runs past the end of its session, and was there for kill to
\* see, is one whose reader crashed.
ShellsEnded ==
  \A s \in SessionIds :
    closed[s] /\ shell[s] = "running" => reader[s] = "crashed"

Inv3 ==
  /\ Registered
  /\ AtSession
  /\ OpeningApart
  /\ ShellsEnded
  /\ RemovedIsKilled
  /\ LiveReaderHasMaster

LEMMA Inv3Init == Init => Inv3
BY ConstantsOK DEF Init, Inv3, Registered, AtSession, OpeningApart, Opening,
     ShellsEnded, Workers, RemovedIsKilled, LiveReaderHasMaster, Opened, Busy

LEMMA Inv3Step ==
  ASSUME Inv1, Inv2, Inv3, [Next]_vars
  PROVE  Inv3'
<1> USE ConstantsOK DEF Inv1, TypeOK, BusyHasSession, Workers, IO, Steps, Busy, Inv2,
        Places, MutexHeldByKiller, Killing, Inv3, Registered, AtSession,
        OpeningApart, Opening, ShellsEnded, RemovedIsKilled, LiveReaderHasMaster,
        Opened, session, registry, control, MutexFree, Unlock, Unlist, Close, Goto,
        Finish, Fail, Begin
<1>1. ASSUME NEW t \in Threads, Request(t) PROVE Inv3'
  <2>1. ASSUME NEW v \in VMs, CreateRequest(t, v) PROVE Inv3'
    BY <2>1 DEF CreateRequest, NewSession, Fresh
  <2>2. ASSUME NEW v \in VMs, ConsoleRequest(t, v) PROVE Inv3'
    BY <2>2 DEF ConsoleRequest, NewSession, Fresh
  <2>3. ASSUME NEW s \in SessionIds, DestroyRequest(t, s) PROVE Inv3'
    BY <2>3 DEF DestroyRequest
  <2> QED BY <1>1, <2>1, <2>2, <2>3 DEF Request
<1>2. ASSUME NEW t \in Workers, Step(t) PROVE Inv3'
  <2>1. CASE Register(t)
    BY <2>1, NextOrderPositive DEF Register
  <2>2. CASE PtyOpen(t)
    BY <2>2 DEF PtyOpen
  <2>3. CASE Spawn(t)
    BY <2>3 DEF Spawn
  <2>4. CASE StartReader(t)
    BY <2>4 DEF StartReader
  <2>5. CASE KillLock(t)
    BY <2>5 DEF KillLock, Found
  <2>6. CASE KillBody(t)
    BY <2>6 DEF KillBody, Signalled
  <2>7. CASE KillClose(t)
    BY <2>7 DEF KillClose, Shut
  <2>8. CASE KillDelete(t)
    BY <2>8 DEF KillDelete
  <2>9. CASE Respond(t)
    BY <2>9 DEF Respond
  <2> QED BY <1>2, <2>1, <2>2, <2>3, <2>4, <2>5, <2>6, <2>7, <2>8, <2>9 DEF Step
<1>3. CASE Reap
  <2>1. CASE ReapStart
    BY <2>1 DEF ReapStart
  <2>2. CASE ReapVisit
    BY <2>2 DEF ReapVisit, Unvisited, Visible
  <2>3. CASE ReapEnd
    BY <2>3 DEF ReapEnd
  <2> QED BY <1>3, <2>1, <2>2, <2>3 DEF Reap
<1>4. ASSUME NEW s \in SessionIds, ReaderEnds(s) \/ ReaderCrashes(s) PROVE Inv3'
  <2>1. CASE ReaderEnds(s)
    BY <2>1 DEF ReaderEnds, LoopOver
  <2>2. CASE ReaderCrashes(s)
    BY <2>2 DEF ReaderCrashes
  <2> QED BY <1>4, <2>1, <2>2
<1>5. CASE Environment
  <2>1. ASSUME NEW s \in SessionIds, ShellExits(s) PROVE Inv3'
    BY <2>1 DEF ShellExits
  <2>2. ASSUME NEW s \in SessionIds, Expire(s) PROVE Inv3'
    BY <2>2 DEF Expire
  <2>3. CASE PumaRestarts
    BY <2>3 DEF PumaRestarts, Shut
  <2> QED BY <1>5, <2>1, <2>2, <2>3 DEF Environment
<1>6. CASE UNCHANGED vars
  BY <1>6 DEF vars
<1> QED BY <1>1, <1>2, <1>3, <1>4, <1>5, <1>6 DEF Next

\* A session that left the hash is closed and its shell gone or sent TERM, or
\* its kill is about to see to it; a shell is left running only if its reader
\* had crashed or its @pid came after the kill had looked for it.
THEOREM RemovedIsKilledAlways == Spec => []RemovedIsKilled
<1>1. Inv3 => RemovedIsKilled
  BY DEF Inv3
<1> QED
  BY <1>1, Inv1Init, Inv1Step, Inv2Init, Inv2Step, Inv3Init, Inv3Step, PTL DEF Spec

\* A reader that still loops reads from an open master.
THEOREM LiveReaderHasMasterAlways == Spec => []LiveReaderHasMaster
<1>1. Inv3 => LiveReaderHasMaster
  BY DEF Inv3
<1> QED
  BY <1>1, Inv1Init, Inv1Step, Inv2Init, Inv2Step, Inv3Init, Inv3Step, PTL DEF Spec

-----------------------------------------------------------------------------
(* The audit trail.                                                        *)

\* A thread about to start the reader spawned a shell; a session whose closing
\* is on record was in the hash once, and is not registered again.
AuditGrounds ==
  /\ \A t \in Workers : pc[t] = "reader" => shell[at[t]] # "none"
  /\ \A s \in SessionIds : <<"close_shell", s>> \in audit => order[s] > 0

LEMMA AuditStep ==
  ASSUME Inv1, Inv2, Inv3, AuditGrounds, AuditIsTrue, [Next]_vars
  PROVE  AuditGrounds' /\ AuditIsTrue'
<1> USE ConstantsOK DEF Inv1, TypeOK, BusyHasSession, Workers, IO, Steps, Busy, Inv2,
        Places, Inv3, Registered, AtSession, OpeningApart, Opening, AuditGrounds,
        AuditIsTrue, session, registry, control, MutexFree, Unlock, Unlist, Close, Goto,
        Finish, Fail, Begin
<1>1. ASSUME NEW t \in Threads, Request(t) PROVE (AuditGrounds /\ AuditIsTrue)'
  <2>1. ASSUME NEW v \in VMs, CreateRequest(t, v) PROVE (AuditGrounds /\ AuditIsTrue)'
    BY <2>1 DEF CreateRequest, NewSession, Fresh
  <2>2. ASSUME NEW v \in VMs, ConsoleRequest(t, v) PROVE (AuditGrounds /\ AuditIsTrue)'
    BY <2>2 DEF ConsoleRequest, NewSession, Fresh
  <2>3. ASSUME NEW s \in SessionIds, DestroyRequest(t, s) PROVE (AuditGrounds /\ AuditIsTrue)'
    BY <2>3 DEF DestroyRequest
  <2> QED BY <1>1, <2>1, <2>2, <2>3 DEF Request
<1>2. ASSUME NEW t \in Workers, Step(t) PROVE (AuditGrounds /\ AuditIsTrue)'
  <2>1. CASE Register(t)
    BY <2>1, NextOrderPositive DEF Register
  <2>2. CASE PtyOpen(t)
    BY <2>2 DEF PtyOpen
  <2>3. CASE Spawn(t)
    BY <2>3 DEF Spawn
  <2>4. CASE StartReader(t)
    BY <2>4 DEF StartReader
  <2>5. CASE KillLock(t)
    BY <2>5 DEF KillLock, Found
  <2>6. CASE KillBody(t)
    BY <2>6 DEF KillBody, Signalled
  <2>7. CASE KillClose(t)
    BY <2>7 DEF KillClose, Shut
  <2>8. CASE KillDelete(t)
    BY <2>8 DEF KillDelete
  <2>9. CASE Respond(t)
    BY <2>9 DEF Respond
  <2> QED BY <1>2, <2>1, <2>2, <2>3, <2>4, <2>5, <2>6, <2>7, <2>8, <2>9 DEF Step
<1>3. CASE Reap
  <2>1. CASE ReapStart
    BY <2>1 DEF ReapStart
  <2>2. CASE ReapVisit
    BY <2>2 DEF ReapVisit, Unvisited, Visible
  <2>3. CASE ReapEnd
    BY <2>3 DEF ReapEnd
  <2> QED BY <1>3, <2>1, <2>2, <2>3 DEF Reap
<1>4. ASSUME NEW s \in SessionIds, ReaderEnds(s) \/ ReaderCrashes(s) PROVE (AuditGrounds /\ AuditIsTrue)'
  <2>1. CASE ReaderEnds(s)
    BY <2>1 DEF ReaderEnds
  <2>2. CASE ReaderCrashes(s)
    BY <2>2 DEF ReaderCrashes
  <2> QED BY <1>4, <2>1, <2>2
<1>5. CASE Environment
  <2>1. ASSUME NEW s \in SessionIds, ShellExits(s) PROVE (AuditGrounds /\ AuditIsTrue)'
    BY <2>1 DEF ShellExits
  <2>2. ASSUME NEW s \in SessionIds, Expire(s) PROVE (AuditGrounds /\ AuditIsTrue)'
    BY <2>2 DEF Expire
  <2>3. CASE PumaRestarts
    BY <2>3 DEF PumaRestarts, Shut
  <2> QED BY <1>5, <2>1, <2>2, <2>3 DEF Environment
<1>6. CASE UNCHANGED vars
  BY <1>6 DEF vars
<1> QED BY <1>1, <1>2, <1>3, <1>4, <1>5, <1>6 DEF Next

\* The audit trail says open_shell only of a session with a shell, and
\* close_shell only of one that is not listed.
THEOREM AuditIsTrueAlways == Spec => []AuditIsTrue
<1>1. Init => AuditGrounds /\ AuditIsTrue
  BY DEF Init, AuditGrounds, AuditIsTrue
<1> QED
  BY <1>1, Inv1Init, Inv1Step, Inv2Init, Inv2Step, Inv3Init, Inv3Step, AuditStep,
     PTL DEF Spec

-----------------------------------------------------------------------------
(* TerminalSessions implements SessionLedger.                              *)

LEMMA LedgerInit == Init => Ledger!Init
BY DEF Init, Ledger!Init, Opened, Over

LEMMA LedgerStep ==
  ASSUME Inv1, Inv2, Inv3, [Next]_vars
  PROVE  [Ledger!Next]_(Ledger!ledger)
<1> USE ConstantsOK DEF Inv1, TypeOK, BusyHasSession, Workers, IO, Steps, Busy, Inv2,
        Places, Inv3, Registered, AtSession, OpeningApart, Opening, Opened, Over,
        Ledger!ledger, Ledger!Next, Ledger!Open, Ledger!End, Ledger!Remove, Ledger!Restart, session, registry, control, MutexFree, Unlock, Unlist, Close, Goto,
        Finish, Fail, Begin
<1>1. ASSUME NEW t \in Threads, Request(t) PROVE [Ledger!Next]_(Ledger!ledger)
  <2>1. ASSUME NEW v \in VMs, CreateRequest(t, v) PROVE [Ledger!Next]_(Ledger!ledger)
    BY <2>1 DEF CreateRequest, NewSession, Fresh
  <2>2. ASSUME NEW v \in VMs, ConsoleRequest(t, v) PROVE [Ledger!Next]_(Ledger!ledger)
    BY <2>2 DEF ConsoleRequest, NewSession, Fresh
  <2>3. ASSUME NEW s \in SessionIds, DestroyRequest(t, s) PROVE [Ledger!Next]_(Ledger!ledger)
    BY <2>3 DEF DestroyRequest
  <2> QED BY <1>1, <2>1, <2>2, <2>3 DEF Request
<1>2. ASSUME NEW t \in Workers, Step(t) PROVE [Ledger!Next]_(Ledger!ledger)
  <2>1. CASE Register(t)
    BY <2>1, NextOrderPositive DEF Register
  <2>2. CASE PtyOpen(t)
    BY <2>2 DEF PtyOpen
  <2>3. CASE Spawn(t)
    BY <2>3 DEF Spawn
  <2>4. CASE StartReader(t)
    BY <2>4 DEF StartReader
  <2>5. CASE KillLock(t)
    BY <2>5 DEF KillLock, Found
  <2>6. CASE KillBody(t)
    BY <2>6 DEF KillBody, Signalled
  <2>7. CASE KillClose(t)
    BY <2>7 DEF KillClose, Shut
  <2>8. CASE KillDelete(t)
    BY <2>8 DEF KillDelete
  <2>9. CASE Respond(t)
    BY <2>9 DEF Respond
  <2> QED BY <1>2, <2>1, <2>2, <2>3, <2>4, <2>5, <2>6, <2>7, <2>8, <2>9 DEF Step
<1>3. CASE Reap
  <2>1. CASE ReapStart
    BY <2>1 DEF ReapStart
  <2>2. CASE ReapVisit
    BY <2>2 DEF ReapVisit, Unvisited, Visible
  <2>3. CASE ReapEnd
    BY <2>3 DEF ReapEnd
  <2> QED BY <1>3, <2>1, <2>2, <2>3 DEF Reap
<1>4. ASSUME NEW s \in SessionIds, ReaderEnds(s) \/ ReaderCrashes(s) PROVE [Ledger!Next]_(Ledger!ledger)
  <2>1. CASE ReaderEnds(s)
    BY <2>1 DEF ReaderEnds
  <2>2. CASE ReaderCrashes(s)
    BY <2>2 DEF ReaderCrashes
  <2> QED BY <1>4, <2>1, <2>2
<1>5. CASE Environment
  <2>1. ASSUME NEW s \in SessionIds, ShellExits(s) PROVE [Ledger!Next]_(Ledger!ledger)
    BY <2>1 DEF ShellExits
  <2>2. ASSUME NEW s \in SessionIds, Expire(s) PROVE [Ledger!Next]_(Ledger!ledger)
    BY <2>2 DEF Expire
  <2>3. CASE PumaRestarts
    <3>1. /\ SESSIONS' = {} /\ order' = order
          /\ closed' = [s \in SessionIds |-> closed[s] \/ order[s] > 0]
      BY <2>3 DEF PumaRestarts
    <3>2. \A s \in SessionIds : closed[s] => order[s] > 0
      OBVIOUS
    <3> HIDE DEF Inv1, Inv2, Inv3, PumaRestarts
    <3>3. Opened' = Opened /\ Over' = Opened
      BY <3>1, <3>2
    <3> QED BY <3>1, <3>3
  <2> QED BY <1>5, <2>1, <2>2, <2>3 DEF Environment
<1>6. CASE UNCHANGED vars
  BY <1>6 DEF vars
<1> QED BY <1>1, <1>2, <1>3, <1>4, <1>5, <1>6 DEF Next

\* The registry keeps SessionLedger's promises: an id is opened once, nothing
\* that ended comes back, what was removed stays removed.
THEOREM KeepsLedgerAlways == Spec => KeepsLedger
<1>1. Spec => []Inv1
  BY Inv1Init, Inv1Step, PTL DEF Spec
<1>2. Spec => [](Inv1 /\ Inv2)
  BY <1>1, Inv2Init, Inv2Step, PTL DEF Spec
<1>3. Spec => [](Inv1 /\ Inv2 /\ Inv3)
  BY <1>2, Inv3Init, Inv3Step, PTL DEF Spec
<1> QED BY <1>3, LedgerInit, LedgerStep, PTL DEF Spec, KeepsLedger, Ledger!Spec
=============================================================================
