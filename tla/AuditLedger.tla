---------------------------- MODULE AuditLedger ----------------------------
(***************************************************************************)
(* What the audit log promises about a job, which is a request to          *)
(* VmsController or the firing of a schedule: whatever is done to VMs is   *)
(* done in the name of a job under way, the job writes one Event at most,  *)
(* after the last thing it does and never before, and the Event's result   *)
(* is what came of it.  A job may also end without one.  VmOperations and  *)
(* SchedulerTick implement it.                                             *)
(***************************************************************************)
CONSTANT Jobs

VARIABLES
  begun,  \* jobs under way or over
  good,   \* those that did something
  bad,    \* those something failed for
  told    \* the Events: a job and its result

audit == <<begun, good, bad, told>>

Results == {"success", "failed", "partial", "no_targets"}

Init == begun = {} /\ good = {} /\ bad = {} /\ told = {}

Silent(j) == \A e \in told : e[1] # j

\* What a result says of a job; success is also that of one that asks nothing.
IsTrue(j, r) ==
  \/ r = "success" /\ j \notin bad
  \/ r = "failed" /\ j \in bad \ good
  \/ r = "partial" /\ j \in bad \intersect good
  \/ r = "no_targets" /\ j \notin bad \union good

Begin(j) ==
  /\ j \notin begun
  /\ begun' = begun \union {j}
  /\ UNCHANGED <<good, bad, told>>

Succeed(j) ==
  /\ j \in begun /\ Silent(j)
  /\ good' = good \union {j}
  /\ UNCHANGED <<begun, bad, told>>

Fail(j) ==
  /\ j \in begun /\ Silent(j)
  /\ bad' = bad \union {j}
  /\ UNCHANGED <<begun, good, told>>

Tell(j, r) ==
  /\ IsTrue(j, r)
  /\ j \in begun /\ Silent(j)
  /\ told' = told \union {<<j, r>>}
  /\ UNCHANGED <<begun, good, bad>>

\* Jobs are no longer watched.
Forget(gone) ==
  /\ begun' = begun \ gone
  /\ good' = good \ gone
  /\ bad' = bad \ gone
  /\ told' = {e \in told : e[1] \notin gone}

Next ==
  \/ \E gone \in SUBSET Jobs : Forget(gone)
  \/ \E j \in Jobs : \/ Begin(j) \/ Succeed(j) \/ Fail(j)
                     \/ \E r \in Results : Tell(j, r)

Spec == Init /\ [][Next]_audit
=============================================================================
