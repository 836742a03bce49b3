----------------------------- MODULE VmOperations -----------------------------
(***************************************************************************)
(* VmsController over Multipass::Client: each request, on a Puma thread of *)
(* its own, turns into multipass commands run one after the other, then    *)
(* possibly an Event row, then an answer.  Nothing is locked: between two  *)
(* commands, or between the listing and a command of start_all, other      *)
(* requests act on the same VMs.                                           *)
(*                                                                         *)
(* multipassd is outside the repository: it is a state per VM, commands it *)
(* may refuse, and guests that power off.  Requests that fail validation   *)
(* reach no command and are left out.                                      *)
(***************************************************************************)
EXTENDS Naturals, Sequences, FiniteSets, SequencesExt

CONSTANTS
  VMs,
  Threads,
  Resizes,  \* the fields that a resize may give: sets of Fields
  None      \* no VM

Lifecycle == {"start", "stop", "suspend", "recover"}
Bulk == {"start_all", "stop_all"}
Fields == {"cpus", "memory", "disk"}

ASSUME ConstantsOK ==
  /\ None \notin VMs \union Threads
  /\ VMs # {} /\ IsFiniteSet(VMs)
  /\ Resizes \subseteq SUBSET Fields

\* What the routes of VmsController let a request ask.  The name of a new VM
\* may be left blank, and is then made up.
Requests ==
  [op : Lifecycle, vm : VMs]
    \union [op : {"create"}, vm : VMs]
    \union [op : {"delete"}, vm : VMs, purge : BOOLEAN]
    \union [op : {"clone"}, vm : VMs, dest : VMs]
    \union [op : {"resize"}, vm : VMs, fields : Resizes]
    \union [op : Bulk \union {"purge"}]

VARIABLES
  vm,      \* multipassd: the state of each VM
  pc,      \* of each thread: "idle", "list", "run", "emit", "rescue", "answer"
  req,     \* the request it serves
  plan,    \* the commands it has still to run
  listed,  \* the VMs a bulk request picked
  done,    \* history: what its commands did, in order
  failed,  \* the commands refused (the VMs, in run_all_in_state's errors)
  log,     \* history: results of the Events it wrote
  answer,  \* "none", "ok", "refused" (the rescued CommandError) or "crash" (500)
  others   \* history: VMs somebody else changed since it began

local == <<pc, req, plan, listed, done, failed, log, answer>>
vars == <<vm, local, others>>

Verbs == Lifecycle \union {"launch", "clone", "delete", "destroy", "purge"} \union Fields
States == {"none", "Stopped", "Running", "Suspended", "Deleted"}
Commands == [verb : Verbs, vm : VMs \union {None}]

TypeOK ==
  /\ vm \in [VMs -> States]
  /\ pc \in [Threads -> {"idle", "list", "run", "emit", "rescue", "answer"}]
  /\ req \in [Threads -> Requests \union {None}]
  /\ \A t \in Threads : pc[t] # "idle" => req[t] \in Requests
  /\ plan \in [Threads -> Seq(Commands)]
  /\ listed \in [Threads -> SUBSET VMs]
  /\ done \in [Threads -> Seq(Commands)] /\ failed \in [Threads -> SUBSET Commands]
  /\ log \in [Threads -> SUBSET {"success", "failed"}]
  /\ answer \in [Threads -> {"none", "ok", "refused", "crash"}]
  /\ others \in [Threads -> SUBSET VMs]

Init ==
  /\ vm \in [VMs -> {"none", "Stopped", "Running"}]
  /\ pc = [t \in Threads |-> "idle"]
  /\ req = [t \in Threads |-> None]
  /\ plan = [t \in Threads |-> <<>>]
  /\ listed = [t \in Threads |-> {}]
  /\ done = [t \in Threads |-> <<>>]
  /\ failed = [t \in Threads |-> {}]
  /\ log = [t \in Threads |-> {}]
  /\ answer = [t \in Threads |-> "none"]
  /\ others = [t \in Threads |-> {}]

-----------------------------------------------------------------------------
(* multipassd, as the client and the comments of vms.rb use it.            *)

Cmd(verb, v) == [verb |-> verb, vm |-> v]

\* States of the VM in which the command may be accepted
Accepts(verb) ==
  CASE verb \in {"launch", "clone"} -> {"none"}
    [] verb = "start" -> {"Stopped", "Suspended", "Running"}
    [] verb \in {"stop", "suspend"} -> {"Running"}
    [] verb = "recover" -> {"Deleted"}
    [] verb = "delete" -> {"Stopped", "Running", "Suspended"}
    [] verb = "destroy" -> States \ {"none"}
    [] OTHER -> {"Stopped"}    \* set local.<name>.<field>

\* The state it leaves the VM in
Leaves(verb) ==
  CASE verb \in {"launch", "start"} -> "Running"
    [] verb = "suspend" -> "Suspended"
    [] verb = "delete" -> "Deleted"
    [] verb = "destroy" -> "none"
    [] OTHER -> "Stopped"

MayAccept(c) == c.verb # "purge" => vm[c.vm] \in Accepts(c.verb)

Effect(c) ==
  IF c.verb = "purge"
    THEN [v \in VMs |-> IF vm[v] = "Deleted" THEN "none" ELSE vm[v]]
    ELSE [vm EXCEPT ![c.vm] = Leaves(c.verb)]

\* The requests under way, all but t's, note what changes.
Noted(t) ==
  [u \in Threads |-> IF u = t \/ pc[u] = "idle" THEN others[u]
                     ELSE others[u] \union {v \in VMs : vm'[v] # vm[v]}]

-----------------------------------------------------------------------------
(* The requests as commands, and the differences between the actions.      *)

\* The state run_all_in_state selects
Selects(op) == IF op = "start_all" THEN "Stopped" ELSE "Running"

\* Mutant: the name of the method is taken for the command.
BulkVerb_Method(op) == IF op = "start_all" THEN "start_vm" ELSE "stop_vm"

\* The command it runs
BulkVerb(op) == IF op = "start_all" THEN "start" ELSE "stop"

\* The fields a resize sets, in the order of the code, those that are given
SetCommands(r) ==
  LET Set(f) == IF f \in r.fields THEN <<Cmd(f, r.vm)>> ELSE <<>>
  IN Set("cpus") \o Set("memory") \o Set("disk")

PlanOf(r) ==
  CASE r.op = "create" -> <<Cmd("launch", r.vm)>>
    [] r.op = "delete" -> <<Cmd(IF r.purge THEN "destroy" ELSE "delete", r.vm)>>
    [] r.op = "clone" -> <<Cmd("clone", r.dest)>>
    [] r.op = "resize" -> SetCommands(r)
    [] r.op = "purge" -> <<Cmd("purge", None)>>
    [] r.op \in Lifecycle -> <<Cmd(r.op, r.vm)>>

\* Mutant: run_all_in_state stops at the first error.
KeepsGoing_Never(op) == FALSE

\* run_all_in_state rescues inside its loop.
KeepsGoing(op) == op \in Bulk

\* Mutant: the aggregated errors are not raised.
Succeeded_Always(t) == TRUE

\* errors.empty?
Succeeded(t) == failed[t] = {}

\* Mutant: delete, like purge, writes no Event.
LogsSuccess_NotDelete(op) == op \notin Bulk \union {"purge", "delete"}

\* start_all, stop_all and purge write no Event at all.
LogsSuccess(op) == op \notin Bulk \union {"purge"}

\* Mutant: update_resource_config, too, writes a failed Event.
LogsFailure_Resize(op) == op \in Lifecycle \union {"create", "resize"}

\* Only these rescue with an Event.
LogsFailure(op) == op \in Lifecycle \union {"create"}

-----------------------------------------------------------------------------
Goto(t, l) == pc' = [pc EXCEPT ![t] = l]

Receive(t, r) ==
  /\ pc[t] = "idle"
  /\ req' = [req EXCEPT ![t] = r]
  /\ IF r.op \in Bulk
       THEN Goto(t, "list") /\ UNCHANGED plan
       ELSE Goto(t, "run") /\ plan' = [plan EXCEPT ![t] = PlanOf(r)]
  /\ UNCHANGED <<vm, listed, done, failed, log, answer, others>>

\* run_all_in_state: the VMs listed in the state, in the order of their names.
\* list_vms raises only if both its commands are refused.
ListVms(t) ==
  /\ pc[t] = "list"
  /\ \/ LET picked == {v \in VMs : vm[v] = Selects(req[t].op)}
            names == SetToSeq(picked)
        IN /\ listed' = [listed EXCEPT ![t] = picked]
           /\ plan' = [plan EXCEPT ![t] =
                [i \in 1 .. Len(names) |-> Cmd(BulkVerb(req[t].op), names[i])]]
           /\ Goto(t, "run")
     \/ Goto(t, "rescue") /\ UNCHANGED <<listed, plan>>
  /\ UNCHANGED <<vm, req, done, failed, log, answer, others>>

\* Client#run returns: multipassd has done it.
RunAccepted(t) ==
  /\ pc[t] = "run" /\ plan[t] # <<>>
  /\ LET c == Head(plan[t])
     IN /\ MayAccept(c)
        /\ c.verb = "clone" => vm[req[t].vm] = "Stopped"
        /\ vm' = Effect(c)
        /\ done' = [done EXCEPT ![t] = Append(@, c)]
  /\ plan' = [plan EXCEPT ![t] = Tail(@)]
  /\ others' = Noted(t)
  /\ UNCHANGED <<pc, req, listed, failed, log, answer>>

\* Client#run raises CommandError.
RunRefused(t) ==
  /\ pc[t] = "run" /\ plan[t] # <<>>
  /\ failed' = [failed EXCEPT ![t] = @ \union {Head(plan[t])}]
  /\ IF KeepsGoing(req[t].op)
       THEN plan' = [plan EXCEPT ![t] = Tail(@)] /\ UNCHANGED pc
       ELSE plan' = [plan EXCEPT ![t] = <<>>] /\ Goto(t, "rescue")
  /\ UNCHANGED <<vm, req, listed, done, log, answer, others>>

\* The service method is done; run_all_in_state raises what it collected.
Finish(t) ==
  /\ pc[t] = "run" /\ plan[t] = <<>>
  /\ Goto(t, IF Succeeded(t) THEN "emit" ELSE "rescue")
  /\ UNCHANGED <<vm, req, plan, listed, done, failed, log, answer, others>>

Answers(t, a) == Goto(t, "answer") /\ answer' = [answer EXCEPT ![t] = a]

\* Event.emit_http!, or its failure: an id that is taken (RecordNotUnique) and
\* a locked database are not rescued, and end the request in a 500.
Emit(t, result, a) ==
  \/ log' = [log EXCEPT ![t] = @ \union {result}] /\ Answers(t, a)
  \/ UNCHANGED log /\ Answers(t, "crash")

EmitSuccess(t) ==
  /\ pc[t] = "emit"
  /\ IF LogsSuccess(req[t].op) THEN Emit(t, "success", "ok")
                               ELSE UNCHANGED log /\ Answers(t, "ok")
  /\ UNCHANGED <<vm, req, plan, listed, done, failed, others>>

RescueCommandError(t) ==
  /\ pc[t] = "rescue"
  /\ IF LogsFailure(req[t].op) THEN Emit(t, "failed", "refused")
                               ELSE UNCHANGED log /\ Answers(t, "refused")
  /\ UNCHANGED <<vm, req, plan, listed, done, failed, others>>

\* The answer is sent and the thread is free.
Respond(t) ==
  /\ pc[t] = "answer"
  /\ Goto(t, "idle")
  /\ req' = [req EXCEPT ![t] = None]
  /\ listed' = [listed EXCEPT ![t] = {}]
  /\ done' = [done EXCEPT ![t] = <<>>]
  /\ failed' = [failed EXCEPT ![t] = {}]
  /\ log' = [log EXCEPT ![t] = {}]
  /\ answer' = [answer EXCEPT ![t] = "none"]
  /\ others' = [others EXCEPT ![t] = {}]
  /\ UNCHANGED <<vm, plan>>

\* A guest powers itself off.
PowersOff(v) ==
  /\ vm[v] = "Running"
  /\ vm' = [vm EXCEPT ![v] = "Stopped"]
  /\ others' = Noted(None)
  /\ UNCHANGED local

-----------------------------------------------------------------------------
Serve(t) ==
  \/ ListVms(t)
  \/ RunAccepted(t)
  \/ RunRefused(t)
  \/ Finish(t)
  \/ EmitSuccess(t)
  \/ RescueCommandError(t)
  \/ Respond(t)

Next ==
  \/ \E t \in Threads : Serve(t) \/ \E r \in Requests : Receive(t, r)
  \/ \E v \in VMs : PowersOff(v)

Spec == Init /\ [][Next]_vars

-----------------------------------------------------------------------------
(* Properties that hold.                                                   *)

Answered(t) == pc[t] = "answer"
Did(t) == {done[t][i] : i \in 1 .. Len(done[t])}

\* An ok to start_all or stop_all is true of every VM it had listed, unless
\* somebody else changed that VM meanwhile: none failed unreported and none
\* was forgotten.
BulkOkIsTrue ==
  \A t \in Threads :
    Answered(t) /\ answer[t] = "ok" /\ req[t].op \in Bulk =>
      \A v \in listed[t] \ others[t] : vm[v] = Leaves(BulkVerb(req[t].op))

\* "A single failing VM doesn't mask the success of the others": the bulk
\* request has tried every VM it listed, each with one outcome.
BulkTriesAll ==
  \A t \in Threads : Answered(t) /\ req[t].op \in Bulk =>
    LET verb == BulkVerb(req[t].op)
    IN /\ Did(t) \union failed[t] = {Cmd(verb, v) : v \in listed[t]}
       /\ Did(t) \intersect failed[t] = {}

\* An Event is true: success means that the whole plan was carried out, failed
\* means that nothing was, and no request writes both.
EventIsTrue ==
  \A t \in Threads : Answered(t) =>
    /\ "success" \in log[t] => failed[t] = {} /\ done[t] = PlanOf(req[t])
    /\ "failed" \in log[t] => done[t] = <<>>
    /\ log[t] # {"success", "failed"}

\* The gaps in the audit log are these: the requests that write no Event, a
\* resize that failed half-way, and an Event that could not be saved.
OnlyTheseGoUnlogged ==
  \A t \in Threads : Answered(t) /\ done[t] # <<>> /\ log[t] = {} =>
    \/ req[t].op \in Bulk \union {"purge"}
    \/ req[t].op = "resize" /\ failed[t] # {}
    \/ answer[t] = "crash"

-----------------------------------------------------------------------------
(* The audit log: a request, until it is answered, is a job of AuditLedger.*)

Busy == {t \in Threads : pc[t] # "idle"}
Doers == {t \in Threads : done[t] # <<>>}
Losers == {t \in Threads : failed[t] # {}}
Reported == {e \in Threads \X {"success", "failed"} : e[2] \in log[e[1]]}

Audit == INSTANCE AuditLedger
  WITH Jobs <- Threads, begun <- Busy, good <- Doers, bad <- Losers, told <- Reported

\* A request writes one Event at most, after its last command and never before,
\* and the Event is true of the commands.
KeepsAudit == Audit!Spec
=============================================================================
