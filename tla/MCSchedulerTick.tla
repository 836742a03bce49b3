-------------------------- MODULE MCSchedulerTick --------------------------
(***************************************************************************)
(* SchedulerTick on a small instance.  The two minutes are 09:00 on the    *)
(* 1st and 09:00 on the 2nd; the plans are a group of two VMs on one day,  *)
(* a playbook on the other for a group that does not exist, and an empty   *)
(* group every day.                                                        *)
(***************************************************************************)
EXTENDS SchedulerTick, TLC

CONSTANTS g, empty, typo, a, b, t, u

MCVMs == {a, b, t, u}
MCGroups == {g, empty}
\* t is a template VM: lib/tasks/migrate_from_go.rake gives it no group.
MCMemberOf == (a :> g) @@ (b :> g) @@ (t :> Nil) @@ (u :> Absent)

PlanOf(action, days, group, vms) ==
  [time |-> "09:00", days |-> days, action |-> action, group |-> group, vms |-> vms]

MCPlans == {PlanOf("start", {1}, g, {}), PlanOf("playbook", {2}, typo, {}),
            PlanOf("stop", {}, empty, {})}

MCClock == <<"09:00", "09:00">>
MCDom == <<1, 2>>
MCWday == <<1, 2>>
MCMaxMinute == 2

\* Worker threads are interchangeable.
Symmetric == Permutations(Workers)
=============================================================================
