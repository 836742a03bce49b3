---------------------------- MODULE SchedulerTick ----------------------------
(***************************************************************************)
(* SchedulerTickJob, which Solid Queue runs every 30 seconds on a pool of  *)
(* worker threads, over the schedules that SchedulesController edits.  A   *)
(* tick takes the time once, loads the enabled schedules once, and then,   *)
(* schedule by schedule, decides, records last_fired_at, resolves the      *)
(* targets, operates on each VM and writes an Event.  A slow multipass     *)
(* makes a tick longer than 30 seconds, so ticks overlap.                  *)
(*                                                                         *)
(* Time is counted in minutes, with a calendar given by three constants.   *)
(***************************************************************************)
EXTENDS Naturals, FiniteSets

CONSTANTS
  Scheds,     \* ids of schedules, each used once (sch_ + SecureRandom.hex)
  Plans,      \* what a schedule may say: [time, days, action, group, vms]
  VMs,
  Groups,     \* names of the groups that exist
  MemberOf,   \* the group of each VM's vm_assignments row: a member of Groups,
              \* Nil for a row without a group, Absent for no row
  NoGroup,    \* group_name left blank
  Nil,
  Absent,
  Workers,    \* the worker threads of config/queue.yml
  MaxMinute,  \* a bound: the last minute
  Clock,      \* HH:MM of each minute
  Dom,        \* day of the month of each minute
  Wday        \* day of the week of each minute

Minutes == 1 .. MaxMinute

ASSUME ConstantsOK ==
  /\ MaxMinute \in Nat \ {0}
  /\ IsFiniteSet(VMs)
  /\ Scheds # {} /\ Plans # {}
  /\ MemberOf \in [VMs -> Groups \union {Nil, Absent}]
  /\ Nil \notin Groups /\ Absent \notin Groups /\ NoGroup \notin Groups
  /\ \A p \in Plans : /\ p.action \in {"start", "stop", "playbook"}
                      /\ p.vms \subseteq VMs

VARIABLES
  minute,   \* the clock
  state,    \* of each row of schedules: "none" (not created), "on" (enabled),
            \* "off" or "gone" (deleted)
  plan,     \* its plan
  last,     \* its last_fired_at, 0 for nil
  pc,       \* where each worker is in perform
  now,      \* its Time.current
  todo,     \* schedules of its snapshot it has not looked at
  copy,     \* its snapshot: [on, plan, last], on the loaded rows
  cur,      \* the schedule it is firing
  targets,  \* the VMs it resolved
  pending,  \* those it has not operated on
  failed,   \* those whose operation failed
  events,   \* Event rows: [sched, at, result]
  runs,     \* history: how often each schedule was fired in each minute, 2 = more
  acts,     \* history: how operations went, <<schedule, minute, success>>
  overlap   \* history: minutes some tick of which overlapped another tick

rows == <<state, plan, last>>
local == <<pc, now, todo, copy, cur, targets, pending, failed>>
history == <<runs, acts, overlap>>
vars == <<minute, rows, local, events, history>>

RowsOK ==
  /\ minute \in Minutes
  /\ state \in [Scheds -> {"none", "on", "off", "gone"}]
  /\ plan \in [Scheds -> Plans]
  /\ last \in [Scheds -> 0 .. MaxMinute]

TicksOK ==
  /\ pc \in [Workers -> {"idle", "each", "record", "resolve", "execute", "emit"}]
  /\ now \in [Workers -> Minutes]
  /\ todo \in [Workers -> SUBSET Scheds]
  /\ cur \in [Workers -> Scheds]
  /\ targets \in [Workers -> SUBSET VMs]
  /\ pending \in [Workers -> SUBSET VMs]
  /\ failed \in [Workers -> SUBSET VMs]

Snapshots == [on : SUBSET Scheds,
              plan : [Scheds -> Plans],
              last : [Scheds -> 0 .. MaxMinute]]

LogOK ==
  /\ events \subseteq [sched : Scheds, at : Minutes,
                       result : {"success", "failed", "partial", "no_targets"}]
  /\ runs \in [Scheds -> [Minutes -> 0 .. 2]]
  /\ acts \subseteq Scheds \X Minutes \X BOOLEAN
  /\ overlap \subseteq Minutes

TypeOK == RowsOK /\ TicksOK /\ copy \in [Workers -> Snapshots] /\ LogOK

\* Stand-ins for a variable that has no value yet
AnyPlan == CHOOSE p \in Plans : TRUE
AnySched == CHOOSE s \in Scheds : TRUE
Nothing == [on |-> {}, plan |-> [s \in Scheds |-> AnyPlan],
            last |-> [s \in Scheds |-> 0]]

Init ==
  /\ minute = 1
  /\ state = [s \in Scheds |-> "none"]
  /\ plan = [s \in Scheds |-> AnyPlan]
  /\ last = [s \in Scheds |-> 0]
  /\ pc = [w \in Workers |-> "idle"]
  /\ now = [w \in Workers |-> 1]
  /\ todo = [w \in Workers |-> {}]
  /\ copy = [w \in Workers |-> Nothing]
  /\ cur = [w \in Workers |-> AnySched]
  /\ targets = [w \in Workers |-> {}]
  /\ pending = [w \in Workers |-> {}]
  /\ failed = [w \in Workers |-> {}]
  /\ events = {}
  /\ runs = [s \in Scheds |-> [m \in Minutes |-> 0]]
  /\ acts = {}
  /\ overlap = {}

-----------------------------------------------------------------------------
(* Time and SchedulesController.                                           *)

TimePasses ==
  /\ minute < MaxMinute
  /\ minute' = minute + 1
  /\ UNCHANGED <<rows, local, events, history>>

\* create: a new row, under an id never used before
CreateSchedule(s, p) ==
  /\ state[s] = "none"
  /\ state' = [state EXCEPT ![s] = "on"]
  /\ plan' = [plan EXCEPT ![s] = p]
  /\ UNCHANGED <<minute, last, local, events, history>>

\* update: last_fired_at is not among the parameters and stays.
UpdateSchedule(s, p, x) ==
  /\ state[s] \in {"on", "off"}
  /\ x \in {"on", "off"}
  /\ state' = [state EXCEPT ![s] = x]
  /\ plan' = [plan EXCEPT ![s] = p]
  /\ UNCHANGED <<minute, last, local, events, history>>

DestroySchedule(s) ==
  /\ state[s] \in {"on", "off"}
  /\ state' = [state EXCEPT ![s] = "gone"]
  /\ UNCHANGED <<minute, plan, last, local, events, history>>

-----------------------------------------------------------------------------
(* The pure parts of the job.                                              *)

\* time_matches?
TimeMatches(p, m) ==
  /\ p.time = Clock[m]
  /\ p.days = {} \/ Wday[m] \in p.days

\* Mutant: the day is not compared.
SameMinuteOf_AnyDay(l, m) == l # 0 /\ Clock[l] = Clock[m]

\* already_fired_this_minute? compares hour, minute and day of the month.
SameMinuteOf(l, m) == l # 0 /\ Clock[l] = Clock[m] /\ Dom[l] = Dom[m]

\* Group.find_by(name: g), nil when there is no such group
FindGroup(g) == IF g \in Groups THEN g ELSE Nil

\* resolve_targets: where(group_id: nil) finds the rows without a group.
TargetsOf(p) ==
  IF p.group # NoGroup THEN {v \in VMs : MemberOf[v] = FindGroup(p.group)}
                       ELSE p.vms

\* Mutant: an off-by-one in the comparison of the counts.
Result_OffByOne(p, all, bad) ==
  CASE all = {} -> "no_targets"
    [] all # {} /\ (p.action = "playbook" \/ bad = {}) -> "success"
    [] OTHER -> IF Cardinality(bad) <= Cardinality(all) THEN "partial" ELSE "failed"

\* The result execute returns, or the one of the empty case before it; a
\* playbook is only logged.
Result(p, all, bad) ==
  CASE all = {} -> "no_targets"
    [] all # {} /\ (p.action = "playbook" \/ bad = {}) -> "success"
    [] OTHER -> IF Cardinality(bad) < Cardinality(all) THEN "partial" ELSE "failed"

-----------------------------------------------------------------------------
(* SchedulerTickJob#perform.                                               *)

Goto(w, l) == pc' = [pc EXCEPT ![w] = l]

\* now = Time.current and Schedule.where(enabled: true).to_a; a tick without
\* schedules returns at once.
TickStart(w) ==
  LET enabled == {s \in Scheds : state[s] = "on"}
      others == {x \in Workers \ {w} : pc[x] # "idle"}
  IN /\ pc[w] = "idle"
     /\ enabled # {}
     /\ Goto(w, "each")
     /\ now' = [now EXCEPT ![w] = minute]
     /\ todo' = [todo EXCEPT ![w] = enabled]
     /\ copy' = [copy EXCEPT ![w] = [on |-> enabled, plan |-> plan, last |-> last]]
     /\ overlap' = IF others = {} THEN overlap
                    ELSE overlap \union {minute} \union {now[x] : x \in others}
     /\ UNCHANGED <<minute, rows, cur, targets, pending, failed, events, runs,
                    acts>>

\* The two "next" guards, on the loaded copy
Fires(w, s) ==
  /\ TimeMatches(copy[w].plan[s], now[w])
  /\ ~ SameMinuteOf(copy[w].last[s], now[w])

Consider(w, s) ==
  /\ pc[w] = "each"
  /\ s \in todo[w]
  /\ todo' = [todo EXCEPT ![w] = @ \ {s}]
  /\ IF Fires(w, s)
       THEN Goto(w, "record") /\ cur' = [cur EXCEPT ![w] = s]
       ELSE UNCHANGED <<pc, cur>>
  /\ UNCHANGED <<minute, rows, now, copy, targets, pending, failed, events,
                 history>>

\* Mutant: last_fired_at is not saved.
Recorded_Not(s, m) == last

Recorded(s, m) == IF state[s] = "gone" THEN last ELSE [last EXCEPT ![s] = m]

\* sched.update!(last_fired_at: now): it writes that column only, and a row
\* deleted meanwhile is no error.
Record(w) ==
  /\ pc[w] = "record"
  /\ last' = Recorded(cur[w], now[w])
  /\ runs' = [runs EXCEPT ![cur[w]][now[w]] = IF @ < 2 THEN @ + 1 ELSE 2]
  /\ Goto(w, "resolve")
  /\ UNCHANGED <<minute, state, plan, now, todo, copy, cur, targets, pending,
                 failed, events, acts, overlap>>

Plan(w) == copy[w].plan[cur[w]]

Resolve(w) ==
  LET found == TargetsOf(Plan(w))
      operates == found # {} /\ Plan(w).action # "playbook"
  IN /\ pc[w] = "resolve"
     /\ targets' = [targets EXCEPT ![w] = found]
     /\ pending' = [pending EXCEPT ![w] = IF operates THEN found ELSE {}]
     /\ failed' = [failed EXCEPT ![w] = {}]
     /\ Goto(w, IF operates THEN "execute" ELSE "emit")
     /\ UNCHANGED <<minute, rows, now, todo, copy, cur, events, history>>

\* client.start_vm(name) or stop_vm(name), its error rescued and noted
Operate(w, v, ok) ==
  /\ pc[w] = "execute"
  /\ v \in pending[w]
  /\ ok \in BOOLEAN
  /\ pending' = [pending EXCEPT ![w] = @ \ {v}]
  /\ failed' = [failed EXCEPT ![w] = IF ok THEN @ ELSE @ \union {v}]
  /\ acts' = acts \union {<<cur[w], now[w], ok>>}
  /\ Goto(w, IF pending[w] = {v} THEN "emit" ELSE "execute")
  /\ UNCHANGED <<minute, rows, now, todo, copy, cur, targets, events, runs,
                 overlap>>

EmitEvent(w) ==
  /\ pc[w] = "emit"
  /\ events' = events \union
       {[sched |-> cur[w], at |-> now[w],
         result |-> Result(Plan(w), targets[w], failed[w])]}
  /\ Goto(w, "each")
  /\ cur' = [cur EXCEPT ![w] = AnySched]
  /\ targets' = [targets EXCEPT ![w] = {}]
  /\ failed' = [failed EXCEPT ![w] = {}]
  /\ UNCHANGED <<minute, rows, now, todo, copy, pending, history>>

\* The thread is free again.
Leave(w) ==
  /\ Goto(w, "idle")
  /\ now' = [now EXCEPT ![w] = 1]
  /\ todo' = [todo EXCEPT ![w] = {}]
  /\ copy' = [copy EXCEPT ![w] = Nothing]
  /\ cur' = [cur EXCEPT ![w] = AnySched]
  /\ targets' = [targets EXCEPT ![w] = {}]
  /\ pending' = [pending EXCEPT ![w] = {}]
  /\ failed' = [failed EXCEPT ![w] = {}]
  /\ UNCHANGED <<minute, rows, events, history>>

TickEnd(w) ==
  /\ pc[w] = "each"
  /\ todo[w] = {}
  /\ Leave(w)

\* An Event id is taken (RecordNotUnique), the database fails, or the process
\* is restarted: the job is not tried again.
TickDies(w) ==
  /\ pc[w] # "idle"
  /\ Leave(w)

-----------------------------------------------------------------------------
Tick(w) ==
  \/ TickStart(w)
  \/ \E s \in Scheds : Consider(w, s)
  \/ Record(w)
  \/ Resolve(w)
  \/ \E v \in VMs, ok \in BOOLEAN : Operate(w, v, ok)
  \/ EmitEvent(w)
  \/ TickEnd(w)
  \/ TickDies(w)

Edit(s) ==
  \/ \E p \in Plans : \/ CreateSchedule(s, p)
                      \/ \E x \in {"on", "off"} : UpdateSchedule(s, p, x)
  \/ DestroySchedule(s)

Next ==
  \/ TimePasses
  \/ \E s \in Scheds : Edit(s)
  \/ \E w \in Workers : Tick(w)

Spec == Init /\ [][Next]_vars

-----------------------------------------------------------------------------
(* Properties that hold.                                                   *)

\* In a minute no tick of which overlapped another, a schedule fires at most
\* once, through edits, deletions and ticks that die half-way.
OnceUnlessOverlap ==
  \A s \in Scheds, m \in Minutes \ overlap : runs[s][m] <= 1

\* A tick that has gone past a schedule it had loaded as enabled, due, and not
\* fired on such a date, has fired it: neither another schedule's empty target
\* list nor a failing VM makes it skip one.  (The date has no month or year: a
\* schedule that last fired on the same day of an earlier month is skipped.)
NothingDueIsSkipped ==
  \A w \in Workers : pc[w] = "each" =>
    \A s \in copy[w].on \ todo[w] :
      LET l == copy[w].last[s]
      IN \/ ~ TimeMatches(copy[w].plan[s], now[w])
         \/ l # 0 /\ Clock[l] = Clock[now[w]] /\ Dom[l] = Dom[now[w]]
         \/ runs[s][now[w]] > 0

Did(e, ok) == <<e.sched, e.at, ok>> \in acts

\* The result in the Event is what happened to the VMs: success only if none
\* failed, failed only if all did, partial only if some did, no_targets only
\* if none was touched.
EventTellsOutcome ==
  \A e \in events : e.at \notin overlap =>
    CASE e.result = "success" -> ~ Did(e, FALSE)
      [] e.result = "failed" -> Did(e, FALSE) /\ ~ Did(e, TRUE)
      [] e.result = "partial" -> Did(e, FALSE) /\ Did(e, TRUE)
      [] e.result = "no_targets" -> ~ Did(e, FALSE) /\ ~ Did(e, TRUE)

\* No VM is operated on in the name of a schedule before the firing is
\* recorded, so that a tick that dies is not repeated on a VM it reached; and
\* unless ticks overlapped, the record does not fall behind what was done.
RecordedBeforeActing ==
  \A a \in acts : \/ state[a[1]] = "gone"
                  \/ /\ last[a[1]] # 0
                     /\ a[2] \notin overlap => a[2] <= last[a[1]]

-----------------------------------------------------------------------------
(* The audit log.  In a minute without overlapping ticks, the firing of a  *)
(* schedule is a job of AuditLedger; the others are forgotten.             *)

Clean == Scheds \X (Minutes \ overlap)
Fired == {f \in Clean : runs[f[1]][f[2]] > 0}
Went(ok) == {f \in Clean : <<f[1], f[2], ok>> \in acts}
Reported ==
  {<<<<e.sched, e.at>>, e.result>> : e \in {x \in events : x.at \notin overlap}}

Audit == INSTANCE AuditLedger
  WITH Jobs <- Scheds \X Minutes, begun <- Fired, good <- Went(TRUE), bad <- Went(FALSE),
       told <- Reported

\* A firing writes one Event at most, when it is over, and the Event is true of
\* it: no later tick, in that minute, does anything more in the name of that
\* schedule, or writes another.
KeepsAudit == Audit!Spec
=============================================================================
