------------------------ MODULE SchedulerTick_proofs ------------------------
(***************************************************************************)
(* Proofs about SchedulerTick, for any schedules, plans, workers and       *)
(* calendar.  The main theorem is OnceUnlessOverlapAlways: the check of    *)
(* last_fired_at does keep a schedule from firing twice in a minute as     *)
(* long as no ticks overlap.  A history of the past (which schedules fired *)
(* in which minute) is tied to the rows and to the snapshots of the ticks  *)
(* under way.                                                              *)
(***************************************************************************)
EXTENDS SchedulerTick, FiniteSetTheorems, TLAPS

LEMMA StandIns == AnyPlan \in Plans /\ AnySched \in Scheds
BY ConstantsOK DEF AnyPlan, AnySched

\* resolve_targets returns VMs only.
LEMMA TargetsAreVMs ==
  ASSUME NEW p \in Plans
  PROVE  TargetsOf(p) \subseteq VMs
BY ConstantsOK DEF TargetsOf

-----------------------------------------------------------------------------
(* Types.                                                                  *)

LEMMA TypeInit == Init => TypeOK
BY ConstantsOK, StandIns DEF Init, TypeOK, RowsOK, TicksOK, Snapshots, LogOK, Nothing,
     Minutes

LEMMA TypeStep ==
  ASSUME TypeOK, [Next]_vars
  PROVE  TypeOK'
<1> USE ConstantsOK, StandIns DEF TypeOK, RowsOK, TicksOK, Snapshots, LogOK, rows, local,
        history, Goto, Minutes
<1>1. CASE TimePasses
  <2>1. minute' \in Minutes
    <3>1. minute \in Nat /\ minute < MaxMinute /\ minute' = minute + 1
      BY <1>1 DEF TimePasses
    <3> HIDE DEF TypeOK
    <3> QED BY <3>1
  <2>2. UNCHANGED <<rows, local, events, history>>
    BY <1>1 DEF TimePasses
  <2> HIDE DEF Minutes
  <2> QED BY <2>1, <2>2
<1>2. ASSUME NEW s \in Scheds, Edit(s) PROVE TypeOK'
  <2>1. ASSUME NEW p \in Plans, CreateSchedule(s, p) PROVE TypeOK'
    BY <2>1 DEF CreateSchedule
  <2>2. ASSUME NEW p \in Plans, NEW x \in {"on", "off"}, UpdateSchedule(s, p, x)
       PROVE  TypeOK'
    BY <2>2 DEF UpdateSchedule
  <2>3. CASE DestroySchedule(s)
    BY <2>3 DEF DestroySchedule
  <2> HIDE DEF TypeOK
  <2> QED BY <1>2, <2>1, <2>2, <2>3 DEF Edit
<1>3. ASSUME NEW w \in Workers, Tick(w) PROVE TypeOK'
  <2>1. CASE TickStart(w)
    <3>1. RowsOK'
      BY <2>1 DEF TickStart
    <3>2. TicksOK'
      BY <2>1 DEF TickStart
    <3>3. copy' \in [Workers -> Snapshots]
      BY <2>1 DEF TickStart
    <3>4. LogOK'
      <4>1. \A x \in Workers : now[x] \in Minutes
        OBVIOUS
      <4>2. overlap' \subseteq Minutes
        <5> DEFINE others == {x \in Workers \ {w} : pc[x] # "idle"}
        <5>1. {now[x] : x \in others} \subseteq Minutes /\ minute \in Minutes
          BY <4>1
        <5>2. \/ overlap' = overlap
              \/ overlap' = overlap \union {minute} \union {now[x] : x \in others}
          BY <2>1 DEF TickStart
        <5>3. overlap \subseteq Minutes
          OBVIOUS
        <5> HIDE DEF others, TypeOK
        <5> QED BY <5>1, <5>2, <5>3
      <4> QED BY <2>1, <4>2 DEF TickStart
    <3> QED BY <3>1, <3>2, <3>3, <3>4
  <2>2. ASSUME NEW s \in Scheds, Consider(w, s) PROVE TypeOK'
    <3>1. RowsOK'
      BY <2>2 DEF Consider
    <3>2. TicksOK'
      <4>1. /\ pc' \in [Workers -> {"idle", "each", "record", "resolve",
                                   "execute", "emit"}]
            /\ cur' \in [Workers -> Scheds]
        <5>1. CASE Fires(w, s)
          <6>1. /\ pc' = [pc EXCEPT ![w] = "record"]
                /\ cur' = [cur EXCEPT ![w] = s]
            BY <2>2, <5>1 DEF Consider
          <6> QED BY <6>1
        <5>2. CASE ~ Fires(w, s)
          BY <2>2, <5>2 DEF Consider
        <5> QED BY <5>1, <5>2
      <4> QED BY <2>2, <4>1 DEF Consider
    <3>3. copy' \in [Workers -> Snapshots]
      BY <2>2 DEF Consider
    <3>4. LogOK'
      BY <2>2 DEF Consider
    <3> QED BY <3>1, <3>2, <3>3, <3>4
  <2>3. CASE Record(w)
    <3>1. RowsOK'
      BY <2>3 DEF Record, Recorded
    <3>2. TicksOK'
      BY <2>3 DEF Record, Recorded
    <3>3. copy' \in [Workers -> Snapshots]
      BY <2>3 DEF Record, Recorded
    <3>4. LogOK'
      <4>1. runs' \in [Scheds -> [Minutes -> 0 .. 2]]
        <5>1. cur[w] \in Scheds /\ now[w] \in Minutes
          OBVIOUS
        <5>2. runs[cur[w]] \in [Minutes -> 0 .. 2]
          BY <5>1
        <5> DEFINE n == runs[cur[w]][now[w]]
        <5>3. n \in 0 .. 2
          BY <5>1, <5>2
        <5> HIDE DEF n, TypeOK
        <5>4. (IF n < 2 THEN n + 1 ELSE 2) \in 0 .. 2
          BY <5>3
        <5> USE DEF n, TypeOK
        <5> QED BY <2>3, <5>1, <5>2, <5>4 DEF Record
      <4> QED BY <2>3, <4>1 DEF Record
    <3> QED BY <3>1, <3>2, <3>3, <3>4
  <2>4. CASE Resolve(w)
    <3>1. RowsOK'
      BY <2>4 DEF Resolve
    <3>2. TicksOK'
      <4>1. Plan(w) \in Plans
        BY DEF Plan
      <4>2. TargetsOf(Plan(w)) \subseteq VMs
        BY <4>1, TargetsAreVMs
      <4> QED BY <2>4, <4>2 DEF Resolve
    <3>3. copy' \in [Workers -> Snapshots]
      BY <2>4 DEF Resolve
    <3>4. LogOK'
      BY <2>4 DEF Resolve
    <3> QED BY <3>1, <3>2, <3>3, <3>4
  <2>5. ASSUME NEW v \in VMs, NEW ok \in BOOLEAN, Operate(w, v, ok) PROVE TypeOK'
    <3>1. RowsOK'
      BY <2>5 DEF Operate
    <3>2. TicksOK'
      BY <2>5 DEF Operate
    <3>3. copy' \in [Workers -> Snapshots]
      BY <2>5 DEF Operate
    <3>4. LogOK'
      BY <2>5 DEF Operate
    <3> QED BY <3>1, <3>2, <3>3, <3>4
  <2>6. CASE EmitEvent(w)
    <3>1. RowsOK'
      BY <2>6 DEF EmitEvent, Result
    <3>2. TicksOK'
      BY <2>6 DEF EmitEvent, Result
    <3>3. copy' \in [Workers -> Snapshots]
      BY <2>6 DEF EmitEvent, Result
    <3>4. LogOK'
      BY <2>6 DEF EmitEvent, Result
    <3> QED BY <3>1, <3>2, <3>3, <3>4
  <2>7. CASE TickEnd(w)
    <3>1. RowsOK'
      BY <2>7 DEF TickEnd, Leave, Nothing
    <3>2. TicksOK'
      BY <2>7 DEF TickEnd, Leave, Nothing
    <3>3. copy' \in [Workers -> Snapshots]
      BY <2>7 DEF TickEnd, Leave, Nothing
    <3>4. LogOK'
      BY <2>7 DEF TickEnd, Leave, Nothing
    <3> QED BY <3>1, <3>2, <3>3, <3>4
  <2>8. CASE TickDies(w)
    <3>1. RowsOK'
      BY <2>8 DEF TickDies, Leave, Nothing
    <3>2. TicksOK'
      BY <2>8 DEF TickDies, Leave, Nothing
    <3>3. copy' \in [Workers -> Snapshots]
      BY <2>8 DEF TickDies, Leave, Nothing
    <3>4. LogOK'
      BY <2>8 DEF TickDies, Leave, Nothing
    <3> QED BY <3>1, <3>2, <3>3, <3>4
  <2> HIDE DEF TypeOK
  <2> QED BY <1>3, <2>1, <2>2, <2>3, <2>4, <2>5, <2>6, <2>7, <2>8 DEF Tick
<1>4. CASE UNCHANGED vars
  BY <1>4 DEF vars
<1> HIDE DEF TypeOK
<1> QED BY <1>1, <1>2, <1>3, <1>4 DEF Next

\* Every variable keeps its type in every behaviour.
THEOREM TypeCorrect == Spec => []TypeOK
BY TypeInit, TypeStep, PTL DEF Spec

-----------------------------------------------------------------------------
(* At most once a minute.                                                  *)

Active(w) == pc[w] # "idle"

\* Two ticks under way at once mark the minutes of both, no tick is ahead of
\* the clock, and nothing fired in a minute to come.
OverlapMarked ==
  /\ \A w, x \in Workers : Active(w) /\ Active(x) /\ w # x => now[w] \in overlap
  /\ \A w \in Workers : now[w] <= minute
  /\ \A s \in Scheds, m \in Minutes : runs[s][m] > 0 => m <= minute

\* A tick under way started no later than any firing in a clean minute.
NotBehind ==
  \A w \in Workers, s \in Scheds, m \in Minutes \ overlap :
    Active(w) /\ runs[s][m] > 0 => m <= now[w]

\* What fired in a clean minute is on record until the minute is over.
OnRecord ==
  \A s \in Scheds, m \in Minutes \ overlap :
    runs[s][m] > 0 => state[s] = "gone" \/ last[s] = m \/ m < minute

\* What fired in the clean minute of a tick under way, that tick will not fire
\* again: it is past it, or sees it in its snapshot.
SeenByTick ==
  \A w \in Workers, s \in Scheds :
    Active(w) /\ now[w] \notin overlap /\ runs[s][now[w]] > 0 =>
      /\ s \notin todo[w] \/ copy[w].last[s] = now[w]
      /\ pc[w] = "record" => cur[w] # s

\* The schedule a tick is about to record is one it will not come back to.
LookedAt == \A w \in Workers : pc[w] = "record" => cur[w] \notin todo[w]

OnceInv ==
  OverlapMarked /\ NotBehind /\ OnRecord /\ SeenByTick /\ LookedAt
    /\ OnceUnlessOverlap

LEMMA OnceInit == Init => OnceInv
BY ConstantsOK DEF Init, OnceInv, OverlapMarked, NotBehind, OnRecord, SeenByTick,
     LookedAt, OnceUnlessOverlap, Active, Minutes

\* What Record changes.
LEMMA RecordEffect ==
  ASSUME TypeOK, NEW w \in Workers, Record(w)
  PROVE  LET s == cur[w]
             m == now[w]
         IN /\ s \in Scheds /\ m \in Minutes
            /\ pc[w] = "record"
            /\ pc' = [pc EXCEPT ![w] = "resolve"]
            /\ UNCHANGED <<minute, state, now, todo, copy, cur, acts, overlap>>
            /\ state[s] = "gone" \/ last'[s] = m
            /\ \A r \in Scheds : r # s => last'[r] = last[r]
            /\ runs'[s][m] > 0
            /\ runs[s][m] = 0 => runs'[s][m] = 1
            /\ \A r \in Scheds, n \in Minutes :
                 /\ runs[r][n] \in Nat /\ runs'[r][n] \in Nat
                 /\ r # s \/ n # m => runs'[r][n] = runs[r][n]
<1> DEFINE s == cur[w]
           m == now[w]
           k == IF runs[s][m] < 2 THEN runs[s][m] + 1 ELSE 2
<1>1. s \in Scheds /\ m \in Minutes
  BY DEF TypeOK, TicksOK
<1>2. /\ pc[w] = "record"
      /\ pc' = [pc EXCEPT ![w] = "resolve"]
      /\ UNCHANGED <<minute, state, now, todo, copy, cur, acts, overlap>>
  BY DEF Record, Goto
<1>3. /\ state[s] = "gone" \/ last'[s] = m
      /\ \A r \in Scheds : r # s => last'[r] = last[r]
  BY <1>1 DEF Record, Recorded, TypeOK, RowsOK
<1>4. /\ runs \in [Scheds -> [Minutes -> 0 .. 2]]
      /\ runs[s] \in [Minutes -> 0 .. 2]
      /\ runs[s][m] \in 0 .. 2
  BY <1>1 DEF TypeOK, LogOK
<1>5. k \in 1 .. 2 /\ (runs[s][m] = 0 => k = 1)
  BY <1>4
<1>6. runs' = [runs EXCEPT ![s] = [runs[s] EXCEPT ![m] = k]]
  BY DEF Record
<1> HIDE DEF k, s, m
<1>7. /\ runs'[s][m] > 0
      /\ runs[s][m] = 0 => runs'[s][m] = 1
      /\ \A r \in Scheds, n \in Minutes :
           /\ runs[r][n] \in Nat /\ runs'[r][n] \in Nat
           /\ r # s \/ n # m => runs'[r][n] = runs[r][n]
  BY <1>1, <1>4, <1>5, <1>6
<1> QED BY <1>1, <1>2, <1>3, <1>7 DEF s, m

LEMMA RecordKeepsOnce ==
  ASSUME TypeOK, OnceInv, NEW w \in Workers, Record(w)
  PROVE  OnceInv'
<1> DEFINE s == cur[w]
           m == now[w]
<1>1. /\ s \in Scheds /\ m \in Minutes
      /\ minute \in Nat /\ Minutes \subseteq Nat
      /\ now \in [Workers -> Minutes]
  BY ConstantsOK DEF TypeOK, RowsOK, TicksOK, Minutes
<1>2. /\ pc[w] = "record"
      /\ pc'[w] = "resolve"
      /\ \A x \in Workers : Active(x)' <=> Active(x)
      /\ \A x \in Workers \ {w} : pc'[x] = pc[x]
      /\ UNCHANGED <<minute, state, now, todo, copy, cur, overlap>>
  BY RecordEffect DEF Active, TypeOK, TicksOK
<1>3. /\ state[s] = "gone" \/ last'[s] = m
      /\ \A r \in Scheds : r # s => last'[r] = last[r]
  BY RecordEffect
<1>4. /\ runs'[s][m] > 0
      /\ runs[s][m] = 0 => runs'[s][m] = 1
      /\ \A r \in Scheds, n \in Minutes :
           /\ runs[r][n] \in Nat
           /\ r # s \/ n # m => runs'[r][n] = runs[r][n]
  BY RecordEffect
<1>5. Active(w)
  BY <1>2 DEF Active
<1>6. \A x \in Workers : Active(x) /\ x # w => m \in overlap /\ now[x] \in overlap
  BY <1>5 DEF OnceInv, OverlapMarked
<1>7. m <= minute
  BY DEF OnceInv, OverlapMarked
<1> HIDE DEF s, m
<1>8. OverlapMarked'
  BY <1>1, <1>2, <1>4, <1>7 DEF OnceInv, OverlapMarked
<1>9. NotBehind'
  BY <1>1, <1>2, <1>4, <1>6 DEF OnceInv, NotBehind, m
<1>10. OnRecord'
  <2> SUFFICES ASSUME NEW r \in Scheds, NEW n \in Minutes, n \notin overlap,
                      runs'[r][n] > 0, state[r] # "gone"
               PROVE  last'[r] = n \/ n < minute
    BY <1>2 DEF OnRecord
  <2>1. CASE r = s /\ n = m
    BY <1>3, <2>1
  <2>2. CASE r = s /\ n # m
    <3>1. runs[r][n] > 0
      BY <1>4, <2>2
    <3>2. n <= m
      BY <1>5, <3>1 DEF OnceInv, NotBehind, m
    <3>3. n \in Nat /\ m \in Nat /\ minute \in Nat
      BY <1>1
    <3> QED BY <1>7, <2>2, <3>2, <3>3
  <2>3. CASE r # s
    BY <1>3, <1>4, <2>3 DEF OnceInv, OnRecord
  <2> QED BY <2>1, <2>2, <2>3
<1>11. LookedAt'
  BY <1>1, <1>2 DEF OnceInv, LookedAt
<1>12. SeenByTick'
  <2> SUFFICES ASSUME NEW x \in Workers, NEW r \in Scheds, Active(x),
                      now[x] \notin overlap, runs'[r][now[x]] > 0
               PROVE  /\ r \notin todo[x] \/ copy[x].last[r] = now[x]
                      /\ pc'[x] = "record" => cur[x] # r
    BY <1>2 DEF SeenByTick
  <2>1. x = w
    BY <1>6
  <2>2. CASE r = s
    BY <1>2, <2>1, <2>2 DEF OnceInv, LookedAt, s
  <2>3. CASE r # s
    BY <1>1, <1>2, <1>4, <2>1, <2>3 DEF OnceInv, SeenByTick, m
  <2> QED BY <2>2, <2>3
<1>13. OnceUnlessOverlap'
  <2>1. m \notin overlap => ~ runs[s][m] > 0
    BY <1>1, <1>2, <1>5 DEF OnceInv, SeenByTick, s, m
  <2>2. m \notin overlap => runs'[s][m] = 1
    BY <1>1, <1>4, <2>1
  <2>3. ASSUME NEW r \in Scheds, NEW n \in Minutes \ overlap PROVE runs'[r][n] <= 1
    <3>1. CASE r = s /\ n = m
      BY <2>2, <3>1
    <3>2. CASE r # s \/ n # m
      BY <1>4, <3>2 DEF OnceInv, OnceUnlessOverlap
    <3> QED BY <3>1, <3>2
  <2> QED BY <1>2, <2>3 DEF OnceUnlessOverlap
<1> QED BY <1>8, <1>9, <1>10, <1>11, <1>12, <1>13 DEF OnceInv

\* What the steps other than Record, TickStart and a firing Consider do to the
\* rows and the ticks keeps the invariant: a worker is free, or goes on with the
\* same snapshot and does not begin to fire.
LEMMA QuietKeepsOnce ==
  ASSUME TypeOK, TypeOK', OnceInv,
         UNCHANGED <<last, runs, overlap>>, minute <= minute',
         \A s \in Scheds : state[s] = "gone" => state'[s] = "gone",
         \A x \in Workers :
            \/ pc'[x] = "idle" /\ now'[x] <= minute'
            \/ /\ pc[x] # "idle"
               /\ now'[x] = now[x] /\ copy'[x] = copy[x]
               /\ todo'[x] \subseteq todo[x]
               /\ pc'[x] = "record" => pc[x] = "record" /\ cur'[x] = cur[x]
  PROVE  OnceInv'
<1>1. /\ minute \in Nat /\ minute' \in Nat
      /\ Minutes \subseteq Nat
      /\ \A x \in Workers : now[x] \in Nat /\ now'[x] \in Nat
  BY ConstantsOK DEF TypeOK, RowsOK, TicksOK, Minutes
<1>2. \A s \in Scheds, m \in Minutes : runs[s][m] \in Nat
  BY DEF TypeOK, LogOK
<1>3. OverlapMarked'
  <2>1. \A w, x \in Workers : Active(w)' /\ Active(x)' /\ w # x => now'[w] \in overlap
    BY DEF OnceInv, OverlapMarked, Active
  <2>2. \A w \in Workers : now'[w] <= minute'
    BY <1>1 DEF OnceInv, OverlapMarked
  <2>3. \A s \in Scheds, m \in Minutes : runs[s][m] > 0 => m <= minute'
    BY <1>1, <1>2 DEF OnceInv, OverlapMarked
  <2> QED BY <2>1, <2>2, <2>3 DEF OverlapMarked
<1>4. NotBehind'
  BY DEF OnceInv, NotBehind, Active
<1>5. OnRecord'
  <2> SUFFICES ASSUME NEW s \in Scheds, NEW m \in Minutes, m \notin overlap,
                      runs[s][m] > 0
               PROVE  state'[s] = "gone" \/ last[s] = m \/ m < minute'
    BY DEF OnRecord
  <2>1. state[s] = "gone" \/ last[s] = m \/ m < minute
    BY DEF OnceInv, OnRecord
  <2>2. m \in Nat
    BY <1>1
  <2> QED BY <1>1, <2>1, <2>2
<1>6. SeenByTick'
  BY DEF OnceInv, SeenByTick, Active
<1>7. LookedAt'
  BY DEF OnceInv, LookedAt
<1>8. OnceUnlessOverlap'
  BY DEF OnceInv, OnceUnlessOverlap
<1> QED BY <1>3, <1>4, <1>5, <1>6, <1>7, <1>8 DEF OnceInv

\* What an edit leaves alone: no tick, nothing of the history and no
\* last_fired_at, and what is deleted stays so.
RowsOnly ==
  /\ UNCHANGED <<minute, last, local, events, history>>
  /\ \A s \in Scheds : state[s] = "gone" => state'[s] = "gone"

LEMMA EditEffect ==
  ASSUME TypeOK, NEW r \in Scheds, Edit(r)
  PROVE  RowsOnly
<1>1. ASSUME NEW p \in Plans, CreateSchedule(r, p) PROVE RowsOnly
  BY <1>1 DEF CreateSchedule, TypeOK, RowsOK, RowsOnly
<1>2. ASSUME NEW p \in Plans, NEW x \in {"on", "off"}, UpdateSchedule(r, p, x)
      PROVE  RowsOnly
  BY <1>2 DEF UpdateSchedule, TypeOK, RowsOK, RowsOnly
<1>3. CASE DestroySchedule(r)
  BY <1>3 DEF DestroySchedule, TypeOK, RowsOK, RowsOnly
<1> QED BY <1>1, <1>2, <1>3 DEF Edit

LEMMA EditKeepsOnce ==
  ASSUME TypeOK, TypeOK', OnceInv, NEW r \in Scheds, Edit(r)
  PROVE  OnceInv'
<1>1. /\ UNCHANGED <<minute, last, local, history>>
      /\ \A s \in Scheds : state[s] = "gone" => state'[s] = "gone"
  BY EditEffect DEF RowsOnly
<1>2. minute \in Nat
  BY ConstantsOK DEF TypeOK, RowsOK, Minutes
<1>3. \A x \in Workers : now[x] <= minute
  BY DEF OnceInv, OverlapMarked
<1> QED BY <1>1, <1>2, <1>3, QuietKeepsOnce DEF local, history

LEMMA TickStartKeepsOnce ==
  ASSUME TypeOK, OnceInv, NEW w \in Workers, TickStart(w)
  PROVE  OnceInv'
<1>1. /\ pc'[w] = "each" /\ now'[w] = minute
      /\ copy'[w].last = last
      /\ \A x \in Workers \ {w} : /\ pc'[x] = pc[x] /\ now'[x] = now[x]
                                 /\ todo'[x] = todo[x] /\ copy'[x] = copy[x]
      /\ \A x \in Workers : cur'[x] = cur[x]
      /\ UNCHANGED <<minute, state, last, runs>>
  BY DEF TickStart, Goto, TypeOK, TicksOK, rows
<1>2. overlap \subseteq overlap'
  BY DEF TickStart
<1>3. ASSUME NEW x \in Workers \ {w}, Active(x)
     PROVE  minute \in overlap' /\ now[x] \in overlap'
  BY <1>3 DEF TickStart, Active
<1>4. minute \in Nat /\ Minutes \subseteq Nat
  BY ConstantsOK DEF TypeOK, RowsOK, Minutes
<1>5. OverlapMarked'
  <2>1. ASSUME NEW x \in Workers, NEW y \in Workers, x # y, Active(x)', Active(y)'
       PROVE  now'[x] \in overlap'
    <3>1. CASE x = w
      BY <1>1, <1>3, <2>1, <3>1 DEF Active
    <3>2. CASE x # w
      BY <1>1, <1>3, <2>1, <3>2 DEF Active
    <3> QED BY <3>1, <3>2
  <2>2. \A x \in Workers : now'[x] <= minute'
    BY <1>1, <1>4 DEF OnceInv, OverlapMarked
  <2>3. \A r \in Scheds, m \in Minutes : runs'[r][m] > 0 => m <= minute'
    BY <1>1 DEF OnceInv, OverlapMarked
  <2> QED BY <2>1, <2>2, <2>3 DEF OverlapMarked
<1>6. NotBehind'
  <2> SUFFICES ASSUME NEW x \in Workers, NEW s \in Scheds, NEW m \in Minutes,
                      m \notin overlap', Active(x)', runs[s][m] > 0
               PROVE  m <= now'[x]
    BY <1>1 DEF NotBehind
  <2>1. CASE x = w
    BY <1>1, <2>1 DEF OnceInv, OverlapMarked
  <2>2. CASE x # w
    BY <1>1, <1>2, <2>2 DEF OnceInv, NotBehind, Active
  <2> QED BY <2>1, <2>2
<1>7. OnRecord'
  BY <1>1, <1>2 DEF OnceInv, OnRecord
<1>8. OnceUnlessOverlap'
  BY <1>1, <1>2 DEF OnceInv, OnceUnlessOverlap
<1>9. LookedAt'
  BY <1>1 DEF OnceInv, LookedAt
<1>10. SeenByTick'
  <2> SUFFICES ASSUME NEW x \in Workers, NEW s \in Scheds, Active(x)',
                      now'[x] \notin overlap', runs[s][now'[x]] > 0
               PROVE  /\ s \notin todo'[x] \/ copy'[x].last[s] = now'[x]
                      /\ pc'[x] = "record" => cur'[x] # s
    BY <1>1 DEF SeenByTick
  <2>1. CASE x = w
    <3>1. todo'[w] = {r \in Scheds : state[r] = "on"}
      BY DEF TickStart, TypeOK, TicksOK
    <3>2. minute \in Minutes /\ minute \notin overlap /\ runs[s][minute] > 0
      BY <1>1, <1>2, <2>1 DEF TypeOK, RowsOK
    <3>3. state[s] = "gone" \/ last[s] = minute \/ minute < minute
      BY <3>2 DEF OnceInv, OnRecord
    <3> QED BY <1>1, <1>4, <2>1, <3>1, <3>3
  <2>2. CASE x # w
    BY <1>1, <1>2, <2>2 DEF OnceInv, SeenByTick, Active
  <2> QED BY <2>1, <2>2
<1> QED BY <1>5, <1>6, <1>7, <1>8, <1>9, <1>10 DEF OnceInv

\* A tick begins to fire a schedule whose loaded last_fired_at is not now.
LEMMA FiringKeepsOnce ==
  ASSUME TypeOK, OnceInv, NEW w \in Workers, NEW s \in Scheds, Consider(w, s), Fires(w, s)
  PROVE  OnceInv'
<1>1. /\ pc[w] = "each" /\ s \in todo[w]
      /\ todo'[w] = todo[w] \ {s}
      /\ pc'[w] = "record" /\ cur'[w] = s
      /\ \A x \in Workers \ {w} : /\ pc'[x] = pc[x] /\ todo'[x] = todo[x]
                                 /\ cur'[x] = cur[x]
      /\ UNCHANGED <<minute, state, last, now, copy, runs, overlap>>
  BY DEF Consider, Goto, TypeOK, TicksOK, rows, history
<1>2. \A x \in Workers : Active(x)' <=> Active(x)
  BY <1>1 DEF Active
<1>3. copy[w].last[s] # now[w]
  <2>1. now[w] \in Minutes /\ 0 \notin Minutes
    BY ConstantsOK DEF TypeOK, TicksOK, Minutes
  <2> QED BY <2>1 DEF Fires, SameMinuteOf
<1>4. OverlapMarked' /\ NotBehind'
  BY <1>1, <1>2 DEF OnceInv, OverlapMarked, NotBehind
<1>5. OnRecord' /\ OnceUnlessOverlap'
  BY <1>1 DEF OnceInv, OnRecord, OnceUnlessOverlap
<1>6. LookedAt'
  BY <1>1 DEF OnceInv, LookedAt
<1>7. SeenByTick'
  <2> SUFFICES ASSUME NEW x \in Workers, NEW r \in Scheds, Active(x),
                      now[x] \notin overlap, runs[r][now[x]] > 0
               PROVE  /\ r \notin todo'[x] \/ copy[x].last[r] = now[x]
                      /\ pc'[x] = "record" => cur'[x] # r
    BY <1>1, <1>2 DEF SeenByTick
  <2>1. r \notin todo[x] \/ copy[x].last[r] = now[x]
    BY DEF OnceInv, SeenByTick
  <2>2. CASE x = w
    BY <1>1, <1>3, <2>1, <2>2
  <2>3. CASE x # w
    BY <1>1, <2>1, <2>3 DEF OnceInv, SeenByTick
  <2> QED BY <2>2, <2>3
<1> QED BY <1>4, <1>5, <1>6, <1>7 DEF OnceInv

\* What the other steps of a tick leave alone: the rows, the history of firings
\* and the other ticks; the tick itself goes on with its snapshot or leaves.
Quietly(w) ==
  /\ UNCHANGED <<minute, state, last, runs, overlap>>
  /\ \A x \in Workers \ {w} :
       /\ pc'[x] = pc[x] /\ now'[x] = now[x] /\ todo'[x] = todo[x]
       /\ copy'[x] = copy[x] /\ cur'[x] = cur[x]
  /\ \/ pc'[w] = "idle" /\ now'[w] = 1
     \/ /\ pc[w] # "idle" /\ pc'[w] \in {"each", "execute", "emit"}
        /\ now' = now /\ copy' = copy
        /\ todo'[w] \subseteq todo[w]

LEMMA QuietTick ==
  ASSUME TypeOK, NEW w \in Workers, Tick(w), ~ TickStart(w), ~ Record(w),
         \A s \in Scheds : Consider(w, s) => ~ Fires(w, s)
  PROVE  Quietly(w)
<1> USE DEF TypeOK, TicksOK, rows, history, Goto, Quietly
<1>1. ASSUME NEW s \in Scheds, Consider(w, s) PROVE Quietly(w)
  BY <1>1 DEF Consider
<1>2. CASE Resolve(w)
  BY <1>2 DEF Resolve
<1>3. ASSUME NEW v \in VMs, NEW ok \in BOOLEAN, Operate(w, v, ok) PROVE Quietly(w)
  <2>1. pc' = [pc EXCEPT ![w] = IF pending[w] = {v} THEN "emit" ELSE "execute"]
    BY <1>3 DEF Operate
  <2>2. pc'[w] \in {"execute", "emit"}
    BY <2>1
  <2> QED BY <1>3, <2>1, <2>2 DEF Operate
<1>4. CASE EmitEvent(w)
  BY <1>4 DEF EmitEvent
<1>5. CASE TickEnd(w) \/ TickDies(w)
  BY <1>5 DEF TickEnd, TickDies, Leave
<1> HIDE DEF TypeOK, TicksOK, rows, history, Goto, Quietly
<1> QED BY <1>1, <1>2, <1>3, <1>4, <1>5 DEF Tick

LEMMA OnceStep ==
  ASSUME TypeOK, OnceInv, [Next]_vars
  PROVE  OnceInv'
<1> TypeOK'
  BY TypeStep
<1>1. /\ minute \in Nat /\ minute' \in Nat /\ minute >= 1 /\ MaxMinute \in Nat
      /\ \A x \in Workers : now[x] \in Nat /\ now[x] <= minute
  BY ConstantsOK DEF TypeOK, RowsOK, TicksOK, Minutes, OnceInv, OverlapMarked
<1>2. CASE TimePasses \/ UNCHANGED vars
  <2>1. /\ minute <= minute'
        /\ UNCHANGED <<state, last, pc, now, todo, copy, cur, runs, overlap>>
    BY <1>1, <1>2 DEF TimePasses, vars, rows, local, history
  <2>2. \A x \in Workers : now[x] <= minute'
    BY <1>1, <2>1
  <2> QED BY <2>1, <2>2, QuietKeepsOnce
<1>3. ASSUME NEW s \in Scheds, Edit(s) PROVE OnceInv'
  BY <1>3, EditKeepsOnce
<1>4. ASSUME NEW w \in Workers, Tick(w) PROVE OnceInv'
  <2>1. CASE TickStart(w)
    BY <2>1, TickStartKeepsOnce
  <2>2. ASSUME NEW s \in Scheds, Consider(w, s), Fires(w, s) PROVE OnceInv'
    BY <2>2, FiringKeepsOnce
  <2>3. CASE Record(w)
    BY <2>3, RecordKeepsOnce
  <2>4. CASE ~ TickStart(w) /\ ~ Record(w)
             /\ ~ \E s \in Scheds : Consider(w, s) /\ Fires(w, s)
    <3>2. Quietly(w)
      BY <1>4, <2>4, QuietTick
    <3>3. minute <= minute'
      BY <1>1, <3>2 DEF Quietly
    <3>4. \A x \in Workers :
            \/ pc'[x] = "idle" /\ now'[x] <= minute'
            \/ /\ pc[x] # "idle"
               /\ now'[x] = now[x] /\ copy'[x] = copy[x]
               /\ todo'[x] \subseteq todo[x]
               /\ pc'[x] = "record" => pc[x] = "record" /\ cur'[x] = cur[x]
      BY <1>1, <3>2 DEF Quietly
    <3> QED BY <3>2, <3>3, <3>4, QuietKeepsOnce DEF Quietly
  <2> QED BY <2>1, <2>2, <2>3, <2>4
<1> QED BY <1>2, <1>3, <1>4 DEF Next

\* In a minute without overlapping ticks no schedule fires twice.
THEOREM OnceUnlessOverlapAlways == Spec => []OnceUnlessOverlap
<1>1. OnceInv => OnceUnlessOverlap
  BY DEF OnceInv
<1> QED BY <1>1, TypeInit, TypeStep, OnceInit, OnceStep, PTL DEF Spec

-----------------------------------------------------------------------------
(* Recorded before anything is done.                                       *)

\* A firing stays on record: some time for any firing, that minute or a later
\* one for a firing in a clean minute.
StaysOnRecord ==
  \A s \in Scheds, m \in Minutes :
    runs[s][m] > 0 => \/ state[s] = "gone"
                      \/ /\ last[s] # 0
                         /\ m \notin overlap => m <= last[s]

\* A tick past the record has fired, and so has whatever operated on a VM.
ActsAreFired ==
  /\ \A w \in Workers :
       pc[w] \in {"resolve", "execute", "emit"} => runs[cur[w]][now[w]] > 0
  /\ \A a \in acts : runs[a[1]][a[2]] > 0

RecordInv == StaysOnRecord /\ ActsAreFired

LEMMA RecordInit == Init => RecordInv
BY ConstantsOK DEF Init, RecordInv, StaysOnRecord, ActsAreFired

LEMMA RecordKeepsRecord ==
  ASSUME TypeOK, OnceInv, RecordInv, NEW w \in Workers, Record(w)
  PROVE  RecordInv'
<1> DEFINE s == cur[w]
           m == now[w]
<1>1. /\ s \in Scheds /\ m \in Minutes /\ m # 0
      /\ Minutes \subseteq Nat
      /\ cur \in [Workers -> Scheds] /\ now \in [Workers -> Minutes]
      /\ acts \subseteq Scheds \X Minutes \X BOOLEAN
  BY ConstantsOK DEF TypeOK, TicksOK, LogOK, Minutes
<1>2. \A r \in Scheds, n \in Minutes : runs[r][n] > 0 => runs'[r][n] > 0
  BY RecordEffect
<1>3. StaysOnRecord'
  <2> SUFFICES ASSUME NEW r \in Scheds, NEW n \in Minutes,
                      runs'[r][n] > 0, state[r] # "gone"
               PROVE  last'[r] # 0 /\ (n \notin overlap => n <= last'[r])
    BY RecordEffect DEF StaysOnRecord
  <2>1. CASE r = s
    <3>1. last'[r] = m
      BY <2>1, RecordEffect
    <3>2. CASE n = m
      BY <1>1, <3>1, <3>2
    <3>3. CASE n # m
      <4>1. Active(w) /\ runs[r][n] > 0
        BY <3>3, RecordEffect DEF Active
      <4> QED BY <1>1, <3>1, <4>1 DEF OnceInv, NotBehind
    <3> QED BY <3>2, <3>3
  <2>2. CASE r # s
    BY <2>2, RecordEffect DEF RecordInv, StaysOnRecord
  <2> QED BY <2>1, <2>2
<1>4. ActsAreFired'
  <2>1. ASSUME NEW x \in Workers, pc'[x] \in {"resolve", "execute", "emit"}
       PROVE  runs'[cur[x]][now[x]] > 0
    <3>1. CASE x = w
      BY <3>1, RecordEffect
    <3>2. CASE x # w
      <4>1. pc[x] \in {"resolve", "execute", "emit"}
        BY <2>1, <3>2, RecordEffect DEF TypeOK, TicksOK
      <4>2. cur[x] \in Scheds /\ now[x] \in Minutes /\ runs[cur[x]][now[x]] > 0
        BY <1>1, <4>1 DEF RecordInv, ActsAreFired
      <4> QED BY <1>2, <4>2
    <3> QED BY <3>1, <3>2
  <2>2. ASSUME NEW a \in acts PROVE runs'[a[1]][a[2]] > 0
    BY <1>1, <1>2 DEF RecordInv, ActsAreFired
  <2> QED BY <2>1, <2>2, RecordEffect DEF ActsAreFired
<1> QED BY <1>3, <1>4 DEF RecordInv

LEMMA RecordStep ==
  ASSUME TypeOK, OnceInv, RecordInv, [Next]_vars
  PROVE  RecordInv'
<1> USE ConstantsOK, StandIns DEF TypeOK, RowsOK, TicksOK, LogOK, RecordInv,
        StaysOnRecord, ActsAreFired, rows, local, history, Goto, Minutes
<1>1. CASE TimePasses
  BY <1>1 DEF TimePasses
<1>2. ASSUME NEW s \in Scheds, Edit(s) PROVE RecordInv'
  <2>1. ASSUME NEW p \in Plans, CreateSchedule(s, p) PROVE RecordInv'
    BY <2>1 DEF CreateSchedule
  <2>2. ASSUME NEW p \in Plans, NEW x \in {"on", "off"}, UpdateSchedule(s, p, x)
       PROVE  RecordInv'
    BY <2>2 DEF UpdateSchedule
  <2>3. CASE DestroySchedule(s)
    BY <2>3 DEF DestroySchedule
  <2> HIDE DEF TypeOK, RecordInv
  <2> QED BY <1>2, <2>1, <2>2, <2>3 DEF Edit
<1>3. ASSUME NEW w \in Workers, Tick(w) PROVE RecordInv'
  <2>1. CASE TickStart(w)
    <3>1. /\ UNCHANGED <<state, last, runs, acts, cur>> /\ overlap \subseteq overlap'
          /\ pc' = [pc EXCEPT ![w] = "each"] /\ now' = [now EXCEPT ![w] = minute]
      BY <2>1 DEF TickStart
    <3>2. StaysOnRecord'
      BY <3>1
    <3>3. ActsAreFired'
      BY <3>1
    <3> QED BY <3>2, <3>3
  <2>2. ASSUME NEW s \in Scheds, Consider(w, s) PROVE RecordInv'
    BY <2>2 DEF Consider
  <2>3. CASE Record(w)
    BY <2>3, RecordKeepsRecord
  <2>4. CASE Resolve(w)
    BY <2>4 DEF Resolve
  <2>5. ASSUME NEW v \in VMs, NEW ok \in BOOLEAN, Operate(w, v, ok) PROVE RecordInv'
    BY <2>5 DEF Operate
  <2>6. CASE EmitEvent(w)
    BY <2>6 DEF EmitEvent
  <2>7. CASE TickEnd(w)
    BY <2>7 DEF TickEnd, Leave
  <2>8. CASE TickDies(w)
    BY <2>8 DEF TickDies, Leave
  <2> HIDE DEF TypeOK, RecordInv
  <2> QED BY <1>3, <2>1, <2>2, <2>3, <2>4, <2>5, <2>6, <2>7, <2>8 DEF Tick
<1>4. CASE UNCHANGED vars
  BY <1>4 DEF vars
<1> HIDE DEF TypeOK, RecordInv
<1> QED BY <1>1, <1>2, <1>3, <1>4 DEF Next

\* No VM is operated on before the firing is on record, and the record does
\* not fall behind unless ticks overlap.
THEOREM RecordedBeforeActingAlways == Spec => []RecordedBeforeActing
<1>1. TypeOK /\ RecordInv => RecordedBeforeActing
  <2> SUFFICES ASSUME TypeOK, RecordInv, NEW a \in acts
               PROVE  \/ state[a[1]] = "gone"
                      \/ /\ last[a[1]] # 0
                         /\ a[2] \notin overlap => a[2] <= last[a[1]]
    BY DEF RecordedBeforeActing
  <2>1. a[1] \in Scheds /\ a[2] \in Minutes
    BY DEF TypeOK, LogOK
  <2> QED BY <2>1 DEF RecordInv, StaysOnRecord, ActsAreFired
<1> QED BY <1>1, TypeInit, TypeStep, OnceInit, OnceStep, RecordInit, RecordStep, PTL
        DEF Spec

-----------------------------------------------------------------------------
(* Nothing due is skipped.                                                 *)

\* What may have become of a schedule a tick has gone past
Handled(w, s) ==
  \/ ~ TimeMatches(copy[w].plan[s], now[w])
  \/ SameMinuteOf(copy[w].last[s], now[w])
  \/ runs[s][now[w]] > 0

\* At every point of its loop a tick has handled what it is past, the schedule
\* it is about to record aside.
PassedOver ==
  \A w \in Workers : \A s \in copy[w].on \ todo[w] :
    Handled(w, s) \/ (pc[w] = "record" /\ cur[w] = s)

LEMMA PassedInit == Init => PassedOver
BY DEF Init, PassedOver, Nothing

\* Firings are not forgotten, and the ticks that keep their snapshot and their
\* place in the list keep the invariant.
LEMMA QuietKeepsPassed ==
  ASSUME TypeOK, PassedOver,
         \A s \in Scheds, m \in Minutes : runs[s][m] > 0 => runs'[s][m] > 0,
         \A x \in Workers :
            \/ copy'[x].on \ todo'[x] = {}
            \/ /\ copy'[x] = copy[x] /\ now'[x] = now[x] /\ todo'[x] = todo[x]
               /\ pc[x] = "record" => pc'[x] = "record" /\ cur'[x] = cur[x]
  PROVE  PassedOver'
<1> SUFFICES ASSUME NEW x \in Workers, NEW s \in copy'[x].on \ todo'[x]
             PROVE  Handled(x, s)' \/ (pc'[x] = "record" /\ cur'[x] = s)
  BY DEF PassedOver
<1>1. /\ copy'[x] = copy[x] /\ now'[x] = now[x] /\ todo'[x] = todo[x]
      /\ pc[x] = "record" => pc'[x] = "record" /\ cur'[x] = cur[x]
  OBVIOUS
<1>2. s \in Scheds /\ now[x] \in Minutes
  BY <1>1 DEF TypeOK, TicksOK, Snapshots
<1>3. Handled(x, s) \/ (pc[x] = "record" /\ cur[x] = s)
  BY <1>1 DEF PassedOver
<1> QED BY <1>1, <1>2, <1>3 DEF Handled

\* A tick looks at the next schedule: it goes on to fire it, or has a reason.
LEMMA ConsiderKeepsPassed ==
  ASSUME TypeOK, PassedOver, NEW w \in Workers, NEW s \in Scheds, Consider(w, s)
  PROVE  PassedOver'
<1> SUFFICES ASSUME NEW x \in Workers, NEW r \in copy'[x].on \ todo'[x]
             PROVE  Handled(x, r)' \/ (pc'[x] = "record" /\ cur'[x] = r)
  BY DEF PassedOver
<1>1. /\ pc[w] = "each"
      /\ todo'[w] = todo[w] \ {s}
      /\ Fires(w, s) => pc'[w] = "record" /\ cur'[w] = s
      /\ \A y \in Workers \ {w} : /\ pc'[y] = pc[y] /\ todo'[y] = todo[y]
                                 /\ cur'[y] = cur[y]
      /\ UNCHANGED <<now, copy, runs>>
  BY DEF Consider, Goto, TypeOK, TicksOK, history
<1>2. Handled(x, r)' <=> Handled(x, r)
  BY <1>1 DEF Handled
<1>3. CASE x = w /\ r = s
  BY <1>1, <1>2, <1>3 DEF Fires, Handled
<1>4. CASE x = w /\ r # s
  BY <1>1, <1>2, <1>4 DEF PassedOver
<1>5. CASE x # w
  BY <1>1, <1>2, <1>5 DEF PassedOver
<1> QED BY <1>3, <1>4, <1>5

LEMMA RecordKeepsPassed ==
  ASSUME TypeOK, PassedOver, NEW w \in Workers, Record(w)
  PROVE  PassedOver'
<1> SUFFICES ASSUME NEW x \in Workers, NEW r \in copy'[x].on \ todo'[x]
             PROVE  Handled(x, r)' \/ (pc'[x] = "record" /\ cur'[x] = r)
  BY DEF PassedOver
<1>1. /\ UNCHANGED <<now, todo, copy, cur>>
      /\ runs'[cur[w]][now[w]] > 0
      /\ \A s \in Scheds, m \in Minutes : runs[s][m] > 0 => runs'[s][m] > 0
      /\ \A y \in Workers \ {w} : pc'[y] = pc[y]
  BY RecordEffect DEF TypeOK, TicksOK
<1>2. r \in Scheds /\ now[x] \in Minutes
  BY <1>1 DEF TypeOK, TicksOK, Snapshots
<1>3. Handled(x, r) \/ (pc[x] = "record" /\ cur[x] = r)
  BY <1>1 DEF PassedOver
<1> QED BY <1>1, <1>2, <1>3 DEF Handled

LEMMA PassedStep ==
  ASSUME TypeOK, PassedOver, [Next]_vars
  PROVE  PassedOver'
<1>1. CASE TimePasses \/ UNCHANGED vars
  <2>1. UNCHANGED <<pc, now, todo, copy, cur, runs>>
    BY <1>1 DEF TimePasses, vars, local, history
  <2> QED BY <2>1, QuietKeepsPassed
<1>2. ASSUME NEW s \in Scheds, Edit(s) PROVE PassedOver'
  <2>1. UNCHANGED <<pc, now, todo, copy, cur, runs>>
    BY <1>2, EditEffect DEF RowsOnly, local, history
  <2> QED BY <2>1, QuietKeepsPassed
<1>3. ASSUME NEW w \in Workers, Tick(w) PROVE PassedOver'
  <2>1. CASE TickStart(w)
    <3>1. /\ copy'[w].on = todo'[w] /\ runs' = runs
          /\ \A x \in Workers \ {w} : /\ pc'[x] = pc[x] /\ now'[x] = now[x]
                                     /\ todo'[x] = todo[x] /\ copy'[x] = copy[x]
                                     /\ cur'[x] = cur[x]
      BY <2>1 DEF TickStart, Goto, TypeOK, TicksOK
    <3> QED BY <3>1, QuietKeepsPassed
  <2>2. ASSUME NEW s \in Scheds, Consider(w, s) PROVE PassedOver'
    BY <2>2, ConsiderKeepsPassed
  <2>3. CASE Record(w)
    BY <2>3, RecordKeepsPassed
  <2>4. CASE \/ Resolve(w) \/ EmitEvent(w)
             \/ \E v \in VMs, ok \in BOOLEAN : Operate(w, v, ok)
    <3>1. /\ pc[w] # "record"
          /\ UNCHANGED <<now, todo, copy, runs>>
          /\ \A x \in Workers \ {w} : pc'[x] = pc[x] /\ cur'[x] = cur[x]
      BY <2>4 DEF Resolve, EmitEvent, Operate, Goto, TypeOK, TicksOK, history
    <3> QED BY <3>1, QuietKeepsPassed
  <2>5. CASE TickEnd(w) \/ TickDies(w)
    <3>1. /\ copy'[w].on = {} /\ runs' = runs
          /\ \A x \in Workers \ {w} : /\ pc'[x] = pc[x] /\ now'[x] = now[x]
                                     /\ todo'[x] = todo[x] /\ copy'[x] = copy[x]
                                     /\ cur'[x] = cur[x]
      BY <2>5 DEF TickEnd, TickDies, Leave, Nothing, Goto, TypeOK, TicksOK, history
    <3> QED BY <3>1, QuietKeepsPassed
  <2> QED BY <1>3, <2>1, <2>2, <2>3, <2>4, <2>5 DEF Tick
<1> QED BY <1>1, <1>2, <1>3 DEF Next

\* A tick has fired whatever it has gone past that it loaded as due.
THEOREM NothingDueIsSkippedAlways == Spec => []NothingDueIsSkipped
<1>1. PassedOver => NothingDueIsSkipped
  BY DEF PassedOver, NothingDueIsSkipped, Handled, SameMinuteOf
<1> QED BY <1>1, TypeInit, TypeStep, PassedInit, PassedStep, PTL DEF Spec

-----------------------------------------------------------------------------
(* The Event tells the outcome.                                            *)

Acted(w, ok) == <<cur[w], now[w], ok>> \in acts

\* The sets of a firing: a playbook operates on nothing, what failed has been
\* operated on, and at the end nothing is left.
FiringShape ==
  \A w \in Workers :
    /\ pc[w] = "execute" => Plan(w).action # "playbook"
    /\ pc[w] = "emit" => pending[w] = {}
    /\ pc[w] \in {"execute", "emit"} =>
         pending[w] \subseteq targets[w] /\ failed[w] \subseteq targets[w] \ pending[w]

EventsAreFired == \A e \in events : runs[e.sched][e.at] > 0

\* A firing in a clean minute is the only one of its schedule then: there is
\* no Event of it before it ends, and no operation before it begins to operate.
NoNewsYet ==
  \A w \in Workers : now[w] \notin overlap =>
    /\ pc[w] \in {"resolve", "execute", "emit"} =>
         \A e \in events : ~ (e.sched = cur[w] /\ e.at = now[w])
    /\ pc[w] = "resolve" => \A ok \in BOOLEAN : ~ Acted(w, ok)

\* What such a firing has done so far is what its sets say.
TellsSoFarOf(w) ==
  IF Plan(w).action = "playbook"
    THEN failed[w] = {} /\ \A ok \in BOOLEAN : ~ Acted(w, ok)
    ELSE /\ Acted(w, FALSE) <=> failed[w] # {}
         /\ Acted(w, TRUE) <=> (targets[w] \ pending[w]) \ failed[w] # {}

TellsSoFar ==
  \A w \in Workers :
    pc[w] \in {"execute", "emit"} /\ now[w] \notin overlap => TellsSoFarOf(w)

OutcomeInv ==
  FiringShape /\ EventsAreFired /\ NoNewsYet /\ TellsSoFar /\ EventTellsOutcome

LEMMA OutcomeInit == Init => OutcomeInv
BY DEF Init, OutcomeInv, FiringShape, EventsAreFired, NoNewsYet, TellsSoFar,
   EventTellsOutcome

\* What result says of the two sets.
LEMMA ResultTells ==
  ASSUME NEW p, NEW all \in SUBSET VMs, NEW bad \in SUBSET all
  PROVE  LET r == Result(p, all, bad)
         IN /\ r \in {"success", "failed", "partial", "no_targets"}
            /\ r = "no_targets" => all = {}
            /\ r = "success" => p.action = "playbook" \/ bad = {}
            /\ r \in {"failed", "partial"} => p.action # "playbook" /\ bad # {}
            /\ r = "partial" => all \ bad # {}
            /\ r = "failed" => all \ bad = {}
<1>1. IsFiniteSet(all)
  BY ConstantsOK, FS_Subset
<1>2. /\ IsFiniteSet(bad) /\ Cardinality(bad) \in Nat /\ Cardinality(all) \in Nat
      /\ bad # all => Cardinality(bad) < Cardinality(all)
      /\ bad = all => ~ (Cardinality(bad) < Cardinality(all))
  <2>1. /\ IsFiniteSet(bad) /\ Cardinality(bad) <= Cardinality(all)
        /\ Cardinality(bad) = Cardinality(all) => bad = all
    BY <1>1, FS_Subset
  <2>2. Cardinality(bad) \in Nat /\ Cardinality(all) \in Nat
    BY <1>1, <2>1, FS_CardinalityType
  <2> QED BY <2>1, <2>2
<1>3. bad # all <=> all \ bad # {}
  OBVIOUS
<1>4. CASE all = {}
  BY <1>4 DEF Result
<1>5. CASE all # {} /\ (p.action = "playbook" \/ bad = {})
  BY <1>5 DEF Result
<1>6. CASE all # {} /\ p.action # "playbook" /\ bad # {}
  <2>1. Result(p, all, bad) =
          IF Cardinality(bad) < Cardinality(all) THEN "partial" ELSE "failed"
    BY <1>6 DEF Result
  <2> QED BY <1>2, <1>3, <1>6, <2>1
<1> QED BY <1>4, <1>5, <1>6

\* Two ticks under way are not both in a clean minute.
LEMMA OnlyOneClean ==
  ASSUME OnceInv, NEW w \in Workers, NEW x \in Workers, x # w, pc[w] # "idle"
  PROVE  pc[x] = "idle" \/ now[x] \in overlap
BY DEF OnceInv, OverlapMarked, Active

\* Steps that operate on nothing and write no Event, and leave every firing
\* where it is or end it, keep the invariant.
LEMMA QuietKeepsOutcome ==
  ASSUME TypeOK, OutcomeInv, UNCHANGED <<events, acts, runs>>, overlap \subseteq overlap',
         \A x \in Workers :
            \/ pc'[x] \notin {"resolve", "execute", "emit"}
            \/ /\ pc'[x] = pc[x] /\ now'[x] = now[x] /\ copy'[x] = copy[x]
               /\ cur'[x] = cur[x] /\ targets'[x] = targets[x]
               /\ pending'[x] = pending[x] /\ failed'[x] = failed[x]
  PROVE  OutcomeInv'
<1>1. FiringShape'
  BY DEF OutcomeInv, FiringShape, Plan
<1>2. EventsAreFired'
  BY DEF OutcomeInv, EventsAreFired
<1>3. NoNewsYet'
  BY DEF OutcomeInv, NoNewsYet, Acted
<1>4. TellsSoFar'
  <2> SUFFICES ASSUME NEW x \in Workers, pc'[x] \in {"execute", "emit"}, now'[x] \notin overlap'
               PROVE  TellsSoFarOf(x)'
    BY DEF TellsSoFar
  <2>1. /\ pc[x] \in {"execute", "emit"} /\ now[x] \notin overlap
        /\ UNCHANGED <<now[x], copy[x], cur[x], targets[x], pending[x], failed[x], acts>>
    OBVIOUS
  <2>2. TellsSoFarOf(x)
    BY <2>1 DEF OutcomeInv, TellsSoFar
  <2> QED BY <2>1, <2>2 DEF TellsSoFarOf, Acted, Plan
<1>5. EventTellsOutcome'
  BY DEF OutcomeInv, EventTellsOutcome, Did
<1> QED BY <1>1, <1>2, <1>3, <1>4, <1>5 DEF OutcomeInv

LEMMA RecordKeepsOutcome ==
  ASSUME TypeOK, OnceInv, RecordInv, OutcomeInv, NEW w \in Workers, Record(w)
  PROVE  OutcomeInv'
<1>1. /\ pc[w] = "record" /\ pc'[w] = "resolve"
      /\ \A x \in Workers \ {w} : pc'[x] = pc[x]
      /\ UNCHANGED <<now, copy, cur, acts, overlap, events, targets, pending, failed>>
      /\ \A r \in Scheds, n \in Minutes : runs[r][n] > 0 => runs'[r][n] > 0
  <2>1. UNCHANGED <<events, targets, pending, failed>>
    BY DEF Record
  <2>2. pc[w] = "record" /\ pc' = [pc EXCEPT ![w] = "resolve"]
    BY DEF Record, Goto
  <2> QED BY <2>1, <2>2, RecordEffect DEF TypeOK, TicksOK
<1>2. now[w] \notin overlap => ~ runs[cur[w]][now[w]] > 0
  BY <1>1 DEF OnceInv, SeenByTick, Active, TypeOK, TicksOK
<1>3. FiringShape'
  BY <1>1 DEF OutcomeInv, FiringShape, Plan
<1>4. EventsAreFired'
  <2>1. \A e \in events : e.sched \in Scheds /\ e.at \in Minutes
    BY DEF TypeOK, LogOK
  <2> QED BY <1>1, <2>1 DEF OutcomeInv, EventsAreFired
<1>5. NoNewsYet'
  <2> SUFFICES ASSUME NEW x \in Workers, now[x] \notin overlap
               PROVE  /\ pc'[x] \in {"resolve", "execute", "emit"} =>
                           \A e \in events : ~ (e.sched = cur[x] /\ e.at = now[x])
                      /\ pc'[x] = "resolve" =>
                           \A ok \in BOOLEAN : <<cur[x], now[x], ok>> \notin acts
    BY <1>1 DEF NoNewsYet, Acted
  <2>1. CASE x = w
    <3>1. \A e \in events : ~ (e.sched = cur[w] /\ e.at = now[w])
      BY <1>2, <2>1 DEF OutcomeInv, EventsAreFired
    <3>2. ASSUME NEW ok \in BOOLEAN, <<cur[w], now[w], ok>> \in acts PROVE FALSE
      BY <1>2, <2>1, <3>2 DEF RecordInv, ActsAreFired
    <3> QED BY <2>1, <3>1, <3>2
  <2>2. CASE x # w
    BY <1>1, <2>2 DEF OutcomeInv, NoNewsYet, Acted
  <2> QED BY <2>1, <2>2
<1>6. TellsSoFar'
  BY <1>1 DEF OutcomeInv, TellsSoFar, TellsSoFarOf, Acted, Plan
<1>7. EventTellsOutcome'
  BY <1>1 DEF OutcomeInv, EventTellsOutcome, Did
<1> QED BY <1>3, <1>4, <1>5, <1>6, <1>7 DEF OutcomeInv

LEMMA ResolveKeepsOutcome ==
  ASSUME TypeOK, OnceInv, OutcomeInv, NEW w \in Workers, Resolve(w)
  PROVE  OutcomeInv'
<1> DEFINE found == TargetsOf(Plan(w))
           operates == found # {} /\ Plan(w).action # "playbook"
<1>1. /\ pc[w] = "resolve"
      /\ pc'[w] = IF operates THEN "execute" ELSE "emit"
      /\ targets'[w] = found
      /\ pending'[w] = IF operates THEN found ELSE {}
      /\ failed'[w] = {}
      /\ \A x \in Workers \ {w} : /\ pc'[x] = pc[x] /\ targets'[x] = targets[x]
                                 /\ pending'[x] = pending[x] /\ failed'[x] = failed[x]
      /\ UNCHANGED <<now, copy, cur, events, runs, acts, overlap>>
  BY DEF Resolve, Goto, TypeOK, TicksOK, history
<1>2. now[w] \notin overlap => \A ok \in BOOLEAN : ~ Acted(w, ok)
  BY <1>1 DEF OutcomeInv, NoNewsYet
<1>3. Plan(w)' = Plan(w) /\ \A ok \in BOOLEAN : Acted(w, ok)' <=> Acted(w, ok)
  BY <1>1 DEF Plan, Acted
<1> HIDE DEF found
<1>4. FiringShape'
  <2>1. \A x \in Workers \ {w} : Plan(x)' = Plan(x)
    BY <1>1 DEF Plan
  <2> QED BY <1>1, <1>3, <2>1 DEF OutcomeInv, FiringShape
<1>5. EventsAreFired'
  BY <1>1 DEF OutcomeInv, EventsAreFired
<1>6. NoNewsYet'
  <2>1. \A x \in Workers, ok \in BOOLEAN : Acted(x, ok)' <=> Acted(x, ok)
    BY <1>1 DEF Acted
  <2> QED BY <1>1, <2>1 DEF OutcomeInv, NoNewsYet
<1>7. TellsSoFar'
  <2> SUFFICES ASSUME NEW x \in Workers, pc'[x] \in {"execute", "emit"},
                      now'[x] \notin overlap'
               PROVE  TellsSoFarOf(x)'
    BY DEF TellsSoFar
  <2>1. x = w
    <3>1. x # w => pc[x] = "idle" \/ now[x] \in overlap
      BY <1>1, OnlyOneClean
    <3> QED BY <1>1, <3>1
  <2>2. targets'[w] \ pending'[w] = {} \/ Plan(w).action = "playbook"
    BY <1>1
  <2> QED BY <1>1, <1>2, <1>3, <2>1, <2>2 DEF TellsSoFarOf
<1>8. EventTellsOutcome'
  BY <1>1 DEF OutcomeInv, EventTellsOutcome, Did
<1> QED BY <1>4, <1>5, <1>6, <1>7, <1>8 DEF OutcomeInv

LEMMA OperateKeepsOutcome ==
  ASSUME TypeOK, OnceInv, OutcomeInv, NEW w \in Workers, NEW v \in VMs,
         NEW ok \in BOOLEAN, Operate(w, v, ok)
  PROVE  OutcomeInv'
<1>1. /\ pc[w] = "execute" /\ v \in pending[w]
      /\ pc'[w] \in {"execute", "emit"}
      /\ pc'[w] = "emit" => pending[w] = {v}
      /\ pending'[w] = pending[w] \ {v}
      /\ failed'[w] = IF ok THEN failed[w] ELSE failed[w] \union {v}
      /\ acts' = acts \union {<<cur[w], now[w], ok>>}
      /\ \A x \in Workers \ {w} : /\ pc'[x] = pc[x] /\ pending'[x] = pending[x]
                                 /\ failed'[x] = failed[x]
      /\ UNCHANGED <<now, copy, cur, targets, events, runs, overlap>>
  <2>1. pc' = [pc EXCEPT ![w] = IF pending[w] = {v} THEN "emit" ELSE "execute"]
    BY DEF Operate, Goto
  <2>2. /\ pc'[w] \in {"execute", "emit"}
        /\ pc'[w] = "emit" => pending[w] = {v}
        /\ \A x \in Workers \ {w} : pc'[x] = pc[x]
    BY <2>1 DEF TypeOK, TicksOK
  <2>3. /\ pc[w] = "execute" /\ v \in pending[w]
        /\ pending' = [pending EXCEPT ![w] = pending[w] \ {v}]
        /\ failed' = [failed EXCEPT ![w] = IF ok THEN failed[w]
                                                ELSE failed[w] \union {v}]
        /\ acts' = acts \union {<<cur[w], now[w], ok>>}
        /\ UNCHANGED <<now, copy, cur, targets, events, runs, overlap>>
    BY DEF Operate
  <2> QED BY <2>2, <2>3 DEF TypeOK, TicksOK
<1>2. /\ Plan(w).action # "playbook"
      /\ pending[w] \subseteq targets[w] /\ failed[w] \subseteq targets[w] \ pending[w]
  BY <1>1 DEF OutcomeInv, FiringShape
<1>3. \A x \in Workers : Plan(x)' = Plan(x)
  BY <1>1 DEF Plan
<1>4. ASSUME NEW x \in Workers, x # w, pc[x] # "idle" PROVE now[x] \in overlap
  BY <1>1, <1>4, OnlyOneClean
<1>5. FiringShape'
  <2> SUFFICES ASSUME NEW x \in Workers
               PROVE  /\ pc'[x] = "execute" => Plan(x).action # "playbook"
                      /\ pc'[x] = "emit" => pending'[x] = {}
                      /\ pc'[x] \in {"execute", "emit"} =>
                           /\ pending'[x] \subseteq targets[x]
                           /\ failed'[x] \subseteq targets[x] \ pending'[x]
    BY <1>1, <1>3 DEF FiringShape
  <2>1. CASE x = w
    BY <1>1, <1>2, <2>1
  <2>2. CASE x # w
    BY <1>1, <2>2 DEF OutcomeInv, FiringShape
  <2> QED BY <2>1, <2>2
<1>6. EventsAreFired'
  BY <1>1 DEF OutcomeInv, EventsAreFired
<1>7. NoNewsYet'
  <2> SUFFICES ASSUME NEW x \in Workers, now[x] \notin overlap
               PROVE  /\ pc'[x] \in {"resolve", "execute", "emit"} =>
                           \A e \in events : ~ (e.sched = cur[x] /\ e.at = now[x])
                      /\ pc'[x] = "resolve" =>
                           \A k \in BOOLEAN : <<cur[x], now[x], k>> \notin acts'
    BY <1>1 DEF NoNewsYet, Acted
  <2>1. CASE x = w
    BY <1>1, <2>1 DEF OutcomeInv, NoNewsYet
  <2>2. CASE x # w
    BY <1>1, <1>4, <2>2
  <2> QED BY <2>1, <2>2
<1>8. TellsSoFar'
  <2> SUFFICES ASSUME NEW x \in Workers, pc'[x] \in {"execute", "emit"},
                      now[x] \notin overlap
               PROVE  TellsSoFarOf(x)'
    BY <1>1 DEF TellsSoFar
  <2>1. x = w
    BY <1>1, <1>4
  <2>2. /\ Acted(w, FALSE) <=> failed[w] # {}
        /\ Acted(w, TRUE) <=> (targets[w] \ pending[w]) \ failed[w] # {}
    BY <1>1, <1>2, <2>1 DEF OutcomeInv, TellsSoFar, TellsSoFarOf
  <2>3. \A k \in BOOLEAN : Acted(w, k)' <=> Acted(w, k) \/ k = ok
    BY <1>1 DEF Acted
  <2>4. /\ ok = FALSE => failed'[w] # {}
        /\ ok = TRUE => failed'[w] = failed[w]
    BY <1>1
  <2>5. LET old == (targets[w] \ pending[w]) \ failed[w]
            new == (targets[w] \ pending'[w]) \ failed'[w]
        IN (ok = TRUE => v \in new) /\ (ok = FALSE => new = old)
    BY <1>1, <1>2
  <2>6. CASE ok = TRUE
    <3>1. Acted(w, TRUE)' /\ (Acted(w, FALSE)' <=> failed'[w] # {})
      BY <2>2, <2>3, <2>4, <2>6
    <3>2. (targets[w] \ pending'[w]) \ failed'[w] # {}
      BY <2>5, <2>6
    <3> QED BY <1>1, <1>2, <1>3, <2>1, <3>1, <3>2 DEF TellsSoFarOf
  <2>7. CASE ok = FALSE
    <3>1. Acted(w, FALSE)' /\ (Acted(w, TRUE)' <=> Acted(w, TRUE))
      BY <2>3, <2>7
    <3> QED BY <1>1, <1>2, <1>3, <2>1, <2>2, <2>4, <2>5, <2>7, <3>1 DEF TellsSoFarOf
  <2> QED BY <2>6, <2>7
<1>9. EventTellsOutcome'
  <2>1. ASSUME NEW e \in events, e.at \notin overlap, NEW k \in BOOLEAN
       PROVE  Did(e, k)' <=> Did(e, k)
    <3>1. ~ (e.sched = cur[w] /\ e.at = now[w])
      BY <1>1, <2>1 DEF OutcomeInv, NoNewsYet
    <3> QED BY <1>1, <3>1 DEF Did
  <2> QED BY <1>1, <2>1 DEF OutcomeInv, EventTellsOutcome
<1> QED BY <1>5, <1>6, <1>7, <1>8, <1>9 DEF OutcomeInv

\* The row is written, and it tells what happened.
LEMMA EmitKeepsOutcome ==
  ASSUME TypeOK, OnceInv, RecordInv, OutcomeInv, NEW w \in Workers, EmitEvent(w)
  PROVE  OutcomeInv'
<1> DEFINE result == Result(Plan(w), targets[w], failed[w])
           new == [sched |-> cur[w], at |-> now[w], result |-> result]
<1>1. /\ pc[w] = "emit" /\ pc'[w] = "each"
      /\ events' = events \union {new}
      /\ \A x \in Workers \ {w} :
           /\ pc'[x] = pc[x] /\ cur'[x] = cur[x] /\ targets'[x] = targets[x]
           /\ failed'[x] = failed[x]
      /\ UNCHANGED <<now, copy, pending, runs, acts, overlap>>
  BY DEF EmitEvent, Goto, TypeOK, TicksOK, history
<1>2. /\ pending[w] = {}
      /\ failed[w] \subseteq targets[w] /\ targets[w] \subseteq VMs
  BY <1>1 DEF OutcomeInv, FiringShape, TypeOK, TicksOK
<1>3. ASSUME NEW x \in Workers, x # w, pc[x] # "idle" PROVE now[x] \in overlap
  BY <1>1, <1>3, OnlyOneClean
<1>4. new.sched = cur[w] /\ new.at = now[w] /\ new.result = result
  OBVIOUS
<1>5. /\ result \in {"success", "failed", "partial", "no_targets"}
      /\ result = "no_targets" => targets[w] = {}
      /\ result = "success" => Plan(w).action = "playbook" \/ failed[w] = {}
      /\ result \in {"failed", "partial"} =>
           Plan(w).action # "playbook" /\ failed[w] # {}
      /\ result = "partial" => targets[w] \ failed[w] # {}
      /\ result = "failed" => targets[w] \ failed[w] = {}
  BY <1>2, ResultTells
<1> HIDE DEF result, new
<1>6. FiringShape'
  BY <1>1 DEF OutcomeInv, FiringShape, Plan
<1>7. EventsAreFired'
  <2>1. runs[cur[w]][now[w]] > 0
    BY <1>1 DEF RecordInv, ActsAreFired
  <2> QED BY <1>1, <1>4, <2>1 DEF OutcomeInv, EventsAreFired
<1>8. NoNewsYet'
  <2> SUFFICES ASSUME NEW x \in Workers, now[x] \notin overlap,
                      pc'[x] \in {"resolve", "execute", "emit"}
               PROVE  FALSE
    BY <1>1 DEF NoNewsYet
  <2> QED BY <1>1, <1>3
<1>9. TellsSoFar'
  <2> SUFFICES ASSUME NEW x \in Workers, now[x] \notin overlap,
                      pc'[x] \in {"execute", "emit"}
               PROVE  FALSE
    BY <1>1 DEF TellsSoFar
  <2> QED BY <1>1, <1>3
<1>10. EventTellsOutcome'
  <2>1. \A e, k : Did(e, k)' <=> Did(e, k)
    BY <1>1 DEF Did
  <2>2. \A k \in BOOLEAN : Did(new, k) <=> Acted(w, k)
    BY <1>4 DEF Did, Acted
  <2>3. ASSUME now[w] \notin overlap
       PROVE  CASE result = "success" -> ~ Did(new, FALSE)
                [] result = "failed" -> Did(new, FALSE) /\ ~ Did(new, TRUE)
                [] result = "partial" -> Did(new, FALSE) /\ Did(new, TRUE)
                [] result = "no_targets" -> ~ Did(new, FALSE) /\ ~ Did(new, TRUE)
    <3>1. TellsSoFarOf(w)
      BY <1>1, <2>3 DEF OutcomeInv, TellsSoFar
    <3>2. CASE Plan(w).action = "playbook"
      <4>1. ~ Did(new, FALSE) /\ ~ Did(new, TRUE)
        BY <2>2, <3>1, <3>2 DEF TellsSoFarOf
      <4> QED BY <1>5, <3>2, <4>1
    <3>3. CASE Plan(w).action # "playbook"
      <4>1. /\ Did(new, FALSE) <=> failed[w] # {}
            /\ Did(new, TRUE) <=> targets[w] \ failed[w] # {}
        BY <1>2, <2>2, <3>1, <3>3 DEF TellsSoFarOf
      <4> QED BY <1>2, <1>5, <3>3, <4>1
    <3> QED BY <3>2, <3>3
  <2> QED BY <1>1, <1>4, <2>1, <2>3 DEF OutcomeInv, EventTellsOutcome
<1> QED BY <1>6, <1>7, <1>8, <1>9, <1>10 DEF OutcomeInv

LEMMA OutcomeStep ==
  ASSUME TypeOK, OnceInv, RecordInv, OutcomeInv, [Next]_vars
  PROVE  OutcomeInv'
<1>1. CASE TimePasses \/ UNCHANGED vars
  <2>1. UNCHANGED <<local, events, history>>
    BY <1>1 DEF TimePasses, vars
  <2> QED BY <2>1, QuietKeepsOutcome DEF local, history
<1>2. ASSUME NEW s \in Scheds, Edit(s) PROVE OutcomeInv'
  <2>1. UNCHANGED <<local, events, history>>
    BY <1>2, EditEffect DEF RowsOnly
  <2> QED BY <2>1, QuietKeepsOutcome DEF local, history
<1>3. ASSUME NEW w \in Workers, Tick(w) PROVE OutcomeInv'
  <2>1. ASSUME NEW s \in Scheds,
               TickStart(w) \/ Consider(w, s) \/ TickEnd(w) \/ TickDies(w)
        PROVE  OutcomeInv'
    <3>1. /\ UNCHANGED <<events, acts, runs>> /\ overlap \subseteq overlap'
          /\ pc'[w] \notin {"resolve", "execute", "emit"}
          /\ \A x \in Workers \ {w} :
               /\ pc'[x] = pc[x] /\ now'[x] = now[x] /\ copy'[x] = copy[x]
               /\ cur'[x] = cur[x] /\ targets'[x] = targets[x]
               /\ pending'[x] = pending[x] /\ failed'[x] = failed[x]
      <4> USE DEF TypeOK, TicksOK, Goto, history
      <4>1. CASE TickStart(w)
        BY <4>1 DEF TickStart
      <4>2. CASE Consider(w, s)
        BY <4>2 DEF Consider
      <4>3. CASE TickEnd(w) \/ TickDies(w)
        BY <4>3 DEF TickEnd, TickDies, Leave
      <4> QED BY <2>1, <4>1, <4>2, <4>3
    <3> QED BY <3>1, QuietKeepsOutcome
  <2>2. CASE Record(w)
    BY <2>2, RecordKeepsOutcome
  <2>3. CASE Resolve(w)
    BY <2>3, ResolveKeepsOutcome
  <2>4. ASSUME NEW v \in VMs, NEW ok \in BOOLEAN, Operate(w, v, ok) PROVE OutcomeInv'
    BY <2>4, OperateKeepsOutcome
  <2>5. CASE EmitEvent(w)
    BY <2>5, EmitKeepsOutcome
  <2> QED BY <1>3, <2>1, <2>2, <2>3, <2>4, <2>5, StandIns DEF Tick
<1> QED BY <1>1, <1>2, <1>3 DEF Next

\* The result in an Event is what happened to the VMs, in a minute no tick of
\* which overlapped another.
THEOREM EventTellsOutcomeAlways == Spec => []EventTellsOutcome
<1>1. OutcomeInv => EventTellsOutcome
  BY DEF OutcomeInv
<1> QED BY <1>1, TypeInit, TypeStep, OnceInit, OnceStep, RecordInit, RecordStep,
           OutcomeInit, OutcomeStep, PTL DEF Spec

-----------------------------------------------------------------------------
(* SchedulerTick implements AuditLedger.                                   *)

\* What the ledger sees of a firing
SeenOf(s, m) ==
  /\ <<s, m>> \in Fired <=> m \notin overlap /\ runs[s][m] > 0
  /\ \A ok \in BOOLEAN :
       <<s, m>> \in Went(ok) <=> m \notin overlap /\ <<s, m, ok>> \in acts
  /\ \A r : <<<<s, m>>, r>> \in Reported <=>
              m \notin overlap /\ [sched |-> s, at |-> m, result |-> r] \in events

\* It sees nothing else.
OnlyFirings ==
  /\ \A f \in Fired : \E s \in Scheds, m \in Minutes : f = <<s, m>>
  /\ \A ok \in BOOLEAN : \A f \in Went(ok) : \E s \in Scheds, m \in Minutes : f = <<s, m>>
  /\ \A e \in Reported : \E s \in Scheds, m \in Minutes : \E r : e = <<<<s, m>>, r>>

Sight == OnlyFirings /\ \A s \in Scheds, m \in Minutes : SeenOf(s, m)

LEMMA SeenOfFiring ==
  ASSUME TypeOK, NEW s \in Scheds, NEW m \in Minutes
  PROVE  SeenOf(s, m)
<1>1. <<s, m>> \in Clean <=> m \notin overlap
  BY DEF Clean
<1>2. ASSUME NEW r
      PROVE  <<<<s, m>>, r>> \in Reported <=>
               m \notin overlap /\ [sched |-> s, at |-> m, result |-> r] \in events
  <2>1. ASSUME <<<<s, m>>, r>> \in Reported
        PROVE  m \notin overlap /\ [sched |-> s, at |-> m, result |-> r] \in events
    <3>1. PICK e \in events :
            e.at \notin overlap /\ <<<<s, m>>, r>> = <<<<e.sched, e.at>>, e.result>>
      BY <2>1 DEF Reported
    <3>2. e = [sched |-> s, at |-> m, result |-> r]
      BY <3>1 DEF TypeOK, LogOK
    <3> QED BY <3>1, <3>2
  <2>2. ASSUME m \notin overlap, [sched |-> s, at |-> m, result |-> r] \in events
        PROVE  <<<<s, m>>, r>> \in Reported
    <3>1. PICK e \in events : e = [sched |-> s, at |-> m, result |-> r]
      BY <2>2
    <3>2. e.sched = s /\ e.at = m /\ e.result = r
      BY <3>1
    <3> QED BY <2>2, <3>2 DEF Reported
  <2> QED BY <2>1, <2>2
<1> QED BY <1>1, <1>2 DEF SeenOf, Fired, Went

LEMMA SightHolds == TypeOK => Sight
<1> SUFFICES ASSUME TypeOK PROVE OnlyFirings
  BY SeenOfFiring DEF Sight
<1>1. ASSUME NEW e \in Reported
      PROVE  \E s \in Scheds, m \in Minutes : \E r : e = <<<<s, m>>, r>>
  <2>1. PICK x \in events : e = <<<<x.sched, x.at>>, x.result>>
    BY DEF Reported
  <2> QED BY <2>1 DEF TypeOK, LogOK
<1> QED BY <1>1 DEF OnlyFirings, Fired, Went, Clean

LEMMA AuditInit == Init => Audit!Init
BY DEF Init, Audit!Init, Fired, Went, Reported, Clean, Minutes

\* A step that changes none of the four leaves the ledger alone.
LEMMA AuditAlone ==
  ASSUME UNCHANGED <<events, runs, acts, overlap>>
  PROVE  UNCHANGED Audit!audit
BY DEF Audit!audit, Fired, Went, Reported, Clean

\* Ticks begin to overlap: the firings of their minutes are forgotten.
LEMMA OverlapForgets ==
  ASSUME TypeOK, TypeOK', UNCHANGED <<events, runs, acts>>, overlap \subseteq overlap'
  PROVE  \E gone \in SUBSET (Scheds \X Minutes) : Audit!Forget(gone)
<1> DEFINE gone == Scheds \X (overlap' \intersect Minutes)
<1>1. gone \in SUBSET (Scheds \X Minutes)
  OBVIOUS
<1>2. \A s \in Scheds, m \in Minutes : <<s, m>> \in gone <=> m \in overlap'
  OBVIOUS
<1> HIDE DEF gone
<1>3. Sight /\ Sight'
  BY SightHolds, PTL
<1>4. ASSUME NEW s \in Scheds, NEW m \in Minutes
      PROVE  /\ <<s, m>> \in Fired' <=> <<s, m>> \in Fired \ gone
             /\ \A ok \in BOOLEAN : <<s, m>> \in Went(ok)' <=> <<s, m>> \in Went(ok) \ gone
             /\ \A r : <<<<s, m>>, r>> \in Reported' <=>
                         <<<<s, m>>, r>> \in Reported /\ <<s, m>> \notin gone
  BY <1>2, <1>3 DEF Sight, SeenOf
<1>5. Fired' = Fired \ gone /\ \A ok \in BOOLEAN : Went(ok)' = Went(ok) \ gone
  BY <1>3, <1>4 DEF Sight, OnlyFirings
<1>6. Reported' = {e \in Reported : e[1] \notin gone}
  BY <1>3, <1>4 DEF Sight, OnlyFirings
<1> QED BY <1>1, <1>5, <1>6 DEF Audit!Forget

\* A firing is recorded: it begins, if its minute is a clean one, where it is
\* the first of its schedule.
LEMMA RecordBegins ==
  ASSUME TypeOK, TypeOK', OnceInv, NEW w \in Workers, Record(w)
  PROVE  [Audit!Next]_(Audit!audit)
<1>1. PICK s \in Scheds, m \in Minutes : s = cur[w] /\ m = now[w]
  BY DEF TypeOK, TicksOK
<1>2. /\ pc[w] = "record"
      /\ UNCHANGED <<acts, overlap, events>>
      /\ runs'[s][m] > 0
      /\ \A q \in Scheds, n \in Minutes : q # s \/ n # m => runs'[q][n] = runs[q][n]
  <2>1. UNCHANGED events
    BY DEF Record
  <2> QED BY <1>1, <2>1, RecordEffect
<1>3. Sight /\ Sight'
  BY SightHolds, PTL
<1>4. /\ \A ok \in BOOLEAN : Went(ok)' = Went(ok)
      /\ Reported' = Reported
  BY <1>2 DEF Went, Reported, Clean
<1>5. CASE m \in overlap
  <2>1. ASSUME NEW q \in Scheds, NEW n \in Minutes
        PROVE  <<q, n>> \in Fired' <=> <<q, n>> \in Fired
    <3>1. SeenOf(q, n) /\ SeenOf(q, n)'
      BY <1>3 DEF Sight
    <3> QED BY <1>2, <1>5, <3>1 DEF SeenOf
  <2>2. Fired' = Fired
    BY <1>3, <2>1 DEF Sight, OnlyFirings
  <2> QED BY <1>4, <2>2 DEF Audit!audit
<1>6. CASE m \notin overlap
  <2>1. ~ runs[s][m] > 0
    BY <1>1, <1>2, <1>6 DEF OnceInv, SeenByTick, Active
  <2>2. PICK f \in Scheds \X Minutes : f = <<s, m>>
    OBVIOUS
  <2>3. f \notin Fired /\ Fired' = Fired \union {f}
    BY <1>2, <1>3, <1>6, <2>1, <2>2 DEF Sight, SeenOf, OnlyFirings
  <2>4. Audit!Begin(f)
    BY <1>4, <2>3 DEF Audit!Begin
  <2> QED BY <2>4 DEF Audit!Next
<1> QED BY <1>5, <1>6

\* A firing under way in a clean minute has begun and has not told anything.
LEMMA UnderWay ==
  ASSUME TypeOK, RecordInv, OutcomeInv, NEW w \in Workers, now[w] \notin overlap,
         pc[w] \in {"resolve", "execute", "emit"}
  PROVE  <<cur[w], now[w]>> \in Fired /\ Audit!Silent(<<cur[w], now[w]>>)
<1>1. PICK s \in Scheds, m \in Minutes : s = cur[w] /\ m = now[w]
  BY DEF TypeOK, TicksOK
<1>2. SeenOf(s, m)
  BY SeenOfFiring
<1>3. runs[s][m] > 0
  BY <1>1 DEF RecordInv, ActsAreFired
<1>4. ASSUME NEW r PROVE [sched |-> s, at |-> m, result |-> r] \notin events
  BY <1>1 DEF OutcomeInv, NoNewsYet
<1>5. <<s, m>> \in Fired
  BY <1>1, <1>2, <1>3 DEF SeenOf
<1>6. ASSUME NEW e \in Reported PROVE e[1] # <<s, m>>
  <2>1. PICK x \in Scheds, y \in Minutes : \E r : e = <<<<x, y>>, r>>
    BY SightHolds DEF Sight, OnlyFirings
  <2>2. PICK r : e = <<<<x, y>>, r>>
    BY <2>1
  <2>3. <<<<s, m>>, r>> \notin Reported
    BY <1>2, <1>4 DEF SeenOf
  <2> QED BY <2>2, <2>3
<1> QED BY <1>1, <1>5, <1>6 DEF Audit!Silent

\* An operation is a success or a failure of the firing under way.
LEMMA OperateActs ==
  ASSUME TypeOK, TypeOK', RecordInv, OutcomeInv, NEW w \in Workers, NEW v \in VMs,
         NEW ok \in BOOLEAN, Operate(w, v, ok)
  PROVE  [Audit!Next]_(Audit!audit)
<1>1. PICK s \in Scheds, m \in Minutes : s = cur[w] /\ m = now[w]
  BY DEF TypeOK, TicksOK
<1>2. /\ pc[w] = "execute"
      /\ acts' = acts \union {<<s, m, ok>>}
      /\ UNCHANGED <<runs, overlap, events>>
  BY <1>1 DEF Operate
<1>3. Sight /\ Sight'
  BY SightHolds, PTL
<1>4. Fired' = Fired /\ Reported' = Reported
  BY <1>2 DEF Fired, Reported, Clean
<1>5. CASE m \in overlap
  <2>1. ASSUME NEW k \in BOOLEAN PROVE Went(k)' = Went(k)
    <3>1. ASSUME NEW q \in Scheds, NEW n \in Minutes
          PROVE  <<q, n>> \in Went(k)' <=> <<q, n>> \in Went(k)
      <4>1. SeenOf(q, n) /\ SeenOf(q, n)'
        BY <1>3 DEF Sight
      <4> QED BY <1>2, <1>5, <4>1 DEF SeenOf
    <3>2. /\ \A g \in Went(k) : \E q \in Scheds, n \in Minutes : g = <<q, n>>
          /\ \A g \in Went(k)' : \E q \in Scheds, n \in Minutes : g = <<q, n>>
      BY <1>3, Zenon DEF Sight, OnlyFirings
    <3>3. PICK old, new : old = Went(k) /\ new = Went(k)'
      OBVIOUS
    <3> QED BY <3>1, <3>2, <3>3
  <2> QED BY <1>4, <2>1 DEF Audit!audit
<1>6. CASE m \notin overlap
  <2>1. PICK f \in Scheds \X Minutes : f = <<s, m>>
    OBVIOUS
  <2>2. ASSUME NEW k \in BOOLEAN
        PROVE  Went(k)' = IF k = ok THEN Went(k) \union {f} ELSE Went(k)
    <3>1. ASSUME NEW q \in Scheds, NEW n \in Minutes
          PROVE  <<q, n>> \in Went(k)' <=> <<q, n>> \in Went(k) \/ (k = ok /\ <<q, n>> = f)
      <4>1. SeenOf(q, n) /\ SeenOf(q, n)'
        BY <1>3 DEF Sight
      <4> QED BY <1>2, <1>6, <2>1, <4>1 DEF SeenOf
    <3>2. /\ \A g \in Went(k) : \E q \in Scheds, n \in Minutes : g = <<q, n>>
          /\ \A g \in Went(k)' : \E q \in Scheds, n \in Minutes : g = <<q, n>>
      BY <1>3, Zenon DEF Sight, OnlyFirings
    <3>3. PICK old, new : old = Went(k) /\ new = Went(k)'
      OBVIOUS
    <3>4. new = IF k = ok THEN old \union {f} ELSE old
      <4>1. CASE k = ok
        BY <2>1, <3>1, <3>2, <3>3, <4>1
      <4>2. CASE k # ok
        BY <3>1, <3>2, <3>3, <4>2
      <4> QED BY <4>1, <4>2
    <3> QED BY <3>3, <3>4
  <2>3. f \in Fired /\ Audit!Silent(f)
    BY <1>1, <1>2, <1>6, <2>1, UnderWay
  <2>4. CASE ok
    BY <1>4, <2>2, <2>3, <2>4 DEF Audit!Succeed, Audit!Next
  <2>5. CASE ~ ok
    BY <1>4, <2>2, <2>3, <2>5 DEF Audit!Fail, Audit!Next
  <2> QED BY <2>4, <2>5
<1> QED BY <1>5, <1>6

\* The Event tells the outcome of the firing, once.
LEMMA EmitTells ==
  ASSUME TypeOK, TypeOK', RecordInv, OutcomeInv, OutcomeInv',
         NEW w \in Workers, EmitEvent(w)
  PROVE  [Audit!Next]_(Audit!audit)
<1>1. PICK s \in Scheds, m \in Minutes : s = cur[w] /\ m = now[w]
  BY DEF TypeOK, TicksOK
<1>2. PICK r : r = Result(Plan(w), targets[w], failed[w])
  OBVIOUS
<1>3. /\ pc[w] = "emit"
      /\ events' = events \union {[sched |-> s, at |-> m, result |-> r]}
      /\ UNCHANGED <<runs, overlap, acts>>
  BY <1>1, <1>2 DEF EmitEvent, history
<1>4. Sight /\ Sight'
  BY SightHolds, PTL
<1>5. Fired' = Fired /\ \A ok \in BOOLEAN : Went(ok)' = Went(ok)
  BY <1>3 DEF Fired, Went, Clean
<1>6. CASE m \in overlap
  <2>1. \A q \in Scheds, n \in Minutes : \A x :
          <<<<q, n>>, x>> \in Reported' <=> <<<<q, n>>, x>> \in Reported
    <3> SUFFICES ASSUME NEW q \in Scheds, NEW n \in Minutes, NEW x
                 PROVE  <<<<q, n>>, x>> \in Reported' <=> <<<<q, n>>, x>> \in Reported
      OBVIOUS
    <3> DEFINE e == [sched |-> q, at |-> n, result |-> x]
    <3>1. /\ <<<<q, n>>, x>> \in Reported <=> n \notin overlap /\ e \in events
          /\ <<<<q, n>>, x>> \in Reported' <=> n \notin overlap' /\ e \in events'
      BY <1>4 DEF Sight, SeenOf
    <3>2. n \notin overlap => (e \in events' <=> e \in events)
      <4>1. ASSUME e = [sched |-> s, at |-> m, result |-> r] PROVE n \in overlap
        <5>1. e.at = n /\ e.at = m
          BY <4>1
        <5> QED BY <1>6, <5>1
      <4> QED BY <1>3, <4>1
    <3> QED BY <1>3, <3>1, <3>2
  <2>2. Reported' = Reported
    BY <1>4, <2>1 DEF Sight, OnlyFirings
  <2> QED BY <1>5, <2>2 DEF Audit!audit
<1>7. CASE m \notin overlap
  <2>1. PICK f \in Scheds \X Minutes : f = <<s, m>>
    OBVIOUS
  <2>2. Reported' = Reported \union {<<f, r>>}
    <3>1. ASSUME NEW q \in Scheds, NEW n \in Minutes, NEW x
          PROVE  <<<<q, n>>, x>> \in Reported' <=>
                   <<<<q, n>>, x>> \in Reported \/ (<<q, n>> = f /\ x = r)
      <4>1. SeenOf(q, n) /\ SeenOf(q, n)'
        BY <1>4 DEF Sight
      <4> QED BY <1>3, <1>7, <2>1, <4>1 DEF SeenOf
    <3> QED BY <1>4, <2>1, <3>1 DEF Sight, OnlyFirings
  <2>3. f \in Fired /\ Audit!Silent(f)
    BY <1>1, <1>3, <1>7, <2>1, UnderWay
  <2>4. r \in Audit!Results /\ Audit!IsTrue(f, r)
    <3>1. PICK e \in events' : e = [sched |-> s, at |-> m, result |-> r]
      BY <1>3
    <3>2. e.sched = s /\ e.at = m /\ e.result = r
      BY <3>1
    <3>3. r \in Audit!Results
      BY <3>2 DEF TypeOK, LogOK, Audit!Results
    <3>4. \A ok \in BOOLEAN : <<e.sched, e.at, ok>> \in acts' <=> f \in Went(ok)
      BY <1>3, <1>4, <1>7, <2>1, <3>2 DEF Sight, SeenOf
    <3>5. /\ e.result = "success" => <<e.sched, e.at, FALSE>> \notin acts'
          /\ e.result = "failed" => /\ <<e.sched, e.at, FALSE>> \in acts'
                                    /\ <<e.sched, e.at, TRUE>> \notin acts'
          /\ e.result = "partial" => /\ <<e.sched, e.at, FALSE>> \in acts'
                                     /\ <<e.sched, e.at, TRUE>> \in acts'
          /\ e.result = "no_targets" => /\ <<e.sched, e.at, FALSE>> \notin acts'
                                        /\ <<e.sched, e.at, TRUE>> \notin acts'
      BY <1>3, <1>7, <3>1, <3>2 DEF OutcomeInv, EventTellsOutcome, Did
    <3> QED BY <3>2, <3>3, <3>4, <3>5 DEF Audit!IsTrue, Audit!Results
  <2>5. Audit!Tell(f, r)
    BY <1>5, <2>2, <2>3, <2>4 DEF Audit!Tell
  <2> QED BY <2>4, <2>5 DEF Audit!Next
<1> QED BY <1>6, <1>7

LEMMA AuditStep ==
  ASSUME TypeOK, OnceInv, RecordInv, OutcomeInv, [Next]_vars
  PROVE  [Audit!Next]_(Audit!audit)
<1>1. TypeOK' /\ OutcomeInv'
  BY TypeStep, OutcomeStep
<1>2. CASE TimePasses \/ UNCHANGED vars
  BY <1>2, AuditAlone DEF TimePasses, vars, history
<1>3. ASSUME NEW s \in Scheds, Edit(s) PROVE [Audit!Next]_(Audit!audit)
  BY <1>3, EditEffect, AuditAlone DEF RowsOnly, history
<1>4. ASSUME NEW w \in Workers, Tick(w) PROVE [Audit!Next]_(Audit!audit)
  <2>1. CASE TickStart(w)
    <3>1. UNCHANGED <<events, runs, acts>> /\ overlap \subseteq overlap'
      BY <2>1 DEF TickStart
    <3> QED BY <1>1, <3>1, OverlapForgets DEF Audit!Next
  <2>2. CASE Record(w)
    BY <1>1, <2>2, RecordBegins
  <2>3. ASSUME NEW v \in VMs, NEW ok \in BOOLEAN, Operate(w, v, ok)
        PROVE  [Audit!Next]_(Audit!audit)
    BY <1>1, <2>3, OperateActs
  <2>4. CASE EmitEvent(w)
    BY <1>1, <2>4, EmitTells
  <2>5. ASSUME NEW s \in Scheds, Consider(w, s) \/ Resolve(w) \/ TickEnd(w) \/ TickDies(w)
        PROVE  [Audit!Next]_(Audit!audit)
    <3>1. UNCHANGED <<events, runs, acts, overlap>>
      BY <2>5 DEF Consider, Resolve, TickEnd, TickDies, Leave, history
    <3> QED BY <3>1, AuditAlone
  <2> QED BY <1>4, <2>1, <2>2, <2>3, <2>4, <2>5, StandIns DEF Tick
<1> QED BY <1>2, <1>3, <1>4 DEF Next

\* The scheduler keeps the audit log's promises: one true Event at most for a
\* firing, with nothing done in its name afterwards, in every minute no tick of
\* which overlapped another.
THEOREM KeepsAuditAlways == Spec => KeepsAudit
<1>1. Spec => [](TypeOK /\ OnceInv /\ RecordInv /\ OutcomeInv)
  BY TypeInit, TypeStep, OnceInit, OnceStep, RecordInit, RecordStep, OutcomeInit, OutcomeStep,
     PTL DEF Spec
<1> QED BY <1>1, AuditInit, AuditStep, PTL DEF Spec, KeepsAudit, Audit!Spec
=============================================================================
