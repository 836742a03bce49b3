------------------------- MODULE VmOperations_proofs -------------------------
(***************************************************************************)
(* Proofs about VmOperations, for any finite set of VMs and any number of  *)
(* requests at a time.  What a request knows of its commands (those done,  *)
(* those refused and those to come) is its own and nobody else changes it; *)
(* only the state of the VMs is shared.                                    *)
(***************************************************************************)
EXTENDS VmOperations, FiniteSetTheorems, SequenceTheorems, TLAPS

-----------------------------------------------------------------------------
(* Sequences of commands.                                                  *)

Elems(s) == {s[i] : i \in 1 .. Len(s)}
Once(s) == \A i, j \in 1 .. Len(s) : i # j => s[i] # s[j]

LEMMA NoElems ==
  Elems(<<>>) = {} /\ Once(<<>>)
BY DEF Elems, Once

\* The first of a sequence is taken off.
LEMMA HeadOff ==
  ASSUME NEW S, NEW s \in Seq(S), s # <<>>
  PROVE  /\ Head(s) \in S /\ Tail(s) \in Seq(S)
         /\ Elems(s) = {Head(s)} \union Elems(Tail(s))
         /\ Once(s) => Head(s) \notin Elems(Tail(s)) /\ Once(Tail(s))
<1> DEFINE r == Tail(s)
           n == Len(s)
<1>1. /\ Head(s) \in S /\ r \in Seq(S) /\ Len(r) = n - 1 /\ n \in Nat \ {0}
      /\ \A i \in 1 .. Len(r) : r[i] = s[i + 1]
      /\ Head(s) = s[1]
  BY HeadTailProperties, EmptySeq
<1> HIDE DEF r, n
<1>2. 1 \in 1 .. n /\ \A i \in 1 .. Len(r) : i + 1 \in 1 .. n /\ i + 1 # 1
  BY <1>1
<1>3. \A j \in 1 .. n : j # 1 => j - 1 \in 1 .. Len(r) /\ (j - 1) + 1 = j
  BY <1>1
<1>4. \A j \in 1 .. n : j # 1 => s[j] = r[j - 1]
  BY <1>1, <1>3
<1>5. Elems(s) = {s[1]} \union Elems(r)
  <2>1. ASSUME NEW x \in Elems(s) PROVE x \in {s[1]} \union Elems(r)
    <3>1. PICK j \in 1 .. n : x = s[j]
      BY DEF Elems, n
    <3>2. j # 1 => x \in Elems(r)
      BY <1>3, <1>4, <3>1 DEF Elems
    <3> QED BY <3>1, <3>2
  <2>2. ASSUME NEW x \in Elems(r) PROVE x \in Elems(s)
    <3>1. PICK i \in 1 .. Len(r) : x = r[i]
      BY DEF Elems
    <3>2. x = s[i + 1] /\ i + 1 \in 1 .. n
      BY <1>1, <1>2, <3>1
    <3> QED BY <3>2 DEF Elems, n
  <2>3. s[1] \in Elems(s)
    BY <1>2 DEF Elems, n
  <2> QED BY <2>1, <2>2, <2>3
<1>6. ASSUME Once(s) PROVE s[1] \notin Elems(r) /\ Once(r)
  <2>1. \A i \in 1 .. Len(r) : s[1] # r[i]
    BY <1>1, <1>2, <1>6 DEF Once, n
  <2>2. ASSUME NEW i \in 1 .. Len(r), NEW j \in 1 .. Len(r), i # j PROVE r[i] # r[j]
    <3>1. i + 1 \in 1 .. n /\ j + 1 \in 1 .. n /\ i + 1 # j + 1
      BY <1>1, <2>2
    <3> QED BY <1>1, <1>6, <3>1 DEF Once, n
  <2> QED BY <2>1, <2>2 DEF Once, Elems
<1> QED BY <1>1, <1>5, <1>6 DEF r

LEMMA ElemsAppend ==
  ASSUME NEW S, NEW s \in Seq(S), NEW e \in S
  PROVE  /\ Append(s, e) \in Seq(S) /\ Append(s, e) # <<>>
         /\ Elems(Append(s, e)) = Elems(s) \union {e}
<1> DEFINE a == Append(s, e)
           n == Len(s)
<1>1. /\ a \in Seq(S) /\ a # <<>> /\ Len(a) = n + 1 /\ n \in Nat
      /\ \A i \in 1 .. n : a[i] = s[i]
      /\ a[n + 1] = e
  BY AppendProperties, LenProperties
<1> HIDE DEF a, n
<1>2. /\ n + 1 \in 1 .. Len(a) /\ \A i \in 1 .. n : i \in 1 .. Len(a)
      /\ \A i \in 1 .. Len(a) : i \in 1 .. n \/ i = n + 1
  BY <1>1
<1>3. ASSUME NEW x PROVE x \in Elems(a) <=> x \in Elems(s) \/ x = e
  BY <1>1, <1>2 DEF Elems, n
<1> QED BY <1>1, <1>3 DEF a

\* A command that moves from what is to come to what is done
LEMMA Carried ==
  ASSUME NEW S, NEW s \in Seq(S), NEW p \in Seq(S), p # <<>>
  PROVE  Append(s, Head(p)) \o Tail(p) = s \o p
<1>1. /\ Head(p) \in S /\ Tail(p) \in Seq(S) /\ <<Head(p)>> \in Seq(S)
      /\ p = <<Head(p)>> \o Tail(p)
  <2>1. Head(p) \in S /\ Tail(p) \in Seq(S)
    BY HeadTailProperties
  <2> DEFINE q == <<Head(p)>> \o Tail(p)
  <2>2. <<Head(p)>> \in Seq(S) /\ Len(<<Head(p)>>) = 1 /\ <<Head(p)>>[1] = Head(p)
    BY <2>1
  <2>3. /\ Len(p) \in Nat \ {0} /\ Len(Tail(p)) = Len(p) - 1 /\ Head(p) = p[1]
        /\ \A i \in 1 .. Len(Tail(p)) : Tail(p)[i] = p[i + 1]
    BY HeadTailProperties, EmptySeq
  <2>4. /\ q \in Seq(S) /\ Len(q) = 1 + Len(Tail(p))
        /\ \A i \in 1 .. 1 + Len(Tail(p)) :
             q[i] = IF i <= 1 THEN <<Head(p)>>[i] ELSE Tail(p)[i - 1]
    BY <2>1, <2>2, ConcatProperties
  <2>5. Len(q) = Len(p)
    BY <2>3, <2>4
  <2>6. \A i \in 1 .. Len(p) : q[i] = p[i]
    <3> SUFFICES ASSUME NEW i \in 1 .. Len(p) PROVE q[i] = p[i]
      OBVIOUS
    <3>1. CASE i = 1
      <4>1. q[1] = <<Head(p)>>[1]
        BY <2>3, <2>4
      <4> QED BY <2>2, <2>3, <3>1, <4>1
    <3>2. CASE i # 1
      <4>1. i - 1 \in 1 .. Len(Tail(p)) /\ (i - 1) + 1 = i /\ i \in 1 .. 1 + Len(Tail(p))
            /\ ~ (i <= 1)
        BY <2>3, <3>2
      <4>2. q[i] = Tail(p)[i - 1]
        BY <2>4, <4>1
      <4>3. Tail(p)[i - 1] = p[(i - 1) + 1]
        BY <2>3, <4>1
      <4> QED BY <4>1, <4>2, <4>3
    <3> QED BY <3>1, <3>2
  <2> HIDE DEF q
  <2>7. q = p
    BY <2>4, <2>5, <2>6, SeqEqual
  <2> QED BY <2>1, <2>2, <2>7 DEF q
<1>2. Append(s, Head(p)) = s \o <<Head(p)>>
  BY <1>1, AppendIsConcat
<1>3. (s \o <<Head(p)>>) \o Tail(p) = s \o (<<Head(p)>> \o Tail(p))
  BY <1>1, ConcatAssociative
<1> QED BY <1>1, <1>2, <1>3

\* The VMs of a set in some order, each once
LEMMA Listing ==
  ASSUME NEW S \in SUBSET VMs
  PROVE  LET names == SetToSeq(S)
         IN /\ names \in [1 .. Cardinality(S) -> S] /\ Cardinality(S) \in Nat
            /\ Len(names) = Cardinality(S)
            /\ \A v \in S : \E i \in 1 .. Len(names) : names[i] = v
            /\ \A i, j \in 1 .. Len(names) : i # j => names[i] # names[j]
<1> DEFINE n == Cardinality(S)
           f == SetToSeq(S)
<1>1. IsFiniteSet(S)
  BY ConstantsOK, FS_Subset
<1>2. n \in Nat /\ ExistsBijection(1 .. n, S)
  BY <1>1, FS_CardinalityType
<1>3. f \in [1 .. n -> S] /\ IsInjective(f)
  <2>1. \E g \in [1 .. n -> S] : IsInjective(g)
    BY <1>2 DEF ExistsBijection, Bijection, Injection
  <2> QED BY <2>1 DEF SetToSeq
<1>4. Len(f) = n
  BY <1>2, <1>3, LenProperties
<1>5. f \in Injection(1 .. n, S)
  BY <1>3 DEF Injection
<1>6. Cardinality(1 .. n) = n
  BY <1>2, FS_Interval
<1>7. f \in Surjection(1 .. n, S)
  <2> HIDE DEF f, n
  <2>1. Cardinality(1 .. n) = Cardinality(S)
    BY <1>6 DEF n
  <2> QED BY <1>1, <1>5, <2>1, FS_Injection
<1>8. \A v \in S : \E i \in 1 .. n : f[i] = v
  BY <1>7 DEF Surjection
<1>9. \A i, j \in 1 .. n : i # j => f[i] # f[j]
  BY <1>3 DEF IsInjective
<1> HIDE DEF f, n
<1> QED BY <1>2, <1>3, <1>4, <1>8, <1>9 DEF f, n

-----------------------------------------------------------------------------
(* Requests and their commands.                                            *)

LEMMA RequestFields ==
  ASSUME NEW r \in Requests
  PROVE  /\ r.op \in Lifecycle \union {"create", "delete", "clone", "resize", "purge"}
                       \union Bulk
         /\ r.op \in Lifecycle \union {"create", "delete", "clone", "resize"} => r.vm \in VMs
         /\ r.op = "clone" => r.dest \in VMs
         /\ r.op = "resize" => r.fields \in SUBSET Fields
BY ConstantsOK DEF Requests, Lifecycle, Bulk

\* A command and what it is made of
LEMMA CmdFields ==
  ASSUME NEW verb, NEW v
  PROVE  /\ Cmd(verb, v).verb = verb /\ Cmd(verb, v).vm = v
         /\ verb \in Verbs /\ v \in VMs \union {None} => Cmd(verb, v) \in Commands
BY DEF Cmd, Commands

\* A resize runs commands, none or one for each field.
LEMMA SetCommandsType ==
  ASSUME NEW r \in Requests, r.op = "resize"
  PROVE  SetCommands(r) \in Seq(Commands)
<1> DEFINE Set(f) == IF f \in r.fields THEN <<Cmd(f, r.vm)>> ELSE <<>>
<1>1. ASSUME NEW f \in Fields PROVE Set(f) \in Seq(Commands)
  <2>1. Cmd(f, r.vm) \in Commands
    BY RequestFields, CmdFields DEF Verbs
  <2> QED BY <2>1
<1>2. Set("cpus") \in Seq(Commands) /\ Set("memory") \in Seq(Commands)
      /\ Set("disk") \in Seq(Commands)
  BY <1>1 DEF Fields
<1>3. SetCommands(r) = Set("cpus") \o Set("memory") \o Set("disk")
  BY DEF SetCommands
<1> HIDE DEF Set
<1> QED BY <1>2, <1>3

\* All but a resize are one command.
LEMMA PlanShape ==
  ASSUME NEW r \in Requests, r.op \notin Bulk
  PROVE  /\ PlanOf(r) \in Seq(Commands)
         /\ r.op # "resize" => Len(PlanOf(r)) = 1
<1>1. CASE r.op = "create"
  <2>1. Cmd("launch", r.vm) \in Commands
    BY <1>1, RequestFields, CmdFields DEF Verbs
  <2>2. PlanOf(r) = <<Cmd("launch", r.vm)>>
    BY <1>1 DEF PlanOf, Lifecycle
  <2> QED BY <2>1, <2>2
<1>2. CASE r.op = "delete"
  <2> DEFINE verb == IF r.purge THEN "destroy" ELSE "delete"
  <2>1. Cmd(verb, r.vm) \in Commands
    BY <1>2, RequestFields, CmdFields DEF Verbs
  <2>2. PlanOf(r) = <<Cmd(verb, r.vm)>>
    BY <1>2 DEF PlanOf, Lifecycle
  <2> QED BY <2>1, <2>2
<1>3. CASE r.op = "clone"
  <2>1. Cmd("clone", r.dest) \in Commands
    BY <1>3, RequestFields, CmdFields DEF Verbs
  <2>2. PlanOf(r) = <<Cmd("clone", r.dest)>>
    BY <1>3 DEF PlanOf, Lifecycle
  <2> QED BY <2>1, <2>2
<1>4. CASE r.op = "resize"
  BY <1>4, SetCommandsType DEF PlanOf, Lifecycle
<1>5. CASE r.op = "purge"
  <2>1. Cmd("purge", None) \in Commands
    BY CmdFields DEF Verbs
  <2>2. PlanOf(r) = <<Cmd("purge", None)>>
    BY <1>5 DEF PlanOf, Lifecycle
  <2> QED BY <2>1, <2>2
<1>6. CASE r.op \in Lifecycle
  <2>1. Cmd(r.op, r.vm) \in Commands
    BY <1>6, RequestFields, CmdFields DEF Verbs
  <2>2. PlanOf(r) = <<Cmd(r.op, r.vm)>>
    BY <1>6 DEF PlanOf, Lifecycle
  <2> QED BY <1>6, <2>1, <2>2 DEF Lifecycle
<1> QED BY <1>1, <1>2, <1>3, <1>4, <1>5, <1>6, RequestFields

\* The commands of a bulk request, one for each VM it picked
Tasks(op, picked) == {Cmd(BulkVerb(op), v) : v \in picked}

LEMMA BulkCommand ==
  ASSUME NEW op \in Bulk, NEW v \in VMs
  PROVE  Cmd(BulkVerb(op), v) \in Commands
BY CmdFields DEF BulkVerb, Verbs, Lifecycle

\* The plan ListVms makes is the tasks, each once.
LEMMA BulkPlan ==
  ASSUME NEW op \in Bulk, NEW picked \in SUBSET VMs
  PROVE  LET names == SetToSeq(picked)
             p == [i \in 1 .. Len(names) |-> Cmd(BulkVerb(op), names[i])]
         IN p \in Seq(Commands) /\ Elems(p) = Tasks(op, picked) /\ Once(p)
<1> DEFINE names == SetToSeq(picked)
           n == Len(names)
           p == [i \in 1 .. n |-> Cmd(BulkVerb(op), names[i])]
<1>1. /\ names \in [1 .. n -> picked] /\ n \in Nat
      /\ \A v \in picked : \E i \in 1 .. n : names[i] = v
      /\ \A i, j \in 1 .. n : i # j => names[i] # names[j]
  BY Listing
<1> HIDE DEF n, names
<1>2. \A i \in 1 .. n : names[i] \in picked /\ names[i] \in VMs
  BY <1>1
<1>3. \A i \in 1 .. n : p[i] = Cmd(BulkVerb(op), names[i])
  OBVIOUS
<1>4. \A i \in 1 .. n : p[i] \in Commands
  BY <1>2, <1>3, BulkCommand
<1>5. p \in Seq(Commands) /\ Len(p) = n
  BY <1>1, <1>4, LenProperties
<1> HIDE DEF p
<1>6. ASSUME NEW c \in Elems(p) PROVE c \in Tasks(op, picked)
  <2>1. PICK i \in 1 .. n : c = p[i]
    BY <1>5 DEF Elems
  <2> QED BY <1>2, <1>3, <2>1 DEF Tasks
<1>7. ASSUME NEW c \in Tasks(op, picked) PROVE c \in Elems(p)
  <2>1. PICK v \in picked : c = Cmd(BulkVerb(op), v)
    BY DEF Tasks
  <2>2. PICK i \in 1 .. n : names[i] = v
    BY <1>1
  <2>3. c = p[i]
    BY <1>3, <2>1, <2>2
  <2> QED BY <1>5, <2>3 DEF Elems
<1>8. ASSUME NEW i \in 1 .. n, NEW j \in 1 .. n, i # j PROVE p[i] # p[j]
  <2>1. names[i] # names[j]
    BY <1>1, <1>8
  <2>2. p[i].vm = names[i] /\ p[j].vm = names[j]
    BY <1>3, CmdFields
  <2> QED BY <2>1, <2>2
<1>9. Once(p)
  BY <1>5, <1>8 DEF Once
<1> QED BY <1>5, <1>6, <1>7, <1>9 DEF p, n, names

-----------------------------------------------------------------------------
(* Types, and what is known of a request at each place.                    *)

VmOK == vm \in [VMs -> States]

Labels == {"idle", "list", "run", "emit", "rescue", "answer"}
Replies == {"none", "ok", "refused", "crash"}

LocalOK ==
  /\ pc \in [Threads -> Labels]
  /\ req \in [Threads -> Requests \union {None}]
  /\ plan \in [Threads -> Seq(Commands)]
  /\ listed \in [Threads -> SUBSET VMs]
  /\ done \in [Threads -> Seq(Commands)]
  /\ failed \in [Threads -> SUBSET Commands]
  /\ log \in [Threads -> SUBSET {"success", "failed"}]
  /\ answer \in [Threads -> Replies]

OthersOK == others \in [Threads -> SUBSET VMs]

ServedOK == \A t \in Threads : pc[t] # "idle" => req[t] \in Requests

LEMMA TypeParts == TypeOK <=> VmOK /\ LocalOK /\ OthersOK /\ ServedOK
BY DEF TypeOK, VmOK, LocalOK, OthersOK, ServedOK, Labels, Replies

\* A request writes its Event last, has commands left only while it runs
\* them, and has done nothing before that.
TidyAt(t) ==
  /\ pc[t] # "answer" => log[t] = {} /\ answer[t] = "none"
  /\ pc[t] # "run" => plan[t] = <<>>
  /\ pc[t] \in {"idle", "list"} => done[t] = <<>> /\ failed[t] = {} /\ listed[t] = {}
  /\ pc[t] = "list" => req[t].op \in Bulk

\* A request that is not a bulk one stops at its first refusal: until then,
\* what it did and what is to come are its plan.
OnPlan(t) ==
  /\ pc[t] = "run" /\ req[t].op \notin Bulk =>
       failed[t] = {} /\ done[t] \o plan[t] = PlanOf(req[t])
  /\ pc[t] = "emit" => /\ failed[t] = {}
                       /\ req[t].op \notin Bulk => done[t] = PlanOf(req[t])
  /\ pc[t] = "rescue" /\ req[t].op \notin Bulk =>
       failed[t] # {} /\ (req[t].op # "resize" => done[t] = <<>>)

\* What the Event, or its absence, says of a request that is over
Told(t) ==
  \/ log[t] = {"success"} /\ failed[t] = {} /\ done[t] = PlanOf(req[t])
  \/ log[t] = {"failed"} /\ done[t] = <<>>
  \/ /\ log[t] = {}
     /\ \/ req[t].op \in Bulk \union {"purge"}
        \/ done[t] = <<>>
        \/ req[t].op = "resize" /\ failed[t] # {}
        \/ answer[t] = "crash"

AtAnswer(t) ==
  pc[t] = "answer" => /\ Told(t)
                      /\ req[t].op \in Bulk /\ answer[t] = "ok" => failed[t] = {}

\* Each task of a bulk request is done, refused or to come, and only one of
\* these; no task is to come twice.
Shared(t) ==
  /\ Elems(plan[t]) \union Elems(done[t]) \union failed[t] = Tasks(req[t].op, listed[t])
  /\ Elems(plan[t]) \intersect Elems(done[t]) = {}
  /\ Elems(plan[t]) \intersect failed[t] = {}
  /\ Elems(done[t]) \intersect failed[t] = {}
  /\ Once(plan[t])

BulkShared(t) == pc[t] \notin {"idle", "list"} /\ req[t].op \in Bulk => Shared(t)

\* What a bulk request did to a VM is still so, unless somebody else changed
\* that VM since.
Holds(t) ==
  \A v \in VMs \ others[t] :
    Cmd(BulkVerb(req[t].op), v) \in Elems(done[t]) => vm[v] = Leaves(BulkVerb(req[t].op))

BulkHolds(t) == pc[t] # "idle" /\ req[t].op \in Bulk => Holds(t)

Known(t) == TidyAt(t) /\ OnPlan(t) /\ AtAnswer(t) /\ BulkShared(t) /\ BulkHolds(t)

VmInv == TypeOK /\ \A t \in Threads : Known(t)

LEMMA VmInit == Init => VmInv
<1> SUFFICES ASSUME Init PROVE VmInv
  OBVIOUS
<1>1. VmOK
  BY DEF Init, VmOK, States
<1>2. LocalOK /\ OthersOK /\ ServedOK
  BY DEF Init, LocalOK, OthersOK, ServedOK, Labels, Replies
<1>3. ASSUME NEW t \in Threads PROVE Known(t)
  <2>1. /\ pc[t] = "idle" /\ plan[t] = <<>> /\ done[t] = <<>> /\ failed[t] = {}
        /\ listed[t] = {} /\ log[t] = {} /\ answer[t] = "none"
    BY DEF Init
  <2> QED BY <2>1 DEF Known, TidyAt, OnPlan, AtAnswer, BulkShared, BulkHolds
<1> QED BY <1>1, <1>2, <1>3, TypeParts DEF VmInv

-----------------------------------------------------------------------------
(* What a step leaves alone.                                               *)

\* Nothing of what request u knows changes,
Same(u) ==
  /\ pc'[u] = pc[u] /\ req'[u] = req[u] /\ plan'[u] = plan[u] /\ listed'[u] = listed[u]
  /\ done'[u] = done[u] /\ failed'[u] = failed[u] /\ log'[u] = log[u]
  /\ answer'[u] = answer[u]

\* and it takes note of the VMs that do.
Notices(u) ==
  pc[u] # "idle" => \A v \in VMs \ others'[u] : v \notin others[u] /\ vm'[v] = vm[v]

LEMMA SameKeepsKnown ==
  ASSUME NEW u \in Threads, Known(u), Same(u), Notices(u)
  PROVE  Known(u)'
<1>1. TidyAt(u)' /\ OnPlan(u)'
  BY DEF Known, Same, TidyAt, OnPlan
<1>2. AtAnswer(u)'
  BY DEF Known, Same, AtAnswer, Told
<1>3. BulkShared(u)'
  BY DEF Known, Same, BulkShared, Shared
<1>4. BulkHolds(u)'
  BY DEF Known, Same, BulkHolds, Holds, Notices
<1> QED BY <1>1, <1>2, <1>3, <1>4 DEF Known

\* What has to be shown of a step of request t
StepOf(t) ==
  /\ VmOK' /\ LocalOK' /\ OthersOK'
  /\ pc'[t] # "idle" => req'[t] \in Requests
  /\ Known(t)'
  /\ \A u \in Threads \ {t} : Same(u) /\ Notices(u)

LEMMA StepKeepsInv ==
  ASSUME VmInv, NEW t \in Threads, StepOf(t)
  PROVE  VmInv'
<1>1. ASSUME NEW u \in Threads \ {t} PROVE Known(u)' /\ (pc'[u] # "idle" => req'[u] \in Requests)
  <2>1. Known(u) /\ Same(u) /\ Notices(u)
    BY DEF VmInv, StepOf
  <2>2. pc[u] # "idle" => req[u] \in Requests
    BY TypeParts DEF VmInv, ServedOK
  <2> QED BY <2>1, <2>2, SameKeepsKnown DEF Same
<1>2. \A u \in Threads : Known(u)' /\ (pc'[u] # "idle" => req'[u] \in Requests)
  BY <1>1 DEF StepOf
<1>3. ServedOK'
  BY <1>2 DEF ServedOK
<1>4. TypeOK'
  BY <1>3 DEF StepOf, TypeOK, VmOK, LocalOK, OthersOK, ServedOK, Labels, Replies
<1> QED BY <1>2, <1>4 DEF VmInv

\* A step that leaves the VMs and what was noted of them alone is noticed.
LEMMA CalmIsNoticed ==
  ASSUME UNCHANGED <<vm, others>>, NEW u \in Threads
  PROVE  Notices(u)
BY DEF Notices

\* What somebody does to a VM is noted by the requests under way.
LEMMA NotedIsNoticed ==
  ASSUME NEW t, others' = Noted(t), NEW u \in Threads, u # t
  PROVE  Notices(u)
BY DEF Noted, Notices

LEMMA NotedType ==
  ASSUME OthersOK, NEW t, others' = Noted(t)
  PROVE  OthersOK' /\ (t \in Threads => others'[t] = others[t])
BY DEF OthersOK, Noted

\* A step that leaves alone what a bulk request did leaves it holding.
LEMMA CalmKeepsHolding ==
  ASSUME NEW t \in Threads, BulkHolds(t), pc[t] # "idle",
         UNCHANGED <<vm, others>>, req'[t] = req[t], done'[t] = done[t]
  PROVE  BulkHolds(t)'
BY DEF BulkHolds, Holds

-----------------------------------------------------------------------------
(* The steps of a request.                                                 *)

\* A request comes in.
LEMMA ReceiveStep ==
  ASSUME VmInv, NEW t \in Threads, NEW r \in Requests, Receive(t, r)
  PROVE  StepOf(t)
<1>1. VmOK /\ LocalOK /\ OthersOK /\ Known(t)
  BY TypeParts DEF VmInv
<1>2. /\ pc[t] = "idle" /\ req'[t] = r
      /\ UNCHANGED <<vm, listed, done, failed, log, answer, others>>
      /\ req' = [req EXCEPT ![t] = r]
      /\ \/ r.op \in Bulk /\ pc' = [pc EXCEPT ![t] = "list"] /\ UNCHANGED plan
         \/ /\ r.op \notin Bulk /\ pc' = [pc EXCEPT ![t] = "run"]
            /\ plan' = [plan EXCEPT ![t] = PlanOf(r)] /\ PlanOf(r) \in Seq(Commands)
  BY <1>1, PlanShape DEF Receive, Goto, LocalOK
<1>3. VmOK' /\ OthersOK' /\ LocalOK'
  <2>1. VmOK' /\ OthersOK'
    BY <1>1, <1>2 DEF VmOK, OthersOK
  <2>2. \E l \in Labels : pc' = [pc EXCEPT ![t] = l]
    BY <1>2 DEF Labels
  <2>3. pc' \in [Threads -> Labels]
    BY <1>1, <2>2 DEF LocalOK
  <2>4. \E p \in Seq(Commands) : plan' = plan \/ plan' = [plan EXCEPT ![t] = p]
    BY <1>1, <1>2 DEF LocalOK
  <2>5. plan' \in [Threads -> Seq(Commands)]
    BY <1>1, <2>4 DEF LocalOK
  <2>6. req' \in [Threads -> Requests \union {None}]
    BY <1>1, <1>2 DEF LocalOK
  <2>7. LocalOK'
    BY <1>1, <1>2, <2>3, <2>5, <2>6 DEF LocalOK
  <2> QED BY <2>1, <2>7
<1>4. /\ plan[t] = <<>> /\ done[t] = <<>> /\ failed[t] = {} /\ listed[t] = {}
      /\ log[t] = {} /\ answer[t] = "none"
  BY <1>1, <1>2 DEF Known, TidyAt
<1>5. \/ r.op \in Bulk /\ pc'[t] = "list" /\ plan'[t] = <<>>
      \/ r.op \notin Bulk /\ pc'[t] = "run" /\ plan'[t] = PlanOf(r)
  BY <1>1, <1>2, <1>4 DEF LocalOK
<1>6. TidyAt(t)' /\ AtAnswer(t)' /\ BulkShared(t)'
  BY <1>2, <1>4, <1>5 DEF TidyAt, AtAnswer, BulkShared
<1>7. OnPlan(t)'
  <2>1. r.op \notin Bulk => <<>> \o PlanOf(r) = PlanOf(r)
    BY PlanShape, ConcatEmptySeq
  <2> QED BY <1>2, <1>4, <1>5, <2>1 DEF OnPlan
<1>8. BulkHolds(t)'
  BY <1>2, <1>4, NoElems DEF BulkHolds, Holds
<1>9. \A u \in Threads \ {t} : Same(u) /\ Notices(u)
  BY <1>1, <1>2, CalmIsNoticed DEF Same, LocalOK
<1> QED BY <1>2, <1>3, <1>6, <1>7, <1>8, <1>9 DEF StepOf, Known

\* A bulk request lists the VMs, or cannot.
LEMMA ListStep ==
  ASSUME VmInv, NEW t \in Threads, ListVms(t)
  PROVE  StepOf(t)
<1>1. VmOK /\ LocalOK /\ OthersOK /\ ServedOK /\ Known(t)
  BY TypeParts DEF VmInv
<1>2. /\ pc[t] = "list" /\ req[t] \in Requests
      /\ UNCHANGED <<vm, req, done, failed, log, answer, others>>
  BY <1>1 DEF ListVms, ServedOK
<1>3. /\ plan[t] = <<>> /\ done[t] = <<>> /\ failed[t] = {} /\ listed[t] = {}
      /\ log[t] = {} /\ answer[t] = "none" /\ req[t].op \in Bulk
  BY <1>1, <1>2 DEF Known, TidyAt
<1>4. BulkHolds(t)'
  BY <1>1, <1>2, CalmKeepsHolding DEF Known
<1>5. CASE Goto(t, "rescue") /\ UNCHANGED <<listed, plan>>
  <2>1. pc' = [pc EXCEPT ![t] = "rescue"] /\ pc'[t] = "rescue"
    BY <1>1, <1>5 DEF Goto, LocalOK
  <2>2. VmOK' /\ OthersOK' /\ LocalOK'
    BY <1>1, <1>2, <1>5, <2>1 DEF VmOK, OthersOK, LocalOK, Labels
  <2>3. TidyAt(t)' /\ AtAnswer(t)' /\ OnPlan(t)'
    BY <1>2, <1>3, <1>5, <2>1 DEF TidyAt, AtAnswer, OnPlan
  <2>4. Tasks(req[t].op, {}) = {}
    BY DEF Tasks
  <2>5. BulkShared(t)'
    BY <1>2, <1>3, <1>5, <2>4, NoElems DEF BulkShared, Shared
  <2>6. \A u \in Threads \ {t} : Same(u) /\ Notices(u)
    BY <1>1, <1>2, <1>5, <2>1, CalmIsNoticed DEF Same, LocalOK
  <2> QED BY <1>2, <1>4, <2>2, <2>3, <2>5, <2>6 DEF StepOf, Known
<1>6. CASE ~ (Goto(t, "rescue") /\ UNCHANGED <<listed, plan>>)
  <2>1. PICK op \in Bulk : op = req[t].op
    BY <1>3
  <2>2. PICK picked \in SUBSET VMs : picked = {v \in VMs : vm[v] = Selects(op)}
    OBVIOUS
  <2>3. PICK p : p = [i \in 1 .. Len(SetToSeq(picked)) |-> Cmd(BulkVerb(op), SetToSeq(picked)[i])]
    OBVIOUS
  <2>4. /\ listed' = [listed EXCEPT ![t] = picked]
        /\ plan' = [plan EXCEPT ![t] = p]
        /\ pc' = [pc EXCEPT ![t] = "run"]
    BY <1>6, <2>1, <2>2, <2>3 DEF ListVms, Goto
  <2>5. p \in Seq(Commands) /\ Elems(p) = Tasks(op, picked) /\ Once(p)
    BY <2>3, BulkPlan
  <2>6. VmOK' /\ OthersOK' /\ LocalOK'
    BY <1>1, <1>2, <2>4, <2>5 DEF VmOK, OthersOK, LocalOK, Labels
  <2>7. listed'[t] = picked /\ plan'[t] = p /\ pc'[t] = "run"
    BY <1>1, <2>4 DEF LocalOK
  <2>8. TidyAt(t)' /\ AtAnswer(t)' /\ OnPlan(t)'
    BY <1>2, <1>3, <2>7 DEF TidyAt, AtAnswer, OnPlan
  <2>9. Shared(t)'
    BY <1>2, <1>3, <2>1, <2>5, <2>7, NoElems DEF Shared
  <2>10. \A u \in Threads \ {t} : Same(u) /\ Notices(u)
    BY <1>1, <1>2, <2>4, CalmIsNoticed DEF Same, LocalOK
  <2> QED BY <1>2, <1>4, <2>6, <2>8, <2>9, <2>10 DEF StepOf, Known, BulkShared
<1> QED BY <1>5, <1>6

\* A command that multipassd accepts leaves each VM in a state.
LEMMA EffectType ==
  ASSUME VmOK, NEW c \in Commands
  PROVE  /\ Effect(c) \in [VMs -> States]
         /\ c.verb # "purge" =>
              \A v \in VMs : Effect(c)[v] = IF v = c.vm THEN Leaves(c.verb) ELSE vm[v]
<1>1. Leaves(c.verb) \in States
  BY DEF Leaves, States
<1>2. "none" \in States
  BY DEF States
<1> QED BY <1>1, <1>2 DEF VmOK, Effect

\* A command of a bulk request is one of its tasks.
LEMMA TaskFields ==
  ASSUME NEW op \in Bulk, NEW picked \in SUBSET VMs, NEW c \in Tasks(op, picked)
  PROVE  c.vm \in picked /\ c.verb = BulkVerb(op) /\ c.verb # "purge"
                         /\ c = Cmd(BulkVerb(op), c.vm)
<1>1. PICK v \in picked : c = Cmd(BulkVerb(op), v)
  BY DEF Tasks
<1>2. BulkVerb(op) # "purge"
  BY DEF BulkVerb
<1> QED BY <1>1, <1>2, CmdFields

\* multipassd carries out a command.
LEMMA AcceptedStep ==
  ASSUME VmInv, NEW t \in Threads, RunAccepted(t)
  PROVE  StepOf(t)
<1>1. VmOK /\ LocalOK /\ OthersOK /\ ServedOK /\ Known(t)
  BY TypeParts DEF VmInv
<1>2. PICK p \in Seq(Commands) : p = plan[t]
  BY <1>1 DEF LocalOK
<1>3. PICK d \in Seq(Commands) : d = done[t]
  BY <1>1 DEF LocalOK
<1>4. p # <<>> /\ pc[t] = "run" /\ req[t] \in Requests
  BY <1>1, <1>2 DEF RunAccepted, ServedOK
<1>5. PICK c \in Commands : c = Head(p)
  BY <1>4, HeadOff
<1>6. /\ vm' = Effect(c) /\ done' = [done EXCEPT ![t] = Append(d, c)]
      /\ plan' = [plan EXCEPT ![t] = Tail(p)] /\ others' = Noted(t)
      /\ UNCHANGED <<pc, req, listed, failed, log, answer>>
  BY <1>2, <1>3, <1>5 DEF RunAccepted
<1>7. /\ Tail(p) \in Seq(Commands) /\ Elems(p) = {c} \union Elems(Tail(p))
      /\ Once(p) => c \notin Elems(Tail(p)) /\ Once(Tail(p))
  BY <1>4, <1>5, HeadOff
<1>8. /\ Append(d, c) \in Seq(Commands) /\ Elems(Append(d, c)) = Elems(d) \union {c}
  BY ElemsAppend
<1>9. VmOK' /\ OthersOK' /\ others'[t] = others[t]
  BY <1>1, <1>6, EffectType, NotedType DEF VmOK
<1>10. LocalOK'
  BY <1>1, <1>6, <1>7, <1>8 DEF LocalOK
<1>11. plan'[t] = Tail(p) /\ done'[t] = Append(d, c)
  BY <1>1, <1>6 DEF LocalOK
<1>12. TidyAt(t)' /\ AtAnswer(t)'
  BY <1>1, <1>4, <1>6 DEF Known, TidyAt, AtAnswer
<1>13. OnPlan(t)'
  <2>1. Append(d, c) \o Tail(p) = d \o p
    BY <1>4, <1>5, Carried
  <2>2. req[t].op \notin Bulk => failed[t] = {} /\ d \o p = PlanOf(req[t])
    BY <1>1, <1>2, <1>3, <1>4 DEF Known, OnPlan
  <2> QED BY <1>4, <1>6, <1>11, <2>1, <2>2 DEF OnPlan
<1>14. ASSUME req[t].op \notin Bulk PROVE BulkShared(t)' /\ BulkHolds(t)'
  BY <1>6, <1>14 DEF BulkShared, BulkHolds
<1>15. ASSUME req[t].op \in Bulk PROVE BulkShared(t)' /\ BulkHolds(t)'
  <2>1. PICK op \in Bulk : op = req[t].op
    BY <1>15
  <2>2. PICK picked \in SUBSET VMs : picked = listed[t]
    BY <1>1 DEF LocalOK
  <2>3. PICK f : f = failed[t]
    OBVIOUS
  <2>4. /\ Elems(p) \union Elems(d) \union f = Tasks(op, picked)
        /\ Elems(p) \intersect Elems(d) = {} /\ Elems(p) \intersect f = {}
        /\ Elems(d) \intersect f = {} /\ Once(p)
    BY <1>1, <1>2, <1>3, <1>4, <2>1, <2>2, <2>3 DEF Known, BulkShared, Shared
  <2>5. /\ Elems(Tail(p)) \union Elems(Append(d, c)) \union f = Tasks(op, picked)
        /\ Elems(Tail(p)) \intersect Elems(Append(d, c)) = {}
        /\ Elems(Tail(p)) \intersect f = {}
        /\ Elems(Append(d, c)) \intersect f = {} /\ Once(Tail(p))
    BY <1>7, <1>8, <2>4
  <2>6. BulkShared(t)'
    BY <1>6, <1>11, <2>1, <2>2, <2>3, <2>5 DEF BulkShared, Shared
  <2>7. PICK w \in picked : w = c.vm /\ c = Cmd(BulkVerb(op), w)
    BY <1>7, <2>4, TaskFields
  <2>8. \A v \in VMs : vm'[v] = IF v = w THEN Leaves(BulkVerb(op)) ELSE vm[v]
    BY <1>1, <1>6, <1>7, <2>4, <2>7, EffectType, TaskFields
  <2>9. ASSUME NEW v \in VMs, v \notin others[t], Cmd(BulkVerb(op), v) \in Elems(Append(d, c))
        PROVE  vm'[v] = Leaves(BulkVerb(op))
    <3>1. CASE v = w
      BY <2>8, <3>1
    <3>2. CASE v # w
      <4>1. Cmd(BulkVerb(op), v) # c
        BY <2>7, <3>2, CmdFields
      <4>2. Cmd(BulkVerb(op), v) \in Elems(d)
        BY <1>8, <2>9, <4>1
      <4>3. vm[v] = Leaves(BulkVerb(op))
        BY <1>1, <1>3, <1>4, <2>1, <2>9, <4>2 DEF Known, BulkHolds, Holds
      <4> QED BY <2>8, <3>2, <4>3
    <3> QED BY <3>1, <3>2
  <2>10. BulkHolds(t)'
    BY <1>6, <1>9, <1>11, <2>1, <2>9 DEF BulkHolds, Holds
  <2> QED BY <2>6, <2>10
<1>16. \A u \in Threads \ {t} : Same(u) /\ Notices(u)
  BY <1>1, <1>6, NotedIsNoticed DEF Same, LocalOK
<1> QED BY <1>4, <1>6, <1>9, <1>10, <1>12, <1>13, <1>14, <1>15, <1>16 DEF StepOf, Known

\* The first command of a plan of one is refused before anything was done.
LEMMA NothingDoneYet ==
  ASSUME NEW d \in Seq(Commands), NEW p \in Seq(Commands), p # <<>>, Len(d \o p) = 1
  PROVE  d = <<>>
<1>1. Len(d \o p) = Len(d) + Len(p) /\ Len(d) \in Nat /\ Len(p) \in Nat \ {0}
  BY ConcatProperties, EmptySeq
<1>2. Len(d) = 0
  BY <1>1
<1> QED BY <1>2, EmptySeq

\* multipassd refuses a command.
LEMMA RefusedStep ==
  ASSUME VmInv, NEW t \in Threads, RunRefused(t)
  PROVE  StepOf(t)
<1>1. VmOK /\ LocalOK /\ OthersOK /\ ServedOK /\ Known(t)
  BY TypeParts DEF VmInv
<1>2. PICK p \in Seq(Commands) : p = plan[t]
  BY <1>1 DEF LocalOK
<1>3. PICK d \in Seq(Commands) : d = done[t]
  BY <1>1 DEF LocalOK
<1>4. PICK f \in SUBSET Commands : f = failed[t]
  BY <1>1 DEF LocalOK
<1>5. p # <<>> /\ pc[t] = "run" /\ req[t] \in Requests
  BY <1>1, <1>2 DEF RunRefused, ServedOK
<1>6. PICK c \in Commands : c = Head(p)
  BY <1>5, HeadOff
<1>7. PICK g \in SUBSET Commands : g = f \union {c}
  OBVIOUS
<1>8. /\ failed' = [failed EXCEPT ![t] = g]
      /\ UNCHANGED <<vm, req, listed, done, log, answer, others>>
  BY <1>2, <1>4, <1>6, <1>7 DEF RunRefused
<1>9. /\ Tail(p) \in Seq(Commands) /\ Elems(p) = {c} \union Elems(Tail(p))
      /\ Once(p) => c \notin Elems(Tail(p)) /\ Once(Tail(p))
  BY <1>5, <1>6, HeadOff
<1>10. failed'[t] = g /\ failed' \in [Threads -> SUBSET Commands]
  BY <1>1, <1>8 DEF LocalOK
<1>11. BulkHolds(t)'
  BY <1>1, <1>5, <1>8, CalmKeepsHolding DEF Known
<1>12. log[t] = {} /\ answer[t] = "none"
  BY <1>1, <1>5 DEF Known, TidyAt
<1>13. CASE req[t].op \in Bulk
  <2>1. plan' = [plan EXCEPT ![t] = Tail(p)] /\ UNCHANGED pc
    BY <1>2, <1>13 DEF RunRefused, KeepsGoing
  <2>2. VmOK' /\ OthersOK' /\ LocalOK'
    BY <1>1, <1>8, <1>9, <1>10, <2>1 DEF VmOK, OthersOK, LocalOK
  <2>3. plan'[t] = Tail(p)
    BY <1>1, <2>1 DEF LocalOK
  <2>4. TidyAt(t)' /\ AtAnswer(t)' /\ OnPlan(t)'
    BY <1>5, <1>8, <1>12, <1>13, <2>1 DEF TidyAt, AtAnswer, OnPlan
  <2>5. /\ Elems(p) \union Elems(d) \union f = Tasks(req[t].op, listed[t])
        /\ Elems(p) \intersect Elems(d) = {} /\ Elems(p) \intersect f = {}
        /\ Elems(d) \intersect f = {} /\ Once(p)
    BY <1>1, <1>2, <1>3, <1>4, <1>5, <1>13 DEF Known, BulkShared, Shared
  <2>6. /\ Elems(Tail(p)) \union Elems(d) \union g = Tasks(req[t].op, listed[t])
        /\ Elems(Tail(p)) \intersect Elems(d) = {} /\ Elems(Tail(p)) \intersect g = {}
        /\ Elems(d) \intersect g = {} /\ Once(Tail(p))
    BY <1>7, <1>9, <2>5
  <2>7. Shared(t)'
    BY <1>3, <1>8, <1>10, <2>3, <2>6 DEF Shared
  <2>8. \A u \in Threads \ {t} : Same(u) /\ Notices(u)
    BY <1>1, <1>8, <2>1, CalmIsNoticed DEF Same, LocalOK
  <2> QED BY <1>5, <1>8, <1>11, <2>2, <2>4, <2>7, <2>8 DEF StepOf, Known, BulkShared
<1>14. CASE req[t].op \notin Bulk
  <2>1. plan' = [plan EXCEPT ![t] = <<>>] /\ pc' = [pc EXCEPT ![t] = "rescue"]
    BY <1>14 DEF RunRefused, KeepsGoing, Goto
  <2>2. VmOK' /\ OthersOK' /\ LocalOK'
    BY <1>1, <1>8, <1>10, <2>1 DEF VmOK, OthersOK, LocalOK, Labels
  <2>3. plan'[t] = <<>> /\ pc'[t] = "rescue"
    BY <1>1, <2>1 DEF LocalOK
  <2>4. req[t].op # "resize" => d = <<>>
    <3>1. d \o p = PlanOf(req[t])
      BY <1>1, <1>2, <1>3, <1>5, <1>14 DEF Known, OnPlan
    <3> QED BY <1>5, <1>14, <3>1, PlanShape, NothingDoneYet
  <2>5. TidyAt(t)' /\ AtAnswer(t)' /\ BulkShared(t)'
    BY <1>8, <1>12, <1>14, <2>3 DEF TidyAt, AtAnswer, BulkShared
  <2>6. OnPlan(t)'
    BY <1>3, <1>7, <1>8, <1>10, <2>3, <2>4 DEF OnPlan
  <2>7. \A u \in Threads \ {t} : Same(u) /\ Notices(u)
    BY <1>1, <1>8, <2>1, CalmIsNoticed DEF Same, LocalOK
  <2> QED BY <1>5, <1>8, <1>11, <2>2, <2>5, <2>6, <2>7 DEF StepOf, Known
<1> QED BY <1>13, <1>14

\* Nothing is left to run.
LEMMA FinishStep ==
  ASSUME VmInv, NEW t \in Threads, Finish(t)
  PROVE  StepOf(t)
<1>1. VmOK /\ LocalOK /\ OthersOK /\ ServedOK /\ Known(t)
  BY TypeParts DEF VmInv
<1>2. PICK l \in {"emit", "rescue"} : l = IF failed[t] = {} THEN "emit" ELSE "rescue"
  OBVIOUS
<1>3. /\ pc[t] = "run" /\ plan[t] = <<>> /\ req[t] \in Requests
      /\ pc' = [pc EXCEPT ![t] = l]
      /\ UNCHANGED <<vm, req, plan, listed, done, failed, log, answer, others>>
  BY <1>1, <1>2 DEF Finish, Goto, Succeeded, ServedOK
<1>4. VmOK' /\ OthersOK' /\ LocalOK' /\ pc'[t] = l
  BY <1>1, <1>3 DEF VmOK, OthersOK, LocalOK, Labels
<1>5. done[t] \in Seq(Commands)
  BY <1>1 DEF LocalOK
<1>6. done[t] \o <<>> = done[t]
  BY <1>5, ConcatEmptySeq
<1>7. TidyAt(t)' /\ AtAnswer(t)'
  BY <1>1, <1>3, <1>4 DEF Known, TidyAt, AtAnswer
<1>8. OnPlan(t)'
  BY <1>1, <1>2, <1>3, <1>4, <1>6 DEF Known, OnPlan
<1>9. BulkShared(t)'
  BY <1>1, <1>3, <1>4 DEF Known, BulkShared, Shared
<1>10. BulkHolds(t)'
  BY <1>1, <1>3, CalmKeepsHolding DEF Known
<1>11. \A u \in Threads \ {t} : Same(u) /\ Notices(u)
  BY <1>1, <1>3, CalmIsNoticed DEF Same, LocalOK
<1> QED BY <1>3, <1>4, <1>7, <1>8, <1>9, <1>10, <1>11 DEF StepOf, Known

\* What the two last steps of a request have in common
LEMMA AnswerStep ==
  ASSUME VmInv, NEW t \in Threads, pc[t] \in {"emit", "rescue"},
         NEW e \in SUBSET {"success", "failed"}, NEW a \in Replies,
         log' = [log EXCEPT ![t] = e], Answers(t, a),
         UNCHANGED <<vm, req, plan, listed, done, failed, others>>,
         AtAnswer(t)'
  PROVE  StepOf(t)
<1>1. VmOK /\ LocalOK /\ OthersOK /\ ServedOK /\ Known(t)
  BY TypeParts DEF VmInv
<1>2. pc' = [pc EXCEPT ![t] = "answer"] /\ answer' = [answer EXCEPT ![t] = a]
  BY DEF Answers, Goto
<1>3. VmOK' /\ OthersOK' /\ LocalOK' /\ pc'[t] = "answer"
  BY <1>1, <1>2 DEF VmOK, OthersOK, LocalOK, Labels
<1>4. TidyAt(t)' /\ OnPlan(t)'
  BY <1>1, <1>3 DEF Known, TidyAt, OnPlan
<1>5. BulkShared(t)'
  BY <1>1, <1>3 DEF Known, BulkShared, Shared
<1>6. BulkHolds(t)'
  BY <1>1, CalmKeepsHolding DEF Known
<1>7. \A u \in Threads \ {t} : Same(u) /\ Notices(u)
  BY <1>1, <1>2, CalmIsNoticed DEF Same, LocalOK
<1>8. req'[t] \in Requests
  BY <1>1 DEF ServedOK
<1> QED BY <1>3, <1>4, <1>5, <1>6, <1>7, <1>8 DEF StepOf, Known

\* The commands have succeeded, and an Event may say so.
LEMMA EmitStep ==
  ASSUME VmInv, NEW t \in Threads, EmitSuccess(t)
  PROVE  StepOf(t)
<1>1. LocalOK /\ Known(t)
  BY TypeParts DEF VmInv
<1>2. /\ pc[t] = "emit" /\ UNCHANGED <<vm, req, plan, listed, done, failed, others>>
  BY DEF EmitSuccess
<1>3. /\ log[t] = {} /\ failed[t] = {}
      /\ req[t].op \notin Bulk => done[t] = PlanOf(req[t])
  BY <1>1, <1>2 DEF Known, TidyAt, OnPlan
<1>4. PICK e \in SUBSET {"success", "failed"}, a \in Replies :
        /\ log' = [log EXCEPT ![t] = e] /\ Answers(t, a)
        /\ \/ e = {"success"} /\ req[t].op \notin Bulk
           \/ e = {} /\ (req[t].op \in Bulk \union {"purge"} \/ a = "crash")
  <2>1. [log EXCEPT ![t] = {}] = log
    BY <1>1, <1>3 DEF LocalOK
  <2>2. \/ /\ log' = [log EXCEPT ![t] = {"success"}] /\ Answers(t, "ok")
           /\ req[t].op \notin Bulk
        \/ log' = [log EXCEPT ![t] = {}] /\ Answers(t, "crash")
        \/ /\ log' = [log EXCEPT ![t] = {}] /\ Answers(t, "ok")
           /\ req[t].op \in Bulk \union {"purge"}
    BY <1>3, <2>1 DEF EmitSuccess, LogsSuccess, Emit
  <2> QED BY <2>2 DEF Replies
<1>5. log'[t] = e /\ pc'[t] = "answer" /\ answer'[t] = a
  BY <1>1, <1>4 DEF LocalOK, Answers, Goto
<1>6. AtAnswer(t)'
  BY <1>2, <1>3, <1>4, <1>5 DEF AtAnswer, Told
<1> QED BY <1>2, <1>4, <1>6, AnswerStep

\* A command was refused, and an Event may say so.
LEMMA RescueStep ==
  ASSUME VmInv, NEW t \in Threads, RescueCommandError(t)
  PROVE  StepOf(t)
<1>1. LocalOK /\ Known(t) /\ ServedOK
  BY TypeParts DEF VmInv
<1>2. /\ pc[t] = "rescue" /\ UNCHANGED <<vm, req, plan, listed, done, failed, others>>
      /\ req[t] \in Requests
  BY <1>1 DEF RescueCommandError, ServedOK
<1>3. /\ log[t] = {}
      /\ req[t].op \notin Bulk => failed[t] # {} /\ (req[t].op # "resize" => done[t] = <<>>)
  BY <1>1, <1>2 DEF Known, TidyAt, OnPlan
<1>4. PICK e \in SUBSET {"success", "failed"}, a \in Replies :
        /\ log' = [log EXCEPT ![t] = e] /\ Answers(t, a) /\ a # "ok"
        /\ \/ e = {"failed"} /\ req[t].op \in Lifecycle \union {"create"}
           \/ e = {}
  <2>1. [log EXCEPT ![t] = {}] = log
    BY <1>1, <1>3 DEF LocalOK
  <2>2. \/ /\ log' = [log EXCEPT ![t] = {"failed"}] /\ Answers(t, "refused")
           /\ req[t].op \in Lifecycle \union {"create"}
        \/ log' = [log EXCEPT ![t] = {}] /\ Answers(t, "crash")
        \/ log' = [log EXCEPT ![t] = {}] /\ Answers(t, "refused")
    BY <1>3, <2>1 DEF RescueCommandError, LogsFailure, Emit
  <2> QED BY <2>2 DEF Replies
<1>5. log'[t] = e /\ pc'[t] = "answer" /\ answer'[t] = a
  BY <1>1, <1>4 DEF LocalOK, Answers, Goto
<1>6. req[t].op \in Lifecycle \union {"create"} => req[t].op \notin Bulk \union {"resize"}
  BY DEF Lifecycle, Bulk
<1>7. AtAnswer(t)'
  BY <1>2, <1>3, <1>4, <1>5, <1>6 DEF AtAnswer, Told
<1> QED BY <1>2, <1>4, <1>7, AnswerStep

\* The answer is sent.
LEMMA RespondStep ==
  ASSUME VmInv, NEW t \in Threads, Respond(t)
  PROVE  StepOf(t)
<1>1. VmOK /\ LocalOK /\ OthersOK /\ ServedOK /\ Known(t)
  BY TypeParts DEF VmInv
<1>2. /\ pc[t] = "answer" /\ UNCHANGED <<vm, plan>>
      /\ pc' = [pc EXCEPT ![t] = "idle"] /\ req' = [req EXCEPT ![t] = None]
      /\ listed' = [listed EXCEPT ![t] = {}] /\ done' = [done EXCEPT ![t] = <<>>]
      /\ failed' = [failed EXCEPT ![t] = {}] /\ log' = [log EXCEPT ![t] = {}]
      /\ answer' = [answer EXCEPT ![t] = "none"] /\ others' = [others EXCEPT ![t] = {}]
  BY DEF Respond, Goto
<1>3. VmOK' /\ OthersOK' /\ LocalOK'
  BY <1>1, <1>2 DEF VmOK, OthersOK, LocalOK, Labels, Replies
<1>4. /\ pc'[t] = "idle" /\ plan'[t] = <<>> /\ done'[t] = <<>> /\ failed'[t] = {}
      /\ listed'[t] = {} /\ log'[t] = {} /\ answer'[t] = "none"
  BY <1>1, <1>2 DEF LocalOK, Known, TidyAt
<1>5. Known(t)'
  BY <1>4 DEF Known, TidyAt, OnPlan, AtAnswer, BulkShared, BulkHolds
<1>6. \A u \in Threads \ {t} : Same(u) /\ Notices(u)
  BY <1>1, <1>2 DEF Same, Notices, LocalOK, OthersOK
<1> QED BY <1>3, <1>4, <1>5, <1>6 DEF StepOf

-----------------------------------------------------------------------------
(* Every step, and the theorems.                                           *)

\* A guest powers off.
LEMMA PowersOffStep ==
  ASSUME VmInv, NEW w \in VMs, PowersOff(w)
  PROVE  VmInv'
<1>1. VmOK /\ LocalOK /\ OthersOK /\ ServedOK
  BY TypeParts DEF VmInv
<1>2. /\ vm' = [vm EXCEPT ![w] = "Stopped"] /\ others' = Noted(None)
      /\ UNCHANGED <<pc, req, plan, listed, done, failed, log, answer>>
  BY DEF PowersOff, local
<1>3. VmOK' /\ OthersOK'
  BY <1>1, <1>2, NotedType DEF VmOK, States
<1>4. LocalOK' /\ ServedOK'
  BY <1>1, <1>2 DEF LocalOK, ServedOK
<1>5. ASSUME NEW u \in Threads PROVE Known(u)'
  <2>1. u # None
    BY ConstantsOK
  <2>2. Known(u) /\ Same(u) /\ Notices(u)
    BY <1>2, <2>1, NotedIsNoticed DEF VmInv, Same
  <2> QED BY <2>2, SameKeepsKnown
<1>6. TypeOK'
  BY <1>3, <1>4 DEF TypeOK, VmOK, LocalOK, OthersOK, ServedOK, Labels, Replies
<1> QED BY <1>5, <1>6 DEF VmInv

LEMMA VmStep == VmInv /\ [Next]_vars => VmInv'
<1> SUFFICES ASSUME VmInv, [Next]_vars PROVE VmInv'
  OBVIOUS
<1>1. ASSUME NEW t \in Threads, Serve(t) PROVE VmInv'
  <2>1. StepOf(t)
    BY <1>1, ListStep, AcceptedStep, RefusedStep, FinishStep, EmitStep, RescueStep,
       RespondStep DEF Serve
  <2> QED BY <2>1, StepKeepsInv
<1>2. ASSUME NEW t \in Threads, NEW r \in Requests, Receive(t, r) PROVE VmInv'
  BY <1>2, ReceiveStep, StepKeepsInv
<1>3. ASSUME NEW v \in VMs, PowersOff(v) PROVE VmInv'
  BY <1>3, PowersOffStep
<1>4. ASSUME UNCHANGED vars PROVE VmInv'
  <2>1. UNCHANGED <<vm, pc, req, plan, listed, done, failed, log, answer, others>>
    BY <1>4 DEF vars, local
  <2>2. \A u \in Threads : Same(u) /\ Notices(u)
    BY <2>1, CalmIsNoticed DEF Same
  <2>3. \A u \in Threads : Known(u)'
    BY <2>2, SameKeepsKnown DEF VmInv
  <2>4. TypeOK'
    BY <2>1 DEF VmInv, TypeOK
  <2> QED BY <2>3, <2>4 DEF VmInv
<1> QED BY <1>1, <1>2, <1>3, <1>4 DEF Next

LEMMA VmAlways == Spec => []VmInv
BY VmInit, VmStep, PTL DEF Spec

\* The types hold, for any finite set of VMs and any threads: a request under
\* way is one of those the routes allow, and its plan and what it did are
\* commands of the client.
THEOREM TypeCorrect == Spec => []TypeOK
<1>1. VmInv => TypeOK
  BY DEF VmInv
<1> QED BY <1>1, VmAlways, PTL

\* Did is what the sequence of commands done holds.
LEMMA DidElems == ASSUME NEW t \in Threads PROVE Did(t) = Elems(done[t])
BY DEF Did, Elems

\* run_all_in_state has tried every VM it listed, each with one outcome,
\* however many there are and whatever others do to them meanwhile.
THEOREM BulkTriesAllAlways == Spec => []BulkTriesAll
<1>1. ASSUME VmInv, NEW t \in Threads, Answered(t), req[t].op \in Bulk
      PROVE  /\ Did(t) \union failed[t] = Tasks(req[t].op, listed[t])
             /\ Did(t) \intersect failed[t] = {}
  <2>1. pc[t] = "answer" /\ plan[t] = <<>> /\ Shared(t)
    BY <1>1 DEF VmInv, Known, TidyAt, BulkShared, Answered
  <2> QED BY <2>1, NoElems, DidElems DEF Shared
<1>2. VmInv => BulkTriesAll
  BY <1>1 DEF BulkTriesAll, Tasks
<1> QED BY <1>2, VmAlways, PTL

\* An ok to start_all or stop_all is true of each VM the request had listed
\* and nobody else has changed since it began.
THEOREM BulkOkIsTrueAlways == Spec => []BulkOkIsTrue
<1>1. ASSUME VmInv, NEW t \in Threads, Answered(t), answer[t] = "ok", req[t].op \in Bulk,
             NEW v \in listed[t] \ others[t]
      PROVE  vm[v] = Leaves(BulkVerb(req[t].op))
  <2>1. pc[t] = "answer" /\ plan[t] = <<>> /\ failed[t] = {} /\ Shared(t) /\ Holds(t)
    BY <1>1 DEF VmInv, Known, TidyAt, AtAnswer, BulkShared, BulkHolds, Answered
  <2>2. Elems(done[t]) = Tasks(req[t].op, listed[t])
    BY <2>1, NoElems DEF Shared
  <2>3. Cmd(BulkVerb(req[t].op), v) \in Elems(done[t])
    BY <2>2 DEF Tasks
  <2>4. v \in VMs
    BY <1>1 DEF VmInv, TypeOK
  <2> QED BY <2>1, <2>3, <2>4 DEF Holds
<1>2. VmInv => BulkOkIsTrue
  BY <1>1 DEF BulkOkIsTrue
<1> QED BY <1>2, VmAlways, PTL

\* A success Event means that every command of the request was carried out,
\* a failed one that none was, and no request writes both.
THEOREM EventIsTrueAlways == Spec => []EventIsTrue
<1>1. ASSUME VmInv, NEW t \in Threads, Answered(t)
      PROVE  /\ "success" \in log[t] => failed[t] = {} /\ done[t] = PlanOf(req[t])
             /\ "failed" \in log[t] => done[t] = <<>>
             /\ log[t] # {"success", "failed"}
  <2>1. Told(t)
    BY <1>1 DEF VmInv, Known, AtAnswer, Answered
  <2> QED BY <2>1 DEF Told
<1>2. VmInv => EventIsTrue
  BY <1>1 DEF EventIsTrue
<1> QED BY <1>2, VmAlways, PTL

\* A request that changed something and wrote no Event is a bulk one, a
\* purge, a resize refused half-way, or one whose Event could not be saved.
THEOREM OnlyTheseGoUnloggedAlways == Spec => []OnlyTheseGoUnlogged
<1>1. ASSUME VmInv, NEW t \in Threads, Answered(t), done[t] # <<>>, log[t] = {}
      PROVE  \/ req[t].op \in Bulk \union {"purge"}
             \/ req[t].op = "resize" /\ failed[t] # {}
             \/ answer[t] = "crash"
  <2>1. Told(t)
    BY <1>1 DEF VmInv, Known, AtAnswer, Answered
  <2> QED BY <1>1, <2>1 DEF Told
<1>2. VmInv => OnlyTheseGoUnlogged
  BY <1>1 DEF OnlyTheseGoUnlogged
<1> QED BY <1>2, VmAlways, PTL

-----------------------------------------------------------------------------
(* VmOperations implements AuditLedger.                                    *)

LEMMA AuditInit == Init => Audit!Init
BY DEF Init, Audit!Init, Busy, Doers, Losers, Reported

\* What the ledger sees of a step of request t, which leaves the other requests
\* alone
LEMMA SeenOfStep ==
  ASSUME LocalOK, NEW t \in Threads, \A u \in Threads \ {t} : Same(u)
  PROVE  /\ Busy' = IF pc'[t] # "idle" THEN Busy \union {t} ELSE Busy \ {t}
         /\ Doers' = IF done'[t] # <<>> THEN Doers \union {t} ELSE Doers \ {t}
         /\ Losers' = IF failed'[t] # {} THEN Losers \union {t} ELSE Losers \ {t}
         /\ log'[t] = log[t] => Reported' = Reported
         /\ log'[t] = {} => Reported' = {e \in Reported : e[1] \notin {t}}
         /\ \A r \in {"success", "failed"} :
              log[t] = {} /\ log'[t] = {r} => Reported' = Reported \union {<<t, r>>}
<1>1. ASSUME NEW u \in Threads, u # t
      PROVE  pc'[u] = pc[u] /\ done'[u] = done[u] /\ failed'[u] = failed[u] /\ log'[u] = log[u]
  BY <1>1 DEF Same
<1>2. Busy' = IF pc'[t] # "idle" THEN Busy \union {t} ELSE Busy \ {t}
  BY <1>1 DEF Busy
<1>3. Doers' = IF done'[t] # <<>> THEN Doers \union {t} ELSE Doers \ {t}
  BY <1>1 DEF Doers
<1>4. Losers' = IF failed'[t] # {} THEN Losers \union {t} ELSE Losers \ {t}
  BY <1>1 DEF Losers
<1>5. log'[t] = log[t] => Reported' = Reported
  BY <1>1 DEF Reported
<1>6. log'[t] = {} => Reported' = {e \in Reported : e[1] \notin {t}}
  BY <1>1 DEF Reported
<1>7. ASSUME NEW r \in {"success", "failed"}, log[t] = {}, log'[t] = {r}
      PROVE  Reported' = Reported \union {<<t, r>>}
  BY <1>1, <1>7 DEF Reported
<1> QED BY <1>2, <1>3, <1>4, <1>5, <1>6, <1>7

\* A request under way has written nothing yet.
LEMMA NothingTold ==
  ASSUME VmInv, NEW t \in Threads, pc[t] \notin {"idle", "answer"}
  PROVE  t \in Busy /\ Audit!Silent(t) /\ log[t] = {}
<1>1. log[t] = {}
  BY DEF VmInv, Known, TidyAt
<1> QED BY <1>1 DEF Busy, Audit!Silent, Reported

\* A request that comes in begins.
LEMMA ReceiveBegins ==
  ASSUME VmInv, NEW t \in Threads, NEW r \in Requests, Receive(t, r)
  PROVE  Audit!Begin(t)
<1>1. LocalOK /\ StepOf(t)
  BY ReceiveStep, TypeParts DEF VmInv
<1>2. /\ pc[t] = "idle" /\ pc'[t] # "idle"
      /\ UNCHANGED <<done, failed, log>>
  BY <1>1 DEF Receive, Goto, LocalOK
<1>3. t \notin Busy /\ Busy' = Busy \union {t}
  BY <1>1, <1>2, SeenOfStep DEF StepOf, Busy
<1>4. UNCHANGED <<Doers, Losers, Reported>>
  BY <1>2 DEF Doers, Losers, Reported
<1> QED BY <1>3, <1>4 DEF Audit!Begin

\* multipassd has done it, or has refused it.
LEMMA RunActs ==
  ASSUME VmInv, NEW t \in Threads, RunAccepted(t) \/ RunRefused(t)
  PROVE  Audit!Succeed(t) \/ Audit!Fail(t)
<1>1. LocalOK /\ StepOf(t)
  BY AcceptedStep, RefusedStep, TypeParts DEF VmInv
<1>2. pc[t] = "run" /\ UNCHANGED log
  BY DEF RunAccepted, RunRefused
<1>3. t \in Busy /\ Audit!Silent(t)
  BY <1>2, NothingTold
<1>4. pc'[t] \in {"run", "rescue"}
  BY <1>1, <1>2 DEF RunAccepted, RunRefused, Goto, LocalOK
<1>5. Busy' = Busy /\ Reported' = Reported
  <2>1. Busy' = Busy \union {t}
    BY <1>1, <1>4, SeenOfStep DEF StepOf
  <2>2. Reported' = Reported
    BY <1>2 DEF Reported
  <2> QED BY <1>3, <2>1, <2>2
<1>6. CASE RunAccepted(t)
  <2>1. PICK d \in Seq(Commands), p \in Seq(Commands) : d = done[t] /\ p = plan[t]
    BY <1>1 DEF LocalOK
  <2>2. UNCHANGED failed /\ p # <<>> /\ done'[t] = Append(d, Head(p))
    BY <1>1, <1>6, <2>1 DEF RunAccepted, LocalOK
  <2>3. done'[t] # <<>>
    BY <2>1, <2>2, HeadOff, ElemsAppend
  <2>4. Doers' = Doers \union {t}
    BY <1>1, <2>3, SeenOfStep DEF StepOf
  <2>5. Losers' = Losers
    BY <2>2 DEF Losers
  <2> QED BY <1>3, <1>5, <2>4, <2>5 DEF Audit!Succeed
<1>7. CASE RunRefused(t)
  <2>1. UNCHANGED done /\ Head(plan[t]) \in failed'[t]
    BY <1>1, <1>7 DEF RunRefused, LocalOK
  <2>2. Losers' = Losers \union {t}
    BY <1>1, <2>1, SeenOfStep DEF StepOf
  <2>3. Doers' = Doers
    BY <2>1 DEF Doers
  <2> QED BY <1>3, <1>5, <2>2, <2>3 DEF Audit!Fail
<1> QED BY <1>6, <1>7

\* The Event tells what came of the commands, once.
LEMMA AnswerTells ==
  ASSUME VmInv, NEW t \in Threads, EmitSuccess(t) \/ RescueCommandError(t)
  PROVE  [Audit!Next]_(Audit!audit)
<1>1. LocalOK /\ StepOf(t) /\ Known(t)
  BY EmitStep, RescueStep, TypeParts DEF VmInv
<1>2. pc[t] \in {"emit", "rescue"} /\ UNCHANGED <<done, failed>>
  BY DEF EmitSuccess, RescueCommandError
<1>3. t \in Busy /\ Audit!Silent(t) /\ log[t] = {}
  BY <1>2, NothingTold
<1>4. pc'[t] = "answer"
  BY <1>1 DEF EmitSuccess, RescueCommandError, Emit, Answers, Goto, LocalOK
<1>5. Busy' = Busy
  <2>1. Busy' = Busy \union {t}
    BY <1>1, <1>4, SeenOfStep DEF StepOf
  <2> QED BY <1>3, <2>1
<1>6. Doers' = Doers /\ Losers' = Losers
  BY <1>2 DEF Doers, Losers
<1>7. CASE log'[t] = log[t]
  <2>1. Reported' = Reported
    BY <1>1, <1>7, SeenOfStep DEF StepOf
  <2> QED BY <1>5, <1>6, <2>1 DEF Audit!audit
<1>8. ASSUME log'[t] # log[t] PROVE Audit!Next
  <2>1. \/ pc[t] = "emit" /\ log'[t] = {"success"}
        \/ /\ pc[t] = "rescue" /\ log'[t] = {"failed"}
           /\ req[t].op \in Lifecycle \union {"create"}
    BY <1>1, <1>3, <1>8 DEF EmitSuccess, RescueCommandError, Emit, LogsFailure, LocalOK
  <2>2. PICK r \in {"success", "failed"} :
          /\ log'[t] = {r}
          /\ r = "success" => pc[t] = "emit"
          /\ r = "failed" => pc[t] = "rescue" /\ req[t].op \in Lifecycle \union {"create"}
    BY <2>1
  <2>3. Reported' = Reported \union {<<t, r>>}
    BY <1>1, <1>3, <2>2, SeenOfStep DEF StepOf
  <2>4. Audit!IsTrue(t, r) /\ r \in Audit!Results
    <3>1. CASE r = "success"
      <4>1. t \notin Losers
        BY <1>1, <2>2, <3>1 DEF Known, OnPlan, Losers
      <4> QED BY <3>1, <4>1 DEF Audit!IsTrue, Audit!Results
    <3>2. CASE r = "failed"
      <4>1. req[t].op \notin Bulk \union {"resize"}
        BY <2>2, <3>2 DEF Lifecycle, Bulk
      <4>2. t \in Losers /\ t \notin Doers
        BY <1>1, <2>2, <3>2, <4>1 DEF Known, OnPlan, Losers, Doers
      <4> QED BY <3>2, <4>2 DEF Audit!IsTrue, Audit!Results
    <3> QED BY <3>1, <3>2
  <2>5. Audit!Tell(t, r)
    BY <1>3, <1>5, <1>6, <2>3, <2>4 DEF Audit!Tell
  <2> QED BY <2>4, <2>5 DEF Audit!Next
<1> QED BY <1>7, <1>8

\* The answered request is forgotten.
LEMMA RespondForgets ==
  ASSUME VmInv, NEW t \in Threads, Respond(t)
  PROVE  Audit!Forget({t})
<1>1. LocalOK /\ StepOf(t)
  BY RespondStep, TypeParts DEF VmInv
<1>2. pc'[t] = "idle" /\ done'[t] = <<>> /\ failed'[t] = {} /\ log'[t] = {}
  BY <1>1 DEF Respond, Goto, LocalOK
<1> QED BY <1>1, <1>2, SeenOfStep DEF StepOf, Audit!Forget

LEMMA AuditStep ==
  ASSUME VmInv, [Next]_vars
  PROVE  [Audit!Next]_(Audit!audit)
<1>1. ASSUME NEW t \in Threads, NEW r \in Requests, Receive(t, r)
      PROVE  [Audit!Next]_(Audit!audit)
  BY <1>1, ReceiveBegins DEF Audit!Next
<1>2. ASSUME NEW t \in Threads, Serve(t) PROVE [Audit!Next]_(Audit!audit)
  <2>1. CASE RunAccepted(t) \/ RunRefused(t)
    BY <2>1, RunActs DEF Audit!Next
  <2>2. CASE EmitSuccess(t) \/ RescueCommandError(t)
    BY <2>2, AnswerTells
  <2>3. CASE Respond(t)
    BY <2>3, RespondForgets DEF Audit!Next
  <2>4. CASE ListVms(t) \/ Finish(t)
    <3>1. LocalOK /\ StepOf(t)
      BY <2>4, ListStep, FinishStep, TypeParts DEF VmInv
    <3>2. pc[t] # "idle" /\ pc'[t] # "idle" /\ UNCHANGED <<done, failed, log>>
      BY <2>4, <3>1 DEF ListVms, Finish, Goto, LocalOK
    <3>3. Busy' = Busy
      BY <3>1, <3>2, SeenOfStep DEF StepOf, Busy
    <3> QED BY <3>2, <3>3 DEF Doers, Losers, Reported, Audit!audit
  <2> QED BY <1>2, <2>1, <2>2, <2>3, <2>4 DEF Serve
<1>3. ASSUME NEW v \in VMs, PowersOff(v) PROVE [Audit!Next]_(Audit!audit)
  BY <1>3 DEF PowersOff, local, Busy, Doers, Losers, Reported, Audit!audit
<1>4. CASE UNCHANGED vars
  BY <1>4 DEF vars, local, Busy, Doers, Losers, Reported, Audit!audit
<1> QED BY <1>1, <1>2, <1>3, <1>4 DEF Next

\* Requests keep the audit log's promises, however many there are at a time:
\* one true Event at most for each, after its last command.
THEOREM KeepsAuditAlways == Spec => KeepsAudit
BY VmAlways, AuditInit, AuditStep, PTL DEF Spec, KeepsAudit, Audit!Spec
=============================================================================
