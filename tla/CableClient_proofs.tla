------------------------- MODULE CableClient_proofs -------------------------
(***************************************************************************)
(* CableClient proved for any pages, sessions and size of the server's     *)
(* pool: the types, and then what the commands on their way will leave the *)
(* server with (Will), from which page and server agree once nothing is on *)
(* its way, and the server accepts the input it executes of a terminal it  *)
(* has told; last, that none says "connected" over a closed socket.        *)
(***************************************************************************)
EXTENDS CableClient, FiniteSetTheorems, SequenceTheorems, TLAPS

-----------------------------------------------------------------------------
(* Sequences.                                                              *)

\* What is left when one element is taken out.
LEMMA RemoveAtIs ==
  ASSUME NEW S, NEW q \in Seq(S), NEW k \in 1..Len(q)
  PROVE  /\ RemoveAt(q, k) \in Seq(S) /\ Len(RemoveAt(q, k)) = Len(q) - 1
         /\ \A n \in 1..(Len(q) - 1) :
              RemoveAt(q, k)[n] = IF n < k THEN q[n] ELSE q[n + 1]
<1> DEFINE a == SubSeq(q, 1, k - 1)
           b == SubSeq(q, k + 1, Len(q))
<1>1. a \in Seq(S) /\ Len(a) = k - 1 /\ \A n \in 1..(k - 1) : a[n] = q[n]
  BY SubSeqProperties
<1>2. b \in Seq(S) /\ Len(b) = Len(q) - k /\ \A n \in 1..(Len(q) - k) : b[n] = q[k + n]
  BY SubSeqProperties
<1> HIDE DEF a, b
<1>3. /\ a \o b \in Seq(S) /\ Len(a \o b) = Len(a) + Len(b)
      /\ \A n \in 1..(Len(a) + Len(b)) :
           (a \o b)[n] = IF n <= Len(a) THEN a[n] ELSE b[n - Len(a)]
  BY <1>1, <1>2, ConcatProperties
<1>4. Len(q) \in Nat /\ k \in Nat
  OBVIOUS
<1>5. Len(a \o b) = Len(q) - 1
  BY <1>1, <1>2, <1>3, <1>4
<1>6. ASSUME NEW n \in 1..(Len(q) - 1)
      PROVE  (a \o b)[n] = IF n < k THEN q[n] ELSE q[n + 1]
  <2>1. CASE n < k
    BY <1>1, <1>2, <1>3, <1>4, <2>1
  <2>2. CASE n >= k
    <3>1. (a \o b)[n] = b[n - (k - 1)] /\ n - (k - 1) \in 1..(Len(q) - k)
      BY <1>1, <1>2, <1>3, <1>4, <2>2
    <3>2. k + (n - (k - 1)) = n + 1
      BY <1>4
    <3> QED
      BY <1>2, <1>4, <2>2, <3>1, <3>2
  <2>3. n < k \/ (n >= k /\ ~(n < k))
    BY <1>4
  <2> QED
    BY <2>1, <2>2, <2>3
<1> QED
  BY <1>3, <1>5, <1>6 DEF RemoveAt, a, b

\* The members of a finite set, each once, as a sequence.
LEMMA SetToSeqIs ==
  ASSUME NEW S, IsFiniteSet(S)
  PROVE  SetToSeq(S) \in Seq(S) /\ \A x \in S : \E k \in DOMAIN SetToSeq(S) : SetToSeq(S)[k] = x
<1> DEFINE n == Cardinality(S)
<1>1. n \in Nat /\ ExistsBijection(1..n, S)
  BY FS_CardinalityType
<1>2. \E f \in [1..n -> S] : IsInjective(f)
  BY <1>1 DEF ExistsBijection, Bijection, Injection
<1>3. SetToSeq(S) \in [1..n -> S] /\ IsInjective(SetToSeq(S))
  BY <1>2 DEF SetToSeq
<1>4. SetToSeq(S) \in Injection(1..n, S)
  BY <1>3 DEF Injection
<1>5. IsFiniteSet(1..n) /\ Cardinality(1..n) = Cardinality(S)
  BY <1>1, FS_Interval
<1>6. SetToSeq(S) \in Surjection(1..n, S)
  BY <1>4, <1>5, FS_Injection
<1>7. \A x \in S : \E k \in 1..n : SetToSeq(S)[k] = x
  BY <1>6 DEF Surjection
<1> QED
  BY <1>1, <1>3, <1>7

-----------------------------------------------------------------------------
(* Types.                                                                  *)

\* The bounds are positive.
LEMMA Bounds ==
  /\ Pages \in Nat \ {0} /\ PoolSize \in Nat \ {0} /\ MaxSockets \in Nat \ {0}
  /\ MaxTimers \in Nat \ {0}
BY ClientAssumption

\* A terminal's identifier is one of Idents, and its command one of Commands.
LEMMA CommandTypes ==
  ASSUME NEW c \in Terminals, NEW cmd \in {"subscribe", "unsubscribe", "input"}
  PROVE  /\ Ident(c) \in Idents /\ Command(cmd, c) \in Commands
         /\ Command(cmd, c).cmd = cmd /\ Command(cmd, c).ident = Ident(c)
         /\ Command(cmd, c).told = (c \in told)
BY DEF Idents, Command, Commands

\* The commands that subscribe os: of those identifiers, and of each of them.
LEMMA SubscribesIs ==
  ASSUME NEW os \in SUBSET Terminals
  PROVE  /\ Subscribes(os) \in Seq(Commands)
         /\ \A k \in DOMAIN Subscribes(os) :
              /\ Subscribes(os)[k].cmd = "subscribe"
              /\ \E c \in os : Subscribes(os)[k].ident = Ident(c)
         /\ \A c \in os : \E k \in DOMAIN Subscribes(os) : Subscribes(os)[k].ident = Ident(c)
<1>1. IsFiniteSet(os)
  <2>1. Pages \in Int
    BY Bounds
  <2>2. IsFiniteSet(1..Pages)
    BY <2>1, FS_Interval
  <2> QED
    BY <2>2, FS_Subset DEF Terminals
<1>2. /\ SetToSeq(os) \in Seq(os)
      /\ \A x \in os : \E k \in DOMAIN SetToSeq(os) : SetToSeq(os)[k] = x
  BY <1>1, SetToSeqIs
<1> DEFINE q == SetToSeq(os)
<1> HIDE DEF q
<1>3. DOMAIN q = 1..Len(q) /\ Len(q) \in Nat /\ \A k \in DOMAIN q : q[k] \in os
  BY <1>2 DEF q
<1>4. Subscribes(os) = [k \in 1..Len(q) |-> Command("subscribe", q[k])]
  BY <1>3 DEF Subscribes, q
<1>5. \A k \in 1..Len(q) : /\ Command("subscribe", q[k]) \in Commands
                           /\ Command("subscribe", q[k]).cmd = "subscribe"
                           /\ Command("subscribe", q[k]).ident = Ident(q[k])
  BY <1>3, CommandTypes
<1>6. Subscribes(os) \in Seq(Commands) /\ DOMAIN Subscribes(os) = 1..Len(q)
  BY <1>3, <1>4, <1>5
<1> QED
  BY <1>2, <1>3, <1>4, <1>5, <1>6 DEF q

\* What is sent is appended, or dropped.
LEMMA SendTypes ==
  ASSUME TypeOK, NEW r \in Seq(Commands), Send(r)
  PROVE  up' \in Seq(Commands)
BY DEF Send, TypeOK

\* No open socket is lost from sight: opening one starts from nothing.
LEMMA OpenSocketTypes ==
  ASSUME TypeOK, OpenSocket
  PROVE  /\ ws' \in {"connecting", "open", "closing", "closed"} /\ sock' \in 1..MaxSockets
         /\ up' \in Seq(Commands) /\ down' \in Seq(Messages)
         /\ greeted' \in BOOLEAN /\ subs' \subseteq Idents /\ told' \subseteq Terminals
         /\ crossed' \subseteq Idents /\ refused' \subseteq Idents
<1>1. CASE NewSocket
  <2>1. sock' \in 1..MaxSockets
    BY <1>1, Bounds DEF NewSocket, TypeOK
  <2>2. <<>> \in Seq(Commands) /\ <<>> \in Seq(Messages)
    OBVIOUS
  <2> QED
    BY <1>1, <2>1, <2>2 DEF NewSocket
<1>2. CASE UNCHANGED <<sock, ws, up, down, greeted, subs, told, crossed, refused>>
  BY <1>2 DEF TypeOK
<1> QED
  BY <1>1, <1>2 DEF OpenSocket

LEMMA ReopenTypes ==
  ASSUME TypeOK, Reopen
  PROVE  /\ ws' \in {"connecting", "open", "closing", "closed"} /\ sock' \in 1..MaxSockets
         /\ up' \in Seq(Commands) /\ down' \in Seq(Messages)
         /\ greeted' \in BOOLEAN /\ subs' \subseteq Idents /\ told' \subseteq Terminals
         /\ crossed' \subseteq Idents /\ refused' \subseteq Idents
         /\ reopenings' \in 0..MaxTimers
<1>1. CASE IsActive
  BY <1>1, Bounds DEF Reopen, TypeOK
<1>2. CASE ~IsActive
  BY <1>2, OpenSocketTypes DEF Reopen, TypeOK
<1> QED
  BY <1>1, <1>2

LEMMA InitTypes == Init => TypeOK
<1> SUFFICES ASSUME Init PROVE TypeOK
  OBVIOUS
<1>1. sock \in 1..MaxSockets /\ reopenings \in 0..MaxTimers
  BY Bounds DEF Init
<1>2. up \in Seq(Commands) /\ down \in Seq(Messages)
  BY DEF Init
<1>3. status \in [Terminals -> {"new", "gone"} \cup Texts]
  BY DEF Init
<1> QED
  BY <1>1, <1>2, <1>3 DEF Init, TypeOK

\* Every action keeps the types.
LEMMA NextTypes == TypeOK /\ [Next]_vars => TypeOK'
<1> SUFFICES ASSUME TypeOK, [Next]_vars PROVE TypeOK'
  OBVIOUS
<1>1. ASSUME NEW c \in Terminals, Connect(c) PROVE TypeOK'
  <2>1. /\ status' \in [Terminals -> {"new", "gone"} \cup Texts]
        /\ sizeDue' \subseteq Terminals /\ listed' \subseteq Terminals
    BY <1>1 DEF Connect, TypeOK, Texts
  <2>2. CASE IsActive
    <3>1. SubscribeAll({c}) /\ UNCHANGED <<sock, ws, down, greeted, subs, told, crossed, refused>>
      BY <1>1, <2>2 DEF Connect
    <3>2. up' \in Seq(Commands)
      BY <3>1, SubscribesIs, SendTypes DEF SubscribeAll
    <3>3. pending' \subseteq listed' /\ retry' \in BOOLEAN
      BY <1>1, <3>1 DEF Connect, SubscribeAll, TypeOK
    <3> QED
      BY <1>1, <2>1, <3>1, <3>2, <3>3 DEF Connect, TypeOK
  <2>3. CASE ~IsActive
    <3>1. OpenSocket /\ UNCHANGED <<pending, retry>>
      BY <1>1, <2>3 DEF Connect
    <3>2. pending' \subseteq listed'
      BY <1>1, <3>1 DEF Connect, TypeOK
    <3> QED
      BY <1>1, <2>1, <3>1, <3>2, OpenSocketTypes DEF Connect, TypeOK
  <2> QED
    BY <2>2, <2>3
<1>2. ASSUME NEW c \in Terminals, Disconnect(c) PROVE TypeOK'
  <2>1. up' \in Seq(Commands)
    <3>1. <<Command("unsubscribe", c)>> \in Seq(Commands)
      BY CommandTypes
    <3> QED
      BY <1>2, <3>1, SendTypes DEF Disconnect, Unsubscribe, SendUnsubscribe, TypeOK
  <2>2. status' \in [Terminals -> {"new", "gone"} \cup Texts] /\ told' \subseteq Terminals
    BY <1>2 DEF Disconnect, TypeOK
  <2>3. listed' \subseteq Terminals /\ pending' \subseteq listed'
    BY <1>2 DEF Disconnect, Unsubscribe, Forget, TypeOK
  <2> QED
    BY <1>2, <2>1, <2>2, <2>3 DEF Disconnect, socketVars, serverVars, TypeOK
<1>3. ASSUME NEW c \in Terminals, Input(c) PROVE TypeOK'
  <2>1. <<Command("input", c)>> \in Seq(Commands)
    BY CommandTypes
  <2>2. up' \in Seq(Commands)
    BY <1>3, <2>1, SendTypes DEF Input
  <2> QED
    BY <1>3, <2>2 DEF Input, socketVars, listVars, pageVars, serverVars, TypeOK
<1>4. ASSUME NEW c \in Terminals, SizeTimer(c) PROVE TypeOK'
  <2>1. <<Command("input", c)>> \in Seq(Commands)
    BY CommandTypes
  <2>2. up' \in Seq(Commands)
    BY <1>4, <2>1, SendTypes DEF SizeTimer
  <2> QED
    BY <1>4, <2>2 DEF SizeTimer, socketVars, listVars, serverVars, TypeOK
<1>5. CASE Opened
  BY <1>5 DEF Opened, listVars, pageVars, serverVars, TypeOK
<1>6. CASE Closed
  <2>1. status' \in [Terminals -> {"new", "gone"} \cup Texts] /\ recent' \in BOOLEAN
    BY <1>6 DEF Closed, Show, TypeOK, Texts
  <2> QED
    BY <1>6, <2>1 DEF Closed, listVars, serverVars, TypeOK
<1>7. CASE ServerRestarts
  BY <1>7 DEF ServerRestarts, listVars, pageVars, serverVars, TypeOK
<1>8. CASE Silence
  BY <1>8 DEF Silence, listVars, pageVars, serverVars, TypeOK
<1>9. CASE RecentEnds
  BY <1>9 DEF RecentEnds, listVars, pageVars, serverVars, TypeOK
<1>10. CASE Poll \/ Refocus
  BY <1>10, ReopenTypes DEF Poll, Refocus, listVars, pageVars, TypeOK
<1>11. CASE ReopenTimer
  <2>1. reopenings' \in 0..MaxTimers
    BY <1>11, Bounds DEF ReopenTimer, TypeOK
  <2> QED
    BY <1>11, <2>1, OpenSocketTypes DEF ReopenTimer, listVars, pageVars, TypeOK
<1>12. CASE RetryTimer
  <2>1. up' \in Seq(Commands)
    BY <1>12, SubscribesIs, SendTypes DEF RetryTimer, TypeOK
  <2>2. retry' \in BOOLEAN
    BY <1>12 DEF RetryTimer
  <2> QED
    BY <1>12, <2>1, <2>2 DEF RetryTimer, socketVars, pageVars, serverVars, TypeOK
<1>13. ASSUME NEW type, Receiving(type) PROVE down' \in Seq(Messages) /\ quiet' \in BOOLEAN
  <2>1. down \in Seq(Messages) /\ down # <<>> /\ down' = Tail(down) /\ quiet' = FALSE
    BY <1>13 DEF Receiving, TypeOK
  <2> QED
    BY <2>1, HeadTailProperties
<1>14. CASE ReceiveWelcome
  <2>1. up' \in Seq(Commands)
    BY <1>14, SubscribesIs, SendTypes DEF ReceiveWelcome, Reload, SubscribeAll, TypeOK
  <2>2. pending' \subseteq listed' /\ retry' \in BOOLEAN /\ recent' \in BOOLEAN
    BY <1>14 DEF ReceiveWelcome, Reload, SubscribeAll, TypeOK
  <2> QED
    BY <1>13, <1>14, <2>1, <2>2 DEF ReceiveWelcome, Receiving, serverVars, TypeOK
<1>15. CASE ReceiveConfirm
  <2>1. /\ status' \in [Terminals -> {"new", "gone"} \cup Texts]
        /\ told' \subseteq Terminals /\ pending' \subseteq listed'
    BY <1>15 DEF ReceiveConfirm, Show, FindAll, Forget, TypeOK, Texts
  <2> QED
    BY <1>13, <1>15, <2>1 DEF ReceiveConfirm, Receiving, serverVars, TypeOK
<1>16. CASE ReceiveReject
  <2>1. /\ status' \in [Terminals -> {"new", "gone"} \cup Texts]
        /\ told' \subseteq Terminals /\ pending' \subseteq listed' /\ listed' \subseteq Terminals
    BY <1>16 DEF ReceiveReject, Show, FindAll, Forget, TypeOK, Texts
  <2> QED
    BY <1>13, <1>16, <2>1 DEF ReceiveReject, Receiving, serverVars, TypeOK
<1>17. CASE ReceivePing
  BY <1>17 DEF ReceivePing, listVars, pageVars, serverVars, TypeOK
<1>18. CASE Welcome
  <2>1. down' \in Seq(Messages)
    BY <1>18 DEF Welcome, TypeOK, Messages
  <2> QED
    BY <1>18, <2>1 DEF Welcome, socketVars, listVars, pageVars, TypeOK
<1>19. ASSUME NEW k \in 1..PoolSize, Execute(k) PROVE TypeOK'
  <2>1. k \in 1..Len(up) /\ up[k] \in Commands /\ up' = RemoveAt(up, k)
    BY <1>19, Bounds DEF Execute, TypeOK
  <2>2. up' \in Seq(Commands) /\ up[k].ident \in Idents
    BY <2>1, RemoveAtIs DEF TypeOK, Commands
  <2>3. crossed' \subseteq Idents
    BY <1>19, <2>2 DEF Execute, TypeOK
  <2>4. subs' \subseteq Idents /\ down' \in Seq(Messages) /\ refused' \subseteq Idents
    <3>1. CASE Subscribed(up[k].ident) /\ UNCHANGED refused
      <4> DEFINE m == [type |-> IF up[k].ident \in alive THEN "confirm" ELSE "reject",
                       ident |-> up[k].ident]
      <4>1. m \in Messages
        BY <2>2 DEF Messages
      <4>2. subs' \subseteq Idents /\ (down' = down \/ down' = Append(down, m))
        BY <2>2, <3>1 DEF Subscribed, TypeOK
      <4> HIDE DEF m
      <4> QED
        BY <3>1, <4>1, <4>2 DEF TypeOK
    <3>2. CASE subs' = subs \ {up[k].ident} /\ UNCHANGED <<down, refused>>
      BY <3>2 DEF TypeOK
    <3>3. CASE Received(up[k]) /\ UNCHANGED <<subs, down>>
      BY <2>2, <3>3 DEF Received, TypeOK
    <3> QED
      BY <1>19, <3>1, <3>2, <3>3 DEF Execute
  <2> QED
    BY <1>19, <2>2, <2>3, <2>4 DEF Execute, socketVars, listVars, pageVars, TypeOK
<1>20. ASSUME NEW i \in Idents, SessionEnds(i) PROVE TypeOK'
  BY <1>20 DEF SessionEnds, socketVars, listVars, pageVars, TypeOK
<1>21. CASE UNCHANGED vars
  BY <1>21 DEF vars, socketVars, listVars, pageVars, serverVars, TypeOK
<1> QED
  BY <1>1, <1>2, <1>3, <1>4, <1>5, <1>6, <1>7, <1>8, <1>9, <1>10, <1>11, <1>12,
     <1>14, <1>15, <1>16, <1>17, <1>18, <1>19, <1>20, <1>21 DEF Next

\* The consumer's state is typed, whatever pages, sessions and pool there are.
THEOREM TypeCorrect == Spec => []TypeOK
BY InitTypes, NextTypes, PTL DEF Spec

-----------------------------------------------------------------------------
(* What the commands on their way will leave the server with.              *)

Is(n, i, cmd) == n \in DOMAIN up /\ up[n].ident = i /\ up[n].cmd = cmd

\* When the commands before the n-th are executed in turn, i is subscribed.
Will(i, n) ==
  \/ \E k \in 1..(n - 1) : /\ Is(k, i, "subscribe")
                           /\ \A j \in (k + 1)..(n - 1) : ~Is(j, i, "unsubscribe")
  \/ i \in subs /\ \A j \in 1..(n - 1) : ~Is(j, i, "unsubscribe")

Rejects(i) == \E n \in DOMAIN down : down[n].type = "reject" /\ down[n].ident = i
Greets == ~greeted \/ \E n \in DOMAIN down : down[n].type = "welcome"

\* Nothing comes before the welcome, and the rejected stay dead.
Greeting ==
  /\ ws = "connecting" => up = <<>> /\ ~greeted
  /\ ~greeted => down = <<>> /\ subs = {} /\ told = {}
  /\ \A n \in DOMAIN down : down[n].type = "welcome" => n = 1 /\ told = {}
  /\ \A i \in Idents : Rejects(i) => i \notin alive /\ i \notin subs
  /\ ws = "open" => told \subseteq listed

\* An identifier that is listed will be subscribed, or is yet to be rejected or
\* reloaded; one that is not listed will not be subscribed.
Knows(i) ==
  IF FindAll(i) # {}
  THEN \/ Will(i, Len(up) + 1)
       \/ (\A n \in DOMAIN up : ~Is(n, i, "unsubscribe")) /\ (Rejects(i) \/ Greets)
  ELSE \/ \E k \in DOMAIN up : /\ Is(k, i, "unsubscribe")
                               /\ \A j \in (k + 1)..Len(up) : ~Is(j, i, "subscribe")
       \/ i \notin subs /\ (i \in alive => \A n \in DOMAIN up : ~Is(n, i, "subscribe"))

\* What a connected terminal typed will find its subscription.
Heard(i) ==
  i \in alive =>
    \A n \in DOMAIN up : Is(n, i, "input") /\ up[n].told => Will(i, n)

Agreeing == ws = "open" => \A i \in Idents \ crossed : Knows(i) /\ Heard(i)

Inv == TypeOK /\ Greeting /\ Agreeing /\ InputAccepted

\* What is sent comes after what is on its way.
LEMMA Sent ==
  ASSUME TypeOK, NEW r \in Seq(Commands), up' = up \o r
  PROVE  /\ Len(up) \in Nat /\ Len(up') = Len(up) + Len(r)
         /\ \A n \in 1..Len(up) : up'[n] = up[n]
         /\ \A n \in (Len(up) + 1)..Len(up') : n - Len(up) \in 1..Len(r) /\ up'[n] = r[n - Len(up)]
         /\ \A m \in 1..Len(r) : up'[Len(up) + m] = r[m]
<1>1. up \in Seq(Commands) /\ Len(up) \in Nat /\ Len(r) \in Nat
  BY DEF TypeOK
<1>2. /\ Len(up') = Len(up) + Len(r)
      /\ \A n \in 1..(Len(up) + Len(r)) :
           up'[n] = IF n <= Len(up) THEN up[n] ELSE r[n - Len(up)]
  BY <1>1, ConcatProperties
<1> QED
  BY <1>1, <1>2

\* What will be subscribed before the n-th command still will.
LEMMA WillKept ==
  ASSUME TypeOK, NEW r \in Seq(Commands), up' = up \o r, subs' = subs,
         NEW i, NEW n \in 1..(Len(up) + 1), Will(i, n)
  PROVE  Will(i, n)'
<1>1. \A cmd : \A j \in 1..(n - 1) : Is(j, i, cmd)' <=> Is(j, i, cmd)
  BY Sent DEF Is, TypeOK
<1>2. Len(up) \in Nat
  BY Sent
<1>3. CASE i \in subs /\ \A j \in 1..(n - 1) : ~Is(j, i, "unsubscribe")
  BY <1>1, <1>3 DEF Will
<1>4. ASSUME NEW k \in 1..(n - 1), Is(k, i, "subscribe"),
             \A j \in (k + 1)..(n - 1) : ~Is(j, i, "unsubscribe")
      PROVE  Will(i, n)'
  BY <1>1, <1>2, <1>4 DEF Will
<1> QED
  BY <1>3, <1>4 DEF Will

\* Sending anything but an unsubscribe of i leaves it to be subscribed.
LEMMA WillSent ==
  ASSUME TypeOK, NEW r \in Seq(Commands), up' = up \o r, subs' = subs,
         NEW i, Will(i, Len(up) + 1),
         \A m \in 1..Len(r) : ~(r[m].ident = i /\ r[m].cmd = "unsubscribe")
  PROVE  Will(i, Len(up) + 1)' 
<1>1. Len(up) \in Nat /\ Len(r) \in Nat /\ Len(up') = Len(up) + Len(r)
  BY Sent
<1>2. \A j \in (Len(up) + 1)..Len(up') : ~Is(j, i, "unsubscribe")'
  BY Sent DEF Is
<1>3. Will(i, Len(up) + 1) => 
        \/ \E k \in 1..Len(up) : /\ Is(k, i, "subscribe")'
                                 /\ \A j \in (k + 1)..Len(up) : ~Is(j, i, "unsubscribe")'
        \/ i \in subs' /\ \A j \in 1..Len(up) : ~Is(j, i, "unsubscribe")'
  <2>1. \A cmd : \A j \in 1..Len(up) : Is(j, i, cmd)' <=> Is(j, i, cmd)
    BY Sent DEF Is, TypeOK
  <2> QED
    BY <1>1, <2>1 DEF Will
<1>4. CASE i \in subs' /\ \A j \in 1..Len(up) : ~Is(j, i, "unsubscribe")'
  BY <1>1, <1>2, <1>4 DEF Will
<1>5. ASSUME NEW k \in 1..Len(up), Is(k, i, "subscribe")',
             \A j \in (k + 1)..Len(up) : ~Is(j, i, "unsubscribe")'
      PROVE  Will(i, Len(up) + 1)'
  BY <1>1, <1>2, <1>5 DEF Will
<1> QED
  BY <1>3, <1>4, <1>5

\* Sending subscribes of i, and no unsubscribe, will have it subscribed.
LEMMA WillSubscribe ==
  ASSUME TypeOK, NEW r \in Seq(Commands), up' = up \o r, NEW i,
         \E m \in 1..Len(r) : r[m].ident = i,
         \A m \in 1..Len(r) : r[m].cmd = "subscribe"
  PROVE  Will(i, Len(up) + 1)'
<1>1. PICK m \in 1..Len(r) : r[m].ident = i
  OBVIOUS
<1>2. Len(up) \in Nat /\ Len(r) \in Nat /\ Len(up') = Len(up) + Len(r)
  BY Sent
<1>3. PICK k \in 1..Len(up') : k > Len(up) /\ Is(k, i, "subscribe")'
  <2>1. Len(up) + m \in 1..Len(up') /\ up'[Len(up) + m] = r[m] /\ Len(up) + m > Len(up)
    BY <1>2, Sent
  <2>2. DOMAIN up' = 1..Len(up')
    BY DEF TypeOK
  <2> QED
    BY <1>1, <2>1, <2>2 DEF Is
<1>4. \A j \in (Len(up) + 1)..Len(up') : ~Is(j, i, "unsubscribe")'
  BY Sent DEF Is
<1> QED
  BY <1>1, <1>2, <1>3, <1>4 DEF Will

\* What is known of i is kept when nothing but input of it is sent.
LEMMA KnowsSent ==
  ASSUME TypeOK, NEW r \in Seq(Commands), up' = up \o r,
         UNCHANGED <<subs, alive>>,
         NEW i, (FindAll(i)' = {}) <=> (FindAll(i) = {}),
         FindAll(i) # {} => UNCHANGED <<down, greeted>>,
         \A m \in 1..Len(r) : r[m].ident = i => r[m].cmd = "input",
         Knows(i)
  PROVE  Knows(i)'
<1>1. Len(up) \in Nat /\ Len(r) \in Nat /\ Len(up') = Len(up) + Len(r)
  BY Sent
<1>2. \A cmd : \A j \in 1..Len(up) : Is(j, i, cmd)' <=> Is(j, i, cmd)
  BY Sent DEF Is, TypeOK
<1>3. \A j \in (Len(up) + 1)..Len(up') :
        ~Is(j, i, "unsubscribe")' /\ ~Is(j, i, "subscribe")'
  BY Sent DEF Is
<1>4. CASE FindAll(i) # {} /\ Will(i, Len(up) + 1)
  <2>1. Will(i, Len(up) + 1)'
    BY <1>4, WillSent
  <2> QED
    BY <1>4, <2>1 DEF Knows
<1>5. CASE /\ FindAll(i) # {} /\ (Rejects(i) \/ Greets)
           /\ \A n \in DOMAIN up : ~Is(n, i, "unsubscribe")
  <2>1. \A n \in DOMAIN up' : ~Is(n, i, "unsubscribe")'
    BY <1>1, <1>2, <1>3, <1>5 DEF Is
  <2>2. Rejects(i)' \/ Greets'
    BY <1>5 DEF Rejects, Greets
  <2> QED
    BY <1>5, <2>1, <2>2 DEF Knows
<1>6. ASSUME FindAll(i) = {}, NEW k \in DOMAIN up, Is(k, i, "unsubscribe"),
             \A j \in (k + 1)..Len(up) : ~Is(j, i, "subscribe")
      PROVE  Knows(i)'
  <2>1. k \in 1..Len(up) /\ k \in DOMAIN up'
    BY <1>1, <1>6 DEF TypeOK, Is
  <2>2. Is(k, i, "unsubscribe")' /\ \A j \in (k + 1)..Len(up') : ~Is(j, i, "subscribe")'
    BY <1>1, <1>2, <1>3, <1>6, <2>1
  <2> QED
    BY <1>6, <2>1, <2>2 DEF Knows
<1>7. CASE /\ FindAll(i) = {} /\ i \notin subs
           /\ i \in alive => \A n \in DOMAIN up : ~Is(n, i, "subscribe")
  <2>1. i \in alive => \A n \in DOMAIN up' : ~Is(n, i, "subscribe")'
    BY <1>1, <1>2, <1>3, <1>7 DEF Is
  <2> QED
    BY <1>7, <2>1 DEF Knows
<1> QED
  BY <1>4, <1>5, <1>6, <1>7 DEF Knows

\* What was typed is heard of as before, and what is typed when it will be.
LEMMA HeardSent ==
  ASSUME TypeOK, NEW r \in Seq(Commands), up' = up \o r, UNCHANGED <<subs, alive>>,
         NEW i, Heard(i),
         i \in alive => \A m \in 1..Len(r) :
           r[m].ident = i /\ r[m].cmd = "input" /\ r[m].told => m = 1 /\ Will(i, Len(up) + 1)
  PROVE  Heard(i)'
<1> SUFFICES ASSUME i \in alive, NEW n \in DOMAIN up', Is(n, i, "input")', up'[n].told
             PROVE  Will(i, n)'
  BY DEF Heard
<1>1. Len(up) \in Nat /\ Len(r) \in Nat /\ Len(up') = Len(up) + Len(r)
  BY Sent
<1>2. CASE n \in 1..Len(up)
  <2>1. Is(n, i, "input") /\ up[n].told
    BY <1>2, Sent DEF Is, TypeOK
  <2> QED
    BY <1>1, <1>2, <2>1, WillKept DEF Heard, Is
<1>3. CASE n \in (Len(up) + 1)..Len(up')
  <2>1. n - Len(up) \in 1..Len(r) /\ r[n - Len(up)] = up'[n]
    BY <1>3, Sent
  <2>2. n - Len(up) = 1 /\ Will(i, Len(up) + 1)
    BY <2>1 DEF Is
  <2>3. n = Len(up) + 1
    BY <1>1, <1>3, <2>2
  <2> QED
    BY <1>1, <2>2, <2>3, WillKept
<1> QED
  BY <1>1, <1>2, <1>3 DEF Is

\* Nor does what is known of i change when nothing is sent.
LEMMA KnowsKept ==
  ASSUME UNCHANGED <<up, subs>>, alive' \subseteq alive,
         NEW i, (FindAll(i)' = {}) <=> (FindAll(i) = {}),
         FindAll(i) # {} => (Rejects(i) => Rejects(i)') /\ (Greets => Greets'),
         Knows(i)
  PROVE  Knows(i)'
<1>1. \A cmd : \A n : Is(n, i, cmd)' <=> Is(n, i, cmd)
  BY DEF Is
<1>2. Will(i, Len(up) + 1)' <=> Will(i, Len(up) + 1)
  BY DEF Will, Is
<1>3. CASE FindAll(i) # {}
  BY <1>1, <1>2, <1>3 DEF Knows
<1>4. CASE FindAll(i) = {}
  BY <1>1, <1>4 DEF Knows
<1> QED
  BY <1>3, <1>4

LEMMA HeardKept ==
  ASSUME UNCHANGED <<up, subs>>, alive' \subseteq alive, NEW i, Heard(i)
  PROVE  Heard(i)'
BY DEF Heard, Will, Is

\* A terminal that is connected will find its subscription.
LEMMA ToldWill ==
  ASSUME TypeOK, Greeting, ws = "open", NEW c \in told, Ident(c) \in alive,
         Knows(Ident(c))
  PROVE  Will(Ident(c), Len(up) + 1)
<1>1. FindAll(Ident(c)) # {}
  BY DEF FindAll, Greeting
<1>2. ~Greets
  BY DEF Greets, Greeting
<1>3. ~Rejects(Ident(c))
  BY DEF Greeting, TypeOK
<1> QED
  BY <1>1, <1>2, <1>3 DEF Knows

-----------------------------------------------------------------------------
(* What the server executes.                                               *)

\* The commands that are left move up by one.
LEMMA Executed ==
  ASSUME TypeOK, NEW k \in 1..PoolSize, Execute(k)
  PROVE  /\ k \in Nat /\ k \in 1..Len(up) /\ Len(up) \in Nat /\ Len(up') = Len(up) - 1
         /\ DOMAIN up = 1..Len(up) /\ DOMAIN up' = 1..(Len(up) - 1)
         /\ up[k] \in Commands
         /\ \A n \in 1..(k - 1) : up'[n] = up[n]
         /\ \A n \in k..(Len(up) - 1) : up'[n] = up[n + 1]
<1>1. k \in 1..Len(up) /\ up' = RemoveAt(up, k) /\ up \in Seq(Commands) /\ Len(up) \in Nat
  BY Bounds DEF Execute, TypeOK
<1>2. /\ up' \in Seq(Commands) /\ Len(up') = Len(up) - 1
      /\ \A n \in 1..(Len(up) - 1) : up'[n] = IF n < k THEN up[n] ELSE up[n + 1]
  BY <1>1, RemoveAtIs
<1>3. up[k] \in Commands /\ DOMAIN up = 1..Len(up) /\ DOMAIN up' = 1..(Len(up) - 1)
  BY <1>1, <1>2
<1>4. \A n \in 1..(k - 1) : n \in 1..(Len(up) - 1) /\ n < k
  BY <1>1
<1>5. \A n \in k..(Len(up) - 1) : n \in 1..(Len(up) - 1) /\ ~(n < k)
  BY <1>1
<1> QED
  BY <1>1, <1>2, <1>3, <1>4, <1>5

LEMMA ExecutedIs ==
  ASSUME TypeOK, NEW k \in 1..PoolSize, Execute(k), NEW i, NEW cmd
  PROVE  /\ \A n \in 1..(k - 1) : Is(n, i, cmd)' <=> Is(n, i, cmd)
         /\ \A n \in k..(Len(up) - 1) : Is(n, i, cmd)' <=> Is(n + 1, i, cmd)
<1>1. \A n \in 1..(k - 1) : n \in DOMAIN up /\ n \in DOMAIN up' /\ up'[n] = up[n]
  BY Executed
<1>2. \A n \in k..(Len(up) - 1) :
        n + 1 \in DOMAIN up /\ n \in DOMAIN up' /\ up'[n] = up[n + 1]
  BY Executed
<1> QED
  BY <1>1, <1>2 DEF Is

\* No command of i that crosses another is executed before it.
LEMMA Uncrossed ==
  ASSUME TypeOK, NEW k \in 1..PoolSize, Execute(k), NEW i, i \notin crossed'
  PROVE  /\ i \notin crossed
         /\ up[k].ident = i /\ up[k].cmd # "input" =>
              \A j \in 1..(k - 1) : \A cmd : ~Is(j, i, cmd)
         /\ up[k].ident = i =>
              \A j \in 1..(k - 1) : ~Is(j, i, "subscribe") /\ ~Is(j, i, "unsubscribe")
<1>1. i \notin crossed /\ (up[k].ident = i => ~Crosses(k))
  BY DEF Execute
<1>2. up[k].ident = i =>
        \A j \in 1..(k - 1) : up[j].ident = i => {up[j].cmd, up[k].cmd} = {"input"}
  BY <1>1 DEF Crosses
<1> QED
  BY <1>1, <1>2 DEF Is

\* What executing a command does to the subscription of i.
LEMMA SubsExecuted ==
  ASSUME TypeOK, NEW k \in 1..PoolSize, Execute(k), NEW i
  PROVE  /\ up[k].cmd \in {"subscribe", "unsubscribe", "input"}
         /\ ~Is(k, i, "subscribe") /\ ~Is(k, i, "unsubscribe") => (i \in subs' <=> i \in subs)
         /\ Is(k, i, "subscribe") =>
              IF i \in subs \/ i \in alive THEN i \in subs' ELSE i \notin subs' /\ Rejects(i)'
         /\ Is(k, i, "unsubscribe") => i \notin subs'
<1>1. k \in DOMAIN up /\ up[k].cmd \in {"subscribe", "unsubscribe", "input"}
  BY Executed DEF Commands
<1>2. CASE up[k].cmd = "subscribe"
  <2>1. Subscribed(up[k].ident)
    BY <1>2 DEF Execute
  <2>2. CASE up[k].ident # i
    BY <1>1, <1>2, <2>1, <2>2 DEF Is, Subscribed
  <2>3. CASE up[k].ident = i /\ (i \in subs \/ i \in alive)
    BY <1>1, <1>2, <2>1, <2>3 DEF Is, Subscribed
  <2>4. CASE up[k].ident = i /\ i \notin subs /\ i \notin alive
    <3>1. subs' = subs /\ down' = Append(down, [type |-> "reject", ident |-> i])
      BY <2>1, <2>4 DEF Subscribed
    <3>2. /\ Len(down) + 1 \in DOMAIN down'
          /\ down'[Len(down) + 1] = [type |-> "reject", ident |-> i]
      BY <3>1 DEF TypeOK
    <3>3. Rejects(i)'
      BY <3>2 DEF Rejects
    <3> QED
      BY <1>1, <1>2, <2>4, <3>1, <3>3 DEF Is
  <2> QED
    BY <2>2, <2>3, <2>4
<1>3. CASE up[k].cmd = "unsubscribe"
  BY <1>1, <1>3 DEF Execute, Is
<1>4. CASE up[k].cmd = "input"
  BY <1>1, <1>4 DEF Execute, Is
<1> QED
  BY <1>1, <1>2, <1>3, <1>4

\* What will be subscribed before a later command still will, or is rejected.
LEMMA WillLater ==
  ASSUME TypeOK, NEW k \in 1..PoolSize, Execute(k), NEW i, i \notin crossed',
         NEW n \in (k + 1)..(Len(up) + 1), Will(i, n)
  PROVE  \/ Will(i, n - 1)'
         \/ i \notin alive /\ Rejects(i)' /\ \A j \in 1..(n - 2) : ~Is(j, i, "unsubscribe")'
<1>1. k \in Nat /\ n \in Nat /\ Len(up) \in Nat /\ k \in 1..Len(up)
  BY Executed
<1>2. ASSUME \A j \in 1..(n - 1) : j # k => ~Is(j, i, "unsubscribe")
      PROVE  \A j \in 1..(n - 2) : ~Is(j, i, "unsubscribe")'
  <2> SUFFICES ASSUME NEW j \in 1..(n - 2) PROVE ~Is(j, i, "unsubscribe")'
    OBVIOUS
  <2>1. CASE j < k
    BY <1>1, <1>2, <2>1, ExecutedIs
  <2>2. CASE j >= k
    <3>1. j \in k..(Len(up) - 1) /\ j + 1 \in 1..(n - 1) /\ j + 1 # k
      BY <1>1, <2>2
    <3> QED
      BY <1>2, <3>1, ExecutedIs
  <2> QED
    BY <1>1, <2>1, <2>2
<1>3. ASSUME \A j \in 1..(n - 1) : j # k => ~Is(j, i, "unsubscribe"),
             Is(k, i, "subscribe") \/ (i \in subs /\ ~Is(k, i, "unsubscribe"))
      PROVE  \/ Will(i, n - 1)'
             \/ i \notin alive /\ Rejects(i)' /\ \A j \in 1..(n - 2) : ~Is(j, i, "unsubscribe")'
  <2>1. i \in subs' \/ (i \notin alive /\ Rejects(i)')
    BY <1>3, SubsExecuted
  <2>2. i \in subs' => Will(i, n - 1)'
    BY <1>1, <1>2, <1>3 DEF Will
  <2> QED
    BY <1>2, <1>3, <2>1, <2>2
<1>4. CASE i \in subs /\ \A j \in 1..(n - 1) : ~Is(j, i, "unsubscribe")
  BY <1>1, <1>3, <1>4
<1>5. ASSUME NEW m \in 1..(n - 1), Is(m, i, "subscribe"),
             \A j \in (m + 1)..(n - 1) : ~Is(j, i, "unsubscribe")
      PROVE  \/ Will(i, n - 1)'
             \/ i \notin alive /\ Rejects(i)' /\ \A j \in 1..(n - 2) : ~Is(j, i, "unsubscribe")'
  <2>1. CASE m = k
    <3>1. up[k].ident = i
      BY <1>5, <2>1 DEF Is
    <3>2. \A j \in 1..(k - 1) : ~Is(j, i, "unsubscribe")
      BY <3>1, Uncrossed
    <3>3. \A j \in 1..(n - 1) : j # k => ~Is(j, i, "unsubscribe")
      BY <1>1, <1>5, <2>1, <3>2
    <3> QED
      BY <1>3, <1>5, <2>1, <3>3
  <2>2. CASE m > k
    <3>1. m - 1 \in k..(Len(up) - 1) /\ m - 1 + 1 = m /\ m - 1 \in 1..(n - 2)
      BY <1>1, <2>2
    <3>2. Is(m - 1, i, "subscribe")'
      BY <1>5, <3>1, ExecutedIs
    <3>3. \A j \in m..(n - 2) : j \in k..(Len(up) - 1) /\ j + 1 \in (m + 1)..(n - 1)
      BY <1>1, <2>2
    <3>4. \A j \in m..(n - 2) : ~Is(j, i, "unsubscribe")'
      BY <1>5, <3>3, ExecutedIs
    <3> QED
      BY <1>1, <3>1, <3>2, <3>4 DEF Will
  <2>3. CASE m < k
    <3>1. m \in 1..(k - 1)
      BY <1>1, <2>3
    <3>2. Is(m, i, "subscribe")'
      BY <1>5, <3>1, ExecutedIs
    <3>3. \A j \in (m + 1)..(n - 2) : ~Is(j, i, "unsubscribe")'
      <4> SUFFICES ASSUME NEW j \in (m + 1)..(n - 2) PROVE ~Is(j, i, "unsubscribe")'
        OBVIOUS
      <4>1. CASE j < k
        BY <1>1, <1>5, <4>1, ExecutedIs
      <4>2. CASE j >= k
        <5>1. j \in k..(Len(up) - 1) /\ j + 1 \in (m + 1)..(n - 1)
          BY <1>1, <4>2
        <5> QED
          BY <1>5, <5>1, ExecutedIs
      <4> QED
        BY <1>1, <4>1, <4>2
    <3>4. m \in 1..(n - 2)
      BY <1>1, <2>3
    <3> QED
      BY <1>1, <3>2, <3>3, <3>4 DEF Will
  <2> QED
    BY <1>1, <2>1, <2>2, <2>3
<1> QED
  BY <1>4, <1>5 DEF Will

\* What will be subscribed before an earlier one is untouched by a command that
\* neither subscribes nor unsubscribes it.
LEMMA WillEarlier ==
  ASSUME TypeOK, NEW k \in 1..PoolSize, Execute(k), NEW i,
         ~Is(k, i, "subscribe"), ~Is(k, i, "unsubscribe"),
         NEW n \in 1..k, Will(i, n)
  PROVE  Will(i, n)'
<1>1. k \in Nat /\ \A j \in 1..(n - 1) : j \in 1..(k - 1)
  BY Executed
<1>2. \A cmd : \A j \in 1..(n - 1) : Is(j, i, cmd)' <=> Is(j, i, cmd)
  BY <1>1, ExecutedIs
<1>3. i \in subs' <=> i \in subs
  BY SubsExecuted
<1>4. CASE i \in subs /\ \A j \in 1..(n - 1) : ~Is(j, i, "unsubscribe")
  BY <1>2, <1>3, <1>4 DEF Will
<1>5. ASSUME NEW m \in 1..(n - 1), Is(m, i, "subscribe"),
             \A j \in (m + 1)..(n - 1) : ~Is(j, i, "unsubscribe")
      PROVE  Will(i, n)'
  BY <1>1, <1>2, <1>5 DEF Will
<1> QED
  BY <1>4, <1>5 DEF Will

LEMMA HeardExecuted ==
  ASSUME TypeOK, NEW k \in 1..PoolSize, Execute(k), NEW i, i \notin crossed', Heard(i)
  PROVE  Heard(i)'
<1> SUFFICES ASSUME i \in alive, NEW n \in DOMAIN up', Is(n, i, "input")', up'[n].told
             PROVE  Will(i, n)'
  BY DEF Heard, Execute, serverVars
<1>1. k \in 1..Len(up) /\ Len(up) \in Nat /\ n \in 1..(Len(up) - 1) /\ DOMAIN up = 1..Len(up)
  BY Executed
<1>2. CASE n < k
  <2>1. n \in 1..(k - 1) /\ n \in DOMAIN up /\ Is(n, i, "input") /\ up[n].told
    <3>1. n \in 1..(k - 1) /\ n \in DOMAIN up
      BY <1>1, <1>2
    <3>2. Is(n, i, "input")
      BY <3>1, ExecutedIs
    <3>3. up'[n] = up[n]
      BY <3>1, Executed
    <3> QED
      BY <3>1, <3>2, <3>3
  <2>2. ~Is(k, i, "subscribe") /\ ~Is(k, i, "unsubscribe")
    BY <2>1, Uncrossed DEF Is
  <2>3. Will(i, n) /\ n \in 1..k
    BY <1>1, <2>1 DEF Heard
  <2> QED
    BY <2>2, <2>3, WillEarlier
<1>3. CASE n >= k
  <2>1. n \in k..(Len(up) - 1) /\ n + 1 \in DOMAIN up /\ n + 1 \in (k + 1)..(Len(up) + 1)
    BY <1>1, <1>3
  <2>2. Is(n + 1, i, "input") /\ up[n + 1].told
    BY <2>1, Executed, ExecutedIs
  <2>3. Will(i, n + 1)
    BY <2>1, <2>2 DEF Heard
  <2>4. PICK m : m = n + 1
    OBVIOUS
  <2>5. Will(i, m - 1)'
    BY <2>1, <2>3, <2>4, WillLater
  <2> QED
    BY <1>1, <2>4, <2>5
<1> QED
  BY <1>1, <1>2, <1>3

LEMMA KnowsExecuted ==
  ASSUME TypeOK, NEW k \in 1..PoolSize, Execute(k), NEW i, i \notin crossed', Knows(i)
  PROVE  Knows(i)'
<1>1. /\ k \in 1..Len(up) /\ Len(up) \in Nat /\ Len(up') = Len(up) - 1
      /\ DOMAIN up = 1..Len(up) /\ DOMAIN up' = 1..(Len(up) - 1)
  BY Executed
<1>2. FindAll(i)' = FindAll(i) /\ greeted' = greeted /\ alive' = alive
  BY DEF FindAll, Execute, listVars
<1>3. ASSUME NEW cmd, \A n \in DOMAIN up : n # k => ~Is(n, i, cmd)
      PROVE  \A n \in DOMAIN up' : ~Is(n, i, cmd)'
  <2> SUFFICES ASSUME NEW n \in DOMAIN up' PROVE ~Is(n, i, cmd)'
    OBVIOUS
  <2>1. CASE n < k
    BY <1>1, <1>3, <2>1, ExecutedIs
  <2>2. CASE n >= k
    <3>1. n \in k..(Len(up) - 1) /\ n + 1 \in DOMAIN up /\ n + 1 # k
      BY <1>1, <2>2
    <3> QED
      BY <1>3, <3>1, ExecutedIs
  <2> QED
    BY <1>1, <2>1, <2>2
<1>4. CASE FindAll(i) # {} /\ Will(i, Len(up) + 1)
  <2>1. PICK m \in (k + 1)..(Len(up) + 1) : m = Len(up) + 1
    BY <1>1
  <2>2. Will(i, m)
    BY <1>4, <2>1
  <2>3. CASE Will(i, m - 1)'
    <3>1. m - 1 = Len(up') + 1
      BY <1>1, <2>1
    <3> QED
      BY <1>2, <1>4, <2>3, <3>1 DEF Knows
  <2>4. CASE Rejects(i)' /\ \A j \in 1..(m - 2) : ~Is(j, i, "unsubscribe")'
    <3>1. \A j \in DOMAIN up' : j \in 1..(m - 2)
      BY <1>1, <2>1
    <3> QED
      BY <1>2, <1>4, <2>4, <3>1 DEF Knows
  <2> QED
    BY <2>2, <2>3, <2>4, WillLater
<1>5. CASE /\ FindAll(i) # {} /\ (Rejects(i) \/ Greets)
           /\ \A n \in DOMAIN up : ~Is(n, i, "unsubscribe")
  <2>1. \A n \in DOMAIN up' : ~Is(n, i, "unsubscribe")'
    BY <1>3, <1>5
  <2>2. \A n \in DOMAIN down : n \in DOMAIN down' /\ down'[n] = down[n]
    BY DEF Execute, Subscribed, TypeOK
  <2>3. Rejects(i)' \/ Greets'
    BY <1>2, <1>5, <2>2 DEF Rejects, Greets
  <2> QED
    BY <1>2, <1>5, <2>1, <2>3 DEF Knows
<1>6. ASSUME FindAll(i) = {}, NEW n \in DOMAIN up, Is(n, i, "unsubscribe"),
             \A j \in (n + 1)..Len(up) : ~Is(j, i, "subscribe")
      PROVE  Knows(i)'
  <2>1. CASE n = k
    <3>1. \A j \in 1..(k - 1) : ~Is(j, i, "subscribe")
      BY <1>6, <2>1, Uncrossed DEF Is
    <3>2. \A j \in DOMAIN up : j # k => ~Is(j, i, "subscribe")
      BY <1>1, <1>6, <2>1, <3>1
    <3>3. i \notin subs' /\ \A j \in DOMAIN up' : ~Is(j, i, "subscribe")'
      BY <1>3, <1>6, <2>1, <3>2, SubsExecuted
    <3> QED
      BY <1>2, <1>6, <3>3 DEF Knows
  <2>2. CASE n < k
    <3>1. n \in 1..(k - 1) /\ n \in DOMAIN up'
      BY <1>1, <2>2
    <3>2. Is(n, i, "unsubscribe")'
      BY <1>6, <3>1, ExecutedIs
    <3>3. \A j \in (n + 1)..(Len(up) - 1) : ~Is(j, i, "subscribe")'
      <4> SUFFICES ASSUME NEW j \in (n + 1)..(Len(up) - 1) PROVE ~Is(j, i, "subscribe")'
        OBVIOUS
      <4>1. CASE j < k
        BY <1>1, <1>6, <4>1, ExecutedIs
      <4>2. CASE j >= k
        <5>1. j \in k..(Len(up) - 1) /\ j + 1 \in (n + 1)..Len(up)
          BY <1>1, <4>2
        <5> QED
          BY <1>6, <5>1, ExecutedIs
      <4> QED
        BY <1>1, <4>1, <4>2
    <3> QED
      BY <1>1, <1>2, <1>6, <3>1, <3>2, <3>3 DEF Knows
  <2>3. CASE n > k
    <3>1. PICK m : m = n - 1
      OBVIOUS
    <3>2. m \in k..(Len(up) - 1) /\ m + 1 = n /\ m \in DOMAIN up'
      BY <1>1, <2>3, <3>1
    <3>3. Is(m, i, "unsubscribe")'
      BY <1>6, <3>2, ExecutedIs
    <3>4. \A j \in (m + 1)..(Len(up) - 1) : j \in k..(Len(up) - 1) /\ j + 1 \in (n + 1)..Len(up)
      BY <1>1, <2>3, <3>1
    <3>5. \A j \in (m + 1)..(Len(up) - 1) : ~Is(j, i, "subscribe")'
      BY <1>6, <3>4, ExecutedIs
    <3> QED
      BY <1>1, <1>2, <1>6, <3>2, <3>3, <3>5 DEF Knows
  <2> QED
    BY <1>1, <2>1, <2>2, <2>3
<1>7. CASE /\ FindAll(i) = {} /\ i \notin subs
           /\ i \in alive => \A n \in DOMAIN up : ~Is(n, i, "subscribe")
  <2>1. i \notin subs'
    BY <1>1, <1>7, SubsExecuted
  <2>2. i \in alive => \A n \in DOMAIN up' : ~Is(n, i, "subscribe")'
    BY <1>3, <1>7
  <2> QED
    BY <1>2, <1>7, <2>1, <2>2 DEF Knows
<1> QED
  BY <1>4, <1>5, <1>6, <1>7 DEF Knows

\* Input of a connected terminal that is executed finds its subscription.
LEMMA ArrivesExecuted ==
  ASSUME TypeOK, NEW k \in 1..PoolSize, Execute(k), refused \subseteq crossed,
         \A i \in Idents \ crossed : Heard(i)
  PROVE  refused' \subseteq crossed'
<1>1. k \in DOMAIN up /\ up[k] \in Commands /\ k \in Nat
  BY Executed
<1>2. crossed \subseteq crossed'
  BY DEF Execute
<1> DEFINE i == up[k].ident
<1>3. CASE up[k].cmd = "input" /\ up[k].told /\ i \in alive \ subs
  <2>1. refused' = refused \cup {i} /\ i \in Idents
    BY <1>1, <1>3 DEF Execute, Received, Commands
  <2>2. ASSUME i \notin crossed' PROVE FALSE
    <3>1. Will(i, k)
      BY <1>1, <1>2, <1>3, <2>1, <2>2 DEF Heard, Is
    <3>2. \A j \in 1..(k - 1) : ~Is(j, i, "subscribe")
      BY <2>2, Uncrossed
    <3> QED
      BY <1>3, <3>1, <3>2 DEF Will
  <2> QED
    BY <1>2, <2>1, <2>2
<1>4. CASE ~(up[k].cmd = "input" /\ up[k].told /\ i \in alive \ subs)
  <2>1. refused' = refused
    BY <1>4 DEF Execute, Received
  <2> QED
    BY <1>2, <2>1
<1> QED
  BY <1>3, <1>4

-----------------------------------------------------------------------------
(* The invariant.                                                          *)

LEMMA InitInv == Init => Inv
<1> SUFFICES ASSUME Init PROVE Inv
  OBVIOUS
<1>1. TypeOK
  BY InitTypes
<1>2. Greeting
  BY DEF Init, Greeting, Rejects
<1>3. Agreeing /\ InputAccepted
  BY DEF Init, Agreeing, InputAccepted
<1> QED
  BY <1>1, <1>2, <1>3 DEF Inv

\* A new socket begins with nothing said.
LEMMA NewSocketGreeting ==
  ASSUME NewSocket PROVE Greeting'
BY DEF NewSocket, Greeting, Rejects

\* Where nothing is received or executed.
LEMMA QuietGreeting ==
  ASSUME Greeting, UNCHANGED <<down, greeted, subs>>, alive' \subseteq alive,
         told' \subseteq told, ws' = "connecting" => ws = "connecting" /\ up' = up,
         ws' = "open" => told' \subseteq listed'
  PROVE  Greeting'
BY DEF Greeting, Rejects

\* What is left when the first message is received.
LEMMA TailIs ==
  ASSUME TypeOK, NEW type, Receiving(type)
  PROVE  /\ \A n \in DOMAIN down' : n + 1 \in DOMAIN down /\ down'[n] = down[n + 1] /\ n + 1 # 1
         /\ \A n \in DOMAIN down : n # 1 => n - 1 \in DOMAIN down' /\ down'[n - 1] = down[n]
         /\ 1 \in DOMAIN down /\ down[1].type = type /\ Head(down) = down[1]
<1>1. down \in Seq(Messages) /\ down # <<>> /\ down' = Tail(down)
  BY DEF Receiving, TypeOK
<1>2. /\ Len(down) \in Nat \ {0} /\ DOMAIN down = 1..Len(down) /\ Len(down') = Len(down) - 1
      /\ DOMAIN down' = 1..(Len(down) - 1) /\ \A n \in 1..(Len(down) - 1) : down'[n] = down[n + 1]
  BY <1>1, HeadTailProperties
<1>3. \A n \in DOMAIN down : n # 1 => n - 1 \in 1..(Len(down) - 1) /\ n - 1 + 1 = n
  BY <1>2
<1>4. 1 \in DOMAIN down /\ Head(down) = down[1]
  BY <1>1, <1>2
<1> QED
  BY <1>2, <1>3, <1>4 DEF Receiving

LEMMA ReceivedGreeting ==
  ASSUME TypeOK, Greeting, NEW type, Receiving(type), told' \subseteq listed'
  PROVE  Greeting'
<1>1. ws' = "open" /\ greeted /\ UNCHANGED <<greeted, subs, alive>>
  <2>1. ws' = "open" /\ UNCHANGED <<greeted, subs, alive>> /\ down # <<>>
    BY DEF Receiving, serverVars
  <2> QED
    BY <2>1 DEF Greeting, TypeOK
<1>2. \A n \in DOMAIN down' : down'[n].type # "welcome"
  BY TailIs DEF Greeting
<1>3. \A i \in Idents : Rejects(i)' => Rejects(i)
  BY TailIs DEF Rejects
<1> QED
  BY <1>1, <1>2, <1>3 DEF Greeting

LEMMA ExecutedGreeting ==
  ASSUME TypeOK, Greeting, NEW k \in 1..PoolSize, Execute(k)
  PROVE  Greeting'
<1>1. /\ ws' = "open" /\ greeted' /\ UNCHANGED <<told, alive, listed>>
  BY DEF Execute, socketVars, listVars
<1>2. CASE UNCHANGED down /\ subs' \subseteq subs \cup alive
  <2>1. \A i \in Idents : Rejects(i)' => i \notin alive' /\ i \notin subs'
    BY <1>1, <1>2 DEF Greeting, Rejects
  <2> QED
    BY <1>1, <1>2, <2>1 DEF Greeting, Execute, socketVars
<1>3. ASSUME NEW m, m.type # "welcome", down' = Append(down, m), subs' \subseteq subs \cup alive,
             m.type = "reject" => m.ident \notin alive' /\ m.ident \notin subs'
      PROVE  Greeting'
  <2>1. /\ DOMAIN down' = 1..(Len(down) + 1) /\ DOMAIN down = 1..Len(down) /\ Len(down) \in Nat
        /\ \A n \in 1..Len(down) : down'[n] = down[n]
        /\ down'[Len(down) + 1] = m
    BY <1>3, AppendProperties DEF TypeOK
  <2>2. \A n \in DOMAIN down' : (n \in DOMAIN down /\ down'[n] = down[n]) \/ down'[n] = m
    BY <2>1
  <2>3. \A i \in Idents : Rejects(i)' => Rejects(i) \/ (m.type = "reject" /\ m.ident = i)
    BY <2>2 DEF Rejects
  <2>4. \A i \in Idents : Rejects(i)' => i \notin alive' /\ i \notin subs'
    BY <1>1, <1>3, <2>3 DEF Greeting
  <2>5. \A n \in DOMAIN down' : down'[n].type = "welcome" => n = 1 /\ told' = {}
    BY <1>1, <1>3, <2>2 DEF Greeting
  <2>6. ws = "open"
    BY DEF Execute
  <2> QED
    BY <1>1, <2>4, <2>5, <2>6 DEF Greeting
<1>4. CASE up[k].cmd = "subscribe"
  <2>1. Subscribed(up[k].ident)
    BY <1>4 DEF Execute
  <2>2. CASE up[k].ident \in subs
    BY <1>2, <2>1, <2>2 DEF Subscribed
  <2>3. CASE up[k].ident \notin subs /\ up[k].ident \in alive
    <3>1. /\ down' = Append(down, [type |-> "confirm", ident |-> up[k].ident])
          /\ subs' = subs \cup {up[k].ident}
      BY <2>1, <2>3 DEF Subscribed
    <3> QED
      BY <1>3, <2>3, <3>1
  <2>4. CASE up[k].ident \notin subs /\ up[k].ident \notin alive
    <3>1. /\ down' = Append(down, [type |-> "reject", ident |-> up[k].ident])
          /\ subs' = subs
      BY <2>1, <2>4 DEF Subscribed
    <3> QED
      BY <1>1, <1>3, <2>4, <3>1
  <2> QED
    BY <2>2, <2>3, <2>4
<1>5. CASE up[k].cmd # "subscribe"
  BY <1>2, <1>5 DEF Execute
<1> QED
  BY <1>4, <1>5

\* Every step keeps the order of the greeting.
LEMMA NextGreeting == TypeOK /\ Greeting /\ [Next]_vars => Greeting'
<1> SUFFICES ASSUME TypeOK, Greeting, [Next]_vars PROVE Greeting'
  OBVIOUS
<1>1. ASSUME NEW c \in Terminals, Connect(c) PROVE Greeting'
  <2>1. CASE IsActive
    <3>1. /\ UNCHANGED <<ws, down, greeted, subs, alive, told>> /\ listed \subseteq listed'
          /\ Send(Subscribes({c}))
      BY <1>1, <2>1 DEF Connect, SubscribeAll
    <3>2. ws = "connecting" => up' = up
      BY <3>1 DEF Send
    <3>3. ws = "open" => told \subseteq listed
      BY DEF Greeting
    <3> QED
      BY <3>1, <3>2, <3>3, QuietGreeting
  <2>2. CASE ~IsActive
    BY <1>1, <2>2, NewSocketGreeting DEF Connect, OpenSocket
  <2> QED
    BY <2>1, <2>2
<1>2. ASSUME NEW c \in Terminals, Disconnect(c) PROVE Greeting'
  <2>1. /\ UNCHANGED <<ws, down, greeted, subs, alive>> /\ told' = told \ {c}
        /\ listed' = listed \ {c}
    BY <1>2 DEF Disconnect, Unsubscribe, socketVars, serverVars
  <2>2. ws = "connecting" => up' = up
    BY <1>2 DEF Disconnect, Unsubscribe, SendUnsubscribe, Send
  <2>3. ws = "open" => told \subseteq listed
    BY DEF Greeting
  <2> QED
    BY <2>1, <2>2, <2>3, QuietGreeting
<1>3. ASSUME NEW c \in Terminals, Input(c) \/ SizeTimer(c) PROVE Greeting'
  <2>1. UNCHANGED <<ws, down, greeted, subs, alive, told, listed>>
    BY <1>3 DEF Input, SizeTimer, socketVars, serverVars, listVars
  <2>2. ws = "connecting" => up' = up
    BY <1>3 DEF Input, SizeTimer, Send
  <2>3. ws = "open" => told \subseteq listed
    BY DEF Greeting
  <2> QED
    BY <2>1, <2>2, <2>3, QuietGreeting
<1>4. CASE Opened
  <2>1. UNCHANGED <<down, greeted, subs, alive, told, listed>> /\ ws' = "open" /\ ws = "connecting"
    BY <1>4 DEF Opened, serverVars, listVars
  <2>2. told = {}
    BY <2>1 DEF Greeting
  <2> QED
    BY <2>1, <2>2, QuietGreeting
<1>5. CASE Closed \/ ServerRestarts
  <2>1. UNCHANGED <<down, greeted, subs, alive, told>> /\ ws' \in {"closed", "closing"}
    BY <1>5 DEF Closed, ServerRestarts, serverVars
  <2> QED
    BY <2>1, QuietGreeting
<1>6. CASE Silence \/ RecentEnds \/ ReceivePing \/ UNCHANGED vars
  <2>1. UNCHANGED <<ws, up, down, greeted, subs, alive, told, listed>>
    BY <1>6 DEF Silence, RecentEnds, ReceivePing, vars, socketVars, serverVars, listVars
  <2>2. ws = "open" => told \subseteq listed
    BY DEF Greeting
  <2> QED
    BY <2>1, <2>2, QuietGreeting
<1>7. CASE Poll \/ Refocus
  <2>1. Reopen /\ UNCHANGED <<alive, listed>>
    BY <1>7 DEF Poll, Refocus, listVars
  <2>2. CASE IsActive
    <3>1. UNCHANGED <<up, down, greeted, subs, told>> /\ ws' \in {"closing", "connecting"}
          /\ (ws' = "connecting" => ws = "connecting")
      BY <2>1, <2>2 DEF Reopen, IsActive
    <3> QED
      BY <2>1, <3>1, QuietGreeting
  <2>3. CASE ~IsActive
    BY <2>1, <2>3, NewSocketGreeting DEF Reopen, OpenSocket
  <2> QED
    BY <2>2, <2>3
<1>8. CASE ReopenTimer
  <2>1. OpenSocket /\ UNCHANGED <<alive, listed>>
    BY <1>8 DEF ReopenTimer, listVars
  <2>2. CASE NewSocket
    BY <2>2, NewSocketGreeting
  <2>3. CASE UNCHANGED <<sock, ws, up, down, greeted, subs, told, crossed, refused>>
    <3>1. ws = "open" => told \subseteq listed
      BY DEF Greeting
    <3> QED
      BY <2>1, <2>3, <3>1, QuietGreeting
  <2> QED
    BY <2>1, <2>2, <2>3 DEF OpenSocket
<1>9. CASE RetryTimer
  <2>1. UNCHANGED <<ws, down, greeted, subs, alive, told, listed>>
    BY <1>9 DEF RetryTimer, socketVars, serverVars
  <2>2. ws = "connecting" => up' = up
    BY <1>9 DEF RetryTimer, Send
  <2>3. ws = "open" => told \subseteq listed
    BY DEF Greeting
  <2> QED
    BY <2>1, <2>2, <2>3, QuietGreeting
<1>10. CASE ReceiveWelcome
  <2>1. Receiving("welcome") /\ told' = told /\ listed' = listed /\ told \subseteq listed
    BY <1>10 DEF ReceiveWelcome, Receiving, Greeting
  <2> QED
    BY <2>1, ReceivedGreeting
<1>11. CASE ReceiveConfirm
  <2>1. Receiving("confirm") /\ told' \subseteq listed'
    BY <1>11 DEF ReceiveConfirm, Receiving, Greeting, FindAll
  <2> QED
    BY <2>1, ReceivedGreeting
<1>12. CASE ReceiveReject
  <2>1. Receiving("reject") /\ told' \subseteq listed'
    BY <1>12 DEF ReceiveReject, Receiving, Greeting, FindAll
  <2> QED
    BY <2>1, ReceivedGreeting
<1>13. CASE Welcome
  <2>1. /\ ws = "open" /\ down = <<>> /\ subs = {} /\ told = {} /\ greeted'
        /\ UNCHANGED <<ws, subs, alive, told, listed>> /\ down' = Append(down, [type |-> "welcome"])
    BY <1>13 DEF Welcome, Greeting, socketVars, listVars
  <2>2. DOMAIN down' = {1} /\ down'[1] = [type |-> "welcome"]
    BY <2>1
  <2>3. \A i \in Idents : ~Rejects(i)'
    BY <2>2 DEF Rejects
  <2>4. ws' = "open" /\ told' = {}
    BY <2>1
  <2> QED
    BY <2>1, <2>2, <2>3, <2>4 DEF Greeting
<1>14. ASSUME NEW k \in 1..PoolSize, Execute(k) PROVE Greeting'
  BY <1>14, ExecutedGreeting
<1>15. ASSUME NEW i \in Idents, SessionEnds(i) PROVE Greeting'
  <2>1. UNCHANGED <<ws, up, down, greeted, subs, told, listed>> /\ alive' \subseteq alive
    BY <1>15 DEF SessionEnds, socketVars, listVars
  <2>2. ws = "open" => told \subseteq listed
    BY DEF Greeting
  <2> QED
    BY <2>1, <2>2, QuietGreeting
<1> QED
  BY <1>1, <1>2, <1>3, <1>4, <1>5, <1>6, <1>7, <1>8, <1>9, <1>10, <1>11, <1>12,
     <1>13, <1>14, <1>15 DEF Next

\* Where nothing is sent, received or executed.
LEMMA QuietAgreeing ==
  ASSUME Agreeing, ws' = "open" => ws = "open",
         UNCHANGED <<up, down, greeted, subs, listed, crossed>>, alive' \subseteq alive
  PROVE  Agreeing'
<1> SUFFICES ASSUME ws' = "open", NEW i \in Idents \ crossed PROVE Knows(i)' /\ Heard(i)'
  BY DEF Agreeing
<1>1. Knows(i) /\ Heard(i)
  BY DEF Agreeing
<1>2. FindAll(i)' = FindAll(i) /\ (Rejects(i) => Rejects(i)') /\ (Greets => Greets')
  BY DEF FindAll, Rejects, Greets
<1> QED
  BY <1>1, <1>2, KnowsKept, HeardKept

LEMMA ClosedAgreeing == ASSUME ws' # "open" PROVE Agreeing'
BY DEF Agreeing

\* Where os are subscribed: those are known, and of the others nothing is said.
LEMMA SubscribedAgreeing ==
  ASSUME TypeOK, Agreeing, ws = "open", NEW os \in SUBSET Terminals,
         up' = up \o Subscribes(os), UNCHANGED <<subs, alive, crossed>>,
         os \subseteq listed', listed \subseteq listed', listed' \subseteq listed \cup os,
         os = listed \/ UNCHANGED <<down, greeted>>
  PROVE  Agreeing'
<1> DEFINE r == Subscribes(os)
<1>1. /\ r \in Seq(Commands) /\ DOMAIN r = 1..Len(r)
      /\ \A m \in 1..Len(r) : r[m].cmd = "subscribe" /\ \E c \in os : r[m].ident = Ident(c)
      /\ \A c \in os : \E m \in 1..Len(r) : r[m].ident = Ident(c)
  <2>1. /\ r \in Seq(Commands)
        /\ \A m \in DOMAIN r : r[m].cmd = "subscribe" /\ \E c \in os : r[m].ident = Ident(c)
        /\ \A c \in os : \E m \in DOMAIN r : r[m].ident = Ident(c)
    BY SubscribesIs
  <2> HIDE DEF r
  <2>2. DOMAIN r = 1..Len(r)
    BY <2>1
  <2> QED
    BY <2>1, <2>2
<1> HIDE DEF r
<1>2. up' = up \o r
  BY DEF r
<1> SUFFICES ASSUME NEW i \in Idents \ crossed PROVE Knows(i)' /\ Heard(i)'
  BY DEF Agreeing
<1>3. Knows(i) /\ Heard(i)
  BY DEF Agreeing
<1>4. Heard(i)'
  <2>1. \A m \in 1..Len(r) : r[m].cmd # "input"
    BY <1>1
  <2> QED
    BY <1>1, <1>2, <1>3, <2>1, HeardSent
<1>5. CASE \E c \in os : Ident(c) = i
  <2>1. \E m \in 1..Len(r) : r[m].ident = i
    BY <1>1, <1>5
  <2>2. Will(i, Len(up) + 1)'
    BY <1>1, <1>2, <2>1, WillSubscribe
  <2>3. FindAll(i)' # {}
    BY <1>5 DEF FindAll
  <2> QED
    BY <1>4, <2>2, <2>3 DEF Knows
<1>6. CASE ~ \E c \in os : Ident(c) = i
  <2>1. FindAll(i)' = FindAll(i) /\ (os = listed => FindAll(i) = {})
    BY <1>6 DEF FindAll
  <2>2. \A m \in 1..Len(r) : r[m].ident = i => r[m].cmd = "input"
    BY <1>1, <1>6
  <2> QED
    BY <1>1, <1>2, <1>3, <1>4, <2>1, <2>2, KnowsSent
<1> QED
  BY <1>5, <1>6

\* Where a terminal sends input.
LEMMA InputAgreeing ==
  ASSUME TypeOK, Greeting, Agreeing, ws = "open", NEW c \in Terminals,
         up' = up \o <<Command("input", c)>>,
         UNCHANGED <<down, greeted, subs, alive, listed, crossed>>
  PROVE  Agreeing'
<1> DEFINE r == <<Command("input", c)>>
<1>1. /\ r \in Seq(Commands) /\ Len(r) = 1 /\ r[1].cmd = "input" /\ r[1].ident = Ident(c)
      /\ r[1].told = (c \in told)
  BY CommandTypes
<1> HIDE DEF r
<1>2. up' = up \o r
  BY DEF r
<1>3. \A m \in 1..Len(r) : m = 1
  BY <1>1
<1> SUFFICES ASSUME NEW i \in Idents \ crossed PROVE Knows(i)' /\ Heard(i)'
  BY DEF Agreeing
<1>4. Knows(i) /\ Heard(i)
  BY DEF Agreeing
<1>5. Knows(i)'
  <2>1. FindAll(i)' = FindAll(i)
    BY DEF FindAll
  <2>2. \A m \in 1..Len(r) : r[m].ident = i => r[m].cmd = "input"
    BY <1>1, <1>3
  <2> QED
    BY <1>1, <1>2, <1>4, <2>1, <2>2, KnowsSent
<1>6. ASSUME i \in alive, Ident(c) = i, c \in told PROVE Will(i, Len(up) + 1)
  BY <1>4, <1>6, ToldWill
<1>7. Heard(i)'
  <2>1. i \in alive => \A m \in 1..Len(r) :
          r[m].ident = i /\ r[m].cmd = "input" /\ r[m].told => m = 1 /\ Will(i, Len(up) + 1)
    BY <1>1, <1>3, <1>6
  <2> QED
    BY <1>1, <1>2, <1>4, <2>1, HeardSent
<1> QED
  BY <1>5, <1>7

\* Where a terminal goes: the last of an identifier unsubscribes it.
LEMMA DisconnectAgreeing ==
  ASSUME TypeOK, Agreeing, NEW c \in Terminals, Disconnect(c)
  PROVE  Agreeing'
<1> SUFFICES ASSUME ws' = "open", NEW i \in Idents \ crossed' PROVE Knows(i)' /\ Heard(i)'
  BY DEF Agreeing
<1>1. /\ ws = "open" /\ UNCHANGED <<down, greeted, subs, alive, crossed>>
      /\ listed' = listed \ {c} /\ SendUnsubscribe(c)
  BY DEF Disconnect, Unsubscribe, socketVars, serverVars
<1>2. Knows(i) /\ Heard(i)
  BY <1>1 DEF Agreeing
<1>3. CASE FindAll(Ident(c)) \subseteq {c}
  <2> DEFINE r == <<Command("unsubscribe", c)>>
  <2>1. /\ r \in Seq(Commands) /\ Len(r) = 1 /\ r[1].cmd = "unsubscribe" /\ r[1].ident = Ident(c)
    BY CommandTypes
  <2>2. up' = up \o r
    BY <1>1, <1>3 DEF SendUnsubscribe, Send
  <2> HIDE DEF r
  <2>3. \A m \in 1..Len(r) : m = 1
    BY <2>1
  <2>4. Heard(i)'
    <3>1. \A m \in 1..Len(r) : r[m].cmd # "input"
      BY <2>1, <2>3
    <3> QED
      BY <1>1, <1>2, <2>1, <2>2, <3>1, HeardSent
  <2>5. CASE Ident(c) = i
    <3>1. FindAll(i)' = {}
      BY <1>1, <1>3, <2>5 DEF FindAll
    <3>2. Len(up) \in Nat /\ Len(up') = Len(up) + 1 /\ up'[Len(up) + 1] = r[1]
      <4>1. /\ Len(up) \in Nat /\ Len(up') = Len(up) + Len(r)
            /\ \A m \in 1..Len(r) : up'[Len(up) + m] = r[m]
        BY <2>1, <2>2, Sent
      <4>2. 1 \in 1..Len(r)
        BY <2>1
      <4> QED
        BY <2>1, <4>1, <4>2
    <3>3. PICK k : k = Len(up) + 1
      OBVIOUS
    <3>4. DOMAIN up' = 1..Len(up')
      BY <2>1, <2>2 DEF TypeOK
    <3>5. k \in DOMAIN up' /\ Is(k, i, "unsubscribe")'
      BY <2>1, <2>5, <3>2, <3>3, <3>4 DEF Is
    <3>6. \A j \in (k + 1)..Len(up') : ~Is(j, i, "subscribe")'
      BY <3>2, <3>3
    <3> QED
      BY <2>4, <3>1, <3>5, <3>6 DEF Knows
  <2>6. CASE Ident(c) # i
    <3>1. FindAll(i)' = FindAll(i)
      BY <1>1, <2>6 DEF FindAll
    <3>2. \A m \in 1..Len(r) : r[m].ident = i => r[m].cmd = "input"
      BY <2>1, <2>3, <2>6
    <3> QED
      BY <1>1, <1>2, <2>1, <2>2, <2>4, <3>1, <3>2, KnowsSent
  <2> QED
    BY <2>5, <2>6
<1>4. CASE ~(FindAll(Ident(c)) \subseteq {c})
  <2>1. up' = up
    BY <1>1, <1>4 DEF SendUnsubscribe
  <2>2. (FindAll(i)' = {}) <=> (FindAll(i) = {})
    BY <1>1, <1>4 DEF FindAll
  <2>3. (Rejects(i) => Rejects(i)') /\ (Greets => Greets')
    BY <1>1 DEF Rejects, Greets
  <2> QED
    BY <1>1, <1>2, <2>1, <2>2, <2>3, KnowsKept, HeardKept
<1> QED
  BY <1>3, <1>4

\* Where an answer to a subscribe is received.
LEMMA AnswerAgreeing ==
  ASSUME TypeOK, Greeting, Agreeing, ReceiveConfirm \/ ReceiveReject
  PROVE  Agreeing'
<1> SUFFICES ASSUME NEW i \in Idents \ crossed PROVE Knows(i)' /\ Heard(i)'
  BY DEF Agreeing, ReceiveConfirm, ReceiveReject, Receiving
<1>1. /\ ws = "open" /\ down # <<>> /\ UNCHANGED <<up, subs, alive, greeted, crossed>>
  BY DEF ReceiveConfirm, ReceiveReject, Receiving, serverVars
<1>2. Knows(i) /\ Heard(i)
  BY <1>1 DEF Agreeing
<1>3. Heard(i)'
  BY <1>1, <1>2, HeardKept
<1>4. \A n \in DOMAIN down : n # 1 => n - 1 \in DOMAIN down' /\ down'[n - 1] = down[n]
  BY TailIs DEF ReceiveConfirm, ReceiveReject
<1>5. Head(down) = down[1] /\ down[1].type \in {"confirm", "reject"} /\ 1 \in DOMAIN down
  BY TailIs DEF ReceiveConfirm, ReceiveReject
<1>6. Greets => Greets'
  <2>1. greeted
    BY <1>1 DEF Greeting, TypeOK
  <2>2. \A n \in DOMAIN down : down[n].type # "welcome"
    BY <1>5 DEF Greeting
  <2> QED
    BY <2>1, <2>2 DEF Greets
<1>7. CASE ReceiveConfirm
  <2>1. FindAll(i)' = FindAll(i)
    BY <1>7 DEF ReceiveConfirm, FindAll
  <2>2. down[1].type # "reject"
    BY <1>7, TailIs DEF ReceiveConfirm
  <2>3. Rejects(i) => Rejects(i)'
    BY <1>4, <2>2 DEF Rejects
  <2> QED
    BY <1>1, <1>2, <1>3, <1>6, <2>1, <2>3, KnowsKept
<1>8. CASE ReceiveReject
  <2>1. down[1].type = "reject" /\ listed' = listed \ FindAll(down[1].ident)
    BY <1>5, <1>8, TailIs DEF ReceiveReject
  <2>2. CASE down[1].ident = i
    <3>1. i \notin alive /\ i \notin subs
      BY <1>5, <2>1, <2>2 DEF Greeting, Rejects
    <3>2. FindAll(i)' = {}
      BY <2>1, <2>2 DEF FindAll
    <3> QED
      BY <1>1, <1>3, <3>1, <3>2 DEF Knows
  <2>3. CASE down[1].ident # i
    <3>1. FindAll(i)' = FindAll(i)
      BY <2>1, <2>3 DEF FindAll
    <3>2. Rejects(i) => Rejects(i)'
      BY <1>4, <2>3 DEF Rejects
    <3> QED
      BY <1>1, <1>2, <1>3, <1>6, <3>1, <3>2, KnowsKept
  <2> QED
    BY <2>2, <2>3
<1> QED
  BY <1>7, <1>8

\* Every step keeps page and server on the way to agreeing.
LEMMA NextAgreeing == TypeOK /\ Greeting /\ Agreeing /\ [Next]_vars => Agreeing'
<1> SUFFICES ASSUME TypeOK, Greeting, Agreeing, [Next]_vars PROVE Agreeing'
  OBVIOUS
<1>1. ASSUME NEW c \in Terminals, Connect(c) PROVE Agreeing'
  <2>1. CASE ws = "open"
    <3>1. /\ SubscribeAll({c}) /\ UNCHANGED <<down, greeted, subs, crossed, alive>>
          /\ listed' = listed \cup {c}
      BY <1>1, <2>1 DEF Connect, IsActive
    <3>2. up' = up \o Subscribes({c})
      BY <2>1, <3>1 DEF SubscribeAll, Send
    <3> QED
      BY <2>1, <3>1, <3>2, SubscribedAgreeing
  <2>2. CASE ws # "open"
    BY <1>1, <2>2, ClosedAgreeing DEF Connect, OpenSocket, NewSocket
  <2> QED
    BY <2>1, <2>2
<1>2. ASSUME NEW c \in Terminals, Disconnect(c) PROVE Agreeing'
  BY <1>2, DisconnectAgreeing
<1>3. ASSUME NEW c \in Terminals, Input(c) \/ SizeTimer(c) PROVE Agreeing'
  <2>1. /\ UNCHANGED <<ws, down, greeted, subs, alive, listed, crossed>>
        /\ Send(<<Command("input", c)>>)
    BY <1>3 DEF Input, SizeTimer, socketVars, serverVars, listVars
  <2>2. CASE ws = "open"
    BY <2>1, <2>2, InputAgreeing DEF Send
  <2>3. CASE ws # "open"
    BY <2>1, <2>3, ClosedAgreeing
  <2> QED
    BY <2>2, <2>3
<1>4. CASE Opened
  <2>1. /\ ws = "connecting" /\ UNCHANGED <<up, down, greeted, subs, alive, listed, crossed>>
    BY <1>4 DEF Opened, serverVars, listVars
  <2>2. up' = <<>> /\ ~greeted' /\ subs' = {}
    BY <2>1 DEF Greeting
  <2>3. \A i \in Idents : Knows(i)' /\ Heard(i)'
    BY <2>2 DEF Knows, Heard, Greets
  <2> QED
    BY <2>3 DEF Agreeing
<1>5. CASE Closed \/ ServerRestarts
  BY <1>5, ClosedAgreeing DEF Closed, ServerRestarts
<1>6. CASE Silence \/ RecentEnds \/ ReceivePing \/ UNCHANGED vars
  <2>1. UNCHANGED <<ws, up, down, greeted, subs, alive, listed, crossed>>
    BY <1>6 DEF Silence, RecentEnds, ReceivePing, vars, socketVars, serverVars, listVars
  <2> QED
    BY <2>1, QuietAgreeing
<1>7. CASE Poll \/ Refocus
  BY <1>7, ClosedAgreeing DEF Poll, Refocus, Reopen, IsActive, OpenSocket, NewSocket
<1>8. CASE ReopenTimer
  <2>1. OpenSocket /\ UNCHANGED <<alive, listed>>
    BY <1>8 DEF ReopenTimer, listVars
  <2>2. CASE NewSocket
    BY <2>2, ClosedAgreeing DEF NewSocket
  <2>3. CASE UNCHANGED <<sock, ws, up, down, greeted, subs, told, crossed, refused>>
    BY <2>1, <2>3, QuietAgreeing
  <2> QED
    BY <2>1, <2>2, <2>3 DEF OpenSocket
<1>9. CASE RetryTimer
  <2>1. /\ UNCHANGED <<ws, down, greeted, subs, alive, listed, crossed>>
        /\ Send(Subscribes(pending)) /\ pending \in SUBSET Terminals /\ pending \subseteq listed
    BY <1>9 DEF RetryTimer, socketVars, serverVars, TypeOK
  <2>2. CASE ws = "open"
    <3>1. up' = up \o Subscribes(pending)
      BY <2>1, <2>2 DEF Send
    <3> QED
      BY <2>1, <2>2, <3>1, SubscribedAgreeing
  <2>3. CASE ws # "open"
    BY <2>1, <2>3, ClosedAgreeing
  <2> QED
    BY <2>2, <2>3
<1>10. CASE ReceiveWelcome
  <2>1. /\ ws = "open" /\ UNCHANGED <<greeted, subs, alive, listed, crossed>>
        /\ SubscribeAll(listed) /\ listed \in SUBSET Terminals
    BY <1>10 DEF ReceiveWelcome, Receiving, Reload, serverVars, TypeOK
  <2>2. up' = up \o Subscribes(listed)
    BY <2>1 DEF SubscribeAll, Send
  <2> QED
    BY <2>1, <2>2, SubscribedAgreeing
<1>11. CASE ReceiveConfirm \/ ReceiveReject
  BY <1>11, AnswerAgreeing
<1>12. CASE Welcome
  <2>1. /\ ws = "open" /\ ~greeted /\ greeted' /\ UNCHANGED <<up, subs, alive, listed, crossed>>
        /\ down' = Append(down, [type |-> "welcome"]) /\ down = <<>>
    BY <1>12 DEF Welcome, Greeting, socketVars, listVars
  <2>2. 1 \in DOMAIN down' /\ down'[1] = [type |-> "welcome"]
    BY <2>1
  <2>3. Greets'
    BY <2>2 DEF Greets
  <2> SUFFICES ASSUME NEW i \in Idents \ crossed PROVE Knows(i)' /\ Heard(i)'
    BY <2>1 DEF Agreeing
  <2>4. Knows(i) /\ Heard(i)
    BY <2>1 DEF Agreeing
  <2>5. FindAll(i)' = FindAll(i) /\ ~Rejects(i)
    BY <2>1 DEF FindAll, Rejects
  <2> QED
    BY <2>1, <2>3, <2>4, <2>5, KnowsKept, HeardKept
<1>13. ASSUME NEW k \in 1..PoolSize, Execute(k) PROVE Agreeing'
  <2> SUFFICES ASSUME NEW i \in Idents \ crossed' PROVE Knows(i)' /\ Heard(i)'
    BY DEF Agreeing
  <2>1. Knows(i) /\ Heard(i)
    BY <1>13, Uncrossed DEF Agreeing, Execute
  <2> QED
    BY <1>13, <2>1, KnowsExecuted, HeardExecuted
<1>14. ASSUME NEW i \in Idents, SessionEnds(i) PROVE Agreeing'
  <2>1. UNCHANGED <<ws, up, down, greeted, subs, listed, crossed>> /\ alive' \subseteq alive
    BY <1>14 DEF SessionEnds, socketVars, listVars
  <2> QED
    BY <2>1, QuietAgreeing
<1> QED
  BY <1>1, <1>2, <1>3, <1>4, <1>5, <1>6, <1>7, <1>8, <1>9, <1>10, <1>11, <1>12,
     <1>13, <1>14 DEF Next

\* No step but the execution of a command loses input.
LEMMA NextArrives == Inv /\ [Next]_vars => InputAccepted'
<1> SUFFICES ASSUME Inv, [Next]_vars PROVE refused' \subseteq crossed'
  BY DEF InputAccepted
<1>1. TypeOK /\ Agreeing /\ refused \subseteq crossed
  BY DEF Inv, InputAccepted
<1>2. ASSUME NEW k \in 1..PoolSize, Execute(k) PROVE refused' \subseteq crossed'
  <2>1. \A i \in Idents \ crossed : Heard(i)
    BY <1>1, <1>2 DEF Agreeing, Execute
  <2> QED
    BY <1>1, <1>2, <2>1, ArrivesExecuted
<1>3. CASE UNCHANGED <<refused, crossed>>
  BY <1>1, <1>3
<1>4. CASE NewSocket
  BY <1>4 DEF NewSocket
<1>5. ASSUME NEW c \in Terminals, Connect(c) \/ Disconnect(c) \/ Input(c) \/ SizeTimer(c)
      PROVE  UNCHANGED <<refused, crossed>> \/ NewSocket
  BY <1>5 DEF Connect, Disconnect, Input, SizeTimer, OpenSocket
<1>6. CASE Poll \/ Refocus \/ ReopenTimer
  BY <1>3, <1>4, <1>6 DEF Poll, Refocus, ReopenTimer, Reopen, OpenSocket
<1>7. CASE \/ Opened \/ Closed \/ ServerRestarts \/ Silence \/ RecentEnds \/ RetryTimer
           \/ ReceiveWelcome \/ ReceiveConfirm \/ ReceiveReject \/ ReceivePing \/ Welcome
           \/ (\E i \in Idents : SessionEnds(i)) \/ UNCHANGED vars
  BY <1>3, <1>7 DEF Opened, Closed, ServerRestarts, Silence, RecentEnds, RetryTimer,
     ReceiveWelcome, ReceiveConfirm, ReceiveReject, ReceivePing, Receiving, Welcome,
     SessionEnds, vars
<1> QED
  BY <1>2, <1>3, <1>4, <1>5, <1>6, <1>7 DEF Next

-----------------------------------------------------------------------------
(* The theorems.                                                           *)

LEMMA InvAlways == Spec => []Inv
<1>1. Inv /\ [Next]_vars => Inv'
  BY NextTypes, NextGreeting, NextAgreeing, NextArrives DEF Inv
<1> QED
  BY <1>1, InitInv, PTL DEF Spec

\* When nothing is on its way, what is known has come about.
LEMMA KnowsEnds ==
  ASSUME Inv, ws = "open", greeted, NEW i \in Idents \ crossed, ~InFlight(i)
  PROVE  i \in subs <=> FindAll(i) # {}
<1>1. Knows(i)
  BY DEF Inv, Agreeing
<1>2. \A n \in DOMAIN up : up[n].ident # i
  BY DEF InFlight
<1>3. ~Rejects(i) /\ ~Greets
  BY DEF InFlight, Rejects, Greets
<1>4. \A n, cmd : ~Is(n, i, cmd)
  BY <1>2 DEF Is
<1>5. Will(i, Len(up) + 1) => i \in subs
  BY <1>4 DEF Will
<1> QED
  BY <1>1, <1>3, <1>4, <1>5 DEF Knows

\* However pages come and go and sockets break, a page and a server with
\* nothing on its way agree on what is subscribed, unless workers crossed it.
THEOREM ListsAgreeAlways == Spec => []ListsAgree
<1>1. Inv => ListsAgree
  BY KnowsEnds DEF ListsAgree
<1> QED
  BY <1>1, InvAlways, PTL

\* Input that a terminal sent after it was told "connected" on this socket is
\* dropped by the server that executes it only where the server's workers crossed
\* commands of its identifier.
THEOREM InputAcceptedAlways == Spec => []InputAccepted
<1>1. Inv => InputAccepted
  BY DEF Inv
<1> QED
  BY <1>1, InvAlways, PTL

\* A terminal that says "connected" is listed, by a connection that does not
\* know itself lost.
Announced ==
  /\ ws = "closed" => disconnected
  /\ ws = "open" => ~disconnected
  /\ \A c \in Terminals : status[c] = "connected" => c \in listed /\ ~disconnected

LEMMA NextAnnounced == TypeOK /\ Announced /\ [Next]_vars => Announced'
<1> SUFFICES ASSUME TypeOK, Announced, [Next]_vars PROVE Announced'
  OBVIOUS
<1>1. ASSUME UNCHANGED <<disconnected, status>>, listed \subseteq listed',
             ws' \in {"closed", "open"} => ws' = ws
      PROVE  Announced'
  BY <1>1 DEF Announced
<1>2. ASSUME NEW c \in Terminals, Connect(c) PROVE Announced'
  <2>1. ws' = ws \/ ws' = "connecting"
    BY <1>2 DEF Connect, OpenSocket, NewSocket
  <2>2. /\ UNCHANGED disconnected /\ listed' = listed \cup {c}
        /\ \A d \in Terminals : status'[d] = "connected" => status[d] = "connected"
    BY <1>2 DEF Connect, TypeOK
  <2> QED
    BY <2>1, <2>2 DEF Announced
<1>3. ASSUME NEW c \in Terminals, Disconnect(c) PROVE Announced'
  <2>1. /\ UNCHANGED <<ws, disconnected>> /\ listed' = listed \ {c}
        /\ \A d \in Terminals : status'[d] = "connected" => status[d] = "connected" /\ d # c
    BY <1>3 DEF Disconnect, Unsubscribe, socketVars, TypeOK
  <2> QED
    BY <2>1 DEF Announced
<1>4. ASSUME NEW c \in Terminals, Input(c) \/ SizeTimer(c) PROVE Announced'
  BY <1>1, <1>4 DEF Input, SizeTimer, socketVars, listVars, pageVars
<1>5. CASE Opened
  BY <1>5 DEF Opened, listVars, pageVars, Announced
<1>6. CASE Closed
  <2>1. ws' = "closed" /\ disconnected' = TRUE
    BY <1>6 DEF Closed
  <2>2. \A c \in Terminals : status'[c] # "connected"
    BY <1>6 DEF Closed, Show, Announced
  <2> QED
    BY <2>1, <2>2 DEF Announced
<1>7. CASE ServerRestarts \/ Silence \/ RecentEnds \/ RetryTimer \/ ReceivePing \/ Welcome
  BY <1>1, <1>7 DEF ServerRestarts, Silence, RecentEnds, RetryTimer, ReceivePing, Welcome,
     socketVars, listVars, pageVars
<1>8. CASE Poll \/ Refocus \/ ReopenTimer
  <2>1. UNCHANGED <<disconnected, status, listed>> /\ ws' \in {ws, "closing", "connecting"}
    BY <1>8 DEF Poll, Refocus, ReopenTimer, Reopen, OpenSocket, NewSocket, listVars, pageVars
  <2> QED
    BY <1>1, <2>1
<1>9. CASE ReceiveWelcome
  BY <1>1, <1>9 DEF ReceiveWelcome, Receiving
<1>10. CASE ReceiveConfirm
  <2>1. ws = "open" /\ UNCHANGED <<ws, disconnected, listed>>
    BY <1>10 DEF ReceiveConfirm, Receiving
  <2>2. \A c \in Terminals : status'[c] = "connected" => status[c] = "connected" \/ c \in listed
    BY <1>10 DEF ReceiveConfirm, Show, FindAll
  <2> QED
    BY <2>1, <2>2 DEF Announced
<1>11. CASE ReceiveReject
  <2> DEFINE os == FindAll(Head(down).ident)
  <2>1. /\ UNCHANGED <<ws, disconnected>> /\ listed' = listed \ os
        /\ \A c \in Terminals : status'[c] = "connected" => status[c] = "connected" /\ c \notin os
    BY <1>11 DEF ReceiveReject, Receiving, Show
  <2> QED
    BY <2>1 DEF Announced
<1>12. ASSUME NEW k \in 1..PoolSize, Execute(k) PROVE Announced'
  BY <1>1, <1>12 DEF Execute, socketVars, listVars, pageVars
<1>13. ASSUME NEW i \in Idents, SessionEnds(i) PROVE Announced'
  BY <1>1, <1>13 DEF SessionEnds, socketVars, listVars, pageVars
<1>14. CASE UNCHANGED vars
  BY <1>1, <1>14 DEF vars, socketVars, listVars, pageVars
<1> QED
  BY <1>2, <1>3, <1>4, <1>5, <1>6, <1>7, <1>8, <1>9, <1>10, <1>11, <1>12, <1>13, <1>14 DEF Next

\* However sockets are replaced and closed, no terminal says "connected" over
\* one that is closed.
THEOREM ConnectedIsOnlineAlways == Spec => []ConnectedIsOnline
<1>1. Init => Announced
  BY DEF Init, Announced
<1>2. Announced => ConnectedIsOnline
  BY DEF Announced, ConnectedIsOnline
<1> QED
  BY <1>1, <1>2, NextAnnounced, TypeCorrect, PTL DEF Spec

=============================================================================
