---------------------------- MODULE CableClient ----------------------------
(***************************************************************************)
(* The browser's end of the terminal: the Action Cable consumer (monitor,  *)
(* connection, subscriptions, guarantor) as it is bundled, the terminal    *)
(* controller that uses it, and as much of the server as answers it.       *)
(*                                                                         *)
(* Times are abstracted to the comparisons the code makes with them: quiet *)
(* is connectionIsStale(), recent is disconnectedRecently().  A socket     *)
(* that open() replaces has its handlers uninstalled, so only the current  *)
(* one has a state; what the server still does for an older one changes    *)
(* nothing the page can see.                                               *)
(***************************************************************************)
EXTENDS Naturals, SequencesExt

CONSTANTS Pages,        \* console pages shown, each with a terminal controller
          Session,      \* the terminal session each of them names
          PoolSize,     \* commands of a connection the server's workers hold
          MaxSockets,   \* bound: sockets opened; nothing fails on the last
          MaxTimers,    \* bound: reopenings waiting for their delay
          MaxUp,        \* bound: on their way when the guarantor sends again
          MaxInputs     \* bound: inputs on their way when one more is typed

\* A controller is named by its place in the order they connect.
Terminals == 1..Pages

ASSUME ClientAssumption ==
    /\ Session \in [Terminals -> STRING]
    /\ {Pages, PoolSize, MaxSockets, MaxTimers, MaxUp, MaxInputs} \subseteq Nat \ {0}

VARIABLES
    ws,            \* readyState of the current socket
    sock,          \* how many sockets were opened
    disconnected,  \* Connection.disconnected
    quiet,         \* no message for longer than the stale threshold
    recent,        \* the last onclose is more recent than the threshold
    reopenings,    \* timers that will call open()
    listed,        \* Subscriptions.subscriptions, whose order decides nothing
    pending,       \* SubscriptionGuarantor.pendingSubscriptions
    retry,         \* the guarantor's timer is running
    status,        \* what each terminal on the page shows; new, gone: not on it
    sizeDue,       \* terminals whose 50 ms timer has not fired
    up,            \* commands the server has not executed
    down,          \* messages the browser has not received
    greeted,       \* the server has welcomed the current socket
    subs,          \* identifiers subscribed on it, at the server
    alive,         \* sessions in the server's registry
    told,          \* history: terminals confirmed on the current socket
    crossed,       \* history: identifiers whose commands overtook each other
    refused        \* history: identifiers of inputs of told terminals that the
                   \* server executed on this socket and dropped

socketVars == <<ws, sock, disconnected, quiet, recent, reopenings>>
listVars   == <<listed, pending, retry>>
pageVars   == <<status, sizeDue>>
serverVars == <<greeted, subs, alive>>
vars == <<socketVars, listVars, pageVars, up, down, serverVars, told, crossed, refused>>

\* The identifier of a terminal's subscription object.
Ident(c) == Session[c]
Idents   == {Ident(c) : c \in Terminals}

IsActive == ws \in {"connecting", "open"}
FindAll(i) == {c \in listed : Ident(c) = i}
Commands == [cmd : {"subscribe", "unsubscribe", "input"},
             ident : Idents, told : BOOLEAN]
Messages == [type : {"welcome"}] \cup [type : {"confirm", "reject"}, ident : Idents]

Texts == {"connecting", "connected", "disconnected", "rejected"}
OnPage(c) == status[c] \in Texts

TypeOK ==
    /\ ws \in {"connecting", "open", "closing", "closed"}
    /\ sock \in 1..MaxSockets /\ reopenings \in 0..MaxTimers
    /\ disconnected \in BOOLEAN /\ quiet \in BOOLEAN /\ recent \in BOOLEAN
    /\ retry \in BOOLEAN /\ greeted \in BOOLEAN
    /\ listed \subseteq Terminals /\ pending \subseteq listed
    /\ status \in [Terminals -> {"new", "gone"} \cup Texts]
    /\ sizeDue \subseteq Terminals /\ told \subseteq Terminals
    /\ up \in Seq(Commands) /\ down \in Seq(Messages)
    /\ subs \subseteq Idents /\ alive \subseteq Idents
    /\ crossed \subseteq Idents /\ refused \subseteq Idents

-----------------------------------------------------------------------------
(* Sending: a socket that is not open takes nothing.                       *)

Command(cmd, c) == [cmd |-> cmd, ident |-> Ident(c), told |-> c \in told]

\* What is on its way of input, or of the rest.
Inputs(is) == SelectSeq(up, LAMBDA c : (c.cmd = "input") = is)

Send(commands) == up' = IF ws = "open" THEN up \o commands ELSE up


\* SubscriptionGuarantor.forget.
Forget(os) == pending' = pending \ os

\* The commands that subscribe os, one after the other.
Subscribes(os) ==
    [k \in DOMAIN SetToSeq(os) |-> Command("subscribe", SetToSeq(os)[k])]

\* Subscriptions.subscribe for each of os in turn, with its guarantee.
SubscribeAll(os) ==
    /\ Send(Subscribes(os))
    /\ pending' = IF ws = "open" THEN pending \cup os ELSE pending
    /\ retry' = (retry \/ (ws = "open" /\ os # {}))

\* notify(identifier, ...) and notifyAll: what the terminals listed show.
Show(os, text) ==
    status' = [c \in Terminals |-> IF c \in os THEN text ELSE status[c]]

\* new WebSocket: the old one's handlers, and what was on its way, are gone.
\* The commands in up, input among them, may or may not be executed still; the
\* page does not send input again.
NewSocket ==
    /\ sock < MaxSockets
    /\ sock' = sock + 1 /\ ws' = "connecting"
    /\ up' = <<>> /\ down' = <<>>
    /\ greeted' = FALSE /\ subs' = {}
    /\ told' = {} /\ crossed' = {} /\ refused' = {}

\* Connection.open: nothing when a socket is connecting or open.
OpenSocket ==
    \/ ~IsActive /\ NewSocket
    \/ IsActive /\ UNCHANGED <<sock, ws, up, down, greeted, subs, told, crossed, refused>>

\* Connection.reopen: an open socket is closed, one that is connecting is
\* left alone, and open() is called again after reopenDelay.
Reopen ==
    \/ /\ IsActive
       /\ ws = "open" => sock < MaxSockets
       /\ ws' = IF ws = "open" THEN "closing" ELSE ws
       /\ reopenings < MaxTimers
       /\ reopenings' = reopenings + 1
       /\ UNCHANGED <<sock, up, down, greeted, subs, told, crossed, refused>>
    \/ /\ ~IsActive
       /\ OpenSocket
       /\ UNCHANGED reopenings

\* The page is loaded: channels/terminal_channel.js, which is loaded with every
\* page, has opened the first socket.  Its own subscription, which names no
\* session, is a terminal's whose session is gone, and is left out.
Init ==
    /\ ws = "connecting" /\ sock = 1 /\ disconnected = TRUE
    /\ quiet = FALSE /\ recent = FALSE /\ reopenings = 0
    /\ listed = {} /\ pending = {} /\ retry = FALSE
    /\ status = [c \in Terminals |-> "new"]
    /\ sizeDue = {} /\ up = <<>> /\ down = <<>>
    /\ greeted = FALSE /\ subs = {}
    /\ alive \in SUBSET Idents
    /\ told = {} /\ crossed = {} /\ refused = {}

-----------------------------------------------------------------------------
(* The terminal controller.                                                *)

\* connect(): the first sendResize() finds no subscription and sends nothing;
\* then the subscription is added, which opens a socket when none is active.
\* Stimulus disconnects the page that is replaced before it connects this one.
Connect(c) ==
    /\ status[c] = "new" /\ \A d \in 1..(c - 1) : status[d] = "gone"
    /\ status' = [status EXCEPT ![c] = "connecting"]
    /\ sizeDue' = sizeDue \cup {c}
    /\ listed' = listed \cup {c}
    /\ \/ IsActive /\ SubscribeAll({c})
          /\ UNCHANGED <<sock, ws, down, greeted, subs, told, crossed, refused>>
       \/ ~IsActive /\ OpenSocket /\ UNCHANGED <<pending, retry>>
    /\ UNCHANGED <<disconnected, quiet, recent, reopenings, alive>>

\* Mutant: the last object of an identifier goes without a word to the server.
SendUnsubscribe_Forgotten(o) == UNCHANGED up

\* Subscriptions.remove: unsubscribes when no other object has the identifier.
SendUnsubscribe(o) ==
    IF FindAll(Ident(o)) \subseteq {o}
    THEN Send(<<Command("unsubscribe", o)>>)
    ELSE UNCHANGED up

Unsubscribe(o) ==
    /\ listed' = listed \ {o}
    /\ Forget({o})
    /\ SendUnsubscribe(o)

Disconnect(c) ==
    /\ OnPage(c)
    /\ status' = [status EXCEPT ![c] = "gone"]
    /\ told' = told \ {c}
    /\ Unsubscribe(c)
    /\ UNCHANGED <<socketVars, retry, sizeDue, down, serverVars, crossed, refused>>

\* A key, or a new size of the window: what is typed while the socket is not
\* open is dropped without a word (perform's answer is not looked at).
Input(c) ==
    /\ OnPage(c) /\ ws = "open" /\ Len(Inputs(TRUE)) < MaxInputs
    /\ Send(<<Command("input", c)>>)
    /\ UNCHANGED <<socketVars, listVars, pageVars, down, serverVars, told, crossed, refused>>

\* The 50 ms timer; it outlives the controller that set it.
SizeTimer(c) ==
    /\ c \in sizeDue
    /\ sizeDue' = sizeDue \ {c}
    /\ Send(<<Command("input", c)>>)
    /\ UNCHANGED <<socketVars, listVars, status, down, serverVars, told, crossed, refused>>

-----------------------------------------------------------------------------
(* The socket and the monitor.                                             *)

\* Mutant: the terminals are told as soon as the socket opens.
Opened_Connected ==
    /\ ws = "connecting" /\ ws' = "open" /\ disconnected' = FALSE
    /\ Show(listed, "connected") /\ told' = listed
    /\ UNCHANGED <<sock, quiet, recent, reopenings, listVars, sizeDue, up, down,
                   serverVars, crossed, refused>>

\* Mutant: a socket that opens leaves the flag of the last loss as it is.
Opened_StillLost ==
    /\ ws = "connecting" /\ ws' = "open"
    /\ UNCHANGED <<sock, disconnected, quiet, recent, reopenings, listVars, pageVars,
                   up, down, serverVars, told, crossed, refused>>

Opened ==
    /\ ws = "connecting" /\ ws' = "open" /\ disconnected' = FALSE
    /\ UNCHANGED <<sock, quiet, recent, reopenings, listVars, pageVars, up, down,
                   serverVars, told, crossed, refused>>

\* onclose: of a socket that was being closed, or of one that failed.  The
\* page is told unless it knows (the socket never opened since the last time).
Closed ==
    /\ \/ ws = "closing"
       \/ IsActive /\ sock < MaxSockets
    /\ ws' = "closed" /\ disconnected' = TRUE
    /\ IF disconnected
       THEN UNCHANGED <<recent, status>>
       ELSE recent' = TRUE /\ Show(listed, "disconnected")
    /\ UNCHANGED <<sock, quiet, reopenings, listVars, sizeDue, up, down,
                   serverVars, told, crossed, refused>>

\* The server restarts its connections: disconnect, with reconnect true.
ServerRestarts ==
    /\ ws = "open" /\ sock < MaxSockets
    /\ ws' = "closing" /\ quiet' = FALSE
    /\ UNCHANGED <<sock, disconnected, recent, reopenings, listVars, pageVars, up, down,
                   serverVars, told, crossed, refused>>

\* Six seconds without a message, and six seconds since onclose.
Silence ==
    /\ ~quiet /\ (IsActive => sock < MaxSockets)
    /\ quiet' = TRUE
    /\ UNCHANGED <<ws, sock, disconnected, recent, reopenings, listVars, pageVars, up, down,
                   serverVars, told, crossed, refused>>

RecentEnds ==
    /\ recent /\ recent' = FALSE
    /\ UNCHANGED <<ws, sock, disconnected, quiet, reopenings, listVars, pageVars, up, down,
                   serverVars, told, crossed, refused>>

\* The monitor's poll, and the 200 ms after the tab becomes visible.
Poll ==
    /\ quiet /\ ~recent /\ Reopen
    /\ UNCHANGED <<disconnected, quiet, recent, listVars, pageVars, alive>>

Refocus ==
    /\ quiet \/ ws # "open"
    /\ Reopen
    /\ UNCHANGED <<disconnected, quiet, recent, listVars, pageVars, alive>>

ReopenTimer ==
    /\ reopenings > 0 /\ reopenings' = reopenings - 1
    /\ OpenSocket
    /\ UNCHANGED <<disconnected, quiet, recent, listVars, pageVars, alive>>

\* The guarantor's 500 ms: subscribes what is pending again, and starts again
\* only if that could be sent.
RetryTimer ==
    /\ retry /\ Len(Inputs(FALSE)) + Len(down) < MaxUp
    /\ Send(Subscribes(pending))
    /\ retry' = (ws = "open" /\ pending # {})
    /\ UNCHANGED <<socketVars, listed, pending, pageVars, down, serverVars, told, crossed, refused>>

-----------------------------------------------------------------------------
(* Messages received; none is delivered once the socket is closing.        *)

Receiving(type) ==
    /\ ws = "open" /\ down # <<>> /\ Head(down).type = type
    /\ down' = Tail(down)
    /\ quiet' = FALSE
    /\ UNCHANGED <<ws, sock, disconnected, reopenings, sizeDue, serverVars, crossed, refused>>

\* Mutant: a new socket is not told what is subscribed.
Reload_Dropped == UNCHANGED <<up, pending, retry>>

\* Subscriptions.reload.
Reload == SubscribeAll(listed)

ReceiveWelcome ==
    /\ Receiving("welcome")
    /\ recent' = FALSE
    /\ Reload
    /\ UNCHANGED <<listed, status, told>>

ReceiveConfirm ==
    /\ Receiving("confirm")
    /\ LET os == FindAll(Head(down).ident)
       IN Forget(os) /\ Show(os, "connected") /\ told' = told \cup os
    /\ UNCHANGED <<recent, listed, retry, up>>

\* reject: the page's objects of that identifier are forgotten.
ReceiveReject ==
    /\ Receiving("reject")
    /\ LET os == FindAll(Head(down).ident)
       IN /\ listed' = listed \ os
          /\ Forget(os)
          /\ Show(os, "rejected") /\ told' = told \ os
    /\ UNCHANGED <<recent, retry, up>>

ReceivePing ==
    /\ ws = "open" /\ greeted /\ down = <<>> /\ quiet
    /\ quiet' = FALSE
    /\ UNCHANGED <<ws, sock, disconnected, recent, reopenings, listVars, pageVars, up, down,
                   serverVars, told, crossed, refused>>

-----------------------------------------------------------------------------
(* The server: it welcomes a socket, then its workers execute the commands *)
(* of the connection, PoolSize at a time and so in any order among those.  *)

Welcome ==
    /\ ws = "open" /\ ~greeted
    /\ greeted' = TRUE
    /\ down' = Append(down, [type |-> "welcome"])
    /\ UNCHANGED <<socketVars, listVars, pageVars, up, subs, alive, told, crossed, refused>>

\* TerminalChannel#subscribed; a second subscribe is ignored, unanswered.
Subscribed(i) ==
    IF i \in subs THEN UNCHANGED <<subs, down>>
    ELSE /\ subs' = IF i \in alive THEN subs \cup {i} ELSE subs
         /\ down' = Append(down, [type |-> IF i \in alive THEN "confirm" ELSE "reject",
                                  ident |-> i])

\* TerminalChannel#receive: dropped when there is no such subscription, and
\* by Session#write when the session is closed.
Received(c) ==
    refused' = IF c.told /\ c.ident \in alive \ subs THEN refused \cup {c.ident} ELSE refused

\* Two commands of an identifier do not commute unless both are input.
Crosses(k) ==
    \E j \in 1..(k - 1) : /\ up[j].ident = up[k].ident
                          /\ {up[j].cmd, up[k].cmd} # {"input"}

Execute(k) ==
    /\ ws = "open" /\ greeted
    /\ k <= Len(up) /\ k <= PoolSize
    /\ up' = RemoveAt(up, k)
    /\ crossed' = IF Crosses(k) THEN crossed \cup {up[k].ident} ELSE crossed
    /\ \/ /\ up[k].cmd = "subscribe"
          /\ Subscribed(up[k].ident) /\ UNCHANGED refused
       \/ /\ up[k].cmd = "unsubscribe"
          /\ subs' = subs \ {up[k].ident} /\ UNCHANGED <<down, refused>>
       \/ /\ up[k].cmd = "input"
          /\ Received(up[k]) /\ UNCHANGED <<subs, down>>
    /\ UNCHANGED <<socketVars, listVars, pageVars, greeted, alive, told>>

\* The session is killed or reaped: its subscription stays.
SessionEnds(i) ==
    /\ i \in alive /\ alive' = alive \ {i}
    /\ UNCHANGED <<socketVars, listVars, pageVars, up, down, greeted, subs,
                   told, crossed, refused>>

-----------------------------------------------------------------------------
Next ==
    \/ \E c \in Terminals : Connect(c) \/ Disconnect(c) \/ Input(c) \/ SizeTimer(c)
    \/ Opened \/ Closed \/ ServerRestarts \/ Silence \/ RecentEnds
    \/ Poll \/ Refocus \/ ReopenTimer \/ RetryTimer
    \/ ReceiveWelcome \/ ReceiveConfirm \/ ReceiveReject \/ ReceivePing
    \/ Welcome
    \/ \E k \in 1..PoolSize : Execute(k)
    \/ \E i \in Idents : SessionEnds(i)

\* Timers fire, the server works, an attempt to connect or to close ends, and
\* the time the monitor measures passes.  What a user does is not forced.
Fairness ==
    /\ WF_vars(Opened) /\ WF_vars(ws = "closing" /\ Closed)
    /\ WF_vars(~IsActive /\ Silence) /\ WF_vars(RecentEnds)
    /\ WF_vars(Poll) /\ WF_vars(ReopenTimer) /\ WF_vars(RetryTimer)
    /\ WF_vars(ReceiveWelcome) /\ WF_vars(ReceiveConfirm) /\ WF_vars(ReceiveReject)
    /\ WF_vars(Welcome) /\ WF_vars(Execute(1))
    /\ \A c \in Terminals : WF_vars(SizeTimer(c))

Spec == Init /\ [][Next]_vars
FairSpec == Spec /\ Fairness

-----------------------------------------------------------------------------
(* What should hold.                                                       *)

InFlight(i) == \/ \E k \in DOMAIN up : up[k].ident = i
               \/ \E k \in DOMAIN down : down[k].type = "welcome" \/ down[k].ident = i

\* When a welcomed socket has nothing on its way for an identifier, the
\* server is subscribed to exactly what the page lists: through reopened
\* sockets, repeated subscribes and pages that replace each other only the
\* server's workers, crossing two commands of it, can set them apart.
\* (Subscriptions add, remove, reload, reject.)
ListsAgree ==
    ws = "open" /\ greeted =>
        \A i \in Idents \ crossed : ~InFlight(i) => (i \in subs <=> FindAll(i) # {})

\* When the server comes to execute input that a terminal sent after it was told
\* "connected" on this socket, it finds the subscription and does not drop the
\* input, unless its workers crossed commands of that identifier: whatever was
\* subscribed, unsubscribed and subscribed again for earlier pages meanwhile.
\* It does not say that what is typed arrives: input typed while the socket is
\* not open, or not executed when the socket closes, is lost.
\* (terminal_controller sendBytes; Subscriptions#find at the server.)
InputAccepted == refused \subseteq crossed

\* No terminal says "connected" over a closed socket, although a loss is told
\* once only, to those then listed, and not at all of a socket whose handlers
\* open() took away.  (Connection events open and close, Connection.open.)
ConnectedIsOnline == ws = "closed" => \A c \in Terminals : status[c] # "connected"

\* Every terminal on the page comes to say for good that it is rejected, or
\* that it is connected and the server is subscribed; where the server's
\* workers crossed its commands it may say "connecting" for ever.
\* (ConnectionMonitor, reopen, reload, the guarantor.)
Settles ==
    <>[](\A c \in Terminals : OnPage(c) =>
            \/ status[c] = "rejected"
            \/ status[c] = "connected" /\ Ident(c) \in subs
            \/ Ident(c) \in crossed)
=============================================================================
