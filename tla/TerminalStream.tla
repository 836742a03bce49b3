---------------------------- MODULE TerminalStream ----------------------------
(***************************************************************************)
(* The output of one PTY session, from the shell to the browsers' screens. *)
(* The reader thread (Terminals::Session#start) takes a chunk, appends it  *)
(* to the scrollback, then broadcasts it.  A browser that subscribes       *)
(* (TerminalChannel#subscribed) asks for the stream, which Action Cable    *)
(* connects later on its event loop, and is sent the scrollback at once;   *)
(* terminal_controller.js resets its terminal when the scrollback arrives  *)
(* and writes every other chunk where the cursor is.                       *)
(*                                                                         *)
(* A broadcast is published to Redis, as cable.yml has it in production,   *)
(* and comes back to Puma's listener, which hands it to the streams that   *)
(* are connected then.  The listener subscribes to a session's channel for *)
(* its first stream and unsubscribes after its last.  The async adapter of *)
(* development is the case where Redis does all that at once.  Redis does  *)
(* not fail here.                                                          *)
(*                                                                         *)
(* A chunk, what one read_nonblock returns, is its number in the output.   *)
(* A WebSocket is in order and does not lose what it carries while it      *)
(* stands, so sending to a browser and its reaction are one step.          *)
(***************************************************************************)
EXTENDS Naturals, Sequences, FiniteSets, SequencesExt

CONSTANTS
  Clients,    \* browser tabs
  Cap,        \* SCROLLBACK_CAP, in chunks
  MaxChunks,  \* a bound: how many chunks the shell prints
  MaxOrders,  \* a bound: commands on their way to Redis
  PoolSize    \* Action Cable's workers: that many deliveries run at once

ASSUME ConstantsOK ==
  /\ Cap \in Nat \ {0}
  /\ MaxChunks \in Nat
  /\ MaxOrders \in Nat \ {0}
  /\ PoolSize \in Nat \ {0}

VARIABLES
  printed,     \* chunks the shell has written to the PTY
  listed,      \* the session is in SESSIONS
  closed,      \* @closed
  rpc,         \* where the reader thread is
  taken,       \* chunks the reader has read
  sent,        \* chunks it has published
  scrollback,  \* @scrollback
  carries,     \* whether Redis has the channel's subscription: now, and after
               \* each command on its way there
  bus,         \* published chunks on their way back to the listener
  phase,       \* of each client: "away", "replay" (subscribed, scrollback not
               \* sent yet) or "live"
  joined,      \* its stream_from handler is one of the listener's subscribers
  pipe,        \* its broadcasts handed to the worker pool
  screen,      \* its terminal
  replayAt,    \* history: chunks in the scrollback it was sent
  heardAt,     \* history: chunks published before those it may still be given
  joinAt       \* history: chunks published before its stream was effective

readerVars == <<rpc, taken, sent, scrollback>>
redisVars == <<carries, bus>>
clientVars == <<phase, joined, pipe, screen, replayAt, heardAt, joinAt>>
vars == <<printed, listed, closed, readerVars, redisVars, clientVars>>

Chunks == 1 .. MaxChunks

TypeOK ==
  /\ printed \in 0 .. MaxChunks
  /\ listed \in BOOLEAN
  /\ closed \in BOOLEAN
  /\ rpc \in {"read", "append", "broadcast", "dead"}
  /\ taken \in 0 .. printed
  /\ sent \in 0 .. MaxChunks
  /\ scrollback \in Seq(Chunks)
  /\ carries \in Seq(BOOLEAN) \ {<<>>}
  /\ bus \in Seq(Chunks)
  /\ phase \in [Clients -> {"away", "replay", "live"}]
  /\ joined \in [Clients -> BOOLEAN]
  /\ pipe \in [Clients -> Seq(Chunks)]
  /\ screen \in [Clients -> Seq(Chunks)]
  /\ replayAt \in [Clients -> 0 .. MaxChunks]
  /\ heardAt \in [Clients -> 0 .. MaxChunks]
  /\ joinAt \in [Clients -> 0 .. MaxChunks]

Init ==
  /\ printed = 0
  /\ listed = TRUE
  /\ closed = FALSE
  /\ rpc = "read"
  /\ taken = 0
  /\ sent = 0
  /\ scrollback = <<>>
  /\ carries = <<FALSE>>
  /\ bus = <<>>
  /\ phase = [c \in Clients |-> "away"]
  /\ joined = [c \in Clients |-> FALSE]
  /\ pipe = [c \in Clients |-> <<>>]
  /\ screen = [c \in Clients |-> <<>>]
  /\ replayAt = [c \in Clients |-> 0]
  /\ heardAt = [c \in Clients |-> 0]
  /\ joinAt = [c \in Clients |-> 0]

-----------------------------------------------------------------------------
(* The shell.                                                              *)

\* What is printed to a PTY that nobody reads any more is left out.
ShellPrints ==
  /\ rpc # "dead"
  /\ printed < MaxChunks
  /\ printed' = printed + 1
  /\ UNCHANGED <<listed, closed, readerVars, redisVars, clientVars>>

-----------------------------------------------------------------------------
(* The reader thread.                                                      *)

\* Mutant: the last chunk waits for one more.
HasOutput_KeepsLast == taken + 1 < printed

HasOutput == taken < printed

\* Mutant: a chunk is broadcast and never appended.
AfterRead_Broadcast == "broadcast"

AfterRead == "append"

\* @master.read_nonblock(4096), after as many waits as it takes
Read ==
  /\ rpc = "read"
  /\ HasOutput
  /\ taken' = taken + 1
  /\ rpc' = AfterRead
  /\ UNCHANGED <<printed, listed, closed, sent, scrollback, redisVars,
                 clientVars>>

\* @scrollback.bytesize > SCROLLBACK_CAP, after the append
Overfull == Len(scrollback) >= Cap

\* append_scrollback.  To trim, it calls replace with the Array of the bytes
\* to keep, which raises TypeError: the chunk stays in, the thread ends, the
\* ensure sets @closed, and the chunk is not broadcast.
AppendScrollback ==
  /\ rpc = "append"
  /\ scrollback' = Append(scrollback, taken)
  /\ \/ /\ Overfull
        /\ rpc' = "dead"
        /\ closed' = TRUE
     \/ /\ ~ Overfull
        /\ rpc' = "broadcast"
        /\ UNCHANGED closed
  /\ UNCHANGED <<printed, listed, taken, sent, redisVars, clientVars>>

\* broadcast_output: the chunk is published, and lost if Redis has no
\* subscription of Puma's to its channel.
BroadcastOutput ==
  /\ rpc = "broadcast"
  /\ sent' = taken
  /\ bus' = IF Head(carries) THEN Append(bus, taken) ELSE bus
  /\ rpc' = "read"
  /\ UNCHANGED <<printed, listed, closed, taken, scrollback, carries,
                 clientVars>>

\* The shell has exited and its output is drained: read_nonblock raises
\* Errno::EIO on Linux, which the StandardError branch raises again.  No notice
\* is sent.
ReadFails ==
  /\ rpc = "read"
  /\ taken = printed
  /\ rpc' = "dead"
  /\ closed' = TRUE
  /\ UNCHANGED <<printed, listed, taken, sent, scrollback, redisVars,
                 clientVars>>

\* Session.kill or the reaper: the entry goes, the reader is killed wherever
\* it is, the shell gets TERM; see TerminalSessions for the steps.
Kill ==
  /\ listed
  /\ listed' = FALSE
  /\ closed' = TRUE
  /\ rpc' = "dead"
  /\ UNCHANGED <<printed, taken, sent, scrollback, redisVars,
                 clientVars>>

-----------------------------------------------------------------------------
(* Action Cable's Redis adapter.                                           *)

\* The next command reaches Redis.  With the last one the subscription is what
\* the listener wants, and every stream connected to it is effective.
RedisObeys ==
  /\ Len(carries) > 1
  /\ carries' = Tail(carries)
  /\ joinAt' = IF Len(carries) = 2
                 THEN [c \in Clients |-> IF joined[c] THEN sent ELSE joinAt[c]]
                 ELSE joinAt
  /\ UNCHANGED <<printed, listed, closed, readerVars, bus, phase, joined,
                 pipe, screen, replayAt, heardAt>>

\* Mutant: one connection takes the broadcasts of the others.
Receivers_One == IF \E c \in Clients : joined[c]
                   THEN {CHOOSE c \in Clients : joined[c]} ELSE {}

Receivers == {c \in Clients : joined[c]}

\* A chunk comes back: the listener hands it to the handler of every stream
\* connected now, which queues it for the worker pool.
Listen ==
  /\ bus # <<>>
  /\ bus' = Tail(bus)
  /\ pipe' = [c \in Clients |->
               IF c \in Receivers THEN Append(pipe[c], Head(bus)) ELSE pipe[c]]
  /\ UNCHANGED <<printed, listed, closed, readerVars, carries, phase, joined,
                 screen, replayAt, heardAt, joinAt>>

-----------------------------------------------------------------------------
(* TerminalChannel and terminal_controller.js.                             *)

\* subscribed up to stream_from, for a session that is found.  A tab that
\* comes back still shows what it showed.
Subscribe(c) ==
  /\ phase[c] = "away"
  /\ listed
  /\ phase' = [phase EXCEPT ![c] = "replay"]
  /\ UNCHANGED <<printed, listed, closed, readerVars, redisVars, joined, pipe,
                 screen, replayAt, heardAt, joinAt>>

\* Chunks that came back from Redis, or never will
Heard == IF bus = <<>> THEN sent ELSE Head(bus) - 1

NobodyElse(c) == \A d \in Clients \ {c} : ~ joined[d]

\* A subscription or its end is sent to Redis, where room is left by the bound.
Order(wanted) ==
  /\ Len(carries) <= MaxOrders
  /\ carries' = Append(carries, wanted)

\* The event loop gets to pubsub.subscribe: the stream is connected at once,
\* and effective at once unless it is the first or commands are on their way.
Join(c) ==
  /\ phase[c] # "away"
  /\ ~ joined[c]
  /\ joined' = [joined EXCEPT ![c] = TRUE]
  /\ heardAt' = [heardAt EXCEPT ![c] = Heard]
  /\ \/ /\ NobodyElse(c)
        /\ Order(TRUE)
        /\ UNCHANGED joinAt
     \/ /\ ~ NobodyElse(c)
        /\ joinAt' = [joinAt EXCEPT ![c] = sent]
        /\ UNCHANGED carries
  /\ UNCHANGED <<printed, listed, closed, readerVars, bus, phase, pipe, screen,
                 replayAt>>

\* Mutant: the controller does not reset the terminal.
Cleared_Kept(c) == screen[c]

\* terminal.reset()
Cleared(c) == <<>>

\* transmit({ type: "scrollback", ... }); the browser resets and writes it.
Replay(c) ==
  /\ phase[c] = "replay"
  /\ phase' = [phase EXCEPT ![c] = "live"]
  /\ screen' = [screen EXCEPT ![c] = Cleared(c) \o scrollback]
  /\ replayAt' = [replayAt EXCEPT ![c] = Len(scrollback)]
  /\ UNCHANGED <<printed, listed, closed, readerVars, redisVars, joined, pipe,
                 heardAt, joinAt>>

\* A worker transmits the i-th queued chunk and the browser writes it.  The
\* workers overlap: the first PoolSize chunks arrive in any order.
Deliver(c, i) ==
  /\ i <= Len(pipe[c]) /\ i <= PoolSize
  /\ screen' = [screen EXCEPT ![c] = Append(@, pipe[c][i])]
  /\ pipe' = [pipe EXCEPT ![c] = RemoveAt(@, i)]
  /\ UNCHANGED <<printed, listed, closed, readerVars, redisVars, phase, joined,
                 replayAt, heardAt, joinAt>>

\* The tab goes away or the connection breaks: Action Cable drops what is
\* queued for it, and unsubscribed leaves the session alone.  The last stream
\* of the channel ends its subscription.
Disconnect(c) ==
  /\ phase[c] # "away"
  /\ phase' = [phase EXCEPT ![c] = "away"]
  /\ joined' = [joined EXCEPT ![c] = FALSE]
  /\ pipe' = [pipe EXCEPT ![c] = <<>>]
  /\ replayAt' = [replayAt EXCEPT ![c] = 0]
  /\ heardAt' = [heardAt EXCEPT ![c] = 0]
  /\ joinAt' = [joinAt EXCEPT ![c] = 0]
  /\ IF joined[c] /\ NobodyElse(c) THEN Order(FALSE) ELSE UNCHANGED carries
  /\ UNCHANGED <<printed, listed, closed, readerVars, bus, screen>>

-----------------------------------------------------------------------------
Reader == Read \/ AppendScrollback \/ BroadcastOutput

Next ==
  \/ ShellPrints
  \/ Reader
  \/ ReadFails
  \/ Kill
  \/ RedisObeys
  \/ Listen
  \/ \E c \in Clients :
       \/ Subscribe(c)
       \/ Join(c)
       \/ Replay(c)
       \/ \E i \in 1 .. PoolSize : Deliver(c, i)
       \/ Disconnect(c)

Spec == Init /\ [][Next]_vars

\* The reader thread, the listener and Action Cable's workers run.  Shells,
\* users and networks promise nothing, and no shell has to exit.
Fairness ==
  /\ WF_vars(Reader)
  /\ WF_vars(Listen)
  /\ \A c \in Clients : WF_vars(Deliver(c, 1))

FairSpec == Spec /\ Fairness

-----------------------------------------------------------------------------
(* Properties that hold.                                                   *)

\* The scrollback outgrows its cap by one chunk at most, and only by ending
\* the reader.
OverCapOnlyAtTheEnd ==
  /\ Len(scrollback) <= Cap + 1
  /\ Len(scrollback) > Cap => rpc = "dead"

\* The scrollback holds the output from its first chunk, in order and without
\* a gap, and a chunk is in it before anyone is sent it: so the replay covers
\* whatever a subscriber missed before.
ScrollbackIsOutput ==
  /\ \A i \in 1 .. Len(scrollback) : scrollback[i] = i
  /\ Len(scrollback) \in {taken, taken - 1}
  /\ sent <= Len(scrollback)

Shows(c, n) == \E i \in 1 .. Len(screen[c]) : screen[c][i] = n
Queued(c, n) == \E i \in 1 .. Len(pipe[c]) : pipe[c][i] = n
Coming(n) == \E i \in 1 .. Len(bus) : bus[i] = n
Copies(c, n) ==
  Cardinality({i \in 1 .. Len(screen[c]) : screen[c][i] = n})
    + Cardinality({i \in 1 .. Len(pipe[c]) : pipe[c][i] = n})

\* The stream of a client gets whatever is published from now on.
Effective(c) == joined[c] /\ Len(carries) = 1

\* A live browser misses a chunk of the published output only if the chunk was
\* appended after its replay and published before its stream was effective.
\* Later chunks all reach it, in spite of reconnections, of the order in which
\* Redis gets its commands, and of the pool.
LostOnlyWhileJoining ==
  \A c \in Clients : phase[c] = "live" =>
    \A n \in 1 .. sent :
      \/ Shows(c, n)
      \/ Queued(c, n)
      \/ joined[c] /\ Coming(n)
      \/ replayAt[c] < n /\ (Effective(c) => n <= joinAt[c])

\* A live browser is given a chunk twice only if it was appended before its
\* replay and came back from Redis after its stream was connected, and never
\* three times.
TwiceOnlyWhileJoining ==
  \A c \in Clients : phase[c] = "live" =>
    \A n \in 1 .. taken :
      /\ Copies(c, n) <= 2
      /\ Copies(c, n) = 2 => heardAt[c] < n /\ n <= replayAt[c]

\* A shell that falls silent, as MaxChunks makes it, is shown in full by every
\* live browser whose stream is effective, from what was published since then,
\* unless the session is closed or the browser leaves.
ShownSince(c) == \A n \in joinAt[c] + 1 .. printed : Shows(c, n)

OutputShown ==
  \A c \in Clients :
    phase[c] = "live" /\ Effective(c)
    ~> ShownSince(c) \/ phase[c] # "live" \/ closed

-----------------------------------------------------------------------------
(* Properties the code does not keep; see "findings" in the README.        *)

\* "Append to the ring buffer with a hard 64KB cap."
ScrollbackCapped == Len(scrollback) <= Cap
=============================================================================
