# Verification of Multipass WebUI

TLA+ models of [multipass-webui](../src), the Rails application that drives
Canonical Multipass from a browser: what its threads, jobs and browsers do to
shared state, checked by TLC on small instances; every safety property a run
checks is proved by TLAPS for every instance as well.

Run a check with `tlc -config X.cfg MCModule.tla`, a proof with
`tlapm Module_proofs.tla`. `PROJECT.json` lists the runs, what each definition
translates (file and lines), the mutants that show each property can fail, the
hazards and the theorems.

## 1. The system

Two processes share an SQLite database: **Puma** (`multipass-webui.service`),
which serves HTTP and Action Cable on a few threads and keeps terminal sessions
in its memory, and **bin/jobs** (`multipass-webui-worker.service`), Solid Queue,
which runs the recurring jobs of `config/recurring.yml` on three threads. With
`SOLID_QUEUE_IN_PUMA` Puma starts Solid Queue itself, but in a process that it
forks (the plugin's default, which nothing in `config/` changes). In every
configuration of the repository the jobs have memory of their own. In production
Action Cable's broadcasts go through **Redis** (`config/cable.yml`). Both processes
call the `multipass` command line, one process per command; `multipassd` decides
what it accepts.

| Part | State it keeps | Operations | Interacts with |
| --- | --- | --- | --- |
| Terminal session registry (`terminals/session.rb`, `shell_sessions_controller.rb`, `VmsController#console`, `reap_idle_sessions_job.rb`) | `SESSIONS`, `SESSIONS_MUTEX`; per session `@closed`, `@master`, `@slave`, `@pid`, the reader thread | open, find, kill, for_vm, reap | PTY, shell process, audit log |
| Terminal output (`start`, `append_scrollback`, `broadcast_output`, `terminal_channel.rb`, `terminal_controller.js`) | scrollback, cable subscriptions, the browser's screen | read, append, broadcast, subscribe, replay, show | Redis, Action Cable's event loop and worker pool |
| Terminal connection and input (the bundled Action Cable consumer, `terminal_controller.js`, `TerminalChannel#subscribed` and `#receive`, `Session#write`) | the socket, the monitor's times, `subscriptions`, `pendingSubscriptions`, timers; at the server a connection's subscriptions | connect, disconnect, type, resize; open, close, poll, reopen, reload, retry; subscribe, unsubscribe, message | the same |
| Navigation (the bundled Turbo Drive, the pages' links and forms) | history entries, the document, snapshot and prefetch caches, the current visit and form | click, Back, hover, submit, reload; render, redirect, cache | every controller that answers a page or a form |
| Scheduler (`scheduler_tick_job.rb`, `schedule.rb`, `schedules_controller.rb`) | `schedules` rows with `last_fired_at` | tick; create, update, destroy | groups, multipass, audit log |
| VM operations (`vms_controller.rb`, `multipass/vms.rb`, `client.rb`) | none of its own: the VMs | lifecycle, delete, purge, clone, resize, start_all, stop_all, launch | multipassd, audit log |
| Templates and playbooks (`cloudinit.rb`, `playbooks.rb`, their controllers, `copy_for_snap`) | YAML files, one temporary copy per template name | create, update, destroy, show; launch | the file system, multipassd |
| Login (`sessions_controller.rb`, `application_controller.rb`, `session.rb`, `setting.rb`, `api_token.rb`, `sweep_sessions_job.rb`) | `sessions`, `settings`, `api_tokens` rows | login, logout, require_login, sweep, mint, revoke, change of password | everything behind `require_login` |
| Import (`lib/tasks/migrate_from_go.rake`) | all tables | one transaction, then events line by line | the web application running meanwhile |
| Audit log (`event.rb`) | `events` rows | `emit!` | all of the above |
| Profiles, webhooks, groups, VM defaults | rows | CRUD | import, scheduler |
| Snapshots, mounts, transfers, images, networks, SSH keys, host resources | none | one command and its parsing each | multipass |
| Polling (`polling_controller.js`), CodeMirror and modal controllers, rate limiting (`rack_attack.rb`) | timers; an editor; a library's counters | | |

**What is hard here**, and what makes each part correct:

* *Registry.* Requests, reader threads and a job work on one session without a
  common lock; kill takes a mutex it already holds; the session is listed before
  it has a shell. What leaves the hash must be killed, the mutex must come free,
  the audit log must be true.
* *Output.* The replay and the stream are not synchronised. A tab may miss or
  repeat output only while it joins; the scrollback is the output, capped.
* *Connection.* Four timers, the socket's events and the pages that come and go
  act on one list of subscriptions, and the server runs the commands of a
  connection on several workers. Page and server must come to agree, a terminal
  must not say "connecting" for ever, and the server must not drop what a
  connected terminal typed.
* *Navigation.* A visit is a chain of callbacks that a click, Back or a form may
  cut between any two; caches hold pages from before a form. Nothing older may
  come back, a snapshot must be its address's, and the tab must come to rest on
  its address's page.
* *Scheduler.* A tick reads `last_fired_at` long before it tests it, ticks
  overlap, schedules are edited under it. At most one firing per minute, none
  skipped, and events that say what happened.
* *VM operations.* Commands fail one by one, others change VMs meanwhile. An ok
  must be true; a change must be logged.
* *Files.* `File.write` is not atomic and launches share a copy.
* *Login.* Lookup, check and action are separate statements; the settings row is
  created by whoever comes first.
* *Import.* It crashes anywhere and is run again on edited rows.

The hazards are listed line by line in `PROJECT.json`.

## 2. The modules

A step of a model is the code between two points where something else can run: a
lock, a system call, a database statement, a command, the end of a request.

### TerminalSessions, SessionLedger

`SESSIONS` and `order` are the hash and its insertion order, `mutex` the holder
of `SESSIONS_MUTEX`; `vm`, `closed`, `master`, `shell` and `reader` are
a session's instance variables (`@slave` is seen only by a start or a kill under
way, and is left out); `pc`, `at` and `via` say where each request
thread and the reaper are. `CreateRequest`, `ConsoleRequest` and `DestroyRequest`
are the controllers; `Register`, `PtyOpen`, `Spawn`, `StartReader` are
`Session.open`; `KillLock`, `KillBody`, `KillClose` are `Session.kill`, including
its early return and the `ThreadError` of the ensure; a shell whose `@pid` is
assigned after `kill` has looked for it is "late"; `ReapStart`, `ReapVisit`, `KillDelete`,
`ReapEnd` the job; `ReaderEnds` and `ReaderCrashes` the reader thread.
`ReaperInPuma` lets the job see Puma's `SESSIONS`. No configuration of the
repository does; the runs and proofs allow it, which only adds behaviours (those
of `perform_now` in Puma, or of an async queue). `audit` holds the `open_shell` and
`close_shell` events. A restart of Puma empties the memory.

`SessionLedger` is what a client may rely on: an id is opened once, what ended
stays ended, what left the list stays off it, a restart leaves nothing.
`KeepsLedger` is the refinement: `listed` is `SESSIONS`, `opened` the ids ever
inserted, `over` the closed sessions.

### TerminalStream

One session's output: `printed` chunks from the shell, `taken` by the reader,
`scrollback`, `sent` to Redis; `bus` is what is on its way from Redis back to
Puma's listener, and `carries` whether Redis has the channel's subscription, now
and after each of the commands that are on their way to it. Per tab there are its
`phase`, whether its stream is connected at the listener (`joined`), the `pipe` of
deliveries on the worker pool and the `screen`. The listener hands a chunk to the
streams connected when it comes *back* (`Listen`), so a second tab gets chunks
published before it joined, while the first tab's stream is not effective
(`Effective`) until its subscription has reached Redis (`RedisObeys`). The async
adapter of development is the special case in which `bus` and `carries` are worked
off at once. `replayAt`, `heardAt` and `joinAt` are history: what the replay held,
what had come back when the stream was connected, what had been published when it
became effective. A chunk is its number; the cap is counted in chunks.

### CableClient

The browser's end of the terminal. `ws` is the current socket's `readyState`,
`quiet` and `recent` are the two comparisons the monitor makes with the clock
(`connectionIsStale`, `disconnectedRecently`), `reopenings` the timers of
`reopen`, `listed`, `pending` and `retry` the subscriptions, the guarantor's
list and its timer, `status` what each terminal shows. `up` and `down` are the
commands and messages under way on the socket, `subs` the identifiers the server
has subscribed on it, `alive` the sessions in `SESSIONS`. A terminal is the
controller of one console page; `Connect` and `Disconnect` are Stimulus',
`Input` and `SizeTimer` what it sends. `Opened`, `Closed`, `ServerRestarts`,
`Receive...` are the socket's events, `Poll`, `Refocus`, `ReopenTimer`,
`RetryTimer` the timers. The server's worker pool takes any of the first
`PoolSize` commands (`Execute`). `told`, `crossed` and `refused` are history: who
was told "connected" on this socket, whose commands overtook each other, whose
input the server executed and dropped for want of a subscription. What is typed
while the socket is not open, and what is in `up` when it closes, is gone and is
not recorded there.

### Navigation

One tab. `trail` and `at` are the history entries, `doc` what is shown (a page,
an error page, a document without the application) with the version of the data
in it, `last` is `lastRenderedLocation`, `cache` the snapshots, `visit` and
`form` the navigator's. A visit's fields are those of Turbo's `Visit`: where it
goes, the snapshot it found, what the next frame renders (`frame`), whether it
has shown its address (`shown`) and cached the page it leaves (`kept`).
`Handle...` are the controllers, which answer a page, a redirect, an exception's
page, or JSON that Turbo cannot show (the forms of a console page are "Close
session", which is always answered so, and the layout's "Sign out", which
redirects); `Frame...` are the animation frames,
`Receive...` the answers. A click, Back, a form or the end of a form may come
between any two of them. `known`, `cut` and `left` are history: the newest page
a form led to, a visit cut half-way, a preview whose visit was given up.

### SchedulerTick

Rows (`state`, `plan`, `last`), and for each worker the tick it runs: its `now`,
the snapshot `copy` of the rows it loaded, the schedules `todo`, the one it is
at. `TickStart`, `Consider`, `Record`, `Resolve`, `Operate`, `EmitEvent` and
`TickEnd` are `perform`; `TickDies` is an exception that nothing rescues;
`CreateSchedule`, `UpdateSchedule` and `DestroySchedule` are the controller.
Time is counted in minutes with a calendar given by constants, so that "the same
minute of another day" and "the same day of another month" can happen. `runs`,
`acts` and `overlap` are history: firings, operations, and the minutes in which
ticks overlapped.

### AuditLedger

What the audit log promises of a *job*, which is whatever operates on VMs and then
says so: nothing is done but in the name of a job under way, the job writes one
Event at most, after the last thing it does, and the Event's result is what came
of it. Two modules implement it (`KeepsAudit` in each). In SchedulerTick a job is
the firing of a schedule in a minute: `begun` are the firings recorded in minutes
in which no ticks overlapped (`Fired`), `good` and `bad` those with an operation
that succeeded or failed (`Went`), `told` the Events. That a firing of an
overlapped minute is forgotten is finding 4. In VmOperations a job is a request,
from the moment it is received until it is answered; a job may end without an
Event, and `OnlyTheseGoUnlogged` says which do.

### VmOperations

Every action of `VmsController` that runs a command: a request, its plan of
commands (`PlanOf`), commands accepted or refused one at a time, the Event and
the answer. `multipassd` is external: a command may be refused although the state
allows it, and guests power off by themselves. `Resizes` says which of the three
fields a resize may give: any sets of them in the proofs, none or all in the run.
`done`, `failed`, `others` are history.

### TemplateFiles

`disk` and `tmp` are the files, a save is `OpenFile` (which truncates) and
`WriteFile`, a launch is `CopyRead`, `CopyOpen`, `CopyWrite`, `RunLaunch`,
`CleanUp`. A file that is unlinked under a writer takes its bytes along
(`linked`). Half-written or overlapping contents are one value, `Broken`.
`spoiled`, `leaked` and `touched` are history: which files' saves overlapped or
failed, which copies were left behind, whose file another request touched.

### LoginSessions

Tables (`settings`, `sessions` with `expires`, `keys`) and requests that walk
through `require_login` (`FindSession`, `CheckExpiry`, `Reap`, `FindKey`) and
then through their action, one statement a step, with the sweep and the clock in
between. `Setting.current` is `LoadSetting` and `Seed`, so two first requests
create two rows. `ended`, `late`, `valid` and `beaten` are history. A request
carries one credential; a username and its password are one value.

### Migration, ConfigImport

`db` is the committed tables, `tx` what the open transaction sees (Rails opens
SQLite transactions in immediate mode, so the web application's writes wait),
`events` the lines imported. `ImportRecord` takes the records in the task's
order: settings and defaults are overwritten, everything else is found or
created. `RollBack` and `Crash` leave the transaction; `SkipLine` and
`LineAborts` are what the loop over events.jsonl does rescue and does not. Its
definitions are named apart from LoginSessions' (`ImportInit`, `ImportNext`,
`importVars`), so that one module of proofs can extend both.

`ConfigImport` is what somebody who looks at the tables may rely on: config.json
comes in as one step, which gives rows only to keys the file names, keeps those it
finds but the settings and the defaults, and leaves no assignment to a group that
is not there; lines are logged after it. `ImportsAtOnce` is the refinement: the
steps of an open transaction, its rollback and a crash map to stutters, and the
commit alone to `Import`, which must then hold of everything the transaction did
to rows that users edited between the runs.

## 3. The runs

The largest run (LoginSessions, 4.5 million states) takes about a minute on two
workers, the others no longer. A deadlock is checked where
the system cannot stop (`VmOperations`, `TemplateFiles`); elsewhere the bounded
inputs (ids used up, the last minute, the last chunk, the last run of the task)
end a behaviour, and `CHECK_DEADLOCK FALSE` says so.

| Run | Bounds | What it shows |
| --- | --- | --- |
| TerminalSessions | 1 VM, 2 ids, 2 request threads, a reaper that sees `SESSIONS` | what leaves the hash is killed and in which two cases its shell runs on, the audit log is true, SessionLedger is implemented |
| TerminalSessionsLive | 1 id, 2 threads, the same reaper, fairness | every request is answered, a kill takes effect although it is answered with an error, a shell's exit is noticed |
| TerminalStream | 2 tabs, cap 2, 3 chunks, pool of 2, 1 command at a time on its way to Redis, fairness | what can be lost or repeated, that the scrollback is the output, and that output arrives |
| SchedulerTick | 1 schedule with 3 plans, 2 workers, 2 minutes, 4 VMs | one firing per minute unless ticks overlap, none skipped, events and records true, AuditLedger is implemented |
| VmOperations | 2 VMs, 2 requests at a time, resizes of no or all three fields | bulk answers and events are true, which changes go unlogged, AuditLedger is implemented |
| TemplateFiles | 1 template, 1 playbook, 3 contents, 2 requests at a time | what is saved is on disk, files are whole, launches get their template, copies are removed |
| LoginSessions | 2 threads, 2 sessions, 1 API token, 2 passwords, TTL 1 of 3 moments, every session issued in time to expire | the ended stays out, the live stays in, one password is in force |
| Migration | 3 runs, 9 records (no webhook, which comes in as a profile does), logs of up to 5 lines | all or nothing, complete when it says so, edits kept, ConfigImport is implemented |
| CableClient | 2 pages of one session, 2 sockets, 1 reopening timer, workers 2, 1 input, fairness | page and server agree on the subscriptions, no terminal says "connected" over a closed socket, every one says at last what it is, input of a connected terminal is not dropped by the server that executes it |
| Navigation | the host's page, a VM's and its console, 4 acts of the user, 1 change of the data, fairness | nothing older after a form, snapshots under their address, the tab comes to rest |
| KillReplied, ScrollbackCapped | as above | the findings of section 4 |

The type invariants of every module but LoginSessions, and `MutexHeldByKiller`,
`LiveReaderHasMaster` and `OverCapOnlyAtTheEnd`, are proved for every instance (section 5) and are not
checked again by a run.

*Why the bounds are enough.* Every race here is between two actors about one
object: two requests, a request and the reaper, two ticks, a tab and the reader.
Two sessions are needed for the reaper to iterate over one while another is
inserted or deleted; a third chunk for the cap to be passed with a full
scrollback; two minutes with the same clock for a stale `last_fired_at`; two VMs
for a bulk operation that half fails; a resize of all three fields for every place
at which one can fail half-way; three moments for a session to live, to
expire and to be swept; two passwords and two first requests for two settings
rows; one command on its way to Redis for a chunk published before the first tab's
subscription is there, or after the last one's has ended; three runs for a crash, an edited rerun and another; two pages of one
session for one identifier used by one page after the other, and a second socket for everything
that reopening can do to the first's; three locations, of which one redirects to
another, so that a form may lead to its own page or to another, and four acts for a
form between a cached page and Back to it. One schedule suffices
for the tick's properties, which are about each schedule by itself, except that a
tick passes over others: with a snapshot of one schedule that part of
`NothingDueIsSkipped` rests on the groups and days of the plans. Its plans are due
on one day each (two VMs; a playbook for a group that is not there) or daily (an
empty group), and an edit may swap them at any moment.

*Symmetry.* Threads, workers, tokens and interchangeable contents are permuted
in runs of invariants and of step properties; never in runs with liveness.

*Fairness.* `TerminalSessions`: strong fairness of each request's next step (Ruby
schedules every runnable thread, and an unlock wakes the thread waiting longest)
and weak fairness of the reader and the reaper. `TerminalStream`: weak fairness
of the reader, of Redis's listener and of Action Cable's workers; not of the event
loop or of commands to Redis, since `OutputShown` starts from a stream that is
effective. `CableClient`: weak
fairness of every timer, of the socket's own events (an attempt to connect or to
close ends), of the messages received and of the first command at the server; not
of failures, restarts, the user or a session's end. `Navigation`: weak fairness
of the server's answers (the browser gives up on one that does not come) and of
animation frames, which `Visit.render` replaces by a timer in a hidden tab.
Nothing is assumed of
users, shells, guests, networks or multipassd.

*The properties that need a word.* `LostOnlyWhileJoining` and
`TwiceOnlyWhileJoining` do not say that nothing is lost or doubled: the code
does both while a tab joins; they say that this is the only place. The two windows
differ: a chunk is lost if it is appended after the replay and published before
the stream is effective, and doubled if it is in the replay and comes back from
Redis after the stream is connected, whenever it was published.
`RemovedIsKilled` does not say that no shell outlives its kill, but names the two
ways in which one does (finding 15).
`OnceUnlessOverlap` excludes the minutes in which ticks overlapped, where
a schedule can fire twice. `OnlyTheseGoUnlogged` lists the gaps of the audit log.
`NothingDueIsSkipped` allows the skip that the guard's lack of a month causes.
`InputAccepted` is about input that the server executes, not about input that its
socket lost. `ListsAgree`, `InputAccepted` and CableClient's `Settles` exempt the identifiers whose commands
the server's workers ran in another order than they were sent, and show that this
is the only way for page and server to part. Navigation's `CacheIsItsPage` and
`Settles` exempt what follows a visit cut between two of its own changes
(`cut`), and allow a preview to stay only as finding 11 says. `CopyIsCleanedUp` and
`WholeUnlessSpoiled` name the failures after which a file is not clean.

## 4. Findings

Disagreements between the code and what the repository says of it (1 to 8), and
what else the models showed: of the browser's side (9 to 14, 16), of a kill (15)
and of the scheduler (17). 1 and 3 have a run that shows them.

1. **KillReplied.** `Session.kill` holds `SESSIONS_MUTEX` when `Session#kill`'s
   ensure locks it again: `ThreadError`, the DELETE answers 500 and logs no
   `close_shell`. The request spec expects 200 and stubs the method.
2. "Kills sessions idle > 30 min" (`recurring.yml:12-13`): the reaper looks at the
   `SESSIONS` of its own process, which is empty in `bin/jobs` and in the process
   that Puma's plugin forks, so nothing is ever reaped (`Visible` with
   `ReaperInPuma` FALSE: `ReapStart` is never enabled). If it saw Puma's, it would
   reap by `created_at`, without the subscriber count that
   `reap_idle_sessions_job.rb:3-7` relies on, and kill terminals that are in use.
3. **ScrollbackCapped.** `String#replace` with an Array raises `TypeError` at the
   first byte past 64 KiB: the reader dies and the terminal goes silent.
4. Overlapping ticks fire a schedule twice in a minute, where
   `scheduler_tick_job.rb:7` says that `last_fired_at` prevents it
   (`OnceUnlessOverlap` needs its exception).
5. `VmsController` says that every state-changing action emits an Event; purge,
   start_all, stop_all and a half-failed resize do not (`OnlyTheseGoUnlogged`
   names exactly these and an Event that could not be saved).
6. The router takes the `.yml` of a template's or playbook's name for a format, so
   edit, update and delete of a user's file are refused, where the README
   promises full CRUD (`NameOK` in TemplateFiles).
7. Invalid YAML raises `Psych::SyntaxError`, which nobody rescues: a 500, where
   `cloudinit.rb` promises an `ArgumentError` (`Refusals`).
8. A schedule for a group that does not exist operates on every VM that has an
   assignment without a group (`TargetsOf`).
9. The initial size (`terminal_controller.js:43`) is sent before the subscription
   exists, and so not at all; the one 50 ms later is dropped when the socket is
   not open by then, and the shell keeps the PTY's default size until the window
   is resized (`Connect`, `SizeTimer`). The status the
   controller sets is outside its element (`console.html.erb:12`), so none of its
   texts is seen.
10. Commands of one connection run on several workers: an unsubscribe that
   overtakes the next page's subscribe, or the other way round, leaves a terminal
   "connecting" for good, or its input dropped (`crossed`). The server answers no
   second subscribe, so the guarantor cannot help.
11. `render_error` answers JSON to Turbo's forms where it means a redirect with an
   alert, so a failed operation shows nothing; so does "Close session", which has
   no other answer. A form gives up the visit under way before it asks to be
   confirmed: refused, it leaves a preview for the page (`left`).
12. Turbo prefetches a hovered link, and the GET of a console page opens a session:
   pointing at "Open terminal" spawns a shell.
13. `Session#write` takes any five bytes or more that start with 0x01 for a size: a
   paste that starts with Ctrl-A sets the window's size instead.
14. A page with an editor that is restored from the cache holds the old editor's
   elements and makes a second (`codemirror_controller.js`).
15. A kill may leave the shell running, where nothing of the application finds it
   again (`RemovedIsKilled` names both cases). If the reader has crashed (as in
   finding 3), `@closed` is true already and `kill` returns before it sends TERM
   (`session.rb:135`). If `kill` runs between `SESSIONS[id] = sess` and the
   assignment of `@pid`, it finds no process to signal, and `start` goes on. The
   PTY's master is closed in both cases, so a shell that reads its input may end by
   itself.
16. Input typed while the socket is not open is dropped without a word
   (`sendBytes` does not look at what `perform` returns), and two keystrokes that
   are on their way together may reach the PTY in either order, since the workers
   run them concurrently (`Execute`).
17. A schedule that last fired on the same day of an earlier month is skipped
   (`scheduler_tick_job.rb:55`; `NothingDueIsSkipped` allows it).

## 5. The proofs

All for arbitrary constants, under the assumptions each module states of them
(`ConstantsOK`, `ClientAssumption`, `NoneIsNoVisit`, `ConfigOK`: distinct names,
positive bounds, finite sets of ids and of VMs, a file that is a sequence of
records or lines). Each component has a module of proofs, named after it; those
of LoginSessions and Migration, which both go through the tables statement by
statement, share `Database_proofs`. The refinements (`KeepsLedgerAlways`, `KeepsAuditAlways`,
`ImportsAtOnceAlways`) each show that the initial states map to initial states and
that every step maps to one step of the abstract specification or to a stutter.

**TerminalSessions_proofs.** Three layers, each inductive given those before. (1)
Types. (2) `Places` (only request threads open, kill and answer; only the reaper
iterates) with `MutexHeldByKiller`: needed because the mutex is given up on an
exception path, so that "locked" must be tied to a place in the program. (3)
`Registered`, `AtSession`, `OpeningApart`, `ShellsEnded`: what is known of a
session at each place of each thread working on it (listed before it has a master;
opened by one thread only; closed by the time its kill closes the PTY) and of its
shell once it is closed, with `RemovedIsKilled` and `LiveReaderHasMaster`, which
are not inductive without them.
`AuditIsTrue` follows over these layers. `KeepsLedgerAlways` shows that `Init`
maps to `Ledger!Init` and every step to a step of the ledger or a stutter, action
by action.

**TerminalStream_proofs.** `ReaderPlace` ties the counters of the reader (taken,
sent, length of the scrollback) to its place; with types it makes
`ScrollbackIsOutput` and `OverCapOnlyAtTheEnd` inductive, for any number of
commands on their way to Redis. `BusInOrder`: what comes back was published, in
that order. `LostOnlyWhileJoining` needs in addition that the last command sent to
Redis is what the connected streams want (`Wanted`), so that a chunk published
while a stream is effective is never lost there, and what a tab's pipe and screen keep when one delivery is taken
out of the middle (`RemoveAtKeepsOthers`, `RemoveAtHas`, `AppendHas`).
`TwiceOnlyWhileJoining` counts: a tab's screen and pipe together never hold more
copies of a chunk than its replay (`Replayed`) and its stream (`Due`: what came
back since it was connected) owe it (`TwiceInvOf`), whichever delivery a worker takes out of the pipe (`RemoveAtCount`).

**SchedulerTick_proofs.** `OnceUnlessOverlap` needs history tied to rows and
snapshots: in a clean minute whatever fired is on record until the minute is over
(`OnRecord`), a tick under way in that minute is past it or has it in its snapshot
(`SeenByTick`), is not behind it (`NotBehind`) and will not come back to the
schedule it records (`LookedAt`). `RecordedBeforeActing` rests on the same.
`NothingDueIsSkipped` says the same of what a tick has gone past in the middle of
its loop (`PassedOver`, with `Handled` for the schedule at hand). `EventTellsOutcome`
follows `acts` through a firing: nothing before it is resolved (`NoNewsYet`), then
what the worker has counted so far (`TellsSoFar`), and in a clean minute no other
worker adds to it (`OnlyOneClean`, by `OnceInv`). `KeepsAuditAlways` takes these
invariants to AuditLedger: a clean firing under way has written no Event yet
(`UnderWay`), so that `Operate` is `Succeed` or `Fail` of its job (`OperateActs`),
`EmitEvent` is a `Tell` that is true of it (`EmitTells`), and the tick that meets
another forgets the jobs of its minute (`OverlapForgets`).

**CableClient_proofs.** `ListsAgree` speaks of a moment at which nothing is on its
way, so the invariant behind it has to say what is known while something is:
`Will(i, n)` is whether `i` is subscribed once the commands before the `n`-th are
executed in turn. `Knows` says of every identifier whose commands were not crossed
that it will be subscribed when the page lists it (or is yet to be rejected, or to
be reloaded by the welcome), and will not when the page does not; `Heard` says that
an input of a connected terminal comes after its subscription, from which
`InputAccepted` follows. Both need `Greeting`: nothing precedes the welcome, and
whoever was rejected is dead. The work is in `WillLater` and `WillEarlier`: what
taking the `k`-th command out of the middle, in any order the workers choose, does
to that forecast for the commands on either side. `ConnectedIsOnline` needs
`Announced`, which ties what terminals say to `Connection.disconnected`.

**Navigation_proofs.** Three layers, the first under both others. (1) Types, with
`Frames`: a frame finds what it is to render. (2) `Fresh`: what is shown, kept
and on its way, and what a form will be answered with, is as new as `known`;
`Answering` is needed for the moment at which `known` grows, where everything
still kept must already be as new as the page about to be shown. (3) `Places`:
the document is of the address rendered last, which is the one shown when no
visit runs; what a visit has got is of its location (`OfVisit`), a form is its
document's (`OfForm`), and the visit that only shows a redirect's address has its
page rendered (`Behind`). It holds until a visit is cut.

**VmOperations_proofs.** A request's commands are its own; only the VMs are shared.
`OnPlan` says that what a request did and what is to come are its plan until
something is refused, `BulkShared` that each task of a bulk request is done,
refused or to come, and one of these only (with `Once`: no task is to come twice,
without which a task done could be refused later), and `Told` what an Event, or
its absence, means. `BulkHolds` ties the VMs to it: what a bulk request did is
still so unless `others` names the VM, which every step of somebody else keeps up
(`Notices`). The lemmas `HeadOff`, `ElemsAppend`, `Carried` and `Listing` are about
taking a sequence apart and about `SetToSeq`, and are why the VMs must be finite.
`KeepsAuditAlways` needs of them `Told`, which makes an Event true of its request
(`AnswerTells`), and that before it is answered a request has written none
(`NothingTold`), so that its commands are still done in its name (`RunActs`).

**TemplateFiles_proofs.** The base is types and what each place of a request
knows (`Places`). A request that nobody touched finds its file and its copy as it left
them (`Undisturbed`, shown once for every step of another); `SavedInv` and
`LaunchInv` carry what a request has written, read and copied from there to its
answer. `CopyInv` accounts for every copy (somebody's, or leaked), `WholeInv` for
every file that is not whole: exactly one writer is between the two halves of its
save.

**Database_proofs.** *LoginSessions:* `Places` says what each place of a request
knows of its credential and of the settings row; `Grounds`, that nothing is issued
before there is such a row, lets a request rely on it being the first.
`RevokedStaysOut` needs that what ended is in no table again (`EndedInv`) and that
a late request never gets past its lookup (`LateInv`); `LiveSessionsKept` that a
lookup about to reap has seen its session expired (`ReapsExpired`: the clock does
not go back); `IssuedForPassword` and `ChangeTakesEffect` follow the digest that was
read, and the row that was found, to the answer (`PassInv`, `ChangeInv`): two
first requests may add two rows, but `Setting.first` stays the same.
*Migration:* `TxInv` says what an open transaction has written and what it still
sees of the user's rows; at the commit it becomes `AllOrNothing` and `EditsKept`.
`LinesInv` says which lines are in, so that `CompleteIsComplete` holds at the end.
`ImportsAtOnceAlways` needs more of the open transaction, `TxPromise`: keys the
config does not name are as they were committed (`Unwritten`), so are rows found and
not replaced (`FoundKept`), what differs is what the file offers (`Taken`), and an
assignment that came has its group (`Grouped`, kept because groups are imported
before assignments and never deleted by the task). At the commit these four are
`Import`'s conditions (`CommitImports`).

| Theorem | Of |
| --- | --- |
| `TypeCorrect`, `MutexHeldByKillerAlways`, `RemovedIsKilledAlways`, `LiveReaderHasMasterAlways`, `AuditIsTrueAlways`, `KeepsLedgerAlways` | TerminalSessions |
| `TypeCorrect`, `OverCapOnlyAtTheEndAlways`, `ScrollbackIsOutputAlways`, `LostOnlyWhileJoiningAlways`, `TwiceOnlyWhileJoiningAlways` | TerminalStream |
| `TypeCorrect`, `OnceUnlessOverlapAlways`, `RecordedBeforeActingAlways`, `NothingDueIsSkippedAlways`, `EventTellsOutcomeAlways`, `KeepsAuditAlways` | SchedulerTick |
| `TypeCorrect`, `ListsAgreeAlways`, `InputAcceptedAlways`, `ConnectedIsOnlineAlways` | CableClient |
| `TypeCorrect`, `NothingOlderAlways`, `CacheIsItsPageAlways` | Navigation |
| `TypeCorrect`, `BulkTriesAllAlways`, `BulkOkIsTrueAlways`, `EventIsTrueAlways`, `OnlyTheseGoUnloggedAlways`, `KeepsAuditAlways` | VmOperations |
| `TypeCorrect`, `CopyIsCleanedUpAlways`, `SavedIsOnDiskAlways`, `LaunchGetsTemplateAlways`, `WholeUnlessSpoiledAlways` | TemplateFiles |
| `TypeCorrect`, `RevokedStaysOutAlways`, `LiveSessionsKeptAlways`, `IssuedForPasswordAlways`, `ChangeTakesEffectAlways` | LoginSessions |
| `ImportTypeCorrect`, `AllOrNothingAlways`, `CompleteIsCompleteAlways`, `EditsKeptAlways`, `ImportsAtOnceAlways` | Migration |

*Only model-checked:* the liveness properties (`OutputShown`, and those of
TerminalSessions, CableClient and Navigation): the prover has no rules for fairness
and `ENABLED`. That multipassd, the browser and the databases behave as their
external definitions say is assumed by the runs and the proofs alike.

## 6. Not modelled, and why

* Polling of the dashboard: its controller never connects. `GET /tree`, which
  would carry it, always fails (`hosts/_tree.html.erb:47` nests `<%=` in a string,
  `:60` calls `spike_path`, which no route defines) and has no turbo-frame.
* The rest of the JavaScript bundle, by far most of the lines in the repository:
  xterm.js, CodeMirror and its parsers, js-yaml and Stimulus are libraries that
  keep nothing this application relies on across steps. Of the bundle, CableClient
  and Navigation model the two libraries whose state machines the application
  runs on, Action Cable and Turbo Drive.
* Of Turbo: frames, streams, morphing, view transitions, the eviction of the
  eleventh snapshot, and documents the browser keeps itself (its back/forward
  cache). Of Action Cable: the growth of the polling interval, what the server
  still does for a socket that was replaced, and the subscription that
  `channels/terminal_channel.js` makes on every page, which is always rejected.
* Parsing of sizes and of multipass's output: planned, see below.
* Snapshots, mounts, transfers, images, networks, SSH keys: one command each, and
  no controller calls them in this version.
* Webhook delivery: `Event#dispatch_webhooks` is empty; the test button is one
  POST.
* Rate limiting: two declarations for a library.
* Views, forms, wording, logging; the network below a WebSocket.
* Bytes: a chunk, a file's content, a password are values that can only be
  compared.

## 7. The plan

Done, in this order: TerminalSessions with SessionLedger, TerminalStream,
SchedulerTick, each with its proofs; then VmOperations, TemplateFiles,
LoginSessions, Migration; then the browser's side, CableClient and Navigation,
each with its proofs; then the proofs of VmOperations, TemplateFiles,
LoginSessions and Migration; then AuditLedger and ConfigImport, and the proofs that
VmOperations, SchedulerTick and Migration implement them.

Next, extending the model:

1. **CableClient** with TerminalStream's output on the same subscriptions, so that
   what a terminal misses while a socket is reopened is counted.
2. **Navigation** with the sidebar's frame, once `GET /tree` answers, and then
   Polling.
3. **Units**: `format_bytes`, `parse_memory_to_mb`, `parse_disk_to_gb` as
   operators, checked against exact arithmetic over bounded inputs.
4. Two schedules in SchedulerTick, with fewer plans, for a tick that passes over
   one to reach the other.

Then, proving more: the new properties of these.
