# A verification of AgentDockControl

TLA+ models of the AgentDockControl server, the TLC configurations that check
them on small instances, and theorems about them that TLAPS checks for every
value of the constants. The models are translated from the Python source.
Paths are relative to the repository, e.g. `src/server.py`.

Contents: [1 The system](#1-the-system) ·
[2 How Python became TLA+](#2-how-python-became-tla) ·
[3 The modules](#3-the-modules) · [4 The runs](#4-the-runs) ·
[5 Fairness](#5-fairness) · [6 What is proved](#6-what-is-proved) ·
[7 Disagreements found](#7-disagreements-found) ·
[8 What is only model-checked](#8-what-is-only-model-checked) ·
[9 What is not modelled](#9-what-is-not-modelled) · [10 The plan](#10-the-plan)

## 1 The system

One Python process (FastAPI, python-socketio, aiosqlite) stands between agents'
daemons on remote machines and a web console. Daemons connect over Socket.IO,
register their machine and report sessions and messages; the web calls REST
endpoints and Socket.IO events that the server relays to the daemons. A
scheduler sends prompts by cron expressions. Everything runs on one asyncio
event loop, and every statement goes through one SQLite connection with one
worker thread.

| component | source | state | operations |
|---|---|---|---|
| Circuit breaker | `hardening.py` 110-280, 540-599 | `_state`, `_failures`, `_open_since`, `_half_open_used` of each breaker | allow_request, record_success, record_failure, reset, stats, the call guarded by them |
| RPC relay | `server.py` 1558-1650, 1840-1870, rpc-call | `pending_rpcs` (id -> future), the set `machine_sids[m]` it iterates over | dispatch_rpc_to_daemon, on_user_input, on_rpc_call |
| Machine presence | `server.py` 165-330, `storage.py` 300-410, `hardening.py` ReconnectManager | `connected_daemons`, `machine_sids`, `machines.active`, backoff attempts, status events | connect, disconnect, machine-register, machine-heartbeat, restart |
| Message log | `storage.py` 550-640, `server.py` message handlers | table `messages`, key (session_id, seq) | store_message, get_messages, message, batch-message, POST /v1/messages/send |
| Sessions | `server.py` 335-434, 1272-1462, 1752-1819, `storage.py` 414-545 | `sessions` table with its metadata JSON, `session_owners` | create, spawn, alive, end, stop, abort, answer, permission, switch, reset |
| Scheduler | `scheduler.py` 163-555, `server.py` 2007-2115 | tasks, executions, consecutive failures, last run | loop, dispatch, manual run, task API |
| Cron expressions | `scheduler.py` 38-157 | none | parse, match, next match |
| Pairing and tokens | `server.py` 827-1118, `storage.py` 154-292, 646-699 | pairing requests, tokens | request, respond, exchange, deliver, auth, verify |
| RpcDispatcher | `rpc_handler.py` 84-421 | a second table of pending calls | dispatch, resolve, reap; nothing in `server.py` uses it |
| Web console | `static/js/app.js` | selected machine, session, messages | fetches and event handlers |
| Encryption | `crypto.py`, `app.js` 370-390 | none | sealing and opening envelopes |
| History and statistics | `storage.py` 703-1022 | history rows | inserts, aggregates |
| HTTP middleware | `hardening.py` 440-531 | none | errors to answers, request timeout |

How they interact. `dispatch_rpc_to_daemon` calls the breaker of its
(machine, method), which calls back into the relay's coroutine; the relay reads
the presence component's live set of sockets while connect and disconnect change
it; a daemon's reply comes back as an `rpc-call` event and resolves a future of
the table. `POST /v1/messages/send` stores through the log and forwards over the
same live set. Sessions, scheduler and the web console reach daemons through the
relay only.

What is hard. (a) Every `await` lets other handlers in: tables in memory and
rows in SQLite are read before one and used after it. (b) A Python set iterated
over with awaits in the body raises when it changes size, and goes on unaware
when it does not. (c) Three timers race with replies: the call's own, the
breaker's, and the middleware's. (d) The server can stop between any two
statements, keeping rows but no memory. (e) Error paths run code that no test
runs.

What makes each component correct:

- **Breaker**: it trips on failures that belong together; an open breaker probes again; probing ends.
- **Relay**: a caller is answered exactly once and always; an answer is a reply
  that was accepted for that call; what a finished call leaves behind is known.
- **Presence**: a connected daemon can be reached and is shown as active; one that
  is gone is announced, marked inactive and no longer routed to, but for causes that
  are known.
- **Log**: a message keeps the seq it was given, seqs have no gaps, a client that
  pages gets every message once and in order, no message is lost.
- **Sessions**: requests reach a machine the session can run on; memory and row
  agree but for causes that are known; metadata is lost only to a write from an
  outdated copy; a stop that was confirmed ends the session.
- **Scheduler**: a slot that was served is not run again, what the failure counter counts
  happened, a task that was switched off stops running, and each execution record
  is closed or its remaining open has a known cause.
- **Cron**: the search finds the first time an expression names, and finds none
  only when there is none within its horizon.
- **Pairing**: a token given out is stored, one request yields one token, expires in
  its time and keeps its PIN, unless a handler writes a row that another has written
  since it was read.

`PROJECT.json` lists the hazards one by one, each at its line.

## 2 How Python became TLA+

- **A step is what runs between two awaits**, together with the SQL statement it
  hands to aiosqlite on the way out. The worker runs statements first in, first
  out, so the order of hand-over is the order of effect. `execute` and `commit`
  are two hand-overs on the same connection; a stop between them is the same as a
  stop before the write, and a row written but not committed is visible to the
  other statements of that one connection, so they are one step.
- **A page read takes effect at one instant**: `get_messages` hands over `execute`
  and `fetchall` one after the other. Rows are only ever appended with larger
  keys, so what is fetched is what was there at some instant in between, and the
  model takes any such instant.
- **Time is kept as ages.** Each timestamp of the breaker is only compared with
  one duration; its age saturates there and nothing is lost. The wall clock is
  taken to be monotonic.
- **Tasks.** engine.io awaits the connect and disconnect handlers of one socket in
  line; every other event starts a task of its own.
- **Sets.** Iterating over a set that has changed size raises RuntimeError at the
  next element, past the last one as well; a change that keeps the size is not
  noticed, and whether the newcomer is visited is left open.
- **Python versions.** Before 3.12 `wait_for` runs its coroutine as a task that
  starts in a later turn of the loop; 3.12 awaits it in place. The model allows
  the later start, which includes the immediate one.
- **Header docstrings.** Some source files begin with a docstring that is broken
  over several literals (e.g. `src/server.py:1`); they are read as one docstring.
- **Mutated forms.** An operator that is commented "Mutated" and that no other
  definition uses is a plausible mistake in the operator after it; `PROJECT.json`
  pairs each with the property that notices it.

## 3 The modules

### CircuitBreaker

One breaker (the registry keeps independent ones) and the overlapping calls
`circuit_breaker_call` guards with it. `state`, `failures` (ages, oldest first),
`openFor`, `halfOpenUsed` are the fields of the class; `calls` says which slots
have a call under way and which state admitted it; `streak` is a history variable,
the failures since the last success or reset. `allow_request` is the disjunction
`PassClosed \/ StartProbing \/ PassProbe` and its negation `Blocked`;
`Begin`, `Succeed` and `Fail` are the call's admission and its two ends;
`Reset` and `Stats` are the two endpoints, and `Stats` prunes as the code does.
`record_failure` trips only from CLOSED and `record_success` closes from any state.

### RpcContract and RpcDispatch

`RpcContract` is what a caller is promised: every open call returns or gives up, a
returned reply was accepted, and at most one reply per call is accepted.

`RpcDispatch` is the relay to one machine for one method, with the breaker inside
(`Breaker == INSTANCE CircuitBreaker`, sharing its variables). `members` is the
machine's set of sockets and `link` says which of them are connected; the two
differ, since a member may be gone and a live socket may not have been entered.
`sids` gives the calls whose local name still is that set object (it is dropped
when it empties and a new one is made later), `begun` and
`sent` the loop each call is in, `pending` and `future` the table and its futures,
`inbox` the requests daemons may still reply to: an emission to a socket that is
gone brings none. A call goes
idle -> admitted -> emitting -> waiting -> done, by `Admit`, `StartRpc`,
`EmitNext`, `Await`, `Deliver`; it ends early by `Unreachable`, `Block`,
`Interrupt` (the set changed size), `Expire` and `TimeOut` (its own timer, whose
handler runs in a later turn), `Cancel` (the breaker's timer, in the loop or when
the emissions took too long). `UserInput` is the relay of user-input events, which
has no breaker and emits even to nobody. `Reply` is the `rpc-call` handler.
`Status` maps a call to its contract. The tables of the relay end with the process,
so a behaviour is one life of the server.

### MachineSockets

What the relay needs to know of presence, and no more: one machine's set of
sockets, which a socket joins when it connects (`Open`) or when a registration ends,
be it after the disconnect (`Enter`), and leaves by its own disconnect only
(`Close`). `RpcDispatch` takes these steps as its `Connect`, `Enroll` and
`Disconnect` (`Net == INSTANCE MachineSockets`); `MachinePresence`, whose handlers
write the sets, is shown to keep each machine's set so (`Net(m)`, `SetsAreKept`). The
relay is thus checked over whatever sets presence can make, without the product of
the two state spaces. `Restart` is presence's only.

### MachinePresence

The four records of a machine: `daemon` (`connected_daemons`), `machineSids`,
`row` (`machines.active`), `attempts` (ReconnectManager), and `ui`, the last
status event. `connect` of a daemon is `Announce` or `ConnectUnnamed`; that of any
other client that names a machine is `ConnectUser`, which announces it and enters
nothing, and so is not taken back by a disconnect; `disconnect` is
`Disconnect` up to its await and `GoOffline` after it; `machine-register` is
`RegisterSelect`, then `RegisterUpdate`, `RegisterInsert` or `RegisterClash`, then
`RegisterFinish`; one registration runs at a time on a socket. `Heartbeat` and
`Restart` complete it. `announced`, `registered` and `late` are history, as are the
two that name what the code leaves as it is: `claimed`, the machines whose last
event came from a client that is no daemon, and `rested`, those whose row is active
with no socket to disconnect, since a stop of the server or since a heartbeat of a
daemon that has not registered.
`SetsAreKept` says of every machine's set that it is a `MachineSockets`.

### AppendLog and MessageLog

`AppendLog` is what the log promises: one sequence that only grows, to which each
handler adds its messages in the order of its list, each once, and of which every
client that pages has a beginning.

`MessageLog` has the messages of one session. `rows` is the table as a function from seq to
message; each writer is a handler with a list of messages, `Select` and `Insert`
(or `Clash`) being the two statements of `store_message`, and `Forward` the
emissions that follow in `POST /v1/messages/send`. A reader asks for pages from
the last seq it has (`ReadPage`, with the row beyond the limit from which
`hasMore` comes) and then counts (`CountRows`). `floor` is history. `ImplementsLog` is
the refinement: the table, a function from seq to message, is the sequence, and a
client has the messages of its pages in a row (`Messages`).

### Scheduler

`rows` is `scheduled_tasks` and `executions` is `task_executions`. `loop`,
`wakeAt`, `checkedAt` and `todo` are the position of `_run_loop` and
`check_and_run`: asleep until `wakeAt`, `List` selects the rows, `Check` reads the
clock and keeps the rows that call for something, `Disable` or `RunDue` deals with
one of them, `Sleep` ends the check. `run` gives the position of each runner in
`_execute_task`, the loop's own or that of a manual run: `Spawned`, `Skip` or
`Raised` ends the dispatch, `CountFailure` writes the counter, `StoreRun` writes
`last_run_at`. `AskRun`, `RecordAsked` and `StartAsked` are the three steps of
`POST /v1/tasks/{id}/run`; `Create`, `Patch` and `Delete` are the task API.
`served`, `cut` and `stale` are history.

Where the model is coarser or the code may surprise:

- A cron expression is the set of its times, and a check asks whether one of them is
  after `Base` (the last run, or a day ago), past by now, and `InReach` of a search
  that begins in the minute of the base. That this is what the search of `Cron`
  decides is a theorem (`SearchDecidesDue`).
- `todo` is a set: the order of `created_at` in which rows are dealt with is left
  open.
- `PATCH` takes any of its columns, and the model lets it set all of them, but
  clients are taken to clear `consecutive_failures` and `disabled_reason`, not to
  make them up.
- What the daemon answers is left open: a dispatch ends well or raises, and may
  raise for each of the reasons `RpcDispatch` has.
- A manual run makes two records, one that its answer shows and that stays pending,
  one that says `scheduled`. A run without a machine is skipped before
  `last_run_at` is written, so it is due again at the next check. A successful run
  does not reset `consecutive_failures`, although the docstring of `check_and_run`
  (`scheduler.py:439`) speaks of consecutive failures. The model does as the code
  does in all three.

### Sessions

One step is what runs between two awaits, with the statement it hands over. `rows`
is the table `sessions`, `owners` is `session_owners`, `op` says where each handler
is and what it has read, `gone` which of them the middleware has answered 504 for.
session-create is `CreateSelect`, `Insert` or `Clash`, and `Own`, or `CreateAgain`
and `Provision`; session-end, the stop of the web and session-reset share
`end_session`, which is `End` (or `StopReplied`) for its SELECT, `EndWrite` for its
UPDATE and `Disown` for what follows it; update-session is `UpdateSelect`,
`UpdateWrite` and `Resume`; `UpdateMetadata`, `ProvisionDek` and `Spawn` are one
step each. `Route` is where abort, answer, permission, switch-mode, user-input and
stop are relayed. `GiveUp` is `RequestTimeoutMiddleware`: it cancels its wait, not
the handler. `Restart` keeps the rows only. `spawned`, `written`, `torn` and
`loose` are history.

The data an event carries is left open at the step that uses it. A metadata dict is
the set of its keys, a wrapped key a model value. The tag and `updated_at`, which
rename-session and session-alive write in one statement and nothing here reads,
are left out. Daemons may give no machine id, which stores the empty one.

### Pairing

One public key. `row` is its row of `pairing_requests`, `minted` counts
`auth_tokens`, requests are numbered in the order they were stored (`born`) and
lapse in that order (`lapsed`), since each has the same time to live. pairing/request is
`RequestSelect` and `RequestReuse` or `RequestReplace` (INSERT OR REPLACE, with
another PIN); pairing/respond is `RespondSelect`, then `Expire`, or `Mint` and
`Authorize`; `/v1/auth` with the key of a request that was delivered without a
token is `AuthSelect` and goes on like a response; `Verify` is a token by
signature; `Status`, `Exchange` and `Deliver` write in one step. `stale` holds the
handlers whose row was written since they read it, `crossed` says that one of those
wrote the request, `given` counts the tokens given out for it: all history.

Left out: signatures and challenges, the machine ids that tokens name, the lapse of
tokens, and the per-address breaker of pairing requests, which is asked but told of
no outcome and so stays closed.

### Cron

`next_cron_match` as it runs: `dt`, `n` and `result` are its loop, `Advance` the
carry by hand from minute to year, `Find` and `GiveUp` its two returns. `Values`
and `Field` are `_parse_cron_field` on the parts of a field, `Matches` is
`cron_matches` with Monday as day 0. The calendar is a parameter (`Length` is
`calendar.monthrange`); dates and timestamps are the library's, by counting days.
The library's calendar ends (in 9999) later than any search from the server's clock
comes, which `ClockAssumption` states. Splitting the text and the ValueError of what
is no number are left out.

## 4 The runs

| run | shows | instance |
|---|---|---|
| `breaker` | `TripNeedsStreak`, `OpenEventuallyProbes` | 3 calls, threshold 2, one counted probe, recovery 2, window 3 |
| `breaker_probing` | violates `ProbingEnds` | the same |
| `rpc` | `WaiterRegistered`, `LeakOnlyWhenCutShort`, `ImplementsContract` | 2 guarded calls, 1 user-input, 2 sockets |
| `rpc_answers` | `KeepsFairContract` | 1 guarded call, 1 user-input, 2 sockets |
| `rpc_timeouts` | violates `TimeoutsAnswer504` | as `rpc` |
| `presence` | `LiveStaysRoutable`, `RegisteredStaysActive`, `GhostsExplained`, `OfflineIsAnnounced`, `AbsentIsInactive`, `SetsAreKept`, `HeartbeatRepairs` | 2 machines, 2 sockets |
| `messages` | `StoredUnderItsSeq`, `StoredIsBeginning`, `LastPageIsComplete`, `ImplementsLog` | a batch of 2, 2 single messages, 1 reader, pages of 2 |
| `message_loss` | violates `EachMessageGetsASeq` | the same |
| `scheduler` | `ServedOnce`, `CountedFailuresHappened`, `DisabledHasFailed`, `StaleRunsOnce`, `PendingExplained` | 1 task, 1 manual run, 2 schedules, times 1..3, a look-back of 1 and a reach of 2, breaker at 2 failures, 2 restarts, with 2 records in the last life |
| `sessions` | `RoutedHome`, `OwnersFollowRows`, `MetadataComplete`, `StopsFinish` | 1 session, 2 handlers, 1 machine and 1 daemon without an id, 2 metadata keys, 1 restart |
| `pairing` | `TokensAreStored`, `OneTokenPerRequest`, `ExpiredInTime`, `PinStays` | 3 handlers, 3 requests, 3 tokens, 1 restart |
| `cron` | `FoundIsFirst`, `NoneIsFar` | 108 expressions, each from every second of 2 years of a calendar of 3 years of 2 months |

Each passing run also checks its module's `TypeOK`.

Why the bounds are enough. *Breaker*: a threshold of two keeps one failure from
being a trip; the window outlasts the recovery, as 60 s and 30 s do; three calls
let the probe that opens the probing, a counted probe and a call admitted before
the trip end in any order. `streak` saturates at the threshold, ages at the
durations. *Relay*: a set of two sockets can shrink, empty, grow and be swapped
while either call emits, and hold one that is gone; with a threshold of one, one failure opens the breaker,
so that both guarded calls meet it closed, open and probing. Calls and sockets are
made once; a new one behaves as the first. Symmetry is used where only safety is
checked. *Presence*: two sockets of one machine, one of each, and one socket with
two ids are all instances of two by two; a third socket only repeats the second's
part, because handlers look at one set at a time. *Log*: a clash takes two writers
and hits the first or second message of a list; a reader whose page is half of
what can be stored reads several pages, ends between writes, and meets a page that
ends exactly at the last row. *Scheduler*: tasks share only the loop, and between the
rows it lists and each run the API gets its turn with one row as with many; three
times let the loop run, sleep and run again with the clock passing during a
dispatch; with a reach of two the time 3 is not found from a run at 1; one manual run overlaps the loop's; with a breaker at two failures the
count is stale before it disables. The loop starts with the first restart, since
there are tasks then, so it takes the second to follow a run of the loop or to cut
it. After the second, behaviours are followed until the third record is made
(`FewRecords`): that is a run before the stop, a run after it, and the start of one
more, which is what `ServedOnce` looks at. With one restart all records are
followed; they are bounded by the clock and the manual runs. *Sessions*: sessions share nothing, and two handlers
that overlap are what it takes to outdate a copy, to clash or to overtake an end; a
daemon without an id tells apart the owner in memory and the machine of the row.
*Pairing*: two handlers race for a row while a third replaces it, and the third
request comes after one that lapsed and one that was answered. *Cron*: minutes,
hours, days, months and years all carry, months differ in length, one year is a leap
year, weekdays do not divide a year, and the horizon is a common year as in the
code; expressions have open and closed ends, steps, lists, and a weekday beyond the
week. All but the liveness properties are also proved without bounds.

The runs `messages`, `message_loss`, `scheduler`, `pairing` and `cron` switch the
deadlock check off: writers and readers end, the clock and the requests have a
bound, a search ends, and so the model may stop.

## 5 Fairness

- **Breaker** (`FairSpec`): time passes; each admitted coroutine ends, since both
  `wait_for` calls around it have a timeout; and requests keep being made, which is
  an assumption about clients: an idle breaker stays open, because only
  `allow_request` looks at the clock.
- **Relay** (`FairSpec`): weak fairness of `Step(c)`, the steps of a call that the
  event loop owes it: running a ready coroutine and firing a due timer. Nothing is
  assumed of daemons, sockets, or the breaker's clock.
- **Presence** (`FairSpec`): a connected daemon keeps sending heartbeats.
  Nothing else needs to happen.
- **Sessions** (`FairSpec`): weak fairness of `EndStep(h)`, the UPDATE of a handler
  that has read the session and waits for SQLite only. Nothing is assumed of daemons
  or clients.
- **Log**, **Scheduler**, **Pairing** and **Cron** state safety only and assume no
  fairness.

## 6 What is proved

`*Proofs.tla` hold the theorems, from the assumptions on constants that each
module names (limits are positive, the two kinds of calls are distinct, no machine
is `None`, a list is not empty, no search comes to the end of the library's
calendar). Each argument is an inductive invariant `IInv`,
shown to hold initially, to be kept by each action in a lemma of its own, and to
imply the properties.

- **CircuitBreakerProofs**: `BreakerTypes`, `TripsNeedAStreak`, and
  `ClosedIsBelowThreshold`, of a property that is stated there and that no run
  lists. The checked invariants are not inductive: nothing in them ties the window
  to the streak. `WindowWithinStreak`, that the window never holds
  more failures than have happened since the last success or reset, closes the
  gap. `PruneShortens` and `AgeKeepsLength` are about the window's operators.
- **RpcDispatchProofs**: `RelayTypes`, `WaitersAreRegistered`, `LeaksAreCutShort`,
  `RelayKeepsContract` (the refinement: every step is a step of `RpcContract` or a
  stutter), and `DrivesTheBreaker`: every step of the relay is a step of the
  breaker's specification or leaves it alone, so the breaker's theorems hold
  inside the relay. `AssumesOnlyTheSet` is the same for the sockets: only the steps
  of `MachineSockets` change them. `CallInv` ties coroutine, future and table together: what is in
  the table has no accepted reply, and a resolved future has one.
- **MachinePresenceProofs**: `PresenceTypes`, `LiveSocketsAreRoutable`,
  `RegisteredMachinesAreActive`, `GhostsAreExplained`, `AbsenceIsAnnounced`,
  `AbsentMachinesAreInactive`, and `SetsAreKeptForTheRelay`, an action property from the same invariant: each step
  does to the set of each machine what `MachineSockets` allows or nothing. The
  invariant adds that a socket that never connected left no trace (`NewIsFresh`),
  is entered only under its own ids (`EnteredByName`), keeps the entry of the id it
  announced (`AnnouncedStays`), and that a row stays active from the write of a
  registration to its end (`WrittenIsActive`): the announced entry keeps any other
  disconnect from being the last.
- **MessageLogProofs**: `LogTypes`, `MessagesKeepTheirSeq`, `SeqsHaveNoGap`,
  `ReadersGetABeginning`, `LastPagesAreComplete`, `ListsAreStoredInOrder`, and the
  refinement `TableKeepsLog`, for any
  number of writers and readers, list lengths and page sizes. The invariant says that
  rows are `1..n` (`Dense`) and that a selected seq is at most one beyond them
  (`SelectedIsNext`), so an insert fills the next seq or fails. `RowsAreGiven`, that
  each row is known to the writer it names, makes a writer's seqs a bijection to its
  rows, which is how the rows are counted. For the refinement, the rows of a dense
  table are a sequence and an insert appends to it (`InsertAppends`), the message is
  the first of its list that is not there (`InsertedIsNext`), and the next page
  continues the last one (`ReadGrows`).
- **SchedulerProofs**: `SchedulerTypes`, `SlotsAreServedOnce`,
  `CountedFailuresAreReal`, `DisabledTasksHaveFailed`, `StaleTasksRunOnce`,
  `PendingRecordsAreExplained`, for any tasks, schedules, number of manual runs and
  bounds. The properties look at rows only, but what is written to a row comes from
  a copy that was read earlier, so the invariant follows the copies: a row the loop
  selected is dated no earlier than the slots served before (`ServedInv`), any
  count a copy holds is borne out by failed executions, one that is still to be
  counted included (`CountInv`), two runners never hold the same record
  (`ExecInv`), and an enabled row is one the loop has not run since it was disabled
  (`StaleInv`). `LoopInv` ties the loop's position to its runner.

- **SessionsProofs**: `SessionTypes`, `RequestsAreRoutedHome`, `OwnersAndRowsAgree`,
  `MetadataIsComplete`, for any ids, machines, handlers, keys and restarts. What is
  added is that a handler which is to write a session has found its row and, before
  it enters an owner, knows its machine (`Minding`), which lasts because rows neither
  go away nor change machines; and that an owner in memory is a home (`OwnersHome`),
  the machine of the row being the other place a request is routed to.
- **PairingProofs**: `PairingTypes`, `GivenTokensAreStored`, `RequestsGiveOneToken`,
  `RequestsExpireInTime`, `PinsStay`, for any handlers, requests, tokens and restarts.
  What a handler read still holds of the row while it is not stale (`FreshKnows`):
  every write makes all others stale, so a second token takes a crossed write. A
  request that is pending or has no token has given none out (`GivenIsWritten`).
- **CronProofs**: `SearchStaysOnDates`, `SearchFindsTheFirst`, `SearchGivesUpLate`,
  for every calendar (any lengths of hour, day, week, months and number of months),
  expressions and horizon, and `SearchDecidesDue`. Timestamps count days by
  cardinality, so the heart is that they count minutes: no two minutes have one
  (`StampIsOneToOne`, from a later date having more days before it), two differ by a
  minute at least (`StampsAreMinutes`), and each carry by hand goes on by exactly one
  (`AfterCounts`, from `NextDayCounts`: the days before tomorrow are those before
  today and today). So the search passes over no minute, and its invariant is that it is
  `n` minutes from its start (`OnTime`) with every named time still ahead
  (`NoneBehind`). `SearchDecidesDue` links it to the scheduler: whatever the time
  now, what the search returns makes the task due exactly when one of the
  expression's times is after the last run, not after now and within reach, which is
  the definition of `DueSlots`.

## 7 Disagreements found

Three runs show the code doing other than a comment of its own says.

1. `src/hardening.py:117` "HALF_OPEN (probing) -> CLOSED or OPEN" and `:130`
   "Allowed probes in HALF_OPEN before re-opening". `record_failure` (189) trips
   only from CLOSED, so failed probes use up the quota and the breaker then rejects
   everything until a reset or a late success (`breaker_probing`).
2. `src/server.py:1580` "StructuredHTTPException 504: RPC timed out". The fallback
   is a lambda that returns a dict and is awaited: TypeError, answered 500
   (`rpc_timeouts`). The same holds of an open breaker and of an interrupted loop.
3. `src/storage.py:558` "Each message gets an auto-incrementing ``seq`` number".
   Two writers select the same seq, the second INSERT fails and the message is lost
   with the rest of its batch (`message_loss`).

Four more comments are not borne out by what the models do as the code does, without
a run of their own:

- `src/storage.py:248` "Generate machine ID and token atomically". The token is
  stored and the request authorized by two statements, after a read that neither
  looks at again: two responses to one request mint two tokens. `OneTokenPerRequest`
  holds but for that (`crossed`).
- `src/server.py:222` "Clear reconnection tracking on successful reconnect". Any
  client that names a machine clears it and has the machine announced online, a
  user-scoped one without a token included, which is no reconnect of the machine.
  `OfflineIsAnnounced` holds but for that (`claimed`).
- `src/scheduler.py:509` "Update the task's last-run summary regardless of outcome".
  A skipped run returns before it, so its slot is due again at every check.
- `src/hardening.py:130` allows `half_open_max_requests` probes; the one that moves
  the breaker from OPEN is not counted, so one more is admitted.

Other behaviour that may surprise:

- A machine that comes back while the disconnect of its last socket waits for SQLite
  is announced offline after it was announced online, and a stop of the server
  leaves the rows of connected machines active.
- A socket is routed to after its disconnect when its registration ended later or
  when it went by a second id; `GhostsExplained` says that those are the only causes.
- The horizon of `next_cron_match` is a common year, so a yearly task that ran in its
  very minute finds no next time and does not run again; `NoneIsFar` says that nothing nearer is missed. `_DAYS`
  (`scheduler.py:35`) counts from Sunday and is used nowhere; matching counts from
  Monday.
- A session that resumes, or that was active at a restart, has no owner in memory.
  Requests find its row; `POST /v1/messages/send` looks in memory only, and stores a
  message that it does not forward.
- `src/server.py:1092` says that pairing/exchange goes "from ``pending`` to
  ``exchange``"; the UPDATE takes a request in any state, and so does pairing/deliver.
  `Exchange` and `Deliver` do as the code does, and the properties hold over them.
- A response to a lapsed request expires the fresh one that replaced it (`crossed`),
  and a key whose row was read as missing, answered or lapsed gets a new request
  although another was opened, or opened and answered, since.

## 8 What is only model-checked

Liveness and everything that rests on fairness or ENABLED is out of the prover's
reach: `OpenEventuallyProbes`, `KeepsFairContract`, `HeartbeatRepairs` and
`StopsFinish` stay with TLC on the instances of section 4, and so do the three
disagreements, which are counterexamples. Every other property of a passing run is
stated by a theorem.

## 9 What is not modelled

- The relay of stored messages to rooms of web clients: it follows the store and
  changes no state of the server.
- More than one breaker, machine per relay, or session per log: they share nothing.
- The length of the backoff of ReconnectManager: computed, and read by nobody.
- Failures of SQLite other than a violated key, and a wall clock that goes back.
- `RpcDispatcher` (`rpc_handler.py`): a second relay with the promise of
  `RpcContract`, of which nothing in `server.py` or `main.py` makes an instance.
- History sync: `INSERT OR REPLACE` under an id that is made up for each row
  (`storage.py:1014`), so each scan adds the rows anew; nothing is read and then
  written, and no interleaving matters. Statistics are aggregates.
- Settings, entry points and helper scripts: constants without a protocol. The web
  console renders what it fetches and keeps nothing the server reads.
- Cryptography: pure functions over byte strings; the correctness of PyNaCl and of
  the standard library.
- Of the middleware, the choice of a timeout by path and the layout of errors.

## 10 The plan

Done: `CircuitBreaker`, `RpcContract`, `RpcDispatch` (composes the breaker,
implements the contract), `MachinePresence`, `MachineSockets` (the composition of
presence and relay), `AppendLog` and `MessageLog` (implements it), `Scheduler`,
`Sessions`, `Pairing`, `Cron` (whose search decides what the scheduler finds due),
and proofs of all of them.

What could follow, in order of worth:

1. An abstract specification of pairing (a request is open, answered or expired, and
   answered once), which the handlers implement as long as none is `crossed`.
2. The forwarding of `POST /v1/messages/send` over the set of `MachineSockets`.
3. The lapse of tokens and the console's stale answers, if they stay small.
