# A TLA+ verification project for ToolDAQFramework

ToolDAQFramework is the distributed data-acquisition layer of ToolDAQ: a program
built with it runs a chain of tools, finds its peers by multicast beacons, talks
to a database through *middlemen* over zmq, publishes logs and monitoring data,
and is steered by slow-control commands and run-control alerts. Almost all of
its behaviour of interest is concurrent: every subsystem has a thread of its own,
and they share queues, maps and flags, some of them without a lock.

The project lives in one directory: `*.tla` are the modules, `*.cfg` the
configurations TLC runs them with, `PROJECT.json` lists components, runs,
mutants, findings, hazards and theorems, and maps every definition to the
source lines it models. In this text `file.cpp:n` is a line of that file under
`src/src/`.

## 1. The system

| component | state it keeps | operations | talks to | hard behaviour | correct when |
|---|---|---|---|---|---|
| **ServicesBackend** (`ServiceDiscovery/ServicesBackend.*`) | `msg_id`, queue `waiting_senders`, map `waiting_recipients` of promises, two zmq sockets, compression contexts | `SendCommand`/`DoCommand`, background thread (`GetNextResponse`, `SendNextCommand`), `SendMulticast`, `Ready`, `Finalise` | any user thread, middlemen over PUB and DEALER | two waits with timeouts, late, lost and duplicate replies, a map read without its lock, ids that wrap, shutdown with calls outstanding | each caller gets the reply to its own command, results are truthful, every call returns, shutdown strands nobody |
| **Services: calls** (`ServiceDiscovery/Services.cpp`) | none of their own | database queries, device and run configurations, plots, calibrations | ServicesBackend | the error text replaces the result | a failed call leaves no usable data |
| **Services: buffering** | `logging_buf`, `monitoring_buf`, `monitoring_msgs_sent`, `alarm_buf`, byte counts, `local_merge_buf`, three mutexes | `SendLog`, `SendMonitoringData`, `SendAlarm`, `BufferThread`, `BatchAndSendMulticast` | user threads, the buffer thread, ServicesBackend | lock order, a merge buffer under two locks, batches at the datagram limit, sends that fail | every accepted message is sent once or its loss is visible, batches fit, nobody blocks for ever |
| **Services: run configuration** | `m_local_config`, configuration ids, `m_testing`, slow-control variables `Config` and `NewConfig` | `LoadConfig`, `ChangeConfig`, `ChangeToConfig`, `RunStop`, `ExportConfig` by alert, button or command | slow-control thread, user callbacks, middleman | callbacks that fail or throw, loads that fail half-way, gates that skip a callback | what is reported is what was loaded and applied |
| **SlowControlCollection / Element** | variable table, state word, testing flag, alert callbacks | `Thread`, `Update`, `Add`/`Remove`, `SetValue`, `AlertSend`, `SetActive/Error/Warning` | user threads, remote clients, ServiceDiscovery | callbacks under locks, unsynchronised state word and table | a published state is the current one, a locked variable stays unchanged |
| **ServiceDiscovery** | `PubServices` in the publishing thread, `RemoteServices` in the listening thread | Add, Delete, PortAdd, PortDelete, Quit; beacons, expiry, queries | multicast, `DAQUtilities`, `SocketManager`, remote control | lost and reordered beacons, clocks of two machines, commands by name | a live service stays listed, a dead one is dropped |
| **SocketManager** (`DAQDataModelBase`) | send and receive buffers, message pool, `paused`, connections | `Thread`, `Update`, `ResetConnections`, `Close` | user threads through shared buffers | pausing, killing, errors in mid-batch | every message is sent or flagged, in order, and `Close` returns |
| **DAQUtilities** | connection table, worker threads | `UpdateConnections`, `CreateThread`, `KillThread`, proxies | zmq, ServiceDiscovery | stale connections, thread arguments that race with start-up | each known service is connected once |
| **DAQLogging** | stream buffer, socket to the logging thread | `sync`, `ChangeOutFile`, quit | all threads | shutdown order | no line lost |
| **ToolDAQChain** | mode, remote-control socket | `Remote`, `Interactive` | RemoteControl, ServiceDiscovery | request/reply loop with timeouts | each request gets one reply |
| **NodeDaemon** | table of child processes | start, stop, forced stop, reap | signals, RemoteControl | erase while iterating, children that fail to start | the table lists what runs |
| **RemoteControl, MCDebug** | nothing lasting | query services, send commands | ServiceDiscovery, ToolDAQChain | timeouts | – |
| **BoostStore** | header, multi-event archive on disk | get, set, save, close | files | sequential | what is saved is read back |
| **DataModel, DAQDataModelBase, main, user tools, zstd(_helpers)** | holders, examples, start-up, compression | – | – | – | – |

### How they interact

`Services::Init` starts the slow-control thread, the backend's background
thread and the buffer thread, in this order; `Services::~Services` kills the
buffer thread, stops slow control and finalises the backend. A slow-control
callback may call any `Services` function, so it may be inside
`ServicesBackend::SendCommand` for as long as a timeout. `ServicesBackend` is the
one path to the database; a configuration load is five attempts of one of its
calls. The state word of slow control is published as a "port" of the service
beacon. Everything that is logged by any of these goes through `SendLog`, so the
buffer locks are taken from every thread; when the log of the tool chain is remote,
also from within a flush that reports a failure.

## 2. The modules, and the plan

Each component has a module that can be checked and proved about by itself:
parameters as constants with named assumptions, one action per operation, no
recursion. `X.tla` is the model, `XProofs.tla` its theorems, `MCX.tla`, where
there is one, gives the constants of the run values that a configuration
cannot. An operator whose name begins with `Faulty` (or that a comment marks as
a bug) is a plausible mistake in the code, for the properties to find; nothing
else uses it.

| section | module | component |
|---|---|---|
| 3 | `ServicesBackend`, with its abstract specification `CommandChannel` | ServicesBackend |
| 4 | `RunConfig`, with its abstract specification `RunControl` | run configuration of Services and the alert handler of SlowControlCollection |
| 5 | `ServicesBuffer` | log, monitoring and alarm buffering of Services, and what DAQLogging brings back to it |
| 6 | `ServiceDiscovery` | ServiceDiscovery and the calls of DAQUtilities that talk to it |
| 7 | `SocketManager`, with its abstract specification `Outbox` | SocketManager and `DAQUtilities::UpdateConnections` |
| 8 | `SlowControl` | locks and state of SlowControlCollection and SlowControlElement |
| 9 | `NodeDaemon` | NodeDaemon |

What may follow, in this order:

1. `Ready` and the connection monitor of ServicesBackend, and the path of
   `AlertSend` in slow control;
2. a timed refinement of `ServicesBackend`: a command's timeout against the
   poll timeout on the only sending thread (`ServicesBackend.cpp:802`);
3. `RunConfig` composed with `CommandChannel` as its database, with
   `ImplementsChannel` as the reason why that is enough;
4. the thread and the sockets of DAQLogging's older remote mode, and the worker
   pool of the multi-threaded tool template.

## 3. ServicesBackend

### The model

A *call* is one execution of `DoCommand`; calls are numbered in the order in
which they take their message id, so "the reply to call n" does not depend on
ids. What a command says is abstracted to its call; what is modelled is who
waits for what, and where each promise is.

| model | code |
|---|---|
| `pc[n]` | where the thread of call n is in `DoCommand` (`ServicesBackend.cpp:518-659`) |
| `receipt[n]`, `response[n]` | the two promise/future pairs: `pending`, set, or `broken` (the promise was destroyed) |
| `waiting_senders`, `waiting_recipients` | the queue and the map, the map as a function from ids to the call whose promise is filed |
| `bg`, `held`, `current` | the background thread: which line of `GetNextResponse`/`SendNextCommand` it is at, the reply and the promise it holds |
| `fin` | progress of `Finalise`: signal, join and clear the queue, clear the tickets |
| `wire`, `inbox`, `executed`, `sent` | external: requests and replies under way, what middlemen did, what was put on a socket |

Callers run in parallel with each other, with the background thread and with
`Finalise`. A step is one access to shared state: filing the ticket, queueing
the command, each wait, the erase; and in the background thread receive, `count`,
`at`, `set_value`, `erase`, pop, send, `set_value`. The locked accesses are
atomic; the ones that take no lock (`ServicesBackend.cpp:749-751`) are separate
steps between which callers run, and with `RacyLookup` a lookup during an update
may miss an element. An exception that leaves the thread function, or a write
through a pointer to an erased element, may end the process (`Crash`).

Requests and replies may be lost, delayed and reordered; a write reaches any
subset of the middlemen, so that it may be answered more than once. A send may
succeed, fail with a return code, or throw.

`CommandChannel` is the promise made to callers: a middleman may perform a
command at any time after the call began, also after the caller was told of an
error, but `ok` means that it was performed and `unsent` (the error of a failed
send) means that it was not and never will be, so that a retry is safe.

### The runs

| run | question | bounds | result |
|---|---|---|---|
| `backend_safety` | types, correlation of replies, tickets kept, nothing waits after `Finalise`, and does it implement `CommandChannel`? | 2 calls, 3 ids starting at 1 so that the counter wraps, 2 middlemen (symmetric), racy lookups | holds, 307 k states |
| `backend_patient` | does the channel itself end waits? No caller timeout needs to fire, and lookups are not racy | 2 calls, 1 middleman | holds, 32 k states |
| `backend_live` | does every call return, or the process end? Ids are taken modulo 1, so the second call finds its id filed and its ticket refused | 2 calls, 1 id | holds, 56 k states |
| `claim_returns_in_time` | "These return within timeout." (`ServicesBackend.h:66`) | 2 calls | violated |

Two calls are enough for every race of the code: all of them are between one
caller and the background thread or `Finalise`, and the second call is there to
be confused with the first. That a longer queue changes nothing is what the proofs below show.
Two middlemen give duplicate answers. `MaxCalls` and the size of the id space
are the only bounds; the code has 2^32 ids.

The violated claim is a finding: a reply that races with the timeout of its
caller throws `std::out_of_range` in the background thread (or writes to a
destroyed promise); the process dies, and with it every call.

Two more disagreements were met and have no run of their own:

* after a response timeout the ticket stays filed (`ServicesBackend.cpp:633`);
  only the send timeout removes it. The comment at line 591 says "since we are
  giving up waiting for the response, remove ourselves from the list of
  recipients";
* a send that throws is reported with `ret=false`, the code of a success
  (`ServicesBackend.cpp:811`), where the comment at line 817 says "notify the
  client that the message has been sent".

### Fairness

`ThreadFairness` is weak fairness of each thread that has something to do: the
background thread polls with timeouts and never blocks for ever, `Finalise`
only joins it, and a caller runs when its wait is over. `TimerFairness` says
that `wait_for` times out. Nothing is assumed of middlemen, of the network or
of who calls what. `PatientSpec` leaves out `TimerFairness`, so that what ends
a wait must be the channel itself. The model checks that a call returns, not
within how many milliseconds.

### What is proved

`ServicesBackendProofs` proves, for any number of calls, ids and middlemen, with
racy lookups or without, and with ids that wrap:

* `TypeCorrect`: `TypeOK`;
* `TicketsKept`: a registered, unanswered call is still filed under its id;
* `UnsentIsUntouched`: after `unsent` no middleman ever acts on the command;
* `CommandsSentOnce`: a command is put on a socket at most once, whatever times
  out or is lost, so that only a caller that calls again has it executed twice;
* `FinaliseComplete`: after `Finalise` nobody waits in vain.

With lookups that do not race, `CrashNeedsFailedCall` says that the background
thread takes the process down only after a call returned an error; so a run in
which every command succeeds is not exposed to it.

Three more hold of every behaviour that satisfies `NoRelics`: the ticket of a
call, and a reply the background thread holds for it, are gone before
`IdModulus` more calls have been made.

* `RepliesMatch`: a call is only handed the reply to its own command;
* `ResultsTruthful`: `ok` and `unsent` mean what they say (an invariant no run lists,
  because it follows from the refinement that `backend_safety` checks);
* `ChannelImplemented`: `Channel!Spec`.

The condition is what the code itself relies on. With the ticket leak of above
it can fail after 2^32 calls, and then the reply to the newer call goes to the
stale ticket: TLC shows it for 3 calls and 2 ids. With no more calls than there
are ids it always holds (`FewCallsLeaveNoRelics`); this is where `backend_safety`
checks the three.

None of the properties is inductive. The argument is built from layers, each
an invariant proved with the help of the earlier ones:

* `IdInv` – calls take their ids in order, so that of two calls less than
  `IdModulus` apart the ids are as far apart, modulo `IdModulus`; two calls with
  one id are a whole cycle apart (`SameIdFarApart`);
* `TicketInv` – a ticket is filed only under the id of its own call;
* `FlightInv` – every reply on its way, or held by the background thread,
  carries the id of the call it answers. Together they make the correlation
  (`CorrelationInvariant`): the ticket found under the id of a reply is that of
  the reply's call;
* `SendInv` – a command that is queued, or popped but not yet sent, is untouched,
  and so is one whose send failed, for ever (`UntouchedStable`): the queue holds
  each call at most once (`QueueAfterAppend`, `QueueAfterPop`);
* `AnswerInv` – replies are only made by calls that were executed;
* `FinInv` – what the background thread has left behind when it is joined;
* `SentInv` – no queued or popped command has been on a socket, and one that has
  is never queued again;
* `CrashInv` – the ticket that the background thread found stays filed until it
  erases it, unless some call has failed, as only a call that fails withdraws one.

Only liveness is left to TLC.

### Not modelled

Topic checks and compression (the inputs are commands that pass), the
one-result wrapper of `SendCommand`, `SendMulticast`, `Ready` and the connection
monitor, `Initialise` beyond the seed, the durations of the timeouts, and
undefined behaviour of the containers when `Finalise` clears them under a
caller's hands. No call starts after `Finalise` is through: the code would
compress it with a freed context.

## 4. RunConfig

### The model

A *configuration* is the text that the database keeps under a pair of ids (a
member of `Ids`), the empty text, the text of an error, or one the user made.

| model | code |
|---|---|
| `config`, `new_config` | the slow-control variables `Config` and `NewConfig` |
| `config_id`, `testing`, `local_config` | `m_base_config_id` and `m_run_mode_config_id`, `m_testing`, `m_local_config` of `Services` |
| `enforced` | `m_testing` of `SlowControlCollection`, which decides which controls are locked |
| `warning`, `error` | two bits of the state word |
| `at`, `via`, `load`, `given`, `tries`, `old_testing` | where the slow-control thread is, how its handler was called, and the handler's local variables |
| `applied`, `changed_by` | external and history: what the user's code runs with, and how the callback was last called |
| `due` | history: whether the ids were reset and, since then and with no change since, a `ChangeConfig` alert ignored or a load reported as done |
| `replaced` | history: the configuration held is one that `SetLocalConfig` put there |

All alerts, buttons and commands run in the slow-control thread
(`SlowControlCollection.cpp:273`), one at a time. A handler that only computes
is one step. A load is one step to compare the ids, one per attempt to fetch,
and one to report; a change and a stop are a step up to the user's callback and
one after it, in which the callback has returned true, returned false or thrown.
Between these steps user threads may call `ResetConfigIDs`, or subscribe as long
as the thread does not hold the table of alert functions
(`SlowControlCollection.cpp:462`). The user's code, a callback for one, may also
call `SetLocalConfig`, though not while a load writes the same string: that
would be a data race. The three ways to a change differ in what
they do before the callback, after it, and after an exception, and are kept
apart: `EndChangeAlert`, `EndChangeButton`, `EndChangeToConfig`.

`RunControl` is what an operator and the user's code can rely on, whichever way
is taken: one thing is done at a time; `LoadEnd`, `LoadFail`, `ChangeEnd` and
`ChangeFail` are shown only at the end of what was shown to start; after
`ChangeEnd` the user's code runs with what is held, unless the user replaced it;
after `LoadFail` the text of an error is held; and `NewConfig` is raised by
loads and consumed by reported changes only. It also says where no end is shown.

### The runs

| run | question | bounds | result |
|---|---|---|---|
| `run_config` | types; do the ids describe the configuration held; does the lock tell the truth; does a restart reach the callback; does it implement `RunControl`; is every load reported? | 2 configurations; five attempts as in the code | holds, 1.6 M states |
| `claim_reset_lets_alert_through` | "reset the active configuration numbers so that the next ChangeConfig alert will invoke the callback." (`Services.cpp:1261`) | 2 configurations | violated |

Two configurations are enough: the code only compares the ids asked for with
those held, and the text made with the text held. There is no other bound.

The violated claim is a finding. `ResetLetsAlertThrough` speaks of a service that
was changed by an alert to a configuration it had loaded, and whose ids were then
reset: no `ChangeConfig` alert may have been ignored since. TLC's counterexample
is such a run from its beginning: the user subscribes, a configuration is loaded
and reported, a `ChangeConfig` alert applies it, the ids are reset, and the next
`ChangeConfig` alert is ignored (`ChangeIgnored`). The ids decide whether a *load*
is skipped; whether the *alert* is ignored is decided by `NewConfig`, which a
reset does not raise. What does hold is `RestartReachesCallback`: reset, load, and
the next alert is heard.

One more disagreement has no run of its own: the test in `Update`
(`SlowControlCollection.cpp:778`) lets a lockable control be set while `testing`
is false and not while it is true, where the comment at `Services.cpp:1453` says
that ChangeToConfig is "locked during non-testing runs as it allows loading
arbitrary configurations".

The model also shows behaviour that no comment contradicts and that a user of
the code should know: a failed load leaves the text of the error as the
configuration held, and a later change hands it to the callback; a callback that
throws in an alert leaves the lock switched, where one that returns false has it
reverted; a `LoadConfig` alert without a payload, a `ChangeConfig` alert with
one, and a button whose callback throws leave `Config` at `LoadStart` or
`ChangeStart`; asking for the same ids with another testing flag changes nothing; and
`SetLocalConfig` replaces the configuration and keeps the ids
(`Services.cpp:1372`), so that the load of the one it replaced is skipped. The
properties about the configuration held except it.

### Fairness

`Spec` has weak fairness of `Handling`: the slow-control thread goes on with
what it has begun, because every call of the database returns within its
timeout and a callback is taken to return. Nothing is assumed of who sends
alerts, nor of the database's answers.

### What is proved

`RunConfigProofs` proves, for any set of ids that does not contain the names of
the special texts (`IdsOK`), the four invariants of the run, `TypeCorrect`,
`IdsMatch`, `LockMatches` and `RestartHeard`; the refinement,
`RunControlImplemented`; and two results no run lists, `ChangeEndApplied` (the
invariant `ChangeEndIsApplied`) and `LoadRunsDown`.

* `TypeOK` needs that a load begins with no attempt made (`CountInv`): without
  it the count could pass `MaxTries`.
* `IdsDescribeConfig` is inductive given the types.
* `ChangeEndIsApplied` and `LockIsOfLoadedConfig` need `HandlerInv`: while a
  handler waits for the database or for the callback, `Config` stays at its
  start value, and what the handler keeps in its local variables is still what
  `Services` holds.
* `RestartReachesCallback` needs that the ids stay cleared from a reset until a
  load sets them, so that this load cannot be skipped (`RestartInv`).
* `RunControlImplemented` maps every step to one of `RunControl` or a stutter
  (`ControlStep`). It rests on `HandlerInv`, and on `LoadInv`: a load overwrites
  what the user put by hand, and fails with the text of an error held.
* `LoadRunsDown` is the safety half of `LoadIsReported`: each step of the thread
  in a load lowers `LoadRank`, the number of steps left, the last one is the
  report, and no other step changes it.

That the thread does take these steps (`LoadIsReported` itself) is liveness and
is model-checked only.

### Not modelled

Functions subscribed to every alert (`"*"`); alerts and commands whose text
cannot be parsed; a collection that does not receive alerts; and the unlocked
accesses to `m_local_config` and the ids from other threads, whose data races
are undefined behaviour.

## 5. ServicesBuffer

### The model

Log messages and monitoring values are collected in two buffers with a lock
each, and multicast in batches by `BatchAndSendMulticast` (`Services.cpp:1282`):
from the buffer thread, which has neither lock, from a `SendLog` whose message
does not fit, which has the logging lock, and from a `SendMonitoringData`, which
has the other. All three put the batch together in one string, `local_merge_buf`,
that no lock protects.

| model | code |
|---|---|
| `logging_buf`, `logging_bytes`, `monitoring_buf`, `monitoring_bytes`, `msgs_sent` | the buffers, their estimates, and `monitoring_msgs_sent`; a repeated log message adds its call to the last entry |
| `logging_mtx`, `monitoring_mtx` | who holds `logging_buf_mtx`, `monitoring_buf_mtx` |
| `merge_buf` | `local_merge_buf`: the calls whose messages it holds |
| `alarm_buf`, `alarm_age` | the alarms remembered for their cooldown, and how long ago each was sent |
| `at`, `doing`, `what`, `id` | where a thread is in the flush, for which call and message |
| `nested` | threads that flush for a report of their own |
| `unsent` | history: log messages that were put into the buffer and that no multicast has sent since |
| `failed`, `raced` | history: those a failed multicast was to send, and those cleared by a flush whose string another thread had touched |
| `disturbed`, `pruned` | history |

A flush is a step per lock and per use of the string: `Clear`, `LockLog`,
`MergeLog`, `CheckLog`, `SendBatchLog`, `ClearAgain`, and the same for monitoring,
then `Prune`, which forgets alarms. Any other thread may run in between. Two
threads that use the string at the same time may also corrupt memory (`Crash`).

When a `ToolDAQChain` has backend services and remote logging, `std::cerr` and
`std::cout` end in `SendLog` (`ToolDAQChain.cpp:188`, `DAQLogging.cpp:145`): a
*report*. With `m_verbose` set some are written with a buffer's lock held, and
`SendLog` is called from within the call (`ReportingPlaces`):

| place | what is reported | lock held |
|---|---|---|
| `report_log`, `report_mon` (`ReportMulticast`) | a multicast that failed, or is about to be tried | that of the batch |
| `long_log` (`SendLogTooLong`) | a log message longer than a datagram (`Services.cpp:1006`) | logging |
| `long_mon` (`SendMonitoringTooLong`) | a monitoring value that is (`Services.cpp:1054`) | monitoring |

At `report_log` and `long_log` no outcome of that call can be taken, because the
thread already has the lock it asks for. From `report_mon` and `long_mon` the call
has the outcomes of any `SendLog`, after which the flush goes on or
`SendMonitoringData` returns false (`AfterReport`). Reports written with neither
lock, that of an alarm for one, are calls like any other. A message that is too
long and not reported changes nothing.

The multicast of a batch succeeds or fails, and the buffer is cleared in either
case (`Services.cpp:1303`): its messages leave `unsent` or enter `failed`.

### The runs

| run | question | bounds | result |
|---|---|---|---|
| `services_buffer` | types; who can deadlock; is a batch the buffer it stands for; how can an accepted log message be lost; is an alarm sent twice; does what is logged leave the buffer? | 2 users and the buffer thread, 3 calls, a message that fills a batch, one that exceeds it, messages and values longer than a datagram, 1 subject, 1 alarm | holds, 805 k states |
| `claim_never_locks_twice` | "don't try to lock logging buffer, we've got it" (`Services.cpp:1014`) | the same | violated |

Three threads with three calls are the least with which the buffer thread meets
a full `SendLog` and a full `SendMonitoringData` at once. A batch of one message
makes every second call a full one. Alarms are independent of one another but
for the scan of the list, which `SendAlarmAgain` may stop anywhere.

The violated claim is a finding: a report on a batch of log messages waits for
the lock its own thread holds. The counterexample is a `SendLog` whose message
does not fit, so that it flushes, and whose multicast is reported. Reports on a
monitoring batch or value do so too if the logging buffer is full, when they
flush within the call and then ask for the monitoring lock; and the report of a
log message that is too long does so at once, without any flush.

What holds is weaker than one would wish, and says so in its conditions: a
`SendLog` and a `SendMonitoringData` with full batches wait for each other's
lock for ever (`Services.cpp:1014` and `:1065`), and a batch that another thread
disturbed may be sent empty, or with another topic, and is then cleared.
`AcceptedLogsAccountedFor` says that a message no multicast has sent is in the
buffer, in a batch whose multicast failed, or in one that was disturbed, and
`LogsLeaveBuffer` that the buffer is emptied again and again, not that what was
in it arrives. An
alarm of the current second is forgotten by a flush, against the comment on the
cooldown at `Services.cpp:147`: `time(0)*1000` at line 1339 is before the
alarm's milliseconds, and the unsigned difference wraps.

### Fairness

Weak fairness of each thread within a flush or a report, of a call that is about
to return, and of the buffer thread's wake-up. A lock that is held is given back
unless there is a deadlock, and the number of calls is bounded, so that weak
fairness is enough for whoever waits. No multicast has to fail or to succeed, and
none has to be reported.

### What is proved

For any users, messages, sizes and subjects, `ServicesBufferProofs` proves
`TypeCorrect`, `OnlyFullSendersCanDeadlock`, `UndisturbedFlushes`,
`AcceptedLogsAreAccountedFor` and `AlarmsAreSentOnce`.

* `WorkInv` relates where a thread is to what it is called for, and `LockInv`
  says exactly where each lock is held. They are inductive only together: that
  a nested flush never gets past the monitoring lock follows from its thread
  having that lock already.
* `BatchInv`: at each place of an undisturbed flush, what the string holds.
* `EntriesInv`, `RoomInv`: the estimate of bytes is 0 when the buffer is empty,
  and a full sender that was not disturbed finds it empty when it returns.
* `AlarmInv`: an alarm that is not old is remembered, unless it was pruned.

Four more theorems, which no run lists, say what is behind the exceptions in
`LogsLeaveBuffer`, and that the model has no others:

* `OnlyReportsLockTwice`: a thread waits for itself only in a report written with
  a lock held, of a multicast or of a message or value that is too long, or in a
  flush for one.
* `WaitsEndUnlessDeadlocked`: there is no circle of waits but a thread and
  itself, or two that wait for each other; otherwise whoever has the lock, or has the lock
  that its holder waits for, goes on.
* `DeadlocksStay`: a circle does not come apart (`WaitersStay`).
* `FlushesRunDown`: each step of a flush lowers `FlushRank`, which is at most
  28, and no step of another thread changes it. The flush within a flush, for a
  report, ranks below all the places before the one that it began at.

That threads take their steps, and so `LogsLeaveBuffer` itself, is liveness and
is model-checked only.

### Not modelled

Plots, ROOT plots and the other unbuffered senders; the JSON that is built; the
timestamps given by callers, which are taken to be the times of the calls, or
earlier for monitoring values. A report is one `SendLog`, though the stream may
make two or three of it, as `std::cerr` passes on each part by itself; what it
sends is the time of day, one of the messages. `SendMulticast` of
`ServicesBackend` has a lock of its own, which it keeps while it reports a failed
`sendto` (`ServicesBackend.cpp:434`): whoever waits for another lock there also
keeps others from sending. That lock is not modelled, and what is said here of
waiting does not speak of it.

## 6. ServiceDiscovery

### The model

Two processes: one announces, the other listens. The unit of time is a second,
in which the listener's loop goes round at least once.

| model | code |
|---|---|
| `commands`, `AddService`, `RemoveService`, `AddPort`, `RemovePort`, `SendQuit` | the messages of `DAQUtilities` and of the destructor; each goes through a socket of its own, so one may overtake another |
| `PubServices`, `publisher`, `TakeAdd`, `TakeDelete`, `TakePortAdd`, `TakePortDelete`, `TakeQuit`, `Publish` | `MulticastPublishThread` (`ServiceDiscovery.cpp:207`): one command a round; if there is none, a beacon per service and a sleep |
| `network`, `Lose`, `Receive` | external: beacons may be lost, delayed, repeated and reordered |
| `RemoteServices`, `listener`, `Receive`, `Tick`, `StopListening` | `MulticastListenThread`: the newest *arrival* of each uuid, and the expiry at the end of each round (`ServiceDiscovery.cpp:638`) |
| `skew` | the difference of the two machines' clocks |
| `silent` | history: seconds since a beacon of the uuid arrived |

`Elapsed` is what the code computes from the two times: minutes and seconds of
the absolute difference, while whole hours are not looked at. The run uses an
hour of 4 seconds and a skew of 6, more than an hour.

### The run

| run | question | bounds | result |
|---|---|---|---|
| `service_discovery` | types; do ports stay at the process's own service; is what is listed fresh; is a service dropped only when silent; is one announced ever listed? | 2 calls, one name, which is that of the process, 1 port, clocks that agree or differ by 6 s, kick after 2 s, delay up to 1 s | holds, 166 k states |

Two calls of one name make the case that matters: a service added under the
name of the process's own, and then removed, or a port added after it. A
beacon is late or early, older or newer than the one before with a delay of one
second. `kicksec` is larger than the delay and smaller than an hour less one,
as with the code's defaults (`KickOK`).

What the properties say is what the code gives, which is not "the number of
seconds without receiving a beacon from a remote service to remove them from the
services list" (`ServiceDiscovery.h:55`): the difference of the clocks adds to the age of a beacon, a difference of whole
hours does not. `RemoveService` (`DAQUtilities.h:98`) removes the first service
of the name, which may be the process's own.

### Fairness

Weak fairness of taking commands. Strong fairness of a round of beacons none of
which is lost before the socket, of the end of the publisher's sleep, and of
receiving a fresh beacon of each uuid in `Followed`: a beacon sent again and
again is not lost for ever, which is what the protocol relies on. The period
`pubsec` is at least a second.

### What is proved

For any services, ports, clock differences, delays and periods,
`ServiceDiscoveryProofs` proves `TypeCorrect`, `ListedAreFresh`,
`DroppedAreSilent`, `PortsStayAtOwnService`, and `WrongClocksListNothing`, which no
run lists: between machines whose clocks differ by more than `kicksec`, but for
whole hours, nothing is ever listed, so that `AnnouncedIsListed` needs its
condition on the clocks.

* `FreshInv` bounds the sum of an entry's time and of the seconds since its
  beacon came in by the difference of the clocks and the delay. `ElapsedRange`
  and `ElapsedNext` say what `Elapsed` does from one second to the next: an
  entry cannot jump over the window in which it is dropped, because it is
  looked at in every second (`KickOK`).
* `PortsInv`: the process's own service is the first as long as it is announced
  (`OwnIsFirst`), and ports are only at it.

`AnnouncedIsListed` is liveness and is model-checked only.

### Not modelled

The queries of the listening thread, of which only "All" is used, by
`SocketManager`, and the status queries, which may be interrupted (`Publish` then
leaves a beacon out). The beacons that `Receive` takes are whole and have their
fields. The code's buffer has 512 bytes: a longer beacon, that of a service with
many ports, is cut off, and its JSON is incomplete (`ServiceDiscovery.cpp:482`,
`:569`). What the code makes of such a beacon, or of one whose `msg_time` is not a
time (`:627`), is not modelled.

## 7. SocketManager

### The model

| model | code |
|---|---|
| `at`, `i`, `revents`, `local_messages` | the thread's round (`SocketManager.cpp:90`): wait while paused, swap the buffers, poll, receive, send, hand back |
| `messages_to_send`, `returned`, `flag` | the shared buffer, the pool, and the `sent` and `error` flags of a message |
| `polls_in` | whether a buffer of received messages was given |
| `paused`, `sock_mtx`, `closing` | the flag and lock with which other threads stop the round; the progress of `Close` |
| `inbox`, `wire`, `open` | external: what has arrived, and what the peer gets |
| `user`, `services`, `next`, `connections` | `Update` with `UpdateConnections`, step by step, and `ResetConnections` |
| `caught` | history: an exception was caught in the receiving loop the thread is in |
| `aborted` | history: an `Update` has thrown since the thread was last let go on |
| `threw`, `connects`, `resets` | history |

`Outbox` is the promise made to the tool: a message goes from the tool to the
manager and from there, once, to the pool; it gets at most one verdict, `sent` in
the step that gives the peer its last part, or `error`; and a batch goes to the
pool only when each message has its verdict, unless an exception broke it off.
The refinement (`Box`) reads the place of a message off the buffers and the pool,
its verdict off the flags, and what is delivered off the wire.

Each exception that a `try` of the round catches is an action: `PollThrows`,
`ReceiveThrows`, `SendThrows`. They differ in what they leave behind. After
`ReceiveThrows` the loop goes on without the lock, and its condition is true
for ever (`caught`); after `SendThrows` the parts already sent stay `open` and
become the head of the next message; the rest of the batch goes back to the pool
without a flag. One that nothing in the manager catches is an action too: in
`UpdateThrows` the socket's `connect` throws (`DAQUtilities.cpp:166`), or the
search for services does, out of `Update` (`SocketManager.cpp:242`). The lock is
given up as the stack is unwound, but `paused` stays set (`aborted`), and the thread
waits until another `Update` or `ResetConnections` returns; the endpoint stays in
the table without being connected, and no later `Update` connects it. The tool is
taken to catch the exception; if it does not, the process ends. `Swap`, the pool and the buffers are from ToolFrameworkCore and
modelled from their use: `Swap` exchanges the two.

### The run

| run | question | bounds | result |
|---|---|---|---|
| `socket_manager` | types; is the socket used by one at a time; are the flags true; does it implement `Outbox`; is each message flagged; does who waits for the lock get it; does `Close` return? | 2 messages of 2 parts, 2 users, 2 calls, 1 endpoint, 1 message waiting at the socket, arrivals without end | holds, 400 k states |

Two messages are enough for one to be sent before, after and in place of
another; two parts for an exception between them. Two users compete with the
thread and with each other for the lock. A second endpoint would be connected
by the same loop.

The model also shows: with the overloads of `Init` for shared pointers
`received_messages` is 0 and input is never polled; the receiving loop has no
bound, so that a peer that never stops sending keeps the thread from sending
(`NotFlooded` is the condition of the liveness properties); a receiving loop that
has caught an exception never ends at all, and what this does to the messages
queued and to `Close` is excepted by name (`caught`) in `QueuedIsFlagged` and
`CloseReturns`, as is the thread that an `Update` has left to pause (`aborted`);
`UpdateGetsLock` holds in spite of both, since the lock is free; a message that
returns to the pool keeps its flags; messages that could not be sent in a round
are sent after those of the next one; and `Close` never returns if the thread
had begun a round before it was killed, because it then waits for the end of a
pause (`SocketManager.cpp:94`).

### Fairness

Weak fairness of the thread's round, of each user's steps and of the two steps
of `Close`. Strong fairness of a poll that finds the socket writable: the peers
read. The mutex is not assumed to be fair.

### What is proved

For any messages, parts, users and endpoints, `SocketManagerProofs` proves
`TypeCorrect`, `SocketIsUsedAlone`, `FlagsAreTruthful`, `OutboxImplemented`
(`Spec => Box!Spec`), and two invariants no run lists: `MessagesHandedBackOnce`,
on which the refinement rests, and `EndpointsConnectedOnce`.

* `TypeOK` needs `ReceivableInv`: a message that the poll with the lock held has
  found is still there.
* `SocketUsedAlone` says that the thread polls and receives with the lock, unless
  it is in a receiving loop that has caught an exception, which is at `receive`.
  `LockInv` adds that such a loop has found input and that the thread never gets
  the lock again. `HandedBackOnce` is inductive given the types.
* `ConnInv`: an endpoint outside the table was connected to at most as often as
  the table has been reset.
* `FlagInv`: only messages of the batch that have been gone through, and those
  in the pool, have a flag (`FlaggedInv`).
* `BatchInv`: those gone through have theirs, unless an exception sent the thread
  past the rest. With `HandedBackOnce` and `FlagInv` it makes every step of the
  manager a step of `Outbox` or a stutter (`OutboxStep`): `Queue` accepts, `Send`,
  `SendFails` and `SendThrows` judge, `ReturnAll` hands back.

The three liveness properties are model-checked only.

### Not modelled

What becomes of a received message, `GetStats`, `GetConnections`. `Close` is
called when no other call is being made, since it deletes what they use. A
message without parts is one whose sending throws before its first part.

## 8. SlowControl

### The model

An element's mutex is held while its change function runs
(`SlowControlElement.cpp:231`), `alert_functions_mutex` while a subscriber runs
(`SlowControlCollection.cpp:462`), and these functions are the user's: they may
set further elements, subscribe, and change the state of the process.

| model | code |
|---|---|
| `mtx`, `outer`, `inner`, `want` | who holds each lock, and for each thread the nesting of the functions it is in |
| `at`, `reg`, `change` | where a thread is; the `m_state` it has read; the change it makes |
| `m_state`, `value`, `port`, `posts` | the state, kept three times: the word, the element `State`, the announced port and the messages to it |
| `started` | `Services::Init` has set `State` to 0 (`Services.cpp:66`), with the receiver already running |
| `Touches` | external: what each function of the user may set or subscribe to |
| `intended`, `overlapped`, `overtaken` | history |

`SetActive`, `SetWarning`, `SetError` and `ClearState` are a read of `m_state`, a
write, the message to service discovery, a second read, and the store in the
element; other threads run in between. An exception or a failure of a
user's function sets a flag itself, partly with a lock still held, and so does a
request for an unknown element (`RequestFails`) and an alert that cannot be
received (`AlertNotReceived`).

A function may touch any elements and subscribe to alerts, what it is called for
included, and the code does nothing to keep it from waiting for its own thread.
It sets `State` through `SetActive` and the like only (`TouchesOK`).

### The run

| run | question | bounds | result |
|---|---|---|---|
| `slow_control` | types; in what circles may threads wait for one another; do the three copies of the state agree; does every call return? | 2 users and the receiver, elements `a` and `b`, subscribers that set `a`, whose function sets `b` or subscribes to an alert; set Active, clear flags, and the Error and Warning of failures; 2 calls | holds, 178 k states |

In this instance threads do wait for ever: a subscriber sets `a`, whose function
subscribes to an alert and so asks for the lock that its own thread has, or a
user's `a` does while the receiver asks for `a`. Two changes are what it takes to
overlap.

`Stuck` is a set of threads that wait for one another or for themselves and for
nobody else. `OnlyFunctionsDeadlock` does not say that there is none, which would be
false: it says that whenever there is one, each lock its threads hold is one in
whose function the next lock of the chain was asked for (`ByFunctions`), so that
following the user's functions one comes back to where one began. Slow control
adds nothing to such a circle: nobody waits in it for the lock of `State`, which is
taken within any other lock, and no lock is kept after its function is over,
however it ended. `CallsReturn` excepts the threads of such a circle, and no other:
a thread that waits for one of the circle's without being in it is excepted only
because then `Stuck` holds of the larger set.

### Fairness

Weak fairness of each thread's steps, since a user's function returns or throws;
the calls are bounded, so a lock is free for ever, held by someone who goes
on, or held in a circle. Weak fairness of the thread that takes the messages.

### What is proved

For any users, any finite set of elements, and whatever the functions touch,
`SlowControlProofs` proves `TypeCorrect`, `OnlyFunctionsCanDeadlock` and `CopiesAgree`,
and `CallsRunDown`, which no run lists.

* `HoldInv`: the locks of a thread are a chain from the first to `inner[t]`, each
  taken in the function of the one before, and what the thread asks for is
  touched by the function it is in, or is `State`. That the chain has all its
  locks, so that the last one released leaves none, is told by a *depth* of each
  lock, which exists but is no part of the model. Who holds `State` asks for
  nothing (`StateIsInner`), so that a circle is made of functions
  (`CirclesAreOfFunctions`).
* `ChangeInv` and `AgreeInv`: at each place of a change made alone, which of the
  copies already has the new state, where the newest message counts for the
  port.

* `CallsRunDown`: each step of a thread in a call lowers `CallRank`, and no other
  thread's step changes it. The rank counts the locks the thread has, those it
  has not and may still take, and, for the receiver, the warning it may still
  have to set. No lock is taken twice, since a thread that asks for its own waits
  for ever, and so no nesting of functions is endless. With
  `OnlyFunctionsDeadlock` this is the safety half of `CallsReturn`.

`CallsReturn` itself is liveness and is model-checked only.

### Not modelled

Adding and removing elements while they are looked up, a race on a `std::map`;
limits and options of elements; printing; `AlertSend`, `Ready` and `Stop`. A
function acts at most once. What it waits for besides locks, such as another
thread of the user, is not known to the model.

## 9. NodeDaemon

### The model

| model | code |
|---|---|
| `pids` | the table |
| `proc`, `parent` | external: what each process id stands for (free, program, stray, alien, doomed, zombie), and whose child it is |
| `lines`, `at`, `starts` | the file the daemon reads at first; where it is; requests so far |
| `i`, `then` | the loop of `FStop` (`NodeDaemon.cpp:27`) and what it was called for |
| `listed`, `dealt`, `dead` | history of one `FStop` |

`FStop` is a step per signal, per look and per `waitpid`: in between processes
end, become zombies, and ids that were reaped are given to *aliens*. A child
whose `exec` failed is a *stray*: it goes on with the daemon's own code, reads
on in the file, and starts programs that only its own table lists.

### The run

| run | question | bounds | result |
|---|---|---|---|
| `node_daemon` | types; is every child listed; whom does `FStop` pass over; is every child stopped in the end? | 3 ids, 2 lines in the file, 1 start or restart | holds, 156 k states |

Three entries are the least with which one that is passed over lies between two
that are not. Ids are given out again as soon as they are free.

`FStop` passes over the entry after each one it erases, since the erased one's
place is taken and the loop goes on (`NodeDaemon.cpp:42`); it signals whatever
process has an id of the table, an alien too.

### Fairness

Weak fairness of the daemon's loop and starts, and of the end of a process that
got signal 9. `ChildrenAreStopped` assumes that `FStop` is called again and again.

### What is proved

For any ids, any file and any number of starts, `NodeDaemonProofs` proves
`TypeCorrect`, `ChildrenStayListed` and `SparesOnlyAfterDead`, and `StopRunsDown`,
which no run lists.

* `TableInv`: with `ChildrenListed` goes that a free id has no parent but init
  (`FreeInv`), so that an entry is erased only when its child is gone.
* `LoopInv`: what is left of the table from `i` on is what it was when `FStop`
  began, shifted by the number of entries erased, and each entry before that has
  been dealt with or follows an erased one.

* `StopRunsDown`: each step of the loop lowers `StopRank`, and nothing else in
  the node changes it, so that `FStop` always comes to its end. An entry erased
  under the loop leaves `i` up to two past the end of the table (`IndexInv`).

`ChildrenAreStopped` is liveness and is model-checked only.

### Not modelled

Requests that change neither the table nor a process (Status, ?, Build, File,
Stop), and the reboot. The daemon runs as root, so that any process can be
signalled; the file is read in one buffer; a stray ends when it gets to the
sockets, which are in use.

## 10. Not modelled

| part | why |
|---|---|
| zstd, zstd_helpers | compression; zstd is vendored, and with 55 of the 66 thousand lines under `src/` most of the repository. Where it can fail, its failure is a choice in the model that uses it |
| the database calls of Services | wrappers that build a command and call `SendCommand`; `RunConfig` uses the one it needs as a call that fails or succeeds |
| `Ready`, `CheckSocketEvents` | `pub_connected_mtx` is locked in `InitZMQ` and unlocked by another thread (`ServicesBackend.cpp:1093`), which is undefined for the mutex that it is |
| `Finalise` under callers | clearing containers while callers use them, and compressing with freed contexts (`ServicesBackend.cpp:871`), have no bounded set of outcomes |
| poll timeouts | need a clock (`ServicesBackend.cpp:802`) |
| DAQLogging | formatting, files, the screen and the older remote mode; what of it comes back to `SendLog` is in `ServicesBuffer`. `sync` passes the time instead of the text to `SendLog` (`DAQLogging.cpp:145`) |
| ToolDAQChain | remote and interactive control are input and output around a chain that is in ToolFrameworkCore, which the repository does not contain |
| worker threads, proxies and message helpers of DAQUtilities | thin layers over zmq and pthread |
| RemoteControl, MCDebug | interactive clients |
| BoostStore | sequential, dominated by serialisation |
| DAQDataModelBase, DataModel, main, user tools | holders, examples and start-up without behaviour of their own |

Liveness under fairness and the `ENABLED` of any action are checked by TLC on the
instances above and not proved. Data races are modelled at the granularity of a message or of one
access, with a `Crash` where they may corrupt memory.
