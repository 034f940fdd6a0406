# Verification of KvadraTop

KvadraTop reads Linux `/proc` counters once a second, broadcasts them as a JSON
snapshot to every WebSocket client, and draws them in a browser page that
reconnects by itself. The modules in this directory model the parts of it whose
correctness depends on order, interleaving or failure; TLC checks them on small
instances and TLAPS proves theorems about the backend's servers, its rate and process monitors, the collector and
the page, for every value of the constants.

Source paths are relative to the repository; `metrics/` is
`backend/src/metrics/`, `server/` is `backend/src/server/`, `components/` is
`frontend/src/components/`.

## 1. Inventory

### Components

| Component | State it keeps | Operations | What makes it correct |
| --- | --- | --- | --- |
| Main loop, `backend/src/main.cpp` | `g_running` (atomic), the `io_context`, the io thread | collect, serialize, broadcast, sleep; `signal_handler`; stop and join | one snapshot a second to every client; a signal ends the process |
| WebSocket server, `server/WebSocketServer.*` | `SessionRegistry::sessions_` under `mutex_`; per session the stream, `queue_`, and the `shared_ptr`s captured by handlers | accept, HTTP read and response, upgrade, `add`/`remove`/`broadcast`, `send`, write chain, read loop | ordered and gapless delivery, one write at a time, no lost wakeup, sessions freed when their connection dies |
| HTTP file handler, `server/HttpFileHandler.*` | none; it looks at a path twice | `serve_file`, `read_file` | an answer that is true of the file; no request disturbs other clients; no client keeps a session by doing nothing |
| CPU monitor, `metrics/CpuMonitor.*` | `prev_stats_`, one counter record per line of `/proc/stat` | constructor, `sample` | usage of a CPU computed from that CPU's counters |
| Network and disk monitors, `metrics/{Network,Disk}Monitor.*` | `prev_` (counters by device name), `prev_time_` | constructor, `sample` | each byte reported once, none made up, over the right interval |
| Process monitor, `metrics/ProcessMonitor.*` | `prev_` (ticks by pid), `prev_total_ticks_` | constructor, `sample` | shares of one and the same interval, bounded cache, busiest processes listed |
| Memory monitor, system information | none | `sample`, `collect` | pure functions of one file's text |
| Collector and serializer, `MetricsCollector.*`, `Serializer.*` | the monitors; none | `collect`, `serialize_snapshot` | what a failed pass measured is shown later, once; every snapshot can be serialized |
| `MetricsService.ts` | `socket`, `reconnectTimer`, `destroyed`, handler sets | `connect`, `disconnect`, `scheduleReconnect`, four event listeners | one connection or one timer; permanent `disconnect`; eventual reconnection |
| `main.ts` and chart panels | badge; `history` of each panel | connection and snapshot handlers, `update` | badge tells the truth; points in order of time |
| Process table, `components/ProcessTable.ts` | `sortKey`, `sortAsc`, arrows and rows in the DOM | click on a header, `update` | rows in the order the header announces |
| Scripts, CMake, markup, styles | none at run time | | |

### How they interact

* The **main thread** calls the collector, the serializer and
  `SessionRegistry::broadcast`. The **io thread** runs every handler of the
  single `io_context`. They share the registry (under `mutex_`), the reference
  counts of the sessions, the `io_context` (to which `send()` posts closures)
  and `g_running`. Signals may come at any time.
* A **session** exists for as long as some handler, closure or broadcast holds
  a `shared_ptr` to it; the registry holds only `weak_ptr`s. After the upgrade
  it has two independent chains of handlers, reading and writing, each of
  which removes the session from the registry when it fails.
* A snapshot's **path** is: broadcast, posted closure, `queue_`, `async_write`,
  network, `message` event, snapshot handler, `history`.
* The **monitors** read files that the kernel changes while they are read.
* In the **browser** events and timer callbacks run one at a time, but what
  they find in `socket` and `reconnectTimer` may belong to a later connection.

### Hard behaviours

Interleaving of two threads around the registry; object lifetime decided by
callbacks; write completion racing with new posts; independent failure of
the two chains of one session; an exception leaving `ioc.run()`; shutdown with a
thread blocked on the mutex; clients that hold descriptors and say nothing; files
that change between two looks at them; events of old sockets and pending timers after a
reconnection or a `disconnect()`; devices and processes that come, go and take
over each other's names or pids between two samples; a sample, or a pass over all
monitors, that fails half way. `PROJECT.json` lists them as hazards, each at its line, with the
properties aimed at it.

## 2. Modules

| Module | Models |
| --- | --- |
| `FanOut` | Abstract specification: an ordered fan-out from one publisher to clients that join and leave. |
| `WebSocketServer` | `main.cpp` and `WebSocketServer.cpp`: two threads, registry, sessions, shutdown. Defines the refinement mapping `FO` to `FanOut`. |
| `WebSocketServerProofs` | Inductive invariant and safety theorems of `WebSocketServer`, the proof that it implements `FanOut`, and what follows from that. |
| `HttpServer`, `HttpServerProofs` | The HTTP side of the same handlers, with `HttpFileHandler.cpp`: files, timers and descriptors. |
| `MetricsService` | The browser's connection: class `MetricsService`, and the badge of `main.ts`. |
| `Dashboard` | Composes `MetricsService` with a backend that behaves as `FanOut` says but can stop and restart, with connections that break, with the panels' `history` and with `ProcessTable`. |
| `MetricsServiceProofs`, `DashboardProofs` | Inductive invariants and theorems of the page. |
| `RateMonitor` | `NetworkMonitor` and `DiskMonitor`, which are one algorithm over different counters. |
| `MetricsCollector`, `MCMetricsCollector` | `MetricsCollector::collect`, `serialize_snapshot` and main's `try`, composed with `RateMonitor`; TLC instance, with symmetry on devices. |
| `MetricsCollectorProofs` | Inductive invariants and theorems of `RateMonitor` and of the composition. |
| `ProcessMonitor`, `MCProcessMonitor`, `ProcessMonitorProofs` | `ProcessMonitor::sample` against a kernel that does not wait for it. |
| `CpuMonitor`, `MCCpuMonitor`, `CpuMonitorProofs` | `CpuMonitor::sample` against CPUs that go offline and come back. |
| `SumTheorems` | Lemmas on the sum of a function over a finite set, for the proofs about the two monitors that add up ticks. |
| `ProcessTable` | The sortable table's state: clicks and updates. |

### WebSocketServer

The variables are those of the code, plus the environment and history:

* `running` is `g_running`; `mainPc` is the main thread's place; `todo` and `sp`
  are the rest of `broadcast()`'s loop and the `shared_ptr` it holds in a turn.
* `ioPc` and `ioSession` say whether the io thread is between handlers
  (`idle`), blocked on the registry mutex in a handler (`add`, `remove`), or has
  left `ioc.run()` (`returned`, or `failed` by an exception).
* `registry`, `queue[s]` are `sessions_` and `queue_`. `posted[s]` holds the
  closures `send()` posted and the io thread has not run; `inflight[s]` what was
  given to `async_write`; `phase[s]` the operation the other chain waits for.
* `up`, `got`, `first` are the connection, the client's received snapshots and
  the first snapshot after registration (history, which no step depends on).

`Alive(s)` is what `weak_ptr::lock()` finds: a handler, closure or broadcast
holds a reference. Object lifetime is thus computed, not assumed, and
`NoExpiredEntry` and `MainNeverLastOwner` can fail (their mutants do).

Atomicity: a completion handler is one step, since everything it touches
belongs to the io thread, except at the registry mutex, where it is split. The
main thread is split at the lock, at every `send()`, at every release of a
`shared_ptr`, at the unlock, and around the sleep. `send()` reads or writes
nothing of the session on the main thread: it only posts.

Snapshots are numbered by `broadcast()` call; their text is left out. A read
that delivers a client's message only starts the next read and is left out.

`Readers` are the clients that keep reading what they are sent; the others may stop at
any time, and keep the connection as long as they send something now and then, which is
all that Beast's idle timer asks for.

### HttpServer

`WebSocketServer` asks what the two threads do to each other and leaves out what a
request is about; `HttpServer` has only the io thread. `phase[c]` is what a client's
session waits for and `deadline[c]` whether a timer ends that wait: `expires_after`,
`expires_never` and `timeout::suggested` are what sets it. `backlog` and `accepting` are
the kernel's queue and `do_accept`'s chain; a connection takes a descriptor of `MaxFds`,
and so does, for the time of its handler, the file that is read. `file` is what is found
at the requested path, and may change at any time, also between `read_file` and the
`exists` that follows it (`ReadNothing`). A handler is one step. The table of mime types
and the headers but `keep_alive` are left out.

### MetricsService and Dashboard

Each event listener, timer callback and call of `connect()` and `disconnect()`
is one action, as a JavaScript task is. `ready[k]` and `timers` are the browser's
state; `socket`, `reconnectTimer`, `destroyed` the object's. Closed sockets and
fired timers cannot be referred to again, so identities come from a small pool.
`error` and `close` of one socket are dispatched in the same task and are one
action, `OnClose`. The `Connect` guard bounds the application's calls: one, as
in `main.ts`, or two for the run that asks what a second one does.

In `Dashboard` a snapshot is the number of the second it was taken in and 0 is
the panels' filler. `Publish` may fail to publish, as a failed collection does.
`link[k]` is the server's session for socket `k`; `wire[k]` what is under way.
`Dashboard` takes from `FanOut`, rather than from `WebSocketServer`, that a
registered session gets every snapshot in order: that is what the refinement
theorem is for.

### RateMonitor

`raw` is the `/proc` file and `prev`, `prevTime` the members; `SampleStart` reads
the clock, `SampleRead` reads the file and computes, `SampleThrows` is the
exception of a file that cannot be opened. Between the first and the others the
kernel may do anything: `Traffic`, `Appear`, `Vanish`, `Reset`, `Rename`. A rate is
kept as its two parts, growth and elapsed time. `moved` (what really happened),
`counted` (what was reported) and `covered` (the intervals used) are history.
Which names are read at all (not `lo`, only whole disks) is the set `Devices`.
`SampleStart` takes it that the steady clock has advanced since the last sample.

### ProcessMonitor

One turn of the loop over `/proc` is one action (`ReadProc` or `SkipProc`), and
`ReadTotal`, `Open`/`OpenFails` and `Finish` are what comes before and after.
Between any two the kernel may let ticks pass, end a process or start another
under a free pid. A percentage is kept as the process's ticks and `TotalDelta`.
The machine has run for some ticks when the constructor reads `/proc/stat`; that reading,
and each sample's, may fail and then counts as 0, as `read_total_cpu_ticks` has it.
`used`, `counted`, `steady`, `readAt`, `sampledAt` and `prevFailed` are history: the last
three say when this and the last complete sample read the total and whether the latter could.

### CpuMonitor

`stat` and `online` are the kernel's; `File` is the text of `/proc/stat` as the code
sees it, one line for the machine and one for each CPU online (`Order` gives the CPU of
each line: the one with as many CPUs up to it), and `prev` is
`prev_stats_`. A `sample()` is one action, since it reads its file at once. Differences
are taken modulo `2^Width`, as the code's unsigned subtraction does, so that a
counter that went backwards, or two counters of different CPUs, give the wrapped
value the clamp has to deal with. `older` and `newer` remember, by CPU number, what
the monitor only has by position (history). The machine's line sums over CPUs that
are offline too, as the kernel's does.

### MetricsCollector

`stage` is the main thread's place in a pass. `network_` is a `RateMonitor`, taken step by
step; the stages before it (`memory_`, `cpu_`) and behind it (`disk_`, `processes_`,
`sysinfo_`) are `Sampled` or `Throws`. `badName` stands for what makes `dump()` throw: a
process's name that is no UTF-8. A pass ends in `Broadcast` or, through main's `catch`, in
one of the three ways to `GiveUp`. `shown` sums up what was broadcast, and `spoilt` says that
a pass has failed behind `network_` (history). The same composition seen from `disk_` has
`network_` among the early stages. `ConstructThrows` is the constructor's exception
outside of `try`, after which nothing more happens but in the kernel.

### ProcessTable

`sortKey`, `sortAsc` are the fields, `arrows` the headers' classes and `drawn` the order the
rows were last put in. A click changes the first three, a snapshot the last; that each
leaves the other's alone is what finding 4 is about. `Dashboard` makes `Update` a part of
its `OnMessage`, as the snapshot handler does, and lets clicks come between any two tasks.

## 3. Runs

| Run | Shows | Bounds |
| --- | --- | --- |
| `server` | the server implements `FanOut` (`FanOutSpec`); `InOrder`, `NoneMissed`, `OneWriteInFlight`, `NoStalledQueue`, `NoExpiredEntry`, `MainNeverLastOwner`; `PublishedIsDelivered`, `DeadSessionIsReclaimed`, `ShutdownCompletes` | 2 sessions, of which 1 reads for ever; 3 broadcasts; fairness |
| `server_io_thread_dies` | finding 1 | 2 sessions, 2 broadcasts |
| `http_server` | `AnswerIsTrue`, `IdleSessionsEnd`, `AcceptRecovers`; every wait is timed (`TypeOK`) | 3 clients, 2 descriptors, fairness |
| `http_keep_alive` | finding 6 | 1 client |
| `dashboard` | `OneWayBack`, `NoOrphanTimer`, `DisconnectIsFinal`, `BadgeIsTrue`, `ChartInOrder`, `SnapshotsFollowArrows`, `Reconnects` | 2 sockets, 2 timers, history of 3, 5 seconds, 2 columns, fairness |
| `dashboard_connect_twice` | finding 2 | two calls of `connect()` |
| `process_table_click` | finding 4 | 1 second |
| `metrics_collector` | `CountedOnce`, `NoPhantomTraffic`, `IntervalsTile`, `CaughtUp`, `ShownWasMoved` | 2 devices, 1 counter, 2 units each, 3 seconds |
| `collector_every_second` | finding 5 | 1 device, 2 seconds |
| `process_monitor` | `ShareOfWhole`, `NoPhantomTicks`, `TicksShownOnce`, `PrevIsBounded`, `HogIsListed` | 2 pids, 1 row, 3 ticks |
| `process_monitor_spoilt` | finding 3 | 1 pid, 4 ticks |
| `cpu_monitor` | `OwnUsage`, `TotalUsage`, percentages within 0 to 100 | 3 CPUs, 2 ticks, 4-bit integers |

`FanOut`, `RateMonitor`, `MetricsService` and `ProcessTable` have no run of their own: they
are checked in the compositions, whose steps are theirs.

Why the bounds are enough. Two sessions give one that is registered, posted to
or freed while the other is; three broadcasts give a queue with a write under
way, one waiting and one posted. In the dashboard one connect call keeps at most
one socket or timer alive (`OneWayBack` says so), so a pool of two shows any
second one; two columns are the clicked one and another; five seconds overrun a history of three and span an outage. Two
devices allow a rename onto a name known before; the counters of a device are
computed independently, so one field suffices; three seconds give a pass that fails, one
that makes up for it and one more; the proofs cover the rest. Three clients for two
descriptors leave one in the backlog, and two that are served, one of them without a
descriptor left for its file.
Two pids with one row make the list overflow, and a pid can be freed and used
again within the three ticks, of which any number pass before the constructor; one
sample that fails, one that it spoils and one that is right again need two. Three CPUs have one before, one after and the one that
goes offline; two ticks suffice for a share of a half, for a difference that wraps
and for more active than total ticks.
`metrics_collector` is checked under symmetry of the devices, which is sound: nothing
singles one out, and all its properties are invariants. The bounds on counters (`MaxSeq`, `MaxCalls`,
`MaxCount`, `MaxTime`, `MaxTicks`) are guards of the environment's or the counting
actions only. Deadlock is checked in every run: after `main` returns,
`WebSocketServer` stutters by its action `Exited`.

Each property has a mutant: a plausible bug in a modelled definition (a dropped
`pop_front`, a missing mutex, a forgotten `clearTimeout`, ...), written beside it,
with which TLC finds the property violated.

## 4. Fairness

* Main thread: weak fairness on `MainThread`. It is never blocked but by the
  mutex, which the io thread holds for single steps, and by `join`.
* Io thread: weak fairness on each session's closures, on its write and read
  completions and on the step that follows the mutex. The `io_context` runs ready
  handlers in FIFO order, so one that stays ready is run. A write ends because the
  client reads (`Readers`) or because it fails; one to a client that neither reads nor goes
  away may wait for ever. The thread is
  blocked on the mutex at most three times per session, so weak fairness is enough.
* Nothing is assumed of requests, failing connections, signals or exceptions.
  `PublishedIsDelivered` therefore excepts a connection that fails, a shutdown and
  a dead io thread, and is promised to `Readers`.
* `HttpServer`: weak fairness on `Accept` (with descriptors free again, the outstanding
  `async_accept` completes) and on the timers. Nothing is assumed of the clients, who may
  never send, read or close, nor is it that they hang up.
* Browser: weak fairness on timers, events and main's `connect()`. That a `close` event
  follows every connection that is cut is an assumption on the browser and the network: the
  page has no heartbeat of its own. Strong fairness
  on the server's registering of a socket and on the completion of the handshake:
  an attempt may fail, but one that is repeated for ever against a backend that
  stays up is accepted some time.

## 5. What is proved

All proofs are for any sets and bounds, from the named assumptions of the
modules only (`None` is no session; the bounds are naturals).

**`WebSocketServerProofs`.** The safety properties of run `server` are not inductive
one by one. The inductive invariant `IInv` joins to them:

* `Control`, which relates the program counters to the data: `MainInv` (`todo` is
  part of the registry, `sp` is held only in a turn of the loop, no broadcast runs
  while the main thread sleeps), `IoInv` (a handler blocked in `add` or `remove`
  belongs to a session in the matching phase) and `LifeInv` (a registered session
  has a read pending or is the one being removed: this is why it is alive and why
  the main thread never is its last owner);
* `FreshInv`: a session that has not been registered has no closures, no queue and
  nothing in flight.

`TypeOK` is only preserved together with `OneWriteInFlight`, because the end of a
write pops a queue that must not be empty. `NoneMissed` needs the mutex
(`MutexFree` in `RegistryAdd`): `first` is set to the number after the last
broadcast that has locked the registry, and no broadcast is half way then.
Theorems: `TypeCorrect`, `StreamsInOrder`, `NoSnapshotMissed`, `SingleWrite`,
`NoLostWakeup`, `RegistryIsLive`, `SessionsDieOnIoThread`.

Its second part is the refinement: `ServerImplementsFanOut` is `Spec => FanOutSpec`
under the mapping `published <- seq`, `status <- Status`, `last <- Last`,
`received <- got`. `BroadcastLock` maps to `Publish`, `RegistryAdd` to `Join`, the
`RegistryRemove` of a member to `Leave`, `OnWsWrite` to `Deliver`, every other step
to a stutter. The delivery step uses `InOrder` (the front of the queue is the next
snapshot owed) and `NoneMissed` (it has been published); the leaving step uses that
`todo` is empty when the mutex is free. What `FanOut` comes to for a client is its
`Promise`: consecutive snapshots, the first being the first published after it joined, none
published after it left. `FanOutKeepsPromise` proves it of the abstract specification
(`PromiseInv`: nothing handed out runs ahead of what is published or owed), and
`ClientsArePromised` carries it over to the threads and queues.

**`MetricsCollectorProofs`.** Of `RateMonitor`: `TypeCorrect`, `TrafficCountedOnce`, `NoTrafficMadeUp`,
`IntervalsCoverTime`. The inductive invariant strengthens `NoPhantomTraffic` to
`NoPhantomDue` (not even together with what the next read would report is more
reported than was counted), `CountedOnce` by `SteadyGrows` (the counters of a device
that stays never go back), and adds `Timing` (while a sample is under way its time
is later than the last one's).

Of the composition: `CollectorUsesNetwork` shows that every step of the collector is
one that `RateMonitor` allows or leaves its variables alone, so that `IInv` of
`RateMonitor` is one of the composition, too. To it `CInv` joins the `Ledger`: what
was shown, plus what the pass under way has measured and not yet broadcast (`Pending`), is no
more than `network_` has counted, and equal to it as long as no pass has failed behind
`network_`. `TrafficCaughtUp` follows from the ledger between two passes, where nothing is
pending, with `CountedOnce`; `NothingShownTwice` from its inequality with `NoPhantomDue`.
`CollectorTypeCorrect` is the type invariant.

**`MetricsServiceProofs`.** All theorems are of the form `[](calls <= 1 => ...)`, since a
second call of `connect()` breaks them (finding 2). The invariant `OneCall` names the
situations a service can be in: `Fresh`, `Connected` (the only live socket is `socket`),
`Retrying` (no live socket, one timer, which `reconnectTimer` names) and, after
`disconnect()`, `Ended` (no timer, one closing socket at most). `AlwaysOneWayBack`,
`TimerIsNamed`, `DisconnectIsPermanent`, `BadgeTellsTheTruth` follow from it; the `error`
handler, which closes whatever `socket` is, does no harm because that is the socket that failed.

**`DashboardProofs`.** `DashboardUsesService`: every step of the page is one of the service's
or leaves it alone, so that `OneCall` holds there. `ChartStaysInOrder` needs with it `Wired`
(nothing is under way on a closed socket) and `Timeline`: what the chart shows, what is under
way on the one live socket and the clock form an ascending sequence.
`SnapshotsAreSorted` rests on `ArrowsShown`; `DashboardTypeCorrect` is the type invariant.

**`ProcessMonitorProofs`.** `TypeCorrect`, `NoTicksMadeUp`, `EachTickShownOnce`,
`CacheIsBounded`. `NoPhantomDue` strengthens `NoPhantomTicks` by what the next scan would
show (`Due`), `SteadyGrows` says that the ticks of a process no scan missed only grow.
`ScanInv` is what makes pruning safe: while the scan runs, each such process behind the
cursor is among `entries`, and all of `entries` is in the cache, so that when the cursor
has passed the last pid, erasing what was not met erases none of them. `PrevInv` keeps
`PrevIsBounded` between two scans, a scan whose `opendir()` failed included.

The two theorems on sums, `SharesAddUp` (`ShareOfWhole`) and `HogsAreListed`
(`HogIsListed`), need a second invariant, `SumInv`. Its heart is `ShareInv`: what the scan
has found, plus what every pid is still `Due`, is no more than the machine's ticks since
the last complete sample read its total; and of what is due, the part of pids already read
(`FreshDues`) is no more than `Overlap`, the ticks since this sample read its own. A
tick of the kernel adds one to both sides, reading a process moves its due into what is
found, and at the end of the scan, when unread pids are forgotten, only `FreshDues` is
left due, so that the second inequality becomes the first of the next sample. `Clock` relates
the totals to the times they were read at, also for a sample that could not read `/proc/stat`
or list `/proc`: `prevTotal` is that of the last complete sample unless its reading failed. So
`SharesAddUp` excepts a failed sample and the complete one that follows it (finding 3), and no
other. `Behind` says that what has been read lies behind the cursor. For the list it is enough that it
is full of rows no lesser than those left out (`TopInv`): a row left out with more than
its fair share would make the rows add up to more than there is.

**`CpuMonitorProofs`.** `TypeCorrect`, `UsageIsItsOwn` (`OwnUsage`), `TotalIsRight`
(`TotalUsage`), for any finite set of CPU numbers and any width. The invariant says that the
numbers shown are those computed from the lines of the last two readings (`Computed`), that
counters fit the integers and that active ticks never go back. From there it is arithmetic
and order. A difference modulo `2^Width` is exact when the counter has grown (`MinusExact`), the
clamp then changes nothing (`UsageExact`), and without that premise the clamp alone
keeps the percentage in range (`UsageInRange`). `PlacesDiffer` and `PlacesTaken` show that
the places of the CPUs are one for each line, hence a CPU whose predecessors are the same has
the same line in both readings (`SameLine`). The assumption `2^Width \in Nat` is
spelled out because the provers do not know `^`.

**`SumTheorems`.** Sums are folds, hence recursive, and the library's induction
theorems cannot be used here because they take an operator for a parameter. Its theorems on
well-founded orders can: a property of the subsets of a finite set holds if it has no
smallest counterexample (`SmallestBad`, from the well-foundedness of the strict subset
order). In this way `SumsExist` shows that the recursive equation has a solution,
`SumIsSolution` and `SumsAgree` that the fold is it, `SumRemove` that the order of the
summands does not matter, and the rest (`SumMonotone`, `SumPart`, `SumChange`,
`SumGrows`, `SumAtLeast`) what the monitors' proofs cite.

**`HttpServerProofs`.** `TypeCorrect` and `AnswersAreTrue`. The type invariant counts the
places of a client in the backlog and is not inductive so stated; `Queue` says instead that
the backlog has no client twice and holds exactly those whose `phase` is `"backlog"`, from
which the count follows. `Sessions` carries that every wait is timed, the premise of
`IdleSessionsEnd`. `AnswersAreTrue` is an action property, proved action by action.

**Model-checked only.** Liveness, since fairness and `ENABLED` are beyond the prover:
`PublishedIsDelivered`, `DeadSessionIsReclaimed`, `ShutdownCompletes`, `IdleSessionsEnd`,
`AcceptRecovers`, `Reconnects`. Every invariant and action property that a passing run checks
is also a theorem.

## 6. Findings

1. *An exception in one request's handler stops the service for all*
   (`server_io_thread_dies`). `main.cpp:15-16`: "A new JSON snapshot is broadcast to
   every connected WebSocket client every second." `serve_file` lets exceptions out,
   for instance when `read_file` is given a directory; they leave `ioc.run()`, and the
   io thread logs and ends while the main thread goes on.
2. *`connect()` is not "Safe to call multiple times"* (`MetricsService.ts:26`;
   `dashboard_connect_twice`). On a connected service it leaves the old socket
   open with its listeners: every snapshot is drawn twice.
3. *A failed reading of `/proc/stat` spoils the sample after it as well*
   (`process_monitor_spoilt`). `ProcessMonitor.hpp:25` calls `prev_total_ticks_` the
   "aggregate CPU jiffies at last sample", and the percentage is the "CPU delta since last
   sample" (`ProcessMonitor.cpp:67`). A failed reading is 0 and is stored as if it were a
   total, so the next sample divides by all ticks since boot: every process is shown close
   to 0 %. `ShareOfWhole` says that the damage ends there.
4. *A click turns the arrow, not the rows* (`process_table_click`). `ProcessTable.ts:11`:
   "Clicking a column header sorts by that column". The rows are only sorted by the
   next snapshot; with the backend away there is none.
5. *One process's name can silence the dashboard* (`collector_every_second`).
   `main.cpp:15-16` promises a snapshot every second; `dump()` (`Serializer.cpp:82`) throws on
   a string that is not UTF-8, and the kernel cuts process names at 15 bytes, so perhaps
   within a character. No client gets a snapshot while such a process is listed.
6. *Keep-alive is promised and not kept* (`http_keep_alive`). `WebSocketServer.cpp:90`:
   "Close after response unless keep-alive was negotiated." The next line always closes,
   while the answers promise keep-alive: 200 and 404 copy the request's, 403 has
   HTTP/1.1's default.

## 7. Not modelled, and why

* **The time axis of the charts**: a history holds the last `HISTORY_LENGTH` snapshots
  received, whatever their times, so that after an outage the "60-second history chart"
  (`CpuPanel.ts:21`) spans more than a minute. No run asks about it; `ChartInOrder` is about
  order and repetition only.
* **Memory monitor, system information**: stateless reading of files. `MetricsCollector` has
  their place in a pass and that they may throw; their values depend on nothing earlier.
* **Command line, scripts, markup, styles, formatting, DOM**: no state that
  outlives a call, or no property here depends on it.
* **Bounds the code does not set**: a client that reads slowly makes `queue_` grow without
  bound. What is checked is that it delays nobody else.
* **A vanished host**: `BadgeIsTrue` is about what the browser knows of its sockets
  (`readyState`); a link that was cut without a word still says Connected. How long a
  browser takes to notice a dead connection is not the program's; see section 4.
* **Integer width**: 64-bit byte and tick counters do not overflow in the life of a
  machine; the wrap that matters is that of a negative difference, which
  `CpuMonitor` models and `RateMonitor` and `ProcessMonitor` rule out (their mutants
  have it).
* **Memory order**: `g_running` is atomic and everything else is shared under the
  mutex or through the `io_context`, so steps interleave.

## 8. Plan

Done: `FanOut`, `WebSocketServer` with its liveness, refinement and theorems;
`MetricsService`, `ProcessTable` and their composition `Dashboard`, `RateMonitor` and
`MetricsCollector`, `ProcessMonitor`, `CpuMonitor`, `HttpServer`, each with its theorems.

Left, in order of importance:

1. Proofs: the safety half of the liveness properties, that is, that what must happen next
   is never given up (a pending wakeup, timer or completion for every obligation).
2. The history of `NetworkPanel` and `DiskPanel`, whose value is computed over the
   devices listed: `NetworkPanel.ts:25` speaks of the highest-traffic interface, the
   code adds all interfaces up.
