# A TLA+ verification project for tinyos-graphics

tinyos-graphics collects samples from a network of TinyOS motes, stores them in MySQL and shows
them in a browser. This directory models its concurrent parts: the web server's thread pool, event
loop, connections and handler table, its master process, the processes that carry samples from the
serial line to the database, the stored procedures and the pages that read what they stored, and the
program of the motes. TLC checks the models on small instances;
TLAPS proves their safety invariants, and that the server keeps its promise to every connection, for every
instance.

## 1. Inventory

| part | source | state | operations | interacts with |
|---|---|---|---|---|
| task pool | `src/core/tgx_task.c` | queue, semaphore, mutex, `keep_alive`, threads | init, post, worker loop, destroy | event loop and callbacks post; workers run tasks |
| connections | `src/core/tgx_connection.c` | per connection: descriptor, buffers, `rw_pos`, `travelling` | read, start/end travelling, four tasks, three write handlers, close | handlers run in the loop, tasks in the pool |
| event system | `src/event/tgx_event.c`, `tgx_linux_epoll.c` | `sched_array`, `usedfds`, epoll's interest list | register, unregister, set handler, ctl, poll, next index | loop and workers change it |
| server process | `src/core/tgx.c` | `running`, the events of one `epoll_wait` | accept, dispatch, shutdown | drives all of the above |
| start-up | `src/core/tgx.c` | configuration, pid file | parse options and configuration, daemonise, lock | runs once before the server |
| master process | `src/core/tgx.c` | children | fork, wait, fork again | owns the server processes |
| http parser | `src/http` | `http_status`, `path`, headers | callbacks for URL and headers | task 1 of the chain |
| user modules | `src/modules` | none | build JSON | task 3 of a POST |
| database | `src/db` | tables | update node, network, insert record; queries | sensor server writes, modules read |
| motes | `src/motes/TgxC.nc` | flags, two message buffers, queue, timers | boot, sampling chain, send, receive, serial pump | radio, serial line |
| microphone, CRC | `src/motes/TgxMicP.nc`, `CrcC.nc` | start state; table | read; crc16 | the sampling chain |
| sensor path | `src/sensor/sf.c`, `tgx_sensor_client.c` | sockets, client list, a packet | forward, check, send on | serial line to sensor server |
| sensor server | `src/sensor/tgx_sensor_server.c`, `pid_vector.c` | sockets, pipes, list of processes | accept, fork per client, store | calls the database |
| logging, radio printf, web pages, vendored and generated code | | | | not part of the logic |

What is hard here:

* a connection moves between the event loop and the workers; who may touch or close it is a
  convention between comments, not a lock;
* the pool's semaphore is posted before the queue is filled, and again by `destroy` without a task;
* the flag the workers test is set after they have been started;
* descriptor numbers are reused at once by the kernel;
* one `epoll_wait` returns several events, and handling one changes what another is about;
* requests and answers are cut into pieces by the network at any byte;
* the master counts children by hand, forks fail, SIGINT may hit it just before a fork, and locks are
  lost by `fork`;
* the forwarder uses the result of `select` after it has closed and accepted descriptors, its serial
  library buffers packets, and the server takes every `read` of a stream for one message;
* the stored procedures count rows and then insert or update, without a transaction, for several
  processes at once, and nobody looks at their results;
* a page is put together from several looks at the file system or the database, between which both
  change;
* on the motes three places post the task that fills the one serial buffer, and only `sendDone`
  restarts sampling.

`PROJECT.json` lists these, and the others found, under `hazards`, each at its line.

## 2. Modules

| module | models | checked by |
|---|---|---|
| `TaskSched` | the task pool | `MCTaskSched`, `TaskSchedProofs` |
| `TaskSchedProofs` | theorems about `TaskSched` | TLAPS |
| `Reactor` | one server process: loop, accept, handlers, task chain, shutdown | `MCReactor`, `ReactorProofs` |
| `ReadyList` | `Reactor` with the order of epoll's ready list; fairness | `MCReadyList` |
| `ConnLife` | what the server promises for one connection (abstract) | refined by `Reactor` |
| `ReactorProofs` | theorems about `Reactor`, and that it implements `ConnLife` | TLAPS |
| `EventTable` | `sched_array` and `usedfds` with their races | `MCEventTable`, `EventTableProofs` |
| `EventTableProofs` | theorems about `EventTable` | TLAPS |
| `HttpExchange` | the bytes of one request and its answer | `MCHttpExchange`, `HttpExchangeProofs` |
| `HttpExchangeProofs` | theorems about `HttpExchange` | TLAPS |
| `Mote` | sensor nodes, collection tree, base station | `MCMote`, `MoteProofs` |
| `MoteProofs` | theorems about `Mote` | TLAPS |
| `Supervisor` | start of the program, lock file, master process | `MCSupervisor`, `SupervisorProofs` |
| `SupervisorProofs` | theorems about `Supervisor` | TLAPS |
| `SensorPath` | serial forwarder, sensor client, the sensor server's process for it | `MCSensorPath`, `SensorPathProofs` |
| `SensorPathProofs` | theorems about `SensorPath` | TLAPS |
| `SensorStore` | tables, stored procedures, the pages `nodeInfo` and `realTime` | through `SensorServer` |
| `SensorServer` | the sensor server's main process and its processes; composes `SensorStore` | `MCSensorServer`, `SensorServerProofs` |
| `SensorServerProofs` | theorems about `SensorServer` with `SensorStore` | TLAPS |

Operators whose name starts with `Mutant_` are deliberately wrong variants of the definition that
follows them. Putting one in place of it must break a property; no specification uses them.

### TaskSched

`pc` holds the program point of every thread. The worker loop `do_pthread` is `TestAlive`,
`WaitTask`, `CheckAlive`, `LockQueue`, `PopFront`, `RunTask`, `FreeTask`; a post is `PostAccepted`
(or `PostRefused` when `on_post` fails), `PostLock`, `PostSignal`, `PostPush`; init and destroy are
one action per loop round. `keep_alive` is read without a lock, as in the code. Completion callbacks
post tasks from the point `complete`. The linked list is a sequence. `runs`, `frees`, `posts` and
`wakes` are history the properties speak about. Allocation and `pthread_create` succeed, `sem_wait`
is restarted after a signal (glibc's `signal` sets `SA_RESTART`). No caller in the repository uses
`task_lock`; its guard is modelled (`LockRefuses`: the code tests `ret < 0`, `trylock` returns a
positive error, so it never refuses) and the run posts such a task twice, but `TaskConservation` is
claimed for tasks without a lock.

### Reactor and ConnLife

A connection object is `unused`, `live` or `freed`; `sched` is the table, `interest` what epoll watches,
`queue` the tasks. A handler of the loop is one action: the state it shares with workers is the table,
epoll and the queue. A worker's step ends at each access to those, so a close is `Unregister` and
`FreeConnection`, and handing back is `EndSetHandler` and `EndCtlAdd`. Reading or closing a freed object
is undefined behaviour: `fault` records it and the process stops. Requests are abstracted to what the
handlers tell apart (`partial`, `GET`, `POST`, a POST with more bytes than announced, and `refused`: one
without Content-Length, or another method); what the parser, the modules and the file system answer is
chosen freely. Epoll is level-triggered, as the build has it.

`get_next_index` returns 0 for every argument: the source says `index = -1 ? 0 : index + 1`, an
assignment. `Current` therefore is the first event in every round.

`ConnLife` says that a connection is read, travels once, is written and closed, in this order.
`Stage` is the refinement mapping.

`AcceptFails` has the early returns of the accept handler. Only a failed `tgx_set_nonblocking` closes
the descriptor; after the others it stays open (`leaked`), and after a refused object or table entry
it is also watched, without a handler, so that every `epoll_wait` reports it once its peer has sent.
`LifeSpec` shows that they never come to life. `HandlerRead` has the ways in which the hand-over to the
workers fails (no memory for the task, the table or epoll refuse the parking), `EndCtlAdd` those of the
hand-back; each closes the connection.

### ReadyList

`epoll_wait` is asked for `maxfds` events and reports the whole ready list; level-triggered descriptors
are queued again in the same order, and the loop looks at the first event only. `ready` is that list:
a descriptor joins it at the end and leaves it only when it is no longer ready, closed or deleted.
So one that stays ready at the head keeps the loop from all others for ever: a leaked connection that is
watched without a handler does, and so does the listening descriptor when the process has no descriptor
left for `accept`. `RequestEnds` is claimed of a process with neither (`WatchedHaveHandlers`,
`FdsSuffice`), where every descriptor at the head is served and leaves; its mutant makes `AcceptFails`
leave a descriptor watched, and the property fails.

### EventTable

`usedfds++` and `usedfds--` are a load and a store. The loop registers without a lock, loop and workers
unregister under `tcycle_lock`. The counter is a `size_t` (`SizeT` values): increments that were lost let
it wrap below 0, after which the test for a free place refuses every registration. Descriptor numbers are
below `maxfds` (`SizeAssumption`): the code indexes the table with them before any test.

### HttpExchange

Every `read`, `write` and `sendfile` is a step, between which the peer sends and takes bytes. `wire`
is the sequence of bytes sent, each named by its part of the answer and its offset, so that order,
loss and repetition can be told. `PosAfterEagain` is the position after `EAGAIN`: `write`'s -1 has
been added to it, `sendfile`'s offset has not changed.

Between reading and writing come the parser's callbacks and the tasks: `OnUrl`, `OnHeaderComplete`,
then `PrepareGet` or `PreparePost`; `TaskFails` gives the connection up. Each looks at the file
system for itself, and `EditFile` may change or remove the file between any two of them, between two
write events, and between `stat` and `sendfile` of one event. A path is only what it leads to:
`file`, `module`, `dir` (without an index page; with one it is a file), `missing`, `script`.
`stat` and `open` of one write event are one look: what an edit between them leads to, one before or
after both does too.

The comparison at `tgx_connection.c:284` is the wrong way round. A POST of which the handler sees more
than it announced is never taken on (`WaitsInVain`), and one of which it sees less is taken on before its
body is there (`~BodyRead`). `ExchangeEnds` and `RequestAnswered` name these as their exceptions; the
requests of the run have bodies shorter and longer than announced, so both happen.

### Mote

TinyOS runs tasks and events to completion, so each is one action. A sample is named by node and
number. Radio and serial stack hold a pointer to `m_sensor` and `m_serial`; `handed` and `given`
remember what the buffer held when it was handed over. A message may be transmitted several times,
lost and reordered. `CollectionSend.send` refuses while the radio is off and may refuse later.

### Supervisor

`pc[i]` is the point the main process of instance `i` has reached: daemonising, lock, configuration,
socket, then the loop `TestRunning`, `Fork`, `Wait`. Server processes are counted: `kids` serve,
`leaving` have `running = 0`, `zombies` are not waited for. A child copies the master's `running`.
`numChild++` follows a failed fork too; `wait` returns at once when there is no child, which is what
saves a master whose forks all failed. The lock of `fcntl` belongs to the process: it is dropped when
the process ends, and by the forks of `tgx_daemonize`. Children keep the listening socket, so `bind`
of a later instance fails while any of them lives. SIGINT goes to the group or to the master alone;
the latter leaves children that serve on, and nothing is claimed of that case. After a fork that failed
the master goes on with one server process less for good, against the comment at `tgx.c:735`;
`CountIsRight` says by how much.

### SensorPath

The forwarder's loop is `SfSelect`, `SfSerial`, `SfAccept`, `SfGreets`, `CheckClient`; while `pend` is a packet
it is in `dispatch_packet`, one step per client in the list. `tty` and `lib` are what the device and
the serial library hold. Descriptor numbers are the lowest free ones, so they are reused. A peer that
has left makes a write fail, or swallow the packet. The client reads, checks, writes, and exits in
the five ways of the source; `stuck` is what becomes of it when `open_sf_source` returns -1 (the test
is `!sf_source`, and `FD_SET(-1)` sets a bit that `select` does not look at). Towards the server a
packet is two units; `ServerReads` takes any number of them, over what `msg` held before, and the
database may refuse the row.

`SfGreets` is the exchange of versions with a new peer, on a blocking descriptor: the forwarder, which has
one thread, waits until the peer has sent its version or left (`hello` is what each has sent). The sensor
client sends it as it connects; another program may send a wrong one, or none. `WaitsForPeer` has the two
places where the forwarder stands still for a peer: this exchange, and `read_sf_packet` of a client that has
nothing to send, whose number was reused within the round. Both are reachable, and `LineIsDrained` excepts
them; `SilentReadOnlyByReuse` says that the second has no other cause.

### SensorStore and SensorServer

Every SQL statement is a step: the connections are in autocommit mode and no procedure opens a
transaction. `ses[s].pc` is the statement the process of client `s` is at, `call` the procedure call of
`insert_mesg_to_db`, `n` the message. `SelectName` and `InsertName` stand for the three blocks that
look up or create a work state, a status and a network. A statement that breaks a unique, primary or
foreign key ends its procedure; `Returns` goes on with the next call whatever the result. `LoseLink`
breaks the connection to MySQL in the middle of a procedure or between two, and nothing opens it
again. `UpdateNode` follows MySQL's `on update current_timestamp`: `update_time` moves only if another
column gets a new value, which is why the procedure adds `unix_timestamp(now())%100` to `power`.
`gps` keeps the position apart per session. The pages are `AskNodes`, `sp_flush_network`, `NodeInfo`
(the rows, and the arrays of `nodeInfo.c`) and `AskSeries`, `RealTime`; `PageFails` is a module that
returns -1. Both pages write without a test into fields of fixed size (10000 rows, 65536 bytes): beyond
`PageRows` and `SeriesRows` the answer is `Overrun`, of which nothing is claimed. `HasTemp` is false for a
reading above 1023, whose temperature is the logarithm of a negative number: the text of the call then has
`nan` in it, and the record is refused. A 10-bit converter does not give one.

`SensorServer` adds the main process. For every client it opens a pipe it never closes and forks a
process it never waits for, so `Held` and `forked` only grow; at a limit `log_err` ends it. Its
processes keep the listening socket, so clients can go on connecting without ever being accepted.
It also takes UDP commands (`Command`): they are cut into words, but `getopt_long` is given the arguments of
`main`, so that no command is carried out. What is left are 128 buffers for each, which nothing frees, and a
word of more than 128 bytes, or a 129th word, is written behind its buffer: `Harms`, after which the process
may end. Messages arrive whole here; what happens to bytes on the way is in `SensorPath`.

## 3. Runs

| run | result | what it shows |
|---|---|---|
| `pool` | passes | 2 workers, 3 tasks, one with a lock: `NoNullTask`, `DrainNeverFails`, `TaskConservation`, `TokensMatchQueue`; destroy always ends; a queued task is run while a worker is left |
| `pool_start` | violated | a worker that is scheduled before init sets `keep_alive` ends; if all do, `PostedTaskRuns` fails, and the unit test would wait for ever |
| `reactor` | passes | 2 connections, 2 descriptors, 2 workers, 2 events per poll, failing allocations, every failure of accept, SIGINT: table, epoll and queue agree up to the first fault |
| `reactor_single` | passes | `ReadyList`: the head of epoll's list is served once per poll, steps of accept that leave nothing watched fail, allocations succeed, no SIGINT: no fault at all, requests end, `ConnLife` is implemented |
| `reactor_stale` | violated | with two events per poll, a stale event closes a connection that travels |
| `table` | passes | lookups find the entry, a reused number finds its slot free, in spite of the race on the counter |
| `exchange` | passes | order, completeness, status against page, bounds of the buffer, and liveness, for GETs of any size whose file may be edited and POSTs whose bodies are as long as announced, shorter or longer, with answers that fit the send buffer |
| `exchange_long_answer` | violated | a POST answer longer than the send buffer: a byte is sent twice |
| `mote` | passes | buffers are stable, the line is in order, the pump and the sampling go on |
| `master` | passes | 2 instances, 3 server processes each, 3 crashes, 3 failed forks: children are counted, the lock file names the only master, a server process comes back, SIGINT for the group ends everything |
| `sensor` | passes | 2 packets, one other program, reads of 1 to 4 units: no orphan, rows whole and in order while reads match packets, silent clients are read only by reuse, the library is drained unless the forwarder waits for a silent peer, the processes end together |
| `store` | passes | 3 clients, 2 networks, 4 nodes, 9 plans of messages, pages and commands: records are lost only by the race for a name or a lost link, the flush spares nodes that report, pages that fit show what is stored, clients are served up to the limits |

Three properties are stated and not claimed: `ChainNeverStops` (`Mote`) fails because nothing starts the
sampling timer again after a send that was refused, against the comment at `TgxC.nc:196`; `UsedfdsCounts`
(`EventTable`) fails because `usedfds++` in the loop and `usedfds--` in a worker lose updates;
`BodyReadFirst` (`HttpExchange`) fails because the comparison at `tgx_connection.c:284` is the wrong way
round, so that a POST is parsed before its body is there.

Type invariants are checked in the run `pool`; those of the other modules hold on the same instances and
are left out of the runs, since each is a part of an inductive invariant that is proved.

`reactor_single` leaves out what breaks the server: connections watched without a handler (section
2, `ReadyList`), several events per `epoll_wait` (run
`reactor_stale`), an allocation that fails in a task (`COPY` closes the connection at
`tgx_connection.c:676`, and `on_complete` closes it again), and SIGINT (main frees connections that
tasks still use at `tgx.c:833` before it destroys the pool). The run `reactor` has all three, and
claims only what survives them.

Bounds. Two workers are enough for one to overtake another at every point, two connections on one
descriptor for reuse of its number, two descriptors for two events. Three tasks let a callback post while
another task is queued and a third is run. `MaxCalls = 4` registers every number and one again. The send
buffer of 4 bytes is filled and emptied several times by files of up to 8, `BufSize = 6` is below, at and
above the requests. Two samples of a node, one of the base station and a queue of two fill the queue and
let watchdog and `sendDone` race. Three failed forks are as many as there are children, so a master can be
left with none. Two packets put one into the serial library, and one other program is enough for a list of
two clients and for a number to be reused. In `store` a plan says which messages the clients send, which
page is asked for, how many seconds pass and how often clients connect and which commands come; the nine
plans put together what can interfere (two first messages under one network name, a base station that
reports around a flush with `Timeout = 1` and `Cycle = 3`, three records around a query for two or for
more than the page takes, one of them refused, two networks on one page, one row more than the page takes,
four connections against descriptors for two, commands within the memory and beyond it), with all
interleavings of each. `Cycle > Timeout` is assumed because the source has 100 and 50. The bounds
`MaxRounds`, `MaxBeats` and `MaxReceived` only end the run. Symmetry is used where only invariants are
checked.

Fairness. `TaskSched`: every thread that can run is scheduled, handlers return; nobody is obliged to post
or to destroy. `ReadyList`: the loop and the workers run; nothing is assumed of the order in which
descriptors are served but that of the ready list, which the module models; peers take what they are sent,
and a response is finite, so the write handlers cannot find a full buffer for ever. `HttpExchange`: the
loop runs, a peer that made a request sends all of it and takes the answer. `Mote`: timers fire,
split-phase calls are answered, posted tasks run, a radio that is started again and again starts.
`Supervisor`: the master is scheduled, and a server process that was interrupted leaves (`epoll_wait`
returns with an error or after `event_timeout_ms`; `ShutdownCompletes` of the pool). `SensorPath`: the
three processes are scheduled, and other programs read what they are sent; nothing makes them send a
version. `SensorServer`: `accept` takes clients in turn, processes are scheduled, and the kernel resets
connections when the last listening socket is closed; no command ever has to come.

## 4. Proofs

Every module of proofs has the same plan. The component's module states an inductive invariant `IInv`
next to the properties it is for (`Supervisor`'s is in its module of proofs); TLC has checked it on the
instance of the run. Lemmas show that `Init` implies it and that each action, or group of actions, keeps
its parts; `Invariance` (`MasterInvariance`) puts them together, and the theorems about the properties
follow from it. The sets of workers, connections, nodes, clients and packets, the sizes of buffers and
queues and the bounds of the runs are arbitrary; the assumptions of each module are named `...Assumption`
and TLC evaluates them in its runs.

| module | theorems | what they hold for |
|---|---|---|
| `TaskSchedProofs` | `TypeCorrect`, `NoNullTaskAlways`, `DrainNeverFailsAlways`, `TokensMatchQueueAlways`, `ClaimsAreCoveredAlways`, `TaskConservationAlways` | any finite set of workers, tasks, posts |
| `SupervisorProofs` | `CountIsRightAlways`, `PidFileNamesMasterAlways` | any instances, `MAX_CHILD_NUM`, crashes, failed forks |
| `EventTableProofs` | `LookupFindsAlways`, `PlaceFindsOwnSlotAlways` | any workers, table size, number of calls |
| `ReactorProofs` | `EntryIsOwnAlways`, `InterestMatchesHandlerAlways`, `OneTaskPerConnAlways`, `ServerKeepsPromise`; `NoFaultAlways` under a hypothesis | any connections, descriptors, workers, events per poll, failures |
| `HttpExchangeProofs` | `ZeroInBufferAlways`, `PageMatchesStatusAlways`; `AnswerInOrderAlways`, `AnswerIsWholeAlways` under a hypothesis | any requests, sizes of buffer, files and reads |
| `MoteProofs` | `SampleIsStableAlways`, `SerialIsStableAlways`, `LineInOrderAlways` | any nodes, samples, size of the queue |
| `SensorPathProofs` | `NoOrphanAlways`, `StoredRightAlways`, `SilentReadOnlyByReuseAlways` | any finite set of other programs, packets, sizes of reads |
| `SensorServerProofs` | `RecordsKeptAlways`, `FlushSparesReportersAlways` | any clients, networks, nodes, messages, limits |

### TaskSched

That `PopFront` never meets an empty queue is not inductive: one has to know that a
worker at `lock` holds a token that stands for a task. `TokensMatchQueue` counts: the semaphore plus
the tokens held is the queue plus the task between signal and push plus the wake-ups of destroy.
That alone is not enough after destroy has posted its wake-ups, so `ClaimsAreCovered` says that the
workers about to pop are no more than the tasks: they passed `if (keep_alive)` when `wakes` was
still 0 (`Phases`). At `pop` the worker holds the mutex, so nobody is between signal and push
(`LockDiscipline`) and the queue is not empty. When destroy empties the queue every worker has left
(`Phases`), so at most one token per worker is gone and `wakes` makes up for it: `sem_trywait`
succeeds. `TaskConservation` counts the places a task may be in; it needs `Holdings` (who is at which
point has a task in hand) and lemmas on what a push, a pop and a hand-over do to the three sets of
places (`PushPlaces`, `PopPlaces`, `HolderMoves`). `TypeStep`, `ControlStep`, `BalanceStep`,
`HoldingsStep` and `ConservationStep` prove the groups of conjuncts, one step per action. Assumptions:
workers are a finite, nonempty set without the owner, `NoTask` and `NoProc` are new names, `MaxPosts` is
positive.

### Supervisor

`CountIsRight` alone is not inductive: `CountsKept` adds that an instance has no children before its
loop, that `numChild` is below the limit where the master forks and at it where it waits, and that a
master that is gone left at most `MAX_CHILD_NUM` children. With it a `fork` has room for one more, and
a `wait` that returns without a child had none to lose. `PidFileNamesMaster` is inductive because the
lock is free only when no instance is past it. Assumptions: `MAX_CHILD_NUM` is positive and `Nobody`
is a new name.

### EventTable

`OwnSlots`: a slot is free or holds the descriptor of its own number, and is taken exactly from
registration to removal. Then the search of register ends at once and that of find succeeds
(`SearchIsLocal`, `OwnSlotIsFree`), and the counter with its lost updates does not matter. It needs
`OneCaller`: two processes are never inside the table for the same descriptor, because only the loop
registers and a descriptor is unregistered by whoever owns it. A counter that has wrapped only refuses
registrations. Assumptions: descriptor numbers are below `maxfds`, and `size_t` has more values than that.

### Reactor and ConnLife

Five parts need each other. `OwnFds`: an open descriptor is that of one connection, a closed one is
neither watched nor in the table. `Tasks`: a task is in one place and its request was taken on. `Entries`:
a live connection is in the table until the worker that closes it has taken it out, under a handler that
fits what epoll watches. `ChainSteps`: the last steps of the chain find what the ones before them left.
`LoopHasEvent`: the loop is never without the event it handles. They hold for any number of events per
poll, for allocations that fail and, as they are proved for `InterruptedSpec`, after SIGINT; the model
stops at the first fault.

`NoFaultAlways` has the hypothesis `MaxReady = 1`, `AllocOK = {TRUE}` and speaks of `Spec`, without SIGINT:
these are the three ways of the code to break it, as section 3 says, and `reactor_stale` shows one of
them. `SingleInv` adds `EventIsFresh` (the descriptor is still watched for what the event says) and
`TravellerIsLive`, which under this hypothesis becomes a theorem.

`ServerKeepsPromise` is the refinement, with no hypothesis: `Spec => LifeSpec`. The run checks it on one
instance; the proof takes every action, shows what it does to `Stage` of the connection it is about
(`LifeStarts`, `LifeHandler`, `LifeEnds`, `LifeAccepts`, `LifeWorks`) and that it leaves the `Stage` of
all others alone (`OneStage`, `NoStage`). It rests on `IInv` and on `Travels` (a connection is under the
read handler exactly before it travels), which holds of `Spec` alone. Assumption: `None` is no record.

### HttpExchange

`ZeroInBuffer` and `PageMatchesStatus` need `Phases` (the handler tells how far the exchange is) and
`LooksAgree` (what one look at the file system found is still true at the next, except for a file, which
may be edited). `AnswerInOrderAlways` and `AnswerIsWholeAlways` have the hypothesis `AnswersFit`: a
header, and header and body of a POST's answer, fit the send buffer. The code sends those with one `write`
and repeats bytes after `EAGAIN` otherwise, as `exchange_long_answer` shows; files may have any length.
With it the buffer is only ever full while a file goes out by `sendfile` (`NeverBlocked`), so that
`Progress` holds: `rw_pos` is how much of the part at hand is on the wire.

### Mote

`OneActivity`: a node has one thing under way, the timer, the chain of sensors or a message that is being
sent; a buffer is therefore never filled while the stack has it. `LineInOrder` is an existential over
embeddings, which the proof extends by one point whenever the serial port has sent a packet; `QueueIsRest`
and `PumpInOrder` say that the queue is the end of what was received and the message being sent comes from
before it.

### SensorPath

`NoOrphan` and the two properties of the list are proved with `Connections` (a peer waits in the backlog
or has one descriptor) and `Rounds` (what `select` reported holds until the loop comes to it, or the
descriptor is new), and with the peer that is being greeted at the head of the backlog. That `accept`
always has a descriptor to give is a pigeonhole argument (`FreeFdExists`). For `StoredRight` a packet
passes seven places; `InOrder` says that these hold ranges of numbers that follow each other, and
existentially names the borders. Each step moves one border or none; the packet being dispatched counts
only while the sensor client is still to be written to (`Awaits`). `WholeRead` shows that a read of two
units is one packet, with a number above those of all rows, as long as every read before it was one
packet.

### SensorServer and SensorStore

`InStep` ties the point, the call and the number of the message of a process together. `Prepared` says
that the first call leaves the network and the node in the tables, unless a race or a lost link spoilt it,
and that nothing takes them out again, so that the third call finds its foreign keys there. `Recorded` has
the records of each session in order. `WhoWrites` says once which statements can change a table, and the
proofs about one table look at those only. `Reports` is the part `FlushSparesReporters` needs:
`update_time` is the second of a report, and all later ones fell on its second of the cycle. Two such
reports in different seconds of the last `Timeout` are less than a `Cycle` apart, and then they differ
modulo `Cycle` (`Divides`, `SameSecond`); so a node that goes is one of which at most one report is
recent. This is where `Cycle > Timeout` (100 and 50) is used. Assumptions besides: node numbers are
natural numbers, `None` is a new name.

### What is only model-checked

* Liveness: `ShutdownCompletes`, `SurvivingWorkerServes`, `RequestEnds`, `ExchangeEnds`, `RequestAnswered`,
  `QueueIsServed`, `SamplingGoesOn`, `ServiceRecovers`, `InterruptEndsAll`, `LineIsDrained`, `SessionEnds`,
  `ClientIsServed`. Fairness and `ENABLED` are out of the prover's reach.
* `PageShowsAll` and `RealTimeIsNewest`: the arrays of the pages are built with folds and sorted sequences
  of the library, and what those compute for every input needs an induction over data.
* What the runs expect to be violated.

All other properties of the passing runs are theorems.

## 5. Observations

Met while modelling; where a property has to except one, its comment says so.

* After a refused send a node stops sampling (`TgxC.nc:289`). Until its radio has started the base
  station sends an uninitialised parent (`TgxC.nc:152`), which the foreign key of `tb_network` refuses.
* All clients that reach the server under one address share a network name, as it is made from the local
  end of the socket (`tgx_sensor_server.c:311`); equal node numbers of two networks then share a row.
* A 304 is sent with the whole body, 304 overrides the 404 of a directory, whose header is then not
  followed by content, and the 400 of a script becomes a 404 because `path` was not set.
* A file that grows or shrinks after the header is sent does not match its Content-Length; one that is
  cut short between `stat` and `sendfile` keeps the handler, and with it the process, in a loop.
* A connection whose registration failed and that stays watched, or a listening descriptor that finds no
  descriptor left, stands at the head of epoll's ready list for ever and keeps the loop from all others.
* A POST with more bytes than it announced waits for ever, once the handler has seen them.
* A peer that connects to the forwarder and says nothing stops it, and with it the way from the base station.
* The sensor server loses 16 KB with each UDP command, and carries none out.
* `realTime` answers with as many entries as were asked for; what the query did not find is 0.
* A report in the same second modulo 100 as the one before does not move `update_time`.
* After the sensor server has run into a limit, clients may wait for ever in the queue of a listening
  socket that only processes of other clients hold.
* In `search_proc_creater.sql`, which the runs do not reach in these places, `sp_get_max_record` takes the
  minimum for `temp`, and some queries name views that `view_creater.sql` does not create.

## 6. What is not modelled

* The text of the configuration file: its values are constants of the models. Mime types, JSON and
  header text, conversion of samples, logging and the pages in the browser: formatting, without state.
* Queries that nothing calls, the modules `nodeInfo_die.c` and `abso_time_record.c` (older versions that
  do not match the connector any more), the query and delete operations of the process list (never
  called). What a write behind an array or a buffer does is not followed: a page is then `Overrun`, the main
  process of the sensor server may end.
* The microphone driver and its test (`TgxAppC.nc` does not wire it, and `TgxMicC.nc` does not compile),
  the radio printf (commented out in the Makefile), the CRC (a pure table lookup).
* Vendored and generated code: `lib/gc-7.2`, `lib/http-parser`, `lib/json-c`, the serial forwarder
  library, the nesC compiler's output and old copies under `motes/backup`. Together they are nine tenths
  of the repository's lines, and none of them is this program's own logic.

## 7. Plan

1. Done: all modules of section 2, and a theorem for every safety invariant of the runs, the refinement of
   `ConnLife` and the action property `FlushSparesReporters`.
2. Next: what follows from the proved invariants and is worth stating by itself: that `wait` of the master
   never blocks without a child to wait for, that `get_index` of `nodeInfo` stays in its array, that a
   connection object is taken by one `accept` only, and lemmas about the sequences the pages are built from
   as far as they need no induction.
