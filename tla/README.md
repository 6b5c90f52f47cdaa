# A TLA+ verification of shs

shs is a C++ framework for HTTP services.  A *master* process keeps a set of
*worker processes* and a *monitor process* alive.  Each worker process accepts
HTTP connections in its main thread, hands each request to a business module
loaded from a shared object, runs the module's methods on a pool of *worker
threads*, and writes the answers back from the main thread.  A module can call
other services through the *downstream* library, an HTTP client that runs in
the worker threads' own event loops.

This directory holds TLA+ modules that model those parts, TLC configurations
that check them on small instances, and proofs checked by TLAPS for instances
of every size.  Paths below are relative to the repository root.

## 1. Inventory

| Component | Source (`src/`) | State it keeps | Operations | Model |
|---|---|---|---|---|
| Invoke pipeline | `framework.cc`, `module_impl.cc`, `worker.cc`, `task.cc`, `event_watcher.cc`, `http/invoke_timer.cc` | `timers_`, `invoke_id_`, `results_` and its lock and pipe; per worker `tasks_`, its lock, two pipes, `running_` | `Invoke`, `DispatchTask`, `AddTask`, `HandleTask`, `Task::Run`, the completion callback, `InvokeComplete`, `HandleInvokeTimeout`, `Stop` | `InvokePipeline`, `InvokeService` |
| Master process | `process.cc`, `process_cycle.cc`, `core/shs_channel.cc` | `g_processes`, `g_last_process`, `g_process_slot`, the signal flags, `live`, delay and countdown of a shutdown, pid file | `spawn_process`, `reap_children`, `signal_worker_processes`, the loop of `master_process_cycle`, `signal_handler`, `channel_handler` in the children | `MasterCycle` |
| HTTP server | `http/http.cc`, `http/http_handler.cc`, `service/*` | per connection: status, request, buffers, write handler, event and timer flags; per request: `hc`, `uri`, `kind`, `userdone` | accept, read, parse, dispatch, reply, close | `HttpServerConn` |
| HTTP client, downstream requests | `http/http.cc`, `downstream/request.cc` | per request: context, connection, retry counter, timers | `Execute`, connect, send, receive, timeout, retry, callback | `DownstreamRequest` |
| Host selection | `downstream/host.cc` | ring of virtual nodes, failure counters, 80 slots of host groups with reference counts in shared memory | `Master`, `Slave`, `GetHashIdx`, `Create`, `Release` | `Hosts`, `HostSelect` |
| Event loop, connection pool | `core/shs_epoll.cc`, `core/shs_event.cc`, `core/shs_thread.cc`, `core/shs_conn*.cc` | active/instance flags, handlers, posted queues, the kernel's interest list, free connections | set-up, wait, post, call, register, close, reuse, reconnect, end | `EventLoop` |
| Timers, red-black tree | `core/shs_event_timer.cc`, `core/shs_rbtree.cc` | timer tree, `timer_set`, the current time | add, delete, find, expire; insert, delete, rotate | `EventTimer`, `RbTree` |
| Shared memory, slabs | `core/shs_shmem*.cc`, `core/shs_slabs.cc` | storages, free lists, levels, size classes, statistics | allocate, free, split, merge, recover | `ShMem`, `Slabs` |
| Locks, block list | `core/shs_lock.cc`, `core/shs_mblks.cc` | lock words, signal masks kept in the locks, free blocks and counts | create, lock, try, unlock, reset, destroy; get, put | `SharedLocks` |
| Other containers, arena pools | `core/shs_hashtable.cc`, `core/shs_chain.cc`, `core/shs_memory_pool.cc` ... | the structures | insert, delete, find | not modelled (section 8) |
| Statistics, configuration, logging, helpers | `stats.cc`, `config.cc`, `comm/*`, `log/*` | counters, flags | - | not modelled (section 8) |

How they interact: master and children share nothing but signals and a socket
pair per child.  Inside a worker process the main thread and the worker
threads share `tasks_` (main thread produces) and `results_` (worker threads
produce); each vector has a lock and a pipe, and the pipe is written only when
the vector was empty.  Everything else of a request belongs to the main thread.
The downstream library runs entirely inside one worker thread; it shares the
host table with the other threads and processes through shared memory.

The behaviours that are hard: the wake-up protocol of the two pipes; the race
of an answer with its timeout and with further calls of the same callback;
shutdown while requests are outstanding; a signal handled only at one point of
the master's loop, so that several arrive together; children that die, fail to
start or do not react while the master reloads, upgrades or stops; connections
that are freed from inside their own callbacks; retries that reuse a
connection object while events for its predecessor are still being handled.

## 2. Modules

`InvokeService` is the abstract specification of what `Framework::Invoke`
promises.  `InvokePipeline` is the detailed one.  `MasterCycle` models the master and its children,
`HttpServerConn` one incoming connection of a worker process and
`DownstreamRequest` one outgoing request of a worker thread; both rely on the
others only through what they promise: the server connection assumes of the
framework one callback per `Invoke`, which is `InvokeService`.  `EventLoop` and
`EventTimer` are the loop all of them run in, `Hosts` (over the pure
`HostSelect`) the table the downstream library chooses from.  `Slabs` extends
`ShMem`; with `SharedLocks` they are the parts of the library that the server
itself does not call, and are modelled with arbitrary clients that keep to the
interface.  A module `XProofs` extends `X` and has the theorems about it: there
is one for `InvokePipeline`, `MasterCycle`, `HttpServerConn`,
`DownstreamRequest`, `EventLoop`, `Hosts`, `SharedLocks` and `Slabs` (with
`ShMem`).  `MC*` modules instantiate a module for TLC.

### InvokePipeline

One atomic step is the code between two points where another thread can
interfere: a critical section, a read or write of a pipe, or a read of a flag
another thread writes.  `mpc` and `wpc[w]` say between which points the main
thread and the worker threads are.

| Actions | Code |
|---|---|
| `SpawnThread`, `SetRunning`, `TestRunning` | `Worker::Start` creates the thread before it sets `running_`, which `Worker::Main` tests |
| `InvokeUnknownModule`, `InvokeModule` | `Framework::Invoke`, `AddInvokeTimer`, `ModuleImpl::Invoke` |
| `DispatchTask`, `NotifyTask`, `DispatchBusy` | `ModuleImpl::DispatchTask`, `Worker::AddTask` |
| `MainPushResult`, `WorkerComplete`, `MainNotifyResult`, `WorkerNotify` | `Framework::InvokeComplete` |
| `HandleInvokeTimeout`, `CompleteTimeout` | `Framework::HandleInvokeTimeout` |
| `WakeResults`, `SwapResults`, `HandleResult`, `CompleteResult`, `ResultsDone` | `Framework::HandleInvokeComplete` |
| `WakeTask`, `SwapTasks`, `Run*`, `Callback`, `TasksDone` | `Worker::HandleTask`, `Task::Run`, the business method |
| `StopBegin`, `BatchEnd`, `StopTimer`, `StopWorker`, `Join`, `StopEnd`, `WakeStop`, `HandleStop` | `Framework::Stop`, `Worker::Stop`, `Worker::HandleStop` |

A business method is arbitrary code that holds a callback: it may call it
never, once or again, inside the method or later from its own event loop.
Payloads are abstracted to the invoke id.  A timer that is armed may fire at
any iteration of the loop, so no relation between time-outs is assumed.

`Framework::Stop` begins inside a handler and lets `HTTPService::Stop` close
the epoll descriptor of the main loop.  The rest of the batch of events is
still served (`stop` is "last" or "lastpipe"); after `BatchEnd` only timers go
off (`Serving` is false), as in the code.  A worker thread ends when
`Worker::Close` has run in it; that this frees structures its loop uses for the
rest of the batch is where `EventLoop` ends, and is undefined behaviour in the
code rather than a step of the model.

### MasterCycle

One step of the master is the treatment of one table slot, one spawn or one
test of the loop.  Signals are blocked outside `sigsuspend`, and no step of the
master between two `sigsuspend`s can tell a running child from a zombie, so
children and operators move while the master sleeps.  A child is `init` until
it reaches its event loop, `run`, `told` once it has seen a stop request,
`zombie`/`zombie2` (exit status 2) when it is dead, and `gone` when it has been
waited for.  Time is abstract: a running interval timer may go off at any
moment.  Assumptions: the master was started as a daemon (so SIGWINCH and
SIGUSR2 are acted on) and pids are not reused.

### DownstreamRequest

One call of `downstream::Request::Execute` in the event loop of a worker
thread, through all its attempts, to the single call of `response_handler`.
The functions call each other deeply and free what their callers still hold,
so `pc` names the function that is running and `detached`, `making` and
`first` what is left to do on the stack when it returns.

| Actions | Code |
|---|---|
| `Execute` | `Request::Execute`, `RequestContext`, `http_make_request` |
| `ConnectFails`, `ConnectBegins`, `ConnectsAtOnce` | `http_conn_connect` |
| `RetryConnect` | `http_retry_connect` |
| `WaitConnect`, `SendRequest`, `WriteHandler` | `conn_wait_connect_handler`, `http_send_request`, `conn_write_handler` |
| `ReadHandler`, `ReadIgnored` | `conn_read_handler` and the parsers, `conn_close_handler` |
| `HandlerResponse`, `Return` | `HandlerResponse` with its retry, the rest of the callers |
| `WriteTimer`, `ReadTimer` | the two timers of a connection |
| `PeerSend`, `PeerClose` | the peer (external) |

A response is a sequence of pieces: 1 and 2 the first line, 3 and 4 the
headers, the rest the body; what the parsers tell apart is the response's
*kind*.  The choice of a host is an outcome (found or not).  `SyncConnect`
says whether a non-blocking `connect` may succeed at once, which the code
handles but TCP on Linux practically never does; `synced` remembers that it
did, and the properties say what they allow then.

### HttpServerConn

One incoming connection in the main thread of a worker process, with the
`http_req_t` objects that succeed each other on it.

| Actions | Code |
|---|---|
| `Accept` | `http_accept_handler`, `http_get_request`, `http_get_request_with_connection` |
| `Event`, `Return` | `epoll_process_events` posts the read and the write event; `event_process_posted` calls the second unless the connection was closed by the first |
| `ReadHandler` | `conn_read_handler`, `conn_recv` and the parsers up to `http_conn_done` |
| `HandleRequest`, `HandleNothing` | `http_handle_request`, `HttpReqHandler`, `HttpStatusHandler` |
| `Reply(o)` | `InvokeReply`, `StatusReply`, `http_send_reply` |
| `Flush`, `WriteHandler`, `WriteTimer` | `http_write_buffer`, `conn_send`, `http_send_done`, `conn_write_handler` |
| `ConnFail` | `http_conn_fail`, `http_incoming_fail`, `http_conn_free` |
| `ClientSend`, `ClientReads`, `ClientLeaves` | the client (external) |

Epoll is edge-triggered: `edge` and `wedge` are unreported edges, and a report
names everything that is ready, EPOLLOUT included once it is registered.  A
request is cut into pieces (two of the first line, the headers, two of a
body).  Failing allocations and the capacity of a request's buffers are not
modelled.

`obj[o].resp` is `req->kind`: `http_response_code` makes a request object a
response (`src/http/http.cc:1562`), and `http_parse_firstline` and
`http_read_header` go by it.  After a malformed request the status stays
READING_*, so what arrives while the error page waits to be written is parsed
on the same object, now as a response: its first line is no request line and
never sets `uri`, its headers may end, be malformed or announce a body
(`ReadResponse`, where the outcome is a choice).  Either way the object gets
another page, and the connection is closed with it; no module sees it.  To
keep the number of states down, the client begins only requests of the kinds
"get" and "badline" while such a page waits (`Behind`): the model tells what
arrives there apart by its first line only.

### EventLoop, EventTimer and RbTree

One thread's loop from `thread_event_init` to `epoll_done`.  `mode` is "main"
(events are posted to two queues, accept handlers first) or "worker" (handlers
are called straight from the batch).  A handler is any sequence of what
handlers in the code do: `Close`, `Take` (accept or connect), `Reconnect`,
`Watch` (register an event), `Timer`, and for a pipe `StopService` or
`WorkerClose`.  `conn[c].watch` is what the kernel was asked for, `active` the
flags of the code.  `EventTimer` has the timers with their tree as `RbTree`
computes it (insertion, deletion and rotation as in `shs_rbtree.cc`), the lazy
re-use of a set timer, and the time, which other threads update and which may
go back.  `RegisterEvent` ignores a failure of its call, and so does the model.

### Hosts and HostSelect

`HostSelect` holds the algorithms: `GetHashIdx`, the binary search that looks
one node ahead and so reads one past the ring for a hash beyond the last
offset (`junk` is what it finds there), `Master` with the history of a request
and `Slave`.  `Hosts` has the processes: the master makes a server and forks,
every child has a copy, and copies are released or die.  Whether a host is
alive is an outcome.

| Actions | Code |
|---|---|
| `CreateOwn` | `Create` in a worker, or when no slot is available |
| `Create`, `NextIndex`, `WrapIndex`, `TestIndex` | `Create` takes the mutex; `GetIdleIndex`: `next_group_index++` (`src/downstream/host.cc:568`), the wrap (571), the test and `avail_group_cnt--` (576) |
| `CreateIndex`, `CreateGroup` | the writes of `index` and `ref_cnt`, then of `group`, and `AddMasterServer`, `AddSlaveServer` |
| `Release`, `Reset`, `ReleaseLast` | `Release`; for the last reference `HostGroupData::Reset` (hosts, `group`, then the rest) and `avail_group_cnt++` |
| `Fork`, `Die` | the master forks a child; a process ends, with the mutex or without (external) |
| `Execute`, `SelectMaster`, `SelectSlave`, `Retry`, `Finish` | a downstream request and `SelectHost` |

`Create` and `Release` are one action for each write to shared memory (the
fields that `Reset` clears together in two groups and a rest), so that a
process can die with the mutex between two of them.  A death between the two
writes of `next_group_index` at the last index leaves an index beyond the
array (`torn`), and the next search reads memory that is not the provider's
("beyond"): the model lets it search there until its process dies, and has no
slot found in that memory.

A slot knows its group by the address of a `HostGroup` object, as the code
does.  `Release` deletes the object, and a new one may get any address at which
its process has none (`New`), so that a copy left over from an earlier group
can have the address of the later group of the same slot.  `robbed` remembers
the groups of which such a copy has taken a reference.

### ShMem and Slabs

`ShMem` gives the segment as a value with its free lists, levels, order of
storages and statistics, and every operation of the allocator as a function of
it; `Slabs` adds the manager of size classes and the clients.  Sizes are small
numbers, headers included, `Word` stands for 2^64.  The kind of the levels and
of the classes, and the largest class, are chosen at the start.  The loops of
`shs_slabs_clsid`, `shs_slabs_recover` and `shs_slabs_alloc` are recursive
functions over one turn each (`look`, `recover_one`, `obtain_again`); their
number of turns is bounded by the number of classes or of chunks, after which
a turn changes nothing.

`SlabsAssumption` has the header of a chunk, the smallest item and the linear
step as multiples of the alignment.  The first is a C structure and the last
must be 1024 (`src/core/shs_slabs.cc:152`); the smallest item is the caller's,
with `SHS_SLAB_DEFAULT_MIN_SIZE`, 1024, as the default.  With one that is not
aligned, linear classes hold a little more than `shs_slabs_clsid` reckons
(line 65), and it may choose a class one too large.

### SharedLocks

Two scenes: the locks that block signals, and the block list of
`shs_mblks.cc` under the atomic lock.  A lock call is two steps (signal mask,
then the pthread call), since the mask is saved in the shared lock before the
lock is obtained.  Threads die anywhere; a reset is a legal one, after the
death of the holder.

## 3. What the runs check

| Run | Bounds | Properties |
|---|---|---|
| `invoke_dispatch` | 3 requests, 2 workers, queues of 1, through shutdown | `DispatchedOnce`, `CleanExit`, `ResultWakeup` |
| `invoke_live` | 2 requests, 1 worker, queue of 2, 2 calls of each callback | `TimerRegistered`, `AnsweredOnce`, `TaskWakeup`, `ImplementsService` (refinement of `InvokeService` with its liveness), `ShutdownCompletes` |
| `invoke_start_race` (violation) | 1 request, 1 worker | `QueuedIsTaken` |
| `master_table` | 1 worker process + monitor, 4 slots, 5 pids, 2 signals of HUP, QUIT, USR2, WINCH, 2 crashes | `ChildrenTracked`, `LeavesClean`, `Staffed`, `DeathNoticed` |
| `master_stop` | the same children, 4 pids, 2 signals of HUP, TERM, QUIT | `TerminateCompletes`, `QuitCompletes`, `OldRetired` |
| `ds` | 2 attempts of 2 connects, all kinds of responses, body of 2 pieces, all faults, immediate connects | `CalledOnce`, `Owned`, `LastReason`, `WholeUnlessClosed`, `Answered` (nothing assumed of the peer), `AnsweredByPeer` (a peer that goes on) |
| `http` | 3 requests of all 6 kinds, at most 2 pipelined and more behind a waiting error page, a client that leaves and is slow, 1 full buffer per reply | `Owned`, `WholeUnlessClosed`, `InOrder`, `Settled`, `LeaverClosed` |
| `loop` | 2 connections, each replaced at most twice in a batch, both kinds of loop | `FreshEvents`, `PoolIntact`, `WatchedActive` |
| `timer` | 7 timers of different or 6 of pairwise equal times; 2 or 3 timers while time goes on | `TreeSound`, `FiresOnTime` |
| `hosts` | master, worker and monitor; 2 slots, 2 servers, 4 copies, 2 addresses; requests while the second slot is idle, with two servers for one hash; two rings of 4 nodes (in one the hashes are equal and too small to be spread, so that all offsets are 0), 2 masters, 2 slaves, 2 retries | `SlotKept`, `IdleFound`, `SelectRight` |
| `slabs` | 16 units, 2 or 3 classes, requests of 2 to 4, raw requests of 1 and 5 | `SegmentSound`, `FailsOnlyWhenFull`, `ChunksOwned`, `DriftBounded` |
| `locks` | 2 threads, 1 death, 3 blocks | `MaskRestored`, `PoolSound` |

The type invariant of a module is a conjunct of the invariant whose comment
says so; those of the modules with proofs are proved.

Why the bounds are enough to be interesting: two requests let an answer race a
timeout and another answer, and two callback calls are the shortest duplicate;
three requests on two workers with room for one each make every queue empty,
full and refusing; a queue of 2 grows without a second notification.  One
worker process and the monitor make two children, and five pids on four slots
fill the table with two generations, open holes and shrink it again; forks fail
when the pids are used up.  Two attempts of two connects are the fewest in
which both retry counters start again or run out.  Three requests on a
connection are the fewest in which an error page waits behind an unread reply
and meets more data.  The instance bit alternates, so a connection must be
replaced twice in one batch before it repeats.  Seven nodes, added and deleted
in every order, make trees of four levels in which the balancing goes on beyond
its first step.  With
two slots `next_group_index` has a last index and another one, the search
passes over a slot in use, and two servers make a slot change hands; two
addresses are one to be used again and another one, and interchangeable (the
symmetry of `MCHosts`).  The fourth copy of a server is the first that
`ref_cnt` did not allow for.  `MCBound` keeps requests out of the states with
the last slot in use: selecting reads the slots and changes none.  Sixteen units hold enough
storages for a freed one to have free, taken and no neighbours on either side,
and three classes distinguish the smallest, the largest and one in between.

What the properties allow is part of the result:

* `ShutdownCompletes` excepts a result that a worker thread pushes when the
  main loop's epoll is closed: nobody takes it out of `results_`, and
  `Framework::Stop`, which waits for `results_` to be empty
  (`src/framework.cc:296`), re-arms itself for ever.
* `LeavesClean`.  The reload branch (`src/process_cycle.cc:301-310`) starts
  children but does not set `live`.  If all children had ended with status 2,
  SIGTERM then makes the master leave without stopping the new ones
  (`revived`).  After a failed upgrade the wrong name of the pid file is
  removed.
* `Answered` and `AnsweredByPeer` except a request that is `lost`:
  `HTTP_FLAGS_CLOSEDETECT` is 3, so clearing it (`src/http/http.cc:505-508`)
  clears `HTTP_FLAGS_OUTGOING` as well, and a request that is written in two
  parts is finished as if it were a reply.  `Answered` also excepts a response
  that has begun, since the read timer is deleted by the first data
  (`src/http/http.cc:1977-1980`) and never set again, and `AnsweredByPeer` a
  response that ends inside its head.
* `HttpServerConn!Owned` names two situations in which the code uses a freed
  request, both of them reached: `http_handle_request` clears `uri`
  (`src/http/http.cc:1744`) after a callback that answered at once; a status
  request, whose `uri` is not cleared, is handed over again when end of file
  arrives.  Everything else is shown not to: a client that leaves, a timeout
  during the service, and data behind the error page of a malformed request,
  which are parsed into the object that is freed with the page.
* `Settled` counts a connection the server closes.  It does so also without
  need: the write handler and EPOLLOUT of a reply that did not fit stay on a
  kept connection, the next request is reported with EPOLLOUT, the handler
  finds nothing to send, and 0 bytes are taken for a closed connection.
* `LeaverClosed` excepts end of file read together with data: there is no read
  timer on incoming connections, and no further event.
* `FreshEvents`: a worker's loop does not test the instance bit again between
  the read and the write event of one entry, and the bit repeats after two
  replacements.
* `SlotKept` holds while no more copies are released than `ref_cnt` counts.  A
  worker that released its copy and is started again releases once too often:
  the others lose the slot, and `ref_cnt`, an unsigned number of 16 bits, goes
  below 0 when a process died between the count and `Reset`.  The copies that
  remain leave the next group in the slot alone, unless its object has the
  address of theirs: `Release` compares addresses
  (`src/downstream/host.cc:626`), so the next group loses references, too
  (`robbed`).  This takes a group with too many releases; while all groups
  balance it does not happen.
* `IdleFound`: the number of idle slots is right wherever a process died.  That
  `GetIdleIndex` stays in the array is claimed unless one died between the two
  writes of `next_group_index` (`src/downstream/host.cc:568`, `571`): then the
  next search reads `group_data[80]` and beyond.
* `SelectRight`: a hash beyond the last node falls on the first node or,
  depending on the memory behind the ring, on the second.
* `MaskRestored` holds until a try fails (signals stay blocked), a thread locks
  with another lock held, or a lock is destroyed that nobody ever locked; what
  comes back is a mask *some* thread started with, not necessarily its own.
* `FailsOnlyWhenFull`: with two classes of type POWER a request between them
  finds none, and a storage below `min_size` hides larger ones from a request
  of at most `min_size`.
* `DriftBounded`: `shs_slabs_free` returns an error, after it has listed the
  chunk, when `used_size` is below the size of the class, and does not count
  it.

A response with Content-Length: 0 is an error to the client
(`http_get_body_length` refuses a length of 0) although the server side of the
same library sends it; the model has it as kind "empty".

The violation: `Worker::Start` (`src/worker.cc:91-97`) creates the thread
before it sets `running_`.  A thread that is scheduled first leaves `Main` at
once.  Its queue still accepts tasks; they all end in timeouts.

## 4. Fairness

`InvokePipeline!Fairness`: a thread that can take its next step takes it (weak
fairness).  The event loops serve, in each iteration, every readable
descriptor and every due timer, so a pipe that stays readable or a timer that
stays armed is served however often the loop does other things in between
(strong fairness on the wake-ups and timeouts).  Nothing is assumed of callers,
business code or signals.

`MasterCycle!MasterFairness`: the master goes on and its timer goes off.
`ChildFairness` says that children start, read their channels and end once
told, which is what `ShutdownCompletes` shows of a worker process, but for its
exception.  Only
`QuitCompletes` assumes it; `TerminateCompletes` holds without.

`DownstreamRequest!Spec`: a call that is running goes on and an event that was
reported is handled (weak fairness); a timer that is set expires, and the write
timer, whose timeout is 0, also if it is set again and again.  Of the peer
nothing is assumed, except by `AnsweredByPeer`, where it sends the rest of a
response it has begun or closes.

`HttpServerConn!Spec`: the same for the main thread, and the framework calls
back once for every `Invoke`.  Nothing is assumed of the client.  The other
modules have safety properties only and assume no fairness.

## 5. What is proved

The theorems hold for every value of the constants: any number of requests,
workers, connections, slots, threads and retries.  Each module's proofs rest on
the one `ASSUME` of the module they are about, which says little more than that
the constants are numbers; the runs evaluate it.  They speak of the behaviours
without fairness (`SafeSpec`, or `Spec` where there is none), so that they hold
of the fair ones too.

A theorem `XAlways` is `SafeSpec => []X`.  Hardly any of the properties is
inductive as it stands, since they speak of the points where an event has been
handled and the code has many steps in between; what has to be added is where
the argument lies, and is named below.  Every such invariant was first checked
by TLC on the bounds of section 3, except `SlabsInv`, whose types TLC cannot
enumerate.  A module's proofs have the types first, one
lemma per group of variables, then per part of the invariant one step per
action, and the theorems at the end.

**`InvokePipelineProofs`**

* `TypeCorrect`: `SafeSpec => []TypeOK`.
* `TimerRegisteredAlways`: `TimerRegistered` is inductive relative to `TypeOK`.
* `AnsweredOnceAlways`: likewise with `TimerRegistered`; answers, registration
  and an answer in progress add up to one for every id taken.
* `CleanExitAlways`: needs `ThreadInv`, which says how far each thread can be
  while the main thread starts, stops or joins it.
* `QueueBoundedAlways`: no queue outgrows `queue_size_`, although the size test
  is skipped for an empty one.
* `ResultWakeupAlways`: `ResultWakeup` quantifies over a set of wake-ups that
  cannot be counted by the prover; `WakeupInv` states the same by cases (no
  wake-up when `results` is empty, else exactly one of pipe byte, one worker
  about to notify, main thread about to notify or to swap) and is inductive.
* `TaskWakeupAlways`: the wake-ups of one worker are three numbers of which at
  most one is 1, and the property is inductive with the types.
* `DispatchedOnceAlways`: needs `PlaceInv`: the vectors of a worker have no
  repetitions and share nothing, no two workers share anything, and a request
  that is being dispatched is nowhere yet, as every id in use is below
  `invoke_id`.
* `ImplementsServiceSafety`: every step is a step of `InvokeService` or a
  stutter under the mapping `Service`.

**`MasterCycleProofs`**

* `ChildrenTrackedAlways`: `SlotInv` (a slot holds at most one process, of its
  own, with a pid given out before; an exited one was waited for) and `KidInv`
  (a process that is not gone has a slot).  That `spawn_process` finds a slot
  below `g_last_process` or extends it, and that `reap_children` shrinks it
  only over empty slots, are the steps that matter.
* `DeathNoticedAlways`: `ZombieInv` ties every zombie to a pending SIGCHLD,
  `ReapInv` every slot that was waited for to `g_reap`, also halfway through
  `reap_children`, behind whose index only failed respawns may be left.
* `LeavesCleanAlways`: `LiveInv` says which slots do not count for `live`, with
  its half of a pass of `reap_children` in progress, and `FileInv` which name
  the pid file has.
* `StaffedAlways`: `StaffInv` counts the children that nobody told to quit, in
  each phase on its own: while they are being started, those up to the index;
  in a pass of signals, those before the index or started by this reload; and
  between a reload and its delayed pass of signals, those it has started.

**`HttpServerConnProofs`**

* `RequestsOwnedAlways`: `OwnInv` says who owns an object at every point of
  the running call: the connection has the current one, and any other that
  lives is with a module that owes a callback.  `HandsInv` and `ClearInv`
  confine what a second use of an object can be to the two cases the property
  names; `RespInv` says that an object with something to send is a response,
  and `StatusInv` that a response which is still read has no `uri`, so that it
  is not dispatched.  For that it must be known which request an object has:
  `OrderInv` (the pieces in buffer and socket are in order and come after the
  requests of all objects), `RankInv` (the n-th object has none before the
  n-th request) and `StatusInv` (which of the object's fields are set in each
  state of the parser).
* `RequestsWholeAlways`: `WholeInv`, with `StatusInv`.
* `InOrderAlways`: for a client that waits, `ReplyInv` is the property with its
  count; `QuietInv` says that nothing of an answered request is left over, and
  `BusyInv` where the one request in progress is: which of its pieces are still
  to be read, what its object has to send, and that it has all arrived, or is
  malformed, when it is answered.

**`DownstreamRequestProofs`**

* `CalledOnceAlways`: `Connects` bounds the connects of the finished attempts by
  `retry_num` and those of the running one by `retry_cnt`, for as long as the
  connection can still come back to `http_retry_connect`; afterwards
  `retry_cnt` is 0 again and bounds nothing, but no other connect is made.
* `OwnedAlways`: `Objects` extends the property to every point of the running
  call, with the requests that callers up the stack have still to free;
  `Events` says which descriptor and timers a connection has there.
* `LastReasonAlways`: `Reasons`; `ctx->err_code` is clear while an attempt goes
  on.
* `WholeAlways`: `Arrived`; `HandlerResponse` gets `HTTP_CODE_OK` only after the
  end of the response or of the stream.

**`EventLoopProofs`**

* `FreshEventsAlways`: `Incarnations` counts how often the connection of each
  entry of the batch was replaced and relates it to the instance bit; in the
  main thread `Phases` shows that connections are only taken from the pool
  while every posted event is about an open one.
* `PoolIntactAlways`: `Pool` and `Closed` (no connection without descriptor has
  a timer); that no event is cleared in a queue follows from `Phases`.
* `WatchedActiveAlways`: inductive with the types, by the four ways in which
  `epoll_add_event` and `epoll_del_event` choose their operation.

**`HostsProofs`**

* `IdleFoundAlways`: `SlotInv` and `OpType` say what a process that holds the
  mutex has done so far, and so what it leaves when it dies; `torn` is set by
  the one death that leaves `next_group_index` beyond the array.
* `SlotKeptAlways`: the property speaks of groups whose copies balance, which
  is not inductive, since a death can make a group balance again.  `KeptInv`
  says for all groups that `ref_cnt` is what the releases so far have left of
  it, that the slot is the group's until nothing is left or the group is
  robbed, and that robbing takes a group with more releases than `Refs`.
  `CopyInv` makes copies of a group comparable: all have one slot and one
  address.  `HostsAssumption` limits the workers to the 1024 of
  `MAX_PROCESSES` (`src/process.h`), so that `ref_cnt` has its initial value
  within 16 bits.
* `SelectRightAlways`.  Three things are shown of the operators.  `HashInit`
  gives a ring with the same masters whose offsets are the multiples of one
  number, possibly 0.  `GetHashIdx` keeps the node it looks for between the two
  ends of each call, so that it returns it, or for a hash beyond the last
  offset the size of the ring or one more.  The first untried master along the
  ring is one that was not handed out before, and there is none only after all
  of them.  `ReqInv` then says of the running request that its history holds
  the masters it was given, each once, and that its copy of the group is one
  its process has; the slot is the group's by the invariant of `SlotKept`, as
  the released copies of a group never become fewer.  Assumed of the
  configuration (`HostsAssumption`): every master has a virtual node, as
  `HashInit` makes them.

**`SlabsProofs`**

One inductive invariant, `SlabsInv`, for all four theorems: the conjunction
`Own` of `Seg`, `MShape`, `Lay`, `Tidy` and `Stat`.

* `Seg` is the soundness of the segment, stated so that each function of
  `ShMem` can be shown to keep it: `Row` (each storage begins where another one
  ends), `Apart` (free neighbours meet nowhere, or in the middle of a release
  only at the address that is being freed), `Lists` (the free lists hold a
  given set of storages, each at its level; in the middle of an operation one
  less than the free ones) and `Counts`.  `SegmentSoundAlways` follows.  The
  step that matters is that a storage is always found where it was listed
  (`Listing`): `shs_shmem_remove_free` takes the smaller of the level of its
  size and `max_available_index`, `shs_shmem_insert_free` that of the level and
  the last one, and both agree because a level in use is never above the top.
* `Lay` gives each chunk a storage of its own and `Tidy` a place: with a client
  or in the list of its class.  `ChunksOwnedAlways` follows, with `ClsidIs`:
  `shs_slabs_clsid` finds the smallest class that is large enough, by its
  binary search (`Narrowed` says where the class is after each turn) or by
  division, unless there are only two classes.
* `Stat` is `DriftBounded` with the modulus written as a multiple (`Cong`), so
  that additions and subtractions can be followed.  That the drift stays below
  the largest class is the test of `shs_slabs_free` itself: a release that is
  not counted finds `used` below the size of a class.
* `FailsOnlyWhenFullAlways` is about what a failing search has seen.  Levels
  are monotone in the size (`InsertMono`), every storage from the level of
  `shs_shmem_get_alloc_index` on is large enough (`AllocFits`, which relates
  rounding up and down of the logarithm or of the division), and the level that
  is searched is that one, the next one in use, or the top.  That the loop of
  `shs_slabs_alloc` ends with nothing cached is `ObtainIs`: each turn that does
  not succeed returns a chunk, and there are `count` of them.

**`SharedLocksProofs`**

* `MaskRestoredAlways`.  The property speaks of threads outside of every lock;
  what makes it inductive is `SavedOwn` (what a lock in use has saved is some
  thread's own mask) and `UsedExists` (a lock that a living thread holds, waits
  for or has just left exists and has been locked before), without which the
  mask restored could be the uninitialised one of a new lock.
* `OneInsideAlways`: of the living threads, one is between
  `shs_atomic_lock_on` and `shs_atomic_lock_off`, and the word is set while it
  is.
* `PoolSoundAlways`.  The property follows the links from the head, by a
  recursive function.  `PoolInv` says instead that some numbering of the free
  blocks agrees with the links (`Listed`), which taking a block from the head
  or putting one there changes at one end, and at the end the two are shown to
  be the same.  It covers the inside of the lock: who carries which block
  (`Apart`), what was read there is still so (`Seen`), and what a death after
  the count and before the link does to the counts.

The provers have no induction over numbers with a formula as parameter.  Where
one is needed (what a sum, a search or a loop computes, two numberings of the
same list agree, a table with an empty slot has a first one), the proofs take
the least counterexample or the least element, which exists since `<` on the
naturals is well founded (`LeastNat`).  A recursive function is treated the
same way: that a function with the equation of its definition exists, and what
its values are, is shown up to the least number for which it could fail.

## 6. Only model-checked

* Liveness, which is out of the prover's reach: `ShutdownCompletes`,
  `ImplementsService` (its fair part), `TerminateCompletes`, `QuitCompletes`,
  `OldRetired`, `Answered`, `AnsweredByPeer`, `Settled`, `LeaverClosed`.
* `TreeSound` and `FiresOnTime`: `RbTree` declares RECURSIVE operators, the
  loops of the tree.

## 7. Plan

Done: all the modules of section 2, with the runs of section 3 and the theorems
of section 5.  Every invariant of a run is proved but the two of `EventTimer`.

Left: those two, for which `RbTree` would have to be written with recursive
functions in place of RECURSIVE operators, and the invariant of a red-black
tree in the middle of its rotations found; and the liveness properties, which
stay with TLC.

## 8. Not modelled, and why

Program start-up and option parsing (`shs.cc`, `config.cc`, `comm/config*.cc`)
run once before any concurrency exists.  Logging, formatting and string
helpers keep no protocol state.  Module loading (`dlopen`) is seen only as
"module known or unknown".  The statistics are counters without effect on
control.  Wrappers of system calls (`shs_socket.cc`, `shs_sysio.cc`) appear as
the outcomes of the actions that call them.  The arena pools free everything
at once and have no state a property could be about; the hash table, chains
and buffers are sequential containers whose content the models abstract to
pieces.  `shs_slabs_release` returns an error whenever it is given the place
for one (`src/core/shs_slabs.cc:222`), so that a manager is never released, and
the model has no such action.  Not compiled, or never reached, and therefore left out: the
pause/continue back-pressure code (`USE_SO_REUSEPORT` is defined in the
makefile) and the exchange of connections with a common pool.
