--------------------------- MODULE InvokePipeline ---------------------------
(***************************************************************************)
(* The request path of a shs worker process: Framework (main thread, event *)
(* loop), ModuleImpl (dispatch), Worker (one thread per element of         *)
(* worker_pos_, each with a locked task vector and a notification pipe),   *)
(* Task, and the way back: results_, its lock and its notification pipe.   *)
(*                                                                         *)
(* A step of the main thread or of a worker is the code between two points *)
(* where another thread can interfere: a critical section, a write or a    *)
(* read of a pipe, a read of a flag another thread writes.  Code that only *)
(* touches data of its own thread is one step.  Time is abstract: a timer  *)
(* that is armed may fire at any iteration of the event loop.              *)
(***************************************************************************)
EXTENDS Integers, Sequences

CONSTANTS
  MaxInvoke,    \* bound: number of calls of Framework::Invoke
  NumWorkers,   \* worker threads of the module (worker_pos_.size())
  QueueSize,    \* Worker::queue_size_
  MaxCalls,     \* bound: calls a business handler makes of its callback
  DropExpired   \* FLAGS_drop_expired_task

ASSUME ConstantsAssumption ==
  /\ MaxInvoke \in Nat
  /\ NumWorkers \in Nat \ {0}
  /\ QueueSize \in Nat \ {0}
  /\ MaxCalls \in Nat
  /\ DropExpired \in BOOLEAN

Ids == 0..(MaxInvoke - 1)
Workers == 0..(NumWorkers - 1)

VARIABLES
  mpc,          \* where the main thread is
  mreq,         \* invoke id the main thread works on
  mtried,       \* DispatchTask: tried
  mworker,      \* worker the main thread starts, notifies, stops or joins
  mbatch,       \* HandleInvokeComplete: the swapped-out results
  stop,         \* "no", or how far the shutdown is: the rest of the batch of
                \* events that began it ("last", and "lastpipe" while the
                \* result pipe is still to be served in it), then
                \* Framework::Stop's timers "grace" (10 s) and "wait" (30 s)
  invoke_id,    \* invoke_id_
  last_worker,  \* last_worker_ modulo the number of workers
  timers,       \* keys of timers_
  armed,        \* ids whose timeout event is in the timer tree
  answers,      \* history: calls of the network layer's complete_handler
  results,      \* results_ (the ids)
  result_pipe,  \* unread bytes in result_watcher_'s pipe
  tasks,        \* tasks_ of each worker (the ids)
  task_pipe,    \* unread bytes in task_watcher_'s pipe
  stop_pipe,    \* stop_watcher_'s pipe holds an unread byte
  running,      \* running_
  wpc,          \* where each worker thread is
  wret,         \* where it goes on after a Notify
  wstop,        \* it runs HandleTask from HandleStop
  wbatch,       \* HandleTask: the swapped-out tasks
  held,         \* ids whose callback the business code on this thread holds
  calls         \* calls it may still make of the callback of an id

mvars == <<mpc, mreq, mtried, mworker, mbatch, stop>>
fvars == <<invoke_id, timers, armed, answers>>
rvars == <<results, result_pipe>>
qvars == <<tasks, task_pipe>>
wvars == <<wpc, wret, wstop, wbatch, held, calls>>
vars == <<mvars, fvars, rvars, qvars, wvars, last_worker, stop_pipe, running>>

MainPC == {"spawn", "set_running", "loop", "dispatch", "notify_task",
           "push_result", "notify_result", "swap_results", "each_result",
           "complete_result", "complete_timeout", "stop_modules", "join",
           "exited"}
WorkerPC == {"none", "test", "poll", "swap", "run", "notify", "stopping",
             "dead"}

(* The type invariant, one part per group of variables.  mworker is past   *)
(* the last worker only when a loop over the workers has ended, and mreq   *)
(* is an id wherever a request is being worked on.                         *)
MainType ==
  /\ mpc \in MainPC
  /\ mreq \in Ids \cup {-1}
  /\ mtried \in 0..NumWorkers
  /\ mworker \in 0..NumWorkers
  /\ mpc \in {"spawn", "set_running", "notify_task", "join"}
       => mworker \in Workers
  /\ mpc \in {"dispatch", "push_result", "complete_timeout",
              "complete_result"} => mreq \in Ids
StopPhases == {"no", "last", "lastpipe", "grace", "wait"}
BatchType == mbatch \in Seq(Ids) /\ stop \in StopPhases
FrameType ==
  /\ invoke_id \in 0..MaxInvoke
  /\ timers \in SUBSET Ids
  /\ armed \in SUBSET Ids
  /\ answers \in [Ids -> Nat]
ResultType == results \in Seq(Ids) /\ result_pipe \in Nat
QueueType ==
  /\ last_worker \in Workers
  /\ tasks \in [Workers -> Seq(Ids)]
  /\ task_pipe \in [Workers -> Nat]
FlagType ==
  /\ stop_pipe \in [Workers -> BOOLEAN]
  /\ running \in [Workers -> BOOLEAN]
  /\ wstop \in [Workers -> BOOLEAN]
WorkerType ==
  /\ wpc \in [Workers -> WorkerPC]
  /\ wret \in [Workers -> {"run", "poll"}]
  /\ wbatch \in [Workers -> Seq(Ids)]
HeldType ==
  /\ held \in [Workers -> SUBSET Ids]
  /\ calls \in [Ids -> 0..MaxCalls]

TypeOK == /\ MainType /\ BatchType /\ FrameType /\ ResultType
          /\ QueueType /\ FlagType /\ WorkerType /\ HeldType

(* last_worker_ is never initialised: the first dispatch may go anywhere.  *)
Init ==
  /\ mpc = "spawn" /\ mreq = -1 /\ mtried = 0 /\ mworker = 0
  /\ mbatch = <<>> /\ stop = "no"
  /\ invoke_id = 0 /\ last_worker \in Workers
  /\ timers = {} /\ armed = {} /\ answers = [i \in Ids |-> 0]
  /\ results = <<>> /\ result_pipe = 0
  /\ tasks = [w \in Workers |-> <<>>] /\ task_pipe = [w \in Workers |-> 0]
  /\ stop_pipe = [w \in Workers |-> FALSE]
  /\ running = [w \in Workers |-> FALSE]
  /\ wpc = [w \in Workers |-> "none"] /\ wret = [w \in Workers |-> "poll"]
  /\ wstop = [w \in Workers |-> FALSE]
  /\ wbatch = [w \in Workers |-> <<>>] /\ held = [w \in Workers |-> {}]
  /\ calls = [i \in Ids |-> 0]

-----------------------------------------------------------------------------
(* Start-up: SpawnWorkerThreads.  Worker::Start creates the thread, which  *)
(* begins with `while (running_)', and sets running_ only afterwards.      *)

SpawnThread ==
  /\ mpc = "spawn"
  /\ wpc' = [wpc EXCEPT ![mworker] = "test"]
  /\ mpc' = "set_running"
  /\ UNCHANGED <<mreq, mtried, mworker, mbatch, stop, fvars, rvars, qvars,
                 wret, wstop, wbatch, held, calls, last_worker, stop_pipe,
                 running>>

SetRunning ==
  /\ mpc = "set_running"
  /\ running' = [running EXCEPT ![mworker] = TRUE]
  /\ mworker' = mworker + 1
  /\ mpc' = IF mworker + 1 = NumWorkers THEN "loop" ELSE "spawn"
  /\ UNCHANGED <<mreq, mtried, mbatch, stop, fvars, rvars, qvars, wvars,
                 last_worker, stop_pipe>>

-----------------------------------------------------------------------------
(* Framework::Invoke, called by the HTTP layer in the event loop, which is *)
(* told of sockets until the shutdown has closed epoll.                    *)

Serving == mpc = "loop" /\ stop \in {"no", "last", "lastpipe"}

InvokeUnknownModule ==
  /\ Serving /\ invoke_id < MaxInvoke
  /\ invoke_id' = invoke_id + 1
  /\ answers' = [answers EXCEPT ![invoke_id] = @ + 1]
  /\ UNCHANGED <<mvars, timers, armed, rvars, qvars, wvars, last_worker,
                 stop_pipe, running>>

(* Mutant: the timeout watcher is created but not initialised. *)
InvokeModuleUnarmed ==
  /\ Serving /\ invoke_id < MaxInvoke
  /\ invoke_id' = invoke_id + 1
  /\ timers' = timers \cup {invoke_id}
  /\ mreq' = invoke_id
  /\ mtried' = 0
  /\ mpc' \in {"dispatch", "push_result"}
  /\ UNCHANGED <<mworker, mbatch, stop, armed, answers, rvars, qvars, wvars,
                 last_worker, stop_pipe, running>>

(* AddInvokeTimer arms the timeout and registers the id; then the module   *)
(* either knows the method (DispatchTask) or answers E_INVALID_METHOD.     *)
InvokeModule ==
  /\ Serving /\ invoke_id < MaxInvoke
  /\ invoke_id' = invoke_id + 1
  /\ timers' = timers \cup {invoke_id}
  /\ armed' = armed \cup {invoke_id}
  /\ mreq' = invoke_id
  /\ mtried' = 0
  /\ mpc' \in {"dispatch", "push_result"}
  /\ UNCHANGED <<mworker, mbatch, stop, answers, rvars, qvars, wvars,
                 last_worker, stop_pipe, running>>

NextWorker(w) == IF w + 1 = NumWorkers THEN 0 ELSE w + 1

(* Mutants of AddTask: emptiness is tested after the push; the task is     *)
(* pushed before the size is tested.                                       *)
AddTaskNoNotify(w, i) ==
  \/ /\ Len(tasks[w]) < QueueSize
     /\ tasks' = [tasks EXCEPT ![w] = Append(@, i)]
     /\ mpc' = "loop"
  \/ Len(tasks[w]) >= QueueSize /\ UNCHANGED <<tasks, mpc>>

AddTaskPushFirst(w, i) ==
  /\ tasks' = [tasks EXCEPT ![w] = Append(@, i)]
  /\ \/ tasks[w] = <<>> /\ mpc' = "notify_task"
     \/ tasks[w] # <<>> /\ Len(tasks[w]) < QueueSize /\ mpc' = "loop"
     \/ tasks[w] # <<>> /\ Len(tasks[w]) >= QueueSize /\ UNCHANGED mpc

(* Worker::AddTask, its critical section: an empty vector needs a Notify,  *)
(* a full one refuses the task.                                            *)
AddTask(w, i) ==
  \/ /\ tasks[w] = <<>>
     /\ tasks' = [tasks EXCEPT ![w] = <<i>>]
     /\ mpc' = "notify_task"
  \/ /\ tasks[w] # <<>> /\ Len(tasks[w]) < QueueSize
     /\ tasks' = [tasks EXCEPT ![w] = Append(@, i)]
     /\ mpc' = "loop"
  \/ /\ tasks[w] # <<>> /\ Len(tasks[w]) >= QueueSize
     /\ UNCHANGED <<tasks, mpc>>

(* One round of DispatchTask's loop over the workers. *)
DispatchTask ==
  /\ mpc = "dispatch" /\ mtried < NumWorkers
  /\ mtried' = mtried + 1
  /\ last_worker' = NextWorker(last_worker)
  /\ mworker' = last_worker
  /\ AddTask(last_worker, mreq)
  /\ UNCHANGED <<mreq, mbatch, stop, fvars, rvars, task_pipe, wvars,
                 stop_pipe, running>>

NotifyTask ==
  /\ mpc = "notify_task"
  /\ task_pipe' = [task_pipe EXCEPT ![mworker] = @ + 1]
  /\ mpc' = "loop"
  /\ UNCHANGED <<mreq, mtried, mworker, mbatch, stop, fvars, rvars, tasks,
                 wvars, last_worker, stop_pipe, running>>

(* Every worker refused: E_SERVICE_BUSY through the completion handler. *)
DispatchBusy ==
  /\ mpc = "dispatch" /\ mtried = NumWorkers
  /\ mpc' = "push_result"
  /\ UNCHANGED <<mreq, mtried, mworker, mbatch, stop, fvars, rvars, qvars,
                 wvars, last_worker, stop_pipe, running>>

(* Framework::InvokeComplete, its critical section. *)
PushResult(i) == results' = Append(results, i)

MainPushResult ==
  /\ mpc = "push_result"
  /\ PushResult(mreq)
  /\ mpc' = IF results = <<>> THEN "notify_result" ELSE "loop"
  /\ UNCHANGED <<mreq, mtried, mworker, mbatch, stop, fvars, result_pipe,
                 qvars, wvars, last_worker, stop_pipe, running>>

MainNotifyResult ==
  /\ mpc = "notify_result"
  /\ result_pipe' = result_pipe + 1
  /\ mpc' = "loop"
  /\ UNCHANGED <<mreq, mtried, mworker, mbatch, stop, fvars, results, qvars,
                 wvars, last_worker, stop_pipe, running>>

-----------------------------------------------------------------------------
(* Framework::HandleInvokeTimeout: the timer tree has dropped the event,   *)
(* the id is erased, then the network layer is answered.  While a local    *)
(* shared_ptr of the main thread holds it, the InvokeTimer is still alive. *)

HandleInvokeTimeout(i) ==
  /\ mpc = "loop" /\ stop \notin {"last", "lastpipe"} /\ i \in armed
  /\ armed' = armed \ {i}
  /\ timers' = timers \ {i}
  /\ mreq' = i
  /\ mpc' = "complete_timeout"
  /\ UNCHANGED <<mtried, mworker, mbatch, stop, invoke_id, answers, rvars,
                 qvars, wvars, last_worker, stop_pipe, running>>

CompleteTimeout ==
  /\ mpc = "complete_timeout"
  /\ answers' = [answers EXCEPT ![mreq] = @ + 1]
  /\ mpc' = "loop"
  /\ UNCHANGED <<mreq, mtried, mworker, mbatch, stop, invoke_id, timers,
                 armed, rvars, qvars, wvars, last_worker, stop_pipe, running>>

(* result_watcher_: HandlerFn empties the pipe, then HandleInvokeComplete  *)
(* swaps the vector out under the lock and walks through it.               *)
WakeResults ==
  /\ mpc = "loop" /\ stop \in {"no", "lastpipe"} /\ result_pipe > 0
  /\ result_pipe' = 0
  /\ mpc' = "swap_results"
  /\ stop' = IF stop = "no" THEN "no" ELSE "last"
  /\ UNCHANGED <<mreq, mtried, mworker, mbatch, fvars, results, qvars, wvars,
                 last_worker, stop_pipe, running>>

SwapResults ==
  /\ mpc = "swap_results"
  /\ mbatch' = results
  /\ results' = <<>>
  /\ mpc' = "each_result"
  /\ UNCHANGED <<mreq, mtried, mworker, stop, fvars, result_pipe, qvars,
                 wvars, last_worker, stop_pipe, running>>

(* Mutants: the timer is erased but not cancelled; a result whose id is no *)
(* longer in timers_ is answered all the same.                             *)
HandleResultNoCancel ==
  /\ mpc = "each_result" /\ mbatch # <<>>
  /\ mbatch' = Tail(mbatch)
  /\ \/ Head(mbatch) \notin timers /\ UNCHANGED <<timers, mreq, mpc>>
     \/ /\ Head(mbatch) \in timers
        /\ timers' = timers \ {Head(mbatch)}
        /\ mreq' = Head(mbatch)
        /\ mpc' = "complete_result"
  /\ UNCHANGED <<mtried, mworker, stop, invoke_id, armed, answers, rvars,
                 qvars, wvars, last_worker, stop_pipe, running>>

HandleResultNoLookup ==
  /\ mpc = "each_result" /\ mbatch # <<>>
  /\ mbatch' = Tail(mbatch)
  /\ timers' = timers \ {Head(mbatch)}
  /\ armed' = armed \ {Head(mbatch)}
  /\ mreq' = Head(mbatch)
  /\ mpc' = "complete_result"
  /\ UNCHANGED <<mtried, mworker, stop, invoke_id, answers, rvars, qvars,
                 wvars, last_worker, stop_pipe, running>>

(* A result whose id is no longer in timers_ (timed out, or answered by an *)
(* earlier call of the callback) is skipped; otherwise erase and Cancel.   *)
HandleResult ==
  /\ mpc = "each_result" /\ mbatch # <<>>
  /\ mbatch' = Tail(mbatch)
  /\ \/ /\ Head(mbatch) \notin timers
        /\ UNCHANGED <<timers, armed, mreq, mpc>>
     \/ /\ Head(mbatch) \in timers
        /\ timers' = timers \ {Head(mbatch)}
        /\ armed' = armed \ {Head(mbatch)}
        /\ mreq' = Head(mbatch)
        /\ mpc' = "complete_result"
  /\ UNCHANGED <<mtried, mworker, stop, invoke_id, answers, rvars, qvars,
                 wvars, last_worker, stop_pipe, running>>

CompleteResult ==
  /\ mpc = "complete_result"
  /\ answers' = [answers EXCEPT ![mreq] = @ + 1]
  /\ mpc' = "each_result"
  /\ UNCHANGED <<mreq, mtried, mworker, mbatch, stop, invoke_id, timers,
                 armed, rvars, qvars, wvars, last_worker, stop_pipe, running>>

ResultsDone ==
  /\ mpc = "each_result" /\ mbatch = <<>>
  /\ mpc' = "loop"
  /\ UNCHANGED <<mreq, mtried, mworker, mbatch, stop, fvars, rvars, qvars,
                 wvars, last_worker, stop_pipe, running>>

-----------------------------------------------------------------------------
(* Shutdown: worker_exit, called by the handler of the master's channel.   *)
(* StopService comes first: HTTPService::Stop closes the epoll descriptor  *)
(* of the main thread.  The handlers of the events already posted still    *)
(* run; afterwards the loop serves nothing but its timers.  Then           *)
(* Framework::Stop, which comes back from a timer until every worker has   *)
(* been joined and nothing is outstanding.                                 *)

StopBegin ==
  /\ mpc = "loop" /\ stop = "no"
  /\ \/ stop' = "last"
     \/ result_pipe > 0 /\ stop' = "lastpipe"
  /\ UNCHANGED <<mpc, mreq, mtried, mworker, mbatch, fvars, rvars, qvars,
                 wvars, last_worker, stop_pipe, running>>

(* The queue of posted events is empty. *)
BatchEnd ==
  /\ mpc = "loop" /\ stop = "last"
  /\ stop' = "grace"
  /\ UNCHANGED <<mpc, mreq, mtried, mworker, mbatch, fvars, rvars, qvars,
                 wvars, last_worker, stop_pipe, running>>

StopTimer ==
  /\ mpc = "loop" /\ stop \in {"grace", "wait"}
  /\ mworker' = 0
  /\ mpc' = "stop_modules"
  /\ UNCHANGED <<mreq, mtried, mbatch, stop, fvars, rvars, qvars, wvars,
                 last_worker, stop_pipe, running>>

(* Worker::Stop: Notify and join, unless running_ is already false. *)
StopWorker ==
  /\ mpc = "stop_modules" /\ mworker < NumWorkers
  /\ \/ /\ running[mworker]
        /\ stop_pipe' = [stop_pipe EXCEPT ![mworker] = TRUE]
        /\ mpc' = "join"
        /\ UNCHANGED mworker
     \/ /\ ~running[mworker]
        /\ mworker' = mworker + 1
        /\ UNCHANGED <<stop_pipe, mpc>>
  /\ UNCHANGED <<mreq, mtried, mbatch, stop, fvars, rvars, qvars, wvars,
                 last_worker, running>>

Join ==
  /\ mpc = "join" /\ wpc[mworker] = "dead"
  /\ mworker' = mworker + 1
  /\ mpc' = "stop_modules"
  /\ UNCHANGED <<mreq, mtried, mbatch, stop, fvars, rvars, qvars, wvars,
                 last_worker, stop_pipe, running>>

(* Mutants: outstanding requests are not waited for; requests ever taken   *)
(* are waited for.                                                         *)
MustWaitResultsOnly == results # <<>>
MustWaitEver == results # <<>> \/ invoke_id > 0

MustWait == results # <<>> \/ timers # {}

StopEnd ==
  /\ mpc = "stop_modules" /\ mworker = NumWorkers
  /\ \/ MustWait /\ stop' = "wait" /\ mpc' = "loop"
     \/ ~MustWait /\ mpc' = "exited" /\ UNCHANGED stop
  /\ UNCHANGED <<mreq, mtried, mworker, mbatch, fvars, rvars, qvars, wvars,
                 last_worker, stop_pipe, running>>

-----------------------------------------------------------------------------
(* The worker threads.                                                     *)

UnchangedByWorker == UNCHANGED <<mvars, fvars, last_worker>>

(* Worker::Main evaluates `while (running_)' for the first time.  Later it *)
(* is only this thread that clears running_, in HandleStop.                *)
TestRunning(w) ==
  /\ wpc[w] = "test"
  /\ wpc' = [wpc EXCEPT ![w] = IF running[w] THEN "poll" ELSE "dead"]
  /\ UnchangedByWorker
  /\ UNCHANGED <<rvars, qvars, wret, wstop, wbatch, held, calls, stop_pipe,
                 running>>

(* task_watcher_: HandlerFn empties the pipe, HandleTask comes next. *)
WakeTask(w) ==
  /\ wpc[w] = "poll" /\ task_pipe[w] > 0
  /\ task_pipe' = [task_pipe EXCEPT ![w] = 0]
  /\ wpc' = [wpc EXCEPT ![w] = "swap"]
  /\ UnchangedByWorker
  /\ UNCHANGED <<rvars, tasks, wret, wstop, wbatch, held, calls, stop_pipe,
                 running>>

(* Worker::HandleTask: swap under the lock. *)
SwapTasks(w) ==
  /\ wpc[w] = "swap"
  /\ wbatch' = [wbatch EXCEPT ![w] = tasks[w]]
  /\ tasks' = [tasks EXCEPT ![w] = <<>>]
  /\ wpc' = [wpc EXCEPT ![w] = "run"]
  /\ UnchangedByWorker
  /\ UNCHANGED <<rvars, task_pipe, wret, wstop, held, calls, stop_pipe,
                 running>>

(* The InvokeTimer that the task's weak_ptr refers to still exists. *)
TimerAlive(i) ==
  \/ i \in timers
  \/ mpc \in {"complete_timeout", "complete_result"} /\ mreq = i

(* Mutant: the vector is tested for emptiness after the push. *)
WorkerCompleteLateTest(w, i, ret) ==
  /\ PushResult(i)
  /\ IF Len(results) = 1
     THEN wpc' = [wpc EXCEPT ![w] = "notify"] /\ wret' = [wret EXCEPT ![w] = ret]
     ELSE wpc' = [wpc EXCEPT ![w] = ret] /\ UNCHANGED wret

(* InvokeComplete on worker w for id i; it goes on at ret. *)
WorkerComplete(w, i, ret) ==
  /\ PushResult(i)
  /\ IF results = <<>>
     THEN wpc' = [wpc EXCEPT ![w] = "notify"] /\ wret' = [wret EXCEPT ![w] = ret]
     ELSE wpc' = [wpc EXCEPT ![w] = ret] /\ UNCHANGED wret

(* Task::Run of a request whose SHS-DS-Expiration has passed. *)
RunExpired(w) ==
  /\ wpc[w] = "run" /\ wbatch[w] # <<>>
  /\ wbatch' = [wbatch EXCEPT ![w] = Tail(@)]
  /\ WorkerComplete(w, Head(wbatch[w]), "run")
  /\ UnchangedByWorker
  /\ UNCHANGED <<result_pipe, qvars, wstop, held, calls, stop_pipe, running>>

(* Task::Run of a request that was answered while it was queued. *)
RunDropped(w) ==
  /\ wpc[w] = "run" /\ wbatch[w] # <<>>
  /\ DropExpired /\ ~TimerAlive(Head(wbatch[w]))
  /\ wbatch' = [wbatch EXCEPT ![w] = Tail(@)]
  /\ UnchangedByWorker
  /\ UNCHANGED <<rvars, qvars, wpc, wret, wstop, held, calls, stop_pipe,
                 running>>

(* Task::Run enters the business method, which now holds the callback. *)
RunMethod(w) ==
  /\ wpc[w] = "run" /\ wbatch[w] # <<>>
  /\ ~DropExpired \/ TimerAlive(Head(wbatch[w]))
  /\ wbatch' = [wbatch EXCEPT ![w] = Tail(@)]
  /\ held' = [held EXCEPT ![w] = @ \cup {Head(wbatch[w])}]
  /\ calls' = [calls EXCEPT ![Head(wbatch[w])] = MaxCalls]
  /\ UnchangedByWorker
  /\ UNCHANGED <<rvars, qvars, wpc, wret, wstop, stop_pipe, running>>

(* The business code calls the callback: inside the method, from the catch *)
(* clause of Task::Run, or later from an event of this worker's loop; it   *)
(* may never do so, or do so again.                                        *)
Callback(w, i) ==
  /\ wpc[w] \in {"run", "poll"} /\ i \in held[w] /\ calls[i] > 0
  /\ calls' = [calls EXCEPT ![i] = @ - 1]
  /\ WorkerComplete(w, i, wpc[w])
  /\ UnchangedByWorker
  /\ UNCHANGED <<result_pipe, qvars, wstop, wbatch, held, stop_pipe, running>>

WorkerNotify(w) ==
  /\ wpc[w] = "notify"
  /\ result_pipe' = result_pipe + 1
  /\ wpc' = [wpc EXCEPT ![w] = wret[w]]
  /\ UnchangedByWorker
  /\ UNCHANGED <<results, qvars, wret, wstop, wbatch, held, calls, stop_pipe,
                 running>>

TasksDone(w) ==
  /\ wpc[w] = "run" /\ wbatch[w] = <<>>
  /\ wpc' = [wpc EXCEPT ![w] = IF wstop[w] THEN "stopping" ELSE "poll"]
  /\ UnchangedByWorker
  /\ UNCHANGED <<rvars, qvars, wret, wstop, wbatch, held, calls, stop_pipe,
                 running>>

(* stop_watcher_: HandleStop begins. *)
WakeStop(w) ==
  /\ wpc[w] = "poll" /\ stop_pipe[w]
  /\ stop_pipe' = [stop_pipe EXCEPT ![w] = FALSE]
  /\ wstop' = [wstop EXCEPT ![w] = TRUE]
  /\ wpc' = [wpc EXCEPT ![w] = "stopping"]
  /\ UnchangedByWorker
  /\ UNCHANGED <<rvars, qvars, wret, wbatch, held, calls, running>>

(* Worker::HandleStop: run what is queued, then Close and running_ = false *)
(* (the thread leaves Main).                                               *)
HandleStop(w) ==
  /\ wpc[w] = "stopping"
  /\ \/ /\ tasks[w] # <<>>
        /\ wpc' = [wpc EXCEPT ![w] = "swap"]
        /\ UNCHANGED running
     \/ /\ tasks[w] = <<>>
        /\ running' = [running EXCEPT ![w] = FALSE]
        /\ wpc' = [wpc EXCEPT ![w] = "dead"]
  /\ UnchangedByWorker
  /\ UNCHANGED <<rvars, qvars, wret, wstop, wbatch, held, calls, stop_pipe>>

(* The process has left its event loop. *)
Exited == mpc = "exited" /\ UNCHANGED vars

-----------------------------------------------------------------------------
MainStep ==
  \/ SpawnThread \/ SetRunning
  \/ DispatchTask \/ DispatchBusy \/ NotifyTask
  \/ MainPushResult \/ MainNotifyResult
  \/ SwapResults \/ HandleResult \/ CompleteResult \/ ResultsDone
  \/ CompleteTimeout
  \/ BatchEnd \/ StopWorker \/ Join \/ StopEnd

WorkerStep(w) ==
  \/ TestRunning(w) \/ WakeTask(w) \/ SwapTasks(w)
  \/ RunExpired(w) \/ RunDropped(w) \/ RunMethod(w) \/ TasksDone(w)
  \/ WorkerNotify(w) \/ WakeStop(w) \/ HandleStop(w)

Next ==
  \/ MainStep
  \/ InvokeUnknownModule \/ InvokeModule
  \/ WakeResults
  \/ \E i \in Ids : HandleInvokeTimeout(i)
  \/ StopBegin \/ StopTimer
  \/ \E w \in Workers : WorkerStep(w)
  \/ \E w \in Workers, i \in Ids : Callback(w, i)
  \/ Exited

(* A thread that can go on goes on.  Each iteration of the main event loop *)
(* polls for at most 10 ms, serves every readable pipe and every timer     *)
(* that is due, so a pipe that stays readable or a timer that stays armed  *)
(* is served however often the loop does something else in between: strong *)
(* fairness.  A worker's iteration serves its two pipes likewise.  Nothing *)
(* is assumed of the callers of Invoke, of the business callbacks and of   *)
(* the signal that begins the shutdown.                                    *)
Fairness ==
  /\ WF_vars(MainStep)
  /\ SF_vars(WakeResults)
  /\ \A i \in Ids : SF_vars(HandleInvokeTimeout(i))
  /\ SF_vars(StopTimer)
  /\ \A w \in Workers :
       /\ WF_vars(WorkerStep(w))
       /\ SF_vars(WakeTask(w))
       /\ SF_vars(WakeStop(w))

SafeSpec == Init /\ [][Next]_vars
Spec == SafeSpec /\ Fairness

-----------------------------------------------------------------------------
(* Properties. *)

Count(b) == IF b THEN 1 ELSE 0

Completing(i) == mpc \in {"complete_timeout", "complete_result"} /\ mreq = i

(* HandleInvokeTimeout dereferences timers_.find(id) without a check, and  *)
(* ~TimedEventWatcher does not take its event out of the timer tree: a     *)
(* timer must be in the tree exactly as long as its id is in timers_,      *)
(* whichever of the answer, the timeout and a second answer comes first.   *)
TimerRegistered == armed = timers

(* Every request Framework::Invoke took is in exactly one of three states: *)
(* waiting in timers_, being answered, answered once.  So none is lost and *)
(* none is answered twice, although callbacks repeat and race the timeout. *)
AnsweredOnce ==
  \A i \in Ids :
    answers[i] + Count(i \in timers) + Count(Completing(i))
      = Count(i < invoke_id)

(* A notification of the main thread is on its way: the thread that found  *)
(* results_ empty has not written yet, the byte is unread, or the byte has *)
(* been read and the swap is next.                                         *)
Notifiers == {w \in Workers : wpc[w] = "notify"}
ResultWakeups ==
  {<<"pipe", n>> : n \in 1..result_pipe}
    \cup {<<"worker", w>> : w \in Notifiers}
    \cup {<<"main", m>> : m \in {mpc} \cap {"notify_result", "swap_results"}}

(* InvokeComplete notifies only when it finds results_ empty, outside the  *)
(* lock: results are waiting exactly when one wake-up, and only one, is on *)
(* its way.  (No lost wake-up, and the pipe never holds a second byte, so  *)
(* the non-blocking write in Notify cannot fail.)                          *)
ResultWakeup ==
  /\ results # <<>> => ResultWakeups # {}
  /\ ResultWakeups # {} => results # <<>>
  /\ \A a, b \in ResultWakeups : a = b

(* The notifications of worker w that are on their way, likewise. *)
TaskWakeups(w) ==
  task_pipe[w] + Count(mpc = "notify_task" /\ mworker = w)
               + Count(wpc[w] = "swap" /\ ~wstop[w])

(* The same for a worker's tasks_, until HandleStop has emptied tasks_     *)
(* without reading the pipe: then one stale byte may stay behind.          *)
TaskWakeup ==
  \A w \in Workers :
    /\ TaskWakeups(w) <= 1
    /\ tasks[w] # <<>> => TaskWakeups(w) = 1
    /\ TaskWakeups(w) = 1 /\ ~wstop[w] => tasks[w] # <<>>

(* The places a dispatched request can be in. *)
Occurrences(i, s) == {k \in DOMAIN s : s[k] = i}
Places(i) ==
  UNION {({w} \X {"queue"} \X Occurrences(i, tasks[w]))
           \cup ({w} \X {"batch"} \X Occurrences(i, wbatch[w]))
           \cup ({w} \X {"held"} \X ({0} \cap {Count(i \notin held[w])}))
           : w \in Workers}

(* DispatchTask tries several workers and a task is moved from vector to   *)
(* vector by two threads: no request is ever with two workers, queued      *)
(* twice, or queued again once its method runs.                            *)
DispatchedOnce ==
  \A i \in Ids : \A p, q \in Places(i) : p = q

(* AddTask skips the size test when the vector is empty; still no vector   *)
(* outgrows queue_size_.                                                   *)
QueueBounded == \A w \in Workers : Len(tasks[w]) <= QueueSize

(* A worker that did not lose the start-up race is told to stop, runs what *)
(* it has and is joined before the process goes away; nothing a client     *)
(* sent is left unanswered.                                                *)
CleanExit ==
  mpc = "exited" =>
    /\ \A w \in Workers : wpc[w] = "dead"
    /\ \A i \in Ids : answers[i] = Count(i < invoke_id)

(* What the network layer sees: the refinement mapping to InvokeService.    *)
Service == INSTANCE InvokeService WITH
  status <- [i \in Ids |-> IF answers[i] > 0 THEN "answered"
                           ELSE IF i < invoke_id THEN "pending" ELSE "new"],
  up <- mpc # "exited"

(* The pipeline implements the promise of InvokeService: each request is   *)
(* answered exactly once, eventually, and before the process exits.        *)
ImplementsService == Service!Spec

(* Framework::Stop comes to an end: the joins do not block for ever and    *)
(* the timers of abandoned requests empty timers_.  The exception is a     *)
(* result that arrives when HTTPService::Stop has closed epoll: nobody     *)
(* takes it out of results_ any more, and Stop waits for it for ever.      *)
ShutdownCompletes ==
  (stop # "no") ~>
    \/ mpc = "exited"
    \/ stop \in {"grace", "wait"} /\ results # <<>>

(* README.md: "Threads are notified to work by pipe".  A task queued to a  *)
(* worker is taken by its thread, as long as no shutdown begins.           *)
QueuedIsTaken ==
  \A w \in Workers :
    (tasks[w] # <<>> /\ stop = "no") ~> (tasks[w] = <<>> \/ stop # "no")
=============================================================================
