------------------------ MODULE InvokePipelineProofs ------------------------
(***************************************************************************)
(* Proofs about InvokePipeline, for every number of requests and workers,  *)
(* every queue size and every number of callback calls.                    *)
(***************************************************************************)
EXTENDS InvokePipeline, TLAPS

USE ConstantsAssumption DEF Ids, Workers, Serving

(* What the provers need of a non-empty sequence. *)
LEMMA HeadTail ==
  ASSUME NEW S, NEW s \in Seq(S), s # <<>>
  PROVE  Head(s) \in S /\ Tail(s) \in Seq(S)
  OBVIOUS

(* Every step keeps the type of the main thread's control state. *)
LEMMA MainTypeStep ==
  ASSUME TypeOK, [Next]_vars PROVE MainType'
<1> USE DEF TypeOK, MainType, MainPC, mvars
<1>1. CASE DispatchTask
    BY <1>1 DEF DispatchTask, AddTask, NextWorker, QueueType
<1>2. CASE HandleResult
    BY <1>2 DEF HandleResult, BatchType
<1>3. CASE SpawnThread \/ SetRunning \/ DispatchBusy \/ NotifyTask \/
           MainPushResult \/ MainNotifyResult \/ SwapResults \/
           CompleteResult \/ ResultsDone \/ CompleteTimeout \/
           StopWorker \/ Join \/ StopEnd
    BY <1>3 DEF SpawnThread, SetRunning, DispatchBusy, NotifyTask,
      MainPushResult, MainNotifyResult, SwapResults, CompleteResult,
      ResultsDone, CompleteTimeout, StopWorker, Join, StopEnd, PushResult,
      mvars, fvars, rvars, qvars, wvars
<1>4. CASE InvokeModule
    BY <1>4 DEF InvokeModule, FrameType
<1>5. CASE InvokeUnknownModule \/ WakeResults \/ StopBegin \/ BatchEnd
           \/ StopTimer
    BY <1>5 DEF InvokeUnknownModule, WakeResults, StopBegin, BatchEnd,
      StopTimer, mvars, fvars, rvars, qvars, wvars
<1>6. ASSUME NEW w \in Workers, WorkerStep(w) PROVE MainType'
    BY <1>6 DEF WorkerStep, TestRunning, WakeTask, SwapTasks, RunExpired,
      RunDropped, RunMethod, TasksDone, WorkerNotify, WakeStop, HandleStop,
      WorkerComplete, PushResult, UnchangedByWorker, mvars, fvars, rvars,
      qvars, wvars
<1>7. ASSUME NEW i \in Ids, HandleInvokeTimeout(i) PROVE MainType'
    BY <1>7 DEF HandleInvokeTimeout, mvars, fvars, rvars, qvars, wvars
<1>8. ASSUME NEW w \in Workers, NEW i \in Ids, Callback(w, i) PROVE MainType'
    BY <1>8 DEF Callback, WorkerComplete, PushResult, UnchangedByWorker,
      WorkerPC, mvars, fvars, rvars, qvars, wvars
<1>9. CASE UNCHANGED vars
    BY <1>9 DEF vars, mvars, fvars, rvars, qvars, wvars
<1> QED
    BY <1>1, <1>2, <1>3, <1>4, <1>5, <1>6, <1>7, <1>8, <1>9 DEF Next,
      MainStep, Exited

(* Every step keeps the type of the main thread's batch of results. *)
LEMMA BatchTypeStep ==
  ASSUME TypeOK, [Next]_vars PROVE BatchType'
<1> USE DEF TypeOK, BatchType, mvars
<1>1. CASE SwapResults
    BY <1>1 DEF SwapResults, ResultType
<1>2. CASE HandleResult
    BY <1>2 DEF HandleResult
<1>3. CASE StopEnd
    BY <1>3 DEF StopEnd, StopPhases
<1>4. CASE SpawnThread \/ SetRunning \/ DispatchTask \/ DispatchBusy \/
           NotifyTask \/ MainPushResult \/ MainNotifyResult \/
           CompleteResult \/ ResultsDone \/ CompleteTimeout \/
           StopWorker \/ Join
  <2>1. UNCHANGED <<mbatch,stop>>
    BY <1>4 DEF SpawnThread, SetRunning, DispatchTask, DispatchBusy,
      NotifyTask, MainPushResult, MainNotifyResult, CompleteResult,
      ResultsDone, CompleteTimeout, StopWorker, Join, AddTask, NextWorker,
      PushResult, mvars, fvars, rvars, qvars, wvars
  <2> QED BY <2>1
<1>5. CASE StopBegin \/ BatchEnd \/ WakeResults
    BY <1>5 DEF StopBegin, BatchEnd, WakeResults, StopPhases
<1>6. CASE InvokeUnknownModule \/ InvokeModule \/ StopTimer
  <2>1. UNCHANGED <<mbatch,stop>>
    BY <1>6 DEF InvokeUnknownModule, InvokeModule, StopTimer,
      mvars, fvars, rvars, qvars, wvars
  <2> QED BY <2>1
<1>7. ASSUME NEW w \in Workers, WorkerStep(w) PROVE BatchType'
  <2>1. CASE TestRunning(w) \/ WakeTask(w) \/ SwapTasks(w) \/
           RunExpired(w) \/ RunDropped(w) \/ RunMethod(w) \/
           TasksDone(w) \/ WorkerNotify(w) \/ WakeStop(w) \/
           HandleStop(w)
    <3>1. UNCHANGED <<mbatch,stop>>
    BY <2>1 DEF TestRunning, WakeTask, SwapTasks, RunExpired, RunDropped,
      RunMethod, TasksDone, WorkerNotify, WakeStop, HandleStop,
      WorkerComplete, PushResult, UnchangedByWorker, mvars, fvars, rvars,
      qvars, wvars
    <3> QED BY <3>1
  <2> QED BY <1>7, <2>1 DEF WorkerStep
<1>8. ASSUME NEW i \in Ids, HandleInvokeTimeout(i) PROVE BatchType'
    BY <1>8 DEF HandleInvokeTimeout, mvars, fvars, rvars, qvars, wvars
<1>9. ASSUME NEW w \in Workers, NEW i \in Ids, Callback(w, i) PROVE BatchType'
    BY <1>9 DEF Callback, WorkerComplete, PushResult, UnchangedByWorker,
      WorkerPC, mvars, fvars, rvars, qvars, wvars
<1>10. CASE UNCHANGED vars
    BY <1>10 DEF vars, mvars, fvars, rvars, qvars, wvars
<1> QED
    BY <1>1, <1>2, <1>3, <1>4, <1>5, <1>6, <1>7, <1>8, <1>9, <1>10 DEF Next,
      MainStep, Exited

(* Every step keeps the type of Framework's ids, timers and answers. *)
LEMMA FrameTypeStep ==
  ASSUME TypeOK, [Next]_vars PROVE FrameType'
<1> USE DEF TypeOK, FrameType, fvars
<1>1. CASE HandleResult
    BY <1>1 DEF HandleResult, BatchType
<1>2. CASE CompleteResult
    BY <1>2 DEF CompleteResult, MainType
<1>3. CASE CompleteTimeout
    BY <1>3 DEF CompleteTimeout, MainType
<1>4. CASE SpawnThread \/ SetRunning \/ DispatchTask \/ DispatchBusy \/
           NotifyTask \/ MainPushResult \/ MainNotifyResult \/
           SwapResults \/ ResultsDone \/ StopWorker \/ Join \/
           StopEnd
  <2>1. UNCHANGED <<fvars>>
    BY <1>4 DEF SpawnThread, SetRunning, DispatchTask, DispatchBusy,
      NotifyTask, MainPushResult, MainNotifyResult, SwapResults,
      ResultsDone, StopWorker, Join, StopEnd, AddTask, NextWorker,
      PushResult, mvars, fvars, rvars, qvars, wvars
  <2> QED BY <2>1
<1>5. CASE InvokeUnknownModule
    BY <1>5 DEF InvokeUnknownModule
<1>6. CASE InvokeModule
    BY <1>6 DEF InvokeModule
<1>7. CASE WakeResults \/ StopBegin \/ BatchEnd \/ StopTimer
  <2>1. UNCHANGED <<fvars>>
    BY <1>7 DEF WakeResults, StopBegin, BatchEnd, StopTimer, mvars, fvars,
      rvars, qvars, wvars
  <2> QED BY <2>1
<1>8. ASSUME NEW w \in Workers, WorkerStep(w) PROVE FrameType'
  <2>1. CASE TestRunning(w) \/ WakeTask(w) \/ SwapTasks(w) \/
           RunExpired(w) \/ RunDropped(w) \/ RunMethod(w) \/
           TasksDone(w) \/ WorkerNotify(w) \/ WakeStop(w) \/
           HandleStop(w)
    <3>1. UNCHANGED <<fvars>>
    BY <2>1 DEF TestRunning, WakeTask, SwapTasks, RunExpired, RunDropped,
      RunMethod, TasksDone, WorkerNotify, WakeStop, HandleStop,
      WorkerComplete, PushResult, UnchangedByWorker, mvars, fvars, rvars,
      qvars, wvars
    <3> QED BY <3>1
  <2> QED BY <1>8, <2>1 DEF WorkerStep
<1>9. ASSUME NEW i \in Ids, HandleInvokeTimeout(i) PROVE FrameType'
    BY <1>9 DEF HandleInvokeTimeout, mvars, fvars, rvars, qvars, wvars
<1>10. ASSUME NEW w \in Workers, NEW i \in Ids, Callback(w, i) PROVE FrameType'
    BY <1>10 DEF Callback, WorkerComplete, PushResult, UnchangedByWorker,
      WorkerPC, mvars, fvars, rvars, qvars, wvars
<1>11. CASE UNCHANGED vars
    BY <1>11 DEF vars, mvars, fvars, rvars, qvars, wvars
<1> QED
    BY <1>1, <1>2, <1>3, <1>4, <1>5, <1>6, <1>7, <1>8, <1>9, <1>10, <1>11
      DEF Next, MainStep, Exited

(* Every step keeps the type of results_ and its pipe. *)
LEMMA ResultTypeStep ==
  ASSUME TypeOK, [Next]_vars PROVE ResultType'
<1> USE DEF TypeOK, ResultType, rvars
<1>1. CASE MainPushResult
    BY <1>1 DEF MainPushResult, PushResult, MainType
<1>2. CASE MainNotifyResult
    BY <1>2 DEF MainNotifyResult
<1>3. CASE SwapResults
    BY <1>3 DEF SwapResults
<1>4. CASE SpawnThread \/ SetRunning \/ DispatchTask \/ DispatchBusy \/
           NotifyTask \/ HandleResult \/ CompleteResult \/
           ResultsDone \/ CompleteTimeout \/ StopWorker \/ Join \/
           StopEnd
  <2>1. UNCHANGED <<rvars>>
    BY <1>4 DEF SpawnThread, SetRunning, DispatchTask, DispatchBusy,
      NotifyTask, HandleResult, CompleteResult, ResultsDone,
      CompleteTimeout, StopWorker, Join, StopEnd, AddTask, NextWorker,
      mvars, fvars, rvars, qvars, wvars
  <2> QED BY <2>1
<1>5. CASE WakeResults
    BY <1>5 DEF WakeResults
<1>6. CASE InvokeUnknownModule \/ InvokeModule \/ StopBegin \/ BatchEnd
           \/ StopTimer
  <2>1. UNCHANGED <<rvars>>
    BY <1>6 DEF InvokeUnknownModule, InvokeModule, StopBegin, BatchEnd,
      StopTimer, mvars, fvars, rvars, qvars, wvars
  <2> QED BY <2>1
<1>7. ASSUME NEW w \in Workers, WorkerStep(w) PROVE ResultType'
  <2>1. CASE RunExpired(w)
    <3>1. Head(wbatch[w]) \in Ids
      BY <2>1, HeadTail DEF RunExpired, WorkerType
    <3>2. results' = Append(results, Head(wbatch[w]))
           /\ result_pipe' = result_pipe
      BY <2>1 DEF RunExpired, WorkerComplete, PushResult
    <3> QED BY <3>1, <3>2
  <2>2. CASE WorkerNotify(w)
    BY <2>2 DEF WorkerNotify, UnchangedByWorker
  <2>3. CASE TestRunning(w) \/ WakeTask(w) \/ SwapTasks(w) \/
           RunDropped(w) \/ RunMethod(w) \/ TasksDone(w) \/
           WakeStop(w) \/ HandleStop(w)
    <3>1. UNCHANGED <<rvars>>
    BY <2>3 DEF TestRunning, WakeTask, SwapTasks, RunDropped, RunMethod,
      TasksDone, WakeStop, HandleStop, UnchangedByWorker, mvars, fvars,
      rvars, qvars, wvars
    <3> QED BY <3>1
  <2> QED BY <1>7, <2>1, <2>2, <2>3 DEF WorkerStep
<1>8. ASSUME NEW i \in Ids, HandleInvokeTimeout(i) PROVE ResultType'
    BY <1>8 DEF HandleInvokeTimeout, mvars, fvars, rvars, qvars, wvars
<1>9. ASSUME NEW w \in Workers, NEW i \in Ids, Callback(w, i) PROVE ResultType'
    BY <1>9 DEF Callback, WorkerComplete, PushResult, UnchangedByWorker,
      WorkerPC, mvars, fvars, rvars, qvars, wvars
<1>10. CASE UNCHANGED vars
    BY <1>10 DEF vars, mvars, fvars, rvars, qvars, wvars
<1> QED
    BY <1>1, <1>2, <1>3, <1>4, <1>5, <1>6, <1>7, <1>8, <1>9, <1>10 DEF Next,
      MainStep, Exited

(* Every step keeps the type of the task vectors, their pipes and last_worker_. *)
LEMMA QueueTypeStep ==
  ASSUME TypeOK, [Next]_vars PROVE QueueType'
<1> USE DEF TypeOK, QueueType, qvars
<1>1. CASE DispatchTask
  <2>1. last_worker' \in Workers
    BY <1>1 DEF DispatchTask, NextWorker
  <2>2. mreq \in Ids /\ mpc = "dispatch"
    BY <1>1 DEF DispatchTask, MainType
  <2>3. Append(tasks[last_worker], mreq) \in Seq(Ids)
         /\ <<mreq>> \in Seq(Ids)
    BY <2>2
  <2>4. tasks' \in [Workers -> Seq(Ids)]
    BY <1>1, <2>3 DEF DispatchTask, AddTask
  <2> QED BY <1>1, <2>1, <2>4 DEF DispatchTask
<1>2. CASE NotifyTask
    BY <1>2 DEF NotifyTask, MainType
<1>3. CASE SpawnThread \/ SetRunning \/ DispatchBusy \/ MainPushResult
           \/ MainNotifyResult \/ SwapResults \/ HandleResult \/
           CompleteResult \/ ResultsDone \/ CompleteTimeout \/
           StopWorker \/ Join \/ StopEnd
  <2>1. UNCHANGED <<last_worker, qvars>>
    BY <1>3 DEF SpawnThread, SetRunning, DispatchBusy, MainPushResult,
      MainNotifyResult, SwapResults, HandleResult, CompleteResult,
      ResultsDone, CompleteTimeout, StopWorker, Join, StopEnd, PushResult,
      mvars, fvars, rvars, qvars, wvars
  <2> QED BY <2>1
<1>4. CASE InvokeUnknownModule \/ InvokeModule \/ WakeResults \/
           StopBegin \/ BatchEnd \/ StopTimer
  <2>1. UNCHANGED <<last_worker, qvars>>
    BY <1>4 DEF InvokeUnknownModule, InvokeModule, WakeResults, StopBegin,
      BatchEnd, StopTimer, mvars, fvars, rvars, qvars, wvars
  <2> QED BY <2>1
<1>5. ASSUME NEW w \in Workers, WorkerStep(w) PROVE QueueType'
  <2>1. CASE WakeTask(w)
    BY <2>1 DEF WakeTask, UnchangedByWorker
  <2>2. CASE SwapTasks(w)
    BY <2>2 DEF SwapTasks, UnchangedByWorker
  <2>3. CASE TestRunning(w) \/ RunExpired(w) \/ RunDropped(w) \/
           RunMethod(w) \/ TasksDone(w) \/ WorkerNotify(w) \/
           WakeStop(w) \/ HandleStop(w)
    <3>1. UNCHANGED <<last_worker, qvars>>
    BY <2>3 DEF TestRunning, RunExpired, RunDropped, RunMethod, TasksDone,
      WorkerNotify, WakeStop, HandleStop, WorkerComplete, PushResult,
      UnchangedByWorker, mvars, fvars, rvars, qvars, wvars
    <3> QED BY <3>1
  <2> QED BY <1>5, <2>1, <2>2, <2>3 DEF WorkerStep
<1>6. ASSUME NEW i \in Ids, HandleInvokeTimeout(i) PROVE QueueType'
    BY <1>6 DEF HandleInvokeTimeout, mvars, fvars, rvars, qvars, wvars
<1>7. ASSUME NEW w \in Workers, NEW i \in Ids, Callback(w, i) PROVE QueueType'
    BY <1>7 DEF Callback, WorkerComplete, PushResult, UnchangedByWorker,
      WorkerPC, mvars, fvars, rvars, qvars, wvars
<1>8. CASE UNCHANGED vars
    BY <1>8 DEF vars, mvars, fvars, rvars, qvars, wvars
<1> QED
    BY <1>1, <1>2, <1>3, <1>4, <1>5, <1>6, <1>7, <1>8 DEF Next, MainStep,
      Exited

(* Every step keeps the type of the flags and stop pipes. *)
LEMMA FlagTypeStep ==
  ASSUME TypeOK, [Next]_vars PROVE FlagType'
<1> USE DEF TypeOK, FlagType
<1>1. CASE SpawnThread \/ SetRunning \/ DispatchTask \/ DispatchBusy \/
           NotifyTask \/ MainPushResult \/ MainNotifyResult \/
           SwapResults \/ HandleResult \/ CompleteResult \/
           ResultsDone \/ CompleteTimeout \/ StopWorker \/ Join \/
           StopEnd
    BY <1>1 DEF SpawnThread, SetRunning, DispatchTask, DispatchBusy,
      NotifyTask, MainPushResult, MainNotifyResult, SwapResults,
      HandleResult, CompleteResult, ResultsDone, CompleteTimeout,
      StopWorker, Join, StopEnd, AddTask, NextWorker, PushResult, mvars,
      fvars, rvars, qvars, wvars
<1>2. CASE InvokeUnknownModule \/ InvokeModule \/ WakeResults \/
           StopBegin \/ BatchEnd \/ StopTimer
    BY <1>2 DEF InvokeUnknownModule, InvokeModule, WakeResults, StopBegin,
      BatchEnd, StopTimer, mvars, fvars, rvars, qvars, wvars
<1>3. ASSUME NEW w \in Workers, WorkerStep(w) PROVE FlagType'
    BY <1>3 DEF WorkerStep, TestRunning, WakeTask, SwapTasks, RunExpired,
      RunDropped, RunMethod, TasksDone, WorkerNotify, WakeStop, HandleStop,
      WorkerComplete, PushResult, UnchangedByWorker, mvars, fvars, rvars,
      qvars, wvars
<1>4. ASSUME NEW i \in Ids, HandleInvokeTimeout(i) PROVE FlagType'
    BY <1>4 DEF HandleInvokeTimeout, mvars, fvars, rvars, qvars, wvars
<1>5. ASSUME NEW w \in Workers, NEW i \in Ids, Callback(w, i) PROVE FlagType'
    BY <1>5 DEF Callback, WorkerComplete, PushResult, UnchangedByWorker,
      WorkerPC, mvars, fvars, rvars, qvars, wvars
<1>6. CASE UNCHANGED vars
    BY <1>6 DEF vars, mvars, fvars, rvars, qvars, wvars
<1> QED
    BY <1>1, <1>2, <1>3, <1>4, <1>5, <1>6 DEF Next, MainStep, Exited

(* Every step keeps the type of the control state and batches of the workers. *)
LEMMA WorkerTypeStep ==
  ASSUME TypeOK, [Next]_vars PROVE WorkerType'
<1> USE DEF TypeOK, WorkerType, WorkerPC, wvars
<1>1. CASE SpawnThread
    BY <1>1 DEF SpawnThread, MainType
<1>2. CASE SetRunning \/ DispatchTask \/ DispatchBusy \/ NotifyTask \/
           MainPushResult \/ MainNotifyResult \/ SwapResults \/
           HandleResult \/ CompleteResult \/ ResultsDone \/
           CompleteTimeout \/ StopWorker \/ Join \/ StopEnd
  <2>1. UNCHANGED <<wpc, wret, wbatch>>
    BY <1>2 DEF SetRunning, DispatchTask, DispatchBusy, NotifyTask,
      MainPushResult, MainNotifyResult, SwapResults, HandleResult,
      CompleteResult, ResultsDone, CompleteTimeout, StopWorker, Join,
      StopEnd, AddTask, NextWorker, PushResult, mvars, fvars, rvars, qvars,
      wvars
  <2> QED BY <2>1
<1>3. CASE InvokeUnknownModule \/ InvokeModule \/ WakeResults \/
           StopBegin \/ BatchEnd \/ StopTimer
  <2>1. UNCHANGED <<wpc, wret, wbatch>>
    BY <1>3 DEF InvokeUnknownModule, InvokeModule, WakeResults, StopBegin,
      BatchEnd, StopTimer, mvars, fvars, rvars, qvars, wvars
  <2> QED BY <2>1
<1>4. ASSUME NEW w \in Workers, WorkerStep(w) PROVE WorkerType'
  <2>1. CASE TestRunning(w)
    BY <2>1 DEF TestRunning, QueueType, UnchangedByWorker
  <2>2. CASE WakeTask(w)
    BY <2>2 DEF WakeTask, QueueType, UnchangedByWorker
  <2>3. CASE SwapTasks(w)
    BY <2>3 DEF SwapTasks, QueueType, UnchangedByWorker
  <2>4. CASE RunExpired(w)
    <3>1. Tail(wbatch[w]) \in Seq(Ids)
      BY <2>4, HeadTail DEF RunExpired
    <3>2. wbatch' \in [Workers -> Seq(Ids)]
      BY <2>4, <3>1 DEF RunExpired
    <3>3. wpc' \in [Workers -> WorkerPC] /\ wret' \in [Workers -> {"run", "poll"}]
      BY <2>4 DEF RunExpired, WorkerComplete
    <3> QED BY <3>2, <3>3
  <2>5. CASE RunDropped(w)
    BY <2>5 DEF RunDropped, QueueType, UnchangedByWorker
  <2>6. CASE RunMethod(w)
    BY <2>6 DEF RunMethod, QueueType, UnchangedByWorker
  <2>7. CASE TasksDone(w)
    BY <2>7 DEF TasksDone, QueueType, UnchangedByWorker
  <2>8. CASE WorkerNotify(w)
    BY <2>8 DEF WorkerNotify, QueueType, UnchangedByWorker
  <2>9. CASE WakeStop(w)
    BY <2>9 DEF WakeStop, QueueType, UnchangedByWorker
  <2>10. CASE HandleStop(w)
    BY <2>10 DEF HandleStop, QueueType, UnchangedByWorker
  <2> QED BY <1>4, <2>1, <2>2, <2>3, <2>4, <2>5, <2>6, <2>7, <2>8, <2>9, <2>10 DEF WorkerStep
<1>5. ASSUME NEW i \in Ids, HandleInvokeTimeout(i) PROVE WorkerType'
    BY <1>5 DEF HandleInvokeTimeout, mvars, fvars, rvars, qvars, wvars
<1>6. ASSUME NEW w \in Workers, NEW i \in Ids, Callback(w, i) PROVE WorkerType'
    BY <1>6 DEF Callback, WorkerComplete, PushResult, UnchangedByWorker,
      WorkerPC, mvars, fvars, rvars, qvars, wvars
<1>7. CASE UNCHANGED vars
    BY <1>7 DEF vars, mvars, fvars, rvars, qvars, wvars
<1> QED
    BY <1>1, <1>2, <1>3, <1>4, <1>5, <1>6, <1>7 DEF Next, MainStep, Exited

(* Every step keeps the type of what the business code holds. *)
LEMMA HeldTypeStep ==
  ASSUME TypeOK, [Next]_vars PROVE HeldType'
<1> USE DEF TypeOK, HeldType, wvars
<1>1. CASE SpawnThread \/ SetRunning \/ DispatchTask \/ DispatchBusy \/
           NotifyTask \/ MainPushResult \/ MainNotifyResult \/
           SwapResults \/ HandleResult \/ CompleteResult \/
           ResultsDone \/ CompleteTimeout \/ StopWorker \/ Join \/
           StopEnd
  <2>1. UNCHANGED <<held, calls>>
    BY <1>1 DEF SpawnThread, SetRunning, DispatchTask, DispatchBusy,
      NotifyTask, MainPushResult, MainNotifyResult, SwapResults,
      HandleResult, CompleteResult, ResultsDone, CompleteTimeout,
      StopWorker, Join, StopEnd, AddTask, NextWorker, PushResult, mvars,
      fvars, rvars, qvars, wvars
  <2> QED BY <2>1
<1>2. CASE InvokeUnknownModule \/ InvokeModule \/ WakeResults \/
           StopBegin \/ BatchEnd \/ StopTimer
  <2>1. UNCHANGED <<held, calls>>
    BY <1>2 DEF InvokeUnknownModule, InvokeModule, WakeResults, StopBegin,
      BatchEnd, StopTimer, mvars, fvars, rvars, qvars, wvars
  <2> QED BY <2>1
<1>3. ASSUME NEW w \in Workers, WorkerStep(w) PROVE HeldType'
  <2>1. CASE RunMethod(w)
    <3>1. Head(wbatch[w]) \in Ids
      BY <2>1, HeadTail DEF RunMethod, WorkerType
    <3> QED BY <2>1, <3>1 DEF RunMethod
  <2>2. CASE TestRunning(w) \/ WakeTask(w) \/ SwapTasks(w) \/
           RunExpired(w) \/ RunDropped(w) \/ TasksDone(w) \/
           WorkerNotify(w) \/ WakeStop(w) \/ HandleStop(w)
    <3>1. UNCHANGED <<held, calls>>
    BY <2>2 DEF TestRunning, WakeTask, SwapTasks, RunExpired, RunDropped,
      TasksDone, WorkerNotify, WakeStop, HandleStop, WorkerComplete,
      PushResult, UnchangedByWorker, mvars, fvars, rvars, qvars, wvars
    <3> QED BY <3>1
  <2> QED BY <1>3, <2>1, <2>2 DEF WorkerStep
<1>4. ASSUME NEW i \in Ids, HandleInvokeTimeout(i) PROVE HeldType'
    BY <1>4 DEF HandleInvokeTimeout, mvars, fvars, rvars, qvars, wvars
<1>5. ASSUME NEW w \in Workers, NEW i \in Ids, Callback(w, i) PROVE HeldType'
    BY <1>5 DEF Callback, WorkerComplete, PushResult, UnchangedByWorker,
      WorkerPC, mvars, fvars, rvars, qvars, wvars
<1>6. CASE UNCHANGED vars
    BY <1>6 DEF vars, mvars, fvars, rvars, qvars, wvars
<1> QED
    BY <1>1, <1>2, <1>3, <1>4, <1>5, <1>6 DEF Next, MainStep, Exited

(* The initial state has the types. *)
LEMMA TypeInit == Init => TypeOK
  BY DEF Init, TypeOK, MainType, BatchType, FrameType, ResultType, QueueType,
    FlagType, WorkerType, HeldType, MainPC, WorkerPC, StopPhases

(* Every variable of the request path keeps its type in every step. *)
THEOREM TypeCorrect == SafeSpec => []TypeOK
<1>1. TypeOK /\ [Next]_vars => TypeOK'
  BY MainTypeStep, BatchTypeStep, FrameTypeStep, ResultTypeStep,
    QueueTypeStep, FlagTypeStep, WorkerTypeStep, HeldTypeStep DEF TypeOK
<1> QED BY <1>1, TypeInit, PTL DEF SafeSpec

-----------------------------------------------------------------------------
(* TimerRegistered is inductive: InvokeModule arms and registers, the two  *)
(* ways to answer unregister and disarm, nothing else touches either set.  *)

LEMMA TimerRegisteredStep ==
  TimerRegistered /\ [Next]_vars => TimerRegistered'
<1> SUFFICES ASSUME TimerRegistered, [Next]_vars PROVE TimerRegistered'
  OBVIOUS
<1> USE DEF TimerRegistered, fvars
<1>1. CASE InvokeModule BY <1>1 DEF InvokeModule
<1>2. CASE HandleResult BY <1>2 DEF HandleResult
<1>3. ASSUME NEW i \in Ids, HandleInvokeTimeout(i) PROVE TimerRegistered'
  BY <1>3 DEF HandleInvokeTimeout
<1>4. CASE SpawnThread \/ SetRunning \/ DispatchTask \/ DispatchBusy
           \/ NotifyTask \/ MainPushResult \/ MainNotifyResult \/ SwapResults
           \/ CompleteResult \/ ResultsDone \/ CompleteTimeout \/ StopWorker
           \/ Join \/ StopEnd \/ InvokeUnknownModule \/ WakeResults
           \/ StopBegin \/ BatchEnd \/ StopTimer
  BY <1>4 DEF SpawnThread, SetRunning, DispatchTask, DispatchBusy, NotifyTask,
    MainPushResult, MainNotifyResult, SwapResults, CompleteResult,
    ResultsDone, CompleteTimeout, StopWorker, Join, StopEnd,
    InvokeUnknownModule, WakeResults, StopBegin, BatchEnd, StopTimer
<1>5. ASSUME NEW w \in Workers, WorkerStep(w) PROVE TimerRegistered'
  BY <1>5 DEF WorkerStep, TestRunning, WakeTask, SwapTasks, RunExpired,
    RunDropped, RunMethod, TasksDone, WorkerNotify, WakeStop, HandleStop,
    UnchangedByWorker
<1>6. ASSUME NEW w \in Workers, NEW i \in Ids, Callback(w, i)
      PROVE  TimerRegistered'
  BY <1>6 DEF Callback, UnchangedByWorker
<1>7. CASE UNCHANGED vars BY <1>7 DEF vars
<1> QED
  BY <1>1, <1>2, <1>3, <1>4, <1>5, <1>6, <1>7 DEF Next, MainStep, Exited

(* A timeout event is in the timer tree exactly as long as its id is in    *)
(* timers_, so HandleInvokeTimeout always finds the id it looks up.        *)
THEOREM TimerRegisteredAlways == SafeSpec => []TimerRegistered
<1>1. Init => TimerRegistered BY DEF Init, TimerRegistered
<1> QED BY <1>1, TimerRegisteredStep, PTL DEF SafeSpec

-----------------------------------------------------------------------------
(* AnsweredOnce is inductive together with TypeOK and TimerRegistered: the *)
(* token of a request moves from timers_ to the completing step to the     *)
(* answer, and only Invoke makes a new one.                                *)

LEMMA AnsweredOnceStep ==
  ASSUME TypeOK, TimerRegistered, AnsweredOnce, [Next]_vars
  PROVE  AnsweredOnce'
<1> SUFFICES ASSUME NEW i \in Ids
    PROVE (answers[i] + Count(i \in timers) + Count(Completing(i))
             = Count(i < invoke_id))'
  BY DEF AnsweredOnce
<1>0. answers[i] + Count(i \in timers) + Count(Completing(i))
        = Count(i < invoke_id)
  BY DEF AnsweredOnce
<1>t. /\ mpc \in MainPC /\ mreq \in Ids \cup {-1} /\ invoke_id \in Nat
      /\ invoke_id <= MaxInvoke /\ answers \in [Ids -> Nat]
  BY DEF TypeOK, MainType, FrameType
<1> USE <1>0, <1>t DEF Count, Completing, MainPC, fvars, mvars
<1>1. CASE InvokeUnknownModule BY <1>1 DEF InvokeUnknownModule
<1>2. CASE InvokeModule BY <1>2 DEF InvokeModule
<1>3. CASE HandleResult BY <1>3 DEF HandleResult
<1>4. ASSUME NEW j \in Ids, HandleInvokeTimeout(j)
      PROVE (answers[i] + Count(i \in timers) + Count(Completing(i))
               = Count(i < invoke_id))'
  BY <1>4 DEF HandleInvokeTimeout, TimerRegistered
<1>5. CASE CompleteResult BY <1>5 DEF CompleteResult
<1>6. CASE CompleteTimeout BY <1>6 DEF CompleteTimeout
<1>7. CASE SpawnThread \/ SetRunning \/ DispatchTask \/ DispatchBusy
           \/ NotifyTask \/ MainPushResult \/ MainNotifyResult \/ SwapResults
           \/ ResultsDone \/ StopWorker \/ Join \/ StopEnd \/ WakeResults
           \/ StopBegin \/ BatchEnd \/ StopTimer
  <2>1. /\ UNCHANGED <<answers, timers, invoke_id>>
        /\ ~Completing(i) /\ ~Completing(i)'
    BY <1>7 DEF SpawnThread, SetRunning, DispatchTask, AddTask, DispatchBusy,
      NotifyTask, MainPushResult, MainNotifyResult, SwapResults, ResultsDone,
      StopWorker, Join, StopEnd, WakeResults, StopBegin, BatchEnd, StopTimer
  <2> QED BY <2>1
<1>8. ASSUME NEW w \in Workers, WorkerStep(w) \/ \E j \in Ids : Callback(w, j)
      PROVE UNCHANGED <<answers, timers, invoke_id, mpc, mreq>>
  BY <1>8 DEF WorkerStep, TestRunning, WakeTask, SwapTasks, RunExpired,
    RunDropped, RunMethod, TasksDone, WorkerNotify, WakeStop, HandleStop,
    Callback, UnchangedByWorker
<1>9. CASE UNCHANGED vars BY <1>9 DEF vars
<1>10. CASE UNCHANGED <<answers, timers, invoke_id, mpc, mreq>> BY <1>10
<1> QED
  BY <1>1, <1>2, <1>3, <1>4, <1>5, <1>6, <1>7, <1>8, <1>9, <1>10
  DEF Next, MainStep, Exited

(* Each request that Framework::Invoke took is waiting, being answered or  *)
(* answered once, whatever order answers, repeats and timeouts come in.    *)
THEOREM AnsweredOnceAlways == SafeSpec => []AnsweredOnce
<1>1. Init => AnsweredOnce
  BY DEF Init, AnsweredOnce, Count, Completing
<1> QED
  BY <1>1, AnsweredOnceStep, TypeCorrect, TimerRegisteredAlways, PTL
  DEF SafeSpec

-----------------------------------------------------------------------------
(* The life of the worker threads: a worker has no thread before its turn  *)
(* in SpawnWorkerThreads; a started worker is running or has left its      *)
(* loop; Framework::Stop leaves only threads behind that have ended.       *)
Starting == mpc \in {"spawn", "set_running"}
ThreadInv ==
  /\ mpc = "spawn" => \A w \in Workers : w >= mworker => wpc[w] = "none"
  /\ mpc = "set_running" => \A w \in Workers : w > mworker => wpc[w] = "none"
  /\ \A w \in Workers : (Starting => w < mworker)
                          => running[w] \/ wpc[w] = "dead"
  /\ mpc \in {"stop_modules", "join", "exited"}
       => \A w \in Workers : w < mworker => wpc[w] = "dead"
  /\ mpc = "exited" => mworker = NumWorkers

(* ThreadInv is inductive. *)
LEMMA ThreadInvStep ==
  ASSUME TypeOK, ThreadInv, [Next]_vars PROVE ThreadInv'
<1>t. /\ mpc \in MainPC /\ mworker \in 0..NumWorkers
      /\ mpc \in {"spawn", "set_running", "notify_task", "join"}
           => mworker \in Workers
      /\ wpc \in [Workers -> WorkerPC]
      /\ wret \in [Workers -> {"run", "poll"}]
      /\ running \in [Workers -> BOOLEAN]
  BY DEF TypeOK, MainType, WorkerType, FlagType
<1> USE <1>t DEF ThreadInv, Starting
<1>1. CASE SpawnThread BY <1>1 DEF SpawnThread
<1>2. CASE SetRunning BY <1>2 DEF SetRunning, wvars
<1>3. CASE StopTimer BY <1>3 DEF StopTimer, wvars
<1>4. CASE StopWorker BY <1>4 DEF StopWorker, wvars
<1>5. CASE Join BY <1>5 DEF Join, wvars
<1>6. CASE StopEnd BY <1>6 DEF StopEnd, wvars
<1>7. CASE DispatchTask \/ DispatchBusy \/ NotifyTask \/ MainPushResult
           \/ MainNotifyResult \/ SwapResults \/ HandleResult
           \/ CompleteResult \/ ResultsDone \/ CompleteTimeout
           \/ InvokeUnknownModule \/ InvokeModule \/ WakeResults
           \/ StopBegin \/ BatchEnd \/ \E i \in Ids : HandleInvokeTimeout(i)
  <2>1. /\ UNCHANGED <<wpc, running>>
        /\ mpc \notin {"spawn", "set_running", "stop_modules", "join", "exited"}
        /\ mpc' \notin {"spawn", "set_running", "stop_modules", "join", "exited"}
    BY <1>7 DEF DispatchTask, AddTask, DispatchBusy, NotifyTask,
      MainPushResult, MainNotifyResult, SwapResults, HandleResult,
      CompleteResult, ResultsDone, CompleteTimeout, InvokeUnknownModule,
      InvokeModule, WakeResults, StopBegin, BatchEnd, HandleInvokeTimeout,
      mvars, wvars
  <2> QED BY <2>1
<1>8. ASSUME NEW w \in Workers,
             WorkerStep(w) \/ \E i \in Ids : Callback(w, i)
      PROVE  ThreadInv'
  <2>1. /\ UNCHANGED <<mpc, mworker>>
        /\ wpc[w] \notin {"none", "dead"}
        /\ \E to \in WorkerPC \ {"none"} : wpc' = [wpc EXCEPT ![w] = to]
        /\ \/ running' = running
           \/ /\ running' = [running EXCEPT ![w] = FALSE]
              /\ wpc' = [wpc EXCEPT ![w] = "dead"]
    <3>1. CASE HandleStop(w)
      BY <3>1 DEF HandleStop, UnchangedByWorker, WorkerPC, mvars
    <3>2. CASE RunExpired(w) \/ \E i \in Ids : Callback(w, i)
      BY <3>2 DEF RunExpired, Callback, WorkerComplete, UnchangedByWorker,
        WorkerPC, mvars
    <3>3. CASE TestRunning(w) \/ WakeTask(w) \/ SwapTasks(w) \/ RunDropped(w)
               \/ RunMethod(w) \/ TasksDone(w) \/ WorkerNotify(w)
               \/ WakeStop(w)
      <4>1. /\ UNCHANGED <<mpc, mworker, running>>
            /\ wpc[w] \notin {"none", "dead"}
        BY <3>3 DEF TestRunning, WakeTask, SwapTasks, RunDropped, RunMethod,
          TasksDone, WorkerNotify, WakeStop, UnchangedByWorker, mvars
      <4>2. \E to \in WorkerPC \ {"none"} : wpc' = [wpc EXCEPT ![w] = to]
        BY <3>3 DEF TestRunning, WakeTask, SwapTasks, RunDropped, RunMethod,
          TasksDone, WorkerNotify, WakeStop, WorkerPC
      <4> QED BY <4>1, <4>2
    <3> QED BY <1>8, <3>1, <3>2, <3>3 DEF WorkerStep
  <2>2. \A v \in Workers : /\ wpc[v] = "none" => wpc'[v] = "none"
                           /\ wpc[v] = "dead" => wpc'[v] = "dead"
                           /\ running[v] => running'[v] \/ wpc'[v] = "dead"
    BY <2>1
  <2> QED BY <2>1, <2>2
<1>9. CASE UNCHANGED vars BY <1>9 DEF vars, mvars, wvars
<1> QED
  BY <1>1, <1>2, <1>3, <1>4, <1>5, <1>6, <1>7, <1>8, <1>9
  DEF Next, MainStep, Exited

(* ThreadInv holds from the start of the process. *)
LEMMA ThreadInvAlways == SafeSpec => []ThreadInv
<1>1. Init => ThreadInv BY DEF Init, ThreadInv, Starting
<1> QED BY <1>1, ThreadInvStep, TypeCorrect, PTL DEF SafeSpec

(* When the process has left its event loop every worker thread has been   *)
(* joined and every request has been answered, exactly once.               *)
THEOREM CleanExitAlways == SafeSpec => []CleanExit
<1> DEFINE Drained ==
      mpc = "exited" => timers = {}
<1>1. Init => Drained BY DEF Init
<1>2. Drained /\ [Next]_vars => Drained'
  <2> SUFFICES ASSUME Drained, [Next]_vars PROVE Drained'
    OBVIOUS
  <2> USE DEF fvars, mvars
  <2>1. CASE MainStep
    BY <2>1 DEF MainStep, SpawnThread, SetRunning, DispatchTask, AddTask,
      DispatchBusy, NotifyTask, MainPushResult, MainNotifyResult, SwapResults,
      HandleResult, CompleteResult, ResultsDone, CompleteTimeout, StopWorker,
      Join, StopEnd, MustWait, BatchEnd
  <2>2. CASE InvokeUnknownModule \/ InvokeModule \/ WakeResults
             \/ StopBegin \/ StopTimer \/ \E i \in Ids : HandleInvokeTimeout(i)
    BY <2>2 DEF InvokeUnknownModule, InvokeModule, WakeResults, StopBegin,
      StopTimer, HandleInvokeTimeout
  <2>3. ASSUME NEW w \in Workers,
               WorkerStep(w) \/ \E i \in Ids : Callback(w, i)
        PROVE  UNCHANGED <<mpc, timers>>
    BY <2>3 DEF WorkerStep, TestRunning, WakeTask, SwapTasks, RunExpired,
      RunDropped, RunMethod, TasksDone, WorkerNotify, WakeStop, HandleStop,
      Callback, UnchangedByWorker
  <2>4. CASE UNCHANGED vars BY <2>4 DEF vars
  <2> QED BY <2>1, <2>2, <2>3, <2>4 DEF Next, Exited
<1>3. TypeOK /\ ThreadInv /\ AnsweredOnce /\ Drained => CleanExit
  <2> SUFFICES ASSUME TypeOK, ThreadInv, AnsweredOnce, Drained, mpc = "exited"
               PROVE  /\ \A w \in Workers : wpc[w] = "dead"
                      /\ \A i \in Ids : answers[i] = Count(i < invoke_id)
    BY DEF CleanExit
  <2>1. \A w \in Workers : wpc[w] = "dead"
    BY DEF ThreadInv
  <2>2. \A i \in Ids : ~Completing(i) /\ i \notin timers
    BY DEF Completing
  <2>3. \A i \in Ids : answers[i] = Count(i < invoke_id)
    BY <2>2 DEF AnsweredOnce, Count, TypeOK, FrameType
  <2> QED BY <2>1, <2>3
<1> HIDE DEF Drained
<1> QED
  BY <1>1, <1>2, <1>3, TypeCorrect, ThreadInvAlways, AnsweredOnceAlways, PTL
  DEF SafeSpec

-----------------------------------------------------------------------------
(* Every step keeps the task vectors within queue_size_. *)
LEMMA QueueBoundedStep ==
  ASSUME TypeOK, QueueBounded, [Next]_vars PROVE QueueBounded'
<1> USE DEF QueueBounded
<1>t. tasks \in [Workers -> Seq(Ids)] /\ last_worker \in Workers
  BY DEF TypeOK, QueueType
<1>1. CASE DispatchTask
  <2>1. \/ tasks' = tasks
        \/ tasks' = [tasks EXCEPT ![last_worker] = <<mreq>>]
        \/ /\ Len(tasks[last_worker]) < QueueSize
           /\ tasks' = [tasks EXCEPT ![last_worker]
                                      = Append(tasks[last_worker], mreq)]
    BY <1>1 DEF DispatchTask, AddTask
  <2>2. /\ Len(<<mreq>>) = 1
        /\ Len(Append(tasks[last_worker], mreq)) = Len(tasks[last_worker]) + 1
        /\ mreq \in Ids
    BY <1>1, <1>t DEF DispatchTask, TypeOK, MainType
  <2>3. ASSUME NEW s, Len(s) <= QueueSize,
               tasks' = [tasks EXCEPT ![last_worker] = s]
        PROVE  QueueBounded'
    BY <1>t, <2>3
  <2>4. Len(tasks[last_worker]) \in Nat /\ 1 <= QueueSize
    BY <1>t
  <2>5. CASE tasks' = tasks BY <2>5
  <2>6. CASE tasks' = [tasks EXCEPT ![last_worker] = <<mreq>>]
    BY <2>2, <2>3, <2>4, <2>6
  <2>7. CASE /\ Len(tasks[last_worker]) < QueueSize
             /\ tasks' = [tasks EXCEPT ![last_worker]
                                        = Append(tasks[last_worker], mreq)]
    <3>1. Len(Append(tasks[last_worker], mreq)) <= QueueSize
      BY <2>2, <2>4, <2>7
    <3> QED BY <2>3, <2>7, <3>1
  <2> QED BY <2>1, <2>5, <2>6, <2>7
<1>2. ASSUME NEW w \in Workers, SwapTasks(w) PROVE QueueBounded'
  <2>1. tasks' = [tasks EXCEPT ![w] = <<>>] BY <1>2 DEF SwapTasks
  <2> QED BY <1>t, <2>1
<1>3. CASE UNCHANGED tasks BY <1>3
<1>4. CASE SpawnThread \/ SetRunning \/ DispatchBusy \/ NotifyTask
           \/ MainPushResult \/ MainNotifyResult \/ SwapResults
           \/ HandleResult \/ CompleteResult \/ ResultsDone
           \/ CompleteTimeout \/ StopWorker \/ Join \/ StopEnd
           \/ InvokeUnknownModule \/ InvokeModule \/ WakeResults
           \/ StopBegin \/ BatchEnd \/ StopTimer
           \/ \E i \in Ids : HandleInvokeTimeout(i)
  <2>1. UNCHANGED tasks
    BY <1>4 DEF SpawnThread, SetRunning, DispatchBusy, NotifyTask,
      MainPushResult, MainNotifyResult, SwapResults, HandleResult,
      CompleteResult, ResultsDone, CompleteTimeout, StopWorker, Join, StopEnd,
      InvokeUnknownModule, InvokeModule, WakeResults, StopBegin, BatchEnd,
      StopTimer, HandleInvokeTimeout, qvars
  <2> QED BY <2>1
<1>5. ASSUME NEW w \in Workers, WorkerStep(w), ~SwapTasks(w)
      PROVE  UNCHANGED tasks
  BY <1>5 DEF WorkerStep, TestRunning, WakeTask, RunExpired, RunDropped,
    RunMethod, TasksDone, WorkerNotify, WakeStop, HandleStop, qvars
<1>6. ASSUME NEW w \in Workers, NEW i \in Ids, Callback(w, i)
      PROVE  UNCHANGED tasks
  BY <1>6 DEF Callback, qvars
<1>7. CASE UNCHANGED vars
  BY <1>7 DEF vars, qvars
<1> QED
  BY <1>1, <1>2, <1>3, <1>4, <1>5, <1>6, <1>7 DEF Next, MainStep, Exited

(* No task vector outgrows queue_size_, although AddTask does not look at  *)
(* the size when the vector is empty.                                      *)
THEOREM QueueBoundedAlways == SafeSpec => []QueueBounded
<1>1. Init => QueueBounded BY DEF Init, QueueBounded
<1> QED BY <1>1, QueueBoundedStep, TypeCorrect, PTL DEF SafeSpec

-----------------------------------------------------------------------------
(* ResultWakeup.  The same statement without sets of wake-ups: nobody is   *)
(* about to wake the main thread, or exactly one thread or byte is.        *)

NoNotifier == \A w \in Workers : wpc[w] # "notify"
MainWakes == mpc \in {"notify_result", "swap_results"}
OneNotifier ==
  \E w \in Workers : /\ wpc[w] = "notify"
                     /\ \A v \in Workers : wpc[v] = "notify" => v = w
NoWakeup == result_pipe = 0 /\ NoNotifier /\ ~MainWakes
OneWakeup ==
  \/ result_pipe = 1 /\ NoNotifier /\ ~MainWakes
  \/ result_pipe = 0 /\ OneNotifier /\ ~MainWakes
  \/ result_pipe = 0 /\ NoNotifier /\ MainWakes
WakeupInv == IF results = <<>> THEN NoWakeup ELSE OneWakeup

(* The two forms say the same in one direction, which is what is needed. *)
LEMMA WakeupInvImplies == WakeupInv => ResultWakeup
<1> SUFFICES ASSUME WakeupInv PROVE ResultWakeup
  OBVIOUS
<1>1. CASE results = <<>>
  <2>1. ResultWakeups = {}
    BY <1>1 DEF WakeupInv, NoWakeup, NoNotifier, MainWakes, ResultWakeups,
      Notifiers
  <2> QED BY <1>1, <2>1 DEF ResultWakeup
<1>2. CASE results # <<>>
  <2>1. \E a : ResultWakeups = {a}
    <3>1. CASE result_pipe = 1 /\ NoNotifier /\ ~MainWakes
      <4>1. ResultWakeups = {<<"pipe", 1>>}
        BY <3>1 DEF NoNotifier, MainWakes, ResultWakeups, Notifiers
      <4> QED BY <4>1
    <3>2. CASE result_pipe = 0 /\ OneNotifier /\ ~MainWakes
      <4>1. PICK w \in Workers : Notifiers = {w}
        BY <3>2 DEF OneNotifier, Notifiers
      <4>2. ResultWakeups = {<<"worker", w>>}
        BY <3>2, <4>1 DEF MainWakes, ResultWakeups
      <4> QED BY <4>2
    <3>3. CASE result_pipe = 0 /\ NoNotifier /\ MainWakes
      <4>1. ResultWakeups = {<<"main", mpc>>}
        <5>1. Notifiers = {} BY <3>3 DEF NoNotifier, Notifiers
        <5>2. {mpc} \cap {"notify_result", "swap_results"} = {mpc}
          BY <3>3 DEF MainWakes
        <5> QED BY <3>3, <5>1, <5>2 DEF ResultWakeups
      <4> QED BY <4>1
    <3> QED BY <1>2, <3>1, <3>2, <3>3 DEF WakeupInv, OneWakeup
  <2> QED BY <1>2, <2>1 DEF ResultWakeup
<1> QED BY <1>1, <1>2

(* The critical section of InvokeComplete on a worker: who finds results_  *)
(* empty becomes the one notifier, everybody else adds no wake-up.         *)
LEMMA WorkerCompleteWakeup ==
  ASSUME TypeOK, WakeupInv, NEW w \in Workers, NEW i \in Ids,
         NEW ret \in {"run", "poll"}, wpc[w] # "notify",
         WorkerComplete(w, i, ret), UNCHANGED <<result_pipe, mpc>>
  PROVE  WakeupInv'
<1>1. results' # <<>>
  BY DEF WorkerComplete, PushResult, TypeOK, ResultType
<1>2. wpc \in [Workers -> WorkerPC]
  BY DEF TypeOK, WorkerType
<1>3. MainWakes' = MainWakes
  BY DEF MainWakes
<1>4. CASE results = <<>>
  <2>1. wpc' = [wpc EXCEPT ![w] = "notify"]
    BY <1>4 DEF WorkerComplete
  <2>2. OneNotifier'
    BY <1>2, <1>4, <2>1 DEF OneNotifier, WakeupInv, NoWakeup, NoNotifier
  <2> QED BY <1>1, <1>3, <1>4, <2>2 DEF WakeupInv, NoWakeup, OneWakeup
<1>5. CASE results # <<>>
  <2>1. wpc' = [wpc EXCEPT ![w] = ret]
    BY <1>5 DEF WorkerComplete
  <2>2. \A v \in Workers : wpc'[v] = "notify" <=> wpc[v] = "notify"
    BY <1>2, <2>1
  <2>3. NoNotifier' = NoNotifier /\ OneNotifier' = OneNotifier
    BY <2>2 DEF NoNotifier, OneNotifier
  <2> QED BY <1>1, <1>3, <1>5, <2>3 DEF WakeupInv, OneWakeup
<1> QED BY <1>4, <1>5

(* Steps of a worker outside InvokeComplete and Notify. *)
LEMMA OtherWorkerWakeup ==
  ASSUME TypeOK, WakeupInv, NEW w \in Workers, NEW to \in WorkerPC,
         wpc[w] # "notify", to # "notify",
         wpc' = [wpc EXCEPT ![w] = to],
         UNCHANGED <<results, result_pipe>>,
         MainWakes' = MainWakes
  PROVE  WakeupInv'
<1>1. \A v \in Workers : wpc'[v] = "notify" <=> wpc[v] = "notify"
  BY DEF TypeOK, WorkerType
<1>2. NoNotifier' = NoNotifier /\ OneNotifier' = OneNotifier
  BY <1>1 DEF NoNotifier, OneNotifier
<1> QED BY <1>2 DEF WakeupInv, NoWakeup, OneWakeup

(* WakeupInv is inductive: one step per action that touches results_, its  *)
(* pipe or a program counter of a wake-up.                                 *)
LEMMA WakeupInvStep ==
  ASSUME TypeOK, ThreadInv, WakeupInv, [Next]_vars PROVE WakeupInv'
<1>t. /\ wpc \in [Workers -> WorkerPC] /\ mpc \in MainPC
      /\ results \in Seq(Ids) /\ result_pipe \in Nat
  BY DEF TypeOK, MainType, ResultType, WorkerType
<1>1. CASE MainPushResult
  <2>1. results' # <<>> /\ wpc' = wpc /\ result_pipe' = result_pipe
    BY <1>1, <1>t DEF MainPushResult, PushResult, wvars
  <2>2. NoNotifier' = NoNotifier /\ OneNotifier' = OneNotifier
    BY <2>1 DEF NoNotifier, OneNotifier
  <2>3. ~MainWakes /\ (MainWakes' <=> results = <<>>)
    BY <1>1 DEF MainPushResult, MainWakes
  <2> QED BY <2>1, <2>2, <2>3 DEF WakeupInv, NoWakeup, OneWakeup
<1>2. CASE MainNotifyResult
  <2>1. /\ UNCHANGED <<results, wpc>> /\ result_pipe' = result_pipe + 1
        /\ MainWakes /\ ~MainWakes'
    BY <1>2 DEF MainNotifyResult, MainWakes, wvars
  <2>2. NoNotifier' = NoNotifier
    BY <2>1 DEF NoNotifier
  <2> QED BY <2>1, <2>2 DEF WakeupInv, NoWakeup, OneWakeup
<1>3. CASE WakeResults
  <2>1. /\ UNCHANGED <<results, wpc>> /\ result_pipe > 0 /\ result_pipe' = 0
        /\ MainWakes'
    BY <1>3 DEF WakeResults, MainWakes, wvars
  <2>2. NoNotifier' = NoNotifier
    BY <2>1 DEF NoNotifier
  <2> QED BY <1>t, <2>1, <2>2 DEF WakeupInv, NoWakeup, OneWakeup
<1>4. CASE SwapResults
  <2>1. /\ results' = <<>> /\ UNCHANGED <<wpc, result_pipe>>
        /\ MainWakes /\ ~MainWakes'
    BY <1>4 DEF SwapResults, MainWakes, wvars
  <2>2. NoNotifier' = NoNotifier
    BY <2>1 DEF NoNotifier
  <2> QED BY <2>1, <2>2 DEF WakeupInv, NoWakeup, OneWakeup
<1>5. CASE SpawnThread
  <2>1. wpc' = [wpc EXCEPT ![mworker] = "test"] /\ mworker \in Workers
        /\ UNCHANGED <<results, result_pipe>> /\ MainWakes' = MainWakes
    BY <1>5 DEF SpawnThread, TypeOK, MainType, MainWakes, rvars
  <2>2. "test" \in WorkerPC BY DEF WorkerPC
  <2>3. wpc[mworker] # "notify"
    BY <1>5, <2>1 DEF SpawnThread, ThreadInv
  <2> QED BY <2>1, <2>2, <2>3, OtherWorkerWakeup
<1>6. CASE SetRunning \/ DispatchTask \/ DispatchBusy \/ NotifyTask
           \/ HandleResult \/ CompleteResult \/ ResultsDone
           \/ CompleteTimeout \/ StopWorker \/ Join \/ StopEnd
           \/ InvokeUnknownModule \/ InvokeModule \/ StopBegin \/ BatchEnd
           \/ StopTimer
           \/ \E i \in Ids : HandleInvokeTimeout(i)
  <2>1. /\ UNCHANGED <<results, result_pipe, wpc>>
        /\ ~MainWakes /\ ~MainWakes'
    BY <1>6 DEF SetRunning, DispatchTask, AddTask, DispatchBusy, NotifyTask,
      HandleResult, CompleteResult, ResultsDone, CompleteTimeout, StopWorker,
      Join, StopEnd, InvokeUnknownModule, InvokeModule, StopBegin, BatchEnd,
      StopTimer, HandleInvokeTimeout, MainWakes, rvars, wvars, mvars
  <2>2. NoNotifier' = NoNotifier /\ OneNotifier' = OneNotifier
    BY <2>1 DEF NoNotifier, OneNotifier
  <2> QED BY <2>1, <2>2 DEF WakeupInv, NoWakeup, OneWakeup
<1>7. ASSUME NEW w \in Workers, RunExpired(w) PROVE WakeupInv'
  <2>1. Head(wbatch[w]) \in Ids
    BY <1>7, HeadTail DEF RunExpired, TypeOK, WorkerType
  <2>2. /\ wpc[w] # "notify" /\ WorkerComplete(w, Head(wbatch[w]), "run")
        /\ UNCHANGED <<result_pipe, mpc>>
    BY <1>7 DEF RunExpired, UnchangedByWorker, mvars
  <2> QED BY <2>1, <2>2, WorkerCompleteWakeup
<1>8. ASSUME NEW w \in Workers, NEW i \in Ids, Callback(w, i)
      PROVE  WakeupInv'
  <2>1. /\ wpc[w] # "notify" /\ wpc[w] \in {"run", "poll"}
        /\ WorkerComplete(w, i, wpc[w]) /\ UNCHANGED <<result_pipe, mpc>>
    BY <1>8 DEF Callback, UnchangedByWorker, mvars
  <2> QED BY <2>1, WorkerCompleteWakeup
<1>9. ASSUME NEW w \in Workers, WorkerNotify(w) PROVE WakeupInv'
  <2>1. /\ wpc[w] = "notify" /\ wpc' = [wpc EXCEPT ![w] = wret[w]]
        /\ wret[w] # "notify" /\ result_pipe' = result_pipe + 1
        /\ UNCHANGED <<results, mpc>>
    BY <1>9 DEF WorkerNotify, UnchangedByWorker, mvars, TypeOK, WorkerType
  <2>2. MainWakes' = MainWakes
    BY <2>1 DEF MainWakes
  <2>3. result_pipe = 0 /\ OneNotifier /\ ~MainWakes /\ results # <<>>
    BY <2>1 DEF WakeupInv, NoWakeup, OneWakeup, NoNotifier
  <2>4. NoNotifier'
    BY <1>t, <2>1, <2>3 DEF OneNotifier, NoNotifier
  <2> QED BY <2>1, <2>2, <2>3, <2>4 DEF WakeupInv, OneWakeup
<1>10. ASSUME NEW w \in Workers,
              \/ TestRunning(w) \/ WakeTask(w) \/ SwapTasks(w)
              \/ RunDropped(w) \/ RunMethod(w) \/ TasksDone(w)
              \/ WakeStop(w) \/ HandleStop(w)
       PROVE  WakeupInv'
  <2>1. /\ UNCHANGED <<results, result_pipe>> /\ MainWakes' = MainWakes
        /\ wpc[w] # "notify"
    BY <1>10 DEF TestRunning, WakeTask, SwapTasks, RunDropped, RunMethod,
      TasksDone, WakeStop, HandleStop, UnchangedByWorker, MainWakes, mvars,
      rvars
  <2>2. \E to \in WorkerPC \ {"notify"} : wpc' = [wpc EXCEPT ![w] = to]
    BY <1>10, <1>t DEF TestRunning, WakeTask, SwapTasks, RunDropped,
      RunMethod, TasksDone, WakeStop, HandleStop, WorkerPC
  <2> QED BY <2>1, <2>2, OtherWorkerWakeup
<1>11. CASE UNCHANGED vars
  <2>1. UNCHANGED <<results, result_pipe, wpc, mpc>>
    BY <1>11 DEF vars, rvars, wvars, mvars
  <2> QED
    BY <2>1 DEF WakeupInv, NoWakeup, OneWakeup, NoNotifier, OneNotifier,
      MainWakes
<1> QED
  BY <1>1, <1>2, <1>3, <1>4, <1>5, <1>6, <1>7, <1>8, <1>9, <1>10, <1>11
  DEF Next, MainStep, WorkerStep, Exited

(* No wake-up of the main thread is lost and none is doubled: results are  *)
(* waiting exactly when one notification is on its way.                    *)
THEOREM ResultWakeupAlways == SafeSpec => []ResultWakeup
<1>1. Init => WakeupInv
  BY DEF Init, WakeupInv, NoWakeup, NoNotifier, MainWakes
<1> QED
  BY <1>1, WakeupInvStep, WakeupInvImplies, TypeCorrect, ThreadInvAlways, PTL
  DEF SafeSpec

-----------------------------------------------------------------------------
(* The pipeline implements InvokeService (safety).  Status is the mapping  *)
(* of InvokePipeline!Service.                                              *)

Status == [i \in Ids |-> IF answers[i] > 0 THEN "answered"
                         ELSE IF i < invoke_id THEN "pending" ELSE "new"]

(* Steps that neither take nor answer a request stutter in InvokeService,  *)
(* except the last step of Framework::Stop.                                *)
LEMMA ServiceStutter ==
  ASSUME UNCHANGED <<answers, invoke_id>>, mpc = "exited" <=> mpc' = "exited"
  PROVE  UNCHANGED Service!vars
  BY DEF Service!vars

(* The status of one request changes when only its answer count or its     *)
(* position relative to invoke_id_ does.                                   *)
LEMMA StatusChange ==
  ASSUME NEW i \in Ids,
         \A j \in Ids \ {i} : (answers'[j] > 0) <=> (answers[j] > 0),
         \A j \in Ids \ {i} : (j < invoke_id') <=> (j < invoke_id)
  PROVE  Status' = [Status EXCEPT ![i] = Status'[i]]
<1>1. DOMAIN Status' = Ids /\ DOMAIN Status = Ids
  BY DEF Status
<1>2. \A j \in Ids \ {i} : Status'[j] = Status[j]
  BY DEF Status
<1>3. Status' = [j \in Ids |-> Status'[j]]
  BY DEF Status
<1> QED BY <1>1, <1>2, <1>3

(* Every step of the pipeline is a step of InvokeService or stutters. *)
LEMMA ServiceStep ==
  ASSUME TypeOK, TimerRegistered, AnsweredOnce, CleanExit', [Next]_vars
  PROVE  [Service!Next]_Service!vars
<1>t. /\ mpc \in MainPC /\ invoke_id \in Nat /\ invoke_id <= MaxInvoke
      /\ answers \in [Ids -> Nat]
      /\ mpc \in {"complete_timeout", "complete_result"} => mreq \in Ids
  BY DEF TypeOK, MainType, FrameType
<1>a. ASSUME NEW i \in Ids
      PROVE  /\ i = invoke_id => answers[i] = 0
             /\ Completing(i) => answers[i] = 0 /\ i < invoke_id
  <2>1. answers[i] + Count(i \in timers) + Count(Completing(i))
          = Count(i < invoke_id)
    BY DEF AnsweredOnce
  <2> QED BY <1>t, <2>1 DEF Count
<1>1. CASE InvokeUnknownModule
  <2>1. PICK i \in Ids : i = invoke_id
    BY <1>1, <1>t DEF InvokeUnknownModule
  <2>2. /\ invoke_id' = i + 1 /\ answers' = [answers EXCEPT ![i] = @ + 1]
        /\ mpc # "exited" /\ mpc' # "exited" /\ answers[i] = 0
    BY <1>1, <1>a, <2>1 DEF InvokeUnknownModule, mvars
  <2>3. Status' = [Status EXCEPT ![i] = Status'[i]]
    BY <1>t, <2>1, <2>2, StatusChange
  <2>4. Status[i] = "new" /\ Status'[i] = "answered"
    BY <1>t, <2>1, <2>2 DEF Status
  <2> QED BY <2>2, <2>3, <2>4 DEF Service!Next, Service!Refuse, Status
<1>2. CASE InvokeModule
  <2>1. PICK i \in Ids : i = invoke_id
    BY <1>2, <1>t DEF InvokeModule
  <2>2. /\ invoke_id' = i + 1 /\ answers' = answers
        /\ mpc # "exited" /\ mpc' # "exited" /\ answers[i] = 0
    BY <1>2, <1>a, <2>1 DEF InvokeModule
  <2>3. Status' = [Status EXCEPT ![i] = Status'[i]]
    BY <1>t, <2>1, <2>2, StatusChange
  <2>4. Status[i] = "new" /\ Status'[i] = "pending"
    BY <1>t, <2>1, <2>2 DEF Status
  <2> QED BY <2>2, <2>3, <2>4 DEF Service!Next, Service!Submit, Status
<1>3. CASE CompleteTimeout \/ CompleteResult
  <2>1. PICK i \in Ids : i = mreq /\ Completing(i)
    BY <1>3, <1>t DEF CompleteTimeout, CompleteResult, Completing
  <2>2. /\ UNCHANGED invoke_id /\ answers' = [answers EXCEPT ![i] = @ + 1]
        /\ mpc # "exited" /\ mpc' # "exited"
        /\ answers[i] = 0 /\ i < invoke_id
    BY <1>3, <1>a, <2>1 DEF CompleteTimeout, CompleteResult
  <2>3. Status' = [Status EXCEPT ![i] = Status'[i]]
    BY <1>t, <2>2, StatusChange
  <2>4. Status[i] = "pending" /\ Status'[i] = "answered"
    BY <1>t, <2>2 DEF Status
  <2> QED BY <2>2, <2>3, <2>4 DEF Service!Next, Service!Answer, Status
<1>4. CASE StopEnd
  <2>1. UNCHANGED <<answers, invoke_id>> /\ mpc # "exited"
    BY <1>4 DEF StopEnd, fvars
  <2>2. CASE mpc' # "exited"
    BY <2>1, <2>2, ServiceStutter
  <2>3. CASE mpc' = "exited"
    <3>1. \A i \in Ids : answers'[i] = Count(i < invoke_id')
      BY <2>3 DEF CleanExit, Count
    <3>2. \A i \in Ids : Status[i] # "pending"
      BY <1>t, <2>1, <3>1 DEF Status, Count
    <3>3. Service!Exit
      BY <2>1, <2>3, <3>2 DEF Service!Exit, Status
    <3> QED BY <3>3 DEF Service!Next
  <2> QED BY <2>2, <2>3
<1>5. CASE SpawnThread \/ SetRunning \/ DispatchTask \/ DispatchBusy
           \/ NotifyTask \/ MainPushResult \/ MainNotifyResult \/ SwapResults
           \/ HandleResult \/ ResultsDone \/ StopWorker \/ Join
           \/ WakeResults \/ StopBegin \/ BatchEnd \/ StopTimer
           \/ \E i \in Ids : HandleInvokeTimeout(i)
  <2>1. /\ UNCHANGED <<answers, invoke_id>>
        /\ mpc # "exited" /\ mpc' # "exited"
    BY <1>5 DEF SpawnThread, SetRunning, DispatchTask, AddTask, DispatchBusy,
      NotifyTask, MainPushResult, MainNotifyResult, SwapResults, HandleResult,
      ResultsDone, StopWorker, Join, WakeResults, StopBegin, BatchEnd,
      StopTimer, HandleInvokeTimeout, fvars, mvars
  <2> QED BY <2>1, ServiceStutter
<1>6. ASSUME NEW w \in Workers,
             WorkerStep(w) \/ \E i \in Ids : Callback(w, i)
      PROVE  UNCHANGED Service!vars
  <2>1. UNCHANGED <<answers, invoke_id, mpc>>
    BY <1>6 DEF WorkerStep, TestRunning, WakeTask, SwapTasks, RunExpired,
      RunDropped, RunMethod, TasksDone, WorkerNotify, WakeStop, HandleStop,
      Callback, UnchangedByWorker, fvars, mvars
  <2> QED BY <2>1, ServiceStutter
<1>7. CASE UNCHANGED vars
  BY <1>7, ServiceStutter DEF vars, fvars, mvars
<1> QED
  BY <1>1, <1>2, <1>3, <1>4, <1>5, <1>6, <1>7 DEF Next, MainStep, Exited

(* Framework::Invoke keeps its promise to the network layer: a request is  *)
(* answered at most once, and the process does not leave its event loop    *)
(* while one is unanswered.                                                *)
THEOREM ImplementsServiceSafety == SafeSpec => Service!SafeSpec
<1>1. Init => Service!Init
  BY DEF Init, Service!Init
<1> QED
  BY <1>1, ServiceStep, TypeCorrect, TimerRegisteredAlways,
    AnsweredOnceAlways, CleanExitAlways, PTL DEF SafeSpec, Service!SafeSpec

-----------------------------------------------------------------------------
(* The shutdown: nothing is dispatched any more when the workers are told  *)
(* to stop, and a worker that runs HandleStop never polls again.           *)
Closing == stop \in {"grace", "wait"}
StopInv ==
  /\ Starting \/ mpc \in {"dispatch", "notify_task"} => ~Closing
  /\ mpc \in {"stop_modules", "join"} => Closing
  /\ \A w \in Workers :
       /\ stop_pipe[w] \/ wstop[w] => Closing
       /\ wpc[w] = "stopping" => wstop[w]
       /\ wstop[w] => /\ wpc[w] \notin {"none", "test", "poll"}
                      /\ wpc[w] = "notify" => wret[w] = "run"

(* StopInv is inductive. *)
LEMMA StopInvStep ==
  ASSUME TypeOK, StopInv, [Next]_vars PROVE StopInv'
<1>t. /\ mpc \in MainPC /\ stop \in StopPhases
      /\ wpc \in [Workers -> WorkerPC]
      /\ wret \in [Workers -> {"run", "poll"}]
      /\ stop_pipe \in [Workers -> BOOLEAN] /\ wstop \in [Workers -> BOOLEAN]
      /\ mpc = "spawn" => mworker \in Workers
  BY DEF TypeOK, MainType, BatchType, WorkerType, FlagType
<1> USE <1>t DEF StopInv, Closing, Starting
<1>1. CASE SpawnThread
  BY <1>1 DEF SpawnThread
<1>2. CASE SetRunning \/ DispatchBusy \/ NotifyTask \/ MainPushResult
           \/ MainNotifyResult \/ SwapResults \/ CompleteResult
           \/ ResultsDone \/ CompleteTimeout \/ Join \/ StopTimer
           \/ InvokeUnknownModule \/ InvokeModule \/ HandleResult
           \/ \E i \in Ids : HandleInvokeTimeout(i)
  <2>1. /\ UNCHANGED <<stop, stop_pipe, wstop, wpc, wret>>
        /\ mpc' \in {"spawn", "set_running", "dispatch", "notify_task"}
             => ~Closing
        /\ mpc' \in {"stop_modules", "join"} => Closing
    BY <1>2 DEF SetRunning, DispatchBusy, NotifyTask, MainPushResult,
      MainNotifyResult, SwapResults, CompleteResult, ResultsDone,
      CompleteTimeout, Join, StopTimer, InvokeUnknownModule, InvokeModule,
      HandleResult, HandleInvokeTimeout, mvars, wvars
  <2> QED BY <2>1
<1>3. CASE DispatchTask
  BY <1>3 DEF DispatchTask, AddTask, wvars
<1>4. CASE StopWorker
  BY <1>4 DEF StopWorker, wvars
<1>5. CASE WakeResults \/ StopBegin \/ BatchEnd \/ StopEnd
  <2>1. /\ UNCHANGED <<stop_pipe, wstop, wpc, wret>>
        /\ mpc' \in {"loop", "swap_results", "exited"}
        /\ Closing => Closing'
    BY <1>5 DEF WakeResults, StopBegin, BatchEnd, StopEnd, wvars
  <2> QED BY <2>1
<1>6. ASSUME NEW w \in Workers, TestRunning(w) \/ WakeTask(w) \/ SwapTasks(w)
             \/ TasksDone(w) \/ WorkerNotify(w) \/ HandleStop(w)
      PROVE  StopInv'
  <2>1. UNCHANGED <<mpc, stop, stop_pipe, wstop, wret>>
    BY <1>6 DEF TestRunning, WakeTask, SwapTasks, TasksDone, WorkerNotify,
      HandleStop, UnchangedByWorker, mvars
  <2>2. PICK to \in WorkerPC :
          /\ wpc' = [wpc EXCEPT ![w] = to]
          /\ wstop[w] => to \notin {"none", "test", "poll", "notify"}
          /\ to = "stopping" => wstop[w]
    BY <1>6 DEF TestRunning, WakeTask, SwapTasks, TasksDone, WorkerNotify,
      HandleStop, WorkerPC
  <2> QED BY <2>1, <2>2
<1>7. ASSUME NEW w \in Workers, RunExpired(w) \/ RunDropped(w) \/ RunMethod(w)
             \/ \E i \in Ids : Callback(w, i)
      PROVE  StopInv'
  <2>1. UNCHANGED <<mpc, stop, stop_pipe, wstop>>
    BY <1>7 DEF RunExpired, RunDropped, RunMethod, Callback,
      UnchangedByWorker, mvars
  <2>2. PICK to \in {"run", "poll", "notify"}, r \in {"run", "poll"} :
          /\ wpc' = [wpc EXCEPT ![w] = to] /\ wret' = [wret EXCEPT ![w] = r]
          /\ wstop[w] => to # "poll" /\ (to = "notify" => r = "run")
    BY <1>7 DEF RunExpired, RunDropped, RunMethod, Callback, WorkerComplete
  <2> QED BY <2>1, <2>2
<1>8. ASSUME NEW w \in Workers, WakeStop(w) PROVE StopInv'
  BY <1>8 DEF WakeStop, UnchangedByWorker, mvars
<1>9. CASE UNCHANGED vars BY <1>9 DEF vars, mvars, wvars
<1> QED
  BY <1>1, <1>2, <1>3, <1>4, <1>5, <1>6, <1>7, <1>8, <1>9
  DEF Next, MainStep, WorkerStep, Exited

(* StopInv holds from the start of the process. *)
LEMMA StopInvAlways == SafeSpec => []StopInv
<1>1. Init => StopInv BY DEF Init, StopInv, Closing, Starting
<1> QED BY <1>1, StopInvStep, TypeCorrect, PTL DEF SafeSpec

-----------------------------------------------------------------------------
(* The wake-ups of a worker change only with its pipe, its vector and what *)
(* the two threads are about to do.                                        *)
LEMMA TaskWakeupSame ==
  ASSUME TaskWakeup, NEW w \in Workers,
         task_pipe'[w] = task_pipe[w], tasks'[w] = tasks[w],
         wstop'[w] = wstop[w],
         (wpc'[w] = "swap") <=> (wpc[w] = "swap"),
         (mpc' = "notify_task" /\ mworker' = w)
           <=> (mpc = "notify_task" /\ mworker = w)
  PROVE  /\ TaskWakeups(w)' <= 1
         /\ tasks'[w] # <<>> => TaskWakeups(w)' = 1
         /\ TaskWakeups(w)' = 1 /\ ~wstop'[w] => tasks'[w] # <<>>
<1>1. TaskWakeups(w)' = TaskWakeups(w)
  BY DEF TaskWakeups, Count
<1> QED BY <1>1 DEF TaskWakeup

(* Every step keeps tasks_ of every worker waiting exactly while a wake-up *)
(* of it is on its way, or a stale byte of a stopped one in its pipe.      *)
LEMMA TaskWakeupStep ==
  ASSUME TypeOK, ThreadInv, StopInv, TaskWakeup, [Next]_vars PROVE TaskWakeup'
<1> SUFFICES ASSUME NEW w \in Workers
             PROVE  /\ TaskWakeups(w)' <= 1
                    /\ tasks'[w] # <<>> => TaskWakeups(w)' = 1
                    /\ TaskWakeups(w)' = 1 /\ ~wstop'[w] => tasks'[w] # <<>>
  BY DEF TaskWakeup
<1>t. /\ mpc \in MainPC /\ wpc \in [Workers -> WorkerPC]
      /\ tasks \in [Workers -> Seq(Ids)] /\ task_pipe \in [Workers -> Nat]
      /\ wstop \in [Workers -> BOOLEAN] /\ last_worker \in Workers
      /\ wret \in [Workers -> {"run", "poll"}]
      /\ mpc \in {"spawn", "notify_task"} => mworker \in Workers
  BY DEF TypeOK, MainType, WorkerType, QueueType, FlagType
<1>i. /\ TaskWakeups(w) <= 1
      /\ tasks[w] # <<>> => TaskWakeups(w) = 1
      /\ TaskWakeups(w) = 1 /\ ~wstop[w] => tasks[w] # <<>>
  BY DEF TaskWakeup
<1> DEFINE Quiet == /\ task_pipe'[w] = task_pipe[w] /\ tasks'[w] = tasks[w]
                    /\ wstop'[w] = wstop[w]
                    /\ (wpc'[w] = "swap") <=> (wpc[w] = "swap")
                    /\ (mpc' = "notify_task" /\ mworker' = w)
                         <=> (mpc = "notify_task" /\ mworker = w)
<1>q. ASSUME Quiet
      PROVE  /\ TaskWakeups(w)' <= 1
             /\ tasks'[w] # <<>> => TaskWakeups(w)' = 1
             /\ TaskWakeups(w)' = 1 /\ ~wstop'[w] => tasks'[w] # <<>>
  BY <1>q, TaskWakeupSame
<1>1. CASE DispatchTask
  <2>1. /\ mpc = "dispatch" /\ mworker' = last_worker
        /\ UNCHANGED <<task_pipe, wpc, wstop>>
        /\ AddTask(last_worker, mreq)
    BY <1>1 DEF DispatchTask, wvars
  <2>2. CASE last_worker # w
    BY <1>q, <1>t, <2>1, <2>2 DEF AddTask
  <2>3. CASE last_worker = w /\ tasks[w] = <<>>
    <3>1. /\ mpc' = "notify_task" /\ tasks'[w] # <<>> /\ ~wstop[w]
          /\ TaskWakeups(w) = 0
      <4>1. mpc' = "notify_task" /\ tasks'[w] = <<mreq>>
        BY <1>t, <2>1, <2>3 DEF AddTask
      <4>2. ~wstop[w]
        BY <2>1 DEF StopInv
      <4>3. TaskWakeups(w) \in Nat
        BY <1>t DEF TaskWakeups, Count
      <4> QED BY <1>i, <2>3, <4>1, <4>2, <4>3
    <3>2. task_pipe[w] = 0 /\ ~(wpc[w] = "swap" /\ ~wstop[w])
      <4>1. Count(mpc = "notify_task" /\ mworker = w) = 0
        BY <2>1 DEF Count
      <4>2. Count(wpc[w] = "swap" /\ ~wstop[w]) \in 0..1
        BY DEF Count
      <4>3. task_pipe[w] = 0 /\ Count(wpc[w] = "swap" /\ ~wstop[w]) = 0
        BY <1>t, <3>1, <4>1, <4>2 DEF TaskWakeups
      <4> QED BY <4>3 DEF Count
    <3>3. TaskWakeups(w)' = 1
      <4>1. Count(mpc = "notify_task" /\ mworker = w)' = 1
        BY <2>1, <2>3, <3>1 DEF Count
      <4>2. Count(wpc[w] = "swap" /\ ~wstop[w])' = 0
        BY <2>1, <3>2 DEF Count
      <4>3. task_pipe'[w] = 0
        BY <2>1, <3>2
      <4> QED BY <4>1, <4>2, <4>3 DEF TaskWakeups
    <3> QED BY <2>1, <3>1, <3>3
  <2>4. CASE last_worker = w /\ tasks[w] # <<>>
    <3>1. mpc' # "notify_task" /\ tasks'[w] # <<>>
      BY <1>t, <2>1, <2>4 DEF AddTask
    <3>2. TaskWakeups(w)' = TaskWakeups(w)
      BY <2>1, <3>1 DEF TaskWakeups, Count
    <3> QED BY <1>i, <2>1, <2>4, <3>1, <3>2
  <2> QED BY <2>2, <2>3, <2>4
<1>2. CASE NotifyTask
  <2>1. CASE mworker # w
    BY <1>2, <1>q, <1>t, <2>1 DEF NotifyTask, wvars
  <2>2. CASE mworker = w
    <3>1. /\ TaskWakeups(w)' = TaskWakeups(w)
          /\ UNCHANGED <<tasks, wstop>>
      BY <1>2, <1>t, <2>2 DEF NotifyTask, wvars, TaskWakeups, Count
    <3> QED BY <1>i, <3>1
  <2> QED BY <2>1, <2>2
<1>3. CASE SpawnThread \/ SetRunning \/ DispatchBusy \/ MainPushResult
           \/ MainNotifyResult \/ SwapResults \/ HandleResult
           \/ CompleteResult \/ ResultsDone \/ CompleteTimeout \/ StopWorker
           \/ Join \/ StopEnd \/ BatchEnd \/ StopTimer \/ StopBegin
           \/ InvokeUnknownModule \/ InvokeModule \/ WakeResults
           \/ \E i \in Ids : HandleInvokeTimeout(i)
  <2>1. /\ UNCHANGED <<tasks, task_pipe, wstop>>
        /\ mpc # "notify_task" /\ mpc' # "notify_task"
    BY <1>3 DEF SpawnThread, SetRunning, DispatchBusy, MainPushResult,
      MainNotifyResult, SwapResults, HandleResult, CompleteResult,
      ResultsDone, CompleteTimeout, StopWorker, Join, StopEnd, BatchEnd,
      StopTimer, StopBegin, InvokeUnknownModule, InvokeModule, WakeResults,
      HandleInvokeTimeout, mvars, qvars, wvars
  <2>2. (wpc'[w] = "swap") <=> (wpc[w] = "swap")
    <3>1. CASE SpawnThread
      <4>1. wpc[mworker] = "none"
        BY <1>t, <3>1 DEF SpawnThread, ThreadInv
      <4> QED BY <1>t, <3>1, <4>1 DEF SpawnThread
    <3>2. CASE ~SpawnThread
      BY <1>3, <3>2 DEF SetRunning, DispatchBusy, MainPushResult,
        MainNotifyResult, SwapResults, HandleResult, CompleteResult,
        ResultsDone, CompleteTimeout, StopWorker, Join, StopEnd, BatchEnd,
        StopTimer, StopBegin, InvokeUnknownModule, InvokeModule, WakeResults,
        HandleInvokeTimeout, wvars
    <3> QED BY <3>1, <3>2
  <2> QED BY <1>q, <2>1, <2>2
<1>4. ASSUME NEW v \in Workers, WorkerStep(v) \/ \E i \in Ids : Callback(v, i),
             v # w
      PROVE  Quiet
  <2>1. CASE RunExpired(v) \/ \E i \in Ids : Callback(v, i)
    BY <1>4, <1>t, <2>1 DEF RunExpired, Callback, WorkerComplete,
      UnchangedByWorker, mvars, qvars
  <2>2. CASE TestRunning(v) \/ WakeTask(v) \/ SwapTasks(v) \/ RunDropped(v)
             \/ RunMethod(v) \/ TasksDone(v) \/ WorkerNotify(v) \/ WakeStop(v)
             \/ HandleStop(v)
    BY <1>4, <1>t, <2>2 DEF TestRunning, WakeTask, SwapTasks, RunDropped,
      RunMethod, TasksDone, WorkerNotify, WakeStop, HandleStop,
      UnchangedByWorker, mvars, qvars
  <2> QED BY <1>4, <2>1, <2>2 DEF WorkerStep
<1>5. CASE WakeTask(w)
  <2>1. /\ ~wstop[w] /\ wpc[w] = "poll" /\ task_pipe[w] > 0
        /\ UNCHANGED <<tasks, wstop>>
    BY <1>5 DEF WakeTask, StopInv
  <2>2. TaskWakeups(w) = 1 /\ task_pipe[w] = 1
        /\ ~(mpc = "notify_task" /\ mworker = w)
    <3> DEFINE a == Count(mpc = "notify_task" /\ mworker = w)
               b == Count(wpc[w] = "swap" /\ ~wstop[w])
    <3>1. a \in 0..1 /\ b \in 0..1 /\ task_pipe[w] \in Nat
      BY <1>t DEF Count
    <3>2. task_pipe[w] + a + b <= 1
      BY <1>i DEF TaskWakeups
    <3>3. task_pipe[w] = 1 /\ a = 0 /\ b = 0
      <4> HIDE DEF a, b
      <4> QED BY <2>1, <3>1, <3>2
    <3>4. TaskWakeups(w) = 1
      BY <3>3 DEF TaskWakeups
    <3> QED BY <3>3, <3>4 DEF Count
  <2>3. TaskWakeups(w)' = 1
    BY <1>5, <1>t, <2>1, <2>2 DEF WakeTask, UnchangedByWorker, mvars,
      TaskWakeups, Count
  <2> QED BY <1>i, <2>1, <2>2, <2>3
<1>6. CASE SwapTasks(w)
  <2>1. /\ tasks'[w] = <<>> /\ UNCHANGED <<mpc, mworker, task_pipe, wstop>>
        /\ wpc[w] = "swap" /\ wpc'[w] = "run"
    BY <1>6, <1>t DEF SwapTasks, UnchangedByWorker, mvars
  <2>2. TaskWakeups(w)' = TaskWakeups(w) - Count(~wstop[w])
    BY <1>t, <2>1 DEF TaskWakeups, Count
  <2>3. TaskWakeups(w) \in Nat /\ TaskWakeups(w) >= Count(~wstop[w])
    BY <1>t, <2>1 DEF TaskWakeups, Count
  <2> QED BY <1>i, <2>1, <2>2, <2>3 DEF Count
<1>7. CASE WakeStop(w)
  <2>1. /\ wpc[w] = "poll" /\ wpc'[w] = "stopping" /\ wstop'[w]
        /\ UNCHANGED <<mpc, mworker, tasks, task_pipe>>
    BY <1>7, <1>t DEF WakeStop, UnchangedByWorker, mvars, qvars
  <2>2. TaskWakeups(w)' = TaskWakeups(w)
    BY <1>t, <2>1 DEF TaskWakeups, Count
  <2> QED BY <1>i, <2>1, <2>2
<1>8. CASE HandleStop(w)
  <2>1. /\ wpc[w] = "stopping" /\ wstop[w]
        /\ UNCHANGED <<mpc, mworker, tasks, task_pipe, wstop>>
    BY <1>8 DEF HandleStop, UnchangedByWorker, mvars, qvars, StopInv
  <2>2. TaskWakeups(w)' = TaskWakeups(w)
    BY <1>t, <2>1 DEF TaskWakeups, Count
  <2> QED BY <1>i, <2>1, <2>2
<1>9. CASE TestRunning(w) \/ RunDropped(w) \/ RunMethod(w) \/ TasksDone(w)
           \/ WorkerNotify(w) \/ RunExpired(w) \/ \E i \in Ids : Callback(w, i)
  <2>1. Quiet
    <3>1. UNCHANGED <<mpc, mworker, tasks, task_pipe, wstop>>
      BY <1>9 DEF TestRunning, RunDropped, RunMethod, TasksDone,
        WorkerNotify, RunExpired, Callback, UnchangedByWorker, mvars, qvars
    <3>2. wpc[w] # "swap" /\ wpc'[w] # "swap"
      BY <1>9, <1>t DEF TestRunning, RunDropped, RunMethod, TasksDone,
        WorkerNotify, RunExpired, Callback, WorkerComplete
    <3> QED BY <3>1, <3>2
  <2> QED BY <1>q, <2>1
<1>10. CASE UNCHANGED vars
  BY <1>10, <1>q DEF vars, mvars, qvars, wvars
<1> QED
  BY <1>1, <1>2, <1>3, <1>4, <1>5, <1>6, <1>7, <1>8, <1>9, <1>10, <1>q
  DEF Next, MainStep, WorkerStep, Exited

(* A task that Worker::AddTask queues is followed by exactly one byte in   *)
(* the worker's pipe, which HandleTask takes before it swaps the vector:   *)
(* no wake-up of a worker is lost and none is written twice.               *)
THEOREM TaskWakeupAlways == SafeSpec => []TaskWakeup
<1>1. Init => TaskWakeup
  BY DEF Init, TaskWakeup, TaskWakeups, Count
<1> QED
  BY <1>1, TaskWakeupStep, TypeCorrect, ThreadInvAlways, StopInvAlways,
    PTL DEF SafeSpec
-----------------------------------------------------------------------------
(* DispatchedOnce is not inductive: that the request being dispatched is   *)
(* with no worker yet must be known before AddTask queues it, and that an  *)
(* id not yet given out is with none before Invoke gives it out.  The      *)
(* requests of one worker are in one place each, those of two workers      *)
(* differ, all were given out, and the one in DispatchTask is with nobody. *)
Entries(s) == {s[k] : k \in DOMAIN s}
NoRepeat(s) == \A j, k \in DOMAIN s : s[j] = s[k] => j = k
Has(w) == Entries(tasks[w]) \cup Entries(wbatch[w]) \cup held[w]
OncePerWorker(w) ==
  /\ NoRepeat(tasks[w]) /\ NoRepeat(wbatch[w])
  /\ Entries(tasks[w]) \cap Entries(wbatch[w]) = {}
  /\ Entries(tasks[w]) \cap held[w] = {}
  /\ Entries(wbatch[w]) \cap held[w] = {}
PlaceInv ==
  /\ \A w \in Workers : OncePerWorker(w)
  /\ \A v, w \in Workers : v # w => Has(v) \cap Has(w) = {}
  /\ \A w \in Workers : \A i \in Has(w) : i < invoke_id
  /\ mpc = "dispatch" =>
       mreq < invoke_id /\ \A w \in Workers : mreq \notin Has(w)

(* Taking the first entry off a vector without repetitions. *)
LEMMA TailEntries ==
  ASSUME NEW S, NEW s \in Seq(S), s # <<>>, NoRepeat(s)
  PROVE  /\ NoRepeat(Tail(s)) /\ Entries(Tail(s)) \subseteq Entries(s)
         /\ Head(s) \in Entries(s) /\ Head(s) \notin Entries(Tail(s))
<1>1. /\ Len(s) \in Nat \ {0} /\ DOMAIN s = 1..Len(s) /\ Head(s) = s[1]
      /\ DOMAIN Tail(s) = 1..(Len(s) - 1)
      /\ \A k \in 1..(Len(s) - 1) : Tail(s)[k] = s[k + 1]
  OBVIOUS
<1>2. \A k \in DOMAIN Tail(s) : k + 1 \in DOMAIN s /\ Tail(s)[k] = s[k + 1]
  BY <1>1
<1>3. NoRepeat(Tail(s))
  BY <1>1, <1>2 DEF NoRepeat
<1>4. Entries(Tail(s)) \subseteq Entries(s)
  BY <1>2 DEF Entries
<1>5. Head(s) \in Entries(s)
  BY <1>1 DEF Entries
<1>6. Head(s) \notin Entries(Tail(s))
  <2>1. ASSUME NEW k \in DOMAIN Tail(s), Tail(s)[k] = Head(s) PROVE FALSE
    <3>1. k + 1 \in DOMAIN s /\ s[k + 1] = s[1] /\ 1 \in DOMAIN s
      BY <1>1, <1>2, <2>1
    <3>2. k + 1 = 1
      BY <3>1 DEF NoRepeat
    <3> QED BY <1>1, <2>1, <3>2
  <2> QED BY <2>1 DEF Entries
<1> QED BY <1>3, <1>4, <1>5, <1>6

(* Adding an entry a vector does not have. *)
LEMMA AppendEntries ==
  ASSUME NEW S, NEW s \in Seq(S), NEW x \in S, x \notin Entries(s), NoRepeat(s)
  PROVE  NoRepeat(Append(s, x)) /\ Entries(Append(s, x)) = Entries(s) \cup {x}
<1>1. /\ Len(s) \in Nat /\ DOMAIN s = 1..Len(s)
      /\ DOMAIN Append(s, x) = 1..(Len(s) + 1)
      /\ Append(s, x)[Len(s) + 1] = x
      /\ \A k \in 1..Len(s) : Append(s, x)[k] = s[k]
  OBVIOUS
<1>2. \A k \in DOMAIN Append(s, x) :
        \/ k \in DOMAIN s /\ Append(s, x)[k] = s[k]
        \/ k = Len(s) + 1 /\ Append(s, x)[k] = x
  BY <1>1
<1>3. \A k \in DOMAIN s : s[k] # x
  BY DEF Entries
<1>4. NoRepeat(Append(s, x))
  BY <1>2, <1>3 DEF NoRepeat
<1>5. Entries(Append(s, x)) \subseteq Entries(s) \cup {x}
  BY <1>2 DEF Entries
<1>6. Entries(s) \cup {x} \subseteq Entries(Append(s, x))
  BY <1>1 DEF Entries
<1> QED BY <1>4, <1>5, <1>6

LEMMA ShortEntries ==
  /\ Entries(<<>>) = {} /\ NoRepeat(<<>>)
  /\ \A x : Entries(<<x>>) = {x} /\ NoRepeat(<<x>>)
  BY DEF Entries, NoRepeat

(* A step that dispatches nothing and leaves no worker with a request it   *)
(* did not have.                                                           *)
LEMMA PlaceInvMoves ==
  ASSUME PlaceInv, FrameType, MainType, FrameType', HeldType', WorkerType',
         QueueType', HeldType, WorkerType, QueueType,
         invoke_id' >= invoke_id,
         \A w \in Workers : OncePerWorker(w)' /\ Has(w)' \subseteq Has(w),
         mpc' = "dispatch" => mpc = "dispatch" /\ mreq' = mreq
  PROVE  PlaceInv'
<1>1. \A w \in Workers : \A i \in Has(w) : i \in Ids
  <2>1. /\ tasks \in [Workers -> Seq(Ids)] /\ wbatch \in [Workers -> Seq(Ids)]
        /\ held \in [Workers -> SUBSET Ids]
    BY DEF HeldType, WorkerType, QueueType
  <2> QED BY <2>1 DEF Has, Entries
<1>2. \A v, w \in Workers : v # w => Has(v)' \cap Has(w)' = {}
  BY DEF PlaceInv
<1>3. \A w \in Workers : \A i \in Has(w)' : i < invoke_id'
  <2> TAKE w \in Workers
  <2> TAKE i \in Has(w)'
  <2>1. i \in Ids /\ i < invoke_id
    BY <1>1 DEF PlaceInv
  <2> QED BY <2>1 DEF FrameType, Ids
<1>4. mpc' = "dispatch" =>
        mreq' < invoke_id' /\ \A w \in Workers : mreq' \notin Has(w)'
  <2> HAVE mpc' = "dispatch"
  <2>1. mpc = "dispatch" /\ mreq' = mreq /\ mreq < invoke_id /\ mreq \in Ids
    BY DEF PlaceInv, MainType
  <2> QED BY <2>1 DEF PlaceInv, FrameType, Ids
<1> QED BY <1>2, <1>3, <1>4 DEF PlaceInv

(* No step of the two threads puts a request in a second place. *)
LEMMA PlaceInvStep ==
  ASSUME TypeOK, TypeOK', PlaceInv, [Next]_vars PROVE PlaceInv'
<1>t. /\ tasks \in [Workers -> Seq(Ids)] /\ wbatch \in [Workers -> Seq(Ids)]
      /\ held \in [Workers -> SUBSET Ids] /\ last_worker \in Workers
  BY DEF TypeOK, QueueType, WorkerType, HeldType
<1>n. invoke_id \in Nat
  BY ConstantsAssumption DEF TypeOK, FrameType
<1>m. ASSUME invoke_id' >= invoke_id,
             \A w \in Workers : OncePerWorker(w)' /\ Has(w)' \subseteq Has(w),
             mpc' = "dispatch" => mpc = "dispatch" /\ mreq' = mreq
      PROVE  PlaceInv'
  BY <1>m, PlaceInvMoves DEF TypeOK
<1>s. ASSUME NEW w \in Workers, UNCHANGED <<tasks[w], wbatch[w], held[w]>>
      PROVE  OncePerWorker(w)' /\ Has(w)' = Has(w)
  BY <1>s DEF PlaceInv, OncePerWorker, Has
<1>u. ASSUME UNCHANGED <<tasks, wbatch, held>>
      PROVE  \A w \in Workers : OncePerWorker(w)' /\ Has(w)' = Has(w)
  BY <1>u, <1>s
<1>1. CASE InvokeModule
  <2>1. /\ mreq' = invoke_id /\ invoke_id' = invoke_id + 1
        /\ UNCHANGED <<tasks, wbatch, held>>
    BY <1>1 DEF InvokeModule, qvars, wvars
  <2>2. \A w \in Workers : OncePerWorker(w)' /\ Has(w)' = Has(w)
    BY <1>u, <2>1
  <2>3. \A w \in Workers : \A i \in Has(w) : i \in Ids /\ i < invoke_id
    BY <1>t DEF PlaceInv, Has, Entries
  <2>4. \A w \in Workers : \A i \in Has(w)' : i < invoke_id'
    BY <1>n, <2>1, <2>2, <2>3 DEF Ids
  <2>5. mreq' < invoke_id' /\ \A w \in Workers : mreq' \notin Has(w)'
    BY <1>n, <2>1, <2>2, <2>3 DEF Ids
  <2> QED BY <2>2, <2>4, <2>5 DEF PlaceInv
<1>2. CASE DispatchTask
  <2>0. PICK l \in Workers : l = last_worker
    BY <1>t
  <2>1. /\ mpc = "dispatch" /\ UNCHANGED <<mreq, invoke_id, wbatch, held>>
        /\ AddTask(l, mreq) /\ mreq \in Ids /\ mreq < invoke_id
        /\ \A w \in Workers : mreq \notin Has(w)
    BY <1>2, <2>0 DEF DispatchTask, fvars, wvars, PlaceInv, TypeOK, MainType
  <2>2. CASE UNCHANGED <<tasks, mpc>>
    BY <1>m, <1>n, <1>u, <2>1, <2>2
  <2>3. CASE /\ tasks' = [tasks EXCEPT ![l] = Append(@, mreq)]
             /\ mpc' # "dispatch"
    <3>1. /\ NoRepeat(tasks'[l])
          /\ Entries(tasks'[l])
               = Entries(tasks[l]) \cup {mreq}
      BY <1>t, <2>1, <2>3, AppendEntries DEF PlaceInv, OncePerWorker, Has
    <3>2. OncePerWorker(l)'
      BY <1>t, <2>1, <3>1 DEF PlaceInv, OncePerWorker, Has
    <3>3. Has(l)' = Has(l) \cup {mreq}
      BY <1>t, <2>1, <3>1 DEF Has
    <3>4. \A w \in Workers \ {l} :
            OncePerWorker(w)' /\ Has(w)' = Has(w)
      BY <1>s, <1>t, <2>1, <2>3
    <3>5. \A v, w \in Workers : v # w => Has(v)' \cap Has(w)' = {}
      BY <2>1, <3>3, <3>4 DEF PlaceInv
    <3>6. \A w \in Workers : \A i \in Has(w)' : i < invoke_id'
      BY <2>1, <3>3, <3>4 DEF PlaceInv
    <3> QED BY <2>3, <3>2, <3>4, <3>5, <3>6 DEF PlaceInv
  <2>4. \/ UNCHANGED <<tasks, mpc>>
        \/ /\ tasks' = [tasks EXCEPT ![l] = Append(@, mreq)]
           /\ mpc' # "dispatch"
    <3>1. CASE tasks[l] = <<>>
      <4>1. Append(tasks[l], mreq) = <<mreq>>
        BY <2>1, <3>1
      <4> QED BY <1>t, <2>1, <3>1, <4>1 DEF AddTask
    <3>2. CASE tasks[l] # <<>>
      BY <1>t, <2>1, <3>2 DEF AddTask
    <3> QED BY <3>1, <3>2
  <2> QED BY <2>2, <2>3, <2>4
<1>3. CASE SpawnThread \/ SetRunning \/ DispatchBusy \/ NotifyTask
           \/ MainPushResult \/ MainNotifyResult \/ SwapResults
           \/ HandleResult \/ CompleteResult \/ ResultsDone
           \/ CompleteTimeout \/ BatchEnd \/ StopWorker \/ Join \/ StopEnd
           \/ InvokeUnknownModule \/ WakeResults \/ StopBegin \/ StopTimer
           \/ \E i \in Ids : HandleInvokeTimeout(i)
  <2>1. UNCHANGED <<tasks, wbatch, held>> /\ mpc' # "dispatch"
    BY <1>3 DEF SpawnThread, SetRunning, DispatchBusy, NotifyTask,
      MainPushResult, MainNotifyResult, SwapResults, HandleResult,
      CompleteResult, ResultsDone, CompleteTimeout, BatchEnd, StopWorker,
      Join, StopEnd, InvokeUnknownModule, WakeResults, StopBegin, StopTimer,
      HandleInvokeTimeout, Serving, mvars, qvars, wvars
  <2>2. invoke_id' \in {invoke_id, invoke_id + 1}
    BY <1>3 DEF SpawnThread, SetRunning, DispatchBusy, NotifyTask,
      MainPushResult, MainNotifyResult, SwapResults, HandleResult,
      CompleteResult, ResultsDone, CompleteTimeout, BatchEnd, StopWorker,
      Join, StopEnd, InvokeUnknownModule, WakeResults, StopBegin, StopTimer,
      HandleInvokeTimeout, fvars
  <2>3. invoke_id' >= invoke_id
    BY <1>n, <2>2
  <2>4. \A w \in Workers : OncePerWorker(w)' /\ Has(w)' = Has(w)
    BY <1>u, <2>1
  <2> QED BY <1>m, <2>1, <2>3, <2>4
<1>4. ASSUME NEW w \in Workers, WorkerStep(w) \/ \E i \in Ids : Callback(w, i)
      PROVE  PlaceInv'
  <2>1. UNCHANGED <<mpc, mreq, invoke_id>>
    BY <1>4 DEF WorkerStep, TestRunning, WakeTask, SwapTasks, RunExpired,
      RunDropped, RunMethod, TasksDone, WorkerNotify, WakeStop, HandleStop,
      Callback, UnchangedByWorker, mvars, fvars
  <2>2. ASSUME OncePerWorker(w)', Has(w)' \subseteq Has(w),
               \A v \in Workers \ {w} :
                 UNCHANGED <<tasks[v], wbatch[v], held[v]>>
        PROVE  PlaceInv'
    BY <1>m, <1>n, <1>s, <2>1, <2>2
  <2>3. CASE SwapTasks(w)
    <3>1. /\ tasks'[w] = <<>> /\ wbatch'[w] = tasks[w] /\ held' = held
          /\ \A v \in Workers \ {w} :
               UNCHANGED <<tasks[v], wbatch[v], held[v]>>
      BY <1>t, <2>3 DEF SwapTasks
    <3>2. OncePerWorker(w)' /\ Has(w)' \subseteq Has(w)
      BY <3>1, ShortEntries DEF PlaceInv, OncePerWorker, Has
    <3> QED BY <2>2, <3>1, <3>2
  <2>4. CASE RunExpired(w) \/ RunDropped(w) \/ RunMethod(w)
    <3>1. /\ wbatch[w] # <<>> /\ wbatch'[w] = Tail(wbatch[w])
          /\ UNCHANGED tasks
          /\ \A v \in Workers \ {w} : wbatch'[v] = wbatch[v]
      BY <1>t, <2>4 DEF RunExpired, RunDropped, RunMethod, qvars
    <3>2. /\ held'[w] \in {held[w], held[w] \cup {Head(wbatch[w])}}
          /\ \A v \in Workers \ {w} : held'[v] = held[v]
      BY <1>t, <2>4 DEF RunExpired, RunDropped, RunMethod
    <3>3. /\ NoRepeat(Tail(wbatch[w])) /\ Head(wbatch[w]) \in Entries(wbatch[w])
          /\ Entries(Tail(wbatch[w])) \subseteq Entries(wbatch[w])
          /\ Head(wbatch[w]) \notin Entries(Tail(wbatch[w]))
      BY <1>t, <3>1, TailEntries DEF PlaceInv, OncePerWorker
    <3>4. OncePerWorker(w)' /\ Has(w)' \subseteq Has(w)
      BY <3>1, <3>2, <3>3 DEF PlaceInv, OncePerWorker, Has
    <3> QED BY <2>2, <3>1, <3>2, <3>4
  <2>5. CASE TestRunning(w) \/ WakeTask(w) \/ TasksDone(w) \/ WorkerNotify(w)
             \/ WakeStop(w) \/ HandleStop(w) \/ \E i \in Ids : Callback(w, i)
    <3>1. UNCHANGED <<tasks, wbatch, held>>
      BY <2>5 DEF TestRunning, WakeTask, TasksDone, WorkerNotify, WakeStop,
        HandleStop, Callback, qvars
    <3>2. OncePerWorker(w)' /\ Has(w)' = Has(w)
      BY <1>s, <3>1
    <3> QED BY <2>2, <3>1, <3>2
  <2> QED BY <1>4, <2>3, <2>4, <2>5 DEF WorkerStep
<1>5. CASE UNCHANGED vars
  <2>1. UNCHANGED <<tasks, wbatch, held, mpc, mreq, invoke_id>>
    BY <1>5 DEF vars, mvars, fvars, qvars, wvars
  <2> QED BY <1>m, <1>n, <1>u, <2>1
<1> QED
  BY <1>1, <1>2, <1>3, <1>4, <1>5 DEF Next, MainStep, Exited

LEMMA PlaceInvInit == Init => PlaceInv
<1> SUFFICES ASSUME Init PROVE PlaceInv
  OBVIOUS
<1>1. \A w \in Workers : tasks[w] = <<>> /\ wbatch[w] = <<>> /\ held[w] = {}
  BY DEF Init
<1>2. \A w \in Workers : OncePerWorker(w) /\ Has(w) = {}
  BY <1>1, ShortEntries DEF OncePerWorker, Has
<1> QED BY <1>2 DEF PlaceInv, Init

(* A request that is nowhere twice has at most one place. *)
LEMMA PlaceInvImplies == PlaceInv => DispatchedOnce
<1> SUFFICES ASSUME PlaceInv, NEW i \in Ids, NEW p \in Places(i),
                    NEW q \in Places(i)
             PROVE  p = q
  BY DEF DispatchedOnce
<1> DEFINE At(w, r) ==
       \/ \E k \in DOMAIN tasks[w] : tasks[w][k] = i /\ r = <<w, "queue", k>>
       \/ \E k \in DOMAIN wbatch[w] : wbatch[w][k] = i /\ r = <<w, "batch", k>>
       \/ i \in held[w] /\ r = <<w, "held", 0>>
<1>1. ASSUME NEW r \in Places(i)
      PROVE  \E w \in Workers : At(w, r)
  <2>1. PICK w \in Workers :
          \/ r \in {w} \X {"queue"} \X Occurrences(i, tasks[w])
          \/ r \in {w} \X {"batch"} \X Occurrences(i, wbatch[w])
          \/ r \in {w} \X {"held"} \X ({0} \cap {Count(i \notin held[w])})
    BY <1>1 DEF Places
  <2>2. CASE r \in {w} \X {"queue"} \X Occurrences(i, tasks[w])
    BY <2>2 DEF Occurrences
  <2>3. CASE r \in {w} \X {"batch"} \X Occurrences(i, wbatch[w])
    BY <2>3 DEF Occurrences
  <2>4. CASE r \in {w} \X {"held"} \X ({0} \cap {Count(i \notin held[w])})
    BY <2>4 DEF Count
  <2> QED BY <2>1, <2>2, <2>3, <2>4
<1>2. PICK v \in Workers : At(v, p)
  BY <1>1
<1>3. PICK w \in Workers : At(w, q)
  BY <1>1
<1>4. i \in Has(v) /\ i \in Has(w)
  BY <1>2, <1>3 DEF Has, Entries
<1>5. v = w
  BY <1>4 DEF PlaceInv
<1>6. OncePerWorker(w)
  BY DEF PlaceInv
<1> QED BY <1>2, <1>3, <1>5, <1>6 DEF OncePerWorker, NoRepeat, Entries

(* ModuleImpl::DispatchTask gives a request to at most one worker, and a   *)
(* request is in its tasks_, in the batch HandleTask swapped out, or with  *)
(* the business method: never in two of these, never twice in one.         *)
THEOREM DispatchedOnceAlways == SafeSpec => []DispatchedOnce
<1>1. SafeSpec => []PlaceInv
  BY PlaceInvInit, PlaceInvStep, TypeCorrect, PTL DEF SafeSpec
<1> QED BY <1>1, PlaceInvImplies, PTL
=============================================================================
