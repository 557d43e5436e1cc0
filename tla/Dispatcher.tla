----------------------------- MODULE Dispatcher -----------------------------
(***************************************************************************)
(* The background task dispatcher of the pod (internal/dispatcher.go,      *)
(* worker.go, base_task.go and the media tasks): upload handlers call      *)
(* Dispatch, the dispatch loop starts one courier goroutine per task, the  *)
(* courier waits for the channel of a free worker and hands the task over, *)
(* clients poll the result by task id.                                     *)
(*                                                                         *)
(* Every goroutine has a position of its own and every blocking channel    *)
(* operation is an action guarded by what the channel needs.               *)
(***************************************************************************)
EXTENDS Naturals, FiniteSets, SequencesExt

CONSTANTS
  Task,         \* the tasks; each is dispatched by a handler of its own
  FuncTask,     \* those that wrap a plain function (DispatchFunc)
  Worker,       \* the worker goroutines (maxWorkers of them)
  MaxQueue,     \* capacity of the task queue
  NoTask,       \* "no task"
  NoWorker,     \* "no worker"
  Polled        \* the tasks whose client polls for the result

ASSUME DispatcherAssumption ==
  /\ FuncTask \subseteq Task
  /\ IsFiniteSet(Worker)
  /\ MaxQueue \in Nat \ {0}
  /\ NoTask \notin Task
  /\ NoWorker \notin Worker
  /\ Polled \subseteq Task

VARIABLES
  handler,      \* position of the handler that calls Dispatch(t)
  active,       \* Dispatcher.active
  loop,         \* position of the dispatch loop
  stopper,      \* position of the caller of Stop
  taskQueue,    \* channel of accepted tasks
  taskMap,      \* ids Lookup finds
  courier,      \* position of the goroutine that delivers t
  channel,      \* the worker whose channel that goroutine holds
  workerPool,   \* channel of the channels of free workers
  worker,       \* position of each worker goroutine
  current,      \* the task a worker runs
  quitting,     \* workers with a Stop goroutine waiting on their quit channel
  taskState,    \* BaseTask.state
  taskErr,      \* tasks whose BaseTask.err is set
  mediaURI,     \* tasks whose BaseTask.data has the "mediaURI"
  reply         \* what the last poll of t by its client read, field by field

dispatchVars == <<handler, taskQueue, taskMap>>
stopVars == <<active, loop, stopper, quitting>>
deliveryVars == <<courier, channel, workerPool>>
workerVars == <<worker, current>>
taskVars == <<taskState, taskErr, mediaURI>>
vars == <<dispatchVars, stopVars, deliveryVars, workerVars, taskVars, reply>>

HandlerPos == {"idle", "sending", "mapping", "returned", "refused"}
CourierPos == {"none", "spawned", "holding", "done"}
WorkerPos == {"off", "starting", "idle", "running", "finishing", "quit"}
TaskState == {"pending", "running", "complete", "failed"}

NoReply == [state |-> "unread", rest |-> FALSE, err |-> FALSE, uri |-> FALSE]

Reply == [state : TaskState \cup {"unread"}, rest : BOOLEAN, err : BOOLEAN, uri : BOOLEAN]

TypeOK ==
  /\ handler \in [Task -> HandlerPos]
  /\ active \in BOOLEAN
  /\ loop \in {"off", "select", "returned"}
  /\ stopper \in {"none", "quit", "done"}
  /\ taskQueue \in Seq(Task)
  /\ Len(taskQueue) <= MaxQueue
  /\ taskMap \in SUBSET Task
  /\ courier \in [Task -> CourierPos]
  /\ channel \in [Task -> Worker \cup {NoWorker}]
  /\ workerPool \in Seq(Worker)
  /\ worker \in [Worker -> WorkerPos]
  /\ current \in [Worker -> Task \cup {NoTask}]
  /\ quitting \in SUBSET Worker
  /\ taskState \in [Task -> TaskState]
  /\ taskErr \in SUBSET Task
  /\ mediaURI \in SUBSET Task
  /\ reply \in [Task -> Reply]

Init ==
  /\ handler = [t \in Task |-> "idle"]
  /\ active = FALSE
  /\ loop = "off"
  /\ stopper = "none"
  /\ taskQueue = <<>>
  /\ taskMap = {}
  /\ courier = [t \in Task |-> "none"]
  /\ channel = [t \in Task |-> NoWorker]
  /\ workerPool = <<>>
  /\ worker = [w \in Worker |-> "off"]
  /\ current = [w \in Worker |-> NoTask]
  /\ quitting = {}
  /\ taskState = [t \in Task |-> "pending"]
  /\ taskErr = {}
  /\ mediaURI = {}
  /\ reply = [t \in Task |-> NoReply]

-----------------------------------------------------------------------------
(* Start and Stop.  The pod starts its dispatcher once, in NewServer, and  *)
(* stops it once, in Shutdown.                                             *)

Start ==
  /\ loop = "off"
  /\ worker' = [w \in Worker |-> "starting"]
  /\ active' = TRUE
  /\ loop' = "select"
  /\ UNCHANGED <<dispatchVars, stopper, quitting, deliveryVars, current, taskVars, reply>>

(* Stop clears the flag and starts, for each worker, a goroutine that      *)
(* waits to send on the worker's quit channel.                             *)
StopWorkers ==
  /\ active
  /\ active' = FALSE
  /\ quitting' = Worker
  /\ stopper' = "quit"
  /\ UNCHANGED <<dispatchVars, loop, deliveryVars, workerVars, taskVars, reply>>

(* d.quit <- true: Stop returns once the dispatch loop has received it.    *)
StopLoop ==
  /\ stopper = "quit"
  /\ loop = "select"
  /\ loop' = "returned"
  /\ stopper' = "done"
  /\ UNCHANGED <<dispatchVars, active, quitting, deliveryVars, workerVars, taskVars, reply>>

-----------------------------------------------------------------------------
(* Dispatch, one action per statement another goroutine can get between.   *)

CheckActive(t) ==
  /\ handler[t] = "idle"
  /\ handler' = [handler EXCEPT ![t] = IF active THEN "sending" ELSE "refused"]
  /\ UNCHANGED <<taskQueue, taskMap, stopVars, deliveryVars, workerVars, taskVars, reply>>

(* Mutant: a queue one longer than asked for. *)
EnqueueOverfull(t) ==
  /\ handler[t] = "sending"
  /\ Len(taskQueue) <= MaxQueue
  /\ taskQueue' = Append(taskQueue, t)
  /\ handler' = [handler EXCEPT ![t] = "mapping"]
  /\ UNCHANGED <<taskMap, stopVars, deliveryVars, workerVars, taskVars, reply>>

Enqueue(t) ==
  /\ handler[t] = "sending"
  /\ Len(taskQueue) < MaxQueue
  /\ taskQueue' = Append(taskQueue, t)
  /\ handler' = [handler EXCEPT ![t] = "mapping"]
  /\ UNCHANGED <<taskMap, stopVars, deliveryVars, workerVars, taskVars, reply>>

Register(t) ==
  /\ handler[t] = "mapping"
  /\ taskMap' = taskMap \cup {t}
  /\ handler' = [handler EXCEPT ![t] = "returned"]
  /\ UNCHANGED <<taskQueue, stopVars, deliveryVars, workerVars, taskVars, reply>>

-----------------------------------------------------------------------------
(* The dispatch loop and the couriers it starts.                           *)

(* Mutant: a task that finds no worker free is dropped. *)
LoopTakeOrDrop ==
  /\ loop = "select"
  /\ taskQueue # <<>>
  /\ taskQueue' = Tail(taskQueue)
  /\ courier' = IF workerPool = <<>> THEN courier
                 ELSE [courier EXCEPT ![Head(taskQueue)] = "spawned"]
  /\ UNCHANGED <<handler, taskMap, stopVars, channel, workerPool, workerVars, taskVars, reply>>

LoopTake ==
  /\ loop = "select"
  /\ taskQueue # <<>>
  /\ taskQueue' = Tail(taskQueue)
  /\ courier' = [courier EXCEPT ![Head(taskQueue)] = "spawned"]
  /\ UNCHANGED <<handler, taskMap, stopVars, channel, workerPool, workerVars, taskVars, reply>>

(* Mutant: the courier looks at the channel of a worker and leaves it in the pool. *)
CourierPeek(t) ==
  /\ courier[t] = "spawned"
  /\ workerPool # <<>>
  /\ channel' = [channel EXCEPT ![t] = Head(workerPool)]
  /\ courier' = [courier EXCEPT ![t] = "holding"]
  /\ UNCHANGED <<workerPool, dispatchVars, stopVars, workerVars, taskVars, reply>>

CourierTake(t) ==
  /\ courier[t] = "spawned"
  /\ workerPool # <<>>
  /\ workerPool' = Tail(workerPool)
  /\ channel' = [channel EXCEPT ![t] = Head(workerPool)]
  /\ courier' = [courier EXCEPT ![t] = "holding"]
  /\ UNCHANGED <<dispatchVars, stopVars, workerVars, taskVars, reply>>

(* Mutant: the courier goes back for another worker after it delivered. *)
DeliverAgain(t) ==
  LET w == channel[t] IN
  /\ courier[t] = "holding"
  /\ worker[w] = "idle"
  /\ courier' = [courier EXCEPT ![t] = "spawned"]
  /\ channel' = [channel EXCEPT ![t] = NoWorker]
  /\ worker' = [worker EXCEPT ![w] = "running"]
  /\ current' = [current EXCEPT ![w] = t]
  /\ taskState' = [taskState EXCEPT ![t] = "running"]
  /\ UNCHANGED <<dispatchVars, stopVars, workerPool, taskErr, mediaURI, reply>>

(* The rendezvous on the worker's channel; Run sets the task Running.      *)
Deliver(t) ==
  LET w == channel[t] IN
  /\ courier[t] = "holding"
  /\ worker[w] = "idle"
  /\ courier' = [courier EXCEPT ![t] = "done"]
  /\ channel' = [channel EXCEPT ![t] = NoWorker]
  /\ worker' = [worker EXCEPT ![w] = "running"]
  /\ current' = [current EXCEPT ![w] = t]
  /\ taskState' = [taskState EXCEPT ![t] = "running"]
  /\ UNCHANGED <<dispatchVars, stopVars, workerPool, taskErr, mediaURI, reply>>

-----------------------------------------------------------------------------
(* The workers.                                                            *)

(* Mutant: a pool one shorter than the number of workers. *)
AnnounceInSmallPool(w) ==
  /\ worker[w] = "starting"
  /\ Len(workerPool) < Cardinality(Worker) - 1
  /\ workerPool' = Append(workerPool, w)
  /\ worker' = [worker EXCEPT ![w] = "idle"]
  /\ UNCHANGED <<dispatchVars, stopVars, courier, channel, current, taskVars, reply>>

Announce(w) ==
  /\ worker[w] = "starting"
  /\ Len(workerPool) < Cardinality(Worker)
  /\ workerPool' = Append(workerPool, w)
  /\ worker' = [worker EXCEPT ![w] = "idle"]
  /\ UNCHANGED <<dispatchVars, stopVars, courier, channel, current, taskVars, reply>>

(* Mutant: the state is set before the data. *)
SucceedTooEarly(w) ==
  LET t == current[w] IN
  /\ worker[w] = "running"
  /\ \/ /\ taskState[t] = "running"
        /\ taskState' = [taskState EXCEPT ![t] = "complete"]
        /\ UNCHANGED <<worker, mediaURI>>
     \/ /\ taskState[t] = "complete"
        /\ worker' = [worker EXCEPT ![w] = "finishing"]
        /\ mediaURI' = IF t \in FuncTask THEN mediaURI ELSE mediaURI \cup {t}
        /\ UNCHANGED taskState
  /\ UNCHANGED <<dispatchVars, stopVars, deliveryVars, current, taskErr, reply>>

(* The work succeeds: a media task stores the URI of its result.           *)
Succeed(w) ==
  LET t == current[w] IN
  /\ worker[w] = "running"
  /\ worker' = [worker EXCEPT ![w] = "finishing"]
  /\ mediaURI' = IF t \in FuncTask THEN mediaURI ELSE mediaURI \cup {t}
  /\ UNCHANGED <<dispatchVars, stopVars, deliveryVars, current, taskState, taskErr, reply>>

(* The work fails: a media task calls Fail, a FuncTask only returns the    *)
(* error, which the worker logs.                                           *)
Break(w) ==
  LET t == current[w] IN
  /\ worker[w] = "running"
  /\ worker' = [worker EXCEPT ![w] = "finishing"]
  /\ taskErr' = IF t \in FuncTask THEN taskErr ELSE taskErr \cup {t}
  /\ UNCHANGED <<dispatchVars, stopVars, deliveryVars, current, taskState, mediaURI, reply>>

(* Mutant: a worker runs one task and returns.                             *)
DoneAndReturn(w) ==
  LET t == current[w] IN
  /\ worker[w] = "finishing"
  /\ taskState' = [taskState EXCEPT ![t] = IF t \in taskErr THEN "failed" ELSE "complete"]
  /\ worker' = [worker EXCEPT ![w] = "quit"]
  /\ current' = [current EXCEPT ![w] = NoTask]
  /\ UNCHANGED <<dispatchVars, stopVars, deliveryVars, taskErr, mediaURI, reply>>

(* Done, deferred by Run; then the worker's loop starts over.              *)
Done(w) ==
  LET t == current[w] IN
  /\ worker[w] = "finishing"
  /\ taskState' = [taskState EXCEPT ![t] = IF t \in taskErr THEN "failed" ELSE "complete"]
  /\ worker' = [worker EXCEPT ![w] = "starting"]
  /\ current' = [current EXCEPT ![w] = NoTask]
  /\ UNCHANGED <<dispatchVars, stopVars, deliveryVars, taskErr, mediaURI, reply>>

(* The select of an idle worker takes the quit message.                    *)
Quit(w) ==
  /\ worker[w] = "idle"
  /\ w \in quitting
  /\ worker' = [worker EXCEPT ![w] = "quit"]
  /\ quitting' = quitting \ {w}
  /\ UNCHANGED <<dispatchVars, active, loop, stopper, deliveryVars, current, taskVars, reply>>

-----------------------------------------------------------------------------
(* TaskHandler: Lookup, then Result reads the state before error and data. *)

PollState(t) ==
  /\ handler[t] = "returned"
  /\ t \in taskMap
  /\ reply' = [reply EXCEPT ![t] = [state |-> taskState[t], rest |-> FALSE, err |-> FALSE, uri |-> FALSE]]
  /\ UNCHANGED <<dispatchVars, stopVars, deliveryVars, workerVars, taskVars>>

PollRest(t) ==
  /\ reply[t].state # "unread"
  /\ ~reply[t].rest
  /\ reply' = [reply EXCEPT ![t] = [state |-> reply[t].state, rest |-> TRUE,
                                    err |-> t \in taskErr, uri |-> t \in mediaURI]]
  /\ UNCHANGED <<dispatchVars, stopVars, deliveryVars, workerVars, taskVars>>

-----------------------------------------------------------------------------
HandlerNext(t) == CheckActive(t) \/ Enqueue(t) \/ Register(t)

CourierNext(t) == CourierTake(t) \/ Deliver(t)

WorkerNext(w) == Announce(w) \/ Succeed(w) \/ Break(w) \/ Done(w) \/ Quit(w)

StopNext == StopWorkers \/ StopLoop

PollNext(t) == PollState(t) \/ PollRest(t)

Next ==
  \/ Start
  \/ StopNext
  \/ LoopTake
  \/ \E t \in Task : HandlerNext(t) \/ CourierNext(t)
  \/ \E t \in Polled : PollNext(t)
  \/ \E w \in Worker : WorkerNext(w)

(* The Go scheduler runs every goroutine that can run.  Nobody has to shut *)
(* the pod down or upload anything; a task's body ends, since the programs *)
(* it starts are run under a timeout.                                      *)
Fairness ==
  /\ WF_vars(Start)
  /\ WF_vars(StopLoop)
  /\ WF_vars(LoopTake)
  /\ \A t \in Task : WF_vars(Enqueue(t)) /\ WF_vars(Register(t)) /\ WF_vars(CourierNext(t))
  /\ \A w \in Worker : WF_vars(WorkerNext(w))

Spec == Init /\ [][Next]_vars

FairSpec == Spec /\ Fairness

-----------------------------------------------------------------------------
Accepted(t) == handler[t] \in {"mapping", "returned"}

Ended(t) == taskState[t] \in {"complete", "failed"}

InQueue(t) == Contains(taskQueue, t)

InPool(w) == Contains(workerPool, w)

(* A task that Dispatch accepted is never lost and never doubled: it is in *)
(* the queue, or with its courier, or run by exactly one worker, or ended, *)
(* and in only one of these.                                               *)
TaskInOnePlace ==
  /\ IsInjective(taskQueue)
  /\ \A t \in Task :
       /\ InQueue(t) <=> Accepted(t) /\ courier[t] = "none"
       /\ courier[t] # "none" => Accepted(t)
       /\ courier[t] # "done" => taskState[t] = "pending"
       /\ courier[t] = "done" => taskState[t] # "pending"
       /\ (\E w \in Worker : current[w] = t) <=> taskState[t] = "running"
  /\ \A v, w \in Worker : current[v] = current[w] /\ current[v] # NoTask => v = w

(* No worker is lost to the pool and none is offered twice: the channel of *)
(* an idle worker is in the pool once or held by exactly one courier, and  *)
(* no one holds the channel of a worker that is busy (a courier that did   *)
(* would wait behind the task of another).                                 *)
ChannelInOnePlace ==
  /\ IsInjective(workerPool)
  /\ \A t, u \in Task : channel[t] = channel[u] /\ channel[t] # NoWorker => t = u
  /\ \A t \in Task : courier[t] = "holding" <=> channel[t] # NoWorker
  /\ \A w \in Worker :
       LET held == \E t \in Task : channel[t] = w IN
       /\ worker[w] = "idle" => InPool(w) \/ held
       /\ InPool(w) \/ held => worker[w] \in {"idle", "quit"}
       /\ ~(InPool(w) /\ held)

(* The worker's position tells whether it has a task, and no worker runs   *)
(* before Start; with the two above this is inductive.                     *)
WorkerBusy ==
  /\ \A w \in Worker : current[w] # NoTask <=> worker[w] \in {"running", "finishing"}
  /\ loop = "off" => \A w \in Worker : worker[w] = "off"

DispatchInv == TypeOK /\ TaskInOnePlace /\ ChannelInOnePlace /\ WorkerBusy

(* A client that is told "complete" for a media task also gets the URI and *)
(* no error, one told "failed" also gets the error, although Result is     *)
(* read while the worker runs.                                             *)
HonestReply ==
  \A t \in Task \ FuncTask : reply[t].rest =>
     /\ reply[t].state = "complete" => reply[t].uri /\ ~reply[t].err
     /\ reply[t].state = "failed" => reply[t].err /\ ~reply[t].uri

(* Why replies are honest: result fields are set before the final state    *)
(* and by nobody but the worker that has the task.                         *)
ResultInv ==
  /\ \A w \in Worker : current[w] \notin FuncTask \cup {NoTask} =>
       /\ worker[w] = "running" => current[w] \notin taskErr \cup mediaURI
       /\ worker[w] = "finishing" => (current[w] \in taskErr <=> current[w] \notin mediaURI)
  /\ \A t \in Task \ FuncTask :
       /\ taskState[t] = "pending" => t \notin taskErr \cup mediaURI
       /\ taskState[t] = "complete" => t \in mediaURI \ taskErr
       /\ taskState[t] = "failed" => t \in taskErr \ mediaURI
  /\ \A t \in Task : reply[t].state \in {"complete", "failed"} => reply[t].state = taskState[t]
  /\ HonestReply

(* How far a task has got, seen from outside.                              *)
TaskStatus ==
  [t \in Task |->
     IF handler[t] \in {"idle", "sending"} THEN "new"
     ELSE IF handler[t] = "refused" THEN "refused"
     ELSE IF taskState[t] = "pending" THEN "accepted"
     ELSE taskState[t]]

Service == INSTANCE TaskService WITH status <- TaskStatus

(* The dispatcher implements the abstract task service: each task is begun *)
(* at most once and only after it was accepted, and ends at most once.     *)
ImplementsTaskService == Service!Spec

(* Unless the pod is shut down, every accepted task ends.                  *)
AcceptedTasksEnd == [](stopper = "none") => Service!AcceptedTasksEnd

(* Stop returns although couriers and handlers may still be blocked, and   *)
(* every worker goroutine ends: none is stuck announcing itself to a full  *)
(* pool.                                                                   *)
StopEndsWorkers ==
  stopper = "quit" ~> stopper = "done" /\ \A w \in Worker : worker[w] = "quit"
=============================================================================
