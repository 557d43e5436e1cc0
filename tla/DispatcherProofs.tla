-------------------------- MODULE DispatcherProofs --------------------------
(* Theorems about the dispatcher, for any tasks, workers and queue.        *)
EXTENDS Dispatcher, TLAPS

(* Appending to a queue without x keeps it free of repetitions.           *)
LEMMA AppendFacts ==
  ASSUME NEW S, NEW s \in Seq(S), NEW x \in S
  PROVE  /\ Append(s, x) \in Seq(S)
         /\ Len(Append(s, x)) = Len(s) + 1
         /\ \A y : Contains(Append(s, x), y) <=> Contains(s, y) \/ y = x
         /\ IsInjective(s) /\ ~Contains(s, x) => IsInjective(Append(s, x))
  <1>1. /\ Append(s, x) \in Seq(S)
        /\ Len(Append(s, x)) = Len(s) + 1
        /\ DOMAIN Append(s, x) = 1 .. Len(s) + 1
        /\ DOMAIN s = 1 .. Len(s)
        /\ \A i \in 1 .. Len(s) : Append(s, x)[i] = s[i]
        /\ Append(s, x)[Len(s) + 1] = x
        /\ Len(s) \in Nat
    OBVIOUS
  <1>2. \A y : Contains(Append(s, x), y) <=> Contains(s, y) \/ y = x
    BY <1>1 DEF Contains
  <1>3. IsInjective(s) /\ ~Contains(s, x) => IsInjective(Append(s, x))
    BY <1>1 DEF Contains, IsInjective
  <1> QED BY <1>1, <1>2, <1>3

(* Taking the head of a queue leaves everything else in it.                *)
LEMMA TailFacts ==
  ASSUME NEW S, NEW s \in Seq(S), s # <<>>, IsInjective(s)
  PROVE  /\ Tail(s) \in Seq(S)
         /\ Head(s) \in S
         /\ Len(Tail(s)) = Len(s) - 1
         /\ IsInjective(Tail(s))
         /\ Contains(s, Head(s))
         /\ \A y : Contains(Tail(s), y) <=> Contains(s, y) /\ y # Head(s)
  <1>1. /\ Tail(s) \in Seq(S)
        /\ Head(s) = s[1]
        /\ Head(s) \in S
        /\ Len(s) \in Nat /\ Len(s) >= 1
        /\ Len(Tail(s)) = Len(s) - 1
        /\ DOMAIN Tail(s) = 1 .. Len(s) - 1
        /\ DOMAIN s = 1 .. Len(s)
        /\ \A i \in 1 .. Len(s) - 1 : Tail(s)[i] = s[i + 1]
    OBVIOUS
  <1>2. IsInjective(Tail(s))
    BY <1>1 DEF IsInjective
  <1>3. Contains(s, Head(s))
    BY <1>1 DEF Contains
  <1>4. ASSUME NEW y, Contains(Tail(s), y)
        PROVE  Contains(s, y) /\ y # Head(s)
    <2>1. PICK i \in 1 .. Len(s) - 1 : Tail(s)[i] = y
      BY <1>1, <1>4 DEF Contains
    <2>2. s[i + 1] = y /\ i + 1 \in 1 .. Len(s) /\ i + 1 # 1
      BY <2>1, <1>1
    <2> QED BY <2>2, <1>1 DEF Contains, IsInjective
  <1>5. ASSUME NEW y, Contains(s, y), y # Head(s)
        PROVE  Contains(Tail(s), y)
    <2>1. PICK i \in 1 .. Len(s) : s[i] = y
      BY <1>1, <1>5 DEF Contains
    <2>2. i - 1 \in 1 .. Len(s) - 1 /\ Tail(s)[i - 1] = y
      BY <2>1, <1>1, <1>5
    <2> QED BY <2>2, <1>1 DEF Contains
  <1> QED BY <1>1, <1>2, <1>3, <1>4, <1>5

-----------------------------------------------------------------------------
(* The invariant of the whole dispatcher, action by action.                *)

(* Before Start nothing is queued, held or run.                            *)
LEMMA DispatchInvInit == Init => DispatchInv
  <1> SUFFICES ASSUME Init PROVE DispatchInv
    OBVIOUS
  <1> USE DispatcherAssumption DEF Init
  <1>1. TypeOK
    <2>1. /\ taskQueue \in Seq(Task) /\ workerPool \in Seq(Worker)
          /\ Len(taskQueue) <= MaxQueue
      OBVIOUS
    <2>2. reply \in [Task -> Reply]
      BY DEF Reply, NoReply
    <2> QED BY <2>1, <2>2 DEF TypeOK, HandlerPos, CourierPos, WorkerPos, TaskState
  <1>2. TaskInOnePlace
    BY DEF TaskInOnePlace, InQueue, Accepted, Contains, IsInjective
  <1>3. ChannelInOnePlace
    BY DEF ChannelInOnePlace, InPool, Contains, IsInjective
  <1>4. WorkerBusy
    BY DEF WorkerBusy
  <1> QED BY <1>1, <1>2, <1>3, <1>4 DEF DispatchInv

(* Every step keeps the types, the queue and the pool within their bounds. *)
LEMMA TypeStep == DispatchInv /\ [Next]_vars => TypeOK'
  <1> SUFFICES ASSUME DispatchInv, [Next]_vars PROVE TypeOK'
    OBVIOUS
  <1> USE DispatcherAssumption
      DEF DispatchInv, TypeOK, HandlerPos, CourierPos, WorkerPos, TaskState,
          dispatchVars, stopVars, deliveryVars, workerVars, taskVars
  <1>1. CASE Start
    BY <1>1 DEF Start
  <1>2. CASE StopNext
    BY <1>2 DEF StopNext, StopWorkers, StopLoop
  <1>3. CASE LoopTake
    BY <1>3, TailFacts DEF LoopTake, TaskInOnePlace
  <1>4. ASSUME NEW t \in Task, HandlerNext(t) PROVE TypeOK'
    <2>1. CASE CheckActive(t)
      BY <2>1 DEF CheckActive
    <2>2. CASE Enqueue(t)
      BY <2>2, AppendFacts DEF Enqueue
    <2>3. CASE Register(t)
      BY <2>3 DEF Register
    <2> QED BY <1>4, <2>1, <2>2, <2>3 DEF HandlerNext
  <1>5. ASSUME NEW t \in Task, CourierNext(t) PROVE TypeOK'
    <2>1. CASE CourierTake(t)
      BY <2>1, TailFacts DEF CourierTake, ChannelInOnePlace
    <2>2. CASE Deliver(t)
      BY <2>2 DEF Deliver
    <2> QED BY <1>5, <2>1, <2>2 DEF CourierNext
  <1>6. ASSUME NEW t \in Polled, PollNext(t) PROVE TypeOK'
    <2>1. CASE PollState(t)
      BY <2>1 DEF PollState, Reply, NoReply
    <2>2. CASE PollRest(t)
      BY <2>2 DEF PollRest, Reply
    <2> QED BY <1>6, <2>1, <2>2 DEF PollNext
  <1>7. ASSUME NEW w \in Worker, WorkerNext(w) PROVE TypeOK'
    <2>1. CASE Announce(w)
      BY <2>1, AppendFacts DEF Announce
    <2>2. CASE Succeed(w)
      BY <2>2 DEF Succeed, WorkerBusy
    <2>3. CASE Break(w)
      BY <2>3 DEF Break, WorkerBusy
    <2>4. CASE Done(w)
      BY <2>4 DEF Done
    <2>5. CASE Quit(w)
      BY <2>5 DEF Quit
    <2> QED BY <1>7, <2>1, <2>2, <2>3, <2>4, <2>5 DEF WorkerNext
  <1>8. CASE UNCHANGED vars
    BY <1>8 DEF vars
  <1> QED BY <1>1, <1>2, <1>3, <1>4, <1>5, <1>6, <1>7, <1>8 DEF Next

(* Every step keeps an accepted task in one place.                         *)
LEMMA TaskStep == DispatchInv /\ [Next]_vars => TaskInOnePlace'
  <1> SUFFICES ASSUME DispatchInv, [Next]_vars PROVE TaskInOnePlace'
    OBVIOUS
  <1> USE DispatcherAssumption
      DEF DispatchInv, TypeOK, TaskInOnePlace, InQueue, Accepted, HandlerPos, CourierPos,
          TaskState, dispatchVars, stopVars, deliveryVars, workerVars, taskVars
  <1>1. CASE Start
    BY <1>1 DEF Start
  <1>2. CASE StopNext
    BY <1>2 DEF StopNext, StopWorkers, StopLoop
  <1>3. CASE LoopTake
    <2>1. Head(taskQueue) \in Task /\ InQueue(Head(taskQueue))
      BY <1>3, TailFacts DEF LoopTake
    <2>2. IsInjective(taskQueue')
      BY <1>3, TailFacts DEF LoopTake
    <2>3. \A t \in Task : InQueue(t)' <=> InQueue(t) /\ t # Head(taskQueue)
      BY <1>3, TailFacts DEF LoopTake
    <2> QED BY <1>3, <2>1, <2>2, <2>3 DEF LoopTake
  <1>4. ASSUME NEW t \in Task, HandlerNext(t) PROVE TaskInOnePlace'
    <2>1. CASE CheckActive(t)
      BY <2>1 DEF CheckActive
    <2>2. CASE Enqueue(t)
      <3>1. ~Contains(taskQueue, t)
        BY <2>2 DEF Enqueue
      <3>2. IsInjective(taskQueue')
        BY <2>2, <3>1, AppendFacts DEF Enqueue
      <3>3. \A u \in Task : InQueue(u)' <=> InQueue(u) \/ u = t
        BY <2>2, AppendFacts DEF Enqueue
      <3> QED BY <2>2, <3>2, <3>3 DEF Enqueue
    <2>3. CASE Register(t)
      BY <2>3 DEF Register
    <2> QED BY <1>4, <2>1, <2>2, <2>3 DEF HandlerNext
  <1>5. ASSUME NEW t \in Task, CourierNext(t) PROVE TaskInOnePlace'
    <2>1. CASE CourierTake(t)
      BY <2>1 DEF CourierTake
    <2>2. CASE Deliver(t)
      <3> DEFINE w == channel[t]
      <3>1. w \in Worker /\ current[w] = NoTask
        <4>1. courier[t] = "holding" /\ worker[w] = "idle"
          BY <2>2 DEF Deliver
        <4>2. w \in Worker
          BY <4>1 DEF ChannelInOnePlace
        <4> QED BY <4>1, <4>2 DEF WorkerBusy
      <3>2. Accepted(t) /\ taskState[t] = "pending" /\ \A v \in Worker : current[v] # t
        BY <2>2 DEF Deliver
      <3>3. /\ courier' = [courier EXCEPT ![t] = "done"]
            /\ current' = [current EXCEPT ![w] = t]
            /\ taskState' = [taskState EXCEPT ![t] = "running"]
            /\ UNCHANGED <<handler, taskQueue>>
        BY <2>2 DEF Deliver
      <3>4. \A u \in Task : (\E v \in Worker : current'[v] = u) <=> taskState'[u] = "running"
        BY <3>1, <3>2, <3>3
      <3>5. \A v, x \in Worker : current'[v] = current'[x] /\ current'[v] # NoTask => v = x
        BY <3>1, <3>2, <3>3
      <3>6. courier[t] = "holding"
        BY <2>2 DEF Deliver
      <3> QED BY <3>2, <3>3, <3>4, <3>5, <3>6
    <2> QED BY <1>5, <2>1, <2>2 DEF CourierNext
  <1>6. ASSUME NEW t \in Polled, PollNext(t) PROVE TaskInOnePlace'
    BY <1>6 DEF PollNext, PollState, PollRest
  <1>7. ASSUME NEW w \in Worker, WorkerNext(w) PROVE TaskInOnePlace'
    <2>1. CASE Announce(w)
      BY <2>1 DEF Announce
    <2>2. CASE Succeed(w)
      BY <2>2 DEF Succeed
    <2>3. CASE Break(w)
      BY <2>3 DEF Break
    <2>4. CASE Done(w)
      <3>1. current[w] \in Task /\ taskState[current[w]] = "running"
        BY <2>4 DEF Done, WorkerBusy
      <3> QED BY <2>4, <3>1 DEF Done
    <2>5. CASE Quit(w)
      BY <2>5 DEF Quit
    <2> QED BY <1>7, <2>1, <2>2, <2>3, <2>4, <2>5 DEF WorkerNext
  <1>8. CASE UNCHANGED vars
    BY <1>8 DEF vars
  <1> QED BY <1>1, <1>2, <1>3, <1>4, <1>5, <1>6, <1>7, <1>8 DEF Next

(* Every step keeps a worker's channel in one place.                       *)
LEMMA ChannelStep == DispatchInv /\ [Next]_vars => ChannelInOnePlace'
  <1> SUFFICES ASSUME DispatchInv, [Next]_vars PROVE ChannelInOnePlace'
    OBVIOUS
  <1> USE DispatcherAssumption
      DEF DispatchInv, TypeOK, ChannelInOnePlace, InPool, CourierPos, WorkerPos,
          dispatchVars, stopVars, deliveryVars, workerVars, taskVars
  <1>1. CASE Start
    <2>1. \A w \in Worker : worker[w] = "off"
      BY <1>1 DEF Start, WorkerBusy
    <2>2. \A w \in Worker : ~InPool(w) /\ \A t \in Task : channel[t] # w
      BY <2>1
    <2>3. workerPool' = workerPool /\ channel' = channel /\ courier' = courier
      BY <1>1 DEF Start
    <2>4. \A w \in Worker : worker'[w] = "starting"
      BY <1>1 DEF Start
    <2> QED BY <2>2, <2>3, <2>4
  <1>2. CASE StopNext
    BY <1>2 DEF StopNext, StopWorkers, StopLoop
  <1>3. CASE LoopTake
    <2>1. Head(taskQueue) \in Task /\ Contains(taskQueue, Head(taskQueue))
      BY <1>3, TailFacts DEF LoopTake, TaskInOnePlace
    <2>2. courier[Head(taskQueue)] = "none"
      BY <2>1 DEF TaskInOnePlace, InQueue
    <2> QED BY <1>3, <2>1, <2>2 DEF LoopTake
  <1>4. ASSUME NEW t \in Task, HandlerNext(t) PROVE ChannelInOnePlace'
    BY <1>4 DEF HandlerNext, CheckActive, Enqueue, Register
  <1>5. ASSUME NEW t \in Task, CourierNext(t) PROVE ChannelInOnePlace'
    <2>1. CASE CourierTake(t)
      <3>1. Head(workerPool) \in Worker /\ InPool(Head(workerPool))
        BY <2>1, TailFacts DEF CourierTake
      <3>2. IsInjective(workerPool')
        BY <2>1, TailFacts DEF CourierTake
      <3>3. \A w \in Worker : InPool(w)' <=> InPool(w) /\ w # Head(workerPool)
        BY <2>1, TailFacts DEF CourierTake
      <3> QED BY <2>1, <3>1, <3>2, <3>3 DEF CourierTake
    <2>2. CASE Deliver(t)
      BY <2>2 DEF Deliver
    <2> QED BY <1>5, <2>1, <2>2 DEF CourierNext
  <1>6. ASSUME NEW t \in Polled, PollNext(t) PROVE ChannelInOnePlace'
    BY <1>6 DEF PollNext, PollState, PollRest
  <1>7. ASSUME NEW w \in Worker, WorkerNext(w) PROVE ChannelInOnePlace'
    <2>1. CASE Announce(w)
      <3>1. ~Contains(workerPool, w)
        BY <2>1 DEF Announce
      <3>2. IsInjective(workerPool')
        BY <2>1, <3>1, AppendFacts DEF Announce
      <3>3. \A v \in Worker : InPool(v)' <=> InPool(v) \/ v = w
        BY <2>1, AppendFacts DEF Announce
      <3> QED BY <2>1, <3>2, <3>3 DEF Announce
    <2>2. CASE Succeed(w)
      BY <2>2 DEF Succeed
    <2>3. CASE Break(w)
      BY <2>3 DEF Break
    <2>4. CASE Done(w)
      BY <2>4 DEF Done
    <2>5. CASE Quit(w)
      BY <2>5 DEF Quit
    <2> QED BY <1>7, <2>1, <2>2, <2>3, <2>4, <2>5 DEF WorkerNext
  <1>8. CASE UNCHANGED vars
    BY <1>8 DEF vars
  <1> QED BY <1>1, <1>2, <1>3, <1>4, <1>5, <1>6, <1>7, <1>8 DEF Next

(* Every step keeps a worker busy exactly while it has a task.             *)
LEMMA BusyStep == DispatchInv /\ [Next]_vars => WorkerBusy'
  <1> SUFFICES ASSUME DispatchInv, [Next]_vars PROVE WorkerBusy'
    OBVIOUS
  <1> USE DispatcherAssumption
      DEF DispatchInv, TypeOK, WorkerBusy, WorkerPos,
          dispatchVars, stopVars, deliveryVars, workerVars, taskVars
  <1>1. CASE Start
    BY <1>1 DEF Start
  <1>2. CASE StopNext
    BY <1>2 DEF StopNext, StopWorkers, StopLoop
  <1>3. CASE LoopTake
    BY <1>3 DEF LoopTake
  <1>4. ASSUME NEW t \in Task, HandlerNext(t) PROVE WorkerBusy'
    BY <1>4 DEF HandlerNext, CheckActive, Enqueue, Register
  <1>5. ASSUME NEW t \in Task, CourierNext(t) PROVE WorkerBusy'
    BY <1>5 DEF CourierNext, CourierTake, Deliver
  <1>6. ASSUME NEW t \in Polled, PollNext(t) PROVE WorkerBusy'
    BY <1>6 DEF PollNext, PollState, PollRest
  <1>7. ASSUME NEW w \in Worker, WorkerNext(w) PROVE WorkerBusy'
    BY <1>7 DEF WorkerNext, Announce, Succeed, Break, Done, Quit
  <1>8. CASE UNCHANGED vars
    BY <1>8 DEF vars
  <1> QED BY <1>1, <1>2, <1>3, <1>4, <1>5, <1>6, <1>7, <1>8 DEF Next

(* In every reachable state the dispatcher's invariant holds.              *)
THEOREM DispatcherCorrect == Spec => []DispatchInv
  <1>1. DispatchInv /\ [Next]_vars => DispatchInv'
    BY TypeStep, TaskStep, ChannelStep, BusyStep DEF DispatchInv
  <1> QED BY DispatchInvInit, <1>1, PTL DEF Spec

(* Every variable keeps its type and the queue its capacity.               *)
THEOREM DispatcherTyped == Spec => []TypeOK
  <1>1. DispatchInv => TypeOK
    BY DEF DispatchInv
  <1> QED BY DispatcherCorrect, <1>1, PTL

(* No accepted task is lost or doubled.                                    *)
THEOREM NoTaskLostOrDoubled == Spec => []TaskInOnePlace
  <1>1. DispatchInv => TaskInOnePlace
    BY DEF DispatchInv
  <1> QED BY DispatcherCorrect, <1>1, PTL

(* No worker is lost to the pool or offered twice.                         *)
THEOREM NoChannelLostOrDoubled == Spec => []ChannelInOnePlace
  <1>1. DispatchInv => ChannelInOnePlace
    BY DEF DispatchInv
  <1> QED BY DispatcherCorrect, <1>1, PTL

-----------------------------------------------------------------------------
(* Polled results.                                                         *)

(* Every step keeps what a finished task says of itself.                   *)
LEMMA ResultStep == DispatchInv /\ ResultInv /\ [Next]_vars => ResultInv'
  <1> SUFFICES ASSUME DispatchInv, ResultInv, [Next]_vars PROVE ResultInv'
    OBVIOUS
  <1> USE DispatcherAssumption
      DEF DispatchInv, TypeOK, ResultInv, HonestReply, WorkerPos, TaskState, Reply,
          dispatchVars, stopVars, deliveryVars, workerVars, taskVars
  <1>1. CASE Start
    BY <1>1 DEF Start, WorkerBusy
  <1>2. CASE StopNext
    BY <1>2 DEF StopNext, StopWorkers, StopLoop
  <1>3. CASE LoopTake
    BY <1>3 DEF LoopTake
  <1>4. ASSUME NEW t \in Task, HandlerNext(t) PROVE ResultInv'
    BY <1>4 DEF HandlerNext, CheckActive, Enqueue, Register
  <1>5. ASSUME NEW t \in Task, CourierNext(t) PROVE ResultInv'
    <2>1. CASE CourierTake(t)
      BY <2>1 DEF CourierTake
    <2>2. CASE Deliver(t)
      <3> DEFINE w == channel[t]
      <3>1. taskState[t] = "pending" /\ reply[t].state \notin {"complete", "failed"}
        BY <2>2 DEF Deliver, TaskInOnePlace
      <3>2. \A v \in Worker : current[v] # t
        BY <3>1 DEF TaskInOnePlace
      <3>3. /\ worker' = [worker EXCEPT ![w] = "running"]
            /\ current' = [current EXCEPT ![w] = t]
            /\ taskState' = [taskState EXCEPT ![t] = "running"]
            /\ UNCHANGED <<taskErr, mediaURI, reply>>
        BY <2>2 DEF Deliver
      <3> QED BY <3>1, <3>2, <3>3
    <2> QED BY <1>5, <2>1, <2>2 DEF CourierNext
  <1>6. ASSUME NEW t \in Polled, PollNext(t) PROVE ResultInv'
    <2>1. t \in Task
      OBVIOUS
    <2>2. CASE PollState(t)
      BY <2>1, <2>2 DEF PollState
    <2>3. CASE PollRest(t)
      <3>1. \A u \in Task : reply'[u].state = reply[u].state
        BY <2>1, <2>3 DEF PollRest
      <3>2. /\ reply'[t].err = (t \in taskErr) /\ reply'[t].uri = (t \in mediaURI)
            /\ \A u \in Task : u # t => reply'[u] = reply[u]
        BY <2>1, <2>3 DEF PollRest
      <3>3. UNCHANGED <<taskErr, mediaURI, taskState, worker, current>>
        BY <2>3 DEF PollRest
      <3>4. ASSUME NEW u \in Task \ FuncTask
            PROVE  /\ reply'[u].rest /\ reply'[u].state = "complete" => reply'[u].uri /\ ~reply'[u].err
                   /\ reply'[u].rest /\ reply'[u].state = "failed" => reply'[u].err /\ ~reply'[u].uri
        <4>1. CASE u = t
          BY <2>1, <3>1, <3>2, <4>1
        <4>2. CASE u # t
          BY <3>2, <4>2
        <4> QED BY <4>1, <4>2
      <3> QED BY <3>1, <3>3, <3>4
    <2> QED BY <1>6, <2>2, <2>3 DEF PollNext
  <1>7. ASSUME NEW w \in Worker, WorkerNext(w) PROVE ResultInv'
    <2> DEFINE t == current[w]
    <2>1. \A v \in Worker : v # w /\ current[v] # NoTask => current[v] # t
      BY DEF TaskInOnePlace
    <2>2. CASE Announce(w)
      BY <2>2 DEF Announce, WorkerBusy
    <2>3. ASSUME worker[w] \in {"running", "finishing"}
          PROVE  t \in Task /\ taskState[t] = "running"
      BY <2>3 DEF WorkerBusy, TaskInOnePlace
    <2>4. CASE Succeed(w)
      BY <2>1, <2>3, <2>4 DEF Succeed
    <2>5. CASE Break(w)
      BY <2>1, <2>3, <2>5 DEF Break
    <2>6. CASE Done(w)
      BY <2>1, <2>3, <2>6 DEF Done
    <2>7. CASE Quit(w)
      BY <2>7 DEF Quit, WorkerBusy
    <2> QED BY <1>7, <2>2, <2>4, <2>5, <2>6, <2>7 DEF WorkerNext
  <1>8. CASE UNCHANGED vars
    BY <1>8 DEF vars
  <1> QED BY <1>1, <1>2, <1>3, <1>4, <1>5, <1>6, <1>7, <1>8 DEF Next

(* A client told "complete" or "failed" gets the matching result.          *)
THEOREM RepliesHonest == Spec => []HonestReply
  <1>1. Init => ResultInv
    BY DispatcherAssumption DEF Init, ResultInv, HonestReply, NoReply
  <1>2. ResultInv => HonestReply
    BY DEF ResultInv
  <1> QED BY DispatcherCorrect, ResultStep, <1>1, <1>2, PTL DEF Spec

-----------------------------------------------------------------------------
(* The dispatcher implements the task service.                             *)

(* Every step is one step of the task service, or none.                    *)
LEMMA ServiceStep == DispatchInv /\ [Next]_vars => [Service!Next]_TaskStatus
  <1> SUFFICES ASSUME DispatchInv, [Next]_vars PROVE [Service!Next]_TaskStatus
    OBVIOUS
  <1> USE DEF DispatchInv, TypeOK, HandlerPos, CourierPos, TaskState,
              dispatchVars, stopVars, deliveryVars, workerVars, taskVars
  <1>1. ASSUME UNCHANGED <<handler, taskState>> PROVE UNCHANGED TaskStatus
    BY <1>1 DEF TaskStatus
  <1>2. CASE Start
    BY <1>1, <1>2 DEF Start
  <1>3. CASE StopNext
    BY <1>1, <1>3 DEF StopNext, StopWorkers, StopLoop
  <1>4. CASE LoopTake
    BY <1>1, <1>4 DEF LoopTake
  <1>5. ASSUME NEW t \in Task, HandlerNext(t) PROVE [Service!Next]_TaskStatus
    <2>1. CASE CheckActive(t)
      <3>1. CASE active
        BY <2>1, <3>1 DEF CheckActive, TaskStatus
      <3>2. CASE ~active
        <4>1. Service!Refuse(t)
          BY <2>1, <3>2 DEF CheckActive, TaskStatus, Service!Refuse, Service!Move
        <4> QED BY <4>1 DEF Service!Next
      <3> QED BY <3>1, <3>2
    <2>2. CASE Enqueue(t)
      <3>1. ~Accepted(t)
        BY <2>2 DEF Enqueue, Accepted
      <3>2. courier[t] # "done"
        BY <3>1 DEF TaskInOnePlace
      <3>3. taskState[t] = "pending"
        BY <3>2 DEF TaskInOnePlace
      <3>4. Service!Accept(t)
        BY <2>2, <3>3 DEF Enqueue, TaskStatus, Service!Accept, Service!Move
      <3> QED BY <3>4 DEF Service!Next
    <2>3. CASE Register(t)
      BY <2>3 DEF Register, TaskStatus
    <2> QED BY <1>5, <2>1, <2>2, <2>3 DEF HandlerNext
  <1>6. ASSUME NEW t \in Task, CourierNext(t) PROVE [Service!Next]_TaskStatus
    <2>1. CASE CourierTake(t)
      BY <1>1, <2>1 DEF CourierTake
    <2>2. CASE Deliver(t)
      <3>1. Accepted(t) /\ taskState[t] = "pending"
        BY <2>2 DEF Deliver, TaskInOnePlace
      <3>2. Service!Begin(t)
        BY <2>2, <3>1 DEF Deliver, Accepted, TaskStatus, Service!Begin, Service!Move
      <3> QED BY <3>2 DEF Service!Next
    <2> QED BY <1>6, <2>1, <2>2 DEF CourierNext
  <1>7. ASSUME NEW t \in Polled, PollNext(t) PROVE UNCHANGED TaskStatus
    BY <1>1, <1>7 DEF PollNext, PollState, PollRest
  <1>8. ASSUME NEW w \in Worker, WorkerNext(w) PROVE [Service!Next]_TaskStatus
    <2>1. CASE Announce(w) \/ Succeed(w) \/ Break(w) \/ Quit(w)
      BY <1>1, <2>1 DEF Announce, Succeed, Break, Quit
    <2>2. CASE Done(w)
      <3> DEFINE t == current[w]
      <3>1. t \in Task /\ taskState[t] = "running"
        BY <2>2 DEF Done, WorkerBusy, TaskInOnePlace
      <3>2. courier[t] # "none"
        BY <3>1 DEF TaskInOnePlace
      <3>3. Accepted(t)
        BY <3>1, <3>2 DEF TaskInOnePlace
      <3>4. Service!End(t)
        BY <2>2, <3>1, <3>3 DEF Done, Accepted, TaskStatus, Service!End, Service!Move
      <3> QED BY <3>1, <3>4 DEF Service!Next
    <2> QED BY <1>8, <2>1, <2>2 DEF WorkerNext
  <1>9. CASE UNCHANGED vars
    BY <1>1, <1>9 DEF vars
  <1> QED BY <1>2, <1>3, <1>4, <1>5, <1>6, <1>7, <1>8, <1>9 DEF Next

(* Every behaviour of the dispatcher is one of the abstract task service.  *)
THEOREM DispatcherImplementsService == Spec => ImplementsTaskService
  <1>1. Init => Service!Init
    BY DEF Init, TaskStatus, Service!Init
  <1> QED BY DispatcherCorrect, ServiceStep, <1>1, PTL
          DEF Spec, ImplementsTaskService, Service!Spec
=============================================================================
