------------------------------ MODULE ThreadPool ------------------------------
(***************************************************************************)
(* The thread pool of ijkthreadpool.c, which runs the cache tasks of the   *)
(* I/O layer: a ring of tasks that grows when it is nearly full, workers   *)
(* that sleep on one condition variable, and a destruction that either     *)
(* drops the tasks still queued or lets the workers finish them.           *)
(*                                                                         *)
(* Every section under ctx->lock is one step.  Tasks are numbered in the   *)
(* order they were accepted.                                               *)
(***************************************************************************)
EXTENDS Naturals, Sequences, FiniteSets

CONSTANTS ThreadCount,      \* workers
          InitialSize,      \* slots of the ring when it is created
          MaxQueue,         \* MAX_QUEUE
          ThreadsMayFail,   \* pthread_create may fail
          MaxTasks          \* bound: tasks

ASSUME PoolAssumption ==
    /\ ThreadCount \in Nat \ {0} /\ InitialSize \in Nat \ {0}
    /\ MaxQueue \in Nat /\ InitialSize <= MaxQueue
    /\ ThreadsMayFail \in BOOLEAN /\ MaxTasks \in Nat

Workers == 1 .. ThreadCount
NoTask  == 0    \* what a slot holds that no task was put into

VARIABLES
    task_queue, queue_size, queue_head, queue_tail, pending_count,
    torn,           \* history: the ring was grown while its tasks went round its end
    shutdown,       \* "no", "immediate" or "leisurely"
    worker,         \* where each worker is
    caller,         \* creates the pool, uses it, joins the workers, frees it
    added, started  \* history: tasks accepted, tasks taken by a worker in turn

ringVars == <<task_queue, queue_size, queue_head, queue_tail, pending_count, torn>>
poolVars == <<ringVars, shutdown, worker, caller, added, started>>

PoolInit ==
    /\ task_queue = [slot \in 0 .. MaxQueue - 1 |-> NoTask]
    /\ queue_size = InitialSize
    /\ queue_head = 0 /\ queue_tail = 0 /\ pending_count = 0 /\ torn = FALSE
    /\ shutdown = "no"
    /\ worker = [w \in Workers |-> "none"]
    /\ caller = "create"
    /\ added = 0 /\ started = << >>

Waiting == {w \in Workers : worker[w] = "waiting"}
Awake   == {w \in Workers : worker[w] = "ready"}

\* pthread_cond_signal, pthread_cond_broadcast.
Signal    == \/ Waiting = {} /\ UNCHANGED worker
             \/ \E w \in Waiting : worker' = [worker EXCEPT ![w] = "ready"]
Broadcast == worker' = [w \in Workers |-> IF w \in Waiting THEN "ready" ELSE worker[w]]

(***************************************************************************)
(* ijk_threadpool_create: the workers are started one after the other and  *)
(* run at once.  If one cannot be started the pool is destroyed, with 0    *)
(* for the kind of shutdown.                                               *)
(***************************************************************************)
CreateWorker ==
    /\ caller = "create"
    /\ \E w \in Workers :
          /\ worker[w] = "none" /\ \A v \in 1 .. w - 1 : worker[v] # "none"
          /\ worker' = [worker EXCEPT ![w] = "ready"]
          /\ caller' = IF w = ThreadCount THEN "use" ELSE "create"
    /\ UNCHANGED <<ringVars, shutdown, added, started>>

CreateFails ==
    /\ ThreadsMayFail
    /\ caller = "create"
    /\ Broadcast
    /\ caller' = "join"
    /\ UNCHANGED <<ringVars, shutdown, added, started>>

(***************************************************************************)
(* ijk_threadpool_add                                                      *)
(***************************************************************************)
\* Mutant of RingFull: one task too many is accepted.
RingFullLate == pending_count = MaxQueue + 1 \/ pending_count = queue_size + 1

RingFull == pending_count = MaxQueue \/ pending_count = queue_size

\* With one slot left the ring is grown, if memory allows.  No task is moved: those that go
\* round the end of the old ring are in the wrong slots of the new one.
NewSizes ==
    LET doubled == IF queue_size * 2 > MaxQueue THEN MaxQueue ELSE queue_size * 2
    IN  IF pending_count = queue_size - 1 THEN {queue_size, doubled} ELSE {queue_size}

\* Mutant of Enqueue: the index that comes next is that of the ring before it grew.
EnqueueInOldRing(size) ==
    /\ queue_size' = size
    /\ torn' = (torn \/ (size # queue_size /\ queue_head # 0))
    /\ IF shutdown # "no"
       THEN UNCHANGED <<task_queue, queue_head, queue_tail, pending_count, added>>
       ELSE /\ task_queue' = [task_queue EXCEPT ![queue_tail] = added + 1]
            /\ queue_tail' = (queue_tail + 1) % queue_size
            /\ pending_count' = pending_count + 1
            /\ added' = added + 1
            /\ UNCHANGED queue_head

Enqueue(size) ==
    /\ queue_size' = size
    /\ torn' = (torn \/ (size # queue_size /\ queue_head # 0))
    /\ IF shutdown # "no"
       THEN UNCHANGED <<task_queue, queue_head, queue_tail, pending_count, added>>
       ELSE /\ task_queue' = [task_queue EXCEPT ![queue_tail] = added + 1]
            /\ queue_tail' = (queue_tail + 1) % size
            /\ pending_count' = pending_count + 1
            /\ added' = added + 1
            /\ UNCHANGED queue_head

Add ==
    /\ caller = "use" /\ added < MaxTasks
    /\ ~RingFull
    /\ \E size \in NewSizes : Enqueue(size)
    /\ IF shutdown = "no" THEN Signal ELSE UNCHANGED worker
    /\ UNCHANGED <<shutdown, caller, started>>

(***************************************************************************)
(* ijk_threadpool_thread                                                   *)
(***************************************************************************)
Sleep(w) ==
    /\ worker[w] = "ready"
    /\ pending_count = 0 /\ shutdown = "no"
    /\ worker' = [worker EXCEPT ![w] = "waiting"]
    /\ UNCHANGED <<ringVars, shutdown, caller, added, started>>

\* Mutant of MustExit: a leisurely shutdown does not look at the ring.
MustExitAtOnce == shutdown # "no"

MustExit == \/ shutdown = "immediate"
            \/ shutdown = "leisurely" /\ pending_count = 0

Exit(w) ==
    /\ worker[w] = "ready"
    /\ MustExit
    /\ worker' = [worker EXCEPT ![w] = "exited"]
    /\ UNCHANGED <<ringVars, shutdown, caller, added, started>>

Take(w) ==
    /\ worker[w] = "ready"
    /\ pending_count > 0 /\ ~MustExit
    /\ started' = Append(started, task_queue[queue_head])
    /\ queue_head' = (queue_head + 1) % queue_size
    /\ pending_count' = pending_count - 1
    /\ worker' = [worker EXCEPT ![w] = "running"]
    /\ UNCHANGED <<task_queue, queue_size, queue_tail, torn, shutdown, caller, added>>

\* The function of the task returns.
Finish(w) ==
    /\ worker[w] = "running"
    /\ worker' = [worker EXCEPT ![w] = "ready"]
    /\ UNCHANGED <<ringVars, shutdown, caller, added, started>>

(***************************************************************************)
(* ijk_threadpool_destroy                                                  *)
(***************************************************************************)
Destroy ==
    /\ caller = "use"
    /\ shutdown' \in {"immediate", "leisurely"}
    /\ Broadcast
    /\ caller' = "join"
    /\ UNCHANGED <<ringVars, added, started>>

\* All workers that were started are joined; then the pool is freed.
Free ==
    /\ caller = "join"
    /\ \A w \in Workers : worker[w] \in {"none", "exited"}
    /\ caller' = "freed"
    /\ UNCHANGED <<ringVars, shutdown, worker, added, started>>

WorkerNext(w) == Sleep(w) \/ Exit(w) \/ Take(w) \/ Finish(w)

PoolNext ==
    \/ CreateWorker \/ CreateFails \/ Add \/ Destroy \/ Free
    \/ \E w \in Workers : WorkerNext(w)

PoolSpec == PoolInit /\ [][PoolNext]_poolVars

(***************************************************************************)
(* Fairness: a worker that can run does run, and every task returns.  The  *)
(* pool's user need not destroy it, but once it does it goes on to join.   *)
(***************************************************************************)
PoolFairSpec ==
    /\ PoolSpec
    /\ WF_poolVars(CreateWorker)
    /\ \A w \in Workers : WF_poolVars(WorkerNext(w))
    /\ WF_poolVars(Free)

(***************************************************************************)
(* Properties                                                              *)
(***************************************************************************)
PoolTypeOK ==
    /\ task_queue \in [0 .. MaxQueue - 1 -> 0 .. MaxTasks]
    /\ queue_size \in 1 .. MaxQueue
    /\ queue_head \in 0 .. queue_size - 1 /\ queue_tail \in 0 .. queue_size - 1
    /\ pending_count \in 0 .. queue_size /\ torn \in BOOLEAN
    /\ shutdown \in {"no", "immediate", "leisurely"}
    /\ worker \in [Workers -> {"none", "ready", "waiting", "running", "exited"}]
    /\ caller \in {"create", "use", "join", "freed"}
    /\ added \in 0 .. MaxTasks /\ started \in Seq(0 .. MaxTasks)

\* The tasks are started in the order they were added, each of them once: the ring
\* neither loses a task nor hands one out twice, full or empty, nor when it grows,
\* unless it goes round its end then (ijkthreadpool.c 158-165).
TasksInOrder == ~torn => \A i \in 1 .. Len(started) : started[i] = i

\* A worker sleeps only while there is a worker awake for every task that is
\* pending: one signal for each task is enough to keep all workers busy.
EnoughAwake == Waiting # {} => Cardinality(Awake) >= pending_count

\* A leisurely shutdown ends after every task that was accepted was started.
LeisurelyDropsNone ==
    caller = "freed" /\ shutdown = "leisurely" => Len(started) = added

\* A task that was accepted finds a worker: while the pool is in use no worker
\* sleeps a task through, and a leisurely shutdown leaves none behind.
TasksServed == EnoughAwake /\ LeisurelyDropsNone

\* Every task that was accepted is started, unless an immediate shutdown
\* drops it.
EveryTaskStarts ==
    \A task \in 1 .. MaxTasks :
        []<>(added < task \/ Len(started) >= task \/ shutdown = "immediate")

\* The destruction of a pool that was created comes to an end.  (Where the
\* creation failed, the pool is destroyed with 0 for the kind of shutdown, and
\* the workers that were started sleep on: see CreateFails.)
DestroyReturns == []<>(shutdown = "no" \/ caller = "freed")

\* What ijkthreadpool.h says of the ring: queue_head is the index of the first
\* of pending_count pending tasks.
RingHoldsPending ==
    \A i \in 0 .. pending_count - 1 :
        task_queue[(queue_head + i) % queue_size] = Len(started) + i + 1
===============================================================================
