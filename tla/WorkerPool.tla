------------------------------ MODULE WorkerPool ------------------------------
(***************************************************************************)
(* The pool of worker threads of core/concurrent: Executor keeps a list of *)
(* workers, the indices of those that are free and a queue of tasks; each  *)
(* worker has a message port, listens to it once per task and answers from *)
(* its own thread.                                                         *)
(***************************************************************************)
EXTENDS Naturals, Sequences, FiniteSets, SequencesExt, Functions

CONSTANTS
    Task,
    MinWorkers, MaxWorkers,
    QueueThreshold,      \* QUEUE_SIZE_WORKER_THRESHOLD: more tasks make a new worker
    MaxThreads      \* bound: worker threads started over time

ASSUME PoolAssumption ==
    /\ MinWorkers \in Nat /\ MaxWorkers \in Nat \ {0} /\ MinWorkers <= MaxWorkers
    /\ QueueThreshold \in Nat /\ MaxThreads \in Nat /\ MinWorkers <= MaxThreads
\* What a promise got says whose it was, or that nothing came.
ASSUME TaskAssumption == Task \cap {"new", "pending", "rejected"} = {}

VARIABLES
    pool,           \* the Executor
    ports,          \* per thread: what was posted, who listens, what was answered
    tasks,          \* per task: "new", "pending", "rejected" or whose result it got
    destroying      \* the worker destroy() awaits; 0 before, MaxThreads + 1 after

poolVars == <<pool, ports, tasks, destroying>>

Thread == 1..MaxThreads
NoPort == [open |-> FALSE, posted |-> <<>>, listeners |-> {}, answers |-> <<>>]
OpenPort == [NoPort EXCEPT !.open = TRUE]
Started == {w \in Thread : ports[w] # NoPort}

PoolInit ==
    /\ pool = [workers |-> [i \in 1..MinWorkers |-> i], free |-> [i \in 1..MinWorkers |-> i],
               queue |-> <<>>, destroyed |-> FALSE, initializing |-> FALSE, threads |-> MinWorkers]
    /\ ports = [w \in Thread |-> IF w <= MinWorkers THEN OpenPort ELSE NoPort]
    /\ tasks = [t \in Task |-> "new"]
    /\ destroying = 0

\* A step works on both, as one: s = [pool, ports].
Now == [pool |-> pool, ports |-> ports]
Become(s) == pool' = s.pool /\ ports' = s.ports

\* WorkerChannel.runTask: listen once, then post.  A closed port takes nothing.
RunTask(s, index, task) ==
    LET w == s.pool.workers[index] IN
    [s EXCEPT !.ports[w].listeners = @ \cup {[task |-> task, index |-> index]},
              !.ports[w].posted = IF s.ports[w].open THEN Append(@, task) ELSE @]

\* One worker at a time is being started.
InitNewWorker(s) ==
    IF Len(s.pool.workers) >= MaxWorkers \/ s.pool.threads = MaxThreads THEN s
    ELSE [s EXCEPT !.pool.initializing = TRUE]

\* The last free worker takes the last task.
ProcessEntryKeepingWorker(s) ==
    IF s.pool.free = <<>> THEN IF Len(s.pool.queue) > QueueThreshold THEN InitNewWorker(s) ELSE s
    ELSE IF s.pool.queue = <<>> THEN s
    ELSE RunTask([s EXCEPT !.pool.queue = Front(@)], Last(s.pool.free), Last(s.pool.queue))
ProcessEntryFromTaskQueue(s) ==
    IF s.pool.free = <<>> THEN IF Len(s.pool.queue) > QueueThreshold THEN InitNewWorker(s) ELSE s
    ELSE IF s.pool.queue = <<>> THEN s
    ELSE RunTask([s EXCEPT !.pool.queue = Front(@), !.pool.free = Front(@)], Last(s.pool.free), Last(s.pool.queue))

RunOnWorker(t) ==
    /\ tasks[t] = "new"
    /\ tasks' = [tasks EXCEPT ![t] = IF pool.destroyed THEN "rejected" ELSE "pending"]
    /\ IF pool.destroyed THEN UNCHANGED <<pool, ports>>
       ELSE Become(ProcessEntryFromTaskQueue([Now EXCEPT !.pool.queue = Append(@, t)]))
    /\ UNCHANGED destroying

\* The thread said "ready": the worker gets the next index and a first task.
WorkerReady ==
    /\ pool.initializing /\ pool.threads < MaxThreads
    /\ LET w == pool.threads + 1
           s == [Now EXCEPT !.pool.workers = Append(@, w), !.pool.free = Append(@, Len(pool.workers) + 1),
                             !.pool.initializing = FALSE, !.pool.threads = w, !.ports[w] = OpenPort]
       IN Become(ProcessEntryFromTaskQueue(s))
    /\ UNCHANGED <<tasks, destroying>>

\* In the thread: what was posted is run at once, so any may end first; a task
\* that throws is answered too.
Computed(w) ==
    /\ ports[w].open
    /\ \E i \in DOMAIN ports[w].posted :
        ports' = [ports EXCEPT ![w].posted = RemoveAt(@, i), ![w].answers = Append(@, ports[w].posted[i])]
    /\ UNCHANGED <<pool, tasks, destroying>>

\* The listener has tasks the task: its worker is free, and takes the next.
OnFinish(s, listener) ==
    ProcessEntryFromTaskQueue([s EXCEPT !.pool.free = Append(@, listener.index)])

\* A message fires every listener of the port, once.
Finished(w) ==
    /\ ports[w].open /\ ports[w].answers # <<>>
    /\ LET heard == ports[w].listeners
           s == [Now EXCEPT !.ports[w].answers = Tail(@), !.ports[w].listeners = {}]
       IN /\ tasks' = [t \in Task |->
                IF \E l \in heard : l.task = t /\ tasks[t] = "pending" THEN Head(ports[w].answers) ELSE tasks[t]]
          /\ Become(FoldLeft(OnFinish, s, SetToSeq(heard)))
    /\ UNCHANGED destroying

\* destroy(): close one port, await its thread, go on to the next.
Destroy ==
    /\ ~pool.destroyed
    /\ IF destroying < Len(pool.workers)
       THEN /\ destroying' = destroying + 1
            /\ ports' = [ports EXCEPT ![pool.workers[destroying + 1]].open = FALSE]
            /\ UNCHANGED pool
       ELSE /\ destroying' = MaxThreads + 1
            /\ pool' = [pool EXCEPT !.workers = <<>>, !.destroyed = TRUE]
            /\ UNCHANGED ports
    /\ UNCHANGED tasks

PoolNext ==
    \/ \E t \in Task : RunOnWorker(t)
    \/ WorkerReady
    \/ \E w \in Thread : Computed(w) \/ Finished(w)
    \/ Destroy

PoolSpec == PoolInit /\ [][PoolNext]_poolVars

(***************************************************************************)
(* The workers do all the work: a task only waits while no worker is free, *)
(* a worker has one task at a time so that nobody hears the answer of      *)
(* another, and a task that is pending is queued or at one worker.         *)
(***************************************************************************)
Holders(t) == {w \in Thread : \E l \in ports[w].listeners : l.task = t}
WorkIsShared ==
    /\ pool.queue # <<>> => pool.free = <<>>
    /\ \A w \in Thread : Cardinality(ports[w].listeners) <= 1
    /\ \A t \in Task :
        /\ tasks[t] \in {"new", "pending", "rejected", t}
        /\ tasks[t] = "pending" =>
            Cardinality(Holders(t)) + Cardinality({i \in DOMAIN pool.queue : pool.queue[i] = t}) = 1
    /\ ~pool.destroyed => ToSet(pool.free) \subseteq DOMAIN pool.workers /\ IsInjective(pool.free)
=============================================================================
