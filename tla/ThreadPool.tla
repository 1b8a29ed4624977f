----------------------------- MODULE ThreadPool -----------------------------
(***************************************************************************)
(* The thread pool of public/thread/base_threadpool.c: client threads call *)
(* the base_threadpool_* functions, worker threads run thread_pool_func,   *)
(* and all of them share the pool under one mutex and one condition        *)
(* variable.                                                               *)
(*                                                                         *)
(* A critical section is one step, cut where a variable that is written    *)
(* without the mutex (terminated, idle_max, thd_max, ...) is read again.   *)
(* Which of the queued tasks pop_task takes is TaskQueue's matter: here    *)
(* any may be taken.                                                       *)
(*                                                                         *)
(* Undefined behaviour of the code (base_timedwait_threadcond called with  *)
(* a number for a pointer, base_join_thread called with its arguments      *)
(* swapped, a busy ring whose links were cleared, a freed mutex) sets ub   *)
(* and nothing is claimed from there on.                                   *)
(***************************************************************************)
EXTENDS Integers, FiniteSets

CONSTANTS
  Workers,      \* identities of worker threads; a thread that ended frees its own
  Clients,      \* threads that call the pool's functions
  Tasks,        \* tasks; each is added at most once
  Owners,       \* owners of tasks
  OwnerOf,      \* the owner of each task
  Timed,        \* the tasks passed to scheduletask instead of addtask
  Sizes,        \* init_threads and max_threads of base_init_threadpool
  MaxTasks,     \* max_tasks
  Calls,        \* the control calls the clients make
  Limits,       \* arguments of set_idle_max, set_thread_max, set_threshold
  Budget,       \* bound on the number of control calls
  FailAlloc,    \* pthread_create and the allocations of elt_new may fail
  NoTask, NoOne

ASSUME PoolAssumption ==
  /\ OwnerOf \in [Tasks -> Owners]
  /\ Timed \subseteq Tasks
  /\ Sizes \subseteq [init : Nat, max : Nat]
  /\ MaxTasks \in Nat /\ Budget \in Nat
  /\ Calls \subseteq {"cancel", "set_idle_max", "set_thread_max", "set_threshold",
                      "set_idle_wait", "deinit"}
  /\ Limits \subseteq Nat
  /\ FailAlloc \in BOOLEAN
  /\ NoTask \notin Tasks /\ NoOne \notin Workers
  /\ IsFiniteSet(Workers)

VARIABLES
  lock,         \* the worker that holds me->lock between two of its steps
  pc,           \* where each worker is
  hand,         \* the task a worker popped or runs
  stop,         \* the workers whose elt->state is TH_STOP
  busy, idle,   \* me->busy_thds, me->idle_thds
  thdCnt, idleCnt,
  queue, sched, \* me->tasks, me->scheduled_tasks
  due,          \* the scheduled tasks whose time has come
  done,         \* the tasks that were run
  gone,         \* the tasks that were cancelled, or popped and not run
  refused,      \* the tasks for which addtask or scheduletask reported an error
  idleMax, thdMax, threshold, idleWait, terminated,
  ready,        \* base_init_threadpool: its sizes, the threads left to create and count
  cli,          \* the call each client is in
  budget,       \* control calls left
  freed,        \* the pool's memory was freed
  ub            \* undefined behaviour was reached

queueVars == <<queue, sched, due, done, gone, refused>>
confVars == <<idleMax, thdMax, threshold, idleWait, terminated>>
workVars == <<lock, pc, hand, stop, busy, idle>>
vars == <<workVars, thdCnt, idleCnt, queueVars, confVars, ready, cli, budget, freed, ub>>

\* A worker in one of these places is counted by thd_cnt.
Live == {"start", "check", "run", "settle", "idling", "waiting", "woken"}
\* A worker in one of these places is in the idle ring unless it was trimmed.
Idle == {"idling", "waiting", "woken"}
Living == {w \in Workers : pc[w] \in Live}

\* a size_t below zero
HugeSize == 1000000
Unsigned(n) == IF n >= 0 THEN n ELSE HugeSize

\* at: the step of the call; n: its count argument; then: what follows the trim;
\* who, must: the owner cancel_tasks is about and its tasks at the time of the call
NoCall == [at |-> "none", n |-> 0, then |-> "none", who |-> NoOne, must |-> {}]

Init ==
  /\ lock = NoOne
  /\ pc = [w \in Workers |-> "none"]
  /\ hand = [w \in Workers |-> NoTask]
  /\ stop = {} /\ busy = {} /\ idle = {}
  /\ thdCnt = 0 /\ idleCnt = 0
  /\ queue = {} /\ sched = {} /\ due = {} /\ done = {} /\ gone = {} /\ refused = {}
  /\ \E size \in Sizes :
       /\ idleMax = size.init /\ thdMax = size.max /\ threshold = size.init \div 2
       /\ ready = [size |-> size, left |-> size.init, uncounted |-> FALSE, failed |-> FALSE]
  /\ idleWait = FALSE /\ terminated = FALSE
  /\ cli = [c \in Clients |-> NoCall]
  /\ budget = Budget
  /\ freed = FALSE /\ ub = FALSE
-----------------------------------------------------------------------------
\* identities base_init_thread may give a new thread
Fresh == {w \in Workers : pc[w] \in {"none", "gone"}}

\* pthread_create by a thread holding the mutex or by the initialisation; n is
\* the new worker or NoOne when it fails
MayCreate(n) ==
  \/ n \in Fresh
  \/ n = NoOne /\ (FailAlloc \/ Fresh = {})

\* pthread_cond_signal wakes one of the waiting threads, if any waits
MaySignal(s) ==
  IF \E w \in Workers : pc[w] = "waiting" THEN s \in Workers /\ pc[s] = "waiting" ELSE s = NoOne

\* pc after starting n and waking s
Started(n, s) ==
  [w \in Workers |-> IF w = n THEN "start" ELSE IF w = s THEN "woken" ELSE pc[w]]

Usable == ready.left = 0 /\ ~ready.uncounted /\ ~ready.failed /\ ~ub
Closing == \E c \in Clients : cli[c].then = "drain"
CanCall(c) == Usable /\ ~Closing /\ cli[c].at = "none"

\* pop_task: a scheduled task whose time has come first, else a task of the queue
MayPop(t) ==
  IF sched \cap due # {} THEN t \in sched \cap due
  ELSE IF queue # {} THEN t \in queue
  ELSE t = NoTask
\* mutant of Popped: leaves the task in the queue
PoppedKept(t) ==
  /\ queue' = queue
  /\ sched' = sched \ {t}
Popped(t) ==
  /\ queue' = queue \ {t}
  /\ sched' = sched \ {t}
-----------------------------------------------------------------------------
(* base_init_threadpool: the threads are created one by one; thd_cnt is     *)
(* increased after the mutex was released, when the thread may already run. *)

InitCreate(n) ==
  /\ ready.left > 0 /\ ~ready.uncounted /\ ~ready.failed
  /\ lock = NoOne
  /\ MayCreate(n)
  /\ pc' = Started(n, NoOne)
  /\ ready' = [ready EXCEPT !.uncounted = (n # NoOne), !.failed = (n = NoOne)]
  /\ stop' = stop \ {n}
  /\ UNCHANGED <<lock, hand, busy, idle, thdCnt, idleCnt, queueVars, confVars, cli, budget,
                 freed, ub>>

InitCount ==
  /\ ready.uncounted
  /\ thdCnt' = thdCnt + 1
  /\ ready' = [ready EXCEPT !.left = @ - 1, !.uncounted = FALSE]
  /\ UNCHANGED <<workVars, idleCnt, queueVars, confVars, cli, budget, freed, ub>>
-----------------------------------------------------------------------------
(* Worker threads: thread_pool_func.                                       *)

\* calloc fails in elt_new: the thread ends and stays counted.
EltNewFails(w) ==
  /\ FailAlloc /\ pc[w] = "start" /\ lock = NoOne /\ ~ub
  /\ pc' = [pc EXCEPT ![w] = "gone"]
  /\ UNCHANGED <<lock, hand, stop, busy, idle, thdCnt, idleCnt, queueVars, confVars, ready,
                 cli, budget, freed, ub>>

\* The mutex is acquired, by a new thread or on return from the condition wait;
\* the loop condition holds: from the idle to the busy ring, and pop_task.
Enter(w, t) ==
  /\ pc[w] \in {"start", "woken"} /\ lock = NoOne /\ ~ub
  /\ ~terminated /\ w \notin stop
  /\ MayPop(t) /\ Popped(t)
  /\ lock' = w
  /\ pc' = [pc EXCEPT ![w] = "check"]
  /\ hand' = [hand EXCEPT ![w] = t]
  /\ busy' = busy \cup {w} /\ idle' = idle \ {w}
  /\ idleCnt' = IF pc[w] = "woken" THEN idleCnt - 1 ELSE idleCnt
  /\ UNCHANGED <<stop, thdCnt, due, done, gone, refused, confVars, ready, cli, budget, freed, ub>>

\* The loop condition fails: the thread is on its way out, with the mutex held.
Quit(w) ==
  /\ pc[w] \in {"start", "woken"} /\ lock = NoOne /\ ~ub
  /\ terminated \/ w \in stop
  /\ lock' = w
  /\ pc' = [pc EXCEPT ![w] = "leaving"]
  /\ thdCnt' = thdCnt - 1
  /\ UNCHANGED <<hand, stop, busy, idle, idleCnt, queueVars, confVars, ready, cli, budget, freed, ub>>

\* The inner loop's condition holds: publish the owner, release the mutex, run.
Run(w) ==
  /\ pc[w] = "check" /\ hand[w] # NoTask /\ ~terminated /\ ~ub
  /\ lock' = NoOne
  /\ pc' = [pc EXCEPT ![w] = "run"]
  /\ UNCHANGED <<hand, stop, busy, idle, thdCnt, idleCnt, queueVars, confVars, ready, cli,
                 budget, freed, ub>>

\* It does not hold: a task popped when the pool was terminated is dropped.
Drop(w) ==
  /\ pc[w] = "check" /\ (hand[w] = NoTask \/ terminated) /\ ~ub
  /\ pc' = [pc EXCEPT ![w] = "settle"]
  /\ hand' = [hand EXCEPT ![w] = NoTask]
  /\ gone' = gone \cup ({hand[w]} \ {NoTask})
  /\ busy' = busy \ {w}
  /\ UNCHANGED <<lock, stop, idle, thdCnt, idleCnt, queue, sched, due, done, refused, confVars,
                 ready, cli, budget, freed, ub>>

\* The task's function returned and the mutex is acquired again: next task.  The
\* break on TH_STOP is for threads that trim_busy_threads marked (see TrimBusy).
Finish(w, t) ==
  /\ pc[w] = "run" /\ lock = NoOne /\ ~ub
  /\ MayPop(t) /\ Popped(t)
  /\ lock' = w
  /\ pc' = [pc EXCEPT ![w] = "check"]
  /\ hand' = [hand EXCEPT ![w] = t]
  /\ done' = done \cup {hand[w]}
  /\ UNCHANGED <<stop, busy, idle, thdCnt, idleCnt, due, gone, refused, confVars, ready, cli,
                 budget, freed, ub>>

\* The thread exits: enough threads are idle, or it was told to.
MustExit(w) ==
  \/ idleCnt >= idleMax /\ ~(sched # {} /\ idleMax = 0) /\ ~idleWait
  \/ terminated
  \/ w \in stop

\* It does not: into the idle ring.
Settle(w) ==
  /\ pc[w] = "settle" /\ ~MustExit(w) /\ ~ub
  /\ idleCnt' = idleCnt + 1
  /\ idle' = idle \cup {w}
  /\ pc' = [pc EXCEPT ![w] = "idling"]
  /\ UNCHANGED <<lock, hand, stop, busy, thdCnt, queueVars, confVars, ready, cli, budget, freed, ub>>

\* The condition wait releases the mutex.  A waiting time >= 0 reaches
\* pthread_cond_timedwait as a pointer; that of a task that is due is negative or 0.
Wait(w) ==
  /\ pc[w] = "idling" /\ ~ub
  /\ lock' = NoOne
  /\ pc' = [pc EXCEPT ![w] = "waiting"]
  /\ ub' \in IF sched # {} THEN {sched \cap due = {}, TRUE} ELSE {idleCnt > idleMax}
  /\ UNCHANGED <<hand, stop, busy, idle, thdCnt, idleCnt, queueVars, confVars, ready, cli, budget,
                 freed>>

\* mutant of Retire: thd_cnt keeps counting the thread
RetireCounted(w) ==
  /\ pc[w] = "settle" /\ MustExit(w) /\ ~ub
  /\ pc' = [pc EXCEPT ![w] = "leaving"]
  /\ UNCHANGED <<lock, hand, stop, busy, idle, thdCnt, idleCnt, queueVars, confVars, ready, cli,
                 budget, freed, ub>>

Retire(w) ==
  /\ pc[w] = "settle" /\ MustExit(w) /\ ~ub
  /\ thdCnt' = thdCnt - 1
  /\ pc' = [pc EXCEPT ![w] = "leaving"]
  /\ UNCHANGED <<lock, hand, stop, busy, idle, idleCnt, queueVars, confVars, ready, cli, budget,
                 freed, ub>>

\* The exiting thread releases the mutex; nothing stops that memory being freed.
Leave(w) ==
  /\ pc[w] = "leaving" /\ ~ub
  /\ lock' = NoOne
  /\ pc' = [pc EXCEPT ![w] = "gone"]
  /\ ub' = freed
  /\ UNCHANGED <<hand, stop, busy, idle, thdCnt, idleCnt, queueVars, confVars, ready, cli, budget, freed>>

\* pthread_cond_wait may return without a signal.
SpuriousWake(w) ==
  /\ pc[w] = "waiting" /\ ~ub
  /\ pc' = [pc EXCEPT ![w] = "woken"]
  /\ UNCHANGED <<lock, hand, stop, busy, idle, thdCnt, idleCnt, queueVars, confVars, ready, cli,
                 budget, freed, ub>>

\* The clock reaches the time of a scheduled task.
TimeComes(t) ==
  /\ t \in sched \ due /\ ~ub
  /\ due' = due \cup {t}
  /\ UNCHANGED <<workVars, thdCnt, idleCnt, queue, sched, done, gone, refused, confVars, ready,
                 cli, budget, freed, ub>>
-----------------------------------------------------------------------------
(* Client threads.                                                          *)

\* mutant of NeedsThread: no first thread
OnlyBacklog(pending) == idleCnt = 0 /\ thdCnt < thdMax /\ pending > threshold

\* A new thread when there is none, or when none is idle and enough tasks wait.
NeedsThread(pending) ==
  thdCnt = 0 \/ (idleCnt = 0 /\ thdCnt < thdMax /\ pending > threshold)

\* the end of add_task and schedule_task: start a thread if needed, signal
StartAndSignal(need, t) ==
  \E n \in Workers \cup {NoOne}, s \in Workers \cup {NoOne} :
    /\ IF need THEN MayCreate(n) ELSE n = NoOne
    /\ MaySignal(s)
    /\ pc' = Started(n, s)
    /\ stop' = stop \ {n}
    /\ thdCnt' = IF n # NoOne THEN thdCnt + 1 ELSE thdCnt
    /\ refused' = IF need /\ n = NoOne THEN refused \cup {t} ELSE refused

New(t) == t \notin queue \cup sched \cup done \cup gone /\ \A w \in Workers : hand[w] # t

\* base_threadpool_addtask and base_threadpool_top; a full queue refuses.
AddTask(c, t) ==
  /\ CanCall(c) /\ New(t) /\ t \notin Timed
  /\ lock = NoOne
  /\ MaxTasks = 0 \/ Cardinality(queue) < MaxTasks
  /\ queue' = queue \cup {t}
  /\ StartAndSignal(NeedsThread(Cardinality(queue')), t)
  /\ UNCHANGED <<lock, hand, busy, idle, idleCnt, sched, due, done, gone, confVars, ready, cli,
                 budget, freed, ub>>

\* base_threadpool_scheduletask
ScheduleTask(c, t) ==
  /\ CanCall(c) /\ New(t) /\ t \in Timed
  /\ lock = NoOne
  /\ sched' = sched \cup {t}
  /\ StartAndSignal(thdCnt = 0, t)
  /\ UNCHANGED <<lock, hand, busy, idle, idleCnt, queue, due, done, gone, confVars, ready, cli,
                 budget, freed, ub>>

OwnedBy(o) == {t \in Tasks : OwnerOf[t] = o}
InHands == {hand[w] : w \in Workers} \ {NoTask}

Spend(call) == call \in Calls /\ budget > 0 /\ budget' = budget - 1

\* base_threadpool_cancel_tasks, first critical section: unqueue the owner's tasks
Cancel(c, o) ==
  /\ CanCall(c) /\ Spend("cancel")
  /\ lock = NoOne
  /\ queue' = queue \ OwnedBy(o) /\ sched' = sched \ OwnedBy(o)
  /\ gone' = gone \cup ((queue \cup sched) \cap OwnedBy(o))
  /\ cli' = [cli EXCEPT ![c].at = "wait_on_busy", ![c].who = o,
                        ![c].must = (queue \cup sched \cup InHands) \cap OwnedBy(o)]
  /\ UNCHANGED <<workVars, thdCnt, idleCnt, due, done, refused, confVars, ready, freed, ub>>

\* mutant of BusyWith: looks at idle threads instead of busy ones
IdleWith(o) == \E w \in idle : hand[w] \in OwnedBy(o)

\* a thread of the busy ring has current_owner = o
BusyWith(o) == \E w \in busy : hand[w] \in OwnedBy(o)

\* wait_on_busy_threads: returns when a scan of the busy ring finds none of the owner
CancelReturn(c) ==
  /\ cli[c].at = "wait_on_busy" /\ lock = NoOne /\ ~ub
  /\ ~BusyWith(cli[c].who)
  /\ cli' = [cli EXCEPT ![c] = NoCall]
  /\ UNCHANGED <<workVars, thdCnt, idleCnt, queueVars, confVars, ready, budget, freed, ub>>

\* base_threadpool_set_idle_max: the limit is stored without the mutex
SetIdleMax(c, n) ==
  /\ CanCall(c) /\ Spend("set_idle_max")
  /\ idleMax' = n
  /\ cli' = [cli EXCEPT ![c].at = "trim", ![c].n = n]
  /\ UNCHANGED <<workVars, thdCnt, idleCnt, queueVars, thdMax, threshold, idleWait, terminated,
                 ready, freed, ub>>

\* mutant of Trim: idle_cnt is left as it was
TrimUncounted(c) ==
  /\ cli[c].at = "trim" /\ lock = NoOne /\ ~ub
  /\ \E kept \in SUBSET idle :
       /\ Cardinality(kept) = IF idleCnt <= cli[c].n THEN idleCnt ELSE cli[c].n
       /\ idle' = kept
       /\ stop' = stop \cup (idle \ kept)
       /\ cli' = [cli EXCEPT ![c].at = "broadcast", ![c].n = Cardinality(idle \ kept)]
  /\ UNCHANGED <<lock, pc, hand, busy, thdCnt, idleCnt, queueVars, confVars, ready, budget, freed, ub>>

\* trim_threads on the idle ring: all but n are told to stop and unlinked
Trim(c) ==
  /\ cli[c].at = "trim" /\ lock = NoOne /\ ~ub
  /\ IF idleCnt <= cli[c].n
     THEN /\ cli' = [cli EXCEPT ![c].at = "broadcast", ![c].n = 0]
          /\ UNCHANGED <<idle, idleCnt, stop>>
     ELSE \E kept \in SUBSET idle :
            /\ Cardinality(kept) = cli[c].n
            /\ idle' = kept
            /\ idleCnt' = cli[c].n
            /\ stop' = stop \cup (idle \ kept)
            /\ cli' = [cli EXCEPT ![c].at = "broadcast", ![c].n = idleCnt - cli[c].n]
  /\ UNCHANGED <<lock, pc, hand, busy, thdCnt, queueVars, confVars, ready, budget, freed, ub>>

\* trim_idle_threads, after trim_threads: wake everybody, then join the trimmed
Broadcast(c) ==
  /\ cli[c].at = "broadcast" /\ lock = NoOne /\ ~ub
  /\ pc' = [w \in Workers |-> IF pc[w] = "waiting" THEN "woken" ELSE pc[w]]
  /\ cli' = [cli EXCEPT ![c] = IF @.n > 0 THEN [@ EXCEPT !.at = "join"]
                               ELSE [NoCall EXCEPT !.at = cli[c].then, !.then = cli[c].then]]
  /\ UNCHANGED <<lock, hand, stop, busy, idle, thdCnt, idleCnt, queueVars, confVars, ready,
                 budget, freed, ub>>

\* base_join_thread(&rv, elt->thd): the parameters are the other way round
Join(c) ==
  /\ cli[c].at = "join" /\ ~ub
  /\ ub' = TRUE
  /\ UNCHANGED <<workVars, thdCnt, idleCnt, queueVars, confVars, ready, cli, budget, freed>>

(* base_threadpool_set_thread_max: thd_max is stored, thd_cnt read twice and *)
(* idle_cnt read twice, all without the mutex.                               *)
SetThreadMax(c, n) ==
  /\ CanCall(c) /\ Spend("set_thread_max")
  /\ thdMax' = n
  /\ cli' = IF n = 0 \/ thdCnt <= n THEN cli
            ELSE [cli EXCEPT ![c].at = "excess", ![c].n = n]
  /\ UNCHANGED <<workVars, thdCnt, idleCnt, queueVars, idleMax, threshold, idleWait, terminated,
                 ready, freed, ub>>

Excess(c) ==
  /\ cli[c].at = "excess" /\ ~ub
  /\ cli' = [cli EXCEPT ![c].at = "split", ![c].n = Unsigned(thdCnt - @)]
  /\ UNCHANGED <<workVars, thdCnt, idleCnt, queueVars, confVars, ready, budget, freed, ub>>

Split(c) ==
  /\ cli[c].at = "split" /\ ~ub
  /\ cli' = [cli EXCEPT ![c].at = IF cli[c].n >= idleCnt THEN "busy_count" ELSE "idle_count"]
  /\ UNCHANGED <<workVars, thdCnt, idleCnt, queueVars, confVars, ready, budget, freed, ub>>

TrimCount(c) ==
  /\ cli[c].at \in {"busy_count", "idle_count"} /\ ~ub
  /\ cli' = IF cli[c].at = "busy_count"
            THEN [cli EXCEPT ![c].at = "trim_busy", ![c].n = Unsigned(@ - idleCnt)]
            ELSE [cli EXCEPT ![c].at = "trim", ![c].n = Unsigned(idleCnt - @)]
  /\ UNCHANGED <<workVars, thdCnt, idleCnt, queueVars, confVars, ready, budget, freed, ub>>

\* trim_busy_threads: when there is something to trim, links of threads that stay
\* in the busy ring are set to NULL
TrimBusy(c) ==
  /\ cli[c].at = "trim_busy" /\ lock = NoOne /\ ~ub
  /\ ub' = (thdCnt - idleCnt > cli[c].n)
  /\ cli' = [cli EXCEPT ![c].at = "trim", ![c].n = 0]
  /\ UNCHANGED <<workVars, thdCnt, idleCnt, queueVars, confVars, ready, budget, freed>>

SetThreshold(c, n) ==
  /\ CanCall(c) /\ Spend("set_threshold")
  /\ threshold' = n
  /\ UNCHANGED <<workVars, thdCnt, idleCnt, queueVars, idleMax, thdMax, idleWait, terminated,
                 ready, cli, freed, ub>>

SetIdleWait(c) ==
  /\ CanCall(c) /\ Spend("set_idle_wait")
  /\ idleWait' = ~idleWait
  /\ UNCHANGED <<workVars, thdCnt, idleCnt, queueVars, idleMax, thdMax, threshold, terminated,
                 ready, cli, freed, ub>>

(* base_deinit_threadpool: terminated is set without the mutex, the idle     *)
(* threads are trimmed, then thd_cnt is polled, without the mutex, until it  *)
(* is 0 and everything is freed.  It is called when no other call is running.*)
Deinit(c) ==
  /\ CanCall(c) /\ Spend("deinit") /\ \A d \in Clients : cli[d].at = "none"
  /\ terminated' = TRUE
  /\ cli' = [cli EXCEPT ![c].at = "idle_max_0", ![c].then = "drain"]
  /\ UNCHANGED <<workVars, thdCnt, idleCnt, queueVars, idleMax, thdMax, threshold, idleWait, ready,
                 freed, ub>>

DeinitIdleMax(c) ==
  /\ cli[c].at = "idle_max_0" /\ ~ub
  /\ idleMax' = 0
  /\ cli' = [cli EXCEPT ![c].at = "trim", ![c].n = 0]
  /\ UNCHANGED <<workVars, thdCnt, idleCnt, queueVars, thdMax, threshold, idleWait, terminated,
                 ready, budget, freed, ub>>

\* mutant of DeinitFree: does not wait for the threads
DeinitFreeNow(c) ==
  /\ cli[c].at = "drain" /\ ~ub
  /\ freed' = TRUE
  /\ cli' = [cli EXCEPT ![c].at = "closed"]
  /\ UNCHANGED <<workVars, thdCnt, idleCnt, queueVars, confVars, ready, budget, ub>>

DeinitFree(c) ==
  /\ cli[c].at = "drain" /\ ~ub
  /\ thdCnt = 0
  /\ freed' = TRUE
  /\ cli' = [cli EXCEPT ![c].at = "closed"]
  /\ UNCHANGED <<workVars, thdCnt, idleCnt, queueVars, confVars, ready, budget, ub>>

WorkerStep(w) ==
  \/ Quit(w) \/ Run(w) \/ Drop(w) \/ Settle(w) \/ Wait(w) \/ Retire(w) \/ Leave(w)
  \/ \E t \in Tasks \cup {NoTask} : Enter(w, t) \/ Finish(w, t)

Control(c) ==
  \/ \E o \in Owners : Cancel(c, o)
  \/ \E n \in Limits : SetIdleMax(c, n) \/ SetThreadMax(c, n) \/ SetThreshold(c, n)
  \/ SetIdleWait(c) \/ Deinit(c)

\* the steps inside a call
CallStep(c) ==
  \/ CancelReturn(c) \/ Trim(c) \/ Broadcast(c) \/ Join(c)
  \/ Excess(c) \/ Split(c) \/ TrimCount(c) \/ TrimBusy(c)
  \/ DeinitIdleMax(c) \/ DeinitFree(c)

Next ==
  \/ \E n \in Workers \cup {NoOne} : InitCreate(n)
  \/ InitCount
  \/ \E w \in Workers : WorkerStep(w) \/ EltNewFails(w) \/ SpuriousWake(w)
  \/ \E t \in Tasks : TimeComes(t)
  \/ \E c \in Clients :
       Control(c) \/ CallStep(c) \/ \E t \in Tasks : AddTask(c, t) \/ ScheduleTask(c, t)

Spec == Init /\ [][Next]_vars

(* Fairness: the operating system runs every runnable thread, the function  *)
(* of a task returns, and a thread that waits for the mutex is not starved  *)
(* by the others (strong fairness: the mutex is free only now and then).    *)
Fairness ==
  /\ WF_vars(\E n \in Workers : InitCreate(n))
  /\ WF_vars(InitCount)
  /\ \A w \in Workers : SF_vars(WorkerStep(w))
  /\ \A c \in Clients : SF_vars(CallStep(c))

FairSpec == Spec /\ Fairness
-----------------------------------------------------------------------------
TypeOK ==
  /\ lock \in Workers \cup {NoOne}
  /\ pc \in [Workers -> Live \cup {"none", "leaving", "gone"}]
  /\ hand \in [Workers -> Tasks \cup {NoTask}]
  /\ stop \subseteq Workers /\ busy \subseteq Workers /\ idle \subseteq Workers
  /\ thdCnt \in Nat /\ idleCnt \in Nat
  /\ queue \subseteq Tasks /\ sched \subseteq Tasks /\ due \subseteq Tasks
  /\ done \subseteq Tasks /\ gone \subseteq Tasks /\ refused \subseteq Tasks
  /\ idleMax \in Nat /\ thdMax \in Nat /\ threshold \in Nat
  /\ idleWait \in BOOLEAN /\ terminated \in BOOLEAN
  /\ ready \in [size : Sizes, left : Nat, uncounted : BOOLEAN, failed : BOOLEAN]
  /\ budget \in Nat /\ freed \in BOOLEAN /\ ub \in BOOLEAN

\* thd_cnt, which decides whether threads are started and when the pool is freed, never
\* falls below the number of threads that have not decided to exit (not counting the one
\* base_init_threadpool has started and not yet counted), and equals it unless elt_new
\* ran out of memory.
ThreadsCounted ==
  LET counted == thdCnt + (IF ready.uncounted THEN 1 ELSE 0)
  IN  ~ub => /\ counted >= Cardinality(Living)
             /\ ~FailAlloc => counted = Cardinality(Living)

\* idle_cnt is the length of the idle ring, and the ring holds the threads that wait or
\* are about to return from the wait and were not told to stop: trim_threads' assertion
\* n == n_dbg holds and no thread is trimmed twice.
IdleCounted ==
  ~ub => /\ idleCnt = Cardinality(idle)
         /\ idle \cap stop = {}
         /\ ~terminated => idle = {w \in Workers \ stop : pc[w] \in Idle}

\* One worker at a time is between acquiring and releasing the mutex.
MutexHeld ==
  ~ub => \A w \in Workers : pc[w] \in {"check", "settle", "idling", "leaving"} <=> lock = w

\* A task is in one place: queued, in the hand of one worker, run or given up.
TaskInOnePlace ==
  ~ub =>
    /\ \A v, w \in Workers : v # w /\ hand[v] # NoTask => hand[v] # hand[w]
    /\ InHands \cap (queue \cup sched \cup done \cup gone) = {}
    /\ (queue \cup sched) \cap (done \cup gone) = {}

\* When cancel_tasks returns, none of the owner's tasks that were queued or running at
\* the time of the call is queued or running.
CancelComplete ==
  [][\A c \in Clients :
       cli[c].at = "wait_on_busy" /\ cli'[c].at = "none" =>
         cli[c].must \cap (queue \cup sched \cup InHands) = {}]_vars

\* The pool is freed only when every thread has decided to exit and has at most the final
\* release of the mutex left to do (thread_pool_cleanup polls thd_cnt without the mutex).
FreedAfterThreadsLeft == freed => Living = {}

\* A task that was accepted is run, unless it is cancelled or the pool is trimmed or
\* terminated.
AcceptedTaskRuns ==
  \A t \in Tasks :
    (t \in queue /\ refused = {}) ~>
      (t \in done \cup gone \/ terminated \/ stop # {} \/ refused # {} \/ ub)

\* deinit returns, and cancel_tasks returns, once the tasks that run have returned.
CallsReturn == \A c \in Clients : cli[c].at # "none" ~> (cli[c].at \in {"none", "closed"} \/ ub)
=============================================================================
