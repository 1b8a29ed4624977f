----------------------------- MODULE HbasePool -----------------------------
(***************************************************************************)
(* DbHbaseConnPool, the singleton pool of HBase connections, and the       *)
(* HbaseAccessor objects that borrow from it (public/hbase_storage).  A    *)
(* main thread calls InitPool and later ReleaseInstance; other threads     *)
(* construct and destroy accessors at any time.  GetInstance tests the     *)
(* pointer without the lock, publishes a pool before its Init has run, and *)
(* makes a new pool when the old one has been released.                    *)
(*                                                                         *)
(* A lock of a mutex that was never initialised, and a call on a pool that *)
(* is NULL or deleted, is undefined: it sets ub, which ends a behaviour.   *)
(* A connection that fails to open, or breaks, stays in circulation like   *)
(* any other, so its state is left out.                                    *)
(***************************************************************************)
EXTENDS Integers, Sequences, FiniteSets

CONSTANTS
    HbaseThreads,
    Num        \* the parameter num of InitPool

MIN_HBASE_POOL_SIZE == 2

VARIABLES
    main, filled, \* where the main thread is; the turns of Init's loop
    hbasePool,    \* s_hbase_conn_pool_ptr_: 0 is NULL, pools are numbered
    pools,        \* the number of pools made
    ready,        \* the pools whose mutex is initialised
    freedPools,   \* the pools deleted
    queue,        \* db_hbase_connect_queue_ of each pool
    conns,        \* the number of connections made
    closed,       \* the connections closed and deleted
    hbaseAt, ptr, \* where each thread is; the pool GetInstance gave it
    mine,         \* hbase_impl_ptr_ of its accessor, 0 is NULL
    early, late,  \* history: an accessor overlapped InitPool, or ReleaseInstance
    hbaseUb

pool_vars == <<hbasePool, pools, ready, freedPools, queue, conns, closed>>
thread_vars == <<hbaseAt, ptr, mine>>
history_vars == <<early, late>>
hbaseVars == <<main, filled, pool_vars, thread_vars, history_vars, hbaseUb>>

Pools == 1..2    \* InitPool's, and one made after ReleaseInstance

HbaseInit ==
    /\ main = "start" /\ filled = 0
    /\ hbasePool = 0 /\ pools = 0 /\ ready = {} /\ freedPools = {}
    /\ queue = [p \in Pools |-> <<>>]
    /\ conns = 0 /\ closed = {}
    /\ hbaseAt = [t \in HbaseThreads |-> "out"]
    /\ ptr = [t \in HbaseThreads |-> 0]
    /\ mine = [t \in HbaseThreads |-> 0]
    /\ early = FALSE /\ late = FALSE
    /\ hbaseUb = FALSE

HbaseGo(t, a, b) == ~hbaseUb /\ hbaseAt[t] = a /\ hbaseAt' = [hbaseAt EXCEPT ![t] = b]
Usable(p) == p \in ready \ freedPools
HbaseInitCount == IF Num <= 0 THEN MIN_HBASE_POOL_SIZE ELSE Num

\* GetInstance, with the static lock held: the test again, and the pool.
CreateIfNull ==
    IF hbasePool = 0 THEN hbasePool' = pools + 1 /\ pools' = pools + 1
                     ELSE UNCHANGED <<hbasePool, pools>>
-----------------------------------------------------------------------------
\* InitPool calls GetInstance, and Init of the pool, which initialises the mutex.
InitPool ==
    /\ ~hbaseUb /\ main = "start"
    /\ main' = "published"
    /\ CreateIfNull
    /\ UNCHANGED <<filled, ready, freedPools, queue, conns, closed, thread_vars,
                   history_vars, hbaseUb>>

\* mutant of InitMutex: left out
InitMutexNot ==
    /\ ~hbaseUb /\ main = "published"
    /\ main' = "filling"
    /\ UNCHANGED <<filled, pool_vars, thread_vars, history_vars, hbaseUb>>

InitMutex ==
    /\ ~hbaseUb /\ main = "published"
    /\ main' = "filling"
    /\ ready' = ready \cup {hbasePool}
    /\ UNCHANGED <<filled, hbasePool, pools, freedPools, queue, conns, closed, thread_vars,
                   history_vars, hbaseUb>>

\* One turn of the loop of Init, with the lock.
Fill ==
    /\ ~hbaseUb /\ main = "filling"
    /\ conns' = conns + 1
    /\ queue' = [queue EXCEPT ![hbasePool] = Append(@, conns + 1)]
    /\ filled' = filled + 1
    /\ main' = IF filled + 1 = HbaseInitCount THEN "run" ELSE "filling"
    /\ UNCHANGED <<hbasePool, pools, ready, freedPools, closed, thread_vars, history_vars,
                   hbaseUb>>

\* A thread is in PopConn or PushConn, which take the pool's lock; its destructor does not.
InPool == \E t \in HbaseThreads : hbaseAt[t] \in {"pop", "push"}

\* ReleaseInstance, with the static lock: the pool's destructor closes and deletes what is
\* queued, which is undefined while another thread changes the queue ...
ReleaseInstance ==
    /\ ~hbaseUb /\ main = "run"
    /\ main' = "releasing"
    /\ freedPools' = freedPools \cup {hbasePool}
    /\ closed' = closed \cup {queue[hbasePool][i] : i \in DOMAIN queue[hbasePool]}
    /\ queue' = [queue EXCEPT ![hbasePool] = <<>>]
    /\ late' = (late \/ \E t \in HbaseThreads : hbaseAt[t] # "out")
    /\ hbaseUb' \in IF InPool THEN BOOLEAN ELSE {FALSE}
    /\ UNCHANGED <<filled, hbasePool, pools, ready, conns, thread_vars, early>>

\* ... and then the pointer is set to NULL.
ReleasePointer ==
    /\ ~hbaseUb /\ main = "releasing"
    /\ main' = "released"
    /\ hbasePool' = 0
    /\ UNCHANGED <<filled, pools, ready, freedPools, queue, conns, closed, thread_vars,
                   history_vars, hbaseUb>>
-----------------------------------------------------------------------------
\* The constructor and the destructor of an accessor begin.
Construct(t) ==
    /\ HbaseGo(t, "out", "ctor")
    /\ early' = (early \/ main \in {"start", "published", "filling"})
    /\ late' = (late \/ main \in {"releasing", "released"})
    /\ UNCHANGED <<main, filled, pool_vars, ptr, mine, hbaseUb>>

Destroy(t) ==
    /\ HbaseGo(t, "held", "dtor")
    /\ UNCHANGED <<main, filled, pool_vars, ptr, mine, history_vars, hbaseUb>>

\* GetInstance: the test without the lock, the creation with it, and the pointer
\* is read again to be returned.
Test(t) ==
    /\ \/ HbaseGo(t, "ctor", IF hbasePool = 0 THEN "ctorLock" ELSE "ctorGet")
       \/ HbaseGo(t, "dtor", IF hbasePool = 0 THEN "dtorLock" ELSE "dtorGet")
    /\ UNCHANGED <<main, filled, pool_vars, ptr, mine, history_vars, hbaseUb>>

Create(t) ==
    /\ main # "releasing"
    /\ HbaseGo(t, "ctorLock", "ctorGet") \/ HbaseGo(t, "dtorLock", "dtorGet")
    /\ CreateIfNull
    /\ UNCHANGED <<main, filled, ready, freedPools, queue, conns, closed, ptr, mine,
                   history_vars, hbaseUb>>

GetInstance(t) ==
    /\ HbaseGo(t, "ctorGet", "pop") \/ HbaseGo(t, "dtorGet", "push")
    /\ ptr' = [ptr EXCEPT ![t] = hbasePool]
    /\ UNCHANGED <<main, filled, pool_vars, mine, history_vars, hbaseUb>>

\* mutant of PopConn: the connection stays in the queue
PopConnKept(t) ==
    /\ HbaseGo(t, "pop", "held")
    /\ IF Usable(ptr[t])
       THEN LET q == queue[ptr[t]]
                c == IF q = <<>> THEN conns + 1 ELSE Head(q)
            IN /\ mine' = [mine EXCEPT ![t] = c]
               /\ conns' = IF q = <<>> THEN conns + 1 ELSE conns
               /\ UNCHANGED <<queue, hbaseUb>>
       ELSE hbaseUb' = TRUE /\ UNCHANGED <<mine, queue, conns>>
    /\ UNCHANGED <<main, filled, hbasePool, pools, ready, freedPools, closed, ptr, early, late>>

\* PopConn: the front of the queue, or a new connection.
PopConn(t) ==
    /\ HbaseGo(t, "pop", "held")
    /\ IF Usable(ptr[t])
       THEN LET q == queue[ptr[t]]
                c == IF q = <<>> THEN conns + 1 ELSE Head(q)
            IN /\ mine' = [mine EXCEPT ![t] = c]
               /\ queue' = IF q = <<>> THEN queue ELSE [queue EXCEPT ![ptr[t]] = Tail(q)]
               /\ conns' = IF q = <<>> THEN conns + 1 ELSE conns
               /\ UNCHANGED hbaseUb
       ELSE hbaseUb' = TRUE /\ UNCHANGED <<mine, queue, conns>>
    /\ UNCHANGED <<main, filled, hbasePool, pools, ready, freedPools, closed, ptr, early, late>>

\* PushConn: the connection goes to the back of the queue.
PushConn(t) ==
    /\ HbaseGo(t, "push", "out")
    /\ IF Usable(ptr[t])
       THEN /\ queue' = [queue EXCEPT ![ptr[t]] = Append(@, mine[t])]
            /\ mine' = [mine EXCEPT ![t] = 0]
            /\ UNCHANGED hbaseUb
       ELSE hbaseUb' = TRUE /\ UNCHANGED <<mine, queue>>
    /\ UNCHANGED <<main, filled, hbasePool, pools, ready, freedPools, conns, closed, ptr,
                   history_vars>>

HbaseNext ==
    \/ InitPool \/ InitMutex \/ Fill \/ ReleaseInstance \/ ReleasePointer
    \/ \E t \in HbaseThreads :
         \/ Construct(t) \/ Destroy(t) \/ Test(t) \/ Create(t) \/ GetInstance(t)
         \/ PopConn(t) \/ PushConn(t)

HbaseSpec == HbaseInit /\ [][HbaseNext]_hbaseVars
-----------------------------------------------------------------------------
InQueue(p) == {queue[p][i] : i \in 1..Len(queue[p])}

\* A connection is once in the queue, with one accessor, or closed: two accessors never
\* call on one HbaseClient, and a connection in use is never closed.
ClientOwnedOnce ==
    /\ \A p \in Pools : \A i, j \in 1..Len(queue[p]) : i # j => queue[p][i] # queue[p][j]
    /\ \A t, u \in HbaseThreads : t # u /\ mine[t] # 0 => mine[t] # mine[u]
    /\ \A p \in Pools : \A t \in HbaseThreads : mine[t] \notin InQueue(p) \cup closed
    /\ \A p \in Pools : InQueue(p) \cap closed = {}

\* A program whose accessors are all constructed after InitPool has returned, and destroyed
\* before ReleaseInstance, never locks a mutex that was not initialised and never uses a
\* pool that is gone.
SafeBetween == hbaseUb => early \/ late

=============================================================================
