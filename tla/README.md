# TLA+ models of mylib

mylib is the C and C++ library behind the servers of its authors: containers, threads and storage
clients in `src/public`, and in `src/base` the services built on them (database, cache, map, push
and weather clients).  `src/third_party` holds vendored libraries and is not modelled.

The models cover the parts in which the order of steps matters: the buffers that lend memory, the
thread pool, four pools of connections, the HBase client and server, the address cache and the map
client, the allocation checker and the value trees.  Each model keeps the control of the source and
abstracts the data; `PROJECT.json` ("map") gives the lines every definition stands for.

## The parts of the system

| part | source | model |
|---|---|---|
| byte buffers | `public/comm/buffer.h` | `FixedBuf`, `CycBuf`, with `BufBase` in common; `ByteFifo` is what they promise |
| thread pool | `public/thread/base_threadpool.c` | `ThreadPool` (threads, mutex, calls), `TaskQueue` (order of tasks) |
| automatic engines and their pools | `base/db`, `base/dic` | `ConnPool` |
| mysql data engine and its pool | `base/storage` | `StoragePool` |
| HBase pool and accessors | `public/hbase_storage/hbase_conn_pool.cc`, `hbase_accessor.cc` | `HbasePool` |
| HBase client and server | `public/hbase_storage/gen-cpp` | `HbaseStructs`, `ThriftStruct`, `HbaseMethods`, composed in `HbaseRpc` and in `HbaseConcurrent` |
| location service | `base/lbs/location_server.cc`, `lbs_dic_comm.cc`, `basic_lbs_info.cc` | `LocationCache` |
| map client | `base/lbs/lbs_baidu_connector.cc`, `basic_lbs_info.h` | `AccessKeys` |
| allocation checker | `public/check` | `RbTree` (the tree), `MemCheck` (new and delete) |
| values | `base/logic/base_values.cc` | `Values` |

They interact as follows.  Clients of a database or of redis construct an automatic engine object,
which pops an engine from a pool and pushes it back when it dies; an `HbaseAccessor` does the same
with an HBase connection, on which it then makes the calls of the generated client.  The location
service asks memcached for an address and, on a miss, the map client, which picks one of several
access keys for each request.  Threads that make these calls come from the thread pool.
`core_interface` reads answers from a socket into a `fixed_buf` through a write loan.

## Modules

A definition whose comment says "mutant of" is a plausible mistake in the code; the module never
uses it.  It is there to show that a property notices the mistake.

**FixedBuf** and **CycBuf**.  The state is one record for the object (`gen` counts allocations, so
that a pointer is a generation and an offset) and what the last `wlock` and `rlock` lent.  There is
an action per member function; `Fill` is the caller that stores into memory it was lent.  `CycBuf`
has the template parameter `_Elastic` as a field, so one model covers both instantiations.
`_repos`, which rotates the ring in place by overlapping moves, is a pure operator with one
definition per case.  `ByteFifo` is the abstract queue: append at one end, remove at the other.

**ThreadPool**.  Workers run `thread_pool_func`; clients call `base_threadpool_*`.  A critical section
is one step, cut wherever a variable that other threads write without the mutex (`terminated`,
`idle_max`, `thd_max`, `idle_cnt`) is read again.  `lock` is the worker that holds the mutex between
two of its steps.  Which queued task is popped is left open here and is the subject of **TaskQueue**,
which has the ring of tasks, the index `task_idx` of the first task of each of the four priority
segments, and the scheduled ring.

**ConnPool**.  `kind` chooses the mysql or the redis pool, which differ in the bound of the loop of
`Init` and in what `Release` leaves behind.  A thread constructs its object (`Pop`), asks for the engine
(`Release`, then `Reconnect`, `CheckStale` or `CheckCrash`: `GetDBEngine` closes the connection and then
tests it), and destroys it (`Push`).  **StoragePool** is the other mysql pool, whose size test is outside
the lock.  **HbasePool** is the singleton of HBase connections: `GetInstance` tests the pointer without
the lock and publishes a pool before its `Init` has run, `PopConn` makes a connection when the queue is
empty, and `ReleaseInstance` may run while accessors are alive.

**HbaseStructs**, **ThriftStruct**, **HbaseMethods**.  The generated code is regular.  What differs
between two structures is data: their fields, with id, type and whether they are optional, in
`HbaseStructs`; what differs between two methods (name on the wire, structures, exceptions in the
order they are tested, a value or none) is a record of `HbaseMethods`, one for the client and one for
the processor.  What the generated code does with them is written once: `WriteStruct` and `ReadStruct`
in `ThriftStruct`, and the two ends in `HbaseRpc`.  A reader skips a field whose id or type it does
not expect, as `read()` does.

**HbaseRpc** composes one `HbaseClient` and one `HbaseProcessor` over two streams of headers and
structures.  The peer may be older or newer than the client, and the connection may be lost at any
time.  **HbaseConcurrent** is `HbaseConcurrentClient` under several threads: a thread that reads
the header of another thread's reply leaves it pending, notifies that thread and waits.  The
library's synchronisation object is not in the repository; its part is modelled from the calls of
`send_X` and `recv_X` and marked external.

**LocationCache**.  `GeocoderForAddress` step by step, with memcached and the map service as an
environment that forgets, fails and recovers.  The address of a place is the place itself, so an
answer shows for which place it was obtained.  The conversion of a coordinate to its part of a key is
modelled by what it does.  A coordinate is a number of millionths of a degree.  `DoubleToString` prints
six significant digits (`LastDigit`, `Rounded`), without a point when all the decimals are zeros
(`HasPoint`), and with an exponent below a ten thousandth of a degree (`Scientific`); `LocationToKey` cuts
the text behind the first decimal, or behind its first character when there is no point (`Coordinate`).
A coordinate halfway between two printed values goes the way of the double next to it; the constant
`TiesUp` says which.  Coordinates of more than six decimals, and a negative zero, have no counterpart.

**AccessKeys**.  The three request loops, the choice of the least used key and the reference count of
`BaiDuAccessKey`, whose increments are a load and a store because they are not atomic.  The comparison
of two use counts is one step; the code loads them one after the other.

**RbTree** is `rbtree.cc` as functions of a tree (insertion, removal, both rebalancings, rotation,
iteration), the two mirrored branches of the code written once with a side.  **MemCheck** runs it under
`operator new` and `delete` of several threads, from before the constructor of the one
`DebugMemCheck` object to after its destructor, which takes no lock.

**Values**.  Dictionaries and lists on a small heap, with who owns what: an action per call that
creates, gives away, takes back, copies, merges or deletes a value.

Undefined behaviour (a lock that is not initialised or already freed, a use of deleted memory, a call
with wrong arguments) sets `ub` in the module concerned.  It ends the behaviour, and nothing is claimed
afterwards; where a property says that it cannot happen, the property is about `ub`.

## Runs

Components that never meet share a run when they are small: `MCContainers`, `MCPools` and `MCTrees`
choose one of them initially (`part`) and follow it, with a disjunct for each action of its
next-state relation; all the other variables keep their initial values.  An MC module extends the
modules of its parts, so a run checks the very definitions that the theorems state.  For that the names
that components of one run would share have a prefix: `Ring` in `CycBuf`, `Lists` in `TaskQueue`, `db` in
`StoragePool`, `hbase` in `HbasePool`, `key` in `AccessKeys`.

| run | shows | bounds |
|---|---|---|
| `containers` | `fixed_buf` implements `ByteFifo`; its write loans fit unless taken under a read loan, read loans stay put, `wunlock` delivers what was stored. With one loan at a time `cyc_buf` is a FIFO across wrap, growth and relocation, its loans are exact, and `_repos` keeps every byte. In the task lists `task_idx` never dangles, tasks keep their order, and with one priority to a segment the ring is sorted | two byte values; `fixed_buf` of 4 bytes growing to 8, lengths 0, 1, 3; ring of 4 growing to 8, lengths 1, 2; `_repos` on all 120 wrapped positions of a 16-byte ring, which reach its five cases; 4 tasks of 2 owners, queue of 3, priorities {10, 20, 70} (two in a segment) or {10, 70, 200} |
| `pool` | one place per task, an exact thread count, no lost wake-up, `cancel_tasks` complete, memory freed late enough; accepted tasks run and calls return | 3 threads, 2 clients, 2 tasks of 2 owners, queue of 2, 2 control calls; pools started with (0, 0) and (1, 2) threads |
| `pool_limits` | `idle_cnt` is the length of the idle ring while two clients change the limits and threads fail to start | 2 threads, 2 clients, 2 tasks, one timed, 2 changes |
| `pools` | no connection shared; in `ConnPool` none lost and the NULLs in the pool bounded; in `StoragePool` only failed writes lose one, and with an engine for every thread the size read before the lock is still right under it; `HbasePool` is safe for accessors that live between `InitPool` and `ReleaseInstance`; access keys take turns, `AddressForGeocoder` makes at most four requests, each with its own url, and without overlap no key is deleted | `ConnPool`: 1 mysql or 2 redis engines, 3 threads; `StoragePool`: 3 engines, 3 threads, 5 calls; `HbasePool`: num 1 (the code raises it to 2), 3 threads; `AccessKeys`: 2 keys, 2 threads, 2 calls, 2 attempts where the code has no bound |
| `location_cache` | answers come from nearby; an empty address leaves the cache | 2 threads, 2 days, 3 places: 120.1994 and 120.0996 share the key 120.1, from its two ends and one of them because it is rounded; 120.0004 is printed as 120 and has the key 1 |
| `hbase_rpc` | the handler gets the call's arguments, the caller the handler's outcome, and every call ends | every method and structure, two sets of arguments; a server of the same, an older (two methods missing) and a newer version |
| `hbase_concurrent` | a thread gets the reply to its own request; threads and stream agree on what comes next; every call ends | 3 threads with one call each, 2 with two calls, 2 with every kind of reply, 1 with every method; 5 sequence numbers, which roll over |
| `trees` | the checker's tree is a red-black tree of exactly the pointers in use, and only memory older than the checker escapes it; every value has one owner, a value that was set is read back, `Equals` compares contents, and merging is safe except with a descendant | 6 pointers, 2 threads, 1 allocation before the checker is on; 4 cells, keys `a`, `a.b`, `b`, two scalars |
| `conn_pool_release` | **violated**: `GetDBEngine` closes a working connection | 1 engine, 2 threads |
| `location_delete` | **violated**: a hit deletes an entry of the same day | 1 place, 6 days |
| `access_keys_race` | **violated**: lost updates of a reference count delete a key of the list | 2 threads, 2 keys, 3 calls |
| `values_merge` | **violated**: `MergeDictionary` hooks up an empty dictionary instead of a copy | 5 cells |

The bounds are the smallest with which the cases of interest happen: a ring that wraps and grows
once, one thread more than the limit, more threads than connections, two owners, two priorities
within a segment, a sequence number that is used again, a tree with which every branch of
`__rb_erase_color` is taken (five pointers miss one).  Every action of every module fires in these runs.

Two state constraints stop TLC from following a state further, after its invariants are checked.  In
`containers` a ring whose loans were mixed, or that lost its free byte, is not followed: nothing is
claimed of it.  In `trees` two threads at once, or memory older than the checker, are followed while
fewer than four pointers are taken; the shapes that need all six pointers are built by one thread at a
time.  Interleavings of two threads in larger trees are therefore not covered.

Symmetry is used where the permuted values are alike in the model: the byte values and owners in
`containers`, two of the threads in `pools`, `conn_pool_release` and `access_keys_race`, the threads
in `location_delete`.  Those runs check invariants and action properties only; a run with a liveness
property has no symmetry.

Deadlock is not checked where the bounded calls come to an end, or where undefined behaviour ends the
behaviour.  `hbase_rpc` and the two runs of `LocationCache` check it.

The four violated properties are what comments in the code say; `PROJECT.json` ("findings") quotes
them.  Some properties hold only under a condition, and are stated with it:

* `SortedByPriority` needs one priority to a segment.  With two, `add_task` puts a task in front of
  `task_idx[seg]` without moving the index, and `top` then starts behind it.
* `FifoWhileSound`, `LoansExact`: emptying a ring that was filled exactly up to its end makes `size()`
  of `cyc_buf` return `_total`; such a ring is no longer `sound`.
* `FreedAfterThreadsLeft`: `deinit` does not wait for the exit of the threads, only for the count,
  which a thread decrements before its last unlock.
* `AnswerNearby` is about coordinates that are printed with decimals.  Of one that is whole, or rounded
  to a whole one (120.0004), the key keeps one character, and the answer may come from tens of degrees
  away; one with an exponent (0.000051, printed 5.1e-05) has the key of one of some degrees (5.1).
* `AddressRequests` is about one of three loops: the others neither count attempts nor empty the url.
* `FrontSafe` needs as many engines as threads.
* `SafeBetween` is about accessors that overlap neither `InitPool` nor `ReleaseInstance`: the others can
  lock a mutex that is not initialised or call a pool that is deleted.
* `EqualsIsSameTree` is about values without dictionaries in them.
* `OutcomeIsHandlers`: a void method takes a result with nothing it knows for success.

## Fairness

`ThreadPool` (`FairSpec`): weak fairness of the initialisation, and strong fairness of every worker and
of the steps inside a call.  The operating system runs every runnable thread, the function of a task
returns, and a thread waiting for the mutex is not starved for ever; the mutex is free only now and
then, which is why the fairness is strong.  The condition variable is not assumed to wake anybody
without a signal.

`LocationCache` (`FairSpec`): threads are scheduled (weak); each key is asked for again and again, and
memcached does not fail every lookup and every deletion of one key (strong).  This is an assumption
about the users and about memcached.  Nothing is assumed of the map service: the property only speaks
of behaviours in which it answers from some time on.

`HbaseRpc`: weak fairness of the client's thread and of the server.  `HbaseConcurrent`: weak fairness of
every thread and of the server.  The server reads its requests and answers them unless the connection
is lost, and a loss is noticed by whoever reads.  The client sets no timeout on its socket
(`hbase_conn_pool.cc:26`), so with a server that stays connected and silent a call does not end; that
is the case the fairness of the server leaves out.

## Proofs

The proofs hold for every value of the constants that satisfies the named assumption of the module, or
the hypotheses the theorem states.

**FixedBufProofs**: `TypeCorrect` (the fill position is inside the allocation), `ReaderGetsStoredBytes`
(only stored bytes are readable), `LoanInsideAllocation`, and from it `OverrunOnlyFromReadLoan`: a
caller that stores no more than it asked for leaves the allocation only if it took its loan under a
read loan.  `OnlyStoredBytes` is not inductive: `wunlock` makes bytes readable that the caller stored
earlier.  The invariant adds that the lent region still holds what was stored there
(`LentRegionKept`), which the comparison of the pointer in `wunlock` and the lock test in `reserve`
preserve.  Lemmas about the helpers carry the arithmetic: growth by half of the capacity, rounded up to
four bytes, covers the request (`GrowCovers`, `AlignCovers`).

On the same invariant rest three results about whole behaviours.  `ImplementsByteFifo`: `FixedBuf`
implements `ByteFifo` under the refinement mapping of `IsByteFifo`, one lemma per operation showing that
its step appends, takes or stutters.  `CommitIsWhatWasStored` (`WUnlockDelivers`) is the case of `wunlock`, from
`LentRegionKept`.  `ReadLoanUntouched` (`ReadLoanStable`) needs one more invariant, that what a read loan
covers is below `_ppos` (`ReadLoanFilled`): otherwise a `write` at `_ppos` could change it.

**CycBufProofs**, for every alphabet, size of the ring, length and sequence of calls (hypothesis
`Arguments`: sizes and lengths are natural numbers): `ReposKeepsContents`, `RingIsByteFifo`
(`FifoWhileSound`) and `LoansAreExact` (`LoansExact`).  The model is `sound` while callers take one
loan at a time and a byte of the ring stays free.  The invariant `IInv` says that a sound ring has its shape
(`RingOK`), that not both loans are out, that a write loan starts at `_pend`, ends inside the
allocation and leaves the free byte, and that a read loan shows the bytes it was taken for.  The ring
is reasoned about byte by byte: `At(b, k)` is the k-th oldest byte wherever the ring wraps, and every
operation is shown to keep the oldest bytes and add (`Extends`) or to keep the newest (`Drops`).  For
`_repos` this is one lemma for each of its cases, of which two end in a second call.

**ThreadPoolProofs**, for any number of threads, clients and tasks: `MutexExclusive`, `TaskRunOnce`,
`ThreadCountExact`, `PoolFreedLast` (`FreedAfterThreadsLeft`), `IdleCountExact` (`IdleCounted`) and
`CancelWaitsForAll` (`CancelComplete`).  The first three rest on an invariant that adds the types and
`HandsMatch`: a worker has a task in its hand only between popping it and finishing it.  Without it
neither `Enter` nor `Finish` could be shown not to overwrite a task.  The last three rest on a second
one, about calls.  A pool that is being closed stays so, is closed by one call, and was closed after its
initialisation was over (`StaysClosing`, `ClosedAfterInit`): so nothing starts a thread between the
unlocked read of a `thd_cnt` of 0 and the release of the memory.  A worker with a task that runs is in the busy ring
(`BusyRing`), and what `cancel_tasks` still waits for belongs to its owner and was taken from the queue
(`MustTracked`): so the empty search of the busy ring means that all of it has ended.

**TaskQueueProofs**, for any number of tasks and owners and any workload of priorities: `IndexIsSound`
(`IndexSound`), from an invariant that only adds the types and that no two tasks have one id
(`Numbered`).  For priorities from 0 to 255 (hypothesis `EightBits`) `OrderIsKept` (`TasksInOrder`) and
`RingIsSorted` (`SortedByPriority`).  The hypothesis is what the segments are made for: a segment is
taken from the low 8 bits of the priority while the loops of `add_task` compare the whole `int`.  The
index can go astray, past tasks of its own segment or to NULL while there are some, and the invariant
says how far: every task of a higher segment is in front of the task it points to (`Behind`), and from
there on the tasks of its segment come first and fall in priority (`Falling`).  So `add_task` puts a
task behind all pushed ones of its priority.  With one priority to a segment the index does not go
astray: in front of each task, or in its place, is the task that the index of its segment points to
(`Led`).  Positions are found with the smallest element of a set of numbers (`Smallest`), and what
`cancel_tasks` leaves is described by the increasing map of positions from the new ring to the old
(`Without`; `WithoutExists` shows that there is always one), so no recursion is needed.

**PoolProofs**, first for `ConnPool`: `EveryEngineInOnePlace`, for either pool, from `ConnectionExclusive` (no engine is in
two places) and `NoConnectionLost` (none is in no place).  The invariant adds that no engine above the
loop counter of `Init` is anywhere yet (`Fresh`), and that a thread without an object holds no engine
(`IdleEmpty`); the first is what makes the appended engine new, the second what makes `Pop` lose
nothing.  `NullsStayBounded` (`NullsBounded`), for any finite set of threads, is a counting argument: the length of the
pool and the threads with an object are together the engines made and the NULLs in circulation
(`Conserved`), and a NULL is only added by a thread that finds the pool empty.

Then for `StoragePool` with any finite numbers of engines and threads (hypothesis `DbFinite`):
`EnginesAccountedFor` (`LostOnlyByWrite`) and `UnlockedSizeIsEnough` (`FrontSafe`).  The invariant adds what a thread's variable holds at each point
of its call (`Hands`).  `FrontSafe` then follows by counting: with the list empty, every engine is held
or dropped, and the thread at `front()` holds none.

**LbsProofs**, first for `LocationCache` with any threads and days, any places with coordinates in whole
millionths of a degree and any `TiesUp`: `AnswersAreNear` (`AnswerNearby`).  The invariant follows the address from the request
through the cache to the answer: what is cached under a key, found there or returned was obtained for a
place of that key (`CacheKeyed`, `EntryKeyed`, `AnswerKeyed`).  What is left is about the conversion
(`RoundedNear`, `CoordinateNear`): the printed value is at most half a unit of its last digit away and
a multiple of that unit, which divides a tenth of a degree, and of two coordinates the larger has no
smaller unit; so the two roundings together do not exceed the last unit that the cut leaves free.  Then for `AccessKeys` with any threads, calls and attempts and at
least one key (hypothesis `KeyList`): `KeysOutliveCalls` (`KeyAliveAlone`),
`FourRequestsOneKeyEach` (`AddressRequests`) and `KeysTakeTurns` (`Balanced`).
For the first the invariant counts the references that the list and the one call hold at every point of
the copies and assignments (`Counted`).  `Balanced` needs a stronger statement about threads that are in
the middle of the scan: the lead of key k over key j, plus the number of calls that have passed j and
are still to add one to a key at least as far ahead as k (`Stale`), is at most the number of threads.

**HbasePoolProofs**, for any threads and any `num`: `ConnectionOwnedOnce` (`ClientOwnedOnce`) and
`SafeBetweenInitAndRelease` (`SafeBetween`).  The invariant numbers the pools (`Numbering`: the one `InitPool` initialises is the first, and at
most one more is made after its release), says where a connection may be (`Places`: queued once, or
held by one accessor, open in either case) and what accessors that overlap neither end see
(`Overlap`: they are on the first pool, and outside it while it is not running).

**HbaseConcurrentProofs**: `OneReader` (one thread inside the region of the read mutex),
`ReadersAligned` (`StreamAligned`) and `RepliesReachTheirCalls` (`OwnReply`), for any threads, plans and
number of sequence numbers, and any interface (`Interface`) whose methods are called by their own names on
the wire (`NamesAssumption`, which TLC evaluates on the methods of `HbaseMethods`).
`StreamAligned` only speaks of the next item of the stream.  The invariant adds that headers and
structures alternate and that a connection that is up delivers whole replies (`Alternating`), that the
mutex is held by the one thread that reads (`ReadMutexHeld`), and that a header is pending only while no
thread has one (`PendingAlone`): without the last, a thread could take the structure of a pending
header.  For `OwnReply` a second invariant says where every message under way is: calls have monitors
and numbers of their own (`NumbersDiffer`), a structure is of the header before it (`Paired`), a thread
waits for every request and reply under way (`Owned`), and a number is under way once, in one place
(`OnePlace`).  The theorem assumes of the numbers, which roll over, that a call that begins gets one
without a monitor (`NumberFree`); it would take a thread that waits while 2^32 other calls begin to break
this.  The run `hbase_concurrent` rolls the numbers over and shows `OwnReply` without the assumption.

`TypeOK` and `OnlyStoredBytes` of `FixedBuf`, `MutexHeld` of `ThreadPool` and `OneReader` are proved and
not listed in a run.  Only model-checked:

* all liveness properties, which are out of reach of the prover;
* `Values`, `HbaseRpc`, `MemCheck` and `RbTree`: what they say is about recursive definitions (trees,
  nested structures) and needs induction over data, which the prover cannot do.  (`ReposRotates`, which a run checks on small rings, is in general `ReposKeepsContents`.)

## Hazards without a property

`PROJECT.json` ("hazards") lists where the code is exposed and which property would notice.  Some have
no property, because the code does what one would fear and no property can say otherwise:

* a write loan taken under a read loan may be longer than the room there is (`buffer.h:473`), the ring
  that met its boundary is no longer sound (`buffer.h:158`), loans of a ring that overlap (`:236`);
* `deinit` may free the mutex before the last unlock (`base_threadpool.c:325`), a thread without memory
  stays counted (`:240`), the join of a trimmed thread has its arguments swapped (`:658`);
* `front()` of a list that became empty (`mysql_pool.cc:49`), `Dest` freeing a lock that threads use
  (`base_db_mysql_auto.cc:89`), accessors that overlap `InitPool` or `ReleaseInstance`
  (`hbase_conn_pool.cc:150`, `:161`);
* coordinates without a printed point (`lbs_dic_comm.cc:20`);
* a broken HBase connection that goes back to the pool and is used again (`hbase_accessor.cc:22`):
  nothing in the code says what an accessor may expect.

Where a property holds everywhere else, it is stated with that condition: `WriteLoanFits`,
`FifoWhileSound`, `LoansExact`, `FreedAfterThreadsLeft`, `ThreadsCounted`, `FrontSafe`, `SafeBetween`,
`AnswerNearby`.

Met while modelling, and not in the list because they are single-step facts or outside the models:
`RedisClose` leaves its freed context to be pinged later (`redis_warrper.c:418`); a delay that is not
positive leaves the time of the task's union unset (`base_threadpool.c:368`); `IPtoAddress` and
`GeocoderForAddress` never increment their attempt counter (`lbs_baidu_connector.cc:53`); the HBase
pool grows without bound (`hbase_conn_pool.cc:119`); memory that was allocated while the checker was on
and is deleted after its destructor has begun is passed to `free` without its header
(`debugnew.cc:48`, undefined in `MemCheck`).

## Not modelled

The components of `PROJECT.json` with status `not_modelled` say why, part by part.  In short:

* Logging, configuration, file and string helpers, the json, xml and http serializers, the ciphers and
  the wrappers of external libraries convert data or do plain I/O without state that survives a call.
* `core_interface.cc`, the redis-backed message queue and the push client are sequential, and what
  they return is decided by a server.  The parts of them that interleave are in other models: the loan
  in `FixedBuf`, the engine in `ConnPool`, the reference count in `AccessKeys`.
* `data_packet.cc` could be checked as a pure algorithm and has not been.
* The bytes of the thrift protocol and its transport belong to the library.  Reader and writer of a
  structure use one table of its fields, which the generated code has twice.  In `HbaseConcurrent` the
  test `mtype != T_REPLY` is left out: the server sends replies and exceptions only.
* The statistics counters of the thread pool are left out, since only their getters read them.  A delay
  that is not positive (`schedule_task`) is outside `TaskQueue`.  `rb_replace_node`, which nothing
  calls, is left out of `RbTree`, and the buffer of a `BinaryValue` out of `Values`.
* After undefined behaviour no model says anything.
