------------------------------ MODULE ConnPool ------------------------------
(***************************************************************************)
(* The connection pools of base/db/base_db_mysql_auto (MysqlDBPool) and    *)
(* base/dic/base_dic_redis_auto (RedisPool), and the objects that borrow   *)
(* from them: AutoMysqlCommEngine and AutoDicCommEngine pop an engine in   *)
(* their constructor, hand it out through GetDBEngine / GetDicEngine, and  *)
(* push it back in their destructor.  The two pools differ in the loop     *)
(* bound of Init and in the engines: MysqlStorageEngineImpl forgets a      *)
(* connection it closes, RedisStorageEngineImpl keeps a dangling pointer.  *)
(*                                                                         *)
(* Undefined behaviour (a ping on no connection or on a freed one, a       *)
(* missing engine that is used, a lock that is freed while it is held) may *)
(* set ub; a failed assertion sets aborted.  Both end a behaviour.         *)
(***************************************************************************)
EXTENDS Integers, Sequences, FiniteSets

CONSTANTS
  Kinds,       \* the pools: "mysql", "redis"
  Threads,     \* threads with an automatic engine object
  ConnNum,     \* the parameter db_conn_num / conn_num of Init
  Null         \* a NULL engine pointer

ASSUME ConnPoolAssumption ==
  /\ Kinds \subseteq {"mysql", "redis"}
  /\ IsFiniteSet(Threads)
  /\ ConnNum \in Nat
  /\ Null \notin Nat

VARIABLES
  kind,        \* which of the two pools this is
  pool,        \* db_conn_pool_ / dic_conn_pool_
  conn,        \* the connection of each engine
  made,        \* engines created by Init
  at,          \* where each thread is in the life of its object
  engine,      \* engine_ of each thread's object
  ub, aborted

vars == <<kind, pool, conn, made, at, engine, ub, aborted>>

\* Init creates ConnNum engines, or one more: i < db_conn_num, i <= conn_num
InitCount == IF kind = "redis" THEN ConnNum + 1 ELSE ConnNum

Engines == 1 .. ConnNum + 1
Running == ~ub /\ ~aborted

Init ==
  /\ kind \in Kinds
  /\ pool = <<>> /\ made = 0
  /\ conn = [e \in Engines |-> "none"]
  /\ at = [t \in Threads |-> "idle"]
  /\ engine = [t \in Threads |-> Null]
  /\ ub = FALSE /\ aborted = FALSE
-----------------------------------------------------------------------------
\* MysqlDBPool::Init, RedisPool::Init, one turn of the loop.  A connection that cannot
\* be made fails an assertion: in Init itself, or in RedisSelectDB.
InitTurn ==
  /\ Running /\ made < InitCount
  /\ made' = made + 1
  /\ \/ /\ conn' = [conn EXCEPT ![made + 1] = "open"]
        /\ pool' = Append(pool, made + 1)
        /\ UNCHANGED aborted
     \/ /\ aborted' = TRUE
        /\ UNCHANGED <<conn, pool>>
  /\ UNCHANGED <<kind, at, engine, ub>>

\* mutant of Pop: the engine stays in the pool
PopKept(t) ==
  /\ Running /\ made = InitCount /\ at[t] = "idle"
  /\ engine' = [engine EXCEPT ![t] = IF pool = <<>> THEN Null ELSE Head(pool)]
  /\ at' = [at EXCEPT ![t] = "held"]
  /\ UNCHANGED <<kind, pool, conn, made, ub, aborted>>

\* The constructor: DBConnectionPop, RedisConnectionPop.
Pop(t) ==
  /\ Running /\ made = InitCount /\ at[t] = "idle"
  /\ engine' = [engine EXCEPT ![t] = IF pool = <<>> THEN Null ELSE Head(pool)]
  /\ pool' = IF pool = <<>> THEN pool ELSE Tail(pool)
  /\ at' = [at EXCEPT ![t] = "held"]
  /\ UNCHANGED <<kind, conn, made, ub, aborted>>

\* GetDBEngine, GetDicEngine without an engine: the mysql callers test the result, the
\* redis callers use it.
GetNull(t) ==
  /\ Running /\ at[t] = "held" /\ engine[t] = Null
  /\ at' = [at EXCEPT ![t] = "failed"]
  /\ ub' = (kind = "redis")
  /\ UNCHANGED <<kind, pool, conn, made, engine, aborted>>

\* GetDBEngine, GetDicEngine: engine_->Release() closes the connection; redisFree of a
\* connection that was freed before is undefined.
Release(t) ==
  /\ Running /\ at[t] = "held" /\ engine[t] # Null
  /\ ub' = (conn[engine[t]] = "freed")
  /\ conn' = [conn EXCEPT ![engine[t]] = IF kind = "redis" THEN "freed" ELSE "closed"]
  /\ at' = [at EXCEPT ![t] = "released"]
  /\ UNCHANGED <<kind, pool, made, engine, aborted>>

\* GetDBEngine returns the engine when Connections succeeded, else NULL
Reconnected(ok) == ok

\* CheckConnect says the connection is lost, Connections(addrlist_): the server accepts
\* or refuses.  A refused redis connection fails the assertion in RedisSelectDB.
Reconnect(t, ok) ==
  /\ Running /\ at[t] = "released"
  /\ IF ok THEN conn' = [conn EXCEPT ![engine[t]] = "open"] ELSE conn' = conn
  /\ aborted' = (~ok /\ kind = "redis")
  /\ at' = [at EXCEPT ![t] = IF Reconnected(ok) THEN "ready" ELSE "failed"]
  /\ UNCHANGED <<kind, pool, made, engine, ub>>

\* CheckConnect says it is alive: possible only for the freed redis connection.
CheckStale(t) ==
  /\ Running /\ at[t] = "released" /\ kind = "redis"
  /\ at' = [at EXCEPT ![t] = "ready"]
  /\ UNCHANGED <<kind, pool, conn, made, engine, ub, aborted>>

\* CheckConnect crashes: mysql_ping(NULL), or PING on freed memory.
CheckCrash(t) ==
  /\ Running /\ at[t] = "released"
  /\ ub' = TRUE
  /\ UNCHANGED <<kind, pool, conn, made, at, engine, aborted>>

\* The server drops a connection.
ServerDrops(e) ==
  /\ Running /\ conn[e] = "open"
  /\ conn' = [conn EXCEPT ![e] = "lost"]
  /\ UNCHANGED <<kind, pool, made, at, engine, ub, aborted>>

\* mutant of Push: an engine that could not be used is not given back
PushReadyOnly(t) ==
  /\ Running /\ at[t] \in {"ready", "failed"}
  /\ pool' = IF at[t] = "ready" THEN Append(pool, engine[t]) ELSE Append(pool, Null)
  /\ engine' = [engine EXCEPT ![t] = Null]
  /\ at' = [at EXCEPT ![t] = "idle"]
  /\ UNCHANGED <<kind, conn, made, ub, aborted>>

\* The destructor: DBConnectionPush, RedisConnectionPush, also of a NULL.
Push(t) ==
  /\ Running /\ at[t] \in {"ready", "failed"}
  /\ pool' = Append(pool, engine[t])
  /\ engine' = [engine EXCEPT ![t] = Null]
  /\ at' = [at EXCEPT ![t] = "idle"]
  /\ UNCHANGED <<kind, conn, made, ub, aborted>>

\* Dest: the engines of the pool are released and deleted, and the lock is freed before
\* the guard unlocks it.
Dest ==
  /\ Running /\ made = InitCount
  /\ pool' = <<>>
  /\ conn' = [e \in Engines |-> IF \E i \in 1 .. Len(pool) : pool[i] = e THEN "deleted" ELSE conn[e]]
  /\ ub' = TRUE
  /\ UNCHANGED <<kind, made, at, engine, aborted>>

Next ==
  \/ InitTurn
  \/ \E t \in Threads :
       \/ Pop(t) \/ GetNull(t) \/ Release(t) \/ CheckStale(t) \/ CheckCrash(t) \/ Push(t)
       \/ \E ok \in BOOLEAN : Reconnect(t, ok)
  \/ \E e \in Engines : ServerDrops(e)
  \/ Dest

Spec == Init /\ [][Next]_vars
-----------------------------------------------------------------------------
\* An engine is once in the pool or with one thread, never both: two threads never share
\* a connection.
OwnedOnce ==
  /\ \A i, j \in 1 .. Len(pool) : i # j /\ pool[i] # Null => pool[i] # pool[j]
  /\ \A t, u \in Threads : t # u /\ engine[t] # Null => engine[t] # engine[u]
  /\ \A t \in Threads, i \in 1 .. Len(pool) : engine[t] # Null => engine[t] # pool[i]

\* No engine that Init put in the pool is ever lost.
NoneLost ==
  Running =>
    \A e \in 1 .. made : \/ \E i \in 1 .. Len(pool) : pool[i] = e
                         \/ \E t \in Threads : engine[t] = e

\* Every engine that Init made is in exactly one place, the pool or the hands of one
\* thread, whatever fails between a pop and its push.
EngineInOnePlace == OwnedOnce /\ NoneLost

\* The NULLs that failed pops leave in the pool are at most as many as there are threads
\* without an engine of their own: with an engine for every thread no pop ever fails.
NullsBounded ==
  LET inPool == Cardinality({i \in 1 .. Len(pool) : pool[i] = Null})
      inHand == Cardinality({t \in Threads : at[t] # "idle" /\ engine[t] = Null})
  IN  Running => inPool + inHand <= IF Cardinality(Threads) > InitCount
                                    THEN Cardinality(Threads) - InitCount ELSE 0

\* Getting an engine frees surplus result sets (base_db_mysql_auto.h:38) and reconnects
\* a lost connection (:39): a connection that works is left alone.
WorkingConnectionKept ==
  [][\A e \in Engines : conn[e] = "open" => conn'[e] \in {"open", "lost", "deleted"}]_vars
=============================================================================
