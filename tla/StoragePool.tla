----------------------------- MODULE StoragePool -----------------------------
(***************************************************************************)
(* The pool of base/storage/mysql_pool.cc (MYSQL_Pool) under the calls of  *)
(* base/storage/data_mysql_engine.cc: WriteData and ReadData pop an        *)
(* engine, execute a statement and push the engine back on some paths.     *)
(* Unlike MysqlDBPool it tests the size of the list before it takes the    *)
(* lock, so front() and pop_front() may meet an empty list.  The unlocked  *)
(* read gives the value before or after a concurrent update (a stored      *)
(* count, as std::list has since C++11).                                   *)
(*                                                                         *)
(* Release closes the connection before every SQLExec, so the lines after  *)
(* a successful SQLExec are never reached and have no action.              *)
(*                                                                         *)
(* The names that other pools have too begin with db here, with hbase in   *)
(* HbasePool and with key in AccessKeys: one module can extend them all.   *)
(***************************************************************************)
EXTENDS Integers, Sequences, FiniteSets

CONSTANTS
  DbEngines,   \* the engines Init created and connected
  DbThreads,
  DbOps,       \* the calls made: "read", "write"
  MaxDbCalls,  \* bound on the number of calls
  DbNull

VARIABLES
  dbPool,      \* db_conn_pool_
  dbAt,        \* where each thread is in its call
  dbOp,        \* the call it is in
  dbEngine,    \* its local variable engine
  dropped,     \* history: engines no variable points to any more
  dbCalls, dbUb

dbVars == <<dbPool, dbAt, dbOp, dbEngine, dropped, dbCalls, dbUb>>

DbInit ==
  /\ dbPool \in {s \in [1 .. Cardinality(DbEngines) -> DbEngines] :
                  \A i, j \in DOMAIN s : i # j => s[i] # s[j]}
  /\ dbAt = [t \in DbThreads |-> "idle"]
  /\ dbOp = [t \in DbThreads |-> "none"]
  /\ dbEngine = [t \in DbThreads |-> DbNull]
  /\ dropped = {} /\ dbCalls = 0 /\ dbUb = FALSE

DbGo(t, from, to) == ~dbUb /\ dbAt[t] = from /\ dbAt' = [dbAt EXCEPT ![t] = to]
-----------------------------------------------------------------------------
\* WriteData without an sql string returns before it pops; ReadData pops first.
DbCall(t, o) ==
  /\ o \in DbOps /\ dbCalls < MaxDbCalls
  /\ DbGo(t, "idle", "size")
  /\ dbOp' = [dbOp EXCEPT ![t] = o]
  /\ dbCalls' = dbCalls + 1
  /\ UNCHANGED <<dbPool, dbEngine, dropped, dbUb>>

\* DBConnectionPop: the size of the list, without the lock
Size(t) ==
  /\ DbGo(t, "size", IF dbPool = <<>> THEN "popped" ELSE "front")
  /\ dbEngine' = [dbEngine EXCEPT ![t] = DbNull]
  /\ UNCHANGED <<dbPool, dbOp, dropped, dbCalls, dbUb>>

\* DBConnectionPop, with the lock: front and pop_front of an empty list are undefined
Front(t) ==
  /\ DbGo(t, "front", "popped")
  /\ IF dbPool = <<>>
     THEN /\ dbUb' = TRUE
          /\ UNCHANGED <<dbPool, dbEngine>>
     ELSE /\ dbEngine' = [dbEngine EXCEPT ![t] = Head(dbPool)]
          /\ dbPool' = Tail(dbPool)
          /\ UNCHANGED dbUb
  /\ UNCHANGED <<dbOp, dropped, dbCalls>>

\* mutant of NoEngine: ReadData without an sql string keeps the engine
NoEngineKept(t) ==
  /\ dbEngine[t] = DbNull \/ dbOp[t] = "read"
  /\ DbGo(t, "popped", "idle")
  /\ dbEngine' = [dbEngine EXCEPT ![t] = DbNull]
  /\ UNCHANGED <<dbPool, dbOp, dropped, dbCalls, dbUb>>

\* no engine, or ReadData without an sql string
NoEngine(t) ==
  /\ dbEngine[t] = DbNull \/ dbOp[t] = "read"
  /\ DbGo(t, "popped", IF dbOp[t] = "write" THEN "idle" ELSE "push")
  /\ UNCHANGED <<dbPool, dbOp, dbEngine, dropped, dbCalls, dbUb>>

\* engine->Release() closes the connection and sets its handle to NULL
DbRelease(t) ==
  /\ dbEngine[t] # DbNull
  /\ DbGo(t, "popped", "exec")
  /\ UNCHANGED <<dbPool, dbOp, dbEngine, dropped, dbCalls, dbUb>>

\* SQLExec on the closed connection: the ping fails, and WriteData returns without giving
\* the engine back
ExecFails(t) ==
  /\ DbGo(t, "exec", IF dbOp[t] = "write" THEN "idle" ELSE "push")
  /\ dbEngine' = [dbEngine EXCEPT ![t] = IF dbOp[t] = "write" THEN DbNull ELSE @]
  /\ dropped' = IF dbOp[t] = "write" THEN dropped \cup {dbEngine[t]} ELSE dropped
  /\ UNCHANGED <<dbPool, dbOp, dbCalls, dbUb>>

\* or mysql_ping crashes on the NULL handle
ExecCrash(t) ==
  /\ DbGo(t, "exec", "idle")
  /\ dbUb' = TRUE
  /\ UNCHANGED <<dbPool, dbOp, dbEngine, dropped, dbCalls>>

\* DBConnectionPush, also of a NULL
DbPush(t) ==
  /\ DbGo(t, "push", "idle")
  /\ dbPool' = Append(dbPool, dbEngine[t])
  /\ dbEngine' = [dbEngine EXCEPT ![t] = DbNull]
  /\ UNCHANGED <<dbOp, dropped, dbCalls, dbUb>>

\* Dest deletes the engines of the list and frees the lock that its guard still holds
DbDest ==
  /\ ~dbUb
  /\ dbPool' = <<>> /\ dbUb' = TRUE
  /\ UNCHANGED <<dbAt, dbOp, dbEngine, dropped, dbCalls>>

DbNext ==
  \/ \E t \in DbThreads :
       \/ \E o \in DbOps : DbCall(t, o)
       \/ Size(t) \/ Front(t) \/ NoEngine(t) \/ DbRelease(t)
       \/ ExecFails(t) \/ ExecCrash(t) \/ DbPush(t)
  \/ DbDest

DbSpec == DbInit /\ [][DbNext]_dbVars
-----------------------------------------------------------------------------
Pooled == {dbPool[i] : i \in 1 .. Len(dbPool)} \ {DbNull}
Held == {dbEngine[t] : t \in DbThreads} \ {DbNull}

\* Every engine is in one place: once in the pool, with one thread, or dropped by a WriteData
\* whose statement failed, which is the only way to lose one.  So two calls never share a
\* connection.
LostOnlyByWrite ==
  /\ \A i, j \in 1 .. Len(dbPool) : i # j /\ dbPool[i] # DbNull => dbPool[i] # dbPool[j]
  /\ \A t, u \in DbThreads : t # u /\ dbEngine[t] # DbNull => dbEngine[t] # dbEngine[u]
  /\ Pooled \cap Held = {} /\ dropped \cap (Pooled \cup Held) = {}
  /\ ~dbUb => DbEngines = Pooled \cup Held \cup dropped

\* The size that was read without the lock is still right when the lock is held, as long
\* as there is an engine for every thread: front() is then never called on an empty list.
FrontSafe ==
  ~dbUb /\ Cardinality(dropped) + Cardinality(DbThreads) <= Cardinality(DbEngines) =>
    \A t \in DbThreads : dbAt[t] = "front" => dbPool # <<>>
=============================================================================
