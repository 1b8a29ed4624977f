------------------------------ MODULE MCPools ------------------------------
(***************************************************************************)
(* What threads share, one pool per behaviour: a pool of one mysql or      *)
(* two redis engines and three threads; the storage pool with three        *)
(* threads on three engines; the hbase pool, created with one connection,  *)
(* and three threads with accessors; two access keys and two threads.      *)
(***************************************************************************)
EXTENDS ConnPool, StoragePool, HbasePool, AccessKeys, TLC

CONSTANTS t1, t2, t3, e1, e2, e3, Parts

VARIABLE part

TwoThreads == {t1, t2}
ThreeThreads == {t1, t2, t3}
ThreeEngines == {e1, e2, e3}
AllParts == {"conn", "storage", "hbase", "keys"}
KeysOnly == {"keys"}
ConnOnly == {"conn"}
MysqlPool == {"mysql"}
BothPools == {"mysql", "redis"}
BothLoops == {"place", "address"}
PlaceOnly == {"place"}
ThreadSymmetry == Permutations(TwoThreads)

MCInit ==
  /\ part \in Parts
  /\ Init /\ DbInit /\ HbaseInit /\ KeysInit
  /\ part # "conn" => kind = "mysql"
  /\ dbPool = <<e1, e2, e3>>    \* the engines are alike

InConn == part = "conn"
RestConn == UNCHANGED <<part, dbVars, hbaseVars, keyVars>>
InStorage == part = "storage"
RestStorage == UNCHANGED <<part, vars, hbaseVars, keyVars>>
InHbase == part = "hbase"
RestHbase == UNCHANGED <<part, vars, dbVars, keyVars>>
InKeys == part = "keys"
RestKeys == UNCHANGED <<part, vars, dbVars, hbaseVars>>

\* One disjunct per action of the Next of each component.
MCNext ==
  \/ InConn /\ InitTurn /\ RestConn
  \/ InConn /\ Dest /\ RestConn
  \/ \E e \in Engines : InConn /\ ServerDrops(e) /\ RestConn
  \/ \E t \in Threads :
       \/ InConn /\ Pop(t) /\ RestConn
       \/ InConn /\ GetNull(t) /\ RestConn
       \/ InConn /\ Release(t) /\ RestConn
       \/ InConn /\ CheckStale(t) /\ RestConn
       \/ InConn /\ CheckCrash(t) /\ RestConn
       \/ InConn /\ Push(t) /\ RestConn
       \/ \E ok \in BOOLEAN : InConn /\ Reconnect(t, ok) /\ RestConn
  \/ InStorage /\ DbDest /\ RestStorage
  \/ \E t \in DbThreads :
       \/ \E o \in DbOps : InStorage /\ DbCall(t, o) /\ RestStorage
       \/ InStorage /\ Size(t) /\ RestStorage
       \/ InStorage /\ Front(t) /\ RestStorage
       \/ InStorage /\ NoEngine(t) /\ RestStorage
       \/ InStorage /\ DbRelease(t) /\ RestStorage
       \/ InStorage /\ ExecFails(t) /\ RestStorage
       \/ InStorage /\ ExecCrash(t) /\ RestStorage
       \/ InStorage /\ DbPush(t) /\ RestStorage
  \/ InHbase /\ InitPool /\ RestHbase
  \/ InHbase /\ InitMutex /\ RestHbase
  \/ InHbase /\ Fill /\ RestHbase
  \/ InHbase /\ ReleaseInstance /\ RestHbase
  \/ InHbase /\ ReleasePointer /\ RestHbase
  \/ \E t \in HbaseThreads :
       \/ InHbase /\ Construct(t) /\ RestHbase
       \/ InHbase /\ Destroy(t) /\ RestHbase
       \/ InHbase /\ Test(t) /\ RestHbase
       \/ InHbase /\ Create(t) /\ RestHbase
       \/ InHbase /\ GetInstance(t) /\ RestHbase
       \/ InHbase /\ PopConn(t) /\ RestHbase
       \/ InHbase /\ PushConn(t) /\ RestHbase
  \/ \E t \in KeyThreads :
       \/ \E o \in KeyOps : InKeys /\ KeysCall(t, o) /\ RestKeys
       \/ InKeys /\ FirstLoad(t) /\ RestKeys
       \/ InKeys /\ FirstStore(t) /\ RestKeys
       \/ InKeys /\ TempLoad(t) /\ RestKeys
       \/ InKeys /\ TempStore(t) /\ RestKeys
       \/ InKeys /\ Compare(t) /\ RestKeys
       \/ InKeys /\ AssignLoad(t) /\ RestKeys
       \/ InKeys /\ AssignStore(t) /\ RestKeys
       \/ InKeys /\ ReleaseLoad(t) /\ RestKeys
       \/ InKeys /\ ReleaseStore(t) /\ RestKeys
       \/ InKeys /\ KeysRequest(t) /\ RestKeys
       \/ InKeys /\ Succeeds(t) /\ RestKeys
       \/ InKeys /\ Retry(t) /\ RestKeys
       \/ InKeys /\ RetryAddress(t) /\ RestKeys
MCSpec == MCInit /\ [][MCNext]_<<part, vars, dbVars, hbaseVars, keyVars>>

=============================================================================
