-------------------------- MODULE HbasePoolProofs --------------------------
(***************************************************************************)
(* Proofs about HbasePool for any set of threads and any num.              *)
(***************************************************************************)
EXTENDS HbasePool, TLAPS

Before == {"start", "published", "filling"}
Ways == {"out", "ctor", "ctorLock", "ctorGet", "pop", "held", "dtor", "dtorLock", "dtorGet", "push"}
Owning == {"held", "dtor", "dtorLock", "dtorGet", "push"}

TypeOK ==
    /\ main \in Before \cup {"run", "releasing", "released"}
    /\ filled \in Nat /\ conns \in Nat
    /\ hbasePool \in 0..2 /\ pools \in 0..2
    /\ ready \in SUBSET {1} /\ freedPools \in SUBSET {1}
    /\ queue \in [Pools -> Seq(Nat)]
    /\ closed \in SUBSET Nat
    /\ hbaseAt \in [HbaseThreads -> Ways]
    /\ ptr \in [HbaseThreads -> 0..2]
    /\ mine \in [HbaseThreads -> Nat]
    /\ early \in BOOLEAN /\ late \in BOOLEAN /\ hbaseUb \in BOOLEAN

\* The pool that InitPool initialises is the first; the one made after ReleaseInstance is the
\* second and its mutex is never initialised.
Numbering ==
    /\ main = "start" => hbasePool = pools /\ pools < 2
    /\ main \in {"published", "filling", "run", "releasing"} => hbasePool = 1 /\ pools = 1
    /\ main = "released" => (pools = 1 /\ hbasePool = 0) \/ (pools = 2 /\ hbasePool = 2)
    /\ main \in {"filling", "run"} => ready = {1}
    /\ main \in Before \cup {"run"} => freedPools = {}

\* Connections are numbered from 1, only the first pool has any, and each has one place.
SecondEmpty == queue[2] = <<>>
QueuedOpen == \A i \in 1..Len(queue[1]) : queue[1][i] \in 1..conns \ closed
QueuedOnce == \A i, j \in 1..Len(queue[1]) : i # j => queue[1][i] # queue[1][j]
ClosedMade == \A c \in closed : c \in 1..conns
HeldOpen == \A t \in HbaseThreads : mine[t] \in 0..conns /\ mine[t] \notin closed
OwnersHold == \A t \in HbaseThreads : hbaseAt[t] \in Owning /\ ~hbaseUb => mine[t] # 0
HeldOnce == \A t, u \in HbaseThreads : t # u /\ mine[t] # 0 => mine[t] # mine[u]
HeldNotQueued == \A t \in HbaseThreads : \A i \in 1..Len(queue[1]) : mine[t] # queue[1][i]

Places ==
    /\ SecondEmpty /\ QueuedOpen /\ QueuedOnce /\ ClosedMade
    /\ HeldOpen /\ OwnersHold /\ HeldOnce /\ HeldNotQueued

\* An accessor that overlaps neither InitPool nor ReleaseInstance uses the first pool.
Overlap ==
    ~early /\ ~late =>
       /\ ~hbaseUb
       /\ \A t \in HbaseThreads :
            /\ main # "run" => hbaseAt[t] = "out"
            /\ hbaseAt[t] \notin {"ctorLock", "dtorLock"}
            /\ hbaseAt[t] \in {"pop", "push"} => ptr[t] = 1

IInv == TypeOK /\ Numbering /\ Places /\ Overlap
-----------------------------------------------------------------------------
\* The initial states satisfy the inductive invariant.
LEMMA InitEstablishes == HbaseInit => IInv
<1>. SUFFICES ASSUME HbaseInit PROVE IInv
  OBVIOUS
<1>0. \A p \in Pools : queue[p] = <<>> /\ Len(queue[p]) = 0
  BY DEF HbaseInit
<1>1. TypeOK
  <2>1. queue \in [Pools -> Seq(Nat)]
    BY DEF HbaseInit
  <2>2. /\ hbaseAt \in [HbaseThreads -> Ways] /\ ptr \in [HbaseThreads -> 0..2] /\ mine \in [HbaseThreads -> Nat]
    BY DEF HbaseInit, Ways
  <2>3. early \in BOOLEAN /\ late \in BOOLEAN /\ hbaseUb \in BOOLEAN
    BY Zenon DEF HbaseInit
  <2>4. /\ main \in Before \cup {"run", "releasing", "released"}
        /\ filled \in Nat /\ conns \in Nat /\ hbasePool \in 0..2 /\ pools \in 0..2
        /\ ready \in SUBSET {1} /\ freedPools \in SUBSET {1} /\ closed \in SUBSET Nat
    BY DEF HbaseInit, Before
  <2>. QED  BY <2>1, <2>2, <2>3, <2>4 DEF TypeOK
<1>2. Numbering
  BY DEF HbaseInit, Numbering, Before
<1>3. Places
  BY <1>0 DEF HbaseInit, Places, SecondEmpty, QueuedOpen, QueuedOnce,
     ClosedMade, HeldOpen, OwnersHold, HeldOnce, HeldNotQueued, Pools, Owning
<1>4. Overlap
  BY DEF HbaseInit, Overlap
<1>. QED  BY <1>1, <1>2, <1>3, <1>4 DEF IInv

\* InitPool preserves the inductive invariant.
LEMMA InitPoolPreserves == ASSUME IInv, InitPool PROVE IInv'
<1>1. TypeOK'
  BY DEF IInv, TypeOK, Numbering, InitPool, CreateIfNull, pool_vars, thread_vars,
     history_vars, Pools, Before, Ways
<1>2. Numbering'
  BY DEF IInv, TypeOK, Numbering, InitPool, CreateIfNull, pool_vars, thread_vars,
     history_vars, Before
<1>3. Places'
  BY DEF IInv, TypeOK, Numbering, Places, SecondEmpty, QueuedOpen, QueuedOnce,
     ClosedMade, HeldOpen, OwnersHold, HeldOnce, HeldNotQueued, InitPool, CreateIfNull, pool_vars, thread_vars, history_vars, Pools, Before, Ways, Owning
<1>4. Overlap'
  BY DEF IInv, TypeOK, Numbering, Overlap, InitPool, CreateIfNull, pool_vars, thread_vars,
     history_vars, Before, Ways
<1>. QED  BY <1>1, <1>2, <1>3, <1>4 DEF IInv

\* InitMutex preserves the inductive invariant.
LEMMA InitMutexPreserves == ASSUME IInv, InitMutex PROVE IInv'
<1>1. TypeOK'
  BY DEF IInv, TypeOK, Numbering, InitMutex, pool_vars, thread_vars, history_vars, Pools,
     Before, Ways
<1>2. Numbering'
  BY Zenon DEF IInv, TypeOK, Numbering, InitMutex, pool_vars, thread_vars, history_vars, Before
<1>3. Places'
  BY DEF IInv, TypeOK, Numbering, Places, SecondEmpty, QueuedOpen, QueuedOnce,
     ClosedMade, HeldOpen, OwnersHold, HeldOnce, HeldNotQueued, InitMutex, pool_vars, thread_vars, history_vars, Pools, Before, Ways, Owning
<1>4. Overlap'
  BY DEF IInv, TypeOK, Numbering, Overlap, InitMutex, pool_vars, thread_vars, history_vars,
     Before, Ways
<1>. QED  BY <1>1, <1>2, <1>3, <1>4 DEF IInv

\* Fill preserves the inductive invariant.
LEMMA FillPreserves == ASSUME IInv, Fill PROVE IInv'
<1>1. TypeOK'
  BY DEF IInv, TypeOK, Numbering, Fill, pool_vars, thread_vars, history_vars, Pools, Before, Ways
<1>2. Numbering'
  BY DEF IInv, TypeOK, Numbering, Fill, pool_vars, thread_vars, history_vars, Before
<1>3. Places'
  <2>1. /\ hbasePool = 1 /\ queue[1] \in Seq(Nat) /\ conns \in Nat /\ conns' = conns + 1
        /\ queue' = [queue EXCEPT ![1] = Append(queue[1], conns + 1)]
        /\ UNCHANGED <<closed, hbaseAt, mine, hbaseUb>>
    BY DEF IInv, TypeOK, Numbering, Fill, Pools, thread_vars
  <2>2. /\ queue'[2] = queue[2] /\ Len(queue'[1]) = Len(queue[1]) + 1
        /\ queue'[1][Len(queue[1]) + 1] = conns + 1
        /\ \A i \in 1..Len(queue[1]) : queue'[1][i] = queue[1][i]
        /\ Len(queue[1]) \in Nat
    BY <2>1 DEF IInv, TypeOK, Pools
  <2>p1. SecondEmpty'
    BY <2>1, <2>2 DEF IInv, TypeOK, Places, SecondEmpty
  <2>p2. QueuedOpen'
    BY <2>1, <2>2 DEF IInv, TypeOK, Places, QueuedOpen, HeldOpen, ClosedMade, OwnersHold
  <2>p3. QueuedOnce'
    BY <2>1, <2>2, SMTT(30) DEF IInv, TypeOK, Places, QueuedOnce, QueuedOpen, HeldNotQueued
  <2>p4. ClosedMade'
    BY <2>1, <2>2 DEF IInv, TypeOK, Places, ClosedMade
  <2>p5. HeldOpen'
    BY <2>1, <2>2 DEF IInv, TypeOK, Places, HeldOpen, QueuedOpen, ClosedMade
  <2>p6. OwnersHold'
    BY <2>1, <2>2 DEF IInv, TypeOK, Places, OwnersHold, Owning, QueuedOpen
  <2>p7. HeldOnce'
    BY <2>1, <2>2 DEF IInv, TypeOK, Places, HeldOnce, HeldNotQueued
  <2>p8. HeldNotQueued'
    BY <2>1, <2>2, SMTT(30) DEF IInv, TypeOK, Places, HeldNotQueued, HeldOnce, HeldOpen, QueuedOnce,
       QueuedOpen
  <2>. QED  BY <2>p1, <2>p2, <2>p3, <2>p4, <2>p5, <2>p6, <2>p7, <2>p8 DEF Places
<1>4. Overlap'
  BY DEF IInv, TypeOK, Numbering, Overlap, Fill, pool_vars, thread_vars, history_vars, Before,
     Ways
<1>. QED  BY <1>1, <1>2, <1>3, <1>4 DEF IInv

\* ReleaseInstance preserves the inductive invariant.
LEMMA ReleaseInstancePreserves == ASSUME IInv, ReleaseInstance PROVE IInv'
<1>a. hbasePool = 1 /\ freedPools = {} /\ queue[1] \in Seq(Nat)
  BY DEF IInv, TypeOK, Numbering, ReleaseInstance, Pools
<1>0. /\ freedPools' = {1} /\ queue' = [queue EXCEPT ![1] = <<>>] /\ main' = "releasing"
      /\ closed' = closed \cup {queue[1][i] : i \in DOMAIN queue[1]}
      /\ UNCHANGED <<filled, hbasePool, pools, ready, conns, hbaseAt, ptr, mine, early>>
  BY <1>a DEF ReleaseInstance, thread_vars
<1>b. hbaseUb' \in BOOLEAN
  BY Zenon DEF ReleaseInstance
<1>1. TypeOK'
  <2>0. \A i \in DOMAIN queue[1] : queue[1][i] \in Nat
    BY <1>a
  <2>1. closed' \in SUBSET Nat
    BY <1>0, <2>0, Zenon DEF IInv, TypeOK
  <2>2. late' \in BOOLEAN
    BY DEF ReleaseInstance, IInv, TypeOK
  <2>3. queue' \in [Pools -> Seq(Nat)]
    BY <1>0 DEF IInv, TypeOK, Pools
  <2>. QED  BY <1>0, <1>a, <1>b, <2>1, <2>2, <2>3 DEF IInv, TypeOK
<1>2. Numbering'
  BY DEF IInv, TypeOK, Numbering, ReleaseInstance, pool_vars, thread_vars, history_vars, Before
<1>3. Places'
  <2>1. queue'[1] = <<>> /\ queue'[2] = <<>> /\ Len(queue'[1]) = 0
    BY <1>0 DEF IInv, TypeOK, Places, SecondEmpty, QueuedOpen, QueuedOnce,
     ClosedMade, HeldOpen, OwnersHold, HeldOnce, HeldNotQueued, Pools
  <2>2. \A c \in closed' : c \in closed \/ \E i \in 1..Len(queue[1]) : c = queue[1][i]
    BY <1>0, <1>a
  <2>3. hbaseUb' \/ hbaseUb' = hbaseUb
    BY Zenon DEF ReleaseInstance, IInv, TypeOK
  <2>4. SecondEmpty' /\ QueuedOpen' /\ QueuedOnce' /\ HeldNotQueued'
    BY <2>1 DEF SecondEmpty, QueuedOpen, QueuedOnce, HeldNotQueued
  <2>5. ClosedMade'
    BY <1>0, <2>2 DEF IInv, Places, ClosedMade, QueuedOpen
  <2>6. HeldOpen'
    BY <1>0, <2>2 DEF IInv, Places, HeldOpen, HeldNotQueued
  <2>7. OwnersHold' /\ HeldOnce'
    BY <1>0, <2>3 DEF IInv, Places, OwnersHold, HeldOnce
  <2>. QED  BY <2>4, <2>5, <2>6, <2>7 DEF Places
<1>4. Overlap'
  <2>. SUFFICES ASSUME ~early', ~late'
              PROVE  ~hbaseUb' /\ \A t \in HbaseThreads : hbaseAt'[t] = "out"
    BY DEF Overlap
  <2>1. \A t \in HbaseThreads : hbaseAt[t] = "out"
    BY Zenon DEF ReleaseInstance
  <2>2. ~InPool
    BY <2>1 DEF InPool
  <2>. QED  BY <1>0, <2>1, <2>2 DEF ReleaseInstance
<1>. QED  BY <1>1, <1>2, <1>3, <1>4 DEF IInv

\* ReleasePointer preserves the inductive invariant.
LEMMA ReleasePointerPreserves == ASSUME IInv, ReleasePointer PROVE IInv'
<1>1. TypeOK'
  BY DEF IInv, TypeOK, Numbering, ReleasePointer, pool_vars, thread_vars, history_vars, Pools,
     Before, Ways
<1>2. Numbering'
  BY DEF IInv, TypeOK, Numbering, ReleasePointer, pool_vars, thread_vars, history_vars, Before
<1>3. Places'
  BY DEF IInv, TypeOK, Numbering, Places, SecondEmpty, QueuedOpen, QueuedOnce,
     ClosedMade, HeldOpen, OwnersHold, HeldOnce, HeldNotQueued, ReleasePointer, pool_vars, thread_vars, history_vars, Pools, Before, Ways, Owning
<1>4. Overlap'
  BY DEF IInv, TypeOK, Numbering, Overlap, ReleasePointer, pool_vars, thread_vars,
     history_vars, Before, Ways
<1>. QED  BY <1>1, <1>2, <1>3, <1>4 DEF IInv

\* Construct preserves the inductive invariant.
LEMMA ConstructPreserves == ASSUME IInv, NEW t \in HbaseThreads, Construct(t) PROVE IInv'
<1>1. TypeOK'
  BY DEF IInv, TypeOK, Numbering, Construct, HbaseGo, pool_vars, thread_vars, history_vars,
     Pools, Before, Ways
<1>2. Numbering'
  BY DEF IInv, TypeOK, Numbering, Construct, HbaseGo, pool_vars, thread_vars, history_vars, Before
<1>3. Places'
  BY DEF IInv, TypeOK, Numbering, Places, SecondEmpty, QueuedOpen, QueuedOnce,
     ClosedMade, HeldOpen, OwnersHold, HeldOnce, HeldNotQueued, Construct, HbaseGo, pool_vars, thread_vars, history_vars, Pools, Before, Ways, Owning
<1>4. Overlap'
  BY Zenon DEF IInv, TypeOK, Numbering, Overlap, Construct, HbaseGo, pool_vars, thread_vars,
     history_vars, Before, Ways
<1>. QED  BY <1>1, <1>2, <1>3, <1>4 DEF IInv

\* Destroy preserves the inductive invariant.
LEMMA DestroyPreserves == ASSUME IInv, NEW t \in HbaseThreads, Destroy(t) PROVE IInv'
<1>1. TypeOK'
  BY DEF IInv, TypeOK, Numbering, Destroy, HbaseGo, pool_vars, thread_vars, history_vars,
     Pools, Before, Ways
<1>2. Numbering'
  BY DEF IInv, TypeOK, Numbering, Destroy, HbaseGo, pool_vars, thread_vars, history_vars, Before
<1>3. Places'
  BY DEF IInv, TypeOK, Numbering, Places, SecondEmpty, QueuedOpen, QueuedOnce,
     ClosedMade, HeldOpen, OwnersHold, HeldOnce, HeldNotQueued, Destroy, HbaseGo, pool_vars, thread_vars, history_vars, Pools, Before, Ways, Owning
<1>4. Overlap'
  BY DEF IInv, TypeOK, Numbering, Overlap, Destroy, HbaseGo, pool_vars, thread_vars,
     history_vars, Before, Ways
<1>. QED  BY <1>1, <1>2, <1>3, <1>4 DEF IInv

\* Test preserves the inductive invariant.
LEMMA TestPreserves == ASSUME IInv, NEW t \in HbaseThreads, Test(t) PROVE IInv'
<1>1. TypeOK'
  BY Zenon DEF IInv, TypeOK, Numbering, Test, HbaseGo, pool_vars, thread_vars, history_vars, Pools,
     Before, Ways
<1>2. Numbering'
  BY DEF IInv, TypeOK, Numbering, Test, HbaseGo, pool_vars, thread_vars, history_vars, Before
<1>3. Places'
  BY DEF IInv, TypeOK, Numbering, Places, SecondEmpty, QueuedOpen, QueuedOnce,
     ClosedMade, HeldOpen, OwnersHold, HeldOnce, HeldNotQueued, Test, HbaseGo, pool_vars, thread_vars, history_vars, Pools, Before, Ways, Owning
<1>4. Overlap'
  BY DEF IInv, TypeOK, Numbering, Overlap, Test, HbaseGo, pool_vars, thread_vars,
     history_vars, Before, Ways
<1>. QED  BY <1>1, <1>2, <1>3, <1>4 DEF IInv

\* Create preserves the inductive invariant.
LEMMA CreatePreserves == ASSUME IInv, NEW t \in HbaseThreads, Create(t) PROVE IInv'
<1>1. TypeOK'
  <2>1. hbaseAt' \in [HbaseThreads -> Ways]
    BY ZenonT(30) DEF IInv, TypeOK, Create, HbaseGo, Ways
  <2>2. hbasePool' \in 0..2 /\ pools' \in 0..2
    BY DEF IInv, TypeOK, Numbering, Create, CreateIfNull, Before
  <2>. QED  BY <2>1, <2>2 DEF IInv, TypeOK, Create, history_vars
<1>2. Numbering'
  BY DEF IInv, TypeOK, Numbering, Create, HbaseGo, CreateIfNull, pool_vars, thread_vars,
     history_vars, Before
<1>3. Places'
  BY DEF IInv, TypeOK, Numbering, Places, SecondEmpty, QueuedOpen, QueuedOnce,
     ClosedMade, HeldOpen, OwnersHold, HeldOnce, HeldNotQueued, Create, HbaseGo, CreateIfNull, pool_vars, thread_vars, history_vars, Pools, Before, Ways, Owning
<1>4. Overlap'
  BY DEF IInv, TypeOK, Numbering, Overlap, Create, HbaseGo, CreateIfNull, pool_vars,
     thread_vars, history_vars, Before, Ways
<1>. QED  BY <1>1, <1>2, <1>3, <1>4 DEF IInv

\* GetInstance preserves the inductive invariant.
LEMMA GetInstancePreserves == ASSUME IInv, NEW t \in HbaseThreads, GetInstance(t) PROVE IInv'
<1>1. TypeOK'
  BY Zenon DEF IInv, TypeOK, Numbering, GetInstance, HbaseGo, pool_vars, thread_vars, history_vars,
     Pools, Before, Ways
<1>2. Numbering'
  BY DEF IInv, TypeOK, Numbering, GetInstance, HbaseGo, pool_vars, thread_vars, history_vars,
     Before
<1>3. Places'
  BY DEF IInv, TypeOK, Numbering, Places, SecondEmpty, QueuedOpen, QueuedOnce,
     ClosedMade, HeldOpen, OwnersHold, HeldOnce, HeldNotQueued, GetInstance, HbaseGo, pool_vars, thread_vars, history_vars, Pools, Before, Ways, Owning
<1>4. Overlap'
  BY DEF IInv, TypeOK, Numbering, Overlap, GetInstance, HbaseGo, pool_vars, thread_vars,
     history_vars, Before, Ways
<1>. QED  BY <1>1, <1>2, <1>3, <1>4 DEF IInv

\* PopConn preserves the inductive invariant.
LEMMA PopConnPreserves == ASSUME IInv, NEW t \in HbaseThreads, PopConn(t) PROVE IInv'
<1>0. /\ hbaseAt' = [hbaseAt EXCEPT ![t] = "held"] /\ hbaseAt[t] = "pop" /\ ~hbaseUb
      /\ UNCHANGED <<main, filled, hbasePool, pools, ready, freedPools, closed, ptr, early, late>>
  BY DEF PopConn, HbaseGo
<1>a. CASE ~Usable(ptr[t])
  <2>1. hbaseUb' = TRUE /\ UNCHANGED <<mine, queue, conns>>
    BY <1>a DEF PopConn
  <2>2. hbaseAt' \in [HbaseThreads -> Ways]
    BY <1>0, SMTT(30) DEF IInv, TypeOK, Ways
  <2>3. TypeOK'
    BY <1>0, <2>1, <2>2 DEF IInv, TypeOK
  <2>4. Numbering'
    BY <1>0, SMTT(30) DEF IInv, Numbering
  <2>5. Places'
    BY <1>0, <2>1 DEF IInv, Places, SecondEmpty, QueuedOpen, QueuedOnce,
     ClosedMade, HeldOpen, OwnersHold, HeldOnce, HeldNotQueued
  <2>6. Overlap'
    <3>1. ~early /\ ~late => main = "run" /\ ptr[t] = 1
      BY <1>0 DEF IInv, Overlap
    <3>2. main = "run" => 1 \in ready \ freedPools
      BY DEF IInv, Numbering
    <3>. QED  BY <1>0, <1>a, <3>1, <3>2 DEF Overlap, Usable
  <2>. QED  BY <2>3, <2>4, <2>5, <2>6 DEF IInv
<1>b. CASE Usable(ptr[t])
  <2>1. ptr[t] = 1
    BY <1>b DEF IInv, TypeOK, Usable
  <2>2. /\ queue[1] \in Seq(Nat) /\ hbaseUb' = hbaseUb
        /\ hbaseAt' \in [HbaseThreads -> Ways]
        /\ main \in Before \cup {"run", "releasing", "released"}
    BY <1>0, <1>b DEF IInv, TypeOK, Pools, PopConn, Ways
  <2>3. Numbering'
    BY <1>0 DEF IInv, Numbering
  <2>4. Overlap'
    BY <1>0, <2>2 DEF IInv, TypeOK, Overlap
  <2>c. CASE queue[1] = <<>>
    <3>1. mine' = [mine EXCEPT ![t] = conns + 1] /\ conns' = conns + 1 /\ queue' = queue
      BY <1>b, <2>1, <2>c DEF PopConn
    <3>2. TypeOK'
      BY <1>0, <2>2, <3>1, SMTT(30) DEF IInv, TypeOK
    <3>3. Places'
      BY <1>0, <2>2, <2>c, <3>1 DEF IInv, TypeOK, Places, SecondEmpty, QueuedOpen, QueuedOnce,
     ClosedMade, HeldOpen, OwnersHold, HeldOnce, HeldNotQueued
    <3>. QED  BY <2>3, <2>4, <3>2, <3>3 DEF IInv
  <2>d. CASE queue[1] # <<>>
    <3>1. /\ mine' = [mine EXCEPT ![t] = queue[1][1]] /\ conns' = conns
          /\ queue' = [queue EXCEPT ![1] = Tail(queue[1])]
      BY <1>b, <2>1, <2>2, <2>d DEF PopConn
    <3>2. /\ Len(queue[1]) \in Nat \ {0} /\ queue[1][1] \in Nat
          /\ queue'[1] \in Seq(Nat) /\ queue'[2] = queue[2]
          /\ Len(queue'[1]) = Len(queue[1]) - 1
          /\ \A i \in 1..Len(queue[1]) - 1 : queue'[1][i] = queue[1][i + 1]
      BY <2>2, <2>d, <3>1 DEF IInv, TypeOK, Pools
    <3>3. TypeOK'
      BY <1>0, <2>2, <3>1, <3>2, SMTT(30) DEF IInv, TypeOK, Pools
    <3>4. Places'
      <4>p1. SecondEmpty'
        BY <1>0, <2>2, <3>1, <3>2 DEF IInv, TypeOK, Places, SecondEmpty
      <4>p2. QueuedOpen'
        BY <1>0, <2>2, <3>1, <3>2 DEF IInv, TypeOK, Places, QueuedOpen, HeldOpen, ClosedMade,
           OwnersHold
      <4>p3. QueuedOnce'
        <5>. SUFFICES ASSUME NEW i \in 1..Len(queue'[1]), NEW j \in 1..Len(queue'[1]), i # j
                    PROVE  queue'[1][i] # queue'[1][j]
          BY DEF QueuedOnce
        <5>1. /\ i \in 1..Len(queue[1]) - 1 /\ j \in 1..Len(queue[1]) - 1
              /\ i + 1 \in 1..Len(queue[1]) /\ j + 1 \in 1..Len(queue[1]) /\ i + 1 # j + 1
          BY <3>2
        <5>2. queue'[1][i] = queue[1][i + 1] /\ queue'[1][j] = queue[1][j + 1]
          BY <3>2, <5>1, Zenon
        <5>3. queue[1][i + 1] # queue[1][j + 1]
          BY <5>1 DEF IInv, Places, QueuedOnce
        <5>. QED  BY <5>2, <5>3
      <4>p4. ClosedMade'
        BY <1>0, <2>2, <3>1, <3>2, SMTT(30) DEF IInv, TypeOK, Places, ClosedMade
      <4>p5. HeldOpen'
        BY <1>0, <2>2, <3>1, <3>2, SMTT(30) DEF IInv, TypeOK, Places, HeldOpen, QueuedOpen, ClosedMade
      <4>p6. OwnersHold'
        BY <1>0, <2>2, <3>1, <3>2, SMTT(30) DEF IInv, TypeOK, Places, OwnersHold, Owning, QueuedOpen
      <4>p7. HeldOnce'
        BY <1>0, <2>2, <3>1, <3>2 DEF IInv, TypeOK, Places, HeldOnce, HeldNotQueued
      <4>p8. HeldNotQueued'
        <5>. SUFFICES ASSUME NEW u \in HbaseThreads, NEW i \in 1..Len(queue'[1])
                      PROVE  mine'[u] # queue'[1][i]
          BY Zenon DEF HeldNotQueued
        <5>1. i \in 1..Len(queue[1]) - 1 /\ i + 1 \in 1..Len(queue[1]) /\ i + 1 # 1
              /\ 1 \in 1..Len(queue[1])
          BY <3>2
        <5>2. queue'[1][i] = queue[1][i + 1]
          BY <3>2, <5>1, Zenon
        <5>3. queue[1][1] # queue[1][i + 1]
          BY <5>1, Zenon DEF IInv, Places, QueuedOnce
        <5>4. mine[u] # queue[1][i + 1]
          BY <5>1, Zenon DEF IInv, Places, HeldNotQueued
        <5>5. mine'[u] = IF u = t THEN queue[1][1] ELSE mine[u]
          BY <3>1 DEF IInv, TypeOK
        <5>. QED  BY <5>2, <5>3, <5>4, <5>5, Zenon
      <4>. QED  BY <4>p1, <4>p2, <4>p3, <4>p4, <4>p5, <4>p6, <4>p7, <4>p8 DEF Places
    <3>. QED  BY <2>3, <2>4, <3>3, <3>4 DEF IInv
  <2>. QED  BY <2>c, <2>d
<1>. QED  BY <1>a, <1>b

\* PushConn preserves the inductive invariant.
LEMMA PushConnPreserves == ASSUME IInv, NEW t \in HbaseThreads, PushConn(t) PROVE IInv'
<1>0. /\ hbaseAt' = [hbaseAt EXCEPT ![t] = "out"] /\ hbaseAt[t] = "push" /\ ~hbaseUb
      /\ UNCHANGED <<main, filled, hbasePool, pools, ready, freedPools, conns, closed, ptr, early, late>>
      /\ hbaseAt' \in [HbaseThreads -> Ways]
  BY DEF PushConn, HbaseGo, history_vars, IInv, TypeOK, Ways
<1>a. Usable(ptr[t]) => ptr[t] = 1
  BY DEF IInv, TypeOK, Usable
<1>b. ~Usable(ptr[t]) => hbaseUb' = TRUE /\ UNCHANGED <<mine, queue>>
  BY DEF PushConn
<1>c. Usable(ptr[t]) =>
        /\ queue' = [queue EXCEPT ![1] = Append(queue[1], mine[t])]
        /\ mine' = [mine EXCEPT ![t] = 0] /\ hbaseUb' = hbaseUb
        /\ queue'[2] = queue[2] /\ Len(queue[1]) \in Nat
        /\ queue'[1] \in Seq(Nat) /\ Len(queue'[1]) = Len(queue[1]) + 1
        /\ queue'[1][Len(queue[1]) + 1] = mine[t]
        /\ \A i \in 1..Len(queue[1]) : queue'[1][i] = queue[1][i]
  <2>. SUFFICES ASSUME Usable(ptr[t])
              PROVE  /\ queue' = [queue EXCEPT ![1] = Append(queue[1], mine[t])]
                     /\ mine' = [mine EXCEPT ![t] = 0] /\ hbaseUb' = hbaseUb
                     /\ queue'[2] = queue[2] /\ Len(queue[1]) \in Nat
                     /\ queue'[1] \in Seq(Nat) /\ Len(queue'[1]) = Len(queue[1]) + 1
                     /\ queue'[1][Len(queue[1]) + 1] = mine[t]
                     /\ \A i \in 1..Len(queue[1]) : queue'[1][i] = queue[1][i]
    OBVIOUS
  <2>1. /\ queue' = [queue EXCEPT ![1] = Append(queue[1], mine[t])]
        /\ mine' = [mine EXCEPT ![t] = 0] /\ hbaseUb' = hbaseUb
    BY <1>a DEF PushConn
  <2>2. queue[1] \in Seq(Nat) /\ mine[t] \in Nat
    BY DEF IInv, TypeOK, Pools
  <2>. QED  BY <2>1, <2>2 DEF IInv, TypeOK, Pools
<1>1. TypeOK'
  <2>1. CASE ~Usable(ptr[t])
    BY <1>0, <1>b, <2>1 DEF IInv, TypeOK
  <2>2. CASE Usable(ptr[t])
    <3>1. queue' \in [Pools -> Seq(Nat)]
      BY <1>c, <2>2 DEF IInv, TypeOK, Pools
    <3>a. mine' = [mine EXCEPT ![t] = 0] /\ hbaseUb' = hbaseUb
      BY <1>c, <2>2
    <3>2. mine' \in [HbaseThreads -> Nat]
      BY <3>a DEF IInv, TypeOK
    <3>. QED  BY <1>0, <3>a, <3>1, <3>2 DEF IInv, TypeOK
  <2>. QED  BY <2>1, <2>2
<1>2. Numbering'
  BY SMTT(30) DEF IInv, TypeOK, Numbering, PushConn, HbaseGo, Usable, pool_vars, thread_vars,
     history_vars, Before
<1>3. Places'
  <2>1. CASE ~Usable(ptr[t])
    BY <1>0, <1>b, <2>1 DEF IInv, Places, SecondEmpty, QueuedOpen, QueuedOnce,
     ClosedMade, HeldOpen, OwnersHold, HeldOnce, HeldNotQueued
  <2>2. CASE Usable(ptr[t])
    <3>0. /\ queue'[2] = queue[2] /\ Len(queue[1]) \in Nat
          /\ Len(queue'[1]) = Len(queue[1]) + 1
          /\ queue'[1][Len(queue[1]) + 1] = mine[t]
          /\ \A i \in 1..Len(queue[1]) : queue'[1][i] = queue[1][i]
          /\ hbaseUb' = hbaseUb
      BY <1>c, <2>2
    <3>m. mine'[t] = 0 /\ \A u \in HbaseThreads : u # t => mine'[u] = mine[u]
      BY <1>c, <2>2 DEF IInv, TypeOK
    <3>i. \A i \in 1..Len(queue'[1]) : i \in 1..Len(queue[1]) \/ i = Len(queue[1]) + 1
      BY <3>0
    <3>z. conns \in Nat /\ conns' = conns /\ closed' = closed /\ mine[t] \in 0..conns
      BY <1>0, SMTT(30) DEF IInv, TypeOK, Places, HeldOpen
    <3>1. mine[t] # 0
      BY <1>0, SMTT(30) DEF IInv, Places, SecondEmpty, QueuedOpen, QueuedOnce,
     ClosedMade, HeldOpen, OwnersHold, HeldOnce, HeldNotQueued, Owning
    <3>p1. SecondEmpty'
      BY <1>0, <3>0, <3>1, <3>m, <3>i, <3>z DEF IInv, Places, SecondEmpty
    <3>p2. QueuedOpen'
      <4>1. \A i \in 1..Len(queue[1]) : queue[1][i] \in 1..conns \ closed
        BY DEF IInv, Places, QueuedOpen
      <4>2. mine[t] \in 1..conns \ closed
        BY <3>1, <3>z DEF IInv, Places, HeldOpen
      <4>. QED  BY <3>0, <3>i, <3>z, <4>1, <4>2, Zenon DEF QueuedOpen
    <3>q. \A i \in 1..Len(queue[1]) : queue[1][i] # mine[t]
      BY DEF IInv, Places, HeldNotQueued
    <3>p3. QueuedOnce'
      <4>. SUFFICES ASSUME NEW i \in 1..Len(queue'[1]), NEW j \in 1..Len(queue'[1]), i # j
                  PROVE  queue'[1][i] # queue'[1][j]
        BY DEF QueuedOnce
      <4>1. CASE i \in 1..Len(queue[1]) /\ j \in 1..Len(queue[1])
        BY <3>0, <4>1 DEF IInv, Places, QueuedOnce
      <4>2. CASE i = Len(queue[1]) + 1 /\ j \in 1..Len(queue[1])
        BY <3>0, <3>q, <4>2
      <4>3. CASE j = Len(queue[1]) + 1 /\ i \in 1..Len(queue[1])
        BY <3>0, <3>q, <4>3
      <4>. QED  BY <3>i, <4>1, <4>2, <4>3
    <3>p4. ClosedMade'
      BY <1>0, <3>0, <3>1, <3>m, <3>i, <3>z, SMTT(30) DEF IInv, Places, ClosedMade
    <3>p5. HeldOpen'
      BY <1>0, <3>0, <3>1, <3>m, <3>i, <3>z, SMTT(30) DEF IInv, Places, HeldOpen, QueuedOpen, ClosedMade
    <3>p6. OwnersHold'
      BY <1>0, <3>0, <3>1, <3>m, <3>i, <3>z, SMTT(30) DEF IInv, Places, OwnersHold, Owning, QueuedOpen
    <3>p7. HeldOnce'
      BY <1>0, <3>0, <3>1, <3>m, <3>i, <3>z DEF IInv, Places, HeldOnce, HeldNotQueued
    <3>p8. HeldNotQueued'
      <4>. SUFFICES ASSUME NEW u \in HbaseThreads, NEW i \in 1..Len(queue'[1])
                  PROVE  mine'[u] # queue'[1][i]
        BY DEF HeldNotQueued
      <4>1. CASE u = t
        <5>1. \A k \in 1..Len(queue[1]) : queue[1][k] # 0
          BY <3>z DEF IInv, Places, QueuedOpen
        <5>. QED  BY <3>0, <3>1, <3>m, <3>i, <4>1, <5>1, ZenonT(30)
      <4>2. CASE u # t
        <5>1. mine[u] # mine[t]
          BY <3>1, <4>2 DEF IInv, Places, HeldOnce
        <5>2. \A k \in 1..Len(queue[1]) : mine[u] # queue[1][k]
          BY DEF IInv, Places, HeldNotQueued
        <5>. QED  BY <3>0, <3>m, <3>i, <4>2, <5>1, <5>2, ZenonT(30)
      <4>. QED  BY <4>1, <4>2
    <3>. QED  BY <3>p1, <3>p2, <3>p3, <3>p4, <3>p5, <3>p6, <3>p7, <3>p8 DEF Places
  <2>. QED  BY <2>1, <2>2
<1>4. Overlap'
  BY SMTT(30) DEF IInv, TypeOK, Numbering, Overlap, PushConn, HbaseGo, Usable, pool_vars, thread_vars,
     history_vars, Before, Ways
<1>. QED  BY <1>1, <1>2, <1>3, <1>4 DEF IInv

\* So does a step that changes nothing.
LEMMA StutterPreserves == ASSUME IInv, UNCHANGED hbaseVars PROVE IInv'
BY DEF IInv, TypeOK, Numbering, Places, SecondEmpty, QueuedOpen, QueuedOnce,
     ClosedMade, HeldOpen, OwnersHold, HeldOnce, HeldNotQueued, Overlap, hbaseVars, pool_vars, thread_vars, history_vars

\* IInv holds in every reachable state.
LEMMA Invariance == HbaseSpec => []IInv
<1>1. IInv /\ [HbaseNext]_hbaseVars => IInv'
  BY InitPoolPreserves, InitMutexPreserves, FillPreserves, ReleaseInstancePreserves,
     ReleasePointerPreserves, ConstructPreserves, DestroyPreserves, TestPreserves, CreatePreserves, GetInstancePreserves, PopConnPreserves, PushConnPreserves,
     StutterPreserves DEF HbaseNext
<1>. QED  BY <1>1, InitEstablishes, PTL DEF HbaseSpec

\* Two accessors never share a connection (PopConn, PushConn), and the connections that
\* ReleaseInstance closes are in no accessor's hands, whatever the threads and num.
THEOREM ConnectionOwnedOnce == HbaseSpec => []ClientOwnedOnce
<1>1. IInv => ClientOwnedOnce
  <2>. SUFFICES ASSUME IInv PROVE ClientOwnedOnce
    OBVIOUS
  <2>1. Len(queue[2]) = 0 /\ \A p \in Pools : p = 1 \/ p = 2
    BY DEF IInv, Places, SecondEmpty, Pools
  <2>2. ASSUME NEW p \in Pools
        PROVE  \A i, j \in 1..Len(queue[p]) : i # j => queue[p][i] # queue[p][j]
    <3>1. CASE p = 1
      BY <3>1 DEF IInv, Places, QueuedOnce
    <3>2. CASE p = 2
      BY <2>1, <3>2
    <3>. QED  BY <2>1, <3>1, <3>2
  <2>3. ASSUME NEW p \in Pools, NEW c \in InQueue(p)
        PROVE  \E i \in 1..Len(queue[1]) : c = queue[1][i]
    <3>1. CASE p = 1
      BY <3>1 DEF InQueue
    <3>2. CASE p = 2
      BY <2>1, <3>2 DEF InQueue
    <3>. QED  BY <2>1, <3>1, <3>2
  <2>4. \A p \in Pools : InQueue(p) \cap closed = {}
    BY <2>3 DEF IInv, Places, QueuedOpen
  <2>5. \A p \in Pools : \A t \in HbaseThreads : mine[t] \notin InQueue(p) \cup closed
    BY <2>3 DEF IInv, Places, HeldNotQueued, HeldOpen
  <2>. QED  BY <2>2, <2>4, <2>5 DEF IInv, Places, HeldOnce, ClientOwnedOnce
<1>. QED  BY <1>1, Invariance, PTL

\* Accessors that live between InitPool and ReleaseInstance never meet a mutex that was not
\* initialised or a deleted pool (GetInstance, PopConn, PushConn).
THEOREM SafeBetweenInitAndRelease == HbaseSpec => []SafeBetween
<1>1. IInv => SafeBetween
  BY DEF IInv, TypeOK, Overlap, SafeBetween
<1>. QED  BY <1>1, Invariance, PTL
=============================================================================
