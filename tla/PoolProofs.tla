----------------------------- MODULE PoolProofs -----------------------------
(***************************************************************************)
(* The two pools of database connections, for every number of threads and  *)
(* connections.  In ConnPool no two threads share a connection, and no     *)
(* connection that Init made is lost.                                      *)
(*                                                                         *)
(* Neither is inductive alone.  Init appends engine made + 1, which is new *)
(* only because no engine above made is anywhere yet (Fresh), and Pop      *)
(* overwrites engine_, which loses nothing only because a thread without   *)
(* an object holds no engine (IdleEmpty).                                  *)
(*                                                                         *)
(* The NULLs of failed pops are bounded by counting: pool and hands are    *)
(* together the engines made and the NULLs (Conserved).                    *)
(***************************************************************************)
EXTENDS ConnPool, StoragePool, FiniteSetTheorems, SequenceTheorems, TLAPS

PoolTypes ==
  /\ pool \in Seq(Engines \cup {Null})
  /\ made \in 0 .. InitCount
  /\ at \in [Threads -> {"idle", "held", "released", "ready", "failed"}]
  /\ engine \in [Threads -> Engines \cup {Null}]

Fresh ==
  /\ \A i \in 1 .. Len(pool) : pool[i] = Null \/ pool[i] <= made
  /\ \A t \in Threads : engine[t] = Null \/ engine[t] <= made

IdleEmpty == \A t \in Threads : at[t] = "idle" => engine[t] = Null

IInv == PoolTypes /\ Fresh /\ IdleEmpty /\ OwnedOnce /\ NoneLost

\* The number of turns of the loop in Init is a natural number.
LEMMA InitCountNat == InitCount \in Nat
  BY ConnPoolAssumption DEF InitCount

\* No engine is NULL.
LEMMA NullNoEngine == Null \notin Engines
  BY ConnPoolAssumption DEF Engines

\* Before Init there is nothing in the pool or in a hand.
LEMMA InitIInv == Init => IInv
  <1> SUFFICES ASSUME Init PROVE IInv
    BY Zenon
  <1>1. PoolTypes
    BY InitCountNat DEF Init, PoolTypes, Engines
  <1>2. Len(pool) = 0 /\ made = 0
    BY Zenon DEF Init
  <1>3. Fresh /\ IdleEmpty /\ OwnedOnce /\ NoneLost
    BY <1>2 DEF Init, Fresh, IdleEmpty, OwnedOnce, NoneLost
  <1> QED
    BY <1>1, <1>3, Zenon DEF IInv

\* A step that moves no engine between the pool and the threads and starts no object.
LEMMA Frame ==
  ASSUME IInv, UNCHANGED <<kind, pool, made, engine>>, Running' => Running,
         at' \in [Threads -> {"idle", "held", "released", "ready", "failed"}],
         \A t \in Threads : at'[t] = "idle" => at[t] = "idle"
  PROVE  IInv'
  <1>1. PoolTypes' /\ Fresh' /\ OwnedOnce'
    BY ZenonT(30) DEF IInv, PoolTypes, Fresh, OwnedOnce, Engines, InitCount
  <1>2. IdleEmpty'
    BY Zenon DEF IInv, IdleEmpty
  <1>3. NoneLost'
    BY Zenon DEF IInv, NoneLost
  <1> QED
    BY <1>1, <1>2, <1>3, Zenon DEF IInv

\* MysqlDBPool::Init, RedisPool::Init: a turn appends an engine that is nowhere yet.
LEMMA InitTurnIInv == ASSUME IInv, InitTurn PROVE IInv'
  <1> USE InitCountNat, NullNoEngine
  <1>1. CASE aborted'
    <2>1. UNCHANGED <<kind, at, engine>> /\ made' = made + 1 /\ made + 1 \in 1 .. InitCount
      BY DEF InitTurn, IInv, PoolTypes
    <2>2. pool' = pool
      BY <1>1, Zenon DEF InitTurn, Running
    <2>3. PoolTypes' /\ Fresh' /\ IdleEmpty' /\ OwnedOnce'
      BY <2>1, <2>2, SMTT(30) DEF IInv, PoolTypes, Fresh, IdleEmpty, OwnedOnce, Engines, InitCount
    <2> QED
      BY <1>1, <2>3, Zenon DEF IInv, NoneLost, Running
  <1>2. CASE ~aborted'
    <2>1. /\ UNCHANGED <<kind, at, engine>> /\ made' = made + 1
          /\ made + 1 \in 1 .. InitCount /\ made + 1 \in Engines
          /\ pool' = Append(pool, made + 1) /\ Running
      BY <1>2, ConnPoolAssumption DEF InitTurn, IInv, PoolTypes, Engines, InitCount
    <2>2. /\ Len(pool') = Len(pool) + 1 /\ Len(pool) \in Nat
          /\ \A i \in 1 .. Len(pool) : pool'[i] = pool[i]
          /\ pool'[Len(pool) + 1] = made + 1
          /\ pool' \in Seq(Engines \cup {Null})
      BY <2>1 DEF IInv, PoolTypes
    <2>3. PoolTypes'
      BY <2>1, <2>2 DEF IInv, PoolTypes, Engines, InitCount
    <2>4. Fresh' /\ IdleEmpty'
      BY <2>1, <2>2, SMTT(30) DEF IInv, PoolTypes, Fresh, IdleEmpty, Engines
    <2>5. OwnedOnce'
      BY <2>1, <2>2 DEF IInv, PoolTypes, Fresh, OwnedOnce, Engines
    <2>6. NoneLost'
      <3> SUFFICES ASSUME NEW e \in 1 .. made + 1
                   PROVE  \/ \E i \in 1 .. Len(pool') : pool'[i] = e
                          \/ \E u \in Threads : engine'[u] = e
        BY <2>1, Zenon DEF NoneLost
      <3>1. CASE e = made + 1
        BY <3>1, <2>2
      <3>2. CASE e # made + 1
        <4>1. e \in 1 .. made
          BY <3>2 DEF IInv, PoolTypes
        <4> QED
          BY <4>1, <2>1, <2>2 DEF IInv, NoneLost
      <3> QED
        BY <3>1, <3>2, Zenon
    <2> QED
      BY <2>3, <2>4, <2>5, <2>6, Zenon DEF IInv
  <1> QED
    BY <1>1, <1>2, Zenon

\* DBConnectionPop, RedisConnectionPop: the head of the pool moves to the thread.
LEMMA PopIInv == ASSUME IInv, NEW t \in Threads, Pop(t) PROVE IInv'
  <1> USE NullNoEngine
  <1>1. CASE pool = <<>>
    <2>1. engine[t] = Null /\ UNCHANGED <<kind, engine, pool, made>>
      BY <1>1, Zenon DEF Pop, IInv, IdleEmpty, PoolTypes
    <2> QED
      BY <2>1, Frame, Zenon DEF Pop, IInv, PoolTypes, Running
  <1>2. CASE pool # <<>>
    <2>1. /\ engine' = [engine EXCEPT ![t] = Head(pool)] /\ pool' = Tail(pool)
          /\ at' = [at EXCEPT ![t] = "held"] /\ UNCHANGED <<kind, made>>
          /\ at[t] = "idle" /\ Running
      BY <1>2, Zenon DEF Pop
    <2>2. /\ Len(pool) \in Nat \ {0} /\ Len(pool') = Len(pool) - 1
          /\ \A i \in 1 .. Len(pool') : pool'[i] = pool[i + 1]
          /\ Head(pool) = pool[1] /\ pool[1] \in Engines \cup {Null}
          /\ pool' \in Seq(Engines \cup {Null})
      BY <1>2, <2>1 DEF IInv, PoolTypes
    <2>3. PoolTypes'
      BY <2>1, <2>2, Zenon DEF IInv, PoolTypes, Engines, InitCount
    <2>4. Fresh' /\ IdleEmpty'
      BY <2>1, <2>2, SMTT(30) DEF IInv, PoolTypes, Fresh, IdleEmpty
    <2>5. OwnedOnce'
      BY <2>1, <2>2 DEF IInv, PoolTypes, OwnedOnce
    <2>6. NoneLost'
      <3> SUFFICES ASSUME NEW e \in 1 .. made
                   PROVE  \/ \E i \in 1 .. Len(pool') : pool'[i] = e
                          \/ \E u \in Threads : engine'[u] = e
        BY <2>1, Zenon DEF NoneLost
      <3>1. CASE \E u \in Threads : engine[u] = e
        BY <3>1, <2>1, ConnPoolAssumption DEF IInv, PoolTypes, IdleEmpty
      <3>2. CASE \E i \in 1 .. Len(pool) : pool[i] = e
        <4>1. PICK i \in 1 .. Len(pool) : pool[i] = e
          BY <3>2, Zenon
        <4>2. CASE i = 1
          BY <4>1, <4>2, <2>1, <2>2, Zenon DEF IInv, PoolTypes
        <4>3. CASE i # 1
          <5>1. i - 1 \in 1 .. Len(pool') /\ pool'[i - 1] = e
            BY <4>1, <4>3, <2>2
          <5> QED
            BY <5>1, Zenon
        <4> QED
          BY <4>2, <4>3, Zenon
      <3> QED
        BY <3>1, <3>2, <2>1, Zenon DEF IInv, NoneLost
    <2> QED
      BY <2>3, <2>4, <2>5, <2>6, Zenon DEF IInv
  <1> QED
    BY <1>1, <1>2, Zenon

\* DBConnectionPush, RedisConnectionPush: the engine moves from the thread to the pool.
LEMMA PushIInv == ASSUME IInv, NEW t \in Threads, Push(t) PROVE IInv'
  <1> USE InitCountNat, NullNoEngine
  <1>1. /\ pool' = Append(pool, engine[t]) /\ engine' = [engine EXCEPT ![t] = Null]
        /\ at' = [at EXCEPT ![t] = "idle"] /\ UNCHANGED <<kind, made>> /\ Running
    BY Zenon DEF Push
  <1>2. /\ Len(pool') = Len(pool) + 1 /\ Len(pool) \in Nat
        /\ \A i \in 1 .. Len(pool) : pool'[i] = pool[i]
        /\ pool'[Len(pool) + 1] = engine[t]
        /\ pool' \in Seq(Engines \cup {Null})
    BY <1>1 DEF IInv, PoolTypes
  <1>3. PoolTypes'
    BY <1>1, <1>2, Zenon DEF IInv, PoolTypes, Engines, InitCount
  <1>4. Fresh' /\ IdleEmpty'
    BY <1>1, <1>2 DEF IInv, PoolTypes, Fresh, IdleEmpty
  <1>5. OwnedOnce'
    BY <1>1, <1>2 DEF IInv, PoolTypes, OwnedOnce
  <1>6. NoneLost'
    BY <1>1, <1>2 DEF IInv, PoolTypes, NoneLost
  <1> QED
    BY <1>3, <1>4, <1>5, <1>6, Zenon DEF IInv

\* Dest empties the pool; the engines in hands stay where they are.
LEMMA DestIInv == ASSUME IInv, Dest PROVE IInv'
  <1>1. pool' = <<>> /\ Len(pool') = 0 /\ ub' /\ UNCHANGED <<kind, made, at, engine>>
    BY Zenon DEF Dest
  <1>2. PoolTypes' /\ Fresh' /\ IdleEmpty' /\ OwnedOnce'
    BY <1>1 DEF IInv, PoolTypes, Fresh, IdleEmpty, OwnedOnce, Engines, InitCount
  <1> QED
    BY <1>1, <1>2, Zenon DEF IInv, NoneLost, Running

\* Every step of the pools and of the objects that borrow from them keeps IInv.
LEMMA NextIInv == IInv /\ [Next]_vars => IInv'
  <1> SUFFICES ASSUME IInv, [Next]_vars PROVE IInv'
    BY Zenon
  <1>1. CASE InitTurn
    BY <1>1, InitTurnIInv, Zenon
  <1>2. ASSUME NEW t \in Threads, Pop(t) PROVE IInv'
    BY <1>2, PopIInv, Zenon
  <1>3. ASSUME NEW t \in Threads, Push(t) PROVE IInv'
    BY <1>3, PushIInv, Zenon
  <1>4. CASE Dest
    BY <1>4, DestIInv, Zenon
  <1>5. ASSUME NEW t \in Threads,
               GetNull(t) \/ Release(t) \/ CheckStale(t) \/ CheckCrash(t)
               \/ \E ok \in BOOLEAN : Reconnect(t, ok)
        PROVE IInv'
    <2>1. UNCHANGED <<kind, pool, made, engine>> /\ Running
      BY <1>5, Zenon DEF GetNull, Release, CheckStale, CheckCrash, Reconnect
    <2>2. \/ at' = at
          \/ \E p \in {"failed", "released", "ready"} : at' = [at EXCEPT ![t] = p]
      BY <1>5, Zenon DEF GetNull, Release, CheckStale, CheckCrash, Reconnect
    <2>3. /\ at' \in [Threads -> {"idle", "held", "released", "ready", "failed"}]
          /\ \A u \in Threads : at'[u] = "idle" => at[u] = "idle"
      BY <2>2, Zenon DEF IInv, PoolTypes
    <2> QED
      BY <2>1, <2>3, Frame, Zenon
  <1>6. ASSUME NEW e \in Engines, ServerDrops(e) PROVE IInv'
    <2>1. UNCHANGED <<kind, pool, made, engine, at>> /\ Running
      BY <1>6, Zenon DEF ServerDrops
    <2> QED
      BY <2>1, Frame, Zenon DEF IInv, PoolTypes
  <1>7. CASE UNCHANGED vars
    <2>1. UNCHANGED <<kind, pool, made, engine, at, ub, aborted>>
      BY <1>7, Zenon DEF vars
    <2> QED
      BY <2>1, Frame, Zenon DEF IInv, PoolTypes, Running
  <1> QED
    BY <1>1, <1>2, <1>3, <1>4, <1>5, <1>6, <1>7, Zenon DEF Next

\* The inductive invariant holds throughout.
LEMMA InvariantHolds == Spec => []IInv
  BY InitIInv, NextIInv, PTL DEF Spec

\* No two threads ever share a connection, and none is in a hand and in the pool: for
\* every number of threads and connections, of either kind of pool.
THEOREM ConnectionExclusive == Spec => []OwnedOnce
  <1>1. IInv => OwnedOnce
    BY Zenon DEF IInv
  <1> QED
    BY <1>1, InvariantHolds, PTL

\* Until undefined behaviour, an assertion or Dest ends it, every engine that Init made is
\* in the pool or with a thread.
THEOREM NoConnectionLost == Spec => []NoneLost
  <1>1. IInv => NoneLost
    BY Zenon DEF IInv
  <1> QED
    BY <1>1, InvariantHolds, PTL

\* Both together: every engine that Init made is in exactly one place, for every number of
\* threads and connections.
THEOREM EveryEngineInOnePlace == Spec => []EngineInOnePlace
  <1>1. OwnedOnce /\ NoneLost => EngineInOnePlace
    BY Zenon DEF EngineInOnePlace
  <1> QED
    BY <1>1, ConnectionExclusive, NoConnectionLost, PTL
-----------------------------------------------------------------------------
(***************************************************************************)
(* The NULLs.  NullsBounded alone is not inductive: a failed pop adds one. *)
(* What bounds them is a count that no step changes.  The entries of the   *)
(* pool and the objects alive are together the engines made and the NULLs  *)
(* (Conserved); a pop fails only on an empty pool, and then the objects    *)
(* alive are the engines and the NULLs, of which there is at most one for  *)
(* each thread.                                                            *)
(***************************************************************************)
Entries == Engines \cup {Null}
NullsIn(p) == {i \in 1 .. Len(p) : p[i] = Null}
Alive == {t \in Threads : at[t] # "idle"}
NullHands == {t \in Threads : at[t] # "idle" /\ engine[t] = Null}

Conserved ==
  Running => Len(pool) + Cardinality(Alive)
               = made + Cardinality(NullsIn(pool)) + Cardinality(NullHands)

\* The NULLs of a pool are finitely many.
LEMMA NullsFinite ==
  ASSUME NEW p \in Seq(Entries)
  PROVE  IsFiniteSet(NullsIn(p)) /\ Cardinality(NullsIn(p)) \in Nat
  <1>1. IsFiniteSet(1 .. Len(p))
    BY FS_Interval
  <1>2. NullsIn(p) \in SUBSET (1 .. Len(p))
    BY Zenon DEF NullsIn
  <1> QED
    BY <1>1, <1>2, FS_Subset, FS_CardinalityType, Zenon

\* The objects alive, and those without an engine, are finitely many.
LEMMA HandsFinite ==
  /\ IsFiniteSet(Alive) /\ Cardinality(Alive) \in Nat
  /\ IsFiniteSet(NullHands) /\ Cardinality(NullHands) \in Nat
  /\ Cardinality(NullHands') \in Nat
  <1>1. Alive \in SUBSET Threads /\ NullHands \in SUBSET Threads /\ NullHands' \in SUBSET Threads
    BY Zenon DEF Alive, NullHands
  <1> QED
    BY <1>1, ConnPoolAssumption, FS_Subset, FS_CardinalityType, Zenon

\* push_back of an engine keeps the NULLs of the pool, push_back of a NULL adds one.
LEMMA NullsAppend ==
  ASSUME NEW p \in Seq(Entries), NEW x \in Entries
  PROVE  Cardinality(NullsIn(Append(p, x)))
           = IF x = Null THEN Cardinality(NullsIn(p)) + 1 ELSE Cardinality(NullsIn(p))
  <1>1. /\ Len(p) \in Nat /\ Len(Append(p, x)) = Len(p) + 1
        /\ \A i \in 1 .. Len(p) : Append(p, x)[i] = p[i]
        /\ Append(p, x)[Len(p) + 1] = x
    OBVIOUS
  <1>2. Len(p) + 1 \notin NullsIn(p)
    BY <1>1 DEF NullsIn
  <1>3. CASE x = Null
    <2>1. NullsIn(Append(p, x)) = NullsIn(p) \cup {Len(p) + 1}
      BY <1>1, <1>3 DEF NullsIn
    <2> QED
      BY <1>2, <1>3, <2>1, NullsFinite, FS_AddElement, Zenon
  <1>4. CASE x # Null
    <2>1. NullsIn(Append(p, x)) = NullsIn(p)
      BY <1>1, <1>4 DEF NullsIn
    <2> QED
      BY <1>4, <2>1, Zenon
  <1> QED
    BY <1>3, <1>4, Zenon

\* pop_front of an engine keeps the NULLs of the pool, pop_front of a NULL removes one.
LEMMA NullsTail ==
  ASSUME NEW p \in Seq(Entries), p # <<>>
  PROVE  Cardinality(NullsIn(Tail(p)))
           = IF p[1] = Null THEN Cardinality(NullsIn(p)) - 1 ELSE Cardinality(NullsIn(p))
  <1> DEFINE f == [i \in NullsIn(Tail(p)) |-> i + 1]
  <1>1. /\ Len(p) \in Nat \ {0} /\ Len(Tail(p)) = Len(p) - 1 /\ Tail(p) \in Seq(Entries)
        /\ \A i \in 1 .. Len(p) - 1 : Tail(p)[i] = p[i + 1]
    OBVIOUS
  <1>2. f \in [NullsIn(Tail(p)) -> NullsIn(p) \ {1}]
    BY <1>1 DEF NullsIn
  <1>3. \A i, j \in NullsIn(Tail(p)) : f[i] = f[j] => i = j
    BY <1>1 DEF NullsIn
  <1>4. \A k \in NullsIn(p) \ {1} : \E i \in NullsIn(Tail(p)) : f[i] = k
    <2> TAKE k \in NullsIn(p) \ {1}
    <2>1. k - 1 \in NullsIn(Tail(p)) /\ f[k - 1] = k
      BY <1>1 DEF NullsIn
    <2> QED
      BY <2>1, Zenon
  <1>5. ExistsBijection(NullsIn(Tail(p)), NullsIn(p) \ {1})
    <2> HIDE DEF f
    <2>1. f \in Bijection(NullsIn(Tail(p)), NullsIn(p) \ {1})
      BY <1>2, <1>3, <1>4, Zenon DEF Bijection, Injection, Surjection, IsInjective
    <2> QED
      BY <2>1, Zenon DEF ExistsBijection
  <1>6. Cardinality(NullsIn(Tail(p))) = Cardinality(NullsIn(p) \ {1})
    BY <1>1, <1>5, NullsFinite, FS_Bijection, Zenon
  <1>7. (1 \in NullsIn(p)) <=> (p[1] = Null)
    BY <1>1 DEF NullsIn
  <1> QED
    BY <1>6, <1>7, NullsFinite, FS_RemoveElement, Zenon

\* The bound in the words of this section, before and after a step.
LEMMA BoundIs ==
  /\ NullsBounded <=>
       (Running => Cardinality(NullsIn(pool)) + Cardinality(NullHands)
                     <= IF Cardinality(Threads) > InitCount
                        THEN Cardinality(Threads) - InitCount ELSE 0)
  /\ NullsBounded' <=>
       (Running' => Cardinality(NullsIn(pool')) + Cardinality(NullHands')
                      <= IF Cardinality(Threads) > InitCount'
                         THEN Cardinality(Threads) - InitCount' ELSE 0)
  BY Zenon DEF NullsBounded, NullsIn, NullHands

\* A step that moves nothing and starts or ends no object keeps the count and the bound.
LEMMA CountFrame ==
  ASSUME Conserved, NullsBounded, UNCHANGED <<kind, pool, made, engine>>, Running' => Running,
         \A t \in Threads : (at'[t] = "idle") <=> (at[t] = "idle")
  PROVE  Conserved' /\ NullsBounded'
  <1>1. Alive' = Alive /\ NullHands' = NullHands /\ NullsIn(pool') = NullsIn(pool)
    BY Zenon DEF Alive, NullHands, NullsIn
  <1>2. InitCount' = InitCount
    BY Zenon DEF InitCount
  <1>3. Conserved'
    BY <1>1, Zenon DEF Conserved
  <1>4. NullsBounded'
    BY <1>1, <1>2, BoundIs, Zenon
  <1> QED
    BY <1>3, <1>4, Zenon

\* A turn of Init adds one engine and one entry.
LEMMA InitTurnCount ==
  ASSUME IInv, Conserved, NullsBounded, InitTurn
  PROVE  Conserved' /\ NullsBounded'
  <1>1. CASE aborted'
    BY <1>1, Zenon DEF Conserved, NullsBounded, Running
  <1>2. CASE ~aborted'
    <2>1. /\ UNCHANGED <<kind, at, engine>> /\ made' = made + 1 /\ Running
          /\ made \in Nat /\ made + 1 \in Engines /\ pool \in Seq(Entries)
          /\ pool' = Append(pool, made + 1) /\ InitCount' = InitCount
      BY <1>2, ConnPoolAssumption
      DEF InitTurn, IInv, PoolTypes, Engines, InitCount, Entries, Running
    <2>2. Cardinality(NullsIn(pool'))  = Cardinality(NullsIn(pool))
      BY <2>1, NullsAppend, NullNoEngine, Zenon DEF Entries
    <2>3. Len(pool') = Len(pool) + 1 /\ Len(pool) \in Nat /\ made' = made + 1 /\ made \in Nat
      BY <2>1
    <2>4. Alive' = Alive /\ NullHands' = NullHands
      BY <2>1, Zenon DEF Alive, NullHands
    <2>5. Cardinality(NullsIn(pool)) \in Nat
      BY <2>1, NullsFinite, Zenon
    <2>6. Conserved'
      <3>1. Len(pool) + Cardinality(Alive)
              = made + Cardinality(NullsIn(pool)) + Cardinality(NullHands)
        BY <2>1, Zenon DEF Conserved
      <3>2. Len(pool') + Cardinality(Alive')
              = made' + Cardinality(NullsIn(pool')) + Cardinality(NullHands')
        <4>1. /\ Cardinality(Alive') = Cardinality(Alive)
              /\ Cardinality(NullHands') = Cardinality(NullHands)
          BY <2>4, Zenon
        <4> QED
          <5>1. Len(pool') + Cardinality(Alive') = Len(pool) + Cardinality(Alive) + 1
            BY <4>1, <2>3, HandsFinite
          <5>2. made' = made + 1 /\ made \in Nat
            BY <2>1, Zenon
          <5>3. made' + Cardinality(NullsIn(pool')) + Cardinality(NullHands')
                  = made + Cardinality(NullsIn(pool)) + Cardinality(NullHands) + 1
            BY <4>1, <2>2, <2>5, <5>2, HandsFinite, SMTT(30)
          <5> QED
            BY <3>1, <5>1, <5>3, Zenon
      <3> QED
        BY <3>2, Zenon DEF Conserved
    <2>7. NullsBounded'
      BY <2>1, <2>2, <2>4, BoundIs, Zenon
    <2> QED
      BY <2>6, <2>7, Zenon
  <1> QED
    BY <1>1, <1>2, Zenon

\* A pop starts an object: it takes the head of the pool, or it takes a NULL out of
\* nothing, and then every entry is in the hands of a thread.
LEMMA PopCount ==
  ASSUME IInv, Conserved, NullsBounded, NEW t \in Threads, Pop(t)
  PROVE  Conserved' /\ NullsBounded'
  <1>1. /\ at[t] = "idle" /\ at' = [at EXCEPT ![t] = "held"] /\ at \in [Threads -> {"idle", "held", "released", "ready", "failed"}]
        /\ engine \in [Threads -> Entries] /\ pool \in Seq(Entries)
        /\ made' = made /\ made = InitCount /\ InitCount' = InitCount /\ Running
    BY Zenon DEF Pop, IInv, PoolTypes, Entries, InitCount
  <1>2. Alive' = Alive \cup {t} /\ t \notin Alive /\ t \notin NullHands
    BY <1>1, Zenon DEF Alive, NullHands
  <1>3. Cardinality(Alive') = Cardinality(Alive) + 1
    BY <1>2, HandsFinite, FS_AddElement, Zenon
  <1>4. Len(pool) + Cardinality(Alive)
          = made + Cardinality(NullsIn(pool)) + Cardinality(NullHands)
    BY <1>1, Zenon DEF Conserved
  <1>5. Cardinality(Alive') <= Cardinality(Threads) /\ Cardinality(Threads) \in Nat
    <2>1. Alive' \in SUBSET Threads
      BY Zenon DEF Alive
    <2> QED
      BY <2>1, ConnPoolAssumption, FS_Subset, FS_CardinalityType, Zenon
  <1>6. made' = made /\ made = InitCount /\ InitCount' = InitCount /\ InitCount \in Nat
    BY <1>1, InitCountNat, Zenon
  <1>7. CASE pool = <<>>
    <2>1. pool' = pool /\ engine' = [engine EXCEPT ![t] = Null]
      BY <1>7, Zenon DEF Pop
    <2>2. NullHands' = NullHands \cup {t}
      BY <1>1, <2>1, Zenon DEF NullHands
    <2>3. Cardinality(NullHands') = Cardinality(NullHands) + 1
      BY <1>2, <2>2, HandsFinite, FS_AddElement, Zenon
    <2>4. Len(pool) = 0 /\ NullsIn(pool) = {} /\ Cardinality(NullsIn(pool)) = 0
      BY <1>7, FS_EmptySet DEF NullsIn
    <2>5. Len(pool') = 0 /\ Cardinality(NullsIn(pool')) = 0
      BY <2>1, <2>4, Zenon
    <2>6. Cardinality(Alive') = made' + Cardinality(NullHands')
      BY <1>3, <1>4, <1>6, <2>3, <2>4, HandsFinite, SMTT(30)
    <2>7. Conserved'
      <3>1. Len(pool') + Cardinality(Alive')
              = made' + Cardinality(NullsIn(pool')) + Cardinality(NullHands')
        BY <1>3, <1>6, <2>3, <2>5, <2>6, HandsFinite, SMTT(30)
      <3> QED
        BY <3>1, Zenon DEF Conserved
    <2>8. NullsBounded'
      <3>1. Cardinality(NullsIn(pool')) + Cardinality(NullHands')
              <= IF Cardinality(Threads) > InitCount'
                 THEN Cardinality(Threads) - InitCount' ELSE 0
        BY <1>3, <1>5, <1>6, <2>3, <2>5, <2>6, HandsFinite, SMTT(30)
      <3> QED
        BY <3>1, BoundIs, Zenon
    <2> QED
      BY <2>7, <2>8, Zenon
  <1>8. CASE pool # <<>>
    <2>1. pool' = Tail(pool) /\ engine' = [engine EXCEPT ![t] = pool[1]]
      BY <1>1, <1>8, SMTT(30) DEF Pop
    <2>2. Len(pool') = Len(pool) - 1 /\ Len(pool) \in Nat
      BY <1>1, <1>8, <2>1
    <2>3. Cardinality(NullsIn(pool)) \in Nat
      BY <1>1, NullsFinite, Zenon
    <2>4. Cardinality(NullsIn(pool')) + Cardinality(NullHands')
            = Cardinality(NullsIn(pool)) + Cardinality(NullHands)
      <3>1. CASE pool[1] = Null
        <4>1. NullHands' = NullHands \cup {t}
          BY <1>1, <2>1, <3>1, Zenon DEF NullHands
        <4>2. Cardinality(NullHands') = Cardinality(NullHands) + 1
          BY <1>2, <4>1, HandsFinite, FS_AddElement, Zenon
        <4>3. Cardinality(NullsIn(pool')) = Cardinality(NullsIn(pool)) - 1
          BY <1>1, <1>8, <2>1, <3>1, NullsTail, Zenon
        <4> QED
          BY <2>3, <4>2, <4>3, HandsFinite, SMTT(30)
      <3>2. CASE pool[1] # Null
        <4>1. NullHands' = NullHands
          BY <1>1, <2>1, <3>2, Zenon DEF NullHands
        <4>2. Cardinality(NullsIn(pool')) = Cardinality(NullsIn(pool))
          BY <1>1, <1>8, <2>1, <3>2, NullsTail, Zenon
        <4> QED
          BY <4>1, <4>2, Zenon
      <3> QED
        BY <3>1, <3>2, Zenon
    <2>5. Cardinality(NullsIn(pool')) \in Int /\ Cardinality(NullHands') \in Int
      <3>1. pool' \in Seq(Entries)
        BY <1>1, <1>8, <2>1
      <3> QED
        BY <3>1, NullsFinite, HandsFinite, SMTT(30)
    <2>6. Conserved'
      <3>1. Len(pool') + Cardinality(Alive')
              = made' + Cardinality(NullsIn(pool')) + Cardinality(NullHands')
        <4>1. Len(pool') + Cardinality(Alive') = Len(pool) + Cardinality(Alive)
          BY <1>3, <2>2, HandsFinite
        <4>2. made' + Cardinality(NullsIn(pool')) + Cardinality(NullHands')
                = made + Cardinality(NullsIn(pool)) + Cardinality(NullHands)
          BY <1>6, <2>3, <2>4, <2>5, HandsFinite, SMTT(30)
        <4> QED
          BY <1>4, <4>1, <4>2, Zenon
      <3> QED
        BY <3>1, Zenon DEF Conserved
    <2>7. NullsBounded'
      BY <1>1, <2>4, BoundIs, Zenon
    <2> QED
      BY <2>6, <2>7, Zenon
  <1> QED
    BY <1>7, <1>8, Zenon

\* A push ends an object and gives back what it took, an engine or a NULL.
LEMMA PushCount ==
  ASSUME IInv, Conserved, NullsBounded, NEW t \in Threads, Push(t)
  PROVE  Conserved' /\ NullsBounded'
  <1>1. /\ at[t] # "idle" /\ at' = [at EXCEPT ![t] = "idle"] /\ at \in [Threads -> {"idle", "held", "released", "ready", "failed"}]
        /\ engine \in [Threads -> Entries] /\ pool \in Seq(Entries)
        /\ pool' = Append(pool, engine[t]) /\ engine' = [engine EXCEPT ![t] = Null]
        /\ made' = made /\ made \in Nat /\ InitCount' = InitCount /\ Running
    BY InitCountNat, SMTT(30) DEF Push, IInv, PoolTypes, Entries, InitCount
  <1>2. Alive' = Alive \ {t} /\ t \in Alive
    BY <1>1, Zenon DEF Alive
  <1>3. Cardinality(Alive') = Cardinality(Alive) - 1
    BY <1>2, HandsFinite, FS_RemoveElement, Zenon
  <1>4. NullHands' = NullHands \ {t} /\ ((t \in NullHands) <=> (engine[t] = Null))
    BY <1>1, Zenon DEF NullHands
  <1>5. Len(pool') = Len(pool) + 1 /\ Len(pool) \in Nat /\ made' = made /\ made \in Nat
    BY <1>1
  <1>6. Cardinality(NullsIn(pool)) \in Nat
    BY <1>1, NullsFinite, Zenon
  <1>7. Cardinality(NullsIn(pool')) + Cardinality(NullHands')
          = Cardinality(NullsIn(pool)) + Cardinality(NullHands)
    <2>1. CASE engine[t] = Null
      <3>1. Cardinality(NullHands') = Cardinality(NullHands) - 1
        BY <1>4, <2>1, HandsFinite, FS_RemoveElement, Zenon
      <3>2. Cardinality(NullsIn(pool')) = Cardinality(NullsIn(pool)) + 1
        BY <1>1, <2>1, NullsAppend, Zenon
      <3> QED
        BY <1>6, <3>1, <3>2, HandsFinite, SMTT(30)
    <2>2. CASE engine[t] # Null
      <3>1. NullHands' = NullHands
        BY <1>4, <2>2, Zenon
      <3>2. Cardinality(NullsIn(pool')) = Cardinality(NullsIn(pool))
        BY <1>1, <2>2, NullsAppend, Zenon
      <3> QED
        BY <3>1, <3>2, Zenon
    <2> QED
      BY <2>1, <2>2, Zenon
  <1>8. Cardinality(NullsIn(pool')) \in Int /\ Cardinality(NullHands') \in Int
    <2>1. pool' \in Seq(Entries)
      BY <1>1
    <2> QED
      BY <2>1, NullsFinite, HandsFinite
  <1>9. Conserved'
    <2>1. Len(pool) + Cardinality(Alive)
            = made + Cardinality(NullsIn(pool)) + Cardinality(NullHands)
      BY <1>1, Zenon DEF Conserved
    <2>2. Len(pool') + Cardinality(Alive')
            = made' + Cardinality(NullsIn(pool')) + Cardinality(NullHands')
      <3>1. Len(pool') + Cardinality(Alive') = Len(pool) + Cardinality(Alive)
        BY <1>3, <1>5, HandsFinite, SMTT(30)
      <3>2. made' + Cardinality(NullsIn(pool')) + Cardinality(NullHands')
              = made + Cardinality(NullsIn(pool)) + Cardinality(NullHands)
        <4>1. made' = made /\ made \in Nat
          BY <1>1, Zenon
        <4> QED
          BY <1>6, <1>7, <1>8, <4>1, HandsFinite, SMTT(30)
      <3> QED
        BY <2>1, <3>1, <3>2, Zenon
    <2> QED
      BY <2>2, Zenon DEF Conserved
  <1>10. NullsBounded'
    BY <1>1, <1>7, BoundIs, Zenon
  <1> QED
    BY <1>9, <1>10, Zenon

\* Every step keeps the count and the bound.
LEMMA NextCount ==
  ASSUME IInv, Conserved, NullsBounded, [Next]_vars
  PROVE  Conserved' /\ NullsBounded'
  <1>1. CASE InitTurn
    BY <1>1, InitTurnCount, Zenon
  <1>2. ASSUME NEW t \in Threads, Pop(t) PROVE Conserved' /\ NullsBounded'
    BY <1>2, PopCount, Zenon
  <1>3. ASSUME NEW t \in Threads, Push(t) PROVE Conserved' /\ NullsBounded'
    BY <1>3, PushCount, Zenon
  <1>4. CASE Dest
    BY <1>4, Zenon DEF Dest, Conserved, NullsBounded, Running
  <1>5. ASSUME NEW t \in Threads,
               GetNull(t) \/ Release(t) \/ CheckStale(t) \/ CheckCrash(t)
               \/ \E ok \in BOOLEAN : Reconnect(t, ok)
        PROVE  Conserved' /\ NullsBounded'
    <2>1. UNCHANGED <<kind, pool, made, engine>> /\ Running
      BY <1>5, Zenon DEF GetNull, Release, CheckStale, CheckCrash, Reconnect
    <2>2. \/ at' = at
          \/ at[t] # "idle" /\ \E p \in {"failed", "released", "ready"} : at' = [at EXCEPT ![t] = p]
      BY <1>5, Zenon DEF GetNull, Release, CheckStale, CheckCrash, Reconnect
    <2>3. \A u \in Threads : (at'[u] = "idle") <=> (at[u] = "idle")
      BY <2>2, Zenon DEF IInv, PoolTypes
    <2> QED
      BY <2>1, <2>3, CountFrame, Zenon
  <1>6. ASSUME NEW e \in Engines, ServerDrops(e) PROVE Conserved' /\ NullsBounded'
    <2>1. UNCHANGED <<kind, pool, made, engine, at>> /\ Running
      BY <1>6, Zenon DEF ServerDrops
    <2> QED
      BY <2>1, CountFrame, Zenon
  <1>7. CASE UNCHANGED vars
    <2>1. UNCHANGED <<kind, pool, made, engine, at, ub, aborted>>
      BY <1>7, Zenon DEF vars
    <2> QED
      BY <2>1, CountFrame, Zenon DEF Running
  <1> QED
    BY <1>1, <1>2, <1>3, <1>4, <1>5, <1>6, <1>7, Zenon DEF Next

\* Nothing is counted before Init.
LEMMA InitCounted == Init => Conserved /\ NullsBounded
  <1> SUFFICES ASSUME Init PROVE Conserved /\ NullsBounded
    BY Zenon
  <1>1. Len(pool) = 0 /\ made = 0 /\ Alive = {} /\ NullHands = {} /\ NullsIn(pool) = {}
    BY DEF Init, Alive, NullHands, NullsIn
  <1>2. /\ Cardinality(Alive) = 0 /\ Cardinality(NullHands) = 0
        /\ Cardinality(NullsIn(pool)) = 0 /\ Len(pool) = 0 /\ made = 0
    BY <1>1, FS_EmptySet, Zenon
  <1>3. Conserved
    BY <1>2 DEF Conserved
  <1>4. Cardinality(Threads) \in Nat
    BY ConnPoolAssumption, FS_CardinalityType, Zenon
  <1>5. NullsBounded
    BY <1>2, <1>4, BoundIs, InitCountNat
  <1> QED
    BY <1>3, <1>5, Zenon

\* For every number of threads and connections: failed pops leave at most as many NULLs
\* in circulation as there are threads more than engines, however often they fail.
THEOREM NullsStayBounded == Spec => []NullsBounded
  <1> DEFINE NInv == IInv /\ Conserved /\ NullsBounded
  <1>1. Init => NInv
    BY InitIInv, InitCounted, Zenon
  <1>2. NInv /\ [Next]_vars => NInv'
    BY NextIInv, NextCount, Zenon
  <1>3. NInv => NullsBounded
    BY Zenon
  <1> QED
    BY <1>1, <1>2, <1>3, PTL DEF Spec
-----------------------------------------------------------------------------
(***************************************************************************)
(* LostOnlyByWrite and FrontSafe of StoragePool, for every finite number   *)
(* of engines and threads.                                                 *)
(*                                                                         *)
(* LostOnlyByWrite says where every engine is.  It is kept by the steps    *)
(* only together with what a thread's local variable holds at each point   *)
(* of its call (Hands): Size and Front overwrite the variable, so no       *)
(* engine may be in it then, and a failed WriteData drops what it holds,   *)
(* so it must hold an engine.  FrontSafe follows by counting: with the     *)
(* list empty every engine is held or dropped, and the thread at front()   *)
(* holds none.                                                             *)
(***************************************************************************)
DbPlaces == {"idle", "size", "front", "popped", "exec", "push"}

\* What Init and the pool's users provide: NULL is no engine, and the engines and the
\* threads are finitely many.
DbFinite ==
  /\ DbNull \notin DbEngines
  /\ IsFiniteSet(DbEngines) /\ IsFiniteSet(DbThreads)

DbTypes ==
  /\ dbPool \in Seq(DbEngines \cup {DbNull})
  /\ dbAt \in [DbThreads -> DbPlaces]
  /\ dbOp \in [DbThreads -> DbOps \cup {"none"}]
  /\ dbEngine \in [DbThreads -> DbEngines \cup {DbNull}]
  /\ dropped \in SUBSET DbEngines
  /\ dbUb \in BOOLEAN

\* an engine is once in the list
Once ==
  \A i, j \in 1 .. Len(dbPool) : i # j /\ dbPool[i] # DbNull => dbPool[i] # dbPool[j]

\* with one thread, and then not in the list
Apart ==
  /\ \A t, u \in DbThreads : t # u /\ dbEngine[t] # DbNull => dbEngine[t] # dbEngine[u]
  /\ \A t \in DbThreads : dbEngine[t] # DbNull => \A i \in 1 .. Len(dbPool) : dbPool[i] # dbEngine[t]

\* or dropped, and then nowhere else
Gone ==
  /\ \A i \in 1 .. Len(dbPool) : dbPool[i] \notin dropped
  /\ \A t \in DbThreads : dbEngine[t] \notin dropped

\* and nowhere else
Somewhere ==
  \A e \in DbEngines :
    \/ \E i \in 1 .. Len(dbPool) : dbPool[i] = e
    \/ \E t \in DbThreads : dbEngine[t] = e
    \/ e \in dropped

\* what the variable engine holds at each point of the call
Hands ==
  \A t \in DbThreads :
    /\ dbAt[t] \in {"idle", "size", "front"} => dbEngine[t] = DbNull
    /\ dbAt[t] = "exec" => dbEngine[t] # DbNull

DbInv ==
  /\ DbTypes /\ Once /\ Apart /\ Gone
  /\ ~dbUb => Somewhere /\ Hands
-----------------------------------------------------------------------------
\* Init connects every engine: a list as long as there are engines, without repetition,
\* holds them all.
LEMMA InitLists ==
  ASSUME DbFinite, DbInit
  PROVE  DbInv
<1>. DEFINE n == Cardinality(DbEngines)
<1>1. n \in Nat
  BY FS_CardinalityType, Zenon DEF DbFinite
<1>2. dbPool \in [1 .. n -> DbEngines] /\ \A i, j \in 1 .. n : i # j => dbPool[i] # dbPool[j]
  BY Zenon DEF DbInit
<1>. HIDE DEF n
<1>3. dbPool \in Seq(DbEngines) /\ Len(dbPool) = n
  BY <1>1, <1>2, SeqDef
<1>4. dbPool \in Injection(1 .. n, DbEngines)
  BY <1>2, Zenon DEF Injection, IsInjective
<1>5. Cardinality(1 .. n) = n
  BY <1>1, FS_Interval
<1>6. dbPool \in Surjection(1 .. n, DbEngines)
  BY <1>4, <1>5, FS_Injection, Zenon DEF DbFinite, n
<1>7. \A e \in DbEngines : \E i \in 1 .. Len(dbPool) : dbPool[i] = e
  BY <1>3, <1>6, Zenon DEF Surjection
<1>8. dbPool \in Seq(DbEngines \cup {DbNull})
  BY <1>3, SeqMonotonic, Zenon
<1>9. DbTypes
  BY <1>8, Zenon DEF DbInit, DbTypes, DbPlaces
<1>10. Once
  BY <1>2, <1>3, Zenon DEF Once
<1>11. Apart /\ Gone
  BY <1>9, Zenon DEF DbInit, Apart, Gone, DbTypes, DbFinite
<1>12. Somewhere /\ Hands
  BY <1>7, Zenon DEF DbInit, Somewhere, Hands
<1>. QED  BY <1>9, <1>10, <1>11, <1>12, Zenon DEF DbInv
\* Call, NoEngine and Release move a thread and touch no engine.
LEMMA MovesKeep ==
  ASSUME DbInv, NEW t \in DbThreads,
         (\E o \in DbOps : DbCall(t, o)) \/ NoEngine(t) \/ DbRelease(t)
  PROVE  DbInv'
<1>. USE DEF DbGo
<1>1. UNCHANGED <<dbPool, dbEngine, dropped, dbUb>> /\ ~dbUb
  BY Zenon DEF DbCall, NoEngine, DbRelease
<1>2. DbTypes'
  BY <1>1, SMTT(30) DEF DbInv, DbTypes, DbCall, NoEngine, DbRelease, DbPlaces
<1>3. Once' /\ Apart' /\ Gone' /\ Somewhere'
  BY <1>1 DEF DbInv, Once, Apart, Gone, Somewhere
<1>4. Hands'
  BY <1>1, Zenon DEF DbInv, DbTypes, Hands, DbCall, NoEngine, DbRelease
<1>. QED  BY <1>1, <1>2, <1>3, <1>4, Zenon DEF DbInv

\* DBConnectionPop reads the size: it sets to NULL a variable that held nothing.
LEMMA SizeKeeps ==
  ASSUME DbInv, NEW t \in DbThreads, Size(t)
  PROVE  DbInv'
<1>. USE DEF DbGo
<1>1. UNCHANGED <<dbPool, dropped, dbUb>> /\ ~dbUb /\ dbAt[t] = "size"
  BY Zenon DEF Size
<1>2. dbEngine' = dbEngine
  BY <1>1, Zenon DEF DbInv, DbTypes, Hands, Size
<1>3. DbTypes'
  BY <1>1, <1>2, Zenon DEF DbInv, DbTypes, Size, DbPlaces
<1>4. Once' /\ Apart' /\ Gone' /\ Somewhere'
  BY <1>1, <1>2 DEF DbInv, Once, Apart, Gone, Somewhere
<1>5. Hands'
  BY <1>1, <1>2, Zenon DEF DbInv, DbTypes, Hands, Size
<1>. QED  BY <1>1, <1>3, <1>4, <1>5, Zenon DEF DbInv

\* DBConnectionPop takes the front: the engine leaves the list for the thread.
LEMMA FrontKeeps ==
  ASSUME DbFinite, DbInv, NEW t \in DbThreads, Front(t)
  PROVE  DbInv'
<1>. USE DEF DbGo
<1>1. UNCHANGED <<dbOp, dropped>> /\ ~dbUb /\ dbAt[t] = "front" /\ dbEngine[t] = DbNull
      /\ dbAt' = [dbAt EXCEPT ![t] = "popped"]
  BY Zenon DEF Front, DbInv, Hands
<1>2. CASE dbPool = <<>>
  <2>1. UNCHANGED <<dbPool, dbEngine>> /\ dbUb' = TRUE
    BY <1>2, Zenon DEF Front
  <2>2. DbTypes'
    BY <1>1, <2>1, Zenon DEF DbInv, DbTypes, DbPlaces
  <2>3. Once' /\ Apart' /\ Gone'
    BY <1>1, <2>1, Zenon DEF DbInv, Once, Apart, Gone
  <2>. QED  BY <2>1, <2>2, <2>3, Zenon DEF DbInv
<1>3. CASE dbPool # <<>>
  <2>1. dbEngine' = [dbEngine EXCEPT ![t] = Head(dbPool)] /\ dbPool' = Tail(dbPool) /\ dbUb' = dbUb
    BY <1>3, Zenon DEF Front
  <2>2. dbPool \in Seq(DbEngines \cup {DbNull}) /\ Len(dbPool) \in Nat \ {0}
    BY <1>3, EmptySeq, Zenon DEF DbInv, DbTypes
  <2>3. dbPool' \in Seq(DbEngines \cup {DbNull}) /\ Len(dbPool') = Len(dbPool) - 1
    BY <1>3, <2>1, <2>2, HeadTailProperties, Zenon
  <2>4. \A i \in 1 .. Len(dbPool') : dbPool'[i] = dbPool[i + 1] /\ i + 1 \in 1 .. Len(dbPool)
    BY <1>3, <2>1, <2>2, <2>3, HeadTailProperties, SMTT(30)
  <2>5. Head(dbPool) = dbPool[1] /\ 1 \in 1 .. Len(dbPool)
    BY <2>2
  <2>6. dbPool[1] \in DbEngines \cup {DbNull}
    BY <2>2, <2>5, ElementOfSeq, Zenon
  <2>8. dbEngine' = [dbEngine EXCEPT ![t] = dbPool[1]]
    BY <2>1, <2>5, Zenon
  <2>9. dbEngine'[t] = dbPool[1] /\ \A u \in DbThreads \ {t} : dbEngine'[u] = dbEngine[u]
    BY <2>8, Zenon DEF DbInv, DbTypes
  <2>10. DbTypes'
    BY <1>1, <2>1, <2>3, <2>6, <2>8, Zenon DEF DbInv, DbTypes, DbPlaces
  <2>11. Once'
    <3>. SUFFICES ASSUME NEW i \in 1 .. Len(dbPool'), NEW j \in 1 .. Len(dbPool'),
                         i # j, dbPool'[i] # DbNull
                  PROVE  dbPool'[i] # dbPool'[j]
      BY Zenon DEF Once
    <3>1. i + 1 # j + 1
      BY <2>2, <2>3
    <3>. QED  BY <2>4, <3>1, Zenon DEF DbInv, Once
  <2>12. \A i \in 1 .. Len(dbPool') : dbPool[1] # DbNull => dbPool'[i] # dbPool[1]
    <3>. SUFFICES ASSUME NEW i \in 1 .. Len(dbPool'), dbPool[1] # DbNull PROVE dbPool'[i] # dbPool[1]
      BY Zenon
    <3>1. i + 1 # 1
      BY <2>2, <2>3
    <3>. QED  BY <2>4, <2>5, <3>1 DEF DbInv, Once
  <2>13. Apart'
    BY <2>4, <2>5, <2>9, <2>12, SMTT(30) DEF DbInv, Apart
  <2>14. Gone'
    BY <1>1, <2>4, <2>5, <2>9, Zenon DEF DbInv, Gone
  <2>15. Somewhere'
    <3>. SUFFICES ASSUME NEW e \in DbEngines, e \notin dropped
                  PROVE  (\E i \in 1 .. Len(dbPool') : dbPool'[i] = e) \/ \E u \in DbThreads : dbEngine'[u] = e
      BY <1>1, Zenon DEF Somewhere
    <3>1. CASE \E u \in DbThreads : dbEngine[u] = e /\ u # t
      BY <2>9, <3>1, Zenon
    <3>2. CASE dbEngine[t] = e
      BY <1>1, <3>2, Zenon DEF DbFinite
    <3>3. ASSUME NEW i \in 1 .. Len(dbPool), dbPool[i] = e
          PROVE  (\E k \in 1 .. Len(dbPool') : dbPool'[k] = e) \/ \E u \in DbThreads : dbEngine'[u] = e
      <4>1. CASE i = 1
        BY <2>9, <3>3, <4>1, Zenon
      <4>2. CASE i # 1
        <5>1. i - 1 \in 1 .. Len(dbPool') /\ (i - 1) + 1 = i
          BY <2>2, <2>3, <4>2
        <5>. QED  BY <2>4, <3>3, <5>1, Zenon
      <4>. QED  BY <4>1, <4>2, Zenon
    <3>. QED  BY <1>1, <3>1, <3>2, <3>3, Zenon DEF DbInv, Somewhere
  <2>16. Hands'
    BY <1>1, <2>9, Zenon DEF DbInv, DbTypes, Hands
  <2>. QED  BY <2>10, <2>11, <2>13, <2>14, <2>15, <2>16, Zenon DEF DbInv
<1>. QED  BY <1>2, <1>3, Zenon

\* A WriteData whose statement failed drops the engine it holds; a ReadData keeps it.
LEMMA ExecFailsKeeps ==
  ASSUME DbFinite, DbInv, NEW t \in DbThreads, ExecFails(t)
  PROVE  DbInv'
<1>. USE DEF DbGo
<1>1. UNCHANGED <<dbPool, dbOp, dbUb>> /\ ~dbUb /\ dbAt[t] = "exec" /\ dbEngine[t] \in DbEngines
  BY Zenon DEF ExecFails, DbInv, DbTypes, Hands
<1>2. CASE dbOp[t] = "write"
  <2>1. /\ dbAt' = [dbAt EXCEPT ![t] = "idle"]
        /\ dbEngine' = [dbEngine EXCEPT ![t] = DbNull]
        /\ dropped' = dropped \cup {dbEngine[t]}
    BY <1>2, Zenon DEF ExecFails
  <2>2. dbEngine'[t] = DbNull /\ \A u \in DbThreads \ {t} : dbEngine'[u] = dbEngine[u]
    BY <2>1, Zenon DEF DbInv, DbTypes
  <2>3. DbTypes'
    BY <1>1, <2>1, ZenonT(30) DEF DbInv, DbTypes, DbPlaces
  <2>4. Once' /\ Apart'
    BY <1>1, <2>2 DEF DbInv, Once, Apart
  <2>5. dbEngine[t] # DbNull /\ DbNull \notin dropped
    BY <1>1, Zenon DEF DbFinite, DbInv, DbTypes
  <2>6. Gone'
    BY <1>1, <2>1, <2>2, <2>5, SMTT(30) DEF DbInv, Gone, Apart
  <2>7. Somewhere'
    BY <1>1, <2>1, <2>2, Zenon DEF DbInv, Somewhere
  <2>8. Hands'
    BY <1>1, <2>1, <2>2, Zenon DEF DbInv, DbTypes, Hands
  <2>. QED  BY <1>1, <2>3, <2>4, <2>6, <2>7, <2>8, ZenonT(30) DEF DbInv
<1>3. CASE dbOp[t] # "write"
  <2>1. dbAt' = [dbAt EXCEPT ![t] = "push"] /\ dropped' = dropped
    BY <1>3, Zenon DEF ExecFails
  <2>2. dbEngine' = dbEngine
    BY <1>3, Zenon DEF ExecFails, DbInv, DbTypes
  <2>3. DbTypes'
    BY <1>1, <2>1, <2>2, Zenon DEF DbInv, DbTypes, DbPlaces
  <2>4. Once' /\ Apart' /\ Gone' /\ Somewhere'
    BY <1>1, <2>1, <2>2 DEF DbInv, Once, Apart, Gone, Somewhere
  <2>5. Hands'
    BY <1>1, <2>1, <2>2, Zenon DEF DbInv, DbTypes, Hands
  <2>. QED  BY <1>1, <2>3, <2>4, <2>5, Zenon DEF DbInv
<1>. QED  BY <1>2, <1>3, Zenon

\* The crash of mysql_ping and Dest end the behaviours the pool accounts for.
LEMMA EndsKeep ==
  ASSUME DbInv, (\E t \in DbThreads : ExecCrash(t)) \/ DbDest
  PROVE  DbInv'
<1>. USE DEF DbGo
<1>1. CASE \E t \in DbThreads : ExecCrash(t)
  <2>1. UNCHANGED <<dbPool, dbOp, dbEngine, dropped>> /\ dbUb' = TRUE /\ dbAt' \in [DbThreads -> DbPlaces]
    BY <1>1, Zenon DEF ExecCrash, DbInv, DbTypes, DbPlaces
  <2>2. DbTypes'
    BY <2>1, Zenon DEF DbInv, DbTypes
  <2>3. Once' /\ Apart' /\ Gone'
    BY <2>1, Zenon DEF DbInv, Once, Apart, Gone
  <2>. QED  BY <2>1, <2>2, <2>3, Zenon DEF DbInv
<1>2. CASE DbDest
  <2>1. UNCHANGED <<dbAt, dbOp, dbEngine, dropped>> /\ dbUb' = TRUE /\ dbPool' = <<>>
    BY <1>2, Zenon DEF DbDest
  <2>2. dbPool' \in Seq(DbEngines \cup {DbNull}) /\ 1 .. Len(dbPool') = {}
    BY <2>1, EmptySeq
  <2>3. DbTypes'
    BY <2>1, <2>2, Zenon DEF DbInv, DbTypes
  <2>4. Once' /\ Apart' /\ Gone'
    BY <2>1, <2>2, Zenon DEF DbInv, Once, Apart, Gone
  <2>. QED  BY <2>1, <2>3, <2>4, Zenon DEF DbInv
<1>. QED  BY <1>1, <1>2, Zenon

\* DBConnectionPush: what the thread held, an engine or a NULL, is the last of the list.
LEMMA PushKeeps ==
  ASSUME DbFinite, DbInv, NEW t \in DbThreads, DbPush(t)
  PROVE  DbInv'
<1>. USE DEF DbGo
<1>1. UNCHANGED <<dbOp, dropped, dbUb>> /\ ~dbUb /\ dbAt[t] = "push"
      /\ dbAt' = [dbAt EXCEPT ![t] = "idle"]
  BY Zenon DEF DbPush
<1>2. dbPool' = Append(dbPool, dbEngine[t]) /\ dbEngine' = [dbEngine EXCEPT ![t] = DbNull]
  BY Zenon DEF DbPush
<1>3. dbPool \in Seq(DbEngines \cup {DbNull}) /\ dbEngine[t] \in DbEngines \cup {DbNull} /\ Len(dbPool) \in Nat
  BY DEF DbInv, DbTypes
<1>4. /\ dbPool' \in Seq(DbEngines \cup {DbNull})
      /\ Len(dbPool') = Len(dbPool) + 1
      /\ \A i \in 1 .. Len(dbPool) : dbPool'[i] = dbPool[i]
      /\ dbPool'[Len(dbPool')] = dbEngine[t]
  BY <1>2, <1>3, AppendProperties, SMTT(30)
<1>5. 1 .. Len(dbPool') = (1 .. Len(dbPool)) \cup {Len(dbPool')} /\ Len(dbPool') \notin 1 .. Len(dbPool)
  BY <1>3, <1>4
<1>6. dbEngine'[t] = DbNull /\ \A u \in DbThreads \ {t} : dbEngine'[u] = dbEngine[u]
  BY <1>2, Zenon DEF DbInv, DbTypes
<1>7. DbTypes'
  BY <1>1, <1>2, <1>4, Zenon DEF DbInv, DbTypes, DbPlaces
<1>8. \A i \in 1 .. Len(dbPool) : dbEngine[t] # DbNull => dbPool'[i] # dbEngine[t]
  BY <1>4, Zenon DEF DbInv, Apart
<1>9. \A i, j \in 1 .. Len(dbPool) : i # j /\ dbPool'[i] # DbNull => dbPool'[i] # dbPool'[j]
  BY <1>4, Zenon DEF DbInv, Once
<1>10. Once'
  BY <1>4, <1>5, <1>8, <1>9, Zenon DEF Once
<1>11. \A u \in DbThreads \ {t} : dbEngine[u] # DbNull =>
         dbEngine[t] # dbEngine[u] /\ \A i \in 1 .. Len(dbPool) : dbPool'[i] # dbEngine[u]
  BY <1>4, Zenon DEF DbInv, Apart
<1>12. Apart'
  BY <1>4, <1>5, <1>6, <1>11 DEF DbInv, Apart
<1>13. DbNull \notin dropped
  BY Zenon DEF DbFinite, DbInv, DbTypes
<1>14. Gone'
  BY <1>1, <1>4, <1>5, <1>6, <1>13, Zenon DEF DbInv, Gone
<1>15. Somewhere'
  BY <1>1, <1>4, <1>5, <1>6, Zenon DEF DbInv, Somewhere
<1>16. Hands'
  BY <1>1, <1>6, Zenon DEF DbInv, DbTypes, Hands
<1>. QED  BY <1>1, <1>7, <1>10, <1>12, <1>14, <1>15, <1>16, Zenon DEF DbInv
-----------------------------------------------------------------------------
\* Every step of the threads and Dest keeps the inductive invariant.
LEMMA DbInvariance ==
  ASSUME DbFinite, DbInv, [DbNext]_dbVars
  PROVE  DbInv'
<1>1. CASE UNCHANGED dbVars
  BY <1>1 DEF dbVars, DbInv, DbTypes, Once, Apart, Gone, Somewhere, Hands
<1>2. ASSUME NEW t \in DbThreads,
             \/ \E o \in DbOps : DbCall(t, o)
             \/ Size(t) \/ Front(t) \/ NoEngine(t) \/ DbRelease(t)
             \/ ExecFails(t) \/ ExecCrash(t) \/ DbPush(t)
      PROVE  DbInv'
  BY <1>2, MovesKeep, SizeKeeps, FrontKeeps, ExecFailsKeeps, EndsKeep, PushKeeps, Zenon
<1>3. CASE DbDest
  BY <1>3, EndsKeep, Zenon
<1>. QED  BY <1>1, <1>2, <1>3, Zenon DEF DbNext

\* The inductive invariant says where every engine is.
LEMMA PlacesAreKnown ==
  ASSUME DbFinite, DbInv
  PROVE  LostOnlyByWrite
<1>1. Pooled \cap Held = {}
  BY Zenon DEF DbInv, Apart, Pooled, Held
<1>2. dropped \cap (Pooled \cup Held) = {}
  BY Zenon DEF DbInv, Gone, Pooled, Held
<1>3. ASSUME ~dbUb PROVE DbEngines = Pooled \cup Held \cup dropped
  <2>1. DbEngines \subseteq Pooled \cup Held \cup dropped
    BY <1>3, Zenon DEF DbInv, Somewhere, Pooled, Held, DbFinite
  <2>2. \A i \in 1 .. Len(dbPool) : dbPool[i] \in DbEngines \cup {DbNull}
    BY ElementOfSeq, Zenon DEF DbInv, DbTypes
  <2>3. Pooled \cup Held \cup dropped \subseteq DbEngines
    BY <2>2, Zenon DEF DbInv, DbTypes, Pooled, Held
  <2>. QED  BY <2>1, <2>3, Zenon
<1>. QED  BY <1>1, <1>2, <1>3, Zenon DEF LostOnlyByWrite, DbInv, Once, Apart

\* With the list empty and a thread at front(), the engines are dropped or with the other
\* threads: there are fewer than one for every thread.
LEMMA EmptyListCount ==
  ASSUME DbFinite, DbInv, ~dbUb, NEW t \in DbThreads, dbAt[t] = "front", dbPool = <<>>
  PROVE  Cardinality(DbEngines) < Cardinality(dropped) + Cardinality(DbThreads)
<1>. DEFINE U == DbThreads \ {t}
            f == [u \in U |-> dbEngine[u]]
            H == {dbEngine[u] : u \in U}
<1>1. IsFiniteSet(U) /\ Cardinality(U) = Cardinality(DbThreads) - 1
  BY FS_RemoveElement, Zenon DEF DbFinite
<1>2. f \in Surjection(U, H)
  BY Zenon DEF Surjection
<1>. HIDE DEF f
<1>3. IsFiniteSet(H) /\ Cardinality(H) <= Cardinality(U)
  BY <1>1, <1>2, FS_Surjection, Zenon
<1>4. IsFiniteSet(dropped)
  BY FS_Subset, Zenon DEF DbFinite, DbInv, DbTypes
<1>5. DbEngines \subseteq H \cup dropped
  <2>1. 1 .. Len(dbPool) = {}
    BY EmptySeq
  <2>2. dbEngine[t] = DbNull
    BY Zenon DEF DbInv, Hands
  <2>. QED  BY <2>1, <2>2, Zenon DEF DbInv, Somewhere, DbFinite
<1>. HIDE DEF U, H
<1>6. /\ IsFiniteSet(H \cup dropped)
      /\ Cardinality(H \cup dropped)
           = Cardinality(H) + Cardinality(dropped) - Cardinality(H \cap dropped)
  BY <1>3, <1>4, FS_Union, Zenon
<1>7. IsFiniteSet(H \cap dropped)
  BY <1>3, FS_Intersection, Zenon
<1>8. Cardinality(DbEngines) <= Cardinality(H \cup dropped)
  BY <1>5, <1>6, FS_Subset, Zenon
<1>9. /\ Cardinality(H) \in Nat /\ Cardinality(dropped) \in Nat
      /\ Cardinality(H \cap dropped) \in Nat /\ Cardinality(DbThreads) \in Nat
      /\ Cardinality(DbEngines) \in Nat
  BY <1>3, <1>4, <1>7, FS_CardinalityType, Zenon DEF DbFinite
<1>. QED  BY <1>1, <1>3, <1>6, <1>8, <1>9

\* LostOnlyByWrite for any number of engines and threads: between DBConnectionPop,
\* DBConnectionPush and the failing paths of WriteData and ReadData, no engine is ever in
\* two places, and one is lost only by a WriteData whose statement failed.
THEOREM EnginesAccountedFor ==
  ASSUME DbFinite
  PROVE  DbSpec => []LostOnlyByWrite
<1>1. DbInit => DbInv
  BY InitLists, Zenon
<1>2. DbInv /\ [DbNext]_dbVars => DbInv'
  BY DbInvariance, Zenon
<1>3. DbInv => LostOnlyByWrite
  BY PlacesAreKnown, Zenon
<1>. QED  BY <1>1, <1>2, <1>3, PTL DEF DbSpec

\* FrontSafe for any number of engines and threads: as long as the engines that are left
\* are as many as the threads, DBConnectionPop's unlocked test of the size is still right
\* when it calls front() under the lock.
THEOREM UnlockedSizeIsEnough ==
  ASSUME DbFinite
  PROVE  DbSpec => []FrontSafe
<1>1. DbInit => DbInv
  BY InitLists, Zenon
<1>2. DbInv /\ [DbNext]_dbVars => DbInv'
  BY DbInvariance, Zenon
<1>3. DbInv => FrontSafe
  <2>. SUFFICES ASSUME DbInv, ~dbUb, NEW t \in DbThreads, dbAt[t] = "front", dbPool = <<>>,
                       Cardinality(dropped) + Cardinality(DbThreads) <= Cardinality(DbEngines)
                PROVE  FALSE
    BY Zenon DEF FrontSafe
  <2>1. Cardinality(DbEngines) < Cardinality(dropped) + Cardinality(DbThreads)
    BY EmptyListCount, Zenon
  <2>2. IsFiniteSet(dropped)
    BY FS_Subset, Zenon DEF DbFinite, DbInv, DbTypes
  <2>3. /\ Cardinality(dropped) \in Nat /\ Cardinality(DbThreads) \in Nat
        /\ Cardinality(DbEngines) \in Nat
    BY <2>2, FS_CardinalityType, Zenon DEF DbFinite
  <2>. QED  BY <2>1, <2>3, SMTT(30)
<1>. QED  BY <1>1, <1>2, <1>3, PTL DEF DbSpec
=============================================================================
