--------------------------- MODULE ThreadPoolProofs ---------------------------
(***************************************************************************)
(* What holds of the thread pool for any number of threads, clients and    *)
(* tasks: one thread at a time is inside the mutex, a task is in one       *)
(* place, thd_cnt counts the threads (IInv); the pool is freed after its   *)
(* threads have left, idle_cnt counts the idle ring, and cancel_tasks      *)
(* waits for all tasks of its owner (CInv, about the clients' calls).      *)
(***************************************************************************)
EXTENDS ThreadPool, FiniteSetTheorems, TLAPS

\* The types the other invariants rest on.
PoolTypes ==
  /\ lock \in Workers \cup {NoOne}
  /\ pc \in [Workers -> Live \cup {"none", "leaving", "gone"}]
  /\ hand \in [Workers -> Tasks \cup {NoTask}]
  /\ thdCnt \in Int
  /\ ready \in [size : Sizes, left : Int, uncounted : BOOLEAN, failed : BOOLEAN]

\* Only a thread that has popped a task has one in hand, and one that runs has.
HandsMatch ==
  \A w \in Workers :
    /\ pc[w] \notin {"check", "run"} => hand[w] = NoTask
    /\ pc[w] = "run" => hand[w] # NoTask

IInv == PoolTypes /\ HandsMatch /\ MutexHeld /\ TaskInOnePlace /\ ThreadsCounted

poolVars == <<lock, pc, hand, thdCnt, ready, queue, sched, done, gone>>
-----------------------------------------------------------------------------
LEMMA LivingFinite == IsFiniteSet(Living) /\ Cardinality(Living) \in Nat
BY PoolAssumption, FS_Subset, FS_CardinalityType, Zenon DEF Living

\* A thread that decides to exit leaves the living.
LEMMA OneLess ==
  ASSUME PoolTypes, NEW w \in Workers, pc[w] \in Live,
         NEW x \in {"leaving", "gone"}, pc' = [pc EXCEPT ![w] = x]
  PROVE  Cardinality(Living') = Cardinality(Living) - 1
<1>1. Living' = Living \ {w} /\ w \in Living
  BY Zenon DEF Living, Live, PoolTypes
<1>2. QED
  BY <1>1, LivingFinite, FS_RemoveElement, Zenon

\* A new thread joins them.
LEMMA OneMore ==
  ASSUME PoolTypes, NEW n \in Fresh, NEW s \in Workers \cup {NoOne},
         s \in Workers => pc[s] \in Live,
         pc' = Started(n, s)
  PROVE  Cardinality(Living') = Cardinality(Living) + 1
<1>1. Living' = Living \cup {n} /\ n \notin Living
  BY PoolAssumption DEF Living, Live, PoolTypes, Fresh, Started
<1>2. QED
  BY <1>1, LivingFinite, FS_AddElement, Zenon

\* Any other step of a living thread leaves them as they are.
LEMMA SameLiving ==
  ASSUME PoolTypes, NEW w \in Workers, NEW x \in Live \cup {"gone"},
         (pc[w] \in Live) <=> (x \in Live), pc' = [pc EXCEPT ![w] = x]
  PROVE  Living' = Living
BY Zenon DEF Living, Live, PoolTypes

LEMMA NobodyStarted ==
  ASSUME PoolTypes, NEW s \in Workers \cup {NoOne}, s \in Workers => pc[s] \in Live,
         pc' = Started(NoOne, s)
  PROVE  Living' = Living
BY PoolAssumption, Zenon DEF Living, Live, PoolTypes, Started

\* A step that leaves the variables of the invariant alone preserves it.
LEMMA Frame == IInv /\ UNCHANGED poolVars /\ (ub => ub') => IInv'
BY DEF IInv, poolVars, PoolTypes, HandsMatch, MutexHeld, TaskInOnePlace, ThreadsCounted, InHands,
       Living

LEMMA InitIInv == Init => IInv
<1>1. Init => Living = {}
  BY Zenon DEF Init, Living, Live
<1>2. Init => PoolTypes
  BY PoolAssumption DEF Init, PoolTypes, Live
<1>3. Init => HandsMatch /\ MutexHeld
  BY PoolAssumption, Zenon DEF Init, HandsMatch, MutexHeld
<1>4. Init => TaskInOnePlace
  BY Zenon DEF Init, TaskInOnePlace, InHands
<1>5. Init => thdCnt = 0 /\ ~ready.uncounted
  BY DEF Init
<1>6. Cardinality({}) = 0
  BY FS_EmptySet, Zenon
<1>7. Init => ThreadsCounted
  BY <1>1, <1>5, <1>6 DEF ThreadsCounted
<1>8. QED
  BY <1>2, <1>3, <1>4, <1>7, Zenon DEF IInv

\* An entering thread takes the mutex and pops a task nobody holds.
LEMMA EnterStep ==
  ASSUME IInv, NEW w \in Workers, NEW t \in Tasks \cup {NoTask}, Enter(w, t)
  PROVE  IInv'
<1>1. PoolTypes' /\ HandsMatch' /\ MutexHeld'
  BY PoolAssumption, Zenon DEF IInv, Enter, MayPop, Popped, PoolTypes, HandsMatch, MutexHeld, Live, queueVars
<1>2. TaskInOnePlace'
  BY PoolAssumption DEF IInv, Enter, MayPop, Popped, PoolTypes, HandsMatch, TaskInOnePlace, InHands, queueVars
<1>3. Living' = Living
  BY SameLiving, Zenon DEF IInv, Enter, Live
<1>4. ThreadsCounted'
  BY <1>3, LivingFinite, Zenon DEF IInv, Enter, ThreadsCounted, PoolTypes
<1>5. QED
  BY <1>1, <1>2, <1>4, Zenon DEF IInv

\* A thread that has run its task takes the mutex and pops the next.
LEMMA FinishStep ==
  ASSUME IInv, NEW w \in Workers, NEW t \in Tasks \cup {NoTask}, Finish(w, t)
  PROVE  IInv'
<1>1. PoolTypes' /\ HandsMatch' /\ MutexHeld'
  BY PoolAssumption, Zenon DEF IInv, Finish, MayPop, Popped, PoolTypes, HandsMatch, MutexHeld, Live, queueVars
<1>2. TaskInOnePlace'
  BY PoolAssumption, SMTT(30) DEF IInv, Finish, MayPop, Popped, PoolTypes, HandsMatch, TaskInOnePlace,
     InHands, queueVars
<1>3. Living' = Living
  BY SameLiving, Zenon DEF IInv, Finish, Live
<1>4. ThreadsCounted'
  BY <1>3, LivingFinite, Zenon DEF IInv, Finish, ThreadsCounted, PoolTypes
<1>5. QED
  BY <1>1, <1>2, <1>4, Zenon DEF IInv

\* A thread that was told to stop uncounts itself.
LEMMA QuitStep ==
  ASSUME IInv, NEW w \in Workers, Quit(w)
  PROVE  IInv'
<1>1. PoolTypes' /\ HandsMatch' /\ MutexHeld'
  BY PoolAssumption DEF IInv, Quit, PoolTypes, HandsMatch, MutexHeld, Live, queueVars
<1>2. TaskInOnePlace'
  BY PoolAssumption DEF IInv, Quit, PoolTypes, HandsMatch, TaskInOnePlace, InHands, queueVars
<1>3. Cardinality(Living') = Cardinality(Living) - 1
  BY OneLess, Zenon DEF IInv, Quit, Live
<1>4. ThreadsCounted'
  BY <1>3, LivingFinite DEF IInv, Quit, ThreadsCounted, PoolTypes
<1>5. QED
  BY <1>1, <1>2, <1>4, Zenon DEF IInv

\* A thread releases the mutex to run its task.
LEMMA RunStep ==
  ASSUME IInv, NEW w \in Workers, Run(w)
  PROVE  IInv'
<1>1. PoolTypes' /\ HandsMatch' /\ MutexHeld'
  BY PoolAssumption DEF IInv, Run, PoolTypes, HandsMatch, MutexHeld, Live, queueVars
<1>2. TaskInOnePlace'
  BY PoolAssumption DEF IInv, Run, PoolTypes, HandsMatch, TaskInOnePlace, InHands, queueVars
<1>3. Living' = Living
  BY SameLiving, Zenon DEF IInv, Run, Live
<1>4. ThreadsCounted'
  BY <1>3, LivingFinite, Zenon DEF IInv, Run, ThreadsCounted, PoolTypes
<1>5. QED
  BY <1>1, <1>2, <1>4, Zenon DEF IInv

\* A thread without a task, or in a terminated pool, keeps the mutex and drops its task.
LEMMA DropStep ==
  ASSUME IInv, NEW w \in Workers, Drop(w)
  PROVE  IInv'
<1>1. PoolTypes' /\ HandsMatch' /\ MutexHeld'
  BY PoolAssumption, Zenon DEF IInv, Drop, PoolTypes, HandsMatch, MutexHeld, Live, queueVars
<1>2. TaskInOnePlace'
  BY PoolAssumption DEF IInv, Drop, PoolTypes, HandsMatch, TaskInOnePlace, InHands, queueVars
<1>3. Living' = Living
  BY SameLiving, Zenon DEF IInv, Drop, Live
<1>4. ThreadsCounted'
  BY <1>3, LivingFinite, Zenon DEF IInv, Drop, ThreadsCounted, PoolTypes
<1>5. QED
  BY <1>1, <1>2, <1>4, Zenon DEF IInv

\* A thread goes idle.
LEMMA SettleStep ==
  ASSUME IInv, NEW w \in Workers, Settle(w)
  PROVE  IInv'
<1>1. PoolTypes' /\ HandsMatch' /\ MutexHeld'
  BY PoolAssumption, Zenon DEF IInv, Settle, PoolTypes, HandsMatch, MutexHeld, Live, queueVars
<1>2. TaskInOnePlace'
  BY PoolAssumption DEF IInv, Settle, PoolTypes, HandsMatch, TaskInOnePlace, InHands, queueVars
<1>3. Living' = Living
  BY SameLiving, Zenon DEF IInv, Settle, Live
<1>4. ThreadsCounted'
  BY <1>3, LivingFinite, Zenon DEF IInv, Settle, ThreadsCounted, PoolTypes
<1>5. QED
  BY <1>1, <1>2, <1>4, Zenon DEF IInv

\* A waiting thread releases the mutex.
LEMMA WaitStep ==
  ASSUME IInv, NEW w \in Workers, Wait(w)
  PROVE  IInv'
<1>1. PoolTypes' /\ HandsMatch' /\ MutexHeld'
  BY PoolAssumption, SMTT(30) DEF IInv, Wait, PoolTypes, HandsMatch, MutexHeld, Live, queueVars
<1>2. TaskInOnePlace'
  BY PoolAssumption DEF IInv, Wait, PoolTypes, HandsMatch, TaskInOnePlace, InHands, queueVars
<1>3. Living' = Living
  BY SameLiving, Zenon DEF IInv, Wait, Live
<1>4. ThreadsCounted'
  BY <1>3, LivingFinite, Zenon DEF IInv, Wait, ThreadsCounted, PoolTypes
<1>5. QED
  BY <1>1, <1>2, <1>4, Zenon DEF IInv

\* A thread that is not needed uncounts itself.
LEMMA RetireStep ==
  ASSUME IInv, NEW w \in Workers, Retire(w)
  PROVE  IInv'
<1>1. PoolTypes' /\ HandsMatch' /\ MutexHeld'
  BY PoolAssumption DEF IInv, Retire, PoolTypes, HandsMatch, MutexHeld, Live, queueVars
<1>2. TaskInOnePlace'
  BY PoolAssumption DEF IInv, Retire, PoolTypes, HandsMatch, TaskInOnePlace, InHands, queueVars
<1>3. Cardinality(Living') = Cardinality(Living) - 1
  BY OneLess, Zenon DEF IInv, Retire, Live
<1>4. ThreadsCounted'
  BY <1>3, LivingFinite DEF IInv, Retire, ThreadsCounted, PoolTypes
<1>5. QED
  BY <1>1, <1>2, <1>4, Zenon DEF IInv

\* A wait that returns changes nothing else.
LEMMA SpuriousStep ==
  ASSUME IInv, NEW w \in Workers, SpuriousWake(w)
  PROVE  IInv'
<1>1. PoolTypes' /\ HandsMatch' /\ MutexHeld'
  BY PoolAssumption, Zenon DEF IInv, SpuriousWake, PoolTypes, HandsMatch, MutexHeld, Live, queueVars
<1>2. TaskInOnePlace'
  BY PoolAssumption DEF IInv, SpuriousWake, PoolTypes, HandsMatch, TaskInOnePlace, InHands, queueVars
<1>3. Living' = Living
  BY SameLiving, Zenon DEF IInv, SpuriousWake, Live
<1>4. ThreadsCounted'
  BY <1>3, LivingFinite, Zenon DEF IInv, SpuriousWake, ThreadsCounted, PoolTypes
<1>5. QED
  BY <1>1, <1>2, <1>4, Zenon DEF IInv

\* A thread that has decided to exit releases the mutex.
LEMMA LeaveStep ==
  ASSUME IInv, NEW w \in Workers, Leave(w)
  PROVE  IInv'
<1>1. PoolTypes' /\ HandsMatch' /\ MutexHeld'
  BY PoolAssumption DEF IInv, Leave, PoolTypes, HandsMatch, MutexHeld, Live
<1>2. TaskInOnePlace'
  BY Zenon DEF IInv, Leave, TaskInOnePlace, InHands, queueVars
<1>3. Living' = Living
  BY SameLiving, Zenon DEF IInv, Leave, Live
<1>4. ThreadsCounted'
  BY <1>3, Zenon DEF IInv, Leave, ThreadsCounted
<1>5. QED
  BY <1>1, <1>2, <1>4, Zenon DEF IInv

\* A thread that ends in elt_new stays counted.
LEMMA EltNewFailsStep ==
  ASSUME IInv, NEW w \in Workers, EltNewFails(w)
  PROVE  IInv'
<1>1. PoolTypes' /\ HandsMatch' /\ MutexHeld'
  BY PoolAssumption, Zenon DEF IInv, EltNewFails, PoolTypes, HandsMatch, MutexHeld, Live
<1>2. TaskInOnePlace'
  BY Zenon DEF IInv, EltNewFails, TaskInOnePlace, InHands, queueVars
<1>3. Cardinality(Living') = Cardinality(Living) - 1
  BY OneLess, Zenon DEF IInv, EltNewFails, Live
<1>4. ThreadsCounted'
  BY <1>3, LivingFinite DEF IInv, EltNewFails, ThreadsCounted, PoolTypes
<1>5. QED
  BY <1>1, <1>2, <1>4, Zenon DEF IInv

\* base_init_threadpool starts a thread: it lives and is not counted yet.
LEMMA InitCreateStep ==
  ASSUME IInv, NEW n \in Workers \cup {NoOne}, InitCreate(n)
  PROVE  IInv'
<1>1. PoolTypes' /\ HandsMatch' /\ MutexHeld'
  BY ZenonT(40), PoolAssumption DEF IInv, InitCreate, MayCreate, Fresh, Started, PoolTypes, HandsMatch,
     MutexHeld, Live
<1>2. TaskInOnePlace'
  BY Zenon DEF IInv, InitCreate, TaskInOnePlace, InHands, queueVars
<1>3. ASSUME n = NoOne
      PROVE  ThreadsCounted'
  <2>1. Living' = Living
    BY <1>3, PoolAssumption, NobodyStarted, Zenon DEF IInv, InitCreate
  <2>2. ~ready.uncounted /\ ~ready'.uncounted
    BY <1>3, Zenon DEF IInv, InitCreate, PoolTypes
  <2>3. QED
    BY <2>1, <2>2, Zenon DEF IInv, InitCreate, ThreadsCounted
<1>4. ASSUME n # NoOne
      PROVE  ThreadsCounted'
  <2>1. Cardinality(Living') = Cardinality(Living) + 1
    BY <1>4, PoolAssumption, OneMore, Zenon DEF IInv, InitCreate, MayCreate
  <2>2. ~ready.uncounted /\ ready'.uncounted
    BY <1>4, Zenon DEF IInv, InitCreate, PoolTypes
  <2>3. QED
    BY <2>1, <2>2, LivingFinite, SMTT(30) DEF IInv, InitCreate, ThreadsCounted, PoolTypes
<1>5. QED
  BY <1>1, <1>2, <1>3, <1>4, Zenon DEF IInv

\* base_init_threadpool counts the thread it started.
LEMMA InitCountStep ==
  ASSUME IInv, InitCount
  PROVE  IInv'
<1>1. PoolTypes' /\ HandsMatch' /\ MutexHeld'
  <2>1. ready.left - 1 \in Int /\ thdCnt + 1 \in Int
    BY DEF IInv, PoolTypes
  <2>2. ready' \in [size : Sizes, left : Int, uncounted : BOOLEAN, failed : BOOLEAN]
    BY <2>1, Zenon DEF IInv, PoolTypes, InitCount
  <2>3. QED
    BY <2>1, <2>2, Zenon DEF IInv, InitCount, workVars, PoolTypes, HandsMatch, MutexHeld
<1>2. TaskInOnePlace'
  BY Zenon DEF IInv, InitCount, workVars, TaskInOnePlace, InHands, queueVars
<1>3. Living' = Living
  BY Zenon DEF InitCount, workVars, Living
<1>4. ready.uncounted /\ ~ready'.uncounted
  BY Zenon DEF IInv, InitCount, PoolTypes
<1>5. ThreadsCounted'
  BY <1>3, <1>4, LivingFinite DEF IInv, InitCount, ThreadsCounted, PoolTypes
<1>6. QED
  BY <1>1, <1>2, <1>5, Zenon DEF IInv

\* What add_task and schedule_task do to the threads keeps the count.
LEMMA StartKeepsCount ==
  ASSUME IInv, NEW need, NEW t \in Tasks, StartAndSignal(need, t), UNCHANGED <<lock, hand, ready, ub>>
  PROVE  PoolTypes' /\ HandsMatch' /\ MutexHeld' /\ ThreadsCounted'
<1>1. PICK n \in Workers \cup {NoOne}, s \in Workers \cup {NoOne} :
        /\ IF need THEN MayCreate(n) ELSE n = NoOne
        /\ MaySignal(s)
        /\ pc' = Started(n, s)
        /\ thdCnt' = IF n # NoOne THEN thdCnt + 1 ELSE thdCnt
  BY Zenon DEF StartAndSignal
<1>2. s \in Workers => pc[s] = "waiting"
  BY <1>1, PoolAssumption, Zenon DEF MaySignal
<1>3. n \in Workers => n \in Fresh
  BY <1>1, PoolAssumption, Zenon DEF MayCreate
<1>4. PoolTypes' /\ HandsMatch' /\ MutexHeld'
  BY <1>1, <1>2, <1>3, PoolAssumption DEF IInv, Fresh, Started, PoolTypes, HandsMatch, MutexHeld, Live
<1>5. ASSUME n = NoOne
      PROVE  ThreadsCounted'
  <2>1. Living' = Living
    BY <1>1, <1>2, <1>5, NobodyStarted, Zenon DEF IInv, Live
  <2>2. QED
    BY <1>1, <1>5, <2>1, Zenon DEF IInv, ThreadsCounted
<1>6. ASSUME n # NoOne
      PROVE  ThreadsCounted'
  <2>1. Cardinality(Living') = Cardinality(Living) + 1
    BY <1>1, <1>2, <1>3, <1>6, OneMore, Zenon DEF IInv, Live
  <2>2. QED
    BY <1>1, <1>6, <2>1, LivingFinite DEF IInv, ThreadsCounted, PoolTypes
<1>7. QED
  BY <1>4, <1>5, <1>6, Zenon

\* A new task is nowhere else.
LEMMA AddTaskStep ==
  ASSUME IInv, NEW c \in Clients, NEW t \in Tasks, AddTask(c, t) \/ ScheduleTask(c, t)
  PROVE  IInv'
<1>1. PoolTypes' /\ HandsMatch' /\ MutexHeld' /\ ThreadsCounted'
  BY StartKeepsCount, Zenon DEF AddTask, ScheduleTask
<1>2. TaskInOnePlace'
  BY Zenon DEF IInv, AddTask, ScheduleTask, New, TaskInOnePlace, InHands
<1>3. QED
  BY <1>1, <1>2, Zenon DEF IInv

\* Cancelled tasks leave the queues.
LEMMA CancelStep ==
  ASSUME IInv, NEW c \in Clients, NEW o \in Owners, Cancel(c, o)
  PROVE  IInv'
<1>1. PoolTypes' /\ HandsMatch' /\ MutexHeld' /\ ThreadsCounted'
  BY Zenon DEF IInv, Cancel, workVars, PoolTypes, HandsMatch, MutexHeld, ThreadsCounted, Living
<1>2. TaskInOnePlace'
  BY Zenon DEF IInv, Cancel, workVars, TaskInOnePlace, InHands
<1>3. QED
  BY <1>1, <1>2, Zenon DEF IInv

\* A broadcast wakes threads, which live on.
LEMMA BroadcastStep ==
  ASSUME IInv, NEW c \in Clients, Broadcast(c)
  PROVE  IInv'
<1>1. PoolTypes' /\ HandsMatch' /\ MutexHeld'
  BY Zenon DEF IInv, Broadcast, PoolTypes, HandsMatch, MutexHeld, Live
<1>2. TaskInOnePlace'
  BY Zenon DEF IInv, Broadcast, TaskInOnePlace, InHands, queueVars
<1>3. Living' = Living
  BY Zenon DEF IInv, Broadcast, PoolTypes, Living, Live
<1>4. ThreadsCounted'
  BY <1>3, Zenon DEF IInv, Broadcast, ThreadsCounted
<1>5. QED
  BY <1>1, <1>2, <1>4, Zenon DEF IInv

\* The remaining steps change neither the threads nor the tasks.
LEMMA OtherSteps ==
  ASSUME IInv, NEW c \in Clients,
         \/ \E n \in Limits : SetIdleMax(c, n) \/ SetThreadMax(c, n) \/ SetThreshold(c, n)
         \/ SetIdleWait(c) \/ Deinit(c) \/ CancelReturn(c) \/ Trim(c) \/ Join(c) \/ Excess(c)
         \/ Split(c) \/ TrimCount(c) \/ TrimBusy(c) \/ DeinitIdleMax(c) \/ DeinitFree(c)
  PROVE  IInv'
<1> DEFINE Same == UNCHANGED poolVars /\ (ub => ub')
<1>1. ASSUME NEW n, SetIdleMax(c, n) \/ SetThreadMax(c, n) \/ SetThreshold(c, n)
      PROVE  Same
  <2>1. CASE SetIdleMax(c, n)
    BY <2>1, Zenon DEF SetIdleMax, poolVars, workVars, queueVars
  <2>2. CASE SetThreadMax(c, n)
    BY <2>2, Zenon DEF SetThreadMax, poolVars, workVars, queueVars
  <2>3. CASE SetThreshold(c, n)
    BY <2>3, Zenon DEF SetThreshold, poolVars, workVars, queueVars
  <2>. QED  BY <1>1, <2>1, <2>2, <2>3, Zenon
<1>2. CASE SetIdleWait(c) \/ Deinit(c) \/ CancelReturn(c)
  <2>1. Same
    <3>1. CASE SetIdleWait(c)
      BY <3>1, Zenon DEF SetIdleWait, poolVars, workVars, queueVars
    <3>2. CASE Deinit(c)
      BY <3>2, Zenon DEF Deinit, poolVars, workVars, queueVars
    <3>3. CASE CancelReturn(c)
      BY <3>3, Zenon DEF CancelReturn, poolVars, workVars, queueVars
    <3>. QED  BY <1>2, <3>1, <3>2, <3>3, Zenon
  <2>2. QED
    BY <2>1, Frame, Zenon
<1>3. CASE Trim(c) \/ Join(c) \/ TrimBusy(c)
  <2>1. Same
    BY <1>3, Zenon DEF Trim, Join, TrimBusy, poolVars, workVars, queueVars
  <2>2. QED
    BY <2>1, Frame, Zenon
<1>4. CASE Excess(c) \/ Split(c) \/ TrimCount(c)
  <2>1. Same
    BY <1>4, Zenon DEF Excess, Split, TrimCount, poolVars, workVars, queueVars
  <2>2. QED
    BY <2>1, Frame, Zenon
<1>5. CASE DeinitIdleMax(c) \/ DeinitFree(c)
  <2>1. Same
    BY <1>5, Zenon DEF DeinitIdleMax, DeinitFree, poolVars, workVars, queueVars
  <2>2. QED
    BY <2>1, Frame, Zenon
<1>6. QED
  BY <1>1, <1>2, <1>3, <1>4, <1>5, Frame, Zenon

\* Every step of the pool preserves the invariant.
LEMMA IInvInductive == IInv /\ [Next]_vars => IInv'
<1> SUFFICES ASSUME IInv, [Next]_vars PROVE IInv'
  BY Zenon
<1>1. CASE \E n \in Workers \cup {NoOne} : InitCreate(n)
  BY <1>1, InitCreateStep, Zenon
<1>2. CASE InitCount
  BY <1>2, InitCountStep, Zenon
<1>3. ASSUME NEW w \in Workers, WorkerStep(w)
      PROVE  IInv'
  BY <1>3, EnterStep, FinishStep, QuitStep, RunStep, DropStep, SettleStep, WaitStep, RetireStep,
     LeaveStep, Zenon DEF WorkerStep
<1>4. ASSUME NEW w \in Workers, EltNewFails(w) \/ SpuriousWake(w)
      PROVE  IInv'
  BY <1>4, EltNewFailsStep, SpuriousStep, Zenon
<1>5. ASSUME NEW t \in Tasks, TimeComes(t)
      PROVE  IInv'
  <2>1. UNCHANGED poolVars /\ (ub => ub')
    BY <1>5, Zenon DEF TimeComes, poolVars, workVars
  <2>2. QED
    BY <2>1, Frame, Zenon
<1>6. ASSUME NEW c \in Clients, Control(c) \/ CallStep(c)
      PROVE  IInv'
  BY <1>6, CancelStep, BroadcastStep, OtherSteps, Zenon DEF Control, CallStep
<1>7. ASSUME NEW c \in Clients, NEW t \in Tasks, AddTask(c, t) \/ ScheduleTask(c, t)
      PROVE  IInv'
  BY <1>7, AddTaskStep, Zenon
<1>8. CASE UNCHANGED vars
  <2>1. UNCHANGED poolVars /\ (ub => ub')
    BY <1>8, Zenon DEF vars, poolVars, workVars, queueVars
  <2>2. QED
    BY <2>1, Frame, Zenon
<1>9. QED
  BY <1>1, <1>2, <1>3, <1>4, <1>5, <1>6, <1>7, <1>8, Zenon DEF Next

LEMMA IInvHolds == Spec => []IInv
BY InitIInv, IInvInductive, PTL DEF Spec

\* At any time at most one thread is between acquiring and releasing me->lock.
THEOREM MutexExclusive == Spec => []MutexHeld
<1>1. IInv => MutexHeld
  BY Zenon DEF IInv
<1>2. QED
  BY <1>1, IInvHolds, PTL

\* A task is queued, held by one thread, run or given up, and only one of these: no task
\* is run twice, however adds, pops and cancellations interleave.
THEOREM TaskRunOnce == Spec => []TaskInOnePlace
<1>1. IInv => TaskInOnePlace
  BY Zenon DEF IInv
<1>2. QED
  BY <1>1, IInvHolds, PTL

\* thd_cnt is never below the number of threads that have not decided to exit, and equals
\* it unless memory ran out.
THEOREM ThreadCountExact == Spec => []ThreadsCounted
<1>1. IInv => ThreadsCounted
  BY Zenon DEF IInv
<1>2. QED
  BY <1>1, IInvHolds, PTL
-----------------------------------------------------------------------------
(***************************************************************************)
(* The calls in progress.  A client that has called base_deinit_threadpool *)
(* stays in it, which keeps every other call from starting; the idle ring, *)
(* the busy ring and the tasks cancel_tasks waits for follow the threads.  *)
(***************************************************************************)
CallPlaces == {"none", "wait_on_busy", "trim", "broadcast", "join", "excess", "split",
               "busy_count", "idle_count", "trim_busy", "idle_max_0", "drain", "closed"}
ClosingPlaces == {"idle_max_0", "trim", "broadcast", "join", "drain", "closed"}

CallTypes ==
  /\ cli \in [Clients -> [at : CallPlaces, n : Int, then : {"none", "drain"},
                          who : Owners \cup {NoOne}, must : SUBSET Tasks]]
  /\ idleCnt \in Int
  /\ idle \subseteq Workers
  /\ queue \subseteq Tasks /\ sched \subseteq Tasks

\* base_deinit_threadpool does not return before the pool is closed.
StaysClosing ==
  \A c \in Clients : /\ cli[c].then = "drain" => cli[c].at \in ClosingPlaces
                     /\ cli[c].at = "drain" => cli[c].then = "drain"

\* It is called on a pool whose initialisation is over.
ClosedAfterInit == Closing => ready.left = 0 /\ ~ready.uncounted

\* The pool is freed at the end of base_deinit_threadpool, without a thread left.
FreedClosed == freed => Closing /\ Living = {}

\* A thread that has popped a task is in the busy ring.
BusyRing == \A w \in Workers : pc[w] \in {"check", "run"} => w \in busy

\* The tasks a call of cancel_tasks waits for are the owner's and were taken, run or
\* given up.
MustTracked ==
  \A c \in Clients :
    cli[c].at = "wait_on_busy" =>
      /\ cli[c].must \subseteq OwnedBy(cli[c].who)
      /\ cli[c].must \subseteq InHands \cup done \cup gone

CInv == CallTypes /\ StaysClosing /\ ClosedAfterInit /\ FreedClosed /\ IdleCounted
        /\ BusyRing /\ MustTracked

\* the steps of the pool that no call of a client takes
PoolStep ==
  \/ \E n \in Workers \cup {NoOne} : InitCreate(n)
  \/ InitCount
  \/ \E w \in Workers : WorkerStep(w) \/ EltNewFails(w) \/ SpuriousWake(w)
  \/ \E t \in Tasks : TimeComes(t)

\* the steps in which a client adds a task
AddStep == \E c \in Clients, t \in Tasks : AddTask(c, t) \/ ScheduleTask(c, t)

LEMMA NextCases ==
  ASSUME [Next]_vars
  PROVE  \/ PoolStep \/ AddStep \/ UNCHANGED vars
         \/ \E c \in Clients : Control(c) \/ CallStep(c)
BY Zenon DEF Next, PoolStep, AddStep

\* The threads and the clients that add tasks leave the calls alone.
LEMMA CallsKept ==
  ASSUME PoolStep \/ AddStep \/ UNCHANGED vars
  PROVE  UNCHANGED <<cli, freed, terminated>>
<1>1. ASSUME NEW n, InitCreate(n) PROVE UNCHANGED <<cli, freed, terminated>>
  BY <1>1, Zenon DEF InitCreate, confVars
<1>2. ASSUME NEW w, NEW t, Enter(w, t) \/ Finish(w, t)
      PROVE  UNCHANGED <<cli, freed, terminated>>
  BY <1>2, Zenon DEF Enter, Finish, confVars
<1>3. ASSUME NEW w, Quit(w) \/ Run(w) \/ Drop(w) \/ Settle(w)
      PROVE  UNCHANGED <<cli, freed, terminated>>
  BY <1>3, Zenon DEF Quit, Run, Drop, Settle, confVars
<1>4. ASSUME NEW w, Wait(w) \/ Retire(w) \/ Leave(w) \/ EltNewFails(w) \/ SpuriousWake(w)
      PROVE  UNCHANGED <<cli, freed, terminated>>
  BY <1>4, Zenon DEF Wait, Retire, Leave, EltNewFails, SpuriousWake, confVars
<1>5. ASSUME NEW c, NEW t, AddTask(c, t) \/ ScheduleTask(c, t)
      PROVE  UNCHANGED <<cli, freed, terminated>>
  BY <1>5, Zenon DEF AddTask, ScheduleTask, confVars
<1>6. ASSUME NEW t, TimeComes(t) PROVE UNCHANGED <<cli, freed, terminated>>
  BY <1>6, Zenon DEF TimeComes, confVars
<1>7. CASE InitCount
  BY <1>7, Zenon DEF InitCount, confVars
<1>8. CASE UNCHANGED vars
  BY <1>8, Zenon DEF vars, confVars
<1> QED
  BY <1>1, <1>2, <1>3, <1>4, <1>5, <1>6, <1>7, <1>8, Zenon DEF PoolStep, AddStep, WorkerStep

CallRecords == [at : CallPlaces, n : Int, then : {"none", "drain"},
                who : Owners \cup {NoOne}, must : SUBSET Tasks]

LEMMA NoCallOK == NoCall \in CallRecords
BY DEF NoCall, CallRecords, CallPlaces

LEMMA CallFields ==
  ASSUME CallTypes, NEW c \in Clients
  PROVE  /\ cli[c] \in CallRecords /\ cli = [cli EXCEPT ![c] = cli[c]]
         /\ cli[c].at \in CallPlaces /\ cli[c].n \in Int /\ cli[c].then \in {"none", "drain"}
         /\ cli[c].who \in Owners \cup {NoOne} /\ cli[c].must \in SUBSET Tasks
BY Zenon DEF CallTypes, CallRecords

\* only the record of client c changes
Only(c) == cli' \in [Clients -> CallRecords] /\ \A d \in Clients \ {c} : cli'[d] = cli[d]

\* What the assignments of a call do to the record of its client.
LEMMA SetPlaceAndCount ==
  ASSUME CallTypes, NEW c \in Clients, NEW a \in CallPlaces, NEW k \in Int,
         cli' = [cli EXCEPT ![c].at = a, ![c].n = k]
  PROVE  Only(c) /\ cli'[c].then = cli[c].then /\ cli'[c].at = a
<1> DEFINE r == [cli[c] EXCEPT !.at = a, !.n = k]
<1>1. cli' = [cli EXCEPT ![c] = r]
  BY Zenon
<1>2. cli \in [Clients -> CallRecords] /\ cli[c] \in CallRecords
  BY CallFields, Zenon DEF CallTypes, CallRecords
<1>3. r \in CallRecords
  BY ONLY a \in CallPlaces, k \in Int, <1>2, Zenon DEF CallRecords
<1>4. r.then = cli[c].then /\ r.at = a
  BY ONLY <1>2, Zenon DEF CallRecords
<1> HIDE DEF r
<1>5. cli' \in [Clients -> CallRecords] /\ cli'[c] = r /\ \A d \in Clients \ {c} : cli'[d] = cli[d]
  BY ONLY c \in Clients, <1>1, <1>2, <1>3, Zenon
<1> QED
  BY <1>4, <1>5, Zenon DEF Only

LEMMA SetPlaceAndThen ==
  ASSUME CallTypes, NEW c \in Clients, NEW a \in CallPlaces, NEW k \in {"none", "drain"},
         cli' = [cli EXCEPT ![c].at = a, ![c].then = k]
  PROVE  Only(c) /\ cli'[c].then = k /\ cli'[c].at = a
<1> DEFINE r == [cli[c] EXCEPT !.at = a, !.then = k]
<1>1. cli' = [cli EXCEPT ![c] = r]
  BY Zenon
<1>2. cli \in [Clients -> CallRecords] /\ cli[c] \in CallRecords
  BY CallFields, Zenon DEF CallTypes, CallRecords
<1>3. r \in CallRecords
  BY ONLY a \in CallPlaces, k \in {"none", "drain"}, <1>2, Zenon DEF CallRecords
<1>4. r.then = k /\ r.at = a
  BY ONLY <1>2, Zenon DEF CallRecords
<1> HIDE DEF r
<1>5. cli' \in [Clients -> CallRecords] /\ cli'[c] = r /\ \A d \in Clients \ {c} : cli'[d] = cli[d]
  BY ONLY c \in Clients, <1>1, <1>2, <1>3, Zenon
<1> QED
  BY <1>4, <1>5, Zenon DEF Only

\* A call changes its client's record only; one that begins finds the pool usable and
\* not being closed ...
LEMMA ControlCalls ==
  ASSUME CallTypes, NEW c \in Clients, Control(c)
  PROVE  /\ CanCall(c) /\ Only(c)
         /\ UNCHANGED <<workVars, thdCnt, idleCnt, done, ready, freed, ub>>
         /\ cli'[c].then = "drain" => cli'[c].at \in ClosingPlaces
         /\ cli'[c].at = "drain" => cli'[c].then = "drain"
         /\ cli'[c].at = "wait_on_busy" => \E o \in Owners : Cancel(c, o)
<1> DEFINE P == /\ Only(c)
                /\ cli'[c].then = "drain" => cli'[c].at \in ClosingPlaces
                /\ cli'[c].at = "drain" => cli'[c].then = "drain"
                /\ cli'[c].at = "wait_on_busy" => \E o \in Owners : Cancel(c, o)
           G == CanCall(c) /\ UNCHANGED <<workVars, thdCnt, idleCnt, done, ready, freed, ub>>
<1>0. CanCall(c) => cli[c].then # "drain" /\ cli[c].at = "none"
  BY Zenon DEF CanCall, Closing
<1> USE DEF CallTypes, CallRecords, CallPlaces, Only
<1>1. ASSUME NEW o \in Owners, Cancel(c, o) PROVE G /\ P
  <2>1. G
    BY <1>1, Zenon DEF Cancel
  <2> DEFINE m == (queue \cup sched \cup InHands) \cap OwnedBy(o)
  <2>2. cli' = [cli EXCEPT ![c].at = "wait_on_busy", ![c].who = o, ![c].must = m]
    BY <1>1, Zenon DEF Cancel
  <2>3. m \in SUBSET Tasks /\ "wait_on_busy" \in CallPlaces
    BY Zenon DEF OwnedBy
  <2> HIDE DEF m, CallPlaces
  <2> DEFINE r == [cli[c] EXCEPT !.at = "wait_on_busy", !.who = o, !.must = m]
  <2>4. cli' = [cli EXCEPT ![c] = r] /\ r \in CallRecords /\ r.then = cli[c].then
        /\ r.at = "wait_on_busy"
    <3>1. cli' = [cli EXCEPT ![c] = r]
      BY <2>2, Zenon
    <3>2. r \in CallRecords
      BY <2>3, CallFields, Zenon
    <3>3. r.then = cli[c].then /\ r.at = "wait_on_busy"
      BY CallFields, Zenon
    <3> QED
      BY <3>1, <3>2, <3>3, Zenon
  <2> HIDE DEF r
  <2>5. Only(c) /\ cli'[c].then = cli[c].then /\ cli'[c].at = "wait_on_busy"
    BY <2>4, Zenon
  <2> QED
    BY <1>0, <1>1, <2>1, <2>5, Zenon
<1>2. ASSUME NEW n \in Limits, SetIdleMax(c, n) PROVE G /\ P
  <2>1. G
    BY <1>2, Zenon DEF SetIdleMax, queueVars
  <2>2. cli' = [cli EXCEPT ![c].at = "trim", ![c].n = n] /\ n \in Int
    BY <1>2, PoolAssumption DEF SetIdleMax
  <2>3. Only(c) /\ cli'[c].then = cli[c].then /\ cli'[c].at = "trim"
    BY <2>2, SetPlaceAndCount, Zenon
  <2> QED
    BY <1>0, <2>1, <2>3, Zenon
<1>3. ASSUME NEW n \in Limits, SetThreadMax(c, n) PROVE G /\ P
  <2>1. G
    BY <1>3, Zenon DEF SetThreadMax, queueVars
  <2>2. (cli' = cli \/ cli' = [cli EXCEPT ![c].at = "excess", ![c].n = n]) /\ n \in Int
    BY <1>3, PoolAssumption DEF SetThreadMax
  <2>3. ASSUME cli' = cli
        PROVE  Only(c) /\ cli'[c].then = cli[c].then /\ cli'[c].at \in {cli[c].at, "excess"}
    BY <2>3, CallFields, Zenon
  <2>4. ASSUME cli' = [cli EXCEPT ![c].at = "excess", ![c].n = n]
        PROVE  Only(c) /\ cli'[c].then = cli[c].then /\ cli'[c].at \in {cli[c].at, "excess"}
    BY <2>2, <2>4, SetPlaceAndCount, Zenon
  <2>5. Only(c) /\ cli'[c].then = cli[c].then /\ cli'[c].at \in {cli[c].at, "excess"}
    BY <2>2, <2>3, <2>4, Zenon
  <2> QED
    BY <1>0, <2>1, <2>5, Zenon
<1>4. ASSUME (\E n \in Limits : SetThreshold(c, n)) \/ SetIdleWait(c) PROVE G /\ P
  <2>1. G /\ cli' = cli
    BY <1>4, Zenon DEF SetThreshold, SetIdleWait, queueVars
  <2> QED
    BY <1>0, <2>1, Zenon
<1>5. ASSUME Deinit(c) PROVE G /\ P
  <2>1. G
    BY <1>5, Zenon DEF Deinit, queueVars
  <2>2. cli' = [cli EXCEPT ![c].at = "idle_max_0", ![c].then = "drain"]
    BY <1>5, Zenon DEF Deinit
  <2>3. Only(c) /\ cli'[c].at = "idle_max_0"
    BY <2>2, SetPlaceAndThen, Zenon
  <2> QED
    BY <2>1, <2>3, Zenon DEF ClosingPlaces
<1> HIDE DEF P, G
<1>6. G /\ P
  BY <1>1, <1>2, <1>3, <1>4, <1>5, Zenon DEF Control
<1> QED
  BY <1>6, Zenon DEF P, G

\* ... and one that goes on stays a call that closes the pool, if it is one.
LEMMA CallStepCalls ==
  ASSUME CallTypes, IInv, StaysClosing, NEW c \in Clients, CallStep(c)
  PROVE  /\ cli[c].at # "none" /\ Only(c)
         /\ UNCHANGED <<ready, busy, hand, done, gone, queue, sched>>
         /\ (cli'[c].then = "drain") <=> (cli[c].then = "drain")
         /\ cli'[c].then = "drain" => cli'[c].at \in ClosingPlaces
         /\ cli'[c].at = "drain" => cli'[c].then = "drain"
         /\ cli'[c].at # "wait_on_busy"
<1> DEFINE P == /\ Only(c)
                /\ (cli'[c].then = "drain") <=> (cli[c].then = "drain")
                /\ cli'[c].then = "drain" => cli'[c].at \in ClosingPlaces
                /\ cli'[c].at = "drain" => cli'[c].then = "drain"
                /\ cli'[c].at # "wait_on_busy"
           G == cli[c].at # "none" /\ UNCHANGED <<ready, busy, hand, done, gone, queue, sched>>
<1>0. /\ cli[c].then = "drain" => cli[c].at \in ClosingPlaces
      /\ cli[c].at = "drain" => cli[c].then = "drain"
  BY Zenon DEF StaysClosing
<1>1. ASSUME NEW a \in CallPlaces, NEW k \in Int, a \notin {"wait_on_busy", "drain"},
             a \in ClosingPlaces \/ cli[c].at \notin ClosingPlaces,
             cli' = [cli EXCEPT ![c].at = a, ![c].n = k]
      PROVE  P
  <2>1. Only(c) /\ cli'[c].then = cli[c].then /\ cli'[c].at = a
    BY <1>1, SetPlaceAndCount, Zenon
  <2> QED
    BY <1>0, <1>1, <2>1, Zenon
<1>2. CASE CancelReturn(c)
  <2>1. cli' = [cli EXCEPT ![c] = NoCall] /\ G /\ cli[c].at = "wait_on_busy"
    BY <1>2, Zenon DEF CancelReturn, workVars, queueVars
  <2>2. cli[c].then # "drain"
    BY <1>0, <2>1, Zenon DEF ClosingPlaces
  <2>3. Only(c) /\ cli'[c] = NoCall
    BY <2>1, NoCallOK, Zenon DEF CallTypes, CallRecords, Only
  <2> QED
    BY <2>1, <2>2, <2>3 DEF NoCall
<1>3. CASE Trim(c)
  <2>1. G
    BY <1>3, Zenon DEF Trim, queueVars
  <2>2. PICK k \in Int : cli' = [cli EXCEPT ![c].at = "broadcast", ![c].n = k]
    <3>1. idleCnt - cli[c].n \in Int
      BY CallFields DEF CallTypes
    <3> QED
      BY <1>3, <3>1 DEF Trim
  <2> QED
    BY <1>1, <2>1, <2>2, Zenon DEF CallPlaces, ClosingPlaces
<1>4. CASE Broadcast(c)
  <2>1. G
    BY <1>4, Zenon DEF Broadcast, queueVars
  <2> DEFINE r == IF cli[c].n > 0 THEN [cli[c] EXCEPT !.at = "join"]
                  ELSE [NoCall EXCEPT !.at = cli[c].then, !.then = cli[c].then]
  <2>2. cli' = [cli EXCEPT ![c] = r]
    BY <1>4, Zenon DEF Broadcast
  <2>3. r \in CallRecords /\ r.then = cli[c].then /\ r.at \in {"join", cli[c].then}
    <3>1. CASE cli[c].n > 0
      BY <3>1, CallFields, Zenon DEF CallRecords, CallPlaces
    <3>2. CASE ~(cli[c].n > 0)
      BY <3>2, CallFields, NoCallOK, Zenon DEF CallRecords, CallPlaces
    <3> QED
      BY <3>1, <3>2, Zenon
  <2> HIDE DEF r
  <2>4. Only(c) /\ cli'[c] = r
    BY <2>2, <2>3, Zenon DEF CallTypes, CallRecords, Only
  <2>5. cli[c].then \in {"none", "drain"}
    BY CallFields, Zenon
  <2> QED
    BY <2>1, <2>3, <2>4, <2>5, Zenon DEF ClosingPlaces
<1>5. CASE Join(c)
  <2>1. G /\ cli' = cli /\ cli[c].at = "join"
    BY <1>5, Zenon DEF Join, workVars, queueVars
  <2> QED
    BY <1>0, <2>1, CallFields, Zenon DEF CallTypes, CallRecords, Only
<1>6. CASE Excess(c)
  <2>1. Unsigned(thdCnt - cli[c].n) \in Int
    BY CallFields DEF Unsigned, HugeSize, IInv, PoolTypes
  <2>2. cli' = [cli EXCEPT ![c].at = "split", ![c].n = Unsigned(thdCnt - cli[c].n)]
    BY <1>6, Zenon DEF Excess, CallTypes
  <2>3. G /\ cli[c].at = "excess"
    BY <1>6, Zenon DEF Excess, workVars, queueVars
  <2> QED
    BY <1>1, <2>1, <2>2, <2>3, Zenon DEF CallPlaces, ClosingPlaces
<1>7. CASE Split(c)
  <2> DEFINE a == IF cli[c].n >= idleCnt THEN "busy_count" ELSE "idle_count"
  <2>1. cli' = [cli EXCEPT ![c].at = a, ![c].n = cli[c].n]
    BY <1>7, Zenon DEF Split, CallTypes
  <2>2. G /\ cli[c].at = "split"
    BY <1>7, Zenon DEF Split, workVars, queueVars
  <2>3. a \in CallPlaces /\ a \notin {"wait_on_busy", "drain"} /\ cli[c].n \in Int
    BY CallFields, Zenon DEF CallPlaces
  <2> QED
    BY <1>1, <2>1, <2>2, <2>3, Zenon DEF ClosingPlaces
<1>8. CASE TrimCount(c)
  <2>1. G /\ cli[c].at \in {"busy_count", "idle_count"}
    BY <1>8, Zenon DEF TrimCount, workVars, queueVars
  <2>2. Unsigned(cli[c].n - idleCnt) \in Int /\ Unsigned(idleCnt - cli[c].n) \in Int
    BY CallFields DEF Unsigned, HugeSize, CallTypes
  <2>3. \/ cli' = [cli EXCEPT ![c].at = "trim_busy", ![c].n = Unsigned(cli[c].n - idleCnt)]
        \/ cli' = [cli EXCEPT ![c].at = "trim", ![c].n = Unsigned(idleCnt - cli[c].n)]
    BY <1>8, Zenon DEF TrimCount, CallTypes
  <2> QED
    BY <1>1, <2>1, <2>2, <2>3, Zenon DEF CallPlaces, ClosingPlaces
<1>9. CASE TrimBusy(c) \/ DeinitIdleMax(c)
  <2>1. G /\ cli' = [cli EXCEPT ![c].at = "trim", ![c].n = 0]
    BY <1>9, Zenon DEF TrimBusy, DeinitIdleMax, workVars, queueVars
  <2>2. "trim" \in CallPlaces /\ "trim" \in ClosingPlaces /\ "trim" \notin {"wait_on_busy", "drain"}
        /\ 0 \in Int
    BY DEF CallPlaces, ClosingPlaces
  <2>3. P
    <3> HIDE DEF P, G
    <3> QED
      BY <1>1, <2>1, <2>2, Zenon
  <2> QED
    BY <2>1, <2>3, Zenon
<1>10. CASE DeinitFree(c)
  <2>1. cli' = [cli EXCEPT ![c].at = "closed", ![c].n = cli[c].n]
    BY <1>10, Zenon DEF DeinitFree, CallTypes
  <2>2. G
    BY <1>10, Zenon DEF DeinitFree, workVars, queueVars
  <2> QED
    BY <1>1, <2>1, <2>2, CallFields, Zenon DEF CallPlaces, ClosingPlaces
<1> HIDE DEF P, G
<1> QED
  BY <1>2, <1>3, <1>4, <1>5, <1>6, <1>7, <1>8, <1>9, <1>10, ZenonT(30) DEF CallStep

\* the variables of CallTypes other than cli
LEMMA CallTypesKept ==
  ASSUME CallTypes, IInv, StaysClosing, [Next]_vars
  PROVE  CallTypes'
<1> DEFINE Rest == /\ idleCnt \in Int /\ idle \subseteq Workers
                   /\ queue \subseteq Tasks /\ sched \subseteq Tasks
           C == cli' \in [Clients -> CallRecords]
<1>1. ASSUME PoolStep \/ AddStep \/ UNCHANGED vars PROVE C
  BY <1>1, CallsKept, Zenon DEF CallTypes, CallRecords
<1>2. ASSUME NEW n, InitCreate(n) \/ InitCount PROVE Rest'
  BY <1>2, Zenon DEF CallTypes, InitCreate, InitCount, workVars, queueVars
<1>3. ASSUME NEW w \in Workers, NEW t, Enter(w, t) \/ Finish(w, t) PROVE Rest'
  BY <1>3, SMTT(30) DEF CallTypes, Enter, Finish, Popped
<1>4. ASSUME NEW w \in Workers, Quit(w) \/ Run(w) \/ Drop(w) \/ Settle(w) PROVE Rest'
  BY <1>4 DEF CallTypes, Quit, Run, Drop, Settle, queueVars
<1>5. ASSUME NEW w \in Workers,
             Wait(w) \/ Retire(w) \/ Leave(w) \/ EltNewFails(w) \/ SpuriousWake(w)
      PROVE  Rest'
  BY <1>5, Zenon DEF CallTypes, Wait, Retire, Leave, EltNewFails, SpuriousWake, queueVars
<1>6. ASSUME NEW t \in Tasks, TimeComes(t) PROVE Rest'
  BY <1>6, Zenon DEF CallTypes, TimeComes, workVars
<1>7. ASSUME NEW c \in Clients, NEW t \in Tasks, AddTask(c, t) \/ ScheduleTask(c, t) PROVE Rest'
  BY <1>7, Zenon DEF CallTypes, AddTask, ScheduleTask
<1>8. ASSUME NEW c \in Clients, Control(c) PROVE C /\ Rest'
  <2>1. C /\ UNCHANGED <<workVars, idleCnt>>
    BY <1>8, ControlCalls, Zenon DEF Only
  <2>2. queue' \subseteq queue /\ sched' \subseteq sched
    BY <1>8, Zenon DEF Control, Cancel, SetIdleMax, SetThreadMax, SetThreshold, SetIdleWait, Deinit,
       queueVars
  <2> QED
    BY <2>1, <2>2, Zenon DEF CallTypes, workVars
<1>9. ASSUME NEW c \in Clients, CallStep(c) PROVE C /\ Rest'
  <2>1. C /\ UNCHANGED <<queue, sched>>
    BY <1>9, CallStepCalls, Zenon DEF Only
  <2>2. CASE Trim(c)
    <3>1. idle' \subseteq Workers /\ idleCnt' \in Int
      BY <2>2, CallFields, Zenon DEF Trim, CallTypes
    <3> QED
      BY <2>1, <3>1, Zenon DEF CallTypes
  <2>3. CASE ~Trim(c)
    <3>1. UNCHANGED <<idle, idleCnt>>
      BY <1>9, <2>3, Zenon DEF CallStep, CancelReturn, Broadcast, Join, Excess, Split, TrimCount, TrimBusy,
         DeinitIdleMax, DeinitFree, workVars
    <3> QED
      BY <2>1, <3>1, Zenon DEF CallTypes
  <2> QED
    BY <2>2, <2>3, Zenon
<1>10. CASE UNCHANGED vars
  BY <1>10, Zenon DEF vars, workVars, queueVars, CallTypes
<1> HIDE DEF C, Rest
<1>11. ASSUME PoolStep PROVE Rest'
  BY <1>2, <1>3, <1>4, <1>5, <1>6, <1>11, Zenon DEF PoolStep, WorkerStep
<1>12. ASSUME AddStep PROVE Rest'
  BY <1>7, <1>12, Zenon DEF AddStep
<1>13. (C /\ Rest') \/ CallTypes'
  BY <1>1, <1>8, <1>9, <1>10, <1>11, <1>12, NextCases, Zenon
<1> QED
  BY <1>13, Zenon DEF CallTypes, CallRecords, C, Rest

\* Nobody leaves base_deinit_threadpool before the pool is closed, and while it runs no
\* call begins and the threads of the initialisation stay counted.
LEMMA ClosingKept ==
  ASSUME CallTypes, IInv, StaysClosing, ClosedAfterInit, [Next]_vars
  PROVE  StaysClosing' /\ ClosedAfterInit' /\ (Closing => Closing')
<1>1. ASSUME NEW c \in Clients, Control(c)
      PROVE  StaysClosing' /\ ClosedAfterInit' /\ (Closing => Closing')
  <2>1. /\ CanCall(c) /\ Only(c) /\ ready' = ready
        /\ cli'[c].then = "drain" => cli'[c].at \in ClosingPlaces
        /\ cli'[c].at = "drain" => cli'[c].then = "drain"
    BY <1>1, ControlCalls, Zenon
  <2>2. Usable /\ ~Closing
    BY <2>1, Zenon DEF CanCall
  <2> QED
    BY <2>1, <2>2, Zenon DEF Usable, Only, StaysClosing, ClosedAfterInit
<1>2. ASSUME NEW c \in Clients, CallStep(c)
      PROVE  StaysClosing' /\ ClosedAfterInit' /\ (Closing => Closing')
  <2>1. /\ Only(c) /\ ready' = ready
        /\ (cli'[c].then = "drain") <=> (cli[c].then = "drain")
        /\ cli'[c].then = "drain" => cli'[c].at \in ClosingPlaces
        /\ cli'[c].at = "drain" => cli'[c].then = "drain"
    BY <1>2, CallStepCalls, Zenon
  <2>2. Closing' <=> Closing
    BY <2>1, Zenon DEF Only, Closing
  <2>3. StaysClosing'
    BY <2>1 DEF Only, StaysClosing
  <2> QED
    BY <2>1, <2>2, <2>3, Zenon DEF ClosedAfterInit
<1>3. CASE PoolStep \/ AddStep \/ UNCHANGED vars
  <2>1. cli' = cli
    BY <1>3, CallsKept, Zenon
  <2>2. StaysClosing' /\ (Closing' <=> Closing)
    BY <2>1, Zenon DEF StaysClosing, Closing
  <2>3. ASSUME Closing PROVE ready' = ready
    <3>1. ready.left = 0 /\ ~ready.uncounted
      BY <2>3, Zenon DEF ClosedAfterInit
    <3>2. ASSUME NEW n, InitCreate(n) PROVE FALSE
      BY <3>1, <3>2 DEF InitCreate
    <3>3. ~InitCount
      BY <3>1, Zenon DEF InitCount
    <3>4. ASSUME NEW w, NEW t, Enter(w, t) \/ Finish(w, t) PROVE ready' = ready
      BY <3>4, Zenon DEF Enter, Finish
    <3>5. ASSUME NEW w, WorkerStep(w) PROVE ready' = ready
      BY <3>4, <3>5, Zenon DEF WorkerStep, Quit, Run, Drop, Settle, Wait, Retire, Leave
    <3>6. ASSUME NEW w, EltNewFails(w) \/ SpuriousWake(w) PROVE ready' = ready
      BY <3>6, Zenon DEF EltNewFails, SpuriousWake
    <3>7. ASSUME NEW t, TimeComes(t) PROVE ready' = ready
      BY <3>7, Zenon DEF TimeComes
    <3>8. ASSUME NEW c, NEW t, AddTask(c, t) \/ ScheduleTask(c, t) PROVE ready' = ready
      BY <3>8, Zenon DEF AddTask, ScheduleTask
    <3>9. UNCHANGED vars => ready' = ready
      BY Zenon DEF vars
    <3> QED
      BY <1>3, <3>2, <3>3, <3>5, <3>6, <3>7, <3>8, <3>9, Zenon DEF PoolStep, AddStep
  <2> QED
    BY <2>2, <2>3, Zenon DEF ClosedAfterInit
<1> QED
  BY <1>1, <1>2, <1>3, NextCases, Zenon

\* When base_deinit_threadpool finds thd_cnt 0 no thread is left, and none is started
\* afterwards.
LEMMA FreedKept ==
  ASSUME CallTypes, IInv, StaysClosing, ClosedAfterInit, FreedClosed, [Next]_vars
  PROVE  FreedClosed'
<1>1. Closing => Closing'
  BY ClosingKept, Zenon
<1>2. ASSUME freed PROVE Living' = {}
  <2>1. Closing /\ \A w \in Workers : pc[w] \notin Live
    BY <1>2, Zenon DEF FreedClosed, Living
  <2>2. \A c \in Clients : ~CanCall(c)
    BY <2>1, Zenon DEF CanCall
  <2>3. ready.left = 0 /\ ~ready.uncounted
    BY <2>1, Zenon DEF ClosedAfterInit
  <2>4. ASSUME NEW n, InitCreate(n) PROVE FALSE
    BY <2>3, <2>4 DEF InitCreate
  <2>5. ASSUME NEW w \in Workers, NEW t, Enter(w, t) \/ Finish(w, t) PROVE FALSE
    BY <2>1, <2>5, Zenon DEF Enter, Finish, Live
  <2>6. ASSUME NEW w \in Workers, Quit(w) \/ Run(w) \/ Drop(w) \/ Settle(w) \/ Wait(w) \/ Retire(w)
        PROVE  FALSE
    BY <2>1, <2>6, Zenon DEF Quit, Run, Drop, Settle, Wait, Retire, Live
  <2>7. ASSUME NEW w \in Workers, EltNewFails(w) \/ SpuriousWake(w) PROVE FALSE
    BY <2>1, <2>7, Zenon DEF EltNewFails, SpuriousWake, Live
  <2>8. ASSUME NEW w \in Workers, Leave(w) PROVE Living' = {}
    BY <2>1, <2>8, Zenon DEF Leave, Living, Live, IInv, PoolTypes
  <2>9. ASSUME UNCHANGED pc PROVE Living' = {}
    BY <1>2, <2>9, Zenon DEF Living, FreedClosed
  <2>10. ASSUME NEW c \in Clients, CallStep(c) PROVE Living' = {}
    <3>1. CASE Broadcast(c)
      <4>1. pc' = pc
        BY <2>1, <3>1, Zenon DEF Broadcast, Live, IInv, PoolTypes
      <4> QED
        BY <2>9, <4>1, Zenon
    <3>2. CASE ~Broadcast(c)
      <4>1. UNCHANGED pc
        BY <2>10, <3>2, Zenon DEF CallStep, CancelReturn, Trim, Join, Excess, Split, TrimCount, TrimBusy,
           DeinitIdleMax, DeinitFree, workVars
      <4> QED
        BY <2>9, <4>1, Zenon
    <3> QED
      BY <3>1, <3>2, Zenon
  <2>11. ASSUME NEW c \in Clients, Control(c) PROVE FALSE
    BY <2>2, <2>11, ControlCalls, Zenon
  <2>12. ASSUME NEW c \in Clients, NEW t \in Tasks, AddTask(c, t) \/ ScheduleTask(c, t) PROVE FALSE
    BY <2>2, <2>12, Zenon DEF AddTask, ScheduleTask
  <2>13. ASSUME InitCount \/ (\E t \in Tasks : TimeComes(t)) \/ UNCHANGED vars
         PROVE  Living' = {}
    <3>1. UNCHANGED pc
      BY <2>13, Zenon DEF InitCount, TimeComes, vars, workVars
    <3> QED
      BY <2>9, <3>1, Zenon
  <2>14. ASSUME PoolStep PROVE Living' = {}
    BY <2>4, <2>5, <2>6, <2>7, <2>8, <2>13, <2>14, Zenon DEF PoolStep, WorkerStep
  <2>15. ~AddStep
    BY <2>12, Zenon DEF AddStep
  <2> QED
    BY <2>10, <2>11, <2>13, <2>14, <2>15, NextCases, ZenonT(30)
<1>3. ASSUME ~freed, freed' PROVE Closing' /\ Living' = {}
  <2>1. PICK c \in Clients : CallStep(c)
    BY <1>3, NextCases, CallsKept, ControlCalls, Zenon
  <2>2. DeinitFree(c)
    BY <1>3, <2>1, Zenon DEF CallStep, CancelReturn, Trim, Broadcast, Join, Excess, Split, TrimCount,
       TrimBusy, DeinitIdleMax
  <2>3. Closing
    BY <2>2, Zenon DEF DeinitFree, StaysClosing, Closing
  <2>4. Cardinality(Living) = 0
    <3>1. ~ub /\ thdCnt = 0 /\ ~ready.uncounted
      BY <2>2, <2>3, Zenon DEF DeinitFree, ClosedAfterInit
    <3> QED
      BY <3>1, LivingFinite DEF IInv, ThreadsCounted
  <2>5. Living = {}
    BY <2>4, LivingFinite, FS_EmptySet, Zenon
  <2>6. Living' = Living
    BY <2>2, Zenon DEF DeinitFree, workVars, Living
  <2> QED
    BY <1>1, <2>3, <2>5, <2>6, Zenon
<1> QED
  BY <1>1, <1>2, <1>3, Zenon DEF FreedClosed

\* A thread is in the busy ring from the pop of its task to the end of the inner loop.
LEMMA BusyKept ==
  ASSUME IInv, BusyRing, [Next]_vars
  PROVE  BusyRing'
<1> USE DEF BusyRing, IInv, PoolTypes
<1>1. ASSUME NEW n \in Workers \cup {NoOne}, InitCreate(n) PROVE BusyRing'
  BY <1>1, PoolAssumption, Zenon DEF InitCreate, Started
<1>2. ASSUME NEW w \in Workers, NEW t, Enter(w, t) \/ Finish(w, t) PROVE BusyRing'
  BY <1>2, Zenon DEF Enter, Finish
<1>3. ASSUME NEW w \in Workers, Quit(w) \/ Run(w) \/ Settle(w) \/ Wait(w) PROVE BusyRing'
  BY <1>3, Zenon DEF Quit, Run, Settle, Wait
<1>4. ASSUME NEW w \in Workers, Drop(w) PROVE BusyRing'
  BY <1>4, Zenon DEF Drop
<1>5. ASSUME NEW w \in Workers, Retire(w) \/ Leave(w) \/ EltNewFails(w) \/ SpuriousWake(w)
      PROVE  BusyRing'
  BY <1>5, Zenon DEF Retire, Leave, EltNewFails, SpuriousWake
<1>6. ASSUME UNCHANGED <<pc, busy>> PROVE BusyRing'
  BY <1>6, Zenon
<1>7. ASSUME NEW t, NEW need, StartAndSignal(need, t), UNCHANGED busy PROVE BusyRing'
  BY <1>7, PoolAssumption DEF StartAndSignal, Started
<1>8. ASSUME NEW c \in Clients, NEW t \in Tasks, AddTask(c, t) \/ ScheduleTask(c, t)
      PROVE  BusyRing'
  BY <1>7, <1>8, Zenon DEF AddTask, ScheduleTask
<1>9. ASSUME NEW c \in Clients, Broadcast(c) PROVE BusyRing'
  BY <1>9, Zenon DEF Broadcast
<1> HIDE DEF BusyRing, IInv, PoolTypes
<1>10. ASSUME NEW c \in Clients, CallStep(c), ~Broadcast(c) PROVE BusyRing'
  <2>1. UNCHANGED <<pc, busy>>
    BY <1>10, Zenon DEF CallStep, CancelReturn, Trim, Join, Excess, Split, TrimCount, TrimBusy,
       DeinitIdleMax, DeinitFree, workVars
  <2> QED
    BY <1>6, <2>1, Zenon
<1>11. ASSUME NEW c \in Clients, Control(c) PROVE BusyRing'
  <2>1. UNCHANGED <<pc, busy>>
    BY <1>11, Zenon DEF Control, Cancel, SetIdleMax, SetThreadMax, SetThreshold, SetIdleWait, Deinit,
       workVars
  <2> QED
    BY <1>6, <2>1, Zenon
<1>12. ASSUME InitCount \/ (\E t \in Tasks : TimeComes(t)) \/ UNCHANGED vars
       PROVE  BusyRing'
  <2>1. UNCHANGED <<pc, busy>>
    BY <1>12, Zenon DEF InitCount, TimeComes, vars, workVars
  <2> QED
    BY <1>6, <2>1, Zenon
<1>13. ASSUME PoolStep PROVE BusyRing'
  BY <1>1, <1>2, <1>3, <1>4, <1>5, <1>12, <1>13, Zenon DEF PoolStep, WorkerStep
<1>14. ASSUME AddStep PROVE BusyRing'
  BY <1>8, <1>14, Zenon DEF AddStep
<1> QED
  BY <1>9, <1>10, <1>11, <1>12, <1>13, <1>14, NextCases, Zenon

\* The idle ring is counted, holds nobody who was told to stop and, until the pool is
\* terminated, everybody else who waits.
LEMMA IdleKept ==
  ASSUME IInv, CallTypes, IdleCounted, [Next]_vars
  PROVE  IdleCounted'
<1>0. IsFiniteSet(idle) /\ Cardinality(idle) \in Nat
  BY PoolAssumption, FS_Subset, FS_CardinalityType, Zenon DEF CallTypes
<1> DEFINE Ring == {w \in Workers \ stop : pc[w] \in Idle}
<1>1. ASSUME ~ub PROVE idleCnt = Cardinality(idle) /\ idle \cap stop = {}
                       /\ (~terminated => idle = Ring)
  BY <1>1, Zenon DEF IdleCounted
<1>2. ASSUME UNCHANGED <<idle, idleCnt>>, stop' \subseteq stop, ~ub => (~terminated' => Ring' = Ring),
             ub => ub', terminated => terminated'
      PROVE  IdleCounted'
  BY <1>1, <1>2, Zenon DEF IdleCounted
<1>3. ASSUME NEW n \in Workers \cup {NoOne}, InitCreate(n) PROVE IdleCounted'
  <2>1. UNCHANGED <<idle, idleCnt, terminated, ub>> /\ stop' = stop \ {n}
    BY <1>3, Zenon DEF InitCreate, confVars
  <2>2. Ring' = Ring
    BY <1>3, PoolAssumption DEF InitCreate, MayCreate, Fresh, Started, Idle, IInv, PoolTypes
  <2> QED
    BY <1>2, <2>1, <2>2, Zenon
<1>4. ASSUME NEW w \in Workers, NEW t, Enter(w, t) PROVE IdleCounted'
  <2>1. /\ ~ub /\ ~ub' /\ ~terminated /\ w \notin stop /\ stop' = stop /\ idle' = idle \ {w}
        /\ idleCnt' = IF pc[w] = "woken" THEN idleCnt - 1 ELSE idleCnt
        /\ pc[w] \in {"start", "woken"} /\ pc' = [pc EXCEPT ![w] = "check"]
    BY <1>4, Zenon DEF Enter
  <2>2. w \in idle <=> pc[w] = "woken"
    BY <1>1, <2>1, Zenon DEF Idle
  <2>3. idleCnt' = Cardinality(idle')
    <3>1. CASE pc[w] = "woken"
      <4>1. Cardinality(idle \ {w}) = Cardinality(idle) - 1
        BY <1>0, <2>2, <3>1, FS_RemoveElement, Zenon
      <4>2. idleCnt' = idleCnt - 1 /\ idle' = idle \ {w} /\ idleCnt = Cardinality(idle)
        BY <1>1, <2>1, <3>1, Zenon
      <4> QED
        BY <4>1, <4>2, Zenon
    <3>2. CASE pc[w] # "woken"
      <4>1. idle' = idle
        BY <2>1, <2>2, <3>2, Zenon
      <4> QED
        BY <1>1, <2>1, <3>2, <4>1, Zenon
    <3> QED
      BY <3>1, <3>2, Zenon
  <2>4. idle' = Ring' /\ idle' \cap stop' = {}
    BY <1>1, <2>1, Zenon DEF Idle, IInv, PoolTypes
  <2> QED
    BY <2>3, <2>4, Zenon DEF IdleCounted
<1>5. ASSUME NEW w \in Workers, Settle(w) PROVE IdleCounted'
  <2>1. /\ ~ub /\ ~ub' /\ ~terminated /\ w \notin stop /\ stop' = stop /\ idle' = idle \cup {w}
        /\ idleCnt' = idleCnt + 1 /\ pc[w] = "settle" /\ pc' = [pc EXCEPT ![w] = "idling"]
    BY <1>5, Zenon DEF Settle, MustExit
  <2>2. w \notin idle
    BY <1>1, <2>1, Zenon DEF Idle
  <2>3. idleCnt' = Cardinality(idle')
    BY <1>0, <1>1, <2>1, <2>2, FS_AddElement, Zenon
  <2>4. idle' = Ring' /\ idle' \cap stop' = {}
    BY <1>1, <2>1 DEF Idle, IInv, PoolTypes
  <2> QED
    BY <2>3, <2>4, Zenon DEF IdleCounted
<1>6. ASSUME NEW w \in Workers, Quit(w) PROVE IdleCounted'
  <2>1. UNCHANGED <<idle, idleCnt, terminated, ub, stop>> /\ (terminated \/ w \in stop)
        /\ pc' = [pc EXCEPT ![w] = "leaving"]
    BY <1>6, Zenon DEF Quit, confVars
  <2>2. w \in stop => Ring' = Ring
    BY <2>1, Zenon DEF IInv, PoolTypes
  <2> QED
    BY <1>2, <2>1, <2>2, Zenon
<1>7. ASSUME NEW w \in Workers, NEW a, pc' = [pc EXCEPT ![w] = a], pc[w] \in Idle <=> a \in Idle,
             UNCHANGED <<idle, idleCnt, terminated, stop>>, ub => ub'
      PROVE  IdleCounted'
  <2>1. Ring' = Ring
    BY <1>7, Zenon DEF IInv, PoolTypes
  <2> QED
    BY <1>2, <1>7, <2>1, Zenon
<1>8. ASSUME NEW w \in Workers, NEW t, Finish(w, t) PROVE IdleCounted'
  BY <1>7, <1>8, Zenon DEF Finish, confVars, Idle
<1>9. ASSUME NEW w \in Workers, Run(w) \/ Drop(w) \/ Wait(w) PROVE IdleCounted'
  BY <1>7, <1>9, Zenon DEF Run, Drop, Wait, confVars, Idle
<1>10. ASSUME NEW w \in Workers, Retire(w) \/ Leave(w) \/ EltNewFails(w) \/ SpuriousWake(w)
       PROVE  IdleCounted'
  BY <1>7, <1>10, Zenon DEF Retire, Leave, EltNewFails, SpuriousWake, confVars, Idle
<1>11. ASSUME NEW c \in Clients, NEW t \in Tasks, AddTask(c, t) \/ ScheduleTask(c, t)
       PROVE  IdleCounted'
  <2>1. UNCHANGED <<idle, idleCnt, terminated, ub>> /\ \E need : StartAndSignal(need, t)
    BY <1>11, Zenon DEF AddTask, ScheduleTask, confVars
  <2>2. PICK n \in Workers \cup {NoOne}, s \in Workers \cup {NoOne} :
          /\ n = NoOne \/ MayCreate(n)
          /\ MaySignal(s) /\ pc' = Started(n, s) /\ stop' = stop \ {n}
    BY <2>1, Zenon DEF StartAndSignal
  <2>3. Ring' = Ring
    BY <2>2, PoolAssumption DEF MayCreate, MaySignal, Fresh, Started, Idle, IInv, PoolTypes
  <2> QED
    BY <1>2, <2>1, <2>2, <2>3, Zenon
<1>12. ASSUME NEW c \in Clients, Trim(c) PROVE IdleCounted'
  <2>1. ~ub /\ ~ub' /\ UNCHANGED <<pc, terminated>>
    BY <1>12, Zenon DEF Trim, confVars
  <2>2. CASE UNCHANGED <<idle, idleCnt, stop>>
    BY <1>1, <2>1, <2>2, Zenon DEF IdleCounted
  <2>3. CASE \E kept \in SUBSET idle :
               Cardinality(kept) = cli[c].n /\ idle' = kept /\ idleCnt' = cli[c].n
               /\ stop' = stop \cup (idle \ kept)
    BY <1>1, <2>1, <2>3, Zenon DEF IdleCounted
  <2> QED
    BY <1>12, <2>2, <2>3, Zenon DEF Trim
<1>13. ASSUME NEW c \in Clients, Broadcast(c) PROVE IdleCounted'
  <2>1. UNCHANGED <<idle, idleCnt, terminated, ub, stop>>
    BY <1>13, Zenon DEF Broadcast, confVars
  <2>2. Ring' = Ring
    BY <1>13, Zenon DEF Broadcast, Idle, IInv, PoolTypes
  <2> QED
    BY <1>2, <2>1, <2>2, Zenon
<1>14. ASSUME UNCHANGED <<idle, idleCnt, stop, pc>>, ub => ub', terminated => terminated'
       PROVE  IdleCounted'
  BY <1>1, <1>14, Zenon DEF IdleCounted
<1> HIDE DEF Ring
<1>15. ASSUME NEW c \in Clients, CallStep(c), ~Broadcast(c), ~Trim(c) PROVE IdleCounted'
  <2>1. UNCHANGED <<idle, idleCnt, stop, pc, terminated>> /\ (ub => ub')
    BY <1>15, Zenon DEF CallStep, CancelReturn, Join, Excess, Split, TrimCount, TrimBusy,
       DeinitIdleMax, DeinitFree, workVars, confVars
  <2> QED
    BY <1>14, <2>1, Zenon
<1>16. ASSUME NEW c \in Clients, Control(c) PROVE IdleCounted'
  <2>1. UNCHANGED <<workVars, idleCnt, ub>>
    BY <1>16, ControlCalls, Zenon
  <2>2. terminated => terminated'
    BY <1>16, Zenon DEF Control, Cancel, SetIdleMax, SetThreadMax, SetThreshold, SetIdleWait, Deinit,
       confVars
  <2> QED
    BY <1>14, <2>1, <2>2, Zenon DEF workVars
<1>17. ASSUME InitCount \/ (\E t \in Tasks : TimeComes(t)) \/ UNCHANGED vars
       PROVE  IdleCounted'
  <2>1. UNCHANGED <<idle, idleCnt, stop, pc, ub, terminated>>
    BY <1>17, Zenon DEF InitCount, TimeComes, vars, workVars, confVars
  <2> QED
    BY <1>14, <2>1, Zenon
<1>18. ASSUME PoolStep PROVE IdleCounted'
  BY <1>3, <1>4, <1>5, <1>6, <1>8, <1>9, <1>10, <1>17, <1>18, Zenon DEF PoolStep, WorkerStep
<1>19. ASSUME AddStep PROVE IdleCounted'
  BY <1>11, <1>19, Zenon DEF AddStep
<1> QED
  BY <1>12, <1>13, <1>15, <1>16, <1>17, <1>18, <1>19, NextCases, Zenon

\* A task that was taken, run or given up stays so.
LEMMA TakenStays ==
  ASSUME IInv, [Next]_vars
  PROVE  InHands \cup done \cup gone \subseteq InHands' \cup done' \cup gone'
<1> DEFINE Taken == InHands \cup done \cup gone
           Grows == Taken \subseteq Taken'
<1>1. ASSUME NEW w \in Workers, NEW t, Enter(w, t) PROVE Grows
  BY <1>1 DEF Enter, InHands, IInv, HandsMatch, PoolTypes
<1>2. ASSUME NEW w \in Workers, NEW t, Finish(w, t) PROVE Grows
  BY <1>2 DEF Finish, InHands, IInv, PoolTypes
<1>3. ASSUME NEW w \in Workers, Drop(w) PROVE Grows
  BY <1>3 DEF Drop, InHands, IInv, PoolTypes
<1>4. ASSUME UNCHANGED hand, done \subseteq done', gone \subseteq gone' PROVE Grows
  BY <1>4, Zenon DEF InHands
<1>5. ASSUME NEW w \in Workers, Quit(w) \/ Run(w) \/ Settle(w) \/ Wait(w) \/ Retire(w) PROVE Grows
  BY <1>4, <1>5, Zenon DEF Quit, Run, Settle, Wait, Retire, queueVars
<1>6. ASSUME NEW w \in Workers, Leave(w) \/ EltNewFails(w) \/ SpuriousWake(w) PROVE Grows
  BY <1>4, <1>6, Zenon DEF Leave, EltNewFails, SpuriousWake, queueVars
<1>7. ASSUME NEW n, InitCreate(n) \/ InitCount PROVE Grows
  BY <1>4, <1>7, Zenon DEF InitCreate, InitCount, workVars, queueVars
<1>8. ASSUME NEW t, TimeComes(t) PROVE Grows
  BY <1>4, <1>8, Zenon DEF TimeComes, workVars
<1>9. ASSUME NEW c \in Clients, NEW t \in Tasks, AddTask(c, t) \/ ScheduleTask(c, t) PROVE Grows
  BY <1>4, <1>9, Zenon DEF AddTask, ScheduleTask
<1>10. ASSUME NEW c \in Clients, Control(c) PROVE Grows
  <2>1. UNCHANGED <<hand, done>> /\ gone \subseteq gone'
    BY <1>10, Zenon DEF Control, Cancel, SetIdleMax, SetThreadMax, SetThreshold, SetIdleWait, Deinit,
       workVars, queueVars
  <2> QED
    BY <1>4, <2>1, Zenon
<1>11. ASSUME NEW c \in Clients, CallStep(c) PROVE Grows
  <2>1. UNCHANGED <<hand, done, gone>>
    BY <1>11, Zenon DEF CallStep, CancelReturn, Trim, Broadcast, Join, Excess, Split, TrimCount, TrimBusy,
       DeinitIdleMax, DeinitFree, workVars, queueVars
  <2> QED
    BY <1>4, <2>1, Zenon
<1>12. ASSUME UNCHANGED vars PROVE Grows
  BY <1>4, <1>12, Zenon DEF vars, workVars, queueVars
<1> HIDE DEF Grows
<1>13. ASSUME PoolStep PROVE Grows
  BY <1>1, <1>2, <1>3, <1>5, <1>6, <1>7, <1>8, <1>13, Zenon DEF PoolStep, WorkerStep
<1>14. ASSUME AddStep PROVE Grows
  BY <1>9, <1>14, Zenon DEF AddStep
<1>15. Grows
  BY <1>10, <1>11, <1>12, <1>13, <1>14, NextCases, Zenon
<1> QED
  BY <1>15, Zenon DEF Grows

\* cancel_tasks keeps track of the tasks it waits for.
LEMMA MustKept ==
  ASSUME IInv, CallTypes, StaysClosing, MustTracked, [Next]_vars
  PROVE  MustTracked'
<1> DEFINE Taken == InHands \cup done \cup gone
<1>1. Taken \subseteq Taken'
  BY TakenStays, Zenon
<1> HIDE DEF Taken
<1>2. ASSUME NEW d \in Clients, cli'[d] = cli[d], cli'[d].at = "wait_on_busy"
      PROVE  cli'[d].must \subseteq OwnedBy(cli'[d].who) /\ cli'[d].must \subseteq Taken'
  BY <1>1, <1>2, Zenon DEF MustTracked, Taken
<1>3. ASSUME NEW c \in Clients, NEW o \in Owners, Cancel(c, o)
      PROVE  cli'[c].must \subseteq OwnedBy(cli'[c].who) /\ cli'[c].must \subseteq Taken'
  <2>1. cli'[c].who = o /\ cli'[c].must = (queue \cup sched \cup InHands) \cap OwnedBy(o)
    BY <1>3, Zenon DEF Cancel, CallTypes
  <2>2. InHands' = InHands /\ gone' = gone \cup ((queue \cup sched) \cap OwnedBy(o))
    BY <1>3, Zenon DEF Cancel, workVars, InHands
  <2> QED
    BY <2>1, <2>2, Zenon DEF Taken
<1>4. ASSUME NEW c \in Clients, Control(c) PROVE MustTracked'
  <2>1. Only(c) /\ (cli'[c].at = "wait_on_busy" => \E o \in Owners : Cancel(c, o))
    BY <1>4, ControlCalls, Zenon
  <2> QED
    BY <1>2, <1>3, <2>1, Zenon DEF MustTracked, Only, Taken
<1>5. ASSUME NEW c \in Clients, CallStep(c) PROVE MustTracked'
  <2>1. Only(c) /\ cli'[c].at # "wait_on_busy"
    BY <1>5, CallStepCalls, Zenon
  <2> QED
    BY <1>2, <2>1, Zenon DEF MustTracked, Only, Taken
<1>6. CASE PoolStep \/ AddStep \/ UNCHANGED vars
  BY <1>2, <1>6, CallsKept, Zenon DEF MustTracked, Taken
<1> QED
  BY <1>4, <1>5, <1>6, NextCases, Zenon

LEMMA CInvHolds == Spec => []CInv
<1>1. Init => CInv
  <2> SUFFICES ASSUME Init PROVE CInv
    BY Zenon
  <2>1. cli = [c \in Clients |-> NoCall] /\ pc = [w \in Workers |-> "none"]
        /\ stop = {} /\ idle = {} /\ idleCnt = 0 /\ queue = {} /\ sched = {} /\ ~freed
    BY Zenon DEF Init
  <2>2. CallTypes
    BY <2>1, NoCallOK DEF CallTypes, CallRecords
  <2>3. \A c \in Clients : cli[c].then = "none" /\ cli[c].at = "none"
    BY <2>1, Zenon DEF NoCall
  <2>4. StaysClosing /\ ClosedAfterInit /\ FreedClosed /\ BusyRing /\ MustTracked
    BY <2>1, <2>3, Zenon DEF StaysClosing, ClosedAfterInit, FreedClosed, Closing, BusyRing, MustTracked
  <2>5. IdleCounted
    BY <2>1, FS_EmptySet, Zenon DEF IdleCounted, Idle
  <2> QED
    BY <2>2, <2>4, <2>5, Zenon DEF CInv
<1>2. IInv /\ CInv /\ [Next]_vars => CInv'
  BY CallTypesKept, ClosingKept, FreedKept, IdleKept, BusyKept, MustKept, Zenon DEF CInv
<1> QED
  BY <1>1, <1>2, IInvHolds, PTL DEF Spec
-----------------------------------------------------------------------------
\* base_deinit_threadpool, which polls thd_cnt without the mutex, frees the pool only
\* when every thread has decided to exit.
THEOREM PoolFreedLast == Spec => []FreedAfterThreadsLeft
<1>1. CInv => FreedAfterThreadsLeft
  BY Zenon DEF CInv, FreedClosed, FreedAfterThreadsLeft
<1> QED
  BY <1>1, CInvHolds, PTL

\* idle_cnt is the length of the idle ring and the ring holds exactly the threads that
\* wait and were not told to stop, whatever limits are set while they wait.
THEOREM IdleCountExact == Spec => []IdleCounted
<1>1. CInv => IdleCounted
  BY Zenon DEF CInv
<1> QED
  BY <1>1, CInvHolds, PTL

\* When cancel_tasks returns, none of the tasks its owner had queued or running at the
\* time of the call is queued or running, however many cancellations run at once.
THEOREM CancelWaitsForAll == Spec => CancelComplete
<1> DEFINE Complete ==
             \A c \in Clients :
               cli[c].at = "wait_on_busy" /\ cli'[c].at = "none" =>
                 cli[c].must \cap (queue \cup sched \cup InHands) = {}
<1>1. IInv /\ CInv /\ [Next]_vars => [Complete]_vars
  <2> SUFFICES ASSUME IInv, CInv, [Next]_vars, NEW c \in Clients,
                      cli[c].at = "wait_on_busy", cli'[c].at = "none"
               PROVE  cli[c].must \cap (queue \cup sched \cup InHands) = {}
    BY Zenon
  <2>1. CallTypes /\ StaysClosing /\ MustTracked /\ BusyRing
    BY Zenon DEF CInv
  <2>2. PICK d \in Clients : Control(d) \/ CallStep(d)
    BY NextCases, CallsKept, Zenon
  <2>3. Only(d) /\ (Control(d) => cli[d].at = "none")
    BY <2>1, <2>2, ControlCalls, CallStepCalls, Zenon DEF CanCall
  <2>4. d = c /\ CallStep(c)
    BY <2>2, <2>3, Zenon DEF Only
  <2>5. CancelReturn(c)
    BY <2>4, Zenon DEF CallStep, Trim, Broadcast, Join, Excess, Split, TrimCount, TrimBusy,
       DeinitIdleMax, DeinitFree
  <2>6. ~ub /\ \A w \in busy : hand[w] \notin OwnedBy(cli[c].who)
    BY <2>5, Zenon DEF CancelReturn, BusyWith
  <2>7. cli[c].must \subseteq OwnedBy(cli[c].who)
        /\ cli[c].must \subseteq InHands \cup done \cup gone
    BY <2>1, Zenon DEF MustTracked
  <2>8. cli[c].must \cap (queue \cup sched) = {}
    BY <2>6, <2>7, Zenon DEF IInv, TaskInOnePlace
  <2>9. cli[c].must \cap InHands = {}
    <3> SUFFICES ASSUME NEW w \in Workers, hand[w] # NoTask, hand[w] \in cli[c].must
                 PROVE  FALSE
      BY Zenon DEF InHands
    <3>1. w \in busy
      BY <2>1, Zenon DEF IInv, HandsMatch, BusyRing
    <3> QED
      BY <2>6, <2>7, <3>1, Zenon
  <2> QED
    BY <2>8, <2>9, Zenon
<1> QED
  BY <1>1, IInvHolds, CInvHolds, PTL DEF Spec, CancelComplete
=============================================================================
