------------------------------ MODULE TaskQueue ------------------------------
(***************************************************************************)
(* The two task lists of public/thread/base_threadpool.c, as changed by    *)
(* the critical sections of add_task, schedule_task, pop_task and          *)
(* cancel_tasks: the ring of tasks with its index task_idx of the first    *)
(* task of each priority segment, and the ring of scheduled tasks.         *)
(*                                                                         *)
(* The names of the specification begin with Lists, so that the module can *)
(* be extended beside those of other containers.                           *)
(***************************************************************************)
EXTENDS Integers, Sequences, FiniteSets

CONSTANTS
  Workloads,   \* sets of priorities, one of which the callers pass to addtask and top
  Owners,
  Delays,      \* times passed to scheduletask
  MaxTasks,    \* task_max, 0 for none
  MaxAdds,     \* bound on the number of tasks
  MaxNow,      \* bound on the clock
  Null

\* task ids are numbers, and an int is passed as the priority
ASSUME TaskQueueAssumption ==
  /\ \A workload \in Workloads : workload \subseteq Int
  /\ Delays \subseteq Nat
  /\ Null \notin Nat

VARIABLES
  priorities,  \* the priorities in use
  tasks,       \* me->tasks: records id, pri, owner and how it was added
  idx,         \* me->task_idx: the id of a task or Null
  scheduled,   \* me->scheduled_tasks: records id, time, owner
  now,         \* the clock
  adds         \* the number of tasks added: the next id

listsVars == <<priorities, tasks, idx, scheduled, now, adds>>

Segs == 0 .. 3

Seg(t) == (t.pri % 256) \div 64

\* positions; one past the end is the sentinel
Sentinel == Len(tasks) + 1
Pos(id) == CHOOSE i \in 1 .. Len(tasks) : tasks[i].id = id

InsertBefore(s, i, e) == SubSeq(s, 1, i - 1) \o <<e>> \o SubSeq(s, i, Len(s))

\* the first position in the ring of those in found, or the sentinel
First(found) == IF found = {} THEN Sentinel ELSE CHOOSE j \in found : \A k \in found : j <= k

\* the positions from task_idx[s] on
From(s) == Pos(idx[s]) .. Len(tasks)

ListsInit ==
  /\ priorities \in Workloads
  /\ tasks = <<>> /\ scheduled = <<>>
  /\ idx = [s \in Segs |-> Null]
  /\ now = 0 /\ adds = 0
-----------------------------------------------------------------------------
\* mutant of EmptySegPos: always at the end
EmptySegPosTail(s) == Sentinel

\* add_if_empty, a segment without a first task: before the first task of the next
\* lower segment that has one
EmptySegPos(s) ==
  LET lower == {r \in Segs : r < s /\ idx[r] # Null}
  IN  IF lower = {} THEN Sentinel
      ELSE Pos(idx[CHOOSE r \in lower : \A q \in lower : q <= r])

\* mutant of PushPos: ahead of the tasks of the same priority
PushPosFirst(t) == First({j \in From(Seg(t)) : tasks[j].pri <= t.pri})

\* add_if_empty and the loop of add_task: where a pushed task goes
PushPos(t) == First({j \in From(Seg(t)) : tasks[j].pri < t.pri})

\* add_if_empty: where a task given to top goes
TopPos(t) == First({j \in From(Seg(t)) : tasks[j].pri <= t.pri})

\* add_task; push tells addtask (TRUE) from top (FALSE)
AddTask(pri, owner, push) ==
  LET t == [id |-> adds, pri |-> pri, owner |-> owner, push |-> push]
      s == Seg(t)
      at == IF idx[s] = Null THEN EmptySegPos(s) ELSE IF push THEN PushPos(t) ELSE TopPos(t)
      first == \/ idx[s] = Null
               \/ ~push /\ at # Sentinel /\ tasks[at].id = idx[s]
  IN  /\ adds < MaxAdds
      /\ MaxTasks = 0 \/ Len(tasks) < MaxTasks
      /\ tasks' = InsertBefore(tasks, at, t)
      /\ idx' = IF first THEN [idx EXCEPT ![s] = t.id] ELSE idx
      /\ adds' = adds + 1
      /\ UNCHANGED <<priorities, scheduled, now>>

\* schedule_task: before the first task of a later time
SchedulePos(time) ==
  LET later == {i \in 1 .. Len(scheduled) : time < scheduled[i].time}
  IN  IF later = {} THEN Len(scheduled) + 1 ELSE CHOOSE i \in later : \A j \in later : i <= j

\* schedule_task; a delay that is not positive leaves the time unset and is not modelled
ScheduleTask(delay, owner) ==
  LET t == [id |-> adds, time |-> now + delay, owner |-> owner]
  IN  /\ adds < MaxAdds
      /\ scheduled' = InsertBefore(scheduled, SchedulePos(t.time), t)
      /\ adds' = adds + 1
      /\ UNCHANGED <<priorities, tasks, idx, now>>

\* mutant of IdxAfter: the index moves on to a task of another segment
IdxAfterAny(s, i) ==
  IF idx[s] # tasks[i].id THEN idx[s] ELSE IF i = Len(tasks) THEN Null ELSE tasks[i + 1].id

\* pop_task: task_idx[s] when the task at i, of segment s, leaves
IdxAfter(s, i) ==
  IF idx[s] # tasks[i].id THEN idx[s]
  ELSE IF i = Len(tasks) \/ Seg(tasks[i + 1]) # s THEN Null ELSE tasks[i + 1].id

\* pop_task, the scheduled tasks
PopScheduled ==
  /\ scheduled # <<>> /\ scheduled[1].time <= now
  /\ scheduled' = Tail(scheduled)
  /\ UNCHANGED <<priorities, tasks, idx, now, adds>>

\* pop_task, the other tasks
PopTask ==
  /\ ~(scheduled # <<>> /\ scheduled[1].time <= now)
  /\ tasks # <<>>
  /\ tasks' = Tail(tasks)
  /\ idx' = LET s == Seg(tasks[1]) IN [idx EXCEPT ![s] = IdxAfter(s, 1)]
  /\ UNCHANGED <<priorities, scheduled, now, adds>>

\* remove_tasks, from the front: the index skips the owner's tasks of its segment and
\* becomes Null where it would leave the segment
RemovedIdx(owner) ==
  [s \in Segs |->
    IF idx[s] = Null THEN Null
    ELSE LET stay == First({j \in From(s) : tasks[j].owner # owner})
             leave == First({j \in From(s) : Seg(tasks[j]) # s})
         IN  IF stay < leave THEN tasks[stay].id ELSE Null]

\* what remove_tasks and remove_scheduled_tasks leave of the ring r: the tasks of the other
\* owners in their order (a set of one ring)
Without(r, owner) ==
  LET stay == {i \in 1 .. Len(r) : r[i].owner # owner}
      n == Cardinality(stay)
      inOrder == {f \in [1 .. n -> stay] : \A i, j \in 1 .. n : i < j => f[i] < f[j]}
  IN  {[i \in 1 .. n |-> r[f[i]]] : f \in inOrder}

\* cancel_tasks, its first critical section
CancelTasks(owner) ==
  /\ tasks' \in Without(tasks, owner)
  /\ idx' = RemovedIdx(owner)
  /\ scheduled' \in Without(scheduled, owner)
  /\ UNCHANGED <<priorities, now, adds>>

Tick ==
  /\ now < MaxNow
  /\ now' = now + 1
  /\ UNCHANGED <<priorities, tasks, idx, scheduled, adds>>

ListsNext ==
  \/ \E pri \in priorities, owner \in Owners, push \in BOOLEAN : AddTask(pri, owner, push)
  \/ \E delay \in Delays, owner \in Owners : ScheduleTask(delay, owner)
  \/ PopScheduled
  \/ PopTask
  \/ \E owner \in Owners : CancelTasks(owner)
  \/ Tick

ListsSpec == ListsInit /\ [][ListsNext]_listsVars
-----------------------------------------------------------------------------
\* task_idx never dangles: it is NULL or a task that is in the ring and in its segment,
\* after any sequence of adds, pops and cancellations.
IndexSound ==
  \A s \in Segs : idx[s] # Null =>
    \E i \in 1 .. Len(tasks) : tasks[i].id = idx[s] /\ Seg(tasks[i]) = s

\* Tasks keep the order they were added in: those of one priority added with addtask, even
\* where the index has gone astray, and scheduled tasks of one time, behind those of earlier
\* times (base_threadpool.c:428).
TasksInOrder ==
  /\ \A i, j \in 1 .. Len(tasks) :
       i < j /\ tasks[i].push /\ tasks[j].push /\ tasks[i].pri = tasks[j].pri =>
         tasks[i].id < tasks[j].id
  /\ \A i, j \in 1 .. Len(scheduled) :
       i < j => \/ scheduled[i].time < scheduled[j].time
                \/ scheduled[i].time = scheduled[j].time /\ scheduled[i].id < scheduled[j].id

\* each segment has at most one of the priorities in use
OnePerSegment ==
  \A p, q \in priorities : Seg([pri |-> p]) = Seg([pri |-> q]) => p = q

\* With one priority to a segment the ring is sorted by falling priority: cancellations
\* and pops never lead add_task to insert at a wrong place.  (Not so with two: task_idx may
\* lead past tasks of its segment.)
SortedByPriority ==
  OnePerSegment => \A i, j \in 1 .. Len(tasks) : i < j => tasks[i].pri >= tasks[j].pri
=============================================================================
