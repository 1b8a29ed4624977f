--------------------------- MODULE TaskQueueProofs ---------------------------
(***************************************************************************)
(* IndexSound, TasksInOrder and SortedByPriority of TaskQueue, for any     *)
(* number of tasks, owners and priorities and any sequence of adds, pops   *)
(* and cancellations.                                                      *)
(*                                                                         *)
(* IndexSound needs only that ids are not used twice (Numbered).  The      *)
(* order of the ring needs to know how far task_idx can go astray: it may  *)
(* lead past tasks of its own segment, and be NULL while the segment has   *)
(* tasks, but                                                              *)
(*   Behind   every task of a higher segment is in front of it, and        *)
(*   Falling  from it on the tasks of its segment come first and fall in   *)
(*            priority.                                                    *)
(* So a task that is pushed is put behind all of its own priority.  With   *)
(* one priority to a segment it does not go astray at all:                 *)
(*   Led      in front of each task is, or it is itself, the task its      *)
(*            segment's index points to.                                   *)
(* These need priorities of 8 bits: the segment is that of the low 8 bits  *)
(* and the loops compare the whole int.                                    *)
(***************************************************************************)
EXTENDS TaskQueue, FiniteSetTheorems, SequenceTheorems, WellFoundedInduction, TLAPS

TypeOK ==
  /\ priorities \subseteq Int
  /\ tasks \in Seq([id : Nat, pri : priorities, owner : Owners, push : BOOLEAN])
  /\ idx \in [Segs -> Nat \cup {Null}]
  /\ scheduled \in Seq([id : Nat, time : Nat, owner : Owners])
  /\ now \in Nat /\ adds \in Nat

\* a task has its own id
Numbered ==
  /\ \A i \in 1 .. Len(tasks) : tasks[i].id < adds
  /\ \A i, j \in 1 .. Len(tasks) : tasks[i].id = tasks[j].id => i = j
  /\ \A i \in 1 .. Len(scheduled) : scheduled[i].id < adds

IndexInv == TypeOK /\ Numbered /\ IndexSound

Behind ==
  \A r \in Segs : \A i, j \in 1 .. Len(tasks) :
    idx[r] = tasks[i].id /\ Seg(tasks[j]) > r => j < i

Falling ==
  \A s \in Segs : \A i, j, k \in 1 .. Len(tasks) :
    idx[s] = tasks[i].id /\ i <= j /\ j < k /\ Seg(tasks[k]) = s => tasks[j].pri >= tasks[k].pri

Led ==
  OnePerSegment =>
    \A j \in 1 .. Len(tasks) : \E i \in 1 .. j : idx[Seg(tasks[j])] = tasks[i].id

\* Tasks of one priority keep the order they were pushed in.
InOrder ==
  \A i, j \in 1 .. Len(tasks) :
    i < j /\ tasks[i].push /\ tasks[j].push /\ tasks[i].pri = tasks[j].pri => tasks[i].id < tasks[j].id

\* and the scheduled tasks of one time
ScheduledInOrder ==
  \A i, j \in 1 .. Len(scheduled) :
    i < j => \/ scheduled[i].time < scheduled[j].time
             \/ scheduled[i].time = scheduled[j].time /\ scheduled[i].id < scheduled[j].id

\* the priorities in use have 8 bits
ByteTasks == priorities \subseteq 0 .. 255

OrderInv == ByteTasks /\ Behind /\ Falling /\ InOrder /\ ScheduledInOrder /\ Led /\ SortedByPriority

\* the priorities the segments are made for
EightBits == \A workload \in Workloads : workload \subseteq 0 .. 255
-----------------------------------------------------------------------------
\* A non-empty set of numbers has a smallest one.
LEMMA Smallest ==
  ASSUME NEW T, T \subseteq Nat, T # {}
  PROVE  \E x \in T : \A y \in T : x <= y
<1>1. \E x \in T : \A y \in T : ~(<<y, x>> \in OpToRel(<, Nat))
  BY NatLessThanWellFounded, WFMin, Zenon
<1>2. PICK x \in T : \A y \in T : ~(<<y, x>> \in OpToRel(<, Nat))
  BY <1>1, Zenon
<1>3. \A y \in T : ~(y < x)
  BY <1>2, Zenon DEF OpToRel
<1>. QED  BY <1>3

\* The segments of an int, and of 8 bits: a higher segment has the higher priorities.
LEMMA SegIs == \A t : t.pri \in Int => Seg(t) \in Segs
BY DEF Seg, Segs

LEMMA SegOrder ==
  ASSUME NEW t, NEW u, t.pri \in 0 .. 255, u.pri \in 0 .. 255, Seg(t) < Seg(u)
  PROVE  t.pri < u.pri
<1>1. \A p \in 0 .. 255 : p % 256 = p
  OBVIOUS
<1>2. \A p, q \in 0 .. 255 : p \div 64 < q \div 64 => p < q
  BY SMTT(30)
<1>. QED  BY <1>1, <1>2, ZenonT(30) DEF Seg

\* The fields of a task of the ring.
LEMMA TaskFields ==
  ASSUME TypeOK
  PROVE  /\ Len(tasks) \in Nat
         /\ \A i \in 1 .. Len(tasks) :
              /\ tasks[i] \in [id : Nat, pri : priorities, owner : Owners, push : BOOLEAN]
              /\ tasks[i].id \in Nat /\ tasks[i].id # Null
              /\ tasks[i].pri \in priorities /\ tasks[i].pri \in Int
              /\ tasks[i].owner \in Owners /\ Seg(tasks[i]) \in Segs
<1>1. Len(tasks) \in Nat
  BY DEF TypeOK
<1>2. \A i \in 1 .. Len(tasks) :
        tasks[i] \in [id : Nat, pri : priorities, owner : Owners, push : BOOLEAN]
  BY ElementOfSeq, Zenon DEF TypeOK
<1>. QED  BY <1>1, <1>2, SegIs, TaskQueueAssumption, Zenon DEF TypeOK

LEMMA ScheduledFields ==
  ASSUME TypeOK
  PROVE  /\ Len(scheduled) \in Nat
         /\ \A i \in 1 .. Len(scheduled) :
              /\ scheduled[i] \in [id : Nat, time : Nat, owner : Owners]
              /\ scheduled[i].id \in Nat /\ scheduled[i].time \in Nat
<1>1. Len(scheduled) \in Nat
  BY DEF TypeOK
<1>2. \A i \in 1 .. Len(scheduled) : scheduled[i] \in [id : Nat, time : Nat, owner : Owners]
  BY ElementOfSeq, Zenon DEF TypeOK
<1>. QED  BY <1>1, <1>2

\* First gives the smallest of the positions found, or the sentinel.
LEMMA FirstIs ==
  ASSUME Len(tasks) \in Nat, NEW found \in SUBSET (1 .. Len(tasks))
  PROVE  \/ found = {} /\ First(found) = Len(tasks) + 1
         \/ First(found) \in found /\ \A k \in found : First(found) <= k
<1>1. CASE found = {}
  BY <1>1 DEF First, Sentinel
<1>2. CASE found # {}
  <2>1. found \subseteq Nat
    OBVIOUS
  <2>2. \E j \in found : \A k \in found : j <= k
    BY <1>2, <2>1, Smallest, Zenon
  <2>. QED  BY <1>2, <2>2, Zenon DEF First
<1>. QED  BY <1>1, <1>2

\* Pos finds the task of an id.
LEMMA PosIs ==
  ASSUME Numbered, NEW i \in 1 .. Len(tasks)
  PROVE  Pos(tasks[i].id) = i
BY Zenon DEF Numbered, Pos
\* Where the position i of the ring is after an insertion before position at.
Shifted(at, i) == IF i < at THEN i ELSE i + 1

\* q is the ring r with e before position at.
Inserted(q, r, at, e) ==
  /\ Len(q) = Len(r) + 1 /\ q[at] = e
  /\ \A i \in 1 .. Len(r) : Shifted(at, i) \in 1 .. Len(q) /\ q[Shifted(at, i)] = r[i]
  /\ \A j \in 1 .. Len(q) : j = at \/ \E i \in 1 .. Len(r) : j = Shifted(at, i)

LEMMA ShiftedOrder ==
  ASSUME NEW at \in Nat
  PROVE  /\ \A i, j \in Nat : Shifted(at, i) < Shifted(at, j) <=> i < j
         /\ \A i \in Nat : /\ Shifted(at, i) \in Nat /\ Shifted(at, i) # at
                           /\ Shifted(at, i) < at <=> i < at
                           /\ at < Shifted(at, i) <=> at <= i
BY DEF Shifted

LEMMA InsertIs ==
  ASSUME NEW S, NEW r \in Seq(S), NEW at \in 1 .. Len(r) + 1, NEW e \in S
  PROVE  InsertBefore(r, at, e) \in Seq(S) /\ Inserted(InsertBefore(r, at, e), r, at, e)
<1>. DEFINE a == SubSeq(r, 1, at - 1)
            c == SubSeq(r, at, Len(r))
            q == (a \o <<e>>) \o c
<1>1. Len(r) \in Nat /\ at \in Nat /\ 1 <= at /\ at <= Len(r) + 1
  OBVIOUS
<1>2. a \in Seq(S) /\ Len(a) = at - 1 /\ \A i \in 1 .. (at - 1) : a[i] = r[i]
  BY <1>1, SubSeqProperties
<1>3. /\ c \in Seq(S) /\ Len(c) = Len(r) - at + 1
      /\ \A i \in 1 .. (Len(r) - at + 1) : c[i] = r[at + i - 1]
  BY <1>1, SubSeqProperties
<1>. HIDE DEF a, c
<1>4. <<e>> \in Seq(S) /\ Len(<<e>>) = 1 /\ <<e>>[1] = e
  OBVIOUS
<1>5. /\ a \o <<e>> \in Seq(S) /\ Len(a \o <<e>>) = at
      /\ \A i \in 1 .. (at - 1) : (a \o <<e>>)[i] = r[i]
      /\ (a \o <<e>>)[at] = e
  BY <1>1, <1>2, <1>4, ConcatProperties, SMTT(30)
<1>. DEFINE b == a \o <<e>>
<1>. HIDE DEF b
<1>6. /\ b \in Seq(S) /\ Len(b) = at /\ b[at] = e
      /\ \A i \in 1 .. (at - 1) : b[i] = r[i]
  BY <1>5 DEF b
<1>7. /\ b \o c \in Seq(S) /\ Len(b \o c) = Len(b) + Len(c)
      /\ \A i \in 1 .. (Len(b) + Len(c)) :
           (b \o c)[i] = IF i <= Len(b) THEN b[i] ELSE c[i - Len(b)]
  BY <1>3, <1>6, ConcatProperties
<1>8. InsertBefore(r, at, e) = b \o c
  BY DEF InsertBefore, a, b, c
<1>. DEFINE d == b \o c
<1>. HIDE DEF d
<1>9. d \in Seq(S) /\ Len(d) = Len(r) + 1 /\ d[at] = e
  BY <1>1, <1>3, <1>6, <1>7 DEF d
<1>10. \A i \in 1 .. Len(r) : i < at => d[i] = r[i]
  BY <1>1, <1>3, <1>6, <1>7, SMTT(30) DEF d
<1>11. \A i \in 1 .. Len(r) : i >= at => d[i + 1] = r[i]
  <2>. SUFFICES ASSUME NEW i \in 1 .. Len(r), i >= at PROVE d[i + 1] = r[i]
    OBVIOUS
  <2>1. /\ i + 1 \in 1 .. (Len(b) + Len(c)) /\ ~(i + 1 <= Len(b))
        /\ (i + 1) - Len(b) \in 1 .. (Len(r) - at + 1)
        /\ at + ((i + 1) - Len(b)) - 1 = i
    BY <1>1, <1>3, <1>6
  <2>2. d[i + 1] = c[(i + 1) - Len(b)]
    BY <1>7, <2>1 DEF d
  <2>. QED  BY <1>3, <2>1, <2>2, Zenon
<1>12. \A i \in 1 .. Len(r) : Shifted(at, i) \in 1 .. Len(d) /\ d[Shifted(at, i)] = r[i]
  BY <1>1, <1>9, <1>10, <1>11, SMTT(30) DEF Shifted
<1>13. \A j \in 1 .. Len(d) : j = at \/ \E i \in 1 .. Len(r) : j = Shifted(at, i)
  <2>. SUFFICES ASSUME NEW j \in 1 .. Len(d), j # at PROVE \E i \in 1 .. Len(r) : j = Shifted(at, i)
    OBVIOUS
  <2>1. CASE j < at
    <3>1. j \in 1 .. Len(r) /\ j = Shifted(at, j)
      BY <1>1, <2>1 DEF Shifted
    <3>. QED  BY <3>1
  <2>2. CASE j > at
    <3>1. j - 1 \in 1 .. Len(r) /\ j = Shifted(at, j - 1)
      BY <1>1, <1>9, <2>2 DEF Shifted
    <3>. QED  BY <3>1
  <2>. QED  BY <1>1, <1>9, <2>1, <2>2, SMTT(30)
<1>. QED  BY <1>8, <1>9, <1>12, <1>13, Zenon DEF Inserted, d

\* at is a place for t from the index on, at position i: behind tasks that are not lower,
\* in front of one that is not higher.
Placed(t, i, at) ==
  /\ at \in i .. Len(tasks) + 1
  /\ \A j \in i .. Len(tasks) : j < at => tasks[j].pri >= t.pri
  /\ at <= Len(tasks) => tasks[at].pri <= t.pri

\* The first of the positions in S is such a place when S has every lower task and no
\* higher one.
LEMMA FirstIsPlace ==
  ASSUME Len(tasks) \in Nat, \A j \in 1 .. Len(tasks) : tasks[j].pri \in Int,
         NEW t, t.pri \in Int, NEW i \in 1 .. Len(tasks),
         NEW S \in SUBSET (i .. Len(tasks)),
         \A j \in i .. Len(tasks) : tasks[j].pri < t.pri => j \in S,
         \A j \in S : tasks[j].pri <= t.pri,
         NEW f, (S = {} /\ f = Len(tasks) + 1) \/ (f \in S /\ \A k \in S : f <= k)
  PROVE  Placed(t, i, f) /\ (f <= Len(tasks) => f \in S)
<1>1. f \in i .. Len(tasks) + 1 /\ (f <= Len(tasks) => f \in S)
  <2>1. CASE S = {} /\ f = Len(tasks) + 1
    BY <2>1
  <2>2. CASE f \in S
    BY <2>2
  <2>. QED  BY <2>1, <2>2, Zenon
<1>2. ASSUME NEW j \in i .. Len(tasks), j < f PROVE j \notin S
  BY <1>1, <1>2
<1>3. ASSUME NEW j \in i .. Len(tasks), j < f PROVE tasks[j].pri >= t.pri
  <2>1. ~(tasks[j].pri < t.pri)
    BY <1>2, <1>3, Zenon
  <2>2. tasks[j].pri \in Int
    OBVIOUS
  <2>. QED  BY <2>1, <2>2
<1>. QED  BY <1>1, <1>3, Zenon DEF Placed

\* PushPos and TopPos give such a place: PushPos behind the tasks of the same priority,
\* TopPos in front of them.
LEMMA IndexedPlace ==
  ASSUME TypeOK, Numbered, NEW t, t.pri \in Int,
         NEW i \in 1 .. Len(tasks), idx[Seg(t)] = tasks[i].id
  PROVE  /\ Placed(t, i, PushPos(t))
         /\ PushPos(t) <= Len(tasks) => tasks[PushPos(t)].pri < t.pri
         /\ Placed(t, i, TopPos(t))
<1>1. From(Seg(t)) = i .. Len(tasks)
  BY PosIs, Zenon DEF From
<1>2. Len(tasks) \in Nat /\ \A j \in 1 .. Len(tasks) : tasks[j].pri \in Int
  BY TaskFields, Zenon
<1>3. \A j \in i .. Len(tasks) : j \in 1 .. Len(tasks)
  BY <1>2
<1>. DEFINE P == {j \in i .. Len(tasks) : tasks[j].pri < t.pri}
            T == {j \in i .. Len(tasks) : tasks[j].pri <= t.pri}
<1>4. PushPos(t) = First(P) /\ TopPos(t) = First(T)
  BY <1>1, Zenon DEF PushPos, TopPos
<1>5. P \in SUBSET (1 .. Len(tasks)) /\ T \in SUBSET (1 .. Len(tasks))
  BY <1>3, Zenon
<1>6. /\ \/ P = {} /\ First(P) = Len(tasks) + 1
         \/ First(P) \in P /\ \A k \in P : First(P) <= k
      /\ \/ T = {} /\ First(T) = Len(tasks) + 1
         \/ First(T) \in T /\ \A k \in T : First(T) <= k
  BY <1>2, <1>5, FirstIs, Zenon
<1>7. ASSUME NEW f, (P = {} /\ f = Len(tasks) + 1) \/ (f \in P /\ \A k \in P : f <= k)
      PROVE  Placed(t, i, f) /\ (f <= Len(tasks) => tasks[f].pri < t.pri)
  <2>1. /\ P \in SUBSET (i .. Len(tasks)) /\ \A j \in P : tasks[j].pri < t.pri
        /\ \A j \in i .. Len(tasks) : tasks[j].pri < t.pri => j \in P
    BY Zenon
  <2>. HIDE DEF P
  <2>2. \A j \in P : j \in 1 .. Len(tasks)
    BY <1>3, <2>1, Zenon
  <2>3. \A j \in P : tasks[j].pri <= t.pri
    BY <1>2, <2>1, <2>2
  <2>. QED  BY <1>2, <1>7, <2>1, <2>3, FirstIsPlace, Zenon
<1>8. ASSUME NEW f, (T = {} /\ f = Len(tasks) + 1) \/ (f \in T /\ \A k \in T : f <= k)
      PROVE  Placed(t, i, f)
  <2>1. /\ T \in SUBSET (i .. Len(tasks)) /\ \A j \in T : tasks[j].pri <= t.pri
        /\ \A j \in i .. Len(tasks) : tasks[j].pri <= t.pri => j \in T
    BY Zenon
  <2>. HIDE DEF T
  <2>2. \A j \in i .. Len(tasks) : tasks[j].pri < t.pri => tasks[j].pri <= t.pri
    BY <1>2, <1>3, SMTT(30)
  <2>3. \A j \in i .. Len(tasks) : tasks[j].pri < t.pri => j \in T
    BY <2>1, <2>2, Zenon
  <2>. QED  BY <1>2, <1>8, <2>1, <2>3, FirstIsPlace, Zenon
<1>. HIDE DEF P, T
<1>. QED  BY <1>4, <1>6, <1>7, <1>8, Zenon

\* A segment without an index: the end of the ring, or the index of the highest lower
\* segment that has one.
LEMMA EmptyPlace ==
  ASSUME TypeOK, Numbered, IndexSound, NEW s \in Segs
  PROVE  \/ EmptySegPos(s) = Len(tasks) + 1 /\ \A r \in Segs : r < s => idx[r] = Null
         \/ \E r \in Segs, i \in 1 .. Len(tasks) :
              /\ r < s /\ idx[r] = tasks[i].id /\ EmptySegPos(s) = i
              /\ \A q \in Segs : q < s /\ idx[q] # Null => q <= r
<1>. DEFINE lower == {r \in Segs : r < s /\ idx[r] # Null}
<1>1. CASE lower = {}
  BY <1>1 DEF EmptySegPos, Sentinel
<1>2. CASE lower # {}
  <2>1. \E r \in lower : \A q \in lower : q <= r
    <3>1. lower \subseteq {0, 1, 2, 3} /\ lower # {}
      BY <1>2 DEF Segs
    <3>. HIDE DEF lower
    <3>2. \A m \in {0, 1, 2, 3} :
            m \in lower /\ (\A q \in {0, 1, 2, 3} : q > m => q \notin lower) =>
              \A q \in lower : q <= m
      BY <3>1
    <3>3. 3 \in lower \/ 2 \in lower \/ 1 \in lower \/ 0 \in lower
      BY <3>1, Zenon
    <3>. QED  BY <3>2, <3>3
  <2>. DEFINE r == CHOOSE r \in lower : \A q \in lower : q <= r
  <2>2. r \in lower /\ \A q \in lower : q <= r
    BY <2>1, Zenon
  <2>3. EmptySegPos(s) = Pos(idx[r])
    BY <1>2, Zenon DEF EmptySegPos
  <2>. HIDE DEF r
  <2>4. PICK i \in 1 .. Len(tasks) : tasks[i].id = idx[r]
    BY <2>2, Zenon DEF IndexSound
  <2>5. EmptySegPos(s) = i
    BY <2>3, <2>4, PosIs, Zenon
  <2>. QED  BY <2>2, <2>4, <2>5, Zenon
<1>. QED  BY <1>1, <1>2, Zenon

\* Where add_task puts t.
At(t, push) ==
  IF idx[Seg(t)] = Null THEN EmptySegPos(Seg(t)) ELSE IF push THEN PushPos(t) ELSE TopPos(t)

\* What add_task does: t is put at At(t, push), and the index of its segment points to it if
\* it had none, or if t was put in front of the task it points to by top.
Added(t, push, at) ==
  /\ at = At(t, push) /\ at \in 1 .. Len(tasks) + 1
  /\ t \in [id : {adds}, pri : priorities, owner : Owners, push : {push}]
  /\ Inserted(tasks', tasks, at, t)
  /\ tasks' \in Seq([id : Nat, pri : priorities, owner : Owners, push : BOOLEAN])
  /\ idx' = IF idx[Seg(t)] = Null \/ (~push /\ at <= Len(tasks) /\ tasks[at].id = idx[Seg(t)])
            THEN [idx EXCEPT ![Seg(t)] = adds] ELSE idx
  /\ adds' = adds + 1
  /\ UNCHANGED <<priorities, scheduled, now>>

LEMMA AddIs ==
  ASSUME IndexInv, NEW pri \in priorities, NEW owner \in Owners, NEW push \in BOOLEAN,
         AddTask(pri, owner, push)
  PROVE  \E t, at : Added(t, push, at)
<1>. DEFINE t == [id |-> adds, pri |-> pri, owner |-> owner, push |-> push]
            s == Seg(t)
            at == At(t, push)
<1>1. t \in [id : {adds}, pri : priorities, owner : Owners, push : {push}] /\ t.pri = pri /\ t.id = adds
  BY Zenon
<1>2. t \in [id : Nat, pri : priorities, owner : Owners, push : BOOLEAN] /\ t.pri \in Int
  BY Zenon DEF IndexInv, TypeOK
<1>3. s \in Segs
  BY <1>2, SegIs, Zenon
<1>4. /\ tasks' = InsertBefore(tasks, at, t)
      /\ idx' = IF idx[s] = Null \/ (~push /\ at # Sentinel /\ tasks[at].id = idx[s])
                THEN [idx EXCEPT ![s] = t.id] ELSE idx
      /\ adds' = adds + 1
      /\ UNCHANGED <<priorities, scheduled, now>>
  BY Zenon DEF AddTask, At
<1>. HIDE DEF t, s
<1>5. at \in 1 .. Len(tasks) + 1
  <2>1. Len(tasks) \in Nat
    BY TaskFields DEF IndexInv
  <2>2. CASE idx[s] = Null
    <3>1. EmptySegPos(s) \in 1 .. Len(tasks) + 1
      BY <1>3, <2>1, EmptyPlace DEF IndexInv
    <3>. QED  BY <2>2, <3>1, Zenon DEF At, s
  <2>3. CASE idx[s] # Null
    <3>1. PICK i \in 1 .. Len(tasks) : tasks[i].id = idx[s]
      BY <1>3, <2>3, Zenon DEF IndexInv, IndexSound
    <3>2. Placed(t, i, PushPos(t)) /\ Placed(t, i, TopPos(t))
      BY <1>2, <3>1, IndexedPlace, Zenon DEF s, IndexInv
    <3>3. PushPos(t) \in 1 .. Len(tasks) + 1 /\ TopPos(t) \in 1 .. Len(tasks) + 1
      BY <2>1, <3>2 DEF Placed
    <3>. QED  BY <2>3, <3>3, Zenon DEF At, s
  <2>. QED  BY <2>2, <2>3, Zenon
<1>. HIDE DEF at
<1>6. Inserted(tasks', tasks, at, t)
      /\ tasks' \in Seq([id : Nat, pri : priorities, owner : Owners, push : BOOLEAN])
  BY <1>2, <1>4, <1>5, InsertIs, Zenon DEF IndexInv, TypeOK
<1>7. at # Sentinel <=> at <= Len(tasks)
  BY <1>5, TaskFields DEF Sentinel, IndexInv
<1>8. Added(t, push, at)
  BY <1>1, <1>4, <1>5, <1>6, <1>7, Zenon DEF Added, s, at
<1>. QED  BY <1>8, Zenon

\* The ring after an add: t at at, and the old tasks at their shifted positions.
RingWith(t, push, at) ==
  /\ t.id = adds /\ t.pri \in priorities /\ t.pri \in Int /\ t.push = push /\ Seg(t) \in Segs
  /\ at \in Nat /\ at \in 1 .. Len(tasks') /\ tasks'[at] = t
  /\ \A i \in 1 .. Len(tasks) :
       Shifted(at, i) \in 1 .. Len(tasks') /\ tasks'[Shifted(at, i)] = tasks[i]
  /\ \A j \in 1 .. Len(tasks') : j = at \/ \E i \in 1 .. Len(tasks) : j = Shifted(at, i)

LEMMA AddedRing ==
  ASSUME TypeOK, NEW t, NEW push \in BOOLEAN, NEW at, Added(t, push, at)
  PROVE  RingWith(t, push, at)
<1>1. t.id = adds /\ t.pri \in priorities /\ t.push = push
  BY Zenon DEF Added
<1>2. t.pri \in Int
  BY <1>1, Zenon DEF TypeOK
<1>3. Seg(t) \in Segs
  BY <1>2, SegIs, Zenon
<1>4. /\ Len(tasks') = Len(tasks) + 1 /\ tasks'[at] = t
      /\ \A i \in 1 .. Len(tasks) :
              Shifted(at, i) \in 1 .. Len(tasks') /\ tasks'[Shifted(at, i)] = tasks[i]
      /\ \A j \in 1 .. Len(tasks') : j = at \/ \E i \in 1 .. Len(tasks) : j = Shifted(at, i)
  BY Zenon DEF Added, Inserted
<1>5. at \in 1 .. Len(tasks) + 1
  BY Zenon DEF Added
<1>6. at \in Nat /\ at \in 1 .. Len(tasks')
  BY <1>4, <1>5, TaskFields
<1>. QED  BY <1>1, <1>2, <1>3, <1>4, <1>6, Zenon DEF RingWith

\* The index after an add.
LEMMA AddedIndex ==
  ASSUME TypeOK, NEW t, NEW push \in BOOLEAN, NEW at, Added(t, push, at)
  PROVE  /\ idx' \in [Segs -> Nat \cup {Null}]
         /\ \A s \in Segs : s # Seg(t) => idx'[s] = idx[s]
         /\ idx'[Seg(t)] = adds \/ (idx'[Seg(t)] = idx[Seg(t)] /\ idx[Seg(t)] # Null)
         /\ idx[Seg(t)] = Null => idx'[Seg(t)] = adds
<1>1. Seg(t) \in Segs
  BY AddedRing, Zenon DEF RingWith
<1>2. idx \in [Segs -> Nat \cup {Null}] /\ adds \in Nat
  BY Zenon DEF TypeOK
<1>3. CASE idx' = [idx EXCEPT ![Seg(t)] = adds]
  BY <1>1, <1>2, <1>3, Zenon
<1>4. CASE idx' = idx /\ idx[Seg(t)] # Null
  BY <1>1, <1>2, <1>4, Zenon
<1>5. idx' = [idx EXCEPT ![Seg(t)] = adds] \/ (idx' = idx /\ idx[Seg(t)] # Null)
  BY Zenon DEF Added
<1>. QED  BY <1>3, <1>4, <1>5, Zenon

\* add_task gives the task a new id, and its segment an index that points into the segment.
LEMMA AddKeepsIndex ==
  ASSUME IndexInv, NEW t, NEW push \in BOOLEAN, NEW at, Added(t, push, at)
  PROVE  IndexInv'
<1>1. TypeOK /\ Numbered /\ IndexSound
  BY DEF IndexInv
<1>. RingWith(t, push, at)
  BY <1>1, AddedRing, Zenon
<1>2. /\ t.id = adds /\ t.pri \in priorities /\ t.pri \in Int /\ t.push = push /\ Seg(t) \in Segs
      /\ at \in Nat /\ at \in 1 .. Len(tasks') /\ tasks'[at] = t
      /\ \A i \in 1 .. Len(tasks) :
           Shifted(at, i) \in 1 .. Len(tasks') /\ tasks'[Shifted(at, i)] = tasks[i]
      /\ \A j \in 1 .. Len(tasks') : j = at \/ \E i \in 1 .. Len(tasks) : j = Shifted(at, i)
  BY Zenon DEF RingWith
<1>3. adds \in Nat /\ adds' = adds + 1 /\ UNCHANGED <<priorities, scheduled, now>>
  BY <1>1 DEF Added, TypeOK
<1>4. TypeOK'
  <2>1. tasks' \in Seq([id : Nat, pri : priorities, owner : Owners, push : BOOLEAN])
    BY Zenon DEF Added
  <2>2. idx' \in [Segs -> Nat \cup {Null}]
    BY <1>1, AddedIndex, Zenon
  <2>3. adds' \in Nat
    BY <1>3
  <2>. QED  BY <1>1, <1>3, <2>1, <2>2, <2>3, Zenon DEF TypeOK
<1>5. Numbered'
  <2>1. \A i \in 1 .. Len(tasks) : tasks[i].id \in Nat /\ tasks[i].id < adds
    BY <1>1, TaskFields, Zenon DEF Numbered
  <2>2. \A i \in 1 .. Len(tasks) : tasks[i].id < adds' /\ tasks[i].id # adds
    BY <1>3, <2>1, SMTT(30)
  <2>3. adds < adds'
    BY <1>3
  <2>4. \A j \in 1 .. Len(tasks') : tasks'[j].id < adds'
    BY <1>2, <2>2, <2>3, Zenon
  <2>5. \A j, k \in 1 .. Len(tasks') : tasks'[j].id = tasks'[k].id => j = k
    <3>. DEFINE P(j, k) == tasks'[j].id = tasks'[k].id => j = k
    <3>1. \A i, h \in 1 .. Len(tasks) : P(Shifted(at, i), Shifted(at, h))
      BY <1>1, <1>2, Zenon DEF Numbered
    <3>2. \A i \in 1 .. Len(tasks) : P(at, Shifted(at, i)) /\ P(Shifted(at, i), at)
      BY <1>2, <2>2, Zenon
    <3>3. P(at, at)
      OBVIOUS
    <3>. HIDE DEF P
    <3>4. \A j, k \in 1 .. Len(tasks') : P(j, k)
      BY <1>2, <3>1, <3>2, <3>3, Zenon
    <3>. QED  BY <3>4, Zenon DEF P
  <2>6. \A i \in 1 .. Len(scheduled') : scheduled'[i].id < adds'
    <3>1. \A i \in 1 .. Len(scheduled) : scheduled[i].id \in Nat /\ scheduled[i].id < adds
      BY <1>1, ScheduledFields, Zenon DEF Numbered
    <3>. QED  BY <1>3, <3>1, SMTT(30)
  <2>. QED  BY <2>4, <2>5, <2>6, Zenon DEF Numbered
<1>6. IndexSound'
  <2>. SUFFICES ASSUME NEW s \in Segs, idx'[s] # Null
                PROVE  \E j \in 1 .. Len(tasks') : tasks'[j].id = idx'[s] /\ Seg(tasks'[j]) = s
    BY Zenon DEF IndexSound, Seg
  <2>1. CASE idx'[s] = idx[s]
    <3>1. PICK i \in 1 .. Len(tasks) : tasks[i].id = idx[s] /\ Seg(tasks[i]) = s
      BY <1>1, <2>1, Zenon DEF IndexSound
    <3>. QED  BY <1>2, <2>1, <3>1, Zenon
  <2>2. CASE s = Seg(t) /\ idx'[s] = adds
    BY <1>2, <2>2, Zenon
  <2>. QED  BY <1>1, <2>1, <2>2, AddedIndex, Zenon
<1>. QED  BY <1>4, <1>5, <1>6, Zenon DEF IndexInv

\* The task an index points to is of its segment.
LEMMA IndexPoints ==
  ASSUME IndexInv, NEW s \in Segs, NEW i \in 1 .. Len(tasks), idx[s] = tasks[i].id
  PROVE  Seg(tasks[i]) = s
<1>1. idx[s] # Null
  BY TaskFields, Zenon DEF IndexInv
<1>2. PICK j \in 1 .. Len(tasks) : tasks[j].id = idx[s] /\ Seg(tasks[j]) = s
  BY <1>1, Zenon DEF IndexInv, IndexSound
<1>3. i = j
  BY <1>2, Zenon DEF IndexInv, Numbered
<1>. QED  BY <1>2, <1>3, Zenon

\* Where add_task puts t: not behind the index of a lower segment, behind the tasks of the
\* higher ones, behind all tasks of a segment without an index, and a pushed task behind all
\* of its priority.
Fits(t, push, at) ==
  /\ \A r \in Segs, i \in 1 .. Len(tasks) : r < Seg(t) /\ idx[r] = tasks[i].id => at <= i
  /\ \A k \in 1 .. Len(tasks) : Seg(tasks[k]) > Seg(t) => k < at
  /\ idx[Seg(t)] = Null => \A k \in 1 .. Len(tasks) : at <= k => Seg(tasks[k]) # Seg(t)
  /\ \A i \in 1 .. Len(tasks) : idx[Seg(t)] = tasks[i].id => Placed(t, i, at)
  /\ push => \A k \in 1 .. Len(tasks) : at <= k => tasks[k].pri # t.pri

LEMMA AddFits ==
  ASSUME IndexInv, Behind, Falling, ByteTasks, NEW t, NEW push \in BOOLEAN, NEW at,
         Added(t, push, at)
  PROVE  Fits(t, push, at)
<1>1. TypeOK /\ Numbered /\ IndexSound
  BY DEF IndexInv
<1>2. RingWith(t, push, at) /\ at = At(t, push) /\ at \in 1 .. Len(tasks) + 1
  BY <1>1, AddedRing, Zenon DEF Added
<1>3. t.pri \in 0 .. 255 /\ t.pri \in Int /\ Seg(t) \in Segs
  BY <1>2, Zenon DEF RingWith, ByteTasks
<1>4. /\ Len(tasks) \in Nat
      /\ \A k \in 1 .. Len(tasks) : /\ tasks[k].pri \in 0 .. 255 /\ tasks[k].pri \in Int
                                    /\ Seg(tasks[k]) \in Segs /\ tasks[k].id # Null
  BY <1>1, TaskFields, Zenon DEF ByteTasks
<1>5. \A k \in 1 .. Len(tasks) : tasks[k].pri = t.pri => Seg(tasks[k]) = Seg(t)
  BY Zenon DEF Seg
<1>6. \A r \in Segs : r \in Int
  BY DEF Segs
<1>7. CASE idx[Seg(t)] = Null
  <2>1. at = EmptySegPos(Seg(t))
    BY <1>2, <1>7, Zenon DEF At
  <2>2. CASE at = Len(tasks) + 1 /\ \A r \in Segs : r < Seg(t) => idx[r] = Null
    <3>1. \A r \in Segs, i \in 1 .. Len(tasks) : r < Seg(t) /\ idx[r] = tasks[i].id => at <= i
      BY <1>4, <2>2, ZenonT(30)
    <3>2. \A k \in 1 .. Len(tasks) : k < at /\ ~(at <= k)
      BY <1>4, <2>2, SMTT(30)
    <3>. QED  BY <1>4, <1>7, <3>1, <3>2, Zenon DEF Fits
  <2>3. CASE \E r \in Segs, i \in 1 .. Len(tasks) :
               /\ r < Seg(t) /\ idx[r] = tasks[i].id /\ at = i
               /\ \A q \in Segs : q < Seg(t) /\ idx[q] # Null => q <= r
    <3>1. PICK r \in Segs, i \in 1 .. Len(tasks) :
               /\ r < Seg(t) /\ idx[r] = tasks[i].id /\ at = i
               /\ \A q \in Segs : q < Seg(t) /\ idx[q] # Null => q <= r
      BY <2>3, Zenon
    <3>2. \A k \in 1 .. Len(tasks) : Seg(tasks[k]) > r => k < at
      BY <3>1, ZenonT(30) DEF Behind
    <3>3. \A k \in 1 .. Len(tasks) : ~(k < at /\ at <= k)
      BY <1>4, <3>1, SMTT(30)
    <3>4. /\ \A k \in 1 .. Len(tasks) : Seg(tasks[k]) > Seg(t) => Seg(tasks[k]) > r
          /\ \A k \in 1 .. Len(tasks) : Seg(tasks[k]) = Seg(t) => Seg(tasks[k]) > r
      <4>1. \A p, q \in Segs : r < p /\ (q > p \/ q = p) => q > r
        BY <1>6
      <4>. QED  BY <1>3, <1>4, <3>1, <4>1, Zenon
    <3>5. \A q \in Segs, k \in 1 .. Len(tasks) : q < Seg(t) /\ idx[q] = tasks[k].id => at <= k
      <4>. SUFFICES ASSUME NEW q \in Segs, NEW k \in 1 .. Len(tasks), q < Seg(t), idx[q] = tasks[k].id
                    PROVE  at <= k
        BY Zenon
      <4>1. q <= r
        BY <1>4, <3>1, Zenon
      <4>2. CASE q = r
        <5>1. k = at
          BY <1>1, <3>1, <4>2, ZenonT(30) DEF Numbered
        <5>. QED  BY <1>2, <5>1, SMTT(30)
      <4>3. CASE q < r
        <5>1. Seg(tasks[at]) = r
          BY <3>1, IndexPoints, Zenon
        <5>2. Seg(tasks[at]) > q
          BY <1>6, <4>3, <5>1, SMTT(30)
        <5>3. at < k
          BY <3>1, <5>2, Zenon DEF Behind
        <5>. QED  BY <1>2, <5>3, SMTT(30)
      <4>. QED  BY <1>6, <4>1, <4>2, <4>3, SMTT(30)
    <3>. QED  BY <1>4, <1>5, <1>7, <3>2, <3>3, <3>4, <3>5, ZenonT(30) DEF Fits
  <2>. QED  BY <1>1, <1>3, <2>1, <2>2, <2>3, EmptyPlace, ZenonT(30)
<1>8. CASE idx[Seg(t)] # Null
  <2>1. PICK i \in 1 .. Len(tasks) : tasks[i].id = idx[Seg(t)] /\ Seg(tasks[i]) = Seg(t)
    BY <1>1, <1>3, <1>8, Zenon DEF IndexSound
  <2>2. /\ Placed(t, i, PushPos(t)) /\ Placed(t, i, TopPos(t))
        /\ PushPos(t) <= Len(tasks) => tasks[PushPos(t)].pri < t.pri
    BY <1>1, <1>3, <2>1, IndexedPlace, Zenon
  <2>3. Placed(t, i, at) /\ (push /\ at <= Len(tasks) => tasks[at].pri < t.pri)
    BY <1>2, <1>8, <2>2, Zenon DEF At
  <2>4. \A k \in 1 .. Len(tasks) : idx[Seg(t)] = tasks[k].id => k = i
    BY <1>1, <2>1, ZenonT(30) DEF Numbered
  <2>5. i <= at
    BY <1>4, <2>3, SMTT(30) DEF Placed
  <2>6. \A k \in 1 .. Len(tasks) : Seg(tasks[k]) > Seg(t) => k < at
    <3>1. \A k \in 1 .. Len(tasks) : Seg(tasks[k]) > Seg(t) => k < i
      BY <1>3, <2>1, ZenonT(30) DEF Behind
    <3>. QED  BY <1>2, <1>4, <2>5, <3>1, SMTT(30)
  <2>7. \A r \in Segs, k \in 1 .. Len(tasks) : r < Seg(t) /\ idx[r] = tasks[k].id => at <= k
    <3>. SUFFICES ASSUME NEW r \in Segs, NEW k \in 1 .. Len(tasks), r < Seg(t), idx[r] = tasks[k].id,
                         k < at
                  PROVE  FALSE
      BY <1>2
    <3>1. Seg(tasks[k]) = r
      BY IndexPoints, Zenon
    <3>2. Seg(tasks[i]) > r
      BY <1>3, <1>6, <2>1, SMTT(30)
    <3>3. i < k
      BY <2>1, <3>2, ZenonT(30) DEF Behind
    <3>4. tasks[k].pri >= t.pri
      BY <1>4, <2>3, <3>3, SMTT(30) DEF Placed
    <3>5. tasks[k].pri < t.pri
      BY <1>3, <1>4, <3>1, SegOrder, Zenon
    <3>. QED  BY <1>3, <1>4, <3>4, <3>5
  <2>8. push => \A k \in 1 .. Len(tasks) : at <= k => tasks[k].pri # t.pri
    <3>0. \A k \in 1 .. Len(tasks) :
            at <= k => at \in 1 .. Len(tasks) /\ at <= Len(tasks) /\ (at # k => at < k)
      BY <1>2, <1>4, SMTT(30)
    <3>. SUFFICES ASSUME push, NEW k \in 1 .. Len(tasks), at <= k, tasks[k].pri = t.pri
                  PROVE  FALSE
      BY Zenon
    <3>1. at \in 1 .. Len(tasks) /\ at <= Len(tasks)
      BY <3>0, Zenon
    <3>2. tasks[at].pri < t.pri
      BY <2>3, <3>1, Zenon
    <3>3. at # k
      BY <1>3, <3>2
    <3>4. at < k
      BY <3>0, <3>3, Zenon
    <3>5. tasks[at].pri >= tasks[k].pri
      BY <1>3, <1>5, <2>1, <2>5, <3>1, <3>4, Zenon DEF Falling
    <3>. QED  BY <1>3, <1>4, <3>1, <3>2, <3>5, SMTT(30)
  <2>. QED  BY <1>8, <2>3, <2>4, <2>6, <2>7, <2>8, Zenon DEF Fits
<1>. QED  BY <1>7, <1>8, Zenon

\* Which task an index points to after an add: to the one it pointed to, or to the new one,
\* whose segment had no index or had it at the same place.
PointsTo(t, push, at, s, j) ==
  \/ /\ s = Seg(t) /\ j = at
     /\ \/ idx[s] = Null
        \/ ~push /\ at \in 1 .. Len(tasks) /\ idx[s] = tasks[at].id
  \/ \E i \in 1 .. Len(tasks) : j = Shifted(at, i) /\ idx[s] = tasks[i].id

LEMMA AddedPoints ==
  ASSUME IndexInv, NEW t, NEW push \in BOOLEAN, NEW at, Added(t, push, at),
         NEW s \in Segs, NEW j \in 1 .. Len(tasks'), idx'[s] = tasks'[j].id
  PROVE  PointsTo(t, push, at, s, j)
<1>1. TypeOK /\ Numbered /\ IndexSound /\ RingWith(t, push, at)
  BY AddedRing, Zenon DEF IndexInv
<1>2. /\ t.id = adds /\ Seg(t) \in Segs /\ tasks'[at] = t
      /\ \A i \in 1 .. Len(tasks) : tasks'[Shifted(at, i)] = tasks[i]
      /\ j = at \/ \E i \in 1 .. Len(tasks) : j = Shifted(at, i)
  BY <1>1, Zenon DEF RingWith
<1>3. \A i \in 1 .. Len(tasks) : tasks[i].id \in Nat /\ tasks[i].id < adds
  BY <1>1, TaskFields, Zenon DEF Numbered
<1>4. adds \in Nat /\ adds # Null
  BY <1>1, TaskQueueAssumption DEF TypeOK
<1>5. \A i \in 1 .. Len(tasks) : tasks[i].id # adds
  BY <1>3, <1>4
<1>6. \A q \in Segs : idx[q] # adds
  <2>. SUFFICES ASSUME NEW q \in Segs, idx[q] = adds PROVE FALSE
    BY Zenon
  <2>. QED  BY <1>1, <1>4, <1>5, Zenon DEF IndexSound
<1>7. CASE j = at
  <2>1. idx'[s] = adds
    BY <1>2, <1>7, Zenon
  <2>2. s = Seg(t)
    BY <1>1, <1>6, <2>1, AddedIndex, Zenon
  <2>3. idx[s] = Null \/ (~push /\ at <= Len(tasks) /\ tasks[at].id = idx[s])
    BY <1>6, <2>1, <2>2, Zenon DEF Added
  <2>4. at <= Len(tasks) => at \in 1 .. Len(tasks)
    <3>1. at \in 1 .. Len(tasks) + 1
      BY Zenon DEF Added
    <3>. QED  BY <1>1, <3>1, TaskFields, SMTT(30)
  <2>. QED  BY <1>7, <2>2, <2>3, <2>4, Zenon DEF PointsTo
<1>8. ASSUME NEW i \in 1 .. Len(tasks), j = Shifted(at, i)
      PROVE  idx[s] = tasks[i].id
  <2>1. idx'[s] = tasks[i].id /\ idx'[s] # adds
    BY <1>2, <1>5, <1>8, Zenon
  <2>. QED  BY <1>1, <2>1, AddedIndex, Zenon
<1>. QED  BY <1>2, <1>7, <1>8, ZenonT(30) DEF PointsTo

\* The other half: where the index of the segment points after an add.
LEMMA AddedKeeps ==
  ASSUME IndexInv, NEW t, NEW push \in BOOLEAN, NEW at, Added(t, push, at)
  PROVE  /\ idx'[Seg(t)] = tasks'[at].id \/ idx'[Seg(t)] = idx[Seg(t)]
         /\ \A s \in Segs : s # Seg(t) => idx'[s] = idx[s]
         /\ idx[Seg(t)] = Null => idx'[Seg(t)] = tasks'[at].id
         /\ ~push /\ at \in 1 .. Len(tasks) /\ idx[Seg(t)] = tasks[at].id =>
              idx'[Seg(t)] = tasks'[at].id
<1>1. TypeOK /\ RingWith(t, push, at)
  BY AddedRing, Zenon DEF IndexInv
<1>2. tasks'[at].id = adds /\ Seg(t) \in Segs
  BY <1>1, Zenon DEF RingWith
<1>3. ASSUME ~push, at \in 1 .. Len(tasks), idx[Seg(t)] = tasks[at].id
      PROVE  idx'[Seg(t)] = adds
  <2>1. at <= Len(tasks)
    BY <1>1, <1>3, TaskFields, SMTT(30)
  <2>2. idx' = [idx EXCEPT ![Seg(t)] = adds]
    BY <1>3, <2>1, Zenon DEF Added
  <2>3. idx \in [Segs -> Nat \cup {Null}]
    BY <1>1, Zenon DEF TypeOK
  <2>. QED  BY <1>2, <2>2, <2>3, Zenon
<1>. QED  BY <1>1, <1>2, <1>3, AddedIndex, Zenon

\* add_task leaves the tasks of the higher segments in front of each index.
LEMMA AddKeepsBehind ==
  ASSUME IndexInv, Behind, Falling, ByteTasks, NEW t, NEW push \in BOOLEAN, NEW at,
         Added(t, push, at)
  PROVE  Behind'
<1>1. TypeOK /\ Numbered /\ IndexSound /\ RingWith(t, push, at) /\ Fits(t, push, at)
  BY AddedRing, AddFits, Zenon DEF IndexInv
<1>2. /\ at \in Nat /\ tasks'[at] = t
      /\ \A i \in 1 .. Len(tasks) : tasks'[Shifted(at, i)] = tasks[i]
      /\ \A j \in 1 .. Len(tasks') : j = at \/ \E i \in 1 .. Len(tasks) : j = Shifted(at, i)
  BY <1>1, Zenon DEF RingWith
<1>3. \A i \in 1 .. Len(tasks) : i \in Nat
  OBVIOUS
<1>4. /\ \A i, j \in 1 .. Len(tasks) : i < j => Shifted(at, i) < Shifted(at, j)
      /\ \A i \in 1 .. Len(tasks) : i < at => Shifted(at, i) < at
      /\ \A i \in 1 .. Len(tasks) : at <= i => at < Shifted(at, i)
  BY <1>2, <1>3, ShiftedOrder, Zenon
<1>5. \A r \in Segs : ~(r > r)
  BY DEF Segs
<1>6. \A r \in Segs : Seg(t) > r => r < Seg(t)
  BY <1>1 DEF RingWith, Segs
<1>. SUFFICES ASSUME NEW r \in Segs, NEW i \in 1 .. Len(tasks'), NEW j \in 1 .. Len(tasks'),
                     idx'[r] = tasks'[i].id, Seg(tasks'[j]) > r
              PROVE  j < i
  BY Zenon DEF Behind, Seg
<1>7. CASE r = Seg(t) /\ i = at
  BY <1>1, <1>2, <1>4, <1>5, <1>7, ZenonT(30) DEF Fits
<1>8. ASSUME NEW h \in 1 .. Len(tasks), i = Shifted(at, h), idx[r] = tasks[h].id
      PROVE  j < i
  <2>1. CASE j = at
    BY <1>1, <1>2, <1>4, <1>6, <1>8, <2>1, ZenonT(30) DEF Fits
  <2>2. ASSUME NEW k \in 1 .. Len(tasks), j = Shifted(at, k)
        PROVE  j < i
    BY <1>2, <1>4, <1>8, <2>2, Zenon DEF Behind
  <2>. QED  BY <1>2, <2>1, <2>2, Zenon
<1>9. PointsTo(t, push, at, r, i)
  BY AddedPoints, Zenon
<1>. QED  BY <1>7, <1>8, <1>9, Zenon DEF PointsTo

\* What the order lemmas below need of the shifted positions.
LEMMA AddedShift ==
  ASSUME TypeOK, NEW t, NEW push \in BOOLEAN, NEW at, Added(t, push, at)
  PROVE  /\ \A i, j \in 1 .. Len(tasks) : Shifted(at, i) < Shifted(at, j) <=> i < j
         /\ \A i \in 1 .. Len(tasks) : Shifted(at, i) < at <=> i < at
         /\ \A i \in 1 .. Len(tasks) : at < Shifted(at, i) <=> at <= i
<1>0. RingWith(t, push, at)
  BY AddedRing, Zenon
<1>1. at \in Nat
  BY <1>0, Zenon DEF RingWith
<1>2. \A i \in 1 .. Len(tasks) : i \in Nat
  OBVIOUS
<1>. QED  BY <1>1, <1>2, ShiftedOrder, Zenon

\* add_task leaves the tasks of a segment falling in priority from its index on.
LEMMA AddKeepsFalling ==
  ASSUME IndexInv, Behind, Falling, ByteTasks, NEW t, NEW push \in BOOLEAN, NEW at,
         Added(t, push, at)
  PROVE  Falling'
<1>1. TypeOK /\ Numbered /\ IndexSound /\ RingWith(t, push, at) /\ Fits(t, push, at)
  BY AddedRing, AddFits, Zenon DEF IndexInv
<1>2. /\ at \in Nat /\ tasks'[at] = t /\ t.pri \in 0 .. 255 /\ t.pri \in Int /\ Seg(t) \in Segs
      /\ \A i \in 1 .. Len(tasks) : tasks'[Shifted(at, i)] = tasks[i]
      /\ \A j \in 1 .. Len(tasks') : j = at \/ \E i \in 1 .. Len(tasks) : j = Shifted(at, i)
  BY <1>1, Zenon DEF RingWith, ByteTasks
<1>3. /\ \A i, j \in 1 .. Len(tasks) : Shifted(at, i) < Shifted(at, j) <=> i < j
      /\ \A i \in 1 .. Len(tasks) : Shifted(at, i) < at <=> i < at
      /\ \A i \in 1 .. Len(tasks) : at < Shifted(at, i) <=> at <= i
  BY <1>1, AddedShift, Zenon
<1>4. /\ \A i, j \in 1 .. Len(tasks) : i < j \/ i = j \/ j < i
      /\ \A i, j \in 1 .. Len(tasks) : i < j => i <= j /\ ~(j <= i)
      /\ \A i, j, k \in 1 .. Len(tasks) : i <= j /\ j < k => i <= k
      /\ \A i \in 1 .. Len(tasks) : i <= i
      /\ \A i, j \in 1 .. Len(tasks') : i <= j <=> i < j \/ i = j
      /\ \A i, j, k \in 1 .. Len(tasks') : i <= j /\ j < k => i < k
      /\ \A i \in 1 .. Len(tasks') : ~(i < i)
  OBVIOUS
<1>5. \A k \in 1 .. Len(tasks) :
        tasks[k].pri \in 0 .. 255 /\ tasks[k].pri \in Int /\ Seg(tasks[k]) \in Segs
  BY <1>1, TaskFields, Zenon DEF ByteTasks
<1>6. \A k \in 1 .. Len(tasks) : at <= k => (at \in 1 .. Len(tasks) /\ at <= Len(tasks) /\ (at = k \/ at < k))
  <2>1. at \in 1 .. Len(tasks) + 1
    BY Zenon DEF Added
  <2>. QED  BY <1>1, <2>1, TaskFields
\* t before a task of the index's segment
<1>7. ASSUME NEW s \in Segs, NEW i \in 1 .. Len(tasks), NEW k \in 1 .. Len(tasks),
             idx[s] = tasks[i].id, Seg(tasks[k]) = s, at <= k
      PROVE  t.pri >= tasks[k].pri
  <2>0. s < Seg(t) \/ s = Seg(t) \/ Seg(t) < s
    BY <1>2, SMTT(30) DEF Segs
  <2>1. CASE s < Seg(t)
    <3>1. Seg(tasks[k]) < Seg(t)
      BY <1>7, <2>1, Zenon
    <3>2. tasks[k].pri < t.pri
      BY <1>2, <1>5, <1>7, <3>1, SegOrder, Zenon
    <3>3. tasks[k].pri \in Int /\ t.pri \in Int
      BY <1>2, <1>5, <1>7, Zenon
    <3>. QED  BY <3>2, <3>3, SMTT(30)
  <2>2. CASE s = Seg(t)
    <3>1. Placed(t, i, at)
      BY <1>1, <1>7, <2>2, ZenonT(30) DEF Fits
    <3>2. at \in 1 .. Len(tasks) /\ at <= Len(tasks) /\ (at = k \/ at < k)
      BY <1>6, <1>7, Zenon
    <3>3. tasks[at].pri <= t.pri /\ i <= at
      BY <3>1, <3>2 DEF Placed
    <3>4. at = k \/ tasks[at].pri >= tasks[k].pri
      BY <1>7, <2>2, <3>2, <3>3, Zenon DEF Falling
    <3>5. tasks[k].pri \in Int /\ tasks[at].pri \in Int /\ t.pri \in Int
      BY <1>2, <1>5, <1>7, <3>2, Zenon
    <3>6. CASE at = k
      BY <3>3, <3>5, <3>6, SMTT(30)
    <3>7. CASE tasks[at].pri >= tasks[k].pri
      BY <3>3, <3>5, <3>7, SMTT(30)
    <3>. QED  BY <3>4, <3>6, <3>7, Zenon
  <2>3. CASE Seg(t) < s
    <3>1. Seg(tasks[k]) > Seg(t)
      BY <1>2, <1>7, <2>3 DEF Segs
    <3>2. k < at
      BY <1>1, <3>1, Zenon DEF Fits
    <3>. QED  BY <1>2, <1>7, <3>2
  <2>. QED  BY <2>0, <2>1, <2>2, <2>3, Zenon
<1>. SUFFICES ASSUME NEW s \in Segs, NEW i \in 1 .. Len(tasks'), NEW j \in 1 .. Len(tasks'),
                     NEW k \in 1 .. Len(tasks'),
                     idx'[s] = tasks'[i].id, i <= j, j < k, Seg(tasks'[k]) = s
              PROVE  tasks'[j].pri >= tasks'[k].pri
  BY Zenon DEF Falling, Seg
<1>8. CASE /\ s = Seg(t) /\ i = at
           /\ \/ idx[s] = Null
              \/ ~push /\ at \in 1 .. Len(tasks) /\ idx[s] = tasks[at].id
  <2>1. PICK c \in 1 .. Len(tasks) : k = Shifted(at, c) /\ at <= c
    <3>1. at < k /\ k # at
      BY <1>4, <1>8, Zenon
    <3>. QED  BY <1>2, <1>3, <3>1, Zenon
  <2>2. Seg(tasks[c]) = s /\ tasks'[k] = tasks[c]
    BY <1>2, <2>1, Zenon
  <2>3. at \in 1 .. Len(tasks) /\ idx[s] = tasks[at].id
    BY <1>1, <1>8, <2>1, <2>2, Zenon DEF Fits
  <2>4. CASE j = at
    BY <1>2, <1>7, <2>1, <2>2, <2>3, <2>4, Zenon
  <2>5. ASSUME NEW b \in 1 .. Len(tasks), j = Shifted(at, b)
        PROVE  tasks'[j].pri >= tasks'[k].pri
    <3>1. at <= b /\ b < c
      BY <1>2, <1>3, <1>4, <1>8, <2>1, <2>5, ShiftedOrder, SMTT(30)
    <3>. QED  BY <1>2, <2>2, <2>3, <2>5, <3>1, ZenonT(30) DEF Falling
  <2>. QED  BY <1>2, <2>4, <2>5, Zenon
<1>9. ASSUME NEW a \in 1 .. Len(tasks), i = Shifted(at, a), idx[s] = tasks[a].id
      PROVE  tasks'[j].pri >= tasks'[k].pri
  <2>1. CASE j = at
    <3>1. PICK c \in 1 .. Len(tasks) : k = Shifted(at, c) /\ at <= c
      <4>1. at < k /\ k # at
        BY <1>4, <2>1, Zenon
      <4>. QED  BY <1>2, <1>3, <4>1, ZenonT(30)
    <3>. QED  BY <1>2, <1>7, <1>9, <2>1, <3>1, Zenon
  <2>2. ASSUME NEW b \in 1 .. Len(tasks), j = Shifted(at, b)
        PROVE  tasks'[j].pri >= tasks'[k].pri
    <3>0. i < j \/ i = j
      BY <1>4, Zenon
    <3>1. a <= b
      <4>1. CASE i < j
        BY <1>3, <1>4, <1>9, <2>2, <4>1, Zenon
      <4>2. CASE i = j
        BY <1>3, <1>4, <1>9, <2>2, <4>2, ZenonT(30)
      <4>. QED  BY <3>0, <4>1, <4>2, Zenon
    <3>2. CASE k = at
      <4>1. s = Seg(t) /\ b < at
        BY <1>2, <1>3, <2>2, <3>2, ZenonT(30)
      <4>2. Placed(t, a, at)
        BY <1>1, <1>9, <4>1, ZenonT(30) DEF Fits
      <4>3. tasks[b].pri >= t.pri
        BY <3>1, <4>1, <4>2, <1>1, TaskFields, SMTT(30) DEF Placed
      <4>. QED  BY <1>2, <2>2, <3>2, <4>3, ZenonT(30)
    <3>3. ASSUME NEW c \in 1 .. Len(tasks), k = Shifted(at, c)
          PROVE  tasks'[j].pri >= tasks'[k].pri
      <4>1. b < c
        BY <1>3, <2>2, <3>3, Zenon
      <4>. QED  BY <1>2, <1>9, <2>2, <3>1, <3>3, <4>1, ZenonT(30) DEF Falling
    <3>. QED  BY <1>2, <3>2, <3>3, Zenon
  <2>. QED  BY <1>2, <2>1, <2>2, Zenon
<1>10. PointsTo(t, push, at, s, i)
  BY AddedPoints, Zenon
<1>. QED  BY <1>8, <1>9, <1>10, Zenon DEF PointsTo

\* A pushed task is put behind all of its priority.
LEMMA AddKeepsInOrder ==
  ASSUME IndexInv, Behind, Falling, InOrder, ByteTasks, NEW t, NEW push \in BOOLEAN, NEW at,
         Added(t, push, at)
  PROVE  InOrder'
<1>1. TypeOK /\ Numbered /\ RingWith(t, push, at) /\ Fits(t, push, at)
  BY AddedRing, AddFits, Zenon DEF IndexInv
<1>2. /\ at \in Nat /\ tasks'[at] = t /\ t.id = adds /\ t.push = push
      /\ \A i \in 1 .. Len(tasks) : tasks'[Shifted(at, i)] = tasks[i]
      /\ \A j \in 1 .. Len(tasks') : j = at \/ \E i \in 1 .. Len(tasks) : j = Shifted(at, i)
  BY <1>1, Zenon DEF RingWith
<1>3. /\ \A i, j \in 1 .. Len(tasks) : Shifted(at, i) < Shifted(at, j) <=> i < j
      /\ \A i \in 1 .. Len(tasks) : Shifted(at, i) < at <=> i < at
      /\ \A i \in 1 .. Len(tasks) : at < Shifted(at, i) <=> at <= i
  BY <1>1, AddedShift, Zenon
<1>. DEFINE P(i, j) ==
       i < j /\ tasks'[i].push /\ tasks'[j].push /\ tasks'[i].pri = tasks'[j].pri =>
         tasks'[i].id < tasks'[j].id
<1>4. \A i, j \in 1 .. Len(tasks) : P(Shifted(at, i), Shifted(at, j))
  <2>. SUFFICES ASSUME NEW i \in 1 .. Len(tasks), NEW j \in 1 .. Len(tasks)
                PROVE  P(Shifted(at, i), Shifted(at, j))
    BY Zenon
  <2>1. /\ tasks'[Shifted(at, i)] = tasks[i] /\ tasks'[Shifted(at, j)] = tasks[j]
        /\ Shifted(at, i) < Shifted(at, j) <=> i < j
    BY <1>2, <1>3, Zenon
  <2>. QED  BY <2>1, Zenon DEF InOrder
<1>5. \A i \in 1 .. Len(tasks) : P(Shifted(at, i), at)
  BY <1>1, <1>2, Zenon DEF Numbered
<1>6. \A i \in 1 .. Len(tasks) : P(at, Shifted(at, i))
  BY <1>1, <1>2, <1>3, Zenon DEF Fits
<1>7. P(at, at)
  BY <1>2
<1>. HIDE DEF P
<1>8. \A i, j \in 1 .. Len(tasks') : P(i, j)
  BY <1>2, <1>4, <1>5, <1>6, <1>7, Zenon
<1>. QED  BY <1>8, Zenon DEF InOrder, P

\* Two tasks of one segment then have the same priority.
LEMMA OneOfSegment ==
  ASSUME OnePerSegment, NEW t, NEW u, t.pri \in priorities, u.pri \in priorities, Seg(t) = Seg(u)
  PROVE  t.pri = u.pri
<1>1. Seg([pri |-> t.pri]) = Seg(t) /\ Seg([pri |-> u.pri]) = Seg(u)
  BY DEF Seg
<1>. QED  BY <1>1, Zenon DEF OnePerSegment

\* With one priority to a segment the new task is behind the higher ones, in front of the
\* lower ones, and behind the index of its segment.
LEMMA AddKeepsSorted ==
  ASSUME IndexInv, Behind, Falling, Led, SortedByPriority, ByteTasks,
         NEW t, NEW push \in BOOLEAN, NEW at, Added(t, push, at)
  PROVE  Led' /\ SortedByPriority'
<1>1. TypeOK /\ Numbered /\ IndexSound /\ RingWith(t, push, at) /\ Fits(t, push, at)
  BY AddedRing, AddFits, Zenon DEF IndexInv
<1>2. /\ at \in Nat /\ at \in 1 .. Len(tasks') /\ tasks'[at] = t
      /\ t.pri \in priorities /\ t.pri \in 0 .. 255 /\ t.pri \in Int /\ Seg(t) \in Segs
      /\ \A i \in 1 .. Len(tasks) :
           Shifted(at, i) \in 1 .. Len(tasks') /\ tasks'[Shifted(at, i)] = tasks[i]
      /\ \A j \in 1 .. Len(tasks') : j = at \/ \E i \in 1 .. Len(tasks) : j = Shifted(at, i)
  BY <1>1, Zenon DEF RingWith, ByteTasks
<1>3. /\ \A i, j \in 1 .. Len(tasks) : Shifted(at, i) < Shifted(at, j) <=> i < j
      /\ \A i \in 1 .. Len(tasks) : Shifted(at, i) < at <=> i < at
      /\ \A i \in 1 .. Len(tasks) : at < Shifted(at, i) <=> at <= i
  BY <1>1, AddedShift, Zenon
<1>4. \A k \in 1 .. Len(tasks) :
        /\ tasks[k].pri \in priorities /\ tasks[k].pri \in 0 .. 255 /\ tasks[k].pri \in Int
        /\ tasks[k].id # Null /\ Seg(tasks[k]) \in Segs
  BY <1>1, TaskFields, Zenon DEF ByteTasks
<1>5. OnePerSegment' <=> OnePerSegment
  <2>1. priorities' = priorities
    BY Zenon DEF Added
  <2>. QED  BY <2>1 DEF OnePerSegment, Seg
<1>. SUFFICES ASSUME OnePerSegment
              PROVE  /\ \A j \in 1 .. Len(tasks') : \E i \in 1 .. j :
                          idx'[Seg(tasks'[j])] = tasks'[i].id
                     /\ \A i, j \in 1 .. Len(tasks') : i < j => tasks'[i].pri >= tasks'[j].pri
  BY <1>5, Zenon DEF Led, SortedByPriority, Seg
<1>6. \A k \in 1 .. Len(tasks) : Seg(tasks[k]) = Seg(t) => tasks[k].pri = t.pri
  BY <1>2, <1>4, OneOfSegment, Zenon
<1>7. \A j \in 1 .. Len(tasks) : \E i \in 1 .. j : idx[Seg(tasks[j])] = tasks[i].id
  BY Zenon DEF Led
<1>8. /\ \A j \in 1 .. Len(tasks) : \A i \in 1 .. j : i \in 1 .. Len(tasks) /\ i <= j
      /\ \A k \in 1 .. Len(tasks) : k < at \/ at <= k
      /\ \A i, j \in 1 .. Len(tasks) : at <= i /\ i <= j => ~(j < at)
      /\ \A i, j \in 1 .. Len(tasks) : i <= j => i = j \/ i < j
      /\ \A k \in 1 .. Len(tasks) : at = k => at <= k
      /\ \A k \in 1 .. Len(tasks) : k < at \/ at = k \/ at < k
      /\ \A i, j \in 1 .. Len(tasks') : i < j \/ i = j => i \in 1 .. j
  BY <1>2, TaskFields
<1>9. \A k \in 1 .. Len(tasks) :
        \/ Seg(tasks[k]) = Seg(t)
        \/ Seg(tasks[k]) < Seg(t) /\ tasks[k].pri < t.pri
        \/ Seg(tasks[k]) > Seg(t) /\ t.pri < tasks[k].pri
  <2>. SUFFICES ASSUME NEW k \in 1 .. Len(tasks)
                PROVE  \/ Seg(tasks[k]) = Seg(t)
                       \/ Seg(tasks[k]) < Seg(t) /\ tasks[k].pri < t.pri
                       \/ Seg(tasks[k]) > Seg(t) /\ t.pri < tasks[k].pri
    BY Zenon
  <2>1. Seg(tasks[k]) = Seg(t) \/ Seg(tasks[k]) < Seg(t) \/ (Seg(tasks[k]) > Seg(t) /\ Seg(t) < Seg(tasks[k]))
    <3>1. \A a, b \in Segs : a = b \/ a < b \/ (a > b /\ b < a)
      BY DEF Segs
    <3>. QED  BY <1>2, <1>4, <3>1, Zenon
  <2>. QED  BY <1>2, <1>4, <2>1, SegOrder, Zenon
<1>10. \A k \in 1 .. Len(tasks) : k < at => tasks[k].pri >= t.pri
  <2>. SUFFICES ASSUME NEW k \in 1 .. Len(tasks), k < at PROVE tasks[k].pri >= t.pri
    BY Zenon
  <2>1. ~(Seg(tasks[k]) < Seg(t))
    <3>. SUFFICES ASSUME Seg(tasks[k]) < Seg(t) PROVE FALSE
      BY Zenon
    <3>1. PICK i \in 1 .. k : idx[Seg(tasks[k])] = tasks[i].id
      BY <1>7, Zenon
    <3>2. at <= i
      BY <1>1, <1>4, <1>8, <3>1, ZenonT(30) DEF Fits
    <3>. QED  BY <1>8, <3>1, <3>2, Zenon
  <2>2. tasks[k].pri = t.pri \/ t.pri < tasks[k].pri
    BY <1>6, <1>9, <2>1, Zenon
  <2>3. t.pri \in Int /\ tasks[k].pri \in Int
    BY <1>2, <1>4, Zenon
  <2>. QED  BY <2>2, <2>3
<1>11. \A k \in 1 .. Len(tasks) : at <= k => t.pri >= tasks[k].pri
  <2>. SUFFICES ASSUME NEW k \in 1 .. Len(tasks), at <= k PROVE t.pri >= tasks[k].pri
    BY Zenon
  <2>1. ~(k < at)
    BY <1>2
  <2>2. tasks[k].pri = t.pri \/ tasks[k].pri < t.pri
    BY <1>1, <1>6, <1>9, <2>1, Zenon DEF Fits
  <2>3. t.pri \in Int /\ tasks[k].pri \in Int
    BY <1>2, <1>4, Zenon
  <2>. QED  BY <2>2, <2>3
<1>12. \A i, j \in 1 .. Len(tasks') : i < j => tasks'[i].pri >= tasks'[j].pri
  <2>. DEFINE P(i, j) == i < j => tasks'[i].pri >= tasks'[j].pri
  <2>1. \A i, j \in 1 .. Len(tasks) : P(Shifted(at, i), Shifted(at, j))
    BY <1>2, <1>3, Zenon DEF SortedByPriority
  <2>2. \A i \in 1 .. Len(tasks) : P(Shifted(at, i), at) /\ P(at, Shifted(at, i))
    BY <1>2, <1>3, <1>10, <1>11, Zenon
  <2>3. P(at, at)
    BY <1>2, SMTT(30)
  <2>. HIDE DEF P
  <2>4. \A i, j \in 1 .. Len(tasks') : P(i, j)
    BY <1>2, <2>1, <2>2, <2>3, Zenon
  <2>. QED  BY <2>4, Zenon DEF P
<1>13. ASSUME NEW j \in 1 .. Len(tasks')
       PROVE  \E i \in 1 .. j : idx'[Seg(tasks'[j])] = tasks'[i].id
  <2>1. CASE j = at
    <3>1. Seg(tasks'[j]) = Seg(t) /\ at \in 1 .. j
      BY <1>2, <2>1
    <3>2. CASE idx'[Seg(t)] = tasks'[at].id
      BY <3>1, <3>2, Zenon
    <3>3. CASE idx'[Seg(t)] = idx[Seg(t)] /\ idx[Seg(t)] # Null /\ idx'[Seg(t)] # tasks'[at].id
      <4>1. PICK i \in 1 .. Len(tasks) : tasks[i].id = idx[Seg(t)] /\ Seg(tasks[i]) = Seg(t)
        BY <1>1, <1>2, <3>3, Zenon DEF IndexSound
      <4>2. Placed(t, i, at) /\ tasks[i].pri = t.pri
        BY <1>1, <1>6, <4>1, Zenon DEF Fits
      <4>3. i <= at
        BY <1>1, <4>2, TaskFields DEF Placed
      <4>4. at # i
        <5>1. ASSUME at = i PROVE FALSE
          <6>1. push
            BY <3>3, <4>1, <5>1, AddedKeeps, Zenon
          <6>2. tasks[i].pri # t.pri
            BY <1>1, <1>8, <5>1, <6>1, Zenon DEF Fits
          <6>. QED  BY <4>2, <6>2, Zenon
        <5>. QED  BY <5>1, Zenon
      <4>5. i < at
        BY <1>2, <4>3, <4>4
      <4>6. Shifted(at, i) < at /\ tasks'[Shifted(at, i)] = tasks[i]
            /\ Shifted(at, i) \in 1 .. Len(tasks')
        BY <1>2, <1>3, <4>5, Zenon
      <4>7. Shifted(at, i) \in 1 .. j
        BY <1>8, <2>1, <4>6, Zenon
      <4>8. idx'[Seg(tasks'[j])] = tasks'[Shifted(at, i)].id
        BY <3>1, <3>3, <4>1, <4>6, Zenon
      <4>. QED  BY <4>7, <4>8, Zenon
    <3>. QED  BY <3>2, <3>3, AddedKeeps, Zenon
  <2>2. ASSUME NEW k \in 1 .. Len(tasks), j = Shifted(at, k)
        PROVE  \E i \in 1 .. j : idx'[Seg(tasks'[j])] = tasks'[i].id
    <3>1. tasks'[j] = tasks[k] /\ Seg(tasks[k]) \in Segs
      BY <1>2, <1>4, <2>2, Zenon
    <3>2. PICK i \in 1 .. k : idx[Seg(tasks[k])] = tasks[i].id
      BY <1>7, Zenon
    <3>3. i \in 1 .. Len(tasks) /\ i <= k /\ (i = k \/ i < k)
      BY <1>8, Zenon
    <3>4. CASE idx'[Seg(tasks[k])] = idx[Seg(tasks[k])]
      <4>1. Shifted(at, i) < Shifted(at, k) \/ Shifted(at, i) = Shifted(at, k)
        BY <1>3, <3>3, Zenon
      <4>2. Shifted(at, i) \in 1 .. j
        BY <1>2, <1>8, <2>2, <3>3, <4>1, ZenonT(30)
      <4>3. tasks'[Shifted(at, i)] = tasks[i]
        BY <1>2, <3>3, Zenon
      <4>4. idx'[Seg(tasks'[j])] = tasks'[Shifted(at, i)].id
        BY <3>1, <3>2, <3>4, <4>3, Zenon
      <4>. QED  BY <4>2, <4>4, Zenon
    <3>5. CASE Seg(tasks[k]) = Seg(t) /\ idx'[Seg(t)] = tasks'[at].id
      <4>1. PointsTo(t, push, at, Seg(t), at)
        BY <1>2, <3>5, AddedPoints, Zenon
      <4>2. \A h \in 1 .. Len(tasks) : at # Shifted(at, h)
        BY <1>2 DEF Shifted
      <4>3. idx[Seg(t)] # Null
        BY <1>4, <3>2, <3>3, <3>5, Zenon
      <4>4. at \in 1 .. Len(tasks) /\ idx[Seg(t)] = tasks[at].id
        BY <4>1, <4>2, <4>3, Zenon DEF PointsTo
      <4>5. at = i
        BY <1>1, <3>2, <3>3, <3>5, <4>4, Zenon DEF Numbered
      <4>6. at < Shifted(at, k)
        BY <1>3, <3>3, <4>5, Zenon
      <4>7. at \in 1 .. j
        BY <1>2, <1>8, <2>2, <4>6, Zenon
      <4>. QED  BY <3>1, <3>5, <4>7, Zenon
    <3>6. \/ idx'[Seg(tasks[k])] = idx[Seg(tasks[k])]
          \/ Seg(tasks[k]) = Seg(t) /\ idx'[Seg(t)] = tasks'[at].id
      <4>1. CASE Seg(tasks[k]) = Seg(t)
        <5>1. idx'[Seg(t)] = tasks'[at].id \/ idx'[Seg(t)] = idx[Seg(t)]
          BY AddedKeeps, Zenon
        <5>. QED  BY <4>1, <5>1
      <4>2. CASE Seg(tasks[k]) # Seg(t)
        <5>1. \A q \in Segs : q # Seg(t) => idx'[q] = idx[q]
          BY AddedKeeps, Zenon
        <5>2. idx'[Seg(tasks[k])] = idx[Seg(tasks[k])]
          BY <3>1, <4>2, <5>1, Zenon
        <5>. QED  BY <5>2, Zenon
      <4>. QED  BY <4>1, <4>2, Zenon
    <3>. QED  BY <3>4, <3>5, <3>6, Zenon
  <2>. QED  BY <1>2, <2>1, <2>2, Zenon
<1>. QED  BY <1>12, <1>13, Zenon
-----------------------------------------------------------------------------
\* q is what is left of the ring r at the positions f, in their order.
Sublist(q, r, f) ==
  /\ f \in [1 .. Len(q) -> 1 .. Len(r)]
  /\ \A i, j \in 1 .. Len(q) : i < j => f[i] < f[j]
  /\ \A i \in 1 .. Len(q) : q[i] = r[f[i]]

\* What pop_task and cancel_tasks do: tasks leave the rings, and an index that is not lost
\* moves on to a task of its segment that is left.
Thinned(f, g) ==
  /\ Sublist(tasks', tasks, f) /\ Sublist(scheduled', scheduled, g)
  /\ tasks' \in Seq([id : Nat, pri : priorities, owner : Owners, push : BOOLEAN])
  /\ scheduled' \in Seq([id : Nat, time : Nat, owner : Owners])
  /\ idx' \in [Segs -> Nat \cup {Null}]
  /\ \A s \in Segs :
       \/ idx'[s] = Null
       \/ \E k \in 1 .. Len(tasks'), i \in 1 .. Len(tasks) :
            /\ idx'[s] = tasks'[k].id /\ Seg(tasks'[k]) = s
            /\ idx[s] = tasks[i].id /\ i <= f[k]
  /\ UNCHANGED <<priorities, now, adds>>

\* The order of positions is the one they had.
LEMMA SublistOrder ==
  ASSUME NEW q, NEW r, NEW f, Sublist(q, r, f), Len(q) \in Nat, Len(r) \in Nat,
         NEW i \in 1 .. Len(q), NEW j \in 1 .. Len(q)
  PROVE  /\ f[i] \in 1 .. Len(r) /\ f[j] \in 1 .. Len(r)
         /\ i < j <=> f[i] < f[j]
         /\ i <= j <=> f[i] <= f[j]
         /\ i = j <=> f[i] = f[j]
<1>1. /\ f[i] \in 1 .. Len(r) /\ f[j] \in 1 .. Len(r)
      /\ i < j => f[i] < f[j]
      /\ j < i => f[j] < f[i]
  BY Zenon DEF Sublist
<1>2. i = j => f[i] = f[j]
  BY Zenon
<1>3. f[i] \in Nat /\ f[j] \in Nat /\ i \in Nat /\ j \in Nat
  BY <1>1
<1>. QED  BY <1>1, <1>2, <1>3

\* A task leaves the rings without leaving an index behind that points to it.
LEMMA ThinKeepsIndex ==
  ASSUME IndexInv, NEW f, NEW g, Thinned(f, g)
  PROVE  IndexInv'
<1>1. TypeOK /\ Numbered /\ IndexSound
  BY DEF IndexInv
<1>2. TypeOK'
  BY <1>1, Zenon DEF TypeOK, Thinned
<1>3. Len(tasks) \in Nat /\ Len(tasks') \in Nat
  BY <1>1, <1>2 DEF TypeOK
<1>4. /\ Sublist(tasks', tasks, f) /\ Sublist(scheduled', scheduled, g) /\ adds' = adds
  BY Zenon DEF Thinned
<1>5. Numbered'
  <2>1. \A i \in 1 .. Len(tasks') : f[i] \in 1 .. Len(tasks) /\ tasks'[i] = tasks[f[i]]
    BY <1>4, Zenon DEF Sublist
  <2>2. \A i \in 1 .. Len(scheduled') :
          g[i] \in 1 .. Len(scheduled) /\ scheduled'[i] = scheduled[g[i]]
    BY <1>4, Zenon DEF Sublist
  <2>3. \A i, j \in 1 .. Len(tasks') : f[i] = f[j] => i = j
    <3>1. \A i, j \in 1 .. Len(tasks') : i < j => f[i] < f[j]
      BY <1>4, Zenon DEF Sublist
    <3>. QED  BY ONLY <1>3, <2>1, <3>1, SMTT(30)
  <2>4. \A i, j \in 1 .. Len(tasks') : tasks'[i].id = tasks'[j].id => i = j
    <3>. SUFFICES ASSUME NEW i \in 1 .. Len(tasks'), NEW j \in 1 .. Len(tasks'),
                         tasks'[i].id = tasks'[j].id
                  PROVE  i = j
      BY Zenon
    <3>1. /\ f[i] \in 1 .. Len(tasks) /\ f[j] \in 1 .. Len(tasks)
          /\ tasks[f[i]].id = tasks[f[j]].id
      BY <2>1, Zenon
    <3>2. f[i] = f[j]
      BY <1>1, <3>1, Zenon DEF Numbered
    <3>. QED  BY <2>3, <3>2, Zenon
  <2>5. \A i \in 1 .. Len(tasks') : tasks'[i].id < adds'
    BY <1>1, <1>4, <2>1, Zenon DEF Numbered
  <2>6. \A i \in 1 .. Len(scheduled') : scheduled'[i].id < adds'
    BY <1>1, <1>4, <2>2, Zenon DEF Numbered
  <2>. QED  BY <2>4, <2>5, <2>6, Zenon DEF Numbered
<1>6. IndexSound'
  <2>. SUFFICES ASSUME NEW s \in Segs, idx'[s] # Null
                PROVE  \E i \in 1 .. Len(tasks') : tasks'[i].id = idx'[s] /\ Seg(tasks'[i]) = s
    BY Zenon DEF IndexSound, Seg
  <2>. QED  BY Zenon DEF Thinned
<1>. QED  BY <1>2, <1>5, <1>6, Zenon DEF IndexInv

\* What is left of an order is in order.
LEMMA ThinKeepsOrder ==
  ASSUME IndexInv, Behind, Falling, InOrder, ScheduledInOrder, SortedByPriority,
         NEW f, NEW g, Thinned(f, g)
  PROVE  Behind' /\ Falling' /\ InOrder' /\ ScheduledInOrder' /\ SortedByPriority'
<1>1. TypeOK /\ Numbered /\ IndexSound /\ TypeOK' /\ Numbered'
  BY ThinKeepsIndex, Zenon DEF IndexInv
<1>2. Len(tasks) \in Nat /\ Len(tasks') \in Nat /\ Len(scheduled) \in Nat /\ Len(scheduled') \in Nat
  BY <1>1 DEF TypeOK
<1>3. Sublist(tasks', tasks, f) /\ Sublist(scheduled', scheduled, g)
  BY Zenon DEF Thinned
<1>4. \A i \in 1 .. Len(tasks') : f[i] \in 1 .. Len(tasks) /\ tasks'[i] = tasks[f[i]]
  BY <1>3, Zenon DEF Sublist
<1>5. \A i, j \in 1 .. Len(tasks') : (i < j <=> f[i] < f[j]) /\ (i <= j <=> f[i] <= f[j])
  BY <1>2, <1>3, SublistOrder, Zenon
<1>6. ASSUME NEW s \in Segs, NEW k \in 1 .. Len(tasks'), idx'[s] = tasks'[k].id
      PROVE  \E i \in 1 .. Len(tasks) : idx[s] = tasks[i].id /\ i <= f[k]
  <2>1. tasks'[k].id # Null
    BY <1>1, <1>4, TaskFields, Zenon
  <2>2. PICK h \in 1 .. Len(tasks'), i \in 1 .. Len(tasks) :
          idx'[s] = tasks'[h].id /\ idx[s] = tasks[i].id /\ i <= f[h]
    BY <1>6, <2>1, Zenon DEF Thinned
  <2>3. h = k
    BY <1>1, <1>6, <2>2, Zenon DEF Numbered
  <2>. QED  BY <2>2, <2>3, Zenon
<1>7. Behind'
  <2>. SUFFICES ASSUME NEW r \in Segs, NEW i \in 1 .. Len(tasks'), NEW j \in 1 .. Len(tasks'),
                       idx'[r] = tasks'[i].id, Seg(tasks'[j]) > r
                PROVE  j < i
    BY Zenon DEF Behind, Seg
  <2>1. PICK h \in 1 .. Len(tasks) : idx[r] = tasks[h].id /\ h <= f[i]
    BY <1>6, Zenon
  <2>2. f[j] < h
    BY <1>4, <2>1, Zenon DEF Behind
  <2>3. f[j] < f[i]
    BY <1>4, <2>1, <2>2
  <2>. QED  BY <1>5, <2>3, Zenon
<1>8. Falling'
  <2>. SUFFICES ASSUME NEW s \in Segs, NEW i \in 1 .. Len(tasks'), NEW j \in 1 .. Len(tasks'),
                       NEW k \in 1 .. Len(tasks'),
                       idx'[s] = tasks'[i].id, i <= j, j < k, Seg(tasks'[k]) = s
                PROVE  tasks'[j].pri >= tasks'[k].pri
    BY ZenonT(30) DEF Falling, Seg
  <2>1. PICK h \in 1 .. Len(tasks) : idx[s] = tasks[h].id /\ h <= f[i]
    BY <1>6, Zenon
  <2>2. f[i] <= f[j] /\ f[j] < f[k]
    BY <1>5, Zenon
  <2>3. h <= f[j]
    BY <1>4, <2>1, <2>2
  <2>4. /\ f[j] \in 1 .. Len(tasks) /\ tasks'[j] = tasks[f[j]]
        /\ f[k] \in 1 .. Len(tasks) /\ tasks'[k] = tasks[f[k]]
    BY <1>4, Zenon
  <2>5. Seg(tasks[f[k]]) = s
    BY <2>4, Zenon
  <2>6. tasks[f[j]].pri >= tasks[f[k]].pri
    BY <2>1, <2>2, <2>3, <2>4, <2>5, Zenon DEF Falling
  <2>. QED  BY <2>4, <2>6, Zenon
<1>9. InOrder'
  <2>. SUFFICES ASSUME NEW i \in 1 .. Len(tasks'), NEW j \in 1 .. Len(tasks'),
                       i < j /\ tasks'[i].push /\ tasks'[j].push /\ tasks'[i].pri = tasks'[j].pri
                PROVE  tasks'[i].id < tasks'[j].id
    BY Zenon DEF InOrder
  <2>1. /\ f[i] \in 1 .. Len(tasks) /\ tasks'[i] = tasks[f[i]]
        /\ f[j] \in 1 .. Len(tasks) /\ tasks'[j] = tasks[f[j]]
    BY <1>4, Zenon
  <2>2. f[i] < f[j]
    BY <1>5, Zenon
  <2>. QED  BY <2>1, <2>2, Zenon DEF InOrder
<1>10. ScheduledInOrder'
  <2>1. \A i, j \in 1 .. Len(scheduled') :
          /\ g[i] \in 1 .. Len(scheduled) /\ scheduled'[i] = scheduled[g[i]]
          /\ i < j => g[i] < g[j]
    BY <1>3, Zenon DEF Sublist
  <2>. DEFINE P(i, j) ==
         \/ scheduled'[i].time < scheduled'[j].time
         \/ scheduled'[i].time = scheduled'[j].time /\ scheduled'[i].id < scheduled'[j].id
  <2>2. ASSUME NEW i \in 1 .. Len(scheduled'), NEW j \in 1 .. Len(scheduled'), i < j
        PROVE  P(i, j)
    <3>1. /\ g[i] \in 1 .. Len(scheduled) /\ scheduled'[i] = scheduled[g[i]]
          /\ g[j] \in 1 .. Len(scheduled) /\ scheduled'[j] = scheduled[g[j]]
          /\ g[i] < g[j]
      BY <2>1, <2>2, Zenon
    <3>2. \/ scheduled[g[i]].time < scheduled[g[j]].time
          \/ scheduled[g[i]].time = scheduled[g[j]].time /\ scheduled[g[i]].id < scheduled[g[j]].id
      BY <3>1, Zenon DEF ScheduledInOrder
    <3>. QED  BY <3>1, <3>2
  <2>. QED  BY <2>2, Zenon DEF ScheduledInOrder
<1>11. SortedByPriority'
  <2>1. priorities' = priorities
    BY Zenon DEF Thinned
  <2>2. OnePerSegment' <=> OnePerSegment
    BY <2>1 DEF OnePerSegment, Seg
  <2>3. ASSUME OnePerSegment', NEW i \in 1 .. Len(tasks'), NEW j \in 1 .. Len(tasks'), i < j
        PROVE  tasks'[i].pri >= tasks'[j].pri
    <3>1. \A k, l \in 1 .. Len(tasks) : k < l => tasks[k].pri >= tasks[l].pri
      BY <2>2, <2>3, Zenon DEF SortedByPriority
    <3>2. /\ f[i] \in 1 .. Len(tasks) /\ tasks'[i] = tasks[f[i]]
          /\ f[j] \in 1 .. Len(tasks) /\ tasks'[j] = tasks[f[j]]
      BY <1>4, Zenon
    <3>3. f[i] < f[j]
      BY <1>5, <2>3, Zenon
    <3>. QED  BY <3>1, <3>2, <3>3, Zenon
  <2>. QED  BY <2>3, Zenon DEF SortedByPriority
<1>. QED  BY <1>7, <1>8, <1>9, <1>10, <1>11, Zenon

\* A ring that is left as it is, and one whose first task was popped.
LEMMA SublistSame == \A r : Len(r) \in Nat => Sublist(r, r, [i \in 1 .. Len(r) |-> i])
BY DEF Sublist

LEMMA SublistTail ==
  ASSUME NEW S, NEW r \in Seq(S), r # <<>>
  PROVE  /\ Sublist(Tail(r), r, [i \in 1 .. Len(Tail(r)) |-> i + 1])
         /\ Tail(r) \in Seq(S) /\ Len(Tail(r)) = Len(r) - 1 /\ Len(r) >= 1
         /\ \A i \in 1 .. Len(Tail(r)) : i + 1 \in 1 .. Len(r) /\ Tail(r)[i] = r[i + 1]
<1>1. /\ Tail(r) \in Seq(S) /\ Len(Tail(r)) = Len(r) - 1
      /\ \A i \in 1 .. Len(Tail(r)) : Tail(r)[i] = r[i + 1]
  BY HeadTailProperties
<1>2. Len(r) \in Nat /\ Len(r) >= 1
  BY EmptySeq
<1>3. \A i \in 1 .. Len(Tail(r)) : i + 1 \in 1 .. Len(r)
  BY <1>1, <1>2
<1>. DEFINE m == Len(Tail(r))
<1>4. m \in Nat
  BY <1>1, <1>2
<1>. HIDE DEF m
<1>. DEFINE f == [i \in 1 .. m |-> i + 1]
<1>5. /\ f \in [1 .. m -> 1 .. Len(r)]
      /\ \A i \in 1 .. m : f[i] = i + 1
  BY <1>3 DEF m
<1>6. \A i, j \in 1 .. m : i < j => f[i] < f[j]
  BY <1>4, <1>5
<1>. HIDE DEF f
<1>7. Sublist(Tail(r), r, f)
  BY <1>1, <1>5, <1>6, Zenon DEF Sublist, m
<1>. QED  BY <1>1, <1>2, <1>3, <1>7, Zenon DEF f, m

\* remove_tasks: what is left is the ring at the positions of the other owners, all of them.
StaysAt(q, r, owner, f) ==
  /\ \A k \in 1 .. Len(q) : r[f[k]].owner # owner
  /\ \A i \in 1 .. Len(r) : r[i].owner # owner => \E k \in 1 .. Len(q) : f[k] = i

LEMMA WithoutIs ==
  ASSUME NEW S, NEW r \in Seq(S), NEW owner, NEW q \in Without(r, owner)
  PROVE  /\ q \in Seq(S)
         /\ \E f : Sublist(q, r, f) /\ StaysAt(q, r, owner, f)
<1>. DEFINE stay == {i \in 1 .. Len(r) : r[i].owner # owner}
            n == Cardinality(stay)
<1>1. Len(r) \in Nat
  OBVIOUS
<1>2. IsFiniteSet(1 .. Len(r)) /\ stay \subseteq 1 .. Len(r)
  BY <1>1, FS_Interval
<1>3. IsFiniteSet(stay)
  BY <1>2, FS_Subset, Zenon
<1>4. n \in Nat
  BY <1>3, FS_CardinalityType
<1>5. PICK f \in [1 .. n -> stay] :
        q = [i \in 1 .. n |-> r[f[i]]] /\ \A i, j \in 1 .. n : i < j => f[i] < f[j]
  BY Zenon DEF Without
<1>. HIDE DEF n
<1>6. \A i \in 1 .. n : f[i] \in 1 .. Len(r) /\ r[f[i]].owner # owner /\ r[f[i]] \in S
  BY <1>5, ElementOfSeq
<1>7. q \in Seq(S) /\ Len(q) = n
  BY <1>4, <1>5, <1>6, SeqDef
<1>8. f \in [1 .. n -> 1 .. Len(r)] /\ \A i \in 1 .. n : q[i] = r[f[i]]
  BY <1>5, <1>6, Zenon
<1>9. Sublist(q, r, f)
  BY <1>5, <1>7, <1>8, Zenon DEF Sublist
<1>10. \A i, j \in 1 .. n : i # j => f[i] # f[j]
  BY <1>4, <1>5, <1>6
<1>11. f \in Injection(1 .. n, stay)
  BY <1>5, <1>10, Zenon DEF Injection, IsInjective
<1>12. Cardinality(1 .. n) = n
  BY <1>4, FS_Interval
<1>13. f \in Surjection(1 .. n, stay)
  BY <1>3, <1>11, <1>12, FS_Injection, Zenon DEF n
<1>14. \A i \in stay : \E k \in 1 .. n : f[k] = i
  BY <1>13, Zenon DEF Surjection
<1>15. StaysAt(q, r, owner, f)
  BY <1>6, <1>7, <1>14, Zenon DEF StaysAt
<1>. QED  BY <1>7, <1>9, <1>15, Zenon

\* A finite set of positions can be listed in increasing order, so Without is not empty and
\* nothing in the model keeps a caller from cancelling.
Listed(T) ==
  \E f \in [1 .. Cardinality(T) -> T] : \A i, j \in 1 .. Cardinality(T) : i < j => f[i] < f[j]

LEMMA PositionsListed == \A n \in Nat : \A T \in SUBSET (1 .. n) : Listed(T)
<1>. DEFINE Bad == {n \in Nat : \E T \in SUBSET (1 .. n) : ~Listed(T)}
<1>. SUFFICES ASSUME Bad # {} PROVE FALSE
  BY Zenon
<1>1. Bad \subseteq Nat
  BY Zenon
<1>2. PICK n \in Bad : \A m \in Bad : n <= m
  BY <1>1, Smallest, Zenon
<1>3. n \in Nat
  BY Zenon
<1>4. PICK T \in SUBSET (1 .. n) : ~Listed(T)
  BY Zenon
<1>5. IsFiniteSet(T)
  <2>1. IsFiniteSet(1 .. n)
    BY <1>3, FS_Interval
  <2>. QED  BY <2>1, FS_Subset, Zenon
<1>6. n # 0
  <2>. SUFFICES ASSUME n = 0 PROVE FALSE
    BY Zenon
  <2>1. T = {}
    OBVIOUS
  <2>2. Cardinality(T) = 0
    BY <2>1, FS_EmptySet, Zenon
  <2>3. [i \in 1 .. 0 |-> i] \in [1 .. Cardinality(T) -> T] /\ 1 .. Cardinality(T) = {}
    BY <2>1, <2>2
  <2>. QED  BY <1>4, <2>3, Zenon DEF Listed
<1>7. n - 1 \in Nat /\ ~(n <= n - 1)
  BY <1>3, <1>6
<1>8. \A U \in SUBSET (1 .. (n - 1)) : Listed(U)
  BY <1>2, <1>7, Zenon
<1>. HIDE DEF Bad
<1>9. CASE n \notin T
  <2>1. T \in SUBSET (1 .. (n - 1))
    BY <1>3, <1>9
  <2>. QED  BY <1>4, <1>8, <2>1, Zenon
<1>10. CASE n \in T
  <2>. DEFINE U == T \ {n}
              m == Cardinality(U)
  <2>1. U \in SUBSET (1 .. (n - 1))
    BY <1>3
  <2>2. m \in Nat /\ Cardinality(T) = m + 1
    <3>1. IsFiniteSet(U) /\ Cardinality(U) = Cardinality(T) - 1
      BY <1>5, <1>10, FS_RemoveElement, Zenon
    <3>2. Cardinality(U) \in Nat /\ Cardinality(T) \in Nat
      BY <1>5, <3>1, FS_CardinalityType, Zenon
    <3>. QED  BY <3>1, <3>2
  <2>3. PICK f \in [1 .. m -> U] : \A i, j \in 1 .. m : i < j => f[i] < f[j]
    BY <1>8, <2>1, Zenon DEF Listed
  <2>. HIDE DEF m
  <2>4. \A i \in 1 .. m : f[i] \in T /\ f[i] < n
    <3>1. \A x \in U : x \in T /\ x < n
      BY <1>3, <2>1
    <3>. QED  BY <2>3, <3>1, Zenon
  <2>. DEFINE g == [i \in 1 .. (m + 1) |-> IF i = m + 1 THEN n ELSE f[i]]
  <2>5. \A i \in 1 .. (m + 1) : i # m + 1 => i \in 1 .. m
    BY <2>2
  <2>6. g \in [1 .. (m + 1) -> T]
    BY <1>10, <2>4, <2>5, Zenon
  <2>7. \A i, j \in 1 .. (m + 1) : i < j => g[i] < g[j]
    <3>. SUFFICES ASSUME NEW i \in 1 .. (m + 1), NEW j \in 1 .. (m + 1), i < j
                  PROVE  g[i] < g[j]
      BY Zenon
    <3>1. i \in 1 .. m /\ i # m + 1
      BY <2>2
    <3>2. g[i] = f[i]
      BY <3>1, Zenon
    <3>3. CASE j = m + 1
      BY <2>4, <3>1, <3>2, <3>3, Zenon
    <3>4. CASE j # m + 1
      BY <2>3, <2>5, <3>1, <3>2, <3>4, Zenon
    <3>. QED  BY <3>3, <3>4, Zenon
  <2>. HIDE DEF g
  <2>. QED  BY <1>4, <2>2, <2>6, <2>7, Zenon DEF Listed
<1>. QED  BY <1>9, <1>10, Zenon

LEMMA WithoutExists ==
  ASSUME NEW S, NEW r \in Seq(S), NEW owner
  PROVE  Without(r, owner) # {}
<1>. DEFINE stay == {i \in 1 .. Len(r) : r[i].owner # owner}
<1>1. Len(r) \in Nat /\ stay \in SUBSET (1 .. Len(r))
  OBVIOUS
<1>2. PICK f \in [1 .. Cardinality(stay) -> stay] :
        \A i, j \in 1 .. Cardinality(stay) : i < j => f[i] < f[j]
  BY <1>1, PositionsListed, Zenon DEF Listed
<1>3. [i \in 1 .. Cardinality(stay) |-> r[f[i]]] \in Without(r, owner)
  BY <1>2, Zenon DEF Without
<1>. QED  BY <1>3, Zenon

\* pop_task of a scheduled task
LEMMA PopScheduledThins ==
  ASSUME IndexInv, PopScheduled
  PROVE  \E f, g : Thinned(f, g)
<1>1. TypeOK
  BY DEF IndexInv
<1>2. scheduled # <<>> /\ scheduled' = Tail(scheduled) /\ UNCHANGED <<priorities, tasks, idx, now, adds>>
  BY Zenon DEF PopScheduled
<1>. DEFINE f == [i \in 1 .. Len(tasks) |-> i]
            g == [i \in 1 .. Len(Tail(scheduled)) |-> i + 1]
<1>3. Sublist(tasks', tasks, f)
  BY <1>1, <1>2, TaskFields, SublistSame
<1>4. Sublist(scheduled', scheduled, g) /\ scheduled' \in Seq([id : Nat, time : Nat, owner : Owners])
  BY <1>1, <1>2, SublistTail, Zenon DEF TypeOK
<1>5. /\ idx' \in [Segs -> Nat \cup {Null}]
      /\ tasks' \in Seq([id : Nat, pri : priorities, owner : Owners, push : BOOLEAN])
  BY <1>1, <1>2, Zenon DEF TypeOK
<1>6. \A i \in 1 .. Len(tasks) : f[i] = i /\ i <= f[i]
  OBVIOUS
<1>. HIDE DEF f, g
<1>7. ASSUME NEW s \in Segs, idx[s] # Null
      PROVE  \E i \in 1 .. Len(tasks) : idx[s] = tasks[i].id /\ Seg(tasks[i]) = s
  BY <1>7, Zenon DEF IndexInv, IndexSound
<1>8. \A s \in Segs :
       \/ idx'[s] = Null
       \/ \E k \in 1 .. Len(tasks'), i \in 1 .. Len(tasks) :
            /\ idx'[s] = tasks'[k].id /\ Seg(tasks'[k]) = s
            /\ idx[s] = tasks[i].id /\ i <= f[k]
  BY <1>2, <1>6, <1>7
<1>9. Thinned(f, g)
  BY <1>2, <1>3, <1>4, <1>5, <1>8, Zenon DEF Thinned
<1>. QED  BY <1>9, Zenon

\* pop_task of the first task: an index that points to it moves to the next task of the
\* segment, and is lost where that is of another segment.
LEMMA PopTaskIs ==
  ASSUME IndexInv, PopTask
  PROVE  /\ Len(tasks) >= 1 /\ Len(tasks') = Len(tasks) - 1
         /\ \A k \in 1 .. Len(tasks') : k + 1 \in 1 .. Len(tasks) /\ tasks'[k] = tasks[k + 1]
         /\ \A s \in Segs : idx[s] # tasks[1].id => idx'[s] = idx[s]
         /\ \A s \in Segs : idx[s] = tasks[1].id =>
              idx'[s] = IF Len(tasks) = 1 \/ Seg(tasks[2]) # s THEN Null ELSE tasks[2].id
         /\ \E f, g : Thinned(f, g)
<1>1. TypeOK /\ Numbered /\ IndexSound
  BY DEF IndexInv
<1>2. /\ tasks # <<>> /\ tasks' = Tail(tasks)
      /\ idx' = [idx EXCEPT ![Seg(tasks[1])] = IdxAfter(Seg(tasks[1]), 1)]
      /\ UNCHANGED <<priorities, scheduled, now, adds>>
  BY Zenon DEF PopTask
<1>. DEFINE f == [i \in 1 .. Len(Tail(tasks)) |-> i + 1]
            g == [i \in 1 .. Len(scheduled) |-> i]
<1>3. /\ Sublist(tasks', tasks, f)
      /\ tasks' \in Seq([id : Nat, pri : priorities, owner : Owners, push : BOOLEAN])
      /\ Len(tasks') = Len(tasks) - 1 /\ Len(tasks) >= 1
      /\ \A i \in 1 .. Len(tasks') : i + 1 \in 1 .. Len(tasks) /\ tasks'[i] = tasks[i + 1]
  BY <1>1, <1>2, SublistTail, Zenon DEF TypeOK
<1>4. Sublist(scheduled', scheduled, g) /\ scheduled' \in Seq([id : Nat, time : Nat, owner : Owners])
  BY <1>1, <1>2, ScheduledFields, SublistSame DEF TypeOK
<1>5. /\ Len(tasks) \in Nat /\ 1 \in 1 .. Len(tasks)
      /\ Len(tasks) # 1 => 2 \in 1 .. Len(tasks) /\ 2 \in 2 .. Len(tasks)
  BY <1>1, <1>3, TaskFields
<1>6. \A i \in 1 .. Len(tasks') : f[i] = i + 1
  BY <1>2
<1>. HIDE DEF f, g
<1>7. Seg(tasks[1]) \in Segs
  BY <1>1, <1>5, TaskFields, Zenon
<1>8. \A s \in Segs : idx[s] = tasks[1].id => s = Seg(tasks[1])
  BY <1>5, IndexPoints, Zenon
<1>9. idx \in [Segs -> Nat \cup {Null}]
  BY <1>1, Zenon DEF TypeOK
<1>10. \A s \in Segs : idx[s] # tasks[1].id => idx'[s] = idx[s]
  BY <1>2, <1>7, <1>9, Zenon DEF IdxAfter
<1>11. \A s \in Segs : idx[s] = tasks[1].id =>
         idx'[s] = IF Len(tasks) = 1 \/ Seg(tasks[2]) # s THEN Null ELSE tasks[2].id
  <2>1. 1 + 1 = 2 /\ (1 = Len(tasks) <=> Len(tasks) = 1)
    OBVIOUS
  <2>2. IdxAfter(Seg(tasks[1]), 1) =
          IF idx[Seg(tasks[1])] # tasks[1].id THEN idx[Seg(tasks[1])]
          ELSE IF Len(tasks) = 1 \/ Seg(tasks[2]) # Seg(tasks[1]) THEN Null ELSE tasks[2].id
    BY <2>1 DEF IdxAfter
  <2>3. idx'[Seg(tasks[1])] = IdxAfter(Seg(tasks[1]), 1)
    BY <1>2, <1>7, <1>9, Zenon
  <2>. QED  BY <1>8, <2>2, <2>3, Zenon
<1>12. \A i \in 2 .. Len(tasks) : /\ i \in 1 .. Len(tasks) /\ i - 1 \in 1 .. Len(tasks')
                                  /\ (i - 1) + 1 = i /\ f[i - 1] = i /\ i <= i /\ 1 <= i
  BY <1>3, <1>5, <1>6
<1>13. \A i \in 2 .. Len(tasks) : tasks'[i - 1] = tasks[i]
  BY <1>3, <1>12, Zenon
<1>14. ASSUME NEW s \in Segs, idx'[s] # Null
       PROVE  \E k \in 1 .. Len(tasks'), i \in 1 .. Len(tasks) :
                /\ idx'[s] = tasks'[k].id /\ Seg(tasks'[k]) = s
                /\ idx[s] = tasks[i].id /\ i <= f[k]
  <2>1. CASE idx[s] = tasks[1].id
    <3>1. Len(tasks) # 1 /\ Seg(tasks[2]) = s /\ idx'[s] = tasks[2].id
      BY <1>11, <1>14, <2>1, Zenon
    <3>2. 2 \in 2 .. Len(tasks)
      BY <1>5, <3>1, Zenon
    <3>3. idx'[s] = tasks'[2 - 1].id /\ Seg(tasks'[2 - 1]) = s /\ 1 <= f[2 - 1]
      BY <1>12, <1>13, <3>1, <3>2, Zenon
    <3>. QED  BY <1>5, <1>12, <2>1, <3>2, <3>3, Zenon
  <2>2. CASE idx[s] # tasks[1].id
    <3>1. idx'[s] = idx[s]
      BY <1>10, <2>2, Zenon
    <3>2. PICK i \in 1 .. Len(tasks) : tasks[i].id = idx[s] /\ Seg(tasks[i]) = s
      BY <1>1, <1>14, <3>1, Zenon DEF IndexSound
    <3>3. i # 1
      BY <2>2, <3>2
    <3>4. i \in 2 .. Len(tasks)
      BY <1>5, <3>3
    <3>5. /\ idx'[s] = tasks'[i - 1].id /\ Seg(tasks'[i - 1]) = s
          /\ i - 1 \in 1 .. Len(tasks') /\ i <= f[i - 1]
      BY <1>12, <1>13, <3>1, <3>2, <3>4, Zenon
    <3>. QED  BY <3>2, <3>5, Zenon
  <2>. QED  BY <2>1, <2>2, Zenon
<1>15. idx' \in [Segs -> Nat \cup {Null}]
  <2>1. \A s \in Segs : idx'[s] \in Nat \cup {Null}
    <3>1. Len(tasks) # 1 => tasks[2].id \in Nat
      BY <1>1, <1>5, TaskFields, Zenon
    <3>. QED  BY <1>9, <1>10, <1>11, <3>1, Zenon
  <2>. QED  BY <1>2, <1>9, <2>1, Zenon
<1>16. Thinned(f, g)
  BY <1>2, <1>3, <1>4, <1>14, <1>15, Zenon DEF Thinned
<1>. QED  BY <1>3, <1>10, <1>11, <1>16, Zenon

\* With one priority to a segment the next task of the ring is of the segment, if the ring
\* has another one of it.
LEMMA PopTaskKeepsLed ==
  ASSUME IndexInv, Led, SortedByPriority, PopTask
  PROVE  Led'
<1>1. TypeOK /\ Numbered
  BY DEF IndexInv
<1>2. /\ Len(tasks) >= 1 /\ Len(tasks') = Len(tasks) - 1
      /\ \A k \in 1 .. Len(tasks') : k + 1 \in 1 .. Len(tasks) /\ tasks'[k] = tasks[k + 1]
      /\ \A s \in Segs : idx[s] # tasks[1].id => idx'[s] = idx[s]
      /\ \A s \in Segs : idx[s] = tasks[1].id =>
           idx'[s] = IF Len(tasks) = 1 \/ Seg(tasks[2]) # s THEN Null ELSE tasks[2].id
  BY PopTaskIs
<1>3. OnePerSegment' <=> OnePerSegment
  <2>1. priorities' = priorities
    BY Zenon DEF PopTask
  <2>. QED  BY <2>1 DEF OnePerSegment, Seg
<1>. SUFFICES ASSUME OnePerSegment, NEW j \in 1 .. Len(tasks')
              PROVE  \E i \in 1 .. j : idx'[Seg(tasks'[j])] = tasks'[i].id
  BY <1>3, Zenon DEF Led, Seg
<1>4. /\ Len(tasks) \in Nat /\ j + 1 \in 1 .. Len(tasks) /\ tasks'[j] = tasks[j + 1]
      /\ 2 \in 1 .. Len(tasks) /\ Len(tasks) # 1 /\ 1 \in 1 .. Len(tasks) /\ 1 < 2
      /\ j \in Nat /\ 1 \in 1 .. j /\ 1 \in 1 .. Len(tasks') /\ 1 + 1 = 2
      /\ 2 = j + 1 \/ 2 < j + 1
  BY <1>1, <1>2, TaskFields, SMTT(30)
<1>. DEFINE s == Seg(tasks[j + 1])
<1>5. s \in Segs /\ Seg(tasks'[j]) = s
  BY <1>1, <1>4, TaskFields, Zenon
<1>6. PICK i \in 1 .. (j + 1) : idx[s] = tasks[i].id
  BY <1>4, Zenon DEF Led
<1>7. i \in 1 .. Len(tasks)
  BY <1>4
<1>. HIDE DEF s
<1>8. CASE i = 1
  <2>1. idx[s] = tasks[1].id /\ Seg(tasks[1]) = s
    BY <1>5, <1>6, <1>7, <1>8, IndexPoints, Zenon
  <2>2. \A k \in 1 .. Len(tasks) : tasks[k].pri \in priorities /\ tasks[k].pri \in Int
    BY <1>1, TaskFields, Zenon
  <2>3. tasks[1].pri = tasks[j + 1].pri
    BY <1>4, <2>1, <2>2, OneOfSegment, Zenon DEF s
  <2>4. \A a, b \in 1 .. Len(tasks) : a < b => tasks[a].pri >= tasks[b].pri
    BY Zenon DEF SortedByPriority
  <2>5. tasks[1].pri >= tasks[2].pri /\ (2 = j + 1 \/ tasks[2].pri >= tasks[j + 1].pri)
    BY <1>4, <2>4, Zenon
  <2>6. tasks[2].pri = tasks[1].pri
    <3>1. tasks[1].pri \in Int /\ tasks[2].pri \in Int /\ tasks[j + 1].pri \in Int
      BY <1>4, <2>2, Zenon
    <3>2. CASE 2 = j + 1
      BY <2>3, <3>2
    <3>3. CASE tasks[2].pri >= tasks[j + 1].pri
      BY <2>3, <2>5, <3>1, <3>3
    <3>. QED  BY <2>5, <3>2, <3>3, Zenon
  <2>7. Seg(tasks[2]) = s
    BY <2>1, <2>6, Zenon DEF Seg
  <2>8. idx'[s] = tasks[2].id
    BY <1>2, <1>4, <1>5, <2>1, <2>7, Zenon
  <2>9. tasks'[1] = tasks[2]
    BY <1>2, <1>4
  <2>10. idx'[Seg(tasks'[j])] = tasks'[1].id
    BY <1>5, <2>8, <2>9, Zenon
  <2>. QED  BY <1>4, <2>10, Zenon
<1>9. CASE i # 1
  <2>1. i - 1 \in 1 .. j /\ i - 1 \in 1 .. Len(tasks') /\ (i - 1) + 1 = i
    BY <1>2, <1>4, <1>9
  <2>2. tasks'[i - 1] = tasks[i]
    BY <1>2, <2>1, Zenon
  <2>3. idx[s] # tasks[1].id
    BY <1>1, <1>4, <1>6, <1>7, <1>9, Zenon DEF Numbered
  <2>4. idx'[Seg(tasks'[j])] = tasks'[i - 1].id
    BY <1>2, <1>5, <1>6, <2>2, <2>3, Zenon
  <2>. QED  BY <2>1, <2>4, Zenon
<1>. QED  BY <1>8, <1>9, Zenon

\* cancel_tasks: the tasks of the other owners stay, and the index of a segment goes to the
\* first of them behind it, if no task of another segment is on the way.
MovesOn(owner, s, i, stay, leave) ==
  /\ i <= stay /\ i <= leave
  /\ \A j \in 1 .. Len(tasks) : i <= j /\ tasks[j].owner # owner => stay <= j
  /\ \A j \in 1 .. Len(tasks) : i <= j /\ Seg(tasks[j]) # s => leave <= j
  /\ stay <= Len(tasks) => tasks[stay].owner # owner
  /\ leave <= Len(tasks) => Seg(tasks[leave]) # s
  /\ idx'[s] = IF stay < leave THEN tasks[stay].id ELSE Null

LEMMA CancelIs ==
  ASSUME IndexInv, NEW owner, CancelTasks(owner), NEW s \in Segs, NEW i \in 1 .. Len(tasks),
         idx[s] = tasks[i].id
  PROVE  \E stay, leave \in 1 .. Len(tasks) + 1 : MovesOn(owner, s, i, stay, leave)
<1>1. TypeOK /\ Numbered /\ IndexSound
  BY DEF IndexInv
<1>2. Len(tasks) \in Nat /\ idx[s] # Null
  BY <1>1, TaskFields, Zenon
<1>3. From(s) = i .. Len(tasks)
  BY <1>1, PosIs, Zenon DEF From
<1>. DEFINE S == {j \in i .. Len(tasks) : tasks[j].owner # owner}
            L == {j \in i .. Len(tasks) : Seg(tasks[j]) # s}
<1>4. idx'[s] = IF First(S) < First(L) THEN tasks[First(S)].id ELSE Null
  BY <1>2, <1>3, Zenon DEF CancelTasks, RemovedIdx
<1>5. \A j \in i .. Len(tasks) : j \in 1 .. Len(tasks)
  BY <1>2
<1>6. S \in SUBSET (1 .. Len(tasks)) /\ L \in SUBSET (1 .. Len(tasks))
  BY <1>5, Zenon
<1>7. /\ \/ S = {} /\ First(S) = Len(tasks) + 1
         \/ First(S) \in S /\ \A k \in S : First(S) <= k
      /\ \/ L = {} /\ First(L) = Len(tasks) + 1
         \/ First(L) \in L /\ \A k \in L : First(L) <= k
  BY <1>2, <1>6, FirstIs, Zenon
<1>8. ASSUME NEW x, (S = {} /\ x = Len(tasks) + 1) \/ (x \in S /\ \A k \in S : x <= k)
      PROVE  /\ x \in 1 .. Len(tasks) + 1 /\ i <= x
             /\ \A j \in 1 .. Len(tasks) : i <= j /\ tasks[j].owner # owner => x <= j
             /\ x <= Len(tasks) => tasks[x].owner # owner
  BY <1>2, <1>8
<1>9. ASSUME NEW x, (L = {} /\ x = Len(tasks) + 1) \/ (x \in L /\ \A k \in L : x <= k)
      PROVE  /\ x \in 1 .. Len(tasks) + 1 /\ i <= x
             /\ \A j \in 1 .. Len(tasks) : i <= j /\ Seg(tasks[j]) # s => x <= j
             /\ x <= Len(tasks) => Seg(tasks[x]) # s
  BY <1>2, <1>9
<1>. HIDE DEF S, L
<1>10. /\ First(S) \in 1 .. Len(tasks) + 1 /\ i <= First(S)
       /\ \A j \in 1 .. Len(tasks) : i <= j /\ tasks[j].owner # owner => First(S) <= j
       /\ First(S) <= Len(tasks) => tasks[First(S)].owner # owner
  BY <1>7, <1>8, Zenon
<1>11. /\ First(L) \in 1 .. Len(tasks) + 1 /\ i <= First(L)
       /\ \A j \in 1 .. Len(tasks) : i <= j /\ Seg(tasks[j]) # s => First(L) <= j
       /\ First(L) <= Len(tasks) => Seg(tasks[First(L)]) # s
  BY <1>7, <1>9, Zenon
<1>. QED  BY <1>4, <1>10, <1>11, Zenon DEF MovesOn

LEMMA CancelThins ==
  ASSUME IndexInv, NEW owner, CancelTasks(owner)
  PROVE  \E f, g : Thinned(f, g) /\ StaysAt(tasks', tasks, owner, f)
<1>1. TypeOK /\ Numbered /\ IndexSound
  BY DEF IndexInv
<1>2. /\ tasks' \in Without(tasks, owner) /\ scheduled' \in Without(scheduled, owner)
      /\ idx' = RemovedIdx(owner) /\ UNCHANGED <<priorities, now, adds>>
  BY Zenon DEF CancelTasks
<1>3. tasks' \in Seq([id : Nat, pri : priorities, owner : Owners, push : BOOLEAN])
      /\ \E f : Sublist(tasks', tasks, f) /\ StaysAt(tasks', tasks, owner, f)
  BY <1>1, <1>2, WithoutIs, Zenon DEF TypeOK
<1>4. scheduled' \in Seq([id : Nat, time : Nat, owner : Owners])
      /\ \E g : Sublist(scheduled', scheduled, g)
  BY <1>1, <1>2, WithoutIs, Zenon DEF TypeOK
<1>5. PICK f, g : Sublist(tasks', tasks, f) /\ StaysAt(tasks', tasks, owner, f) /\ Sublist(scheduled', scheduled, g)
  BY <1>3, <1>4, Zenon
<1>6. Len(tasks) \in Nat /\ \A k \in 1 .. Len(tasks) : tasks[k].id \in Nat
  BY <1>1, TaskFields, Zenon
<1>7. ASSUME NEW s \in Segs
      PROVE  \/ idx'[s] = Null
             \/ \E k \in 1 .. Len(tasks'), i \in 1 .. Len(tasks) :
                  /\ idx'[s] = tasks'[k].id /\ Seg(tasks'[k]) = s
                  /\ idx[s] = tasks[i].id /\ i <= f[k]
  <2>1. CASE idx[s] = Null
    BY <1>2, <2>1, Zenon DEF RemovedIdx
  <2>2. CASE idx[s] # Null
    <3>1. PICK i \in 1 .. Len(tasks) : idx[s] = tasks[i].id
      BY <1>1, <2>2, Zenon DEF IndexSound
    <3>2. PICK stay \in 1 .. Len(tasks) + 1, leave \in 1 .. Len(tasks) + 1 :
            MovesOn(owner, s, i, stay, leave)
      BY <3>1, CancelIs, Zenon
    <3>3. ASSUME stay < leave
          PROVE  \E k \in 1 .. Len(tasks'), h \in 1 .. Len(tasks) :
                  /\ idx'[s] = tasks'[k].id /\ Seg(tasks'[k]) = s
                  /\ idx[s] = tasks[h].id /\ h <= f[k]
      <4>1. stay <= Len(tasks) /\ stay \in 1 .. Len(tasks) /\ ~(leave <= stay)
        BY <1>6, <3>3
      <4>2. Seg(tasks[stay]) = s /\ tasks[stay].owner # owner
        BY <3>2, <4>1, Zenon DEF MovesOn
      <4>3. PICK k \in 1 .. Len(tasks') : f[k] = stay
        BY <1>5, <4>1, <4>2, Zenon DEF StaysAt
      <4>4. tasks'[k] = tasks[stay]
        BY <1>5, <4>3, Zenon DEF Sublist
      <4>. QED  BY <3>1, <3>2, <3>3, <4>2, <4>3, <4>4, Zenon DEF MovesOn
    <3>. QED  BY <3>2, <3>3, Zenon DEF MovesOn
  <2>. QED  BY <2>1, <2>2, Zenon
<1>8. idx' \in [Segs -> Nat \cup {Null}]
  <2>1. \A s \in Segs : idx'[s] \in Nat \cup {Null}
    <3>. TAKE s \in Segs
    <3>1. \A k \in 1 .. Len(tasks') : tasks'[k].id \in Nat
      BY <1>5, <1>6, Zenon DEF Sublist
    <3>. QED  BY <1>7, <3>1, Zenon
  <2>2. idx' = [s \in Segs |-> idx'[s]]
    BY <1>2, Zenon DEF RemovedIdx
  <2>. QED  BY <2>1, <2>2, Zenon
<1>9. Thinned(f, g)
  BY <1>2, <1>3, <1>4, <1>5, <1>7, <1>8, Zenon DEF Thinned
<1>. QED  BY <1>5, <1>9, Zenon

\* With one priority to a segment no task of another segment is between two of it, so the
\* index stays in front of what cancel_tasks leaves of the segment.
LEMMA CancelKeepsLed ==
  ASSUME IndexInv, Led, SortedByPriority, NEW owner, CancelTasks(owner)
  PROVE  Led'
<1>1. TypeOK /\ Numbered
  BY DEF IndexInv
<1>2. PICK f, g : Thinned(f, g) /\ StaysAt(tasks', tasks, owner, f)
  BY CancelThins, Zenon
<1>3. IndexInv'
  BY <1>2, ThinKeepsIndex, Zenon
<1>4. Sublist(tasks', tasks, f) /\ Len(tasks) \in Nat /\ Len(tasks') \in Nat
  BY <1>1, <1>2, <1>3 DEF Thinned, IndexInv, TypeOK
<1>5. OnePerSegment' <=> OnePerSegment
  <2>1. priorities' = priorities
    BY Zenon DEF CancelTasks
  <2>. QED  BY <2>1 DEF OnePerSegment, Seg
<1>. SUFFICES ASSUME OnePerSegment, NEW k \in 1 .. Len(tasks')
              PROVE  \E h \in 1 .. k : idx'[Seg(tasks'[k])] = tasks'[h].id
  BY <1>5, Zenon DEF Led, Seg
<1>. DEFINE j == f[k]
            s == Seg(tasks[j])
<1>6. j \in 1 .. Len(tasks) /\ tasks'[k] = tasks[j] /\ tasks[j].owner # owner
  BY <1>2, <1>4, Zenon DEF Sublist, StaysAt
<1>7. s \in Segs /\ Seg(tasks'[k]) = s
  BY <1>1, <1>6, TaskFields, Zenon
<1>8. PICK i \in 1 .. j : idx[s] = tasks[i].id
  BY <1>6, Zenon DEF Led
<1>. HIDE DEF j, s
<1>9. i \in 1 .. Len(tasks) /\ i <= j
  BY <1>4, <1>6
<1>10. Seg(tasks[i]) = s /\ Seg(tasks[j]) = s
  BY <1>7, <1>8, <1>9, IndexPoints, Zenon DEF s
<1>11. PICK stay \in 1 .. Len(tasks) + 1, leave \in 1 .. Len(tasks) + 1 :
         MovesOn(owner, s, i, stay, leave)
  BY <1>7, <1>8, <1>9, CancelIs, Zenon
<1>12. stay <= j /\ i <= leave
  BY <1>6, <1>9, <1>11, Zenon DEF MovesOn
<1>13. ~(leave <= j)
  <2>. SUFFICES ASSUME leave <= j PROVE FALSE
    BY Zenon
  <2>1. leave \in 1 .. Len(tasks) /\ leave <= Len(tasks)
    BY <1>4, <1>6
  <2>2. Seg(tasks[leave]) # s
    BY <1>11, <2>1, Zenon DEF MovesOn
  <2>3. leave # i /\ leave # j
    BY <1>10, <2>2, Zenon
  <2>4. i < leave /\ leave < j
    BY <1>9, <1>12, <2>1, <2>3, <1>6, SMTT(30)
  <2>5. \A a \in 1 .. Len(tasks) : tasks[a].pri \in priorities /\ tasks[a].pri \in Int
    BY <1>1, TaskFields, Zenon
  <2>6. tasks[i].pri >= tasks[leave].pri /\ tasks[leave].pri >= tasks[j].pri
    BY <1>6, <1>9, <2>1, <2>4, Zenon DEF SortedByPriority
  <2>7. tasks[i].pri = tasks[j].pri
    BY <1>6, <1>9, <1>10, <2>5, OneOfSegment, Zenon
  <2>8. tasks[i].pri \in Int /\ tasks[j].pri \in Int /\ tasks[leave].pri \in Int
    BY <1>6, <1>9, <2>1, <2>5, Zenon
  <2>9. tasks[leave].pri = tasks[i].pri
    BY <2>6, <2>7, <2>8, SMTT(30)
  <2>. QED  BY <1>10, <2>2, <2>9, Zenon DEF Seg
<1>14. stay < leave /\ stay \in 1 .. Len(tasks) /\ stay <= Len(tasks)
  BY <1>4, <1>6, <1>12, <1>13
<1>15. idx'[s] = tasks[stay].id /\ tasks[stay].owner # owner
  BY <1>11, <1>14, Zenon DEF MovesOn
<1>16. PICK h \in 1 .. Len(tasks') : f[h] = stay
  BY <1>2, <1>14, <1>15, Zenon DEF StaysAt
<1>17. tasks'[h] = tasks[stay]
  BY <1>4, <1>16, Zenon DEF Sublist
<1>18. f[h] <= f[k]
  BY <1>12, <1>16, Zenon DEF j
<1>19. h <= k
  BY <1>4, <1>18, SublistOrder, Zenon
<1>20. h \in 1 .. k
  BY <1>4, <1>19
<1>21. idx'[Seg(tasks'[k])] = tasks'[h].id
  BY <1>7, <1>15, <1>17, Zenon
<1>. QED  BY <1>20, <1>21, Zenon

\* schedule_task puts the task behind those that are due no later.
LEMMA ScheduleKeeps ==
  ASSUME IndexInv, NEW delay \in Delays, NEW owner \in Owners, ScheduleTask(delay, owner)
  PROVE  IndexInv' /\ (ScheduledInOrder => ScheduledInOrder')
<1>1. TypeOK /\ Numbered /\ IndexSound
  BY DEF IndexInv
<1>. DEFINE t == [id |-> adds, time |-> now + delay, owner |-> owner]
            at == SchedulePos(now + delay)
            S == [id : Nat, time : Nat, owner : Owners]
<1>2. /\ scheduled' = InsertBefore(scheduled, at, t)
      /\ adds' = adds + 1 /\ UNCHANGED <<priorities, tasks, idx, now>>
  BY Zenon DEF ScheduleTask
<1>3. adds \in Nat /\ now + delay \in Nat /\ scheduled \in Seq(S) /\ Len(scheduled) \in Nat
  BY <1>1, TaskQueueAssumption DEF TypeOK
<1>4. t \in S /\ t.id = adds /\ t.time = now + delay
  BY <1>3
<1>5. \A i \in 1 .. Len(scheduled) : /\ scheduled[i].time \in Nat /\ scheduled[i].id \in Nat
                                     /\ scheduled[i].id < adds
  BY <1>1, ScheduledFields, Zenon DEF Numbered
<1>. DEFINE later == {i \in 1 .. Len(scheduled) : now + delay < scheduled[i].time}
<1>6. \/ later = {} /\ at = Len(scheduled) + 1
      \/ at \in later /\ \A i \in later : at <= i
  <2>1. CASE later = {}
    BY <2>1, Zenon DEF SchedulePos
  <2>2. CASE later # {}
    <3>0. later \subseteq Nat
      BY <1>3
    <3>1. \E i \in later : \A j \in later : i <= j
      BY <2>2, <3>0, Smallest, Zenon
    <3>2. at = CHOOSE i \in later : \A j \in later : i <= j
      BY <2>2, Zenon DEF SchedulePos
    <3>. QED  BY <3>1, <3>2, Zenon
  <2>. QED  BY <2>1, <2>2, Zenon
<1>. HIDE DEF t, at
<1>7. /\ at \in 1 .. Len(scheduled) + 1
      /\ \A i \in 1 .. Len(scheduled) : i < at => scheduled[i].time <= now + delay
      /\ at \in 1 .. Len(scheduled) \/ at = Len(scheduled) + 1
      /\ at \in 1 .. Len(scheduled) => now + delay < scheduled[at].time
  <2>. DEFINE due == now + delay
  <2>1. due \in Nat
    BY <1>3
  <2>2. \A i \in later : i \in 1 .. Len(scheduled) /\ due < scheduled[i].time
    BY Zenon
  <2>3. \A i \in 1 .. Len(scheduled) : due < scheduled[i].time => i \in later
    BY Zenon
  <2>. HIDE DEF due, later
  <2>4. CASE later = {} /\ at = Len(scheduled) + 1
    <3>1. \A i \in 1 .. Len(scheduled) : scheduled[i].time <= due
      BY <1>5, <2>1, <2>3, <2>4, SMTT(30)
    <3>. QED  BY <1>3, <2>4, <3>1, SMTT(30) DEF due
  <2>5. CASE at \in later /\ \A i \in later : at <= i
    <3>1. at \in 1 .. Len(scheduled) /\ due < scheduled[at].time
      BY <2>2, <2>5, Zenon
    <3>2. \A i \in 1 .. Len(scheduled) : i < at => i \notin later
      BY <2>5, <3>1
    <3>3. \A i \in 1 .. Len(scheduled) : i < at => scheduled[i].time <= due
      BY <1>5, <2>1, <2>3, <3>2
    <3>. QED  BY <1>3, <3>1, <3>3 DEF due
  <2>. QED  BY <1>6, <2>4, <2>5, Zenon
<1>8. /\ scheduled' \in Seq(S) /\ Len(scheduled') = Len(scheduled) + 1 /\ scheduled'[at] = t
      /\ \A i \in 1 .. Len(scheduled) :
           Shifted(at, i) \in 1 .. Len(scheduled') /\ scheduled'[Shifted(at, i)] = scheduled[i]
      /\ \A j \in 1 .. Len(scheduled') : j = at \/ \E i \in 1 .. Len(scheduled) : j = Shifted(at, i)
  <2>1. scheduled' \in Seq(S) /\ Inserted(scheduled', scheduled, at, t)
    BY <1>2, <1>3, <1>4, <1>7, InsertIs, Zenon
  <2>. QED  BY <2>1, Zenon DEF Inserted
<1>9. IndexInv'
  <2>1. TypeOK'
    <3>1. adds' \in Nat
      BY <1>2, <1>3
    <3>. QED  BY <1>1, <1>2, <1>8, <3>1, Zenon DEF TypeOK
  <2>2. Numbered'
    <3>1. /\ \A i \in 1 .. Len(tasks) : tasks[i].id < adds'
          /\ \A i \in 1 .. Len(scheduled) : scheduled[i].id < adds'
          /\ t.id < adds'
      <4>1. \A n \in Nat : n < adds => n < adds'
        BY <1>2, <1>3
      <4>2. \A i \in 1 .. Len(tasks) : tasks[i].id \in Nat /\ tasks[i].id < adds
        BY <1>1, TaskFields, Zenon DEF Numbered
      <4>3. adds < adds'
        BY <1>2, <1>3
      <4>. QED  BY <1>4, <1>5, <4>1, <4>2, <4>3, Zenon
    <3>2. \A j \in 1 .. Len(scheduled') : scheduled'[j].id < adds'
      BY <1>8, <3>1, Zenon
    <3>. QED  BY <1>1, <1>2, <3>1, <3>2, Zenon DEF Numbered
  <2>3. IndexSound'
    BY <1>1, <1>2 DEF IndexSound, Seg
  <2>. QED  BY <2>1, <2>2, <2>3, Zenon DEF IndexInv
<1>10. ASSUME ScheduledInOrder PROVE ScheduledInOrder'
  <2>. DEFINE P(i, j) == i < j =>
                \/ scheduled'[i].time < scheduled'[j].time
                \/ scheduled'[i].time = scheduled'[j].time /\ scheduled'[i].id < scheduled'[j].id
  <2>1. at \in Nat
    BY <1>3, <1>7
  <2>2. \A i \in 1 .. Len(scheduled) : i \in Nat
    OBVIOUS
  <2>3. /\ \A i, j \in 1 .. Len(scheduled) : Shifted(at, i) < Shifted(at, j) <=> i < j
        /\ \A i \in 1 .. Len(scheduled) : Shifted(at, i) < at <=> i < at
        /\ \A i \in 1 .. Len(scheduled) : at < Shifted(at, i) <=> at <= i
    BY <2>1, <2>2, ShiftedOrder, Zenon
  <2>4. ASSUME NEW i \in 1 .. Len(scheduled), NEW j \in 1 .. Len(scheduled)
        PROVE  P(Shifted(at, i), Shifted(at, j))
    <3>1. /\ scheduled'[Shifted(at, i)] = scheduled[i] /\ scheduled'[Shifted(at, j)] = scheduled[j]
          /\ Shifted(at, i) < Shifted(at, j) <=> i < j
      BY <1>8, <2>3, Zenon
    <3>2. i < j =>
            \/ scheduled[i].time < scheduled[j].time
            \/ scheduled[i].time = scheduled[j].time /\ scheduled[i].id < scheduled[j].id
      BY <1>10, Zenon DEF ScheduledInOrder
    <3>. QED  BY <3>1, <3>2
  <2>5. ASSUME NEW i \in 1 .. Len(scheduled)
        PROVE  P(Shifted(at, i), at)
    <3>1. scheduled'[Shifted(at, i)] = scheduled[i] /\ scheduled'[at] = t
      BY <1>8, Zenon
    <3>2. Shifted(at, i) < at => scheduled[i].time <= t.time
      BY <1>4, <1>7, <2>3, Zenon
    <3>3. /\ scheduled[i].time \in Nat /\ t.time \in Nat /\ scheduled[i].id < t.id
      BY <1>3, <1>4, <1>5, Zenon
    <3>. QED  BY ONLY <3>1, <3>2, <3>3
  <2>6. ASSUME NEW i \in 1 .. Len(scheduled)
        PROVE  P(at, Shifted(at, i))
    <3>1. scheduled'[Shifted(at, i)] = scheduled[i] /\ scheduled'[at] = t
      BY <1>8, Zenon
    <3>2. ASSUME at <= i PROVE t.time < scheduled[i].time
      <4>1. at \in 1 .. Len(scheduled) /\ (at = i \/ at < i)
        BY <1>3, <1>7, <3>2
      <4>2. t.time < scheduled[at].time
        BY <1>4, <1>7, <4>1, Zenon
      <4>3. at = i \/ scheduled[at].time <= scheduled[i].time
        <5>1. at < i =>
                \/ scheduled[at].time < scheduled[i].time
                \/ scheduled[at].time = scheduled[i].time /\ scheduled[at].id < scheduled[i].id
          BY <1>10, <4>1, Zenon DEF ScheduledInOrder
        <5>. QED  BY <1>5, <4>1, <5>1
      <4>4. t.time \in Nat /\ scheduled[at].time \in Nat /\ scheduled[i].time \in Nat
        BY <1>3, <1>4, <1>5, <4>1, Zenon
      <4>5. CASE at = i
        BY <4>2, <4>5, Zenon
      <4>. QED  BY <4>2, <4>3, <4>4, <4>5, SMTT(30)
    <3>. QED  BY <2>3, <3>1, <3>2, Zenon
  <2>7. P(at, at)
    BY <2>1
  <2>. HIDE DEF P
  <2>8. \A i, j \in 1 .. Len(scheduled') : P(i, j)
    BY <1>8, <2>4, <2>5, <2>6, <2>7, Zenon
  <2>. QED  BY <2>8, Zenon DEF ScheduledInOrder, P
<1>. QED  BY <1>9, <1>10, Zenon
-----------------------------------------------------------------------------
LEMMA InitIndex == ListsInit => IndexInv
<1>. SUFFICES ASSUME ListsInit PROVE IndexInv
  OBVIOUS
<1>1. priorities \subseteq Int
  BY TaskQueueAssumption, Zenon DEF ListsInit
<1>2. TypeOK
  BY <1>1 DEF ListsInit, TypeOK, Segs
<1>3. Len(tasks) = 0 /\ Len(scheduled) = 0
  BY DEF ListsInit
<1>4. Numbered
  BY <1>3 DEF Numbered
<1>5. IndexSound
  BY DEF ListsInit, IndexSound
<1>. QED  BY <1>2, <1>4, <1>5, Zenon DEF IndexInv

\* What a step leaves alone keeps what is said of it.
LEMMA SameLists ==
  ASSUME UNCHANGED <<priorities, tasks, idx, scheduled, adds>>
  PROVE  /\ IndexInv /\ now' \in Nat => IndexInv'
         /\ OrderInv => OrderInv'
<1>1. IndexInv /\ now' \in Nat => IndexInv'
  BY DEF IndexInv, TypeOK, Numbered, IndexSound, Seg
<1>2. (Behind => Behind') /\ (Falling => Falling')
  BY SMTT(30) DEF Behind, Falling, Seg
<1>3. /\ InOrder => InOrder'
      /\ ScheduledInOrder => ScheduledInOrder'
      /\ ByteTasks => ByteTasks'
  BY DEF InOrder, ScheduledInOrder, ByteTasks
<1>4. OnePerSegment' <=> OnePerSegment
  BY DEF OnePerSegment, Seg
<1>5. (Led => Led') /\ (SortedByPriority => SortedByPriority')
  BY <1>4 DEF Led, SortedByPriority, Seg
<1>. QED  BY <1>1, <1>2, <1>3, <1>5, Zenon DEF OrderInv

\* Every step keeps the index sound, and the order where it held.
LEMMA StepKeeps ==
  ASSUME IndexInv, [ListsNext]_listsVars
  PROVE  IndexInv' /\ (OrderInv => OrderInv')
<1>. DEFINE Goal == IndexInv' /\ (OrderInv => OrderInv')
<1>1. ASSUME NEW f, NEW g, Thinned(f, g), OrderInv => Led'
      PROVE  Goal
  <2>1. IndexInv'
    BY <1>1, ThinKeepsIndex, Zenon
  <2>2. ASSUME OrderInv PROVE OrderInv'
    <3>1. Behind' /\ Falling' /\ InOrder' /\ ScheduledInOrder' /\ SortedByPriority'
      BY <1>1, <2>2, ThinKeepsOrder, Zenon DEF OrderInv
    <3>2. ByteTasks'
      BY <1>1, <2>2, Zenon DEF OrderInv, ByteTasks, Thinned
    <3>. QED  BY <1>1, <2>2, <3>1, <3>2, Zenon DEF OrderInv
  <2>. QED  BY <2>1, <2>2, Zenon
<1>2. ASSUME NEW pri \in priorities, NEW owner \in Owners, NEW push \in BOOLEAN,
             AddTask(pri, owner, push)
      PROVE  Goal
  <2>1. PICK t, at : Added(t, push, at)
    BY <1>2, AddIs, Zenon
  <2>2. IndexInv'
    BY <2>1, AddKeepsIndex, Zenon
  <2>3. ASSUME OrderInv PROVE OrderInv'
    <3>1. Behind' /\ Falling' /\ InOrder'
      BY <2>1, <2>3, AddKeepsBehind, AddKeepsFalling, AddKeepsInOrder, Zenon DEF OrderInv
    <3>2. Led' /\ SortedByPriority'
      BY <2>1, <2>3, AddKeepsSorted, Zenon DEF OrderInv
    <3>3. priorities' = priorities /\ scheduled' = scheduled
      BY <2>1, Zenon DEF Added
    <3>4. ByteTasks' /\ ScheduledInOrder'
      BY <2>3, <3>3, SMTT(30) DEF OrderInv, ByteTasks, ScheduledInOrder
    <3>. QED  BY <3>1, <3>2, <3>4, Zenon DEF OrderInv
  <2>. QED  BY <2>2, <2>3, Zenon
<1>3. ASSUME NEW delay \in Delays, NEW owner \in Owners, ScheduleTask(delay, owner)
      PROVE  Goal
  <2>1. IndexInv' /\ (ScheduledInOrder => ScheduledInOrder')
    BY <1>3, ScheduleKeeps, Zenon
  <2>2. UNCHANGED <<priorities, tasks, idx>>
    BY <1>3, Zenon DEF ScheduleTask
  <2>3. (Behind => Behind') /\ (Falling => Falling')
    BY <2>2, SMTT(30) DEF Behind, Falling, Seg
  <2>4. (InOrder => InOrder') /\ (ByteTasks => ByteTasks')
    BY <2>2 DEF InOrder, ByteTasks
  <2>5. OnePerSegment' <=> OnePerSegment
    BY <2>2 DEF OnePerSegment, Seg
  <2>6. (Led => Led') /\ (SortedByPriority => SortedByPriority')
    BY <2>2, <2>5 DEF Led, SortedByPriority, Seg
  <2>. QED  BY <2>1, <2>3, <2>4, <2>6, Zenon DEF OrderInv
<1>4. ASSUME PopScheduled PROVE Goal
  <2>1. PICK f, g : Thinned(f, g)
    BY <1>4, PopScheduledThins, Zenon
  <2>2. UNCHANGED <<priorities, tasks, idx>>
    BY <1>4, Zenon DEF PopScheduled
  <2>3. OnePerSegment' <=> OnePerSegment
    BY <2>2 DEF OnePerSegment, Seg
  <2>4. Led => Led'
    BY <2>2, <2>3 DEF Led, Seg
  <2>. QED  BY <1>1, <2>1, <2>4, Zenon DEF OrderInv
<1>5. ASSUME PopTask PROVE Goal
  <2>1. PICK f, g : Thinned(f, g)
    BY <1>5, PopTaskIs, Zenon
  <2>2. OrderInv => Led'
    BY <1>5, PopTaskKeepsLed, Zenon DEF OrderInv
  <2>. QED  BY <1>1, <2>1, <2>2, Zenon
<1>6. ASSUME NEW owner \in Owners, CancelTasks(owner)
      PROVE  Goal
  <2>1. PICK f, g : Thinned(f, g)
    BY <1>6, CancelThins, Zenon
  <2>2. OrderInv => Led'
    BY <1>6, CancelKeepsLed, Zenon DEF OrderInv
  <2>. QED  BY <1>1, <2>1, <2>2, Zenon
<1>7. ASSUME Tick PROVE Goal
  <2>1. UNCHANGED <<priorities, tasks, idx, scheduled, adds>> /\ now' \in Nat
    BY <1>7 DEF Tick, IndexInv, TypeOK
  <2>. QED  BY <2>1, SameLists, Zenon
<1>8. ASSUME UNCHANGED listsVars PROVE Goal
  <2>1. UNCHANGED <<priorities, tasks, idx, scheduled, adds>> /\ now' \in Nat
    BY <1>8 DEF listsVars, IndexInv, TypeOK
  <2>. QED  BY <2>1, SameLists, Zenon
<1>. HIDE DEF Goal
<1>9. ASSUME ListsNext PROVE Goal
  BY <1>2, <1>3, <1>4, <1>5, <1>6, <1>7, <1>9, Zenon DEF ListsNext
<1>. QED  BY <1>8, <1>9 DEF Goal

\* task_idx never dangles (IndexSound), for any number of tasks, owners and priorities, and
\* any int for a priority.
THEOREM IndexIsSound == ListsSpec => []IndexSound
<1>1. IndexInv /\ [ListsNext]_listsVars => IndexInv'
  BY StepKeeps, Zenon
<1>2. IndexInv => IndexSound
  BY Zenon DEF IndexInv
<1>. QED  BY <1>1, <1>2, InitIndex, PTL DEF ListsSpec

LEMMA InitOrder ==
  ASSUME EightBits, ListsInit
  PROVE  OrderInv
<1>1. Len(tasks) = 0 /\ Len(scheduled) = 0 /\ priorities \in Workloads
  BY DEF ListsInit
<1>2. ByteTasks
  BY <1>1, Zenon DEF EightBits, ByteTasks
<1>3. 1 .. Len(tasks) = {} /\ 1 .. Len(scheduled) = {}
  BY <1>1
<1>. QED  BY <1>2, <1>3, Zenon DEF OrderInv, Behind, Falling, InOrder, ScheduledInOrder, Led, SortedByPriority

\* Tasks of one priority keep the order of their addtask calls, and scheduled tasks that of
\* their times (TasksInOrder), whatever is popped, cancelled or put on top in between.
THEOREM OrderIsKept ==
  ASSUME EightBits
  PROVE  ListsSpec => []TasksInOrder
<1>1. ListsInit => IndexInv /\ OrderInv
  BY InitIndex, InitOrder, Zenon
<1>2. IndexInv /\ OrderInv /\ [ListsNext]_listsVars => (IndexInv /\ OrderInv)'
  BY StepKeeps, Zenon
<1>3. IndexInv /\ OrderInv => TasksInOrder
  BY Zenon DEF OrderInv, TasksInOrder, InOrder, ScheduledInOrder
<1>. QED  BY <1>1, <1>2, <1>3, PTL DEF ListsSpec

\* With one priority to a segment the ring falls in priority (SortedByPriority).
THEOREM RingIsSorted ==
  ASSUME EightBits
  PROVE  ListsSpec => []SortedByPriority
<1>1. ListsInit => IndexInv /\ OrderInv
  BY InitIndex, InitOrder, Zenon
<1>2. IndexInv /\ OrderInv /\ [ListsNext]_listsVars => (IndexInv /\ OrderInv)'
  BY StepKeeps, Zenon
<1>3. IndexInv /\ OrderInv => SortedByPriority
  BY Zenon DEF OrderInv
<1>. QED  BY <1>1, <1>2, <1>3, PTL DEF ListsSpec
=============================================================================
