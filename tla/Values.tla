------------------------------- MODULE Values -------------------------------
(***************************************************************************)
(* The value trees of base/logic/base_values.cc: a DictionaryValue or a    *)
(* ListValue owns the values it holds and deletes them when they are       *)
(* replaced, removed or cleared.  A single caller builds and changes trees *)
(* on a heap of N cells; it owns the roots, gives a root away with Set,    *)
(* Append and Insert, gets one back from Remove and DeepCopy, and reaches  *)
(* the containers inside a tree through Get.                               *)
(*                                                                         *)
(* A path is a sequence of names, the text between the dots; a key of a    *)
(* dictionary is a path too, because SetWithoutPathExpansion takes dots    *)
(* as they are.  The scalar types differ only in type and value.  Use of a *)
(* deleted value sets ub.  The buffer of a BinaryValue is left out.        *)
(***************************************************************************)
EXTENDS Integers, Sequences, SequencesExt, FiniteSets, FiniteSetsExt

CONSTANTS
  N,           \* the number of heap cells
  KeyOrder,    \* the keys, in the order of std::map<std::wstring, Value*>
  Scalars      \* [type, val] of the scalar values made

VARIABLES
  heap,        \* the cells
  own,         \* the values the caller has to delete
  inside,      \* history: a dictionary was merged with one of its descendants
  ub

vars == <<heap, own, inside, ub>>

Cells == 1 .. N
Paths == {KeyOrder[i] : i \in 1 .. Len(KeyOrder)}
Single == {p \in Paths : Len(p) = 1}

\* A cell; the kids of a list are a sequence, those of a dictionary a function on its keys
Cell(type, val, kids) == [type |-> type, val |-> val, kids |-> kids]
Free == Cell("free", 0, <<>>)
Scalar(s) == Cell(s.type, s.val, <<>>)
Empty(type) == Cell(type, 0, <<>>)

\* What an operation works on: the cells, the value it returns (0 is NULL), and whether it
\* used a deleted value or ran out of cells
Mem(cells, out, bad, full) == [cells |-> cells, out |-> out, bad |-> bad, full |-> full]
Now == Mem(heap, 0, FALSE, FALSE)

Live(m) == {a \in Cells : m.cells[a] # Free}
IsType(m, a, type) == m.cells[a].type = type
Kids(m, a) == m.cells[a].kids
SetKids(m, a, kids) == [m EXCEPT !.cells[a].kids = kids]
Put(f, k, v) == [x \in DOMAIN f \cup {k} |-> IF x = k THEN v ELSE f[x]]
Without(f, k) == [x \in DOMAIN f \ {k} |-> f[x]]

RECURSIVE Subtree(_, _)
Subtree(m, a) == {a} \cup UNION {Subtree(m, Kids(m, a)[k]) : k \in DOMAIN Kids(m, a)}

\* delete: the destructors of containers clear them
Delete(m, a) == [m EXCEPT !.cells = [x \in Cells |-> IF x \in Subtree(m, a) THEN Free ELSE @[x]],
                          !.bad = @ \/ IsType(m, a, "free")]

New(m, cell) ==
  LET free == Cells \ Live(m)
      a == CHOOSE x \in free : \A y \in free : x <= y
  IN  IF m.full \/ free = {} THEN [m EXCEPT !.full = TRUE, !.out = 0]
      ELSE [m EXCEPT !.cells[a] = cell, !.out = a]
-----------------------------------------------------------------------------
\* mutant of SetWithoutPathExpansion: the old value is not deleted
SetWithoutPathExpansionLeaks(m, d, k, v) ==
  IF v = 0 THEN m ELSE SetKids(m, d, Put(Kids(m, d), k, v))

\* DictionaryValue::SetWithoutPathExpansion
SetWithoutPathExpansion(m, d, k, v) ==
  LET m1 == IF k \in DOMAIN Kids(m, d) THEN Delete(m, Kids(m, d)[k]) ELSE m
  IN  IF v = 0 THEN m ELSE SetKids(m1, d, Put(Kids(m, d), k, v))

\* DictionaryValue::Get: the value at a path, 0 when there is none; every name but the last
\* must lead to a dictionary
RECURSIVE Get(_, _, _)
Get(m, d, p) ==
  IF Len(p) = 1 THEN IF p \in DOMAIN Kids(m, d) THEN Kids(m, d)[p] ELSE 0
  ELSE LET a == Get(m, d, <<Head(p)>>)
       IN  IF a = 0 \/ ~IsType(m, a, "dict") THEN 0 ELSE Get(m, a, Tail(p))

\* DictionaryValue::GetDictionary
GetDictionary(m, d, p) == LET a == Get(m, d, p) IN IF a # 0 /\ IsType(m, a, "dict") THEN a ELSE 0

\* the dictionary of a name on the way, made when there is none (or another value)
Descend(m, d, k) ==
  LET made == New(m, Empty("dict"))
      a == GetDictionary(m, d, k)
  IN  IF a # 0 THEN [m EXCEPT !.out = a]
      ELSE IF made.full THEN made
      ELSE [SetWithoutPathExpansion(made, d, k, made.out) EXCEPT !.out = made.out]

\* mutant of Set: the dictionary it descended to is not the one it sets
SetOneLevel(m, d, p, v) ==
  LET m1 == Descend(m, d, <<Head(p)>>)
  IN  IF Len(p) = 1 THEN SetWithoutPathExpansion(m, d, p, v)
      ELSE IF m1.full THEN m1 ELSE SetWithoutPathExpansion(m1, d, <<Last(p)>>, v)

\* DictionaryValue::Set
RECURSIVE Set(_, _, _, _)
Set(m, d, p, v) ==
  IF v = 0 \/ m.full THEN m
  ELSE IF Len(p) = 1 THEN SetWithoutPathExpansion(m, d, p, v)
  ELSE LET m1 == Descend(m, d, <<Head(p)>>) IN Set(m1, m1.out, Tail(p), v)

\* DictionaryValue::RemoveWithoutPathExpansion; the value is deleted unless the caller asks
\* for it
RemoveWithoutPathExpansion(m, d, k, wanted) ==
  IF k \notin DOMAIN Kids(m, d) THEN m
  ELSE LET a == Kids(m, d)[k]
           m1 == SetKids(m, d, Without(Kids(m, d), k))
       IN  IF wanted THEN [m1 EXCEPT !.out = a] ELSE Delete(m1, a)

\* DictionaryValue::Remove
DictRemove(m, d, p, wanted) ==
  LET c == IF Len(p) = 1 THEN d ELSE GetDictionary(m, d, Front(p))
  IN  IF c = 0 THEN m ELSE RemoveWithoutPathExpansion(m, c, <<Last(p)>>, wanted)
-----------------------------------------------------------------------------
\* DeepCopy of each class.  DictionaryValue::DeepCopy makes an empty dictionary.
RECURSIVE DeepCopy(_, _), CopyItems(_, _, _)
DeepCopy(m, a) ==
  CASE IsType(m, a, "dict") -> New(m, Empty("dict"))
    [] IsType(m, a, "list") ->
         LET r == New(m, Empty("list"))
         IN  [CopyItems(r, r.out, Kids(m, a)) EXCEPT !.out = r.out]
    [] OTHER -> New(m, m.cells[a])
CopyItems(m, l, items) ==
  IF items = <<>> \/ m.full THEN m
  ELSE LET c == DeepCopy(m, Head(items))
       IN  IF c.full THEN c ELSE CopyItems(SetKids(c, l, Append(Kids(c, l), c.out)), l, Tail(items))

\* mutant of ListEquals: the lengths are not compared after the loop
ListEqualsPrefix(s, t) == TRUE

\* ListValue::Equals after its loop: both lists are at their end
ListEquals(s, t) == Len(s) = Len(t)

\* Equals of each class.  DictionaryValue::Equals looks at the type only.
RECURSIVE Equals(_, _, _)
Equals(m, a, b) ==
  /\ m.cells[a].type = m.cells[b].type
  /\ CASE IsType(m, a, "dict") -> TRUE
       [] IsType(m, a, "list") ->
            /\ \A i \in DOMAIN Kids(m, a) \cap DOMAIN Kids(m, b) : Equals(m, Kids(m, a)[i], Kids(m, b)[i])
            /\ ListEquals(Kids(m, a), Kids(m, b))
       [] OTHER -> m.cells[a].val = m.cells[b].val

\* the keys of a dictionary in the order of the map, and the one after k ("" before the first)
KeysOf(m, d) == SelectSeq(KeyOrder, LAMBDA k : k \in DOMAIN Kids(m, d))
IndexIn(k) == IF k = <<>> THEN 0 ELSE CHOOSE i \in 1 .. Len(KeyOrder) : KeyOrder[i] = k
KeyAfter(m, d, k) ==
  LET rest == SelectSeq(KeysOf(m, d), LAMBDA j : IndexIn(j) > IndexIn(k))
  IN  IF rest = <<>> THEN <<>> ELSE Head(rest)

\* CopyWithoutEmptyChildren: containers that end up empty are deleted again, and NULL is
\* returned for them
RECURSIVE CopyWithoutEmptyChildren(_, _), CopyChildren(_, _, _, _)
CopyWithoutEmptyChildren(m, a) ==
  IF m.cells[a].type \notin {"list", "dict"} THEN DeepCopy(m, a)
  ELSE LET r == New(m, Empty(m.cells[a].type))
           names == IF IsType(m, a, "dict") THEN KeysOf(m, a) ELSE [i \in DOMAIN Kids(m, a) |-> i]
           c == CopyChildren(r, r.out, a, names)
       IN  IF r.full \/ c.full THEN [c EXCEPT !.full = TRUE]
           ELSE IF Kids(c, r.out) = <<>> THEN [Delete(c, r.out) EXCEPT !.out = 0]
           ELSE [c EXCEPT !.out = r.out]
CopyChildren(m, copy, a, names) ==
  IF names = <<>> \/ m.full THEN m
  ELSE LET c == CopyWithoutEmptyChildren(m, Kids(m, a)[Head(names)])
           k == IF IsType(m, a, "dict") THEN Head(names) ELSE Len(Kids(c, copy)) + 1
           hooked == IF c.out = 0 THEN c ELSE SetKids(c, copy, Put(Kids(c, copy), k, c.out))
       IN  IF c.full THEN c ELSE CopyChildren(hooked, copy, a, Tail(names))

\* DictionaryValue::DeepCopyWithoutEmptyChildren
DeepCopyWithoutEmptyChildren(m, d) ==
  LET c == CopyWithoutEmptyChildren(m, d)
  IN  IF c.full \/ c.out # 0 THEN c ELSE New(c, Empty("dict"))
-----------------------------------------------------------------------------
\* mutant of Hook: the old value goes before the copy is made
HookLate(m, d, k, a) ==
  LET m1 == IF k \in DOMAIN Kids(m, d) THEN Delete(m, Kids(m, d)[k]) ELSE m
      c == DeepCopy(m1, a)
  IN  IF c.full THEN c ELSE [SetKids(c, d, Put(Kids(m, d), k, c.out)) EXCEPT !.bad = @ \/ IsType(m1, a, "free")]

\* MergeDictionary: make a copy and hook it up
Hook(m, d, k, a) ==
  LET c == DeepCopy(m, a) IN IF c.full THEN c ELSE SetWithoutPathExpansion(c, d, k, c.out)

\* DictionaryValue::MergeDictionary from the key after k on.  The dictionary that is merged
\* may be a part of the one it is merged into, and a Set may delete it in mid-iteration.
RECURSIVE MergeFrom(_, _, _, _)
MergeFrom(m, d, from, last) ==
  IF m.full \/ m.bad \/ IsType(m, from, "free") THEN [m EXCEPT !.bad = @ \/ IsType(m, from, "free")]
  ELSE LET k == KeyAfter(m, from, last)
           a == Kids(m, from)[k]
           sub == IF k \in DOMAIN Kids(m, d) /\ IsType(m, Kids(m, d)[k], "dict") THEN Kids(m, d)[k] ELSE 0
           next == IF IsType(m, a, "dict") /\ sub # 0 THEN MergeFrom(m, sub, a, <<>>) ELSE Hook(m, d, k, a)
       IN  IF k = <<>> THEN m ELSE MergeFrom(next, d, from, k)

MergeDictionary(m, d, from) == MergeFrom(m, d, from, <<>>)
-----------------------------------------------------------------------------
\* ListValue::Set: beyond the end the list is filled up with null values
RECURSIVE ListSet(_, _, _, _)
ListSet(m, l, i, v) ==
  IF m.full THEN m
  ELSE IF i < Len(Kids(m, l)) THEN SetKids(Delete(m, Kids(m, l)[i + 1]), l, Put(Kids(m, l), i + 1, v))
  ELSE IF i = Len(Kids(m, l)) THEN SetKids(m, l, Append(Kids(m, l), v))
  ELSE LET c == New(m, Scalar([type |-> "null", val |-> 0]))
       IN  IF c.full THEN c ELSE ListSet(SetKids(c, l, Append(Kids(c, l), c.out)), l, i, v)

\* ListValue::Remove at an index
ListRemove(m, l, i, wanted) ==
  LET a == Kids(m, l)[i + 1]
      m1 == SetKids(m, l, RemoveAt(Kids(m, l), i + 1))
  IN  IF i >= Len(Kids(m, l)) THEN m
      ELSE IF wanted THEN [m1 EXCEPT !.out = a] ELSE Delete(m1, a)

\* ListValue::Remove of a value: the first that is equal
ListRemoveValue(m, l, a) ==
  LET hits == {i \in DOMAIN Kids(m, l) : Equals(m, Kids(m, l)[i], a)}
  IN  IF hits = {} THEN m ELSE ListRemove(m, l, (CHOOSE i \in hits : \A j \in hits : i <= j) - 1, FALSE)

\* Clear of either container
Clear(m, c) ==
  SetKids([m EXCEPT !.cells = [x \in Cells |->
             IF x \in Subtree(m, c) \ {c} THEN Free ELSE @[x]]], c, <<>>)
-----------------------------------------------------------------------------
Init ==
  /\ heap = [a \in Cells |-> Free]
  /\ own = {} /\ inside = FALSE /\ ub = FALSE

\* An operation ends: given is what the caller gave away, and what it returned is the caller's.
Done(m, given) ==
  /\ ~ub /\ ~m.full
  /\ heap' = m.cells
  /\ ub' = m.bad
  /\ own' = (own \ given) \cup ({m.out} \ {0})

Containers(type) == {a \in Cells : heap[a].type = type}
\* the roots that can go into a container: not those it is itself a part of
Givable(c) == {v \in own : c \notin Subtree(Now, v)}

Create(cell) == Done(New(Now, cell), {}) /\ UNCHANGED inside
Destroy(v) == v \in own /\ Done(Delete(Now, v), {v}) /\ UNCHANGED inside

DictSet(d, p, v) ==
  /\ v \in Givable(d)
  /\ Done([Set(Now, d, p, v) EXCEPT !.out = 0], {v})
  /\ UNCHANGED inside
DictSetKey(d, k, v) ==
  /\ v \in Givable(d)
  /\ Done(SetWithoutPathExpansion(Now, d, k, v), {v})
  /\ UNCHANGED inside
DictTake(d, p, wanted) == Done(DictRemove(Now, d, p, wanted), {}) /\ UNCHANGED inside
DictTakeKey(d, k, wanted) == Done(RemoveWithoutPathExpansion(Now, d, k, wanted), {}) /\ UNCHANGED inside
ClearAll(c) == Done(Clear(Now, c), {}) /\ UNCHANGED inside
Copy(a) == Done(DeepCopy(Now, a), {}) /\ UNCHANGED inside
CopyPruned(d) == Done(DeepCopyWithoutEmptyChildren(Now, d), {}) /\ UNCHANGED inside
Merge(d, from) ==
  /\ Done([MergeDictionary(Now, d, from) EXCEPT !.out = 0], {})
  /\ inside' = (inside \/ from \in Subtree(Now, d) \ {d})

ListPut(l, i, v) ==
  /\ v \in Givable(l)
  /\ Done([ListSet(Now, l, i, v) EXCEPT !.out = 0], {v})
  /\ UNCHANGED inside
ListInsert(l, i, v) ==
  /\ v \in Givable(l)
  /\ IF i <= Len(Kids(Now, l)) THEN Done(SetKids(Now, l, InsertAt(Kids(Now, l), i + 1, v)), {v})
     ELSE Done(Now, {})
  /\ UNCHANGED inside
\* ListValue::AppendIfNotPresent: a value it refuses stays with the caller
AppendIfNotPresent(l, v) ==
  /\ v \in Givable(l)
  /\ IF \E i \in DOMAIN Kids(Now, l) : Equals(Now, Kids(Now, l)[i], v) THEN Done(Now, {})
     ELSE Done(SetKids(Now, l, Append(Kids(Now, l), v)), {v})
  /\ UNCHANGED inside
ListTake(l, i, wanted) == Done(ListRemove(Now, l, i, wanted), {}) /\ UNCHANGED inside
ListTakeValue(l, a) == Done(ListRemoveValue(Now, l, a), {}) /\ UNCHANGED inside

Indexes == 0 .. 2
Next ==
  \/ \E s \in Scalars : Create(Scalar(s))
  \/ \E type \in {"dict", "list"} : Create(Empty(type))
  \/ \E v \in own : Destroy(v)
  \/ \E a \in Live(Now) : Copy(a)
  \/ \E d \in Containers("dict") :
       \/ CopyPruned(d) \/ ClearAll(d)
       \/ \E p \in Paths, v \in own : DictSet(d, p, v) \/ DictSetKey(d, p, v)
       \/ \E p \in Paths, wanted \in BOOLEAN : DictTake(d, p, wanted) \/ DictTakeKey(d, p, wanted)
       \/ \E from \in Containers("dict") : Merge(d, from)
  \/ \E l \in Containers("list") :
       \/ ClearAll(l)
       \/ \E v \in own : \/ AppendIfNotPresent(l, v)
                         \/ \E i \in Indexes : ListPut(l, i, v) \/ ListInsert(l, i, v)
       \/ \E i \in Indexes, wanted \in BOOLEAN : ListTake(l, i, wanted)
       \/ \E a \in Live(Now) : ListTakeValue(l, a)

Spec == Init /\ [][Next]_vars
-----------------------------------------------------------------------------
\* What a value stands for, whatever cells it is kept in
RECURSIVE Tree(_, _)
Tree(m, a) == Cell(m.cells[a].type, m.cells[a].val,
                   [k \in DOMAIN Kids(m, a) |-> Tree(m, Kids(m, a)[k])])

HasDict(m, a) == \E x \in Subtree(m, a) : IsType(m, x, "dict")

\* Every live value has one owner: the caller, or one entry of one container.  So nothing is
\* leaked, nothing is deleted twice, and no container refers to a deleted value, after any
\* sequence of sets, removals, merges and copies.
HeapOwned ==
  ~ub => \A a \in Cells :
    LET entries(c) == Cardinality({k \in DOMAIN Kids(Now, c) : Kids(Now, c)[k] = a})
    IN  MapThenSumSet(entries, Cells) + (IF a \in own THEN 1 ELSE 0) =
          IF heap[a] = Free THEN 0 ELSE 1

\* MergeDictionary may merge a dictionary with itself or with one around it; only a
\* dictionary inside the other can be deleted while it is being read.
MergeSafe == ub => inside

\* Set makes the value readable at its path and at no other: every path that neither leads
\* to the new value nor through a value that had to make way reads as before.
SetReadsBack ==
  \A d \in Containers("dict") : \A p \in Paths : \A v \in Givable(d) :
    LET after == Set(Now, d, p, v)
    IN  ~ub /\ ~after.full =>
          /\ Get(after, d, p) = v /\ Tree(after, v) = Tree(Now, v)
          /\ \A q \in Paths :
               LET a == Get(Now, d, q)
               IN  ~IsPrefix(q, p) /\ ~IsPrefix(p, q) =>
                     /\ Get(after, d, q) = a
                     /\ a # 0 => Tree(after, a) = Tree(Now, a)

\* Without dictionaries in them, two values are Equal exactly when they stand for the same
\* thing: AppendIfNotPresent and Remove(value) depend on it.
EqualsIsSameTree ==
  \A a, b \in Live(Now) :
    ~HasDict(Now, a) => (Equals(Now, a, b) <=> Tree(Now, a) = Tree(Now, b))

\* Where MergeDictionary does not merge two dictionaries, it hooks up a copy of the value
\* ("All other cases: Make a copy and hook it up", base_values.cc:747): what is read under the
\* key afterwards stands for the same as the original.
MergeCopies ==
  \A d, from \in Containers("dict") :
    LET after == MergeDictionary(Now, d, from)
    IN  d \notin Subtree(Now, from) /\ from \notin Subtree(Now, d) /\ ~after.full =>
          \A k \in DOMAIN Kids(Now, from) :
            \/ k \in DOMAIN Kids(Now, d) /\ IsType(Now, Kids(Now, d)[k], "dict")
            \/ Tree(after, Kids(after, d)[k]) = Tree(Now, Kids(Now, from)[k])
=============================================================================
