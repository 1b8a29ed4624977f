------------------------------ MODULE MCTrees ------------------------------
(***************************************************************************)
(* The two tree structures, one or the other per behaviour: the memory     *)
(* checker with six pointers and two threads, one allocation made before   *)
(* it is on; and value trees of up to four cells, the keys a, a.b and b.   *)
(***************************************************************************)
EXTENDS MemCheck

CONSTANTS Parts, HeapCells

VARIABLES part, heap, own, inside, bad

valueVars == <<heap, own, inside, bad>>

TwoScalars == {[type |-> "null", val |-> 0], [type |-> "int", val |-> 1]}

V == INSTANCE Values WITH N <- HeapCells, ub <- bad,
       KeyOrder <- << <<"a">>, <<"a", "b">>, <<"b">> >>,
       Scalars <- TwoScalars

BothParts == {"memcheck", "values"}
ValuesOnly == {"values"}

MCInit == part \in Parts /\ Init /\ V!Init

InMemCheck == part = "memcheck"
RestMemCheck == UNCHANGED <<part, valueVars>>
InValues == part = "values"
RestValues == UNCHANGED <<part, vars>>

\* One disjunct per action of MemCheck's and of Values' Next.
MCNext ==
  \/ InMemCheck /\ DebugMemCheck /\ RestMemCheck
  \/ InMemCheck /\ DestructorBegins /\ RestMemCheck
  \/ InMemCheck /\ DestructorTurn /\ RestMemCheck
  \/ \E p \in Pointers :
       \/ InMemCheck /\ New(p) /\ RestMemCheck
       \/ InMemCheck /\ Malloc(p) /\ RestMemCheck
       \/ InMemCheck /\ Delete(p) /\ RestMemCheck
       \/ InMemCheck /\ Free(p) /\ RestMemCheck
       \/ InMemCheck /\ FreeChunk(p) /\ RestMemCheck
  \/ InValues /\ \E s \in TwoScalars : V!Create(V!Scalar(s)) /\ RestValues
  \/ InValues /\ \E type \in {"dict", "list"} : V!Create(V!Empty(type)) /\ RestValues
  \/ InValues /\ \E v \in own : V!Destroy(v) /\ RestValues
  \/ InValues /\ \E a \in V!Live(V!Now) : V!Copy(a) /\ RestValues
  \/ InValues /\ \E d \in V!Containers("dict") : V!CopyPruned(d) /\ RestValues
  \/ InValues /\ \E d \in V!Containers("dict") : V!ClearAll(d) /\ RestValues
  \/ InValues /\ \E d \in V!Containers("dict"), p \in V!Paths, v \in own : V!DictSet(d, p, v) /\ RestValues
  \/ InValues /\ \E d \in V!Containers("dict"), p \in V!Paths, v \in own : V!DictSetKey(d, p, v) /\ RestValues
  \/ InValues /\ \E d \in V!Containers("dict"), p \in V!Paths, wanted \in BOOLEAN :
                    V!DictTake(d, p, wanted) /\ RestValues
  \/ InValues /\ \E d \in V!Containers("dict"), p \in V!Paths, wanted \in BOOLEAN :
                    V!DictTakeKey(d, p, wanted) /\ RestValues
  \/ InValues /\ \E d, from \in V!Containers("dict") : V!Merge(d, from) /\ RestValues
  \/ InValues /\ \E l \in V!Containers("list") : V!ClearAll(l) /\ RestValues
  \/ InValues /\ \E l \in V!Containers("list"), v \in own : V!AppendIfNotPresent(l, v) /\ RestValues
  \/ InValues /\ \E l \in V!Containers("list"), v \in own, i \in V!Indexes : V!ListPut(l, i, v) /\ RestValues
  \/ InValues /\ \E l \in V!Containers("list"), v \in own, i \in V!Indexes : V!ListInsert(l, i, v) /\ RestValues
  \/ InValues /\ \E l \in V!Containers("list"), i \in V!Indexes, wanted \in BOOLEAN :
                    V!ListTake(l, i, wanted) /\ RestValues
  \/ InValues /\ \E l \in V!Containers("list"), a \in V!Live(V!Now) : V!ListTakeValue(l, a) /\ RestValues
MCSpec == MCInit /\ [][MCNext]_<<part, vars, valueVars>>

\* Two threads are in the operators, and memory is older than the checker, only while few
\* pointers are taken; the shapes that need all six are built by one thread at a time.
Followed ==
  part = "memcheck" =>
    (Cardinality(Busy) < 2 /\ raw = 0) \/ Cardinality({p \in Pointers : mem[p] # "free"}) < 4

\* Every live value has one owner (Values): see HeapOwned there.
HeapOwned == part = "values" => V!HeapOwned
\* Only the merge of a dictionary with one inside it uses a deleted value (Values).
MergeSafe == part = "values" => V!MergeSafe
\* A value that was Set is read back at its path, and other paths read as before (Values).
SetReadsBack == part = "values" => V!SetReadsBack
\* Equals compares contents, as long as no dictionary is involved (Values).
EqualsIsSameTree == part = "values" => V!EqualsIsSameTree
\* MergeDictionary hooks up copies (Values): see MergeCopies there.
MergeCopies == part = "values" => V!MergeCopies
=============================================================================
