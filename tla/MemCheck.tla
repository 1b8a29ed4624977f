----------------------------- MODULE MemCheck -----------------------------
(***************************************************************************)
(* The allocation checker of public/check/debugnew.cc: operator new puts   *)
(* a header in front of what it returns and the pointer in a red-black     *)
(* tree, operator delete takes it out and frees header and memory, and the *)
(* destructor of the one DebugMemCheck object frees what is left.  Until   *)
(* that object is constructed, and from the moment its destructor begins,  *)
(* new and delete are malloc and free.                                     *)
(*                                                                         *)
(* Pointers are 1 .. N in the order of the addresses.  The threads are not *)
(* named: where a thread is in its new or its delete of p is the state of  *)
(* p.  The tree is changed under _lock, so each change is one step; the    *)
(* destructor takes no lock.  Undefined behaviour (a free of a pointer     *)
(* malloc did not return, an unlocked change of the tree during another)   *)
(* sets ub, the failed assertion of Malloc sets aborted.                   *)
(***************************************************************************)
EXTENDS RbTree, Sequences

CONSTANTS
    N,           \* pointers
    MaxRaw,      \* bound on pointers allocated while the checker is off
    MaxBusy      \* the threads: bound on calls of new and delete under way

Pointers == 1..N

VARIABLES
    __startup,
    phase,       \* the checker: "before", "on", "destructor", "over"
    node,        \* the destructor's loop variable
    tree,        \* _root
    mem,         \* each pointer: see the actions
    raw,         \* history: the number of raw allocations
    ub, aborted

vars == <<__startup, phase, node, tree, mem, raw, ub, aborted>>

Init ==
    /\ __startup = FALSE /\ phase = "before" /\ node = 0
    /\ tree = RB_ROOT(Pointers)
    /\ mem = [p \in Pointers |-> "free"]
    /\ raw = 0
    /\ ub = FALSE /\ aborted = FALSE

Running == ~ub /\ ~aborted
Busy == {p \in Pointers : mem[p] \in {"malloced", "deleting", "erased"}}
Put(p, s) == mem' = [mem EXCEPT ![p] = s]

\* Where Malloc's loop ends: the node it links under and the side, or 0 and the node
\* with an equal pointer.
RECURSIVE Descend(_, _, _, _)
Descend(T, n, p, parent) ==
    IF n = 0 THEN [equal |-> FALSE, parent |-> parent, side |-> IF parent > p THEN "l" ELSE "r"]
    ELSE IF n = p THEN [equal |-> TRUE, parent |-> n, side |-> "l"]
    ELSE Descend(T, T.child[n][IF n > p THEN "l" ELSE "r"], p, n)

RECURSIVE FindChunkNolocked(_, _, _)
FindChunkNolocked(T, n, p) ==
    IF n = 0 \/ n = p THEN n
    ELSE FindChunkNolocked(T, T.child[n][IF n > p THEN "l" ELSE "r"], p)
-----------------------------------------------------------------------------
\* The constructor of ___DebugMemCheck, among the other static constructors.
DebugMemCheck ==
    /\ Running /\ phase = "before"
    /\ phase' = "on" /\ __startup' = TRUE
    /\ tree' = [tree EXCEPT !.root = 0]
    /\ UNCHANGED <<node, mem, raw, ub, aborted>>

\* operator new: malloc returns memory that is free (external).
New(p) ==
    /\ Running /\ mem[p] = "free"
    /\ IF __startup
       THEN Cardinality(Busy) < MaxBusy /\ Put(p, "malloced") /\ UNCHANGED raw
       ELSE raw < MaxRaw /\ Put(p, "raw") /\ raw' = raw + 1
    /\ UNCHANGED <<__startup, phase, node, tree, ub, aborted>>

\* The rest of operator new: the chunk goes into the tree, or the assertion fails.
Malloc(p) ==
    /\ Running /\ mem[p] = "malloced"
    /\ LET at == Descend(tree, tree.root, p, 0)
       IN CASE phase # "on" -> ub' = TRUE /\ UNCHANGED <<tree, mem, aborted>>
            [] phase = "on" /\ at.equal -> aborted' = TRUE /\ UNCHANGED <<tree, mem, ub>>
            [] phase = "on" /\ ~at.equal ->
                 /\ tree' = rb_insert_color(rb_link_node(tree, p, at.parent, at.side), p)
                 /\ Put(p, "live")
                 /\ UNCHANGED <<ub, aborted>>
    /\ UNCHANGED <<__startup, phase, node, raw>>

\* operator delete of a pointer the program has.  With the checker off it is freed, which
\* is undefined for a pointer behind a header.
Delete(p) ==
    /\ Running /\ mem[p] \in {"raw", "live", "gone"}
    /\ IF __startup
       THEN Cardinality(Busy) < MaxBusy /\ Put(p, IF mem[p] = "raw" THEN "lost" ELSE "deleting")
            /\ UNCHANGED ub
       ELSE IF mem[p] = "raw" THEN Put(p, "free") /\ UNCHANGED ub
       ELSE ub' = TRUE /\ UNCHANGED mem
    /\ UNCHANGED <<__startup, phase, node, tree, raw, aborted>>

\* DebugMemCheck::Free: found, erased.
Free(p) ==
    /\ Running /\ mem[p] = "deleting"
    /\ IF phase # "on" THEN ub' = TRUE /\ UNCHANGED <<tree, mem>>
       ELSE /\ IF FindChunkNolocked(tree, tree.root, p) = 0
               THEN Put(p, "lost") /\ UNCHANGED tree
               ELSE tree' = rb_erase(tree, p) /\ Put(p, "erased")
            /\ UNCHANGED ub
    /\ UNCHANGED <<__startup, phase, node, raw, aborted>>

\* The rest of operator delete: the memory goes back to malloc.
FreeChunk(p) ==
    /\ Running /\ mem[p] = "erased"
    /\ Put(p, "free") /\ tree' = Forget(tree, p)
    /\ UNCHANGED <<__startup, phase, node, raw, ub, aborted>>

\* mutant of DestructorTurn: frees the node before it asks for the next one
DestructorTurnFreesFirst ==
    /\ Running /\ phase = "destructor"
    /\ IF node = 0
       THEN phase' = "over" /\ UNCHANGED <<node, tree, mem>>
       ELSE /\ node' = rb_next(Forget(rb_erase(tree, node), node), node)
            /\ tree' = Forget(rb_erase(tree, node), node)
            /\ Put(node, "gone")
            /\ UNCHANGED phase
    /\ UNCHANGED <<__startup, raw, ub, aborted>>

\* ~DebugMemCheck, among the other static destructors: a turn of its loop moves to the
\* next node, then erases and frees this one, which the program may still use.
DestructorBegins ==
    /\ Running /\ phase = "on"
    /\ phase' = "destructor" /\ __startup' = FALSE
    /\ node' = rb_first(tree)
    /\ UNCHANGED <<tree, mem, raw, ub, aborted>>

DestructorTurn ==
    /\ Running /\ phase = "destructor"
    /\ IF node = 0
       THEN phase' = "over" /\ UNCHANGED <<node, tree, mem>>
       ELSE /\ node' = rb_next(tree, node)
            /\ tree' = Forget(rb_erase(tree, node), node)
            /\ Put(node, "gone")
            /\ UNCHANGED phase
    /\ UNCHANGED <<__startup, raw, ub, aborted>>

Next ==
    \/ DebugMemCheck \/ DestructorBegins \/ DestructorTurn
    \/ \E p \in Pointers : New(p) \/ Malloc(p) \/ Delete(p) \/ Free(p) \/ FreeChunk(p)

Spec == Init /\ [][Next]_vars
-----------------------------------------------------------------------------
InTree == Nodes(tree, tree.root)

\* The tree is a red-black tree in the order of the pointers, with parent pointers, that
\* rb_first, rb_next, rb_last and rb_prev walk, and it holds the pointers the program has
\* from new and nothing else: delete finds what new returned, and malloc never hands out a
\* pointer whose old entry is still in the tree, so the assertion of Malloc holds under
\* every interleaving.
TreeIsHeap ==
    /\ Running => RedBlack(tree, N + 1) /\ Walks(tree)
    /\ ~aborted
    /\ ~ub => InTree = {p \in Pointers : mem[p] \in {"live", "deleting"}}

\* Memory is lost only if it was allocated before the checker was constructed and deleted
\* while it was on; the destructor frees the rest, visiting each node although each turn
\* erases the node it comes from.
LostOnlyEarly ==
    /\ Cardinality({p \in Pointers : mem[p] = "lost"}) <= raw
    /\ phase = "over" /\ ~ub => InTree = {} /\ \A p \in Pointers : mem[p] # "live"
=============================================================================
