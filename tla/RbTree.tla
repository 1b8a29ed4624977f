------------------------------ MODULE RbTree ------------------------------
(***************************************************************************)
(* The red-black tree of public/check/rbtree.cc, as functions of a tree.   *)
(* A tree is its root and, for every node, its children, its parent and    *)
(* its colour; 0 is NULL.  The code's two mirrored branches are one here,  *)
(* with the side d: "l" or "r".                                            *)
(***************************************************************************)
EXTENDS Integers, FiniteSets

Other(d) == IF d = "l" THEN "r" ELSE "l"

\* A tree without nodes, over the nodes N.
RB_ROOT(N) ==
    [root |-> 0, child |-> [n \in N |-> [l |-> 0, r |-> 0]],
     parent |-> [n \in N |-> 0], red |-> [n \in N |-> FALSE]]

Black(T, n) == n = 0 \/ ~T.red[n]
SideOf(T, n) == IF T.child[T.parent[n]].l = n THEN "l" ELSE "r"

\* "if (parent) parent->rb_left or rb_right = m, else root->rb_node = m", m for n.
Relink(T, n, m) ==
    IF T.parent[n] = 0 THEN [T EXCEPT !.root = m]
    ELSE [T EXCEPT !.child[T.parent[n]][SideOf(T, n)] = m]

SetParent(T, n, p) == IF n = 0 THEN T ELSE [T EXCEPT !.parent[n] = p]
Paint(T, n, isRed) == IF n = 0 THEN T ELSE [T EXCEPT !.red[n] = isRed]

\* mutant of rotate: the child that changes sides keeps its old parent
rotateOrphans(T, n, d) ==
    LET e == Other(d)
        up == T.child[n][e]
        T1 == [T EXCEPT !.child[n][e] = T.child[up][d], !.child[up][d] = n]
        T2 == Relink([T1 EXCEPT !.parent[up] = T.parent[n]], n, up)
    IN [T2 EXCEPT !.parent[n] = up]

\* __rb_rotate_left is rotate to "l", __rb_rotate_right to "r".
rotate(T, n, d) ==
    LET e == Other(d)
        up == T.child[n][e]
        T1 == SetParent([T EXCEPT !.child[n][e] = T.child[up][d], !.child[up][d] = n],
                        T.child[up][d], n)
        T2 == Relink([T1 EXCEPT !.parent[up] = T.parent[n]], n, up)
    IN [T2 EXCEPT !.parent[n] = up]

rb_link_node(T, n, p, d) ==
    LET T1 == [T EXCEPT !.parent[n] = p, !.red[n] = TRUE, !.child[n] = [l |-> 0, r |-> 0]]
    IN IF p = 0 THEN [T1 EXCEPT !.root = n] ELSE [T1 EXCEPT !.child[p][d] = n]

RECURSIVE rb_insert_color(_, _)
rb_insert_color(T, n) ==
    LET p == T.parent[n]
        g == T.parent[p]
        d == SideOf(T, p)
        uncle == T.child[g][Other(d)]
        inner == T.child[p][Other(d)] = n
        T1 == IF inner THEN rotate(T, p, d) ELSE T
        top == IF inner THEN n ELSE p           \* parent, after the swap
        next == IF inner THEN p ELSE n          \* node, after the swap
    IN IF p = 0 \/ Black(T, p) THEN Paint(T, T.root, FALSE)
       ELSE IF ~Black(T, uncle)
       THEN rb_insert_color(Paint(Paint(Paint(T, uncle, FALSE), p, FALSE), g, TRUE), g)
       ELSE rb_insert_color(rotate(Paint(Paint(T1, top, FALSE), g, TRUE), g, Other(d)), next)

\* node may be NULL, so its parent is given.
RECURSIVE __rb_erase_color(_, _, _)
__rb_erase_color(T, n, p) ==
    LET d == IF T.child[p].l = n THEN "l" ELSE "r"
        e == Other(d)
        sib == T.child[p][e]
        \* a red sibling is rotated above the parent
        T1 == IF Black(T, sib) THEN T ELSE rotate(Paint(Paint(T, sib, FALSE), p, TRUE), p, d)
        o == T1.child[p][e]
        \* a sibling whose outer child is black is rotated away
        T2 == IF Black(T1, T1.child[o][e])
              THEN rotate(Paint(Paint(T1, T1.child[o][d], FALSE), o, TRUE), o, e) ELSE T1
        q == T2.child[p][e]
        T3 == Paint(Paint(Paint(T2, q, T2.red[p]), p, FALSE), T2.child[q][e], FALSE)
        T4 == rotate(T3, p, d)
    IN IF ~Black(T, n) \/ n = T.root THEN Paint(T, n, FALSE)
       ELSE IF Black(T1, T1.child[o].l) /\ Black(T1, T1.child[o].r)
       THEN __rb_erase_color(Paint(T1, o, TRUE), p, T1.parent[p])
       ELSE Paint(T4, T4.root, FALSE)

\* The last node on side d under n.
RECURSIVE Extreme(_, _, _)
Extreme(T, n, d) == IF T.child[n][d] = 0 THEN n ELSE Extreme(T, T.child[n][d], d)

\* A node with two children is replaced by its successor s, which leaves its
\* place to its right child.
rb_erase(T, n) ==
    LET two == T.child[n].l # 0 /\ T.child[n].r # 0
        s == IF two THEN Extreme(T, T.child[n].r, "l") ELSE n
        c == IF T.child[s].l = 0 THEN T.child[s].r ELSE T.child[s].l
        T1 == Relink(SetParent(T, c, T.parent[s]), s, c)
        p == IF two /\ T.parent[s] = n THEN s ELSE T.parent[s]
        T2 == [T1 EXCEPT !.parent[s] = T1.parent[n], !.red[s] = T1.red[n],
                         !.child[s] = T1.child[n]]
        T3 == Relink(T2, n, s)
        T4 == SetParent(SetParent(T3, T3.child[n].l, s), T3.child[n].r, s)
        T5 == IF two THEN T4 ELSE T1
    IN IF T.red[s] THEN T5 ELSE __rb_erase_color(T5, c, p)

\* The memory of a node that was erased is freed: nothing in it is kept.
Forget(T, n) ==
    [T EXCEPT !.child[n] = [l |-> 0, r |-> 0], !.parent[n] = 0, !.red[n] = FALSE]

rb_first(T) == IF T.root = 0 THEN 0 ELSE Extreme(T, T.root, "l")
rb_last(T) == IF T.root = 0 THEN 0 ELSE Extreme(T, T.root, "r")

\* The first node above n that n is not on the d side of.
RECURSIVE FirstAbove(_, _, _)
FirstAbove(T, n, d) ==
    IF T.parent[n] # 0 /\ T.child[T.parent[n]][d] = n THEN FirstAbove(T, T.parent[n], d)
    ELSE T.parent[n]

rb_next(T, n) ==
    IF T.child[n].r # 0 THEN Extreme(T, T.child[n].r, "l") ELSE FirstAbove(T, n, "r")
rb_prev(T, n) ==
    IF T.child[n].l # 0 THEN Extreme(T, T.child[n].l, "r") ELSE FirstAbove(T, n, "l")
-----------------------------------------------------------------------------
RECURSIVE Nodes(_, _), Sorted(_, _, _, _), BlackHeight(_, _)
Nodes(T, n) ==
    IF n = 0 THEN {} ELSE {n} \cup Nodes(T, T.child[n].l) \cup Nodes(T, T.child[n].r)

\* The nodes under n are ordered, between lo and hi, and know their parents.
Sorted(T, n, lo, hi) ==
    n # 0 => /\ lo < n /\ n < hi
             /\ \A c \in {T.child[n].l, T.child[n].r} \ {0} : T.parent[c] = n
             /\ Sorted(T, T.child[n].l, lo, n) /\ Sorted(T, T.child[n].r, n, hi)

\* The black nodes on every way down from n, or -1 when two ways differ or a red
\* node has a red child.
BlackHeight(T, n) ==
    IF n = 0 THEN 0
    ELSE LET l == BlackHeight(T, T.child[n].l)
             r == BlackHeight(T, T.child[n].r)
         IN IF l # r \/ l = -1
               \/ (T.red[n] /\ ~(Black(T, T.child[n].l) /\ Black(T, T.child[n].r)))
            THEN -1 ELSE l + (IF T.red[n] THEN 0 ELSE 1)

\* The neighbours of a node in the order of the nodes are its rb_next and rb_prev.
Walks(T) ==
    LET S == Nodes(T, T.root)
        Least(A) == IF A = {} THEN 0 ELSE CHOOSE a \in A : \A b \in A : a <= b
        Greatest(A) == IF A = {} THEN 0 ELSE CHOOSE a \in A : \A b \in A : a >= b
    IN /\ rb_first(T) = Least(S) /\ rb_last(T) = Greatest(S)
       /\ \A n \in S : /\ rb_next(T, n) = Least({m \in S : m > n})
                       /\ rb_prev(T, n) = Greatest({m \in S : m < n})

RedBlack(T, hi) ==
    /\ Sorted(T, T.root, 0, hi)
    /\ BlackHeight(T, T.root) # -1
    /\ T.root # 0 => ~T.red[T.root] /\ T.parent[T.root] = 0
=============================================================================
