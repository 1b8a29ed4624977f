------------------------ MODULE MCHbaseConcurrent ------------------------
(***************************************************************************)
(* Three threads on one connection, two of them with a method that returns *)
(* a value, one call each; two threads that call twice; two threads with   *)
(* every kind of reply; one thread with every method.                      *)
(***************************************************************************)
EXTENDS HbaseConcurrent, TLC

Hbase == INSTANCE HbaseMethods
MCInterface == Hbase!concurrent

CONSTANTS t1, t2, t3

MCThreads == {t1, t2, t3}
Plan(a, b, c, n, r) ==
    [methods |-> (t1 :> a) @@ (t2 :> b) @@ (t3 :> c),
     calls |-> [t \in MCThreads |-> n], replies |-> r]
Kinds == {"return", "io", "other", "future"}
MCPlans == {Plan({"getRow"}, {"getRow"}, {"mutateRow"}, 1, {"return"}),
            Plan({"getRow"}, {"mutateRow"}, {}, 2, {"return"}),
            Plan({"getRow"}, {"mutateRow"}, {}, 1, Kinds),
            Plan(Methods, {}, {}, 1, Kinds)}
=============================================================================
