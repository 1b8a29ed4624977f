---------------------------- MODULE MCThreadPool ----------------------------
(***************************************************************************)
(* Small pools: up to three threads, two clients, two tasks of two owners. *)
(***************************************************************************)
EXTENDS ThreadPool, TLC

CONSTANTS w1, w2, w3, c1, c2, t1, t2, o1, o2

TwoWorkers == {w1, w2}
ThreeWorkers == {w1, w2, w3}
TwoClients == {c1, c2}
TwoTasks == {t1, t2}
TwoOwners == {o1, o2}
TwoOwnerOf == t1 :> o1 @@ t2 :> o2
NoneTimed == {}
OneTimed == {t2}

SmallSizes == {[init |-> 0, max |-> 0], [init |-> 1, max |-> 2]}
TwoThreads == {[init |-> 2, max |-> 2]}

DeinitCalls == {"cancel", "deinit"}
TuneCalls == {"set_idle_max", "set_thread_max", "set_threshold", "set_idle_wait"}
NoLimits == {0}
FewLimits == {0, 1}
=============================================================================
