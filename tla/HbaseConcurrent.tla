-------------------------- MODULE HbaseConcurrent --------------------------
(***************************************************************************)
(* Threads that share one HbaseConcurrentClient                            *)
(* (public/hbase_storage/gen-cpp/Hbase.cpp).  The threads' requests go out *)
(* on one stream; the replies come back in any order on another.  A thread *)
(* that reads the header of another thread's reply leaves it as the        *)
(* pending header, notifies the other thread's monitor and waits; its      *)
(* structure stays in the stream.                                          *)
(*                                                                         *)
(* TConcurrentClientSyncInfo and its two sentries are the library's and    *)
(* not in the repository; they are modelled as recv_X and send_X use them. *)
(* Its stop_ is also set by a sender, which holds the write mutex only.    *)
(***************************************************************************)
EXTENDS Integers, Sequences, Functions

CONSTANTS
    Threads, NoThread,
    Interface,   \* the methods of HbaseConcurrentClient: for each name a record of HbaseMethods
    Plans,        \* the methods each thread may call, how often, and what the handlers do
    SeqIds        \* sequence numbers are 0 .. SeqIds-1 and roll over

None == [seqid |-> -1, fname |-> "", mtype |-> ""]

Methods == DOMAIN Interface

\* Every method is called by its own name on the wire.
ASSUME NamesAssumption == \A m \in Methods : Interface[m].fname = m

ASSUME NoThreadAssumption == NoThread \notin Threads

\* The calls are calls of the interface, and a handler returns, throws an exception
\* that its method declares (io), another one, or one of a newer interface.
ASSUME PlansAssumption ==
    \A p \in Plans :
       /\ \A t \in Threads : p.methods[t] \subseteq Methods
       /\ p.replies \subseteq {"return", "io", "other", "future"}

VARIABLES
    pc, meth, seqid,     \* each thread's place, method and sequence number
    header,              \* the header a thread has read
    got,                 \* its outcome: what it was, and whose reply it came from
    committed,           \* sentry.commit() was called
    readMutex, writeMutex,
    nextseqid_, monitors,             \* the sequence numbers with a monitor
    recvPending_, pending,            \* a header read for another thread
    wakeupSomeone_, stop_,
    out, requests, back,              \* the streams; what the server works on
    up,
    plan, calls                       \* one of Plans; the calls each thread has made

client_vars == <<pc, meth, seqid, header, got, committed>>
sync_vars == <<readMutex, writeMutex, nextseqid_, monitors, recvPending_, pending,
               wakeupSomeone_, stop_>>
net_vars == <<out, requests, back, up>>
work_vars == <<plan, calls>>
vars == <<client_vars, sync_vars, net_vars, work_vars>>

Nothing == [kind |-> "none", of |-> None]

Init ==
    /\ pc = [t \in Threads |-> "idle"]
    /\ meth = [t \in Threads |-> ""]
    /\ seqid = [t \in Threads |-> -1]
    /\ header = [t \in Threads |-> None]
    /\ got = [t \in Threads |-> Nothing]
    /\ committed = [t \in Threads |-> FALSE]
    /\ readMutex = NoThread /\ writeMutex = NoThread
    /\ nextseqid_ = SeqIds - 2 /\ monitors = {}
    /\ recvPending_ = FALSE /\ pending = None
    /\ wakeupSomeone_ = FALSE /\ stop_ = FALSE
    /\ out = <<>> /\ requests = {} /\ back = <<>> /\ up = TRUE
    /\ plan \in Plans /\ calls = [t \in Threads |-> 0]

Goto(t, l) == pc' = [pc EXCEPT ![t] = l]
Got(t, k, h) == got' = [got EXCEPT ![t] = [kind |-> k, of |-> h]]

\* monitor->notify() reaches a thread only once it waits.
Notify(S, p) == [t \in Threads |-> IF p[t] = "wait" /\ seqid[t] \in S THEN "woken" ELSE p[t]]

\* markBad_: the client is unusable and every thread is to find out.
markBad_(p) ==
    /\ wakeupSomeone_' = TRUE
    /\ stop_' = TRUE
    /\ pc' = Notify(monitors, p)

\* wakeupAnyone_: the thread of the largest sequence number is to read.
wakeupAnyone_(S, p) ==
    /\ wakeupSomeone_' = TRUE
    /\ pc' = Notify({n \in S : \A k \in S : k <= n}, p)
    /\ UNCHANGED stop_
-----------------------------------------------------------------------------
\* send_X: a sequence number and its monitor, or an exception once stopped.
generateSeqId(t, m) ==
    /\ pc[t] = "idle" /\ calls[t] < plan.calls[t]
    /\ calls' = [calls EXCEPT ![t] = @ + 1]
    /\ meth' = [meth EXCEPT ![t] = m]
    /\ IF stop_
       THEN /\ Goto(t, "done") /\ Got(t, "dead", None)
            /\ UNCHANGED <<seqid, nextseqid_, monitors>>
       ELSE /\ Goto(t, "send") /\ UNCHANGED got
            /\ seqid' = [seqid EXCEPT ![t] = nextseqid_]
            /\ nextseqid_' = (nextseqid_ + 1) % SeqIds
            /\ monitors' = monitors \cup {nextseqid_}
    /\ UNCHANGED <<header, committed, readMutex, writeMutex, recvPending_, pending, wakeupSomeone_, stop_, net_vars, plan>>

\* TConcurrentSendSentry takes the write mutex; the header is written.
writeMessageBegin(t) ==
    /\ pc[t] = "send" /\ writeMutex = NoThread
    /\ writeMutex' = t
    /\ Goto(t, "args")
    /\ out' = Append(out, [item |-> "begin", seqid |-> seqid[t],
                           fname |-> Interface[meth[t]].fname])
    /\ UNCHANGED <<meth, seqid, header, got, committed, readMutex, nextseqid_, monitors,
                   recvPending_, pending, wakeupSomeone_, stop_, requests, back, up, work_vars>>

\* The arguments and the flush.  Without an exception the sentry is committed;
\* its destructor otherwise marks the client bad.  Then the mutex is released.
writeArgs(t) ==
    /\ pc[t] = "args"
    /\ writeMutex' = NoThread
    /\ \/ /\ Goto(t, "lock")
          /\ out' = Append(out, [item |-> "struct", args |-> Interface[meth[t]].args])
          /\ UNCHANGED <<got, wakeupSomeone_, stop_>>
       \/ /\ ~up
          /\ Got(t, "transport", None)
          /\ markBad_([pc EXCEPT ![t] = "done"])
          /\ UNCHANGED out
    /\ UNCHANGED <<meth, seqid, header, committed, readMutex, nextseqid_, monitors,
                   recvPending_, pending, requests, back, up, work_vars>>

\* recv_X: TConcurrentRecvSentry takes the read mutex.
lockRead(t) ==
    /\ pc[t] = "lock" /\ readMutex = NoThread
    /\ readMutex' = t
    /\ Goto(t, "loop")
    /\ UNCHANGED <<meth, seqid, header, got, committed, writeMutex, nextseqid_, monitors,
                   recvPending_, pending, wakeupSomeone_, stop_, net_vars, work_vars>>

\* mutant of Mine: the sequence number is not compared
MineAlways(t, h) == "mine"

\* recv_X compares the header's sequence number with the thread's own.
Mine(t, h) == IF h.seqid = seqid[t] THEN "mine" ELSE "other"

\* mutant of getPending: a header left pending is forgotten
getPendingForgets(t) ==
    /\ pc[t] = "loop" /\ ~stop_
    /\ wakeupSomeone_' = FALSE
    /\ recvPending_' = FALSE
    /\ pending' = None
    /\ Goto(t, "read")
    /\ UNCHANGED <<header, got, meth, seqid, committed, readMutex, writeMutex, nextseqid_,
                   monitors, stop_, net_vars, work_vars>>

\* getPending: an exception once stopped; the header that another thread left, or to read one
getPending(t) ==
    /\ pc[t] = "loop"
    /\ IF stop_
       THEN /\ Goto(t, "exit") /\ Got(t, "dead", None)
            /\ UNCHANGED <<header, recvPending_, pending, wakeupSomeone_>>
       ELSE /\ wakeupSomeone_' = FALSE
            /\ recvPending_' = FALSE
            /\ pending' = None
            /\ IF recvPending_
               THEN /\ Goto(t, Mine(t, pending))
                    /\ header' = [header EXCEPT ![t] = pending]
               ELSE Goto(t, "read") /\ UNCHANGED header
            /\ UNCHANGED got
    /\ UNCHANGED <<meth, seqid, committed, readMutex, writeMutex, nextseqid_, monitors, stop_,
                   net_vars, work_vars>>

\* A read that finds the connection lost and nothing left throws.
ReadLost(t) ==
    /\ pc[t] \in {"read", "mine"} /\ ~up /\ back = <<>>
    /\ Goto(t, "exit") /\ Got(t, "transport", None)
    /\ UNCHANGED <<meth, seqid, header, committed, sync_vars, net_vars, work_vars>>

readMessageBegin(t) ==
    /\ pc[t] = "read"
    /\ back # <<>> /\ Head(back).item = "begin"
    /\ LET h == [seqid |-> Head(back).seqid, fname |-> Head(back).fname,
                 mtype |-> Head(back).mtype]
       IN header' = [header EXCEPT ![t] = h] /\ Goto(t, Mine(t, h))
    /\ back' = Tail(back)
    /\ UNCHANGED <<meth, seqid, got, committed, sync_vars, out, requests, up, work_vars>>

\* The structure of the thread's own reply.  An exception message, a value and a
\* declared exception commit the sentry; a wrong name and a missing result do not.
readResult(t) ==
    /\ pc[t] = "mine"
    /\ back # <<>> /\ Head(back).item = "struct"
    /\ back' = Tail(back)
    /\ Goto(t, "exit")
    /\ LET m == Interface[meth[t]]
           b == Head(back)
           kind == CASE header[t].mtype = "exception" -> "application"
                     [] header[t].mtype # "exception" ->
                          IF header[t].fname # m.fname THEN "invalid"
                          ELSE IF b.set \cap (Range(m.throws) \cup {"success"}) # {} THEN b.kind
                          ELSE IF m.returns THEN "missing" ELSE "return"
       IN /\ Got(t, kind, b.of)
          /\ committed' = [committed EXCEPT ![t] = kind \notin {"invalid", "missing"}]
    /\ UNCHANGED <<meth, seqid, header, sync_vars, out, requests, up, work_vars>>

\* mutant of updatePending: recv_X goes on reading without waitForWork
updatePendingSpins(t) ==
    /\ pc[t] = "other"
    /\ recvPending_' = TRUE
    /\ pending' = header[t]
    /\ header' = [header EXCEPT ![t] = None]
    /\ IF header[t].seqid \in monitors
       THEN pc' = Notify({header[t].seqid}, [pc EXCEPT ![t] = "loop"]) /\ UNCHANGED got
       ELSE Goto(t, "exit") /\ Got(t, "badseqid", None)
    /\ UNCHANGED <<meth, seqid, committed, readMutex, writeMutex, nextseqid_, monitors,
                   wakeupSomeone_, stop_, net_vars, work_vars>>

\* The reply of another thread: it becomes the pending one and its owner is
\* notified.  A sequence number without a monitor is an exception.
updatePending(t) ==
    /\ pc[t] = "other"
    /\ recvPending_' = TRUE
    /\ pending' = header[t]
    /\ header' = [header EXCEPT ![t] = None]
    /\ IF header[t].seqid \in monitors
       THEN pc' = Notify({header[t].seqid}, [pc EXCEPT ![t] = "check"]) /\ UNCHANGED got
       ELSE Goto(t, "exit") /\ Got(t, "badseqid", None)
    /\ UNCHANGED <<meth, seqid, committed, readMutex, writeMutex, nextseqid_, monitors,
                   wakeupSomeone_, stop_, net_vars, work_vars>>

\* waitForWork: the tests, with the read mutex held.
waitForWork(t) ==
    /\ pc[t] = "check"
    /\ IF stop_ THEN Goto(t, "exit") /\ Got(t, "dead", None)
       ELSE /\ Goto(t, IF wakeupSomeone_ \/ (recvPending_ /\ pending.seqid = seqid[t])
                       THEN "loop" ELSE "sleep")
            /\ UNCHANGED got
    /\ UNCHANGED <<meth, seqid, header, committed, sync_vars, net_vars, work_vars>>

\* waitForever releases the read mutex, and takes it again once notified.
waitForever(t) ==
    /\ pc[t] = "sleep"
    /\ Goto(t, "wait")
    /\ readMutex' = NoThread
    /\ UNCHANGED <<meth, seqid, header, got, committed, writeMutex, nextseqid_, monitors,
                   recvPending_, pending, wakeupSomeone_, stop_, net_vars, work_vars>>

wakeUp(t) ==
    /\ pc[t] = "woken" /\ readMutex = NoThread
    /\ readMutex' = t
    /\ Goto(t, "check")
    /\ UNCHANGED <<meth, seqid, header, got, committed, writeMutex, nextseqid_, monitors,
                   recvPending_, pending, wakeupSomeone_, stop_, net_vars, work_vars>>

\* ~TConcurrentRecvSentry: the monitor goes; another thread is woken if the
\* sentry was committed, every thread if it was not; the read mutex is released.
recvSentryEnds(t) ==
    /\ pc[t] = "exit"
    /\ monitors' = monitors \ {seqid[t]}
    /\ IF committed[t]
       THEN wakeupAnyone_(monitors \ {seqid[t]}, [pc EXCEPT ![t] = "done"])
       ELSE markBad_([pc EXCEPT ![t] = "done"])
    /\ readMutex' = NoThread
    /\ UNCHANGED <<meth, seqid, header, got, committed, writeMutex, nextseqid_, recvPending_,
                   pending, net_vars, work_vars>>

Return(t) ==
    /\ pc[t] = "done"
    /\ Goto(t, "idle") /\ Got(t, "none", None)
    /\ meth' = [meth EXCEPT ![t] = ""]
    /\ seqid' = [seqid EXCEPT ![t] = -1]
    /\ header' = [header EXCEPT ![t] = None]
    /\ committed' = [committed EXCEPT ![t] = FALSE]
    /\ UNCHANGED <<sync_vars, net_vars, work_vars>>
-----------------------------------------------------------------------------
\* The server reads a request, and answers the requests it has in any order.
ServerReads ==
    /\ up /\ Len(out) >= 2
    /\ requests' = requests \cup {[seqid |-> out[1].seqid, fname |-> out[1].fname,
                                   args |-> out[2].args]}
    /\ out' = SubSeq(out, 3, Len(out))
    /\ UNCHANGED <<client_vars, sync_vars, back, up, work_vars>>

\* kind: a return, the declared exception io, an exception the method does not
\* declare, or one of a newer interface, which the client skips.
ServerReplies(r, kind) ==
    /\ up /\ r \in requests
    /\ requests' = requests \ {r}
    /\ LET type == IF kind = "other" THEN "exception" ELSE "reply"
           set == CASE kind = "return" -> IF Interface[r.fname].returns THEN {"success"} ELSE {}
                    [] kind = "io" -> {"io"}
                    [] OTHER -> {}
           h == [seqid |-> r.seqid, fname |-> r.fname, mtype |-> type]
       IN back' = back \o <<[item |-> "begin", seqid |-> h.seqid, fname |-> h.fname,
                              mtype |-> type],
                            [item |-> "struct", set |-> set, kind |-> kind, of |-> h]>>
    /\ UNCHANGED <<client_vars, sync_vars, out, up, work_vars>>

\* The connection is lost, with any end of what was on its way to the client.
Lose ==
    /\ up
    /\ up' = FALSE
    /\ requests' = {}
    /\ \E n \in 0..Len(back) : back' = SubSeq(back, 1, n)
    /\ UNCHANGED <<client_vars, sync_vars, out, work_vars>>

Step(t) ==
    \/ writeMessageBegin(t) \/ writeArgs(t) \/ lockRead(t) \/ getPending(t) \/ ReadLost(t)
    \/ readMessageBegin(t) \/ readResult(t) \/ updatePending(t) \/ waitForWork(t)
    \/ waitForever(t) \/ wakeUp(t) \/ recvSentryEnds(t) \/ Return(t)

Server == ServerReads \/ \E r \in requests, k \in plan.replies : ServerReplies(r, k)

Next ==
    \/ \E t \in Threads : (\E m \in plan.methods[t] : generateSeqId(t, m)) \/ Step(t)
    \/ Server
    \/ Lose

\* Every thread runs on (a mutex that stays free is taken), and the server answers.
Spec == Init /\ [][Next]_vars /\ (\A t \in Threads : WF_vars(Step(t))) /\ WF_vars(Server)
-----------------------------------------------------------------------------
\* A thread that gets a reply gets the reply of its own request, whatever the
\* order of the replies and whichever thread read its header; no thread meets a
\* sequence number without a monitor or a reply of another method (recv_X).
OwnReply ==
    \A t \in Threads :
       /\ got[t].kind \in {"return", "io", "application", "missing"} =>
            got[t].of.seqid = seqid[t] /\ got[t].of.fname = meth[t]
       /\ got[t].kind \notin {"badseqid", "invalid"}

\* A thread that holds a header finds its structure next in the stream, and one
\* that is to read a header finds a header: also after the read mutex changed
\* hands with a header pending.
StreamAligned ==
    back # <<>> =>
       (Head(back).item = "struct"
          <=> recvPending_ \/ \E t \in Threads : pc[t] \in {"mine", "other"})

\* Every call returns or throws: no wake-up is lost, also when a send or a read
\* fails at any point (waitForWork, wakeupAnyone_, markBad_).  The calls of a plan
\* are bounded, so the threads come to rest together.
CallReturns == (\E t \in Threads : pc[t] # "idle") ~> (\A t \in Threads : pc[t] = "idle")
=============================================================================
