----------------------- MODULE HbaseConcurrentProofs -----------------------
(***************************************************************************)
(* Proofs about HbaseConcurrent for any threads, plans and number of       *)
(* sequence numbers: whichever thread reads, the stream of replies and the *)
(* threads agree on whether a header or a structure comes next (IInv); and *)
(* a thread gets the reply of its own request (CallsInv, MessagesInv).     *)
(***************************************************************************)
EXTENDS HbaseConcurrent, SequenceTheorems, TLAPS

Labels == {"idle", "send", "args", "lock", "loop", "read", "mine", "other", "check", "sleep",
           "wait", "woken", "exit", "done"}
Reading == {"loop", "read", "mine", "other", "check", "sleep", "exit"}

TypeOK ==
    /\ pc \in [Threads -> Labels]
    /\ recvPending_ \in BOOLEAN /\ up \in BOOLEAN
    /\ back \in Seq({back[i] : i \in DOMAIN back})

\* The read mutex is held by the one thread that is between taking it and giving it up.
ReadMutexHeld == \A t \in Threads : pc[t] \in Reading <=> readMutex = t

\* A header is pending only while no thread has one or is about to read one.
PendingAlone == recvPending_ => \A t \in Threads : pc[t] \notin {"read", "mine", "other"}

\* A structure is what comes next.
StructNext == recvPending_ \/ \E t \in Threads : pc[t] \in {"mine", "other"}

\* Headers and structures alternate; a connection that is up has whole replies, and only a
\* lost one can leave a header without its structure.
Alternating ==
    /\ \A i \in 1..Len(back) : back[i].item \in {"begin", "struct"}
    /\ \A i \in 1..Len(back) - 1 : back[i].item # back[i + 1].item
    /\ up /\ back # <<>> => back[Len(back)].item = "struct"
    /\ up /\ back = <<>> => ~StructNext

HeadAgrees == back # <<>> => (back[1].item = "struct" <=> StructNext)

IInv == TypeOK /\ ReadMutexHeld /\ PendingAlone /\ Alternating /\ HeadAgrees
-----------------------------------------------------------------------------
\* A sequence over some set is one over its own elements (what TypeOK says of back).
LEMMA OwnElements == ASSUME NEW S, NEW s \in Seq(S) PROVE s \in Seq({s[i] : i \in DOMAIN s})
<1>. DEFINE R == {s[i] : i \in DOMAIN s}
<1>1. Len(s) \in Nat /\ s \in [1..Len(s) -> S]
  OBVIOUS
<1>2. \A i \in 1..Len(s) : s[i] \in R
  BY <1>1, Zenon
<1>3. s \in [1..Len(s) -> R]
  BY <1>1, <1>2, Zenon
<1>. QED  BY <1>1, <1>3, SeqDef

\* No thread comes to a place that is about a header, or leaves one that has a header.
Calm ==
    \A u \in Threads :
       pc'[u] # pc[u] => pc'[u] \notin {"read", "mine", "other"} /\ pc[u] \notin {"mine", "other"}

\* Every thread stays inside, or outside, the region of the read mutex.
SameReader == readMutex' = readMutex /\ \A u \in Threads : pc[u] \in Reading <=> pc'[u] \in Reading

\* A step that leaves the stream alone and is calm keeps the agreement.
LEMMA QuietStream ==
  ASSUME IInv, UNCHANGED <<back, up, recvPending_>>, Calm
  PROVE  PendingAlone' /\ Alternating' /\ HeadAgrees'
<1>1. StructNext' <=> StructNext
  BY Zenon DEF StructNext, Calm
<1>2. PendingAlone'
  BY Zenon DEF IInv, PendingAlone, Calm
<1>3. Alternating'
  BY <1>1, Zenon DEF IInv, Alternating
<1>. QED  BY <1>1, <1>2, <1>3, Zenon DEF IInv, HeadAgrees

\* The same, when the read mutex does not change hands either.
LEMMA QuietStep ==
  ASSUME IInv, UNCHANGED <<back, up, recvPending_>>, pc' \in [Threads -> Labels], Calm, SameReader
  PROVE  IInv'
<1>1. TypeOK'
  BY Zenon DEF IInv, TypeOK
<1>2. ReadMutexHeld'
  BY Zenon DEF IInv, ReadMutexHeld, SameReader
<1>. QED  BY <1>1, <1>2, QuietStream, Zenon DEF IInv

\* One thread goes to a place that is not about a header.
LEMMA OneMoves ==
  ASSUME IInv, NEW t \in Threads, NEW a \in Labels \ {"read", "mine", "other"},
         pc[t] \notin {"mine", "other"}, pc' = [pc EXCEPT ![t] = a]
  PROVE  /\ pc' \in [Threads -> Labels] /\ Calm
         /\ pc'[t] = a /\ \A u \in Threads : u # t => pc'[u] = pc[u]
BY Zenon DEF IInv, TypeOK, Calm

\* One thread goes to "done" and some that wait are notified.
LEMMA OneEnds ==
  ASSUME IInv, NEW t \in Threads, NEW S, pc[t] \notin {"mine", "other"},
         pc' = Notify(S, [pc EXCEPT ![t] = "done"])
  PROVE  /\ pc' \in [Threads -> Labels] /\ Calm
         /\ pc'[t] = "done"
         /\ \A u \in Threads : u # t => pc'[u] = pc[u] \/ (pc[u] = "wait" /\ pc'[u] = "woken")
<1>1. \A u \in Threads : pc'[u] = IF u = t THEN "done"
                                  ELSE IF pc[u] = "wait" /\ seqid[u] \in S THEN "woken" ELSE pc[u]
  BY Zenon DEF Notify, IInv, TypeOK
<1>2. pc' \in [Threads -> Labels]
  BY Zenon DEF Notify, IInv, TypeOK, Labels
<1>3. Calm
  BY <1>1, Zenon DEF Calm
<1>. QED  BY <1>1, <1>2, <1>3, Zenon

\* The initial states satisfy the inductive invariant.
LEMMA InitEstablishes == Init => IInv
<1>. SUFFICES ASSUME Init PROVE IInv
  BY Zenon
<1>a. back = <<>>
  BY Zenon DEF Init
<1>0. back = <<>> /\ Len(back) = 0 /\ back \in Seq(Nat)
  BY <1>a
<1>1. TypeOK
  <2>1. pc \in [Threads -> Labels]
    BY Zenon DEF Init, Labels
  <2>2. back \in Seq({back[i] : i \in DOMAIN back})
    BY <1>0, OwnElements
  <2>. QED  BY <2>1, <2>2, Zenon DEF Init, TypeOK
<1>2. ReadMutexHeld
  BY NoThreadAssumption, Zenon DEF Init, ReadMutexHeld, Reading
<1>3. PendingAlone /\ ~StructNext
  BY Zenon DEF Init, PendingAlone, StructNext
<1>. QED  BY <1>0, <1>1, <1>2, <1>3 DEF IInv, Alternating, HeadAgrees

\* generateSeqId preserves the inductive invariant.
LEMMA generateSeqIdPreserves == ASSUME IInv, NEW t \in Threads, NEW m, generateSeqId(t, m) PROVE IInv'
<1>1. UNCHANGED <<back, up, recvPending_, readMutex>>
  BY Zenon DEF generateSeqId, net_vars, sync_vars
<1>2. pc[t] = "idle" /\ \E a \in {"done", "send"} : pc' = [pc EXCEPT ![t] = a]
  BY Zenon DEF generateSeqId, Goto
<1>3. /\ pc' \in [Threads -> Labels] /\ Calm
      /\ pc'[t] \in {"done", "send"} /\ \A u \in Threads : u # t => pc'[u] = pc[u]
  BY <1>2, OneMoves, Zenon DEF Labels
<1>4. SameReader
  BY <1>1, <1>2, <1>3, Zenon DEF SameReader, Reading
<1>. QED  BY <1>1, <1>3, <1>4, QuietStep, Zenon

\* writeMessageBegin preserves the inductive invariant.
LEMMA writeMessageBeginPreserves == ASSUME IInv, NEW t \in Threads, writeMessageBegin(t) PROVE IInv'
<1>1. UNCHANGED <<back, up, recvPending_, readMutex>>
  BY Zenon DEF writeMessageBegin, net_vars, sync_vars
<1>2. pc[t] = "send" /\ \E a \in {"args"} : pc' = [pc EXCEPT ![t] = a]
  BY Zenon DEF writeMessageBegin, Goto
<1>3. /\ pc' \in [Threads -> Labels] /\ Calm
      /\ pc'[t] \in {"args"} /\ \A u \in Threads : u # t => pc'[u] = pc[u]
  BY <1>2, OneMoves, Zenon DEF Labels
<1>4. SameReader
  BY <1>1, <1>2, <1>3, Zenon DEF SameReader, Reading
<1>. QED  BY <1>1, <1>3, <1>4, QuietStep, Zenon

\* waitForWork preserves the inductive invariant.
LEMMA waitForWorkPreserves == ASSUME IInv, NEW t \in Threads, waitForWork(t) PROVE IInv'
<1>1. UNCHANGED <<back, up, recvPending_, readMutex>>
  BY Zenon DEF waitForWork, net_vars, sync_vars
<1>2. pc[t] = "check" /\ \E a \in {"exit", "loop", "sleep"} : pc' = [pc EXCEPT ![t] = a]
  BY Zenon DEF waitForWork, Goto
<1>3. /\ pc' \in [Threads -> Labels] /\ Calm
      /\ pc'[t] \in {"exit", "loop", "sleep"} /\ \A u \in Threads : u # t => pc'[u] = pc[u]
  BY <1>2, OneMoves, Zenon DEF Labels
<1>4. SameReader
  BY <1>1, <1>2, <1>3, Zenon DEF SameReader, Reading
<1>. QED  BY <1>1, <1>3, <1>4, QuietStep, Zenon

\* Return preserves the inductive invariant.
LEMMA ReturnPreserves == ASSUME IInv, NEW t \in Threads, Return(t) PROVE IInv'
<1>1. UNCHANGED <<back, up, recvPending_, readMutex>>
  BY Zenon DEF Return, net_vars, sync_vars
<1>2. pc[t] = "done" /\ \E a \in {"idle"} : pc' = [pc EXCEPT ![t] = a]
  BY Zenon DEF Return, Goto
<1>3. /\ pc' \in [Threads -> Labels] /\ Calm
      /\ pc'[t] \in {"idle"} /\ \A u \in Threads : u # t => pc'[u] = pc[u]
  BY <1>2, OneMoves, Zenon DEF Labels
<1>4. SameReader
  BY <1>1, <1>2, <1>3, Zenon DEF SameReader, Reading
<1>. QED  BY <1>1, <1>3, <1>4, QuietStep, Zenon

\* writeArgs preserves the inductive invariant.
LEMMA writeArgsPreserves == ASSUME IInv, NEW t \in Threads, writeArgs(t) PROVE IInv'
<1>1. UNCHANGED <<back, up, recvPending_, readMutex>> /\ pc[t] = "args"
  BY Zenon DEF writeArgs
<1>2. \/ pc' = [pc EXCEPT ![t] = "lock"]
      \/ pc' = Notify(monitors, [pc EXCEPT ![t] = "done"])
  BY Zenon DEF writeArgs, Goto, markBad_
<1>3. CASE pc' = [pc EXCEPT ![t] = "lock"]
  <2>1. /\ pc' \in [Threads -> Labels] /\ Calm
        /\ pc'[t] = "lock" /\ \A u \in Threads : u # t => pc'[u] = pc[u]
    BY <1>1, <1>3, OneMoves, Zenon DEF Labels
  <2>2. SameReader
    BY <1>1, <2>1, Zenon DEF SameReader, Reading
  <2>. QED  BY <1>1, <2>1, <2>2, QuietStep, Zenon
<1>4. CASE pc' = Notify(monitors, [pc EXCEPT ![t] = "done"])
  <2>1. /\ pc' \in [Threads -> Labels] /\ Calm
        /\ pc'[t] = "done"
        /\ \A u \in Threads : u # t => pc'[u] = pc[u] \/ (pc[u] = "wait" /\ pc'[u] = "woken")
    BY <1>1, <1>4, OneEnds, Zenon
  <2>2. SameReader
    BY <1>1, <2>1, Zenon DEF SameReader, Reading
  <2>. QED  BY <1>1, <2>1, <2>2, QuietStep, Zenon
<1>. QED  BY <1>2, <1>3, <1>4, Zenon

\* lockRead preserves the inductive invariant.
LEMMA lockReadPreserves == ASSUME IInv, NEW t \in Threads, lockRead(t) PROVE IInv'
<1>1. UNCHANGED <<back, up, recvPending_>>
  BY Zenon DEF lockRead, net_vars
<1>2. pc[t] = "lock" /\ pc' = [pc EXCEPT ![t] = "loop"] /\ readMutex' = t /\ readMutex = NoThread
  BY Zenon DEF lockRead, Goto
<1>3. /\ pc' \in [Threads -> Labels] /\ Calm
      /\ pc'[t] = "loop" /\ \A u \in Threads : u # t => pc'[u] = pc[u]
  BY <1>2, OneMoves, Zenon DEF Labels
<1>4. TypeOK'
  BY <1>1, <1>3, Zenon DEF IInv, TypeOK
<1>5. ReadMutexHeld'
  BY <1>2, <1>3, NoThreadAssumption, Zenon DEF IInv, ReadMutexHeld, Reading
<1>. QED  BY <1>1, <1>3, <1>4, <1>5, QuietStream, Zenon DEF IInv

\* wakeUp preserves the inductive invariant.
LEMMA wakeUpPreserves == ASSUME IInv, NEW t \in Threads, wakeUp(t) PROVE IInv'
<1>1. UNCHANGED <<back, up, recvPending_>>
  BY Zenon DEF wakeUp, net_vars
<1>2. pc[t] = "woken" /\ pc' = [pc EXCEPT ![t] = "check"] /\ readMutex' = t /\ readMutex = NoThread
  BY Zenon DEF wakeUp, Goto
<1>3. /\ pc' \in [Threads -> Labels] /\ Calm
      /\ pc'[t] = "check" /\ \A u \in Threads : u # t => pc'[u] = pc[u]
  BY <1>2, OneMoves, Zenon DEF Labels
<1>4. TypeOK'
  BY <1>1, <1>3, Zenon DEF IInv, TypeOK
<1>5. ReadMutexHeld'
  BY <1>2, <1>3, NoThreadAssumption, Zenon DEF IInv, ReadMutexHeld, Reading
<1>. QED  BY <1>1, <1>3, <1>4, <1>5, QuietStream, Zenon DEF IInv

\* waitForever preserves the inductive invariant.
LEMMA waitForeverPreserves == ASSUME IInv, NEW t \in Threads, waitForever(t) PROVE IInv'
<1>1. UNCHANGED <<back, up, recvPending_>>
  BY Zenon DEF waitForever, net_vars
<1>2. pc[t] = "sleep" /\ pc' = [pc EXCEPT ![t] = "wait"] /\ readMutex' = NoThread
  BY Zenon DEF waitForever, Goto
<1>3. /\ pc' \in [Threads -> Labels] /\ Calm
      /\ pc'[t] = "wait" /\ \A u \in Threads : u # t => pc'[u] = pc[u]
  BY <1>2, OneMoves, Zenon DEF Labels
<1>4. TypeOK'
  BY <1>1, <1>3, Zenon DEF IInv, TypeOK
<1>5. ReadMutexHeld'
  BY <1>2, <1>3, NoThreadAssumption, Zenon DEF IInv, ReadMutexHeld, Reading
<1>. QED  BY <1>1, <1>3, <1>4, <1>5, QuietStream, Zenon DEF IInv

\* recvSentryEnds preserves the inductive invariant.
LEMMA recvSentryEndsPreserves == ASSUME IInv, NEW t \in Threads, recvSentryEnds(t) PROVE IInv'
<1>1. UNCHANGED <<back, up, recvPending_>> /\ pc[t] = "exit" /\ readMutex' = NoThread
  BY Zenon DEF recvSentryEnds, net_vars
<1>2. \E S : pc' = Notify(S, [pc EXCEPT ![t] = "done"])
  BY Zenon DEF recvSentryEnds, wakeupAnyone_, markBad_
<1>3. /\ pc' \in [Threads -> Labels] /\ Calm
      /\ pc'[t] = "done"
      /\ \A u \in Threads : u # t => pc'[u] = pc[u] \/ (pc[u] = "wait" /\ pc'[u] = "woken")
  BY <1>1, <1>2, OneEnds, Zenon
<1>4. TypeOK'
  BY <1>1, <1>3, Zenon DEF IInv, TypeOK
<1>5. ReadMutexHeld'
  BY <1>1, <1>3, NoThreadAssumption, Zenon DEF IInv, ReadMutexHeld, Reading
<1>. QED  BY <1>1, <1>3, <1>4, <1>5, QuietStream, Zenon DEF IInv

\* The thread at work is the only one that holds the read mutex.
LEMMA OnlyReader ==
  ASSUME IInv, NEW t \in Threads, pc[t] \in Reading
  PROVE  \A u \in Threads : u # t => pc[u] \notin Reading
BY Zenon DEF IInv, ReadMutexHeld

\* getPending preserves the inductive invariant.
LEMMA getPendingPreserves == ASSUME IInv, NEW t \in Threads, getPending(t) PROVE IInv'
<1>1. UNCHANGED <<back, up, readMutex>> /\ pc[t] = "loop"
  BY Zenon DEF getPending, net_vars
<1>2. \A u \in Threads : u # t => pc[u] \notin Reading
  BY <1>1, OnlyReader, Zenon DEF Reading
<1>3. CASE stop_
  <2>1. pc' = [pc EXCEPT ![t] = "exit"] /\ recvPending_' = recvPending_
    BY <1>3, Zenon DEF getPending, Goto
  <2>2. /\ pc' \in [Threads -> Labels] /\ Calm
        /\ pc'[t] = "exit" /\ \A u \in Threads : u # t => pc'[u] = pc[u]
    BY <1>1, <2>1, OneMoves, Zenon DEF Labels
  <2>3. SameReader
    BY <1>1, <2>2, Zenon DEF SameReader, Reading
  <2>. QED  BY <1>1, <2>1, <2>2, <2>3, QuietStep, Zenon
<1>4. CASE ~stop_ /\ recvPending_
  <2>1. /\ recvPending_' = FALSE
        /\ pc' = [pc EXCEPT ![t] = "mine"] \/ pc' = [pc EXCEPT ![t] = "other"]
    BY <1>4, Zenon DEF getPending, Goto, Mine
  <2>2. /\ pc' \in [Threads -> Labels] /\ pc'[t] \in {"mine", "other"}
        /\ \A u \in Threads : u # t => pc'[u] = pc[u]
    BY <2>1, Zenon DEF IInv, TypeOK, Labels
  <2>3. StructNext /\ StructNext'
    BY <1>4, <2>2, Zenon DEF StructNext
  <2>4. TypeOK'
    BY <1>1, <2>1, <2>2, Zenon DEF IInv, TypeOK
  <2>5. ReadMutexHeld'
    BY <1>1, <2>2, Zenon DEF IInv, ReadMutexHeld, Reading
  <2>6. PendingAlone'
    BY <2>1, Zenon DEF PendingAlone
  <2>7. Alternating' /\ HeadAgrees'
    BY <1>1, <2>3, Zenon DEF IInv, Alternating, HeadAgrees
  <2>. QED  BY <2>4, <2>5, <2>6, <2>7, Zenon DEF IInv
<1>5. CASE ~stop_ /\ ~recvPending_
  <2>1. recvPending_' = FALSE /\ pc' = [pc EXCEPT ![t] = "read"]
    BY <1>5, Zenon DEF getPending, Goto
  <2>2. /\ pc' \in [Threads -> Labels] /\ pc'[t] = "read"
        /\ \A u \in Threads : u # t => pc'[u] = pc[u]
    BY <2>1, Zenon DEF IInv, TypeOK, Labels
  <2>3. StructNext' <=> StructNext
    BY <1>1, <1>5, <2>1, <2>2, Zenon DEF StructNext
  <2>4. TypeOK'
    BY <1>1, <2>1, <2>2, Zenon DEF IInv, TypeOK
  <2>5. ReadMutexHeld'
    BY <1>1, <2>2, Zenon DEF IInv, ReadMutexHeld, Reading
  <2>6. PendingAlone'
    BY <2>1, Zenon DEF PendingAlone
  <2>7. Alternating' /\ HeadAgrees'
    BY <1>1, <2>3, Zenon DEF IInv, Alternating, HeadAgrees
  <2>. QED  BY <2>4, <2>5, <2>6, <2>7, Zenon DEF IInv
<1>. QED  BY <1>3, <1>4, <1>5, Zenon

\* The connection is lost and nothing is left: whatever was expected, nothing follows.
LEMMA ReadLostPreserves == ASSUME IInv, NEW t \in Threads, ReadLost(t) PROVE IInv'
<1>1. /\ UNCHANGED <<back, up, recvPending_, readMutex>> /\ ~up /\ back = <<>>
      /\ pc[t] \in {"read", "mine"} /\ pc' = [pc EXCEPT ![t] = "exit"]
  BY Zenon DEF ReadLost, Goto, net_vars, sync_vars
<1>2. /\ pc' \in [Threads -> Labels] /\ pc'[t] = "exit"
      /\ \A u \in Threads : u # t => pc'[u] = pc[u]
  BY <1>1, Zenon DEF IInv, TypeOK, Labels
<1>3. TypeOK'
  BY <1>1, <1>2, Zenon DEF IInv, TypeOK
<1>4. ReadMutexHeld'
  BY <1>1, <1>2, Zenon DEF IInv, ReadMutexHeld, Reading
<1>5. PendingAlone'
  BY <1>1, <1>2, Zenon DEF IInv, PendingAlone
<1>6. Alternating' /\ HeadAgrees'
  BY <1>1, Zenon DEF IInv, Alternating, HeadAgrees
<1>. QED  BY <1>3, <1>4, <1>5, <1>6, Zenon DEF IInv

\* What is left of the stream when its first item has been read.
LEMMA TailOfStream ==
  ASSUME IInv, back # <<>>, back' = Tail(back)
  PROVE  /\ back' \in Seq({back'[i] : i \in DOMAIN back'})
         /\ Len(back) \in Nat \ {0} /\ Len(back') = Len(back) - 1
         /\ \A i \in 1..Len(back') : back'[i] = back[i + 1]
         /\ back' = <<>> <=> Len(back) = 1
<1>. DEFINE S == {back[i] : i \in DOMAIN back}
<1>1. back \in Seq(S)
  BY Zenon DEF IInv, TypeOK
<1>2. back' \in Seq(S) /\ Len(back) \in Nat \ {0} /\ Len(back') = Len(back) - 1
  BY <1>1
<1>3. \A i \in 1..Len(back') : back'[i] = back[i + 1]
  BY <1>1, <1>2
<1>4. back' \in Seq({back'[i] : i \in DOMAIN back'})
  <2>. HIDE DEF S
  <2>1. back' \in Seq(S)
    BY <1>2, Zenon
  <2>. QED  BY ONLY <2>1, OwnElements, Zenon
<1>. QED  BY <1>2, <1>3, <1>4, SMTT(30)

\* Headers and structures still alternate behind the item that was read.
LEMMA TailAlternates ==
  ASSUME IInv, back # <<>>, back' = Tail(back), up' = up
  PROVE  /\ \A i \in 1..Len(back') : back'[i].item \in {"begin", "struct"}
         /\ \A i \in 1..Len(back') - 1 : back'[i].item # back'[i + 1].item
         /\ up' /\ back' # <<>> => back'[Len(back')].item = "struct"
         /\ back' # <<>> => back'[1].item \in {"begin", "struct"} /\ back'[1].item # back[1].item
         /\ up' /\ back' = <<>> => back[1].item = "struct"
<1>1. /\ Len(back) \in Nat \ {0} /\ Len(back') = Len(back) - 1
      /\ \A i \in 1..Len(back') : back'[i] = back[i + 1]
      /\ back' = <<>> <=> Len(back) = 1
  BY TailOfStream, Zenon
<1>2. Alternating
  BY Zenon DEF IInv
<1>3. \A i \in 1..Len(back') : back'[i].item \in {"begin", "struct"}
  BY <1>1, <1>2 DEF Alternating
<1>4. \A i \in 1..Len(back') - 1 : back'[i].item # back'[i + 1].item
  BY <1>1, <1>2 DEF Alternating
<1>5. up' /\ back' # <<>> => back'[Len(back')].item = "struct"
  BY <1>1, <1>2 DEF Alternating
<1>6. back' # <<>> => back'[1].item \in {"begin", "struct"} /\ back'[1].item # back[1].item
  BY <1>1, <1>2 DEF Alternating
<1>7. up' /\ back' = <<>> => back[1].item = "struct"
  BY <1>1, <1>2, Zenon DEF Alternating
<1>. QED  BY <1>3, <1>4, <1>5, <1>6, <1>7, Zenon

\* readMessageBegin preserves the inductive invariant.
LEMMA readMessageBeginPreserves == ASSUME IInv, NEW t \in Threads, readMessageBegin(t) PROVE IInv'
<1>1. /\ UNCHANGED <<up, recvPending_, readMutex>> /\ pc[t] = "read"
      /\ back # <<>> /\ Head(back).item = "begin" /\ back' = Tail(back)
      /\ pc' = [pc EXCEPT ![t] = "mine"] \/ pc' = [pc EXCEPT ![t] = "other"]
  BY Zenon DEF readMessageBegin, Goto, Mine, sync_vars
<1>2. /\ pc' \in [Threads -> Labels] /\ pc'[t] \in {"mine", "other"}
      /\ \A u \in Threads : u # t => pc'[u] = pc[u]
  BY <1>1, Zenon DEF IInv, TypeOK, Labels
<1>3. StructNext' /\ back[1].item = "begin"
  BY <1>1, <1>2 DEF StructNext, IInv, TypeOK
<1>4. TypeOK'
  BY <1>1, <1>2, TailOfStream, Zenon DEF IInv, TypeOK
<1>5. ReadMutexHeld'
  BY <1>1, <1>2, Zenon DEF IInv, ReadMutexHeld, Reading
<1>6. PendingAlone'
  BY <1>1, Zenon DEF IInv, PendingAlone
<1>7. Alternating' /\ HeadAgrees'
  BY <1>1, <1>3, TailAlternates, Zenon DEF Alternating, HeadAgrees
<1>. QED  BY <1>4, <1>5, <1>6, <1>7, Zenon DEF IInv

\* readResult preserves the inductive invariant.
LEMMA readResultPreserves == ASSUME IInv, NEW t \in Threads, readResult(t) PROVE IInv'
<1>1. /\ UNCHANGED <<up, recvPending_, readMutex>> /\ pc[t] = "mine"
      /\ back # <<>> /\ Head(back).item = "struct" /\ back' = Tail(back)
      /\ pc' = [pc EXCEPT ![t] = "exit"]
  BY Zenon DEF readResult, Goto, sync_vars
<1>2. /\ pc' \in [Threads -> Labels] /\ pc'[t] = "exit"
      /\ \A u \in Threads : u # t => pc'[u] = pc[u]
  BY <1>1, Zenon DEF IInv, TypeOK, Labels
<1>3. \A u \in Threads : u # t => pc[u] \notin Reading
  BY <1>1, OnlyReader, Zenon DEF Reading
<1>4. ~StructNext' /\ back[1].item = "struct"
  BY <1>1, <1>2, <1>3 DEF StructNext, Reading, IInv, TypeOK, PendingAlone
<1>5. TypeOK'
  BY <1>1, <1>2, TailOfStream, Zenon DEF IInv, TypeOK
<1>6. ReadMutexHeld'
  BY <1>1, <1>2, Zenon DEF IInv, ReadMutexHeld, Reading
<1>7. PendingAlone'
  BY <1>1, Zenon DEF IInv, PendingAlone
<1>8. Alternating' /\ HeadAgrees'
  BY <1>1, <1>4, TailAlternates, Zenon DEF Alternating, HeadAgrees
<1>. QED  BY <1>5, <1>6, <1>7, <1>8, Zenon DEF IInv

\* updatePending preserves the inductive invariant.
LEMMA updatePendingPreserves == ASSUME IInv, NEW t \in Threads, updatePending(t) PROVE IInv'
<1>1. UNCHANGED <<back, up, readMutex>> /\ pc[t] = "other" /\ recvPending_' = TRUE
  BY Zenon DEF updatePending, net_vars
<1>2. \A u \in Threads : u # t => pc[u] \notin Reading
  BY <1>1, OnlyReader, Zenon DEF Reading
<1>3. \/ pc' = [pc EXCEPT ![t] = "exit"]
      \/ pc' = Notify({header[t].seqid}, [pc EXCEPT ![t] = "check"])
  BY Zenon DEF updatePending, Goto
<1>4. /\ pc' \in [Threads -> Labels] /\ pc'[t] \in {"exit", "check"}
      /\ \A u \in Threads : u # t => pc'[u] = pc[u] \/ (pc[u] = "wait" /\ pc'[u] = "woken")
  BY <1>3, Zenon DEF Notify, IInv, TypeOK, Labels
<1>5. StructNext /\ StructNext'
  BY <1>1, Zenon DEF StructNext
<1>6. TypeOK'
  BY <1>1, <1>4, Zenon DEF IInv, TypeOK
<1>7. ReadMutexHeld'
  BY <1>1, <1>4, Zenon DEF IInv, ReadMutexHeld, Reading
<1>8. PendingAlone'
  BY <1>2, <1>4, Zenon DEF PendingAlone, Reading
<1>9. Alternating' /\ HeadAgrees'
  BY <1>1, <1>5, Zenon DEF IInv, Alternating, HeadAgrees
<1>. QED  BY <1>6, <1>7, <1>8, <1>9, Zenon DEF IInv

\* ServerReads preserves the inductive invariant.
LEMMA ServerReadsPreserves == ASSUME IInv, ServerReads PROVE IInv'
<1>1. UNCHANGED <<back, up, recvPending_, readMutex, pc>>
  BY Zenon DEF ServerReads, client_vars, sync_vars
<1>. QED  BY <1>1, QuietStep, Zenon DEF IInv, TypeOK, Calm, SameReader

\* A reply is a header and a structure, behind whole replies.
LEMMA ServerRepliesPreserves == ASSUME IInv, NEW r, NEW k, ServerReplies(r, k) PROVE IInv'
<1>1. UNCHANGED <<up, recvPending_, readMutex, pc>> /\ up
  BY Zenon DEF ServerReplies, client_vars, sync_vars
<1>2. PICK a, b : back' = back \o <<a, b>> /\ a.item = "begin" /\ b.item = "struct"
  <2>. DEFINE type == IF k = "other" THEN "exception" ELSE "reply"
              set == CASE k = "return" -> IF Interface[r.fname].returns THEN {"success"} ELSE {}
                       [] k = "io" -> {"io"}
                       [] OTHER -> {}
              h == [seqid |-> r.seqid, fname |-> r.fname, mtype |-> type]
              x == [item |-> "begin", seqid |-> h.seqid, fname |-> h.fname, mtype |-> type]
              y == [item |-> "struct", set |-> set, kind |-> k, of |-> h]
  <2>1. back' = back \o <<x, y>>
    BY Zenon DEF ServerReplies
  <2>2. x.item = "begin" /\ y.item = "struct"
    <3>. HIDE DEF type, set, h
    <3>. QED  BY Zenon
  <2>. HIDE DEF x, y
  <2>. QED  BY <2>1, <2>2, Zenon
<1>. DEFINE S == {back[i] : i \in DOMAIN back} \cup {a, b}
<1>3. back \in Seq({back[i] : i \in DOMAIN back}) /\ Len(back) \in Nat
  BY DEF IInv, TypeOK
<1>4. back \in Seq(S)
  BY <1>3
<1>5. <<a, b>> \in Seq(S) /\ Len(<<a, b>>) = 2
  OBVIOUS
<1>6. /\ back' \in Seq(S) /\ Len(back') = Len(back) + 2
      /\ \A i \in 1..Len(back) : back'[i] = back[i]
      /\ back'[Len(back) + 1] = a /\ back'[Len(back) + 2] = b
  <2>. HIDE DEF S
  <2>. QED  BY <1>2, <1>3, <1>4, <1>5
<1>7. back' \in Seq({back'[i] : i \in DOMAIN back'})
  <2>. HIDE DEF S
  <2>. QED  BY <1>6, OwnElements, Zenon
<1>8. TypeOK'
  BY <1>1, <1>7, Zenon DEF IInv, TypeOK
<1>9. ReadMutexHeld' /\ PendingAlone' /\ (StructNext' <=> StructNext)
  BY <1>1, Zenon DEF IInv, ReadMutexHeld, PendingAlone, StructNext
<1>10. back = <<>> <=> Len(back) = 0
  BY <1>3
<1>11. back' # <<>>
  BY <1>3, <1>6
<1>12. \A i \in 1..Len(back') : back'[i].item \in {"begin", "struct"}
  <2>1. \A i \in 1..Len(back') : i \in 1..Len(back) \/ i = Len(back) + 1 \/ i = Len(back) + 2
    BY <1>3, <1>6
  <2>. QED  BY <1>2, <1>6, <2>1, Zenon DEF IInv, Alternating
<1>13. \A i \in 1..Len(back') - 1 : back'[i].item # back'[i + 1].item
  <2>. SUFFICES ASSUME NEW i \in 1..Len(back') - 1 PROVE back'[i].item # back'[i + 1].item
    BY Zenon
  <2>1. CASE i \in 1..Len(back) - 1
    <3>1. i \in 1..Len(back) /\ i + 1 \in 1..Len(back)
      BY <1>3, <2>1
    <3>2. back'[i] = back[i] /\ back'[i + 1] = back[i + 1]
      BY <1>6, <3>1, Zenon
    <3>. QED  BY <2>1, <3>2, Zenon DEF IInv, Alternating
  <2>2. CASE i = Len(back)
    BY <1>1, <1>2, <1>3, <1>6, <1>10, <2>2 DEF IInv, Alternating
  <2>3. CASE i = Len(back) + 1
    BY <1>2, <1>3, <1>6, <2>3
  <2>. QED  BY <1>3, <1>6, <2>1, <2>2, <2>3
<1>14. Alternating'
  BY <1>2, <1>6, <1>11, <1>12, <1>13, Zenon DEF Alternating
<1>15. HeadAgrees'
  <2>1. CASE back = <<>>
    BY <1>1, <1>2, <1>6, <1>9, <1>10, <2>1 DEF IInv, Alternating, HeadAgrees
  <2>2. CASE back # <<>>
    BY <1>3, <1>6, <1>9, <1>10, <2>2 DEF IInv, HeadAgrees
  <2>. QED  BY <2>1, <2>2, Zenon
<1>. QED  BY <1>8, <1>9, <1>14, <1>15, Zenon DEF IInv

\* Lose preserves the inductive invariant.
LEMMA LosePreserves == ASSUME IInv, Lose PROVE IInv'
<1>1. UNCHANGED <<recvPending_, readMutex, pc>> /\ up' = FALSE
  BY Zenon DEF Lose, client_vars, sync_vars
<1>. DEFINE S == {back[i] : i \in DOMAIN back}
<1>2. back \in Seq(S) /\ Len(back) \in Nat
  BY DEF IInv, TypeOK
<1>3. PICK n \in 0..Len(back) : back' = SubSeq(back, 1, n)
  BY Zenon DEF Lose
<1>4. /\ back' \in Seq(S) /\ Len(back') = n
      /\ \A i \in 1..n : back'[i] = back[i]
  <2>. HIDE DEF S
  <2>. QED  BY <1>2, <1>3
<1>5. back' \in Seq({back'[i] : i \in DOMAIN back'})
  <2>1. back' \in Seq(S)
    BY <1>4, Zenon
  <2>. HIDE DEF S
  <2>. QED  BY ONLY <2>1, OwnElements, Zenon
<1>6. TypeOK'
  BY <1>1, <1>5, Zenon DEF IInv, TypeOK
<1>7. ReadMutexHeld' /\ PendingAlone' /\ (StructNext' <=> StructNext)
  BY <1>1, Zenon DEF IInv, ReadMutexHeld, PendingAlone, StructNext
<1>8. back' # <<>> => n \in 1..Len(back) /\ back # <<>>
  BY <1>2, <1>3, <1>4
<1>9. Alternating'
  <2>1. \A i \in 1..Len(back') : back'[i].item \in {"begin", "struct"}
    BY <1>2, <1>4, SMTT(30) DEF IInv, Alternating
  <2>2. ASSUME NEW i \in 1..Len(back') - 1 PROVE back'[i].item # back'[i + 1].item
    <3>1. i \in 1..n /\ i + 1 \in 1..n /\ i \in 1..Len(back) - 1
      BY <1>2, <1>4
    <3>2. back'[i] = back[i] /\ back'[i + 1] = back[i + 1]
      BY <1>4, <3>1, Zenon
    <3>. QED  BY <3>1, <3>2, Zenon DEF IInv, Alternating
  <2>. QED  BY <1>1, <2>1, <2>2, Zenon DEF Alternating
<1>10. HeadAgrees'
  BY <1>4, <1>7, <1>8 DEF IInv, HeadAgrees
<1>. QED  BY <1>6, <1>7, <1>9, <1>10, Zenon DEF IInv

\* So does a step that changes nothing.
LEMMA StutterPreserves == ASSUME IInv, UNCHANGED vars PROVE IInv'
<1>1. UNCHANGED <<back, up, recvPending_, readMutex, pc>>
  BY Zenon DEF vars, client_vars, sync_vars, net_vars
<1>. QED  BY <1>1, QuietStep, Zenon DEF IInv, TypeOK, Calm, SameReader

\* IInv holds in every reachable state.
LEMMA Invariance == Spec => []IInv
<1>1. IInv /\ [Next]_vars => IInv'
  <2>. SUFFICES ASSUME IInv, [Next]_vars PROVE IInv'
    BY Zenon
  <2>1. ASSUME NEW t \in Threads, NEW m, generateSeqId(t, m) PROVE IInv'
    BY <2>1, generateSeqIdPreserves, Zenon
  <2>2. ASSUME NEW t \in Threads, Step(t) PROVE IInv'
    BY <2>2, writeMessageBeginPreserves, writeArgsPreserves, lockReadPreserves,
       getPendingPreserves, ReadLostPreserves, readMessageBeginPreserves, readResultPreserves,
       updatePendingPreserves, waitForWorkPreserves, waitForeverPreserves, wakeUpPreserves,
       recvSentryEndsPreserves, ReturnPreserves, Zenon DEF Step
  <2>3. CASE Server
    BY <2>3, ServerReadsPreserves, ServerRepliesPreserves, Zenon DEF Server
  <2>4. CASE Lose
    BY <2>4, LosePreserves, Zenon
  <2>5. CASE UNCHANGED vars
    BY <2>5, StutterPreserves, Zenon
  <2>. QED  BY <2>1, <2>2, <2>3, <2>4, <2>5, Zenon DEF Next
<1>. QED  BY <1>1, InitEstablishes, PTL DEF Spec

\* recv_X: two threads are never both between taking the read mutex and giving it up, so that
\* no two read the stream, whoever is woken by whom.
THEOREM OneReader ==
  Spec => [](\A t, u \in Threads : pc[t] \in Reading /\ pc[u] \in Reading => t = u)
<1>1. IInv => \A t, u \in Threads : pc[t] \in Reading /\ pc[u] \in Reading => t = u
  BY Zenon DEF IInv, ReadMutexHeld
<1>. QED  BY <1>1, Invariance, PTL

\* recv_X, getPending and updatePending: a thread that holds a header finds its structure next
\* in the stream and one that reads a header finds a header, for any number of threads, any
\* order of replies and a connection lost at any point.
THEOREM ReadersAligned == Spec => []StreamAligned
<1>1. IInv => StreamAligned
  <2>. SUFFICES ASSUME IInv, back # <<>>
              PROVE  Head(back).item = "struct" <=> StructNext
    BY Zenon DEF StreamAligned, StructNext
  <2>1. Head(back) = back[1]
    BY DEF IInv, TypeOK
  <2>. QED  BY <2>1, Zenon DEF IInv, HeadAgrees
<1>. QED  BY <1>1, Invariance, PTL
-----------------------------------------------------------------------------
(***************************************************************************)
(* Whose reply it is.  OwnReply is not inductive: that the header a thread *)
(* takes as its own was sent for its own request rests on where every      *)
(* request and reply under way is, and on its number being that of one     *)
(* thread that still waits for it.                                         *)
(*                                                                         *)
(* The numbers roll over, so it also rests on an assumption: a call that   *)
(* begins gets a number that has no monitor (NumberFree).  A thread that   *)
(* waits while 2^32 other calls begin would break it.                      *)
(***************************************************************************)
NumberFree ==
    \A t \in Threads : pc[t] = "idle" /\ pc'[t] = "send" => nextseqid_ \notin monitors

Waiting == {"lock", "loop", "read", "mine", "other", "check", "sleep", "wait", "woken"}
InCall == {"send", "args", "exit"} \cup Waiting
Headed == {"mine", "other"}

Fields ==
    /\ plan \in Plans
    /\ DOMAIN meth = Threads /\ DOMAIN seqid = Threads
    /\ DOMAIN header = Threads /\ DOMAIN got = Threads
    /\ \A t \in Threads : pc[t] \in InCall => meth[t] \in Methods

\* The write mutex is held by the thread that has sent a header without its arguments.
WriteMutexHeld == \A t \in Threads : pc[t] = "args" <=> writeMutex = t

\* Calls under way have monitors, and numbers of their own.
NumbersDiffer ==
    /\ \A t \in Threads : pc[t] \in InCall => seqid[t] \in monitors
    /\ \A t, u \in Threads :
         t # u /\ pc[t] \in InCall /\ pc[u] \in InCall => seqid[t] # seqid[u]

\* A call has no outcome before it ends; a thread takes only its own number as its own.
GotLate == \A t \in Threads : pc[t] \notin {"exit", "done"} => got[t].kind = "none"
MineIsMine == \A t \in Threads : pc[t] = "mine" => header[t].seqid = seqid[t]

CallsInv == Fields /\ WriteMutexHeld /\ NumbersDiffer /\ GotLate /\ MineIsMine

\* The thread that takes a step moves on; others are at most woken.
Others(t) ==
    \A u \in Threads : u # t => pc'[u] = pc[u] \/ (pc[u] = "wait" /\ pc'[u] = "woken")

\* Where each operation of a thread begins and ends.
LEMMA Moves ==
  ASSUME IInv, NEW t \in Threads
  PROVE  /\ Step(t) => Others(t)
         /\ writeMessageBegin(t) => pc[t] = "send" /\ pc'[t] = "args"
         /\ writeArgs(t) => pc[t] = "args" /\ pc'[t] \in {"lock", "done"}
         /\ lockRead(t) => pc[t] = "lock" /\ pc'[t] = "loop"
         /\ getPending(t) => pc[t] = "loop" /\ pc'[t] \in {"exit", "mine", "other", "read"}
         /\ ReadLost(t) => pc[t] \in {"read", "mine"} /\ pc'[t] = "exit"
         /\ readMessageBegin(t) => pc[t] = "read" /\ pc'[t] \in Headed
         /\ readResult(t) => pc[t] = "mine" /\ pc'[t] = "exit"
         /\ updatePending(t) => pc[t] = "other" /\ pc'[t] \in {"check", "exit"}
         /\ waitForWork(t) => pc[t] = "check" /\ pc'[t] \in {"exit", "loop", "sleep"}
         /\ waitForever(t) => pc[t] = "sleep" /\ pc'[t] = "wait"
         /\ wakeUp(t) => pc[t] = "woken" /\ pc'[t] = "check"
         /\ recvSentryEnds(t) => pc[t] = "exit" /\ pc'[t] = "done"
         /\ Return(t) => pc[t] = "done" /\ pc'[t] = "idle"
<1>. DEFINE To(a) == pc' = [pc EXCEPT ![t] = a]
            Ends(a) == \E S : pc' = Notify(S, [pc EXCEPT ![t] = a])
<1>a. ASSUME NEW a, To(a) PROVE Others(t) /\ pc'[t] = a
  BY <1>a, Zenon DEF IInv, TypeOK, Others
<1>b. ASSUME NEW a, a # "wait", Ends(a) PROVE Others(t) /\ pc'[t] = a
  BY <1>b, Zenon DEF IInv, TypeOK, Others, Notify
<1>1. writeMessageBegin(t) => pc[t] = "send" /\ To("args")
  BY Zenon DEF writeMessageBegin, Goto
<1>2. writeArgs(t) => pc[t] = "args" /\ (To("lock") \/ Ends("done"))
  BY Zenon DEF writeArgs, Goto, markBad_
<1>3. lockRead(t) => pc[t] = "lock" /\ To("loop")
  BY Zenon DEF lockRead, Goto
<1>4. getPending(t) => pc[t] = "loop" /\ (To("exit") \/ To("mine") \/ To("other") \/ To("read"))
  BY Zenon DEF getPending, Goto, Mine
<1>5. ReadLost(t) => pc[t] \in {"read", "mine"} /\ To("exit")
  BY Zenon DEF ReadLost, Goto
<1>6. readMessageBegin(t) => pc[t] = "read" /\ (To("mine") \/ To("other"))
  BY Zenon DEF readMessageBegin, Goto, Mine
<1>7. readResult(t) => pc[t] = "mine" /\ To("exit")
  BY Zenon DEF readResult, Goto
<1>8. updatePending(t) => pc[t] = "other" /\ (Ends("check") \/ To("exit"))
  BY Zenon DEF updatePending, Goto
<1>9. waitForWork(t) => pc[t] = "check" /\ (To("exit") \/ To("loop") \/ To("sleep"))
  BY Zenon DEF waitForWork, Goto
<1>10. waitForever(t) => pc[t] = "sleep" /\ To("wait")
  BY Zenon DEF waitForever, Goto
<1>11. wakeUp(t) => pc[t] = "woken" /\ To("check")
  BY Zenon DEF wakeUp, Goto
<1>12. recvSentryEnds(t) => pc[t] = "exit" /\ Ends("done")
  BY Zenon DEF recvSentryEnds, markBad_, wakeupAnyone_
<1>13. Return(t) => pc[t] = "done" /\ To("idle")
  BY Zenon DEF Return, Goto
<1>. HIDE DEF To, Ends
<1>. QED  BY <1>a, <1>b, <1>1, <1>2, <1>3, <1>4, <1>5, <1>6, <1>7, <1>8, <1>9, <1>10, <1>11,
             <1>12, <1>13, Zenon DEF Step, Headed

\* What a step of a thread leaves alone: the fields of the others, and until Return its own
\* method and number; the monitors change when the call ends.
Keeps(t) ==
    /\ plan' = plan
    /\ Return(t) \/ UNCHANGED <<meth, seqid>>
    /\ recvSentryEnds(t) \/ monitors' = monitors
    /\ got' = got \/ \E x : got' = [got EXCEPT ![t] = x]
    /\ header' = header \/ \E x : header' = [header EXCEPT ![t] = x]

\* Every step of a thread leaves that alone.
LEMMA StepKeeps == ASSUME NEW t \in Threads, Step(t) PROVE Keeps(t)
<1>1. writeMessageBegin(t) => Keeps(t)
  BY Zenon DEF Keeps, writeMessageBegin, Got, work_vars, sync_vars
<1>2. writeArgs(t) => Keeps(t)
  BY Zenon DEF Keeps, writeArgs, Got, work_vars, sync_vars
<1>3. lockRead(t) => Keeps(t)
  BY Zenon DEF Keeps, lockRead, Got, work_vars, sync_vars
<1>4. getPending(t) => Keeps(t)
  BY Zenon DEF Keeps, getPending, Got, work_vars, sync_vars
<1>5. ReadLost(t) => Keeps(t)
  BY Zenon DEF Keeps, ReadLost, Got, work_vars, sync_vars
<1>6. readMessageBegin(t) => Keeps(t)
  BY Zenon DEF Keeps, readMessageBegin, Got, work_vars, sync_vars
<1>7. readResult(t) => Keeps(t)
  BY Zenon DEF Keeps, readResult, Got, work_vars, sync_vars
<1>8. updatePending(t) => Keeps(t)
  BY Zenon DEF Keeps, updatePending, Got, work_vars, sync_vars
<1>9. waitForWork(t) => Keeps(t)
  BY Zenon DEF Keeps, waitForWork, Got, work_vars, sync_vars
<1>10. waitForever(t) => Keeps(t)
  BY Zenon DEF Keeps, waitForever, Got, work_vars, sync_vars
<1>11. wakeUp(t) => Keeps(t)
  BY Zenon DEF Keeps, wakeUp, Got, work_vars, sync_vars
<1>12. recvSentryEnds(t) => Keeps(t)
  BY Zenon DEF Keeps, recvSentryEnds, Got, work_vars, sync_vars
<1>13. Return(t) => Keeps(t)
  BY Zenon DEF Keeps, Return, Got, work_vars, sync_vars
<1>. QED  BY <1>1, <1>2, <1>3, <1>4, <1>5, <1>6, <1>7, <1>8, <1>9, <1>10, <1>11, <1>12, <1>13, Zenon DEF Step

\* A call that begins.
LEMMA generateSeqIdCalls ==
  ASSUME IInv, CallsInv, NEW t \in Threads, NEW m \in plan.methods[t], generateSeqId(t, m), NumberFree
  PROVE  CallsInv'
<1>1. /\ pc[t] = "idle" /\ meth' = [meth EXCEPT ![t] = m]
      /\ UNCHANGED <<header, writeMutex, plan>>
  BY Zenon DEF generateSeqId
<1>2. \/ /\ pc' = [pc EXCEPT ![t] = "done"] /\ got' = [got EXCEPT ![t] = [kind |-> "dead", of |-> None]]
         /\ UNCHANGED <<seqid, monitors>>
      \/ /\ pc' = [pc EXCEPT ![t] = "send"] /\ got' = got
         /\ seqid' = [seqid EXCEPT ![t] = nextseqid_] /\ monitors' = monitors \cup {nextseqid_}
  BY Zenon DEF generateSeqId, Goto, Got
<1>3. /\ pc'[t] \in {"done", "send"} /\ \A u \in Threads : u # t => pc'[u] = pc[u]
      /\ pc' \in [Threads -> Labels]
  BY <1>2, Zenon DEF IInv, TypeOK, Labels
<1>4. m \in Methods
  BY PlansAssumption, Zenon DEF CallsInv, Fields
<1>5. Fields'
  BY <1>1, <1>2, <1>3, <1>4, Zenon DEF CallsInv, Fields, InCall, Waiting
<1>6. WriteMutexHeld'
  BY <1>1, <1>3, Zenon DEF CallsInv, WriteMutexHeld
<1>7. NumbersDiffer'
  <2>1. CASE pc'[t] = "done"
    <3>1. seqid' = seqid /\ monitors' = monitors
      BY <1>2, <2>1, Zenon DEF IInv, TypeOK
    <3>2. \A u \in Threads : pc'[u] \in InCall => pc[u] \in InCall
      BY <1>3, <2>1, Zenon DEF InCall, Waiting
    <3>. QED  BY <3>1, <3>2, Zenon DEF CallsInv, NumbersDiffer
  <2>2. CASE pc'[t] = "send"
    <3>1. seqid' = [seqid EXCEPT ![t] = nextseqid_] /\ monitors' = monitors \cup {nextseqid_}
      BY <1>2, <2>2, Zenon DEF IInv, TypeOK
    <3>2. nextseqid_ \notin monitors
      BY <1>1, <2>2, Zenon DEF NumberFree
    <3>3. \A u \in Threads : u # t /\ pc'[u] \in InCall => pc[u] \in InCall
      BY <1>3, Zenon
    <3>4. seqid'[t] = nextseqid_ /\ \A u \in Threads : u # t => seqid'[u] = seqid[u]
      BY <3>1, Zenon DEF CallsInv, Fields
    <3>. QED  BY <3>1, <3>2, <3>3, <3>4 DEF CallsInv, NumbersDiffer
  <2>. QED  BY <1>3, <2>1, <2>2, Zenon
<1>8. GotLate'
  BY <1>1, <1>2, <1>3, Zenon DEF CallsInv, GotLate, Fields, IInv, TypeOK
<1>9. MineIsMine'
  BY <1>1, <1>2, <1>3, Zenon DEF CallsInv, MineIsMine, Fields
<1>. QED  BY <1>5, <1>6, <1>7, <1>8, <1>9, Zenon DEF CallsInv

\* No step of a thread begins a call, and the write mutex changes hands in send_X only.
LEMMA StepCalls == ASSUME IInv, CallsInv, NEW t \in Threads, Step(t) PROVE Fields' /\ WriteMutexHeld'
<1>1. Others(t) /\ pc[t] # "idle"
  BY Moves, Zenon DEF Step, Headed
<1>2. pc'[t] \in InCall => pc[t] \in InCall
  BY Moves, Zenon DEF Step, InCall, Waiting, Headed
<1>3. \A u \in Threads : pc'[u] \in InCall => pc[u] \in InCall
  BY <1>1, <1>2, Zenon DEF Others, InCall, Waiting
<1>4. plan' = plan /\ DOMAIN got' = Threads /\ DOMAIN header' = Threads
  BY StepKeeps, Zenon DEF Keeps, CallsInv, Fields
<1>5. Fields'
  <2>1. CASE Return(t)
    <3>1. /\ meth' = [meth EXCEPT ![t] = ""] /\ DOMAIN seqid' = Threads /\ pc'[t] = "idle"
      BY <2>1, Moves, Zenon DEF Return, CallsInv, Fields
    <3>. QED  BY <1>3, <1>4, <3>1, Zenon DEF CallsInv, Fields, InCall, Waiting
  <2>2. CASE ~Return(t)
    <3>1. UNCHANGED <<meth, seqid>>
      BY <2>2, StepKeeps, Zenon DEF Keeps
    <3>. QED  BY <1>3, <1>4, <3>1, Zenon DEF CallsInv, Fields
  <2>. QED  BY <2>1, <2>2, Zenon
<1>6. WriteMutexHeld'
  <2>1. CASE writeMessageBegin(t)
    <3>1. writeMutex = NoThread /\ writeMutex' = t /\ pc'[t] = "args"
      BY <2>1, Moves, Zenon DEF writeMessageBegin
    <3>. QED  BY <1>1, <3>1, NoThreadAssumption, Zenon DEF Others, CallsInv, WriteMutexHeld
  <2>2. CASE writeArgs(t)
    <3>1. writeMutex' = NoThread /\ pc[t] = "args" /\ pc'[t] # "args"
      BY <2>2, Moves, Zenon DEF writeArgs
    <3>. QED  BY <1>1, <3>1, NoThreadAssumption, Zenon DEF Others, CallsInv, WriteMutexHeld
  <2>3. CASE ~writeMessageBegin(t) /\ ~writeArgs(t)
    <3>1. writeMutex' = writeMutex
      BY <2>3, Zenon DEF Step, lockRead, getPending, ReadLost, readMessageBegin, readResult, updatePending,
         waitForWork, waitForever, wakeUp, recvSentryEnds, Return, sync_vars
    <3>2. pc[t] # "args" /\ pc'[t] # "args"
      BY <2>3, Moves, Zenon DEF Step, Headed
    <3>. QED  BY <1>1, <3>1, <3>2, Zenon DEF Others, CallsInv, WriteMutexHeld
  <2>. QED  BY <2>1, <2>2, <2>3, Zenon
<1>. QED  BY <1>5, <1>6, Zenon

\* The numbers of calls under way stay different, and have monitors until the call ends.
LEMMA StepNumbers == ASSUME IInv, CallsInv, NEW t \in Threads, Step(t) PROVE NumbersDiffer'
<1>1. Others(t)
  BY Moves, Zenon
<1>2. pc'[t] \in InCall => pc[t] \in InCall
  BY Moves, Zenon DEF Step, InCall, Waiting, Headed
<1>3. \A u \in Threads : pc'[u] \in InCall => pc[u] \in InCall
  BY <1>1, <1>2, Zenon DEF Others, InCall, Waiting
<1>4. CASE recvSentryEnds(t)
  <2>1. UNCHANGED <<meth, seqid>> /\ monitors' = monitors \ {seqid[t]}
    BY <1>4, Zenon DEF recvSentryEnds
  <2>2. pc[t] \in InCall /\ pc'[t] \notin InCall
    BY <1>4, Moves, Zenon DEF InCall, Waiting
  <2>. QED  BY <1>3, <2>1, <2>2, Zenon DEF CallsInv, NumbersDiffer
<1>5. CASE Return(t)
  <2>1. /\ monitors' = monitors /\ pc'[t] \notin InCall
        /\ \A u \in Threads : u # t => seqid'[u] = seqid[u]
    BY <1>5, Moves, Zenon DEF Return, sync_vars, InCall, Waiting, CallsInv, Fields
  <2>. QED  BY <1>3, <2>1, Zenon DEF CallsInv, NumbersDiffer
<1>6. CASE ~recvSentryEnds(t) /\ ~Return(t)
  <2>1. UNCHANGED <<seqid, monitors>>
    BY <1>6, StepKeeps, Zenon DEF Keeps
  <2>. QED  BY <1>3, <2>1, Zenon DEF CallsInv, NumbersDiffer
<1>. QED  BY <1>4, <1>5, <1>6, Zenon

\* A thread gets an outcome when its call ends; Return forgets it.
LEMMA StepGot == ASSUME IInv, CallsInv, NEW t \in Threads, Step(t) PROVE GotLate'
<1>1. Others(t)
  BY Moves, Zenon
<1>2. \A u \in Threads : u # t => got'[u] = got[u]
  BY StepKeeps, Zenon DEF Keeps, CallsInv, Fields
<1>3. pc'[t] \notin {"exit", "done"} => got'[t].kind = "none"
  <2>1. CASE Return(t)
    <3>1. got'[t] = [kind |-> "none", of |-> None]
      BY <2>1, Zenon DEF Return, Got, CallsInv, Fields
    <3>. QED  BY <3>1
  <2>2. CASE ~Return(t)
    <3>1. pc[t] \notin {"exit", "done"} \/ pc'[t] \in {"exit", "done"}
      BY <2>2, Moves, Zenon DEF Step
    <3>2. writeArgs(t) => got' = got \/ pc'[t] = "done"
      <4>1. SUFFICES ASSUME writeArgs(t), got' # got PROVE pc'[t] = "done"
        BY Zenon
      <4>2. pc' = Notify(monitors, [pc EXCEPT ![t] = "done"])
        BY <4>1, Zenon DEF writeArgs, markBad_
      <4>. QED  BY <4>2, Zenon DEF Notify, IInv, TypeOK
    <3>3. getPending(t) => got' = got \/ pc'[t] = "exit"
      BY Zenon DEF getPending, Goto, IInv, TypeOK
    <3>4. updatePending(t) => got' = got \/ pc'[t] = "exit"
      BY Zenon DEF updatePending, Goto, IInv, TypeOK
    <3>5. waitForWork(t) => got' = got \/ pc'[t] = "exit"
      BY Zenon DEF waitForWork, Goto, IInv, TypeOK
    <3>6. ReadLost(t) \/ readResult(t) \/ recvSentryEnds(t) => pc'[t] \in {"exit", "done"}
      BY Moves, Zenon
    <3>7. writeMessageBegin(t) \/ lockRead(t) \/ readMessageBegin(t) \/ waitForever(t) \/ wakeUp(t) => got' = got
      BY Zenon DEF writeMessageBegin, lockRead, readMessageBegin, waitForever, wakeUp
    <3>8. got' = got \/ pc'[t] \in {"exit", "done"}
      BY <2>2, <3>2, <3>3, <3>4, <3>5, <3>6, <3>7, Zenon DEF Step
    <3>. QED  BY <3>1, <3>8, Zenon DEF CallsInv, GotLate
  <2>. QED  BY <2>1, <2>2, Zenon
<1>. QED  BY <1>1, <1>2, <1>3, Zenon DEF Others, CallsInv, GotLate

\* recv_X goes on to the structure only with a header of the thread's own number.
LEMMA StepMine == ASSUME IInv, CallsInv, NEW t \in Threads, Step(t) PROVE MineIsMine'
<1>1. Others(t)
  BY Moves, Zenon
<1>2. \A u \in Threads : u # t => header'[u] = header[u] /\ seqid'[u] = seqid[u]
  <2>1. \A u \in Threads : u # t => header'[u] = header[u]
    BY StepKeeps, Zenon DEF Keeps, CallsInv, Fields
  <2>2. \A u \in Threads : u # t => seqid'[u] = seqid[u]
    BY StepKeeps, Zenon DEF Keeps, CallsInv, Fields, Return
  <2>. QED  BY <2>1, <2>2, Zenon
<1>3. pc'[t] = "mine" => header'[t].seqid = seqid'[t]
  <2>. SUFFICES ASSUME pc'[t] = "mine" PROVE header'[t].seqid = seqid'[t]
    BY Zenon
  <2>1. getPending(t) \/ readMessageBegin(t)
    BY Moves, Zenon DEF Step
  <2>2. CASE getPending(t)
    <3>1. /\ header' = [header EXCEPT ![t] = pending] /\ Mine(t, pending) = "mine" /\ seqid' = seqid
      BY <2>2, Zenon DEF getPending, Goto, IInv, TypeOK
    <3>. QED  BY <3>1, Zenon DEF Mine, CallsInv, Fields
  <2>3. CASE readMessageBegin(t)
    <3>1. PICK h : header' = [header EXCEPT ![t] = h] /\ pc' = [pc EXCEPT ![t] = Mine(t, h)] /\ seqid' = seqid
      BY <2>3, Zenon DEF readMessageBegin, Goto
    <3>2. Mine(t, h) = "mine"
      BY <3>1, Zenon DEF IInv, TypeOK
    <3>. QED  BY <3>1, <3>2, Zenon DEF Mine, CallsInv, Fields
  <2>. QED  BY <2>1, <2>2, <2>3, Zenon
<1>. QED  BY <1>1, <1>2, <1>3, Zenon DEF Others, CallsInv, MineIsMine

\* Every step keeps what is said of the calls.
LEMMA NextCalls == ASSUME IInv, CallsInv, [Next]_vars, [NumberFree]_vars PROVE CallsInv'
<1>1. ASSUME NEW t \in Threads, NEW m \in plan.methods[t], generateSeqId(t, m) PROVE CallsInv'
  <2>1. pc[t] = "idle" /\ \E a \in {"done", "send"} : pc' = [pc EXCEPT ![t] = a]
    BY <1>1, Zenon DEF generateSeqId, Goto
  <2>2. pc' # pc
    BY <2>1, Zenon DEF IInv, TypeOK
  <2>3. NumberFree
    BY <2>2, Zenon DEF vars, client_vars
  <2>. QED  BY <1>1, <2>3, generateSeqIdCalls, Zenon
<1>2. ASSUME NEW t \in Threads, Step(t) PROVE CallsInv'
  BY <1>2, StepCalls, StepNumbers, StepGot, StepMine, Zenon DEF CallsInv
<1>3. CASE UNCHANGED <<client_vars, writeMutex, monitors, plan>>
  <2>1. UNCHANGED <<pc, meth, seqid, header, got, writeMutex, monitors, plan>>
    BY <1>3, Zenon DEF client_vars
  <2>2. Fields' /\ WriteMutexHeld' /\ NumbersDiffer'
    BY <2>1, Zenon DEF CallsInv, Fields, WriteMutexHeld, NumbersDiffer
  <2>3. GotLate' /\ MineIsMine'
    BY <2>1, Zenon DEF CallsInv, GotLate, MineIsMine
  <2>. QED  BY <2>2, <2>3, Zenon DEF CallsInv
<1>4. Server \/ Lose \/ UNCHANGED vars => UNCHANGED <<client_vars, writeMutex, monitors, plan>>
  BY Zenon DEF Server, ServerReads, ServerReplies, Lose, vars, client_vars, sync_vars, work_vars
<1>. QED  BY <1>1, <1>2, <1>3, <1>4, Zenon DEF Next
-----------------------------------------------------------------------------
(***************************************************************************)
(* Where the requests and replies are.  The operators take the variables   *)
(* as parameters, so that they can be used before and after a step.        *)
(***************************************************************************)
\* Thread u of the places p, numbers q and methods m waits for the reply n of method f; or
\* it has sent the header of that request and not yet its arguments.
Waits(p, q, m, n, f) == \E u \in Threads : p[u] \in Waiting /\ q[u] = n /\ m[u] = f
Sends(p, q, m, n, f) == \E u \in Threads : p[u] = "args" /\ q[u] = n /\ m[u] = f

\* Number n has a header in the stream s; is among the requests R; is the pending header h
\* or one that a thread holds.
InStream(s, n) == \E i \in 1..Len(s) : s[i].item = "begin" /\ s[i].seqid = n
InSet(R, n) == \E r \in R : r.seqid = n
InHand(b, h, p, hd, n) ==
    (b /\ h.seqid = n) \/ \E t \in Threads : p[t] \in Headed /\ hd[t].seqid = n

OnceIn(s) ==
    \A i, j \in 1..Len(s) :
       i # j /\ s[i].item = "begin" /\ s[j].item = "begin" => s[i].seqid # s[j].seqid

\* While the connection is up the requests sent are whole, except for the last one while its
\* sender holds the write mutex.
OutShape ==
    /\ out \in Seq({out[i] : i \in DOMAIN out})
    /\ up =>
         /\ \A i \in 1..Len(out) : out[i].item \in {"begin", "struct"}
         /\ \A i \in 1..Len(out) - 1 : out[i].item # out[i + 1].item
         /\ out # <<>> => out[1].item = "begin"
         /\ (out # <<>> /\ out[Len(out)].item = "begin") <=> writeMutex # NoThread

\* A structure is of the header before it.
Paired ==
    /\ \A i \in 1..Len(back) - 1 :
         back[i].item = "begin" => /\ back[i + 1].of.seqid = back[i].seqid
                                   /\ back[i + 1].of.fname = back[i].fname
    /\ \A i \in 1..Len(back) :
         back[i].item = "struct" => back[i].kind \in {"return", "io", "other", "future"}
    /\ recvPending_ /\ back # <<>> =>
         back[1].of.seqid = pending.seqid /\ back[1].of.fname = pending.fname
    /\ \A t \in Threads : pc[t] \in Headed /\ back # <<>> =>
         back[1].of.seqid = header[t].seqid /\ back[1].of.fname = header[t].fname
    /\ ~up => requests = {}

\* The client is not stopped, or a thread that found it so is still reading.
Live == ~stop_ \/ \E t \in Threads : pc[t] \in {"read", "mine", "other"}

\* A thread waits for every request and reply under way.
OwnedOut(p, q, m, s) ==
    \A i \in 1..Len(s) :
       s[i].item = "begin" =>
          /\ i < Len(s) => Waits(p, q, m, s[i].seqid, s[i].fname)
          /\ i = Len(s) => Sends(p, q, m, s[i].seqid, s[i].fname)
OwnedIn(p, q, m, s) ==
    \A i \in 1..Len(s) : s[i].item = "begin" => Waits(p, q, m, s[i].seqid, s[i].fname)
OwnedHand(p, q, m, b, h, hd) ==
    /\ b => Waits(p, q, m, h.seqid, h.fname)
    /\ \A t \in Threads : p[t] \in Headed => Waits(p, q, m, hd[t].seqid, hd[t].fname)
Owned ==
    /\ up => OwnedOut(pc, seqid, meth, out)
    /\ \A r \in requests : Waits(pc, seqid, meth, r.seqid, r.fname)
    /\ OwnedIn(pc, seqid, meth, back)
    /\ OwnedHand(pc, seqid, meth, recvPending_, pending, header)

\* A number is under way once, in one place.
OnePlace ==
    /\ up => OnceIn(out)
    /\ \A r, s \in requests : r.seqid = s.seqid => r = s
    /\ OnceIn(back)
    /\ up => \A n : InStream(out, n) => /\ ~InSet(requests, n) /\ ~InStream(back, n)
                                        /\ ~InHand(recvPending_, pending, pc, header, n)
    /\ \A n : InSet(requests, n) => ~InStream(back, n) /\ ~InHand(recvPending_, pending, pc, header, n)
    /\ \A n : InStream(back, n) => ~InHand(recvPending_, pending, pc, header, n)

MessagesInv == OutShape /\ Paired /\ (Live => Owned /\ OnePlace)

\* Stream t is s with k items more, or without its first k.
Extended(s, t, k) ==
    Len(s) \in Nat /\ Len(t) = Len(s) + k /\ \A i \in 1..Len(s) : t[i] = s[i]
Dropped(s, t, k) ==
    Len(s) \in Nat /\ k <= Len(s) /\ Len(t) = Len(s) - k /\ \A i \in 1..Len(t) : t[i] = s[i + k]

\* One header is new in a stream that got a header, and perhaps its structure.
LEMMA HeaderAdded ==
  ASSUME NEW s, NEW t, NEW k \in {1, 2}, Extended(s, t, k), t[Len(s) + 1].item = "begin",
         k = 2 => t[Len(s) + 2].item # "begin"
  PROVE  /\ \A n : InStream(t, n) <=> InStream(s, n) \/ n = t[Len(s) + 1].seqid
         /\ OnceIn(s) /\ ~InStream(s, t[Len(s) + 1].seqid) => OnceIn(t)
<1>. DEFINE L == Len(s)
<1>1. L \in Nat /\ Len(t) = L + k /\ \A i \in 1..L : t[i] = s[i]
  BY Zenon DEF Extended
<1>2. \A i \in 1..Len(t) : i \in 1..L \/ i = L + 1 \/ (k = 2 /\ i = L + 2)
  BY <1>1
<1>3. 1..L \subseteq 1..Len(t) /\ L + 1 \in 1..Len(t)
  BY <1>1
<1>. HIDE DEF L
<1>4. \A i \in 1..Len(t) : t[i].item = "begin" => i \in 1..L \/ i = L + 1
  BY <1>2, Zenon DEF L
<1>5. \A n : InStream(t, n) <=> InStream(s, n) \/ n = t[Len(s) + 1].seqid
  BY <1>1, <1>3, <1>4, Zenon DEF InStream, L
<1>6. ASSUME OnceIn(s), ~InStream(s, t[Len(s) + 1].seqid) PROVE OnceIn(t)
  BY <1>1, <1>3, <1>4, <1>6, SMTT(30) DEF OnceIn, InStream, L
<1>. QED  BY <1>5, <1>6, Zenon

\* The last header's structure is no header.
LEMMA StructAdded ==
  ASSUME NEW s, NEW t, Extended(s, t, 1), t[Len(s) + 1].item # "begin"
  PROVE  /\ \A n : InStream(t, n) <=> InStream(s, n)
         /\ OnceIn(s) => OnceIn(t)
<1>1. Len(s) \in Nat /\ Len(t) = Len(s) + 1 /\ \A i \in 1..Len(s) : t[i] = s[i]
  BY Zenon DEF Extended
<1>2. \A i \in 1..Len(t) : i \in 1..Len(s) \/ i = Len(s) + 1
  BY <1>1
<1>3. 1..Len(s) \subseteq 1..Len(t)
  BY <1>1
<1>4. \A i \in 1..Len(t) : t[i].item = "begin" => i \in 1..Len(s)
  BY <1>2, Zenon
<1>. QED  BY <1>1, <1>3, <1>4, Zenon DEF InStream, OnceIn

\* The header that was read has left the stream, perhaps with its structure.
LEMMA HeaderTaken ==
  ASSUME NEW s, NEW t, NEW k \in {1, 2}, Dropped(s, t, k), s[1].item = "begin",
         k = 2 => s[2].item # "begin", OnceIn(s)
  PROVE  /\ \A n : InStream(t, n) <=> InStream(s, n) /\ n # s[1].seqid
         /\ OnceIn(t) /\ InStream(s, s[1].seqid)
<1>1. /\ Len(s) \in Nat /\ k <= Len(s) /\ Len(t) = Len(s) - k
      /\ \A i \in 1..Len(t) : t[i] = s[i + k]
  BY Zenon DEF Dropped
<1>2. \A i \in 1..Len(t) : i + k \in 1..Len(s) /\ i + k # 1
  BY <1>1
<1>3. \A j \in 1..Len(s) : j = 1 \/ (k = 2 /\ j = 2) \/ j - k \in 1..Len(t)
  BY <1>1
<1>4. \A j \in 1..Len(s) : s[j].item = "begin" /\ j # 1 => j - k \in 1..Len(t) /\ t[j - k] = s[j]
  BY <1>1, <1>3, SMTT(30)
<1>5. 1 \in 1..Len(s)
  BY <1>1
<1>6. ASSUME NEW n, InStream(t, n) PROVE InStream(s, n) /\ n # s[1].seqid
  <2>1. PICK i \in 1..Len(t) : t[i].item = "begin" /\ t[i].seqid = n
    BY <1>6, Zenon DEF InStream
  <2>2. i + k \in 1..Len(s) /\ i + k # 1 /\ s[i + k].item = "begin" /\ s[i + k].seqid = n
    BY <1>1, <1>2, <2>1, Zenon
  <2>. QED  BY <1>5, <2>2, Zenon DEF InStream, OnceIn
<1>7. ASSUME NEW n, InStream(s, n), n # s[1].seqid PROVE InStream(t, n)
  <2>1. PICK j \in 1..Len(s) : s[j].item = "begin" /\ s[j].seqid = n
    BY <1>7, Zenon DEF InStream
  <2>. QED  BY <1>4, <1>7, <2>1, Zenon DEF InStream
<1>8. OnceIn(t)
  <2>. SUFFICES ASSUME NEW i \in 1..Len(t), NEW j \in 1..Len(t), i # j,
                      t[i].item = "begin", t[j].item = "begin"
               PROVE  t[i].seqid # t[j].seqid
    BY Zenon DEF OnceIn
  <2>1. i + k \in 1..Len(s) /\ j + k \in 1..Len(s) /\ i + k # j + k
    BY <1>1, <1>2
  <2>2. t[i] = s[i + k] /\ t[j] = s[j + k]
    BY <1>1, Zenon
  <2>. QED  BY <2>1, <2>2, Zenon DEF OnceIn
<1>9. InStream(s, s[1].seqid)
  BY <1>5, Zenon DEF InStream
<1>. QED  BY <1>6, <1>7, <1>8, <1>9, Zenon

\* Reading a structure takes no header.
LEMMA StructTaken ==
  ASSUME NEW s, NEW t, Dropped(s, t, 1), s[1].item # "begin"
  PROVE  /\ \A n : InStream(t, n) <=> InStream(s, n)
         /\ OnceIn(s) => OnceIn(t)
<1>1. /\ Len(s) \in Nat /\ 1 <= Len(s) /\ Len(t) = Len(s) - 1
      /\ \A i \in 1..Len(t) : t[i] = s[i + 1]
  BY Zenon DEF Dropped
<1>2. \A i \in 1..Len(t) : i + 1 \in 1..Len(s)
  BY <1>1
<1>3. \A j \in 1..Len(s) : j = 1 \/ (j - 1 \in 1..Len(t) /\ t[j - 1] = s[j])
  BY <1>1
<1>4. \A n : InStream(t, n) => InStream(s, n)
  BY <1>1, <1>2, Zenon DEF InStream
<1>5. \A n : InStream(s, n) => InStream(t, n)
  BY <1>3, Zenon DEF InStream
<1>6. ASSUME OnceIn(s), NEW i \in 1..Len(t), NEW j \in 1..Len(t), i # j,
             t[i].item = "begin", t[j].item = "begin"
      PROVE  t[i].seqid # t[j].seqid
  <2>1. i + 1 \in 1..Len(s) /\ j + 1 \in 1..Len(s) /\ i + 1 # j + 1
    BY <1>1, <1>2, <1>6
  <2>2. t[i] = s[i + 1] /\ t[j] = s[j + 1]
    BY <1>1, Zenon
  <2>. QED  BY <1>6, <2>1, <2>2, Zenon DEF OnceIn
<1>. QED  BY <1>4, <1>5, <1>6, Zenon DEF OnceIn

\* The client is not started again, and no thread begins to read once it is stopped.
LEMMA LiveBefore == ASSUME IInv, [Next]_vars, Live' PROVE Live
<1>1. ASSUME NEW t \in Threads, NEW m, generateSeqId(t, m) PROVE Live
  <2>1. stop_' = stop_ /\ \E a \in {"done", "send"} : pc' = [pc EXCEPT ![t] = a]
    BY <1>1, Zenon DEF generateSeqId, Goto
  <2>. QED  BY <2>1, Zenon DEF Live, IInv, TypeOK
<1>2. ASSUME NEW t \in Threads, Step(t) PROVE Live
  <2>1. stop_' = stop_ \/ stop_' = TRUE
    <3>1. writeArgs(t) => stop_' = stop_ \/ stop_' = TRUE
      BY Zenon DEF writeArgs, markBad_
    <3>2. recvSentryEnds(t) => stop_' = stop_ \/ stop_' = TRUE
      BY Zenon DEF recvSentryEnds, markBad_, wakeupAnyone_
    <3>3. Step(t) /\ ~writeArgs(t) /\ ~recvSentryEnds(t) => stop_' = stop_
      BY Zenon DEF Step, writeMessageBegin, lockRead, getPending, ReadLost, readMessageBegin, readResult,
         updatePending, waitForWork, waitForever, wakeUp, Return, sync_vars
    <3>. QED  BY <1>2, <3>1, <3>2, <3>3, Zenon
  <2>2. Others(t)
    BY <1>2, Moves, Zenon
  <2>3. stop_ /\ pc'[t] \in {"read", "mine", "other"} => pc[t] \in {"read", "mine", "other"}
    <3>1. getPending(t) /\ stop_ => pc'[t] = "exit"
      BY Zenon DEF getPending, Goto, IInv, TypeOK
    <3>. QED  BY <1>2, <3>1, Moves, Zenon DEF Step
  <2>4. CASE stop_
    <3>1. PICK u \in Threads : pc'[u] \in {"read", "mine", "other"}
      BY <2>1, <2>4, Zenon DEF Live
    <3>. QED  BY <2>2, <2>3, <2>4, <3>1, Zenon DEF Live, Others
  <2>. QED  BY <2>4, Zenon DEF Live
<1>3. Server \/ Lose \/ UNCHANGED vars => UNCHANGED <<pc, stop_>>
  BY Zenon DEF Server, ServerReads, ServerReplies, Lose, vars, client_vars, sync_vars
<1>4. CASE UNCHANGED <<pc, stop_>>
  BY <1>4, Zenon DEF Live
<1>. QED  BY <1>1, <1>2, <1>3, <1>4, Zenon DEF Next

\* The headers that are pending or held stay where they are.
SameHands ==
    /\ UNCHANGED <<recvPending_, pending>>
    /\ \A u \in Threads : /\ pc'[u] \in Headed <=> pc[u] \in Headed
                          /\ pc[u] \in Headed => header'[u] = header[u]

\* Threads that wait go on waiting, for the same reply; a thread that sends goes on.
WaitOn ==
    \A u \in Threads : pc[u] \in Waiting =>
       pc'[u] \in Waiting /\ seqid'[u] = seqid[u] /\ meth'[u] = meth[u]
SendOn ==
    \A u \in Threads : pc[u] = "args" =>
       pc'[u] = "args" /\ seqid'[u] = seqid[u] /\ meth'[u] = meth[u]

\* What is waited for is still waited for.
LEMMA StillWaited ==
  ASSUME WaitOn
  PROVE  \A n, f : Waits(pc, seqid, meth, n, f) => Waits(pc', seqid', meth', n, f)
BY Zenon DEF WaitOn, Waits

\* The last request is still being sent.
LEMMA StillSent ==
  ASSUME SendOn
  PROVE  \A n, f : Sends(pc, seqid, meth, n, f) => Sends(pc', seqid', meth', n, f)
BY Zenon DEF SendOn, Sends

\* Nothing that is said of the headers in hand changes.
LEMMA HandsKept ==
  ASSUME SameHands
  PROVE  /\ \A n : InHand(recvPending_', pending', pc', header', n)
                   <=> InHand(recvPending_, pending, pc, header, n)
         /\ WaitOn /\ OwnedHand(pc, seqid, meth, recvPending_, pending, header)
            => OwnedHand(pc', seqid', meth', recvPending_', pending', header')
<1>1. \A n : InHand(recvPending_', pending', pc', header', n)
             <=> InHand(recvPending_, pending, pc, header, n)
  BY Zenon DEF InHand, SameHands
<1>2. ASSUME WaitOn, OwnedHand(pc, seqid, meth, recvPending_, pending, header)
      PROVE  OwnedHand(pc', seqid', meth', recvPending_', pending', header')
  <2>1. recvPending_' => Waits(pc', seqid', meth', pending'.seqid, pending'.fname)
    BY <1>2, StillWaited, Zenon DEF OwnedHand, SameHands
  <2>2. ASSUME NEW t \in Threads, pc'[t] \in Headed
        PROVE  Waits(pc', seqid', meth', header'[t].seqid, header'[t].fname)
    <3>1. pc[t] \in Headed /\ header'[t] = header[t]
      BY <2>2, Zenon DEF SameHands
    <3>2. Waits(pc, seqid, meth, header[t].seqid, header[t].fname)
      BY <1>2, <3>1, Zenon DEF OwnedHand
    <3>. QED  BY <1>2, <3>1, <3>2, StillWaited, Zenon
  <2>. QED  BY <2>1, <2>2, Zenon DEF OwnedHand
<1>. QED  BY <1>1, <1>2, Zenon

\* The structure next in the stream is still of the header in hand.
LEMMA PairedKept ==
  ASSUME Paired, SameHands, UNCHANGED <<requests, back, up>>
  PROVE  Paired'
<1>1. \A t \in Threads : pc'[t] \in Headed => pc[t] \in Headed /\ header'[t] = header[t]
  BY Zenon DEF SameHands
<1>2. \A t \in Threads : pc'[t] \in Headed /\ back' # <<>> =>
        back'[1].of.seqid = header'[t].seqid /\ back'[1].of.fname = header'[t].fname
  BY <1>1, Zenon DEF Paired
<1>. QED  BY <1>2, Zenon DEF Paired, SameHands

\* The requests and replies stay in their streams, and those who wait go on waiting.
SameStreams ==
    /\ UNCHANGED <<out, requests, back, up>>
    /\ up => writeMutex' = writeMutex /\ SendOn

\* A step that moves nothing but headers from hand to hand.
LEMMA StreamsKept ==
  ASSUME MessagesInv, SameStreams, Paired', Live' => Live, Live' => WaitOn,
         Live' => OwnedHand(pc', seqid', meth', recvPending_', pending', header'),
         Live' => \A n : InHand(recvPending_', pending', pc', header', n)
                         <=> InHand(recvPending_, pending, pc, header, n)
  PROVE  MessagesInv'
<1>1. OutShape'
  BY Zenon DEF MessagesInv, SameStreams, OutShape
<1>. SUFFICES ASSUME Live' PROVE Owned' /\ OnePlace'
  BY <1>1, Zenon DEF MessagesInv
<1>2. Owned /\ OnePlace
  BY Zenon DEF MessagesInv
<1>3. Owned'
  <2>1. up' => OwnedOut(pc', seqid', meth', out')
    BY <1>2, StillWaited, StillSent, Zenon DEF Owned, OwnedOut, SameStreams
  <2>2. \A r \in requests' : Waits(pc', seqid', meth', r.seqid, r.fname)
    BY <1>2, StillWaited, Zenon DEF Owned, SameStreams
  <2>3. OwnedIn(pc', seqid', meth', back')
    BY <1>2, StillWaited, Zenon DEF Owned, OwnedIn, SameStreams
  <2>. QED  BY <2>1, <2>2, <2>3, Zenon DEF Owned
<1>4. OnePlace'
  BY <1>2, Zenon DEF OnePlace, SameStreams
<1>. QED  BY <1>3, <1>4, Zenon

\* A step that moves no message and ends no call.
LEMMA MessagesKept ==
  ASSUME MessagesInv, SameStreams, SameHands, Live' => Live, Live' => WaitOn
  PROVE  MessagesInv'
<1>1. Paired'
  BY PairedKept, Zenon DEF MessagesInv, SameStreams
<1>. QED  BY <1>1, HandsKept, StreamsKept, Zenon DEF MessagesInv, Owned

\* The others' fields do not change, and a thread that waits or sends is still in its call.
LEMMA OthersWait ==
  ASSUME NEW t \in Threads, Others(t),
         \A u \in Threads : u # t => seqid'[u] = seqid[u] /\ meth'[u] = meth[u]
  PROVE  /\ pc[t] \notin Waiting => WaitOn
         /\ pc'[t] \in Waiting /\ seqid'[t] = seqid[t] /\ meth'[t] = meth[t] => WaitOn
         /\ pc[t] # "args" => SendOn
<1>1. \A u \in Threads : u # t /\ pc[u] \in Waiting => pc'[u] \in Waiting
  BY Zenon DEF Others, Waiting
<1>2. \A u \in Threads : u # t /\ pc[u] = "args" => pc'[u] = "args"
  BY Zenon DEF Others
<1>. QED  BY <1>1, <1>2, Zenon DEF WaitOn, SendOn

\* The headers in hand stay when the thread at work neither has nor takes one.
LEMMA OthersHold ==
  ASSUME NEW t \in Threads, Others(t), UNCHANGED <<recvPending_, pending>>,
         pc[t] \notin Headed, pc'[t] \notin Headed,
         \A u \in Threads : u # t => header'[u] = header[u]
  PROVE  SameHands
BY Zenon DEF Others, SameHands, Headed

\* The fields of the others, and the thread's own until Return.
LEMMA OthersFields ==
  ASSUME CallsInv, NEW t \in Threads, Step(t)
  PROVE  /\ \A u \in Threads : u # t => seqid'[u] = seqid[u] /\ meth'[u] = meth[u] /\ header'[u] = header[u]
         /\ ~Return(t) => UNCHANGED <<seqid, meth>>
<1>1. \A u \in Threads : u # t => header'[u] = header[u]
  BY StepKeeps, Zenon DEF Keeps, CallsInv, Fields
<1>2. \A u \in Threads : u # t => seqid'[u] = seqid[u] /\ meth'[u] = meth[u]
  BY StepKeeps, Zenon DEF Keeps, CallsInv, Fields, Return
<1>3. ~Return(t) => UNCHANGED <<seqid, meth>>
  BY StepKeeps, Zenon DEF Keeps
<1>. QED  BY <1>1, <1>2, <1>3, Zenon

\* A call begins: it has no message yet.
LEMMA generateSeqIdMessages ==
  ASSUME IInv, CallsInv, MessagesInv, NEW t \in Threads, NEW m, generateSeqId(t, m), Live' => Live
  PROVE  MessagesInv'
<1>1. /\ UNCHANGED <<out, requests, back, up, writeMutex, recvPending_, pending, header>>
      /\ meth' = [meth EXCEPT ![t] = m] /\ pc[t] = "idle"
  BY Zenon DEF generateSeqId, net_vars
<1>2. \/ pc' = [pc EXCEPT ![t] = "done"] /\ seqid' = seqid
      \/ pc' = [pc EXCEPT ![t] = "send"] /\ seqid' = [seqid EXCEPT ![t] = nextseqid_]
  BY Zenon DEF generateSeqId, Goto
<1>3. pc'[t] \in {"done", "send"} /\ \A u \in Threads : u # t => pc'[u] = pc[u]
  BY <1>2, Zenon DEF IInv, TypeOK
<1>4. \A u \in Threads : u # t => seqid'[u] = seqid[u] /\ meth'[u] = meth[u]
  BY <1>1, <1>2, Zenon DEF CallsInv, Fields
<1>5. Others(t)
  BY <1>3, Zenon DEF Others
<1>6. WaitOn /\ SendOn
  BY <1>1, <1>4, <1>5, OthersWait, Zenon DEF Waiting
<1>7. SameHands
  BY <1>1, <1>3, <1>5, OthersHold, Zenon DEF Headed
<1>. QED  BY <1>1, <1>6, <1>7, MessagesKept, Zenon DEF SameStreams

\* Steps that move no message.
LEMMA QuietMessages ==
  ASSUME IInv, CallsInv, MessagesInv, NEW t \in Threads,
         lockRead(t) \/ waitForWork(t) \/ waitForever(t) \/ wakeUp(t) \/ recvSentryEnds(t) \/ Return(t),
         Live' => Live
  PROVE  MessagesInv'
<1>1. Step(t)
  BY Zenon DEF Step
<1>2. Others(t)
  BY <1>1, Moves, Zenon
<1>3. UNCHANGED <<out, requests, back, up, writeMutex, recvPending_, pending>>
  BY Zenon DEF lockRead, waitForWork, waitForever, wakeUp, recvSentryEnds, Return, sync_vars, net_vars
<1>4. pc[t] \notin Headed \cup {"args"} /\ pc'[t] \notin Headed
  BY Moves, Zenon DEF Headed
<1>5. SameHands
  BY <1>1, <1>2, <1>3, <1>4, OthersFields, OthersHold, Zenon
<1>6. SendOn
  BY <1>1, <1>2, <1>4, OthersFields, OthersWait, Zenon
<1>7. ASSUME Live' PROVE WaitOn
  <2>1. CASE pc'[t] \in Waiting
    <3>1. ~Return(t)
      BY <2>1, Moves, Zenon DEF Waiting
    <3>. QED  BY <1>1, <1>2, <2>1, <3>1, OthersFields, OthersWait, Zenon
  <2>2. CASE pc[t] \notin Waiting
    BY <1>1, <1>2, <2>2, OthersFields, OthersWait, Zenon
  <2>3. CASE pc'[t] \notin Waiting /\ pc[t] \in Waiting
    <3>1. waitForWork(t) /\ pc'[t] = "exit" /\ pc[t] = "check"
      BY <2>3, Moves, Zenon DEF Waiting
    <3>2. stop_ /\ stop_' = stop_
      BY <3>1, Zenon DEF waitForWork, Goto, sync_vars, IInv, TypeOK
    <3>3. PICK u \in Threads : pc'[u] \in {"read", "mine", "other"}
      BY <1>7, <3>2, Zenon DEF Live
    <3>4. u # t /\ pc[u] \in {"read", "mine", "other"}
      BY <1>2, <3>1, <3>3, Zenon DEF Others
    <3>. QED  BY <3>1, <3>4, OnlyReader, Zenon DEF Reading
  <2>. QED  BY <2>1, <2>2, <2>3, Zenon
<1>. QED  BY <1>3, <1>5, <1>6, <1>7, MessagesKept, Zenon DEF SameStreams

\* A read fails: nothing is under way any more.
LEMMA ReadLostMessages ==
  ASSUME IInv, CallsInv, MessagesInv, NEW t \in Threads, ReadLost(t)
  PROVE  MessagesInv'
<1>1. /\ UNCHANGED <<out, requests, back, up, writeMutex, recvPending_, pending, header>>
      /\ ~up /\ back = <<>>
  BY Zenon DEF ReadLost, sync_vars, net_vars
<1>2. pc[t] \in {"read", "mine"} /\ pc'[t] = "exit" /\ Others(t)
  BY Moves, Zenon DEF Step
<1>3. \A u \in Threads : pc'[u] \notin Headed
  BY <1>2, OnlyReader, Zenon DEF Others, Reading, Headed
<1>4. ~recvPending_'
  BY <1>1, <1>2, Zenon DEF IInv, PendingAlone
<1>5. requests' = {} /\ Len(back') = 0 /\ back' = <<>> /\ ~up'
  BY <1>1, Zenon DEF MessagesInv, Paired
<1>6. OutShape'
  BY <1>1, Zenon DEF MessagesInv, OutShape
<1>7. Paired'
  BY <1>5 DEF Paired
<1>8. Owned'
  BY <1>3, <1>4, <1>5, SMTT(30) DEF Owned, OwnedIn, OwnedHand
<1>9. OnePlace'
  BY <1>5 DEF OnePlace, OnceIn, InSet, InStream
<1>. QED  BY <1>6, <1>7, <1>8, <1>9, Zenon DEF MessagesInv

\* getPending hands the pending header to the reader, or finds the client stopped.
LEMMA getPendingMessages ==
  ASSUME IInv, CallsInv, MessagesInv, NEW t \in Threads, getPending(t), Live' => Live
  PROVE  MessagesInv'
<1>1. /\ UNCHANGED <<out, requests, back, up, writeMutex, stop_>>
      /\ pc[t] = "loop" /\ Others(t)
  BY Moves, Zenon DEF getPending, net_vars, Step
<1>2. \A u \in Threads : pc[u] \notin Headed /\ (u # t => pc'[u] \notin {"read", "mine", "other"})
  BY <1>1, OnlyReader, Zenon DEF Others, Reading, Headed
<1>3. UNCHANGED <<seqid, meth>>
  BY Zenon DEF getPending
<1>4. SendOn
  BY <1>1, <1>3, OthersWait, Zenon
<1>5. CASE stop_
  <2>1. pc'[t] = "exit" /\ UNCHANGED <<recvPending_, pending, header>>
    BY <1>5, Zenon DEF getPending, Goto, IInv, TypeOK
  <2>2. ~Live'
    BY <1>1, <1>2, <1>5, <2>1, Zenon DEF Live
  <2>3. SameHands
    BY <1>1, <2>1, OthersHold, Zenon DEF Headed
  <2>. QED  BY <1>1, <1>4, <2>2, <2>3, MessagesKept, Zenon DEF SameStreams
<1>6. CASE ~stop_
  <2>1. /\ recvPending_' = FALSE
        /\ recvPending_ => pc'[t] \in Headed /\ header' = [header EXCEPT ![t] = pending]
        /\ ~recvPending_ => pc'[t] = "read"
    BY <1>6, Zenon DEF getPending, Goto, Mine, Headed, IInv, TypeOK
  <2>2. pc'[t] \in Waiting
    BY <2>1, Zenon DEF Headed, Waiting
  <2>3. WaitOn
    BY <1>1, <1>3, <2>2, OthersWait, Zenon
  <2>4. \A u \in Threads : pc'[u] \in Headed => u = t /\ recvPending_ /\ header'[u] = pending
    BY <1>2, <2>1, Zenon DEF Headed, CallsInv, Fields
  <2>5. Paired'
    <3>1. \A u \in Threads : pc'[u] \in Headed /\ back' # <<>> =>
            back'[1].of.seqid = header'[u].seqid /\ back'[1].of.fname = header'[u].fname
      BY <1>1, <2>4, Zenon DEF MessagesInv, Paired
    <3>. QED  BY <1>1, <2>1, <3>1, Zenon DEF MessagesInv, Paired
  <2>6. ASSUME Live' PROVE OwnedHand(pc', seqid', meth', recvPending_', pending', header')
    <3>1. recvPending_ => Waits(pc, seqid, meth, pending.seqid, pending.fname)
      BY <2>6, Zenon DEF MessagesInv, Owned, OwnedHand
    <3>2. recvPending_ => Waits(pc', seqid', meth', pending.seqid, pending.fname)
      BY <2>3, <3>1, StillWaited, Zenon
    <3>. QED  BY <2>1, <2>4, <3>2, Zenon DEF OwnedHand
  <2>7. \A n : InHand(recvPending_', pending', pc', header', n)
               <=> InHand(recvPending_, pending, pc, header, n)
    <3>1. recvPending_ => pc'[t] \in Headed /\ header'[t] = pending
      BY <2>1, Zenon DEF CallsInv, Fields
    <3>. QED  BY <1>2, <2>1, <2>4, <3>1, Zenon DEF InHand
  <2>. QED  BY <1>1, <1>4, <2>3, <2>5, <2>6, <2>7, StreamsKept, Zenon DEF SameStreams
<1>. QED  BY <1>5, <1>6, Zenon

\* The owner of a header in hand waits for it, so its number has a monitor.
LEMMA OwnerHasMonitor ==
  ASSUME CallsInv, MessagesInv, NEW t \in Threads, pc[t] \in Headed
  PROVE  header[t].seqid \in monitors
<1>1. Live
  BY Zenon DEF Live, Headed
<1>2. PICK u \in Threads : pc[u] \in Waiting /\ seqid[u] = header[t].seqid
  BY <1>1, Zenon DEF MessagesInv, Owned, OwnedHand, Waits
<1>. QED  BY <1>2, Zenon DEF CallsInv, NumbersDiffer, InCall

\* updatePending leaves the header for its owner.
LEMMA updatePendingMessages ==
  ASSUME IInv, CallsInv, MessagesInv, NEW t \in Threads, updatePending(t), Live' => Live
  PROVE  MessagesInv'
<1>1. /\ UNCHANGED <<out, requests, back, up, writeMutex, seqid, meth>>
      /\ recvPending_' = TRUE /\ pending' = header[t]
  BY Zenon DEF updatePending, net_vars
<1>2. pc[t] = "other" /\ Others(t)
  BY Moves, Zenon DEF Step
<1>3. header[t].seqid \in monitors
  BY <1>2, OwnerHasMonitor, Zenon DEF Headed
<1>4. pc'[t] = "check"
  BY <1>3, Zenon DEF updatePending, Notify, IInv, TypeOK
<1>5. WaitOn /\ SendOn
  BY <1>1, <1>2, <1>4, OthersWait, Zenon DEF Waiting
<1>6. \A u \in Threads : pc'[u] \notin Headed /\ (u # t => pc[u] \notin Headed)
  BY <1>2, <1>4, OnlyReader, Zenon DEF Others, Reading, Headed
<1>7. ~recvPending_ /\ pc[t] \in Headed
  BY <1>2, Zenon DEF IInv, PendingAlone, Headed
<1>8. Paired'
  <2>1. back # <<>> => back[1].of.seqid = header[t].seqid /\ back[1].of.fname = header[t].fname
    BY <1>7, Zenon DEF MessagesInv, Paired
  <2>. QED  BY <1>1, <1>6, <2>1, Zenon DEF MessagesInv, Paired
<1>9. ASSUME Live' PROVE OwnedHand(pc', seqid', meth', recvPending_', pending', header')
  <2>1. Waits(pc, seqid, meth, header[t].seqid, header[t].fname)
    BY <1>7, <1>9, Zenon DEF MessagesInv, Owned, OwnedHand
  <2>2. Waits(pc', seqid', meth', pending'.seqid, pending'.fname)
    BY <1>1, <1>5, <2>1, StillWaited, Zenon
  <2>. QED  BY <1>6, <2>2, Zenon DEF OwnedHand
<1>10. \A n : InHand(recvPending_', pending', pc', header', n)
              <=> InHand(recvPending_, pending, pc, header, n)
  BY <1>1, <1>6, <1>7, Zenon DEF InHand
<1>. QED  BY <1>1, <1>5, <1>8, <1>9, <1>10, StreamsKept, Zenon DEF SameStreams

\* No other call waits for the number of a call that is not yet sent, so it is nowhere.
LEMMA NewNumberNowhere ==
  ASSUME CallsInv, OutShape, Owned, NEW t \in Threads, pc[t] = "send"
  PROVE  /\ up => ~InStream(out, seqid[t])
         /\ ~InSet(requests, seqid[t]) /\ ~InStream(back, seqid[t])
         /\ ~InHand(recvPending_, pending, pc, header, seqid[t])
<1>1. \A u \in Threads : pc[u] \in Waiting \cup {"args"} => seqid[u] # seqid[t]
  <2>1. \A u \in Threads : pc[u] \in Waiting \cup {"args"} => u # t /\ pc[u] \in InCall
    BY Zenon DEF Waiting, InCall
  <2>2. pc[t] \in InCall
    BY Zenon DEF InCall
  <2>. QED  BY <2>1, <2>2, Zenon DEF CallsInv, NumbersDiffer
<1>2. \A n, f : Waits(pc, seqid, meth, n, f) \/ Sends(pc, seqid, meth, n, f) => n # seqid[t]
  BY <1>1, Zenon DEF Waits, Sends
<1>3. up => ~InStream(out, seqid[t])
  <2>. SUFFICES ASSUME up, NEW i \in 1..Len(out), out[i].item = "begin" PROVE out[i].seqid # seqid[t]
    BY Zenon DEF InStream
  <2>1. i < Len(out) \/ i = Len(out)
    <3>1. Len(out) \in Nat
      BY DEF OutShape
    <3>. QED  BY <3>1
  <2>. QED  BY <1>2, <2>1, Zenon DEF Owned, OwnedOut
<1>4. ~InSet(requests, seqid[t])
  BY <1>2, Zenon DEF Owned, InSet
<1>5. ~InStream(back, seqid[t])
  BY <1>2, Zenon DEF Owned, OwnedIn, InStream
<1>6. ~InHand(recvPending_, pending, pc, header, seqid[t])
  BY <1>2, Zenon DEF Owned, OwnedHand, InHand
<1>. QED  BY <1>3, <1>4, <1>5, <1>6, Zenon

\* What an item more does to the stream of requests.
LEMMA OutExtended ==
  ASSUME OutShape, NEW e, out' = Append(out, e)
  PROVE  /\ out' \in Seq({out'[i] : i \in DOMAIN out'})
         /\ Extended(out, out', 1) /\ out'[Len(out) + 1] = e /\ out' # <<>>
         /\ Len(out) \in Nat /\ (out = <<>> <=> Len(out) = 0)
<1>. DEFINE S == {out[i] : i \in DOMAIN out} \cup {e}
<1>1. out \in Seq({out[i] : i \in DOMAIN out}) /\ Len(out) \in Nat /\ (out = <<>> <=> Len(out) = 0)
  BY DEF OutShape
<1>2. out \in Seq(S)
  BY <1>1
<1>. HIDE DEF S
<1>3. e \in S
  BY Zenon DEF S
<1>4. /\ out' \in Seq(S) /\ Len(out') = Len(out) + 1 /\ out' # <<>>
      /\ \A i \in 1..Len(out) : out'[i] = out[i]
      /\ out'[Len(out) + 1] = e
  BY <1>1, <1>2, <1>3
<1>5. out' \in Seq({out'[i] : i \in DOMAIN out'})
  BY <1>4, OwnElements
<1>. QED  BY <1>1, <1>4, <1>5, Zenon DEF Extended

\* The stream of requests goes on alternating when the item is of the other kind.
LEMMA OutAlternates ==
  ASSUME OutShape, NEW e, out' = Append(out, e), up' = up,
         e.item \in {"begin", "struct"},
         up => (e.item = "begin" <=> writeMutex = NoThread),
         e.item = "begin" <=> writeMutex' # NoThread
  PROVE  OutShape'
<1>1. /\ out' \in Seq({out'[i] : i \in DOMAIN out'})
      /\ Extended(out, out', 1) /\ out'[Len(out) + 1] = e /\ out' # <<>>
      /\ Len(out) \in Nat /\ (out = <<>> <=> Len(out) = 0)
  BY OutExtended, Zenon
<1>2. Len(out') = Len(out) + 1 /\ \A i \in 1..Len(out) : out'[i] = out[i]
  BY <1>1, Zenon DEF Extended
<1>. SUFFICES ASSUME up
             PROVE  /\ \A i \in 1..Len(out') : out'[i].item \in {"begin", "struct"}
                    /\ \A i \in 1..Len(out') - 1 : out'[i].item # out'[i + 1].item
                    /\ out'[1].item = "begin"
                    /\ (out'[Len(out')].item = "begin") <=> writeMutex' # NoThread
  BY <1>1, Zenon DEF OutShape
<1>3. /\ \A i \in 1..Len(out) : out[i].item \in {"begin", "struct"}
      /\ \A i \in 1..Len(out) - 1 : out[i].item # out[i + 1].item
      /\ Len(out) # 0 => out[1].item = "begin"
      /\ (Len(out) # 0 /\ out[Len(out)].item = "begin") <=> e.item # "begin"
  BY <1>1, Zenon DEF OutShape
<1>4. \A i \in 1..Len(out') : i \in 1..Len(out) \/ i = Len(out) + 1
  BY <1>1, <1>2
<1>5. \A i \in 1..Len(out') : out'[i].item \in {"begin", "struct"}
  BY <1>1, <1>2, <1>3, <1>4, Zenon
<1>6. ASSUME NEW i \in 1..Len(out') - 1 PROVE out'[i].item # out'[i + 1].item
  <2>1. i \in 1..Len(out) /\ (i = Len(out) \/ (i \in 1..Len(out) - 1 /\ i + 1 \in 1..Len(out)))
    BY <1>1, <1>2
  <2>2. CASE i = Len(out)
    BY <1>1, <1>2, <1>3, <2>1, <2>2, SMTT(30)
  <2>3. CASE i \in 1..Len(out) - 1 /\ i + 1 \in 1..Len(out)
    BY <1>2, <1>3, <2>1, <2>3, Zenon
  <2>. QED  BY <2>1, <2>2, <2>3, Zenon
<1>7. out'[1].item = "begin"
  <2>1. CASE Len(out) = 0
    BY <1>1, <1>3, <2>1, SMTT(30)
  <2>2. CASE Len(out) # 0
    <3>1. 1 \in 1..Len(out)
      BY <1>1, <2>2
    <3>. QED  BY <1>2, <1>3, <2>2, <3>1, Zenon
  <2>. QED  BY <2>1, <2>2, Zenon
<1>8. (out'[Len(out')].item = "begin") <=> writeMutex' # NoThread
  BY <1>1, <1>2, Zenon
<1>. QED  BY <1>5, <1>6, <1>7, <1>8, Zenon

\* writeMessageBegin sends the header of a new request.
LEMMA writeMessageBeginMessages ==
  ASSUME IInv, CallsInv, MessagesInv, NEW t \in Threads, writeMessageBegin(t), Live' => Live
  PROVE  MessagesInv'
<1>. DEFINE e == [item |-> "begin", seqid |-> seqid[t], fname |-> Interface[meth[t]].fname]
<1>1. /\ UNCHANGED <<requests, back, up, seqid, meth, header, recvPending_, pending>>
      /\ out' = Append(out, e) /\ writeMutex = NoThread /\ writeMutex' = t
  BY Zenon DEF writeMessageBegin
<1>2. e.item = "begin" /\ e.seqid = seqid[t] /\ e.fname = Interface[meth[t]].fname
  BY Zenon
<1>. HIDE DEF e
<1>3. pc[t] = "send" /\ pc'[t] = "args" /\ Others(t)
  BY Moves, Zenon DEF Step
<1>4. e.fname = meth[t]
  BY <1>2, <1>3, NamesAssumption, Zenon DEF CallsInv, Fields, InCall
<1>5. WaitOn /\ SameHands
  <2>1. WaitOn
    BY <1>1, <1>3, OthersWait, Zenon DEF Waiting
  <2>2. SameHands
    BY <1>1, <1>3, OthersHold, Zenon DEF Headed
  <2>. QED  BY <2>1, <2>2, Zenon
<1>6. /\ Extended(out, out', 1) /\ out'[Len(out) + 1] = e /\ Len(out) \in Nat
      /\ (out = <<>> <=> Len(out) = 0)
  BY <1>1, OutExtended, Zenon DEF MessagesInv
<1>7. OutShape'
  BY <1>1, <1>2, NoThreadAssumption, OutAlternates, Zenon DEF MessagesInv
<1>8. Paired'
  BY <1>1, <1>5, PairedKept, Zenon DEF MessagesInv
<1>. SUFFICES ASSUME Live' PROVE Owned' /\ OnePlace'
  BY <1>7, <1>8, Zenon DEF MessagesInv
<1>9. Owned /\ OnePlace /\ OutShape
  BY Zenon DEF MessagesInv
<1>10. Owned'
  <2>1. ASSUME up' PROVE OwnedOut(pc', seqid', meth', out')
    <3>. SUFFICES ASSUME NEW i \in 1..Len(out'), out'[i].item = "begin"
                 PROVE  /\ i < Len(out') => Waits(pc', seqid', meth', out'[i].seqid, out'[i].fname)
                        /\ i = Len(out') => Sends(pc', seqid', meth', out'[i].seqid, out'[i].fname)
      BY Zenon DEF OwnedOut
    <3>1. Len(out') = Len(out) + 1 /\ \A j \in 1..Len(out) : out'[j] = out[j]
      BY <1>6, Zenon DEF Extended
    <3>2. CASE i = Len(out) + 1
      <4>1. Sends(pc', seqid', meth', e.seqid, e.fname)
        BY <1>1, <1>2, <1>3, <1>4, Zenon DEF Sends
      <4>2. out'[i] = e /\ ~(i < Len(out'))
        BY <1>6, <3>1, <3>2
      <4>. QED  BY <4>1, <4>2, Zenon
    <3>3. CASE i # Len(out) + 1
      <4>1. i \in 1..Len(out) /\ out'[i] = out[i] /\ i # Len(out')
        BY <1>6, <3>1, <3>3
      <4>2. out # <<>> /\ up
        BY <1>1, <1>6, <2>1, <4>1, SMTT(30)
      <4>3. out[Len(out)].item # "begin"
        BY <1>1, <1>9, <4>2, ZenonT(30) DEF OutShape
      <4>4. i < Len(out)
        BY <1>6, <4>1, <4>3, SMTT(30)
      <4>5. Waits(pc, seqid, meth, out[i].seqid, out[i].fname)
        BY <1>9, <4>1, <4>2, <4>4, Zenon DEF Owned, OwnedOut
      <4>6. Waits(pc', seqid', meth', out'[i].seqid, out'[i].fname)
        BY <1>5, <4>1, <4>5, StillWaited, Zenon
      <4>. QED  BY <4>1, <4>6, Zenon
    <3>. QED  BY <3>2, <3>3, Zenon
  <2>2. \A r \in requests' : Waits(pc', seqid', meth', r.seqid, r.fname)
    BY <1>1, <1>5, <1>9, StillWaited, Zenon DEF Owned
  <2>3. OwnedIn(pc', seqid', meth', back')
    BY <1>1, <1>5, <1>9, StillWaited, Zenon DEF Owned, OwnedIn
  <2>4. OwnedHand(pc', seqid', meth', recvPending_', pending', header')
    BY <1>5, <1>9, HandsKept, Zenon DEF Owned
  <2>. QED  BY <2>1, <2>2, <2>3, <2>4, Zenon DEF Owned
<1>11. OnePlace'
  <2>1. /\ up => ~InStream(out, seqid[t])
        /\ ~InSet(requests, seqid[t]) /\ ~InStream(back, seqid[t])
        /\ ~InHand(recvPending_, pending, pc, header, seqid[t])
    BY <1>3, <1>9, NewNumberNowhere, ZenonT(30)
  <2>2. /\ \A n : InStream(out', n) <=> InStream(out, n) \/ n = seqid[t]
        /\ OnceIn(out) /\ ~InStream(out, seqid[t]) => OnceIn(out')
    BY <1>2, <1>6, HeaderAdded
  <2>3. \A n : InHand(recvPending_', pending', pc', header', n)
               <=> InHand(recvPending_, pending, pc, header, n)
    BY <1>5, HandsKept, Zenon
  <2>4. up' = up /\ requests' = requests /\ back' = back
    BY <1>1, Zenon
  <2>. QED  BY <1>9, <2>1, <2>2, <2>3, <2>4, Zenon DEF OnePlace
<1>. QED  BY <1>10, <1>11, Zenon

\* writeArgs completes the request, which its thread then waits for; or it fails.
LEMMA writeArgsMessages ==
  ASSUME IInv, CallsInv, MessagesInv, NEW t \in Threads, writeArgs(t), Live' => Live
  PROVE  MessagesInv'
<1>. DEFINE e == [item |-> "struct", args |-> Interface[meth[t]].args]
<1>1. /\ UNCHANGED <<requests, back, up, seqid, meth, header, recvPending_, pending>>
      /\ writeMutex' = NoThread
  BY Zenon DEF writeArgs
<1>2. e.item = "struct"
  BY Zenon
<1>3. \/ pc' = [pc EXCEPT ![t] = "lock"] /\ out' = Append(out, e)
      \/ ~up /\ out' = out
  BY Zenon DEF writeArgs, Goto
<1>. HIDE DEF e
<1>4. pc[t] = "args" /\ pc'[t] \in {"lock", "done"} /\ Others(t)
  BY Moves, Zenon DEF Step
<1>5. WaitOn /\ SameHands
  <2>1. WaitOn
    BY <1>1, <1>4, OthersWait, Zenon DEF Waiting
  <2>2. SameHands
    BY <1>1, <1>4, OthersHold, Zenon DEF Headed
  <2>. QED  BY <2>1, <2>2, Zenon
<1>6. CASE ~up /\ out' = out
  BY <1>1, <1>5, <1>6, MessagesKept, Zenon DEF SameStreams
<1>7. CASE pc' = [pc EXCEPT ![t] = "lock"] /\ out' = Append(out, e)
  <2>1. writeMutex = t /\ writeMutex # NoThread
    BY <1>4, NoThreadAssumption, Zenon DEF CallsInv, WriteMutexHeld
  <2>2. /\ Extended(out, out', 1) /\ out'[Len(out) + 1] = e /\ Len(out) \in Nat
        /\ (out = <<>> <=> Len(out) = 0)
    BY <1>7, OutExtended, Zenon DEF MessagesInv
  <2>3. OutShape'
    BY <1>1, <1>2, <1>7, <2>1, OutAlternates, Zenon DEF MessagesInv
  <2>4. Paired'
    BY <1>1, <1>5, PairedKept, Zenon DEF MessagesInv
  <2>. SUFFICES ASSUME Live' PROVE Owned' /\ OnePlace'
    BY <2>3, <2>4, Zenon DEF MessagesInv
  <2>5. Owned /\ OnePlace /\ OutShape
    BY Zenon DEF MessagesInv
  <2>6. Owned'
    <3>1. ASSUME up' PROVE OwnedOut(pc', seqid', meth', out')
      <4>. SUFFICES ASSUME NEW i \in 1..Len(out'), out'[i].item = "begin"
                   PROVE  i < Len(out') /\ Waits(pc', seqid', meth', out'[i].seqid, out'[i].fname)
        BY DEF OwnedOut
      <4>1. Len(out') = Len(out) + 1 /\ \A j \in 1..Len(out) : out'[j] = out[j]
        BY <2>2, Zenon DEF Extended
      <4>2. i # Len(out) + 1
        BY <1>2, <2>2, Zenon
      <4>3. i \in 1..Len(out) /\ out'[i] = out[i] /\ i < Len(out')
        BY <2>2, <4>1, <4>2
      <4>4. CASE i < Len(out)
        <5>1. Waits(pc, seqid, meth, out[i].seqid, out[i].fname)
          BY <1>1, <2>5, <3>1, <4>3, <4>4, Zenon DEF Owned, OwnedOut
        <5>. QED  BY <1>5, <4>3, <5>1, StillWaited, Zenon
      <4>5. CASE i = Len(out)
        <5>1. PICK u \in Threads : pc[u] = "args" /\ seqid[u] = out[i].seqid /\ meth[u] = out[i].fname
          BY <1>1, <2>5, <3>1, <4>3, <4>5, Zenon DEF Owned, OwnedOut, Sends
        <5>2. u = t
          BY <2>1, <5>1, Zenon DEF CallsInv, WriteMutexHeld
        <5>3. pc'[t] = "lock"
          BY <1>7, Zenon DEF IInv, TypeOK
        <5>. QED  BY <1>1, <4>3, <5>1, <5>2, <5>3, Zenon DEF Waits, Waiting
      <4>. QED  BY <2>2, <4>3, <4>4, <4>5, SMTT(30)
    <3>2. \A r \in requests' : Waits(pc', seqid', meth', r.seqid, r.fname)
      BY <1>1, <1>5, <2>5, StillWaited, Zenon DEF Owned
    <3>3. OwnedIn(pc', seqid', meth', back')
      BY <1>1, <1>5, <2>5, StillWaited, Zenon DEF Owned, OwnedIn
    <3>4. OwnedHand(pc', seqid', meth', recvPending_', pending', header')
      BY <1>5, <2>5, HandsKept, Zenon DEF Owned
    <3>. QED  BY <3>1, <3>2, <3>3, <3>4, Zenon DEF Owned
  <2>7. OnePlace'
    <3>1. /\ \A n : InStream(out', n) <=> InStream(out, n)
          /\ OnceIn(out) => OnceIn(out')
      BY <1>2, <2>2, StructAdded, Zenon
    <3>2. \A n : InHand(recvPending_', pending', pc', header', n)
                 <=> InHand(recvPending_, pending, pc, header, n)
      BY <1>5, HandsKept, Zenon
    <3>3. up' = up /\ requests' = requests /\ back' = back
      BY <1>1, Zenon
    <3>. QED  BY <2>5, <3>1, <3>2, <3>3, Zenon DEF OnePlace
  <2>. QED  BY <2>6, <2>7, Zenon
<1>. QED  BY <1>3, <1>6, <1>7, Zenon

\* The server and the network leave the client alone.
LEMMA ClientIdle ==
  ASSUME UNCHANGED <<client_vars, sync_vars>>
  PROVE  WaitOn /\ SendOn /\ SameHands /\ (Live' => Live) /\ writeMutex' = writeMutex
<1>1. UNCHANGED <<pc, meth, seqid, header, recvPending_, pending, stop_, writeMutex>>
  BY Zenon DEF client_vars, sync_vars
<1>. QED  BY <1>1, Zenon DEF WaitOn, SendOn, SameHands, Live

\* The server takes a whole request: its header and its arguments.
LEMMA RequestTaken ==
  ASSUME OutShape, ServerReads
  PROVE  /\ up /\ up' = up /\ 1 \in 1..Len(out) /\ 1 < Len(out)
         /\ out[1].item = "begin" /\ out[2].item # "begin" /\ Dropped(out, out', 2)
         /\ OutShape'
<1>1. /\ up /\ up' = up /\ Len(out) >= 2 /\ writeMutex' = writeMutex
      /\ out' = SubSeq(out, 3, Len(out))
  BY Zenon DEF ServerReads, sync_vars
<1>. DEFINE S == {out[i] : i \in DOMAIN out}
<1>2. out \in Seq(S) /\ Len(out) \in Nat
  BY DEF OutShape
<1>. HIDE DEF S
<1>3. /\ out' \in Seq(S) /\ Len(out') = Len(out) - 2
      /\ \A i \in 1..Len(out') : out'[i] = out[i + 2]
  <2>1. 3 \in Int /\ Len(out) \in Int /\ \A i \in 3..Len(out) : out[i] \in S
    BY <1>2
  <2>2. /\ out' \in Seq(S) /\ Len(out') = IF 3 <= Len(out) THEN Len(out) - 3 + 1 ELSE 0
        /\ \A i \in 1..Len(out) - 3 + 1 : out'[i] = out[3 + i - 1]
    BY <1>1, <2>1, SubSeqProperties
  <2>3. Len(out') = Len(out) - 2
    <3>1. /\ 3 <= Len(out) => Len(out') = Len(out) - 3 + 1
          /\ ~(3 <= Len(out)) => Len(out') = 0
      BY <2>2, Zenon
    <3>2. Len(out) \in Nat /\ Len(out) >= 2
      BY <1>1, <1>2, Zenon
    <3>. QED  BY ONLY <3>1, <3>2
  <2>4. \A i \in 1..Len(out') : i \in 1..Len(out) - 3 + 1 /\ 3 + i - 1 = i + 2
    BY <1>2, <2>3
  <2>. QED  BY <2>2, <2>3, <2>4, Zenon
<1>4. out' \in Seq({out'[i] : i \in DOMAIN out'})
  BY <1>3, OwnElements, Zenon
<1>5. /\ \A i \in 1..Len(out) : out[i].item \in {"begin", "struct"}
      /\ \A i \in 1..Len(out) - 1 : out[i].item # out[i + 1].item
      /\ out[1].item = "begin"
      /\ (out[Len(out)].item = "begin") <=> writeMutex # NoThread
  BY <1>1, <1>2 DEF OutShape
<1>6. 1 \in 1..Len(out) /\ 1 < Len(out) /\ 1 \in 1..Len(out) - 1 /\ 2 \in 1..Len(out)
  BY <1>1, <1>2
<1>7. out[2].item = "struct"
  BY <1>5, <1>6
<1>8. Dropped(out, out', 2)
  BY <1>1, <1>2, <1>3, Zenon DEF Dropped
<1>9. \A i \in 1..Len(out') : out'[i].item \in {"begin", "struct"}
  BY <1>1, <1>2, <1>3, <1>5
<1>10. ASSUME NEW i \in 1..Len(out') - 1 PROVE out'[i].item # out'[i + 1].item
  <2>1. i \in 1..Len(out') /\ i + 1 \in 1..Len(out') /\ i + 2 \in 1..Len(out) - 1 /\ (i + 1) + 2 = (i + 2) + 1
    BY <1>2, <1>3
  <2>. QED  BY <1>3, <1>5, <2>1
<1>11. out' # <<>> => out'[1].item = "begin"
  <2>. SUFFICES ASSUME out' # <<>> PROVE out'[1].item = "begin"
    BY Zenon
  <2>1. 1 \in 1..Len(out') /\ 2 \in 1..Len(out) - 1 /\ 3 \in 1..Len(out)
    BY <1>2, <1>3
  <2>2. out'[1] = out[3]
    BY <1>3, <2>1
  <2>. QED  BY <1>5, <1>7, <2>1, <2>2
<1>12. (out' # <<>> /\ out'[Len(out')].item = "begin") <=> writeMutex' # NoThread
  <2>1. CASE Len(out) = 2
    <3>1. out' = <<>>
      BY <1>3, <2>1
    <3>. QED  BY <1>1, <1>5, <1>7, <2>1, <3>1, Zenon
  <2>2. CASE Len(out) # 2
    <3>0. Len(out') \in 1..Len(out') /\ Len(out') + 2 = Len(out) /\ Len(out') # 0
      <4>1. Len(out') = Len(out) - 2 /\ Len(out) \in Nat /\ Len(out) >= 2
        BY <1>1, <1>2, <1>3, Zenon
      <4>. HIDE DEF S
      <4>. QED  BY ONLY <2>2, <4>1
    <3>1. Len(out') \in 1..Len(out') /\ Len(out') + 2 = Len(out) /\ out' # <<>>
      BY <3>0
    <3>2. out'[Len(out')] = out[Len(out)]
      BY <1>3, <3>1, Zenon
    <3>. QED  BY <1>1, <1>5, <3>1, <3>2, Zenon
  <2>. QED  BY <2>1, <2>2, Zenon
<1>. QED  BY <1>1, <1>4, <1>6, <1>5, <1>7, <1>8, <1>9, <1>10, <1>11, <1>12, Zenon DEF OutShape

\* ServerReads: the request moves from the stream to the server.
LEMMA ServerReadsMessages == ASSUME MessagesInv, ServerReads PROVE MessagesInv'
<1>1. WaitOn /\ SendOn /\ SameHands /\ (Live' => Live)
  BY ClientIdle, Zenon DEF ServerReads
<1>2. /\ up /\ up' = up /\ 1 \in 1..Len(out) /\ 1 < Len(out)
      /\ out[1].item = "begin" /\ out[2].item # "begin" /\ Dropped(out, out', 2)
      /\ OutShape'
  BY RequestTaken, Zenon DEF MessagesInv
<1>. DEFINE q == [seqid |-> out[1].seqid, fname |-> out[1].fname, args |-> out[2].args]
<1>3. requests' = requests \cup {q} /\ back' = back
  BY Zenon DEF ServerReads
<1>4. q.seqid = out[1].seqid /\ q.fname = out[1].fname
  BY Zenon
<1>. HIDE DEF q
<1>5. Paired'
  <2>1. \A u \in Threads : pc'[u] \in Headed => pc[u] \in Headed /\ header'[u] = header[u]
    BY <1>1, Zenon DEF SameHands
  <2>2. \A u \in Threads : pc'[u] \in Headed /\ back' # <<>> =>
          back'[1].of.seqid = header'[u].seqid /\ back'[1].of.fname = header'[u].fname
    BY <1>3, <2>1, Zenon DEF MessagesInv, Paired
  <2>3. recvPending_' = recvPending_ /\ pending' = pending
    BY <1>1, Zenon DEF SameHands
  <2>. QED  BY <1>2, <1>3, <2>2, <2>3, Zenon DEF MessagesInv, Paired
<1>. SUFFICES ASSUME Live' PROVE Owned' /\ OnePlace'
  BY <1>2, <1>5, Zenon DEF MessagesInv
<1>6. Owned /\ OnePlace
  BY <1>1, Zenon DEF MessagesInv
<1>7. Owned'
  <2>1. OwnedOut(pc', seqid', meth', out')
    <3>. SUFFICES ASSUME NEW i \in 1..Len(out'), out'[i].item = "begin"
                 PROVE  /\ i < Len(out') => Waits(pc', seqid', meth', out'[i].seqid, out'[i].fname)
                        /\ i = Len(out') => Sends(pc', seqid', meth', out'[i].seqid, out'[i].fname)
      BY Zenon DEF OwnedOut
    <3>1. /\ i + 2 \in 1..Len(out) /\ out'[i] = out[i + 2]
          /\ i < Len(out') => i + 2 < Len(out)
          /\ i = Len(out') => i + 2 = Len(out)
      BY <1>2 DEF Dropped
    <3>2. /\ i < Len(out') => Waits(pc, seqid, meth, out'[i].seqid, out'[i].fname)
          /\ i = Len(out') => Sends(pc, seqid, meth, out'[i].seqid, out'[i].fname)
      BY <1>2, <1>6, <3>1, Zenon DEF Owned, OwnedOut
    <3>. QED  BY <1>1, <3>2, StillWaited, StillSent, Zenon
  <2>2. Waits(pc, seqid, meth, q.seqid, q.fname)
    BY <1>2, <1>4, <1>6, Zenon DEF Owned, OwnedOut
  <2>3. \A r \in requests' : Waits(pc', seqid', meth', r.seqid, r.fname)
    BY <1>1, <1>3, <1>6, <2>2, StillWaited, Zenon DEF Owned
  <2>4. OwnedIn(pc', seqid', meth', back')
    BY <1>1, <1>3, <1>6, StillWaited, Zenon DEF Owned, OwnedIn
  <2>5. OwnedHand(pc', seqid', meth', recvPending_', pending', header')
    BY <1>1, <1>6, HandsKept, Zenon DEF Owned
  <2>. QED  BY <2>1, <2>3, <2>4, <2>5, Zenon DEF Owned
<1>8. OnePlace'
  <2>1. OnceIn(out)
    BY <1>2, <1>6, Zenon DEF OnePlace
  <2>2. /\ \A n : InStream(out', n) <=> InStream(out, n) /\ n # q.seqid
        /\ OnceIn(out') /\ InStream(out, q.seqid)
    BY <1>2, <1>4, <2>1, HeaderTaken, Zenon
  <2>3. \A n : InSet(requests', n) <=> InSet(requests, n) \/ n = q.seqid
    BY <1>3, Zenon DEF InSet
  <2>4. \A n : InHand(recvPending_', pending', pc', header', n)
               <=> InHand(recvPending_, pending, pc, header, n)
    BY <1>1, HandsKept, Zenon
  <2>5. \A r, s \in requests' : r.seqid = s.seqid => r = s
    <3>1. \A r \in requests : r.seqid # q.seqid
      BY <1>2, <1>6, <2>2, Zenon DEF OnePlace, InSet
    <3>. QED  BY <1>3, <1>6, <3>1, Zenon DEF OnePlace
  <2>. QED  BY <1>2, <1>3, <1>6, <2>2, <2>3, <2>4, <2>5, Zenon DEF OnePlace
<1>. QED  BY <1>7, <1>8, Zenon

\* The server's reply: a header and its structure, which is of that header.
LEMMA ReplyAdded ==
  ASSUME IInv, NEW r, NEW k, ServerReplies(r, k)
  PROVE  /\ Extended(back, back', 2) /\ Len(back) \in Nat
         /\ back'[Len(back) + 1].item = "begin" /\ back'[Len(back) + 1].seqid = r.seqid
         /\ back'[Len(back) + 1].fname = r.fname
         /\ back'[Len(back) + 2].item = "struct" /\ back'[Len(back) + 2].kind = k
         /\ back'[Len(back) + 2].of.seqid = r.seqid /\ back'[Len(back) + 2].of.fname = r.fname
         /\ back = <<>> <=> Len(back) = 0
<1>. DEFINE type == IF k = "other" THEN "exception" ELSE "reply"
            set == CASE k = "return" -> IF Interface[r.fname].returns THEN {"success"} ELSE {}
                     [] k = "io" -> {"io"}
                     [] OTHER -> {}
            h == [seqid |-> r.seqid, fname |-> r.fname, mtype |-> type]
            a == [item |-> "begin", seqid |-> h.seqid, fname |-> h.fname, mtype |-> type]
            b == [item |-> "struct", set |-> set, kind |-> k, of |-> h]
            S == {back[i] : i \in DOMAIN back} \cup {a, b}
<1>1. back' = back \o <<a, b>>
  BY Zenon DEF ServerReplies
<1>2. h.seqid = r.seqid /\ h.fname = r.fname
  BY Zenon
<1>3. /\ a.item = "begin" /\ a.seqid = h.seqid /\ a.fname = h.fname
      /\ b.item = "struct" /\ b.kind = k /\ b.of = h
  <2>. HIDE DEF type, set, h
  <2>. QED  BY Zenon
<1>. HIDE DEF a, b
<1>4. back \in Seq({back[i] : i \in DOMAIN back}) /\ Len(back) \in Nat /\ (back = <<>> <=> Len(back) = 0)
  BY DEF IInv, TypeOK
<1>5. back \in Seq(S) /\ <<a, b>> \in Seq(S) /\ Len(<<a, b>>) = 2
  BY <1>4
<1>6. /\ Len(back') = Len(back) + 2
      /\ \A i \in 1..Len(back) : back'[i] = back[i]
      /\ back'[Len(back) + 1] = a /\ back'[Len(back) + 2] = b
  <2>. HIDE DEF S
  <2>. QED  BY <1>1, <1>4, <1>5
<1>. HIDE DEF h
<1>. QED  BY <1>2, <1>3, <1>4, <1>6, Zenon DEF Extended

\* Structures are still of the headers before them.
LEMMA ReplyPaired ==
  ASSUME IInv, Paired, plan \in Plans, NEW r, NEW k \in plan.replies, ServerReplies(r, k)
  PROVE  Paired'
<1>. DEFINE L == Len(back)
<1>1. /\ L \in Nat /\ Len(back') = L + 2 /\ \A i \in 1..L : back'[i] = back[i]
      /\ back = <<>> <=> L = 0
  BY ReplyAdded, Zenon DEF Extended
<1>2. /\ back'[L + 1].item = "begin" /\ back'[L + 1].seqid = r.seqid /\ back'[L + 1].fname = r.fname
      /\ back'[L + 2].item = "struct" /\ back'[L + 2].kind = k
      /\ back'[L + 2].of.seqid = r.seqid /\ back'[L + 2].of.fname = r.fname
  BY ReplyAdded, Zenon
<1>. HIDE DEF L
<1>3. UNCHANGED <<pc, header, recvPending_, pending>> /\ up /\ up' = up
  BY Zenon DEF ServerReplies, client_vars, sync_vars
<1>4. k \in {"return", "io", "other", "future"}
  BY PlansAssumption, Zenon
<1>5. ASSUME NEW i \in 1..Len(back') - 1, back'[i].item = "begin"
      PROVE  back'[i + 1].of.seqid = back'[i].seqid /\ back'[i + 1].of.fname = back'[i].fname
  <2>1. CASE i = L + 1
    <3>1. i + 1 = L + 2
      BY <1>1, <2>1
    <3>. QED  BY <1>2, <2>1, <3>1, Zenon
  <2>2. CASE i = L /\ L # 0
    <3>1. back[L].item = "struct"
      BY <1>1, <1>3, <2>2, Zenon DEF IInv, Alternating, L
    <3>2. L \in 1..L
      BY <1>1, <2>2
    <3>. QED  BY <1>1, <1>5, <2>2, <3>1, <3>2, Zenon
  <2>3. CASE i \in 1..L - 1
    <3>1. i \in 1..L /\ i + 1 \in 1..L
      BY <1>1, <2>3
    <3>2. back'[i] = back[i] /\ back'[i + 1] = back[i + 1]
      BY <1>1, <3>1, Zenon
    <3>. QED  BY <1>5, <2>3, <3>2, Zenon DEF Paired, L
  <2>. QED  BY <1>1, <2>1, <2>2, <2>3
<1>6. ASSUME NEW i \in 1..Len(back'), back'[i].item = "struct"
      PROVE  back'[i].kind \in {"return", "io", "other", "future"}
  <2>1. i \in 1..L \/ i = L + 1 \/ i = L + 2
    BY <1>1
  <2>. QED  BY <1>1, <1>2, <1>4, <1>6, <2>1, Zenon DEF Paired, L
<1>7. StructNext => back # <<>> /\ back'[1] = back[1]
  <2>1. StructNext => L # 0
    BY <1>1, <1>3, Zenon DEF IInv, Alternating
  <2>2. L # 0 => 1 \in 1..L
    BY <1>1
  <2>. QED  BY <1>1, <2>1, <2>2, Zenon
<1>8. recvPending_' => back'[1].of.seqid = pending'.seqid /\ back'[1].of.fname = pending'.fname
  BY <1>3, <1>7, Zenon DEF Paired, StructNext
<1>9. \A t \in Threads : pc'[t] \in Headed =>
        back'[1].of.seqid = header'[t].seqid /\ back'[1].of.fname = header'[t].fname
  BY <1>3, <1>7, Zenon DEF Paired, StructNext, Headed
<1>. QED  BY <1>3, <1>5, <1>6, <1>8, <1>9, Zenon DEF Paired

\* ServerReplies: the request leaves the server, and its reply is on its way.
LEMMA ServerRepliesMessages ==
  ASSUME IInv, CallsInv, MessagesInv, NEW r \in requests, NEW k \in plan.replies, ServerReplies(r, k)
  PROVE  MessagesInv'
<1>1. WaitOn /\ SendOn /\ SameHands /\ (Live' => Live) /\ writeMutex' = writeMutex
  BY ClientIdle, Zenon DEF ServerReplies
<1>2. out' = out /\ up /\ up' = up /\ requests' = requests \ {r}
  BY Zenon DEF ServerReplies
<1>3. /\ Extended(back, back', 2) /\ Len(back) \in Nat
      /\ back'[Len(back) + 1].item = "begin" /\ back'[Len(back) + 1].seqid = r.seqid
      /\ back'[Len(back) + 1].fname = r.fname /\ back'[Len(back) + 2].item = "struct"
  BY ReplyAdded, Zenon
<1>4. Paired'
  BY ReplyPaired, Zenon DEF MessagesInv, CallsInv, Fields
<1>5. OutShape'
  BY <1>1, <1>2, Zenon DEF MessagesInv, OutShape
<1>. SUFFICES ASSUME Live' PROVE Owned' /\ OnePlace'
  BY <1>4, <1>5, Zenon DEF MessagesInv
<1>6. Owned /\ OnePlace
  BY <1>1, Zenon DEF MessagesInv
<1>7. Owned'
  <2>1. OwnedOut(pc', seqid', meth', out')
    BY <1>1, <1>2, <1>6, StillWaited, StillSent, Zenon DEF Owned, OwnedOut
  <2>2. \A s \in requests' : Waits(pc', seqid', meth', s.seqid, s.fname)
    BY <1>1, <1>2, <1>6, StillWaited, Zenon DEF Owned
  <2>3. ASSUME NEW i \in 1..Len(back'), back'[i].item = "begin"
        PROVE  Waits(pc', seqid', meth', back'[i].seqid, back'[i].fname)
    <3>1. i \in 1..Len(back) \/ i = Len(back) + 1 \/ i = Len(back) + 2
      BY <1>3 DEF Extended
    <3>2. CASE i \in 1..Len(back)
      BY <1>1, <1>3, <1>6, <2>3, <3>2, StillWaited, Zenon DEF Extended, Owned, OwnedIn
    <3>3. CASE i = Len(back) + 1
      BY <1>1, <1>3, <1>6, <3>3, StillWaited, Zenon DEF Owned
    <3>. QED  BY <1>3, <2>3, <3>1, <3>2, <3>3, Zenon
  <2>4. OwnedHand(pc', seqid', meth', recvPending_', pending', header')
    BY <1>1, <1>6, HandsKept, Zenon DEF Owned
  <2>. QED  BY <2>1, <2>2, <2>3, <2>4, Zenon DEF Owned, OwnedIn
<1>8. OnePlace'
  <2>1. /\ \A n : InStream(back', n) <=> InStream(back, n) \/ n = r.seqid
        /\ OnceIn(back) /\ ~InStream(back, r.seqid) => OnceIn(back')
    BY <1>3, HeaderAdded, Zenon
  <2>2. InSet(requests, r.seqid)
    BY Zenon DEF InSet
  <2>3. \A n : InSet(requests', n) => InSet(requests, n) /\ n # r.seqid
    BY <1>2, <1>6, Zenon DEF InSet, OnePlace
  <2>4. \A n : InHand(recvPending_', pending', pc', header', n)
               <=> InHand(recvPending_, pending, pc, header, n)
    BY <1>1, HandsKept, Zenon
  <2>5. \A s, q \in requests' : s.seqid = q.seqid => s = q
    BY <1>2, <1>6, Zenon DEF OnePlace
  <2>. QED  BY <1>2, <1>6, <2>1, <2>2, <2>3, <2>4, <2>5, Zenon DEF OnePlace
<1>. QED  BY <1>7, <1>8, Zenon

\* What is said of the replies behind the first item holds of what is left of the stream.
LEMMA RestOfReplies ==
  ASSUME IInv, Paired, back # <<>>, back' = Tail(back)
  PROVE  /\ Dropped(back, back', 1) /\ Len(back) \in Nat \ {0} /\ Head(back) = back[1]
         /\ \A i \in 1..Len(back') - 1 :
              back'[i].item = "begin" => /\ back'[i + 1].of.seqid = back'[i].seqid
                                         /\ back'[i + 1].of.fname = back'[i].fname
         /\ \A i \in 1..Len(back') :
              back'[i].item = "struct" => back'[i].kind \in {"return", "io", "other", "future"}
         /\ back' # <<>> /\ back[1].item = "begin" =>
              back'[1].of.seqid = back[1].seqid /\ back'[1].of.fname = back[1].fname
<1>1. /\ Len(back) \in Nat \ {0} /\ Len(back') = Len(back) - 1
      /\ \A i \in 1..Len(back') : back'[i] = back[i + 1]
      /\ back' = <<>> <=> Len(back) = 1
  BY TailOfStream, Zenon
<1>2. Dropped(back, back', 1) /\ Len(back) \in Nat \ {0} /\ Head(back) = back[1]
  BY <1>1 DEF Dropped, IInv, TypeOK
<1>3. ASSUME NEW i \in 1..Len(back') - 1, back'[i].item = "begin"
      PROVE  back'[i + 1].of.seqid = back'[i].seqid /\ back'[i + 1].of.fname = back'[i].fname
  <2>1. i \in 1..Len(back') /\ i + 1 \in 1..Len(back') /\ i + 1 \in 1..Len(back) - 1
    BY <1>1
  <2>2. back'[i] = back[i + 1] /\ back'[i + 1] = back[(i + 1) + 1]
    BY <1>1, <2>1, Zenon
  <2>. QED  BY <1>3, <2>1, <2>2, Zenon DEF Paired
<1>4. \A i \in 1..Len(back') :
        back'[i].item = "struct" => back'[i].kind \in {"return", "io", "other", "future"}
  <2>1. \A i \in 1..Len(back') : i + 1 \in 1..Len(back)
    BY <1>1
  <2>. QED  BY <1>1, <2>1 DEF Paired
<1>5. ASSUME back' # <<>>, back[1].item = "begin"
      PROVE  back'[1].of.seqid = back[1].seqid /\ back'[1].of.fname = back[1].fname
  <2>1. 1 \in 1..Len(back) - 1 /\ 1 \in 1..Len(back')
    BY <1>1, <1>5
  <2>2. back'[1] = back[1 + 1]
    BY <1>1, <2>1, Zenon
  <2>. QED  BY <1>5, <2>1, <2>2, Zenon DEF Paired
<1>. QED  BY <1>2, <1>3, <1>4, <1>5, Zenon

\* readMessageBegin takes the header in hand; its structure is what comes next.
LEMMA readMessageBeginMessages ==
  ASSUME IInv, CallsInv, MessagesInv, NEW t \in Threads, readMessageBegin(t)
  PROVE  MessagesInv'
<1>. DEFINE h == [seqid |-> Head(back).seqid, fname |-> Head(back).fname, mtype |-> Head(back).mtype]
<1>1. /\ UNCHANGED <<out, requests, up, writeMutex, recvPending_, pending, seqid, meth>>
      /\ back # <<>> /\ Head(back).item = "begin" /\ back' = Tail(back)
      /\ header' = [header EXCEPT ![t] = h]
  BY Zenon DEF readMessageBegin, sync_vars
<1>2. h.seqid = Head(back).seqid /\ h.fname = Head(back).fname
  BY Zenon
<1>. HIDE DEF h
<1>3. pc[t] = "read" /\ pc'[t] \in Headed /\ Others(t)
  BY Moves, Zenon DEF Step
<1>4. ~recvPending_ /\ \A u \in Threads : pc[u] \notin Headed /\ (u # t => pc'[u] \notin Headed)
  BY <1>3, OnlyReader, Zenon DEF Others, Reading, Headed, IInv, PendingAlone
<1>5. WaitOn /\ SendOn
  <2>1. pc'[t] \in Waiting
    BY <1>3, Zenon DEF Headed, Waiting
  <2>. QED  BY <1>1, <1>3, <2>1, OthersWait, Zenon
<1>6. /\ Dropped(back, back', 1) /\ Len(back) \in Nat \ {0} /\ Head(back) = back[1]
      /\ \A i \in 1..Len(back') - 1 :
           back'[i].item = "begin" => /\ back'[i + 1].of.seqid = back'[i].seqid
                                      /\ back'[i + 1].of.fname = back'[i].fname
      /\ \A i \in 1..Len(back') :
           back'[i].item = "struct" => back'[i].kind \in {"return", "io", "other", "future"}
      /\ back' # <<>> /\ back[1].item = "begin" =>
           back'[1].of.seqid = back[1].seqid /\ back'[1].of.fname = back[1].fname
  BY <1>1, RestOfReplies, Zenon DEF MessagesInv
<1>7. back[1].item = "begin" /\ h.seqid = back[1].seqid /\ h.fname = back[1].fname
  BY <1>1, <1>2, <1>6, Zenon
<1>8. header'[t] = h
  BY <1>1, Zenon DEF CallsInv, Fields
<1>9. OutShape'
  BY <1>1 DEF MessagesInv, OutShape
<1>10. Paired'
  <2>1. \A u \in Threads : pc'[u] \in Headed /\ back' # <<>> =>
          back'[1].of.seqid = header'[u].seqid /\ back'[1].of.fname = header'[u].fname
    BY <1>4, <1>6, <1>7, <1>8, Zenon
  <2>2. ~up' => requests' = {}
    BY <1>1, Zenon DEF MessagesInv, Paired
  <2>3. ~recvPending_'
    BY <1>1, <1>4, Zenon
  <2>. QED  BY <1>6, <2>1, <2>2, <2>3, Zenon DEF Paired
<1>11. Owned /\ OnePlace
  BY <1>3, Zenon DEF MessagesInv, Live
<1>12. Owned'
  <2>1. up' => OwnedOut(pc', seqid', meth', out')
    BY <1>1, <1>5, <1>11, StillWaited, StillSent, Zenon DEF Owned, OwnedOut
  <2>2. \A r \in requests' : Waits(pc', seqid', meth', r.seqid, r.fname)
    BY <1>1, <1>5, <1>11, StillWaited, Zenon DEF Owned
  <2>3. OwnedIn(pc', seqid', meth', back')
    <3>1. \A i \in 1..Len(back') : i + 1 \in 1..Len(back) /\ back'[i] = back[i + 1]
      BY <1>6 DEF Dropped
    <3>. QED  BY <1>5, <1>11, <3>1, StillWaited, Zenon DEF Owned, OwnedIn
  <2>4. Waits(pc, seqid, meth, h.seqid, h.fname)
    <3>1. 1 \in 1..Len(back)
      BY <1>6
    <3>. QED  BY <1>7, <1>11, <3>1, Zenon DEF Owned, OwnedIn
  <2>5. Waits(pc', seqid', meth', h.seqid, h.fname)
    BY <1>5, <2>4, StillWaited, Zenon
  <2>6. ~recvPending_'
    BY <1>1, <1>4, Zenon
  <2>7. OwnedHand(pc', seqid', meth', recvPending_', pending', header')
    BY <1>4, <1>8, <2>5, <2>6, Zenon DEF OwnedHand
  <2>. QED  BY <2>1, <2>2, <2>3, <2>7, Zenon DEF Owned
<1>13. OnePlace'
  <2>1. /\ \A n : InStream(back', n) <=> InStream(back, n) /\ n # back[1].seqid
        /\ OnceIn(back') /\ InStream(back, back[1].seqid)
    BY <1>6, <1>7, <1>11, HeaderTaken DEF OnePlace
  <2>2. ~recvPending_'
    BY <1>1, <1>4, Zenon
  <2>3. \A n : InHand(recvPending_', pending', pc', header', n) => n = back[1].seqid
    BY <1>4, <1>7, <1>8, <2>2, Zenon DEF InHand
  <2>. QED  BY <1>1, <1>11, <2>1, <2>3, ZenonT(30) DEF OnePlace
<1>. QED  BY <1>9, <1>10, <1>12, <1>13, Zenon DEF MessagesInv

\* readResult takes the structure of the thread's own reply, whose number is nowhere else.
LEMMA readResultMessages ==
  ASSUME IInv, CallsInv, MessagesInv, NEW t \in Threads, readResult(t)
  PROVE  MessagesInv'
<1>1. /\ UNCHANGED <<out, requests, up, writeMutex, recvPending_, pending, seqid, meth, header>>
      /\ back # <<>> /\ Head(back).item = "struct" /\ back' = Tail(back)
  BY Zenon DEF readResult, sync_vars
<1>2. pc[t] = "mine" /\ pc'[t] = "exit" /\ Others(t)
  BY Moves, Zenon DEF Step
<1>3. ~recvPending_ /\ ~recvPending_' /\ \A u \in Threads : pc'[u] \notin Headed
  BY <1>1, <1>2, OnlyReader, Zenon DEF Others, Reading, Headed, IInv, PendingAlone
<1>4. SendOn
  BY <1>1, <1>2, OthersWait, Zenon
<1>5. /\ Dropped(back, back', 1) /\ Len(back) \in Nat \ {0} /\ Head(back) = back[1]
      /\ \A i \in 1..Len(back') - 1 :
           back'[i].item = "begin" => /\ back'[i + 1].of.seqid = back'[i].seqid
                                      /\ back'[i + 1].of.fname = back'[i].fname
      /\ \A i \in 1..Len(back') :
           back'[i].item = "struct" => back'[i].kind \in {"return", "io", "other", "future"}
  BY <1>1, RestOfReplies, Zenon DEF MessagesInv
<1>6. back[1].item = "struct"
  BY <1>1, <1>5, Zenon
<1>7. OutShape'
  BY <1>1, Zenon DEF MessagesInv, OutShape
<1>8. Paired'
  <2>1. ~up' => requests' = {}
    BY <1>1, Zenon DEF MessagesInv, Paired
  <2>. QED  BY <1>3, <1>5, <2>1, Zenon DEF Paired
<1>9. Owned /\ OnePlace
  BY <1>2, Zenon DEF MessagesInv, Live
<1>10. InHand(recvPending_, pending, pc, header, seqid[t])
  BY <1>2, Zenon DEF InHand, Headed, CallsInv, MineIsMine
<1>11. \A n, f : n # seqid[t] /\ Waits(pc, seqid, meth, n, f) => Waits(pc', seqid', meth', n, f)
  <2>1. \A u \in Threads : u # t /\ pc[u] \in Waiting => pc'[u] \in Waiting
    BY <1>2, Zenon DEF Others, Waiting
  <2>. QED  BY <1>1, <2>1, Zenon DEF Waits
<1>12. Owned'
  <2>1. ASSUME up' PROVE OwnedOut(pc', seqid', meth', out')
    <3>1. \A i \in 1..Len(out) : out[i].item = "begin" => out[i].seqid # seqid[t]
      BY <1>1, <1>9, <1>10, <2>1, Zenon DEF OnePlace, InStream
    <3>. QED  BY <1>1, <1>4, <1>9, <1>11, <2>1, <3>1, StillSent, Zenon DEF Owned, OwnedOut
  <2>2. \A r \in requests' : Waits(pc', seqid', meth', r.seqid, r.fname)
    <3>1. \A r \in requests : r.seqid # seqid[t]
      BY <1>9, <1>10, Zenon DEF OnePlace, InSet
    <3>. QED  BY <1>1, <1>9, <1>11, <3>1, Zenon DEF Owned
  <2>3. OwnedIn(pc', seqid', meth', back')
    <3>1. \A i \in 1..Len(back) : back[i].item = "begin" => back[i].seqid # seqid[t]
      BY <1>9, <1>10, Zenon DEF OnePlace, InStream
    <3>2. \A i \in 1..Len(back') : i + 1 \in 1..Len(back) /\ back'[i] = back[i + 1]
      BY <1>5 DEF Dropped
    <3>. QED  BY <1>9, <1>11, <3>1, <3>2, Zenon DEF Owned, OwnedIn
  <2>4. OwnedHand(pc', seqid', meth', recvPending_', pending', header')
    BY <1>3, Zenon DEF OwnedHand
  <2>. QED  BY <2>1, <2>2, <2>3, <2>4, Zenon DEF Owned
<1>13. OnePlace'
  <2>1. /\ \A n : InStream(back', n) <=> InStream(back, n)
        /\ OnceIn(back) => OnceIn(back')
    BY <1>5, <1>6, StructTaken, Zenon
  <2>2. \A n : ~InHand(recvPending_', pending', pc', header', n)
    BY <1>3, Zenon DEF InHand
  <2>. QED  BY <1>1, <1>9, <2>1, <2>2, Zenon DEF OnePlace
<1>. QED  BY <1>7, <1>8, <1>12, <1>13, Zenon DEF MessagesInv

\* Lose: of the replies on their way the first ones are left, and nothing else.
LEMMA LoseMessages == ASSUME IInv, MessagesInv, Lose PROVE MessagesInv'
<1>1. WaitOn /\ SendOn /\ SameHands /\ (Live' => Live) /\ writeMutex' = writeMutex
  BY ClientIdle, Zenon DEF Lose
<1>2. up' = FALSE /\ requests' = {} /\ out' = out
  BY Zenon DEF Lose
<1>3. PICK n \in 0..Len(back) : back' = SubSeq(back, 1, n)
  BY Zenon DEF Lose
<1>4. back \in Seq({back[i] : i \in DOMAIN back}) /\ Len(back) \in Nat
  BY DEF IInv, TypeOK
<1>5. Len(back') = n /\ n \in Nat /\ n <= Len(back) /\ \A i \in 1..n : back'[i] = back[i]
  BY <1>3, <1>4
<1>6. \A i \in 1..n : i \in 1..Len(back)
  BY <1>4, <1>5
<1>7. back' # <<>> => n # 0 /\ back # <<>> /\ back'[1] = back[1]
  <2>1. back' # <<>> => n # 0
    BY <1>3, <1>4
  <2>2. n # 0 => 1 \in 1..n /\ Len(back) # 0
    BY <1>4, <1>5
  <2>3. Len(back) # 0 => back # <<>>
    BY <1>4
  <2>. QED  BY <1>5, <2>1, <2>2, <2>3, Zenon
<1>8. OutShape'
  BY <1>2 DEF MessagesInv, OutShape
<1>9. Paired'
  <2>1. ASSUME NEW i \in 1..Len(back') - 1, back'[i].item = "begin"
        PROVE  back'[i + 1].of.seqid = back'[i].seqid /\ back'[i + 1].of.fname = back'[i].fname
    <3>1. i \in 1..n /\ i + 1 \in 1..n /\ i \in 1..Len(back) - 1
      BY <1>4, <1>5
    <3>2. back'[i] = back[i] /\ back'[i + 1] = back[i + 1]
      BY <1>5, <3>1, Zenon
    <3>. QED  BY <2>1, <3>1, <3>2, Zenon DEF MessagesInv, Paired
  <2>2. \A i \in 1..Len(back') :
          back'[i].item = "struct" => back'[i].kind \in {"return", "io", "other", "future"}
    BY <1>5, <1>6, Zenon DEF MessagesInv, Paired
  <2>3. \A u \in Threads : pc'[u] \in Headed => pc[u] \in Headed /\ header'[u] = header[u]
    BY <1>1, Zenon DEF SameHands
  <2>4. \A u \in Threads : pc'[u] \in Headed /\ back' # <<>> =>
          back'[1].of.seqid = header'[u].seqid /\ back'[1].of.fname = header'[u].fname
    BY <1>7, <2>3, Zenon DEF MessagesInv, Paired
  <2>5. recvPending_' = recvPending_ /\ pending' = pending
    BY <1>1, Zenon DEF SameHands
  <2>6. recvPending_' /\ back' # <<>> =>
          back'[1].of.seqid = pending'.seqid /\ back'[1].of.fname = pending'.fname
    BY <1>7, <2>5, Zenon DEF MessagesInv, Paired
  <2>. QED  BY <1>2, <2>1, <2>2, <2>4, <2>6, Zenon DEF Paired
<1>. SUFFICES ASSUME Live' PROVE Owned' /\ OnePlace'
  BY <1>8, <1>9, Zenon DEF MessagesInv
<1>10. Owned /\ OnePlace
  BY <1>1, Zenon DEF MessagesInv
<1>11. Owned'
  <2>1. OwnedIn(pc', seqid', meth', back')
    BY <1>1, <1>5, <1>6, <1>10, StillWaited, Zenon DEF Owned, OwnedIn
  <2>2. OwnedHand(pc', seqid', meth', recvPending_', pending', header')
    BY <1>1, <1>10, HandsKept, Zenon DEF Owned
  <2>. QED  BY <1>2, <2>1, <2>2, Zenon DEF Owned
<1>12. OnePlace'
  <2>1. \A k : InStream(back', k) => InStream(back, k)
    BY <1>5, <1>6, Zenon DEF InStream
  <2>2. OnceIn(back')
    <3>1. OnceIn(back)
      BY <1>10, Zenon DEF OnePlace
    <3>2. ASSUME NEW i \in 1..n, NEW j \in 1..n,
                 i # j /\ back'[i].item = "begin" /\ back'[j].item = "begin"
          PROVE  back'[i].seqid # back'[j].seqid
      <4>1. /\ i \in 1..Len(back) /\ back'[i] = back[i]
            /\ j \in 1..Len(back) /\ back'[j] = back[j]
        BY <1>5, <1>6, Zenon
      <4>. QED  BY <3>1, <3>2, <4>1, Zenon DEF OnceIn
    <3>3. Len(back') = n
      BY <1>5, Zenon
    <3>. QED  BY <3>2, <3>3, Zenon DEF OnceIn
  <2>3. \A k : InHand(recvPending_', pending', pc', header', k)
               <=> InHand(recvPending_, pending, pc, header, k)
    BY <1>1, HandsKept, Zenon
  <2>4. \A k : ~InSet(requests', k)
    BY <1>2, Zenon DEF InSet
  <2>. QED  BY <1>2, <1>10, <2>1, <2>2, <2>3, <2>4, Zenon DEF OnePlace
<1>. QED  BY <1>11, <1>12, Zenon

\* Every step keeps what is said of the requests and replies.
LEMMA NextMessages == ASSUME IInv, CallsInv, MessagesInv, [Next]_vars PROVE MessagesInv'
<1>0. Live' => Live
  BY LiveBefore, Zenon
<1>1. ASSUME NEW t \in Threads, NEW m, generateSeqId(t, m) PROVE MessagesInv'
  BY <1>0, <1>1, generateSeqIdMessages, Zenon
<1>2. ASSUME NEW t \in Threads, Step(t) PROVE MessagesInv'
  BY <1>0, <1>2, writeMessageBeginMessages, writeArgsMessages, getPendingMessages,
     ReadLostMessages, readMessageBeginMessages, readResultMessages, updatePendingMessages,
     QuietMessages, Zenon DEF Step
<1>3. CASE Server
  BY <1>3, ServerReadsMessages, ServerRepliesMessages, Zenon DEF Server
<1>4. CASE Lose
  BY <1>4, LoseMessages, Zenon
<1>5. CASE UNCHANGED vars
  <2>1. UNCHANGED <<client_vars, sync_vars>> /\ UNCHANGED <<out, requests, back, up>>
    BY <1>5, Zenon DEF vars, net_vars
  <2>. QED  BY <2>1, ClientIdle, MessagesKept, Zenon DEF SameStreams
<1>. QED  BY <1>1, <1>2, <1>3, <1>4, <1>5, Zenon DEF Next

\* recv_X gives a thread the structure of the reply to its own request.
LEMMA readResultOwn ==
  ASSUME IInv, CallsInv, MessagesInv, NEW t \in Threads, readResult(t)
  PROVE  /\ got'[t].of.seqid = seqid[t] /\ got'[t].of.fname = meth[t]
         /\ got'[t].kind \notin {"badseqid", "invalid"}
<1>1. pc[t] = "mine" /\ back # <<>> /\ Head(back).item = "struct"
  BY Zenon DEF readResult
<1>2. Head(back) = back[1] /\ 1 \in 1..Len(back)
  BY <1>1 DEF IInv, TypeOK
<1>3. /\ back[1].of.seqid = header[t].seqid /\ back[1].of.fname = header[t].fname
      /\ back[1].kind \in {"return", "io", "other", "future"}
  BY <1>1, <1>2, Zenon DEF MessagesInv, Paired, Headed
<1>4. header[t].seqid = seqid[t]
  BY <1>1, Zenon DEF CallsInv, MineIsMine
<1>5. header[t].fname = meth[t] /\ meth[t] \in Methods
  <2>1. PICK u \in Threads : pc[u] \in Waiting /\ seqid[u] = header[t].seqid /\ meth[u] = header[t].fname
    BY <1>1, Zenon DEF MessagesInv, Live, Owned, OwnedHand, Waits, Headed
  <2>2. pc[u] \in InCall /\ pc[t] \in InCall
    BY <1>1, <2>1, Zenon DEF InCall, Waiting
  <2>3. u = t
    BY <1>4, <2>1, <2>2, Zenon DEF CallsInv, NumbersDiffer
  <2>. QED  BY <2>1, <2>2, <2>3, Zenon DEF CallsInv, Fields
<1>6. header[t].fname = Interface[meth[t]].fname
  BY <1>5, NamesAssumption, Zenon
<1>. DEFINE m == Interface[meth[t]]
            k == CASE header[t].mtype = "exception" -> "application"
                   [] header[t].mtype # "exception" ->
                        IF header[t].fname # m.fname THEN "invalid"
                        ELSE IF Head(back).set \cap (Range(m.throws) \cup {"success"}) # {} THEN Head(back).kind
                        ELSE IF m.returns THEN "missing" ELSE "return"
<1>7. got' = [got EXCEPT ![t] = [kind |-> k, of |-> Head(back).of]]
  BY Zenon DEF readResult, Got
<1>8. k \in {"application", Head(back).kind, "missing", "return"}
  BY <1>6, Zenon
<1>. HIDE DEF k
<1>9. got'[t].kind = k /\ got'[t].of = Head(back).of
  BY <1>7, Zenon DEF CallsInv, Fields
<1>. QED  BY <1>2, <1>3, <1>4, <1>5, <1>8, <1>9, Zenon

\* Every step keeps OwnReply.
LEMMA NextOwn == ASSUME IInv, CallsInv, MessagesInv, OwnReply, [Next]_vars PROVE OwnReply'
<1>1. ASSUME NEW t \in Threads, NEW m, generateSeqId(t, m) PROVE OwnReply'
  <2>1. /\ meth' = [meth EXCEPT ![t] = m] /\ pc[t] = "idle"
        /\ got' = [got EXCEPT ![t] = [kind |-> "dead", of |-> None]] \/ got' = got
        /\ seqid' = seqid \/ seqid' = [seqid EXCEPT ![t] = nextseqid_]
    BY <1>1, Zenon DEF generateSeqId, Got
  <2>2. got'[t].kind \in {"dead", "none"}
    BY <2>1 DEF CallsInv, Fields, GotLate
  <2>3. \A u \in Threads : u # t => got'[u] = got[u] /\ seqid'[u] = seqid[u] /\ meth'[u] = meth[u]
    BY <2>1, Zenon DEF CallsInv, Fields
  <2>. QED  BY <2>2, <2>3, Zenon DEF OwnReply
<1>2. ASSUME NEW t \in Threads, Step(t) PROVE OwnReply'
  <2>1. \A u \in Threads : u # t => got'[u] = got[u] /\ seqid'[u] = seqid[u] /\ meth'[u] = meth[u]
    <3>1. \A u \in Threads : u # t => got'[u] = got[u]
      BY <1>2, StepKeeps, Zenon DEF Keeps, CallsInv, Fields
    <3>. QED  BY <1>2, <3>1, OthersFields, Zenon
  <2>. SUFFICES /\ got'[t].kind \in {"return", "io", "application", "missing"} =>
                     got'[t].of.seqid = seqid'[t] /\ got'[t].of.fname = meth'[t]
                /\ got'[t].kind \notin {"badseqid", "invalid"}
    BY <2>1, Zenon DEF OwnReply
  <2>2. CASE readResult(t)
    BY <2>2, readResultOwn, Zenon DEF readResult
  <2>3. CASE got'[t].kind \in {"none", "dead", "transport"}
    BY <2>3, Zenon
  <2>4. CASE got' = got /\ ~Return(t)
    BY <1>2, <2>4, OthersFields, Zenon DEF OwnReply
  <2>5. DOMAIN got = Threads
    BY Zenon DEF CallsInv, Fields
  <2>6. ASSUME NEW k \in {"none", "dead", "transport"}, Got(t, k, None) PROVE got'[t].kind \in {"none", "dead", "transport"}
    BY <2>5, <2>6, Zenon DEF Got
  <2>7. Return(t) => Got(t, "none", None)
    BY Zenon DEF Return
  <2>8. writeArgs(t) => got' = got \/ Got(t, "transport", None)
    BY Zenon DEF writeArgs
  <2>9. ReadLost(t) => Got(t, "transport", None)
    BY Zenon DEF ReadLost
  <2>10. getPending(t) => got' = got \/ Got(t, "dead", None)
    BY Zenon DEF getPending
  <2>11. waitForWork(t) => got' = got \/ Got(t, "dead", None)
    BY Zenon DEF waitForWork
  <2>12. updatePending(t) => got' = got
    <3>1. updatePending(t) => header[t].seqid \in monitors
      BY OwnerHasMonitor, Zenon DEF updatePending, Headed
    <3>. QED  BY <3>1, Zenon DEF updatePending
  <2>13. writeMessageBegin(t) \/ lockRead(t) \/ readMessageBegin(t) \/ waitForever(t) \/ wakeUp(t)
         \/ recvSentryEnds(t) => got' = got
    BY Zenon DEF writeMessageBegin, lockRead, readMessageBegin, waitForever, wakeUp, recvSentryEnds
  <2>14. CASE Return(t)
    BY <2>3, <2>6, <2>7, <2>14, Zenon
  <2>15. CASE ~Return(t) /\ ~readResult(t)
    <3>1. got' = got \/ \E k \in {"none", "dead", "transport"} : Got(t, k, None)
      BY <1>2, <2>8, <2>9, <2>10, <2>11, <2>12, <2>13, <2>15, Zenon DEF Step
    <3>. QED  BY <2>3, <2>4, <2>6, <2>15, <3>1, Zenon
  <2>. QED  BY <2>2, <2>14, <2>15, Zenon
<1>3. Server \/ Lose \/ UNCHANGED vars => UNCHANGED <<got, seqid, meth>>
  BY Zenon DEF Server, ServerReads, ServerReplies, Lose, vars, client_vars
<1>4. CASE UNCHANGED <<got, seqid, meth>>
  BY <1>4, Zenon DEF OwnReply
<1>. QED  BY <1>1, <1>2, <1>3, <1>4, Zenon DEF Next

\* The initial states have no call and no message.
LEMMA InitCalls == Init => CallsInv /\ MessagesInv /\ OwnReply
<1>. SUFFICES ASSUME Init PROVE CallsInv /\ MessagesInv /\ OwnReply
  BY Zenon
<1>1. CallsInv
  <2>1. Fields /\ WriteMutexHeld /\ NumbersDiffer
    BY NoThreadAssumption, Zenon DEF Init, Fields, WriteMutexHeld, NumbersDiffer, InCall, Waiting
  <2>2. GotLate /\ MineIsMine
    BY Zenon DEF Init, GotLate, MineIsMine, Nothing
  <2>. QED  BY <2>1, <2>2, Zenon DEF CallsInv
<1>2. out = <<>> /\ back = <<>> /\ requests = {} /\ recvPending_ = FALSE /\ writeMutex = NoThread
  BY Zenon DEF Init
<1>3. Len(out) = 0 /\ Len(back) = 0 /\ out \in Seq(Nat)
  BY <1>2
<1>4. \A t \in Threads : pc[t] \notin Headed
  BY Zenon DEF Init, Headed
<1>5. OutShape
  <2>1. out \in Seq({out[i] : i \in DOMAIN out})
    BY <1>3, OwnElements, Zenon
  <2>. QED  BY <1>2, <1>3, <2>1 DEF OutShape
<1>6. Paired
  BY <1>2, <1>3, <1>4 DEF Paired
<1>7. Owned
  BY <1>2, <1>3, <1>4 DEF Owned, OwnedOut, OwnedIn, OwnedHand
<1>8. OnePlace
  BY <1>2, <1>3 DEF OnePlace, OnceIn, InStream, InSet
<1>9. OwnReply
  BY Zenon DEF Init, Nothing, OwnReply
<1>. QED  BY <1>1, <1>5, <1>6, <1>7, <1>8, <1>9, Zenon DEF MessagesInv

\* recv_X, getPending and updatePending: whatever the order of the replies, whichever thread
\* reads a header and wherever the connection is lost, a thread gets the reply of its own
\* request, and none meets a number without a monitor or a reply of another method; for any
\* threads and plans, as long as no call gets a number that still has a monitor.
THEOREM RepliesReachTheirCalls == Spec /\ [][NumberFree]_vars => []OwnReply
<1>1. IInv /\ CallsInv /\ MessagesInv /\ OwnReply /\ [Next]_vars /\ [NumberFree]_vars
      => (CallsInv /\ MessagesInv /\ OwnReply)'
  BY NextCalls, NextMessages, NextOwn, Zenon
<1>. QED  BY <1>1, InitCalls, Invariance, PTL DEF Spec
=============================================================================
