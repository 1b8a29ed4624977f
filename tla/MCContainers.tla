---------------------------- MODULE MCContainers ----------------------------
(***************************************************************************)
(* One container per behaviour.  A fixed_buf of four bytes that can grow   *)
(* twice, on two byte values; a cyc_buf of four bytes, elastic or not,     *)
(* that can grow to eight; or the task lists of the thread pool, up to     *)
(* four tasks of two owners, with priorities that share a segment or one   *)
(* priority to a segment.  _repos, which takes its five branches only in   *)
(* larger rings, is checked on every position of the contents in 16 bytes. *)
(***************************************************************************)
EXTENDS FixedBuf, CycBuf, TaskQueue, TLC

CONSTANTS v1, v2

VARIABLE part

TwoValues == {v1, v2}
Alike == Permutations(TwoValues)
MCWorkloads == {{10, 20, 70}, {10, 70, 200}}

MCInit ==
  /\ part \in {"fixed", "cyc", "lists"}
  /\ Init /\ RingInit /\ ListsInit
  /\ part # "cyc" => ring.elastic
  /\ part # "lists" => priorities = {10, 20, 70}

InFixed == part = "fixed"
RestFixed == UNCHANGED <<part, ringVars, listsVars>>
InCyc == part = "cyc"
RestCyc == UNCHANGED <<part, vars, listsVars>>
InLists == part = "lists"
RestLists == UNCHANGED <<part, vars, ringVars>>

\* One disjunct per action of the Next of each component.
MCNext ==
  \/ InFixed /\ Clear /\ RestFixed
  \/ \E s \in Strings :
       \/ InFixed /\ Write(s) /\ RestFixed
       \/ InFixed /\ Fill(s) /\ RestFixed
  \/ \E n \in Lens :
       \/ InFixed /\ Read(n) /\ RestFixed
       \/ InFixed /\ WLock(n) /\ RestFixed
       \/ InFixed /\ WUnlock(n) /\ RestFixed
       \/ InFixed /\ RLock(n) /\ RestFixed
       \/ InFixed /\ RUnlock(n) /\ RestFixed
       \/ InFixed /\ ReserveCall(n) /\ RestFixed
  \/ InCyc /\ RingClear /\ RestCyc
  \/ \E s \in RingStrings :
       \/ InCyc /\ RingWrite(s) /\ RestCyc
       \/ InCyc /\ RingFill(s) /\ RestCyc
  \/ \E n \in RingLens :
       \/ InCyc /\ RingRead(n) /\ RestCyc
       \/ InCyc /\ RingWLock(n) /\ RestCyc
       \/ InCyc /\ RingWUnlock(n) /\ RestCyc
       \/ InCyc /\ RingRLock(n) /\ RestCyc
       \/ InCyc /\ RingRUnlock(n) /\ RestCyc
       \/ InCyc /\ RingReserveCall(n) /\ RestCyc
  \/ \E pri \in priorities, owner \in Owners, push \in BOOLEAN :
       InLists /\ AddTask(pri, owner, push) /\ RestLists
  \/ \E delay \in Delays, owner \in Owners : InLists /\ ScheduleTask(delay, owner) /\ RestLists
  \/ InLists /\ PopScheduled /\ RestLists
  \/ InLists /\ PopTask /\ RestLists
  \/ \E owner \in Owners : InLists /\ CancelTasks(owner) /\ RestLists
  \/ InLists /\ Tick /\ RestLists
MCSpec == MCInit /\ [][MCNext]_<<part, vars, ringVars, listsVars>>

\* A ring whose loans were mixed, or that lost its free byte, is not followed further.
Followed == sound

\* 16-byte rings of different bytes whose contents wrap
Wrapped(elastic) ==
  {[FreshRing(15, elastic) EXCEPT !.mem = [i \in 1..16 |-> i], !.beg = p[1], !.end = p[2]] :
     p \in {r \in (0..15) \X (0..15) : r[1] > r[2]}}

\* _repos keeps every stored byte in order and makes the contents contiguous, although
\* each of its cases rotates the ring in place, over its own bytes; cases 3 and 4 re-enter
\* it exactly once, as the asserts of lines 339 and 352 say.  (Checked once, in the initial
\* state of either kind of ring.)
ReposRotates ==
  part = "cyc" /\ (\E n \in Sizes : ring = FreshRing(n, ring.elastic)) =>
    \A b \in Wrapped(ring.elastic) :
      /\ \E r \in {Repos(b)} : RingContents(r) = RingContents(b) /\ r.beg <= r.end
      /\ ReposCase(b) = 3 => ReposCase(ReposStep(b)) = 1
      /\ ReposCase(b) = 4 => ReposCase(ReposStep(b)) = 2

=============================================================================
