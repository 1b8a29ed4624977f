------------------------------- MODULE CycBuf -------------------------------
(***************************************************************************)
(* cyc_buf of public/comm/buffer.h: a ring buffer that keeps one byte free *)
(* to tell full from empty, grows like fixed_buf, and lends contiguous     *)
(* regions (wlock, rlock), moving its contents (_repos) when the region    *)
(* asked for would wrap.                                                   *)
(*   gen    identity of the allocation    total  _total                    *)
(*   mem    mem[i] = _data[i-1]           beg, end  _pbeg - _data, _pend - _data *)
(*   rl, wl STATE_READ_LOCKED / STATE_WRITE_LOCKED                         *)
(*   elastic  the template parameter _Elastic                              *)
(* The names that fixed_buf has too begin with Ring here.                  *)
(***************************************************************************)
EXTENDS BufBase

CONSTANTS
  Elastics,   \* the values of the template parameter _Elastic
  RingLens    \* lengths passed to the operations, no more than the smallest ring holds

FreshRing(size, elastic) ==
  [elastic |-> elastic, gen |-> 0, total |-> DWORDAlign(size + 1),
   mem |-> [i \in 1..DWORDAlign(size + 1) |-> Junk],
   beg |-> 0, end |-> 0, rl |-> FALSE, wl |-> FALSE]

Size(b) == IF b.end >= b.beg THEN b.end - b.beg ELSE b.end - b.beg + b.total
Capacity(b) == b.total - 1

\* avail() is a size_t: one byte too many in the ring makes it huge.
HugeSize == 2147483647
RingAvail(b) == IF Size(b) <= Capacity(b) THEN Capacity(b) - Size(b) ELSE HugeSize

RingLocked(b) == b.rl \/ b.wl

\* the byte at distance k from _pbeg, and the stored bytes, oldest first (peek)
At(b, k) == b.mem[((b.beg + k) % b.total) + 1]
RingContents(b) == [k \in 1..Size(b) |-> At(b, k - 1)]

\* mutant of Reserve: the copy starts at _data instead of _pbeg
ReserveFromStart(b, n) ==
  LET t == DWORDAlign(n + 1)
  IN  IF RingLocked(b) \/ t <= b.total
      THEN b
      ELSE [b EXCEPT !.gen = @ + 1, !.total = t,
                     !.mem = [i \in 1..t |-> IF i <= Size(b) THEN b.mem[i] ELSE Junk],
                     !.beg = 0, !.end = Size(b)]

RingReserve(b, n) ==
  LET t == DWORDAlign(n + 1)
  IN  IF RingLocked(b) \/ t <= b.total
      THEN b
      ELSE [b EXCEPT !.gen = @ + 1, !.total = t,
                     !.mem = [i \in 1..t |-> IF i <= Size(b) THEN At(b, i - 1) ELSE Junk],
                     !.beg = 0, !.end = Size(b)]

RingMakeRoom(b, len) ==
  IF RingAvail(b) < len THEN RingReserve(b, GrowSize(Capacity(b), len - RingAvail(b))) ELSE b

\* memmove(_data + to, _data + from, n) on memory m
Moved(m, to, from, n) ==
  [i \in DOMAIN m |-> IF i > to /\ i <= to + n THEN m[i - to + from] ELSE m[i]]

\* memcpy(_data + at, s, Len(s)), as far as it stays inside the allocation
Stored(m, at, s) ==
  [i \in DOMAIN m |-> IF i > at /\ i <= at + Len(s) THEN s[i - at] ELSE m[i]]

\* the last lines of _repos: the contents start at _data
AtFront(b, m) == [b EXCEPT !.mem = m, !.beg = 0, !.end = Size(b)]

\* case 1: both parts are moved to the front
ReposFront(b, unuse, part1, part2) ==
  AtFront(b, Moved(Moved(b.mem, part1, 0, part2), 0, b.beg, part1))

\* case 2: part 1 behind part 2, then part 2 behind part 1
ReposMiddle(b, unuse, part1, part2) ==
  [b EXCEPT !.mem = Moved(Moved(@, part2, b.beg, part1), part1 + part2, 0, part2),
            !.beg = part2, !.end = part2 + part1 + part2]

\* case 3: the last unuse bytes of part 1 go in front of part 2, the rest of
\* part 1 to the end of the ring
ReposTail1(b, unuse, part1, part2) ==
  [b EXCEPT !.mem = Moved(Moved(Moved(@, unuse, 0, part2), 0, b.total - unuse, unuse),
                          b.beg + unuse, b.beg, part1 - unuse),
            !.beg = @ + unuse, !.end = b.beg]

\* mutant of ReposTail2: the front of part 2 is taken after it was shifted
ReposTail2Late(b, unuse, part1, part2) ==
  [b EXCEPT !.mem = Moved(Moved(Moved(@, part2, b.beg, part1), 0, unuse, part2 - unuse),
                          part1 + part2, 0, unuse),
            !.beg = b.end, !.end = @ - unuse]

\* case 4: the first unuse bytes of part 2 go behind part 1
ReposTail2(b, unuse, part1, part2) ==
  [b EXCEPT !.mem = Moved(Moved(Moved(@, part2, b.beg, part1), part1 + part2, 0, unuse),
                          0, unuse, part2 - unuse),
            !.beg = b.end, !.end = @ - unuse]

\* case 5: a new allocation
ReposCopy(b, unuse, part1, part2) ==
  [AtFront(b, [i \in DOMAIN b.mem |->
                 IF i <= part1 + part2 THEN At(b, i - 1) ELSE Junk])
   EXCEPT !.gen = @ + 1]

\* which of its branches _repos takes (0: the contents do not wrap)
ReposCase(b) ==
  LET unuse == b.beg - b.end
      part1 == b.total - b.beg
      part2 == b.end
  IN  IF b.beg <= b.end THEN 0
      ELSE IF part1 <= unuse THEN 1
      ELSE IF part2 <= unuse THEN 2
      ELSE IF part1 <= unuse * 2 /\ part2 <= part1 THEN 3
      ELSE IF part2 <= unuse * 2 /\ part1 <= part2 THEN 4
      ELSE 5

ReposStep(b) ==
  LET unuse == b.beg - b.end
      part1 == b.total - b.beg
      part2 == b.end
  IN  CASE ReposCase(b) = 0 -> AtFront(b, Moved(b.mem, 0, b.beg, Size(b)))
        [] ReposCase(b) = 1 -> ReposFront(b, unuse, part1, part2)
        [] ReposCase(b) = 2 -> ReposMiddle(b, unuse, part1, part2)
        [] ReposCase(b) = 3 -> ReposTail1(b, unuse, part1, part2)
        [] ReposCase(b) = 4 -> ReposTail2(b, unuse, part1, part2)
        [] ReposCase(b) = 5 -> ReposCopy(b, unuse, part1, part2)

\* Cases 3 and 4 call _repos once more (their asserts say it then ends).
Repos(b) == IF ReposCase(b) \in {3, 4} THEN ReposStep(ReposStep(b)) ELSE ReposStep(b)

RingReadOp(b, len) ==
  LET n == b.beg + Smaller(Size(b), len)
  IN  [b EXCEPT !.beg = IF n >= b.total THEN n - b.total ELSE n]

RingWriteOp(b, s) ==
  LET g == RingMakeRoom(b, Len(s))
      tail == g.total - g.end
  IN  IF tail >= Len(s)
      THEN [g EXCEPT !.mem = Stored(@, g.end, s), !.end = @ + Len(s)]
      ELSE [g EXCEPT !.mem = Stored(Stored(@, g.end, SubSeq(s, 1, tail)),
                                    0, SubSeq(s, tail + 1, Len(s))),
                     !.end = Len(s) - tail]

RingWLockOp(b, len) ==
  LET g == RingMakeRoom(b, len)
  IN  [(IF g.elastic /\ g.total - g.end < len THEN Repos(g) ELSE g) EXCEPT !.wl = TRUE]

\* mutant of WLockLen: the length is not cut at _last()
WLockLenFull(g, len) == len

\* the length wlock lends, given the buffer it leaves
WLockLen(g, len) == IF g.elastic THEN len ELSE Smaller(len, g.total - g.end)

RingWUnlockOk(b, p, len) ==
  /\ b.wl
  /\ p = <<b.gen, b.end>>
  /\ len <= RingAvail(b)
  /\ len <= b.total - b.end

RingWUnlockOp(b, len) == [b EXCEPT !.end = @ + len, !.wl = FALSE]

RingRLockOp(b, len) ==
  [(IF b.elastic /\ b.total - b.beg < Smaller(len, Size(b)) THEN Repos(b) ELSE b)
   EXCEPT !.rl = TRUE]

\* the length rlock lends, given the buffer it leaves
RLockLen(b, len) ==
  IF b.elastic THEN Smaller(len, Size(b)) ELSE Smaller(Smaller(len, Size(b)), b.total - b.beg)

RingRUnlockOk(b, p, len) ==
  /\ b.rl
  /\ p = <<b.gen, b.beg>>
  /\ len <= Size(b)
  /\ len <= b.total - b.beg

RingRUnlockOp(b, len) == [b EXCEPT !.beg = @ + len, !.rl = FALSE]

RingClearOp(b) == IF RingLocked(b) THEN b ELSE [b EXCEPT !.beg = 0, !.end = 0]
-----------------------------------------------------------------------------
VARIABLES
  ring,        \* the buffer
  wloan,      \* what the last wlock lent: pointer, length, bytes put there
  rloan,      \* what the last rlock lent: pointer, length, the bytes lent
  sound       \* so far no caller wrote or took a loan under the other loan, and
              \* the ring kept its free byte

ringVars == <<ring, wloan, rloan, sound>>

OneByteFree == Size(ring) <= Capacity(ring)
KeepsSound(disciplined) == sound' = (sound /\ disciplined /\ OneByteFree')

NoRingLoan == [p |-> <<0, 0>>, len |-> 0, s |-> <<>>]
RingStrings == UNION {[1..n -> Byte] : n \in RingLens}

RingInit ==
  /\ \E n \in Sizes, elastic \in Elastics : ring = FreshRing(n, elastic)
  /\ wloan = NoRingLoan /\ rloan = NoRingLoan
  /\ sound = TRUE

RingWrite(s) ==
  /\ ~ring.wl
  /\ ring' = RingWriteOp(ring, s)
  /\ ring'.total <= MaxTotal
  /\ KeepsSound(~ring.rl)
  /\ UNCHANGED <<wloan, rloan>>

RingRead(len) ==
  /\ ~ring.rl
  /\ ring' = RingReadOp(ring, len)
  /\ KeepsSound(TRUE)
  /\ UNCHANGED <<wloan, rloan>>

RingWLock(len) ==
  /\ ~ring.wl
  /\ ring' = RingWLockOp(ring, len)
  /\ ring'.total <= MaxTotal
  /\ wloan' = [p |-> <<ring'.gen, ring'.end>>, len |-> WLockLen(ring', len), s |-> <<>>]
  /\ KeepsSound(~ring.rl)
  /\ UNCHANGED rloan

\* The caller stores into the region it was lent, if that allocation still exists.
RingFill(s) ==
  /\ ring.wl /\ wloan.p[1] = ring.gen
  /\ wloan.s = <<>> /\ Len(s) <= wloan.len
  /\ wloan' = [wloan EXCEPT !.s = s]
  /\ ring' = [ring EXCEPT !.mem = Stored(@, wloan.p[2], s)]
  /\ KeepsSound(TRUE)
  /\ UNCHANGED rloan

RingWUnlock(len) ==
  /\ RingWUnlockOk(ring, wloan.p, len)
  /\ len <= Len(wloan.s)
  /\ ring' = RingWUnlockOp(ring, len)
  /\ wloan' = NoRingLoan
  /\ KeepsSound(TRUE)
  /\ UNCHANGED rloan

RingRLock(len) ==
  /\ ~ring.rl
  /\ ring' = RingRLockOp(ring, len)
  /\ rloan' = [p |-> <<ring'.gen, ring'.beg>>, len |-> RLockLen(ring', len),
               s |-> SubSeq(RingContents(ring), 1, RLockLen(ring', len))]
  /\ KeepsSound(~ring.wl)
  /\ UNCHANGED wloan

RingRUnlock(len) ==
  /\ RingRUnlockOk(ring, rloan.p, len)
  /\ len <= rloan.len
  /\ ring' = RingRUnlockOp(ring, len)
  /\ rloan' = NoRingLoan
  /\ KeepsSound(TRUE)
  /\ UNCHANGED wloan

RingReserveCall(n) ==
  /\ ring' = RingReserve(ring, n)
  /\ ring'.total <= MaxTotal
  /\ KeepsSound(TRUE)
  /\ UNCHANGED <<wloan, rloan>>

RingClear ==
  /\ ring' = RingClearOp(ring)
  /\ KeepsSound(TRUE)
  /\ UNCHANGED <<wloan, rloan>>

RingNext ==
  \/ \E s \in RingStrings : RingWrite(s) \/ RingFill(s)
  \/ \E n \in RingLens : \/ RingRead(n) \/ RingWLock(n) \/ RingWUnlock(n)
                         \/ RingRLock(n) \/ RingRUnlock(n) \/ RingReserveCall(n)
  \/ RingClear

RingSpec == RingInit /\ [][RingNext]_ringVars
-----------------------------------------------------------------------------
\* As long as callers do not mix loans, cyc_buf is a byte queue: every step appends
\* at the back, takes from the front, or loses the free byte of the ring.
RingFifo == INSTANCE ByteFifo WITH q <- RingContents(ring)
FifoWhileSound == [][sound' => RingFifo!Next]_ringVars

\* A write loan is inside the allocation and clear of unread bytes; a read loan
\* shows exactly the oldest bytes.
LoansExact ==
  sound =>
    /\ ring.wl => /\ wloan.p[2] + wloan.len <= ring.total
                  /\ \A k \in 0..(Size(ring) - 1) :
                       LET i == (ring.beg + k) % ring.total
                       IN  ~(wloan.p[2] <= i /\ i < wloan.p[2] + wloan.len)
    /\ ring.rl => SubSeq(ring.mem, rloan.p[2] + 1, rloan.p[2] + rloan.len) = rloan.s
=============================================================================
