------------------------------ MODULE FixedBuf ------------------------------
(***************************************************************************)
(* fixed_buf of public/comm/buffer.h: a growable linear byte buffer whose  *)
(* free tail (wlock) or filled head (rlock) can be lent to a caller, who   *)
(* fills or reads it in place and hands it back with wunlock / runlock.    *)
(*                                                                         *)
(* The buffer is a record, so that core_interface.cc's client can embed    *)
(* one:  gen    identity of the allocation _data points to                 *)
(*       total  _total                                                     *)
(*       mem    the bytes _data[0] .. _data[_total-1] (mem[i] = _data[i-1])*)
(*       ppos   _ppos - _data                                              *)
(*       rl, wl STATE_READ_LOCKED / STATE_WRITE_LOCKED                     *)
(* A pointer into the buffer is <<gen, offset>>.                           *)
(***************************************************************************)
EXTENDS BufBase

CONSTANT Lens      \* lengths passed to the operations

ASSUME BufAssumption ==
  /\ Sizes \subseteq Nat \ {0}
  /\ Lens \subseteq Nat
  /\ MaxTotal \in Nat
  /\ Junk \notin Byte

Fresh(size) ==
  [gen |-> 0, total |-> DWORDAlign(size),
   mem |-> [i \in 1..DWORDAlign(size) |-> Junk],
   ppos |-> 0, rl |-> FALSE, wl |-> FALSE]

Avail(b) == b.total - b.ppos
\* mutant of AnyLocked: only the writer's lock counts
WriteLockedOnly(b) == b.wl
AnyLocked(b) == b.rl \/ b.wl

Reserve(b, n) ==
  IF AnyLocked(b) \/ DWORDAlign(n) <= b.total
  THEN b
  ELSE [b EXCEPT !.gen = @ + 1,
                 !.total = DWORDAlign(n),
                 !.mem = [i \in 1..DWORDAlign(n) |->
                            IF i <= b.ppos THEN b.mem[i] ELSE Junk]]

Grow(b, inc) == Reserve(b, GrowSize(b.total, inc))

KeepRoom(b, len) == b

\* the room for len bytes that write and wlock ask for first
MakeRoom(b, len) == IF Avail(b) < len THEN Grow(b, len - Avail(b)) ELSE b

\* memcpy(_data + at, s, Len(s)), as far as it stays inside the allocation
Copied(b, at, s) ==
  [b EXCEPT !.mem = [i \in DOMAIN @ |->
                       IF i > at /\ i <= at + Len(s) THEN s[i - at] ELSE @[i]]]

\* mutant of DropFront: the memmove is missing
DropFrontNoMove(b, len) == [b EXCEPT !.ppos = @ - len]

\* memmove(_data, _data+len, size()-len); _ppos -= len
DropFront(b, len) ==
  [b EXCEPT !.mem = [i \in DOMAIN @ |->
                       IF i <= b.ppos - len THEN @[i + len] ELSE @[i]],
            !.ppos = @ - len]

Contents(b) == SubSeq(b.mem, 1, b.ppos)

WriteOp(b, s) ==
  LET g == MakeRoom(b, Len(s))
      n == Smaller(Len(s), g.total - g.ppos)
  IN  [Copied(g, g.ppos, SubSeq(s, 1, n)) EXCEPT !.ppos = @ + n]

ReadOp(b, len) == DropFront(b, Smaller(len, b.ppos))

WLockOp(b, len) == [MakeRoom(b, len) EXCEPT !.wl = TRUE]

\* mutant of WUnlockOk: the pointer is not compared
WUnlockAnyPtr(b, p, len) == b.wl /\ len <= Avail(b)

WUnlockOk(b, p, len) ==
  /\ b.wl
  /\ p = <<b.gen, b.ppos>>
  /\ len <= Avail(b)

WUnlockOp(b, len) == [b EXCEPT !.ppos = @ + len, !.wl = FALSE]

RUnlockOk(b, p, len) ==
  /\ b.rl
  /\ ~b.wl
  /\ p = <<b.gen, 0>>
  /\ len <= b.ppos

RUnlockOp(b, len) == [DropFront(b, len) EXCEPT !.rl = FALSE]

ClearOp(b) == IF AnyLocked(b) THEN b ELSE [b EXCEPT !.ppos = 0]
-----------------------------------------------------------------------------
VARIABLES
  buf,        \* the buffer
  wpend,      \* what the last wlock lent: pointer, length, bytes put there
  rpend,      \* what the last rlock lent: pointer and length
  overrun     \* the caller has stored beyond the allocation

vars == <<buf, wpend, rpend, overrun>>

Loan == [p : Nat \X Nat, len : Nat, s : Seq(Byte), underR : BOOLEAN]
NoLoan == [p |-> <<0, 0>>, len |-> 0, s |-> <<>>, underR |-> FALSE]

\* byte strings of the lengths in Lens
Strings == UNION {[1..n -> Byte] : n \in Lens}

Init ==
  /\ \E n \in Sizes : buf = Fresh(n)
  /\ wpend = NoLoan
  /\ rpend = NoLoan
  /\ overrun = FALSE

Write(s) ==
  /\ ~buf.wl
  /\ buf' = WriteOp(buf, s)
  /\ buf'.total <= MaxTotal
  /\ UNCHANGED <<wpend, rpend, overrun>>

Read(len) ==
  /\ ~buf.rl
  /\ buf' = ReadOp(buf, len)
  /\ UNCHANGED <<wpend, rpend, overrun>>

WLock(len) ==
  /\ ~buf.wl
  /\ buf' = WLockOp(buf, len)
  /\ buf'.total <= MaxTotal
  /\ wpend' = [p |-> <<buf'.gen, buf'.ppos>>, len |-> len, s |-> <<>>,
               underR |-> buf.rl]
  /\ UNCHANGED <<rpend, overrun>>

\* The caller stores up to the length it asked for at the pointer it was lent.
Fill(s) ==
  /\ buf.wl
  /\ wpend.s = <<>> /\ Len(s) <= wpend.len
  /\ wpend' = [wpend EXCEPT !.s = s]
  /\ buf' = Copied(buf, wpend.p[2], s)
  /\ overrun' = (overrun \/ wpend.p[2] + Len(s) > buf.total)
  /\ UNCHANGED rpend

WUnlock(len) ==
  /\ WUnlockOk(buf, wpend.p, len)
  /\ len <= Len(wpend.s)
  /\ buf' = WUnlockOp(buf, len)
  /\ wpend' = NoLoan
  /\ UNCHANGED <<rpend, overrun>>

RLock(len) ==
  /\ ~buf.rl
  /\ buf' = [buf EXCEPT !.rl = TRUE]
  /\ rpend' = [NoLoan EXCEPT !.p = <<buf.gen, 0>>, !.len = Smaller(len, buf.ppos)]
  /\ UNCHANGED <<wpend, overrun>>

RUnlock(len) ==
  /\ RUnlockOk(buf, rpend.p, len)
  /\ len <= rpend.len
  /\ buf' = RUnlockOp(buf, len)
  /\ rpend' = NoLoan
  /\ UNCHANGED <<wpend, overrun>>

ReserveCall(n) ==
  /\ buf' = Reserve(buf, n)
  /\ buf'.total <= MaxTotal
  /\ UNCHANGED <<wpend, rpend, overrun>>

Clear ==
  /\ buf' = ClearOp(buf)
  /\ UNCHANGED <<wpend, rpend, overrun>>

Next ==
  \/ \E s \in Strings : Write(s) \/ Fill(s)
  \/ \E n \in Lens :
       Read(n) \/ WLock(n) \/ WUnlock(n) \/ RLock(n) \/ RUnlock(n) \/ ReserveCall(n)
  \/ Clear

Spec == Init /\ [][Next]_vars
-----------------------------------------------------------------------------
\* Type invariant; the fill position never leaves the allocation.
TypeOK ==
  /\ buf \in [gen : Nat, total : Nat, mem : Seq(Byte \cup {Junk}), ppos : Nat,
              rl : BOOLEAN, wl : BOOLEAN]
  /\ Len(buf.mem) = buf.total
  /\ buf.ppos <= buf.total
  /\ wpend \in Loan
  /\ rpend \in Loan
  /\ overrun \in BOOLEAN

\* A reader of the buffer never gets a byte nobody stored: growth (reserve),
\* the memmove of read/runlock and the commit of a write loan keep the part
\* before _ppos made of stored bytes only.
OnlyStoredBytes == \A i \in 1..buf.ppos : buf.mem[i] \in Byte

\* fixed_buf is a byte queue: write and wunlock append, read and runlock take
\* from the front, reserve and the locks leave the contents alone.
F == INSTANCE ByteFifo WITH q <- Contents(buf)
IsByteFifo == F!Spec

\* wunlock commits exactly the bytes the caller stored in the region wlock lent
\* it, although read() may run between the two and moves _ppos.
WUnlockDelivers ==
  [][buf.wl /\ ~buf'.wl =>
       \E n \in 0..Len(wpend.s) :
         Contents(buf') = Contents(buf) \o SubSeq(wpend.s, 1, n)]_vars

\* While a read loan is out, the allocation it points into is neither replaced
\* nor changed in the lent bytes, whatever write, wlock, reserve or clear do.
ReadLoanStable ==
  [][buf.rl /\ buf'.rl =>
       /\ buf'.gen = buf.gen
       /\ SubSeq(buf'.mem, 1, rpend.len) = SubSeq(buf.mem, 1, rpend.len)]_vars

\* wlock does not shorten the length it was asked for (cyc_buf's does): the
\* region it lends lies inside the allocation unless a read loan was out, which
\* keeps _grow from growing.
WriteLoanFits ==
  buf.wl => \/ wpend.underR
            \/ wpend.p[1] = buf.gen /\ wpend.p[2] + wpend.len <= buf.total

\* A caller that stores no more than it asked for runs past the allocation only
\* when it took the write loan while a read loan was out.
OverrunOnlyUnderReadLoan ==
  overrun' /\ ~overrun => wpend.underR
OverrunNeedsReadLoan == [][OverrunOnlyUnderReadLoan]_vars
=============================================================================
