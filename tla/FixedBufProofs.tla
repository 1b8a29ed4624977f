--------------------------- MODULE FixedBufProofs ---------------------------
(***************************************************************************)
(* fixed_buf for every byte alphabet, every set of sizes and lengths and   *)
(* every growth bound: the buffer never leaves its allocation, a reader    *)
(* only gets stored bytes, and a caller that stays within the length it    *)
(* asked for overruns the allocation only under a read loan.  On the same  *)
(* invariant rests that fixed_buf implements ByteFifo, that the bytes of a *)
(* read loan stay, and that wunlock appends what was stored.               *)
(***************************************************************************)
EXTENDS FixedBuf, SequenceTheorems, TLAPS

BufType == [gen : Nat, total : Nat, mem : Seq(Byte \cup {Junk}), ppos : Nat,
            rl : BOOLEAN, wl : BOOLEAN]

\* The shape of a buffer: its memory is the allocation, _ppos lies inside.
BufOK(b) == b \in BufType /\ Len(b.mem) = b.total /\ b.ppos <= b.total

\* rounding up to four bytes never loses one
LEMMA AlignCovers == \A n \in Nat : DWORDAlign(n) \in Nat /\ DWORDAlign(n) >= n
BY SMT DEF DWORDAlign

\* a function on 1..n is a sequence of length n
LEMMA FcnIsSeq ==
  ASSUME NEW S, NEW n \in Nat, NEW f \in [1..n -> S]
  PROVE  f \in Seq(S) /\ Len(f) = n
BY SeqDef, SMT

\* reserve keeps the shape, the filled part and the locks, and, on a buffer
\* that is not lent, leaves at least the capacity asked for
LEMMA ReserveOK ==
  ASSUME NEW b, BufOK(b), NEW n \in Nat
  PROVE  /\ BufOK(Reserve(b, n))
         /\ Reserve(b, n).ppos = b.ppos
         /\ Reserve(b, n).rl = b.rl /\ Reserve(b, n).wl = b.wl
         /\ Reserve(b, n).total >= b.total
         /\ AnyLocked(b) => Reserve(b, n) = b
         /\ ~AnyLocked(b) => Reserve(b, n).total >= n
         /\ \A i \in 1..b.ppos : Reserve(b, n).mem[i] = b.mem[i]
<1>1. DWORDAlign(n) \in Nat /\ DWORDAlign(n) >= n
  BY AlignCovers, Zenon
<1>2. CASE AnyLocked(b) \/ DWORDAlign(n) <= b.total
  BY <1>1, <1>2 DEF Reserve, BufOK, BufType
<1>3. CASE ~(AnyLocked(b) \/ DWORDAlign(n) <= b.total)
  <2> DEFINE m == [i \in 1..DWORDAlign(n) |-> IF i <= b.ppos THEN b.mem[i] ELSE Junk]
  <2>1. b.mem \in [1..b.total -> Byte \cup {Junk}] /\ b.total \in Nat /\ b.ppos \in Nat
    BY LenProperties, Zenon DEF BufOK, BufType
  <2>2. m \in [1..DWORDAlign(n) -> Byte \cup {Junk}]
    BY <1>1, <1>3, <2>1 DEF BufOK
  <2>3. m \in Seq(Byte \cup {Junk}) /\ Len(m) = DWORDAlign(n)
    BY <1>1, <2>2, FcnIsSeq, Zenon
  <2>4. Reserve(b, n) = [b EXCEPT !.gen = @ + 1, !.total = DWORDAlign(n), !.mem = m]
    BY <1>3, Zenon DEF Reserve
  <2>5. \A i \in 1..b.ppos : m[i] = b.mem[i]
    BY <1>1, <1>3, <2>1 DEF BufOK
  <2> HIDE DEF m
  <2> DEFINE r == Reserve(b, n)
  <2>6. r \in BufType
    <3>1. b \in BufType /\ b.gen + 1 \in Nat
      BY DEF BufOK, BufType
    <3>2. r = [b EXCEPT !.gen = b.gen + 1, !.total = DWORDAlign(n), !.mem = m]
      BY <2>4, Zenon
    <3> QED
      BY <1>1, <2>3, <3>1, <3>2, Zenon DEF BufType
  <2>7. r.total = DWORDAlign(n) /\ r.mem = m /\ r.ppos = b.ppos
    BY <2>4, Zenon DEF BufOK, BufType
  <2>8. r.rl = b.rl /\ r.wl = b.wl
    BY <2>4, Zenon DEF BufOK, BufType
  <2> HIDE DEF r
  <2>9. BufOK(r) /\ r.total >= b.total /\ r.total >= n
    BY <1>1, <1>3, <2>1, <2>3, <2>6, <2>7 DEF BufOK
  <2> QED
    BY <1>3, <2>5, <2>7, <2>8, <2>9, Zenon DEF r
<1> QED
  BY <1>2, <1>3, Zenon

\* the growth policy adds at least the increment asked for
LEMMA GrowCovers == \A c, k \in Nat : GrowSize(c, k) \in Nat /\ GrowSize(c, k) >= c + k
BY SMT DEF GrowSize, Larger

\* _grow as write and wlock use it: the shape, the filled part and the locks
\* stay; without a lock the length asked for fits
LEMMA MakeRoomOK ==
  ASSUME NEW b, BufOK(b), NEW len \in Nat
  PROVE  /\ BufOK(MakeRoom(b, len))
         /\ MakeRoom(b, len).ppos = b.ppos
         /\ MakeRoom(b, len).rl = b.rl /\ MakeRoom(b, len).wl = b.wl
         /\ MakeRoom(b, len).total >= b.total
         /\ AnyLocked(b) => MakeRoom(b, len) = b
         /\ ~AnyLocked(b) => b.ppos + len <= MakeRoom(b, len).total
         /\ \A i \in 1..b.ppos : MakeRoom(b, len).mem[i] = b.mem[i]
<1>1. b.total \in Nat /\ b.ppos \in Nat /\ b.ppos <= b.total
  BY Zenon DEF BufOK, BufType
<1>2. CASE Avail(b) < len
  <2> DEFINE k == GrowSize(b.total, len - Avail(b))
  <2>1. len - Avail(b) \in Nat
    BY <1>1, <1>2 DEF Avail
  <2>2. k \in Nat /\ k >= b.ppos + len
    <3>1. k \in Nat /\ k >= b.total + (len - Avail(b))
      BY <1>1, <2>1, GrowCovers, Zenon
    <3> QED
      BY <1>1, <3>1 DEF Avail
  <2>3. MakeRoom(b, len) = Reserve(b, k)
    BY <1>2, Zenon DEF MakeRoom, Grow
  <2>4. Reserve(b, k).total \in Nat
    BY <2>2, ReserveOK, Zenon DEF BufOK, BufType
  <2> HIDE DEF k
  <2>5. ~AnyLocked(b) => b.ppos + len <= Reserve(b, k).total
    <3>1. ~AnyLocked(b) => Reserve(b, k).total >= k
      BY <2>2, ReserveOK, Zenon
    <3> QED
      BY <1>1, <2>2, <2>4, <3>1
  <2> QED
    BY <2>2, <2>3, <2>5, ReserveOK, SMTT(30)
<1>3. CASE ~(Avail(b) < len)
  BY <1>1, <1>3 DEF MakeRoom, Avail
<1> QED
  BY <1>2, <1>3, Zenon

\* replacing the memory by a function on the same indices keeps the type
LEMMA NewMem ==
  ASSUME NEW b, BufOK(b), NEW m \in [1..b.total -> Byte \cup {Junk}]
  PROVE  [b EXCEPT !.mem = m] \in BufType /\ Len(m) = b.total
<1>1. b \in BufType /\ b.total \in Nat
  BY Zenon DEF BufOK, BufType
<1>2. m \in Seq(Byte \cup {Junk}) /\ Len(m) = b.total
  BY <1>1, FcnIsSeq, Zenon
<1> QED
  BY <1>1, <1>2, Zenon DEF BufType

\* the memory of a buffer, as a function
LEMMA MemFcn ==
  ASSUME NEW b, BufOK(b)
  PROVE  /\ b.mem \in [1..b.total -> Byte \cup {Junk}] /\ DOMAIN b.mem = 1..b.total
         /\ b.total \in Nat /\ b.ppos \in Nat /\ b.ppos <= b.total
         /\ b.rl \in BOOLEAN /\ b.wl \in BOOLEAN
BY LenProperties, Zenon DEF BufOK, BufType

\* memcpy changes exactly the bytes it covers
LEMMA CopiedOK ==
  ASSUME NEW b, BufOK(b), NEW at \in Nat, NEW s \in Seq(Byte)
  PROVE  /\ BufOK(Copied(b, at, s))
         /\ Copied(b, at, s) = [b EXCEPT !.mem = Copied(b, at, s).mem]
         /\ \A i \in 1..b.total :
              Copied(b, at, s).mem[i] =
                IF i > at /\ i <= at + Len(s) THEN s[i - at] ELSE b.mem[i]
<1> DEFINE m == [i \in DOMAIN b.mem |->
                   IF i > at /\ i <= at + Len(s) THEN s[i - at] ELSE b.mem[i]]
<1>1. \A i \in 1..b.total : i > at /\ i <= at + Len(s) => s[i - at] \in Byte
  <2> SUFFICES ASSUME NEW i \in 1..b.total, i > at, i <= at + Len(s)
               PROVE  s[i - at] \in Byte
    BY Zenon
  <2>1. i - at \in 1..Len(s)
    BY MemFcn, LenProperties
  <2> QED
    BY <2>1, ElementOfSeq, Zenon
<1>2. m \in [1..b.total -> Byte \cup {Junk}]
  BY <1>1, MemFcn, Zenon
<1>3. Copied(b, at, s) = [b EXCEPT !.mem = m]
  BY Zenon DEF Copied
<1>4. \A i \in 1..b.total :
        m[i] = IF i > at /\ i <= at + Len(s) THEN s[i - at] ELSE b.mem[i]
  BY MemFcn, Zenon
<1> HIDE DEF m
<1>5. [b EXCEPT !.mem = m].mem = m /\ [b EXCEPT !.mem = m].total = b.total
      /\ [b EXCEPT !.mem = m].ppos = b.ppos
  BY Zenon DEF BufOK, BufType
<1>6. BufOK([b EXCEPT !.mem = m])
  BY <1>2, <1>5, NewMem, MemFcn, Zenon DEF BufOK
<1> QED
  BY <1>3, <1>4, <1>5, <1>6, Zenon

\* memmove to the front: the lent or read bytes leave, the rest shifts down and
\* everything behind the old fill position stays where it was
LEMMA DropFrontOK ==
  ASSUME NEW b, BufOK(b), NEW len \in 0..b.ppos
  PROVE  /\ BufOK(DropFront(b, len))
         /\ DropFront(b, len) = [b EXCEPT !.mem = DropFront(b, len).mem,
                                          !.ppos = b.ppos - len]
         /\ \A i \in 1..(b.ppos - len) : DropFront(b, len).mem[i] = b.mem[i + len]
         /\ \A i \in 1..b.total : i > b.ppos - len => DropFront(b, len).mem[i] = b.mem[i]
<1> DEFINE m == [i \in DOMAIN b.mem |-> IF i <= b.ppos - len THEN b.mem[i + len] ELSE b.mem[i]]
<1>1. b.ppos - len \in Nat /\ b.ppos - len <= b.total
      /\ \A i \in 1..(b.ppos - len) : i + len \in 1..b.total /\ i \in 1..b.total
  BY MemFcn
<1>2. m \in [1..b.total -> Byte \cup {Junk}]
  BY <1>1, MemFcn, SMTT(30)
<1>3. DropFront(b, len) = [b EXCEPT !.mem = m, !.ppos = b.ppos - len]
  BY Zenon DEF DropFront
<1>4. \A i \in 1..(b.ppos - len) : m[i] = b.mem[i + len]
  BY <1>1, MemFcn
<1>5. \A i \in 1..b.total : i > b.ppos - len => m[i] = b.mem[i]
  BY <1>1, MemFcn
<1> HIDE DEF m
<1> DEFINE r == [b EXCEPT !.mem = m, !.ppos = b.ppos - len]
<1>6. r.mem = m /\ r.total = b.total /\ r.ppos = b.ppos - len
  BY Zenon DEF BufOK, BufType
<1>7. r \in BufType
  <2>1. b \in BufType /\ m \in Seq(Byte \cup {Junk})
    BY <1>2, MemFcn, FcnIsSeq, Zenon DEF BufOK
  <2> QED
    BY <1>1, <2>1, Zenon DEF BufType
<1> HIDE DEF r
<1>8. BufOK(r)
  BY <1>1, <1>2, <1>6, <1>7, NewMem, Zenon DEF BufOK
<1> QED
  BY <1>3, <1>4, <1>5, <1>6, <1>8, Zenon DEF r
-----------------------------------------------------------------------------
(***************************************************************************)
(* The inductive invariant.  TypeOK and OnlyStoredBytes are not inductive  *)
(* alone: wunlock advances _ppos over bytes the caller stored, so it must  *)
(* be known that the lent region begins at or after _ppos (read() may have *)
(* moved _ppos back) and still holds what the caller stored there.         *)
(***************************************************************************)
LoanTypes ==
  /\ wpend \in Loan /\ rpend \in Loan
  /\ Len(wpend.s) <= wpend.len

LentRegionKept ==
  buf.wl => /\ buf.ppos <= wpend.p[2]
            /\ \A i \in 1..Len(wpend.s) :
                 wpend.p[2] + i <= buf.total => buf.mem[wpend.p[2] + i] = wpend.s[i]

IInv ==
  /\ BufOK(buf) /\ overrun \in BOOLEAN
  /\ LoanTypes
  /\ LentRegionKept
  /\ OnlyStoredBytes
  /\ WriteLoanFits

\* the byte strings the environment passes
LEMMA StringsAreSeqs == \A s \in Strings : s \in Seq(Byte)
<1> SUFFICES ASSUME NEW s \in Strings PROVE s \in Seq(Byte)
  BY Zenon
<1>1. PICK n \in Lens : s \in [1..n -> Byte]
  BY Zenon DEF Strings
<1> QED
  BY <1>1, FcnIsSeq, BufAssumption, Zenon

\* the fields of a loan
LEMMA LoanFields ==
  ASSUME NEW w \in Loan
  PROVE  w.p[2] \in Nat /\ w.len \in Nat /\ w.s \in Seq(Byte) /\ Len(w.s) \in Nat
BY LenProperties, Zenon DEF Loan

\* no loan is a loan of nothing
LEMMA NoLoanOK == NoLoan \in Loan /\ NoLoan.s = <<>> /\ NoLoan.len = 0
<1>1. <<>> \in Seq(Byte) /\ <<0, 0>> \in Nat \X Nat
  BY EmptySeq, Zenon
<1> QED
  BY <1>1, Zenon DEF NoLoan, Loan

LEMMA InitIInv == Init => IInv
<1> SUFFICES ASSUME Init PROVE IInv
  BY Zenon
<1>1. PICK n \in Sizes : buf = Fresh(n)
  BY Zenon DEF Init
<1>2. DWORDAlign(n) \in Nat
  BY AlignCovers, BufAssumption, Zenon
<1> DEFINE m == [i \in 1..DWORDAlign(n) |-> Junk]
<1>3. m \in Seq(Byte \cup {Junk}) /\ Len(m) = DWORDAlign(n)
  <2>1. m \in [1..DWORDAlign(n) -> Byte \cup {Junk}]
    BY Zenon
  <2> QED
    BY <1>2, <2>1, FcnIsSeq, Zenon
<1>4. buf = [gen |-> 0, total |-> DWORDAlign(n), mem |-> m, ppos |-> 0,
             rl |-> FALSE, wl |-> FALSE]
  BY <1>1, Zenon DEF Fresh
<1> HIDE DEF m
<1>5. buf \in BufType
  BY <1>2, <1>3, <1>4, Zenon DEF BufType
<1>6. BufOK(buf) /\ ~buf.wl /\ buf.ppos = 0
  BY <1>2, <1>3, <1>4, <1>5 DEF BufOK
<1>7. LoanTypes
  BY NoLoanOK, EmptySeq DEF Init, LoanTypes
<1>8. LentRegionKept /\ WriteLoanFits
  BY <1>6, Zenon DEF LentRegionKept, WriteLoanFits
<1>9. OnlyStoredBytes
  BY <1>6 DEF OnlyStoredBytes
<1> QED
  BY <1>6, <1>7, <1>8, <1>9, Zenon DEF Init, IInv

\* What an operation does to the filled part: it stays in place, and so does the
\* allocation while a read loan is out ...
Appended(b, c) ==
  /\ b.ppos <= c.ppos
  /\ \A i \in 1..b.ppos : c.mem[i] = b.mem[i]
  /\ b.rl => c.gen = b.gen

\* ... or its oldest bytes leave and the rest moves to the front.
Shifted(b, c) ==
  /\ c.ppos <= b.ppos
  /\ \A i \in 1..c.ppos : c.mem[i] = b.mem[i + (b.ppos - c.ppos)]

\* the operations, one lemma each: they keep the invariant, and what they do to
\* the filled part and to the locks

LEMMA WriteKeeps ==
  ASSUME IInv, NEW s \in Strings, Write(s)
  PROVE  IInv' /\ Appended(buf, buf') /\ buf'.rl = buf.rl
<1> DEFINE g == MakeRoom(buf, Len(s))
           n == Smaller(Len(s), g.total - g.ppos)
           t == SubSeq(s, 1, n)
           c == Copied(g, g.ppos, t)
<1>1. s \in Seq(Byte) /\ Len(s) \in Nat
  BY StringsAreSeqs, LenProperties, Zenon
<1>2. BufOK(g) /\ g.ppos = buf.ppos /\ \A i \in 1..buf.ppos : g.mem[i] = buf.mem[i]
  BY <1>1, MakeRoomOK, Zenon DEF IInv
<1>3. ~g.wl
  BY <1>1, MakeRoomOK DEF IInv, Write
<1>4. g.total \in Nat /\ g.ppos \in Nat /\ g.ppos <= g.total
  BY <1>2, MemFcn, Zenon
<1>5. n \in Nat /\ n <= Len(s) /\ g.ppos + n <= g.total
  BY <1>1, <1>4 DEF Smaller
<1>6. t \in Seq(Byte) /\ Len(t) = n
  <2>1. t \in Seq(Byte) /\ Len(t) = IF 1 <= n THEN n - 1 + 1 ELSE 0
    BY <1>1, <1>5, SubSeqProperties
  <2> QED
    BY <1>5, <2>1
<1> HIDE DEF g, n, t
<1>7. /\ BufOK(c) /\ c = [g EXCEPT !.mem = c.mem]
      /\ \A i \in 1..g.total : c.mem[i] = IF i > g.ppos /\ i <= g.ppos + Len(t)
                                        THEN t[i - g.ppos] ELSE g.mem[i]
  BY ZenonT(40), <1>2, <1>4, <1>6, CopiedOK
<1> HIDE DEF c
<1>8. buf' = [c EXCEPT !.ppos = g.ppos + n]
  <2>1. buf' = [c EXCEPT !.ppos = c.ppos + n]
    BY Zenon DEF Write, WriteOp, g, n, t, c
  <2>2. c.ppos = g.ppos
    BY <1>2, <1>7, Zenon DEF BufOK, BufType
  <2> QED
    BY <2>1, <2>2, Zenon
<1>9. c.total = g.total /\ c.wl = g.wl
  BY <1>2, <1>7, Zenon DEF BufOK, BufType
<1>10. buf'.mem = c.mem /\ buf'.total = g.total /\ buf'.ppos = g.ppos + n /\ buf'.wl = g.wl
  BY <1>7, <1>8, <1>9, Zenon DEF BufOK, BufType
<1>11. BufOK(buf')
  <2>1. g.ppos + n \in Nat
    BY <1>4, <1>5
  <2>2. c \in BufType
    BY <1>7, Zenon DEF BufOK
  <2>3. buf' \in BufType
    BY <1>8, <2>1, <2>2, Zenon DEF BufType
  <2> QED
    BY <1>5, <1>7, <1>9, <1>10, <2>3, Zenon DEF BufOK
<1>12. OnlyStoredBytes'
  <2> SUFFICES ASSUME NEW i \in 1..(g.ppos + n) PROVE c.mem[i] \in Byte
    BY <1>10, Zenon DEF OnlyStoredBytes
  <2>1. i \in 1..g.total
    BY <1>4, <1>5
  <2>2. CASE i <= g.ppos
    <3>1. c.mem[i] = g.mem[i] /\ i \in 1..buf.ppos
      BY <1>2, <1>4, <1>7, <2>1, <2>2
    <3> QED
      BY <1>2, <3>1, Zenon DEF IInv, OnlyStoredBytes
  <2>3. CASE i > g.ppos
    <3>1. c.mem[i] = t[i - g.ppos] /\ i - g.ppos \in 1..Len(t)
      BY <1>4, <1>5, <1>6, <1>7, <2>1, <2>3, SMTT(30)
    <3> QED
      BY <1>6, <3>1, ElementOfSeq, Zenon
  <2> QED
    BY <1>4, <2>2, <2>3
<1>13. LoanTypes' /\ overrun' \in BOOLEAN
  BY Zenon DEF Write, IInv, LoanTypes
<1>14. ~buf'.wl
  BY <1>3, <1>10, Zenon
<1>15. IInv'
  BY <1>11, <1>12, <1>13, <1>14, Zenon DEF IInv, LentRegionKept, WriteLoanFits
<1>16. buf'.gen = g.gen /\ buf'.rl = g.rl
  BY <1>2, <1>7, <1>8, Zenon DEF BufOK, BufType
<1>17. g.rl = buf.rl /\ (AnyLocked(buf) => g = buf)
  BY <1>1, MakeRoomOK, Zenon DEF IInv, g
<1>18. buf.rl => buf'.gen = buf.gen
  BY <1>16, <1>17, Zenon DEF AnyLocked
<1>19. buf.ppos <= buf'.ppos /\ \A i \in 1..buf.ppos : buf'.mem[i] = buf.mem[i]
  <2>1. buf.ppos <= buf'.ppos
    BY ONLY <1>2, <1>4, <1>5, <1>10
  <2>2. \A i \in 1..buf.ppos : i \in 1..g.total /\ ~(i > g.ppos)
    BY ONLY <1>2, <1>4
  <2>3. \A i \in 1..buf.ppos : c.mem[i] = g.mem[i]
    BY <1>7, <2>2, Zenon
  <2> QED
    BY <1>2, <1>10, <2>1, <2>3, Zenon
<1> QED
  BY <1>15, <1>16, <1>17, <1>18, <1>19, Zenon DEF Appended

LEMMA ReadKeeps ==
  ASSUME IInv, NEW len \in Lens, Read(len)
  PROVE  IInv' /\ Shifted(buf, buf') /\ ~buf'.rl /\ buf'.wl = buf.wl
<1> DEFINE k == Smaller(len, buf.ppos)
           d == DropFront(buf, k)
<1>1. buf.ppos \in Nat /\ buf.total \in Nat /\ buf.ppos <= buf.total /\ BufOK(buf)
  BY MemFcn, Zenon DEF IInv
<1>2. k \in 0..buf.ppos
  BY <1>1, BufAssumption DEF Smaller
<1> HIDE DEF k
<1>3. buf' = d
  BY Zenon DEF Read, ReadOp, k
<1>4. /\ BufOK(d) /\ d = [buf EXCEPT !.mem = d.mem, !.ppos = buf.ppos - k]
      /\ \A i \in 1..(buf.ppos - k) : d.mem[i] = buf.mem[i + k]
      /\ \A i \in 1..buf.total : i > buf.ppos - k => d.mem[i] = buf.mem[i]
  BY <1>1, <1>2, DropFrontOK, Zenon
<1> HIDE DEF d
<1>5. d.total = buf.total /\ d.ppos = buf.ppos - k /\ d.wl = buf.wl /\ d.gen = buf.gen
  BY <1>1, <1>4, Zenon DEF BufOK, BufType
<1>6. OnlyStoredBytes'
  <2> SUFFICES ASSUME NEW i \in 1..(buf.ppos - k) PROVE d.mem[i] \in Byte
    BY <1>3, <1>5, Zenon DEF OnlyStoredBytes
  <2>1. i + k \in 1..buf.ppos
    BY <1>1, <1>2
  <2> QED
    BY <1>4, <2>1, Zenon DEF IInv, OnlyStoredBytes
<1>7. UNCHANGED <<wpend, rpend, overrun>>
  BY Zenon DEF Read
<1>8. LentRegionKept'
  <2> SUFFICES ASSUME buf.wl
               PROVE  /\ d.ppos <= wpend.p[2]
                      /\ \A i \in 1..Len(wpend.s) :
                           wpend.p[2] + i <= d.total => d.mem[wpend.p[2] + i] = wpend.s[i]
    BY <1>3, <1>5, <1>7, Zenon DEF LentRegionKept
  <2>1. /\ wpend.p[2] \in Nat /\ buf.ppos <= wpend.p[2]
        /\ \A i \in 1..Len(wpend.s) :
             wpend.p[2] + i <= buf.total => buf.mem[wpend.p[2] + i] = wpend.s[i]
    BY LoanFields, Zenon DEF IInv, LentRegionKept, LoanTypes
  <2>2. d.ppos <= wpend.p[2]
    BY <1>1, <1>2, <1>5, <2>1
  <2>3. ASSUME NEW i \in 1..Len(wpend.s), wpend.p[2] + i <= buf.total
        PROVE  d.mem[wpend.p[2] + i] = wpend.s[i]
    <3>1. wpend.p[2] + i \in 1..buf.total /\ wpend.p[2] + i > buf.ppos - k
      <4>1. \A m \in Nat : buf.ppos <= m /\ m + i <= buf.total =>
                           m + i \in 1..buf.total /\ m + i > buf.ppos - k
        BY <1>1, <1>2
      <4> QED
        BY <2>1, <2>3, <4>1, Zenon
    <3> QED
      BY <1>4, <2>1, <2>3, <3>1, Zenon
  <2> QED
    BY <1>5, <2>2, <2>3, Zenon
<1>9. LoanTypes' /\ overrun' \in BOOLEAN /\ WriteLoanFits'
  BY <1>3, <1>5, <1>7, Zenon DEF IInv, LoanTypes, WriteLoanFits
<1>10. IInv'
  BY <1>3, <1>4, <1>6, <1>8, <1>9, Zenon DEF IInv
<1>11. d.rl = buf.rl
  BY <1>1, <1>4, Zenon DEF BufOK, BufType
<1>12. ~buf'.rl
  BY <1>3, <1>11, Zenon DEF Read
<1>13. Shifted(buf, buf')
  BY <1>1, <1>2, <1>3, <1>4, <1>5 DEF Shifted
<1> QED
  BY <1>3, <1>5, <1>10, <1>12, <1>13, Zenon

LEMMA WLockKeeps ==
  ASSUME IInv, NEW len \in Lens, WLock(len)
  PROVE  IInv' /\ Appended(buf, buf') /\ buf'.rl = buf.rl
<1> DEFINE g == MakeRoom(buf, len)
<1>1. len \in Nat /\ BufOK(buf)
  BY BufAssumption, Zenon DEF IInv
<1>2. /\ BufOK(g) /\ g.ppos = buf.ppos /\ \A i \in 1..buf.ppos : g.mem[i] = buf.mem[i]
      /\ ~AnyLocked(buf) => buf.ppos + len <= g.total
  BY <1>1, MakeRoomOK, Zenon
<1> HIDE DEF g
<1>3. buf' = [g EXCEPT !.wl = TRUE]
  BY Zenon DEF WLock, WLockOp, g
<1>4. /\ buf'.mem = g.mem /\ buf'.total = g.total /\ buf'.ppos = g.ppos
      /\ buf'.gen = g.gen
  BY <1>2, <1>3, Zenon DEF BufOK, BufType
<1>5. BufOK(buf')
  <2>1. g \in BufType
    BY <1>2, Zenon DEF BufOK
  <2>2. buf' \in BufType
    BY <1>3, <2>1, Zenon DEF BufType
  <2> QED
    BY <1>2, <1>4, <2>2, Zenon DEF BufOK
<1>6. wpend' = [p |-> <<buf'.gen, buf'.ppos>>, len |-> len, s |-> <<>>, underR |-> buf.rl]
      /\ UNCHANGED <<rpend, overrun>>
  BY Zenon DEF WLock
<1>7. /\ wpend'.p[1] = buf'.gen /\ wpend'.p[2] = buf'.ppos /\ wpend'.len = len
      /\ wpend'.s = <<>>
  BY <1>6, Zenon
<1>8. wpend'.underR = buf.rl
  BY <1>6, Zenon
<1>9. buf'.ppos \in Nat
  BY <1>5, MemFcn, Zenon
<1>10. LoanTypes' /\ overrun' \in BOOLEAN
  <2>1. buf'.gen \in Nat /\ buf.rl \in BOOLEAN
    BY <1>1, <1>5, Zenon DEF BufOK, BufType
  <2>2. <<buf'.gen, buf'.ppos>> \in Nat \X Nat /\ <<>> \in Seq(Byte)
    BY <1>9, <2>1, EmptySeq, Zenon
  <2>3. wpend' \in Loan
    BY <1>1, <1>6, <2>1, <2>2, Zenon DEF Loan
  <2>4. Len(wpend'.s) <= wpend'.len
    BY <1>1, <1>7, EmptySeq
  <2> QED
    BY <1>6, <2>3, <2>4, Zenon DEF IInv, LoanTypes
<1>11. LentRegionKept'
  <2>1. Len(wpend'.s) = 0
    BY <1>7
  <2> QED
    BY <1>7, <1>9, <2>1 DEF LentRegionKept
<1>12. WriteLoanFits'
  <2>1. CASE buf.rl
    BY <1>8, <2>1, Zenon DEF WriteLoanFits
  <2>2. CASE ~buf.rl
    <3>1. ~AnyLocked(buf)
      BY <2>2, Zenon DEF WLock, AnyLocked
    <3> QED
      BY <1>2, <1>4, <1>7, <3>1, Zenon DEF WriteLoanFits
  <2> QED
    BY <2>1, <2>2, Zenon
<1>13. OnlyStoredBytes'
  BY <1>2, <1>4, Zenon DEF IInv, OnlyStoredBytes
<1>14. IInv'
  BY <1>5, <1>10, <1>11, <1>12, <1>13, Zenon DEF IInv
<1>15. g.rl = buf.rl /\ (AnyLocked(buf) => g = buf)
  BY <1>1, MakeRoomOK, Zenon DEF g
<1>16. buf'.rl = g.rl
  BY <1>2, <1>3, Zenon DEF BufOK, BufType
<1>17. buf.rl => buf'.gen = buf.gen
  BY <1>4, <1>15, Zenon DEF AnyLocked
<1>18. buf.ppos <= buf'.ppos /\ \A i \in 1..buf.ppos : buf'.mem[i] = buf.mem[i]
  BY <1>2, <1>4, <1>9
<1> QED
  BY <1>14, <1>15, <1>16, <1>17, <1>18, Zenon DEF Appended

LEMMA FillKeeps ==
  ASSUME IInv, NEW s \in Strings, Fill(s)
  PROVE  IInv' /\ Appended(buf, buf') /\ buf'.rl = buf.rl /\ buf'.wl = buf.wl
<1> DEFINE a == wpend.p[2]
           c == Copied(buf, a, s)
<1>1. s \in Seq(Byte) /\ Len(s) \in Nat /\ BufOK(buf) /\ a \in Nat /\ wpend \in Loan
  BY StringsAreSeqs, LenProperties, LoanFields, Zenon DEF IInv, LoanTypes
<1>2. /\ BufOK(c) /\ c = [buf EXCEPT !.mem = c.mem]
      /\ \A i \in 1..buf.total : c.mem[i] = IF i > a /\ i <= a + Len(s)
                                          THEN s[i - a] ELSE buf.mem[i]
  BY <1>1, CopiedOK, ZenonT(30)
<1>3. buf' = c /\ rpend' = rpend /\ wpend' = [wpend EXCEPT !.s = s] /\ Len(s) <= wpend.len
  BY Zenon DEF Fill
<1>4. overrun' \in BOOLEAN
  BY Zenon DEF Fill, IInv
<1> HIDE DEF c
<1>5. c.total = buf.total /\ c.ppos = buf.ppos /\ c.gen = buf.gen /\ c.wl = buf.wl
  BY <1>1, <1>2, Zenon DEF BufOK, BufType
<1>6. wpend'.s = s /\ wpend'.p = wpend.p /\ wpend'.len = wpend.len
      /\ wpend'.underR = wpend.underR
  BY <1>1, <1>3, Zenon DEF Loan
<1>7. LoanTypes'
  <2>1. wpend' \in Loan
    BY <1>1, <1>3, Zenon DEF Loan
  <2> QED
    BY <1>3, <1>6, <2>1, Zenon DEF IInv, LoanTypes
<1>8. buf.ppos \in Nat /\ buf.total \in Nat /\ buf.ppos <= buf.total /\ buf.ppos <= a
  BY <1>1, MemFcn, Zenon DEF IInv, LentRegionKept, Fill
<1>9. OnlyStoredBytes'
  <2> SUFFICES ASSUME NEW i \in 1..buf.ppos PROVE c.mem[i] \in Byte
    BY <1>3, <1>5, Zenon DEF OnlyStoredBytes
  <2>1. c.mem[i] = buf.mem[i]
    BY <1>1, <1>2, <1>8
  <2> QED
    BY <2>1, Zenon DEF IInv, OnlyStoredBytes
<1>10. LentRegionKept'
  <2>1. ASSUME NEW i \in 1..Len(s), a + i <= buf.total
        PROVE  c.mem[a + i] = s[i]
    <3>1. a + i \in 1..buf.total /\ a + i > a /\ a + i <= a + Len(s) /\ (a + i) - a = i
      BY <1>1, <1>8, <2>1, SMTT(30)
    <3> QED
      BY <1>2, <3>1, Zenon
  <2> QED
    BY <1>3, <1>5, <1>6, <1>8, <2>1 DEF LentRegionKept
<1>11. WriteLoanFits'
  BY <1>3, <1>5, <1>6, Zenon DEF IInv, WriteLoanFits
<1>12. IInv'
  BY <1>2, <1>3, <1>4, <1>7, <1>9, <1>10, <1>11, Zenon DEF IInv
<1>13. buf'.rl = buf.rl
  BY <1>1, <1>2, <1>3, Zenon DEF BufOK, BufType
<1>14. Appended(buf, buf')
  BY <1>1, <1>2, <1>3, <1>5, <1>8, SMTT(30) DEF Appended
<1> QED
  BY <1>3, <1>5, <1>12, <1>13, <1>14, Zenon

LEMMA WUnlockKeeps ==
  ASSUME IInv, NEW len \in Lens, WUnlock(len)
  PROVE  IInv' /\ Appended(buf, buf') /\ buf'.rl = buf.rl
<1> DEFINE a == wpend.p[2]
<1>1. BufOK(buf) /\ buf.ppos \in Nat /\ buf.total \in Nat /\ len \in Nat
  BY MemFcn, BufAssumption, Zenon DEF IInv
<1>2. buf.wl /\ wpend.p = <<buf.gen, buf.ppos>> /\ buf.ppos + len <= buf.total
      /\ len <= Len(wpend.s)
  BY <1>1 DEF WUnlock, WUnlockOk, Avail
<1>3. buf' = [buf EXCEPT !.ppos = buf.ppos + len, !.wl = FALSE]
      /\ wpend' = NoLoan /\ rpend' = rpend /\ overrun' = overrun
  BY Zenon DEF WUnlock, WUnlockOp
<1>4. buf'.ppos = buf.ppos + len /\ buf'.mem = buf.mem /\ buf'.total = buf.total
  BY <1>1, <1>3, Zenon DEF BufOK, BufType
<1>5. ~buf'.wl
  BY <1>1, <1>3, Zenon DEF BufOK, BufType
<1>6. BufOK(buf')
  <2>1. buf \in BufType /\ buf.ppos + len \in Nat
    BY <1>1 DEF BufOK
  <2>2. buf' \in BufType
    BY <1>3, <2>1, Zenon DEF BufType
  <2> QED
    BY <1>1, <1>2, <1>4, <2>2, Zenon DEF BufOK
<1>7. LoanTypes'
  BY <1>3, NoLoanOK, EmptySeq DEF IInv, LoanTypes
<1>8. OnlyStoredBytes'
  <2> SUFFICES ASSUME NEW i \in 1..(buf.ppos + len) PROVE buf.mem[i] \in Byte
    BY <1>4, Zenon DEF OnlyStoredBytes
  <2>1. CASE i <= buf.ppos
    BY <1>1, <2>1 DEF IInv, OnlyStoredBytes
  <2>2. CASE i > buf.ppos
    <3>1. wpend.s \in Seq(Byte) /\ Len(wpend.s) \in Nat
      BY LoanFields, Zenon DEF IInv, LoanTypes
    <3>2. wpend.p[2] = buf.ppos
      BY <1>2
    <3>3. /\ i - buf.ppos \in 1..Len(wpend.s)
          /\ buf.ppos + (i - buf.ppos) <= buf.total
          /\ buf.ppos + (i - buf.ppos) = i
      BY <1>1, <1>2, <2>2, <3>1, SMTT(30)
    <3>4. buf.mem[buf.ppos + (i - buf.ppos)] = wpend.s[i - buf.ppos]
      BY <1>2, <3>2, <3>3, Zenon DEF IInv, LentRegionKept
    <3> QED
      BY <3>1, <3>3, <3>4, ElementOfSeq, Zenon
  <2> QED
    BY <1>1, <2>1, <2>2
<1>9. LentRegionKept' /\ WriteLoanFits'
  BY <1>5, Zenon DEF LentRegionKept, WriteLoanFits
<1>10. IInv'
  BY <1>3, <1>6, <1>7, <1>8, <1>9, Zenon DEF IInv
<1>11. buf'.rl = buf.rl /\ buf'.gen = buf.gen
  BY <1>1, <1>3, Zenon DEF BufOK, BufType
<1>12. Appended(buf, buf')
  BY <1>1, <1>4, <1>11 DEF Appended
<1> QED
  BY <1>10, <1>11, <1>12, Zenon

LEMMA RLockKeeps ==
  ASSUME IInv, NEW len \in Lens, RLock(len)
  PROVE  /\ IInv' /\ Appended(buf, buf') /\ ~buf.rl /\ buf'.wl = buf.wl
         /\ rpend'.len <= buf'.ppos
<1>1. buf' = [buf EXCEPT !.rl = TRUE] /\ wpend' = wpend /\ overrun' = overrun
      /\ rpend' = [NoLoan EXCEPT !.p = <<buf.gen, 0>>, !.len = Smaller(len, buf.ppos)]
  BY Zenon DEF RLock
<1>2. buf \in BufType /\ BufOK(buf)
  BY Zenon DEF IInv, BufOK
<1>3. /\ buf'.mem = buf.mem /\ buf'.total = buf.total /\ buf'.ppos = buf.ppos
      /\ buf'.gen = buf.gen /\ buf'.wl = buf.wl
  BY <1>1, <1>2, Zenon DEF BufType
<1>4. BufOK(buf')
  <2>1. buf' \in BufType
    BY <1>1, <1>2, Zenon DEF BufType
  <2> QED
    BY <1>2, <1>3, <2>1, Zenon DEF BufOK
<1>5. rpend' \in Loan
  <2>1. Smaller(len, buf.ppos) \in Nat /\ <<buf.gen, 0>> \in Nat \X Nat
    BY <1>2, BufAssumption, Zenon DEF BufType, Smaller
  <2>2. NoLoan \in Loan
    BY NoLoanOK, Zenon
  <2> QED
    BY <1>1, <2>1, <2>2, Zenon DEF Loan
<1>6. LoanTypes' /\ LentRegionKept' /\ OnlyStoredBytes' /\ WriteLoanFits'
  BY <1>1, <1>3, <1>5, Zenon DEF IInv, LoanTypes, LentRegionKept, OnlyStoredBytes, WriteLoanFits
<1>7. IInv'
  BY <1>1, <1>4, <1>6, Zenon DEF IInv
<1>8. buf.ppos \in Nat /\ rpend'.len = Smaller(len, buf.ppos)
  <2>1. rpend' = [p |-> <<buf.gen, 0>>, len |-> Smaller(len, buf.ppos), s |-> <<>>,
                  underR |-> FALSE]
    BY <1>1, Zenon DEF NoLoan
  <2> QED
    BY <1>2, <2>1, Zenon DEF BufType
<1>9. rpend'.len <= buf'.ppos /\ buf.ppos <= buf'.ppos
  BY <1>3, <1>8, BufAssumption DEF Smaller
<1>10. Appended(buf, buf') /\ ~buf.rl
  BY <1>3, <1>9, Zenon DEF Appended, RLock
<1> QED
  BY <1>3, <1>7, <1>9, <1>10, Zenon

LEMMA RUnlockKeeps ==
  ASSUME IInv, NEW len \in Lens, RUnlock(len)
  PROVE  IInv' /\ Shifted(buf, buf') /\ ~buf'.rl /\ ~buf.wl
<1> DEFINE d == DropFront(buf, len)
<1>1. BufOK(buf) /\ buf.ppos \in Nat /\ len \in 0..buf.ppos
  BY MemFcn, BufAssumption DEF IInv, RUnlock, RUnlockOk
<1>2. /\ BufOK(d) /\ d = [buf EXCEPT !.mem = d.mem, !.ppos = buf.ppos - len]
      /\ \A i \in 1..(buf.ppos - len) : d.mem[i] = buf.mem[i + len]
  BY <1>1, DropFrontOK, Zenon
<1>3. buf' = [d EXCEPT !.rl = FALSE] /\ rpend' = NoLoan /\ wpend' = wpend
      /\ overrun' = overrun
  BY Zenon DEF RUnlock, RUnlockOp
<1> HIDE DEF d
<1>4. d.ppos = buf.ppos - len /\ d.wl = buf.wl
  BY <1>1, <1>2, Zenon DEF BufOK, BufType
<1>5. /\ buf'.mem = d.mem /\ buf'.total = d.total /\ buf'.ppos = buf.ppos - len
      /\ buf'.wl = buf.wl
  BY <1>2, <1>3, <1>4, Zenon DEF BufOK, BufType
<1>6. ~buf'.wl
  BY <1>5, Zenon DEF RUnlock, RUnlockOk
<1>7. BufOK(buf')
  <2>1. d \in BufType
    BY <1>2, Zenon DEF BufOK
  <2>2. buf' \in BufType
    BY <1>3, <2>1, Zenon DEF BufType
  <2> QED
    BY <1>2, <1>4, <1>5, <2>2, Zenon DEF BufOK
<1>8. OnlyStoredBytes'
  <2> SUFFICES ASSUME NEW i \in 1..(buf.ppos - len) PROVE d.mem[i] \in Byte
    BY <1>5, Zenon DEF OnlyStoredBytes
  <2>1. i + len \in 1..buf.ppos
    BY <1>1
  <2> QED
    BY <1>2, <2>1, Zenon DEF IInv, OnlyStoredBytes
<1>9. LentRegionKept' /\ WriteLoanFits'
  BY <1>6, Zenon DEF LentRegionKept, WriteLoanFits
<1>10. LoanTypes' /\ overrun' \in BOOLEAN
  BY <1>3, NoLoanOK, Zenon DEF IInv, LoanTypes
<1>11. IInv'
  BY <1>7, <1>8, <1>9, <1>10, Zenon DEF IInv
<1>12. ~buf'.rl
  BY <1>2, <1>3, Zenon DEF BufOK, BufType
<1>13. Shifted(buf, buf')
  BY <1>1, <1>2, <1>5 DEF Shifted
<1> QED
  BY <1>11, <1>12, <1>13, Zenon DEF RUnlock, RUnlockOk

LEMMA ReserveKeeps ==
  ASSUME IInv, NEW n \in Lens, ReserveCall(n)
  PROVE  IInv' /\ Appended(buf, buf') /\ buf'.rl = buf.rl /\ buf'.wl = buf.wl
<1>1. BufOK(buf) /\ n \in Nat /\ buf' = Reserve(buf, n) /\ UNCHANGED <<wpend, rpend, overrun>>
  BY BufAssumption, Zenon DEF IInv, ReserveCall
<1>2. CASE AnyLocked(buf)
  <2>1. buf' = buf
    BY <1>1, <1>2, Zenon DEF Reserve
  <2>2. Appended(buf, buf')
    BY <1>1, <2>1, MemFcn DEF Appended
  <2> QED
    BY <1>1, <2>1, <2>2, Zenon DEF IInv, LoanTypes, LentRegionKept, OnlyStoredBytes, WriteLoanFits
<1>3. CASE ~AnyLocked(buf)
  <2>1. BufOK(buf') /\ buf'.ppos = buf.ppos /\ \A i \in 1..buf.ppos : buf'.mem[i] = buf.mem[i]
    BY <1>1, ReserveOK, Zenon
  <2>2. ~buf'.wl
    <3>1. buf'.wl = buf.wl
      BY <1>1, ReserveOK, Zenon
    <3> QED
      BY <1>3, <3>1, Zenon DEF AnyLocked
  <2>3. OnlyStoredBytes'
    BY <2>1, Zenon DEF IInv, OnlyStoredBytes
  <2>4. LentRegionKept' /\ WriteLoanFits'
    BY <2>2, Zenon DEF LentRegionKept, WriteLoanFits
  <2>5. IInv'
    BY <1>1, <2>1, <2>3, <2>4, Zenon DEF IInv, LoanTypes
  <2>6. buf'.rl = buf.rl /\ buf'.wl = buf.wl
    BY <1>1, ReserveOK, Zenon
  <2>7. ~buf.rl
    BY <1>3, Zenon DEF AnyLocked
  <2>8. Appended(buf, buf')
    BY <1>1, <2>1, <2>7, MemFcn DEF Appended
  <2> QED
    BY <2>5, <2>6, <2>8, Zenon
<1> QED
  BY <1>2, <1>3, Zenon

LEMMA ClearKeeps ==
  ASSUME IInv, Clear
  PROVE  /\ IInv' /\ buf'.rl = buf.rl /\ buf'.wl = buf.wl
         /\ Appended(buf, buf') \/ (Shifted(buf, buf') /\ ~buf'.rl)
<1>1. UNCHANGED <<wpend, rpend, overrun>> /\ BufOK(buf)
  BY Zenon DEF Clear, IInv
<1>2. CASE AnyLocked(buf)
  <2>1. buf' = buf
    BY <1>2, Zenon DEF Clear, ClearOp
  <2>2. Appended(buf, buf')
    BY <1>1, <2>1, MemFcn DEF Appended
  <2> QED
    BY <1>1, <2>1, <2>2, Zenon DEF IInv, LoanTypes, LentRegionKept, OnlyStoredBytes, WriteLoanFits
<1>3. CASE ~AnyLocked(buf)
  <2>1. buf' = [buf EXCEPT !.ppos = 0]
    BY <1>3, Zenon DEF Clear, ClearOp
  <2>2. buf \in BufType /\ 0 \in Nat
    BY <1>1, Zenon DEF BufOK
  <2>3. buf' \in BufType
    BY <2>1, <2>2, Zenon DEF BufType
  <2>4. buf'.ppos = 0 /\ buf'.mem = buf.mem /\ buf'.total = buf.total /\ buf'.wl = buf.wl
    BY <2>1, <2>2, Zenon DEF BufType
  <2>5. ~buf'.wl
    BY <1>3, <2>4, Zenon DEF AnyLocked
  <2>6. BufOK(buf') /\ OnlyStoredBytes'
    BY <1>1, <2>3, <2>4, MemFcn DEF BufOK, OnlyStoredBytes
  <2>7. LentRegionKept' /\ WriteLoanFits'
    BY <2>5, Zenon DEF LentRegionKept, WriteLoanFits
  <2>8. IInv'
    BY <1>1, <2>6, <2>7, Zenon DEF IInv, LoanTypes
  <2>9. buf'.rl = buf.rl
    BY <2>1, <2>2, Zenon DEF BufType
  <2>10. ~buf'.rl
    BY <1>3, <2>9, Zenon DEF AnyLocked
  <2>11. Shifted(buf, buf')
    BY <2>2, <2>4 DEF Shifted, BufType
  <2> QED
    BY <2>4, <2>8, <2>9, <2>10, <2>11, Zenon
<1> QED
  BY <1>2, <1>3, Zenon

\* Every operation of fixed_buf, and every store of a caller into a region it
\* was lent, preserves the invariant.
LEMMA NextIInv == IInv /\ [Next]_vars => IInv'
<1> SUFFICES ASSUME IInv, [Next]_vars PROVE IInv'
  BY Zenon
<1>1. CASE UNCHANGED vars
  BY <1>1, Zenon DEF vars, IInv, LoanTypes, LentRegionKept, OnlyStoredBytes, WriteLoanFits
<1>2. ASSUME NEW s \in Strings, Write(s) \/ Fill(s) PROVE IInv'
  BY <1>2, WriteKeeps, FillKeeps, Zenon
<1>3. ASSUME NEW n \in Lens,
             Read(n) \/ WLock(n) \/ WUnlock(n) \/ RLock(n) \/ RUnlock(n) \/ ReserveCall(n)
      PROVE  IInv'
  BY <1>3, ReadKeeps, WLockKeeps, WUnlockKeeps, RLockKeeps, RUnlockKeeps, ReserveKeeps, Zenon
<1>4. CASE Clear
  BY <1>4, ClearKeeps, Zenon
<1> QED
  BY <1>1, <1>2, <1>3, <1>4, Zenon DEF Next

LEMMA Inductive == Spec => []IInv
BY InitIInv, NextIInv, PTL DEF Spec
-----------------------------------------------------------------------------
\* The fill position of fixed_buf never leaves the allocation.
THEOREM TypeCorrect == Spec => []TypeOK
<1>1. IInv => TypeOK
  BY Zenon DEF IInv, BufOK, BufType, LoanTypes, TypeOK
<1> QED
  BY <1>1, Inductive, PTL

\* The part of the buffer before _ppos holds stored bytes only, through growth,
\* memmove and the commit of write loans.
THEOREM ReaderGetsStoredBytes == Spec => []OnlyStoredBytes
<1>1. IInv => OnlyStoredBytes
  BY Zenon DEF IInv
<1> QED
  BY <1>1, Inductive, PTL

\* A write loan taken while no read loan was out lies inside the allocation.
THEOREM LoanInsideAllocation == Spec => []WriteLoanFits
<1>1. IInv => WriteLoanFits
  BY Zenon DEF IInv
<1> QED
  BY <1>1, Inductive, PTL

\* A caller that stores no more than the length it asked wlock for leaves the
\* allocation only if it took the loan while a read loan was out.
THEOREM OverrunOnlyFromReadLoan == Spec => OverrunNeedsReadLoan
<1>1. IInv /\ [Next]_vars => [OverrunOnlyUnderReadLoan]_vars
  <2> SUFFICES ASSUME IInv, Next, overrun', ~overrun PROVE wpend.underR
    BY Zenon DEF OverrunOnlyUnderReadLoan
  <2>1. PICK s \in Strings : Fill(s)
    BY Zenon DEF Next, Write, Read, WLock, WUnlock, RLock, RUnlock, ReserveCall, Clear
  <2>2. buf.wl /\ Len(s) <= wpend.len /\ wpend.p[2] + Len(s) > buf.total
    BY <2>1, Zenon DEF Fill
  <2>3. wpend.p[2] \in Nat /\ wpend.len \in Nat /\ Len(s) \in Nat /\ buf.total \in Nat
    BY LoanFields, StringsAreSeqs, LenProperties, MemFcn, Zenon DEF IInv, LoanTypes
  <2>4. ~(wpend.p[2] + wpend.len <= buf.total)
    BY <2>2, <2>3
  <2> QED
    BY <2>2, <2>4, Zenon DEF IInv, WriteLoanFits
<1> QED
  BY <1>1, Inductive, PTL DEF Spec, OverrunNeedsReadLoan
-----------------------------------------------------------------------------
(***************************************************************************)
(* The byte queue.  A buffer's contents are its memory up to _ppos; an     *)
(* operation that leaves the filled part in place appends, one that moves  *)
(* it to the front takes the oldest bytes.                                 *)
(***************************************************************************)
LEMMA ContentsOK ==
  ASSUME NEW b, BufOK(b)
  PROVE  /\ Contents(b) \in Seq(Byte \cup {Junk})
         /\ Len(Contents(b)) = b.ppos
         /\ \A i \in 1..b.ppos : Contents(b)[i] = b.mem[i]
<1>1. b.ppos \in Nat /\ \A i \in 1..b.ppos : b.mem[i] \in Byte \cup {Junk}
  BY MemFcn
<1>2. /\ Contents(b) \in Seq(Byte \cup {Junk})
      /\ Len(Contents(b)) = IF 1 <= b.ppos THEN b.ppos - 1 + 1 ELSE 0
      /\ \A i \in 1..(b.ppos - 1 + 1) : Contents(b)[i] = b.mem[1 + i - 1]
  BY <1>1, SubSeqProperties DEF Contents
<1> QED
  BY <1>1, <1>2

\* a filled part that stays in place is a prefix of the new contents
LEMMA AppendedPuts ==
  ASSUME NEW b, BufOK(b), NEW c, BufOK(c), Appended(b, c)
  PROVE  /\ Len(Contents(b)) <= Len(Contents(c))
         /\ SubSeq(Contents(c), 1, Len(Contents(b))) = Contents(b)
<1> DEFINE S == Byte \cup {Junk}
           x == Contents(b)
           y == Contents(c)
           z == SubSeq(y, 1, b.ppos)
<1>1. b.ppos \in Nat /\ c.ppos \in Nat /\ b.ppos <= c.ppos
      /\ \A i \in 1..b.ppos : c.mem[i] = b.mem[i]
  BY MemFcn, Zenon DEF Appended
<1>2. /\ x \in Seq(S) /\ Len(x) = b.ppos /\ \A i \in 1..b.ppos : x[i] = b.mem[i]
      /\ y \in Seq(S) /\ Len(y) = c.ppos /\ \A i \in 1..c.ppos : y[i] = c.mem[i]
  BY ContentsOK, Zenon
<1> HIDE DEF x, y, S
<1>3. \A i \in 1..b.ppos : y[i] \in S
  BY <1>1, <1>2, ElementOfSeq
<1>4. /\ z \in Seq(S) /\ Len(z) = IF 1 <= b.ppos THEN b.ppos - 1 + 1 ELSE 0
      /\ \A i \in 1..(b.ppos - 1 + 1) : z[i] = y[1 + i - 1]
  BY <1>1, <1>3, SubSeqProperties
<1> HIDE DEF z
<1>5. Len(z) = Len(x) /\ \A i \in 1..Len(z) : z[i] = x[i]
  BY <1>1, <1>2, <1>4
<1>6. z = x
  BY <1>2, <1>4, <1>5, SeqEqual, Zenon
<1> QED
  BY <1>1, <1>2, <1>6, Zenon DEF x, y, z

\* a filled part that moved to the front is a suffix of the old contents
LEMMA ShiftedTakes ==
  ASSUME NEW b, BufOK(b), NEW c, BufOK(c), Shifted(b, c)
  PROVE  /\ Len(Contents(c)) <= Len(Contents(b))
         /\ Contents(c) = SubSeq(Contents(b), Len(Contents(b)) - Len(Contents(c)) + 1,
                                 Len(Contents(b)))
<1> DEFINE S == Byte \cup {Junk}
           x == Contents(b)
           y == Contents(c)
           m == b.ppos - c.ppos + 1
           z == SubSeq(x, m, b.ppos)
<1>1. b.ppos \in Nat /\ c.ppos \in Nat /\ c.ppos <= b.ppos
      /\ \A i \in 1..c.ppos : c.mem[i] = b.mem[i + (b.ppos - c.ppos)]
  BY MemFcn, Zenon DEF Shifted
<1>2. /\ x \in Seq(S) /\ Len(x) = b.ppos /\ \A i \in 1..b.ppos : x[i] = b.mem[i]
      /\ y \in Seq(S) /\ Len(y) = c.ppos /\ \A i \in 1..c.ppos : y[i] = c.mem[i]
  BY ContentsOK, Zenon
<1> HIDE DEF x, y, S
<1>3. m \in Int /\ \A i \in m..b.ppos : x[i] \in S
  BY <1>1, <1>2, ElementOfSeq
<1>4. /\ z \in Seq(S) /\ Len(z) = IF m <= b.ppos THEN b.ppos - m + 1 ELSE 0
      /\ \A i \in 1..(b.ppos - m + 1) : z[i] = x[m + i - 1]
  <2> HIDE DEF m
  <2> QED
    BY <1>1, <1>3, SubSeqProperties
<1> HIDE DEF z
<1>5. Len(z) = Len(y)
  BY <1>1, <1>2, <1>4
<1>6. ASSUME NEW i \in 1..Len(y) PROVE y[i] = z[i]
  <2>1. i \in 1..c.ppos /\ m + i - 1 = i + (b.ppos - c.ppos) /\ m + i - 1 \in 1..b.ppos
        /\ i \in 1..(b.ppos - m + 1)
    BY <1>1, <1>2
  <2> QED
    BY <1>1, <1>2, <1>4, <2>1, Zenon
<1>7. y = z
  BY <1>2, <1>4, <1>5, <1>6, SeqEqual, Zenon
<1> QED
  BY <1>1, <1>2, <1>7, Zenon DEF x, y, z

\* Every step leaves the filled part in place or moves it to the front; while a
\* read loan stays out it does the former and the loan does not change.
LEMMA StepShape ==
  ASSUME IInv, Next
  PROVE  /\ BufOK(buf) /\ BufOK(buf')
         /\ \/ Appended(buf, buf') /\ buf'.rl = buf.rl /\ rpend' = rpend
            \/ Appended(buf, buf') /\ ~buf.rl /\ rpend'.len <= buf'.ppos
            \/ Shifted(buf, buf') /\ ~buf'.rl
<1>1. BufOK(buf) /\ BufOK(buf')
  BY NextIInv, Zenon DEF IInv
<1>2. ASSUME NEW s \in Strings, Write(s) \/ Fill(s)
      PROVE  Appended(buf, buf') /\ buf'.rl = buf.rl /\ rpend' = rpend
  BY <1>2, WriteKeeps, FillKeeps, Zenon DEF Write, Fill
<1>3. ASSUME NEW n \in Lens, WLock(n) \/ WUnlock(n) \/ ReserveCall(n)
      PROVE  Appended(buf, buf') /\ buf'.rl = buf.rl /\ rpend' = rpend
  BY <1>3, WLockKeeps, WUnlockKeeps, ReserveKeeps, Zenon DEF WLock, WUnlock, ReserveCall
<1>4. ASSUME NEW n \in Lens, RLock(n)
      PROVE  Appended(buf, buf') /\ ~buf.rl /\ rpend'.len <= buf'.ppos
  BY <1>4, RLockKeeps, Zenon
<1>5. ASSUME NEW n \in Lens, Read(n) \/ RUnlock(n)
      PROVE  Shifted(buf, buf') /\ ~buf'.rl
  BY <1>5, ReadKeeps, RUnlockKeeps, Zenon
<1>6. CASE Clear
  BY <1>1, <1>6, ClearKeeps, Zenon DEF Clear
<1> QED
  BY <1>1, <1>2, <1>3, <1>4, <1>5, <1>6, Zenon DEF Next

\* fixed_buf implements the byte queue: whatever its operations and a caller's
\* stores do, and in whatever order, bytes leave in the order they were put.
THEOREM ImplementsByteFifo == Spec => IsByteFifo
<1>1. Init => F!Init
  <2> SUFFICES ASSUME Init PROVE Contents(buf) = <<>>
    BY Zenon DEF F!Init
  <2>1. PICK n \in Sizes : buf = Fresh(n)
    BY Zenon DEF Init
  <2>2. buf.ppos = 0
    BY <2>1, Zenon DEF Fresh
  <2> QED
    BY <2>2, SubSeqEmpty DEF Contents
<1>2. IInv /\ [Next]_vars => [F!Next]_(Contents(buf))
  <2> SUFFICES ASSUME IInv, [Next]_vars PROVE F!Next \/ Contents(buf)' = Contents(buf)
    BY Zenon
  <2>1. CASE UNCHANGED vars
    BY <2>1, Zenon DEF vars, Contents
  <2>2. CASE Next
    <3>1. BufOK(buf) /\ BufOK(buf') /\ (Appended(buf, buf') \/ Shifted(buf, buf'))
      BY <2>2, StepShape, Zenon
    <3>2. Contents(buf)' = Contents(buf')
      BY Zenon DEF Contents
    <3>3. CASE Appended(buf, buf')
      BY <3>1, <3>2, <3>3, AppendedPuts, Zenon DEF F!Next, F!PutBack
    <3>4. CASE Shifted(buf, buf')
      BY <3>1, <3>2, <3>4, ShiftedTakes, Zenon DEF F!Next, F!TakeFront
    <3> QED
      BY <3>1, <3>3, <3>4, Zenon
  <2> QED
    BY <2>1, <2>2, Zenon
<1> QED
  BY <1>1, <1>2, Inductive, PTL DEF Spec, IsByteFifo, F!Spec

\* The bytes a read loan covers lie before _ppos.
ReadLoanFilled == buf.rl => rpend.len <= buf.ppos

LEMMA ReadLoanInside == Spec => []ReadLoanFilled
<1>1. Init => ReadLoanFilled
  <2> SUFFICES ASSUME Init PROVE ~buf.rl
    BY Zenon DEF ReadLoanFilled
  <2>1. PICK n \in Sizes : buf = Fresh(n)
    BY Zenon DEF Init
  <2> QED
    BY <2>1, Zenon DEF Fresh
<1>2. IInv /\ ReadLoanFilled /\ [Next]_vars => ReadLoanFilled'
  <2> SUFFICES ASSUME IInv, ReadLoanFilled, [Next]_vars PROVE ReadLoanFilled'
    BY Zenon
  <2>1. CASE UNCHANGED vars
    BY <2>1, Zenon DEF vars, ReadLoanFilled
  <2>2. CASE Next
    <3>1. buf.ppos \in Nat /\ buf'.ppos \in Nat /\ rpend.len \in Nat
      BY <2>2, StepShape, MemFcn, LoanFields, Zenon DEF IInv, LoanTypes
    <3>2. CASE Appended(buf, buf') /\ buf'.rl = buf.rl /\ rpend' = rpend
      BY <3>1, <3>2 DEF ReadLoanFilled, Appended
    <3>3. CASE rpend'.len <= buf'.ppos
      BY <3>3, Zenon DEF ReadLoanFilled
    <3>4. CASE ~buf'.rl
      BY <3>4, Zenon DEF ReadLoanFilled
    <3> QED
      BY <2>2, <3>2, <3>3, <3>4, StepShape, Zenon
  <2> QED
    BY <2>1, <2>2, Zenon
<1> QED
  BY <1>1, <1>2, Inductive, PTL DEF Spec

\* The bytes a read loan covers stay where the caller reads them for as long as
\* the loan is out: no write, wlock, wunlock, reserve or clear moves them.
THEOREM ReadLoanUntouched == Spec => ReadLoanStable
<1> DEFINE Stable == buf.rl /\ buf'.rl =>
                       /\ buf'.gen = buf.gen
                       /\ SubSeq(buf'.mem, 1, rpend.len) = SubSeq(buf.mem, 1, rpend.len)
<1>1. IInv /\ ReadLoanFilled /\ [Next]_vars => [Stable]_vars
  <2> SUFFICES ASSUME IInv, ReadLoanFilled, Next, buf.rl, buf'.rl
               PROVE  /\ buf'.gen = buf.gen
                      /\ SubSeq(buf'.mem, 1, rpend.len) = SubSeq(buf.mem, 1, rpend.len)
    BY Zenon
  <2> DEFINE S == Byte \cup {Junk}
             n == rpend.len
             x == SubSeq(buf.mem, 1, n)
             y == SubSeq(buf'.mem, 1, n)
  <2>1. BufOK(buf) /\ BufOK(buf') /\ Appended(buf, buf')
    BY StepShape, Zenon
  <2>2. n \in Nat /\ buf.ppos \in Nat /\ buf'.ppos \in Nat /\ n <= buf.ppos
    BY <2>1, MemFcn, LoanFields, Zenon DEF IInv, LoanTypes, ReadLoanFilled
  <2>3. \A i \in 1..n : buf'.mem[i] = buf.mem[i]
    BY <2>1, <2>2 DEF Appended
  <2>4. \A i \in 1..n : buf.mem[i] \in S
    BY <2>1, <2>2, MemFcn
  <2>5. /\ x \in Seq(S) /\ Len(x) = IF 1 <= n THEN n - 1 + 1 ELSE 0
        /\ \A i \in 1..(n - 1 + 1) : x[i] = buf.mem[1 + i - 1]
    <3> HIDE DEF S, n
    <3> QED
      BY <2>2, <2>4, SubSeqProperties
  <2>6. /\ y \in Seq(S) /\ Len(y) = IF 1 <= n THEN n - 1 + 1 ELSE 0
        /\ \A i \in 1..(n - 1 + 1) : y[i] = buf'.mem[1 + i - 1]
    <3>1. \A i \in 1..n : buf'.mem[i] \in S
      BY <2>3, <2>4, Zenon
    <3> HIDE DEF S, n
    <3> QED
      BY <2>2, <3>1, SubSeqProperties
  <2> HIDE DEF x, y, S, n
  <2>7. Len(x) = Len(y) /\ \A i \in 1..Len(y) : y[i] = x[i]
    BY <2>2, <2>3, <2>5, <2>6
  <2>8. y = x
    BY <2>5, <2>6, <2>7, SeqEqual, Zenon
  <2> QED
    BY <2>1, <2>8, Zenon DEF Appended, x, y, n
<1> QED
  BY <1>1, Inductive, ReadLoanInside, PTL DEF Spec, ReadLoanStable

\* A write loan ends with wunlock only.
LEMMA OnlyWUnlockEnds ==
  ASSUME IInv, Next, buf.wl, ~buf'.wl
  PROVE  \E n \in Lens : WUnlock(n)
<1>1. ASSUME NEW s \in Strings, Write(s) \/ Fill(s) PROVE FALSE
  BY <1>1, FillKeeps, Zenon DEF Write
<1>2. ASSUME NEW n \in Lens, Read(n) \/ WLock(n) \/ RLock(n) \/ RUnlock(n) \/ ReserveCall(n)
      PROVE  FALSE
  BY <1>2, ReadKeeps, RLockKeeps, RUnlockKeeps, ReserveKeeps, Zenon DEF WLock
<1>3. CASE Clear
  BY <1>3, ClearKeeps, Zenon
<1> QED
  BY <1>1, <1>2, <1>3, Zenon DEF Next

\* wunlock appends exactly a prefix of the bytes the caller stored in the region
\* it was lent, whatever ran between wlock and wunlock.
THEOREM CommitIsWhatWasStored == Spec => WUnlockDelivers
<1> DEFINE Delivers == buf.wl /\ ~buf'.wl =>
                         \E n \in 0..Len(wpend.s) :
                           Contents(buf') = Contents(buf) \o SubSeq(wpend.s, 1, n)
<1>1. IInv /\ [Next]_vars => [Delivers]_vars
  <2> SUFFICES ASSUME IInv, Next, buf.wl, ~buf'.wl
               PROVE  \E n \in 0..Len(wpend.s) :
                        Contents(buf') = Contents(buf) \o SubSeq(wpend.s, 1, n)
    BY Zenon
  <2>1. PICK len \in Lens : WUnlock(len)
    BY OnlyWUnlockEnds, Zenon
  <2> DEFINE S == Byte \cup {Junk}
             x == Contents(buf)
             y == Contents(buf')
             t == SubSeq(wpend.s, 1, len)
  <2>2. BufOK(buf) /\ BufOK(buf') /\ wpend \in Loan
    BY StepShape, Zenon DEF IInv, LoanTypes
  <2>3. buf.ppos \in Nat /\ buf.total \in Nat /\ len \in Nat
        /\ wpend.s \in Seq(Byte) /\ Len(wpend.s) \in Nat
    BY <2>2, MemFcn, LoanFields, BufAssumption, Zenon
  <2>4. wpend.p = <<buf.gen, buf.ppos>> /\ buf.ppos + len <= buf.total /\ len <= Len(wpend.s)
    BY <2>1, <2>3 DEF WUnlock, WUnlockOk, Avail
  <2>5. buf'.ppos = buf.ppos + len /\ buf'.mem = buf.mem
    BY <2>1, <2>2, Zenon DEF WUnlock, WUnlockOp, BufOK, BufType
  <2>6. ASSUME NEW i \in 1..len PROVE buf.mem[buf.ppos + i] = wpend.s[i]
    <3>1. wpend.p[2] = buf.ppos /\ i \in 1..Len(wpend.s) /\ buf.ppos + i <= buf.total
      BY <2>3, <2>4
    <3> QED
      BY <3>1, Zenon DEF IInv, LentRegionKept
  <2>7. /\ t \in Seq(S) /\ Len(t) = IF 1 <= len THEN len - 1 + 1 ELSE 0
        /\ \A i \in 1..(len - 1 + 1) : t[i] = wpend.s[1 + i - 1]
    <3>1. \A i \in 1..len : wpend.s[i] \in S
      BY <2>3, <2>4, ElementOfSeq
    <3> HIDE DEF S
    <3> QED
      BY <2>3, <3>1, SubSeqProperties
  <2>8. /\ x \in Seq(S) /\ Len(x) = buf.ppos /\ \A i \in 1..buf.ppos : x[i] = buf.mem[i]
        /\ y \in Seq(S) /\ Len(y) = buf'.ppos
        /\ \A i \in 1..buf'.ppos : y[i] = buf'.mem[i]
    BY <2>2, ContentsOK, Zenon
  <2> HIDE DEF S, x, y, t
  <2>9. Len(t) = len /\ \A i \in 1..len : t[i] = wpend.s[i]
    BY <2>3, <2>7
  <2>10. /\ x \o t \in Seq(S) /\ Len(x \o t) = Len(x) + Len(t)
         /\ \A i \in 1..(Len(x) + Len(t)) :
              (x \o t)[i] = IF i <= Len(x) THEN x[i] ELSE t[i - Len(x)]
    <3>1. x \in Seq(S) /\ t \in Seq(S)
      BY <2>7, <2>8, Zenon
    <3> QED
      BY ONLY <3>1, ConcatProperties, Zenon
  <2>11. ASSUME NEW i \in 1..Len(y) PROVE y[i] = (x \o t)[i]
    <3>1. y[i] = buf.mem[i] /\ i \in 1..(buf.ppos + len) /\ i \in Int
      BY <2>5, <2>8
    <3>2. CASE i <= buf.ppos
      BY <2>3, <2>8, <2>9, <2>10, <3>1, <3>2
    <3>3. CASE i > buf.ppos
      <4>1. i - buf.ppos \in 1..len /\ buf.ppos + (i - buf.ppos) = i
        BY <2>3, <3>1, <3>3
      <4>2. buf.mem[i] = t[i - buf.ppos]
        BY <2>6, <2>9, <4>1, Zenon
      <4> QED
        BY <2>3, <2>8, <2>9, <2>10, <3>1, <3>3, <4>2, SMTT(30)
    <3>4. i <= buf.ppos \/ i > buf.ppos
      BY <2>3, <3>1
    <3> QED
      BY <3>2, <3>3, <3>4, Zenon
  <2>12. Len(y) = Len(x \o t)
    BY <2>3, <2>5, <2>8, <2>9, <2>10, Zenon
  <2>13. y = x \o t
    BY <2>8, <2>10, <2>11, <2>12, SeqEqual, Zenon
  <2>14. len \in 0..Len(wpend.s)
    BY <2>3, <2>4
  <2> QED
    BY <2>13, <2>14, Zenon DEF x, y, t
<1> QED
  BY <1>1, Inductive, PTL DEF Spec, WUnlockDelivers
=============================================================================
