---------------------------- MODULE CycBufProofs ----------------------------
(***************************************************************************)
(* cyc_buf for every byte alphabet, every size of the ring and every       *)
(* length: _repos keeps the contents, the ring is a first-in first-out     *)
(* queue, and the regions it lends are free bytes or the oldest bytes.     *)
(*                                                                         *)
(* The proofs speak of single bytes: At(b, k) is the k-th oldest byte,     *)
(* wherever the ring wraps, and an operation keeps the oldest bytes and    *)
(* adds some (Extends) or keeps the newest (Drops).  The queue follows.    *)
(*                                                                         *)
(* The invariant of the behaviours (IInv) speaks of sound states only: one *)
(* loan at a time and a byte of the ring free.  It adds the shape of the   *)
(* ring (RingOK) and where the region of the loan lies.                    *)
(***************************************************************************)
EXTENDS CycBuf, SequenceTheorems, TLAPS

\* what a byte of the allocation may be
Cell == Byte \cup {Junk}

RingType == [elastic : BOOLEAN, gen : Nat, total : Nat, mem : Seq(Cell), beg : Nat, end : Nat,
             rl : BOOLEAN, wl : BOOLEAN]

\* The shape of a ring: its memory is the allocation, _pbeg and _pend lie inside or at its
\* end, and a byte is free.
RingOK(b) ==
  /\ b \in RingType
  /\ b.total > 0 /\ Len(b.mem) = b.total
  /\ b.beg <= b.total /\ b.end <= b.total
  /\ Size(b) < b.total

\* c holds the bytes of b first
Extends(b, c) ==
  /\ Size(b) <= Size(c)
  /\ \A k \in 0 .. Size(b) - 1 : At(c, k) = At(b, k)

\* c holds the last bytes of b
Drops(b, c) ==
  /\ Size(c) <= Size(b)
  /\ \A k \in 0 .. Size(c) - 1 : At(c, k) = At(b, k + (Size(b) - Size(c)))

\* c holds the bytes of b
SameBytes(b, c) ==
  /\ Size(c) = Size(b)
  /\ \A k \in 0 .. Size(b) - 1 : At(c, k) = At(b, k)

\* the fields of a ring
LEMMA Fields ==
  ASSUME NEW b, RingOK(b)
  PROVE  /\ b.elastic \in BOOLEAN /\ b.rl \in BOOLEAN /\ b.wl \in BOOLEAN
         /\ b.gen \in Nat /\ b.total \in Nat /\ b.beg \in Nat /\ b.end \in Nat
         /\ b.total > 0 /\ b.beg <= b.total /\ b.end <= b.total
         /\ b.mem \in Seq(Cell) /\ Len(b.mem) = b.total
         /\ \A i \in 1 .. b.total : b.mem[i] \in Cell
<1>1. /\ b.elastic \in BOOLEAN /\ b.rl \in BOOLEAN /\ b.wl \in BOOLEAN
      /\ b.gen \in Nat /\ b.total \in Nat /\ b.beg \in Nat /\ b.end \in Nat
      /\ b.mem \in Seq(Cell)
  BY DEF RingOK, RingType
<1>2. \A i \in 1 .. Len(b.mem) : b.mem[i] \in Cell
  BY <1>1, ElementOfSeq
<1>. QED  BY <1>1, <1>2 DEF RingOK

\* how many bytes are stored
LEMMA SizeIs ==
  ASSUME NEW b, RingOK(b)
  PROVE  /\ Size(b) \in Nat /\ Size(b) < b.total
         /\ b.beg <= b.end => Size(b) = b.end - b.beg
         /\ b.beg > b.end => Size(b) = b.end - b.beg + b.total
  BY Fields DEF RingOK, Size

\* a function on 1 .. n is a sequence of length n
LEMMA FcnIsSeq ==
  ASSUME NEW n \in Nat, NEW f \in [1 .. n -> Cell]
  PROVE  f \in Seq(Cell) /\ Len(f) = n
  BY SeqDef

\* a distance of less than two rings wraps at most once
LEMMA ModIs ==
  ASSUME NEW n \in Nat, n > 0, NEW x \in Nat, x < 2 * n
  PROVE  /\ x < n => x % n = x
         /\ x >= n => x % n = x - n
  BY SMT

\* where the byte at distance k from _pbeg is
LEMMA AtIs ==
  ASSUME NEW b, RingOK(b), NEW k \in 0 .. b.total - 1
  PROVE  /\ b.beg + k < b.total => At(b, k) = b.mem[b.beg + k + 1]
         /\ b.beg + k >= b.total => At(b, k) = b.mem[(b.beg + k) - b.total + 1]
         /\ At(b, k) \in Cell
<1>1. /\ b.total \in Nat /\ b.total > 0 /\ b.beg \in Nat /\ b.beg <= b.total
      /\ \A i \in 1 .. b.total : b.mem[i] \in Cell
  BY Fields
<1>2. b.beg + k \in Nat /\ b.beg + k < 2 * b.total
  BY <1>1
<1>3. /\ b.beg + k < b.total => (b.beg + k) % b.total = b.beg + k
      /\ b.beg + k >= b.total => (b.beg + k) % b.total = (b.beg + k) - b.total
  <2>. DEFINE x == b.beg + k
              n == b.total
  <2>1. n \in Nat /\ n > 0 /\ x \in Nat /\ x < 2 * n
    BY <1>1, <1>2
  <2>. HIDE DEF x, n
  <2>2. (x < n => x % n = x) /\ (x >= n => x % n = x - n)
    BY <2>1, ModIs
  <2>. QED  BY <1>1, <2>2 DEF x, n
<1>4. At(b, k) = b.mem[((b.beg + k) % b.total) + 1]
  BY DEF At
<1>5. /\ b.beg + k < b.total => b.beg + k + 1 \in 1 .. b.total
      /\ b.beg + k >= b.total => (b.beg + k) - b.total + 1 \in 1 .. b.total
  BY <1>1, <1>2
<1>6. b.beg + k < b.total \/ b.beg + k >= b.total
  BY <1>1
<1>. QED  BY <1>1, <1>3, <1>4, <1>5, <1>6

\* f is what memmove(_data + to, _data + from, n) leaves of m
IsMove(f, m, to, from, n) ==
  /\ f \in Seq(Cell) /\ Len(f) = Len(m)
  /\ \A j \in 1 .. Len(m) :
       /\ j > to /\ j <= to + n => f[j] = m[j - to + from]
       /\ j <= to \/ j > to + n => f[j] = m[j]

\* memmove inside the allocation
LEMMA MovedIs ==
  ASSUME NEW m \in Seq(Cell), NEW to \in Nat, NEW from \in Nat, NEW n \in Nat,
         from + n <= Len(m)
  PROVE  IsMove(Moved(m, to, from, n), m, to, from, n)
<1>. DEFINE f == Moved(m, to, from, n)
<1>1. Len(m) \in Nat /\ DOMAIN m = 1 .. Len(m) /\ \A j \in 1 .. Len(m) : m[j] \in Cell
  BY LenProperties, ElementOfSeq
<1>2. /\ DOMAIN f = 1 .. Len(m)
      /\ f = [j \in 1 .. Len(m) |-> IF j > to /\ j <= to + n THEN m[j - to + from] ELSE m[j]]
  BY <1>1 DEF Moved
<1>3. \A j \in 1 .. Len(m) : j > to /\ j <= to + n => j - to + from \in 1 .. Len(m)
  BY <1>1
<1>4. f \in [1 .. Len(m) -> Cell]
  BY <1>1, <1>2, <1>3
<1>5. f \in Seq(Cell) /\ Len(f) = Len(m)
  BY <1>1, <1>4, FcnIsSeq, ZenonT(30)
<1>6. ASSUME NEW j \in 1 .. Len(m)
      PROVE  /\ j > to /\ j <= to + n => f[j] = m[j - to + from]
             /\ j <= to \/ j > to + n => f[j] = m[j]
  BY <1>1, <1>2
<1>. QED  BY <1>5, <1>6, ZenonT(30) DEF IsMove
-----------------------------------------------------------------------------
\* what _repos leaves alone: the template parameter, the size of the ring and the locks
Kept(b, c) == c.elastic = b.elastic /\ c.rl = b.rl /\ c.wl = b.wl

\* new contents of the allocation and new pointers
Relaid(b, m, x, y) == [b EXCEPT !.mem = m, !.beg = x, !.end = y]

\* the fields of a new layout
LEMMA FieldsSet ==
  ASSUME NEW b, RingOK(b), NEW m \in Seq(Cell), Len(m) = b.total,
         NEW x \in 0 .. b.total, NEW y \in 0 .. b.total,
         NEW r, r = Relaid(b, m, x, y)
  PROVE  /\ r \in RingType /\ Kept(b, r) /\ r.gen = b.gen
         /\ r.total = b.total /\ r.mem = m /\ r.beg = x /\ r.end = y
<1>1. b.total \in Nat
  BY Fields
<1>2. x \in Nat /\ y \in Nat /\ b \in RingType
  BY <1>1 DEF RingOK
<1>3. r \in RingType
  BY <1>2, Zenon DEF RingType, Relaid
<1>4. r.total = b.total /\ r.mem = m /\ r.beg = x /\ r.end = y /\ r.gen = b.gen
  BY <1>2 DEF RingType, Relaid
<1>5. Kept(b, r)
  BY <1>2 DEF RingType, Relaid, Kept
<1>. QED  BY <1>3, <1>4, <1>5

\* A new layout of the same allocation holds the same bytes when its size is the old one
\* and each byte is where the new pointers say.
LEMMA Rotated ==
  ASSUME NEW b, RingOK(b), NEW m \in Seq(Cell), Len(m) = b.total,
         NEW x \in 0 .. b.total, NEW y \in 0 .. b.total,
         NEW r, r = Relaid(b, m, x, y),
         x <= y => Size(b) = y - x,
         x > y => Size(b) = y - x + b.total,
         \A k \in 0 .. Size(b) - 1 :
           /\ x + k < b.total => m[x + k + 1] = At(b, k)
           /\ x + k >= b.total => m[(x + k) - b.total + 1] = At(b, k)
  PROVE  /\ RingOK(r) /\ SameBytes(b, r) /\ Kept(b, r) /\ r.gen = b.gen
         /\ r.total = b.total /\ r.mem = m /\ r.beg = x /\ r.end = y
<1>1. /\ r \in RingType /\ Kept(b, r) /\ r.gen = b.gen
      /\ r.total = b.total /\ r.mem = m /\ r.beg = x /\ r.end = y
  BY FieldsSet
<1>2. b.total \in Nat /\ b.total > 0 /\ Size(b) \in Nat /\ Size(b) < b.total
  BY Fields, SizeIs
<1>3. Size(r) = Size(b)
  BY <1>1, <1>2 DEF Size
<1>4. RingOK(r)
  BY <1>1, <1>2, <1>3 DEF RingOK
<1>5. ASSUME NEW k \in 0 .. Size(b) - 1 PROVE At(r, k) = At(b, k)
  <2>1. k \in 0 .. r.total - 1
    BY <1>1, <1>2
  <2>2. /\ r.beg + k < r.total => At(r, k) = r.mem[r.beg + k + 1]
        /\ r.beg + k >= r.total => At(r, k) = r.mem[(r.beg + k) - r.total + 1]
    BY <1>4, <2>1, AtIs, ZenonT(30)
  <2>3. x + k < b.total \/ x + k >= b.total
    BY <1>2
  <2>. QED  BY <1>1, <2>2, <2>3
<1>. QED  BY <1>1, <1>3, <1>4, <1>5 DEF SameBytes

\* the two parts of contents that wrap
LEMMA Parts ==
  ASSUME NEW b, RingOK(b), b.beg > b.end
  PROVE  /\ b.total \in Nat /\ b.beg \in Nat /\ b.end \in Nat /\ b.beg <= b.total
         /\ b.mem \in Seq(Cell) /\ Len(b.mem) = b.total
         /\ Size(b) \in Nat /\ Size(b) = (b.total - b.beg) + b.end
         /\ \A k \in 0 .. Size(b) - 1 :
              /\ k \in Nat /\ k < (b.total - b.beg) + b.end
              /\ k < b.total - b.beg => At(b, k) = b.mem[b.beg + k + 1]
              /\ k >= b.total - b.beg => At(b, k) = b.mem[(k - (b.total - b.beg)) + 1]
<1>1. /\ b.total \in Nat /\ b.beg \in Nat /\ b.end \in Nat /\ b.beg <= b.total
      /\ b.mem \in Seq(Cell) /\ Len(b.mem) = b.total
  BY Fields
<1>2. Size(b) \in Nat /\ Size(b) = (b.total - b.beg) + b.end /\ Size(b) < b.total
  BY <1>1, SizeIs
<1>3. ASSUME NEW k \in 0 .. Size(b) - 1
      PROVE  /\ k \in Nat /\ k < (b.total - b.beg) + b.end
             /\ k < b.total - b.beg => At(b, k) = b.mem[b.beg + k + 1]
             /\ k >= b.total - b.beg => At(b, k) = b.mem[(k - (b.total - b.beg)) + 1]
  <2>1. k \in Nat /\ k < (b.total - b.beg) + b.end /\ k \in 0 .. b.total - 1
    BY <1>1, <1>2
  <2>2. /\ b.beg + k < b.total => At(b, k) = b.mem[b.beg + k + 1]
        /\ b.beg + k >= b.total => At(b, k) = b.mem[(b.beg + k) - b.total + 1]
    BY <2>1, AtIs
  <2>3. /\ k < b.total - b.beg => b.beg + k < b.total
        /\ k >= b.total - b.beg => b.beg + k >= b.total
        /\ (b.beg + k) - b.total + 1 = (k - (b.total - b.beg)) + 1
    BY <1>1, <2>1
  <2>. QED  BY <2>1, <2>2, <2>3
<1>. QED  BY <1>1, <1>2, <1>3
-----------------------------------------------------------------------------
\* What _repos promises of the ring it leaves.
Repositioned(b, r) == RingOK(r) /\ SameBytes(b, r) /\ Kept(b, r) /\ r.total = b.total

\* _repos of contents that do not wrap moves them to the front.
LEMMA ReposMove ==
  ASSUME NEW b, RingOK(b), b.beg <= b.end
  PROVE  /\ Repositioned(b, ReposStep(b))
         /\ ReposStep(b).beg = 0 /\ ReposStep(b).end = Size(b)
<1>. DEFINE m == Moved(b.mem, 0, b.beg, Size(b))
            r == ReposStep(b)
<1>0. /\ b.total \in Nat /\ b.beg \in Nat /\ b.end \in Nat /\ b.end <= b.total
      /\ Size(b) \in Nat /\ Size(b) = b.end - b.beg /\ Size(b) < b.total
  BY Fields, SizeIs
<1>1. b.mem \in Seq(Cell) /\ Len(b.mem) = b.total /\ b.beg + Size(b) <= Len(b.mem)
  BY <1>0, Fields, SMTT(30)
<1>2. r = Relaid(b, m, 0, Size(b))
  BY DEF ReposStep, ReposCase, AtFront, Relaid
<1>3. /\ m \in Seq(Cell) /\ Len(m) = b.total
      /\ \A j \in 1 .. b.total : j > 0 /\ j <= 0 + Size(b) => m[j] = b.mem[j - 0 + b.beg]
  <2>1. IsMove(m, b.mem, 0, b.beg, Size(b))
    BY <1>0, <1>1, MovedIs
  <2>. HIDE DEF m
  <2>. QED  BY <1>1, <2>1 DEF IsMove
<1>. HIDE DEF m, r
<1>4. ASSUME NEW k \in 0 .. Size(b) - 1
      PROVE  0 + k < b.total /\ m[0 + k + 1] = At(b, k)
  <2>0. k \in Nat /\ k < Size(b)
    BY <1>0
  <2>1. /\ k \in 0 .. b.total - 1 /\ b.beg + k < b.total /\ k + 1 \in 1 .. b.total
        /\ k + 1 > 0 /\ k + 1 <= 0 + Size(b) /\ (k + 1) - 0 + b.beg = b.beg + k + 1
        /\ 0 + k + 1 = k + 1 /\ 0 + k < b.total
    BY <1>0, <2>0
  <2>2. At(b, k) = b.mem[b.beg + k + 1]
    BY <2>1, AtIs
  <2>. QED  BY <1>3, <2>1, <2>2
<1>5. /\ 0 \in 0 .. b.total /\ Size(b) \in 0 .. b.total /\ 0 <= Size(b)
      /\ Size(b) = Size(b) - 0
      /\ \A k \in 0 .. Size(b) - 1 : ~(0 + k >= b.total)
  BY <1>0
<1>6. RingOK(r) /\ SameBytes(b, r) /\ Kept(b, r) /\ r.total = b.total /\ r.beg = 0 /\ r.end = Size(b)
  BY <1>2, <1>3, <1>4, <1>5, Rotated
<1>. QED  BY <1>6 DEF r, Repositioned

\* Case 1 of _repos, part 1 fits into the free bytes: part 2 moves up by the length of
\* part 1, which then goes to the front.
LEMMA ReposCase1 ==
  ASSUME NEW b, RingOK(b), ReposCase(b) = 1
  PROVE  /\ Repositioned(b, ReposStep(b))
         /\ ReposStep(b).beg = 0 /\ ReposStep(b).end = Size(b)
<1>. DEFINE unuse == b.beg - b.end
            part1 == b.total - b.beg
            part2 == b.end
            m1 == Moved(b.mem, part1, 0, part2)
            m == Moved(m1, 0, b.beg, part1)
            r == ReposStep(b)
<1>1. b.beg > b.end /\ part1 <= unuse
  BY Fields DEF ReposCase
<1>2. /\ b.total \in Nat /\ b.beg \in Nat /\ b.end \in Nat /\ b.beg <= b.total
      /\ Size(b) \in Nat /\ Size(b) = part1 + part2
  BY <1>1, Parts
<1>3. /\ part1 \in Nat /\ part2 \in Nat /\ 0 + part2 <= b.total /\ b.beg + part1 <= b.total
      /\ part1 + part2 <= b.beg
  BY <1>1, <1>2
<1>4. r = Relaid(b, m, 0, Size(b))
  BY DEF ReposStep, ReposFront, AtFront, Relaid
<1>5. \A k \in 0 .. Size(b) - 1 :
        /\ k \in Nat /\ k < part1 + part2
        /\ k < part1 => At(b, k) = b.mem[b.beg + k + 1]
        /\ k >= part1 => At(b, k) = b.mem[(k - part1) + 1]
  BY <1>1, Parts, ZenonT(30)
<1>. HIDE DEF unuse, part1, part2, m1, m, r
<1>6. /\ m1 \in Seq(Cell) /\ Len(m1) = b.total
      /\ b.beg + part1 <= Len(m1)
      /\ \A j \in 1 .. b.total :
           /\ j > part1 /\ j <= part1 + part2 => m1[j] = b.mem[j - part1 + 0]
           /\ j <= part1 \/ j > part1 + part2 => m1[j] = b.mem[j]
  <2>1. b.mem \in Seq(Cell) /\ Len(b.mem) = b.total
    BY <1>1, Parts
  <2>2. IsMove(m1, b.mem, part1, 0, part2)
    BY <1>2, <1>3, <2>1, MovedIs DEF m1
  <2>. QED  BY <1>2, <1>3, <2>1, <2>2 DEF IsMove
<1>7. /\ m \in Seq(Cell) /\ Len(m) = b.total
      /\ \A j \in 1 .. b.total :
           /\ j > 0 /\ j <= 0 + part1 => m[j] = m1[j - 0 + b.beg]
           /\ j <= 0 \/ j > 0 + part1 => m[j] = m1[j]
  <2>1. IsMove(m, m1, 0, b.beg, part1)
    BY <1>2, <1>3, <1>6, MovedIs DEF m
  <2>. QED  BY <1>6, <2>1 DEF IsMove
<1>8. ASSUME NEW k \in 0 .. Size(b) - 1
      PROVE  0 + k < b.total /\ m[0 + k + 1] = At(b, k)
  <2>1. k \in Nat /\ k < part1 + part2 /\ 0 + k + 1 = k + 1 /\ k + 1 \in 1 .. b.total
        /\ 0 + k < b.total
    BY <1>2, <1>3, <1>5
  <2>2. CASE k < part1
    <3>1. /\ k + 1 > 0 /\ k + 1 <= 0 + part1 /\ (k + 1) - 0 + b.beg = b.beg + k + 1
          /\ b.beg + k + 1 \in 1 .. b.total /\ b.beg + k + 1 > part1 + part2
      BY <1>2, <1>3, <2>1, <2>2
    <3>2. m[k + 1] = m1[b.beg + k + 1] /\ m1[b.beg + k + 1] = b.mem[b.beg + k + 1]
      BY <1>6, <1>7, <2>1, <3>1
    <3>. QED  BY <1>5, <2>1, <2>2, <3>2
  <2>3. CASE k >= part1
    <3>1. /\ k + 1 > 0 + part1 /\ k + 1 > part1 /\ k + 1 <= part1 + part2
          /\ (k + 1) - part1 + 0 = (k - part1) + 1
      BY <1>2, <1>3, <2>1, <2>3
    <3>2. m[k + 1] = m1[k + 1] /\ m1[k + 1] = b.mem[(k - part1) + 1]
      BY <1>6, <1>7, <2>1, <3>1
    <3>. QED  BY <1>5, <2>1, <2>3, <3>2
  <2>. QED  BY <1>3, <2>1, <2>2, <2>3
<1>9. /\ 0 \in 0 .. b.total /\ Size(b) \in 0 .. b.total /\ 0 <= Size(b)
      /\ Size(b) = Size(b) - 0
      /\ \A k \in 0 .. Size(b) - 1 : ~(0 + k >= b.total)
  BY <1>2, <1>3
<1>10. RingOK(r) /\ SameBytes(b, r) /\ Kept(b, r) /\ r.total = b.total /\ r.beg = 0 /\ r.end = Size(b)
  BY <1>4, <1>7, <1>8, <1>9, Rotated
<1>. QED  BY <1>10 DEF r, Repositioned

\* Case 2 of _repos, part 2 fits into the free bytes: part 1 moves down behind part 2, and
\* part 2 is copied behind part 1.
LEMMA ReposCase2 ==
  ASSUME NEW b, RingOK(b), ReposCase(b) = 2
  PROVE  /\ Repositioned(b, ReposStep(b))
         /\ ReposStep(b).beg <= ReposStep(b).end
<1>. DEFINE unuse == b.beg - b.end
            part1 == b.total - b.beg
            part2 == b.end
            m1 == Moved(b.mem, part2, b.beg, part1)
            m == Moved(m1, part1 + part2, 0, part2)
            y == part2 + part1 + part2
            r == ReposStep(b)
<1>1. b.beg > b.end /\ part1 > unuse /\ part2 <= unuse
  BY Fields DEF ReposCase
<1>2. /\ b.total \in Nat /\ b.beg \in Nat /\ b.end \in Nat /\ b.beg <= b.total
      /\ Size(b) \in Nat /\ Size(b) = part1 + part2
  BY <1>1, Parts
<1>3. /\ part1 \in Nat /\ part2 \in Nat /\ b.beg + part1 = b.total /\ 0 + part2 <= b.total
      /\ y \in Nat /\ y <= b.total /\ part2 <= y /\ y - part2 = part1 + part2
      /\ part1 + part2 \in Nat
  BY <1>1, <1>2
<1>4. r = Relaid(b, m, part2, y)
  BY DEF ReposStep, ReposMiddle, Relaid
<1>5. \A k \in 0 .. Size(b) - 1 :
        /\ k \in Nat /\ k < part1 + part2
        /\ k < part1 => At(b, k) = b.mem[b.beg + k + 1]
        /\ k >= part1 => At(b, k) = b.mem[(k - part1) + 1]
  BY <1>1, Parts
<1>. HIDE DEF unuse, part1, part2, m1, m, r
<1>6. /\ m1 \in Seq(Cell) /\ Len(m1) = b.total /\ 0 + part2 <= Len(m1)
      /\ \A j \in 1 .. b.total :
           /\ j > part2 /\ j <= part2 + part1 => m1[j] = b.mem[j - part2 + b.beg]
           /\ j <= part2 \/ j > part2 + part1 => m1[j] = b.mem[j]
  <2>1. b.mem \in Seq(Cell) /\ Len(b.mem) = b.total /\ b.beg + part1 <= Len(b.mem)
    BY <1>1, <1>2, <1>3, Parts
  <2>2. IsMove(m1, b.mem, part2, b.beg, part1)
    BY <1>2, <1>3, <2>1, MovedIs, SMTT(30) DEF m1
  <2>. QED  BY <1>2, <1>3, <2>1, <2>2 DEF IsMove
<1>7. /\ m \in Seq(Cell) /\ Len(m) = b.total
      /\ \A j \in 1 .. b.total :
           /\ j > part1 + part2 /\ j <= (part1 + part2) + part2 =>
                m[j] = m1[j - (part1 + part2) + 0]
           /\ j <= part1 + part2 \/ j > (part1 + part2) + part2 => m[j] = m1[j]
  <2>1. IsMove(m, m1, part1 + part2, 0, part2)
    BY <1>2, <1>3, <1>6, MovedIs, SMTT(30) DEF m
  <2>. QED  BY <1>6, <2>1 DEF IsMove
<1>8. ASSUME NEW k \in 0 .. Size(b) - 1
      PROVE  part2 + k < b.total /\ m[part2 + k + 1] = At(b, k)
  <2>1. k \in Nat /\ k < part1 + part2
    BY <1>5
  <2>2. part2 + k + 1 \in 1 .. b.total /\ part2 + k < b.total
    BY <1>2, <1>3, <2>1, SMTT(30)
  <2>3. CASE k < part1
    <3>1. /\ part2 + k + 1 <= part1 + part2 /\ part2 + k + 1 > part2
          /\ part2 + k + 1 <= part2 + part1
          /\ (part2 + k + 1) - part2 + b.beg = b.beg + k + 1
      BY <1>2, <1>3, <2>1, <2>3
    <3>2. m[part2 + k + 1] = m1[part2 + k + 1] /\ m1[part2 + k + 1] = b.mem[b.beg + k + 1]
      BY <1>6, <1>7, <2>2, <3>1
    <3>. QED  BY <1>5, <2>2, <2>3, <3>2
  <2>4. CASE k >= part1
    <3>1. /\ part2 + k + 1 > part1 + part2 /\ part2 + k + 1 <= (part1 + part2) + part2
          /\ (part2 + k + 1) - (part1 + part2) + 0 = (k - part1) + 1
          /\ (k - part1) + 1 \in 1 .. b.total /\ (k - part1) + 1 <= part2
      BY <1>2, <1>3, <2>1, <2>4
    <3>2. /\ m[part2 + k + 1] = m1[(k - part1) + 1]
          /\ m1[(k - part1) + 1] = b.mem[(k - part1) + 1]
      BY <1>6, <1>7, <2>2, <3>1, SMTT(30)
    <3>. QED  BY <1>5, <2>2, <2>4, <3>2
  <2>. QED  BY <1>3, <2>1, <2>3, <2>4
<1>9. /\ part2 \in 0 .. b.total /\ y \in 0 .. b.total /\ part2 <= y
      /\ Size(b) = y - part2
      /\ \A k \in 0 .. Size(b) - 1 : part2 + k < b.total /\ ~(part2 + k >= b.total)
  BY <1>2, <1>3, <1>5, <1>8
<1>10. ~(part2 > y)
  BY <1>3
<1>. HIDE DEF y
<1>11. RingOK(r) /\ SameBytes(b, r) /\ Kept(b, r) /\ r.total = b.total /\ r.beg = part2 /\ r.end = y
  BY <1>4, <1>7, <1>8, <1>9, <1>10, Rotated, SMTT(30)
<1>. QED  BY <1>9, <1>11 DEF r, Repositioned

\* Case 3 of _repos, part 1 is the longer part and at most twice the free bytes: part 2
\* moves up to _pbeg, the last bytes of part 1 go in front of it and the others to the end
\* of the ring.  The ring then meets case 1, as the assert in front of the second call says.
LEMMA ReposCase3 ==
  ASSUME NEW b, RingOK(b), ReposCase(b) = 3
  PROVE  /\ Repositioned(b, ReposStep(b))
         /\ ReposCase(ReposStep(b)) = 1
<1>. DEFINE unuse == b.beg - b.end
            part1 == b.total - b.beg
            part2 == b.end
            last == b.total - unuse
            rest == part1 - unuse
            x == b.beg + unuse
            m1 == Moved(b.mem, unuse, 0, part2)
            m2 == Moved(m1, 0, last, unuse)
            m == Moved(m2, x, b.beg, rest)
            r == ReposStep(b)
<1>1. b.beg > b.end /\ part1 > unuse /\ part2 > unuse /\ part1 <= unuse * 2
  BY Fields DEF ReposCase
<1>2. /\ b.total \in Nat /\ b.beg \in Nat /\ b.end \in Nat /\ b.beg <= b.total
      /\ Size(b) \in Nat /\ Size(b) = part1 + part2
  BY <1>1, Parts
<1>3. /\ part1 \in Nat /\ part2 \in Nat /\ unuse \in Nat /\ unuse > 0
      /\ last \in Nat /\ rest \in Nat /\ x \in Nat
      /\ unuse + part2 = b.beg /\ b.beg + part1 = b.total /\ last + unuse = b.total
      /\ rest + unuse = part1 /\ x = b.beg + unuse /\ rest <= unuse
  BY <1>1, <1>2
<1>4. r = Relaid(b, m, x, b.beg)
  BY DEF ReposStep, ReposTail1, Relaid
<1>5. \A k \in 0 .. Size(b) - 1 :
        /\ k \in Nat /\ k < part1 + part2
        /\ k < part1 => At(b, k) = b.mem[b.beg + k + 1]
        /\ k >= part1 => At(b, k) = b.mem[(k - part1) + 1]
  BY <1>1, Parts
<1>6. b.mem \in Seq(Cell) /\ Len(b.mem) = b.total
  BY <1>1, Parts
<1>. HIDE DEF unuse, part1, part2, last, rest, x, m1, m2, m, r
<1>7. IsMove(m1, b.mem, unuse, 0, part2) /\ m1 \in Seq(Cell) /\ Len(m1) = b.total
  <2>1. 0 + part2 <= Len(b.mem)
    BY <1>2, <1>3, <1>6, SMTT(30)
  <2>2. IsMove(m1, b.mem, unuse, 0, part2)
    BY <1>3, <1>6, <2>1, MovedIs DEF m1
  <2>. QED  BY <1>6, <2>2 DEF IsMove
<1>8. IsMove(m2, m1, 0, last, unuse) /\ m2 \in Seq(Cell) /\ Len(m2) = b.total
  <2>1. last + unuse <= Len(m1)
    BY <1>2, <1>3, <1>7
  <2>2. IsMove(m2, m1, 0, last, unuse)
    BY <1>3, <1>7, <2>1, MovedIs DEF m2
  <2>. QED  BY <1>7, <2>2 DEF IsMove
<1>9. IsMove(m, m2, x, b.beg, rest) /\ m \in Seq(Cell) /\ Len(m) = b.total
  <2>1. b.beg + rest <= b.total
    BY <1>2, <1>3
  <2>2. IsMove(m, m2, x, b.beg, rest)
    BY <1>2, <1>3, <1>8, <2>1, MovedIs, Zenon DEF m
  <2>. QED  BY <1>8, <2>2 DEF IsMove
<1>10. ASSUME NEW k \in 0 .. Size(b) - 1
       PROVE  /\ x + k < b.total => m[x + k + 1] = At(b, k)
              /\ x + k >= b.total => m[(x + k) - b.total + 1] = At(b, k)
  <2>1. k \in Nat /\ k < part1 + part2
    BY <1>5
  <2>2. CASE k < rest
    <3>1. /\ x + k + 1 \in 1 .. b.total /\ x + k + 1 > x /\ x + k + 1 <= x + rest
          /\ (x + k + 1) - x + b.beg = b.beg + k + 1
          /\ b.beg + k + 1 \in 1 .. b.total /\ b.beg + k + 1 > 0 + unuse
          /\ b.beg + k + 1 > unuse + part2 /\ k < part1 /\ ~(x + k >= b.total)
      BY <1>2, <1>3, <2>1, <2>2
    <3>2. m[x + k + 1] = m2[b.beg + k + 1]
      BY <1>8, <1>9, <3>1 DEF IsMove
    <3>3. m2[b.beg + k + 1] = m1[b.beg + k + 1]
      BY <1>7, <1>8, <3>1 DEF IsMove
    <3>4. m1[b.beg + k + 1] = b.mem[b.beg + k + 1]
      BY <1>6, <1>7, <3>1 DEF IsMove
    <3>. QED  BY <1>5, <3>1, <3>2, <3>3, <3>4
  <2>3. CASE k >= rest
    <3>. DEFINE i == (x + k) - b.total + 1
    <3>1. i \in 1 .. b.total /\ i <= x /\ ~(x + k < b.total)
      BY <1>2, <1>3, <2>1, <2>3, SMTT(30)
    <3>2. i = (k - rest) + 1
      BY <1>2, <1>3, <2>1
    <3>. HIDE DEF i
    <3>3. m[i] = m2[i]
      BY <1>8, <1>9, <3>1, SMTT(30) DEF IsMove
    <3>4. CASE k < part1
      <4>1. /\ i > 0 /\ i <= 0 + unuse /\ i - 0 + last = b.beg + k + 1
            /\ b.beg + k + 1 \in 1 .. b.total /\ b.beg + k + 1 > unuse + part2
        BY <1>2, <1>3, <2>1, <2>3, <3>2, <3>4, SMTT(30)
      <4>2. m2[i] = m1[b.beg + k + 1]
        BY <1>7, <1>8, <3>1, <4>1 DEF IsMove
      <4>3. m1[b.beg + k + 1] = b.mem[b.beg + k + 1]
        BY <1>6, <1>7, <4>1 DEF IsMove
      <4>. QED  BY <1>5, <3>1, <3>3, <3>4, <4>2, <4>3 DEF i
    <3>5. CASE k >= part1
      <4>1. /\ i > 0 + unuse /\ i > unuse /\ i <= unuse + part2
            /\ i - unuse + 0 = (k - part1) + 1
        BY <1>2, <1>3, <2>1, <2>3, <3>2, <3>5
      <4>2. m2[i] = m1[i]
        BY <1>7, <1>8, <3>1, <4>1 DEF IsMove
      <4>3. m1[i] = b.mem[(k - part1) + 1]
        BY <1>6, <1>7, <3>1, <4>1 DEF IsMove
      <4>. QED  BY <1>5, <3>1, <3>3, <3>5, <4>2, <4>3 DEF i
    <3>. QED  BY <1>3, <2>1, <3>4, <3>5
  <2>. QED  BY <1>3, <2>1, <2>2, <2>3
<1>11. /\ x \in 0 .. b.total /\ b.beg \in 0 .. b.total /\ ~(x <= b.beg)
       /\ Size(b) = b.beg - x + b.total
  BY <1>2, <1>3, SMTT(30)
<1>12. RingOK(r) /\ SameBytes(b, r) /\ Kept(b, r) /\ r.total = b.total /\ r.beg = x /\ r.end = b.beg
  BY <1>4, <1>9, <1>10, <1>11, Rotated
<1>13. r.beg > r.end /\ r.total - r.beg <= r.beg - r.end
  BY <1>2, <1>3, <1>12
<1>14. ReposCase(r) = 1
  BY <1>2, <1>3, <1>12, <1>13 DEF ReposCase
<1>. QED  BY <1>12, <1>14 DEF r, Repositioned

\* Case 4 of _repos, part 2 is the longer part and at most twice the free bytes: part 1
\* moves down behind part 2, the first bytes of part 2 go behind it and the others to the
\* front.  The ring then meets case 2.
LEMMA ReposCase4 ==
  ASSUME NEW b, RingOK(b), ReposCase(b) = 4
  PROVE  /\ Repositioned(b, ReposStep(b))
         /\ ReposCase(ReposStep(b)) = 2
<1>. DEFINE unuse == b.beg - b.end
            part1 == b.total - b.beg
            part2 == b.end
            stored == part1 + part2
            rest == part2 - unuse
            y == b.end - unuse
            m1 == Moved(b.mem, part2, b.beg, part1)
            m2 == Moved(m1, stored, 0, unuse)
            m == Moved(m2, 0, unuse, rest)
            r == ReposStep(b)
<1>1. b.beg > b.end /\ part1 > unuse /\ part2 > unuse /\ part2 <= unuse * 2
  BY Fields DEF ReposCase
<1>2. /\ b.total \in Nat /\ b.beg \in Nat /\ b.end \in Nat /\ b.beg <= b.total
      /\ Size(b) \in Nat /\ Size(b) = stored
  BY <1>1, Parts
<1>3. /\ part1 \in Nat /\ part2 \in Nat /\ unuse \in Nat /\ unuse > 0
      /\ stored \in Nat /\ rest \in Nat /\ y \in Nat
      /\ unuse + part2 = b.beg /\ b.beg + part1 = b.total /\ stored + unuse = b.total
      /\ stored = part1 + part2 /\ rest + unuse = part2 /\ y = rest /\ rest <= unuse
      /\ part1 > unuse
  BY <1>1, <1>2
<1>4. r = Relaid(b, m, part2, y)
  BY DEF ReposStep, ReposTail2, Relaid
<1>5. \A k \in 0 .. Size(b) - 1 :
        /\ k \in Nat /\ k < part1 + part2
        /\ k < part1 => At(b, k) = b.mem[b.beg + k + 1]
        /\ k >= part1 => At(b, k) = b.mem[(k - part1) + 1]
  BY <1>1, Parts, Zenon
<1>6. b.mem \in Seq(Cell) /\ Len(b.mem) = b.total
  BY <1>1, Parts
<1>. HIDE DEF unuse, part1, part2, stored, rest, y, m1, m2, m, r
<1>7. IsMove(m1, b.mem, part2, b.beg, part1) /\ m1 \in Seq(Cell) /\ Len(m1) = b.total
  <2>1. b.beg + part1 <= b.total
    BY <1>2, <1>3
  <2>2. IsMove(m1, b.mem, part2, b.beg, part1)
    BY <1>2, <1>3, <1>6, <2>1, MovedIs DEF m1
  <2>. QED  BY <1>6, <2>2 DEF IsMove
<1>8. IsMove(m2, m1, stored, 0, unuse) /\ m2 \in Seq(Cell) /\ Len(m2) = b.total
  <2>1. 0 + unuse <= b.total
    BY <1>2, <1>3
  <2>2. IsMove(m2, m1, stored, 0, unuse)
    BY <1>3, <1>7, <2>1, MovedIs DEF m2
  <2>. QED  BY <1>7, <2>2 DEF IsMove
<1>9. IsMove(m, m2, 0, unuse, rest) /\ m \in Seq(Cell) /\ Len(m) = b.total
  <2>1. unuse + rest <= b.total
    BY <1>2, <1>3
  <2>2. IsMove(m, m2, 0, unuse, rest)
    BY <1>3, <1>8, <2>1, MovedIs DEF m
  <2>. QED  BY <1>8, <2>2 DEF IsMove
<1>10. ASSUME NEW k \in 0 .. Size(b) - 1
       PROVE  /\ part2 + k < b.total => m[part2 + k + 1] = At(b, k)
              /\ part2 + k >= b.total => m[(part2 + k) - b.total + 1] = At(b, k)
  <2>1. k \in Nat /\ k < part1 + part2
    BY <1>5
  <2>2. CASE k < part1 + unuse
    <3>1. /\ part2 + k + 1 \in 1 .. b.total /\ part2 + k + 1 > 0 + rest
          /\ ~(part2 + k >= b.total)
      BY <1>2, <1>3, <2>1, <2>2
    <3>2. m[part2 + k + 1] = m2[part2 + k + 1]
      BY <1>8, <1>9, <3>1, SMTT(30) DEF IsMove
    <3>3. CASE k < part1
      <4>1. /\ part2 + k + 1 <= stored /\ part2 + k + 1 > part2
            /\ part2 + k + 1 <= part2 + part1
            /\ (part2 + k + 1) - part2 + b.beg = b.beg + k + 1
        BY <1>2, <1>3, <2>1, <3>3
      <4>2. m2[part2 + k + 1] = m1[part2 + k + 1]
        BY <1>7, <1>8, <3>1, <4>1 DEF IsMove
      <4>3. m1[part2 + k + 1] = b.mem[b.beg + k + 1]
        BY <1>6, <1>7, <3>1, <4>1, SMTT(30) DEF IsMove
      <4>. QED  BY <1>5, <3>1, <3>2, <3>3, <4>2, <4>3
    <3>4. CASE k >= part1
      <4>1. /\ part2 + k + 1 > stored /\ part2 + k + 1 <= stored + unuse
            /\ (part2 + k + 1) - stored + 0 = (k - part1) + 1
            /\ (k - part1) + 1 \in 1 .. b.total /\ (k - part1) + 1 <= part2
        BY <1>2, <1>3, <2>1, <2>2, <3>4
      <4>2. m2[part2 + k + 1] = m1[(k - part1) + 1]
        BY <1>7, <1>8, <3>1, <4>1, SMTT(30) DEF IsMove
      <4>3. m1[(k - part1) + 1] = b.mem[(k - part1) + 1]
        BY <1>6, <1>7, <4>1 DEF IsMove
      <4>. QED  BY <1>5, <3>1, <3>2, <3>4, <4>2, <4>3
    <3>. QED  BY <1>3, <2>1, <3>3, <3>4
  <2>3. CASE k >= part1 + unuse
    <3>. DEFINE i == (part2 + k) - b.total + 1
    <3>1. /\ i \in 1 .. b.total /\ i > 0 /\ i <= 0 + rest /\ ~(part2 + k < b.total)
          /\ i - 0 + unuse = (k - part1) + 1 /\ k >= part1
          /\ (k - part1) + 1 \in 1 .. b.total /\ (k - part1) + 1 <= part2
          /\ (k - part1) + 1 <= stored
      BY <1>2, <1>3, <2>1, <2>3
    <3>. HIDE DEF i
    <3>2. m[i] = m2[(k - part1) + 1]
      BY <1>8, <1>9, <3>1 DEF IsMove
    <3>3. m2[(k - part1) + 1] = m1[(k - part1) + 1]
      BY <1>7, <1>8, <3>1, SMTT(30) DEF IsMove
    <3>4. m1[(k - part1) + 1] = b.mem[(k - part1) + 1]
      BY <1>6, <1>7, <3>1 DEF IsMove
    <3>. QED  BY <1>5, <3>1, <3>2, <3>3, <3>4 DEF i
  <2>. QED  BY <1>3, <2>1, <2>2, <2>3, SMTT(30)
<1>11. /\ part2 \in 0 .. b.total /\ y \in 0 .. b.total /\ ~(part2 <= y)
       /\ Size(b) = y - part2 + b.total
  BY <1>2, <1>3, SMTT(30)
<1>12. RingOK(r) /\ SameBytes(b, r) /\ Kept(b, r) /\ r.total = b.total /\ r.beg = part2 /\ r.end = y
  BY <1>4, <1>9, <1>10, <1>11, Rotated, SMTT(30)
<1>13. r.beg > r.end /\ r.total - r.beg > r.beg - r.end /\ r.end <= r.beg - r.end
  BY <1>2, <1>3, <1>12
<1>14. ReposCase(r) = 2
  BY <1>2, <1>3, <1>12, <1>13 DEF ReposCase
<1>. QED  BY <1>12, <1>14 DEF r, Repositioned

\* Rings that agree on the allocation and the pointers hold the same bytes.
LEMMA SameLayout ==
  ASSUME NEW b, NEW c, c.total = b.total, c.mem = b.mem, c.beg = b.beg, c.end = b.end
  PROVE  Size(c) = Size(b) /\ \A k : At(c, k) = At(b, k)
  BY DEF Size, At

\* Case 5 of _repos copies the contents to the front of a new allocation.
LEMMA ReposCase5 ==
  ASSUME NEW b, RingOK(b), ReposCase(b) = 5
  PROVE  /\ Repositioned(b, ReposStep(b))
         /\ ReposStep(b).beg = 0 /\ ReposStep(b).end = Size(b)
<1>. DEFINE n == Size(b)
            m == [j \in DOMAIN b.mem |-> IF j <= n THEN At(b, j - 1) ELSE Junk]
            c == Relaid(b, m, 0, n)
            r == ReposStep(b)
<1>1. b.beg > b.end
  BY Fields DEF ReposCase
<1>2. /\ b.total \in Nat /\ b.beg \in Nat /\ b.end \in Nat /\ n \in Nat /\ n < b.total
      /\ n = (b.total - b.beg) + b.end
  BY <1>1, Parts, SizeIs
<1>3. r = [c EXCEPT !.gen = @ + 1]
  BY <1>2 DEF ReposStep, ReposCopy, AtFront, Relaid
<1>4. DOMAIN b.mem = 1 .. b.total
  BY Fields, LenProperties
<1>5. \A k \in 0 .. b.total - 1 : At(b, k) \in Cell
  BY AtIs
<1>. HIDE DEF n
<1>6. m = [j \in 1 .. b.total |-> IF j <= n THEN At(b, j - 1) ELSE Junk]
  BY <1>4
<1>7. m \in [1 .. b.total -> Cell]
  <2>1. \A j \in 1 .. b.total : j - 1 \in 0 .. b.total - 1
    BY <1>2
  <2>2. Junk \in Cell
    BY DEF Cell
  <2>. QED  BY <1>5, <1>6, <2>1, <2>2
<1>8. \A j \in 1 .. b.total : j <= n => m[j] = At(b, j - 1)
  BY <1>6, Zenon
<1>. HIDE DEF m
<1>9. m \in Seq(Cell) /\ Len(m) = b.total
  BY <1>2, <1>7, FcnIsSeq, Zenon
<1>10. ASSUME NEW k \in 0 .. Size(b) - 1
       PROVE  /\ 0 + k < b.total => m[0 + k + 1] = At(b, k)
              /\ 0 + k >= b.total => m[(0 + k) - b.total + 1] = At(b, k)
  <2>1. 0 + k + 1 \in 1 .. b.total /\ 0 + k + 1 <= n /\ (0 + k + 1) - 1 = k /\ ~(0 + k >= b.total)
    BY <1>2 DEF n
  <2>. QED  BY <1>8, <2>1
<1>11. /\ 0 \in 0 .. b.total /\ n \in 0 .. b.total /\ ~(0 > n) /\ Size(b) = n - 0
  BY <1>2, SMTT(30) DEF n
<1>12. RingOK(c) /\ SameBytes(b, c) /\ Kept(b, c) /\ c.total = b.total /\ c.beg = 0 /\ c.end = n
  BY <1>9, <1>10, <1>11, Rotated
<1>. HIDE DEF c, r
<1>13. c \in RingType /\ c.gen + 1 \in Nat
  BY <1>12, Fields DEF RingOK
<1>14. r \in RingType
  BY <1>3, <1>13, Zenon DEF RingType
<1>15. r.total = c.total /\ r.mem = c.mem /\ r.beg = c.beg /\ r.end = c.end
  BY <1>3, <1>13 DEF RingType
<1>16. Kept(b, r)
  BY <1>3, <1>12, <1>13 DEF RingType, Kept
<1>17. Size(r) = Size(c) /\ \A k : At(r, k) = At(c, k)
  BY <1>15, SameLayout
<1>18. RingOK(r)
  BY <1>12, <1>14, <1>15, <1>17 DEF RingOK
<1>19. SameBytes(b, r)
  BY <1>12, <1>17 DEF SameBytes
<1>. QED  BY <1>12, <1>15, <1>16, <1>18, <1>19 DEF r, n, Repositioned

\* what _repos keeps is kept by two of its passes
LEMMA ReposTwice ==
  ASSUME NEW b, NEW c, NEW d, Repositioned(b, c), Repositioned(c, d)
  PROVE  Repositioned(b, d)
<1>1. SameBytes(b, d)
  BY DEF Repositioned, SameBytes
<1>. QED  BY <1>1 DEF Repositioned, Kept

\* _repos, whatever the size of the ring and wherever its pointers are: it keeps every
\* stored byte in order and makes the contents contiguous, though its cases move the bytes
\* in place, over each other; cases 3 and 4 re-enter it once, as their asserts say.
THEOREM ReposKeepsContents ==
  ASSUME NEW b, RingOK(b)
  PROVE  /\ Repositioned(b, Repos(b)) /\ Repos(b).beg <= Repos(b).end
         /\ b.beg <= b.end => Repos(b).beg = 0 /\ Repos(b).end = Size(b)
         /\ ReposCase(b) = 3 => ReposCase(ReposStep(b)) = 1
         /\ ReposCase(b) = 4 => ReposCase(ReposStep(b)) = 2
<1>1. ReposCase(b) \in 0 .. 5 /\ (ReposCase(b) = 0 <=> b.beg <= b.end)
  BY DEF ReposCase
<1>2. Size(b) \in Nat /\ 0 <= Size(b)
  BY SizeIs
<1>3. CASE ReposCase(b) = 0
  <2>1. Repos(b) = ReposStep(b)
    BY <1>3 DEF Repos
  <2>. QED  BY <1>1, <1>2, <1>3, <2>1, ReposMove
<1>4. CASE ReposCase(b) \in {1, 2, 5}
  <2>1. Repos(b) = ReposStep(b)
    BY <1>4 DEF Repos
  <2>. QED  BY <1>1, <1>2, <1>4, <2>1, ReposCase1, ReposCase2, ReposCase5, SMTT(30)
<1>5. CASE ReposCase(b) \in {3, 4}
  <2>. DEFINE c == ReposStep(b)
  <2>1. Repos(b) = ReposStep(c)
    BY <1>5 DEF Repos
  <2>2. Repositioned(b, c) /\ RingOK(c)
    BY <1>5, ReposCase3, ReposCase4 DEF Repositioned
  <2>3. /\ ReposCase(b) = 3 => ReposCase(c) = 1
        /\ ReposCase(b) = 4 => ReposCase(c) = 2
    BY ReposCase3, ReposCase4
  <2>. HIDE DEF c
  <2>4. Size(c) \in Nat
    BY <2>2, SizeIs
  <2>5. Repositioned(c, ReposStep(c)) /\ ReposStep(c).beg <= ReposStep(c).end
    BY <1>5, <2>2, <2>3, <2>4, ReposCase1, ReposCase2, SMTT(30)
  <2>6. Repositioned(b, Repos(b)) /\ Repos(b).beg <= Repos(b).end
    BY <2>1, <2>2, <2>5, ReposTwice
  <2>. QED  BY <1>1, <1>5, <2>3, <2>6 DEF c
<1>. QED  BY <1>1, <1>3, <1>4, <1>5
-----------------------------------------------------------------------------
\* reserve of a ring that is not lent: the same bytes, and room for what was asked
LEMMA ReserveOK ==
  ASSUME NEW b, RingOK(b), ~RingLocked(b), NEW n \in Nat
  PROVE  /\ RingOK(RingReserve(b, n)) /\ SameBytes(b, RingReserve(b, n)) /\ Kept(b, RingReserve(b, n))
         /\ RingReserve(b, n).total > n
<1>. DEFINE t == DWORDAlign(n + 1)
            z == Size(b)
            m == [j \in 1 .. t |-> IF j <= z THEN At(b, j - 1) ELSE Junk]
            r == RingReserve(b, n)
<1>1. t \in Nat /\ t > n
  BY DEF DWORDAlign
<1>2. b.total \in Nat /\ b.total > 0 /\ z \in Nat /\ z < b.total
  BY Fields, SizeIs
<1>3. CASE t <= b.total
  <2>1. r = b
    BY <1>3 DEF RingReserve
  <2>2. r.total > n
    BY <1>1, <1>2, <1>3, <2>1
  <2>. QED  BY <2>1, <2>2 DEF SameBytes, Kept
<1>4. CASE ~(t <= b.total)
  <2>1. r = [b EXCEPT !.gen = @ + 1, !.total = t, !.mem = m, !.beg = 0, !.end = z]
    BY <1>4 DEF RingReserve
  <2>. HIDE DEF t, z
  <2>2. m \in [1 .. t -> Cell]
    <3>1. \A j \in 1 .. t : j <= z => j - 1 \in 0 .. b.total - 1
      BY <1>1, <1>2
    <3>2. Junk \in Cell
      BY DEF Cell
    <3>. QED  BY <3>1, <3>2, AtIs
  <2>3. \A j \in 1 .. t : j <= z => m[j] = At(b, j - 1)
    OBVIOUS
  <2>. HIDE DEF m, r
  <2>4. m \in Seq(Cell) /\ Len(m) = t
    BY <1>1, <2>2, FcnIsSeq, SMTT(30)
  <2>5. b \in RingType /\ b.gen + 1 \in Nat
    BY Fields DEF RingOK
  <2>6. r \in RingType
    BY <1>1, <1>2, <2>1, <2>4, <2>5, Zenon DEF RingType
  <2>7. r.total = t /\ r.mem = m /\ r.beg = 0 /\ r.end = z
    BY <2>1, <2>5 DEF RingType
  <2>8. Kept(b, r)
    BY <2>1, <2>5 DEF RingType, Kept
  <2>9. Size(r) = z
    BY <1>2, <2>7 DEF Size
  <2>10. RingOK(r)
    BY <1>1, <1>2, <1>4, <2>4, <2>6, <2>7, <2>9 DEF RingOK
  <2>11. ASSUME NEW k \in 0 .. z - 1 PROVE At(r, k) = At(b, k)
    <3>1. /\ k \in 0 .. r.total - 1 /\ r.beg + k < r.total /\ r.beg + k + 1 = k + 1
          /\ k + 1 \in 1 .. t /\ k + 1 <= z /\ (k + 1) - 1 = k
      BY <1>1, <1>2, <1>4, <2>7
    <3>2. At(r, k) = r.mem[k + 1]
      BY <2>10, <3>1, AtIs
    <3>. QED  BY <2>3, <2>7, <3>1, <3>2
  <2>. QED  BY <1>1, <2>7, <2>8, <2>9, <2>10, <2>11 DEF SameBytes, r, z
<1>. QED  BY <1>3, <1>4

\* write and wlock make room for len bytes in a ring that is not lent
LEMMA MakeRoomOK ==
  ASSUME NEW b, RingOK(b), ~RingLocked(b), NEW len \in Nat
  PROVE  /\ RingOK(RingMakeRoom(b, len)) /\ SameBytes(b, RingMakeRoom(b, len)) /\ Kept(b, RingMakeRoom(b, len))
         /\ Size(b) + len < RingMakeRoom(b, len).total
<1>1. b.total \in Nat /\ b.total > 0 /\ Size(b) \in Nat /\ Size(b) < b.total
  BY Fields, SizeIs
<1>2. RingAvail(b) = (b.total - 1) - Size(b) /\ Capacity(b) = b.total - 1
  BY <1>1 DEF RingAvail, Capacity
<1>3. CASE RingAvail(b) < len
  <2>. DEFINE n == GrowSize(Capacity(b), len - RingAvail(b))
  <2>1. Capacity(b) \in Nat /\ len - RingAvail(b) \in Nat
    BY <1>1, <1>2, <1>3
  <2>2. n \in Nat /\ n >= Capacity(b) + (len - RingAvail(b))
    BY <2>1 DEF GrowSize, Larger
  <2>3. RingMakeRoom(b, len) = RingReserve(b, n)
    BY <1>3 DEF RingMakeRoom
  <2>. HIDE DEF n
  <2>4. RingOK(RingReserve(b, n)) /\ SameBytes(b, RingReserve(b, n)) /\ Kept(b, RingReserve(b, n))
        /\ RingReserve(b, n).total > n
    BY <2>2, ReserveOK
  <2>5. n >= Size(b) + len
    BY <1>1, <1>2, <2>2
  <2>6. RingReserve(b, n).total \in Nat
    BY <2>4, Fields
  <2>7. Size(b) + len < RingReserve(b, n).total
    BY <1>1, <2>2, <2>4, <2>5, <2>6
  <2>. QED  BY <2>3, <2>4, <2>7
<1>4. CASE ~(RingAvail(b) < len)
  <2>1. RingMakeRoom(b, len) = b
    BY <1>4 DEF RingMakeRoom
  <2>2. Size(b) + len < b.total
    BY <1>1, <1>2, <1>4
  <2>. QED  BY <2>1, <2>2 DEF SameBytes, Kept
<1>. QED  BY <1>3, <1>4
-----------------------------------------------------------------------------
\* whether the byte at j (counted from 1) of the allocation is stored and not yet read
Unread(b, j) ==
  IF b.beg <= b.end THEN j > b.beg /\ j <= b.end ELSE j > b.beg \/ j <= b.end

\* where the byte at distance k is, counted from 1
Index(b, k) == ((b.beg + k) % b.total) + 1

\* the stored bytes are at unread places
LEMMA UnreadIs ==
  ASSUME NEW b, RingOK(b), NEW k \in 0 .. Size(b) - 1
  PROVE  Index(b, k) \in 1 .. b.total /\ Unread(b, Index(b, k))
<1>. DEFINE x == b.beg + k
            n == b.total
<1>1. n \in Nat /\ n > 0 /\ b.beg \in Nat /\ b.end \in Nat /\ b.beg <= n /\ b.end <= n
  BY Fields
<1>2. /\ Size(b) \in Nat /\ Size(b) < n
      /\ b.beg <= b.end => Size(b) = b.end - b.beg
      /\ b.beg > b.end => Size(b) = (b.end - b.beg) + n
  BY SizeIs
<1>3. k \in Nat /\ k < Size(b) /\ x \in Nat /\ x = b.beg + k /\ x < 2 * n
  BY <1>1, <1>2
<1>4. Index(b, k) = (x % n) + 1
  BY DEF Index
<1>. HIDE DEF x, n
<1>5. (x < n => x % n = x) /\ (x >= n => x % n = x - n)
  BY <1>1, <1>3, ModIs, SMTT(30)
<1>6. CASE x < n
  <2>1. Index(b, k) = x + 1
    BY <1>4, <1>5, <1>6
  <2>2. x + 1 \in 1 .. n
    BY <1>1, <1>3, <1>6
  <2>3. b.beg <= b.end => x + 1 > b.beg /\ x + 1 <= b.end
    BY <1>1, <1>2, <1>3
  <2>4. x + 1 > b.beg
    BY <1>1, <1>3
  <2>. QED  BY <2>1, <2>2, <2>3, <2>4 DEF Unread, n
<1>7. CASE x >= n
  <2>1. Index(b, k) = (x - n) + 1
    BY <1>4, <1>5, <1>7
  <2>2. (x - n) + 1 \in 1 .. n
    BY <1>1, <1>3, <1>7
  <2>3. ~(b.beg <= b.end) /\ (x - n) + 1 <= b.end
    BY <1>1, <1>2, <1>3, <1>7
  <2>. QED  BY <2>1, <2>2, <2>3 DEF Unread, n
<1>. QED  BY <1>1, <1>3, <1>6, <1>7

\* A ring whose end moved, with its unread bytes untouched, holds the old bytes first.
LEMMA Extended ==
  ASSUME NEW b, RingOK(b), NEW c, c \in RingType,
         c.total = b.total, c.beg = b.beg, c.end <= c.total, Len(c.mem) = c.total,
         Size(b) <= Size(c), Size(c) < c.total,
         \A j \in 1 .. b.total : Unread(b, j) => c.mem[j] = b.mem[j]
  PROVE  RingOK(c) /\ Extends(b, c)
<1>1. RingOK(c)
  BY Fields DEF RingOK
<1>2. ASSUME NEW k \in 0 .. Size(b) - 1 PROVE At(c, k) = At(b, k)
  <2>1. At(c, k) = c.mem[Index(b, k)] /\ At(b, k) = b.mem[Index(b, k)]
    BY DEF At, Index
  <2>2. Index(b, k) \in 1 .. b.total /\ Unread(b, Index(b, k))
    BY UnreadIs
  <2>. QED  BY <2>1, <2>2, SMTT(30)
<1>. QED  BY <1>1, <1>2 DEF Extends

\* A ring whose beginning moved over n bytes holds the other ones.
LEMMA Dropped ==
  ASSUME NEW b, RingOK(b), NEW c, c \in RingType, NEW n \in 0 .. Size(b),
         c.total = b.total, c.mem = b.mem,
         c.beg = b.beg + n \/ c.beg = (b.beg + n) - b.total, c.beg <= c.total,
         c.end <= c.total, Size(c) = Size(b) - n
  PROVE  RingOK(c) /\ Drops(b, c)
<1>1. b.total \in Nat /\ b.total > 0 /\ Size(b) \in Nat /\ Size(b) < b.total
      /\ b.beg \in Nat /\ b.beg <= b.total
  BY Fields, SizeIs
<1>2. n \in Nat /\ Size(c) \in Nat /\ Size(c) < c.total /\ n + Size(c) = Size(b)
      /\ Size(b) - Size(c) = n /\ c.total = b.total
  BY <1>1
<1>3. RingOK(c)
  BY <1>1, <1>2 DEF RingOK
<1>4. c.beg \in Nat
  BY <1>3, Fields
<1>5. ASSUME NEW k \in 0 .. Size(c) - 1 PROVE At(c, k) = At(b, k + n)
  <2>0. k \in Nat /\ k < Size(c)
    BY <1>2
  <2>1. k \in 0 .. c.total - 1 /\ k + n \in 0 .. b.total - 1
    BY ONLY <1>1, <1>2, <2>0
  <2>2. /\ c.beg + k < b.total => At(c, k) = b.mem[c.beg + k + 1]
        /\ c.beg + k >= b.total => At(c, k) = b.mem[(c.beg + k) - b.total + 1]
    BY <1>3, <2>1, AtIs, SMTT(30)
  <2>3. /\ b.beg + (k + n) < b.total => At(b, k + n) = b.mem[b.beg + (k + n) + 1]
        /\ b.beg + (k + n) >= b.total => At(b, k + n) = b.mem[(b.beg + (k + n)) - b.total + 1]
    BY <2>1, AtIs, SMTT(30)
  <2>4. CASE c.beg = b.beg + n
    <3>1. c.beg + k = b.beg + (k + n) /\ (c.beg + k < b.total \/ c.beg + k >= b.total)
      BY ONLY <1>1, <1>2, <2>0, <2>4, SMTT(30)
    <3>. QED  BY <2>2, <2>3, <3>1
  <2>5. CASE c.beg = (b.beg + n) - b.total
    <3>1. /\ c.beg + k < b.total /\ b.beg + (k + n) >= b.total
          /\ c.beg + k + 1 = (b.beg + (k + n)) - b.total + 1
      BY ONLY <1>1, <1>2, <1>4, <2>0, <2>5, SMTT(30)
    <3>. QED  BY <2>2, <2>3, <3>1
  <2>. QED  BY <2>4, <2>5
<1>6. Size(c) <= Size(b)
  BY <1>1, <1>2
<1>. QED  BY <1>2, <1>3, <1>5, <1>6, SMTT(30) DEF Drops
-----------------------------------------------------------------------------
\* f is what memcpy(_data + at, s, Len(s)) leaves of m
IsStore(f, m, at, s) ==
  /\ f \in Seq(Cell) /\ Len(f) = Len(m)
  /\ \A j \in 1 .. Len(m) : j <= at \/ j > at + Len(s) => f[j] = m[j]

\* memcpy into the allocation
LEMMA StoredIs ==
  ASSUME NEW m \in Seq(Cell), NEW at \in Nat, NEW s \in Seq(Cell)
  PROVE  IsStore(Stored(m, at, s), m, at, s)
<1>. DEFINE f == Stored(m, at, s)
<1>1. Len(m) \in Nat /\ DOMAIN m = 1 .. Len(m) /\ \A j \in 1 .. Len(m) : m[j] \in Cell
  BY LenProperties, ElementOfSeq
<1>2. Len(s) \in Nat /\ \A j \in 1 .. Len(s) : s[j] \in Cell
  BY LenProperties, ElementOfSeq
<1>3. f = [j \in 1 .. Len(m) |-> IF j > at /\ j <= at + Len(s) THEN s[j - at] ELSE m[j]]
  BY <1>1 DEF Stored
<1>4. \A j \in 1 .. Len(m) : j > at /\ j <= at + Len(s) => j - at \in 1 .. Len(s)
  BY <1>1, <1>2
<1>5. f \in [1 .. Len(m) -> Cell]
  BY <1>1, <1>2, <1>3, <1>4
<1>6. f \in Seq(Cell) /\ Len(f) = Len(m)
  BY <1>1, <1>5, FcnIsSeq, SMTT(30)
<1>7. ASSUME NEW j \in 1 .. Len(m), j <= at \/ j > at + Len(s) PROVE f[j] = m[j]
  BY <1>1, <1>2, <1>3, <1>7
<1>. QED  BY <1>6, <1>7 DEF IsStore

\* new contents of the allocation and a new end
Written(b, m, y) == [b EXCEPT !.mem = m, !.end = y]

\* the fields of a ring that was written
LEMMA WrittenFields ==
  ASSUME NEW b, RingOK(b), NEW m \in Seq(Cell), NEW y \in Nat, NEW r, r = Written(b, m, y)
  PROVE  /\ r \in RingType /\ Kept(b, r)
         /\ r.total = b.total /\ r.mem = m /\ r.beg = b.beg /\ r.end = y
<1>1. b \in RingType
  BY DEF RingOK
<1>2. r \in RingType
  BY <1>1, Zenon DEF RingType, Written
<1>3. r.total = b.total /\ r.mem = m /\ r.beg = b.beg /\ r.end = y
  BY <1>1 DEF RingType, Written
<1>4. Kept(b, r)
  BY <1>1 DEF RingType, Written, Kept
<1>. QED  BY <1>2, <1>3, <1>4

\* write appends, and wraps where the ring ends
LEMMA WriteOpOK ==
  ASSUME NEW b, RingOK(b), ~RingLocked(b), NEW s \in Seq(Cell)
  PROVE  /\ RingOK(RingWriteOp(b, s)) /\ Extends(b, RingWriteOp(b, s)) /\ Kept(b, RingWriteOp(b, s))
<1>. DEFINE l == Len(s)
            g == RingMakeRoom(b, l)
            tail == g.total - g.end
            r == RingWriteOp(b, s)
<1>1. l \in Nat
  BY LenProperties
<1>2. RingOK(g) /\ SameBytes(b, g) /\ Kept(b, g) /\ Size(b) + l < g.total
  BY <1>1, MakeRoomOK, SMTT(30)
<1>. HIDE DEF g
<1>3. /\ g.total \in Nat /\ g.total > 0 /\ g.beg \in Nat /\ g.end \in Nat
      /\ g.beg <= g.total /\ g.end <= g.total
  BY <1>2, Fields
<1>4. /\ Size(g) \in Nat /\ Size(g) + l < g.total
      /\ g.beg <= g.end => Size(g) = g.end - g.beg
      /\ g.beg > g.end => Size(g) = (g.end - g.beg) + g.total
  BY <1>2, SizeIs DEF SameBytes
<1>5. g.mem \in Seq(Cell) /\ Len(g.mem) = g.total
  BY <1>2, Fields
<1>6. tail \in Nat /\ tail + g.end = g.total
  BY <1>3
<1>7. RingOK(r) /\ Extends(g, r) /\ Kept(g, r)
  <2>1. CASE tail >= l
    <3>. DEFINE m == Stored(g.mem, g.end, s)
                y == g.end + l
    <3>1. r = Written(g, m, y)
      BY <2>1, SMTT(30) DEF RingWriteOp, Written, g
    <3>2. IsStore(m, g.mem, g.end, s)
      BY <1>3, <1>5, StoredIs
    <3>3. m \in Seq(Cell) /\ Len(m) = g.total /\ \A j \in 1 .. g.total : j <= g.end \/ j > y => m[j] = g.mem[j]
      BY <1>5, <3>2 DEF IsStore
    <3>4. y \in Nat /\ y <= g.total
      BY <1>1, <1>3, <1>6, <2>1, SMTT(30)
    <3>. HIDE DEF m, r
    <3>5. /\ r \in RingType /\ Kept(g, r)
          /\ r.total = g.total /\ r.mem = m /\ r.beg = g.beg /\ r.end = y
      BY <1>2, <3>1, <3>3, <3>4, WrittenFields
    <3>6. g.beg > g.end => g.beg > y
      BY <1>1, <1>3, <1>4, SMTT(30)
    <3>7. Size(r) = Size(g) + l
      BY <1>1, <1>3, <1>4, <3>5, <3>6, SMTT(30) DEF Size
    <3>8. Size(g) <= Size(r) /\ Size(r) < r.total /\ r.end <= r.total /\ Len(r.mem) = r.total
      BY <1>1, <1>3, <1>4, <3>3, <3>4, <3>5, <3>7
    <3>9. ASSUME NEW j \in 1 .. g.total, Unread(g, j) PROVE j <= g.end \/ j > y
      BY <1>1, <1>3, <3>6, <3>9, SMTT(30) DEF Unread
    <3>. QED  BY <1>2, <3>3, <3>5, <3>8, <3>9, Extended, SMTT(30)
  <2>2. CASE ~(tail >= l)
    <3>. DEFINE s1 == SubSeq(s, 1, tail)
                s2 == SubSeq(s, tail + 1, l)
                m1 == Stored(g.mem, g.end, s1)
                m == Stored(m1, 0, s2)
                y == l - tail
    <3>1. r = Written(g, m, y)
      BY <2>2 DEF RingWriteOp, Written, g
    <3>2. y \in Nat /\ y > 0 /\ g.beg <= g.end /\ y < g.beg
      BY <1>1, <1>3, <1>4, <1>6, <2>2, SMTT(30)
    <3>3. s1 \in Seq(Cell) /\ Len(s1) = tail
      <4>1. \A j \in 1 .. tail : s[j] \in Cell
        BY <1>1, <1>6, <2>2, ElementOfSeq
      <4>2. tail \in Int /\ 1 \in Int
        BY <1>6
      <4>. HIDE DEF tail
      <4>3. s1 \in Seq(Cell) /\ Len(s1) = IF 1 <= tail THEN tail - 1 + 1 ELSE 0
        BY <4>1, <4>2, SubSeqProperties
      <4>. QED  BY <1>6, <4>3
    <3>4. s2 \in Seq(Cell) /\ Len(s2) = y
      <4>1. \A j \in tail + 1 .. l : s[j] \in Cell
        BY <1>1, <1>6, ElementOfSeq
      <4>2. tail + 1 \in Int /\ l \in Int
        BY <1>1, <1>6
      <4>. HIDE DEF tail, l
      <4>3. s2 \in Seq(Cell) /\ Len(s2) = IF tail + 1 <= l THEN l - (tail + 1) + 1 ELSE 0
        BY <4>1, <4>2, SubSeqProperties
      <4>4. tail + 1 <= l /\ l - (tail + 1) + 1 = y
        BY <1>1, <1>6, <2>2
      <4>. QED  BY <4>3, <4>4
    <3>. HIDE DEF s1, s2
    <3>5. IsStore(m1, g.mem, g.end, s1) /\ IsStore(m, m1, 0, s2)
      <4>1. IsStore(m1, g.mem, g.end, s1)
        BY <1>3, <1>5, <3>3, StoredIs
      <4>. HIDE DEF m1
      <4>2. m1 \in Seq(Cell)
        BY <4>1 DEF IsStore
      <4>. QED  BY <3>4, <4>1, <4>2, StoredIs
    <3>. HIDE DEF m1, m, r
    <3>6. /\ m \in Seq(Cell) /\ Len(m) = g.total /\ Len(m1) = g.total
          /\ \A j \in 1 .. g.total : j > 0 + y => m[j] = m1[j]
          /\ \A j \in 1 .. g.total : j <= g.end => m1[j] = g.mem[j]
      BY <1>5, <3>4, <3>5, SMTT(30) DEF IsStore
    <3>7. /\ r \in RingType /\ Kept(g, r)
          /\ r.total = g.total /\ r.mem = m /\ r.beg = g.beg /\ r.end = y
      BY <1>2, <3>1, <3>2, <3>6, WrittenFields, SMTT(30)
    <3>8. Size(r) = Size(g) + l
      <4>1. Size(r) = (y - g.beg) + g.total
        BY <1>3, <3>2, <3>7 DEF Size
      <4>. QED  BY <1>1, <1>3, <1>4, <1>6, <3>2, <4>1, SMTT(30)
    <3>9. Size(g) <= Size(r) /\ Size(r) < r.total
      BY <1>1, <1>3, <1>4, <3>7, <3>8
    <3>10. r.end <= r.total /\ Len(r.mem) = r.total
      BY <1>3, <3>2, <3>6, <3>7
    <3>11. ASSUME NEW j \in 1 .. g.total, Unread(g, j) PROVE j <= g.end /\ j > 0 + y
      BY <1>3, <3>2, <3>11 DEF Unread
    <3>. QED  BY <1>2, <3>6, <3>7, <3>9, <3>10, <3>11, Extended, SMTT(30)
  <2>. QED  BY <2>1, <2>2, SMTT(30)
<1>8. Extends(b, r)
  BY <1>2, <1>7, SMTT(30) DEF SameBytes, Extends
<1>. QED  BY <1>2, <1>7, <1>8 DEF Kept

\* read takes from the front; the ring it leaves must have kept its free byte, which it
\* loses when it reads all of contents that end at the end of the allocation
LEMMA ReadOpOK ==
  ASSUME NEW b, RingOK(b), NEW len \in Nat, Size(RingReadOp(b, len)) < b.total
  PROVE  RingOK(RingReadOp(b, len)) /\ Drops(b, RingReadOp(b, len)) /\ Kept(b, RingReadOp(b, len))
<1>. DEFINE c == Smaller(Size(b), len)
            n == b.beg + c
            x == IF n >= b.total THEN n - b.total ELSE n
            r == RingReadOp(b, len)
<1>1. /\ b.total \in Nat /\ b.total > 0 /\ b.beg \in Nat /\ b.end \in Nat
      /\ b.beg <= b.total /\ b.end <= b.total
  BY Fields
<1>2. /\ Size(b) \in Nat /\ Size(b) < b.total
      /\ b.beg <= b.end => Size(b) = b.end - b.beg
      /\ b.beg > b.end => Size(b) = (b.end - b.beg) + b.total
  BY SizeIs
<1>3. c \in Nat /\ c <= Size(b)
  BY <1>2 DEF Smaller
<1>4. r = [b EXCEPT !.beg = x] /\ b \in RingType
  BY DEF RingReadOp, RingOK
<1>. HIDE DEF c
<1>5. x \in Nat /\ x <= b.total /\ (x = b.beg + c \/ x = (b.beg + c) - b.total)
  BY <1>1, <1>2, <1>3
<1>6. n >= b.total => x = (b.beg + c) - b.total
  OBVIOUS
<1>7. n < b.total => x = b.beg + c
  BY <1>1, <1>3
<1>. HIDE DEF x, r
<1>8. r \in RingType
  BY <1>4, <1>5, Zenon DEF RingType
<1>9. r.total = b.total /\ r.mem = b.mem /\ r.beg = x /\ r.end = b.end
  BY <1>4 DEF RingType
<1>10. Kept(b, r)
  BY <1>4, SMTT(30) DEF RingType, Kept
<1>11. /\ x <= b.end => Size(r) = b.end - x
       /\ x > b.end => Size(r) = (b.end - x) + b.total
       /\ Size(r) < b.total
  BY <1>1, <1>5, <1>9, SMTT(30) DEF Size, r
<1>12. Size(r) = Size(b) - c
  <2>1. CASE b.beg <= b.end
    <3>1. n <= b.end
      BY <1>1, <1>2, <1>3, <2>1
    <3>2. n < b.total
      <4>1. SUFFICES ASSUME n >= b.total PROVE FALSE
        BY <1>1, <1>3
      <4>2. x = 0 /\ b.end = b.total
        BY <1>1, <1>3, <1>6, <3>1, <4>1
      <4>. QED  BY <1>1, <1>11, <4>2
    <3>3. x <= b.end /\ x = b.beg + c
      BY <1>7, <3>1, <3>2
    <3>. QED  BY <1>1, <1>2, <1>3, <1>11, <2>1, <3>3
  <2>2. CASE b.beg > b.end
    <3>1. CASE n < b.total
      <4>1. x = b.beg + c /\ x > b.end
        BY <1>1, <1>3, <1>7, <2>2, <3>1, SMTT(30)
      <4>. QED  BY <1>1, <1>2, <1>3, <1>11, <2>2, <4>1
    <3>2. CASE n >= b.total
      <4>1. x = (b.beg + c) - b.total /\ x <= b.end
        BY <1>1, <1>2, <1>3, <1>6, <2>2, <3>2, SMTT(30)
      <4>. QED  BY <1>1, <1>2, <1>3, <1>11, <2>2, <4>1
    <3>. QED  BY <1>1, <1>3, <3>1, <3>2, SMTT(30)
  <2>. QED  BY <1>1, <2>1, <2>2, SMTT(30)
<1>13. c \in 0 .. Size(b) /\ r.end <= r.total /\ r.beg <= r.total
  BY <1>1, <1>2, <1>3, <1>5, <1>9
<1>14. r.beg = b.beg + c \/ r.beg = (b.beg + c) - b.total
  BY <1>5, <1>9
<1>15. RingOK(r) /\ Drops(b, r)
  BY <1>8, <1>9, <1>12, <1>13, <1>14, Dropped
<1>. QED  BY <1>10, <1>15, SMTT(30) DEF r

\* runlock takes the bytes the caller has read out of the region it was lent
LEMMA RUnlockOpOK ==
  ASSUME NEW b, RingOK(b), NEW p, NEW len \in Nat, RingRUnlockOk(b, p, len)
  PROVE  /\ RingOK(RingRUnlockOp(b, len)) /\ Drops(b, RingRUnlockOp(b, len))
         /\ ~RingRUnlockOp(b, len).rl /\ RingRUnlockOp(b, len).wl = b.wl
<1>. DEFINE x == b.beg + len
            r == RingRUnlockOp(b, len)
<1>1. /\ b.total \in Nat /\ b.total > 0 /\ b.beg \in Nat /\ b.end \in Nat
      /\ b.beg <= b.total /\ b.end <= b.total
  BY Fields
<1>2. /\ Size(b) \in Nat /\ Size(b) < b.total
      /\ b.beg <= b.end => Size(b) = b.end - b.beg
      /\ b.beg > b.end => Size(b) = (b.end - b.beg) + b.total
  BY SizeIs
<1>3. len <= Size(b) /\ x \in Nat /\ x <= b.total
  BY <1>1, <1>2 DEF RingRUnlockOk
<1>4. r = [b EXCEPT !.beg = x, !.rl = FALSE] /\ b \in RingType
  BY DEF RingRUnlockOp, RingOK
<1>. HIDE DEF r
<1>5. r \in RingType
  BY <1>3, <1>4, Zenon DEF RingType
<1>6. r.total = b.total /\ r.mem = b.mem /\ r.beg = x /\ r.end = b.end
  BY <1>4 DEF RingType
<1>7. ~r.rl /\ r.wl = b.wl
  BY <1>4 DEF RingType
<1>8. /\ x <= b.end => Size(r) = b.end - x
      /\ x > b.end => Size(r) = (b.end - x) + b.total
  BY <1>1, <1>3, <1>6 DEF Size
<1>9. b.beg <= b.end <=> x <= b.end
  BY <1>1, <1>2, <1>3
<1>10. Size(r) = Size(b) - len
  BY <1>1, <1>2, <1>3, <1>8, <1>9
<1>11. len \in 0 .. Size(b) /\ r.end <= r.total /\ r.beg <= r.total
  BY <1>1, <1>2, <1>3, <1>6
<1>12. RingOK(r) /\ Drops(b, r)
  BY <1>5, <1>6, <1>10, <1>11, Dropped, SMTT(30)
<1>. QED  BY <1>7, <1>12 DEF r

\* wlock lends a region that lies in the allocation behind the stored bytes, and leaves
\* the free byte out of it
LEMMA WLockOpOK ==
  ASSUME NEW b, RingOK(b), ~RingLocked(b), NEW len \in Nat
  PROVE  LET r == RingWLockOp(b, len)
         IN  /\ RingOK(r) /\ SameBytes(b, r) /\ r.wl /\ r.rl = b.rl
             /\ WLockLen(r, len) \in Nat /\ r.end + WLockLen(r, len) <= r.total
             /\ Size(r) + WLockLen(r, len) < r.total
<1>. DEFINE g == RingMakeRoom(b, len)
            c == IF g.elastic /\ g.total - g.end < len THEN Repos(g) ELSE g
            r == RingWLockOp(b, len)
<1>1. RingOK(g) /\ SameBytes(b, g) /\ Kept(b, g) /\ Size(b) + len < g.total
  BY MakeRoomOK
<1>2. r = [c EXCEPT !.wl = TRUE]
  BY DEF RingWLockOp
<1>. HIDE DEF g
<1>3. /\ g.total \in Nat /\ g.total > 0 /\ g.beg \in Nat /\ g.end \in Nat
      /\ g.beg <= g.total /\ g.end <= g.total /\ g.elastic \in BOOLEAN
  BY <1>1, Fields
<1>4. /\ Size(g) \in Nat /\ Size(g) + len < g.total
      /\ g.beg <= g.end => Size(g) = g.end - g.beg
      /\ g.beg > g.end => Size(g) = (g.end - g.beg) + g.total
  BY <1>1, SizeIs, SMTT(30) DEF SameBytes
<1>5. /\ RingOK(c) /\ SameBytes(g, c) /\ Kept(g, c) /\ c.total = g.total
      /\ c.elastic => c.end + len <= c.total
  <2>1. CASE g.elastic /\ g.total - g.end < len
    <3>1. g.beg <= g.end
      BY <1>3, <1>4, <2>1
    <3>2. c = Repos(g)
      BY <2>1
    <3>3. Repositioned(g, Repos(g)) /\ Repos(g).end = Size(g)
      BY <1>1, <3>1, ReposKeepsContents
    <3>4. Size(g) + len <= g.total
      BY <1>3, <1>4, SMTT(30)
    <3>. QED  BY <3>2, <3>3, <3>4 DEF Repositioned
  <2>2. CASE ~(g.elastic /\ g.total - g.end < len)
    <3>1. c = g
      BY <2>2
    <3>2. g.elastic => g.end + len <= g.total
      BY <1>3, <2>2
    <3>. QED  BY <1>1, <3>1, <3>2 DEF SameBytes, Kept
  <2>. QED  BY <2>1, <2>2, SMTT(30)
<1>. HIDE DEF c, r
<1>6. c \in RingType
  BY <1>5 DEF RingOK
<1>7. r \in RingType
  BY <1>2, <1>6, Zenon DEF RingType
<1>8. r.total = c.total /\ r.mem = c.mem /\ r.beg = c.beg /\ r.end = c.end
  BY <1>2, <1>6 DEF RingType
<1>9. r.wl /\ r.rl = c.rl /\ r.elastic = c.elastic
  BY <1>2, <1>6 DEF RingType
<1>10. Size(r) = Size(c) /\ \A k : At(r, k) = At(c, k)
  BY <1>8, SameLayout
<1>11. RingOK(r)
  BY <1>5, <1>7, <1>8, <1>10 DEF RingOK
<1>12. SameBytes(b, r) /\ r.rl = b.rl
  BY <1>1, <1>5, <1>9, <1>10, SMTT(30) DEF SameBytes, Kept
<1>13. c.end \in Nat /\ c.end <= c.total
  BY <1>5, Fields
<1>14. WLockLen(r, len) \in Nat /\ WLockLen(r, len) <= len /\ r.end + WLockLen(r, len) <= r.total
  <2>1. CASE r.elastic
    BY <1>3, <1>5, <1>8, <1>9, <1>13, <2>1, SMTT(30) DEF WLockLen
  <2>2. CASE ~r.elastic
    <3>1. WLockLen(r, len) = Smaller(len, c.total - c.end)
      BY <1>8, <2>2 DEF WLockLen
    <3>2. c.total - c.end \in Nat
      BY <1>3, <1>5, <1>13
    <3>3. Smaller(len, c.total - c.end) \in Nat /\ Smaller(len, c.total - c.end) <= len
          /\ Smaller(len, c.total - c.end) <= c.total - c.end
      BY <3>2 DEF Smaller
    <3>. QED  BY <1>3, <1>5, <1>8, <1>13, <3>1, <3>3, SMTT(30)
  <2>. QED  BY <2>1, <2>2, SMTT(30)
<1>15. Size(r) = Size(g) /\ r.total = g.total
  BY <1>5, <1>8, <1>10 DEF SameBytes
<1>16. Size(r) + WLockLen(r, len) < r.total
  BY <1>3, <1>4, <1>14, <1>15, SMTT(30)
<1>. QED  BY <1>9, <1>11, <1>12, <1>14, <1>16 DEF r

\* rlock lends the oldest bytes, contiguous
LEMMA RLockOpOK ==
  ASSUME NEW b, RingOK(b), NEW len \in Nat
  PROVE  LET r == RingRLockOp(b, len)
         IN  /\ RingOK(r) /\ SameBytes(b, r) /\ r.rl /\ r.wl = b.wl
             /\ RLockLen(r, len) \in 0 .. Size(b) /\ r.beg + RLockLen(r, len) <= r.total
<1>. DEFINE c == IF b.elastic /\ b.total - b.beg < Smaller(len, Size(b)) THEN Repos(b) ELSE b
            z == Smaller(len, Size(b))
            r == RingRLockOp(b, len)
<1>1. /\ b.total \in Nat /\ b.total > 0 /\ b.beg \in Nat /\ b.end \in Nat
      /\ b.beg <= b.total /\ b.end <= b.total /\ b.elastic \in BOOLEAN
  BY Fields
<1>2. Size(b) \in Nat
  BY SizeIs
<1>3. z \in Nat /\ z <= Size(b)
  BY <1>2 DEF Smaller
<1>4. r = [c EXCEPT !.rl = TRUE]
  BY DEF RingRLockOp
<1>. HIDE DEF z
<1>5. /\ RingOK(c) /\ SameBytes(b, c) /\ Kept(b, c) /\ c.total = b.total
      /\ c.elastic => c.beg + z <= c.total
  <2>1. CASE b.elastic /\ b.total - b.beg < z
    <3>1. c = Repos(b)
      BY <2>1 DEF z
    <3>2. Repositioned(b, c) /\ c.beg <= c.end
      BY <3>1, ReposKeepsContents
    <3>. HIDE DEF c
    <3>3. RingOK(c) /\ Size(c) = Size(b) /\ c.total = b.total
      BY <3>2 DEF Repositioned, SameBytes
    <3>4. c.beg \in Nat /\ c.end \in Nat /\ c.end <= c.total /\ Size(c) = c.end - c.beg
      BY <3>2, <3>3, Fields, SizeIs
    <3>5. c.beg + z <= c.total
      BY <1>1, <1>2, <1>3, <3>3, <3>4, SMTT(30)
    <3>. QED  BY <3>2, <3>5 DEF Repositioned
  <2>2. CASE ~(b.elastic /\ b.total - b.beg < z)
    <3>1. c = b
      BY <2>2 DEF z
    <3>2. b.elastic => b.beg + z <= b.total
      BY <1>1, <1>3, <2>2
    <3>. QED  BY <3>1, <3>2 DEF SameBytes, Kept
  <2>. QED  BY <2>1, <2>2, ZenonT(30)
<1>. HIDE DEF c, r
<1>6. c \in RingType
  BY <1>5 DEF RingOK
<1>7. r \in RingType
  BY <1>4, <1>6, Zenon DEF RingType
<1>8. r.total = c.total /\ r.mem = c.mem /\ r.beg = c.beg /\ r.end = c.end
  BY <1>4, <1>6 DEF RingType
<1>9. r.rl /\ r.wl = c.wl /\ r.elastic = c.elastic
  BY <1>4, <1>6 DEF RingType
<1>10. Size(r) = Size(c) /\ \A k : At(r, k) = At(c, k)
  BY <1>8, SameLayout
<1>11. RingOK(r)
  BY <1>5, <1>7, <1>8, <1>10, SMTT(30) DEF RingOK
<1>12. SameBytes(b, r) /\ r.wl = b.wl
  BY <1>5, <1>9, <1>10, SMTT(30) DEF SameBytes, Kept
<1>13. c.beg \in Nat /\ c.beg <= c.total
  BY <1>5, Fields
<1>14. Smaller(len, Size(r)) = z
  BY <1>12 DEF SameBytes, z
<1>15. RLockLen(r, len) \in Nat /\ RLockLen(r, len) <= z /\ r.beg + RLockLen(r, len) <= r.total
  <2>1. CASE r.elastic
    BY <1>1, <1>3, <1>5, <1>8, <1>9, <1>13, <1>14, <2>1, SMTT(30) DEF RLockLen
  <2>2. CASE ~r.elastic
    <3>1. RLockLen(r, len) = Smaller(z, c.total - c.beg)
      BY <1>8, <1>14, <2>2 DEF RLockLen
    <3>2. c.total - c.beg \in Nat
      BY <1>1, <1>5, <1>13
    <3>3. Smaller(z, c.total - c.beg) \in Nat /\ Smaller(z, c.total - c.beg) <= z
          /\ Smaller(z, c.total - c.beg) <= c.total - c.beg
      BY <1>3, <3>2 DEF Smaller
    <3>. QED  BY <1>1, <1>5, <1>8, <1>13, <3>1, <3>3, SMTT(30)
  <2>. QED  BY <2>1, <2>2
<1>16. RLockLen(r, len) \in 0 .. Size(b)
  BY <1>2, <1>3, <1>15
<1>. QED  BY <1>9, <1>11, <1>12, <1>15, <1>16, SMTT(30) DEF r

\* a store into the region behind the stored bytes leaves them alone
LEMMA FillOK ==
  ASSUME NEW b, RingOK(b), NEW s \in Seq(Cell), b.end + Len(s) <= b.total,
         Size(b) + Len(s) < b.total,
         NEW r, r = [b EXCEPT !.mem = Stored(@, b.end, s)]
  PROVE  /\ RingOK(r) /\ Extends(b, r) /\ Kept(b, r)
         /\ Size(r) = Size(b) /\ r.total = b.total /\ r.end = b.end
<1>. DEFINE l == Len(s)
            m == Stored(b.mem, b.end, s)
<1>1. /\ b.total \in Nat /\ b.total > 0 /\ b.beg \in Nat /\ b.end \in Nat
      /\ b.beg <= b.total /\ b.end <= b.total /\ l \in Nat
  BY Fields, LenProperties
<1>2. /\ Size(b) \in Nat /\ Size(b) + l < b.total
      /\ b.beg <= b.end => Size(b) = b.end - b.beg
      /\ b.beg > b.end => Size(b) = (b.end - b.beg) + b.total
  BY SizeIs
<1>3. b.mem \in Seq(Cell) /\ Len(b.mem) = b.total
  BY Fields
<1>4. IsStore(m, b.mem, b.end, s)
  BY <1>1, <1>3, StoredIs
<1>5. /\ m \in Seq(Cell) /\ Len(m) = b.total
      /\ \A j \in 1 .. b.total : j <= b.end \/ j > b.end + l => m[j] = b.mem[j]
  BY <1>3, <1>4 DEF IsStore
<1>6. r = [b EXCEPT !.mem = m] /\ b \in RingType
  BY DEF RingOK
<1>. HIDE DEF m
<1>7. r \in RingType
  BY <1>5, <1>6, Zenon DEF RingType
<1>8. r.total = b.total /\ r.mem = m /\ r.beg = b.beg /\ r.end = b.end
  BY <1>6 DEF RingType
<1>9. Kept(b, r)
  BY <1>6 DEF RingType, Kept
<1>10. Size(r) = Size(b)
  BY <1>8 DEF Size
<1>11. b.beg > b.end => b.beg >= b.end + l
  BY <1>1, <1>2
<1>12. ASSUME NEW j \in 1 .. b.total, Unread(b, j) PROVE j <= b.end \/ j > b.end + l
  BY ONLY <1>1, <1>11, <1>12 DEF Unread
<1>13. /\ Size(b) <= Size(r) /\ Size(r) < r.total /\ r.end <= r.total /\ Len(r.mem) = r.total
  BY <1>1, <1>2, <1>5, <1>8, <1>10
<1>14. \A j \in 1 .. b.total : Unread(b, j) => r.mem[j] = b.mem[j]
  BY <1>5, <1>8, <1>12
<1>15. RingOK(r) /\ Extends(b, r)
  BY <1>7, <1>8, <1>13, <1>14, Extended, Zenon
<1>. QED  BY <1>8, <1>9, <1>10, <1>15

\* wunlock adds what the caller has stored in the region it was lent
LEMMA WUnlockOpOK ==
  ASSUME NEW b, RingOK(b), NEW p, NEW len \in Nat, RingWUnlockOk(b, p, len)
  PROVE  /\ RingOK(RingWUnlockOp(b, len)) /\ Extends(b, RingWUnlockOp(b, len))
         /\ ~RingWUnlockOp(b, len).wl /\ RingWUnlockOp(b, len).rl = b.rl
<1>. DEFINE y == b.end + len
            r == RingWUnlockOp(b, len)
<1>1. /\ b.total \in Nat /\ b.total > 0 /\ b.beg \in Nat /\ b.end \in Nat
      /\ b.beg <= b.total /\ b.end <= b.total
  BY Fields
<1>2. /\ Size(b) \in Nat /\ Size(b) < b.total
      /\ b.beg <= b.end => Size(b) = b.end - b.beg
      /\ b.beg > b.end => Size(b) = (b.end - b.beg) + b.total
  BY SizeIs
<1>3. RingAvail(b) = (b.total - 1) - Size(b)
  BY <1>1, <1>2 DEF RingAvail, Capacity
<1>4. Size(b) + len < b.total /\ y \in Nat /\ y <= b.total
  BY <1>1, <1>2, <1>3 DEF RingWUnlockOk
<1>5. r = [b EXCEPT !.end = y, !.wl = FALSE] /\ b \in RingType
  BY DEF RingWUnlockOp, RingOK
<1>. HIDE DEF r
<1>6. r \in RingType
  BY <1>4, <1>5, Zenon DEF RingType
<1>7. r.total = b.total /\ r.mem = b.mem /\ r.beg = b.beg /\ r.end = y
  BY <1>5 DEF RingType
<1>8. ~r.wl /\ r.rl = b.rl
  BY <1>5, SMTT(30) DEF RingType
<1>9. b.beg <= b.end <=> b.beg <= y
  BY <1>1, <1>2, <1>4
<1>10. /\ b.beg <= y => Size(r) = y - b.beg
       /\ b.beg > y => Size(r) = (y - b.beg) + b.total
  BY <1>1, <1>4, <1>7 DEF Size
<1>11. Size(r) = Size(b) + len
  BY <1>1, <1>2, <1>4, <1>9, <1>10, SMTT(30)
<1>12. Size(b) <= Size(r) /\ Size(r) < r.total /\ r.end <= r.total /\ Len(r.mem) = r.total
  BY <1>1, <1>2, <1>4, <1>7, <1>11, Fields, SMTT(30)
<1>13. \A j \in 1 .. b.total : Unread(b, j) => r.mem[j] = b.mem[j]
  BY <1>7, SMTT(30)
<1>14. RingOK(r) /\ Extends(b, r)
  BY <1>6, <1>7, <1>12, <1>13, Extended
<1>. QED  BY <1>8, <1>14 DEF r

\* clear of a ring that is not lent drops all bytes
LEMMA ClearOpOK ==
  ASSUME NEW b, RingOK(b), ~RingLocked(b)
  PROVE  RingOK(RingClearOp(b)) /\ Drops(b, RingClearOp(b)) /\ Kept(b, RingClearOp(b))
<1>. DEFINE r == RingClearOp(b)
<1>1. b.total \in Nat /\ b.total > 0 /\ Size(b) \in Nat /\ Len(b.mem) = b.total
  BY Fields, SizeIs
<1>2. r = [b EXCEPT !.beg = 0, !.end = 0] /\ b \in RingType
  BY DEF RingClearOp, RingOK
<1>. HIDE DEF r
<1>3. r \in RingType
  BY <1>2, Zenon DEF RingType
<1>4. r.total = b.total /\ r.mem = b.mem /\ r.beg = 0 /\ r.end = 0
  BY <1>2 DEF RingType
<1>5. Kept(b, r)
  BY <1>2 DEF RingType, Kept
<1>6. Size(r) = 0
  BY <1>4 DEF Size
<1>7. RingOK(r)
  BY <1>1, <1>3, <1>4, <1>6 DEF RingOK
<1>8. Drops(b, r)
  BY <1>1, <1>6 DEF Drops
<1>. QED  BY <1>5, <1>7, <1>8, SMTT(30) DEF r
-----------------------------------------------------------------------------
\* What the callers pass: lengths are natural numbers, _Elastic is a Boolean.
Arguments == Sizes \subseteq Nat /\ RingLens \subseteq Nat /\ Elastics \subseteq BOOLEAN

\* a write loan starts at _pend, ends inside the allocation and leaves the free byte
WriteLoan(b, w) ==
  /\ w.p[2] = b.end /\ w.len \in Nat
  /\ b.end + w.len <= b.total
  /\ Size(b) + w.len < b.total

\* a read loan shows the bytes that were the oldest when it was taken
ReadLoan(b, r) == SubSeq(b.mem, r.p[2] + 1, r.p[2] + r.len) = r.s

\* The ring has its shape, and at most one of the two loans is out.
Good(b, w, r) ==
  /\ RingOK(b) /\ ~(b.rl /\ b.wl)
  /\ b.wl => WriteLoan(b, w)
  /\ b.rl => ReadLoan(b, r)

IInv == sound \in BOOLEAN /\ (sound => Good(ring, wloan, rloan))

\* what a step does to the bytes of the ring
Steps(b, c) == Extends(b, c) \/ Drops(b, c)

\* the strings that are written
LEMMA StringsAreSeqs ==
  ASSUME Arguments, NEW s \in RingStrings
  PROVE  s \in Seq(Cell)
<1>1. PICK n \in RingLens : s \in [1 .. n -> Byte]
  BY DEF RingStrings
<1>2. n \in Nat /\ s \in [1 .. n -> Cell]
  BY <1>1 DEF Arguments, Cell
<1>. QED  BY <1>2, FcnIsSeq

\* the same bytes are no fewer
LEMMA SameExtends ==
  ASSUME NEW b, NEW c, RingOK(b), SameBytes(b, c)
  PROVE  Extends(b, c)
<1>1. Size(b) \in Nat /\ Size(c) = Size(b)
  BY SizeIs DEF SameBytes
<1>2. Size(b) <= Size(c)
  BY <1>1
<1>. QED  BY <1>2 DEF SameBytes, Extends

\* a constructed ring is empty and not lent
LEMMA InitGood ==
  ASSUME Arguments, RingInit
  PROVE  IInv
<1>1. PICK n \in Sizes, e \in Elastics : ring = FreshRing(n, e)
  BY DEF RingInit
<1>. DEFINE t == DWORDAlign(n + 1)
            m == [j \in 1 .. t |-> Junk]
<1>2. t \in Nat /\ t > 0 /\ e \in BOOLEAN
  BY DEF DWORDAlign, Arguments
<1>3. ring = [elastic |-> e, gen |-> 0, total |-> t, mem |-> m,
              beg |-> 0, end |-> 0, rl |-> FALSE, wl |-> FALSE]
  BY <1>1 DEF FreshRing
<1>. HIDE DEF t
<1>4. m \in [1 .. t -> Cell]
  BY DEF Cell
<1>. HIDE DEF m
<1>5. m \in Seq(Cell) /\ Len(m) = t
  BY <1>2, <1>4, FcnIsSeq
<1>6. ring \in RingType
  BY <1>2, <1>3, <1>5 DEF RingType
<1>7. ring.total = t /\ ring.mem = m /\ ring.beg = 0 /\ ring.end = 0 /\ ~ring.rl /\ ~ring.wl
  BY <1>3
<1>8. Size(ring) = 0
  BY <1>7 DEF Size
<1>9. RingOK(ring)
  BY <1>2, <1>5, <1>6, <1>7, <1>8 DEF RingOK
<1>. QED  BY <1>7, <1>9 DEF RingInit, IInv, Good

\* write
LEMMA WriteStep ==
  ASSUME Arguments, Good(ring, wloan, rloan), NEW s \in RingStrings, RingWrite(s), sound'
  PROVE  Good(ring', wloan', rloan') /\ Steps(ring, ring')
<1>1. RingOK(ring) /\ ~RingLocked(ring) /\ ring' = RingWriteOp(ring, s)
  BY Zenon DEF Good, RingWrite, KeepsSound, RingLocked
<1>2. RingOK(ring') /\ Extends(ring, ring') /\ Kept(ring, ring')
  BY <1>1, StringsAreSeqs, WriteOpOK
<1>. QED  BY <1>1, <1>2 DEF Good, Steps, Kept, RingLocked

\* read, which may run under a write loan
LEMMA ReadStep ==
  ASSUME Arguments, Good(ring, wloan, rloan), NEW n \in RingLens, RingRead(n), sound'
  PROVE  Good(ring', wloan', rloan') /\ Steps(ring, ring')
<1>1. RingOK(ring) /\ ~ring.rl /\ ring' = RingReadOp(ring, n) /\ wloan' = wloan /\ n \in Nat
  BY DEF Good, RingRead, Arguments
<1>2. ring'.total = ring.total /\ ring'.end = ring.end
  BY <1>1 DEF RingReadOp, RingOK, RingType
<1>3. Size(ring') <= ring.total - 1
  BY <1>2, Zenon DEF RingRead, KeepsSound, OneByteFree, Capacity, Size
<1>4. ring.total \in Nat /\ Size(ring') \in Int
  <2>1. ring.total \in Nat /\ ring.end \in Nat /\ ring \in RingType
    BY <1>1, Fields DEF RingOK
  <2>2. ring'.beg \in Int
    <3>1. ring.beg + Smaller(Size(ring), n) \in Int
      BY <1>1, Fields, SizeIs, SMTT(30) DEF Smaller
    <3>. QED  BY <1>1, <2>1, <3>1 DEF RingReadOp, RingType
  <2>. QED  BY <1>2, <2>1, <2>2, SMTT(30) DEF Size
<1>5. Size(RingReadOp(ring, n)) < ring.total
  BY <1>1, <1>3, <1>4
<1>6. RingOK(ring') /\ Drops(ring, ring') /\ Kept(ring, ring')
  BY <1>1, <1>5, ReadOpOK
<1>7. ring.wl => WriteLoan(ring', wloan')
  <2>. SUFFICES ASSUME ring.wl PROVE WriteLoan(ring', wloan')
    OBVIOUS
  <2>1. WriteLoan(ring, wloan)
    BY DEF Good
  <2>2. Size(ring') <= Size(ring) /\ Size(ring) \in Nat /\ Size(ring') \in Nat
    BY <1>1, <1>6, SizeIs DEF Drops
  <2>. QED  BY <1>1, <1>2, <1>4, <2>1, <2>2, SMTT(30) DEF WriteLoan
<1>. QED  BY <1>1, <1>6, <1>7 DEF Good, Steps, Kept

\* wlock
LEMMA WLockStep ==
  ASSUME Arguments, Good(ring, wloan, rloan), NEW n \in RingLens, RingWLock(n), sound'
  PROVE  Good(ring', wloan', rloan') /\ Steps(ring, ring')
<1>1. RingOK(ring) /\ ~RingLocked(ring) /\ ring' = RingWLockOp(ring, n) /\ n \in Nat
  BY Zenon DEF Good, RingWLock, KeepsSound, RingLocked, Arguments
<1>2. /\ RingOK(ring') /\ SameBytes(ring, ring') /\ ring'.wl /\ ring'.rl = ring.rl
      /\ WLockLen(ring', n) \in Nat /\ ring'.end + WLockLen(ring', n) <= ring'.total
      /\ Size(ring') + WLockLen(ring', n) < ring'.total
  BY <1>1, WLockOpOK, SMTT(30)
<1>3. wloan'.p[2] = ring'.end /\ wloan'.len = WLockLen(ring', n)
  BY SMTT(30) DEF RingWLock
<1>4. WriteLoan(ring', wloan')
  BY <1>2, <1>3, ZenonT(30) DEF WriteLoan
<1>5. ~ring'.rl
  BY <1>1, <1>2 DEF RingLocked
<1>. QED  BY <1>1, <1>2, <1>4, <1>5, SameExtends DEF Good, Steps

\* the caller's store
LEMMA FillStep ==
  ASSUME Arguments, Good(ring, wloan, rloan), NEW s \in RingStrings, RingFill(s), sound'
  PROVE  Good(ring', wloan', rloan') /\ Steps(ring, ring')
<1>1. RingOK(ring) /\ ring.wl /\ ~ring.rl /\ WriteLoan(ring, wloan) /\ s \in Seq(Cell)
  BY StringsAreSeqs DEF Good, RingFill
<1>2. Len(s) <= wloan.len /\ ring' = [ring EXCEPT !.mem = Stored(@, ring.end, s)]
  BY <1>1 DEF RingFill, WriteLoan
<1>3. wloan'.p = wloan.p /\ wloan'.len = wloan.len
  BY SMTT(30) DEF RingFill
<1>4. /\ Len(s) \in Nat /\ ring.end \in Nat /\ ring.total \in Nat /\ Size(ring) \in Nat
      /\ wloan.len \in Nat
  BY <1>1, Fields, SizeIs, LenProperties DEF WriteLoan
<1>5. ring.end + Len(s) <= ring.total /\ Size(ring) + Len(s) < ring.total
  BY <1>1, <1>2, <1>4, SMTT(30) DEF WriteLoan
<1>6. /\ RingOK(ring') /\ Extends(ring, ring') /\ Kept(ring, ring')
      /\ Size(ring') = Size(ring) /\ ring'.total = ring.total /\ ring'.end = ring.end
  BY <1>1, <1>2, <1>5, FillOK, SMTT(30)
<1>7. WriteLoan(ring', wloan')
  BY <1>1, <1>3, <1>6 DEF WriteLoan
<1>. QED  BY <1>1, <1>6, <1>7 DEF Good, Steps, Kept

\* wunlock
LEMMA WUnlockStep ==
  ASSUME Arguments, Good(ring, wloan, rloan), NEW n \in RingLens, RingWUnlock(n), sound'
  PROVE  Good(ring', wloan', rloan') /\ Steps(ring, ring')
<1>1. RingOK(ring) /\ ~ring.rl /\ RingWUnlockOk(ring, wloan.p, n) /\ ring' = RingWUnlockOp(ring, n) /\ n \in Nat
  BY DEF Good, RingWUnlock, RingWUnlockOk, Arguments
<1>2. RingOK(ring') /\ Extends(ring, ring') /\ ~ring'.wl /\ ring'.rl = ring.rl
  BY <1>1, WUnlockOpOK
<1>. QED  BY <1>1, <1>2, SMTT(30) DEF Good, Steps

\* a sequence is told by its elements
LEMMA SameElements ==
  ASSUME NEW x, NEW y, NEW i \in Nat, NEW n \in Nat,
         \A k \in 1 .. n : x[i + k] \in Cell /\ y[k] = x[i + k]
  PROVE  SubSeq(x, i + 1, i + n) = SubSeq(y, 1, n)
<1>. DEFINE u == SubSeq(x, i + 1, i + n)
            v == SubSeq(y, 1, n)
            a == i + 1
            c == i + n
<1>1. a \in Int /\ c \in Int /\ \A j \in a .. c : x[j] \in Cell
  <2>1. \A j \in a .. c : j - i \in 1 .. n /\ i + (j - i) = j
    OBVIOUS
  <2>. QED  BY <2>1
<1>2. \A k \in 1 .. n : y[k] \in Cell
  OBVIOUS
<1>3. /\ v \in Seq(Cell) /\ Len(v) = IF 1 <= n THEN n - 1 + 1 ELSE 0
      /\ \A k \in 1 .. n - 1 + 1 : v[k] = y[1 + k - 1]
  BY <1>2, SubSeqProperties
<1>. HIDE DEF a, c
<1>4. SubSeq(x, a, c) \in Seq(Cell) /\ Len(SubSeq(x, a, c)) = (IF a <= c THEN c - a + 1 ELSE 0)
      /\ \A k \in 1 .. c - a + 1 : SubSeq(x, a, c)[k] = x[a + k - 1]
  BY <1>1, SubSeqProperties
<1>. HIDE DEF v
<1>5. u = SubSeq(x, a, c)
  BY DEF a, c
<1>. HIDE DEF u
<1>6. Len(v) = n /\ \A k \in 1 .. n : v[k] = y[k]
  <2>1. n - 1 + 1 = n /\ (~(1 <= n) => n = 0)
    BY ONLY n \in Nat
  <2>2. \A k \in 1 .. n : 1 + k - 1 = k
    OBVIOUS
  <2>. QED  BY <1>3, <2>1, <2>2
<1>7. Len(u) = n
  <2>1. c - a + 1 = n /\ (~(a <= c) => n = 0)
    BY ONLY n \in Nat, i \in Nat DEF a, c
  <2>. QED  BY <1>4, <1>5, <2>1
<1>8. ASSUME NEW k \in 1 .. n PROVE u[k] = v[k]
  <2>1. k \in 1 .. c - a + 1 /\ a + k - 1 = i + k
    BY DEF a, c
  <2>. QED  BY <1>4, <1>5, <1>6, <2>1, Zenon
<1>9. u \in Seq(Cell) /\ v \in Seq(Cell)
  BY <1>3, <1>4, <1>5
<1>10. u = v
  BY <1>6, <1>7, <1>8, <1>9, SeqEqual, SMTT(30)
<1>. QED  BY <1>10 DEF u, v

\* rlock, and the bytes it lends
LEMMA RLockStep ==
  ASSUME Arguments, Good(ring, wloan, rloan), NEW n \in RingLens, RingRLock(n), sound'
  PROVE  Good(ring', wloan', rloan') /\ Steps(ring, ring')
<1>. DEFINE l == RLockLen(ring', n)
<1>1. RingOK(ring) /\ ~ring.wl /\ ring' = RingRLockOp(ring, n) /\ n \in Nat
  BY Zenon DEF Good, RingRLock, KeepsSound, Arguments
<1>2. /\ RingOK(ring') /\ SameBytes(ring, ring') /\ ring'.rl /\ ring'.wl = ring.wl
      /\ l \in 0 .. Size(ring) /\ ring'.beg + l <= ring'.total
  BY <1>1, RLockOpOK, Zenon
<1>3. rloan'.p[2] = ring'.beg /\ rloan'.len = l /\ rloan'.s = SubSeq(RingContents(ring), 1, l)
  BY Zenon DEF RingRLock
<1>. HIDE DEF l
<1>4. /\ ring'.beg \in Nat /\ ring'.total \in Nat /\ Size(ring) \in Nat /\ l \in Nat
      /\ Size(ring') < ring'.total /\ Size(ring') = Size(ring) /\ l <= Size(ring)
  <2>1. ring'.beg \in Nat /\ ring'.total \in Nat
    BY <1>2, Fields, Zenon
  <2>2. Size(ring) \in Nat /\ Size(ring') < ring'.total
    BY <1>1, <1>2, SizeIs, Zenon
  <2>3. Size(ring') = Size(ring)
    BY <1>2, Zenon DEF SameBytes
  <2>4. l \in Nat /\ l <= Size(ring)
    BY <1>2, <2>2
  <2>. QED  BY <2>1, <2>2, <2>3, <2>4, Zenon
<1>5. ASSUME NEW k \in 1 .. l
      PROVE  ring'.mem[ring'.beg + k] \in Cell /\ RingContents(ring)[k] = ring'.mem[ring'.beg + k]
  <2>1. /\ k \in 1 .. Size(ring) /\ k - 1 \in 0 .. Size(ring) - 1 /\ k - 1 \in 0 .. ring'.total - 1
        /\ ring'.beg + (k - 1) < ring'.total /\ ring'.beg + (k - 1) + 1 = ring'.beg + k
    BY <1>2, <1>4
  <2>2. RingContents(ring)[k] = At(ring, k - 1)
    BY <2>1 DEF RingContents
  <2>3. At(ring', k - 1) = At(ring, k - 1)
    BY <1>2, <2>1, SMTT(30) DEF SameBytes
  <2>4. At(ring', k - 1) = ring'.mem[ring'.beg + k] /\ At(ring', k - 1) \in Cell
    BY <1>2, <2>1, AtIs
  <2>. QED  BY <2>2, <2>3, <2>4, SMTT(30)
<1>6. SubSeq(ring'.mem, ring'.beg + 1, ring'.beg + l) = SubSeq(RingContents(ring), 1, l)
  <2>. DEFINE x == ring'.mem
              y == RingContents(ring)
              i == ring'.beg
  <2>1. i \in Nat /\ l \in Nat /\ \A k \in 1 .. l : x[i + k] \in Cell /\ y[k] = x[i + k]
    BY <1>4, <1>5
  <2>. HIDE DEF x, y, i
  <2>2. SubSeq(x, i + 1, i + l) = SubSeq(y, 1, l)
    BY <2>1, SameElements, SMTT(30)
  <2>. QED  BY <2>2, Zenon DEF x, y, i
<1>7. ReadLoan(ring', rloan')
  BY <1>3, <1>6, Zenon DEF ReadLoan
<1>. QED  BY <1>1, <1>2, <1>7, SameExtends DEF Good, Steps

\* runlock
LEMMA RUnlockStep ==
  ASSUME Arguments, Good(ring, wloan, rloan), NEW n \in RingLens, RingRUnlock(n), sound'
  PROVE  Good(ring', wloan', rloan') /\ Steps(ring, ring')
<1>1. RingOK(ring) /\ ~ring.wl /\ RingRUnlockOk(ring, rloan.p, n) /\ ring' = RingRUnlockOp(ring, n) /\ n \in Nat
  BY Zenon DEF Good, RingRUnlock, RingRUnlockOk, Arguments
<1>2. RingOK(ring') /\ Drops(ring, ring') /\ ~ring'.rl /\ ring'.wl = ring.wl
  BY <1>1, RUnlockOpOK
<1>. QED  BY <1>1, <1>2 DEF Good, Steps

\* reserve and clear leave a ring alone that is lent
LEMMA ReserveClearStep ==
  ASSUME Arguments, Good(ring, wloan, rloan), (\E n \in RingLens : RingReserveCall(n)) \/ RingClear
  PROVE  Good(ring', wloan', rloan') /\ Steps(ring, ring')
<1>1. RingOK(ring) /\ wloan' = wloan /\ rloan' = rloan
  BY Zenon DEF Good, RingReserveCall, RingClear
<1>2. CASE RingLocked(ring)
  <2>1. ring' = ring
    BY <1>2, Zenon DEF RingReserveCall, RingReserve, RingClear, RingClearOp
  <2>2. SameBytes(ring, ring')
    BY <2>1 DEF SameBytes
  <2>. QED  BY <1>1, <2>1, <2>2, SameExtends DEF Steps
<1>3. CASE ~RingLocked(ring)
  <2>1. RingOK(ring') /\ Kept(ring, ring') /\ Steps(ring, ring')
    <3>1. ASSUME NEW n \in RingLens, RingReserveCall(n)
          PROVE  RingOK(ring') /\ Kept(ring, ring') /\ Steps(ring, ring')
      <4>1. ring' = RingReserve(ring, n) /\ n \in Nat
        BY <3>1 DEF RingReserveCall, Arguments
      <4>. QED  BY <1>1, <1>3, <4>1, ReserveOK, SameExtends DEF Steps
    <3>2. CASE RingClear
      BY <1>1, <1>3, <3>2, ClearOpOK DEF RingClear, Steps
    <3>. QED  BY <3>1, <3>2
  <2>. QED  BY <1>3, <2>1 DEF Good, Kept, RingLocked
<1>. QED  BY <1>2, <1>3

\* every step of a disciplined caller that leaves a byte free keeps the ring and moves its
\* bytes as a queue does
LEMMA NextGood ==
  ASSUME Arguments, IInv, RingNext, sound'
  PROVE  sound /\ Good(ring, wloan, rloan) /\ Good(ring', wloan', rloan') /\ Steps(ring, ring')
<1>1. sound
  BY Zenon DEF RingNext, RingWrite, RingFill, RingRead, RingWLock, RingWUnlock, RingRLock,
     RingRUnlock, RingReserveCall, RingClear, KeepsSound
<1>2. Good(ring, wloan, rloan)
  BY <1>1 DEF IInv
<1>3. ASSUME NEW s \in RingStrings, RingWrite(s)
      PROVE  Good(ring', wloan', rloan') /\ Steps(ring, ring')
  BY <1>2, <1>3, WriteStep
<1>4. ASSUME NEW s \in RingStrings, RingFill(s)
      PROVE  Good(ring', wloan', rloan') /\ Steps(ring, ring')
  BY <1>2, <1>4, FillStep
<1>5. ASSUME NEW n \in RingLens, RingRead(n)
      PROVE  Good(ring', wloan', rloan') /\ Steps(ring, ring')
  BY <1>2, <1>5, ReadStep
<1>6. ASSUME NEW n \in RingLens, RingWLock(n)
      PROVE  Good(ring', wloan', rloan') /\ Steps(ring, ring')
  BY <1>2, <1>6, WLockStep
<1>7. ASSUME NEW n \in RingLens, RingWUnlock(n)
      PROVE  Good(ring', wloan', rloan') /\ Steps(ring, ring')
  BY <1>2, <1>7, WUnlockStep
<1>8. ASSUME NEW n \in RingLens, RingRLock(n)
      PROVE  Good(ring', wloan', rloan') /\ Steps(ring, ring')
  BY <1>2, <1>8, RLockStep
<1>9. ASSUME NEW n \in RingLens, RingRUnlock(n)
      PROVE  Good(ring', wloan', rloan') /\ Steps(ring, ring')
  BY <1>2, <1>9, RUnlockStep
<1>10. ASSUME (\E n \in RingLens : RingReserveCall(n)) \/ RingClear
       PROVE  Good(ring', wloan', rloan') /\ Steps(ring, ring')
  BY <1>2, <1>10, ReserveClearStep
<1>11. Good(ring', wloan', rloan') /\ Steps(ring, ring')
  BY <1>3, <1>4, <1>5, <1>6, <1>7, <1>8, <1>9, <1>10, Zenon DEF RingNext
<1>. QED  BY <1>1, <1>2, <1>11

\* IInv is inductive
LEMMA Inductive ==
  ASSUME Arguments
  PROVE  RingSpec => []IInv
<1>1. IInv /\ [RingNext]_ringVars => IInv'
  <2>. SUFFICES ASSUME IInv, [RingNext]_ringVars PROVE IInv'
    OBVIOUS
  <2>1. CASE UNCHANGED ringVars
    BY <2>1, Zenon DEF IInv, ringVars
  <2>2. CASE RingNext
    <3>1. sound' \in BOOLEAN
      BY <2>2, Zenon DEF RingNext, RingWrite, RingFill, RingRead, RingWLock, RingWUnlock,
         RingRLock, RingRUnlock, RingReserveCall, RingClear,
                  KeepsSound
    <3>2. sound' => Good(ring', wloan', rloan')
      BY <2>2, NextGood
    <3>. QED  BY <3>1, <3>2, Zenon DEF IInv
  <2>. QED  BY <2>1, <2>2
<1>. QED  BY InitGood, <1>1, PTL DEF RingSpec

\* the contents of a ring as a sequence
LEMMA ContentsOK ==
  ASSUME NEW b, RingOK(b)
  PROVE  /\ RingContents(b) \in Seq(Cell) /\ Len(RingContents(b)) = Size(b) /\ Size(b) \in Nat
         /\ \A k \in 1 .. Size(b) : RingContents(b)[k] = At(b, k - 1)
         /\ \A k \in 1 .. Size(b) : RingContents(b)[k] \in Cell
<1>1. Size(b) \in Nat /\ Size(b) < b.total /\ b.total \in Nat
  BY SizeIs, Fields
<1>2. ASSUME NEW k \in 1 .. Size(b) PROVE At(b, k - 1) \in Cell
  <2>1. k - 1 \in 0 .. b.total - 1
    BY <1>1
  <2>. QED  BY <2>1, AtIs
<1>3. RingContents(b) \in [1 .. Size(b) -> Cell] /\ \A k \in 1 .. Size(b) : RingContents(b)[k] = At(b, k - 1)
  BY <1>2 DEF RingContents
<1>. QED  BY <1>1, <1>2, <1>3, FcnIsSeq

\* what Extends and Drops say of the contents
LEMMA StepsAsQueue ==
  ASSUME NEW b, NEW c, RingOK(b), RingOK(c), Steps(b, c)
  PROVE  \/ /\ Len(RingContents(b)) <= Len(RingContents(c))
            /\ SubSeq(RingContents(c), 1, Len(RingContents(b))) = RingContents(b)
         \/ /\ Len(RingContents(c)) <= Len(RingContents(b))
            /\ RingContents(c) = SubSeq(RingContents(b), Len(RingContents(b)) - Len(RingContents(c)) + 1,
                                        Len(RingContents(b)))
<1>. DEFINE x == RingContents(b)
            y == RingContents(c)
            m == Size(b)
            n == Size(c)
<1>1. /\ x \in Seq(Cell) /\ Len(x) = m /\ m \in Nat
      /\ \A k \in 1 .. m : x[k] = At(b, k - 1) /\ x[k] \in Cell
  BY ContentsOK
<1>2. /\ y \in Seq(Cell) /\ Len(y) = n /\ n \in Nat
      /\ \A k \in 1 .. n : y[k] = At(c, k - 1) /\ y[k] \in Cell
  BY ContentsOK, SMTT(30)
<1>. HIDE DEF x, y
<1>3. SubSeq(x, 1, m) = x /\ SubSeq(y, 1, n) = y
  BY <1>1, <1>2, SubSeqFull
<1>4. CASE Extends(b, c)
  <2>1. m <= n /\ \A k \in 0 .. m - 1 : At(c, k) = At(b, k)
    BY <1>4, SMTT(30) DEF Extends
  <2>. HIDE DEF m, n
  <2>2. ASSUME NEW k \in 1 .. m PROVE y[0 + k] \in Cell /\ x[k] = y[0 + k]
    <3>1. k \in 1 .. n /\ k - 1 \in 0 .. m - 1 /\ 0 + k = k
      BY <1>1, <1>2, <2>1, SMTT(30)
    <3>. QED  BY <1>1, <1>2, <2>1, <3>1
  <2>3. SubSeq(y, 0 + 1, 0 + m) = SubSeq(x, 1, m)
    BY <1>1, <2>2, SameElements, SMTT(30)
  <2>4. 0 + 1 = 1 /\ 0 + m = m
    BY <1>1
  <2>. QED  BY <1>1, <1>2, <1>3, <2>1, <2>3, <2>4 DEF x, y
<1>5. CASE Drops(b, c)
  <2>. DEFINE i == m - n
  <2>1. n <= m /\ \A k \in 0 .. n - 1 : At(c, k) = At(b, k + i)
    BY <1>5 DEF Drops
  <2>. HIDE DEF m, n
  <2>2. i \in Nat /\ i + n = m
    BY <1>1, <1>2, <2>1, SMTT(30)
  <2>3. ASSUME NEW k \in 1 .. n PROVE x[i + k] \in Cell /\ y[k] = x[i + k]
    <3>1. i + k \in 1 .. m /\ k - 1 \in 0 .. n - 1 /\ (i + k) - 1 = (k - 1) + i
      BY <1>2, <2>2
    <3>. HIDE DEF i
    <3>. QED  BY <1>1, <1>2, <2>1, <3>1
  <2>. HIDE DEF i
  <2>4. SubSeq(x, i + 1, i + n) = SubSeq(y, 1, n)
    BY <1>2, <2>2, <2>3, SameElements
  <2>. QED  BY <1>1, <1>2, <1>3, <2>1, <2>2, <2>4, SMTT(30) DEF x, y, i
<1>. QED  BY <1>4, <1>5 DEF Steps

\* cyc_buf is a first-in first-out queue of bytes for every size, every sequence of calls and
\* every length, as long as callers take one loan at a time and a byte of the ring stays free.
\* Its write, read, locks, reserve, re-layout and clear append at the back, take from the
\* front, or leave the contents alone.
THEOREM RingIsByteFifo ==
  ASSUME Arguments
  PROVE  RingSpec => FifoWhileSound
<1>1. IInv /\ [RingNext]_ringVars => [sound' => RingFifo!Next]_ringVars
  <2>. SUFFICES ASSUME IInv, RingNext, sound' PROVE RingFifo!Next
    OBVIOUS
  <2>1. RingOK(ring) /\ RingOK(ring') /\ Steps(ring, ring')
    BY NextGood DEF Good
  <2>2. RingContents(ring)' = RingContents(ring')
    BY DEF RingContents, Size, At
  <2>3. \/ /\ Len(RingContents(ring)) <= Len(RingContents(ring'))
           /\ SubSeq(RingContents(ring'), 1, Len(RingContents(ring))) = RingContents(ring)
        \/ /\ Len(RingContents(ring')) <= Len(RingContents(ring))
           /\ RingContents(ring') = SubSeq(RingContents(ring), Len(RingContents(ring)) - Len(RingContents(ring')) + 1,
                                           Len(RingContents(ring)))
    BY <2>1, StepsAsQueue
  <2>. QED  BY <2>2, <2>3, Zenon DEF RingFifo!Next, RingFifo!PutBack, RingFifo!TakeFront
<1>2. RingSpec => []IInv
  BY Inductive
<1>. QED  BY <1>1, <1>2, PTL DEF RingSpec, FifoWhileSound

\* Under the same discipline the region wlock lends lies inside the allocation and off every
\* unread byte, wherever the ring wraps, and the region rlock lends keeps showing the oldest
\* bytes until runlock.
THEOREM LoansAreExact ==
  ASSUME Arguments
  PROVE  RingSpec => []LoansExact
<1>1. IInv => LoansExact
  <2>. SUFFICES ASSUME IInv, sound
       PROVE /\ ring.wl => /\ wloan.p[2] + wloan.len <= ring.total
                           /\ \A k \in 0 .. Size(ring) - 1 :
                                ~(/\ wloan.p[2] <= (ring.beg + k) % ring.total
                                  /\ (ring.beg + k) % ring.total < wloan.p[2] + wloan.len)
             /\ ring.rl => SubSeq(ring.mem, rloan.p[2] + 1, rloan.p[2] + rloan.len) = rloan.s
    BY DEF LoansExact
  <2>1. RingOK(ring) /\ (ring.wl => WriteLoan(ring, wloan)) /\ (ring.rl => ReadLoan(ring, rloan))
    BY DEF IInv, Good
  <2>2. ASSUME ring.wl
        PROVE  /\ wloan.p[2] + wloan.len <= ring.total
               /\ \A k \in 0 .. Size(ring) - 1 :
                    ~(/\ wloan.p[2] <= (ring.beg + k) % ring.total
                      /\ (ring.beg + k) % ring.total < wloan.p[2] + wloan.len)
    <3>1. /\ wloan.p[2] = ring.end /\ wloan.len \in Nat
          /\ ring.end + wloan.len <= ring.total /\ Size(ring) + wloan.len < ring.total
      BY <2>1, <2>2 DEF WriteLoan
    <3>2. ASSUME NEW k \in 0 .. Size(ring) - 1
          PROVE  ~(/\ ring.end <= (ring.beg + k) % ring.total
                   /\ (ring.beg + k) % ring.total < ring.end + wloan.len)
      <4>. DEFINE i == (ring.beg + k) % ring.total
      <4>1. Index(ring, k) \in 1 .. ring.total /\ Unread(ring, Index(ring, k))
        BY <2>1, UnreadIs
      <4>2. /\ ring.beg \in Nat /\ ring.end \in Nat /\ ring.total \in Nat /\ ring.total > 0
            /\ ring.beg <= ring.end => Size(ring) = ring.end - ring.beg
            /\ ring.beg > ring.end => Size(ring) = ring.end - ring.beg + ring.total
        BY <2>1, Fields, SizeIs
      <4>3. Size(ring) \in Nat
        BY <2>1, SizeIs
      <4>4. i \in Nat
        BY <4>2, <4>3
      <4>. HIDE DEF i
      <4>5. Index(ring, k) = i + 1
        BY DEF Index, i
      <4>6. IF ring.beg <= ring.end THEN i + 1 > ring.beg /\ i + 1 <= ring.end
                                    ELSE i + 1 > ring.beg \/ i + 1 <= ring.end
        BY <4>1, <4>5 DEF Unread
      <4>7. ~(ring.end <= i /\ i < ring.end + wloan.len)
        BY ONLY <3>1, <4>2, <4>3, <4>4, <4>6, SMTT(30)
      <4>. QED  BY <4>7 DEF i
    <3>. QED  BY <3>1, <3>2
  <2>3. ASSUME ring.rl
        PROVE  SubSeq(ring.mem, rloan.p[2] + 1, rloan.p[2] + rloan.len) = rloan.s
    BY <2>1, <2>3 DEF ReadLoan
  <2>. QED  BY <2>2, <2>3
<1>2. RingSpec => []IInv
  BY Inductive
<1>. QED  BY <1>1, <1>2, PTL
=============================================================================
