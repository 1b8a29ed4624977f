------------------------------- MODULE BufBase -------------------------------
(***************************************************************************)
(* What the two buffers of public/comm/buffer.h share: the bytes, the      *)
(* alignment of an allocation and the policy by which it grows.            *)
(***************************************************************************)
EXTENDS Integers, Sequences

CONSTANTS
  Byte,       \* values of a byte
  Junk,       \* what freshly allocated memory holds
  Sizes,      \* constructor arguments
  MaxTotal    \* bound: growth beyond this many bytes is not explored

Larger(a, b) == IF a >= b THEN a ELSE b
Smaller(a, b) == IF a <= b THEN a ELSE b

\* mutant of DWORDAlign: rounds down
DWORDAlignDown(n) == (n \div 4) * 4
DWORDAlign(n) == ((n + 3) \div 4) * 4

\* HalfGrowPolicy::grow_size
GrowSize(cur, inc) == cur + Larger(inc, cur \div 2)
=============================================================================
