--------------------------- MODULE ThriftStruct ---------------------------
(***************************************************************************)
(* What the generated read() and write() of a structure do                 *)
(* (public/hbase_storage/gen-cpp).  A structure is described by its        *)
(* fields, in the order write() writes them.  An object maps the fields    *)
(* whose __isset flag is up to their values; <<>> is the value of every    *)
(* default constructed field, collection or structure.  On the wire a      *)
(* structure is the type tags and values of its fields, by field id.        *)
(*                                                                         *)
(* Every base value is a tuple: the bytes of strings and the encodings of  *)
(* numbers belong to the protocol library and are left out.                *)
(***************************************************************************)
EXTENDS Integers, Sequences, Functions, HbaseStructs

\* The fields of s by name and by id (both are unique in a structure).
Names(s) == {s[i].name : i \in DOMAIN s}
Named(s, n) == s[CHOOSE i \in DOMAIN s : s[i].name = n]
WithId(s, d) == s[CHOOSE i \in DOMAIN s : s[i].id = d]

RECURSIVE Wire(_, _), Unwire(_, _)

\* mutant of WriteStruct: the __isset flags are not tested
WriteStructAll(s, o) ==
    [d \in {s[i].id : i \in DOMAIN s} |->
       LET f == WithId(s, d)
       IN [tag |-> Tag(f.type),
           val |-> IF f.name \in DOMAIN o THEN Wire(f.type, o[f.name]) ELSE Wire(f.type, <<>>)]]

\* write() of a structure: every field, an optional one if it is set.
WriteStruct(s, o) ==
    [d \in {f.id : f \in {s[i] : i \in {j \in DOMAIN s : s[j].optional => s[j].name \in DOMAIN o}}} |->
       LET f == WithId(s, d)
       IN [tag |-> Tag(f.type),
           val |-> IF f.name \in DOMAIN o THEN Wire(f.type, o[f.name]) ELSE Wire(f.type, <<>>)]]

\* write() of a result: the chain of else-ifs writes the first field that is set.
WriteResult(s, o) ==
    LET set == SelectSeq(s, LAMBDA f : f.name \in DOMAIN o)
    IN IF set = <<>> THEN <<>> ELSE WriteStruct(<<Head(set)>>, o)

\* read() takes the fields whose id and type it knows and skips the others.
ReadStruct(s, w) ==
    [n \in {s[i].name : i \in {j \in DOMAIN s : /\ s[j].id \in DOMAIN w
                                                /\ w[s[j].id].tag = Tag(s[j].type)}} |->
       Unwire(Named(s, n).type, w[Named(s, n).id].val)]

Wire(t, v) ==
    CASE Tag(t) \in {"list", "map"} -> [x \in DOMAIN v |-> Wire(t[2], v[x])]
      [] Tag(t) = "struct" -> WriteStruct(t[2], v)
      [] OTHER -> v

Unwire(t, w) ==
    CASE Tag(t) \in {"list", "map"} -> [x \in DOMAIN w |-> Unwire(t[2], w[x])]
      [] Tag(t) = "struct" -> ReadStruct(t[2], w)
      [] OTHER -> w

\* A value of type t for the field n: variant 1 sets every field, variant 2
\* leaves collections empty and optional fields unset.
RECURSIVE Sample(_, _, _)
Sample(t, n, k) ==
    CASE Tag(t) = "list" -> IF k = 1 THEN <<Sample(t[2], n, 1), Sample(t[2], n, 2)>> ELSE <<>>
      [] Tag(t) = "map" -> [x \in (IF k = 1 THEN {<<n, "key">>} ELSE {}) |-> Sample(t[2], n, k)]
      [] Tag(t) = "struct" ->
           [m \in {t[2][i].name : i \in {j \in DOMAIN t[2] : t[2][j].optional => k = 1}} |->
              Sample(t[2][CHOOSE i \in DOMAIN t[2] : t[2][i].name = m].type, m, k)]
      [] OTHER -> <<n, k>>
=============================================================================
