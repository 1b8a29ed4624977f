--------------------------- MODULE MCLocationCache ---------------------------
(***************************************************************************)
(* Two threads and places of one latitude.  120.1994 and 120.0996 are      *)
(* printed as 120.199 and 120.1 and share the key 120.1, from its two      *)
(* ends; 120.0004 is printed as 120, and its key keeps the 1.              *)
(***************************************************************************)
EXTENDS LocationCache, TLC

CONSTANTS t1, t2

At(lat, lon) == [lat |-> lat, lon |-> lon]

TwoThreads == {t1, t2}
ThreePlaces == {At(30260000, lon) : lon \in {120199400, 120099600, 120000400}}
OnePlace == {At(30260000, 120199400)}
ThreadSymmetry == Permutations(Threads)
=============================================================================
