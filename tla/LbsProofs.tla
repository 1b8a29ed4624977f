----------------------------- MODULE LbsProofs -----------------------------
(***************************************************************************)
(* Proofs about base/lbs.                                                  *)
(*                                                                         *)
(* LocationCache, for any threads, places and days: whatever the order of  *)
(* lookups, requests, stores and deletions of the threads, what is cached  *)
(* under a key was obtained for a place of that key, and so is what a call *)
(* returns.                                                                *)
(*                                                                         *)
(* AccessKeys, for any threads, keys and calls: without overlap no key of  *)
(* the list is deleted, AddressForGeocoder makes four requests at most,    *)
(* and the keys take turns.                                                *)
(***************************************************************************)
EXTENDS LocationCache, AccessKeys, Sequences, FiniteSetTheorems, TLAPS

Busy == {"lookup", "hit", "request", "store"}

TypeOK ==
  /\ at \in [Threads -> Busy \cup {"idle"}]
  /\ DOMAIN place = Threads /\ DOMAIN entry = Threads /\ DOMAIN addr = Threads
  /\ \A t \in Threads : at[t] \in Busy \/ addr[t] \in Places => place[t] \in Places

\* Address a was obtained for a place with the key k, or for none.
OfKey(a, k) == a \in Places => LocationToKey(a) = k

\* The cache, what a thread found there, and what it has or returned.
CacheKeyed == \A k \in DOMAIN cache : OfKey(cache[k].addr, k)
EntryKeyed == \A t \in Threads : at[t] = "hit" => OfKey(entry[t].addr, LocationToKey(place[t]))
AnswerKeyed == \A t \in Threads : OfKey(addr[t], LocationToKey(place[t]))

IInv == TypeOK /\ CacheKeyed /\ EntryKeyed /\ AnswerKeyed
-----------------------------------------------------------------------------
\* The initial states satisfy the inductive invariant.
LEMMA InitEstablishes == Init => IInv
BY LocationCacheAssumption, Zenon DEF Init, IInv, TypeOK, Busy, CacheKeyed, EntryKeyed,
   AnswerKeyed, OfKey

\* Call preserves the inductive invariant: the out parameters are empty.
LEMMA CallPreserves ==
  ASSUME IInv, NEW t \in Threads, NEW p \in Places, Call(t, p)
  PROVE  IInv'
<1>1. /\ at[t] = "idle" /\ UNCHANGED <<cache, entry>>
      /\ at' = [at EXCEPT ![t] = "lookup"] /\ place' = [place EXCEPT ![t] = p]
      /\ addr' = [addr EXCEPT ![t] = Empty]
  BY Zenon DEF Call
<1>2. /\ at'[t] = "lookup" /\ place'[t] = p /\ addr'[t] = Empty
      /\ \A u \in Threads : u # t => at'[u] = at[u] /\ place'[u] = place[u] /\ addr'[u] = addr[u]
  BY <1>1, Zenon DEF IInv, TypeOK
<1>3. TypeOK'
  BY <1>1, <1>2, Zenon DEF IInv, TypeOK, Busy
<1>4. CacheKeyed'
  BY <1>1, Zenon DEF IInv, CacheKeyed
<1>5. EntryKeyed'
  BY <1>1, <1>2, Zenon DEF IInv, EntryKeyed
<1>6. AnswerKeyed'
  BY <1>2, LocationCacheAssumption, Zenon DEF IInv, AnswerKeyed, OfKey
<1>. QED  BY <1>3, <1>4, <1>5, <1>6, Zenon DEF IInv

\* Hit preserves the inductive invariant: the entry was cached for the thread's own key.
LEMMA HitPreserves == ASSUME IInv, NEW t \in Threads, Hit(t) PROVE IInv'
<1>. DEFINE k == LocationToKey(place[t])
            e == JsonDeserialize(cache[k])
<1>1. /\ at[t] = "lookup" /\ k \in DOMAIN cache /\ UNCHANGED <<cache, place, addr>>
      /\ at' = [at EXCEPT ![t] = "hit"] /\ entry' = [entry EXCEPT ![t] = e]
  BY Zenon DEF Hit
<1>2. e.addr = cache[k].addr
  BY Zenon DEF JsonDeserialize
<1>. HIDE DEF k, e
<1>3. /\ at'[t] = "hit" /\ entry'[t] = e
      /\ \A u \in Threads : u # t => at'[u] = at[u] /\ entry'[u] = entry[u]
  BY <1>1, Zenon DEF IInv, TypeOK
<1>4. TypeOK'
  BY <1>1, <1>3, Zenon DEF IInv, TypeOK, Busy
<1>5. CacheKeyed' /\ AnswerKeyed'
  BY <1>1, Zenon DEF IInv, CacheKeyed, AnswerKeyed
<1>6. EntryKeyed'
  <2>1. OfKey(entry'[t].addr, LocationToKey(place'[t]))
    BY <1>1, <1>2, <1>3, Zenon DEF IInv, CacheKeyed, k
  <2>. QED  BY <1>1, <1>3, <2>1, Zenon DEF IInv, EntryKeyed
<1>. QED  BY <1>4, <1>5, <1>6, Zenon DEF IInv

\* Miss preserves the inductive invariant.
LEMMA MissPreserves == ASSUME IInv, NEW t \in Threads, Miss(t) PROVE IInv'
<1>1. /\ at[t] = "lookup" /\ at' = [at EXCEPT ![t] = "request"]
      /\ UNCHANGED <<cache, place, entry, addr>>
  BY Zenon DEF Miss
<1>2. at'[t] = "request" /\ \A u \in Threads : u # t => at'[u] = at[u]
  BY <1>1, Zenon DEF IInv, TypeOK
<1>3. TypeOK'
  BY <1>1, <1>2, Zenon DEF IInv, TypeOK, Busy
<1>4. CacheKeyed' /\ AnswerKeyed'
  BY <1>1, Zenon DEF IInv, CacheKeyed, AnswerKeyed
<1>5. EntryKeyed'
  BY <1>1, <1>2, Zenon DEF IInv, EntryKeyed
<1>. QED  BY <1>3, <1>4, <1>5, Zenon DEF IInv

\* Request preserves the inductive invariant: the service answers for the thread's place.
LEMMA RequestPreserves == ASSUME IInv, NEW t \in Threads, Request(t) PROVE IInv'
<1>1. /\ at[t] = "request" /\ at' = [at EXCEPT ![t] = "store"]
      /\ addr' = [addr EXCEPT ![t] = IF up THEN place[t] ELSE @]
      /\ UNCHANGED <<cache, place, entry>>
  BY Zenon DEF Request
<1>2. /\ at'[t] = "store" /\ addr'[t] \in {place[t], addr[t]}
      /\ \A u \in Threads : u # t => at'[u] = at[u] /\ addr'[u] = addr[u]
  BY <1>1, Zenon DEF IInv, TypeOK
<1>3. TypeOK'
  BY <1>1, <1>2, Zenon DEF IInv, TypeOK, Busy
<1>4. CacheKeyed'
  BY <1>1, Zenon DEF IInv, CacheKeyed
<1>5. EntryKeyed'
  BY <1>1, <1>2, Zenon DEF IInv, EntryKeyed
<1>6. AnswerKeyed'
  BY <1>1, <1>2, Zenon DEF IInv, AnswerKeyed, OfKey
<1>. QED  BY <1>3, <1>4, <1>5, <1>6, Zenon DEF IInv

\* Store preserves the inductive invariant: an address is cached under its own key.
LEMMA StorePreserves == ASSUME IInv, NEW t \in Threads, NEW ok, Store(t, ok) PROVE IInv'
<1>. DEFINE k == LocationToKey(place[t])
            e == JsonSerializer(addr[t], now, now)
<1>1. /\ at[t] = "store" /\ at' = [at EXCEPT ![t] = "idle"]
      /\ cache' = Put(k, e) \/ cache' = cache
      /\ UNCHANGED <<place, entry, addr>>
  BY Zenon DEF Store
<1>2. e.addr = addr[t]
  BY Zenon DEF JsonSerializer
<1>. HIDE DEF k, e
<1>3. at'[t] = "idle" /\ \A u \in Threads : u # t => at'[u] = at[u]
  BY <1>1, Zenon DEF IInv, TypeOK
<1>4. TypeOK'
  BY <1>1, <1>3, Zenon DEF IInv, TypeOK, Busy
<1>5. CacheKeyed'
  <2>1. OfKey(e.addr, k)
    BY <1>2, Zenon DEF IInv, AnswerKeyed, k
  <2>2. CASE cache' = Put(k, e)
    BY <2>1, <2>2, Zenon DEF Put, IInv, CacheKeyed
  <2>. QED  BY <1>1, <2>2, Zenon DEF IInv, CacheKeyed
<1>6. EntryKeyed' /\ AnswerKeyed'
  BY <1>1, <1>3, Zenon DEF IInv, EntryKeyed, AnswerKeyed
<1>. QED  BY <1>4, <1>5, <1>6, Zenon DEF IInv

\* A cache without one of its keys is keyed as before.
LEMMA DropKeyed == ASSUME CacheKeyed, NEW k, cache' = Drop(k) PROVE CacheKeyed'
BY Zenon DEF CacheKeyed, Drop

\* Unpack preserves the inductive invariant.
LEMMA UnpackPreserves == ASSUME IInv, NEW t \in Threads, NEW ok, Unpack(t, ok) PROVE IInv'
<1>1. /\ at[t] = "hit" /\ at' = [at EXCEPT ![t] = "idle"] /\ place' = place
      /\ addr' = [addr EXCEPT ![t] = entry[t].addr] /\ entry' = [entry EXCEPT ![t] = None]
      /\ cache' = Drop(LocationToKey(place[t])) \/ cache' = cache
  BY Zenon DEF Unpack
<1>2. /\ at'[t] = "idle" /\ addr'[t] = entry[t].addr
      /\ \A u \in Threads : u # t => at'[u] = at[u] /\ addr'[u] = addr[u] /\ entry'[u] = entry[u]
  BY <1>1, Zenon DEF IInv, TypeOK
<1>3. TypeOK'
  BY <1>1, <1>2, Zenon DEF IInv, TypeOK, Busy
<1>4. CacheKeyed'
  <2>1. CASE cache' = cache
    BY <2>1, Zenon DEF IInv, CacheKeyed
  <2>. QED  BY <1>1, <2>1, DropKeyed, Zenon DEF IInv
<1>5. EntryKeyed'
  BY <1>1, <1>2, Zenon DEF IInv, EntryKeyed
<1>6. AnswerKeyed'
  BY <1>1, <1>2, Zenon DEF IInv, AnswerKeyed, EntryKeyed
<1>. QED  BY <1>3, <1>4, <1>5, <1>6, Zenon DEF IInv

\* A step that leaves the threads and their data alone.
LEMMA QuietStep ==
  ASSUME IInv, UNCHANGED <<at, place, entry, addr>>, CacheKeyed'
  PROVE  IInv'
BY Zenon DEF IInv, TypeOK, EntryKeyed, AnswerKeyed

\* IInv holds in every reachable state.
LEMMA Invariance == Spec => []IInv
<1>1. IInv /\ [Next]_vars => IInv'
  <2>. SUFFICES ASSUME IInv, [Next]_vars PROVE IInv'
    BY Zenon
  <2>1. ASSUME NEW t \in Threads, Step(t) PROVE IInv'
    BY <2>1, HitPreserves, MissPreserves, RequestPreserves, StorePreserves, UnpackPreserves,
       Zenon DEF Step
  <2>2. ASSUME NEW t \in Threads, NEW p \in Places, Call(t, p) PROVE IInv'
    BY <2>2, CallPreserves, Zenon
  <2>3. ASSUME NEW k \in DOMAIN cache, Evict(k) PROVE IInv'
    BY <2>3, DropKeyed, QuietStep, Zenon DEF IInv, Evict
  <2>4. CASE Service \/ Day \/ UNCHANGED vars
    <3>1. UNCHANGED <<cache, at, place, entry, addr>>
      BY <2>4, Zenon DEF Service, Day, vars
    <3>2. CacheKeyed'
      BY <3>1, Zenon DEF IInv, CacheKeyed
    <3>. QED  BY <3>1, <3>2, QuietStep, Zenon
  <2>. QED  BY <2>1, <2>2, <2>3, <2>4, Zenon DEF Next
<1>. QED  BY <1>1, InitEstablishes, PTL DEF Spec
-----------------------------------------------------------------------------
\* What is printed differs from the coordinate by at most half a unit of the last digit, and is
\* a whole number of these units, of which a tenth of a degree has a whole number too.  The
\* larger a coordinate, the larger the unit.
LEMMA RoundedNear ==
  ASSUME NEW c \in Int, NEW T \in Nat, T % Tenth = 0,
         T <= Rounded(c), Rounded(c) < T + Tenth
  PROVE  /\ 2 * T - LastDigit(Abs(c)) <= 2 * Abs(c)
         /\ 2 * Abs(c) <= 2 * (T + Tenth) - LastDigit(Abs(c))
<1>. DEFINE m == Abs(c)
            unit == LastDigit(m)
            r == Rounded(c)
<1>1. m \in Nat
  BY DEF Abs
<1>2. /\ unit \in {1, 10, 100, 1000}
      /\ r = m - (m % unit) \/ r = m - (m % unit) + unit
      /\ r = m - (m % unit) => 2 * (m % unit) <= unit
      /\ r = m - (m % unit) + unit => 2 * (m % unit) >= unit
  <2>1. unit \in {1, 10, 100, 1000}
    BY <1>1, SMT DEF LastDigit, Degree
  <2>2. m % unit \in Int /\ unit \in Int /\ unit > 0
    <3>. HIDE DEF m
    <3>1. CASE unit = 1
      BY <1>1, <3>1, SMT
    <3>2. CASE unit = 10
      BY <1>1, <3>2, SMT
    <3>3. CASE unit = 100
      BY <1>1, <3>3, SMT
    <3>4. CASE unit = 1000
      BY <1>1, <3>4, SMT
    <3>. QED  BY <2>1, <3>1, <3>2, <3>3, <3>4, SMT
  <2>3. r = IF 2 * (m % unit) > unit \/ (2 * (m % unit) = unit /\ c \in TiesUp)
            THEN m - (m % unit) + unit ELSE m - (m % unit)
    BY SMT DEF Rounded
  <2>. HIDE DEF m, unit, r
  <2>. QED  BY <1>1, <2>1, <2>2, <2>3, SMT
<1>. HIDE DEF m, unit, r
<1>3. T <= r /\ r < T + Tenth
  BY Zenon DEF r
<1>4. 2 * T - unit <= 2 * m /\ 2 * m <= 2 * (T + Tenth) - unit
  <2>1. CASE unit = 1
    <3>1. \/ r = m - (m % 1) /\ 2 * (m % 1) <= 1
          \/ r = m - (m % 1) + 1 /\ 2 * (m % 1) >= 1
      BY <1>2, <2>1, SMT
    <3>. QED  BY <1>1, <1>3, <2>1, <3>1, SMT DEF Degree, Tenth
  <2>2. CASE unit = 10
    <3>1. \/ r = m - (m % 10) /\ 2 * (m % 10) <= 10
          \/ r = m - (m % 10) + 10 /\ 2 * (m % 10) >= 10
      BY <1>2, <2>2, SMT
    <3>. QED  BY <1>1, <1>3, <2>2, <3>1, SMT DEF Degree, Tenth
  <2>3. CASE unit = 100
    <3>1. \/ r = m - (m % 100) /\ 2 * (m % 100) <= 100
          \/ r = m - (m % 100) + 100 /\ 2 * (m % 100) >= 100
      BY <1>2, <2>3, SMT
    <3>. QED  BY <1>1, <1>3, <2>3, <3>1, SMT DEF Degree, Tenth
  <2>4. CASE unit = 1000
    <3>1. \/ r = m - (m % 1000) /\ 2 * (m % 1000) <= 1000
          \/ r = m - (m % 1000) + 1000 /\ 2 * (m % 1000) >= 1000
      BY <1>2, <2>4, SMT
    <3>. QED  BY <1>1, <1>3, <2>4, <3>1, SMT DEF Degree, Tenth
  <2>. QED  BY <1>2, <2>1, <2>2, <2>3, <2>4, SMT
<1>. QED  BY <1>4, Zenon DEF m, unit

\* What is printed is a natural number of millionths.
LEMMA RoundedNat == ASSUME NEW c \in Int PROVE Rounded(c) \in Nat
<1>1. Abs(c) \in Nat
  BY DEF Abs
<1>. QED  BY <1>1, SMT DEF Rounded, LastDigit, Degree

\* Two coordinates whose texts agree up to one digit behind the point are at most a tenth of a
\* degree apart, unless one is printed with an exponent.
LEMMA CoordinateNear ==
  ASSUME NEW c \in Int, NEW d \in Int, Decimal(c), ~Scientific(d), Coordinate(c) = Coordinate(d)
  PROVE  Abs(c - d) <= Tenth
<1>. DEFINE F(x) == [sign |-> x < 0, degrees |-> Rounded(x) \div Degree,
                     tenths |-> (Rounded(x) % Degree) \div Tenth]
            W(x) == [sign |-> x < 0, first |-> IF x < 0 THEN 0 ELSE FirstDigit(Rounded(x) \div Degree)]
<1>1. Coordinate(c) = F(c)
  BY Zenon DEF Coordinate, Decimal
<1>2. HasPoint(d)
  <2>. SUFFICES ASSUME ~HasPoint(d) PROVE FALSE
    BY Zenon
  <2>1. Coordinate(d) = W(d)
    BY Zenon DEF Coordinate
  <2>2. "degrees" \in DOMAIN F(c) /\ "degrees" \notin DOMAIN W(d)
    BY Zenon
  <2>. HIDE DEF F, W
  <2>. QED  BY <1>1, <2>1, <2>2, Zenon
<1>3. Coordinate(d) = F(d)
  BY <1>2, Zenon DEF Coordinate
<1>. HIDE DEF F
<1>4. F(c) = F(d)
  BY <1>1, <1>3, Zenon
<1>5. /\ (c < 0) = (d < 0) /\ Rounded(c) \div Degree = Rounded(d) \div Degree
      /\ (Rounded(c) % Degree) \div Tenth = (Rounded(d) % Degree) \div Tenth
  <2>1. F(c).sign = F(d).sign /\ F(c).degrees = F(d).degrees /\ F(c).tenths = F(d).tenths
    BY <1>4, Zenon
  <2>2. \A x : /\ F(x).sign = (x < 0) /\ F(x).degrees = Rounded(x) \div Degree
               /\ F(x).tenths = (Rounded(x) % Degree) \div Tenth
    BY Zenon DEF F
  <2>. QED  BY <2>1, <2>2, ZenonT(30)
<1>6. \A x \in Int : Rounded(x) \in Nat
  BY RoundedNat, Zenon
<1>. DEFINE T == (Rounded(c) \div Degree) * Degree + ((Rounded(c) % Degree) \div Tenth) * Tenth
<1>7. ASSUME NEW x \in Nat, NEW y \in Nat, x \div Degree = y \div Degree,
             (x % Degree) \div Tenth = (y % Degree) \div Tenth
      PROVE  LET B == (x \div Degree) * Degree + ((x % Degree) \div Tenth) * Tenth
             IN  /\ B \in Nat /\ B % Tenth = 0
                 /\ B <= x /\ x < B + Tenth /\ B <= y /\ y < B + Tenth
  BY <1>7, SMT DEF Degree, Tenth
<1>8. /\ T \in Nat /\ T % Tenth = 0
      /\ T <= Rounded(c) /\ Rounded(c) < T + Tenth /\ T <= Rounded(d) /\ Rounded(d) < T + Tenth
  BY <1>5, <1>6, <1>7, Zenon
<1>. HIDE DEF T
<1>9. /\ 2 * T - LastDigit(Abs(c)) <= 2 * Abs(c) /\ 2 * Abs(c) <= 2 * (T + Tenth) - LastDigit(Abs(c))
      /\ 2 * T - LastDigit(Abs(d)) <= 2 * Abs(d) /\ 2 * Abs(d) <= 2 * (T + Tenth) - LastDigit(Abs(d))
  BY <1>8, RoundedNear, Zenon
<1>10. Abs(c) \in Nat /\ Abs(d) \in Nat
  BY DEF Abs
<1>11. ASSUME NEW x \in Nat, NEW y \in Nat, 2 * T - LastDigit(y) <= 2 * y,
              2 * x <= 2 * (T + Tenth) - LastDigit(x)
       PROVE  x - y <= Tenth
  BY <1>8, <1>11, SMT DEF LastDigit, Degree, Tenth
<1>12. Abs(c) - Abs(d) <= Tenth /\ Abs(d) - Abs(c) <= Tenth
  BY <1>9, <1>10, <1>11, Zenon
<1>. QED  BY <1>5, <1>12, SMT DEF Abs, Degree, Tenth

\* GeocoderForAddress: whichever threads look up, store and delete entries in between, and
\* whatever fails, the address that a call returns was obtained for a place at most a tenth of a
\* degree away in every coordinate that is printed with decimals.
THEOREM AnswersAreNear == Spec => []AnswerNearby
<1>1. IInv => AnswerNearby
  <2>. DEFINE Near(c, d) == Decimal(c) /\ ~Scientific(d) => Abs(c - d) <= Tenth
  <2>. SUFFICES ASSUME IInv, NEW t \in Threads, addr[t] \in Places, place[t] \in Places
               PROVE  Near(place[t].lat, addr[t].lat) /\ Near(place[t].lon, addr[t].lon)
    BY Zenon DEF AnswerNearby, IInv, TypeOK
  <2>1. LocationToKey(addr[t]) = LocationToKey(place[t])
    BY Zenon DEF IInv, AnswerKeyed, OfKey
  <2>2. ASSUME NEW p \in Places PROVE LocationToKey(p) = <<Coordinate(p.lat), Coordinate(p.lon)>>
    <3>1. {p.lat, p.lon} \subseteq UNION {{q.lat, q.lon} : q \in Places}
      BY Zenon
    <3>2. Text[p.lat] = Coordinate(p.lat) /\ Text[p.lon] = Coordinate(p.lon)
      BY <3>1, Zenon DEF Text
    <3>. QED  BY <3>2, Zenon DEF LocationToKey
  <2>3. /\ Coordinate(place[t].lat) = Coordinate(addr[t].lat)
        /\ Coordinate(place[t].lon) = Coordinate(addr[t].lon)
    BY <2>1, <2>2, SMT
  <2>4. ASSUME NEW p \in Places PROVE p.lat \in Int /\ p.lon \in Int
    <3>1. p.lat \in Coordinates /\ p.lon \in Coordinates
      BY LocationCacheAssumption, Zenon
    <3>. QED  BY <3>1, SMT DEF Coordinates
  <2>. QED  BY <2>3, <2>4, CoordinateNear, Zenon
<1>. QED  BY <1>1, Invariance, PTL
-----------------------------------------------------------------------------
(***************************************************************************)
(* The map client, with a state of its own: AccessKeys for any threads,    *)
(* keys, calls and attempts.  KeyAliveAlone is not inductive: that Release *)
(* does not reach 0 rests on the references a call has taken so far        *)
(* (Counted), and on its count not being behind another call's (Exclusive).*)
(***************************************************************************)
\* The list has a key (GetIdleAccessToken returns false on an empty one), and the Data of a
\* default constructed key is none of the list.
KeyList == N \in Nat \ {0} /\ Own \notin 1 .. N

Stages == {"idle", "first", "first_add", "scan", "temp_add", "compare", "assign", "assign_add",
           "release", "released", "sent"}

KeyTypes ==
  /\ refs \in [1 .. N -> Int] /\ count \in [1 .. N -> Int]
  /\ keyAt \in [KeyThreads -> Stages] /\ key \in [KeyThreads -> 1 .. N \cup {Own}]
  /\ pos \in [KeyThreads -> 0 .. N + 1] /\ seen \in [KeyThreads -> Int]

\* Where the iterator is and which key is held.  A key that is released is not the one at
\* the iterator, which was used less.
Placed(t) ==
  /\ keyAt[t] \notin {"idle", "first", "first_add"} => key[t] \in 1 .. N
  /\ keyAt[t] = "first_add" => pos[t] = 0
  /\ keyAt[t] = "scan" => pos[t] \in 1 .. N + 1
  /\ keyAt[t] \in {"temp_add", "compare"} => pos[t] \in 1 .. N
  /\ keyAt[t] \in {"assign", "assign_add"} => pos[t] \in 1 .. N /\ pos[t] # key[t]
  /\ keyAt[t] \in {"release", "released"} => pos[t] \in 0 .. N /\ pos[t] # key[t]
  /\ keyAt[t] = "sent" => pos[t] = N + 1

\* the key that replaces the released one
Replacing(t) == IF pos[t] = 0 THEN 1 ELSE pos[t]

\* The list and the call each have a reference to the key that is held, and before a
\* Release there is one more to the key that replaces it.
Counted(t) ==
  /\ keyAt[t] # "idle" /\ key[t] # Own => refs[key[t]] >= 2
  /\ keyAt[t] = "first_add" => seen[t] = refs[1]
  /\ keyAt[t] \in {"temp_add", "assign_add"} => seen[t] = refs[pos[t]]
  /\ keyAt[t] = "released" => seen[t] = refs[key[t]]
  /\ keyAt[t] \in {"release", "released"} =>
       refs[Replacing(t)] >= IF Replacing(t) = key[t] THEN 3 ELSE 2

\* one call at a time
Exclusive == \A t, u \in KeyThreads : keyAt[t] # "idle" /\ keyAt[u] # "idle" => t = u

KeyInv ==
  /\ KeyTypes
  /\ \A t \in KeyThreads : Placed(t)
  /\ alone => /\ freedKeys = {} /\ Exclusive
              /\ \A k \in 1 .. N : refs[k] >= 1
              /\ \A t \in KeyThreads : Counted(t)

\* a step of t leaves the other calls where they are
Elsewhere(t) ==
  \A u \in KeyThreads \ {t} : /\ keyAt'[u] = keyAt[u] /\ key'[u] = key[u]
                              /\ pos'[u] = pos[u] /\ seen'[u] = seen[u]

\* what is left to show of a step of t
LEMMA KeyStep ==
  ASSUME KeyInv, KeyTypes', NEW t \in KeyThreads, Elsewhere(t), Placed(t)',
         alone' => /\ alone /\ (\A u \in KeyThreads \ {t} : keyAt[u] = "idle")
                   /\ freedKeys' = {} /\ (\A k \in 1 .. N : refs'[k] >= 1) /\ Counted(t)'
  PROVE  KeyInv'
<1>1. ASSUME NEW u \in KeyThreads PROVE Placed(u)'
  BY ZenonT(30) DEF KeyInv, Elsewhere, Placed
<1>2. ASSUME alone' PROVE /\ freedKeys' = {} /\ (\A k \in 1 .. N : refs'[k] >= 1)
                          /\ Exclusive' /\ \A u \in KeyThreads : Counted(u)'
  <2>1. ASSUME NEW u \in KeyThreads \ {t} PROVE keyAt'[u] = "idle"
    BY <1>2, Zenon DEF Elsewhere
  <2>2. ASSUME NEW u \in KeyThreads PROVE Counted(u)'
    <3>1. CASE u = t
      BY <1>2, <3>1, Zenon
    <3>2. CASE u # t
      BY <2>1, <3>2 DEF Counted
    <3>. QED  BY <3>1, <3>2, Zenon
  <2>3. Exclusive'
    BY <2>1, Zenon DEF Exclusive
  <2>. QED  BY <1>2, <2>2, <2>3, Zenon
<1>. QED  BY <1>1, <1>2, Zenon DEF KeyInv

\* A call without overlap, and the references it counts.
LEMMA AloneIs ==
  ASSUME KeyInv, NEW t \in KeyThreads, alone, keyAt[t] # "idle"
  PROVE  /\ \A u \in KeyThreads \ {t} : keyAt[u] = "idle"
         /\ freedKeys = {} /\ (\A k \in 1 .. N : refs[k] >= 1) /\ Counted(t)
  BY Zenon DEF KeyInv, Exclusive

\* t goes to stage s, with key k, the iterator at p and the loaded value n
StepTo(t, s, k, p, n) ==
  /\ keyAt' = [keyAt EXCEPT ![t] = s] /\ key' = [key EXCEPT ![t] = k]
  /\ pos' = [pos EXCEPT ![t] = p] /\ seen' = [seen EXCEPT ![t] = n]

LEMMA StepToIs ==
  ASSUME KeyInv, NEW t \in KeyThreads, NEW s \in Stages, NEW k \in 1 .. N \cup {Own},
         NEW p \in 0 .. N + 1, NEW n \in Int, StepTo(t, s, k, p, n),
         refs' \in [1 .. N -> Int], count' \in [1 .. N -> Int]
  PROVE  /\ KeyTypes' /\ Elsewhere(t)
         /\ keyAt'[t] = s /\ key'[t] = k /\ pos'[t] = p /\ seen'[t] = n
<1>1. KeyTypes
  BY Zenon DEF KeyInv
<1>2. KeyTypes'
  BY <1>1, Zenon DEF KeyTypes, StepTo
<1>3. Elsewhere(t)
  BY <1>1, Zenon DEF KeyTypes, StepTo, Elsewhere
<1>4. keyAt'[t] = s /\ key'[t] = k /\ pos'[t] = p /\ seen'[t] = n
  BY <1>1, Zenon DEF KeyTypes, StepTo
<1>. QED  BY <1>2, <1>3, <1>4, Zenon

\* the values of t
LEMMA ValuesOf ==
  ASSUME KeyInv, NEW t \in KeyThreads
  PROVE  /\ keyAt[t] \in Stages /\ key[t] \in 1 .. N \cup {Own} /\ pos[t] \in 0 .. N + 1
         /\ seen[t] \in Int /\ (\A k \in 1 .. N : refs[k] \in Int /\ count[k] \in Int)
         /\ keyAt = [keyAt EXCEPT ![t] = keyAt[t]] /\ key = [key EXCEPT ![t] = key[t]]
         /\ pos = [pos EXCEPT ![t] = pos[t]] /\ seen = [seen EXCEPT ![t] = seen[t]]
         /\ refs \in [1 .. N -> Int] /\ count \in [1 .. N -> Int]
         /\ Placed(t)
<1>1. KeyTypes /\ Placed(t)
  BY Zenon DEF KeyInv
<1>. QED  BY <1>1, Zenon DEF KeyTypes

LEMMA FirstLoadKeeps == ASSUME KeyList, KeyInv, NEW t \in KeyThreads, FirstLoad(t) PROVE KeyInv'
<1>1. /\ keyAt[t] = "first" /\ StepTo(t, "first_add", key[t], 0, refs[1])
      /\ refs' = refs /\ count' = count /\ freedKeys' = freedKeys /\ alone' = alone
  BY ValuesOf, Zenon DEF FirstLoad, LoadCount, KeysGo, StepTo
<1>2. 1 \in 1 .. N
  BY <1>1, ValuesOf DEF KeyList, Placed
<1>3. /\ KeyTypes' /\ Elsewhere(t)
      /\ keyAt'[t] = "first_add" /\ key'[t] = key[t] /\ pos'[t] = 0 /\ seen'[t] = refs[1]
  <2>1. refs[1] \in Int /\ "first_add" \in Stages /\ 0 \in 0 .. N + 1
    BY <1>2, ValuesOf DEF Stages, KeyList
  <2>. QED  BY <1>1, <2>1, ValuesOf, StepToIs, Zenon
<1>4. Placed(t)'
  BY <1>1, <1>2, <1>3, ValuesOf, Zenon DEF Placed, KeyList
<1>5. ASSUME alone
      PROVE  /\ \A u \in KeyThreads \ {t} : keyAt[u] = "idle"
             /\ freedKeys = {} /\ (\A k \in 1 .. N : refs[k] >= 1) /\ Counted(t)
  BY <1>1, <1>5, AloneIs, Zenon
<1>6. ASSUME alone PROVE Counted(t)'
  BY <1>1, <1>3, <1>5, <1>6, Zenon DEF Counted, Replacing
<1>. QED  BY <1>1, <1>3, <1>4, <1>5, <1>6, KeyStep, Zenon

LEMMA TempLoadKeeps == ASSUME KeyList, KeyInv, NEW t \in KeyThreads, TempLoad(t) PROVE KeyInv'
<1>1. /\ keyAt[t] = "scan" /\ StepTo(t, "temp_add", key[t], pos[t], refs[pos[t]])
      /\ refs' = refs /\ count' = count /\ freedKeys' = freedKeys /\ alone' = alone
  BY ValuesOf, Zenon DEF TempLoad, LoadCount, KeysGo, StepTo
<1>2. pos[t] \in 1 .. N
  BY <1>1, ValuesOf DEF TempLoad, KeyList, Placed
<1>3. /\ KeyTypes' /\ Elsewhere(t)
      /\ keyAt'[t] = "temp_add" /\ key'[t] = key[t] /\ pos'[t] = pos[t] /\ seen'[t] = refs[pos[t]]
  <2>1. refs[pos[t]] \in Int /\ "temp_add" \in Stages /\ 0 \in 0 .. N + 1
    BY <1>2, ValuesOf DEF Stages, KeyList
  <2>. QED  BY <1>1, <2>1, ValuesOf, StepToIs, Zenon
<1>4. Placed(t)'
  BY <1>1, <1>2, <1>3, ValuesOf, Zenon DEF Placed, KeyList
<1>5. ASSUME alone
      PROVE  /\ \A u \in KeyThreads \ {t} : keyAt[u] = "idle"
             /\ freedKeys = {} /\ (\A k \in 1 .. N : refs[k] >= 1) /\ Counted(t)
  BY <1>1, <1>5, AloneIs, Zenon
<1>6. ASSUME alone PROVE Counted(t)'
  BY <1>1, <1>3, <1>5, <1>6, Zenon DEF Counted, Replacing
<1>. QED  BY <1>1, <1>3, <1>4, <1>5, <1>6, KeyStep, Zenon

LEMMA AssignLoadKeeps == ASSUME KeyList, KeyInv, NEW t \in KeyThreads, AssignLoad(t) PROVE KeyInv'
<1>1. /\ keyAt[t] = "assign" /\ StepTo(t, "assign_add", key[t], pos[t], refs[pos[t]])
      /\ refs' = refs /\ count' = count /\ freedKeys' = freedKeys /\ alone' = alone
  BY ValuesOf, Zenon DEF AssignLoad, LoadCount, KeysGo, StepTo
<1>2. pos[t] \in 1 .. N
  BY <1>1, ValuesOf, Zenon DEF KeyList, Placed
<1>3. /\ KeyTypes' /\ Elsewhere(t)
      /\ keyAt'[t] = "assign_add" /\ key'[t] = key[t] /\ pos'[t] = pos[t] /\ seen'[t] = refs[pos[t]]
  <2>1. refs[pos[t]] \in Int /\ "assign_add" \in Stages /\ 0 \in 0 .. N + 1
    BY <1>2, ValuesOf DEF Stages, KeyList
  <2>. QED  BY <1>1, <2>1, ValuesOf, StepToIs, Zenon
<1>4. Placed(t)'
  BY <1>1, <1>2, <1>3, ValuesOf, Zenon DEF Placed, KeyList
<1>5. ASSUME alone
      PROVE  /\ \A u \in KeyThreads \ {t} : keyAt[u] = "idle"
             /\ freedKeys = {} /\ (\A k \in 1 .. N : refs[k] >= 1) /\ Counted(t)
  BY <1>1, <1>5, AloneIs, Zenon
<1>6. ASSUME alone PROVE Counted(t)'
  BY <1>1, <1>3, <1>5, <1>6, Zenon DEF Counted, Replacing
<1>. QED  BY <1>1, <1>3, <1>4, <1>5, <1>6, KeyStep, Zenon

LEMMA ReleaseLoadKeeps == ASSUME KeyList, KeyInv, NEW t \in KeyThreads, ReleaseLoad(t) PROVE KeyInv'
<1>1. /\ keyAt[t] = "release" /\ StepTo(t, "released", key[t], pos[t], refs[key[t]])
      /\ refs' = refs /\ count' = count /\ freedKeys' = freedKeys /\ alone' = alone
  BY ValuesOf, Zenon DEF ReleaseLoad, LoadCount, KeysGo, StepTo
<1>2. key[t] \in 1 .. N
  BY <1>1, ValuesOf, Zenon DEF KeyList, Placed
<1>3. /\ KeyTypes' /\ Elsewhere(t)
      /\ keyAt'[t] = "released" /\ key'[t] = key[t] /\ pos'[t] = pos[t] /\ seen'[t] = refs[key[t]]
  <2>1. refs[key[t]] \in Int /\ "released" \in Stages /\ 0 \in 0 .. N + 1
    BY <1>2, ValuesOf DEF Stages, KeyList
  <2>. QED  BY <1>1, <2>1, ValuesOf, StepToIs, Zenon
<1>4. Placed(t)'
  BY <1>1, <1>2, <1>3, ValuesOf, Zenon DEF Placed, KeyList
<1>5. ASSUME alone
      PROVE  /\ \A u \in KeyThreads \ {t} : keyAt[u] = "idle"
             /\ freedKeys = {} /\ (\A k \in 1 .. N : refs[k] >= 1) /\ Counted(t)
  BY <1>1, <1>5, AloneIs, Zenon
<1>6. ASSUME alone PROVE Counted(t)'
  BY <1>1, <1>3, <1>5, <1>6, Zenon DEF Counted, Replacing
<1>. QED  BY <1>1, <1>3, <1>4, <1>5, <1>6, KeyStep, Zenon

\* a store into the reference count of key k
LEMMA StoreIs ==
  ASSUME KeyInv, NEW k \in 1 .. N, NEW n \in Int, refs' = [refs EXCEPT ![k] = n]
  PROVE  /\ refs' \in [1 .. N -> Int] /\ refs'[k] = n
         /\ \A j \in 1 .. N : j # k => refs'[j] = refs[j]
  BY Zenon DEF KeyInv, KeyTypes

LEMMA FirstStoreKeeps == ASSUME KeyList, KeyInv, NEW t \in KeyThreads, FirstStore(t) PROVE KeyInv'
<1>. DEFINE own == key[t] = Own
            to == IF own THEN "scan" ELSE "release"
            k == IF own THEN 1 ELSE key[t]
            p == IF own THEN 1 ELSE pos[t]
<1>1. /\ keyAt[t] = "first_add" /\ StepTo(t, to, k, p, 0) /\ refs' = [refs EXCEPT ![1] = seen[t] + 1]
      /\ count' = count /\ freedKeys' = freedKeys /\ alone' = alone
  BY ValuesOf, Zenon DEF FirstStore, StoreCount, KeysGo, AddRef, StepTo
<1>2. 1 \in 1 .. N /\ seen[t] + 1 \in Int /\ pos[t] = 0 /\ N \in Nat /\ Own \notin 1 .. N
  BY <1>1, ValuesOf DEF KeyList, Placed
<1>3. /\ refs' \in [1 .. N -> Int] /\ refs'[1] = seen[t] + 1
      /\ \A j \in 1 .. N : j # 1 => refs'[j] = refs[j]
  BY <1>1, <1>2, StoreIs, Zenon
<1>4. /\ KeyTypes' /\ Elsewhere(t)
      /\ keyAt'[t] = to /\ key'[t] = k /\ pos'[t] = p /\ seen'[t] = 0
  <2>1. to \in Stages /\ k \in 1 .. N \cup {Own} /\ p \in 0 .. N + 1 /\ 0 \in Int
    BY <1>2, ValuesOf DEF Stages
  <2>2. refs' \in [1 .. N -> Int] /\ count' \in [1 .. N -> Int]
    BY <1>1, <1>3, ValuesOf, Zenon
  <2>. HIDE DEF to, k, p
  <2>. QED  BY <1>1, <2>1, <2>2, StepToIs, Zenon
<1>5. Placed(t)'
  BY <1>2, <1>4, ValuesOf DEF Placed
<1>6. ASSUME alone
      PROVE  /\ \A u \in KeyThreads \ {t} : keyAt[u] = "idle"
             /\ freedKeys = {} /\ (\A j \in 1 .. N : refs[j] >= 1) /\ Counted(t)
  BY <1>1, <1>6, AloneIs, Zenon
<1>7. ASSUME alone PROVE (\A j \in 1 .. N : refs'[j] >= 1) /\ Counted(t)'
  <2>1. seen[t] = refs[1] /\ refs[1] \in Int /\ refs[1] >= 1 /\ (~own => refs[key[t]] >= 2)
    BY <1>1, <1>2, <1>6, <1>7, ValuesOf, Zenon DEF Counted
  <2>2. \A j \in 1 .. N : refs'[j] >= 1
    BY <1>2, <1>3, <1>6, <1>7, <2>1
  <2>3. CASE own
    <3>1. keyAt'[t] = "scan" /\ key'[t] = 1 /\ refs'[1] >= 2
      BY <1>3, <1>4, <2>1, <2>3, SMTT(30)
    <3>. QED  BY <2>2, <3>1, Zenon DEF Counted
  <2>4. CASE ~own
    <3>1. keyAt'[t] = "release" /\ key'[t] = key[t] /\ pos'[t] = 0 /\ key[t] \in 1 .. N
      BY <1>2, <1>4, <2>4, ValuesOf, Zenon
    <3>2. refs'[key[t]] >= 2 /\ refs'[1] >= IF 1 = key[t] THEN 3 ELSE 2
      BY <1>2, <1>3, <2>1, <2>4, <3>1
    <3>3. Replacing(t)' = 1
      BY <3>1, Zenon DEF Replacing
    <3>. QED  BY <2>2, <3>1, <3>2, <3>3, Zenon DEF Counted
  <2>. QED  BY <2>2, <2>3, <2>4, Zenon
<1>. QED  BY <1>1, <1>4, <1>5, <1>6, <1>7, KeyStep, Zenon

\* AddRef of the key at the iterator
LEMMA TempStoreKeeps == ASSUME KeyList, KeyInv, NEW t \in KeyThreads, TempStore(t) PROVE KeyInv'
<1>1. /\ keyAt[t] = "temp_add" /\ StepTo(t, "compare", key[t], pos[t], 0)
      /\ refs' = [refs EXCEPT ![pos[t]] = seen[t] + 1]
      /\ count' = count /\ freedKeys' = freedKeys /\ alone' = alone
  BY ValuesOf, Zenon DEF TempStore, StoreCount, KeysGo, AddRef, StepTo
<1>2. pos[t] \in 1 .. N /\ key[t] \in 1 .. N /\ seen[t] + 1 \in Int
  BY <1>1, ValuesOf DEF Placed
<1>3. /\ refs' \in [1 .. N -> Int] /\ refs'[pos[t]] = seen[t] + 1
      /\ \A j \in 1 .. N : j # pos[t] => refs'[j] = refs[j]
  BY <1>1, <1>2, StoreIs, Zenon
<1>4. /\ KeyTypes' /\ Elsewhere(t)
      /\ keyAt'[t] = "compare" /\ key'[t] = key[t] /\ pos'[t] = pos[t] /\ seen'[t] = 0
  <2>1. "compare" \in Stages /\ 0 \in Int
    BY DEF Stages
  <2>2. key[t] \in 1 .. N \cup {Own} /\ pos[t] \in 0 .. N + 1
    BY ValuesOf, Zenon
  <2>3. refs' \in [1 .. N -> Int] /\ count' \in [1 .. N -> Int]
    BY <1>1, <1>3, ValuesOf, Zenon
  <2>. QED  BY <1>1, <2>1, <2>2, <2>3, StepToIs, Zenon
<1>5. Placed(t)'
  BY <1>2, <1>4, Zenon DEF Placed
<1>6. ASSUME alone
      PROVE  /\ \A u \in KeyThreads \ {t} : keyAt[u] = "idle"
             /\ freedKeys = {} /\ (\A j \in 1 .. N : refs[j] >= 1) /\ Counted(t)
  BY <1>1, <1>6, AloneIs, Zenon
<1>7. ASSUME alone PROVE (\A j \in 1 .. N : refs'[j] >= 1) /\ Counted(t)'
  <2>1. /\ seen[t] = refs[pos[t]] /\ refs[pos[t]] \in Int /\ refs[pos[t]] >= 1
        /\ key[t] # Own => refs[key[t]] >= 2
    BY <1>1, <1>2, <1>6, <1>7, ValuesOf, Zenon DEF Counted
  <2>. QED  BY <1>2, <1>3, <1>4, <1>6, <1>7, <2>1 DEF Counted
<1>. QED  BY <1>1, <1>4, <1>5, <1>6, <1>7, KeyStep, Zenon

LEMMA AssignStoreKeeps == ASSUME KeyList, KeyInv, NEW t \in KeyThreads, AssignStore(t) PROVE KeyInv'
<1>1. /\ keyAt[t] = "assign_add" /\ StepTo(t, "release", key[t], pos[t], 0)
      /\ refs' = [refs EXCEPT ![pos[t]] = seen[t] + 1]
      /\ count' = count /\ freedKeys' = freedKeys /\ alone' = alone
  BY ValuesOf, Zenon DEF AssignStore, StoreCount, KeysGo, AddRef, StepTo
<1>2. pos[t] \in 1 .. N /\ key[t] \in 1 .. N /\ pos[t] # key[t] /\ seen[t] + 1 \in Int
  BY <1>1, ValuesOf DEF Placed
<1>3. /\ refs' \in [1 .. N -> Int] /\ refs'[pos[t]] = seen[t] + 1
      /\ \A j \in 1 .. N : j # pos[t] => refs'[j] = refs[j]
  BY <1>1, <1>2, StoreIs, Zenon
<1>4. /\ KeyTypes' /\ Elsewhere(t)
      /\ keyAt'[t] = "release" /\ key'[t] = key[t] /\ pos'[t] = pos[t] /\ seen'[t] = 0
  <2>1. "release" \in Stages /\ 0 \in Int
    BY DEF Stages
  <2>2. key[t] \in 1 .. N \cup {Own} /\ pos[t] \in 0 .. N + 1
    BY ValuesOf, Zenon
  <2>3. refs' \in [1 .. N -> Int] /\ count' \in [1 .. N -> Int]
    BY <1>1, <1>3, ValuesOf, Zenon
  <2>. QED  BY <1>1, <2>1, <2>2, <2>3, StepToIs, Zenon
<1>5. Placed(t)'
  BY <1>2, <1>4 DEF Placed
<1>6. ASSUME alone
      PROVE  /\ \A u \in KeyThreads \ {t} : keyAt[u] = "idle"
             /\ freedKeys = {} /\ (\A j \in 1 .. N : refs[j] >= 1) /\ Counted(t)
  BY <1>1, <1>6, AloneIs, Zenon
<1>7. ASSUME alone PROVE (\A j \in 1 .. N : refs'[j] >= 1) /\ Counted(t)'
  <2>1. /\ seen[t] = refs[pos[t]] /\ refs[pos[t]] \in Int /\ refs[pos[t]] >= 1
        /\ key[t] # Own => refs[key[t]] >= 2
    BY <1>1, <1>2, <1>6, <1>7, ValuesOf, Zenon DEF Counted
  <2>. QED  BY <1>2, <1>3, <1>4, <1>6, <1>7, <2>1, SMTT(30) DEF Counted, Replacing
<1>. QED  BY <1>1, <1>4, <1>5, <1>6, <1>7, KeyStep, Zenon

\* Release: while no calls overlap the count was at least 2, and nothing is deleted.
LEMMA ReleaseStoreKeeps == ASSUME KeyList, KeyInv, NEW t \in KeyThreads, ReleaseStore(t) PROVE KeyInv'
<1>. DEFINE new == Replacing(t)
            old == key[t]
<1>1. /\ keyAt[t] = "released" /\ StepTo(t, "scan", new, pos[t] + 1, 0)
      /\ refs' = [refs EXCEPT ![old] = seen[t] - 1]
      /\ count' = count /\ alone' = alone
      /\ freedKeys' = IF seen[t] = 1 THEN freedKeys \cup {old} ELSE freedKeys
  BY ValuesOf, Zenon DEF ReleaseStore, StoreCount, KeysGo, StepTo, Replacing, KeyInv, KeyTypes
<1>2. /\ old \in 1 .. N /\ new \in 1 .. N /\ pos[t] \in 0 .. N /\ N \in Nat
      /\ seen[t] \in Int /\ seen[t] - 1 \in Int
  <2>1. old \in 1 .. N /\ pos[t] \in 0 .. N
    BY <1>1, ValuesOf, Zenon DEF Placed
  <2>2. new \in 1 .. N /\ N \in Nat
    BY <2>1 DEF Replacing, KeyList
  <2>. QED  BY <2>1, <2>2, ValuesOf
<1>. HIDE DEF new
<1>3. /\ refs' \in [1 .. N -> Int] /\ refs'[old] = seen[t] - 1
      /\ \A j \in 1 .. N : j # old => refs'[j] = refs[j]
  BY <1>1, <1>2, StoreIs, Zenon
<1>4. /\ KeyTypes' /\ Elsewhere(t)
      /\ keyAt'[t] = "scan" /\ key'[t] = new /\ pos'[t] = pos[t] + 1 /\ seen'[t] = 0
  <2>1. "scan" \in Stages /\ 0 \in Int /\ pos[t] + 1 \in 0 .. N + 1 /\ new \in 1 .. N \cup {Own}
    BY <1>2 DEF Stages
  <2>2. key[t] \in 1 .. N \cup {Own} /\ pos[t] \in 0 .. N + 1
    BY ValuesOf, Zenon
  <2>3. refs' \in [1 .. N -> Int] /\ count' \in [1 .. N -> Int]
    BY <1>1, <1>3, ValuesOf, Zenon
  <2>. QED  BY <1>1, <2>1, <2>2, <2>3, StepToIs, Zenon
<1>5. Placed(t)'
  BY <1>2, <1>4 DEF Placed
<1>6. ASSUME alone
      PROVE  /\ \A u \in KeyThreads \ {t} : keyAt[u] = "idle"
             /\ freedKeys = {} /\ (\A j \in 1 .. N : refs[j] >= 1) /\ Counted(t)
  BY <1>1, <1>6, AloneIs, Zenon
<1>7. ASSUME alone PROVE freedKeys' = {} /\ (\A j \in 1 .. N : refs'[j] >= 1) /\ Counted(t)'
  <2>1. /\ seen[t] = refs[old] /\ refs[old] \in Int /\ refs[old] >= 2 /\ refs[new] \in Int
        /\ refs[new] >= IF new = old THEN 3 ELSE 2
    <3>1. old # Own /\ Counted(t)
      BY <1>2, <1>6, <1>7, Zenon DEF KeyList
    <3>. QED  BY <1>1, <1>2, <3>1, ValuesOf, Zenon DEF Counted, new
  <2>2. freedKeys' = {}
    BY <1>1, <1>6, <1>7, <2>1, SMTT(30)
  <2>3. refs'[new] >= 2
    BY <1>2, <1>3, <2>1, SMTT(30)
  <2>4. ASSUME NEW j \in 1 .. N PROVE refs'[j] >= 1
    <3>1. CASE j = old
      BY <1>3, <2>1, <3>1
    <3>2. CASE j # old
      BY <1>3, <1>6, <1>7, <3>2, Zenon
    <3>. QED  BY <3>1, <3>2, Zenon
  <2>. QED  BY <1>4, <2>2, <2>3, <2>4, Zenon DEF Counted
<1>. QED  BY <1>1, <1>4, <1>5, <1>6, <1>7, KeyStep, Zenon

LEMMA CompareKeeps == ASSUME KeyList, KeyInv, NEW t \in KeyThreads, Compare(t) PROVE KeyInv'
<1>. DEFINE less == count[pos[t]] < count[key[t]]
            to == IF less THEN "assign" ELSE "scan"
            p == IF less THEN pos[t] ELSE pos[t] + 1
<1>1. /\ keyAt[t] = "compare" /\ StepTo(t, to, key[t], p, seen[t])
      /\ refs' = refs /\ count' = count /\ freedKeys' = freedKeys /\ alone' = alone
  BY ValuesOf, Zenon DEF Compare, Less, KeysGo, StepTo, KeyInv, KeyTypes
<1>2. /\ pos[t] \in 1 .. N /\ key[t] \in 1 .. N /\ N \in Nat
      /\ count[pos[t]] \in Int /\ count[key[t]] \in Int
  BY <1>1, ValuesOf, Zenon DEF Placed, KeyList
<1>3. /\ KeyTypes' /\ Elsewhere(t)
      /\ keyAt'[t] = to /\ key'[t] = key[t] /\ pos'[t] = p /\ seen'[t] = seen[t]
  <2>1. to \in Stages /\ p \in 0 .. N + 1
    BY <1>2 DEF Stages
  <2>2. key[t] \in 1 .. N \cup {Own} /\ seen[t] \in Int
    BY ValuesOf, Zenon
  <2>3. refs' \in [1 .. N -> Int] /\ count' \in [1 .. N -> Int]
    BY <1>1, ValuesOf, Zenon
  <2>. HIDE DEF to, p
  <2>. QED  BY <1>1, <2>1, <2>2, <2>3, StepToIs, ZenonT(30)
<1>4. less => pos[t] # key[t]
  BY <1>2
<1>5. Placed(t)'
  BY <1>2, <1>3, <1>4 DEF Placed
<1>6. ASSUME alone
      PROVE  /\ \A u \in KeyThreads \ {t} : keyAt[u] = "idle"
             /\ freedKeys = {} /\ (\A j \in 1 .. N : refs[j] >= 1) /\ Counted(t)
  BY <1>1, <1>6, AloneIs, Zenon
<1>7. ASSUME alone PROVE Counted(t)'
  BY <1>1, <1>3, <1>6, <1>7, Zenon DEF Counted
<1>. QED  BY <1>1, <1>3, <1>5, <1>6, <1>7, KeyStep, Zenon

LEMMA CallKeeps == ASSUME KeyList, KeyInv, NEW t \in KeyThreads, NEW o, KeysCall(t, o) PROVE KeyInv'
<1>1. /\ keyAt[t] = "idle" /\ StepTo(t, "first", Own, pos[t], seen[t])
      /\ refs' = refs /\ count' = count /\ freedKeys' = freedKeys
      /\ alone' => alone /\ \A u \in KeyThreads : keyAt[u] = "idle"
  BY ValuesOf, Zenon DEF KeysCall, KeysGo, StepTo
<1>2. /\ KeyTypes' /\ Elsewhere(t)
      /\ keyAt'[t] = "first" /\ key'[t] = Own /\ pos'[t] = pos[t] /\ seen'[t] = seen[t]
  <2>1. /\ "first" \in Stages /\ Own \in 1 .. N \cup {Own} /\ pos[t] \in 0 .. N + 1 /\ seen[t] \in Int
        /\ refs' \in [1 .. N -> Int] /\ count' \in [1 .. N -> Int]
    BY <1>1, ValuesOf, Zenon DEF Stages
  <2>. QED  BY <1>1, <2>1, StepToIs, Zenon
<1>3. Placed(t)'
  BY <1>2, Zenon DEF Placed
<1>4. Counted(t)'
  BY <1>2, Zenon DEF Counted
<1>5. ASSUME alone' PROVE freedKeys' = {} /\ \A k \in 1 .. N : refs'[k] >= 1
  BY <1>1, <1>5, Zenon DEF KeyInv
<1>. QED  BY <1>1, <1>2, <1>3, <1>4, <1>5, KeyStep, Zenon

\* The request and what follows it leave the references alone.
LEMMA SentKeeps ==
  ASSUME KeyList, KeyInv, NEW t \in KeyThreads,
         KeysRequest(t) \/ Succeeds(t) \/ Retry(t) \/ RetryAddress(t)
  PROVE  KeyInv'
<1>1. key[t] \in 1 .. N /\ keyAt[t] \in {"scan", "sent"}
  BY ValuesOf, Zenon DEF KeysRequest, Succeeds, Retry, RetryAddress, KeysGo, Placed
<1>2. PICK s \in {"idle", "first", "sent"} : keyAt' = [keyAt EXCEPT ![t] = s]
  BY Zenon DEF KeysRequest, Succeeds, Retry, RetryAddress, KeysGo
<1>3. refs' = refs /\ freedKeys' = freedKeys /\ alone' = alone /\ StepTo(t, s, key[t], pos[t], seen[t])
  BY <1>2, ValuesOf, Zenon DEF KeysRequest, Succeeds, Retry, RetryAddress, StepTo
<1>4. count' = count \/ count' = [count EXCEPT ![key[t]] = @ + 1]
  BY Zenon DEF KeysRequest, Succeeds, Retry, RetryAddress, AddCount
<1>5. refs' \in [1 .. N -> Int] /\ count' \in [1 .. N -> Int]
  BY <1>1, <1>3, <1>4 DEF KeyInv, KeyTypes
<1>6. /\ KeyTypes' /\ Elsewhere(t)
      /\ keyAt'[t] = s /\ key'[t] = key[t] /\ pos'[t] = pos[t] /\ seen'[t] = seen[t]
  <2>1. s \in Stages /\ key[t] \in 1 .. N \cup {Own} /\ pos[t] \in 0 .. N + 1 /\ seen[t] \in Int
    BY ValuesOf, Zenon DEF Stages
  <2>. QED  BY <1>3, <1>5, <2>1, StepToIs, Zenon
<1>7. Placed(t)'
  <2>1. s = "sent" => pos[t] > N
    BY <1>2, Zenon DEF KeysRequest, Succeeds, Retry, RetryAddress, KeysGo, KeyInv, KeyTypes
  <2>2. s = "sent" => pos[t] = N + 1
    BY <2>1, ValuesOf DEF KeyList
  <2>. QED  BY <1>1, <1>6, <2>2, Zenon DEF Placed
<1>8. ASSUME alone
      PROVE  /\ \A u \in KeyThreads \ {t} : keyAt[u] = "idle"
             /\ freedKeys = {} /\ (\A k \in 1 .. N : refs[k] >= 1) /\ Counted(t)
  BY <1>1, <1>8, AloneIs, Zenon
<1>9. ASSUME alone PROVE Counted(t)'
  BY <1>1, <1>3, <1>6, <1>8, <1>9, Zenon DEF Counted
<1>. QED  BY <1>3, <1>6, <1>7, <1>8, <1>9, KeyStep, Zenon

\* The initial references: one for the list.
LEMMA KeyInit == ASSUME KeyList, KeysInit PROVE KeyInv
<1>1. KeyTypes
  BY DEF KeysInit, KeyIds, KeyTypes, Stages, KeyList
<1>2. ASSUME NEW t \in KeyThreads PROVE Placed(t) /\ Counted(t) /\ keyAt[t] = "idle"
  BY Zenon DEF KeysInit, Placed, Counted
<1>3. freedKeys = {} /\ \A k \in 1 .. N : refs[k] >= 1
  BY DEF KeysInit, KeyIds
<1>. QED  BY <1>1, <1>2, <1>3, Zenon DEF KeyInv, Exclusive

\* KeyInv is inductive.
LEMMA KeyNext == ASSUME KeyList, KeyInv, [KeysNext]_(keyVars) PROVE KeyInv'
<1>1. CASE UNCHANGED keyVars
  BY <1>1, Zenon DEF keyVars, KeyInv, KeyTypes, Placed, Counted, Replacing, Exclusive
<1>2. ASSUME NEW t \in KeyThreads, NEW o \in KeyOps, KeysCall(t, o) PROVE KeyInv'
  BY <1>2, CallKeeps, Zenon
<1>3. ASSUME NEW t \in KeyThreads,
             FirstLoad(t) \/ TempLoad(t) \/ AssignLoad(t) \/ ReleaseLoad(t)
      PROVE  KeyInv'
  BY <1>3, FirstLoadKeeps, TempLoadKeeps, AssignLoadKeeps, ReleaseLoadKeeps, Zenon
<1>4. ASSUME NEW t \in KeyThreads,
             FirstStore(t) \/ TempStore(t) \/ AssignStore(t) \/ ReleaseStore(t)
      PROVE  KeyInv'
  BY <1>4, FirstStoreKeeps, TempStoreKeeps, AssignStoreKeeps, ReleaseStoreKeeps, Zenon
<1>5. ASSUME NEW t \in KeyThreads, Compare(t) PROVE KeyInv'
  BY <1>5, CompareKeeps, Zenon
<1>6. ASSUME NEW t \in KeyThreads, KeysRequest(t) \/ Succeeds(t) \/ Retry(t) \/ RetryAddress(t)
      PROVE  KeyInv'
  BY <1>6, SentKeeps, Zenon
<1>. QED  BY <1>1, <1>2, <1>3, <1>4, <1>5, <1>6, Zenon DEF KeysNext

\* The retries and requests of the map client, whatever fails and however often, never delete
\* the Data of a key of the list while no two calls overlap: for any number of keys, calls
\* and attempts every Release has a reference of its own to give back.
THEOREM KeysOutliveCalls == ASSUME KeyList PROVE KeysSpec => []KeyAliveAlone
<1>1. KeyInv => KeyAliveAlone
  BY Zenon DEF KeyInv, KeyAliveAlone, KeyAlive
<1>2. KeysInit => KeyInv
  BY KeyInit, Zenon
<1>3. KeyInv /\ [KeysNext]_(keyVars) => KeyInv'
  BY KeyNext, Zenon
<1>. QED  BY <1>1, <1>2, <1>3, PTL DEF KeysSpec

\* How far AddressForGeocoder is: the counter is the number of failed attempts, and os holds
\* the url of the attempt that is under way.
Attempt(t) ==
  keyOp[t] = "address" =>
       /\ failures[t] \in 0 .. 3 /\ tries[t] \in 0 .. 4
       /\ keyAt[t] = "sent" => tries[t] = failures[t] + 1 /\ url[t] = <<key[t]>>
       /\ keyAt[t] \notin {"idle", "sent"} => tries[t] = failures[t] /\ url[t] = <<>>

AttemptInv ==
  /\ DOMAIN keyAt = KeyThreads /\ DOMAIN keyOp = KeyThreads /\ DOMAIN key = KeyThreads
  /\ DOMAIN failures = KeyThreads /\ DOMAIN tries = KeyThreads /\ DOMAIN url = KeyThreads
  /\ \A t \in KeyThreads : Attempt(t)

\* a step of t leaves the attempts of other calls alone
Besides(t) ==
  /\ DOMAIN keyAt' = KeyThreads /\ DOMAIN keyOp' = KeyThreads /\ DOMAIN key' = KeyThreads
  /\ DOMAIN failures' = KeyThreads /\ DOMAIN tries' = KeyThreads /\ DOMAIN url' = KeyThreads
  /\ \A u \in KeyThreads \ {t} :
       /\ keyAt'[u] = keyAt[u] /\ keyOp'[u] = keyOp[u] /\ key'[u] = key[u]
       /\ failures'[u] = failures[u] /\ tries'[u] = tries[u] /\ url'[u] = url[u]

\* what is left to show of a step of t
LEMMA AttemptStep ==
  ASSUME AttemptInv, NEW t \in KeyThreads, Besides(t), Attempt(t)'
  PROVE  AttemptInv'
<1>1. ASSUME NEW u \in KeyThreads, u # t PROVE Attempt(u)'
  BY <1>1, Zenon DEF AttemptInv, Attempt, Besides
<1>. QED  BY <1>1, Zenon DEF AttemptInv, Besides

\* AddressForGeocoder makes at most four requests, whatever the other calls do and however the
\* requests fail, and the url of each holds one access key, that of its own attempt: for any
\* number of threads, keys and calls.
THEOREM FourRequestsOneKeyEach == KeysSpec => []AddressRequests
<1>1. KeysInit => AttemptInv
  BY Zenon DEF KeysInit, AttemptInv, Attempt
<1>2. AttemptInv /\ [KeysNext]_(keyVars) => AttemptInv'
  <2>. SUFFICES ASSUME AttemptInv, [KeysNext]_(keyVars) PROVE AttemptInv'
    BY Zenon
  <2>1. CASE UNCHANGED keyVars
    BY <2>1, Zenon DEF keyVars, AttemptInv, Attempt
  <2>2. ASSUME NEW t \in KeyThreads, NEW o \in KeyOps, KeysCall(t, o) PROVE AttemptInv'
    <3>1. Besides(t)
      BY <2>2, Zenon DEF AttemptInv, Besides, KeysCall, KeysGo
    <3>2. keyAt'[t] = "first" /\ failures'[t] = 0 /\ tries'[t] = 0 /\ url'[t] = <<>>
      BY <2>2, Zenon DEF AttemptInv, KeysCall, KeysGo
    <3>3. Attempt(t)'
      BY <3>2 DEF Attempt
    <3>. QED  BY <3>1, <3>3, AttemptStep, Zenon
  <2>3. ASSUME NEW t \in KeyThreads,
               \/ FirstLoad(t) \/ FirstStore(t) \/ TempLoad(t) \/ TempStore(t) \/ Compare(t)
               \/ AssignLoad(t) \/ AssignStore(t) \/ ReleaseLoad(t) \/ ReleaseStore(t)
        PROVE  AttemptInv'
    <3>1. /\ keyOp' = keyOp /\ failures' = failures /\ tries' = tries /\ url' = url
          /\ \E s \in {"first_add", "scan", "release", "temp_add", "compare", "assign", "assign_add",
                       "released"} : keyAt' = [keyAt EXCEPT ![t] = s]
          /\ keyAt[t] \notin {"idle", "sent"}
      BY <2>3, Zenon DEF FirstLoad, FirstStore, TempLoad, TempStore, Compare, AssignLoad,
                  AssignStore, ReleaseLoad, ReleaseStore, KeysGo
    <3>2. key' = key \/ \E k : key' = [key EXCEPT ![t] = k]
      BY <2>3, Zenon DEF FirstLoad, FirstStore, TempLoad, TempStore, Compare, AssignLoad,
                  AssignStore, ReleaseLoad, ReleaseStore
    <3>3. Besides(t)
      BY <3>1, <3>2, Zenon DEF AttemptInv, Besides
    <3>4. keyAt'[t] \notin {"idle", "sent"}
      BY <3>1, Zenon DEF AttemptInv
    <3>5. Attempt(t)'
      BY <3>1, <3>4, Zenon DEF AttemptInv, Attempt
    <3>. QED  BY <3>3, <3>5, AttemptStep, Zenon
  <2>4. ASSUME NEW t \in KeyThreads, KeysRequest(t) PROVE AttemptInv'
    <3>1. Besides(t)
      BY <2>4, Zenon DEF AttemptInv, Besides, KeysRequest, KeysGo
    <3>2. /\ keyAt[t] = "scan" /\ keyAt'[t] = "sent" /\ keyOp'[t] = keyOp[t] /\ failures'[t] = failures[t] /\ key'[t] = key[t]
          /\ tries'[t] = tries[t] + 1 /\ url'[t] = Append(url[t], key[t])
      BY <2>4, Zenon DEF AttemptInv, KeysRequest, KeysGo
    <3>3. Append(<<>>, key[t]) = <<key[t]>>
      OBVIOUS
    <3>4. ASSUME keyOp[t] = "address" PROVE failures[t] \in 0 .. 3 /\ tries[t] = failures[t] /\ url[t] = <<>>
      BY <3>2, <3>4, Zenon DEF AttemptInv, Attempt
    <3>5. ASSUME keyOp[t] = "address"
          PROVE  failures[t] \in 0 .. 3 /\ tries'[t] \in 0 .. 4 /\ tries'[t] = failures[t] + 1
      BY <3>2, <3>4, <3>5
    <3>6. ASSUME keyOp[t] = "address" PROVE url'[t] = <<key[t]>>
      BY <3>2, <3>3, <3>4, <3>6, Zenon
    <3>7. Attempt(t)'
      BY <3>2, <3>5, <3>6, Zenon DEF Attempt
    <3>. QED  BY <3>1, <3>7, AttemptStep, Zenon
  <2>5. ASSUME NEW t \in KeyThreads, Succeeds(t) PROVE AttemptInv'
    <3>1. Besides(t)
      BY <2>5, Zenon DEF AttemptInv, Besides, Succeeds, KeysGo
    <3>2. keyAt'[t] = "idle" /\ keyOp'[t] = keyOp[t] /\ failures'[t] = failures[t] /\ tries'[t] = tries[t]
      BY <2>5, Zenon DEF AttemptInv, Succeeds, KeysGo
    <3>3. Attempt(t)'
      BY <3>2, Zenon DEF AttemptInv, Attempt
    <3>. QED  BY <3>1, <3>3, AttemptStep, Zenon
  <2>6. ASSUME NEW t \in KeyThreads, Retry(t) PROVE AttemptInv'
    <3>1. Besides(t)
      BY <2>6, Zenon DEF AttemptInv, Besides, Retry, KeysGo
    <3>2. keyOp'[t] # "address"
      BY <2>6, Zenon DEF Retry
    <3>. QED  BY <3>1, <3>2, AttemptStep, Zenon DEF Attempt
  <2>7. ASSUME NEW t \in KeyThreads, RetryAddress(t) PROVE AttemptInv'
    <3>1. Besides(t)
      BY <2>7, Zenon DEF AttemptInv, Besides, RetryAddress, KeysGo
    <3>2. /\ keyAt[t] = "sent" /\ keyOp[t] = "address" /\ tries'[t] = tries[t]
          /\ failures'[t] = IF failures[t] >= 3 THEN failures[t] ELSE failures[t] + 1
          /\ keyAt'[t] = IF failures[t] >= 3 THEN "idle" ELSE "first"
          /\ failures[t] < 3 => url'[t] = <<>>
      BY <2>7 DEF AttemptInv, Attempt, RetryAddress, KeysGo
    <3>3. failures[t] \in 0 .. 3 /\ tries[t] \in 0 .. 4 /\ tries[t] = failures[t] + 1
      BY <3>2, Zenon DEF AttemptInv, Attempt
    <3>4. Attempt(t)'
      BY <3>2, <3>3 DEF Attempt
    <3>. QED  BY <3>1, <3>4, AttemptStep, Zenon
  <2>. QED  BY <2>1, <2>2, <2>3, <2>4, <2>5, <2>6, <2>7, Zenon DEF KeysNext
<1>3. AttemptInv => AddressRequests
  BY DEF AttemptInv, Attempt, AddressRequests
<1>. QED  BY <1>1, <1>2, <1>3, PTL DEF KeysSpec

(***************************************************************************)
(* The keys take turns.  The counts are compared one key at a time while   *)
(* other calls change them, so a call may end up with a key that is no     *)
(* longer the least used.  Its choice can only be wrong about a key j that *)
(* it has passed, and when it passed j its key was not used more.  So as   *)
(* long as key k is ahead of j, every count by which it is ahead was added *)
(* by a call of its own, and a call that is still to add one to a key as   *)
(* far ahead (Stale) is not among them.                                    *)
(***************************************************************************)
\* the comparison has decided for the key at the iterator
Decided(t) == keyAt[t] \in {"assign", "assign_add", "release", "released"} /\ pos[t] # 0

Choice(t) == IF Decided(t) THEN pos[t] ELSE key[t]

\* t has passed key j and prefers another one
Passed(t, j) ==
  /\ keyAt[t] \notin {"idle", "first"}
  /\ j < pos[t] \/ (j = pos[t] /\ Decided(t))
  /\ Choice(t) # j

\* the calls that have passed key j with a key whose count is at least n
Stale(j, n) == {t \in KeyThreads : Passed(t, j) /\ count[Choice(t)] >= n}

TurnsInv ==
  \A j, k \in 1 .. N, n \in Int :
    n = count[k] => (n - count[j]) + Cardinality(Stale(j, n)) <= Cardinality(KeyThreads)

\* the choice of a call is a key of the list once it has passed one
LEMMA ChoiceIsKey ==
  ASSUME KeyList, KeyInv, NEW t \in KeyThreads, NEW j \in 1 .. N, Passed(t, j)
  PROVE  Choice(t) \in 1 .. N /\ count[Choice(t)] \in Int
<1>1. keyAt[t] \in Stages /\ Placed(t) /\ \A k \in 1 .. N : count[k] \in Int
  BY ValuesOf, Zenon
<1>2. Choice(t) \in 1 .. N
  BY <1>1 DEF Passed, Choice, Decided, Placed, Stages, KeyList
<1>. QED  BY <1>1, <1>2, Zenon

\* sets of threads
LEMMA StaleCard ==
  ASSUME IsFiniteSet(KeyThreads), NEW A, NEW B, A \subseteq B, B \subseteq KeyThreads
  PROVE  /\ IsFiniteSet(A) /\ Cardinality(A) \in Nat /\ Cardinality(B) \in Nat
         /\ Cardinality(KeyThreads) \in Nat
         /\ Cardinality(A) <= Cardinality(B) /\ Cardinality(B) <= Cardinality(KeyThreads)
         /\ \A t \in B : t \notin A => Cardinality(A) + 1 <= Cardinality(B)
<1>1. IsFiniteSet(B) /\ IsFiniteSet(A)
  BY FS_Subset, Zenon
<1>2. /\ Cardinality(A) \in Nat /\ Cardinality(B) \in Nat /\ Cardinality(KeyThreads) \in Nat
      /\ Cardinality(A) <= Cardinality(B) /\ Cardinality(B) <= Cardinality(KeyThreads)
  BY <1>1, FS_CardinalityType, FS_Subset, Zenon
<1>3. ASSUME NEW t \in B, t \notin A PROVE Cardinality(A) + 1 <= Cardinality(B)
  <2>1. A \subseteq B \ {t} /\ IsFiniteSet(B \ {t}) /\ Cardinality(B \ {t}) = Cardinality(B) - 1
    BY <1>1, <1>3, FS_RemoveElement, Zenon
  <2>2. Cardinality(A) <= Cardinality(B \ {t})
    BY <2>1, FS_Subset, Zenon
  <2>. QED  BY <1>2, <2>1, <2>2
<1>. QED  BY <1>1, <1>2, <1>3, Zenon

\* A step that adds to no count, and after which nobody who has passed key j has a key used
\* more than j, who did not before.
LEMMA ScanTurns ==
  ASSUME IsFiniteSet(KeyThreads), KeyInv, TurnsInv, count' = count,
         \A j \in 1 .. N, n \in Int : n > count[j] => Stale(j, n)' \subseteq Stale(j, n)
  PROVE  TurnsInv'
<1>. SUFFICES ASSUME NEW j \in 1 .. N, NEW k \in 1 .. N, NEW n \in Int, n = count[k]
     PROVE  (n - count[j]) + Cardinality(Stale(j, n)') <= Cardinality(KeyThreads)
  BY Zenon DEF TurnsInv
<1>1. count[j] \in Int
  BY Zenon DEF KeyInv, KeyTypes
<1>2. Stale(j, n)' \subseteq KeyThreads /\ Stale(j, n) \subseteq KeyThreads
  BY Zenon DEF Stale
<1>3. CASE n <= count[j]
  <2>1. /\ Cardinality(Stale(j, n)') \in Nat /\ Cardinality(KeyThreads) \in Nat
        /\ Cardinality(Stale(j, n)') <= Cardinality(KeyThreads)
    BY <1>2, StaleCard, Zenon
  <2>. QED  BY <1>1, <1>3, <2>1
<1>4. CASE n > count[j]
  <2>1. Stale(j, n)' \subseteq Stale(j, n)
    BY <1>4, Zenon
  <2>2. /\ Cardinality(Stale(j, n)') \in Nat /\ Cardinality(Stale(j, n)) \in Nat
        /\ Cardinality(KeyThreads) \in Nat /\ Cardinality(Stale(j, n)') <= Cardinality(Stale(j, n))
    BY <1>2, <2>1, StaleCard, Zenon
  <2>3. (n - count[j]) + Cardinality(Stale(j, n)) <= Cardinality(KeyThreads)
    BY Zenon DEF TurnsInv
  <2>. QED  BY <1>1, <2>2, <2>3
<1>. QED  BY <1>1, <1>3, <1>4

\* A use of key h by t is counted: t is a call that had passed every other key, and has not
\* passed any when it starts again.
LEMMA CountTurns ==
  ASSUME IsFiniteSet(KeyThreads), KeyList, KeyInv, TurnsInv, NEW t \in KeyThreads, NEW h \in 1 .. N,
         count' = [count EXCEPT ![h] = @ + 1],
         \A j \in 1 .. N : j # h => Passed(t, j), Choice(t) = h,
         \A j \in 1 .. N : ~Passed(t, j)',
         \A u \in KeyThreads \ {t}, j \in 1 .. N : /\ Passed(u, j)' <=> Passed(u, j)
                                                   /\ Choice(u)' = Choice(u)
  PROVE  TurnsInv'
<1>. DEFINE c == count[h]
<1>1. /\ c \in Int /\ (\A k \in 1 .. N : count[k] \in Int) /\ count'[h] = c + 1
      /\ \A k \in 1 .. N : k # h => count'[k] = count[k]
  BY Zenon DEF KeyInv, KeyTypes
<1>2. ASSUME NEW j \in 1 .. N, NEW n \in Int, NEW u \in Stale(j, n)'
      PROVE  /\ u \in KeyThreads /\ u # t /\ Passed(u, j) /\ Choice(u) # j /\ Choice(u) \in 1 .. N
             /\ count'[Choice(u)] >= n
  <2>1. u \in KeyThreads /\ Passed(u, j)' /\ count'[Choice(u)'] >= n
    BY <1>2, Zenon DEF Stale
  <2>2. u # t
    BY <2>1, Zenon
  <2>3. Passed(u, j) /\ Choice(u)' = Choice(u)
    BY <2>1, <2>2, Zenon
  <2>4. Choice(u) \in 1 .. N /\ Choice(u) # j
    BY <2>1, <2>3, ChoiceIsKey, Zenon DEF Passed
  <2>. QED  BY <2>1, <2>2, <2>3, <2>4, Zenon
<1>. HIDE DEF c
<1>. SUFFICES ASSUME NEW j \in 1 .. N, NEW k \in 1 .. N, NEW n \in Int, n = count'[k]
     PROVE  (n - count'[j]) + Cardinality(Stale(j, n)') <= Cardinality(KeyThreads)
  BY Zenon DEF TurnsInv
<1>3. Stale(j, n)' \subseteq KeyThreads /\ \A m \in Int : Stale(j, m) \subseteq KeyThreads
  BY Zenon DEF Stale
<1>4. /\ Cardinality(Stale(j, n)') \in Nat /\ Cardinality(KeyThreads) \in Nat
      /\ Cardinality(Stale(j, n)') <= Cardinality(KeyThreads)
  BY <1>3, StaleCard, Zenon
<1>5. CASE Stale(j, n)' \subseteq Stale(j, n) /\ k # h
  <2>1. /\ Cardinality(Stale(j, n)) \in Nat
        /\ Cardinality(Stale(j, n)') <= Cardinality(Stale(j, n))
    BY <1>3, <1>5, StaleCard, Zenon
  <2>2. n = count[k] /\ count[j] \in Int
    BY <1>1, <1>5, Zenon
  <2>3. (n - count[j]) + Cardinality(Stale(j, n)) <= Cardinality(KeyThreads)
    BY <2>2, Zenon DEF TurnsInv
  <2>4. count'[j] \in Int /\ count'[j] >= count[j]
    BY <1>1
  <2>. QED  BY <1>4, <2>1, <2>2, <2>3, <2>4, SMTT(30)
<1>6. CASE j # h /\ n = c + 1
  <2>1. t \in Stale(j, c)
    BY <1>1, <1>6, SMTT(30) DEF Stale, c
  <2>2. ASSUME NEW u \in Stale(j, n)' PROVE u \in Stale(j, c) /\ u # t
    <3>1. /\ u \in KeyThreads /\ u # t /\ Passed(u, j) /\ Choice(u) \in 1 .. N
          /\ count'[Choice(u)] >= n
      BY <1>2, Zenon
    <3>2. count[Choice(u)] >= c
      BY <1>1, <1>6, <3>1, SMTT(30) DEF c
    <3>. QED  BY <3>1, <3>2, Zenon DEF Stale
  <2>3. /\ Cardinality(Stale(j, c)) \in Nat
        /\ Cardinality(Stale(j, n)') + 1 <= Cardinality(Stale(j, c))
    <3>1. Stale(j, n)' \subseteq Stale(j, c) /\ t \notin Stale(j, n)' /\ Stale(j, c) \subseteq KeyThreads
      BY <1>1, <1>3, <2>2, Zenon
    <3>. QED  BY <2>1, <3>1, StaleCard, Zenon
  <2>4. (c - count[j]) + Cardinality(Stale(j, c)) <= Cardinality(KeyThreads)
    BY <1>1, Zenon DEF TurnsInv, c
  <2>5. count'[j] = count[j] /\ count[j] \in Int
    BY <1>1, <1>6, Zenon
  <2>. QED  BY <1>1, <1>4, <1>6, <2>3, <2>4, <2>5, SMTT(30)
<1>7. CASE j = h /\ k = h
  BY <1>1, <1>4, <1>7
<1>8. CASE k # h /\ (j = h \/ n # c + 1)
  <2>1. ASSUME NEW u \in Stale(j, n)' PROVE u \in Stale(j, n)
    <3>1. /\ u \in KeyThreads /\ Passed(u, j) /\ Choice(u) # j /\ Choice(u) \in 1 .. N
          /\ count'[Choice(u)] >= n
      BY <1>2, Zenon
    <3>2. count[Choice(u)] >= n
      BY <1>1, <1>8, <3>1 DEF c
    <3>. QED  BY <3>1, <3>2, Zenon DEF Stale
  <2>. QED  BY <1>5, <1>8, <2>1, Zenon
<1>9. k = h => n = c + 1
  BY <1>1, Zenon
<1>. QED  BY <1>6, <1>7, <1>8, <1>9, Zenon

\* A step of t in the scan: what t has passed afterwards it had passed before, with a key that
\* was used no less, or its key is used no more than what it has passed.
LEMMA ScanStep ==
  ASSUME IsFiniteSet(KeyThreads), KeyList, KeyInv, TurnsInv, count' = count,
         NEW t \in KeyThreads, Elsewhere(t),
         \A j \in 1 .. N : Passed(t, j)' =>
           /\ Choice(t)' \in 1 .. N
           /\ \/ count[Choice(t)'] <= count[j]
              \/ Passed(t, j) /\ count[Choice(t)'] <= count[Choice(t)]
  PROVE  TurnsInv'
<1>1. ASSUME NEW u \in KeyThreads \ {t}, NEW j \in 1 .. N
      PROVE  (Passed(u, j)' <=> Passed(u, j)) /\ Choice(u)' = Choice(u)
  BY Zenon DEF Elsewhere, Passed, Choice, Decided
<1>2. ASSUME NEW j \in 1 .. N, NEW n \in Int, n > count[j], NEW u \in Stale(j, n)'
      PROVE  u \in Stale(j, n)
  <2>1. u \in KeyThreads /\ Passed(u, j)' /\ count[Choice(u)'] >= n
    BY <1>2, Zenon DEF Stale
  <2>2. CASE u # t
    BY <1>1, <2>1, <2>2, Zenon DEF Stale
  <2>3. CASE u = t
    <3>1. Choice(t)' \in 1 .. N /\ \A k \in 1 .. N : count[k] \in Int
      BY <2>1, <2>3, ValuesOf, Zenon
    <3>2. Passed(t, j) /\ count[Choice(t)'] <= count[Choice(t)]
      BY <1>2, <2>1, <2>3, <3>1, SMTT(30)
    <3>3. count[Choice(t)] >= n
      BY <2>1, <2>3, <3>1, <3>2, ChoiceIsKey
    <3>. QED  BY <2>3, <3>2, <3>3, Zenon DEF Stale
  <2>. QED  BY <2>2, <2>3, Zenon
<1>. QED  BY <1>2, ScanTurns, Zenon

\* The steps that leave the counts alone.
LEMMA ScanKeeps ==
  ASSUME IsFiniteSet(KeyThreads), KeyList, KeyInv, TurnsInv, NEW t \in KeyThreads, KeyInv',
         \/ \E o : KeysCall(t, o)
         \/ FirstLoad(t) \/ FirstStore(t) \/ TempLoad(t) \/ TempStore(t) \/ Compare(t)
         \/ AssignLoad(t) \/ AssignStore(t) \/ ReleaseLoad(t) \/ ReleaseStore(t)
         \/ KeysRequest(t) \/ Retry(t)
  PROVE  TurnsInv'
<1>1. count' = count
  BY Zenon DEF KeysCall, FirstLoad, FirstStore, TempLoad, TempStore, Compare, AssignLoad,
         AssignStore, ReleaseLoad, ReleaseStore, KeysRequest, Retry
<1>2. Elsewhere(t)
  <2>1. KeyTypes
    BY Zenon DEF KeyInv
  <2>. QED  BY <2>1, ZenonT(30) DEF KeyTypes, Elsewhere, KeysGo, LoadCount, StoreCount, KeysCall,
     FirstLoad, FirstStore,
         TempLoad, TempStore, Compare, AssignLoad, AssignStore, ReleaseLoad,
         ReleaseStore, KeysRequest, Retry
<1>3. /\ keyAt[t] \in Stages /\ key[t] \in 1 .. N \cup {Own} /\ pos[t] \in 0 .. N + 1 /\ Placed(t)
      /\ (\A k \in 1 .. N : count[k] \in Int) /\ N \in Nat
      /\ DOMAIN keyAt = KeyThreads /\ DOMAIN key = KeyThreads /\ DOMAIN pos = KeyThreads
  BY ValuesOf, Zenon DEF KeyInv, KeyTypes, KeyList
<1>4. ASSUME \A j \in 1 .. N : ~Passed(t, j)' PROVE TurnsInv'
  BY <1>1, <1>2, <1>4, ScanStep, Zenon
<1>5. ASSUME \A j \in 1 .. N : Passed(t, j)' => Passed(t, j), Choice(t)' = Choice(t) PROVE TurnsInv'
  <2>1. ASSUME NEW j \in 1 .. N, Passed(t, j)'
        PROVE  /\ Choice(t)' \in 1 .. N /\ Passed(t, j)
               /\ count[Choice(t)'] <= count[Choice(t)]
    BY <1>5, <2>1, ChoiceIsKey
  <2>. QED  BY <1>1, <1>2, <2>1, ScanStep, ZenonT(30)
<1>6. CASE (\E o : KeysCall(t, o)) \/ Retry(t)
  <2>1. keyAt'[t] = "first"
    BY <1>3, <1>6, ZenonT(30) DEF KeysCall, Retry, KeysGo
  <2>. QED  BY <1>4, <2>1, Zenon DEF Passed
<1>7. CASE FirstLoad(t)
  <2>1. keyAt'[t] = "first_add" /\ pos'[t] = 0
    BY <1>3, <1>7, Zenon DEF FirstLoad, KeysGo
  <2>. QED  BY <1>4, <2>1 DEF Passed, Decided
<1>8. CASE FirstStore(t)
  <2>1. (keyAt'[t] = "scan" /\ pos'[t] = 1) \/ (keyAt'[t] = "release" /\ pos'[t] = 0)
    BY <1>3, <1>8, Zenon DEF FirstStore, KeysGo, Placed
  <2>. QED  BY <1>4, <2>1 DEF Passed, Decided
<1>9. CASE TempLoad(t) \/ TempStore(t) \/ KeysRequest(t)
  <2>1. /\ keyAt[t] \in {"scan", "temp_add"} /\ keyAt'[t] \in {"temp_add", "compare", "sent"}
        /\ pos'[t] = pos[t] /\ key'[t] = key[t]
    BY <1>3, <1>9, Zenon DEF TempLoad, TempStore, KeysRequest, KeysGo
  <2>2. ~Decided(t) /\ ~Decided(t)'
    BY <2>1, Zenon DEF Decided
  <2>3. Choice(t)' = Choice(t) /\ \A j \in 1 .. N : Passed(t, j)' => Passed(t, j)
    BY <2>1, <2>2, Zenon DEF Choice, Passed
  <2>. QED  BY <1>5, <2>3, Zenon
<1>10. CASE AssignLoad(t) \/ AssignStore(t) \/ ReleaseLoad(t)
  <2>1. /\ keyAt[t] \in {"assign", "assign_add", "release"}
        /\ keyAt'[t] \in {"assign_add", "release", "released"}
        /\ pos'[t] = pos[t] /\ key'[t] = key[t]
    BY <1>3, <1>10, Zenon DEF AssignLoad, AssignStore, ReleaseLoad, KeysGo
  <2>2. Decided(t)' <=> Decided(t)
    BY <2>1, Zenon DEF Decided
  <2>3. Choice(t)' = Choice(t) /\ \A j \in 1 .. N : Passed(t, j)' => Passed(t, j)
    BY <2>1, <2>2, Zenon DEF Choice, Passed
  <2>. QED  BY <1>5, <2>3, Zenon
<1>11. CASE ReleaseStore(t)
  <2>1. /\ keyAt[t] = "released" /\ keyAt'[t] = "scan" /\ pos[t] \in 0 .. N
        /\ key'[t] = (IF pos[t] = 0 THEN 1 ELSE pos[t]) /\ pos'[t] = pos[t] + 1
    BY <1>3, <1>11, Zenon DEF ReleaseStore, KeysGo, Placed
  <2>2. ~Decided(t)' /\ (Decided(t) <=> pos[t] # 0)
    BY <2>1, Zenon DEF Decided
  <2>3. CASE pos[t] = 0
    BY <1>4, <2>1, <2>2, <2>3 DEF Passed
  <2>4. CASE pos[t] # 0
    <3>1. Choice(t) = pos[t] /\ Choice(t)' = pos[t]
      BY <2>1, <2>2, <2>4, ZenonT(30) DEF Choice
    <3>2. \A j \in 1 .. N : Passed(t, j)' => Passed(t, j)
      BY <1>3, <2>1, <2>2, <2>4, <3>1 DEF Passed
    <3>. QED  BY <1>5, <3>1, <3>2, Zenon
  <2>. QED  BY <2>3, <2>4, Zenon
<1>12. CASE Compare(t)
  <2>1. /\ keyAt[t] = "compare" /\ pos[t] \in 1 .. N /\ key[t] \in 1 .. N /\ key'[t] = key[t]
        /\ count[pos[t]] \in Int /\ count[key[t]] \in Int
    BY <1>3, <1>12, Zenon DEF Compare, KeysGo, Placed
  <2>2. ~Decided(t) /\ Choice(t) = key[t]
    BY <2>1, Zenon DEF Decided, Choice
  <2>3. CASE count[pos[t]] < count[key[t]]
    <3>1. keyAt'[t] = "assign" /\ pos'[t] = pos[t]
      BY <1>3, <1>12, <2>3, ZenonT(30) DEF Compare, KeysGo, Less
    <3>2. Decided(t)' /\ Choice(t)' = pos[t]
      BY <2>1, <3>1 DEF Decided, Choice
    <3>3. ASSUME NEW j \in 1 .. N, Passed(t, j)'
          PROVE  \/ count[Choice(t)'] <= count[j]
                 \/ Passed(t, j) /\ count[Choice(t)'] <= count[Choice(t)]
      <4>1. j < pos[t]
        BY <3>1, <3>2, <3>3, Zenon DEF Passed
      <4>2. CASE key[t] = j
        BY <2>1, <2>3, <3>2, <4>2, SMTT(30)
      <4>3. CASE key[t] # j
        BY <2>1, <2>2, <2>3, <3>2, <4>1, <4>3, SMTT(30) DEF Passed
      <4>. QED  BY <4>2, <4>3, Zenon
    <3>. QED  BY <1>1, <1>2, <2>1, <3>2, <3>3, ScanStep, Zenon
  <2>4. CASE ~(count[pos[t]] < count[key[t]])
    <3>1. keyAt'[t] = "scan" /\ pos'[t] = pos[t] + 1
      BY <1>3, <1>12, <2>4, Zenon DEF Compare, KeysGo, Less
    <3>2. ~Decided(t)' /\ Choice(t)' = key[t]
      BY <2>1, <3>1, Zenon DEF Decided, Choice
    <3>3. ASSUME NEW j \in 1 .. N, Passed(t, j)'
          PROVE  \/ count[Choice(t)'] <= count[j]
                 \/ Passed(t, j) /\ count[Choice(t)'] <= count[Choice(t)]
      <4>1. j < pos[t] + 1 /\ key[t] # j
        BY <3>1, <3>2, <3>3, ZenonT(30) DEF Passed
      <4>2. CASE j = pos[t]
        BY <2>1, <2>4, <3>2, <4>2, SMTT(30)
      <4>3. CASE j # pos[t]
        BY <2>1, <2>2, <3>2, <4>1, <4>3, SMTT(30) DEF Passed
      <4>. QED  BY <4>2, <4>3, Zenon
    <3>. QED  BY <1>1, <1>2, <2>1, <3>2, <3>3, ScanStep, Zenon
  <2>. QED  BY <2>3, <2>4, Zenon
<1>. QED  BY <1>6, <1>7, <1>8, <1>9, <1>10, <1>11, <1>12, Zenon

\* The steps that count a use.
LEMMA CountKeeps ==
  ASSUME IsFiniteSet(KeyThreads), KeyList, KeyInv, TurnsInv, NEW t \in KeyThreads,
         Succeeds(t) \/ RetryAddress(t)
  PROVE  TurnsInv'
<1>. DEFINE h == key[t]
<1>1. /\ KeyTypes /\ Placed(t) /\ keyAt[t] = "sent"
      /\ \E s \in {"idle", "first"} : keyAt' = [keyAt EXCEPT ![t] = s]
      /\ key' = key /\ pos' = pos /\ seen' = seen /\ count' = [count EXCEPT ![h] = @ + 1]
  BY ValuesOf, Zenon DEF Succeeds, RetryAddress, KeysGo, AddCount, KeyInv
<1>2. h \in 1 .. N /\ pos[t] = N + 1 /\ N \in Nat
  BY <1>1, Zenon DEF Placed, KeyList
<1>3. Elsewhere(t)
  BY <1>1, Zenon DEF KeyTypes, Elsewhere
<1>4. ~Decided(t) /\ Choice(t) = h
  BY <1>1, Zenon DEF Decided, Choice
<1>5. \A j \in 1 .. N : j # h => Passed(t, j)
  BY <1>1, <1>2, <1>4 DEF Passed
<1>6. \A j \in 1 .. N : ~Passed(t, j)'
  BY <1>1, Zenon DEF Passed, KeyTypes
<1>7. \A u \in KeyThreads \ {t}, j \in 1 .. N : (Passed(u, j)' <=> Passed(u, j)) /\ Choice(u)' = Choice(u)
  BY <1>3, Zenon DEF Elsewhere, Passed, Choice, Decided
<1>. HIDE DEF h
<1>. QED  BY <1>1, <1>2, <1>4, <1>5, <1>6, <1>7, CountTurns, Zenon

\* The access keys take turns, for any number of keys and threads: though the use counts are
\* compared one by one while other calls change them, two keys never differ by more than the
\* number of threads.
THEOREM KeysTakeTurns == ASSUME KeyList, IsFiniteSet(KeyThreads) PROVE KeysSpec => []Balanced
<1>1. KeysInit => KeyInv /\ TurnsInv
  <2>. SUFFICES ASSUME KeysInit PROVE KeyInv /\ TurnsInv
    BY Zenon
  <2>1. ASSUME NEW j \in 1 .. N, NEW k \in 1 .. N, NEW n \in Int, n = count[k]
        PROVE  (n - count[j]) + Cardinality(Stale(j, n)) <= Cardinality(KeyThreads)
    <3>1. n = 0 /\ count[j] = 0
      BY <2>1, Zenon DEF KeysInit, KeyIds
    <3>2. Stale(j, n) \subseteq KeyThreads
      BY Zenon DEF Stale
    <3>3. /\ Cardinality(Stale(j, n)) \in Nat /\ Cardinality(KeyThreads) \in Nat
          /\ Cardinality(Stale(j, n)) <= Cardinality(KeyThreads)
      BY <3>2, StaleCard, Zenon
    <3>. QED  BY <3>1, <3>3
  <2>. QED  BY <2>1, KeyInit, Zenon DEF TurnsInv
<1>2. KeyInv /\ TurnsInv /\ [KeysNext]_(keyVars) => KeyInv' /\ TurnsInv'
  <2>. SUFFICES ASSUME KeyInv, TurnsInv, [KeysNext]_(keyVars) PROVE KeyInv' /\ TurnsInv'
    BY Zenon
  <2>1. KeyInv'
    BY KeyNext, Zenon
  <2>2. CASE UNCHANGED keyVars
    <3>1. keyAt' = keyAt /\ key' = key /\ pos' = pos /\ count' = count
      BY <2>2, Zenon DEF keyVars
    <3>2. \A j \in 1 .. N, n \in Int : Stale(j, n)' = Stale(j, n)
      BY <3>1, ZenonT(30) DEF Stale, Passed, Choice, Decided
    <3>3. \A j \in 1 .. N, n \in Int : n > count[j] => Stale(j, n)' \subseteq Stale(j, n)
      BY <3>2, Zenon
    <3>. QED  BY <2>1, <3>1, <3>3, ScanTurns, Zenon
  <2>3. ASSUME NEW t \in KeyThreads, Succeeds(t) \/ RetryAddress(t) PROVE TurnsInv'
    BY <2>3, CountKeeps, Zenon
  <2>4. ASSUME NEW t \in KeyThreads,
               \/ \E o : KeysCall(t, o)
               \/ FirstLoad(t) \/ FirstStore(t) \/ TempLoad(t) \/ TempStore(t)
               \/ Compare(t) \/ AssignLoad(t) \/ AssignStore(t) \/ ReleaseLoad(t)
               \/ ReleaseStore(t) \/ KeysRequest(t) \/ Retry(t)
        PROVE  TurnsInv'
    BY <2>1, <2>4, ScanKeeps, Zenon
  <2>. QED  BY <2>1, <2>2, <2>3, <2>4, Zenon DEF KeysNext
<1>3. KeyInv /\ TurnsInv => Balanced
  <2>. SUFFICES ASSUME KeyInv, TurnsInv PROVE Balanced
    BY Zenon
  <2>1. ASSUME NEW k \in 1 .. N, NEW j \in 1 .. N
        PROVE  count[k] - count[j] <= Cardinality(KeyThreads)
    <3>1. count[k] \in Int /\ count[j] \in Int
      BY Zenon DEF KeyInv, KeyTypes
    <3>2. Stale(j, count[k]) \subseteq KeyThreads
      BY Zenon DEF Stale
    <3>3. Cardinality(Stale(j, count[k])) \in Nat /\ Cardinality(KeyThreads) \in Nat
      BY <3>2, StaleCard, Zenon
    <3>4. (count[k] - count[j]) + Cardinality(Stale(j, count[k])) <= Cardinality(KeyThreads)
      BY <3>1, Zenon DEF TurnsInv
    <3>. QED  BY <3>1, <3>3, <3>4
  <2>2. Cardinality(KeyThreads) = Cardinality(KeyThreads)
    BY Zenon DEF Cardinality, Cardinality
  <2>. QED  BY <2>1, <2>2, Zenon DEF Balanced, KeyIds
<1>. QED  BY <1>1, <1>2, <1>3, PTL DEF KeysSpec

=============================================================================
