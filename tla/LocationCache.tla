---------------------------- MODULE LocationCache ----------------------------
(***************************************************************************)
(* LocationServer::GeocoderForAddress of base/lbs/location_server.cc: the  *)
(* address of a pair of coordinates, from memcached (MemComm) or, on a     *)
(* miss, from the map service, whose answer is then cached.  Threads call  *)
(* it at the same time; memcached may forget an entry and may fail a call. *)
(*                                                                         *)
(* A coordinate is an integer number of millionths of a degree.  The       *)
(* address the service gives for a place is the place itself, so that an   *)
(* answer shows for which place it was obtained.  Time is in days.         *)
(***************************************************************************)
EXTENDS Integers, FiniteSets

CONSTANTS
  Threads,
  Places,      \* records [lat, lon], in millionths of a degree
  TiesUp,      \* the coordinates halfway between two printed values whose double is printed
               \* as the one farther from 0
  Empty,       \* the address of a request that failed: empty strings
  None,        \* no value
  FirstDay,    \* time(NULL) when the program starts, in days
  LastDay      \* bound on time

KeepDays == 4  \* 60 * 60 * 24 * 4 seconds

Degree == 1000000
Tenth == Degree \div 10
Coordinates == -180 * Degree .. 180 * Degree

ASSUME LocationCacheAssumption ==
  /\ FirstDay \in Nat /\ LastDay \in Nat /\ KeepDays < FirstDay /\ FirstDay <= LastDay
  /\ Empty \notin Places /\ None \notin Places /\ Empty # None
  /\ Places \subseteq [lat : Coordinates, lon : Coordinates]

VARIABLES
  cache,       \* memcached: key -> entry
  now,
  up,          \* whether the map service answers
  at, place,   \* where each thread is in its call, and for which place
  entry,       \* the entry it read, unpacked
  addr         \* the out parameters city, district, province, street

vars == <<cache, now, up, at, place, entry, addr>>
-----------------------------------------------------------------------------
Abs(n) == IF n < 0 THEN -n ELSE n

\* the first digit of a natural number below 1000
FirstDigit(n) == IF n >= 100 THEN n \div 100 ELSE IF n >= 10 THEN n \div 10 ELSE n

\* DoubleToString is os << value, which prints six significant digits: the unit of the last
\* one for m millionths of a degree
LastDigit(m) ==
  IF m < Degree THEN 1 ELSE IF m < 10 * Degree THEN 10 ELSE IF m < 100 * Degree THEN 100 ELSE 1000

\* the number that is printed, without the sign
Rounded(c) ==
  LET m == Abs(c)
      unit == LastDigit(m)
      rest == m % unit
      away == 2 * rest > unit \/ (2 * rest = unit /\ c \in TiesUp)
  IN  IF away THEN m - rest + unit ELSE m - rest

\* below a ten thousandth of a degree the stream prints an exponent: 5.1e-05
Scientific(c) == c # 0 /\ Abs(c) < 100

\* zeros at the end are not printed, and no point without a digit behind it: 120.0004 is 120
HasPoint(c) == IF Scientific(c) THEN Abs(c) >= 10 /\ Abs(c) % 10 # 0 ELSE Rounded(c) % Degree # 0

\* What LocationToKey keeps of the text of c: the part up to one digit behind the point.
\* Without a point find gives npos, npos + 2 is 1, and only the first character is kept:
\* the sign or the first digit.
Coordinate(c) ==
  LET r == Rounded(c)
      whole == IF Scientific(c) THEN Abs(c) \div 10 ELSE r \div Degree
      tenths == IF Scientific(c) THEN Abs(c) % 10 ELSE (r % Degree) \div Tenth
      number == IF Scientific(c) THEN Abs(c) ELSE whole
  IN  IF HasPoint(c)
      THEN [sign |-> c < 0, degrees |-> whole, tenths |-> tenths]
      ELSE [sign |-> c < 0, first |-> IF c < 0 THEN 0 ELSE FirstDigit(number)]

\* the texts of the coordinates that occur
Text == [c \in UNION {{p.lat, p.lon} : p \in Places} |-> Coordinate(c)]

\* mutant of LocationToKey: the latitude is used twice
LocationToKeyLatitude(p) == <<Text[p.lat], Text[p.lat]>>

LocationToKey(p) == <<Text[p.lat], Text[p.lon]>>

\* JsonSerializer writes the time only when !current_time; the day of writing is history
JsonSerializer(a, time, day) ==
  [addr |-> a, time |-> IF time = 0 THEN time ELSE None, written |-> day]

\* JsonDeserialize never reads the time: it stays 0 as constructed
JsonDeserialize(e) == [addr |-> e.addr, time |-> 0]

Keys == {LocationToKey(p) : p \in Places}

Put(k, e) == [j \in DOMAIN cache \cup {k} |-> IF j = k THEN e ELSE cache[j]]
Drop(k) == [j \in DOMAIN cache \ {k} |-> cache[j]]
-----------------------------------------------------------------------------
Init ==
  /\ cache = [k \in {} |-> None]
  /\ now = FirstDay
  /\ up \in BOOLEAN
  /\ at = [t \in Threads |-> "idle"]
  /\ place = [t \in Threads |-> None]
  /\ entry = [t \in Threads |-> None]
  /\ addr = [t \in Threads |-> None]

\* the call, with empty out parameters
Call(t, p) ==
  /\ at[t] = "idle"
  /\ at' = [at EXCEPT ![t] = "lookup"]
  /\ place' = [place EXCEPT ![t] = p]
  /\ addr' = [addr EXCEPT ![t] = Empty]
  /\ UNCHANGED <<cache, now, up, entry>>

\* MemComm::GetLocation finds the key
Hit(t) ==
  /\ at[t] = "lookup" /\ LocationToKey(place[t]) \in DOMAIN cache
  /\ entry' = [entry EXCEPT ![t] = JsonDeserialize(cache[LocationToKey(place[t])])]
  /\ at' = [at EXCEPT ![t] = "hit"]
  /\ UNCHANGED <<cache, now, up, place, addr>>

\* MemComm::GetLocation fails: no such key, or memcached does not answer
Miss(t) ==
  /\ at[t] = "lookup"
  /\ at' = [at EXCEPT ![t] = "request"]
  /\ UNCHANGED <<cache, now, up, place, entry, addr>>

\* The request to the map service; its result is not tested, and the out parameters stay
\* as they are when it fails.
Request(t) ==
  /\ at[t] = "request"
  /\ addr' = [addr EXCEPT ![t] = IF up THEN place[t] ELSE @]
  /\ at' = [at EXCEPT ![t] = "store"]
  /\ UNCHANGED <<cache, now, up, place, entry>>

\* MemComm::SetLocation, which may fail
Store(t, ok) ==
  /\ at[t] = "store"
  /\ cache' = IF ok THEN Put(LocationToKey(place[t]), JsonSerializer(addr[t], now, now))
                    ELSE cache
  /\ at' = [at EXCEPT ![t] = "idle"]
  /\ UNCHANGED <<now, up, place, entry, addr>>

\* mutant of Expired: the operands are swapped
ExpiredSwapped(time) == time - now > KeepDays

\* the test on the age of an entry
Expired(time) == now - time > KeepDays

\* The entry that was read is returned; one that looks older than KeepDays is deleted by
\* MemComm::DelLocation, which may fail.
Unpack(t, ok) ==
  LET k == LocationToKey(place[t])
      delete == ok /\ Expired(entry[t].time) /\ k \in DOMAIN cache
  IN  /\ at[t] = "hit"
      /\ addr' = [addr EXCEPT ![t] = entry[t].addr]
      /\ cache' = IF delete THEN Drop(k) ELSE cache
      /\ at' = [at EXCEPT ![t] = "idle"]
      /\ entry' = [entry EXCEPT ![t] = None]
      /\ UNCHANGED <<now, up, place>>

\* memcached forgets an entry
Evict(k) ==
  /\ cache' = Drop(k)
  /\ UNCHANGED <<now, up, at, place, entry, addr>>

\* the map service stops or starts to answer
Service ==
  /\ up' = ~up
  /\ UNCHANGED <<cache, now, at, place, entry, addr>>

Day ==
  /\ now < LastDay
  /\ now' = now + 1
  /\ UNCHANGED <<cache, up, at, place, entry, addr>>

Step(t) ==
  \/ Hit(t) \/ Miss(t) \/ Request(t)
  \/ \E ok \in BOOLEAN : Store(t, ok) \/ Unpack(t, ok)

Next ==
  \/ \E t \in Threads : Step(t) \/ \E p \in Places : Call(t, p)
  \/ \E k \in DOMAIN cache : Evict(k)
  \/ Service \/ Day

Spec == Init /\ [][Next]_vars

\* some thread asks for a place with key k, finds the key, deletes what it found
CallFor(k) == \E t \in Threads, p \in Places : Call(t, p) /\ LocationToKey(p) = k
HitFor(k) == \E t \in Threads : Hit(t) /\ LocationToKey(place[t]) = k
UnpackFor(k) == \E t \in Threads : Unpack(t, TRUE) /\ LocationToKey(place[t]) = k

\* Threads are scheduled; every key is asked for again and again; memcached does not
\* fail every lookup or every deletion of a key.
Fairness ==
  /\ \A t \in Threads : WF_vars(Step(t))
  /\ \A k \in Keys : SF_vars(CallFor(k)) /\ SF_vars(HitFor(k)) /\ SF_vars(UnpackFor(k))

FairSpec == Spec /\ Fairness
-----------------------------------------------------------------------------

\* c is printed as digits with a point among them, so its key keeps one digit behind it
Decimal(c) == HasPoint(c) /\ ~Scientific(c)

\* The address that a finished call returns was obtained for a place at most a tenth of a degree
\* away, in every coordinate of which the key keeps one decimal (lbs_dic_comm.cc:19), however
\* the text is rounded before it is cut.  (A coordinate that is printed without a point, whole
\* or rounded to a whole one, or with an exponent, shares its key with far away ones.)
AnswerNearby ==
  LET Near(c, d) == Decimal(c) /\ ~Scientific(d) => Abs(c - d) <= Tenth
  IN  \A t \in Threads :
        at[t] = "idle" /\ addr[t] \in Places =>
          Near(place[t].lat, addr[t].lat) /\ Near(place[t].lon, addr[t].lon)

\* What DelLocation deletes is older than the given time: "delete it if it is older than
\* the given time" (location_server.cc:64).
OnlyOldDeleted ==
  [][\A t \in Threads :
       Unpack(t, TRUE) =>
         \A k \in DOMAIN cache \ DOMAIN cache' : now - cache[k].written > KeepDays]_vars

\* A failed request is cached like an answer, and still does not stick: once the service
\* answers for good, an empty address does not stay in the cache.
EmptyAddressLeaves ==
  <>[]up => \A k \in Keys :
              [](k \in DOMAIN cache /\ cache[k].addr = Empty =>
                 <>(k \notin DOMAIN cache \/ cache[k].addr # Empty))
=============================================================================
