----------------------------- MODULE AccessKeys -----------------------------
(***************************************************************************)
(* The requests of base/lbs/lbs_baidu_connector.cc to the map service.     *)
(* Each attempt picks the access key that was used least                   *)
(* (GetIdleAccessToken), appends it to a stringstream for the url, sends   *)
(* the request and counts the use; a failed request is tried again.        *)
(*                                                                         *)
(* BaiDuAccessKey is a counted reference to its Data.  The use count is    *)
(* atomic; AddRef and Release are not, and are a load and a store here.    *)
(* The class has no destructor, so the copy temp_baidu_access_key leaves   *)
(* its reference behind; an assignment releases the old one.  The Data of  *)
(* the default constructor (Own) starts at 0 references, and releasing it  *)
(* gives -1: it is never deleted and is left out.                          *)
(***************************************************************************)
EXTENDS Integers, Sequences, FiniteSets

CONSTANTS
  KeyThreads,
  N,              \* keys in access_key_list_, 1 .. N
  KeyOps,         \* the calls made: "ip" IPtoAddress, "place" GeocoderForAddress,
                  \* "address" AddressForGeocoder
  MaxKeyCalls,    \* bound on the calls
  MaxKeyAttempts, \* bound on the attempts of the calls whose code has none
  Own             \* the Data of a default constructed key

KeyIds == 1 .. N

VARIABLES
  refs,         \* refcount_ of each key's Data
  count,        \* count_ of each key's Data
  freedKeys,    \* Data that were deleted
  keyAt, keyOp, \* where each thread is, and in which call
  key,          \* data_ of baidu_access_key
  pos,          \* the iterator
  seen,         \* the value a load of refcount_ gave
  failures,     \* the retry counter
  tries,        \* history: attempts of the call
  url,          \* the access keys in the stringstream os
  keyCalls,
  alone,        \* history: no call has begun during another
  keyUb

keyVars == <<refs, count, freedKeys, keyAt, keyOp, key, pos, seen, failures, tries, url,
             keyCalls, alone, keyUb>>

KeysInit ==
  /\ refs = [k \in KeyIds |-> 1]   \* the constructor gives 0, push_front copies
  /\ count = [k \in KeyIds |-> 0]
  /\ freedKeys = {}
  /\ keyAt = [t \in KeyThreads |-> "idle"] /\ keyOp = [t \in KeyThreads |-> "none"]
  /\ key = [t \in KeyThreads |-> Own] /\ pos = [t \in KeyThreads |-> 1]
  /\ seen = [t \in KeyThreads |-> 0]
  /\ failures = [t \in KeyThreads |-> 0] /\ tries = [t \in KeyThreads |-> 0]
  /\ url = [t \in KeyThreads |-> <<>>]
  /\ keyCalls = 0 /\ alone = TRUE /\ keyUb = FALSE

KeysGo(t, from, to) == ~keyUb /\ keyAt[t] = from /\ keyAt' = [keyAt EXCEPT ![t] = to]

\* a use of the Data of a key: undefined once it was deleted
Use(k) == keyUb' = (k \in freedKeys)
-----------------------------------------------------------------------------
KeysCall(t, o) ==
  /\ keyCalls < MaxKeyCalls
  /\ KeysGo(t, "idle", "first")
  /\ keyOp' = [keyOp EXCEPT ![t] = o]
  /\ key' = [key EXCEPT ![t] = Own]
  /\ failures' = [failures EXCEPT ![t] = 0] /\ tries' = [tries EXCEPT ![t] = 0]
  /\ url' = [url EXCEPT ![t] = <<>>]
  /\ keyCalls' = keyCalls + 1
  /\ alone' = (alone /\ \A u \in KeyThreads : keyAt[u] = "idle")
  /\ UNCHANGED <<refs, count, freedKeys, pos, seen, keyUb>>

\* refcount_ of key k: the load, and the store, after which the loaded value is forgotten
LoadCount(t, k) == seen' = [seen EXCEPT ![t] = refs[k]] /\ Use(k)
StoreCount(t, k, n) == refs' = [refs EXCEPT ![k] = n] /\ seen' = [seen EXCEPT ![t] = 0] /\ Use(k)

\* mutant of AddRef: nothing is counted
AddRefNot(n) == n

\* what AddRef stores
AddRef(n) == n + 1

\* GetIdleAccessToken: baidu_access_key = (*it) for the first key.  AddRef of the new
\* Data comes before Release of the old one.
FirstLoad(t) ==
  /\ KeysGo(t, "first", "first_add")
  /\ LoadCount(t, 1)
  /\ pos' = [pos EXCEPT ![t] = 0]
  /\ UNCHANGED <<refs, count, freedKeys, keyOp, key, failures, tries, url, keyCalls, alone>>

FirstStore(t) ==
  /\ KeysGo(t, "first_add", IF key[t] = Own THEN "scan" ELSE "release")
  /\ StoreCount(t, 1, AddRef(seen[t]))
  /\ IF key[t] = Own THEN key' = [key EXCEPT ![t] = 1] /\ pos' = [pos EXCEPT ![t] = 1]
                     ELSE UNCHANGED <<key, pos>>
  /\ UNCHANGED <<count, freedKeys, keyOp, failures, tries, url, keyCalls, alone>>

\* the copy temp_baidu_access_key of the key at the iterator
TempLoad(t) ==
  /\ pos[t] <= N
  /\ KeysGo(t, "scan", "temp_add")
  /\ LoadCount(t, pos[t])
  /\ UNCHANGED <<refs, count, freedKeys, keyOp, key, pos, failures, tries, url, keyCalls,
                 alone>>
TempStore(t) ==
  /\ KeysGo(t, "temp_add", "compare")
  /\ StoreCount(t, pos[t], AddRef(seen[t]))
  /\ UNCHANGED <<count, freedKeys, keyOp, key, pos, failures, tries, url, keyCalls, alone>>

\* mutant of Less: the key used most is taken
LessNot(a, b) == a > b

\* the test on the use counts
Less(a, b) == a < b

Compare(t) ==
  LET less == Less(count[pos[t]], count[key[t]])
  IN  /\ KeysGo(t, "compare", IF less THEN "assign" ELSE "scan")
      /\ pos' = [pos EXCEPT ![t] = IF less THEN @ ELSE @ + 1]
      /\ keyUb' = (freedKeys \cap {pos[t], key[t]} # {})
      /\ UNCHANGED <<refs, count, freedKeys, keyOp, key, seen, failures, tries, url,
                     keyCalls, alone>>

\* baidu_access_key = temp_baidu_access_key
AssignLoad(t) ==
  /\ KeysGo(t, "assign", "assign_add")
  /\ LoadCount(t, pos[t])
  /\ UNCHANGED <<refs, count, freedKeys, keyOp, key, pos, failures, tries, url, keyCalls,
                 alone>>
AssignStore(t) ==
  /\ KeysGo(t, "assign_add", "release")
  /\ StoreCount(t, pos[t], AddRef(seen[t]))
  /\ UNCHANGED <<count, freedKeys, keyOp, key, pos, failures, tries, url, keyCalls, alone>>

\* Release of the old Data, which deletes it at 0, and data_ = the new one: the key at
\* the iterator, or the first key before the loop (pos 0).  The loop goes on behind it.
ReleaseLoad(t) ==
  /\ KeysGo(t, "release", "released")
  /\ LoadCount(t, key[t])
  /\ UNCHANGED <<refs, count, freedKeys, keyOp, key, pos, failures, tries, url, keyCalls,
                 alone>>
ReleaseStore(t) ==
  /\ KeysGo(t, "released", "scan")
  /\ StoreCount(t, key[t], seen[t] - 1)
  /\ freedKeys' = IF seen[t] = 1 THEN freedKeys \cup {key[t]} ELSE freedKeys
  /\ key' = [key EXCEPT ![t] = IF pos[t] = 0 THEN 1 ELSE pos[t]]
  /\ pos' = [pos EXCEPT ![t] = @ + 1]
  /\ UNCHANGED <<count, keyOp, failures, tries, url, keyCalls, alone>>

\* the url is appended to os and the request sent
KeysRequest(t) ==
  /\ pos[t] > N
  /\ KeysGo(t, "scan", "sent")
  /\ url' = [url EXCEPT ![t] = Append(@, key[t])]
  /\ tries' = [tries EXCEPT ![t] = @ + 1]
  /\ Use(key[t])
  /\ UNCHANGED <<refs, count, freedKeys, keyOp, key, pos, seen, failures, keyCalls, alone>>

\* add_count, an atomic increment
AddCount(t) == count' = [count EXCEPT ![key[t]] = @ + 1] /\ Use(key[t])

\* RequestBaiduUrl succeeds: break, and the use is counted
Succeeds(t) ==
  /\ KeysGo(t, "sent", "idle")
  /\ AddCount(t)
  /\ UNCHANGED <<refs, freedKeys, keyOp, key, pos, seen, failures, tries, url, keyCalls, alone>>

\* IPtoAddress and GeocoderForAddress try again: i stays 0 and os keeps its content
Retry(t) ==
  /\ keyOp[t] \in {"ip", "place"} /\ failures[t] < 3 /\ tries[t] < MaxKeyAttempts
  /\ KeysGo(t, "sent", "first")
  /\ UNCHANGED <<refs, count, freedKeys, keyOp, key, pos, seen, failures, tries, url,
                 keyCalls, alone, keyUb>>

\* mutant of RetryAddress: os is not emptied
RetryAddressAppend(t) ==
  /\ keyOp[t] = "address"
  /\ KeysGo(t, "sent", IF failures[t] >= 3 THEN "idle" ELSE "first")
  /\ AddCount(t)
  /\ failures' = [failures EXCEPT ![t] = IF @ >= 3 THEN @ ELSE @ + 1]
  /\ UNCHANGED <<refs, freedKeys, keyOp, key, pos, seen, tries, url, keyCalls, alone>>

\* AddressForGeocoder counts the failed use too, gives up at the fourth failure, and
\* empties os before it tries again
RetryAddress(t) ==
  /\ keyOp[t] = "address"
  /\ KeysGo(t, "sent", IF failures[t] >= 3 THEN "idle" ELSE "first")
  /\ AddCount(t)
  /\ failures' = [failures EXCEPT ![t] = IF @ >= 3 THEN @ ELSE @ + 1]
  /\ url' = [url EXCEPT ![t] = IF failures[t] >= 3 THEN @ ELSE <<>>]
  /\ UNCHANGED <<refs, freedKeys, keyOp, key, pos, seen, tries, keyCalls, alone>>

KeysNext ==
  \E t \in KeyThreads :
    \/ \E o \in KeyOps : KeysCall(t, o)
    \/ FirstLoad(t) \/ FirstStore(t) \/ TempLoad(t) \/ TempStore(t) \/ Compare(t)
    \/ AssignLoad(t) \/ AssignStore(t) \/ ReleaseLoad(t) \/ ReleaseStore(t)
    \/ KeysRequest(t) \/ Succeeds(t) \/ Retry(t) \/ RetryAddress(t)

KeysSpec == KeysInit /\ [][KeysNext]_keyVars
-----------------------------------------------------------------------------
\* The Data of a key of the list is never deleted: the list holds a reference to it, and
\* Release deletes at 0 (basic_lbs_info.h:25).
KeyAlive == freedKeys = {}

\* As long as calls do not overlap, the references and releases of the copies and
\* assignments of GetIdleAccessToken, over all attempts, never delete the Data of a key.
KeyAliveAlone == alone => KeyAlive

\* The keys take turns: the use counts of two keys never differ by more than the number
\* of threads, though the counts are read while other threads change them.
Balanced == \A k, l \in KeyIds : count[k] - count[l] <= Cardinality(KeyThreads)

\* AddressForGeocoder sends at most four requests, and each has one access key, that of
\* its own attempt, as in the comment that shows the url (lbs_baidu_connector.cc:89).  (The
\* other calls have no bound, and their url grows by one with every attempt.)
AddressRequests ==
  \A t \in KeyThreads :
    keyOp[t] = "address" => /\ tries[t] <= 4
                            /\ keyAt[t] = "sent" => url[t] = <<key[t]>>
=============================================================================
